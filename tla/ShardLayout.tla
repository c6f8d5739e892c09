---------------------------- MODULE ShardLayout ----------------------------
(***************************************************************************)
(* Where the HDF5 client puts a frame                                      *)
(* (examples/example_hdf5_client/example_hdf5_client.cpp).  Frames are     *)
(* grouped into blocks of frames_per_block, blocks into stripes of         *)
(* blocks_per_stripe, and stripes are dealt to the writers in turn.  An    *)
(* option set o has the fields frames, writers, frames_per_block and       *)
(* blocks_per_stripe.                                                      *)
(***************************************************************************)
EXTENDS Integers

BlockCount(o) == o.frames \div o.frames_per_block

\* The checks at the end of parse_options().
Accepted(o) ==
  /\ o.frames # 0
  /\ o.frames % o.frames_per_block = 0
  /\ o.writers <= BlockCount(o)

locate_block(b, o) ==
  LET stripe == b \div o.blocks_per_stripe
  IN [writer |-> stripe % o.writers,
      local_block |-> (stripe \div o.writers) * o.blocks_per_stripe
                      + (b % o.blocks_per_stripe)]

\* The frames up to the last one of each shard.
local_frame_counts(o) ==
  LET Ends(w) == {(locate_block(b, o).local_block + 1) * o.frames_per_block :
                    b \in {c \in 0..(BlockCount(o) - 1) : locate_block(c, o).writer = w}}
      Last(S) == CHOOSE x \in S : \A y \in S : y <= x
  IN [w \in 0..(o.writers - 1) |-> Last(Ends(w) \union {0})]

\* The shard and the position in it from which the master takes frame n.
master_source(n, o) ==
  LET location == locate_block(n \div o.frames_per_block, o)
  IN [writer |-> location.writer,
      local_frame |-> location.local_block * o.frames_per_block
                      + (n % o.frames_per_block)]
=============================================================================
