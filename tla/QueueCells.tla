----------------------------- MODULE QueueCells -----------------------------
(***************************************************************************)
(* What a user of BoundedQueue sees of its cells when pops take time       *)
(* (src/core/bounded_queue.h).  A pop claims the position at the head and  *)
(* gives the cell back later.  Pushes go round the ring in order, so a pop *)
(* that stalls half way keeps its own cell, and every cell popped behind   *)
(* it, from the next push: try_push then says full of a queue that is not. *)
(*                                                                         *)
(* `claimed` is the sequence of positions popped from the oldest pop still *)
(* under way: who is popping each, or Done.                                *)
(***************************************************************************)
EXTENDS Integers, Sequences, FiniteSetsExt

round_up_pow2(n) == Min({p \in {2 ^ e : e \in 0 .. n} : p >= n})

Done == "done"

\* try_push finds the cell at enqueue_pos free for this lap.
Room(items, claimed, capacity) == capacity - Len(items) - Len(claimed)

\* A pop that is over at once, behind those that are not.
PopWhole(claimed) == IF claimed = <<>> THEN claimed ELSE Append(claimed, Done)

\* A pop gives its cell back; the cells up to the next pop under way are free.
PopEnd(claimed, who) ==
  LET marked == [n \in DOMAIN claimed |-> IF claimed[n] = who THEN Done ELSE claimed[n]]
      open == {n \in DOMAIN marked : marked[n] # Done}
  IN  IF open = {} THEN <<>> ELSE SubSeq(marked, Min(open), Len(marked))

=============================================================================
