--------------------------- MODULE ReleaseTracking ---------------------------
(***************************************************************************)
(* One ReleaseTracker driven by every sequence of calls: releases in any   *)
(* order, repeated, from before the window or beyond it, acknowledgements  *)
(* taken and failed, and a restart of the epoch.  `released` is history:   *)
(* the sequences release() recorded since the last reset.                  *)
(***************************************************************************)
EXTENDS CreditWindow

CONSTANTS
  Depth,      \* ring_depth of the tracker
  MaxSequence \* bound: sequences offered to release(), and first sequences of an epoch

ASSUME DepthAssumption == Depth \in Nat \ {0}
ASSUME MaxSequenceAssumption == MaxSequence \in Nat

VARIABLES
  tracker,  \* the ReleaseTracker
  released, \* history: sequences recorded in this epoch
  acked     \* history: the last acknowledgement handed out in this epoch, or -1

vars == <<tracker, released, acked>>

Init ==
  /\ tracker = NewTracker(Depth)
  /\ released = {}
  /\ acked = -1

release(sequence) ==
  /\ tracker' = Release(tracker, sequence)
  /\ released' = IF Recordable(tracker, sequence)
                   THEN released \union {sequence} ELSE released
  /\ UNCHANGED acked

take_pending_ack ==
  /\ AckPending(tracker)
  /\ tracker' = TakeAck(tracker)
  /\ acked' = TakeAck(tracker).last_ack_sent
  /\ UNCHANGED released

mark_ack_failed ==
  /\ tracker' = MarkAckFailed(tracker)
  /\ UNCHANGED <<released, acked>>

reset(first) ==
  /\ tracker' = ResetTracker(tracker, first)
  /\ released' = {}
  /\ acked' = -1

Next ==
  \/ \E sequence \in 0 .. MaxSequence : release(sequence)
  \/ take_pending_ack
  \/ mark_ack_failed
  \/ \E first \in 0 .. MaxSequence : reset(first)

Spec == Init /\ [][Next]_vars

-----------------------------------------------------------------------------
TypeOK ==
  /\ tracker \in TrackerType(Depth)
  /\ released \in SUBSET Nat
  /\ acked \in Nat \union {-1}

(* released_end and the bitmap together are exactly the set of sequences    *)
(* recorded in this epoch, though a bit is shared by all laps of the ring;  *)
(* and held_ahead counts the set bits.                                      *)
BitmapIsExact ==
  /\ ReleasedSet(tracker) = released
  /\ tracker.held_ahead = Cardinality(HeldBits(tracker))

(* released_end is the end of the longest contiguous run of recorded        *)
(* sequences, whatever order release() was called in: nothing below it is   *)
(* missing, and it is itself missing (credit_window.h, "First sequence not  *)
(* yet released contiguously").                                             *)
PrefixIsMaximal ==
  /\ tracker.start .. tracker.released_end - 1 \subseteq released
  /\ tracker.released_end \notin released

(* An acknowledgement covers only sequences that were released, and after   *)
(* one was handed out the tracker stays quiet until it has more to say, or  *)
(* the send failed.                                                         *)
AckCoversReleased ==
  /\ acked # -1 => tracker.start .. acked \subseteq released
  /\ tracker.ack_sent => tracker.last_ack_sent = acked

(* Within an epoch the prefix never moves back, and an acknowledgement is   *)
(* never taken back to an older one.                                        *)
Monotone ==
  [][released' # {} =>
       /\ tracker'.released_end >= tracker.released_end
       /\ acked' >= acked]_vars

=============================================================================
