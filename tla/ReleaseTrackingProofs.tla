------------------------ MODULE ReleaseTrackingProofs ------------------------
(***************************************************************************)
(* The ReleaseTracker is right for every ring depth, every order of        *)
(* releases and every pattern of failed acknowledgements.  The invariants  *)
(* of ReleaseTracking are inductive together, once the prefix is known not *)
(* to lie before the epoch's first sequence.                               *)
(***************************************************************************)
EXTENDS ReleaseTracking, CreditWindowProofs

IInv ==
  /\ TypeOK
  /\ tracker.start <= tracker.released_end
  /\ BitmapIsExact
  /\ PrefixIsMaximal
  /\ AckCoversReleased

(* A new or reset tracker stands for the empty set.                         *)
LEMMA NewTrackerSpec ==
  ASSUME NEW first \in Nat, NEW t,
         t = [ring_depth |-> Depth, held |-> [i \in 0 .. Depth - 1 |-> FALSE],
              start |-> first, released_end |-> first, held_ahead |-> 0,
              last_ack_sent |-> 0, ack_sent |-> FALSE]
  PROVE  /\ t \in TrackerType(Depth)
         /\ t.held_ahead = Cardinality(HeldBits(t))
         /\ ReleasedSet(t) = {}
         /\ t.start .. t.released_end - 1 = {}
         /\ t.start <= t.released_end
<1>1. Depth \in Nat \ {0}
  BY DepthAssumption
<1>2. t \in TrackerType(Depth)
  BY <1>1 DEF TrackerType
<1>3. HeldBits(t) = {}
  BY <1>1 DEF HeldBits
<1>4. \A s \in Nat : s % Depth \in 0 .. Depth - 1
  BY <1>1, ModRange
<1>5. ReleasedAhead(t) = {}
  <2> SUFFICES ASSUME NEW s \in first .. first + Depth - 1 PROVE ~Test(t, s)
    BY DEF ReleasedAhead
  <2>1. s \in Nat
    BY <1>1
  <2>2. s % Depth \in 0 .. Depth - 1
    BY <1>4, <2>1, Zenon
  <2> QED
    BY <2>2 DEF Test, Bit
<1>6. t.held_ahead = Cardinality(HeldBits(t))
  BY <1>3, FS_EmptySet
<1>7. t.start .. t.released_end - 1 = {} /\ t.start <= t.released_end
  OBVIOUS
<1> QED
  BY <1>2, <1>5, <1>6, <1>7 DEF ReleasedSet

(* The constructor establishes the inductive invariant.                      *)
LEMMA InitIInv == Init => IInv
<1> SUFFICES ASSUME Init PROVE IInv
  OBVIOUS
<1>1. tracker = [ring_depth |-> Depth, held |-> [i \in 0 .. Depth - 1 |-> FALSE],
                 start |-> 0, released_end |-> 0, held_ahead |-> 0,
                 last_ack_sent |-> 0, ack_sent |-> FALSE]
  BY DEF Init, NewTracker
<1>2. /\ tracker \in TrackerType(Depth)
      /\ tracker.held_ahead = Cardinality(HeldBits(tracker))
      /\ ReleasedSet(tracker) = {}
      /\ tracker.start .. tracker.released_end - 1 = {}
      /\ tracker.start <= tracker.released_end
  BY <1>1, NewTrackerSpec
<1>3. released = {} /\ acked = -1
  BY DEF Init
<1> QED
  BY <1>1, <1>2, <1>3 DEF IInv, TypeOK, BitmapIsExact, PrefixIsMaximal, AckCoversReleased

(* release() in any state of the tracker.                                    *)
LEMMA ReleaseIInv ==
  ASSUME IInv, NEW s \in 0 .. MaxSequence, release(s)
  PROVE  IInv'
<1>1. s \in Nat
  BY MaxSequenceAssumption
<1>2. Depth \in Nat \ {0} /\ tracker \in TrackerType(Depth)
  BY DepthAssumption DEF IInv, TypeOK
<1>3. CASE ~Recordable(tracker, s)
  <2>1. UNCHANGED vars
    BY <1>3 DEF release, Release, vars
  <2> QED
    BY <2>1 DEF IInv, TypeOK, BitmapIsExact, PrefixIsMaximal, AckCoversReleased, vars
<1>4. CASE Recordable(tracker, s)
  <2>1. tracker' = Release(tracker, s) /\ released' = released \union {s} /\ acked' = acked
    BY <1>4 DEF release
  <2>2. /\ tracker.held_ahead = Cardinality(HeldBits(tracker))
        /\ tracker.start <= tracker.released_end
    BY DEF IInv, BitmapIsExact
  <2>3. /\ tracker' \in TrackerType(Depth)
        /\ tracker'.held_ahead = Cardinality(HeldBits(tracker'))
        /\ tracker'.start = tracker.start
        /\ tracker'.last_ack_sent = tracker.last_ack_sent
        /\ tracker'.ack_sent = tracker.ack_sent
        /\ tracker.released_end <= tracker'.released_end
        /\ ReleasedSet(tracker') = ReleasedSet(tracker) \union {s}
        /\ ~Test(tracker', tracker'.released_end)
    BY <1>1, <1>2, <1>4, <2>1, <2>2, ReleaseSpec
  <2>4. tracker.start \in Nat /\ tracker.released_end \in Nat /\ tracker'.released_end \in Nat
    BY <1>2, <2>3 DEF TrackerType
  <2>5. TypeOK'
    BY <1>1, <2>1, <2>3 DEF IInv, TypeOK
  <2>6. tracker'.start <= tracker'.released_end
    BY <2>2, <2>3, <2>4
  <2>7. BitmapIsExact'
    BY <2>1, <2>3 DEF IInv, BitmapIsExact
  <2>8. PrefixIsMaximal'
    <3>1. released' = ReleasedSet(tracker')
      BY <2>7 DEF BitmapIsExact
    <3> QED
      BY <2>3, <2>4, <3>1 DEF PrefixIsMaximal, ReleasedSet, ReleasedAhead
  <2>9. AckCoversReleased'
    BY <2>1, <2>3 DEF IInv, AckCoversReleased
  <2> QED
    BY <2>5, <2>6, <2>7, <2>8, <2>9 DEF IInv
<1> QED
  BY <1>3, <1>4

(* Taking or losing an acknowledgement leaves the recorded set alone.        *)
LEMMA AckIInv ==
  ASSUME IInv, take_pending_ack \/ mark_ack_failed
  PROVE  IInv'
<1>1. Depth \in Nat \ {0} /\ tracker \in TrackerType(Depth)
  BY DepthAssumption DEF IInv, TypeOK
<1>2. /\ tracker.start \in Nat /\ tracker.released_end \in Nat
      /\ tracker.start <= tracker.released_end
  BY <1>1 DEF IInv, TrackerType
<1>3. CASE take_pending_ack
  <2>1. tracker.released_end - 1 \in Nat /\ tracker.start <= tracker.released_end - 1
    BY <1>2, <1>3 DEF take_pending_ack, AckPending
  <2>2. /\ tracker' = [tracker EXCEPT !.last_ack_sent = tracker.released_end - 1,
                                      !.ack_sent = TRUE]
        /\ acked' = tracker'.last_ack_sent /\ released' = released
    BY <1>3 DEF take_pending_ack, TakeAck
  <2>3. /\ tracker' \in TrackerType(Depth)
        /\ tracker'.ring_depth = tracker.ring_depth /\ tracker'.held = tracker.held
        /\ tracker'.start = tracker.start /\ tracker'.released_end = tracker.released_end
        /\ tracker'.held_ahead = tracker.held_ahead
        /\ tracker'.last_ack_sent = tracker.released_end - 1
    BY <1>1, <2>1, <2>2 DEF TrackerType
  <2>4. HeldBits(tracker') = HeldBits(tracker) /\ ReleasedSet(tracker') = ReleasedSet(tracker)
    BY <2>3 DEF HeldBits, ReleasedSet, ReleasedAhead, Test, Bit
  <2> QED
    BY <2>1, <2>2, <2>3, <2>4
    DEF IInv, TypeOK, BitmapIsExact, PrefixIsMaximal, AckCoversReleased
<1>4. CASE mark_ack_failed
  <2>1. /\ tracker' = [tracker EXCEPT !.ack_sent = FALSE]
        /\ acked' = acked /\ released' = released
    BY <1>4 DEF mark_ack_failed, MarkAckFailed
  <2>2. /\ tracker' \in TrackerType(Depth)
        /\ tracker'.ring_depth = tracker.ring_depth /\ tracker'.held = tracker.held
        /\ tracker'.start = tracker.start /\ tracker'.released_end = tracker.released_end
        /\ tracker'.held_ahead = tracker.held_ahead /\ tracker'.ack_sent = FALSE
    BY <1>1, <2>1 DEF TrackerType
  <2>3. HeldBits(tracker') = HeldBits(tracker) /\ ReleasedSet(tracker') = ReleasedSet(tracker)
    BY <2>2 DEF HeldBits, ReleasedSet, ReleasedAhead, Test, Bit
  <2> QED
    BY <2>1, <2>2, <2>3
    DEF IInv, TypeOK, BitmapIsExact, PrefixIsMaximal, AckCoversReleased
<1> QED
  BY <1>3, <1>4

(* reset() starts a new epoch with nothing recorded.                         *)
LEMMA ResetIInv ==
  ASSUME IInv, NEW first \in 0 .. MaxSequence, reset(first)
  PROVE  IInv'
<1>1. first \in Nat
  BY MaxSequenceAssumption
<1>2. tracker.ring_depth = Depth
  BY DEF IInv, TypeOK, TrackerType
<1>3. tracker' = [ring_depth |-> Depth, held |-> [i \in 0 .. Depth - 1 |-> FALSE],
                  start |-> first, released_end |-> first, held_ahead |-> 0,
                  last_ack_sent |-> 0, ack_sent |-> FALSE]
  BY <1>2 DEF reset, ResetTracker, NewTracker
<1>4. /\ tracker' \in TrackerType(Depth)
      /\ tracker'.held_ahead = Cardinality(HeldBits(tracker'))
      /\ ReleasedSet(tracker') = {}
      /\ tracker'.start .. tracker'.released_end - 1 = {}
      /\ tracker'.start <= tracker'.released_end
  BY <1>1, <1>3, NewTrackerSpec
<1>5. released' = {} /\ acked' = -1
  BY DEF reset
<1> QED
  BY <1>1, <1>3, <1>4, <1>5
  DEF IInv, TypeOK, BitmapIsExact, PrefixIsMaximal, AckCoversReleased

(* Every call on the tracker preserves the inductive invariant.              *)
LEMMA StepIInv == IInv /\ [Next]_vars => IInv'
<1> SUFFICES ASSUME IInv, [Next]_vars PROVE IInv'
  OBVIOUS
<1>1. CASE UNCHANGED vars
  BY <1>1 DEF IInv, TypeOK, BitmapIsExact, PrefixIsMaximal, AckCoversReleased, vars
<1>2. CASE \E sequence \in 0 .. MaxSequence : release(sequence)
  BY <1>2, ReleaseIInv
<1>3. CASE take_pending_ack \/ mark_ack_failed
  BY <1>3, AckIInv
<1>4. CASE \E first \in 0 .. MaxSequence : reset(first)
  BY <1>4, ResetIInv
<1> QED
  BY <1>1, <1>2, <1>3, <1>4 DEF Next

(* The inductive invariant holds in every state the tracker can reach.       *)
LEMMA Invariance == Spec => []IInv
  BY InitIInv, StepIInv, PTL DEF Spec

(* The tracker's fields keep their types, whatever sequence of calls          *)
(* release(), take_pending_ack(), mark_ack_failed() and reset() it receives.  *)
THEOREM TypeCorrect == Spec => []TypeOK
<1>1. IInv => TypeOK
  BY DEF IInv
<1> QED
  BY <1>1, Invariance, PTL

(* For every ring depth, the bitmap and released_end stand for exactly the    *)
(* sequences release() recorded: no bit of another lap is ever read as one    *)
(* of this lap.                                                               *)
THEOREM TrackerExact == Spec => []BitmapIsExact
<1>1. IInv => BitmapIsExact
  BY DEF IInv
<1> QED
  BY <1>1, Invariance, PTL

(* For every ring depth and every order of releases, released_end is the end  *)
(* of the longest recorded run.                                               *)
THEOREM PrefixMaximal == Spec => []PrefixIsMaximal
<1>1. IInv => PrefixIsMaximal
  BY DEF IInv
<1> QED
  BY <1>1, Invariance, PTL

(* Every acknowledgement take_pending_ack() hands out covers released         *)
(* sequences only.                                                            *)
THEOREM AckSound == Spec => []AckCoversReleased
<1>1. IInv => AckCoversReleased
  BY DEF IInv
<1> QED
  BY <1>1, Invariance, PTL

(* Within an epoch neither the prefix nor the acknowledgements move back: a    *)
(* credit the publisher has seen is never withdrawn.                           *)
THEOREM NeverBackwards == Spec => Monotone
<1> DEFINE A == released' # {} => /\ tracker'.released_end >= tracker.released_end
                                  /\ acked' >= acked
<1>1. IInv /\ [Next]_vars => [A]_vars
  <2> SUFFICES ASSUME IInv, Next PROVE A
    OBVIOUS
  <2>1. /\ Depth \in Nat \ {0} /\ tracker \in TrackerType(Depth)
        /\ tracker.start \in Nat /\ tracker.released_end \in Nat
        /\ tracker.start <= tracker.released_end /\ acked \in Nat \union {-1}
        /\ tracker.held_ahead = Cardinality(HeldBits(tracker))
    BY DepthAssumption DEF IInv, TypeOK, TrackerType, BitmapIsExact
  <2>2. ASSUME NEW s \in 0 .. MaxSequence, release(s)
        PROVE  A
    <3>1. s \in Nat
      BY MaxSequenceAssumption
    <3>2. CASE Recordable(tracker, s)
      <4>1. tracker.released_end <= Release(tracker, s).released_end
        BY <2>1, <3>1, <3>2, ReleaseSpec
      <4>2. Release(tracker, s) \in TrackerType(Depth)
        BY <2>1, <3>1, <3>2, ReleaseSpec
      <4> QED
        BY <2>1, <2>2, <4>1, <4>2 DEF release, TrackerType
    <3>3. CASE ~Recordable(tracker, s)
      BY <2>1, <2>2, <3>3 DEF release, Release
    <3> QED
      BY <3>2, <3>3
  <2>3. CASE take_pending_ack
    <3>1. tracker'.released_end = tracker.released_end /\ acked' = tracker.released_end - 1
      BY <2>1, <2>3 DEF take_pending_ack, TakeAck, TrackerType
    <3>2. acked <= tracker.released_end - 1
      <4> SUFFICES ASSUME acked >= tracker.released_end PROVE FALSE
        BY <2>1
      <4>1. tracker.released_end \in tracker.start .. acked
        BY <2>1
      <4> QED
        BY <2>1, <4>1 DEF IInv, PrefixIsMaximal, AckCoversReleased
    <3> QED
      BY <2>1, <3>1, <3>2
  <2>4. CASE mark_ack_failed
    BY <2>1, <2>4 DEF mark_ack_failed, MarkAckFailed, TrackerType
  <2>5. ASSUME NEW first \in 0 .. MaxSequence, reset(first)
        PROVE  A
    BY <2>5 DEF reset
  <2> QED
    BY <2>2, <2>3, <2>4, <2>5 DEF Next
<1> QED
  BY <1>1, Invariance, PTL DEF Spec, Monotone

=============================================================================
