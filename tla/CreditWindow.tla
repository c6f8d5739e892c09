---------------------------- MODULE CreditWindow ----------------------------
(***************************************************************************)
(* The two halves of cumulative credit (src/core/credit_window.{h,cpp}) as *)
(* operators on records: CreditWindow is the publisher's count of what is  *)
(* outstanding, ReleaseTracker turns the subscriber's out-of-order slot    *)
(* releases into one cumulative acknowledgement.  Sequences are 64 bits    *)
(* wide and start at 0, so they are modelled as naturals: no run of the    *)
(* program reaches the wrap.                                               *)
(***************************************************************************)
EXTENDS Integers, FiniteSets

-----------------------------------------------------------------------------
(* CreditWindow, publisher side.                                           *)

NewWindow(ringDepth, width) ==
  [ring_depth |-> ringDepth, width |-> width, next_sequence |-> 0, credited_end |-> 0]

Outstanding(w) == w.next_sequence - w.credited_end

CanSubmit(w) == Outstanding(w) < w.width

NoteSubmitted(w) == [w EXCEPT !.next_sequence = @ + 1]

(* The sequences a cumulative credit frees: everything from the window's   *)
(* base up to and including the acknowledged sequence.                     *)
Credited(w, ack) == w.credited_end .. ack

\* Mutant of ApplyCredit: the window base follows a stale credit backwards.
ApplyCreditBackwards(w, ack) ==
  IF ack >= w.next_sequence
    THEN [status |-> "MalformedMessage", released |-> {}, window |-> w]
    ELSE [status |-> "Ok", released |-> Credited(w, ack),
          window |-> [w EXCEPT !.credited_end = ack + 1]]

ApplyCredit(w, ack) ==
  IF ack >= w.next_sequence
    THEN [status |-> "MalformedMessage", released |-> {}, window |-> w]
    ELSE [status |-> "Ok", released |-> Credited(w, ack),
          window |-> IF ack + 1 <= w.credited_end THEN w
                     ELSE [w EXCEPT !.credited_end = ack + 1]]

ResetWindow(w, first) == [w EXCEPT !.next_sequence = first, !.credited_end = first]

-----------------------------------------------------------------------------
(* ReleaseTracker, subscriber side.  `held` is the bitmap words_, one bit  *)
(* per residue of the ring depth.                                          *)

TrackerType(depth) ==
  [ring_depth : {depth}, held : [0 .. depth - 1 -> BOOLEAN], start : Nat,
   released_end : Nat, held_ahead : Nat, last_ack_sent : Nat, ack_sent : BOOLEAN]

NewTracker(depth) ==
  [ring_depth |-> depth, held |-> [i \in 0 .. depth - 1 |-> FALSE], start |-> 0,
   released_end |-> 0, held_ahead |-> 0, last_ack_sent |-> 0, ack_sent |-> FALSE]

Bit(t, sequence) == sequence % t.ring_depth

Test(t, sequence) == t.held[Bit(t, sequence)]

(* How far the loop at the end of release() moves released_end: it stops   *)
(* at the first clear bit, or when held_ahead says nothing is left.        *)
PrefixLength(t) ==
  CHOOSE n \in 0 .. t.held_ahead :
    /\ \A i \in 0 .. n - 1 : Test(t, t.released_end + i)
    /\ n < t.held_ahead => ~Test(t, t.released_end + n)

ClearBits(t, n) ==
  LET cleared == {Bit(t, t.released_end + i) : i \in 0 .. n - 1}
  IN  [i \in DOMAIN t.held |-> t.held[i] /\ i \notin cleared]

\* Mutant of AdvancePrefix: the prefix moves by one bit and the loop is missing.
AdvancePrefixOnce(t) ==
  LET n == IF PrefixLength(t) = 0 THEN 0 ELSE 1
  IN  [t EXCEPT !.held = ClearBits(t, n), !.held_ahead = @ - n, !.released_end = @ + n]

AdvancePrefix(t) ==
  LET n == PrefixLength(t)
  IN  [t EXCEPT !.held = ClearBits(t, n), !.held_ahead = @ - n, !.released_end = @ + n]

SetBit(t, sequence) ==
  [t EXCEPT !.held[Bit(t, sequence)] = TRUE, !.held_ahead = @ + 1]

(* What release() accepts: a sequence of the current window, not recorded  *)
(* yet.  Everything else (Duplicate, OutOfWindow) leaves the tracker alone. *)
\* Mutant of Recordable: the window is one wider than the ring, so a bit of the
\* next lap is taken.
RecordableNextLap(t, sequence) ==
  /\ t.released_end <= sequence
  /\ sequence <= t.released_end + t.ring_depth
  /\ ~Test(t, sequence)

Recordable(t, sequence) ==
  /\ t.released_end <= sequence
  /\ sequence < t.released_end + t.ring_depth
  /\ ~Test(t, sequence)

\* Mutant of Release: a late duplicate moves the prefix back.
ReleaseBackwards(t, sequence) ==
  IF Recordable(t, sequence) THEN AdvancePrefix(SetBit(t, sequence))
  ELSE IF sequence < t.released_end THEN [t EXCEPT !.released_end = sequence + 1]
  ELSE t

Release(t, sequence) ==
  IF Recordable(t, sequence) THEN AdvancePrefix(SetBit(t, sequence)) ELSE t

(* take_pending_ack(): an acknowledgement is due when the contiguous       *)
(* prefix is not empty and its end has not been offered yet.               *)
AckPending(t) ==
  /\ t.released_end # t.start
  /\ ~(t.ack_sent /\ t.last_ack_sent = t.released_end - 1)

\* Mutant of TakeAck: acknowledges the first sequence that is not released.
TakeAckOffByOne(t) == [t EXCEPT !.last_ack_sent = t.released_end, !.ack_sent = TRUE]

TakeAck(t) == [t EXCEPT !.last_ack_sent = t.released_end - 1, !.ack_sent = TRUE]

MarkAckFailed(t) == [t EXCEPT !.ack_sent = FALSE]

ResetTracker(t, first) ==
  [NewTracker(t.ring_depth) EXCEPT !.start = first, !.released_end = first]

HeldBits(t) == {i \in 0 .. t.ring_depth - 1 : t.held[i]}

(* What a tracker stands for: the sequences released since its start, read  *)
(* back from released_end and the bitmap.                                   *)
ReleasedAhead(t) ==
  {s \in t.released_end .. t.released_end + t.ring_depth - 1 : Test(t, s)}

ReleasedSet(t) == (t.start .. t.released_end - 1) \union ReleasedAhead(t)

=============================================================================
