--------------------------- MODULE CumulativeCredit ---------------------------
(***************************************************************************)
(* What credit-based flow control promises, without rings, bitmaps, engine *)
(* loops or a wire (docs/IMPLEMENTATION_SPEC.md 3.12, 5.4, 5.5): frames are *)
(* submitted in sequence, at most Window of them uncredited; each is        *)
(* finished with at most once, in any order; and credit covers only a       *)
(* finished prefix.                                                         *)
(***************************************************************************)
EXTENDS Integers

CONSTANT Window \* frames that may be outstanding at a time

VARIABLES
  submitted, \* frames submitted: sequences 0 .. submitted - 1
  finished,  \* sequences the receiver is done with
  credited   \* sequences 0 .. credited - 1 are credited

vars == <<submitted, finished, credited>>

Init == submitted = 0 /\ finished = {} /\ credited = 0

Submit ==
  /\ submitted - credited < Window
  /\ submitted' = submitted + 1
  /\ UNCHANGED <<finished, credited>>

Finish(s) ==
  /\ s \notin finished
  /\ finished' = finished \union {s}
  /\ UNCHANGED <<submitted, credited>>

Credit(end) ==
  /\ credited < end
  /\ 0 .. end - 1 \subseteq finished
  /\ credited' = end
  /\ UNCHANGED <<submitted, finished>>

Next ==
  \/ Submit
  \/ \E s \in 0 .. submitted - 1 : Finish(s)
  \/ \E end \in 1 .. submitted : Credit(end)

Spec == Init /\ [][Next]_vars

=============================================================================
