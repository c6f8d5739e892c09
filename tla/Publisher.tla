------------------------------ MODULE Publisher ------------------------------
(***************************************************************************)
(* The publisher's data path (src/ucx/publisher_impl.cpp,                  *)
(* src/ucx/producer_slots.h): application threads acquire producer slots   *)
(* and publish them; the engine thread fans each frame out to every armed  *)
(* session, counts how many sessions still owe a credit for the slot, and  *)
(* tears sessions down when they end.  A slot goes back to the producer    *)
(* when its count reaches zero.                                            *)
(*                                                                         *)
(* Subscribers are their credits: any acknowledgement may arrive at any    *)
(* time.  How sessions are opened, renewed and closed is in Coordination;  *)
(* here they come and go.                                                  *)
(***************************************************************************)
EXTENDS CreditWindow, QueueCells, Functions

CONSTANTS
  Seats,        \* the session table
  Slots,        \* the producer slots, config.ring_depth of them
  ConfigWindow, \* config.credit_window
  Grants,       \* the credit window granted to each client, in the order they come
  QueueDepth,   \* config.publish_queue_depth
  FanoutModes,  \* config.fanout_mode is one of these
  Outcomes,     \* what a send can do here: "inline", "posted", "refused"
  MaxFrames,    \* bound on frames admitted
  MaxOpens      \* bound on sessions opened

\* As many InFlight entries per session as there are producer slots.
RingDepth == Cardinality(Slots)

\* The cells of ProducerSlots' queue of free slots.
FreeCells == round_up_pow2(RingDepth)

ASSUME ConfigAssumption ==
  /\ IsFiniteSet(Slots) /\ Slots # {} /\ QueueDepth \in Nat \ {0}
  /\ ConfigWindow \in 1 .. RingDepth
  /\ Grants \in Seq(1 .. ConfigWindow)
  /\ FanoutModes \subseteq {"BestEffort", "AllActive"}
  /\ Outcomes \subseteq {"inline", "posted", "refused"}

ASSUME PublisherBounds == MaxFrames \in Nat /\ MaxOpens \in 0 .. Len(Grants) /\ IsFiniteSet(Seats)

VARIABLES
  fanout_mode,   \* config.fanout_mode
  free,          \* free_slots_ of ProducerSlots
  acquiring,     \* its cells that try_acquire() has claimed and not given back
  handles,       \* slots owned by live SlotHandles
  publishing,    \* the publish() that holds publish_reservation
  publish_queue,
  slot_refs,
  admitted,
  gauges,        \* credited, all_active_admission_limit, armed_sessions
  session,       \* the session table
  sends,         \* posted sends whose on_send_complete has not run
  opening,       \* handle_open() calls that have chosen a seat and wait in connect()
  opens,         \* sessions opened so far; numbers the sessions
  history        \* slots `lost`, sessions `ousted` from their seats, claims `orphaned`

appVars == <<free, acquiring, handles, publishing>>
engineVars == <<slot_refs, gauges, session, sends>>
openVars == <<opening, opens>>
vars == <<fanout_mode, appVars, publish_queue, admitted, engineVars, openVars, history>>

\* numeric_limits<uint64_t>::max(), the limit when nobody is armed.
Unlimited == MaxFrames + RingDepth + 1

None == "none"

Idle == [at |-> "idle", slot |-> None, ordinal |-> 0, armed |-> {}]

\* An InFlight entry of no outstanding sequence.  The code leaves the old values
\* there and never reads them; the model forgets them.
DeadEntry == [slot |-> None, ordinal |-> 0]

\* `number` names the session that has the seat; `level` is history: no frame
\* admitted before the session armed was still queued when it did.
FreshSession ==
  [state |-> "Unknown", number |-> 0, window |-> NewWindow(RingDepth, ConfigWindow),
   inflight |-> [i \in 0 .. RingDepth - 1 |-> DeadEntry], processed_ordinal |-> 0,
   poisoned |-> FALSE, level |-> FALSE]

Init ==
  /\ fanout_mode \in FanoutModes
  /\ free \in [1 .. RingDepth -> Slots] /\ Range(free) = Slots
  /\ acquiring = <<>>
  /\ handles = {} /\ publishing = Idle
  /\ publish_queue = <<>>
  /\ slot_refs = [i \in Slots |-> 0]
  /\ admitted = 0
  /\ gauges = [credited |-> 0, limit |-> Unlimited, armed |-> 0]
  /\ session = [k \in Seats |-> FreshSession]
  /\ sends = {}
  /\ opening = {} /\ opens = 0
  /\ history = [lost |-> {}, ousted |-> {}, orphaned |-> {}]

Eligible(s) == s.state \in {"Armed", "Active"}
Live(s) == s.state \in {"Open", "Armed", "Active"}

\* The InFlight entry of a sequence.
Entry(s, sequence) == s.inflight[sequence % RingDepth]

Uncredited(s) == s.window.credited_end .. s.window.next_sequence - 1

Forget(inflight, sequences) ==
  [i \in DOMAIN inflight |->
     IF i \in {q % RingDepth : q \in sequences} THEN DeadEntry ELSE inflight[i]]

\* sends_inflight of a seat, and those posted for the session that has it now.
SendsInflight(k) == {x \in sends : x.seat = k}
PostedBy(k) == {x \in SendsInflight(k) : x.number = session[k].number}

-----------------------------------------------------------------------------
(* What the engine publishes for publish() to read, and slot counting.     *)

\* How far a session has got, in publish ordinals.
Retired(s) ==
  IF Outstanding(s.window) = 0 THEN s.processed_ordinal
  ELSE Entry(s, s.window.credited_end).ordinal

\* Mutant of refresh_gauges: the strict limit follows the fastest session.
refresh_gauges_fastest(ss) ==
  LET armed == {k \in Seats : Eligible(ss[k])}
      retired == {Retired(ss[k]) : k \in armed}
  IN  IF armed = {}
        THEN [credited |-> admitted, limit |-> Unlimited, armed |-> 0]
        ELSE [credited |-> Max(retired),
              limit |-> Max({Retired(ss[k]) + ss[k].window.width : k \in armed}),
              armed |-> Cardinality(armed)]

refresh_gauges(ss) ==
  LET armed == {k \in Seats : Eligible(ss[k])}
      retired == {Retired(ss[k]) : k \in armed}
  IN  IF armed = {}
        THEN [credited |-> admitted, limit |-> Unlimited, armed |-> 0]
        ELSE [credited |-> IF fanout_mode = "AllActive" THEN Min(retired \union {admitted})
                           ELSE Max(retired),
              limit |-> Min({Retired(ss[k]) + ss[k].window.width : k \in armed}),
              armed |-> Cardinality(armed)]

\* ProducerSlots::release() of some slots in turn.  A push that finds no cell
\* fails an assertion, which a build with NDEBUG leaves out: the slot is lost.
release(slots) ==
  LET room == Room(free, acquiring, FreeCells)
  IN  /\ free' = free \o SubSeq(slots, 1, Min({room, Len(slots)}))
      /\ history' = [history EXCEPT !.lost = @ \union {slots[n] : n \in room + 1 .. Len(slots)}]

\* The slots of the first n sequences that a session owes a credit for.
Owed(s, n) == [m \in 1 .. n |-> Entry(s, s.window.credited_end + m - 1).slot]

\* One session's claims on some slots are dropped; a slot whose count reaches
\* zero goes back to the producer.
release_slot_ref(slots) ==
  /\ slot_refs' = [i \in Slots |-> slot_refs[i] - Cardinality({n \in DOMAIN slots : slots[n] = i})]
  /\ release(SelectSeq(slots, LAMBDA i : slot_refs[i] = 1))

-----------------------------------------------------------------------------
(* Application threads.                                                    *)

notApp == <<fanout_mode, publish_queue, admitted, engineVars, openVars>>

\* try_acquire() claims a cell of the queue of free slots, and gives it back.
try_acquire ==
  /\ free # <<>>
  /\ free' = Tail(free)
  /\ acquiring' = Append(acquiring, Head(free))
  /\ UNCHANGED <<handles, publishing, history, notApp>>

acquired(i) ==
  /\ i \in Range(acquiring)
  /\ acquiring' = PopEnd(acquiring, i)
  /\ handles' = handles \union {i}
  /\ UNCHANGED <<free, publishing, history, notApp>>

\* SlotHandle::reset(): the handle is dropped, or publish() refuses the frame
\* for its metadata, for shutdown, or because nobody is armed.
reset(i) ==
  /\ i \in handles
  /\ publishing.at = "idle" \/ publishing.slot # i
  /\ handles' = handles \ {i}
  /\ release(<<i>>)
  /\ UNCHANGED <<acquiring, publishing, notApp>>

\* publish() sees an armed session and takes the reservation.  A thread that
\* finds the reservation taken returns QueueFull and changes nothing.
publish_reserve(i) ==
  /\ i \in handles
  /\ gauges.armed # 0
  /\ publishing.at = "idle"
  /\ admitted < MaxFrames
  /\ publishing' = [Idle EXCEPT !.at = "reserved", !.slot = i]
  /\ UNCHANGED <<free, acquiring, handles, history, notApp>>

WouldBlock == fanout_mode = "AllActive" /\ admitted >= gauges.limit
CreditStalled == fanout_mode = "BestEffort" /\ admitted - gauges.credited >= ConfigWindow

\* publish()'s admission decision: WouldBlock leaves the slot with the caller,
\* CreditStalled takes it.  `armed` is history: who was armed at acceptance.
publish_decide ==
  /\ publishing.at = "reserved"
  /\ publishing' =
       IF WouldBlock \/ CreditStalled THEN Idle
       ELSE [publishing EXCEPT !.at = "push", !.ordinal = admitted,
             !.armed = IF fanout_mode = "AllActive"
                         THEN {session[k].number : k \in {j \in Seats : Eligible(session[j])}}
                         ELSE {}]
  /\ IF CreditStalled
       THEN handles' = handles \ {publishing.slot} /\ release(<<publishing.slot>>)
       ELSE UNCHANGED <<handles, free, history>>
  /\ UNCHANGED <<acquiring, notApp>>

Enqueue ==
  publish_queue' = Append(publish_queue, [slot |-> publishing.slot,
                                          ordinal |-> publishing.ordinal,
                                          armed |-> publishing.armed])

\* Mutant of publish_push: the reservation is given up with the push, before
\* admitted is raised.
publish_push_unreserved ==
  /\ publishing.at = "push"
  /\ Len(publish_queue) < QueueDepth
  /\ Enqueue
  /\ handles' = handles \ {publishing.slot}
  /\ publishing' = Idle
  /\ UNCHANGED <<fanout_mode, free, acquiring, admitted, engineVars, openVars, history>>

\* The frame enters the queue, or QueueFull leaves it with the caller.
publish_push ==
  /\ publishing.at = "push"
  /\ IF Len(publish_queue) < QueueDepth
       THEN /\ Enqueue
            /\ handles' = handles \ {publishing.slot}
            /\ publishing' = [publishing EXCEPT !.at = "admit"]
       ELSE publishing' = Idle /\ UNCHANGED <<publish_queue, handles>>
  /\ UNCHANGED <<fanout_mode, free, acquiring, admitted, engineVars, openVars, history>>

\* admitted is raised after the push, so the engine may have fanned the frame
\* out already.
publish_admit ==
  /\ publishing.at = "admit"
  /\ admitted' = admitted + 1
  /\ publishing' = Idle
  /\ UNCHANGED <<fanout_mode, free, acquiring, handles, publish_queue, engineVars, openVars, history>>

-----------------------------------------------------------------------------
(* The engine thread.  A Close, which claims the end of a session from     *)
(* another thread, may land inside fan_out(); a second Open that lands on  *)
(* a session in use (open_claim) is placed between engine steps.           *)

notEngine == <<fanout_mode, acquiring, handles, publishing, admitted, openVars>>

\* One session takes the frame.  A send that is refused assigns no sequence and
\* ends the session.
submit_to(s, item, outcome) ==
  IF outcome = "refused" THEN [s EXCEPT !.state = "Expiring"]
  ELSE [s EXCEPT !.inflight[s.window.next_sequence % RingDepth] =
                     [slot |-> item.slot, ordinal |-> item.ordinal],
                 !.window = NoteSubmitted(@), !.state = "Active"]

Posted(k, item) ==
  [seat |-> k, number |-> session[k].number, sequence |-> session[k].window.next_sequence,
   slot |-> item.slot, reading |-> TRUE]

\* fan_out(), the frame at the head of the queue.  A send completes inline, is
\* posted, or is refused; a Close may reach a session between the eligibility
\* check and the end of the loop.
FanOutTo(item, taking, outcome, closing) ==
  [k \in Seats |->
     LET seen == [session[k] EXCEPT !.processed_ordinal = item.ordinal + 1]
         done == IF k \in taking THEN submit_to(seen, item, outcome[k]) ELSE seen
     IN  IF ~Eligible(session[k]) THEN session[k]
         ELSE IF k \in closing THEN [done EXCEPT !.state = "Expiring"]
         ELSE done]

FanOutRest(item, taking, outcome, closing, refs) ==
  /\ session' = FanOutTo(item, taking, outcome, closing)
  /\ slot_refs' = [slot_refs EXCEPT ![item.slot] = refs]
  /\ release(IF refs = 0 THEN <<item.slot>> ELSE <<>>)
  /\ sends' = sends \union {Posted(k, item) : k \in {j \in taking : outcome[j] = "posted"}}
  /\ publish_queue' = Tail(publish_queue)
  /\ gauges' = refresh_gauges(session')
  /\ UNCHANGED notEngine

Takers == {k \in Seats : Eligible(session[k]) /\ CanSubmit(session[k].window)}

\* Mutant of fan_out: a refused send keeps its claim on the slot.
fan_out_leaky ==
  /\ publish_queue # <<>>
  /\ \E outcome \in [Takers -> Outcomes],
        closing \in SUBSET {k \in Seats : Eligible(session[k])} :
       FanOutRest(Head(publish_queue), Takers, outcome, closing, Cardinality(Takers))

fan_out ==
  /\ publish_queue # <<>>
  /\ \E outcome \in [Takers -> Outcomes],
        closing \in SUBSET {k \in Seats : Eligible(session[k])} :
       FanOutRest(Head(publish_queue), Takers, outcome, closing,
                  Cardinality({k \in Takers : outcome[k] # "refused"}))

\* Mutant of on_send_complete: local completion drops the session's claim.
on_send_complete_releases(x) ==
  /\ x \in sends
  /\ sends' = sends \ {x}
  /\ release_slot_ref(<<x.slot>>)
  /\ UNCHANGED <<publish_queue, gauges, session, notEngine>>

\* Local completion frees the request and nothing else.
on_send_complete(x) ==
  /\ x \in sends
  /\ sends' = sends \ {x}
  /\ UNCHANGED <<free, publish_queue, slot_refs, gauges, session, history, notEngine>>

\* A credit for a live session.  An acknowledgement of a frame never submitted
\* is malformed and a stale one releases nothing; a credited payload has been
\* read to the end.
handle_credit(k, ack) ==
  LET outcome == ApplyCredit(session[k].window, ack)
      slots == Owed(session[k], Cardinality(outcome.released))
  IN  /\ Live(session[k])
      /\ outcome.released # {}
      /\ session' = [session EXCEPT ![k].window = outcome.window,
                       ![k].inflight = Forget(@, outcome.released)]
      /\ release_slot_ref(slots)
      /\ sends' = {IF x \in PostedBy(k) /\ x.sequence <= ack
                     THEN [x EXCEPT !.reading = FALSE] ELSE x : x \in sends}
      /\ gauges' = refresh_gauges(session')
      /\ UNCHANGED <<publish_queue, notEngine>>

\* Open becomes Armed, level with what has been admitted.
handle_probe_ack(k) ==
  /\ session[k].state = "Open"
  /\ session' = [session EXCEPT ![k].state = "Armed", ![k].processed_ordinal = admitted,
                   ![k].level = \A n \in 1 .. Len(publish_queue) :
                                   publish_queue[n].ordinal >= admitted]
  /\ gauges' = refresh_gauges(session')
  /\ UNCHANGED <<free, publish_queue, slot_refs, sends, history, notEngine>>

\* A deadline, a Close or a shutdown claims the end of a session.
begin_expiry(k) ==
  /\ Live(session[k])
  /\ session' = [session EXCEPT ![k].state = "Expiring"]
  /\ UNCHANGED <<free, publish_queue, slot_refs, gauges, sends, history, notEngine>>

\* The session's claims are dropped and its seat retired.  `uncollected` are
\* the sends whose completion the bounded flush, close and drain did not see,
\* those of a session that had the seat before included.
teardown(k) ==
  /\ session[k].state = "Expiring"
  /\ \E uncollected \in SUBSET SendsInflight(k) :
       /\ session' = [session EXCEPT ![k].state = "Closed", ![k].window = ResetWindow(@, 0),
                        ![k].inflight = Forget(@, Uncredited(session[k])),
                        ![k].processed_ordinal = 0, ![k].poisoned = @ \/ uncollected # {},
                        ![k].level = FALSE]
       /\ sends' = (sends \ SendsInflight(k)) \union uncollected
  /\ gauges' = refresh_gauges(session')
  /\ release_slot_ref(Owed(session[k], Outstanding(session[k].window)))
  /\ UNCHANGED <<publish_queue, notEngine>>

-----------------------------------------------------------------------------
(* handle_open(), on coordination threads.  The seat is chosen under       *)
(* session_mutex, the thread waits for the engine to connect, and the seat *)
(* is claimed under the mutex again without another look at it.            *)

\* The chosen seat, and which session it had then (`saw`).
Chosen(k) ==
  /\ opens < MaxOpens
  /\ opens' = opens + 1
  /\ opening' = opening \union
                  {[number |-> opens + 1, seat |-> k, width |-> Grants[opens + 1],
                    saw |-> session[k].number]}
  /\ UNCHANGED <<fanout_mode, appVars, publish_queue, admitted, engineVars, history>>

\* Mutant of open_choose: a poisoned seat is taken again.
open_choose_poisoned(k) ==
  /\ session[k].state \in {"Unknown", "Closed"}
  /\ Chosen(k)

\* A seat never used, or retired and not poisoned.  (Which of several is left
\* open.)
open_choose(k) ==
  /\ \/ session[k].state = "Unknown"
     \/ session[k].state = "Closed" /\ ~session[k].poisoned
  /\ Chosen(k)

\* The seat is claimed whatever it has become.  When another Open has claimed it
\* since, that session is ousted: its window is replaced, and the claims it had
\* on slots are nobody's.
open_claim(o) ==
  LET s == session[o.seat]
      ousts == s.number # o.saw
  IN  /\ o \in opening
      /\ opening' = opening \ {o}
      /\ session' = [session EXCEPT ![o.seat] =
                       [s EXCEPT !.state = "Open", !.number = o.number, !.level = FALSE,
                                 !.window = NewWindow(RingDepth, o.width),
                                 !.inflight = FreshSession.inflight]]
      /\ history' = [history EXCEPT
                       !.ousted = IF ousts THEN @ \union {s.number} ELSE @,
                       !.orphaned = @ \union {[number |-> s.number, slot |-> Entry(s, q).slot] :
                                                q \in Uncredited(s)}]
      /\ UNCHANGED <<fanout_mode, appVars, publish_queue, admitted, slot_refs, gauges, sends, opens>>

Application ==
  \/ try_acquire
  \/ \E i \in Slots : acquired(i) \/ reset(i) \/ publish_reserve(i)
  \/ publish_decide \/ publish_push \/ publish_admit

Engine ==
  \/ fan_out
  \/ \E x \in sends : on_send_complete(x)
  \/ \E k \in Seats : teardown(k)

Client(k) ==
  \/ \E ack \in Uncredited(session[k]) : handle_credit(k, ack)
  \/ begin_expiry(k)
  \/ handle_probe_ack(k)

Next ==
  \/ Application
  \/ Engine
  \/ \E k \in Seats : Client(k) \/ open_choose(k)
  \/ \E o \in opening : open_claim(o)

Spec == Init /\ [][Next]_vars

-----------------------------------------------------------------------------
(* Properties.                                                             *)

Queued(i) == {n \in 1 .. Len(publish_queue) : publish_queue[n].slot = i}

\* The frames for which a session still owes a credit on slot i.
Claims(i) ==
  UNION {{<<k, q>> : q \in {r \in Uncredited(session[k]) : Entry(session[k], r).slot = i}} :
           k \in Seats}

States == {"Unknown", "Open", "Armed", "Active", "Expiring", "Closed"}

WindowType ==
  [ring_depth : {RingDepth}, width : 1 .. RingDepth, next_sequence : Nat, credited_end : Nat]

SessionType ==
  [state : States, number : Nat, window : WindowType,
   inflight : [0 .. RingDepth - 1 -> [slot : Slots \union {None}, ordinal : Nat]],
   processed_ordinal : Nat, poisoned : BOOLEAN, level : BOOLEAN]

\* The variables keep their types: no slot count goes negative, and no window is
\* granted more than the ring holds.
TypeOK ==
  /\ fanout_mode \in FanoutModes
  /\ free \in Seq(Slots) /\ acquiring \in Seq(Slots \union {Done}) /\ handles \subseteq Slots
  /\ publishing \in [at : {"idle", "reserved", "push", "admit"}, slot : Slots \union {None},
                     ordinal : Nat, armed : SUBSET Nat]
  /\ publish_queue \in Seq([slot : Slots, ordinal : Nat, armed : SUBSET Nat])
  /\ slot_refs \in [Slots -> Nat]
  /\ admitted \in Nat /\ opens \in Nat
  /\ opening \subseteq [number : Nat, seat : Seats, width : Range(Grants), saw : Nat]
  /\ history \in [lost : SUBSET Slots, ousted : SUBSET Nat,
                  orphaned : SUBSET [number : Nat, slot : Slots]]
  /\ gauges \in [credited : Nat, limit : Nat, armed : Nat]
  /\ session \in [Seats -> SessionType]
  /\ sends \subseteq [seat : Seats, number : Nat, sequence : Nat, slot : Slots, reading : BOOLEAN]

\* Every producer slot is in exactly one place: free, on its way to or with the
\* application, queued, or retained; or it was lost, by a release() that met a
\* stalled try_acquire().  slot_refs counts exactly the sessions that still owe
\* a credit for the slot, through refused sends, partial credits, teardowns and
\* seats taken again, and the claims of sessions that a second Open ousted, which
\* nobody drops.
SlotsAccounted ==
  \A i \in Slots :
    /\ Cardinality({p \in {"free", "acquiring", "handle", "retained", "lost"} :
                      \/ p = "free" /\ i \in Range(free)
                      \/ p = "acquiring" /\ i \in Range(acquiring)
                      \/ p = "handle" /\ i \in handles
                      \/ p = "retained" /\ slot_refs[i] > 0
                      \/ p = "lost" /\ i \in history.lost}) + Cardinality(Queued(i)) = 1
    /\ slot_refs[i] = Cardinality(Claims(i))
                        + Cardinality({c \in history.orphaned : c.slot = i})

\* A payload the transport may still be reading for a session that has its seat
\* and has not been torn down is neither free nor with the application: neither
\* local completion nor another session's credit or teardown hands it back.
PayloadStable ==
  \A k \in Seats : \A x \in PostedBy(k) :
    x.reading /\ session[k].state # "Closed" => slot_refs[x.slot] > 0

\* A late completion never reaches a session that took over the seat of one that
\* was torn down: a seat with sends under way is not given away.  Only a session
\* ousted by an Open that had chosen the same seat leaves its completions to its
\* successor.
NoStrayCompletion ==
  \A x \in sends : session[x.seat].number = x.number \/ x.number \in history.ousted

\* Whenever publish() may read them, credited has not passed admitted, although
\* the engine can fan a frame out before admitted counts it: the unsigned
\* difference in the admission test cannot wrap.
CreditedWithinAdmitted ==
  publishing.at \in {"idle", "reserved"} => gauges.credited <= admitted

\* A session that was armed when publish() accepted a frame and has no room for
\* it when the engine fans it out.
Skipped(k, item) ==
  /\ Eligible(session[k]) /\ session[k].number \in item.armed
  /\ ~CanSubmit(session[k].window)

FansOut == Len(publish_queue') < Len(publish_queue)

\* AllActive: a frame is never skipped for a session that was armed when it was
\* accepted, if that session armed with no older frame in the queue.
AllActiveKeptWhenLevel ==
  [][FansOut => \A k \in Seats : session[k].level => ~Skipped(k, Head(publish_queue))]_vars

=============================================================================
