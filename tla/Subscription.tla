---------------------------- MODULE Subscription ----------------------------
(***************************************************************************)
(* The supervisor of a subscriber (src/core/subscription.cpp): the control *)
(* thread opens sessions over the coordination channel, renews them and    *)
(* replaces them under the reconnect policy; the dispatch thread hands     *)
(* frames to the application's callback; the application closes or         *)
(* interrupts from its own thread or from inside the callback.             *)
(*                                                                         *)
(* The publisher is the set of sessions it holds.  A coordination call may *)
(* get lost on either way.  The delivery queue is a count of frames and an *)
(* outcome; its inside is in DeliveryQueue.                                *)
(***************************************************************************)
EXTENDS Integers, FiniteSets, FiniteSetsExt

CONSTANTS
  Policy,      \* reconnect_policy: "FailFast" or "BoundedRetry"
  MaxAttempts, \* reconnect_max_attempts
  Backoff,     \* reconnect_backoff_ms, for which validate() sets no minimum
  LeaseTTL,    \* lease_ttl_ms of a grant
  Geometries,  \* arrays a publisher may describe
  Acts,        \* what the application does: subset of {"close", "interrupt", "throw"}
  MaxIds       \* bound on sessions the publisher grants

NoGeometry == "none"

ASSUME SubscriptionAssumption ==
  /\ Policy \in {"FailFast", "BoundedRetry"} /\ MaxAttempts \in Nat /\ MaxIds \in Nat
  /\ Backoff \in Nat /\ LeaseTTL \in Nat \ {0}
  /\ Acts \subseteq {"close", "interrupt", "throw"}
  /\ NoGeometry \notin Geometries

VARIABLES
  state,       \* SubscriberState
  running, interrupted,
  interrupting, \* how far a call of interrupt() got
  control,     \* the control thread; in SubscriptionFactory::open, its caller
  transport,   \* the current transport: none, probing, active, failed
  session,     \* id of the session it carries, 0 for none
  candidate,   \* a session granted and not yet adopted
  geometry,    \* of the session, and of the candidate
  retired_geometry,
  carried,     \* history: the arrays of the transports published so far
  server,      \* sessions the publisher holds
  ids,         \* sessions granted so far
  lost,        \* history: those it holds that nobody will close
  delivery,    \* frames queued, and the terminal outcome
  dispatch,    \* the dispatch thread
  shut         \* shutdown()

coordVars == <<transport, session, candidate, geometry, retired_geometry, carried, server, ids,
               lost>>
vars == <<state, running, interrupted, interrupting, control, coordVars, delivery, dispatch, shut>>

Init ==
  /\ state = "Opening" /\ running = TRUE /\ interrupted = FALSE /\ interrupting = "no"
  /\ control = [at |-> "open", attempt |-> 0, started |-> FALSE, error |-> "none"]
  /\ transport = "none" /\ session = 0 /\ candidate = 0
  /\ geometry = NoGeometry /\ retired_geometry = NoGeometry /\ carried = {}
  /\ server = {} /\ ids = 0 /\ lost = {}
  /\ delivery = [depth |-> 0, terminal |-> "None"]
  /\ dispatch = "unstarted"
  /\ shut = [at |-> "idle", detached |-> FALSE]

\* DeliveryQueue's set_terminal: the first outcome stands.
SetTerminal(end) ==
  delivery' = IF delivery.terminal # "None" THEN delivery
              ELSE [terminal |-> end,
                    depth |-> IF end = "SessionFailed" THEN delivery.depth ELSE 0]

ControlTo(from, to) == control.at = from /\ control' = [control EXCEPT !.at = to]

notControl == <<running, interrupted, interrupting, dispatch, shut>>

-----------------------------------------------------------------------------
(* open_subscription(), in the caller of open() or on the control thread.  *)

OpenFailed(from, error) ==
  control.at = from /\ control' = [control EXCEPT !.at = "retry", !.error = error]

\* The factory makes a transport, or throws.
open_transport ==
  /\ \/ ControlTo("open", "open_call")
     \/ OpenFailed("open", "other")
  /\ UNCHANGED <<state, coordVars, delivery, notControl>>

\* The publisher grants a session and the reply arrives.  A session that
\* describes another array than the retired one is given back.
open_granted ==
  /\ control.at = "open_call" /\ ids < MaxIds
  /\ ids' = ids + 1
  /\ server' = server \union {ids + 1}
  /\ candidate' = ids + 1
  /\ \E g \in Geometries :
       /\ geometry' = g
       /\ control' = IF retired_geometry \in {NoGeometry, g}
                       THEN [control EXCEPT !.at = "activate"]
                       ELSE [control EXCEPT !.at = "give_back", !.error = "geometry"]
  /\ UNCHANGED <<state, transport, session, retired_geometry, carried, lost, delivery, notControl>>

\* A refusal, a timeout, or an exception; the publisher may have granted a
\* session nobody will hear of.
open_refused ==
  /\ \/ OpenFailed("open_call", "other") /\ UNCHANGED <<ids, server, lost>>
     \/ OpenFailed("open_call", "retryable") /\ UNCHANGED <<ids, server, lost>>
     \/ /\ OpenFailed("open_call", "retryable")
        /\ ids < MaxIds
        /\ ids' = ids + 1
        /\ server' = server \union {ids + 1} /\ lost' = lost \union {ids + 1}
  /\ UNCHANGED <<state, transport, session, candidate, geometry, retired_geometry, carried,
                 delivery, notControl>>

\* adopt_open_reply() rejects a reply that grants a session: it does not decode,
\* or grants more than was asked for.  No Close is sent.
open_rejected ==
  /\ \/ OpenFailed("open_call", "other")
     \/ OpenFailed("open_call", "geometry")
  /\ ids < MaxIds
  /\ ids' = ids + 1
  /\ server' = server \union {ids + 1} /\ lost' = lost \union {ids + 1}
  /\ UNCHANGED <<state, transport, session, candidate, geometry, retired_geometry, carried,
                 delivery, notControl>>

\* A Close for session x, which may get lost.
CloseCall(x) ==
  \/ server' = server \ {x} /\ UNCHANGED lost
  \/ lost' = lost \union ({x} \intersect server) /\ UNCHANGED server

\* close_candidate()
close_candidate ==
  /\ OpenFailed("give_back", control.error)
  /\ CloseCall(candidate)
  /\ candidate' = 0 /\ geometry' = NoGeometry
  /\ UNCHANGED <<state, transport, session, retired_geometry, carried, ids, delivery, notControl>>

\* Mutant of activate: a transport that cannot adopt the grant is just dropped.
activate_forgetful ==
  /\ OpenFailed("activate", "retryable")
  /\ candidate' = 0 /\ geometry' = NoGeometry
  /\ UNCHANGED <<state, transport, session, retired_geometry, carried, server, ids, lost, delivery,
                 notControl>>

\* The fresh transport adopts the grant and is published, or the session is
\* given back.
activate ==
  /\ \/ /\ ControlTo("activate", "probe")
        /\ transport' = "probing" /\ session' = candidate /\ candidate' = 0
        /\ carried' = carried \union {geometry}
        /\ state' = "Probing"
     \/ /\ control.at = "activate"
        /\ control' = [control EXCEPT !.at = "give_back", !.error = "retryable"]
        /\ UNCHANGED <<transport, session, candidate, carried, state>>
  /\ UNCHANGED <<geometry, retired_geometry, server, ids, lost, delivery, notControl>>

\* The wait for the probe: answered, or the transport fails, running is
\* cleared, or the time is up.  On success open() starts the threads.
probe_answered ==
  /\ transport = "active"
  /\ control.at = "probe"
  /\ control' = [at |-> "run", attempt |-> 0, started |-> TRUE, error |-> "none"]
  /\ dispatch' = IF control.started THEN dispatch ELSE "check"
  /\ state' = "Active"
  /\ UNCHANGED <<running, interrupted, interrupting, coordVars, delivery, shut>>

probe_failed ==
  /\ transport # "active"
  /\ control.at = "probe"
  /\ control' = [control EXCEPT !.at = "close_probe", !.error = "retryable"]
  /\ UNCHANGED <<state, coordVars, delivery, notControl>>

-----------------------------------------------------------------------------
(* close_session() and publish_transport(nullptr).                         *)

\* Mutant of RetireTransport: the array of the retired session is forgotten.
RetireTransportForgetful ==
  /\ transport' = "none" /\ session' = 0 /\ geometry' = NoGeometry
  /\ UNCHANGED retired_geometry

RetireTransport ==
  /\ transport' = "none" /\ session' = 0 /\ geometry' = NoGeometry
  /\ retired_geometry' = geometry

\* The Close is sent only while there is a transport.
close_session ==
  /\ IF transport = "none"
       THEN UNCHANGED <<server, lost, transport, session, geometry, retired_geometry>>
       ELSE CloseCall(session) /\ RetireTransport
  /\ UNCHANGED <<candidate, carried, ids>>

\* After a probe that did not come; what was queued is discarded.
close_probe ==
  /\ OpenFailed("close_probe", control.error)
  /\ close_session
  /\ delivery' = [delivery EXCEPT !.depth = 0]
  /\ UNCHANGED <<state, notControl>>

-----------------------------------------------------------------------------
(* control_loop(), run_session() and reconnect().                          *)

run_stopped ==
  /\ ~running
  /\ ControlTo("run", "finish")
  /\ UNCHANGED <<state, coordVars, delivery, notControl>>

run_broken ==
  /\ running /\ transport = "failed"
  /\ ControlTo("run", "close_broken")
  /\ UNCHANGED <<state, coordVars, delivery, notControl>>

renew_begin ==
  /\ running /\ transport # "failed"
  /\ ControlTo("run", "renew_call")
  /\ UNCHANGED <<state, coordVars, delivery, notControl>>

\* Accepted, or refused as too frequent: the session goes on.
renew_accepted ==
  /\ session \in server
  /\ ControlTo("renew_call", "run")
  /\ UNCHANGED <<state, coordVars, delivery, notControl>>

\* UnknownSession, SessionExpired, or the command failed: the session is given
\* up.
renew_failed ==
  /\ ControlTo("renew_call", "close_broken")
  /\ UNCHANGED <<state, coordVars, delivery, notControl>>

\* Queued frames are kept until it is known whether a reconnect follows.
close_broken ==
  /\ control.at = "close_broken"
  /\ control' = [control EXCEPT !.at = IF running THEN "retry" ELSE "finish", !.error = "none"]
  /\ close_session
  /\ UNCHANGED <<state, delivery, notControl>>

\* Whether another attempt follows.  Before the threads are started only some
\* errors are retried; afterwards all but a changed array.
GivesUp ==
  \/ Policy = "FailFast" \/ control.error = "geometry"
  \/ running /\ control.attempt >= MaxAttempts
  \/ ~control.started /\ control.error = "other"

retry ==
  /\ control.at = "retry"
  /\ control' = [control EXCEPT !.at = IF GivesUp THEN "fail"
                                       ELSE IF running THEN "backoff" ELSE "finish",
                               !.error = "none"]
  /\ state' = IF ~GivesUp /\ running THEN "Reconnecting" ELSE state
  /\ UNCHANGED <<coordVars, delivery, notControl>>

\* The initial establishment runs out of time.
establishment_timeout ==
  /\ ~control.started
  /\ ControlTo("backoff", "fail")
  /\ UNCHANGED <<state, coordVars, delivery, notControl>>

\* Doubled for each attempt until it reaches the lease, and capped by it; the
\* lease is zero before any session was retired.
backoff_delay(attempt, lease) ==
  LET doubled[i \in 0 .. attempt] ==
        IF i = 0 THEN Backoff
        ELSE IF doubled[i - 1] < lease THEN 2 * doubled[i - 1] ELSE doubled[i - 1]
  IN  Min({doubled[attempt], Max({lease, 1})})

LastLeaseTTL == IF retired_geometry = NoGeometry THEN 0 ELSE LeaseTTL

\* backoff() returns true, and another attempt follows.
backoff ==
  /\ control.at = "backoff"
  /\ running /\ backoff_delay(control.attempt, LastLeaseTTL) > 0
  /\ control' = [control EXCEPT !.at = "open", !.attempt = @ + 1, !.error = "none"]
  /\ delivery' = IF control.started THEN [delivery EXCEPT !.depth = 0] ELSE delivery
  /\ state' = "Opening"
  /\ UNCHANGED <<coordVars, notControl>>

\* It returns false: running is cleared, or there is nothing to wait for.
backoff_ends ==
  /\ ~running \/ backoff_delay(control.attempt, LastLeaseTTL) = 0
  /\ ControlTo("backoff", IF control.started THEN "finish" ELSE "fail")
  /\ UNCHANGED <<state, coordVars, delivery, notControl>>

\* Mutant of fail_outcome: the state is made visible first.
fail_outcome_late ==
  /\ ControlTo("fail", "fail_state")
  /\ state' = "Failed"
  /\ UNCHANGED <<coordVars, delivery, notControl>>

\* transition(Failed): the delivery outcome, then the state.
fail_outcome ==
  /\ ControlTo("fail", "fail_state")
  /\ SetTerminal("SessionFailed")
  /\ UNCHANGED <<state, coordVars, notControl>>

\* A failed open() throws; there is nothing for its shutdown to close.
fail_state ==
  /\ ControlTo("fail_state", IF control.started THEN "finish" ELSE "thrown")
  /\ state' = "Failed"
  /\ running' = (running /\ control.started)
  /\ UNCHANGED <<coordVars, delivery, interrupted, interrupting, dispatch, shut>>

\* The end of control_loop(); after an interrupt the session is left to
\* shutdown().
finish ==
  /\ ControlTo("finish", IF interrupted THEN "finished" ELSE "close_final")
  /\ UNCHANGED <<state, coordVars, delivery, notControl>>

DiscardIfRetiring ==
  delivery' = IF transport = "none" THEN delivery ELSE [delivery EXCEPT !.depth = 0]

close_final ==
  /\ ControlTo("close_final", "finished")
  /\ close_session /\ DiscardIfRetiring
  /\ UNCHANGED <<state, notControl>>

\* After a failure running is cleared here.
control_finished ==
  /\ ControlTo("finished", "done")
  /\ running' = (running /\ state # "Failed")
  /\ UNCHANGED <<state, interrupted, interrupting, coordVars, delivery, dispatch, shut>>

-----------------------------------------------------------------------------
(* The dispatch thread: dispatch_loop(), deliver_frames(), fail_delivery().  *)

DispatchTo(from, to) == dispatch = from /\ dispatch' = to

notDispatch == <<interrupted, interrupting, control, coordVars>>

\* An inactive subscription is left once it is interrupted, closed or drained.
dispatch_check ==
  LET active == running /\ ~interrupted /\ state # "Failed"
      drained == interrupted \/ state = "Closed" \/ delivery.depth = 0
  IN  /\ DispatchTo("check", IF ~active /\ drained THEN "done" ELSE "read")
      /\ UNCHANGED <<state, running, delivery, shut, notDispatch>>

\* One frame, or none within the quantum.
deliver_frames ==
  /\ \/ /\ delivery.depth > 0
        /\ DispatchTo("read", "callback")
        /\ delivery' = [delivery EXCEPT !.depth = @ - 1]
     \/ /\ delivery.depth = 0
        /\ DispatchTo("read", "check")
        /\ UNCHANGED delivery
  /\ UNCHANGED <<state, running, shut, notDispatch>>

\* The callback returns, and the next frame of the batch is looked for.
callback_returns ==
  /\ \/ DispatchTo("callback", "read")
     \/ DispatchTo("callback", "check")
  /\ UNCHANGED <<state, running, delivery, shut, notDispatch>>

\* The callback throws: the outcome, the state, and running, in this order.
callback_throws ==
  /\ "throw" \in Acts
  /\ DispatchTo("callback", "throw_state")
  /\ SetTerminal("CallbackFailed")
  /\ UNCHANGED <<state, running, shut, notDispatch>>

fail_delivery_state ==
  /\ DispatchTo("throw_state", "throw_running")
  /\ state' = "Failed"
  /\ UNCHANGED <<running, delivery, shut, notDispatch>>

fail_delivery_running ==
  /\ DispatchTo("throw_running", "check")
  /\ running' = FALSE
  /\ UNCHANGED <<state, delivery, shut, notDispatch>>

-----------------------------------------------------------------------------
(* The application: interrupt(), and shutdown() from its own thread or from *)
(* inside the callback.                                                     *)

Returned == control.started

\* interrupt() stores two flags and ends the delivery, in this order.
interrupt ==
  /\ "interrupt" \in Acts /\ Returned /\ interrupting = "no"
  /\ interrupting' = "running" /\ interrupted' = TRUE
  /\ UNCHANGED <<state, running, control, coordVars, delivery, dispatch, shut>>

interrupt_running ==
  /\ interrupting = "running"
  /\ interrupting' = "delivery" /\ running' = FALSE
  /\ UNCHANGED <<state, interrupted, control, coordVars, delivery, dispatch, shut>>

interrupt_delivery ==
  /\ interrupting = "delivery"
  /\ interrupting' = "done" /\ SetTerminal("Interrupted")
  /\ UNCHANGED <<state, running, interrupted, control, coordVars, dispatch, shut>>

\* The first caller owns the shutdown; a callback that comes later waits for it.
ShutdownBegins ==
  /\ "close" \in Acts /\ Returned /\ shut.at = "idle"
  /\ shut' = [shut EXCEPT !.at = "delivery"]
  /\ running' = FALSE
  /\ UNCHANGED <<state, interrupted, interrupting, control, coordVars, delivery>>

close == ShutdownBegins /\ UNCHANGED dispatch

callback_closes ==
  \/ ShutdownBegins /\ DispatchTo("callback", "closing")
  \/ /\ "close" \in Acts /\ shut.at # "idle"
     /\ DispatchTo("callback", "closing")
     /\ UNCHANGED <<state, running, delivery, shut, notDispatch>>

callback_closed ==
  /\ shut.at = "complete"
  /\ DispatchTo("closing", "check")
  /\ UNCHANGED <<state, running, delivery, shut, notDispatch>>

ShutTo(from, to) == shut.at = from /\ shut' = [shut EXCEPT !.at = to]

notShut == <<running, interrupted, interrupting, control, dispatch>>

shutdown_delivery ==
  /\ ShutTo("delivery", "join_control")
  /\ SetTerminal("Closed")
  /\ UNCHANGED <<state, coordVars, notShut>>

\* Mutant of join_control: waits until the control thread is done.
join_control_forever ==
  /\ control.at = "done"
  /\ ShutTo("join_control", "join_dispatch")
  /\ UNCHANGED <<state, coordVars, delivery, notShut>>

\* The control thread is joined, or detached when the deadline passes.
join_control ==
  /\ \/ control.at = "done" /\ ShutTo("join_control", "join_dispatch")
     \/ /\ control.at # "done"
        /\ shut.at = "join_control"
        /\ shut' = [shut EXCEPT !.at = "join_dispatch", !.detached = TRUE]
  /\ UNCHANGED <<state, coordVars, delivery, notShut>>

\* The dispatch thread is joined, or detached, by itself or at the deadline.
join_dispatch ==
  /\ ShutTo("join_dispatch", "close_session")
  /\ UNCHANGED <<state, coordVars, delivery, notShut>>

\* Mutant of shutdown_close: does not ask whether the control thread was joined.
shutdown_close_detached ==
  /\ ShutTo("close_session", IF interrupted THEN "close_call" ELSE "announce")
  /\ UNCHANGED <<state, coordVars, delivery, notShut>>

\* Mutant of shutdown_close: the session an interrupt left behind is forgotten.
shutdown_close_never ==
  /\ ShutTo("close_session", "announce")
  /\ UNCHANGED <<state, coordVars, delivery, notShut>>

\* Only after an interrupt, and only if the control thread is gone.
shutdown_close ==
  /\ ShutTo("close_session", IF interrupted /\ ~shut.detached THEN "close_call" ELSE "announce")
  /\ UNCHANGED <<state, coordVars, delivery, notShut>>

shutdown_call ==
  /\ ShutTo("close_call", "announce")
  /\ close_session /\ DiscardIfRetiring
  /\ UNCHANGED <<state, notShut>>

announce_closed ==
  /\ ShutTo("announce", "complete")
  /\ state' = "Closed"
  /\ UNCHANGED <<coordVars, delivery, notShut>>

-----------------------------------------------------------------------------
(* Transport and publisher.                                                *)

transport_changes ==
  /\ \/ transport = "probing" /\ transport' \in {"active", "failed"}
     \/ transport = "active" /\ transport' = "failed"
  /\ UNCHANGED <<state, running, interrupted, interrupting, control, session, candidate, geometry,
                 retired_geometry, carried, server, ids, lost, delivery, dispatch, shut>>

frame_arrives ==
  /\ transport = "active" /\ delivery = [depth |-> 0, terminal |-> "None"]
  /\ delivery' = [delivery EXCEPT !.depth = 1]
  /\ UNCHANGED <<state, running, interrupted, interrupting, control, coordVars, dispatch, shut>>

\* The lease runs out, or the publisher ends the session.
session_ends ==
  /\ \E x \in server : server' = server \ {x} /\ lost' = lost \ {x}
  /\ UNCHANGED <<state, running, interrupted, interrupting, control, transport, session, candidate, geometry,
                 retired_geometry, carried, ids, delivery, dispatch, shut>>

Control ==
  \/ open_transport \/ open_granted \/ open_refused \/ open_rejected \/ close_candidate
  \/ activate \/ probe_answered \/ probe_failed \/ close_probe
  \/ run_stopped \/ run_broken \/ renew_begin \/ renew_accepted \/ renew_failed
  \/ close_broken \/ retry \/ establishment_timeout \/ backoff \/ backoff_ends
  \/ fail_outcome \/ fail_state \/ finish \/ close_final \/ control_finished

Dispatch ==
  \/ dispatch_check \/ deliver_frames \/ callback_returns \/ callback_throws
  \/ fail_delivery_state \/ fail_delivery_running \/ callback_closed

Shutdown ==
  \/ shutdown_delivery \/ join_control \/ join_dispatch \/ shutdown_close \/ shutdown_call
  \/ announce_closed

Next ==
  \/ Control \/ Dispatch \/ Shutdown
  \/ interrupt \/ interrupt_running \/ interrupt_delivery
  \/ close \/ callback_closes
  \/ transport_changes \/ frame_arrives \/ session_ends

Spec == Init /\ [][Next]_vars

\* A shutdown runs on, whatever the other threads do.
FairSpec == Spec /\ WF_vars(Shutdown)

\* Coordination calls return within command_timeout_ms; waits are bounded.
ControlFairness == WF_vars(Control)

-----------------------------------------------------------------------------
(* Properties.                                                             *)

ControlCalls ==
  control.at \in {"open_call", "give_back", "renew_call", "close_probe", "close_broken",
                  "close_final"}

\* Coordination calls of one subscription never overlap, also when a shutdown
\* gives up waiting for the control thread and when an interrupt hands it the
\* Close.
CallsNeverOverlap == ~(ControlCalls /\ shut.at = "close_call")

\* Every session the publisher holds is the current one, one being adopted, or
\* one whose reply or Close got lost or whose reply was rejected: no path from an
\* adopted grant through probing, reconnect and teardown forgets to close it.  (A
\* grant that adopt_open_reply() rejects is left to the publisher's lease.)
NoSessionForgotten == server \subseteq {session, candidate} \union lost

\* A shutdown that joined its control thread leaves no transport behind, and
\* nothing opens another one.
ClosedMeansClosed ==
  shut.at = "complete" /\ ~shut.detached => transport = "none" /\ control.at = "done"

\* Every transport a subscription publishes describes the same array, over any
\* number of failed probes and reconnects.
OneGeometry == Cardinality(carried) <= 1

\* A reader is never left behind.  Whoever sees the state Failed finds a terminal
\* outcome in the delivery queue ("Delivery publishes the terminal boundary
\* before state is made visible"); and the control thread never ends on a
\* subscription that still claims to run: there is an outcome, or the caller
\* that stops it is about to set one.
NeverAbandoned ==
  /\ state = "Failed" => delivery.terminal # "None"
  /\ control.at = "done" =>
       /\ ~running
       /\ delivery.terminal # "None" \/ shut.at = "delivery" \/ interrupting = "delivery"

\* close() returns, even if the control thread hangs in a coordination call and
\* the dispatch thread in a callback.  The control thread ends once running is
\* cleared, if its calls return.
ShutdownEnds ==
  /\ (shut.at # "idle") ~> (shut.at = "complete")
  /\ ControlFairness => (~running ~> control.at \in {"done", "thrown"})

=============================================================================
