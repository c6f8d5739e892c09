---------------------------- MODULE Coordination ----------------------------
(***************************************************************************)
(* The publisher's session table (src/ucx/publisher_impl.cpp): Open, Renew *)
(* and Close arrive on Tango command threads and serialise on              *)
(* session_mutex; the engine thread, which never takes that mutex, makes   *)
(* endpoints for Open, arms sessions, sweeps leases and tears sessions     *)
(* down.  The two sides meet in a session's atomic state and end_reason,   *)
(* so every atomic access that the other side can come between is a step   *)
(* of its own.                                                             *)
(***************************************************************************)
EXTENDS Integers, Sequences, FiniteSets, FiniteSetsExt

CONSTANTS
  N,            \* config.max_sessions
  Openers,      \* command threads that may run BulkOpen
  Others,       \* command threads that only renew and close
  LeaseTTL,     \* config.lease_ttl_ms, in ticks
  MaxRenewals,  \* config.max_renewals_per_ttl
  MaxTasks      \* bound on connect() calls, hence on sessions

ASSUME TableAssumption ==
  /\ N \in Nat \ {0} /\ LeaseTTL \in Nat \ {0} /\ MaxRenewals \in Nat \ {0}
ASSUME TaskBound == MaxTasks \in Nat

VARIABLES
  seat,          \* sessions
  thread,        \* what each command thread is doing
  mutex,         \* the thread that holds session_mutex
  engine,        \* what the engine thread is doing
  connect_queue, \* ConnectTasks pushed and not yet taken by the engine
  tasks,         \* connect() calls so far: numbers tasks, and their endpoints
  endpoints,     \* endpoints created and not closed
  retire_counter,
  ids,           \* session ids generated so far
  torn_down,     \* history: how often each id was torn down
  crashed        \* the clients are gone: nobody opens, renews or closes

vars == <<seat, thread, mutex, engine, connect_queue, tasks, endpoints,
          retire_counter, ids, torn_down, crashed>>

Seats == 1 .. N
Threads == Openers \union Others
Nobody == "nobody"
Ids == 1 .. MaxTasks

LiveStates == {"Open", "Armed", "Active"}
Live(s) == s.state \in LiveStates

\* `left` is deadline_ms - now and `rate_left` what remains of the rate window,
\* both stopping at zero.
FreshSeat ==
  [state |-> "Unknown", id |-> 0, ep |-> 0, left |-> 0, end_reason |-> "None",
   retired_seq |-> 0, poisoned |-> FALSE, rate_left |-> 0, renewals |-> 0]

IdleThread == [at |-> "idle", seat |-> 0, task |-> 0, left |-> 0]
IdleEngine == [at |-> "loop", seat |-> 0, batch |-> {}]

Init ==
  /\ seat = [k \in Seats |-> FreshSeat]
  /\ thread = [t \in Threads |-> IdleThread]
  /\ mutex = Nobody
  /\ engine = IdleEngine
  /\ connect_queue = {} /\ tasks = 0 /\ endpoints = {}
  /\ retire_counter = 0 /\ ids = 0
  /\ torn_down = [x \in Ids |-> 0]
  /\ crashed = FALSE

Ready(t) == thread[t].at = "idle" /\ mutex = Nobody /\ ~crashed

-----------------------------------------------------------------------------
(* BulkOpen: handle_open() and connect().                                  *)

\* The seat an Open takes: the first never used, else of those retired and not
\* poisoned the one retired longest ago; 0 when there is none.
FreeSeat ==
  LET unused == {k \in Seats : seat[k].state = "Unknown"}
      retired == {k \in Seats : seat[k].state = "Closed" /\ ~seat[k].poisoned}
  IN  IF unused # {} THEN Min(unused)
      ELSE IF retired = {} THEN 0
      ELSE CHOOSE k \in retired : \A j \in retired : seat[k].retired_seq <= seat[j].retired_seq

\* The seat is chosen under the mutex, and a connect task queued after the
\* mutex is released.  TooManySessions changes nothing.
open_choose(t) ==
  /\ t \in Openers /\ Ready(t)
  /\ tasks < MaxTasks
  /\ FreeSeat # 0
  /\ tasks' = tasks + 1
  /\ connect_queue' = connect_queue \union {tasks + 1}
  /\ thread' = [thread EXCEPT ![t] = [IdleThread EXCEPT !.at = "connect", !.seat = FreeSeat,
                                                         !.task = tasks + 1]]
  /\ UNCHANGED <<seat, mutex, engine, endpoints, retire_counter, ids, torn_down, crashed>>

\* connect() gives up after five seconds and Open throws; the task stays where
\* it is.  Of what the engine does only a teardown can last that long: its
\* flush, its close and its drain may take two seconds each.
connect_timeout(t) ==
  /\ thread[t].at = "connect"
  /\ engine.at = "teardown"
  /\ thread' = [thread EXCEPT ![t] = IdleThread]
  /\ UNCHANGED <<seat, mutex, engine, connect_queue, tasks, endpoints, retire_counter, ids,
                 torn_down, crashed>>

\* The engine takes every queued task.
drain_connect_take ==
  /\ engine.at = "loop" /\ connect_queue # {}
  /\ engine' = [engine EXCEPT !.at = "connect", !.batch = connect_queue]
  /\ connect_queue' = {}
  /\ UNCHANGED <<seat, thread, mutex, tasks, endpoints, retire_counter, ids, torn_down, crashed>>

\* It makes the endpoints it can, then marks every task done and wakes the
\* threads still waiting for one.
drain_connect_requests ==
  /\ engine.at = "connect"
  /\ \E made \in SUBSET engine.batch :
       /\ endpoints' = endpoints \union made
       /\ thread' = [t \in Threads |->
            IF thread[t].at # "connect" \/ thread[t].task \notin engine.batch THEN thread[t]
            ELSE IF thread[t].task \in made THEN [thread[t] EXCEPT !.at = "claim"]
            ELSE IdleThread]
  /\ engine' = IdleEngine
  /\ UNCHANGED <<seat, mutex, connect_queue, tasks, retire_counter, ids, torn_down, crashed>>

\* The seat chosen earlier is claimed under the mutex.
open_claim(t) ==
  /\ thread[t].at = "claim" /\ mutex = Nobody
  /\ ids' = ids + 1
  /\ seat' = [seat EXCEPT ![thread[t].seat] =
                [@ EXCEPT !.state = "Open", !.id = ids + 1, !.ep = thread[t].task,
                          !.left = LeaseTTL, !.end_reason = "None",
                          !.rate_left = LeaseTTL, !.renewals = 0]]
  /\ thread' = [thread EXCEPT ![t] = IdleThread]
  /\ UNCHANGED <<mutex, engine, connect_queue, tasks, endpoints, retire_counter, torn_down,
                 crashed>>

-----------------------------------------------------------------------------
(* BulkRenew and BulkClose for a session that is in the table.  A request   *)
(* for an unknown or ended one is answered and changes nothing.            *)

\* The rate window is rolled over when it has run out.
Rolled(s) == IF s.rate_left = 0 THEN [s EXCEPT !.rate_left = LeaseTTL, !.renewals = 0] ELSE s

RenewFrom(t, k) ==
  /\ Ready(t) /\ Live(seat[k])
  /\ mutex' = t
  /\ seat' = [seat EXCEPT ![k] = [Rolled(@) EXCEPT !.renewals = @ + 1]]
  /\ thread' = [thread EXCEPT ![t] = [IdleThread EXCEPT !.at = "renew", !.seat = k,
                                                        !.left = LeaseTTL]]
  /\ UNCHANGED <<engine, connect_queue, tasks, endpoints, retire_counter, ids, torn_down, crashed>>

\* handle_renew() up to the store of the deadline, which it computes from the
\* clock here.  RenewTooFrequent changes nothing.
renew_check(t, k) == Rolled(seat[k]).renewals < MaxRenewals /\ RenewFrom(t, k)

\* The engine may have ended the session meanwhile; the store happens all the
\* same.
renew_store(t) ==
  /\ thread[t].at = "renew"
  /\ seat' = [seat EXCEPT ![thread[t].seat].left = thread[t].left]
  /\ thread' = [thread EXCEPT ![t] = IdleThread]
  /\ mutex' = Nobody
  /\ UNCHANGED <<engine, connect_queue, tasks, endpoints, retire_counter, ids, torn_down, crashed>>

\* handle_close() enters begin_expiry(), which finds the session live.
close_begin(t, k) ==
  /\ Ready(t) /\ Live(seat[k])
  /\ mutex' = t
  /\ thread' = [thread EXCEPT ![t] = [IdleThread EXCEPT !.at = "close", !.seat = k]]
  /\ UNCHANGED <<seat, engine, connect_queue, tasks, endpoints, retire_counter, ids, torn_down,
                 crashed>>

CloseClaim(t, claimed) ==
  /\ thread[t].at = "close"
  /\ seat' = IF claimed THEN [seat EXCEPT ![thread[t].seat].end_reason = "Close"] ELSE seat
  /\ thread' = [thread EXCEPT ![t] = IF claimed THEN [@ EXCEPT !.at = "closing"] ELSE IdleThread]
  /\ mutex' = IF claimed THEN t ELSE Nobody
  /\ UNCHANGED <<engine, connect_queue, tasks, endpoints, retire_counter, ids, torn_down, crashed>>

\* The compare-and-swap on end_reason elects who ends the session; the loser
\* answers UnknownSession.
close_claim(t) == CloseClaim(t, seat[thread[t].seat].end_reason = "None")

close_publish(t) ==
  /\ thread[t].at = "closing"
  /\ seat' = [seat EXCEPT ![thread[t].seat].state = "Expiring"]
  /\ thread' = [thread EXCEPT ![t] = IdleThread]
  /\ mutex' = Nobody
  /\ UNCHANGED <<engine, connect_queue, tasks, endpoints, retire_counter, ids, torn_down, crashed>>

-----------------------------------------------------------------------------
(* The engine thread.                                                      *)

EngineStep(at, k) == engine' = [IdleEngine EXCEPT !.at = at, !.seat = k]

engineOnly == <<thread, mutex, connect_queue, tasks, ids, crashed>>

\* A ProbeAck, also while the engine progresses its worker inside a teardown.
handle_probe_ack(k) ==
  /\ engine.at \in {"loop", "teardown"} /\ seat[k].state = "Open"
  /\ seat' = [seat EXCEPT ![k].state = "Armed"]
  /\ UNCHANGED <<engine, endpoints, retire_counter, torn_down, engineOnly>>

\* fan_out() finds the session eligible.
fan_out(k) ==
  /\ engine.at = "loop" /\ seat[k].state \in {"Armed", "Active"}
  /\ EngineStep("submit", k)
  /\ UNCHANGED <<seat, endpoints, retire_counter, torn_down, engineOnly>>

\* Mutant of submit_accepted: Active is stored, not swapped in.
submit_accepted_store ==
  /\ engine.at = "submit"
  /\ seat' = [seat EXCEPT ![engine.seat].state = "Active"]
  /\ engine' = IdleEngine
  /\ UNCHANGED <<endpoints, retire_counter, torn_down, engineOnly>>

\* submit_to(): the send was accepted, and Armed becomes Active.
submit_accepted ==
  /\ engine.at = "submit"
  /\ seat' = [seat EXCEPT ![engine.seat].state = IF @ = "Armed" THEN "Active" ELSE @]
  /\ engine' = IdleEngine
  /\ UNCHANGED <<endpoints, retire_counter, torn_down, engineOnly>>

\* submit_to(): the send was refused, which ends the session.
submit_refused ==
  /\ engine.at = "submit"
  /\ IF Live(seat[engine.seat]) THEN EngineStep("expire", engine.seat) ELSE engine' = IdleEngine
  /\ UNCHANGED <<seat, endpoints, retire_counter, torn_down, engineOnly>>

SweepExpire(k) ==
  /\ engine.at = "loop" /\ seat[k].left = 0
  /\ EngineStep("expire", k)
  /\ UNCHANGED <<seat, endpoints, retire_counter, torn_down, engineOnly>>

\* Mutant of sweep_expire: only sessions that carry frames have a lease.
sweep_expire_armed(k) == seat[k].state \in {"Armed", "Active"} /\ SweepExpire(k)

\* sweep_sessions() finds a live session past its deadline.
sweep_expire(k) == Live(seat[k]) /\ SweepExpire(k)

\* begin_expiry() on the engine: the claim, then the state.
expire_claim ==
  /\ engine.at = "expire"
  /\ IF seat[engine.seat].end_reason = "None"
       THEN /\ seat' = [seat EXCEPT ![engine.seat].end_reason = "Expire"]
            /\ EngineStep("expiring", engine.seat)
       ELSE engine' = IdleEngine /\ UNCHANGED seat
  /\ UNCHANGED <<endpoints, retire_counter, torn_down, engineOnly>>

expire_publish ==
  /\ engine.at = "expiring"
  /\ seat' = [seat EXCEPT ![engine.seat].state = "Expiring"]
  /\ engine' = IdleEngine
  /\ UNCHANGED <<endpoints, retire_counter, torn_down, engineOnly>>

\* teardown() flushes and closes the endpoint, in bounded time.
teardown_close(k) ==
  /\ engine.at = "loop" /\ seat[k].state = "Expiring"
  /\ endpoints' = endpoints \ {seat[k].ep}
  /\ seat' = [seat EXCEPT ![k].ep = 0]
  /\ EngineStep("teardown", k)
  /\ UNCHANGED <<retire_counter, torn_down, engineOnly>>

\* Then it retires the seat, for good if a completion is still missing.
teardown_retire ==
  /\ engine.at = "teardown"
  /\ LET k == engine.seat IN
       \E lost \in BOOLEAN :
         seat' = [seat EXCEPT ![k].state = "Closed", ![k].retired_seq = retire_counter + 1,
                              ![k].poisoned = @ \/ lost]
  /\ torn_down' = [torn_down EXCEPT ![seat[engine.seat].id] = @ + 1]
  /\ retire_counter' = retire_counter + 1
  /\ engine' = IdleEngine
  /\ UNCHANGED <<endpoints, engineOnly>>

-----------------------------------------------------------------------------
(* Time, clients, and the specification.                                   *)

Before(left) == IF left = 0 THEN 0 ELSE left - 1

tick ==
  /\ \E k \in Seats : seat[k].left > 0 \/ seat[k].rate_left > 0
  /\ seat' = [k \in Seats |-> [seat[k] EXCEPT !.left = Before(@), !.rate_left = Before(@)]]
  /\ thread' = [t \in Threads |-> [thread[t] EXCEPT !.left = Before(@)]]
  /\ UNCHANGED <<mutex, engine, connect_queue, tasks, endpoints, retire_counter, ids, torn_down,
                 crashed>>

\* Every client process dies; requests already being handled run on.
crash ==
  /\ ~crashed
  /\ crashed' = TRUE
  /\ UNCHANGED <<seat, thread, mutex, engine, connect_queue, tasks, endpoints, retire_counter,
                 ids, torn_down>>

Handler(t) ==
  \/ connect_timeout(t) \/ open_claim(t)
  \/ renew_store(t) \/ close_claim(t) \/ close_publish(t)

Request(t) ==
  \/ open_choose(t)
  \/ \E k \in Seats : renew_check(t, k) \/ close_begin(t, k)

EngineLoop ==
  \/ drain_connect_take \/ drain_connect_requests
  \/ submit_accepted \/ submit_refused
  \/ expire_claim \/ expire_publish
  \/ teardown_retire

Next ==
  \/ \E t \in Threads : Request(t) \/ Handler(t)
  \/ EngineLoop
  \/ \E k \in Seats :
       handle_probe_ack(k) \/ fan_out(k) \/ sweep_expire(k) \/ teardown_close(k)
  \/ tick \/ crash

Spec == Init /\ [][Next]_vars

\* Command handlers run to their end; the engine loop keeps turning and comes
\* round to every session; time passes.
Fairness ==
  /\ \A t \in Threads : WF_vars(Handler(t))
  /\ WF_vars(EngineLoop)
  /\ SF_vars(\E k \in Seats : sweep_expire(k)) /\ SF_vars(\E k \in Seats : teardown_close(k))
  /\ WF_vars(tick)

LiveSpec == Spec /\ Fairness

-----------------------------------------------------------------------------
(* Properties.                                                             *)

\* The variables keep their types; no client renews more than MaxRenewals times
\* in one rate window.
TypeOK ==
  /\ \A k \in Seats :
       /\ seat[k].state \in LiveStates \union {"Unknown", "Expiring", "Closed"}
       /\ seat[k].end_reason \in {"None", "Close", "Expire"}
       /\ seat[k].id \in 0 .. ids /\ seat[k].ep \in 0 .. tasks
       /\ seat[k].left \in 0 .. LeaseTTL /\ seat[k].rate_left \in 0 .. LeaseTTL
       /\ seat[k].renewals \in 0 .. MaxRenewals
  /\ mutex \in Threads \union {Nobody}
  /\ endpoints \subseteq 1 .. tasks /\ connect_queue \subseteq 1 .. tasks

\* A session ends once.  Teardown runs at most once for it, whichever of Close,
\* the deadline and a refused send ends it and however they race; and a session
\* that has reached Expiring is never live again, not through a renewal, a probe
\* acknowledgement or a frame in flight.
EndsOnce ==
  /\ [](\A x \in Ids : torn_down[x] <= 1)
  /\ [][\A k \in Seats :
          seat[k].state \in {"Expiring", "Closed"} /\ seat'[k].id = seat[k].id
            => ~Live(seat'[k])]_vars

\* An Open never takes a seat from a session that has not ended: a session
\* leaves the table only through its own teardown.
SeatNeverStolen ==
  [][\A k \in Seats :
       seat'[k].id # seat[k].id => seat[k].state \in {"Unknown", "Closed"}]_vars

\* A failed Open leaves nothing behind: every queued task belongs to a thread
\* that waits for it, and every endpoint to a session or to such a thread.
NothingToUnwind ==
  /\ \A x \in connect_queue \union engine.batch :
       \E t \in Threads : thread[t].at = "connect" /\ thread[t].task = x
  /\ \A x \in endpoints :
       \/ \E k \in Seats : seat[k].ep = x
       \/ \E t \in Threads : thread[t].task = x

\* When the clients die the leases reclaim every session, at whatever point of
\* an Open, Renew or Close they died.
CrashReclaimed == crashed ~> \A k \in Seats : seat[k].state \in {"Unknown", "Closed"}

=============================================================================
