----------------------------- MODULE Hdf5Replay -----------------------------
(***************************************************************************)
(* The HDF5 replay device                                                  *)
(* (examples/example_hdf5_device/example_hdf5_device.cpp) and the registry *)
(* through which Tango commands reach its publisher                        *)
(* (src/tango/registration.cpp).  A loader thread reads dataset frames     *)
(* into leased slots and queues them; a replay thread publishes them and,  *)
(* when a frame is not accepted, has the loader start again from it; the   *)
(* Init command deletes the device and makes it anew.                      *)
(*                                                                         *)
(* The publisher is external: its free slots, whether it has a session,    *)
(* and the outcomes publish() may have.  running_ is an atomic that        *)
(* delete_device() and a failing loader clear without ready_mutex_, so a   *)
(* wait on ready_changed_ is two steps, the predicate and the sleep, both  *)
(* with the mutex held.  The load epoch is only compared for equality: a   *)
(* load is current or not.                                                 *)
(***************************************************************************)
EXTENDS Integers, Sequences

CONSTANTS
  Prefetch,    \* prefetch_frames; the publisher has twice as many slots
  Counts,      \* frames of the datasets the device may be configured with
  AllActive,   \* --fanout-mode
  MaxInits,    \* bound on init_device()
  MaxFailures  \* bound on reads that fail

ASSUME Hdf5ReplayAssumption ==
  /\ Prefetch \in Nat \ {0} /\ Counts \subseteq Nat \ {0} /\ AllActive \in BOOLEAN
  /\ MaxInits \in Nat /\ MaxFailures \in Nat

VARIABLES
  tango,     \* how far init_device() or delete_device() got
  inits, failures,
  state,     \* the Tango state
  running,
  count,     \* frames of the dataset
  next_load, \* next_frame_to_load_
  ready,     \* prefetched frames
  loader,    \* the loader thread, the frame it loads, whether that load is current
  replay,    \* the replay thread and the frame it publishes
  loader_failure,
  leased,    \* whether the loader, and whether the replay thread, holds a slot
  inflight,  \* slots with the publisher
  sessions,
  pub, attached, \* the publisher exists; it is in the registry
  command,   \* a coordination command inside the publisher
  last,      \* history: the frame accepted last since init_device(), or None
  beat,      \* history: changes with every frame accepted
  missed     \* history: delete_device() notified a thread that was about to sleep

deviceVars == <<tango, inits, state, count, pub, attached>>
queueVars == <<ready, next_load, loader_failure>>
historyVars == <<last, beat, missed>>
vars == <<deviceVars, queueVars, historyVars, failures, running, loader, replay, leased, inflight,
          sessions, command>>

None == -1
Free == 2 * Prefetch - inflight - Len(ready) - (IF leased.loader THEN 1 ELSE 0)
          - (IF leased.replay THEN 1 ELSE 0)
MutexFree == loader.at # "blocking" /\ replay.at # "blocking"

\* ready_changed_.notify_all(), as one thread sees it
Wake(thread) == IF thread.at = "asleep" THEN [thread EXCEPT !.at = "wait"] ELSE thread

Init ==
  /\ tango = "down" /\ inits = 0 /\ failures = 0 /\ state = "INIT" /\ running = FALSE
  /\ count = 0 /\ next_load = 0 /\ ready = <<>>
  /\ loader = [at |-> "off", frame |-> 0, current |-> FALSE]
  /\ replay = [at |-> "off", frame |-> 0]
  /\ loader_failure = FALSE
  /\ leased = [loader |-> FALSE, replay |-> FALSE] /\ inflight = 0 /\ sessions = 0
  /\ pub = FALSE /\ attached = FALSE /\ command = FALSE
  /\ last = None /\ beat = FALSE /\ missed = FALSE

-----------------------------------------------------------------------------
(* init_device() and delete_device()                                       *)

\* What an earlier life of the device left in loader_failure_ and
\* next_frame_to_load_ stays.
init_device ==
  /\ tango = "down" /\ inits < MaxInits
  /\ tango' = "up" /\ inits' = inits + 1 /\ state' = "RUNNING" /\ running' = TRUE
  /\ count' \in Counts
  /\ pub' = TRUE /\ attached' = TRUE
  /\ loader' = [loader EXCEPT !.at = "wait"] /\ replay' = [replay EXCEPT !.at = "session"]
  /\ last' = None
  /\ UNCHANGED <<queueVars, beat, missed, failures, leased, inflight, sessions, command>>

\* The file or the publisher cannot be opened.
init_failed ==
  /\ tango = "down" /\ inits < MaxInits
  /\ inits' = inits + 1
  /\ UNCHANGED <<tango, state, count, pub, attached, queueVars, historyVars, failures, running,
                 loader, replay, leased, inflight, sessions, command>>

Deleting(from, to) == tango = from /\ tango' = to

delete_stop ==
  /\ inits < MaxInits
  /\ Deleting("up", "notify")
  /\ running' = FALSE
  /\ UNCHANGED <<inits, state, count, pub, attached, queueVars, historyVars, failures, loader, replay,
                 leased, inflight, sessions, command>>

delete_notify ==
  /\ Deleting("notify", "join")
  /\ loader' = Wake(loader) /\ replay' = Wake(replay)
  /\ missed' = (missed \/ ~MutexFree)
  /\ UNCHANGED <<inits, state, count, pub, attached, queueVars, last, beat, failures, running, leased,
                 inflight, sessions, command>>

\* The threads are joined and the ready queue cleared.
delete_join ==
  /\ loader.at = "done" /\ replay.at = "done"
  /\ Deleting("join", "detach")
  /\ ready' = <<>>
  /\ UNCHANGED <<inits, state, count, pub, attached, next_load, loader_failure, historyVars, failures,
                 running, loader, replay, leased, inflight, sessions, command>>

\* Mutant of detach_publisher: does not wait for commands.
detach_publisher_shared ==
  /\ Deleting("detach", "destroy")
  /\ attached' = FALSE
  /\ UNCHANGED <<inits, state, count, pub, queueVars, historyVars, failures, running, loader, replay,
                 leased, inflight, sessions, command>>

\* The registry's mutex is taken exclusively.
detach_publisher ==
  /\ ~command
  /\ Deleting("detach", "destroy")
  /\ attached' = FALSE
  /\ UNCHANGED <<inits, state, count, pub, queueVars, historyVars, failures, running, loader, replay,
                 leased, inflight, sessions, command>>

delete_publisher ==
  /\ Deleting("destroy", "down")
  /\ pub' = FALSE /\ inflight' = 0 /\ sessions' = 0
  /\ UNCHANGED <<inits, state, count, attached, queueVars, historyVars, failures, running, loader,
                 replay, leased, command>>

-----------------------------------------------------------------------------
(* Coordination commands of Tango clients, and the publisher               *)

dispatch_coordination ==
  /\ ~command
  /\ attached /\ command' = TRUE
  /\ UNCHANGED <<deviceVars, queueVars, historyVars, failures, running, loader, replay, leased,
                 inflight, sessions>>

\* Nothing is attached: the answer is UnknownStream.
dispatch_unattached ==
  /\ ~command
  /\ ~attached
  /\ UNCHANGED vars

\* The command opens or closes a session, or changes nothing.
dispatched ==
  /\ command /\ command' = FALSE
  /\ sessions' \in {0, 1}
  /\ UNCHANGED <<deviceVars, queueVars, historyVars, failures, running, loader, replay, leased,
                 inflight>>

session_expires ==
  /\ pub /\ sessions = 1 /\ sessions' = 0
  /\ UNCHANGED <<deviceVars, queueVars, historyVars, failures, running, loader, replay, leased,
                 inflight, command>>

slot_returns ==
  /\ pub /\ inflight > 0
  /\ inflight' = inflight - 1
  /\ UNCHANGED <<deviceVars, queueVars, historyVars, failures, running, loader, replay, leased,
                 sessions, command>>

-----------------------------------------------------------------------------
(* The loader thread                                                       *)

loader_done ==
  /\ loader' = [loader EXCEPT !.at = "done"]
  /\ leased' = [leased EXCEPT !.loader = FALSE]
  /\ UNCHANGED <<queueVars, replay>>

loader_take ==
  /\ loader.at = "wait" /\ MutexFree
  /\ \/ ~running /\ loader_done
     \/ /\ running /\ Len(ready) < Prefetch
        /\ loader' = [at |-> "lease", frame |-> next_load, current |-> TRUE]
        /\ next_load' = (next_load + 1) % count
        /\ UNCHANGED <<ready, loader_failure, replay, leased>>
     \/ /\ running /\ Len(ready) >= Prefetch
        /\ loader' = [loader EXCEPT !.at = "blocking"]
        /\ UNCHANGED <<queueVars, replay, leased>>
  /\ UNCHANGED <<deviceVars, historyVars, failures, running, inflight, sessions, command>>

loader_sleeps ==
  /\ loader.at = "blocking"
  /\ loader' = [loader EXCEPT !.at = "asleep"]
  /\ UNCHANGED <<deviceVars, queueVars, historyVars, failures, running, replay, leased, inflight,
                 sessions, command>>

loader_acquire ==
  /\ loader.at = "lease"
  /\ \/ ~running /\ loader_done
     \/ /\ running /\ Free > 0
        /\ loader' = [loader EXCEPT !.at = "read"]
        /\ leased' = [leased EXCEPT !.loader = TRUE]
        /\ UNCHANGED <<queueVars, replay>>
  /\ UNCHANGED <<deviceVars, historyVars, failures, running, inflight, sessions, command>>

read_frame ==
  /\ loader.at = "read"
  /\ loader.frame < count
  /\ loader' = [loader EXCEPT !.at = "push"]
  /\ UNCHANGED <<deviceVars, queueVars, historyVars, failures, running, replay, leased, inflight,
                 sessions, command>>

\* The file cannot be read, or the frame is beyond the dataset's end.
read_frame_throws ==
  /\ loader.at = "read"
  /\ \/ loader.frame >= count /\ UNCHANGED failures
     \/ failures < MaxFailures /\ failures' = failures + 1
  /\ loader' = [loader EXCEPT !.at = "catch"]
  /\ leased' = [leased EXCEPT !.loader = FALSE]
  /\ UNCHANGED <<deviceVars, queueVars, historyVars, running, replay, inflight, sessions, command>>

\* Mutant of loader_push: queues a frame of an earlier epoch too.
loader_push_stale ==
  /\ loader.at = "push" /\ MutexFree
  /\ loader' = [loader EXCEPT !.at = "wait"]
  /\ leased' = [leased EXCEPT !.loader = FALSE]
  /\ IF running THEN ready' = Append(ready, loader.frame) /\ replay' = Wake(replay)
     ELSE UNCHANGED <<ready, replay>>
  /\ UNCHANGED <<deviceVars, next_load, loader_failure, historyVars, failures, running, inflight,
                 sessions, command>>

\* The frame is queued, or dropped with its slot.
loader_push ==
  /\ loader.at = "push" /\ MutexFree
  /\ loader' = [loader EXCEPT !.at = "wait"]
  /\ leased' = [leased EXCEPT !.loader = FALSE]
  /\ IF running /\ loader.current
     THEN ready' = Append(ready, loader.frame) /\ replay' = Wake(replay)
     ELSE UNCHANGED <<ready, replay>>
  /\ UNCHANGED <<deviceVars, next_load, loader_failure, historyVars, failures, running, inflight,
                 sessions, command>>

\* Mutant of loader_catch: the failure wakes nobody.
loader_catch_mute ==
  /\ \/ /\ loader.at = "catch" /\ MutexFree
        /\ loader_failure' = TRUE
        /\ loader' = [loader EXCEPT !.at = "clear"]
        /\ UNCHANGED <<running, replay>>
     \/ /\ loader.at \in {"clear", "tell"}
        /\ running' = FALSE
        /\ loader' = [loader EXCEPT !.at = "done"]
        /\ UNCHANGED <<loader_failure, replay>>
  /\ UNCHANGED <<deviceVars, ready, next_load, historyVars, failures, leased, inflight, sessions,
                 command>>

\* The failure is recorded under the mutex, running_ cleared and the condition
\* notified without it.
loader_catch ==
  /\ \/ /\ loader.at = "catch" /\ MutexFree
        /\ loader_failure' = TRUE
        /\ loader' = [loader EXCEPT !.at = "clear"]
        /\ UNCHANGED <<running, replay>>
     \/ /\ loader.at = "clear"
        /\ running' = FALSE
        /\ loader' = [loader EXCEPT !.at = "tell"]
        /\ UNCHANGED <<loader_failure, replay>>
     \/ /\ loader.at = "tell"
        /\ loader' = [loader EXCEPT !.at = "done"]
        /\ replay' = Wake(replay)
        /\ UNCHANGED <<loader_failure, running>>
  /\ UNCHANGED <<deviceVars, ready, next_load, historyVars, failures, leased, inflight, sessions,
                 command>>

loader_loop ==
  \/ loader_take \/ loader_sleeps \/ loader_acquire \/ read_frame \/ read_frame_throws
  \/ loader_push \/ loader_catch

-----------------------------------------------------------------------------
(* The replay thread                                                       *)

replay_goes(at) == replay' = [replay EXCEPT !.at = at]

\* Waits for a session; the end of the loop rethrows what the loader met.
replay_session ==
  /\ replay.at = "session"
  /\ \/ running /\ sessions > 0 /\ replay_goes("wait")
     \/ ~running /\ replay_goes("leave")
  /\ UNCHANGED <<deviceVars, queueVars, historyVars, failures, running, loader, leased, inflight,
                 sessions, command>>

\* Mutant of next_ready_frame: taking a frame does not wake the loader.
next_ready_frame_mute ==
  /\ replay.at = "wait" /\ MutexFree
  /\ \/ /\ loader_failure /\ replay_goes("fault")
        /\ UNCHANGED <<ready, loader, leased>>
     \/ /\ ~loader_failure /\ ~running /\ replay_goes("leave")
        /\ UNCHANGED <<ready, loader, leased>>
     \/ /\ ~loader_failure /\ running /\ ready # <<>>
        /\ replay' = [at |-> "publish", frame |-> Head(ready)]
        /\ ready' = Tail(ready)
        /\ leased' = [leased EXCEPT !.replay = TRUE]
        /\ UNCHANGED loader
     \/ /\ ~loader_failure /\ running /\ ready = <<>>
        /\ replay_goes("blocking")
        /\ UNCHANGED <<ready, loader, leased>>
  /\ UNCHANGED <<deviceVars, next_load, loader_failure, historyVars, failures, running, inflight,
                 sessions, command>>

next_ready_frame ==
  /\ replay.at = "wait" /\ MutexFree
  /\ \/ /\ loader_failure /\ replay_goes("fault")
        /\ UNCHANGED <<ready, loader, leased>>
     \/ /\ ~loader_failure /\ ~running /\ replay_goes("leave")
        /\ UNCHANGED <<ready, loader, leased>>
     \/ /\ ~loader_failure /\ running /\ ready # <<>>
        /\ replay' = [at |-> "publish", frame |-> Head(ready)]
        /\ ready' = Tail(ready)
        /\ leased' = [leased EXCEPT !.replay = TRUE]
        /\ loader' = Wake(loader)
     \/ /\ ~loader_failure /\ running /\ ready = <<>>
        /\ replay_goes("blocking")
        /\ UNCHANGED <<ready, loader, leased>>
  /\ UNCHANGED <<deviceVars, next_load, loader_failure, historyVars, failures, running, inflight,
                 sessions, command>>

replay_sleeps ==
  /\ replay.at = "blocking"
  /\ replay_goes("asleep")
  /\ UNCHANGED <<deviceVars, queueVars, historyVars, failures, running, loader, leased, inflight,
                 sessions, command>>

Published(at) ==
  /\ replay_goes(at)
  /\ leased' = [leased EXCEPT !.replay = FALSE]
  /\ UNCHANGED <<deviceVars, queueVars, missed, failures, running, loader, sessions, command>>

\* QueueFull, and WouldBlock of an all-active publisher, are tried again: a step
\* that changes nothing.
replay_accepted ==
  /\ replay.at = "publish" /\ running /\ sessions > 0
  /\ Published("session")
  /\ inflight' = inflight + 1
  /\ last' = replay.frame /\ beat' = ~beat

\* NoSession, or CreditStalled of a best-effort publisher: the slot is gone.
replay_refused ==
  /\ replay.at = "publish" /\ running
  /\ sessions > 0 => ~AllActive
  /\ Published("restart")
  /\ UNCHANGED <<inflight, last, beat>>

\* The device is being deleted while the frame is still to be published: what
\* the loop leaves with is QueueFull or WouldBlock, which is thrown.
replay_cut_short ==
  /\ replay.at = "publish" /\ ~running
  /\ Published("fault")
  /\ UNCHANGED <<inflight, last, beat>>

restart_prefetch ==
  /\ replay.at = "restart" /\ MutexFree
  /\ loader' = [Wake(loader) EXCEPT !.current = FALSE]
  /\ next_load' = replay.frame /\ ready' = <<>>
  /\ replay_goes("session")
  /\ UNCHANGED <<deviceVars, loader_failure, historyVars, failures, running, leased, inflight,
                 sessions, command>>

rethrow_loader_failure ==
  /\ replay.at = "leave" /\ MutexFree
  /\ replay_goes(IF loader_failure THEN "fault" ELSE "done")
  /\ UNCHANGED <<deviceVars, queueVars, historyVars, failures, running, loader, leased, inflight,
                 sessions, command>>

replay_fault ==
  /\ replay.at = "fault"
  /\ state' = "FAULT"
  /\ replay_goes("done")
  /\ UNCHANGED <<tango, inits, count, pub, attached, queueVars, historyVars, failures, running, loader,
                 leased, inflight, sessions, command>>

replay_loop ==
  \/ replay_session \/ next_ready_frame \/ replay_sleeps \/ replay_accepted \/ replay_refused
  \/ replay_cut_short \/ restart_prefetch \/ rethrow_loader_failure \/ replay_fault

-----------------------------------------------------------------------------
delete_device ==
  delete_stop \/ delete_notify \/ delete_join \/ detach_publisher \/ delete_publisher

Commands == dispatch_coordination \/ dispatch_unattached \/ dispatched

Next ==
  \/ init_device \/ init_failed \/ delete_device \/ Commands \/ session_expires \/ slot_returns
  \/ loader_loop \/ replay_loop

Spec == Init /\ [][Next]_vars

\* delete_device() runs to its end, threads are scheduled, commands return, and
\* completions come.  A publish() tried again and again is accepted at times: the
\* subscriber releases frames.  The registry's exclusive lock is granted at last.
Fairness ==
  /\ WF_vars(delete_notify \/ delete_join \/ delete_publisher) /\ SF_vars(detach_publisher)
  /\ WF_vars(dispatched) /\ WF_vars(slot_returns)
  /\ WF_vars(loader_take) /\ WF_vars(loader_sleeps) /\ WF_vars(loader_acquire)
  /\ WF_vars(read_frame \/ read_frame_throws) /\ WF_vars(loader_push) /\ WF_vars(loader_catch)
  /\ WF_vars(replay_loop) /\ SF_vars(replay_accepted)

FairSpec == Spec /\ Fairness

-----------------------------------------------------------------------------
\* The device replays its dataset in order, around and around, whatever is
\* refused in between: a frame is accepted only if it follows the one accepted
\* before it (restart_prefetch() and the epoch a load is compared with).
ReplayInOrder ==
  [][beat' # beat => last = None \/ last' = (last + 1) % count]_vars

\* No thread of the device and no command is inside the publisher when
\* delete_device() destroys it: the threads are joined first, and
\* detach_publisher() waits for commands, which hold the registry's mutex.
PublisherOutlivesUse ==
  command \/ loader.at \notin {"off", "done"} \/ replay.at \notin {"off", "done"} => pub

\* While a session stays open and the loader has not failed, frames keep being
\* accepted: neither thread waits for a notification or a slot that never comes.
\* (loader_failure_ is never cleared: a device that failed once does not play
\* again, however often it is initialised.)
KeepsPlaying ==
  <>[](tango = "up" /\ ~loader_failure /\ sessions = 1) => []<>beat /\ []<>~beat

\* delete_device() returns, and a loader that fails ends the replay thread,
\* unless the only notification came while a thread was between its predicate
\* and its sleep: running_ is cleared and notified without ready_mutex_.
StopsWhenTold ==
  /\ tango = "notify" ~> tango = "down" \/ missed
  /\ loader.at = "clear" ~> replay.at = "done" \/ tango # "up"
=============================================================================
