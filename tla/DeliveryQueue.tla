--------------------------- MODULE DeliveryQueue ---------------------------
(***************************************************************************)
(* The hand-over of frames from a transport's engine thread to the reading *)
(* threads of a subscription (src/core/delivery_queue.cpp): the queue, its *)
(* semaphore eventfd, the waiting count and armed flag that decide when a  *)
(* token is written, the ingress a reconnect retires, and the terminal     *)
(* outcome.  A reader's pop of the BoundedQueue takes two steps, as it can *)
(* keep a push out of a queue that has room (QueueCells).                  *)
(***************************************************************************)
EXTENDS FiniteSets, QueueCells

CONSTANTS
  Blocking,    \* readers in read_result(), as read_for() and the dispatcher use it
  Polling,     \* readers that try_read_result() and then poll the descriptor
  Capacity,
  Policy,      \* "DropNewest" or "DropOldest"
  Transports,  \* transports the subscription goes through, 1 .. Transports
  Ends,        \* the outcomes that may be set; callback_failed() is close() here
  MaxFrames    \* bound on frames that arrive

ASSUME DeliveryAssumption ==
  \* a power of two, but not one: a BoundedQueue of one cell is no queue
  /\ Capacity \in Nat \ {0, 1} /\ Capacity = round_up_pow2(Capacity)
  /\ Transports \in Nat \ {0} /\ MaxFrames \in Nat
  /\ Policy \in {"DropNewest", "DropOldest"}
  /\ Ends \subseteq {"Closed", "Interrupted", "SessionFailed"}

VARIABLES
  queue,
  popping,   \* its cells that readers have claimed and not given back
  waiting,   \* waiting_readers
  armed,     \* armed_reader
  tokens,    \* the count in wakeup_fd
  accepting,
  terminal,
  current,   \* the transport whose ingress is current
  retired,   \* transports whose ingress is retired
  engine,    \* per transport: what its push_frame is doing
  reader,    \* what each reader is doing
  control,   \* the control thread, which replaces the transport
  ender,     \* the thread inside set_terminal()
  arrived,   \* frames that reached a transport
  count,     \* the taken, dropped and discarded counters
  uncounted  \* history: frames lost that no counter shows

wakeVars == <<waiting, armed, tokens>>
queueVars == <<queue, popping>>
vars == <<queueVars, wakeVars, accepting, terminal, current, retired, engine, reader, control,
          ender, arrived, count, uncounted>>

Readers == Blocking \union Polling
Engines == 1 .. Transports

\* An outcome after which frames are no longer handed out.
Final(end) == end \notin {"None", "SessionFailed"}
WaitsForPushes(end) == end # "Interrupted"
Discards(end) == end = "Closed"

Init ==
  /\ queue = <<>> /\ popping = <<>> /\ waiting = 0 /\ armed = FALSE /\ tokens = 0
  /\ accepting = TRUE /\ terminal = "None"
  /\ current = 1 /\ retired = {}
  /\ engine = [e \in Engines |-> "idle"]
  /\ reader = [r \in Readers |-> "idle"]
  /\ control = "idle"
  /\ ender = [at |-> "idle", end |-> "None"]
  /\ arrived = 0
  /\ count = [taken |-> 0, dropped |-> 0, discarded |-> 0]
  /\ uncounted = 0

\* try_pop by a thread of the subscription's own, in one step.
TryPop == queue' = Tail(queue) /\ popping' = PopWhole(popping)

\* try_push of a frame of transport e.
HasRoom == Room(queue, popping, Capacity) > 0
TryPush(e) == queue' = Append(queue, e) /\ UNCHANGED popping

consume_one == tokens' = IF tokens = 0 THEN 0 ELSE tokens - 1

remove_waiter == waiting' = IF waiting = 0 THEN 0 ELSE waiting - 1

-----------------------------------------------------------------------------
(* push_frame(), on the engine thread of a transport.                      *)

Engine(e, from, to) == engine[e] = from /\ engine' = [engine EXCEPT ![e] = to]

notEngine == <<terminal, current, retired, accepting, reader, control, ender>>

\* A frame arrives and the push enters the barrier.
push_enter(e) ==
  /\ e <= current
  /\ arrived < MaxFrames
  /\ arrived' = arrived + 1
  /\ Engine(e, "idle", "check")
  /\ UNCHANGED <<queueVars, wakeVars, count, uncounted, notEngine>>

push_refused(e) ==
  /\ e \in retired \/ ~accepting
  /\ Engine(e, "check", "idle")
  /\ count' = [count EXCEPT !.discarded = @ + 1]
  /\ UNCHANGED <<queueVars, wakeVars, arrived, uncounted, notEngine>>

push_current(e) ==
  /\ e \notin retired /\ accepting
  /\ Engine(e, "check", "push")
  /\ UNCHANGED <<queueVars, wakeVars, arrived, count, uncounted, notEngine>>

push_try(e) ==
  /\ IF HasRoom
       THEN Engine(e, "push", "signal") /\ TryPush(e) /\ UNCHANGED count
       ELSE /\ Engine(e, "push", IF Policy = "DropOldest" THEN "evict" ELSE "idle")
            /\ count' = IF Policy = "DropOldest" THEN count ELSE [count EXCEPT !.dropped = @ + 1]
            /\ UNCHANGED queueVars
  /\ UNCHANGED <<wakeVars, arrived, uncounted, notEngine>>

\* Mutant of push_evict: the evicted frame is not counted.
push_evict_uncounted(e) ==
  /\ IF queue # <<>>
       THEN Engine(e, "evict", "steal") /\ TryPop
       ELSE Engine(e, "evict", "idle") /\ UNCHANGED queueVars
  /\ UNCHANGED <<wakeVars, arrived, count, uncounted, notEngine>>

\* DropOldest: the head is popped, unless a reader emptied the queue meanwhile;
\* then this frame is dropped.
push_evict(e) ==
  /\ IF queue # <<>>
       THEN Engine(e, "evict", "steal") /\ TryPop
       ELSE Engine(e, "evict", "idle") /\ UNCHANGED queueVars
  /\ count' = [count EXCEPT !.dropped = @ + 1]
  /\ UNCHANGED <<wakeVars, arrived, uncounted, notEngine>>

\* The evicted frame takes a token with it, and this frame goes in; unless a
\* reader is still popping an older one.  Then both are gone, and one drop has
\* been counted.
push_again(e) ==
  /\ consume_one
  /\ IF HasRoom
       THEN Engine(e, "steal", "signal") /\ TryPush(e) /\ UNCHANGED uncounted
       ELSE Engine(e, "steal", "idle") /\ uncounted' = uncounted + 1 /\ UNCHANGED queueVars
  /\ UNCHANGED <<waiting, armed, arrived, count, notEngine>>

\* signal_one(): a waiting reader is counted off, or else the armed flag is taken.
signal_one(e) ==
  /\ Engine(e, "signal", IF waiting > 0 THEN "token" ELSE "armed")
  /\ remove_waiter
  /\ UNCHANGED <<queueVars, uncounted, armed, tokens, arrived, count, notEngine>>

signal_armed(e) ==
  /\ Engine(e, "armed", IF armed THEN "token" ELSE "idle")
  /\ armed' = FALSE
  /\ UNCHANGED <<queueVars, uncounted, waiting, tokens, arrived, count, notEngine>>

signal_token(e) ==
  /\ Engine(e, "token", "idle")
  /\ tokens' = tokens + 1
  /\ UNCHANGED <<queueVars, uncounted, waiting, armed, arrived, count, notEngine>>

-----------------------------------------------------------------------------
(* Readers: read_result() and try_read_result(), which differ in what they *)
(* do when there is nothing to read.                                       *)

Reader(r, from, to) == reader[r] = from /\ reader' = [reader EXCEPT ![r] = to]

notReader == <<uncounted, accepting, terminal, current, retired, engine, control, ender, arrived>>

read_look(r) ==
  /\ \/ Reader(r, "idle", IF Final(terminal) THEN "ended" ELSE "take")
     \/ Reader(r, "look", IF Final(terminal) THEN "ended" ELSE "take")
  /\ UNCHANGED <<queueVars, wakeVars, count, notReader>>

\* take_one(): try_pop claims the head, and gives its cell back.
read_take(r) ==
  /\ IF queue # <<>>
       THEN /\ Reader(r, "take", "popping")
            /\ queue' = Tail(queue) /\ popping' = Append(popping, r)
       ELSE Reader(r, "take", "empty") /\ UNCHANGED queueVars
  /\ UNCHANGED <<wakeVars, count, notReader>>

read_taken(r) ==
  /\ Reader(r, "popping", "taken")
  /\ popping' = PopEnd(popping, r)
  /\ UNCHANGED <<queue, wakeVars, count, notReader>>

take_one_disarm(r) ==
  /\ Reader(r, "taken", "consume")
  /\ armed' = FALSE
  /\ UNCHANGED <<queueVars, waiting, tokens, count, notReader>>

take_one_consume(r) ==
  /\ Reader(r, "consume", "idle")
  /\ consume_one
  /\ count' = [count EXCEPT !.taken = @ + 1]
  /\ UNCHANGED <<queueVars, waiting, armed, notReader>>

read_empty(r) ==
  /\ Reader(r, "empty", IF terminal # "None" THEN "ended"
                        ELSE IF r \in Blocking THEN "await" ELSE "arm")
  /\ UNCHANGED <<queueVars, wakeVars, count, notReader>>

\* await(): the reader is counted before it looks once more.
await_enter(r) ==
  /\ Reader(r, "await", "disarm")
  /\ waiting' = waiting + 1
  /\ UNCHANGED <<queueVars, armed, tokens, count, notReader>>

await_disarm(r) ==
  /\ Reader(r, "disarm", "again")
  /\ armed' = FALSE
  /\ UNCHANGED <<queueVars, waiting, tokens, count, notReader>>

\* empty() also counts the frames that readers are still popping.
await_again(r) ==
  /\ IF \/ queue # <<>> \/ \E q \in Readers : reader[q] = "popping"
        \/ terminal # "None"
       THEN Reader(r, "again", "look") /\ remove_waiter
       ELSE Reader(r, "again", "asleep") /\ UNCHANGED waiting
  /\ UNCHANGED <<queueVars, armed, tokens, count, notReader>>

\* poll() returns with the descriptor readable.
await_woken(r) ==
  /\ tokens > 0
  /\ Reader(r, "asleep", "woken")
  /\ UNCHANGED <<queueVars, wakeVars, count, notReader>>

await_consume(r) ==
  /\ Reader(r, "woken", "leave")
  /\ consume_one
  /\ UNCHANGED <<queueVars, waiting, armed, count, notReader>>

await_leave(r) ==
  /\ Reader(r, "leave", "look")
  /\ remove_waiter
  /\ UNCHANGED <<queueVars, armed, tokens, count, notReader>>

\* The deadline passed before await() was entered, or passes inside poll();
\* read_result() then arms and reports Timeout.
await_timeout(r) ==
  /\ \/ Reader(r, "await", "arm") /\ UNCHANGED waiting
     \/ Reader(r, "asleep", "arm") /\ remove_waiter
  /\ UNCHANGED <<queueVars, armed, tokens, count, notReader>>

\* The last thing a read that found nothing does.  A polling reader then waits
\* for the descriptor.
read_arm(r) ==
  /\ Reader(r, "arm", IF r \in Blocking THEN "idle" ELSE "polling")
  /\ armed' = TRUE
  /\ UNCHANGED <<queueVars, waiting, tokens, count, notReader>>

poll_woken(r) ==
  /\ tokens > 0
  /\ Reader(r, "polling", "look")
  /\ UNCHANGED <<queueVars, wakeVars, count, notReader>>

-----------------------------------------------------------------------------
(* The control thread when a session breaks: the ingress is retired, and   *)
(* the subscription fails or discards and opens another transport.         *)

Control(from, to) == control = from /\ control' = to

notControl == <<uncounted, accepting, terminal, engine, reader, ender, arrived>>

retire_ingress ==
  /\ Control("idle", "retiring")
  /\ retired' = retired \union {current}
  /\ UNCHANGED <<queueVars, wakeVars, current, count, notControl>>

\* Mutant of retire_wait: pushes that are under way are not waited for.
retire_wait_not ==
  /\ Control("retiring", "closed")
  /\ UNCHANGED <<queueVars, wakeVars, current, retired, count, notControl>>

retire_wait ==
  /\ engine[current] = "idle"
  /\ Control("retiring", "closed")
  /\ UNCHANGED <<queueVars, wakeVars, current, retired, count, notControl>>

\* reconnect() after its backoff.
discard_begin ==
  /\ current < Transports
  /\ Control("closed", "discarding")
  /\ UNCHANGED <<queueVars, wakeVars, current, retired, count, notControl>>

\* discard() adds to the counter once, at its end; no other step reads it.
discard_one ==
  /\ queue # <<>>
  /\ Control("discarding", "discarding")
  /\ TryPop
  /\ consume_one
  /\ count' = [count EXCEPT !.discarded = @ + 1]
  /\ UNCHANGED <<waiting, armed, current, retired, notControl>>

\* drain_wakeups(); then the open fails, or the next transport gets an ingress.
discard_drain ==
  /\ queue = <<>>
  /\ \/ Control("discarding", "closed") /\ UNCHANGED current
     \/ Control("discarding", "idle") /\ current' = current + 1
  /\ tokens' = 0
  /\ UNCHANGED <<queueVars, waiting, armed, retired, count, notControl>>

-----------------------------------------------------------------------------
(* set_terminal(), first caller wins.                                      *)

Ender(from, to) == ender.at = from /\ ender' = [ender EXCEPT !.at = to]

notEnder == <<uncounted, current, retired, engine, reader, arrived>>

\* The control thread fails the subscription; any thread closes or interrupts it.
\* accepting is a release store and the load of active_pushes comes right after
\* it: the store may sit in a store buffer while the load is made.
end_begin(end) ==
  /\ ender.at = "idle" /\ terminal = "None"
  /\ IF end = "SessionFailed" THEN Control("closed", "ended") ELSE UNCHANGED control
  /\ ender' = [at |-> "stopping", end |-> end]
  /\ UNCHANGED <<queueVars, wakeVars, accepting, terminal, count, notEnder>>

\* The store becomes visible, before any later one.
end_visible ==
  /\ ender.at # "idle" /\ accepting
  /\ accepting' = FALSE
  /\ UNCHANGED <<queueVars, wakeVars, terminal, count, control, ender, notEnder>>

\* Interrupt waits for nobody and counts the queue as it stands.
end_quiet ==
  /\ WaitsForPushes(ender.end) => \A e \in Engines : engine[e] = "idle"
  /\ Ender("stopping", IF Discards(ender.end) THEN "discarding" ELSE "publish")
  /\ count' = IF ender.end = "Interrupted"
                THEN [count EXCEPT !.discarded = @ + Len(queue)] ELSE count
  /\ UNCHANGED <<queueVars, wakeVars, accepting, terminal, control, notEnder>>

end_discard ==
  /\ queue # <<>>
  /\ Ender("discarding", "discarding")
  /\ TryPop
  /\ count' = [count EXCEPT !.discarded = @ + 1]
  /\ UNCHANGED <<wakeVars, accepting, terminal, control, notEnder>>

end_drain ==
  /\ queue = <<>>
  /\ Ender("discarding", "publish")
  /\ tokens' = 0
  /\ UNCHANGED <<queueVars, waiting, armed, accepting, terminal, count, control, notEnder>>

end_publish ==
  /\ ~accepting
  /\ Ender("publish", "signal")
  /\ terminal' = ender.end
  /\ UNCHANGED <<queueVars, wakeVars, accepting, count, control, notEnder>>

signal_all ==
  /\ Ender("signal", "idle")
  /\ waiting' = 0
  /\ tokens' = tokens + Max({waiting, 1})
  /\ UNCHANGED <<queueVars, armed, accepting, terminal, count, control, notEnder>>

-----------------------------------------------------------------------------
EngineStep(e) ==
  \/ push_refused(e) \/ push_current(e) \/ push_try(e) \/ push_evict(e) \/ push_again(e)
  \/ signal_one(e) \/ signal_armed(e) \/ signal_token(e)

ReaderStep(r) ==
  \/ read_look(r) \/ read_take(r) \/ read_taken(r) \/ take_one_disarm(r) \/ take_one_consume(r)
  \/ read_empty(r) \/ await_enter(r) \/ await_disarm(r) \/ await_again(r)
  \/ await_woken(r) \/ await_consume(r) \/ await_leave(r) \/ read_arm(r) \/ poll_woken(r)

EnderStep == end_visible \/ end_quiet \/ end_discard \/ end_drain \/ end_publish \/ signal_all

Next ==
  \/ \E e \in Engines : push_enter(e) \/ EngineStep(e)
  \/ \E r \in Readers : ReaderStep(r)
  \/ \E r \in Blocking : await_timeout(r)
  \/ retire_ingress \/ retire_wait \/ discard_begin \/ discard_one \/ discard_drain
  \/ \E end \in Ends : end_begin(end)
  \/ EnderStep

Spec == Init /\ [][Next]_vars

-----------------------------------------------------------------------------
\* Nothing is under way but the sleep of every reader.
AllAsleep ==
  /\ \A e \in Engines : engine[e] = "idle"
  /\ control # "discarding" /\ ender.at = "idle"
  /\ \A r \in Readers : reader[r] \in {"asleep", "polling"}

\* "A frame that arrives between the look and the wait is not lost": readers
\* never all sleep on an unreadable descriptor beside a frame that is queued or a
\* terminal outcome that is set (signal_one, signal_all, await, try_read_result).
NoLostWakeup == AllAsleep /\ (queue # <<>> \/ terminal # "None") => tokens > 0

\* No transport pushes late.  Once the next one has its ingress, the queue holds
\* none of the frames of an earlier one: retire_ingress waits for pushes that
\* passed its flag.  "Every accepted frame is visible before SessionFailed
\* becomes observable": no frame enters the queue after it.  The barrier of
\* set_terminal alone would not do, as the store to accepting may come late; the
\* ingress is retired first.
NoLateFrame ==
  /\ [](\A i \in DOMAIN queue : queue[i] = current)
  /\ [][terminal = "SessionFailed" => Len(queue') <= Len(queue)]_vars

InTransit ==
  Cardinality({e \in Engines : engine[e] \in {"check", "push", "evict", "steal"}})
    + Cardinality({r \in Readers : reader[r] \in {"popping", "taken", "consume"}})

\* Every frame that arrived is taken, dropped, discarded, queued or in some
\* thread's hands, exactly once, whatever threads race for it; but for the frames
\* that DropOldest loses beside the one it evicts, at most one for every drop it
\* counts.  (Interrupt counts the queue without emptying it.)
FramesAccounted ==
  /\ uncounted <= count.dropped
  /\ ender.end # "Interrupted" =>
       arrived = count.taken + count.dropped + count.discarded + uncounted + Len(queue) + InTransit

=============================================================================
