---------------------------- MODULE BoundedQueue ----------------------------
(***************************************************************************)
(* The bounded multi-producer multi-consumer queue under every hand-over   *)
(* between threads (src/core/bounded_queue.h).  One step is one atomic     *)
(* access.  Each cell carries a sequence that says whose turn it is.       *)
(***************************************************************************)
EXTENDS FiniteSets, QueueCells

CONSTANTS
  Requested,   \* the capacity asked for
  Producers,
  Consumers,
  MaxPushes    \* bound on pushes that claim a position

ASSUME QueueAssumption == Requested \in Nat \ {0} /\ MaxPushes \in Nat
ASSUME ThreadAssumption == Producers \intersect Consumers = {}

VARIABLES cell, enqueue_pos, dequeue_pos, size, thread, pushed, popped

vars == <<cell, enqueue_pos, dequeue_pos, size, thread, pushed, popped>>

Capacity == round_up_pow2(Requested)
Cells == 0 .. Capacity - 1
Threads == Producers \union Consumers

\* A cell without an item.  An item is the producer that pushed it.
Empty == "empty"

Idle == [at |-> "idle", pos |-> 0]

\* `pushed` and `popped` are history: what was put at and taken from each
\* position.
Init ==
  /\ cell = [i \in Cells |-> [sequence |-> i, data |-> Empty]]
  /\ enqueue_pos = 0 /\ dequeue_pos = 0 /\ size = 0
  /\ thread = [t \in Threads |-> Idle]
  /\ pushed = [p \in 0 .. MaxPushes - 1 |-> Empty]
  /\ popped = [p \in 0 .. MaxPushes - 1 |-> Empty]

\* pos & mask_
Cell(pos) == pos % Capacity

At(t, at) == thread[t].at = at
Go(t, at) == thread' = [thread EXCEPT ![t].at = at]

-----------------------------------------------------------------------------
(* try_push.                                                               *)

push_begin(t) ==
  /\ At(t, "idle")
  /\ enqueue_pos + Cardinality({u \in Producers : thread[u].at \in {"look", "claim"}}) < MaxPushes
  /\ thread' = [thread EXCEPT ![t] = [at |-> "look", pos |-> enqueue_pos]]
  /\ UNCHANGED <<cell, enqueue_pos, dequeue_pos, size, pushed, popped>>

PushLook(t, free) ==
  /\ At(t, "look")
  /\ LET diff == cell[Cell(thread[t].pos)].sequence - thread[t].pos
     IN  thread' = [thread EXCEPT ![t] =
           IF diff \in free THEN [@ EXCEPT !.at = "claim"]
           ELSE IF diff < 0 THEN Idle
           ELSE [@ EXCEPT !.pos = enqueue_pos]]
  /\ UNCHANGED <<cell, enqueue_pos, dequeue_pos, size, pushed, popped>>

\* Mutant of push_look: <= for ==, the cell may still hold its item.
push_look_full(t) == PushLook(t, -Capacity .. 0)

\* The cell's sequence against the position: free for this lap, still full
\* (try_push returns false), or already taken by another producer.
push_look(t) == PushLook(t, {0})

\* Mutant of push_claim: the position is stored, not swapped.
push_claim_store(t) ==
  /\ At(t, "claim")
  /\ enqueue_pos' = thread[t].pos + 1
  /\ Go(t, "write")
  /\ UNCHANGED <<cell, dequeue_pos, size, pushed, popped>>

\* The compare-and-swap; a loser starts over from the new position.
push_claim(t) ==
  /\ At(t, "claim")
  /\ IF enqueue_pos = thread[t].pos
       THEN enqueue_pos' = enqueue_pos + 1 /\ Go(t, "write")
       ELSE /\ thread' = [thread EXCEPT ![t].at = "look", ![t].pos = enqueue_pos]
            /\ UNCHANGED enqueue_pos
  /\ UNCHANGED <<cell, dequeue_pos, size, pushed, popped>>

push_write(t) ==
  /\ At(t, "write")
  /\ cell' = [cell EXCEPT ![Cell(thread[t].pos)].data = t]
  /\ pushed' = [pushed EXCEPT ![thread[t].pos] = t]
  /\ Go(t, "publish")
  /\ UNCHANGED <<enqueue_pos, dequeue_pos, size, popped>>

push_publish(t) ==
  /\ At(t, "publish")
  /\ cell' = [cell EXCEPT ![Cell(thread[t].pos)].sequence = thread[t].pos + 1]
  /\ Go(t, "count")
  /\ UNCHANGED <<enqueue_pos, dequeue_pos, size, pushed, popped>>

push_count(t) ==
  /\ At(t, "count")
  /\ size' = size + 1
  /\ thread' = [thread EXCEPT ![t] = Idle]
  /\ UNCHANGED <<cell, enqueue_pos, dequeue_pos, pushed, popped>>

-----------------------------------------------------------------------------
(* try_pop.                                                                *)

pop_begin(t) ==
  /\ At(t, "idle")
  /\ thread' = [thread EXCEPT ![t] = [at |-> "look", pos |-> dequeue_pos]]
  /\ UNCHANGED <<cell, enqueue_pos, dequeue_pos, size, pushed, popped>>

pop_look(t) ==
  /\ At(t, "look")
  /\ LET diff == cell[Cell(thread[t].pos)].sequence - (thread[t].pos + 1)
     IN  thread' = [thread EXCEPT ![t] =
           IF diff = 0 THEN [@ EXCEPT !.at = "claim"]
           ELSE IF diff < 0 THEN Idle
           ELSE [@ EXCEPT !.pos = dequeue_pos]]
  /\ UNCHANGED <<cell, enqueue_pos, dequeue_pos, size, pushed, popped>>

pop_claim(t) ==
  /\ At(t, "claim")
  /\ IF dequeue_pos = thread[t].pos
       THEN dequeue_pos' = dequeue_pos + 1 /\ Go(t, "read")
       ELSE /\ thread' = [thread EXCEPT ![t].at = "look", ![t].pos = dequeue_pos]
            /\ UNCHANGED dequeue_pos
  /\ UNCHANGED <<cell, enqueue_pos, size, pushed, popped>>

pop_read(t) ==
  /\ At(t, "read")
  /\ popped' = [popped EXCEPT ![thread[t].pos] = cell[Cell(thread[t].pos)].data]
  /\ cell' = [cell EXCEPT ![Cell(thread[t].pos)].data = Empty]
  /\ Go(t, "release")
  /\ UNCHANGED <<enqueue_pos, dequeue_pos, size, pushed>>

\* Mutant of pop_release: off by one, the cell looks written a lap ahead.
pop_release_early(t) ==
  /\ At(t, "release")
  /\ cell' = [cell EXCEPT ![Cell(thread[t].pos)].sequence = thread[t].pos + Capacity + 1]
  /\ Go(t, "count")
  /\ UNCHANGED <<enqueue_pos, dequeue_pos, size, pushed, popped>>

pop_release(t) ==
  /\ At(t, "release")
  /\ cell' = [cell EXCEPT ![Cell(thread[t].pos)].sequence = thread[t].pos + Capacity]
  /\ Go(t, "count")
  /\ UNCHANGED <<enqueue_pos, dequeue_pos, size, pushed, popped>>

\* size_ is unsigned and may be lowered before the push raises it; the model
\* lets it go below zero where the code wraps.
pop_count(t) ==
  /\ At(t, "count")
  /\ size' = size - 1
  /\ thread' = [thread EXCEPT ![t] = Idle]
  /\ UNCHANGED <<cell, enqueue_pos, dequeue_pos, pushed, popped>>

-----------------------------------------------------------------------------

Push(t) ==
  push_look(t) \/ push_claim(t) \/ push_write(t) \/ push_publish(t) \/ push_count(t)

Pop(t) ==
  pop_look(t) \/ pop_claim(t) \/ pop_read(t) \/ pop_release(t) \/ pop_count(t)

Next ==
  \/ \E t \in Producers : push_begin(t) \/ Push(t)
  \/ \E t \in Consumers : pop_begin(t) \/ Pop(t)

Spec == Init /\ [][Next]_vars

-----------------------------------------------------------------------------
(* Properties.                                                             *)

Holders(i) ==
  {t \in Threads : thread[t].at \in {"write", "publish", "read", "release"}
                     /\ Cell(thread[t].pos) = i}

\* No cell is written or read by two threads at once: the plain data in a cell
\* is never raced for.
CellExclusive == \A i \in Cells : Cardinality(Holders(i)) <= 1

\* A bounded queue, first in, first out, exactly once: never more than Capacity
\* positions are claimed by producers and not by consumers; the pop that claimed
\* position p takes what the push that claimed p wrote; and with no operation in
\* progress the gauge is the number of items, so that a reader that trusts
\* empty() sleeps only on an empty queue.
BoundedFifo ==
  /\ enqueue_pos - dequeue_pos \in 0 .. Capacity
  /\ \A p \in 0 .. dequeue_pos - 1 :
       (\A t \in Consumers : thread[t].at = "read" => thread[t].pos # p)
         => popped[p] = pushed[p] /\ popped[p] # Empty
  /\ (\A t \in Threads : At(t, "idle")) => size = enqueue_pos - dequeue_pos

\* An operation starts over only because another one got ahead of it: a cell
\* that is neither free nor full for the position a thread loaded was claimed by
\* somebody else since, and loading the position again finds a later one.  So
\* some operation always gets through.  (This is lock-freedom.  One thread may
\* lose every race: the loops of try_push and try_pop have no bound.)
RetryMeansProgress ==
  \A t \in Threads : At(t, "look") =>
    LET sequence == cell[Cell(thread[t].pos)].sequence
    IN  /\ t \in Producers /\ sequence > thread[t].pos => enqueue_pos > thread[t].pos
        /\ t \in Consumers /\ sequence > thread[t].pos + 1 => dequeue_pos > thread[t].pos

=============================================================================
