------------------------- MODULE BoundedQueueProofs -------------------------
(***************************************************************************)
(* The bounded queue is exclusive and first in, first out for every        *)
(* capacity of at least two cells and any finite number of threads.        *)
(*                                                                         *)
(* The argument: the Capacity positions from dequeue_pos on name every     *)
(* cell once.  Of those a producer has claimed, the cell's sequence is the *)
(* position (being written) or the next (written); of the others it is the *)
(* position (free) or that of the lap before plus one (being read).  Whoever *)
(* holds a cell is therefore known from its sequence alone, and with two   *)
(* or more cells the four cases are different numbers.                     *)
(***************************************************************************)
EXTENDS BoundedQueue, CreditWindowProofs

\* What the theorems assume of the constants.
Queue ==
  /\ Capacity \in Nat /\ Capacity >= 2
  /\ IsFiniteSet(Producers) /\ IsFiniteSet(Consumers) /\ Empty \notin Producers
  /\ Producers \cap Consumers = {} /\ MaxPushes \in Nat

SeqAt(p) == cell[Cell(p)].sequence
DataAt(p) == cell[Cell(p)].data

Places == {"idle", "look", "claim", "write", "publish", "count", "read", "release"}

Typed ==
  /\ cell \in [Cells -> [sequence : Nat, data : Producers \cup {Empty}]]
  /\ enqueue_pos \in Nat /\ dequeue_pos \in Nat /\ size \in Int
  /\ thread \in [Threads -> [at : Places, pos : Nat]]
  /\ pushed \in [0 .. MaxPushes - 1 -> Producers \cup {Empty}]
  /\ popped \in [0 .. MaxPushes - 1 -> Producers \cup {Empty}]

\* Every cell, by the position it stands for.
Window ==
  /\ dequeue_pos <= enqueue_pos /\ enqueue_pos <= dequeue_pos + Capacity
  /\ \A p \in dequeue_pos .. dequeue_pos + Capacity - 1 :
       IF p < enqueue_pos
       THEN /\ SeqAt(p) \in {p, p + 1}
            /\ SeqAt(p) = p + 1 => DataAt(p) = pushed[p] /\ pushed[p] # Empty
       ELSE SeqAt(p) \in {p, p + 1 - Capacity}

Writing(t) == thread[t].at \in {"write", "publish"}
Reading(t) == thread[t].at \in {"read", "release"}

\* What a producer knows of the position it has loaded or claimed.
Producer(t) ==
  LET p == thread[t].pos IN
  /\ thread[t].at \notin {"read", "release"}
  /\ thread[t].at \in {"look", "claim"} => p <= enqueue_pos
  /\ thread[t].at = "claim" /\ p = enqueue_pos => SeqAt(p) = p
  /\ Writing(t) => dequeue_pos <= p /\ p < enqueue_pos /\ SeqAt(p) = p
  /\ thread[t].at = "publish" => DataAt(p) = t /\ pushed[p] = t

Consumer(t) ==
  LET p == thread[t].pos IN
  /\ thread[t].at \notin {"write", "publish"}
  /\ thread[t].at \in {"look", "claim"} => p <= dequeue_pos
  /\ thread[t].at = "claim" /\ p = dequeue_pos => SeqAt(p) = p + 1
  /\ Reading(t) => p < dequeue_pos /\ enqueue_pos <= p + Capacity /\ SeqAt(p) = p + 1
  /\ thread[t].at = "read" => DataAt(p) = pushed[p] /\ pushed[p] # Empty

\* No position has two holders.
Alone ==
  /\ \A t, u \in Producers : Writing(t) /\ Writing(u) /\ t # u => thread[t].pos # thread[u].pos
  /\ \A t, u \in Consumers : Reading(t) /\ Reading(u) /\ t # u => thread[t].pos # thread[u].pos

Taken ==
  \A p \in 0 .. dequeue_pos - 1 :
    (\A t \in Consumers : thread[t].at = "read" => thread[t].pos # p)
      => popped[p] = pushed[p] /\ popped[p] # Empty

\* The threads that have yet to claim, and those that have yet to count.
Claiming == {t \in Producers : thread[t].at \in {"look", "claim"}}
Uncounted(S) == {t \in S : thread[t].at \in {"write", "publish", "read", "release", "count"}}

Counted ==
  /\ enqueue_pos + Cardinality(Claiming) <= MaxPushes
  /\ size = (enqueue_pos - Cardinality(Uncounted(Producers)))
              - (dequeue_pos - Cardinality(Uncounted(Consumers)))

\* The inductive invariant.
Inv ==
  /\ Typed /\ Window /\ Alone /\ Taken /\ Counted
  /\ \A t \in Producers : Producer(t)
  /\ \A t \in Consumers : Consumer(t)

-----------------------------------------------------------------------------

\* In the first lap a position is its cell.
LEMMA FirstLap ==
  ASSUME NEW D \in Nat \ {0}, NEW s \in 0 .. D - 1
  PROVE  s % D = s
<1> DEFINE k == s \div D
           r == s % D
<1>1. k \in Int /\ r \in 0 .. D - 1 /\ s = D * k + r
  BY ModRange
<1> HIDE DEF k, r
<1>2. CASE k >= 1
  <2>1. D * k >= D
    BY <1>1, <1>2
  <2> QED
    BY <1>1, <2>1
<1>3. CASE k <= -1
  <2>1. D * k <= -D
    BY <1>1, <1>3
  <2> QED
    BY <1>1, <2>1
<1>4. CASE k = 0
  BY <1>1, <1>4 DEF r
<1> QED
  BY <1>1, <1>2, <1>3, <1>4

\* Within one lap positions have cells of their own; a lap later they repeat.
LEMMA CellFacts ==
  ASSUME Queue
  PROVE  /\ \A p \in Nat : Cell(p) \in Cells
         /\ \A p, q \in Nat : p < q /\ q < p + Capacity => Cell(p) # Cell(q)
         /\ \A p \in Nat : Cell(p + Capacity) = Cell(p)
<1>1. Capacity \in Nat \ {0}
  BY DEF Queue
<1>2. ASSUME NEW p \in Nat PROVE Cell(p) \in Cells
  BY <1>1, ModRange DEF Cell, Cells
<1>3. ASSUME NEW p \in Nat, NEW q \in Nat, p < q, q < p + Capacity PROVE Cell(p) # Cell(q)
  BY <1>1, <1>3, ModUnique DEF Cell
<1>4. ASSUME NEW p \in Nat PROVE Cell(p + Capacity) = Cell(p)
  BY <1>1, ModShift DEF Cell
<1> QED
  BY <1>2, <1>3, <1>4

\* One more, one less, or as many.
LEMMA Counting ==
  ASSUME NEW S, IsFiniteSet(S), NEW A \in SUBSET S, NEW t \in S
  PROVE  /\ Cardinality(A) \in Nat
         /\ t \notin A => Cardinality(A \cup {t}) = Cardinality(A) + 1
         /\ t \in A => Cardinality(A \ {t}) = Cardinality(A) - 1 /\ Cardinality(A) >= 1
<1>1. IsFiniteSet(A)
  BY FS_Subset
<1>2. Cardinality(A) \in Nat
  BY <1>1, FS_CardinalityType
<1>3. t \notin A => Cardinality(A \cup {t}) = Cardinality(A) + 1
  BY <1>1, FS_AddElement
<1>4. ASSUME t \in A PROVE Cardinality(A \ {t}) = Cardinality(A) - 1 /\ Cardinality(A) >= 1
  <2>1. IsFiniteSet(A \ {t}) /\ Cardinality(A \ {t}) = Cardinality(A) - 1
    BY <1>1, <1>4, FS_RemoveElement
  <2>2. Cardinality(A \ {t}) \in Nat
    BY <2>1, FS_CardinalityType
  <2> QED
    BY <1>2, <2>1, <2>2
<1> QED
  BY <1>2, <1>3, <1>4

\* The counts depend on where the threads are, not on their positions.
LEMMA Counts ==
  ASSUME Queue, Typed, NEW t \in Threads
  PROVE  /\ Cardinality(Claiming) \in Nat
         /\ \A S \in {Producers, Consumers} :
              /\ Cardinality(Uncounted(S)) \in Nat
              /\ t \in S /\ t \notin Uncounted(S) =>
                   Cardinality(Uncounted(S) \cup {t}) = Cardinality(Uncounted(S)) + 1
              /\ t \in S /\ t \in Uncounted(S) =>
                   Cardinality(Uncounted(S) \ {t}) = Cardinality(Uncounted(S)) - 1
         /\ t \in Producers /\ t \notin Claiming =>
              Cardinality(Claiming \cup {t}) = Cardinality(Claiming) + 1
         /\ t \in Claiming => /\ Cardinality(Claiming \ {t}) = Cardinality(Claiming) - 1
                              /\ Cardinality(Claiming) >= 1
<1>1. Claiming \in SUBSET Producers /\ IsFiniteSet(Producers) /\ IsFiniteSet(Consumers)
  BY DEF Queue, Claiming
<1>2. \A S \in {Producers, Consumers} : Uncounted(S) \in SUBSET S
  BY DEF Uncounted
<1>3. Cardinality(Claiming) \in Nat
  <2>1. IsFiniteSet(Claiming)
    BY <1>1, FS_Subset
  <2> QED
    BY <2>1, FS_CardinalityType
<1>4. t \in Producers /\ t \notin Claiming =>
        Cardinality(Claiming \cup {t}) = Cardinality(Claiming) + 1
  BY <1>1, Counting
<1>5. t \in Claiming => /\ Cardinality(Claiming \ {t}) = Cardinality(Claiming) - 1
                        /\ Cardinality(Claiming) >= 1
  BY <1>1, Counting
<1>6. ASSUME NEW S \in {Producers, Consumers}
      PROVE  /\ Cardinality(Uncounted(S)) \in Nat
             /\ t \in S /\ t \notin Uncounted(S) =>
                  Cardinality(Uncounted(S) \cup {t}) = Cardinality(Uncounted(S)) + 1
             /\ t \in S /\ t \in Uncounted(S) =>
                  Cardinality(Uncounted(S) \ {t}) = Cardinality(Uncounted(S)) - 1
  <2>1. IsFiniteSet(S) /\ Uncounted(S) \in SUBSET S
    BY <1>1, <1>2
  <2>2. IsFiniteSet(Uncounted(S))
    BY <2>1, FS_Subset
  <2>3. Cardinality(Uncounted(S)) \in Nat
    BY <2>2, FS_CardinalityType
  <2>4. t \in S /\ t \notin Uncounted(S) =>
          Cardinality(Uncounted(S) \cup {t}) = Cardinality(Uncounted(S)) + 1
    BY <2>1, Counting
  <2>5. t \in S /\ t \in Uncounted(S) =>
          Cardinality(Uncounted(S) \ {t}) = Cardinality(Uncounted(S)) - 1
    BY <2>1, Counting
  <2> QED
    BY <2>3, <2>4, <2>5
<1> QED
  BY <1>3, <1>4, <1>5, <1>6

-----------------------------------------------------------------------------
(* Steps of a thread that holds no cell.                                   *)

\* Thread t moves and nothing else does, the gauge perhaps.
Quiet(t) ==
  /\ cell' = cell /\ enqueue_pos' = enqueue_pos /\ dequeue_pos' = dequeue_pos
  /\ pushed' = pushed /\ popped' = popped /\ size' \in Int
  /\ thread' \in [Threads -> [at : Places, pos : Nat]]
  /\ \A u \in Threads \ {t} : thread'[u] = thread[u]
  /\ ~Writing(t) /\ ~Reading(t) /\ ~Writing(t)' /\ ~Reading(t)'

\* A quiet step keeps what is said of the others; the rest is for thread t.
LEMMA QuietStep ==
  ASSUME Queue, Inv, NEW t \in Threads, Quiet(t), Counted',
         t \in Producers => Producer(t)', t \in Consumers => Consumer(t)'
  PROVE  Inv'
<1>1. /\ Typed /\ Window /\ Alone /\ Taken
      /\ \A u \in Producers : Producer(u)
      /\ \A u \in Consumers : Consumer(u)
  BY DEF Inv
<1>2. Typed'
  BY <1>1 DEF Typed, Quiet
<1>3. Window'
  BY <1>1 DEF Window, SeqAt, DataAt, Quiet
<1>4. \A u \in Producers : Producer(u)'
  BY <1>1 DEF Producer, Writing, SeqAt, DataAt, Quiet, Threads
<1>5. \A u \in Consumers : Consumer(u)'
  BY <1>1 DEF Consumer, Reading, SeqAt, DataAt, Quiet, Threads
<1>6. Alone'
  BY <1>1 DEF Alone, Writing, Reading, Quiet, Threads
<1>7. Taken'
  BY <1>1 DEF Taken, Reading, Quiet, Threads
<1> QED
  BY <1>2, <1>3, <1>4, <1>5, <1>6, <1>7 DEF Inv

\* push_begin() loads the position to try.
LEMMA PushBegin ==
  ASSUME Queue, Inv, NEW t \in Producers, push_begin(t)
  PROVE  Inv'
<1>1. Typed /\ Counted /\ t \in Threads /\ t \notin Consumers
  BY DEF Inv, Threads, Queue
<1>2. /\ thread[t].at = "idle" /\ enqueue_pos + Cardinality(Claiming) < MaxPushes
      /\ thread' = [thread EXCEPT ![t] = [at |-> "look", pos |-> enqueue_pos]]
      /\ UNCHANGED <<cell, enqueue_pos, dequeue_pos, size, pushed, popped>>
  BY DEF push_begin, At, Claiming
<1>3. Quiet(t)
  BY <1>1, <1>2 DEF Quiet, Typed, Writing, Reading, Places
<1>4. Producer(t)'
  BY <1>1, <1>2 DEF Producer, Writing, Typed
<1>5. Counted'
  <2>1. /\ Claiming' = Claiming \cup {t} /\ t \notin Claiming
        /\ Uncounted(Producers)' = Uncounted(Producers)
        /\ Uncounted(Consumers)' = Uncounted(Consumers)
    BY <1>1, <1>2 DEF Claiming, Uncounted, Typed, Threads
  <2>2. Cardinality(Claiming)' = Cardinality(Claiming) + 1 /\ Cardinality(Claiming) \in Nat
    BY <1>1, <2>1, Counts
  <2> QED
    BY <1>1, <1>2, <2>1, <2>2 DEF Counted, Typed, Queue
<1> QED
  BY <1>1, <1>3, <1>4, <1>5, QuietStep

\* A producer that saw its position in the sequence may claim it.
LEMMA PushLooks ==
  ASSUME Queue, Inv, NEW t \in Producers, push_look(t)
  PROVE  Inv'
<1> DEFINE q == thread[t].pos
<1>1. Typed /\ Counted /\ Producer(t) /\ t \in Threads /\ t \notin Consumers
  BY DEF Inv, Threads, Queue
<1>2. /\ thread[t].at = "look"
      /\ UNCHANGED <<cell, enqueue_pos, dequeue_pos, size, pushed, popped>>
      /\ \/ SeqAt(q) = q /\ thread' = [thread EXCEPT ![t] = [at |-> "claim", pos |-> q]]
         \/ thread' = [thread EXCEPT ![t] = Idle]
         \/ thread' = [thread EXCEPT ![t] = [at |-> "look", pos |-> enqueue_pos]]
  <2> DEFINE diff == cell[Cell(q)].sequence - q
  <2>1. cell[Cell(q)].sequence \in Nat /\ q \in Nat
    BY <1>1, CellFacts DEF Typed
  <2>2. /\ thread[t].at = "look"
        /\ UNCHANGED <<cell, enqueue_pos, dequeue_pos, size, pushed, popped>>
        /\ thread' = [thread EXCEPT ![t] =
             IF diff \in {0} THEN [thread[t] EXCEPT !.at = "claim"]
             ELSE IF diff < 0 THEN Idle
             ELSE [thread[t] EXCEPT !.pos = enqueue_pos]]
    BY DEF push_look, PushLook, At
  <2>3. /\ [thread[t] EXCEPT !.at = "claim"] = [at |-> "claim", pos |-> q]
        /\ [thread[t] EXCEPT !.pos = enqueue_pos] = [at |-> "look", pos |-> enqueue_pos]
    BY <1>1, <2>2 DEF Typed
  <2>4. diff = 0 => SeqAt(q) = q
    BY <2>1 DEF SeqAt
  <2> HIDE DEF diff, q
  <2> QED
    BY <2>2, <2>3, <2>4
<1>3. Quiet(t)
  <2>1. PICK x \in [at : {"claim", "idle", "look"}, pos : Nat] : thread' = [thread EXCEPT ![t] = x]
    <3>1. q \in Nat /\ enqueue_pos \in Nat /\ dequeue_pos \in Nat
      BY <1>1 DEF Typed
    <3> HIDE DEF q
    <3> QED
      BY <1>2, <3>1 DEF Idle
  <2> QED
    BY <1>1, <1>2, <2>1 DEF Quiet, Typed, Writing, Reading, Places
<1>4. Producer(t)'
  BY <1>1, <1>2 DEF Producer, Writing, Typed, SeqAt, DataAt, Idle
<1>5. Counted'
  <2>1. /\ Claiming' = Claiming \/ Claiming' = Claiming \ {t}
        /\ t \in Claiming
        /\ Uncounted(Producers)' = Uncounted(Producers)
        /\ Uncounted(Consumers)' = Uncounted(Consumers)
    <3>1. \A u \in Threads \ {t} : thread'[u] = thread[u]
      BY <1>3 DEF Quiet
    <3>2. thread'[t].at \in {"claim", "idle", "look"}
      BY <1>1, <1>2 DEF Typed, Idle
    <3> QED
      BY <1>1, <1>2, <3>1, <3>2 DEF Claiming, Uncounted, Threads
  <2>2. /\ Cardinality(Claiming) \in Nat
        /\ Cardinality(Claiming \ {t}) = Cardinality(Claiming) - 1 /\ Cardinality(Claiming) >= 1
    BY <1>1, <2>1, Counts
  <2>3. \/ Cardinality(Claiming)' = Cardinality(Claiming)
        \/ Cardinality(Claiming)' = Cardinality(Claiming \ {t})
    BY <2>1
  <2> QED
    BY <1>1, <1>2, <2>1, <2>2, <2>3 DEF Counted, Typed, Queue
<1> QED
  BY <1>1, <1>3, <1>4, <1>5, QuietStep

\* A compare-and-swap that fails starts over.
LEMMA PushLoses ==
  ASSUME Queue, Inv, NEW t \in Producers, push_claim(t), enqueue_pos # thread[t].pos
  PROVE  Inv'
<1>1. Typed /\ Counted /\ t \in Threads /\ t \notin Consumers
  BY DEF Inv, Threads, Queue
<1>2. /\ thread[t].at = "claim"
      /\ UNCHANGED <<cell, enqueue_pos, dequeue_pos, size, pushed, popped>>
      /\ thread' = [thread EXCEPT ![t].at = "look", ![t].pos = enqueue_pos]
  BY DEF push_claim, At
<1>3. Quiet(t)
  BY <1>1, <1>2 DEF Quiet, Typed, Writing, Reading, Places
<1>4. Producer(t)'
  BY <1>1, <1>2 DEF Producer, Writing, Typed
<1>5. Counted'
  <2>1. /\ Claiming' = Claiming
        /\ Uncounted(Producers)' = Uncounted(Producers)
        /\ Uncounted(Consumers)' = Uncounted(Consumers)
    BY <1>1, <1>2 DEF Claiming, Uncounted, Typed, Threads
  <2> QED
    BY <1>1, <1>2, <2>1 DEF Counted
<1> QED
  BY <1>1, <1>3, <1>4, <1>5, QuietStep

\* The push is counted.
LEMMA PushCounts ==
  ASSUME Queue, Inv, NEW t \in Producers, push_count(t)
  PROVE  Inv'
<1>1. Typed /\ Counted /\ t \in Threads /\ t \notin Consumers
  BY DEF Inv, Threads, Queue
<1>2. /\ thread[t].at = "count" /\ size' = size + 1
      /\ UNCHANGED <<cell, enqueue_pos, dequeue_pos, pushed, popped>>
      /\ thread' = [thread EXCEPT ![t] = Idle]
  BY DEF push_count, At
<1>3. Quiet(t)
  BY <1>1, <1>2 DEF Quiet, Typed, Writing, Reading, Places, Idle
<1>4. Producer(t)'
  BY <1>1, <1>2 DEF Producer, Writing, Typed, Idle
<1>5. Counted'
  <2>1. /\ Claiming' = Claiming
        /\ Uncounted(Producers)' = Uncounted(Producers) \ {t} /\ t \in Uncounted(Producers)
        /\ Uncounted(Consumers)' = Uncounted(Consumers)
    BY <1>1, <1>2 DEF Claiming, Uncounted, Typed, Threads, Idle
  <2>2. /\ Cardinality(Uncounted(Producers))' = Cardinality(Uncounted(Producers)) - 1
        /\ Cardinality(Uncounted(Producers)) \in Nat
        /\ Cardinality(Uncounted(Consumers)) \in Nat
    BY <1>1, <2>1, Counts
  <2> QED
    BY <1>1, <1>2, <2>1, <2>2 DEF Counted, Typed
<1> QED
  BY <1>1, <1>3, <1>4, <1>5, QuietStep

\* pop_begin() loads the position to try.
LEMMA PopBegin ==
  ASSUME Queue, Inv, NEW t \in Consumers, pop_begin(t)
  PROVE  Inv'
<1>1. Typed /\ Counted /\ t \in Threads /\ t \notin Producers
  BY DEF Inv, Threads, Queue
<1>2. /\ thread[t].at = "idle"
      /\ thread' = [thread EXCEPT ![t] = [at |-> "look", pos |-> dequeue_pos]]
      /\ UNCHANGED <<cell, enqueue_pos, dequeue_pos, size, pushed, popped>>
  BY DEF pop_begin, At
<1>3. Quiet(t)
  BY <1>1, <1>2 DEF Quiet, Typed, Writing, Reading, Places
<1>4. Consumer(t)'
  BY <1>1, <1>2 DEF Consumer, Reading, Typed
<1>5. Counted'
  <2>1. /\ Claiming' = Claiming
        /\ Uncounted(Producers)' = Uncounted(Producers)
        /\ Uncounted(Consumers)' = Uncounted(Consumers)
    BY <1>1, <1>2 DEF Claiming, Uncounted, Typed, Threads
  <2> QED
    BY <1>1, <1>2, <2>1 DEF Counted
<1> QED
  BY <1>1, <1>3, <1>4, <1>5, QuietStep

\* A consumer that saw its cell written may claim it.
LEMMA PopLooks ==
  ASSUME Queue, Inv, NEW t \in Consumers, pop_look(t)
  PROVE  Inv'
<1> DEFINE q == thread[t].pos
<1>1. Typed /\ Counted /\ Consumer(t) /\ t \in Threads /\ t \notin Producers
  BY DEF Inv, Threads, Queue
<1>2. /\ thread[t].at = "look"
      /\ UNCHANGED <<cell, enqueue_pos, dequeue_pos, size, pushed, popped>>
      /\ \/ SeqAt(q) = q + 1 /\ thread' = [thread EXCEPT ![t] = [at |-> "claim", pos |-> q]]
         \/ thread' = [thread EXCEPT ![t] = Idle]
         \/ thread' = [thread EXCEPT ![t] = [at |-> "look", pos |-> dequeue_pos]]
  <2> DEFINE diff == cell[Cell(q)].sequence - (q + 1)
  <2>1. cell[Cell(q)].sequence \in Nat /\ q \in Nat
    BY <1>1, CellFacts DEF Typed
  <2>2. /\ thread[t].at = "look"
        /\ UNCHANGED <<cell, enqueue_pos, dequeue_pos, size, pushed, popped>>
        /\ thread' = [thread EXCEPT ![t] =
             IF diff = 0 THEN [thread[t] EXCEPT !.at = "claim"]
             ELSE IF diff < 0 THEN Idle
             ELSE [thread[t] EXCEPT !.pos = dequeue_pos]]
    BY DEF pop_look, At
  <2>3. /\ [thread[t] EXCEPT !.at = "claim"] = [at |-> "claim", pos |-> q]
        /\ [thread[t] EXCEPT !.pos = dequeue_pos] = [at |-> "look", pos |-> dequeue_pos]
    BY <1>1, <2>2 DEF Typed
  <2>4. diff = 0 => SeqAt(q) = q + 1
    BY <2>1 DEF SeqAt
  <2> HIDE DEF diff, q
  <2> QED
    BY <2>2, <2>3, <2>4
<1>3. Quiet(t)
  <2>1. PICK x \in [at : {"claim", "idle", "look"}, pos : Nat] : thread' = [thread EXCEPT ![t] = x]
    <3>1. q \in Nat /\ enqueue_pos \in Nat /\ dequeue_pos \in Nat
      BY <1>1 DEF Typed
    <3> HIDE DEF q
    <3> QED
      BY <1>2, <3>1 DEF Idle
  <2> QED
    BY <1>1, <1>2, <2>1 DEF Quiet, Typed, Writing, Reading, Places
<1>4. Consumer(t)'
  BY <1>1, <1>2 DEF Consumer, Reading, Typed, SeqAt, DataAt, Idle
<1>5. Counted'
  <2>1. /\ Claiming' = Claiming
        /\ Uncounted(Producers)' = Uncounted(Producers)
        /\ Uncounted(Consumers)' = Uncounted(Consumers)
    <3>1. \A u \in Threads \ {t} : thread'[u] = thread[u]
      BY <1>3 DEF Quiet
    <3>2. thread'[t].at \in {"claim", "idle", "look"}
      BY <1>1, <1>2 DEF Typed, Idle
    <3> QED
      BY <1>1, <1>2, <3>1, <3>2 DEF Claiming, Uncounted, Threads
  <2> QED
    BY <1>1, <1>2, <2>1 DEF Counted
<1> QED
  BY <1>1, <1>3, <1>4, <1>5, QuietStep

\* A compare-and-swap that fails starts over.
LEMMA PopLoses ==
  ASSUME Queue, Inv, NEW t \in Consumers, pop_claim(t), dequeue_pos # thread[t].pos
  PROVE  Inv'
<1>1. Typed /\ Counted /\ t \in Threads /\ t \notin Producers
  BY DEF Inv, Threads, Queue
<1>2. /\ thread[t].at = "claim"
      /\ UNCHANGED <<cell, enqueue_pos, dequeue_pos, size, pushed, popped>>
      /\ thread' = [thread EXCEPT ![t].at = "look", ![t].pos = dequeue_pos]
  BY DEF pop_claim, At
<1>3. Quiet(t)
  BY <1>1, <1>2 DEF Quiet, Typed, Writing, Reading, Places
<1>4. Consumer(t)'
  BY <1>1, <1>2 DEF Consumer, Reading, Typed
<1>5. Counted'
  <2>1. /\ Claiming' = Claiming
        /\ Uncounted(Producers)' = Uncounted(Producers)
        /\ Uncounted(Consumers)' = Uncounted(Consumers)
    BY <1>1, <1>2 DEF Claiming, Uncounted, Typed, Threads
  <2> QED
    BY <1>1, <1>2, <2>1 DEF Counted
<1> QED
  BY <1>1, <1>3, <1>4, <1>5, QuietStep

\* The pop is counted.
LEMMA PopCounts ==
  ASSUME Queue, Inv, NEW t \in Consumers, pop_count(t)
  PROVE  Inv'
<1>1. Typed /\ Counted /\ t \in Threads /\ t \notin Producers
  BY DEF Inv, Threads, Queue
<1>2. /\ thread[t].at = "count" /\ size' = size - 1
      /\ UNCHANGED <<cell, enqueue_pos, dequeue_pos, pushed, popped>>
      /\ thread' = [thread EXCEPT ![t] = Idle]
  BY DEF pop_count, At
<1>3. Quiet(t)
  BY <1>1, <1>2 DEF Quiet, Typed, Writing, Reading, Places, Idle
<1>4. Consumer(t)'
  BY <1>1, <1>2 DEF Consumer, Reading, Typed, Idle
<1>5. Counted'
  <2>1. /\ Claiming' = Claiming
        /\ Uncounted(Producers)' = Uncounted(Producers)
        /\ Uncounted(Consumers)' = Uncounted(Consumers) \ {t} /\ t \in Uncounted(Consumers)
    BY <1>1, <1>2 DEF Claiming, Uncounted, Typed, Threads, Idle
  <2>2. /\ Cardinality(Uncounted(Consumers))' = Cardinality(Uncounted(Consumers)) - 1
        /\ Cardinality(Uncounted(Producers)) \in Nat
        /\ Cardinality(Uncounted(Consumers)) \in Nat
    BY <1>1, <2>1, Counts
  <2> QED
    BY <1>1, <1>2, <2>1, <2>2 DEF Counted, Typed
<1> QED
  BY <1>1, <1>3, <1>4, <1>5, QuietStep

-----------------------------------------------------------------------------
(* Steps of a thread that claims or holds a cell.                          *)

\* A position is claimed only if the lap before it is over.
LEMMA PushWins ==
  ASSUME Queue, Inv, NEW t \in Producers, push_claim(t), enqueue_pos = thread[t].pos
  PROVE  Inv'
<1>1. /\ Typed /\ Window /\ Alone /\ Taken /\ Counted /\ t \in Threads /\ t \notin Consumers
      /\ \A u \in Producers : Producer(u)
      /\ \A u \in Consumers : Consumer(u)
  BY DEF Inv, Threads, Queue
<1>2. /\ thread[t].at = "claim" /\ enqueue_pos' = enqueue_pos + 1
      /\ thread' = [thread EXCEPT ![t].at = "write"]
      /\ UNCHANGED <<cell, dequeue_pos, size, pushed, popped>>
  BY DEF push_claim, At, Go
<1>3. /\ Capacity \in Nat /\ Capacity >= 2 /\ enqueue_pos \in Nat /\ dequeue_pos \in Nat
      /\ SeqAt(enqueue_pos) = enqueue_pos
  BY <1>1, <1>2 DEF Queue, Typed, Producer
<1>4. \A u \in Producers : thread[u].pos \in Nat
  BY <1>1 DEF Typed, Threads
<1>5. \A u \in Consumers : thread[u].pos \in Nat
  BY <1>1 DEF Typed, Threads
<1>6. ASSUME NEW p \in Nat, SeqAt(p) = p \/ SeqAt(p) = p + 1 PROVE enqueue_pos # p + Capacity
  BY <1>3, <1>6, CellFacts DEF SeqAt
<1>7. enqueue_pos < dequeue_pos + Capacity
  <2>1. CASE enqueue_pos = dequeue_pos + Capacity
    <3>1. dequeue_pos \in dequeue_pos .. dequeue_pos + Capacity - 1 /\ dequeue_pos < enqueue_pos
      BY <1>3, <2>1
    <3>2. SeqAt(dequeue_pos) \in {dequeue_pos, dequeue_pos + 1}
      BY <1>1, <3>1 DEF Window
    <3> QED
      BY <1>3, <1>6, <2>1, <3>2
  <2> QED
    BY <1>1, <1>3, <2>1 DEF Window
<1>8. Typed'
  BY <1>1, <1>2, <1>3 DEF Typed, Places
<1>9. Window'
  BY <1>1, <1>2, <1>3, <1>7 DEF Window, SeqAt, DataAt
<1>10. \A u \in Producers : Producer(u)'
  BY <1>1, <1>2, <1>3, <1>4 DEF Producer, Writing, SeqAt, DataAt, Typed, Threads, Window
<1>11. \A u \in Consumers : Consumer(u)'
  <2> SUFFICES ASSUME NEW u \in Consumers PROVE Consumer(u)'
    OBVIOUS
  <2>1. thread'[u] = thread[u] /\ Consumer(u)
    BY <1>1, <1>2 DEF Typed, Threads
  <2>2. Reading(u) => enqueue_pos + 1 <= thread[u].pos + Capacity
    BY <1>3, <1>5, <1>6, <2>1 DEF Consumer
  <2> QED
    BY <1>2, <1>3, <2>1, <2>2 DEF Consumer, Reading, SeqAt, DataAt
<1>12. Alone'
  BY <1>1, <1>2, <1>3, <1>4 DEF Alone, Writing, Reading, Producer, Typed, Threads
<1>13. Taken'
  BY <1>1, <1>2 DEF Taken, Typed, Threads
<1>14. Counted'
  <2>1. /\ Claiming' = Claiming \ {t} /\ t \in Claiming
        /\ Uncounted(Producers)' = Uncounted(Producers) \cup {t} /\ t \notin Uncounted(Producers)
        /\ Uncounted(Consumers)' = Uncounted(Consumers)
    BY <1>1, <1>2 DEF Claiming, Uncounted, Typed, Threads
  <2>2. /\ Cardinality(Uncounted(Producers))' = Cardinality(Uncounted(Producers)) + 1
        /\ Cardinality(Claiming)' = Cardinality(Claiming) - 1
        /\ Cardinality(Uncounted(Producers)) \in Nat /\ Cardinality(Claiming) \in Nat
        /\ Cardinality(Uncounted(Consumers)) \in Nat
        /\ Cardinality(Uncounted(Consumers))' = Cardinality(Uncounted(Consumers))
    BY <1>1, <2>1, Counts
  <2>3. /\ enqueue_pos + Cardinality(Claiming) <= MaxPushes /\ MaxPushes \in Nat
        /\ size = (enqueue_pos - Cardinality(Uncounted(Producers)))
                    - (dequeue_pos - Cardinality(Uncounted(Consumers)))
    BY <1>1 DEF Counted, Queue
  <2>4. enqueue_pos' + Cardinality(Claiming)' <= MaxPushes
    BY <1>2, <1>3, <2>2, <2>3
  <2>5. size' = (enqueue_pos' - Cardinality(Uncounted(Producers))')
                  - (dequeue_pos' - Cardinality(Uncounted(Consumers))')
    BY <1>2, <1>3, <2>2, <2>3
  <2> QED
    BY <2>4, <2>5 DEF Counted
<1> QED
  BY <1>8, <1>9, <1>10, <1>11, <1>12, <1>13, <1>14 DEF Inv

\* Who holds a cell is told by its sequence.
LEMMA Holds ==
  ASSUME Queue, Inv, NEW t \in Producers, Writing(t), NEW q, q = thread[t].pos
  PROVE  /\ q \in Nat /\ dequeue_pos <= q /\ q < enqueue_pos /\ q < MaxPushes /\ SeqAt(q) = q
         /\ \A p \in Nat : SeqAt(p) = p /\ p # q => Cell(p) # Cell(q)
         /\ \A p \in Nat : SeqAt(p) = p + 1 => Cell(p) # Cell(q)
<1>1. Typed /\ Counted /\ Producer(t) /\ t \in Threads
  BY DEF Inv, Threads
<1>2. /\ q \in Nat /\ enqueue_pos \in Nat /\ dequeue_pos \in Nat /\ MaxPushes \in Nat
      /\ Capacity \in Nat /\ Capacity >= 2
  BY <1>1 DEF Typed, Queue
<1>3. dequeue_pos <= q /\ q < enqueue_pos /\ SeqAt(q) = q
  BY <1>1 DEF Producer
<1>4. Cardinality(Claiming) \in Nat
  BY <1>1, Counts
<1>5. q < MaxPushes
  BY <1>1, <1>2, <1>3, <1>4 DEF Counted
<1>6. ASSUME NEW p \in Nat, SeqAt(p) = p + 1 PROVE Cell(p) # Cell(q)
  BY <1>2, <1>3, <1>6, CellFacts DEF SeqAt
<1>7. ASSUME NEW p \in Nat, SeqAt(p) = p, p # q PROVE Cell(p) # Cell(q)
  BY <1>2, <1>3, <1>7 DEF SeqAt
<1> QED
  BY <1>2, <1>3, <1>5, <1>6, <1>7

\* The item is written to a cell nobody else looks into.
LEMMA PushWrites ==
  ASSUME Queue, Inv, NEW t \in Producers, push_write(t)
  PROVE  Inv'
<1> DEFINE q == thread[t].pos
<1>1. /\ Typed /\ Window /\ Alone /\ Taken /\ Counted /\ t \in Threads /\ t \notin Consumers
      /\ \A u \in Producers : Producer(u)
      /\ \A u \in Consumers : Consumer(u)
  BY DEF Inv, Threads, Queue
<1>2. /\ thread[t].at = "write" /\ thread' = [thread EXCEPT ![t].at = "publish"]
      /\ cell' = [cell EXCEPT ![Cell(q)].data = t] /\ pushed' = [pushed EXCEPT ![q] = t]
      /\ UNCHANGED <<enqueue_pos, dequeue_pos, size, popped>>
  BY DEF push_write, At, Go
<1>3. /\ q \in Nat /\ dequeue_pos <= q /\ q < enqueue_pos /\ q < MaxPushes /\ SeqAt(q) = q
      /\ \A p \in Nat : SeqAt(p) = p /\ p # q => Cell(p) # Cell(q)
      /\ \A p \in Nat : SeqAt(p) = p + 1 => Cell(p) # Cell(q)
  BY <1>2, Holds DEF Writing
<1>4. /\ Capacity \in Nat /\ Capacity >= 2 /\ enqueue_pos \in Nat /\ dequeue_pos \in Nat
      /\ MaxPushes \in Nat /\ t # Empty /\ \A p \in Nat : Cell(p) \in Cells
  BY <1>1, CellFacts DEF Queue, Typed
<1>5. \A u \in Threads : thread[u].pos \in Nat
  BY <1>1 DEF Typed
<1>6. thread'[t] = [at |-> "publish", pos |-> q] /\ \A u \in Threads \ {t} : thread'[u] = thread[u]
  BY <1>1, <1>2 DEF Typed
<1>7. Typed'
  BY <1>1, <1>2, <1>3, <1>4 DEF Typed, Places
<1>8. /\ pushed'[q] = t /\ \A p \in 0 .. MaxPushes - 1 : p # q => pushed'[p] = pushed[p]
      /\ cell'[Cell(q)].data = t
      /\ \A p \in Nat : cell'[Cell(p)].sequence = cell[Cell(p)].sequence
      /\ \A p \in Nat : Cell(p) # Cell(q) => cell'[Cell(p)].data = cell[Cell(p)].data
  <2>1. pushed'[q] = t /\ \A p \in 0 .. MaxPushes - 1 : p # q => pushed'[p] = pushed[p]
    BY <1>1, <1>2, <1>3, <1>4 DEF Typed
  <2>2. cell'[Cell(q)].data = t /\ cell'[Cell(q)].sequence = cell[Cell(q)].sequence
    BY <1>1, <1>2, <1>3, <1>4 DEF Typed
  <2>3. \A i \in Cells : i # Cell(q) => cell'[i] = cell[i]
    BY <1>1, <1>2, <1>3, <1>4 DEF Typed
  <2> QED
    BY <1>4, <2>1, <2>2, <2>3
<1> HIDE DEF q
<1>9. enqueue_pos <= MaxPushes
  <2>1. Cardinality(Claiming) \in Nat
    BY <1>1, Counts
  <2> QED
    BY <1>1, <1>4, <2>1 DEF Counted
<1>10. Window'
  BY <1>1, <1>2, <1>3, <1>4, <1>8, <1>9 DEF Window, SeqAt, DataAt
<1>11. \A u \in Producers : Producer(u)'
  <2> SUFFICES ASSUME NEW u \in Producers PROVE Producer(u)'
    OBVIOUS
  <2>1. CASE u = t
    BY <1>2, <1>3, <1>4, <1>6, <1>8, <2>1 DEF Producer, Writing, SeqAt, DataAt
  <2>2. CASE u # t
    <3>1. thread'[u] = thread[u] /\ Producer(u) /\ thread[u].pos \in Nat
      BY <1>1, <1>5, <1>6, <2>2 DEF Threads
    <3>2. thread[u].at = "publish" => thread[u].pos # q
      BY <1>1, <1>2, <2>2 DEF Alone, Writing, q
    <3>3. thread[u].at = "publish" =>
            thread[u].pos \in 0 .. MaxPushes - 1 /\ Cell(thread[u].pos) # Cell(q)
      BY <1>3, <1>4, <1>9, <3>1, <3>2 DEF Producer, Writing
    <3>4. /\ thread[u].at = "publish" => DataAt(thread[u].pos)' = u /\ pushed'[thread[u].pos] = u
          /\ SeqAt(thread[u].pos)' = SeqAt(thread[u].pos)
      BY <1>6, <1>8, <2>2, <3>1, <3>2, <3>3 DEF Producer, SeqAt, DataAt
    <3> QED
      BY <1>2, <3>1, <3>4 DEF Producer, Writing
  <2> QED
    BY <2>1, <2>2
<1>12. \A u \in Consumers : Consumer(u)'
  <2> SUFFICES ASSUME NEW u \in Consumers PROVE Consumer(u)'
    OBVIOUS
  <2>1. thread'[u] = thread[u] /\ Consumer(u) /\ thread[u].pos \in Nat
    BY <1>1, <1>5, <1>6 DEF Threads
  <2>2. SeqAt(thread[u].pos)' = SeqAt(thread[u].pos)
    BY <1>8, <2>1 DEF SeqAt
  <2>3. thread[u].at = "read" =>
          /\ thread[u].pos \in 0 .. MaxPushes - 1 /\ thread[u].pos < dequeue_pos
          /\ SeqAt(thread[u].pos) = thread[u].pos + 1
    BY <1>3, <1>4, <1>9, <2>1 DEF Consumer, Reading
  <2>4. thread[u].at = "read" =>
          thread[u].pos # q /\ Cell(thread[u].pos) # Cell(q)
    BY <1>3, <1>4, <2>1, <2>3
  <2>5. thread[u].at = "read" =>
          /\ DataAt(thread[u].pos)' = DataAt(thread[u].pos)
          /\ pushed'[thread[u].pos] = pushed[thread[u].pos]
    BY <1>8, <2>1, <2>3, <2>4 DEF DataAt
  <2> QED
    BY <1>2, <2>1, <2>2, <2>5 DEF Consumer, Reading
<1>13. Alone'
  BY <1>1, <1>2, <1>6 DEF Alone, Writing, Reading, Threads, q
<1>14. Taken'
  BY <1>1, <1>2, <1>3, <1>4, <1>6, <1>8, <1>9 DEF Taken, Threads, Window
<1>15. Counted'
  <2>1. /\ Claiming' = Claiming /\ Uncounted(Producers)' = Uncounted(Producers)
        /\ Uncounted(Consumers)' = Uncounted(Consumers)
    BY <1>1, <1>2, <1>6 DEF Claiming, Uncounted, Threads
  <2> QED
    BY <1>1, <1>2, <2>1 DEF Counted
<1> QED
  BY <1>7, <1>10, <1>11, <1>12, <1>13, <1>14, <1>15 DEF Inv

\* The sequence hands the cell to the consumers.
LEMMA PushPublishes ==
  ASSUME Queue, Inv, NEW t \in Producers, push_publish(t)
  PROVE  Inv'
<1> DEFINE q == thread[t].pos
<1>1. /\ Typed /\ Window /\ Alone /\ Taken /\ Counted /\ t \in Threads /\ t \notin Consumers
      /\ \A u \in Producers : Producer(u)
      /\ \A u \in Consumers : Consumer(u)
  BY DEF Inv, Threads, Queue
<1>2. /\ thread[t].at = "publish" /\ thread' = [thread EXCEPT ![t].at = "count"]
      /\ cell' = [cell EXCEPT ![Cell(q)].sequence = q + 1]
      /\ UNCHANGED <<enqueue_pos, dequeue_pos, size, pushed, popped>>
  BY DEF push_publish, At, Go
<1>3. /\ q \in Nat /\ dequeue_pos <= q /\ q < enqueue_pos /\ q < MaxPushes /\ SeqAt(q) = q
      /\ \A p \in Nat : SeqAt(p) = p /\ p # q => Cell(p) # Cell(q)
      /\ \A p \in Nat : SeqAt(p) = p + 1 => Cell(p) # Cell(q)
  BY <1>2, Holds DEF Writing
<1>4. /\ Capacity \in Nat /\ Capacity >= 2 /\ enqueue_pos \in Nat /\ dequeue_pos \in Nat
      /\ t # Empty /\ \A p \in Nat : Cell(p) \in Cells
      /\ DataAt(q) = t /\ pushed[q] = t
  <2>1. DataAt(q) = t /\ pushed[q] = t
    BY <1>1, <1>2 DEF Producer
  <2> QED
    BY <1>1, <2>1, CellFacts DEF Queue, Typed
<1>5. \A u \in Threads : thread[u].pos \in Nat
  BY <1>1 DEF Typed
<1>6. thread'[t] = [at |-> "count", pos |-> q] /\ \A u \in Threads \ {t} : thread'[u] = thread[u]
  BY <1>1, <1>2 DEF Typed
<1>7. Typed'
  <2>1. q + 1 \in Nat /\ Cell(q) \in Cells
    BY <1>3, <1>4
  <2>2. cell' \in [Cells -> [sequence : Nat, data : Producers \cup {Empty}]]
    BY <1>1, <1>2, <2>1 DEF Typed
  <2>3. thread' \in [Threads -> [at : Places, pos : Nat]]
    BY <1>1, <1>2 DEF Typed, Places
  <2> QED
    BY <1>1, <1>2, <2>2, <2>3 DEF Typed
<1>8. /\ cell'[Cell(q)].sequence = q + 1 /\ cell'[Cell(q)].data = t
      /\ \A p \in Nat : Cell(p) # Cell(q) => cell'[Cell(p)] = cell[Cell(p)]
  <2>1. cell'[Cell(q)].sequence = q + 1 /\ cell'[Cell(q)].data = cell[Cell(q)].data
    BY <1>1, <1>2, <1>3, <1>4 DEF Typed
  <2>2. \A i \in Cells : i # Cell(q) => cell'[i] = cell[i]
    BY <1>1, <1>2, <1>3, <1>4 DEF Typed
  <2> QED
    BY <1>4, <2>1, <2>2 DEF DataAt
<1> HIDE DEF q
<1>9. Window'
  <2> SUFFICES ASSUME NEW p \in dequeue_pos .. dequeue_pos + Capacity - 1
               PROVE  IF p < enqueue_pos
                      THEN /\ cell'[Cell(p)].sequence \in {p, p + 1}
                           /\ cell'[Cell(p)].sequence = p + 1 =>
                                cell'[Cell(p)].data = pushed[p] /\ pushed[p] # Empty
                      ELSE cell'[Cell(p)].sequence \in {p, p + 1 - Capacity}
    BY <1>1, <1>2 DEF Window, SeqAt, DataAt
  <2>1. CASE p = q
    BY <1>3, <1>4, <1>8, <2>1
  <2>2. CASE p # q
    <3>1. p \in Nat /\ Cell(p) # Cell(q)
      <4>1. p \in Nat /\ q < dequeue_pos + Capacity
        BY <1>1, <1>3, <1>4 DEF Window
      <4> QED
        BY <1>3, <1>4, <2>2, <4>1, CellFacts
    <3> QED
      BY <1>1, <1>8, <3>1 DEF Window, SeqAt, DataAt
  <2> QED
    BY <2>1, <2>2
<1>10. \A u \in Producers : Producer(u)'
  <2> SUFFICES ASSUME NEW u \in Producers PROVE Producer(u)'
    OBVIOUS
  <2>1. CASE u = t
    BY <1>6, <2>1 DEF Producer, Writing
  <2>2. CASE u # t
    <3>1. thread'[u] = thread[u] /\ Producer(u) /\ thread[u].pos \in Nat
      BY <1>1, <1>5, <1>6, <2>2 DEF Threads
    <3>2. Writing(u) => thread[u].pos # q
      BY <1>1, <1>2, <2>2 DEF Alone, Writing, q
    <3>3. SeqAt(thread[u].pos) = thread[u].pos /\ thread[u].pos # q =>
            SeqAt(thread[u].pos)' = SeqAt(thread[u].pos) /\ DataAt(thread[u].pos)' = DataAt(thread[u].pos)
      BY <1>3, <1>8, <3>1 DEF SeqAt, DataAt
    <3> QED
      BY <1>2, <1>3, <1>4, <3>1, <3>2, <3>3 DEF Producer, Writing
  <2> QED
    BY <2>1, <2>2
<1>11. \A u \in Consumers : Consumer(u)'
  <2> SUFFICES ASSUME NEW u \in Consumers PROVE Consumer(u)'
    OBVIOUS
  <2>1. thread'[u] = thread[u] /\ Consumer(u) /\ thread[u].pos \in Nat
    BY <1>1, <1>5, <1>6 DEF Threads
  <2>2. SeqAt(thread[u].pos) = thread[u].pos + 1 =>
          SeqAt(thread[u].pos)' = SeqAt(thread[u].pos) /\ DataAt(thread[u].pos)' = DataAt(thread[u].pos)
    BY <1>3, <1>8, <2>1 DEF SeqAt, DataAt
  <2> QED
    BY <1>2, <2>1, <2>2 DEF Consumer, Reading
<1>12. Alone'
  BY <1>1, <1>2, <1>6 DEF Alone, Writing, Reading, Threads
<1>13. Taken'
  BY <1>1, <1>2, <1>6 DEF Taken, Threads
<1>14. Counted'
  <2>1. /\ Claiming' = Claiming /\ Uncounted(Producers)' = Uncounted(Producers)
        /\ Uncounted(Consumers)' = Uncounted(Consumers)
    BY <1>1, <1>2, <1>6 DEF Claiming, Uncounted, Threads
  <2> QED
    BY <1>1, <1>2, <2>1 DEF Counted
<1> QED
  BY <1>7, <1>9, <1>10, <1>11, <1>12, <1>13, <1>14 DEF Inv

\* A position is claimed only if its item is written.
LEMMA PopWins ==
  ASSUME Queue, Inv, NEW t \in Consumers, pop_claim(t), dequeue_pos = thread[t].pos
  PROVE  Inv'
<1>1. /\ Typed /\ Window /\ Alone /\ Taken /\ Counted /\ t \in Threads /\ t \notin Producers
      /\ \A u \in Producers : Producer(u)
      /\ \A u \in Consumers : Consumer(u)
  BY DEF Inv, Threads, Queue
<1>2. /\ thread[t].at = "claim" /\ dequeue_pos' = dequeue_pos + 1
      /\ thread' = [thread EXCEPT ![t].at = "read"]
      /\ UNCHANGED <<cell, enqueue_pos, size, pushed, popped>>
  BY DEF pop_claim, At, Go
<1>3. /\ Capacity \in Nat /\ Capacity >= 2 /\ enqueue_pos \in Nat /\ dequeue_pos \in Nat
      /\ SeqAt(dequeue_pos) = dequeue_pos + 1
  BY <1>1, <1>2 DEF Queue, Typed, Consumer
<1>4. \A u \in Threads : thread[u].pos \in Nat
  BY <1>1 DEF Typed
<1>5. /\ dequeue_pos < enqueue_pos /\ DataAt(dequeue_pos) = pushed[dequeue_pos]
      /\ pushed[dequeue_pos] # Empty
  BY <1>1, <1>3 DEF Window
<1>6. thread'[t] = [at |-> "read", pos |-> dequeue_pos]
      /\ \A u \in Threads \ {t} : thread'[u] = thread[u]
  BY <1>1, <1>2 DEF Typed
<1>7. Typed'
  BY <1>1, <1>2, <1>3 DEF Typed, Places
<1>8. Window'
  <2>1. dequeue_pos + 1 <= enqueue_pos /\ enqueue_pos <= dequeue_pos + 1 + Capacity
    BY <1>1, <1>3, <1>5 DEF Window
  <2>2. SeqAt(dequeue_pos + Capacity) = dequeue_pos + 1
    BY <1>3, CellFacts DEF SeqAt
  <2> SUFFICES ASSUME NEW p \in dequeue_pos + 1 .. dequeue_pos + Capacity
               PROVE  IF p < enqueue_pos
                      THEN /\ SeqAt(p) \in {p, p + 1}
                           /\ SeqAt(p) = p + 1 => DataAt(p) = pushed[p] /\ pushed[p] # Empty
                      ELSE SeqAt(p) \in {p, p + 1 - Capacity}
    BY <1>2, <1>3, <2>1 DEF Window, SeqAt, DataAt
  <2>3. CASE p = dequeue_pos + Capacity
    BY <1>1, <1>3, <2>2, <2>3 DEF Window
  <2>4. CASE p # dequeue_pos + Capacity
    <3>1. p \in dequeue_pos .. dequeue_pos + Capacity - 1
      BY <1>3, <2>4
    <3> QED
      BY <1>1, <3>1 DEF Window
  <2> QED
    BY <2>3, <2>4
<1>9. \A u \in Producers : Producer(u)'
  <2> SUFFICES ASSUME NEW u \in Producers PROVE Producer(u)'
    OBVIOUS
  <2>1. thread'[u] = thread[u] /\ Producer(u) /\ thread[u].pos \in Nat
    BY <1>1, <1>4, <1>6 DEF Threads
  <2>2. Writing(u) => dequeue_pos + 1 <= thread[u].pos
    BY <1>3, <2>1 DEF Producer
  <2> QED
    BY <1>2, <2>1, <2>2 DEF Producer, Writing, SeqAt, DataAt
<1>10. \A u \in Consumers : Consumer(u)'
  <2> SUFFICES ASSUME NEW u \in Consumers PROVE Consumer(u)'
    OBVIOUS
  <2>1. CASE u = t
    BY <1>1, <1>2, <1>3, <1>5, <1>6, <2>1 DEF Consumer, Reading, SeqAt, DataAt, Window
  <2>2. CASE u # t
    <3>1. thread'[u] = thread[u] /\ Consumer(u) /\ thread[u].pos \in Nat
      BY <1>1, <1>4, <1>6, <2>2 DEF Threads
    <3>2. thread[u].at \in {"look", "claim"} => thread[u].pos <= dequeue_pos
      BY <3>1 DEF Consumer
    <3>3. /\ thread[u].at \in {"look", "claim"} =>
               thread[u].pos <= dequeue_pos + 1 /\ thread[u].pos # dequeue_pos + 1
          /\ Reading(u) => thread[u].pos < dequeue_pos + 1
      BY <1>3, <3>1, <3>2 DEF Consumer
    <3> QED
      BY <1>2, <3>1, <3>3 DEF Consumer, Reading, SeqAt, DataAt
  <2> QED
    BY <2>1, <2>2
<1>11. Alone'
  <2>1. \A u \in Consumers : Reading(u) => thread[u].pos # dequeue_pos
    BY <1>1, <1>3, <1>4 DEF Consumer, Threads
  <2> QED
    BY <1>1, <1>2, <1>6, <2>1 DEF Alone, Writing, Reading, Threads
<1>12. Taken'
  <2> SUFFICES ASSUME NEW p \in 0 .. dequeue_pos,
                      \A u \in Consumers : thread'[u].at = "read" => thread'[u].pos # p
               PROVE  popped[p] = pushed[p] /\ popped[p] # Empty
    BY <1>2, <1>3 DEF Taken
  <2>1. p # dequeue_pos
    BY <1>6
  <2>2. p \in 0 .. dequeue_pos - 1
    BY <1>3, <2>1
  <2>3. \A u \in Consumers : thread[u].at = "read" => thread[u].pos # p
    BY <1>2, <1>6 DEF Threads
  <2> QED
    BY <1>1, <2>2, <2>3 DEF Taken
<1>13. Counted'
  <2>1. /\ Claiming' = Claiming /\ Uncounted(Producers)' = Uncounted(Producers)
        /\ Uncounted(Consumers)' = Uncounted(Consumers) \cup {t} /\ t \notin Uncounted(Consumers)
    BY <1>1, <1>2, <1>6 DEF Claiming, Uncounted, Threads
  <2>2. /\ Cardinality(Uncounted(Consumers))' = Cardinality(Uncounted(Consumers)) + 1
        /\ Cardinality(Uncounted(Producers)) \in Nat
        /\ Cardinality(Uncounted(Consumers)) \in Nat
        /\ Cardinality(Uncounted(Producers))' = Cardinality(Uncounted(Producers))
    BY <1>1, <2>1, Counts
  <2>3. /\ enqueue_pos + Cardinality(Claiming) <= MaxPushes
        /\ size = (enqueue_pos - Cardinality(Uncounted(Producers)))
                    - (dequeue_pos - Cardinality(Uncounted(Consumers)))
    BY <1>1 DEF Counted
  <2>4. size' = (enqueue_pos' - Cardinality(Uncounted(Producers))')
                  - (dequeue_pos' - Cardinality(Uncounted(Consumers))')
    BY <1>2, <1>3, <2>2, <2>3
  <2> QED
    BY <1>2, <2>1, <2>3, <2>4 DEF Counted
<1> QED
  BY <1>7, <1>8, <1>9, <1>10, <1>11, <1>12, <1>13 DEF Inv

\* The same of a consumer: its cell is the one of a position not yet claimed.
LEMMA HoldsRead ==
  ASSUME Queue, Inv, NEW t \in Consumers, Reading(t), NEW q, q = thread[t].pos
  PROVE  /\ q \in Nat /\ q < dequeue_pos /\ enqueue_pos <= q + Capacity /\ q < MaxPushes
         /\ SeqAt(q) = q + 1 /\ Cell(q + Capacity) = Cell(q)
         /\ \A p \in Nat : SeqAt(p) = p => Cell(p) # Cell(q)
         /\ \A p \in Nat : SeqAt(p) = p + 1 /\ p # q => Cell(p) # Cell(q)
<1>1. Typed /\ Counted /\ Window /\ Consumer(t) /\ t \in Threads
  BY DEF Inv, Threads
<1>2. /\ q \in Nat /\ enqueue_pos \in Nat /\ dequeue_pos \in Nat /\ MaxPushes \in Nat
      /\ Capacity \in Nat /\ Capacity >= 2
  BY <1>1 DEF Typed, Queue
<1>3. q < dequeue_pos /\ enqueue_pos <= q + Capacity /\ SeqAt(q) = q + 1
  BY <1>1 DEF Consumer
<1>4. Cardinality(Claiming) \in Nat
  BY <1>1, Counts
<1>5. q < MaxPushes
  BY <1>1, <1>2, <1>3, <1>4 DEF Counted, Window
<1>6. ASSUME NEW p \in Nat, SeqAt(p) = p + 1, p # q PROVE Cell(p) # Cell(q)
  BY <1>2, <1>3, <1>6 DEF SeqAt
<1>7. ASSUME NEW p \in Nat, SeqAt(p) = p PROVE Cell(p) # Cell(q)
  BY <1>2, <1>3, <1>7, CellFacts DEF SeqAt
<1> QED
  BY <1>2, <1>3, <1>5, <1>6, <1>7, CellFacts

\* What is taken is what was pushed at the position.
LEMMA PopReads ==
  ASSUME Queue, Inv, NEW t \in Consumers, pop_read(t)
  PROVE  Inv'
<1> DEFINE q == thread[t].pos
<1>1. /\ Typed /\ Window /\ Alone /\ Taken /\ Counted /\ t \in Threads /\ t \notin Producers
      /\ \A u \in Producers : Producer(u)
      /\ \A u \in Consumers : Consumer(u)
  BY DEF Inv, Threads, Queue
<1>2. /\ thread[t].at = "read" /\ thread' = [thread EXCEPT ![t].at = "release"]
      /\ popped' = [popped EXCEPT ![q] = cell[Cell(q)].data]
      /\ cell' = [cell EXCEPT ![Cell(q)].data = Empty]
      /\ UNCHANGED <<enqueue_pos, dequeue_pos, size, pushed>>
  BY DEF pop_read, At, Go
<1>3. /\ q \in Nat /\ q < dequeue_pos /\ enqueue_pos <= q + Capacity /\ q < MaxPushes
      /\ SeqAt(q) = q + 1 /\ Cell(q + Capacity) = Cell(q)
      /\ \A p \in Nat : SeqAt(p) = p => Cell(p) # Cell(q)
      /\ \A p \in Nat : SeqAt(p) = p + 1 /\ p # q => Cell(p) # Cell(q)
  BY <1>2, HoldsRead DEF Reading
<1>4. /\ Capacity \in Nat /\ Capacity >= 2 /\ enqueue_pos \in Nat /\ dequeue_pos \in Nat
      /\ MaxPushes \in Nat /\ \A p \in Nat : Cell(p) \in Cells
      /\ cell[Cell(q)].data = pushed[q] /\ pushed[q] # Empty
  <2>1. cell[Cell(q)].data = pushed[q] /\ pushed[q] # Empty
    BY <1>1, <1>2 DEF Consumer, DataAt
  <2> QED
    BY <1>1, <2>1, CellFacts DEF Queue, Typed
<1>5. \A u \in Threads : thread[u].pos \in Nat
  BY <1>1 DEF Typed
<1>6. thread'[t] = [at |-> "release", pos |-> q] /\ \A u \in Threads \ {t} : thread'[u] = thread[u]
  BY <1>1, <1>2 DEF Typed
<1>7. Typed'
  <2>1. Cell(q) \in Cells /\ q \in 0 .. MaxPushes - 1
    BY <1>3, <1>4
  <2>2. cell' \in [Cells -> [sequence : Nat, data : Producers \cup {Empty}]]
    BY <1>1, <1>2, <2>1 DEF Typed
  <2>3. thread' \in [Threads -> [at : Places, pos : Nat]]
    BY <1>1, <1>2 DEF Typed, Places
  <2>4. popped' \in [0 .. MaxPushes - 1 -> Producers \cup {Empty}]
    BY <1>1, <1>2, <2>1 DEF Typed
  <2> QED
    BY <1>1, <1>2, <2>2, <2>3, <2>4 DEF Typed
<1>8. /\ popped'[q] = pushed[q] /\ \A p \in 0 .. MaxPushes - 1 : p # q => popped'[p] = popped[p]
      /\ \A p \in Nat : cell'[Cell(p)].sequence = cell[Cell(p)].sequence
      /\ \A p \in Nat : Cell(p) # Cell(q) => cell'[Cell(p)].data = cell[Cell(p)].data
  <2>1. popped'[q] = pushed[q] /\ \A p \in 0 .. MaxPushes - 1 : p # q => popped'[p] = popped[p]
    BY <1>1, <1>2, <1>3, <1>4 DEF Typed
  <2>2. cell'[Cell(q)].sequence = cell[Cell(q)].sequence
    BY <1>1, <1>2, <1>3, <1>4 DEF Typed
  <2>3. \A i \in Cells : i # Cell(q) => cell'[i] = cell[i]
    BY <1>1, <1>2, <1>3, <1>4 DEF Typed
  <2> QED
    BY <1>4, <2>1, <2>2, <2>3
<1> HIDE DEF q
<1>9. enqueue_pos <= MaxPushes
  <2>1. Cardinality(Claiming) \in Nat
    BY <1>1, Counts
  <2> QED
    BY <1>1, <1>4, <2>1 DEF Counted
<1>10. Window'
  <2> SUFFICES ASSUME NEW p \in dequeue_pos .. dequeue_pos + Capacity - 1
               PROVE  IF p < enqueue_pos
                      THEN /\ cell'[Cell(p)].sequence \in {p, p + 1}
                           /\ cell'[Cell(p)].sequence = p + 1 =>
                                cell'[Cell(p)].data = pushed[p] /\ pushed[p] # Empty
                      ELSE cell'[Cell(p)].sequence \in {p, p + 1 - Capacity}
    BY <1>1, <1>2 DEF Window, SeqAt, DataAt
  <2>1. p \in Nat /\ p # q
    BY <1>3, <1>4
  <2>2. SeqAt(p) = p + 1 => Cell(p) # Cell(q)
    BY <1>3, <2>1
  <2> QED
    BY <1>1, <1>8, <2>1, <2>2 DEF Window, SeqAt, DataAt
<1>11. \A u \in Producers : Producer(u)'
  <2> SUFFICES ASSUME NEW u \in Producers PROVE Producer(u)'
    OBVIOUS
  <2>1. thread'[u] = thread[u] /\ Producer(u) /\ thread[u].pos \in Nat
    BY <1>1, <1>5, <1>6 DEF Threads
  <2>2. /\ SeqAt(thread[u].pos)' = SeqAt(thread[u].pos)
        /\ SeqAt(thread[u].pos) = thread[u].pos => DataAt(thread[u].pos)' = DataAt(thread[u].pos)
    BY <1>3, <1>8, <2>1 DEF SeqAt, DataAt
  <2> QED
    BY <1>2, <2>1, <2>2 DEF Producer, Writing
<1>12. \A u \in Consumers : Consumer(u)'
  <2> SUFFICES ASSUME NEW u \in Consumers PROVE Consumer(u)'
    OBVIOUS
  <2>1. CASE u = t
    BY <1>2, <1>3, <1>6, <1>8, <2>1 DEF Consumer, Reading, SeqAt
  <2>2. CASE u # t
    <3>1. thread'[u] = thread[u] /\ Consumer(u) /\ thread[u].pos \in Nat
      BY <1>1, <1>5, <1>6, <2>2 DEF Threads
    <3>2. Reading(u) => thread[u].pos # q
      BY <1>1, <1>2, <2>2 DEF Alone, Reading, q
    <3>3. /\ SeqAt(thread[u].pos)' = SeqAt(thread[u].pos)
          /\ SeqAt(thread[u].pos) = thread[u].pos + 1 /\ thread[u].pos # q =>
               DataAt(thread[u].pos)' = DataAt(thread[u].pos)
      BY <1>3, <1>8, <3>1 DEF SeqAt, DataAt
    <3> QED
      BY <1>2, <3>1, <3>2, <3>3 DEF Consumer, Reading
  <2> QED
    BY <2>1, <2>2
<1>13. Alone'
  BY <1>1, <1>2, <1>6 DEF Alone, Writing, Reading, Threads, q
<1>14. Taken'
  <2> SUFFICES ASSUME NEW p \in 0 .. dequeue_pos - 1,
                      \A u \in Consumers : thread'[u].at = "read" => thread'[u].pos # p
               PROVE  popped'[p] = pushed[p] /\ popped'[p] # Empty
    BY <1>2, <1>4 DEF Taken
  <2>1. CASE p = q
    BY <1>4, <1>8, <2>1
  <2>2. CASE p # q
    <3>1. \A u \in Consumers : thread[u].at = "read" => thread[u].pos # p
      BY <1>6, <2>2 DEF Threads, q
    <3>2. p \in 0 .. MaxPushes - 1
      BY <1>1, <1>4, <1>9 DEF Window
    <3> QED
      BY <1>1, <1>8, <2>2, <3>1, <3>2 DEF Taken
  <2> QED
    BY <2>1, <2>2
<1>15. Counted'
  <2>1. /\ Claiming' = Claiming /\ Uncounted(Producers)' = Uncounted(Producers)
        /\ Uncounted(Consumers)' = Uncounted(Consumers)
    BY <1>1, <1>2, <1>6 DEF Claiming, Uncounted, Threads
  <2> QED
    BY <1>1, <1>2, <2>1 DEF Counted
<1> QED
  BY <1>7, <1>10, <1>11, <1>12, <1>13, <1>14, <1>15 DEF Inv

\* The sequence hands the cell to the next lap.
LEMMA PopReleases ==
  ASSUME Queue, Inv, NEW t \in Consumers, pop_release(t)
  PROVE  Inv'
<1> DEFINE q == thread[t].pos
<1>1. /\ Typed /\ Window /\ Alone /\ Taken /\ Counted /\ t \in Threads /\ t \notin Producers
      /\ \A u \in Producers : Producer(u)
      /\ \A u \in Consumers : Consumer(u)
  BY DEF Inv, Threads, Queue
<1>2. /\ thread[t].at = "release" /\ thread' = [thread EXCEPT ![t].at = "count"]
      /\ cell' = [cell EXCEPT ![Cell(q)].sequence = q + Capacity]
      /\ UNCHANGED <<enqueue_pos, dequeue_pos, size, pushed, popped>>
  BY DEF pop_release, At, Go
<1>3. /\ q \in Nat /\ q < dequeue_pos /\ enqueue_pos <= q + Capacity /\ q < MaxPushes
      /\ SeqAt(q) = q + 1 /\ Cell(q + Capacity) = Cell(q)
      /\ \A p \in Nat : SeqAt(p) = p => Cell(p) # Cell(q)
      /\ \A p \in Nat : SeqAt(p) = p + 1 /\ p # q => Cell(p) # Cell(q)
  BY <1>2, HoldsRead DEF Reading
<1>4. /\ Capacity \in Nat /\ Capacity >= 2 /\ enqueue_pos \in Nat /\ dequeue_pos \in Nat
      /\ \A p \in Nat : Cell(p) \in Cells
  BY <1>1, CellFacts DEF Queue, Typed
<1>5. \A u \in Threads : thread[u].pos \in Nat
  BY <1>1 DEF Typed
<1>6. thread'[t] = [at |-> "count", pos |-> q] /\ \A u \in Threads \ {t} : thread'[u] = thread[u]
  BY <1>1, <1>2 DEF Typed
<1>7. Typed'
  <2>1. q + Capacity \in Nat /\ Cell(q) \in Cells
    BY <1>3, <1>4
  <2>2. cell' \in [Cells -> [sequence : Nat, data : Producers \cup {Empty}]]
    BY <1>1, <1>2, <2>1 DEF Typed
  <2>3. thread' \in [Threads -> [at : Places, pos : Nat]]
    BY <1>1, <1>2 DEF Typed, Places
  <2> QED
    BY <1>1, <1>2, <2>2, <2>3 DEF Typed
<1>8. /\ cell'[Cell(q)].sequence = q + Capacity
      /\ \A p \in Nat : Cell(p) # Cell(q) => cell'[Cell(p)] = cell[Cell(p)]
  <2>1. cell'[Cell(q)].sequence = q + Capacity
    BY <1>1, <1>2, <1>3, <1>4 DEF Typed
  <2>2. \A i \in Cells : i # Cell(q) => cell'[i] = cell[i]
    BY <1>1, <1>2, <1>3, <1>4 DEF Typed
  <2> QED
    BY <1>4, <2>1, <2>2
<1> HIDE DEF q
<1>9. Window'
  <2> SUFFICES ASSUME NEW p \in dequeue_pos .. dequeue_pos + Capacity - 1
               PROVE  IF p < enqueue_pos
                      THEN /\ cell'[Cell(p)].sequence \in {p, p + 1}
                           /\ cell'[Cell(p)].sequence = p + 1 =>
                                cell'[Cell(p)].data = pushed[p] /\ pushed[p] # Empty
                      ELSE cell'[Cell(p)].sequence \in {p, p + 1 - Capacity}
    BY <1>1, <1>2 DEF Window, SeqAt, DataAt
  <2>1. CASE p = q + Capacity
    BY <1>3, <1>4, <1>8, <2>1
  <2>2. CASE p # q + Capacity
    <3>1. p \in Nat /\ Cell(p) # Cell(q)
      <4>1. /\ p \in Nat /\ q + Capacity \in Nat /\ dequeue_pos <= q + Capacity
            /\ q + Capacity < dequeue_pos + Capacity
        BY <1>1, <1>3, <1>4 DEF Window
      <4>2. Cell(p) # Cell(q + Capacity)
        BY <1>4, <2>2, <4>1, CellFacts
      <4> QED
        BY <1>3, <4>1, <4>2
    <3> QED
      BY <1>1, <1>8, <3>1 DEF Window, SeqAt, DataAt
  <2> QED
    BY <2>1, <2>2
<1>10. \A u \in Producers : Producer(u)'
  <2> SUFFICES ASSUME NEW u \in Producers PROVE Producer(u)'
    OBVIOUS
  <2>1. thread'[u] = thread[u] /\ Producer(u) /\ thread[u].pos \in Nat
    BY <1>1, <1>5, <1>6 DEF Threads
  <2>2. SeqAt(thread[u].pos) = thread[u].pos =>
          SeqAt(thread[u].pos)' = SeqAt(thread[u].pos) /\ DataAt(thread[u].pos)' = DataAt(thread[u].pos)
    BY <1>3, <1>8, <2>1 DEF SeqAt, DataAt
  <2> QED
    BY <1>2, <2>1, <2>2 DEF Producer, Writing
<1>11. \A u \in Consumers : Consumer(u)'
  <2> SUFFICES ASSUME NEW u \in Consumers PROVE Consumer(u)'
    OBVIOUS
  <2>1. CASE u = t
    BY <1>6, <2>1 DEF Consumer, Reading
  <2>2. CASE u # t
    <3>1. thread'[u] = thread[u] /\ Consumer(u) /\ thread[u].pos \in Nat
      BY <1>1, <1>5, <1>6, <2>2 DEF Threads
    <3>2. Reading(u) => thread[u].pos # q
      BY <1>1, <1>2, <2>2 DEF Alone, Reading, q
    <3>3. SeqAt(thread[u].pos) = thread[u].pos + 1 /\ thread[u].pos # q =>
            SeqAt(thread[u].pos)' = SeqAt(thread[u].pos) /\ DataAt(thread[u].pos)' = DataAt(thread[u].pos)
      BY <1>3, <1>8, <3>1 DEF SeqAt, DataAt
    <3> QED
      BY <1>2, <1>3, <1>4, <3>1, <3>2, <3>3 DEF Consumer, Reading
  <2> QED
    BY <2>1, <2>2
<1>12. Alone'
  BY <1>1, <1>2, <1>6 DEF Alone, Writing, Reading, Threads
<1>13. Taken'
  BY <1>1, <1>2, <1>6 DEF Taken, Threads
<1>14. Counted'
  <2>1. /\ Claiming' = Claiming /\ Uncounted(Producers)' = Uncounted(Producers)
        /\ Uncounted(Consumers)' = Uncounted(Consumers)
    BY <1>1, <1>2, <1>6 DEF Claiming, Uncounted, Threads
  <2> QED
    BY <1>1, <1>2, <2>1 DEF Counted
<1> QED
  BY <1>7, <1>9, <1>10, <1>11, <1>12, <1>13, <1>14 DEF Inv

-----------------------------------------------------------------------------

\* Every step keeps the invariant.
LEMMA Inductive ==
  ASSUME Queue
  PROVE  /\ Init => Inv
         /\ Inv /\ [Next]_vars => Inv'
<1>1. ASSUME Init PROVE Inv
  <2>1. /\ Capacity \in Nat /\ Capacity >= 2 /\ MaxPushes \in Nat
        /\ Cells = 0 .. Capacity - 1 /\ enqueue_pos = 0 /\ dequeue_pos = 0 /\ size = 0
        /\ cell = [i \in Cells |-> [sequence |-> i, data |-> Empty]]
        /\ thread = [t \in Threads |-> [at |-> "idle", pos |-> 0]]
    BY <1>1 DEF Queue, Init, Cells, Idle
  <2>2. Typed
    BY <1>1, <2>1 DEF Typed, Init, Places
  <2>3. Window
    <3>1. \A p \in 0 .. Capacity - 1 : Cell(p) = p
      <4>1. Capacity \in Nat \ {0}
        BY <2>1
      <4> QED
        BY <4>1, FirstLap DEF Cell
    <3>2. \A p \in 0 .. Capacity - 1 : SeqAt(p) = p
      BY <2>1, <3>1 DEF SeqAt
    <3>3. /\ dequeue_pos .. dequeue_pos + Capacity - 1 = 0 .. Capacity - 1
          /\ \A p \in 0 .. Capacity - 1 : ~(p < enqueue_pos)
      BY <2>1
    <3> QED
      BY <2>1, <3>2, <3>3 DEF Window
  <2>4. /\ \A t \in Producers : Producer(t)
        /\ \A t \in Consumers : Consumer(t)
    BY <2>1 DEF Producer, Consumer, Writing, Reading, Threads
  <2>5. Alone /\ Taken
    BY <2>1 DEF Alone, Taken, Writing, Reading, Threads
  <2>6. Counted
    <3>1. Claiming = {} /\ Uncounted(Producers) = {} /\ Uncounted(Consumers) = {}
      BY <2>1 DEF Claiming, Uncounted, Threads
    <3> QED
      BY <2>1, <3>1, FS_EmptySet DEF Counted
  <2> QED
    BY <2>2, <2>3, <2>4, <2>5, <2>6 DEF Inv
<1>2. ASSUME Inv, NEW t \in Producers, push_begin(t) \/ Push(t) PROVE Inv'
  BY <1>2, PushBegin, PushLooks, PushLoses, PushWins, PushWrites, PushPublishes, PushCounts
     DEF Push
<1>3. ASSUME Inv, NEW t \in Consumers, pop_begin(t) \/ Pop(t) PROVE Inv'
  BY <1>3, PopBegin, PopLooks, PopLoses, PopWins, PopReads, PopReleases, PopCounts DEF Pop
<1>4. ASSUME Inv, UNCHANGED vars PROVE Inv'
  <2>1. Typed'
    BY <1>4 DEF vars, Inv, Typed
  <2>2. Window' /\ Taken'
    BY <1>4 DEF vars, Inv, Window, Taken, SeqAt, DataAt
  <2>3. Alone'
    BY <1>4 DEF vars, Inv, Alone, Writing, Reading
  <2>4. Counted'
    BY <1>4 DEF vars, Inv, Counted, Claiming, Uncounted
  <2>5. \A t \in Producers : Producer(t)'
    BY <1>4 DEF vars, Inv, Producer, Writing, SeqAt, DataAt
  <2>6. \A t \in Consumers : Consumer(t)'
    BY <1>4 DEF vars, Inv, Consumer, Reading, SeqAt, DataAt
  <2> QED
    BY <2>1, <2>2, <2>3, <2>4, <2>5, <2>6 DEF Inv
<1> QED
  BY <1>1, <1>2, <1>3, <1>4 DEF Next

\* For every capacity of two cells or more and any finite number of threads, no
\* two operations are in one cell: the data of a cell, which is not atomic, is
\* written and read by one thread at a time.
THEOREM CellsExclusive ==
  ASSUME Queue
  PROVE  Spec => []CellExclusive
<1>1. ASSUME Inv PROVE CellExclusive
  <2> SUFFICES ASSUME NEW i \in Cells PROVE Cardinality(Holders(i)) <= 1
    BY DEF CellExclusive
  <2>1. ASSUME NEW t \in Holders(i), NEW u \in Holders(i) PROVE t = u
    <3>1. /\ t \in Threads /\ u \in Threads
          /\ Cell(thread[t].pos) = i /\ Cell(thread[u].pos) = i
          /\ Writing(t) \/ Reading(t)
          /\ Writing(u) \/ Reading(u)
      BY DEF Holders, Writing, Reading
    <3>2. \A v \in Producers : Producer(v) /\ v \in Threads
      BY <1>1 DEF Inv, Threads
    <3>3. \A v \in Consumers : Consumer(v) /\ v \in Threads
      BY <1>1 DEF Inv, Threads
    <3>4. \A v \in Threads : /\ thread[v].pos \in Nat
                             /\ v \in Producers \/ v \in Consumers
                             /\ v \in Producers => ~Reading(v)
                             /\ v \in Consumers => ~Writing(v)
      BY <1>1, <3>2, <3>3 DEF Inv, Typed, Threads, Producer, Consumer, Writing, Reading
    <3>5. CASE t \in Producers /\ u \in Producers
      <4>1. thread[t].pos = thread[u].pos
        BY <3>1, <3>2, <3>4, <3>5 DEF Producer, SeqAt
      <4> QED
        BY <1>1, <3>1, <3>4, <3>5, <4>1 DEF Inv, Alone
    <3>6. CASE t \in Consumers /\ u \in Consumers
      <4>1. thread[t].pos + 1 = thread[u].pos + 1
        BY <3>1, <3>3, <3>4, <3>6 DEF Consumer, SeqAt
      <4>2. thread[t].pos = thread[u].pos
        BY <3>1, <3>4, <4>1
      <4> QED
        BY <1>1, <3>1, <3>4, <3>6, <4>2 DEF Inv, Alone
    <3>7. CASE t \in Producers /\ u \in Consumers
      <4>1. SeqAt(thread[u].pos) = thread[u].pos + 1 /\ thread[u].pos \in Nat
        BY <3>1, <3>3, <3>4, <3>7 DEF Consumer
      <4> QED
        BY <1>1, <3>1, <3>4, <3>7, <4>1, Holds
    <3>8. CASE t \in Consumers /\ u \in Producers
      <4>1. SeqAt(thread[t].pos) = thread[t].pos + 1 /\ thread[t].pos \in Nat
        BY <3>1, <3>3, <3>4, <3>8 DEF Consumer
      <4> QED
        BY <1>1, <3>1, <3>4, <3>8, <4>1, Holds
    <3> QED
      BY <3>1, <3>4, <3>5, <3>6, <3>7, <3>8
  <2>2. CASE Holders(i) = {}
    BY <2>2, FS_EmptySet
  <2>3. CASE Holders(i) # {}
    <3>1. PICK t : t \in Holders(i)
      BY <2>3
    <3>2. Holders(i) = {t}
      BY <2>1, <3>1
    <3>3. Cardinality({t}) = 1
      BY FS_Singleton
    <3> QED
      BY <3>2, <3>3
  <2> QED
    BY <2>2, <2>3
<1> QED
  BY <1>1, Inductive, PTL DEF Spec

\* For every capacity of two cells or more and any finite number of threads,
\* the queue is bounded, first in, first out, and hands every item out once, and
\* size() is exact whenever no operation is under way.
THEOREM QueueFifo ==
  ASSUME Queue
  PROVE  Spec => []BoundedFifo
<1>1. ASSUME Inv PROVE BoundedFifo
  <2>1. enqueue_pos - dequeue_pos \in 0 .. Capacity
    BY <1>1 DEF Inv, Typed, Window, Queue
  <2>2. Taken
    BY <1>1 DEF Inv
  <2>3. ASSUME \A t \in Threads : At(t, "idle") PROVE size = enqueue_pos - dequeue_pos
    <3>1. Uncounted(Producers) = {} /\ Uncounted(Consumers) = {}
      BY <2>3 DEF Uncounted, At, Threads
    <3>2. Cardinality(Uncounted(Producers)) = 0 /\ Cardinality(Uncounted(Consumers)) = 0
      BY <3>1, FS_EmptySet
    <3>3. size = (enqueue_pos - 0) - (dequeue_pos - 0)
      BY <1>1, <3>2 DEF Inv, Counted
    <3>4. enqueue_pos \in Nat /\ dequeue_pos \in Nat
      BY <1>1 DEF Inv, Typed
    <3> QED
      BY <3>3, <3>4
  <2> QED
    BY <2>1, <2>2, <2>3 DEF BoundedFifo, Taken
<1> QED
  BY <1>1, Inductive, PTL DEF Spec

\* For every capacity of two cells or more and any finite number of threads, an
\* operation starts over only when another has claimed the position it loaded:
\* try_push and try_pop are lock-free.
THEOREM RetriesProgress ==
  ASSUME Queue
  PROVE  Spec => []RetryMeansProgress
<1>1. ASSUME Inv PROVE RetryMeansProgress
  <2> SUFFICES ASSUME NEW t \in Threads, At(t, "look")
               PROVE  LET sequence == cell[Cell(thread[t].pos)].sequence
                      IN  /\ t \in Producers /\ sequence > thread[t].pos => enqueue_pos > thread[t].pos
                          /\ t \in Consumers /\ sequence > thread[t].pos + 1 => dequeue_pos > thread[t].pos
    BY DEF RetryMeansProgress
  <2> DEFINE p == thread[t].pos
  <2>1. /\ p \in Nat /\ enqueue_pos \in Nat /\ dequeue_pos \in Nat
        /\ Capacity \in Nat /\ Capacity >= 2 /\ Window
    BY <1>1 DEF Inv, Typed, Queue
  <2>2. ASSUME t \in Producers, SeqAt(p) > p PROVE enqueue_pos > p
    <3>1. p <= enqueue_pos
      BY <1>1, <2>2 DEF Inv, Producer, At
    <3>2. CASE p = enqueue_pos /\ p < dequeue_pos + Capacity
      <4>1. SeqAt(p) \in {p, p + 1 - Capacity}
        BY <2>1, <3>2 DEF Window
      <4> QED
        BY <2>1, <2>2, <4>1
    <3>3. CASE p = enqueue_pos /\ p = dequeue_pos + Capacity
      <4>1. SeqAt(dequeue_pos) \in {dequeue_pos, dequeue_pos + 1}
        BY <2>1, <3>3 DEF Window
      <4>2. SeqAt(p) = SeqAt(dequeue_pos)
        BY <2>1, <3>3, CellFacts DEF SeqAt
      <4> QED
        BY <2>1, <2>2, <3>3, <4>1, <4>2
    <3> QED
      BY <2>1, <3>1, <3>2, <3>3 DEF Window
  <2>3. ASSUME t \in Consumers, SeqAt(p) > p + 1 PROVE dequeue_pos > p
    <3>1. p <= dequeue_pos
      BY <1>1, <2>3 DEF Inv, Consumer, At
    <3>2. CASE p = dequeue_pos
      <4>1. SeqAt(p) \in {p, p + 1, p + 1 - Capacity}
        BY <2>1, <3>2 DEF Window
      <4> QED
        BY <2>1, <2>3, <4>1
    <3> QED
      BY <2>1, <3>1, <3>2
  <2> QED
    BY <2>2, <2>3 DEF SeqAt
<1> QED
  BY <1>1, Inductive, PTL DEF Spec
=============================================================================
