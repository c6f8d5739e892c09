------------------------------ MODULE LeasePool ------------------------------
(***************************************************************************)
(* The pool of control blocks on the receive path (src/core/lease_pool):   *)
(* a lock-free stack threaded through the blocks themselves.  The engine   *)
(* thread is the only one to pop; any thread pushes.  One step is one      *)
(* access to shared memory.                                                *)
(*                                                                         *)
(* "free" is a history variable: the free list as the successful exchanges *)
(* made it, its head last.                                                 *)
(***************************************************************************)
EXTENDS Integers, Sequences

CONSTANTS Block, Thread, Nil

VARIABLES
  free_head,
  link,        \* the first word of each block
  engine,      \* the call of allocate() in progress
  pusher,      \* the calls of deallocate() in progress
  out,         \* blocks the application's views live in
  free

vars == <<free_head, link, engine, pusher, out, free>>

Blocks(s) == {s[i] : i \in 1..Len(s)}
Distinct(s) == \A i, j \in 1..Len(s) : s[i] = s[j] => i = j

\* The free list that can be read from memory is s.
Threaded(head, memory, s) ==
  /\ head = IF s = <<>> THEN Nil ELSE s[Len(s)]
  /\ \A i \in 1..Len(s) : memory[s[i]] = IF i = 1 THEN Nil ELSE s[i - 1]

Init ==
  /\ free \in Seq(Block) /\ Distinct(free) /\ Blocks(free) = Block
  /\ free_head \in Block \cup {Nil} /\ link \in [Block -> Block \cup {Nil}]
  /\ Threaded(free_head, link, free)
  /\ engine = [at |-> "idle", head |-> Nil, next |-> Nil]
  /\ pusher = [t \in Thread |-> [at |-> "idle", block |-> Nil, head |-> Nil]]
  /\ out = {}

-----------------------------------------------------------------------------
(* allocate(), on the engine thread                                        *)

allocate ==
  /\ engine.at = "idle"
  /\ engine' = [at |-> "look", head |-> free_head, next |-> Nil]
  /\ UNCHANGED <<free_head, link, pusher, out, free>>

\* nullptr: the caller takes its block elsewhere.
allocate_overflows ==
  /\ engine.at = "look" /\ engine.head = Nil
  /\ engine' = [at |-> "idle", head |-> Nil, next |-> Nil]
  /\ UNCHANGED <<free_head, link, pusher, out, free>>

allocate_next ==
  /\ engine.at = "look" /\ engine.head # Nil
  /\ engine' = [at |-> "swap", head |-> engine.head, next |-> link[engine.head]]
  /\ UNCHANGED <<free_head, link, pusher, out, free>>

allocate_swap ==
  /\ engine.at = "swap" /\ free_head = engine.head
  /\ free_head' = engine.next
  /\ out' = out \cup {engine.head}
  /\ free' = SubSeq(free, 1, Len(free) - 1)
  /\ engine' = [at |-> "idle", head |-> Nil, next |-> Nil]
  /\ UNCHANGED <<link, pusher>>

\* A weak exchange may fail for no reason.
allocate_again ==
  /\ engine.at = "swap"
  /\ engine' = [at |-> "look", head |-> free_head, next |-> Nil]
  /\ UNCHANGED <<free_head, link, pusher, out, free>>

-----------------------------------------------------------------------------
(* deallocate(), on whichever thread drops the last view                   *)

deallocate(t) ==
  /\ pusher[t].at = "idle"
  /\ \E b \in out :
       /\ out' = out \ {b}
       /\ pusher' = [pusher EXCEPT ![t] = [at |-> "write", block |-> b, head |-> free_head]]
  /\ UNCHANGED <<free_head, link, engine, free>>

deallocate_link(t) ==
  /\ pusher[t].at = "write"
  /\ link' = [link EXCEPT ![pusher[t].block] = pusher[t].head]
  /\ pusher' = [pusher EXCEPT ![t].at = "swap"]
  /\ UNCHANGED <<free_head, engine, out, free>>

deallocate_swap(t) ==
  /\ pusher[t].at = "swap" /\ free_head = pusher[t].head
  /\ free_head' = pusher[t].block
  /\ free' = Append(free, pusher[t].block)
  /\ pusher' = [pusher EXCEPT ![t] = [at |-> "idle", block |-> Nil, head |-> Nil]]
  /\ UNCHANGED <<link, engine, out>>

deallocate_again(t) ==
  /\ pusher[t].at = "swap"
  /\ pusher' = [pusher EXCEPT ![t] = [at |-> "write", block |-> @.block, head |-> free_head]]
  /\ UNCHANGED <<free_head, link, engine, out, free>>

\* The lease and its control block are built and changed in the block.
use ==
  /\ \E b \in out, word \in Block \cup {Nil} : link' = [link EXCEPT ![b] = word]
  /\ UNCHANGED <<free_head, engine, pusher, out, free>>

Next ==
  \/ allocate \/ allocate_overflows \/ allocate_next \/ allocate_swap \/ allocate_again
  \/ \E t \in Thread : deallocate(t) \/ deallocate_link(t) \/ deallocate_swap(t) \/ deallocate_again(t)
  \/ use

Spec == Init /\ [][Next]_vars

-----------------------------------------------------------------------------

Returning(t) == pusher[t].at # "idle"

\* Whatever the interleaving, the list in memory is the one the exchanges made
\* (an exchange of the engine never installs a stale successor), and every
\* block is in one place only: free, in use, or being returned by one thread.
BlocksConserved ==
  /\ Threaded(free_head, link, free) /\ Distinct(free)
  /\ out \cap Blocks(free) = {}
  /\ \A t \in Thread : Returning(t) =>
       /\ pusher[t].block \notin out \cup Blocks(free)
       /\ \A u \in Thread : Returning(u) /\ u # t => pusher[u].block # pusher[t].block
  /\ Block = Blocks(free) \cup out \cup {pusher[t].block : t \in {u \in Thread : Returning(u)}}

\* What the engine looked at stays in the list until the engine takes it.
EngineKnows ==
  /\ engine.at # "idle" /\ engine.head # Nil => engine.head \in Blocks(free)
  /\ engine.at = "swap" => engine.head # Nil /\ engine.next = link[engine.head]

TypeOK ==
  /\ free_head \in Block \cup {Nil} /\ link \in [Block -> Block \cup {Nil}]
  /\ engine \in [at : {"idle", "look", "swap"}, head : Block \cup {Nil}, next : Block \cup {Nil}]
  /\ pusher \in [Thread -> [at : {"idle", "write", "swap"}, block : Block \cup {Nil},
                            head : Block \cup {Nil}]]
  /\ out \subseteq Block /\ free \in Seq(Block)

PushersLinked ==
  \A t \in Thread :
    /\ Returning(t) => pusher[t].block \in Block
    /\ pusher[t].at = "swap" => link[pusher[t].block] = pusher[t].head

Inv == TypeOK /\ BlocksConserved /\ EngineKnows /\ PushersLinked
=============================================================================
