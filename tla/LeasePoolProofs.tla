--------------------------- MODULE LeasePoolProofs ---------------------------
(***************************************************************************)
(* The free list of LeasePool, for any number of blocks and threads.       *)
(***************************************************************************)
EXTENDS LeasePool, SequenceTheorems, TLAPS

-----------------------------------------------------------------------------
(* Free lists                                                              *)

\* A write to a block that is not free leaves the list alone.
LEMMA OtherWrite ==
  ASSUME NEW s \in Seq(Block), NEW h, NEW m \in [Block -> Block \cup {Nil}], Threaded(h, m, s),
         NEW b \in Block, b \notin Blocks(s), NEW w
  PROVE  Threaded(h, [m EXCEPT ![b] = w], s)
<1>1. \A i \in 1..Len(s) : s[i] \in Block /\ s[i] # b
  BY DEF Blocks
<1> QED
  BY <1>1 DEF Threaded

LEMMA Pushed ==
  ASSUME NEW s \in Seq(Block), NEW h, NEW m, Threaded(h, m, s), Distinct(s),
         NEW b \in Block, b \notin Blocks(s), m[b] = h
  PROVE  /\ Append(s, b) \in Seq(Block)
         /\ Threaded(b, m, Append(s, b)) /\ Distinct(Append(s, b))
         /\ Blocks(Append(s, b)) = Blocks(s) \cup {b}
<1> DEFINE a == Append(s, b)
<1>1. /\ a \in Seq(Block) /\ Len(a) = Len(s) + 1 /\ Len(s) \in Nat /\ a[Len(s) + 1] = b
      /\ \A i \in 1..Len(s) : a[i] = s[i]
  OBVIOUS
<1> HIDE DEF a
<1>2. \A i \in 1..Len(s) : s[i] # b
  BY DEF Blocks
<1>3. a # <<>>
  BY <1>1
<1>4. Distinct(a)
  BY <1>1, <1>2 DEF Distinct
<1>5. Blocks(a) = Blocks(s) \cup {b}
  <2>1. \A i \in 1..Len(a) : i \in 1..Len(s) \/ i = Len(s) + 1
    BY <1>1
  <2>2. 1..Len(s) \subseteq 1..Len(a) /\ Len(s) + 1 \in 1..Len(a)
    BY <1>1
  <2> QED
    BY <1>1, <2>1, <2>2 DEF Blocks
<1>6. Threaded(b, m, a)
  <2>1. b = IF a = <<>> THEN Nil ELSE a[Len(a)]
    BY <1>1, <1>3
  <2>2. ASSUME NEW i \in 1..Len(a) PROVE m[a[i]] = IF i = 1 THEN Nil ELSE a[i - 1]
    <3>1. CASE i \in 1..Len(s)
      <4>1. m[s[i]] = IF i = 1 THEN Nil ELSE s[i - 1]
        BY <3>1 DEF Threaded
      <4>2. a[i] = s[i] /\ (i # 1 => a[i - 1] = s[i - 1])
        BY <1>1, <3>1
      <4> QED
        BY <4>1, <4>2
    <3>2. CASE i = Len(s) + 1
      <4>1. h = IF i = 1 THEN Nil ELSE s[i - 1]
        BY <1>1, <3>2 DEF Threaded
      <4>2. i # 1 => a[i - 1] = s[i - 1]
        BY <1>1, <3>2
      <4> QED
        BY <1>1, <3>2, <4>1, <4>2
    <3> QED
      BY <1>1, <3>1, <3>2
  <2> QED
    BY <2>1, <2>2 DEF Threaded
<1> QED
  BY <1>1, <1>4, <1>5, <1>6 DEF a

LEMMA Popped ==
  ASSUME NEW s \in Seq(Block), NEW h \in Block, Nil \notin Block, NEW m, Threaded(h, m, s), Distinct(s)
  PROVE  LET f == SubSeq(s, 1, Len(s) - 1) IN
         /\ f \in Seq(Block)
         /\ Threaded(m[h], m, f) /\ Distinct(f)
         /\ Blocks(f) = Blocks(s) \ {h} /\ h \in Blocks(s)
<1> DEFINE f == SubSeq(s, 1, Len(s) - 1)
           n == Len(s)
<1>1. s # <<>> /\ h = s[n] /\ n \in Nat /\ n >= 1
  <2>1. s # <<>> /\ h = s[n]
    BY DEF Threaded
  <2> QED
    BY <2>1, EmptySeq
<1>2. /\ f \in Seq(Block) /\ Len(f) = n - 1
      /\ \A i \in 1..(n - 1) : f[i] = s[i]
  <2>1. \A i \in 1..(n - 1) : s[i] \in Block
    BY <1>1
  <2>2. 1 \in Int /\ n - 1 \in Int
    BY <1>1
  <2>3. /\ f \in Seq(Block) /\ Len(f) = IF 1 <= n - 1 THEN n - 1 - 1 + 1 ELSE 0
        /\ \A i \in 1..(n - 1 - 1 + 1) : f[i] = s[1 + i - 1]
    BY <2>1, <2>2, SubSeqProperties
  <2> HIDE DEF f, n
  <2> QED
    BY <1>1, <2>3
<1> HIDE DEF f, n
<1>3. Distinct(f)
  BY <1>1, <1>2 DEF Distinct, n
<1>4. h \in Blocks(s)
  BY <1>1 DEF Blocks, n
<1>5. Blocks(f) = Blocks(s) \ {h}
  <2>1. \A i \in 1..n : i # n => s[i] # h /\ i \in 1..(n - 1)
    BY <1>1 DEF Distinct, n
  <2>2. \A i \in 1..(n - 1) : i \in 1..n /\ i # n
    BY <1>1
  <2> QED
    BY <1>1, <1>2, <2>1, <2>2 DEF Blocks, n
<1>6. Threaded(m[h], m, f)
  <2>1. m[h] = IF f = <<>> THEN Nil ELSE f[Len(f)]
    <3>1. m[h] = IF n = 1 THEN Nil ELSE s[n - 1]
      <4>1. n \in 1..Len(s)
        BY <1>1 DEF n
      <4>2. m[s[n]] = IF n = 1 THEN Nil ELSE s[n - 1]
        BY <4>1, Zenon DEF Threaded
      <4> QED
        BY <1>1, <4>2
    <3>2. f = <<>> <=> n = 1
      <4>1. (f # <<>> => Len(f) \in Nat \ {0}) /\ Len(<<>>) = 0
        BY <1>2, EmptySeq, Zenon
      <4> QED
        BY <1>1, <1>2, <4>1
    <3>3. n # 1 => f[Len(f)] = s[n - 1]
      BY <1>1, <1>2
    <3> QED
      BY <3>1, <3>2, <3>3
  <2>2. ASSUME NEW i \in 1..Len(f) PROVE m[f[i]] = IF i = 1 THEN Nil ELSE f[i - 1]
    <3>1. i \in 1..n /\ f[i] = s[i] /\ (i # 1 => f[i - 1] = s[i - 1])
      BY <1>1, <1>2
    <3>2. m[s[i]] = IF i = 1 THEN Nil ELSE s[i - 1]
      BY <3>1 DEF Threaded, n
    <3> QED
      BY <3>1, <3>2
  <2> QED
    BY <2>1, <2>2 DEF Threaded
<1> QED
  BY <1>2, <1>3, <1>4, <1>5, <1>6 DEF f

-----------------------------------------------------------------------------
(* The invariant                                                           *)

\* The steps that change neither the list nor who has which block.
LEMMA Looking ==
  ASSUME Inv, UNCHANGED <<free_head, link, pusher, out, free>>, TypeOK', EngineKnows'
  PROVE  Inv'
<1>1. free_head' = free_head /\ link' = link /\ pusher' = pusher /\ out' = out /\ free' = free
  OBVIOUS
<1>2. BlocksConserved'
  BY <1>1 DEF Inv, BlocksConserved, Returning
<1>3. PushersLinked'
  BY <1>1 DEF Inv, PushersLinked, Returning
<1> QED
  BY <1>2, <1>3 DEF Inv

LEMMA AllocateSwap ==
  ASSUME Nil \notin Block, Inv, allocate_swap
  PROVE  Inv'
<1> USE DEF Inv
<1> DEFINE h == engine.head
<1>1. h \in Block /\ h \in Blocks(free) /\ engine.next = link[h] /\ free_head = h
  BY DEF allocate_swap, EngineKnows, TypeOK
<1>2. free \in Seq(Block) /\ Threaded(h, link, free) /\ Distinct(free)
  BY <1>1 DEF TypeOK, BlocksConserved
<1>3. /\ free' \in Seq(Block) /\ Threaded(free_head', link, free') /\ Distinct(free')
      /\ Blocks(free') = Blocks(free) \ {h}
  BY <1>1, <1>2, Popped DEF allocate_swap
<1>4. TypeOK'
  BY <1>1, <1>3 DEF allocate_swap, TypeOK
<1>5. out' = out \cup {h} /\ link' = link /\ pusher' = pusher
  BY DEF allocate_swap
<1> HIDE DEF h
<1>6. BlocksConserved'
  <2>1. out' \cup Blocks(free') = out \cup Blocks(free) /\ out' \cap Blocks(free') = {}
    BY <1>1, <1>3, <1>5 DEF BlocksConserved
  <2> QED
    BY <1>3, <1>5, <2>1 DEF BlocksConserved, Returning
<1>7. EngineKnows' /\ PushersLinked'
  BY <1>5 DEF allocate_swap, EngineKnows, PushersLinked, Returning
<1> QED
  BY <1>4, <1>6, <1>7

LEMMA Deallocate ==
  ASSUME Inv, NEW t \in Thread, deallocate(t)
  PROVE  Inv'
<1> USE DEF Inv
<1>1. PICK b \in out :
        /\ out' = out \ {b}
        /\ pusher' = [pusher EXCEPT ![t] = [at |-> "write", block |-> b, head |-> free_head]]
  BY DEF deallocate
<1>2. b \in Block /\ pusher[t].at = "idle" /\ UNCHANGED <<free_head, link, engine, free>>
  BY DEF deallocate, TypeOK
<1>3. TypeOK'
  BY <1>1, <1>2 DEF TypeOK
<1>4. /\ pusher'[t].at = "write" /\ pusher'[t].block = b
      /\ \A u \in Thread : u # t => pusher'[u] = pusher[u]
  BY <1>1 DEF TypeOK
<1>5. /\ Returning(t)' /\ ~Returning(t)
      /\ \A u \in Thread : u # t => (Returning(u)' <=> Returning(u))
  BY <1>2, <1>4 DEF Returning
<1>6. BlocksConserved'
  <2>1. Threaded(free_head, link, free)' /\ Distinct(free)' /\ (out \cap Blocks(free) = {})'
    BY <1>1, <1>2 DEF BlocksConserved
  <2>2. ASSUME NEW u \in Thread, Returning(u)'
        PROVE  /\ pusher'[u].block \notin out' \cup Blocks(free')
               /\ \A v \in Thread : Returning(v)' /\ v # u => pusher'[v].block # pusher'[u].block
    BY <1>1, <1>2, <1>4, <1>5, <2>2 DEF BlocksConserved
  <2>3. (Block = Blocks(free) \cup out \cup {pusher[u].block : u \in {v \in Thread : Returning(v)}})'
    BY <1>1, <1>2, <1>4, <1>5 DEF BlocksConserved
  <2> QED
    BY <2>1, <2>2, <2>3 DEF BlocksConserved
<1>7. EngineKnows' /\ PushersLinked'
  BY <1>2, <1>4, <1>5 DEF EngineKnows, PushersLinked
<1> QED
  BY <1>3, <1>6, <1>7

LEMMA DeallocateLink ==
  ASSUME Inv, NEW t \in Thread, deallocate_link(t)
  PROVE  Inv'
<1> USE DEF Inv
<1> DEFINE b == pusher[t].block
<1>1. Returning(t) /\ b \in Block /\ b \notin out \cup Blocks(free)
  BY DEF deallocate_link, Returning, PushersLinked, BlocksConserved
<1>2. /\ UNCHANGED <<free_head, engine, out, free>>
      /\ link' = [link EXCEPT ![b] = pusher[t].head]
      /\ link \in [Block -> Block \cup {Nil}] /\ pusher[t].head \in Block \cup {Nil}
  BY DEF deallocate_link, TypeOK
<1>3. TypeOK'
  BY <1>1, <1>2 DEF deallocate_link, TypeOK
<1>4. /\ pusher'[t].at = "swap" /\ pusher'[t].block = b /\ pusher'[t].head = pusher[t].head
      /\ \A u \in Thread : u # t => pusher'[u] = pusher[u]
  BY DEF deallocate_link, TypeOK
<1>5. \A u \in Thread : /\ Returning(u)' <=> Returning(u)
                        /\ pusher'[u].block = pusher[u].block
  BY <1>1, <1>4 DEF Returning
<1>6. Threaded(free_head', link', free')
  <2>1. free \in Seq(Block) /\ Threaded(free_head, link, free) /\ b \notin Blocks(free)
    BY <1>1 DEF TypeOK, BlocksConserved
  <2>2. Threaded(free_head, [link EXCEPT ![b] = pusher[t].head], free)
    BY <1>1, <1>2, <2>1, OtherWrite
  <2> QED
    BY <1>2, <2>2
<1> HIDE DEF b
<1>7. BlocksConserved'
  <2>1. Distinct(free)' /\ (out \cap Blocks(free) = {})'
    BY <1>2 DEF BlocksConserved
  <2>2. ASSUME NEW u \in Thread, Returning(u)'
        PROVE  /\ pusher'[u].block \notin out' \cup Blocks(free')
               /\ \A v \in Thread : Returning(v)' /\ v # u => pusher'[v].block # pusher'[u].block
    BY <1>2, <1>5, <2>2 DEF BlocksConserved
  <2>3. {pusher'[u].block : u \in {v \in Thread : Returning(v)'}}
          = {pusher[u].block : u \in {v \in Thread : Returning(v)}}
    BY <1>5
  <2> QED
    BY <1>2, <1>6, <2>1, <2>2, <2>3 DEF BlocksConserved
<1>8. EngineKnows'
  <2>1. engine.at = "swap" => engine.head # b /\ engine.head \in Block
    BY <1>1 DEF EngineKnows, TypeOK
  <2> QED
    BY <1>1, <1>2, <2>1 DEF EngineKnows
<1>9. PushersLinked'
  <2>1. \A u \in Thread : Returning(u) /\ u # t => pusher[u].block # b
    BY <1>1 DEF BlocksConserved, b
  <2>2. ASSUME NEW u \in Thread PROVE pusher'[u].at = "swap" => link'[pusher'[u].block] = pusher'[u].head
    <3>1. CASE u = t
      BY <1>1, <1>2, <1>4, <3>1
    <3>2. CASE u # t
      BY <1>1, <1>2, <1>4, <2>1, <3>2 DEF PushersLinked, Returning
    <3> QED
      BY <3>1, <3>2
  <2> QED
    BY <1>5, <2>2 DEF PushersLinked
<1> QED
  BY <1>3, <1>7, <1>8, <1>9

LEMMA DeallocateSwap ==
  ASSUME Inv, NEW t \in Thread, deallocate_swap(t)
  PROVE  Inv'
<1> USE DEF Inv
<1> DEFINE b == pusher[t].block
<1>1. /\ Returning(t) /\ b \in Block /\ b \notin out \cup Blocks(free)
      /\ link[b] = free_head
  BY DEF deallocate_swap, Returning, PushersLinked, BlocksConserved
<1>2. /\ UNCHANGED <<link, engine, out>> /\ free_head' = b /\ free' = Append(free, b)
  BY DEF deallocate_swap
<1>3. free \in Seq(Block) /\ Threaded(free_head, link, free) /\ Distinct(free)
  BY DEF TypeOK, BlocksConserved
<1>4. /\ free' \in Seq(Block) /\ Threaded(free_head', link, free') /\ Distinct(free')
      /\ Blocks(free') = Blocks(free) \cup {b}
  BY <1>1, <1>2, <1>3, Pushed
<1>5. TypeOK'
  BY <1>1, <1>2, <1>4 DEF deallocate_swap, TypeOK
<1>6. /\ pusher'[t].at = "idle" /\ \A u \in Thread : u # t => pusher'[u] = pusher[u]
  BY DEF deallocate_swap, TypeOK
<1>7. /\ ~Returning(t)' /\ \A u \in Thread : u # t => (Returning(u)' <=> Returning(u))
  BY <1>6 DEF Returning
<1>8. \A u \in Thread : Returning(u) /\ u # t => pusher[u].block # b
  BY <1>1 DEF BlocksConserved
<1>9. BlocksConserved'
  <2>1. out' \cap Blocks(free') = {}
    BY <1>1, <1>2, <1>4 DEF BlocksConserved
  <2>2. ASSUME NEW u \in Thread, Returning(u)'
        PROVE  /\ pusher'[u].block \notin out' \cup Blocks(free')
               /\ \A v \in Thread : Returning(v)' /\ v # u => pusher'[v].block # pusher'[u].block
    BY <1>2, <1>4, <1>6, <1>7, <1>8, <2>2 DEF BlocksConserved
  <2>3. {pusher[u].block : u \in {v \in Thread : Returning(v)}}
          = {pusher'[u].block : u \in {v \in Thread : Returning(v)'}} \cup {b}
    BY <1>1, <1>6, <1>7
  <2>4. Block = Blocks(free) \cup out \cup {pusher[u].block : u \in {v \in Thread : Returning(v)}}
    BY DEF BlocksConserved
  <2>5. Block = Blocks(free') \cup out'
                \cup {pusher'[u].block : u \in {v \in Thread : Returning(v)'}}
    BY <1>2, <1>4, <2>3, <2>4
  <2> QED
    BY <1>2, <1>4, <2>1, <2>2, <2>5 DEF BlocksConserved
<1> HIDE DEF b
<1>10. EngineKnows'
  BY <1>2, <1>4 DEF EngineKnows
<1>11. PushersLinked'
  <2>1. ASSUME NEW u \in Thread
        PROVE  /\ Returning(u)' => pusher'[u].block \in Block
               /\ pusher'[u].at = "swap" => link'[pusher'[u].block] = pusher'[u].head
    <3>1. CASE u = t
      BY <1>6, <1>7, <3>1
    <3>2. CASE u # t
      BY <1>2, <1>6, <1>7, <3>2 DEF PushersLinked
    <3> QED
      BY <3>1, <3>2
  <2> QED
    BY <2>1 DEF PushersLinked
<1> QED
  BY <1>5, <1>9, <1>10, <1>11

LEMMA DeallocateAgain ==
  ASSUME Inv, NEW t \in Thread, deallocate_again(t)
  PROVE  Inv'
<1> USE DEF Inv
<1>1. /\ UNCHANGED <<free_head, link, engine, out, free>> /\ Returning(t)
  BY DEF deallocate_again, Returning
<1>2. TypeOK'
  BY <1>1 DEF deallocate_again, TypeOK
<1>3. /\ pusher'[t].at = "write" /\ pusher'[t].block = pusher[t].block
      /\ \A u \in Thread : u # t => pusher'[u] = pusher[u]
  BY DEF deallocate_again, TypeOK
<1>4. \A u \in Thread : /\ Returning(u)' <=> Returning(u)
                        /\ pusher'[u].block = pusher[u].block
  BY <1>1, <1>3 DEF Returning
<1>5. BlocksConserved'
  <2>1. ASSUME NEW u \in Thread, Returning(u)'
        PROVE  /\ pusher'[u].block \notin out' \cup Blocks(free')
               /\ \A v \in Thread : Returning(v)' /\ v # u => pusher'[v].block # pusher'[u].block
    BY <1>1, <1>4, <2>1 DEF BlocksConserved
  <2>2. {pusher'[u].block : u \in {v \in Thread : Returning(v)'}}
          = {pusher[u].block : u \in {v \in Thread : Returning(v)}}
    BY <1>4
  <2> QED
    BY <1>1, <2>1, <2>2 DEF BlocksConserved
<1>6. EngineKnows'
  BY <1>1 DEF EngineKnows
<1>7. PushersLinked'
  <2>1. ASSUME NEW u \in Thread
        PROVE  /\ Returning(u)' => pusher'[u].block \in Block
               /\ pusher'[u].at = "swap" => link'[pusher'[u].block] = pusher'[u].head
    <3>1. CASE u = t
      BY <1>1, <1>3, <1>4, <3>1 DEF PushersLinked
    <3>2. CASE u # t
      BY <1>1, <1>3, <1>4, <3>2 DEF PushersLinked
    <3> QED
      BY <3>1, <3>2
  <2> QED
    BY <2>1 DEF PushersLinked
<1> QED
  BY <1>2, <1>5, <1>6, <1>7

LEMMA Use ==
  ASSUME Inv, use
  PROVE  Inv'
<1> USE DEF Inv
<1>1. PICK b \in out, word \in Block \cup {Nil} : link' = [link EXCEPT ![b] = word]
  BY DEF use
<1>2. /\ UNCHANGED <<free_head, engine, pusher, out, free>>
      /\ b \in Block /\ b \notin Blocks(free) /\ link \in [Block -> Block \cup {Nil}]
      /\ free \in Seq(Block) /\ Threaded(free_head, link, free)
  BY DEF use, TypeOK, BlocksConserved
<1>3. TypeOK'
  BY <1>1, <1>2 DEF TypeOK
<1>4. Threaded(free_head', link', free')
  <2>1. Threaded(free_head, [link EXCEPT ![b] = word], free)
    BY <1>2, OtherWrite
  <2> QED
    BY <1>1, <1>2, <2>1
<1>5. BlocksConserved'
  BY <1>2, <1>4 DEF BlocksConserved, Returning
<1>6. EngineKnows'
  BY <1>1, <1>2 DEF EngineKnows, TypeOK
<1>7. PushersLinked'
  <2>1. \A t \in Thread : Returning(t) => pusher[t].block # b
    BY DEF BlocksConserved
  <2> QED
    BY <1>1, <1>2, <2>1 DEF PushersLinked, Returning
<1> QED
  BY <1>3, <1>5, <1>6, <1>7

\* Every step of every thread keeps the free list and the owners of the
\* blocks consistent, for any number of blocks and threads.  It rests on
\* EngineKnows, which holds because the engine is the only one to pop: the
\* block it looked at is still in the list, so its successor is still the one
\* that was read.
LEMMA Inductive ==
  ASSUME Nil \notin Block, Inv, [Next]_vars
  PROVE  Inv'
<1>1. CASE allocate
  <2>1. TypeOK'
    BY <1>1 DEF Inv, TypeOK, allocate
  <2>2. EngineKnows'
    <3>1. free_head # Nil => free_head \in Blocks(free)
      <4>1. free_head # Nil => free # <<>> /\ free_head = free[Len(free)]
        BY DEF Inv, BlocksConserved, Threaded
      <4>2. free \in Seq(Block)
        BY DEF Inv, TypeOK
      <4>3. free # <<>> => Len(free) \in 1..Len(free)
        BY <4>2, EmptySeq
      <4> QED
        BY <4>1, <4>3 DEF Blocks
    <3> QED
      BY <1>1, <3>1 DEF allocate, EngineKnows
  <2> QED
    BY <1>1, <2>1, <2>2, Looking DEF allocate
<1>2. CASE allocate_overflows
  <2>1. TypeOK' /\ EngineKnows'
    BY <1>2 DEF Inv, TypeOK, EngineKnows, allocate_overflows
  <2> QED
    BY <1>2, <2>1, Looking DEF allocate_overflows
<1>3. CASE allocate_next
  <2>1. TypeOK' /\ EngineKnows'
    BY <1>3 DEF Inv, TypeOK, EngineKnows, allocate_next
  <2> QED
    BY <1>3, <2>1, Looking DEF allocate_next
<1>4. CASE allocate_swap
  BY <1>4, AllocateSwap
<1>5. CASE allocate_again
  <2>1. TypeOK'
    BY <1>5 DEF Inv, TypeOK, allocate_again
  <2>2. EngineKnows'
    <3>1. free_head # Nil => free_head \in Blocks(free)
      <4>1. free_head # Nil => free # <<>> /\ free_head = free[Len(free)]
        BY DEF Inv, BlocksConserved, Threaded
      <4>2. free \in Seq(Block)
        BY DEF Inv, TypeOK
      <4>3. free # <<>> => Len(free) \in 1..Len(free)
        BY <4>2, EmptySeq
      <4> QED
        BY <4>1, <4>3 DEF Blocks
    <3> QED
      BY <1>5, <3>1 DEF allocate_again, EngineKnows
  <2> QED
    BY <1>5, <2>1, <2>2, Looking DEF allocate_again
<1>6. ASSUME NEW t \in Thread,
             deallocate(t) \/ deallocate_link(t) \/ deallocate_swap(t) \/ deallocate_again(t)
      PROVE  Inv'
  BY <1>6, Deallocate, DeallocateLink, DeallocateSwap, DeallocateAgain
<1>7. CASE use
  BY <1>7, Use
<1>8. CASE UNCHANGED vars
  <2>1. TypeOK' /\ EngineKnows'
    BY <1>8 DEF Inv, TypeOK, EngineKnows, vars
  <2> QED
    BY <1>8, <2>1, Looking DEF vars
<1> QED
  BY <1>1, <1>2, <1>3, <1>4, <1>5, <1>6, <1>7, <1>8 DEF Next

\* No block is leased twice, lost, or linked to a stale successor, however the
\* engine's allocate() and the deallocate() of any number of threads interleave.
THEOREM PoolConserved ==
  ASSUME Nil \notin Block
  PROVE  Spec => []BlocksConserved
<1>1. Init => Inv
  BY DEF Init, Inv, TypeOK, BlocksConserved, EngineKnows, PushersLinked, Returning
<1>2. Inv /\ [Next]_vars => Inv'
  BY Inductive
<1>3. Inv => BlocksConserved
  BY DEF Inv
<1> QED
  BY <1>1, <1>2, <1>3, PTL DEF Spec
=============================================================================
