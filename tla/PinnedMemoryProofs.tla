-------------------------- MODULE PinnedMemoryProofs --------------------------
(***************************************************************************)
(* The budget of pinned memory holds for any number of regions, of any     *)
(* lengths, under any limits.                                              *)
(***************************************************************************)
EXTENDS PinnedMemory, FiniteSetTheorems, TLAPS

\* Constants as the code has them: lengths and limits are numbers.
Budgets(budget) ==
  /\ budget \in Nat /\ U64 \in Nat /\ Length \subseteq Nat
  /\ limit \in [Region -> Nat] /\ \A r \in Region : limit[r] <= budget

\* Of a set U, the part A is replaced by X, which is not in the rest of U.
Replaced(U, A, X) == (U \ A) \cup X
Separate(U, A, X) == A \subseteq U /\ X \cap (U \ A) = {}

\* One region's charge is replaced.
LEMMA Recharge ==
  ASSUME TypeOK, NEW r \in Region, NEW X,
         \A s \in Region : s # r => charge[s] \cap charge[r] = {},
         charge' = [charge EXCEPT ![r] = X]
  PROVE  Charged' = Replaced(Charged, charge[r], X)
<1>1. /\ charge'[r] = X /\ \A s \in Region : s # r => charge'[s] = charge[s]
  BY DEF TypeOK
<1>2. ASSUME NEW b \in Charged' PROVE b \in (Charged \ charge[r]) \cup X
  <2>1. PICK s \in Region : b \in charge'[s]
    BY <1>2 DEF Charged
  <2> QED
    BY <1>1, <2>1 DEF Charged
<1>3. ASSUME NEW b \in (Charged \ charge[r]) \cup X PROVE b \in Charged'
  <2>1. CASE b \in X
    BY <1>1, <2>1 DEF Charged
  <2>2. CASE b \in Charged \ charge[r]
    <3>1. PICK s \in Region : b \in charge[s]
      BY <2>2 DEF Charged
    <3>2. b \in charge'[s]
      BY <1>1, <2>2, <3>1
    <3> QED
      BY <3>2 DEF Charged
  <2> QED
    BY <1>3, <2>1, <2>2
<1> QED
  BY <1>2, <1>3 DEF Replaced

LEMMA Sizes ==
  ASSUME NEW U, IsFiniteSet(U), NEW A \in SUBSET U, NEW X, IsFiniteSet(X), X \cap (U \ A) = {}
  PROVE  /\ IsFiniteSet((U \ A) \cup X)
         /\ Size((U \ A) \cup X) = Size(U) - Size(A) + Size(X)
         /\ Size(U) \in Nat /\ Size(A) \in Nat /\ Size(X) \in Nat /\ Size(A) <= Size(U)
<1> USE DEF Size
<1>1. IsFiniteSet(A) /\ Cardinality(A) <= Cardinality(U)
  BY FS_Subset
<1>2. Cardinality(U) \in Nat /\ Cardinality(A) \in Nat /\ Cardinality(X) \in Nat
  BY <1>1, FS_CardinalityType
<1>3. U \cap A = A
  OBVIOUS
<1>4. IsFiniteSet(U \ A) /\ Cardinality(U \ A) = Cardinality(U) - Cardinality(A)
  BY <1>1, <1>3, FS_Difference
<1>5. (U \ A) \cap X = {} /\ Cardinality({}) = 0
  BY FS_EmptySet
<1>6. /\ IsFiniteSet((U \ A) \cup X)
      /\ Cardinality((U \ A) \cup X) = Cardinality(U \ A) + Cardinality(X) - Cardinality((U \ A) \cap X)
  BY <1>4, FS_Union
<1>7. Cardinality((U \ A) \cap X) = 0
  BY <1>5, Zenon
<1>8. Cardinality((U \ A) \cup X) = Cardinality(U) - Cardinality(A) + Cardinality(X)
  BY <1>2, <1>4, <1>6, <1>7
<1> QED
  BY <1>1, <1>2, <1>6, <1>8

LEMMA SizeOfRecharge ==
  ASSUME NEW U, IsFiniteSet(U), NEW A, NEW X, IsFiniteSet(X), Separate(U, A, X)
  PROVE  /\ IsFiniteSet(Replaced(U, A, X))
         /\ Size(Replaced(U, A, X)) = Size(U) - Size(A) + Size(X)
         /\ Size(U) \in Nat /\ Size(A) \in Nat /\ Size(X) \in Nat /\ Size(A) <= Size(U)
BY Sizes DEF Replaced, Separate

\* A step of one region keeps the invariant if it does so for that region.
LEMMA Local ==
  ASSUME NEW budget, Inv(budget), NEW r \in Region, TypeOK', Holds(r)',
         \A s \in Region : s # r =>
           /\ at'[s] = at[s] /\ call'[s] = call[s] /\ charge'[s] = charge[s] /\ pages'[s] = pages[s]
           /\ (charge'[r] \cup pages'[r]) \cap (charge[s] \cup pages[s]) = {},
         IsFiniteSet(Charged'), total' = Size(Charged'), total' <= budget
  PROVE  Inv(budget)'
<1>1. Apart'
  BY DEF Inv, Apart
<1>2. \A s \in Region : Holds(s)'
  BY DEF Inv, Holds
<1> QED
  BY <1>1, <1>2 DEF Inv

LEMMA Quiet ==
  ASSUME NEW budget, Inv(budget), NEW r \in Region, TypeOK', Holds(r)', UNCHANGED <<total, charge>>,
         \A s \in Region : s # r =>
           /\ at'[s] = at[s] /\ call'[s] = call[s] /\ pages'[s] = pages[s]
           /\ (charge[r] \cup pages'[r]) \cap (charge[s] \cup pages[s]) = {}
  PROVE  Inv(budget)'
<1>1. Charged' = Charged
  BY DEF Charged
<1>2. IsFiniteSet(Charged') /\ total' = Size(Charged') /\ total' <= budget
  BY <1>1 DEF Inv
<1> QED
  BY <1>2, Local

\* Steps that leave the counter and the charges alone.
LEMMA QuietSteps ==
  ASSUME NEW budget, Budgets(budget), Inv(budget), NEW r \in Region,
         \/ try_acquire(r) \/ reserve_again(r) \/ reserve_refused(r)
         \/ ucp_mem_map(r) \/ ucp_mem_map_adopted(r) \/ ucp_mem_map_failed(r)
         \/ ucp_mem_query(r) \/ ucp_mem_query_failed(r)
         \/ release(r) \/ ucp_mem_unmap(r) \/ discharge_again(r)
  PROVE  Inv(budget)'
<1>1. /\ TypeOK /\ Apart /\ Holds(r)
  BY DEF Inv
<1>2. /\ Size(charge[r]) \in Nat /\ Size(pages[r]) \in Nat
  BY <1>1, FS_CardinalityType DEF Holds, Size
<1>3. \A s \in Region : s # r => (charge[r] \cup pages[r]) \cap (charge[s] \cup pages[s]) = {}
  BY <1>1 DEF Apart
<1>4. CASE try_acquire(r)
  <2>1. TypeOK'
    BY <1>1, <1>4 DEF try_acquire, TypeOK, Budgets
  <2>2. Holds(r)'
    BY <1>1, <1>4 DEF try_acquire, TypeOK, Holds
  <2>3. \A s \in Region : s # r => at'[s] = at[s] /\ call'[s] = call[s]
    BY <1>1, <1>4 DEF try_acquire, TypeOK
  <2> QED
    BY <1>3, <1>4, <2>1, <2>2, <2>3, Quiet DEF try_acquire
<1>5. CASE reserve_again(r)
  <2>1. TypeOK'
    BY <1>1, <1>5 DEF reserve_again, TypeOK
  <2>2. Holds(r)'
    BY <1>1, <1>5 DEF reserve_again, TypeOK, Holds
  <2>3. \A s \in Region : s # r => call'[s] = call[s]
    BY <1>1, <1>5 DEF reserve_again, TypeOK
  <2> QED
    BY <1>3, <1>5, <2>1, <2>2, <2>3, Quiet DEF reserve_again
<1>6. CASE reserve_refused(r)
  <2>1. TypeOK'
    BY <1>1, <1>6 DEF reserve_refused, TypeOK, NoCall
  <2>2. Holds(r)'
    BY <1>1, <1>6 DEF reserve_refused, TypeOK, Holds
  <2>3. \A s \in Region : s # r => at'[s] = at[s] /\ call'[s] = call[s]
    BY <1>1, <1>6 DEF reserve_refused, TypeOK
  <2> QED
    BY <1>3, <1>6, <2>1, <2>2, <2>3, Quiet DEF reserve_refused
<1>7. CASE ucp_mem_map(r)
  <2>1. PICK extra \in SUBSET Byte : Fresh(extra) /\ pages' = [pages EXCEPT ![r] = charge[r] \cup extra]
    BY <1>7 DEF ucp_mem_map
  <2>2. pages'[r] = charge[r] \cup extra /\ \A s \in Region : s # r => pages'[s] = pages[s]
    BY <1>1, <2>1 DEF TypeOK
  <2>3. IsFiniteSet(pages'[r])
    <3>1. IsFiniteSet(charge[r]) /\ IsFiniteSet(extra)
      BY <1>1, <2>1 DEF Holds, Fresh
    <3>2. IsFiniteSet(charge[r] \cup extra)
      BY <3>1, FS_Union
    <3> QED
      BY <2>2, <3>2
  <2>4. TypeOK'
    BY <1>1, <1>7, <2>1 DEF ucp_mem_map, TypeOK
  <2>5. Holds(r)'
    BY <1>1, <1>7, <2>2, <2>3 DEF ucp_mem_map, TypeOK, Holds
  <2>6. \A s \in Region : s # r =>
           at'[s] = at[s] /\ (charge[r] \cup pages'[r]) \cap (charge[s] \cup pages[s]) = {}
    BY <1>1, <1>3, <1>7, <2>1, <2>2 DEF ucp_mem_map, TypeOK, Fresh
  <2> QED
    BY <1>7, <2>2, <2>4, <2>5, <2>6, Quiet DEF ucp_mem_map
<1>8. CASE ucp_mem_map_adopted(r)
  <2>1. TypeOK'
    BY <1>1, <1>8 DEF ucp_mem_map_adopted, TypeOK
  <2>2. pages'[r] = charge[r] /\ \A s \in Region : s # r => at'[s] = at[s] /\ pages'[s] = pages[s]
    BY <1>1, <1>8 DEF ucp_mem_map_adopted, TypeOK
  <2>3. Holds(r)'
    BY <1>1, <1>8, <2>2 DEF ucp_mem_map_adopted, TypeOK, Holds
  <2> QED
    BY <1>3, <1>8, <2>1, <2>2, <2>3, Quiet DEF ucp_mem_map_adopted
<1>9. CASE ucp_mem_map_failed(r) \/ ucp_mem_query_failed(r) \/ release(r)
  <2>1. TypeOK' /\ UNCHANGED <<total, call, charge, pages>>
    BY <1>1, <1>9 DEF ucp_mem_map_failed, ucp_mem_query_failed, release, TypeOK
  <2>2. at'[r] = "unmapping" /\ \A s \in Region : s # r => at'[s] = at[s]
    BY <1>1, <1>9 DEF ucp_mem_map_failed, ucp_mem_query_failed, release, TypeOK
  <2>3. Holds(r)'
    BY <1>1, <2>1, <2>2 DEF Holds
  <2> QED
    BY <1>3, <2>1, <2>2, <2>3, Quiet
<1>10. CASE ucp_mem_query(r)
  <2>1. CASE Size(pages[r]) > Size(charge[r])
    <3>1. Size(pages[r]) - Size(charge[r]) \in Nat
      BY <1>2, <2>1
    <3>2. TypeOK'
      BY <1>1, <1>10, <2>1, <3>1 DEF ucp_mem_query, TypeOK
    <3>3. /\ at'[r] = "extending" /\ call'[r].bytes = Size(pages[r]) - Size(charge[r])
          /\ \A s \in Region : s # r => at'[s] = at[s] /\ call'[s] = call[s]
      BY <1>1, <1>10, <2>1 DEF ucp_mem_query, TypeOK
    <3>4. Holds(r)'
      BY <1>1, <1>10, <3>3 DEF ucp_mem_query, Holds
    <3> QED
      BY <1>3, <1>10, <3>2, <3>3, <3>4, Quiet DEF ucp_mem_query
  <2>2. CASE ~(Size(pages[r]) > Size(charge[r]))
    <3>1. TypeOK'
      BY <1>1, <1>10, <2>2 DEF ucp_mem_query, TypeOK
    <3>2. /\ at'[r] = "ready" /\ \A s \in Region : s # r => at'[s] = at[s]
      BY <1>1, <1>10, <2>2 DEF ucp_mem_query, TypeOK
    <3>3. pages[r] = charge[r]
      <4>1. charge[r] \in SUBSET pages[r] /\ IsFiniteSet(pages[r])
        BY <1>1, <1>10 DEF ucp_mem_query, Holds
      <4>2. Cardinality(charge[r]) <= Cardinality(pages[r])
            /\ (Cardinality(pages[r]) = Cardinality(charge[r]) => pages[r] = charge[r])
        BY <4>1, FS_Subset
      <4> QED
        BY <1>2, <2>2, <4>2 DEF Size
    <3>4. Holds(r)'
      BY <1>1, <1>10, <3>2, <3>3 DEF ucp_mem_query, Holds
    <3> QED
      BY <1>3, <1>10, <2>2, <3>1, <3>2, <3>4, Quiet DEF ucp_mem_query
  <2> QED
    BY <2>1, <2>2
<1>11. CASE ucp_mem_unmap(r)
  <2>1. TypeOK'
    BY <1>1, <1>2, <1>11 DEF ucp_mem_unmap, TypeOK
  <2>2. /\ at'[r] = "discharging" /\ pages'[r] = {} /\ call'[r].bytes = Size(charge[r])
        /\ \A s \in Region : s # r => at'[s] = at[s] /\ call'[s] = call[s] /\ pages'[s] = pages[s]
    BY <1>1, <1>11 DEF ucp_mem_unmap, TypeOK
  <2>3. Holds(r)'
    BY <1>1, <1>11, <2>2, FS_EmptySet DEF ucp_mem_unmap, Holds
  <2> QED
    BY <1>3, <1>11, <2>1, <2>2, <2>3, Quiet DEF ucp_mem_unmap
<1>12. CASE discharge_again(r)
  <2>1. TypeOK'
    BY <1>1, <1>12 DEF discharge_again, TypeOK
  <2>2. Holds(r)'
    BY <1>1, <1>12 DEF discharge_again, TypeOK, Holds
  <2>3. \A s \in Region : s # r => call'[s] = call[s]
    BY <1>1, <1>12 DEF discharge_again, TypeOK
  <2> QED
    BY <1>3, <1>12, <2>1, <2>2, <2>3, Quiet DEF discharge_again
<1> QED
  BY <1>4, <1>5, <1>6, <1>7, <1>8, <1>9, <1>10, <1>11, <1>12

\* try_reserve() succeeds: the bytes it adds to the counter are the region's.
LEMMA ReserveSwap ==
  ASSUME NEW budget, Budgets(budget), Inv(budget), NEW r \in Region, reserve_swap(r)
  PROVE  Inv(budget)'
<1>1. /\ TypeOK /\ Apart /\ Holds(r) /\ IsFiniteSet(Charged) /\ total = Size(Charged)
  BY DEF Inv
<1>2. /\ call[r].bytes \in Nat /\ total \in Nat /\ limit[r] \in Nat /\ limit[r] <= budget /\ budget \in Nat
  BY <1>1 DEF TypeOK, Budgets
<1>3. total' = total + call[r].bytes /\ total' <= budget /\ total' \in Nat
  BY <1>2 DEF reserve_swap, Refused
<1>4. PICK X \in SUBSET Byte :
        /\ charge' = [charge EXCEPT ![r] = X] /\ IsFiniteSet(X)
        /\ Size(X) = Size(charge[r]) + call[r].bytes
        /\ \A s \in Region : s # r => (X \cup pages[r]) \cap (charge[s] \cup pages[s]) = {}
        /\ \/ at[r] = "admitting" /\ at' = [at EXCEPT ![r] = "mapping"]
           \/ at[r] = "extending" /\ at' = [at EXCEPT ![r] = "ready"] /\ X = pages[r]
  <2>1. CASE at[r] = "admitting"
    <3>1. PICK S \in SUBSET Byte : /\ Fresh(S) /\ Size(S) = call[r].bytes
                                   /\ charge' = [charge EXCEPT ![r] = S]
                                   /\ at' = [at EXCEPT ![r] = "mapping"]
      BY <2>1 DEF reserve_swap
    <3>2. charge[r] = {} /\ pages[r] = {} /\ Size(charge[r]) = 0
      BY <1>1, <2>1, FS_EmptySet DEF Holds, Size
    <3>3. \A s \in Region : s # r => (S \cup pages[r]) \cap (charge[s] \cup pages[s]) = {}
      BY <3>1, <3>2 DEF Fresh
    <3>4. IsFiniteSet(S) /\ Size(S) = Size(charge[r]) + call[r].bytes
      BY <1>2, <3>1, <3>2 DEF Fresh
    <3> QED
      BY <2>1, <3>1, <3>3, <3>4
  <2>2. CASE at[r] = "extending"
    <3>1. /\ charge' = [charge EXCEPT ![r] = pages[r]] /\ at' = [at EXCEPT ![r] = "ready"]
          /\ IsFiniteSet(pages[r]) /\ IsFiniteSet(charge[r]) /\ pages[r] \in SUBSET Byte
          /\ call[r].bytes = Size(pages[r]) - Size(charge[r])
      BY <1>1, <2>2 DEF reserve_swap, Holds, TypeOK
    <3>2. Size(pages[r]) \in Nat /\ Size(charge[r]) \in Nat
      BY <3>1, FS_CardinalityType DEF Size
    <3>3. Size(pages[r]) = Size(charge[r]) + call[r].bytes
      BY <3>1, <3>2
    <3>4. \A s \in Region : s # r => (pages[r] \cup pages[r]) \cap (charge[s] \cup pages[s]) = {}
      BY <1>1 DEF Apart
    <3> QED
      BY <2>2, <3>1, <3>3, <3>4
  <2> QED
    BY <2>1, <2>2 DEF reserve_swap
<1>5. /\ charge'[r] = X /\ \A s \in Region : s # r => charge'[s] = charge[s] /\ at'[s] = at[s]
  BY <1>1, <1>4 DEF TypeOK
<1>6. UNCHANGED pages /\ call' = [call EXCEPT ![r] = NoCall]
  BY DEF reserve_swap
<1>7. \A s \in Region : s # r => call'[s] = call[s]
  BY <1>1, <1>6 DEF TypeOK
<1>8. TypeOK'
  BY <1>1, <1>3, <1>4, <1>6 DEF TypeOK, NoCall
<1>9. Holds(r)'
  <2>1. CASE at[r] = "admitting" /\ at' = [at EXCEPT ![r] = "mapping"]
    BY <1>1, <1>4, <1>5, <1>6, <2>1 DEF Holds, TypeOK
  <2>2. CASE at[r] = "extending" /\ at' = [at EXCEPT ![r] = "ready"] /\ X = pages[r]
    BY <1>1, <1>4, <1>5, <1>6, <2>2 DEF Holds, TypeOK
  <2> QED
    BY <1>4, <2>1, <2>2
<1>10. Charged' = Replaced(Charged, charge[r], X)
  <2>1. \A s \in Region : s # r => charge[s] \cap charge[r] = {}
    BY <1>1 DEF Apart
  <2> QED
    BY <1>1, <1>4, <2>1, Recharge
<1>11. IsFiniteSet(Charged') /\ total' = Size(Charged')
  <2>1. charge[r] \subseteq Charged
    BY DEF Charged
  <2>2. Separate(Charged, charge[r], X)
    BY <1>4, <2>1 DEF Charged, Separate
  <2>3. /\ IsFiniteSet(Replaced(Charged, charge[r], X))
        /\ Size(Replaced(Charged, charge[r], X)) = Size(Charged) - Size(charge[r]) + Size(X)
        /\ Size(Charged) \in Nat /\ Size(charge[r]) \in Nat
    <3>1. IsFiniteSet(Charged) /\ IsFiniteSet(X)
      BY <1>1, <1>4
    <3> QED
      BY <2>2, <3>1, SizeOfRecharge
  <2>4. Size(Charged') = Size(Replaced(Charged, charge[r], X)) /\ IsFiniteSet(Charged')
    BY <1>10, <2>3
  <2> QED
    BY <1>1, <1>2, <1>3, <1>4, <2>3, <2>4
<1> QED
  BY <1>3, <1>4, <1>5, <1>6, <1>7, <1>8, <1>9, <1>11, Local

\* The charge is given back: the counter never meets its clamp to zero.
LEMMA DischargeSwap ==
  ASSUME NEW budget, Budgets(budget), Inv(budget), NEW r \in Region, discharge_swap(r)
  PROVE  Inv(budget)'
<1>1. /\ TypeOK /\ Apart /\ Holds(r) /\ IsFiniteSet(Charged) /\ total = Size(Charged) /\ total <= budget
  BY DEF Inv
<1>2. /\ charge' = [charge EXCEPT ![r] = {}] /\ UNCHANGED pages /\ pages[r] = {}
      /\ call[r].bytes = Size(charge[r]) /\ at' = [at EXCEPT ![r] = "none"]
      /\ call' = [call EXCEPT ![r] = NoCall]
  BY <1>1 DEF discharge_swap, Holds
<1>3. /\ charge'[r] = {} /\ at'[r] = "none"
      /\ \A s \in Region : s # r => charge'[s] = charge[s] /\ at'[s] = at[s] /\ call'[s] = call[s]
  BY <1>1, <1>2 DEF TypeOK
<1>4. Charged' = Replaced(Charged, charge[r], {})
  <2>1. \A s \in Region : s # r => charge[s] \cap charge[r] = {}
    BY <1>1 DEF Apart
  <2> QED
    BY <1>1, <1>2, <2>1, Recharge
<1>5. IsFiniteSet({}) /\ Size({}) = 0
  BY FS_EmptySet DEF Size
<1>6. /\ IsFiniteSet(Replaced(Charged, charge[r], {}))
      /\ Size(Replaced(Charged, charge[r], {})) = Size(Charged) - Size(charge[r]) + Size({})
      /\ Size(Charged) \in Nat /\ Size(charge[r]) \in Nat /\ Size(charge[r]) <= Size(Charged)
  <2>1. charge[r] \subseteq Charged
    BY DEF Charged
  <2>2. Separate(Charged, charge[r], {})
    BY <2>1 DEF Separate
  <2> QED
    BY <1>1, <1>5, <2>2, SizeOfRecharge
<1>7. total' = total - Size(charge[r]) /\ total' \in Nat /\ total' <= budget
  BY <1>1, <1>2, <1>6 DEF discharge_swap, Budgets
<1>8. IsFiniteSet(Charged') /\ total' = Size(Charged')
  <2>1. Size(Charged') = Size(Replaced(Charged, charge[r], {})) /\ IsFiniteSet(Charged')
    BY <1>4, <1>6
  <2> QED
    BY <1>1, <1>5, <1>6, <1>7, <2>1
<1>9. TypeOK'
  BY <1>1, <1>2, <1>7 DEF TypeOK, NoCall
<1>10. Holds(r)'
  BY <1>1, <1>2, <1>3, <1>5 DEF Holds
<1>11. \A s \in Region : s # r => (charge'[r] \cup pages'[r]) \cap (charge[s] \cup pages[s]) = {}
  BY <1>2, <1>3
<1> QED
  BY <1>2, <1>3, <1>7, <1>8, <1>9, <1>10, <1>11, Local

LEMMA Move ==
  ASSUME NEW budget, Inv(budget), NEW r \in Region, NEW s \in Region, move(r, s)
  PROVE  Inv(budget)'
<1>1. /\ TypeOK /\ Apart /\ Holds(r) /\ Holds(s)
  BY DEF Inv
<1>2. r # s /\ charge[s] = {} /\ pages[s] = {}
  BY <1>1 DEF move, Holds
<1>3. TypeOK'
  BY <1>1 DEF move, TypeOK
<1>4. /\ at'[r] = "none" /\ charge'[r] = {} /\ pages'[r] = {}
      /\ at'[s] = "ready" /\ charge'[s] = charge[r] /\ pages'[s] = pages[r]
      /\ UNCHANGED <<total, call>>
      /\ \A u \in Region : u # r /\ u # s =>
           at'[u] = at[u] /\ charge'[u] = charge[u] /\ pages'[u] = pages[u]
  BY <1>1, <1>2 DEF move, TypeOK
<1>5. Apart'
  BY <1>1, <1>2, <1>4 DEF Apart
<1>6. \A u \in Region : Holds(u)'
  <2>1. Holds(r)'
    BY <1>4, FS_EmptySet DEF Holds
  <2>2. Holds(s)'
    BY <1>1, <1>4 DEF Holds, move
  <2>3. ASSUME NEW u \in Region, u # r, u # s PROVE Holds(u)'
    BY <1>4, <2>3 DEF Inv, Holds
  <2> QED
    BY <2>1, <2>2, <2>3
<1>7. Charged' = Charged
  <2>1. ASSUME NEW b \in Charged PROVE b \in Charged'
    <3>1. PICK u \in Region : b \in charge[u]
      BY <2>1 DEF Charged
    <3>2. \E v \in Region : b \in charge'[v]
      BY <1>2, <1>4, <3>1
    <3> QED
      BY <3>2 DEF Charged
  <2>2. ASSUME NEW b \in Charged' PROVE b \in Charged
    <3>1. PICK u \in Region : b \in charge'[u]
      BY <2>2 DEF Charged
    <3>2. \E v \in Region : b \in charge[v]
      BY <1>2, <1>4, <3>1
    <3> QED
      BY <3>2 DEF Charged
  <2> QED
    BY <2>1, <2>2
<1> QED
  BY <1>3, <1>4, <1>5, <1>6, <1>7 DEF Inv

\* What the invariant says of the budget.
LEMMA InvBudget ==
  ASSUME NEW budget, Inv(budget)
  PROVE  WithinBudget(budget)
<1>1. Pinned \subseteq Charged
  BY DEF Inv, Holds, Pinned, Charged
<1>2. Size(Pinned) <= total
  BY <1>1, FS_Subset DEF Inv, Size
<1>3. ASSUME NEW r \in Region, at[r] = "discharging" PROVE call[r].bytes <= total
  <2>1. charge[r] \in SUBSET Charged /\ IsFiniteSet(Charged)
    BY DEF Charged, Inv
  <2>2. Size(charge[r]) <= Size(Charged)
    BY <2>1, FS_Subset DEF Size
  <2> QED
    BY <1>3, <2>2 DEF Inv, Holds
<1> QED
  BY <1>1, <1>2, <1>3 DEF WithinBudget, Inv

\* However many regions are reserved, extended, refused, moved and released at
\* once, the process counter is exactly what they are charged for, it never
\* passes the largest limit, and the memory pinned for the regions handed out
\* never exceeds it (try_reserve(), release(), ucx_allocated(), adopted()).
THEOREM BudgetKept ==
  ASSUME NEW CONSTANT budget, Budgets(budget)
  PROVE  Spec => []WithinBudget(budget)
<1>1. Init => Inv(budget)
  <2> SUFFICES ASSUME Init PROVE Inv(budget)
    OBVIOUS
  <2>1. Charged = {}
    BY DEF Init, Charged
  <2>2. IsFiniteSet(Charged) /\ Size(Charged) = 0
    BY <2>1, FS_EmptySet DEF Size
  <2>3. TypeOK /\ Apart
    BY DEF Init, TypeOK, NoCall, Apart
  <2>4. \A r \in Region : Holds(r)
    BY FS_EmptySet DEF Init, Holds
  <2> QED
    BY <2>2, <2>3, <2>4 DEF Inv, Init, Budgets
<1>2. Inv(budget) /\ [Next]_vars => Inv(budget)'
  <2> SUFFICES ASSUME Inv(budget), [Next]_vars PROVE Inv(budget)'
    OBVIOUS
  <2>1. ASSUME NEW r \in Region, Step(r) PROVE Inv(budget)'
    BY <2>1, QuietSteps, ReserveSwap, DischargeSwap DEF Step
  <2>2. ASSUME NEW r \in Region, NEW s \in Region, move(r, s) PROVE Inv(budget)'
    BY <2>2, Move
  <2>3. CASE UNCHANGED vars
    BY <2>3 DEF vars, Inv, TypeOK, Apart, Holds, Charged
  <2> QED
    BY <2>1, <2>2, <2>3 DEF Next
<1>3. Inv(budget) => WithinBudget(budget)
  BY InvBudget
<1> QED
  BY <1>1, <1>2, <1>3, PTL DEF Spec
=============================================================================
