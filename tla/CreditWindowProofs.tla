-------------------------- MODULE CreditWindowProofs --------------------------
(***************************************************************************)
(* Facts about the ReleaseTracker operators of CreditWindow for every ring *)
(* depth.  The bitmap has one bit per residue, so everything rests on two  *)
(* facts about remainders: within one lap they are distinct, and a lap     *)
(* later they repeat.                                                      *)
(***************************************************************************)
EXTENDS CreditWindow, FiniteSetTheorems, FunctionTheorems, WellFoundedInduction, TLAPS

(* Every non-empty set of naturals has a least element.                    *)
LEMMA LeastNatural ==
  ASSUME NEW T \in SUBSET Nat, T # {}
  PROVE  \E n \in T : \A k \in T : n <= k
<1> DEFINE R == {ss \in Nat \X Nat : ss[1] < ss[2]}
<1>1. OpToRel(<, Nat) = R
  BY DEF OpToRel
<1>2. IsWellFoundedOn(R, Nat)
  BY <1>1, NatLessThanWellFounded
<1> HIDE DEF R
<1>3. PICK n \in T : \A k \in T : <<k, n>> \notin R
  BY <1>2, WFMin
<1>4. \A k \in T : n <= k
  <2> SUFFICES ASSUME NEW k \in T, k < n PROVE FALSE
    OBVIOUS
  <2>1. <<k, n>> \in Nat \X Nat
    OBVIOUS
  <2>2. <<k, n>> \in R
    BY <2>1 DEF R
  <2> QED
    BY <1>3, <2>2
<1> QED
  BY <1>4

(* sequence % depth names a bit of the bitmap.                              *)
LEMMA ModRange ==
  ASSUME NEW D \in Nat \ {0}, NEW s \in Nat
  PROVE  s % D \in 0 .. D - 1
  OBVIOUS

(* Two sequences of the same lap never share a bit.                        *)
LEMMA ModUnique ==
  ASSUME NEW D \in Nat \ {0}, NEW a \in Nat, NEW b \in Nat, a < b, b < a + D
  PROVE  a % D # b % D
<1> SUFFICES ASSUME a % D = b % D PROVE FALSE
  OBVIOUS
<1> DEFINE p == a \div D
           q == b \div D
<1>1. p \in Int /\ q \in Int
  OBVIOUS
<1>2. a = D * p + (a % D) /\ b = D * q + (b % D)
  OBVIOUS
<1> HIDE DEF p, q
<1>3. b - a = D * (q - p)
  <2>1. a % D \in Int /\ b % D \in Int
    BY ModRange
  <2>2. D * (q - p) = D * q - D * p
    BY <1>1
  <2> QED
    BY <1>1, <1>2, <2>1, <2>2
<1>4. CASE q <= p
  <2>1. D * (q - p) <= 0
    BY <1>1, <1>4
  <2> QED
    BY <1>3, <2>1
<1>5. CASE q >= p + 1
  <2>1. D * (q - p) >= D
    BY <1>1, <1>5
  <2> QED
    BY <1>3, <2>1
<1> QED
  BY <1>1, <1>4, <1>5

(* A sequence and the one a lap later share their bit.                     *)
LEMMA ModShift ==
  ASSUME NEW D \in Nat \ {0}, NEW s \in Nat
  PROVE  (s + D) % D = s % D
<1> DEFINE p == s \div D
           q == (s + D) \div D
           r == s % D
           u == (s + D) % D
<1>1. p \in Int /\ q \in Int /\ r \in 0 .. D - 1 /\ u \in 0 .. D - 1
  BY ModRange
<1>2. s = D * p + r /\ s + D = D * q + u
  OBVIOUS
<1> HIDE DEF p, q, r, u
<1>3. D * (q - p - 1) = r - u
  <2>1. D * (q - p - 1) = D * q - D * p - D
    BY <1>1
  <2> QED
    BY <1>1, <1>2, <2>1
<1>4. CASE q - p - 1 >= 1
  <2>1. D * (q - p - 1) >= D
    BY <1>1, <1>4
  <2> QED
    BY <1>1, <1>3, <2>1
<1>5. CASE q - p - 1 <= -1
  <2>1. D * (q - p - 1) <= -D
    BY <1>1, <1>5
  <2> QED
    BY <1>1, <1>3, <2>1
<1>6. CASE q - p - 1 = 0
  BY <1>1, <1>3, <1>6 DEF r, u
<1> QED
  BY <1>1, <1>4, <1>5, <1>6

(* PrefixLength is well defined: the loop of release() stops at the first   *)
(* clear bit or after held_ahead bits.                                      *)
LEMMA PrefixLengthSpec ==
  ASSUME NEW D \in Nat \ {0}, NEW t \in TrackerType(D)
  PROVE  /\ PrefixLength(t) \in 0 .. t.held_ahead
         /\ \A i \in 0 .. PrefixLength(t) - 1 : Test(t, t.released_end + i)
         /\ PrefixLength(t) < t.held_ahead => ~Test(t, t.released_end + PrefixLength(t))
<1> DEFINE P(n) == /\ \A i \in 0 .. n - 1 : Test(t, t.released_end + i)
                   /\ n < t.held_ahead => ~Test(t, t.released_end + n)
           Clear == {n \in 0 .. t.held_ahead - 1 : ~Test(t, t.released_end + n)}
<1>1. t.held_ahead \in Nat
  BY DEF TrackerType
<1>2. \E n \in 0 .. t.held_ahead : P(n)
  <2>1. CASE Clear = {}
    <3>1. P(t.held_ahead)
      BY <1>1, <2>1
    <3> QED
      BY <1>1, <3>1
  <2>2. CASE Clear # {}
    <3>1. Clear \in SUBSET Nat
      BY <1>1
    <3>2. PICK n \in Clear : \A k \in Clear : n <= k
      BY <2>2, <3>1, LeastNatural
    <3>3. n \in 0 .. t.held_ahead /\ P(n)
      BY <1>1, <3>2
    <3> QED
      BY <3>3
  <2> QED
    BY <2>1, <2>2
<1> QED
  BY <1>2 DEF PrefixLength

(* The bits of the n sequences from e on.                                  *)
RunBits(D, e, n) == {(e + i) % D : i \in 0 .. n - 1}

(* The bits of a run of n sequences, n at most one lap, are n different bits. *)
LEMMA RunOfBits ==
  ASSUME NEW D \in Nat \ {0}, NEW e \in Nat, NEW n \in 0 .. D
  PROVE  /\ RunBits(D, e, n) \subseteq 0 .. D - 1
         /\ IsFiniteSet(RunBits(D, e, n))
         /\ Cardinality(RunBits(D, e, n)) = n
<1> DEFINE S == RunBits(D, e, n)
           f == [i \in 0 .. n - 1 |-> (e + i) % D]
<1>1. S \subseteq 0 .. D - 1
  BY ModRange DEF RunBits
<1>2. \A i, j \in 0 .. n - 1 : f[i] = f[j] => i = j
  <2> SUFFICES ASSUME NEW i \in 0 .. n - 1, NEW j \in 0 .. n - 1, i < j
               PROVE  f[i] # f[j]
    OBVIOUS
  <2>1. e + i \in Nat /\ e + j \in Nat /\ e + i < e + j /\ e + j < (e + i) + D
    OBVIOUS
  <2>2. (e + i) % D # (e + j) % D
    BY <2>1, ModUnique, Zenon
  <2> QED
    BY <2>2
<1>3. f \in Bijection(0 .. n - 1, S)
  BY <1>2 DEF Bijection, Injection, Surjection, IsInjective, RunBits
<1>4. ExistsBijection(0 .. n - 1, S)
  BY <1>3 DEF ExistsBijection
<1>5. IsFiniteSet(0 .. n - 1) /\ Cardinality(0 .. n - 1) = n
  BY FS_Interval
<1> QED
  BY <1>1, <1>4, <1>5, FS_Bijection

(* AdvancePrefix field by field.                                            *)
LEMMA AdvancePrefixFields ==
  ASSUME NEW D \in Nat \ {0}, NEW t \in TrackerType(D)
  PROVE  /\ AdvancePrefix(t).ring_depth = D
         /\ AdvancePrefix(t).held =
              [i \in 0 .. D - 1 |->
                 t.held[i] /\ i \notin RunBits(D, t.released_end, PrefixLength(t))]
         /\ AdvancePrefix(t).released_end = t.released_end + PrefixLength(t)
         /\ AdvancePrefix(t).held_ahead = t.held_ahead - PrefixLength(t)
         /\ AdvancePrefix(t).start = t.start
         /\ AdvancePrefix(t).last_ack_sent = t.last_ack_sent
         /\ AdvancePrefix(t).ack_sent = t.ack_sent
         /\ AdvancePrefix(t) \in TrackerType(D)
<1> DEFINE n == PrefixLength(t)
<1>1. /\ t.ring_depth = D /\ t.held \in [0 .. D - 1 -> BOOLEAN]
      /\ t.released_end \in Nat /\ t.held_ahead \in Nat
  BY DEF TrackerType
<1>2. n \in Nat /\ n <= t.held_ahead
  BY <1>1, PrefixLengthSpec
<1> HIDE DEF n
<1>3. ClearBits(t, n) = [i \in 0 .. D - 1 |-> t.held[i] /\ i \notin RunBits(D, t.released_end, n)]
  BY <1>1 DEF ClearBits, Bit, RunBits
<1>4. ClearBits(t, n) \in [0 .. D - 1 -> BOOLEAN]
  BY <1>1, <1>3
<1>5. AdvancePrefix(t) = [t EXCEPT !.held = ClearBits(t, n), !.held_ahead = @ - n,
                                   !.released_end = @ + n]
  BY DEF AdvancePrefix, n
<1>6. AdvancePrefix(t) \in TrackerType(D)
  <2>1. t.held_ahead - n \in Nat /\ t.released_end + n \in Nat
    BY <1>1, <1>2
  <2> DEFINE h == t.held_ahead - n
             r == t.released_end + n
             c == ClearBits(t, n)
  <2>2. h \in Nat /\ r \in Nat /\ c \in [0 .. D - 1 -> BOOLEAN]
    BY <1>4, <2>1
  <2>3. AdvancePrefix(t) = [t EXCEPT !.held = c, !.held_ahead = h, !.released_end = r]
    BY <1>5
  <2> HIDE DEF h, r, c
  <2> QED
    BY <2>2, <2>3 DEF TrackerType
<1>7. /\ AdvancePrefix(t).ring_depth = D /\ AdvancePrefix(t).held = ClearBits(t, n)
      /\ AdvancePrefix(t).released_end = t.released_end + n
      /\ AdvancePrefix(t).held_ahead = t.held_ahead - n
      /\ AdvancePrefix(t).start = t.start
      /\ AdvancePrefix(t).last_ack_sent = t.last_ack_sent
      /\ AdvancePrefix(t).ack_sent = t.ack_sent
  BY <1>1, <1>5 DEF TrackerType
<1> QED
  BY <1>3, <1>6, <1>7 DEF n

(* The loop at the end of release(): it moves released_end over exactly the   *)
(* recorded sequences in front of it, clears their bits, keeps the count, and *)
(* stops at a sequence that is not recorded.                                  *)
LEMMA AdvancePrefixSpec ==
  ASSUME NEW D \in Nat \ {0}, NEW t \in TrackerType(D),
         t.held_ahead = Cardinality(HeldBits(t))
  PROVE  /\ AdvancePrefix(t).held_ahead = Cardinality(HeldBits(AdvancePrefix(t)))
         /\ t.released_end <= AdvancePrefix(t).released_end
         /\ ReleasedAhead(t) = (t.released_end .. AdvancePrefix(t).released_end - 1)
                                 \union ReleasedAhead(AdvancePrefix(t))
         /\ ~Test(AdvancePrefix(t), AdvancePrefix(t).released_end)
<1> DEFINE n == PrefixLength(t)
           e == t.released_end
           Run == RunBits(D, e, n)
           a == AdvancePrefix(t)
<1>1. /\ t.ring_depth = D /\ t.held \in [0 .. D - 1 -> BOOLEAN]
      /\ e \in Nat /\ t.held_ahead \in Nat
  BY DEF TrackerType
<1>2. IsFiniteSet(HeldBits(t)) /\ t.held_ahead <= D
  <2>1. HeldBits(t) \in SUBSET (0 .. D - 1)
    BY <1>1 DEF HeldBits
  <2>2. IsFiniteSet(0 .. D - 1) /\ Cardinality(0 .. D - 1) = D
    BY FS_Interval
  <2>3. IsFiniteSet(HeldBits(t)) /\ Cardinality(HeldBits(t)) <= Cardinality(0 .. D - 1)
    BY ONLY <2>1, <2>2, FS_Subset
  <2> QED
    BY <2>2, <2>3
<1>3. /\ n \in 0 .. t.held_ahead
      /\ \A i \in 0 .. n - 1 : t.held[(e + i) % D]
      /\ n < t.held_ahead => ~t.held[(e + n) % D]
  BY <1>1, PrefixLengthSpec DEF Test, Bit
<1>4. /\ a.ring_depth = D /\ a.held = [i \in 0 .. D - 1 |-> t.held[i] /\ i \notin Run]
      /\ a.released_end = e + n /\ a.held_ahead = t.held_ahead - n
  BY AdvancePrefixFields
<1> HIDE DEF n, a
<1>5. n \in 0 .. D /\ n \in Nat
  BY <1>1, <1>2, <1>3
<1>6. Run \subseteq 0 .. D - 1 /\ IsFiniteSet(Run) /\ Cardinality(Run) = n
  BY <1>1, <1>5, RunOfBits
<1>7. Run \subseteq HeldBits(t)
  BY <1>1, <1>3, <1>6 DEF HeldBits, RunBits
<1>8. HeldBits(a) = HeldBits(t) \ Run
  BY <1>1, <1>4 DEF HeldBits
<1>9. IsFiniteSet(HeldBits(a)) /\ Cardinality(HeldBits(a)) = a.held_ahead
  <2>1. HeldBits(t) \cap Run = Run
    BY <1>7
  <2>2. /\ IsFiniteSet(HeldBits(t) \ Run)
        /\ Cardinality(HeldBits(t) \ Run) = Cardinality(HeldBits(t)) - Cardinality(HeldBits(t) \cap Run)
    BY ONLY <1>2, FS_Difference
  <2> QED
    BY <1>4, <1>6, <1>8, <2>1, <2>2
<1>10. ~Test(a, a.released_end)
  <2>1. (e + n) % D \in 0 .. D - 1
    <3>1. e + n \in Nat
      BY <1>1, <1>5
    <3> QED
      BY <3>1, ModRange, Zenon
  <2>2. CASE n < t.held_ahead
    BY <1>1, <1>3, <1>4, <2>1, <2>2 DEF Test, Bit
  <2>3. CASE n = t.held_ahead
    <3>1. HeldBits(a) = {}
      BY <1>1, <1>4, <1>9, <2>3, FS_EmptySet
    <3> QED
      BY <1>4, <2>1, <3>1 DEF HeldBits, Test, Bit
  <2> QED
    BY <1>1, <1>3, <2>2, <2>3
<1>11. \A s \in e .. e + n - 1 : t.held[s % D]
  <2> SUFFICES ASSUME NEW s \in e .. e + n - 1 PROVE t.held[s % D]
    OBVIOUS
  <2>1. s - e \in 0 .. n - 1 /\ e + (s - e) = s
    BY <1>1, <1>5
  <2> QED
    BY <1>3, <2>1
<1>12. \A s \in e + n .. e + D - 1 : s % D \notin Run
  <2> SUFFICES ASSUME NEW s \in e + n .. e + D - 1, NEW i \in 0 .. n - 1
               PROVE  (e + i) % D # s % D
    BY DEF RunBits
  <2>1. e + i \in Nat /\ s \in Nat /\ e + i < s /\ s < (e + i) + D
    BY <1>1, <1>5
  <2> QED
    BY <2>1, ModUnique, Zenon
<1>13. \A s \in e + D .. e + n + D - 1 : s % D \in Run
  <2> SUFFICES ASSUME NEW s \in e + D .. e + n + D - 1 PROVE s % D \in Run
    OBVIOUS
  <2>1. PICK v \in Nat : v = s - D
    BY <1>1, <1>5
  <2>2. v + D = s /\ v - e \in 0 .. n - 1 /\ e + (v - e) = v
    BY <1>1, <1>5, <2>1
  <2>3. (v + D) % D = v % D
    BY ModShift
  <2>4. v % D \in Run
    BY <2>2 DEF RunBits
  <2> QED
    BY <2>2, <2>3, <2>4
<1>14. \A s \in Nat : s % D \in 0 .. D - 1
  BY ModRange
<1>15. ReleasedAhead(t) = {s \in e .. e + D - 1 : t.held[s % D]}
  BY <1>1 DEF ReleasedAhead, Test, Bit
<1>16. ReleasedAhead(a) = {s \in e + n .. e + n + D - 1 : t.held[s % D] /\ s % D \notin Run}
  <2>1. ReleasedAhead(a) = {s \in e + n .. e + n + D - 1 : a.held[s % D]}
    BY <1>4 DEF ReleasedAhead, Test, Bit
  <2>2. \A s \in e + n .. e + n + D - 1 : a.held[s % D] = (t.held[s % D] /\ s % D \notin Run)
    <3> SUFFICES ASSUME NEW s \in e + n .. e + n + D - 1
                 PROVE  a.held[s % D] = (t.held[s % D] /\ s % D \notin Run)
      OBVIOUS
    <3>1. s \in Nat
      BY <1>1, <1>5
    <3>2. s % D \in 0 .. D - 1
      BY <1>14, <3>1, Zenon
    <3> QED
      BY <1>4, <3>2, Zenon
  <2> QED
    BY <2>1, <2>2
<1>17. ReleasedAhead(t) = (e .. e + n - 1) \union ReleasedAhead(a)
  <2>1. ASSUME NEW s \in e .. e + D - 1, t.held[s % D]
        PROVE  s \in e .. e + n - 1 \/ s \in ReleasedAhead(a)
    BY <1>1, <1>5, <1>12, <1>16, <2>1
  <2>2. ASSUME NEW s \in e .. e + n - 1
        PROVE  s \in e .. e + D - 1 /\ t.held[s % D]
    BY <1>1, <1>5, <1>11
  <2>3. ASSUME NEW s \in ReleasedAhead(a)
        PROVE  s \in e .. e + D - 1 /\ t.held[s % D]
    <3>1. s \in e + n .. e + n + D - 1 /\ t.held[s % D] /\ s % D \notin Run
      BY <1>16
    <3>2. ~(s \in e + D .. e + n + D - 1)
      BY <1>13, <3>1
    <3> QED
      BY <1>1, <1>5, <3>1, <3>2
  <2> QED
    BY <1>15, <2>1, <2>2, <2>3
<1> QED
  BY <1>1, <1>4, <1>5, <1>9, <1>10, <1>17 DEF a

(* Recording one sequence of the window that is not recorded yet.            *)
LEMMA SetBitSpec ==
  ASSUME NEW D \in Nat \ {0}, NEW t \in TrackerType(D), NEW s \in Nat,
         t.held_ahead = Cardinality(HeldBits(t)), Recordable(t, s)
  PROVE  /\ SetBit(t, s) \in TrackerType(D)
         /\ SetBit(t, s).held_ahead = Cardinality(HeldBits(SetBit(t, s)))
         /\ SetBit(t, s).start = t.start
         /\ SetBit(t, s).released_end = t.released_end
         /\ SetBit(t, s).last_ack_sent = t.last_ack_sent
         /\ SetBit(t, s).ack_sent = t.ack_sent
         /\ ReleasedAhead(SetBit(t, s)) = ReleasedAhead(t) \union {s}
<1> DEFINE e == t.released_end
           b == SetBit(t, s)
           i == s % D
<1>1. /\ t.ring_depth = D /\ t.held \in [0 .. D - 1 -> BOOLEAN]
      /\ e \in Nat /\ t.held_ahead \in Nat
  BY DEF TrackerType
<1>2. i \in 0 .. D - 1
  BY ModRange
<1>3. s \in e .. e + D - 1 /\ ~t.held[i]
  BY <1>1 DEF Recordable, Test, Bit
<1>4. b = [t EXCEPT !.held[i] = TRUE, !.held_ahead = @ + 1]
  BY <1>1 DEF SetBit, Bit
<1> HIDE DEF i
<1>5. /\ b.ring_depth = D /\ b.held = [t.held EXCEPT ![i] = TRUE]
      /\ b.held_ahead = t.held_ahead + 1 /\ b.released_end = e
      /\ b.start = t.start /\ b.last_ack_sent = t.last_ack_sent
      /\ b.ack_sent = t.ack_sent
  BY <1>1, <1>4 DEF TrackerType
<1>6. b \in TrackerType(D)
  <2> DEFINE h == t.held_ahead + 1
             c == [t.held EXCEPT ![i] = TRUE]
  <2>1. h \in Nat /\ c \in [0 .. D - 1 -> BOOLEAN]
    BY <1>1, <1>2
  <2>2. b = [t EXCEPT !.held = c, !.held_ahead = h]
    BY <1>4
  <2> HIDE DEF h, c
  <2> QED
    BY <2>1, <2>2 DEF TrackerType
<1> HIDE DEF b
<1>7. HeldBits(b) = HeldBits(t) \union {i} /\ i \notin HeldBits(t)
  BY <1>1, <1>2, <1>3, <1>5 DEF HeldBits
<1>8. IsFiniteSet(HeldBits(t))
  <2>1. HeldBits(t) \in SUBSET (0 .. D - 1)
    BY <1>1 DEF HeldBits
  <2>2. IsFiniteSet(0 .. D - 1)
    BY FS_Interval
  <2> QED
    BY ONLY <2>1, <2>2, FS_Subset
<1>9. b.held_ahead = Cardinality(HeldBits(b))
  BY <1>5, <1>7, <1>8, FS_AddElement
<1>10. \A u \in e .. e + D - 1 : u # s => u % D # i
  <2> SUFFICES ASSUME NEW u \in e .. e + D - 1, u # s PROVE u % D # s % D
    BY DEF i
  <2>1. u \in Nat
    BY <1>1
  <2>2. CASE u < s
    <3>1. s < u + D
      BY <1>1, <1>3
    <3> QED
      BY <2>1, <2>2, <3>1, ModUnique
  <2>3. CASE s < u
    <3>1. u < s + D
      BY <1>1, <1>3
    <3> QED
      BY <2>1, <2>3, <3>1, ModUnique
  <2> QED
    BY <2>1, <2>2, <2>3
<1>11. \A u \in e .. e + D - 1 : b.held[u % D] <=> t.held[u % D] \/ u = s
  <2> SUFFICES ASSUME NEW u \in e .. e + D - 1
               PROVE  b.held[u % D] <=> t.held[u % D] \/ u = s
    OBVIOUS
  <2>1. u % D \in 0 .. D - 1
    <3>1. u \in Nat
      BY <1>1
    <3> QED
      BY <3>1, ModRange, Zenon
  <2>2. CASE u = s
    BY <1>1, <1>2, <1>5, <2>2 DEF i
  <2>3. CASE u # s
    <3>1. u % D # i
      BY <1>10, <2>3
    <3> QED
      BY <1>1, <1>5, <2>1, <2>3, <3>1
  <2> QED
    BY <2>2, <2>3
<1>12. ReleasedAhead(b) = ReleasedAhead(t) \union {s}
  <2>1. /\ ReleasedAhead(t) = {u \in e .. e + D - 1 : t.held[u % D]}
        /\ ReleasedAhead(b) = {u \in e .. e + D - 1 : b.held[u % D]}
    BY <1>1, <1>5 DEF ReleasedAhead, Test, Bit
  <2> QED
    BY <1>3, <1>11, <2>1
<1> QED
  BY <1>5, <1>6, <1>9, <1>12 DEF b

(* release() on a sequence it accepts: exactly that sequence joins the set the *)
(* tracker stands for, the prefix does not move back, and it is maximal.       *)
THEOREM ReleaseSpec ==
  ASSUME NEW D \in Nat \ {0}, NEW t \in TrackerType(D), NEW s \in Nat,
         t.held_ahead = Cardinality(HeldBits(t)), Recordable(t, s),
         t.start <= t.released_end
  PROVE  /\ Release(t, s) \in TrackerType(D)
         /\ Release(t, s).held_ahead = Cardinality(HeldBits(Release(t, s)))
         /\ Release(t, s).start = t.start
         /\ Release(t, s).last_ack_sent = t.last_ack_sent
         /\ Release(t, s).ack_sent = t.ack_sent
         /\ t.released_end <= Release(t, s).released_end
         /\ ReleasedSet(Release(t, s)) = ReleasedSet(t) \union {s}
         /\ ~Test(Release(t, s), Release(t, s).released_end)
         /\ s \notin ReleasedSet(t)
<1> DEFINE b == SetBit(t, s)
           r == Release(t, s)
<1>1. r = AdvancePrefix(b)
  BY DEF Release
<1>2. /\ b \in TrackerType(D) /\ b.held_ahead = Cardinality(HeldBits(b))
      /\ b.start = t.start /\ b.released_end = t.released_end
      /\ b.last_ack_sent = t.last_ack_sent /\ b.ack_sent = t.ack_sent
      /\ ReleasedAhead(b) = ReleasedAhead(t) \union {s}
  BY SetBitSpec
<1> HIDE DEF b, r
<1>3. /\ r \in TrackerType(D) /\ r.start = b.start
      /\ r.last_ack_sent = b.last_ack_sent /\ r.ack_sent = b.ack_sent
  BY <1>1, <1>2, AdvancePrefixFields
<1>4. /\ r.held_ahead = Cardinality(HeldBits(r))
      /\ b.released_end <= r.released_end
      /\ ReleasedAhead(b) = (b.released_end .. r.released_end - 1) \union ReleasedAhead(r)
      /\ ~Test(r, r.released_end)
  BY <1>1, <1>2, AdvancePrefixSpec
<1>5. /\ t.start \in Nat /\ t.released_end \in Nat /\ r.released_end \in Nat
      /\ t.start <= t.released_end /\ t.released_end <= r.released_end
  BY <1>2, <1>3, <1>4 DEF TrackerType
<1>6. t.start .. r.released_end - 1
        = (t.start .. t.released_end - 1) \union (t.released_end .. r.released_end - 1)
  BY <1>5
<1>7. ReleasedSet(r) = ReleasedSet(t) \union {s}
  BY <1>2, <1>3, <1>4, <1>6 DEF ReleasedSet
<1>8. s \notin ReleasedSet(t)
  BY <1>5 DEF Recordable, ReleasedSet, ReleasedAhead
<1> QED
  BY <1>2, <1>3, <1>4, <1>5, <1>7, <1>8 DEF r

=============================================================================
