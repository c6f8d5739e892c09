---------------------------- MODULE ConfigProofs ----------------------------
(***************************************************************************)
(* Theorems about Config: a configuration that is accepted leads to a      *)
(* plan that fits its memory, stays accepted when the engine is rebuilt,   *)
(* and to a session both sides agree on.                                   *)
(***************************************************************************)
EXTENDS Config, GeometryProofs

-----------------------------------------------------------------------------
(* Division                                                                *)

LEMMA DivBounds ==
  ASSUME NEW m \in Nat, NEW d \in Nat, d >= 1
  PROVE  /\ m \div d \in Nat
         /\ d * (m \div d) <= m
         /\ m < d * ((m \div d) + 1)
  OBVIOUS

LEMMA MulComm == \A a, b \in Nat : a * b = b * a
  OBVIOUS

\* Dividing the limit is a test of the product.
LEMMA DivTest ==
  ASSUME NEW a \in Nat, NEW d \in Nat, d >= 1, NEW m \in Nat
  PROVE  a <= m \div d <=> a * d <= m
<1> DEFINE q == m \div d
<1>1. q \in Nat /\ d * q <= m /\ m < d * (q + 1)
  BY DivBounds
<1> HIDE DEF q
<1>2. q * d = d * q /\ (q + 1) * d = d * (q + 1) /\ a * d \in Nat /\ d * q \in Nat /\ d * (q + 1) \in Nat
  BY <1>1, MulComm, MulNat
<1>3. CASE a <= q
  <2>1. a * d <= q * d
    BY <1>1, <1>3, MulMono
  <2> QED
    BY <1>1, <1>2, <1>3, <2>1 DEF q
<1>4. CASE ~(a <= q)
  <2>1. q + 1 <= a
    BY <1>1, <1>4
  <2>2. (q + 1) * d <= a * d
    BY <1>1, <2>1, MulMono
  <2>3. ~(a * d <= m)
    BY <1>1, <1>2, <2>2
  <2> QED
    BY <1>4, <2>3 DEF q
<1> QED
  BY <1>3, <1>4

\* checked_bytes() admits exactly the products that fit 64 bits.
LEMMA CheckedBytes ==
  ASSUME U64 \in Nat, U64 >= 1, NEW f \in Nat, NEW d \in Nat
  PROVE  checked_bytes(f, d) <=> f * d < U64
<1>1. CASE d = 0
  <2>1. f * d = 0
    BY <1>1
  <2> QED
    BY <1>1, <2>1 DEF checked_bytes
<1>2. CASE d # 0
  <2>1. d >= 1 /\ U64 - 1 \in Nat /\ f * d \in Nat
    BY <1>2, MulNat
  <2>2. f <= (U64 - 1) \div d <=> f * d <= U64 - 1
    BY <2>1, DivTest
  <2>3. (U64 - 1) \div d \in Nat
    BY <2>1, DivBounds
  <2>4. checked_bytes(f, d) <=> f <= (U64 - 1) \div d
    BY <1>2, <2>3 DEF checked_bytes
  <2> QED
    BY <2>1, <2>2, <2>4
<1> QED
  BY <1>1, <1>2

-----------------------------------------------------------------------------
(* Receive plans                                                           *)

\* What is used of the limits of limits.h.
Limits ==
  /\ U64 \in Nat /\ U32 \in Nat
  /\ k_min_frame_bytes \in Nat /\ k_min_frame_bytes >= 1
  /\ k_max_frame_bytes_hard_cap \in Nat
  /\ k_min_ring_depth \in Nat /\ k_min_ring_depth >= 1
  /\ k_max_ring_depth \in Nat
  /\ k_max_frame_bytes_hard_cap * k_max_ring_depth < U64
  /\ k_min_pinned_bytes \in Nat /\ k_max_pinned_bytes \in Nat
  /\ k_max_pinned_bytes < U64 - 1
  /\ k_max_age_ms \in Nat

Plans == [max_frame_bytes : Nat, ring_depth : Nat, credit_window : Nat, pinned_bytes : Nat]

Allowed(f, d, w) ==
  /\ k_min_frame_bytes <= f /\ f <= k_max_frame_bytes_hard_cap
  /\ k_min_ring_depth <= d /\ d <= k_max_ring_depth
  /\ 1 <= w /\ w <= d

LEMMA AllowedFits ==
  ASSUME Limits, NEW f \in Nat, NEW d \in Nat, NEW w \in Nat, Allowed(f, d, w)
  PROVE  f * d \in Nat /\ f * d < U64 /\ checked_bytes(f, d)
<1> DEFINE cap == k_max_frame_bytes_hard_cap
           deep == k_max_ring_depth
<1>1. f <= cap /\ d <= deep /\ cap \in Nat /\ deep \in Nat /\ cap * deep < U64 /\ U64 \in Nat
  BY DEF Limits, Allowed
<1> HIDE DEF cap, deep
<1>2. f * d <= cap * d /\ d * cap <= deep * cap
  BY <1>1, MulMono
<1>3. /\ f * d \in Nat /\ cap * d \in Nat /\ cap * deep \in Nat
      /\ d * cap = cap * d /\ deep * cap = cap * deep
  BY <1>1, MulNat, MulComm
<1>4. f * d < U64
  BY <1>1, <1>2, <1>3
<1>5. U64 >= 1
  BY <1>1, <1>3, <1>4
<1> QED
  BY <1>1, <1>3, <1>4, <1>5, CheckedBytes

LEMMA FromLimits ==
  ASSUME Limits, NEW f \in Nat, NEW d \in Nat, NEW w \in Nat
  PROVE  LET p == from_limits(f, d, w) IN
         /\ p \in Plans
         /\ p.max_frame_bytes = f /\ p.ring_depth = d /\ p.credit_window = w
         /\ p.pinned_bytes <= k_max_pinned_bytes => p.pinned_bytes = f * d
         /\ Allowed(f, d, w) => p.pinned_bytes = f * d
<1>1. /\ U64 - 1 \in Nat /\ k_max_pinned_bytes \in Nat /\ k_max_pinned_bytes < U64 - 1
      /\ f * d \in Nat
  BY MulNat DEF Limits
<1>2. Allowed(f, d, w) => checked_bytes(f, d)
  BY AllowedFits
<1> DEFINE bytes == IF checked_bytes(f, d) THEN f * d ELSE U64 - 1
<1>3. /\ bytes \in Nat
      /\ bytes <= k_max_pinned_bytes => bytes = f * d
      /\ Allowed(f, d, w) => bytes = f * d
  BY <1>1, <1>2
<1>4. from_limits(f, d, w) =
        [max_frame_bytes |-> f, ring_depth |-> d, credit_window |-> w, pinned_bytes |-> bytes]
  BY DEF from_limits
<1> HIDE DEF bytes
<1> QED
  BY <1>3, <1>4 DEF Plans

LEMMA FromLimitsExact ==
  ASSUME Limits, NEW f \in Nat, NEW d \in Nat, NEW w \in Nat, NEW p, p = from_limits(f, d, w),
         Allowed(p.max_frame_bytes, p.ring_depth, p.credit_window)
  PROVE  p.pinned_bytes = p.max_frame_bytes * p.ring_depth
<1>1. p.max_frame_bytes = f /\ p.ring_depth = d /\ p.credit_window = w
  BY FromLimits
<1>2. Allowed(f, d, w)
  BY <1>1
<1> QED
  BY <1>1, <1>2, FromLimits

LEMMA ValidPlans ==
  ASSUME Limits, NEW p \in Plans
  PROVE  PlanValidate(p) = "Ok" <=> /\ Allowed(p.max_frame_bytes, p.ring_depth, p.credit_window)
                                    /\ p.pinned_bytes = p.max_frame_bytes * p.ring_depth
<1> DEFINE f == p.max_frame_bytes
           d == p.ring_depth
           w == p.credit_window
<1>1. f \in Nat /\ d \in Nat /\ w \in Nat
  BY DEF Plans
<1>2. Allowed(f, d, w) => checked_bytes(f, d)
  BY <1>1, AllowedFits
<1>3. PlanValidate(p) = "Ok" <=>
        /\ checked_bytes(f, d)
        /\ ~(f < k_min_frame_bytes) /\ ~(f > k_max_frame_bytes_hard_cap)
        /\ ~(d < k_min_ring_depth) /\ ~(d > k_max_ring_depth) /\ w # 0 /\ ~(w > d)
        /\ p.pinned_bytes = f * d
  BY DEF PlanValidate
<1> HIDE DEF f, d, w
<1>4. Allowed(f, d, w) <=>
        /\ ~(f < k_min_frame_bytes) /\ ~(f > k_max_frame_bytes_hard_cap)
        /\ ~(d < k_min_ring_depth) /\ ~(d > k_max_ring_depth) /\ w # 0 /\ ~(w > d)
  BY <1>1 DEF Allowed, Limits
<1> QED
  BY <1>2, <1>3, <1>4 DEF f, d, w

LEMMA LesserNat ==
  \A a, b \in Nat : /\ Lesser(a, b) \in Nat /\ Lesser(a, b) <= a /\ Lesser(a, b) <= b
                    /\ Lesser(a, b) \in {a, b}
  BY DEF Lesser

\* What two allowed sizes have in common is allowed.
LEMMA SmallerAllowed ==
  ASSUME Limits, NEW a, NEW b,
         a.max_frame_bytes \in Nat, a.ring_depth \in Nat, a.credit_window \in Nat,
         b.max_frame_bytes \in Nat, b.ring_depth \in Nat, b.credit_window \in Nat,
         Allowed(a.max_frame_bytes, a.ring_depth, a.credit_window),
         Allowed(b.max_frame_bytes, b.ring_depth, b.credit_window)
  PROVE  LET p == Smaller(a, b) IN
         /\ p \in Plans /\ PlanValidate(p) = "Ok"
         /\ p.max_frame_bytes <= a.max_frame_bytes /\ p.max_frame_bytes <= b.max_frame_bytes
         /\ p.ring_depth <= a.ring_depth /\ p.ring_depth <= b.ring_depth
         /\ p.credit_window <= a.credit_window /\ p.credit_window <= b.credit_window
<1> DEFINE f == Lesser(a.max_frame_bytes, b.max_frame_bytes)
           d == Lesser(a.ring_depth, b.ring_depth)
           w == Lesser(a.credit_window, b.credit_window)
<1>1. /\ f \in Nat /\ f <= a.max_frame_bytes /\ f <= b.max_frame_bytes
      /\ d \in Nat /\ d <= a.ring_depth /\ d <= b.ring_depth
      /\ w \in Nat /\ w <= a.credit_window /\ w <= b.credit_window
      /\ f \in {a.max_frame_bytes, b.max_frame_bytes}
      /\ d \in {a.ring_depth, b.ring_depth} /\ w \in {a.credit_window, b.credit_window}
  BY LesserNat
<1>2. Smaller(a, b) = from_limits(f, d, w)
  BY DEF Smaller
<1> HIDE DEF f, d, w
<1>3. Allowed(f, d, w)
  BY <1>1 DEF Allowed, Limits
<1>4. /\ from_limits(f, d, w) \in Plans
      /\ from_limits(f, d, w).max_frame_bytes = f /\ from_limits(f, d, w).ring_depth = d
      /\ from_limits(f, d, w).credit_window = w /\ from_limits(f, d, w).pinned_bytes = f * d
  BY <1>1, <1>3, FromLimits
<1>5. PlanValidate(from_limits(f, d, w)) = "Ok"
  BY <1>3, <1>4, ValidPlans
<1> QED
  BY <1>1, <1>2, <1>4, <1>5

LEMMA GeometryAllowed ==
  ASSUME Limits, NEW g \in Geometries, GeometryValidate(g) = "Ok"
  PROVE  /\ g.max_frame_bytes \in Nat /\ g.ring_depth \in Nat /\ g.credit_window \in Nat
         /\ Allowed(g.max_frame_bytes, g.ring_depth, g.credit_window)
<1>1. g.max_frame_bytes \in Nat /\ g.ring_depth \in Nat /\ g.credit_window \in Nat
  BY DEF Geometries, Limits
<1>2. /\ ~(g.max_frame_bytes < k_min_frame_bytes)
      /\ ~(g.max_frame_bytes > k_max_frame_bytes_hard_cap)
      /\ ~(g.ring_depth < k_min_ring_depth) /\ ~(g.ring_depth > k_max_ring_depth)
      /\ g.credit_window # 0 /\ ~(g.credit_window > g.ring_depth)
  BY DEF GeometryValidate
<1> QED
  BY <1>1, <1>2 DEF Allowed, Limits

\* A plan that validates is what its sizes make.
LEMMA PlanOfSizes ==
  ASSUME Limits, NEW p \in Plans, PlanValidate(p) = "Ok"
  PROVE  from_limits(p.max_frame_bytes, p.ring_depth, p.credit_window) = p
<1> DEFINE q == from_limits(p.max_frame_bytes, p.ring_depth, p.credit_window)
<1>1. p.max_frame_bytes \in Nat /\ p.ring_depth \in Nat /\ p.credit_window \in Nat
  BY DEF Plans
<1>2. /\ Allowed(p.max_frame_bytes, p.ring_depth, p.credit_window)
      /\ p.pinned_bytes = p.max_frame_bytes * p.ring_depth
  BY ValidPlans
<1>3. /\ q \in Plans /\ q.max_frame_bytes = p.max_frame_bytes /\ q.ring_depth = p.ring_depth
      /\ q.credit_window = p.credit_window /\ q.pinned_bytes = p.pinned_bytes
  BY <1>1, <1>2, FromLimits
<1> HIDE DEF q
<1>4. q = p
  BY <1>3 DEF Plans
<1> QED
  BY <1>4 DEF q

\* derive() of a stream gives nothing, or a plan within the budget and the
\* stream.
THEOREM DeriveWithinBudget ==
  ASSUME Limits, NEW g \in Geometries, NEW limit \in Nat, derive(g, limit) # NoPlan
  PROVE  LET p == derive(g, limit) IN
         /\ p \in Plans /\ PlanValidate(p) = "Ok" /\ p.pinned_bytes <= limit
         /\ p.max_frame_bytes = g.max_frame_bytes
         /\ p.ring_depth <= g.ring_depth /\ p.credit_window <= g.credit_window
<1> DEFINE f == g.max_frame_bytes
           depth == Lesser(g.ring_depth, limit \div f)
           w == Lesser(g.credit_window, depth)
<1>1. /\ GeometryValidate(g) = "Ok" /\ ~(depth < k_min_ring_depth)
      /\ derive(g, limit) = from_limits(f, depth, w)
  BY DEF derive
<1>2. /\ f \in Nat /\ g.ring_depth \in Nat /\ g.credit_window \in Nat
      /\ Allowed(f, g.ring_depth, g.credit_window)
  BY <1>1, GeometryAllowed
<1>3. f >= 1
  BY <1>2 DEF Allowed, Limits
<1>4. limit \div f \in Nat
  BY <1>2, <1>3, DivBounds
<1>5. depth \in Nat /\ depth <= g.ring_depth /\ depth <= limit \div f
  BY <1>2, <1>4, LesserNat
<1>6. depth * f <= limit /\ depth * f = f * depth
  BY <1>2, <1>3, <1>5, DivTest, MulComm
<1> HIDE DEF f, depth
<1>7. w \in Nat /\ w <= g.credit_window /\ w <= depth /\ w \in {g.credit_window, depth}
  BY <1>2, <1>5, LesserNat
<1> HIDE DEF w
<1>8. Allowed(f, depth, w)
  BY <1>1, <1>2, <1>5, <1>7 DEF Allowed, Limits
<1>9. /\ from_limits(f, depth, w) \in Plans
      /\ from_limits(f, depth, w).max_frame_bytes = f /\ from_limits(f, depth, w).ring_depth = depth
      /\ from_limits(f, depth, w).credit_window = w
      /\ from_limits(f, depth, w).pinned_bytes = f * depth
  BY <1>2, <1>5, <1>7, <1>8, FromLimits
<1>10. PlanValidate(from_limits(f, depth, w)) = "Ok"
  BY <1>8, <1>9, ValidPlans
<1> QED
  BY <1>1, <1>5, <1>6, <1>7, <1>9, <1>10 DEF f, depth, w

-----------------------------------------------------------------------------
(* Subscribers                                                             *)

SubscriberConfigs ==
  [stream_name : Seq({"word", "bar", "other"}),
   max_frame_bytes : Nat, ring_depth : Nat, credit_window : Nat,
   delivery_queue_depth : Nat, establishment_timeout_ms : Nat, command_timeout_ms : Nat,
   probe_timeout_ms : Nat, pinned_memory_limit_bytes : Nat, engine_cpu_affinity : Int,
   has_receive_buffer : BOOLEAN, receive_buffer_bytes : Nat, receive_memory_kind : STRING,
   has_receive_plan : BOOLEAN, receive_plan : Plans,
   has_discovery_offer : BOOLEAN, discovery_offer : Offers]

LEMMA RequestedPlan ==
  ASSUME Limits, NEW c \in SubscriberConfigs
  PROVE  Requested(c) \in Plans
<1>1. /\ c.max_frame_bytes \in Nat /\ c.ring_depth \in Nat /\ c.credit_window \in Nat
      /\ c.receive_plan \in Plans
  BY DEF SubscriberConfigs
<1>2. from_limits(c.max_frame_bytes, c.ring_depth, c.credit_window) \in Plans
  BY <1>1, FromLimits
<1> QED
  BY <1>1, <1>2 DEF Requested

\* What validate() has found out when it returns Ok.
LEMMA Validated ==
  ASSUME NEW c, SubscriberConfigValidate(c) = "Ok"
  PROVE  LET p == upper_receive_plan(c) IN
         /\ c.has_receive_plan => PlanValidate(c.receive_plan) = "Ok"
         /\ validate_common(c, p.max_frame_bytes, p.ring_depth, p.credit_window) = "Ok"
         /\ ~(p.pinned_bytes > c.pinned_memory_limit_bytes)
         /\ c.has_receive_buffer => ~(c.receive_buffer_bytes < p.pinned_bytes)
         /\ c.has_receive_buffer => ~(c.receive_buffer_bytes > c.pinned_memory_limit_bytes)
  BY DEF SubscriberConfigValidate

LEMMA CommonAllowed ==
  ASSUME Limits, NEW c, NEW f \in Nat, NEW d \in Nat, NEW w \in Nat,
         validate_common(c, f, d, w) = "Ok"
  PROVE  /\ Allowed(f, d, w) /\ f # 0
         /\ ~(c.pinned_memory_limit_bytes > k_max_pinned_bytes)
<1>1. /\ ~(f < k_min_frame_bytes) /\ ~(f > k_max_frame_bytes_hard_cap)
      /\ ~(d < k_min_ring_depth) /\ ~(d > k_max_ring_depth) /\ ~(w < 1) /\ ~(w > d)
      /\ ~(c.pinned_memory_limit_bytes > k_max_pinned_bytes)
  BY DEF validate_common
<1> QED
  BY <1>1 DEF Allowed, Limits

\* The three ways upper_receive_plan() comes to a plan with a size.
LEMMA UpperCases ==
  ASSUME NEW c, upper_receive_plan(c).max_frame_bytes # 0,
         c.has_discovery_offer \in BOOLEAN, c.has_receive_plan \in BOOLEAN
  PROVE  LET r == Requested(c)
             p == upper_receive_plan(c)
             d == derive_offer(c.discovery_offer, c.pinned_memory_limit_bytes)
             depth == Lesser(r.ring_depth, c.pinned_memory_limit_bytes \div r.max_frame_bytes)
         IN \/ /\ c.has_discovery_offer /\ p = Smaller(r, d)
               /\ PlanValidate(r) = "Ok" /\ PlanValidate(d) = "Ok"
            \/ /\ ~c.has_discovery_offer /\ p = r
            \/ /\ ~c.has_discovery_offer /\ ~c.has_receive_plan
               /\ ~(c.pinned_memory_limit_bytes \div r.max_frame_bytes < k_min_ring_depth)
               /\ r.max_frame_bytes # 0
               /\ p = [from_limits(r.max_frame_bytes, depth, r.credit_window)
                         EXCEPT !.credit_window = Lesser(@, depth)]
<1>1. NoPlan.max_frame_bytes = 0
  BY DEF NoPlan
<1>2. CASE c.has_discovery_offer
  BY <1>1, <1>2 DEF upper_receive_plan, intersect
<1>3. CASE ~c.has_discovery_offer
  BY <1>1, <1>3 DEF upper_receive_plan
<1> QED
  BY <1>2, <1>3

LEMMA OfferSizes ==
  ASSUME Limits, NEW o \in Offers
  PROVE  /\ o.geometry \in Geometries
         /\ o.geometry.max_frame_bytes \in Nat /\ o.geometry.ring_depth \in Nat
         /\ o.geometry.credit_window \in Nat
<1>1. o.geometry \in Geometries
  BY DEF Offers
<1>2. \A g \in Geometries : /\ g.max_frame_bytes \in 0..U64-1
                            /\ g.ring_depth \in 0..U32-1 /\ g.credit_window \in 0..U32-1
  BY DEF Geometries
<1> QED
  BY <1>1, <1>2 DEF Limits

\* derive_offer() gives nothing, or a plan.
LEMMA DeriveOffer ==
  ASSUME Limits, NEW o \in Offers, NEW limit \in Nat,
         PlanValidate(derive_offer(o, limit)) = "Ok"
  PROVE  LET d == derive_offer(o, limit) IN
         /\ d \in Plans /\ d.pinned_bytes <= limit
         /\ d.max_frame_bytes <= o.geometry.max_frame_bytes
         /\ d.ring_depth <= o.geometry.ring_depth
         /\ d.credit_window <= o.geometry.credit_window
<1>1. PlanValidate(NoPlan) # "Ok"
  <2>1. /\ NoPlan \in Plans /\ NoPlan.max_frame_bytes = 0
    BY DEF NoPlan, Plans
  <2>2. ~Allowed(NoPlan.max_frame_bytes, NoPlan.ring_depth, NoPlan.credit_window)
    BY <2>1 DEF Allowed, Limits
  <2> QED
    BY <2>1, <2>2, ValidPlans
<1>2. derive_offer(o, limit) = derive(o.geometry, limit) /\ derive(o.geometry, limit) # NoPlan
  BY <1>1 DEF derive_offer
<1>3. o.geometry \in Geometries /\ o.geometry.max_frame_bytes \in Nat
  BY OfferSizes
<1> QED
  BY <1>2, <1>3, DeriveWithinBudget

\* A configuration that validate() accepts leads to a receive plan that is
\* valid, whose bytes are those of its ring without overflow, that the pinned
\* budget and a caller's buffer can hold, and that is no larger than what the
\* caller asked for or discovery offered.
THEOREM UpperPlanFits ==
  ASSUME Limits, NEW c \in SubscriberConfigs, SubscriberConfigValidate(c) = "Ok"
  PROVE  LET p == upper_receive_plan(c) IN
         /\ p \in Plans /\ PlanValidate(p) = "Ok"
         /\ p.pinned_bytes = p.max_frame_bytes * p.ring_depth
         /\ p.pinned_bytes <= c.pinned_memory_limit_bytes
         /\ c.has_receive_buffer => p.pinned_bytes <= c.receive_buffer_bytes
         /\ p.max_frame_bytes <= Requested(c).max_frame_bytes
         /\ p.ring_depth <= Requested(c).ring_depth
         /\ p.credit_window <= Requested(c).credit_window
         /\ c.has_discovery_offer =>
              /\ p.max_frame_bytes <= c.discovery_offer.geometry.max_frame_bytes
              /\ p.ring_depth <= c.discovery_offer.geometry.ring_depth
              /\ p.credit_window <= c.discovery_offer.geometry.credit_window
<1> DEFINE r == Requested(c)
           p == upper_receive_plan(c)
           o == c.discovery_offer
           limit == c.pinned_memory_limit_bytes
           d == derive_offer(o, limit)
           budget == limit \div r.max_frame_bytes
           depth == Lesser(r.ring_depth, budget)
           Within(q) == /\ q.max_frame_bytes <= r.max_frame_bytes
                        /\ q.ring_depth <= r.ring_depth /\ q.credit_window <= r.credit_window
           Offered(q) == c.has_discovery_offer =>
                           /\ q.max_frame_bytes <= o.geometry.max_frame_bytes
                           /\ q.ring_depth <= o.geometry.ring_depth
                           /\ q.credit_window <= o.geometry.credit_window
<1>1. /\ limit \in Nat /\ o \in Offers /\ c.has_discovery_offer \in BOOLEAN
      /\ c.has_receive_plan \in BOOLEAN /\ c.has_receive_buffer \in BOOLEAN
      /\ c.receive_buffer_bytes \in Nat /\ c.receive_plan \in Plans
      /\ c.max_frame_bytes \in Nat /\ c.ring_depth \in Nat /\ c.credit_window \in Nat
  BY DEF SubscriberConfigs
<1>2. r \in Plans /\ r.max_frame_bytes \in Nat /\ r.ring_depth \in Nat /\ r.credit_window \in Nat
  BY RequestedPlan DEF Plans
<1>3. /\ c.has_receive_plan => PlanValidate(c.receive_plan) = "Ok"
      /\ validate_common(c, p.max_frame_bytes, p.ring_depth, p.credit_window) = "Ok"
      /\ ~(p.pinned_bytes > limit)
      /\ c.has_receive_buffer => ~(c.receive_buffer_bytes < p.pinned_bytes)
  BY Validated
<1>4. p.max_frame_bytes # 0
  <2>1. ~(p.max_frame_bytes < k_min_frame_bytes)
    BY <1>3 DEF validate_common
  <2>2. 0 < k_min_frame_bytes
    BY DEF Limits
  <2> QED
    BY <2>1, <2>2
<1>5. /\ p \in Plans /\ PlanValidate(p) = "Ok" /\ Within(p) /\ Offered(p)
  <2>1. CASE /\ c.has_discovery_offer /\ p = Smaller(r, d)
             /\ PlanValidate(r) = "Ok" /\ PlanValidate(d) = "Ok"
    <3>1. /\ d \in Plans /\ d.max_frame_bytes <= o.geometry.max_frame_bytes
          /\ d.ring_depth <= o.geometry.ring_depth
          /\ d.credit_window <= o.geometry.credit_window
      BY <1>1, <2>1, DeriveOffer
    <3> HIDE DEF r, d
    <3>2. /\ d.max_frame_bytes \in Nat /\ d.ring_depth \in Nat /\ d.credit_window \in Nat
      BY <3>1 DEF Plans
    <3>3. /\ Allowed(r.max_frame_bytes, r.ring_depth, r.credit_window)
          /\ Allowed(d.max_frame_bytes, d.ring_depth, d.credit_window)
      BY <1>2, <2>1, <3>1, ValidPlans
    <3>4. /\ p \in Plans /\ PlanValidate(p) = "Ok" /\ Within(p)
          /\ p.max_frame_bytes <= d.max_frame_bytes /\ p.ring_depth <= d.ring_depth
          /\ p.credit_window <= d.credit_window
      BY <1>2, <2>1, <3>2, <3>3, SmallerAllowed
    <3>5. /\ o.geometry.max_frame_bytes \in Nat /\ o.geometry.ring_depth \in Nat
          /\ o.geometry.credit_window \in Nat
      BY <1>1, OfferSizes
    <3>6. p.max_frame_bytes \in Nat /\ p.ring_depth \in Nat /\ p.credit_window \in Nat
      BY <3>4 DEF Plans
    <3> HIDE DEF p, o
    <3> QED
      BY <3>1, <3>2, <3>4, <3>5, <3>6
  <2>2. CASE ~c.has_discovery_offer /\ p = r
    <3>1. Allowed(r.max_frame_bytes, r.ring_depth, r.credit_window)
      BY <1>2, <1>3, <2>2, CommonAllowed
    <3>2. r.pinned_bytes = r.max_frame_bytes * r.ring_depth
      <4>1. CASE c.has_receive_plan
        BY <1>1, <1>3, <4>1, ValidPlans DEF Requested
      <4>2. CASE ~c.has_receive_plan
        <5>1. r = from_limits(c.max_frame_bytes, c.ring_depth, c.credit_window)
          BY <4>2 DEF Requested
        <5> HIDE DEF r
        <5> QED
          BY <1>1, <3>1, <5>1, FromLimitsExact
      <4> QED
        BY <1>1, <4>1, <4>2
    <3> HIDE DEF r, p
    <3> QED
      BY <1>2, <2>2, <3>1, <3>2, ValidPlans
  <2>3. CASE /\ ~c.has_discovery_offer
             /\ ~(budget < k_min_ring_depth) /\ r.max_frame_bytes # 0
             /\ p = [from_limits(r.max_frame_bytes, depth, r.credit_window)
                       EXCEPT !.credit_window = Lesser(@, depth)]
    <3>1. budget \in Nat
      BY <1>1, <1>2, <2>3, DivBounds
    <3> HIDE DEF budget
    <3>2. depth \in Nat /\ depth <= r.ring_depth
      BY <1>2, <3>1, LesserNat
    <3> DEFINE w == Lesser(r.credit_window, depth)
               q == from_limits(r.max_frame_bytes, depth, r.credit_window)
    <3> HIDE DEF depth
    <3>3. w \in Nat /\ w <= r.credit_window
      BY <1>2, <3>2, LesserNat
    <3>4. /\ q \in Plans /\ q.max_frame_bytes = r.max_frame_bytes /\ q.ring_depth = depth
          /\ q.credit_window = r.credit_window
          /\ q.pinned_bytes = IF checked_bytes(r.max_frame_bytes, depth)
                                THEN r.max_frame_bytes * depth ELSE U64 - 1
      BY <1>2, <3>2, FromLimits DEF from_limits
    <3> HIDE DEF q
    <3>5. /\ p \in Plans /\ p.max_frame_bytes = r.max_frame_bytes /\ p.ring_depth = depth
          /\ p.credit_window = w /\ p.pinned_bytes = q.pinned_bytes
      <4>1. p = [q EXCEPT !.credit_window = Lesser(@, depth)]
        BY <2>3 DEF q
      <4> HIDE DEF p
      <4> QED
        BY <3>3, <3>4, <4>1 DEF Plans
    <3> HIDE DEF p, w
    <3>6. Allowed(r.max_frame_bytes, depth, w)
      BY <1>2, <1>3, <3>2, <3>3, <3>5, CommonAllowed
    <3>7. checked_bytes(r.max_frame_bytes, depth)
      BY <1>2, <3>2, <3>3, <3>6, AllowedFits
    <3>8. PlanValidate(p) = "Ok"
      BY <3>4, <3>5, <3>6, <3>7, ValidPlans
    <3> QED
      BY <1>2, <2>3, <3>2, <3>3, <3>5, <3>8
  <2> QED
    BY <1>1, <1>4, <2>1, <2>2, <2>3, UpperCases
<1>6. p.pinned_bytes = p.max_frame_bytes * p.ring_depth
  BY <1>5, ValidPlans
<1> HIDE DEF p
<1>7. /\ p.pinned_bytes <= limit
      /\ c.has_receive_buffer => p.pinned_bytes <= c.receive_buffer_bytes
  BY <1>1, <1>3, <1>5 DEF Plans
<1> QED
  BY <1>5, <1>6, <1>7 DEF p

LEMMA NormalizedFields ==
  ASSUME Limits, NEW c \in SubscriberConfigs, upper_receive_plan(c) \in Plans
  PROVE  LET n == Normalized(c)
             p == upper_receive_plan(c) IN
         /\ n \in SubscriberConfigs
         /\ n.max_frame_bytes = p.max_frame_bytes /\ n.ring_depth = p.ring_depth
         /\ n.credit_window = p.credit_window
         /\ \A f \in DOMAIN c \ {"max_frame_bytes", "ring_depth", "credit_window"} : n[f] = c[f]
<1> DEFINE p == upper_receive_plan(c)
<1>1. p.max_frame_bytes \in Nat /\ p.ring_depth \in Nat /\ p.credit_window \in Nat
  BY DEF Plans
<1>2. Normalized(c) =
        [c EXCEPT !.max_frame_bytes = p.max_frame_bytes, !.ring_depth = p.ring_depth,
                  !.credit_window = p.credit_window]
  BY DEF Normalized
<1> HIDE DEF p
<1>3. Normalized(c) \in SubscriberConfigs
  BY <1>1, <1>2 DEF SubscriberConfigs
<1>4. /\ Normalized(c).max_frame_bytes = p.max_frame_bytes
      /\ Normalized(c).ring_depth = p.ring_depth
      /\ Normalized(c).credit_window = p.credit_window
      /\ \A f \in DOMAIN c \ {"max_frame_bytes", "ring_depth", "credit_window"} :
           Normalized(c)[f] = c[f]
  BY <1>2 DEF SubscriberConfigs
<1> QED
  BY <1>3, <1>4 DEF p

LEMMA LesserOfSmaller == \A a, b \in Nat : a <= b => Lesser(a, b) = a
  BY DEF Lesser

\* Normalising is a fixed point: the configuration a subscription keeps is
\* accepted again, with the same plan, by every SubscriberEngine it builds for
\* a reconnect, so a ring is never laid out differently from the first one.
THEOREM NormalizedStable ==
  ASSUME Limits, NEW c \in SubscriberConfigs, SubscriberConfigValidate(c) = "Ok"
  PROVE  /\ SubscriberConfigValidate(Normalized(c)) = "Ok"
         /\ upper_receive_plan(Normalized(c)) = upper_receive_plan(c)
<1> DEFINE n == Normalized(c)
           p == upper_receive_plan(c)
           d == derive_offer(c.discovery_offer, c.pinned_memory_limit_bytes)
<1>1. /\ p \in Plans /\ PlanValidate(p) = "Ok" /\ p.pinned_bytes <= c.pinned_memory_limit_bytes
  BY UpperPlanFits
<1>2. p.max_frame_bytes # 0
  BY <1>1, ValidPlans DEF Allowed, Limits, Plans
<1>3. /\ n.max_frame_bytes = p.max_frame_bytes /\ n.ring_depth = p.ring_depth
      /\ n.credit_window = p.credit_window
      /\ n.stream_name = c.stream_name /\ n.delivery_queue_depth = c.delivery_queue_depth
      /\ n.establishment_timeout_ms = c.establishment_timeout_ms
      /\ n.command_timeout_ms = c.command_timeout_ms /\ n.probe_timeout_ms = c.probe_timeout_ms
      /\ n.pinned_memory_limit_bytes = c.pinned_memory_limit_bytes
      /\ n.engine_cpu_affinity = c.engine_cpu_affinity
      /\ n.has_receive_buffer = c.has_receive_buffer
      /\ n.receive_buffer_bytes = c.receive_buffer_bytes
      /\ n.receive_memory_kind = c.receive_memory_kind
      /\ n.has_receive_plan = c.has_receive_plan /\ n.receive_plan = c.receive_plan
      /\ n.has_discovery_offer = c.has_discovery_offer
      /\ n.discovery_offer = c.discovery_offer
  BY <1>1, NormalizedFields, ZenonT(40) DEF SubscriberConfigs
<1>4. /\ c.has_receive_plan \in BOOLEAN /\ c.has_discovery_offer \in BOOLEAN
      /\ c.pinned_memory_limit_bytes \in Nat /\ c.discovery_offer \in Offers
  BY DEF SubscriberConfigs
<1>5. Requested(n) = IF c.has_receive_plan THEN Requested(c) ELSE p
  <2>1. from_limits(p.max_frame_bytes, p.ring_depth, p.credit_window) = p
    BY <1>1, PlanOfSizes
  <2> HIDE DEF n, p
  <2> QED
    BY <1>3, <2>1 DEF Requested
<1> HIDE DEF n
<1>6. upper_receive_plan(n) = p
  <2>1. CASE c.has_discovery_offer
    <3>1. /\ p = intersect(Requested(c), d) /\ upper_receive_plan(n) = intersect(Requested(n), d)
      BY <1>3, <2>1 DEF upper_receive_plan
    <3>2. CASE c.has_receive_plan
      BY <1>5, <3>1, <3>2
    <3>3. CASE ~c.has_receive_plan
      <4>1. /\ PlanValidate(Requested(c)) = "Ok" /\ PlanValidate(d) = "Ok"
            /\ p = Smaller(Requested(c), d)
        BY <1>2, <3>1 DEF intersect, NoPlan
      <4>2. d \in Plans /\ Requested(c) \in Plans
        BY <1>4, <4>1, DeriveOffer, RequestedPlan
      <4> DEFINE r == Requested(c)
      <4> HIDE DEF d, r
      <4>3. /\ Allowed(r.max_frame_bytes, r.ring_depth, r.credit_window)
            /\ Allowed(d.max_frame_bytes, d.ring_depth, d.credit_window)
        BY <4>1, <4>2, ValidPlans DEF r
      <4>4. /\ r.max_frame_bytes \in Nat /\ r.ring_depth \in Nat /\ r.credit_window \in Nat
            /\ d.max_frame_bytes \in Nat /\ d.ring_depth \in Nat /\ d.credit_window \in Nat
            /\ p.max_frame_bytes \in Nat /\ p.ring_depth \in Nat /\ p.credit_window \in Nat
        BY <1>1, <4>2 DEF Plans, r
      <4>5. /\ p.max_frame_bytes <= d.max_frame_bytes /\ p.ring_depth <= d.ring_depth
            /\ p.credit_window <= d.credit_window
        <5>1. p = Smaller(r, d)
          BY <4>1 DEF r
        <5> HIDE DEF p
        <5> QED
          BY <4>3, <4>4, <5>1, SmallerAllowed
      <4> HIDE DEF p
      <4>6. Smaller(p, d) = from_limits(p.max_frame_bytes, p.ring_depth, p.credit_window)
        BY <4>4, <4>5, LesserOfSmaller DEF Smaller
      <4>7. Smaller(p, d) = p
        BY <1>1, <4>6, PlanOfSizes
      <4> QED
        BY <1>1, <1>5, <3>1, <3>3, <4>1, <4>7 DEF intersect
    <3> QED
      BY <1>4, <3>2, <3>3
  <2>2. CASE ~c.has_discovery_offer
    <3>1. CASE c.has_receive_plan
      <4>1. p = Requested(c) /\ upper_receive_plan(n) = Requested(n)
        BY <1>3, <2>2, <3>1 DEF upper_receive_plan
      <4> QED
        BY <1>5, <3>1, <4>1
    <3>2. CASE ~c.has_receive_plan
      <4>1. Requested(n) = p
        BY <1>5, <3>2
      <4>2. n.pinned_memory_limit_bytes = c.pinned_memory_limit_bytes /\ ~n.has_discovery_offer
        BY <1>3, <2>2
      <4> HIDE DEF p
      <4> QED
        BY <1>1, <4>1, <4>2 DEF upper_receive_plan
    <3> QED
      BY <1>4, <3>1, <3>2
  <2> QED
    BY <1>4, <2>1, <2>2
<1> HIDE DEF p
<1>7. validate_common(n, p.max_frame_bytes, p.ring_depth, p.credit_window) =
        validate_common(c, p.max_frame_bytes, p.ring_depth, p.credit_window)
  BY <1>3 DEF validate_common
<1>8. SubscriberConfigValidate(n) = "Ok"
  BY <1>2, <1>3, <1>6, <1>7 DEF SubscriberConfigValidate, p
<1> QED
  BY <1>6, <1>8 DEF n, p

-----------------------------------------------------------------------------
(* Publishers                                                              *)

PublisherConfigs ==
  [stream_name : Seq({"word", "bar", "other"}),
   max_frame_bytes : Nat, ring_depth : Nat, credit_window : Nat,
   frame_metadata : Frames, pinned_memory_limit_bytes : Nat, max_sessions : Nat,
   fanout_mode : STRING, publish_queue_depth : Nat, lease_ttl_ms : Nat,
   renew_interval_ms : Nat, max_renewals_per_ttl : Nat, engine_cpu_affinity : Int]

ElementLimits ==
  /\ k_min_element_size \in Nat /\ k_min_element_size <= 1
  /\ k_max_element_size \in Nat /\ 1 <= k_max_element_size

\* Whether an array fits depends on the array, and grows with the limit.
LEMMA ArrayFits ==
  ASSUME U64 \in Nat, NEW f, IsArray(f), NEW l \in Nat, NEW g, NEW m \in Nat,
         validate_shape_and_strides(f, l) = "Ok",
         g.rank = f.rank, g.element_size = f.element_size,
         g.shape = f.shape, g.strides = f.strides
  PROVE  /\ described_bytes(g) = described_bytes(f) /\ Empty(g) = Empty(f) /\ Span(g) = Span(f)
         /\ l <= m => validate_shape_and_strides(g, m) = "Ok"
         /\ validate_shape_and_strides(g, m) = "Ok" <=>
              /\ described_bytes(f) <= m
              /\ Empty(f) \/ Span(f) <= m
<1>1. /\ described_bytes(f) = described_bytes(g)
      /\ ElementsOverflow(f) = ElementsOverflow(g) /\ Empty(f) = Empty(g)
  BY SameExtents
<1>2. /\ Span(f) = Span(g) /\ SpanOverflow(f) = SpanOverflow(g)
  <2>1. \A i \in Axes : Reach(f, i) = Reach(g, i)
    BY DEF Reach
  <2> QED
    BY <2>1, AxesFour DEF Span, SpanOverflow
<1>3. described_bytes(f) \in Nat
  BY ElementsNat
<1>4. ~Empty(f) => Span(f) \in Nat
  <2> SUFFICES ASSUME ~Empty(f) PROVE Span(f) \in Nat
    OBVIOUS
  <2>1. \A i \in Axes : Reach(f, i) \in Nat
    <3> SUFFICES ASSUME NEW i \in Axes PROVE Reach(f, i) \in Nat
      OBVIOUS
    <3>1. f.shape[i] \in Nat /\ f.strides[i] \in Nat /\ (i <= f.rank => f.shape[i] >= 1)
      BY IndexNotEmpty DEF IsArray
    <3>2. i <= f.rank => f.shape[i] - 1 \in Nat
      BY <3>1
    <3> QED
      BY <3>1, <3>2, MulNat DEF Reach
  <2> QED
    BY <2>1, AxesFour DEF Span, IsArray
<1>5. /\ ~(f.rank > k_max_rank)
      /\ ~\E i \in Axes : i > f.rank /\ (f.shape[i] # 0 \/ f.strides[i] # 0)
      /\ ~ElementsOverflow(f) /\ ~(described_bytes(f) >= U64)
      /\ ~(described_bytes(f) > l)
      /\ ~(~Empty(f) /\ (SpanOverflow(f) \/ Span(f) > l))
  BY DEF validate_shape_and_strides
<1>6. validate_shape_and_strides(g, m) = "Ok" <=>
        /\ ~(described_bytes(f) > m) /\ ~(~Empty(f) /\ Span(f) > m)
  BY <1>1, <1>2, <1>5 DEF validate_shape_and_strides
<1> QED
  BY <1>1, <1>2, <1>3, <1>4, <1>5, <1>6

\* The metadata a publisher keeps describes an array that fits its frames.
LEMMA KeptMetadata ==
  ASSUME Limits, ElementLimits, NEW c \in PublisherConfigs, Constructed(c)
  PROVE  LET k == Described(c)
             f == k.frame_metadata IN
         /\ k.max_frame_bytes = c.max_frame_bytes /\ k.ring_depth = c.ring_depth
         /\ k.credit_window = c.credit_window /\ k.stream_name = c.stream_name
         /\ Allowed(c.max_frame_bytes, c.ring_depth, c.credit_window)
         /\ valid_stream_name(c.stream_name)
         /\ f \in Frames /\ validate_element_size(f) = "Ok"
         /\ f.payload_bytes <= c.max_frame_bytes
         /\ validate_shape_and_strides(f, f.payload_bytes) = "Ok"
<1> DEFINE k == Described(c)
           f == k.frame_metadata
           m == c.frame_metadata
           most == c.max_frame_bytes
<1>1. /\ m \in Frames /\ most \in Nat /\ c.ring_depth \in Nat /\ c.credit_window \in Nat
      /\ m.element_type \in Nat /\ m.rank \in Nat
  BY DEF PublisherConfigs, Frames
<1>2. /\ k.max_frame_bytes = most /\ k.ring_depth = c.ring_depth
      /\ k.credit_window = c.credit_window /\ k.stream_name = c.stream_name
  BY DEF Described, PublisherConfigs
<1>3. /\ PublisherConfigValidate(k) = "Ok"
      /\ validate_common(k, most, c.ring_depth, c.credit_window) = "Ok"
  BY <1>2 DEF Constructed, PublisherConfigValidate
<1>4. Allowed(most, c.ring_depth, c.credit_window) /\ most # 0
  BY <1>1, <1>3, CommonAllowed
<1>5. valid_stream_name(c.stream_name)
  BY <1>2, <1>3 DEF validate_common
<1>6. f \in Frames /\ FrameValidate(f, most) = "Ok"
  <2>1. CASE m.element_type = Unknown /\ m.rank = 0
    <3>1. f = [m EXCEPT !.element_type = 11, !.element_size = 1, !.payload_bytes = most]
      BY <2>1 DEF Described, PublisherConfigs
    <3> HIDE DEF f, m, most
    <3>2. /\ f \in Frames /\ f.element_type = 11 /\ f.element_size = 1
          /\ f.payload_bytes = most /\ f.rank = 0
      BY <1>1, <2>1, <3>1 DEF Frames
    <3>3. resolve(f, most).status = "Ok"
      <4>1. f.element_type # Unknown
        BY <3>2 DEF Unknown
      <4> QED
        BY <1>2, <1>3, <4>1 DEF PublisherConfigValidate, f, most
    <3> DEFINE s == Sized(f)
               q == Strided(Paid(s))
    <3>4. FrameValidate(q, most) = "Ok"
      BY <3>3 DEF resolve
    <3>5. /\ q.rank = f.rank /\ q.shape = f.shape /\ q.element_type = f.element_type
          /\ q.element_size = f.element_size /\ q.payload_bytes = f.payload_bytes
          /\ q.strides = f.strides
      BY <1>4, <3>2, ResolvedFields
    <3>6. q \in Frames
      BY <3>2, ResolvedIsFrame
    <3> HIDE DEF q
    <3>7. q = f
      BY <3>2, <3>5, <3>6 DEF Frames
    <3> QED
      BY <3>2, <3>4, <3>7
  <2>2. CASE ~(m.element_type = Unknown /\ m.rank = 0)
    <3>1. f = resolve(m, most).frame
      BY <2>2 DEF Described, PublisherConfigs
    <3>2. resolve(m, most).status = "Ok"
      BY <2>2 DEF Constructed
    <3>3. f = Strided(Paid(Sized(m))) /\ FrameValidate(f, most) = "Ok"
      BY <3>1, <3>2 DEF resolve
    <3> QED
      BY <1>1, <3>3, ResolvedIsFrame
  <2> QED
    BY <2>1, <2>2
<1> HIDE DEF k, f, most
<1>7. /\ validate_element_size(f) = "Ok" /\ ~(f.payload_bytes > most)
      /\ validate_shape_and_strides(f, f.payload_bytes) = "Ok"
  BY <1>6 DEF FrameValidate
<1>8. f.payload_bytes \in Nat
  BY <1>6 DEF Frames
<1> QED
  BY <1>1, <1>2, <1>4, <1>5, <1>6, <1>7, <1>8 DEF k, f, most

LEMMA SameElements ==
  ASSUME NEW f, NEW g, g.element_type = f.element_type, g.element_size = f.element_size,
         validate_element_size(f) = "Ok"
  PROVE  validate_element_size(g) = "Ok"
  BY DEF validate_element_size

\* A geometry is accepted when its sizes are allowed and its array fits.
LEMMA GeometryAccepted ==
  ASSUME Limits, NEW g, g.generation # 0, validate_element_size(g) = "Ok",
         g.max_frame_bytes \in Nat, g.ring_depth \in Nat, g.credit_window \in Nat,
         Allowed(g.max_frame_bytes, g.ring_depth, g.credit_window)
  PROVE  GeometryValidate(g) = "Ok" <=> validate_shape_and_strides(g, g.max_frame_bytes) = "Ok"
<1>1. /\ ~(g.max_frame_bytes < k_min_frame_bytes)
      /\ ~(g.max_frame_bytes > k_max_frame_bytes_hard_cap)
      /\ ~(g.ring_depth < k_min_ring_depth) /\ ~(g.ring_depth > k_max_ring_depth)
      /\ g.credit_window # 0 /\ ~(g.credit_window > g.ring_depth)
  BY DEF Allowed, Limits
<1> QED
  BY <1>1 DEF GeometryValidate

LEMMA GeometryOfFields ==
  ASSUME NEW k, NEW generation
  PROVE  LET g == current_geometry(k, generation)
             f == k.frame_metadata IN
         /\ g.generation = generation /\ g.max_frame_bytes = k.max_frame_bytes
         /\ g.ring_depth = k.ring_depth /\ g.credit_window = k.credit_window
         /\ g.element_type = f.element_type /\ g.element_size = f.element_size
         /\ g.rank = f.rank /\ g.shape = f.shape /\ g.strides = f.strides
  BY DEF current_geometry

\* What a publisher announces is acceptable: once the constructor has not
\* thrown, the offer of every snapshot passes the client's validate().
THEOREM AnnouncedValid ==
  ASSUME Limits, ElementLimits, NEW c \in PublisherConfigs, Constructed(c),
         NEW generation \in Nat, generation # 0
  PROVE  StreamOfferValidate(stream_offer(Described(c), generation)) = "Ok"
<1> DEFINE k == Described(c)
           f == k.frame_metadata
           g == current_geometry(k, generation)
           o == stream_offer(k, generation)
<1>1. /\ k.max_frame_bytes = c.max_frame_bytes /\ k.ring_depth = c.ring_depth
      /\ k.credit_window = c.credit_window /\ k.stream_name = c.stream_name
      /\ Allowed(c.max_frame_bytes, c.ring_depth, c.credit_window)
      /\ valid_stream_name(c.stream_name)
      /\ f \in Frames /\ validate_element_size(f) = "Ok"
      /\ f.payload_bytes <= c.max_frame_bytes
      /\ validate_shape_and_strides(f, f.payload_bytes) = "Ok"
  BY KeptMetadata
<1>2. /\ o.version = k_version /\ o.status = "Ok" /\ o.stream_name = k.stream_name
      /\ o.age_ms = 0 /\ o.geometry = g
  BY DEF stream_offer, NoOffer
<1>3. /\ g.generation = generation /\ g.max_frame_bytes = k.max_frame_bytes
      /\ g.ring_depth = k.ring_depth /\ g.credit_window = k.credit_window
      /\ g.element_type = f.element_type /\ g.element_size = f.element_size
      /\ g.rank = f.rank /\ g.shape = f.shape /\ g.strides = f.strides
  BY GeometryOfFields
<1> HIDE DEF k, f, g, o
<1>4. /\ c.max_frame_bytes \in Nat /\ c.ring_depth \in Nat /\ c.credit_window \in Nat
      /\ f.payload_bytes \in Nat /\ IsArray(f) /\ U64 \in Nat
  BY <1>1, FrameIsArray DEF PublisherConfigs, Frames, Limits
<1>5. validate_shape_and_strides(g, g.max_frame_bytes) = "Ok"
  BY <1>1, <1>3, <1>4, ArrayFits, SMTT(30)
<1>6. validate_element_size(g) = "Ok"
  BY <1>1, <1>3, SameElements
<1>7. GeometryValidate(g) = "Ok"
  BY <1>1, <1>3, <1>4, <1>5, <1>6, GeometryAccepted
<1>8. ~(0 > k_max_age_ms)
  BY DEF Limits
<1>9. StreamOfferValidate(o) = "Ok"
  BY <1>1, <1>2, <1>7, <1>8 DEF StreamOfferValidate
<1> QED
  BY <1>9 DEF o, k

\* The sizes of an Open between a constructed publisher and a subscriber whose
\* configuration was accepted are never refused, the grant fits the ring the
\* subscriber laid out before it asked, and the subscriber refuses it in one
\* case only: the publisher's array does not fit the smaller frame.
THEOREM GrantAdopted ==
  ASSUME Limits, ElementLimits,
         NEW c \in PublisherConfigs, Constructed(c), NEW generation \in Nat, generation # 0,
         NEW s \in SubscriberConfigs, SubscriberConfigValidate(s) = "Ok"
  PROVE  LET k == Described(c)
             n == Normalized(s)
             p == upper_receive_plan(s)
             g == grant(k, generation, make_open_request(n))
             f == k.frame_metadata IN
         /\ granted(g)
         /\ g.credit_window <= g.ring_depth
         /\ g.max_frame_bytes * g.ring_depth <= p.pinned_bytes
         /\ adopt_open_reply(n, g) = "Ok" <=>
              /\ described_bytes(f) <= g.max_frame_bytes
              /\ Empty(f) \/ Span(f) <= g.max_frame_bytes
<1> DEFINE k == Described(c)
           n == Normalized(s)
           p == upper_receive_plan(s)
           g == grant(k, generation, make_open_request(n))
           f == k.frame_metadata
           most == Lesser(p.max_frame_bytes, c.max_frame_bytes)
           deep == Lesser(p.ring_depth, c.ring_depth)
           wide == Lesser(p.credit_window, c.credit_window)
<1>1. /\ k.max_frame_bytes = c.max_frame_bytes /\ k.ring_depth = c.ring_depth
      /\ k.credit_window = c.credit_window
      /\ Allowed(c.max_frame_bytes, c.ring_depth, c.credit_window)
      /\ f \in Frames /\ validate_element_size(f) = "Ok"
      /\ f.payload_bytes <= c.max_frame_bytes
      /\ validate_shape_and_strides(f, f.payload_bytes) = "Ok"
  BY KeptMetadata
<1>2. /\ p \in Plans /\ PlanValidate(p) = "Ok"
      /\ p.pinned_bytes = p.max_frame_bytes * p.ring_depth
  BY UpperPlanFits
<1>3. /\ n.max_frame_bytes = p.max_frame_bytes /\ n.ring_depth = p.ring_depth
      /\ n.credit_window = p.credit_window
  BY <1>2, NormalizedFields
<1> HIDE DEF p, n
<1>4. /\ p.max_frame_bytes \in Nat /\ p.ring_depth \in Nat /\ p.credit_window \in Nat
      /\ c.max_frame_bytes \in Nat /\ c.ring_depth \in Nat /\ c.credit_window \in Nat
  BY <1>2 DEF Plans, PublisherConfigs
<1>5. Allowed(p.max_frame_bytes, p.ring_depth, p.credit_window)
  BY <1>2, ValidPlans
<1>6. /\ make_open_request(n).requested_max_frame_bytes = p.max_frame_bytes
      /\ make_open_request(n).requested_ring_depth = p.ring_depth
      /\ make_open_request(n).requested_credit_window = p.credit_window
  BY <1>3 DEF make_open_request, from_limits
<1>7. /\ g.max_frame_bytes = most /\ g.ring_depth = deep /\ g.credit_window = wide
      /\ g.generation = generation
      /\ g.element_type = f.element_type /\ g.element_size = f.element_size
      /\ g.rank = f.rank /\ g.shape = f.shape /\ g.strides = f.strides
  BY <1>1, <1>6 DEF grant, current_geometry
<1> HIDE DEF g, k, f
<1>8. /\ most \in Nat /\ most <= p.max_frame_bytes /\ most \in {p.max_frame_bytes, c.max_frame_bytes}
      /\ deep \in Nat /\ deep <= p.ring_depth /\ deep \in {p.ring_depth, c.ring_depth}
      /\ wide \in Nat /\ wide <= p.credit_window /\ wide <= c.credit_window
      /\ wide \in {p.credit_window, c.credit_window}
  BY <1>4, LesserNat
<1> HIDE DEF most, deep, wide
<1>9. Allowed(most, deep, wide)
  BY <1>1, <1>4, <1>5, <1>8 DEF Allowed, Limits
<1>10. granted(g) /\ g.credit_window <= g.ring_depth
  BY <1>7, <1>8, <1>9 DEF granted, Allowed, Limits
<1>11. g.max_frame_bytes * g.ring_depth <= p.pinned_bytes
  <2>1. most * deep <= p.max_frame_bytes * deep /\ deep * p.max_frame_bytes <= p.ring_depth * p.max_frame_bytes
    BY <1>4, <1>8, MulMono
  <2>2. /\ deep * p.max_frame_bytes = p.max_frame_bytes * deep
        /\ p.ring_depth * p.max_frame_bytes = p.max_frame_bytes * p.ring_depth
        /\ most * deep \in Nat /\ p.max_frame_bytes * deep \in Nat
        /\ p.max_frame_bytes * p.ring_depth \in Nat
    BY <1>4, <1>8, MulComm, MulNat
  <2> DEFINE x == most * deep
             y == p.max_frame_bytes * deep
             z == p.max_frame_bytes * p.ring_depth
  <2>3. x <= y /\ y <= z /\ x \in Nat /\ y \in Nat /\ z \in Nat
    BY <2>1, <2>2
  <2> HIDE DEF x, y, z
  <2>4. x <= z
    BY <2>3
  <2> QED
    BY <1>2, <1>7, <2>4 DEF x, z
<1>12. /\ validate_element_size(g) = "Ok"
  BY <1>1, <1>7, SameElements
<1>13. /\ IsArray(f) /\ f.payload_bytes \in Nat /\ U64 \in Nat
  BY <1>1, FrameIsArray DEF Frames, Limits
<1>14. validate_shape_and_strides(g, most) = "Ok" <=>
         /\ described_bytes(f) <= most
         /\ Empty(f) \/ Span(f) <= most
  BY <1>1, <1>7, <1>8, <1>13, ArrayFits
<1>15. GeometryValidate(g) = "Ok" <=> validate_shape_and_strides(g, most) = "Ok"
  BY <1>7, <1>8, <1>9, <1>12, GeometryAccepted
<1>16. adopt_open_reply(n, g) = "Ok" <=> GeometryValidate(g) = "Ok"
  BY <1>3, <1>4, <1>7, <1>8 DEF adopt_open_reply
<1> QED
  BY <1>7, <1>10, <1>11, <1>14, <1>15, <1>16 DEF g, k, n, p, f

-----------------------------------------------------------------------------
(* Rings                                                                   *)

LEMMA StrideHoldsSlot ==
  ASSUME NEW slot_bytes \in Nat, NEW pad \in BOOLEAN
  PROVE  /\ compute_stride(slot_bytes, pad) \in Nat
         /\ slot_bytes <= compute_stride(slot_bytes, pad)
<1> DEFINE q == (slot_bytes + k_page_bytes - 1) \div k_page_bytes
           pages == q * k_page_bytes
<1>1. slot_bytes + k_page_bytes - 1 \in Nat /\ k_page_bytes \in Nat /\ k_page_bytes >= 1
  BY DEF k_page_bytes
<1>2. /\ q \in Nat /\ slot_bytes + k_page_bytes - 1 < k_page_bytes * (q + 1)
  BY <1>1, DivBounds
<1>3. pages \in Nat /\ slot_bytes <= pages
  BY <1>2 DEF k_page_bytes
<1> HIDE DEF pages
<1>4. compute_stride(slot_bytes, pad) \in {slot_bytes, pages, pages + k_page_bytes}
  BY DEF compute_stride, pages
<1> QED
  BY <1>1, <1>3, <1>4

\* In a ring of either kind every slot lies inside the registered region, and
\* two slots never share a byte (RegisteredRing::slot(), compute_stride()).
THEOREM SlotsApart ==
  ASSUME NEW slot_bytes \in Nat, NEW depth \in Nat, NEW pad \in BOOLEAN
  PROVE  LET stride == compute_stride(slot_bytes, pad) IN
         \A i \in 0..(depth - 1) :
           /\ slot(i, stride) + slot_bytes <= stride * depth
           /\ \A j \in 0..(depth - 1) : i < j => slot(i, stride) + slot_bytes <= slot(j, stride)
<1> DEFINE stride == compute_stride(slot_bytes, pad)
<1>1. stride \in Nat /\ slot_bytes <= stride
  BY StrideHoldsSlot
<1> HIDE DEF stride
<1>2. ASSUME NEW i \in Nat, NEW j \in Nat, i + 1 <= j
      PROVE  i * stride + slot_bytes <= j * stride
  <2>1. (i + 1) * stride <= j * stride
    BY <1>1, <1>2, MulMono
  <2>2. (i + 1) * stride = i * stride + stride
    BY <1>1
  <2>3. i * stride \in Nat /\ j * stride \in Nat
    BY <1>1, MulNat
  <2> QED
    BY <1>1, <2>1, <2>2, <2>3
<1>3. stride * depth = depth * stride
  BY <1>1, MulComm
<1>4. ASSUME NEW i \in 0..(depth - 1), NEW j \in 0..(depth - 1)
      PROVE  /\ i * stride + slot_bytes <= depth * stride
             /\ i < j => i * stride + slot_bytes <= j * stride
  <2>1. i \in Nat /\ j \in Nat /\ i + 1 <= depth /\ (i < j => i + 1 <= j)
    OBVIOUS
  <2> QED
    BY <1>2, <2>1
<1>5. ASSUME NEW i \in 0..(depth - 1)
      PROVE  /\ slot(i, stride) + slot_bytes <= stride * depth
             /\ \A j \in 0..(depth - 1) : i < j => slot(i, stride) + slot_bytes <= slot(j, stride)
  BY <1>3, <1>4 DEF slot
<1> QED
  BY <1>5 DEF stride

\* The receive ring of an accepted configuration is always registered: its
\* size is that of the plan, or the caller's buffer, which holds the plan; it
\* stays within the pinned budget; and the slot of every sequence is inside it.
THEOREM ReceiveRingFits ==
  ASSUME Limits, NEW c \in SubscriberConfigs, SubscriberConfigValidate(c) = "Ok"
  PROVE  LET n == Normalized(c)
             region == receive_region(n)
             stride == compute_stride(n.max_frame_bytes, FALSE)
         IN /\ region \in Nat
            /\ upper_receive_plan(c).pinned_bytes <= region
            /\ region <= c.pinned_memory_limit_bytes
            /\ \A sequence \in Nat :
                 slot(sequence % n.ring_depth, stride) + n.max_frame_bytes <= region
<1> DEFINE p == upper_receive_plan(c)
           n == Normalized(c)
           region == receive_region(n)
           f == n.max_frame_bytes
           d == n.ring_depth
<1>1. /\ p \in Plans /\ PlanValidate(p) = "Ok" /\ p.pinned_bytes = p.max_frame_bytes * p.ring_depth
      /\ p.pinned_bytes <= c.pinned_memory_limit_bytes
      /\ c.has_receive_buffer => p.pinned_bytes <= c.receive_buffer_bytes
  BY UpperPlanFits
<1>2. /\ n.max_frame_bytes = p.max_frame_bytes /\ n.ring_depth = p.ring_depth
      /\ n.has_receive_buffer = c.has_receive_buffer
      /\ n.receive_buffer_bytes = c.receive_buffer_bytes
  <2>1. /\ n.max_frame_bytes = p.max_frame_bytes /\ n.ring_depth = p.ring_depth
        /\ \A g \in DOMAIN c \ {"max_frame_bytes", "ring_depth", "credit_window"} : n[g] = c[g]
    BY <1>1, NormalizedFields
  <2>2. {"has_receive_buffer", "receive_buffer_bytes"} \subseteq DOMAIN c
    BY DEF SubscriberConfigs
  <2> QED
    BY <2>1, <2>2
<1>3. /\ p.max_frame_bytes \in Nat /\ p.ring_depth \in Nat /\ p.credit_window \in Nat
      /\ p.pinned_bytes \in Nat /\ c.receive_buffer_bytes \in Nat
      /\ c.pinned_memory_limit_bytes \in Nat /\ c.has_receive_buffer \in BOOLEAN
  BY <1>1 DEF Plans, SubscriberConfigs
<1>4. Allowed(p.max_frame_bytes, p.ring_depth, p.credit_window)
  BY <1>1, ValidPlans
<1>5. checked_bytes(f, d) /\ f * d = p.pinned_bytes /\ f \in Nat /\ d \in Nat
  BY <1>1, <1>2, <1>3, <1>4, AllowedFits
<1>6. d >= 1
  BY <1>2, <1>3, <1>4 DEF Allowed, Limits
<1>7. c.has_receive_buffer => c.receive_buffer_bytes <= c.pinned_memory_limit_bytes
  BY <1>3, Validated
<1>8. compute_stride(f, FALSE) = f
  BY DEF compute_stride
<1>9. region = IF c.has_receive_buffer THEN c.receive_buffer_bytes ELSE p.pinned_bytes
  <2>1. CASE c.has_receive_buffer
    <3>1. ~(c.receive_buffer_bytes < f * d)
      BY <1>1, <1>3, <1>5, <2>1
    <3> HIDE DEF f, d, n, p
    <3>2. region = checked_caller_region(f, d, c.receive_buffer_bytes)
      BY <1>2, <2>1 DEF receive_region, f, d
    <3> QED
      BY <1>5, <2>1, <3>1, <3>2 DEF checked_caller_region
  <2>2. CASE ~c.has_receive_buffer
    <3> HIDE DEF f, d, n, p
    <3>1. region = checked_region_bytes(compute_stride(f, FALSE), d)
      BY <1>2, <2>2 DEF receive_region, f, d
    <3> QED
      BY <1>5, <1>8, <2>2, <3>1 DEF checked_region_bytes
  <2> QED
    BY <2>1, <2>2
<1> HIDE DEF f, d, n, p, region
<1>10. /\ region \in Nat /\ p.pinned_bytes <= region /\ region <= c.pinned_memory_limit_bytes
  BY <1>1, <1>3, <1>7, <1>9
<1>11. ASSUME NEW sequence \in Nat
       PROVE  slot(sequence % d, compute_stride(f, FALSE)) + f <= region
  <2>1. sequence % d \in 0..(d - 1)
    BY <1>5, <1>6
  <2>2. slot(sequence % d, compute_stride(f, FALSE)) + f <= compute_stride(f, FALSE) * d
    BY <1>5, <2>1, SlotsApart
  <2> DEFINE k == sequence % d
             start == slot(k, compute_stride(f, FALSE))
  <2>3. k \in Nat
    BY <1>5, <1>6, <2>1
  <2>4. start = k * f
    BY <1>8 DEF slot
  <2> HIDE DEF k
  <2>5. start \in Nat
    BY <1>5, <2>3, <2>4, MulNat
  <2>6. start + f <= p.pinned_bytes
    BY <1>5, <1>8, <2>2 DEF k
  <2> HIDE DEF start
  <2>7. start + f <= region
    BY <1>3, <1>5, <1>10, <2>5, <2>6
  <2> QED
    BY <2>7 DEF start, k
<1> QED
  BY <1>10, <1>11 DEF f, d, n, p, region
=============================================================================
