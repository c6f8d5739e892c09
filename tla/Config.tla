------------------------------- MODULE Config -------------------------------
(***************************************************************************)
(* What each side is configured with, and what the two agree on:           *)
(* src/core/config.cpp, the construction of a publisher, the clamping of   *)
(* an Open in handle_open() and its acceptance in adopt_open_reply().      *)
(*                                                                         *)
(* An optional field x of a configuration is the pair has_x, x.            *)
(***************************************************************************)
EXTENDS Geometry

CONSTANTS
  k_min_pinned_bytes, k_max_pinned_bytes, k_max_sessions,
  k_min_publish_queue, k_max_publish_queue,
  k_min_delivery_queue, k_max_delivery_queue,
  k_min_lease_ttl_ms, k_max_lease_ttl_ms,
  k_min_renewals_per_ttl, k_max_renewals_per_ttl

Lesser(a, b) == IF a <= b THEN a ELSE b

\* The product of the two fits 64 bits.
checked_bytes(frame_bytes, ring_depth) ==
  ~(ring_depth # 0 /\ frame_bytes > (U64 - 1) \div ring_depth)

-----------------------------------------------------------------------------
(* Receive plans                                                           *)

NoPlan == [max_frame_bytes |-> 0, ring_depth |-> 0, credit_window |-> 0, pinned_bytes |-> 0]

from_limits(max_frame_bytes, ring_depth, credit_window) ==
  [max_frame_bytes |-> max_frame_bytes, ring_depth |-> ring_depth,
   credit_window |-> credit_window,
   pinned_bytes |-> IF checked_bytes(max_frame_bytes, ring_depth)
                      THEN max_frame_bytes * ring_depth ELSE U64 - 1]

PlanValidate(p) ==
  IF ~checked_bytes(p.max_frame_bytes, p.ring_depth) THEN "ResourceExhausted"
  ELSE IF \/ p.max_frame_bytes < k_min_frame_bytes
          \/ p.max_frame_bytes > k_max_frame_bytes_hard_cap THEN "FrameTooLarge"
  ELSE IF \/ p.ring_depth < k_min_ring_depth \/ p.ring_depth > k_max_ring_depth
          \/ p.credit_window = 0 \/ p.credit_window > p.ring_depth THEN "DepthTooLarge"
  ELSE IF p.pinned_bytes # p.max_frame_bytes * p.ring_depth THEN "ResourceExhausted" ELSE "Ok"

\* Of two plans; the form for a geometry differs in how the second is validated.
Smaller(a, b) ==
  from_limits(Lesser(a.max_frame_bytes, b.max_frame_bytes),
              Lesser(a.ring_depth, b.ring_depth),
              Lesser(a.credit_window, b.credit_window))

intersect(upper, grant) ==
  IF PlanValidate(upper) # "Ok" \/ PlanValidate(grant) # "Ok" THEN NoPlan
  ELSE Smaller(upper, grant)

intersect_geometry(upper, grant) ==
  IF PlanValidate(upper) # "Ok" \/ GeometryValidate(grant) # "Ok" THEN NoPlan
  ELSE Smaller(upper, grant)

intersect_offer(upper, offer) ==
  IF StreamOfferValidate(offer) # "Ok" THEN NoPlan ELSE intersect_geometry(upper, offer.geometry)

\* As deep as the budget allows.
derive(geometry, pinned_memory_limit_bytes) ==
  LET depth == Lesser(geometry.ring_depth,
                      pinned_memory_limit_bytes \div geometry.max_frame_bytes)
  IN IF \/ GeometryValidate(geometry) # "Ok" \/ depth < k_min_ring_depth THEN NoPlan
     ELSE from_limits(geometry.max_frame_bytes, depth, Lesser(geometry.credit_window, depth))

derive_offer(offer, pinned_memory_limit_bytes) ==
  IF StreamOfferValidate(offer) # "Ok" THEN NoPlan
  ELSE derive(offer.geometry, pinned_memory_limit_bytes)

-----------------------------------------------------------------------------
(* Configurations                                                          *)

validate_common(c, max_frame_bytes, ring_depth, credit_window) ==
  IF ~valid_stream_name(c.stream_name) THEN "MalformedMessage"
  ELSE IF \/ max_frame_bytes < k_min_frame_bytes
          \/ max_frame_bytes > k_max_frame_bytes_hard_cap THEN "FrameTooLarge"
  ELSE IF \/ ring_depth < k_min_ring_depth \/ ring_depth > k_max_ring_depth
          \/ credit_window < 1 \/ credit_window > ring_depth THEN "DepthTooLarge"
  ELSE IF \/ c.pinned_memory_limit_bytes < k_min_pinned_bytes
          \/ c.pinned_memory_limit_bytes > k_max_pinned_bytes THEN "ResourceExhausted"
  ELSE "Ok"

PublisherConfigValidate(c) ==
  LET common == validate_common(c, c.max_frame_bytes, c.ring_depth, c.credit_window)
      described == resolve(c.frame_metadata, c.max_frame_bytes).status
  IN IF common # "Ok" THEN common
     ELSE IF /\ c.frame_metadata.element_type # Unknown \/ c.frame_metadata.rank # 0
             /\ described # "Ok" THEN described
     ELSE IF c.max_sessions < 1 \/ c.max_sessions > k_max_sessions THEN "DepthTooLarge"
     ELSE IF c.fanout_mode \notin {"BestEffort", "AllActive"} THEN "MalformedMessage"
     ELSE IF \/ c.publish_queue_depth < k_min_publish_queue
             \/ c.publish_queue_depth > k_max_publish_queue THEN "DepthTooLarge"
     ELSE IF \/ c.lease_ttl_ms < k_min_lease_ttl_ms
             \/ c.lease_ttl_ms > k_max_lease_ttl_ms THEN "MalformedMessage"
     ELSE IF \/ c.renew_interval_ms < c.lease_ttl_ms \div 10
             \/ c.renew_interval_ms > c.lease_ttl_ms \div 2
             \/ c.max_renewals_per_ttl < k_min_renewals_per_ttl
             \/ c.max_renewals_per_ttl > k_max_renewals_per_ttl THEN "RenewTooFrequent"
     ELSE IF c.engine_cpu_affinity < -1 THEN "MalformedMessage" ELSE "Ok"

\* What the caller asks for, before discovery and budget.
Requested(c) ==
  IF c.has_receive_plan THEN c.receive_plan
  ELSE from_limits(c.max_frame_bytes, c.ring_depth, c.credit_window)

upper_receive_plan(c) ==
  LET upper == Requested(c)
      budget_depth == c.pinned_memory_limit_bytes \div upper.max_frame_bytes
      depth == Lesser(upper.ring_depth, budget_depth)
  IN IF c.has_discovery_offer
       THEN intersect(upper, derive_offer(c.discovery_offer, c.pinned_memory_limit_bytes))
     ELSE IF \/ c.has_receive_plan \/ upper.max_frame_bytes = 0
             \/ upper.pinned_bytes <= c.pinned_memory_limit_bytes THEN upper
     ELSE IF budget_depth < k_min_ring_depth THEN NoPlan
     ELSE [from_limits(upper.max_frame_bytes, depth, upper.credit_window)
             EXCEPT !.credit_window = Lesser(@, depth)]

SubscriberConfigValidate(c) ==
  LET upper == upper_receive_plan(c)
      common == validate_common(c, upper.max_frame_bytes, upper.ring_depth, upper.credit_window)
  IN IF c.has_receive_plan /\ PlanValidate(c.receive_plan) # "Ok" THEN PlanValidate(c.receive_plan)
     ELSE IF c.has_discovery_offer /\ c.discovery_offer.stream_name # c.stream_name
       THEN "MalformedMessage"
     ELSE IF c.has_discovery_offer /\ StreamOfferValidate(c.discovery_offer) # "Ok"
       THEN StreamOfferValidate(c.discovery_offer)
     ELSE IF PlanValidate(Requested(c)) = "Ok" /\ upper.max_frame_bytes = 0
       THEN "ResourceExhausted"
     ELSE IF common # "Ok" THEN common
     ELSE IF \/ c.delivery_queue_depth < k_min_delivery_queue
             \/ c.delivery_queue_depth > k_max_delivery_queue THEN "DepthTooLarge"
     ELSE IF \/ c.establishment_timeout_ms = 0
             \/ c.command_timeout_ms = 0 \/ c.probe_timeout_ms = 0
             \/ c.engine_cpu_affinity < -1
             \/ c.has_receive_buffer # (c.receive_buffer_bytes # 0)
             \/ ~c.has_receive_buffer /\ c.receive_memory_kind # "Host"
             \/ c.receive_memory_kind \notin {"Host", "Cuda", "Rocm"} THEN "MalformedMessage"
     ELSE IF \/ upper.pinned_bytes > c.pinned_memory_limit_bytes
             \/ c.has_receive_buffer /\ c.receive_buffer_bytes < upper.pinned_bytes
             \/ c.has_receive_buffer /\ c.receive_buffer_bytes > c.pinned_memory_limit_bytes
       THEN "ResourceExhausted" ELSE "Ok"

-----------------------------------------------------------------------------
(* From the two configurations to a session                                *)

\* The configuration a publisher keeps, if its constructor does not throw.
Described(c) ==
  IF c.frame_metadata.element_type = Unknown /\ c.frame_metadata.rank = 0
  THEN [c EXCEPT !.frame_metadata.element_type = 11,             \* Byte
                 !.frame_metadata.element_size = 1,
                 !.frame_metadata.payload_bytes = c.max_frame_bytes]
  ELSE [c EXCEPT !.frame_metadata = resolve(@, c.max_frame_bytes).frame]

Constructed(c) ==
  /\ \/ c.frame_metadata.element_type = Unknown /\ c.frame_metadata.rank = 0
     \/ resolve(c.frame_metadata, c.max_frame_bytes).status = "Ok"
  /\ PublisherConfigValidate(Described(c)) = "Ok"

\* Of a publisher's kept configuration.
current_geometry(c, generation) ==
  [generation |-> generation, element_type |-> c.frame_metadata.element_type,
   element_size |-> c.frame_metadata.element_size, rank |-> c.frame_metadata.rank,
   max_frame_bytes |-> c.max_frame_bytes, ring_depth |-> c.ring_depth,
   credit_window |-> c.credit_window, shape |-> c.frame_metadata.shape,
   strides |-> c.frame_metadata.strides]

\* The offer of a publisher that accepts sessions.
stream_offer(c, generation) ==
  [NoOffer EXCEPT !.stream_name = c.stream_name, !.status = "Ok",
                  !.geometry = current_geometry(c, generation)]

\* The configuration a subscription keeps: the caller's intent, normalised.
Normalized(c) ==
  LET upper == upper_receive_plan(c) IN
  [c EXCEPT !.max_frame_bytes = upper.max_frame_bytes, !.ring_depth = upper.ring_depth,
            !.credit_window = upper.credit_window]

\* The sizes of an Open.
make_open_request(c) ==
  LET upper == from_limits(c.max_frame_bytes, c.ring_depth, c.credit_window) IN
  [requested_max_frame_bytes |-> upper.max_frame_bytes,
   requested_ring_depth |-> upper.ring_depth,
   requested_credit_window |-> upper.credit_window]

\* What handle_open() grants, a geometry without a zero.
grant(c, generation, request) ==
  [current_geometry(c, generation) EXCEPT
     !.max_frame_bytes = Lesser(request.requested_max_frame_bytes, @),
     !.ring_depth = Lesser(request.requested_ring_depth, @),
     !.credit_window = Lesser(request.requested_credit_window, @)]

granted(geometry) ==
  geometry.max_frame_bytes # 0 /\ geometry.ring_depth # 0 /\ geometry.credit_window # 0

\* The part of adopt_open_reply() that looks at the geometry of an Ok reply.
adopt_open_reply(c, geometry) ==
  IF \/ GeometryValidate(geometry) # "Ok"
     \/ geometry.max_frame_bytes > c.max_frame_bytes
     \/ geometry.ring_depth > c.ring_depth
     \/ geometry.credit_window > c.credit_window
  THEN "GeometryMismatch" ELSE "Ok"

-----------------------------------------------------------------------------
(* The rings of both sides (src/ucx/registered_ring.cpp): slots of         *)
(* slot_bytes bytes, stride apart, in one registered region                *)

k_page_bytes == 4096
k_alias_threshold == 262144

PowerOfTwo(n) == \E k \in 0..63 : n = 2^k

\* A publisher's ring may pad: to whole pages, and off a power of two.
compute_stride(slot_bytes, pad) ==
  LET pages == ((slot_bytes + k_page_bytes - 1) \div k_page_bytes) * k_page_bytes IN
  IF ~pad THEN slot_bytes
  ELSE IF pages >= k_alias_threshold /\ PowerOfTwo(pages) THEN pages + k_page_bytes ELSE pages

\* What is registered for a ring; the constructor may throw.
Thrown == -1

checked_region_bytes(stride, depth) ==
  IF ~checked_bytes(stride, depth) THEN Thrown ELSE stride * depth

checked_caller_region(slot_bytes, depth, supplied) ==
  IF \/ ~checked_bytes(slot_bytes, depth) \/ supplied < slot_bytes * depth
  THEN Thrown ELSE supplied

\* Where slot i begins.
slot(i, stride) == i * stride

\* The receive ring of a subscription: its region and its stride.
receive_region(c) ==
  IF c.has_receive_buffer
  THEN checked_caller_region(c.max_frame_bytes, c.ring_depth, c.receive_buffer_bytes)
  ELSE checked_region_bytes(compute_stride(c.max_frame_bytes, FALSE), c.ring_depth)
=============================================================================
