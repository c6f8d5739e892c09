--------------------------- MODULE GeometryProofs ---------------------------
(***************************************************************************)
(* What the validators of geometry.cpp promise to the code that computes   *)
(* addresses from a description they accepted, for every width of integer, *)
(* every limit and every shape.                                            *)
(***************************************************************************)
EXTENDS Geometry, SequenceTheorems, TLAPS

IsArray(g) ==
  /\ g.rank \in Nat /\ g.element_size \in Nat
  /\ g.shape \in [Axes -> Nat] /\ g.strides \in [Axes -> Nat]

\* The elements of an array and where each of them starts.
Index(g) == {x \in [Axes -> Nat] : \A i \in Axes : i <= g.rank => x[i] < g.shape[i]}
Term(g, x, i) == IF i <= g.rank THEN x[i] * g.strides[i] ELSE 0
Offset(g, x) == Term(g, x, 1) + Term(g, x, 2) + Term(g, x, 3) + Term(g, x, 4)

-----------------------------------------------------------------------------
(* Products                                                                *)

LEMMA MulNat == \A a, b \in Nat : a * b \in Nat
  OBVIOUS

LEMMA MulMono == \A a, b, c \in Nat : a <= b => a * c <= b * c
  OBVIOUS

LEMMA AxesFour == 1 \in Axes /\ 2 \in Axes /\ 3 \in Axes /\ 4 \in Axes
  BY DEF Axes, k_max_rank

\* Every term of an offset is a natural, and at most what the span counts
\* for its axis.
LEMMA TermWithinReach ==
  ASSUME NEW g, IsArray(g), NEW x \in Index(g), NEW i \in Axes
  PROVE  /\ Term(g, x, i) \in Nat /\ Reach(g, i) \in Nat
         /\ Term(g, x, i) <= Reach(g, i)
<1>1. CASE i <= g.rank
  <2>1. /\ x[i] \in Nat /\ g.shape[i] \in Nat /\ g.strides[i] \in Nat
        /\ x[i] < g.shape[i]
    BY <1>1 DEF Index, IsArray
  <2>2. g.shape[i] - 1 \in Nat /\ x[i] <= g.shape[i] - 1
    BY <2>1
  <2>3. /\ x[i] * g.strides[i] \in Nat
        /\ (g.shape[i] - 1) * g.strides[i] \in Nat
        /\ x[i] * g.strides[i] <= (g.shape[i] - 1) * g.strides[i]
    BY <2>1, <2>2, MulNat, MulMono
  <2> QED
    BY <1>1, <2>3 DEF Term, Reach
<1>2. CASE ~(i <= g.rank)
  BY <1>2 DEF Term, Reach
<1> QED
  BY <1>1, <1>2

LEMMA OffsetWithinSpan ==
  ASSUME NEW g, IsArray(g), NEW x \in Index(g)
  PROVE  /\ Offset(g, x) \in Nat /\ Span(g) \in Nat
         /\ Offset(g, x) + g.element_size <= Span(g)
<1>1. g.element_size \in Nat
  BY DEF IsArray
<1>2. \A i \in Axes : /\ Term(g, x, i) \in Nat /\ Reach(g, i) \in Nat
                      /\ Term(g, x, i) <= Reach(g, i)
  BY TermWithinReach
<1> QED
  BY <1>1, <1>2, AxesFour DEF Offset, Span

LEMMA IndexNotEmpty ==
  ASSUME NEW g, IsArray(g)
  PROVE  /\ \A x \in Index(g) : ~Empty(g)
         /\ ~Empty(g) => \A i \in Axes : i <= g.rank => g.shape[i] >= 1
<1>1. \A i \in Axes : g.shape[i] \in Nat
  BY DEF IsArray
<1>2. \A x \in Index(g) : ~Empty(g)
  <2> SUFFICES ASSUME NEW x \in Index(g), NEW i \in Axes, i <= g.rank, g.shape[i] = 0
               PROVE  FALSE
    BY DEF Empty
  <2>1. x[i] \in Nat /\ x[i] < 0
    BY DEF Index
  <2> QED
    BY <2>1
<1>3. ~Empty(g) => \A i \in Axes : i <= g.rank => g.shape[i] >= 1
  BY <1>1 DEF Empty
<1> QED
  BY <1>2, <1>3

-----------------------------------------------------------------------------
(* What an accepted description promises                                   *)

\* A description validate_shape_and_strides() accepts addresses no byte at or
\* beyond the limit, whatever its strides: they may be padded, overlapping or
\* zero.
THEOREM AddressesInside ==
  ASSUME NEW g, IsArray(g), NEW limit \in Nat,
         validate_shape_and_strides(g, limit) = "Ok",
         NEW x \in Index(g)
  PROVE  Offset(g, x) + g.element_size <= limit
<1>1. ~Empty(g)
  BY IndexNotEmpty
<1>2. ~(Span(g) > limit)
  BY <1>1 DEF validate_shape_and_strides
<1>3. /\ Offset(g, x) \in Nat /\ Span(g) \in Nat
      /\ Offset(g, x) + g.element_size <= Span(g)
  BY OffsetWithinSpan
<1>4. g.element_size \in Nat
  BY DEF IsArray
<1> QED
  BY <1>2, <1>3, <1>4

\* reachable_span() of a geometry validate() accepts neither wraps nor
\* overstates: it is the end of the element that lies furthest, it bounds every
\* element, and it fits a frame.
THEOREM ReachableSpanExact ==
  ASSUME NEW g, IsArray(g), g.max_frame_bytes \in Nat, U64 \in Nat,
         GeometryValidate(g) = "Ok", ~Empty(g)
  PROVE  /\ reachable_span(g) <= g.max_frame_bytes
         /\ \A x \in Index(g) : Offset(g, x) + g.element_size <= reachable_span(g)
         /\ \E x \in Index(g) : Offset(g, x) + g.element_size = reachable_span(g)
<1>1. validate_shape_and_strides(g, g.max_frame_bytes) = "Ok"
  BY DEF GeometryValidate
<1>2. ~SpanOverflow(g) /\ ~(Span(g) > g.max_frame_bytes)
  BY <1>1 DEF validate_shape_and_strides
<1>3. reachable_span(g) = Span(g)
  BY <1>2 DEF reachable_span, SpanOverflow
<1> DEFINE last == [i \in Axes |-> IF i <= g.rank THEN g.shape[i] - 1 ELSE 0]
<1>4. last \in Index(g)
  <2>1. \A i \in Axes : g.shape[i] \in Nat
    BY DEF IsArray
  <2>2. \A i \in Axes : i <= g.rank => g.shape[i] >= 1
    BY IndexNotEmpty
  <2>3. \A i \in Axes : last[i] \in Nat
    BY <2>1, <2>2
  <2>4. \A i \in Axes : i <= g.rank => last[i] < g.shape[i]
    BY <2>1
  <2> QED
    BY <2>3, <2>4 DEF Index
<1>5. \A i \in Axes : Term(g, last, i) = Reach(g, i)
  BY DEF Term, Reach
<1>6. /\ Offset(g, last) \in Nat /\ Span(g) \in Nat
  BY <1>4, OffsetWithinSpan
<1>7. Offset(g, last) + g.element_size = Span(g)
  BY <1>5, AxesFour DEF Offset, Span
<1>8. Span(g) <= g.max_frame_bytes
  BY <1>2, <1>6
<1> QED
  BY <1>3, <1>4, <1>7, <1>8, OffsetWithinSpan

-----------------------------------------------------------------------------
(* The metadata of a frame                                                 *)

Frames ==
  [rank : Nat, element_type : Nat, element_size : Nat, payload_bytes : Nat,
   shape : [Axes -> Nat], strides : [Axes -> Nat]]

LEMMA ElementSizes == \A t \in Nat : element_size_of(t) \in {0, 1, 2, 4, 8}
  BY DEF element_size_of

LEMMA KnownElementSizes == \A t \in 1..11 : element_size_of(t) \in {1, 2, 4, 8}
<1>1. \A t : t \in {1, 2, 3, 4, 5, 6, 7, 8, 9, 10, 11} => element_size_of(t) \in {1, 2, 4, 8}
  BY Zenon DEF element_size_of
<1>2. 1..11 = {1, 2, 3, 4, 5, 6, 7, 8, 9, 10, 11}
  OBVIOUS
<1> QED
  BY <1>1, <1>2

LEMMA ElementsNat ==
  ASSUME NEW g, IsArray(g)
  PROVE  /\ \A i \in Axes : Extent(g, i) \in Nat
         /\ Elements1(g) \in Nat /\ Elements2(g) \in Nat
         /\ Elements3(g) \in Nat /\ Elements(g) \in Nat
         /\ described_bytes(g) \in Nat
<1>1. \A i \in Axes : Extent(g, i) \in Nat
  BY DEF IsArray, Extent
<1>2. Elements1(g) \in Nat
  BY <1>1, AxesFour DEF Elements1
<1>3. Elements2(g) \in Nat
  BY <1>1, <1>2, AxesFour, MulNat DEF Elements2
<1>4. Elements3(g) \in Nat
  BY <1>1, <1>3, AxesFour, MulNat DEF Elements3
<1>5. Elements(g) \in Nat
  BY <1>1, <1>4, AxesFour, MulNat DEF Elements
<1>6. g.element_size \in Nat
  BY DEF IsArray
<1>7. described_bytes(g) \in Nat
  BY <1>5, <1>6, MulNat DEF described_bytes
<1> QED
  BY <1>1, <1>2, <1>3, <1>4, <1>5, <1>7

LEMMA InsideNat ==
  ASSUME NEW f, IsArray(f)
  PROVE  \A i \in Axes : Inside(f, i) \in Nat
<1>1. \A i \in Axes : Extent(f, i) \in Nat
  BY ElementsNat
<1>2. f.element_size \in Nat
  BY DEF IsArray
<1>3. Extent(f, 4) * f.element_size \in Nat
  BY <1>1, <1>2, AxesFour, MulNat
<1>4. Extent(f, 3) * (Extent(f, 4) * f.element_size) \in Nat
  BY <1>1, <1>3, AxesFour, MulNat
<1>5. Extent(f, 2) * (Extent(f, 3) * (Extent(f, 4) * f.element_size)) \in Nat
  BY <1>1, <1>4, AxesFour, MulNat
<1> QED
  BY <1>2, <1>3, <1>4, <1>5 DEF Inside, Axes, k_max_rank

LEMMA FrameIsArray == \A f \in Frames : IsArray(f)
  BY DEF Frames, IsArray

LEMMA ResolvedIsFrame ==
  ASSUME NEW f \in Frames
  PROVE  /\ Sized(f) \in Frames
         /\ Paid(Sized(f)) \in Frames
         /\ Strided(Paid(Sized(f))) \in Frames
<1>1. Sized(f) \in Frames
  BY ElementSizes DEF Sized, Frames
<1> DEFINE s == Sized(f)
<1>2. Paid(s) \in Frames
  <2>1. s \in Frames /\ described_bytes(s) \in Nat
    BY <1>1, FrameIsArray, ElementsNat
  <2> HIDE DEF s
  <2> QED
    BY <2>1 DEF Paid, Frames
<1> DEFINE p == Paid(s)
<1>3. Strided(p) \in Frames
  <2>1. p \in Frames
    BY <1>2
  <2> HIDE DEF p
  <2>2. \A i \in Axes : Inside(p, i) \in Nat
    BY <2>1, FrameIsArray, InsideNat
  <2>3. fill_contiguous_strides(p) \in [Axes -> Nat]
    BY <2>2 DEF fill_contiguous_strides
  <2> QED
    BY <2>1, <2>3 DEF Strided, Frames
<1> QED
  BY <1>1, <1>2, <1>3

\* Metadata resolve() accepts, whatever the producer left out of it, describes
\* a frame that fits the stream's slots and the hard cap and whose elements all
\* lie inside its payload.
THEOREM ResolveSafe ==
  ASSUME NEW f \in Frames, NEW max_frame_bytes \in Nat,
         k_max_frame_bytes_hard_cap \in Nat,
         resolve(f, max_frame_bytes).status = "Ok"
  PROVE  LET r == resolve(f, max_frame_bytes).frame IN
         /\ r.payload_bytes <= max_frame_bytes
         /\ r.payload_bytes <= k_max_frame_bytes_hard_cap
         /\ \A x \in Index(r) : Offset(r, x) + r.element_size <= r.payload_bytes
<1> DEFINE r == Strided(Paid(Sized(f)))
<1>1. resolve(f, max_frame_bytes).frame = r /\ FrameValidate(r, max_frame_bytes) = "Ok"
  BY DEF resolve
<1>2. r \in Frames
  BY ResolvedIsFrame
<1> HIDE DEF r
<1>3. IsArray(r) /\ r.payload_bytes \in Nat
  BY <1>2, FrameIsArray DEF Frames
<1>4. /\ ~(r.payload_bytes > max_frame_bytes)
      /\ ~(r.payload_bytes > k_max_frame_bytes_hard_cap)
      /\ validate_shape_and_strides(r, r.payload_bytes) = "Ok"
  BY <1>1 DEF FrameValidate
<1>5. \A x \in Index(r) : Offset(r, x) + r.element_size <= r.payload_bytes
  BY <1>3, <1>4, AddressesInside
<1> QED
  BY <1>1, <1>3, <1>4, <1>5

\* The distances between consecutive elements of each axis add up to the size.
LEMMA Telescope ==
  ASSUME NEW a \in Nat, NEW b \in Nat, NEW c \in Nat, NEW d \in Nat, NEW e \in Nat
  PROVE  (a - 1) * (b * (c * (d * e))) + (b - 1) * (c * (d * e)) + (c - 1) * (d * e)
           + (d - 1) * e + e = a * b * c * d * e
  OBVIOUS

LEMMA MulGrows == \A a, b \in Nat : b >= 1 => a <= a * b /\ a <= b * a
  OBVIOUS

\* A factor of a product of positive numbers is at most the product.
LEMMA PartsBelowProduct ==
  ASSUME NEW a \in Nat, NEW b \in Nat, NEW c \in Nat, NEW d \in Nat, NEW e \in Nat,
         a >= 1, b >= 1, c >= 1, d >= 1, e >= 1
  PROVE  LET p == a * b * c * d * e IN
         /\ p \in Nat /\ a <= p /\ a * b <= p /\ a * b * c <= p /\ a * b * c * d <= p
         /\ e <= p /\ d * e <= p /\ c * (d * e) <= p /\ b * (c * (d * e)) <= p
<1>1. a * b \in Nat /\ a <= a * b
  BY MulNat, MulGrows
<1>2. a * b * c \in Nat /\ a * b <= a * b * c
  BY <1>1, MulNat, MulGrows
<1>3. a * b * c * d \in Nat /\ a * b * c <= a * b * c * d
  BY <1>2, MulNat, MulGrows
<1>4. a * b * c * d * e \in Nat /\ a * b * c * d <= a * b * c * d * e
  BY <1>3, MulNat, MulGrows
<1>5. d * e \in Nat /\ e <= d * e
  BY MulNat, MulGrows
<1>6. c * (d * e) \in Nat /\ d * e <= c * (d * e)
  BY <1>5, MulNat, MulGrows
<1>7. b * (c * (d * e)) \in Nat /\ c * (d * e) <= b * (c * (d * e))
  BY <1>6, MulNat, MulGrows
<1>8. b * (c * (d * e)) <= a * (b * (c * (d * e)))
  BY <1>7, MulGrows
<1>9. a * (b * (c * (d * e))) = a * b * c * d * e
  OBVIOUS
<1> QED
  BY <1>1, <1>2, <1>3, <1>4, <1>5, <1>6, <1>7, <1>8, <1>9

\* The strides fill_contiguous_strides() computes for an array that fits: no
\* product overflows and the array is dense.
LEMMA ContiguousIsDense ==
  ASSUME NEW f, IsArray(f), U64 \in Nat, f.element_size >= 1,
         f.rank <= k_max_rank, ~Empty(f), described_bytes(f) < U64,
         \A i \in Axes : i <= f.rank => f.strides[i] = Inside(f, i)
  PROVE  /\ ~ElementsOverflow(f) /\ ~SpanOverflow(f)
         /\ \A i \in Axes : Inside(f, i) < U64
         /\ Span(f) = described_bytes(f)
<1> DEFINE a == Extent(f, 1)
           b == Extent(f, 2)
           c == Extent(f, 3)
           d == Extent(f, 4)
           e == f.element_size
<1>1. /\ a \in Nat /\ b \in Nat /\ c \in Nat /\ d \in Nat /\ e \in Nat
      /\ a >= 1 /\ b >= 1 /\ c >= 1 /\ d >= 1 /\ e >= 1
  BY ElementsNat, IndexNotEmpty, AxesFour DEF Extent, IsArray
<1>2. \A i \in Axes : Reach(f, i) = (Extent(f, i) - 1) * Inside(f, i)
  <2> SUFFICES ASSUME NEW i \in Axes
               PROVE  Reach(f, i) = (Extent(f, i) - 1) * Inside(f, i)
    OBVIOUS
  <2>1. CASE i <= f.rank
    BY <2>1 DEF Reach, Extent
  <2>2. CASE ~(i <= f.rank)
    <3>1. Inside(f, i) \in Nat /\ Extent(f, i) = 1 /\ Reach(f, i) = 0
      BY <2>2, InsideNat DEF Reach, Extent
    <3> QED
      BY <3>1
  <2> QED
    BY <2>1, <2>2
<1>3. /\ Inside(f, 4) = e /\ Inside(f, 3) = d * e
      /\ Inside(f, 2) = c * (d * e) /\ Inside(f, 1) = b * (c * (d * e))
  BY DEF Inside
<1>4. /\ Elements1(f) = a /\ Elements2(f) = a * b /\ Elements3(f) = a * b * c
      /\ Elements(f) = a * b * c * d /\ described_bytes(f) = a * b * c * d * e
  BY DEF Elements1, Elements2, Elements3, Elements, described_bytes
<1>5. Span(f) = (a - 1) * (b * (c * (d * e))) + (b - 1) * (c * (d * e)) + (c - 1) * (d * e)
                  + (d - 1) * e + e
  BY <1>2, <1>3, AxesFour DEF Span
<1> HIDE DEF a, b, c, d, e
<1>6. Span(f) = a * b * c * d * e
  BY <1>1, <1>5, Telescope
<1> DEFINE p == a * b * c * d * e
<1>7. /\ p \in Nat /\ a <= p /\ a * b <= p /\ a * b * c <= p /\ a * b * c * d <= p
      /\ e <= p /\ d * e <= p /\ c * (d * e) <= p /\ b * (c * (d * e)) <= p
  BY <1>1, PartsBelowProduct
<1>8. p < U64
  BY <1>4
<1>9. /\ a * b \in Nat /\ a * b * c \in Nat /\ a * b * c * d \in Nat
      /\ d * e \in Nat /\ c * (d * e) \in Nat /\ b * (c * (d * e)) \in Nat
  BY <1>1, MulNat
<1> HIDE DEF p
<1>10. ~ElementsOverflow(f)
  BY <1>1, <1>4, <1>7, <1>8, <1>9 DEF ElementsOverflow
<1>11. \A i \in Axes : Inside(f, i) < U64
  BY <1>1, <1>3, <1>7, <1>8, <1>9 DEF Axes, k_max_rank
<1>12. \A i \in Axes : Reach(f, i) \in Nat
  <2>1. \A i \in Axes : Extent(f, i) - 1 \in Nat
    BY <1>1 DEF Axes, k_max_rank, a, b, c, d
  <2> QED
    BY <2>1, <1>2, InsideNat, MulNat
<1>13. Span(f) = p
  BY <1>6 DEF p
<1>14. \A i \in Axes : Reach(f, i) <= p
  <2>1. Reach(f, 1) \in Nat /\ Reach(f, 2) \in Nat /\ Reach(f, 3) \in Nat /\ Reach(f, 4) \in Nat
    BY <1>12, AxesFour
  <2>2. Reach(f, 1) + Reach(f, 2) + Reach(f, 3) + Reach(f, 4) + e = p
    BY <1>13 DEF Span, e
  <2> QED
    BY <1>1, <1>7, <2>1, <2>2 DEF Axes, k_max_rank
<1>15. ~SpanOverflow(f)
  BY <1>7, <1>8, <1>12, <1>13, <1>14 DEF SpanOverflow
<1> QED
  BY <1>4, <1>6, <1>10, <1>11, <1>15

\* What resolve() leaves of the metadata and what it fills in.
LEMMA ResolvedFields ==
  ASSUME NEW f \in Frames
  PROVE  LET s == Sized(f)
             r == Strided(Paid(s)) IN
         /\ s.rank = f.rank /\ s.shape = f.shape /\ s.strides = f.strides
         /\ s.element_type = f.element_type /\ s.payload_bytes = f.payload_bytes
         /\ s.element_size = IF f.element_size = 0 THEN element_size_of(f.element_type)
                             ELSE f.element_size
         /\ r.rank = f.rank /\ r.shape = f.shape /\ r.element_type = f.element_type
         /\ r.element_size = s.element_size
         /\ r.payload_bytes = IF f.payload_bytes = 0 THEN described_bytes(s)
                              ELSE f.payload_bytes
         /\ r.strides = IF f.rank > 0 /\ \A i \in Axes : i <= f.rank => f.strides[i] = 0
                          THEN fill_contiguous_strides(Paid(s)) ELSE f.strides
<1> DEFINE s == Sized(f)
           q == Paid(s)
           r == Strided(q)
<1>1. s = [f EXCEPT !.element_size = IF @ = 0 THEN element_size_of(f.element_type) ELSE @]
  BY DEF Sized
<1>2. /\ s.rank = f.rank /\ s.shape = f.shape /\ s.strides = f.strides
      /\ s.element_type = f.element_type /\ s.payload_bytes = f.payload_bytes
      /\ s.element_size = IF f.element_size = 0 THEN element_size_of(f.element_type)
                          ELSE f.element_size
  BY <1>1 DEF Frames
<1>3. s \in Frames /\ q \in Frames
  BY ResolvedIsFrame
<1> HIDE DEF s
<1>4. q = [s EXCEPT !.payload_bytes = IF @ = 0 THEN described_bytes(s) ELSE @]
  BY DEF Paid
<1>5. /\ q.rank = s.rank /\ q.shape = s.shape /\ q.strides = s.strides
      /\ q.element_type = s.element_type /\ q.element_size = s.element_size
      /\ q.payload_bytes = IF s.payload_bytes = 0 THEN described_bytes(s) ELSE s.payload_bytes
  BY <1>3, <1>4 DEF Frames
<1> HIDE DEF q
<1>6. r = [q EXCEPT !.strides = IF q.rank > 0 /\ \A i \in Axes : i <= q.rank => @[i] = 0
                                  THEN fill_contiguous_strides(q) ELSE @]
  BY DEF Strided
<1>7. /\ r.rank = q.rank /\ r.shape = q.shape /\ r.payload_bytes = q.payload_bytes
      /\ r.element_type = q.element_type /\ r.element_size = q.element_size
      /\ r.strides = IF q.rank > 0 /\ \A i \in Axes : i <= q.rank => q.strides[i] = 0
                       THEN fill_contiguous_strides(q) ELSE q.strides
  BY <1>3, <1>6 DEF Frames
<1> HIDE DEF r
<1>8. /\ r.rank = f.rank /\ r.shape = f.shape /\ r.element_type = f.element_type
      /\ r.element_size = s.element_size
      /\ r.payload_bytes = IF f.payload_bytes = 0 THEN described_bytes(s) ELSE f.payload_bytes
      /\ r.strides = IF f.rank > 0 /\ \A i \in Axes : i <= f.rank => f.strides[i] = 0
                       THEN fill_contiguous_strides(q) ELSE f.strides
  BY <1>2, <1>5, <1>7
<1> QED
  BY <1>2, <1>8 DEF r, q, s

\* Products over the same extents are the same.
LEMMA SameExtents ==
  ASSUME NEW f, NEW g, f.rank = g.rank, f.shape = g.shape, f.element_size = g.element_size
  PROVE  /\ described_bytes(f) = described_bytes(g)
         /\ ElementsOverflow(f) = ElementsOverflow(g)
         /\ Empty(f) = Empty(g)
         /\ \A i \in Axes : Inside(f, i) = Inside(g, i)
<1>1. \A i \in Axes : Extent(f, i) = Extent(g, i)
  BY DEF Extent
<1>2. /\ Elements1(f) = Elements1(g) /\ Elements2(f) = Elements2(g)
      /\ Elements3(f) = Elements3(g) /\ Elements(f) = Elements(g)
  BY <1>1, AxesFour DEF Elements1, Elements2, Elements3, Elements
<1>3. \A i \in Axes : Inside(f, i) = Inside(g, i)
  <2>1. Inside(f, 1) = Inside(g, 1) /\ Inside(f, 2) = Inside(g, 2)
        /\ Inside(f, 3) = Inside(g, 3) /\ Inside(f, 4) = Inside(g, 4)
    BY <1>1, AxesFour DEF Inside
  <2> QED
    BY <2>1 DEF Axes, k_max_rank
<1> QED
  BY <1>2, <1>3 DEF described_bytes, ElementsOverflow, Empty

\* A producer that gives an element type and the shape of a nonempty array that
\* fits, and nothing else, is never refused: resolve() fills in a size, a
\* payload and strides that its own validate() accepts, and the array it
\* describes is dense.
THEOREM DenseAccepted ==
  ASSUME NEW f \in Frames, NEW max_frame_bytes \in Nat,
         U64 \in Nat, k_max_frame_bytes_hard_cap \in Nat,
         k_min_element_size \in Nat, k_max_element_size \in Nat,
         k_max_frame_bytes_hard_cap < U64,
         k_min_element_size <= 1, 8 <= k_max_element_size,
         f.element_type \in 1..11, f.element_size \in {0, element_size_of(f.element_type)},
         f.rank \in 1..k_max_rank,
         \A i \in Axes : IF i <= f.rank THEN f.shape[i] >= 1 ELSE f.shape[i] = 0,
         f.strides = [i \in Axes |-> 0], f.payload_bytes = 0,
         described_bytes(Sized(f)) <= max_frame_bytes,
         described_bytes(Sized(f)) <= k_max_frame_bytes_hard_cap
  PROVE  LET r == resolve(f, max_frame_bytes) IN
         /\ r.status = "Ok"
         /\ Span(r.frame) = r.frame.payload_bytes
<1> DEFINE s == Sized(f)
           r == Strided(Paid(s))
<1>1. /\ s.rank = f.rank /\ s.shape = f.shape /\ s.payload_bytes = 0
      /\ s.element_size = element_size_of(f.element_type)
      /\ r.rank = f.rank /\ r.shape = f.shape /\ r.element_type = f.element_type
      /\ r.element_size = s.element_size /\ r.payload_bytes = described_bytes(s)
      /\ r.strides = fill_contiguous_strides(Paid(s))
  BY ResolvedFields
<1>2. s.element_size \in {1, 2, 4, 8}
  <2>1. element_size_of(f.element_type) \in {1, 2, 4, 8}
    BY KnownElementSizes
  <2> QED
    BY <1>1, <2>1
<1>3. s \in Frames /\ Paid(s) \in Frames /\ r \in Frames
  BY ResolvedIsFrame
<1>4. /\ Paid(s).rank = s.rank /\ Paid(s).shape = s.shape
      /\ Paid(s).element_size = s.element_size
  BY <1>3 DEF Paid, Frames
<1>5. IsArray(s) /\ IsArray(r) /\ described_bytes(s) \in Nat
  BY <1>3, FrameIsArray, ElementsNat
<1> HIDE DEF s
<1>6. ~Empty(s) /\ s.element_size >= 1
  BY <1>1, <1>2 DEF Empty
<1>7. /\ described_bytes(s) < U64
      /\ described_bytes(s) <= max_frame_bytes
      /\ described_bytes(s) <= k_max_frame_bytes_hard_cap
  BY <1>5 DEF s
<1>8. \A i \in Axes : f.strides[i] = 0
  OBVIOUS
<1> DEFINE t == [s EXCEPT !.strides = [i \in Axes |-> IF i <= f.rank THEN Inside(s, i) ELSE 0]]
<1>9. /\ t.rank = s.rank /\ t.shape = s.shape /\ t.element_size = s.element_size
      /\ t.strides = [i \in Axes |-> IF i <= f.rank THEN Inside(s, i) ELSE 0]
  BY <1>3 DEF Frames
<1>10. IsArray(t)
  <2>1. t.strides \in [Axes -> Nat]
    BY <1>5, <1>9, InsideNat
  <2> QED
    BY <1>5, <1>9, <2>1 DEF IsArray
<1> HIDE DEF t
<1>11. /\ described_bytes(t) = described_bytes(s) /\ Empty(t) = Empty(s)
       /\ ElementsOverflow(t) = ElementsOverflow(s)
       /\ \A i \in Axes : Inside(t, i) = Inside(s, i)
  BY <1>9, SameExtents
<1>12. f.rank \in Nat /\ f.rank <= k_max_rank /\ f.rank >= 1
  BY DEF k_max_rank
<1>13. /\ ~ElementsOverflow(t) /\ ~SpanOverflow(t)
       /\ \A i \in Axes : Inside(t, i) < U64
       /\ Span(t) = described_bytes(t)
  <2>1. t.element_size >= 1 /\ t.rank <= k_max_rank /\ ~Empty(t) /\ described_bytes(t) < U64
    BY <1>1, <1>6, <1>7, <1>9, <1>11, <1>12
  <2>2. \A i \in Axes : i <= t.rank => t.strides[i] = Inside(t, i)
    BY <1>1, <1>9, <1>11
  <2> QED
    BY <1>10, <2>1, <2>2, ContiguousIsDense
<1>14. \A i \in Axes : Inside(Paid(s), i) = Inside(s, i)
  BY <1>4, SameExtents
<1>15. r.strides = t.strides
  <2>1. Paid(s).rank = f.rank
    BY <1>1, <1>4
  <2>2. \A i \in Axes : Inside(Paid(s), i) < U64 /\ Inside(Paid(s), i) = Inside(s, i)
    BY <1>11, <1>13, <1>14
  <2> QED
    BY <1>1, <1>9, <2>1, <2>2 DEF fill_contiguous_strides
<1> HIDE DEF r
<1>16. r.rank = t.rank /\ r.shape = t.shape /\ r.element_size = t.element_size
  BY <1>1, <1>9
<1>17. Span(r) = Span(t) /\ SpanOverflow(r) = SpanOverflow(t)
  BY <1>15, <1>16 DEF Span, SpanOverflow, Reach
<1>18. ElementsOverflow(r) = ElementsOverflow(t) /\ described_bytes(r) = described_bytes(s)
  BY <1>11, <1>16, SameExtents
<1>19. validate_shape_and_strides(r, r.payload_bytes) = "Ok"
  <2>1. ~(r.rank > k_max_rank)
    BY <1>1, <1>12 DEF k_max_rank
  <2>2. ~\E i \in Axes : i > r.rank /\ (r.shape[i] # 0 \/ r.strides[i] # 0)
    <3> SUFFICES ASSUME NEW i \in Axes, i > r.rank
                 PROVE  r.shape[i] = 0 /\ r.strides[i] = 0
      OBVIOUS
    <3>1. ~(i <= f.rank)
      BY <1>1, <1>12 DEF Axes, k_max_rank
    <3> QED
      BY <1>1, <1>9, <1>15, <3>1
  <2>3. /\ ~ElementsOverflow(r) /\ ~(described_bytes(r) >= U64)
        /\ ~(described_bytes(r) > r.payload_bytes)
    BY <1>1, <1>5, <1>7, <1>13, <1>18
  <2>4. ~SpanOverflow(r) /\ ~(Span(r) > r.payload_bytes)
    BY <1>1, <1>5, <1>11, <1>13, <1>17
  <2> QED
    BY <2>1, <2>2, <2>3, <2>4 DEF validate_shape_and_strides
<1>20. validate_element_size(r) = "Ok"
  BY <1>1, <1>2 DEF validate_element_size
<1>21. described_bytes(s) > 0
  <2>1. Span(t) >= t.element_size
    <3>1. \A i \in Axes : Reach(t, i) \in Nat
      <4>1. \A i \in Axes : i <= t.rank => t.shape[i] - 1 \in Nat /\ t.strides[i] \in Nat
        BY <1>1, <1>9, <1>10 DEF IsArray
      <4> QED
        BY <4>1, MulNat DEF Reach
    <3> QED
      BY <1>10, <3>1, AxesFour DEF Span, IsArray
  <2> QED
    BY <1>5, <1>6, <1>9, <1>11, <1>13, <2>1 DEF IsArray
<1>22. FrameValidate(r, max_frame_bytes) = "Ok"
  BY <1>1, <1>5, <1>7, <1>12, <1>19, <1>20, <1>21 DEF FrameValidate, k_max_rank, Unknown
<1>23. ~ElementsOverflow(s)
  BY <1>11, <1>13
<1>24. resolve(f, max_frame_bytes) = [status |-> "Ok", frame |-> r]
  <2>1. /\ ~(f.rank > k_max_rank)
        /\ ~(s.element_size < k_min_element_size) /\ ~(s.element_size > k_max_element_size)
        /\ ~(described_bytes(s) >= U64)
    BY <1>2, <1>5, <1>7, <1>12 DEF k_max_rank
  <2> QED
    BY <1>22, <1>23, <2>1 DEF resolve, r, s
<1> QED
  BY <1>1, <1>11, <1>13, <1>17, <1>24

-----------------------------------------------------------------------------
(* Offers                                                                  *)

Geometries ==
  [generation : 0..U32-1, element_type : 0..U32-1, element_size : 0..U32-1, rank : 0..U32-1,
   max_frame_bytes : 0..U64-1, ring_depth : 0..U32-1, credit_window : 0..U32-1,
   shape : [Axes -> 0..U64-1], strides : [Axes -> 0..U64-1]]

Offers ==
  [version : 0..U32-1, stream_name : Seq({"word", "bar", "other"}), age_ms : 0..U64-1,
   status : STRING, message : STRING, geometry : Geometries]

\* The two judgements of an offer agree: outcome() calls it available exactly
\* when validate() has nothing against it, though they test in different
\* orders and classify a stale or malformed row differently.
THEOREM OutcomeAgrees ==
  ASSUME NEW o \in Offers
  PROVE  outcome(o) = "Available" <=> StreamOfferValidate(o) = "Ok"
<1>1. CASE o.status = "Ok"
  <2>1. outcome(o) = IF o.version # k_version \/ ~valid_stream_name(o.stream_name)
                        \/ GeometryValidate(o.geometry) # "Ok" THEN "Malformed"
                     ELSE IF o.age_ms > k_max_age_ms THEN "Stale" ELSE "Available"
    BY <1>1 DEF outcome
  <2> QED
    BY <1>1, <2>1 DEF StreamOfferValidate
<1>2. CASE o.status # "Ok"
  <2>1. outcome(o) # "Available"
    BY <1>2 DEF outcome
  <2>2. StreamOfferValidate(o) # "Ok"
    BY <1>2 DEF StreamOfferValidate
  <2> QED
    BY <2>1, <2>2
<1> QED
  BY <1>1, <1>2

LEMMA TextOf ==
  /\ \A n : Decimal(n).kind = "decimal" /\ Decimal(n).value = n
  /\ \A v : List(v).kind = "list" /\ List(v).items = v
  BY Zenon DEF Decimal, List

LEMMA ParseDecimal ==
  ASSUME NEW w \in Nat, NEW n \in 0..(w - 1)
  PROVE  parse_integer(Decimal(n), w)
<1>1. n < w
  OBVIOUS
<1> QED
  BY <1>1, TextOf, Zenon DEF parse_integer

LEMMA ParseList ==
  ASSUME U64 \in Nat, NEW v \in [Axes -> 0..(U64 - 1)]
  PROVE  parse_vector(List(v))
<1>1. v \in Seq(0..(U64 - 1)) /\ DOMAIN v = 1..4
  <2>1. v \in [1..4 -> 0..(U64 - 1)] /\ 4 \in Nat
    BY DEF Axes, k_max_rank
  <2> QED
    BY <2>1, SeqDef, Zenon
<1>2. Len(v) = k_max_rank
  BY <1>1, LenProperties DEF k_max_rank
<1>3. \A i \in Axes : v[i] < U64
  OBVIOUS
<1> QED
  BY <1>2, <1>3, TextOf, Zenon DEF parse_vector

LEMMA RowFields ==
  ASSUME NEW o, NEW b
  PROVE  LET g == o.geometry IN
         <<Decimal(o.version)>> \o <<b>> \o
         << Decimal(g.generation), Decimal(g.element_type), Decimal(g.element_size),
            Decimal(g.rank), Decimal(g.max_frame_bytes), Decimal(g.ring_depth),
            Decimal(g.credit_window), List(g.shape), List(g.strides), Decimal(o.age_ms) >>
           = << Decimal(o.version), b,
                Decimal(g.generation), Decimal(g.element_type), Decimal(g.element_size),
                Decimal(g.rank), Decimal(g.max_frame_bytes), Decimal(g.ring_depth),
                Decimal(g.credit_window), List(g.shape), List(g.strides), Decimal(o.age_ms) >>
<1> DEFINE a == Decimal(o.version)
           c1 == Decimal(o.geometry.generation)
           c2 == Decimal(o.geometry.element_type)
           c3 == Decimal(o.geometry.element_size)
           c4 == Decimal(o.geometry.rank)
           c5 == Decimal(o.geometry.max_frame_bytes)
           c6 == Decimal(o.geometry.ring_depth)
           c7 == Decimal(o.geometry.credit_window)
           c8 == List(o.geometry.shape)
           c9 == List(o.geometry.strides)
           c10 == Decimal(o.age_ms)
           S == {a, b, c1, c2, c3, c4, c5, c6, c7, c8, c9, c10}
           s == <<a>> \o <<b>>
           t == <<c1, c2, c3, c4, c5, c6, c7, c8, c9, c10>>
           st == s \o t
           u == <<a, b, c1, c2, c3, c4, c5, c6, c7, c8, c9, c10>>
<1> HIDE DEF a, c1, c2, c3, c4, c5, c6, c7, c8, c9, c10
<1>1. /\ <<a>> \in Seq(S) /\ <<b>> \in Seq(S) /\ t \in Seq(S) /\ u \in Seq(S)
      /\ Len(u) = 12 /\ Len(t) = 10
  OBVIOUS
<1>2. s \in Seq(S) /\ Len(s) = 2 /\ s[1] = a /\ s[2] = b
  BY <1>1, ConcatProperties
<1> HIDE DEF s, t, u, S
<1>3. Len(s) = 2 /\ Len(t) = 10 /\ Len(s) + Len(t) = 12
  BY <1>1, <1>2
<1>4. /\ st \in Seq(S) /\ Len(st) = Len(s) + Len(t)
      /\ \A i \in 1..(Len(s) + Len(t)) : st[i] = IF i <= Len(s) THEN s[i] ELSE t[i - Len(s)]
  <2>1. s \in Seq(S) /\ t \in Seq(S)
    BY <1>1, <1>2
  <2> QED
    BY <2>1, ConcatProperties
<1> HIDE DEF st
<1>5. /\ st \in Seq(S) /\ Len(st) = 12
      /\ \A i \in 1..12 : st[i] = IF i <= 2 THEN s[i] ELSE t[i - 2]
  BY <1>3, <1>4
<1>6. \A i \in 1..12 : u[i] = st[i]
  BY <1>2, <1>5 DEF t, u
<1>7. u = st
  BY <1>1, <1>5, <1>6, SeqEqual
<1> QED
  BY <1>7 DEF s, t, st, u, a, c1, c2, c3, c4, c5, c6, c7, c8, c9, c10

\* A client that reads the row of an available offer has the offer: no field is
\* lost, swapped or narrowed, and the row is judged as the offer was.
THEOREM RowRoundTrip ==
  ASSUME NEW o \in Offers, U32 \in Nat, U64 \in Nat,
         StreamOfferValidate(o) = "Ok", o.message = ""
  PROVE  from_bulk_stream_row(to_bulk_stream_row(o)) = o
<1> DEFINE g == o.geometry
           name == [kind |-> "name", value |-> o.stream_name]
           row == << Decimal(o.version), name,
                     Decimal(g.generation), Decimal(g.element_type), Decimal(g.element_size),
                     Decimal(g.rank), Decimal(g.max_frame_bytes), Decimal(g.ring_depth),
                     Decimal(g.credit_window), List(g.shape), List(g.strides),
                     Decimal(o.age_ms) >>
<1>1. o.status = "Ok" /\ valid_stream_name(o.stream_name)
  BY DEF StreamOfferValidate
<1>2. name_fields(o.stream_name) = <<name>>
  <2>1. {i \in 1..Len(o.stream_name) : o.stream_name[i] = "bar"} = {}
    BY <1>1 DEF valid_stream_name
  <2> QED
    BY <2>1 DEF name_fields
<1>3. to_bulk_stream_row(o) = row
  <2>1. to_bulk_stream_row(o) =
          <<Decimal(o.version)>> \o name_fields(o.stream_name) \o
          << Decimal(g.generation), Decimal(g.element_type), Decimal(g.element_size),
             Decimal(g.rank), Decimal(g.max_frame_bytes), Decimal(g.ring_depth),
             Decimal(g.credit_window), List(g.shape), List(g.strides), Decimal(o.age_ms) >>
    BY <1>1, Zenon DEF to_bulk_stream_row
  <2> HIDE DEF name
  <2>2. <<Decimal(o.version)>> \o <<name>> \o
          << Decimal(g.generation), Decimal(g.element_type), Decimal(g.element_size),
             Decimal(g.rank), Decimal(g.max_frame_bytes), Decimal(g.ring_depth),
             Decimal(g.credit_window), List(g.shape), List(g.strides), Decimal(o.age_ms) >>
          = row
    BY RowFields, Zenon
  <2> HIDE DEF row, g
  <2> QED
    BY <1>2, <2>1, <2>2, Zenon
<1>4. /\ g \in Geometries /\ g.shape \in [Axes -> 0..U64-1] /\ g.strides \in [Axes -> 0..U64-1]
  BY DEF Offers, Geometries
<1> DEFINE back == [version |-> o.version, stream_name |-> o.stream_name, age_ms |-> o.age_ms,
                    status |-> "Ok", message |-> "",
                    geometry |->
                      [generation |-> g.generation, element_type |-> g.element_type,
                       element_size |-> g.element_size, rank |-> g.rank,
                       max_frame_bytes |-> g.max_frame_bytes, ring_depth |-> g.ring_depth,
                       credit_window |-> g.credit_window,
                       shape |-> g.shape, strides |-> g.strides]]
<1>5. g = [generation |-> g.generation, element_type |-> g.element_type,
           element_size |-> g.element_size, rank |-> g.rank,
           max_frame_bytes |-> g.max_frame_bytes, ring_depth |-> g.ring_depth,
           credit_window |-> g.credit_window, shape |-> g.shape, strides |-> g.strides]
  BY <1>4 DEF Geometries
<1>6. back = o
  BY <1>1, <1>5 DEF Offers
<1>7. /\ Len(row) = 12 /\ row[1] = Decimal(o.version) /\ row[2] = name
      /\ row[3] = Decimal(g.generation) /\ row[4] = Decimal(g.element_type)
      /\ row[5] = Decimal(g.element_size) /\ row[6] = Decimal(g.rank)
      /\ row[7] = Decimal(g.max_frame_bytes) /\ row[8] = Decimal(g.ring_depth)
      /\ row[9] = Decimal(g.credit_window) /\ row[10] = List(g.shape)
      /\ row[11] = List(g.strides) /\ row[12] = Decimal(o.age_ms)
  OBVIOUS
<1> HIDE DEF row
<1>8. \A i \in {1, 3, 4, 5, 6, 8, 9} : parse_integer(row[i], U32)
  <2>1. o.version \in 0..U32-1
    BY DEF Offers
  <2>2. /\ g.generation \in 0..U32-1 /\ g.element_type \in 0..U32-1
        /\ g.element_size \in 0..U32-1 /\ g.rank \in 0..U32-1
        /\ g.ring_depth \in 0..U32-1 /\ g.credit_window \in 0..U32-1
    BY <1>4 DEF Geometries
  <2> HIDE DEF g
  <2> QED
    BY <1>7, <2>1, <2>2, ParseDecimal
<1>9. \A i \in {7, 12} : parse_integer(row[i], U64)
  <2>1. o.age_ms \in 0..U64-1 /\ g.max_frame_bytes \in 0..U64-1
    BY <1>4 DEF Offers, Geometries
  <2> HIDE DEF g
  <2> QED
    BY <1>7, <2>1, ParseDecimal
<1>10. \A i \in {10, 11} : parse_vector(row[i])
  <2> HIDE DEF g
  <2> QED
    BY <1>4, <1>7, ParseList
<1>11. /\ row[1].value = o.version /\ row[2].value = o.stream_name
       /\ row[3].value = g.generation /\ row[4].value = g.element_type
       /\ row[5].value = g.element_size /\ row[6].value = g.rank
       /\ row[7].value = g.max_frame_bytes /\ row[8].value = g.ring_depth
       /\ row[9].value = g.credit_window /\ row[10].items = g.shape
       /\ row[11].items = g.strides /\ row[12].value = o.age_ms
  <2>1. name.value = o.stream_name
    OBVIOUS
  <2>2. /\ \A text, n : text = Decimal(n) => text.value = n
        /\ \A text, v : text = List(v) => text.items = v
    BY TextOf, Zenon
  <2> HIDE DEF name, g
  <2> QED
    BY <1>7, <2>1, <2>2, ZenonT(120)
<1>12. from_bulk_stream_row(row) = [back EXCEPT !.message = ""]
  <2>1. StreamOfferValidate(back) = "Ok"
    BY <1>6
  <2>2. ~(Len(row) # 12)
    BY <1>7
  <2> QED
    BY <1>8, <1>9, <1>10, <1>11, <2>1, <2>2 DEF from_bulk_stream_row
<1> HIDE DEF back
<1>13. [o EXCEPT !.message = ""] = o
  BY DEF Offers
<1> QED
  BY <1>3, <1>6, <1>12, <1>13
=============================================================================
