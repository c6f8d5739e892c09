------------------------------ MODULE Geometry ------------------------------
(***************************************************************************)
(* What describes a frame, and who accepts it (src/core/geometry.cpp):     *)
(* the geometry a publisher announces, the metadata a producer gives with  *)
(* a frame, and the rows of the BulkStreams attribute that carry an offer  *)
(* to a client.                                                            *)
(*                                                                         *)
(* An array g has a rank, an element_size, and a shape and strides with    *)
(* an entry for each axis of k_max_rank.  The arithmetic of the code is    *)
(* that of 64 bits with overflow detected: a value at or beyond U64 is an  *)
(* overflow.  A loop over the axes is written out.                         *)
(***************************************************************************)
EXTENDS Integers, Sequences, FiniteSets

CONSTANTS
  U64,                                        \* 2^64
  U32,                                        \* 2^32
  k_min_element_size, k_max_element_size,
  k_min_frame_bytes, k_max_frame_bytes_hard_cap,
  k_min_ring_depth, k_max_ring_depth,
  k_min_stream_name_bytes, k_max_stream_name_bytes,
  k_version, k_max_age_ms

k_max_rank == 4
Axes == 1..k_max_rank

\* ElementType by its number; one that is not of the enumeration has no size.
Unknown == 0
element_size_of(type) ==
  CASE type \in {1, 2, 11} -> 1          \* UInt8, Int8, Byte
    [] type \in {3, 4} -> 2              \* UInt16, Int16
    [] type \in {5, 6, 9} -> 4           \* UInt32, Int32, Float32
    [] type \in {7, 8, 10} -> 8          \* UInt64, Int64, Float64
    [] OTHER -> 0

-----------------------------------------------------------------------------
(* Shapes and strides                                                      *)

\* The factors and the terms of the loops, which stop at the rank.
Extent(g, i) == IF i <= g.rank THEN g.shape[i] ELSE 1
Reach(g, i) == IF i <= g.rank THEN (g.shape[i] - 1) * g.strides[i] ELSE 0

Elements1(g) == Extent(g, 1)
Elements2(g) == Elements1(g) * Extent(g, 2)
Elements3(g) == Elements2(g) * Extent(g, 3)
Elements(g) == Elements3(g) * Extent(g, 4)

ElementsOverflow(g) ==
  Elements1(g) >= U64 \/ Elements2(g) >= U64 \/ Elements3(g) >= U64 \/ Elements(g) >= U64

described_bytes(g) == Elements(g) * g.element_size

Empty(g) == \E i \in Axes : i <= g.rank /\ g.shape[i] = 0

\* Of a nonempty array.  The terms are not negative: a sum that overflows on
\* the way overflows at the end.
Span(g) == Reach(g, 1) + Reach(g, 2) + Reach(g, 3) + Reach(g, 4) + g.element_size
SpanOverflow(g) == (\E i \in Axes : Reach(g, i) >= U64) \/ Span(g) >= U64

validate_shape_and_strides(g, limit) ==
  IF \/ g.rank > k_max_rank
     \/ \E i \in Axes : i > g.rank /\ (g.shape[i] # 0 \/ g.strides[i] # 0)
     \/ ElementsOverflow(g) \/ described_bytes(g) >= U64
     \/ described_bytes(g) > limit
     \/ ~Empty(g) /\ (SpanOverflow(g) \/ Span(g) > limit)
  THEN "GeometryMismatch" ELSE "Ok"

validate_element_size(g) ==
  IF \/ g.element_size < k_min_element_size \/ g.element_size > k_max_element_size
     \/ g.element_type # Unknown /\ element_size_of(g.element_type) # g.element_size
  THEN "GeometryMismatch" ELSE "Ok"

-----------------------------------------------------------------------------
(* The geometry of a stream                                                *)

GeometryValidate(g) ==
  IF g.generation = 0 \/ validate_element_size(g) # "Ok" THEN "GeometryMismatch"
  ELSE IF g.max_frame_bytes < k_min_frame_bytes
          \/ g.max_frame_bytes > k_max_frame_bytes_hard_cap THEN "FrameTooLarge"
  ELSE IF \/ g.ring_depth < k_min_ring_depth \/ g.ring_depth > k_max_ring_depth
          \/ g.credit_window = 0 \/ g.credit_window > g.ring_depth THEN "DepthTooLarge"
  ELSE validate_shape_and_strides(g, g.max_frame_bytes)

reachable_span(g) ==
  IF GeometryValidate(g) # "Ok" \/ Empty(g) \/ Span(g) >= U64 THEN 0 ELSE Span(g)

describes_same_array(a, b) ==
  /\ a.element_type = b.element_type /\ a.element_size = b.element_size
  /\ a.rank = b.rank /\ a.shape = b.shape /\ a.strides = b.strides

-----------------------------------------------------------------------------
(* The metadata of a frame                                                 *)

FrameValidate(f, max_frame_bytes) ==
  IF \/ f.rank > k_max_rank
     \/ f.element_type = Unknown /\ f.rank > 0
     \/ validate_element_size(f) # "Ok"
     \/ f.payload_bytes = 0 THEN "GeometryMismatch"
  ELSE IF f.payload_bytes > max_frame_bytes
          \/ f.payload_bytes > k_max_frame_bytes_hard_cap THEN "FrameTooLarge"
  ELSE validate_shape_and_strides(f, f.payload_bytes)

\* The stride of axis i is the size of what lies inside it.
Inside(f, i) ==
  CASE i = 4 -> f.element_size
    [] i = 3 -> Extent(f, 4) * f.element_size
    [] i = 2 -> Extent(f, 3) * (Extent(f, 4) * f.element_size)
    [] i = 1 -> Extent(f, 2) * (Extent(f, 3) * (Extent(f, 4) * f.element_size))

\* From the inner axis outwards, up to an overflow.
fill_contiguous_strides(f) ==
  [i \in Axes |->
     IF i <= f.rank /\ \A j \in Axes : i <= j /\ j <= f.rank => Inside(f, j) < U64
       THEN Inside(f, i) ELSE 0]

Sized(f) ==
  [f EXCEPT !.element_size = IF @ = 0 THEN element_size_of(f.element_type) ELSE @]
Paid(f) == [f EXCEPT !.payload_bytes = IF @ = 0 THEN described_bytes(f) ELSE @]
Strided(f) ==
  [f EXCEPT !.strides = IF f.rank > 0 /\ \A i \in Axes : i <= f.rank => @[i] = 0
                          THEN fill_contiguous_strides(f) ELSE @]

\* The status, and the metadata that replaces what the producer gave.
resolve(f, max_frame_bytes) ==
  LET sized == Sized(f)
      resolved == Strided(Paid(sized))
      status ==
        IF \/ f.rank > k_max_rank
           \/ sized.element_size < k_min_element_size \/ sized.element_size > k_max_element_size
           \/ f.payload_bytes = 0 /\ (ElementsOverflow(sized) \/ described_bytes(sized) >= U64)
        THEN "GeometryMismatch" ELSE FrameValidate(resolved, max_frame_bytes)
  IN [status |-> status, frame |-> IF status = "Ok" THEN resolved ELSE f]

-----------------------------------------------------------------------------
(* Offers and the rows of BulkStreams.  A name is a sequence of characters *)
(* of three classes: "word" for [A-Za-z0-9_.-], "bar" for the separator of *)
(* a row, "other".  A row is the sequence of its fields, a field a text    *)
(* that is a decimal, a list of decimals, a name, or something else.       *)

valid_stream_name(name) ==
  /\ Len(name) >= k_min_stream_name_bytes /\ Len(name) <= k_max_stream_name_bytes
  /\ \A i \in 1..Len(name) : name[i] = "word"

outcome(o) ==
  CASE o.status = "UnknownStream" -> "Missing"
    [] o.status = "ResourceExhausted" -> "Unsafe"
    [] o.status = "MalformedMessage" -> "Malformed"
    [] o.status \notin {"Ok", "UnknownStream", "ResourceExhausted", "MalformedMessage"} -> "Unavailable"
    [] o.status = "Ok" ->
         IF o.version # k_version \/ ~valid_stream_name(o.stream_name)
            \/ GeometryValidate(o.geometry) # "Ok" THEN "Malformed"
         ELSE IF o.age_ms > k_max_age_ms THEN "Stale" ELSE "Available"

StreamOfferValidate(o) ==
  IF o.version # k_version THEN "UnsupportedVersion"
  ELSE IF o.status # "Ok" THEN o.status
  ELSE IF ~valid_stream_name(o.stream_name) THEN "MalformedMessage"
  ELSE IF o.age_ms > k_max_age_ms THEN "TransportFailure"
  ELSE GeometryValidate(o.geometry)

Other == [kind |-> "other"]
Decimal(n) == [kind |-> "decimal", value |-> n]
List(v) == [kind |-> "list", items |-> v]

\* std::from_chars refuses a value the integer cannot hold.
parse_integer(text, width) == text.kind = "decimal" /\ text.value < width
parse_vector(text) ==
  /\ text.kind = "list" /\ Len(text.items) = k_max_rank
  /\ \A i \in Axes : text.items[i] < U64

\* A bar inside the name starts another field.
name_fields(name) ==
  LET bars == {i \in 1..Len(name) : name[i] = "bar"}
  IN IF bars = {} THEN << [kind |-> "name", value |-> name] >>
     ELSE [i \in 1..(Cardinality(bars) + 1) |-> Other]

\* An empty row has one field, the empty text.
to_bulk_stream_row(o) ==
  LET g == o.geometry IN
  IF o.status # "Ok" THEN <<Other>>
  ELSE <<Decimal(o.version)>> \o name_fields(o.stream_name) \o
       << Decimal(g.generation), Decimal(g.element_type), Decimal(g.element_size),
          Decimal(g.rank), Decimal(g.max_frame_bytes), Decimal(g.ring_depth),
          Decimal(g.credit_window), List(g.shape), List(g.strides), Decimal(o.age_ms) >>

\* The offer a StreamOffer is constructed as.
NoOffer ==
  [version |-> k_version, stream_name |-> <<>>, age_ms |-> 0,
   status |-> "UnknownStream", message |-> "",
   geometry |-> [generation |-> 0, element_type |-> Unknown, element_size |-> 0, rank |-> 0,
                 max_frame_bytes |-> 0, ring_depth |-> 0, credit_window |-> 0,
                 shape |-> [i \in Axes |-> 0], strides |-> [i \in Axes |-> 0]]]

malformed_bulk_stream_row(message) ==
  [NoOffer EXCEPT !.status = "MalformedMessage", !.message = message]

from_bulk_stream_row(row) ==
  LET geometry ==
        [generation |-> row[3].value, element_type |-> row[4].value,
         element_size |-> row[5].value, rank |-> row[6].value,
         max_frame_bytes |-> row[7].value, ring_depth |-> row[8].value,
         credit_window |-> row[9].value, shape |-> row[10].items, strides |-> row[11].items]
      offer ==
        [version |-> row[1].value, stream_name |-> row[2].value, age_ms |-> row[12].value,
         status |-> "Ok", message |-> "", geometry |-> geometry]
  IN IF Len(row) # 12 THEN malformed_bulk_stream_row("field count")
     ELSE IF \/ \E i \in {1, 3, 4, 5, 6, 8, 9} : ~parse_integer(row[i], U32)
             \/ \E i \in {7, 12} : ~parse_integer(row[i], U64)
             \/ \E i \in {10, 11} : ~parse_vector(row[i])
       THEN malformed_bulk_stream_row("non-decimal field")
     ELSE [offer EXCEPT !.message =
             IF StreamOfferValidate(offer) = "Ok" THEN ""
             ELSE IF offer.version # k_version THEN "version"
             ELSE IF offer.age_ms > k_max_age_ms THEN "stale" ELSE "validation"]
=============================================================================
