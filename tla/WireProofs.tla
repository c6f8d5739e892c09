----------------------------- MODULE WireProofs -----------------------------
(***************************************************************************)
(* Encoders and decoders of protocol.cpp agree, and no decoder looks       *)
(* beyond the bytes it was given.                                          *)
(***************************************************************************)
EXTENDS Wire, GeometryProofs

-----------------------------------------------------------------------------
(* Layouts                                                                 *)

Disjoint(p, q) == p[1] + p[2] <= q[1] \/ q[1] + q[2] <= p[1]

\* Every field lies in the first n bytes.
Fits(layout, n) ==
  \A f \in DOMAIN layout : /\ layout[f][1] \in Nat /\ layout[f][2] \in Nat
                           /\ layout[f][1] + layout[f][2] <= n

\* No two fields share a byte.
Apart(layout) == \A f, g \in DOMAIN layout : f # g => Disjoint(layout[f], layout[g])

\* The decoder looks for a field where the encoder put it.
Agree(put, got) == \A f \in DOMAIN got : f \in DOMAIN put /\ put[f] = got[f]

Laid(put, got, n) == Fits(put, n) /\ Apart(put) /\ Agree(put, got) /\ Fits(got, n)

LEMMA OpenLaid == Laid(put_open, get_open, k_open_fixed_bytes)
<1>1. Fits(put_open, k_open_fixed_bytes) /\ Fits(get_open, k_open_fixed_bytes)
  BY DEF put_open, get_open, Fits, k_open_fixed_bytes
<1>2. Apart(put_open)
  BY DEF put_open, Apart, Disjoint
<1>3. Agree(put_open, get_open)
  BY DEF put_open, get_open, Agree
<1> QED
  BY <1>1, <1>2, <1>3 DEF Laid

LEMMA GeometryLaid == Laid(put_geometry, get_geometry, 96)
<1>1. Fits(put_geometry, 96) /\ Fits(get_geometry, 96)
  BY DEF put_geometry, get_geometry, Fits
<1>2. Apart(put_geometry)
  BY DEF put_geometry, Apart, Disjoint
<1>3. Agree(put_geometry, get_geometry)
  BY DEF put_geometry, get_geometry, Agree
<1> QED
  BY <1>1, <1>2, <1>3 DEF Laid

LEMMA EmbedLaid ==
  ASSUME NEW put, NEW got, NEW base \in Nat, NEW inner, NEW innergot, NEW n \in Nat,
         Laid(put, got, base), Laid(inner, innergot, n),
         DOMAIN put \cap DOMAIN inner = {}
  PROVE  Laid(Embed(put, base, inner), Embed(got, base, innergot), base + n)
<1> DEFINE P == Embed(put, base, inner)
           G == Embed(got, base, innergot)
<1>1. /\ DOMAIN P = DOMAIN put \cup DOMAIN inner
      /\ \A f \in DOMAIN put : P[f] = put[f]
      /\ \A f \in DOMAIN inner : P[f] = <<base + inner[f][1], inner[f][2]>>
  BY DEF Embed, At
<1>2. /\ DOMAIN G = DOMAIN got \cup DOMAIN innergot
      /\ \A f \in DOMAIN got : G[f] = got[f]
      /\ \A f \in DOMAIN innergot : f \notin DOMAIN got => G[f] = <<base + innergot[f][1], innergot[f][2]>>
  BY DEF Embed, At
<1> HIDE DEF P, G
<1>3. Fits(P, base + n) /\ Fits(G, base + n)
  BY <1>1, <1>2 DEF Laid, Fits
<1>4. Apart(P)
  <2> SUFFICES ASSUME NEW f \in DOMAIN P, NEW g \in DOMAIN P, f # g
               PROVE  Disjoint(P[f], P[g])
    BY DEF Apart
  <2>1. CASE f \in DOMAIN put /\ g \in DOMAIN put
    BY <1>1, <2>1 DEF Laid, Apart
  <2>2. CASE f \in DOMAIN inner /\ g \in DOMAIN inner
    <3>1. Disjoint(inner[f], inner[g])
      BY <2>2 DEF Laid, Apart
    <3> QED
      BY <1>1, <2>2, <3>1 DEF Laid, Fits, Disjoint
  <2>3. CASE f \in DOMAIN put /\ g \in DOMAIN inner
    BY <1>1, <2>3 DEF Laid, Fits, Disjoint
  <2>4. CASE f \in DOMAIN inner /\ g \in DOMAIN put
    BY <1>1, <2>4 DEF Laid, Fits, Disjoint
  <2> QED
    BY <1>1, <2>1, <2>2, <2>3, <2>4
<1>5. Agree(P, G)
  BY <1>1, <1>2 DEF Laid, Agree
<1> QED
  BY <1>3, <1>4, <1>5 DEF Laid, P, G

LEMMA OpenReplyLaid == Laid(put_open_reply, get_open_reply, k_open_reply_fixed_bytes)
<1> DEFINE put == [version_selected |-> <<0, 1>>, reserved |-> <<1, 1>>, status |-> <<2, 2>>,
                   granted_caps |-> <<4, 4>>, session_id |-> <<8, 16>>, stream_id |-> <<24, 8>>,
                   lease_ttl_ms |-> <<32, 4>>, renew_interval_ms |-> <<36, 4>>,
                   transport_selected |-> <<40, 4>>, reserved2 |-> <<44, 4>>,
                   server_epoch_id |-> <<48, 8>>]
           got == [version_selected |-> <<0, 1>>, status |-> <<2, 2>>,
                   granted_caps |-> <<4, 4>>, session_id |-> <<8, 16>>, stream_id |-> <<24, 8>>,
                   lease_ttl_ms |-> <<32, 4>>, renew_interval_ms |-> <<36, 4>>,
                   transport_selected |-> <<40, 4>>, server_epoch_id |-> <<48, 8>>]
<1>1. Fits(put, 56) /\ Fits(got, 56)
  BY DEF Fits
<1>2. Apart(put)
  BY DEF Apart, Disjoint
<1>3. Agree(put, got)
  BY DEF Agree
<1>4. DOMAIN put \cap DOMAIN put_geometry = {}
  BY DEF put_geometry
<1>5. put_open_reply = Embed(put, 56, put_geometry) /\ get_open_reply = Embed(got, 56, get_geometry)
  BY DEF put_open_reply, get_open_reply
<1> HIDE DEF put, got
<1>6. Laid(put, got, 56)
  BY <1>1, <1>2, <1>3 DEF Laid
<1>7. Laid(put_open_reply, get_open_reply, 56 + 96)
  BY <1>4, <1>5, <1>6, GeometryLaid, EmbedLaid
<1> QED
  BY <1>7 DEF k_open_reply_fixed_bytes

LEMMA RenewReplyLaid == Laid(put_renew_reply, get_renew_reply, k_renew_reply_bytes)
<1> DEFINE put == [session_id |-> <<0, 16>>, status |-> <<16, 2>>, reserved |-> <<18, 2>>,
                   lease_ttl_ms |-> <<20, 4>>, renew_interval_ms |-> <<24, 4>>,
                   server_state |-> <<28, 4>>]
           got == [session_id |-> <<0, 16>>, status |-> <<16, 2>>,
                   lease_ttl_ms |-> <<20, 4>>, renew_interval_ms |-> <<24, 4>>,
                   server_state |-> <<28, 4>>]
<1>1. Fits(put, 32) /\ Fits(got, 32)
  BY DEF Fits
<1>2. Apart(put)
  BY DEF Apart, Disjoint
<1>3. Agree(put, got)
  BY DEF Agree
<1>4. DOMAIN put \cap DOMAIN put_geometry = {}
  BY DEF put_geometry
<1>5. put_renew_reply = Embed(put, 32, put_geometry) /\ get_renew_reply = Embed(got, 32, get_geometry)
  BY DEF put_renew_reply, get_renew_reply
<1> HIDE DEF put, got
<1>6. Laid(put, got, 32)
  BY <1>1, <1>2, <1>3 DEF Laid
<1>7. Laid(put_renew_reply, get_renew_reply, 32 + 96)
  BY <1>4, <1>5, <1>6, GeometryLaid, EmbedLaid
<1> QED
  BY <1>7 DEF k_renew_reply_bytes

LEMMA OthersLaid ==
  /\ Laid(put_renew, get_renew, k_renew_bytes)
  /\ Laid(put_close, get_close, k_close_bytes)
  /\ Laid(put_close_reply, get_close_reply, k_close_reply_bytes)
  /\ Laid(put_error, get_error, k_error_fixed_bytes)
<1>1. Laid(put_renew, get_renew, k_renew_bytes)
  BY DEF Laid, Fits, Apart, Disjoint, Agree, put_renew, get_renew, k_renew_bytes
<1>2. Laid(put_close, get_close, k_close_bytes)
  BY DEF Laid, Fits, Apart, Disjoint, Agree, put_close, get_close, k_close_bytes
<1>3. Laid(put_close_reply, get_close_reply, k_close_reply_bytes)
  BY DEF Laid, Fits, Apart, Disjoint, Agree, put_close_reply, get_close_reply, k_close_reply_bytes
<1>4. Laid(put_error, get_error, k_error_fixed_bytes)
  BY DEF Laid, Fits, Apart, Disjoint, Agree, put_error, get_error, k_error_fixed_bytes
<1> QED
  BY <1>1, <1>2, <1>3, <1>4

\* The header of a data message: the prefix, then the fields of its type.
DataLaid(put, got, n) ==
  /\ Fits(put, n) /\ Fits(got, n) /\ Apart(put)
  /\ \A f \in DOMAIN put : f # "generation" /\ put[f][1] >= k_data_prefix_bytes
  /\ \A f \in DOMAIN got : IF f = "generation" THEN got[f] = put_data_prefix.generation
                           ELSE f \in DOMAIN put /\ put[f] = got[f]

LEMMA PrefixLaid == Fits(put_data_prefix, k_data_prefix_bytes) /\ Apart(put_data_prefix)
  BY DEF Fits, Apart, Disjoint, put_data_prefix, k_data_prefix_bytes

LEMMA FrameLaid == DataLaid(put_frame_header, get_frame_header, k_frame_header_bytes)
<1>1. /\ Fits(put_frame_header, k_frame_header_bytes)
      /\ Fits(get_frame_header, k_frame_header_bytes)
  BY DEF Fits, put_frame_header, get_frame_header, k_frame_header_bytes
<1>2. Apart(put_frame_header)
  BY DEF Apart, Disjoint, put_frame_header
<1>3. \A f \in DOMAIN put_frame_header :
        f # "generation" /\ put_frame_header[f][1] >= k_data_prefix_bytes
  BY DEF put_frame_header, k_data_prefix_bytes
<1>4. \A f \in DOMAIN get_frame_header :
        IF f = "generation" THEN get_frame_header[f] = put_data_prefix.generation
        ELSE f \in DOMAIN put_frame_header /\ put_frame_header[f] = get_frame_header[f]
  BY SMTT(90) DEF put_frame_header, get_frame_header, put_data_prefix
<1> QED
  BY <1>1, <1>2, <1>3, <1>4 DEF DataLaid

LEMMA ShortDataLaid ==
  /\ DataLaid(put_credit, get_credit, k_credit_bytes)
  /\ DataLaid(put_probe, get_probe, k_probe_bytes)
  /\ DataLaid(put_probe_ack, get_probe_ack, k_probe_ack_bytes)
<1>1. DataLaid(put_credit, get_credit, k_credit_bytes)
  BY DEF DataLaid, Fits, Apart, Disjoint, put_data_prefix, k_data_prefix_bytes,
         put_credit, get_credit, k_credit_bytes
<1>2. DataLaid(put_probe, get_probe, k_probe_bytes)
  BY DEF DataLaid, Fits, Apart, Disjoint, put_data_prefix, k_data_prefix_bytes,
         put_probe, get_probe, k_probe_bytes
<1>3. DataLaid(put_probe_ack, get_probe_ack, k_probe_ack_bytes)
  BY DEF DataLaid, Fits, Apart, Disjoint, put_data_prefix, k_data_prefix_bytes,
         put_probe_ack, get_probe_ack, k_probe_ack_bytes
<1> QED
  BY <1>1, <1>2, <1>3

LEMMA FixedLaid ==
  \A t \in FixedMessages :
    /\ t[1] \in Nat /\ is_known_coord_type(t[1])
    /\ t[2] \in Nat /\ t[2] <= k_max_coord_body_bytes
    /\ Laid(t[3], t[4], t[2])
  BY RenewReplyLaid, OthersLaid
     DEF FixedMessages, is_known_coord_type, Open, OpenReply, Renew, RenewReply, Close,
         CloseReply, Error, k_renew_bytes, k_renew_reply_bytes, k_close_bytes,
         k_close_reply_bytes, k_max_coord_body_bytes

LEMMA MessagesLaid ==
  \A d \in DataMessages :
    /\ d[1] \in Nat /\ min_header_bytes(d[1]) \in Nat
    /\ min_header_bytes(d[1]) >= k_data_prefix_bytes
    /\ DataLaid(d[2], d[3], min_header_bytes(d[1]))
  BY FrameLaid, ShortDataLaid
     DEF DataMessages, min_header_bytes, Frame, Credit, Probe, ProbeAck, k_frame_header_bytes,
         k_credit_bytes, k_probe_bytes, k_probe_ack_bytes, k_data_prefix_bytes

\* The offsets written into each encoder and, again, into its decoder agree:
\* every field is read where it was put, no two fields of a message share a
\* byte, and none lies beyond the size the message declares.
THEOREM LayoutsAgree ==
  /\ Laid(put_open, get_open, k_open_fixed_bytes)
  /\ Laid(put_open_reply, get_open_reply, k_open_reply_fixed_bytes)
  /\ Laid(put_error, get_error, k_error_fixed_bytes)
  /\ \A t \in FixedMessages : Laid(t[3], t[4], t[2])
  /\ \A d \in DataMessages : DataLaid(d[2], d[3], min_header_bytes(d[1]))
  BY OpenLaid, OpenReplyLaid, OthersLaid, FixedLaid, MessagesLaid

-----------------------------------------------------------------------------
(* What a decoder reads                                                    *)

\* Lengths and sizes are natural numbers, wherever they are read.
IsBuffer(m) ==
  /\ m.size \in Nat
  /\ \A o \in Nat : \A w \in {1, 2, 4} : get(m, o, w) \in Nat

Delivered(m, reads) == \A p \in reads : p[1] + p[2] <= m.size

LEMMA Opened ==
  ASSUME NEW m, IsBuffer(m), NEW t, open_coord(m, t) = "Ok"
  PROVE  /\ HeaderBytes(m) \in Nat /\ BodyBytes(m) \in Nat
         /\ m.size = HeaderBytes(m) + BodyBytes(m)
         /\ HeaderBytes(m) >= k_coord_envelope_bytes
         /\ m.size <= k_max_coord_message_bytes
<1>1. m.size \in Nat /\ HeaderBytes(m) \in Nat /\ BodyBytes(m) \in Nat
  BY DEF IsBuffer, HeaderBytes, BodyBytes
<1>2. /\ ~(m.size > k_max_coord_message_bytes) /\ ~(m.size # HeaderBytes(m) + BodyBytes(m))
      /\ ~(HeaderBytes(m) < k_coord_envelope_bytes)
  BY DEF open_coord
<1> QED
  BY <1>1, <1>2 DEF k_coord_envelope_bytes, k_max_coord_message_bytes

LEMMA EnvelopeDelivered ==
  ASSUME NEW m, IsBuffer(m)
  PROVE  Delivered(m, open_coord_reads(m)) /\ Delivered(m, open_data_reads(m))
<1>1. m.size \in Nat
  BY DEF IsBuffer
<1> QED
  BY <1>1 DEF Delivered, open_coord_reads, open_data_reads, k_coord_envelope_bytes,
              k_max_coord_message_bytes, k_data_prefix_bytes

LEMMA PlacesDelivered ==
  ASSUME NEW m, NEW base \in Nat, NEW n \in Nat, NEW layout, m.size \in Nat,
         Fits(layout, n), base + n <= m.size
  PROVE  Delivered(m, Places(base, layout))
  BY DEF Delivered, Places, At, Fits

LEMMA TailDelivered ==
  ASSUME NEW m, IsBuffer(m), NEW o \in Nat, NEW w \in {2, 4}, NEW lo \in Nat, NEW hi \in Nat,
         HeaderBytes(m) \in Nat, BodyBytes(m) \in Nat,
         m.size = HeaderBytes(m) + BodyBytes(m)
  PROVE  /\ Delivered(m, tail_reads(m, o, w, lo, hi))
         /\ read_blob(m, o, w, lo, hi) => After(m, o, w) \in Nat
<1> DEFINE len == get(m, HeaderBytes(m) + o, w)
<1>1. len \in Nat
  BY DEF IsBuffer
<1>2. /\ After(m, o, w) = o + w + len
      /\ read_blob(m, o, w, lo, hi) => o + w + len <= BodyBytes(m)
  BY DEF After, read_blob
<1>3. tail_reads(m, o, w, lo, hi) \subseteq
        IF o + w > BodyBytes(m) THEN {}
        ELSE {<<HeaderBytes(m) + o, w>>}
             \cup (IF read_blob(m, o, w, lo, hi) THEN {<<HeaderBytes(m) + o + w, len>>} ELSE {})
  BY DEF tail_reads
<1> HIDE DEF len
<1> QED
  BY <1>1, <1>2, <1>3 DEF Delivered

LEMMA UnionDelivered ==
  ASSUME NEW m, NEW A, NEW B, Delivered(m, A), Delivered(m, B)
  PROVE  Delivered(m, A \cup B)
  BY DEF Delivered

LEMMA NothingDelivered == \A m : Delivered(m, {})
  BY DEF Delivered

\* The body of an opened message holds a layout that fits its fixed part.
LEMMA BodyDelivered ==
  ASSUME NEW m, IsBuffer(m), NEW t, open_coord(m, t) = "Ok", NEW n \in Nat,
         ~(BodyBytes(m) < n), NEW layout, Fits(layout, n)
  PROVE  Delivered(m, Places(HeaderBytes(m), layout))
<1>1. /\ HeaderBytes(m) \in Nat /\ BodyBytes(m) \in Nat
      /\ m.size = HeaderBytes(m) + BodyBytes(m)
  BY Opened
<1>2. m.size \in Nat /\ HeaderBytes(m) + n <= m.size
  BY <1>1 DEF IsBuffer
<1> QED
  BY <1>1, <1>2, PlacesDelivered

\* No decoder reads a byte that was not delivered, whatever the buffer
\* declares of its header, its body, its names and its addresses.
THEOREM DecodersStayInside ==
  ASSUME NEW m, IsBuffer(m),
         k_min_stream_name_bytes \in Nat, k_max_stream_name_bytes \in Nat
  PROVE  /\ Delivered(m, decode_envelope_reads(m))
         /\ Delivered(m, open_reads(m))
         /\ Delivered(m, open_reply_reads(m))
         /\ Delivered(m, error_reads(m))
         /\ \A t \in FixedMessages : Delivered(m, fixed_reads(m, t[1], t[2], t[4]))
         /\ \A d \in DataMessages : Delivered(m, data_reads(m, d[1], d[3]))
<1>1. Delivered(m, open_coord_reads(m)) /\ Delivered(m, open_data_reads(m)) /\ m.size \in Nat
  BY EnvelopeDelivered DEF IsBuffer
<1>2. Delivered(m, decode_envelope_reads(m))
  <2>1. m.size >= k_coord_envelope_bytes => Delivered(m, {<<8, 2>>})
    BY <1>1 DEF Delivered, k_coord_envelope_bytes
  <2> QED
    BY <1>1, <2>1, UnionDelivered, NothingDelivered
       DEF decode_envelope_reads, k_coord_envelope_bytes
<1>3. Delivered(m, open_reads(m))
  <2> DEFINE o == k_open_fixed_bytes
             lo == k_min_stream_name_bytes
             hi == k_max_stream_name_bytes
  <2>1. CASE open_coord(m, Open) # "Ok" \/ BodyBytes(m) < o
    BY <1>1, <2>1, UnionDelivered, NothingDelivered DEF open_reads
  <2>2. CASE ~(open_coord(m, Open) # "Ok" \/ BodyBytes(m) < o)
    <3>1. /\ HeaderBytes(m) \in Nat /\ BodyBytes(m) \in Nat
          /\ m.size = HeaderBytes(m) + BodyBytes(m) /\ o \in Nat
      BY <2>2, Opened DEF k_open_fixed_bytes
    <3>2. Delivered(m, Places(HeaderBytes(m), get_open))
      BY <2>2, <3>1, OpenLaid, BodyDelivered DEF Laid
    <3>3. /\ Delivered(m, tail_reads(m, o, 2, lo, hi))
          /\ read_blob(m, o, 2, lo, hi) => After(m, o, 2) \in Nat
      BY <3>1, TailDelivered
    <3>4. read_string(m, o, lo, hi) =>
            Delivered(m, tail_reads(m, After(m, o, 2), 4, 1, k_max_ucx_address_bytes))
      BY <3>1, <3>3, TailDelivered DEF read_string, k_max_ucx_address_bytes
    <3> DEFINE address == IF ~read_string(m, o, lo, hi) THEN {}
                          ELSE tail_reads(m, After(m, o, 2), 4, 1, k_max_ucx_address_bytes)
    <3>5. Delivered(m, address)
      BY <3>4, NothingDelivered
    <3>6. open_reads(m) =
            open_coord_reads(m) \cup (Places(HeaderBytes(m), get_open)
              \cup tail_reads(m, o, 2, lo, hi) \cup address)
      BY <2>2 DEF open_reads
    <3> HIDE DEF o, lo, hi, address
    <3> QED
      BY <1>1, <3>2, <3>3, <3>5, <3>6 DEF Delivered
  <2> QED
    BY <2>1, <2>2
<1>4. Delivered(m, open_reply_reads(m))
  <2> DEFINE o == k_open_reply_fixed_bytes
  <2>1. CASE open_coord(m, OpenReply) # "Ok" \/ BodyBytes(m) < o
    BY <1>1, <2>1, UnionDelivered, NothingDelivered DEF open_reply_reads
  <2>2. CASE ~(open_coord(m, OpenReply) # "Ok" \/ BodyBytes(m) < o)
    <3>1. /\ HeaderBytes(m) \in Nat /\ BodyBytes(m) \in Nat
          /\ m.size = HeaderBytes(m) + BodyBytes(m) /\ o \in Nat
      BY <2>2, Opened DEF k_open_reply_fixed_bytes
    <3>2. Delivered(m, Places(HeaderBytes(m), get_open_reply))
      BY <2>2, <3>1, OpenReplyLaid, BodyDelivered DEF Laid
    <3>3. Delivered(m, tail_reads(m, o, 4, 0, k_max_ucx_address_bytes))
      BY <3>1, TailDelivered DEF k_max_ucx_address_bytes
    <3> QED
      BY <1>1, <2>2, <3>2, <3>3, UnionDelivered DEF open_reply_reads
  <2> QED
    BY <2>1, <2>2
<1>5. Delivered(m, error_reads(m))
  <2> DEFINE o == k_error_fixed_bytes
  <2>1. CASE open_coord(m, Error) # "Ok" \/ BodyBytes(m) < o
    BY <1>1, <2>1, UnionDelivered, NothingDelivered DEF error_reads
  <2>2. CASE ~(open_coord(m, Error) # "Ok" \/ BodyBytes(m) < o)
    <3>1. /\ HeaderBytes(m) \in Nat /\ BodyBytes(m) \in Nat
          /\ m.size = HeaderBytes(m) + BodyBytes(m) /\ o \in Nat
      BY <2>2, Opened DEF k_error_fixed_bytes
    <3>2. Delivered(m, Places(HeaderBytes(m), get_error))
      BY <2>2, <3>1, OthersLaid, BodyDelivered DEF Laid
    <3>3. Delivered(m, tail_reads(m, o, 2, 0, k_max_error_message_bytes))
      BY <3>1, TailDelivered DEF k_max_error_message_bytes
    <3> QED
      BY <1>1, <2>2, <3>2, <3>3, UnionDelivered DEF error_reads
  <2> QED
    BY <2>1, <2>2
<1>6. ASSUME NEW t \in FixedMessages
      PROVE  Delivered(m, fixed_reads(m, t[1], t[2], t[4]))
  <2> DEFINE refused == \/ open_coord(m, t[1]) # "Ok"
                        \/ check_fixed_body(BodyBytes(m), t[2], Minor(m)) # "Ok"
  <2>1. CASE refused
    BY <1>1, <2>1, UnionDelivered, NothingDelivered DEF fixed_reads
  <2>2. CASE ~refused
    <3>1. ~(BodyBytes(m) < t[2]) /\ t[2] \in Nat /\ Fits(t[4], t[2])
      BY <2>2, FixedLaid DEF check_fixed_body, Laid
    <3>2. Delivered(m, Places(HeaderBytes(m), t[4]))
      BY <2>2, <3>1, BodyDelivered
    <3> QED
      BY <1>1, <2>2, <3>2, UnionDelivered DEF fixed_reads
  <2> QED
    BY <2>1, <2>2
<1>7. ASSUME NEW d \in DataMessages
      PROVE  Delivered(m, data_reads(m, d[1], d[3]))
  <2>1. CASE open_data(m, d[1]) # "Ok"
    BY <1>1, <2>1, UnionDelivered, NothingDelivered DEF data_reads
  <2>2. CASE open_data(m, d[1]) = "Ok"
    <3>1. /\ ~(HeaderBytes(m) < min_header_bytes(d[1])) /\ ~(m.size < HeaderBytes(m))
          /\ HeaderBytes(m) \in Nat
      BY <2>2 DEF open_data, IsBuffer, HeaderBytes
    <3>2. min_header_bytes(d[1]) \in Nat /\ Fits(d[3], min_header_bytes(d[1]))
      BY MessagesLaid DEF DataLaid
    <3>3. 0 + min_header_bytes(d[1]) <= m.size
      BY <1>1, <3>1, <3>2
    <3>4. Delivered(m, Places(0, d[3]))
      BY <1>1, <3>2, <3>3, PlacesDelivered
    <3> QED
      BY <1>1, <2>2, <3>4, UnionDelivered DEF data_reads
  <2> QED
    BY <2>1, <2>2
<1> QED
  BY <1>2, <1>3, <1>4, <1>5, <1>6, <1>7

-----------------------------------------------------------------------------
(* What is decoded of what was encoded                                     *)

LEMMA EnvelopeBack ==
  ASSUME NEW m, NEW t \in Nat, NEW id, NEW n \in Nat, Enveloped(m, t, id, n),
         is_known_coord_type(t)
  PROVE  /\ open_coord(m, t) = "Ok" /\ decode_envelope(m) = "Ok"
         /\ HeaderBytes(m) = k_coord_envelope_bytes /\ BodyBytes(m) = n
         /\ Minor(m) = k_version_minor /\ CorrelationId(m) = id /\ MsgType(m) = t
<1>1. /\ get(m, 0, 4) = k_coord_magic /\ get(m, 4, 1) = k_version_major
      /\ Minor(m) = k_version_minor /\ HeaderBytes(m) = k_coord_envelope_bytes
      /\ MsgType(m) = t /\ BodyBytes(m) = n /\ CorrelationId(m) = id
      /\ m.size = k_coord_envelope_bytes + n
  BY DEF Enveloped, put_envelope, get, Minor, HeaderBytes, MsgType, BodyBytes, CorrelationId
<1>2. n <= k_max_coord_body_bytes
  BY DEF Enveloped, make_message, k_max_coord_body_bytes
<1>3. open_coord(m, t) = "Ok"
  BY <1>1, <1>2 DEF open_coord, k_coord_envelope_bytes, k_max_coord_body_bytes,
                    k_max_coord_message_bytes
<1>4. decode_envelope(m) = "Ok"
  BY <1>1, <1>3 DEF decode_envelope, k_coord_envelope_bytes
<1> QED
  BY <1>1, <1>3, <1>4

LEMMA FieldsBack ==
  ASSUME NEW m, NEW base, NEW put, NEW got, NEW msg, Agree(put, got),
         msg = [f \in DOMAIN got |-> msg[f]], Placed(m, base, put, msg)
  PROVE  Fields(m, base, got) = msg
<1>1. \A f \in DOMAIN got : m.word[At(base, got[f])] = msg[f]
  BY DEF Agree, Placed
<1> QED
  BY <1>1 DEF Fields

LEMMA TailBack ==
  ASSUME NEW m, NEW o \in Nat, NEW w \in {2, 4}, NEW n \in Nat, NEW c, put_tail(m, o, w, n, c),
         HeaderBytes(m) = k_coord_envelope_bytes
  PROVE  /\ get(m, HeaderBytes(m) + o, w) = n /\ Content(m, o, w) = c
         /\ After(m, o, w) = o + w + n
         /\ \A lo, hi, body \in Nat :
              /\ lo <= n /\ n <= hi /\ BodyBytes(m) = body /\ o + w + n <= body
              => read_blob(m, o, w, lo, hi)
<1>1. get(m, HeaderBytes(m) + o, w) = n
  BY DEF put_tail, get
<1>2. Content(m, o, w) = c
  BY <1>1 DEF put_tail, Content, get
<1>3. After(m, o, w) = o + w + n
  BY <1>1 DEF After
<1> QED
  BY <1>1, <1>2, <1>3 DEF read_blob

\* The messages without a tail come back as they were sent.
THEOREM FixedRoundTrip ==
  ASSUME NEW t \in FixedMessages, NEW m, NEW id, NEW msg,
         msg = [f \in DOMAIN t[4] |-> msg[f]],
         encode_fixed(msg, id, m, t[1], t[2], t[3])
  PROVE  /\ decode_fixed(m, t[1], t[2], t[4]) = [status |-> "Ok", msg |-> msg]
         /\ CorrelationId(m) = id
<1>1. /\ t[1] \in Nat /\ is_known_coord_type(t[1]) /\ t[2] \in Nat
      /\ Agree(t[3], t[4])
  BY FixedLaid DEF Laid
<1>2. Enveloped(m, t[1], id, t[2]) /\ Placed(m, k_coord_envelope_bytes, t[3], msg)
  BY DEF encode_fixed
<1>3. /\ open_coord(m, t[1]) = "Ok" /\ HeaderBytes(m) = k_coord_envelope_bytes
      /\ BodyBytes(m) = t[2] /\ CorrelationId(m) = id
  BY <1>1, <1>2, EnvelopeBack
<1>4. Fields(m, HeaderBytes(m), t[4]) = msg
  BY <1>1, <1>2, <1>3, FieldsBack
<1>5. check_fixed_body(BodyBytes(m), t[2], Minor(m)) = "Ok"
  BY <1>1, <1>3 DEF check_fixed_body
<1> QED
  BY <1>3, <1>4, <1>5 DEF decode_fixed, fixed_status, Decoded

\* So does a data message.
THEOREM DataRoundTrip ==
  ASSUME NEW d \in DataMessages, NEW m, NEW msg,
         msg = [f \in DOMAIN d[3] |-> msg[f]],
         encode_data(msg, m, d[1], d[2])
  PROVE  decode_data(m, d[1], d[3]) = [status |-> "Ok", msg |-> msg]
<1>1. /\ min_header_bytes(d[1]) \in Nat /\ min_header_bytes(d[1]) >= k_data_prefix_bytes
      /\ DataLaid(d[2], d[3], min_header_bytes(d[1]))
  BY MessagesLaid
<1>2. /\ get(m, 0, 4) = k_data_magic /\ get(m, 4, 1) = k_version_major
      /\ HeaderBytes(m) = min_header_bytes(d[1]) /\ MsgType(m) = d[1]
      /\ m.size = min_header_bytes(d[1]) /\ m.word[put_data_prefix.generation] = msg.generation
      /\ Placed(m, 0, d[2], msg)
  BY DEF encode_data, put_data_prefix, get, HeaderBytes, MsgType
<1>3. open_data(m, d[1]) = "Ok"
  BY <1>1, <1>2 DEF open_data, k_data_prefix_bytes
<1>4. put_data_prefix.generation = <<12, 4>>
  BY DEF put_data_prefix
<1>5. \A f \in DOMAIN d[3] : m.word[At(0, d[3][f])] = msg[f]
  <2> SUFFICES ASSUME NEW f \in DOMAIN d[3]
               PROVE  m.word[At(0, d[3][f])] = msg[f]
    OBVIOUS
  <2>1. CASE f = "generation"
    <3>1. At(0, d[3][f]) = <<12, 4>>
      BY <1>1, <1>4, <2>1 DEF DataLaid, At
    <3> QED
      BY <1>2, <1>4, <2>1, <3>1
  <2>2. CASE f # "generation"
    BY <1>1, <1>2, <2>2 DEF DataLaid, Placed
  <2> QED
    BY <2>1, <2>2
<1>6. Fields(m, 0, d[3]) = msg
  BY <1>5 DEF Fields
<1> QED
  BY <1>3, <1>6 DEF decode_data, Decoded

LEMMA WordsHaveNoNul ==
  ASSUME NEW text, validate_stream_name(text) = "Ok"
  PROVE  NoNul(text)
  BY DEF validate_stream_name, NoNul

LEMMA TailedTypes ==
  /\ Open \in Nat /\ OpenReply \in Nat /\ Error \in Nat
  /\ is_known_coord_type(Open) /\ is_known_coord_type(OpenReply) /\ is_known_coord_type(Error)
  BY DEF is_known_coord_type, Open, OpenReply, Renew, RenewReply, Close, CloseReply, Error

\* An Open the encoder accepts is decoded as it was sent, the name and the
\* address included.
THEOREM OpenRoundTrip ==
  ASSUME NEW m, NEW id, NEW fixed, NEW name \in Seq(STRING), NEW bytes \in Nat, NEW content,
         fixed = [f \in DOMAIN get_open |-> fixed[f]],
         k_min_stream_name_bytes \in Nat, k_max_stream_name_bytes \in Nat,
         encode_open([fixed |-> fixed, stream_name |-> name,
                      client_ucx_address |-> [bytes |-> bytes, content |-> content]], id, m)
  PROVE  /\ decode_open(m) =
              [status |-> "Ok",
               msg |-> [fixed |-> fixed, stream_name |-> name,
                        client_ucx_address |-> [bytes |-> bytes, content |-> content]]]
         /\ CorrelationId(m) = id
<1> DEFINE o == k_open_fixed_bytes
           n == Len(name)
           body == o + 2 + n + 4 + bytes
<1>1. /\ validate_stream_name(name) = "Ok" /\ bytes > 0 /\ bytes <= k_max_ucx_address_bytes
      /\ Enveloped(m, Open, id, body)
      /\ Placed(m, k_coord_envelope_bytes, put_open, fixed)
      /\ put_tail(m, o, 2, n, name) /\ put_tail(m, o + 2 + n, 4, bytes, content)
  BY DEF encode_open
<1>2. n \in Nat /\ o \in Nat /\ body \in Nat
  BY DEF k_open_fixed_bytes
<1>3. ~(n < k_min_stream_name_bytes) /\ ~(n > k_max_stream_name_bytes)
  BY <1>1 DEF validate_stream_name
<1> HIDE DEF n, o
<1>4. /\ open_coord(m, Open) = "Ok" /\ HeaderBytes(m) = k_coord_envelope_bytes
      /\ BodyBytes(m) = body /\ CorrelationId(m) = id
  BY <1>1, <1>2, TailedTypes, EnvelopeBack
<1>5. Fields(m, HeaderBytes(m), get_open) = fixed
  BY <1>1, <1>4, OpenLaid, FieldsBack DEF Laid
<1>6. Content(m, o, 2) = name /\ After(m, o, 2) = o + 2 + n
  BY <1>1, <1>2, <1>4, TailBack
<1>7. read_blob(m, o, 2, k_min_stream_name_bytes, k_max_stream_name_bytes)
  <2>1. o + 2 + n <= body /\ k_min_stream_name_bytes <= n /\ n <= k_max_stream_name_bytes
    BY <1>2, <1>3
  <2>2. put_tail(m, o, 2, n, name) /\ BodyBytes(m) = body
    BY <1>1, <1>4
  <2> HIDE DEF body
  <2> QED
    BY <1>2, <1>4, <2>1, <2>2, TailBack
<1> DEFINE next == o + 2 + n
<1>8. next \in Nat /\ body = next + 4 + bytes
  BY <1>2
<1> HIDE DEF next
<1>9. put_tail(m, next, 4, bytes, content) /\ After(m, o, 2) = next
  BY <1>1, <1>6 DEF next
<1>10. /\ get(m, HeaderBytes(m) + next, 4) = bytes /\ Content(m, next, 4) = content
       /\ After(m, next, 4) = body
  BY <1>4, <1>8, <1>9, TailBack
<1>11. read_blob(m, next, 4, 1, k_max_ucx_address_bytes)
  <2>1. next + 4 + bytes <= body /\ 1 <= bytes
    BY <1>1, <1>2, <1>8, SMTT(30)
  <2>2. k_max_ucx_address_bytes \in Nat /\ 1 \in Nat
    BY DEF k_max_ucx_address_bytes
  <2> QED
    BY <1>1, <1>2, <1>4, <1>8, <1>9, <2>1, <2>2, TailBack
<1>12. read_string(m, o, k_min_stream_name_bytes, k_max_stream_name_bytes)
  BY <1>1, <1>6, <1>7, WordsHaveNoNul DEF read_string
<1>13. ~(BodyBytes(m) < o)
  BY <1>2, <1>4
<1> HIDE DEF body
<1> QED
  BY <1>1, <1>4, <1>5, <1>6, <1>9, <1>10, <1>11, <1>12, <1>13 DEF decode_open, open_status, Decoded, o

\* An OpenReply the encoder accepts comes back, and so does a refusal, which
\* carries no address.
THEOREM OpenReplyRoundTrip ==
  ASSUME NEW m, NEW id, NEW fixed, NEW bytes \in Nat, NEW content,
         fixed = [f \in DOMAIN get_open_reply |-> fixed[f]],
         encode_open_reply([fixed |-> fixed,
                            server_ucx_address |-> [bytes |-> bytes, content |-> content]], id, m)
  PROVE  /\ decode_open_reply(m) =
              [status |-> "Ok",
               msg |-> [fixed |-> fixed,
                        server_ucx_address |-> [bytes |-> bytes, content |-> content]]]
         /\ CorrelationId(m) = id
<1> DEFINE o == k_open_reply_fixed_bytes
           body == o + 4 + bytes
<1>1. /\ bytes <= k_max_ucx_address_bytes /\ Enveloped(m, OpenReply, id, body)
      /\ Placed(m, k_coord_envelope_bytes, put_open_reply, fixed)
      /\ put_tail(m, o, 4, bytes, content)
  BY DEF encode_open_reply
<1>2. o \in Nat /\ body \in Nat /\ body = o + 4 + bytes
  BY DEF k_open_reply_fixed_bytes
<1> HIDE DEF o, body
<1>3. /\ open_coord(m, OpenReply) = "Ok" /\ HeaderBytes(m) = k_coord_envelope_bytes
      /\ BodyBytes(m) = body /\ CorrelationId(m) = id
  BY <1>1, <1>2, TailedTypes, EnvelopeBack
<1>4. Fields(m, HeaderBytes(m), get_open_reply) = fixed
  BY <1>1, <1>3, OpenReplyLaid, FieldsBack DEF Laid
<1>5. /\ get(m, HeaderBytes(m) + o, 4) = bytes /\ Content(m, o, 4) = content
      /\ After(m, o, 4) = body
  BY <1>1, <1>2, <1>3, TailBack
<1>6. read_blob(m, o, 4, 0, k_max_ucx_address_bytes)
  <2>1. k_max_ucx_address_bytes \in Nat /\ 0 <= bytes /\ o + 4 + bytes <= body
    BY <1>2 DEF k_max_ucx_address_bytes
  <2> QED
    BY <1>1, <1>2, <1>3, <2>1, TailBack
<1>7. ~(BodyBytes(m) < o)
  BY <1>2, <1>3
<1> QED
  BY <1>3, <1>4, <1>5, <1>6, <1>7 DEF decode_open_reply, open_reply_status, Decoded, o

\* An Error comes back with its message cut to what the field holds.  The
\* message must have no NUL: the encoder does not look, the decoder refuses.
THEOREM ErrorRoundTrip ==
  ASSUME NEW m, NEW id, NEW fixed, NEW message \in Seq(STRING),
         fixed = [f \in DOMAIN get_error |-> fixed[f]], NoNul(message),
         encode_error([fixed |-> fixed, message |-> message], id, m)
  PROVE  /\ decode_error(m) =
              [status |-> "Ok",
               msg |-> [fixed |-> fixed,
                        message |-> truncated(message, k_max_error_message_bytes)]]
         /\ CorrelationId(m) = id
<1> DEFINE o == k_error_fixed_bytes
           max == k_max_error_message_bytes
           text == truncated(message, max)
           n == Len(text)
           body == o + 2 + n
<1>1. /\ Enveloped(m, Error, id, body)
      /\ Placed(m, k_coord_envelope_bytes, put_error, fixed)
      /\ put_tail(m, o, 2, n, text)
  BY DEF encode_error
<1>2. n \in Nat /\ n <= max /\ NoNul(text) /\ max \in Nat
  <2>1. Len(message) \in Nat /\ max \in Nat /\ max >= 1
    BY DEF k_max_error_message_bytes
  <2>2. CASE Len(message) > max
    <3>1. text = SubSeq(message, 1, max)
      BY <2>2 DEF truncated
    <3>2. 1 \in 1..Len(message)+1 /\ max \in (1 - 1)..Len(message)
      BY <2>1, <2>2
    <3>3. Len(text) = max /\ \A i \in 1..max : text[i] = message[i]
      BY <2>1, <2>2, <3>1, SubSeqProperties
    <3> QED
      BY <2>1, <2>2, <3>3 DEF NoNul
  <2>3. CASE ~(Len(message) > max)
    BY <2>1, <2>3 DEF truncated
  <2> QED
    BY <2>2, <2>3
<1>3. o \in Nat /\ body \in Nat /\ body = o + 2 + n
  BY <1>2 DEF k_error_fixed_bytes
<1> HIDE DEF o, body, n, text, max
<1>4. /\ open_coord(m, Error) = "Ok" /\ HeaderBytes(m) = k_coord_envelope_bytes
      /\ BodyBytes(m) = body /\ CorrelationId(m) = id
  BY <1>1, <1>3, TailedTypes, EnvelopeBack
<1>5. Fields(m, HeaderBytes(m), get_error) = fixed
  BY <1>1, <1>4, OthersLaid, FieldsBack DEF Laid
<1>6. Content(m, o, 2) = text /\ After(m, o, 2) = body
  BY <1>1, <1>2, <1>3, <1>4, TailBack
<1>7. read_string(m, o, 0, max)
  <2>1. 0 <= n /\ o + 2 + n <= body
    BY <1>2, <1>3
  <2>2. read_blob(m, o, 2, 0, max)
    BY <1>1, <1>2, <1>3, <1>4, <2>1, TailBack
  <2> QED
    BY <1>2, <1>6, <2>2 DEF read_string
<1>8. ~(BodyBytes(m) < o)
  BY <1>2, <1>3, <1>4
<1> QED
  BY <1>4, <1>5, <1>6, <1>7, <1>8 DEF decode_error, error_status, Decoded, o, max, text

-----------------------------------------------------------------------------
(* What is accepted and what is not                                        *)

\* The lengths the encoders let through never make a message the peer would
\* refuse for its size: make_message() does not throw, and the largest Open,
\* OpenReply and Error are within what open_coord() accepts.
THEOREM EncodersFit ==
  ASSUME k_max_stream_name_bytes \in Nat, k_max_stream_name_bytes <= 64,
         NEW name \in 0..k_max_stream_name_bytes,
         NEW address \in 0..k_max_ucx_address_bytes,
         NEW text \in 0..k_max_error_message_bytes
  PROVE  \A body \in {k_open_fixed_bytes + 2 + name + 4 + address,
                      k_open_reply_fixed_bytes + 4 + address,
                      k_error_fixed_bytes + 2 + text} :
           /\ make_message(body) = "made"
           /\ k_coord_envelope_bytes + body <= k_max_coord_message_bytes
<1>1. name \in Nat /\ name <= 64 /\ address \in Nat /\ address <= 4096
      /\ text \in Nat /\ text <= 512
  BY SMTT(30) DEF k_max_ucx_address_bytes, k_max_error_message_bytes
<1>2. \A body \in Nat : body <= 65504 =>
        /\ make_message(body) = "made"
        /\ k_coord_envelope_bytes + body <= k_max_coord_message_bytes
  BY SMT DEF make_message, k_max_coord_body_bytes, k_max_coord_message_bytes,
             k_coord_envelope_bytes
<1>3. /\ k_open_fixed_bytes + 2 + name + 4 + address \in Nat
      /\ k_open_fixed_bytes + 2 + name + 4 + address <= 65504
  BY <1>1, SMT DEF k_open_fixed_bytes
<1>4. /\ k_open_reply_fixed_bytes + 4 + address \in Nat
      /\ k_open_reply_fixed_bytes + 4 + address <= 65504
  BY <1>1, SMT DEF k_open_reply_fixed_bytes
<1>5. /\ k_error_fixed_bytes + 2 + text \in Nat
      /\ k_error_fixed_bytes + 2 + text <= 65504
  BY <1>1, SMT DEF k_error_fixed_bytes
<1> QED
  BY <1>2, <1>3, <1>4, <1>5, SMT

LEMMA StatusDecoded == \A status, msg : Decoded(status, msg).status = status
  BY DEF Decoded

\* Every byte of an accepted coordination message is accounted for: the header
\* and the body are the delivered length, a tail ends where the body ends, and
\* a longer fixed body is accepted from a newer minor version only.
THEOREM NothingUnexplained ==
  ASSUME NEW m, IsBuffer(m)
  PROVE  /\ decode_open(m).status = "Ok" =>
              /\ m.size = HeaderBytes(m) + BodyBytes(m)
              /\ After(m, After(m, k_open_fixed_bytes, 2), 4) = BodyBytes(m)
         /\ decode_open_reply(m).status = "Ok" =>
              /\ m.size = HeaderBytes(m) + BodyBytes(m)
              /\ After(m, k_open_reply_fixed_bytes, 4) = BodyBytes(m)
         /\ decode_error(m).status = "Ok" =>
              /\ m.size = HeaderBytes(m) + BodyBytes(m)
              /\ After(m, k_error_fixed_bytes, 2) = BodyBytes(m)
         /\ \A t \in FixedMessages :
              decode_fixed(m, t[1], t[2], t[4]).status = "Ok" =>
                /\ m.size = HeaderBytes(m) + BodyBytes(m)
                /\ BodyBytes(m) = t[2] \/ (BodyBytes(m) > t[2] /\ Minor(m) > k_version_minor)
<1>1. decode_open(m).status = "Ok" =>
        open_coord(m, Open) = "Ok" /\ After(m, After(m, k_open_fixed_bytes, 2), 4) = BodyBytes(m)
  BY StatusDecoded DEF decode_open, open_status
<1>2. decode_open_reply(m).status = "Ok" =>
        open_coord(m, OpenReply) = "Ok" /\ After(m, k_open_reply_fixed_bytes, 4) = BodyBytes(m)
  BY StatusDecoded DEF decode_open_reply, open_reply_status
<1>3. decode_error(m).status = "Ok" =>
        open_coord(m, Error) = "Ok" /\ After(m, k_error_fixed_bytes, 2) = BodyBytes(m)
  BY StatusDecoded DEF decode_error, error_status
<1>4. ASSUME NEW t \in FixedMessages, decode_fixed(m, t[1], t[2], t[4]).status = "Ok"
      PROVE  /\ m.size = HeaderBytes(m) + BodyBytes(m)
             /\ BodyBytes(m) = t[2] \/ (BodyBytes(m) > t[2] /\ Minor(m) > k_version_minor)
  <2>1. /\ open_coord(m, t[1]) = "Ok"
        /\ check_fixed_body(BodyBytes(m), t[2], Minor(m)) = "Ok"
    BY <1>4, StatusDecoded DEF decode_fixed, fixed_status
  <2>2. BodyBytes(m) \in Nat /\ Minor(m) \in Nat /\ t[2] \in Nat
    BY FixedLaid DEF IsBuffer, BodyBytes, Minor
  <2>3. BodyBytes(m) = t[2] \/ (BodyBytes(m) > t[2] /\ Minor(m) > k_version_minor)
    BY <2>1, <2>2 DEF check_fixed_body, k_version_minor
  <2> QED
    BY <2>1, <2>3, Opened
<1> QED
  BY <1>1, <1>2, <1>3, <1>4, Opened

\* A frame header that is decoded describes an array that lies inside the
\* payload it announces, and a payload no slot is asked to exceed: a receive
\* path that computes addresses from it stays inside the frame.
THEOREM DecodedFrameInside ==
  ASSUME NEW m, k_max_frame_bytes_hard_cap \in Nat,
         NEW h, h = Fields(m, 0, get_frame_header), IsArray(h), h.payload_bytes \in Nat,
         decode_frame_header(m).status = "Ok"
  PROVE  /\ h.payload_bytes \in 1..k_max_frame_bytes_hard_cap
         /\ \A x \in Index(h) : Offset(h, x) + h.element_size <= h.payload_bytes
<1>1. frame_header_status(h) = "Ok"
  BY DEF decode_frame_header, Decoded
<1>2. /\ h.payload_bytes # 0 /\ ~(h.payload_bytes > k_max_frame_bytes_hard_cap)
      /\ validate_shape_and_strides(h, h.payload_bytes) = "Ok"
  BY <1>1 DEF frame_header_status
<1>3. \A x \in Index(h) : Offset(h, x) + h.element_size <= h.payload_bytes
  BY <1>2, AddressesInside
<1> QED
  BY <1>2, <1>3
=============================================================================
