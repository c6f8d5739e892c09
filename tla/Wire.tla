-------------------------------- MODULE Wire --------------------------------
(***************************************************************************)
(* The messages of both planes as bytes (src/core/protocol.cpp): where     *)
(* each encoder puts a field, where each decoder reads it, and what a      *)
(* decoder accepts.                                                        *)
(*                                                                         *)
(* A delivered buffer m has m.size bytes.  m.word[p] is what is read at    *)
(* the place p = <<offset, width>>: an integer, an identifier, a blob, or  *)
(* a string as a sequence of characters of the classes of Geometry and     *)
(* "nul".  Kinds, states, reasons and statuses are their numbers.          *)
(***************************************************************************)
EXTENDS Geometry

k_version_major == 1
k_version_minor == 0

k_coord_magic == 1263288916                    \* 0x4B4C4254
k_coord_envelope_bytes == 32
k_max_coord_message_bytes == 65536
k_max_coord_body_bytes == 65504
k_max_error_message_bytes == 512
k_max_ucx_address_bytes == 4096

\* CoordType
Open == 1
OpenReply == 2
Renew == 3
RenewReply == 4
Close == 5
CloseReply == 6
Error == 255

k_open_fixed_bytes == 56
k_open_reply_fixed_bytes == 152
k_renew_bytes == 40
k_renew_reply_bytes == 128
k_close_bytes == 24
k_close_reply_bytes == 24
k_error_fixed_bytes == 8

get(m, offset, width) == m.word[<<offset, width>>]

\* A layout, a record of places, moved to where it is embedded.
At(base, place) == <<base + place[1], place[2]>>

-----------------------------------------------------------------------------
(* The envelope                                                            *)

put_envelope ==
  [magic |-> <<0, 4>>, version_major |-> <<4, 1>>, version_minor |-> <<5, 1>>,
   header_bytes |-> <<6, 2>>, msg_type |-> <<8, 2>>, flags |-> <<10, 2>>,
   body_bytes |-> <<12, 4>>, correlation_id |-> <<16, 8>>, reserved |-> <<24, 8>>]

is_known_coord_type(raw) == raw \in {Open, OpenReply, Renew, RenewReply, Close, CloseReply, Error}

\* Envelope and body, or "throws".
make_message(body_bytes) ==
  IF body_bytes > k_max_coord_body_bytes THEN "throws" ELSE "made"

HeaderBytes(m) == get(m, 6, 2)
BodyBytes(m) == get(m, 12, 4)
MsgType(m) == get(m, 8, 2)
Minor(m) == get(m, 5, 1)
CorrelationId(m) == get(m, 16, 8)

open_coord(m, expected) ==
  IF \/ m.size < k_coord_envelope_bytes \/ m.size > k_max_coord_message_bytes
     \/ get(m, 0, 4) # k_coord_magic THEN "MalformedMessage"
  ELSE IF get(m, 4, 1) # k_version_major THEN "UnsupportedVersion"
  ELSE IF \/ HeaderBytes(m) < k_coord_envelope_bytes \/ m.size < HeaderBytes(m)
          \/ BodyBytes(m) > k_max_coord_body_bytes
          \/ m.size # HeaderBytes(m) + BodyBytes(m)
          \/ ~is_known_coord_type(MsgType(m)) \/ MsgType(m) # expected THEN "MalformedMessage"
  ELSE "Ok"

\* At most what it reads, wherever it returns.
open_coord_reads(m) ==
  IF m.size < k_coord_envelope_bytes \/ m.size > k_max_coord_message_bytes THEN {}
  ELSE {<<0, 4>>, <<4, 1>>, <<5, 1>>, <<6, 2>>, <<8, 2>>, <<10, 2>>, <<12, 4>>, <<16, 8>>}

decode_envelope(m) ==
  IF m.size < k_coord_envelope_bytes THEN "MalformedMessage"
  ELSE IF ~is_known_coord_type(MsgType(m)) THEN "MalformedMessage"
  ELSE open_coord(m, MsgType(m))

decode_envelope_reads(m) ==
  IF m.size < k_coord_envelope_bytes THEN {}
  ELSE {<<8, 2>>} \cup (IF is_known_coord_type(MsgType(m)) THEN open_coord_reads(m) ELSE {})

check_fixed_body(body_size, fixed, minor) ==
  IF body_size < fixed \/ (body_size > fixed /\ minor <= k_version_minor)
  THEN "MalformedMessage" ELSE "Ok"

-----------------------------------------------------------------------------
(* The variable tail: a length of w bytes at offset o of the body, then    *)
(* that many bytes.  b is where the body starts.                           *)

read_blob(m, o, w, min_len, max_len) ==
  LET b == HeaderBytes(m)
      len == get(m, b + o, w)
  IN /\ o + w <= BodyBytes(m)
     /\ min_len <= len /\ len <= max_len /\ o + w + len <= BodyBytes(m)

\* What follows the length, and where the next field of the tail begins.
Content(m, o, w) == get(m, HeaderBytes(m) + o + w, get(m, HeaderBytes(m) + o, w))
After(m, o, w) == o + w + get(m, HeaderBytes(m) + o, w)

NoNul(text) == \A i \in 1..Len(text) : text[i] # "nul"

read_string(m, o, min_len, max_len) ==
  /\ read_blob(m, o, 2, min_len, max_len)
  /\ NoNul(Content(m, o, 2))

\* The length if there is room for it, the content if the length is allowed.
tail_reads(m, o, w, min_len, max_len) ==
  LET b == HeaderBytes(m)
      len == get(m, b + o, w)
  IN IF o + w > BodyBytes(m) THEN {}
     ELSE {<<b + o, w>>}
          \cup (IF read_blob(m, o, w, min_len, max_len) THEN {<<b + o + w, len>>} ELSE {})

truncated(value, max_len) == IF Len(value) > max_len THEN SubSeq(value, 1, max_len) ELSE value

validate_stream_name(name) ==
  IF \/ Len(name) < k_min_stream_name_bytes \/ Len(name) > k_max_stream_name_bytes
     \/ \E i \in 1..Len(name) : name[i] # "word"
  THEN "MalformedMessage" ELSE "Ok"

-----------------------------------------------------------------------------
(* Filling and reading a body                                              *)

\* The envelope of a message of this type and body size.
Enveloped(m, type, correlation_id, body_bytes) ==
  /\ make_message(body_bytes) = "made"
  /\ m.size = k_coord_envelope_bytes + body_bytes
  /\ m.word[put_envelope.magic] = k_coord_magic
  /\ m.word[put_envelope.version_major] = k_version_major
  /\ m.word[put_envelope.version_minor] = k_version_minor
  /\ m.word[put_envelope.header_bytes] = k_coord_envelope_bytes
  /\ m.word[put_envelope.msg_type] = type
  /\ m.word[put_envelope.body_bytes] = body_bytes
  /\ m.word[put_envelope.correlation_id] = correlation_id
  /\ m.word[put_envelope.flags] = 0 /\ m.word[put_envelope.reserved] = 0

\* The fixed fields of msg where the layout puts them; what msg does not have
\* is reserved and zero.
Placed(m, base, layout, msg) ==
  \A f \in DOMAIN layout :
    m.word[At(base, layout[f])] = IF f \in DOMAIN msg THEN msg[f] ELSE 0

put_tail(m, o, w, length, content) ==
  /\ m.word[<<k_coord_envelope_bytes + o, w>>] = length
  /\ m.word[<<k_coord_envelope_bytes + o + w, length>>] = content

Fields(m, base, layout) == [f \in DOMAIN layout |-> m.word[At(base, layout[f])]]
Places(base, layout) == {At(base, layout[f]) : f \in DOMAIN layout}

\* One layout inside another, at a base.
Embed(layout, base, inner) ==
  [f \in DOMAIN layout \cup DOMAIN inner |->
     IF f \in DOMAIN layout THEN layout[f] ELSE At(base, inner[f])]

put_geometry ==
  [generation |-> <<0, 4>>, element_type |-> <<4, 4>>, element_size |-> <<8, 4>>,
   rank |-> <<12, 4>>, max_frame_bytes |-> <<16, 8>>, ring_depth |-> <<24, 4>>,
   credit_window |-> <<28, 4>>, shape |-> <<32, 32>>, strides |-> <<64, 32>>]

get_geometry ==
  [generation |-> <<0, 4>>, element_type |-> <<4, 4>>, element_size |-> <<8, 4>>,
   rank |-> <<12, 4>>, max_frame_bytes |-> <<16, 8>>, ring_depth |-> <<24, 4>>,
   credit_window |-> <<28, 4>>, shape |-> <<32, 32>>, strides |-> <<64, 32>>]

-----------------------------------------------------------------------------
(* Coordination messages.  msg.fixed has the fields of fixed size, a blob  *)
(* has its bytes and its content.  encode_x(msg, id, m): the encoder does  *)
(* not throw and returns m.  decode_x(m): the status and, when it is Ok,   *)
(* the message.  x_reads(m): at most what the decoder reads.               *)

Decoded(status, msg) == IF status = "Ok" THEN [status |-> "Ok", msg |-> msg] ELSE [status |-> status]

put_open ==
  [version_min |-> <<0, 1>>, version_max |-> <<1, 1>>, reserved |-> <<2, 2>>,
   requested_caps |-> <<4, 4>>, client_instance_id |-> <<8, 16>>,
   requested_max_frame_bytes |-> <<24, 8>>, requested_ring_depth |-> <<32, 4>>,
   requested_credit_window |-> <<36, 4>>, requested_memory_kind |-> <<40, 4>>,
   requested_transport |-> <<44, 4>>, drop_policy |-> <<48, 4>>, reserved2 |-> <<52, 4>>]

get_open ==
  [version_min |-> <<0, 1>>, version_max |-> <<1, 1>>,
   requested_caps |-> <<4, 4>>, client_instance_id |-> <<8, 16>>,
   requested_max_frame_bytes |-> <<24, 8>>, requested_ring_depth |-> <<32, 4>>,
   requested_credit_window |-> <<36, 4>>, requested_memory_kind |-> <<40, 4>>,
   requested_transport |-> <<44, 4>>, drop_policy |-> <<48, 4>>]

encode_open(msg, correlation_id, m) ==
  LET name == Len(msg.stream_name)
      address == msg.client_ucx_address.bytes
      o == k_open_fixed_bytes
  IN /\ validate_stream_name(msg.stream_name) = "Ok"
     /\ address > 0 /\ address <= k_max_ucx_address_bytes
     /\ Enveloped(m, Open, correlation_id, o + 2 + name + 4 + address)
     /\ Placed(m, k_coord_envelope_bytes, put_open, msg.fixed)
     /\ put_tail(m, o, 2, name, msg.stream_name)
     /\ put_tail(m, o + 2 + name, 4, address, msg.client_ucx_address.content)

open_status(m) ==
  LET o == k_open_fixed_bytes
      next == After(m, o, 2)
  IN IF open_coord(m, Open) # "Ok" THEN open_coord(m, Open)
     ELSE IF \/ BodyBytes(m) < o
             \/ ~read_string(m, o, k_min_stream_name_bytes, k_max_stream_name_bytes)
             \/ ~read_blob(m, next, 4, 1, k_max_ucx_address_bytes)
             \/ After(m, next, 4) # BodyBytes(m) THEN "MalformedMessage"
     ELSE validate_stream_name(Content(m, o, 2))

decode_open(m) ==
  LET next == After(m, k_open_fixed_bytes, 2) IN
  Decoded(open_status(m),
    [fixed |-> Fields(m, HeaderBytes(m), get_open),
     stream_name |-> Content(m, k_open_fixed_bytes, 2),
     client_ucx_address |-> [bytes |-> get(m, HeaderBytes(m) + next, 4),
                             content |-> Content(m, next, 4)]])

open_reads(m) ==
  LET o == k_open_fixed_bytes IN
  open_coord_reads(m) \cup
  IF open_coord(m, Open) # "Ok" \/ BodyBytes(m) < o THEN {}
  ELSE Places(HeaderBytes(m), get_open)
       \cup tail_reads(m, o, 2, k_min_stream_name_bytes, k_max_stream_name_bytes)
       \cup IF ~read_string(m, o, k_min_stream_name_bytes, k_max_stream_name_bytes) THEN {}
            ELSE tail_reads(m, After(m, o, 2), 4, 1, k_max_ucx_address_bytes)

put_open_reply ==
  Embed([version_selected |-> <<0, 1>>, reserved |-> <<1, 1>>, status |-> <<2, 2>>,
         granted_caps |-> <<4, 4>>, session_id |-> <<8, 16>>, stream_id |-> <<24, 8>>,
         lease_ttl_ms |-> <<32, 4>>, renew_interval_ms |-> <<36, 4>>,
         transport_selected |-> <<40, 4>>, reserved2 |-> <<44, 4>>,
         server_epoch_id |-> <<48, 8>>], 56, put_geometry)

get_open_reply ==
  Embed([version_selected |-> <<0, 1>>, status |-> <<2, 2>>,
         granted_caps |-> <<4, 4>>, session_id |-> <<8, 16>>, stream_id |-> <<24, 8>>,
         lease_ttl_ms |-> <<32, 4>>, renew_interval_ms |-> <<36, 4>>,
         transport_selected |-> <<40, 4>>, server_epoch_id |-> <<48, 8>>], 56, get_geometry)

\* Status::Ok is 0.
encode_open_reply(msg, correlation_id, m) ==
  LET address == msg.server_ucx_address.bytes IN
  /\ address <= k_max_ucx_address_bytes
  /\ ~(msg.fixed.status = 0 /\ address = 0)
  /\ Enveloped(m, OpenReply, correlation_id, k_open_reply_fixed_bytes + 4 + address)
  /\ Placed(m, k_coord_envelope_bytes, put_open_reply, msg.fixed)
  /\ put_tail(m, k_open_reply_fixed_bytes, 4, address, msg.server_ucx_address.content)

open_reply_status(m) ==
  LET o == k_open_reply_fixed_bytes IN
  IF open_coord(m, OpenReply) # "Ok" THEN open_coord(m, OpenReply)
  ELSE IF \/ BodyBytes(m) < o \/ ~read_blob(m, o, 4, 0, k_max_ucx_address_bytes)
          \/ After(m, o, 4) # BodyBytes(m) THEN "MalformedMessage"
  ELSE "Ok"

decode_open_reply(m) ==
  LET o == k_open_reply_fixed_bytes IN
  Decoded(open_reply_status(m),
    [fixed |-> Fields(m, HeaderBytes(m), get_open_reply),
     server_ucx_address |-> [bytes |-> get(m, HeaderBytes(m) + o, 4),
                             content |-> Content(m, o, 4)]])

open_reply_reads(m) ==
  LET o == k_open_reply_fixed_bytes IN
  open_coord_reads(m) \cup
  IF open_coord(m, OpenReply) # "Ok" \/ BodyBytes(m) < o THEN {}
  ELSE Places(HeaderBytes(m), get_open_reply)
       \cup tail_reads(m, o, 4, 0, k_max_ucx_address_bytes)

\* The four messages whose body is fixed.
encode_fixed(msg, correlation_id, m, type, fixed, layout) ==
  /\ Enveloped(m, type, correlation_id, fixed)
  /\ Placed(m, k_coord_envelope_bytes, layout, msg)

fixed_status(m, type, fixed) ==
  IF open_coord(m, type) # "Ok" THEN open_coord(m, type)
  ELSE check_fixed_body(BodyBytes(m), fixed, Minor(m))

decode_fixed(m, type, fixed, layout) ==
  Decoded(fixed_status(m, type, fixed), Fields(m, HeaderBytes(m), layout))

fixed_reads(m, type, fixed, layout) ==
  open_coord_reads(m) \cup
  IF open_coord(m, type) # "Ok" \/ check_fixed_body(BodyBytes(m), fixed, Minor(m)) # "Ok"
  THEN {} ELSE Places(HeaderBytes(m), layout)

put_renew ==
  [session_id |-> <<0, 16>>, client_frames_delivered |-> <<16, 8>>,
   client_credits_returned |-> <<24, 8>>, client_state |-> <<32, 4>>, reserved |-> <<36, 4>>]
get_renew ==
  [session_id |-> <<0, 16>>, client_frames_delivered |-> <<16, 8>>,
   client_credits_returned |-> <<24, 8>>, client_state |-> <<32, 4>>]

put_renew_reply ==
  Embed([session_id |-> <<0, 16>>, status |-> <<16, 2>>, reserved |-> <<18, 2>>,
         lease_ttl_ms |-> <<20, 4>>, renew_interval_ms |-> <<24, 4>>,
         server_state |-> <<28, 4>>], 32, put_geometry)
get_renew_reply ==
  Embed([session_id |-> <<0, 16>>, status |-> <<16, 2>>,
         lease_ttl_ms |-> <<20, 4>>, renew_interval_ms |-> <<24, 4>>,
         server_state |-> <<28, 4>>], 32, get_geometry)

put_close == [session_id |-> <<0, 16>>, reason |-> <<16, 4>>, reserved |-> <<20, 4>>]
get_close == [session_id |-> <<0, 16>>, reason |-> <<16, 4>>]

put_close_reply ==
  [session_id |-> <<0, 16>>, status |-> <<16, 2>>, reserved |-> <<18, 2>>,
   frames_credited_final |-> <<20, 4>>]
get_close_reply ==
  [session_id |-> <<0, 16>>, status |-> <<16, 2>>, frames_credited_final |-> <<20, 4>>]

\* Type, size and layouts of each.
FixedMessages ==
  {<<Renew, k_renew_bytes, put_renew, get_renew>>,
   <<RenewReply, k_renew_reply_bytes, put_renew_reply, get_renew_reply>>,
   <<Close, k_close_bytes, put_close, get_close>>,
   <<CloseReply, k_close_reply_bytes, put_close_reply, get_close_reply>>}

put_error == [status |-> <<0, 2>>, reserved |-> <<2, 2>>, reserved2 |-> <<4, 4>>]
get_error == [status |-> <<0, 2>>]

encode_error(msg, correlation_id, m) ==
  LET message == truncated(msg.message, k_max_error_message_bytes) IN
  /\ Enveloped(m, Error, correlation_id, k_error_fixed_bytes + 2 + Len(message))
  /\ Placed(m, k_coord_envelope_bytes, put_error, msg.fixed)
  /\ put_tail(m, k_error_fixed_bytes, 2, Len(message), message)

error_status(m) ==
  LET o == k_error_fixed_bytes IN
  IF open_coord(m, Error) # "Ok" THEN open_coord(m, Error)
  ELSE IF \/ BodyBytes(m) < o \/ ~read_string(m, o, 0, k_max_error_message_bytes)
          \/ After(m, o, 2) # BodyBytes(m) THEN "MalformedMessage"
  ELSE "Ok"

decode_error(m) ==
  Decoded(error_status(m), [fixed |-> Fields(m, HeaderBytes(m), get_error),
                            message |-> Content(m, k_error_fixed_bytes, 2)])

error_reads(m) ==
  LET o == k_error_fixed_bytes IN
  open_coord_reads(m) \cup
  IF open_coord(m, Error) # "Ok" \/ BodyBytes(m) < o THEN {}
  ELSE Places(HeaderBytes(m), get_error)
       \cup tail_reads(m, o, 2, 0, k_max_error_message_bytes)

-----------------------------------------------------------------------------
(* The data plane: a header of fixed size, decoded in a callback           *)

k_data_magic == 827015764                      \* 0x314B4254
k_data_prefix_bytes == 16

\* DataType
Frame == 1
Credit == 2
Probe == 3
ProbeAck == 4

k_frame_header_bytes == 160
k_credit_bytes == 32
k_probe_bytes == 32
k_probe_ack_bytes == 32

put_data_prefix ==
  [magic |-> <<0, 4>>, version_major |-> <<4, 1>>, version_minor |-> <<5, 1>>,
   header_bytes |-> <<6, 2>>, msg_type |-> <<8, 2>>, flags |-> <<10, 2>>,
   generation |-> <<12, 4>>]

min_header_bytes(type) ==
  IF type = Frame THEN k_frame_header_bytes
  ELSE IF type = Credit THEN k_credit_bytes
  ELSE IF type = Probe THEN k_probe_bytes
  ELSE IF type = ProbeAck THEN k_probe_ack_bytes ELSE 0

is_known_data_type(raw) == min_header_bytes(raw) # 0

open_data(m, expected) ==
  IF m.size < k_data_prefix_bytes \/ get(m, 0, 4) # k_data_magic THEN "MalformedMessage"
  ELSE IF get(m, 4, 1) # k_version_major THEN "UnsupportedVersion"
  ELSE IF \/ MsgType(m) # expected
          \/ HeaderBytes(m) < min_header_bytes(expected) \/ m.size < HeaderBytes(m)
  THEN "MalformedMessage" ELSE "Ok"

open_data_reads(m) ==
  IF m.size < k_data_prefix_bytes THEN {}
  ELSE {<<0, 4>>, <<4, 1>>, <<5, 1>>, <<6, 2>>, <<8, 2>>, <<10, 2>>, <<12, 4>>}

decode_data_prefix(m) ==
  IF \/ m.size < k_data_prefix_bytes \/ get(m, 0, 4) # k_data_magic
     \/ ~is_known_data_type(MsgType(m)) THEN "MalformedMessage"
  ELSE open_data(m, MsgType(m))

put_frame_header ==
  [stream_id |-> <<16, 8>>, sequence |-> <<24, 8>>, payload_bytes |-> <<32, 8>>,
   timestamp_ns |-> <<40, 8>>, event_counter |-> <<48, 8>>, dropped_before |-> <<56, 8>>,
   element_type |-> <<64, 4>>, element_size |-> <<68, 4>>, rank |-> <<72, 4>>,
   quality |-> <<76, 4>>, memory_kind |-> <<80, 4>>, endian |-> <<84, 4>>,
   shape |-> <<88, 32>>, strides |-> <<120, 32>>, reserved |-> <<152, 8>>]
get_frame_header ==
  [generation |-> <<12, 4>>,
   stream_id |-> <<16, 8>>, sequence |-> <<24, 8>>, payload_bytes |-> <<32, 8>>,
   timestamp_ns |-> <<40, 8>>, event_counter |-> <<48, 8>>, dropped_before |-> <<56, 8>>,
   element_type |-> <<64, 4>>, element_size |-> <<68, 4>>, rank |-> <<72, 4>>,
   quality |-> <<76, 4>>, memory_kind |-> <<80, 4>>, endian |-> <<84, 4>>,
   shape |-> <<88, 32>>, strides |-> <<120, 32>>]

put_credit == [stream_id |-> <<16, 8>>, ack_sequence |-> <<24, 8>>]
get_credit == [generation |-> <<12, 4>>, stream_id |-> <<16, 8>>, ack_sequence |-> <<24, 8>>]

put_probe == [stream_id |-> <<16, 8>>, probe_token |-> <<24, 8>>]
get_probe == [generation |-> <<12, 4>>, stream_id |-> <<16, 8>>, probe_token |-> <<24, 8>>]

put_probe_ack == [stream_id |-> <<16, 8>>, probe_token |-> <<24, 8>>]
get_probe_ack == [generation |-> <<12, 4>>, stream_id |-> <<16, 8>>, probe_token |-> <<24, 8>>]

DataMessages ==
  {<<Frame, put_frame_header, get_frame_header>>, <<Credit, put_credit, get_credit>>,
   <<Probe, put_probe, get_probe>>, <<ProbeAck, put_probe_ack, get_probe_ack>>}

\* A data encoder fills an array of the type's size and never fails.
encode_data(msg, m, type, layout) ==
  /\ m.size = min_header_bytes(type)
  /\ m.word[put_data_prefix.magic] = k_data_magic
  /\ m.word[put_data_prefix.version_major] = k_version_major
  /\ m.word[put_data_prefix.version_minor] = k_version_minor
  /\ m.word[put_data_prefix.header_bytes] = min_header_bytes(type)
  /\ m.word[put_data_prefix.msg_type] = type
  /\ m.word[put_data_prefix.generation] = msg.generation
  /\ m.word[put_data_prefix.flags] = 0
  /\ Placed(m, 0, layout, msg)

decode_data(m, type, layout) == Decoded(open_data(m, type), Fields(m, 0, layout))

data_reads(m, type, layout) ==
  open_data_reads(m) \cup IF open_data(m, type) # "Ok" THEN {} ELSE Places(0, layout)

\* What a frame's header must satisfy before any receive path sees it.
frame_header_status(h) ==
  IF h.payload_bytes = 0 \/ h.payload_bytes > k_max_frame_bytes_hard_cap THEN "FrameTooLarge"
  ELSE IF validate_element_size(h) # "Ok" THEN validate_element_size(h)
  ELSE validate_shape_and_strides(h, h.payload_bytes)

decode_frame_header(m) ==
  LET header == Fields(m, 0, get_frame_header)
      status == IF open_data(m, Frame) # "Ok" THEN open_data(m, Frame)
                ELSE frame_header_status(header)
  IN Decoded(status, header)
=============================================================================
