---------------------------- MODULE StreamSession ----------------------------
(***************************************************************************)
(* The data plane of one session: a publisher engine that submits frames   *)
(* under a credit window (src/ucx/publisher_impl.cpp), the subscriber       *)
(* engine that lands them in its receive ring and returns credit            *)
(* (src/ucx/subscriber_engine.cpp), and application threads that hold and   *)
(* drop views in any order (src/core/receive_slot.h).                       *)
(*                                                                          *)
(* UCX is external: an active message is delivered once and in any order    *)
(* while both ends live; a credit send may report failure, and then its     *)
(* message may or may not have arrived.                                     *)
(***************************************************************************)
EXTENDS CreditWindow, Sequences

CONSTANTS
  GrantedDepth,  \* ring_depth of the grant: receive slots in use
  GrantedWindow, \* credit_window of the grant
  ArenaDepth,    \* the subscriber's configured ring_depth: arena and tracker
  MaxFrames,     \* bound on the frames the publisher submits
  MaxLosses      \* bound on the credit and probe sends that fail

\* validate_common() on either side, and the downward clamp of handle_open().
ASSUME GrantAssumption ==
  /\ GrantedDepth \in Nat \ {0}
  /\ GrantedWindow \in 1 .. GrantedDepth
  /\ ArenaDepth \in Nat /\ GrantedDepth <= ArenaDepth
ASSUME BoundAssumption == MaxFrames \in Nat /\ MaxLosses \in Nat

VARIABLES
  (* publisher engine, Session *)
  pub_state,   \* SessionState
  probe_sent,
  window,      \* CreditWindow
  (* the wire *)
  probes,      \* subset of {"Probe", "ProbeAck"} in flight
  frames,      \* sequences of frames in flight
  credits,     \* ack_sequences in flight
  losses,      \* sends that failed so far
  (* subscriber engine *)
  state,       \* SubscriberState
  running,
  engine,      \* where engine_loop() stands
  probe_ack_pending,
  tracker,     \* ReleaseTracker
  sends,       \* credit sends whose on_credit_sent has not run
  (* receive arena *)
  occupied,    \* ReceiveSlot::occupied
  content,     \* the sequence whose fields and payload a slot holds, -1 at first
  rndv,        \* slots with a pending rendezvous receive
  leases,      \* sequences of live ReceiveSlotLeases
  returns      \* credit_returns_

pubVars == <<pub_state, probe_sent, window>>
wireVars == <<probes, frames, credits, losses>>
subVars == <<state, running, engine, probe_ack_pending, tracker, sends>>
arenaVars == <<occupied, content, rndv, leases, returns>>
vars == <<pubVars, wireVars, subVars, arenaVars>>

Slots == 0 .. GrantedDepth - 1

Slot(sequence) == sequence % GrantedDepth

\* handle_open() has written the seat, activate() has started the engine.
Init ==
  /\ pub_state = "Open" /\ probe_sent = FALSE
  /\ window = NewWindow(GrantedDepth, GrantedWindow)
  /\ probes = {} /\ frames = {} /\ credits = {} /\ losses = 0
  /\ state = "Probing" /\ running = TRUE /\ engine = "probe"
  /\ probe_ack_pending = FALSE
  /\ tracker = NewTracker(ArenaDepth)
  /\ sends = 0
  /\ occupied = [i \in Slots |-> FALSE]
  /\ content = [i \in Slots |-> -1]
  /\ rndv = {} /\ leases = {} /\ returns = <<>>

-----------------------------------------------------------------------------
(* Publisher engine thread.                                                *)

\* Sent once, even if the send fails.
send_pending_probes ==
  /\ pub_state = "Open" /\ ~probe_sent
  /\ probe_sent' = TRUE
  /\ \/ probes' = probes \union {"Probe"} /\ UNCHANGED losses
     \/ losses < MaxLosses /\ losses' = losses + 1 /\ UNCHANGED probes
  /\ UNCHANGED <<pub_state, window, frames, credits, subVars, arenaVars>>

handle_probe_ack ==
  /\ "ProbeAck" \in probes
  /\ probes' = probes \ {"ProbeAck"}
  /\ pub_state' = IF pub_state = "Open" THEN "Armed" ELSE pub_state
  /\ UNCHANGED <<probe_sent, window, frames, credits, losses, subVars, arenaVars>>

\* fan_out() for this session: eligible, window open, and the send is accepted.
\* A sequence is consumed only by an accepted send; a refused one expires the
\* session.
submit_to ==
  /\ pub_state \in {"Armed", "Active"}
  /\ CanSubmit(window)
  /\ window.next_sequence < MaxFrames
  /\ \/ /\ frames' = frames \union {window.next_sequence}
        /\ window' = NoteSubmitted(window)
        /\ pub_state' = "Active"
     \/ /\ pub_state' = "Expiring"
        /\ UNCHANGED <<frames, window>>
  /\ UNCHANGED <<probe_sent, probes, credits, losses, subVars, arenaVars>>

\* session_for_stream() finds only a live session; a credit for any other is
\* dropped.
handle_credit(ack) ==
  /\ ack \in credits
  /\ credits' = credits \ {ack}
  /\ window' = IF pub_state \in {"Open", "Armed", "Active"}
                 THEN ApplyCredit(window, ack).window ELSE window
  /\ UNCHANGED <<pub_state, probe_sent, probes, frames, losses, subVars, arenaVars>>

\* The session ends for a reason outside this module: Close, or its lease.
begin_expiry ==
  /\ pub_state \in {"Open", "Armed", "Active"}
  /\ pub_state' = "Expiring"
  /\ UNCHANGED <<probe_sent, window, wireVars, subVars, arenaVars>>

-----------------------------------------------------------------------------
(* Subscriber engine thread: one pass of engine_loop() is probe, drain,    *)
(* credit, progress; the callbacks run inside ucp_worker_progress().       *)

\* An unanswerable probe stays pending and is tried again on the next pass.
send_pending_probe_ack ==
  /\ engine = "probe"
  /\ engine' = "drain"
  /\ \/ /\ probe_ack_pending
        /\ probe_ack_pending' = FALSE
        /\ probes' = probes \union {"ProbeAck"}
        /\ state' = IF state = "Probing" THEN "Active" ELSE state
        /\ UNCHANGED losses
     \/ /\ probe_ack_pending
        /\ losses < MaxLosses /\ losses' = losses + 1
        /\ UNCHANGED <<probe_ack_pending, probes, state>>
     \/ /\ ~probe_ack_pending
        /\ UNCHANGED <<probe_ack_pending, probes, state, losses>>
  /\ UNCHANGED <<pubVars, frames, credits, running, tracker, sends, arenaVars>>

\* Mutant of drain_credit_returns: the slot stays marked occupied.
drain_credit_returns_occupied ==
  /\ engine = "drain"
  /\ IF returns = <<>>
       THEN engine' = "credit" /\ UNCHANGED <<occupied, tracker, returns>>
       ELSE /\ returns' = Tail(returns)
            /\ tracker' = Release(tracker, Head(returns))
            /\ UNCHANGED <<engine, occupied>>
  /\ UNCHANGED <<pubVars, wireVars, state, running, probe_ack_pending, sends,
                 content, rndv, leases>>

\* One iteration of the loop, which ends when the queue is empty.
drain_credit_returns ==
  /\ engine = "drain"
  /\ IF returns = <<>>
       THEN engine' = "credit" /\ UNCHANGED <<occupied, tracker, returns>>
       ELSE /\ returns' = Tail(returns)
            /\ occupied' = [occupied EXCEPT ![Slot(Head(returns))] = FALSE]
            /\ tracker' = Release(tracker, Head(returns))
            /\ UNCHANGED engine
  /\ UNCHANGED <<pubVars, wireVars, state, running, probe_ack_pending, sends,
                 content, rndv, leases>>

\* Mutant of send_pending_credit: a refused send is taken for a sent one.
send_pending_credit_forgetful ==
  /\ engine = "credit"
  /\ engine' = "progress"
  /\ IF AckPending(tracker)
       THEN /\ tracker' = TakeAck(tracker)
            /\ \/ /\ credits' = credits \union {TakeAck(tracker).last_ack_sent}
                  /\ sends' \in {sends, sends + 1}
                  /\ UNCHANGED losses
               \/ /\ losses < MaxLosses /\ losses' = losses + 1
                  /\ UNCHANGED <<credits, sends>>
       ELSE UNCHANGED <<tracker, credits, sends, losses>>
  /\ UNCHANGED <<pubVars, probes, frames, state, running, probe_ack_pending, arenaVars>>

\* The send completes inline, or is posted and completes in on_credit_sent(),
\* or is refused.
send_pending_credit ==
  /\ engine = "credit"
  /\ engine' = "progress"
  /\ IF AckPending(tracker)
       THEN \/ /\ tracker' = TakeAck(tracker)
               /\ credits' = credits \union {TakeAck(tracker).last_ack_sent}
               /\ sends' \in {sends, sends + 1}
               /\ UNCHANGED losses
            \/ /\ losses < MaxLosses /\ losses' = losses + 1
               /\ tracker' = MarkAckFailed(TakeAck(tracker))
               /\ UNCHANGED <<credits, sends>>
       ELSE UNCHANGED <<tracker, credits, sends, losses>>
  /\ UNCHANGED <<pubVars, probes, frames, state, running, probe_ack_pending, arenaVars>>

\* ucp_worker_progress() returns; the loop condition is tested.
next_pass ==
  /\ engine = "progress"
  /\ engine' = IF running THEN "probe" ELSE "closing"
  /\ UNCHANGED <<pubVars, wireVars, state, running, probe_ack_pending, tracker, sends,
                 arenaVars>>

Progressing == engine \in {"progress", "closing"}

on_probe_am ==
  /\ Progressing
  /\ "Probe" \in probes
  /\ probes' = probes \ {"Probe"}
  /\ probe_ack_pending' = TRUE
  /\ UNCHANGED <<pubVars, frames, credits, losses, state, running, engine, tracker,
                 sends, arenaVars>>

\* A posted credit send completes; when it failed, some credit in flight may
\* have been lost with it.
on_credit_sent ==
  /\ Progressing
  /\ sends > 0
  /\ sends' = sends - 1
  /\ \/ UNCHANGED <<tracker, credits, losses>>
     \/ /\ losses < MaxLosses /\ losses' = losses + 1
        /\ tracker' = MarkAckFailed(tracker)
        /\ \/ UNCHANGED credits
           \/ \E lost \in credits : credits' = credits \ {lost}
  /\ UNCHANGED <<pubVars, probes, frames, state, running, engine, probe_ack_pending,
                 arenaVars>>

\* A frame taken off the wire by handle_frame().
Arrives(s) ==
  /\ s \in frames
  /\ frames' = frames \ {s}
  /\ UNCHANGED <<pubVars, probes, credits, losses, running, engine, probe_ack_pending,
                 sends>>

\* closing_ is set: dropped, not released.
handle_frame_closing(s) ==
  /\ engine = "closing"
  /\ Arrives(s)
  /\ UNCHANGED <<state, tracker, arenaVars>>

\* Mutant of handle_frame_unusable: the dropped sequence is not released.
handle_frame_unusable_hole(s) ==
  /\ engine = "progress"
  /\ Arrives(s)
  /\ UNCHANGED <<state, tracker, arenaVars>>

\* Truncated, or larger than the grant allows: dropped and released.
handle_frame_unusable(s) ==
  /\ engine = "progress"
  /\ Arrives(s)
  /\ tracker' = Release(tracker, s)
  /\ UNCHANGED <<state, arenaVars>>

\* The frame describes another array, or came eagerly into a device ring: the
\* two sides disagree, so the sequence is released and the session fails.
handle_frame_mismatch(s) ==
  /\ engine = "progress"
  /\ Arrives(s)
  /\ tracker' = Release(tracker, s)
  /\ state' = "Failed"
  /\ UNCHANGED arenaVars

\* The slot test before a frame is taken.  Otherwise it is counted as a duplicate.
Landable(s) == ~occupied[Slot(s)] /\ s >= tracker.released_end

\* Mutant of commit: credit goes back on delivery, not when the view is dropped.
commit_early(s) ==
  /\ leases' = leases \union {s}
  /\ returns' = Append(returns, s)

\* A lease is issued for the slot's sequence and its view goes to delivery.
commit(s) ==
  /\ leases' = leases \union {s}
  /\ UNCHANGED returns

\* Eager, or a rendezvous that completes inline.
handle_frame_eager(s) ==
  /\ engine = "progress"
  /\ Arrives(s)
  /\ IF Landable(s)
       THEN /\ occupied' = [occupied EXCEPT ![Slot(s)] = TRUE]
            /\ content' = [content EXCEPT ![Slot(s)] = s]
            /\ commit(s)
       ELSE UNCHANGED <<occupied, content, leases, returns>>
  /\ UNCHANGED <<state, tracker, rndv>>

handle_frame_rndv(s) ==
  /\ engine = "progress"
  /\ Arrives(s)
  /\ IF Landable(s)
       THEN /\ occupied' = [occupied EXCEPT ![Slot(s)] = TRUE]
            /\ content' = [content EXCEPT ![Slot(s)] = s]
            /\ rndv' = rndv \union {Slot(s)}
       ELSE UNCHANGED <<occupied, content, rndv>>
  /\ UNCHANGED <<state, tracker, leases, returns>>

\* ucp_am_recv_data_nbx() refuses; the sequence stays unreleased.
handle_frame_rndv_error(s) ==
  /\ engine = "progress"
  /\ Arrives(s)
  /\ IF Landable(s)
       THEN /\ content' = [content EXCEPT ![Slot(s)] = s]
            /\ state' = "Failed"
       ELSE UNCHANGED <<content, state>>
  /\ UNCHANGED <<tracker, occupied, rndv, leases, returns>>

on_rndv_complete(i) ==
  /\ Progressing
  /\ i \in rndv
  /\ rndv' = rndv \ {i}
  /\ \/ /\ commit(content[i])
        /\ UNCHANGED <<state, occupied>>
     \/ /\ occupied' = [occupied EXCEPT ![i] = FALSE]
        /\ state' = "Failed"
        /\ UNCHANGED <<leases, returns>>
  /\ UNCHANGED <<pubVars, wireVars, running, engine, probe_ack_pending, tracker, sends,
                 content>>

\* quiesce() returns: every wait in it is bounded, and what could not be
\* brought to rest is leaked by the destructor, never destroyed.
quiesce ==
  /\ engine = "closing"
  /\ engine' \in IF rndv = {} THEN {"destroyed", "quarantined"} ELSE {"quarantined"}
  /\ state' = "Closed"
  /\ UNCHANGED <<pubVars, wireVars, running, probe_ack_pending, tracker, sends, arenaVars>>

-----------------------------------------------------------------------------
(* Application and control threads.                                        *)

\* ~SubscriberEngine() asks the engine to stop.
stop ==
  /\ running
  /\ running' = FALSE
  /\ UNCHANGED <<pubVars, wireVars, state, engine, probe_ack_pending, tracker, sends,
                 arenaVars>>

\* The last copy of a view goes, on any thread, also after the engine is gone.
return_credit(s) ==
  /\ s \in leases
  /\ leases' = leases \ {s}
  /\ returns' = Append(returns, s)
  /\ UNCHANGED <<pubVars, wireVars, subVars, occupied, content, rndv>>

handle_frame(s) ==
  \/ handle_frame_closing(s)
  \/ handle_frame_unusable(s)
  \/ handle_frame_mismatch(s)
  \/ handle_frame_eager(s)
  \/ handle_frame_rndv(s)
  \/ handle_frame_rndv_error(s)

Publisher ==
  \/ send_pending_probes
  \/ handle_probe_ack
  \/ submit_to
  \/ \E ack \in credits : handle_credit(ack)
  \/ begin_expiry

EngineLoop ==
  \/ send_pending_probe_ack
  \/ drain_credit_returns
  \/ send_pending_credit
  \/ next_pass
  \/ quiesce

Callbacks ==
  \/ on_probe_am
  \/ on_credit_sent
  \/ \E s \in frames : handle_frame(s)
  \/ \E i \in rndv : on_rndv_complete(i)

Next ==
  \/ Publisher
  \/ EngineLoop
  \/ Callbacks
  \/ stop
  \/ \E s \in leases : return_credit(s)

Spec == Init /\ [][Next]_vars

\* The engine thread is scheduled and every wait in it is bounded, whatever the
\* peer and the application do.
EngineFairness == WF_vars(EngineLoop)

\* The peer is alive: both workers are progressed, so what is in flight arrives
\* and posted operations complete; the publisher has frames to send; and the
\* application drops its views.
PeerFairness ==
  /\ WF_vars(send_pending_probes)
  /\ WF_vars(handle_probe_ack)
  /\ WF_vars(submit_to)
  /\ WF_vars(\E ack \in credits : handle_credit(ack))
  /\ WF_vars(\E s \in leases : return_credit(s))
  /\ SF_vars(Callbacks)

FairSpec == Spec /\ EngineFairness

-----------------------------------------------------------------------------
\* Sequences whose payload is being written, and whose credit is on its way back.
Writing == {content[i] : i \in rndv}
Returning == {returns[k] : k \in DOMAIN returns}

\* Sequences that still occupy the wire or a receive slot.
Held == frames \union Writing \union leases \union Returning

(* The variables keep their types.                                          *)
TypeOK ==
  /\ pub_state \in {"Open", "Armed", "Active", "Expiring"}
  /\ probe_sent \in BOOLEAN
  /\ window \in [ring_depth : {GrantedDepth}, width : {GrantedWindow},
                 next_sequence : Nat, credited_end : Nat]
  /\ probes \in SUBSET {"Probe", "ProbeAck"}
  /\ frames \in SUBSET Nat /\ credits \in SUBSET Nat /\ losses \in Nat
  /\ state \in {"Probing", "Active", "Failed", "Closed"}
  /\ running \in BOOLEAN
  /\ engine \in {"probe", "drain", "credit", "progress", "closing", "destroyed",
                 "quarantined"}
  /\ probe_ack_pending \in BOOLEAN
  /\ tracker \in TrackerType(ArenaDepth)
  /\ sends \in Nat
  /\ occupied \in [Slots -> BOOLEAN]
  /\ content \in [Slots -> Nat \union {-1}]
  /\ rndv \in SUBSET Slots
  /\ leases \in SUBSET Nat
  /\ returns \in Seq(Nat)

(* A slot is credited only after its view is gone: no credit, applied or    *)
(* still in flight, covers a sequence that is on the wire, being written,   *)
(* viewed, or waiting for the engine to record its release.                 *)
CreditOnlyAfterRelease ==
  \A s \in Held :
    /\ window.credited_end <= s
    /\ \A ack \in credits : ack < s

(* A live view keeps reading the frame it was issued for: its slot is not   *)
(* rewritten until the view is dropped.  And every frame on the wire finds  *)
(* its slot free and its sequence unreleased: that the opposite is          *)
(* "unreachable while the credit window is respected" (handle_frame).       *)
ViewsIntact ==
  /\ \A s \in leases : content[Slot(s)] = s
  /\ \A s \in frames : Landable(s)

(* No credit is lost.  The publisher's outstanding frames fit the grant, so *)
(* at most ring_depth credits exist at a time and return_credit() cannot    *)
(* overflow its queue of twice the depth.  And there is no hole in the      *)
(* window: while the subscriber is healthy every submitted sequence is on   *)
(* the wire, in a slot, on its way back, or recorded as released, and in    *)
(* one of these places only.                                                *)
NoCreditLost ==
  /\ Outstanding(window) <= GrantedWindow
  /\ Cardinality(leases) + Len(returns) <= GrantedDepth
  /\ state \in {"Probing", "Active"} /\ engine # "closing" =>
    /\ 0 .. window.next_sequence - 1 = Held \union ReleasedSet(tracker)
    /\ Held \intersect ReleasedSet(tracker) = {}
    /\ Cardinality(Held) =
         Cardinality(frames) + Cardinality(rndv) + Cardinality(leases) + Len(returns)

(* The window reopens: with a peer that is alive and an application that    *)
(* drops its views every submitted frame is eventually credited, unless the *)
(* session is ended by either side.                                         *)
EventuallyCredited ==
  PeerFairness => \A s \in 0 .. MaxFrames - 1 :
    s < window.next_sequence ~>
      \/ s < window.credited_end
      \/ pub_state = "Expiring"
      \/ state \in {"Failed", "Closed"}
      \/ ~running

-----------------------------------------------------------------------------
Abstract ==
  INSTANCE CumulativeCredit WITH
    Window <- GrantedWindow, submitted <- window.next_sequence,
    finished <- ReleasedSet(tracker), credited <- window.credited_end

(* Rings, bitmap, engine passes and a lossy, reordering credit wire          *)
(* together implement cumulative credit: a sequence is finished once, and    *)
(* only credited as part of a finished prefix.                               *)
ImplementsCumulativeCredit == Abstract!Spec

=============================================================================
