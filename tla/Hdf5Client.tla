----------------------------- MODULE Hdf5Client -----------------------------
(***************************************************************************)
(* The parallel HDF5 client                                                *)
(* (examples/example_hdf5_client/example_hdf5_client.cpp): the main thread *)
(* reads frames, groups them into blocks of retained views and queues each *)
(* block for the worker of its shard; a worker thread has a writer process *)
(* write the block straight from the shared receive ring and drops the     *)
(* views when the process confirms; once every shard is closed the main    *)
(* thread creates the master file.                                         *)
(*                                                                         *)
(* A frame is the number of frames received before it, so the shard        *)
(* positions say which frame they should hold.  The library is external:   *)
(* the frames of a session have sequence numbers, a frame lands in slot    *)
(* sequence % ring depth, and credit is the longest released prefix.       *)
(* A condition variable is its predicate: every change of a predicate is   *)
(* made under the mutex and followed by a notification.                    *)
(***************************************************************************)
EXTENDS Integers, Sequences, FiniteSets, SequencesExt, ShardLayout

CONSTANTS
  FrameCounts, WriterCounts, BlockSizes, StripeSizes, \* what the user may ask for
  MaxBlocks,    \* bound on the blocks of an acquisition
  QueueDepth,   \* --queue-depth
  RingDepth,    \* --ring-depth
  Windows,      \* credit windows the publisher may grant
  Chunked,      \* the default layout, or --contiguous
  MaxFaults,    \* bound on crashes and failing calls
  MaxReconnects, \* bound on sessions replaced under the application
  AnyReconnect  \* FALSE: only while the client holds no view

ASSUME Hdf5ClientAssumption ==
  /\ FrameCounts \subseteq Nat /\ WriterCounts \subseteq Nat \ {0}
  /\ BlockSizes \subseteq Nat \ {0} /\ StripeSizes \subseteq Nat \ {0}
  /\ MaxBlocks \in Nat /\ QueueDepth \in Nat \ {0} /\ RingDepth \in Nat \ {0}
  /\ Windows \subseteq 1..RingDepth
  /\ Chunked \in BOOLEAN /\ MaxFaults \in Nat /\ MaxReconnects \in Nat
  /\ AnyReconnect \in BOOLEAN

VARIABLES
  opt,      \* Options
  main,     \* where the main thread is, and the worker it is at
  running,  \* cleared by SIGINT and SIGTERM
  received, \* frames read so far
  block,    \* views of the block being filled
  sub,      \* the subscription: open or not, window, which session
  ring,     \* the frame in each slot
  landed, released, \* sequences of the current session
  inbox,    \* views delivered and not read
  worker,   \* the ShardWorkers
  child,    \* their writer processes
  pipe,     \* the command and the response in each control socket
  shard,    \* what each shard file holds
  file,     \* the shard files: absent, old, open, closed, torn
  master,   \* the master file: absent, old, partial, complete
  faults    \* crashes and failing calls so far

mainVars == <<opt, main, running, received, block>>
ringVars == <<sub, ring, landed, released, inbox>>
fileVars == <<shard, file>>
vars == <<mainVars, ringVars, worker, child, pipe, fileVars, master, faults>>

-----------------------------------------------------------------------------
Slot(sequence) == sequence % RingDepth
Writers == 0..(opt.writers - 1)
AllWriters == UNION {0..(n - 1) : n \in WriterCounts}
Hole == -1
Stale == -2 \* bytes of a frame whose view is gone

NoOptions == [frames |-> 0, writers |-> 0, frames_per_block |-> 1, blocks_per_stripe |-> 1]
NoBlock == [local_first_frame |-> 0, frames |-> <<>>]
NewWorker == [at |-> "none", queue |-> <<>>, current |-> NoBlock, stopping |-> FALSE,
              error |-> FALSE, blocks |-> 0]
NewChild == [at |-> "none", done |-> 0, blocks |-> 0]
Quiet == [command |-> "none", response |-> "none"]
Dead(w) == child[w].at \in {"exited", "crashed"}

\* A view is its sequence number, the session that delivered it and, as
\* history, the frame it was delivered with.  A view of an earlier session
\* returns its credit to that session, and after the last one nobody counts.
Drop(views) ==
  released' = IF sub.open
                THEN released \union {v.sequence : v \in {u \in Range(views) : u.era = sub.era}}
                ELSE {}

Fault == faults < MaxFaults /\ faults' = faults + 1

Init ==
  /\ opt = NoOptions
  /\ main = [at |-> "parse", k |-> 0] /\ running = TRUE
  /\ received = 0 /\ block = <<>>
  /\ sub = [open |-> FALSE, window |-> 0, era |-> 0]
  /\ ring = [s \in 0..(RingDepth - 1) |-> Hole] /\ inbox = <<>>
  /\ landed = {} /\ released = {}
  /\ worker = [w \in AllWriters |-> NewWorker]
  /\ child = [w \in AllWriters |-> NewChild]
  /\ pipe = [w \in AllWriters |-> Quiet]
  /\ shard = [w \in AllWriters |-> <<>>]
  /\ master \in {"absent", "old"} /\ file \in [AllWriters -> {"absent", "old"}]
  /\ faults = 0

MainTo(from, to, k) == main.at = from /\ main' = [at |-> to, k |-> k]

-----------------------------------------------------------------------------
(* main(), up to the loop                                                  *)

\* (With one writer the stripe size makes no difference: one is enough.)
parse_options ==
  /\ \E o \in [frames : FrameCounts, writers : WriterCounts, frames_per_block : BlockSizes,
               blocks_per_stripe : StripeSizes] :
       /\ BlockCount(o) <= MaxBlocks
       /\ o.writers = 1 => o.blocks_per_stripe = Min(StripeSizes)
       /\ opt' = o
       /\ MainTo("parse", IF Accepted(o) THEN "prepare" ELSE "exit2", 0)
  /\ UNCHANGED <<running, received, block, ringVars, worker, child, pipe, fileVars, master, faults>>

\* An existing master or shard is refused, or removed with --overwrite.  An
\* earlier acquisition that was stopped leaves shards without a master.  (Those
\* of more writers than this client has are not looked at, and forgotten here.)
OldOutputs == master = "old" \/ \E w \in Writers : file[w] = "old"

prepare_outputs ==
  /\ \E overwrite \in BOOLEAN :
       LET refused == OldOutputs /\ ~overwrite
       IN /\ MainTo("prepare", IF refused THEN "exit1" ELSE "subscribe", 0)
          /\ master' = IF refused THEN master ELSE "absent"
          /\ file' = IF refused THEN file ELSE [w \in AllWriters |-> "absent"]
  /\ UNCHANGED <<opt, running, received, block, ringVars, worker, child, pipe, shard, faults>>

\* The ring, the session and the checks on what was granted.
subscribe ==
  /\ \E window \in Windows :
       IF opt.frames_per_block > window
         THEN MainTo("subscribe", "exit1", 0) /\ sub' = sub
         ELSE MainTo("subscribe", "start", 0)
              /\ sub' = [open |-> TRUE, window |-> window, era |-> 0]
  /\ UNCHANGED <<opt, running, received, block, ring, landed, released, inbox, worker, child, pipe,
                 fileVars, master, faults>>

subscribe_failed ==
  /\ MainTo("subscribe", "exit1", 0) /\ Fault
  /\ UNCHANGED <<opt, running, received, block, ringVars, worker, child, pipe, fileVars, master>>

-----------------------------------------------------------------------------
(* The library (external)                                                  *)

Held == UNION {Range(b) : b \in {block} \union {worker[w].current.frames : w \in AllWriters}
                            \union UNION {{worker[w].queue[i].frames : i \in DOMAIN worker[w].queue}
                                           : w \in AllWriters}}

\* The sequences the publisher has credit for.
Window ==
  LET prefix == CHOOSE n \in 0..Cardinality(released) : n \notin released /\ 0..(n - 1) \subseteq released
  IN prefix..(prefix + sub.window - 1)

\* A frame arrives.  Large frames complete in any order.
deliver ==
  /\ sub.open /\ received + Len(inbox) < opt.frames
  /\ \E n \in Window \ landed :
       LET frame == received + Len(inbox)
       IN /\ landed' = landed \union {n}
          /\ ring' = [ring EXCEPT ![Slot(n)] = frame]
          /\ inbox' = Append(inbox, [sequence |-> n, era |-> sub.era, frame |-> frame])
  /\ UNCHANGED <<mainVars, sub, released, worker, child, pipe, fileVars, master, faults>>

\* The session is replaced under the reconnect policy: undelivered views are
\* discarded and a new arena is laid over the caller's ring, all slots free.
reconnect ==
  /\ sub.open /\ sub.era < MaxReconnects
  /\ \E window \in Windows :
       /\ AnyReconnect \/ Held = {}
       /\ sub' = [sub EXCEPT !.window = window, !.era = @ + 1]
  /\ landed' = {} /\ released' = {} /\ inbox' = <<>>
  /\ ring' = [s \in DOMAIN ring |->
                IF s \in {Slot(v.sequence) : v \in Held} THEN ring[s] ELSE Stale]
  /\ UNCHANGED <<mainVars, worker, child, pipe, fileVars, master, faults>>

-----------------------------------------------------------------------------
(* ParallelShardWriter's constructor: one writer process after the other   *)

start_child ==
  /\ MainTo("start", "await_ready", main.k)
  /\ child' = [child EXCEPT ![main.k].at = "starting"]
  /\ UNCHANGED <<opt, running, received, block, ringVars, worker, pipe, fileVars, master, faults>>

start_child_failed ==
  /\ MainTo("start", "unwind", 0) /\ Fault
  /\ UNCHANGED <<opt, running, received, block, ringVars, worker, child, pipe, fileVars, master>>

start_ready ==
  /\ main.at = "await_ready" /\ pipe[main.k].response = "Ready"
  /\ IF main.k + 1 < opt.writers THEN MainTo("await_ready", "start", main.k + 1)
                                 ELSE MainTo("await_ready", "read", 0)
  /\ worker' = [worker EXCEPT ![main.k].at = "wait"]
  /\ pipe' = [pipe EXCEPT ![main.k] = Quiet]
  /\ UNCHANGED <<opt, running, received, block, ringVars, child, fileVars, master, faults>>

\* An error response, or the process is gone: it is reaped.
start_refused ==
  /\ MainTo("await_ready", "unwind", 0)
  /\ Dead(main.k) /\ pipe[main.k].response # "Ready"
  /\ UNCHANGED <<opt, running, received, block, ringVars, worker, child, pipe, fileVars, master,
                 faults>>

-----------------------------------------------------------------------------
(* The acquisition loop                                                    *)

on_signal ==
  /\ main.at \in {"start", "await_ready", "read", "submit"} /\ running
  /\ running' = FALSE
  /\ UNCHANGED <<opt, main, received, block, ringVars, worker, child, pipe, fileVars, master, faults>>

read_frame ==
  /\ running /\ received < opt.frames /\ inbox # <<>>
  /\ received' = received + 1
  /\ block' = Append(block, Head(inbox)) /\ inbox' = Tail(inbox)
  /\ MainTo("read", IF Len(block) + 1 = opt.frames_per_block THEN "submit" ELSE "read", 0)
  /\ UNCHANGED <<opt, running, sub, ring, landed, released, worker, child, pipe, fileVars, master,
                 faults>>

\* The block that was just filled, for the worker of its shard.
FilledBlock == locate_block((received \div opt.frames_per_block) - 1, opt)

submit ==
  /\ MainTo("submit", "read", 0)
  /\ LET w == FilledBlock.writer
         first == FilledBlock.local_block * opt.frames_per_block
     IN /\ Len(worker[w].queue) < QueueDepth /\ ~worker[w].error
        /\ worker' = [worker EXCEPT ![w].queue =
                         Append(@, [local_first_frame |-> first, frames |-> block])]
  /\ block' = <<>>
  /\ UNCHANGED <<opt, running, received, ringVars, child, pipe, fileVars, master, faults>>

\* The block is dropped, as are the views of a block half filled.
Unwind(from) ==
  /\ MainTo(from, "unwind", 0)
  /\ block' = <<>> /\ Drop(block)
  /\ UNCHANGED <<opt, running, received, sub, ring, landed, inbox, worker, child, pipe, fileVars,
                 master>>

submit_failed ==
  /\ main.at = "submit" /\ worker[FilledBlock.writer].error
  /\ Unwind("submit") /\ UNCHANGED faults

\* read_for() throws the subscription's terminal error, or validate_frame().
read_failed == Fault /\ Unwind("read")

-----------------------------------------------------------------------------
(* Leaving: close() and create_master(), or the destructors                *)

Unsubscribed ==
  /\ sub' = [sub EXCEPT !.open = FALSE, !.era = 0] /\ inbox' = <<>>
  /\ landed' = {} /\ released' = {}
  /\ UNCHANGED ring

leave_loop ==
  /\ ~running \/ received = opt.frames
  /\ MainTo("read", "stop", 0)
  /\ Unsubscribed
  /\ UNCHANGED <<opt, running, received, block, worker, child, pipe, fileVars, master, faults>>

\* ShardWorker::stop(), and stop_noexcept() while unwinding
AskToStop(from, to) ==
  /\ MainTo(from, to, main.k)
  /\ worker' = [worker EXCEPT ![main.k].stopping = TRUE]
  /\ UNCHANGED <<opt, running, received, block, ringVars, child, pipe, fileVars, master, faults>>

stop == main.k < opt.writers /\ AskToStop("stop", "join")

join ==
  /\ main.at = "join" /\ worker[main.k].at = "done"
  /\ IF worker[main.k].error THEN MainTo("join", "unwind", 0)
                             ELSE MainTo("join", "stop", main.k + 1)
  /\ UNCHANGED <<opt, running, received, block, ringVars, worker, child, pipe, fileVars, master,
                 faults>>

closed_all ==
  /\ main.k = opt.writers
  /\ MainTo("stop", IF received = opt.frames THEN "master" ELSE "exit130", 0)
  /\ UNCHANGED <<opt, running, received, block, ringVars, worker, child, pipe, fileVars, master,
                 faults>>

create_master ==
  /\ \/ MainTo("master", "exit0", 0) /\ master' = "complete" /\ UNCHANGED faults
     \/ /\ MainTo("master", "unwind", 0) /\ Fault
        /\ master' \in {"absent", "partial"}
  /\ UNCHANGED <<opt, running, received, block, ringVars, worker, child, pipe, fileVars>>

\* The workers that were constructed are stopped in order.
Constructed == {w \in Writers : worker[w].at # "none"}
unwind_stop == main.k \in Constructed /\ AskToStop("unwind", "unwind_join")

unwind_join ==
  /\ main.at = "unwind_join" /\ worker[main.k].at = "done"
  /\ MainTo("unwind_join", "unwind", main.k + 1)
  /\ UNCHANGED <<opt, running, received, block, ringVars, worker, child, pipe, fileVars, master,
                 faults>>

unwound ==
  /\ main.k \notin Constructed
  /\ MainTo("unwind", "exit1", 0)
  /\ Unsubscribed
  /\ UNCHANGED <<opt, running, received, block, worker, child, pipe, fileVars, master, faults>>

\* The coordinator is killed, and its threads with it.
Exits == {"exit0", "exit1", "exit2", "exit130", "killed"}
killed ==
  /\ main.at \notin Exits \union {"parse"} /\ Fault
  /\ main' = [at |-> "killed", k |-> 0]
  /\ Unsubscribed
  /\ UNCHANGED <<opt, running, received, block, worker, child, pipe, fileVars, master>>

-----------------------------------------------------------------------------
(* ShardWorker::run()                                                      *)

WorkerAt(w, at) == main.at # "killed" /\ worker[w].at = at

notWorker == <<mainVars, sub, ring, landed, inbox, child, fileVars, master, faults>>

\* Mutant of run_write: the views are not kept until the response.
run_write_unheld(w) ==
  /\ WorkerAt(w, "wait") /\ worker[w].queue # <<>>
  /\ worker' = [worker EXCEPT ![w].at = "writing", ![w].current = Head(worker[w].queue),
                              ![w].queue = Tail(@)]
  /\ pipe' = [pipe EXCEPT ![w].command = "Write"]
  /\ Drop(Head(worker[w].queue).frames)
  /\ UNCHANGED notWorker

\* A block is taken off the queue and its command sent.
run_write(w) ==
  /\ WorkerAt(w, "wait") /\ worker[w].queue # <<>>
  /\ worker' = [worker EXCEPT ![w].at = "writing", ![w].current = Head(worker[w].queue),
                              ![w].queue = Tail(@)]
  /\ pipe' = [pipe EXCEPT ![w].command = "Write"]
  /\ UNCHANGED <<notWorker, released>>

\* Mutant of run_complete: the block is not counted.
run_complete_uncounted(w) ==
  /\ WorkerAt(w, "writing") /\ pipe[w].response = "Complete"
  /\ worker' = [worker EXCEPT ![w].at = "wait", ![w].current = NoBlock]
  /\ Drop(worker[w].current.frames)
  /\ pipe' = [pipe EXCEPT ![w] = Quiet]
  /\ UNCHANGED notWorker

\* The views of the block are dropped, and with them their credit returned.
run_complete(w) ==
  /\ WorkerAt(w, "writing") /\ pipe[w].response = "Complete"
  /\ worker' = [worker EXCEPT ![w].at = "wait", ![w].current = NoBlock, ![w].blocks = @ + 1]
  /\ Drop(worker[w].current.frames)
  /\ pipe' = [pipe EXCEPT ![w] = Quiet]
  /\ UNCHANGED notWorker

\* Mutant of run_stop: stops with blocks still queued.
run_stop_hasty(w) ==
  /\ WorkerAt(w, "wait") /\ worker[w].stopping
  /\ worker' = [worker EXCEPT ![w].at = "stopping"]
  /\ pipe' = [pipe EXCEPT ![w].command = "Stop"]
  /\ UNCHANGED <<notWorker, released>>

run_stop(w) ==
  /\ WorkerAt(w, "wait") /\ worker[w].queue = <<>> /\ worker[w].stopping
  /\ worker' = [worker EXCEPT ![w].at = "stopping"]
  /\ pipe' = [pipe EXCEPT ![w].command = "Stop"]
  /\ UNCHANGED <<notWorker, released>>

\* The process reports what it wrote, and is reaped.
run_stopped(w) ==
  /\ WorkerAt(w, "stopping") /\ pipe[w].response = "Stopped" /\ Dead(w)
  /\ LET failed == child[w].blocks # worker[w].blocks \/ child[w].at # "exited"
     IN worker' = [worker EXCEPT ![w].at = "done", ![w].error = failed,
                                 ![w].stopping = @ \/ failed]
  /\ UNCHANGED <<notWorker, released, pipe>>

\* Mutant of run_failed: the thread ends without a word.
run_failed_mute(w) ==
  /\ WorkerAt(w, "writing") \/ WorkerAt(w, "stopping")
  /\ Dead(w) /\ pipe[w].response \in {"none", "Error"}
  /\ worker' = [worker EXCEPT ![w].at = "done"]
  /\ UNCHANGED <<notWorker, released, pipe>>

\* An error response, or the process is gone: it is reaped, and the blocks
\* still queued are abandoned.
run_failed(w) ==
  /\ WorkerAt(w, "writing") \/ WorkerAt(w, "stopping")
  /\ Dead(w) /\ pipe[w].response \in {"none", "Error"}
  /\ LET queue == worker[w].queue
         views == FlattenSeq(<<worker[w].current.frames>> \o [i \in DOMAIN queue |-> queue[i].frames])
     IN Drop(views)
  /\ worker' = [worker EXCEPT ![w].at = "done", ![w].error = TRUE, ![w].stopping = TRUE,
                              ![w].current = NoBlock, ![w].queue = <<>>]
  /\ UNCHANGED <<notWorker, pipe>>

-----------------------------------------------------------------------------
(* writer_child_main() and Hdf5ShardWriter                                 *)

notChild == <<mainVars, ringVars, worker, master>>

ChildAnswers(w, at, response) ==
  /\ child' = [child EXCEPT ![w].at = at]
  /\ pipe' = [pipe EXCEPT ![w] = [command |-> "none", response |-> response]]

\* The shard is created with room for its frames.  HDF5 refuses a chunk of
\* no frames.
child_start(w) ==
  /\ child[w].at = "starting"
  /\ LET frames == local_frame_counts(opt)[w]
         created == file[w] = "absent"
         usable == created /\ (Chunked => frames > 0)
     IN /\ ChildAnswers(w, IF usable THEN "serving" ELSE "exited", IF usable THEN "Ready" ELSE "Error")
        /\ file' = [file EXCEPT ![w] = IF usable THEN "open" ELSE IF created THEN "closed" ELSE @]
        /\ shard' = IF usable THEN [shard EXCEPT ![w] = [i \in 0..(frames - 1) |-> Hole]] ELSE shard
  /\ UNCHANGED <<notChild, faults>>

Adjacent(v, u) == Slot(u.sequence) = Slot(v.sequence) + 1

\* The end of the run of adjacent slots that starts after begin frames.
RunEnd(frames, begin) ==
  CHOOSE e \in (begin + 1)..Len(frames) :
    /\ \A i \in (begin + 1)..(e - 1) : Adjacent(frames[i], frames[i + 1])
    /\ e < Len(frames) => ~Adjacent(frames[e], frames[e + 1])

\* Mutant of child_write: confirms after the first run.
child_write_first_run(w) ==
  LET b == worker[w].current
      end == RunEnd(b.frames, 0)
      first == b.local_first_frame
  IN /\ child[w].at = "serving" /\ pipe[w].command = "Write"
     /\ shard' = [shard EXCEPT ![w] = [i \in DOMAIN @ |->
                     IF i \in first..(first + end - 1)
                       THEN ring[Slot(b.frames[1].sequence) + i - first] ELSE @[i]]]
     /\ child' = [child EXCEPT ![w].blocks = @ + 1]
     /\ pipe' = [pipe EXCEPT ![w] = [command |-> "none", response |-> "Complete"]]
     /\ UNCHANGED <<notChild, file, faults>>

\* One H5Dwrite: a run of the block, from the slots it covers.  The last one
\* of a block is followed by the response.
child_write(w) ==
  LET b == worker[w].current
      begin == child[w].done
      end == RunEnd(b.frames, begin)
      base == Slot(b.frames[begin + 1].sequence)
      first == b.local_first_frame + begin
  IN /\ child[w].at = "serving" /\ pipe[w].command = "Write"
     /\ shard' = [shard EXCEPT ![w] = [i \in DOMAIN @ |->
                     IF i \in first..(first + end - begin - 1) THEN ring[base + i - first] ELSE @[i]]]
     /\ IF end = Len(b.frames)
          THEN /\ child' = [child EXCEPT ![w].done = 0, ![w].blocks = @ + 1]
               /\ pipe' = [pipe EXCEPT ![w] = [command |-> "none", response |-> "Complete"]]
          ELSE child' = [child EXCEPT ![w].done = end] /\ UNCHANGED pipe
     /\ UNCHANGED <<notChild, file, faults>>

child_stop(w) ==
  /\ child[w].at = "serving" /\ pipe[w].command = "Stop"
  /\ ChildAnswers(w, "exited", "Stopped")
  /\ file' = [file EXCEPT ![w] = "closed"]
  /\ UNCHANGED <<notChild, shard, faults>>

\* A call to HDF5 or the system fails: the exception is reported, after the
\* file was closed if that is not what failed.
child_failed(w) ==
  /\ \/ child[w].at = "starting" /\ file' = file
     \/ /\ child[w].at = "serving" /\ pipe[w].command # "none"
        /\ file' = [file EXCEPT ![w] = IF pipe[w].command = "Stop" THEN "torn" ELSE "closed"]
  /\ Fault
  /\ ChildAnswers(w, "exited", "Error")
  /\ UNCHANGED <<notChild, shard>>

child_crash(w) ==
  /\ child[w].at \in {"starting", "serving"} /\ Fault
  /\ child' = [child EXCEPT ![w].at = "crashed"]
  /\ file' = [file EXCEPT ![w] = IF @ = "open" THEN "torn" ELSE @]
  /\ UNCHANGED <<notChild, pipe, shard>>

\* The coordinator's end of the socket is closed: an exception, and out.
child_orphaned(w) ==
  /\ main.at = "killed" /\ child[w].at = "serving" /\ pipe[w].command = "none"
  /\ child' = [child EXCEPT ![w].at = "exited"]
  /\ file' = [file EXCEPT ![w] = "closed"]
  /\ UNCHANGED <<notChild, pipe, shard, faults>>

-----------------------------------------------------------------------------
Main ==
  \/ parse_options \/ prepare_outputs \/ subscribe \/ start_child \/ start_ready \/ start_refused
  \/ read_frame \/ submit \/ submit_failed \/ leave_loop \/ stop \/ join \/ closed_all
  \/ create_master \/ unwind_stop \/ unwind_join \/ unwound

Worker(w) == run_write(w) \/ run_complete(w) \/ run_stop(w) \/ run_stopped(w) \/ run_failed(w)

Child(w) == child_start(w) \/ child_write(w) \/ child_stop(w) \/ child_orphaned(w)

Environment ==
  \/ deliver \/ reconnect \/ on_signal \/ subscribe_failed \/ start_child_failed \/ read_failed \/ killed
  \/ \E w \in AllWriters : child_failed(w) \/ child_crash(w)

Gone == \A w \in AllWriters : child[w].at = "none" \/ Dead(w)
Ended == main.at \in Exits /\ Gone /\ UNCHANGED vars

Next ==
  \/ Main \/ Environment \/ Ended
  \/ \E w \in AllWriters : Worker(w) \/ Child(w)

Spec == Init /\ [][Next]_vars

\* While a thread, a process or the publisher can go on, one of them does.  Nothing
\* is assumed of each of them: none goes round in circles, so none can keep the
\* others from their turn for ever.
Fairness ==
  WF_vars(Main \/ deliver \/ \E w \in AllWriters : Worker(w) \/ Child(w))

FairSpec == Spec /\ Fairness

-----------------------------------------------------------------------------
OnDisk(n) ==
  LET source == master_source(n, opt)
  IN source.local_frame \in DOMAIN shard[source.writer]
     /\ shard[source.writer][source.local_frame] = n

\* Every place of a shard holds nothing yet or the frame the master will
\* read from it: a slot is not reused while a writer process still reads it,
\* and the runs of Hdf5ShardWriter::write() go where create_master() looks.
ShardsHoldTheirFrames ==
  \A n \in 0..(opt.frames - 1) :
    LET source == master_source(n, opt)
    IN shard[source.writer] # <<>> => shard[source.writer][source.local_frame] \in {Hole, n}

\* The credit of a frame is returned only once a process confirmed its write
\* (examples/README.md): a frame that was read and whose view is gone is on
\* disk, unless its worker failed, or the client is unwinding or was killed.
CreditAfterWrite ==
  \A n \in 0..(received - 1) :
    \/ n \in {v.frame : v \in Held}
    \/ OnDisk(n)
    \/ worker[master_source(n, opt).writer].error
    \/ main.at \in {"unwind", "unwind_join", "exit1", "killed"}

\* main() returning 0 or 130: every shard was closed by its process, every
\* block that was filled is on disk, and there is a complete master exactly
\* when all frames arrived, no master at all otherwise.  Whichever way the
\* client leaves, its writer processes have ended before (~ShardWorker() and
\* reap_child()).
CleanExit ==
  /\ main.at \in Exits \ {"killed"} => Gone
  /\ main.at \in {"exit0", "exit130"} =>
    /\ \A w \in Writers : file[w] = "closed"
    /\ \A n \in 0..(received - 1) : OnDisk(n) \/ received - n < opt.frames_per_block
    /\ master = IF main.at = "exit0" THEN "complete" ELSE "absent"
    /\ main.at = "exit0" => \A n \in 0..(opt.frames - 1) : OnDisk(n)

\* The client only fails for a reason: a fault, existing outputs, a window
\* smaller than a block, or a shard left without frames in the chunked
\* layout.  In particular coordinator and process never disagree about their
\* counters and no process is refused its file.
FailsForAReason ==
  main.at = "exit1" =>
    \/ faults > 0
    \/ OldOutputs
    \/ opt.frames_per_block > sub.window
    \/ Chunked /\ \E w \in Writers : local_frame_counts(opt)[w] = 0

\* A view keeps the bytes it was delivered with until it is dropped
\* (include/tango-bulk/frame.h:110).
ViewsKeepTheirFrame == \A v \in Held : ring[Slot(v.sequence)] = v.frame

\* Nothing more can arrive: the publisher has used all its credit, and the views
\* that would return some are those of a block still being filled.
Starved ==
  /\ main.at = "read" /\ running /\ received < opt.frames /\ inbox = <<>> /\ block # <<>>
  /\ sub.open /\ Window \subseteq landed
  /\ \A w \in Writers : worker[w].at \in {"wait", "done"} /\ worker[w].queue = <<>>

\* The client ends, and its processes with it: no submit() waits for a worker
\* that is gone, no process for a coordinator that is.  Only one thing can keep
\* it for ever: a block whose own views withhold the credit for its last frames.
\* That subscribe checks the block against the window does not exclude it: frames
\* complete out of order, and a reconnect may be granted a smaller window.
Finishes == <>(main.at \in Exits /\ Gone) \/ <>[]Starved
=============================================================================
