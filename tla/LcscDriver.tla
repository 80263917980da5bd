----------------------------- MODULE LcscDriver -----------------------------
(***************************************************************************)
(* The driver of the contactless card reader (lcsc.cpp).  All its state is *)
(* kept on the thread LCSC_IO, which runs the tasks posted to it in order: *)
(* calls of OP_IO, events of the command state machine, events of the      *)
(* upload state machine, and handlers of the two timers.  Blocking file    *)
(* work is done by jobs of a pool, which post what came of it.             *)
(***************************************************************************)
EXTENDS Integers, Sequences, SequencesExt, FiniteSets

CONSTANTS
  Plans,        \* sets of calls that are studied together: functions from Calls to how often
  MaxFaults     \* bound on lost, late and garbled answers, failing and stuck writes, failing jobs

Calls == {"read", "stop", "deduct", "status", "upload", "close"}

ASSUME LcscAssumption == Plans \subseteq [Calls -> Nat] /\ MaxFaults \in Nat

Codes == {"status", "login1", "login2", "card_id", "balance", "deduct", "record", "flush", "upload"}

\* id: the transaction a flush's seed stands for, or the one in the reader's answer; 0 for none.
Command(c, id) == [c |-> c, id |-> id]
Answer(c, result, id) == [c |-> c, r |-> result, id |-> id]
None == Answer("none", "none", 0)

States == {"idle", "sending", "waiting", "chunkSending", "chunkWaiting"}
UploadStates == {"idle", "download", "upload", "generate", "move"}
Jobs == {"download", "scan", "upload", "cleanup", "finalize"}
NoJobs == [j \in Jobs |-> 0]

VARIABLES
  lcsc,     \* the driver
  reader,   \* the device: answers under way, the unflushed transaction, those it flushed
  op,       \* OP_IO: calls left, events not handled
  faults

vars == <<lcsc, reader, op, faults>>

\* state, current, queue, chunks (chunkCommandQueue_), reading (continueReadFlag_), frame (rxBuffer_),
\* out: "none", "busy" (writeInProgress_) or "late" (writeTimedOut_); the two timers; posts: the thread's
\* tasks; upload, has (HasCDFileToUpload_), done (LastCDUploadDate_ is today), file (uploadLcscFileName_),
\* files: in the local folder; settled: transactions handed to the settlement file.
\* odd: a command was taken for another kind than it is; reports: balances since reading was asked for.
Init ==
  /\ lcsc = [state |-> "idle", current |-> Command("status", 0), queue |-> << >>, chunks |-> 0,
             reading |-> FALSE, frame |-> None, out |-> "none", writeTimer |-> FALSE, answerTimer |-> FALSE,
             posts |-> <<[t |-> "enqueue", x |-> Command("login1", 0)]>>, upload |-> "idle", has |-> FALSE,
             done |-> FALSE, file |-> FALSE, files |-> 0, jobs |-> NoJobs, settled |-> {}, stopping |-> FALSE,
             odd |-> FALSE, reports |-> 0]
  /\ reader = [wire |-> << >>, record |-> 0, taken |-> 0, flushed |-> {}]
  /\ \E plan \in Plans : op = [left |-> plan, events |-> << >>]
  /\ faults = 0

d == lcsc
Fault == faults < MaxFaults /\ faults' = faults + 1
Post(s, t, x) == [s EXCEPT !.posts = Append(@, [t |-> t, x |-> x])]
IsReceived(p) == p.t = "event" /\ p.x = "received"
Event(s, ev) == Post(s, "event", ev)
UploadEvent(s, ev) == Post(s, "upload", ev)
StartJob(s, j) == [s EXCEPT !.jobs[j] = @ + 1]
IsChunked(c) == c = "upload"

\* Driver and what it tells OP_IO; most handlers say nothing.
Says(s, ev) == [s |-> s, ev |-> ev]
Silent(s) == Says(s, << >>)

------------------------------------------------------------------------------
\* The queue.

\* Variant: it is told also while a command is at work.
CheckCommandQueueAlways(s) ==
  IF s.queue = << >> THEN s ELSE Event(s, IF IsChunked(Head(s.queue).c) THEN "chunks" ELSE "command")

CheckCommandQueue(s) ==
  IF s.state # "idle" \/ s.queue = << >> THEN s
  ELSE Event(s, IF IsChunked(Head(s.queue).c) THEN "chunks" ELSE "command")

Enqueue(s, c) == CheckCommandQueue([s EXCEPT !.queue = Append(@, c)])

EnqueueToFront(s, c) ==
  IF s.queue # << >> /\ Head(s.queue).c = c.c THEN s
  ELSE CheckCommandQueue([s EXCEPT !.queue = <<c>> \o @])

\* A frame goes out, at once or after the gap, and the timer of the write runs.
Send(s, state) == [s EXCEPT !.state = state, !.out = "busy", !.writeTimer = TRUE]

\* COMMAND_ENQUEUED and CHUNK_COMMAND_ENQUEUED were posted for what was at the head then.
Pop(s, kind) ==
  LET taken == [s EXCEPT !.current = Head(s.queue), !.queue = Tail(@)]
      state == IF kind = "chunks" THEN "chunkSending" ELSE "sending"
  IN IF s.queue = << >> THEN [s EXCEPT !.state = state, !.writeTimer = TRUE, !.odd = TRUE]
     ELSE IF IsChunked(Head(s.queue).c) # (kind = "chunks")
       THEN [Event(taken, "chunk_error") EXCEPT !.state = state, !.writeTimer = TRUE, !.odd = TRUE]
     ELSE Send(IF kind = "chunks" THEN [taken EXCEPT !.chunks = @ + 1] ELSE taken, state)

------------------------------------------------------------------------------
\* Failures and answers.

\* handleCmdErrorOrTimeout: polling is repeated, everything else is reported.
Failed(s, c) ==
  LET freed == IF c = "status" /\ s.upload = "generate" THEN UploadEvent(s, "status_failed") ELSE s
  IN IF c \in {"card_id", "balance"}
     THEN Silent(IF s.reading THEN EnqueueToFront(s, Command(c, 0)) ELSE s)
     ELSE Says(freed, <<Answer(c, "failed", 0)>>)

\* The answer is for another command, or garbled.
Reject(s) ==
  LET f == Failed([s EXCEPT !.answerTimer = FALSE], s.current.c)
      told == IF IsChunked(s.current.c) THEN UploadEvent(f.s, "failed") ELSE f.s
  IN Says(Event(told, "rejected"), f.ev)

\* handleCmdResponse, for commands that have one answer; f is reported to OP_IO unless reading was stopped.
\* A card is only asked for again when there was none; after the balance reading is over.
CardRead(s, f) ==
  CASE ~s.reading -> Silent(s)
    [] f.r # "ok" -> Silent(EnqueueToFront(s, Command(f.c, 0)))
    [] OTHER      -> Says(Enqueue(s, Command("balance", 0)), <<f>>)

\* Variant: the flag is not taken back by a balance.
BalanceReadOn(s, f) ==
  CASE ~s.reading -> Silent(s)
    [] f.r # "ok" -> Silent(EnqueueToFront(s, Command(f.c, 0)))
    [] OTHER      -> Says([s EXCEPT !.reports = @ + 1], <<f>>)

BalanceRead(s, f) ==
  CASE ~s.reading -> Silent(s)
    [] f.r # "ok" -> Silent(EnqueueToFront(s, Command(f.c, 0)))
    [] OTHER      -> Says([s EXCEPT !.reading = FALSE, !.reports = @ + 1], <<f>>)

LoggedIn(s, f) == Says(IF f.c = "login1" /\ f.r = "ok" THEN Enqueue(s, Command("login2", 0)) ELSE s, <<f>>)

\* The transaction goes to the settlement file.
Settled(s, id) == [s EXCEPT !.settled = @ \cup {id}]

\* Variant: it goes there only after it was flushed.
DeductedUnsettled(s, f) ==
  Says(IF f.r = "ok" THEN EnqueueToFront(s, Command("flush", f.id)) ELSE s, <<f>>)

Deducted(s, f) ==
  Says(IF f.r = "ok" THEN EnqueueToFront(Settled(s, f.id), Command("flush", f.id)) ELSE s, <<f>>)

RecordRead(s, f) == Says(IF f.r = "ok" THEN Settled(s, f.id) ELSE s, <<f>>)

StatusRead(s, f) == Says(UploadEvent(s, IF f.r = "ok" THEN "status_ok" ELSE "status_failed"), <<f>>)

Response(s, f) ==
  CASE f.c = "card_id" -> CardRead(s, f)
    [] f.c = "balance" -> BalanceRead(s, f)
    [] f.c \in {"login1", "login2"} -> LoggedIn(s, f)
    [] f.c = "deduct"  -> Deducted(s, f)
    [] f.c = "record"  -> RecordRead(s, f)
    [] f.c = "status"  -> StatusRead(s, f)
    [] OTHER           -> Says(s, <<f>>)

\* A chunk is acknowledged, was the last one, or is refused; a refusal may ask for a login.
ChunkResponse(s, f) ==
  CASE f.r = "more" -> Silent(Event(s, "next"))
    [] f.r = "ok"   -> Silent(UploadEvent(Event(s, "all"), "uploaded"))
    [] OTHER        -> Silent(Enqueue(UploadEvent(Event(s, "chunk_error"), "failed"), Command("login1", 0)))

\* Variant: the timer of the answer runs on.
ReceivedUncancelled(s) ==
  LET f == s.frame
      read == [s EXCEPT !.frame = None]
      r == Response(read, f)
  IN IF f.c # s.current.c \/ f.r = "garbled" THEN Reject(read) ELSE Says(Event(r.s, "handled"), r.ev)

\* handleReceivedCmd: what is in the buffer now, which a second frame may have replaced or emptied.
Received(s) ==
  LET f == s.frame
      read == [s EXCEPT !.frame = None]
      timed == [read EXCEPT !.answerTimer = FALSE]
      r == Response(timed, f)
  IN IF f.c # s.current.c \/ f.r = "garbled" THEN Reject(read)
     ELSE IF IsChunked(f.c) THEN ChunkResponse(timed, f)
     ELSE Says(Event(r.s, "handled"), r.ev)

------------------------------------------------------------------------------
\* The state machine of commands; a handler runs before the state changes, so that what it enqueues waits.

\* Variant: the queue is not looked at again.
ToIdleQuietly(h) == Says([h.s EXCEPT !.state = "idle"], h.ev)

ToIdle(h) == Says(Post([h.s EXCEPT !.state = "idle"], "check", "queue"), h.ev)

FailCommand(s) == ToIdle(Failed(s, s.current.c))

FailChunks(s) ==
  LET f == Failed(s, s.current.c)
  IN ToIdle(Says(UploadEvent([f.s EXCEPT !.chunks = 0], "failed"), f.ev))

SendNextChunk(s) ==
  IF s.chunks = 0 THEN [s EXCEPT !.state = "chunkSending", !.writeTimer = TRUE]
  ELSE [Send(s, "chunkSending") EXCEPT !.chunks = @ - 1]

Transition(s, ev) ==
  CASE s.state = "idle" /\ ev \in {"command", "chunks"} -> Silent(Pop(s, ev))
    [] s.state \in {"sending", "chunkSending"} /\ ev = "written" ->
         Silent([s EXCEPT !.writeTimer = FALSE, !.answerTimer = TRUE,
                          !.state = IF s.state = "sending" THEN "waiting" ELSE "chunkWaiting"])
    [] s.state = "sending" /\ ev \in {"write_failed", "write_timeout"} -> FailCommand([s EXCEPT !.writeTimer = FALSE])
    [] s.state = "chunkSending" /\ ev \in {"write_failed", "write_timeout", "chunk_error"} ->
         FailChunks([s EXCEPT !.writeTimer = FALSE])
    [] s.state \in {"waiting", "chunkWaiting"} /\ ev = "received" -> Received(s)
    [] s.state = "waiting" /\ ev \in {"handled", "rejected"} -> ToIdle(Silent(s))
    [] s.state = "waiting" /\ ev = "timeout" -> FailCommand(s)
    [] s.state = "chunkWaiting" /\ ev = "timeout" -> FailChunks(s)
    [] s.state = "chunkWaiting" /\ ev = "rejected" -> ToIdle(Silent([s EXCEPT !.chunks = 0]))
    [] s.state = "chunkWaiting" /\ ev = "next" -> Silent(SendNextChunk(s))
    [] s.state = "chunkWaiting" /\ ev = "all" -> ToIdle(Silent(s))
    [] s.state = "chunkWaiting" /\ ev = "chunk_error" ->
         LET f == Failed(s, s.current.c) IN ToIdle(Says([f.s EXCEPT !.chunks = 0], f.ev))
    [] OTHER -> Silent(s)

------------------------------------------------------------------------------
\* The state machine of uploads.

\* Variant: a failed status leaves the upload waiting for another one.
UploadTransitionWaits(s, ev) ==
  CASE s.upload = "generate" /\ ev = "status_failed" -> s
    [] s.upload = "generate" /\ ev = "status_ok" -> [StartJob(s, "finalize") EXCEPT !.upload = "move"]
    [] s.upload = "idle" /\ ev = "check" -> IF s.has THEN UploadEvent(s, "continue") ELSE UploadEvent(s, "allow")
    [] s.upload = "idle" /\ ev = "allow" -> [StartJob(s, "download") EXCEPT !.upload = "download"]
    [] s.upload = "download" /\ ev = "downloaded" -> [StartJob(s, "scan") EXCEPT !.has = TRUE, !.upload = "upload"]
    [] s.upload = "upload" /\ ev = "get_status" -> [Enqueue(s, Command("status", 0)) EXCEPT !.upload = "generate"]
    [] OTHER -> s

UploadTransition(s, ev) ==
  CASE s.upload = "idle" /\ ev = "check" ->
         IF s.has THEN UploadEvent(s, "continue") ELSE IF s.done THEN s ELSE UploadEvent(s, "allow")
    [] s.upload = "idle" /\ ev = "allow" -> [StartJob(s, "download") EXCEPT !.upload = "download"]
    [] s.upload = "idle" /\ ev = "continue" -> [UploadEvent(s, "downloaded") EXCEPT !.upload = "download"]
    [] s.upload = "download" /\ ev = "downloaded" -> [StartJob(s, "scan") EXCEPT !.has = TRUE, !.upload = "upload"]
    [] s.upload = "download" /\ ev = "no_files" -> [s EXCEPT !.upload = "idle"]
    [] s.upload = "upload" /\ ev = "uploading" -> StartJob(s, "upload")
    [] s.upload = "upload" /\ ev = "get_status" -> [Enqueue(s, Command("status", 0)) EXCEPT !.upload = "generate"]
    [] s.upload = "upload" /\ ev \in {"uploaded", "failed"} ->
         IF s.file THEN StartJob(s, "cleanup") ELSE UploadEvent(s, "cleaned")
    [] s.upload = "upload" /\ ev = "cleaned" -> [s EXCEPT !.file = FALSE, !.upload = "idle"]
    [] s.upload = "generate" /\ ev = "status_ok" -> [StartJob(s, "finalize") EXCEPT !.upload = "move"]
    [] s.upload = "generate" /\ ev = "status_failed" -> [s EXCEPT !.upload = "idle"]
    [] s.upload = "move" /\ ev = "finalized" -> [s EXCEPT !.has = FALSE, !.done = TRUE, !.upload = "idle"]
    [] s.upload = "move" /\ ev = "not_finalized" -> [s EXCEPT !.upload = "idle"]
    [] OTHER -> s

\* A scan tells the thread the file it found, or that none is left.
Scanned(s, found) ==
  IF found THEN UploadEvent([s EXCEPT !.file = TRUE], "uploading") ELSE UploadEvent(s, "get_status")

------------------------------------------------------------------------------
\* The thread.

\* One task: the handler of an expired timer posts an event in its turn.
Task(s, t, x) ==
  CASE t = "enqueue"     -> Silent(Enqueue(s, x))
    [] t = "event"       -> Transition(s, x)
    [] t = "check"       -> Silent(CheckCommandQueue(s))
    [] t = "upload"      -> Silent(UploadTransition(s, x))
    [] t = "scanned"     -> Silent(Scanned(s, x))
    [] t = "writeTimer"  -> Silent(IF s.out = "none" THEN Event(s, "write_timeout") ELSE [s EXCEPT !.out = "late"])
    [] t = "answerTimer" -> Silent(Event(s, "timeout"))
    [] t = "unprepared"  -> LET f == Failed(s, "upload") IN Says(UploadEvent(f.s, "failed"), f.ev)

RunTask ==
  /\ d.posts # << >>
  /\ LET h == Task([d EXCEPT !.posts = Tail(@)], Head(d.posts).t, Head(d.posts).x)
     IN /\ lcsc' = h.s
        /\ op' = [op EXCEPT !.events = @ \o h.ev]
  /\ UNCHANGED <<reader, faults>>

\* What the reader answers; a deduction takes money, and is refused while the last one is not flushed.
Answers(c) ==
  CASE c.c = "deduct" -> IF reader.record # 0 THEN {Answer("deduct", "unflushed", 0)}
                         ELSE {Answer("deduct", "ok", reader.taken + 1), Answer("deduct", "no", 0)}
    [] c.c = "record" -> {IF reader.record # 0 THEN Answer("record", "ok", reader.record) ELSE Answer("record", "no", 0)}
    [] c.c = "flush"  -> {Answer("flush", IF c.id = reader.record /\ c.id # 0 THEN "ok" ELSE "no", 0)}
    [] c.c = "upload" -> {Answer("upload", IF d.chunks > 0 THEN "more" ELSE "ok", 0), Answer("upload", "no", 0)}
    [] c.c \in {"card_id", "balance"} -> {Answer(c.c, r, 0) : r \in {"ok", "no"}}
    [] OTHER -> {Answer(c.c, "ok", 0)}

\* Executed, with the answer a on its way.
Executed(c, a) ==
  [reader EXCEPT !.wire = Append(@, a),
                 !.record = IF a.c = "deduct" /\ a.r = "ok" THEN a.id ELSE IF a.c = "flush" /\ a.r = "ok" THEN 0 ELSE @,
                 !.taken = IF a.c = "deduct" /\ a.r = "ok" THEN a.id ELSE @,
                 !.flushed = IF a.c = "flush" /\ a.r = "ok" THEN @ \cup {c.id} ELSE @]

\* writeEnd: a write the timer has cancelled is a failure, even when it was complete.
Written(s, ev) ==
  Event([s EXCEPT !.out = "none", !.writeTimer = FALSE], IF s.out = "late" THEN "write_timeout" ELSE ev)

WriteEnds ==
  /\ d.out # "none"
  /\ \E a \in Answers(d.current) : reader' = Executed(d.current, a)
  /\ lcsc' = Written(d, "written")
  /\ UNCHANGED <<op, faults>>

WriteFails ==
  /\ d.out # "none"
  /\ Fault
  /\ lcsc' = Written(d, "write_failed")
  /\ UNCHANGED <<reader, op>>

\* A frame is complete: the event is posted and the buffer overwritten.
FrameArrives(garbled) ==
  /\ reader.wire # << >> /\ ~d.stopping
  /\ IF garbled THEN Fault ELSE UNCHANGED faults
  /\ LET a == IF garbled THEN [Head(reader.wire) EXCEPT !.r = "garbled"] ELSE Head(reader.wire)
     IN lcsc' = Event([d EXCEPT !.frame = a], "received")
  /\ reader' = [reader EXCEPT !.wire = Tail(@)]
  /\ UNCHANGED op

AnswerLost ==
  /\ reader.wire # << >>
  /\ Fault
  /\ reader' = [reader EXCEPT !.wire = Tail(@)]
  /\ UNCHANGED <<lcsc, op>>

\* An answer that is only late needs a fault, as does a write that is stuck.
AnswerTimer ==
  /\ d.answerTimer
  /\ IF reader.wire = << >> /\ ~\E i \in DOMAIN d.posts : IsReceived(d.posts[i]) THEN UNCHANGED faults ELSE Fault
  /\ lcsc' = Post([d EXCEPT !.answerTimer = FALSE], "answerTimer", "expired")
  /\ UNCHANGED <<reader, op>>

WriteTimer ==
  /\ d.writeTimer
  /\ IF d.out = "none" /\ d.posts = << >> THEN UNCHANGED faults ELSE Fault
  /\ lcsc' = Post([d EXCEPT !.writeTimer = FALSE], "writeTimer", "expired")
  /\ UNCHANGED <<reader, op>>

------------------------------------------------------------------------------
\* The jobs of the pool: each ends well, or not, with a task for the thread.

Downloaded(s, ok) ==
  UploadEvent([s EXCEPT !.files = IF ok THEN 1 ELSE @], IF ok THEN "downloaded" ELSE "no_files")

\* The file is cut into chunks, or is not there or not readable.
Prepared(s, ok) ==
  IF ok /\ s.files > 0 THEN Post(s, "enqueue", Command("upload", 0)) ELSE Post(s, "unprepared", "file")

Cleaned(s, ok) == UploadEvent([s EXCEPT !.files = IF ok THEN 0 ELSE @], "cleaned")

\* The acknowledgements are written and moved to the centre.
Finalized(s, ok) == UploadEvent([s EXCEPT !.files = 0], IF ok THEN "finalized" ELSE "not_finalized")

JobDone(s, j, ok) ==
  CASE j = "download" -> Downloaded(s, ok)
    [] j = "scan"     -> Post(s, "scanned", s.files > 0)
    [] j = "upload"   -> Prepared(s, ok)
    [] j = "cleanup"  -> Cleaned(s, ok)
    [] j = "finalize" -> Finalized(s, ok)

\* Variant: the end of a job is handled whether or not one was started.
JobEndsUnstarted(j, ok) ==
  /\ IF ok THEN UNCHANGED faults ELSE Fault
  /\ LET s == [d EXCEPT !.jobs[j] = @ - 1] IN lcsc' = IF d.stopping THEN s ELSE JobDone(s, j, ok)
  /\ UNCHANGED <<reader, op>>

JobEnds(j, ok) ==
  /\ d.jobs[j] > 0
  /\ IF ok THEN UNCHANGED faults ELSE Fault
  /\ LET s == [d EXCEPT !.jobs[j] = @ - 1] IN lcsc' = IF d.stopping THEN s ELSE JobDone(s, j, ok)
  /\ UNCHANGED <<reader, op>>

------------------------------------------------------------------------------
\* OP_IO: the calls it makes of its own accord, and those an event makes it do (ProcessLCSC).

Call(c) ==
  /\ op.left[c] > 0 /\ ~d.stopping
  /\ op' = [op EXCEPT !.left[c] = @ - 1]
  /\ UNCHANGED <<reader, faults>>

Enqueues(c) == lcsc' = Post(d, "enqueue", Command(c, 0))

FnSendGetCardIDCmd ==
  /\ Call("read")
  /\ lcsc' = Post([d EXCEPT !.reading = TRUE, !.reports = 0], "enqueue", Command("card_id", 0))

\* The flag is raised again by the handling of a card's number that is under way: the call is lost.
StopLost == d.reading /\ d.posts # << >> /\ IsReceived(d.posts[1]) /\ d.frame = Answer("card_id", "ok", 0)

FnLCSCReaderStopRead ==
  /\ Call("stop")
  /\ \/ lcsc' = [d EXCEPT !.reading = FALSE]
     \/ StopLost /\ UNCHANGED lcsc

FnSendCardDeduct == Call("deduct") /\ Enqueues("deduct")

FnSendGetStatusCmd == Call("status") /\ Enqueues("status")

FnUploadLCSCCDFiles == Call("upload") /\ lcsc' = UploadEvent(d, "check")

\* Every task looks at stopping_ first, so that none does anything any more.
FnLCSCReaderClose ==
  /\ Call("close")
  /\ lcsc' = [d EXCEPT !.stopping = TRUE, !.state = "idle", !.upload = "idle", !.queue = << >>, !.chunks = 0,
                       !.posts = << >>, !.out = "none", !.writeTimer = FALSE, !.answerTimer = FALSE]

\* A record that was not flushed is asked for, and flushed with the seed that comes with it.
HandleEvent ==
  /\ op.events # << >>
  /\ LET ev == Head(op.events)
     IN lcsc' = IF d.stopping THEN d
                ELSE IF ev.c = "deduct" /\ ev.r = "unflushed" THEN Post(d, "enqueue", Command("record", 0))
                ELSE IF ev.c = "record" /\ ev.r = "ok" THEN Post(d, "enqueue", Command("flush", ev.id))
                ELSE d
  /\ op' = [op EXCEPT !.events = Tail(@)]
  /\ UNCHANGED <<reader, faults>>

Next ==
  \/ RunTask \/ WriteEnds \/ WriteFails \/ AnswerLost \/ AnswerTimer \/ WriteTimer
  \/ \E garbled \in BOOLEAN : FrameArrives(garbled)
  \/ \E j \in Jobs, ok \in BOOLEAN : JobEnds(j, ok)
  \/ FnSendGetCardIDCmd \/ FnLCSCReaderStopRead \/ FnSendCardDeduct \/ FnSendGetStatusCmd
  \/ FnUploadLCSCCDFiles \/ FnLCSCReaderClose \/ HandleEvent

\* The thread and OP_IO serve what reaches them; writes end, the timers expire, jobs end and a frame
\* that is complete is read.
Fairness ==
  /\ WF_vars(RunTask) /\ WF_vars(HandleEvent) /\ WF_vars(WriteEnds) /\ WF_vars(FrameArrives(FALSE))
  /\ WF_vars(AnswerTimer) /\ WF_vars(WriteTimer)
  /\ \A j \in Jobs : WF_vars(JobEnds(j, TRUE))

Spec == Init /\ [][Next]_vars /\ Fairness

------------------------------------------------------------------------------
\* Types; a late "all done" ends a file with chunks left, so that their number has no bound.
TypeOK ==
  /\ d.state \in States /\ d.upload \in UploadStates /\ d.out \in {"none", "busy", "late"}
  /\ d.current \in [c : Codes, id : Nat] /\ d.queue \in Seq([c : Codes, id : Nat])
  /\ d.chunks \in Nat /\ d.jobs \in [Jobs -> Nat] /\ d.files \in 0..1
  /\ \A f \in {"reading", "writeTimer", "answerTimer", "has", "done", "file", "stopping", "odd"} : d[f] \in BOOLEAN
  /\ d.settled \in SUBSET Nat /\ reader.flushed \in SUBSET Nat /\ reader.record \in 0..reader.taken
  /\ op.left \in [Calls -> Nat] /\ faults \in 0..MaxFaults

\* A write and an answer are never timed at once: the answer's timer is stopped by what is received, so
\* that its expiry does not end the command after.
OneTimer == ~(d.writeTimer /\ d.answerTimer)

\* COMMAND_ENQUEUED and CHUNK_COMMAND_ENQUEUED say which kind of command was at the head of the queue
\* when they were posted; commands are put in front of it later.  Still what is taken is never of the
\* other kind, whose data would be taken for something else.
TakenAsQueued == ~d.odd

\* The driver implements Settlement: a transaction is forgotten by the reader only after it was handed to
\* the settlement file, also when the answer to the deduction was lost, came late or was taken for another's.
Money == INSTANCE Settlement WITH taken <- 1..reader.taken, settled <- d.settled, flushed <- reader.flushed

FlushedIsSettled == Money!Spec

\* One request to read a card ends in one balance at most, although commands are repeated, left in the
\* queue by a stop, and answered twice; a second one would make the lane charge the card again.
OneBalancePerRequest == d.reports <= 1

\* A waiting command is taken in the end, unless a card is being waited for (whose polling goes first) or
\* the reader closed.
CommandsAreServed == d.queue # << >> ~> (d.queue = << >> \/ d.reading \/ d.stopping)

\* An upload that has begun ends, whatever fails on the way, so that the next check can begin another.
UploadEnds == d.upload # "idle" ~> (d.upload = "idle" \/ d.reading)
==============================================================================
