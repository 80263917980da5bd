------------------------------ MODULE UptDriver ------------------------------
(***************************************************************************)
(* The driver of the UPOS payment terminal (upt.cpp).  All protocol state  *)
(* belongs to one thread, UPOS_IO, which runs the handlers of an           *)
(* io_context one after the other.  The sequence `ready' is the queue of   *)
(* that io_context: posted events, posted commands, completions of serial  *)
(* reads and writes, and timer handlers.  A step of the module is one      *)
(* handler run to its end, or something that happens outside the thread    *)
(* (a caller posts a command, a timer expires, bytes leave or arrive).     *)
(***************************************************************************)
EXTENDS Integers, Sequences, FiniteSets

CONSTANTS
  Requests,      \* commands the operation layer may ask for (detect, pay, ...)
  AsksFor,       \* commands a reply's status may ask for: a logon, a sequence reset
  SeqMax,        \* 0xFFFFFFFF, the largest sequence number
  MaxRequests,   \* bound on FnUptSend...Request calls
  MaxCancels,    \* bound on FnUptSendDeviceCancelCommandRequest calls
  MaxCloses,     \* 0 or 1 calls of FnUptClose
  MaxBacklog,    \* bound on the handlers waiting when something happens outside
  MaxFaults      \* bound on failed writes and on replies that ask for a command

ASSUME UptAssumption ==
  /\ SeqMax \in Nat /\ SeqMax > 1
  /\ AsksFor \subseteq {"RESET_SEQ", "LOGON"}
  /\ MaxRequests \in Nat /\ MaxCancels \in Nat /\ MaxCloses \in Nat
  /\ MaxBacklog \in Nat /\ MaxFaults \in Nat
  /\ Requests \cap {"STATUS", "RESET_SEQ", "LOGON", "CANCEL", "NONE"} = {}

Cmds == Requests \cup {"STATUS", "RESET_SEQ", "LOGON", "CANCEL"}

States == {"IDLE", "SENDING_REQUEST_ASYNC", "WAITING_FOR_ACK",
           "WAITING_FOR_RESPONSE", "CANCEL_COMMAND_REQUEST"}

Events == {"COMMAND_ENQUEUED", "WRITE_COMPLETED", "WRITE_FAILED", "WRITE_TIMEOUT",
           "ACK_RECEIVED", "ACK_TIMEOUT", "RSP_RECEIVED", "RESPONSE_TIMEOUT",
           "CANCEL_COMMAND", "CANCEL_CLEAN_UP"}

Timers == {"write", "gap", "ack", "rsp"}

Frame == [cmd : Cmds, seq : 0..SeqMax]

\* No async_write is outstanding.
NoFrame == [cmd |-> "NONE", seq |-> 0]

\* What the terminal's reply says: fine, rejected, or asking for a command.
Status == {"OK", "INVALID"} \cup AsksFor
Reply == [class : {"ACK", "RSP"}, cmd : Cmds, seq : 0..SeqMax, status : Status]

\* Handlers of the io_context.
Event(e)        == [h |-> "event", e |-> e]
Enqueue(c, f)   == [h |-> "enqueue", cmd |-> c, front |-> f]
CheckQueue      == [h |-> "check"]
WriteEnd(ok)    == [h |-> "writeEnd", ok |-> ok]
TimerFired(t)   == [h |-> "timer", t |-> t]
GapAborted      == [h |-> "gapAborted"]
ReadEnd(rs)     == [h |-> "read", replies |-> rs]
Shutdown        == [h |-> "shutdown"]

Handler ==
  [h : {"event"}, e : Events]
    \cup [h : {"enqueue"}, cmd : Cmds, front : BOOLEAN]
    \cup [h : {"writeEnd"}, ok : BOOLEAN]
    \cup [h : {"timer"}, t : Timers]
    \cup [h : {"read"}, replies : {<<r>> : r \in Reply} \cup (Reply \X Reply)]
    \cup [h : {"check", "gapAborted", "shutdown"}]

VARIABLES
  phase,             \* "open", "stopping" (stopping_ set), "closed" (thread joined)
  ready,             \* the io_context's queue of handlers
  timers,            \* armed timers
  state,             \* currentState_
  commandQueue,      \* commandQueue_
  current,           \* the frame prepared last: currentCmd_ and sequenceNo_
  writeQueue,        \* writeQueue_
  writeInProgress,   \* writeInProgress_
  writeDelayActive,  \* writeDelayActive_
  writeTimedOut,     \* writeTimedOut_
  writing,           \* the frame an outstanding async_write puts on the line, or NoFrame
  terminal,          \* the frame the terminal has, and whether it acknowledged it
  failures,          \* how often the current command was reported as failed (history)
  answers,           \* commands whose responses came while it was current (history)
  calls              \* how often each bounded thing happened

serial  == <<writeQueue, writeInProgress, writeDelayActive, writeTimedOut, writing>>
history == <<failures, answers>>
vars == <<phase, ready, timers, state, commandQueue, current, serial,
          terminal, history, calls>>

IsOpen == phase = "open"

-----------------------------------------------------------------------------
(* Commands are queued and prepared *)

\* Variant: incrementSequenceNo that never starts over.
SequenceForUnwrapped(cmd, seq) ==
  IF cmd = "RESET_SEQ" THEN SeqMax ELSE seq + 1

\* incrementSequenceNo, and setSequenceNo(0xFFFFFFFF) for the reset command.
SequenceFor(cmd, seq) ==
  IF cmd = "RESET_SEQ" THEN SeqMax ELSE IF seq = SeqMax THEN 1 ELSE seq + 1

\* prepareCmd: the frame of a command, numbered.
prepareCmd(cmd) ==
  [cmd |-> cmd, seq |-> SequenceFor(cmd, current.seq)]

\* enqueueCommandOnIoThread: a command goes to the back, or to the front; one that
\* would use up the last sequence number is preceded by a reset.
WithCommand(queue, cmd, front) ==
  LET wraps == current.seq + 1 = SeqMax /\ cmd # "RESET_SEQ"
      q     == IF wraps THEN <<"RESET_SEQ">> \o queue ELSE queue
  IN IF front THEN <<cmd>> \o q ELSE Append(q, cmd)

\* Variant: the look at the queue forgets to post.
CheckPostsNothing(st, queue) == <<>>

\* checkCommandQueue: the handlers it posts.
CheckPosts(st, queue) ==
  IF st = "IDLE" /\ queue # <<>> THEN <<Event("COMMAND_ENQUEUED")>> ELSE <<>>

\* startWrite with something to write: within kSerialWriteGap of the last read the
\* write is put off with a timer, otherwise the async_write starts at once.
StartWrite(armed) ==
  /\ writeInProgress' = TRUE
  /\ \/ writing' = Head(writeQueue') /\ writeDelayActive' = FALSE /\ timers' = armed
     \/ writing' = writing /\ writeDelayActive' = TRUE /\ timers' = armed \cup {"gap"}

Init ==
  /\ phase = "open"
  /\ ready = <<Event("COMMAND_ENQUEUED"), Event("COMMAND_ENQUEUED")>>
  /\ timers = {}
  /\ state = "IDLE"
  /\ commandQueue = <<"RESET_SEQ", "LOGON">>
  /\ current = [cmd |-> "STATUS", seq |-> 0]
  /\ writeQueue = <<>>
  /\ writeInProgress = FALSE /\ writeDelayActive = FALSE /\ writeTimedOut = FALSE
  /\ writing = NoFrame
  /\ terminal = {}
  /\ failures = 0 /\ answers = {}
  /\ calls = [request |-> 0, cancel |-> 0, close |-> 0, fault |-> 0]

-----------------------------------------------------------------------------
(* Callers on other threads *)

\* The loop is open to the outside: nothing is stopped, and it does not lag too far.
Accepting == IsOpen /\ Len(ready) < MaxBacklog

Count(what, bound) ==
  /\ calls[what] < bound
  /\ calls' = [calls EXCEPT ![what] = @ + 1]

\* FnUptSend...Request, through enqueueCommand.
FnUptSend(cmd) ==
  /\ Accepting
  /\ Count("request", MaxRequests)
  /\ ready' = Append(ready, Enqueue(cmd, FALSE))
  /\ UNCHANGED <<phase, timers, state, commandQueue, current, serial, terminal, history>>

\* FnUptSendDeviceCancelCommandRequest, through processEvent.
FnUptSendCancel ==
  /\ Accepting
  /\ Count("cancel", MaxCancels)
  /\ ready' = Append(ready, Event("CANCEL_COMMAND"))
  /\ UNCHANGED <<phase, timers, state, commandQueue, current, serial, terminal, history>>

\* FnUptClose up to the join: the flags, then the posted shutdown.
FnUptClose ==
  /\ Accepting
  /\ Count("close", MaxCloses)
  /\ phase' = "stopping"
  /\ ready' = Append(ready, Shutdown)
  /\ UNCHANGED <<timers, state, commandQueue, current, serial, terminal, history>>

-----------------------------------------------------------------------------
(* The port, the clock and the terminal *)

\* The bytes of the frame in front leave and its completion handler is queued; the
\* terminal turns to the new request.
WriteDone ==
  /\ Accepting /\ writing # NoFrame
  /\ writing' = NoFrame
  /\ ready' = Append(ready, WriteEnd(TRUE))
  /\ terminal' = {[frame |-> writing, acked |-> FALSE]}
  /\ UNCHANGED <<phase, timers, state, commandQueue, current, writeQueue, writeInProgress,
                 writeDelayActive, writeTimedOut, history, calls>>

WriteError ==
  /\ Accepting /\ writing # NoFrame
  /\ Count("fault", MaxFaults)
  /\ writing' = NoFrame
  /\ ready' = Append(ready, WriteEnd(FALSE))
  /\ UNCHANGED <<phase, timers, state, commandQueue, current, writeQueue, writeInProgress,
                 writeDelayActive, writeTimedOut, terminal, history>>

\* A timer runs out.  The write timer (10 s) outlasts the gap (2 s).
TimerExpires(t) ==
  /\ Accepting
  /\ t \in timers
  /\ t = "write" => ~writeDelayActive
  /\ timers' = timers \ {t}
  /\ ready' = Append(ready, TimerFired(t))
  /\ UNCHANGED <<phase, state, commandQueue, current, serial, terminal, history, calls>>

\* The terminal answers a frame it has: it acknowledges it (and may lose the
\* acknowledgement on the line), then responds; both may come in one read.
ReplyTo(f, class, status) ==
  [class |-> class, cmd |-> f.cmd, seq |-> f.seq, status |-> status]

TerminalAcks(d, lost, status) ==
  /\ Accepting /\ ~d.acked
  /\ IF status = "OK" THEN UNCHANGED calls ELSE Count("fault", MaxFaults)
  /\ ready' = IF lost THEN ready
              ELSE Append(ready, ReadEnd(<<ReplyTo(d.frame, "ACK", status)>>))
  /\ terminal' = (terminal \ {d}) \cup
       IF status = "INVALID" THEN {} ELSE {[d EXCEPT !.acked = TRUE]}
  /\ UNCHANGED <<phase, timers, state, commandQueue, current, serial, history>>

TerminalResponds(d, status) ==
  /\ Accepting
  /\ IF status = "OK" THEN UNCHANGED calls ELSE Count("fault", MaxFaults)
  /\ LET ack == ReplyTo(d.frame, "ACK", "OK")
         rsp == ReplyTo(d.frame, "RSP", status)
     IN ready' = Append(ready, ReadEnd(IF d.acked THEN <<rsp>> ELSE <<ack, rsp>>))
  /\ terminal' = terminal \ {d}
  /\ UNCHANGED <<phase, timers, state, commandQueue, current, serial, history>>

-----------------------------------------------------------------------------
(* The handlers of the I/O thread *)

\* The handler in front runs, and posts.
Runs(handler, posts) ==
  /\ IsOpen
  /\ ready # <<>> /\ Head(ready) = handler
  /\ ready' = Tail(ready) \o posts

\* Variant: nobody looks at the queue on the way back to IDLE.
IdlePostsNothing(st) == <<>>

\* The state changes; on IDLE the event loop is asked to look at the queue.
Enters(st) == state' = st
IdlePosts(st) == IF st = "IDLE" THEN <<CheckQueue>> ELSE <<>>

\* handleCmdErrorOrTimeout for the current command.
ReportsFailure == failures' = failures + 1

\* enqueueCommandOnIoThread.
RunEnqueue(cmd, front) ==
  /\ commandQueue' = WithCommand(commandQueue, cmd, front)
  /\ Runs(Enqueue(cmd, front), CheckPosts(state, commandQueue'))
  /\ UNCHANGED <<phase, timers, state, current, serial, terminal, history, calls>>

RunCheckQueue ==
  /\ Runs(CheckQueue, CheckPosts(state, commandQueue))
  /\ UNCHANGED <<phase, timers, state, commandQueue, current, serial, terminal,
                 history, calls>>

\* Variant: the write of a command is not timed.
SendNextUntimed ==
  /\ state = "IDLE" /\ commandQueue # <<>>
  /\ Runs(Event("COMMAND_ENQUEUED"), <<>>)
  /\ Enters("SENDING_REQUEST_ASYNC")
  /\ commandQueue' = Tail(commandQueue)
  /\ current' = prepareCmd(Head(commandQueue))
  /\ failures' = 0 /\ answers' = {}
  /\ writeQueue' = Append(writeQueue, current')
  /\ IF writeInProgress
     THEN UNCHANGED <<timers, writeInProgress, writing, writeDelayActive>>
     ELSE StartWrite(timers)
  /\ UNCHANGED <<phase, writeTimedOut, terminal, calls>>

\* handleIdleState on COMMAND_ENQUEUED with a command to send:
\* popFromCommandQueueAndEnqueueWrite, enqueueWrite, startSerialWriteTimer.
SendNextCommand ==
  /\ state = "IDLE" /\ commandQueue # <<>>
  /\ Runs(Event("COMMAND_ENQUEUED"), <<>>)
  /\ Enters("SENDING_REQUEST_ASYNC")
  /\ commandQueue' = Tail(commandQueue)
  /\ current' = prepareCmd(Head(commandQueue))
  /\ failures' = 0 /\ answers' = {}
  /\ writeQueue' = Append(writeQueue, current')
  /\ IF writeInProgress
     THEN /\ timers' = timers \cup {"write"}
          /\ UNCHANGED <<writeInProgress, writing, writeDelayActive>>
     ELSE StartWrite(timers \cup {"write"})
  /\ UNCHANGED <<phase, writeTimedOut, terminal, calls>>

\* handleIdleState on COMMAND_ENQUEUED when the queue was emptied meanwhile: the
\* state still moves on, with only the write timer started.
SendNothing ==
  /\ state = "IDLE" /\ commandQueue = <<>>
  /\ Runs(Event("COMMAND_ENQUEUED"), <<>>)
  /\ Enters("SENDING_REQUEST_ASYNC")
  /\ timers' = timers \cup {"write"}
  /\ UNCHANGED <<phase, commandQueue, current, serial, terminal, history, calls>>

\* handleIdleState on CANCEL_COMMAND: enqueueCommandToFront.
CancelWhenIdle ==
  /\ state = "IDLE"
  /\ Runs(Event("CANCEL_COMMAND"), <<Enqueue("CANCEL", TRUE), CheckQueue>>)
  /\ UNCHANGED <<phase, timers, state, commandQueue, current, serial, terminal,
                 history, calls>>

\* handleSendingRequestAsyncState on WRITE_COMPLETED.
WriteCompleted ==
  /\ state = "SENDING_REQUEST_ASYNC"
  /\ Runs(Event("WRITE_COMPLETED"), <<>>)
  /\ Enters("WAITING_FOR_ACK")
  /\ timers' = (timers \ {"write"}) \cup {"ack"}
  /\ UNCHANGED <<phase, commandQueue, current, serial, terminal, history, calls>>

\* handleSendingRequestAsyncState on WRITE_FAILED and on WRITE_TIMEOUT.
WriteNotDone(e) ==
  /\ e \in {"WRITE_FAILED", "WRITE_TIMEOUT"}
  /\ state = "SENDING_REQUEST_ASYNC"
  /\ Runs(Event(e), IdlePosts("IDLE"))
  /\ Enters("IDLE")
  /\ timers' = IF e = "WRITE_FAILED" THEN timers \ {"write"} ELSE timers
  /\ ReportsFailure
  /\ UNCHANGED <<phase, commandQueue, current, serial, terminal, answers, calls>>

\* Variant: the wait for the response is not timed.
AckReceivedUntimed ==
  /\ state = "WAITING_FOR_ACK"
  /\ Runs(Event("ACK_RECEIVED"), <<>>)
  /\ Enters("WAITING_FOR_RESPONSE")
  /\ UNCHANGED <<phase, timers, commandQueue, current, serial, terminal, history, calls>>

\* handleWaitingForAckState on the acknowledgement.
AckReceived ==
  /\ state = "WAITING_FOR_ACK"
  /\ Runs(Event("ACK_RECEIVED"), <<>>)
  /\ Enters("WAITING_FOR_RESPONSE")
  /\ timers' = timers \cup {"rsp"}
  /\ UNCHANGED <<phase, commandQueue, current, serial, terminal, history, calls>>

\* Variant: a time-out is reported whatever state it finds.
ReplyTimeoutAnywhere(e) ==
  /\ Runs(Event(e), IdlePosts("IDLE"))
  /\ Enters("IDLE")
  /\ ReportsFailure
  /\ UNCHANGED <<phase, timers, commandQueue, current, serial, terminal, answers, calls>>

\* handleWaitingForAckState and handleWaitingForResponseState on their time-outs.
ReplyTimeout(e) ==
  /\ \/ e = "ACK_TIMEOUT" /\ state = "WAITING_FOR_ACK"
     \/ e = "RESPONSE_TIMEOUT" /\ state = "WAITING_FOR_RESPONSE"
  /\ Runs(Event(e), IdlePosts("IDLE"))
  /\ Enters("IDLE")
  /\ ReportsFailure
  /\ UNCHANGED <<phase, timers, commandQueue, current, serial, terminal, answers, calls>>

\* handleWaitingForResponseState on the response.
ResponseReceived ==
  /\ state = "WAITING_FOR_RESPONSE"
  /\ Runs(Event("RSP_RECEIVED"), IdlePosts("IDLE"))
  /\ Enters("IDLE")
  /\ UNCHANGED <<phase, timers, commandQueue, current, serial, terminal, history, calls>>

\* CANCEL_COMMAND while a command is under way: the clean-up is posted.
CancelWhenBusy ==
  /\ state \in {"SENDING_REQUEST_ASYNC", "WAITING_FOR_ACK", "WAITING_FOR_RESPONSE"}
  /\ Runs(Event("CANCEL_COMMAND"), <<Event("CANCEL_CLEAN_UP")>>)
  /\ Enters("CANCEL_COMMAND_REQUEST")
  /\ UNCHANGED <<phase, timers, commandQueue, current, serial, terminal, history, calls>>

\* handleCancelCommandRequestState: the timers are cancelled, a write that still waits
\* for its gap is withdrawn (stopSerialWriteDelayTimer), one under way is not.
CancelCleanUp ==
  /\ state = "CANCEL_COMMAND_REQUEST"
  /\ Runs(Event("CANCEL_CLEAN_UP"),
          (IF writeDelayActive /\ "gap" \in timers THEN <<GapAborted>> ELSE <<>>)
            \o <<Event("CANCEL_COMMAND")>> \o IdlePosts("IDLE"))
  /\ Enters("IDLE")
  /\ timers' = timers \ ({"ack", "rsp", "write"}
                            \cup IF writeDelayActive THEN {"gap"} ELSE {})
  /\ IF writeDelayActive
     THEN /\ writeQueue' = IF writeQueue = <<>> THEN <<>> ELSE Tail(writeQueue)
          /\ writeDelayActive' = FALSE /\ writeInProgress' = FALSE
     ELSE UNCHANGED <<writeQueue, writeDelayActive, writeInProgress>>
  /\ UNCHANGED <<phase, commandQueue, current, writeTimedOut, writing, terminal,
                 history, calls>>

\* The events the transition table of each state lists.
Expected ==
  [IDLE                   |-> {"COMMAND_ENQUEUED", "CANCEL_COMMAND"},
   SENDING_REQUEST_ASYNC  |-> {"WRITE_COMPLETED", "WRITE_FAILED", "WRITE_TIMEOUT",
                               "CANCEL_COMMAND"},
   WAITING_FOR_ACK        |-> {"ACK_RECEIVED", "ACK_TIMEOUT", "CANCEL_COMMAND"},
   WAITING_FOR_RESPONSE   |-> {"RSP_RECEIVED", "RESPONSE_TIMEOUT", "CANCEL_COMMAND"},
   CANCEL_COMMAND_REQUEST |-> {"CANCEL_CLEAN_UP"}]

\* Any other event is dropped.
IgnoreEvent(e) ==
  /\ e \notin Expected[state]
  /\ Runs(Event(e), <<>>)
  /\ UNCHANGED <<phase, timers, state, commandQueue, current, serial, terminal,
                 history, calls>>

\* Variant: the frame stays in front of the write queue.
RunWriteEndKeepsFrame(ok) ==
  /\ Runs(WriteEnd(ok), <<Event(IF writeTimedOut THEN "WRITE_TIMEOUT"
                                ELSE IF ok THEN "WRITE_COMPLETED" ELSE "WRITE_FAILED")>>)
  /\ writeTimedOut' = FALSE /\ writeInProgress' = FALSE
  /\ UNCHANGED <<phase, timers, state, commandQueue, current, writeQueue, writeDelayActive,
                 writing, terminal, history, calls>>

\* writeEnd: the frame in front is done with, well or badly, or after the write
\* timer gave it up.
RunWriteEnd(ok) ==
  /\ Runs(WriteEnd(ok), <<Event(IF writeTimedOut THEN "WRITE_TIMEOUT"
                                ELSE IF ok THEN "WRITE_COMPLETED" ELSE "WRITE_FAILED")>>)
  /\ writeQueue' = IF writeQueue = <<>> THEN <<>> ELSE Tail(writeQueue)
  /\ writeTimedOut' = FALSE /\ writeInProgress' = FALSE
  /\ UNCHANGED <<phase, timers, state, commandQueue, current, writeDelayActive, writing,
                 terminal, history, calls>>

\* handleSerialWriteTimeout: an outstanding async_write is cancelled.
RunWriteTimer ==
  /\ Runs(TimerFired("write"),
          IF writeInProgress /\ writing # NoFrame THEN <<WriteEnd(FALSE)>> ELSE <<>>)
  /\ writeTimedOut' = (writeTimedOut \/ writeInProgress)
  /\ writing' = IF writeInProgress THEN NoFrame ELSE writing
  /\ UNCHANGED <<phase, timers, state, commandQueue, current, writeQueue, writeInProgress,
                 writeDelayActive, terminal, history, calls>>

\* The handler of serialWriteDelayTimer_, once the gap has passed: startWrite.
RunGapTimer ==
  /\ Runs(TimerFired("gap"), <<>>)
  /\ writeDelayActive' = FALSE
  /\ writeInProgress' = (writeQueue # <<>>)
  /\ writing' = IF writeQueue = <<>> THEN writing ELSE Head(writeQueue)
  /\ UNCHANGED <<phase, timers, state, commandQueue, current, writeQueue, writeTimedOut,
                 terminal, history, calls>>

RunGapAborted ==
  /\ Runs(GapAborted, <<>>)
  /\ writeDelayActive' = FALSE
  /\ UNCHANGED <<phase, timers, state, commandQueue, current, writeQueue, writeInProgress,
                 writeTimedOut, writing, terminal, history, calls>>

\* handleAckTimeout, handleCmdResponseTimeout.
RunReplyTimer(t) ==
  /\ t \in {"ack", "rsp"}
  /\ Runs(TimerFired(t), <<Event(IF t = "ack" THEN "ACK_TIMEOUT" ELSE "RESPONSE_TIMEOUT")>>)
  /\ UNCHANGED <<phase, timers, state, commandQueue, current, serial, terminal,
                 history, calls>>

\* Variant: the sequence number of a reply is not looked at.
IsCurrentUnchecked(r) == TRUE

\* handleReceivedCmd: a reply counts only with the current sequence number.
IsCurrent(r) == r.seq = current.seq

ReplyEvent(r) ==
  IF r.class = "RSP" THEN "RSP_RECEIVED"
  ELSE IF r.status = "INVALID" THEN "ACK_TIMEOUT" ELSE "ACK_RECEIVED"

\* A status may ask for a sequence reset or a logon, which is then enqueued.
AskPosts(status) == IF status \in AsksFor THEN <<Enqueue(status, FALSE)>> ELSE <<>>

ReplyPosts(r) ==
  IF IsCurrent(r) THEN <<Event(ReplyEvent(r))>> \o AskPosts(r.status) ELSE <<>>

\* readEnd and consumeReceivedBytes: every frame of one read, in order.
RunReadEnd(replies) ==
  LET mine == {i \in DOMAIN replies : IsCurrent(replies[i])}
      rsps == {i \in mine : replies[i].class = "RSP"}
  IN /\ Runs(ReadEnd(replies),
             ReplyPosts(replies[1])
               \o IF Len(replies) > 1 THEN ReplyPosts(replies[2]) ELSE <<>>)
     /\ timers' = timers \ ((IF rsps # mine THEN {"ack"} ELSE {})
                              \cup IF rsps # {} THEN {"rsp"} ELSE {})
     /\ answers' = answers \cup {replies[i].cmd : i \in rsps}
     /\ UNCHANGED <<phase, state, commandQueue, current, serial, terminal, failures, calls>>

-----------------------------------------------------------------------------
(* Closing *)

\* shutdownOnIoThread: nothing is armed or outstanding any more.
RunShutdown ==
  /\ phase = "stopping" /\ ready # <<>> /\ Head(ready) = Shutdown
  /\ ready' = Tail(ready) \o IF writing # NoFrame THEN <<WriteEnd(FALSE)>> ELSE <<>>
  /\ timers' = {} /\ writing' = NoFrame
  /\ UNCHANGED <<phase, state, commandQueue, current, writeQueue, writeInProgress,
                 writeDelayActive, writeTimedOut, terminal, history, calls>>

\* Every handler returns at once while stopping_ is set.
DropHandler ==
  /\ phase = "stopping" /\ ready # <<>> /\ Head(ready) # Shutdown
  /\ ready' = Tail(ready)
  /\ UNCHANGED <<phase, timers, state, commandQueue, current, serial, terminal,
                 history, calls>>

\* The thread ends and is joined; clearProtocolStateOnIoThread.
Joined ==
  /\ phase = "stopping" /\ ready = <<>>
  /\ phase' = "closed"
  /\ state' = "IDLE" /\ commandQueue' = <<>> /\ writeQueue' = <<>>
  /\ current' = [cmd |-> "STATUS", seq |-> 0]
  /\ writeInProgress' = FALSE /\ writeDelayActive' = FALSE /\ writeTimedOut' = FALSE
  /\ failures' = 0 /\ answers' = {}
  /\ UNCHANGED <<ready, timers, writing, terminal, calls>>

-----------------------------------------------------------------------------
RunHandler ==
  \/ ready # <<>> /\ Head(ready).h = "enqueue" /\ RunEnqueue(Head(ready).cmd, Head(ready).front)
  \/ RunCheckQueue
  \/ SendNextCommand \/ SendNothing \/ CancelWhenIdle
  \/ WriteCompleted
  \/ \E e \in {"WRITE_FAILED", "WRITE_TIMEOUT"} : WriteNotDone(e)
  \/ AckReceived \/ ResponseReceived
  \/ \E e \in {"ACK_TIMEOUT", "RESPONSE_TIMEOUT"} : ReplyTimeout(e)
  \/ CancelWhenBusy \/ CancelCleanUp
  \/ \E e \in Events : IgnoreEvent(e)
  \/ \E ok \in BOOLEAN : RunWriteEnd(ok)
  \/ RunWriteTimer \/ RunGapTimer \/ RunGapAborted
  \/ \E t \in {"ack", "rsp"} : RunReplyTimer(t)
  \/ ready # <<>> /\ Head(ready).h = "read" /\ RunReadEnd(Head(ready).replies)
  \/ RunShutdown \/ DropHandler

Next ==
  \/ \E cmd \in Requests : FnUptSend(cmd)
  \/ FnUptSendCancel \/ FnUptClose
  \/ WriteDone \/ WriteError
  \/ \E t \in Timers : TimerExpires(t)
  \/ \E d \in terminal, lost \in BOOLEAN, st \in Status : TerminalAcks(d, lost, st)
  \/ \E d \in terminal, st \in Status \ {"INVALID"} : TerminalResponds(d, st)
  \/ RunHandler \/ Joined

\* The io_context runs what is ready, timers expire, time passes.  Nothing is
\* assumed of the terminal or of the port: a write may never complete.
Fairness ==
  /\ WF_vars(RunHandler \/ Joined)
  /\ \A t \in Timers : WF_vars(TimerExpires(t))

Spec == Init /\ [][Next]_vars /\ Fairness
-----------------------------------------------------------------------------
(* Properties *)

TypeOK ==
  /\ phase \in {"open", "stopping", "closed"}
  /\ ready \in Seq(Handler)
  /\ timers \subseteq Timers
  /\ state \in States
  /\ commandQueue \in Seq(Cmds)
  /\ current \in Frame
  /\ writeQueue \in Seq(Frame)
  /\ writeInProgress \in BOOLEAN /\ writeDelayActive \in BOOLEAN
  /\ writeTimedOut \in BOOLEAN /\ writing \in Frame \cup {NoFrame}
  /\ terminal \subseteq [frame : Frame, acked : BOOLEAN]
  /\ failures \in Nat
  /\ answers \subseteq Cmds
  /\ calls \in [request : Nat, cancel : Nat, close : Nat, fault : Nat]

Pending(h) == \E i \in DOMAIN ready : ready[i] = h

\* No wake-up is lost: an idle driver with a command in its queue always has a
\* handler on the way that will look at the queue (checkCommandQueue posts from
\* several places, and every early return of processEvent drops an event).
WakeUpPending ==
  IsOpen /\ state = "IDLE" /\ commandQueue # <<>>
    => Pending(CheckQueue) \/ Pending(Event("COMMAND_ENQUEUED"))

\* No wait is a trap: whatever the driver waits for, the event that ends the wait, or
\* the timer that bounds it, is armed or already queued, although timers are
\* cancelled by replies and by the clean-up of a cancel while their handlers race.
AckWaitEnds ==
  IsOpen /\ state = "WAITING_FOR_ACK"
    => \/ "ack" \in timers \/ Pending(TimerFired("ack"))
       \/ Pending(Event("ACK_RECEIVED")) \/ Pending(Event("ACK_TIMEOUT"))

ResponseWaitEnds ==
  IsOpen /\ state = "WAITING_FOR_RESPONSE"
    => \/ "rsp" \in timers \/ Pending(TimerFired("rsp"))
       \/ Pending(Event("RSP_RECEIVED")) \/ Pending(Event("RESPONSE_TIMEOUT"))

CancelEnds ==
  IsOpen /\ state = "CANCEL_COMMAND_REQUEST" => Pending(Event("CANCEL_CLEAN_UP"))

WaitsEnd == AckWaitEnds /\ ResponseWaitEnds /\ CancelEnds

\* Nor is sending a trap: the write is under way with its timer, waits for its gap,
\* or has been completed, even when a cancelled command's write still holds the port.
SendEnds ==
  IsOpen /\ state = "SENDING_REQUEST_ASYNC"
    => \/ \E e \in {"WRITE_COMPLETED", "WRITE_FAILED", "WRITE_TIMEOUT"} : Pending(Event(e))
       \/ \E ok \in BOOLEAN : Pending(WriteEnd(ok))
       \/ writing # NoFrame /\ ("write" \in timers \/ Pending(TimerFired("write")))
       \/ writeInProgress /\ ("gap" \in timers \/ Pending(TimerFired("gap")))

\* A response that reaches the operation layer answers the command the driver
\* sent last, never one that timed out or was cancelled before it.
AnswersMatch == answers \subseteq {current.cmd}

\* handleCmdErrorOrTimeout reports one command at most once, although a write, an
\* acknowledgement and a response each have a time-out of their own.
FailedOnce == failures \leq 1

\* Every command that was queued is taken out and sent, or the driver is closed,
\* whatever the terminal and the line do and however cancels interleave.
QueueDrains == commandQueue # <<>> ~> commandQueue = <<>>

\* The log line of startWrite (upt.cpp:4443) names the current command as the one
\* whose frame goes out.
FrameIsCurrent ==
  [][writing = NoFrame /\ writing' # NoFrame => writing' = current']_vars
=============================================================================
