------------------------------ MODULE EepClient ------------------------------
(***************************************************************************)
(* The client of the EEP controller, which speaks with on-board units      *)
(* (eep_client.cpp on tcp_client.cpp).  The thread EEP_IO runs the tasks   *)
(* posted to it in order; requests wait in a queue by priority; each is    *)
(* acknowledged, and some are followed by a notification; a watchdog       *)
(* request is sent every ten seconds, and the connection made again when   *)
(* it is lost.                                                             *)
(***************************************************************************)
EXTENDS Integers, Sequences, SequencesExt, FiniteSets

CONSTANTS
  Calls,          \* requests the lane makes, each once: subset of Requests
  MaxFaults,      \* bound on lost and garbled frames, broken connections, timers that race with what they guard
  MaxPosts,       \* bound: nothing from outside comes while more tasks than these wait for the thread
  MissedLimit,    \* watchdog requests in a row that fail before the connection is made again (4 in the code)
  SlowConnect     \* whether a connection may be made after the timer of the attempt has expired

Requests == {"start", "watchdog", "health", "obu", "deduct", "stop"}
Notified == {"obu", "deduct"}
Unsolicited == {"ack", "nak"}

ASSUME EepAssumption ==
  /\ Calls \subseteq {"obu", "deduct", "stop"} /\ MaxFaults \in Nat /\ MaxPosts \in Nat /\ MissedLimit \in Nat \ {0} /\ SlowConnect \in BOOLEAN

\* Sequence numbers have 16 bits; MaxWire, the bound on answers under way, keeps old ones from meeting new.
Sequences == 3
MaxWire == 2
NoSeq == Sequences

Priority(c) == CASE c \in Unsolicited -> 0 [] c = "start" -> 1 [] c = "watchdog" -> 2 [] c = "health" -> 4 [] OTHER -> 3

\* m: "ack", "nak", "rsp" (an answer of its own kind), "note", "garbled" or "short" (of the header); c: the
\* request it is about.
Message(m, c, seq) == [m |-> m, c |-> c, seq |-> seq]

States == {"idle", "connecting", "connected", "writing", "waiting"}
Timers == {"reconnect", "connect", "send", "ack", "response", "watchdog", "health"}

VARIABLES
  eep,      \* the client
  unit,     \* the controller: its frames under way and notifications it owes
  calls,    \* requests the lane has still to make
  faults

vars == <<eep, unit, calls, faults>>

\* state; queue; current, requested (currentCmdRequested_); seq (sequenceNo_), expected; missed; timers;
\* posts: the thread's tasks; connected, connecting, out (writeQueue_): the socket; stopping.
\* open: requests of the lane without outcome; failed: requests reported as failed by a client with connection; odd: an answer was reported for another request than its own.
Init ==
  /\ eep = [state |-> "idle", queue |-> << >>, current |-> "watchdog", requested |-> "watchdog", seq |-> 0,
            expected |-> NoSeq, missed |-> 0, timers |-> {}, posts |-> <<[t |-> "event", x |-> "connect"]>>,
            connected |-> FALSE, connecting |-> FALSE, out |-> << >>, stopping |-> FALSE, open |-> {}, failed |-> {},
            odd |-> FALSE]
  /\ unit = [wire |-> << >>, due |-> << >>]
  /\ calls = Calls
  /\ faults = 0

Room == Len(eep.posts) <= MaxPosts
Fault == faults < MaxFaults /\ faults' = faults + 1
Post(s, t, x) == [s EXCEPT !.posts = Append(@, [t |-> t, x |-> x])]
Event(s, ev) == Post(s, "event", ev)
Start(s, t) == [s EXCEPT !.timers = @ \cup {t}]
Cancel(s, ts) == [s EXCEPT !.timers = @ \ ts]
Posted(t, xs) == \E i \in DOMAIN eep.posts : eep.posts[i].t = t /\ eep.posts[i].x \in xs

------------------------------------------------------------------------------
\* The queue and failures.

CheckCommandQueue(s) == IF s.state # "connected" \/ s.queue = << >> THEN s ELSE Event(s, "write_command")

\* Variant: the count of the watchdog requests goes on.
MissedCounting(s, n) ==
  [s EXCEPT !.missed = @ + n, !.posts = @ \o [i \in 1..((s.missed + n) \div MissedLimit) |-> [t |-> "event", x |-> "reconnect"]]]

\* n watchdog requests failed: whenever MissedLimit of them did in a row the connection is made again.
Missed(s, n) ==
  [s EXCEPT !.missed = (@ + n) % MissedLimit,
            !.posts = @ \o [i \in 1..((s.missed + n) \div MissedLimit) |-> [t |-> "event", x |-> "reconnect"]]]

\* handleCommandErrorOrTimeout, of each in turn: the lane is told, except of watchdog and health requests.
Failed(s, cs) ==
  LET told == {cs[i] : i \in DOMAIN cs} \ (Unsolicited \cup {"watchdog", "health"})
  IN Missed([s EXCEPT !.open = @ \ told, !.failed = IF s.connected THEN @ \cup told ELSE @],
            Cardinality({i \in DOMAIN cs : cs[i] = "watchdog"}))

\* Behind those that are as urgent.
Push(q, c) == InsertAt(q, 1 + Cardinality({i \in DOMAIN q : Priority(q[i]) <= Priority(c)}), c)

Enqueue(s, c) ==
  IF ~s.connected THEN Failed(s, <<c>>) ELSE CheckCommandQueue([s EXCEPT !.queue = Push(@, c)])

\* prepareCmd: a request is numbered, and an answer with its number expected; acknowledgements carry another's number.
Prepared(s, c) ==
  IF c \in Unsolicited THEN Post(s, "send", Message("note", c, NoSeq))
  ELSE Post([s EXCEPT !.expected = s.seq, !.seq = (@ + 1) % Sequences], "send", Message("rsp", c, s.seq))

Pop(s) ==
  LET c == Head(s.queue)
      taken == [s EXCEPT !.queue = Tail(@), !.current = c]
  IN IF s.queue = << >> THEN s
     ELSE Prepared(IF c \in Unsolicited THEN taken ELSE [taken EXCEPT !.requested = c], c)

\* Everything that waits fails too.
BeginReconnect(s, failActive) ==
  LET still == [Cancel(s, Timers \ {"reconnect"}) EXCEPT !.expected = NoSeq]
      told == Failed(still, IF failActive THEN <<s.requested>> \o s.queue ELSE s.queue)
  IN Start(Post([told EXCEPT !.queue = << >>], "close", "socket"), "reconnect")

------------------------------------------------------------------------------
\* Frames.

\* What the lane is told of an answer: nothing of the watchdog's and the health request's, whose answers set counts.
Reported(s, m) ==
  CASE m.c = "watchdog" /\ m.m = "rsp"   -> [s EXCEPT !.missed = 0]
    [] m.m = "ack" /\ m.c \in Notified -> s
    [] OTHER -> [s EXCEPT !.open = @ \ {m.c}]

Over(m) == IF m.m = "ack" /\ m.c \in Notified THEN "ack_received" ELSE "ack_as_rsp"

\* Variant: the number is not looked at.
AnsweredByKind(s, m) ==
  Event(Reported([Cancel(s, {"ack"}) EXCEPT !.expected = NoSeq, !.odd = @ \/ m.seq # (s.seq - 1) % Sequences], m), Over(m))

\* Variant: the timer runs on.
AnsweredUncancelled(s, m) == IF m.seq # s.expected THEN s ELSE Event(Reported([s EXCEPT !.expected = NoSeq], m), Over(m))

\* An answer to the request that was asked last, by its kind and by its number; the other answers are refused.
Answered(s, m) ==
  LET due == [Cancel(s, {"ack"}) EXCEPT !.expected = NoSeq, !.odd = @ \/ m.seq # (s.seq - 1) % Sequences]
  IN IF m.seq # s.expected THEN s ELSE Event(Reported(due, m), Over(m))

\* It is reported as the outcome of the request only while that is the one asked last.
NotificationReported(s, m) == IF s.requested = m.c THEN [s EXCEPT !.open = @ \ {m.c}] ELSE s

\* A notification is acknowledged, also when the request it would complete has failed meanwhile.
Notification(s, m) ==
  LET told == NotificationReported(s, m)
  IN Post(IF s.requested = m.c THEN Event(Cancel(told, {"response"}), "rsp_received") ELSE told, "enqueue", "ack")

HandleReceivedData(s, m) ==
  CASE m.m = "lost"  -> Event(s, "reconnect")
    [] m.m = "short" -> s
    [] m.m = "note"  -> Notification(s, m)
    [] m.m \in {"ack", "nak", "rsp"} /\ m.c = s.requested -> Answered(s, m)
    [] OTHER -> Post(s, "enqueue", "nak")

------------------------------------------------------------------------------
\* The state machine.

To(s, state) == IF state = "connected" THEN Post([s EXCEPT !.state = state], "check", "queue") ELSE [s EXCEPT !.state = state]

\* The client begins with the start request, a health request and a watchdog request.
Ready(s) ==
  LET asked == Post(Post(Post(s, "enqueue", "start"), "enqueue", "health"), "enqueue", "watchdog")
  IN Event(Start(Start(asked, "health"), "watchdog"), "check_command")

Idle(s, ev) == IF ev = "connect" THEN To(Start(Post(s, "connect", "socket"), "connect"), "connecting") ELSE s

\* Variant: a connection that cannot be made is not tried again.
ConnectingOnce(s, ev) ==
  CASE ev = "connect_success" -> To(Ready(s), "connected")
    [] ev = "connect_fail"    -> To(s, "idle")
    [] OTHER -> s

Connecting(s, ev) ==
  CASE ev = "connect_success" -> To(Ready(s), "connected")
    [] ev = "connect_fail"    -> To(Start(s, "reconnect"), "idle")
    [] OTHER -> s

\* A write that is called for when the connection is gone is not made: the state is left by the new connection.
Connected(s, ev) ==
  CASE ev = "check_command" -> To(IF s.connected THEN CheckCommandQueue(s) ELSE Event(s, "reconnect"), "connected")
    [] ev = "write_command" -> To(IF s.connected THEN Start(Pop(s), "send") ELSE Event(s, "reconnect"), "writing")
    [] ev = "reconnect"     -> To(BeginReconnect(s, FALSE), "idle")
    [] OTHER -> s

\* A write that fails is reported for the request asked last, which it need not be.
Writing(s, ev) ==
  CASE ev = "write_completed" ->
         To(IF s.current \in Unsolicited THEN Event(s, "unsolicited_done") ELSE Start(s, "ack"), "waiting")
    [] ev = "write_timeout" -> To(Failed(IF s.connected THEN s ELSE Event(s, "reconnect"), <<s.requested>>), "connected")
    [] ev = "reconnect"     -> To(BeginReconnect(s, TRUE), "idle")
    [] OTHER -> s

\* Variant: the notification is waited for without a timer.
WaitingUntimed(s, ev) ==
  CASE ev = "ack_received" -> s
    [] ev \in {"ack_as_rsp", "rsp_received", "unsolicited_done"} -> To(s, "connected")
    [] ev = "ack_timeout" -> To(Failed([s EXCEPT !.expected = NoSeq], <<s.requested>>), "connected")
    [] ev = "reconnect"   -> To(BeginReconnect(s, TRUE), "idle")
    [] OTHER -> s

Waiting(s, ev) ==
  LET over == [s EXCEPT !.expected = NoSeq]
  IN CASE ev = "ack_received" -> Start(s, "response")
       [] ev \in {"ack_as_rsp", "rsp_received", "unsolicited_done"} -> To(s, "connected")
       [] ev = "ack_timeout"  -> To(Failed(over, <<s.requested>>), "connected")
       [] ev = "rsp_timeout"  -> To(Failed(IF s.connected THEN over ELSE Event(over, "reconnect"), <<s.requested>>), "connected")
       [] ev = "reconnect"    -> To(BeginReconnect(s, TRUE), "idle")
       [] OTHER -> s

Transition(s, ev) ==
  CASE s.state = "idle"       -> Idle(s, ev)
    [] s.state = "connecting" -> Connecting(s, ev)
    [] s.state = "connected"  -> Connected(s, ev)
    [] s.state = "writing"    -> Writing(s, ev)
    [] s.state = "waiting"    -> Waiting(s, ev)

------------------------------------------------------------------------------
\* The socket: what is asked while it is connected or being connected changes nothing and is not answered.

SocketConnect(s) == IF s.connected \/ s.connecting THEN s ELSE [s EXCEPT !.connecting = TRUE, !.out = << >>]

SocketSend(s, m) == IF s.connected THEN [s EXCEPT !.out = Append(@, m)] ELSE Post(s, "sent", FALSE)

\* What was under way is aborted and says nothing: it belongs to an earlier connectionGeneration_.
SocketClose(s) == [s EXCEPT !.connected = FALSE, !.connecting = FALSE, !.out = << >>]

\* The watchdog's timer and the health timer ask and start again.
Periodic(s, c) == Start(Post(s, "enqueue", c), c)

Expired(s, timer) ==
  CASE timer \in {"watchdog", "health"} -> Periodic(s, timer)
    [] timer = "reconnect" -> Event(s, "connect")
    [] timer = "connect"   -> Event(s, "connect_fail")
    [] timer = "send"      -> Event(s, "write_timeout")
    [] timer = "ack"       -> Event(s, "ack_timeout")
    [] timer = "response"  -> Event(s, "rsp_timeout")

Task(s, t, x) ==
  CASE t = "event"     -> Transition(s, x)
    [] t = "check"     -> CheckCommandQueue(s)
    [] t = "enqueue"   -> Enqueue(s, x)
    [] t = "failure"   -> Failed(s, <<x>>)
    [] t = "received"  -> HandleReceivedData(s, x)
    [] t = "sent"      -> Event(Cancel(s, {"send"}), IF x THEN "write_completed" ELSE "write_timeout")
    [] t = "connected" -> Event(Cancel(s, {"connect"}), IF x THEN "connect_success" ELSE "connect_fail")
    [] t = "timer"     -> Expired(s, x)
    [] t = "connect"   -> SocketConnect(s)
    [] t = "send"      -> SocketSend(s, x)
    [] t = "close"     -> SocketClose(s)

RunTask ==
  /\ eep.posts # << >>
  /\ eep' = Task([eep EXCEPT !.posts = Tail(@)], Head(eep.posts).t, Head(eep.posts).x)
  /\ unit' = IF Head(eep.posts).t = "close" THEN [unit EXCEPT !.wire = << >>] ELSE unit
  /\ UNCHANGED <<calls, faults>>

ConnectEnds(ok) ==
  /\ eep.connecting /\ Room
  /\ IF ok THEN UNCHANGED faults ELSE Fault
  /\ eep' = Post([eep EXCEPT !.connecting = FALSE, !.connected = ok], "connected", ok)
  /\ UNCHANGED <<unit, calls>>

\* The controller answers at once, and may owe a notification.
Answer(m) ==
  CASE m.m = "note" -> {[unit EXCEPT !.wire = @]}
    [] m.c \in Notified -> {[unit EXCEPT !.wire = Append(@, [m EXCEPT !.m = "ack"]), !.due = Append(@, m.c)],
                            [unit EXCEPT !.wire = Append(@, [m EXCEPT !.m = "nak"])]}
    [] OTHER -> {[unit EXCEPT !.wire = Append(@, m)]}

WriteEnds ==
  /\ eep.out # << >> /\ Len(unit.wire) < MaxWire /\ Room
  /\ unit' \in Answer(Head(eep.out))
  /\ eep' = Post([eep EXCEPT !.out = Tail(@)], "sent", TRUE)
  /\ UNCHANGED <<calls, faults>>

\* A notification right behind its acknowledgement, before that was dealt with, is counted as a fault.
NoteSent ==
  /\ unit.due # << >> /\ Len(unit.wire) < MaxWire /\ eep.connected
  /\ IF unit.wire = << >> /\ eep.posts = << >> THEN UNCHANGED faults ELSE Fault
  /\ unit' = [unit EXCEPT !.wire = Append(@, Message("note", Head(unit.due), NoSeq)), !.due = Tail(@)]
  /\ UNCHANGED <<eep, calls>>

\* A frame that is read before the client has dealt with the end of its own write is counted as a fault: the
\* timer for the acknowledgement is then started after the acknowledgement, and runs on.
FrameArrives ==
  /\ unit.wire # << >> /\ eep.connected /\ Room
  /\ IF Posted("sent", BOOLEAN) \/ Posted("event", {"write_completed"}) THEN Fault ELSE UNCHANGED faults
  /\ eep' = Post(eep, "received", Head(unit.wire))
  /\ unit' = [unit EXCEPT !.wire = Tail(@)]
  /\ UNCHANGED calls

\* A read that holds a part of a frame, or all that is under way, has a wrong checksum; one that is shorter
\* than a header is not refused.
FrameGarbled(m) ==
  /\ unit.wire # << >> /\ eep.connected /\ Room
  /\ Fault
  /\ eep' = Post(eep, "received", Message(m, "watchdog", NoSeq))
  /\ unit' \in {[unit EXCEPT !.wire = Tail(@)], [unit EXCEPT !.wire = << >>]}
  /\ UNCHANGED calls

FrameLost ==
  /\ unit.wire # << >>
  /\ Fault
  /\ unit' = [unit EXCEPT !.wire = Tail(@)]
  /\ UNCHANGED <<eep, calls>>

\* handleTransportFailureOnIoThread: a read that fails tells the client; a write that fails only that it failed.
TransportFails(read) ==
  /\ eep.connected /\ (read \/ eep.out # << >>) /\ Room
  /\ Fault
  /\ LET down == SocketClose(eep)
     IN eep' = IF read THEN Post(down, "received", Message("lost", "watchdog", NoSeq)) ELSE Post(down, "sent", FALSE)
  /\ unit' = [unit EXCEPT !.wire = << >>]
  /\ UNCHANGED calls

\* Expiry of a timer whose event is still to come is counted as a fault; ten seconds are long enough for
\* what is queued to be served.  The attempt to connect goes on after its timer only if SlowConnect.
Guards(timer) ==
  CASE timer = "connect" -> eep.connecting \/ Posted("connect", {"socket"}) \/ Posted("connected", BOOLEAN)
    [] timer = "send"    -> eep.state = "writing" \/ eep.out # << >> \/ eep.posts # << >>
    [] timer = "ack"     -> eep.state = "writing" \/ (eep.state = "waiting" /\ (unit.wire # << >> \/ eep.posts # << >>))
    [] timer = "response" -> eep.state = "waiting" /\ (unit.wire # << >> \/ unit.due # << >> \/ eep.posts # << >>)
    [] OTHER -> FALSE

Expire(timer) ==
  /\ timer \in eep.timers /\ Room
  /\ timer = "connect" /\ Guards("connect") => SlowConnect
  /\ timer \in {"watchdog", "health"} => eep.queue = << >> /\ eep.posts = << >>
  /\ IF Guards(timer) THEN Fault ELSE UNCHANGED faults
  /\ eep' = Post(Cancel(eep, {timer}), "timer", timer)
  /\ UNCHANGED <<unit, calls>>

------------------------------------------------------------------------------
\* The lane.

FnSend(c) ==
  /\ c \in calls \ {"deduct"} /\ ~eep.stopping /\ Room
  /\ eep' = Post([eep EXCEPT !.open = @ \cup {c}], "enqueue", c)
  /\ calls' = calls \ {c}
  /\ UNCHANGED <<unit, faults>>

\* A deduction whose label, fee or times cannot be parsed fails at once (counted as a fault).
FnSendDeductReq(parsed) ==
  /\ "deduct" \in calls /\ ~eep.stopping /\ Room
  /\ IF parsed THEN UNCHANGED faults ELSE Fault
  /\ eep' = Post([eep EXCEPT !.open = @ \cup {"deduct"}], IF parsed THEN "enqueue" ELSE "failure", "deduct")
  /\ calls' = calls \ {"deduct"}
  /\ UNCHANGED unit

\* Every task looks at stopping_ first.
FnEEPClientClose ==
  /\ ~eep.stopping
  /\ eep' = [eep EXCEPT !.stopping = TRUE, !.state = "idle", !.queue = << >>, !.posts = << >>, !.timers = {},
                        !.connected = FALSE, !.connecting = FALSE, !.out = << >>, !.expected = NoSeq]
  /\ unit' = [unit EXCEPT !.wire = << >>]
  /\ UNCHANGED <<calls, faults>>

Next ==
  \/ RunTask \/ WriteEnds \/ NoteSent \/ FrameArrives \/ FrameLost
  \/ \E m \in {"garbled", "short"} : FrameGarbled(m)
  \/ \E ok \in BOOLEAN : ConnectEnds(ok) \/ TransportFails(ok) \/ FnSendDeductReq(ok)
  \/ \E timer \in Timers : Expire(timer)
  \/ \E c \in Calls : FnSend(c)
  \/ FnEEPClientClose

\* The thread runs, writes end, frames that are complete are read, timers expire, and the controller takes the
\* connection and sends the notifications it owes.
Fairness ==
  /\ WF_vars(RunTask) /\ WF_vars(WriteEnds) /\ WF_vars(NoteSent) /\ WF_vars(FrameArrives) /\ WF_vars(ConnectEnds(TRUE))
  /\ \A timer \in Timers \ {"watchdog", "health"} : WF_vars(Expire(timer))

Spec == Init /\ [][Next]_vars /\ Fairness

------------------------------------------------------------------------------
TypeOK ==
  /\ eep.state \in States /\ eep.queue \in Seq(Requests \cup Unsolicited) /\ eep.timers \subseteq Timers
  /\ eep.current \in Requests \cup Unsolicited /\ eep.requested \in Requests
  /\ eep.seq \in 0..Sequences - 1 /\ eep.expected \in 0..NoSeq /\ eep.missed \in 0..MissedLimit - 1
  /\ ~(eep.connected /\ eep.connecting) /\ (eep.out # << >> => eep.connected)
  /\ eep.open \subseteq Calls /\ calls \subseteq Calls /\ faults \in 0..MaxFaults

\* In every state something is on its way that ends it: the timer of that state, or an event it reacts to;
\* else the client would never send again, or never connect.
Armed ==
  LET event(xs) == Posted("event", xs)
  IN ~eep.stopping =>
       CASE eep.state = "idle" -> "reconnect" \in eep.timers \/ Posted("timer", {"reconnect"}) \/ event({"connect"})
         [] eep.state = "connecting" ->
              "connect" \in eep.timers \/ Posted("timer", {"connect"}) \/ Posted("connected", BOOLEAN)
                \/ event({"connect_success", "connect_fail"})
         [] eep.state = "writing" ->
              "send" \in eep.timers \/ Posted("timer", {"send"}) \/ Posted("sent", BOOLEAN)
                \/ event({"write_completed", "write_timeout", "reconnect"})
         [] eep.state = "waiting" ->
              eep.timers \cap {"ack", "response"} # {} \/ Posted("timer", {"ack", "response"})
                \/ event({"ack_received", "ack_as_rsp", "rsp_received", "ack_timeout", "rsp_timeout",
                          "unsolicited_done", "reconnect"})
         [] OTHER -> TRUE

\* While no frame is lost and no timer races with what it guards, no request is reported as failed: timers
\* that were left running, or requests that overtook each other, would fail one.
OnlyFaultsFail == faults = 0 => eep.failed = {}

\* An answer is never reported for another request than the one it was sent for, whatever came late.
AnswersMatch == ~eep.odd

\* Whatever the lane asks for is answered or reported as failed in the end.
RequestsEnd == \A c \in Calls : c \in eep.open ~> (c \notin eep.open \/ eep.stopping)

\* A client without connection has one in the end.
Reconnects == eep.state = "idle" ~> (eep.state = "connected" \/ eep.stopping)
==============================================================================
