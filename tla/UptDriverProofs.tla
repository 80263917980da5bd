--------------------------- MODULE UptDriverProofs ---------------------------
(***************************************************************************)
(* Proofs about the UPOS driver, for every set of commands and every       *)
(* bound: its type invariant; that no wake-up is lost and that neither a   *)
(* wait nor a send is a trap; that until the first cancel commands go one  *)
(* by one, so that a frame on the line is the current command's and a      *)
(* command fails once; and that, while no sequence number is given twice,  *)
(* a response that counts answers the current command.                     *)
(***************************************************************************)
EXTENDS UptDriver, FiniteSetTheorems, TLAPS

Has(q, x) == \E i \in DOMAIN q : q[i] = x

-----------------------------------------------------------------------------
(* The queue of the io_context *)

\* A handler run from the front leaves the others in the queue, in front of what it posts.
LEMMA TailPosts ==
  ASSUME NEW S, NEW q \in Seq(S), q # <<>>, NEW p \in Seq(S)
  PROVE  /\ Tail(q) \o p \in Seq(S)
         /\ \A x : Has(q, x) /\ x # Head(q) => Has(Tail(q) \o p, x)
         /\ \A x : Has(p, x) => Has(Tail(q) \o p, x)
<1> DEFINE r == Tail(q) \o p
<1>1. /\ Tail(q) \in Seq(S) /\ Len(Tail(q)) = Len(q) - 1 /\ Len(q) \in Nat /\ Len(q) > 0
      /\ \A i \in 1..(Len(q) - 1) : Tail(q)[i] = q[i + 1]
  OBVIOUS
<1>2. /\ r \in Seq(S) /\ Len(r) = Len(q) - 1 + Len(p) /\ Len(p) \in Nat
      /\ \A i \in 1..(Len(q) - 1) : r[i] = q[i + 1]
      /\ \A i \in 1..Len(p) : r[Len(q) - 1 + i] = p[i]
  BY <1>1
<1>3. DOMAIN q = 1..Len(q) /\ DOMAIN p = 1..Len(p) /\ DOMAIN r = 1..Len(r)
  BY <1>2
<1>4. ASSUME NEW x, Has(q, x), x # Head(q) PROVE Has(r, x)
  <2>1. PICK i \in 1..Len(q) : q[i] = x
    BY <1>3, <1>4 DEF Has
  <2>2. i # 1
    BY <2>1, <1>4
  <2>3. i - 1 \in 1..Len(r) /\ r[i - 1] = x
    BY <2>1, <2>2, <1>1, <1>2
  <2> QED
    BY <2>3, <1>3 DEF Has
<1>5. ASSUME NEW x, Has(p, x) PROVE Has(r, x)
  <2>1. PICK i \in 1..Len(p) : p[i] = x
    BY <1>3, <1>5 DEF Has
  <2>2. Len(q) - 1 + i \in 1..Len(r) /\ r[Len(q) - 1 + i] = x
    BY <2>1, <1>1, <1>2
  <2> QED
    BY <2>2, <1>3 DEF Has
<1> QED
  BY <1>2, <1>4, <1>5

\* What is posted from outside goes to the back.
LEMMA AppendPosts ==
  ASSUME NEW S, NEW q \in Seq(S), NEW h \in S
  PROVE  /\ Append(q, h) \in Seq(S)
         /\ \A x : Has(q, x) => Has(Append(q, h), x)
         /\ Has(Append(q, h), h)
<1>1. /\ Append(q, h) \in Seq(S) /\ Len(Append(q, h)) = Len(q) + 1 /\ Len(q) \in Nat
      /\ \A i \in 1..Len(q) : Append(q, h)[i] = q[i]
      /\ Append(q, h)[Len(q) + 1] = h
  OBVIOUS
<1>2. DOMAIN q = 1..Len(q) /\ DOMAIN Append(q, h) = 1..(Len(q) + 1)
  BY <1>1
<1> QED
  BY <1>1, <1>2 DEF Has

LEMMA Single ==
  \A S, x : x \in S => <<x>> \in Seq(S)
OBVIOUS

LEMMA Pair ==
  \A S, x, y : x \in S /\ y \in S => <<x, y>> \in Seq(S)
OBVIOUS

\* The short sequences the handlers post.
LEMMA Posted ==
  /\ \A x : Has(<<x>>, x)
  /\ \A x, y : Has(<<x, y>>, x) /\ Has(<<x, y>>, y)
  /\ \A S, p, q : p \in Seq(S) /\ q \in Seq(S)
       => /\ p \o q \in Seq(S)
          /\ \A x : Has(p, x) \/ Has(q, x) => Has(p \o q, x)
<1>1. ASSUME NEW x, NEW y PROVE Has(<<x>>, x) /\ Has(<<x, y>>, x) /\ Has(<<x, y>>, y)
  <2>1. DOMAIN <<x>> = 1..1 /\ DOMAIN <<x, y>> = 1..2
    OBVIOUS
  <2> QED
    BY <2>1 DEF Has
<1>2. ASSUME NEW S, NEW p \in Seq(S), NEW q \in Seq(S), NEW x
      PROVE  p \o q \in Seq(S) /\ (Has(p, x) \/ Has(q, x) => Has(p \o q, x))
  <2> DEFINE r == p \o q
  <2>1. /\ r \in Seq(S) /\ Len(r) = Len(p) + Len(q) /\ Len(p) \in Nat /\ Len(q) \in Nat
        /\ \A i \in 1..Len(p) : r[i] = p[i]
        /\ \A i \in 1..Len(q) : r[Len(p) + i] = q[i]
    OBVIOUS
  <2>2. DOMAIN p = 1..Len(p) /\ DOMAIN q = 1..Len(q) /\ DOMAIN r = 1..Len(r)
    BY <2>1
  <2>3. Has(p, x) => Has(r, x)
    BY <2>1, <2>2 DEF Has
  <2>4. Has(q, x) => Has(r, x)
    <3> SUFFICES ASSUME Has(q, x) PROVE Has(r, x)
      OBVIOUS
    <3>1. PICK i \in 1..Len(q) : q[i] = x
      BY <2>2 DEF Has
    <3>2. Len(p) + i \in 1..Len(r) /\ r[Len(p) + i] = x
      BY <3>1, <2>1
    <3> QED
      BY <3>2, <2>2 DEF Has
  <2> QED
    BY <2>1, <2>3, <2>4
<1> QED
  BY <1>1, <1>2

-----------------------------------------------------------------------------
(* Types *)

\* Every event, command and timer handler is a handler.
LEMMA HandlerTypes ==
  /\ \A e \in Events : Event(e) \in Handler
  /\ \A c \in Cmds, f \in BOOLEAN : Enqueue(c, f) \in Handler
  /\ \A ok \in BOOLEAN : WriteEnd(ok) \in Handler
  /\ \A t \in Timers : TimerFired(t) \in Handler
  /\ \A r \in Reply : ReadEnd(<<r>>) \in Handler
  /\ \A r1, r2 \in Reply : ReadEnd(<<r1, r2>>) \in Handler
  /\ CheckQueue \in Handler /\ GapAborted \in Handler /\ Shutdown \in Handler
<1>1. \A e \in Events : Event(e) \in Handler
  BY DEF Event, Handler
<1>2. \A c \in Cmds, f \in BOOLEAN : Enqueue(c, f) \in Handler
  BY DEF Enqueue, Handler
<1>3. \A ok \in BOOLEAN : WriteEnd(ok) \in Handler
  BY DEF WriteEnd, Handler
<1>4. \A t \in Timers : TimerFired(t) \in Handler
  BY DEF TimerFired, Handler
<1>5. \A r \in Reply : ReadEnd(<<r>>) \in Handler
  BY DEF ReadEnd, Handler
<1>6. \A r1, r2 \in Reply : ReadEnd(<<r1, r2>>) \in Handler
  BY DEF ReadEnd, Handler
<1>7. CheckQueue \in Handler /\ GapAborted \in Handler /\ Shutdown \in Handler
  BY DEF CheckQueue, GapAborted, Shutdown, Handler
<1> QED
  BY <1>1, <1>2, <1>3, <1>4, <1>5, <1>6, <1>7

\* A status posts at most one command.
LEMMA AskTypes == \A st : AskPosts(st) \in Seq(Handler)
<1> SUFFICES ASSUME NEW st PROVE AskPosts(st) \in Seq(Handler)
  OBVIOUS
<1>1. CASE st \in AsksFor
  <2>1. Enqueue(st, FALSE) \in Handler
    BY <1>1, HandlerTypes, UptAssumption DEF Cmds
  <2>2. AskPosts(st) = <<Enqueue(st, FALSE)>>
    BY <1>1 DEF AskPosts
  <2> QED
    BY <2>1, <2>2, Single
<1>2. CASE st \notin AsksFor
  BY <1>2 DEF AskPosts
<1> QED
  BY <1>1, <1>2

\* What handlers post beside events: looks at the queue.
LEMMA PostTypes ==
  /\ \A st, q : CheckPosts(st, q) \in Seq(Handler)
  /\ \A st : IdlePosts(st) \in Seq(Handler)
  /\ \A r \in Reply : ReplyPosts(r) \in Seq(Handler)
<1>1. \A st, q : CheckPosts(st, q) \in Seq(Handler)
  BY HandlerTypes DEF CheckPosts, Events
<1>2. \A st : IdlePosts(st) \in Seq(Handler)
  BY HandlerTypes DEF IdlePosts
<1>3. ASSUME NEW r \in Reply PROVE ReplyPosts(r) \in Seq(Handler)
  <2>1. <<Event(ReplyEvent(r))>> \in Seq(Handler)
    BY HandlerTypes DEF Events, ReplyEvent
  <2>2. AskPosts(r.status) \in Seq(Handler)
    BY AskTypes
  <2>3. <<Event(ReplyEvent(r))>> \o AskPosts(r.status) \in Seq(Handler)
    BY <2>1, <2>2
  <2> QED
    BY <2>3 DEF ReplyPosts
<1> QED
  BY <1>1, <1>2, <1>3

\* A frame is numbered within SeqMax.
LEMMA FrameTypes ==
  ASSUME current \in Frame, NEW cmd \in Cmds
  PROVE  prepareCmd(cmd) \in Frame
BY UptAssumption DEF prepareCmd, SequenceFor, Frame

\* enqueueCommandOnIoThread keeps a queue of commands, and leaves it with one.
LEMMA QueueTypes ==
  ASSUME NEW q \in Seq(Cmds), NEW cmd \in Cmds, NEW front \in BOOLEAN
  PROVE  WithCommand(q, cmd, front) \in Seq(Cmds) /\ WithCommand(q, cmd, front) # <<>>
<1> DEFINE w == current.seq + 1 = SeqMax /\ cmd # "RESET_SEQ"
           p == IF w THEN <<"RESET_SEQ">> \o q ELSE q
<1>1. "RESET_SEQ" \in Cmds
  BY DEF Cmds
<1>2. p \in Seq(Cmds)
  BY <1>1
<1>3. <<cmd>> \o p \in Seq(Cmds) /\ <<cmd>> \o p # <<>>
  BY <1>2
<1>4. Append(p, cmd) \in Seq(Cmds) /\ Append(p, cmd) # <<>>
  BY <1>2, SMTT(30)
<1> QED
  BY <1>3, <1>4 DEF WithCommand

\* A handler that runs leaves the queue well typed, and everything but itself in it.
LEMMA RunsQueue ==
  ASSUME TypeOK, NEW h, NEW posts \in Seq(Handler), Runs(h, posts)
  PROVE  /\ ready' \in Seq(Handler)
         /\ \A x : Has(ready, x) /\ x # h => Has(ready', x)
         /\ \A x : Has(posts, x) => Has(ready', x)
<1>1. ready \in Seq(Handler) /\ ready # <<>> /\ Head(ready) = h /\ ready' = Tail(ready) \o posts
  BY DEF Runs, TypeOK
<1> QED
  BY <1>1, TailPosts

\* What arrives from outside leaves the queue well typed and complete.
LEMMA ArrivalQueue ==
  ASSUME TypeOK, NEW h \in Handler, ready' = Append(ready, h)
  PROVE  /\ ready' \in Seq(Handler)
         /\ \A x : Has(ready, x) => Has(ready', x)
         /\ Has(ready', h)
<1>1. ready \in Seq(Handler)
  BY DEF TypeOK
<1> QED
  BY <1>1, AppendPosts

\* The handler in front, by its kind.
LEMMA HeadTypes ==
  ASSUME TypeOK, ready # <<>>
  PROVE  /\ Head(ready) \in Handler
         /\ Head(ready).h = "enqueue" => Head(ready).cmd \in Cmds /\ Head(ready).front \in BOOLEAN
         /\ Head(ready).h = "read" =>
              Head(ready).replies \in {<<r>> : r \in Reply} \cup (Reply \X Reply)
<1>1. Head(ready) \in Handler
  BY DEF TypeOK
<1>2. Head(ready).h = "enqueue" => Head(ready).cmd \in Cmds /\ Head(ready).front \in BOOLEAN
  BY <1>1 DEF Handler
<1>3. Head(ready).h = "read" =>
        Head(ready).replies \in {<<r>> : r \in Reply} \cup (Reply \X Reply)
  <2> DEFINE R == {<<r>> : r \in Reply} \cup (Reply \X Reply)
  <2>1. Handler = [h : {"event"}, e : Events]
                    \cup [h : {"enqueue"}, cmd : Cmds, front : BOOLEAN]
                    \cup [h : {"writeEnd"}, ok : BOOLEAN]
                    \cup [h : {"timer"}, t : Timers]
                    \cup [h : {"read"}, replies : R]
                    \cup [h : {"check", "gapAborted", "shutdown"}]
    BY DEF Handler
  <2> HIDE DEF R
  <2>2. Head(ready).h = "read" => Head(ready).replies \in R
    BY <1>1, <2>1
  <2> QED
    BY <2>2 DEF R
<1> QED
  BY <1>1, <1>2, <1>3

-----------------------------------------------------------------------------
(* The type invariant *)

LEMMA InitType == Init => TypeOK
<1> SUFFICES ASSUME Init PROVE TypeOK
  OBVIOUS
<1>1. ready \in Seq(Handler)
  BY HandlerTypes DEF Init, Events
<1>2. commandQueue \in Seq(Cmds)
  BY DEF Init, Cmds
<1>3. current \in Frame
  BY UptAssumption DEF Init, Frame, Cmds
<1>4. writeQueue \in Seq(Frame)
  BY DEF Init
<1>5. calls \in [request : Nat, cancel : Nat, close : Nat, fault : Nat]
  BY DEF Init
<1> QED
  BY <1>1, <1>2, <1>3, <1>4, <1>5 DEF Init, TypeOK, States

\* Callers, the port, the clock and the terminal.
OutsideNext ==
  \/ \E cmd \in Requests : FnUptSend(cmd)
  \/ FnUptSendCancel \/ FnUptClose
  \/ WriteDone \/ WriteError
  \/ \E t \in Timers : TimerExpires(t)
  \/ \E d \in terminal, lost \in BOOLEAN, st \in Status : TerminalAcks(d, lost, st)
  \/ \E d \in terminal, st \in Status \ {"INVALID"} : TerminalResponds(d, st)

LEMMA CountType ==
  ASSUME TypeOK, NEW what \in {"request", "cancel", "close", "fault"}, NEW bound, Count(what, bound)
  PROVE  calls' \in [request : Nat, cancel : Nat, close : Nat, fault : Nat]
BY DEF Count, TypeOK

LEMMA OutsideType == TypeOK /\ OutsideNext => TypeOK'
<1> SUFFICES ASSUME TypeOK, OutsideNext PROVE TypeOK'
  OBVIOUS
<1>1. ASSUME NEW cmd \in Requests, FnUptSend(cmd) PROVE TypeOK'
  <2>1. Enqueue(cmd, FALSE) \in Handler
    BY HandlerTypes DEF Cmds
  <2>2. ready' \in Seq(Handler)
    BY <1>1, <2>1, ArrivalQueue DEF FnUptSend
  <2> QED
    BY <1>1, <2>2, CountType DEF FnUptSend, TypeOK, serial, history
<1>2. CASE FnUptSendCancel
  <2>1. Event("CANCEL_COMMAND") \in Handler
    BY HandlerTypes DEF Events
  <2>2. ready' \in Seq(Handler)
    BY <1>2, <2>1, ArrivalQueue DEF FnUptSendCancel
  <2> QED
    BY <1>2, <2>2, CountType DEF FnUptSendCancel, TypeOK, serial, history
<1>3. CASE FnUptClose
  <2>1. ready' \in Seq(Handler)
    BY <1>3, HandlerTypes, ArrivalQueue DEF FnUptClose
  <2> QED
    BY <1>3, <2>1, CountType DEF FnUptClose, TypeOK, serial, history
<1>4. CASE WriteDone
  <2>1. ready' \in Seq(Handler)
    BY <1>4, HandlerTypes, ArrivalQueue DEF WriteDone
  <2>2. writing \in Frame
    BY <1>4 DEF WriteDone, TypeOK
  <2>3. terminal' \subseteq [frame : Frame, acked : BOOLEAN]
    BY <1>4, <2>2 DEF WriteDone
  <2> QED
    BY <1>4, <2>1, <2>3 DEF WriteDone, TypeOK, history
<1>5. CASE WriteError
  <2>1. ready' \in Seq(Handler)
    BY <1>5, HandlerTypes, ArrivalQueue DEF WriteError
  <2>2. calls' \in [request : Nat, cancel : Nat, close : Nat, fault : Nat]
    BY <1>5, CountType DEF WriteError
  <2> QED
    BY <1>5, <2>1, <2>2 DEF WriteError, TypeOK, history
<1>6. ASSUME NEW t \in Timers, TimerExpires(t) PROVE TypeOK'
  <2>1. ready' \in Seq(Handler)
    BY <1>6, HandlerTypes, ArrivalQueue DEF TimerExpires
  <2> QED
    BY <1>6, <2>1 DEF TimerExpires, TypeOK, serial, history
<1>7. ASSUME NEW d \in terminal, NEW lost \in BOOLEAN, NEW st \in Status,
             TerminalAcks(d, lost, st)
      PROVE  TypeOK'
  <2>1. d \in [frame : Frame, acked : BOOLEAN]
    BY DEF TypeOK
  <2>2. ReplyTo(d.frame, "ACK", st) \in Reply
    BY <2>1 DEF ReplyTo, Reply, Frame
  <2>3. ReadEnd(<<ReplyTo(d.frame, "ACK", st)>>) \in Handler
    BY <2>2, HandlerTypes
  <2>4. ready' = ready \/ ready' = Append(ready, ReadEnd(<<ReplyTo(d.frame, "ACK", st)>>))
    BY <1>7 DEF TerminalAcks
  <2>5. ready' \in Seq(Handler)
    BY <2>3, <2>4, ArrivalQueue DEF TypeOK
  <2>6. calls' \in [request : Nat, cancel : Nat, close : Nat, fault : Nat]
    BY <1>7, CountType DEF TerminalAcks, TypeOK
  <2>7. terminal' \subseteq [frame : Frame, acked : BOOLEAN]
    BY <1>7, <2>1 DEF TerminalAcks, TypeOK
  <2> QED
    BY <1>7, <2>5, <2>6, <2>7 DEF TerminalAcks, TypeOK, serial, history
<1>8. ASSUME NEW d \in terminal, NEW st \in Status \ {"INVALID"}, TerminalResponds(d, st)
      PROVE  TypeOK'
  <2> DEFINE ack == ReplyTo(d.frame, "ACK", "OK")
             rsp == ReplyTo(d.frame, "RSP", st)
  <2>1. d \in [frame : Frame, acked : BOOLEAN]
    BY DEF TypeOK
  <2>2. ack \in Reply /\ rsp \in Reply
    BY <2>1 DEF ReplyTo, Reply, Frame, Status
  <2>3. ready' = Append(ready, ReadEnd(<<rsp>>)) \/ ready' = Append(ready, ReadEnd(<<ack, rsp>>))
    BY <1>8 DEF TerminalResponds
  <2>4. ReadEnd(<<rsp>>) \in Handler /\ ReadEnd(<<ack, rsp>>) \in Handler
    BY <2>2, HandlerTypes
  <2> HIDE DEF ack, rsp
  <2>5. ready' \in Seq(Handler)
    BY <2>3, <2>4, ArrivalQueue
  <2>6. calls' \in [request : Nat, cancel : Nat, close : Nat, fault : Nat]
    BY <1>8, CountType DEF TerminalResponds, TypeOK
  <2> QED
    BY <1>8, <2>5, <2>6 DEF TerminalResponds, TypeOK, serial, history
<1> QED
  BY <1>1, <1>2, <1>3, <1>4, <1>5, <1>6, <1>7, <1>8 DEF OutsideNext

\* Every handler that runs while the driver is open posts handlers.
LEMMA EmptyPosts == <<>> \in Seq(Handler)
OBVIOUS

LEMMA EventPosts ==
  ASSUME NEW e \in Events
  PROVE  /\ <<Event(e)>> \in Seq(Handler)
         /\ \A x : x \in Handler => <<Event(e), x>> \in Seq(Handler)
BY HandlerTypes

LEMMA SendNextType ==
  ASSUME TypeOK, SendNextCommand
  PROVE  TypeOK'
<1>1. Head(commandQueue) \in Cmds /\ Tail(commandQueue) \in Seq(Cmds)
  BY DEF SendNextCommand, TypeOK
<1>2. current' \in Frame
  BY <1>1, FrameTypes DEF SendNextCommand, TypeOK
<1>3. writeQueue' \in Seq(Frame) /\ Head(writeQueue') \in Frame
  BY <1>2 DEF SendNextCommand, TypeOK
<1>4. ready' \in Seq(Handler)
  BY EmptyPosts, RunsQueue DEF SendNextCommand
<1>5. /\ timers' \subseteq Timers /\ writeInProgress' \in BOOLEAN
      /\ writeDelayActive' \in BOOLEAN /\ writing' \in Frame \cup {NoFrame}
  <2>1. CASE writeInProgress
    BY <2>1 DEF SendNextCommand, TypeOK, Timers
  <2>2. CASE ~writeInProgress
    BY <2>2, <1>3 DEF SendNextCommand, StartWrite, TypeOK, Timers
  <2> QED
    BY <2>1, <2>2
<1>6. failures' \in Nat /\ answers' \subseteq Cmds
  BY DEF SendNextCommand
<1> QED
  BY <1>1, <1>2, <1>3, <1>4, <1>5, <1>6 DEF SendNextCommand, Enters, TypeOK, States

LEMMA EnqueueType ==
  ASSUME TypeOK, ready # <<>>, Head(ready).h = "enqueue",
         RunEnqueue(Head(ready).cmd, Head(ready).front)
  PROVE  TypeOK' /\ commandQueue' # <<>>
<1>1. Head(ready).cmd \in Cmds /\ Head(ready).front \in BOOLEAN
  BY HeadTypes
<1>2. commandQueue' \in Seq(Cmds) /\ commandQueue' # <<>>
  BY <1>1, QueueTypes DEF RunEnqueue, TypeOK
<1>3. ready' \in Seq(Handler)
  BY PostTypes, RunsQueue DEF RunEnqueue
<1> QED
  BY <1>2, <1>3 DEF RunEnqueue, TypeOK, serial, history

LEMMA ReadType ==
  ASSUME TypeOK, ready # <<>>, Head(ready).h = "read", RunReadEnd(Head(ready).replies)
  PROVE  TypeOK'
<1> DEFINE rs == Head(ready).replies
<1>1. rs \in {<<r>> : r \in Reply} \cup (Reply \X Reply)
  BY HeadTypes
<1>2. \/ DOMAIN rs = {1} /\ Len(rs) = 1 /\ rs[1] \in Reply
      \/ DOMAIN rs = {1, 2} /\ Len(rs) = 2 /\ rs[1] \in Reply /\ rs[2] \in Reply
  BY <1>1
<1> HIDE DEF rs
<1> DEFINE second == IF Len(rs) > 1 THEN ReplyPosts(rs[2]) ELSE <<>>
<1>3. ReplyPosts(rs[1]) \in Seq(Handler) /\ second \in Seq(Handler)
  BY <1>2, PostTypes
<1>4. Runs(ReadEnd(rs), ReplyPosts(rs[1]) \o second)
  BY DEF RunReadEnd, rs
<1> HIDE DEF second
<1>5. ReplyPosts(rs[1]) \o second \in Seq(Handler)
  BY <1>3
<1>6. ready' \in Seq(Handler)
  BY <1>4, <1>5, RunsQueue
<1>7. answers' \subseteq Cmds
  <2>1. \A i \in DOMAIN rs : rs[i].cmd \in Cmds
    BY <1>2 DEF Reply
  <2>2. answers' \subseteq answers \cup {rs[i].cmd : i \in DOMAIN rs}
    BY DEF RunReadEnd, rs
  <2> QED
    BY <2>1, <2>2 DEF TypeOK
<1>8. timers' \subseteq Timers
  BY DEF RunReadEnd, TypeOK
<1> QED
  BY <1>6, <1>7, <1>8 DEF RunReadEnd, TypeOK, serial

LEMMA CleanUpType ==
  ASSUME TypeOK, CancelCleanUp
  PROVE  /\ TypeOK'
         /\ Has(ready', CheckQueue)
<1> DEFINE gap == IF writeDelayActive /\ "gap" \in timers THEN <<GapAborted>> ELSE <<>>
           posts == gap \o <<Event("CANCEL_COMMAND")>> \o IdlePosts("IDLE")
<1>1. gap \in Seq(Handler)
  BY HandlerTypes
<1>2. <<Event("CANCEL_COMMAND")>> \in Seq(Handler) /\ IdlePosts("IDLE") \in Seq(Handler)
  BY EventPosts, PostTypes DEF Events
<1>3. Has(IdlePosts("IDLE"), CheckQueue)
  BY Posted DEF IdlePosts
<1>4. Runs(Event("CANCEL_CLEAN_UP"), posts)
  BY DEF CancelCleanUp
<1> HIDE DEF gap
<1>5. gap \o <<Event("CANCEL_COMMAND")>> \in Seq(Handler)
  BY <1>1, <1>2
<1>6. posts \in Seq(Handler) /\ Has(posts, CheckQueue)
  BY <1>5, <1>2, <1>3, Posted
<1> HIDE DEF posts
<1>7. ready' \in Seq(Handler) /\ Has(ready', CheckQueue)
  BY <1>4, <1>6, RunsQueue
<1>8. writeQueue' \in Seq(Frame)
  <2>1. writeQueue \in Seq(Frame)
    BY DEF TypeOK
  <2>2. \/ writeQueue' = writeQueue
        \/ writeQueue' = <<>>
        \/ writeQueue # <<>> /\ writeQueue' = Tail(writeQueue)
    BY DEF CancelCleanUp
  <2>3. <<>> \in Seq(Frame) /\ (writeQueue # <<>> => Tail(writeQueue) \in Seq(Frame))
    BY <2>1
  <2> QED
    BY <2>1, <2>2, <2>3, Zenon
<1>9. timers' \subseteq Timers
  BY DEF CancelCleanUp, TypeOK
<1>10. /\ state' \in States
       /\ writeInProgress' \in BOOLEAN /\ writeDelayActive' \in BOOLEAN
  BY DEF CancelCleanUp, Enters, TypeOK, States
<1> QED
  BY <1>7, <1>8, <1>9, <1>10 DEF CancelCleanUp, TypeOK, history

LEMMA RunType == TypeOK /\ RunHandler => TypeOK'
<1> SUFFICES ASSUME TypeOK, RunHandler PROVE TypeOK'
  OBVIOUS
<1>1. CASE ready # <<>> /\ Head(ready).h = "enqueue" /\ RunEnqueue(Head(ready).cmd, Head(ready).front)
  BY <1>1, EnqueueType
<1>2. CASE RunCheckQueue
  <2>1. ready' \in Seq(Handler)
    BY <1>2, PostTypes, RunsQueue DEF RunCheckQueue
  <2> QED
    BY <1>2, <2>1 DEF RunCheckQueue, TypeOK, serial, history
<1>3. CASE SendNextCommand
  BY <1>3, SendNextType
<1>4. CASE SendNothing
  <2>1. ready' \in Seq(Handler)
    BY <1>4, EmptyPosts, RunsQueue DEF SendNothing
  <2> QED
    BY <1>4, <2>1 DEF SendNothing, Enters, TypeOK, States, Timers, serial, history
<1>5. CASE CancelWhenIdle
  <2>1. <<Enqueue("CANCEL", TRUE), CheckQueue>> \in Seq(Handler)
    <3>1. Enqueue("CANCEL", TRUE) \in Handler /\ CheckQueue \in Handler
      BY HandlerTypes DEF Cmds
    <3> QED
      BY <3>1, Pair
  <2>2. ready' \in Seq(Handler)
    BY <1>5, <2>1, RunsQueue DEF CancelWhenIdle
  <2> QED
    BY <1>5, <2>2 DEF CancelWhenIdle, TypeOK, serial, history
<1>6. CASE WriteCompleted
  <2>1. ready' \in Seq(Handler)
    BY <1>6, EmptyPosts, RunsQueue DEF WriteCompleted
  <2> QED
    BY <1>6, <2>1 DEF WriteCompleted, Enters, TypeOK, States, Timers, serial, history
<1>7. ASSUME NEW e \in {"WRITE_FAILED", "WRITE_TIMEOUT"}, WriteNotDone(e) PROVE TypeOK'
  <2>1. ready' \in Seq(Handler)
    BY <1>7, PostTypes, RunsQueue DEF WriteNotDone
  <2> QED
    BY <1>7, <2>1 DEF WriteNotDone, Enters, ReportsFailure, TypeOK, States, serial
<1>8. CASE AckReceived
  <2>1. ready' \in Seq(Handler)
    BY <1>8, EmptyPosts, RunsQueue DEF AckReceived
  <2> QED
    BY <1>8, <2>1 DEF AckReceived, Enters, TypeOK, States, Timers, serial, history
<1>9. CASE ResponseReceived
  <2>1. ready' \in Seq(Handler)
    BY <1>9, PostTypes, RunsQueue DEF ResponseReceived
  <2> QED
    BY <1>9, <2>1 DEF ResponseReceived, Enters, TypeOK, States, serial, history
<1>10. ASSUME NEW e \in {"ACK_TIMEOUT", "RESPONSE_TIMEOUT"}, ReplyTimeout(e) PROVE TypeOK'
  <2>1. ready' \in Seq(Handler)
    BY <1>10, PostTypes, RunsQueue DEF ReplyTimeout
  <2> QED
    BY <1>10, <2>1 DEF ReplyTimeout, Enters, ReportsFailure, TypeOK, States, serial
<1>11. CASE CancelWhenBusy
  <2>1. ready' \in Seq(Handler)
    BY <1>11, EventPosts, RunsQueue DEF CancelWhenBusy, Events
  <2> QED
    BY <1>11, <2>1 DEF CancelWhenBusy, Enters, TypeOK, States, serial, history
<1>12. CASE CancelCleanUp
  BY <1>12, CleanUpType
<1>13. ASSUME NEW e \in Events, IgnoreEvent(e) PROVE TypeOK'
  <2>1. ready' \in Seq(Handler)
    BY <1>13, EmptyPosts, RunsQueue DEF IgnoreEvent
  <2> QED
    BY <1>13, <2>1 DEF IgnoreEvent, TypeOK, serial, history
<1>14. ASSUME NEW ok \in BOOLEAN, RunWriteEnd(ok) PROVE TypeOK'
  <2> DEFINE e == IF writeTimedOut THEN "WRITE_TIMEOUT"
                  ELSE IF ok THEN "WRITE_COMPLETED" ELSE "WRITE_FAILED"
  <2>1. <<Event(e)>> \in Seq(Handler)
    BY EventPosts DEF Events
  <2>2. ready' \in Seq(Handler)
    BY <1>14, <2>1, RunsQueue DEF RunWriteEnd
  <2>3. writeQueue' \in Seq(Frame)
    BY <1>14 DEF RunWriteEnd, TypeOK
  <2> QED
    BY <1>14, <2>2, <2>3 DEF RunWriteEnd, TypeOK, history
<1>15. CASE RunWriteTimer
  <2>1. WriteEnd(FALSE) \in Handler
    BY HandlerTypes
  <2>2. <<WriteEnd(FALSE)>> \in Seq(Handler)
    BY <2>1, Single
  <2>3. ready' \in Seq(Handler)
    BY <1>15, <2>2, EmptyPosts, RunsQueue DEF RunWriteTimer
  <2> QED
    BY <1>15, <2>3 DEF RunWriteTimer, TypeOK, history
<1>16. CASE RunGapTimer
  <2>1. ready' \in Seq(Handler)
    BY <1>16, EmptyPosts, RunsQueue DEF RunGapTimer
  <2>2. writing' \in Frame \cup {NoFrame}
    BY <1>16 DEF RunGapTimer, TypeOK
  <2> QED
    BY <1>16, <2>1, <2>2 DEF RunGapTimer, TypeOK, history
<1>17. CASE RunGapAborted
  <2>1. ready' \in Seq(Handler)
    BY <1>17, EmptyPosts, RunsQueue DEF RunGapAborted
  <2> QED
    BY <1>17, <2>1 DEF RunGapAborted, TypeOK, history
<1>18. ASSUME NEW t \in {"ack", "rsp"}, RunReplyTimer(t) PROVE TypeOK'
  <2> DEFINE e == IF t = "ack" THEN "ACK_TIMEOUT" ELSE "RESPONSE_TIMEOUT"
  <2>1. <<Event(e)>> \in Seq(Handler)
    BY EventPosts DEF Events
  <2>2. ready' \in Seq(Handler)
    BY <1>18, <2>1, RunsQueue DEF RunReplyTimer
  <2> QED
    BY <1>18, <2>2 DEF RunReplyTimer, TypeOK, serial, history
<1>19. CASE ready # <<>> /\ Head(ready).h = "read" /\ RunReadEnd(Head(ready).replies)
  BY <1>19, ReadType
<1>20. CASE RunShutdown
  <2>1. WriteEnd(FALSE) \in Handler
    BY HandlerTypes
  <2>2. <<WriteEnd(FALSE)>> \in Seq(Handler)
    BY <2>1, Single
  <2>3. ready' \in Seq(Handler)
    BY <1>20, <2>2, EmptyPosts, TailPosts DEF RunShutdown, TypeOK
  <2> QED
    BY <1>20, <2>3 DEF RunShutdown, TypeOK, history
<1>21. CASE DropHandler
  BY <1>21 DEF DropHandler, TypeOK, serial, history
<1> QED
  BY <1>1, <1>2, <1>3, <1>4, <1>5, <1>6, <1>7, <1>8, <1>9, <1>10, <1>11, <1>12, <1>13, <1>14,
     <1>15, <1>16, <1>17, <1>18, <1>19, <1>20, <1>21 DEF RunHandler

LEMMA JoinedType == TypeOK /\ Joined => TypeOK'
<1> SUFFICES ASSUME TypeOK, Joined PROVE TypeOK'
  OBVIOUS
<1>1. current' \in Frame /\ commandQueue' \in Seq(Cmds) /\ writeQueue' \in Seq(Frame)
  BY UptAssumption DEF Joined, Frame, Cmds
<1> QED
  BY <1>1 DEF Joined, TypeOK, States, history

LEMMA NextCases == Next => OutsideNext \/ RunHandler \/ Joined
BY DEF Next, OutsideNext

LEMMA TypeStep == TypeOK /\ [Next]_vars => TypeOK'
<1> SUFFICES ASSUME TypeOK, [Next]_vars PROVE TypeOK'
  OBVIOUS
<1>1. CASE Next
  BY <1>1, NextCases, OutsideType, RunType, JoinedType
<1>2. CASE UNCHANGED vars
  BY <1>2 DEF vars, serial, history, TypeOK
<1> QED
  BY <1>1, <1>2

\* The driver's state keeps its types, whatever is asked of it and whatever the line
\* does (upt.cpp 3116-3602, 4195-4546).
THEOREM TypeCorrect == Spec => []TypeOK
<1>1. Init => TypeOK
  BY InitType
<1>2. TypeOK /\ [Next]_vars => TypeOK'
  BY TypeStep
<1> QED
  BY <1>1, <1>2, PTL DEF Spec

-----------------------------------------------------------------------------
(* No wake-up is lost and no wait is a trap *)

\* What tells the handlers of the queue apart.
LEMMA Fields ==
  /\ \A e : Event(e).h = "event" /\ Event(e).e = e
  /\ \A c, f : Enqueue(c, f).h = "enqueue"
  /\ \A ok : WriteEnd(ok).h = "writeEnd"
  /\ \A t : TimerFired(t).h = "timer" /\ TimerFired(t).t = t
  /\ \A rs : ReadEnd(rs).h = "read"
  /\ CheckQueue.h = "check" /\ GapAborted.h = "gapAborted" /\ Shutdown.h = "shutdown"
BY DEF Event, Enqueue, WriteEnd, TimerFired, ReadEnd, CheckQueue, GapAborted, Shutdown

\* The wake-up and the ends of the waits, for any queue, state and timers.
Wakes(q, st, queue) ==
  st = "IDLE" /\ queue # <<>> => Has(q, CheckQueue) \/ Has(q, Event("COMMAND_ENQUEUED"))

Ends(q, st, ts) ==
  /\ st = "WAITING_FOR_ACK"
       => \/ "ack" \in ts \/ Has(q, TimerFired("ack"))
          \/ Has(q, Event("ACK_RECEIVED")) \/ Has(q, Event("ACK_TIMEOUT"))
  /\ st = "WAITING_FOR_RESPONSE"
       => \/ "rsp" \in ts \/ Has(q, TimerFired("rsp"))
          \/ Has(q, Event("RSP_RECEIVED")) \/ Has(q, Event("RESPONSE_TIMEOUT"))
  /\ st = "CANCEL_COMMAND_REQUEST" => Has(q, Event("CANCEL_CLEAN_UP"))

\* Both properties together.
NoTrap == IsOpen => Wakes(ready, state, commandQueue) /\ Ends(ready, state, timers)

LEMMA TrapDefs == NoTrap <=> WakeUpPending /\ WaitsEnd
BY DEF NoTrap, Wakes, Ends, WakeUpPending, WaitsEnd, AckWaitEnds, ResponseWaitEnds, CancelEnds,
       Pending, Has

\* What a step from outside may do: add to the queue, and turn a timer into a handler.
Arrives ==
  /\ state' = state /\ commandQueue' = commandQueue /\ IsOpen
  /\ \A x : Has(ready, x) => Has(ready', x)
  /\ \A t \in timers : t \in timers' \/ Has(ready', TimerFired(t))

LEMMA OutsideArrives == TypeOK /\ OutsideNext => Arrives
<1> SUFFICES ASSUME TypeOK, OutsideNext PROVE Arrives
  OBVIOUS
<1>1. ASSUME NEW cmd \in Requests, FnUptSend(cmd) PROVE Arrives
  <2>1. Enqueue(cmd, FALSE) \in Handler
    BY HandlerTypes DEF Cmds
  <2> QED
    BY <1>1, <2>1, ArrivalQueue DEF FnUptSend, Accepting, Arrives
<1>2. CASE FnUptSendCancel
  <2>1. Event("CANCEL_COMMAND") \in Handler
    BY HandlerTypes DEF Events
  <2> QED
    BY <1>2, <2>1, ArrivalQueue DEF FnUptSendCancel, Accepting, Arrives
<1>3. CASE FnUptClose
  BY <1>3, HandlerTypes, ArrivalQueue DEF FnUptClose, Accepting, Arrives
<1>4. CASE WriteDone
  BY <1>4, HandlerTypes, ArrivalQueue DEF WriteDone, Accepting, Arrives
<1>5. CASE WriteError
  BY <1>5, HandlerTypes, ArrivalQueue DEF WriteError, Accepting, Arrives
<1>6. ASSUME NEW t \in Timers, TimerExpires(t) PROVE Arrives
  BY <1>6, HandlerTypes, ArrivalQueue DEF TimerExpires, Accepting, Arrives
<1>7. ASSUME NEW d \in terminal, NEW lost \in BOOLEAN, NEW st \in Status,
             TerminalAcks(d, lost, st)
      PROVE  Arrives
  <2>1. d \in [frame : Frame, acked : BOOLEAN]
    BY DEF TypeOK
  <2>2. ReplyTo(d.frame, "ACK", st) \in Reply
    BY <2>1 DEF ReplyTo, Reply, Frame
  <2>3. ReadEnd(<<ReplyTo(d.frame, "ACK", st)>>) \in Handler
    BY <2>2, HandlerTypes
  <2>4. ready' = ready \/ ready' = Append(ready, ReadEnd(<<ReplyTo(d.frame, "ACK", st)>>))
    BY <1>7 DEF TerminalAcks
  <2>5. \A x : Has(ready, x) => Has(ready', x)
    BY <2>3, <2>4, ArrivalQueue
  <2> QED
    BY <1>7, <2>5 DEF TerminalAcks, Accepting, Arrives
<1>8. ASSUME NEW d \in terminal, NEW st \in Status \ {"INVALID"}, TerminalResponds(d, st)
      PROVE  Arrives
  <2> DEFINE ack == ReplyTo(d.frame, "ACK", "OK")
             rsp == ReplyTo(d.frame, "RSP", st)
  <2>1. d \in [frame : Frame, acked : BOOLEAN]
    BY DEF TypeOK
  <2>2. ack \in Reply /\ rsp \in Reply
    BY <2>1 DEF ReplyTo, Reply, Frame, Status
  <2>3. ready' = Append(ready, ReadEnd(<<rsp>>)) \/ ready' = Append(ready, ReadEnd(<<ack, rsp>>))
    BY <1>8 DEF TerminalResponds
  <2>4. ReadEnd(<<rsp>>) \in Handler /\ ReadEnd(<<ack, rsp>>) \in Handler
    BY <2>2, HandlerTypes
  <2> HIDE DEF ack, rsp
  <2>5. \A x : Has(ready, x) => Has(ready', x)
    BY <2>3, <2>4, ArrivalQueue
  <2> QED
    BY <1>8, <2>5 DEF TerminalResponds, Accepting, Arrives
<1> QED
  BY <1>1, <1>2, <1>3, <1>4, <1>5, <1>6, <1>7, <1>8 DEF OutsideNext

LEMMA OutsideKeeps == TypeOK /\ NoTrap /\ OutsideNext => NoTrap'
<1> SUFFICES ASSUME TypeOK, NoTrap, OutsideNext PROVE NoTrap'
  OBVIOUS
<1>1. Arrives
  BY OutsideArrives
<1>2. Wakes(ready, state, commandQueue)' /\ Ends(ready, state, timers)'
  BY <1>1 DEF Arrives, NoTrap, Wakes, Ends
<1> QED
  BY <1>2 DEF NoTrap

\* A handler that is no wake-up, run without touching the state or the command queue.
LEMMA OtherWakes ==
  ASSUME TypeOK, NoTrap, NEW h, NEW posts \in Seq(Handler), Runs(h, posts),
         h # CheckQueue, h # Event("COMMAND_ENQUEUED"),
         state' = state, commandQueue' = commandQueue
  PROVE  Wakes(ready, state, commandQueue)'
<1>1. \A x : Has(ready, x) /\ x # h => Has(ready', x)
  BY RunsQueue
<1> QED
  BY <1>1 DEF NoTrap, Wakes, Runs

\* A handler that ends no wait, run without touching the state or the reply timers.
WaitHandlers ==
  {TimerFired("ack"), TimerFired("rsp"), Event("ACK_RECEIVED"), Event("ACK_TIMEOUT"),
   Event("RSP_RECEIVED"), Event("RESPONSE_TIMEOUT"), Event("CANCEL_CLEAN_UP")}

LEMMA OtherEnds ==
  ASSUME TypeOK, NoTrap, NEW h, NEW posts \in Seq(Handler), Runs(h, posts),
         h \notin WaitHandlers, state' = state, timers \cap {"ack", "rsp"} \subseteq timers'
  PROVE  Ends(ready, state, timers)'
<1>1. \A x : Has(ready, x) /\ x # h => Has(ready', x)
  BY RunsQueue
<1> QED
  BY <1>1 DEF NoTrap, Ends, Runs, WaitHandlers

\* A step that ends idle, after the queue is looked at.
LEMMA IdleKeeps ==
  ASSUME Has(ready', CheckQueue), state' = "IDLE"
  PROVE  NoTrap'
BY DEF NoTrap, Wakes, Ends

\* A step that starts to send keeps both, whatever else it does.
LEMMA SendingKeeps ==
  ASSUME state' = "SENDING_REQUEST_ASYNC"
  PROVE  NoTrap'
BY DEF NoTrap, Wakes, Ends

LEMMA IdleRuns ==
  ASSUME TypeOK, NEW h, Runs(h, IdlePosts("IDLE"))
  PROVE  Has(ready', CheckQueue)
<1>1. IdlePosts("IDLE") \in Seq(Handler)
  BY PostTypes
<1>2. Has(IdlePosts("IDLE"), CheckQueue)
  BY Posted DEF IdlePosts
<1> QED
  BY <1>1, <1>2, RunsQueue

LEMMA EnqueueKeeps ==
  ASSUME TypeOK, NoTrap, NEW cmd \in Cmds, NEW front \in BOOLEAN, RunEnqueue(cmd, front)
  PROVE  NoTrap'
<1> DEFINE posts == CheckPosts(state, commandQueue')
<1>1. posts \in Seq(Handler) /\ Runs(Enqueue(cmd, front), posts)
  BY PostTypes DEF RunEnqueue
<1>2. Ends(ready, state, timers)'
  <2>1. Enqueue(cmd, front) \notin WaitHandlers
    BY Fields DEF WaitHandlers
  <2> HIDE DEF posts
  <2> QED
    BY <1>1, <2>1, OtherEnds DEF RunEnqueue
<1>3. Wakes(ready, state, commandQueue)'
  <2>1. CASE state = "IDLE" /\ commandQueue' # <<>>
    <3>1. Has(posts, Event("COMMAND_ENQUEUED"))
      BY <2>1, Posted DEF CheckPosts
    <3> HIDE DEF posts
    <3>2. Has(ready', Event("COMMAND_ENQUEUED"))
      BY <1>1, <3>1, RunsQueue
    <3> QED
      BY <3>2 DEF Wakes
  <2>2. CASE ~(state = "IDLE" /\ commandQueue' # <<>>)
    BY <2>2 DEF RunEnqueue, Wakes
  <2> QED
    BY <2>1, <2>2
<1> QED
  BY <1>2, <1>3 DEF NoTrap

LEMMA CheckKeeps ==
  ASSUME TypeOK, NoTrap, RunCheckQueue
  PROVE  NoTrap'
<1> DEFINE posts == CheckPosts(state, commandQueue)
<1>1. posts \in Seq(Handler) /\ Runs(CheckQueue, posts)
  BY PostTypes DEF RunCheckQueue
<1>2. Ends(ready, state, timers)'
  <2>1. CheckQueue \notin WaitHandlers
    BY Fields DEF WaitHandlers
  <2> HIDE DEF posts
  <2> QED
    BY <1>1, <2>1, OtherEnds DEF RunCheckQueue
<1>3. Wakes(ready, state, commandQueue)'
  <2>1. CASE state = "IDLE" /\ commandQueue # <<>>
    <3>1. Has(posts, Event("COMMAND_ENQUEUED"))
      BY <2>1, Posted DEF CheckPosts
    <3> HIDE DEF posts
    <3>2. Has(ready', Event("COMMAND_ENQUEUED"))
      BY <1>1, <3>1, RunsQueue
    <3> QED
      BY <3>2 DEF Wakes
  <2>2. CASE ~(state = "IDLE" /\ commandQueue # <<>>)
    BY <2>2 DEF RunCheckQueue, Wakes
  <2> QED
    BY <2>1, <2>2
<1> QED
  BY <1>2, <1>3 DEF NoTrap

\* A reply that cancels a timer posts the event that ends the wait instead.
LEMMA ReplyEnds ==
  ASSUME NEW r \in Reply, IsCurrent(r)
  PROVE  /\ ReplyPosts(r) \in Seq(Handler)
         /\ r.class = "RSP" => Has(ReplyPosts(r), Event("RSP_RECEIVED"))
         /\ r.class # "RSP" => \/ Has(ReplyPosts(r), Event("ACK_RECEIVED"))
                               \/ Has(ReplyPosts(r), Event("ACK_TIMEOUT"))
<1> DEFINE e == ReplyEvent(r)
<1>1. <<Event(e)>> \in Seq(Handler)
  BY EventPosts DEF Events, ReplyEvent
<1>2. AskPosts(r.status) \in Seq(Handler)
  BY AskTypes
<1>3. Has(<<Event(e)>>, Event(e))
  BY Posted
<1>4. ReplyPosts(r) = <<Event(e)>> \o AskPosts(r.status)
  BY DEF ReplyPosts
<1>5. e \in {"RSP_RECEIVED", "ACK_TIMEOUT", "ACK_RECEIVED"}
      /\ (r.class = "RSP" <=> e = "RSP_RECEIVED")
  BY DEF ReplyEvent
<1> DEFINE p == <<Event(e)>>
           q == AskPosts(r.status)
<1>6. p \in Seq(Handler) /\ q \in Seq(Handler) /\ Has(p, Event(e)) /\ ReplyPosts(r) = p \o q
  BY <1>1, <1>2, <1>3, <1>4
<1> HIDE DEF e, p, q
<1>7. ReplyPosts(r) \in Seq(Handler) /\ Has(ReplyPosts(r), Event(e))
  BY <1>6, Posted
<1> QED
  BY <1>5, <1>7

LEMMA ReadKeeps ==
  ASSUME TypeOK, NoTrap, ready # <<>>, Head(ready).h = "read", RunReadEnd(Head(ready).replies)
  PROVE  NoTrap'
<1> DEFINE rs == Head(ready).replies
           mine == {i \in DOMAIN rs : IsCurrent(rs[i])}
           rsps == {i \in mine : rs[i].class = "RSP"}
<1>1. rs \in {<<r>> : r \in Reply} \cup (Reply \X Reply)
  BY HeadTypes
<1>2. \/ DOMAIN rs = {1} /\ Len(rs) = 1 /\ rs[1] \in Reply
      \/ DOMAIN rs = {1, 2} /\ Len(rs) = 2 /\ rs[1] \in Reply /\ rs[2] \in Reply
  BY <1>1
<1>3. timers' = timers \ ((IF rsps # mine THEN {"ack"} ELSE {})
                            \cup IF rsps # {} THEN {"rsp"} ELSE {})
  BY DEF RunReadEnd
<1> HIDE DEF rs
<1> DEFINE first == ReplyPosts(rs[1])
           second == IF Len(rs) > 1 THEN ReplyPosts(rs[2]) ELSE <<>>
<1>4. first \in Seq(Handler) /\ second \in Seq(Handler)
  BY <1>2, PostTypes
<1>5. Runs(ReadEnd(rs), first \o second)
  BY DEF RunReadEnd, rs
<1>6. /\ first \o second \in Seq(Handler)
      /\ \A x : Has(first, x) \/ Has(second, x) => Has(ready', x)
      /\ \A x : Has(ready, x) /\ x # ReadEnd(rs) => Has(ready', x)
  <2>1. first \o second \in Seq(Handler)
        /\ \A x : Has(first, x) \/ Has(second, x) => Has(first \o second, x)
    <3> HIDE DEF first, second
    <3> QED
      BY <1>4, Posted
  <2> HIDE DEF first, second
  <2> QED
    BY <1>5, <2>1, RunsQueue
<1>7. \A i \in mine : \A x : Has(ReplyPosts(rs[i]), x) => Has(ready', x)
  BY <1>2, <1>6
<1>8. \A i \in DOMAIN rs : rs[i] \in Reply
  BY <1>2
<1>9. ASSUME "ack" \notin timers', "ack" \in timers
      PROVE  Has(ready', Event("ACK_RECEIVED")) \/ Has(ready', Event("ACK_TIMEOUT"))
  <2>1. PICK i \in mine : rs[i].class # "RSP"
    BY <1>3, <1>9
  <2> QED
    BY <2>1, <1>7, <1>8, ReplyEnds
<1>10. ASSUME "rsp" \notin timers', "rsp" \in timers
       PROVE  Has(ready', Event("RSP_RECEIVED"))
  <2>1. PICK i \in mine : rs[i].class = "RSP"
    BY <1>3, <1>10
  <2> QED
    BY <2>1, <1>7, <1>8, ReplyEnds
<1>11. state' = state /\ commandQueue' = commandQueue /\ IsOpen
  BY DEF RunReadEnd, Runs
<1> HIDE DEF first, second, mine, rsps
<1>12. Wakes(ready, state, commandQueue)'
  BY <1>6, <1>11, Fields DEF NoTrap, Wakes
<1>13. Ends(ready, state, timers)'
  BY <1>6, <1>9, <1>10, <1>11, Fields DEF NoTrap, Ends
<1> QED
  BY <1>12, <1>13 DEF NoTrap

\* The handler of a reply timer turns into the event of its time-out.
LEMMA TimeoutKeeps ==
  ASSUME TypeOK, NoTrap, NEW t \in {"ack", "rsp"}, RunReplyTimer(t)
  PROVE  NoTrap'
<1> DEFINE e == IF t = "ack" THEN "ACK_TIMEOUT" ELSE "RESPONSE_TIMEOUT"
<1>1. <<Event(e)>> \in Seq(Handler) /\ Has(<<Event(e)>>, Event(e))
  BY EventPosts, Posted DEF Events
<1>2. Runs(TimerFired(t), <<Event(e)>>)
  BY DEF RunReplyTimer
<1>3. \/ t = "ack" /\ e = "ACK_TIMEOUT"
      \/ t = "rsp" /\ e = "RESPONSE_TIMEOUT"
  OBVIOUS
<1> HIDE DEF e
<1>4. /\ \A x : Has(ready, x) /\ x # TimerFired(t) => Has(ready', x)
      /\ Has(ready', Event(e))
  BY <1>1, <1>2, RunsQueue
<1>5. state' = state /\ commandQueue' = commandQueue /\ timers' = timers /\ IsOpen
  BY DEF RunReplyTimer, Runs
<1>6. Wakes(ready, state, commandQueue)'
  BY <1>4, <1>5, Fields DEF NoTrap, Wakes
<1>7. Ends(ready, state, timers)'
  BY <1>3, <1>4, <1>5, Fields DEF NoTrap, Ends
<1> QED
  BY <1>6, <1>7 DEF NoTrap

\* A dropped event is none that the state waits for.
LEMMA IgnoreKeeps ==
  ASSUME TypeOK, NoTrap, NEW e \in Events, IgnoreEvent(e)
  PROVE  NoTrap'
<1>1. \A x : Has(ready, x) /\ x # Event(e) => Has(ready', x)
  BY EmptyPosts, RunsQueue DEF IgnoreEvent
<1>2. state' = state /\ commandQueue' = commandQueue /\ timers' = timers /\ IsOpen
  BY DEF IgnoreEvent, Runs
<1>3. /\ state = "IDLE" => e # "COMMAND_ENQUEUED"
      /\ state = "WAITING_FOR_ACK" => e \notin {"ACK_RECEIVED", "ACK_TIMEOUT"}
      /\ state = "WAITING_FOR_RESPONSE" => e \notin {"RSP_RECEIVED", "RESPONSE_TIMEOUT"}
      /\ state = "CANCEL_COMMAND_REQUEST" => e # "CANCEL_CLEAN_UP"
  BY DEF IgnoreEvent, Expected
<1>4. Wakes(ready, state, commandQueue)'
  BY <1>1, <1>2, <1>3, Fields DEF NoTrap, Wakes
<1>5. Ends(ready, state, timers)'
  BY <1>1, <1>2, <1>3, Fields DEF NoTrap, Ends
<1> QED
  BY <1>4, <1>5 DEF NoTrap

\* The handlers of the serial port: no wake-up, no wait, no change of state.
LEMMA SerialKeeps ==
  ASSUME TypeOK, NoTrap, NEW h, NEW posts \in Seq(Handler), Runs(h, posts),
         h.h \in {"writeEnd", "gapAborted"} \/ h \in {TimerFired("write"), TimerFired("gap")},
         UNCHANGED <<phase, state, commandQueue, timers>>
  PROVE  NoTrap'
<1>1. h # CheckQueue /\ h # Event("COMMAND_ENQUEUED") /\ h \notin WaitHandlers
  BY Fields DEF WaitHandlers
<1>2. Wakes(ready, state, commandQueue)'
  BY <1>1, OtherWakes
<1>3. Ends(ready, state, timers)'
  BY <1>1, OtherEnds
<1> QED
  BY <1>2, <1>3 DEF NoTrap

LEMMA RunKeeps == TypeOK /\ NoTrap /\ RunHandler => NoTrap'
<1> SUFFICES ASSUME TypeOK, NoTrap, RunHandler PROVE NoTrap'
  OBVIOUS
<1>1. CASE ready # <<>> /\ Head(ready).h = "enqueue" /\ RunEnqueue(Head(ready).cmd, Head(ready).front)
  BY <1>1, HeadTypes, EnqueueKeeps
<1>2. CASE RunCheckQueue
  BY <1>2, CheckKeeps
<1>3. CASE SendNextCommand \/ SendNothing
  BY <1>3, SendingKeeps DEF SendNextCommand, SendNothing, Enters
<1>4. CASE CancelWhenIdle
  <2> DEFINE posts == <<Enqueue("CANCEL", TRUE), CheckQueue>>
  <2>1. Enqueue("CANCEL", TRUE) \in Handler /\ CheckQueue \in Handler
    BY HandlerTypes DEF Cmds
  <2>2. posts \in Seq(Handler) /\ Has(posts, CheckQueue)
    BY <2>1, Pair, Posted
  <2>3. Has(ready', CheckQueue)
    BY <1>4, <2>2, RunsQueue DEF CancelWhenIdle
  <2> QED
    BY <1>4, <2>3, IdleKeeps DEF CancelWhenIdle
<1>5. CASE WriteCompleted
  BY <1>5 DEF WriteCompleted, Enters, NoTrap, Wakes, Ends
<1>6. ASSUME NEW e \in {"WRITE_FAILED", "WRITE_TIMEOUT"}, WriteNotDone(e) PROVE NoTrap'
  BY <1>6, IdleRuns, IdleKeeps DEF WriteNotDone, Enters
<1>7. CASE AckReceived
  BY <1>7 DEF AckReceived, Enters, NoTrap, Wakes, Ends
<1>8. CASE ResponseReceived
  BY <1>8, IdleRuns, IdleKeeps DEF ResponseReceived, Enters
<1>9. ASSUME NEW e \in {"ACK_TIMEOUT", "RESPONSE_TIMEOUT"}, ReplyTimeout(e) PROVE NoTrap'
  BY <1>9, IdleRuns, IdleKeeps DEF ReplyTimeout, Enters
<1>10. CASE CancelWhenBusy
  <2>1. <<Event("CANCEL_CLEAN_UP")>> \in Seq(Handler)
        /\ Has(<<Event("CANCEL_CLEAN_UP")>>, Event("CANCEL_CLEAN_UP"))
    BY EventPosts, Posted DEF Events
  <2>2. Has(ready', Event("CANCEL_CLEAN_UP"))
    BY <1>10, <2>1, RunsQueue DEF CancelWhenBusy
  <2> QED
    BY <1>10, <2>2 DEF CancelWhenBusy, Enters, NoTrap, Wakes, Ends
<1>11. CASE CancelCleanUp
  BY <1>11, CleanUpType, IdleKeeps DEF CancelCleanUp, Enters
<1>12. ASSUME NEW e \in Events, IgnoreEvent(e) PROVE NoTrap'
  BY <1>12, IgnoreKeeps
<1>13. ASSUME NEW ok \in BOOLEAN, RunWriteEnd(ok) PROVE NoTrap'
  <2> DEFINE e == IF writeTimedOut THEN "WRITE_TIMEOUT"
                  ELSE IF ok THEN "WRITE_COMPLETED" ELSE "WRITE_FAILED"
  <2>1. <<Event(e)>> \in Seq(Handler)
    BY EventPosts DEF Events
  <2> QED
    BY <1>13, <2>1, Fields, SerialKeeps DEF RunWriteEnd
<1>14. CASE RunWriteTimer
  <2>1. <<WriteEnd(FALSE)>> \in Seq(Handler)
    BY HandlerTypes, Single
  <2> QED
    BY <1>14, <2>1, EmptyPosts, SerialKeeps DEF RunWriteTimer
<1>15. CASE RunGapTimer
  BY <1>15, EmptyPosts, SerialKeeps DEF RunGapTimer
<1>16. CASE RunGapAborted
  BY <1>16, EmptyPosts, Fields, SerialKeeps DEF RunGapAborted
<1>17. ASSUME NEW t \in {"ack", "rsp"}, RunReplyTimer(t) PROVE NoTrap'
  BY <1>17, TimeoutKeeps
<1>18. CASE ready # <<>> /\ Head(ready).h = "read" /\ RunReadEnd(Head(ready).replies)
  BY <1>18, ReadKeeps
<1>19. CASE RunShutdown \/ DropHandler
  BY <1>19 DEF RunShutdown, DropHandler, NoTrap, IsOpen
<1> QED
  BY <1>1, <1>2, <1>3, <1>4, <1>5, <1>6, <1>7, <1>8, <1>9, <1>10, <1>11, <1>12, <1>13, <1>14,
     <1>15, <1>16, <1>17, <1>18, <1>19 DEF RunHandler

LEMMA TrapStep == TypeOK /\ NoTrap /\ [Next]_vars => NoTrap'
<1> SUFFICES ASSUME TypeOK, NoTrap, [Next]_vars PROVE NoTrap'
  OBVIOUS
<1>1. CASE Next
  <2>1. CASE Joined
    BY <2>1 DEF Joined, NoTrap, IsOpen
  <2> QED
    BY <1>1, <2>1, NextCases, OutsideKeeps, RunKeeps
<1>2. CASE UNCHANGED vars
  BY <1>2 DEF vars, NoTrap, IsOpen, Wakes, Ends
<1> QED
  BY <1>1, <1>2

LEMMA InitTrap == Init => NoTrap
<1> SUFFICES ASSUME Init PROVE NoTrap
  OBVIOUS
<1>1. Has(ready, Event("COMMAND_ENQUEUED"))
  BY Posted DEF Init
<1> QED
  BY <1>1 DEF Init, NoTrap, Wakes, Ends

\* An idle driver with a queued command always has a look at the queue ahead of it:
\* checkCommandQueue is posted on every way back to IDLE and on every enqueue.
THEOREM NoWakeUpLost == Spec => []WakeUpPending
<1>1. Init => TypeOK /\ NoTrap
  BY InitType, InitTrap
<1>2. TypeOK /\ NoTrap /\ [Next]_vars => (TypeOK /\ NoTrap)'
  BY TypeStep, TrapStep
<1>3. NoTrap => WakeUpPending
  BY TrapDefs
<1> QED
  BY <1>1, <1>2, <1>3, PTL DEF Spec

\* The waits for an acknowledgement, a response and a clean-up always have an end ahead
\* of them, whichever of reply, time-out and cancel comes first.
THEOREM NoWaitIsATrap == Spec => []WaitsEnd
<1>1. Init => TypeOK /\ NoTrap
  BY InitType, InitTrap
<1>2. TypeOK /\ NoTrap /\ [Next]_vars => (TypeOK /\ NoTrap)'
  BY TypeStep, TrapStep
<1>3. NoTrap => WaitsEnd
  BY TrapDefs
<1> QED
  BY <1>1, <1>2, <1>3, PTL DEF Spec

-----------------------------------------------------------------------------
(* Sending is no trap: a command does not wait for a write that nobody makes, *)
(* although a cancelled command's write may hold the port, events come from   *)
(* it late, and a command may be announced twice                              *)

Wakeup      == Event("COMMAND_ENQUEUED")
CleanUp     == Event("CANCEL_CLEAN_UP")
WriteEvents == {Event("WRITE_COMPLETED"), Event("WRITE_FAILED"), Event("WRITE_TIMEOUT")}
WriteEnds   == {WriteEnd(TRUE), WriteEnd(FALSE)}

\* The order in the queue: the event of a write that ended comes after every wake-up that finds
\* no command, the clean-up of a cancel after all wake-ups, and an aborted gap before them.
Told(q)        == \A j \in DOMAIN q : q[j] = Wakeup => \E k \in DOMAIN q : k > j /\ q[k] \in WriteEvents
CleansLast(q)  == \A i, j \in DOMAIN q : q[i] = CleanUp => (q[j] = CleanUp => j = i) /\ (q[j] = Wakeup => j < i)
AbortsFirst(q) == \A i, j \in DOMAIN q : q[i] = GapAborted /\ q[j] = Wakeup => i < j

Ordered ==
  /\ commandQueue = <<>> /\ ~writeInProgress => Told(ready)
  /\ CleansLast(ready) /\ AbortsFirst(ready)
  /\ Has(ready, CleanUp) => state = "CANCEL_COMMAND_REQUEST"
  /\ Has(ready, GapAborted) => state = "IDLE" /\ ~writeDelayActive

HasOf(q, S) == \E x \in S : Has(q, x)

\* A write in progress has its frame, and is on the line, ended, or waits for its gap.
Underway(q, ts) ==
  writeInProgress =>
    /\ writeQueue # <<>>
    /\ \/ writing # NoFrame
       \/ HasOf(q, WriteEnds)
       \/ writeDelayActive /\ ("gap" \in ts \/ Has(q, TimerFired("gap")))

\* A command that is sent has its write in progress, and timed, or the write has ended.
Sending(q, ts) ==
  state = "SENDING_REQUEST_ASYNC" =>
    \/ HasOf(q, WriteEvents)
    \/ writeInProgress /\ \/ HasOf(q, WriteEnds)
                          \/ "write" \in ts
                          \/ writing # NoFrame /\ Has(q, TimerFired("write"))

SendInv == IsOpen => Ordered /\ Underway(ready, timers) /\ Sending(ready, timers)

LEMMA SendDefs == SendInv => SendEnds
<1> SUFFICES ASSUME SendInv, IsOpen, state = "SENDING_REQUEST_ASYNC" PROVE SendEnds
  BY DEF SendEnds
<1>1. \A x : Has(ready, x) <=> Pending(x)
  BY DEF Has, Pending
<1>2. CASE HasOf(ready, WriteEvents)
  BY <1>1, <1>2 DEF SendEnds, HasOf, WriteEvents
<1>3. CASE HasOf(ready, WriteEnds)
  BY <1>1, <1>3 DEF SendEnds, HasOf, WriteEnds
<1>4. CASE ~HasOf(ready, WriteEvents) /\ ~HasOf(ready, WriteEnds)
  <2>1. /\ writeInProgress
        /\ writing # NoFrame \/ "gap" \in timers \/ Has(ready, TimerFired("gap"))
        /\ "write" \in timers \/ Has(ready, TimerFired("write"))
    BY <1>4 DEF SendInv, Underway, Sending
  <2> QED
    BY <1>1, <2>1 DEF SendEnds
<1> QED
  BY <1>2, <1>3, <1>4

\* The queue without its first d handlers, and with p at its end.
Moves(q, d, p, r) ==
  /\ Len(r) = Len(q) - d + Len(p)
  /\ \A i \in 1..(Len(q) - d) : r[i] = q[i + d]
  /\ \A i \in 1..Len(p) : r[Len(q) - d + i] = p[i]

LEMMA RunsMoves ==
  ASSUME TypeOK, NEW h, NEW p \in Seq(Handler), Runs(h, p)
  PROVE  /\ ready' \in Seq(Handler) /\ Moves(ready, 1, p, ready')
         /\ ready # <<>> /\ ready[1] = h /\ Has(ready, h) /\ IsOpen
<1>1. /\ ready \in Seq(Handler) /\ ready # <<>> /\ Head(ready) = h /\ ready' = Tail(ready) \o p
  BY DEF Runs, TypeOK
<1>2. /\ Tail(ready) \in Seq(Handler) /\ Len(Tail(ready)) = Len(ready) - 1 /\ Len(ready) \in Nat /\ Len(ready) > 0
      /\ \A i \in 1..(Len(ready) - 1) : Tail(ready)[i] = ready[i + 1]
      /\ ready[1] = h /\ DOMAIN ready = 1..Len(ready)
  BY <1>1
<1> DEFINE t == Tail(ready)
<1> HIDE DEF t
<1>3. /\ t \o p \in Seq(Handler) /\ Len(t \o p) = Len(t) + Len(p)
      /\ \A i \in 1..Len(t) : (t \o p)[i] = t[i]
      /\ \A i \in 1..Len(p) : (t \o p)[Len(t) + i] = p[i]
  BY <1>2 DEF t
<1>4. ready' \in Seq(Handler) /\ Len(ready') = Len(ready) - 1 + Len(p)
  BY <1>1, <1>2, <1>3 DEF t
<1>5. \A i \in 1..(Len(ready) - 1) : ready'[i] = ready[i + 1]
  BY <1>1, <1>2, <1>3 DEF t
<1>6. \A i \in 1..Len(p) : ready'[Len(ready) - 1 + i] = p[i]
  BY <1>1, <1>2, <1>3 DEF t
<1>7. Moves(ready, 1, p, ready')
  BY <1>4, <1>5, <1>6 DEF Moves
<1>8. Has(ready, h)
  <2>1. 1 \in DOMAIN ready
    BY <1>2
  <2> QED
    BY <1>2, <2>1 DEF Has
<1>9. IsOpen
  BY DEF Runs
<1> QED
  BY <1>1, <1>2, <1>4, <1>7, <1>8, <1>9

LEMMA AppendMoves ==
  ASSUME TypeOK, NEW h \in Handler, ready' = Append(ready, h)
  PROVE  ready' \in Seq(Handler) /\ Moves(ready, 0, <<h>>, ready') /\ <<h>> \in Seq(Handler)
<1>1. /\ ready \in Seq(Handler) /\ ready' = Append(ready, h)
  BY DEF TypeOK
<1>2. /\ ready' \in Seq(Handler) /\ Len(ready') = Len(ready) + 1 /\ Len(ready) \in Nat
      /\ \A i \in 1..Len(ready) : ready'[i] = ready[i]
      /\ ready'[Len(ready) + 1] = h
  BY <1>1
<1>3. <<h>> \in Seq(Handler) /\ Len(<<h>>) = 1 /\ <<h>>[1] = h
  OBVIOUS
<1> QED
  BY <1>2, <1>3 DEF Moves

\* What moving does to the order.
LEMMA MovesOrder ==
  ASSUME NEW q \in Seq(Handler), NEW p \in Seq(Handler), NEW r \in Seq(Handler), NEW d \in {0, 1}, d <= Len(q),
         Moves(q, d, p, r)
  PROVE  /\ \A x : Has(r, x) => Has(q, x) \/ Has(p, x)
         /\ \A x : Has(p, x) => Has(r, x)
         /\ \A x : Has(q, x) /\ (d = 1 => x # q[1]) => Has(r, x)
         /\ Told(q) /\ ~Has(p, Wakeup) => Told(r)
         /\ ~Has(p, CleanUp) /\ CleansLast(q) /\ (Has(p, Wakeup) => ~Has(q, CleanUp)) => CleansLast(r)
         /\ ~Has(p, GapAborted) /\ AbortsFirst(q) => AbortsFirst(r)
<1>1. /\ Len(q) \in Nat /\ Len(p) \in Nat /\ Len(r) \in Nat
      /\ DOMAIN q = 1..Len(q) /\ DOMAIN p = 1..Len(p) /\ DOMAIN r = 1..Len(r)
  OBVIOUS
<1>2. \A i \in 1..Len(r) : \/ i <= Len(q) - d /\ i + d \in 1..Len(q) /\ r[i] = q[i + d]
                           \/ i > Len(q) - d /\ i - (Len(q) - d) \in 1..Len(p) /\ r[i] = p[i - (Len(q) - d)]
  <2> SUFFICES ASSUME NEW i \in 1..Len(r), i > Len(q) - d
               PROVE  i - (Len(q) - d) \in 1..Len(p) /\ r[i] = p[i - (Len(q) - d)]
    BY <1>1 DEF Moves
  <2>1. i - (Len(q) - d) \in 1..Len(p) /\ Len(q) - d + (i - (Len(q) - d)) = i
    BY <1>1 DEF Moves
  <2> QED
    BY <2>1 DEF Moves
<1>3. \A x : Has(r, x) => Has(q, x) \/ Has(p, x)
  BY <1>1, <1>2 DEF Has
<1>4. \A i \in 1..Len(p) : Len(q) - d + i \in 1..Len(r) /\ r[Len(q) - d + i] = p[i]
  BY <1>1 DEF Moves
<1>5. \A x : Has(p, x) => Has(r, x)
  BY <1>1, <1>4 DEF Has
<1>6. \A i \in 1..Len(q) : i > d => i - d \in 1..Len(r) /\ r[i - d] = q[i]
  BY <1>1 DEF Moves
<1>7. ASSUME NEW x, Has(q, x), d = 1 => x # q[1] PROVE Has(r, x)
  <2>1. PICK i \in 1..Len(q) : q[i] = x
    BY <1>1, <1>7 DEF Has
  <2>2. i > d
    BY <2>1, <1>7
  <2> QED
    BY <2>1, <2>2, <1>6, <1>1 DEF Has
<1> HIDE DEF Moves
<1>8. ASSUME Told(q), ~Has(p, Wakeup) PROVE Told(r)
  <2> SUFFICES ASSUME NEW j \in 1..Len(r), r[j] = Wakeup
               PROVE  \E k \in 1..Len(r) : k > j /\ r[k] \in WriteEvents
    BY <1>1 DEF Told
  <2>1. j + d \in 1..Len(q) /\ q[j + d] = Wakeup
    BY <1>8, <1>1, <1>2 DEF Has
  <2>2. PICK k \in 1..Len(q) : k > j + d /\ q[k] \in WriteEvents
    BY <1>8, <1>1, <2>1 DEF Told
  <2>3. k - d \in 1..Len(r) /\ k - d > j /\ r[k - d] = q[k]
    BY <2>1, <2>2, <1>6
  <2> QED
    BY <2>2, <2>3
<1>9. ASSUME ~Has(p, CleanUp), CleansLast(q), Has(p, Wakeup) => ~Has(q, CleanUp) PROVE CleansLast(r)
  <2> SUFFICES ASSUME NEW i \in 1..Len(r), NEW j \in 1..Len(r), r[i] = CleanUp
               PROVE  (r[j] = CleanUp => j = i) /\ (r[j] = Wakeup => j < i)
    BY <1>1 DEF CleansLast
  <2>1. i + d \in 1..Len(q) /\ q[i + d] = CleanUp
    BY <1>9, <1>1, <1>2 DEF Has
  <2>2. ~Has(p, Wakeup)
    BY <2>1, <1>9, <1>1 DEF Has
  <2>3. r[j] \in {CleanUp, Wakeup} => j + d \in 1..Len(q) /\ q[j + d] = r[j]
    BY <2>2, <1>9, <1>1, <1>2 DEF Has
  <2>4. (r[j] = CleanUp => j + d = i + d) /\ (r[j] = Wakeup => j + d < i + d)
    BY <2>1, <2>3, <1>9, <1>1 DEF CleansLast
  <2> QED
    BY <2>4
<1>10. ASSUME ~Has(p, GapAborted), AbortsFirst(q) PROVE AbortsFirst(r)
  <2> SUFFICES ASSUME NEW i \in 1..Len(r), NEW j \in 1..Len(r), r[i] = GapAborted, r[j] = Wakeup
               PROVE  i < j
    BY <1>1 DEF AbortsFirst
  <2>1. i <= Len(q) - d /\ i + d \in 1..Len(q) /\ q[i + d] = GapAborted
    BY <1>10, <1>1, <1>2 DEF Has
  <2>2. CASE j > Len(q) - d
    BY <2>1, <2>2, <1>1
  <2>3. CASE j <= Len(q) - d
    <3>1. j + d \in 1..Len(q) /\ q[j + d] = Wakeup
      BY <2>3, <1>1, <1>2
    <3>2. i + d < j + d
      BY <2>1, <3>1, <1>10, <1>1 DEF AbortsFirst
    <3> QED
      BY <3>2
  <2> QED
    BY <2>2, <2>3, <1>1
<1> QED
  BY <1>3, <1>5, <1>7, <1>8, <1>9, <1>10

\* Handlers that the order is about.
Plain(p) == ~Has(p, Wakeup) /\ ~Has(p, CleanUp) /\ ~Has(p, GapAborted)

LEMMA OrderKeeps ==
  ASSUME Ordered, ready \in Seq(Handler), ready' \in Seq(Handler), NEW d \in {0, 1}, d <= Len(ready),
         NEW p \in Seq(Handler), Moves(ready, d, p, ready'), Plain(p),
         commandQueue' = <<>> /\ ~writeInProgress' => Told(ready) \/ Told(ready'),
         Has(ready, CleanUp) => state' = "CANCEL_COMMAND_REQUEST",
         Has(ready, GapAborted) => state' = "IDLE" /\ ~writeDelayActive'
  PROVE  Ordered'
<1>1. /\ Told(ready) => Told(ready')
      /\ CleansLast(ready') /\ AbortsFirst(ready')
      /\ \A x \in {CleanUp, GapAborted} : Has(ready', x) => Has(ready, x)
  BY MovesOrder DEF Ordered, Plain
<1> QED
  BY <1>1 DEF Ordered

LEMMA UnderwayKeeps ==
  ASSUME Underway(ready, timers), UNCHANGED serial, "gap" \in timers => "gap" \in timers',
         \A x \in WriteEnds \cup {TimerFired("gap")} : Has(ready, x) => Has(ready', x)
  PROVE  Underway(ready, timers)'
BY DEF Underway, HasOf, serial

LEMMA TimingKeeps ==
  ASSUME Sending(ready, timers), state' = state, UNCHANGED serial, "write" \in timers => "write" \in timers',
         \A x \in WriteEnds \cup {TimerFired("write")} : Has(ready, x) => Has(ready', x),
         state = "SENDING_REQUEST_ASYNC" => \A x \in WriteEvents : Has(ready, x) => Has(ready', x)
  PROVE  Sending(ready, timers)'
BY DEF Sending, HasOf, serial

\* A handler that has nothing to do with the writing.
LEMMA QuietKeeps ==
  ASSUME TypeOK, SendInv, NEW h, NEW p \in Seq(Handler), Runs(h, p), Plain(p),
         h \notin WriteEnds \cup {TimerFired("write"), TimerFired("gap")},
         state = "SENDING_REQUEST_ASYNC" => h \notin WriteEvents,
         commandQueue' = <<>> => commandQueue = <<>>, UNCHANGED <<serial, state>>,
         timers \cap {"write", "gap"} \subseteq timers'
  PROVE  SendInv'
<1>1. /\ ready' \in Seq(Handler) /\ Moves(ready, 1, p, ready') /\ ready # <<>> /\ ready[1] = h
      /\ IsOpen /\ ready \in Seq(Handler) /\ Len(ready) >= 1
  BY RunsMoves DEF TypeOK
<1>2. \A x : Has(ready, x) /\ x # h => Has(ready', x)
  BY <1>1, MovesOrder
<1>3. Ordered'
  <2>1. Ordered /\ (commandQueue' = <<>> /\ ~writeInProgress' => Told(ready))
    BY <1>1 DEF SendInv, Ordered, serial
  <2> QED
    BY <1>1, <2>1, OrderKeeps DEF Ordered, serial
<1>4. Underway(ready, timers)' /\ Sending(ready, timers)'
  BY <1>1, <1>2, UnderwayKeeps, TimingKeeps DEF SendInv
<1> QED
  BY <1>3, <1>4 DEF SendInv

\* A handler that ends the sending or a wait.
LEMMA LeavesKeeps ==
  ASSUME TypeOK, SendInv, NEW h, NEW p \in Seq(Handler), Runs(h, p), Plain(p),
         h \notin WriteEnds \cup {TimerFired("gap")},
         state \notin {"IDLE", "CANCEL_COMMAND_REQUEST"}, state' # "SENDING_REQUEST_ASYNC",
         UNCHANGED <<serial, commandQueue>>, "gap" \in timers => "gap" \in timers'
  PROVE  SendInv'
<1>1. /\ ready' \in Seq(Handler) /\ Moves(ready, 1, p, ready') /\ ready # <<>> /\ ready[1] = h
      /\ IsOpen /\ ready \in Seq(Handler) /\ Len(ready) >= 1
  BY RunsMoves DEF TypeOK
<1>2. \A x : Has(ready, x) /\ x # h => Has(ready', x)
  BY <1>1, MovesOrder
<1>3. Ordered'
  <2>1. Ordered /\ (commandQueue' = <<>> /\ ~writeInProgress' => Told(ready))
        /\ ~Has(ready, CleanUp) /\ ~Has(ready, GapAborted)
    BY <1>1 DEF SendInv, Ordered, serial
  <2> QED
    BY <1>1, <2>1, OrderKeeps
<1>4. Underway(ready, timers)'
  BY <1>1, <1>2, UnderwayKeeps DEF SendInv
<1> QED
  BY <1>3, <1>4 DEF SendInv, Sending

\* What short sequences hold.
LEMMA HasIn ==
  /\ \A x : ~Has(<<>>, x)
  /\ \A x, y : Has(<<x>>, y) => y = x
  /\ \A x, y, z : Has(<<x, y>>, z) => z = x \/ z = y
  /\ \A p, q \in Seq(Handler) : \A x : Has(p \o q, x) => Has(p, x) \/ Has(q, x)
<1>1. \A x : ~Has(<<>>, x)
  BY DEF Has
<1>2. ASSUME NEW x, NEW y, Has(<<x>>, y) PROVE y = x
  <2>1. DOMAIN <<x>> = 1..1
    OBVIOUS
  <2> QED
    BY <1>2, <2>1 DEF Has
<1>3. ASSUME NEW x, NEW y, NEW z, Has(<<x, y>>, z) PROVE z = x \/ z = y
  <2>1. DOMAIN <<x, y>> = 1..2
    OBVIOUS
  <2> QED
    BY <1>3, <2>1 DEF Has
<1>4. ASSUME NEW p \in Seq(Handler), NEW q \in Seq(Handler), NEW x, Has(p \o q, x) PROVE Has(p, x) \/ Has(q, x)
  <2> DEFINE r == p \o q
  <2>1. /\ r \in Seq(Handler) /\ Len(r) = Len(p) + Len(q) /\ Len(p) \in Nat /\ Len(q) \in Nat
        /\ \A i \in 1..Len(p) : r[i] = p[i]
        /\ \A i \in 1..Len(q) : r[Len(p) + i] = q[i]
    OBVIOUS
  <2>2. DOMAIN p = 1..Len(p) /\ DOMAIN q = 1..Len(q) /\ DOMAIN r = 1..Len(r)
    BY <2>1
  <2> HIDE DEF r
  <2>3. PICK i \in 1..Len(r) : r[i] = x
    BY <1>4, <2>2 DEF Has, r
  <2>4. CASE i <= Len(p)
    BY <2>1, <2>2, <2>3, <2>4 DEF Has
  <2>5. CASE i > Len(p)
    <3>1. i - Len(p) \in 1..Len(q) /\ Len(p) + (i - Len(p)) = i
      BY <2>1, <2>5
    <3> QED
      BY <2>1, <2>2, <2>3, <3>1 DEF Has
  <2> QED
    BY <2>1, <2>4, <2>5
<1> QED
  BY <1>1, <1>2, <1>3, <1>4

LEMMA PlainPosts ==
  /\ Plain(<<>>)
  /\ \A x : x \notin {Wakeup, CleanUp, GapAborted} => Plain(<<x>>)
  /\ \A x, y : x \notin {Wakeup, CleanUp, GapAborted} /\ y \notin {Wakeup, CleanUp, GapAborted} => Plain(<<x, y>>)
  /\ \A p, q \in Seq(Handler) : Plain(p) /\ Plain(q) => Plain(p \o q)
BY HasIn DEF Plain

\* The kinds of handlers, apart.
LEMMA Kinds ==
  /\ \A e : Event(e) \in {Wakeup, CleanUp, GapAborted} => e \in {"COMMAND_ENQUEUED", "CANCEL_CLEAN_UP"}
  /\ \A e : Event(e) \in WriteEvents <=> e \in {"WRITE_COMPLETED", "WRITE_FAILED", "WRITE_TIMEOUT"}
  /\ \A e, t : Event(e) \notin WriteEnds /\ Event(e) # TimerFired(t)
  /\ \A h : h.h \notin {"event", "gapAborted"} => h \notin {Wakeup, CleanUp, GapAborted} \cup WriteEvents
  /\ \A h : h.h \notin {"writeEnd", "timer"} => h \notin WriteEnds \cup {TimerFired("write"), TimerFired("gap")}
  /\ Wakeup # CleanUp /\ Wakeup # GapAborted /\ CleanUp # GapAborted
  /\ \A h \in WriteEnds : h.h = "writeEnd"
<1>1. /\ Wakeup.h = "event" /\ Wakeup.e = "COMMAND_ENQUEUED" /\ CleanUp.h = "event" /\ CleanUp.e = "CANCEL_CLEAN_UP"
      /\ GapAborted.h = "gapAborted" /\ \A h \in WriteEnds : h.h = "writeEnd"
      /\ TimerFired("write").h = "timer" /\ TimerFired("gap").h = "timer"
      /\ \A h \in WriteEvents : h.h = "event" /\ h.e \in {"WRITE_COMPLETED", "WRITE_FAILED", "WRITE_TIMEOUT"}
  <2>1. Wakeup.h = "event" /\ Wakeup.e = "COMMAND_ENQUEUED"
    BY Fields DEF Wakeup
  <2>2. CleanUp.h = "event" /\ CleanUp.e = "CANCEL_CLEAN_UP"
    BY Fields DEF CleanUp
  <2>3. GapAborted.h = "gapAborted" /\ TimerFired("write").h = "timer" /\ TimerFired("gap").h = "timer"
    BY Fields
  <2>4. \A h \in WriteEnds : h.h = "writeEnd"
    BY Fields DEF WriteEnds
  <2>5. \A h \in WriteEvents : h.h = "event" /\ h.e \in {"WRITE_COMPLETED", "WRITE_FAILED", "WRITE_TIMEOUT"}
    BY Fields DEF WriteEvents
  <2> QED
    BY <2>1, <2>2, <2>3, <2>4, <2>5
<1>2. ASSUME NEW e PROVE /\ Event(e) \in {Wakeup, CleanUp, GapAborted} => e \in {"COMMAND_ENQUEUED", "CANCEL_CLEAN_UP"}
                         /\ Event(e) \in WriteEvents => e \in {"WRITE_COMPLETED", "WRITE_FAILED", "WRITE_TIMEOUT"}
                         /\ Event(e) \notin WriteEnds /\ \A t : Event(e) # TimerFired(t)
  <2>1. Event(e).h = "event" /\ Event(e).e = e /\ \A t : TimerFired(t).h = "timer"
    BY Fields
  <2> QED
    BY <1>1, <2>1
<1>3. \A e \in {"WRITE_COMPLETED", "WRITE_FAILED", "WRITE_TIMEOUT"} : Event(e) \in WriteEvents
  BY DEF WriteEvents
<1>4. ASSUME NEW h, h.h \notin {"event", "gapAborted"} PROVE h \notin {Wakeup, CleanUp, GapAborted} \cup WriteEvents
  BY <1>1, <1>4
<1>5. ASSUME NEW h, h.h \notin {"writeEnd", "timer"} PROVE h \notin WriteEnds \cup {TimerFired("write"), TimerFired("gap")}
  BY <1>1, <1>5
<1>6. Wakeup # CleanUp /\ Wakeup # GapAborted /\ CleanUp # GapAborted
  BY <1>1
<1> QED
  BY <1>1, <1>2, <1>3, <1>4, <1>5, <1>6

LEMMA LookKeeps ==
  ASSUME TypeOK, SendInv, NEW h, h.h \in {"enqueue", "check"}, Runs(h, CheckPosts(state, commandQueue')),
         commandQueue' = <<>> => commandQueue = <<>>, UNCHANGED <<serial, state, timers>>
  PROVE  SendInv'
<1> DEFINE p == CheckPosts(state, commandQueue')
<1>1. p \in Seq(Handler)
  BY PostTypes
<1>2. h \notin WriteEnds \cup {TimerFired("write"), TimerFired("gap")} /\ h \notin WriteEvents
  BY Kinds
<1>3. CASE ~(state = "IDLE" /\ commandQueue' # <<>>)
  <2>1. p = <<>> /\ Plain(p)
    BY <1>3, PlainPosts DEF CheckPosts
  <2> HIDE DEF p
  <2>2. Runs(h, p)
    BY DEF p
  <2> QED
    BY <1>1, <1>2, <2>1, <2>2, QuietKeeps
<1>4. CASE state = "IDLE" /\ commandQueue' # <<>>
  <2>1. p = <<Wakeup>>
    BY <1>4 DEF CheckPosts, Wakeup
  <2> HIDE DEF p
  <2>2. /\ ready' \in Seq(Handler) /\ Moves(ready, 1, p, ready') /\ ready # <<>> /\ ready[1] = h
        /\ IsOpen /\ ready \in Seq(Handler) /\ Len(ready) >= 1
    BY <1>1, RunsMoves DEF TypeOK, p
  <2>3. Ordered /\ ~Has(p, CleanUp) /\ ~Has(p, GapAborted) /\ ~Has(ready, CleanUp)
    BY <1>4, <2>1, <2>2, HasIn, Kinds DEF SendInv, Ordered
  <2>4. /\ CleansLast(ready') /\ AbortsFirst(ready') /\ ~Has(ready', CleanUp)
        /\ Has(ready', GapAborted) => Has(ready, GapAborted)
        /\ \A x : Has(ready, x) /\ x # h => Has(ready', x)
    BY <1>1, <2>2, <2>3, MovesOrder DEF Ordered
  <2>5. Ordered'
    BY <1>4, <2>3, <2>4 DEF Ordered, serial
  <2>6. Underway(ready, timers)' /\ Sending(ready, timers)'
    BY <1>2, <1>4, <2>2, <2>4, UnderwayKeeps DEF SendInv, Sending
  <2> QED
    BY <2>5, <2>6 DEF SendInv
<1> QED
  BY <1>3, <1>4

\* The frame of a command is a frame.
LEMMA FrameIsOne == NoFrame \notin Frame
BY UptAssumption DEF NoFrame, Frame, Cmds

\* A wake-up that starts to send finds no clean-up and no aborted gap before it.
LEMMA StartsOrder ==
  ASSUME TypeOK, SendInv, state = "IDLE", Runs(Wakeup, <<>>),
         commandQueue' = <<>> /\ ~writeInProgress' => commandQueue = <<>> /\ ~writeInProgress
  PROVE  /\ Ordered' /\ Ordered /\ IsOpen /\ \A x : Has(ready, x) /\ x # Wakeup => Has(ready', x)
         /\ commandQueue = <<>> /\ ~writeInProgress => HasOf(ready', WriteEvents)
<1>1. /\ ready' \in Seq(Handler) /\ Moves(ready, 1, <<>>, ready') /\ ready # <<>> /\ ready[1] = Wakeup
      /\ IsOpen /\ ready \in Seq(Handler) /\ Len(ready) >= 1 /\ DOMAIN ready = 1..Len(ready)
  <2>1. /\ ready' \in Seq(Handler) /\ Moves(ready, 1, <<>>, ready') /\ ready # <<>> /\ ready[1] = Wakeup
        /\ IsOpen /\ ready \in Seq(Handler)
    BY EmptyPosts, RunsMoves DEF TypeOK
  <2> QED
    BY <2>1
<1>2. Ordered
  BY <1>1 DEF SendInv
<1>3. ~Has(ready, CleanUp) /\ ~Has(ready, GapAborted)
  <2>1. ~Has(ready, CleanUp)
    BY <1>2 DEF Ordered
  <2>2. ASSUME NEW i \in 1..Len(ready), ready[i] = GapAborted PROVE FALSE
    BY <1>1, <1>2, <2>2 DEF Ordered, AbortsFirst
  <2> QED
    BY <1>1, <2>1, <2>2 DEF Has
<1>4. Ordered'
  BY <1>1, <1>2, <1>3, EmptyPosts, PlainPosts, OrderKeeps DEF Ordered
<1>5. \A x : Has(ready, x) /\ x # Wakeup => Has(ready', x)
  BY <1>1, EmptyPosts, MovesOrder
<1>6. ASSUME commandQueue = <<>>, ~writeInProgress PROVE HasOf(ready', WriteEvents)
  <2>1. PICK k \in 1..Len(ready) : ready[k] \in WriteEvents
    BY <1>1, <1>2, <1>6 DEF Ordered, Told
  <2>2. Has(ready, ready[k]) /\ ready[k] # Wakeup
    BY <1>1, <2>1, Kinds DEF Has, Wakeup
  <2> QED
    BY <1>5, <2>1, <2>2 DEF HasOf
<1> QED
  BY <1>1, <1>2, <1>4, <1>5, <1>6

LEMMA SendNextKeeps == ASSUME TypeOK, SendInv, SendNextCommand PROVE SendInv'
<1>1. /\ state = "IDLE" /\ Runs(Wakeup, <<>>) /\ writeInProgress' /\ "write" \in timers'
      /\ state' = "SENDING_REQUEST_ASYNC" /\ ("gap" \in timers => "gap" \in timers')
  <2>1. CASE writeInProgress
    BY <2>1 DEF SendNextCommand, Enters, Wakeup
  <2>2. CASE ~writeInProgress
    BY <2>2 DEF SendNextCommand, Enters, Wakeup, StartWrite
  <2> QED
    BY <2>1, <2>2
<1>2. Ordered' /\ IsOpen /\ \A x : Has(ready, x) /\ x # Wakeup => Has(ready', x)
  BY <1>1, StartsOrder
<1>3. current' \in Frame /\ writeQueue \in Seq(Frame) /\ writeQueue' = Append(writeQueue, current')
  <2>1. Head(commandQueue) \in Cmds
    BY DEF SendNextCommand, TypeOK
  <2> QED
    BY <2>1, FrameTypes DEF SendNextCommand, TypeOK
<1>4. writeQueue' # <<>> /\ Head(writeQueue') \in Frame
  BY <1>3
<1>5. Underway(ready, timers)'
  <2>1. CASE writeInProgress
    <3>1. \A x \in WriteEnds \cup {TimerFired("gap")} : Has(ready, x) => Has(ready', x)
      BY <1>2, Kinds DEF Wakeup
    <3>2. UNCHANGED <<writing, writeDelayActive>>
      BY <2>1 DEF SendNextCommand
    <3>3. \/ writing # NoFrame
          \/ HasOf(ready, WriteEnds)
          \/ writeDelayActive /\ ("gap" \in timers \/ Has(ready, TimerFired("gap")))
      BY <1>2, <2>1 DEF SendInv, Underway
    <3>4. HasOf(ready, WriteEnds) => HasOf(ready', WriteEnds)
      BY <3>1 DEF HasOf
    <3>5. "gap" \in timers \/ Has(ready, TimerFired("gap")) => "gap" \in timers' \/ Has(ready', TimerFired("gap"))
      BY <1>1, <3>1
    <3> QED
      BY <1>4, <3>2, <3>3, <3>4, <3>5 DEF Underway
  <2>2. CASE ~writeInProgress
    <3>1. writing' = Head(writeQueue') \/ (writeDelayActive' /\ "gap" \in timers')
      BY <2>2 DEF SendNextCommand, StartWrite
    <3> QED
      BY <1>4, <3>1, FrameIsOne DEF Underway
  <2> QED
    BY <2>1, <2>2
<1> QED
  BY <1>1, <1>2, <1>5 DEF SendInv, Sending

LEMMA SendNothingKeeps == ASSUME TypeOK, SendInv, SendNothing PROVE SendInv'
<1>1. /\ state = "IDLE" /\ Runs(Wakeup, <<>>) /\ timers' = timers \cup {"write"} /\ commandQueue = <<>>
      /\ UNCHANGED <<serial, commandQueue>>
  BY DEF SendNothing, Wakeup
<1>2. /\ Ordered' /\ IsOpen /\ \A x : Has(ready, x) /\ x # Wakeup => Has(ready', x)
      /\ ~writeInProgress => HasOf(ready', WriteEvents)
  BY <1>1, StartsOrder DEF serial
<1>3. \A x \in WriteEnds \cup {TimerFired("gap")} : Has(ready, x) => Has(ready', x)
  BY <1>2, Kinds DEF Wakeup
<1>4. Underway(ready, timers)'
  BY <1>1, <1>2, <1>3, UnderwayKeeps DEF SendInv
<1>5. Sending(ready, timers)'
  BY <1>1, <1>2 DEF Sending, serial
<1> QED
  BY <1>2, <1>4, <1>5 DEF SendInv

\* The clean-up of a cancel finds no wake-up, and withdraws a write that waits for its gap.
LEMMA CleanUpKeeps == ASSUME TypeOK, SendInv, CancelCleanUp PROVE SendInv'
<1> DEFINE gap == IF writeDelayActive /\ "gap" \in timers THEN <<GapAborted>> ELSE <<>>
           one == <<Event("CANCEL_COMMAND")>>
           two == IdlePosts("IDLE")
           p   == gap \o one \o two
<1>1. gap \in Seq(Handler) /\ one \in Seq(Handler) /\ two \in Seq(Handler)
  BY EventPosts, PostTypes, HandlerTypes DEF Events
<1>2. /\ \A x : Has(gap, x) => x = GapAborted
      /\ \A x : Has(one, x) => x = Event("CANCEL_COMMAND")
      /\ \A x : Has(two, x) => x = CheckQueue
  BY HasIn DEF IdlePosts
<1>3. Runs(CleanUp, p)
  BY DEF CancelCleanUp, CleanUp
<1> HIDE DEF gap, one, two
<1>4. gap \o one \in Seq(Handler)
  BY <1>1
<1>5. p \in Seq(Handler)
  BY <1>1, <1>4
<1>6. ~Has(p, Wakeup) /\ ~Has(p, CleanUp) /\ \A x \in WriteEnds \cup {TimerFired("gap")} : x # CleanUp
  <2>1. \A x : Has(p, x) => x \in {GapAborted, Event("CANCEL_COMMAND"), CheckQueue}
    BY <1>1, <1>2, <1>4, HasIn
  <2>2. Event("CANCEL_COMMAND") \notin {Wakeup, CleanUp} /\ CheckQueue \notin {Wakeup, CleanUp}
        /\ CleanUp \notin WriteEnds /\ CleanUp # TimerFired("gap")
    BY Kinds, Fields DEF CleanUp
  <2> QED
    BY <2>1, <2>2, Kinds
<1> HIDE DEF p
<1>7. /\ ready' \in Seq(Handler) /\ Moves(ready, 1, p, ready') /\ ready # <<>> /\ ready[1] = CleanUp
      /\ IsOpen /\ ready \in Seq(Handler)
  BY <1>3, <1>5, RunsMoves DEF TypeOK
<1>8. /\ DOMAIN ready = 1..Len(ready) /\ DOMAIN ready' = 1..Len(ready') /\ Len(ready) \in Nat /\ Len(ready) >= 1
      /\ Len(p) \in Nat /\ DOMAIN p = 1..Len(p) /\ Len(ready') \in Nat
  BY <1>5, <1>7
<1>9. \A i \in 2..Len(ready) : ready[i] # Wakeup /\ ready[i] # CleanUp
  <2>1. CleansLast(ready)
    BY <1>7 DEF SendInv, Ordered
  <2> QED
    BY <1>7, <1>8, <2>1 DEF CleansLast
<1>10. \A i \in 1..Len(ready') : ready'[i] # Wakeup /\ ready'[i] # CleanUp
  <2> SUFFICES ASSUME NEW i \in 1..Len(ready') PROVE ready'[i] # Wakeup /\ ready'[i] # CleanUp
    OBVIOUS
  <2>1. CASE i <= Len(ready) - 1
    <3>1. ready'[i] = ready[i + 1] /\ i + 1 \in 2..Len(ready)
      BY <1>7, <1>8, <2>1 DEF Moves
    <3> QED
      BY <1>9, <3>1
  <2>2. CASE i > Len(ready) - 1
    <3>1. i - (Len(ready) - 1) \in 1..Len(p) /\ Len(ready) - 1 + (i - (Len(ready) - 1)) = i
      BY <1>7, <1>8, <2>2 DEF Moves
    <3>2. ready'[i] = p[i - (Len(ready) - 1)]
      BY <1>7, <3>1 DEF Moves
    <3> QED
      BY <1>6, <1>8, <3>1, <3>2 DEF Has
  <2> QED
    BY <1>8, <2>1, <2>2
<1>11. state' = "IDLE" /\ ~writeDelayActive'
  BY DEF CancelCleanUp, Enters
<1>12. Ordered'
  BY <1>8, <1>10, <1>11 DEF Ordered, Told, CleansLast, AbortsFirst, Has
<1>13. \A x : Has(ready, x) /\ x # CleanUp => Has(ready', x)
  BY <1>5, <1>7, <1>8, MovesOrder
<1>14. Underway(ready, timers)'
  <2>1. CASE writeDelayActive
    BY <2>1 DEF CancelCleanUp, Underway
  <2>2. CASE ~writeDelayActive
    <3>1. UNCHANGED serial /\ ("gap" \in timers => "gap" \in timers')
      BY <2>2, <1>11 DEF CancelCleanUp, serial
    <3> QED
      BY <1>6, <1>7, <1>13, <3>1, UnderwayKeeps DEF SendInv
  <2> QED
    BY <2>1, <2>2
<1> QED
  BY <1>11, <1>12, <1>14 DEF SendInv, Sending

LEMMA CancelBusyKeeps == ASSUME TypeOK, SendInv, CancelWhenBusy PROVE SendInv'
<1> DEFINE h == Event("CANCEL_COMMAND")
           p == <<CleanUp>>
<1>1. p \in Seq(Handler) /\ Runs(h, p)
  BY EventPosts DEF CancelWhenBusy, CleanUp, Events
<1>2. h \notin {Wakeup, CleanUp, GapAborted} /\ h \notin WriteEnds \cup {TimerFired("gap")}
  BY Kinds
<1>3. \A x : Has(p, x) => x = CleanUp
  BY HasIn
<1> HIDE DEF h
<1>4. p = <<CleanUp>> /\ Len(p) = 1 /\ p[1] = CleanUp
  OBVIOUS
<1> HIDE DEF p
<1>5. /\ ready' \in Seq(Handler) /\ Moves(ready, 1, p, ready') /\ ready # <<>> /\ ready[1] = h
      /\ IsOpen /\ ready \in Seq(Handler) /\ Len(ready) >= 1
  BY <1>1, RunsMoves DEF TypeOK
<1>6. Ordered /\ ~Has(ready, CleanUp) /\ ~Has(ready, GapAborted)
  BY <1>5 DEF SendInv, Ordered, CancelWhenBusy
<1>7. ~Has(p, Wakeup) /\ ~Has(p, GapAborted)
  BY <1>3, Kinds
<1>8. /\ \A x : Has(ready, x) /\ x # h => Has(ready', x)
      /\ Told(ready) => Told(ready')
      /\ AbortsFirst(ready') /\ ~Has(ready', GapAborted)
  BY <1>1, <1>3, <1>5, <1>6, <1>7, MovesOrder, Kinds DEF Ordered
<1>9. CleansLast(ready')
  <2>1. /\ DOMAIN ready = 1..Len(ready) /\ DOMAIN ready' = 1..Len(ready') /\ Len(ready') = Len(ready)
        /\ Len(ready) \in Nat
    BY <1>4, <1>5 DEF Moves
  <2>2. \A i \in 1..(Len(ready) - 1) : ready'[i] = ready[i + 1] /\ i + 1 \in 1..Len(ready)
    BY <1>5, <2>1 DEF Moves
  <2>3. \A i \in 1..Len(ready') : ready'[i] = CleanUp => i = Len(ready')
    <3> SUFFICES ASSUME NEW i \in 1..Len(ready), ready'[i] = CleanUp, i # Len(ready) PROVE FALSE
      BY <2>1
    <3>1. i \in 1..(Len(ready) - 1)
      <4>1. Len(ready) \in Nat
        BY <2>1
      <4> QED
        BY <4>1
    <3>2. i + 1 \in DOMAIN ready /\ ready[i + 1] = CleanUp
      <4>1. ready'[i] = ready[i + 1] /\ i + 1 \in 1..Len(ready)
        BY <2>2, <3>1
      <4> QED
        BY <2>1, <4>1
    <3> QED
      BY <1>6, <3>2 DEF Has
  <2>4. ready'[Len(ready')] = CleanUp
    <3>1. 1 \in 1..Len(p) /\ Len(ready) - 1 + 1 = Len(ready')
      BY <1>4, <2>1
    <3> QED
      BY <1>4, <1>5, <3>1 DEF Moves
  <2>5. Wakeup # CleanUp
    BY Kinds
  <2>6. ASSUME NEW j \in 1..Len(ready'), ready'[j] = Wakeup PROVE j < Len(ready')
    BY <2>1, <2>4, <2>5, <2>6
  <2> QED
    BY <2>1, <2>3, <2>6 DEF CleansLast
<1>10. state' = "CANCEL_COMMAND_REQUEST" /\ UNCHANGED <<serial, commandQueue, timers>>
  BY DEF CancelWhenBusy, Enters
<1>11. Ordered'
  BY <1>6, <1>8, <1>9, <1>10 DEF Ordered, serial
<1>12. Underway(ready, timers)'
  BY <1>2, <1>5, <1>8, <1>10, UnderwayKeeps DEF SendInv
<1> QED
  BY <1>10, <1>11, <1>12 DEF SendInv, Sending

\* A write that ended posts the event after whatever wake-ups there are.
LEMMA WriteEndKeeps == ASSUME TypeOK, SendInv, NEW ok \in BOOLEAN, RunWriteEnd(ok) PROVE SendInv'
<1> DEFINE e == IF writeTimedOut THEN "WRITE_TIMEOUT" ELSE IF ok THEN "WRITE_COMPLETED" ELSE "WRITE_FAILED"
           p == <<Event(e)>>
<1>1. p \in Seq(Handler) /\ Event(e) \in WriteEvents /\ Runs(WriteEnd(ok), p)
  BY EventPosts, Kinds DEF RunWriteEnd, Events
<1>2. Plain(p)
  BY PlainPosts, Kinds
<1>3. Len(p) = 1 /\ p[1] \in WriteEvents
  BY <1>1
<1> HIDE DEF p
<1>4. /\ ready' \in Seq(Handler) /\ Moves(ready, 1, p, ready') /\ ready # <<>>
      /\ IsOpen /\ ready \in Seq(Handler)
  BY <1>1, RunsMoves DEF TypeOK
<1>5. /\ Len(ready) \in Nat /\ Len(ready) >= 1 /\ Len(ready') = Len(ready)
      /\ DOMAIN ready = 1..Len(ready) /\ DOMAIN ready' = 1..Len(ready')
  BY <1>3, <1>4 DEF Moves
<1>6. ready'[Len(ready')] \in WriteEvents
  <2>1. 1 \in 1..Len(p) /\ Len(ready) - 1 + 1 = Len(ready')
    BY <1>3, <1>5
  <2> QED
    BY <1>3, <1>4, <2>1 DEF Moves
<1>7. ready'[Len(ready')] # Wakeup
  BY <1>6, Kinds DEF Wakeup
<1>8. Told(ready')
  <2> SUFFICES ASSUME NEW j \in 1..Len(ready'), ready'[j] = Wakeup
               PROVE  \E k \in 1..Len(ready') : k > j /\ ready'[k] \in WriteEvents
    BY <1>5 DEF Told
  <2>1. j # Len(ready')
    BY <1>7
  <2>2. Len(ready') \in 1..Len(ready') /\ Len(ready') > j
    <3>1. Len(ready') \in Nat
      BY <1>5
    <3> QED
      BY <2>1, <3>1
  <2> QED
    BY <1>6, <2>2
<1>9. Ordered
  BY <1>4 DEF SendInv
<1>10. UNCHANGED <<state, commandQueue, writeDelayActive>> /\ ~writeInProgress'
  BY DEF RunWriteEnd
<1>11. Ordered'
  BY <1>1, <1>2, <1>4, <1>5, <1>8, <1>9, <1>10, OrderKeeps DEF Ordered
<1>12. HasOf(ready', WriteEvents)
  BY <1>5, <1>6 DEF HasOf, Has
<1> QED
  BY <1>10, <1>11, <1>12 DEF SendInv, Underway, Sending

LEMMA WriteTimerKeeps == ASSUME TypeOK, SendInv, RunWriteTimer PROVE SendInv'
<1> DEFINE p == IF writeInProgress /\ writing # NoFrame THEN <<WriteEnd(FALSE)>> ELSE <<>>
<1>1. p \in Seq(Handler) /\ Runs(TimerFired("write"), p)
  BY HandlerTypes, Single, EmptyPosts DEF RunWriteTimer
<1>2. Plain(p)
  <2>1. WriteEnd(FALSE) \notin {Wakeup, CleanUp, GapAborted}
    BY Fields, Kinds
  <2> QED
    BY <2>1, PlainPosts
<1>3. writeInProgress /\ writing # NoFrame => Has(p, WriteEnd(FALSE))
  BY Posted
<1> HIDE DEF p
<1>4. /\ ready' \in Seq(Handler) /\ Moves(ready, 1, p, ready') /\ ready # <<>> /\ ready[1] = TimerFired("write")
      /\ IsOpen /\ ready \in Seq(Handler)
  BY <1>1, RunsMoves DEF TypeOK
<1>5. Len(ready) \in Nat /\ Len(ready) >= 1
  BY <1>4
<1>6. /\ \A x : Has(ready, x) /\ x # TimerFired("write") => Has(ready', x)
      /\ \A x : Has(p, x) => Has(ready', x)
  BY <1>1, <1>4, <1>5, MovesOrder
<1>7. UNCHANGED <<state, commandQueue, timers, writeDelayActive, writeInProgress, writeQueue>>
      /\ (~writeInProgress => writing' = writing)
  BY DEF RunWriteTimer
<1>8. Ordered /\ Underway(ready, timers) /\ Sending(ready, timers)
  BY <1>4 DEF SendInv
<1>9. Ordered'
  BY <1>1, <1>2, <1>4, <1>5, <1>7, <1>8, OrderKeeps DEF Ordered
<1>10. /\ \A S \in {WriteEnds, WriteEvents} : HasOf(ready, S) => HasOf(ready', S)
       /\ Has(ready, TimerFired("gap")) => Has(ready', TimerFired("gap"))
       /\ writeInProgress /\ writing # NoFrame => HasOf(ready', WriteEnds)
  <2>1. TimerFired("gap") # TimerFired("write") /\ TimerFired("write") \notin WriteEnds \cup WriteEvents
    BY Kinds, Fields
  <2>2. WriteEnd(FALSE) \in WriteEnds
    BY DEF WriteEnds
  <2> QED
    BY <1>3, <1>6, <2>1, <2>2 DEF HasOf
<1>11. Underway(ready, timers)'
  BY <1>7, <1>8, <1>10 DEF Underway
<1>12. Sending(ready, timers)'
  BY <1>7, <1>8, <1>10 DEF Sending
<1> QED
  BY <1>9, <1>11, <1>12 DEF SendInv

LEMMA GapTimerKeeps == ASSUME TypeOK, SendInv, RunGapTimer PROVE SendInv'
<1>1. /\ ready' \in Seq(Handler) /\ Moves(ready, 1, <<>>, ready') /\ ready # <<>> /\ ready[1] = TimerFired("gap")
      /\ IsOpen /\ ready \in Seq(Handler)
  BY EmptyPosts, RunsMoves DEF RunGapTimer, TypeOK
<1>2. Len(ready) \in Nat /\ Len(ready) >= 1
  BY <1>1
<1>3. \A x : Has(ready, x) /\ x # TimerFired("gap") => Has(ready', x)
  BY <1>1, <1>2, EmptyPosts, MovesOrder
<1>4. /\ UNCHANGED <<state, commandQueue, timers, writeQueue>> /\ ~writeDelayActive'
      /\ writeInProgress' = (writeQueue # <<>>)
      /\ writeQueue # <<>> => writing' = Head(writeQueue)
  BY DEF RunGapTimer
<1>5. Ordered /\ Underway(ready, timers) /\ Sending(ready, timers)
  BY <1>1 DEF SendInv
<1>6. writeInProgress => writeInProgress'
  BY <1>4, <1>5 DEF Underway
<1>7. writeInProgress' => writeQueue' # <<>> /\ writing' # NoFrame
  <2>1. writeQueue # <<>> => Head(writeQueue) \in Frame
    BY DEF TypeOK
  <2> QED
    BY <1>4, <2>1, FrameIsOne
<1>8. Ordered'
  BY <1>1, <1>2, <1>4, <1>5, <1>6, EmptyPosts, PlainPosts, OrderKeeps DEF Ordered
<1>9. /\ \A S \in {WriteEnds, WriteEvents} : HasOf(ready, S) => HasOf(ready', S)
      /\ Has(ready, TimerFired("write")) => Has(ready', TimerFired("write"))
  <2>1. TimerFired("gap") # TimerFired("write") /\ TimerFired("gap") \notin WriteEnds \cup WriteEvents
    BY Kinds, Fields
  <2> QED
    BY <1>3, <2>1 DEF HasOf
<1>10. Underway(ready, timers)'
  BY <1>7 DEF Underway
<1>11. Sending(ready, timers)'
  BY <1>4, <1>5, <1>6, <1>7, <1>9 DEF Sending
<1> QED
  BY <1>8, <1>10, <1>11 DEF SendInv

\* The gap of a withdrawn write ends while no other waits.
LEMMA GapAbortedKeeps == ASSUME TypeOK, SendInv, RunGapAborted PROVE SendInv'
<1>1. Runs(GapAborted, <<>>) /\ Has(ready, GapAborted) /\ IsOpen
  BY EmptyPosts, RunsMoves DEF RunGapAborted
<1>2. ~writeDelayActive /\ state = "IDLE"
  BY <1>1 DEF SendInv, Ordered
<1>3. UNCHANGED <<serial, commandQueue, state, timers>>
  BY <1>2 DEF RunGapAborted, serial, TypeOK
<1>4. GapAborted \notin WriteEnds \cup {TimerFired("write"), TimerFired("gap")} /\ Plain(<<>>)
  BY Kinds, Fields, PlainPosts
<1> QED
  BY <1>1, <1>2, <1>3, <1>4, EmptyPosts, QuietKeeps

\* What arrives from outside: a call, a reply, the end of a write, a timer.
LEMMA ArriveKeeps ==
  ASSUME TypeOK, SendInv, IsOpen, NEW h \in Handler, ready' = Append(ready, h), h \notin {Wakeup, CleanUp, GapAborted},
         UNCHANGED <<state, commandQueue, writeQueue, writeInProgress, writeDelayActive>>,
         writing' = writing \/ h \in WriteEnds,
         "gap" \in timers => "gap" \in timers' \/ h = TimerFired("gap"),
         "write" \in timers =>
           "write" \in timers' \/ (h = TimerFired("write") /\ ~writeDelayActive /\ writing' = writing)
  PROVE  SendInv'
<1> DEFINE p == <<h>>
<1>1. ready' \in Seq(Handler) /\ Moves(ready, 0, p, ready') /\ p \in Seq(Handler) /\ ready \in Seq(Handler)
  BY AppendMoves DEF TypeOK
<1>2. Plain(p) /\ Has(p, h)
  BY PlainPosts, Posted
<1> HIDE DEF p
<1>3. Len(ready) >= 0
  BY <1>1
<1>4. \A x : Has(ready, x) \/ x = h => Has(ready', x)
  <2>1. 0 \in {0, 1} /\ 0 <= Len(ready) /\ 0 # 1
    BY <1>3
  <2>2. /\ \A x : Has(p, x) => Has(ready', x)
        /\ \A x : Has(ready, x) /\ (0 = 1 => x # ready[1]) => Has(ready', x)
    BY <1>1, <2>1, MovesOrder
  <2> QED
    BY <1>2, <2>1, <2>2
<1>5. Ordered /\ Underway(ready, timers) /\ Sending(ready, timers)
  BY DEF SendInv
<1>6. Ordered'
  BY <1>1, <1>2, <1>3, <1>5, OrderKeeps DEF Ordered
<1>7. \A S : HasOf(ready, S) \/ h \in S => HasOf(ready', S)
  BY <1>4 DEF HasOf
<1>8. Underway(ready, timers)'
  BY <1>4, <1>5, <1>7 DEF Underway
<1>9. Sending(ready, timers)'
  <2>1. CASE state # "SENDING_REQUEST_ASYNC" \/ HasOf(ready', WriteEvents) \/ HasOf(ready, WriteEvents)
    BY <1>7, <2>1 DEF Sending
  <2>2. CASE state = "SENDING_REQUEST_ASYNC" /\ ~HasOf(ready, WriteEvents)
    <3>1. /\ writeInProgress
          /\ \/ HasOf(ready, WriteEnds)
             \/ "write" \in timers
             \/ writing # NoFrame /\ Has(ready, TimerFired("write"))
      BY <1>5, <2>2 DEF Sending
    <3>2. CASE HasOf(ready', WriteEnds)
      BY <3>1, <3>2 DEF Sending
    <3>3. CASE ~HasOf(ready', WriteEnds)
      <4>1. writing' = writing /\ ~HasOf(ready, WriteEnds)
        BY <1>7, <3>3
      <4>2. CASE "write" \in timers'
        BY <3>1, <4>2 DEF Sending
      <4>3. CASE "write" \in timers /\ "write" \notin timers'
        <5>1. h = TimerFired("write") /\ ~writeDelayActive
          BY <4>3
        <5>2. writing # NoFrame
          BY <1>5, <3>1, <4>1, <5>1 DEF Underway
        <5>3. Has(ready', TimerFired("write")) /\ writing' # NoFrame
          BY <1>4, <4>1, <5>1, <5>2
        <5> QED
          BY <3>1, <5>3 DEF Sending
      <4>4. CASE "write" \notin timers /\ "write" \notin timers'
        <5>1. Has(ready', TimerFired("write")) /\ writing' # NoFrame
          BY <1>4, <3>1, <4>1, <4>4
        <5> QED
          BY <3>1, <5>1 DEF Sending
      <4> QED
        BY <4>2, <4>3, <4>4
    <3> QED
      BY <3>2, <3>3
  <2> QED
    BY <2>1, <2>2
<1> QED
  BY <1>6, <1>8, <1>9 DEF SendInv

LEMMA OutsideSends == ASSUME TypeOK, SendInv, OutsideNext PROVE SendInv'
<1>1. ASSUME NEW cmd \in Requests, FnUptSend(cmd) PROVE SendInv'
  <2>1. Enqueue(cmd, FALSE) \in Handler /\ Enqueue(cmd, FALSE) \notin {Wakeup, CleanUp, GapAborted}
    BY HandlerTypes, Fields, Kinds DEF Cmds
  <2> QED
    BY <1>1, <2>1, ArriveKeeps DEF FnUptSend, Accepting, serial
<1>2. CASE FnUptSendCancel
  <2>1. Event("CANCEL_COMMAND") \in Handler /\ Event("CANCEL_COMMAND") \notin {Wakeup, CleanUp, GapAborted}
    BY HandlerTypes, Kinds DEF Events
  <2> QED
    BY <1>2, <2>1, ArriveKeeps DEF FnUptSendCancel, Accepting, serial
<1>3. CASE FnUptClose
  BY <1>3 DEF FnUptClose, SendInv, IsOpen
<1>4. CASE WriteDone \/ WriteError
  <2>1. PICK ok \in BOOLEAN : ready' = Append(ready, WriteEnd(ok))
    BY <1>4 DEF WriteDone, WriteError
  <2>2. WriteEnd(ok) \in Handler /\ WriteEnd(ok) \notin {Wakeup, CleanUp, GapAborted} /\ WriteEnd(ok) \in WriteEnds
    BY HandlerTypes, Fields, Kinds DEF WriteEnds
  <2> QED
    BY <1>4, <2>1, <2>2, ArriveKeeps DEF WriteDone, WriteError, Accepting
<1>5. ASSUME NEW t \in Timers, TimerExpires(t) PROVE SendInv'
  <2>1. TimerFired(t) \in Handler /\ TimerFired(t) \notin {Wakeup, CleanUp, GapAborted}
    BY HandlerTypes, Fields, Kinds
  <2>2. timers' = timers \ {t} /\ (t = "write" => ~writeDelayActive) /\ UNCHANGED serial
    BY <1>5 DEF TimerExpires
  <2> QED
    BY <1>5, <2>1, <2>2, ArriveKeeps DEF TimerExpires, Accepting, serial
<1>6. ASSUME NEW d \in terminal, NEW lost \in BOOLEAN, NEW st \in Status, TerminalAcks(d, lost, st) PROVE SendInv'
  <2> DEFINE h == ReadEnd(<<ReplyTo(d.frame, "ACK", st)>>)
  <2>1. d \in [frame : Frame, acked : BOOLEAN]
    BY DEF TypeOK
  <2>2. ReplyTo(d.frame, "ACK", st) \in Reply
    BY <2>1 DEF ReplyTo, Reply, Frame
  <2>3. h \in Handler /\ h \notin {Wakeup, CleanUp, GapAborted}
    BY <2>2, HandlerTypes, Fields, Kinds
  <2>4. ready' = ready \/ ready' = Append(ready, h)
    BY <1>6 DEF TerminalAcks
  <2>5. IsOpen /\ UNCHANGED <<phase, timers, state, commandQueue, serial>>
    BY <1>6 DEF TerminalAcks, Accepting
  <2> HIDE DEF h
  <2>6. CASE ready' = ready
    BY <2>5, <2>6 DEF SendInv, IsOpen, Ordered, Underway, Sending, serial
  <2>7. CASE ready' = Append(ready, h)
    BY <2>3, <2>5, <2>7, ArriveKeeps DEF serial
  <2> QED
    BY <2>4, <2>6, <2>7
<1>7. ASSUME NEW d \in terminal, NEW st \in Status \ {"INVALID"}, TerminalResponds(d, st) PROVE SendInv'
  <2> DEFINE ack == ReplyTo(d.frame, "ACK", "OK")
             rsp == ReplyTo(d.frame, "RSP", st)
  <2>1. d \in [frame : Frame, acked : BOOLEAN]
    BY DEF TypeOK
  <2>2. ack \in Reply /\ rsp \in Reply
    BY <2>1 DEF ReplyTo, Reply, Frame, Status
  <2>3. PICK h \in {ReadEnd(<<rsp>>), ReadEnd(<<ack, rsp>>)} : ready' = Append(ready, h)
    BY <1>7 DEF TerminalResponds
  <2> HIDE DEF ack, rsp
  <2>4. h \in Handler /\ h.h = "read"
    BY <2>2, <2>3, HandlerTypes, Fields
  <2>5. h \notin {Wakeup, CleanUp, GapAborted}
    BY <2>4, Kinds
  <2>6. IsOpen /\ UNCHANGED <<timers, state, commandQueue, serial>>
    BY <1>7 DEF TerminalResponds, Accepting
  <2> QED
    BY <2>3, <2>4, <2>5, <2>6, ArriveKeeps DEF serial
<1> QED
  BY <1>1, <1>2, <1>3, <1>4, <1>5, <1>6, <1>7 DEF OutsideNext

\* A reply posts its event and a command, neither of which is about the writing.
LEMMA ReplyPlain == ASSUME NEW r \in Reply PROVE Plain(ReplyPosts(r))
<1> DEFINE p == <<Event(ReplyEvent(r))>>
           q == AskPosts(r.status)
<1>1. p \in Seq(Handler) /\ q \in Seq(Handler)
  BY EventPosts, AskTypes DEF Events, ReplyEvent
<1>2. Plain(p)
  BY PlainPosts, Kinds DEF ReplyEvent
<1>3. Plain(q)
  <2>1. Enqueue(r.status, FALSE) \notin {Wakeup, CleanUp, GapAborted}
    BY Fields, Kinds
  <2> QED
    BY <2>1, PlainPosts DEF AskPosts
<1>4. ReplyPosts(r) = p \o q \/ ReplyPosts(r) = <<>>
  BY DEF ReplyPosts
<1> HIDE DEF p, q
<1> QED
  BY <1>1, <1>2, <1>3, <1>4, PlainPosts

LEMMA ReadSends ==
  ASSUME TypeOK, SendInv, ready # <<>>, Head(ready).h = "read", RunReadEnd(Head(ready).replies)
  PROVE  SendInv'
<1> DEFINE rs == Head(ready).replies
<1>1. rs \in {<<r>> : r \in Reply} \cup (Reply \X Reply)
  BY HeadTypes
<1>2. rs[1] \in Reply /\ (Len(rs) > 1 => rs[2] \in Reply)
  BY <1>1
<1>3. UNCHANGED <<serial, commandQueue, state>> /\ timers \cap {"write", "gap"} \subseteq timers'
  BY DEF RunReadEnd
<1> HIDE DEF rs
<1> DEFINE first == ReplyPosts(rs[1])
           second == IF Len(rs) > 1 THEN ReplyPosts(rs[2]) ELSE <<>>
<1>4. first \in Seq(Handler) /\ second \in Seq(Handler) /\ Plain(first) /\ Plain(second)
  BY <1>2, PostTypes, ReplyPlain, PlainPosts
<1>5. Runs(ReadEnd(rs), first \o second)
  BY DEF RunReadEnd, rs
<1> HIDE DEF first, second
<1>6. first \o second \in Seq(Handler) /\ Plain(first \o second)
  BY <1>4, PlainPosts
<1>7. ReadEnd(rs) \notin WriteEnds \cup {TimerFired("write"), TimerFired("gap")} /\ ReadEnd(rs) \notin WriteEvents
  BY Fields, Kinds
<1> QED
  BY <1>3, <1>5, <1>6, <1>7, QuietKeeps

LEMMA IdlePlain == Plain(IdlePosts("IDLE"))
<1>1. CheckQueue \notin {Wakeup, CleanUp, GapAborted}
  BY Fields, Kinds
<1> QED
  BY <1>1, PlainPosts DEF IdlePosts

LEMMA RunSends == ASSUME TypeOK, SendInv, RunHandler PROVE SendInv'
<1>1. CASE ready # <<>> /\ Head(ready).h = "enqueue" /\ RunEnqueue(Head(ready).cmd, Head(ready).front)
  <2> DEFINE h == Enqueue(Head(ready).cmd, Head(ready).front)
  <2>1. commandQueue' # <<>>
    BY <1>1, EnqueueType
  <2>2. h.h = "enqueue" /\ Runs(h, CheckPosts(state, commandQueue')) /\ UNCHANGED <<serial, state, timers>>
    BY <1>1, Fields DEF RunEnqueue
  <2> HIDE DEF h
  <2> QED
    BY <2>1, <2>2, LookKeeps
<1>2. CASE RunCheckQueue
  <2>1. /\ CheckQueue.h = "check" /\ Runs(CheckQueue, CheckPosts(state, commandQueue'))
        /\ UNCHANGED <<serial, state, timers, commandQueue>>
    BY <1>2, Fields DEF RunCheckQueue
  <2> QED
    BY <2>1, LookKeeps
<1>3. CASE SendNextCommand \/ SendNothing
  BY <1>3, SendNextKeeps, SendNothingKeeps
<1>4. CASE CancelWhenIdle
  <2> DEFINE h == Event("CANCEL_COMMAND")
             p == <<Enqueue("CANCEL", TRUE), CheckQueue>>
  <2>1. Enqueue("CANCEL", TRUE) \in Handler /\ CheckQueue \in Handler
    BY HandlerTypes DEF Cmds
  <2>2. Enqueue("CANCEL", TRUE) \notin {Wakeup, CleanUp, GapAborted} /\ CheckQueue \notin {Wakeup, CleanUp, GapAborted}
    BY Fields, Kinds
  <2>3. p \in Seq(Handler) /\ Plain(p)
    BY <2>1, <2>2, Pair, PlainPosts
  <2>4. h \notin WriteEnds \cup {TimerFired("write"), TimerFired("gap")} /\ h \notin WriteEvents
    BY Kinds
  <2>5. Runs(h, p) /\ UNCHANGED <<serial, commandQueue, state, timers>>
    BY <1>4 DEF CancelWhenIdle
  <2> HIDE DEF h, p
  <2> QED
    BY <2>3, <2>4, <2>5, QuietKeeps
<1>5. CASE WriteCompleted \/ AckReceived
  <2>1. PICK e \in {"WRITE_COMPLETED", "ACK_RECEIVED"} : Runs(Event(e), <<>>)
    BY <1>5 DEF WriteCompleted, AckReceived
  <2>2. /\ state \notin {"IDLE", "CANCEL_COMMAND_REQUEST"} /\ state' # "SENDING_REQUEST_ASYNC"
        /\ UNCHANGED <<serial, commandQueue>> /\ ("gap" \in timers => "gap" \in timers')
    BY <1>5 DEF WriteCompleted, AckReceived, Enters
  <2>3. Event(e) \notin WriteEnds \cup {TimerFired("gap")}
    BY Kinds
  <2> QED
    BY <2>1, <2>2, <2>3, EmptyPosts, PlainPosts, LeavesKeeps
<1>6. CASE ResponseReceived \/ (\E e \in {"WRITE_FAILED", "WRITE_TIMEOUT"} : WriteNotDone(e))
             \/ \E e \in {"ACK_TIMEOUT", "RESPONSE_TIMEOUT"} : ReplyTimeout(e)
  <2>1. PICK e : Runs(Event(e), IdlePosts("IDLE"))
    BY <1>6 DEF ResponseReceived, WriteNotDone, ReplyTimeout
  <2>2. /\ state \notin {"IDLE", "CANCEL_COMMAND_REQUEST"} /\ state' # "SENDING_REQUEST_ASYNC"
        /\ UNCHANGED <<serial, commandQueue>> /\ ("gap" \in timers => "gap" \in timers')
    BY <1>6 DEF ResponseReceived, WriteNotDone, ReplyTimeout, Enters
  <2>3. Event(e) \notin WriteEnds \cup {TimerFired("gap")}
    BY Kinds
  <2> QED
    BY <2>1, <2>2, <2>3, PostTypes, IdlePlain, LeavesKeeps
<1>7. CASE CancelWhenBusy
  BY <1>7, CancelBusyKeeps
<1>8. CASE CancelCleanUp
  BY <1>8, CleanUpKeeps
<1>9. ASSUME NEW e \in Events, IgnoreEvent(e) PROVE SendInv'
  <2>1. /\ Runs(Event(e), <<>>) /\ UNCHANGED <<serial, commandQueue, state, timers>>
        /\ state = "SENDING_REQUEST_ASYNC" => e \notin {"WRITE_COMPLETED", "WRITE_FAILED", "WRITE_TIMEOUT"}
    BY <1>9 DEF IgnoreEvent, Expected
  <2>2. Event(e) \notin WriteEnds \cup {TimerFired("write"), TimerFired("gap")}
    BY Kinds
  <2>3. state = "SENDING_REQUEST_ASYNC" => Event(e) \notin WriteEvents
    BY <2>1, Kinds
  <2> QED
    BY <2>1, <2>2, <2>3, EmptyPosts, PlainPosts, QuietKeeps
<1>10. CASE \E ok \in BOOLEAN : RunWriteEnd(ok)
  BY <1>10, WriteEndKeeps
<1>11. CASE RunWriteTimer \/ RunGapTimer \/ RunGapAborted
  BY <1>11, WriteTimerKeeps, GapTimerKeeps, GapAbortedKeeps
<1>12. ASSUME NEW t \in {"ack", "rsp"}, RunReplyTimer(t) PROVE SendInv'
  <2> DEFINE h == TimerFired(t)
             p == <<Event(IF t = "ack" THEN "ACK_TIMEOUT" ELSE "RESPONSE_TIMEOUT")>>
  <2>1. p \in Seq(Handler) /\ Plain(p)
    BY EventPosts, PlainPosts, Kinds DEF Events
  <2>2. h \notin WriteEnds \cup {TimerFired("write"), TimerFired("gap")} /\ h \notin WriteEvents
    BY Fields, Kinds
  <2>3. Runs(h, p) /\ UNCHANGED <<serial, commandQueue, state, timers>>
    BY <1>12 DEF RunReplyTimer
  <2> HIDE DEF h, p
  <2> QED
    BY <2>1, <2>2, <2>3, QuietKeeps
<1>13. CASE ready # <<>> /\ Head(ready).h = "read" /\ RunReadEnd(Head(ready).replies)
  BY <1>13, ReadSends
<1>14. CASE RunShutdown \/ DropHandler
  BY <1>14 DEF RunShutdown, DropHandler, SendInv, IsOpen
<1> QED
  BY <1>1, <1>2, <1>3, <1>4, <1>5, <1>6, <1>7, <1>8, <1>9, <1>10, <1>11, <1>12, <1>13, <1>14 DEF RunHandler

LEMMA SendStep == TypeOK /\ SendInv /\ [Next]_vars => SendInv'
<1> SUFFICES ASSUME TypeOK, SendInv, [Next]_vars PROVE SendInv'
  OBVIOUS
<1>1. CASE Joined
  BY <1>1 DEF Joined, SendInv, IsOpen
<1>2. CASE UNCHANGED vars
  BY <1>2 DEF vars, serial, SendInv, IsOpen, Ordered, Underway, Sending
<1> QED
  BY <1>1, <1>2, NextCases, OutsideSends, RunSends

LEMMA InitSends == Init => SendInv
<1> SUFFICES ASSUME Init PROVE SendInv
  OBVIOUS
<1>1. \A x : Has(ready, x) => x = Wakeup
  BY HasIn DEF Init, Wakeup
<1>2. CleanUp # Wakeup /\ GapAborted # Wakeup
  BY Kinds
<1>3. CleansLast(ready) /\ AbortsFirst(ready)
  BY <1>1, <1>2 DEF CleansLast, AbortsFirst, Has
<1> QED
  BY <1>1, <1>2, <1>3 DEF Init, SendInv, Ordered, Underway, Sending

\* A command that is sent comes to an end: its write is under way with its timer, waits for
\* its gap, or is over, although a cancelled command's write may still hold the port.
THEOREM NoSendIsATrap == Spec => []SendEnds
<1>1. Init => TypeOK /\ SendInv
  BY InitType, InitSends
<1>2. TypeOK /\ SendInv /\ [Next]_vars => (TypeOK /\ SendInv)'
  BY TypeStep, SendStep
<1> QED
  BY <1>1, <1>2, SendDefs, PTL DEF Spec

-----------------------------------------------------------------------------
(* One command at a time: what holds until the first cancel *)

\* Of the handlers in S the queue holds none; at most one; and those in S before those in T.
None(q, S)     == \A i \in DOMAIN q : q[i] \notin S
Once(q, S)     == \A i, j \in DOMAIN q : q[i] \in S /\ q[j] \in S => i = j
Before(q, S, T) == \A i, j \in DOMAIN q : q[i] \in S /\ q[j] \in T => i < j

Gaps    == {TimerFired("gap")}
Wakeups == {Wakeup}
Cancels == {Event("CANCEL_COMMAND"), CleanUp, GapAborted}

\* The handlers the invariant is about, and those of them that are about the writing.
Writes == WriteEvents \cup WriteEnds \cup Gaps
Marked == Writes \cup Wakeups \cup Cancels

\* A write in progress is the current command's, and it is at one place: it waits for its gap, is on
\* the line, or has ended; once its end has been told, nothing of it is left.
OnTheLine ==
  IF writeInProgress
  THEN /\ state = "SENDING_REQUEST_ASYNC" /\ writeQueue = <<current>> /\ None(ready, WriteEvents)
       /\ writing \in {current, NoFrame}
       /\ writeDelayActive <=> "gap" \in timers \/ ~None(ready, Gaps)
       /\ writeDelayActive => writing = NoFrame /\ None(ready, WriteEnds)
       /\ "gap" \in timers => None(ready, Gaps)
       /\ writing # NoFrame => None(ready, WriteEnds)
       /\ Once(ready, Gaps) /\ Once(ready, WriteEnds)
  ELSE /\ writeQueue = <<>> /\ writing = NoFrame /\ ~writeDelayActive
       /\ "gap" \notin timers /\ None(ready, Gaps) /\ None(ready, WriteEnds)
       /\ Once(ready, WriteEvents)
       /\ state # "SENDING_REQUEST_ASYNC" => None(ready, WriteEvents)

\* No wake-up is left over when the driver is idle again without a command.
WakesInTime ==
  /\ state = "IDLE" /\ commandQueue = <<>> => None(ready, Wakeups)
  /\ state \in {"WAITING_FOR_ACK", "WAITING_FOR_RESPONSE"} => None(ready, Wakeups)
  /\ state = "SENDING_REQUEST_ASYNC" => Before(ready, Wakeups, WriteEvents)

Alone ==
  /\ None(ready, Cancels) /\ state # "CANCEL_COMMAND_REQUEST"
  /\ OnTheLine /\ WakesInTime
  /\ state # "IDLE" => failures = 0

OneByOne == calls.cancel = 0 => failures <= 1 /\ (IsOpen => Alone)

\* What moving does to the marks.
LEMMA MovesMarks ==
  ASSUME NEW q \in Seq(Handler), NEW p \in Seq(Handler), NEW r \in Seq(Handler), NEW d \in {0, 1}, d <= Len(q),
         Moves(q, d, p, r)
  PROVE  /\ \A S : None(q, S) /\ None(p, S) => None(r, S)
         /\ \A S : Once(q, S) /\ None(p, S) => Once(r, S)
         /\ \A S : None(q, S) /\ Once(p, S) => Once(r, S)
         /\ \A S : d = 1 /\ Once(q, S) /\ q[1] \in S /\ None(p, S) => None(r, S)
         /\ \A S : None(r, S) => None(p, S) /\ ((d = 1 => q[1] \notin S) => None(q, S))
         /\ \A S, T : Before(q, S, T) /\ None(p, S) => Before(r, S, T)
<1>1. /\ Len(q) \in Nat /\ Len(p) \in Nat /\ Len(r) \in Nat
      /\ DOMAIN q = 1..Len(q) /\ DOMAIN p = 1..Len(p) /\ DOMAIN r = 1..Len(r)
  OBVIOUS
<1>2. \A i \in 1..Len(r) : \/ i <= Len(q) - d /\ i + d \in 1..Len(q) /\ r[i] = q[i + d]
                           \/ i > Len(q) - d /\ i - (Len(q) - d) \in 1..Len(p) /\ r[i] = p[i - (Len(q) - d)]
  <2> SUFFICES ASSUME NEW i \in 1..Len(r), i > Len(q) - d
               PROVE  i - (Len(q) - d) \in 1..Len(p) /\ r[i] = p[i - (Len(q) - d)]
    BY <1>1 DEF Moves
  <2>1. i - (Len(q) - d) \in 1..Len(p) /\ Len(q) - d + (i - (Len(q) - d)) = i
    BY <1>1 DEF Moves
  <2> QED
    BY <2>1 DEF Moves
<1>3. \A i \in 1..Len(p) : Len(q) - d + i \in 1..Len(r) /\ r[Len(q) - d + i] = p[i]
  BY <1>1 DEF Moves
<1>4. \A i \in 1..Len(q) : i > d => i - d \in 1..Len(r) /\ r[i - d] = q[i]
  BY <1>1 DEF Moves
<1> HIDE DEF Moves
<1>5. ASSUME NEW S, None(q, S), None(p, S) PROVE None(r, S)
  BY <1>1, <1>2, <1>5 DEF None
<1>6. ASSUME NEW S, NEW i \in 1..Len(r), r[i] \in S, None(p, S)
      PROVE  i <= Len(q) - d /\ i + d \in 1..Len(q) /\ q[i + d] \in S
  BY <1>1, <1>2, <1>6 DEF None
<1>7. ASSUME NEW S, Once(q, S), None(p, S) PROVE Once(r, S)
  <2> SUFFICES ASSUME NEW i \in 1..Len(r), NEW j \in 1..Len(r), r[i] \in S, r[j] \in S PROVE i = j
    BY <1>1 DEF Once
  <2>1. i + d \in 1..Len(q) /\ q[i + d] \in S /\ j + d \in 1..Len(q) /\ q[j + d] \in S
    BY <1>6, <1>7
  <2>2. i + d = j + d
    BY <1>1, <1>7, <2>1 DEF Once
  <2> QED
    BY <2>2
<1>8. ASSUME NEW S, None(q, S), Once(p, S) PROVE Once(r, S)
  <2> SUFFICES ASSUME NEW i \in 1..Len(r), NEW j \in 1..Len(r), r[i] \in S, r[j] \in S PROVE i = j
    BY <1>1 DEF Once
  <2>1. /\ i - (Len(q) - d) \in 1..Len(p) /\ p[i - (Len(q) - d)] \in S
        /\ j - (Len(q) - d) \in 1..Len(p) /\ p[j - (Len(q) - d)] \in S
    BY <1>1, <1>2, <1>8 DEF None
  <2>2. i - (Len(q) - d) = j - (Len(q) - d)
    BY <1>1, <1>8, <2>1 DEF Once
  <2> QED
    BY <1>1, <2>2
<1>9. ASSUME NEW S, d = 1, Once(q, S), q[1] \in S, None(p, S) PROVE None(r, S)
  <2> SUFFICES ASSUME NEW i \in 1..Len(r), r[i] \in S PROVE FALSE
    BY <1>1 DEF None
  <2>1. i + 1 \in 1..Len(q) /\ q[i + 1] \in S
    BY <1>6, <1>9
  <2>2. 1 \in 1..Len(q)
    BY <1>1, <1>9
  <2>3. i + 1 = 1
    BY <1>1, <1>9, <2>1, <2>2 DEF Once
  <2> QED
    BY <2>3
<1>10. ASSUME NEW S, None(r, S) PROVE None(p, S)
  BY <1>1, <1>3, <1>10 DEF None
<1>11. ASSUME NEW S, None(r, S), d = 1 => q[1] \notin S PROVE None(q, S)
  <2> SUFFICES ASSUME NEW i \in 1..Len(q), q[i] \in S PROVE FALSE
    BY <1>1 DEF None
  <2>1. i > d
    BY <1>11
  <2> QED
    BY <1>1, <1>4, <1>11, <2>1 DEF None
<1>12. ASSUME NEW S, NEW T, Before(q, S, T), None(p, S) PROVE Before(r, S, T)
  <2> SUFFICES ASSUME NEW i \in 1..Len(r), NEW j \in 1..Len(r), r[i] \in S, r[j] \in T PROVE i < j
    BY <1>1 DEF Before
  <2>1. i <= Len(q) - d /\ i + d \in 1..Len(q) /\ q[i + d] \in S
    BY <1>6, <1>12
  <2>2. CASE j > Len(q) - d
    BY <1>1, <2>1, <2>2
  <2>3. CASE j <= Len(q) - d
    <3>1. j + d \in 1..Len(q) /\ q[j + d] \in T
      BY <1>1, <1>2, <2>3
    <3>2. i + d < j + d
      BY <1>1, <1>12, <2>1, <3>1 DEF Before
    <3> QED
      BY <3>2
  <2> QED
    BY <1>1, <2>2, <2>3
<1> QED
  BY <1>5, <1>7, <1>8, <1>9, <1>10, <1>11, <1>12

\* The marks of short sequences.
LEMMA NoneIn ==
  /\ \A S : None(<<>>, S)
  /\ \A S, x : (None(<<x>>, S) <=> x \notin S) /\ Once(<<x>>, S)
  /\ \A S, x, y : x \notin S /\ y \notin S => None(<<x, y>>, S)
  /\ \A S : \A p, q \in Seq(Handler) : None(p, S) /\ None(q, S) => None(p \o q, S)
  /\ \A q, S, T : None(q, S) /\ T \subseteq S => None(q, T)
<1>1. \A S : None(<<>>, S)
  BY DEF None
<1>2. ASSUME NEW S, NEW x PROVE (None(<<x>>, S) <=> x \notin S) /\ Once(<<x>>, S)
  <2>1. DOMAIN <<x>> = 1..1 /\ <<x>>[1] = x
    OBVIOUS
  <2> QED
    BY <2>1 DEF None, Once
<1>3. ASSUME NEW S, NEW x, NEW y, x \notin S, y \notin S PROVE None(<<x, y>>, S)
  <2>1. DOMAIN <<x, y>> = 1..2 /\ <<x, y>>[1] = x /\ <<x, y>>[2] = y
    OBVIOUS
  <2>2. \A i \in 1..2 : i = 1 \/ i = 2
    OBVIOUS
  <2> QED
    BY <1>3, <2>1, <2>2 DEF None
<1>4. ASSUME NEW S, NEW p \in Seq(Handler), NEW q \in Seq(Handler), None(p, S), None(q, S) PROVE None(p \o q, S)
  <2> SUFFICES ASSUME NEW i \in DOMAIN (p \o q), (p \o q)[i] \in S PROVE FALSE
    BY DEF None
  <2>1. Has(p \o q, (p \o q)[i])
    BY DEF Has
  <2>2. Has(p, (p \o q)[i]) \/ Has(q, (p \o q)[i])
    BY <2>1, HasIn
  <2> QED
    BY <1>4, <2>2 DEF None, Has
<1>5. ASSUME NEW q, NEW S, NEW T, None(q, S), T \subseteq S PROVE None(q, T)
  BY <1>5 DEF None
<1> QED
  BY <1>1, <1>2, <1>3, <1>4, <1>5

\* Which handlers are marked.
LEMMA Marks ==
  /\ Wakeups \cap (Writes \cup Cancels) = {} /\ Cancels \cap Writes = {}
  /\ WriteEvents \cap WriteEnds = {} /\ WriteEvents \cap Gaps = {} /\ WriteEnds \cap Gaps = {}
  /\ \A h : h.h \in {"enqueue", "check", "read", "shutdown"} => h \notin Marked
  /\ \A t : t # "gap" => TimerFired(t) \notin Marked
  /\ \A e : e \notin {"COMMAND_ENQUEUED", "WRITE_COMPLETED", "WRITE_FAILED", "WRITE_TIMEOUT",
                      "CANCEL_COMMAND", "CANCEL_CLEAN_UP"} => Event(e) \notin Marked
<1>1. /\ \A h \in WriteEvents : h.h = "event" /\ h.e \in {"WRITE_COMPLETED", "WRITE_FAILED", "WRITE_TIMEOUT"}
      /\ \A h \in WriteEnds : h.h = "writeEnd"
      /\ \A h \in Gaps : h.h = "timer" /\ h.t = "gap"
      /\ \A h \in Wakeups : h.h = "event" /\ h.e = "COMMAND_ENQUEUED"
      /\ \A h \in Cancels : h.h = "gapAborted" \/ (h.h = "event" /\ h.e \in {"CANCEL_COMMAND", "CANCEL_CLEAN_UP"})
  <2>1. \A h \in WriteEvents : h.h = "event" /\ h.e \in {"WRITE_COMPLETED", "WRITE_FAILED", "WRITE_TIMEOUT"}
    BY Fields DEF WriteEvents
  <2>2. \A h \in WriteEnds : h.h = "writeEnd"
    BY Fields DEF WriteEnds
  <2>3. \A h \in Gaps : h.h = "timer" /\ h.t = "gap"
    BY Fields DEF Gaps
  <2>4. \A h \in Wakeups : h.h = "event" /\ h.e = "COMMAND_ENQUEUED"
    BY Fields DEF Wakeups, Wakeup
  <2>5. \A h \in Cancels : h.h = "gapAborted" \/ (h.h = "event" /\ h.e \in {"CANCEL_COMMAND", "CANCEL_CLEAN_UP"})
    <3>1. Event("CANCEL_COMMAND").h = "event" /\ Event("CANCEL_COMMAND").e = "CANCEL_COMMAND"
      BY Fields
    <3>2. CleanUp.h = "event" /\ CleanUp.e = "CANCEL_CLEAN_UP" /\ GapAborted.h = "gapAborted"
      BY Fields DEF CleanUp
    <3> QED
      BY <3>1, <3>2 DEF Cancels
  <2> QED
    BY <2>1, <2>2, <2>3, <2>4, <2>5
<1>2. ASSUME NEW h, h \in Marked
      PROVE  /\ h.h \in {"event", "writeEnd", "timer", "gapAborted"}
             /\ h.h = "timer" => h.t = "gap"
             /\ h.h = "event" => h.e \in {"COMMAND_ENQUEUED", "WRITE_COMPLETED", "WRITE_FAILED", "WRITE_TIMEOUT",
                                          "CANCEL_COMMAND", "CANCEL_CLEAN_UP"}
  <2>1. h \in WriteEvents \/ h \in WriteEnds \/ h \in Gaps \/ h \in Wakeups \/ h \in Cancels
    BY <1>2 DEF Marked, Writes
  <2> QED
    BY <1>1, <2>1
<1>3. Wakeups \cap (Writes \cup Cancels) = {} /\ Cancels \cap Writes = {}
  BY <1>1 DEF Writes
<1>4. WriteEvents \cap WriteEnds = {} /\ WriteEvents \cap Gaps = {} /\ WriteEnds \cap Gaps = {}
  BY <1>1
<1>5. ASSUME NEW t, t # "gap" PROVE TimerFired(t) \notin Marked
  BY <1>2, <1>5, Fields
<1>6. ASSUME NEW e, Event(e) \in Marked
      PROVE  e \in {"COMMAND_ENQUEUED", "WRITE_COMPLETED", "WRITE_FAILED", "WRITE_TIMEOUT", "CANCEL_COMMAND", "CANCEL_CLEAN_UP"}
  BY <1>2, <1>6, Fields
<1> QED
  BY <1>2, <1>3, <1>4, <1>5, <1>6

\* The queue moves on, or grows: nothing that is marked but a wake-up of an idle driver with commands.
LEMMA QuietAlone ==
  ASSUME TypeOK, Alone, NEW d \in {0, 1}, d <= Len(ready), NEW p \in Seq(Handler), ready' \in Seq(Handler),
         Moves(ready, d, p, ready'), None(p, Writes \cup Cancels),
         None(p, Wakeups) \/ (state = "IDLE" /\ commandQueue' # <<>>),
         d = 1 => ready[1] \notin Writes,
         commandQueue' = <<>> => commandQueue = <<>>, "gap" \in timers' <=> "gap" \in timers,
         UNCHANGED <<writeQueue, writeInProgress, writeDelayActive, writing, current, state, failures>>
  PROVE  Alone'
<1>1. ready \in Seq(Handler)
  BY DEF TypeOK
<1>2. None(p, WriteEvents) /\ None(p, WriteEnds) /\ None(p, Gaps) /\ None(p, Cancels)
  BY DEF None, Writes
<1>3. d = 1 => ready[1] \notin WriteEvents /\ ready[1] \notin WriteEnds /\ ready[1] \notin Gaps
  BY DEF Writes
<1>4. /\ \A S \in {WriteEvents, WriteEnds, Gaps} :
           (None(ready', S) <=> None(ready, S)) /\ (Once(ready, S) => Once(ready', S))
      /\ None(ready, Cancels) => None(ready', Cancels)
      /\ None(ready, Wakeups) /\ None(p, Wakeups) => None(ready', Wakeups)
      /\ Before(ready, Wakeups, WriteEvents) /\ None(p, Wakeups) => Before(ready', Wakeups, WriteEvents)
  BY <1>1, <1>2, <1>3, MovesMarks
<1>5. OnTheLine'
  <2>1. CASE writeInProgress
    BY <1>1, <1>4, <2>1 DEF Alone, OnTheLine
  <2>2. CASE ~writeInProgress
    BY <1>1, <1>4, <2>2 DEF Alone, OnTheLine
  <2> QED
    BY <2>1, <2>2
<1>6. WakesInTime'
  BY <1>4 DEF Alone, WakesInTime
<1> QED
  BY <1>4, <1>5, <1>6 DEF Alone

\* The same for a handler that runs.
LEMMA QuietRun ==
  ASSUME TypeOK, Alone, NEW h, h \notin Writes, NEW p \in Seq(Handler), Runs(h, p), None(p, Marked),
         UNCHANGED <<writeQueue, writeInProgress, writeDelayActive, writing, current, state, failures, commandQueue>>,
         "gap" \in timers' <=> "gap" \in timers
  PROVE  Alone'
<1>1. /\ ready' \in Seq(Handler) /\ Moves(ready, 1, p, ready') /\ ready # <<>> /\ ready[1] = h
      /\ ready \in Seq(Handler)
  BY RunsMoves DEF TypeOK
<1>2. 1 <= Len(ready)
  BY <1>1
<1>3. None(p, Writes \cup Cancels) /\ None(p, Wakeups)
  BY DEF None, Marked
<1> QED
  BY <1>1, <1>2, <1>3, QuietAlone

\* The front handler of an uncancelled driver is about no cancel.
LEMMA NoCancel ==
  ASSUME TypeOK, Alone, NEW h, NEW p \in Seq(Handler), Runs(h, p)
  PROVE  h \notin Cancels
<1>1. Has(ready, h)
  BY RunsMoves
<1> QED
  BY <1>1 DEF Alone, None, Has

LEMMA LookAlone ==
  ASSUME TypeOK, Alone, NEW h, h.h \in {"enqueue", "check"}, Runs(h, CheckPosts(state, commandQueue')),
         commandQueue' = <<>> => commandQueue = <<>>, UNCHANGED <<serial, current, state, failures, timers>>
  PROVE  Alone'
<1> DEFINE p == CheckPosts(state, commandQueue')
<1>1. p \in Seq(Handler)
  BY PostTypes
<1>2. h \notin Writes
  BY Marks DEF Marked
<1>3. None(p, Writes \cup Cancels) /\ (None(p, Wakeups) \/ (state = "IDLE" /\ commandQueue' # <<>>))
  <2>1. CASE p = <<>>
    BY <2>1, NoneIn
  <2>2. CASE p # <<>>
    <3>1. p = <<Wakeup>> /\ state = "IDLE" /\ commandQueue' # <<>>
      BY <2>2 DEF CheckPosts, Wakeup
    <3>2. Wakeup \notin Writes \cup Cancels
      BY Marks DEF Wakeups
    <3> HIDE DEF p
    <3> QED
      BY <3>1, <3>2, NoneIn
  <2> QED
    BY <2>1, <2>2
<1>4. Runs(h, p)
  OBVIOUS
<1> HIDE DEF p
<1>5. /\ ready' \in Seq(Handler) /\ Moves(ready, 1, p, ready') /\ ready # <<>> /\ ready[1] = h
      /\ ready \in Seq(Handler)
  BY <1>1, <1>4, RunsMoves DEF TypeOK
<1>6. 1 <= Len(ready)
  BY <1>5
<1> QED
  BY <1>1, <1>2, <1>3, <1>5, <1>6, QuietAlone DEF serial

\* An idle driver's wake-up takes the only command there is.
LEMMA SendNextAlone == ASSUME TypeOK, Alone, SendNextCommand PROVE Alone'
<1>1. /\ ready' \in Seq(Handler) /\ Moves(ready, 1, <<>>, ready') /\ ready # <<>> /\ ready[1] = Wakeup
      /\ ready \in Seq(Handler)
  BY EmptyPosts, RunsMoves DEF SendNextCommand, TypeOK, Wakeup
<1>2. 1 <= Len(ready)
  BY <1>1
<1>3. Wakeup \notin Writes \cup Cancels
  BY Marks DEF Wakeups
<1>4. /\ state = "IDLE" /\ ~writeInProgress /\ writeQueue = <<>> /\ writing = NoFrame /\ "gap" \notin timers
      /\ None(ready, WriteEvents) /\ None(ready, WriteEnds) /\ None(ready, Gaps) /\ None(ready, Cancels)
  BY DEF SendNextCommand, Alone, OnTheLine
<1>5. \A S \in {WriteEvents, WriteEnds, Gaps, Cancels} : None(ready', S)
  <2>1. \A S : None(ready, S) /\ None(<<>>, S) => None(ready', S)
    BY <1>1, <1>2, EmptyPosts, MovesMarks
  <2> QED
    BY <1>4, <2>1, NoneIn
<1>6. \A S \in {WriteEnds, Gaps} : Once(ready', S)
  BY <1>5 DEF None, Once
<1>7. /\ state' = "SENDING_REQUEST_ASYNC" /\ writeQueue' = <<current'>> /\ writeInProgress' /\ failures' = 0
      /\ \/ writing' = current' /\ ~writeDelayActive' /\ "gap" \notin timers'
         \/ writing' = NoFrame /\ writeDelayActive' /\ "gap" \in timers'
  BY <1>4 DEF SendNextCommand, Enters, StartWrite
<1>8. current' # NoFrame
  <2>1. Head(commandQueue) \in Cmds
    BY DEF SendNextCommand, TypeOK
  <2>2. current' \in Frame
    BY <2>1, FrameTypes DEF SendNextCommand, TypeOK
  <2> QED
    BY <2>2, FrameIsOne
<1>9. OnTheLine'
  BY <1>5, <1>6, <1>7, <1>8 DEF OnTheLine
<1>10. WakesInTime'
  BY <1>5, <1>7 DEF WakesInTime, None, Before
<1> QED
  BY <1>5, <1>7, <1>9, <1>10 DEF Alone

\* The end of the write, an acknowledgement or a time-out: the driver leaves the state it is in.
LEMMA LeavesAlone ==
  ASSUME TypeOK, Alone, NEW h, NEW p \in Seq(Handler), Runs(h, p), None(p, Marked),
         \/ state = "SENDING_REQUEST_ASYNC" /\ h \in WriteEvents
         \/ state \in {"WAITING_FOR_ACK", "WAITING_FOR_RESPONSE"} /\ h \notin Writes,
         state' \in {"IDLE", "WAITING_FOR_ACK", "WAITING_FOR_RESPONSE"}, state' # "IDLE" => failures' = failures,
         UNCHANGED <<serial, current>>, "gap" \in timers' <=> "gap" \in timers
  PROVE  Alone'
<1>1. /\ ready' \in Seq(Handler) /\ Moves(ready, 1, p, ready') /\ ready # <<>> /\ ready[1] = h
      /\ ready \in Seq(Handler) /\ Has(ready, h)
  BY RunsMoves DEF TypeOK
<1>2. 1 <= Len(ready) /\ DOMAIN ready = 1..Len(ready) /\ Len(ready) \in Nat
  BY <1>1
<1>3. UNCHANGED <<writeQueue, writeInProgress, writeDelayActive, writing>>
  BY DEF serial
<1>4. /\ None(p, WriteEvents) /\ None(p, WriteEnds) /\ None(p, Gaps) /\ None(p, Cancels) /\ None(p, Wakeups)
  BY DEF None, Marked, Writes
<1>5. ~writeInProgress
  BY <1>1 DEF Alone, OnTheLine, None, Has
<1>6. /\ writeQueue = <<>> /\ writing = NoFrame /\ ~writeDelayActive /\ "gap" \notin timers
      /\ None(ready, Gaps) /\ None(ready, WriteEnds) /\ None(ready, Cancels)
  BY <1>5 DEF Alone, OnTheLine
<1>7. None(ready', WriteEvents)
  <2>1. CASE state = "SENDING_REQUEST_ASYNC"
    <3>1. Once(ready, WriteEvents) /\ ready[1] \in WriteEvents
      BY <1>1, <1>5, <2>1 DEF Alone, OnTheLine
    <3> QED
      BY <1>1, <1>2, <1>4, <3>1, MovesMarks
  <2>2. CASE state # "SENDING_REQUEST_ASYNC"
    <3>1. None(ready, WriteEvents)
      BY <1>5, <2>2 DEF Alone, OnTheLine
    <3> QED
      BY <1>1, <1>2, <1>4, <3>1, MovesMarks
  <2> QED
    BY <2>1, <2>2
<1>8. None(ready, Wakeups)
  <2>1. CASE state = "SENDING_REQUEST_ASYNC"
    <3>1. Before(ready, Wakeups, WriteEvents) /\ 1 \in DOMAIN ready /\ ready[1] \in WriteEvents
      BY <1>1, <1>2, <2>1 DEF Alone, WakesInTime
    <3>2. \A i \in DOMAIN ready : ready[i] \in Wakeups => i < 1
      BY <3>1 DEF Before
    <3> QED
      BY <1>2, <3>2 DEF None
  <2>2. CASE state # "SENDING_REQUEST_ASYNC"
    BY <2>2 DEF Alone, WakesInTime
  <2> QED
    BY <2>1, <2>2
<1>9. /\ None(ready', Wakeups) /\ None(ready', Gaps) /\ None(ready', WriteEnds) /\ None(ready', Cancels)
  BY <1>1, <1>2, <1>4, <1>6, <1>8, MovesMarks
<1>10. OnTheLine'
  <2>1. Once(ready', WriteEvents)
    BY <1>7 DEF None, Once
  <2> QED
    BY <1>3, <1>5, <1>6, <1>7, <1>9, <2>1 DEF OnTheLine
<1>11. WakesInTime'
  BY <1>9 DEF WakesInTime
<1>12. state' # "IDLE" => failures' = 0
  BY DEF Alone
<1> QED
  BY <1>9, <1>10, <1>11, <1>12 DEF Alone

\* A write comes to its end.
LEMMA WriteEndAlone == ASSUME TypeOK, Alone, NEW ok \in BOOLEAN, RunWriteEnd(ok) PROVE Alone'
<1> DEFINE e == IF writeTimedOut THEN "WRITE_TIMEOUT" ELSE IF ok THEN "WRITE_COMPLETED" ELSE "WRITE_FAILED"
           p == <<Event(e)>>
<1>1. p \in Seq(Handler) /\ Runs(WriteEnd(ok), p)
  BY EventPosts DEF RunWriteEnd, Events
<1>2. WriteEnd(ok) \in WriteEnds /\ Event(e) \in WriteEvents
  BY Kinds DEF WriteEnds
<1>3. Once(p, WriteEvents) /\ \A S \in {WriteEnds, Gaps, Cancels, Wakeups} : None(p, S)
  BY <1>2, NoneIn, Marks DEF Writes
<1> HIDE DEF p
<1>4. /\ ready' \in Seq(Handler) /\ Moves(ready, 1, p, ready') /\ ready # <<>> /\ ready[1] = WriteEnd(ok)
      /\ ready \in Seq(Handler) /\ Has(ready, WriteEnd(ok))
  BY <1>1, RunsMoves DEF TypeOK
<1>5. 1 <= Len(ready)
  BY <1>4
<1>6. ~None(ready, WriteEnds)
  BY <1>2, <1>4 DEF None, Has
<1>7. /\ writeInProgress /\ state = "SENDING_REQUEST_ASYNC" /\ writeQueue = <<current>> /\ writing = NoFrame
      /\ ~writeDelayActive /\ "gap" \notin timers /\ None(ready, Gaps) /\ None(ready, WriteEvents)
      /\ Once(ready, WriteEnds) /\ None(ready, Cancels) /\ Before(ready, Wakeups, WriteEvents) /\ failures = 0
  BY <1>6 DEF Alone, OnTheLine, WakesInTime
<1>8. /\ writeQueue' = <<>> /\ ~writeInProgress'
      /\ UNCHANGED <<state, current, writing, writeDelayActive, timers, failures, commandQueue>>
  <2>1. Tail(<<current>>) = <<>> /\ <<current>> # <<>>
    OBVIOUS
  <2> QED
    BY <1>7, <2>1 DEF RunWriteEnd, history
<1>9. /\ Once(ready', WriteEvents) /\ None(ready', WriteEnds) /\ None(ready', Gaps) /\ None(ready', Cancels)
      /\ Before(ready', Wakeups, WriteEvents)
  <2>1. Once(ready', WriteEvents)
    BY <1>1, <1>3, <1>4, <1>5, <1>7, MovesMarks
  <2>2. None(ready', WriteEnds)
    BY <1>1, <1>2, <1>3, <1>4, <1>5, <1>7, MovesMarks
  <2>3. None(ready', Gaps) /\ None(ready', Cancels)
    BY <1>1, <1>3, <1>4, <1>5, <1>7, MovesMarks
  <2>4. Before(ready', Wakeups, WriteEvents)
    BY <1>1, <1>3, <1>4, <1>5, <1>7, MovesMarks
  <2> QED
    BY <2>1, <2>2, <2>3, <2>4
<1>10. OnTheLine'
  BY <1>7, <1>8, <1>9 DEF OnTheLine
<1>11. WakesInTime'
  BY <1>7, <1>8, <1>9 DEF WakesInTime
<1> QED
  BY <1>7, <1>8, <1>9, <1>10, <1>11 DEF Alone

\* A write that is on the line, and what may be posted when it leaves.
LEMMA EndsAlone ==
  ASSUME TypeOK, Alone, writeInProgress, writing # NoFrame, NEW d \in {0, 1}, d <= Len(ready),
         NEW ok \in BOOLEAN, ready' \in Seq(Handler), Moves(ready, d, <<WriteEnd(ok)>>, ready'),
         d = 1 => ready[1] \notin Writes, writing' = NoFrame,
         UNCHANGED <<writeQueue, writeInProgress, writeDelayActive, timers, state, current, commandQueue, failures>>
  PROVE  Alone'
<1> DEFINE p == <<WriteEnd(ok)>>
<1>1. ready \in Seq(Handler) /\ p \in Seq(Handler)
  BY HandlerTypes, Single DEF TypeOK
<1>2. WriteEnd(ok) \in WriteEnds
  BY DEF WriteEnds
<1>3. Once(p, WriteEnds) /\ \A S \in {WriteEvents, Gaps, Cancels, Wakeups} : None(p, S)
  BY <1>2, NoneIn, Marks DEF Writes
<1>4. Moves(ready, d, p, ready')
  OBVIOUS
<1> HIDE DEF p
<1>5. /\ state = "SENDING_REQUEST_ASYNC" /\ writeQueue = <<current>> /\ ~writeDelayActive
      /\ "gap" \notin timers /\ None(ready, Gaps) /\ None(ready, WriteEvents) /\ None(ready, WriteEnds)
      /\ None(ready, Cancels) /\ Before(ready, Wakeups, WriteEvents) /\ failures = 0
  BY DEF Alone, OnTheLine, WakesInTime
<1>6. Once(ready', WriteEnds)
  BY <1>1, <1>3, <1>4, <1>5, MovesMarks
<1>7. None(ready', WriteEvents) /\ None(ready', Gaps) /\ None(ready', Cancels)
  BY <1>1, <1>3, <1>4, <1>5, MovesMarks
<1>8. Before(ready', Wakeups, WriteEvents) /\ Once(ready', Gaps)
  BY <1>7 DEF Before, None, Once
<1>9. OnTheLine'
  BY <1>5, <1>6, <1>7, <1>8 DEF OnTheLine
<1>10. WakesInTime'
  BY <1>5, <1>8 DEF WakesInTime
<1> QED
  BY <1>5, <1>7, <1>9, <1>10 DEF Alone

LEMMA WriteTimerAlone == ASSUME TypeOK, Alone, RunWriteTimer PROVE Alone'
<1>1. /\ UNCHANGED <<state, commandQueue, current, timers, writeDelayActive, writeInProgress, writeQueue, failures>>
      /\ writing' = IF writeInProgress THEN NoFrame ELSE writing
  BY DEF RunWriteTimer, history
<1>2. TimerFired("write") \notin Marked /\ TimerFired("write") \notin Writes
  BY Marks DEF Marked
<1>3. CASE writeInProgress /\ writing # NoFrame
  <2>1. Runs(TimerFired("write"), <<WriteEnd(FALSE)>>) /\ <<WriteEnd(FALSE)>> \in Seq(Handler)
    BY <1>3, HandlerTypes, Single DEF RunWriteTimer
  <2>2. /\ ready' \in Seq(Handler) /\ Moves(ready, 1, <<WriteEnd(FALSE)>>, ready') /\ ready # <<>>
        /\ ready[1] = TimerFired("write") /\ ready \in Seq(Handler)
    BY <2>1, RunsMoves DEF TypeOK
  <2>3. 1 <= Len(ready)
    BY <2>2
  <2> QED
    BY <1>1, <1>2, <1>3, <2>2, <2>3, EndsAlone
<1>4. CASE ~(writeInProgress /\ writing # NoFrame)
  <2>1. Runs(TimerFired("write"), <<>>) /\ writing' = writing
    BY <1>1, <1>4 DEF RunWriteTimer
  <2> QED
    BY <1>1, <1>2, <2>1, EmptyPosts, NoneIn, QuietRun
<1> QED
  BY <1>3, <1>4

LEMMA GapTimerAlone == ASSUME TypeOK, Alone, RunGapTimer PROVE Alone'
<1>1. /\ ready' \in Seq(Handler) /\ Moves(ready, 1, <<>>, ready') /\ ready # <<>> /\ ready[1] = TimerFired("gap")
      /\ ready \in Seq(Handler) /\ Has(ready, TimerFired("gap"))
  BY EmptyPosts, RunsMoves DEF RunGapTimer, TypeOK
<1>2. 1 <= Len(ready) /\ ready[1] \in Gaps
  BY <1>1 DEF Gaps
<1>3. ~None(ready, Gaps)
  BY <1>1 DEF None, Has, Gaps
<1>4. /\ writeInProgress /\ state = "SENDING_REQUEST_ASYNC" /\ writeQueue = <<current>> /\ writing = NoFrame
      /\ "gap" \notin timers /\ None(ready, WriteEvents) /\ None(ready, WriteEnds)
      /\ Once(ready, Gaps) /\ None(ready, Cancels) /\ Before(ready, Wakeups, WriteEvents) /\ failures = 0
  BY <1>3 DEF Alone, OnTheLine, WakesInTime
<1>5. /\ writing' = current /\ writeInProgress' /\ ~writeDelayActive'
      /\ UNCHANGED <<writeQueue, state, current, timers, failures, commandQueue>>
  <2>1. Head(<<current>>) = current /\ <<current>> # <<>>
    OBVIOUS
  <2> QED
    BY <1>4, <2>1 DEF RunGapTimer, history
<1>6. current # NoFrame
  BY FrameIsOne DEF TypeOK
<1>7. None(ready', Gaps)
  BY <1>1, <1>2, <1>4, EmptyPosts, NoneIn, MovesMarks
<1>8. None(ready', WriteEvents) /\ None(ready', WriteEnds) /\ None(ready', Cancels)
  BY <1>1, <1>2, <1>4, EmptyPosts, NoneIn, MovesMarks
<1>9. Once(ready', Gaps) /\ Once(ready', WriteEnds) /\ Before(ready', Wakeups, WriteEvents)
  BY <1>7, <1>8 DEF Once, None, Before
<1>10. OnTheLine'
  BY <1>4, <1>5, <1>6, <1>7, <1>8, <1>9 DEF OnTheLine
<1>11. WakesInTime'
  BY <1>4, <1>5, <1>9 DEF WakesInTime
<1> QED
  BY <1>4, <1>5, <1>8, <1>10, <1>11 DEF Alone

LEMMA EnqueueUnmarked == \A c, f : Enqueue(c, f) \notin Marked
<1>1. \A c, f : Enqueue(c, f).h = "enqueue"
  BY Fields
<1>2. \A h : h.h = "enqueue" => h \notin Marked
  BY Marks
<1> QED
  BY <1>1, <1>2

\* A reply posts its event and a command.
LEMMA ReplyUnmarked == ASSUME NEW r \in Reply PROVE None(ReplyPosts(r), Marked)
<1> DEFINE p == <<Event(ReplyEvent(r))>>
           q == AskPosts(r.status)
<1>1. p \in Seq(Handler) /\ q \in Seq(Handler)
  BY EventPosts, AskTypes DEF Events, ReplyEvent
<1>2. None(p, Marked)
  BY NoneIn, Marks DEF ReplyEvent
<1>3. None(q, Marked)
  <2>1. Enqueue(r.status, FALSE) \notin Marked
    BY EnqueueUnmarked
  <2> QED
    BY <2>1, NoneIn DEF AskPosts
<1>4. ReplyPosts(r) = p \o q \/ ReplyPosts(r) = <<>>
  BY DEF ReplyPosts
<1> HIDE DEF p, q
<1> QED
  BY <1>1, <1>2, <1>3, <1>4, NoneIn

LEMMA ReadAlone ==
  ASSUME TypeOK, Alone, ready # <<>>, Head(ready).h = "read", RunReadEnd(Head(ready).replies)
  PROVE  Alone'
<1> DEFINE rs == Head(ready).replies
<1>1. rs \in {<<r>> : r \in Reply} \cup (Reply \X Reply)
  BY HeadTypes
<1>2. rs[1] \in Reply /\ (Len(rs) > 1 => rs[2] \in Reply)
  BY <1>1
<1>3. UNCHANGED <<serial, commandQueue, current, state, failures>> /\ ("gap" \in timers' <=> "gap" \in timers)
  BY DEF RunReadEnd
<1> HIDE DEF rs
<1> DEFINE first == ReplyPosts(rs[1])
           second == IF Len(rs) > 1 THEN ReplyPosts(rs[2]) ELSE <<>>
<1>4. first \in Seq(Handler) /\ second \in Seq(Handler) /\ None(first, Marked) /\ None(second, Marked)
  BY <1>2, PostTypes, ReplyUnmarked, NoneIn
<1>5. Runs(ReadEnd(rs), first \o second)
  BY DEF RunReadEnd, rs
<1> HIDE DEF first, second
<1>6. first \o second \in Seq(Handler) /\ None(first \o second, Marked)
  BY <1>4, NoneIn
<1>7. ReadEnd(rs) \notin Writes
  BY Fields, Marks DEF Marked
<1> QED
  BY <1>3, <1>5, <1>6, <1>7, QuietRun DEF serial

LEMMA RunAlone ==
  ASSUME TypeOK, Alone, failures <= 1, IsOpen, RunHandler
  PROVE  Alone' /\ failures' <= 1
<1>0. failures \in Nat /\ (state # "IDLE" => failures = 0)
  BY DEF TypeOK, Alone
<1>1. CASE ready # <<>> /\ Head(ready).h = "enqueue" /\ RunEnqueue(Head(ready).cmd, Head(ready).front)
  <2> DEFINE h == Enqueue(Head(ready).cmd, Head(ready).front)
  <2>1. commandQueue' # <<>>
    BY <1>1, EnqueueType
  <2>2. /\ h.h = "enqueue" /\ Runs(h, CheckPosts(state, commandQueue'))
        /\ UNCHANGED <<serial, current, state, failures, timers>>
    BY <1>1, Fields DEF RunEnqueue, history
  <2> HIDE DEF h
  <2> QED
    BY <2>1, <2>2, LookAlone
<1>2. CASE RunCheckQueue
  <2>1. /\ CheckQueue.h = "check" /\ Runs(CheckQueue, CheckPosts(state, commandQueue'))
        /\ UNCHANGED <<serial, current, state, failures, timers, commandQueue>>
    BY <1>2, Fields DEF RunCheckQueue, history
  <2> QED
    BY <2>1, LookAlone
<1>3. CASE SendNextCommand
  BY <1>3, SendNextAlone DEF SendNextCommand
<1>4. CASE SendNothing
  <2>1. Has(ready, Wakeup) /\ state = "IDLE" /\ commandQueue = <<>>
    BY <1>4, EmptyPosts, RunsMoves DEF SendNothing, Wakeup
  <2> QED
    BY <2>1 DEF Alone, WakesInTime, None, Has, Wakeups
<1>5. CASE CancelWhenIdle \/ CancelWhenBusy \/ CancelCleanUp
  <2>1. PICK e \in {"CANCEL_COMMAND", "CANCEL_CLEAN_UP"} : Head(ready) = Event(e) /\ ready # <<>>
    BY <1>5 DEF CancelWhenIdle, CancelWhenBusy, CancelCleanUp, Runs
  <2>2. Event(e) \in Cancels
    BY DEF Cancels, CleanUp
  <2>3. 1 \in DOMAIN ready /\ ready[1] = Event(e)
    BY <2>1 DEF TypeOK
  <2> QED
    BY <2>2, <2>3 DEF Alone, None
<1>6. CASE WriteCompleted
  <2>1. /\ state = "SENDING_REQUEST_ASYNC" /\ state' = "WAITING_FOR_ACK" /\ Runs(Event("WRITE_COMPLETED"), <<>>)
        /\ UNCHANGED <<serial, current, failures>> /\ ("gap" \in timers' <=> "gap" \in timers)
    BY <1>6 DEF WriteCompleted, Enters, history
  <2>2. Event("WRITE_COMPLETED") \in WriteEvents
    BY DEF WriteEvents
  <2> QED
    BY <1>0, <2>1, <2>2, EmptyPosts, NoneIn, LeavesAlone
<1>7. ASSUME NEW e \in {"WRITE_FAILED", "WRITE_TIMEOUT"}, WriteNotDone(e) PROVE Alone' /\ failures' <= 1
  <2>1. /\ state = "SENDING_REQUEST_ASYNC" /\ state' = "IDLE" /\ Runs(Event(e), IdlePosts("IDLE"))
        /\ UNCHANGED <<serial, current>> /\ ("gap" \in timers' <=> "gap" \in timers) /\ failures' = failures + 1
    BY <1>7 DEF WriteNotDone, Enters, ReportsFailure
  <2>2. Event(e) \in WriteEvents /\ IdlePosts("IDLE") \in Seq(Handler)
    BY PostTypes DEF WriteEvents
  <2>3. None(IdlePosts("IDLE"), Marked)
    BY Fields, Marks, NoneIn DEF IdlePosts
  <2> QED
    BY <1>0, <2>1, <2>2, <2>3, LeavesAlone
<1>8. CASE AckReceived
  <2>1. /\ state = "WAITING_FOR_ACK" /\ state' = "WAITING_FOR_RESPONSE" /\ Runs(Event("ACK_RECEIVED"), <<>>)
        /\ UNCHANGED <<serial, current, failures>> /\ ("gap" \in timers' <=> "gap" \in timers)
    BY <1>8 DEF AckReceived, Enters, history
  <2>2. Event("ACK_RECEIVED") \notin Writes
    BY Marks DEF Marked
  <2> QED
    BY <1>0, <2>1, <2>2, EmptyPosts, NoneIn, LeavesAlone
<1>9. CASE ResponseReceived \/ \E e \in {"ACK_TIMEOUT", "RESPONSE_TIMEOUT"} : ReplyTimeout(e)
  <2>1. PICK e \in {"RSP_RECEIVED", "ACK_TIMEOUT", "RESPONSE_TIMEOUT"} : Runs(Event(e), IdlePosts("IDLE"))
    BY <1>9 DEF ResponseReceived, ReplyTimeout
  <2>2. /\ state \in {"WAITING_FOR_ACK", "WAITING_FOR_RESPONSE"} /\ state' = "IDLE"
        /\ UNCHANGED <<serial, current>> /\ ("gap" \in timers' <=> "gap" \in timers)
        /\ failures' \in {failures, failures + 1}
    BY <1>9 DEF ResponseReceived, ReplyTimeout, Enters, ReportsFailure, history
  <2>3. Event(e) \notin Writes /\ IdlePosts("IDLE") \in Seq(Handler)
    BY Marks, PostTypes DEF Marked
  <2>4. None(IdlePosts("IDLE"), Marked)
    BY Fields, Marks, NoneIn DEF IdlePosts
  <2> QED
    BY <1>0, <2>1, <2>2, <2>3, <2>4, LeavesAlone
<1>10. ASSUME NEW e \in Events, IgnoreEvent(e) PROVE Alone' /\ failures' <= 1
  <2>1. /\ Runs(Event(e), <<>>) /\ UNCHANGED <<serial, commandQueue, current, state, timers, failures>>
        /\ state = "SENDING_REQUEST_ASYNC" => e \notin {"WRITE_COMPLETED", "WRITE_FAILED", "WRITE_TIMEOUT"}
    BY <1>10 DEF IgnoreEvent, Expected, history
  <2>2. Has(ready, Event(e))
    BY <2>1, EmptyPosts, RunsMoves
  <2>3. Event(e) \notin WriteEvents
    <3>1. CASE state = "SENDING_REQUEST_ASYNC"
      BY <2>1, <3>1, Kinds
    <3>2. CASE state # "SENDING_REQUEST_ASYNC"
      BY <2>2, <3>2 DEF Alone, OnTheLine, None, Has
    <3> QED
      BY <3>1, <3>2
  <2>4. Event(e) \notin WriteEnds /\ Event(e) # TimerFired("gap")
    BY Kinds
  <2>5. Event(e) \notin Writes
    BY <2>3, <2>4 DEF Writes, Gaps
  <2> QED
    BY <2>1, <2>5, EmptyPosts, NoneIn, QuietRun DEF serial
<1>11. CASE \E ok \in BOOLEAN : RunWriteEnd(ok)
  BY <1>11, WriteEndAlone DEF RunWriteEnd, history
<1>12. CASE RunWriteTimer \/ RunGapTimer
  BY <1>12, WriteTimerAlone, GapTimerAlone DEF RunWriteTimer, RunGapTimer, history
<1>13. CASE RunGapAborted
  BY <1>13, EmptyPosts, NoCancel DEF RunGapAborted, Cancels
<1>14. ASSUME NEW t \in {"ack", "rsp"}, RunReplyTimer(t) PROVE Alone' /\ failures' <= 1
  <2> DEFINE h == TimerFired(t)
             p == <<Event(IF t = "ack" THEN "ACK_TIMEOUT" ELSE "RESPONSE_TIMEOUT")>>
  <2>1. p \in Seq(Handler) /\ None(p, Marked)
    BY EventPosts, NoneIn, Marks DEF Events
  <2>2. h \notin Writes
    BY Marks DEF Marked
  <2>3. Runs(h, p) /\ UNCHANGED <<serial, commandQueue, current, state, timers, failures>>
    BY <1>14 DEF RunReplyTimer, history
  <2> HIDE DEF h, p
  <2> QED
    BY <2>1, <2>2, <2>3, QuietRun DEF serial
<1>15. CASE ready # <<>> /\ Head(ready).h = "read" /\ RunReadEnd(Head(ready).replies)
  BY <1>15, ReadAlone DEF RunReadEnd
<1>16. CASE RunShutdown \/ DropHandler
  BY <1>16 DEF RunShutdown, DropHandler, IsOpen
<1> QED
  BY <1>1, <1>2, <1>3, <1>4, <1>5, <1>6, <1>7, <1>8, <1>9, <1>10, <1>11, <1>12, <1>13, <1>14, <1>15, <1>16
     DEF RunHandler

\* What is not marked may arrive from outside at any time.
LEMMA ArriveAlone ==
  ASSUME TypeOK, Alone, NEW h \in Handler, ready' = Append(ready, h), h \notin Marked,
         UNCHANGED <<serial, current, state, failures, commandQueue>>, "gap" \in timers' <=> "gap" \in timers
  PROVE  Alone'
<1>1. /\ ready' \in Seq(Handler) /\ Moves(ready, 0, <<h>>, ready') /\ <<h>> \in Seq(Handler) /\ ready \in Seq(Handler)
  BY AppendMoves DEF TypeOK
<1>2. None(<<h>>, Writes \cup Cancels) /\ None(<<h>>, Wakeups) /\ 0 <= Len(ready)
  BY <1>1, NoneIn DEF Marked
<1>3. 0 \in {0, 1} /\ 0 # 1
  OBVIOUS
<1> DEFINE p == <<h>>
<1>4. /\ ready' \in Seq(Handler) /\ Moves(ready, 0, p, ready') /\ p \in Seq(Handler) /\ ready \in Seq(Handler)
      /\ None(p, Writes \cup Cancels) /\ None(p, Wakeups)
  BY <1>1, <1>2
<1> HIDE DEF p
<1> QED
  BY <1>2, <1>3, <1>4, QuietAlone DEF serial

LEMMA OutsideAlone == ASSUME TypeOK, Alone, OutsideNext, calls'.cancel = 0 PROVE IsOpen' => Alone'
<1>1. ASSUME NEW cmd \in Requests, FnUptSend(cmd) PROVE Alone'
  <2>1. Enqueue(cmd, FALSE) \in Handler /\ Enqueue(cmd, FALSE) \notin Marked
    BY HandlerTypes, EnqueueUnmarked DEF Cmds
  <2> QED
    BY <1>1, <2>1, ArriveAlone DEF FnUptSend, history
<1>2. CASE FnUptSendCancel
  BY <1>2 DEF FnUptSendCancel, Count, TypeOK
<1>3. CASE FnUptClose
  BY <1>3 DEF FnUptClose, IsOpen
<1>4. CASE WriteDone \/ WriteError
  <2>1. PICK ok \in BOOLEAN : ready' = Append(ready, WriteEnd(ok))
    BY <1>4 DEF WriteDone, WriteError
  <2>2. /\ writing # NoFrame /\ writing' = NoFrame
        /\ UNCHANGED <<writeQueue, writeInProgress, writeDelayActive, timers, state, current, commandQueue, failures>>
    BY <1>4 DEF WriteDone, WriteError, history
  <2>3. writeInProgress
    BY <2>2 DEF Alone, OnTheLine
  <2>4. WriteEnd(ok) \in Handler /\ 0 <= Len(ready)
    BY HandlerTypes DEF TypeOK
  <2>5. ready' \in Seq(Handler) /\ Moves(ready, 0, <<WriteEnd(ok)>>, ready')
    BY <2>1, <2>4, AppendMoves
  <2> QED
    BY <2>2, <2>3, <2>4, <2>5, EndsAlone
<1>5. ASSUME NEW t \in Timers, TimerExpires(t) PROVE Alone'
  <2>1. TimerFired(t) \in Handler
    BY HandlerTypes
  <2>2. /\ timers' = timers \ {t} /\ t \in timers /\ ready' = Append(ready, TimerFired(t))
        /\ UNCHANGED <<serial, current, state, failures, commandQueue>>
    BY <1>5 DEF TimerExpires, history
  <2>3. CASE t # "gap"
    BY <2>1, <2>2, <2>3, Marks, ArriveAlone
  <2>4. CASE t = "gap"
    <3> DEFINE p == <<TimerFired("gap")>>
    <3>1. ready' \in Seq(Handler) /\ Moves(ready, 0, p, ready') /\ p \in Seq(Handler) /\ ready \in Seq(Handler)
      BY <2>1, <2>2, <2>4, AppendMoves DEF TypeOK
    <3>2. Once(p, Gaps) /\ ~None(p, Gaps) /\ \A S \in {WriteEvents, WriteEnds, Cancels, Wakeups} : None(p, S)
      BY NoneIn, Marks DEF Gaps, Writes
    <3> HIDE DEF p
    <3>3. /\ writeInProgress /\ writeDelayActive /\ None(ready, Gaps) /\ None(ready, WriteEvents)
          /\ None(ready, WriteEnds) /\ writing = NoFrame /\ None(ready, Cancels)
          /\ state = "SENDING_REQUEST_ASYNC" /\ writeQueue = <<current>> /\ Before(ready, Wakeups, WriteEvents)
      BY <2>2, <2>4 DEF Alone, OnTheLine, WakesInTime
    <3>4. Len(ready) >= 0 /\ 0 \in {0, 1} /\ 0 <= Len(ready) /\ 0 # 1
      BY <3>1
    <3>5. /\ None(ready', WriteEvents) /\ None(ready', WriteEnds) /\ None(ready', Cancels)
      BY <3>1, <3>2, <3>3, <3>4, MovesMarks
    <3>6. Once(ready', Gaps) /\ ~None(ready', Gaps)
      BY <3>1, <3>2, <3>3, <3>4, MovesMarks
    <3>7. Before(ready', Wakeups, WriteEvents) /\ Once(ready', WriteEnds)
      BY <3>5 DEF Before, None, Once
    <3>8. OnTheLine'
      BY <2>2, <2>4, <3>3, <3>5, <3>6, <3>7 DEF OnTheLine, serial
    <3>9. WakesInTime'
      BY <2>2, <3>3, <3>7 DEF WakesInTime
    <3> QED
      BY <2>2, <3>3, <3>5, <3>8, <3>9 DEF Alone
  <2> QED
    BY <2>3, <2>4
<1>6. ASSUME NEW d \in terminal, NEW lost \in BOOLEAN, NEW st \in Status, TerminalAcks(d, lost, st) PROVE Alone'
  <2> DEFINE h == ReadEnd(<<ReplyTo(d.frame, "ACK", st)>>)
  <2>1. d \in [frame : Frame, acked : BOOLEAN]
    BY DEF TypeOK
  <2>2. ReplyTo(d.frame, "ACK", st) \in Reply
    BY <2>1 DEF ReplyTo, Reply, Frame
  <2>3. h \in Handler /\ h \notin Marked
    BY <2>2, HandlerTypes, Fields, Marks
  <2>4. ready' = ready \/ ready' = Append(ready, h)
    BY <1>6 DEF TerminalAcks
  <2>5. UNCHANGED <<timers, state, commandQueue, current, serial, failures>>
    BY <1>6 DEF TerminalAcks, history
  <2> HIDE DEF h
  <2>6. CASE ready' = ready
    BY <2>5, <2>6 DEF Alone, OnTheLine, WakesInTime, serial
  <2>7. CASE ready' = Append(ready, h)
    BY <2>3, <2>5, <2>7, ArriveAlone
  <2> QED
    BY <2>4, <2>6, <2>7
<1>7. ASSUME NEW d \in terminal, NEW st \in Status \ {"INVALID"}, TerminalResponds(d, st) PROVE Alone'
  <2> DEFINE ack == ReplyTo(d.frame, "ACK", "OK")
             rsp == ReplyTo(d.frame, "RSP", st)
  <2>1. d \in [frame : Frame, acked : BOOLEAN]
    BY DEF TypeOK
  <2>2. ack \in Reply /\ rsp \in Reply
    BY <2>1 DEF ReplyTo, Reply, Frame, Status
  <2>3. PICK h \in {ReadEnd(<<rsp>>), ReadEnd(<<ack, rsp>>)} : ready' = Append(ready, h)
    BY <1>7 DEF TerminalResponds
  <2> HIDE DEF ack, rsp
  <2>4. h \in Handler /\ h.h = "read"
    BY <2>2, <2>3, HandlerTypes, Fields
  <2>5. h \notin Marked
    BY <2>4, Marks
  <2>6. UNCHANGED <<timers, state, commandQueue, current, serial, failures>>
    BY <1>7 DEF TerminalResponds, history
  <2> QED
    BY <2>3, <2>4, <2>5, <2>6, ArriveAlone
<1> QED
  BY <1>1, <1>2, <1>3, <1>4, <1>5, <1>6, <1>7 DEF OutsideNext

LEMMA OneStep == TypeOK /\ OneByOne /\ [Next]_vars => OneByOne'
<1> SUFFICES ASSUME TypeOK, OneByOne, [Next]_vars, calls'.cancel = 0 PROVE failures' <= 1 /\ (IsOpen' => Alone')
  BY DEF OneByOne
<1>1. CASE OutsideNext
  <2>1. calls.cancel = 0 /\ IsOpen
    <3>1. calls.cancel \in Nat /\ IsOpen
      BY <1>1 DEF OutsideNext, FnUptSend, FnUptSendCancel, FnUptClose, WriteDone, WriteError, TimerExpires,
                  TerminalAcks, TerminalResponds, Accepting, TypeOK
    <3>2. calls' = calls \/ \E what \in {"request", "cancel", "close", "fault"} : \E bound : Count(what, bound)
      BY <1>1 DEF OutsideNext, FnUptSend, FnUptSendCancel, FnUptClose, WriteDone, WriteError, TimerExpires,
                  TerminalAcks, TerminalResponds
    <3> QED
      BY <3>1, <3>2 DEF Count, TypeOK
  <2>2. failures' = failures
    BY <1>1 DEF OutsideNext, FnUptSend, FnUptSendCancel, FnUptClose, WriteDone, WriteError, TimerExpires,
                TerminalAcks, TerminalResponds, history
  <2> QED
    BY <1>1, <2>1, <2>2, OutsideAlone DEF OneByOne
<1>2. CASE RunHandler /\ IsOpen
  <2>1. calls' = calls
    BY <1>2 DEF RunHandler, RunEnqueue, RunCheckQueue, SendNextCommand, SendNothing, CancelWhenIdle, WriteCompleted,
                WriteNotDone, AckReceived, ResponseReceived, ReplyTimeout, CancelWhenBusy, CancelCleanUp, IgnoreEvent,
                RunWriteEnd, RunWriteTimer, RunGapTimer, RunGapAborted, RunReplyTimer, RunReadEnd, RunShutdown, DropHandler
  <2> QED
    BY <1>2, <2>1, RunAlone DEF OneByOne
<1>3. CASE RunHandler /\ ~IsOpen
  <2>1. RunShutdown \/ DropHandler
    BY <1>3 DEF RunHandler, RunEnqueue, RunCheckQueue, SendNextCommand, SendNothing, CancelWhenIdle, WriteCompleted,
                WriteNotDone, AckReceived, ResponseReceived, ReplyTimeout, CancelWhenBusy, CancelCleanUp, IgnoreEvent,
                RunWriteEnd, RunWriteTimer, RunGapTimer, RunGapAborted, RunReplyTimer, RunReadEnd, Runs
  <2> QED
    BY <1>3, <2>1 DEF RunShutdown, DropHandler, OneByOne, IsOpen, history
<1>4. CASE Joined
  BY <1>4 DEF Joined, OneByOne, IsOpen
<1>5. CASE UNCHANGED vars
  BY <1>5 DEF vars, serial, history, OneByOne, IsOpen, Alone, OnTheLine, WakesInTime
<1> QED
  BY <1>1, <1>2, <1>3, <1>4, <1>5, NextCases

LEMMA InitOne == Init => OneByOne
<1> SUFFICES ASSUME Init PROVE OneByOne
  OBVIOUS
<1>1. \A i \in DOMAIN ready : ready[i] = Wakeup
  <2>1. \A x : Has(ready, x) => x = Wakeup
    BY HasIn DEF Init, Wakeup
  <2> QED
    BY <2>1 DEF Has
<1>2. Wakeup \notin Writes \cup Cancels
  BY Marks DEF Wakeups
<1>3. \A S \in {WriteEvents, WriteEnds, Gaps, Cancels} : None(ready, S) /\ Once(ready, S)
  BY <1>1, <1>2 DEF None, Once, Writes
<1> QED
  BY <1>3 DEF Init, OneByOne, Alone, OnTheLine, WakesInTime

LEMMA OneHolds == Spec => [](TypeOK /\ OneByOne)
<1>1. Init => TypeOK /\ OneByOne
  BY InitType, InitOne
<1>2. TypeOK /\ OneByOne /\ [Next]_vars => (TypeOK /\ OneByOne)'
  BY TypeStep, OneStep
<1> QED
  BY <1>1, <1>2, PTL DEF Spec

\* Until the first cancel a command is reported failed at most once (handleCmdErrorOrTimeout), although its
\* write, its acknowledgement and its response each have a time-out of their own, which race with the answers.
THEOREM FailsOnce == Spec => [](calls.cancel = 0 => FailedOnce)
<1>1. TypeOK /\ OneByOne => (calls.cancel = 0 => FailedOnce)
  BY DEF OneByOne, FailedOnce
<1> QED
  BY <1>1, OneHolds, PTL

\* A driver that closes starts no write.
LEMMA ClosedIsSilent == ASSUME TypeOK, [Next]_vars, ~IsOpen' PROVE writing' \in {writing, NoFrame}
<1>1. CASE OutsideNext
  BY <1>1 DEF OutsideNext, FnUptSend, FnUptSendCancel, FnUptClose, WriteDone, WriteError, TimerExpires,
              TerminalAcks, TerminalResponds, serial
<1>2. CASE RunHandler
  <2>1. CASE IsOpen
    <3>1. phase' = phase
      BY <1>2 DEF RunHandler, RunEnqueue, RunCheckQueue, SendNextCommand, SendNothing, CancelWhenIdle, WriteCompleted,
                  WriteNotDone, AckReceived, ResponseReceived, ReplyTimeout, CancelWhenBusy, CancelCleanUp, IgnoreEvent,
                  RunWriteEnd, RunWriteTimer, RunGapTimer, RunGapAborted, RunReplyTimer, RunReadEnd, RunShutdown, DropHandler
    <3> QED
      BY <2>1, <3>1 DEF IsOpen
  <2>2. CASE ~IsOpen
    <3>1. RunShutdown \/ DropHandler
      BY <1>2, <2>2 DEF RunHandler, RunEnqueue, RunCheckQueue, SendNextCommand, SendNothing, CancelWhenIdle, WriteCompleted,
                  WriteNotDone, AckReceived, ResponseReceived, ReplyTimeout, CancelWhenBusy, CancelCleanUp, IgnoreEvent,
                  RunWriteEnd, RunWriteTimer, RunGapTimer, RunGapAborted, RunReplyTimer, RunReadEnd, Runs
    <3> QED
      BY <3>1 DEF RunShutdown, DropHandler, serial
  <2> QED
    BY <2>1, <2>2
<1>3. CASE Joined \/ UNCHANGED vars
  BY <1>3 DEF Joined, vars, serial
<1> QED
  BY <1>1, <1>2, <1>3, NextCases

\* The bounded calls stay within their bounds.
CallsBounded == calls.request <= MaxRequests /\ calls.cancel <= MaxCancels /\ calls.fault <= MaxFaults

LEMMA CallsStay ==
  ASSUME [Next]_vars
  PROVE  \/ calls' = calls
         \/ Count("request", MaxRequests) \/ Count("cancel", MaxCancels) \/ Count("close", MaxCloses)
         \/ Count("fault", MaxFaults)
<1>1. CASE OutsideNext
  BY <1>1 DEF OutsideNext, FnUptSend, FnUptSendCancel, FnUptClose, WriteDone, WriteError, TimerExpires,
              TerminalAcks, TerminalResponds
<1>2. CASE RunHandler
  BY <1>2 DEF RunHandler, RunEnqueue, RunCheckQueue, SendNextCommand, SendNothing, CancelWhenIdle, WriteCompleted,
              WriteNotDone, AckReceived, ResponseReceived, ReplyTimeout, CancelWhenBusy, CancelCleanUp, IgnoreEvent,
              RunWriteEnd, RunWriteTimer, RunGapTimer, RunGapAborted, RunReplyTimer, RunReadEnd, RunShutdown, DropHandler
<1>3. CASE Joined \/ UNCHANGED vars
  BY <1>3 DEF Joined, vars
<1> QED
  BY <1>1, <1>2, <1>3, NextCases

LEMMA CallsStep == TypeOK /\ CallsBounded /\ [Next]_vars => CallsBounded'
<1> SUFFICES ASSUME TypeOK, CallsBounded, [Next]_vars PROVE CallsBounded'
  OBVIOUS
<1>1. calls \in [request : Nat, cancel : Nat, close : Nat, fault : Nat]
  BY DEF TypeOK
<1>2. CASE calls' = calls
  BY <1>2 DEF CallsBounded
<1>3. CASE Count("request", MaxRequests)
  BY <1>1, <1>3, UptAssumption DEF Count, CallsBounded
<1>4. CASE Count("cancel", MaxCancels)
  BY <1>1, <1>4, UptAssumption DEF Count, CallsBounded
<1>5. CASE Count("close", MaxCloses)
  BY <1>1, <1>5, UptAssumption DEF Count, CallsBounded
<1>6. CASE Count("fault", MaxFaults)
  BY <1>1, <1>6, UptAssumption DEF Count, CallsBounded
<1> QED
  BY <1>2, <1>3, <1>4, <1>5, <1>6, CallsStay

LEMMA InitCalls == Init => CallsBounded
BY UptAssumption DEF Init, CallsBounded

LEMMA CallsHold == Spec => []CallsBounded
BY InitType, InitCalls, TypeStep, CallsStep, PTL DEF Spec

\* The frame that startWrite puts on the line is the current command's, as its log line has it, until the lane
\* cancels for the first time, whatever fails and however often the driver is opened and closed.
THEOREM UncancelledSends ==
  Spec => [][calls'.cancel = 0 /\ writing = NoFrame /\ writing' # NoFrame => writing' = current']_vars
<1>1. TypeOK /\ OneByOne' /\ TypeOK' /\ [Next]_vars
        => [calls'.cancel = 0 /\ writing = NoFrame /\ writing' # NoFrame => writing' = current']_vars
  <2> SUFFICES ASSUME TypeOK, OneByOne', TypeOK', [Next]_vars, calls'.cancel = 0, writing = NoFrame, writing' # NoFrame
               PROVE  writing' = current'
    OBVIOUS
  <2>1. IsOpen'
    BY ClosedIsSilent
  <2>2. Alone'
    BY <2>1 DEF OneByOne
  <2> QED
    BY <2>2 DEF Alone, OnTheLine
<1> QED
  BY <1>1, OneHolds, PTL DEF Spec

\* As long as nothing is cancelled, the frame that startWrite puts on the line is the current command's: what the
\* run checks, where the lane does not cancel.
THEOREM SendsCurrent == ASSUME MaxCancels = 0 PROVE Spec => FrameIsCurrent
<1>1. ASSUME TypeOK', CallsBounded',
             [calls'.cancel = 0 /\ writing = NoFrame /\ writing' # NoFrame => writing' = current']_vars
      PROVE  [writing = NoFrame /\ writing' # NoFrame => writing' = current']_vars
  <2>1. calls'.cancel = 0
    BY <1>1, UptAssumption DEF CallsBounded, TypeOK
  <2> QED
    BY <1>1, <2>1
<1> QED
  BY <1>1, UncancelledSends, OneHolds, CallsHold, PTL DEF FrameIsCurrent

-----------------------------------------------------------------------------
(* Numbers that are given once *)

\* What the hypothesis says of the constants: the terminal never asks for a reset, and there are more
\* numbers than commands that can be asked for, beside the two of the start.
NumbersSuffice == "RESET_SEQ" \notin AsksFor /\ SeqMax > 2 + MaxRequests + MaxCancels + MaxFaults

\* How many commands had been numbered when n was given: the first is the reset.
Rank(n) == IF n = 0 THEN 0 ELSE IF n = SeqMax THEN 1 ELSE n + 1

\* The handlers that bring a command: it is enqueued, asked for by a reply, or a cancel's.
Brings(h) ==
  \/ h.h = "enqueue" \/ h \in {Event("CANCEL_COMMAND"), CleanUp}
  \/ h.h = "read" /\ \E k \in DOMAIN h.replies : h.replies[k].status \in AsksFor

Bringers  == {h \in Handler : Brings(h)}
ToCome(q) == Cardinality({i \in DOMAIN q : q[i] \in Bringers})

\* A frame, or a reply to it, that belongs to a command already numbered.
Past(f) ==
  /\ f.seq \in 1..SeqMax /\ Rank(f.seq) <= Rank(current.seq)
  /\ f.seq = current.seq => f.cmd = current.cmd

Carried ==
  {writeQueue[i] : i \in DOMAIN writeQueue} \cup ({writing} \ {NoFrame}) \cup {d.frame : d \in terminal}

\* A handler that enqueues no reset, and reads replies to numbered commands, only the last of which asks.
Fit(h) ==
  /\ h.h = "enqueue" => h.cmd # "RESET_SEQ"
  /\ h.h = "read" => /\ \A k \in DOMAIN h.replies : Past(h.replies[k])
                     /\ Len(h.replies) > 1 => h.replies[1].status \notin AsksFor

Asked == 2 + calls.request + calls.cancel + calls.fault

\* Commands are numbered in the order they are sent, the reset of the start first.
Starting == ready # <<>> /\ ready[1] = Wakeup /\ commandQueue = <<"RESET_SEQ", "LOGON">> /\ state = "IDLE"

Numbered ==
  /\ Rank(current.seq) + Len(commandQueue) + ToCome(ready) <= Asked
  /\ IF current.seq = 0 THEN Starting ELSE \A i \in DOMAIN commandQueue : commandQueue[i] # "RESET_SEQ"
  /\ \A f \in Carried : Past(f)
  /\ \A i \in DOMAIN ready : Fit(ready[i])

\* How many handlers of S a queue holds, when it moves.
LEMMA CountMoves ==
  ASSUME NEW q \in Seq(Handler), NEW p \in Seq(Handler), NEW r \in Seq(Handler), NEW d \in {0, 1}, d <= Len(q),
         Moves(q, d, p, r)
  PROVE  /\ ToCome(q) \in Nat /\ ToCome(r) \in Nat
         /\ None(p, Bringers) => ToCome(r) <= ToCome(q)
         /\ Once(p, Bringers) => ToCome(r) <= ToCome(q) + 1
         /\ d = 1 /\ q[1] \in Bringers /\ None(p, Bringers) => ToCome(r) <= ToCome(q) - 1
         /\ d = 1 /\ q[1] \in Bringers /\ Once(p, Bringers) => ToCome(r) <= ToCome(q)
<1> DEFINE B == Bringers
           Q == {i \in DOMAIN q : q[i] \in B}
           R == {i \in DOMAIN r : r[i] \in B}
           Kept == {i \in Q : i > d}
           Old == {i \in R : i <= Len(q) - d}
           New == {i \in R : i > Len(q) - d}
<1> HIDE DEF B
<1>1. /\ Len(q) \in Nat /\ Len(p) \in Nat /\ Len(r) \in Nat
      /\ DOMAIN q = 1..Len(q) /\ DOMAIN p = 1..Len(p) /\ DOMAIN r = 1..Len(r)
  OBVIOUS
<1>2. IsFiniteSet(Q) /\ IsFiniteSet(R)
  <2>1. Q \in SUBSET (1..Len(q)) /\ R \in SUBSET (1..Len(r))
    BY <1>1
  <2>2. IsFiniteSet(1..Len(q)) /\ IsFiniteSet(1..Len(r))
    BY <1>1, FS_Interval
  <2> HIDE DEF Q, R
  <2> QED
    BY <2>1, <2>2, FS_Subset
<1>3. IsFiniteSet(Kept) /\ Cardinality(Kept) <= Cardinality(Q)
  <2>1. Kept \in SUBSET Q
    OBVIOUS
  <2> HIDE DEF Q, Kept
  <2> QED
    BY <1>2, <2>1, FS_Subset
<1>4. Cardinality(Q) \in Nat /\ Cardinality(R) \in Nat /\ Cardinality(Kept) \in Nat
  BY <1>2, <1>3, FS_CardinalityType
<1>5. d = 1 /\ q[1] \in B => Cardinality(Kept) = Cardinality(Q) - 1
  <2> SUFFICES ASSUME d = 1, q[1] \in B PROVE Cardinality(Kept) = Cardinality(Q) - 1
    OBVIOUS
  <2>1. 1 \in Q /\ Kept = Q \ {1}
    BY <1>1
  <2> HIDE DEF Q, Kept
  <2>2. Cardinality(Q \ {1}) = Cardinality(Q) - 1
    BY <1>2, <2>1, FS_RemoveElement
  <2> QED
    BY <2>1, <2>2
<1>6. IsFiniteSet(Old) /\ Cardinality(Old) <= Cardinality(Kept)
  <2> DEFINE f == [i \in Old |-> i + d]
  <2>1. \A i \in Old : i + d \in Kept
    <3> SUFFICES ASSUME NEW i \in 1..Len(r), r[i] \in B, i <= Len(q) - d PROVE i + d \in 1..Len(q) /\ q[i + d] \in B /\ i + d > d
      BY <1>1
    <3>1. i \in 1..(Len(q) - d) /\ i + d \in 1..Len(q) /\ i + d > d
      BY <1>1
    <3> QED
      BY <3>1 DEF Moves
  <2>2. \A i, j \in Old : f[i] = f[j] => i = j
    BY <1>1
  <2>3. f \in [Old -> Kept] /\ DOMAIN f = Old
    BY <2>1
  <2> HIDE DEF f, Old, Kept
  <2>4. f \in Injection(Old, Kept)
    BY <2>2, <2>3 DEF Injection, IsInjective
  <2> QED
    BY <1>3, <2>4, FS_Injection
<1>7. \A i \in New : i - (Len(q) - d) \in 1..Len(p) /\ p[i - (Len(q) - d)] \in B
  <2> SUFFICES ASSUME NEW i \in 1..Len(r), i > Len(q) - d, r[i] \in B
               PROVE  i - (Len(q) - d) \in 1..Len(p) /\ p[i - (Len(q) - d)] \in B
    BY <1>1
  <2>1. i - (Len(q) - d) \in 1..Len(p) /\ Len(q) - d + (i - (Len(q) - d)) = i
    BY <1>1 DEF Moves
  <2> QED
    BY <2>1 DEF Moves
<1>8. R = Old \cup New
  BY <1>1
<1>9. None(p, B) => Cardinality(R) <= Cardinality(Kept)
  <2> SUFFICES ASSUME None(p, B) PROVE Cardinality(R) <= Cardinality(Kept)
    OBVIOUS
  <2>1. New = {}
    BY <1>1, <1>7 DEF None
  <2> HIDE DEF Old, New, R, Kept
  <2>2. R = Old
    BY <1>8, <2>1
  <2> QED
    BY <1>6, <2>2
<1>10. Once(p, B) => Cardinality(R) <= Cardinality(Kept) + 1
  <2> SUFFICES ASSUME Once(p, B) PROVE Cardinality(R) <= Cardinality(Kept) + 1
    OBVIOUS
  <2>1. \A i, j \in New : i = j
    <3> SUFFICES ASSUME NEW i \in New, NEW j \in New PROVE i = j
      OBVIOUS
    <3>1. i - (Len(q) - d) = j - (Len(q) - d)
      BY <1>1, <1>7 DEF Once
    <3> QED
      BY <1>1, <3>1
  <2>2. CASE New = {}
    <3> HIDE DEF Old, New, R, Kept
    <3>1. R = Old /\ Cardinality(Old) \in Nat
      BY <1>6, <1>8, <2>2, FS_CardinalityType
    <3> QED
      BY <1>4, <1>6, <3>1
  <2>3. CASE New # {}
    <3>1. PICK k : k \in New
      BY <2>3
    <3>2. New = {k}
      BY <2>1, <3>1
    <3> HIDE DEF Old, New, R, Kept
    <3>3. Cardinality(Old \cup {k}) <= Cardinality(Old) + 1 /\ Cardinality(Old) \in Nat
      <4>1. Cardinality(Old) \in Nat
        BY <1>6, FS_CardinalityType
      <4>2. Cardinality(Old \cup {k}) = IF k \in Old THEN Cardinality(Old) ELSE Cardinality(Old) + 1
        BY <1>6, FS_AddElement
      <4> QED
        BY <4>1, <4>2
    <3>4. Cardinality(R) <= Cardinality(Old) + 1
      BY <1>8, <3>2, <3>3
    <3> QED
      BY <1>4, <1>6, <3>3, <3>4
  <2> QED
    BY <2>2, <2>3
<1>11. ToCome(q) = Cardinality(Q) /\ ToCome(r) = Cardinality(R)
  BY DEF ToCome, B
<1> HIDE DEF Q, R, Kept, Old, New
<1> QED
  BY <1>3, <1>4, <1>5, <1>9, <1>10, <1>11 DEF B

\* While the current command stays, what is past stays past, and what fits fits.
LEMMA FitStays ==
  ASSUME UNCHANGED current
  PROVE  (\A f : Past(f)' <=> Past(f)) /\ (\A h : Fit(h)' <=> Fit(h))
<1>1. \A f : Past(f)' <=> Past(f)
  BY DEF Past
<1> QED
  BY <1>1 DEF Fit

\* What moving does to what fits.
LEMMA MovesFit ==
  ASSUME NEW q \in Seq(Handler), NEW p \in Seq(Handler), NEW r \in Seq(Handler), NEW d \in {0, 1}, d <= Len(q),
         Moves(q, d, p, r), \A i \in DOMAIN q : Fit(q[i]), \A i \in DOMAIN p : Fit(p[i])
  PROVE  \A i \in DOMAIN r : Fit(r[i])
<1> DEFINE S == {h \in Handler : ~Fit(h)}
<1>1. None(q, S) /\ None(p, S)
  BY DEF None
<1>2. None(r, S)
  <2> HIDE DEF S
  <2> QED
    BY <1>1, MovesMarks
<1>3. \A i \in DOMAIN r : r[i] \in Handler
  OBVIOUS
<1> QED
  BY <1>2, <1>3 DEF None

\* The queue moves on, or grows, and the commands to come stay within what was asked for.
LEMMA NumMove ==
  ASSUME TypeOK, Numbered, NEW d \in {0, 1}, d <= Len(ready), NEW p \in Seq(Handler), ready' \in Seq(Handler),
         Moves(ready, d, p, ready'), current.seq # 0, current' = current, commandQueue' = commandQueue,
         Carried' \subseteq Carried, \A i \in DOMAIN p : Fit(p[i]),
         Asked \in Nat, Asked' \in Nat, Asked <= Asked',
         \/ None(p, Bringers)
         \/ Once(p, Bringers) /\ ((d = 1 /\ ready[1] \in Bringers) \/ Asked' = Asked + 1)
  PROVE  Numbered'
<1>1. ready \in Seq(Handler) /\ Rank(current.seq) \in Nat /\ Len(commandQueue) \in Nat
  BY UptAssumption DEF TypeOK, Frame, Rank
<1>2. ToCome(ready) \in Nat /\ ToCome(ready') \in Nat /\ ToCome(ready') <= ToCome(ready) + (Asked' - Asked)
  BY <1>1, CountMoves
<1>3. Rank(current.seq) + Len(commandQueue) + ToCome(ready) <= Asked
  BY DEF Numbered
<1>4. (Rank(current.seq) + Len(commandQueue) + ToCome(ready) <= Asked)'
  <2>1. Rank(current.seq)' = Rank(current.seq) /\ Len(commandQueue)' = Len(commandQueue)
    OBVIOUS
  <2> HIDE DEF Rank, Asked, ToCome
  <2> QED
    BY <1>1, <1>2, <1>3, <2>1
<1>5. (\A f \in Carried : Past(f))'
  BY FitStays DEF Numbered
<1>6. \A i \in DOMAIN ready' : Fit(ready'[i])
  BY <1>1, MovesFit DEF Numbered
<1>7. (\A i \in DOMAIN ready : Fit(ready[i]))'
  BY <1>6, FitStays
<1>8. (current.seq # 0 /\ \A i \in DOMAIN commandQueue : commandQueue[i] # "RESET_SEQ")'
  BY DEF Numbered
<1> QED
  BY <1>4, <1>5, <1>7, <1>8 DEF Numbered

\* Which handlers bring a command, and which fit.
LEMMA Bringing ==
  /\ \A h : h.h \notin {"enqueue", "event", "read"} => h \notin Bringers
  /\ \A e : e \notin {"CANCEL_COMMAND", "CANCEL_CLEAN_UP"} => Event(e) \notin Bringers
  /\ Event("CANCEL_COMMAND") \in Bringers /\ CleanUp \in Bringers
  /\ \A h : h.h \notin {"enqueue", "read"} => Fit(h)
  /\ \A c, f : c # "RESET_SEQ" => Fit(Enqueue(c, f))
  /\ \A h \in Handler : h.h = "enqueue" => h \in Bringers
<1>1. /\ Event("CANCEL_COMMAND").h = "event" /\ Event("CANCEL_COMMAND").e = "CANCEL_COMMAND"
      /\ CleanUp.h = "event" /\ CleanUp.e = "CANCEL_CLEAN_UP"
  BY Fields DEF CleanUp
<1>2. ASSUME NEW h, h.h \notin {"enqueue", "event", "read"} PROVE h \notin Bringers
  BY <1>1, <1>2 DEF Bringers, Brings
<1>3. ASSUME NEW e, e \notin {"CANCEL_COMMAND", "CANCEL_CLEAN_UP"} PROVE Event(e) \notin Bringers
  <2>1. Event(e).h = "event" /\ Event(e).e = e
    BY Fields
  <2> QED
    BY <1>1, <1>3, <2>1 DEF Bringers, Brings
<1>4. Event("CANCEL_COMMAND") \in Bringers /\ CleanUp \in Bringers
  BY HandlerTypes DEF Bringers, Brings, CleanUp, Events
<1>5. ASSUME NEW h, h.h \notin {"enqueue", "read"} PROVE Fit(h)
  BY <1>5 DEF Fit
<1>6. ASSUME NEW c, NEW f, c # "RESET_SEQ" PROVE Fit(Enqueue(c, f))
  <2>1. Enqueue(c, f).h = "enqueue" /\ Enqueue(c, f).cmd = c
    BY DEF Enqueue
  <2> QED
    BY <1>6, <2>1 DEF Fit
<1>7. \A h \in Handler : h.h = "enqueue" => h \in Bringers
  BY DEF Bringers, Brings
<1> QED
  BY <1>2, <1>3, <1>4, <1>5, <1>6, <1>7

\* A handler runs that numbers no command.
LEMMA NumRun ==
  ASSUME TypeOK, Numbered, NEW h, NEW p \in Seq(Handler), Runs(h, p),
         h # Wakeup \/ state # "IDLE" \/ commandQueue = <<>>,
         UNCHANGED <<current, commandQueue, calls>>, Carried' \subseteq Carried, \A i \in DOMAIN p : Fit(p[i]),
         None(p, Bringers) \/ (Once(p, Bringers) /\ h \in Bringers)
  PROVE  Numbered'
<1>1. /\ ready' \in Seq(Handler) /\ Moves(ready, 1, p, ready') /\ ready # <<>> /\ ready[1] = h
      /\ ready \in Seq(Handler)
  BY RunsMoves DEF TypeOK
<1>2. 1 <= Len(ready)
  BY <1>1
<1>3. current.seq # 0
  <2>1. <<"RESET_SEQ", "LOGON">> # <<>>
    OBVIOUS
  <2> QED
    BY <1>1, <2>1 DEF Numbered, Starting
<1>4. Asked \in Nat /\ Asked' = Asked
  BY DEF Asked, TypeOK
<1> HIDE DEF Asked
<1> QED
  BY <1>1, <1>2, <1>3, <1>4, NumMove

\* Only less is carried, or more asked for.
LEMMA NumStays ==
  ASSUME TypeOK, Numbered, UNCHANGED <<current, commandQueue, state, ready>>, Carried' \subseteq Carried,
         Asked \in Nat, Asked' \in Nat, Asked <= Asked'
  PROVE  Numbered'
<1>1. ready \in Seq(Handler) /\ Rank(current.seq) \in Nat /\ Len(commandQueue) \in Nat
  BY UptAssumption DEF TypeOK, Frame, Rank
<1>2. ToCome(ready) \in Nat
  <2>1. Moves(ready, 0, <<>>, ready) /\ 0 <= Len(ready) /\ 0 \in {0, 1}
    BY <1>1 DEF Moves
  <2> QED
    BY <1>1, <2>1, EmptyPosts, CountMoves
<1>3. (Rank(current.seq) + Len(commandQueue) + ToCome(ready) <= Asked)'
  <2>1. Rank(current.seq) + Len(commandQueue) + ToCome(ready) <= Asked
    BY DEF Numbered
  <2>2. /\ Rank(current.seq)' = Rank(current.seq) /\ Len(commandQueue)' = Len(commandQueue)
        /\ ToCome(ready)' = ToCome(ready)
    OBVIOUS
  <2> HIDE DEF Rank, Asked, ToCome
  <2> QED
    BY <1>1, <1>2, <2>1, <2>2
<1>4. (\A f \in Carried : Past(f))' /\ (\A i \in DOMAIN ready : Fit(ready[i]))'
  BY FitStays DEF Numbered
<1>5. (IF current.seq = 0 THEN Starting ELSE \A i \in DOMAIN commandQueue : commandQueue[i] # "RESET_SEQ")'
  BY DEF Numbered, Starting
<1> QED
  BY <1>3, <1>4, <1>5 DEF Numbered

\* A handler arrives that brings no command, or one more is asked for.
LEMMA NumArrive ==
  ASSUME TypeOK, Numbered, NEW h \in Handler, ready' = Append(ready, h), Fit(h),
         UNCHANGED <<current, commandQueue, state>>, Carried' \subseteq Carried,
         \/ h \notin Bringers /\ Asked' = Asked
         \/ Asked' = Asked + 1
  PROVE  Numbered'
<1> DEFINE p == <<h>>
<1>1. ready' \in Seq(Handler) /\ Moves(ready, 0, p, ready') /\ p \in Seq(Handler) /\ ready \in Seq(Handler)
  BY AppendMoves DEF TypeOK
<1>2. DOMAIN p = {1} /\ p[1] = h /\ Once(p, Bringers) /\ (h \notin Bringers => None(p, Bringers))
  BY NoneIn
<1> HIDE DEF p
<1>3. Asked \in Nat
  BY DEF Asked, TypeOK
<1>4. CASE current.seq # 0
  <2> HIDE DEF Asked
  <2>1. 0 \in {0, 1} /\ 0 <= Len(ready) /\ Asked' \in Nat /\ Asked <= Asked'
    BY <1>1, <1>3
  <2> QED
    BY <1>1, <1>2, <1>3, <1>4, <2>1, NumMove
<1>5. CASE current.seq = 0
  <2>1. Starting'
    <3>1. Starting
      BY <1>5 DEF Numbered
    <3>2. ready # <<>> /\ Append(ready, h) # <<>> /\ Append(ready, h)[1] = ready[1]
      BY <1>1, <3>1 DEF Starting
    <3>3. ready'[1] = ready[1] /\ ready' # <<>>
      BY <3>2
    <3>4. ready[1] = Wakeup /\ commandQueue' = <<"RESET_SEQ", "LOGON">> /\ state' = "IDLE"
      BY <3>1 DEF Starting
    <3> QED
      BY <3>3, <3>4 DEF Starting, Wakeup
  <2>2. Rank(current.seq) \in Nat /\ Len(commandQueue) \in Nat
    BY UptAssumption DEF TypeOK, Frame, Rank
  <2>3. ToCome(ready) \in Nat /\ ToCome(ready') \in Nat /\ ToCome(ready') <= ToCome(ready) + (Asked' - Asked)
    <3> HIDE DEF Asked
    <3>1. 0 \in {0, 1} /\ 0 <= Len(ready)
      BY <1>1
    <3>2. /\ ToCome(ready) \in Nat /\ ToCome(ready') \in Nat
          /\ None(p, Bringers) => ToCome(ready') <= ToCome(ready)
          /\ Once(p, Bringers) => ToCome(ready') <= ToCome(ready) + 1
      BY <1>1, <3>1, CountMoves
    <3> HIDE DEF ToCome
    <3> QED
      BY <1>2, <1>3, <3>2
  <2>4. (Rank(current.seq) + Len(commandQueue) + ToCome(ready) <= Asked)'
    <3>1. Rank(current.seq)' = Rank(current.seq) /\ Len(commandQueue)' = Len(commandQueue)
      OBVIOUS
    <3>2. Rank(current.seq) + Len(commandQueue) + ToCome(ready) <= Asked
      BY DEF Numbered
    <3> HIDE DEF Rank, Asked, ToCome
    <3> QED
      BY <1>3, <2>2, <2>3, <3>1, <3>2
  <2>5. \A i \in DOMAIN ready' : Fit(ready'[i])
    <3>1. 0 \in {0, 1} /\ 0 <= Len(ready)
      BY <1>1
    <3> QED
      BY <1>1, <1>2, <3>1, MovesFit DEF Numbered
  <2>6. (\A i \in DOMAIN ready : Fit(ready[i]))'
    BY <2>5, FitStays
  <2>7. (\A f \in Carried : Past(f))'
    BY FitStays DEF Numbered
  <2> QED
    BY <1>5, <2>1, <2>4, <2>6, <2>7 DEF Numbered
<1> QED
  BY <1>4, <1>5

\* The budget is below the numbers there are.
LEMMA AskedSuffices ==
  ASSUME NumbersSuffice, TypeOK, CallsBounded
  PROVE  Asked \in Nat /\ Asked < SeqMax
<1>1. /\ calls.request \in Nat /\ calls.cancel \in Nat /\ calls.fault \in Nat
      /\ MaxRequests \in Nat /\ MaxCancels \in Nat /\ MaxFaults \in Nat /\ SeqMax \in Nat
  BY UptAssumption DEF TypeOK
<1> QED
  BY <1>1 DEF NumbersSuffice, CallsBounded, Asked

\* The next command gets the next rank.
LEMMA NextRank ==
  ASSUME NumbersSuffice, TypeOK, CallsBounded, Numbered, commandQueue # <<>>, NEW m,
         m = SequenceFor(Head(commandQueue), current.seq)
  PROVE  m # 0 /\ Rank(m) = Rank(current.seq) + 1 /\ Rank(current.seq) \in Nat
<1> DEFINE n == current.seq
           c == Head(commandQueue)
<1>1. SeqMax \in Nat /\ SeqMax > 1 /\ n \in Nat /\ n <= SeqMax
  BY UptAssumption DEF TypeOK, Frame
<1>2. /\ Rank(n) + Len(commandQueue) + ToCome(ready) < SeqMax
      /\ Len(commandQueue) \in Nat /\ Len(commandQueue) >= 1 /\ ToCome(ready) \in Nat
  <2>1. ready \in Seq(Handler) /\ commandQueue \in Seq(Cmds)
    BY DEF TypeOK
  <2>2. Moves(ready, 0, <<>>, ready) /\ 0 <= Len(ready) /\ 0 \in {0, 1}
    BY <2>1 DEF Moves
  <2>3. ToCome(ready) \in Nat
    BY <2>1, <2>2, EmptyPosts, CountMoves
  <2>4. Len(commandQueue) \in Nat /\ Len(commandQueue) >= 1
    BY <2>1
  <2>5. Rank(n) + Len(commandQueue) + ToCome(ready) <= Asked /\ Rank(n) \in Nat
    BY <1>1 DEF Numbered, Rank
  <2> HIDE DEF Asked, ToCome, Rank, n
  <2> QED
    BY <1>1, <2>3, <2>4, <2>5, AskedSuffices
<1>3. CASE n = 0
  <2>1. commandQueue = <<"RESET_SEQ", "LOGON">>
    BY <1>3 DEF Numbered, Starting
  <2>2. c = "RESET_SEQ"
    BY <2>1
  <2> HIDE DEF c
  <2> QED
    BY <1>1, <1>3, <2>2 DEF SequenceFor, Rank, c
<1>4. CASE n # 0
  <2>1. c # "RESET_SEQ"
    <3>1. 1 \in DOMAIN commandQueue /\ c = commandQueue[1]
      BY DEF TypeOK
    <3> QED
      BY <1>4, <3>1 DEF Numbered
  <2>2. n = SeqMax \/ (n < SeqMax /\ n + 1 < SeqMax)
    <3> HIDE DEF ToCome
    <3> QED
      BY <1>1, <1>2, <1>4 DEF Rank
  <2>3. m = IF n = SeqMax THEN 1 ELSE n + 1
    <3> HIDE DEF c
    <3> QED
      BY <2>1 DEF SequenceFor, c
  <2> HIDE DEF n
  <2>4. m # 0 /\ Rank(m) = Rank(n) + 1 /\ Rank(n) \in Nat
    BY <1>1, <1>4, <2>2, <2>3 DEF Rank
  <2> QED
    BY <2>4 DEF n
<1> QED
  BY <1>3, <1>4

LEMMA NumSendNext ==
  ASSUME NumbersSuffice, TypeOK, CallsBounded, Numbered, SendNextCommand
  PROVE  Numbered'
<1>1. /\ ready' \in Seq(Handler) /\ Moves(ready, 1, <<>>, ready') /\ ready # <<>> /\ ready \in Seq(Handler)
      /\ commandQueue \in Seq(Cmds) /\ commandQueue # <<>>
  BY EmptyPosts, RunsMoves DEF SendNextCommand, TypeOK
<1>2. current'.seq # 0 /\ Rank(current'.seq) = Rank(current.seq) + 1 /\ Rank(current.seq) \in Nat
  <2>1. current'.seq = SequenceFor(Head(commandQueue), current.seq)
    BY DEF SendNextCommand, prepareCmd
  <2> HIDE DEF Rank
  <2> QED
    BY <1>1, <2>1, NextRank
<1>3. \A f : Past(f) => Past(f)'
  <2> SUFFICES ASSUME NEW f, Past(f) PROVE Past(f)'
    OBVIOUS
  <2>1. Rank(f.seq) \in Nat /\ Rank(f.seq) <= Rank(current.seq)
    BY UptAssumption DEF Past, Rank
  <2>2. Rank(f.seq) # Rank(current'.seq) /\ Rank(f.seq) <= Rank(current'.seq)
    <3> HIDE DEF Rank
    <3> QED
      BY <1>2, <2>1
  <2>3. f.seq # current'.seq
    <3> HIDE DEF Rank
    <3> QED
      BY <2>2
  <2> QED
    BY <2>2, <2>3 DEF Past
<1>4. \A h : Fit(h) => Fit(h)'
  BY <1>3 DEF Fit
<1>5. Past(current)'
  <2>1. current'.seq \in 1..SeqMax
    <3>1. SequenceFor(Head(commandQueue), current.seq) \in 0..SeqMax
      BY UptAssumption DEF SequenceFor, TypeOK, Frame
    <3>2. current'.seq = SequenceFor(Head(commandQueue), current.seq)
      BY DEF SendNextCommand, prepareCmd
    <3> QED
      BY <1>2, <3>1, <3>2, UptAssumption
  <2>2. Rank(current'.seq) <= Rank(current'.seq)
    <3> HIDE DEF Rank
    <3> QED
      BY <1>2
  <2> QED
    BY <2>1, <2>2 DEF Past
<1>6. Carried' \subseteq Carried \cup {current'}
  <2>1. /\ writeQueue \in Seq(Frame) /\ writeQueue' = Append(writeQueue, current') /\ terminal' = terminal
        /\ writing' = writing \/ writing' = Head(writeQueue')
    BY DEF SendNextCommand, StartWrite, TypeOK
  <2>2. \A i \in DOMAIN writeQueue' : writeQueue'[i] \in {writeQueue[j] : j \in DOMAIN writeQueue} \cup {current'}
    <3>1. \A i \in 1..(Len(writeQueue) + 1) : writeQueue'[i] = IF i <= Len(writeQueue) THEN writeQueue[i] ELSE current'
      BY <2>1
    <3> QED
      BY <2>1, <3>1
  <2>3. Head(writeQueue') = writeQueue'[1] /\ 1 \in DOMAIN writeQueue'
    BY <2>1
  <2>4. Head(writeQueue') \in {writeQueue[j] : j \in DOMAIN writeQueue} \cup {current'}
    BY <2>2, <2>3
  <2> QED
    BY <2>1, <2>2, <2>4 DEF Carried
<1>7. (\A f \in Carried : Past(f))'
  BY <1>3, <1>5, <1>6 DEF Numbered
<1>8. (\A i \in DOMAIN ready : Fit(ready[i]))'
  <2>1. 1 <= Len(ready) /\ \A i \in DOMAIN <<>> : Fit(<<>>[i])
    BY <1>1
  <2>2. \A i \in DOMAIN ready' : Fit(ready'[i])
    BY <1>1, <2>1, EmptyPosts, MovesFit DEF Numbered
  <2> QED
    BY <1>4, <2>2
<1>9. (current.seq # 0 /\ \A i \in DOMAIN commandQueue : commandQueue[i] # "RESET_SEQ")'
  <2>1. commandQueue' = Tail(commandQueue)
    BY DEF SendNextCommand
  <2>2. CASE current.seq = 0
    <3>1. commandQueue = <<"RESET_SEQ", "LOGON">>
      BY <2>2 DEF Numbered, Starting
    <3>2. commandQueue' = <<"LOGON">>
      BY <2>1, <3>1
    <3> QED
      BY <1>2, <3>2
  <2>3. CASE current.seq # 0
    <3>1. \A i \in DOMAIN commandQueue : commandQueue[i] # "RESET_SEQ"
      BY <2>3 DEF Numbered
    <3>2. \A i \in DOMAIN Tail(commandQueue) : i + 1 \in DOMAIN commandQueue /\ Tail(commandQueue)[i] = commandQueue[i + 1]
      BY <1>1
    <3> QED
      BY <1>2, <2>1, <3>1, <3>2
  <2> QED
    BY <2>2, <2>3
<1>10. (Rank(current.seq) + Len(commandQueue) + ToCome(ready) <= Asked)'
  <2>1. 1 <= Len(ready) /\ None(<<>>, Bringers)
    BY <1>1, NoneIn
  <2>2. ToCome(ready) \in Nat /\ ToCome(ready') \in Nat /\ ToCome(ready') <= ToCome(ready)
    BY <1>1, <2>1, EmptyPosts, CountMoves
  <2>3. Len(commandQueue)' = Len(commandQueue) - 1 /\ Len(commandQueue) \in Nat
    BY <1>1 DEF SendNextCommand
  <2>4. Asked' = Asked /\ Asked \in Nat
    BY AskedSuffices DEF SendNextCommand, Asked
  <2>5. Rank(current.seq) + Len(commandQueue) + ToCome(ready) <= Asked
    BY DEF Numbered
  <2> HIDE DEF Rank, Asked, ToCome
  <2> QED
    BY <1>2, <2>2, <2>3, <2>4, <2>5
<1> QED
  BY <1>7, <1>8, <1>9, <1>10 DEF Numbered

\* A command is queued: the number it will get is not the last.
LEMMA NumEnqueue ==
  ASSUME NumbersSuffice, TypeOK, CallsBounded, Numbered, ready # <<>>, Head(ready).h = "enqueue",
         RunEnqueue(Head(ready).cmd, Head(ready).front)
  PROVE  Numbered'
<1> DEFINE h == Head(ready)
           c == h.cmd
           p == CheckPosts(state, commandQueue')
<1>1. h = Enqueue(c, h.front) /\ Runs(h, p) /\ p \in Seq(Handler)
  BY PostTypes DEF RunEnqueue, Runs
<1>2. /\ ready' \in Seq(Handler) /\ Moves(ready, 1, p, ready') /\ ready \in Seq(Handler) /\ ready[1] = h
      /\ commandQueue \in Seq(Cmds) /\ h \in Handler /\ h.h = "enqueue"
  BY <1>1, RunsMoves DEF TypeOK
<1>3. /\ None(p, Bringers) /\ \A i \in DOMAIN p : Fit(p[i])
  <2>1. p = <<>> \/ p = <<Event("COMMAND_ENQUEUED")>>
    BY DEF CheckPosts
  <2>2. Event("COMMAND_ENQUEUED") \notin Bringers /\ Fit(Event("COMMAND_ENQUEUED"))
    BY Bringing, Fields
  <2> HIDE DEF p
  <2> QED
    BY <2>1, <2>2, NoneIn
<1> HIDE DEF p
<1>4. 1 <= Len(ready) /\ 1 \in DOMAIN ready /\ Len(ready) \in Nat
  BY <1>2
<1>5. h \in Bringers /\ c # "RESET_SEQ"
  BY <1>2, <1>4, Bringing DEF Numbered, Fit
<1>6. current.seq # 0
  <2>1. Wakeup.h = "event"
    BY Fields DEF Wakeup
  <2> QED
    BY <1>2, <2>1 DEF Numbered, Starting
<1>7. Rank(current.seq) \in Nat /\ Len(commandQueue) \in Nat
  BY <1>2, UptAssumption DEF TypeOK, Frame, Rank
<1>8. ToCome(ready) \in Nat /\ ToCome(ready') \in Nat /\ ToCome(ready') <= ToCome(ready) - 1
  BY <1>1, <1>2, <1>3, <1>4, <1>5, CountMoves
<1>9. Rank(current.seq) + Len(commandQueue) + ToCome(ready) <= Asked /\ Asked \in Nat /\ Asked < SeqMax
  BY AskedSuffices DEF Numbered
<1>10. current.seq + 1 # SeqMax
  <2>1. current.seq \in Nat /\ SeqMax \in Nat /\ SeqMax > 1 /\ Rank(current.seq) + 1 < SeqMax
    <3> HIDE DEF Rank, Asked, ToCome
    <3> QED
      BY <1>7, <1>8, <1>9, UptAssumption DEF TypeOK, Frame
  <2> QED
    BY <1>6, <2>1 DEF Rank
<1>11. commandQueue' \in {<<c>> \o commandQueue, Append(commandQueue, c)}
  BY <1>5, <1>10 DEF RunEnqueue, WithCommand
<1>12. Len(commandQueue') = Len(commandQueue) + 1 /\ \A i \in DOMAIN commandQueue' : commandQueue'[i] # "RESET_SEQ"
  <2>1. \A i \in DOMAIN commandQueue : commandQueue[i] # "RESET_SEQ"
    BY <1>6 DEF Numbered
  <2>2. c \in Cmds
    BY <1>2, HeadTypes
  <2> HIDE DEF c
  <2>3. CASE commandQueue' = Append(commandQueue, c)
    BY <1>2, <1>5, <2>1, <2>2, <2>3
  <2>4. CASE commandQueue' = <<c>> \o commandQueue
    <3>1. Len(commandQueue') = Len(commandQueue) + 1 /\ Len(commandQueue) \in Nat
      BY <1>2, <2>2, <2>4
    <3>2. \A i \in 1..(Len(commandQueue) + 1) :
            commandQueue'[i] = IF i = 1 THEN c ELSE commandQueue[i - 1]
      BY <1>2, <2>2, <2>4
    <3>3. \A i \in 2..(Len(commandQueue) + 1) : i - 1 \in DOMAIN commandQueue
      BY <1>2
    <3>4. DOMAIN commandQueue' = 1..(Len(commandQueue) + 1)
      BY <1>2, <2>2, <2>4
    <3> QED
      BY <1>5, <2>1, <3>1, <3>2, <3>3, <3>4
  <2> QED
    BY <1>11, <2>3, <2>4
<1>13. UNCHANGED <<current, writeQueue, writing, terminal, calls>>
  BY DEF RunEnqueue, serial
<1>14. (Rank(current.seq) + Len(commandQueue) + ToCome(ready) <= Asked)'
  <2>1. Rank(current.seq)' = Rank(current.seq) /\ Asked' = Asked
    BY <1>13 DEF Rank, Asked
  <2> HIDE DEF Rank, Asked, ToCome
  <2> QED
    BY <1>7, <1>8, <1>9, <1>12, <2>1
<1>15. (\A f \in Carried : Past(f))'
  <2>1. Carried' = Carried
    BY <1>13 DEF Carried
  <2> QED
    BY <1>13, <2>1, FitStays DEF Numbered
<1>16. (\A i \in DOMAIN ready : Fit(ready[i]))'
  <2>1. \A i \in DOMAIN ready' : Fit(ready'[i])
    BY <1>1, <1>2, <1>3, <1>4, MovesFit DEF Numbered
  <2> QED
    BY <1>13, <2>1, FitStays
<1> QED
  BY <1>6, <1>12, <1>13, <1>14, <1>15, <1>16 DEF Numbered

\* Two sequences of handlers, one after the other.
LEMMA JoinedNums ==
  ASSUME NEW p \in Seq(Handler), NEW q \in Seq(Handler)
  PROVE  /\ None(p, Bringers) /\ None(q, Bringers) => None(p \o q, Bringers)
         /\ None(p, Bringers) /\ Once(q, Bringers) => Once(p \o q, Bringers)
         /\ Once(p, Bringers) /\ None(q, Bringers) => Once(p \o q, Bringers)
         /\ (\A i \in DOMAIN p : Fit(p[i])) /\ (\A i \in DOMAIN q : Fit(q[i]))
              => \A i \in DOMAIN (p \o q) : Fit((p \o q)[i])
<1> DEFINE r == p \o q
<1>1. Moves(p, 0, q, r) /\ 0 <= Len(p) /\ 0 \in {0, 1} /\ 0 # 1 /\ r \in Seq(Handler)
  BY DEF Moves
<1> HIDE DEF r
<1>2. /\ None(p, Bringers) /\ None(q, Bringers) => None(r, Bringers)
      /\ None(p, Bringers) /\ Once(q, Bringers) => Once(r, Bringers)
      /\ Once(p, Bringers) /\ None(q, Bringers) => Once(r, Bringers)
  BY <1>1, MovesMarks
<1>3. (\A i \in DOMAIN p : Fit(p[i])) /\ (\A i \in DOMAIN q : Fit(q[i])) => \A i \in DOMAIN r : Fit(r[i])
  BY <1>1, MovesFit
<1> QED
  BY <1>2, <1>3 DEF r

\* What a reply posts: its event, and the one command it may ask for.
LEMMA ReplyAsks ==
  ASSUME NumbersSuffice, NEW r \in Reply
  PROVE  /\ Once(ReplyPosts(r), Bringers) /\ \A i \in DOMAIN ReplyPosts(r) : Fit(ReplyPosts(r)[i])
         /\ r.status \notin AsksFor => None(ReplyPosts(r), Bringers)
<1> DEFINE p == <<Event(ReplyEvent(r))>>
           q == AskPosts(r.status)
<1>1. p \in Seq(Handler) /\ q \in Seq(Handler)
  BY EventPosts, AskTypes DEF Events, ReplyEvent
<1>2. None(p, Bringers) /\ \A i \in DOMAIN p : Fit(p[i])
  <2>1. ReplyEvent(r) \notin {"CANCEL_COMMAND", "CANCEL_CLEAN_UP"}
    BY DEF ReplyEvent
  <2>2. Event(ReplyEvent(r)) \notin Bringers /\ Fit(Event(ReplyEvent(r)))
    BY <2>1, Bringing, Fields
  <2>3. DOMAIN p = {1} /\ p[1] = Event(ReplyEvent(r))
    OBVIOUS
  <2> HIDE DEF p
  <2> QED
    BY <2>2, <2>3 DEF None
<1>3. Once(q, Bringers) /\ (\A i \in DOMAIN q : Fit(q[i])) /\ (r.status \notin AsksFor => None(q, Bringers))
  <2>1. CASE r.status \in AsksFor
    <3>1. Fit(Enqueue(r.status, FALSE))
      BY <2>1, Bringing DEF NumbersSuffice
    <3>2. DOMAIN q = {1} /\ q[1] = Enqueue(r.status, FALSE)
      BY <2>1 DEF AskPosts
    <3> HIDE DEF q
    <3> QED
      BY <2>1, <3>1, <3>2 DEF Once
  <2>2. CASE r.status \notin AsksFor
    BY <2>2 DEF AskPosts, Once, None
  <2> QED
    BY <2>1, <2>2
<1>4. ReplyPosts(r) = p \o q \/ ReplyPosts(r) = <<>>
  BY DEF ReplyPosts
<1> HIDE DEF p, q
<1>5. CASE ReplyPosts(r) = <<>>
  BY <1>5 DEF Once, None
<1>6. CASE ReplyPosts(r) = p \o q
  BY <1>1, <1>2, <1>3, <1>6, JoinedNums
<1> QED
  BY <1>4, <1>5, <1>6

LEMMA NumRead ==
  ASSUME NumbersSuffice, TypeOK, CallsBounded, Numbered, AnswersMatch, ready # <<>>, Head(ready).h = "read",
         RunReadEnd(Head(ready).replies)
  PROVE  Numbered' /\ AnswersMatch'
<1> DEFINE h == Head(ready)
           rs == h.replies
<1>1. rs \in {<<r>> : r \in Reply} \cup (Reply \X Reply) /\ h \in Handler
  BY HeadTypes
<1>2. /\ rs[1] \in Reply /\ DOMAIN rs = 1..Len(rs) /\ Len(rs) \in {1, 2}
      /\ Len(rs) > 1 => rs[2] \in Reply
  BY <1>1
<1>3. Fit(h) /\ h.h = "read"
  <2>1. 1 \in DOMAIN ready /\ ready[1] = h
    BY DEF TypeOK
  <2> QED
    BY <2>1 DEF Numbered
<1>4. UNCHANGED <<serial, commandQueue, current, terminal, calls, state>>
  BY DEF RunReadEnd
<1>5. AnswersMatch'
  <2>1. \A k \in DOMAIN rs : IsCurrent(rs[k]) => rs[k].cmd = current.cmd
    BY <1>3 DEF Fit, Past, IsCurrent
  <2>2. answers' \subseteq answers \cup {rs[k].cmd : k \in {j \in DOMAIN rs : IsCurrent(rs[j])}}
    BY DEF RunReadEnd
  <2> HIDE DEF rs
  <2> QED
    BY <1>4, <2>1, <2>2 DEF AnswersMatch
<1> DEFINE first == ReplyPosts(rs[1])
           second == IF Len(rs) > 1 THEN ReplyPosts(rs[2]) ELSE <<>>
           p == first \o second
<1>6. Runs(ReadEnd(rs), p)
  BY DEF RunReadEnd
<1>7. h = ReadEnd(rs)
  BY <1>6 DEF Runs
<1>8. first \in Seq(Handler) /\ second \in Seq(Handler) /\ p \in Seq(Handler)
  <2>1. first \in Seq(Handler) /\ second \in Seq(Handler)
    BY <1>2, PostTypes, EmptyPosts
  <2> HIDE DEF first, second
  <2> QED
    BY <2>1
<1>9. /\ Once(first, Bringers) /\ \A i \in DOMAIN first : Fit(first[i])
      /\ rs[1].status \notin AsksFor => None(first, Bringers)
  <2> HIDE DEF rs
  <2> QED
    BY <1>2, ReplyAsks
<1>10. /\ Once(second, Bringers) /\ \A i \in DOMAIN second : Fit(second[i])
       /\ (Len(rs) > 1 => rs[2].status \notin AsksFor) => None(second, Bringers)
  <2> HIDE DEF rs
  <2>1. CASE Len(rs) > 1
    BY <1>2, <2>1, ReplyAsks
  <2>2. CASE ~(Len(rs) > 1)
    BY <2>2 DEF Once, None
  <2> QED
    BY <2>1, <2>2
<1>11. Len(rs) > 1 => rs[1].status \notin AsksFor
  BY <1>3 DEF Fit
<1>12. (\E k \in DOMAIN rs : rs[k].status \in AsksFor) => h \in Bringers
  BY <1>1, <1>3 DEF Bringers, Brings
<1>14. \A i \in DOMAIN p : Fit(p[i])
  <2> HIDE DEF first, second
  <2> QED
    BY <1>8, <1>9, <1>10, JoinedNums
<1>15. /\ None(first, Bringers) /\ None(second, Bringers) => None(p, Bringers)
       /\ None(first, Bringers) /\ Once(second, Bringers) => Once(p, Bringers)
       /\ Once(first, Bringers) /\ None(second, Bringers) => Once(p, Bringers)
  <2> HIDE DEF first, second
  <2> QED
    BY <1>8, JoinedNums
<1>16. None(p, Bringers) \/ (Once(p, Bringers) /\ h \in Bringers)
  <2> HIDE DEF p, first, second, rs, h
  <2>1. CASE Len(rs) > 1
    <3>1. 2 \in DOMAIN rs
      BY <1>2, <2>1
    <3> QED
      BY <1>9, <1>10, <1>11, <1>12, <1>15, <2>1, <3>1
  <2>2. CASE ~(Len(rs) > 1)
    <3>1. 1 \in DOMAIN rs /\ None(second, Bringers)
      BY <1>2, <1>10, <2>2
    <3> QED
      BY <1>9, <1>12, <1>15, <3>1
  <2> QED
    BY <2>1, <2>2
<1>17. h # Wakeup
  BY <1>3, Fields DEF Wakeup
<1>18. Carried' = Carried
  BY <1>4 DEF Carried, serial
<1> HIDE DEF p
<1>19. Runs(h, p)
  BY <1>6, <1>7
<1> HIDE DEF h, rs
<1>20. Numbered'
  BY <1>4, <1>8, <1>14, <1>16, <1>17, <1>18, <1>19, NumRun
<1> QED
  BY <1>5, <1>20

\* Frames leave the write queue from the front.
LEMMA TailCarried ==
  ASSUME TypeOK, writeQueue' \in {writeQueue, <<>>, Tail(writeQueue)}, writeQueue = <<>> => writeQueue' = <<>>,
         UNCHANGED terminal, writing' \in {writing, NoFrame}
  PROVE  Carried' \subseteq Carried
<1> DEFINE W == {writeQueue[i] : i \in DOMAIN writeQueue}
<1>1. {writeQueue'[i] : i \in DOMAIN writeQueue'} \subseteq W
  <2>1. writeQueue \in Seq(Frame)
    BY DEF TypeOK
  <2>2. CASE writeQueue' = writeQueue
    BY <2>2
  <2>3. CASE writeQueue' = <<>>
    BY <2>3
  <2>4. CASE writeQueue' = Tail(writeQueue) /\ writeQueue # <<>>
    <3>1. \A i \in DOMAIN Tail(writeQueue) : i + 1 \in DOMAIN writeQueue /\ Tail(writeQueue)[i] = writeQueue[i + 1]
      BY <2>1, <2>4
    <3> QED
      BY <2>4, <3>1
  <2> QED
    BY <2>2, <2>3, <2>4
<1> QED
  BY <1>1 DEF Carried

\* A handler that posts one handler, or none.
LEMMA PostsOne ==
  /\ None(<<>>, Bringers) /\ \A i \in DOMAIN <<>> : Fit(<<>>[i])
  /\ \A x : Once(<<x>>, Bringers) /\ (x \notin Bringers => None(<<x>>, Bringers))
            /\ (Fit(x) => \A i \in DOMAIN <<x>> : Fit(<<x>>[i]))
  /\ \A x, y : Fit(x) /\ Fit(y) => \A i \in DOMAIN <<x, y>> : Fit(<<x, y>>[i])
  /\ \A x, y : y \notin Bringers => Once(<<x, y>>, Bringers)
<1>1. None(<<>>, Bringers) /\ \A i \in DOMAIN <<>> : Fit(<<>>[i])
  BY DEF None
<1>2. ASSUME NEW x
      PROVE  /\ Once(<<x>>, Bringers) /\ (x \notin Bringers => None(<<x>>, Bringers))
             /\ (Fit(x) => \A i \in DOMAIN <<x>> : Fit(<<x>>[i]))
  <2>1. \A i \in DOMAIN <<x>> : <<x>>[i] = x
    OBVIOUS
  <2> QED
    BY <2>1, NoneIn
<1>3. ASSUME NEW x, NEW y
      PROVE  /\ Fit(x) /\ Fit(y) => \A i \in DOMAIN <<x, y>> : Fit(<<x, y>>[i])
             /\ y \notin Bringers => Once(<<x, y>>, Bringers)
  <2>1. \A i \in DOMAIN <<x, y>> : (i = 1 /\ <<x, y>>[i] = x) \/ (i = 2 /\ <<x, y>>[i] = y)
    OBVIOUS
  <2> QED
    BY <2>1 DEF Once
<1> QED
  BY <1>1, <1>2, <1>3

\* The clean-up of a cancel passes the cancel on.
LEMMA NumCleanUp == ASSUME TypeOK, Numbered, CancelCleanUp PROVE Numbered'
<1> DEFINE g == IF writeDelayActive /\ "gap" \in timers THEN <<GapAborted>> ELSE <<>>
           c == <<Event("CANCEL_COMMAND")>>
           k == IdlePosts("IDLE")
           p == g \o c \o k
<1>1. Runs(CleanUp, p)
  BY DEF CancelCleanUp, CleanUp
<1>2. g \in Seq(Handler) /\ c \in Seq(Handler) /\ k \in Seq(Handler)
  BY HandlerTypes, Single, EmptyPosts, PostTypes DEF Events
<1>3. /\ None(g, Bringers) /\ \A i \in DOMAIN g : Fit(g[i])
      /\ Once(c, Bringers) /\ \A i \in DOMAIN c : Fit(c[i])
      /\ None(k, Bringers) /\ \A i \in DOMAIN k : Fit(k[i])
  <2>1. /\ GapAborted \notin Bringers /\ Fit(GapAborted) /\ CheckQueue \notin Bringers /\ Fit(CheckQueue)
        /\ Fit(Event("CANCEL_COMMAND")) /\ k = <<CheckQueue>>
    BY Bringing, Fields DEF IdlePosts
  <2>2. /\ None(<<GapAborted>>, Bringers) /\ \A i \in DOMAIN <<GapAborted>> : Fit(<<GapAborted>>[i])
    BY <2>1, PostsOne
  <2>3. None(g, Bringers) /\ \A i \in DOMAIN g : Fit(g[i])
    BY <2>2, PostsOne
  <2>4. Once(c, Bringers) /\ \A i \in DOMAIN c : Fit(c[i])
    BY <2>1, PostsOne
  <2>5. None(k, Bringers) /\ \A i \in DOMAIN k : Fit(k[i])
    BY <2>1, PostsOne
  <2> QED
    BY <2>3, <2>4, <2>5
<1>4. Carried' \subseteq Carried
  <2>1. /\ writeQueue' \in {writeQueue, <<>>, Tail(writeQueue)} /\ UNCHANGED <<writing, terminal>>
        /\ writeQueue = <<>> => writeQueue' = <<>>
    BY DEF CancelCleanUp
  <2> QED
    BY <2>1, TailCarried
<1>5. /\ CleanUp # Wakeup /\ CleanUp \in Bringers /\ UNCHANGED <<current, commandQueue, calls>>
  BY Kinds, Bringing DEF CancelCleanUp
<1> HIDE DEF g, c, k
<1>6. /\ g \o c \in Seq(Handler) /\ p \in Seq(Handler)
      /\ Once(g \o c, Bringers) /\ \A i \in DOMAIN (g \o c) : Fit((g \o c)[i])
  BY <1>2, <1>3, JoinedNums
<1>7. Once(p, Bringers) /\ \A i \in DOMAIN p : Fit(p[i])
  BY <1>2, <1>3, <1>6, JoinedNums
<1> HIDE DEF p
<1> QED
  BY <1>1, <1>4, <1>5, <1>6, <1>7, NumRun

LEMMA NumRuns ==
  ASSUME NumbersSuffice, TypeOK, CallsBounded, Numbered, AnswersMatch, IsOpen, RunHandler
  PROVE  Numbered' /\ AnswersMatch'
<1>0. ASSUME UNCHANGED <<answers, current>> PROVE AnswersMatch'
  BY <1>0 DEF AnswersMatch
<1>1. CASE ready # <<>> /\ Head(ready).h = "enqueue" /\ RunEnqueue(Head(ready).cmd, Head(ready).front)
  BY <1>0, <1>1, NumEnqueue DEF RunEnqueue, history
<1>2. CASE SendNextCommand
  <2>1. AnswersMatch'
    BY <1>2 DEF SendNextCommand, AnswersMatch
  <2> QED
    BY <1>2, <2>1, NumSendNext
<1>3. CASE ready # <<>> /\ Head(ready).h = "read" /\ RunReadEnd(Head(ready).replies)
  BY <1>3, NumRead
<1>4. CASE CancelCleanUp
  BY <1>0, <1>4, NumCleanUp DEF CancelCleanUp, history
<1>5. ASSUME NEW h, NEW p \in Seq(Handler), Runs(h, p), h # Wakeup \/ state # "IDLE" \/ commandQueue = <<>>,
             UNCHANGED <<current, commandQueue, calls, terminal, answers>>,
             writeQueue' \in {writeQueue, <<>>, Tail(writeQueue)}, writeQueue = <<>> => writeQueue' = <<>>,
             writing' \in {writing, NoFrame}, \A i \in DOMAIN p : Fit(p[i]),
             None(p, Bringers) \/ (Once(p, Bringers) /\ h \in Bringers)
      PROVE  Numbered' /\ AnswersMatch'
  <2>1. Carried' \subseteq Carried
    BY <1>5, TailCarried
  <2> QED
    BY <1>0, <1>5, <2>1, NumRun
<1>6. ASSUME NEW h, NEW x \in Handler, Runs(h, <<>>) \/ Runs(h, <<x>>), Fit(x),
             h # Wakeup \/ state # "IDLE" \/ commandQueue = <<>>,
             UNCHANGED <<current, commandQueue, calls, terminal, answers>>,
             writeQueue' \in {writeQueue, <<>>, Tail(writeQueue)}, writeQueue = <<>> => writeQueue' = <<>>,
             writing' \in {writing, NoFrame}, x \notin Bringers \/ h \in Bringers
      PROVE  Numbered' /\ AnswersMatch'
  <2>1. CASE Runs(h, <<>>)
    BY <1>5, <1>6, <2>1, EmptyPosts, PostsOne
  <2>2. CASE Runs(h, <<x>>)
    <3> DEFINE p == <<x>>
    <3>1. /\ p \in Seq(Handler) /\ \A i \in DOMAIN p : Fit(p[i])
          /\ None(p, Bringers) \/ (Once(p, Bringers) /\ h \in Bringers)
      BY <1>6, Single, PostsOne
    <3>2. Runs(h, p)
      BY <2>2
    <3> HIDE DEF p
    <3> QED
      BY <1>5, <1>6, <3>1, <3>2
  <2> QED
    BY <1>6, <2>1, <2>2
<1>7. /\ CheckQueue \in Handler /\ Fit(CheckQueue) /\ CheckQueue \notin Bringers
      /\ Wakeup \in Handler /\ Fit(Wakeup) /\ Wakeup \notin Bringers
      /\ CleanUp \in Handler /\ Fit(CleanUp)
      /\ \A e \in Events : Event(e) \in Handler /\ Fit(Event(e))
      /\ \A e \in Events \ {"CANCEL_COMMAND", "CANCEL_CLEAN_UP"} : Event(e) \notin Bringers
      /\ \A ok \in BOOLEAN : WriteEnd(ok) \in Handler /\ Fit(WriteEnd(ok)) /\ WriteEnd(ok) \notin Bringers
  BY HandlerTypes, Bringing, Fields DEF Wakeup, CleanUp, Events
<1>8. \A e : Event(e) = Wakeup => e = "COMMAND_ENQUEUED"
  <2>1. Wakeup.h = "event" /\ Wakeup.e = "COMMAND_ENQUEUED" /\ \A e : Event(e).e = e
    BY Fields DEF Wakeup
  <2> QED
    BY <2>1
<1>9. CASE RunCheckQueue
  <2>1. Runs(CheckQueue, <<>>) \/ Runs(CheckQueue, <<Wakeup>>)
    BY <1>9 DEF RunCheckQueue, CheckPosts, Wakeup
  <2>2. CheckQueue # Wakeup /\ UNCHANGED <<current, commandQueue, calls, terminal, answers, writeQueue, writing>>
    BY <1>9, Fields DEF RunCheckQueue, history, serial, Wakeup
  <2> QED
    BY <1>6, <1>7, <2>1, <2>2
<1>10. CASE SendNothing
  BY <1>6, <1>7, <1>10 DEF SendNothing, history, serial
<1>11. CASE CancelWhenIdle
  <2> DEFINE c == Enqueue("CANCEL", TRUE)
             p == <<c, CheckQueue>>
  <2>1. p \in Seq(Handler) /\ Fit(c)
    BY HandlerTypes, Pair, Bringing DEF Cmds
  <2>2. Once(p, Bringers) /\ \A i \in DOMAIN p : Fit(p[i])
    BY <1>7, <2>1, PostsOne
  <2>3. /\ Runs(Event("CANCEL_COMMAND"), p) /\ Event("CANCEL_COMMAND") # Wakeup
        /\ UNCHANGED <<current, commandQueue, calls, terminal, answers, writeQueue, writing>>
    BY <1>8, <1>11 DEF CancelWhenIdle, history, serial
  <2> HIDE DEF p
  <2> QED
    BY <1>5, <2>1, <2>2, <2>3, Bringing
<1>12. CASE CancelWhenBusy
  <2>1. /\ Runs(Event("CANCEL_COMMAND"), <<CleanUp>>) /\ Event("CANCEL_COMMAND") # Wakeup
        /\ UNCHANGED <<current, commandQueue, calls, terminal, answers, writeQueue, writing>>
    BY <1>8, <1>12 DEF CancelWhenBusy, history, serial, CleanUp
  <2> QED
    BY <1>6, <1>7, <2>1, Bringing
<1>13. CASE WriteCompleted \/ AckReceived \/ ResponseReceived \/ (\E e \in {"WRITE_FAILED", "WRITE_TIMEOUT"} : WriteNotDone(e))
            \/ (\E e \in {"ACK_TIMEOUT", "RESPONSE_TIMEOUT"} : ReplyTimeout(e))
  <2>1. state # "IDLE" /\ UNCHANGED <<current, commandQueue, calls, terminal, answers, writeQueue, writing>>
    BY <1>13 DEF WriteCompleted, AckReceived, ResponseReceived, WriteNotDone, ReplyTimeout, history, serial
  <2>2. PICK e \in Events : Runs(Event(e), <<>>) \/ Runs(Event(e), <<CheckQueue>>)
    BY <1>13 DEF WriteCompleted, AckReceived, ResponseReceived, WriteNotDone, ReplyTimeout, IdlePosts, Events
  <2> QED
    BY <1>6, <1>7, <2>1, <2>2
<1>14. ASSUME NEW e \in Events, IgnoreEvent(e) PROVE Numbered' /\ AnswersMatch'
  <2>1. Event(e) # Wakeup \/ state # "IDLE"
    BY <1>8, <1>14 DEF IgnoreEvent, Expected
  <2>2. Runs(Event(e), <<>>) /\ UNCHANGED <<current, commandQueue, calls, terminal, answers, writeQueue, writing>>
    BY <1>14 DEF IgnoreEvent, history, serial
  <2> QED
    BY <1>6, <1>7, <2>1, <2>2
<1>15. ASSUME NEW ok \in BOOLEAN, RunWriteEnd(ok) PROVE Numbered' /\ AnswersMatch'
  <2>1. PICK e \in Events \ {"CANCEL_COMMAND", "CANCEL_CLEAN_UP"} : Runs(WriteEnd(ok), <<Event(e)>>)
    BY <1>15 DEF RunWriteEnd, Events
  <2>2. /\ WriteEnd(ok) # Wakeup /\ UNCHANGED <<current, commandQueue, calls, terminal, answers, writing>>
        /\ writeQueue' \in {writeQueue, <<>>, Tail(writeQueue)} /\ (writeQueue = <<>> => writeQueue' = <<>>)
    BY <1>15, Fields DEF RunWriteEnd, history, Wakeup
  <2> QED
    BY <1>6, <1>7, <2>1, <2>2
<1>16. CASE RunWriteTimer
  <2>1. Runs(TimerFired("write"), <<>>) \/ Runs(TimerFired("write"), <<WriteEnd(FALSE)>>)
    BY <1>16 DEF RunWriteTimer
  <2>2. /\ TimerFired("write") # Wakeup /\ writing' \in {writing, NoFrame}
        /\ UNCHANGED <<current, commandQueue, calls, terminal, answers, writeQueue>>
    BY <1>16, Fields DEF RunWriteTimer, history, Wakeup
  <2> QED
    BY <1>6, <1>7, <2>1, <2>2
<1>17. CASE RunGapTimer
  <2>1. /\ Runs(TimerFired("gap"), <<>>) /\ TimerFired("gap") # Wakeup
        /\ UNCHANGED <<current, commandQueue, calls, terminal, answers, writeQueue>>
        /\ writing' = IF writeQueue = <<>> THEN writing ELSE Head(writeQueue)
    BY <1>17, Fields DEF RunGapTimer, history, Wakeup
  <2>2. Carried' \subseteq Carried
    <3>1. CASE writeQueue = <<>>
      BY <2>1, <3>1 DEF Carried
    <3>2. CASE writeQueue # <<>>
      <4>1. 1 \in DOMAIN writeQueue /\ writing' = writeQueue[1]
        BY <2>1, <3>2 DEF TypeOK
      <4> QED
        BY <2>1, <4>1 DEF Carried
    <3> QED
      BY <3>1, <3>2
  <2> QED
    BY <1>0, <2>1, <2>2, EmptyPosts, PostsOne, NumRun
<1>18. CASE RunGapAborted
  <2>1. /\ Runs(GapAborted, <<>>) /\ GapAborted # Wakeup
        /\ UNCHANGED <<current, commandQueue, calls, terminal, answers, writeQueue, writing>>
    BY <1>18, Fields DEF RunGapAborted, history, Wakeup
  <2> QED
    BY <1>6, <1>7, <2>1
<1>19. ASSUME NEW t \in {"ack", "rsp"}, RunReplyTimer(t) PROVE Numbered' /\ AnswersMatch'
  <2>1. PICK e \in Events \ {"CANCEL_COMMAND", "CANCEL_CLEAN_UP"} : Runs(TimerFired(t), <<Event(e)>>)
    BY <1>19 DEF RunReplyTimer, Events
  <2>2. TimerFired(t) # Wakeup /\ UNCHANGED <<current, commandQueue, calls, terminal, answers, writeQueue, writing>>
    BY <1>19, Fields DEF RunReplyTimer, history, serial, Wakeup
  <2> QED
    BY <1>6, <1>7, <2>1, <2>2
<1>20. CASE RunShutdown \/ DropHandler
  BY <1>20 DEF RunShutdown, DropHandler, IsOpen
<1> QED
  BY <1>1, <1>2, <1>3, <1>4, <1>9, <1>10, <1>11, <1>12, <1>13, <1>14, <1>15, <1>16, <1>17, <1>18, <1>19, <1>20
     DEF RunHandler

LEMMA NumOutside ==
  ASSUME NumbersSuffice, TypeOK, CallsBounded, Numbered, OutsideNext
  PROVE  IsOpen' => Numbered'
<1>0. Asked \in Nat /\ calls \in [request : Nat, cancel : Nat, close : Nat, fault : Nat]
  BY AskedSuffices DEF TypeOK
<1>1. /\ \A bound : Count("request", bound) => Asked' = Asked + 1
      /\ \A bound : Count("cancel", bound) => Asked' = Asked + 1
      /\ \A bound : Count("fault", bound) => Asked' = Asked + 1
      /\ calls' = calls => Asked' = Asked
  <2>1. ASSUME NEW bound, Count("request", bound) PROVE Asked' = Asked + 1
    BY <1>0, <2>1 DEF Count, Asked
  <2>2. ASSUME NEW bound, Count("cancel", bound) PROVE Asked' = Asked + 1
    BY <1>0, <2>2 DEF Count, Asked
  <2>3. ASSUME NEW bound, Count("fault", bound) PROVE Asked' = Asked + 1
    BY <1>0, <2>3 DEF Count, Asked
  <2> QED
    BY <2>1, <2>2, <2>3 DEF Asked
<1> HIDE DEF Asked
<1>2. UNCHANGED <<writeQueue, writing, terminal>> => Carried' = Carried
  BY DEF Carried
<1>3. ASSUME NEW cmd \in Requests, FnUptSend(cmd) PROVE Numbered'
  <2>1. Enqueue(cmd, FALSE) \in Handler /\ Fit(Enqueue(cmd, FALSE))
    <3>1. cmd \in Cmds /\ cmd # "RESET_SEQ"
      BY UptAssumption DEF Cmds
    <3> QED
      BY <3>1, HandlerTypes, Bringing
  <2>2. /\ ready' = Append(ready, Enqueue(cmd, FALSE)) /\ Count("request", MaxRequests)
        /\ UNCHANGED <<current, commandQueue, state, writeQueue, writing, terminal>>
    BY <1>3 DEF FnUptSend, serial
  <2> QED
    BY <1>1, <1>2, <2>1, <2>2, NumArrive
<1>4. CASE FnUptSendCancel
  <2>1. Event("CANCEL_COMMAND") \in Handler /\ Fit(Event("CANCEL_COMMAND"))
    BY HandlerTypes, Bringing, Fields DEF Events
  <2>2. /\ ready' = Append(ready, Event("CANCEL_COMMAND")) /\ Count("cancel", MaxCancels)
        /\ UNCHANGED <<current, commandQueue, state, writeQueue, writing, terminal>>
    BY <1>4 DEF FnUptSendCancel, serial
  <2> QED
    BY <1>1, <1>2, <2>1, <2>2, NumArrive
<1>5. CASE FnUptClose
  BY <1>5 DEF FnUptClose, IsOpen
<1>6. CASE WriteDone \/ WriteError
  <2>1. PICK ok \in BOOLEAN : ready' = Append(ready, WriteEnd(ok))
    BY <1>6 DEF WriteDone, WriteError
  <2>2. WriteEnd(ok) \in Handler /\ Fit(WriteEnd(ok)) /\ WriteEnd(ok) \notin Bringers
    BY HandlerTypes, Bringing, Fields
  <2>3. UNCHANGED <<current, commandQueue, state, writeQueue>> /\ (calls' = calls \/ Count("fault", MaxFaults))
    BY <1>6 DEF WriteDone, WriteError
  <2>4. Carried' \subseteq Carried
    <3>1. /\ writing # NoFrame /\ writing' = NoFrame
          /\ terminal' = {[frame |-> writing, acked |-> FALSE]} \/ terminal' = terminal
      BY <1>6 DEF WriteDone, WriteError
    <3>2. writing \in Carried
      BY <3>1 DEF Carried
    <3>3. {d.frame : d \in terminal'} \subseteq Carried
      <4>1. CASE terminal' = terminal
        BY <4>1 DEF Carried
      <4>2. CASE terminal' = {[frame |-> writing, acked |-> FALSE]}
        BY <3>2, <4>2
      <4> QED
        BY <3>1, <4>1, <4>2
    <3> QED
      BY <2>3, <3>1, <3>3 DEF Carried
  <2> QED
    BY <1>1, <2>1, <2>2, <2>3, <2>4, NumArrive
<1>7. ASSUME NEW t \in Timers, TimerExpires(t) PROVE Numbered'
  <2>1. TimerFired(t) \in Handler /\ Fit(TimerFired(t)) /\ TimerFired(t) \notin Bringers
    BY HandlerTypes, Bringing, Fields
  <2>2. /\ ready' = Append(ready, TimerFired(t)) /\ calls' = calls
        /\ UNCHANGED <<current, commandQueue, state, writeQueue, writing, terminal>>
    BY <1>7 DEF TimerExpires, serial
  <2> QED
    BY <1>1, <1>2, <2>1, <2>2, NumArrive
<1>8. ASSUME NEW d \in terminal, NEW class, NEW st
      PROVE  /\ d.frame \in Carried /\ Past(ReplyTo(d.frame, class, st))
             /\ ReplyTo(d.frame, class, st).status = st
             /\ class \in {"ACK", "RSP"} /\ st \in Status => ReplyTo(d.frame, class, st) \in Reply
  <2>1. d \in [frame : Frame, acked : BOOLEAN] /\ d.frame \in Carried
    BY DEF TypeOK, Carried
  <2>2. Past(d.frame)
    BY <2>1 DEF Numbered
  <2> QED
    BY <2>1, <2>2 DEF ReplyTo, Past, Reply, Frame
<1>9. ASSUME NEW d \in terminal, NEW lost \in BOOLEAN, NEW st \in Status, TerminalAcks(d, lost, st) PROVE Numbered'
  <2> DEFINE r == ReplyTo(d.frame, "ACK", st)
             rs == <<r>>
             h == ReadEnd(rs)
  <2>1. Past(r) /\ r.status = st /\ r \in Reply
    BY <1>8
  <2>2. h \in Handler /\ h.h = "read" /\ h.replies = rs /\ DOMAIN rs = {1} /\ Len(rs) = 1 /\ rs[1] = r
    BY <2>1, HandlerTypes DEF ReadEnd
  <2>3. /\ UNCHANGED <<current, commandQueue, state, writeQueue, writing>>
        /\ ready' = ready \/ ready' = Append(ready, h)
        /\ IF st = "OK" THEN calls' = calls ELSE Count("fault", MaxFaults)
        /\ terminal' = (terminal \ {d}) \cup IF st = "INVALID" THEN {} ELSE {[d EXCEPT !.acked = TRUE]}
    BY <1>9 DEF TerminalAcks, serial
  <2> HIDE DEF r, rs
  <2>4. Fit(h)
    <3>1. h.h # "enqueue" /\ \A k \in DOMAIN h.replies : Past(h.replies[k])
      BY <2>1, <2>2
    <3> QED
      BY <2>2, <3>1 DEF Fit
  <2>5. st \notin AsksFor => h \notin Bringers
    <3>1. h \notin {Event("CANCEL_COMMAND"), CleanUp}
      BY <2>2, Fields DEF CleanUp
    <3> HIDE DEF h
    <3> QED
      BY <2>1, <2>2, <3>1 DEF Bringers, Brings
  <2>6. Carried' \subseteq Carried
    <3>1. [d EXCEPT !.acked = TRUE].frame = d.frame
      BY DEF TypeOK
    <3>2. {x.frame : x \in terminal'} \subseteq {x.frame : x \in terminal}
      BY <2>3, <3>1
    <3> QED
      BY <2>3, <3>2 DEF Carried
  <2>7. st = "OK" => st \notin AsksFor
    BY UptAssumption
  <2> HIDE DEF h
  <2>8. CASE ready' = Append(ready, h)
    BY <1>1, <2>2, <2>3, <2>4, <2>5, <2>6, <2>7, <2>8, NumArrive
  <2>9. CASE ready' = ready
    <3>1. Asked' \in Nat /\ Asked <= Asked'
      BY <1>0, <1>1, <2>3
    <3> QED
      BY <1>0, <2>3, <2>6, <2>9, <3>1, NumStays
  <2> QED
    BY <2>3, <2>8, <2>9
<1>10. ASSUME NEW d \in terminal, NEW st \in Status \ {"INVALID"}, TerminalResponds(d, st) PROVE Numbered'
  <2> DEFINE ack == ReplyTo(d.frame, "ACK", "OK")
             rsp == ReplyTo(d.frame, "RSP", st)
             rs == IF d.acked THEN <<rsp>> ELSE <<ack, rsp>>
             h == ReadEnd(rs)
  <2>1. /\ Past(ack) /\ ack.status = "OK" /\ ack \in Reply /\ Past(rsp) /\ rsp.status = st /\ rsp \in Reply
    BY <1>8 DEF Status
  <2>2. /\ UNCHANGED <<current, commandQueue, state, writeQueue, writing>> /\ ready' = Append(ready, h)
        /\ IF st = "OK" THEN calls' = calls ELSE Count("fault", MaxFaults)
        /\ terminal' = terminal \ {d}
    BY <1>10 DEF TerminalResponds, serial
  <2> HIDE DEF ack, rsp
  <2>3. /\ h \in Handler /\ h.h = "read" /\ h.replies = rs
        /\ \A k \in DOMAIN rs : rs[k] = rsp \/ (rs[k] = ack /\ k = 1)
        /\ Len(rs) > 1 => rs[1] = ack
    <3>1. rs = <<rsp>> \/ rs = <<ack, rsp>>
      OBVIOUS
    <3>2. h \in Handler
      BY <2>1, <3>1, HandlerTypes
    <3>3. h.h = "read" /\ h.replies = rs
      BY DEF ReadEnd
    <3> QED
      BY <3>1, <3>2, <3>3
  <2> HIDE DEF rs
  <2>4. "OK" \notin AsksFor
    BY UptAssumption
  <2>5. Fit(h)
    <3>1. h.h # "enqueue" /\ \A k \in DOMAIN h.replies : Past(h.replies[k])
      BY <2>1, <2>3
    <3> QED
      BY <2>1, <2>3, <2>4, <3>1 DEF Fit
  <2>6. st \notin AsksFor => h \notin Bringers
    <3>1. h \notin {Event("CANCEL_COMMAND"), CleanUp}
      BY <2>3, Fields DEF CleanUp
    <3> HIDE DEF h
    <3> QED
      BY <2>1, <2>3, <2>4, <3>1 DEF Bringers, Brings
  <2>7. Carried' \subseteq Carried
    BY <2>2 DEF Carried
  <2> HIDE DEF h
  <2> QED
    BY <1>1, <2>2, <2>3, <2>4, <2>5, <2>6, <2>7, NumArrive
<1> QED
  BY <1>3, <1>4, <1>5, <1>6, <1>7, <1>9, <1>10 DEF OutsideNext

NumInv == AnswersMatch /\ (IsOpen => Numbered)

LEMMA NumStep ==
  ASSUME NumbersSuffice
  PROVE  TypeOK /\ CallsBounded /\ NumInv /\ [Next]_vars => NumInv'
<1> SUFFICES ASSUME TypeOK, CallsBounded, NumInv, [Next]_vars PROVE NumInv'
  OBVIOUS
<1>1. CASE OutsideNext
  <2>1. IsOpen
    BY <1>1 DEF OutsideNext, FnUptSend, FnUptSendCancel, FnUptClose, WriteDone, WriteError, TimerExpires,
                TerminalAcks, TerminalResponds, Accepting
  <2>2. UNCHANGED <<answers, current>>
    BY <1>1 DEF OutsideNext, FnUptSend, FnUptSendCancel, FnUptClose, WriteDone, WriteError, TimerExpires,
                TerminalAcks, TerminalResponds, history
  <2> QED
    BY <1>1, <2>1, <2>2, NumOutside DEF NumInv, AnswersMatch
<1>2. CASE RunHandler /\ IsOpen
  BY <1>2, NumRuns DEF NumInv
<1>3. CASE RunHandler /\ ~IsOpen
  <2>1. RunShutdown \/ DropHandler
    BY <1>3 DEF RunHandler, RunEnqueue, RunCheckQueue, SendNextCommand, SendNothing, CancelWhenIdle, WriteCompleted,
                WriteNotDone, AckReceived, ResponseReceived, ReplyTimeout, CancelWhenBusy, CancelCleanUp, IgnoreEvent,
                RunWriteEnd, RunWriteTimer, RunGapTimer, RunGapAborted, RunReplyTimer, RunReadEnd, Runs
  <2> QED
    BY <1>3, <2>1 DEF RunShutdown, DropHandler, NumInv, AnswersMatch, IsOpen, history
<1>4. CASE Joined
  BY <1>4 DEF Joined, NumInv, AnswersMatch, IsOpen
<1>5. CASE UNCHANGED vars
  <2>1. UNCHANGED <<answers, current, phase>>
    BY <1>5 DEF vars, history
  <2>2. UNCHANGED <<current, commandQueue, state, ready>> /\ Carried' = Carried /\ Asked' = Asked
    BY <1>5 DEF vars, serial, Carried, Asked
  <2>3. Asked \in Nat /\ Asked' \in Nat /\ Asked <= Asked'
    BY <2>2, AskedSuffices
  <2>4. Numbered => Numbered'
    BY <2>2, <2>3, NumStays
  <2> QED
    BY <2>1, <2>4 DEF NumInv, AnswersMatch, IsOpen
<1> QED
  BY <1>1, <1>2, <1>3, <1>4, <1>5, NextCases

LEMMA InitNum == Init => NumInv
<1> SUFFICES ASSUME Init PROVE NumInv
  OBVIOUS
<1>1. \A i \in DOMAIN ready : ready[i] = Wakeup
  <2>1. \A x : Has(ready, x) => x = Wakeup
    BY HasIn DEF Init, Wakeup
  <2> QED
    BY <2>1 DEF Has
<1>2. Wakeup \notin Bringers /\ Fit(Wakeup)
  BY Bringing, Fields DEF Wakeup
<1>3. ToCome(ready) = 0
  <2>1. {i \in DOMAIN ready : ready[i] \in Bringers} = {}
    BY <1>1, <1>2
  <2> QED
    BY <2>1, FS_EmptySet DEF ToCome
<1>4. Rank(current.seq) = 0 /\ Asked = 2 /\ Len(commandQueue) = 2
  BY DEF Init, Rank, Asked
<1>5. Rank(current.seq) + Len(commandQueue) + ToCome(ready) <= Asked
  BY <1>3, <1>4
<1>6. Carried = {}
  BY DEF Init, Carried
<1>7. Starting /\ current.seq = 0 /\ AnswersMatch
  BY DEF Init, Starting, Wakeup, AnswersMatch
<1> QED
  BY <1>1, <1>2, <1>5, <1>6, <1>7 DEF NumInv, Numbered

\* A response counts for the command sent last, never for one that timed out or was cancelled before it
\* (handleReceivedCmd compares sequence numbers), however long the terminal keeps an old frame: as long as
\* no number is used twice, so with no reset asked for by the terminal and more numbers than commands.
THEOREM AnswersAreCurrent == ASSUME NumbersSuffice PROVE Spec => []AnswersMatch
<1>1. Init => TypeOK /\ CallsBounded /\ NumInv
  BY InitType, InitCalls, InitNum
<1>2. TypeOK /\ CallsBounded /\ NumInv /\ [Next]_vars => (TypeOK /\ CallsBounded /\ NumInv)'
  BY TypeStep, CallsStep, NumStep
<1>3. TypeOK /\ CallsBounded /\ NumInv => AnswersMatch
  BY DEF NumInv
<1> QED
  BY <1>1, <1>2, <1>3, PTL DEF Spec

=============================================================================
