-------------------------- MODULE EepClientProofs --------------------------
(***************************************************************************)
(* Proofs about the client of the EEP controller: its state is well        *)
(* formed, in every state something ends it, and an answer is reported for *)
(* the request it was sent for, for any requests and any number of faults; *)
(* and while there is no fault no request is reported as failed.           *)
(***************************************************************************)
EXTENDS EepClient, SequenceTheorems, FiniteSetTheorems, TLAPS

Cmds == Requests \cup Unsolicited
Nums == {0, 1, 2}
EventNames ==
  {"connect", "connect_success", "connect_fail", "check_command", "write_command", "write_completed",
   "write_timeout", "ack_received", "ack_as_rsp", "rsp_received", "unsolicited_done", "ack_timeout",
   "rsp_timeout", "reconnect"}

\* What the client sends, what comes back, and what a read that fails is taken for.
Asked  == [m : {"rsp"}, c : Requests, seq : Nums]
Outs   == Asked \cup [m : {"note"}, c : Unsolicited, seq : {NoSeq}]
Answers == [m : {"ack", "nak", "rsp"}, c : Requests, seq : Nums]
Wires  == Answers \cup [m : {"note"}, c : Notified, seq : {NoSeq}]
Heard  == Wires \cup [m : {"lost", "garbled", "short"}, c : {"watchdog"}, seq : {NoSeq}]

Tasks ==
  [t : {"event"}, x : EventNames] \cup [t : {"check", "connect", "close"}, x : {"queue", "socket"}]
    \cup [t : {"enqueue"}, x : Cmds] \cup [t : {"failure"}, x : {"deduct"}] \cup [t : {"received"}, x : Heard]
    \cup [t : {"sent", "connected"}, x : BOOLEAN] \cup [t : {"timer"}, x : Timers] \cup [t : {"send"}, x : Outs]

EepState ==
  [state : States, queue : Seq(Cmds), current : Cmds, requested : Requests, seq : Nums, expected : Nums \cup {NoSeq},
   missed : 0..MissedLimit - 1, timers : SUBSET Timers, posts : Seq(Tasks), connected : BOOLEAN,
   connecting : BOOLEAN, out : Seq(Outs), stopping : BOOLEAN, open : SUBSET Calls, failed : SUBSET Requests,
   odd : BOOLEAN]

\* A socket is connected or being connected, and writes only while it is; the answer that is expected has
\* the number that was given last.
Sound(s) ==
  /\ s \in EepState
  /\ ~(s.connected /\ s.connecting)
  /\ s.out # << >> => s.connected
  /\ s.expected # NoSeq => s.expected = (s.seq - 1) % Sequences
  /\ ~s.odd

------------------------------------------------------------------------------
\* What ends a state: a timer of its own, or a task it reacts to.

Ending(st) ==
  CASE st = "idle"       -> {"connect"}
    [] st = "connecting" -> {"connect_success", "connect_fail"}
    [] st = "writing"    -> {"write_completed", "write_timeout", "reconnect"}
    [] st = "waiting"    -> {"ack_received", "ack_as_rsp", "rsp_received", "ack_timeout", "rsp_timeout",
                             "unsolicited_done", "reconnect"}
    [] OTHER -> {}
TimersOf(st) ==
  CASE st = "idle" -> {"reconnect"} [] st = "connecting" -> {"connect"} [] st = "writing" -> {"send"}
    [] st = "waiting" -> {"ack", "response"} [] OTHER -> {}

Escape(task, st) ==
  \/ task.t = "event" /\ task.x \in Ending(st)
  \/ task.t = "timer" /\ task.x \in TimersOf(st)
  \/ task.t = "connected" /\ st = "connecting"
  \/ task.t = "sent" /\ st = "writing"

Pending(q, st) == \E i \in DOMAIN q : Escape(q[i], st)
Ends(s, st) == TimersOf(st) \cap s.timers # {} \/ Pending(s.posts, st)
ArmedIn(s) == s.stopping \/ s.state = "connected" \/ Ends(s, s.state)

\* A state that ends still ends.
Covers(s, t) ==
  /\ t.state = s.state /\ t.stopping = s.stopping
  /\ \A st \in States : Ends(s, st) => Ends(t, st)

EepInv(s) == Sound(s) /\ ArmedIn(s)

------------------------------------------------------------------------------
\* Sequences of tasks.

LEMMA SeqParts ==
  ASSUME NEW S, NEW q \in Seq(S)
  PROVE  /\ Len(q) \in Nat /\ DOMAIN q = 1..Len(q)
         /\ \A a \in S : /\ Append(q, a) \in Seq(S) /\ Len(Append(q, a)) = Len(q) + 1
                         /\ DOMAIN Append(q, a) = 1..(Len(q) + 1)
                         /\ \A i \in 1..Len(q) : Append(q, a)[i] = q[i]
                         /\ Append(q, a)[Len(q) + 1] = a
OBVIOUS

LEMMA TailParts ==
  ASSUME NEW S, NEW q \in Seq(S), q # << >>
  PROVE  /\ Head(q) \in S /\ Tail(q) \in Seq(S) /\ Len(q) \in Nat /\ Len(q) > 0
         /\ Head(q) = q[1] /\ DOMAIN q = 1..Len(q) /\ DOMAIN Tail(q) = 1..(Len(q) - 1)
         /\ \A i \in 1..(Len(q) - 1) : Tail(q)[i] = q[i + 1]
OBVIOUS

LEMMA AppendPends ==
  ASSUME NEW q \in Seq(Tasks), NEW a \in Tasks, NEW st
  PROVE  /\ Append(q, a) \in Seq(Tasks)
         /\ Pending(q, st) => Pending(Append(q, a), st)
         /\ Escape(a, st) => Pending(Append(q, a), st)
<1>1. /\ Len(q) \in Nat /\ DOMAIN q = 1..Len(q)
      /\ Append(q, a) \in Seq(Tasks) /\ DOMAIN Append(q, a) = 1..(Len(q) + 1)
      /\ \A i \in 1..Len(q) : Append(q, a)[i] = q[i]
      /\ Append(q, a)[Len(q) + 1] = a
  BY SeqParts
<1> DEFINE r == Append(q, a)
<1> HIDE DEF r
<1>2. ASSUME NEW i \in DOMAIN q, Escape(q[i], st) PROVE Pending(r, st)
  <2>1. i \in DOMAIN r /\ r[i] = q[i]
    BY <1>1 DEF r
  <2> QED
    BY <1>2, <2>1 DEF Pending
<1>3. ASSUME Escape(a, st) PROVE Pending(r, st)
  <2>1. Len(q) + 1 \in DOMAIN r /\ r[Len(q) + 1] = a
    BY <1>1 DEF r
  <2> QED
    BY <1>3, <2>1 DEF Pending
<1> QED
  BY <1>1, <1>2, <1>3 DEF Pending, r

LEMMA TailPends ==
  ASSUME NEW q \in Seq(Tasks), q # << >>, NEW st, Pending(q, st)
  PROVE  Escape(Head(q), st) \/ Pending(Tail(q), st)
<1>1. /\ Len(q) \in Nat /\ Len(q) > 0 /\ Head(q) = q[1] /\ DOMAIN q = 1..Len(q)
      /\ DOMAIN Tail(q) = 1..(Len(q) - 1) /\ \A i \in 1..(Len(q) - 1) : Tail(q)[i] = q[i + 1]
  BY TailParts
<1>2. PICK i \in DOMAIN q : Escape(q[i], st)
  BY DEF Pending
<1>3. CASE i = 1
  BY <1>1, <1>2, <1>3
<1>4. CASE i # 1
  <2>1. i - 1 \in DOMAIN Tail(q) /\ Tail(q)[i - 1] = q[i]
    BY <1>1, <1>4
  <2> QED
    BY <1>2, <2>1 DEF Pending
<1> QED
  BY <1>3, <1>4

LEMMA ConcatPends ==
  ASSUME NEW q \in Seq(Tasks), NEW r \in Seq(Tasks), NEW st, Pending(q, st)
  PROVE  Pending(q \o r, st)
<1>1. PICK i \in DOMAIN q : Escape(q[i], st)
  BY DEF Pending
<1>2. i \in DOMAIN (q \o r) /\ (q \o r)[i] = q[i]
  <2>1. /\ Len(q) \in Nat /\ Len(r) \in Nat /\ DOMAIN q = 1..Len(q) /\ Len(q \o r) = Len(q) + Len(r)
        /\ DOMAIN (q \o r) = 1..Len(q \o r) /\ i \in 1..Len(q)
    BY ConcatProperties
  <2>2. i \in 1..(Len(q) + Len(r))
    BY <2>1
  <2> QED
    BY <2>1, <2>2, ConcatProperties
<1> QED
  BY <1>1, <1>2 DEF Pending

LEMMA CoversTwice == ASSUME NEW s, NEW t, NEW u, Covers(s, t), Covers(t, u) PROVE Covers(s, u)
BY DEF Covers

------------------------------------------------------------------------------
\* The operations of the client.

\* Setting what neither the socket nor the numbers are.
LEMMA PostKeeps ==
  ASSUME NEW s, Sound(s), NEW t, NEW x, [t |-> t, x |-> x] \in Tasks
  PROVE  /\ Sound(Post(s, t, x)) /\ Covers(s, Post(s, t, x))
         /\ \A st \in States : Escape([t |-> t, x |-> x], st) => Ends(Post(s, t, x), st)
         /\ \A k \in DOMAIN s \ {"posts"} : Post(s, t, x)[k] = s[k]
<1> DEFINE a == [t |-> t, x |-> x]
           q == Append(s.posts, a)
           u == [s EXCEPT !.posts = q]
<1>1. s.posts \in Seq(Tasks) /\ a \in Tasks
  BY DEF Sound, EepState
<1> HIDE DEF a
<1>2. q \in Seq(Tasks) /\ \A st \in States : Pending(s.posts, st) \/ Escape(a, st) => Pending(q, st)
  BY <1>1, AppendPends
<1> HIDE DEF q
<1>3. Sound(u) /\ u.posts = q /\ u.timers = s.timers /\ u.state = s.state /\ u.stopping = s.stopping
      /\ \A k \in DOMAIN s \ {"posts"} : u[k] = s[k]
  BY <1>2 DEF Sound, EepState
<1> HIDE DEF u
<1>4. Covers(s, u) /\ \A st \in States : Escape(a, st) => Ends(u, st)
  BY <1>2, <1>3 DEF Covers, Ends
<1>5. u = Post(s, t, x)
  BY DEF u, q, a, Post
<1> QED
  BY <1>3, <1>4, <1>5 DEF a

LEMMA EventKeeps ==
  ASSUME NEW s, Sound(s), NEW ev \in EventNames
  PROVE  /\ Sound(Event(s, ev)) /\ Covers(s, Event(s, ev))
         /\ \A st \in States : ev \in Ending(st) => Ends(Event(s, ev), st)
         /\ \A k \in DOMAIN s \ {"posts"} : Event(s, ev)[k] = s[k]
<1>1. [t |-> "event", x |-> ev] \in Tasks
  BY DEF Tasks
<1>2. \A st : ev \in Ending(st) => Escape([t |-> "event", x |-> ev], st)
  BY DEF Escape
<1> QED
  BY <1>1, <1>2, PostKeeps DEF Event

LEMMA StartKeeps ==
  ASSUME NEW s, Sound(s), NEW t \in Timers
  PROVE  /\ Sound(Start(s, t)) /\ Covers(s, Start(s, t))
         /\ \A st \in States : t \in TimersOf(st) => Ends(Start(s, t), st)
<1>1. Sound(Start(s, t)) /\ Start(s, t).posts = s.posts /\ Start(s, t).timers = s.timers \cup {t}
      /\ Start(s, t).state = s.state /\ Start(s, t).stopping = s.stopping
  BY DEF Sound, EepState, Start
<1> QED
  BY <1>1 DEF Covers, Ends

\* Only the states that the timers are for may need them.
LEMMA CancelKeeps ==
  ASSUME NEW s, Sound(s), NEW ts
  PROVE  /\ Sound(Cancel(s, ts)) /\ Cancel(s, ts).state = s.state /\ Cancel(s, ts).stopping = s.stopping
         /\ Cancel(s, ts).requested = s.requested /\ Cancel(s, ts).expected = s.expected
         /\ \A st \in States : Ends(s, st) /\ TimersOf(st) \cap ts = {} => Ends(Cancel(s, ts), st)
<1>1. Sound(Cancel(s, ts)) /\ Cancel(s, ts).posts = s.posts /\ Cancel(s, ts).timers = s.timers \ ts
      /\ Cancel(s, ts).state = s.state /\ Cancel(s, ts).stopping = s.stopping
      /\ Cancel(s, ts).requested = s.requested /\ Cancel(s, ts).expected = s.expected
  BY DEF Sound, EepState, Cancel
<1> QED
  BY <1>1 DEF Ends

\* Without the timers, the tasks and the state, any change covers.
LEMMA SameCovers ==
  ASSUME NEW s, NEW t, t.state = s.state, t.stopping = s.stopping, t.timers = s.timers, t.posts = s.posts
  PROVE  Covers(s, t)
BY DEF Covers, Ends

LEMMA CheckKeeps ==
  ASSUME NEW s, Sound(s)
  PROVE  Sound(CheckCommandQueue(s)) /\ Covers(s, CheckCommandQueue(s))
<1>1. Covers(s, s)
  BY DEF Covers
<1> QED
  BY <1>1, EventKeeps DEF CheckCommandQueue, EventNames

LEMMA MissedKeeps ==
  ASSUME EepAssumption, NEW s, Sound(s), NEW n \in Nat
  PROVE  Sound(Missed(s, n)) /\ Covers(s, Missed(s, n))
<1> DEFINE a == [t |-> "event", x |-> "reconnect"]
           k == (s.missed + n) \div MissedLimit
           again == [i \in 1..k |-> a]
           q == s.posts \o again
           u == [s EXCEPT !.missed = (s.missed + n) % MissedLimit, !.posts = q]
<1>1. (s.missed + n) % MissedLimit \in 0..MissedLimit - 1 /\ k \in Nat
  <2>1. s.missed + n \in Nat /\ MissedLimit \in Nat \ {0}
    <3>1. s.missed \in 0..MissedLimit - 1
      BY DEF Sound, EepState
    <3> QED
      BY <3>1 DEF EepAssumption
  <2> QED
    BY <2>1
<1>2. s.posts \in Seq(Tasks) /\ a \in Tasks
  BY DEF Sound, EepState, Tasks, EventNames
<1> HIDE DEF a, k
<1>3. again \in Seq(Tasks)
  BY <1>1, <1>2
<1> HIDE DEF again
<1>4. q \in Seq(Tasks) /\ \A st \in States : Pending(s.posts, st) => Pending(q, st)
  BY <1>2, <1>3, ConcatPends
<1> HIDE DEF q
<1>5. Sound(u) /\ u.posts = q /\ u.timers = s.timers /\ u.state = s.state /\ u.stopping = s.stopping
  BY <1>1, <1>4 DEF Sound, EepState
<1> HIDE DEF u
<1>6. Covers(s, u)
  BY <1>4, <1>5 DEF Covers, Ends
<1>7. u = Missed(s, n)
  BY DEF u, q, again, k, a, Missed
<1> QED
  BY <1>5, <1>6, <1>7

LEMMA FailedKeeps ==
  ASSUME EepAssumption, NEW s, Sound(s), NEW cs \in Seq(Cmds)
  PROVE  Sound(Failed(s, cs)) /\ Covers(s, Failed(s, cs))
<1> DEFINE told == {cs[i] : i \in DOMAIN cs} \ (Unsolicited \cup {"watchdog", "health"})
           n == Cardinality({i \in DOMAIN cs : cs[i] = "watchdog"})
           u == [s EXCEPT !.open = @ \ told, !.failed = IF s.connected THEN @ \cup told ELSE @]
<1>1. told \subseteq Requests
  BY DEF Cmds
<1>2. n \in Nat
  <2>1. IsFiniteSet(1..Len(cs)) /\ DOMAIN cs = 1..Len(cs)
    BY FS_Interval
  <2>2. IsFiniteSet({i \in DOMAIN cs : cs[i] = "watchdog"})
    BY <2>1, FS_Subset
  <2> QED
    BY <2>2, FS_CardinalityType
<1> HIDE DEF told, n
<1>3. Sound(u) /\ u.posts = s.posts /\ u.timers = s.timers /\ u.state = s.state /\ u.stopping = s.stopping
  BY <1>1 DEF Sound, EepState
<1> HIDE DEF u
<1>4. Covers(s, u) /\ Sound(Missed(u, n)) /\ Covers(u, Missed(u, n))
  BY <1>2, <1>3, SameCovers, MissedKeeps
<1>5. Failed(s, cs) = Missed(u, n)
  BY DEF Failed, u, told, n
<1> QED
  BY <1>4, <1>5, CoversTwice

LEMMA PushTypes ==
  ASSUME NEW q \in Seq(Cmds), NEW c \in Cmds
  PROVE  Push(q, c) \in Seq(Cmds) /\ Push(q, c) # << >>
<1> DEFINE S == {i \in DOMAIN q : Priority(q[i]) <= Priority(c)}
           n == 1 + Cardinality(S)
<1>1. Len(q) \in Nat /\ DOMAIN q = 1..Len(q) /\ IsFiniteSet(1..Len(q)) /\ Cardinality(1..Len(q)) = Len(q)
  <2>1. Len(q) \in Nat /\ DOMAIN q = 1..Len(q)
    OBVIOUS
  <2>2. /\ IsFiniteSet(1..Len(q))
        /\ Cardinality(1..Len(q)) = IF 1 > Len(q) THEN 0 ELSE Len(q) - 1 + 1
    BY <2>1, FS_Interval
  <2> QED
    BY <2>1, <2>2
<1>2. IsFiniteSet(S) /\ Cardinality(S) <= Len(q)
  BY <1>1, FS_Subset
<1>3. Cardinality(S) \in Nat
  BY <1>2, FS_CardinalityType
<1> HIDE DEF S
<1>4. n \in 1..(Len(q) + 1) /\ n - 1 \in 0..Len(q)
  BY <1>1, <1>2, <1>3
<1> HIDE DEF n
<1> DEFINE a == SubSeq(q, 1, n - 1)
           b == SubSeq(q, n, Len(q))
<1>5. a \in Seq(Cmds) /\ b \in Seq(Cmds)
  BY <1>1, <1>4, SubSeqProperties
<1> HIDE DEF a, b
<1>6. (a \o <<c>>) \o b \in Seq(Cmds) /\ (a \o <<c>>) \o b # << >>
  BY <1>5
<1> QED
  BY <1>6 DEF Push, InsertAt, n, S, a, b

LEMMA EnqueueKeeps ==
  ASSUME EepAssumption, NEW s, Sound(s), NEW c \in Cmds
  PROVE  Sound(Enqueue(s, c)) /\ Covers(s, Enqueue(s, c))
<1> DEFINE q == Push(s.queue, c)
           u == [s EXCEPT !.queue = q]
<1>1. CASE ~s.connected
  <2>1. <<c>> \in Seq(Cmds)
    OBVIOUS
  <2> QED
    BY <1>1, <2>1, FailedKeeps DEF Enqueue
<1>2. CASE s.connected
  <2>1. q \in Seq(Cmds)
    BY PushTypes DEF Sound, EepState
  <2> HIDE DEF q
  <2>2. Sound(u) /\ u.posts = s.posts /\ u.timers = s.timers /\ u.state = s.state /\ u.stopping = s.stopping
    BY <2>1 DEF Sound, EepState
  <2> HIDE DEF u
  <2>3. Covers(s, u) /\ Sound(CheckCommandQueue(u)) /\ Covers(u, CheckCommandQueue(u))
    BY <2>2, SameCovers, CheckKeeps
  <2>4. Enqueue(s, c) = CheckCommandQueue(u)
    BY <1>2 DEF Enqueue, u, q
  <2> QED
    BY <2>3, <2>4, CoversTwice
<1> QED
  BY <1>1, <1>2

LEMMA PreparedKeeps ==
  ASSUME NEW s, Sound(s), NEW c \in Cmds
  PROVE  Sound(Prepared(s, c)) /\ Covers(s, Prepared(s, c))
<1>1. CASE c \in Unsolicited
  <2>1. Message("note", c, NoSeq) \in Outs
    BY <1>1 DEF Outs, Message
  <2>2. [t |-> "send", x |-> Message("note", c, NoSeq)] \in Tasks
    BY <2>1 DEF Tasks
  <2> QED
    BY <1>1, <2>2, PostKeeps DEF Prepared
<1>2. CASE c \notin Unsolicited
  <2> DEFINE u == [s EXCEPT !.expected = s.seq, !.seq = (@ + 1) % Sequences]
             m == Message("rsp", c, s.seq)
  <2>1. s.seq \in Nums /\ c \in Requests
    BY <1>2 DEF Sound, EepState, Cmds
  <2>2. m \in Outs
    BY <2>1 DEF Outs, Asked, Message
  <2>3. [t |-> "send", x |-> m] \in Tasks
    BY <2>2 DEF Tasks
  <2>4. (s.seq + 1) % Sequences \in Nums /\ s.seq = (((s.seq + 1) % Sequences) - 1) % Sequences
    BY <2>1 DEF Nums, Sequences
  <2> DEFINE k == (s.seq + 1) % Sequences
             w == [s EXCEPT !.expected = s.seq, !.seq = k]
  <2>5. u = w /\ k \in Nums /\ s.seq = (k - 1) % Sequences
    BY <2>4
  <2> HIDE DEF k, u
  <2>6. Sound(w) /\ w.posts = s.posts /\ w.timers = s.timers /\ w.state = s.state /\ w.stopping = s.stopping
    BY <2>1, <2>5 DEF Sound, EepState
  <2> HIDE DEF w, m
  <2>7. Covers(s, w) /\ Sound(Post(w, "send", m)) /\ Covers(w, Post(w, "send", m))
    BY <2>3, <2>6, SameCovers, PostKeeps
  <2>8. Prepared(s, c) = Post(w, "send", m)
    BY <1>2, <2>5 DEF Prepared, u, m
  <2> QED
    BY <2>7, <2>8, CoversTwice
<1> QED
  BY <1>1, <1>2

LEMMA PopKeeps ==
  ASSUME NEW s, Sound(s)
  PROVE  Sound(Pop(s)) /\ Covers(s, Pop(s))
<1>1. CASE s.queue = << >>
  BY <1>1 DEF Pop, Covers
<1>2. CASE s.queue # << >>
  <2> DEFINE c == Head(s.queue)
             r == Tail(s.queue)
             taken == [s EXCEPT !.queue = r, !.current = c]
             asked == [taken EXCEPT !.requested = c]
             u == IF c \in Unsolicited THEN taken ELSE asked
  <2>1. c \in Cmds /\ r \in Seq(Cmds)
    BY <1>2 DEF Sound, EepState
  <2>2. Pop(s) = Prepared(u, c)
    BY <1>2 DEF Pop
  <2> HIDE DEF c, r
  <2>3. /\ Sound(taken) /\ taken.posts = s.posts /\ taken.timers = s.timers
        /\ taken.state = s.state /\ taken.stopping = s.stopping
    BY <2>1 DEF Sound, EepState
  <2>4. c \notin Unsolicited => /\ Sound(asked) /\ asked.posts = s.posts /\ asked.timers = s.timers
                                /\ asked.state = s.state /\ asked.stopping = s.stopping
    <3> HIDE DEF taken
    <3>1. c \notin Unsolicited => c \in Requests
      BY <2>1 DEF Cmds
    <3> QED
      BY <2>3, <3>1 DEF Sound, EepState
  <2> HIDE DEF taken, asked
  <2>5. Sound(u) /\ Covers(s, u)
    BY <2>3, <2>4, SameCovers
  <2> HIDE DEF u
  <2> QED
    BY <2>1, <2>2, <2>5, PreparedKeeps, CoversTwice
<1> QED
  BY <1>1, <1>2

\* The connection is made again: only the timer for that is left.
LEMMA ReconnectKeeps ==
  ASSUME EepAssumption, NEW s, Sound(s), NEW failActive \in BOOLEAN
  PROVE  LET t == BeginReconnect(s, failActive)
         IN Sound(t) /\ Ends(t, "idle") /\ t.stopping = s.stopping
<1> DEFINE cancelled == Cancel(s, Timers \ {"reconnect"})
           still == [cancelled EXCEPT !.expected = NoSeq]
           cs == IF failActive THEN <<s.requested>> \o s.queue ELSE s.queue
           told == Failed(still, cs)
           cleared == [told EXCEPT !.queue = << >>]
           closed == Post(cleared, "close", "socket")
<1>1. Sound(cancelled) /\ cancelled.stopping = s.stopping
  BY CancelKeeps
<1>2. cs \in Seq(Cmds)
  <2>1. s.requested \in Cmds /\ s.queue \in Seq(Cmds)
    BY DEF Sound, EepState, Cmds
  <2>2. <<s.requested>> \o s.queue \in Seq(Cmds)
    BY <2>1
  <2> QED
    BY <2>1, <2>2
<1> HIDE DEF cancelled, cs
<1>3. Sound(still) /\ still.stopping = s.stopping
  BY <1>1 DEF Sound, EepState
<1> HIDE DEF still
<1>4. Sound(told) /\ told.stopping = s.stopping
  BY <1>2, <1>3, FailedKeeps DEF Covers
<1> HIDE DEF told
<1>5. Sound(cleared) /\ cleared.stopping = s.stopping
  <2>1. << >> \in Seq(Cmds)
    OBVIOUS
  <2> QED
    BY <1>4, <2>1 DEF Sound, EepState
<1> HIDE DEF cleared
<1>6. [t |-> "close", x |-> "socket"] \in Tasks
  BY DEF Tasks
<1>7. Sound(closed) /\ closed.stopping = s.stopping
  BY <1>5, <1>6, PostKeeps DEF Covers
<1> HIDE DEF closed
<1>8. "reconnect" \in Timers /\ "reconnect" \in TimersOf("idle") /\ "idle" \in States
  BY DEF Timers, TimersOf, States
<1>9. LET t == Start(closed, "reconnect") IN Sound(t) /\ Ends(t, "idle") /\ t.stopping = s.stopping
  BY <1>7, <1>8, StartKeeps DEF Covers
<1>10. BeginReconnect(s, failActive) = Start(closed, "reconnect")
  BY DEF BeginReconnect, closed, cleared, told, still, cancelled, cs
<1> QED
  BY <1>9, <1>10

------------------------------------------------------------------------------
\* Frames.

LEMMA ReportedKeeps ==
  ASSUME EepAssumption, NEW s, Sound(s), NEW m
  PROVE  Sound(Reported(s, m)) /\ Covers(s, Reported(s, m))
<1>1. \A open \in SUBSET Calls :
        LET u == [s EXCEPT !.open = open]
        IN Sound(u) /\ u.posts = s.posts /\ u.timers = s.timers /\ u.state = s.state /\ u.stopping = s.stopping
  BY DEF Sound, EepState
<1>2. LET u == [s EXCEPT !.missed = 0]
      IN Sound(u) /\ u.posts = s.posts /\ u.timers = s.timers /\ u.state = s.state /\ u.stopping = s.stopping
  <2>1. 0 \in 0..MissedLimit - 1
    BY DEF EepAssumption
  <2> QED
    BY <2>1 DEF Sound, EepState
<1>3. s.open \ {m.c} \in SUBSET Calls
  BY DEF Sound, EepState
<1>4. Covers(s, s)
  BY DEF Covers
<1>5. CASE m.c = "watchdog" /\ m.m = "rsp"
  BY <1>2, <1>5, SameCovers DEF Reported
<1>6. CASE ~(m.c = "watchdog" /\ m.m = "rsp") /\ m.m = "ack" /\ m.c \in Notified
  BY <1>4, <1>6 DEF Reported
<1>7. CASE ~(m.c = "watchdog" /\ m.m = "rsp") /\ ~(m.m = "ack" /\ m.c \in Notified)
  <2>1. Reported(s, m) = [s EXCEPT !.open = s.open \ {m.c}]
    BY <1>7 DEF Reported
  <2> QED
    BY <1>1, <1>3, <2>1, SameCovers
<1> QED
  BY <1>5, <1>6, <1>7

\* An answer ends the wait for it, and is the one the number was given for.
LEMMA AnsweredKeeps ==
  ASSUME EepAssumption, NEW s, Sound(s), NEW m \in Answers
  PROVE  Sound(Answered(s, m)) /\ Covers(s, Answered(s, m))
<1>1. CASE m.seq # s.expected
  BY <1>1 DEF Answered, Covers
<1>2. CASE m.seq = s.expected
  <2> DEFINE stopped == Cancel(s, {"ack"})
             due == [stopped EXCEPT !.expected = NoSeq, !.odd = @ \/ m.seq # (s.seq - 1) % Sequences]
             told == Reported(due, m)
  <2>1. m.seq \in Nums /\ m.seq # NoSeq
    BY DEF Answers, Nums, NoSeq, Sequences
  <2>2. m.seq = (s.seq - 1) % Sequences
    BY <1>2, <2>1 DEF Sound
  <2>3. /\ Sound(stopped) /\ stopped.state = s.state /\ stopped.stopping = s.stopping
        /\ \A st \in States : Ends(s, st) /\ TimersOf(st) \cap {"ack"} = {} => Ends(stopped, st)
    BY CancelKeeps
  <2> HIDE DEF stopped
  <2>4. due = [stopped EXCEPT !.expected = NoSeq, !.odd = FALSE]
    BY <2>2, <2>3 DEF Sound
  <2>5. /\ Sound(due) /\ due.posts = stopped.posts /\ due.timers = stopped.timers
        /\ due.state = s.state /\ due.stopping = s.stopping
    <3> DEFINE w == [stopped EXCEPT !.expected = NoSeq, !.odd = FALSE]
    <3>1. Sound(w) /\ w.posts = stopped.posts /\ w.timers = stopped.timers /\ w.state = stopped.state
          /\ w.stopping = stopped.stopping
      BY <2>3 DEF Sound, EepState
    <3> HIDE DEF w
    <3>2. due = w
      BY <2>4 DEF w
    <3> HIDE DEF due
    <3> QED
      BY <2>3, <3>1, <3>2
  <2> HIDE DEF due
  <2>6. Sound(told) /\ Covers(due, told)
    BY <2>5, ReportedKeeps
  <2> HIDE DEF told
  <2>7. Over(m) \in {"ack_received", "ack_as_rsp"}
    BY DEF Over
  <2>8. /\ Sound(Event(told, Over(m))) /\ Covers(told, Event(told, Over(m)))
        /\ Ends(Event(told, Over(m)), "waiting")
    BY <2>6, <2>7, EventKeeps DEF EventNames, Ending, States
  <2>9. \A st \in States \ {"waiting"} : TimersOf(st) \cap {"ack"} = {}
    BY DEF TimersOf, States
  <2>10. \A st \in States \ {"waiting"} : Ends(s, st) => Ends(Event(told, Over(m)), st)
    <3>1. \A st \in States : Ends(stopped, st) => Ends(due, st)
      BY <2>5 DEF Ends
    <3> QED
      BY <2>3, <2>6, <2>8, <2>9, <3>1 DEF Covers
  <2>11. Answered(s, m) = Event(told, Over(m))
    BY <1>2 DEF Answered, told, due, stopped
  <2> QED
    BY <2>5, <2>6, <2>8, <2>10, <2>11 DEF Covers
<1> QED
  BY <1>1, <1>2

LEMMA NotificationKeeps ==
  ASSUME EepAssumption, NEW s, Sound(s), NEW m
  PROVE  Sound(Notification(s, m)) /\ Covers(s, Notification(s, m))
<1> DEFINE told == NotificationReported(s, m)
<1>1. Sound(told) /\ Covers(s, told) /\ told.timers = s.timers
  <2>1. s.open \ {m.c} \in SUBSET Calls
    BY DEF Sound, EepState
  <2>2. LET u == [s EXCEPT !.open = s.open \ {m.c}]
        IN Sound(u) /\ u.posts = s.posts /\ u.timers = s.timers /\ u.state = s.state /\ u.stopping = s.stopping
    BY <2>1 DEF Sound, EepState
  <2>3. Covers(s, s)
    BY DEF Covers
  <2> QED
    BY <2>2, <2>3, SameCovers DEF NotificationReported
<1> HIDE DEF told
<1> DEFINE stopped == Cancel(told, {"response"})
           over == Event(stopped, "rsp_received")
<1>2. Sound(over) /\ Covers(told, over)
  <2>1. /\ Sound(stopped) /\ stopped.state = told.state /\ stopped.stopping = told.stopping
        /\ \A st \in States : Ends(told, st) /\ TimersOf(st) \cap {"response"} = {} => Ends(stopped, st)
    BY <1>1, CancelKeeps
  <2> HIDE DEF stopped
  <2>2. Sound(over) /\ Covers(stopped, over) /\ Ends(over, "waiting")
    BY <2>1, EventKeeps DEF EventNames, Ending, States
  <2>3. \A st \in States \ {"waiting"} : TimersOf(st) \cap {"response"} = {}
    BY DEF TimersOf, States
  <2> HIDE DEF over
  <2> QED
    BY <2>1, <2>2, <2>3 DEF Covers
<1> HIDE DEF over
<1> DEFINE u == IF s.requested = m.c THEN over ELSE told
<1>3. Sound(u) /\ Covers(s, u)
  BY <1>1, <1>2, CoversTwice
<1> HIDE DEF u
<1>4. [t |-> "enqueue", x |-> "ack"] \in Tasks
  BY DEF Tasks, Cmds, Unsolicited
<1>5. Notification(s, m) = Post(u, "enqueue", "ack")
  BY DEF Notification, u, over, stopped, told
<1> QED
  BY <1>3, <1>4, <1>5, PostKeeps, CoversTwice

LEMMA ReceivedKeeps ==
  ASSUME EepAssumption, NEW s, Sound(s), NEW m \in Heard
  PROVE  Sound(HandleReceivedData(s, m)) /\ Covers(s, HandleReceivedData(s, m))
<1>1. CASE m.m = "lost"
  BY <1>1, EventKeeps DEF HandleReceivedData, EventNames
<1>2. CASE m.m = "note"
  BY <1>2, NotificationKeeps DEF HandleReceivedData
<1>3. CASE m.m \in {"ack", "nak", "rsp"} /\ m.c = s.requested
  <2>1. m \in Answers
    BY <1>3 DEF Heard, Wires
  <2> QED
    BY <1>3, <2>1, AnsweredKeeps DEF HandleReceivedData
<1>4. CASE m.m \notin {"lost", "note", "short"} /\ ~(m.m \in {"ack", "nak", "rsp"} /\ m.c = s.requested)
  <2>1. [t |-> "enqueue", x |-> "nak"] \in Tasks
    BY DEF Tasks, Cmds, Unsolicited
  <2> QED
    BY <1>4, <2>1, PostKeeps DEF HandleReceivedData
<1>5. CASE m.m = "short"
  BY <1>5, SameCovers DEF HandleReceivedData
<1> QED
  BY <1>1, <1>2, <1>3, <1>4, <1>5
------------------------------------------------------------------------------
\* The state machine: a state that ends, or whose end is the event, is left for one that ends.

Rests(s, t) == Sound(t) /\ ArmedIn(t) /\ t.stopping = s.stopping

LEMMA ToRests ==
  ASSUME NEW s, Sound(s), NEW st \in States, st = "connected" \/ Ends(s, st)
  PROVE  Rests(s, To(s, st))
<1> DEFINE u == [s EXCEPT !.state = st]
<1>1. Sound(u) /\ u.posts = s.posts /\ u.timers = s.timers /\ u.state = st /\ u.stopping = s.stopping
  BY DEF Sound, EepState
<1> HIDE DEF u
<1>2. CASE st = "connected"
  <2>1. [t |-> "check", x |-> "queue"] \in Tasks
    BY DEF Tasks
  <2>2. Sound(Post(u, "check", "queue")) /\ Covers(u, Post(u, "check", "queue"))
    BY <1>1, <2>1, PostKeeps
  <2>3. To(s, st) = Post(u, "check", "queue")
    BY <1>2 DEF To, u
  <2> QED
    BY <1>1, <1>2, <2>2, <2>3 DEF Covers, Rests, ArmedIn
<1>3. CASE st # "connected"
  <2>1. Ends(u, st)
    BY <1>1, <1>3 DEF Ends
  <2>2. To(s, st) = u
    BY <1>3 DEF To, u
  <2> QED
    BY <1>1, <2>1, <2>2 DEF Rests, ArmedIn
<1> QED
  BY <1>2, <1>3

\* What the last step asks for, from the state before it.
LEMMA RestsOver == ASSUME NEW s, NEW t, NEW u, t.stopping = s.stopping, Rests(t, u) PROVE Rests(s, u)
BY DEF Rests

\* A request is asked for.
LEMMA AskKeeps ==
  ASSUME NEW s, Sound(s), NEW c \in Cmds
  PROVE  LET t == Post(s, "enqueue", c) IN Sound(t) /\ Covers(s, t) /\ t.stopping = s.stopping
<1>1. [t |-> "enqueue", x |-> c] \in Tasks
  BY DEF Tasks
<1> QED
  BY <1>1, PostKeeps DEF Covers

LEMMA ReadyKeeps ==
  ASSUME NEW s, Sound(s)
  PROVE  Sound(Ready(s)) /\ Ready(s).stopping = s.stopping
<1> DEFINE a == Post(s, "enqueue", "start")
           b == Post(a, "enqueue", "health")
           c == Post(b, "enqueue", "watchdog")
           d == Start(c, "health")
           e == Start(d, "watchdog")
<1>1. "start" \in Cmds /\ "health" \in Cmds /\ "watchdog" \in Cmds
  BY DEF Requests, Cmds
<1>2. "health" \in Timers /\ "watchdog" \in Timers
  BY DEF Timers
<1>3. Sound(a) /\ a.stopping = s.stopping
  BY <1>1, AskKeeps
<1> HIDE DEF a
<1>4. Sound(b) /\ b.stopping = s.stopping
  BY <1>1, <1>3, AskKeeps
<1> HIDE DEF b
<1>5. Sound(c) /\ c.stopping = s.stopping
  BY <1>1, <1>4, AskKeeps
<1> HIDE DEF c
<1>6. Sound(d) /\ d.stopping = s.stopping
  BY <1>2, <1>5, StartKeeps DEF Covers
<1> HIDE DEF d
<1>7. Sound(e) /\ e.stopping = s.stopping
  BY <1>2, <1>6, StartKeeps DEF Covers
<1> HIDE DEF e
<1>8. "check_command" \in EventNames
  BY DEF EventNames
<1>9. Ready(s) = Event(e, "check_command")
  BY DEF Ready, e, d, c, b, a
<1> QED
  BY <1>7, <1>8, <1>9, EventKeeps DEF Covers

LEMMA IdleRests ==
  ASSUME NEW s, Sound(s), NEW ev \in EventNames, s.state = "idle", ArmedIn(s) \/ ev \in Ending("idle")
  PROVE  Rests(s, Idle(s, ev))
<1>1. CASE ev = "connect"
  <2> DEFINE a == Post(s, "connect", "socket")
             b == Start(a, "connect")
  <2>1. [t |-> "connect", x |-> "socket"] \in Tasks
    BY DEF Tasks
  <2>2. Sound(a) /\ a.stopping = s.stopping
    BY <2>1, PostKeeps DEF Covers
  <2> HIDE DEF a
  <2>3. "connect" \in Timers /\ "connect" \in TimersOf("connecting") /\ "connecting" \in States
    BY DEF Timers, TimersOf, States
  <2>4. Sound(b) /\ Ends(b, "connecting") /\ b.stopping = s.stopping
    BY <2>2, <2>3, StartKeeps DEF Covers
  <2> HIDE DEF b
  <2>5. Rests(b, To(b, "connecting"))
    BY <2>3, <2>4, ToRests
  <2>6. Idle(s, ev) = To(b, "connecting")
    BY <1>1 DEF Idle, b, a
  <2> QED
    BY <2>4, <2>5, <2>6, RestsOver
<1>2. CASE ev # "connect"
  BY <1>2 DEF Idle, Rests, Ending
<1> QED
  BY <1>1, <1>2

LEMMA ConnectingRests ==
  ASSUME NEW s, Sound(s), NEW ev \in EventNames, s.state = "connecting", ArmedIn(s) \/ ev \in Ending("connecting")
  PROVE  Rests(s, Connecting(s, ev))
<1>1. CASE ev = "connect_success"
  <2>1. Sound(Ready(s)) /\ Ready(s).stopping = s.stopping /\ "connected" \in States
    BY ReadyKeeps DEF States
  <2>2. Connecting(s, ev) = To(Ready(s), "connected")
    BY <1>1 DEF Connecting
  <2>3. Rests(Ready(s), To(Ready(s), "connected"))
    BY <2>1, ToRests
  <2> QED
    BY <2>1, <2>2, <2>3, RestsOver
<1>2. CASE ev = "connect_fail"
  <2> DEFINE b == Start(s, "reconnect")
  <2>1. "reconnect" \in Timers /\ "reconnect" \in TimersOf("idle") /\ "idle" \in States
    BY DEF Timers, TimersOf, States
  <2>2. Sound(b) /\ Ends(b, "idle") /\ b.stopping = s.stopping
    BY <2>1, StartKeeps DEF Covers
  <2>3. Connecting(s, ev) = To(b, "idle")
    BY <1>2 DEF Connecting
  <2> HIDE DEF b
  <2>4. Rests(b, To(b, "idle"))
    BY <2>1, <2>2, ToRests
  <2> QED
    BY <2>2, <2>3, <2>4, RestsOver
<1>3. CASE ev \notin {"connect_success", "connect_fail"}
  BY <1>3 DEF Connecting, Rests, Ending
<1> QED
  BY <1>1, <1>2, <1>3

LEMMA ReconnectRests ==
  ASSUME EepAssumption, NEW s, Sound(s), NEW failActive \in BOOLEAN
  PROVE  Rests(s, To(BeginReconnect(s, failActive), "idle"))
<1> DEFINE b == BeginReconnect(s, failActive)
<1>1. Sound(b) /\ Ends(b, "idle") /\ b.stopping = s.stopping /\ "idle" \in States
  BY ReconnectKeeps DEF States
<1> HIDE DEF b
<1>2. Rests(b, To(b, "idle"))
  BY <1>1, ToRests
<1>3. Rests(s, To(b, "idle"))
  BY <1>1, <1>2, RestsOver
<1> QED
  BY <1>3 DEF b

\* A client that finds no connection makes it again, whatever it goes on to.
LEMMA LostKeeps ==
  ASSUME NEW s, Sound(s)
  PROVE  LET t == Event(s, "reconnect")
         IN Sound(t) /\ t.stopping = s.stopping /\ Ends(t, "writing") /\ Ends(t, "waiting")
<1>1. "reconnect" \in EventNames /\ "reconnect" \in Ending("writing") /\ "reconnect" \in Ending("waiting")
      /\ {"writing", "waiting"} \subseteq States
  BY DEF EventNames, Ending, States
<1> QED
  BY <1>1, EventKeeps DEF Covers

LEMMA ConnectedRests ==
  ASSUME EepAssumption, NEW s, Sound(s), NEW ev \in EventNames, s.state = "connected"
  PROVE  Rests(s, Connected(s, ev))
<1> DEFINE lost == Event(s, "reconnect")
<1>1. Sound(lost) /\ lost.stopping = s.stopping /\ Ends(lost, "writing")
  BY LostKeeps
<1> HIDE DEF lost
<1>2. CASE ev = "check_command"
  <2> DEFINE b == IF s.connected THEN CheckCommandQueue(s) ELSE lost
  <2>1. Sound(b) /\ b.stopping = s.stopping /\ "connected" \in States
    BY <1>1, CheckKeeps DEF Covers, States
  <2>2. Connected(s, ev) = To(b, "connected")
    BY <1>2 DEF Connected, lost
  <2> HIDE DEF b
  <2>3. Rests(b, To(b, "connected"))
    BY <2>1, ToRests
  <2> QED
    BY <2>1, <2>2, <2>3, RestsOver
<1>3. CASE ev = "write_command"
  <2> DEFINE b == IF s.connected THEN Start(Pop(s), "send") ELSE lost
  <2>1. "send" \in Timers /\ "send" \in TimersOf("writing") /\ "writing" \in States
    BY DEF Timers, TimersOf, States
  <2>2. Sound(Pop(s)) /\ Pop(s).stopping = s.stopping
    BY PopKeeps DEF Covers
  <2>3. Sound(Start(Pop(s), "send")) /\ Start(Pop(s), "send").stopping = s.stopping
        /\ Ends(Start(Pop(s), "send"), "writing")
    BY <2>1, <2>2, StartKeeps DEF Covers
  <2>4. Sound(b) /\ b.stopping = s.stopping /\ Ends(b, "writing")
    BY <1>1, <2>3
  <2>5. Connected(s, ev) = To(b, "writing")
    BY <1>3 DEF Connected, lost
  <2> HIDE DEF b
  <2>6. Rests(b, To(b, "writing"))
    BY <2>1, <2>4, ToRests
  <2> QED
    BY <2>4, <2>5, <2>6, RestsOver
<1>4. CASE ev = "reconnect"
  BY <1>4, ReconnectRests DEF Connected
<1>5. CASE ev \notin {"check_command", "write_command", "reconnect"}
  BY <1>5 DEF Connected, Rests, ArmedIn
<1> QED
  BY <1>2, <1>3, <1>4, <1>5

\* The request asked last has failed, and the client goes on.
LEMMA FailedRests ==
  ASSUME EepAssumption, NEW s, Sound(s), NEW c \in Requests
  PROVE  Rests(s, To(Failed(s, <<c>>), "connected"))
<1> DEFINE b == Failed(s, <<c>>)
<1>1. <<c>> \in Seq(Cmds) /\ "connected" \in States
  BY DEF Cmds, States
<1>2. Sound(b) /\ b.stopping = s.stopping
  BY <1>1, FailedKeeps DEF Covers
<1> HIDE DEF b
<1>3. Rests(b, To(b, "connected"))
  BY <1>1, <1>2, ToRests
<1>4. Rests(s, To(b, "connected"))
  BY <1>2, <1>3, RestsOver
<1> QED
  BY <1>4 DEF b

LEMMA WritingRests ==
  ASSUME EepAssumption, NEW s, Sound(s), NEW ev \in EventNames, s.state = "writing",
         ArmedIn(s) \/ ev \in Ending("writing")
  PROVE  Rests(s, Writing(s, ev))
<1>1. CASE ev = "write_completed"
  <2> DEFINE b == IF s.current \in Unsolicited THEN Event(s, "unsolicited_done") ELSE Start(s, "ack")
  <2>1. "ack" \in Timers /\ "ack" \in TimersOf("waiting") /\ "waiting" \in States
        /\ "unsolicited_done" \in EventNames /\ "unsolicited_done" \in Ending("waiting")
    BY DEF Timers, TimersOf, States, EventNames, Ending
  <2>2. Sound(b) /\ b.stopping = s.stopping /\ Ends(b, "waiting")
    BY <2>1, EventKeeps, StartKeeps DEF Covers
  <2>3. Writing(s, ev) = To(b, "waiting")
    BY <1>1 DEF Writing
  <2> HIDE DEF b
  <2>4. Rests(b, To(b, "waiting"))
    BY <2>1, <2>2, ToRests
  <2> QED
    BY <2>2, <2>3, <2>4, RestsOver
<1>2. CASE ev = "write_timeout"
  <2> DEFINE b == IF s.connected THEN s ELSE Event(s, "reconnect")
  <2>1. Sound(b) /\ b.stopping = s.stopping
    BY LostKeeps
  <2>2. s.requested \in Requests
    BY DEF Sound, EepState
  <2>3. Writing(s, ev) = To(Failed(b, <<s.requested>>), "connected")
    BY <1>2 DEF Writing
  <2> HIDE DEF b
  <2> QED
    BY <2>1, <2>2, <2>3, FailedRests, RestsOver
<1>3. CASE ev = "reconnect"
  BY <1>3, ReconnectRests DEF Writing
<1>4. CASE ev \notin {"write_completed", "write_timeout", "reconnect"}
  BY <1>4 DEF Writing, Rests, Ending
<1> QED
  BY <1>1, <1>2, <1>3, <1>4

LEMMA WaitingRests ==
  ASSUME EepAssumption, NEW s, Sound(s), NEW ev \in EventNames, s.state = "waiting",
         ArmedIn(s) \/ ev \in Ending("waiting")
  PROVE  Rests(s, Waiting(s, ev))
<1> DEFINE over == [s EXCEPT !.expected = NoSeq]
<1>1. Sound(over) /\ over.stopping = s.stopping
  BY DEF Sound, EepState
<1>2. s.requested \in Requests
  BY DEF Sound, EepState
<1>3. CASE ev = "ack_received"
  <2>1. "response" \in Timers /\ "response" \in TimersOf("waiting") /\ "waiting" \in States
    BY DEF Timers, TimersOf, States
  <2>2. Sound(Start(s, "response")) /\ Covers(s, Start(s, "response")) /\ Ends(Start(s, "response"), "waiting")
    BY <2>1, StartKeeps
  <2>3. Waiting(s, ev) = Start(s, "response")
    BY <1>3 DEF Waiting
  <2> QED
    BY <2>2, <2>3 DEF Covers, Rests, ArmedIn
<1>4. CASE ev \in {"ack_as_rsp", "rsp_received", "unsolicited_done"}
  <2>1. Waiting(s, ev) = To(s, "connected") /\ "connected" \in States
    BY <1>4 DEF Waiting, States
  <2> QED
    BY <2>1, ToRests
<1>5. CASE ev = "ack_timeout"
  <2>1. Waiting(s, ev) = To(Failed(over, <<s.requested>>), "connected")
    BY <1>5 DEF Waiting
  <2> HIDE DEF over
  <2> QED
    BY <1>1, <1>2, <2>1, FailedRests, RestsOver
<1>6. CASE ev = "rsp_timeout"
  <2> DEFINE b == IF s.connected THEN over ELSE Event(over, "reconnect")
  <2>1. Waiting(s, ev) = To(Failed(b, <<s.requested>>), "connected")
    BY <1>6 DEF Waiting
  <2> HIDE DEF over
  <2>2. Sound(b) /\ b.stopping = s.stopping
    BY <1>1, LostKeeps
  <2> HIDE DEF b
  <2> QED
    BY <1>2, <2>1, <2>2, FailedRests, RestsOver
<1>7. CASE ev = "reconnect"
  BY <1>7, ReconnectRests DEF Waiting
<1>8. CASE ev \notin Ending("waiting")
  <2>1. Waiting(s, ev) = s
    BY <1>8 DEF Waiting, Ending
  <2> QED
    BY <1>8, <2>1 DEF Rests
<1>9. Ending("waiting") = {"ack_received", "ack_as_rsp", "rsp_received", "ack_timeout", "rsp_timeout",
                           "unsolicited_done", "reconnect"}
  BY DEF Ending
<1> QED
  BY <1>3, <1>4, <1>5, <1>6, <1>7, <1>8, <1>9

LEMMA TransitionRests ==
  ASSUME EepAssumption, NEW s, Sound(s), NEW ev \in EventNames, ArmedIn(s) \/ ev \in Ending(s.state)
  PROVE  Rests(s, Transition(s, ev))
<1>1. s.state \in States
  BY DEF Sound, EepState
<1>2. CASE s.state = "idle"
  BY <1>2, IdleRests DEF Transition
<1>3. CASE s.state = "connecting"
  BY <1>3, ConnectingRests DEF Transition
<1>4. CASE s.state = "connected"
  BY <1>4, ConnectedRests DEF Transition
<1>5. CASE s.state = "writing"
  BY <1>5, WritingRests DEF Transition
<1>6. CASE s.state = "waiting"
  BY <1>6, WaitingRests DEF Transition
<1> QED
  BY <1>1, <1>2, <1>3, <1>4, <1>5, <1>6 DEF States
------------------------------------------------------------------------------
\* The tasks of the thread.

\* One that was the end of the state must end it; any other leaves its end alone.
LEMMA CoversArms == ASSUME NEW s, NEW t, Sound(s), Sound(t), Covers(s, t), ArmedIn(s) PROVE EepInv(t)
<1>1. s.state \in States
  BY DEF Sound, EepState
<1> QED
  BY <1>1 DEF Covers, ArmedIn, EepInv

LEMMA SendKeeps ==
  ASSUME NEW s, Sound(s), NEW m \in Outs
  PROVE  Sound(SocketSend(s, m)) /\ Covers(s, SocketSend(s, m))
<1>1. CASE s.connected
  <2> DEFINE q == Append(s.out, m)
             u == [s EXCEPT !.out = q]
  <2>1. q \in Seq(Outs)
    BY DEF Sound, EepState
  <2> HIDE DEF q
  <2>2. Sound(u) /\ u.posts = s.posts /\ u.timers = s.timers /\ u.state = s.state /\ u.stopping = s.stopping
    BY <1>1, <2>1 DEF Sound, EepState
  <2>3. SocketSend(s, m) = u
    BY <1>1 DEF SocketSend, q
  <2> HIDE DEF u
  <2> QED
    BY <2>2, <2>3, SameCovers
<1>2. CASE ~s.connected
  <2>1. [t |-> "sent", x |-> FALSE] \in Tasks
    BY DEF Tasks
  <2> QED
    BY <1>2, <2>1, PostKeeps DEF SocketSend
<1> QED
  BY <1>1, <1>2

LEMMA CloseKeeps ==
  ASSUME NEW s, Sound(s)
  PROVE  Sound(SocketClose(s)) /\ Covers(s, SocketClose(s))
<1> DEFINE closed == SocketClose(s)
<1>1. << >> \in Seq(Outs)
  OBVIOUS
<1>2. /\ Sound(closed) /\ closed.posts = s.posts /\ closed.timers = s.timers
      /\ closed.state = s.state /\ closed.stopping = s.stopping
  BY <1>1 DEF Sound, EepState, SocketClose
<1> HIDE DEF closed
<1>3. Covers(s, closed)
  BY <1>2, SameCovers
<1> QED
  BY <1>2, <1>3 DEF closed

LEMMA ConnectKeeps ==
  ASSUME NEW s, Sound(s)
  PROVE  Sound(SocketConnect(s)) /\ Covers(s, SocketConnect(s))
<1> DEFINE u == [s EXCEPT !.connecting = TRUE, !.out = << >>]
<1>1. << >> \in Seq(Outs)
  OBVIOUS
<1>2. CASE s.connected \/ s.connecting
  BY <1>2 DEF SocketConnect, Covers
<1>3. CASE ~(s.connected \/ s.connecting)
  <2>1. Sound(u) /\ u.posts = s.posts /\ u.timers = s.timers /\ u.state = s.state /\ u.stopping = s.stopping
    BY <1>1, <1>3 DEF Sound, EepState
  <2>2. SocketConnect(s) = u
    BY <1>3 DEF SocketConnect
  <2> HIDE DEF u
  <2> QED
    BY <2>1, <2>2, SameCovers
<1> QED
  BY <1>2, <1>3

\* The socket's results and the timers end the state they are for, and leave the others.
LEMMA ResultArms ==
  ASSUME NEW s, Sound(s), NEW ts, NEW own \in States, NEW ev \in Ending(own) \cap EventNames,
         ArmedIn(s) \/ s.state = own, \A st \in States \ {own} : TimersOf(st) \cap ts = {}
  PROVE  EepInv(Event(Cancel(s, ts), ev))
<1> DEFINE c == Cancel(s, ts)
           t == Event(c, ev)
<1>1. /\ Sound(c) /\ c.state = s.state /\ c.stopping = s.stopping
      /\ \A st \in States : Ends(s, st) /\ TimersOf(st) \cap ts = {} => Ends(c, st)
  BY CancelKeeps
<1> HIDE DEF c
<1>2. Sound(t) /\ Covers(c, t) /\ Ends(t, own)
  BY <1>1, EventKeeps
<1> HIDE DEF t
<1>3. s.state \in States
  BY DEF Sound, EepState
<1>4. EepInv(t)
  BY <1>1, <1>2, <1>3 DEF ArmedIn, EepInv, Covers
<1> QED
  BY <1>4 DEF t, c

LEMMA ExpiredArms ==
  ASSUME NEW s, Sound(s), NEW timer \in Timers,
         ArmedIn(s) \/ timer \in TimersOf(s.state)
  PROVE  EepInv(Expired(s, timer))
<1>1. s.state \in States
  BY DEF Sound, EepState
<1>2. CASE timer \in {"watchdog", "health"}
  <2> DEFINE a == Post(s, "enqueue", timer)
  <2>1. timer \in Cmds
    BY <1>2 DEF Cmds, Requests
  <2>2. Sound(a) /\ Covers(s, a)
    BY <2>1, AskKeeps
  <2> HIDE DEF a
  <2>3. Sound(Start(a, timer)) /\ Covers(s, Start(a, timer))
    BY <2>2, StartKeeps, CoversTwice
  <2>4. Expired(s, timer) = Start(a, timer)
    BY <1>2 DEF Expired, Periodic, a
  <2>5. ArmedIn(s)
    BY <1>1, <1>2 DEF TimersOf, States
  <2> QED
    BY <2>3, <2>4, <2>5, CoversArms
<1>3. \A own \in States, ev \in EventNames :
        /\ ev \in Ending(own)
        /\ timer \in TimersOf(own) /\ \A st \in States \ {own} : timer \notin TimersOf(st)
        => EepInv(Event(s, ev))
  <2> SUFFICES ASSUME NEW own \in States, NEW ev \in EventNames, ev \in Ending(own),
                      timer \in TimersOf(own), \A st \in States \ {own} : timer \notin TimersOf(st)
               PROVE  EepInv(Event(s, ev))
    OBVIOUS
  <2>1. Sound(Event(s, ev)) /\ Covers(s, Event(s, ev)) /\ Ends(Event(s, ev), own)
    BY EventKeeps
  <2>2. ArmedIn(s) \/ s.state = own
    BY <1>1
  <2> QED
    BY <1>1, <2>1, <2>2 DEF Covers, ArmedIn, EepInv
<1>4. /\ "idle" \in States /\ "connecting" \in States /\ "writing" \in States /\ "waiting" \in States
      /\ "connect" \in Ending("idle") /\ "connect_fail" \in Ending("connecting")
      /\ "write_timeout" \in Ending("writing") /\ "ack_timeout" \in Ending("waiting")
      /\ "rsp_timeout" \in Ending("waiting")
      /\ {"connect", "connect_fail", "write_timeout", "ack_timeout", "rsp_timeout"} \subseteq EventNames
  BY DEF States, Ending, EventNames
<1>5. CASE timer = "reconnect"
  <2>1. timer \in TimersOf("idle") /\ \A st \in States \ {"idle"} : timer \notin TimersOf(st)
    BY <1>5 DEF TimersOf, States
  <2> QED
    BY <1>3, <1>4, <1>5, <2>1 DEF Expired
<1>6. CASE timer = "connect"
  <2>1. timer \in TimersOf("connecting") /\ \A st \in States \ {"connecting"} : timer \notin TimersOf(st)
    BY <1>6 DEF TimersOf, States
  <2> QED
    BY <1>3, <1>4, <1>6, <2>1 DEF Expired
<1>7. CASE timer = "send"
  <2>1. timer \in TimersOf("writing") /\ \A st \in States \ {"writing"} : timer \notin TimersOf(st)
    BY <1>7 DEF TimersOf, States
  <2> QED
    BY <1>3, <1>4, <1>7, <2>1 DEF Expired
<1>8. CASE timer = "ack" \/ timer = "response"
  <2>1. timer \in TimersOf("waiting") /\ \A st \in States \ {"waiting"} : timer \notin TimersOf(st)
    BY <1>8 DEF TimersOf, States
  <2> QED
    BY <1>3, <1>4, <1>8, <2>1 DEF Expired
<1> QED
  BY <1>2, <1>5, <1>6, <1>7, <1>8 DEF Timers

LEMMA TaskKeeps ==
  ASSUME EepAssumption, NEW s, Sound(s), NEW task \in Tasks, ArmedIn(s) \/ Escape(task, s.state)
  PROVE  EepInv(Task(s, task.t, task.x))
<1>0. s.state \in States
  BY DEF Sound, EepState
<1> DEFINE k == Task(s, task.t, task.x)
<1>1. CASE task \in [t : {"event"}, x : EventNames]
  <2>1. k = Transition(s, task.x) /\ task.x \in EventNames /\ (ArmedIn(s) \/ task.x \in Ending(s.state))
    BY <1>1 DEF Task, Escape
  <2> QED
    BY <2>1, TransitionRests DEF Rests, EepInv
<1>2. CASE task \in [t : {"check", "connect", "close"}, x : {"queue", "socket"}]
  <2>1. ArmedIn(s)
    BY <1>2 DEF Escape
  <2>2. k \in {CheckCommandQueue(s), SocketConnect(s), SocketClose(s)}
    BY <1>2 DEF Task
  <2>3. Sound(k) /\ Covers(s, k)
    BY <2>2, CheckKeeps, ConnectKeeps, CloseKeeps
  <2> QED
    BY <2>1, <2>3, CoversArms
<1>3. CASE task \in [t : {"enqueue"}, x : Cmds]
  <2>1. ArmedIn(s) /\ k = Enqueue(s, task.x) /\ task.x \in Cmds
    BY <1>3 DEF Escape, Task
  <2> QED
    BY <2>1, EnqueueKeeps, CoversArms
<1>4. CASE task \in [t : {"failure"}, x : {"deduct"}]
  <2>1. ArmedIn(s) /\ k = Failed(s, <<task.x>>) /\ <<task.x>> \in Seq(Cmds)
    BY <1>4 DEF Escape, Task, Cmds, Requests
  <2> QED
    BY <2>1, FailedKeeps, CoversArms
<1>5. CASE task \in [t : {"received"}, x : Heard]
  <2>1. ArmedIn(s) /\ k = HandleReceivedData(s, task.x) /\ task.x \in Heard
    BY <1>5 DEF Escape, Task
  <2> QED
    BY <2>1, ReceivedKeeps, CoversArms
<1>6. CASE task \in [t : {"sent", "connected"}, x : BOOLEAN]
  <2>1. CASE task.t = "sent"
    <3> DEFINE ev == IF task.x THEN "write_completed" ELSE "write_timeout"
    <3>1. k = Event(Cancel(s, {"send"}), ev)
      BY <2>1 DEF Task
    <3>2. ev \in Ending("writing") \cap EventNames /\ "writing" \in States
      BY DEF Ending, EventNames, States
    <3>3. \A st \in States \ {"writing"} : TimersOf(st) \cap {"send"} = {}
      BY DEF TimersOf, States
    <3>4. ArmedIn(s) \/ s.state = "writing"
      BY <2>1 DEF Escape
    <3> HIDE DEF ev, k
    <3>5. EepInv(k)
      BY <3>1, <3>2, <3>3, <3>4, ResultArms
    <3> QED
      BY <3>5 DEF k
  <2>2. CASE task.t = "connected"
    <3> DEFINE ev == IF task.x THEN "connect_success" ELSE "connect_fail"
    <3>1. k = Event(Cancel(s, {"connect"}), ev)
      BY <2>2 DEF Task
    <3>2. ev \in Ending("connecting") \cap EventNames /\ "connecting" \in States
      BY DEF Ending, EventNames, States
    <3>3. \A st \in States \ {"connecting"} : TimersOf(st) \cap {"connect"} = {}
      BY DEF TimersOf, States
    <3>4. ArmedIn(s) \/ s.state = "connecting"
      BY <2>2 DEF Escape
    <3> HIDE DEF ev, k
    <3>5. EepInv(k)
      BY <3>1, <3>2, <3>3, <3>4, ResultArms
    <3> QED
      BY <3>5 DEF k
  <2> QED
    BY <1>6, <2>1, <2>2
<1>7. CASE task \in [t : {"timer"}, x : Timers]
  <2>1. k = Expired(s, task.x) /\ task.x \in Timers /\ (ArmedIn(s) \/ task.x \in TimersOf(s.state))
    BY <1>7 DEF Escape, Task
  <2> QED
    BY <2>1, ExpiredArms
<1>8. CASE task \in [t : {"send"}, x : Outs]
  <2>1. ArmedIn(s) /\ k = SocketSend(s, task.x) /\ task.x \in Outs
    BY <1>8 DEF Escape, Task
  <2> QED
    BY <2>1, SendKeeps, CoversArms
<1> QED
  BY <1>1, <1>2, <1>3, <1>4, <1>5, <1>6, <1>7, <1>8 DEF Tasks
------------------------------------------------------------------------------
\* The invariant, and the actions.

UnitState == [wire : Seq(Wires), due : Seq(Notified)]

IInv == EepInv(eep) /\ unit \in UnitState /\ calls \subseteq Calls /\ faults \in 0..MaxFaults

\* What a task that comes from outside leaves.
LEMMA PostArms ==
  ASSUME NEW s, Sound(s), ArmedIn(s), NEW t, NEW x, [t |-> t, x |-> x] \in Tasks
  PROVE  EepInv(Post(s, t, x))
BY PostKeeps, CoversArms

LEMMA FaultTypes == ASSUME EepAssumption, faults \in 0..MaxFaults, Fault PROVE faults' \in 0..MaxFaults
<1>1. faults \in Nat /\ faults < MaxFaults /\ faults' = faults + 1 /\ MaxFaults \in Nat
  BY DEF Fault, EepAssumption
<1> QED
  BY <1>1

LEMMA InitArms == ASSUME EepAssumption, Init PROVE IInv
<1> DEFINE a == [t |-> "event", x |-> "connect"]
           q == <<a>>
<1>1. a \in Tasks /\ Escape(a, "idle")
  BY DEF Tasks, EventNames, Escape, Ending
<1> HIDE DEF a
<1>2. q \in Seq(Tasks) /\ Pending(q, "idle")
  <2>1. q \in Seq(Tasks) /\ 1 \in DOMAIN q /\ q[1] = a
    BY <1>1
  <2> QED
    BY <1>1, <2>1 DEF Pending
<1> HIDE DEF q
<1>3. << >> \in Seq(Cmds) /\ << >> \in Seq(Outs) /\ << >> \in Seq(Wires) /\ << >> \in Seq(Notified)
  OBVIOUS
<1>4. eep = [state |-> "idle", queue |-> << >>, current |-> "watchdog", requested |-> "watchdog", seq |-> 0,
             expected |-> NoSeq, missed |-> 0, timers |-> {}, posts |-> q, connected |-> FALSE,
             connecting |-> FALSE, out |-> << >>, stopping |-> FALSE, open |-> {}, failed |-> {}, odd |-> FALSE]
  BY DEF Init, q, a
<1>5. 0 \in 0..MissedLimit - 1 /\ 0 \in 0..MaxFaults
  BY DEF EepAssumption
<1>6. "watchdog" \in Requests /\ "idle" \in States /\ 0 \in Nums
  BY DEF Requests, States, Nums
<1>7. Sound(eep)
  BY <1>2, <1>3, <1>4, <1>5, <1>6 DEF Sound, EepState, Cmds
<1>8. ArmedIn(eep)
  BY <1>2, <1>4 DEF ArmedIn, Ends
<1> QED
  BY <1>3, <1>5, <1>7, <1>8 DEF Init, IInv, EepInv, UnitState

LEMMA RunTaskArms == ASSUME EepAssumption, IInv, RunTask PROVE IInv'
<1> DEFINE hd == Head(eep.posts)
           r == Tail(eep.posts)
           s == [eep EXCEPT !.posts = r]
<1>1. eep.posts \in Seq(Tasks) /\ eep.posts # << >> /\ eep.state \in States
  BY DEF IInv, EepInv, Sound, EepState, RunTask
<1>2. hd \in Tasks /\ r \in Seq(Tasks)
  BY <1>1, TailParts
<1>3. \A st : Pending(eep.posts, st) => Escape(hd, st) \/ Pending(r, st)
  BY <1>1, TailPends
<1>4. eep' = Task(s, hd.t, hd.x)
  BY DEF RunTask
<1> HIDE DEF hd, r
<1>5. Sound(s) /\ s.posts = r /\ s.timers = eep.timers /\ s.state = eep.state /\ s.stopping = eep.stopping
  BY <1>2 DEF IInv, EepInv, Sound, EepState
<1> HIDE DEF s
<1>6. ArmedIn(s) \/ Escape(hd, s.state)
  BY <1>3, <1>5 DEF IInv, EepInv, ArmedIn, Ends
<1>7. EepInv(eep')
  BY <1>2, <1>4, <1>5, <1>6, TaskKeeps
<1>8. unit' \in UnitState
  <2>1. << >> \in Seq(Wires)
    OBVIOUS
  <2>2. unit' = unit \/ unit' = [unit EXCEPT !.wire = << >>]
    BY DEF RunTask
  <2> QED
    BY <2>1, <2>2 DEF IInv, UnitState
<1> QED
  BY <1>7, <1>8 DEF IInv, RunTask

LEMMA ConnectEndsArms == ASSUME EepAssumption, IInv, NEW ok \in BOOLEAN, ConnectEnds(ok) PROVE IInv'
<1> DEFINE u == [eep EXCEPT !.connecting = FALSE, !.connected = ok]
<1>1. /\ Sound(u) /\ u.posts = eep.posts /\ u.timers = eep.timers
      /\ u.state = eep.state /\ u.stopping = eep.stopping
  BY DEF IInv, EepInv, Sound, EepState, ConnectEnds
<1>2. eep' = Post(u, "connected", ok)
  BY DEF ConnectEnds
<1> HIDE DEF u
<1>3. ArmedIn(u)
  BY <1>1 DEF IInv, EepInv, ArmedIn, Ends
<1>4. [t |-> "connected", x |-> ok] \in Tasks
  BY DEF Tasks
<1>5. EepInv(Post(u, "connected", ok))
  BY <1>1, <1>3, <1>4, PostArms
<1>6. unit' = unit /\ calls' = calls /\ faults' \in 0..MaxFaults
  BY FaultTypes DEF ConnectEnds, IInv
<1> QED
  BY <1>2, <1>5, <1>6 DEF IInv
LEMMA WireParts ==
  ASSUME unit \in UnitState
  PROVE  /\ \A m \in Wires : [unit EXCEPT !.wire = Append(@, m)] \in UnitState
         /\ [unit EXCEPT !.wire = << >>] \in UnitState
         /\ unit.wire # << >> => Head(unit.wire) \in Wires /\ [unit EXCEPT !.wire = Tail(@)] \in UnitState
<1>1. unit.wire \in Seq(Wires) /\ << >> \in Seq(Wires)
  BY DEF UnitState
<1>2. \A m \in Wires : Append(unit.wire, m) \in Seq(Wires)
  BY <1>1
<1>3. unit.wire # << >> => Head(unit.wire) \in Wires /\ Tail(unit.wire) \in Seq(Wires)
  BY <1>1
<1> QED
  BY <1>1, <1>2, <1>3 DEF UnitState

LEMMA WriteEndsArms == ASSUME EepAssumption, IInv, WriteEnds PROVE IInv'
<1> DEFINE m == Head(eep.out)
           r == Tail(eep.out)
           u == [eep EXCEPT !.out = r]
<1>1. eep.out \in Seq(Outs) /\ eep.out # << >>
  BY DEF IInv, EepInv, Sound, EepState, WriteEnds
<1>2. m \in Outs /\ r \in Seq(Outs)
  BY <1>1
<1>3. eep' = Post(u, "sent", TRUE) /\ unit' \in Answer(m)
  BY DEF WriteEnds
<1> HIDE DEF m, r
<1>4. Sound(u) /\ u.posts = eep.posts /\ u.timers = eep.timers /\ u.state = eep.state /\ u.stopping = eep.stopping
  BY <1>1, <1>2 DEF IInv, EepInv, Sound, EepState
<1> HIDE DEF u
<1>5. ArmedIn(u)
  BY <1>4 DEF IInv, EepInv, ArmedIn, Ends
<1>6. [t |-> "sent", x |-> TRUE] \in Tasks
  BY DEF Tasks
<1>7. EepInv(Post(u, "sent", TRUE))
  BY <1>4, <1>5, <1>6, PostArms
<1>8. unit' \in UnitState
  <2>0. unit \in UnitState
    BY DEF IInv
  <2>1. CASE m.m = "note"
    <3>1. m.c \notin Notified
      BY <1>2, <2>1 DEF Outs, Asked, Notified, Unsolicited
    <3>2. unit' = [unit EXCEPT !.wire = unit.wire]
      BY <1>3, <2>1, <3>1 DEF Answer
    <3> QED
      BY <2>0, <3>2 DEF UnitState
  <2>2. CASE m.m # "note"
    <3>1. m \in Asked
      BY <1>2, <2>2 DEF Outs
    <3> DEFINE ack == [m EXCEPT !.m = "ack"]
               nak == [m EXCEPT !.m = "nak"]
    <3>2. m \in Wires /\ ack \in Wires /\ nak \in Wires
      BY <3>1 DEF Asked, Wires, Answers
    <3>3. CASE m.c \in Notified
      <4>1. unit' = [unit EXCEPT !.wire = Append(@, ack), !.due = Append(@, m.c)]
            \/ unit' = [unit EXCEPT !.wire = Append(@, nak)]
        BY <1>3, <2>2, <3>3 DEF Answer
      <4> HIDE DEF ack, nak
      <4>2. Append(unit.wire, ack) \in Seq(Wires) /\ Append(unit.due, m.c) \in Seq(Notified)
        BY <2>0, <3>2, <3>3 DEF UnitState
      <4> QED
        BY <2>0, <3>2, <4>1, <4>2, WireParts DEF UnitState
    <3>4. CASE m.c \notin Notified
      <4>1. unit' = [unit EXCEPT !.wire = Append(@, m)]
        BY <1>3, <2>2, <3>4 DEF Answer
      <4> QED
        BY <2>0, <3>2, <4>1, WireParts
    <3> QED
      BY <3>3, <3>4
  <2> QED
    BY <2>1, <2>2
<1> QED
  BY <1>3, <1>7, <1>8 DEF IInv, WriteEnds

LEMMA NoteSentArms == ASSUME EepAssumption, IInv, NoteSent PROVE IInv'
<1> DEFINE m == Message("note", Head(unit.due), NoSeq)
<1>1. unit.due \in Seq(Notified) /\ unit.wire \in Seq(Wires) /\ unit.due # << >>
  BY DEF IInv, UnitState, NoteSent
<1>2. Head(unit.due) \in Notified /\ Tail(unit.due) \in Seq(Notified)
  BY <1>1
<1>3. m \in Wires
  BY <1>2 DEF Wires, Message
<1>4. unit' = [unit EXCEPT !.wire = Append(@, m), !.due = Tail(@)] /\ eep' = eep /\ calls' = calls
  BY DEF NoteSent
<1> HIDE DEF m
<1>5. Append(unit.wire, m) \in Seq(Wires)
  BY <1>1, <1>3
<1>6. unit' \in UnitState
  BY <1>2, <1>4, <1>5 DEF IInv, UnitState
<1>7. faults' \in 0..MaxFaults
  BY FaultTypes DEF NoteSent, IInv
<1> QED
  BY <1>4, <1>6, <1>7 DEF IInv

LEMMA FrameArrivesArms == ASSUME EepAssumption, IInv, FrameArrives PROVE IInv'
<1>1. unit \in UnitState /\ unit.wire # << >>
  BY DEF IInv, FrameArrives
<1>2. Head(unit.wire) \in Heard
  BY <1>1, WireParts DEF Heard
<1>3. [t |-> "received", x |-> Head(unit.wire)] \in Tasks
  BY <1>2 DEF Tasks
<1>4. EepInv(Post(eep, "received", Head(unit.wire)))
  BY <1>3, PostArms DEF IInv, EepInv
<1>5. faults' \in 0..MaxFaults
  BY FaultTypes DEF FrameArrives, IInv
<1>6. unit' \in UnitState
  BY <1>1, WireParts DEF FrameArrives
<1> QED
  BY <1>4, <1>5, <1>6 DEF IInv, FrameArrives

LEMMA FrameGarbledArms ==
  ASSUME EepAssumption, IInv, NEW kind \in {"garbled", "short"}, FrameGarbled(kind)
  PROVE  IInv'
<1> DEFINE m == Message(kind, "watchdog", NoSeq)
<1>1. unit \in UnitState /\ unit.wire # << >>
  BY DEF IInv, FrameGarbled
<1>2. m \in Heard
  BY DEF Heard, Message
<1>3. eep' = Post(eep, "received", m)
  BY DEF FrameGarbled
<1> HIDE DEF m
<1>4. [t |-> "received", x |-> m] \in Tasks
  BY <1>2 DEF Tasks
<1>5. EepInv(Post(eep, "received", m))
  BY <1>4, PostArms DEF IInv, EepInv
<1>6. faults' \in 0..MaxFaults
  BY FaultTypes DEF FrameGarbled, IInv
<1>7. unit' \in UnitState
  BY <1>1, WireParts DEF FrameGarbled
<1> QED
  BY <1>3, <1>5, <1>6, <1>7 DEF IInv, FrameGarbled

LEMMA FrameLostArms == ASSUME EepAssumption, IInv, FrameLost PROVE IInv'
<1>1. unit \in UnitState /\ unit.wire # << >>
  BY DEF IInv, FrameLost
<1>2. unit' \in UnitState
  BY <1>1, WireParts DEF FrameLost
<1>3. faults' \in 0..MaxFaults
  BY FaultTypes DEF FrameLost, IInv
<1> QED
  BY <1>2, <1>3 DEF IInv, FrameLost

LEMMA TransportFailsArms == ASSUME EepAssumption, IInv, NEW read \in BOOLEAN, TransportFails(read) PROVE IInv'
<1> DEFINE down == SocketClose(eep)
           m == Message("lost", "watchdog", NoSeq)
<1>1. Sound(down) /\ Covers(eep, down)
  BY CloseKeeps DEF IInv, EepInv
<1>2. eep' = IF read THEN Post(down, "received", m) ELSE Post(down, "sent", FALSE)
  BY DEF TransportFails
<1>3. m \in Heard
  BY DEF Heard, Message
<1> HIDE DEF down, m
<1>4. [t |-> "received", x |-> m] \in Tasks /\ [t |-> "sent", x |-> FALSE] \in Tasks
  BY <1>3 DEF Tasks
<1>5. EepInv(down)
  BY <1>1, CoversArms DEF IInv, EepInv
<1>6. EepInv(Post(down, "received", m)) /\ EepInv(Post(down, "sent", FALSE))
  BY <1>4, <1>5, PostArms DEF EepInv
<1>7. faults' \in 0..MaxFaults /\ unit' \in UnitState
  BY FaultTypes, WireParts DEF TransportFails, IInv
<1> QED
  BY <1>2, <1>6, <1>7 DEF IInv, TransportFails

LEMMA ExpireArms == ASSUME EepAssumption, IInv, NEW timer \in Timers, Expire(timer) PROVE IInv'
<1> DEFINE c == Cancel(eep, {timer})
           t == Post(c, "timer", timer)
<1>1. /\ Sound(c) /\ c.state = eep.state /\ c.stopping = eep.stopping
      /\ \A st \in States : Ends(eep, st) /\ TimersOf(st) \cap {timer} = {} => Ends(c, st)
  BY CancelKeeps DEF IInv, EepInv
<1>2. [t |-> "timer", x |-> timer] \in Tasks
  BY DEF Tasks
<1>3. eep' = t
  BY DEF Expire
<1> HIDE DEF c
<1>4. /\ Sound(t) /\ Covers(c, t)
      /\ \A st \in States : Escape([t |-> "timer", x |-> timer], st) => Ends(t, st)
  BY <1>1, <1>2, PostKeeps
<1> HIDE DEF t
<1>5. \A st \in States : timer \in TimersOf(st) => Ends(t, st)
  BY <1>4 DEF Escape
<1>6. \A st \in States : Ends(eep, st) => Ends(t, st)
  BY <1>1, <1>4, <1>5 DEF Covers
<1>7. eep.state \in States
  BY DEF IInv, EepInv, Sound, EepState
<1>8. EepInv(t)
  BY <1>1, <1>4, <1>6, <1>7 DEF IInv, EepInv, ArmedIn, Covers
<1>9. faults' \in 0..MaxFaults
  BY FaultTypes DEF Expire, IInv
<1> QED
  BY <1>3, <1>8, <1>9 DEF IInv, Expire

\* What the lane asks for.
LEMMA OpenKeeps ==
  ASSUME NEW s, EepInv(s), NEW c \in Calls
  PROVE  EepInv([s EXCEPT !.open = @ \cup {c}])
<1> DEFINE open == s.open \cup {c}
           u == [s EXCEPT !.open = open]
<1>1. open \in SUBSET Calls
  BY DEF EepInv, Sound, EepState
<1> HIDE DEF open
<1>2. Sound(u) /\ u.posts = s.posts /\ u.timers = s.timers /\ u.state = s.state /\ u.stopping = s.stopping
  BY <1>1 DEF EepInv, Sound, EepState
<1>3. u = [s EXCEPT !.open = @ \cup {c}]
  BY DEF open
<1> HIDE DEF u
<1> QED
  BY <1>2, <1>3 DEF EepInv, ArmedIn, Ends

LEMMA SendArms == ASSUME EepAssumption, IInv, NEW c \in Calls, FnSend(c) PROVE IInv'
<1> DEFINE u == [eep EXCEPT !.open = @ \cup {c}]
<1>1. EepInv(u)
  BY OpenKeeps DEF IInv
<1>2. eep' = Post(u, "enqueue", c)
  BY DEF FnSend
<1> HIDE DEF u
<1>3. c \in Cmds
  BY DEF EepAssumption, Cmds, Requests
<1>4. [t |-> "enqueue", x |-> c] \in Tasks
  BY <1>3 DEF Tasks
<1>5. EepInv(Post(u, "enqueue", c))
  BY <1>1, <1>4, PostArms DEF EepInv
<1> QED
  BY <1>2, <1>5 DEF IInv, FnSend

LEMMA DeductArms == ASSUME EepAssumption, IInv, NEW parsed \in BOOLEAN, FnSendDeductReq(parsed) PROVE IInv'
<1> DEFINE u == [eep EXCEPT !.open = @ \cup {"deduct"}]
           t == IF parsed THEN "enqueue" ELSE "failure"
<1>1. "deduct" \in Calls
  BY DEF FnSendDeductReq, IInv
<1>2. EepInv(u)
  BY <1>1, OpenKeeps DEF IInv
<1>3. eep' = Post(u, t, "deduct")
  BY DEF FnSendDeductReq
<1>4. [t |-> t, x |-> "deduct"] \in Tasks
  BY DEF Tasks, Cmds, Requests
<1> HIDE DEF u, t
<1>5. EepInv(Post(u, t, "deduct"))
  BY <1>2, <1>4, PostArms DEF EepInv
<1>6. faults' \in 0..MaxFaults
  BY FaultTypes DEF FnSendDeductReq, IInv
<1> QED
  BY <1>3, <1>5, <1>6 DEF IInv, FnSendDeductReq

LEMMA CloseArms == ASSUME EepAssumption, IInv, FnEEPClientClose PROVE IInv'
<1>1. << >> \in Seq(Cmds) /\ << >> \in Seq(Tasks) /\ << >> \in Seq(Outs) /\ "idle" \in States
  BY DEF States
<1>2. Sound(eep') /\ eep'.stopping
  BY <1>1 DEF FnEEPClientClose, IInv, EepInv, Sound, EepState
<1>3. unit' \in UnitState
  BY WireParts DEF FnEEPClientClose, IInv
<1> QED
  BY <1>2, <1>3 DEF FnEEPClientClose, IInv, EepInv, ArmedIn

LEMMA StepArms == ASSUME EepAssumption, IInv, [Next]_vars PROVE IInv'
<1>1. CASE UNCHANGED vars
  BY <1>1 DEF vars, IInv
<1>2. CASE Next
  BY <1>2, RunTaskArms, ConnectEndsArms, WriteEndsArms, NoteSentArms, FrameArrivesArms, FrameGarbledArms,
     FrameLostArms, TransportFailsArms, ExpireArms, SendArms, DeductArms, CloseArms DEF Next
<1> QED
  BY <1>1, <1>2

------------------------------------------------------------------------------
\* What follows from the invariant.

LEMMA InvTypes == ASSUME EepAssumption, IInv PROVE TypeOK
<1>1. eep.seq \in 0..Sequences - 1 /\ eep.expected \in 0..NoSeq
  BY DEF IInv, EepInv, Sound, EepState, Nums, NoSeq, Sequences
<1> QED
  BY <1>1 DEF IInv, EepInv, Sound, EepState, Cmds, TypeOK

LEMMA PendingPosted ==
  ASSUME EepAssumption, IInv, Pending(eep.posts, eep.state)
  PROVE  \/ Posted("event", Ending(eep.state)) \/ Posted("timer", TimersOf(eep.state))
         \/ eep.state = "connecting" /\ Posted("connected", BOOLEAN)
         \/ eep.state = "writing" /\ Posted("sent", BOOLEAN)
<1>1. PICK i \in DOMAIN eep.posts : Escape(eep.posts[i], eep.state)
  BY DEF Pending
<1>2. eep.posts[i] \in Tasks
  BY DEF IInv, EepInv, Sound, EepState
<1>3. eep.posts[i].t \in {"connected", "sent"} => eep.posts[i].x \in BOOLEAN
  BY <1>2 DEF Tasks
<1> QED
  BY <1>1, <1>3 DEF Escape, Posted

LEMMA InvArmed == ASSUME EepAssumption, IInv PROVE Armed
<1>1. eep.state \in States /\ (eep.stopping \/ eep.state = "connected" \/ Ends(eep, eep.state))
  BY DEF IInv, EepInv, ArmedIn, Sound, EepState
<1>2. CASE eep.stopping \/ eep.state = "connected"
  BY <1>2 DEF Armed
<1>3. CASE eep.state = "idle" /\ Ends(eep, "idle")
  BY <1>3, PendingPosted DEF Armed, Ends, TimersOf, Ending
<1>4. CASE eep.state = "connecting" /\ Ends(eep, "connecting")
  BY <1>4, PendingPosted DEF Armed, Ends, TimersOf, Ending
<1>5. CASE eep.state = "writing" /\ Ends(eep, "writing")
  BY <1>5, PendingPosted DEF Armed, Ends, TimersOf, Ending
<1>6. CASE eep.state = "waiting" /\ Ends(eep, "waiting")
  BY <1>6, PendingPosted DEF Armed, Ends, TimersOf, Ending
<1> QED
  BY <1>1, <1>2, <1>3, <1>4, <1>5, <1>6 DEF States

LEMMA InvMatch == ASSUME IInv PROVE AnswersMatch
BY DEF IInv, EepInv, Sound, AnswersMatch

LEMMA InvHolds == Spec => []IInv
<1>1. Init => IInv
  BY EepAssumption, InitArms
<1>2. IInv /\ [Next]_vars => IInv'
  BY EepAssumption, StepArms
<1> QED
  BY <1>1, <1>2, PTL DEF Spec

\* The client's state is well formed: the connection is made or being made, never both, writes are under way
\* only with a connection, and the numbers stay in their width; whatever the lane asks for and however often
\* frames are lost, answers garbled or the connection broken.
THEOREM TypeCorrect == Spec => []TypeOK
<1>1. IInv => TypeOK
  BY EepAssumption, InvTypes
<1> QED
  BY <1>1, InvHolds, PTL

\* The client is never stuck: in every state but the one in which it waits for requests a timer runs that
\* ends it, or an event that ends it is on its way (the timers of eep_client.cpp, started and stopped at
\* every transition).
THEOREM AlwaysArmed == Spec => []Armed
<1>1. IInv => Armed
  BY EepAssumption, InvArmed
<1> QED
  BY <1>1, InvHolds, PTL

\* An answer is reported only for the request it was sent for: the number that is expected, if any, is always
\* the one given last, and the others are refused.
THEOREM AnswersAreOwn == Spec => []AnswersMatch
<1>1. IInv => AnswersMatch
  BY InvMatch
<1> QED
  BY <1>1, InvHolds, PTL

------------------------------------------------------------------------------
(* A client that meets no fault *)

\* Tasks: what the lane may post before there is a connection; what may wait behind, and what before, the task that
\* the exchange under way depends on.
Job(t, x) == [t |-> t, x |-> x]
Want  == Job("event", "write_command")
Early == {Job("enqueue", c) : c \in Calls}
Later == {Job("enqueue", c) : c \in Cmds} \cup {Job("timer", c) : c \in {"watchdog", "health"}}
           \cup {Job("check", "queue"), Job("event", "check_command")}
Chores == Later \cup {Want}

\* All tasks of q are of C; q holds the task x, with tasks of C before it and of D behind it.
All(q, C) == \A i \in DOMAIN q : q[i] \in C
Carries(q, x, C, D) == \E k \in DOMAIN q : q[k] = x /\ \A i \in DOMAIN q : (i < k => q[i] \in C) /\ (i > k => q[i] \in D)

\* The timers that guard something, and what is between the client and the controller.
Watch(s) == s.timers \ {"watchdog", "health"}
Carried(u, wire, due) == u.wire = wire /\ u.due = due
Silent(u) == Carried(u, << >>, << >>)

\* The connection that is made first.
Phase(s, u, st, up, busy, ts) ==
  /\ s.state = st /\ s.connected = up /\ s.connecting = busy /\ s.timers = ts
  /\ s.out = << >> /\ s.missed = 0 /\ Silent(u)
Before(s, u) ==
  \/ Phase(s, u, "idle", FALSE, FALSE, {}) /\ Carries(s.posts, Job("event", "connect"), Early, Early)
  \/ Phase(s, u, "connecting", FALSE, FALSE, {"connect"}) /\ Carries(s.posts, Job("connect", "socket"), Early, Early)
  \/ Phase(s, u, "connecting", FALSE, TRUE, {"connect"}) /\ All(s.posts, Early)
  \/ Phase(s, u, "connecting", TRUE, FALSE, {"connect"}) /\ Carries(s.posts, Job("connected", TRUE), Early, Early)
  \/ Phase(s, u, "connecting", TRUE, FALSE, {}) /\ Carries(s.posts, Job("event", "connect_success"), Early, Early)

\* Between two exchanges: the next is called for only while something is queued.
Holds(s, st, ts, out) == s.state = st /\ s.connected /\ Watch(s) = ts /\ s.out = out
Between(s, u) ==
  /\ Holds(s, "connected", {}, << >>) /\ Silent(u)
  /\ All(s.posts, Chores) /\ (s.queue = << >> => All(s.posts, Later))

\* The frame of the exchange, what the controller may answer, and what it owes then.
Own(s) == IF s.current \in Unsolicited THEN Message("note", s.current, NoSeq) ELSE Message("rsp", s.requested, s.expected)
Replies(s) ==
  {Message(m, s.requested, s.expected) : m \in {"nak", "rsp"} \cup (IF s.requested \in Notified THEN {"ack"} ELSE {})}
Owed(m) == IF m.m = "ack" THEN <<m.c>> ELSE << >>
Replied(s, u) ==
  IF s.current \in Unsolicited THEN Silent(u) ELSE \E m \in Replies(s) : Carried(u, <<m>>, Owed(m))

\* The frame is posted to the socket, is being written, was written, or that was told.
Sending(s, u) ==
  /\ s.current = s.requested \/ s.current \in Unsolicited
  /\ \/ Holds(s, "writing", {"send"}, << >>) /\ Silent(u) /\ Carries(s.posts, Job("send", Own(s)), Chores, Later)
     \/ Holds(s, "writing", {"send"}, <<Own(s)>>) /\ Silent(u) /\ All(s.posts, Later)
     \/ Holds(s, "writing", {"send"}, << >>) /\ Replied(s, u) /\ Carries(s.posts, Job("sent", TRUE), Later, Later)
     \/ Holds(s, "writing", {}, << >>) /\ Replied(s, u) /\ Carries(s.posts, Job("event", "write_completed"), Later, Later)

\* The exchange is over; or its answer is on the wire, was read, or was an acknowledgement behind which the
\* notification is owed, is on the wire, or was read.
Done == {Job("event", e) : e \in {"unsolicited_done", "ack_as_rsp", "rsp_received"}}
Note(s) == Message("note", s.requested, NoSeq)
Waits(s, u) ==
  \/ Holds(s, "waiting", {}, << >>) /\ Silent(u) /\ \E e \in Done : Carries(s.posts, e, Later, Later)
  \/ Holds(s, "waiting", {"ack"}, << >>) /\ All(s.posts, Later) /\ \E m \in Replies(s) : Carried(u, <<m>>, Owed(m))
  \/ Holds(s, "waiting", {"ack"}, << >>)
       /\ \E m \in Replies(s) : Carried(u, << >>, Owed(m)) /\ Carries(s.posts, Job("received", m), Later, Later)
  \/ Holds(s, "waiting", {}, << >>) /\ Carried(u, << >>, <<s.requested>>)
       /\ Carries(s.posts, Job("event", "ack_received"), Later, Later)
  \/ Holds(s, "waiting", {"response"}, << >>) /\ Carried(u, << >>, <<s.requested>>) /\ All(s.posts, Later)
  \/ Holds(s, "waiting", {"response"}, << >>) /\ Carried(u, <<Note(s)>>, << >>) /\ All(s.posts, Later)
  \/ Holds(s, "waiting", {"response"}, << >>) /\ Silent(u) /\ Carries(s.posts, Job("received", Note(s)), Later, Later)

\* The exchange is at exactly one place, with the timer that guards that place and no other.
Goes(s, u) == s.failed = {} /\ ~s.stopping /\ (Before(s, u) \/ Between(s, u) \/ Sending(s, u) \/ Waits(s, u))
Stopped(s) == s.stopping /\ s.posts = << >> /\ s.timers = {} /\ ~s.connected /\ ~s.connecting /\ s.out = << >>
Smooth == faults = 0 => (eep.failed = {} /\ Stopped(eep)) \/ Goes(eep, unit)

------------------------------------------------------------------------------
\* r is q with tasks of D behind it.
Grows(q, r, D) == Len(q) <= Len(r) /\ \A i \in DOMAIN r : IF i <= Len(q) THEN r[i] = q[i] ELSE r[i] \in D

LEMMA Growing ==
  ASSUME NEW q \in Seq(Tasks), NEW D
  PROVE  /\ Grows(q, q, D)
         /\ \A a \in Tasks : a \in D => Append(q, a) \in Seq(Tasks) /\ Grows(q, Append(q, a), D)
BY SeqParts DEF Grows

LEMMA GrowsTwice ==
  ASSUME NEW q \in Seq(Tasks), NEW r \in Seq(Tasks), NEW p \in Seq(Tasks), NEW D, NEW E, Grows(q, r, D), Grows(r, p, E), D \subseteq E
  PROVE  Grows(q, p, E)
<1>1. /\ Len(q) \in Nat /\ Len(r) \in Nat /\ Len(p) \in Nat
      /\ DOMAIN q = 1..Len(q) /\ DOMAIN r = 1..Len(r) /\ DOMAIN p = 1..Len(p)
  BY SeqParts
<1> QED
  BY <1>1 DEF Grows

LEMMA GrowsAll ==
  ASSUME NEW q \in Seq(Tasks), NEW r \in Seq(Tasks), NEW C, NEW D, D \subseteq C, All(q, C), Grows(q, r, D)
  PROVE  All(r, C)
<1>1. Len(q) \in Nat /\ Len(r) \in Nat /\ DOMAIN q = 1..Len(q) /\ DOMAIN r = 1..Len(r)
  BY SeqParts
<1> QED
  BY <1>1 DEF Grows, All

LEMMA GrowsCarries ==
  ASSUME NEW q \in Seq(Tasks), NEW r \in Seq(Tasks), NEW x, NEW C, NEW D, Carries(q, x, C, D), Grows(q, r, D)
  PROVE  Carries(r, x, C, D)
<1>1. Len(q) \in Nat /\ Len(r) \in Nat /\ DOMAIN q = 1..Len(q) /\ DOMAIN r = 1..Len(r)
  BY SeqParts
<1>2. PICK k \in DOMAIN q : q[k] = x /\ \A i \in DOMAIN q : (i < k => q[i] \in C) /\ (i > k => q[i] \in D)
  BY DEF Carries
<1>3. k \in DOMAIN r /\ r[k] = x
  BY <1>1, <1>2 DEF Grows
<1>4. ASSUME NEW i \in DOMAIN r PROVE (i < k => r[i] \in C) /\ (i > k => r[i] \in D)
  BY <1>1, <1>2 DEF Grows
<1> QED
  BY <1>3, <1>4 DEF Carries

LEMMA TokenComes ==
  ASSUME NEW q \in Seq(Tasks), NEW x \in Tasks, NEW C, NEW D, All(q, C)
  PROVE  Carries(Append(q, x), x, C, D)
<1> DEFINE r == Append(q, x)
<1>1. /\ Len(q) \in Nat /\ DOMAIN q = 1..Len(q) /\ DOMAIN r = 1..(Len(q) + 1)
      /\ r[Len(q) + 1] = x /\ \A i \in 1..Len(q) : r[i] = q[i]
  BY SeqParts
<1> HIDE DEF r
<1>2. Carries(r, x, C, D)
  <2>1. Len(q) + 1 \in DOMAIN r
    BY <1>1
  <2>2. \A i \in DOMAIN r : (i < Len(q) + 1 => r[i] \in C) /\ (i > Len(q) + 1 => r[i] \in D)
    BY <1>1 DEF All
  <2> QED
    BY <1>1, <2>1, <2>2 DEF Carries
<1> QED
  BY <1>2 DEF r

LEMMA HeadOfAll ==
  ASSUME NEW q \in Seq(Tasks), q # << >>, NEW C, All(q, C)
  PROVE  Head(q) \in C /\ All(Tail(q), C)
<1>1. /\ Len(q) \in Nat /\ Len(q) > 0 /\ Head(q) = q[1] /\ DOMAIN q = 1..Len(q)
      /\ DOMAIN Tail(q) = 1..(Len(q) - 1) /\ \A i \in 1..(Len(q) - 1) : Tail(q)[i] = q[i + 1]
  BY TailParts
<1> QED
  BY <1>1 DEF All

LEMMA HeadOfCarries ==
  ASSUME NEW q \in Seq(Tasks), NEW x, NEW C, NEW D, Carries(q, x, C, D)
  PROVE  /\ q # << >>
         /\ (Head(q) = x /\ All(Tail(q), D)) \/ (Head(q) \in C /\ Carries(Tail(q), x, C, D))
<1>1. PICK k \in DOMAIN q : q[k] = x /\ \A i \in DOMAIN q : (i < k => q[i] \in C) /\ (i > k => q[i] \in D)
  BY DEF Carries
<1>2. q # << >>
  BY <1>1
<1>3. /\ Len(q) \in Nat /\ Len(q) > 0 /\ Head(q) = q[1] /\ DOMAIN q = 1..Len(q)
      /\ DOMAIN Tail(q) = 1..(Len(q) - 1) /\ \A i \in 1..(Len(q) - 1) : Tail(q)[i] = q[i + 1]
  BY <1>2, TailParts
<1> DEFINE r == Tail(q)
<1> HIDE DEF r
<1>4. CASE k = 1
  <2>1. \A i \in DOMAIN r : r[i] \in D
    BY <1>1, <1>3, <1>4 DEF r
  <2> QED
    BY <1>1, <1>2, <1>3, <1>4, <2>1 DEF All, r
<1>5. CASE k # 1
  <2>1. k - 1 \in DOMAIN r /\ r[k - 1] = x
    BY <1>1, <1>3, <1>5 DEF r
  <2>2. \A i \in DOMAIN r : (i < k - 1 => r[i] \in C) /\ (i > k - 1 => r[i] \in D)
    BY <1>1, <1>3, <1>5 DEF r
  <2>3. Head(q) \in C
    BY <1>1, <1>3, <1>5
  <2> QED
    BY <1>2, <2>1, <2>2, <2>3 DEF Carries, r
<1> QED
  BY <1>4, <1>5

------------------------------------------------------------------------------
\* What only the exchange itself changes; and, of two states, all but the tasks and what the lane is told.
Alike(s, t) ==
  /\ t.current = s.current /\ t.requested = s.requested /\ t.expected = s.expected /\ t.connected = s.connected
  /\ t.connecting = s.connecting /\ t.out = s.out /\ t.stopping = s.stopping /\ t.failed = s.failed
Still(s, t) == Alike(s, t) /\ t.state = s.state /\ t.queue = s.queue /\ t.timers = s.timers /\ t.missed = s.missed

LEMMA PostStill ==
  ASSUME NEW s, Sound(s), NEW t, NEW x, Job(t, x) \in Tasks
  PROVE  LET u == Post(s, t, x) IN Sound(u) /\ Still(s, u) /\ u.posts = Append(s.posts, Job(t, x))
<1>1. Sound(Post(s, t, x))
  BY PostKeeps DEF Job
<1>2. Still(s, Post(s, t, x)) /\ Post(s, t, x).posts = Append(s.posts, Job(t, x))
  BY DEF Sound, EepState, Post, Still, Alike, Job
<1> QED
  BY <1>1, <1>2

LEMMA EventStill ==
  ASSUME NEW s, Sound(s), NEW ev \in EventNames
  PROVE  LET u == Event(s, ev) IN Sound(u) /\ Still(s, u) /\ u.posts = Append(s.posts, Job("event", ev))
<1>1. Job("event", ev) \in Tasks
  BY DEF Job, Tasks
<1> QED
  BY <1>1, PostStill DEF Event

LEMMA TimersStill ==
  ASSUME NEW s, Sound(s), NEW timer \in Timers, NEW ts
  PROVE  LET u == Start(s, timer)
             w == Cancel(s, ts)
         IN /\ Sound(u) /\ Alike(s, u) /\ u.posts = s.posts /\ u.state = s.state /\ u.queue = s.queue
            /\ u.missed = s.missed /\ u.timers = s.timers \cup {timer}
            /\ Sound(w) /\ Alike(s, w) /\ w.posts = s.posts /\ w.state = s.state /\ w.queue = s.queue
            /\ w.missed = s.missed /\ w.timers = s.timers \ ts
<1>1. Sound(Start(s, timer)) /\ Sound(Cancel(s, ts))
  BY StartKeeps, CancelKeeps
<1>2. LET u == Start(s, timer)
      IN /\ Alike(s, u) /\ u.posts = s.posts /\ u.state = s.state /\ u.queue = s.queue
         /\ u.missed = s.missed /\ u.timers = s.timers \cup {timer}
  BY DEF Sound, EepState, Start, Alike
<1>3. LET w == Cancel(s, ts)
      IN /\ Alike(s, w) /\ w.posts = s.posts /\ w.state = s.state /\ w.queue = s.queue
         /\ w.missed = s.missed /\ w.timers = s.timers \ ts
  BY DEF Sound, EepState, Cancel, Alike
<1> QED
  BY <1>1, <1>2, <1>3

LEMMA ToStill ==
  ASSUME NEW s, Sound(s), NEW st \in States
  PROVE  LET u == To(s, st)
         IN /\ Sound(u) /\ Alike(s, u) /\ u.state = st /\ u.queue = s.queue /\ u.timers = s.timers /\ u.missed = s.missed
            /\ u.posts = IF st = "connected" THEN Append(s.posts, Job("check", "queue")) ELSE s.posts
<1> DEFINE w == [s EXCEPT !.state = st]
<1>1. /\ Sound(w) /\ Alike(s, w) /\ w.state = st /\ w.queue = s.queue /\ w.timers = s.timers /\ w.missed = s.missed
      /\ w.posts = s.posts
  BY DEF Sound, EepState, Alike
<1>2. Job("check", "queue") \in Tasks
  BY DEF Job, Tasks
<1>3. To(s, st) = IF st = "connected" THEN Post(w, "check", "queue") ELSE w
  BY DEF To
<1> HIDE DEF w
<1>4. LET u == Post(w, "check", "queue") IN Sound(u) /\ Still(w, u) /\ u.posts = Append(w.posts, Job("check", "queue"))
  BY <1>1, <1>2, PostStill
<1> QED
  BY <1>1, <1>3, <1>4 DEF Still, Alike

\* A step that only appends tasks of D, and may start the timers that run on by themselves.
Quiet(s, t, D) ==
  /\ Sound(t) /\ Alike(s, t) /\ t.state = s.state /\ Watch(t) = Watch(s) /\ Grows(s.posts, t.posts, D)

LEMMA PostsAreSeq == ASSUME NEW s, Sound(s) PROVE s.posts \in Seq(Tasks)
BY DEF Sound, EepState

LEMMA NothingQuiet == ASSUME NEW s, Sound(s), NEW D PROVE Quiet(s, s, D)
BY Growing, PostsAreSeq DEF Quiet, Alike

LEMMA CheckQuiet ==
  ASSUME NEW s, Sound(s)
  PROVE  LET t == CheckCommandQueue(s)
         IN /\ Quiet(s, t, {Want}) /\ t.queue = s.queue
            /\ (s.state # "connected" \/ s.queue = << >>) => t = s
<1>1. CASE s.state # "connected" \/ s.queue = << >>
  BY <1>1, NothingQuiet DEF CheckCommandQueue
<1>2. CASE ~(s.state # "connected" \/ s.queue = << >>)
  <2>1. CheckCommandQueue(s) = Event(s, "write_command")
    BY <1>2 DEF CheckCommandQueue
  <2>2. LET u == Event(s, "write_command") IN Sound(u) /\ Still(s, u) /\ u.posts = Append(s.posts, Want)
    BY EventStill DEF EventNames, Want
  <2>3. Want \in Tasks
    BY DEF Want, Job, Tasks, EventNames
  <2>4. Grows(s.posts, Append(s.posts, Want), {Want})
    BY <2>3, Growing, PostsAreSeq
  <2> QED
    BY <1>2, <2>1, <2>2, <2>4 DEF Quiet, Still, Watch
<1> QED
  BY <1>1, <1>2

\* A request that is queued.
LEMMA EnqueueQuiet ==
  ASSUME NEW s, Sound(s), s.connected, NEW c \in Cmds
  PROVE  LET t == Enqueue(s, c)
         IN /\ Quiet(s, t, {Want}) /\ t.queue # << >>
            /\ t.timers = s.timers /\ t.missed = s.missed
            /\ s.state # "connected" => t.posts = s.posts
<1> DEFINE q == Push(s.queue, c)
           u == [s EXCEPT !.queue = q]
<1>1. q \in Seq(Cmds) /\ q # << >>
  BY PushTypes DEF Sound, EepState
<1> HIDE DEF q
<1>2. /\ Sound(u) /\ Alike(s, u) /\ u.posts = s.posts /\ u.state = s.state /\ u.timers = s.timers
      /\ u.missed = s.missed /\ u.queue = q
  BY <1>1 DEF Sound, EepState, Alike
<1> HIDE DEF u
<1>3. Enqueue(s, c) = CheckCommandQueue(u)
  BY DEF Enqueue, u, q
<1>4. LET t == CheckCommandQueue(u)
      IN Quiet(u, t, {Want}) /\ t.queue = u.queue /\ (u.state # "connected" => t = u)
  BY <1>2, CheckQuiet
<1>5. LET t == CheckCommandQueue(u) IN t.timers = u.timers /\ t.missed = u.missed
  <2>1. LET t == Event(u, "write_command") IN t.timers = u.timers /\ t.missed = u.missed
    BY <1>2, EventStill DEF Still, EventNames
  <2> QED
    BY <2>1 DEF CheckCommandQueue
<1> QED
  BY <1>1, <1>2, <1>3, <1>4, <1>5 DEF Quiet, Alike, Watch

\* One that comes before there is a connection fails; no watchdog request comes so early.
LEMMA EnqueueEarly ==
  ASSUME EepAssumption, NEW s, Sound(s), ~s.connected, s.missed = 0, NEW c \in Calls
  PROVE  LET t == Enqueue(s, c)
         IN /\ Sound(t) /\ Alike(s, t) /\ t.state = s.state /\ t.queue = s.queue /\ t.timers = s.timers
            /\ t.missed = 0 /\ t.posts = s.posts
<1> DEFINE told == {<<c>>[i] : i \in DOMAIN <<c>>} \ (Unsolicited \cup {"watchdog", "health"})
           n == Cardinality({i \in DOMAIN <<c>> : <<c>>[i] = "watchdog"})
           u == [s EXCEPT !.open = @ \ told, !.failed = IF s.connected THEN @ \cup told ELSE @]
<1>1. c # "watchdog" /\ c \in Cmds /\ <<c>> \in Seq(Cmds)
  BY DEF EepAssumption, Cmds, Requests
<1>2. {i \in DOMAIN <<c>> : <<c>>[i] = "watchdog"} = {}
  BY <1>1
<1>3. n = 0
  BY <1>2, FS_EmptySet
<1>4. Enqueue(s, c) = Missed(u, n)
  BY DEF Enqueue, Failed
<1>5. Sound(Enqueue(s, c))
  BY <1>1, EnqueueKeeps
<1> HIDE DEF told, n
<1>6. /\ Alike(s, u) /\ u.state = s.state /\ u.queue = s.queue /\ u.timers = s.timers /\ u.missed = 0
      /\ u.posts = s.posts /\ u.posts \in Seq(Tasks) /\ Sound(u)
  BY DEF Sound, EepState, Alike
<1> HIDE DEF u
<1>7. (0 + 0) % MissedLimit = 0 /\ (0 + 0) \div MissedLimit = 0
  BY DEF EepAssumption
<1>8. [i \in 1..0 |-> [t |-> "event", x |-> "reconnect"]] = << >>
  OBVIOUS
<1>9. u.posts \o << >> = u.posts
  <2>1. u.posts \in Seq(Tasks)
    BY <1>6
  <2> QED
    BY <2>1, ConcatEmptySeq
<1>10. Missed(u, 0) = [u EXCEPT !.missed = 0, !.posts = u.posts]
  BY <1>6, <1>7, <1>8, <1>9 DEF Missed
<1> DEFINE w == [u EXCEPT !.missed = 0, !.posts = u.posts]
<1>11. /\ Alike(u, w) /\ w.state = u.state /\ w.queue = u.queue /\ w.timers = u.timers
       /\ w.missed = 0 /\ w.posts = u.posts
  BY <1>6 DEF Sound, EepState, Alike
<1>12. Enqueue(s, c) = w
  BY <1>3, <1>4, <1>10
<1> HIDE DEF w
<1> QED
  BY <1>5, <1>6, <1>11, <1>12 DEF Alike

------------------------------------------------------------------------------
LEMMA ToConnected ==
  ASSUME NEW s, Sound(s)
  PROVE  LET u == To(s, "connected")
         IN /\ Sound(u) /\ Alike(s, u) /\ u.state = "connected" /\ u.queue = s.queue /\ u.timers = s.timers
            /\ u.posts = Append(s.posts, Job("check", "queue"))
<1>1. "connected" \in States
  BY DEF States
<1> QED
  BY <1>1, ToStill

LEMMA QuietMore == ASSUME NEW s, NEW t, NEW D, NEW E, Quiet(s, t, D), D \subseteq E PROVE Quiet(s, t, E)
BY DEF Quiet, Grows

LEMMA QuietTwice ==
  ASSUME NEW s, NEW t, NEW u, NEW D, Sound(s), Quiet(s, t, D), Quiet(t, u, D)
  PROVE  Quiet(s, u, D)
<1>1. s.posts \in Seq(Tasks) /\ t.posts \in Seq(Tasks) /\ u.posts \in Seq(Tasks)
  BY PostsAreSeq DEF Quiet
<1>2. Grows(s.posts, u.posts, D)
  BY <1>1, GrowsTwice DEF Quiet
<1> QED
  BY <1>2 DEF Quiet, Alike

LEMMA PostQuiet ==
  ASSUME NEW s, Sound(s), NEW t, NEW x, Job(t, x) \in Tasks, NEW D, Job(t, x) \in D
  PROVE  Quiet(s, Post(s, t, x), D) /\ Post(s, t, x).queue = s.queue
<1> DEFINE u == Post(s, t, x)
<1>1. Grows(s.posts, Append(s.posts, Job(t, x)), D)
  BY Growing, PostsAreSeq
<1>2. Sound(u) /\ Still(s, u) /\ u.posts = Append(s.posts, Job(t, x))
  BY PostStill
<1> HIDE DEF u
<1>3. Quiet(s, u, D) /\ u.queue = s.queue
  BY <1>1, <1>2 DEF Quiet, Still, Watch
<1> QED
  BY <1>3 DEF u

LEMMA StartQuiet ==
  ASSUME NEW s, Sound(s), NEW c \in {"watchdog", "health"}, NEW D
  PROVE  Quiet(s, Start(s, c), D) /\ Start(s, c).queue = s.queue
<1>1. Grows(s.posts, s.posts, D)
  BY Growing, PostsAreSeq
<1>2. c \in Timers
  BY DEF Timers
<1>3. /\ Sound(Start(s, c)) /\ Alike(s, Start(s, c)) /\ Start(s, c).posts = s.posts /\ Start(s, c).state = s.state
      /\ Start(s, c).queue = s.queue /\ Start(s, c).timers = s.timers \cup {c}
  BY <1>2, TimersStill
<1> QED
  BY <1>1, <1>3 DEF Quiet, Watch

LEMMA LaterTasks ==
  /\ Chores \subseteq Tasks /\ Later \subseteq Chores /\ Want \in Chores
  /\ \A c \in Cmds : Job("enqueue", c) \in Later
  /\ \A c \in {"watchdog", "health"} : Job("timer", c) \in Later
  /\ Job("check", "queue") \in Later /\ Job("event", "check_command") \in Later
BY DEF Chores, Later, Want, Job, Tasks, Cmds, EventNames, Timers

LEMMA PeriodicQuiet ==
  ASSUME NEW s, Sound(s), NEW c \in {"watchdog", "health"}
  PROVE  Quiet(s, Periodic(s, c), Later) /\ Periodic(s, c).queue = s.queue
<1> DEFINE a == Post(s, "enqueue", c)
<1>1. Job("enqueue", c) \in Later /\ Job("enqueue", c) \in Tasks
  BY LaterTasks DEF Cmds, Requests
<1>2. Quiet(s, a, Later) /\ a.queue = s.queue
  BY <1>1, PostQuiet
<1>3. Periodic(s, c) = Start(a, c)
  BY DEF Periodic
<1> HIDE DEF a
<1>4. Sound(a)
  BY <1>2 DEF Quiet
<1>5. Quiet(a, Start(a, c), Later) /\ Start(a, c).queue = a.queue
  BY <1>4, StartQuiet
<1> QED
  BY <1>2, <1>3, <1>5, QuietTwice

LEMMA ReadyQuiet ==
  ASSUME NEW s, Sound(s)
  PROVE  Quiet(s, Ready(s), Later) /\ Ready(s).queue = s.queue
<1> DEFINE a == Post(s, "enqueue", "start")
           b == Post(a, "enqueue", "health")
           c == Post(b, "enqueue", "watchdog")
           d == Start(c, "health")
           e == Start(d, "watchdog")
           f == Event(e, "check_command")
<1>1. /\ \A x \in {"start", "health", "watchdog"} : Job("enqueue", x) \in Later /\ Job("enqueue", x) \in Tasks
      /\ Job("event", "check_command") \in Later /\ Job("event", "check_command") \in Tasks
  BY LaterTasks DEF Cmds, Requests
<1>2. Ready(s) = f
  BY DEF Ready
<1>3. Quiet(s, a, Later) /\ a.queue = s.queue
  BY <1>1, PostQuiet
<1> HIDE DEF a
<1>4. Quiet(a, b, Later) /\ b.queue = a.queue
  BY <1>1, <1>3, PostQuiet DEF Quiet
<1> HIDE DEF b
<1>5. Quiet(b, c, Later) /\ c.queue = b.queue
  BY <1>1, <1>4, PostQuiet DEF Quiet
<1> HIDE DEF c
<1>6. Quiet(c, d, Later) /\ d.queue = c.queue
  BY <1>5, StartQuiet DEF Quiet
<1> HIDE DEF d
<1>7. Quiet(d, e, Later) /\ e.queue = d.queue
  BY <1>6, StartQuiet DEF Quiet
<1> HIDE DEF e
<1>8. Quiet(e, f, Later) /\ f.queue = e.queue
  BY <1>1, <1>7, PostQuiet DEF Quiet, Event
<1> HIDE DEF f
<1>9. Sound(a) /\ Sound(b) /\ Sound(c) /\ Sound(d) /\ Sound(e)
  BY <1>3, <1>4, <1>5, <1>6, <1>7 DEF Quiet
<1>10. Quiet(s, c, Later)
  BY <1>3, <1>4, <1>5, <1>9, QuietTwice
<1>11. Quiet(c, f, Later)
  BY <1>6, <1>7, <1>8, <1>9, QuietTwice
<1> QED
  BY <1>2, <1>3, <1>4, <1>5, <1>6, <1>7, <1>8, <1>9, <1>10, <1>11, QuietTwice

\* The request that is taken from the queue.
LEMMA PopSends ==
  ASSUME NEW s, Sound(s), s.queue # << >>
  PROVE  LET t == Pop(s)
         IN /\ Sound(t) /\ t.state = s.state /\ t.connected = s.connected /\ t.connecting = s.connecting
            /\ t.out = s.out /\ t.stopping = s.stopping /\ t.failed = s.failed /\ t.timers = s.timers
            /\ t.current = t.requested \/ t.current \in Unsolicited
            /\ Job("send", Own(t)) \in Tasks /\ t.posts = Append(s.posts, Job("send", Own(t)))
<1> DEFINE c == Head(s.queue)
           r == Tail(s.queue)
           k == (s.seq + 1) % Sequences
           a == [s EXCEPT !.queue = r, !.current = c]
           b == [s EXCEPT !.queue = r, !.current = c, !.requested = c, !.expected = s.seq, !.seq = k]
           note == Message("note", c, NoSeq)
           rsp  == Message("rsp", c, s.seq)
<1>1. c \in Cmds /\ r \in Seq(Cmds) /\ s.seq \in Nums /\ Sound(Pop(s))
  <2>1. s.queue \in Seq(Cmds) /\ s.seq \in Nums
    BY DEF Sound, EepState
  <2> QED
    BY <2>1, PopKeeps
<1>2. CASE c \in Unsolicited
  <2>1. Pop(s) = Post(a, "send", note)
    BY <1>2 DEF Pop, Prepared
  <2>2. Job("send", note) \in Tasks
    BY <1>2 DEF Job, Message, Tasks, Outs
  <2> HIDE DEF c, r, note
  <2>3. /\ Sound(a) /\ a.state = s.state /\ a.connected = s.connected /\ a.connecting = s.connecting
        /\ a.out = s.out /\ a.stopping = s.stopping /\ a.failed = s.failed /\ a.timers = s.timers
        /\ a.current = c /\ a.posts = s.posts
    BY <1>1 DEF Sound, EepState
  <2> HIDE DEF a
  <2>4. LET t == Post(a, "send", note) IN Sound(t) /\ Still(a, t) /\ t.posts = Append(a.posts, Job("send", note))
    BY <2>2, <2>3, PostStill
  <2>5. note = Own(Pop(s))
    BY <1>2, <2>1, <2>3, <2>4 DEF Own, note, Still, Alike
  <2> QED
    BY <1>2, <2>1, <2>2, <2>3, <2>4, <2>5 DEF Still, Alike
<1>3. CASE c \notin Unsolicited
  <2>1. c \in Requests
    BY <1>1, <1>3 DEF Cmds
  <2>2. Pop(s) = Post(b, "send", rsp)
    <3>1. Pop(s) = Prepared([a EXCEPT !.requested = c], c)
      BY <1>3 DEF Pop
    <3>2. Prepared([a EXCEPT !.requested = c], c)
            = Post([[a EXCEPT !.requested = c] EXCEPT !.expected = [a EXCEPT !.requested = c].seq, !.seq = (@ + 1) % Sequences],
                   "send", Message("rsp", c, [a EXCEPT !.requested = c].seq))
      BY <1>3 DEF Prepared
    <3>3. [a EXCEPT !.requested = c].seq = s.seq
      BY DEF Sound, EepState
    <3>4. [[a EXCEPT !.requested = c] EXCEPT !.expected = s.seq, !.seq = (@ + 1) % Sequences] = b
      BY DEF Sound, EepState
    <3> QED
      BY <3>1, <3>2, <3>3, <3>4
  <2>3. Job("send", rsp) \in Tasks
    BY <1>1, <2>1 DEF Job, Message, Tasks, Outs, Asked
  <2>4. k \in Nums /\ s.seq = (k - 1) % Sequences
    BY <1>1 DEF Nums, Sequences
  <2> HIDE DEF c, r, k, rsp
  <2>5. /\ Sound(b) /\ b.state = s.state /\ b.connected = s.connected /\ b.connecting = s.connecting
        /\ b.out = s.out /\ b.stopping = s.stopping /\ b.failed = s.failed /\ b.timers = s.timers
        /\ b.current = c /\ b.requested = c /\ b.expected = s.seq /\ b.posts = s.posts
    BY <1>1, <2>1, <2>4 DEF Sound, EepState
  <2> HIDE DEF b
  <2>6. LET t == Post(b, "send", rsp) IN Sound(t) /\ Still(b, t) /\ t.posts = Append(b.posts, Job("send", rsp))
    BY <2>3, <2>5, PostStill
  <2>7. rsp = Own(Pop(s))
    BY <1>3, <2>2, <2>5, <2>6 DEF Own, rsp, Still, Alike
  <2> QED
    BY <2>2, <2>3, <2>5, <2>6, <2>7 DEF Still, Alike
<1> QED
  BY <1>2, <1>3

\* What the thread does beside the exchange under way.
LEMMA ChoreQuiet ==
  ASSUME NEW s, Sound(s), s.connected, s.state \in {"connected", "writing", "waiting"},
         NEW h \in Chores, h = Want => s.state # "connected"
  PROVE  LET t == Task(s, h.t, h.x)
         IN /\ Quiet(s, t, IF s.state = "connected" THEN Chores ELSE Later)
            /\ t.queue = << >> => s.queue = << >> /\ Quiet(s, t, Later)
<1>1. {Want} \subseteq Chores /\ Later \subseteq Chores
  BY LaterTasks
<1>2. Quiet(s, s, Later) /\ Quiet(s, s, Chores)
  BY NothingQuiet
<1>3. ASSUME NEW c \in Cmds, h = Job("enqueue", c)
      PROVE  LET t == Task(s, h.t, h.x)
             IN Quiet(s, t, IF s.state = "connected" THEN Chores ELSE Later) /\ t.queue # << >>
  <2>1. Task(s, h.t, h.x) = Enqueue(s, c)
    BY <1>3 DEF Task, Job
  <2>2. Quiet(s, Enqueue(s, c), {Want}) /\ Enqueue(s, c).queue # << >>
        /\ (s.state # "connected" => Enqueue(s, c).posts = s.posts)
    BY EnqueueQuiet
  <2>3. Quiet(s, Enqueue(s, c), Chores)
    BY <1>1, <2>2, QuietMore
  <2>4. s.state # "connected" => Quiet(s, Enqueue(s, c), Later)
    BY <1>2, <2>2 DEF Quiet
  <2> QED
    BY <2>1, <2>2, <2>3, <2>4
<1>4. ASSUME NEW c \in {"watchdog", "health"}, h = Job("timer", c)
      PROVE  LET t == Task(s, h.t, h.x) IN Quiet(s, t, Later) /\ t.queue = s.queue
  <2>1. Task(s, h.t, h.x) = Periodic(s, c)
    BY <1>4 DEF Task, Job, Expired
  <2> QED
    BY <2>1, PeriodicQuiet
<1> DEFINE w == CheckCommandQueue(s)
<1>5. /\ Quiet(s, w, {Want}) /\ w.queue = s.queue /\ ((s.state # "connected" \/ s.queue = << >>) => w = s)
  BY CheckQuiet
<1>6. Quiet(s, w, Chores) /\ ((s.state # "connected" \/ s.queue = << >>) => Quiet(s, w, Later))
  BY <1>1, <1>2, <1>5, QuietMore
<1>7. ASSUME h = Job("check", "queue")
      PROVE  LET t == Task(s, h.t, h.x)
             IN /\ Quiet(s, t, IF s.state = "connected" THEN Chores ELSE Later)
                /\ t.queue = << >> => s.queue = << >> /\ Quiet(s, t, Later)
  <2>1. Task(s, h.t, h.x) = w
    BY <1>7 DEF Task, Job
  <2> QED
    BY <1>5, <1>6, <2>1
<1>8. ASSUME h = Job("event", "check_command")
      PROVE  LET t == Task(s, h.t, h.x)
             IN /\ Quiet(s, t, IF s.state = "connected" THEN Chores ELSE Later)
                /\ t.queue = << >> => s.queue = << >> /\ Quiet(s, t, Later)
  <2>1. CASE s.state = "connected"
    <3>1. Task(s, h.t, h.x) = To(w, "connected")
      BY <1>8, <2>1 DEF Task, Job, Transition, Connected
    <3> HIDE DEF w
    <3>2. Sound(w) /\ w.state = "connected"
      BY <1>5, <2>1 DEF Quiet
    <3>3. "connected" \in States /\ Job("check", "queue") \in Later /\ Job("check", "queue") \in Chores
          /\ Job("check", "queue") \in Tasks
      BY LaterTasks DEF States
    <3> DEFINE t == To(w, "connected")
    <3>4. /\ Sound(t) /\ Alike(w, t) /\ t.state = "connected" /\ t.queue = w.queue /\ t.timers = w.timers
          /\ t.posts = Append(w.posts, Job("check", "queue"))
      BY <3>2, ToConnected
    <3> HIDE DEF t
    <3>5. \A D : Job("check", "queue") \in D => Grows(w.posts, t.posts, D)
      BY <3>2, <3>3, <3>4, Growing, PostsAreSeq
    <3>6. Quiet(w, t, Later) /\ Quiet(w, t, Chores)
      BY <3>2, <3>3, <3>4, <3>5 DEF Quiet, Watch
    <3>7. Quiet(s, t, Chores) /\ (s.queue = << >> => Quiet(s, t, Later))
      BY <1>6, <3>6, QuietTwice
    <3> QED
      BY <1>5, <2>1, <3>1, <3>4, <3>7 DEF t
  <2>2. CASE s.state # "connected"
    <3>1. Task(s, h.t, h.x) = s
      BY <1>8, <2>2 DEF Task, Job, Transition, Writing, Waiting
    <3> QED
      BY <1>2, <2>2, <3>1
  <2> QED
    BY <2>1, <2>2
<1>9. ASSUME h = Want
      PROVE  LET t == Task(s, h.t, h.x)
             IN /\ Quiet(s, t, IF s.state = "connected" THEN Chores ELSE Later)
                /\ t.queue = << >> => s.queue = << >> /\ Quiet(s, t, Later)
  <2>1. Task(s, h.t, h.x) = s
    BY <1>9 DEF Want, Task, Job, Transition, Writing, Waiting
  <2> QED
    BY <1>2, <2>1
<1>10. \/ \E c \in Cmds : h = Job("enqueue", c)
       \/ \E c \in {"watchdog", "health"} : h = Job("timer", c)
       \/ h = Job("check", "queue") \/ h = Job("event", "check_command") \/ h = Want
  BY DEF Chores, Later, Cmds
<1>11. ASSUME NEW c \in {"watchdog", "health"}, h = Job("timer", c)
       PROVE  LET t == Task(s, h.t, h.x)
              IN /\ Quiet(s, t, IF s.state = "connected" THEN Chores ELSE Later)
                 /\ t.queue = << >> => s.queue = << >> /\ Quiet(s, t, Later)
  <2>1. LET t == Task(s, h.t, h.x) IN Quiet(s, t, Later) /\ t.queue = s.queue
    BY <1>4, <1>11
  <2> QED
    BY <1>1, <2>1, QuietMore
<1> QED
  BY <1>3, <1>7, <1>8, <1>9, <1>10, <1>11

------------------------------------------------------------------------------
\* What leaves the exchange as it is.
LEMMA QuietHolds ==
  ASSUME NEW s, NEW t, NEW D, Quiet(s, t, D), NEW st, NEW ts, NEW out, Holds(s, st, ts, out)
  PROVE  Holds(t, st, ts, out)
BY DEF Quiet, Alike, Holds

LEMMA QuietOwn ==
  ASSUME NEW s, NEW t, NEW u, NEW D, Quiet(s, t, D)
  PROVE  Own(t) = Own(s) /\ Replies(t) = Replies(s) /\ Note(t) = Note(s) /\ (Replied(s, u) => Replied(t, u))
<1>1. t.current = s.current /\ t.requested = s.requested /\ t.expected = s.expected
  BY DEF Quiet, Alike
<1>2. Own(t) = Own(s) /\ Replies(t) = Replies(s) /\ Note(t) = Note(s)
  BY <1>1 DEF Own, Replies, Note
<1> QED
  BY <1>1, <1>2 DEF Replied

LEMMA QuietSending ==
  ASSUME NEW s, Sound(s), NEW t, NEW u, Quiet(s, t, Later), Sending(s, u)
  PROVE  Sending(t, u)
<1>1. t.current = t.requested \/ t.current \in Unsolicited
  BY DEF Sending, Quiet, Alike
<1>2. Own(t) = Own(s) /\ Replies(t) = Replies(s) /\ (Replied(s, u) => Replied(t, u))
  BY QuietOwn
<1>3. s.posts \in Seq(Tasks) /\ t.posts \in Seq(Tasks) /\ Grows(s.posts, t.posts, Later)
  BY PostsAreSeq DEF Quiet
<1>4. \A x, C : Carries(s.posts, x, C, Later) => Carries(t.posts, x, C, Later)
  BY <1>3, GrowsCarries
<1>5. All(s.posts, Later) => All(t.posts, Later)
  BY <1>3, GrowsAll
<1>6. \A st, ts, out : Holds(s, st, ts, out) => Holds(t, st, ts, out)
  BY QuietHolds
<1> QED
  BY <1>1, <1>2, <1>4, <1>5, <1>6 DEF Sending

LEMMA QuietWaits ==
  ASSUME NEW s, Sound(s), NEW t, NEW u, Quiet(s, t, Later), Waits(s, u)
  PROVE  Waits(t, u)
<1>1. t.requested = s.requested
  BY DEF Quiet, Alike
<1>2. Replies(t) = Replies(s) /\ Note(t) = Note(s)
  BY QuietOwn
<1>3. s.posts \in Seq(Tasks) /\ t.posts \in Seq(Tasks) /\ Grows(s.posts, t.posts, Later)
  BY PostsAreSeq DEF Quiet
<1>4. \A x, C : Carries(s.posts, x, C, Later) => Carries(t.posts, x, C, Later)
  BY <1>3, GrowsCarries
<1>5. All(s.posts, Later) => All(t.posts, Later)
  BY <1>3, GrowsAll
<1>6. \A st, ts, out : Holds(s, st, ts, out) => Holds(t, st, ts, out)
  BY QuietHolds
<1> QED
  BY <1>1, <1>2, <1>4, <1>5, <1>6 DEF Waits

LEMMA QuietBetween ==
  ASSUME NEW s, Sound(s), NEW t, NEW u, Quiet(s, t, Chores), t.queue = << >> => s.queue = << >> /\ Quiet(s, t, Later),
         Between(s, u)
  PROVE  Between(t, u)
<1>1. s.posts \in Seq(Tasks) /\ t.posts \in Seq(Tasks)
  BY PostsAreSeq DEF Quiet
<1>2. All(t.posts, Chores)
  BY <1>1, GrowsAll DEF Quiet, Between
<1>3. t.queue = << >> => All(t.posts, Later)
  BY <1>1, GrowsAll DEF Quiet, Between
<1> QED
  BY <1>2, <1>3, QuietHolds DEF Between

\* The task in front is taken.
LEMMA TailStill ==
  ASSUME NEW e, Sound(e), e.posts # << >>
  PROVE  LET s == [e EXCEPT !.posts = Tail(@)] IN Sound(s) /\ Still(e, s) /\ s.posts = Tail(e.posts)
<1>1. e.posts \in Seq(Tasks)
  BY PostsAreSeq
<1> DEFINE q == Tail(e.posts)
           s == [e EXCEPT !.posts = q]
<1>2. q \in Seq(Tasks)
  BY <1>1, TailParts
<1> HIDE DEF q
<1>3. Sound(s) /\ Still(e, s) /\ s.posts = q
  BY <1>2 DEF Sound, EepState, Still, Alike
<1> QED
  BY <1>3 DEF q

LEMMA StillOwn ==
  ASSUME NEW e, NEW s, NEW u, Still(e, s)
  PROVE  /\ Own(s) = Own(e) /\ Replies(s) = Replies(e) /\ Note(s) = Note(e) /\ (Replied(e, u) => Replied(s, u))
         /\ \A st, ts, out : Holds(e, st, ts, out) => Holds(s, st, ts, out)
<1>1. s.current = e.current /\ s.requested = e.requested /\ s.expected = e.expected
  BY DEF Still, Alike
<1>2. Own(s) = Own(e) /\ Replies(s) = Replies(e) /\ Note(s) = Note(e)
  BY <1>1 DEF Own, Replies, Note
<1>3. Replied(e, u) => Replied(s, u)
  BY <1>1, <1>2 DEF Replied
<1>4. \A st, ts, out : Holds(e, st, ts, out) => Holds(s, st, ts, out)
  BY DEF Holds, Still, Alike, Watch
<1> QED
  BY <1>2, <1>3, <1>4

\* Nothing is reported as failed, and the client is not stopped.
Unhurt(s, t) == t.failed = s.failed /\ t.stopping = s.stopping

LEMMA QuietUnhurt == ASSUME NEW s, NEW t, NEW D, Quiet(s, t, D) PROVE Unhurt(s, t)
BY DEF Quiet, Alike, Unhurt

------------------------------------------------------------------------------
\* The tasks that the exchange waits for.

\* startSend: the frame is given to the socket.
LEMMA SendStarts ==
  ASSUME NEW s, Sound(s), NEW u, s.current = s.requested \/ s.current \in Unsolicited,
         Holds(s, "writing", {"send"}, << >>), Silent(u), All(s.posts, Later), Job("send", Own(s)) \in Tasks
  PROVE  LET t == Task(s, "send", Own(s)) IN Sending(t, u) /\ Unhurt(s, t)
<1> DEFINE t == [s EXCEPT !.out = Append(@, Own(s))]
<1>1. Task(s, "send", Own(s)) = t
  BY DEF Task, SocketSend, Holds
<1>2. Append(s.out, Own(s)) = <<Own(s)>>
  BY DEF Holds
<1> DEFINE w == [s EXCEPT !.out = <<Own(s)>>]
<1>3. t = w
  BY <1>2
<1> DEFINE m == Own(s)
<1>4. m = Own(s)
  OBVIOUS
<1> HIDE DEF m
<1>5. /\ w.state = s.state /\ w.connected = s.connected /\ w.timers = s.timers /\ w.out = <<m>> /\ w.posts = s.posts
      /\ w.current = s.current /\ w.requested = s.requested /\ w.expected = s.expected
      /\ w.failed = s.failed /\ w.stopping = s.stopping
  BY <1>4 DEF Sound, EepState
<1> HIDE DEF t, w
<1>6. Own(w) = m
  BY <1>4, <1>5 DEF Own
<1>7. Holds(w, "writing", {"send"}, <<Own(w)>>)
  BY <1>5, <1>6 DEF Holds, Watch
<1>8. Sending(w, u)
  BY <1>5, <1>7 DEF Sending
<1> QED
  BY <1>1, <1>3, <1>5, <1>8 DEF Unhurt

\* The end of the write is told: its timer stops.
LEMMA SentStops ==
  ASSUME NEW s, Sound(s), NEW u, s.current = s.requested \/ s.current \in Unsolicited,
         Holds(s, "writing", {"send"}, << >>), Replied(s, u), All(s.posts, Later)
  PROVE  LET t == Task(s, "sent", TRUE) IN Sending(t, u) /\ Unhurt(s, t)
<1> DEFINE w == Cancel(s, {"send"})
           t == Event(w, "write_completed")
           x == Job("event", "write_completed")
<1>1. Task(s, "sent", TRUE) = t
  BY DEF Task
<1>2. "send" \in Timers /\ "write_completed" \in EventNames /\ x \in Tasks
  BY DEF Timers, EventNames, Tasks, Job
<1>3. /\ Sound(w) /\ Alike(s, w) /\ w.posts = s.posts /\ w.state = s.state /\ w.timers = s.timers \ {"send"}
  BY <1>2, TimersStill
<1> HIDE DEF w
<1>4. Sound(t) /\ Still(w, t) /\ t.posts = Append(w.posts, x)
  BY <1>2, <1>3, EventStill
<1> HIDE DEF t
<1>5. Carries(t.posts, x, Later, Later)
  BY <1>2, <1>3, <1>4, PostsAreSeq, TokenComes
<1>6. Holds(t, "writing", {}, << >>)
  BY <1>3, <1>4 DEF Holds, Still, Alike, Watch
<1>7. t.current = s.current /\ t.requested = s.requested /\ t.expected = s.expected /\ Unhurt(s, t)
  BY <1>3, <1>4 DEF Still, Alike, Unhurt
<1>8. Replied(t, u)
  BY <1>7 DEF Replied, Replies
<1> QED
  BY <1>1, <1>5, <1>6, <1>7, <1>8 DEF Sending, x

\* The client waits for the answer, or for nothing behind an acknowledgement of its own.
LEMMA WriteCompletes ==
  ASSUME NEW s, Sound(s), NEW u, s.current = s.requested \/ s.current \in Unsolicited,
         Holds(s, "writing", {}, << >>), Replied(s, u), All(s.posts, Later)
  PROVE  LET t == Task(s, "event", "write_completed") IN Waits(t, u) /\ Unhurt(s, t)
<1>1. "waiting" \in States /\ "ack" \in Timers /\ "unsolicited_done" \in EventNames
  BY DEF States, Timers, EventNames
<1>2. CASE s.current \in Unsolicited
  <2> DEFINE w == Event(s, "unsolicited_done")
             t == To(w, "waiting")
             x == Job("event", "unsolicited_done")
  <2>1. Task(s, "event", "write_completed") = t
    BY <1>2 DEF Task, Transition, Writing, Holds
  <2>2. Sound(w) /\ Still(s, w) /\ w.posts = Append(s.posts, x)
    BY <1>1, EventStill
  <2> HIDE DEF w
  <2>3. Alike(w, t) /\ t.state = "waiting" /\ t.timers = w.timers /\ t.posts = w.posts
    BY <1>1, <2>2, ToStill
  <2> HIDE DEF t
  <2>4. x \in Tasks /\ x \in Done
    BY DEF EventNames, Tasks, Job, Done
  <2>5. Carries(t.posts, x, Later, Later)
    BY <2>2, <2>3, <2>4, PostsAreSeq, TokenComes
  <2>6. Holds(t, "waiting", {}, << >>)
    BY <2>2, <2>3 DEF Holds, Still, Alike, Watch
  <2>7. Silent(u) /\ Unhurt(s, t)
    BY <1>2, <2>2, <2>3 DEF Replied, Still, Alike, Unhurt
  <2> QED
    BY <2>1, <2>4, <2>5, <2>6, <2>7 DEF Waits
<1>3. CASE s.current \notin Unsolicited
  <2> DEFINE w == Start(s, "ack")
             t == To(w, "waiting")
  <2>1. Task(s, "event", "write_completed") = t
    BY <1>3 DEF Task, Transition, Writing, Holds
  <2>2. Sound(w) /\ Alike(s, w) /\ w.posts = s.posts /\ w.timers = s.timers \cup {"ack"}
    BY <1>1, TimersStill
  <2> HIDE DEF w
  <2>3. Alike(w, t) /\ t.state = "waiting" /\ t.timers = w.timers /\ t.posts = w.posts
    BY <1>1, <2>2, ToStill
  <2> HIDE DEF t
  <2>4. Holds(t, "waiting", {"ack"}, << >>)
    BY <2>2, <2>3 DEF Holds, Alike, Watch
  <2>5. Replies(t) = Replies(s) /\ Unhurt(s, t)
    BY <2>2, <2>3 DEF Alike, Replies, Unhurt
  <2>6. \E m \in Replies(t) : Carried(u, <<m>>, Owed(m))
    BY <1>3, <2>5 DEF Replied
  <2> QED
    BY <2>1, <2>2, <2>3, <2>4, <2>5, <2>6 DEF Waits
<1> QED
  BY <1>2, <1>3

\* The exchange is over.
LEMMA DoneConnects ==
  ASSUME NEW s, Sound(s), NEW u, Holds(s, "waiting", {}, << >>), Silent(u), All(s.posts, Later),
         NEW ev \in {"unsolicited_done", "ack_as_rsp", "rsp_received"}
  PROVE  LET t == Task(s, "event", ev) IN Between(t, u) /\ Unhurt(s, t)
<1> DEFINE t == To(s, "connected")
           x == Job("check", "queue")
<1>1. Task(s, "event", ev) = t
  BY DEF Task, Transition, Waiting, Holds
<1>2. Sound(t) /\ Alike(s, t) /\ t.state = "connected" /\ t.timers = s.timers /\ t.posts = Append(s.posts, x)
  BY ToConnected
<1> HIDE DEF t
<1>3. x \in Later /\ Later \subseteq Chores /\ x \in Tasks
  BY LaterTasks
<1>4. Grows(s.posts, t.posts, Later)
  BY <1>2, <1>3, Growing, PostsAreSeq
<1>5. All(t.posts, Later) /\ All(t.posts, Chores)
  <2>1. All(t.posts, Later)
    BY <1>2, <1>4, PostsAreSeq, GrowsAll
  <2> QED
    BY <1>3, <2>1 DEF All
<1>6. Holds(t, "connected", {}, << >>)
  BY <1>2 DEF Holds, Alike, Watch
<1> QED
  BY <1>1, <1>2, <1>5, <1>6 DEF Between, Unhurt, Alike

\* The answer, with the number that is expected.
LEMMA AnswerTaken ==
  ASSUME EepAssumption, NEW s, Sound(s), NEW u, Holds(s, "waiting", {"ack"}, << >>), All(s.posts, Later),
         NEW m \in Replies(s), Carried(u, << >>, Owed(m)), m \in Heard
  PROVE  LET t == Task(s, "received", m) IN Waits(t, u) /\ Unhurt(s, t)
<1> DEFINE over == Over(m)
           w == [Cancel(s, {"ack"}) EXCEPT !.expected = NoSeq, !.odd = @ \/ m.seq # (s.seq - 1) % Sequences]
           r == Reported(w, m)
           t == Event(r, over)
           x == Job("event", over)
<1>1. /\ m.c = s.requested /\ m.seq = s.expected /\ m.m \in {"ack", "nak", "rsp"}
      /\ m.m = "ack" => s.requested \in Notified
  BY DEF Replies, Message
<1>2. Task(s, "received", m) = t
  BY <1>1 DEF Task, HandleReceivedData, Answered
<1>3. over \in EventNames /\ over = (IF m.m = "ack" THEN "ack_received" ELSE "ack_as_rsp")
  BY <1>1 DEF Over, EventNames
<1>4. m.seq \in Nums /\ m.seq # NoSeq /\ m.seq = (s.seq - 1) % Sequences
  <2>1. m.seq \in Nums
    BY <1>1 DEF Heard, Wires, Answers
  <2>2. m.seq # NoSeq
    BY <2>1 DEF Nums, NoSeq, Sequences
  <2> QED
    BY <1>1, <2>1, <2>2 DEF Sound
<1> DEFINE c == Cancel(s, {"ack"})
           v == [c EXCEPT !.expected = NoSeq, !.odd = FALSE]
<1>5. Sound(c) /\ Alike(s, c) /\ c.posts = s.posts /\ c.state = s.state /\ c.timers = s.timers \ {"ack"}
  BY TimersStill DEF Timers
<1>6. w = v
  <2>1. c.odd = FALSE
    BY <1>5 DEF Sound, EepState
  <2> QED
    BY <1>4, <2>1
<1> HIDE DEF c, w
<1>7. /\ Sound(v) /\ v.posts = s.posts /\ v.state = s.state /\ v.timers = s.timers \ {"ack"} /\ v.out = s.out
      /\ v.requested = s.requested /\ v.connected = s.connected /\ Unhurt(s, v)
  BY <1>5 DEF Sound, EepState, Alike, Unhurt
<1> HIDE DEF v
<1>8. /\ Sound(r) /\ r.posts = s.posts /\ r.state = s.state /\ r.timers = s.timers \ {"ack"} /\ r.out = s.out
      /\ r.requested = s.requested /\ r.connected = s.connected /\ Unhurt(s, r)
  <2>1. r = Reported(v, m)
    BY <1>6
  <2>2. Sound(Reported(v, m))
    BY <1>7, ReportedKeeps
  <2>3. LET y == Reported(v, m)
        IN /\ y.posts = v.posts /\ y.state = v.state /\ y.timers = v.timers /\ y.out = v.out
           /\ y.requested = v.requested /\ y.connected = v.connected /\ Unhurt(v, y)
    BY <1>7 DEF Reported, Unhurt, Sound, EepState
  <2> QED
    BY <1>7, <2>1, <2>2, <2>3 DEF Unhurt
<1> HIDE DEF r, over
<1>9. Sound(t) /\ Still(r, t) /\ t.posts = Append(r.posts, x)
  BY <1>3, <1>8, EventStill
<1> HIDE DEF t
<1>10. x \in Tasks
  BY <1>3 DEF Tasks, Job
<1>11. Carries(t.posts, x, Later, Later)
  BY <1>8, <1>9, <1>10, PostsAreSeq, TokenComes
<1>12. Holds(t, "waiting", {}, << >>) /\ t.requested = s.requested /\ Unhurt(s, t)
  BY <1>8, <1>9 DEF Holds, Watch, Still, Alike, Unhurt
<1>13. CASE m.m = "ack"
  <2>1. Carried(u, << >>, <<t.requested>>)
    BY <1>1, <1>12, <1>13 DEF Owed
  <2>2. x = Job("event", "ack_received")
    BY <1>3, <1>13
  <2> QED
    BY <1>2, <1>11, <1>12, <2>1, <2>2 DEF Waits
<1>14. CASE m.m # "ack"
  <2>1. Silent(u)
    BY <1>14 DEF Owed, Silent
  <2>2. x \in Done
    BY <1>3, <1>14 DEF Done
  <2> QED
    BY <1>2, <1>11, <1>12, <2>1, <2>2 DEF Waits
<1> QED
  BY <1>13, <1>14

\* The notification is waited for.
LEMMA AckReceived ==
  ASSUME NEW s, Sound(s), NEW u, Holds(s, "waiting", {}, << >>), Carried(u, << >>, <<s.requested>>), All(s.posts, Later)
  PROVE  LET t == Task(s, "event", "ack_received") IN Waits(t, u) /\ Unhurt(s, t)
<1> DEFINE t == Start(s, "response")
<1>1. Task(s, "event", "ack_received") = t
  BY DEF Task, Transition, Waiting, Holds
<1>2. Alike(s, t) /\ t.posts = s.posts /\ t.state = s.state /\ t.timers = s.timers \cup {"response"}
  BY TimersStill DEF Timers
<1> HIDE DEF t
<1>3. Holds(t, "waiting", {"response"}, << >>) /\ t.requested = s.requested /\ Unhurt(s, t)
  BY <1>2 DEF Holds, Watch, Alike, Unhurt
<1> QED
  BY <1>1, <1>2, <1>3 DEF Waits

\* The notification ends the exchange, and is acknowledged.
LEMMA NoteTaken ==
  ASSUME EepAssumption, NEW s, Sound(s), NEW u, Holds(s, "waiting", {"response"}, << >>), Silent(u), All(s.posts, Later)
  PROVE  LET t == Task(s, "received", Note(s)) IN Waits(t, u) /\ Unhurt(s, t)
<1> DEFINE a == [s EXCEPT !.open = @ \ {s.requested}]
           b == Cancel(a, {"response"})
           c == Event(b, "rsp_received")
           t == Post(c, "enqueue", "ack")
           x == Job("event", "rsp_received")
           y == Job("enqueue", "ack")
<1>1. Task(s, "received", Note(s)) = t
  BY DEF Task, HandleReceivedData, Notification, NotificationReported, Note, Message
<1>2. Sound(a) /\ Still(s, a) /\ a.posts = s.posts
  BY DEF Sound, EepState, Still, Alike
<1> HIDE DEF a
<1>3. Sound(b) /\ Alike(a, b) /\ b.posts = a.posts /\ b.state = a.state /\ b.timers = a.timers \ {"response"}
  BY <1>2, TimersStill DEF Timers
<1> HIDE DEF b
<1>4. Sound(c) /\ Still(b, c) /\ c.posts = Append(b.posts, x)
  BY <1>3, EventStill DEF EventNames
<1> HIDE DEF c
<1>5. x \in Tasks /\ x \in Done /\ y \in Tasks /\ y \in Later
  BY LaterTasks DEF Tasks, Job, EventNames, Done, Cmds, Unsolicited
<1>6. Carries(c.posts, x, Later, Later)
  BY <1>2, <1>3, <1>4, <1>5, PostsAreSeq, TokenComes
<1>7. Quiet(c, t, Later)
  BY <1>4, <1>5, PostQuiet
<1> HIDE DEF t
<1>8. Holds(c, "waiting", {}, << >>) /\ Unhurt(s, c)
  BY <1>2, <1>3, <1>4 DEF Holds, Watch, Still, Alike, Unhurt
<1>9. Waits(c, u)
  BY <1>5, <1>6, <1>8 DEF Waits
<1>10. Waits(t, u)
  BY <1>4, <1>7, <1>9, QuietWaits
<1> QED
  BY <1>1, <1>7, <1>8, <1>10, QuietUnhurt DEF Unhurt

------------------------------------------------------------------------------
\* The thread's next task.
Turn(e) == [e EXCEPT !.posts = Tail(@)]
Ran(e) == Task(Turn(e), Head(e.posts).t, Head(e.posts).x)

LEMMA TurnStill ==
  ASSUME NEW e, Sound(e), e.posts # << >>
  PROVE  /\ Sound(Turn(e)) /\ Still(e, Turn(e)) /\ Turn(e).posts = Tail(e.posts) /\ Head(e.posts) \in Tasks
         /\ Unhurt(e, Turn(e))
<1>1. Sound(Turn(e)) /\ Still(e, Turn(e)) /\ Turn(e).posts = Tail(e.posts)
  BY TailStill DEF Turn
<1>2. Head(e.posts) \in Tasks
  BY PostsAreSeq, TailParts
<1> QED
  BY <1>1, <1>2 DEF Still, Alike, Unhurt

LEMMA ChoresOpen == \A h \in Chores : h.t # "close"
BY DEF Chores, Later, Want, Job

LEMMA RunSending ==
  ASSUME NEW e, Sound(e), NEW u, e.posts # << >>, Sending(e, u)
  PROVE  (Sending(Ran(e), u) \/ Waits(Ran(e), u)) /\ Unhurt(e, Ran(e)) /\ Head(e.posts).t # "close"
<1> DEFINE s == Turn(e)
           h == Head(e.posts)
<1>1. Sound(s) /\ Still(e, s) /\ s.posts = Tail(e.posts) /\ h \in Tasks /\ Unhurt(e, s)
  BY TurnStill
<1>2. e.posts \in Seq(Tasks)
  BY PostsAreSeq
<1>3. Own(s) = Own(e) /\ (Replied(e, u) => Replied(s, u))
      /\ \A st, ts, out : Holds(e, st, ts, out) => Holds(s, st, ts, out)
  BY <1>1, StillOwn
<1>4. s.current = s.requested \/ s.current \in Unsolicited
  BY <1>1 DEF Sending, Still, Alike
<1>5. Ran(e) = Task(s, h.t, h.x)
  BY DEF Ran
<1> HIDE DEF s, h
<1>6. ASSUME Sending(s, u), h \in Chores, s.state = "writing", s.connected
      PROVE  Sending(Ran(e), u) /\ Unhurt(e, Ran(e)) /\ h.t # "close"
  <2>1. Quiet(s, Task(s, h.t, h.x), Later)
    BY <1>1, <1>6, ChoreQuiet
  <2> QED
    BY <1>1, <1>5, <1>6, <2>1, QuietSending, QuietUnhurt, ChoresOpen DEF Unhurt
<1>7. CASE Holds(e, "writing", {"send"}, << >>) /\ Silent(u) /\ Carries(e.posts, Job("send", Own(e)), Chores, Later)
  <2>1. Holds(s, "writing", {"send"}, << >>) /\ Silent(u)
    BY <1>3, <1>7
  <2>2. CASE h = Job("send", Own(s)) /\ All(s.posts, Later)
    <3>1. LET t == Task(s, "send", Own(s)) IN Sending(t, u) /\ Unhurt(s, t)
      BY <1>1, <1>4, <2>1, <2>2, SendStarts
    <3>2. h.t = "send" /\ h.x = Own(s)
      BY <2>2 DEF Job
    <3> QED
      BY <1>1, <1>5, <3>1, <3>2 DEF Unhurt, h
  <2>3. CASE h \in Chores /\ Carries(s.posts, Job("send", Own(s)), Chores, Later)
    <3>1. Sending(s, u)
      BY <1>4, <2>1, <2>3 DEF Sending
    <3> QED
      BY <1>6, <2>1, <2>3, <3>1 DEF Holds, h
  <2> QED
    BY <1>1, <1>2, <1>3, <1>7, <2>2, <2>3, HeadOfCarries DEF h
<1>8. CASE Holds(e, "writing", {"send"}, <<Own(e)>>) /\ Silent(u) /\ All(e.posts, Later)
  <2>1. h \in Later /\ All(s.posts, Later)
    BY <1>1, <1>2, <1>8, HeadOfAll DEF h
  <2>2. Sending(s, u) /\ s.state = "writing" /\ s.connected
    BY <1>3, <1>4, <1>8, <2>1 DEF Sending, Holds
  <2> QED
    BY <1>6, <2>1, <2>2, LaterTasks DEF h
<1>9. CASE Holds(e, "writing", {"send"}, << >>) /\ Replied(e, u) /\ Carries(e.posts, Job("sent", TRUE), Later, Later)
  <2>1. Holds(s, "writing", {"send"}, << >>) /\ Replied(s, u)
    BY <1>3, <1>9
  <2>2. CASE h = Job("sent", TRUE) /\ All(s.posts, Later)
    <3>1. LET t == Task(s, "sent", TRUE) IN Sending(t, u) /\ Unhurt(s, t)
      BY <1>1, <1>4, <2>1, <2>2, SentStops
    <3>2. h.t = "sent" /\ h.x = TRUE
      BY <2>2 DEF Job
    <3> QED
      BY <1>1, <1>5, <3>1, <3>2 DEF Unhurt, h
  <2>3. CASE h \in Later /\ Carries(s.posts, Job("sent", TRUE), Later, Later)
    <3>1. Sending(s, u)
      BY <1>4, <2>1, <2>3 DEF Sending
    <3> QED
      BY <1>6, <2>1, <2>3, <3>1, LaterTasks DEF Holds, h
  <2> QED
    BY <1>1, <1>2, <1>9, <2>2, <2>3, HeadOfCarries DEF h
<1>10. CASE Holds(e, "writing", {}, << >>) /\ Replied(e, u) /\ Carries(e.posts, Job("event", "write_completed"), Later, Later)
  <2>1. Holds(s, "writing", {}, << >>) /\ Replied(s, u)
    BY <1>3, <1>10
  <2>2. CASE h = Job("event", "write_completed") /\ All(s.posts, Later)
    <3>1. LET t == Task(s, "event", "write_completed") IN Waits(t, u) /\ Unhurt(s, t)
      BY <1>1, <1>4, <2>1, <2>2, WriteCompletes
    <3>2. h.t = "event" /\ h.x = "write_completed"
      BY <2>2 DEF Job
    <3> QED
      BY <1>1, <1>5, <3>1, <3>2 DEF Unhurt, h
  <2>3. CASE h \in Later /\ Carries(s.posts, Job("event", "write_completed"), Later, Later)
    <3>1. Sending(s, u)
      BY <1>4, <2>1, <2>3 DEF Sending
    <3> QED
      BY <1>6, <2>1, <2>3, <3>1, LaterTasks DEF Holds, h
  <2> QED
    BY <1>1, <1>2, <1>10, <2>2, <2>3, HeadOfCarries DEF h
<1> QED
  BY <1>7, <1>8, <1>9, <1>10 DEF Sending

LEMMA RunWaits ==
  ASSUME EepAssumption, NEW e, Sound(e), NEW u, e.posts # << >>, Waits(e, u)
  PROVE  (Waits(Ran(e), u) \/ Between(Ran(e), u)) /\ Unhurt(e, Ran(e)) /\ Head(e.posts).t # "close"
<1> DEFINE s == Turn(e)
           h == Head(e.posts)
<1>1. Sound(s) /\ Still(e, s) /\ s.posts = Tail(e.posts) /\ h \in Tasks /\ Unhurt(e, s)
  BY TurnStill
<1>2. e.posts \in Seq(Tasks)
  BY PostsAreSeq
<1>3. Replies(s) = Replies(e) /\ Note(s) = Note(e) /\ s.requested = e.requested
      /\ \A st, ts, out : Holds(e, st, ts, out) => Holds(s, st, ts, out)
  BY <1>1, StillOwn DEF Still, Alike
<1>4. Ran(e) = Task(s, h.t, h.x)
  BY DEF Ran
<1> HIDE DEF s, h
<1>5. ASSUME Waits(s, u), h \in Later, NEW ts, Holds(s, "waiting", ts, << >>)
      PROVE  Waits(Ran(e), u) /\ Unhurt(e, Ran(e)) /\ h.t # "close"
  <2>1. h \in Chores /\ s.state = "waiting" /\ s.connected
    BY <1>5, LaterTasks DEF Holds
  <2>2. Quiet(s, Task(s, h.t, h.x), Later)
    BY <1>1, <2>1, ChoreQuiet
  <2> QED
    BY <1>1, <1>4, <1>5, <2>1, <2>2, QuietWaits, QuietUnhurt, ChoresOpen DEF Unhurt
<1>6. \A x : Carries(e.posts, x, Later, Later) => (h = x /\ All(s.posts, Later)) \/ (h \in Later /\ Carries(s.posts, x, Later, Later))
  BY <1>1, <1>2, HeadOfCarries DEF h
<1>7. All(e.posts, Later) => h \in Later /\ All(s.posts, Later)
  BY <1>1, <1>2, HeadOfAll DEF h
<1>8. CASE Holds(e, "waiting", {}, << >>) /\ Silent(u) /\ \E x \in Done : Carries(e.posts, x, Later, Later)
  <2>1. Holds(s, "waiting", {}, << >>)
    BY <1>3, <1>8
  <2>2. PICK x \in Done : Carries(e.posts, x, Later, Later)
    BY <1>8
  <2>3. CASE h = x /\ All(s.posts, Later)
    <3>1. PICK ev \in {"unsolicited_done", "ack_as_rsp", "rsp_received"} : x = Job("event", ev)
      BY <2>2 DEF Done
    <3>2. LET t == Task(s, "event", ev) IN Between(t, u) /\ Unhurt(s, t)
      BY <1>1, <1>8, <2>1, <2>3, DoneConnects
    <3>3. h.t = "event" /\ h.x = ev
      BY <2>3, <3>1 DEF Job
    <3> QED
      BY <1>1, <1>4, <3>2, <3>3 DEF Unhurt, h
  <2>4. CASE h \in Later /\ Carries(s.posts, x, Later, Later)
    BY <1>5, <1>8, <2>1, <2>2, <2>4 DEF Waits, h
  <2> QED
    BY <1>6, <2>2, <2>3, <2>4
<1>9. CASE /\ Holds(e, "waiting", {"ack"}, << >>) /\ All(e.posts, Later)
           /\ \E m \in Replies(e) : Carried(u, <<m>>, Owed(m))
  <2>1. Waits(s, u)
    BY <1>3, <1>7, <1>9 DEF Waits
  <2> QED
    BY <1>3, <1>5, <1>7, <1>9, <2>1 DEF h
<1>10. CASE /\ Holds(e, "waiting", {"ack"}, << >>)
            /\ \E m \in Replies(e) : Carried(u, << >>, Owed(m)) /\ Carries(e.posts, Job("received", m), Later, Later)
  <2>1. Holds(s, "waiting", {"ack"}, << >>)
    BY <1>3, <1>10
  <2>2. PICK m \in Replies(s) : Carried(u, << >>, Owed(m)) /\ Carries(e.posts, Job("received", m), Later, Later)
    BY <1>3, <1>10
  <2>3. CASE h = Job("received", m) /\ All(s.posts, Later)
    <3>1. h.t = "received" /\ h.x = m
      BY <2>3 DEF Job
    <3>2. m \in Heard
      BY <1>1, <3>1 DEF Tasks
    <3>3. LET t == Task(s, "received", m) IN Waits(t, u) /\ Unhurt(s, t)
      BY <1>1, <2>1, <2>2, <2>3, <3>2, AnswerTaken
    <3> QED
      BY <1>1, <1>4, <3>1, <3>3 DEF Unhurt, h
  <2>4. CASE h \in Later /\ Carries(s.posts, Job("received", m), Later, Later)
    <3>1. Waits(s, u)
      BY <2>1, <2>2, <2>4 DEF Waits
    <3> QED
      BY <1>5, <2>1, <2>4, <3>1 DEF h
  <2> QED
    BY <1>6, <2>2, <2>3, <2>4
<1>11. CASE /\ Holds(e, "waiting", {}, << >>) /\ Carried(u, << >>, <<e.requested>>)
            /\ Carries(e.posts, Job("event", "ack_received"), Later, Later)
  <2>1. Holds(s, "waiting", {}, << >>) /\ Carried(u, << >>, <<s.requested>>)
    BY <1>3, <1>11
  <2>2. CASE h = Job("event", "ack_received") /\ All(s.posts, Later)
    <3>1. LET t == Task(s, "event", "ack_received") IN Waits(t, u) /\ Unhurt(s, t)
      BY <1>1, <2>1, <2>2, AckReceived
    <3>2. h.t = "event" /\ h.x = "ack_received"
      BY <2>2 DEF Job
    <3> QED
      BY <1>1, <1>4, <3>1, <3>2 DEF Unhurt, h
  <2>3. CASE h \in Later /\ Carries(s.posts, Job("event", "ack_received"), Later, Later)
    <3>1. Waits(s, u)
      BY <2>1, <2>3 DEF Waits
    <3> QED
      BY <1>5, <2>1, <2>3, <3>1 DEF h
  <2> QED
    BY <1>6, <1>11, <2>2, <2>3
<1>12. CASE Holds(e, "waiting", {"response"}, << >>) /\ Carried(u, << >>, <<e.requested>>) /\ All(e.posts, Later)
  <2>1. Waits(s, u)
    BY <1>3, <1>7, <1>12 DEF Waits
  <2> QED
    BY <1>3, <1>5, <1>7, <1>12, <2>1 DEF h
<1>13. CASE Holds(e, "waiting", {"response"}, << >>) /\ Carried(u, <<Note(e)>>, << >>) /\ All(e.posts, Later)
  <2>1. Waits(s, u)
    BY <1>3, <1>7, <1>13 DEF Waits
  <2> QED
    BY <1>3, <1>5, <1>7, <1>13, <2>1 DEF h
<1>14. CASE Holds(e, "waiting", {"response"}, << >>) /\ Silent(u) /\ Carries(e.posts, Job("received", Note(e)), Later, Later)
  <2>1. Holds(s, "waiting", {"response"}, << >>)
    BY <1>3, <1>14
  <2>2. CASE h = Job("received", Note(s)) /\ All(s.posts, Later)
    <3>1. LET t == Task(s, "received", Note(s)) IN Waits(t, u) /\ Unhurt(s, t)
      BY <1>1, <1>14, <2>1, <2>2, NoteTaken
    <3>2. h.t = "received" /\ h.x = Note(s)
      BY <2>2 DEF Job
    <3> QED
      BY <1>1, <1>4, <3>1, <3>2 DEF Unhurt, h
  <2>3. CASE h \in Later /\ Carries(s.posts, Job("received", Note(s)), Later, Later)
    <3>1. Waits(s, u)
      BY <1>14, <2>1, <2>3 DEF Waits
    <3> QED
      BY <1>5, <2>1, <2>3, <3>1 DEF h
  <2> QED
    BY <1>3, <1>6, <1>14, <2>2, <2>3
<1> QED
  BY <1>8, <1>9, <1>10, <1>11, <1>12, <1>13, <1>14 DEF Waits

LEMMA PopWrites ==
  ASSUME NEW s, Sound(s), NEW u, Holds(s, "connected", {}, << >>), Silent(u), All(s.posts, Chores), s.queue # << >>
  PROVE  LET t == Task(s, "event", "write_command") IN Sending(t, u) /\ Unhurt(s, t)
<1> DEFINE p == Pop(s)
           w == Start(p, "send")
           t == To(w, "writing")
           x == Job("send", Own(p))
<1>1. Task(s, "event", "write_command") = t
  BY DEF Task, Transition, Connected, Holds
<1>2. "writing" \in States /\ "send" \in Timers
  BY DEF States, Timers
<1>3. /\ Sound(p) /\ p.state = s.state /\ p.connected = s.connected /\ p.out = s.out /\ p.stopping = s.stopping
      /\ p.failed = s.failed /\ p.timers = s.timers /\ (p.current = p.requested \/ p.current \in Unsolicited)
      /\ x \in Tasks /\ p.posts = Append(s.posts, x)
  BY PopSends
<1> HIDE DEF p
<1>4. Sound(w) /\ Alike(p, w) /\ w.posts = p.posts /\ w.timers = p.timers \cup {"send"}
  BY <1>2, <1>3, TimersStill
<1> HIDE DEF w
<1>5. Alike(w, t) /\ t.state = "writing" /\ t.timers = w.timers /\ t.posts = w.posts
  BY <1>2, <1>4, ToStill
<1> HIDE DEF t
<1>6. t.current = p.current /\ t.requested = p.requested /\ t.expected = p.expected
  BY <1>4, <1>5 DEF Alike
<1>7. Own(t) = Own(p)
  BY <1>6 DEF Own
<1>8. Carries(t.posts, Job("send", Own(t)), Chores, Later)
  BY <1>3, <1>4, <1>5, <1>7, PostsAreSeq, TokenComes
<1>9. Holds(t, "writing", {"send"}, << >>) /\ Unhurt(s, t)
  BY <1>3, <1>4, <1>5 DEF Holds, Watch, Alike, Unhurt
<1> QED
  BY <1>1, <1>3, <1>6, <1>8, <1>9 DEF Sending

LEMMA RunBetween ==
  ASSUME NEW e, Sound(e), NEW u, e.posts # << >>, Between(e, u)
  PROVE  (Between(Ran(e), u) \/ Sending(Ran(e), u)) /\ Unhurt(e, Ran(e)) /\ Head(e.posts).t # "close"
<1> DEFINE s == Turn(e)
           h == Head(e.posts)
<1>1. Sound(s) /\ Still(e, s) /\ s.posts = Tail(e.posts) /\ h \in Tasks /\ Unhurt(e, s)
  BY TurnStill
<1>2. e.posts \in Seq(Tasks)
  BY PostsAreSeq
<1>3. \A st, ts, out : Holds(e, st, ts, out) => Holds(s, st, ts, out)
  BY <1>1, StillOwn
<1>4. Ran(e) = Task(s, h.t, h.x)
  BY DEF Ran
<1>5. s.queue = e.queue
  BY <1>1 DEF Still
<1> HIDE DEF s, h
<1>6. h \in Chores /\ All(s.posts, Chores) /\ (e.queue = << >> => h \in Later /\ All(s.posts, Later))
  BY <1>1, <1>2, HeadOfAll DEF Between, h
<1>7. Between(s, u) /\ s.state = "connected" /\ s.connected
  BY <1>3, <1>5, <1>6 DEF Between, Holds
<1>8. CASE h = Want
  <2>1. Want \notin Later
    BY DEF Want, Later, Job
  <2>2. LET t == Task(s, "event", "write_command") IN Sending(t, u) /\ Unhurt(s, t)
    BY <1>1, <1>5, <1>6, <1>7, <1>8, <2>1, PopWrites DEF Between
  <2>3. h.t = "event" /\ h.x = "write_command"
    BY <1>8 DEF Want, Job
  <2> QED
    BY <1>1, <1>4, <2>2, <2>3 DEF Unhurt, h
<1>9. CASE h # Want
  <2> DEFINE t == Task(s, h.t, h.x)
  <2>1. Quiet(s, t, Chores) /\ (t.queue = << >> => s.queue = << >> /\ Quiet(s, t, Later))
    BY <1>1, <1>6, <1>7, <1>9, ChoreQuiet
  <2> HIDE DEF t
  <2>2. Between(t, u) /\ Unhurt(s, t)
    BY <1>1, <1>7, <2>1, QuietBetween, QuietUnhurt
  <2> QED
    BY <1>1, <1>4, <1>6, <2>2, ChoresOpen DEF Unhurt, h, t
<1> QED
  BY <1>8, <1>9

\* Until there is a connection.
LEMMA EarlyStill ==
  ASSUME EepAssumption, NEW s, Sound(s), NEW u, NEW st \in {"idle", "connecting"}, NEW up, NEW busy, NEW ts,
         Phase(s, u, st, up, busy, ts), NEW h \in Early
  PROVE  LET t == Task(s, h.t, h.x)
         IN Phase(t, u, st, up, busy, ts) /\ t.posts = s.posts /\ Unhurt(s, t) /\ h.t # "close"
<1>1. PICK c \in Calls : h = Job("enqueue", c)
  BY DEF Early
<1>2. Task(s, h.t, h.x) = Enqueue(s, c) /\ h.t # "close"
  BY <1>1 DEF Task, Job
<1>3. c \in Cmds /\ s.missed = 0 /\ s.state # "connected"
  BY DEF EepAssumption, Cmds, Requests, Phase
<1>4. LET t == Enqueue(s, c)
      IN Alike(s, t) /\ t.state = s.state /\ t.timers = s.timers /\ t.missed = 0 /\ t.posts = s.posts
  <2>1. CASE s.connected
    BY <1>3, <2>1, EnqueueQuiet DEF Quiet
  <2>2. CASE ~s.connected
    BY <1>3, <2>2, EnqueueEarly
  <2> QED
    BY <2>1, <2>2
<1> QED
  BY <1>2, <1>4 DEF Phase, Alike, Unhurt

LEMMA Connects ==
  ASSUME NEW s, Sound(s), NEW u, Phase(s, u, "idle", FALSE, FALSE, {}), All(s.posts, Early)
  PROVE  LET t == Task(s, "event", "connect") IN Before(t, u) /\ Unhurt(s, t)
<1> DEFINE x == Job("connect", "socket")
           a == Post(s, "connect", "socket")
           b == Start(a, "connect")
           t == To(b, "connecting")
<1>1. Task(s, "event", "connect") = t
  BY DEF Task, Transition, Idle, Phase
<1>2. "connecting" \in States /\ "connect" \in Timers /\ x \in Tasks
  BY DEF States, Timers, Tasks, Job
<1>3. Sound(a) /\ Still(s, a) /\ a.posts = Append(s.posts, x)
  BY <1>2, PostStill
<1> HIDE DEF a
<1>4. Sound(b) /\ Alike(a, b) /\ b.posts = a.posts /\ b.missed = a.missed /\ b.timers = a.timers \cup {"connect"}
  BY <1>2, <1>3, TimersStill
<1> HIDE DEF b
<1>5. Alike(b, t) /\ t.state = "connecting" /\ t.timers = b.timers /\ t.posts = b.posts /\ t.missed = b.missed
  BY <1>2, <1>4, ToStill
<1> HIDE DEF t
<1>6. Carries(t.posts, x, Early, Early)
  BY <1>2, <1>3, <1>4, <1>5, PostsAreSeq, TokenComes
<1>7. Phase(t, u, "connecting", FALSE, FALSE, {"connect"}) /\ Unhurt(s, t)
  BY <1>3, <1>4, <1>5 DEF Phase, Still, Alike, Unhurt
<1> QED
  BY <1>1, <1>6, <1>7 DEF Before, x

LEMMA SocketConnects ==
  ASSUME NEW s, Sound(s), NEW u, Phase(s, u, "connecting", FALSE, FALSE, {"connect"}), All(s.posts, Early)
  PROVE  LET t == Task(s, "connect", "socket") IN Before(t, u) /\ Unhurt(s, t)
<1> DEFINE t == [s EXCEPT !.connecting = TRUE, !.out = << >>]
<1>1. Task(s, "connect", "socket") = t
  BY DEF Task, SocketConnect, Phase
<1>2. /\ t.state = s.state /\ t.connected = s.connected /\ t.connecting = TRUE /\ t.timers = s.timers
      /\ t.out = << >> /\ t.missed = s.missed /\ t.posts = s.posts /\ Unhurt(s, t)
  BY DEF Sound, EepState, Unhurt
<1> HIDE DEF t
<1>3. Phase(t, u, "connecting", FALSE, TRUE, {"connect"})
  BY <1>2 DEF Phase
<1> QED
  BY <1>1, <1>2, <1>3 DEF Before

LEMMA ConnectedTold ==
  ASSUME NEW s, Sound(s), NEW u, Phase(s, u, "connecting", TRUE, FALSE, {"connect"}), All(s.posts, Early)
  PROVE  LET t == Task(s, "connected", TRUE) IN Before(t, u) /\ Unhurt(s, t)
<1> DEFINE w == Cancel(s, {"connect"})
           t == Event(w, "connect_success")
           x == Job("event", "connect_success")
<1>1. Task(s, "connected", TRUE) = t
  BY DEF Task
<1>2. "connect" \in Timers /\ "connect_success" \in EventNames /\ x \in Tasks
  BY DEF Timers, EventNames, Tasks, Job
<1>3. /\ Sound(w) /\ Alike(s, w) /\ w.posts = s.posts /\ w.state = s.state /\ w.missed = s.missed
      /\ w.timers = s.timers \ {"connect"}
  BY <1>2, TimersStill
<1> HIDE DEF w
<1>4. Sound(t) /\ Still(w, t) /\ t.posts = Append(w.posts, x)
  BY <1>2, <1>3, EventStill
<1> HIDE DEF t
<1>5. Carries(t.posts, x, Early, Early)
  BY <1>2, <1>3, <1>4, PostsAreSeq, TokenComes
<1>6. Phase(t, u, "connecting", TRUE, FALSE, {}) /\ Unhurt(s, t)
  BY <1>3, <1>4 DEF Phase, Still, Alike, Unhurt
<1> QED
  BY <1>1, <1>5, <1>6 DEF Before, x

LEMMA EarlyLater == ASSUME EepAssumption PROVE Early \subseteq Later /\ Early \subseteq Tasks
BY LaterTasks DEF EepAssumption, Early, Cmds, Requests

LEMMA ReadyBetween ==
  ASSUME EepAssumption, NEW s, Sound(s), NEW u, Phase(s, u, "connecting", TRUE, FALSE, {}), All(s.posts, Early)
  PROVE  LET t == Task(s, "event", "connect_success") IN Between(t, u) /\ Unhurt(s, t)
<1> DEFINE r == Ready(s)
           t == To(r, "connected")
           x == Job("check", "queue")
<1>1. Task(s, "event", "connect_success") = t
  BY DEF Task, Transition, Connecting, Phase
<1>2. Quiet(s, r, Later)
  BY ReadyQuiet
<1> HIDE DEF r
<1>3. Sound(r)
  BY <1>2 DEF Quiet
<1>4. Sound(t) /\ Alike(r, t) /\ t.state = "connected" /\ t.timers = r.timers /\ t.posts = Append(r.posts, x)
  BY <1>3, ToConnected
<1> HIDE DEF t
<1>5. x \in Later /\ x \in Tasks /\ Later \subseteq Chores
  BY LaterTasks
<1>6. s.posts \in Seq(Tasks) /\ r.posts \in Seq(Tasks) /\ t.posts \in Seq(Tasks)
  BY <1>3, <1>4, PostsAreSeq
<1>7. All(s.posts, Later)
  BY EarlyLater DEF All
<1>8. All(r.posts, Later)
  BY <1>2, <1>6, <1>7, GrowsAll DEF Quiet
<1>9. All(t.posts, Later)
  <2>1. Grows(r.posts, t.posts, Later)
    BY <1>4, <1>5, <1>6, Growing
  <2> QED
    BY <1>6, <1>8, <2>1, GrowsAll
<1>10. All(t.posts, Chores)
  BY <1>5, <1>9 DEF All
<1>11. Holds(t, "connected", {}, << >>)
  BY <1>2, <1>4 DEF Holds, Phase, Watch, Quiet, Alike
<1> QED
  BY <1>1, <1>2, <1>4, <1>9, <1>10, <1>11 DEF Between, Unhurt, Alike, Quiet, Phase

LEMMA RunBefore ==
  ASSUME EepAssumption, NEW e, Sound(e), NEW u, e.posts # << >>, Before(e, u)
  PROVE  (Before(Ran(e), u) \/ Between(Ran(e), u)) /\ Unhurt(e, Ran(e)) /\ Head(e.posts).t # "close"
<1> DEFINE s == Turn(e)
           h == Head(e.posts)
<1>1. Sound(s) /\ Still(e, s) /\ s.posts = Tail(e.posts) /\ Unhurt(e, s)
  BY TurnStill
<1>2. e.posts \in Seq(Tasks)
  BY PostsAreSeq
<1>3. \A st, up, busy, ts : Phase(e, u, st, up, busy, ts) => Phase(s, u, st, up, busy, ts)
  BY <1>1 DEF Phase, Still, Alike
<1>4. Ran(e) = Task(s, h.t, h.x)
  BY DEF Ran
<1> HIDE DEF s, h
<1>5. ASSUME NEW st \in {"idle", "connecting"}, NEW up, NEW busy, NEW ts, Phase(s, u, st, up, busy, ts), h \in Early
      PROVE  Phase(Ran(e), u, st, up, busy, ts) /\ Ran(e).posts = s.posts /\ Unhurt(e, Ran(e)) /\ h.t # "close"
  <2>1. LET t == Task(s, h.t, h.x)
        IN Phase(t, u, st, up, busy, ts) /\ t.posts = s.posts /\ Unhurt(s, t) /\ h.t # "close"
    BY <1>1, <1>5, EarlyStill
  <2> QED
    BY <1>1, <1>4, <2>1 DEF Unhurt
<1>6. \A x : Carries(e.posts, x, Early, Early) => (h = x /\ All(s.posts, Early)) \/ (h \in Early /\ Carries(s.posts, x, Early, Early))
  BY <1>1, <1>2, HeadOfCarries DEF h
<1>7. CASE Phase(e, u, "idle", FALSE, FALSE, {}) /\ Carries(e.posts, Job("event", "connect"), Early, Early)
  <2>1. CASE h = Job("event", "connect") /\ All(s.posts, Early)
    <3>1. LET t == Task(s, "event", "connect") IN Before(t, u) /\ Unhurt(s, t)
      BY <1>1, <1>3, <1>7, <2>1, Connects
    <3>2. h.t = "event" /\ h.x = "connect"
      BY <2>1 DEF Job
    <3> QED
      BY <1>1, <1>4, <3>1, <3>2 DEF Unhurt, h
  <2>2. CASE h \in Early /\ Carries(s.posts, Job("event", "connect"), Early, Early)
    <3>1. Phase(Ran(e), u, "idle", FALSE, FALSE, {}) /\ Ran(e).posts = s.posts /\ Unhurt(e, Ran(e)) /\ h.t # "close"
      BY <1>3, <1>5, <1>7, <2>2
    <3> QED
      BY <2>2, <3>1 DEF Before, h
  <2> QED
    BY <1>6, <1>7, <2>1, <2>2
<1>8. CASE Phase(e, u, "connecting", FALSE, FALSE, {"connect"}) /\ Carries(e.posts, Job("connect", "socket"), Early, Early)
  <2>1. CASE h = Job("connect", "socket") /\ All(s.posts, Early)
    <3>1. LET t == Task(s, "connect", "socket") IN Before(t, u) /\ Unhurt(s, t)
      BY <1>1, <1>3, <1>8, <2>1, SocketConnects
    <3>2. h.t = "connect" /\ h.x = "socket"
      BY <2>1 DEF Job
    <3> QED
      BY <1>1, <1>4, <3>1, <3>2 DEF Unhurt, h
  <2>2. CASE h \in Early /\ Carries(s.posts, Job("connect", "socket"), Early, Early)
    <3>1. Phase(Ran(e), u, "connecting", FALSE, FALSE, {"connect"}) /\ Ran(e).posts = s.posts /\ Unhurt(e, Ran(e)) /\ h.t # "close"
      BY <1>3, <1>5, <1>8, <2>2
    <3> QED
      BY <2>2, <3>1 DEF Before, h
  <2> QED
    BY <1>6, <1>8, <2>1, <2>2
<1>9. CASE Phase(e, u, "connecting", FALSE, TRUE, {"connect"}) /\ All(e.posts, Early)
  <2>1. h \in Early /\ All(s.posts, Early)
    BY <1>1, <1>2, <1>9, HeadOfAll DEF h
  <2>2. Phase(Ran(e), u, "connecting", FALSE, TRUE, {"connect"}) /\ Ran(e).posts = s.posts /\ Unhurt(e, Ran(e)) /\ h.t # "close"
    BY <1>3, <1>5, <1>9, <2>1
  <2> QED
    BY <2>1, <2>2 DEF Before, h
<1>10. CASE Phase(e, u, "connecting", TRUE, FALSE, {"connect"}) /\ Carries(e.posts, Job("connected", TRUE), Early, Early)
  <2>1. CASE h = Job("connected", TRUE) /\ All(s.posts, Early)
    <3>1. LET t == Task(s, "connected", TRUE) IN Before(t, u) /\ Unhurt(s, t)
      BY <1>1, <1>3, <1>10, <2>1, ConnectedTold
    <3>2. h.t = "connected" /\ h.x = TRUE
      BY <2>1 DEF Job
    <3> QED
      BY <1>1, <1>4, <3>1, <3>2 DEF Unhurt, h
  <2>2. CASE h \in Early /\ Carries(s.posts, Job("connected", TRUE), Early, Early)
    <3>1. Phase(Ran(e), u, "connecting", TRUE, FALSE, {"connect"}) /\ Ran(e).posts = s.posts /\ Unhurt(e, Ran(e)) /\ h.t # "close"
      BY <1>3, <1>5, <1>10, <2>2
    <3> QED
      BY <2>2, <3>1 DEF Before, h
  <2> QED
    BY <1>6, <1>10, <2>1, <2>2
<1>11. CASE Phase(e, u, "connecting", TRUE, FALSE, {}) /\ Carries(e.posts, Job("event", "connect_success"), Early, Early)
  <2>1. CASE h = Job("event", "connect_success") /\ All(s.posts, Early)
    <3>1. LET t == Task(s, "event", "connect_success") IN Between(t, u) /\ Unhurt(s, t)
      BY <1>1, <1>3, <1>11, <2>1, ReadyBetween
    <3>2. h.t = "event" /\ h.x = "connect_success"
      BY <2>1 DEF Job
    <3> QED
      BY <1>1, <1>4, <3>1, <3>2 DEF Unhurt, h
  <2>2. CASE h \in Early /\ Carries(s.posts, Job("event", "connect_success"), Early, Early)
    <3>1. Phase(Ran(e), u, "connecting", TRUE, FALSE, {}) /\ Ran(e).posts = s.posts /\ Unhurt(e, Ran(e)) /\ h.t # "close"
      BY <1>3, <1>5, <1>11, <2>2
    <3> QED
      BY <2>2, <3>1 DEF Before, h
  <2> QED
    BY <1>6, <1>11, <2>1, <2>2
<1> QED
  BY <1>7, <1>8, <1>9, <1>10, <1>11 DEF Before

------------------------------------------------------------------------------
\* The steps of the client, the controller and the lane.

LEMMA CarriesPosted ==
  ASSUME NEW t, NEW x, NEW C, NEW D, Carries(eep.posts, Job(t, x), C, D), NEW xs, x \in xs
  PROVE  Posted(t, xs) /\ eep.posts # << >>
<1>1. PICK k \in DOMAIN eep.posts : eep.posts[k] = Job(t, x)
  BY DEF Carries
<1>2. eep.posts # << >>
  BY <1>1
<1> QED
  BY <1>1, <1>2 DEF Posted, Job

\* The socket tells how a connection or a write ended.
LEMMA ToldStill ==
  ASSUME NEW s, Sound(s), NEW t \in {"sent", "connected"}
  PROVE  LET u == Post(s, t, TRUE) IN Still(s, u) /\ u.posts = Append(s.posts, Job(t, TRUE))
<1>1. Job(t, TRUE) \in Tasks
  BY DEF Job, Tasks
<1> QED
  BY <1>1, PostStill

LEMMA FaultCounts == ASSUME EepAssumption, faults \in 0..MaxFaults, Fault PROVE faults' # 0
BY DEF EepAssumption, Fault

LEMMA InitSmooth == ASSUME Init PROVE Smooth
<1> DEFINE x == Job("event", "connect")
<1>1. eep.posts = <<x>>
  BY DEF Init, Job
<1>2. Carries(<<x>>, x, Early, Early)
  <2> DEFINE q == <<x>>
  <2>1. DOMAIN q = {1} /\ q[1] = x
    OBVIOUS
  <2> HIDE DEF x, q
  <2>2. Carries(q, x, Early, Early)
    BY <2>1 DEF Carries
  <2> QED
    BY <2>2 DEF q
<1>3. Phase(eep, unit, "idle", FALSE, FALSE, {})
  BY DEF Init, Phase, Silent, Carried
<1>4. eep.failed = {} /\ ~eep.stopping
  BY DEF Init
<1> QED
  BY <1>1, <1>2, <1>3, <1>4 DEF Smooth, Goes, Before

LEMMA RunTaskSmooth == ASSUME EepAssumption, IInv, Smooth, RunTask, faults' = 0 PROVE Goes(eep', unit')
<1>1. eep.posts # << >> /\ eep' = Ran(eep) /\ faults = 0 /\ Sound(eep)
  BY DEF RunTask, Ran, Turn, IInv, EepInv
<1>2. Goes(eep, unit)
  BY <1>1 DEF Smooth, Stopped
<1>3. /\ Before(Ran(eep), unit) \/ Between(Ran(eep), unit) \/ Sending(Ran(eep), unit) \/ Waits(Ran(eep), unit)
      /\ Unhurt(eep, Ran(eep)) /\ Head(eep.posts).t # "close"
  BY <1>1, <1>2, RunBefore, RunBetween, RunSending, RunWaits DEF Goes
<1>4. unit' = unit
  BY <1>3 DEF RunTask
<1> QED
  BY <1>1, <1>2, <1>3, <1>4 DEF Goes, Unhurt

\* The connection is made.
LEMMA ConnectSmooth ==
  ASSUME EepAssumption, IInv, Smooth, NEW ok \in BOOLEAN, ConnectEnds(ok), faults' = 0
  PROVE  Goes(eep', unit')
<1>1. ok = TRUE /\ faults = 0 /\ unit' = unit /\ eep.connecting /\ Sound(eep)
  BY FaultCounts DEF ConnectEnds, IInv, EepInv
<1>2. Goes(eep, unit)
  BY <1>1 DEF Smooth, Stopped
<1>3. ~eep.connected
  BY <1>1 DEF Sound
<1>4. Phase(eep, unit, "connecting", FALSE, TRUE, {"connect"}) /\ All(eep.posts, Early)
  BY <1>1, <1>2, <1>3 DEF Goes, Before, Between, Sending, Waits, Holds, Phase
<1> DEFINE s == [eep EXCEPT !.connecting = FALSE, !.connected = TRUE]
           x == Job("connected", TRUE)
<1>5. /\ Sound(s) /\ s.state = eep.state /\ s.timers = eep.timers /\ s.out = eep.out /\ s.missed = eep.missed
      /\ s.posts = eep.posts /\ s.connected = TRUE /\ s.connecting = FALSE /\ Unhurt(eep, s)
  BY <1>1 DEF Sound, EepState, Unhurt
<1>6. eep' = Post(s, "connected", TRUE)
  BY <1>1 DEF ConnectEnds
<1> HIDE DEF s
<1>7. x \in Tasks
  BY DEF Job, Tasks
<1>8. Still(s, eep') /\ eep'.posts = Append(s.posts, x)
  <2>1. LET u == Post(s, "connected", TRUE) IN Still(s, u) /\ u.posts = Append(s.posts, x)
    BY <1>5, <1>7, ToldStill
  <2> QED
    BY <1>6, <2>1
<1>9. Carries(eep'.posts, x, Early, Early)
  BY <1>4, <1>5, <1>7, <1>8, PostsAreSeq, TokenComes
<1>10. Phase(eep', unit', "connecting", TRUE, FALSE, {"connect"}) /\ Unhurt(eep, eep')
  BY <1>1, <1>4, <1>5, <1>8 DEF Phase, Still, Alike, Unhurt
<1> QED
  BY <1>2, <1>9, <1>10 DEF Goes, Before, Unhurt

\* The controller has the frame, and answers.
LEMMA WriteEndsSmooth == ASSUME EepAssumption, IInv, Smooth, WriteEnds, faults' = 0 PROVE Goes(eep', unit')
<1>1. eep.out # << >> /\ faults = 0 /\ Sound(eep) /\ unit \in UnitState
  BY DEF WriteEnds, IInv, EepInv
<1>2. Goes(eep, unit)
  BY <1>1 DEF Smooth, Stopped
<1>3. /\ Holds(eep, "writing", {"send"}, <<Own(eep)>>) /\ Silent(unit) /\ All(eep.posts, Later)
      /\ eep.current = eep.requested \/ eep.current \in Unsolicited
  BY <1>1, <1>2 DEF Goes, Before, Between, Sending, Waits, Holds, Phase
<1> DEFINE s == [eep EXCEPT !.out = << >>]
           x == Job("sent", TRUE)
           m == Own(eep)
<1>4. Head(eep.out) = m /\ Tail(eep.out) = << >>
  BY <1>3 DEF Holds
<1>5. /\ Sound(s) /\ s.state = eep.state /\ s.timers = eep.timers /\ s.out = << >> /\ s.posts = eep.posts
      /\ s.connected = eep.connected /\ s.current = eep.current /\ s.requested = eep.requested
      /\ s.expected = eep.expected /\ Unhurt(eep, s)
  <2> DEFINE none == << >>
             w == [eep EXCEPT !.out = none]
  <2>1. none \in Seq(Outs) /\ eep.connected
    BY <1>3 DEF Holds
  <2> HIDE DEF none
  <2>2. /\ Sound(w) /\ w.state = eep.state /\ w.timers = eep.timers /\ w.out = none /\ w.posts = eep.posts
        /\ w.connected = eep.connected /\ w.current = eep.current /\ w.requested = eep.requested
        /\ w.expected = eep.expected /\ Unhurt(eep, w)
    BY <1>1, <2>1 DEF Sound, EepState, Unhurt
  <2> QED
    BY <2>2 DEF none
<1>6. eep' = Post(s, "sent", TRUE)
  BY <1>4 DEF WriteEnds
<1> HIDE DEF s
<1>7. x \in Tasks
  BY DEF Job, Tasks
<1>8. Still(s, eep') /\ eep'.posts = Append(s.posts, x)
  <2>1. LET u == Post(s, "sent", TRUE) IN Still(s, u) /\ u.posts = Append(s.posts, x)
    BY <1>5, <1>7, ToldStill
  <2> QED
    BY <1>6, <2>1
<1>9. Carries(eep'.posts, x, Later, Later)
  BY <1>3, <1>5, <1>7, <1>8, PostsAreSeq, TokenComes
<1>10. Holds(eep', "writing", {"send"}, << >>) /\ Unhurt(eep, eep')
  BY <1>3, <1>5, <1>8 DEF Holds, Watch, Still, Alike, Unhurt
<1>11. eep'.current = eep.current /\ eep'.requested = eep.requested /\ eep'.expected = eep.expected
  BY <1>5, <1>8 DEF Still, Alike
<1>12. Replied(eep', unit')
  <2>1. unit' \in Answer(m) /\ unit.wire = << >> /\ unit.due = << >>
    BY <1>3, <1>4 DEF WriteEnds, Silent, Carried
  <2> HIDE DEF m
  <2>2. CASE eep.current \in Unsolicited
    <3>1. m.m = "note" /\ m.c \notin Notified
      BY <2>2 DEF m, Own, Message, Unsolicited, Notified
    <3>2. unit' = [unit EXCEPT !.wire = unit.wire]
      BY <2>1, <3>1 DEF Answer
    <3>3. unit'.wire = << >> /\ unit'.due = << >>
      BY <1>1, <2>1, <3>2 DEF UnitState
    <3> QED
      BY <1>11, <2>2, <3>3 DEF Replied, Silent, Carried
  <2>3. CASE eep.current \notin Unsolicited
    <3>1. m = Message("rsp", eep.requested, eep.expected)
      BY <2>3 DEF m, Own
    <3>2. m.m = "rsp" /\ m.c = eep.requested
      BY <3>1 DEF Message
    <3>3. [m EXCEPT !.m = "ack"] = Message("ack", eep.requested, eep.expected)
          /\ [m EXCEPT !.m = "nak"] = Message("nak", eep.requested, eep.expected)
      BY <3>1 DEF Message
    <3>4. CASE eep.requested \in Notified
      <4> DEFINE a == Message("ack", eep.requested, eep.expected)
                 n == Message("nak", eep.requested, eep.expected)
      <4>1. \/ unit' = [unit EXCEPT !.wire = Append(@, a), !.due = Append(@, eep.requested)]
            \/ unit' = [unit EXCEPT !.wire = Append(@, n)]
        BY <2>1, <3>2, <3>3, <3>4 DEF Answer
      <4>2. a \in Replies(eep') /\ Owed(a) = <<eep.requested>> /\ n \in Replies(eep') /\ Owed(n) = << >>
        BY <1>11, <3>4 DEF Replies, Owed, Message
      <4> HIDE DEF a, n
      <4>3. Append(<< >>, a) = <<a>> /\ Append(<< >>, n) = <<n>> /\ Append(<< >>, eep.requested) = <<eep.requested>>
        OBVIOUS
      <4>4. Carried(unit', <<a>>, <<eep.requested>>) \/ Carried(unit', <<n>>, << >>)
        BY <1>1, <2>1, <4>1, <4>3 DEF Carried, UnitState
      <4> QED
        BY <1>11, <2>3, <4>2, <4>4 DEF Replied
    <3>5. CASE eep.requested \notin Notified
      <4>1. unit' = [unit EXCEPT !.wire = Append(@, m)]
        BY <2>1, <3>2, <3>5 DEF Answer
      <4>2. m \in Replies(eep') /\ Owed(m) = << >>
        BY <1>11, <3>1, <3>2 DEF Replies, Owed
      <4>3. Append(<< >>, m) = <<m>>
        OBVIOUS
      <4>4. Carried(unit', <<m>>, << >>)
        BY <1>1, <2>1, <4>1, <4>3 DEF Carried, UnitState
      <4> QED
        BY <1>11, <2>3, <4>2, <4>4 DEF Replied
    <3> QED
      BY <3>4, <3>5
  <2> QED
    BY <2>2, <2>3
<1> QED
  BY <1>2, <1>3, <1>9, <1>10, <1>11, <1>12 DEF Goes, Sending, Unhurt

\* A notification that is owed is sent when nothing else is under way.
LEMMA NoteSentSmooth == ASSUME EepAssumption, IInv, Smooth, NoteSent, faults' = 0 PROVE Goes(eep', unit')
<1>1. unit.wire = << >> /\ eep.posts = << >> /\ unit.due # << >> /\ eep.connected /\ eep' = eep /\ faults = 0
      /\ unit \in UnitState
  BY FaultCounts DEF NoteSent, IInv
<1>2. Goes(eep, unit)
  BY <1>1 DEF Smooth, Stopped
<1>3. \A x, C, D : ~Carries(eep.posts, x, C, D)
  BY <1>1 DEF Carries
<1>4. ~\E m \in Replies(eep) : Carried(unit, <<m>>, Owed(m))
  BY <1>1 DEF Carried
<1>5. Holds(eep, "waiting", {"response"}, << >>) /\ Carried(unit, << >>, <<eep.requested>>) /\ All(eep.posts, Later)
  BY <1>1, <1>2, <1>3, <1>4 DEF Goes, Before, Between, Sending, Waits, Phase, Silent, Carried
<1>6. Head(unit.due) = eep.requested /\ Tail(unit.due) = << >>
  BY <1>5 DEF Carried
<1>7. unit' = [unit EXCEPT !.wire = Append(@, Note(eep)), !.due = << >>]
  BY <1>6 DEF NoteSent, Note
<1>8. unit'.wire = Append(<< >>, Note(eep)) /\ unit'.due = << >>
  BY <1>1, <1>7 DEF UnitState
<1>9. Carried(unit', <<Note(eep)>>, << >>)
  BY <1>8 DEF Carried
<1>10. Waits(eep, unit')
  BY <1>5, <1>9 DEF Waits
<1> QED
  BY <1>1, <1>2, <1>10 DEF Goes

\* A frame is read once the end of the write was dealt with.
LEMMA FrameArrivesSmooth == ASSUME EepAssumption, IInv, Smooth, FrameArrives, faults' = 0 PROVE Goes(eep', unit')
<1>1. /\ unit.wire # << >> /\ eep.connected /\ faults = 0 /\ unit \in UnitState /\ Sound(eep)
      /\ ~Posted("sent", BOOLEAN) /\ ~Posted("event", {"write_completed"})
  BY FaultCounts DEF FrameArrives, IInv, EepInv
<1>2. Goes(eep, unit)
  BY <1>1 DEF Smooth, Stopped
<1>3. ~Silent(unit)
  BY <1>1 DEF Silent, Carried
<1>4. /\ \A C, D : ~Carries(eep.posts, Job("sent", TRUE), C, D)
      /\ \A C, D : ~Carries(eep.posts, Job("event", "write_completed"), C, D)
  BY <1>1, CarriesPosted
<1> DEFINE m == Head(unit.wire)
           x == Job("received", m)
<1>5. eep' = Post(eep, "received", m) /\ unit' = [unit EXCEPT !.wire = Tail(@)]
  BY DEF FrameArrives
<1>6. m \in Wires
  BY <1>1, HeadTailProperties DEF UnitState
<1>7. x \in Tasks
  BY <1>6 DEF Tasks, Job, Heard
<1>8. Still(eep, eep') /\ eep'.posts = Append(eep.posts, x)
  BY <1>1, <1>5, <1>7, PostStill
<1>9. All(eep.posts, Later) => Carries(eep'.posts, x, Later, Later)
  BY <1>1, <1>7, <1>8, PostsAreSeq, TokenComes
<1>10. unit'.wire = Tail(unit.wire) /\ unit'.due = unit.due
  BY <1>1, <1>5 DEF UnitState
<1>11. Replies(eep') = Replies(eep) /\ Note(eep') = Note(eep) /\ Unhurt(eep, eep')
       /\ \A st, ts, out : Holds(eep, st, ts, out) => Holds(eep', st, ts, out)
  BY <1>8, StillOwn DEF Still, Alike, Unhurt
<1>12. CASE /\ Holds(eep, "waiting", {"ack"}, << >>) /\ All(eep.posts, Later)
            /\ \E n \in Replies(eep) : Carried(unit, <<n>>, Owed(n))
  <2>1. PICK n \in Replies(eep) : Carried(unit, <<n>>, Owed(n))
    BY <1>12
  <2>2. m = n /\ Tail(unit.wire) = << >>
    BY <2>1 DEF Carried
  <2>3. Carried(unit', << >>, Owed(n))
    BY <1>10, <2>1, <2>2 DEF Carried
  <2>4. Waits(eep', unit')
    BY <1>9, <1>11, <1>12, <2>1, <2>2, <2>3 DEF Waits
  <2> QED
    BY <1>2, <1>11, <2>4 DEF Goes, Unhurt
<1>13. CASE Holds(eep, "waiting", {"response"}, << >>) /\ Carried(unit, <<Note(eep)>>, << >>) /\ All(eep.posts, Later)
  <2>1. m = Note(eep) /\ Tail(unit.wire) = << >>
    BY <1>13 DEF Carried
  <2>2. Silent(unit')
    BY <1>10, <1>13, <2>1 DEF Carried, Silent
  <2>3. Waits(eep', unit')
    BY <1>9, <1>11, <1>13, <2>1, <2>2 DEF Waits
  <2> QED
    BY <1>2, <1>11, <2>3 DEF Goes, Unhurt
<1>14. ~Before(eep, unit) /\ ~Between(eep, unit) /\ ~Sending(eep, unit)
  BY <1>3, <1>4 DEF Before, Between, Sending, Phase
<1> QED
  BY <1>1, <1>2, <1>3, <1>12, <1>13, <1>14 DEF Goes, Waits, Carried

LEMMA QuietGoes ==
  ASSUME NEW s, Sound(s), NEW t, NEW u, Quiet(s, t, Later), t.queue = s.queue, ~Before(s, u), Goes(s, u)
  PROVE  Goes(t, u)
<1>1. Quiet(s, t, Chores)
  BY LaterTasks, QuietMore
<1>2. Between(s, u) => Between(t, u)
  BY <1>1, QuietBetween
<1> QED
  BY <1>2, QuietSending, QuietWaits, QuietUnhurt DEF Goes, Unhurt

LEMMA EarlyGoes ==
  ASSUME EepAssumption, NEW s, Sound(s), NEW t, Sound(t), NEW u, Still(s, t), NEW c \in Calls,
         t.posts = Append(s.posts, Job("enqueue", c)), Goes(s, u)
  PROVE  Goes(t, u)
<1> DEFINE a == Job("enqueue", c)
<1>1. a \in Early /\ a \in Later /\ a \in Tasks
  BY EarlyLater DEF Early
<1> HIDE DEF a
<1>2. Grows(s.posts, t.posts, Early) /\ Grows(s.posts, t.posts, Later)
  BY <1>1, Growing, PostsAreSeq DEF a
<1>3. Quiet(s, t, Later) /\ t.queue = s.queue
  BY <1>2 DEF Still, Quiet, Watch
<1>4. CASE Before(s, u)
  <2>1. \A st, up, busy, ts : Phase(s, u, st, up, busy, ts) => Phase(t, u, st, up, busy, ts)
    BY DEF Phase, Still, Alike
  <2>2. \A x : Carries(s.posts, x, Early, Early) => Carries(t.posts, x, Early, Early)
    BY <1>2, PostsAreSeq, GrowsCarries
  <2>3. All(s.posts, Early) => All(t.posts, Early)
    BY <1>2, PostsAreSeq, GrowsAll
  <2>4. Before(t, u)
    BY <1>4, <2>1, <2>2, <2>3 DEF Before
  <2> QED
    BY <2>4 DEF Goes, Still, Alike
<1> QED
  BY <1>3, <1>4, QuietGoes

\* A request of the lane.
LEMMA AskSmooth ==
  ASSUME EepAssumption, IInv, NEW c \in Calls, Goes(eep, unit), unit' = unit,
         eep' = Post([eep EXCEPT !.open = @ \cup {c}], "enqueue", c)
  PROVE  Goes(eep', unit')
<1> DEFINE s == [eep EXCEPT !.open = @ \cup {c}]
<1>1. Sound(eep)
  BY DEF IInv, EepInv
<1>2. Sound(s) /\ Still(eep, s) /\ s.posts = eep.posts
  BY <1>1 DEF Sound, EepState, Still, Alike
<1> HIDE DEF s
<1>3. Job("enqueue", c) \in Tasks
  BY EarlyLater DEF Early
<1> DEFINE t == Post(s, "enqueue", c)
<1>4. Sound(t) /\ Still(s, t) /\ t.posts = Append(s.posts, Job("enqueue", c))
  BY <1>2, <1>3, PostStill
<1>5. eep' = t
  BY DEF s
<1> HIDE DEF t
<1>6. Still(eep, t)
  BY <1>2, <1>4 DEF Still, Alike
<1> QED
  BY <1>1, <1>2, <1>4, <1>5, <1>6, EarlyGoes

\* While nothing fails no timer but the two that run on by themselves can expire.
LEMMA TimersGuard ==
  ASSUME Sound(eep), Goes(eep, unit), NEW timer \in eep.timers \ {"watchdog", "health"}
  PROVE  timer \in Timers /\ Guards(timer)
<1>1. timer \in Timers /\ timer \in Watch(eep)
  BY DEF Sound, EepState, Watch
<1>2. CASE Before(eep, unit)
  <2>1. timer = "connect"
    BY <1>2 DEF Before, Phase
  <2>2. eep.connecting \/ Posted("connect", {"socket"}) \/ Posted("connected", BOOLEAN)
    BY <1>2, CarriesPosted DEF Before, Phase
  <2> QED
    BY <1>1, <2>1, <2>2 DEF Guards
<1>3. CASE Between(eep, unit)
  BY <1>1, <1>3 DEF Between, Holds
<1>4. CASE Sending(eep, unit)
  <2>1. timer = "send" /\ eep.state = "writing"
    BY <1>1, <1>4 DEF Sending, Holds
  <2> QED
    BY <1>1, <2>1 DEF Guards
<1>5. CASE Waits(eep, unit)
  <2>1. \A t, x, C, D : Carries(eep.posts, Job(t, x), C, D) => eep.posts # << >>
    BY DEF Carries
  <2>2. \A m, due : Carried(unit, <<m>>, due) => unit.wire # << >>
    BY DEF Carried
  <2>3. Carried(unit, << >>, <<eep.requested>>) => unit.due # << >>
    BY DEF Carried
  <2>4. eep.state = "waiting"
    BY <1>5 DEF Waits, Holds
  <2>5. \/ timer = "ack" /\ (unit.wire # << >> \/ eep.posts # << >>)
        \/ timer = "response" /\ (unit.wire # << >> \/ unit.due # << >> \/ eep.posts # << >>)
    BY <1>1, <1>5, <2>1, <2>2, <2>3 DEF Waits, Holds
  <2> QED
    BY <1>1, <2>4, <2>5 DEF Guards
<1> QED
  BY <1>2, <1>3, <1>4, <1>5 DEF Goes

LEMMA ExpireSmooth ==
  ASSUME EepAssumption, IInv, Smooth, NEW timer \in Timers, Expire(timer), faults' = 0
  PROVE  Goes(eep', unit')
<1>1. timer \in eep.timers /\ unit' = unit /\ Sound(eep) /\ ~Guards(timer) /\ faults = 0
  BY FaultCounts DEF Expire, IInv, EepInv
<1>2. Goes(eep, unit)
  BY <1>1 DEF Smooth, Stopped
<1>3. timer \in {"watchdog", "health"}
  BY <1>1, <1>2, TimersGuard
<1>4. ~Before(eep, unit)
  BY <1>1, <1>3 DEF Before, Phase
<1> DEFINE w == Cancel(eep, {timer})
           a == Job("timer", timer)
           t == Post(w, "timer", timer)
<1>5. /\ Sound(w) /\ Alike(eep, w) /\ w.posts = eep.posts /\ w.state = eep.state /\ w.queue = eep.queue
      /\ w.timers = eep.timers \ {timer}
  BY <1>1, TimersStill
<1> HIDE DEF w
<1>6. Grows(eep.posts, w.posts, Later)
  BY <1>1, <1>5, Growing, PostsAreSeq
<1>7. Quiet(eep, w, Later)
  BY <1>3, <1>5, <1>6 DEF Quiet, Watch
<1>8. a \in Later /\ a \in Tasks
  BY <1>3, LaterTasks
<1>9. Quiet(w, t, Later) /\ t.queue = w.queue
  BY <1>5, <1>8, PostQuiet
<1>10. eep' = t
  BY DEF Expire, w
<1> HIDE DEF t
<1>11. Quiet(eep, t, Later)
  BY <1>1, <1>7, <1>9, QuietTwice
<1> QED
  BY <1>1, <1>2, <1>4, <1>5, <1>9, <1>10, <1>11, QuietGoes

LEMMA CloseSmooth == ASSUME EepAssumption, IInv, Smooth, FnEEPClientClose, faults' = 0 PROVE Smooth'
<1>1. faults = 0 /\ ~eep.stopping /\ Sound(eep)
  BY DEF FnEEPClientClose, IInv, EepInv
<1>2. eep.failed = {}
  BY <1>1 DEF Smooth, Goes
<1>3. eep'.failed = eep.failed /\ Stopped(eep')
  BY <1>1 DEF FnEEPClientClose, Sound, EepState, Stopped
<1> QED
  BY <1>2, <1>3 DEF Smooth

LEMMA SmoothStep == ASSUME EepAssumption, IInv, Smooth, [Next]_vars PROVE Smooth'
<1> SUFFICES ASSUME faults' = 0 PROVE Smooth'
  BY DEF Smooth
<1>1. Goes(eep', unit') => Smooth'
  BY DEF Smooth
<1>2. faults \in 0..MaxFaults
  BY DEF IInv
<1>3. CASE RunTask
  BY <1>1, <1>3, RunTaskSmooth
<1>4. CASE WriteEnds
  BY <1>1, <1>4, WriteEndsSmooth
<1>5. CASE NoteSent
  BY <1>1, <1>5, NoteSentSmooth
<1>6. CASE FrameArrives
  BY <1>1, <1>6, FrameArrivesSmooth
<1>7. CASE FrameLost \/ (\E m \in {"garbled", "short"} : FrameGarbled(m)) \/ \E ok \in BOOLEAN : TransportFails(ok)
  <2>1. Fault
    BY <1>7 DEF FrameGarbled, FrameLost, TransportFails
  <2> QED
    BY <1>2, <2>1, FaultCounts
<1>8. ASSUME NEW ok \in BOOLEAN, ConnectEnds(ok) PROVE Smooth'
  BY <1>1, <1>8, ConnectSmooth
<1>9. ASSUME NEW ok \in BOOLEAN, FnSendDeductReq(ok) PROVE Smooth'
  <2>1. ok = TRUE /\ faults = 0
    BY <1>2, <1>9, FaultCounts DEF FnSendDeductReq
  <2>2. Goes(eep, unit) /\ unit' = unit
    BY <1>9, <2>1 DEF FnSendDeductReq, Smooth, Stopped
  <2>3. "deduct" \in Calls /\ eep' = Post([eep EXCEPT !.open = @ \cup {"deduct"}], "enqueue", "deduct")
    BY <1>9, <2>1 DEF FnSendDeductReq, IInv
  <2> QED
    BY <1>1, <2>2, <2>3, AskSmooth
<1>10. ASSUME NEW timer \in Timers, Expire(timer) PROVE Smooth'
  BY <1>1, <1>10, ExpireSmooth
<1>11. ASSUME NEW c \in Calls, FnSend(c) PROVE Smooth'
  <2>1. Goes(eep, unit) /\ unit' = unit /\ eep' = Post([eep EXCEPT !.open = @ \cup {c}], "enqueue", c)
    BY <1>11 DEF FnSend, Smooth, Stopped
  <2> QED
    BY <1>1, <2>1, AskSmooth
<1>12. CASE FnEEPClientClose
  BY <1>12, CloseSmooth
<1>13. CASE UNCHANGED vars
  BY <1>13 DEF vars, Smooth
<1> QED
  BY <1>3, <1>4, <1>5, <1>6, <1>7, <1>8, <1>9, <1>10, <1>11, <1>12, <1>13 DEF Next

\* While no frame is lost and no timer races with what it guards, no request is reported as failed, whatever
\* the lane asks for and however the tasks of the thread EEP_IO interleave: no timer of
\* startAckTimer, startResponseTimer or startSend is left running, and no request overtakes the one under way.
THEOREM FaultlessNeverFails == Spec => []OnlyFaultsFail
<1>1. Init => Smooth
  BY InitSmooth
<1>2. IInv /\ Smooth /\ [Next]_vars => Smooth'
  BY EepAssumption, SmoothStep
<1>3. Smooth => OnlyFaultsFail
  BY DEF Smooth, Goes, OnlyFaultsFail
<1> QED
  BY <1>1, <1>2, <1>3, InvHolds, PTL DEF Spec

=============================================================================
