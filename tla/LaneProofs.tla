----------------------------- MODULE LaneProofs -----------------------------
(***************************************************************************)
(* Proofs about the antenna, the card reader that swallows cards and the   *)
(* parameters; and what they, and the proofs about the entry lane and the  *)
(* files, say of the parts of a station taken together: a step of another  *)
(* part leaves a part's invariant alone.                                   *)
(***************************************************************************)
EXTENDS Lane, FiniteSetTheorems, SequenceTheorems, TLAPS

------------------------------------------------------------------------------
\* The antenna: antenna.cpp.
\* The start of a loop is posted.
StartPosted(s) == \E i \in DOMAIN s.posts : s.posts[i] = "start"

\* What the loop and the request agree on between two steps: closing takes the request back; the start-up
\* and the loop never have a command on the port at once; a certain number is reported at once, and the
\* count of commands begins again before its limit.
Serves(s) ==
  /\ s.asked => s.at["loop"] # "off" \/ StartPosted(s)
  /\ s.stopping => ~s.asked
  /\ s.at["init"] # "pause"
  /\ s.at["init"] = "off" \/ s.at["loop"] \notin {"send", "read"}
  /\ s.okays < MinOKtimes
  /\ s.at["loop"] # "off" => s.sent < ReadLimit
  /\ ~s.stopping => s.calls <= AntennaCalls

AntennaInv(s) == s \in A!AntennaState /\ Serves(s)

------------------------------------------------------------------------------
\* A call of OP_IO goes behind what is posted; the thread takes the first.
LEMMA StartAppended ==
  ASSUME NEW q \in Seq({"start", "wake", "close"}), NEW p \in {"start", "wake", "close"}
  PROVE  /\ Append(q, p) \in Seq({"start", "wake", "close"})
         /\ (\E i \in DOMAIN q : q[i] = "start") => \E i \in DOMAIN Append(q, p) : Append(q, p)[i] = "start"
         /\ p = "start" => \E i \in DOMAIN Append(q, p) : Append(q, p)[i] = "start"
<1>1. /\ Append(q, p) \in Seq({"start", "wake", "close"}) /\ Len(q) \in Nat
      /\ DOMAIN q = 1..Len(q) /\ DOMAIN Append(q, p) = 1..(Len(q) + 1)
      /\ \A i \in 1..Len(q) : Append(q, p)[i] = q[i]
      /\ Append(q, p)[Len(q) + 1] = p
  OBVIOUS
<1> QED
  BY <1>1

LEMMA StartTailed ==
  ASSUME NEW q \in Seq({"start", "wake", "close"}), q # << >>
  PROVE  /\ Head(q) \in {"start", "wake", "close"}
         /\ Tail(q) \in Seq({"start", "wake", "close"})
         /\ (\E i \in DOMAIN q : q[i] = "start") => Head(q) = "start" \/ \E i \in DOMAIN Tail(q) : Tail(q)[i] = "start"
<1>1. /\ Tail(q) \in Seq({"start", "wake", "close"}) /\ Len(q) \in Nat /\ Len(q) > 0
      /\ Head(q) = q[1] /\ DOMAIN q = 1..Len(q) /\ DOMAIN Tail(q) = 1..(Len(q) - 1)
      /\ \A i \in 1..(Len(q) - 1) : Tail(q)[i] = q[i + 1]
  OBVIOUS
<1>2. ASSUME NEW i \in DOMAIN q, q[i] = "start", Head(q) # "start"
      PROVE  \E k \in DOMAIN Tail(q) : Tail(q)[k] = "start"
  <2>1. i - 1 \in 1..(Len(q) - 1) /\ (i - 1) + 1 = i
    BY <1>1, <1>2
  <2> QED
    BY <1>1, <1>2, <2>1
<1>3. q[1] \in {"start", "wake", "close"}
  BY <1>1
<1> QED
  BY <1>1, <1>2, <1>3

LEMMA AntennaInitServes ==
  ASSUME A!AntennaAssumption, A!AntennaInit
  PROVE  AntennaInv(A!a)
<1>1. PICK open \in BOOLEAN : antenna = [asked |-> FALSE, step |-> 0, attempt |-> 0, sent |-> 0, prev |-> A!NoUnit, okays |-> 0,
               at |-> [c \in A!Coroutines |-> IF c = "init" /\ open THEN "send" ELSE "off"],
               posts |-> << >>, stopping |-> FALSE, port |-> open, calls |-> 0,
               said |-> IF open THEN [e |-> "none", of |-> A!NoUnit] ELSE [e |-> "power", of |-> "no"]]
  BY DEF A!AntennaInit
<1>2. antenna.said \in A!Events
  BY <1>1 DEF A!Events, A!NoUnit
<1>3. antenna.at \in [A!Coroutines -> A!Stages]
  BY <1>1 DEF A!Stages
<1>4. << >> \in Seq({"start", "wake", "close"})
  OBVIOUS
<1>5. antenna.at["loop"] = "off" /\ antenna.at["init"] \in {"send", "off"}
  BY <1>1 DEF A!Coroutines
<1>6. antenna \in A!AntennaState
  <2>1. 0 \in 0..MaxRetry /\ 0 \in 0..ReadLimit /\ 0 \in 0..MinOKtimes /\ 0 \in 0..AntennaCalls + 1
    BY DEF A!AntennaAssumption
  <2> QED
    BY <1>1, <1>2, <1>3, <1>4, <2>1 DEF A!AntennaState
<1> QED
  BY <1>1, <1>5, <1>6 DEF A!AntennaAssumption, AntennaInv, Serves, A!a

------------------------------------------------------------------------------
\* The operators, one by one.
\* A coroutine goes to a stage, and the state is otherwise what the handler made it.
LEMMA GoesTypes ==
  ASSUME NEW s \in A!AntennaState, NEW c \in A!Coroutines, NEW stage \in A!Stages
  PROVE  /\ A!Goes(s, c, stage) \in A!AntennaState
         /\ \A f \in {"asked", "stopping", "port", "step", "attempt", "sent", "prev", "okays", "posts", "calls", "said"} :
              A!Goes(s, c, stage)[f] = s[f]
         /\ \A d \in A!Coroutines : A!Goes(s, c, stage).at[d] = IF d = c THEN stage ELSE s.at[d]
BY DEF A!Goes, A!AntennaState

LEMMA SayTypes ==
  ASSUME NEW s \in A!AntennaState, NEW e \in {"none", "power", "fail", "iu"}, NEW of \in Units \cup {A!NoUnit, "no", "yes", "1", "2"}
  PROVE  /\ A!Say(s, e, of) \in A!AntennaState
         /\ \A f \in {"asked", "stopping", "port", "step", "attempt", "sent", "prev", "okays", "posts", "calls", "at"} :
              A!Say(s, e, of)[f] = s[f]
BY DEF A!Say, A!AntennaState, A!Events

\* What a coroutine's step may leave, when the other one is not at the port.
LEMMA LoopGoesOn ==
  ASSUME NEW s \in A!AntennaState, s.stopping => ~s.asked, s.at["init"] # "pause", s.okays < MinOKtimes,
         s.sent < ReadLimit, ~s.stopping => s.calls <= AntennaCalls
  PROVE  AntennaInv(A!Pause(s))
<1>1. "loop" \in A!Coroutines /\ "init" \in A!Coroutines /\ {"pause", "off"} \subseteq A!Stages
  BY DEF A!Coroutines, A!Stages
<1>2. A!Pause(s) = A!Goes(s, "loop", IF s.asked /\ ~s.stopping THEN "pause" ELSE "off")
  BY DEF A!Pause
<1> QED
  BY <1>1, <1>2, GoesTypes DEF AntennaInv, Serves, StartPosted

\* Whatever came of a command of the loop, the loop goes on or ends.
LEMMA CountedServes ==
  ASSUME A!AntennaAssumption, NEW s \in A!AntennaState, NEW certain \in BOOLEAN,
         s.stopping => ~s.asked, s.at["init"] = "off", s.sent < ReadLimit,
         certain \/ s.okays < MinOKtimes, ~s.stopping => s.calls <= AntennaCalls
  PROVE  AntennaInv(A!Counted(s, certain))
<1>1. CASE certain
  <2> DEFINE counted == [s EXCEPT !.sent = @ + 1, !.prev = A!NoUnit, !.okays = 0]
             said == A!Say(counted, "iu", s.prev)
  <2>0. s.sent + 1 \in 0..ReadLimit /\ 0 \in 0..MinOKtimes
    BY DEF A!AntennaState, A!AntennaAssumption
  <2>1. counted \in A!AntennaState /\ counted.okays = 0 /\ counted.at = s.at /\ counted.asked = s.asked
        /\ counted.stopping = s.stopping /\ counted.calls = s.calls
    BY <2>0 DEF A!AntennaState
  <2>2. s.prev \in Units \cup {A!NoUnit}
    BY DEF A!AntennaState
  <2> HIDE DEF counted
  <2>3. said \in A!AntennaState /\ said.okays = 0 /\ said.at = s.at /\ said.calls = s.calls /\ said.stopping = s.stopping
    BY <2>1, <2>2, SayTypes
  <2>4. A!Goes(said, "loop", "off") \in A!AntennaState
        /\ A!Goes(said, "loop", "off").okays = 0 /\ A!Goes(said, "loop", "off").calls = s.calls
        /\ A!Goes(said, "loop", "off").stopping = s.stopping
        /\ A!Goes(said, "loop", "off").at["loop"] = "off" /\ A!Goes(said, "loop", "off").at["init"] = "off"
    BY <2>3, GoesTypes DEF A!Coroutines, A!Stages
  <2>5. AntennaInv(A!EndLoop(said))
    <3>1. 0 < MinOKtimes
      BY DEF A!AntennaAssumption
    <3> DEFINE t == A!Goes(said, "loop", "off")
               u == [t EXCEPT !.asked = FALSE]
    <3>2. t \in A!AntennaState /\ t.okays = 0 /\ t.calls = s.calls /\ t.stopping = s.stopping
          /\ t.at["loop"] = "off" /\ t.at["init"] = "off"
      BY <2>4
    <3> HIDE DEF t
    <3>3. u \in A!AntennaState /\ u.okays = t.okays /\ u.calls = t.calls /\ u.stopping = t.stopping
          /\ u.at = t.at /\ ~u.asked
      BY <3>2 DEF A!AntennaState
    <3>4. A!EndLoop(said) = u
      BY DEF A!EndLoop, u, t
    <3> HIDE DEF u
    <3> QED
      BY <3>1, <3>2, <3>3, <3>4 DEF AntennaInv, Serves
  <2> QED
    BY <1>1, <2>5 DEF A!Counted, counted, said
<1>2. CASE ~certain /\ s.sent + 1 >= ReadLimit
  <2> DEFINE counted == [s EXCEPT !.sent = 0]
  <2>0. 0 \in 0..ReadLimit
    BY DEF A!AntennaAssumption
  <2>1. counted \in A!AntennaState /\ counted.sent = 0 /\ counted.at = s.at /\ counted.asked = s.asked
        /\ counted.stopping = s.stopping /\ counted.calls = s.calls /\ counted.okays = s.okays
    BY <2>0 DEF A!AntennaState
  <2> HIDE DEF counted
  <2>2. LET said == A!Say(counted, "fail", "2")
        IN said \in A!AntennaState /\ said.okays = s.okays /\ said.at = s.at /\ said.calls = s.calls
           /\ said.stopping = s.stopping /\ said.asked = s.asked /\ said.sent = 0
    BY <2>1, SayTypes
  <2>3. AntennaInv(A!Pause(A!Say(counted, "fail", "2")))
    BY <1>2, <2>2, LoopGoesOn DEF A!AntennaAssumption
  <2> QED
    BY <1>2, <2>3 DEF A!Counted, counted
<1>3. CASE ~certain /\ ~(s.sent + 1 >= ReadLimit)
  <2> DEFINE counted == [s EXCEPT !.sent = @ + 1]
  <2>0. s.sent + 1 \in 0..ReadLimit /\ s.sent + 1 < ReadLimit
    BY <1>3 DEF A!AntennaState, A!AntennaAssumption
  <2>1. counted \in A!AntennaState /\ counted.sent < ReadLimit /\ counted.at = s.at /\ counted.asked = s.asked
        /\ counted.stopping = s.stopping /\ counted.calls = s.calls /\ counted.okays = s.okays
    BY <2>0 DEF A!AntennaState
  <2> HIDE DEF counted
  <2>2. AntennaInv(A!Pause(counted))
    BY <1>3, <2>1, LoopGoesOn
  <2> QED
    BY <1>3, <2>2 DEF A!Counted, counted
<1> QED
  BY <1>1, <1>2, <1>3

\* The start-up goes on or ends; the loop waits for its timer or is off.
LEMMA InitialisedServes ==
  ASSUME A!AntennaAssumption, NEW s, AntennaInv(s), NEW answer \in {"ack", "nak", "none"},
         s.at["loop"] \notin {"send", "read"}
  PROVE  AntennaInv(A!Initialised(s, answer))
<1>1. CASE answer = "ack" /\ s.step < 3
  <2> DEFINE t == A!Goes(s, "init", "send")
  <2>1. /\ t \in A!AntennaState /\ t.at["init"] = "send" /\ t.at["loop"] = s.at["loop"]
        /\ t.step = s.step /\ t.asked = s.asked /\ t.stopping = s.stopping /\ t.posts = s.posts
        /\ t.okays = s.okays /\ t.sent = s.sent /\ t.calls = s.calls
    BY GoesTypes DEF AntennaInv, A!Coroutines, A!Stages
  <2> HIDE DEF t
  <2>2. LET u == [t EXCEPT !.step = @ + 1, !.attempt = 0]
        IN /\ u \in A!AntennaState /\ u.at = t.at /\ u.asked = t.asked /\ u.stopping = t.stopping
           /\ u.posts = t.posts /\ u.okays = t.okays /\ u.sent = t.sent /\ u.calls = t.calls
    <3>1. t.step + 1 \in 0..3 /\ 0 \in 0..MaxRetry
      BY <1>1, <2>1 DEF A!AntennaState, A!AntennaAssumption
    <3> QED
      BY <2>1, <3>1 DEF A!AntennaState
  <2>3. A!Initialised(s, answer) = [t EXCEPT !.step = @ + 1, !.attempt = 0]
    BY <1>1 DEF A!Initialised, t
  <2> QED
    BY <2>1, <2>2, <2>3 DEF AntennaInv, Serves, StartPosted
<1>2. CASE ~(answer = "ack" /\ s.step < 3)
  <2> DEFINE t == A!Goes(s, "init", "off")
  <2>1. /\ t \in A!AntennaState /\ t.at["init"] = "off" /\ t.at["loop"] = s.at["loop"]
        /\ t.asked = s.asked /\ t.stopping = s.stopping /\ t.posts = s.posts
        /\ t.okays = s.okays /\ t.sent = s.sent /\ t.calls = s.calls
    BY GoesTypes DEF AntennaInv, A!Coroutines, A!Stages
  <2> HIDE DEF t
  <2>2. PICK of \in {"yes", "no"} : A!Initialised(s, answer) = A!Say(t, "power", of)
    BY <1>2 DEF A!Initialised, A!Powered, t
  <2>3. LET u == A!Say(t, "power", of)
        IN /\ u \in A!AntennaState /\ u.at = t.at /\ u.asked = t.asked /\ u.stopping = t.stopping
           /\ u.posts = t.posts /\ u.okays = t.okays /\ u.sent = t.sent /\ u.calls = t.calls
    BY <2>1, SayTypes
  <2> QED
    BY <2>1, <2>2, <2>3 DEF AntennaInv, Serves, StartPosted
<1> QED
  BY <1>1, <1>2

\* A coroutine that waits for its command has the port to itself.
AtPort(s, c) == c \in A!Coroutines /\ s.at[c] \in {"send", "read"}

LEMMA DoneServes ==
  ASSUME A!AntennaAssumption, NEW s, AntennaInv(s), NEW c, AtPort(s, c), NEW answer \in {"ack", "nak", "none"}
  PROVE  AntennaInv(A!Done(s, c, answer))
<1>1. CASE c = "init"
  BY <1>1, InitialisedServes DEF A!Done, AtPort, AntennaInv, Serves, A!Coroutines
<1>2. CASE c = "loop"
  <2>1. AntennaInv(A!Counted(s, FALSE))
    BY <1>2, CountedServes DEF AtPort, AntennaInv, Serves
  <2> QED
    BY <1>2, <2>1 DEF A!Done
<1> QED
  BY <1>1, <1>2 DEF AtPort, A!Coroutines

LEMMA RetryServes ==
  ASSUME A!AntennaAssumption, NEW s, AntennaInv(s), NEW c, AtPort(s, c)
  PROVE  AntennaInv(A!Retry(s, c))
<1>1. CASE s.stopping
  BY <1>1, DoneServes DEF A!Retry
<1>2. CASE ~s.stopping /\ s.attempt < MaxRetry
  <2> DEFINE t == A!Goes(s, c, "send")
  <2>1. /\ t \in A!AntennaState /\ \A d \in A!Coroutines : t.at[d] = IF d = c THEN "send" ELSE s.at[d]
    BY GoesTypes DEF AntennaInv, AtPort, A!Stages
  <2>2. /\ t.attempt = s.attempt /\ t.asked = s.asked /\ t.stopping = s.stopping /\ t.posts = s.posts
        /\ t.okays = s.okays /\ t.sent = s.sent /\ t.calls = s.calls
    BY GoesTypes DEF AntennaInv, AtPort, A!Stages
  <2> HIDE DEF t
  <2>3. LET u == [t EXCEPT !.attempt = @ + 1]
        IN /\ u \in A!AntennaState /\ u.at = t.at /\ u.asked = t.asked /\ u.stopping = t.stopping
           /\ u.posts = t.posts /\ u.okays = t.okays /\ u.sent = t.sent /\ u.calls = t.calls
    <3>1. t.attempt + 1 \in 0..MaxRetry
      BY <1>2, <2>1, <2>2 DEF A!AntennaState, A!AntennaAssumption
    <3> QED
      BY <2>1, <3>1 DEF A!AntennaState
  <2>4. A!Retry(s, c) = [t EXCEPT !.attempt = @ + 1]
    BY <1>2 DEF A!Retry, t
  <2> QED
    BY <2>1, <2>2, <2>3, <2>4 DEF AntennaInv, Serves, StartPosted, AtPort, A!Coroutines
<1>3. CASE ~s.stopping /\ ~(s.attempt < MaxRetry)
  <2> DEFINE t == A!Say(s, "fail", "1")
  <2>1. /\ t \in A!AntennaState /\ t.at = s.at /\ t.asked = s.asked /\ t.stopping = s.stopping /\ t.posts = s.posts
        /\ t.okays = s.okays /\ t.sent = s.sent /\ t.calls = s.calls
    BY SayTypes DEF AntennaInv
  <2> HIDE DEF t
  <2>2. AntennaInv(t) /\ AtPort(t, c)
    BY <2>1 DEF AntennaInv, Serves, StartPosted, AtPort
  <2>3. AntennaInv(A!Done(t, c, "none"))
    BY <2>2, DoneServes
  <2> QED
    BY <1>3, <2>3 DEF A!Retry, t
<1> QED
  BY <1>1, <1>2, <1>3

------------------------------------------------------------------------------
\* The coroutines' steps.
LEMMA PauseEndsServes ==
  ASSUME A!AntennaAssumption, AntennaInv(A!a), A!PauseEnds
  PROVE  AntennaInv(A!a')
<1>0. A!a' = (IF ~A!a.asked \/ A!a.stopping THEN A!Goes(A!a, "loop", "off")
            ELSE IF A!Executing(A!a) THEN A!a
            ELSE [A!Goes(A!a, "loop", "send") EXCEPT !.attempt = 0])
  BY DEF A!PauseEnds, A!Become, A!a
<1> DEFINE s == A!a
<1>1. s \in A!AntennaState /\ AntennaInv(s)
  BY DEF AntennaInv
<1> HIDE DEF s
<1>2. CASE ~s.asked \/ s.stopping
  <2>1. AntennaInv(A!Goes(s, "loop", "off"))
    BY <1>1, <1>2, GoesTypes DEF AntennaInv, Serves, StartPosted, A!Coroutines, A!Stages
  <2> QED
    BY <1>0, <1>2, <2>1 DEF s
<1>3. CASE s.asked /\ ~s.stopping /\ A!Executing(s)
  BY <1>0, <1>1, <1>3 DEF s
<1>4. CASE s.asked /\ ~s.stopping /\ ~A!Executing(s)
  <2> DEFINE t == A!Goes(s, "loop", "send")
  <2>1. /\ t \in A!AntennaState /\ t.at["loop"] = "send" /\ t.at["init"] = s.at["init"]
        /\ t.asked = s.asked /\ t.stopping = s.stopping /\ t.posts = s.posts
        /\ t.okays = s.okays /\ t.sent = s.sent /\ t.calls = s.calls
    BY <1>1, GoesTypes DEF A!Coroutines, A!Stages
  <2> HIDE DEF t
  <2>2. LET u == [t EXCEPT !.attempt = 0]
        IN /\ u \in A!AntennaState /\ u.at = t.at /\ u.asked = t.asked /\ u.stopping = t.stopping
           /\ u.posts = t.posts /\ u.okays = t.okays /\ u.sent = t.sent /\ u.calls = t.calls
    <3>1. 0 \in 0..MaxRetry
      BY DEF A!AntennaAssumption
    <3> QED
      BY <2>1, <3>1 DEF A!AntennaState
  <2>3. s.at["init"] = "off" /\ s.at["loop"] # "off"
    <3>1. s.at["init"] \in A!Stages
      BY <1>1 DEF A!AntennaState, A!Coroutines
    <3> QED
      BY <1>1, <1>4, <3>1 DEF A!Executing, AntennaInv, Serves, A!Coroutines, A!Stages, A!PauseEnds, s
  <2>4. s.sent < ReadLimit
    BY <1>1, <2>3 DEF AntennaInv, Serves
  <2>5. A!a' = [t EXCEPT !.attempt = 0]
    BY <1>0, <1>4 DEF s, t
  <2> QED
    BY <1>1, <2>1, <2>2, <2>3, <2>4, <2>5 DEF AntennaInv, Serves, StartPosted
<1> QED
  BY <1>2, <1>3, <1>4 DEF A!Executing

LEMMA CommandServes ==
  ASSUME A!AntennaAssumption, AntennaInv(A!a), NEW c \in A!Coroutines
  PROVE  /\ \A ok \in BOOLEAN : A!Send(c, ok) => AntennaInv(A!a')
         /\ A!NoResponse(c) => AntennaInv(A!a')
         /\ \A answer \in {"ack", "nak"} : A!Response(c, answer) => AntennaInv(A!a')
<1>1. ASSUME NEW ok \in BOOLEAN, A!Send(c, ok) PROVE AntennaInv(A!a')
  <2>1. AtPort(A!a, c) /\ A!a.at[c] = "send" /\ A!a' = IF ok THEN A!Goes(A!a, c, "read") ELSE A!Retry(A!a, c)
    BY <1>1 DEF A!Send, A!Become, AtPort, A!a
  <2>2. AntennaInv(A!Retry(A!a, c))
    BY <2>1, RetryServes
  <2>3. AntennaInv(A!Goes(A!a, c, "read"))
    BY <2>1, GoesTypes DEF AntennaInv, Serves, StartPosted, A!Stages, A!Coroutines
  <2> QED
    BY <2>1, <2>2, <2>3
<1>2. ASSUME A!NoResponse(c) PROVE AntennaInv(A!a')
  BY <1>2, RetryServes DEF A!NoResponse, A!Become, AtPort, A!a
<1>3. ASSUME NEW answer \in {"ack", "nak"}, A!Response(c, answer) PROVE AntennaInv(A!a')
  BY <1>3, DoneServes DEF A!Response, A!Become, AtPort, A!a
<1> QED
  BY <1>1, <1>2, <1>3

LEMMA NumberReadServes ==
  ASSUME A!AntennaAssumption, AntennaInv(A!a), NEW u \in Units, A!NumberRead(u)
  PROVE  AntennaInv(A!a')
<1> DEFINE s == A!a
           t == A!Number(s, u)
<1>1. s \in A!AntennaState /\ AntennaInv(s) /\ s.at["loop"] = "read" /\ s.at["init"] = "off"
  BY DEF AntennaInv, A!NumberRead, Serves
<1>2. A!a' = A!Counted(t, t.okays = MinOKtimes)
  BY DEF A!NumberRead, A!Become, A!a
<1> HIDE DEF s
<1>3. s.okays \in Nat /\ s.okays + 1 \in 0..MinOKtimes /\ 1 \in 0..MinOKtimes /\ 1 < MinOKtimes
  BY <1>1 DEF AntennaInv, Serves, A!AntennaState, A!AntennaAssumption
<1>4. /\ t \in A!AntennaState /\ t.at = s.at /\ t.asked = s.asked /\ t.stopping = s.stopping
      /\ t.sent = s.sent /\ t.calls = s.calls
  BY <1>1, <1>3 DEF A!Number, A!AntennaState
<1>5. t.okays \in 0..MinOKtimes
  BY <1>4 DEF A!AntennaState
<1> HIDE DEF t
<1>6. t.okays = MinOKtimes \/ t.okays < MinOKtimes
  BY <1>5 DEF A!AntennaAssumption
<1>7. AntennaInv(A!Counted(t, t.okays = MinOKtimes))
  BY <1>1, <1>4, <1>6, CountedServes DEF AntennaInv, Serves
<1> QED
  BY <1>2, <1>7

------------------------------------------------------------------------------
\* The calls of OP_IO, and what the thread does with them.
LEMMA CallTypes ==
  ASSUME NEW s \in A!AntennaState, s.calls <= AntennaCalls, A!AntennaAssumption, NEW p \in {"start", "wake", "close"}
  PROVE  /\ A!Post(s, p) \in A!AntennaState
         /\ StartPosted(s) \/ p = "start" => StartPosted(A!Post(s, p))
         /\ A!Post(s, p).calls = s.calls + 1
         /\ \A f \in {"asked", "stopping", "port", "step", "attempt", "sent", "prev", "okays", "at", "said"} :
              A!Post(s, p)[f] = s[f]
<1>1. s.posts \in Seq({"start", "wake", "close"}) /\ s.calls + 1 \in 0..AntennaCalls + 1
  BY DEF A!AntennaState, A!AntennaAssumption
<1>2. Append(s.posts, p) \in Seq({"start", "wake", "close"})
  BY <1>1, StartAppended
<1>3. A!Post(s, p).posts = Append(s.posts, p)
  BY DEF A!Post, A!AntennaState
<1>4. StartPosted(s) \/ p = "start" => StartPosted(A!Post(s, p))
  BY <1>1, <1>3, StartAppended DEF StartPosted
<1> QED
  BY <1>1, <1>2, <1>4 DEF A!Post, A!AntennaState

LEMMA CallServes ==
  ASSUME A!AntennaAssumption, AntennaInv(A!a)
  PROVE  /\ A!FnAntennaSendReadIUCmd => AntennaInv(A!a')
         /\ A!FnAntennaStopRead => AntennaInv(A!a')
         /\ A!FnAntennaShutdown => AntennaInv(A!a')
<1>1. ASSUME A!FnAntennaSendReadIUCmd PROVE AntennaInv(A!a')
  <2> DEFINE s == [A!a EXCEPT !.asked = TRUE]
  <2>1. /\ s \in A!AntennaState /\ s.calls = A!a.calls /\ s.at = A!a.at /\ s.okays = A!a.okays /\ s.sent = A!a.sent
        /\ s.stopping = A!a.stopping
    BY DEF AntennaInv, A!AntennaState
  <2>2. A!a' = A!Post(s, "start") /\ A!a.calls < AntennaCalls /\ ~A!a.stopping
    BY <1>1 DEF A!FnAntennaSendReadIUCmd, A!Become, A!a
  <2>3. A!a.calls \in Nat /\ A!a.calls + 1 <= AntennaCalls
    BY <2>2 DEF AntennaInv, A!AntennaState, A!AntennaAssumption
  <2> HIDE DEF s
  <2> QED
    BY <2>1, <2>2, <2>3, CallTypes DEF AntennaInv, Serves, A!AntennaAssumption
<1>2. ASSUME A!FnAntennaStopRead PROVE AntennaInv(A!a')
  <2> DEFINE s == [A!a EXCEPT !.asked = FALSE]
  <2>1. /\ s \in A!AntennaState /\ s.calls = A!a.calls /\ s.at = A!a.at /\ s.okays = A!a.okays /\ s.sent = A!a.sent
        /\ s.stopping = A!a.stopping /\ ~s.asked
    BY DEF AntennaInv, A!AntennaState
  <2>2. A!a' = A!Post(s, "wake") /\ A!a.calls < AntennaCalls /\ ~A!a.stopping
    BY <1>2 DEF A!FnAntennaStopRead, A!Become, A!a
  <2>3. A!a.calls \in Nat /\ A!a.calls + 1 <= AntennaCalls
    BY <2>2 DEF AntennaInv, A!AntennaState, A!AntennaAssumption
  <2> HIDE DEF s
  <2> QED
    BY <2>1, <2>2, <2>3, CallTypes DEF AntennaInv, Serves, A!AntennaAssumption
<1>3. ASSUME A!FnAntennaShutdown PROVE AntennaInv(A!a')
  <2> DEFINE s == A!Post(A!a, "close")
  <2>1. A!a' = [s EXCEPT !.stopping = TRUE, !.asked = FALSE] /\ A!a.calls <= AntennaCalls
    BY <1>3 DEF A!FnAntennaShutdown, A!Become, A!a, AntennaInv, Serves
  <2>2. s \in A!AntennaState /\ s.at = A!a.at /\ s.okays = A!a.okays /\ s.sent = A!a.sent
    BY <2>1, CallTypes DEF AntennaInv
  <2> HIDE DEF s
  <2>3. /\ A!a' \in A!AntennaState /\ A!a'.stopping /\ ~A!a'.asked /\ A!a'.at = s.at /\ A!a'.okays = s.okays /\ A!a'.sent = s.sent
    BY <2>1, <2>2 DEF A!AntennaState
  <2> QED
    BY <2>2, <2>3 DEF AntennaInv, Serves
<1> QED
  BY <1>1, <1>2, <1>3

LEMMA WakeServes ==
  ASSUME NEW s, AntennaInv(s)
  PROVE  AntennaInv(A!Wake(s))
BY LoopGoesOn DEF A!Wake, AntennaInv, Serves

LEMMA StartServes ==
  ASSUME A!AntennaAssumption, NEW s \in A!AntennaState, s.stopping => ~s.asked, s.at["init"] # "pause",
         s.at["init"] = "off" \/ s.at["loop"] \notin {"send", "read"}, s.okays < MinOKtimes,
         s.at["loop"] # "off" => s.sent < ReadLimit, ~s.stopping => s.calls <= AntennaCalls
  PROVE  AntennaInv(A!Start(s))
<1>1. CASE ~s.port
  <2> DEFINE t == [s EXCEPT !.asked = FALSE]
  <2>1. /\ t \in A!AntennaState /\ t.at = s.at /\ t.okays = s.okays /\ t.sent = s.sent /\ ~t.asked
        /\ t.stopping = s.stopping /\ t.calls = s.calls
    BY DEF A!AntennaState
  <2> QED
    BY <1>1, <2>1 DEF A!Start, AntennaInv, Serves
<1>2. CASE s.port /\ s.at["loop"] # "off"
  BY <1>2 DEF A!Start, AntennaInv, Serves
<1>3. CASE s.port /\ s.at["loop"] = "off"
  <2> DEFINE t == [s EXCEPT !.sent = 0]
  <2>0. 0 \in 0..ReadLimit /\ 0 < ReadLimit
    BY DEF A!AntennaAssumption
  <2>1. /\ t \in A!AntennaState /\ t.at = s.at /\ t.okays = s.okays /\ t.sent = 0 /\ t.asked = s.asked
        /\ t.stopping = s.stopping /\ t.calls = s.calls
    BY <2>0 DEF A!AntennaState
  <2>2. AntennaInv(A!Pause(t))
    BY <2>0, <2>1, LoopGoesOn
  <2> QED
    BY <1>3, <2>2 DEF A!Start
<1> QED
  BY <1>1, <1>2, <1>3

LEMMA RunPostServes ==
  ASSUME A!AntennaAssumption, AntennaInv(A!a), A!RunPost
  PROVE  AntennaInv(A!a')
<1> DEFINE s == [A!a EXCEPT !.posts = Tail(@)]
<1>1. /\ A!a.posts \in Seq({"start", "wake", "close"}) /\ A!a.posts # << >>
      /\ A!a' = CASE Head(A!a.posts) = "start" -> A!Start(s)
                [] Head(A!a.posts) = "wake" -> A!Wake(s)
                [] Head(A!a.posts) = "close" -> A!Wake([s EXCEPT !.asked = FALSE, !.port = FALSE])
  BY DEF A!RunPost, A!Become, A!a, AntennaInv, A!AntennaState
<1>2. /\ Head(A!a.posts) \in {"start", "wake", "close"} /\ Tail(A!a.posts) \in Seq({"start", "wake", "close"})
      /\ StartPosted(A!a) => Head(A!a.posts) = "start" \/ \E i \in DOMAIN Tail(A!a.posts) : Tail(A!a.posts)[i] = "start"
  BY <1>1, StartTailed DEF StartPosted
<1>3. /\ s \in A!AntennaState /\ s.posts = Tail(A!a.posts) /\ s.at = A!a.at /\ s.asked = A!a.asked /\ s.stopping = A!a.stopping
      /\ s.okays = A!a.okays /\ s.sent = A!a.sent /\ s.calls = A!a.calls
  BY <1>2 DEF AntennaInv, A!AntennaState
<1> HIDE DEF s
<1>4. CASE Head(A!a.posts) = "start"
  BY <1>1, <1>3, <1>4, StartServes DEF AntennaInv, Serves
<1>5. CASE Head(A!a.posts) = "wake"
  <2>1. AntennaInv(s)
    BY <1>2, <1>3, <1>5 DEF AntennaInv, Serves, StartPosted
  <2> QED
    BY <1>1, <1>5, <2>1, WakeServes
<1>6. CASE Head(A!a.posts) = "close"
  <2> DEFINE t == [s EXCEPT !.asked = FALSE, !.port = FALSE]
  <2>1. /\ t \in A!AntennaState /\ t.at = s.at /\ ~t.asked /\ t.stopping = s.stopping
        /\ t.okays = s.okays /\ t.sent = s.sent /\ t.calls = s.calls
    BY <1>3 DEF A!AntennaState
  <2> HIDE DEF t
  <2>2. AntennaInv(t)
    BY <1>3, <2>1 DEF AntennaInv, Serves
  <2> QED
    BY <1>1, <1>6, <2>2, WakeServes DEF t
<1> QED
  BY <1>2, <1>4, <1>5, <1>6

------------------------------------------------------------------------------
LEMMA AntennaStepServes ==
  ASSUME A!AntennaAssumption, AntennaInv(A!a), [A!AntennaNext]_antenna
  PROVE  AntennaInv(A!a')
<1>1. CASE A!Runs
  BY <1>1, RunPostServes, PauseEndsServes, CommandServes DEF A!Runs
<1>2. CASE \E c \in A!Coroutines, answer \in {"ack", "nak"} : A!Response(c, answer)
  BY <1>2, CommandServes
<1>3. CASE \E u \in Units : A!NumberRead(u)
  BY <1>3, NumberReadServes
<1>4. CASE A!FnAntennaSendReadIUCmd \/ A!FnAntennaStopRead \/ A!FnAntennaShutdown
  BY <1>4, CallServes
<1>5. CASE UNCHANGED antenna
  BY <1>5 DEF A!a
<1> QED
  BY <1>1, <1>2, <1>3, <1>4, <1>5 DEF A!AntennaNext

\* What agrees serves: a request has a loop or the start of one, alone on the port.
LEMMA InvServes == ASSUME AntennaInv(A!a) PROVE A!RequestIsServed
<1>1. \E c \in A!Coroutines : A!a.at[c] \notin {"send", "read"}
  BY DEF AntennaInv, Serves, A!Coroutines
<1>2. A!a.asked => A!a.at["loop"] # "off" \/ \E i \in DOMAIN A!a.posts : A!a.posts[i] = "start"
  BY DEF AntennaInv, Serves, StartPosted
<1> QED
  BY <1>1, <1>2 DEF A!RequestIsServed

------------------------------------------------------------------------------
\* The card reader that swallows cards: ksm_reader.cpp.
Readers ==
  [cmd : K!Cmds \cup {""}, queue : Seq(K!Cmds), late : K!Cmds \cup {""}, posts : Seq(K!Posts), events : Seq(K!Events),
   reading : BOOLEAN, presented : BOOLEAN, inside : 0..2, down : BOOLEAN, excused : BOOLEAN, mixed : BOOLEAN,
   stop : BOOLEAN, port : BOOLEAN, calls : 0..KsmCalls]

\* No two requests for the status are queued.
OneStatus(q) == \A i, j \in DOMAIN q : q[i] = "status" /\ q[j] = "status" => i = j

\* Polling is wanted, and nothing is known that ends it.
PollingWanted(s) == s.reading /\ ~s.presented /\ ~s.excused /\ s.port

\* A loop that was told to stop has no port.
KsmSane(s) == s \in Readers /\ OneStatus(s.queue) /\ (s.stop => ~s.port)

KsmInv(s) == KsmSane(s) /\ (PollingWanted(s) => s.cmd = "status" \/ K!Contains(s.queue, "status"))

\* What a command leaves behind goes on without it.
Handed(s) == KsmSane(s) /\ (PollingWanted(s) => K!Contains(s.queue, "status"))

LEMMA QueueParts ==
  ASSUME NEW T, NEW q \in Seq(T), NEW c \in T
  PROVE  /\ Append(q, c) \in Seq(T) /\ Len(q) \in Nat /\ DOMAIN q = 1..Len(q)
         /\ DOMAIN Append(q, c) = 1..(Len(q) + 1) /\ Len(Append(q, c)) = Len(q) + 1
         /\ \A i \in 1..Len(q) : Append(q, c)[i] = q[i] /\ q[i] \in T
         /\ Append(q, c)[Len(q) + 1] = c
  OBVIOUS

LEMMA TailParts ==
  ASSUME NEW T, NEW q \in Seq(T), q # << >>
  PROVE  /\ Head(q) \in T /\ Tail(q) \in Seq(T) /\ Len(q) \in Nat /\ Len(q) > 0 /\ Head(q) = q[1]
         /\ DOMAIN q = 1..Len(q) /\ DOMAIN Tail(q) = 1..(Len(q) - 1) /\ Len(Tail(q)) = Len(q) - 1
         /\ \A i \in 1..(Len(q) - 1) : Tail(q)[i] = q[i + 1]
  OBVIOUS

LEMMA AppendStatus ==
  ASSUME NEW q \in Seq(K!Cmds), NEW c \in K!Cmds, OneStatus(q), c = "status" => ~K!Contains(q, "status")
  PROVE  /\ Append(q, c) \in Seq(K!Cmds) /\ OneStatus(Append(q, c))
         /\ K!Contains(q, "status") \/ c = "status" => K!Contains(Append(q, c), "status")
<1>1. OneStatus(Append(q, c))
  <2> SUFFICES ASSUME NEW i \in 1..(Len(q) + 1), NEW j \in 1..(Len(q) + 1),
                      Append(q, c)[i] = "status", Append(q, c)[j] = "status"
               PROVE  i = j
    BY QueueParts DEF OneStatus
  <2>1. \A x \in 1..(Len(q) + 1) : x \in 1..Len(q) \/ x = Len(q) + 1
    BY QueueParts
  <2> QED
    BY <2>1, QueueParts DEF OneStatus, K!Contains
<1>2. ASSUME K!Contains(q, "status") PROVE K!Contains(Append(q, c), "status")
  <2>1. PICK i \in 1..Len(q) : q[i] = "status"
    BY <1>2 DEF K!Contains
  <2>2. i \in 1..(Len(q) + 1)
    BY QueueParts
  <2> QED
    BY <2>1, <2>2, QueueParts DEF K!Contains
<1>3. ASSUME c = "status" PROVE K!Contains(Append(q, c), "status")
  <2>1. Len(q) + 1 \in 1..(Len(q) + 1)
    BY QueueParts
  <2> QED
    BY <2>1, <1>3, QueueParts DEF K!Contains
<1> QED
  BY <1>1, <1>2, <1>3, QueueParts

LEMMA TailStatus ==
  ASSUME NEW q \in Seq(K!Cmds), q # << >>, OneStatus(q)
  PROVE  /\ Head(q) \in K!Cmds /\ Tail(q) \in Seq(K!Cmds) /\ OneStatus(Tail(q))
         /\ K!Contains(q, "status") => Head(q) = "status" \/ K!Contains(Tail(q), "status")
<1>1. OneStatus(Tail(q))
  <2> SUFFICES ASSUME NEW i \in 1..(Len(q) - 1), NEW j \in 1..(Len(q) - 1),
                      Tail(q)[i] = "status", Tail(q)[j] = "status"
               PROVE  i = j
    BY TailParts DEF OneStatus
  <2>1. i + 1 \in DOMAIN q /\ j + 1 \in DOMAIN q /\ q[i + 1] = "status" /\ q[j + 1] = "status"
    BY TailParts
  <2>2. i + 1 = j + 1
    BY <2>1 DEF OneStatus
  <2> QED
    BY <2>2
<1>2. ASSUME K!Contains(q, "status"), Head(q) # "status" PROVE K!Contains(Tail(q), "status")
  <2>1. PICK i \in 1..Len(q) : q[i] = "status"
    BY <1>2 DEF K!Contains
  <2>2. i - 1 \in 1..(Len(q) - 1) /\ (i - 1) + 1 = i
    BY <2>1, <1>2, TailParts
  <2>3. Tail(q)[i - 1] = "status" /\ i - 1 \in 1..Len(Tail(q))
    BY <2>1, <2>2, TailParts
  <2> QED
    BY <2>3 DEF K!Contains
<1> QED
  BY <1>1, <1>2, TailParts

\* Taking out the only one leaves none.
LEMMA RemoveStatus ==
  ASSUME NEW q \in Seq(K!Cmds), OneStatus(q)
  PROVE  /\ K!RemoveFirst(q, "status") \in Seq(K!Cmds)
         /\ ~K!Contains(K!RemoveFirst(q, "status"), "status")
<1> DEFINE I == {i \in 1..Len(q) : q[i] = "status"}
           m == K!SelectInSeq(q, LAMBDA v : v = "status")
<1>1. CASE I = {}
  <2>1. K!RemoveFirst(q, "status") = q
    BY <1>1 DEF K!RemoveFirst
  <2> QED
    BY <1>1, <2>1 DEF K!Contains
<1>2. CASE I # {}
  <2>1. PICK n \in I : TRUE
    BY <1>2
  <2>2. Len(q) \in Nat /\ DOMAIN q = 1..Len(q)
    OBVIOUS
  <2>3. I = {n}
    BY <2>1, <2>2 DEF OneStatus
  <2>4. m = n
    <3>1. m = K!Min(I)
      BY <1>2 DEF K!SelectInSeq
    <3>2. K!Min(I) = CHOOSE x \in {n} : \A y \in {n} : x =< y
      BY <2>3 DEF K!Min
    <3>3. n =< n
      BY <2>1, <2>2
    <3> QED
      BY <3>1, <3>2, <3>3
  <2>5. K!RemoveFirst(q, "status") = K!RemoveAt(q, n)
    BY <2>1, <2>4 DEF K!RemoveFirst
  <2>6. K!RemoveAt(q, n) = SubSeq(q, 1, n - 1) \o SubSeq(q, n + 1, Len(q))
    BY DEF K!RemoveAt
  <2> DEFINE s1 == SubSeq(q, 1, n - 1)
             s2 == SubSeq(q, n + 1, Len(q))
  <2>7. n \in 1..Len(q) /\ q[n] = "status"
    BY <2>1
  <2>8. s1 \in Seq(K!Cmds) /\ Len(s1) = n - 1 /\ \A i \in 1..(n - 1) : s1[i] = q[i]
    <3>1. 1 \in Int /\ n - 1 \in Int /\ \A i \in 1..(n - 1) : q[i] \in K!Cmds
      BY <2>7, <2>2
    <3>2. /\ s1 \in Seq(K!Cmds) /\ Len(s1) = IF 1 <= n - 1 THEN (n - 1) - 1 + 1 ELSE 0
          /\ \A i \in 1..((n - 1) - 1 + 1) : s1[i] = q[1 + i - 1]
      BY <3>1, SubSeqProperties
    <3> QED
      BY <3>2, <2>7, <2>2
  <2>9. s2 \in Seq(K!Cmds) /\ Len(s2) = Len(q) - n /\ \A i \in 1..(Len(q) - n) : s2[i] = q[n + i]
    <3>1. n + 1 \in Int /\ Len(q) \in Int /\ \A i \in (n + 1)..Len(q) : q[i] \in K!Cmds
      BY <2>7, <2>2
    <3>2. /\ s2 \in Seq(K!Cmds) /\ Len(s2) = IF n + 1 <= Len(q) THEN Len(q) - (n + 1) + 1 ELSE 0
          /\ \A i \in 1..(Len(q) - (n + 1) + 1) : s2[i] = q[(n + 1) + i - 1]
      BY <3>1, SubSeqProperties
    <3> HIDE DEF s2
    <3>3. n \in Int /\ Len(q) \in Int /\ n <= Len(q)
      BY <2>7, <2>2
    <3>4. Len(q) - (n + 1) + 1 = Len(q) - n
      BY <3>3
    <3>5. Len(s2) = Len(q) - n
      BY <3>2, <3>3
    <3>6. ASSUME NEW i \in 1..(Len(q) - n) PROVE s2[i] = q[n + i]
      <4>1. i \in Int /\ (n + 1) + i - 1 = n + i
        BY <3>3
      <4> QED
        BY <3>2, <3>4, <4>1
    <3> QED
      BY <3>2, <3>5, <3>6
  <2> HIDE DEF s1, s2, m, I
  <2>10. /\ s1 \o s2 \in Seq(K!Cmds) /\ Len(s1 \o s2) = Len(q) - 1
         /\ \A i \in 1..(Len(q) - 1) : (s1 \o s2)[i] = IF i <= n - 1 THEN s1[i] ELSE s2[i - (n - 1)]
    <3>1. Len(s1) + Len(s2) = Len(q) - 1
      BY <2>8, <2>9, <2>2, <2>7
    <3> QED
      BY <2>8, <2>9, <3>1, ConcatProperties
  <2>11. ASSUME NEW i \in 1..(Len(q) - 1) PROVE (s1 \o s2)[i] # "status"
    <3>1. CASE i <= n - 1
      <4>1. i \in 1..(n - 1) /\ i \in 1..Len(q) /\ i # n
        BY <3>1, <2>2, <2>7
      <4>2. q[i] # "status"
        BY <4>1, <2>7, <2>2 DEF OneStatus
      <4> QED
        BY <4>1, <4>2, <2>8, <2>10, <3>1
    <3>2. CASE ~(i <= n - 1)
      <4>1. i - (n - 1) \in 1..(Len(q) - n) /\ n + (i - (n - 1)) = i + 1 /\ i + 1 \in 1..Len(q) /\ i + 1 # n
        BY <3>2, <2>2, <2>7
      <4>2. q[i + 1] # "status"
        BY <4>1, <2>7, <2>2 DEF OneStatus
      <4> QED
        BY <4>1, <4>2, <2>9, <2>10, <3>2
    <3> QED
      BY <3>1, <3>2
  <2> QED
    BY <2>5, <2>6, <2>10, <2>11 DEF K!Contains, s1, s2
<1> QED
  BY <1>1, <1>2

------------------------------------------------------------------------------
\* The operators, one by one.
LEMMA ReaderTypes ==
  ASSUME NEW s \in Readers
  PROVE  /\ \A x \in K!Cmds \cup {""} : [s EXCEPT !.cmd = x] \in Readers /\ [s EXCEPT !.late = x] \in Readers
         /\ \A x \in BOOLEAN : /\ [s EXCEPT !.reading = x] \in Readers /\ [s EXCEPT !.presented = x] \in Readers
                              /\ [s EXCEPT !.down = x] \in Readers /\ [s EXCEPT !.excused = x] \in Readers
                              /\ [s EXCEPT !.mixed = x] \in Readers
         /\ \A x \in Seq(K!Cmds) : [s EXCEPT !.queue = x] \in Readers
         /\ \A x \in Seq(K!Posts) : [s EXCEPT !.posts = x] \in Readers
         /\ \A x \in Seq(K!Events) : [s EXCEPT !.events = x] \in Readers
         /\ \A x \in 0..2 : [s EXCEPT !.inside = x] \in Readers
BY DEF Readers

LEMMA EnqueueKeeps ==
  ASSUME NEW s \in Readers, NEW c \in K!Cmds, OneStatus(s.queue)
  PROVE  /\ K!Enqueue(s, c) \in Readers /\ OneStatus(K!Enqueue(s, c).queue)
         /\ K!Enqueue(s, c) = [s EXCEPT !.queue = K!Enqueue(s, c).queue]
         /\ K!Contains(s.queue, "status") => K!Contains(K!Enqueue(s, c).queue, "status")
         /\ s.port /\ c = "status" => K!Contains(K!Enqueue(s, c).queue, "status")
<1>1. s.queue \in Seq(K!Cmds) /\ s = [s EXCEPT !.queue = s.queue]
  BY DEF Readers
<1>2. CASE ~s.port \/ (c = "status" /\ K!Contains(s.queue, c))
  BY <1>1, <1>2 DEF K!Enqueue
<1>3. CASE ~(~s.port \/ (c = "status" /\ K!Contains(s.queue, c)))
  <2>1. K!Enqueue(s, c) = [s EXCEPT !.queue = Append(s.queue, c)]
    BY <1>3 DEF K!Enqueue
  <2>2. /\ Append(s.queue, c) \in Seq(K!Cmds) /\ OneStatus(Append(s.queue, c))
        /\ K!Contains(s.queue, "status") \/ c = "status" => K!Contains(Append(s.queue, c), "status")
    BY <1>1, <1>3, AppendStatus
  <2>3. [s EXCEPT !.queue = Append(s.queue, c)].queue = Append(s.queue, c)
    BY DEF Readers
  <2> QED
    BY <2>1, <2>2, <2>3, ReaderTypes
<1> QED
  BY <1>2, <1>3

LEMMA NoStatusKeeps ==
  ASSUME NEW s \in Readers, OneStatus(s.queue)
  PROVE  /\ K!NoStatus(s) \in Readers /\ OneStatus(K!NoStatus(s).queue)
         /\ K!NoStatus(s) = [s EXCEPT !.queue = K!NoStatus(s).queue]
<1>1. s.queue \in Seq(K!Cmds)
  BY DEF Readers
<1>2. K!NoStatus(s) = [s EXCEPT !.queue = K!RemoveFirst(s.queue, "status")]
  BY DEF K!NoStatus
<1>3. [s EXCEPT !.queue = K!RemoveFirst(s.queue, "status")].queue = K!RemoveFirst(s.queue, "status")
  BY DEF Readers
<1>4. OneStatus(K!RemoveFirst(s.queue, "status"))
  <2>1. K!RemoveFirst(s.queue, "status") \in Seq(K!Cmds) /\ ~K!Contains(K!RemoveFirst(s.queue, "status"), "status")
    BY <1>1, RemoveStatus
  <2> QED
    BY <2>1 DEF OneStatus, K!Contains
<1> QED
  BY <1>1, <1>2, <1>3, <1>4, RemoveStatus, ReaderTypes

\* OP_IO is told something.
LEMMA KsmSayKeeps ==
  ASSUME NEW s \in Readers, NEW e \in K!Events
  PROVE  K!Say(s, e) \in Readers /\ K!Say(s, e) = [s EXCEPT !.events = K!Say(s, e).events]
<1>1. s.events \in Seq(K!Events)
  BY DEF Readers
<1> DEFINE es == Append(s.events, e)
<1>2. es \in Seq(K!Events)
  BY <1>1
<1>3. K!Say(s, e) = [s EXCEPT !.events = es]
  BY DEF K!Say
<1> HIDE DEF es
<1>4. [s EXCEPT !.events = es] \in Readers
  BY <1>2, ReaderTypes
<1>5. [s EXCEPT !.events = es].events = es
  BY DEF Readers
<1> QED
  BY <1>3, <1>4, <1>5

\* A call of OP_IO is posted or, when the reader is closed, dropped.
LEMMA KsmPostKeeps ==
  ASSUME NEW s \in Readers, NEW c \in K!Posts
  PROVE  K!Post(s, c) \in Readers /\ K!Post(s, c) = [s EXCEPT !.posts = K!Post(s, c).posts]
<1>1. s.posts \in Seq(K!Posts) /\ s = [s EXCEPT !.posts = s.posts]
  BY DEF Readers
<1>2. Append(s.posts, c) \in Seq(K!Posts)
  BY <1>1
<1>3. CASE s.port /\ ~K!Contains(s.posts, "close") /\ ~s.stop
  <2>1. K!Post(s, c) = [s EXCEPT !.posts = Append(s.posts, c)]
    BY <1>3 DEF K!Post
  <2>2. [s EXCEPT !.posts = Append(s.posts, c)].posts = Append(s.posts, c)
    BY DEF Readers
  <2> QED
    BY <1>2, <2>1, <2>2, ReaderTypes
<1>4. CASE ~(s.port /\ ~K!Contains(s.posts, "close") /\ ~s.stop)
  BY <1>1, <1>4 DEF K!Post
<1> QED
  BY <1>3, <1>4

------------------------------------------------------------------------------
\* The commands and their answers.
LEMMA HandedOn ==
  ASSUME NEW s, Handed(s)
  PROVE  /\ \A c \in K!Cmds : Handed(K!Enqueue(s, c))
         /\ \A e \in K!Events : Handed(K!Say(s, e))
<1>1. s \in Readers /\ OneStatus(s.queue)
  BY DEF Handed, KsmSane
<1>2. ASSUME NEW c \in K!Cmds PROVE Handed(K!Enqueue(s, c))
  <2> DEFINE q == K!Enqueue(s, c).queue
  <2>1. /\ K!Enqueue(s, c) \in Readers /\ OneStatus(q) /\ K!Enqueue(s, c) = [s EXCEPT !.queue = q]
        /\ K!Contains(s.queue, "status") => K!Contains(q, "status")
    BY <1>1, EnqueueKeeps
  <2> HIDE DEF q
  <2>2. [s EXCEPT !.queue = q].queue = q
    BY <1>1 DEF Readers
  <2>3. KsmSane([s EXCEPT !.queue = q])
    BY <2>1, <2>2, <1>1 DEF Handed, KsmSane
  <2> QED
    BY <2>1, <2>2, <2>3, <1>1 DEF Handed, PollingWanted
<1>3. ASSUME NEW e \in K!Events PROVE Handed(K!Say(s, e))
  <2> DEFINE q == K!Say(s, e).events
  <2>1. K!Say(s, e) \in Readers /\ K!Say(s, e) = [s EXCEPT !.events = q]
    BY <1>1, KsmSayKeeps
  <2> HIDE DEF q
  <2> QED
    BY <2>1, <1>1 DEF Handed, KsmSane, PollingWanted, Readers
<1> QED
  BY <1>2, <1>3

LEMMA SaySane == ASSUME NEW s, KsmSane(s), NEW e \in K!Events PROVE KsmSane(K!Say(s, e)) /\ K!Say(s, e).cmd = s.cmd
<1> DEFINE q == K!Say(s, e).events
<1>1. s \in Readers
  BY DEF KsmSane
<1>2. K!Say(s, e) \in Readers /\ K!Say(s, e) = [s EXCEPT !.events = q]
  BY <1>1, KsmSayKeeps
<1> HIDE DEF q
<1> QED
  BY <1>1, <1>2 DEF KsmSane, Readers

\* Polling goes on behind a request for the status.
LEMMA PollAgainHands == ASSUME NEW s, KsmSane(s) PROVE Handed(K!PollAgain(s))
<1>1. CASE ~s.reading
  BY <1>1 DEF K!PollAgain, Handed, PollingWanted
<1>2. CASE s.reading
  <2> DEFINE q == K!Enqueue(s, "status").queue
  <2>1. s \in Readers /\ OneStatus(s.queue) /\ "status" \in K!Cmds
    BY DEF KsmSane, K!Cmds
  <2>2. /\ K!Enqueue(s, "status") \in Readers /\ OneStatus(q) /\ K!Enqueue(s, "status") = [s EXCEPT !.queue = q]
        /\ s.port => K!Contains(q, "status")
    BY <2>1, EnqueueKeeps
  <2>3. K!PollAgain(s) = K!Enqueue(s, "status")
    BY <1>2 DEF K!PollAgain
  <2> HIDE DEF q
  <2> DEFINE u == [s EXCEPT !.queue = q]
  <2>4. u.queue = q /\ u.port = s.port /\ u.stop = s.stop
    BY <2>1 DEF Readers
  <2>5. K!PollAgain(s) = u /\ u \in Readers
    BY <2>2, <2>3
  <2> HIDE DEF u
  <2>6. KsmSane(u)
    BY <2>2, <2>4, <2>5 DEF KsmSane
  <2> QED
    BY <2>2, <2>4, <2>5, <2>6 DEF Handed, PollingWanted
<1> QED
  BY <1>1, <1>2

LEMMA StatusHands == ASSUME NEW s, KsmSane(s), NEW answer PROVE Handed(K!Status(s, answer))
<1>1. s \in Readers /\ OneStatus(s.queue) /\ "in" \in K!Events /\ "taken" \in K!Events
  BY DEF KsmSane, K!Events
<1>2. CASE answer = "in" /\ s.presented
  BY <1>2 DEF K!Status, Handed, PollingWanted
<1>3. CASE answer = "in" /\ ~s.presented
  <2> DEFINE t == [s EXCEPT !.presented = TRUE, !.reading = FALSE]
             q == K!NoStatus(t).queue
  <2>1. t \in Readers /\ t.queue = s.queue /\ KsmSane(t) /\ ~t.reading
    BY <1>1 DEF Readers, KsmSane
  <2> HIDE DEF t
  <2>2. K!NoStatus(t) \in Readers /\ OneStatus(q) /\ K!NoStatus(t) = [t EXCEPT !.queue = q]
    BY <2>1, <1>1, NoStatusKeeps
  <2>3. K!Status(s, answer) = K!Say(K!NoStatus(t), "in")
    BY <1>3 DEF K!Status, t
  <2>4. Handed(K!NoStatus(t))
    <3> HIDE DEF q
    <3>1. ~[t EXCEPT !.queue = q].reading
      BY <2>1 DEF Readers
    <3>2. [t EXCEPT !.queue = q].queue = q /\ ([t EXCEPT !.queue = q].stop => ~[t EXCEPT !.queue = q].port)
      BY <2>1 DEF Readers, KsmSane
    <3> QED
      BY <2>1, <2>2, <3>1, <3>2 DEF Handed, KsmSane, PollingWanted
  <2> QED
    BY <2>3, <2>4, <1>1, HandedOn
<1>4. CASE answer = "none" /\ s.presented
  <2> DEFINE t == [s EXCEPT !.presented = FALSE, !.excused = TRUE]
  <2>1. Handed(t)
    BY <1>1 DEF Readers, KsmSane, Handed, PollingWanted
  <2>2. K!Status(s, answer) = K!Say(t, "taken")
    BY <1>4 DEF K!Status
  <2> QED
    BY <2>1, <2>2, <1>1, HandedOn
<1>5. CASE answer # "in" /\ ~(answer = "none" /\ s.presented)
  <2>1. K!Status(s, answer) = K!PollAgain(s)
    BY <1>5 DEF K!Status
  <2> QED
    BY <2>1, PollAgainHands
<1> QED
  BY <1>2, <1>3, <1>4, <1>5

\* OP_IO is told of a failure, and the status is asked for again.
LEMMA FailedHands == ASSUME NEW s, KsmSane(s), s.cmd = "status" \/ Handed(s) PROVE Handed(K!Failed(s))
<1> DEFINE told == K!Say(s, IF s.cmd \in DOMAIN K!Chain THEN "read_error" ELSE "error")
<1>1. (IF s.cmd \in DOMAIN K!Chain THEN "read_error" ELSE "error") \in K!Events
  BY DEF K!Events
<1>2. KsmSane(told) /\ (Handed(s) => Handed(told))
  BY <1>1, SaySane, HandedOn
<1>3. K!Failed(s) = IF s.cmd = "status" THEN K!PollAgain(told) ELSE told
  BY DEF K!Failed
<1> HIDE DEF told
<1> QED
  BY <1>2, <1>3, PollAgainHands

\* An answer is followed by the next command of the chain, if there is one.
LEMMA AnsweredHands ==
  ASSUME NEW s, KsmSane(s), NEW code \in K!Cmds, NEW status, code = "status" \/ Handed(s)
  PROVE  Handed(K!Answered(s, code, status))
<1> DEFINE c == IF code \in K!FileCmds THEN s.cmd ELSE code
           told == IF c = "balance" THEN K!Say(s, "card") ELSE IF c = "eject" THEN K!Say(s, "out")
                   ELSE IF c = "init" THEN K!Say(s, "init") ELSE s
<1>1. "status" \notin K!FileCmds /\ {"card", "out", "init"} \subseteq K!Events
  BY DEF K!FileCmds, K!Events
<1>2. CASE code \in K!FileCmds /\ s.cmd \notin K!FileCmds
  <2>1. Handed(s)
    BY <1>1, <1>2
  <2> QED
    BY <1>2, <2>1, FailedHands DEF K!Answered
<1>3. CASE ~(code \in K!FileCmds /\ s.cmd \notin K!FileCmds) /\ c = "status"
  BY <1>3, StatusHands DEF K!Answered
<1>4. CASE ~(code \in K!FileCmds /\ s.cmd \notin K!FileCmds) /\ c # "status"
  <2>1. Handed(s)
    BY <1>4, <1>1
  <2>2. Handed(told)
    BY <2>1, <1>1, HandedOn
  <2>3. K!Answered(s, code, status) = IF c \in DOMAIN K!Chain THEN K!Enqueue(told, K!Chain[c]) ELSE told
    BY <1>4 DEF K!Answered
  <2>4. \A x \in DOMAIN K!Chain : K!Chain[x] \in K!Cmds
    BY DEF K!Chain, K!Cmds
  <2> HIDE DEF told, c
  <2> QED
    BY <2>2, <2>3, <2>4, HandedOn
<1> QED
  BY <1>2, <1>3, <1>4

\* The loop ends the command.
LEMMA EndsKeeps == ASSUME NEW s, Handed(s), K!Ends(s) PROVE KsmInv(ksm')
<1>1. s \in Readers /\ ksm' = [s EXCEPT !.cmd = ""]
  BY DEF Handed, KsmSane, K!Ends, K!Become
<1> QED
  BY <1>1 DEF Handed, KsmSane, PollingWanted, KsmInv, Readers

------------------------------------------------------------------------------
\* The steps.
LEMMA TakeKeeps == ASSUME KsmInv(K!k), K!Take PROVE KsmInv(ksm')
<1>1. K!k \in Readers /\ K!k.queue \in Seq(K!Cmds) /\ K!k.queue # << >> /\ OneStatus(K!k.queue) /\ K!k.cmd = ""
  BY DEF KsmInv, KsmSane, Readers, K!Take
<1>2. /\ Head(K!k.queue) \in K!Cmds /\ Tail(K!k.queue) \in Seq(K!Cmds) /\ OneStatus(Tail(K!k.queue))
      /\ K!Contains(K!k.queue, "status") => Head(K!k.queue) = "status" \/ K!Contains(Tail(K!k.queue), "status")
  BY <1>1, TailStatus
<1>3. ksm' = [K!k EXCEPT !.cmd = Head(K!k.queue), !.queue = Tail(K!k.queue)]
  BY DEF K!Take, K!Become
<1>4. ksm' \in Readers
  <2>1. [K!k EXCEPT !.cmd = Head(K!k.queue)] \in Readers
    BY <1>1, <1>2, ReaderTypes
  <2> QED
    BY <1>2, <1>3, <2>1, ReaderTypes
<1>5. ksm'.queue = Tail(K!k.queue) /\ ksm'.cmd = Head(K!k.queue) /\ (PollingWanted(ksm') => PollingWanted(K!k))
  BY <1>1, <1>3 DEF Readers, PollingWanted
<1>6. ksm'.stop => ~ksm'.port
  BY <1>1, <1>3 DEF KsmInv, KsmSane, Readers
<1> QED
  BY <1>1, <1>2, <1>4, <1>5, <1>6 DEF KsmInv, KsmSane

\* What KsmInv needs of a state from which nothing but the posts, the events and OP_IO's own notes differ.
LEMMA OthersKeep ==
  ASSUME NEW s, KsmInv(s), NEW t \in Readers,
         \A f \in {"cmd", "queue", "reading", "presented", "excused", "stop", "port"} : t[f] = s[f]
  PROVE  KsmInv(t)
<1>1. t.cmd = s.cmd /\ t.queue = s.queue /\ t.stop = s.stop /\ t.port = s.port
      /\ t.reading = s.reading /\ t.presented = s.presented /\ t.excused = s.excused
  BY DEF Readers
<1> QED
  BY <1>1 DEF KsmInv, KsmSane, PollingWanted

LEMMA AnswerKeeps == ASSUME KsmInv(K!k), NEW status, K!Answer(status) PROVE KsmInv(ksm')
<1>1. KsmSane(K!k) /\ K!k.cmd \in K!Cmds /\ (K!k.cmd = "status" \/ Handed(K!k))
  BY DEF KsmInv, KsmSane, Readers, K!Answer, Handed
<1> QED
  BY <1>1, AnsweredHands, EndsKeeps DEF K!Answer

LEMMA LateAnswerKeeps == ASSUME KsmInv(K!k), NEW status, K!LateAnswer(status) PROVE KsmInv(ksm')
<1> DEFINE s == [K!k EXCEPT !.late = "", !.mixed = TRUE, !.excused = TRUE]
<1>1. K!k \in Readers /\ K!k.late \in K!Cmds /\ KsmSane(K!k)
  BY DEF KsmInv, KsmSane, Readers, K!LateAnswer
<1>2. s \in Readers /\ s.excused /\ s.queue = K!k.queue /\ s.stop = K!k.stop /\ s.port = K!k.port
  BY <1>1 DEF Readers
<1>3. K!Ends(K!Answered(s, K!k.late, status))
  BY DEF K!LateAnswer
<1> HIDE DEF s
<1>4. KsmSane(s) /\ Handed(s)
  BY <1>1, <1>2 DEF KsmSane, Handed, PollingWanted
<1> QED
  BY <1>1, <1>3, <1>4, AnsweredHands, EndsKeeps

LEMMA NoAnswerKeeps == ASSUME KsmInv(K!k), NEW late \in BOOLEAN, K!NoAnswer(late) PROVE KsmInv(ksm')
<1>1. K!k \in Readers /\ KsmSane(K!k) /\ K!k.cmd \in K!Cmds \cup {""}
  BY DEF KsmInv, KsmSane, Readers
<1>2. CASE K!k.stop
  <2>1. Handed(K!k)
    BY <1>1, <1>2 DEF Handed, KsmSane, PollingWanted
  <2> QED
    BY <1>2, <2>1, EndsKeeps DEF K!NoAnswer
<1>3. CASE ~K!k.stop
  <2> DEFINE x == IF late THEN K!k.cmd ELSE K!Failed(K!k).late
             t == [K!Failed(K!k) EXCEPT !.late = x]
  <2>1. K!Ends(t)
    BY <1>3 DEF K!NoAnswer
  <2>2. Handed(K!Failed(K!k))
    BY FailedHands DEF KsmInv, Handed
  <2>3. K!Failed(K!k) \in Readers /\ x \in K!Cmds \cup {""}
    BY <1>1, <2>2 DEF Handed, KsmSane, Readers
  <2> HIDE DEF x
  <2>4. Handed(t)
    <3> DEFINE u == K!Failed(K!k)
    <3>1. u \in Readers /\ Handed(u) /\ t = [u EXCEPT !.late = x]
      BY <2>2, <2>3
    <3> HIDE DEF u, t
    <3>2. t \in Readers
      BY <2>3, <3>1, ReaderTypes
    <3>3. t.queue = u.queue /\ t.stop = u.stop /\ t.port = u.port /\ (PollingWanted(t) => PollingWanted(u))
      BY <3>1 DEF Readers, PollingWanted
    <3> QED
      BY <3>1, <3>2, <3>3 DEF Handed, KsmSane
  <2> QED
    BY <2>1, <2>4, EndsKeeps
<1> QED
  BY <1>2, <1>3

\* A command that goes into the queue leaves a request for the status there.
LEMMA EnqueueInv ==
  ASSUME NEW s, KsmSane(s), NEW c \in K!Cmds, KsmInv(s) \/ c = "status"
  PROVE  KsmInv(K!Enqueue(s, c)) /\ KsmSane(K!Enqueue(s, c))
<1> DEFINE q == K!Enqueue(s, c).queue
<1>1. s \in Readers /\ OneStatus(s.queue)
  BY DEF KsmSane
<1>2. /\ K!Enqueue(s, c) \in Readers /\ OneStatus(q) /\ K!Enqueue(s, c) = [s EXCEPT !.queue = q]
      /\ K!Contains(s.queue, "status") => K!Contains(q, "status")
      /\ s.port /\ c = "status" => K!Contains(q, "status")
  BY <1>1, EnqueueKeeps
<1> HIDE DEF q
<1>3. [s EXCEPT !.queue = q].queue = q /\ [s EXCEPT !.queue = q].cmd = s.cmd
      /\ [s EXCEPT !.queue = q].port = s.port /\ [s EXCEPT !.queue = q].stop = s.stop
      /\ (PollingWanted([s EXCEPT !.queue = q]) => PollingWanted(s) /\ s.port)
  BY <1>1 DEF Readers, PollingWanted
<1>4. KsmSane([s EXCEPT !.queue = q])
  BY <1>1, <1>2, <1>3 DEF KsmSane
<1> QED
  BY <1>2, <1>3, <1>4 DEF KsmInv

\* What another thread posted.
LEMMA PostedKeeps == ASSUME NEW s, KsmInv(s), NEW c \in K!Posts PROVE KsmInv(K!Posted(s, c))
<1>1. s \in Readers /\ KsmSane(s) /\ OneStatus(s.queue) /\ {"allowed", "status", "prohibited"} \subseteq K!Cmds
  BY DEF KsmInv, KsmSane, K!Cmds
<1>2. CASE c = "enable"
  <2> DEFINE t == [s EXCEPT !.reading = TRUE, !.excused = FALSE]
  <2>1. KsmSane(t)
    BY <1>1 DEF KsmSane, Readers
  <2>2. K!Posted(s, c) = K!Enqueue(K!Enqueue(t, "allowed"), "status")
    BY <1>2 DEF K!Posted
  <2> HIDE DEF t
  <2>3. KsmSane(K!Enqueue(t, "allowed"))
    <3> DEFINE q == K!Enqueue(t, "allowed").queue
    <3>1. t \in Readers /\ OneStatus(t.queue)
      BY <2>1 DEF KsmSane
    <3>2. /\ K!Enqueue(t, "allowed") \in Readers /\ OneStatus(q) /\ K!Enqueue(t, "allowed") = [t EXCEPT !.queue = q]
      BY <3>1, <1>1, EnqueueKeeps
    <3> HIDE DEF q
    <3> QED
      BY <3>1, <3>2, <2>1 DEF KsmSane, Readers
  <2> QED
    BY <2>2, <2>3, <1>1, EnqueueInv
<1>3. CASE c = "disable"
  <2> DEFINE t == [s EXCEPT !.reading = FALSE]
             q == K!NoStatus(t).queue
  <2>1. t \in Readers /\ OneStatus(t.queue) /\ ~t.reading /\ (t.stop => ~t.port)
    BY <1>1 DEF KsmSane, Readers
  <2>2. K!Posted(s, c) = K!Enqueue(K!NoStatus(t), "prohibited")
    BY <1>3 DEF K!Posted
  <2> HIDE DEF t
  <2>3. K!NoStatus(t) \in Readers /\ OneStatus(q) /\ K!NoStatus(t) = [t EXCEPT !.queue = q]
    BY <2>1, NoStatusKeeps
  <2> HIDE DEF q
  <2>4. KsmSane(K!NoStatus(t)) /\ ~K!NoStatus(t).reading
    BY <2>1, <2>3 DEF KsmSane, Readers
  <2>5. KsmInv(K!NoStatus(t))
    BY <2>4 DEF KsmInv, PollingWanted
  <2> QED
    BY <2>2, <2>4, <2>5, <1>1, EnqueueInv
<1>4. CASE c = "start"
  <2> DEFINE t == [s EXCEPT !.reading = TRUE]
  <2>1. KsmSane(t)
    BY <1>1 DEF KsmSane, Readers
  <2>2. K!Posted(s, c) = K!Enqueue(t, "status")
    BY <1>4 DEF K!Posted
  <2> HIDE DEF t
  <2> QED
    BY <2>1, <2>2, <1>1, EnqueueInv
<1>5. CASE c = "close"
  <2> DEFINE t == [s EXCEPT !.stop = TRUE, !.reading = FALSE, !.queue = << >>, !.port = FALSE]
  <2>1. << >> \in Seq(K!Cmds)
    OBVIOUS
  <2>2. t \in Readers /\ t.queue = << >> /\ ~t.port
    BY <1>1, <2>1 DEF Readers
  <2>3. K!Posted(s, c) = t
    BY <1>5 DEF K!Posted, K!Stopped
  <2>4. OneStatus(<< >>)
    BY DEF OneStatus
  <2> HIDE DEF t
  <2> QED
    BY <2>2, <2>3, <2>4 DEF KsmInv, KsmSane, PollingWanted
<1>6. CASE c \notin {"enable", "disable", "start", "close"}
  <2>1. K!Posted(s, c) = K!Enqueue(s, c) /\ c \in K!Cmds
    BY <1>6 DEF K!Posted, K!Posts
  <2> QED
    BY <2>1, <1>1, EnqueueInv
<1> QED
  BY <1>2, <1>3, <1>4, <1>5, <1>6

LEMMA RunPostKeeps == ASSUME KsmInv(K!k), K!RunPost PROVE KsmInv(ksm')
<1>1. K!k \in Readers /\ K!k.posts \in Seq(K!Posts) /\ K!k.posts # << >>
  BY DEF KsmInv, KsmSane, Readers, K!RunPost
<1>2. Head(K!k.posts) \in K!Posts /\ Tail(K!k.posts) \in Seq(K!Posts)
  BY <1>1, TailParts
<1> DEFINE t == [K!k EXCEPT !.posts = Tail(K!k.posts)]
<1>3. ksm' = K!Posted(t, Head(K!k.posts))
  BY DEF K!RunPost, K!Become
<1>4. KsmInv(t)
  <2>1. t \in Readers
    BY <1>1, <1>2, ReaderTypes
  <2>2. \A f \in {"cmd", "queue", "reading", "presented", "excused", "stop", "port"} : t[f] = K!k[f]
    BY <1>1 DEF Readers
  <2> HIDE DEF t
  <2> QED
    BY <2>1, <2>2, OthersKeep
<1> HIDE DEF t
<1> QED
  BY <1>2, <1>3, <1>4, PostedKeeps

\* OP_IO posts a command, whatever it notes of the reader.
LEMMA NotedKeeps ==
  ASSUME NEW s, KsmInv(s), NEW down \in BOOLEAN, NEW inside \in 0..2
  PROVE  /\ KsmInv([s EXCEPT !.down = down]) /\ KsmInv([s EXCEPT !.inside = inside])
         /\ KsmInv([s EXCEPT !.inside = inside, !.down = down])
<1>1. s \in Readers
  BY DEF KsmInv, KsmSane
<1>2. [s EXCEPT !.down = down] \in Readers /\ [s EXCEPT !.inside = inside] \in Readers
      /\ [s EXCEPT !.inside = inside, !.down = down] \in Readers
  BY <1>1 DEF Readers
<1> QED
  BY <1>1, <1>2, OthersKeep DEF Readers

LEMMA PostInv == ASSUME NEW s, KsmInv(s), NEW c \in K!Posts PROVE KsmInv(K!Post(s, c))
<1> DEFINE q == K!Post(s, c).posts
<1>1. s \in Readers
  BY DEF KsmInv, KsmSane
<1>2. K!Post(s, c) \in Readers /\ K!Post(s, c) = [s EXCEPT !.posts = q]
  BY <1>1, KsmPostKeeps
<1> HIDE DEF q
<1>3. \A f \in {"cmd", "queue", "reading", "presented", "excused", "stop", "port"} : [s EXCEPT !.posts = q][f] = s[f]
  BY <1>1 DEF Readers
<1> QED
  BY <1>2, <1>3, OthersKeep

LEMMA HandledKeeps ==
  ASSUME NEW s, KsmInv(s), NEW e \in K!Events, NEW fit \in BOOLEAN, NEW paid \in BOOLEAN
  PROVE  KsmInv(K!Handled(s, e, fit, paid))
<1>1. {"on_ic", "start", "eject", "disable"} \subseteq K!Posts
  BY DEF K!Posts, K!Cmds, K!Chain
<1>2. 1 \in 0..2 /\ 2 \in 0..2
  OBVIOUS
<1>3. CASE e = "init"
  BY <1>3, NotedKeeps, <1>2 DEF K!Handled
<1>4. CASE e = "in"
  BY <1>4, <1>1, <1>2, NotedKeeps, PostInv DEF K!Handled
<1>5. CASE e = "out" \/ e = "read_error"
  BY <1>5, <1>1, PostInv DEF K!Handled
<1>6. CASE e = "card"
  BY <1>6, <1>1, <1>2, NotedKeeps, PostInv DEF K!Handled
<1>7. CASE e = "error"
  BY <1>7, NotedKeeps, <1>2 DEF K!Handled
<1>8. CASE e = "taken"
  BY <1>8, <1>1, <1>2, NotedKeeps, PostInv DEF K!Handled
<1> QED
  BY <1>3, <1>4, <1>5, <1>6, <1>7, <1>8 DEF K!Events

LEMMA HandlesKeeps == ASSUME KsmInv(K!k), K!Handles PROVE KsmInv(ksm')
<1>1. PICK fit \in BOOLEAN, paid \in BOOLEAN : K!HandleEvent(fit, paid)
  BY DEF K!Handles
<1>2. K!k \in Readers /\ K!k.events \in Seq(K!Events) /\ K!k.events # << >>
  BY <1>1 DEF KsmInv, KsmSane, Readers, K!HandleEvent
<1>3. Head(K!k.events) \in K!Events /\ Tail(K!k.events) \in Seq(K!Events)
  BY <1>2, TailParts
<1> DEFINE t == [K!k EXCEPT !.events = Tail(K!k.events)]
<1>4. ksm' = K!Handled(t, Head(K!k.events), fit, paid)
  BY <1>1 DEF K!HandleEvent, K!Become
<1>5. KsmInv(t)
  <2>1. t \in Readers
    BY <1>2, <1>3, ReaderTypes
  <2>2. \A f \in {"cmd", "queue", "reading", "presented", "excused", "stop", "port"} : t[f] = K!k[f]
    BY <1>2 DEF Readers
  <2> HIDE DEF t
  <2> QED
    BY <2>1, <2>2, OthersKeep
<1> HIDE DEF t
<1> QED
  BY <1>3, <1>4, <1>5, HandledKeeps

\* A call is counted.
LEMMA CallsKeep ==
  ASSUME KsmCalls \in Nat, NEW s, KsmInv(s), s.calls < KsmCalls
  PROVE  KsmInv(K!Calls(s))
<1>1. s \in Readers /\ K!Calls(s) \in Readers
  <2>1. s \in Readers /\ s.calls \in 0..KsmCalls
    BY DEF KsmInv, KsmSane, Readers
  <2>2. s.calls + 1 \in 0..KsmCalls
    BY <2>1
  <2> QED
    BY <2>1, <2>2 DEF Readers, K!Calls
<1>2. \A f \in {"cmd", "queue", "reading", "presented", "excused", "stop", "port"} : K!Calls(s)[f] = s[f]
  BY <1>1 DEF Readers, K!Calls
<1> QED
  BY <1>1, <1>2, OthersKeep

LEMMA LaneCalls ==
  ASSUME KsmCalls \in Nat, KsmInv(K!k),
         K!CheckReader \/ K!Clearme \/ K!FnKSMReaderClose \/ \E enable \in BOOLEAN : K!EnableKDE(enable)
  PROVE  KsmInv(ksm')
<1>1. {"enable", "eject", "disable", "init", "close"} \subseteq K!Posts
  BY DEF K!Posts, K!Cmds, K!Chain
<1>2. \A c \in K!Posts : KsmInv(K!Post(K!k, c)) /\ K!Post(K!k, c).calls = K!k.calls
  <2> SUFFICES ASSUME NEW c \in K!Posts PROVE KsmInv(K!Post(K!k, c)) /\ K!Post(K!k, c).calls = K!k.calls
    OBVIOUS
  <2> DEFINE q == K!Post(K!k, c).posts
  <2>1. K!k \in Readers /\ KsmInv(K!Post(K!k, c))
    BY PostInv DEF KsmInv, KsmSane
  <2>2. K!Post(K!k, c) = [K!k EXCEPT !.posts = q]
    BY <2>1, KsmPostKeeps
  <2> HIDE DEF q
  <2> QED
    BY <2>1, <2>2 DEF Readers
<1>3. CASE K!CheckReader
  BY <1>1, <1>2, <1>3, CallsKeep DEF K!CheckReader, K!Become
<1>4. CASE K!Clearme
  <2>1. 0 \in 0..2
    OBVIOUS
  <2> QED
    BY <1>4, <2>1, NotedKeeps DEF K!Clearme, K!Become
<1>5. CASE K!FnKSMReaderClose
  BY <1>1, <1>2, <1>5 DEF K!FnKSMReaderClose, K!Become
<1>6. ASSUME NEW enable \in BOOLEAN, K!EnableKDE(enable) PROVE KsmInv(ksm')
  BY <1>1, <1>2, <1>6, CallsKeep DEF K!EnableKDE, K!Become
<1> QED
  BY <1>3, <1>4, <1>5, <1>6

LEMMA KsmStepKeeps == ASSUME KsmCalls \in Nat, KsmInv(K!k), [K!KsmNext]_ksm PROVE KsmInv(ksm')
<1>1. CASE K!KsmNext
  BY <1>1, TakeKeeps, RunPostKeeps, HandlesKeeps, NoAnswerKeeps, AnswerKeeps, LateAnswerKeeps, LaneCalls DEF K!KsmNext
<1>2. CASE UNCHANGED ksm
  BY <1>2 DEF K!k
<1> QED
  BY <1>1, <1>2

LEMMA KsmInitKeeps == ASSUME KsmCalls \in Nat, K!KsmInit PROVE KsmInv(ksm)
<1>1. PICK open \in BOOLEAN :
        ksm = [cmd |-> "", queue |-> << >>, late |-> "", posts |-> IF open THEN <<"init">> ELSE << >>,
               events |-> << >>, reading |-> FALSE, presented |-> FALSE, inside |-> 0, down |-> ~open,
               excused |-> FALSE, mixed |-> FALSE, stop |-> FALSE, port |-> open, calls |-> 0]
  BY DEF K!KsmInit
<1>2. "init" \in K!Posts
  BY DEF K!Posts, K!Cmds, K!Chain
<1>3. << >> \in Seq(K!Cmds) /\ << >> \in Seq(K!Posts) /\ << >> \in Seq(K!Events) /\ <<"init">> \in Seq(K!Posts)
  BY <1>2
<1>4. 0 \in 0..2 /\ 0 \in 0..KsmCalls
  OBVIOUS
<1>5. ksm \in Readers
  BY <1>1, <1>3, <1>4 DEF Readers
<1>6. ksm.queue = << >> /\ ~ksm.reading /\ ~ksm.stop
  BY <1>1
<1>7. OneStatus(<< >>)
  BY DEF OneStatus
<1> QED
  BY <1>5, <1>6, <1>7 DEF KsmInv, KsmSane, PollingWanted

LEMMA InvPolls == ASSUME KsmInv(ksm) PROVE K!KsmTypeOK /\ K!PollingIsKept
<1>1. ksm \in Readers
  BY DEF KsmInv, KsmSane
<1>2. K!KsmTypeOK
  BY <1>1 DEF Readers, K!KsmTypeOK, K!k
<1>3. K!PollingIsKept
  BY <1>1 DEF KsmInv, KsmSane, OneStatus, PollingWanted, K!PollingIsKept, K!k
<1> QED
  BY <1>2, <1>3

------------------------------------------------------------------------------
\* The parameters: db.cpp.
ParamStates ==
  [table : Tables, central : [Rows -> Nat], fetched : SUBSET Rows, local : SUBSET (Rows \X Nat),
   memory : SUBSET (Rows \X Nat), job : P!Jobs, remoteErr : BOOLEAN, clean : BOOLEAN, lost : SUBSET Rows,
   edits : 0..MaxEdits, faults : 0..MaxFaults, restarts : 0..MaxRestarts]

Rec(s) == P!recipes[s.table]

\* The row of the central database is there, and no other in its place.
Has(s, set, r) == P!Versions(set, r) = {<<r, s.central[r]>>}
Stored(s) == \A r \in Rows \ s.lost : Has(s, s.local, r)

\* A row that is marked as fetched is stored, unless the mark lost it.
Marks(s) ==
  /\ \A r \in s.fetched \ s.lost : Has(s, s.local, r)
  /\ Rec(s).pending = "table" => s.fetched \in {{}, Rows}
  /\ Rec(s).pending = "all" => s.fetched = {}

\* The tables whose load downloads once more if nothing is stored.
Again == {"tariff", "typeinfo", "xtariff", "holiday"}

\* Which downloads there are, and what their stages have done.
Planned(s) ==
  /\ s.job.stage \in {"clear", "select", "rows", "flag"} /\ s.job.by = "load" => s.table \in Again
  /\ s.table = "season" => s.job.stage # "load"
  /\ s.job.by = "monitor" => s.table = "parameter"
  /\ s.job.stage = "clear" => Rec(s).clear = "first"
  /\ s.job.stage = "select" /\ Rec(s).clear = "first" => s.local = {}
  /\ s.job.stage = "rows" /\ Rec(s).pending = "row" => s.job.todo \cap s.fetched = {}
  /\ s.job.stage = "flag" => Rec(s).pending = "table" /\ s.job.by # "load"
  /\ Rec(s).pending = "table" /\ s.job.stage \in {"rows", "flag"} /\ s.job.by # "load" => s.fetched = {}
  /\ Rec(s).pending = "table" /\ s.job.stage \in {"select", "rows"} /\ s.job.by = "load" => s.fetched \subseteq s.lost

\* What a download that nothing disturbed has reached, stage by stage.
Rereads(s) ==
  s.job.stage \in {"clear", "select", "rows"} /\ s.job.by = "load" =>
    Rows \subseteq s.lost /\ (Rec(s).pending = "table" => s.fetched = Rows)
Writes(s) ==
  s.job.stage = "rows" /\ s.job.by # "load" =>
    /\ ~s.remoteErr /\ \A r \in s.job.todo : s.job.got[r] = s.central[r]
    /\ Rec(s).pending = "row" => Rows \subseteq s.fetched \cup s.job.todo
    /\ Rec(s).pending # "row" =>
         /\ \A r \in Rows \ s.job.todo : Has(s, s.local, r)
         /\ Rec(s).clear # "never" => \A r \in s.job.todo : P!Versions(s.local, r) = {}
         /\ s.job.count > 0 \/ Rows \subseteq s.job.todo
Flags(s) == s.job.stage = "flag" => \A r \in Rows : Has(s, s.local, r)
Ended(s) ==
  s.job.stage \in {"load", "idle"} =>
    /\ Rec(s).pending # "all" => s.fetched = Rows
    /\ s.job.stage = "load" => Stored(s)
Use(s) == IF Rec(s).use = "local" THEN s.local ELSE s.memory
Arrived(s) ==
  s.job.stage = "idle" =>
    \A r \in Rows \ s.lost : <<r, s.central[r]>> \in Use(s) /\ (Rec(s).use # "list" => Has(s, Use(s), r))
Undisturbed(s) == Rereads(s) /\ Writes(s) /\ Flags(s) /\ Ended(s) /\ Arrived(s)

ParamInv(s) == s \in ParamStates /\ Marks(s) /\ Planned(s) /\ (s.clean => Undisturbed(s))

LEMMA Recipes ==
  ASSUME NEW t \in Tables
  PROVE  /\ t \in {"season", "vehicletype", "ledmessage", "parameter", "stationsetup", "tariff", "typeinfo",
                   "xtariff", "holiday", "tr"}
         /\ P!recipes[t].pending = IF t \in {"season", "ledmessage", "parameter"} THEN "row"
                                 ELSE IF t = "holiday" THEN "table" ELSE "all"
         /\ P!recipes[t].clear = IF t \in {"tariff", "typeinfo", "xtariff"} THEN "first"
                               ELSE IF t = "holiday" THEN "found" ELSE "never"
         /\ P!recipes[t].use = IF t = "season" THEN "local" ELSE IF t \in {"vehicletype", "tr"} THEN "list" ELSE "copy"
<1>1. t \in {"season", "vehicletype", "ledmessage", "parameter", "stationsetup", "tariff", "typeinfo",
             "xtariff", "holiday", "tr"}
  BY ParamAssumption DEF P!recipes
<1> QED
  BY <1>1 DEF P!recipes, P!Recipe, P!downloadseason, P!downloadvehicletype, P!downloadledmessage, P!downloadparameter,
              P!downloadstationsetup, P!downloadtariffsetup, P!downloadtarifftypeinfo, P!downloadxtariff,
              P!downloadholidaymst, P!downloadTR

\* What is stored of a row after another, or the row itself, was written.
LEMMA UpsertStores ==
  ASSUME NEW set, NEW r, NEW v
  PROVE  /\ P!Versions(P!Upsert(set, r, v), r) = {<<r, v>>}
         /\ \A q : q # r => P!Versions(P!Upsert(set, r, v), q) = P!Versions(set, q)
BY DEF P!Versions, P!Upsert

LEMMA InsertStores ==
  ASSUME NEW set, NEW r, NEW v
  PROVE  /\ P!Versions(set, r) = {} => P!Versions(P!Insert(set, r, v), r) = {<<r, v>>}
         /\ \A q : q # r => P!Versions(P!Insert(set, r, v), q) = P!Versions(set, q)
BY DEF P!Versions, P!Insert

LEMMA WrittenTypes ==
  ASSUME NEW s \in ParamStates, params = s, NEW r \in Rows
  PROVE  /\ P!Written(r) \in SUBSET (Rows \X Nat)
         /\ \A q \in Rows : q # r => P!Versions(P!Written(r), q) = P!Versions(s.local, q)
         /\ s.job.by # "load" /\ (Rec(s).clear # "never" => P!Versions(s.local, r) = {}) =>
              P!Versions(P!Written(r), r) = {<<r, s.job.got[r]>>}
         /\ Rec(s).pending = "row" => P!Versions(P!Written(r), r) = {<<r, s.job.got[r]>>}
<1> DEFINE v == s.job.got[r]
<1>1. s.table \in Tables /\ s.local \in SUBSET (Rows \X Nat) /\ v \in Nat
  BY DEF ParamStates, P!Jobs
<1>2. \A set \in SUBSET (Rows \X Nat), x \in Nat : P!Upsert(set, r, x) \in SUBSET (Rows \X Nat) /\ P!Insert(set, r, x) \in SUBSET (Rows \X Nat)
  BY DEF P!Upsert, P!Versions, P!Insert
<1>3. CASE Rec(s).clear = "never"
  <2>1. s.table \in {"season", "vehicletype", "ledmessage", "parameter", "stationsetup", "tr"}
    BY <1>1, <1>3, Recipes DEF Rec
  <2>2. P!Written(r) = P!Upsert(s.local, r, v)
    <3>1. CASE s.table \in {"season", "vehicletype", "ledmessage"}
      BY <3>1 DEF P!Written, P!p, P!writeseason2local, P!writevehicletype2local, P!writeledmessage2local
    <3>2. CASE s.table = "parameter"
      BY <3>2 DEF P!Written, P!p, P!writeparameter2local
    <3>3. CASE s.table = "stationsetup"
      BY <3>3 DEF P!Written, P!p, P!writestationsetup2local
    <3>4. CASE s.table = "tr"
      BY <3>4, SMTT(30) DEF P!Written, P!p, P!writetr2local
    <3> QED
      BY <2>1, <3>1, <3>2, <3>3, <3>4
  <2>3. P!Written(r) \in SUBSET (Rows \X Nat)
    BY <2>2, <1>1, <1>2
  <2>4. P!Versions(P!Written(r), r) = {<<r, v>>} /\ \A q : q # r => P!Versions(P!Written(r), q) = P!Versions(s.local, q)
    BY <2>2, UpsertStores
  <2> QED
    BY <2>3, <2>4
<1>4. CASE Rec(s).clear # "never" /\ ~(s.table = "tariff" /\ s.job.by = "load")
  <2>1. P!Written(r) = P!Insert(s.local, r, v) /\ Rec(s).pending # "row"
    BY <1>1, <1>4, Recipes DEF P!Written, Rec, P!p, P!writetariffsetup2local, P!writetarifftypeinfo2local, P!writextariff2local,
       P!writeholidaymst2local
  <2> QED
    BY <2>1, <1>1, <1>2, <1>4, InsertStores
<1>5. CASE s.table = "tariff" /\ s.job.by = "load"
  <2>1. P!Written(r) = P!Insert(P!Insert(s.local, r, v), r, 0) /\ Rec(s).pending # "row"
    BY <1>1, <1>5, Recipes DEF P!Written, Rec, P!p, P!writetariffsetup2local
  <2>2. P!Insert(s.local, r, v) \in SUBSET (Rows \X Nat)
    BY <1>1, <1>2
  <2> QED
    BY <2>1, <2>2, <1>1, <1>2, <1>5, InsertStores
<1> QED
  BY <1>3, <1>4, <1>5

------------------------------------------------------------------------------
\* What ends a download, whatever became of it.
LEMMA StageTypes ==
  ASSUME NEW s \in ParamStates, NEW x \in {"idle", "clear", "select", "rows", "flag", "load"}
  PROVE  /\ P!Stage(s, x) \in ParamStates /\ P!Stage(s, x).job.stage = x
         /\ \A f \in {"table", "central", "fetched", "local", "memory", "remoteErr", "clean", "lost", "edits", "faults",
                       "restarts"} : P!Stage(s, x)[f] = s[f]
         /\ \A f \in {"by", "got", "todo", "count", "again"} : P!Stage(s, x).job[f] = s.job[f]
BY DEF P!Stage, ParamStates, P!Jobs

LEMMA IdleTypes ==
  ASSUME NEW s \in ParamStates
  PROVE  /\ P!Idle \in P!Jobs /\ P!Idle.stage = "idle" /\ P!Idle.by = "load" /\ [s EXCEPT !.job = P!Idle] \in ParamStates
         /\ [s EXCEPT !.job = P!Idle].job = P!Idle
         /\ \A f \in {"table", "central", "fetched", "local", "memory", "remoteErr", "clean", "lost", "edits", "faults",
                       "restarts"} : [s EXCEPT !.job = P!Idle][f] = s[f]
<1>1. P!Idle \in P!Jobs /\ P!Idle.stage = "idle" /\ P!Idle.by = "load"
  BY DEF P!Idle, P!Jobs
<1> QED
  BY <1>1 DEF ParamStates

\* The state a download ends in: either something disturbed it, or the rows are stored.
Ready(s) ==
  /\ s \in ParamStates /\ Marks(s)
  /\ s.job.by = "load" => s.table \in Again
  /\ s.job.by = "monitor" => s.table = "parameter"
  /\ s.clean => /\ Stored(s) /\ (Rec(s).pending # "all" => s.fetched = Rows)
                /\ s.job.by = "monitor" => ~s.remoteErr
                /\ s.job.by = "request" /\ Rec(s).clear = "first" => s.job.count > 0 \/ Rows \subseteq s.lost

LEMMA IdleKeeps ==
  ASSUME NEW s \in ParamStates, Marks(s),
         s.clean => /\ Rec(s).pending # "all" => s.fetched = Rows
                    /\ \A r \in Rows \ s.lost :
                         <<r, s.central[r]>> \in Use(s) /\ (Rec(s).use # "list" => Has(s, Use(s), r))
  PROVE  ParamInv([s EXCEPT !.job = P!Idle])
<1> DEFINE t == [s EXCEPT !.job = P!Idle]
<1>1. /\ t \in ParamStates /\ t.job.stage = "idle" /\ t.job.by = "load" /\ t.table = s.table /\ t.central = s.central
      /\ t.fetched = s.fetched /\ t.local = s.local /\ t.memory = s.memory /\ t.clean = s.clean /\ t.lost = s.lost
  BY IdleTypes
<1> HIDE DEF t
<1>2. Marks(t)
  BY <1>1 DEF Marks, Has, Rec
<1>3. Planned(t)
  BY <1>1 DEF Planned
<1>4. t.clean => Undisturbed(t)
  BY <1>1 DEF Undisturbed, Rereads, Writes, Flags, Ended, Arrived, Use, Has, Rec
<1> QED
  BY <1>1, <1>2, <1>3, <1>4 DEF ParamInv, t

LEMMA LoadKeeps ==
  ASSUME NEW s \in ParamStates, Marks(s), s.table # "season", s.job.by = "monitor" => s.table = "parameter",
         s.clean => Stored(s) /\ (Rec(s).pending # "all" => s.fetched = Rows)
  PROVE  ParamInv(P!Stage(s, "load"))
<1> DEFINE t == P!Stage(s, "load")
<1>1. /\ t \in ParamStates /\ t.job.stage = "load" /\ t.job.by = s.job.by /\ t.table = s.table /\ t.central = s.central
      /\ t.fetched = s.fetched /\ t.local = s.local /\ t.clean = s.clean /\ t.lost = s.lost
  BY StageTypes
<1> HIDE DEF t
<1>2. Marks(t)
  BY <1>1 DEF Marks, Has, Rec
<1>3. Planned(t)
  BY <1>1 DEF Planned
<1>4. t.clean => Undisturbed(t)
  BY <1>1 DEF Undisturbed, Rereads, Writes, Flags, Ended, Arrived, Stored, Has, Rec
<1> QED
  BY <1>1, <1>2, <1>3, <1>4 DEF ParamInv, t

LEMMA DownloadedKeeps ==
  ASSUME NEW s, params.table = s.table, Ready(s)
  PROVE  ParamInv(P!Downloaded(s))
<1> DEFINE Loads == \/ s.job.by = "load"
                    \/ s.job.by = "request" /\ s.table \in {"vehicletype", "ledmessage", "parameter", "stationsetup", "holiday", "tr"}
                    \/ s.job.by = "request" /\ Rec(s).use # "local" /\ s.job.count > 0
                    \/ s.job.by = "monitor" /\ ~s.remoteErr
<1>1. P!Downloaded(s) = IF Loads THEN P!Stage(s, "load") ELSE [s EXCEPT !.job = P!Idle]
  BY DEF P!Downloaded, Rec, P!recipe, P!p, Ready
<1>2. s \in ParamStates /\ s.table \in Tables /\ s.job.by \in {"request", "monitor", "load"} /\ s.job.count \in Nat
  BY DEF Ready, ParamStates, P!Jobs
<1>3. CASE Loads
  <2>1. s.table # "season"
    BY <1>2, <1>3, Recipes DEF Ready, Again, Rec
  <2> QED
    BY <1>1, <1>2, <1>3, <2>1, LoadKeeps DEF Ready
<1>4. CASE ~Loads
  <2>1. ASSUME s.clean, NEW r \in Rows \ s.lost
        PROVE  <<r, s.central[r]>> \in Use(s) /\ (Rec(s).use # "list" => Has(s, Use(s), r))
    <3>1. s.job.by = "request" /\ s.table \notin {"vehicletype", "ledmessage", "parameter", "stationsetup", "holiday", "tr"}
      BY <1>2, <1>4, <2>1 DEF Ready
    <3>2. s.table = "season" /\ Use(s) = s.local
      BY <1>2, <1>4, <2>1, <3>1, Recipes DEF Ready, Use, Rec
    <3>3. Has(s, s.local, r)
      BY <2>1 DEF Ready, Stored
    <3> QED
      BY <3>2, <3>3 DEF Has, P!Versions
  <2> QED
    BY <1>1, <1>2, <1>4, <2>1, IdleKeeps DEF Ready
<1> QED
  BY <1>3, <1>4

------------------------------------------------------------------------------
\* The steps of a download.
LEMMA FailsTypes ==
  ASSUME NEW s \in ParamStates, s.faults < MaxFaults
  PROVE  /\ P!Fails(s) \in ParamStates /\ ~P!Fails(s).clean
         /\ \A f \in {"table", "central", "fetched", "local", "memory", "job", "remoteErr", "lost", "edits", "restarts"} :
              P!Fails(s)[f] = s[f]
<1>1. s.faults \in 0..MaxFaults /\ MaxFaults \in Nat
  BY ParamAssumption DEF ParamStates
<1>2. s.faults + 1 \in 0..MaxFaults
  BY <1>1
<1> QED
  BY <1>2 DEF P!Fails, ParamStates

LEMMA StartTypes ==
  ASSUME NEW s \in ParamStates, params.table = s.table, NEW by \in {"request", "monitor", "load"}
  PROVE  /\ P!StartDownload(s, by) \in ParamStates /\ P!StartDownload(s, by).job.by = by
         /\ P!StartDownload(s, by).job.stage = IF Rec(s).clear = "first" THEN "clear" ELSE "select"
         /\ \A f \in {"table", "central", "fetched", "local", "memory", "remoteErr", "clean", "lost", "edits", "faults",
                       "restarts"} : P!StartDownload(s, by)[f] = s[f]
<1> DEFINE j == [P!Idle EXCEPT !.by = by, !.again = by = "load"]
           t == [s EXCEPT !.job = j]
<1>1. j \in P!Jobs /\ j.by = by
  BY DEF P!Idle, P!Jobs
<1> HIDE DEF j
<1>2. /\ t \in ParamStates /\ t.job = j
      /\ \A f \in {"table", "central", "fetched", "local", "memory", "remoteErr", "clean", "lost", "edits", "faults",
                    "restarts"} : t[f] = s[f]
  BY <1>1 DEF ParamStates
<1>3. P!StartDownload(s, by) = P!Stage(t, IF Rec(s).clear = "first" THEN "clear" ELSE "select")
  BY DEF P!StartDownload, Rec, P!recipe, P!p, j
<1> HIDE DEF t
<1> QED
  BY <1>1, <1>2, <1>3, StageTypes

LEMMA RequestKeeps == ASSUME ParamInv(P!p), NEW by \in {"request", "monitor"}, P!Request(by) PROVE ParamInv(params')
<1> DEFINE s == [P!p EXCEPT !.clean = TRUE]
           t == P!StartDownload(s, by)
<1>1. /\ P!p \in ParamStates /\ s \in ParamStates /\ s.table = P!p.table /\ s.local = P!p.local /\ s.fetched = P!p.fetched
      /\ s.central = P!p.central /\ s.lost = P!p.lost
  BY DEF ParamInv, ParamStates
<1>2. params' = t
  BY DEF P!Request, P!Become
<1> HIDE DEF s
<1>3. /\ t \in ParamStates /\ t.job.by = by /\ t.job.stage = IF Rec(P!p).clear = "first" THEN "clear" ELSE "select"
      /\ t.table = P!p.table /\ t.local = P!p.local /\ t.fetched = P!p.fetched /\ t.central = P!p.central /\ t.lost = P!p.lost
  BY <1>1, StartTypes DEF P!p, Rec
<1> HIDE DEF t
<1>4. Marks(t)
  BY <1>3 DEF ParamInv, Marks, Has, Rec
<1>5. Planned(t)
  BY <1>3 DEF Planned, Rec, P!Request
<1>6. Undisturbed(t)
  BY <1>3 DEF Undisturbed, Rereads, Writes, Flags, Ended, Arrived
<1> QED
  BY <1>2, <1>3, <1>4, <1>5, <1>6 DEF ParamInv

\* A download that something disturbed may end anywhere.
LEMMA FailedKeeps ==
  ASSUME NEW s \in ParamStates, params.table = s.table, Marks(s), ~s.clean,
         s.job.by = "load" => s.table \in Again, s.job.by = "monitor" => s.table = "parameter"
  PROVE  ParamInv(P!Downloaded(s))
BY DownloadedKeeps DEF Ready

LEMMA ClearKeeps == ASSUME ParamInv(P!p), P!Clear PROVE ParamInv(params')
<1>1. P!p \in ParamStates /\ P!p.job.stage = "clear" /\ Marks(P!p) /\ Planned(P!p) /\ P!p.table \in Tables
  BY DEF ParamInv, P!Clear, ParamStates
<1>2. Rec(P!p).clear = "first" /\ Rec(P!p).pending = "all"
  BY <1>1, Recipes DEF Planned, Rec
<1>3. ASSUME params' = P!Stage([P!p EXCEPT !.local = {}], "select") PROVE ParamInv(params')
  <2> DEFINE s == [P!p EXCEPT !.local = {}]
  <2>1. /\ s \in ParamStates /\ s.table = P!p.table /\ s.local = {} /\ s.fetched = P!p.fetched /\ s.job = P!p.job
        /\ s.central = P!p.central /\ s.lost = P!p.lost /\ s.clean = P!p.clean
    BY <1>1 DEF ParamStates
  <2>2. params' = P!Stage(s, "select")
    BY <1>3
  <2> HIDE DEF s
  <2> DEFINE t == P!Stage(s, "select")
  <2>3. /\ t \in ParamStates /\ t.job.by = P!p.job.by /\ t.job.stage = "select" /\ t.table = P!p.table /\ t.local = {}
        /\ t.fetched = P!p.fetched /\ t.lost = P!p.lost /\ t.clean = P!p.clean
    BY <2>1, StageTypes
  <2> HIDE DEF t
  <2>4. t.fetched = {} /\ Rec(t) = Rec(P!p)
    BY <1>1, <1>2, <2>3 DEF Marks, Rec
  <2>5. Marks(t)
    BY <1>2, <2>4 DEF Marks
  <2>6. Planned(t)
    BY <1>1, <1>2, <2>3, <2>4 DEF Planned
  <2>7. t.clean => Undisturbed(t)
    BY <1>1, <1>2, <2>3, <2>4 DEF ParamInv, Undisturbed, Rereads, Writes, Flags, Ended, Arrived
  <2> QED
    BY <2>2, <2>3, <2>5, <2>6, <2>7 DEF ParamInv, t
<1>4. ASSUME P!MayFail, params' = P!Downloaded(P!Fails(P!p)) PROVE ParamInv(params')
  <2> DEFINE s == P!Fails(P!p)
  <2>1. /\ s \in ParamStates /\ ~s.clean /\ s.table = P!p.table /\ s.job = P!p.job
        /\ s.fetched = P!p.fetched /\ s.lost = P!p.lost /\ s.local = P!p.local /\ s.central = P!p.central
    BY <1>1, <1>4, FailsTypes DEF P!MayFail
  <2> HIDE DEF s
  <2>2. Marks(s)
    BY <1>1, <2>1 DEF Marks, Has, Rec
  <2> QED
    BY <1>1, <1>4, <2>1, <2>2, FailedKeeps DEF Planned, P!p, s
<1> QED
  BY <1>3, <1>4 DEF P!Clear, P!Become

\* A select that is kept leaves rows to be written.
LEMMA SelectKeeps == ASSUME ParamInv(P!p), NEW rows \in SUBSET Rows, P!Select(rows) PROVE ParamInv(params')
<1>1. P!p \in ParamStates /\ P!p.job.stage = "select" /\ Marks(P!p) /\ Planned(P!p) /\ P!p.table \in Tables /\ P!p.job \in P!Jobs
  BY DEF ParamInv, P!Select, ParamStates
<1> DEFINE got == [P!p EXCEPT !.remoteErr = FALSE, !.job.todo = rows,
                            !.job.got = [r \in Rows |-> IF r \in rows THEN P!p.central[r] ELSE 0],
                            !.clean = @ /\ (Rec(P!p).pending = "row" => rows = Rows \ P!p.fetched)]
           kept == [got EXCEPT !.local = IF Rec(P!p).clear = "found" THEN {} ELSE @]
<1>2. /\ got \in ParamStates /\ got.table = P!p.table /\ got.local = P!p.local /\ got.fetched = P!p.fetched /\ got.lost = P!p.lost
      /\ got.central = P!p.central /\ ~got.remoteErr /\ got.job.by = P!p.job.by /\ got.job.count = P!p.job.count
      /\ got.job.todo = rows /\ \A r \in rows : got.job.got[r] = P!p.central[r]
      /\ got.clean = (P!p.clean /\ (Rec(P!p).pending = "row" => rows = Rows \ P!p.fetched))
  BY <1>1 DEF ParamStates, P!Jobs
<1>3. \/ params' = P!Stage(kept, "rows")
      \/ Rec(P!p).clear = "found" /\ P!MayFail /\ params' = P!Stage(P!Fails(got), "rows")
  BY DEF P!Select, P!Become, Rec, P!recipe
<1>4. /\ Rec(P!p).pending = "row" => rows \subseteq Rows \ P!p.fetched
      /\ Rec(P!p).pending # "row" => rows = Rows
      /\ ~(Rec(P!p).pending = "table" /\ P!p.job.by # "load" /\ P!p.fetched = Rows)
  BY DEF P!Select, P!Taken, P!NothingFlagged, Rec, P!recipe
<1> HIDE DEF got
\* What is left of the local table does not matter to the marks.
<1>5. ASSUME NEW t \in ParamStates, t.table = P!p.table, t.central = P!p.central, t.fetched = P!p.fetched, t.lost = P!p.lost,
             t.job.stage = "rows", t.job.by = P!p.job.by, t.job.todo = rows,
             t.local = P!p.local \/ Rec(P!p).clear = "found"
      PROVE  Marks(t) /\ Planned(t)
  <2>1. Rec(t) = Rec(P!p)
    BY <1>5 DEF Rec
  <2>2. Rec(P!p).pending = "table" => P!p.fetched \subseteq P!p.lost
    BY <1>1, <1>4 DEF Marks, Planned
  <2>3. Rec(P!p).clear = "found" => Rec(P!p).pending = "table"
    BY <1>1, Recipes DEF Rec
  <2>4. Marks(t)
    BY <1>1, <1>5, <2>1, <2>2, <2>3 DEF Marks, Has
  <2>5. Planned(t)
    BY <1>1, <1>4, <1>5, <2>1, <2>2 DEF Marks, Planned
  <2> QED
    BY <2>4, <2>5
<1>6. ASSUME params' = P!Stage(kept, "rows") PROVE ParamInv(params')
  <2>1. /\ kept \in ParamStates /\ kept.table = P!p.table /\ kept.fetched = P!p.fetched /\ kept.lost = P!p.lost
        /\ kept.local = (IF Rec(P!p).clear = "found" THEN {} ELSE P!p.local)
        /\ kept.central = P!p.central /\ kept.job = got.job /\ kept.clean = got.clean /\ ~kept.remoteErr
    BY <1>2 DEF ParamStates
  <2> HIDE DEF kept
  <2> DEFINE t == P!Stage(kept, "rows")
  <2>2. /\ t \in ParamStates /\ t.table = P!p.table /\ t.fetched = P!p.fetched /\ t.lost = P!p.lost /\ t.local = kept.local
        /\ t.central = P!p.central /\ t.clean = got.clean /\ ~t.remoteErr /\ t.job.stage = "rows" /\ t.job.by = P!p.job.by
        /\ t.job.todo = rows /\ t.job.got = got.job.got
    BY <1>2, <2>1, StageTypes
  <2> HIDE DEF t
  <2>3. Marks(t) /\ Planned(t)
    BY <1>5, <2>1, <2>2
  <2>4. ASSUME t.clean PROVE Undisturbed(t)
    <3>1. P!p.clean /\ (Rec(P!p).pending = "row" => rows = Rows \ P!p.fetched) /\ Rec(t) = Rec(P!p)
      BY <1>2, <2>2, <2>4 DEF Rec
    <3>2. Rereads(t)
      BY <1>1, <2>2, <3>1 DEF ParamInv, Undisturbed, Rereads
    <3>3. Rec(P!p).clear # "never" => t.local = {}
      BY <1>1, <2>1, <2>2, Recipes DEF Planned, Rec
    <3>4. Writes(t)
      BY <1>2, <1>4, <2>2, <3>1, <3>3 DEF Writes, P!Versions
    <3> QED
      BY <2>2, <3>2, <3>4 DEF Undisturbed, Flags, Ended, Arrived
  <2> QED
    BY <1>6, <2>2, <2>3, <2>4 DEF ParamInv, t
<1>7. ASSUME Rec(P!p).clear = "found", P!MayFail, params' = P!Stage(P!Fails(got), "rows") PROVE ParamInv(params')
  <2> DEFINE u == P!Fails(got)
  <2>1. got.faults < MaxFaults
    BY <1>1, <1>7 DEF P!MayFail, got, ParamStates
  <2>2. /\ u \in ParamStates /\ ~u.clean /\ u.table = P!p.table /\ u.fetched = P!p.fetched /\ u.lost = P!p.lost
        /\ u.central = P!p.central /\ u.job = got.job
    BY <1>2, <2>1, FailsTypes
  <2> HIDE DEF u
  <2> DEFINE t == P!Stage(u, "rows")
  <2>3. /\ t \in ParamStates /\ ~t.clean /\ t.table = P!p.table /\ t.fetched = P!p.fetched /\ t.lost = P!p.lost
        /\ t.central = P!p.central /\ t.job.stage = "rows" /\ t.job.by = P!p.job.by /\ t.job.todo = rows
    BY <1>2, <2>2, StageTypes
  <2> HIDE DEF t
  <2>4. Marks(t) /\ Planned(t)
    BY <1>5, <1>7, <2>3
  <2> QED
    BY <1>7, <2>3, <2>4 DEF ParamInv, t, u
<1> QED
  BY <1>3, <1>6, <1>7

LEMMA SelectNothingKeeps == ASSUME ParamInv(P!p), P!SelectNothing PROVE ParamInv(params')
<1> DEFINE s == [P!p EXCEPT !.remoteErr = FALSE]
<1>1. P!p \in ParamStates /\ P!p.job.stage = "select" /\ Marks(P!p) /\ Planned(P!p) /\ P!p.table \in Tables
  BY DEF ParamInv, P!SelectNothing, ParamStates
<1>2. Rec(P!p).pending = "table" /\ P!p.job.by # "load" /\ P!p.fetched = Rows /\ params' = P!Downloaded(s)
  BY DEF P!SelectNothing, P!NothingFlagged, Rec, P!recipe, P!Become
<1>3. /\ s \in ParamStates /\ s.table = P!p.table /\ s.job = P!p.job /\ s.fetched = P!p.fetched /\ s.lost = P!p.lost
      /\ s.local = P!p.local /\ s.central = P!p.central /\ ~s.remoteErr
  BY <1>1 DEF ParamStates
<1> HIDE DEF s
<1>4. Marks(s) /\ Stored(s)
  BY <1>1, <1>2, <1>3 DEF Marks, Stored, Has, Rec
<1>5. Rec(s).clear # "first"
  BY <1>1, <1>2, <1>3, Recipes DEF Rec
<1>6. Ready(s)
  BY <1>1, <1>2, <1>3, <1>4, <1>5 DEF Ready, Planned
<1> QED
  BY <1>2, <1>3, <1>6, DownloadedKeeps DEF P!p

LEMMA SelectFailsKeeps == ASSUME ParamInv(P!p), P!SelectFails PROVE ParamInv(params')
<1> DEFINE u == P!Fails(P!p)
           s == [u EXCEPT !.remoteErr = TRUE]
<1>1. P!p \in ParamStates /\ P!p.job.stage = "select" /\ Marks(P!p) /\ Planned(P!p) /\ P!p.faults < MaxFaults
  BY DEF ParamInv, P!SelectFails, P!MayFail
<1>2. params' = P!Downloaded(s)
  BY DEF P!SelectFails, P!Become
<1>3. /\ u \in ParamStates /\ ~u.clean /\ u.table = P!p.table /\ u.job = P!p.job /\ u.fetched = P!p.fetched /\ u.lost = P!p.lost
      /\ u.local = P!p.local /\ u.central = P!p.central
  BY <1>1, FailsTypes
<1> HIDE DEF u
<1>4. /\ s \in ParamStates /\ ~s.clean /\ s.table = P!p.table /\ s.job = P!p.job /\ s.fetched = P!p.fetched /\ s.lost = P!p.lost
      /\ s.local = P!p.local /\ s.central = P!p.central
  BY <1>3 DEF ParamStates
<1> HIDE DEF s
<1>5. Marks(s)
  BY <1>1, <1>4 DEF Marks, Has, Rec
<1> QED
  BY <1>1, <1>2, <1>4, <1>5, FailedKeeps DEF Planned, P!p

\* What holds of the marks and the plan when a row was passed over, written, or written and marked.
LEMMA RowsGoOn ==
  ASSUME ParamInv(P!p), P!p.job.stage = "rows", NEW r \in P!p.job.todo, NEW t \in ParamStates,
         t.table = P!p.table, t.central = P!p.central, t.job.stage = "rows", t.job.by = P!p.job.by,
         t.job.todo = P!p.job.todo \ {r},
         \A q \in Rows : q # r => P!Versions(t.local, q) = P!Versions(P!p.local, q),
         \/ t.fetched = P!p.fetched /\ t.lost = P!p.lost
         \/ /\ Rec(P!p).pending = "row" /\ t.fetched = P!p.fetched \cup {r}
            /\ Has(t, t.local, r) \/ r \in t.lost
            /\ t.lost \ {r} = P!p.lost \ {r}
  PROVE  Marks(t) /\ Planned(t)
<1>1. P!p \in ParamStates /\ Marks(P!p) /\ Planned(P!p) /\ P!p.table \in Tables /\ Rec(t) = Rec(P!p) /\ r \in Rows
      /\ P!p.fetched \subseteq Rows /\ t.fetched \subseteq Rows
  BY DEF ParamInv, ParamStates, P!Jobs, Rec
<1>2. Rec(P!p).pending \in {"row", "table", "all"}
  BY <1>1, Recipes DEF Rec
<1>3. ASSUME NEW q \in t.fetched \ t.lost PROVE Has(t, t.local, q)
  <2>1. CASE q = r /\ ~(t.fetched = P!p.fetched /\ t.lost = P!p.lost)
    BY <1>3, <2>1
  <2>2. CASE q # r
    <3>1. q \in P!p.fetched \ P!p.lost
      BY <1>3, <2>2
    <3> QED
      BY <1>1, <1>3, <2>2, <3>1 DEF Marks, Has
  <2>3. CASE q = r /\ t.fetched = P!p.fetched /\ t.lost = P!p.lost
    <3>1. Rec(P!p).pending # "row"
      BY <1>1, <1>3, <2>3 DEF Planned
    <3>2. P!p.fetched # {} /\ Rec(P!p).pending = "table"
      BY <1>1, <1>2, <1>3, <2>3, <3>1 DEF Marks
    <3>3. P!p.fetched \subseteq P!p.lost
      BY <1>1, <3>2 DEF Planned
    <3> QED
      BY <1>3, <2>3, <3>3
  <2> QED
    BY <2>1, <2>2, <2>3
<1>4. Marks(t)
  BY <1>1, <1>3 DEF Marks
<1>5. Planned(t)
  BY <1>1 DEF Planned
<1> QED
  BY <1>4, <1>5

LEMMA RowKeeps == ASSUME ParamInv(P!p), NEW r \in Rows, P!Row(r) PROVE ParamInv(params')
<1> DEFINE next == [P!p EXCEPT !.job.todo = @ \ {r}]
           written == [next EXCEPT !.local = P!Written(r)]
           done == [written EXCEPT !.job.count = @ + 1]
<1>1. P!p \in ParamStates /\ P!p.job.stage = "rows" /\ r \in P!p.job.todo /\ P!p.table \in Tables /\ P!p.job \in P!Jobs
  BY DEF ParamInv, P!Row, ParamStates
<1>2. \/ params' = P!MarkedRow(done, r)
      \/ P!MayFail /\ params' = P!Fails(next)
      \/ Rec(P!p).pending = "row" /\ P!MayFail /\ params' = [P!Fails(written) EXCEPT !.remoteErr = TRUE]
  BY DEF P!Row, P!Become, Rec, P!recipe
<1>3. /\ P!Written(r) \in SUBSET (Rows \X Nat)
      /\ \A q \in Rows : q # r => P!Versions(P!Written(r), q) = P!Versions(P!p.local, q)
      /\ P!p.job.by # "load" /\ (Rec(P!p).clear # "never" => P!Versions(P!p.local, r) = {}) =>
           P!Versions(P!Written(r), r) = {<<r, P!p.job.got[r]>>}
      /\ Rec(P!p).pending = "row" => P!Versions(P!Written(r), r) = {<<r, P!p.job.got[r]>>}
  BY <1>1, WrittenTypes DEF P!p
<1>4. /\ next \in ParamStates /\ next.table = P!p.table /\ next.central = P!p.central /\ next.fetched = P!p.fetched
      /\ next.local = P!p.local /\ next.lost = P!p.lost /\ next.remoteErr = P!p.remoteErr /\ next.clean = P!p.clean
      /\ next.faults = P!p.faults /\ next.job.stage = "rows" /\ next.job.by = P!p.job.by
      /\ next.job.todo = P!p.job.todo \ {r} /\ next.job.got = P!p.job.got /\ next.job.count = P!p.job.count
  BY <1>1 DEF ParamStates, P!Jobs
<1> HIDE DEF next
<1>5. /\ written \in ParamStates /\ written.table = P!p.table /\ written.central = P!p.central /\ written.fetched = P!p.fetched
      /\ written.local = P!Written(r) /\ written.lost = P!p.lost /\ written.remoteErr = P!p.remoteErr
      /\ written.clean = P!p.clean /\ written.faults = P!p.faults /\ written.job = next.job
  BY <1>3, <1>4 DEF ParamStates
<1> HIDE DEF written
<1>6. CASE P!MayFail /\ params' = P!Fails(next)
  <2> DEFINE t == P!Fails(next)
  <2>1. /\ t \in ParamStates /\ ~t.clean /\ t.table = P!p.table /\ t.central = P!p.central /\ t.fetched = P!p.fetched
        /\ t.lost = P!p.lost /\ t.local = P!p.local /\ t.job = next.job
    BY <1>1, <1>4, <1>6, FailsTypes DEF P!MayFail
  <2> HIDE DEF t
  <2>2. Marks(t) /\ Planned(t)
    BY <1>1, <1>4, <2>1, RowsGoOn
  <2> QED
    BY <1>6, <2>1, <2>2 DEF ParamInv, t
<1>7. CASE Rec(P!p).pending = "row" /\ P!MayFail /\ params' = [P!Fails(written) EXCEPT !.remoteErr = TRUE]
  <2> DEFINE u == P!Fails(written)
             t == [u EXCEPT !.remoteErr = TRUE]
  <2>1. /\ u \in ParamStates /\ ~u.clean /\ u.table = P!p.table /\ u.central = P!p.central /\ u.fetched = P!p.fetched
        /\ u.lost = P!p.lost /\ u.local = P!Written(r) /\ u.job = next.job
    BY <1>1, <1>5, <1>7, FailsTypes DEF P!MayFail
  <2> HIDE DEF u
  <2>2. /\ t \in ParamStates /\ ~t.clean /\ t.table = P!p.table /\ t.central = P!p.central /\ t.fetched = P!p.fetched
        /\ t.lost = P!p.lost /\ t.local = P!Written(r) /\ t.job = next.job
    BY <2>1 DEF ParamStates
  <2> HIDE DEF t
  <2>3. Marks(t) /\ Planned(t)
    BY <1>1, <1>3, <1>4, <2>2, RowsGoOn
  <2> QED
    BY <1>7, <2>2, <2>3 DEF ParamInv, t, u
<1>8. CASE params' = P!MarkedRow(done, r)
  <2>1. /\ done \in ParamStates /\ done.table = P!p.table /\ done.central = P!p.central /\ done.fetched = P!p.fetched
        /\ done.local = P!Written(r) /\ done.lost = P!p.lost /\ done.remoteErr = P!p.remoteErr
        /\ done.clean = P!p.clean /\ done.job.stage = "rows" /\ done.job.by = P!p.job.by
        /\ done.job.todo = P!p.job.todo \ {r} /\ done.job.got = P!p.job.got /\ done.job.count = P!p.job.count + 1
        /\ P!p.job.count \in Nat
    <3> DEFINE job == [written.job EXCEPT !.count = @ + 1]
    <3>1. written.job \in P!Jobs /\ P!p.job.count \in Nat
      BY <1>1, <1>5 DEF ParamStates, P!Jobs
    <3>2. /\ job \in P!Jobs /\ job.stage = written.job.stage /\ job.by = written.job.by
          /\ job.todo = written.job.todo /\ job.got = written.job.got /\ job.count = written.job.count + 1
      BY <3>1 DEF P!Jobs
    <3>3. done = [written EXCEPT !.job = job]
      OBVIOUS
    <3> HIDE DEF done, job
    <3>4. /\ done \in ParamStates /\ done.job = job /\ done.table = written.table /\ done.central = written.central
          /\ done.fetched = written.fetched /\ done.local = written.local /\ done.lost = written.lost
          /\ done.remoteErr = written.remoteErr /\ done.clean = written.clean
      BY <1>5, <3>2, <3>3 DEF ParamStates
    <3> QED
      BY <1>4, <1>5, <3>1, <3>2, <3>4
  <2> HIDE DEF done
  <2>2. CASE Rec(P!p).pending # "row"
    <3>1. params' = done
      BY <1>8, <2>2 DEF P!MarkedRow, Rec, P!recipe
    <3>2. Marks(done) /\ Planned(done)
      BY <1>1, <1>3, <2>1, RowsGoOn
    <3>3. ASSUME done.clean PROVE Undisturbed(done)
      <4>1. P!p.clean /\ Undisturbed(P!p) /\ Rec(done) = Rec(P!p)
        BY <2>1, <3>3 DEF ParamInv, Rec
      <4>2. Rereads(done)
        BY <1>1, <2>1, <4>1 DEF Undisturbed, Rereads
      <4>3. Writes(done)
        <5> SUFFICES ASSUME P!p.job.by # "load" PROVE Writes(done)
          BY <2>1 DEF Writes
        <5>1. /\ ~P!p.remoteErr /\ \A q \in P!p.job.todo : P!p.job.got[q] = P!p.central[q]
              /\ \A q \in Rows \ P!p.job.todo : Has(P!p, P!p.local, q)
              /\ Rec(P!p).clear # "never" => \A q \in P!p.job.todo : P!Versions(P!p.local, q) = {}
          BY <1>1, <2>2, <4>1 DEF Undisturbed, Writes
        <5>2. P!Versions(P!Written(r), r) = {<<r, P!p.job.got[r]>>}
          BY <1>1, <1>3, <5>1
        <5>3. \A q \in Rows \ done.job.todo : Has(done, done.local, q)
          BY <1>1, <1>3, <2>1, <5>1, <5>2 DEF Has
        <5>4. P!p.job.todo \subseteq Rows
          BY <1>1 DEF P!Jobs
        <5>5. Rec(P!p).clear # "never" => \A q \in done.job.todo : P!Versions(done.local, q) = {}
          BY <1>3, <2>1, <5>1, <5>4
        <5>6. done.job.count > 0
          BY <2>1
        <5> QED
          BY <2>1, <2>2, <4>1, <5>1, <5>3, <5>5, <5>6 DEF Writes
      <4> QED
        BY <2>1, <4>2, <4>3 DEF Undisturbed, Flags, Ended, Arrived
    <3> QED
      BY <2>1, <3>1, <3>2, <3>3 DEF ParamInv
  <2>3. CASE Rec(P!p).pending = "row"
    <3> DEFINE lost == IF P!p.central[r] # P!p.job.got[r] THEN P!p.lost \cup {r} ELSE P!p.lost \ {r}
               t == [done EXCEPT !.fetched = @ \cup {r}, !.remoteErr = FALSE, !.lost = lost]
    <3>1. params' = t
      BY <1>8, <2>1, <2>3 DEF P!MarkedRow, Rec, P!recipe
    <3>2. lost \subseteq Rows /\ lost \ {r} = P!p.lost \ {r} /\ (r \in lost \/ P!p.central[r] = P!p.job.got[r])
      BY <1>1 DEF ParamStates
    <3> HIDE DEF lost
    <3>3. /\ t \in ParamStates /\ t.table = P!p.table /\ t.central = P!p.central /\ t.fetched = P!p.fetched \cup {r}
          /\ t.local = P!Written(r) /\ t.lost = lost /\ ~t.remoteErr
          /\ t.clean = P!p.clean /\ t.job.stage = "rows" /\ t.job.by = P!p.job.by
          /\ t.job.todo = P!p.job.todo \ {r} /\ t.job.got = P!p.job.got
      BY <2>1, <3>2 DEF ParamStates
    <3> HIDE DEF t
    <3>4. Has(t, t.local, r) \/ r \in t.lost
      BY <1>3, <2>3, <3>2, <3>3 DEF Has
    <3>5. Marks(t) /\ Planned(t)
      BY <1>1, <1>3, <2>3, <3>2, <3>3, <3>4, RowsGoOn
    <3>6. ASSUME t.clean PROVE Undisturbed(t)
      <4>1. P!p.clean /\ Undisturbed(P!p) /\ Rec(t) = Rec(P!p)
        BY <3>3, <3>6 DEF ParamInv, Rec
      <4>2. P!p.job.by # "load"
        BY <1>1, <2>3, Recipes DEF ParamInv, Planned, Again, Rec
      <4>3. \A q \in P!p.job.todo : P!p.job.got[q] = P!p.central[q]
        BY <1>1, <4>1, <4>2 DEF Undisturbed, Writes
      <4>4. Rows \subseteq P!p.fetched \cup P!p.job.todo
        BY <1>1, <2>3, <4>1, <4>2 DEF Undisturbed, Writes
      <4>5. Writes(t)
        BY <2>3, <3>3, <4>1, <4>3, <4>4 DEF Writes
      <4> QED
        BY <3>3, <4>2, <4>5 DEF Undisturbed, Rereads, Flags, Ended, Arrived
    <3> QED
      BY <3>1, <3>3, <3>5, <3>6 DEF ParamInv
  <2> QED
    BY <2>2, <2>3
<1> QED
  BY <1>2, <1>6, <1>7, <1>8

\* When every row was written, what is stored follows from the marks or from the rows.
LEMMA RowsDoneKeeps == ASSUME ParamInv(P!p), P!RowsDone PROVE ParamInv(params')
<1>1. P!p \in ParamStates /\ P!p.job.stage = "rows" /\ P!p.job.todo = {} /\ P!p.table \in Tables /\ Marks(P!p) /\ Planned(P!p)
      /\ P!p.job.by \in {"request", "monitor", "load"}
  BY DEF ParamInv, P!RowsDone, ParamStates, P!Jobs
<1>2. Rec(P!p).pending \in {"row", "table", "all"} /\ (Rec(P!p).pending = "table" => Rec(P!p).clear = "found")
      /\ (Rec(P!p).pending = "row" => P!p.table \notin Again)
  BY <1>1, Recipes DEF Rec, Again
<1>3. CASE Rec(P!p).pending = "table" /\ P!p.job.by # "load"
  <2> DEFINE t == P!Stage(P!p, "flag")
  <2>1. params' = t
    BY <1>3 DEF P!RowsDone, P!Become, Rec, P!recipe
  <2>2. /\ t \in ParamStates /\ t.table = P!p.table /\ t.central = P!p.central /\ t.fetched = P!p.fetched /\ t.local = P!p.local
        /\ t.lost = P!p.lost /\ t.clean = P!p.clean /\ t.job.stage = "flag" /\ t.job.by = P!p.job.by
    BY <1>1, StageTypes
  <2> HIDE DEF t
  <2>3. Marks(t)
    BY <1>1, <2>2 DEF Marks, Has, Rec
  <2>4. Planned(t)
    BY <1>1, <1>3, <2>2 DEF Planned, Rec
  <2>5. ASSUME t.clean PROVE Undisturbed(t)
    <3>1. Writes(P!p)
      BY <2>2, <2>5 DEF ParamInv, Undisturbed
    <3>2. \A r \in Rows : Has(P!p, P!p.local, r)
      BY <1>1, <1>3, <3>1 DEF Writes
    <3> QED
      BY <2>2, <3>2 DEF Undisturbed, Rereads, Writes, Flags, Ended, Arrived, Has
  <2> QED
    BY <2>1, <2>2, <2>3, <2>4, <2>5 DEF ParamInv
<1>4. CASE ~(Rec(P!p).pending = "table" /\ P!p.job.by # "load")
  <2>1. params' = P!Downloaded(P!p)
    BY <1>4 DEF P!RowsDone, P!Become, Rec, P!recipe
  <2>2. ASSUME P!p.clean
        PROVE  /\ Stored(P!p) /\ (Rec(P!p).pending # "all" => P!p.fetched = Rows)
               /\ P!p.job.by = "monitor" => ~P!p.remoteErr
               /\ P!p.job.by = "request" /\ Rec(P!p).clear = "first" => P!p.job.count > 0 \/ Rows \subseteq P!p.lost
    <3>1. Rereads(P!p) /\ Writes(P!p)
      BY <2>2 DEF ParamInv, Undisturbed
    <3>2. CASE P!p.job.by = "load"
      <4>1. Rows \subseteq P!p.lost /\ (Rec(P!p).pending = "table" => P!p.fetched = Rows)
        BY <1>1, <3>1, <3>2 DEF Rereads
      <4>2. Rec(P!p).pending # "row"
        BY <1>1, <1>2, <3>2 DEF Planned
      <4> QED
        BY <1>2, <3>2, <4>1, <4>2 DEF Stored
    <3>3. CASE P!p.job.by # "load" /\ Rec(P!p).pending = "row"
      <4>1. ~P!p.remoteErr /\ P!p.fetched = Rows
        BY <1>1, <3>1, <3>3 DEF Writes, ParamStates
      <4>2. Rec(P!p).clear # "first"
        BY <1>1, <3>3, Recipes DEF Rec
      <4> QED
        BY <1>1, <4>1, <4>2 DEF Marks, Stored
    <3>4. CASE P!p.job.by # "load" /\ Rec(P!p).pending = "all"
      <4>1. ~P!p.remoteErr /\ (\A r \in Rows : Has(P!p, P!p.local, r)) /\ (P!p.job.count > 0 \/ Rows \subseteq {})
        BY <1>1, <3>1, <3>4 DEF Writes
      <4> QED
        BY <3>4, <4>1 DEF Stored
    <3> QED
      BY <1>2, <1>4, <3>2, <3>3, <3>4
  <2>3. Ready(P!p)
    BY <1>1, <2>2 DEF Ready, Planned
  <2> QED
    BY <2>1, <2>3, DownloadedKeeps DEF P!p
<1> QED
  BY <1>3, <1>4

\* The mark of a whole table loses exactly the rows that are not as they should be.
LEMMA LosesAllTypes ==
  ASSUME NEW s \in ParamStates
  PROVE  /\ P!LosesAll(s) \in ParamStates /\ P!LosesAll(s).fetched = Rows
         /\ P!LosesAll(s).lost = {r \in Rows : ~Has(s, s.local, r)}
         /\ \A f \in {"table", "central", "local", "memory", "job", "remoteErr", "clean", "edits", "faults", "restarts"} :
              P!LosesAll(s)[f] = s[f]
BY DEF P!LosesAll, ParamStates, Has

LEMMA MarkTableKeeps == ASSUME ParamInv(P!p), P!MarkTable PROVE ParamInv(params')
<1>1. /\ P!p \in ParamStates /\ P!p.job.stage = "flag" /\ P!p.table \in Tables /\ Marks(P!p) /\ Planned(P!p)
      /\ Rec(P!p).pending = "table" /\ P!p.job.by # "load"
  BY DEF ParamInv, P!MarkTable, ParamStates, Planned
<1>2. Rec(P!p).clear # "first" /\ P!p.table = "holiday"
  BY <1>1, Recipes DEF Rec
<1>3. ASSUME params' = P!Downloaded(P!LosesAll(P!p)) PROVE ParamInv(params')
  <2> DEFINE t == P!LosesAll(P!p)
  <2>1. /\ t \in ParamStates /\ t.fetched = Rows /\ t.lost = {r \in Rows : ~Has(P!p, P!p.local, r)} /\ t.table = P!p.table
        /\ t.central = P!p.central /\ t.local = P!p.local /\ t.job = P!p.job
    BY <1>1, LosesAllTypes
  <2> HIDE DEF t
  <2>2. Marks(t) /\ Stored(t)
    BY <1>1, <2>1 DEF Marks, Stored, Has, Rec
  <2>3. P!p.job.by # "monitor"
    BY <1>1, <1>2 DEF Planned
  <2>4. Ready(t)
    BY <1>1, <1>2, <2>1, <2>2, <2>3 DEF Ready, Rec
  <2> QED
    BY <1>3, <2>1, <2>4, DownloadedKeeps DEF P!p, t
<1>4. ASSUME P!MayFail, params' = P!Downloaded([P!Fails(P!p) EXCEPT !.remoteErr = TRUE]) PROVE ParamInv(params')
  <2> DEFINE u == P!Fails(P!p)
             t == [u EXCEPT !.remoteErr = TRUE]
  <2>1. /\ u \in ParamStates /\ ~u.clean /\ u.table = P!p.table /\ u.job = P!p.job /\ u.fetched = P!p.fetched /\ u.lost = P!p.lost
        /\ u.local = P!p.local /\ u.central = P!p.central
    BY <1>1, <1>4, FailsTypes DEF P!MayFail
  <2> HIDE DEF u
  <2>2. /\ t \in ParamStates /\ ~t.clean /\ t.table = P!p.table /\ t.job = P!p.job /\ t.fetched = P!p.fetched /\ t.lost = P!p.lost
        /\ t.local = P!p.local /\ t.central = P!p.central
    BY <2>1 DEF ParamStates
  <2> HIDE DEF t
  <2>3. Marks(t)
    BY <1>1, <2>2 DEF Marks, Has, Rec
  <2> QED
    BY <1>1, <1>4, <2>2, <2>3, FailedKeeps DEF Planned, P!p, t, u
<1> QED
  BY <1>3, <1>4 DEF P!MarkTable, P!Become

------------------------------------------------------------------------------
\* A load copies what is stored.
LEMMA LoadedTypes ==
  ASSUME P!p \in ParamStates, P!p.table # "season", NEW m \in P!LoadedMemory
  PROVE  /\ m \in SUBSET (Rows \X Nat)
         /\ \A r \in Rows : Has(P!p, P!p.local, r) =>
              <<r, P!p.central[r]>> \in m /\ (Rec(P!p).use # "list" => Has(P!p, m, r))
<1>1. P!p.table \in Tables /\ P!p.local \in SUBSET (Rows \X Nat) /\ P!p.memory \in SUBSET (Rows \X Nat)
  BY DEF ParamStates
<1>2. \A set, r : Has(P!p, set, r) => <<r, P!p.central[r]>> \in set
  BY DEF Has, P!Versions
<1>3. CASE P!p.table \in {"ledmessage", "parameter", "stationsetup", "typeinfo", "xtariff", "holiday"}
  <2>1. m = P!p.local
    <3>1. CASE P!p.table \in {"ledmessage", "parameter", "stationsetup"}
      BY <3>1 DEF P!LoadedMemory, P!loadmessage, P!loadEntrymessage, P!loadParam, P!loadstationsetup
    <3>2. CASE P!p.table \in {"typeinfo", "xtariff", "holiday"}
      BY <3>2 DEF P!LoadedMemory, P!LoadTariffTypeInfo, P!LoadXTariff, P!LoadHoliday
    <3> QED
      BY <1>3, <3>1, <3>2
  <2> QED
    BY <1>1, <1>2, <2>1
<1>4. CASE P!p.table = "vehicletype" \/ P!p.table = "tr"
  <2>1. m = P!p.memory \cup P!p.local
    <3>1. CASE P!p.table = "vehicletype"
      BY <3>1 DEF P!LoadedMemory, P!loadvehicletype
    <3>2. CASE P!p.table = "tr"
      BY <3>2 DEF P!LoadedMemory, P!loadTR
    <3> QED
      BY <1>4, <3>1, <3>2
  <2>2. Rec(P!p).use = "list"
    BY <1>1, <1>4, Recipes DEF Rec
  <2> QED
    BY <1>1, <1>2, <2>1, <2>2
<1>5. CASE P!p.table = "tariff"
  <2>1. m \in P!WriteTariff2RAM(P!p.memory)
    BY <1>5 DEF P!LoadedMemory, P!LoadTariff
  <2>2. m \in SUBSET (P!p.local \cup P!p.memory)
    BY <2>1 DEF P!WriteTariff2RAM
  <2>3. ASSUME NEW r \in Rows, Has(P!p, P!p.local, r) PROVE Has(P!p, m, r)
    <3>1. P!Versions(P!p.local, r) = {<<r, P!p.central[r]>>}
      BY <2>3 DEF Has
    <3>2. P!Versions(m, r) \subseteq P!p.local /\ P!Cardinality(P!Versions(m, r)) = 1
      BY <2>1, <3>1 DEF P!WriteTariff2RAM
    <3>5. P!Cardinality(P!Versions(m, r)) = Cardinality(P!Versions(m, r))
      BY DEF P!Cardinality, Cardinality
    <3>3. P!Versions(m, r) # {}
      BY <3>2, <3>5, FS_EmptySet
    <3>4. P!Versions(m, r) \subseteq P!Versions(P!p.local, r)
      BY <3>2 DEF P!Versions
    <3> QED
      BY <3>1, <3>3, <3>4 DEF Has
  <2> QED
    BY <1>1, <1>2, <2>2, <2>3
<1> QED
  BY <1>1, <1>3, <1>4, <1>5, Recipes

LEMMA LoadStepKeeps == ASSUME ParamInv(P!p), P!Load PROVE ParamInv(params')
<1>1. P!p \in ParamStates /\ P!p.job.stage = "load" /\ Marks(P!p) /\ Planned(P!p) /\ P!p.table \in Tables
  BY DEF ParamInv, P!Load, ParamStates
<1>2. PICK m \in P!LoadedMemory : params' = [P!p EXCEPT !.memory = m, !.job = P!Idle]
  BY DEF P!Load, P!Become
<1>3. P!p.table # "season"
  BY <1>1 DEF Planned
<1>4. /\ m \in SUBSET (Rows \X Nat)
      /\ \A r \in Rows : Has(P!p, P!p.local, r) =>
           <<r, P!p.central[r]>> \in m /\ (Rec(P!p).use # "list" => Has(P!p, m, r))
  BY <1>1, <1>3, LoadedTypes
<1> DEFINE s == [P!p EXCEPT !.memory = m]
<1>5. /\ s \in ParamStates /\ s.table = P!p.table /\ s.central = P!p.central /\ s.fetched = P!p.fetched /\ s.local = P!p.local
      /\ s.lost = P!p.lost /\ s.clean = P!p.clean /\ s.memory = m /\ params' = [s EXCEPT !.job = P!Idle]
  BY <1>1, <1>2, <1>4 DEF ParamStates
<1> HIDE DEF s
<1>6. Marks(s)
  BY <1>1, <1>5 DEF Marks, Has, Rec
<1>7. Rec(P!p).use # "local"
  BY <1>1, <1>3, Recipes DEF Rec
<1>8. ASSUME s.clean
      PROVE  /\ Rec(s).pending # "all" => s.fetched = Rows
             /\ \A r \in Rows \ s.lost :
                  <<r, s.central[r]>> \in Use(s) /\ (Rec(s).use # "list" => Has(s, Use(s), r))
  <2>1. Ended(P!p)
    BY <1>5, <1>8 DEF ParamInv, Undisturbed
  <2>2. Stored(P!p) /\ (Rec(P!p).pending # "all" => P!p.fetched = Rows)
    BY <1>1, <2>1 DEF Ended
  <2> QED
    BY <1>4, <1>5, <1>7, <2>2 DEF Stored, Use, Has, Rec
<1> QED
  BY <1>5, <1>6, <1>8, IdleKeeps

\* Nothing is stored: a load that was not disturbed has nothing to load, and may download once more.
LEMMA LoadNothingKeeps == ASSUME ParamInv(P!p), P!LoadNothing PROVE ParamInv(params')
<1>1. P!p \in ParamStates /\ P!p.job.stage = "load" /\ Marks(P!p) /\ Planned(P!p) /\ P!p.table \in Tables /\ P!p.local = {}
      /\ P!p.fetched \subseteq Rows
  BY DEF ParamInv, P!LoadNothing, ParamStates
<1>2. P!p.fetched \subseteq P!p.lost
  BY <1>1 DEF Marks, Has, P!Versions
<1>3. P!p.clean => Rows \subseteq P!p.lost /\ (Rec(P!p).pending # "all" => P!p.fetched = Rows)
  BY <1>1 DEF ParamInv, Undisturbed, Ended, Stored, Has, P!Versions
<1>4. CASE P!LoadsAgain /\ ~P!p.job.again
  <2> DEFINE t == P!StartDownload(P!p, "load")
  <2>1. params' = t /\ P!p.table \in Again
    BY <1>4 DEF P!LoadNothing, P!Become, P!LoadsAgain, Again
  <2>2. /\ t \in ParamStates /\ t.job.by = "load" /\ t.job.stage = IF Rec(P!p).clear = "first" THEN "clear" ELSE "select"
        /\ t.table = P!p.table /\ t.local = P!p.local /\ t.fetched = P!p.fetched /\ t.central = P!p.central
        /\ t.lost = P!p.lost /\ t.clean = P!p.clean
    BY <1>1, StartTypes DEF P!p
  <2> HIDE DEF t
  <2>3. Marks(t)
    BY <1>1, <2>2 DEF Marks, Has, Rec
  <2>4. Planned(t)
    BY <1>1, <1>2, <2>1, <2>2 DEF Planned, Rec, Again
  <2>5. t.clean => Undisturbed(t)
    BY <1>3, <2>2 DEF Undisturbed, Rereads, Writes, Flags, Ended, Arrived, Rec
  <2> QED
    BY <2>1, <2>2, <2>3, <2>4, <2>5 DEF ParamInv
<1>5. CASE ~(P!LoadsAgain /\ ~P!p.job.again)
  <2>1. params' = [P!p EXCEPT !.job = P!Idle]
    BY <1>5 DEF P!LoadNothing, P!Become
  <2> QED
    BY <1>1, <1>3, <2>1, IdleKeeps
<1> QED
  BY <1>4, <1>5

LEMMA LoadFailsKeeps == ASSUME ParamInv(P!p), P!LoadFails PROVE ParamInv(params')
<1> DEFINE s == P!Fails(P!p)
<1>1. P!p \in ParamStates /\ Marks(P!p) /\ P!p.faults < MaxFaults /\ params' = [s EXCEPT !.job = P!Idle]
  BY DEF ParamInv, P!LoadFails, P!MayFail, P!Become
<1>2. /\ s \in ParamStates /\ ~s.clean /\ s.table = P!p.table /\ s.fetched = P!p.fetched /\ s.lost = P!p.lost
      /\ s.local = P!p.local /\ s.central = P!p.central
  BY <1>1, FailsTypes
<1> HIDE DEF s
<1>3. Marks(s)
  BY <1>1, <1>2 DEF Marks, Has, Rec
<1> QED
  BY <1>1, <1>2, <1>3, IdleKeeps

------------------------------------------------------------------------------
\* Everyone else.
\* An edit takes the mark of its row back.
LEMMA EditKeeps == ASSUME ParamInv(P!p), NEW r \in Rows, P!Edit(r) PROVE ParamInv(params')
<1> DEFINE fetched == IF Rec(P!p).pending = "table" THEN {} ELSE P!p.fetched \ {r}
           t == [P!p EXCEPT !.central[r] = @ + 1, !.fetched = fetched, !.lost = @ \ {r}, !.clean = FALSE, !.edits = @ + 1]
<1>1. P!p \in ParamStates /\ Marks(P!p) /\ Planned(P!p) /\ P!p.edits \in 0..MaxEdits /\ P!p.edits < MaxEdits /\ MaxEdits \in Nat
  BY ParamAssumption DEF ParamInv, P!Edit, ParamStates
<1>2. params' = t
  BY DEF P!Edit, P!Become, Rec, P!recipe
<1>3. fetched \subseteq P!p.fetched /\ fetched \subseteq Rows /\ r \notin fetched
      /\ (Rec(P!p).pending = "table" => fetched = {}) /\ (Rec(P!p).pending # "table" => fetched = P!p.fetched \ {r})
  BY <1>1 DEF ParamStates
<1>4. P!p.edits + 1 \in 0..MaxEdits /\ [P!p.central EXCEPT ![r] = @ + 1] \in [Rows -> Nat]
  BY <1>1 DEF ParamStates
<1> HIDE DEF fetched
<1>5. /\ t \in ParamStates /\ t.table = P!p.table /\ t.fetched = fetched /\ t.lost = P!p.lost \ {r} /\ ~t.clean
      /\ t.local = P!p.local /\ t.job = P!p.job /\ \A q \in Rows : q # r => t.central[q] = P!p.central[q]
  BY <1>1, <1>3, <1>4 DEF ParamStates
<1> HIDE DEF t
<1>6. Marks(t)
  <2>1. \A q \in t.fetched \ t.lost : q \in Rows /\ q # r /\ q \in P!p.fetched \ P!p.lost
    BY <1>3, <1>5
  <2>2. \A q \in t.fetched \ t.lost : Has(t, t.local, q)
    BY <1>1, <1>5, <2>1 DEF Marks, Has
  <2> QED
    BY <1>1, <1>3, <1>5, <2>2 DEF Marks, Rec
<1>7. Planned(t)
  BY <1>1, <1>3, <1>5 DEF Planned, Rec
<1> QED
  BY <1>2, <1>5, <1>6, <1>7 DEF ParamInv

LEMMA TakeFlagKeeps == ASSUME ParamInv(P!p), P!ParametersTakeFlag PROVE ParamInv(params')
<1> DEFINE t == P!LosesAll(P!p)
<1>1. P!p \in ParamStates /\ P!p.job.stage = "idle" /\ P!p.table = "holiday" /\ P!p.fetched # Rows /\ params' = t /\ Planned(P!p)
      /\ P!p.table \in Tables
  BY DEF ParamInv, P!ParametersTakeFlag, P!Become, ParamStates
<1>2. /\ t \in ParamStates /\ t.fetched = Rows /\ t.lost = {r \in Rows : ~Has(P!p, P!p.local, r)} /\ t.table = P!p.table
      /\ t.central = P!p.central /\ t.local = P!p.local /\ t.job = P!p.job /\ t.clean = P!p.clean
  BY <1>1, LosesAllTypes
<1> HIDE DEF t
<1>3. Rec(P!p).pending = "table" /\ Rec(t) = Rec(P!p)
  BY <1>1, <1>2, Recipes DEF Rec
<1>4. Marks(t)
  BY <1>2, <1>3 DEF Marks, Has
<1>5. Planned(t)
  BY <1>1, <1>2, <1>3 DEF Planned
<1>6. ~P!p.clean
  BY <1>1, <1>3 DEF ParamInv, Undisturbed, Ended
<1> QED
  BY <1>1, <1>2, <1>4, <1>5, <1>6 DEF ParamInv

LEMMA ClearSeasonKeeps == ASSUME ParamInv(P!p), P!clearseason PROVE ParamInv(params')
<1> DEFINE t == [P!p EXCEPT !.local = {}, !.lost = P!p.fetched]
<1>1. P!p \in ParamStates /\ P!p.job.stage = "idle" /\ P!p.table = "season" /\ params' = t /\ Planned(P!p) /\ Marks(P!p)
      /\ P!p.table \in Tables
  BY DEF ParamInv, P!clearseason, P!Become, ParamStates
<1>2. /\ t \in ParamStates /\ t.fetched = P!p.fetched /\ t.lost = P!p.fetched /\ t.table = P!p.table
      /\ t.local = {} /\ t.job = P!p.job /\ t.clean = P!p.clean
  BY <1>1 DEF ParamStates
<1> HIDE DEF t
<1>3. Rec(P!p).pending = "row" /\ Rec(t) = Rec(P!p)
  BY <1>1, <1>2, Recipes DEF Rec
<1>4. Marks(t)
  BY <1>2, <1>3 DEF Marks
<1>5. Planned(t)
  BY <1>1, <1>2, <1>3 DEF Planned
<1>6. ASSUME t.clean PROVE Undisturbed(t)
  <2>1. Ended(P!p)
    BY <1>2, <1>6 DEF ParamInv, Undisturbed
  <2>2. P!p.fetched = Rows
    BY <1>1, <1>3, <2>1 DEF Ended
  <2> QED
    BY <1>1, <1>2, <2>2 DEF Undisturbed, Rereads, Writes, Flags, Ended, Arrived
<1> QED
  BY <1>1, <1>2, <1>4, <1>5, <1>6 DEF ParamInv

LEMMA RestartKeeps == ASSUME ParamInv(P!p), P!Restart PROVE ParamInv(params')
<1> DEFINE s == [P!p EXCEPT !.memory = {}, !.job = P!Idle, !.clean = FALSE, !.restarts = @ + 1]
<1>1. P!p \in ParamStates /\ Marks(P!p) /\ P!p.table \in Tables /\ P!p.restarts + 1 \in 0..MaxRestarts
  <2>1. P!p \in ParamStates /\ Marks(P!p) /\ P!p.restarts \in 0..MaxRestarts /\ MaxRestarts \in Nat /\ P!p.restarts < MaxRestarts
    BY ParamAssumption DEF ParamInv, P!Restart, ParamStates
  <2> QED
    BY <2>1 DEF ParamStates
<1>2. params' = IF P!p.table = "season" THEN P!StartDownload(s, "request") ELSE P!Stage(s, "load")
  BY DEF P!Restart, P!Become
<1>3. /\ s \in ParamStates /\ s.table = P!p.table /\ s.central = P!p.central /\ s.fetched = P!p.fetched /\ s.local = P!p.local
      /\ s.lost = P!p.lost /\ ~s.clean /\ s.job = P!Idle
  <2>1. P!Idle \in P!Jobs
    BY <1>1, IdleTypes
  <2> QED
    BY <1>1, <2>1 DEF ParamStates
<1> HIDE DEF s
<1>4. Marks(s) /\ s.job.by # "monitor"
  BY <1>1, <1>3, IdleTypes DEF Marks, Has, Rec
<1>5. CASE P!p.table = "season"
  <2> DEFINE t == P!StartDownload(s, "request")
  <2>1. /\ t \in ParamStates /\ t.job.by = "request" /\ t.job.stage = IF Rec(P!p).clear = "first" THEN "clear" ELSE "select"
        /\ t.table = P!p.table /\ t.local = P!p.local /\ t.fetched = P!p.fetched /\ t.central = P!p.central
        /\ t.lost = P!p.lost /\ ~t.clean
    BY <1>3, StartTypes DEF P!p, Rec
  <2> HIDE DEF t
  <2>2. Rec(P!p).clear = "never" /\ Rec(P!p).pending = "row" /\ Rec(t) = Rec(P!p)
    BY <1>1, <1>5, <2>1, Recipes DEF Rec
  <2>3. Marks(t)
    BY <1>1, <2>1 DEF Marks, Has, Rec
  <2>4. Planned(t)
    BY <2>1, <2>2 DEF Planned
  <2> QED
    BY <1>2, <1>5, <2>1, <2>3, <2>4 DEF ParamInv, t
<1>6. CASE P!p.table # "season"
  BY <1>2, <1>3, <1>4, <1>6, LoadKeeps
<1> QED
  BY <1>5, <1>6

LEMMA ParamStepKeeps == ASSUME ParamInv(P!p), [P!ParamNext]_params PROVE ParamInv(params')
<1>1. CASE P!ParamNext
  BY <1>1, RequestKeeps, ClearKeeps, SelectNothingKeeps, SelectFailsKeeps, RowsDoneKeeps, MarkTableKeeps, LoadStepKeeps,
     LoadNothingKeeps, LoadFailsKeeps, SelectKeeps, RowKeeps, EditKeeps, TakeFlagKeeps, ClearSeasonKeeps, RestartKeeps
     DEF P!ParamNext
<1>2. CASE UNCHANGED params
  BY <1>2 DEF P!p
<1> QED
  BY <1>1, <1>2

LEMMA ParamInitKeeps == ASSUME P!ParamInit PROVE ParamInv(P!p)
<1>1. PICK t \in Tables :
        params = [table |-> t, central |-> [r \in Rows |-> 1], fetched |-> {}, local |-> {}, memory |-> {},
                  job |-> [P!Idle EXCEPT !.stage = IF t = "season" THEN "select" ELSE "load", !.by = "request"],
                  remoteErr |-> FALSE, clean |-> FALSE, lost |-> {}, edits |-> 0, faults |-> 0, restarts |-> 0]
  BY DEF P!ParamInit
<1> DEFINE j == [P!Idle EXCEPT !.stage = IF t = "season" THEN "select" ELSE "load", !.by = "request"]
<1>2. j \in P!Jobs /\ j.by = "request" /\ j.stage = IF t = "season" THEN "select" ELSE "load"
  BY DEF P!Idle, P!Jobs
<1> HIDE DEF j
<1>3. 0 \in 0..MaxEdits /\ 0 \in 0..MaxFaults /\ 0 \in 0..MaxRestarts
  BY ParamAssumption
<1>4. /\ P!p \in ParamStates /\ P!p.table = t /\ P!p.fetched = {} /\ ~P!p.clean /\ P!p.job = j
  BY <1>1, <1>2, <1>3 DEF ParamStates, P!p, j
<1>5. Marks(P!p)
  BY <1>4 DEF Marks
<1>6. t = "season" => P!recipes[t].clear = "never"
  BY Recipes
<1>7. Planned(P!p)
  BY <1>2, <1>4, <1>6 DEF Planned, Rec
<1> QED
  BY <1>4, <1>5, <1>7 DEF ParamInv

LEMMA InvArrives == ASSUME ParamInv(P!p) PROVE P!ParamTypeOK /\ P!EditsArrive
<1>1. P!ParamTypeOK
  BY DEF ParamInv, ParamStates, P!ParamTypeOK
<1>2. P!EditsArrive
  BY DEF ParamInv, Undisturbed, Arrived, Use, Has, Rec, P!EditsArrive, P!InUse, P!recipe
<1> QED
  BY <1>1, <1>2

------------------------------------------------------------------------------
\* The parts together.
\* The antenna's request and its loop agree while the antenna is the part that runs.
AntennaGood == part = "antenna" => AntennaInv(antenna)

\* The entry lane's numbers were recorded while it is the part that runs.
EntryGood == part = "entry" => E!Good(entry)

\* The files and what their workers and the backup believe of them agree.
FilesGood == part = "files" => F!FilesInv(files) /\ F!PoolFits(files)

\* The card reader is polled as long as a card is wanted while it is the part that runs.
KsmGood == part = "ksm" => KsmInv(ksm)

\* The parameters' tables hold what the download under way will replace while they are the part that runs.
ParamsGood == part = "params" => ParamInv(params)

\* One of the parts runs.
OnePart == part \in {"antenna", "ksm", "params", "entry", "files"}

\* A step belongs to one part, and the part stays the same.
LEMMA StepsApart ==
  ASSUME [Next]_vars
  PROVE  /\ part' = part
         /\ part = "antenna" => [A!AntennaNext]_antenna
         /\ part = "ksm" => [K!KsmNext]_ksm
         /\ part = "params" => [P!ParamNext]_params
         /\ part = "entry" => [E!EntryNext]_entry
         /\ part = "files" => [F!FilesNext]_files
<1>1. CASE Next
  BY <1>1 DEF Next, AntennaStep, KsmStep, ParamsStep, EntryStep, FilesStep
<1>2. CASE UNCHANGED vars
  BY <1>2 DEF vars
<1> QED
  BY <1>1, <1>2

LEMMA AntennaStays == Spec => []AntennaGood
<1>1. Init => AntennaGood
  <2> SUFFICES ASSUME Init, part = "antenna" PROVE AntennaInv(antenna)
    BY DEF AntennaGood
  <2>1. A!AntennaInit
    BY DEF Init
  <2> QED
    BY <2>1, AntennaFits, AntennaInitServes DEF A!a
<1>2. AntennaGood /\ [Next]_vars => AntennaGood'
  <2> SUFFICES ASSUME AntennaGood, [Next]_vars, part' = "antenna" PROVE AntennaInv(antenna')
    BY DEF AntennaGood
  <2>1. AntennaInv(antenna) /\ [A!AntennaNext]_antenna
    BY StepsApart DEF AntennaGood
  <2> QED
    BY <2>1, AntennaFits, AntennaStepServes DEF A!a
<1> QED
  BY <1>1, <1>2, PTL DEF Spec

LEMMA KsmStays == Spec => []KsmGood
<1>1. Init => KsmGood
  <2> SUFFICES ASSUME Init, part = "ksm" PROVE KsmInv(ksm)
    BY DEF KsmGood
  <2>1. K!KsmInit
    BY DEF Init
  <2> QED
    BY <2>1, KsmAssumption, KsmInitKeeps DEF K!k
<1>2. KsmGood /\ [Next]_vars => KsmGood'
  <2> SUFFICES ASSUME KsmGood, [Next]_vars, part' = "ksm" PROVE KsmInv(ksm')
    BY DEF KsmGood
  <2>1. KsmInv(ksm) /\ [K!KsmNext]_ksm
    BY StepsApart DEF KsmGood
  <2> QED
    BY <2>1, KsmAssumption, KsmStepKeeps DEF K!k
<1> QED
  BY <1>1, <1>2, PTL DEF Spec

LEMMA ParamsStay == Spec => []ParamsGood
<1>1. Init => ParamsGood
  <2> SUFFICES ASSUME Init, part = "params" PROVE ParamInv(params)
    BY DEF ParamsGood
  <2>1. P!ParamInit
    BY DEF Init
  <2> QED
    BY <2>1, ParamAssumption, ParamInitKeeps DEF P!p
<1>2. ParamsGood /\ [Next]_vars => ParamsGood'
  <2> SUFFICES ASSUME ParamsGood, [Next]_vars, part' = "params" PROVE ParamInv(params')
    BY DEF ParamsGood
  <2>1. ParamInv(params) /\ [P!ParamNext]_params
    BY StepsApart DEF ParamsGood
  <2> QED
    BY <2>1, ParamAssumption, ParamStepKeeps DEF P!p
<1> QED
  BY <1>1, <1>2, PTL DEF Spec

LEMMA EntryStays == Spec => []EntryGood
<1>1. Init => EntryGood
  <2> SUFFICES ASSUME Init, part = "entry" PROVE E!Good(entry)
    BY DEF EntryGood
  <2>1. E!EntryInit
    BY DEF Init
  <2> QED
    BY <2>1, EntryAssumption, E!InitKeeps DEF E!n
<1>2. EntryGood /\ [Next]_vars => EntryGood'
  <2> SUFFICES ASSUME EntryGood, [Next]_vars, part' = "entry" PROVE E!Good(entry')
    BY DEF EntryGood
  <2>1. E!Good(entry) /\ [E!EntryNext]_entry
    BY StepsApart DEF EntryGood
  <2> QED
    BY <2>1, EntryAssumption, E!StepKeeps DEF E!n
<1> QED
  BY <1>1, <1>2, PTL DEF Spec

LEMMA FilesStay == Spec => []FilesGood
<1>1. Init => FilesGood
  <2> SUFFICES ASSUME Init, part = "files" PROVE F!FilesInv(files) /\ F!PoolFits(files)
    BY DEF FilesGood
  <2>1. F!FilesInit
    BY DEF Init
  <2> QED
    BY <2>1, FilesFit, F!InitKeeps, F!InitFits
<1>2. FilesGood /\ [Next]_vars => FilesGood'
  <2> SUFFICES ASSUME FilesGood, [Next]_vars, part' = "files" PROVE F!FilesInv(files') /\ F!PoolFits(files')
    BY DEF FilesGood
  <2>1. F!FilesInv(files) /\ F!PoolFits(files) /\ [F!FilesNext]_files
    BY StepsApart DEF FilesGood
  <2>2. files \in F!FilesState
    BY <2>1 DEF F!FilesInv
  <2> QED
    BY <2>1, <2>2, FilesFit, F!EveryStepKeeps, F!EveryStepFits
<1> QED
  BY <1>1, <1>2, PTL DEF Spec

------------------------------------------------------------------------------
\* Whatever a part goes through, its state stays well formed: the queues hold what the code puts there and
\* are no longer than their bounds, and the entries of the mount registry (gMountRegistry in mount.cpp)
\* never count more than the two workers and the backup, nor a share that is not mounted.
THEOREM LaneTypes == Spec => []TypeOK
<1>1. AntennaGood /\ KsmGood /\ ParamsGood /\ EntryGood /\ FilesGood /\ OnePart => TypeOK
  <2> SUFFICES ASSUME AntennaGood, KsmGood, ParamsGood, EntryGood, FilesGood, OnePart PROVE TypeOK
    OBVIOUS
  <2>1. CASE part = "antenna"
    BY <2>1 DEF AntennaGood, TypeOK, A!a, AntennaInv, Serves, A!AntennaTypeOK
  <2>2. CASE part = "ksm"
    BY <2>2, InvPolls DEF KsmGood, TypeOK
  <2>3. CASE part = "params"
    BY <2>3, InvArrives DEF ParamsGood, TypeOK, P!p
  <2>4. CASE part = "entry"
    BY <2>4, EntryAssumption, E!GoodTypes DEF EntryGood, TypeOK, E!n
  <2>5. CASE part = "files"
    BY <2>5, FilesFit, F!InvTypes DEF FilesGood, TypeOK
  <2> QED
    BY <2>1, <2>2, <2>3, <2>4, <2>5 DEF OnePart
<1>2. Init => OnePart
  BY DEF Init, OnePart
<1>3. OnePart /\ [Next]_vars => OnePart'
  BY StepsApart DEF OnePart
<1> QED
  BY <1>1, <1>2, <1>3, AntennaStays, KsmStays, ParamsStay, EntryStays, FilesStay, PTL DEF Spec

LEMMA AntennaInvHolds == A!AntennaSpec => []AntennaInv(A!a)
<1>1. A!AntennaInit => AntennaInv(A!a)
  BY AntennaFits, AntennaInitServes
<1>2. AntennaInv(A!a) /\ [A!AntennaNext]_antenna => AntennaInv(A!a)'
  <2> SUFFICES ASSUME AntennaInv(A!a), [A!AntennaNext]_antenna PROVE AntennaInv(A!a)'
    OBVIOUS
  <2>1. AntennaInv(A!a')
    BY AntennaFits, AntennaStepServes
  <2> QED
    BY <2>1 DEF AntennaInv, Serves, StartPosted, A!a
<1> QED
  BY <1>1, <1>2, PTL DEF A!AntennaSpec

\* The antenna by itself: the counts of readings and commands stay below the limits that begin them again
\* (antIUCmdSendCount_, antIUCmdMinOKtimes_ in antenna.cpp).
THEOREM AntennaTypes == A!AntennaSpec => []A!AntennaTypeOK
<1>1. AntennaInv(A!a) => A!AntennaTypeOK
  BY DEF AntennaInv, Serves, A!AntennaTypeOK
<1> QED
  BY <1>1, AntennaInvHolds, PTL

\* The antenna by itself: a set continueReadFlag_ has a loop or the start of one, and that loop has the port
\* for itself (antenna.cpp).
THEOREM AntennaServes == A!AntennaSpec => []A!RequestIsServed
<1>1. AntennaInv(A!a) => A!RequestIsServed
  BY InvServes
<1> QED
  BY <1>1, AntennaInvHolds, PTL

\* However OP_IO's calls, the posts they leave and the coroutine's waits interleave, a request for a
\* unit's number (continueReadFlag_ in antenna.cpp) has a loop or the start of one, alone on the port.
THEOREM LaneServesRequests == Spec => []RequestIsServed
<1>1. AntennaGood => RequestIsServed
  <2> SUFFICES ASSUME AntennaGood, part = "antenna" PROVE A!RequestIsServed
    BY DEF RequestIsServed
  <2> QED
    BY InvServes DEF AntennaGood, A!a
<1> QED
  BY <1>1, AntennaStays, PTL

\* However the operator's calls, the posts they leave, the reader's answers and its silence interleave, a
\* card that is wanted keeps a request for the reader's status at work or queued (checkIfPoll and the
\* command queue in ksm_reader.cpp), until a card is in the gate or something ended the wait on purpose.
THEOREM LanePolls == Spec => []PollingIsKept
<1>1. KsmGood => PollingIsKept
  BY InvPolls DEF KsmGood, PollingIsKept
<1> QED
  BY <1>1, KsmStays, PTL

\* Whatever edits, faults and restarts come between the steps of a download, one that nothing disturbed
\* has brought every row the centre held to where the station uses it (the download functions and the
\* load functions of db.cpp).
THEOREM LaneDownloads == Spec => []EditsArrive
<1>1. ParamsGood => EditsArrive
  BY InvArrives DEF ParamsGood, EditsArrive, P!p
<1> QED
  BY <1>1, ParamsStay, PTL

\* Whichever way to a number comes first and however the units, the readers, the plates and the server
\* interrupt one another (VehicleCome, EnableCashcard, PBSEntry in operation.cpp), the barrier is opened
\* for a number that was recorded, and a visit is recorded once unless the code means to record it again.
THEOREM LaneRecordsEntries == Spec => []EntryIsRecorded
<1>1. EntryGood => EntryIsRecorded
  BY E!GoodRecorded DEF EntryGood, EntryIsRecorded, E!n
<1> QED
  BY <1>1, EntryStays, PTL

\* However the workers of the two readers, the daily backup, failures and restarts interleave, a record
\* that was written (eep_client.cpp, lcsc.cpp) is in its file at the station or in the copy on the
\* server's share, unless its name raced.
THEOREM LaneKeepsRecords == Spec => []RecordsAreKept
<1>1. FilesGood => RecordsAreKept
  BY F!InvKeeps DEF FilesGood, RecordsAreKept
<1> QED
  BY <1>1, FilesStay, PTL

\* A day that the backup has noted as done (lastBackupDay in main.cpp) has left no file of a former day
\* at the station.
THEOREM LaneMovesDays == Spec => []DoneMeansMoved
<1>1. FilesGood => DoneMeansMoved
  BY F!InvKeeps DEF FilesGood, DoneMeansMoved
<1> QED
  BY <1>1, FilesStay, PTL
=============================================================================
