------------------------------ MODULE Antenna ------------------------------
(***************************************************************************)
(* The antenna that reads in-vehicle units (antenna.cpp).  Two coroutines  *)
(* run on the thread ANTENNA_IO: the start-up, with four commands, and the *)
(* loop that asks for the unit's number until the same one has been read   *)
(* often enough.  OP_IO asks and stops by a flag and by posts.  One step   *)
(* is what a coroutine or a posted handler does up to its next co_await.   *)
(***************************************************************************)
EXTENDS Integers, Sequences

CONSTANTS
  Units,        \* numbers of in-vehicle units
  MinOKtimes,   \* antennaIUCmdMinOKtimes_: equal readings in a row that make a report
  MaxRetry,     \* antennaCmdMaxRetry_ (3): retries of a command
  ReadLimit,    \* 20: commands after which "no unit" is reported
  NakWillDo,    \* eps_ = 2: a command that is refused at the start-up is good enough
  MaxCalls      \* bound on the calls of OP_IO

Coroutines == {"init", "loop"}

\* off: ended or not begun; pause: the loop's timer; send, read: a command's two waits.
Stages == {"off", "pause", "send", "read"}

NoUnit == "none"
Events == [e : {"none", "power", "fail", "iu"}, of : Units \cup {NoUnit, "no", "yes", "1", "2"}]

\* A single equal reading never makes a report (antennaIUCmdMinOKtimes_ is compared before it counts).
AntennaAssumption ==
  /\ MinOKtimes \in Nat \ {0, 1} /\ MaxRetry \in Nat /\ ReadLimit \in Nat \ {0}
  /\ NakWillDo \in BOOLEAN /\ MaxCalls \in Nat /\ NoUnit \notin Units

VARIABLE antenna

\* asked: continueReadFlag_; at: where each coroutine waits; step: init's commands that are done;
\* attempt: of the command under way; sent: antIUCmdSendCount_; prev, okays: the last number and how
\* often it was read; posts: what OP_IO posted; stopping: stopping_; port: open; said: last event.
AntennaInit ==
  \E open \in BOOLEAN :
    antenna = [asked |-> FALSE, step |-> 0, attempt |-> 0, sent |-> 0, prev |-> NoUnit, okays |-> 0,
               at |-> [c \in Coroutines |-> IF c = "init" /\ open THEN "send" ELSE "off"],
               posts |-> << >>, stopping |-> FALSE, port |-> open, calls |-> 0,
               said |-> IF open THEN [e |-> "none", of |-> NoUnit] ELSE [e |-> "power", of |-> "no"]]

a == antenna
Become(s) == antenna' = s
Goes(s, c, stage) == [s EXCEPT !.at[c] = stage]
Say(s, e, of) == [s EXCEPT !.said = [e |-> e, of |-> of]]
Executing(s) == \E c \in Coroutines : s.at[c] \in {"send", "read"}

------------------------------------------------------------------------------
\* The loop.

\* Variant: ends after a report without taking the request back.
EndLoopAsked(s) == Goes(s, "loop", "off")

\* iuLoopRunning_ is cleared; the report takes the request back.
EndLoop(s) == [Goes(s, "loop", "off") EXCEPT !.asked = FALSE]

\* The test at the head of the loop, and the timer.
Pause(s) == IF s.asked /\ ~s.stopping THEN Goes(s, "loop", "pause") ELSE Goes(s, "loop", "off")

\* The timer ends; while the start-up has a command under way the loop only waits again.
PauseEnds ==
  /\ a.at["loop"] = "pause"
  /\ Become(IF ~a.asked \/ a.stopping THEN Goes(a, "loop", "off")
            ELSE IF Executing(a) THEN a
            ELSE [Goes(a, "loop", "send") EXCEPT !.attempt = 0])

\* Variant: the count is not begun again after a report.
CountedOn(s, certain) ==
  Pause(IF s.sent + 1 >= ReadLimit THEN Say([s EXCEPT !.sent = @ + 1], "fail", "2")
        ELSE [s EXCEPT !.sent = @ + 1])

\* Counts the command, and reports when the number is certain or no number ever comes.
Counted(s, certain) ==
  IF certain THEN EndLoop(Say([s EXCEPT !.sent = @ + 1, !.prev = NoUnit, !.okays = 0], "iu", s.prev))
  ELSE Pause(IF s.sent + 1 >= ReadLimit THEN Say([s EXCEPT !.sent = 0], "fail", "2")
             ELSE [s EXCEPT !.sent = @ + 1])

------------------------------------------------------------------------------
\* A command: antennaCmdAsync with its retries.

Powered(s, ok) == Say(Goes(s, "init", "off"), "power", IF ok THEN "yes" ELSE "no")

\* The start-up goes on after an acknowledgement; it has four commands.
Initialised(s, answer) ==
  IF answer = "ack" /\ s.step < 3 THEN [Goes(s, "init", "send") EXCEPT !.step = @ + 1, !.attempt = 0]
  ELSE Powered(s, answer = "ack" \/ (answer = "nak" /\ NakWillDo))

Done(s, c, answer) == IF c = "init" THEN Initialised(s, answer) ELSE Counted(s, FALSE)

\* Variant: the retries are not counted.
RetryAlways(s, c) == Goes(s, c, "send")

\* An attempt failed: the next one, or the failure is reported.
Retry(s, c) ==
  IF s.stopping THEN Done(s, c, "none")
  ELSE IF s.attempt < MaxRetry THEN [Goes(s, c, "send") EXCEPT !.attempt = @ + 1]
  ELSE Done(Say(s, "fail", "1"), c, "none")

Send(c, ok) ==
  /\ a.at[c] = "send"
  /\ ok => a.port
  /\ Become(IF ok THEN Goes(a, c, "read") ELSE Retry(a, c))

\* The time-out cancels the read; a closed port ends it too.
NoResponse(c) ==
  /\ a.at[c] = "read"
  /\ Become(Retry(a, c))

\* A response of another kind than a number is taken for the command's, whichever it answers.
Response(c, answer) ==
  /\ a.at[c] = "read" /\ a.port
  /\ Become(Done(a, c, answer))

\* Equal readings in a row are counted, across calls of Stop and Send too.
Number(s, u) ==
  IF s.prev = u THEN [s EXCEPT !.okays = @ + 1] ELSE [s EXCEPT !.prev = u, !.okays = 1]

NumberRead(u) ==
  /\ a.at["loop"] = "read" /\ a.port
  /\ LET s == Number(a, u) IN Become(Counted(s, s.okays = MinOKtimes))

------------------------------------------------------------------------------
\* The calls of OP_IO, and what they post.

Post(s, p) == [s EXCEPT !.posts = Append(@, p), !.calls = @ + 1]

FnAntennaSendReadIUCmd ==
  /\ a.calls < MaxCalls /\ ~a.stopping /\ ~a.asked
  /\ Become(Post([a EXCEPT !.asked = TRUE], "start"))

FnAntennaStopRead ==
  /\ a.calls < MaxCalls /\ ~a.stopping
  /\ Become(Post([a EXCEPT !.asked = FALSE], "wake"))

FnAntennaShutdown ==
  /\ ~a.stopping
  /\ Become([Post(a, "close") EXCEPT !.stopping = TRUE, !.asked = FALSE])

\* A second loop is not started.
Start(s) ==
  IF ~s.port THEN [s EXCEPT !.asked = FALSE]
  ELSE IF s.at["loop"] # "off" THEN s
  ELSE Pause([s EXCEPT !.sent = 0])

\* A cancelled timer lets the loop look at the flag.
Wake(s) == IF s.at["loop"] = "pause" THEN Pause(s) ELSE s

RunPost ==
  /\ a.posts # << >>
  /\ LET s == [a EXCEPT !.posts = Tail(@)]
     IN Become(CASE Head(a.posts) = "start" -> Start(s)
                 [] Head(a.posts) = "wake" -> Wake(s)
                 [] Head(a.posts) = "close" -> Wake([s EXCEPT !.asked = FALSE, !.port = FALSE]))

\* What the thread does when the port and the timers let it.
Runs ==
  \/ RunPost \/ PauseEnds
  \/ \E c \in Coroutines : NoResponse(c)
  \/ \E c \in Coroutines, ok \in BOOLEAN : Send(c, ok)

AntennaNext ==
  \/ Runs
  \/ \E c \in Coroutines, answer \in {"ack", "nak"} : Response(c, answer)
  \/ \E u \in Units : NumberRead(u)
  \/ FnAntennaSendReadIUCmd \/ FnAntennaStopRead \/ FnAntennaShutdown

\* The thread serves what is posted; the write completes and both time-outs pass.
AntennaFairness == WF_antenna(Runs)

AntennaSpec == AntennaInit /\ [][AntennaNext]_antenna /\ AntennaFairness

------------------------------------------------------------------------------
AntennaState ==
  [asked : BOOLEAN, stopping : BOOLEAN, port : BOOLEAN, at : [Coroutines -> Stages], step : 0..3,
   attempt : 0..MaxRetry, sent : 0..ReadLimit, prev : Units \cup {NoUnit}, okays : 0..MinOKtimes,
   posts : Seq({"start", "wake", "close"}), calls : 0..MaxCalls + 1, said : Events]

AntennaTypeOK == a \in AntennaState /\ a.at["init"] # "pause"

\* FnAntennaSendReadIUCmd does nothing while the flag is set, trusting that a loop runs: so a set
\* flag has a loop, or the start of one is posted; and the loop never shares the port with another
\* command, whose answer it would take for its own.
RequestIsServed ==
  /\ a.asked => a.at["loop"] # "off" \/ \E i \in DOMAIN a.posts : a.posts[i] = "start"
  /\ \E c \in Coroutines : a.at[c] \notin {"send", "read"}

\* A stopped loop ends, though the antenna is silent: every wait has an end, so that the next vehicle
\* does not meet the loop of the last one, and closing can join the thread.
LoopStopped == ~a.asked \/ a.stopping
LoopOver    == a.at["loop"] = "off" \/ (a.asked /\ ~a.stopping)
StoppedLoopEnds == LoopStopped ~> LoopOver
==============================================================================
