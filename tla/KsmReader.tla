----------------------------- MODULE KsmReader -----------------------------
(***************************************************************************)
(* The card reader that swallows a cash card (ksm_reader.cpp) and what     *)
(* OP_IO does with its events (operation.cpp).  A coroutine on the thread  *)
(* KSM_READER_IO takes commands from a queue, one at a time; an answer may *)
(* enqueue the next command of the reading chain, and polling for a card   *)
(* is a command that enqueues itself again.  An answer is not matched with *)
(* its command, so one that came too late is taken for the next command's. *)
(***************************************************************************)
EXTENDS Integers, Sequences, SequencesExt

CONSTANTS
  LateAnswers,  \* an answer may arrive after its command was given up
  MaxCalls,     \* bound on the calls the lane makes
  MaxBacklog    \* bound on the events OP_IO has not handled yet

\* The commands that share the answer code 0x37 0x31, and those that read the card one after the other.
FileCmds == {"file1", "file2", "info", "balance"}
Chain == [on_ic |-> "power_on", power_on |-> "warm_reset", warm_reset |-> "file1", file1 |-> "file2",
          file2 |-> "info", info |-> "balance", balance |-> "power_off", power_off |-> "eject"]
Cmds == DOMAIN Chain \cup {"eject", "init", "allowed", "prohibited", "status"}

\* What OP_IO gets; "read_error" and "error" are the two KsmFailureActions.
Events == {"init", "in", "out", "taken", "card", "read_error", "error"}
Posts == Cmds \cup {"enable", "disable", "start", "close"}

VARIABLE ksm

\* cmd: currentCmd_ while it is executed, "" while the loop waits for its timer; late: a command whose
\* answer may still come; posts: to the thread; events: to OP_IO; reading: continueReadCard_; presented:
\* cardPresented_; inside: giCardIsIn; down: ErrNo of the reader; excused: the card was taken away, or a
\* late answer was taken for another's, since the last FnKSMReaderEnable(true).
KsmInit ==
  \E open \in BOOLEAN :
    ksm = [cmd |-> "", queue |-> << >>, late |-> "", posts |-> IF open THEN <<"init">> ELSE << >>,
           events |-> << >>, reading |-> FALSE, presented |-> FALSE, inside |-> 0, down |-> ~open,
           excused |-> FALSE, mixed |-> FALSE, stop |-> FALSE, port |-> open, calls |-> 0]

k == ksm
Become(s) == ksm' = s
Say(s, e) == [s EXCEPT !.events = Append(@, e)]

\* The call of a command posts it, unless the reader does not run or is being closed.
Post(s, p) == IF s.port /\ ~Contains(s.posts, "close") /\ ~s.stop THEN [s EXCEPT !.posts = Append(@, p)] ELSE s

------------------------------------------------------------------------------
\* The queue and the loop.

\* Variant: the request for the status is dropped while one is being executed.
EnqueueUnlessBusy(s, c) ==
  IF ~s.port \/ (c = "status" /\ (Contains(s.queue, c) \/ s.cmd = c)) THEN s
  ELSE [s EXCEPT !.queue = Append(@, c)]

\* A status request is never queued twice.
Enqueue(s, c) ==
  IF ~s.port \/ (c = "status" /\ Contains(s.queue, c)) THEN s
  ELSE [s EXCEPT !.queue = Append(@, c)]

\* All of them are taken out; there is at most one.
NoStatus(s) == [s EXCEPT !.queue = RemoveFirst(@, "status")]
PollAgain(s) == IF s.reading THEN Enqueue(s, "status") ELSE s

\* The enqueueing wakes the loop; it takes the next command when the last one is done.
Take ==
  /\ k.cmd = "" /\ k.queue # << >> /\ ~k.stop
  /\ Become([k EXCEPT !.cmd = Head(k.queue), !.queue = Tail(@)])

\* The status says a card is in, none is there, or anything else; only the first report of each counts.
Status(s, answer) ==
  CASE answer = "in" ->
         IF s.presented THEN s
         ELSE Say(NoStatus([s EXCEPT !.presented = TRUE, !.reading = FALSE]), "in")
    [] answer = "none" ->
         IF s.presented THEN Say([s EXCEPT !.presented = FALSE, !.excused = TRUE], "taken") ELSE PollAgain(s)
    [] OTHER -> PollAgain(s)

\* Variant: a failed step of the reading chain is only an error of the reader.
FailedQuietly(s) ==
  PollAgain(Say(s, "error"))

\* handleCommandFailure: OP_IO is told, and polling goes on.
Failed(s) ==
  LET told == Say(s, IF s.cmd \in DOMAIN Chain THEN "read_error" ELSE "error")
  IN IF s.cmd = "status" THEN PollAgain(told) ELSE told

\* handleCommandResponse goes by the code of the answer, and for the file commands by the command.
Answered(s, code, status) ==
  LET c == IF code \in FileCmds THEN s.cmd ELSE code
      told == IF c = "balance" THEN Say(s, "card") ELSE IF c = "eject" THEN Say(s, "out")
              ELSE IF c = "init" THEN Say(s, "init") ELSE s
  IN IF code \in FileCmds /\ s.cmd \notin FileCmds THEN Failed(s)
     ELSE IF c = "status" THEN Status(s, status)
     ELSE IF c \in DOMAIN Chain THEN Enqueue(told, Chain[c])
     ELSE told

\* The loop is done with the command; while it stops nothing more is reported.
Ends(s) == Len(s.events) <= MaxBacklog /\ Become([s EXCEPT !.cmd = ""])

Answer(status) ==
  /\ k.cmd # "" /\ k.port
  /\ Ends(Answered(k, k.cmd, status))

\* Skipped while the acknowledgement is awaited, an older answer is not skipped afterwards.
LateAnswer(status) ==
  /\ k.cmd # "" /\ k.port /\ k.late # ""
  /\ Ends(Answered([k EXCEPT !.late = "", !.mixed = TRUE, !.excused = TRUE], k.late, status))

\* The write, the acknowledgement or the answer failed or timed out, or the answer was no good.
NoAnswer(late) ==
  /\ k.cmd # ""
  /\ late => LateAnswers /\ k.port /\ ~k.mixed
  /\ Ends(IF k.stop THEN k ELSE [Failed(k) EXCEPT !.late = IF late THEN k.cmd ELSE @])

------------------------------------------------------------------------------
\* What the other threads posted.

Stopped(s) == [s EXCEPT !.stop = TRUE, !.reading = FALSE, !.queue = << >>, !.port = FALSE]

Posted(s, p) ==
  CASE p = "enable"  -> Enqueue(Enqueue([s EXCEPT !.reading = TRUE, !.excused = FALSE], "allowed"), "status")
    [] p = "disable" -> Enqueue(NoStatus([s EXCEPT !.reading = FALSE]), "prohibited")
    [] p = "start"   -> Enqueue([s EXCEPT !.reading = TRUE], "status")
    [] p = "close"   -> Stopped(s)
    [] OTHER         -> Enqueue(s, p)

RunPost ==
  /\ k.posts # << >>
  /\ Become(Posted([k EXCEPT !.posts = Tail(@)], Head(k.posts)))

------------------------------------------------------------------------------
\* OP_IO.  `paid' is gbEntryOK and `fit' says that the card is new to the visit and valid.

Calls(s) == [s EXCEPT !.calls = @ + 1]

Handled(s, e, fit, paid) ==
  CASE e = "init"       -> [s EXCEPT !.down = FALSE]
    [] e = "in"         -> Post([s EXCEPT !.inside = 1, !.down = FALSE], "on_ic")
    [] e = "out"        -> Post(s, "start")
    [] e = "card"       -> IF fit THEN [s EXCEPT !.down = FALSE] ELSE Post([s EXCEPT !.down = FALSE], "eject")
    [] e = "read_error" -> Post(s, "eject")
    [] e = "error"      -> [s EXCEPT !.down = TRUE]
    [] e = "taken"      -> IF paid /\ ~s.down THEN Post([s EXCEPT !.inside = 2], "disable")
                           ELSE [s EXCEPT !.inside = 2]

HandleEvent(fit, paid) ==
  /\ k.events # << >>
  /\ Become(Handled([k EXCEPT !.events = Tail(@)], Head(k.events), fit, paid))

\* EnableKDE: a card that is in is given back instead of locking the reader.
EnableKDE(enable) ==
  /\ k.calls < MaxCalls /\ ~k.down
  /\ Become(Calls(IF enable THEN Post(k, "enable")
                  ELSE IF k.inside = 1 THEN Post(k, "eject") ELSE Post(k, "disable")))

\* Every so often a reader that failed is initialised again.
CheckReader ==
  /\ k.calls < MaxCalls /\ k.down
  /\ Become(Calls(Post(k, "init")))

\* A visit begins or ends whether or not the card is still in.
Clearme ==
  /\ k.inside # 0
  /\ Become([k EXCEPT !.inside = 0])

FnKSMReaderClose ==
  /\ k.port /\ ~Contains(k.posts, "close") /\ ~k.stop
  /\ Become(Post(k, "close"))

Handles == \E fit, paid \in BOOLEAN : HandleEvent(fit, paid)

KsmNext ==
  \/ Take \/ RunPost \/ Handles
  \/ \E late \in BOOLEAN : NoAnswer(late)
  \/ \E status \in {"in", "none", "other"} : Answer(status) \/ LateAnswer(status)
  \/ \E enable \in BOOLEAN : EnableKDE(enable)
  \/ CheckReader \/ Clearme \/ FnKSMReaderClose

\* Each wait of the loop has a time-out; both threads serve what reaches them.
KsmFairness == WF_ksm(Take) /\ WF_ksm(RunPost) /\ WF_ksm(NoAnswer(FALSE)) /\ WF_ksm(Handles)

KsmSpec == KsmInit /\ [][KsmNext]_ksm /\ KsmFairness

------------------------------------------------------------------------------
KsmTypeOK ==
  /\ k.cmd \in Cmds \cup {""} /\ k.late \in Cmds \cup {""}
  /\ k.queue \in Seq(Cmds) /\ k.posts \in Seq(Posts) /\ k.events \in Seq(Events)
  /\ k.inside \in 0..2 /\ k.calls \in 0..MaxCalls
  /\ \A f \in {"reading", "presented", "down", "excused", "mixed", "stop", "port"} : k[f] \in BOOLEAN

\* While reading is wanted and no card is in, a status request is queued or under way, and never two are
\* queued: only then a card is noticed.  Polling is known to end otherwise in two ways, which the code
\* leaves to the next FnKSMReaderEnable(true): the card was taken away, or an answer was mismatched.
PollingIsKept ==
  /\ k.reading /\ ~k.presented /\ ~k.excused /\ k.port => k.cmd = "status" \/ Contains(k.queue, "status")
  /\ \A i, j \in DOMAIN k.queue : k.queue[i] = "status" /\ k.queue[j] = "status" => i = j

\* A card that came in is ordered out again, whatever fails on the way and whoever switches the reader:
\* OP_IO and the reading chain hand it on to each other.  (An order that itself fails is not repeated.)
CardIsIn    == Contains(k.events, "in")
CardIsGiven == k.cmd = "eject" \/ k.stop \/ k.mixed
CardIsOrderedOut == CardIsIn ~> CardIsGiven
==============================================================================
