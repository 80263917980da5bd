-------------------------- MODULE LcscDriverProofs --------------------------
(***************************************************************************)
(* Proofs about the card reader's driver: that it implements Settlement,   *)
(* so that no transaction is flushed at the reader that is not settled,    *)
(* for every plan of calls and every number of faults; and, as long as one *)
(* thing at most went wrong, where the command at work is.                 *)
(***************************************************************************)
EXTENDS LcscDriver, SequenceTheorems, TLAPS

Words ==
  {"command", "chunks", "chunk_error", "written", "write_failed", "write_timeout", "received", "timeout", "handled",
   "rejected", "next", "all", "check", "allow", "continue", "downloaded", "no_files", "uploading", "get_status",
   "uploaded", "failed", "cleaned", "status_ok", "status_failed", "finalized", "not_finalized", "queue", "expired",
   "file"}
Results == {"ok", "no", "none", "failed", "garbled", "more", "unflushed"}

\* S: the settled transactions; T: how many were taken.  A flush is only commanded of a settled one, the
\* reader answers only with what it took, and OP_IO is told of a record only when it is settled.
Cmds(S)    == {c \in [c : Codes, id : Nat] : c.c = "flush" => c.id \in S}
Replies   == [c : Codes \cup {"none"}, r : Results, id : Nat]
Charged(T) == {a \in Replies : a.c \in {"deduct", "record"} /\ a.r = "ok" => a.id \in 1..T}
Reports(S) == {a \in Replies : a.c = "record" /\ a.r = "ok" => a.id \in S}
Plain == {"event", "check", "upload", "writeTimer", "answerTimer", "unprepared"}
Tasks(S) == [t : {"enqueue"}, x : Cmds(S)] \cup [t : Plain, x : Words] \cup [t : {"scanned"}, x : BOOLEAN]

Fields(S, T, settled) ==
  [state : States, current : Cmds(S), queue : Seq(Cmds(S)), chunks : Nat, reading : BOOLEAN, frame : Charged(T),
   out : {"none", "busy", "late"}, writeTimer : BOOLEAN, answerTimer : BOOLEAN, posts : Seq(Tasks(S)),
   upload : UploadStates, has : BOOLEAN, done : BOOLEAN, file : BOOLEAN, files : 0..1, jobs : [Jobs -> Nat],
   settled : {settled}, stopping : BOOLEAN, odd : BOOLEAN, reports : 0..1]

\* While a card is read for a request, no balance has been reported for it.
Holding(S, T, settled) == {s \in Fields(S, T, settled) : s.reading => s.reports = 0}

Driver(S, T) == Holding(S, T, S)

\* A driver and what it says.
Said(S, T) == [s : Driver(S, T), ev : Seq(Reports(S))]

\* The reader keeps one transaction until it is flushed.
Reader ==
  [wire : Seq(Charged(reader.taken)), record : Nat, taken : Nat, flushed : SUBSET Nat]

Kept ==
  /\ reader.record = 0 => reader.flushed = 1..reader.taken
  /\ reader.record # 0 => reader.record = reader.taken /\ reader.flushed = 1..(reader.taken - 1)

MoneyInv ==
  /\ lcsc \in Driver(lcsc.settled, reader.taken)
  /\ lcsc.settled \subseteq 1..reader.taken
  /\ reader \in Reader /\ Kept
  /\ op \in [left : [Calls -> Nat], events : Seq(Reports(lcsc.settled))]

------------------------------------------------------------------------------
\* The queue.

LEMMA CommandTypes ==
  ASSUME NEW S, NEW c \in Codes, c # "flush" PROVE Command(c, 0) \in Cmds(S)
BY DEF Command, Cmds

LEMMA PostsTypes ==
  ASSUME NEW S, NEW T, NEW s \in Driver(S, T), NEW q \in Seq(Tasks(S))
  PROVE  [s EXCEPT !.posts = q] \in Driver(S, T)
BY DEF Driver, Holding, Fields

LEMMA PostTypes ==
  ASSUME NEW S, NEW T, NEW s \in Driver(S, T), NEW t \in Plain, NEW x \in Words
  PROVE  Post(s, t, x) \in Driver(S, T)
<1>1. [t |-> t, x |-> x] \in Tasks(S)
  BY DEF Tasks
<1> DEFINE task == [t |-> t, x |-> x]
           q == Append(s.posts, task)
<1>2. s.posts \in Seq(Tasks(S)) /\ task \in Tasks(S)
  BY <1>1 DEF Driver, Holding, Fields
<1>3. Post(s, t, x) = [s EXCEPT !.posts = q]
  BY DEF Post
<1> HIDE DEF task
<1>4. q \in Seq(Tasks(S))
  BY <1>2
<1> HIDE DEF q
<1> QED
  BY <1>3, <1>4, PostsTypes

LEMMA EventTypes ==
  ASSUME NEW S, NEW T, NEW s \in Driver(S, T), NEW x \in Words
  PROVE  Event(s, x) \in Driver(S, T) /\ UploadEvent(s, x) \in Driver(S, T)
BY PostTypes DEF Event, UploadEvent, Plain

LEMMA CheckTypes ==
  ASSUME NEW S, NEW T, NEW s \in Driver(S, T)
  PROVE  CheckCommandQueue(s) \in Driver(S, T)
<1>1. Event(s, "chunks") \in Driver(S, T) /\ Event(s, "command") \in Driver(S, T)
  BY EventTypes DEF Words
<1> QED
  BY <1>1 DEF CheckCommandQueue

LEMMA QueueTypes ==
  ASSUME NEW S, NEW T, NEW s \in Driver(S, T), NEW q \in Seq(Cmds(S))
  PROVE  [s EXCEPT !.queue = q] \in Driver(S, T)
BY DEF Driver, Holding, Fields

LEMMA EnqueueTypes ==
  ASSUME NEW S, NEW T, NEW s \in Driver(S, T), NEW c \in Cmds(S)
  PROVE  Enqueue(s, c) \in Driver(S, T) /\ EnqueueToFront(s, c) \in Driver(S, T)
<1>1. s.queue \in Seq(Cmds(S))
  BY DEF Driver, Holding, Fields
<1>2. Append(s.queue, c) \in Seq(Cmds(S)) /\ <<c>> \o s.queue \in Seq(Cmds(S))
  BY <1>1
<1> QED
  BY <1>2, QueueTypes, CheckTypes DEF Enqueue, EnqueueToFront

\* The fields that no property of the money looks at.
LEMMA StateTypes ==
  ASSUME NEW S, NEW T, NEW s \in Driver(S, T), NEW state \in States
  PROVE  [s EXCEPT !.state = state] \in Driver(S, T)
BY DEF Driver, Holding, Fields

LEMMA UploadTypes ==
  ASSUME NEW S, NEW T, NEW s \in Driver(S, T), NEW upload \in UploadStates
  PROVE  [s EXCEPT !.upload = upload] \in Driver(S, T)
BY DEF Driver, Holding, Fields

LEMMA OutTypes ==
  ASSUME NEW S, NEW T, NEW s \in Driver(S, T), NEW out \in {"none", "busy", "late"}
  PROVE  [s EXCEPT !.out = out] \in Driver(S, T)
BY DEF Driver, Holding, Fields

LEMMA TimerTypes ==
  ASSUME NEW S, NEW T, NEW s \in Driver(S, T), NEW b \in BOOLEAN
  PROVE  [s EXCEPT !.writeTimer = b] \in Driver(S, T) /\ [s EXCEPT !.answerTimer = b] \in Driver(S, T)
BY DEF Driver, Holding, Fields

LEMMA FlagTypes ==
  ASSUME NEW S, NEW T, NEW s \in Driver(S, T), NEW b \in BOOLEAN
  PROVE  /\ [s EXCEPT !.odd = b] \in Driver(S, T) /\ [s EXCEPT !.reading = FALSE] \in Driver(S, T)
         /\ [s EXCEPT !.has = b] \in Driver(S, T) /\ [s EXCEPT !.done = b] \in Driver(S, T)
         /\ [s EXCEPT !.file = b] \in Driver(S, T) /\ [s EXCEPT !.stopping = b] \in Driver(S, T)
<1>1. [s EXCEPT !.odd = b] \in Driver(S, T) /\ [s EXCEPT !.reading = FALSE] \in Driver(S, T)
  BY DEF Driver, Holding, Fields
<1>2. [s EXCEPT !.has = b] \in Driver(S, T) /\ [s EXCEPT !.done = b] \in Driver(S, T)
  BY DEF Driver, Holding, Fields
<1>3. [s EXCEPT !.file = b] \in Driver(S, T) /\ [s EXCEPT !.stopping = b] \in Driver(S, T)
  BY DEF Driver, Holding, Fields
<1> QED
  BY <1>1, <1>2, <1>3

LEMMA CountTypes ==
  ASSUME NEW S, NEW T, NEW s \in Driver(S, T), NEW k \in Nat
  PROVE  [s EXCEPT !.chunks = k] \in Driver(S, T)
BY DEF Driver, Holding, Fields

LEMMA FilesTypes ==
  ASSUME NEW S, NEW T, NEW s \in Driver(S, T), NEW k \in 0..1
  PROVE  [s EXCEPT !.files = k] \in Driver(S, T)
BY DEF Driver, Holding, Fields

LEMMA NumberTypes ==
  ASSUME NEW S, NEW T, NEW s \in Driver(S, T)
  PROVE  /\ [s EXCEPT !.chunks = 0] \in Driver(S, T)
         /\ [s EXCEPT !.files = 0] \in Driver(S, T) /\ [s EXCEPT !.files = 1] \in Driver(S, T)
<1>1. 0 \in Nat /\ 0 \in 0..1 /\ 1 \in 0..1
  OBVIOUS
<1>2. /\ \A k \in Nat : [s EXCEPT !.chunks = k] \in Driver(S, T)
      /\ \A k \in 0..1 : [s EXCEPT !.files = k] \in Driver(S, T)
  BY CountTypes, FilesTypes
<1> QED
  BY <1>1, <1>2, Zenon

\* The two steps of reading a card: the request, and the balance that ends it.
LEMMA RequestTypes ==
  ASSUME NEW S, NEW T, NEW s \in Driver(S, T)
  PROVE  [[s EXCEPT !.reading = TRUE] EXCEPT !.reports = 0] \in Driver(S, T)
<1> DEFINE new == [[s EXCEPT !.reading = TRUE] EXCEPT !.reports = 0]
<1>1. s \in Fields(S, T, S)
  BY DEF Driver, Holding
<1>2. \A k \in 0..1 : [[s EXCEPT !.reading = TRUE] EXCEPT !.reports = k] \in Fields(S, T, S)
  <2> DEFINE r == [s EXCEPT !.reading = TRUE]
  <2>1. r \in Fields(S, T, S)
    BY <1>1, ZenonT(30) DEF Fields
  <2> HIDE DEF r
  <2>2. \A k \in 0..1 : [r EXCEPT !.reports = k] \in Fields(S, T, S)
    BY <2>1 DEF Fields
  <2> QED
    BY <2>2 DEF r
<1>3. new \in Fields(S, T, S)
  BY <1>2, 0 \in 0..1, Zenon
<1>4. new.reports = 0
  BY <1>1 DEF Fields
<1> QED
  BY <1>3, <1>4 DEF Driver, Holding

LEMMA BalanceTypes ==
  ASSUME NEW S, NEW T, NEW s \in Driver(S, T), s.reading
  PROVE  [s EXCEPT !.reading = FALSE, !.reports = @ + 1] \in Driver(S, T)
<1> DEFINE new == [[s EXCEPT !.reading = FALSE] EXCEPT !.reports = 1]
<1>1. s \in Fields(S, T, S) /\ s.reports = 0
  BY DEF Driver, Holding
<1>2. \A k \in 0..1 : [[s EXCEPT !.reading = FALSE] EXCEPT !.reports = k] \in Fields(S, T, S)
  <2> DEFINE r == [s EXCEPT !.reading = FALSE]
  <2>1. r \in Fields(S, T, S)
    BY <1>1, ZenonT(30) DEF Fields
  <2> HIDE DEF r
  <2>2. \A k \in 0..1 : [r EXCEPT !.reports = k] \in Fields(S, T, S)
    BY <2>1 DEF Fields
  <2> QED
    BY <2>2 DEF r
<1>3. new \in Fields(S, T, S)
  BY <1>2, 1 \in 0..1, Zenon
<1>4. new.reading = FALSE
  BY <1>1 DEF Fields
<1>5. [s EXCEPT !.reading = FALSE, !.reports = @ + 1] = new
  BY <1>1
<1> QED
  BY <1>3, <1>4, <1>5 DEF Driver, Holding

LEMMA JobsTypes ==
  ASSUME NEW S, NEW T, NEW s \in Driver(S, T), NEW jobs \in [Jobs -> Nat]
  PROVE  [s EXCEPT !.jobs = jobs] \in Driver(S, T)
BY DEF Driver, Holding, Fields

LEMMA JobTypes ==
  ASSUME NEW S, NEW T, NEW s \in Driver(S, T), NEW j \in Jobs, NEW k \in Nat
  PROVE  [s EXCEPT !.jobs[j] = k] \in Driver(S, T)
<1>1. s.jobs \in [Jobs -> Nat]
  BY DEF Driver, Holding, Fields
<1>2. [s.jobs EXCEPT ![j] = k] \in [Jobs -> Nat]
  BY <1>1
<1>3. [s EXCEPT !.jobs = [s.jobs EXCEPT ![j] = k]] \in Driver(S, T)
  BY <1>2, JobsTypes
<1>4. [s EXCEPT !.jobs[j] = k] = [s EXCEPT !.jobs = [s.jobs EXCEPT ![j] = k]]
  OBVIOUS
<1> QED
  BY <1>1, <1>2, <1>3, <1>4

LEMMA StartJobTypes ==
  ASSUME NEW S, NEW T, NEW s \in Driver(S, T), NEW j \in Jobs
  PROVE  StartJob(s, j) \in Driver(S, T)
<1> DEFINE k == s.jobs[j] + 1
<1>1. k \in Nat
  BY DEF Driver, Holding, Fields
<1>2. StartJob(s, j) = [s EXCEPT !.jobs[j] = k]
  BY DEF StartJob
<1> HIDE DEF k
<1> QED
  BY <1>1, <1>2, JobTypes
------------------------------------------------------------------------------
\* Failures and answers.

\* What may become of the settled transactions by an answer.
Settles(S, T) == {S} \cup {S \cup {id} : id \in 1..T}

LEMMA SilentTypes ==
  ASSUME NEW S, NEW T, NEW s \in Driver(S, T)
  PROVE  Silent(s) \in Said(S, T)
BY DEF Silent, Says, Said

LEMMA SaysTypes ==
  ASSUME NEW S, NEW T, NEW s \in Driver(S, T), NEW a \in Reports(S)
  PROVE  Says(s, <<a>>) \in Said(S, T)
BY DEF Says, Said

LEMMA AlsoTypes ==
  ASSUME NEW S, NEW T, NEW s \in Driver(S, T), NEW h \in Said(S, T)
  PROVE  Says(s, h.ev) \in Said(S, T) /\ h.s \in Driver(S, T) /\ Silent(s) \in Said(S, T)
BY SilentTypes DEF Says, Said

LEMMA FailedTypes ==
  ASSUME NEW S, NEW T, NEW s \in Driver(S, T), NEW c \in Codes
  PROVE  Failed(s, c) \in Said(S, T)
<1>1. UploadEvent(s, "status_failed") \in Driver(S, T)
  BY EventTypes DEF Words
<1>2. Answer(c, "failed", 0) \in Reports(S)
  BY DEF Answer, Reports, Replies, Results
<1>3. c # "flush" => EnqueueToFront(s, Command(c, 0)) \in Driver(S, T)
  BY CommandTypes, EnqueueTypes
<1> QED
  BY <1>1, <1>2, <1>3, SilentTypes, SaysTypes DEF Failed

LEMMA CurrentTypes == ASSUME NEW S, NEW T, NEW s \in Driver(S, T) PROVE s.current.c \in Codes
BY DEF Driver, Holding, Fields, Cmds

LEMMA RejectTypes ==
  ASSUME NEW S, NEW T, NEW s \in Driver(S, T)
  PROVE  Reject(s) \in Said(S, T)
<1> DEFINE f == Failed([s EXCEPT !.answerTimer = FALSE], s.current.c)
<1>1. f \in Said(S, T)
  BY TimerTypes, FailedTypes, CurrentTypes
<1> HIDE DEF f
<1>2. f.s \in Driver(S, T)
  BY <1>1 DEF Said
<1>3. UploadEvent(f.s, "failed") \in Driver(S, T)
  BY <1>2, EventTypes DEF Words
<1>4. Event(f.s, "rejected") \in Driver(S, T) /\ Event(UploadEvent(f.s, "failed"), "rejected") \in Driver(S, T)
  BY <1>2, <1>3, EventTypes DEF Words
<1> QED
  BY <1>1, <1>4, AlsoTypes DEF Reject, f

\* Settling a transaction is what the invariant is about.
LEMMA HoldingTypes ==
  ASSUME NEW S, NEW T, NEW old, NEW s \in Holding(S, T, old)
  PROVE  [s EXCEPT !.settled = S] \in Driver(S, T)
BY DEF Driver, Holding, Fields

LEMMA SettledTypes ==
  ASSUME NEW S, NEW T, NEW s \in Driver(S, T), NEW id
  PROVE  Settled(s, id) \in Driver(S \cup {id}, T)
<1> DEFINE more == S \cup {id}
<1>1. Cmds(S) \subseteq Cmds(more)
  BY DEF Cmds
<1>2. Tasks(S) \subseteq Tasks(more)
  BY <1>1 DEF Tasks
<1>3. Seq(Cmds(S)) \subseteq Seq(Cmds(more)) /\ Seq(Tasks(S)) \subseteq Seq(Tasks(more))
  BY <1>1, <1>2, SeqMonotonic
<1>4. s.settled = S
  BY DEF Driver, Holding, Fields
<1> HIDE DEF more
<1>5. s \in Holding(more, T, S)
  BY <1>1, <1>3 DEF Driver, Holding, Fields
<1>6. [s EXCEPT !.settled = more] \in Driver(more, T)
  BY <1>5, HoldingTypes
<1> QED
  BY <1>4, <1>6 DEF Settled, more

\* Whatever comes of a step, at most one transaction is settled by it, and it was taken.
Outcome(S, T) == UNION {Said(R, T) : R \in Settles(S, T)}

LEMMA SaidOutcome == ASSUME NEW S, NEW T PROVE Said(S, T) \subseteq Outcome(S, T)
BY DEF Outcome, Settles

LEMMA HeardTypes ==
  ASSUME NEW S, NEW T, NEW f \in Charged(T), f.c # "record"
  PROVE  f \in Reports(S)
BY DEF Charged, Reports

LEMMA CardReadTypes ==
  ASSUME NEW S, NEW T, NEW s \in Driver(S, T), NEW f \in Charged(T), f.c \in {"card_id", "balance"}
  PROVE  CardRead(s, f) \in Said(S, T) /\ BalanceRead(s, f) \in Said(S, T)
<1>1. f \in Reports(S) /\ f.c \in Codes /\ f.c # "flush" /\ "balance" \in Codes
  BY HeardTypes DEF Codes
<1>2. Command(f.c, 0) \in Cmds(S) /\ Command("balance", 0) \in Cmds(S)
  BY <1>1, CommandTypes
<1>3. EnqueueToFront(s, Command(f.c, 0)) \in Driver(S, T) /\ Enqueue(s, Command("balance", 0)) \in Driver(S, T)
  BY <1>2, EnqueueTypes
<1>4. s.reading => [s EXCEPT !.reading = FALSE, !.reports = @ + 1] \in Driver(S, T)
  BY BalanceTypes
<1> QED
  BY <1>1, <1>3, <1>4, SilentTypes, SaysTypes DEF CardRead, BalanceRead

LEMMA LoggedInTypes ==
  ASSUME NEW S, NEW T, NEW s \in Driver(S, T), NEW f \in Charged(T), f.c # "record"
  PROVE  LoggedIn(s, f) \in Said(S, T) /\ StatusRead(s, f) \in Said(S, T) /\ Says(s, <<f>>) \in Said(S, T)
<1>1. f \in Reports(S)
  BY HeardTypes
<1>2. Enqueue(s, Command("login2", 0)) \in Driver(S, T)
  BY CommandTypes, EnqueueTypes DEF Codes
<1>3. UploadEvent(s, "status_ok") \in Driver(S, T) /\ UploadEvent(s, "status_failed") \in Driver(S, T)
  BY EventTypes DEF Words
<1> QED
  BY <1>1, <1>2, <1>3, SaysTypes DEF LoggedIn, StatusRead

\* A deduction that succeeded is settled before its flush is commanded, a record before it is reported.
LEMMA DeductedTypes ==
  ASSUME NEW S, NEW T, NEW s \in Driver(S, T), NEW f \in Charged(T), f.c \in {"deduct", "record"}
  PROVE  /\ f.c = "deduct" => Deducted(s, f) \in Outcome(S, T)
         /\ f.c = "record" => RecordRead(s, f) \in Outcome(S, T)
<1> DEFINE more == S \cup {f.id}
<1>1. f.r = "ok" => more \in Settles(S, T) /\ f.id \in Nat
  BY DEF Charged, Replies, Settles
<1>2. Settled(s, f.id) \in Driver(more, T)
  BY SettledTypes
<1>3. f.r = "ok" => Command("flush", f.id) \in Cmds(more)
  BY <1>1 DEF Command, Cmds, Codes
<1>4. f \in Reports(more)
  BY DEF Charged, Reports
<1>5. f.c = "deduct" \/ f.r # "ok" => f \in Reports(S)
  BY DEF Charged, Reports
<1> HIDE DEF more
<1>6. f.r = "ok" => EnqueueToFront(Settled(s, f.id), Command("flush", f.id)) \in Driver(more, T)
  BY <1>2, <1>3, EnqueueTypes
<1>7. f.r = "ok" =>
        /\ Says(EnqueueToFront(Settled(s, f.id), Command("flush", f.id)), <<f>>) \in Said(more, T)
        /\ Says(Settled(s, f.id), <<f>>) \in Said(more, T)
  BY <1>2, <1>4, <1>6, SaysTypes
<1>8. f.r # "ok" => Says(s, <<f>>) \in Said(S, T)
  BY <1>5, SaysTypes
<1>9. f.r = "ok" => Said(more, T) \subseteq Outcome(S, T)
  BY <1>1 DEF Outcome
<1> QED
  BY <1>7, <1>8, <1>9, SaidOutcome DEF Deducted, RecordRead

LEMMA ResponseTypes ==
  ASSUME NEW S, NEW T, NEW s \in Driver(S, T), NEW f \in Charged(T)
  PROVE  Response(s, f) \in Outcome(S, T)
<1>1. CASE f.c \in {"card_id", "balance"}
  BY <1>1, CardReadTypes, SaidOutcome DEF Response
<1>2. CASE f.c \in {"deduct", "record"}
  BY <1>2, DeductedTypes DEF Response
<1>3. CASE f.c \notin {"card_id", "balance", "deduct", "record"}
  BY <1>3, LoggedInTypes, SaidOutcome DEF Response
<1> QED
  BY <1>1, <1>2, <1>3

LEMMA ChunkResponseTypes ==
  ASSUME NEW S, NEW T, NEW s \in Driver(S, T), NEW f \in Charged(T)
  PROVE  ChunkResponse(s, f) \in Said(S, T)
<1>1. Event(s, "next") \in Driver(S, T) /\ Event(s, "all") \in Driver(S, T) /\ Event(s, "chunk_error") \in Driver(S, T)
  BY EventTypes DEF Words
<1>2. /\ UploadEvent(Event(s, "all"), "uploaded") \in Driver(S, T)
      /\ UploadEvent(Event(s, "chunk_error"), "failed") \in Driver(S, T)
  BY <1>1, EventTypes DEF Words
<1>3. Command("login1", 0) \in Cmds(S)
  BY CommandTypes DEF Codes
<1>4. Enqueue(UploadEvent(Event(s, "chunk_error"), "failed"), Command("login1", 0)) \in Driver(S, T)
  BY <1>2, <1>3, EnqueueTypes
<1> QED
  BY <1>1, <1>2, <1>4, SilentTypes DEF ChunkResponse

LEMMA FrameTypes ==
  ASSUME NEW S, NEW T, NEW s \in Driver(S, T), NEW a \in Charged(T)
  PROVE  [s EXCEPT !.frame = a] \in Driver(S, T)
BY DEF Driver, Holding, Fields

LEMMA NoneTypes == ASSUME NEW T PROVE None \in Charged(T)
BY DEF None, Answer, Charged, Replies, Results

LEMMA ReceivedTypes ==
  ASSUME NEW S, NEW T, NEW s \in Driver(S, T)
  PROVE  Received(s) \in Outcome(S, T)
<1> DEFINE f == s.frame
           read == [s EXCEPT !.frame = None]
           timed == [read EXCEPT !.answerTimer = FALSE]
           r == Response(timed, f)
<1>1. f \in Charged(T)
  BY DEF Driver, Holding, Fields
<1>2. read \in Driver(S, T)
  BY FrameTypes, NoneTypes
<1>3. timed \in Driver(S, T)
  BY <1>2, TimerTypes
<1> HIDE DEF timed
<1>4. r \in Outcome(S, T)
  BY <1>1, <1>3, ResponseTypes
<1>5. Says(Event(r.s, "handled"), r.ev) \in Outcome(S, T)
  <2> HIDE DEF r
  <2>1. PICK R \in Settles(S, T) : r \in Said(R, T)
    BY <1>4 DEF Outcome
  <2>2. r.s \in Driver(R, T)
    BY <2>1 DEF Said
  <2>3. Event(r.s, "handled") \in Driver(R, T)
    BY <2>2, EventTypes DEF Words
  <2>4. Says(Event(r.s, "handled"), r.ev) \in Said(R, T)
    BY <2>1, <2>3, AlsoTypes
  <2> QED
    BY <2>1, <2>4 DEF Outcome
<1>6. Reject(read) \in Outcome(S, T) /\ ChunkResponse(timed, f) \in Outcome(S, T)
  BY <1>1, <1>2, <1>3, RejectTypes, ChunkResponseTypes, SaidOutcome
<1> QED
  BY <1>5, <1>6 DEF Received, timed

------------------------------------------------------------------------------
\* The two state machines.

LEMMA SendTypes ==
  ASSUME NEW S, NEW T, NEW s \in Driver(S, T), NEW state \in States
  PROVE  Send(s, state) \in Driver(S, T)
<1>1. [s EXCEPT !.state = state] \in Driver(S, T)
  BY StateTypes
<1>2. [[s EXCEPT !.state = state] EXCEPT !.out = "busy"] \in Driver(S, T)
  BY <1>1, OutTypes
<1>3. [[[s EXCEPT !.state = state] EXCEPT !.out = "busy"] EXCEPT !.writeTimer = TRUE] \in Driver(S, T)
  BY <1>2, TimerTypes
<1> QED
  BY <1>3 DEF Send

LEMMA TakenTypes ==
  ASSUME NEW S, NEW T, NEW s \in Driver(S, T), s.queue # << >>
  PROVE  [s EXCEPT !.current = Head(s.queue), !.queue = Tail(@)] \in Driver(S, T)
<1>1. s.queue \in Seq(Cmds(S))
  BY DEF Driver, Holding, Fields
<1>2. Head(s.queue) \in Cmds(S) /\ Tail(s.queue) \in Seq(Cmds(S))
  BY <1>1
<1>3. ASSUME NEW c \in Cmds(S) PROVE [s EXCEPT !.current = c] \in Driver(S, T)
  BY DEF Driver, Holding, Fields
<1>4. [[s EXCEPT !.current = Head(s.queue)] EXCEPT !.queue = Tail(s.queue)] \in Driver(S, T)
  BY <1>2, <1>3, QueueTypes
<1> QED
  BY <1>4

LEMMA PopTypes ==
  ASSUME NEW S, NEW T, NEW s \in Driver(S, T), NEW kind \in {"command", "chunks"}
  PROVE  Pop(s, kind) \in Driver(S, T)
<1> DEFINE taken == [s EXCEPT !.current = Head(s.queue), !.queue = Tail(@)]
           state == IF kind = "chunks" THEN "chunkSending" ELSE "sending"
<1>1. state \in States
  BY DEF States
<1>2. s.queue # << >> => taken \in Driver(S, T)
  BY TakenTypes
<1> HIDE DEF taken, state
<1>3. ASSUME NEW t \in Driver(S, T)
      PROVE  [t EXCEPT !.state = state, !.writeTimer = TRUE, !.odd = TRUE] \in Driver(S, T)
  <2>1. [t EXCEPT !.state = state] \in Driver(S, T)
    BY <1>1, StateTypes
  <2>2. [[t EXCEPT !.state = state] EXCEPT !.writeTimer = TRUE] \in Driver(S, T)
    BY <2>1, TimerTypes
  <2>3. [[[t EXCEPT !.state = state] EXCEPT !.writeTimer = TRUE] EXCEPT !.odd = TRUE] \in Driver(S, T)
    BY <2>2, FlagTypes
  <2> QED
    BY <2>3
<1>4. s.queue # << >> =>
        [Event(taken, "chunk_error") EXCEPT !.state = state, !.writeTimer = TRUE, !.odd = TRUE] \in Driver(S, T)
  BY <1>2, <1>3, EventTypes DEF Words
<1>5. s.queue # << >> =>
        Send([taken EXCEPT !.chunks = @ + 1], state) \in Driver(S, T) /\ Send(taken, state) \in Driver(S, T)
  <2> SUFFICES ASSUME s.queue # << >>
               PROVE  Send([taken EXCEPT !.chunks = @ + 1], state) \in Driver(S, T) /\ Send(taken, state) \in Driver(S, T)
    OBVIOUS
  <2>1. taken \in Driver(S, T) /\ taken.chunks + 1 \in Nat
    BY <1>2 DEF Driver, Holding, Fields
  <2>2. [taken EXCEPT !.chunks = taken.chunks + 1] \in Driver(S, T)
    BY <2>1, CountTypes
  <2> QED
    BY <1>1, <2>1, <2>2, SendTypes
<1> QED
  BY <1>3, <1>4, <1>5 DEF Pop, taken, state

LEMMA ToIdleTypes ==
  ASSUME NEW S, NEW T, NEW h \in Said(S, T)
  PROVE  ToIdle(h) \in Said(S, T)
<1>1. h.s \in Driver(S, T)
  BY DEF Said
<1>2. [h.s EXCEPT !.state = "idle"] \in Driver(S, T)
  BY <1>1, StateTypes DEF States
<1>3. Post([h.s EXCEPT !.state = "idle"], "check", "queue") \in Driver(S, T)
  BY <1>2, PostTypes DEF Plain, Words
<1> QED
  BY <1>3, AlsoTypes DEF ToIdle

LEMMA FailCommandTypes ==
  ASSUME NEW S, NEW T, NEW s \in Driver(S, T)
  PROVE  FailCommand(s) \in Said(S, T)
BY CurrentTypes, FailedTypes, ToIdleTypes DEF FailCommand

\* The chunks are dropped and the upload told or not.
LEMMA FailChunksTypes ==
  ASSUME NEW S, NEW T, NEW s \in Driver(S, T)
  PROVE  /\ FailChunks(s) \in Said(S, T)
         /\ LET f == Failed(s, s.current.c) IN ToIdle(Says([f.s EXCEPT !.chunks = 0], f.ev)) \in Said(S, T)
<1> DEFINE f == Failed(s, s.current.c)
<1>1. f \in Said(S, T)
  BY CurrentTypes, FailedTypes
<1> HIDE DEF f
<1>2. f.s \in Driver(S, T)
  BY <1>1 DEF Said
<1>3. [f.s EXCEPT !.chunks = 0] \in Driver(S, T)
  BY <1>2, NumberTypes
<1>4. UploadEvent([f.s EXCEPT !.chunks = 0], "failed") \in Driver(S, T)
  BY <1>3, EventTypes DEF Words
<1>5. /\ Says([f.s EXCEPT !.chunks = 0], f.ev) \in Said(S, T)
      /\ Says(UploadEvent([f.s EXCEPT !.chunks = 0], "failed"), f.ev) \in Said(S, T)
  BY <1>1, <1>3, <1>4, AlsoTypes
<1>6. /\ ToIdle(Says([f.s EXCEPT !.chunks = 0], f.ev)) \in Said(S, T)
      /\ ToIdle(Says(UploadEvent([f.s EXCEPT !.chunks = 0], "failed"), f.ev)) \in Said(S, T)
  BY <1>5, ToIdleTypes
<1> QED
  BY <1>6 DEF FailChunks, f

LEMMA SendNextChunkTypes ==
  ASSUME NEW S, NEW T, NEW s \in Driver(S, T)
  PROVE  SendNextChunk(s) \in Driver(S, T)
<1> DEFINE sent == Send(s, "chunkSending")
<1>1. [s EXCEPT !.state = "chunkSending"] \in Driver(S, T)
  BY StateTypes DEF States
<1>2. [[s EXCEPT !.state = "chunkSending"] EXCEPT !.writeTimer = TRUE] \in Driver(S, T)
  BY <1>1, TimerTypes
<1>3. sent \in Driver(S, T)
  BY SendTypes DEF States
<1> HIDE DEF sent
<1>4. sent.chunks = s.chunks /\ s.chunks \in Nat
  BY DEF Send, sent, Driver, Holding, Fields
<1>5. s.chunks # 0 => [sent EXCEPT !.chunks = sent.chunks - 1] \in Driver(S, T)
  <2>1. s.chunks # 0 => sent.chunks - 1 \in Nat
    BY <1>4
  <2> QED
    BY <1>3, <2>1, CountTypes
<1> QED
  BY <1>2, <1>5 DEF SendNextChunk, sent

LEMMA TransitionTypes ==
  ASSUME NEW S, NEW T, NEW s \in Driver(S, T), NEW ev \in Words
  PROVE  Transition(s, ev) \in Outcome(S, T)
<1> DEFINE quiet == [s EXCEPT !.writeTimer = FALSE]
           next == IF s.state = "sending" THEN "waiting" ELSE "chunkWaiting"
<1>1. quiet \in Driver(S, T) /\ next \in States
  BY TimerTypes DEF States
<1>2. [[quiet EXCEPT !.answerTimer = TRUE] EXCEPT !.state = next] \in Driver(S, T)
  BY <1>1, TimerTypes, StateTypes
<1>3. [s EXCEPT !.chunks = 0] \in Driver(S, T)
  BY NumberTypes
<1> HIDE DEF quiet, next
<1>4. /\ Silent(s) \in Outcome(S, T)
      /\ Silent([s EXCEPT !.writeTimer = FALSE, !.answerTimer = TRUE, !.state = next]) \in Outcome(S, T)
  BY <1>2, SilentTypes, SaidOutcome DEF quiet
<1>5. ev \in {"command", "chunks"} => Silent(Pop(s, ev)) \in Outcome(S, T)
  BY PopTypes, SilentTypes, SaidOutcome
<1>6. FailCommand(quiet) \in Outcome(S, T) /\ FailChunks(quiet) \in Outcome(S, T)
  BY <1>1, FailCommandTypes, FailChunksTypes, SaidOutcome
<1>7. FailCommand(s) \in Outcome(S, T) /\ FailChunks(s) \in Outcome(S, T)
  BY FailCommandTypes, FailChunksTypes, SaidOutcome
<1>8. ToIdle(Silent(s)) \in Outcome(S, T) /\ ToIdle(Silent([s EXCEPT !.chunks = 0])) \in Outcome(S, T)
  BY <1>3, SilentTypes, ToIdleTypes, SaidOutcome
<1>9. Silent(SendNextChunk(s)) \in Outcome(S, T)
  BY SendNextChunkTypes, SilentTypes, SaidOutcome
<1>10. LET f == Failed(s, s.current.c) IN ToIdle(Says([f.s EXCEPT !.chunks = 0], f.ev)) \in Outcome(S, T)
  BY FailChunksTypes, SaidOutcome
<1>11. Received(s) \in Outcome(S, T)
  BY ReceivedTypes
<1> QED
  BY <1>4, <1>5, <1>6, <1>7, <1>8, <1>9, <1>10, <1>11 DEF Transition, quiet, next

LEMMA UploadTransitionTypes ==
  ASSUME NEW S, NEW T, NEW s \in Driver(S, T), NEW ev \in Words
  PROVE  UploadTransition(s, ev) \in Driver(S, T)
<1>1. ASSUME NEW j \in Jobs, NEW up \in UploadStates
      PROVE  [StartJob(s, j) EXCEPT !.upload = up] \in Driver(S, T) /\ StartJob(s, j) \in Driver(S, T)
  BY StartJobTypes, UploadTypes
<1>2. ASSUME NEW x \in Words PROVE UploadEvent(s, x) \in Driver(S, T)
  BY EventTypes
<1>3. [StartJob(s, "download") EXCEPT !.upload = "download"] \in Driver(S, T)
  BY <1>1 DEF Jobs, UploadStates
<1>4. [StartJob(s, "finalize") EXCEPT !.upload = "move"] \in Driver(S, T)
  BY <1>1 DEF Jobs, UploadStates
<1>5. [StartJob(s, "scan") EXCEPT !.has = TRUE, !.upload = "upload"] \in Driver(S, T)
  <2>1. [StartJob(s, "scan") EXCEPT !.has = TRUE] \in Driver(S, T)
    BY StartJobTypes, FlagTypes DEF Jobs
  <2>2. [[StartJob(s, "scan") EXCEPT !.has = TRUE] EXCEPT !.upload = "upload"] \in Driver(S, T)
    BY <2>1, UploadTypes DEF UploadStates
  <2> QED
    BY <2>2
<1>6. StartJob(s, "upload") \in Driver(S, T) /\ StartJob(s, "cleanup") \in Driver(S, T)
  BY StartJobTypes DEF Jobs
<1>7. /\ UploadEvent(s, "continue") \in Driver(S, T) /\ UploadEvent(s, "allow") \in Driver(S, T)
      /\ UploadEvent(s, "cleaned") \in Driver(S, T)
      /\ [UploadEvent(s, "downloaded") EXCEPT !.upload = "download"] \in Driver(S, T)
  <2>1. /\ UploadEvent(s, "continue") \in Driver(S, T) /\ UploadEvent(s, "allow") \in Driver(S, T)
        /\ UploadEvent(s, "cleaned") \in Driver(S, T) /\ UploadEvent(s, "downloaded") \in Driver(S, T)
    BY <1>2 DEF Words
  <2> QED
    BY <2>1, UploadTypes DEF UploadStates
<1>8. [Enqueue(s, Command("status", 0)) EXCEPT !.upload = "generate"] \in Driver(S, T)
  BY CommandTypes, EnqueueTypes, UploadTypes DEF Codes, UploadStates
<1>9. [s EXCEPT !.upload = "idle"] \in Driver(S, T)
  BY UploadTypes DEF UploadStates
<1>10. [s EXCEPT !.file = FALSE, !.upload = "idle"] \in Driver(S, T)
  <2>1. [s EXCEPT !.file = FALSE] \in Driver(S, T)
    BY FlagTypes
  <2>2. [[s EXCEPT !.file = FALSE] EXCEPT !.upload = "idle"] \in Driver(S, T)
    BY <2>1, UploadTypes DEF UploadStates
  <2> QED
    BY <2>2
<1>11. [s EXCEPT !.has = FALSE, !.done = TRUE, !.upload = "idle"] \in Driver(S, T)
  <2>1. [s EXCEPT !.has = FALSE] \in Driver(S, T)
    BY FlagTypes
  <2>2. [[s EXCEPT !.has = FALSE] EXCEPT !.done = TRUE] \in Driver(S, T)
    BY <2>1, FlagTypes
  <2>3. [[[s EXCEPT !.has = FALSE] EXCEPT !.done = TRUE] EXCEPT !.upload = "idle"] \in Driver(S, T)
    BY <2>2, UploadTypes DEF UploadStates
  <2> QED
    BY <2>3
<1> QED
  BY <1>3, <1>4, <1>5, <1>6, <1>7, <1>8, <1>9, <1>10, <1>11 DEF UploadTransition

------------------------------------------------------------------------------
\* The steps.

LEMMA TaskTypes ==
  ASSUME NEW S, NEW T, NEW s \in Driver(S, T), NEW p \in Tasks(S)
  PROVE  Task(s, p.t, p.x) \in Outcome(S, T)
<1>1. CASE p.t = "enqueue"
  <2>1. p.x \in Cmds(S)
    BY <1>1 DEF Tasks, Plain
  <2> QED
    BY <1>1, <2>1, EnqueueTypes, SilentTypes, SaidOutcome DEF Task
<1>2. CASE p.t \in Plain
  <2>1. p.x \in Words
    BY <1>2 DEF Tasks, Plain
  <2>2. Transition(s, p.x) \in Outcome(S, T) /\ Silent(UploadTransition(s, p.x)) \in Outcome(S, T)
    BY <2>1, TransitionTypes, UploadTransitionTypes, SilentTypes, SaidOutcome
  <2>3. Silent(CheckCommandQueue(s)) \in Outcome(S, T)
    BY CheckTypes, SilentTypes, SaidOutcome
  <2>4. /\ Event(s, "write_timeout") \in Driver(S, T) /\ Event(s, "timeout") \in Driver(S, T)
        /\ [s EXCEPT !.out = "late"] \in Driver(S, T)
    BY EventTypes, OutTypes DEF Words
  <2>5. /\ Silent(IF s.out = "none" THEN Event(s, "write_timeout") ELSE [s EXCEPT !.out = "late"]) \in Outcome(S, T)
        /\ Silent(Event(s, "timeout")) \in Outcome(S, T)
    BY <2>4, SilentTypes, SaidOutcome
  <2>6. LET f == Failed(s, "upload") IN Says(UploadEvent(f.s, "failed"), f.ev) \in Outcome(S, T)
    <3> DEFINE f == Failed(s, "upload")
    <3>1. f \in Said(S, T)
      BY FailedTypes DEF Codes
    <3> HIDE DEF f
    <3>2. f.s \in Driver(S, T)
      BY <3>1 DEF Said
    <3>3. Says(UploadEvent(f.s, "failed"), f.ev) \in Said(S, T)
      BY <3>1, <3>2, EventTypes, AlsoTypes DEF Words
    <3> QED
      BY <3>3, SaidOutcome DEF f
  <2> QED
    BY <1>2, <2>2, <2>3, <2>5, <2>6 DEF Task, Plain
<1>3. CASE p.t = "scanned"
  <2>1. [s EXCEPT !.file = TRUE] \in Driver(S, T)
    BY FlagTypes
  <2>2. /\ UploadEvent([s EXCEPT !.file = TRUE], "uploading") \in Driver(S, T)
        /\ UploadEvent(s, "get_status") \in Driver(S, T)
    BY <2>1, EventTypes DEF Words
  <2>3. Silent(Scanned(s, p.x)) \in Outcome(S, T)
    BY <2>2, SilentTypes, SaidOutcome DEF Scanned
  <2> QED
    BY <1>3, <2>3 DEF Task
<1> QED
  BY <1>1, <1>2, <1>3 DEF Tasks

\* A step of the driver settles one transaction at most, and changes nothing else that Settlement sees.
Hands ==
  /\ MoneyInv'
  /\ reader'.taken = reader.taken /\ reader'.flushed = reader.flushed
  /\ \/ lcsc'.settled = lcsc.settled
     \/ \E id \in 1..reader.taken : lcsc'.settled = lcsc.settled \cup {id}

LEMMA DriverHands ==
  ASSUME MoneyInv, UNCHANGED reader, NEW R \in Settles(lcsc.settled, reader.taken),
         lcsc' \in Driver(R, reader.taken), op' \in [left : [Calls -> Nat], events : Seq(Reports(R))]
  PROVE  Hands
<1>1. lcsc'.settled = R
  BY DEF Driver, Holding, Fields
<1>2. R \subseteq 1..reader.taken
  BY DEF Settles, MoneyInv
<1>3. reader' = reader /\ reader \in Reader
  BY DEF MoneyInv
<1>4. MoneyInv'
  BY <1>1, <1>2, <1>3 DEF MoneyInv, Reader, Kept
<1> QED
  BY <1>1, <1>3, <1>4 DEF Hands, Settles

\* Most steps settle nothing.
LEMMA QuietHands ==
  ASSUME MoneyInv, UNCHANGED reader, lcsc' \in Driver(lcsc.settled, reader.taken),
         op' \in [left : [Calls -> Nat], events : Seq(Reports(lcsc.settled))]
  PROVE  Hands
BY DriverHands DEF Settles

LEMMA ReportsGrow ==
  ASSUME NEW S, NEW R, S \subseteq R, NEW q \in Seq(Reports(S))
  PROVE  q \in Seq(Reports(R))
<1>1. Reports(S) \subseteq Reports(R)
  BY DEF Reports
<1> QED
  BY <1>1, SeqMonotonic

LEMMA TailTypes ==
  ASSUME NEW S, NEW T, NEW s \in Driver(S, T), s.posts # << >>
  PROVE  [s EXCEPT !.posts = Tail(@)] \in Driver(S, T) /\ Head(s.posts) \in Tasks(S)
<1>1. s.posts \in Seq(Tasks(S))
  BY DEF Driver, Holding, Fields
<1>2. Tail(s.posts) \in Seq(Tasks(S)) /\ Head(s.posts) \in Tasks(S)
  BY <1>1
<1> QED
  BY <1>2, PostsTypes

LEMMA RunTaskHands == ASSUME MoneyInv, RunTask PROVE Hands
<1> DEFINE S == lcsc.settled
           T == reader.taken
           s == [d EXCEPT !.posts = Tail(@)]
           p == Head(d.posts)
           h == Task(s, p.t, p.x)
<1>1. lcsc \in Driver(S, T) /\ lcsc.posts # << >>
  BY DEF MoneyInv, d, RunTask
<1>2. s \in Driver(S, T) /\ p \in Tasks(S)
  BY <1>1, TailTypes DEF d
<1>4. lcsc' = h.s /\ op' = [op EXCEPT !.events = @ \o h.ev] /\ UNCHANGED reader
  BY DEF RunTask
<1>8. op \in [left : [Calls -> Nat], events : Seq(Reports(S))]
  BY DEF MoneyInv
<1> HIDE DEF s, p
<1>5. h \in Outcome(S, T)
  BY <1>2, TaskTypes
<1> HIDE DEF h, S, T
<1>6. PICK R \in Settles(S, T) : h \in Said(R, T)
  BY <1>5 DEF Outcome
<1>7. h.s \in Driver(R, T) /\ h.ev \in Seq(Reports(R)) /\ S \subseteq R
  BY <1>6 DEF Said, Settles
<1>9. op.events \in Seq(Reports(R))
  BY <1>7, <1>8, ReportsGrow
<1>10. op.events \o h.ev \in Seq(Reports(R))
  BY <1>7, <1>9
<1>11. op' \in [left : [Calls -> Nat], events : Seq(Reports(R))]
  BY <1>4, <1>8, <1>10
<1> QED
  BY <1>4, <1>6, <1>7, <1>11, DriverHands DEF S, T

------------------------------------------------------------------------------
\* What the reader and the line do.

\* More is taken only by a deduction.
LEMMA TakenGrows ==
  ASSUME NEW S, NEW T \in Nat, NEW U \in Nat, T <= U, NEW s \in Driver(S, T)
  PROVE  s \in Driver(S, U)
<1>1. Charged(T) \subseteq Charged(U)
  BY DEF Charged
<1> HIDE DEF Charged
<1> QED
  BY <1>1 DEF Driver, Holding, Fields

LEMMA WrittenTypes ==
  ASSUME NEW S, NEW T, NEW s \in Driver(S, T), NEW ev \in Words
  PROVE  Written(s, ev) \in Driver(S, T)
<1>1. [s EXCEPT !.out = "none"] \in Driver(S, T)
  BY OutTypes
<1>2. [[s EXCEPT !.out = "none"] EXCEPT !.writeTimer = FALSE] \in Driver(S, T)
  BY <1>1, TimerTypes
<1>3. [s EXCEPT !.out = "none", !.writeTimer = FALSE] \in Driver(S, T)
  BY <1>2
<1>4. "write_timeout" \in Words
  BY DEF Words
<1>5. (IF s.out = "late" THEN "write_timeout" ELSE ev) \in Words
  BY <1>4
<1> QED
  BY <1>3, <1>5, EventTypes DEF Written

LEMMA WriteFailsHands == ASSUME MoneyInv, WriteFails PROVE Hands
<1>1. lcsc \in Driver(lcsc.settled, reader.taken) /\ "write_failed" \in Words
  BY DEF MoneyInv, Words
<1>2. lcsc' \in Driver(lcsc.settled, reader.taken) /\ UNCHANGED <<reader, op>>
  BY <1>1, WrittenTypes DEF WriteFails, d
<1> QED
  BY <1>2, QuietHands DEF MoneyInv

LEMMA TimerHands == ASSUME MoneyInv, AnswerTimer \/ WriteTimer PROVE Hands
<1> DEFINE S == lcsc.settled
           T == reader.taken
<1>1. lcsc \in Driver(S, T) /\ "expired" \in Words /\ {"answerTimer", "writeTimer"} \subseteq Plain
  BY DEF MoneyInv, Words, Plain
<1>2. UNCHANGED <<reader, op>>
  BY DEF AnswerTimer, WriteTimer
<1>3. [lcsc EXCEPT !.answerTimer = FALSE] \in Driver(S, T) /\ [lcsc EXCEPT !.writeTimer = FALSE] \in Driver(S, T)
  BY <1>1, TimerTypes
<1>4. lcsc' \in Driver(S, T)
  BY <1>1, <1>3, PostTypes DEF AnswerTimer, WriteTimer, d
<1> QED
  BY <1>2, <1>4, QuietHands DEF MoneyInv

\* Answers come and go; what the reader holds stays.
LEMMA WireHands ==
  ASSUME MoneyInv, NEW wire \in Seq(Charged(reader.taken)), reader' = [reader EXCEPT !.wire = wire],
         lcsc' \in Driver(lcsc.settled, reader.taken), UNCHANGED op
  PROVE  Hands
<1>1. reader \in Reader
  BY DEF MoneyInv
<1>2. /\ reader'.wire = wire /\ reader'.record = reader.record /\ reader'.taken = reader.taken
      /\ reader'.flushed = reader.flushed /\ reader' \in Reader'
  BY <1>1 DEF Reader
<1>3. lcsc'.settled = lcsc.settled
  BY DEF Driver, Holding, Fields
<1>4. Kept'
  BY <1>2 DEF MoneyInv, Kept
<1>5. op' \in [left : [Calls -> Nat], events : Seq(Reports(lcsc.settled))]
  BY DEF MoneyInv
<1>6. MoneyInv'
  BY <1>2, <1>3, <1>4, <1>5 DEF MoneyInv
<1> QED
  BY <1>2, <1>3, <1>6 DEF Hands

LEMMA SeqParts ==
  ASSUME NEW X, NEW q \in Seq(X), q # << >>
  PROVE  Head(q) \in X /\ Tail(q) \in Seq(X)
OBVIOUS

LEMMA GarbledTypes ==
  ASSUME NEW T, NEW f \in Charged(T)
  PROVE  [f EXCEPT !.r = "garbled"] \in Charged(T)
<1>1. f \in Replies /\ "garbled" \in Results
  BY DEF Charged, Results
<1>2. [f EXCEPT !.r = "garbled"] \in Replies /\ [f EXCEPT !.r = "garbled"].r = "garbled"
  BY <1>1 DEF Replies
<1> QED
  BY <1>2 DEF Charged

LEMMA FrameArrivesHands == ASSUME MoneyInv, NEW garbled \in BOOLEAN, FrameArrives(garbled) PROVE Hands
<1> DEFINE S == lcsc.settled
           T == reader.taken
           a == IF garbled THEN [Head(reader.wire) EXCEPT !.r = "garbled"] ELSE Head(reader.wire)
<1>1. lcsc \in Driver(S, T) /\ reader.wire \in Seq(Charged(T)) /\ reader.wire # << >>
  BY DEF MoneyInv, Reader, FrameArrives
<1>2. Head(reader.wire) \in Charged(T) /\ Tail(reader.wire) \in Seq(Charged(T))
  BY <1>1, SeqParts
<1>3. a \in Charged(T)
  BY <1>2, GarbledTypes
<1>4. lcsc' = Event([lcsc EXCEPT !.frame = a], "received") /\ UNCHANGED op
  BY DEF FrameArrives, d
<1>5. reader' = [reader EXCEPT !.wire = Tail(reader.wire)]
  BY DEF FrameArrives
<1> HIDE DEF a
<1>6. [lcsc EXCEPT !.frame = a] \in Driver(S, T)
  BY <1>1, <1>3, FrameTypes
<1>7. lcsc' \in Driver(S, T)
  BY <1>4, <1>6, EventTypes DEF Words
<1> QED
  BY <1>2, <1>4, <1>5, <1>7, WireHands

LEMMA AnswerLostHands == ASSUME MoneyInv, AnswerLost PROVE Hands
<1>1. reader.wire \in Seq(Charged(reader.taken)) /\ reader.wire # << >> /\ UNCHANGED <<lcsc, op>>
  BY DEF MoneyInv, Reader, AnswerLost
<1>2. Tail(reader.wire) \in Seq(Charged(reader.taken))
  BY <1>1, SeqParts
<1>4. reader' = [reader EXCEPT !.wire = Tail(reader.wire)]
  BY DEF AnswerLost
<1>3. lcsc' \in Driver(lcsc.settled, reader.taken)
  BY <1>1 DEF MoneyInv
<1> QED
  BY <1>1, <1>2, <1>3, <1>4, WireHands

------------------------------------------------------------------------------
\* The jobs and the calls.

LEMMA EnqueuesTypes ==
  ASSUME NEW S, NEW T, NEW s \in Driver(S, T), NEW c \in Cmds(S)
  PROVE  Post(s, "enqueue", c) \in Driver(S, T)
<1>1. [t |-> "enqueue", x |-> c] \in Tasks(S)
  BY DEF Tasks
<1>2. Append(s.posts, [t |-> "enqueue", x |-> c]) \in Seq(Tasks(S))
  BY <1>1 DEF Driver, Holding, Fields
<1>3. Post(s, "enqueue", c) = [s EXCEPT !.posts = Append(s.posts, [t |-> "enqueue", x |-> c])]
  BY DEF Post
<1> QED
  BY <1>2, <1>3, PostsTypes

LEMMA ScanTypes ==
  ASSUME NEW S, NEW T, NEW s \in Driver(S, T), NEW b \in BOOLEAN
  PROVE  Post(s, "scanned", b) \in Driver(S, T)
<1>1. [t |-> "scanned", x |-> b] \in Tasks(S)
  BY DEF Tasks
<1>2. Append(s.posts, [t |-> "scanned", x |-> b]) \in Seq(Tasks(S))
  BY <1>1 DEF Driver, Holding, Fields
<1>3. Post(s, "scanned", b) = [s EXCEPT !.posts = Append(s.posts, [t |-> "scanned", x |-> b])]
  BY DEF Post
<1> QED
  BY <1>2, <1>3, PostsTypes

LEMMA JobDoneTypes ==
  ASSUME NEW S, NEW T, NEW s \in Driver(S, T), NEW j \in Jobs, NEW ok \in BOOLEAN
  PROVE  JobDone(s, j, ok) \in Driver(S, T)
<1>1. /\ [s EXCEPT !.files = IF ok THEN 1 ELSE @] \in Driver(S, T)
      /\ [s EXCEPT !.files = IF ok THEN 0 ELSE @] \in Driver(S, T)
  <2>1. s.files \in 0..1
    BY DEF Driver, Holding, Fields
  <2>2. [s EXCEPT !.files = s.files] \in Driver(S, T)
    BY <2>1, FilesTypes
  <2> QED
    BY <2>2, NumberTypes
<1>2. Downloaded(s, ok) \in Driver(S, T) /\ Cleaned(s, ok) \in Driver(S, T)
  BY <1>1, EventTypes DEF Words, Downloaded, Cleaned
<1>3. Finalized(s, ok) \in Driver(S, T)
  BY NumberTypes, EventTypes DEF Words, Finalized
<1>4. Post(s, "enqueue", Command("upload", 0)) \in Driver(S, T)
  BY CommandTypes, EnqueuesTypes DEF Codes
<1>5. Post(s, "unprepared", "file") \in Driver(S, T)
  BY PostTypes DEF Plain, Words
<1>6. Prepared(s, ok) \in Driver(S, T)
  BY <1>4, <1>5 DEF Prepared
<1>7. Post(s, "scanned", s.files > 0) \in Driver(S, T)
  <2>1. (s.files > 0) \in BOOLEAN
    OBVIOUS
  <2> QED
    BY <2>1, ScanTypes
<1> QED
  BY <1>2, <1>3, <1>6, <1>7 DEF JobDone, Jobs

LEMMA JobEndsHands == ASSUME MoneyInv, NEW j \in Jobs, NEW ok \in BOOLEAN, JobEnds(j, ok) PROVE Hands
<1> DEFINE S == lcsc.settled
           T == reader.taken
           s == [lcsc EXCEPT !.jobs[j] = lcsc.jobs[j] - 1]
<1>1. lcsc \in Driver(S, T)
  BY DEF MoneyInv
<1>2. lcsc.jobs[j] - 1 \in Nat
  BY <1>1 DEF Driver, Holding, Fields, JobEnds, d
<1>3. s \in Driver(S, T)
  BY <1>1, <1>2, JobTypes
<1>4. lcsc' \in {s, JobDone(s, j, ok)} /\ UNCHANGED <<reader, op>>
  BY DEF JobEnds, d
<1> HIDE DEF s
<1>5. lcsc' \in Driver(S, T)
  BY <1>3, <1>4, JobDoneTypes
<1> QED
  BY <1>4, <1>5, QuietHands DEF MoneyInv

LEMMA CallTypes ==
  ASSUME MoneyInv, NEW c \in Calls, Call(c)
  PROVE  op' \in [left : [Calls -> Nat], events : Seq(Reports(lcsc.settled))]
<1>1. op \in [left : [Calls -> Nat], events : Seq(Reports(lcsc.settled))]
  BY DEF MoneyInv
<1>2. [op.left EXCEPT ![c] = op.left[c] - 1] \in [Calls -> Nat]
  BY <1>1 DEF Call
<1>3. op' = [op EXCEPT !.left = [op.left EXCEPT ![c] = op.left[c] - 1]]
  BY DEF Call
<1> QED
  BY <1>1, <1>2, <1>3

\* Every call posts a task, or changes a flag; closing empties the driver.
LEMMA ReadHands == ASSUME MoneyInv, FnSendGetCardIDCmd \/ FnLCSCReaderStopRead PROVE Hands
<1> DEFINE S == lcsc.settled
           T == reader.taken
           s == [[lcsc EXCEPT !.reading = TRUE] EXCEPT !.reports = 0]
<1>1. lcsc \in Driver(S, T) /\ UNCHANGED reader
  BY DEF MoneyInv, FnSendGetCardIDCmd, FnLCSCReaderStopRead, Call
<1>2. [lcsc EXCEPT !.reading = FALSE] \in Driver(S, T) /\ s \in Driver(S, T)
  BY <1>1, FlagTypes, RequestTypes
<1>3. Post(s, "enqueue", Command("card_id", 0)) \in Driver(S, T)
  BY <1>2, CommandTypes, EnqueuesTypes DEF Codes
<1>4. FnSendGetCardIDCmd => lcsc' = Post(s, "enqueue", Command("card_id", 0))
  BY <1>1 DEF FnSendGetCardIDCmd, d, Driver, Holding, Fields
<1>5. lcsc' \in Driver(S, T)
  BY <1>1, <1>2, <1>3, <1>4 DEF FnLCSCReaderStopRead, d
<1>6. PICK k \in Calls : Call(k)
  BY DEF Calls, FnSendGetCardIDCmd, FnLCSCReaderStopRead
<1>7. op' \in [left : [Calls -> Nat], events : Seq(Reports(S))]
  BY <1>6, CallTypes
<1> QED
  BY <1>1, <1>5, <1>7, QuietHands

LEMMA PostedHands ==
  ASSUME MoneyInv, FnSendCardDeduct \/ FnSendGetStatusCmd \/ FnUploadLCSCCDFiles
  PROVE  Hands
<1> DEFINE S == lcsc.settled
           T == reader.taken
<1>1. lcsc \in Driver(S, T) /\ UNCHANGED reader
  BY DEF MoneyInv, FnSendCardDeduct, FnSendGetStatusCmd, FnUploadLCSCCDFiles, Call
<1>2. /\ Post(lcsc, "enqueue", Command("deduct", 0)) \in Driver(S, T)
      /\ Post(lcsc, "enqueue", Command("status", 0)) \in Driver(S, T)
  BY <1>1, CommandTypes, EnqueuesTypes DEF Codes
<1>3. UploadEvent(lcsc, "check") \in Driver(S, T)
  BY <1>1, EventTypes DEF Words
<1>4. lcsc' \in Driver(S, T)
  BY <1>2, <1>3 DEF FnSendCardDeduct, FnSendGetStatusCmd, FnUploadLCSCCDFiles, Enqueues, d
<1>5. PICK k \in Calls : Call(k)
  BY DEF Calls, FnSendCardDeduct, FnSendGetStatusCmd, FnUploadLCSCCDFiles
<1>6. op' \in [left : [Calls -> Nat], events : Seq(Reports(S))]
  BY <1>5, CallTypes
<1> QED
  BY <1>1, <1>4, <1>6, QuietHands

LEMMA CloseHands == ASSUME MoneyInv, FnLCSCReaderClose PROVE Hands
<1> DEFINE S == lcsc.settled
           T == reader.taken
           a == [[lcsc EXCEPT !.stopping = TRUE] EXCEPT !.state = "idle"]
           b == [[[a EXCEPT !.upload = "idle"] EXCEPT !.queue = << >>] EXCEPT !.chunks = 0]
           c == [[b EXCEPT !.posts = << >>] EXCEPT !.out = "none"]
           e == [[c EXCEPT !.writeTimer = FALSE] EXCEPT !.answerTimer = FALSE]
<1>1. lcsc \in Driver(S, T) /\ UNCHANGED reader
  BY DEF MoneyInv, FnLCSCReaderClose, Call
<1>2. a \in Driver(S, T)
  BY <1>1, FlagTypes, StateTypes DEF States
<1>3. << >> \in Seq(Cmds(S)) /\ << >> \in Seq(Tasks(S))
  OBVIOUS
<1> HIDE DEF a
<1>4. b \in Driver(S, T)
  BY <1>2, <1>3, UploadTypes, QueueTypes, NumberTypes DEF UploadStates
<1> HIDE DEF b
<1>5. c \in Driver(S, T)
  BY <1>3, <1>4, PostsTypes, OutTypes
<1> HIDE DEF c
<1>6. e \in Driver(S, T)
  BY <1>5, TimerTypes
<1>7. lcsc' = e
  BY <1>1 DEF FnLCSCReaderClose, d, a, b, c, Driver, Holding, Fields
<1>8. PICK k \in Calls : Call(k)
  BY DEF Calls, FnLCSCReaderClose
<1>9. op' \in [left : [Calls -> Nat], events : Seq(Reports(S))]
  BY <1>8, CallTypes
<1> QED
  BY <1>1, <1>6, <1>7, <1>9, QuietHands

\* A record is only reported when it is settled, so that the flush OP_IO commands is of a settled one.
LEMMA HandleEventHands == ASSUME MoneyInv, HandleEvent PROVE Hands
<1> DEFINE S == lcsc.settled
           T == reader.taken
           ev == Head(op.events)
<1>1. lcsc \in Driver(S, T) /\ UNCHANGED reader /\ op.events # << >>
  BY DEF MoneyInv, HandleEvent
<1>2. op \in [left : [Calls -> Nat], events : Seq(Reports(S))]
  BY DEF MoneyInv
<1>3. ev \in Reports(S) /\ Tail(op.events) \in Seq(Reports(S))
  BY <1>1, <1>2, SeqParts
<1>4. op' = [op EXCEPT !.events = Tail(op.events)]
  BY DEF HandleEvent
<1>5. op' \in [left : [Calls -> Nat], events : Seq(Reports(S))]
  BY <1>2, <1>3, <1>4
<1>6. Post(lcsc, "enqueue", Command("record", 0)) \in Driver(S, T)
  BY <1>1, CommandTypes, EnqueuesTypes DEF Codes
<1> HIDE DEF ev
<1>7. ev.c = "record" /\ ev.r = "ok" => Command("flush", ev.id) \in Cmds(S)
  BY <1>3 DEF Reports, Replies, Command, Cmds, Codes
<1>8. ev.c = "record" /\ ev.r = "ok" => Post(lcsc, "enqueue", Command("flush", ev.id)) \in Driver(S, T)
  BY <1>1, <1>7, EnqueuesTypes
<1>9. lcsc' \in Driver(S, T)
  BY <1>1, <1>6, <1>8 DEF HandleEvent, d, ev
<1> QED
  BY <1>1, <1>5, <1>9, QuietHands

------------------------------------------------------------------------------
\* The reader executes a command.

\* It takes the next transaction when it holds none, and forgets the one it holds.
LEMMA AnswersTypes ==
  ASSUME MoneyInv, NEW c \in Cmds(lcsc.settled), NEW a \in Answers(c)
  PROVE  /\ a \in Replies
         /\ a.c = "deduct" /\ a.r = "ok" => reader.record = 0 /\ a.id = reader.taken + 1
         /\ a.c = "flush" /\ a.r = "ok" => c.c = "flush" /\ c.id = reader.record /\ reader.record # 0
         /\ a.c = "record" /\ a.r = "ok" => a.id = reader.record /\ reader.record # 0
<1>1. reader.record \in Nat /\ reader.taken \in Nat /\ c.c \in Codes
  BY DEF MoneyInv, Reader, Cmds
<1>2. CASE c.c = "deduct"
  BY <1>1, <1>2 DEF Answers, Answer, Replies, Results, Codes
<1>3. CASE c.c = "record"
  BY <1>1, <1>3 DEF Answers, Answer, Replies, Results, Codes
<1>4. CASE c.c = "flush"
  BY <1>1, <1>4 DEF Answers, Answer, Replies, Results, Codes
<1>5. CASE c.c = "upload"
  BY <1>1, <1>5 DEF Answers, Answer, Replies, Results, Codes
<1>6. CASE c.c \in {"card_id", "balance"}
  BY <1>1, <1>6 DEF Answers, Answer, Replies, Results, Codes
<1>7. CASE c.c \notin {"deduct", "record", "flush", "upload", "card_id", "balance"}
  BY <1>1, <1>7 DEF Answers, Answer, Replies, Results, Codes
<1> QED
  BY <1>2, <1>3, <1>4, <1>5, <1>6, <1>7

LEMMA ExecutedFields ==
  ASSUME MoneyInv, NEW c, NEW a, NEW r, r = Executed(c, a)
  PROVE  /\ r.wire = Append(reader.wire, a)
         /\ r \in [wire : {r.wire}, record : {r.record}, taken : {r.taken}, flushed : {r.flushed}]
         /\ a.c = "deduct" /\ a.r = "ok" => r.record = a.id /\ r.taken = a.id /\ r.flushed = reader.flushed
         /\ a.c = "flush" /\ a.r = "ok" =>
              r.record = 0 /\ r.taken = reader.taken /\ r.flushed = reader.flushed \cup {c.id}
         /\ a.r # "ok" \/ a.c \notin {"deduct", "flush"} =>
              r.record = reader.record /\ r.taken = reader.taken /\ r.flushed = reader.flushed
BY DEF Executed, MoneyInv, Reader

\* The step a command makes of the money.
Takes ==
  /\ reader.record = 0 /\ reader'.taken = reader.taken + 1
  /\ reader'.flushed = reader.flushed /\ lcsc'.settled = lcsc.settled

Flushes ==
  /\ reader'.taken = reader.taken /\ lcsc'.settled = lcsc.settled
  /\ \E id \in lcsc.settled : reader'.flushed = reader.flushed \cup {id}

LEMMA WireTypes ==
  ASSUME NEW T \in Nat, NEW U \in Nat, T <= U, NEW w \in Seq(Charged(T)), NEW a \in Charged(U)
  PROVE  Append(w, a) \in Seq(Charged(U))
<1>1. Charged(T) \subseteq Charged(U)
  BY DEF Charged
<1>2. w \in Seq(Charged(U))
  BY <1>1, SeqMonotonic
<1> DEFINE X == Charged(U)
<1> HIDE DEF X
<1>3. \A q \in Seq(X), x \in X : Append(q, x) \in Seq(X)
  OBVIOUS
<1> QED
  BY <1>2, <1>3 DEF X

LEMMA WriteEndsMoney ==
  ASSUME MoneyInv, WriteEnds
  PROVE  MoneyInv' /\ (Hands \/ Takes \/ Flushes)
<1> DEFINE S == lcsc.settled
           T == reader.taken
           U == reader'.taken
           c == lcsc.current
<1>1. lcsc \in Driver(S, T) /\ T \in Nat /\ reader \in Reader /\ UNCHANGED op
  BY DEF MoneyInv, Reader, WriteEnds
<1>2. c \in Cmds(S)
  BY <1>1 DEF Driver, Holding, Fields
<1>3. PICK a \in Answers(c) : reader' = Executed(c, a)
  BY DEF WriteEnds, d
<1>4. /\ a \in Replies
      /\ a.c = "deduct" /\ a.r = "ok" => reader.record = 0 /\ a.id = T + 1
      /\ a.c = "flush" /\ a.r = "ok" => c.id = reader.record /\ reader.record # 0 /\ c.id \in S
      /\ a.c = "record" /\ a.r = "ok" => a.id = reader.record /\ reader.record # 0
  BY <1>2, AnswersTypes DEF Cmds
<1> HIDE DEF c
<1>5. /\ reader'.wire = Append(reader.wire, a)
      /\ reader' \in [wire : {reader'.wire}, record : {reader'.record}, taken : {U}, flushed : {reader'.flushed}]
      /\ a.c = "deduct" /\ a.r = "ok" => reader'.record = a.id /\ U = a.id /\ reader'.flushed = reader.flushed
      /\ a.c = "flush" /\ a.r = "ok" => reader'.record = 0 /\ U = T /\ reader'.flushed = reader.flushed \cup {c.id}
      /\ a.r # "ok" \/ a.c \notin {"deduct", "flush"} =>
           reader'.record = reader.record /\ U = T /\ reader'.flushed = reader.flushed
  BY <1>3, ExecutedFields
<1>6. U \in Nat /\ T <= U /\ (U = T \/ U = T + 1)
  BY <1>1, <1>4, <1>5
<1>7. reader.record # 0 => reader.record = T /\ T \in 1..T /\ reader.flushed = 1..(T - 1)
  BY <1>1 DEF MoneyInv, Kept, Reader
<1>8. a \in Charged(U)
  BY <1>1, <1>4, <1>5, <1>7 DEF Charged
<1>9. reader'.wire \in Seq(Charged(U))
  BY <1>1, <1>5, <1>6, <1>8, WireTypes DEF Reader
<1>10. reader.record = 0 => reader.flushed = 1..T
  BY DEF MoneyInv, Kept
<1>11. Kept' /\ reader'.record \in Nat /\ reader'.flushed \in SUBSET Nat
  <2>1. CASE a.c = "deduct" /\ a.r = "ok"
    <3>1. reader'.record = T + 1 /\ U = T + 1 /\ reader'.flushed = 1..T
      BY <1>4, <1>5, <1>10, <2>1
    <3> QED
      BY <1>1, <3>1 DEF Kept
  <2>2. CASE a.c = "flush" /\ a.r = "ok"
    <3>1. reader'.record = 0 /\ U = T /\ reader'.flushed = 1..(T - 1) \cup {T} /\ T \in 1..T
      BY <1>4, <1>5, <1>7, <2>2
    <3>2. 1..(T - 1) \cup {T} = 1..T
      BY <1>1, <3>1
    <3> QED
      BY <1>1, <3>1, <3>2 DEF Kept
  <2>3. CASE a.r # "ok" \/ a.c \notin {"deduct", "flush"}
    BY <1>1, <1>5, <2>3 DEF MoneyInv, Kept, Reader
  <2> QED
    BY <2>1, <2>2, <2>3
<1>12. reader' \in Reader'
  BY <1>5, <1>6, <1>9, <1>11 DEF Reader
<1>13. Written(lcsc, "written") \in Driver(S, U)
  BY <1>1, <1>6, TakenGrows, WrittenTypes DEF Words
<1>14. lcsc' \in Driver(S, U)
  BY <1>13 DEF WriteEnds, d
<1>15. lcsc'.settled = S
  BY <1>14 DEF Driver, Holding, Fields
<1>16. S \subseteq 1..U
  BY <1>1, <1>6 DEF MoneyInv
<1>17. MoneyInv'
  BY <1>1, <1>11, <1>12, <1>14, <1>15, <1>16 DEF MoneyInv
<1>18. CASE a.c = "deduct" /\ a.r = "ok"
  BY <1>4, <1>5, <1>15, <1>17, <1>18 DEF Takes
<1>19. CASE a.c = "flush" /\ a.r = "ok"
  BY <1>4, <1>5, <1>15, <1>17, <1>19 DEF Flushes
<1>20. CASE a.r # "ok" \/ a.c \notin {"deduct", "flush"}
  BY <1>5, <1>15, <1>17, <1>20 DEF Hands
<1> QED
  BY <1>18, <1>19, <1>20

------------------------------------------------------------------------------
\* The theorem.

LEMMA MoneyInit == Init => MoneyInv /\ Money!Init
<1> SUFFICES ASSUME Init PROVE MoneyInv /\ Money!Init
  OBVIOUS
<1> DEFINE p == [t |-> "enqueue", x |-> Command("login1", 0)]
<1>1. p \in Tasks({})
  BY CommandTypes DEF Tasks, Codes
<1>2. <<p>> \in Seq(Tasks({})) /\ << >> \in Seq(Cmds({}))
  BY <1>1
<1>3. Command("status", 0) \in Cmds({}) /\ None \in Charged(0) /\ NoJobs \in [Jobs -> Nat]
  BY DEF Command, Cmds, Codes, None, Answer, Charged, Replies, Results, NoJobs
<1>4. lcsc.settled = {} /\ reader.taken = 0 /\ reader.flushed = {} /\ 1..0 = {}
  BY DEF Init
<1>5. lcsc \in Driver({}, 0)
  BY <1>2, <1>3 DEF Init, Driver, Holding, Fields, States, UploadStates
<1>6. reader \in Reader /\ Kept
  BY <1>4 DEF Init, Reader, Kept
<1>7. op \in [left : [Calls -> Nat], events : Seq(Reports({}))]
  BY LcscAssumption DEF Init
<1>8. MoneyInv
  BY <1>4, <1>5, <1>6, <1>7 DEF MoneyInv
<1>9. Money!Init
  BY <1>4 DEF Money!Init, d
<1> QED
  BY <1>8, <1>9

LEMMA NextMoney == MoneyInv /\ [Next]_vars => MoneyInv' /\ (Hands \/ Takes \/ Flushes)
<1> SUFFICES ASSUME MoneyInv, [Next]_vars PROVE MoneyInv' /\ (Hands \/ Takes \/ Flushes)
  OBVIOUS
<1>1. CASE WriteEnds
  BY <1>1, WriteEndsMoney
<1>2. CASE RunTask \/ WriteFails \/ AnswerLost \/ AnswerTimer \/ WriteTimer
  BY <1>2, RunTaskHands, WriteFailsHands, AnswerLostHands, TimerHands DEF Hands
<1>3. CASE \E garbled \in BOOLEAN : FrameArrives(garbled)
  BY <1>3, FrameArrivesHands DEF Hands
<1>4. CASE \E j \in Jobs, ok \in BOOLEAN : JobEnds(j, ok)
  BY <1>4, JobEndsHands DEF Hands
<1>5. CASE FnSendGetCardIDCmd \/ FnLCSCReaderStopRead
  BY <1>5, ReadHands DEF Hands
<1>6. CASE FnSendCardDeduct \/ FnSendGetStatusCmd \/ FnUploadLCSCCDFiles
  BY <1>6, PostedHands DEF Hands
<1>7. CASE FnLCSCReaderClose \/ HandleEvent
  BY <1>7, CloseHands, HandleEventHands DEF Hands
<1>8. CASE UNCHANGED vars
  BY <1>8 DEF vars, Hands, MoneyInv, Driver, Holding, Fields, Kept, Reader
<1> QED
  BY <1>1, <1>2, <1>3, <1>4, <1>5, <1>6, <1>7, <1>8 DEF Next

LEMMA HandsMoney ==
  ASSUME MoneyInv, Hands \/ Takes \/ Flushes
  PROVE  [Money!Next]_<<1..reader.taken, d.settled, reader.flushed>>
<1>1. reader.taken \in Nat
  BY DEF MoneyInv, Reader
<1>2. CASE Hands
  BY <1>2 DEF Hands, Money!Next, Money!Settle, d
<1>3. CASE Takes
  <2>1. 1..reader.taken = reader.flushed
    BY <1>3 DEF Takes, MoneyInv, Kept
  <2>2. reader'.taken \in (1..reader'.taken) \ (1..reader.taken)
    BY <1>1, <1>3 DEF Takes
  <2>3. 1..reader'.taken = (1..reader.taken) \cup {reader'.taken}
    BY <1>1, <1>3 DEF Takes
  <2> QED
    BY <1>3, <2>1, <2>2, <2>3 DEF Takes, Money!Next, Money!Take, d
<1>4. CASE Flushes
  BY <1>4 DEF Flushes, Money!Next, Money!Flush, d
<1> QED
  BY <1>2, <1>3, <1>4

\* lcsc.cpp writes a deduction, or the record of one whose answer was lost, to the settlement file before
\* it commands the reader to forget it: whatever calls come, and however many answers are lost, late or
\* garbled, the driver's steps are steps of Settlement.
THEOREM FlushedStaysSettled == Spec => FlushedIsSettled
<1>1. MoneyInv /\ [Next]_vars => MoneyInv' /\ [Money!Next]_<<1..reader.taken, d.settled, reader.flushed>>
  BY NextMoney, HandsMoney
<1> QED
  BY <1>1, MoneyInit, PTL DEF Spec, FlushedIsSettled, Money!Spec

\* No more goes wrong than MaxFaults.
Bounded == faults \in 0..MaxFaults

LEMMA BoundedHolds == Spec => []Bounded
<1>1. Init => Bounded
  BY LcscAssumption DEF Init, Bounded
<1>2. Bounded /\ [Next]_vars => Bounded'
  <2> SUFFICES ASSUME Bounded, [Next]_vars PROVE Bounded'
    OBVIOUS
  <2>1. UNCHANGED faults \/ Fault
    BY DEF Next, vars, RunTask, WriteEnds, WriteFails, AnswerLost, AnswerTimer, WriteTimer, FrameArrives, JobEnds,
       FnSendGetCardIDCmd, FnLCSCReaderStopRead, FnSendCardDeduct, FnSendGetStatusCmd, FnUploadLCSCCDFiles,
       FnLCSCReaderClose, HandleEvent, Call
  <2> QED
    BY <2>1, LcscAssumption DEF Bounded, Fault
<1> QED
  BY <1>1, <1>2, PTL DEF Spec

LEMMA MoneyHolds == Spec => []MoneyInv
BY NextMoney, MoneyInit, PTL DEF Spec

\* Whatever calls come and whatever goes wrong, every variable of the driver keeps its type, and the reader
\* never holds a transaction it did not take (the handlers of lcsc.cpp).
THEOREM TypeCorrect == Spec => []TypeOK
<1>1. MoneyInv /\ Bounded => TypeOK
  <2> SUFFICES ASSUME MoneyInv, Bounded PROVE TypeOK
    OBVIOUS
  <2> DEFINE S == lcsc.settled
  <2>1. lcsc \in Fields(S, reader.taken, S)
    BY DEF MoneyInv, Driver, Holding
  <2>2. S \subseteq 1..reader.taken /\ reader.taken \in Nat /\ reader.flushed \in SUBSET Nat
        /\ (reader.record = 0 \/ reader.record = reader.taken)
    BY DEF MoneyInv, Reader, Kept
  <2>3. op.left \in [Calls -> Nat]
    BY DEF MoneyInv
  <2>4. Cmds(S) \subseteq [c : Codes, id : Nat]
    BY DEF Cmds
  <2>5. d.current \in [c : Codes, id : Nat] /\ d.queue \in Seq([c : Codes, id : Nat])
    <3>1. lcsc.current \in Cmds(S) /\ lcsc.queue \in Seq(Cmds(S))
      BY <2>1 DEF Fields
    <3> QED
      BY <2>4, <3>1, SeqMonotonic DEF d
  <2>6. /\ d.state \in States /\ d.upload \in UploadStates /\ d.out \in {"none", "busy", "late"}
        /\ d.chunks \in Nat /\ d.jobs \in [Jobs -> Nat] /\ d.files \in 0..1
    BY <2>1 DEF Fields, d
  <2>7. /\ d.reading \in BOOLEAN /\ d.writeTimer \in BOOLEAN /\ d.answerTimer \in BOOLEAN /\ d.has \in BOOLEAN
        /\ d.done \in BOOLEAN /\ d.file \in BOOLEAN /\ d.stopping \in BOOLEAN /\ d.odd \in BOOLEAN
    BY <2>1 DEF Fields, d
  <2>8. d.settled \in SUBSET Nat /\ reader.record \in 0..reader.taken
    BY <2>2 DEF d
  <2> QED
    BY <2>2, <2>3, <2>5, <2>6, <2>7, <2>8 DEF TypeOK, Bounded
<1> QED
  BY <1>1, MoneyHolds, BoundedHolds, PTL

\* One request to read a card (FnSendGetCardIDCmd) is answered with one balance at most: it is the balance that
\* takes back continueReadFlag_, and a repeated, queued or late command finds it down.
THEOREM BalanceOnce == Spec => []OneBalancePerRequest
<1>1. MoneyInv => OneBalancePerRequest
  BY DEF MoneyInv, Driver, Holding, Fields, OneBalancePerRequest, d
<1> QED
  BY <1>1, MoneyHolds, PTL

------------------------------------------------------------------------------
(* A driver where at most one thing went wrong *)

\* A timer that expires while what it guards is still under way: the write, or the answer.
Late == (AnswerTimer \/ WriteTimer) /\ faults' # faults

\* Tasks: those that the exchange with the reader does not depend on, and the calls for a command.
Job(t, x) == [t |-> t, x |-> x]
Aside  == {"enqueue", "check", "upload", "scanned", "unprepared"}
Called == {Job("event", "command"), Job("event", "chunks")}
CalledFor(q) == IF q = << >> THEN {} ELSE {Job("event", IF IsChunked(Head(q).c) THEN "chunks" ELSE "command")}
Chore(p, C) == p.t \in Aside \/ p \in C

\* All tasks of q are chores or of C; q holds the task x, with such tasks before it and chores, or tasks of D, behind
\* it; it holds x and, among those behind it, y.
All(q, C) == \A i \in DOMAIN q : Chore(q[i], C)
Carries(q, x, C, D) ==
  \E k \in DOMAIN q : q[k] = x /\ \A i \in DOMAIN q : (i < k => Chore(q[i], C)) /\ (i > k => Chore(q[i], D))
CarriesBoth(q, x, y, C, D) ==
  \E k, l \in DOMAIN q : /\ k < l /\ q[k] = x /\ q[l] = y
                         /\ \A i \in DOMAIN q : (i < k => Chore(q[i], C)) /\ (i > k /\ i # l => Chore(q[i], D))

\* The tasks that move a command on.
Timed(s, w, a, out) == s.writeTimer = w /\ s.answerTimer = a /\ s.out = out
Wrote == Job("event", "written")
Heard == Job("event", "received")
Over  == Job("writeTimer", "expired")
Tardy == Job("event", "write_timeout")
Fails == {Job("event", "write_failed"), Tardy, Over}
Expired  == Job("answerTimer", "expired")
TimedOut == Job("event", "timeout")
Refused    == Job("event", "chunk_error")
EndWords(state) ==
  {"timeout", "rejected"} \cup IF state = "waiting" THEN {"handled"} ELSE {"next", "all", "chunk_error"}
Told(state) == {Job("event", ev) : ev \in EndWords(state)}
Ends(state) == {Expired} \cup Told(state)

\* Where the driver is with its command: it has none; it writes, or a write ended and its end is told; it waits for
\* the answer, or what became of it is told.
Idles(s, r) == s.state = "idle" /\ Timed(s, FALSE, FALSE, "none") /\ r.wire = << >> /\ All(s.posts, CalledFor(s.queue))

SendState(c) == IF IsChunked(c.c) THEN "chunkSending" ELSE "sending"
WaitState(c) == IF IsChunked(c.c) THEN "chunkWaiting" ELSE "waiting"

Sends(s, r) ==
  /\ s.state = SendState(s.current)
  /\ \/ Timed(s, TRUE, FALSE, "busy") /\ r.wire = << >> /\ All(s.posts, Called)
     \/ Timed(s, TRUE, FALSE, "none") /\ r.wire = << >> /\ All(s.posts, Called)
     \/ Timed(s, FALSE, FALSE, "none") /\ r.wire = << >> /\ \E x \in Fails : Carries(s.posts, x, Called, {})
     \/ Timed(s, FALSE, FALSE, "none") /\ Len(r.wire) <= 1 /\ Carries(s.posts, Wrote, Called, {})
     \/ Timed(s, FALSE, FALSE, "none") /\ r.wire = << >> /\ CarriesBoth(s.posts, Wrote, Heard, Called, {})

Waits(s, r) ==
  /\ s.state = WaitState(s.current)
  /\ \/ Timed(s, FALSE, TRUE, "none") /\ Len(r.wire) <= 1 /\ All(s.posts, {})
     \/ Timed(s, FALSE, TRUE, "none") /\ r.wire = << >> /\ Carries(s.posts, Heard, {}, {})
     \/ Timed(s, FALSE, FALSE, "none") /\ r.wire = << >> /\ \E x \in Ends(s.state) : Carries(s.posts, x, {}, {})

Closed(s) == s.stopping /\ s.posts = << >> /\ Timed(s, FALSE, FALSE, "none")
Goes(s, r) == ~s.stopping /\ (Idles(s, r) \/ Sends(s, r) \/ Waits(s, r))

\* While nothing went wrong the command at work is at exactly one place, with the timer that guards that place and no
\* other.
Place == ~lcsc.odd /\ (Closed(lcsc) \/ Goes(lcsc, reader))

\* After a timer that was late the answer to the command it ended is still to come, or an event of that command
\* is still posted.  These, Dead, a later command meets where they say nothing to it; the others, an expiry that was
\* overtaken by the end of its write, the end of a chunk that was refused, are met before the next command is taken.
Dead == {Heard} \cup {Job("event", ev) : ev \in {"timeout", "rejected", "handled", "next", "all"}}
Ignored == Called \cup Dead
Few(r, n) == Len(r.wire) <= n

LateIdles(s, r) ==
  /\ s.state = "idle" /\ Timed(s, FALSE, FALSE, "none") /\ Few(r, 1)
  /\ \/ All(s.posts, CalledFor(s.queue) \cup Dead)
     \/ Carries(s.posts, Refused, {}, CalledFor(s.queue) \cup Dead)

LateSends(s, r) ==
  /\ s.state = SendState(s.current)
  /\ \/ Timed(s, TRUE, FALSE, "busy") /\ Few(r, 1) /\ All(s.posts, Ignored)
     \/ Timed(s, TRUE, FALSE, "none") /\ Few(r, 1) /\ All(s.posts, Ignored)
     \/ Timed(s, FALSE, FALSE, "none") /\ Few(r, 1) /\ \E x \in Fails : Carries(s.posts, x, Ignored, Dead)
     \/ Timed(s, FALSE, FALSE, "none") /\ Few(r, 2) /\ Carries(s.posts, Wrote, Ignored, {Tardy})
     \/ Timed(s, FALSE, FALSE, "none") /\ Few(r, 1) /\ CarriesBoth(s.posts, Wrote, Heard, Ignored, {Tardy})
     \/ Timed(s, FALSE, FALSE, "none") /\ Few(r, 0) /\ Carries(s.posts, Wrote, Ignored, {Tardy, Heard})
     \/ Timed(s, FALSE, FALSE, "busy") /\ Few(r, 0) /\ Carries(s.posts, Over, Ignored, {})
     \/ Timed(s, FALSE, FALSE, "none") /\ Few(r, 1) /\ CarriesBoth(s.posts, Over, Wrote, Ignored, {})
     \/ Timed(s, FALSE, FALSE, "none") /\ Few(r, 0) /\ CarriesBoth(s.posts, Over, Wrote, Ignored, {Heard})
     \/ Timed(s, FALSE, FALSE, "late") /\ Few(r, 0) /\ All(s.posts, Ignored)

LateWaits(s, r) ==
  /\ s.state = WaitState(s.current)
  /\ \/ /\ Timed(s, FALSE, TRUE, "none")
        /\ \/ Few(r, 2) /\ All(s.posts, {Tardy})
           \/ Few(r, 1) /\ Carries(s.posts, Heard, {Tardy}, {Tardy})
           \/ Few(r, 0) /\ All(s.posts, {Tardy, Heard})
     \/ /\ Timed(s, FALSE, FALSE, "none")
        /\ \/ Few(r, 0) /\ s.frame = None /\ \E x \in Told(s.state) : Carries(s.posts, x, {Tardy, Heard}, Dead)
           \/ Few(r, 1) /\ \E x \in Told(s.state) : Carries(s.posts, x, {Tardy}, Dead)
           \/ Few(r, 1) /\ Carries(s.posts, Expired, {Tardy}, {})
           \/ Few(r, 0) /\ CarriesBoth(s.posts, Expired, Heard, {Tardy}, {})
           \/ Few(r, 0) /\ CarriesBoth(s.posts, Heard, Expired, {}, {})
           \/ Few(r, 0) /\ \E x \in Told(s.state) : CarriesBoth(s.posts, Expired, x, {}, {})
           \/ Few(r, 0) /\ CarriesBoth(s.posts, Heard, TimedOut, {}, {})
           \/ Few(r, 0) /\ CarriesBoth(s.posts, TimedOut, Refused, {}, {})

LateGoes(s, r) == ~s.stopping /\ (LateIdles(s, r) \/ LateSends(s, r) \/ LateWaits(s, r))
LatePlace == ~lcsc.odd /\ (Closed(lcsc) \/ LateGoes(lcsc, reader))

OnePlace == (faults = 0 => Place) /\ (faults = 1 => LatePlace)

------------------------------------------------------------------------------
\* Queues of tasks: r is q with chores, or tasks of D, behind it.
Queues == Seq(Tasks(Nat))
Grows(q, r, D) == Len(q) <= Len(r) /\ \A i \in DOMAIN r : IF i <= Len(q) THEN r[i] = q[i] ELSE Chore(r[i], D)

LEMMA AppendParts ==
  ASSUME NEW X, NEW q \in Seq(X), NEW x
  PROVE  /\ Len(q) \in Nat /\ DOMAIN q = 1..Len(q) /\ DOMAIN Append(q, x) = 1..(Len(q) + 1)
         /\ Append(q, x)[Len(q) + 1] = x /\ \A i \in 1..Len(q) : Append(q, x)[i] = q[i]
         /\ x \in X => Append(q, x) \in Seq(X) /\ Len(Append(q, x)) = Len(q) + 1
OBVIOUS

LEMMA QueueParts ==
  ASSUME NEW q \in Queues, NEW x
  PROVE  /\ Len(q) \in Nat /\ DOMAIN q = 1..Len(q) /\ DOMAIN Append(q, x) = 1..(Len(q) + 1)
         /\ Append(q, x)[Len(q) + 1] = x /\ \A i \in 1..Len(q) : Append(q, x)[i] = q[i]
         /\ x \in Tasks(Nat) => Append(q, x) \in Queues /\ Len(Append(q, x)) = Len(q) + 1
BY AppendParts DEF Queues

LEMMA RestParts ==
  ASSUME NEW X, NEW q \in Seq(X), q # << >>
  PROVE  /\ Head(q) \in X /\ Tail(q) \in Seq(X) /\ Len(q) \in Nat /\ Len(q) > 0
         /\ Head(q) = q[1] /\ DOMAIN q = 1..Len(q) /\ DOMAIN Tail(q) = 1..(Len(q) - 1)
         /\ \A i \in 1..(Len(q) - 1) : Tail(q)[i] = q[i + 1]
OBVIOUS

LEMMA TailParts ==
  ASSUME NEW q \in Queues, q # << >>
  PROVE  /\ Len(q) \in Nat /\ Len(q) > 0 /\ Head(q) = q[1] /\ DOMAIN q = 1..Len(q) /\ Head(q) \in Tasks(Nat)
         /\ Tail(q) \in Queues /\ DOMAIN Tail(q) = 1..(Len(q) - 1)
         /\ \A i \in 1..(Len(q) - 1) : Tail(q)[i] = q[i + 1]
BY RestParts DEF Queues

\* More kinds of tasks may be allowed.
LEMMA Widening ==
  ASSUME NEW q, NEW C, NEW D, NEW E, C \subseteq E, NEW F, D \subseteq F
  PROVE  /\ All(q, C) => All(q, E)
         /\ \A x : Carries(q, x, C, D) => Carries(q, x, E, F)
         /\ \A x, y : CarriesBoth(q, x, y, C, D) => CarriesBoth(q, x, y, E, F)
<1>1. \A p : (Chore(p, C) => Chore(p, E)) /\ (Chore(p, D) => Chore(p, F))
  BY DEF Chore
<1>2. ASSUME NEW x, Carries(q, x, C, D) PROVE Carries(q, x, E, F)
  BY <1>1, <1>2 DEF Carries
<1>3. ASSUME NEW x, NEW y, CarriesBoth(q, x, y, C, D) PROVE CarriesBoth(q, x, y, E, F)
  <2>1. PICK k \in DOMAIN q, l \in DOMAIN q :
          /\ k < l /\ q[k] = x /\ q[l] = y
          /\ \A i \in DOMAIN q : (i < k => Chore(q[i], C)) /\ (i > k /\ i # l => Chore(q[i], D))
    BY <1>3 DEF CarriesBoth
  <2>2. \A i \in DOMAIN q : (i < k => Chore(q[i], E)) /\ (i > k /\ i # l => Chore(q[i], F))
    BY <1>1, <2>1
  <2> QED
    BY <2>1, <2>2 DEF CarriesBoth
<1> QED
  BY <1>1, <1>2, <1>3 DEF All

LEMMA Growing ==
  ASSUME NEW q \in Queues, NEW D
  PROVE  /\ Grows(q, q, D)
         /\ \A a \in Tasks(Nat) : Chore(a, D) => Append(q, a) \in Queues /\ Grows(q, Append(q, a), D)
BY QueueParts DEF Grows

LEMMA GrowsTwice ==
  ASSUME NEW q \in Queues, NEW r \in Queues, NEW p \in Queues, NEW C, NEW D, C \subseteq D,
         Grows(q, r, C), Grows(r, p, D)
  PROVE  Grows(q, p, D)
<1>1. /\ Len(q) \in Nat /\ Len(r) \in Nat /\ Len(p) \in Nat
      /\ DOMAIN q = 1..Len(q) /\ DOMAIN r = 1..Len(r) /\ DOMAIN p = 1..Len(p)
  BY QueueParts
<1>2. \A x : Chore(x, C) => Chore(x, D)
  BY DEF Chore
<1> QED
  BY <1>1, <1>2 DEF Grows

LEMMA GrowsAll ==
  ASSUME NEW q \in Queues, NEW r \in Queues, NEW C, NEW E, E \subseteq C, All(q, C), Grows(q, r, E)
  PROVE  All(r, C)
<1>1. Len(q) \in Nat /\ Len(r) \in Nat /\ DOMAIN q = 1..Len(q) /\ DOMAIN r = 1..Len(r)
  BY QueueParts
<1> QED
  BY <1>1 DEF Grows, All, Chore

LEMMA GrowsCarries ==
  ASSUME NEW q \in Queues, NEW r \in Queues, NEW x, NEW C, NEW D, NEW E, E \subseteq D,
         Carries(q, x, C, D), Grows(q, r, E)
  PROVE  Carries(r, x, C, D)
<1>1. Len(q) \in Nat /\ Len(r) \in Nat /\ DOMAIN q = 1..Len(q) /\ DOMAIN r = 1..Len(r)
  BY QueueParts
<1>2. PICK k \in DOMAIN q : q[k] = x /\ \A i \in DOMAIN q : (i < k => Chore(q[i], C)) /\ (i > k => Chore(q[i], D))
  BY DEF Carries
<1>3. k \in DOMAIN r /\ r[k] = x
  BY <1>1, <1>2 DEF Grows
<1>4. \A p : Chore(p, E) => Chore(p, D)
  BY DEF Chore
<1>5. ASSUME NEW i \in DOMAIN r PROVE (i < k => Chore(r[i], C)) /\ (i > k => Chore(r[i], D))
  BY <1>1, <1>2, <1>4 DEF Grows
<1> QED
  BY <1>3, <1>5 DEF Carries

LEMMA GrowsCarriesBoth ==
  ASSUME NEW q \in Queues, NEW r \in Queues, NEW x, NEW y, NEW C, NEW D, NEW E, E \subseteq D,
         CarriesBoth(q, x, y, C, D), Grows(q, r, E)
  PROVE  CarriesBoth(r, x, y, C, D)
<1>1. Len(q) \in Nat /\ Len(r) \in Nat /\ DOMAIN q = 1..Len(q) /\ DOMAIN r = 1..Len(r)
  BY QueueParts
<1>2. PICK k \in DOMAIN q, l \in DOMAIN q :
        /\ k < l /\ q[k] = x /\ q[l] = y
        /\ \A i \in DOMAIN q : (i < k => Chore(q[i], C)) /\ (i > k /\ i # l => Chore(q[i], D))
  BY DEF CarriesBoth
<1>3. k \in DOMAIN r /\ r[k] = x /\ l \in DOMAIN r /\ r[l] = y
  BY <1>1, <1>2 DEF Grows
<1>4. \A p : Chore(p, E) => Chore(p, D)
  BY DEF Chore
<1>5. ASSUME NEW i \in DOMAIN r PROVE (i < k => Chore(r[i], C)) /\ (i > k /\ i # l => Chore(r[i], D))
  BY <1>1, <1>2, <1>4 DEF Grows
<1> QED
  BY <1>2, <1>3, <1>5 DEF CarriesBoth

LEMMA TokenComes ==
  ASSUME NEW q \in Queues, NEW x, NEW C, All(q, C), NEW D
  PROVE  Carries(Append(q, x), x, C, D)
<1> DEFINE r == Append(q, x)
<1>1. /\ Len(q) \in Nat /\ DOMAIN q = 1..Len(q) /\ DOMAIN r = 1..(Len(q) + 1)
      /\ r[Len(q) + 1] = x /\ \A i \in 1..Len(q) : r[i] = q[i]
  BY QueueParts
<1> HIDE DEF r
<1>2. Carries(r, x, C, D)
  <2>1. Len(q) + 1 \in DOMAIN r
    BY <1>1
  <2>2. \A i \in DOMAIN r : (i < Len(q) + 1 => Chore(r[i], C)) /\ (i > Len(q) + 1 => Chore(r[i], D))
    BY <1>1 DEF All
  <2> QED
    BY <1>1, <2>1, <2>2 DEF Carries
<1> QED
  BY <1>2 DEF r

LEMMA SecondComes ==
  ASSUME NEW q \in Queues, NEW x, NEW y, NEW C, NEW D, Carries(q, x, C, D)
  PROVE  CarriesBoth(Append(q, y), x, y, C, D)
<1> DEFINE r == Append(q, y)
<1>1. /\ Len(q) \in Nat /\ DOMAIN q = 1..Len(q) /\ DOMAIN r = 1..(Len(q) + 1)
      /\ r[Len(q) + 1] = y /\ \A i \in 1..Len(q) : r[i] = q[i]
  BY QueueParts
<1> HIDE DEF r
<1>2. PICK k \in DOMAIN q : q[k] = x /\ \A i \in DOMAIN q : (i < k => Chore(q[i], C)) /\ (i > k => Chore(q[i], D))
  BY DEF Carries
<1> DEFINE l == Len(q) + 1
<1>3. k \in DOMAIN r /\ l \in DOMAIN r /\ k < l /\ r[k] = x /\ r[l] = y
  BY <1>1, <1>2
<1>4. ASSUME NEW i \in DOMAIN r PROVE (i < k => Chore(r[i], C)) /\ (i > k /\ i # l => Chore(r[i], D))
  BY <1>1, <1>2
<1> HIDE DEF l
<1> QED
  BY <1>3, <1>4 DEF CarriesBoth, r

\* The second of the two may be any of those behind the first.
LEMMA BothCarries ==
  ASSUME NEW q, NEW x, NEW y, NEW C, NEW D, CarriesBoth(q, x, y, C, D), NEW E, D \subseteq E, y \in E
  PROVE  Carries(q, x, C, E)
<1>1. PICK k \in DOMAIN q, l \in DOMAIN q :
        /\ k < l /\ q[k] = x /\ q[l] = y
        /\ \A i \in DOMAIN q : (i < k => Chore(q[i], C)) /\ (i > k /\ i # l => Chore(q[i], D))
  BY DEF CarriesBoth
<1>2. \A i \in DOMAIN q : (i < k => Chore(q[i], C)) /\ (i > k => Chore(q[i], E))
  BY <1>1 DEF Chore
<1> QED
  BY <1>1, <1>2 DEF Carries

LEMMA HeadOfAll ==
  ASSUME NEW q \in Queues, q # << >>, NEW C, All(q, C)
  PROVE  Chore(Head(q), C) /\ All(Tail(q), C)
<1>1. /\ Len(q) \in Nat /\ Len(q) > 0 /\ Head(q) = q[1] /\ DOMAIN q = 1..Len(q)
      /\ DOMAIN Tail(q) = 1..(Len(q) - 1) /\ \A i \in 1..(Len(q) - 1) : Tail(q)[i] = q[i + 1]
  BY TailParts
<1> QED
  BY <1>1 DEF All

LEMMA HeadOfCarries ==
  ASSUME NEW q \in Queues, NEW x, NEW C, NEW D, Carries(q, x, C, D)
  PROVE  /\ q # << >>
         /\ (Head(q) = x /\ All(Tail(q), D)) \/ (Chore(Head(q), C) /\ Carries(Tail(q), x, C, D))
<1>1. PICK k \in DOMAIN q : q[k] = x /\ \A i \in DOMAIN q : (i < k => Chore(q[i], C)) /\ (i > k => Chore(q[i], D))
  BY DEF Carries
<1>2. q # << >>
  BY <1>1
<1>3. /\ Len(q) \in Nat /\ Len(q) > 0 /\ Head(q) = q[1] /\ DOMAIN q = 1..Len(q)
      /\ DOMAIN Tail(q) = 1..(Len(q) - 1) /\ \A i \in 1..(Len(q) - 1) : Tail(q)[i] = q[i + 1]
  BY <1>2, TailParts
<1> DEFINE r == Tail(q)
<1> HIDE DEF r
<1>4. CASE k = 1
  <2>1. \A i \in DOMAIN r : Chore(r[i], D)
    BY <1>1, <1>3, <1>4 DEF r
  <2> QED
    BY <1>1, <1>2, <1>3, <1>4, <2>1 DEF All, r
<1>5. CASE k # 1
  <2>1. k - 1 \in DOMAIN r /\ r[k - 1] = x
    BY <1>1, <1>3, <1>5 DEF r
  <2>2. \A i \in DOMAIN r : (i < k - 1 => Chore(r[i], C)) /\ (i > k - 1 => Chore(r[i], D))
    BY <1>1, <1>3, <1>5 DEF r
  <2>3. Chore(Head(q), C)
    BY <1>1, <1>3, <1>5
  <2> QED
    BY <1>2, <2>1, <2>2, <2>3 DEF Carries, r
<1> QED
  BY <1>4, <1>5

LEMMA HeadOfBoth ==
  ASSUME NEW q \in Queues, NEW x, NEW y, NEW C, NEW D, CarriesBoth(q, x, y, C, D)
  PROVE  /\ q # << >>
         /\ (Head(q) = x /\ Carries(Tail(q), y, D, D)) \/ (Chore(Head(q), C) /\ CarriesBoth(Tail(q), x, y, C, D))
<1>1. PICK k \in DOMAIN q, l \in DOMAIN q :
        /\ k < l /\ q[k] = x /\ q[l] = y
        /\ \A i \in DOMAIN q : (i < k => Chore(q[i], C)) /\ (i > k /\ i # l => Chore(q[i], D))
  BY DEF CarriesBoth
<1>2. q # << >>
  BY <1>1
<1>3. /\ Len(q) \in Nat /\ Len(q) > 0 /\ Head(q) = q[1] /\ DOMAIN q = 1..Len(q)
      /\ DOMAIN Tail(q) = 1..(Len(q) - 1) /\ \A i \in 1..(Len(q) - 1) : Tail(q)[i] = q[i + 1]
  BY <1>2, TailParts
<1> DEFINE r == Tail(q)
<1> HIDE DEF r
<1>6. l - 1 \in DOMAIN r /\ r[l - 1] = y
  BY <1>1, <1>3 DEF r
<1>4. CASE k = 1
  <2>1. \A i \in DOMAIN r : (i < l - 1 => Chore(r[i], D)) /\ (i > l - 1 => Chore(r[i], D))
    BY <1>1, <1>3, <1>4 DEF r
  <2> QED
    BY <1>1, <1>2, <1>3, <1>4, <1>6, <2>1 DEF Carries, r
<1>5. CASE k # 1
  <2>1. k - 1 \in DOMAIN r /\ r[k - 1] = x
    BY <1>1, <1>3, <1>5 DEF r
  <2>2. \A i \in DOMAIN r : (i < k - 1 => Chore(r[i], C)) /\ (i > k - 1 /\ i # l - 1 => Chore(r[i], D))
    BY <1>1, <1>3, <1>5 DEF r
  <2>3. Chore(Head(q), C)
    BY <1>1, <1>3, <1>5
  <2>4. k - 1 < l - 1
    BY <1>1, <1>3
  <2> QED
    BY <1>2, <1>6, <2>1, <2>2, <2>3, <2>4 DEF CarriesBoth, r
<1> QED
  BY <1>4, <1>5

\* r is q with x and chores behind it.
Tells(q, x, r) == \E p \in Queues : Grows(q, p, {}) /\ Grows(Append(p, x), r, {})

LEMMA Telling ==
  ASSUME NEW q \in Queues, NEW r \in Queues, NEW x \in Tasks(Nat), Tells(q, x, r)
  PROVE  /\ \A C, D : All(q, C) => Carries(r, x, C, D)
         /\ \A y, C, D : Carries(q, y, C, D) => CarriesBoth(r, y, x, C, D)
         /\ \A y, C, D : Carries(q, y, C, D) /\ x \in D => Carries(r, y, C, D)
<1>1. PICK p \in Queues : Grows(q, p, {}) /\ Grows(Append(p, x), r, {})
  BY DEF Tells
<1>2. Append(p, x) \in Queues
  BY QueueParts
<1>3. ASSUME NEW C, NEW D, All(q, C) PROVE Carries(r, x, C, D)
  <2>1. All(p, C)
    BY <1>1, <1>3, GrowsAll
  <2>2. Carries(Append(p, x), x, C, D)
    BY <2>1, TokenComes
  <2> QED
    BY <1>1, <1>2, <2>2, GrowsCarries
<1>4. ASSUME NEW y, NEW C, NEW D, Carries(q, y, C, D)
      PROVE  CarriesBoth(r, y, x, C, D) /\ (x \in D => Carries(r, y, C, D))
  <2>1. Carries(p, y, C, D)
    BY <1>1, <1>4, GrowsCarries
  <2>2. CarriesBoth(Append(p, x), y, x, C, D)
    BY <2>1, SecondComes
  <2>3. CarriesBoth(r, y, x, C, D)
    BY <1>1, <1>2, <2>2, GrowsCarriesBoth
  <2> QED
    BY <2>3, BothCarries
<1> QED
  BY <1>3, <1>4

LEMMA Appending ==
  ASSUME NEW q \in Queues, NEW x \in Tasks(Nat)
  PROVE  Append(q, x) \in Queues /\ Tells(q, x, Append(q, x))
<1>1. Append(q, x) \in Queues
  BY QueueParts
<1>2. Grows(q, q, {}) /\ Grows(Append(q, x), Append(q, x), {})
  BY <1>1, Growing
<1> QED
  BY <1>1, <1>2 DEF Tells

------------------------------------------------------------------------------
\* The fields, of which those of Alike are what only the command at work changes.
Keys ==
  {"state", "current", "queue", "chunks", "reading", "frame", "out", "writeTimer", "answerTimer", "posts", "upload",
   "has", "done", "file", "files", "jobs", "settled", "stopping", "odd", "reports"}
Sound(s) == DOMAIN s = Keys /\ s.queue \in Seq(Cmds(Nat)) /\ s.posts \in Queues
Alike(s, t) ==
  /\ t.state = s.state /\ t.current = s.current /\ t.out = s.out /\ t.writeTimer = s.writeTimer
  /\ t.answerTimer = s.answerTimer /\ t.stopping = s.stopping /\ t.odd = s.odd /\ t.frame = s.frame
Same(s, t) == Sound(t) /\ Alike(s, t) /\ t.posts = s.posts /\ t.queue = s.queue

\* A step that the command at work does not notice: chores are posted, and, while there is none, calls for the
\* command at the head of the queue.
Harmless(s, t) ==
  /\ Sound(t) /\ Alike(s, t)
  /\ Grows(s.posts, t.posts, IF s.state = "idle" THEN CalledFor(t.queue) ELSE {})
  /\ s.state = "idle" => CalledFor(s.queue) \subseteq CalledFor(t.queue)

LEMMA DriverSound == ASSUME NEW S, NEW T, S \subseteq Nat, NEW s \in Driver(S, T) PROVE Sound(s)
<1>1. Cmds(S) \subseteq Cmds(Nat)
  BY DEF Cmds
<1>2. Tasks(S) \subseteq Tasks(Nat)
  BY <1>1 DEF Tasks
<1>3. DOMAIN s = Keys
  BY DEF Driver, Holding, Fields, Keys
<1>4. s.queue \in Seq(Cmds(S)) /\ s.posts \in Seq(Tasks(S))
  BY DEF Driver, Holding, Fields
<1> QED
  BY <1>1, <1>2, <1>3, <1>4, SeqMonotonic DEF Sound, Queues

LEMMA MoneySound == MoneyInv => Sound(lcsc)
<1> SUFFICES ASSUME MoneyInv PROVE Sound(lcsc)
  OBVIOUS
<1>1. lcsc \in Driver(lcsc.settled, reader.taken) /\ lcsc.settled \subseteq Nat
  BY DEF MoneyInv, Reader
<1> QED
  BY <1>1, DriverSound

LEMMA SameHarmless == ASSUME NEW s, Sound(s), NEW t, Same(s, t) PROVE Harmless(s, t)
<1>1. \A D : Grows(s.posts, s.posts, D)
  BY Growing DEF Sound
<1> QED
  BY <1>1 DEF Same, Harmless

LEMMA HarmlessTwice ==
  ASSUME NEW s, NEW t, NEW u, Sound(s), Harmless(s, t), Harmless(t, u)
  PROVE  Harmless(s, u)
<1>1. s.posts \in Queues /\ t.posts \in Queues /\ u.posts \in Queues
  BY DEF Harmless, Sound
<1>2. s.state # "idle" => Grows(s.posts, u.posts, {})
  BY <1>1, GrowsTwice DEF Harmless, Alike
<1>3. s.state = "idle" => Grows(s.posts, u.posts, CalledFor(u.queue))
  BY <1>1, GrowsTwice DEF Harmless, Alike
<1> QED
  BY <1>2, <1>3 DEF Harmless, Alike

\* Words and commands that are posted.
LEMMA Posted ==
  /\ \A t \in Plain, x \in Words : Job(t, x) \in Tasks(Nat)
  /\ \A c \in Codes, id \in Nat : Command(c, id) \in Cmds(Nat) /\ Job("enqueue", Command(c, id)) \in Tasks(Nat)
  /\ \A b \in BOOLEAN : Job("scanned", b) \in Tasks(Nat)
BY DEF Job, Tasks, Command, Cmds

LEMMA PostParts ==
  ASSUME NEW s, Sound(s), NEW t, NEW x, Job(t, x) \in Tasks(Nat)
  PROVE  LET u == Post(s, t, x)
         IN Sound(u) /\ Alike(s, u) /\ u.queue = s.queue /\ u.posts = Append(s.posts, Job(t, x))
<1>1. Append(s.posts, Job(t, x)) \in Queues
  BY QueueParts DEF Sound
<1> DEFINE q == Append(s.posts, Job(t, x))
<1>2. Post(s, t, x) = [s EXCEPT !.posts = q]
  BY DEF Post, Job
<1> HIDE DEF q
<1> QED
  BY <1>1, <1>2 DEF Sound, Keys, Alike, q

LEMMA PostHarmless ==
  ASSUME NEW s, Sound(s), NEW t \in Aside, NEW x, Job(t, x) \in Tasks(Nat)
  PROVE  Harmless(s, Post(s, t, x))
<1> DEFINE u == Post(s, t, x)
           a == Job(t, x)
<1>1. Sound(u) /\ Alike(s, u) /\ u.queue = s.queue /\ u.posts = Append(s.posts, a)
  BY PostParts
<1>2. \A C : Chore(a, C)
  BY DEF Chore, Job
<1>3. a \in Tasks(Nat) /\ s.posts \in Queues
  BY DEF Sound
<1> HIDE DEF u, a
<1>4. \A D : Grows(s.posts, u.posts, D)
  BY <1>1, <1>2, <1>3, Growing
<1>6. Harmless(s, u)
  BY <1>1, <1>4 DEF Harmless
<1> QED
  BY <1>6 DEF u

LEMMA UploadEventHarmless ==
  ASSUME NEW s, Sound(s), NEW x \in Words
  PROVE  Harmless(s, UploadEvent(s, x)) /\ Sound(UploadEvent(s, x))
<1>1. Job("upload", x) \in Tasks(Nat) /\ "upload" \in Aside
  BY Posted DEF Plain, Aside
<1> QED
  BY <1>1, PostHarmless DEF UploadEvent, Harmless

LEMMA CheckHarmless ==
  ASSUME NEW s, Sound(s)
  PROVE  Harmless(s, CheckCommandQueue(s))
<1>1. CASE s.state # "idle" \/ s.queue = << >>
  <2>1. Same(s, s)
    BY DEF Same, Alike
  <2> QED
    BY <1>1, <2>1, SameHarmless DEF CheckCommandQueue
<1>2. CASE ~(s.state # "idle" \/ s.queue = << >>)
  <2> DEFINE w == IF IsChunked(Head(s.queue).c) THEN "chunks" ELSE "command"
             u == Event(s, w)
  <2>1. w \in Words /\ CalledFor(s.queue) = {Job("event", w)}
    BY <1>2 DEF Words, CalledFor
  <2> HIDE DEF w
  <2>2. Job("event", w) \in Tasks(Nat)
    BY <2>1, Posted DEF Plain
  <2>3. Sound(u) /\ Alike(s, u) /\ u.queue = s.queue /\ u.posts = Append(s.posts, Job("event", w))
    BY <2>2, PostParts DEF Event
  <2>4. s.posts \in Queues /\ Chore(Job("event", w), CalledFor(s.queue))
    BY <2>1 DEF Sound, Chore
  <2>5. CheckCommandQueue(s) = u
    BY <1>2 DEF CheckCommandQueue, w
  <2> HIDE DEF u
  <2>6. Grows(s.posts, u.posts, CalledFor(u.queue))
    BY <2>2, <2>3, <2>4, Growing
  <2> QED
    BY <1>2, <2>3, <2>5, <2>6 DEF Harmless
<1> QED
  BY <1>1, <1>2

LEMMA AppendHead ==
  ASSUME NEW X, NEW q \in Seq(X), NEW c \in X
  PROVE  Append(q, c) \in Seq(X) /\ (q # << >> => Append(q, c) # << >> /\ Head(Append(q, c)) = Head(q))
OBVIOUS

\* The command that is queued goes behind the one that was called for.
LEMMA EnqueueHarmless ==
  ASSUME NEW s, Sound(s), NEW c \in Cmds(Nat)
  PROVE  Harmless(s, Enqueue(s, c))
<1> DEFINE q == Append(s.queue, c)
           u == [s EXCEPT !.queue = q]
<1>1. s.queue \in Seq(Cmds(Nat))
  BY DEF Sound
<1>2. q \in Seq(Cmds(Nat)) /\ (s.queue # << >> => q # << >> /\ Head(q) = Head(s.queue))
  BY <1>1, AppendHead
<1>3. Enqueue(s, c) = CheckCommandQueue(u)
  BY DEF Enqueue
<1> HIDE DEF q
<1>4. Sound(u) /\ Alike(s, u) /\ u.posts = s.posts /\ u.queue = q
  BY <1>2 DEF Sound, Keys, Alike
<1> HIDE DEF u
<1>5. CalledFor(s.queue) \subseteq CalledFor(u.queue)
  BY <1>2, <1>4 DEF CalledFor
<1>7. \A D : Grows(s.posts, u.posts, D)
  BY <1>4, Growing DEF Sound
<1>8. Harmless(s, u)
  BY <1>4, <1>5, <1>7 DEF Harmless
<1> QED
  BY <1>3, <1>4, <1>8, CheckHarmless, HarmlessTwice

\* One goes in front of it only while a command is at work.
LEMMA FrontHarmless ==
  ASSUME NEW s, Sound(s), s.state # "idle", NEW c \in Cmds(Nat)
  PROVE  Harmless(s, EnqueueToFront(s, c))
<1> DEFINE q == <<c>> \o s.queue
           u == [s EXCEPT !.queue = q]
<1>1. q \in Seq(Cmds(Nat))
  BY DEF Sound
<1> HIDE DEF q
<1>2. Sound(u) /\ Alike(s, u) /\ u.posts = s.posts
  BY <1>1 DEF Sound, Keys, Alike
<1>3. \A D : Grows(s.posts, s.posts, D)
  BY Growing DEF Sound
<1> HIDE DEF u
<1>4. Harmless(s, u) /\ Harmless(s, s)
  BY <1>2, <1>3 DEF Harmless, Alike
<1>5. Harmless(s, CheckCommandQueue(u))
  BY <1>2, <1>4, CheckHarmless, HarmlessTwice
<1> QED
  BY <1>4, <1>5 DEF EnqueueToFront, u, q

\* What has failed is polled again, or told.
LEMMA FailedHarmless ==
  ASSUME NEW s, Sound(s), NEW c, s.state # "idle" \/ c = "upload"
  PROVE  Harmless(s, Failed(s, c).s)
<1>1. Harmless(s, s)
  BY SameHarmless DEF Same, Alike
<1>2. Harmless(s, UploadEvent(s, "status_failed"))
  BY UploadEventHarmless DEF Words
<1>3. CASE c \in {"card_id", "balance"}
  <2>1. s.state # "idle" /\ Command(c, 0) \in Cmds(Nat)
    BY <1>3, Posted DEF Codes
  <2>2. Harmless(s, EnqueueToFront(s, Command(c, 0)))
    BY <2>1, FrontHarmless
  <2> QED
    BY <1>1, <1>3, <2>2 DEF Failed, Silent, Says
<1>4. CASE c \notin {"card_id", "balance"}
  BY <1>1, <1>2, <1>4 DEF Failed, Says
<1> QED
  BY <1>3, <1>4

LEMMA UploadTransitionHarmless ==
  ASSUME NEW s, Sound(s), NEW ev
  PROVE  Harmless(s, UploadTransition(s, ev))
<1>1. ASSUME NEW t, Same(s, t) PROVE Harmless(s, t)
  BY <1>1, SameHarmless
<1>2. /\ \A j : Same(s, StartJob(s, j))
      /\ \A j, up : Same(s, [StartJob(s, j) EXCEPT !.upload = up])
      /\ Same(s, [StartJob(s, "scan") EXCEPT !.has = TRUE, !.upload = "upload"])
  BY DEF StartJob, Same, Sound, Keys, Alike
<1>3. /\ Same(s, s) /\ Same(s, [s EXCEPT !.upload = "idle"]) /\ Same(s, [s EXCEPT !.file = FALSE, !.upload = "idle"])
      /\ Same(s, [s EXCEPT !.has = FALSE, !.done = TRUE, !.upload = "idle"])
  BY DEF Same, Sound, Keys, Alike
<1>4. ASSUME NEW t, Sound(t), Harmless(s, t), NEW up PROVE Harmless(s, [t EXCEPT !.upload = up])
  <2>1. Same(t, [t EXCEPT !.upload = up])
    BY <1>4 DEF Same, Sound, Keys, Alike
  <2> QED
    BY <1>4, <2>1, SameHarmless, HarmlessTwice
<1>5. /\ Harmless(s, UploadEvent(s, "continue")) /\ Harmless(s, UploadEvent(s, "allow"))
      /\ Harmless(s, UploadEvent(s, "cleaned")) /\ Harmless(s, UploadEvent(s, "downloaded"))
      /\ Sound(UploadEvent(s, "downloaded"))
  BY UploadEventHarmless DEF Words
<1>6. Harmless(s, [UploadEvent(s, "downloaded") EXCEPT !.upload = "download"])
  BY <1>4, <1>5
<1>7. Command("status", 0) \in Cmds(Nat)
  BY Posted DEF Codes
<1>8. Harmless(s, Enqueue(s, Command("status", 0))) /\ Sound(Enqueue(s, Command("status", 0)))
  BY <1>7, EnqueueHarmless DEF Harmless
<1>9. Harmless(s, [Enqueue(s, Command("status", 0)) EXCEPT !.upload = "generate"])
  BY <1>4, <1>8
<1>10. /\ \A j : Harmless(s, StartJob(s, j))
       /\ \A j, up : Harmless(s, [StartJob(s, j) EXCEPT !.upload = up])
       /\ Harmless(s, [StartJob(s, "scan") EXCEPT !.has = TRUE, !.upload = "upload"])
       /\ Harmless(s, s) /\ Harmless(s, [s EXCEPT !.upload = "idle"])
       /\ Harmless(s, [s EXCEPT !.file = FALSE, !.upload = "idle"])
       /\ Harmless(s, [s EXCEPT !.has = FALSE, !.done = TRUE, !.upload = "idle"])
  BY <1>1, <1>2, <1>3
<1> QED
  BY <1>5, <1>6, <1>9, <1>10 DEF UploadTransition

LEMMA ScannedHarmless ==
  ASSUME NEW s, Sound(s), NEW found
  PROVE  Harmless(s, Scanned(s, found))
<1> DEFINE t == [s EXCEPT !.file = TRUE]
<1>1. Same(s, t)
  BY DEF Same, Sound, Keys, Alike
<1> HIDE DEF t
<1>2. Harmless(s, t) /\ Sound(t)
  BY <1>1, SameHarmless DEF Same
<1>3. Harmless(t, UploadEvent(t, "uploading")) /\ Harmless(s, UploadEvent(s, "get_status"))
  BY <1>2, UploadEventHarmless DEF Words
<1>4. Harmless(s, UploadEvent(t, "uploading"))
  BY <1>2, <1>3, HarmlessTwice
<1> QED
  BY <1>3, <1>4 DEF Scanned, t

\* A task that the command at work does not depend on.
LEMMA AsideHarmless ==
  ASSUME NEW s, Sound(s), NEW p \in Tasks(Nat), p.t \in Aside
  PROVE  Harmless(s, Task(s, p.t, p.x).s)
<1>1. CASE p.t = "enqueue"
  <2>1. p.x \in Cmds(Nat)
    BY <1>1 DEF Tasks, Plain
  <2> QED
    BY <1>1, <2>1, EnqueueHarmless DEF Task, Silent, Says
<1>2. CASE p.t = "check"
  BY <1>2, CheckHarmless DEF Task, Silent, Says
<1>3. CASE p.t = "upload"
  BY <1>3, UploadTransitionHarmless DEF Task, Silent, Says
<1>4. CASE p.t = "scanned"
  BY <1>4, ScannedHarmless DEF Task, Silent, Says
<1>5. CASE p.t = "unprepared"
  <2> DEFINE f == Failed(s, "upload").s
  <2>1. Harmless(s, f)
    BY FailedHarmless
  <2> HIDE DEF f
  <2>2. Harmless(f, UploadEvent(f, "failed"))
    BY <2>1, UploadEventHarmless DEF Harmless, Words
  <2>3. Harmless(s, UploadEvent(f, "failed"))
    BY <2>1, <2>2, HarmlessTwice
  <2> QED
    BY <1>5, <2>3 DEF Task, Says, f
<1> QED
  BY <1>1, <1>2, <1>3, <1>4, <1>5 DEF Aside

LEMMA JobDoneHarmless ==
  ASSUME NEW s, Sound(s), NEW j \in Jobs, NEW ok \in BOOLEAN
  PROVE  Harmless(s, JobDone(s, j, ok))
<1>1. ASSUME NEW k, NEW x \in Words PROVE Harmless(s, UploadEvent([s EXCEPT !.files = k], x))
  <2> DEFINE t == [s EXCEPT !.files = k]
  <2>1. Same(s, t)
    BY DEF Same, Sound, Keys, Alike
  <2> HIDE DEF t
  <2>2. Harmless(s, t) /\ Sound(t)
    BY <2>1, SameHarmless DEF Same
  <2>3. Harmless(s, UploadEvent(t, x))
    BY <2>2, UploadEventHarmless, HarmlessTwice
  <2> QED
    BY <2>3 DEF t
<1>2. Harmless(s, Downloaded(s, ok)) /\ Harmless(s, Cleaned(s, ok)) /\ Harmless(s, Finalized(s, ok))
  <2>1. {"downloaded", "no_files", "cleaned", "finalized", "not_finalized"} \subseteq Words
    BY DEF Words
  <2> QED
    BY <1>1, <2>1 DEF Downloaded, Cleaned, Finalized
<1>3. Harmless(s, Post(s, "enqueue", Command("upload", 0))) /\ Harmless(s, Post(s, "unprepared", "file"))
  <2>1. Job("enqueue", Command("upload", 0)) \in Tasks(Nat) /\ Job("unprepared", "file") \in Tasks(Nat)
    BY Posted DEF Codes, Plain, Words
  <2> QED
    BY <2>1, PostHarmless DEF Aside
<1>4. Harmless(s, Post(s, "scanned", s.files > 0))
  <2>1. (s.files > 0) \in BOOLEAN
    OBVIOUS
  <2>2. Job("scanned", s.files > 0) \in Tasks(Nat)
    BY <2>1, Posted
  <2> QED
    BY <2>2, PostHarmless DEF Aside
<1> QED
  BY <1>2, <1>3, <1>4 DEF JobDone, Jobs, Prepared

\* An answer that is taken for what it is; what it enqueues waits for the command to end.
LEMMA ResponseHarmless ==
  ASSUME NEW s, Sound(s), s.state # "idle", NEW f \in Replies
  PROVE  Harmless(s, Response(s, f).s)
<1>1. Harmless(s, s)
  BY SameHarmless DEF Same, Alike
<1>2. f.c \in {"card_id", "balance"} => Harmless(s, EnqueueToFront(s, Command(f.c, 0)))
  BY Posted, FrontHarmless DEF Codes
<1>3. /\ Harmless(s, Enqueue(s, Command("balance", 0))) /\ Harmless(s, Enqueue(s, Command("login2", 0)))
  BY Posted, EnqueueHarmless DEF Codes
<1>4. Harmless(s, [s EXCEPT !.reading = FALSE, !.reports = @ + 1])
  <2>1. Same(s, [s EXCEPT !.reading = FALSE, !.reports = @ + 1])
    BY DEF Same, Sound, Keys, Alike
  <2> QED
    BY <2>1, SameHarmless
<1>5. Harmless(s, Settled(s, f.id)) /\ Harmless(s, EnqueueToFront(Settled(s, f.id), Command("flush", f.id)))
  <2> DEFINE t == Settled(s, f.id)
  <2>1. Same(s, t)
    BY DEF Settled, Same, Sound, Keys, Alike
  <2> HIDE DEF t
  <2>2. Harmless(s, t) /\ Sound(t) /\ t.state # "idle"
    BY <2>1, SameHarmless DEF Same, Alike
  <2>3. Command("flush", f.id) \in Cmds(Nat)
    BY Posted DEF Codes, Replies
  <2>4. Harmless(s, EnqueueToFront(t, Command("flush", f.id)))
    BY <2>2, <2>3, FrontHarmless, HarmlessTwice
  <2> QED
    BY <2>2, <2>4 DEF t
<1>6. Harmless(s, UploadEvent(s, "status_ok")) /\ Harmless(s, UploadEvent(s, "status_failed"))
  BY UploadEventHarmless DEF Words
<1>7. CASE f.c \in {"card_id", "balance"}
  BY <1>1, <1>2, <1>3, <1>4, <1>7 DEF Response, CardRead, BalanceRead, Silent, Says
<1>8. CASE f.c \in {"login1", "login2"}
  BY <1>1, <1>3, <1>8 DEF Response, LoggedIn, Says
<1>9. CASE f.c \in {"deduct", "record", "status"}
  BY <1>1, <1>5, <1>6, <1>9 DEF Response, Deducted, RecordRead, StatusRead, Says
<1>10. CASE f.c \notin {"card_id", "balance", "login1", "login2", "deduct", "record", "status"}
  BY <1>1, <1>10 DEF Response, Says
<1> QED
  BY <1>7, <1>8, <1>9, <1>10

------------------------------------------------------------------------------
(* The steps of the command at work. *)

LEMMA GrowsHarmless ==
  ASSUME NEW s, Sound(s), s.state # "idle", NEW t, Harmless(s, t)
  PROVE  /\ \A C : All(s.posts, C) => All(t.posts, C)
         /\ \A x, C, D : Carries(s.posts, x, C, D) => Carries(t.posts, x, C, D)
         /\ \A x, y, C, D : CarriesBoth(s.posts, x, y, C, D) => CarriesBoth(t.posts, x, y, C, D)
<1>1. s.posts \in Queues /\ t.posts \in Queues /\ Grows(s.posts, t.posts, {})
  BY DEF Harmless, Sound
<1> QED
  BY <1>1, GrowsAll, GrowsCarries, GrowsCarriesBoth

\* The driver has no command any more.
Idled(s, u) ==
  /\ Sound(u) /\ u.state = "idle" /\ u.writeTimer = s.writeTimer /\ u.answerTimer = s.answerTimer /\ u.out = s.out
  /\ u.odd = s.odd /\ u.stopping = s.stopping /\ Grows(s.posts, u.posts, {})

LEMMA ToIdleIdles ==
  ASSUME NEW s, Sound(s), s.state # "idle", NEW h, Harmless(s, h.s)
  PROVE  Idled(s, ToIdle(h).s)
<1> DEFINE w == [h.s EXCEPT !.state = "idle"]
           u == Post(w, "check", "queue")
           a == Job("check", "queue")
<1>1. Sound(h.s) /\ Alike(s, h.s) /\ Grows(s.posts, h.s.posts, {})
  BY DEF Harmless
<1>2. /\ Sound(w) /\ w.state = "idle" /\ w.posts = h.s.posts /\ w.writeTimer = h.s.writeTimer /\ w.out = h.s.out
      /\ w.answerTimer = h.s.answerTimer /\ w.odd = h.s.odd /\ w.stopping = h.s.stopping
  BY <1>1 DEF Sound, Keys
<1> HIDE DEF w
<1>3. a \in Tasks(Nat) /\ Chore(a, {})
  BY Posted DEF Plain, Words, Chore, Job, Aside
<1>4. Sound(u) /\ Alike(w, u) /\ u.posts = Append(w.posts, a)
  BY <1>2, <1>3, PostParts
<1>5. s.posts \in Queues /\ w.posts \in Queues /\ u.posts \in Queues
  BY <1>2, <1>4 DEF Sound
<1>6. ToIdle(h).s = u
  BY DEF ToIdle, Says, w
<1> HIDE DEF u, a
<1>7. Grows(w.posts, u.posts, {})
  BY <1>3, <1>4, <1>5, Growing
<1>8. Grows(s.posts, u.posts, {})
  BY <1>1, <1>2, <1>5, <1>7, GrowsTwice
<1> QED
  BY <1>1, <1>2, <1>4, <1>6, <1>8 DEF Idled, Alike

LEMMA FailedIdles ==
  ASSUME NEW s, Sound(s), s.state # "idle"
  PROVE  /\ Idled(s, FailCommand(s).s) /\ Idled(s, FailChunks(s).s)
         /\ LET f == Failed(s, s.current.c) IN Idled(s, ToIdle(Says([f.s EXCEPT !.chunks = 0], f.ev)).s)
         /\ Idled(s, ToIdle(Silent(s)).s) /\ Idled(s, ToIdle(Silent([s EXCEPT !.chunks = 0])).s)
<1> DEFINE f == Failed(s, s.current.c)
           t == f.s
           e == [t EXCEPT !.chunks = 0]
           g == UploadEvent(e, "failed")
<1>1. ASSUME NEW u, Harmless(s, u), NEW ev PROVE Idled(s, ToIdle(Says(u, ev)).s)
  <2> DEFINE h == Says(u, ev)
  <2>1. Harmless(s, h.s)
    BY <1>1 DEF Says
  <2> HIDE DEF h
  <2>2. Idled(s, ToIdle(h).s)
    BY <2>1, ToIdleIdles
  <2> QED
    BY <2>2 DEF h
<1>2. Harmless(s, t) /\ Harmless(s, s)
  BY FailedHarmless, SameHarmless DEF Same, Alike
<1>3. Same(s, [s EXCEPT !.chunks = 0])
  BY DEF Same, Sound, Keys, Alike
<1>4. Harmless(s, [s EXCEPT !.chunks = 0])
  BY <1>3, SameHarmless
<1>5. FailCommand(s) = ToIdle(f) /\ FailChunks(s) = ToIdle(Says(g, f.ev))
  BY DEF FailCommand, FailChunks
<1>6. f = Says(t, f.ev)
  BY DEF Failed, Says, Silent
<1> HIDE DEF f
<1>7. Same(t, e)
  BY <1>2 DEF Same, Sound, Keys, Alike, Harmless
<1> HIDE DEF t, e
<1>8. Harmless(s, e) /\ Sound(e)
  BY <1>2, <1>7, SameHarmless, HarmlessTwice DEF Harmless
<1>9. Harmless(s, g)
  BY <1>8, UploadEventHarmless, HarmlessTwice DEF Words
<1> HIDE DEF g
<1>10. Idled(s, ToIdle(f).s) /\ Idled(s, ToIdle(Says(g, f.ev)).s) /\ Idled(s, ToIdle(Says(e, f.ev)).s)
  BY <1>1, <1>2, <1>6, <1>8, <1>9
<1>11. Idled(s, ToIdle(Silent(s)).s) /\ Idled(s, ToIdle(Silent([s EXCEPT !.chunks = 0])).s)
  BY <1>1, <1>2, <1>4 DEF Silent
<1> QED
  BY <1>5, <1>10, <1>11 DEF f, t, e

LEMMA TokenPosted ==
  ASSUME NEW s, Sound(s), NEW t \in Plain, NEW x \in Words
  PROVE  LET u == Post(s, t, x)
         IN Sound(u) /\ Alike(s, u) /\ u.queue = s.queue /\ Tells(s.posts, Job(t, x), u.posts)
<1> DEFINE u == Post(s, t, x)
<1>1. Job(t, x) \in Tasks(Nat) /\ s.posts \in Queues
  BY Posted DEF Sound
<1>2. Sound(u) /\ Alike(s, u) /\ u.queue = s.queue /\ u.posts = Append(s.posts, Job(t, x))
  BY <1>1, PostParts
<1>3. Tells(s.posts, Job(t, x), Append(s.posts, Job(t, x)))
  BY <1>1, Appending
<1> HIDE DEF u
<1> QED
  BY <1>2, <1>3 DEF u

LEMMA ToldTasks == \A state : Told(state) \subseteq Tasks(Nat)
<1>1. \A state : EndWords(state) \subseteq Words
  BY DEF EndWords, Words
<1>2. "event" \in Plain
  BY DEF Plain
<1> QED
  BY <1>1, <1>2, Posted DEF Told

\* The answer was read, and what came of it is told.
Heeds(s, u, x) ==
  /\ Sound(u) /\ u.state = s.state /\ u.current = s.current /\ u.writeTimer = s.writeTimer /\ u.answerTimer = FALSE
  /\ u.out = s.out /\ u.odd = s.odd /\ u.stopping = s.stopping /\ u.frame = s.frame /\ Tells(s.posts, x, u.posts)

LEMMA TellsHarmless ==
  ASSUME NEW s, Sound(s), s.state # "idle", NEW t, Harmless(s, t),
         NEW x, NEW u, Sound(u), Tells(t.posts, x, u.posts)
  PROVE  Tells(s.posts, x, u.posts)
<1>1. s.posts \in Queues /\ t.posts \in Queues /\ Grows(s.posts, t.posts, {})
  BY DEF Harmless, Sound
<1>2. PICK p \in Queues : Grows(t.posts, p, {}) /\ Grows(Append(p, x), u.posts, {})
  BY DEF Tells
<1>3. Grows(s.posts, p, {})
  BY <1>1, <1>2, GrowsTwice
<1> QED
  BY <1>2, <1>3 DEF Tells

LEMMA HarmlessTells ==
  ASSUME NEW s, Sound(s), NEW x \in Tasks(Nat), NEW t, Sound(t), t.state # "idle", Tells(s.posts, x, t.posts),
         NEW u, Harmless(t, u)
  PROVE  Tells(s.posts, x, u.posts)
<1>1. t.posts \in Queues /\ u.posts \in Queues /\ Grows(t.posts, u.posts, {})
  BY DEF Harmless, Sound
<1>2. PICK p \in Queues : Grows(s.posts, p, {}) /\ Grows(Append(p, x), t.posts, {})
  BY DEF Tells
<1>3. Append(p, x) \in Queues
  BY QueueParts
<1>4. Grows(Append(p, x), u.posts, {})
  BY <1>1, <1>2, <1>3, GrowsTwice
<1> QED
  BY <1>2, <1>4 DEF Tells

LEMMA RejectHeeds ==
  ASSUME NEW s, Sound(s), s.state = WaitState(s.current)
  PROVE  Heeds(s, Reject(s).s, Job("event", "rejected"))
<1> DEFINE t == [s EXCEPT !.answerTimer = FALSE]
           f == Failed(t, s.current.c)
           told == IF IsChunked(s.current.c) THEN UploadEvent(f.s, "failed") ELSE f.s
           u == Event(told, "rejected")
<1>1. /\ Sound(t) /\ t.state = s.state /\ t.current = s.current /\ t.posts = s.posts /\ t.odd = s.odd
      /\ t.stopping = s.stopping /\ t.writeTimer = s.writeTimer /\ t.answerTimer = FALSE /\ t.out = s.out
      /\ t.frame = s.frame /\ t.state # "idle"
  BY DEF Sound, Keys, WaitState
<1>2. Reject(s).s = u
  BY DEF Reject, Says
<1> HIDE DEF t
<1>3. Harmless(t, f.s)
  BY <1>1, FailedHarmless
<1> HIDE DEF f
<1>4. Harmless(t, told)
  <2>1. Harmless(t, UploadEvent(f.s, "failed"))
    BY <1>1, <1>3, UploadEventHarmless, HarmlessTwice DEF Harmless, Words
  <2> QED
    BY <1>3, <2>1
<1> HIDE DEF told
<1>5. Sound(told) /\ Alike(t, told)
  BY <1>4 DEF Harmless
<1>6. Sound(u) /\ Alike(told, u) /\ Tells(told.posts, Job("event", "rejected"), u.posts)
  BY <1>5, TokenPosted DEF Event, Plain, Words
<1> HIDE DEF u
<1>7. Tells(s.posts, Job("event", "rejected"), u.posts)
  BY <1>1, <1>4, <1>6, TellsHarmless
<1> QED
  BY <1>1, <1>2, <1>5, <1>6, <1>7 DEF Heeds, Alike

LEMMA ChunkResponseHeeds ==
  ASSUME NEW s, Sound(s), s.state = "chunkWaiting", s.answerTimer = FALSE, NEW f
  PROVE  \E x \in Told("chunkWaiting") : Heeds(s, ChunkResponse(s, f).s, x)
<1>1. ASSUME NEW x \in {"next", "all", "chunk_error"}, NEW u, Harmless(Event(s, x), u)
      PROVE  Job("event", x) \in Told("chunkWaiting") /\ Heeds(s, u, Job("event", x))
  <2> DEFINE e == Event(s, x)
  <2>1. x \in Words /\ Job("event", x) \in Told("chunkWaiting")
    BY <1>1 DEF Words, Told, EndWords
  <2>2. Sound(e) /\ Alike(s, e) /\ Tells(s.posts, Job("event", x), e.posts)
    BY <2>1, TokenPosted DEF Event, Plain
  <2>3. Harmless(e, u) /\ e.state # "idle"
    BY <1>1, <2>2 DEF Alike
  <2> HIDE DEF e
  <2>4. Sound(u) /\ Alike(e, u)
    BY <2>3 DEF Harmless
  <2>5. Tells(s.posts, Job("event", x), u.posts)
    BY <2>1, <2>2, <2>3, ToldTasks, HarmlessTells
  <2> QED
    BY <2>1, <2>2, <2>4, <2>5 DEF Heeds, Alike
<1>2. ASSUME NEW x \in {"next", "all", "chunk_error"} PROVE Sound(Event(s, x))
  <2>1. Job("event", x) \in Tasks(Nat)
    BY <1>2, Posted DEF Plain, Words
  <2> QED
    BY <2>1, PostParts DEF Event
<1>3. ASSUME NEW x \in {"next", "all", "chunk_error"} PROVE Harmless(Event(s, x), Event(s, x))
  BY <1>2, SameHarmless DEF Same, Alike
<1>4. Harmless(Event(s, "all"), UploadEvent(Event(s, "all"), "uploaded"))
  BY <1>2, UploadEventHarmless DEF Words
<1>5. Harmless(Event(s, "chunk_error"), Enqueue(UploadEvent(Event(s, "chunk_error"), "failed"), Command("login1", 0)))
  <2> DEFINE e == Event(s, "chunk_error")
             g == UploadEvent(e, "failed")
  <2>1. Sound(e)
    BY <1>2
  <2> HIDE DEF e
  <2>2. Harmless(e, g) /\ Sound(g)
    BY <2>1, UploadEventHarmless DEF Words
  <2>3. Command("login1", 0) \in Cmds(Nat)
    BY Posted DEF Codes
  <2>4. Harmless(e, Enqueue(g, Command("login1", 0)))
    BY <2>1, <2>2, <2>3, EnqueueHarmless, HarmlessTwice
  <2> QED
    BY <2>4 DEF e
<1> QED
  BY <1>1, <1>3, <1>4, <1>5 DEF ChunkResponse, Silent, Says

LEMMA ReceivedHeeds ==
  ASSUME NEW s, Sound(s), s.state = WaitState(s.current), s.frame \in Replies
  PROVE  LET read == [s EXCEPT !.frame = None]
             u == Received(s).s
         IN /\ \E x \in Told(s.state) : Heeds(read, u, x)
            /\ s.frame = None /\ s.current.c # "none" => Heeds(read, u, Job("event", "rejected"))
<1> DEFINE f == s.frame
           read == [s EXCEPT !.frame = None]
           timed == [read EXCEPT !.answerTimer = FALSE]
           t == Response(timed, f).s
<1>1. /\ Sound(read) /\ read.state = s.state /\ read.current = s.current /\ read.posts = s.posts
      /\ read.writeTimer = s.writeTimer /\ read.out = s.out /\ read.odd = s.odd /\ read.stopping = s.stopping
      /\ read.frame = None
  BY DEF Sound, Keys
<1>2. /\ Sound(timed) /\ timed.state = s.state /\ timed.current = s.current /\ timed.posts = s.posts
      /\ timed.writeTimer = s.writeTimer /\ timed.answerTimer = FALSE /\ timed.out = s.out /\ timed.odd = s.odd
      /\ timed.stopping = s.stopping /\ timed.frame = None
  BY DEF Sound, Keys
<1>3. \/ Received(s).s = Reject(read).s
      \/ f.c = s.current.c /\ Received(s).s = IF IsChunked(f.c) THEN ChunkResponse(timed, f).s ELSE Event(t, "handled")
  BY DEF Received, Says
<1>4. Heeds(read, Reject(read).s, Job("event", "rejected")) /\ Job("event", "rejected") \in Told(s.state)
  BY <1>1, RejectHeeds DEF WaitState, Told, EndWords
<1>5. ASSUME NEW u, NEW x, Heeds(timed, u, x) PROVE Heeds(read, u, x)
  BY <1>1, <1>2, <1>5 DEF Heeds
<1>6. CASE f.c = s.current.c /\ IsChunked(f.c)
  <2>1. s.state = "chunkWaiting"
    BY <1>6 DEF WaitState
  <2>2. \E x \in Told("chunkWaiting") : Heeds(timed, ChunkResponse(timed, f).s, x)
    BY <1>2, <2>1, ChunkResponseHeeds
  <2>3. \E x \in Told(s.state) : Heeds(read, ChunkResponse(timed, f).s, x)
    BY <1>5, <2>1, <2>2
  <2> QED
    BY <1>3, <1>4, <1>6, <2>3 DEF None, Answer
<1>7. CASE f.c = s.current.c /\ ~IsChunked(f.c)
  <2>1. s.state = "waiting" /\ f \in Replies
    BY <1>7 DEF WaitState
  <2>2. Harmless(timed, t)
    BY <1>2, <2>1, ResponseHarmless
  <2> HIDE DEF t
  <2>3. Sound(t) /\ Alike(timed, t)
    BY <2>2 DEF Harmless
  <2> DEFINE u == Event(t, "handled")
             x == Job("event", "handled")
  <2>4. Sound(u) /\ Alike(t, u) /\ Tells(t.posts, x, u.posts)
    BY <2>3, TokenPosted DEF Event, Plain, Words
  <2> HIDE DEF u, x
  <2>5. Tells(timed.posts, x, u.posts)
    BY <1>2, <2>1, <2>2, <2>4, TellsHarmless
  <2>6. Heeds(timed, u, x)
    BY <1>2, <2>3, <2>4, <2>5 DEF Heeds, Alike
  <2>7. x \in Told(s.state)
    BY <2>1 DEF Told, EndWords, x
  <2> QED
    BY <1>3, <1>4, <1>5, <1>7, <2>6, <2>7 DEF u, None, Answer
<1>8. CASE f.c # s.current.c
  BY <1>3, <1>4, <1>8
<1> QED
  BY <1>6, <1>7, <1>8

\* A step keeps the command where it is, or brings it to where it may be.
Steady(s, u) == Sound(u) /\ u.odd = s.odd /\ u.stopping = s.stopping
Arrives(s, u, r) == Steady(s, u) /\ (Idles(u, r) \/ Sends(u, r) \/ Waits(u, r))

LEMMA HarmlessArrives ==
  ASSUME NEW s, Sound(s), NEW r, Idles(s, r) \/ Sends(s, r) \/ Waits(s, r), NEW u, Harmless(s, u)
  PROVE  Arrives(s, u, r)
<1>1. Sound(u) /\ Alike(s, u)
  BY DEF Harmless
<1>2. CASE Idles(s, r)
  <2>1. s.state = "idle" /\ s.posts \in Queues /\ u.posts \in Queues
    BY <1>1, <1>2 DEF Idles, Sound
  <2>2. All(s.posts, CalledFor(u.queue)) /\ Grows(s.posts, u.posts, CalledFor(u.queue))
    BY <1>2, <2>1, Widening DEF Idles, Harmless
  <2>3. All(u.posts, CalledFor(u.queue))
    BY <2>1, <2>2, GrowsAll
  <2> QED
    BY <1>1, <1>2, <2>3 DEF Idles, Alike, Timed, Arrives, Steady
<1>3. CASE Sends(s, r)
  <2>1. s.state # "idle"
    BY <1>3 DEF Sends, SendState
  <2>2. /\ \A C : All(s.posts, C) => All(u.posts, C)
        /\ \A x, C, D : Carries(s.posts, x, C, D) => Carries(u.posts, x, C, D)
        /\ \A x, y, C, D : CarriesBoth(s.posts, x, y, C, D) => CarriesBoth(u.posts, x, y, C, D)
    BY <2>1, GrowsHarmless
  <2>3. Sends(u, r)
    BY <1>1, <1>3, <2>2 DEF Sends, Alike, Timed
  <2> QED
    BY <1>1, <2>3 DEF Arrives, Steady, Alike
<1>4. CASE Waits(s, r)
  <2>1. s.state # "idle"
    BY <1>4 DEF Waits, WaitState
  <2>2. /\ \A C : All(s.posts, C) => All(u.posts, C)
        /\ \A x, C, D : Carries(s.posts, x, C, D) => Carries(u.posts, x, C, D)
    BY <2>1, GrowsHarmless
  <2>3. Waits(u, r)
    BY <1>1, <1>4, <2>2 DEF Waits, Alike, Timed
  <2> QED
    BY <1>1, <2>3 DEF Arrives, Steady, Alike
<1> QED
  BY <1>2, <1>3, <1>4

\* The command that was called for is taken from the queue.
Fetches(s, u, c) ==
  /\ Steady(s, u) /\ u.state = SendState(c) /\ u.current = c /\ Timed(u, TRUE, s.answerTimer, "busy")
  /\ u.posts = s.posts

LEMMA PopTakes ==
  ASSUME NEW s, Sound(s), s.state = "idle", NEW p \in CalledFor(s.queue)
  PROVE  Fetches(s, Task(s, p.t, p.x).s, Head(s.queue))
<1> DEFINE kind == p.x
           taken == [s EXCEPT !.current = Head(s.queue), !.queue = Tail(@)]
           state == IF kind = "chunks" THEN "chunkSending" ELSE "sending"
           more == IF kind = "chunks" THEN [taken EXCEPT !.chunks = @ + 1] ELSE taken
           u == Send(more, state)
<1>1. s.queue # << >> /\ p = Job("event", kind) /\ kind = IF IsChunked(Head(s.queue).c) THEN "chunks" ELSE "command"
  BY DEF CalledFor, Job
<1>2. Tail(s.queue) \in Seq(Cmds(Nat))
  BY <1>1, SeqParts DEF Sound
<1>3. Task(s, p.t, p.x).s = Pop(s, kind)
  BY <1>1 DEF Task, Transition, Silent, Says, Job
<1> HIDE DEF kind
<1>4. /\ Sound(taken) /\ taken.current = Head(s.queue) /\ taken.posts = s.posts /\ taken.answerTimer = s.answerTimer
      /\ taken.odd = s.odd /\ taken.stopping = s.stopping
  BY <1>2 DEF Sound, Keys
<1> HIDE DEF taken
<1>5. /\ Sound(more) /\ more.current = Head(s.queue) /\ more.posts = s.posts /\ more.answerTimer = s.answerTimer
      /\ more.odd = s.odd /\ more.stopping = s.stopping
  BY <1>4 DEF Sound, Keys
<1>6. state = SendState(Head(s.queue))
  BY <1>1 DEF SendState
<1> HIDE DEF more, state
<1>7. /\ Sound(u) /\ u.state = state /\ u.out = "busy" /\ u.writeTimer = TRUE /\ u.current = Head(s.queue)
      /\ u.posts = s.posts /\ u.answerTimer = s.answerTimer /\ u.odd = s.odd /\ u.stopping = s.stopping
  BY <1>5 DEF Send, Sound, Keys
<1>8. Pop(s, kind) = u
  <2>1. ~(IsChunked(Head(s.queue).c) # (kind = "chunks"))
    BY <1>1 DEF IsChunked
  <2> QED
    BY <1>1, <2>1 DEF Pop, more, taken, state
<1> HIDE DEF u
<1> QED
  BY <1>3, <1>6, <1>7, <1>8 DEF Fetches, Steady, Timed

LEMMA CalledForCalled == \A q : CalledFor(q) \subseteq Called
BY DEF CalledFor, Called

LEMMA PopArrives ==
  ASSUME NEW s, Sound(s), NEW r, Idles(s, r), NEW p \in CalledFor(s.queue)
  PROVE  Arrives(s, Task(s, p.t, p.x).s, r)
<1> DEFINE u == Task(s, p.t, p.x).s
<1>1. Fetches(s, u, Head(s.queue))
  BY PopTakes DEF Idles
<1> HIDE DEF u
<1>2. All(u.posts, Called)
  BY <1>1, Widening, CalledForCalled DEF Fetches, Idles
<1>3. Sends(u, r)
  BY <1>1, <1>2 DEF Fetches, Sends, Idles, Timed
<1> QED
  BY <1>1, <1>3 DEF Fetches, Arrives, u

\* The next chunk is written, or there is none to write.
Chunks(s, u) ==
  /\ Steady(s, u) /\ u.state = "chunkSending" /\ u.current = s.current /\ u.posts = s.posts
  /\ Timed(u, TRUE, s.answerTimer, "none") \/ Timed(u, TRUE, s.answerTimer, "busy")

LEMMA NextChunks == ASSUME NEW s, Sound(s), s.out = "none" PROVE Chunks(s, SendNextChunk(s))
<1> DEFINE u == SendNextChunk(s)
<1>1. /\ Sound(u) /\ u.state = "chunkSending" /\ u.out \in {"none", "busy"} /\ u.writeTimer = TRUE
      /\ u.current = s.current /\ u.posts = s.posts /\ u.answerTimer = s.answerTimer /\ u.odd = s.odd
      /\ u.stopping = s.stopping
  BY DEF SendNextChunk, Send, Sound, Keys
<1> HIDE DEF u
<1> QED
  BY <1>1 DEF Chunks, Steady, Timed, u

LEMMA NextChunkArrives ==
  ASSUME NEW s, Sound(s), IsChunked(s.current.c), NEW u, Chunks(s, u),
         NEW r, r.wire = << >>, All(s.posts, {}), Timed(s, FALSE, FALSE, "none")
  PROVE  Arrives(s, u, r)
<1>1. All(u.posts, Called)
  BY Widening DEF Chunks
<1>2. Sends(u, r)
  BY <1>1 DEF Sends, SendState, Chunks, Timed
<1> QED
  BY <1>2 DEF Arrives, Chunks

LEMMA IdledArrives ==
  ASSUME NEW s, Sound(s), NEW r, r.wire = << >>, All(s.posts, {}), Timed(s, FALSE, FALSE, "none"), NEW u, Idled(s, u)
  PROVE  Arrives(s, u, r)
<1>1. s.posts \in Queues /\ u.posts \in Queues
  BY DEF Idled, Sound
<1>2. All(u.posts, {})
  BY <1>1, GrowsAll DEF Idled
<1>3. All(u.posts, CalledFor(u.queue))
  BY <1>2, Widening
<1> QED
  BY <1>3 DEF Idled, Idles, Timed, Arrives, Steady

\* A write has failed, or its time is over; s has the timer stopped already.
LEMMA FailsTask ==
  ASSUME NEW s, Sound(s), s.state = SendState(s.current), Timed(s, FALSE, FALSE, "none"), NEW p \in Fails
  PROVE  LET u == Task(s, p.t, p.x).s
         IN IF p = Over THEN Sound(u) /\ Alike(s, u) /\ Tells(s.posts, Tardy, u.posts) ELSE Idled(s, u)
<1>1. CASE p = Over
  <2>1. Task(s, p.t, p.x).s = Event(s, "write_timeout")
    BY <1>1 DEF Task, Silent, Says, Timed, Job, Over
  <2> QED
    BY <1>1, <2>1, TokenPosted DEF Event, Plain, Words, Tardy
<1>2. CASE p # Over
  <2> DEFINE t == [s EXCEPT !.writeTimer = FALSE]
  <2>1. p = Job("event", "write_failed") \/ p = Job("event", "write_timeout")
    BY <1>2 DEF Fails, Tardy
  <2>2. /\ Sound(t) /\ t.state = s.state /\ t.posts = s.posts /\ t.odd = s.odd /\ t.stopping = s.stopping
        /\ Timed(t, FALSE, FALSE, "none") /\ t.state # "idle"
    BY DEF Sound, Keys, Timed, SendState
  <2>3. Task(s, p.t, p.x).s = IF s.state = "sending" THEN FailCommand(t).s ELSE FailChunks(t).s
    BY <2>1 DEF Task, Transition, Job, SendState
  <2> HIDE DEF t
  <2>4. Idled(t, FailCommand(t).s) /\ Idled(t, FailChunks(t).s)
    BY <2>2, FailedIdles
  <2>5. Idled(s, FailCommand(t).s) /\ Idled(s, FailChunks(t).s)
    BY <2>2, <2>4 DEF Idled, Timed
  <2> QED
    BY <1>2, <2>3, <2>5
<1> QED
  BY <1>1, <1>2

LEMMA FailsRun ==
  ASSUME NEW s, Sound(s), s.state = SendState(s.current),
         NEW r, r.wire = << >>, All(s.posts, {}), Timed(s, FALSE, FALSE, "none"), NEW p \in Fails
  PROVE  Arrives(s, Task(s, p.t, p.x).s, r)
<1> DEFINE u == Task(s, p.t, p.x).s
<1>1. IF p = Over THEN Sound(u) /\ Alike(s, u) /\ Tells(s.posts, Tardy, u.posts) ELSE Idled(s, u)
  BY FailsTask
<1> HIDE DEF u
<1>2. CASE p = Over
  <2>1. Tardy \in Tasks(Nat) /\ All(s.posts, Called)
    BY Posted, Widening DEF Tardy, Plain, Words
  <2>2. Carries(u.posts, Tardy, Called, {})
    BY <1>1, <1>2, <2>1, Telling DEF Sound
  <2>3. Sends(u, r)
    BY <1>1, <1>2, <2>2 DEF Sends, Fails, Alike, Timed
  <2> QED
    BY <1>1, <1>2, <2>3 DEF Arrives, Steady, Alike, u
<1>3. CASE p # Over
  BY <1>1, <1>3, IdledArrives DEF u
<1> QED
  BY <1>2, <1>3

\* A write has ended: now the answer is waited for.
Awaits(s, u) ==
  Steady(s, u) /\ u.state = WaitState(s.current) /\ u.current = s.current /\ u.posts = s.posts /\ Timed(u, FALSE, TRUE, "none")

LEMMA WroteTask ==
  ASSUME NEW s, Sound(s), s.state = SendState(s.current), Timed(s, FALSE, FALSE, "none")
  PROVE  Awaits(s, Task(s, Wrote.t, Wrote.x).s)
<1> DEFINE state == IF s.state = "sending" THEN "waiting" ELSE "chunkWaiting"
           u == [s EXCEPT !.writeTimer = FALSE, !.answerTimer = TRUE, !.state = state]
<1>1. Task(s, Wrote.t, Wrote.x).s = u /\ state = WaitState(s.current)
  BY DEF Task, Transition, Wrote, Job, Silent, Says, SendState, WaitState
<1>2. /\ Sound(u) /\ u.state = state /\ u.current = s.current /\ u.posts = s.posts /\ u.odd = s.odd
      /\ u.stopping = s.stopping /\ Timed(u, FALSE, TRUE, "none")
  BY DEF Sound, Keys, Timed
<1> HIDE DEF u, state
<1> QED
  BY <1>1, <1>2 DEF Awaits, Steady

\* Its answer may have been read already.
LEMMA WroteRuns ==
  ASSUME NEW s, Sound(s), s.state = SendState(s.current), NEW r, Timed(s, FALSE, FALSE, "none"),
         (Len(r.wire) <= 1 /\ All(s.posts, {})) \/ (r.wire = << >> /\ Carries(s.posts, Heard, {}, {}))
  PROVE  Arrives(s, Task(s, Wrote.t, Wrote.x).s, r)
<1> DEFINE u == Task(s, Wrote.t, Wrote.x).s
<1>1. Awaits(s, u)
  BY WroteTask
<1> HIDE DEF u
<1>2. Waits(u, r)
  BY <1>1 DEF Waits, Awaits
<1> QED
  BY <1>1, <1>2 DEF Arrives, Awaits, u

\* What became of the answer is known, and its event comes: the command is over, or has another chunk.
LEMMA ToldTask ==
  ASSUME NEW s, Sound(s), s.state = WaitState(s.current), s.out = "none", NEW p \in Told(s.state)
  PROVE  LET u == Task(s, p.t, p.x).s
         IN Idled(s, u) \/ (p = Job("event", "next") /\ IsChunked(s.current.c) /\ Chunks(s, u))
<1>1. PICK ev \in EndWords(s.state) : p = Job("event", ev)
  BY DEF Told
<1>2. Task(s, p.t, p.x) = Transition(s, ev)
  BY <1>1 DEF Task, Job
<1>3. /\ Idled(s, FailCommand(s).s) /\ Idled(s, FailChunks(s).s)
      /\ LET f == Failed(s, s.current.c) IN Idled(s, ToIdle(Says([f.s EXCEPT !.chunks = 0], f.ev)).s)
      /\ Idled(s, ToIdle(Silent(s)).s) /\ Idled(s, ToIdle(Silent([s EXCEPT !.chunks = 0])).s)
  BY FailedIdles DEF WaitState
<1>4. CASE s.state = "waiting"
  <2>1. ev \in {"timeout", "rejected", "handled"}
    BY <1>1, <1>4 DEF EndWords
  <2> QED
    BY <1>2, <1>3, <1>4, <2>1 DEF Transition
<1>5. CASE s.state = "chunkWaiting"
  <2>1. ev \in {"timeout", "rejected", "next", "all", "chunk_error"}
    BY <1>1, <1>5 DEF EndWords
  <2>2. Chunks(s, SendNextChunk(s)) /\ IsChunked(s.current.c)
    BY <1>5, NextChunks DEF WaitState
  <2>3. ev = "next" => Transition(s, ev).s = SendNextChunk(s)
    BY <1>5 DEF Transition, Silent, Says
  <2>4. /\ ev = "timeout" => Transition(s, ev) = FailChunks(s)
        /\ ev = "rejected" => Transition(s, ev) = ToIdle(Silent([s EXCEPT !.chunks = 0]))
        /\ ev = "all" => Transition(s, ev) = ToIdle(Silent(s))
        /\ ev = "chunk_error" =>
             LET f == Failed(s, s.current.c) IN Transition(s, ev) = ToIdle(Says([f.s EXCEPT !.chunks = 0], f.ev))
    BY <1>5 DEF Transition
  <2> QED
    BY <1>1, <1>2, <1>3, <2>1, <2>2, <2>3, <2>4
<1> QED
  BY <1>4, <1>5 DEF WaitState

\* The expired timer of an answer says so.
LEMMA ExpiredTask ==
  ASSUME NEW s, Sound(s)
  PROVE  LET u == Task(s, Expired.t, Expired.x).s
         IN Sound(u) /\ Alike(s, u) /\ Tells(s.posts, TimedOut, u.posts)
<1>1. Task(s, Expired.t, Expired.x).s = Event(s, "timeout")
  BY DEF Task, Silent, Says, Job, Expired
<1> QED
  BY <1>1, TokenPosted DEF Event, Plain, Words, TimedOut

LEMMA EndsRun ==
  ASSUME NEW s, Sound(s), s.state = WaitState(s.current),
         NEW r, r.wire = << >>, All(s.posts, {}), Timed(s, FALSE, FALSE, "none"), NEW p \in Ends(s.state)
  PROVE  Arrives(s, Task(s, p.t, p.x).s, r)
<1> DEFINE u == Task(s, p.t, p.x).s
<1>1. CASE p = Expired
  <2>1. Sound(u) /\ Alike(s, u) /\ Tells(s.posts, TimedOut, u.posts)
    BY <1>1, ExpiredTask
  <2> HIDE DEF u
  <2>2. TimedOut \in Told(u.state) /\ TimedOut \in Tasks(Nat)
    BY ToldTasks DEF Told, EndWords, TimedOut
  <2>3. Carries(u.posts, TimedOut, {}, {})
    BY <2>1, <2>2, Telling DEF Sound
  <2>4. Waits(u, r)
    BY <2>1, <2>2, <2>3 DEF Waits, Ends, Alike, Timed
  <2> QED
    BY <2>1, <2>4 DEF Arrives, Steady, Alike, u
<1>2. CASE p # Expired
  <2>1. p \in Told(s.state)
    BY <1>2 DEF Ends
  <2>2. Idled(s, u) \/ (IsChunked(s.current.c) /\ Chunks(s, u))
    BY <2>1, ToldTask DEF Timed
  <2> HIDE DEF u
  <2>3. Arrives(s, u, r)
    BY <2>2, IdledArrives, NextChunkArrives
  <2> QED
    BY <2>3 DEF u
<1> QED
  BY <1>1, <1>2

LEMMA HeardTask ==
  ASSUME NEW s, Sound(s), s.state = WaitState(s.current), s.frame \in Replies
  PROVE  LET read == [s EXCEPT !.frame = None]
             u == Task(s, Heard.t, Heard.x).s
         IN /\ \E x \in Told(s.state) : Heeds(read, u, x)
            /\ s.frame = None /\ s.current.c # "none" => Heeds(read, u, Job("event", "rejected"))
            /\ read.posts = s.posts /\ read.state = s.state /\ read.current = s.current /\ read.odd = s.odd
            /\ read.stopping = s.stopping /\ read.writeTimer = s.writeTimer /\ read.out = s.out /\ read.frame = None
<1>1. Task(s, Heard.t, Heard.x) = Received(s)
  BY DEF Task, Transition, Heard, Job, WaitState
<1>2. LET read == [s EXCEPT !.frame = None]
      IN /\ read.posts = s.posts /\ read.state = s.state /\ read.current = s.current /\ read.odd = s.odd
         /\ read.stopping = s.stopping /\ read.writeTimer = s.writeTimer /\ read.out = s.out /\ read.frame = None
  BY DEF Sound, Keys
<1> QED
  BY <1>1, <1>2, ReceivedHeeds

LEMMA HeardRuns ==
  ASSUME NEW s, Sound(s), s.state = WaitState(s.current), s.frame \in Replies,
         NEW r, r.wire = << >>, All(s.posts, {}), Timed(s, FALSE, TRUE, "none")
  PROVE  Arrives(s, Task(s, Heard.t, Heard.x).s, r)
<1> DEFINE read == [s EXCEPT !.frame = None]
           u == Task(s, Heard.t, Heard.x).s
<1>1. PICK x \in Told(s.state) : Heeds(read, u, x)
  BY HeardTask
<1>2. /\ read.posts = s.posts /\ read.state = s.state /\ read.current = s.current /\ read.odd = s.odd
      /\ read.stopping = s.stopping /\ read.writeTimer = s.writeTimer /\ read.out = s.out
  BY HeardTask
<1> HIDE DEF read, u
<1>3. Carries(u.posts, x, {}, {})
  BY <1>1, <1>2, ToldTasks, Telling DEF Heeds, Sound
<1>4. Waits(u, r)
  BY <1>1, <1>2, <1>3 DEF Waits, Ends, Heeds, Timed
<1> QED
  BY <1>1, <1>2, <1>4 DEF Arrives, Steady, Heeds, u

LEMMA AsideRuns ==
  ASSUME NEW s, Sound(s), NEW r, Idles(s, r) \/ Sends(s, r) \/ Waits(s, r), NEW p \in Tasks(Nat), p.t \in Aside
  PROVE  Arrives(s, Task(s, p.t, p.x).s, r)
BY AsideHarmless, HarmlessArrives

\* The driver when its first task is taken: s before it, t after.
Took(s, t) ==
  /\ Sound(t) /\ Alike(s, t) /\ t.queue = s.queue /\ s.posts # << >> /\ t.posts = Tail(s.posts)

LEMMA IdleRuns ==
  ASSUME NEW s, Sound(s), NEW t, Took(s, t), NEW r, Idles(s, r)
  PROVE  LET p == Head(s.posts) IN Arrives(t, Task(t, p.t, p.x).s, r)
<1> DEFINE p == Head(s.posts)
<1>1. p \in Tasks(Nat) /\ Chore(p, CalledFor(s.queue)) /\ All(Tail(s.posts), CalledFor(s.queue))
  BY TailParts, HeadOfAll DEF Sound, Took, Idles
<1> HIDE DEF p
<1>2. Idles(t, r) /\ Sound(t)
  BY <1>1 DEF Idles, Took, Alike, Timed
<1>3. CASE p.t \in Aside
  BY <1>1, <1>2, <1>3, AsideRuns DEF p
<1>4. CASE p \in CalledFor(t.queue)
  BY <1>2, <1>4, PopArrives DEF p
<1> QED
  BY <1>1, <1>3, <1>4 DEF Chore, Took

\* What says nothing to a command that is being written: a call for a command, and the events of an earlier one.
LEMMA IgnoredTask ==
  ASSUME NEW s, s.state = SendState(s.current), NEW p \in Ignored
  PROVE  Task(s, p.t, p.x).s = s
BY DEF Ignored, Called, Dead, Heard, Job, Task, Transition, SendState, Silent, Says

LEMMA CalledRuns ==
  ASSUME NEW s, Sound(s), NEW r, Sends(s, r), NEW p \in Called
  PROVE  Arrives(s, Task(s, p.t, p.x).s, r)
<1>1. Task(s, p.t, p.x).s = s
  BY IgnoredTask DEF Sends, Ignored
<1> QED
  BY <1>1 DEF Arrives, Steady

LEMMA SendsRuns ==
  ASSUME NEW s, Sound(s), NEW t, Took(s, t), NEW r, Sends(s, r)
  PROVE  LET p == Head(s.posts) IN Arrives(t, Task(t, p.t, p.x).s, r)
<1> DEFINE p == Head(s.posts)
           q == Tail(s.posts)
<1>1. p \in Tasks(Nat) /\ s.posts \in Queues /\ Sound(t)
  BY TailParts DEF Sound, Took
<1>2. /\ \A C : All(s.posts, C) => Chore(p, C) /\ All(q, C)
      /\ \A x, C, D : Carries(s.posts, x, C, D) => (p = x /\ All(q, D)) \/ (Chore(p, C) /\ Carries(q, x, C, D))
      /\ \A x, y, C, D : CarriesBoth(s.posts, x, y, C, D) =>
           (p = x /\ Carries(q, y, D, D)) \/ (Chore(p, C) /\ CarriesBoth(q, x, y, C, D))
  BY <1>1, HeadOfAll, HeadOfCarries, HeadOfBoth DEF Took
<1> HIDE DEF p, q
<1>3. t.posts = q /\ Alike(s, t)
  BY DEF Took, q
<1>4. t.state = SendState(t.current)
  BY <1>3 DEF Sends, Alike
<1>5. \/ Chore(p, Called) /\ Sends(t, r)
      \/ Timed(t, FALSE, FALSE, "none") /\ r.wire = << >> /\ p \in Fails /\ All(t.posts, {})
      \/ Timed(t, FALSE, FALSE, "none") /\ p = Wrote
           /\ ((Len(r.wire) <= 1 /\ All(t.posts, {})) \/ (r.wire = << >> /\ Carries(t.posts, Heard, {}, {})))
  <2>1. CASE Timed(s, TRUE, FALSE, "busy") /\ r.wire = << >> /\ All(s.posts, Called)
    BY <1>2, <1>3, <1>4, <2>1 DEF Sends, Timed, Alike
  <2>2. CASE Timed(s, TRUE, FALSE, "none") /\ r.wire = << >> /\ All(s.posts, Called)
    BY <1>2, <1>3, <1>4, <2>2 DEF Sends, Timed, Alike
  <2>3. CASE Timed(s, FALSE, FALSE, "none") /\ r.wire = << >> /\ \E x \in Fails : Carries(s.posts, x, Called, {})
    BY <1>2, <1>3, <1>4, <2>3 DEF Sends, Timed, Alike
  <2>4. CASE Timed(s, FALSE, FALSE, "none") /\ Len(r.wire) <= 1 /\ Carries(s.posts, Wrote, Called, {})
    BY <1>2, <1>3, <1>4, <2>4 DEF Sends, Timed, Alike
  <2>5. CASE Timed(s, FALSE, FALSE, "none") /\ r.wire = << >> /\ CarriesBoth(s.posts, Wrote, Heard, Called, {})
    BY <1>2, <1>3, <1>4, <2>5 DEF Sends, Timed, Alike
  <2> QED
    BY <2>1, <2>2, <2>3, <2>4, <2>5 DEF Sends
<1>6. CASE Chore(p, Called) /\ Sends(t, r)
  BY <1>1, <1>6, AsideRuns, CalledRuns DEF Chore, p
<1>7. CASE Timed(t, FALSE, FALSE, "none") /\ r.wire = << >> /\ p \in Fails /\ All(t.posts, {})
  BY <1>1, <1>4, <1>7, FailsRun DEF p
<1>8. CASE Timed(t, FALSE, FALSE, "none") /\ p = Wrote
             /\ ((Len(r.wire) <= 1 /\ All(t.posts, {})) \/ (r.wire = << >> /\ Carries(t.posts, Heard, {}, {})))
  BY <1>1, <1>4, <1>8, WroteRuns DEF p
<1> QED
  BY <1>5, <1>6, <1>7, <1>8 DEF p

LEMMA WaitsRuns ==
  ASSUME NEW s, Sound(s), s.frame \in Replies, NEW t, Took(s, t), NEW r, Waits(s, r)
  PROVE  LET p == Head(s.posts) IN Arrives(t, Task(t, p.t, p.x).s, r)
<1> DEFINE p == Head(s.posts)
           q == Tail(s.posts)
<1>1. p \in Tasks(Nat) /\ s.posts \in Queues /\ Sound(t) /\ t.frame \in Replies
  BY TailParts DEF Sound, Took, Alike
<1>2. /\ All(s.posts, {}) => Chore(p, {}) /\ All(q, {})
      /\ \A x : Carries(s.posts, x, {}, {}) => (p = x /\ All(q, {})) \/ (Chore(p, {}) /\ Carries(q, x, {}, {}))
  BY <1>1, HeadOfAll, HeadOfCarries DEF Took
<1> HIDE DEF p, q
<1>3. t.posts = q /\ Alike(s, t)
  BY DEF Took, q
<1>4. t.state = WaitState(t.current)
  BY <1>3 DEF Waits, Alike
<1>5. \/ Chore(p, {}) /\ Waits(t, r)
      \/ Timed(t, FALSE, TRUE, "none") /\ r.wire = << >> /\ p = Heard /\ All(t.posts, {})
      \/ Timed(t, FALSE, FALSE, "none") /\ r.wire = << >> /\ p \in Ends(t.state) /\ All(t.posts, {})
  <2>1. CASE Timed(s, FALSE, TRUE, "none") /\ Len(r.wire) <= 1 /\ All(s.posts, {})
    BY <1>2, <1>3, <1>4, <2>1 DEF Waits, Timed, Alike
  <2>2. CASE Timed(s, FALSE, TRUE, "none") /\ r.wire = << >> /\ Carries(s.posts, Heard, {}, {})
    BY <1>2, <1>3, <1>4, <2>2 DEF Waits, Timed, Alike
  <2>3. CASE Timed(s, FALSE, FALSE, "none") /\ r.wire = << >> /\ \E x \in Ends(s.state) : Carries(s.posts, x, {}, {})
    BY <1>2, <1>3, <1>4, <2>3 DEF Waits, Timed, Alike
  <2> QED
    BY <2>1, <2>2, <2>3 DEF Waits
<1>6. CASE Chore(p, {}) /\ Waits(t, r)
  BY <1>1, <1>6, AsideRuns DEF Chore, p
<1>7. CASE Timed(t, FALSE, TRUE, "none") /\ r.wire = << >> /\ p = Heard /\ All(t.posts, {})
  BY <1>1, <1>4, <1>7, HeardRuns DEF p
<1>8. CASE Timed(t, FALSE, FALSE, "none") /\ r.wire = << >> /\ p \in Ends(t.state) /\ All(t.posts, {})
  BY <1>1, <1>4, <1>8, EndsRun DEF p
<1> QED
  BY <1>5, <1>6, <1>7, <1>8 DEF p

------------------------------------------------------------------------------
\* The steps while nothing went wrong, and the first thing that does, a late timer aside.

\* What a step of a driver that was not closed needs.
LEMMA PlaceArrives ==
  ASSUME Place, ~lcsc.stopping, NEW s, s.odd = lcsc.odd, s.stopping = lcsc.stopping, Arrives(s, lcsc', reader')
  PROVE  Place'
BY DEF Place, Arrives, Steady, Goes, Closed

LEMMA Kinds ==
  MoneyInv => /\ lcsc.odd \in BOOLEAN /\ lcsc.stopping \in BOOLEAN /\ lcsc.frame \in Replies /\ lcsc.current.c \in Codes
              /\ Sound(lcsc)
BY MoneySound DEF MoneyInv, Driver, Holding, Fields, Charged, Cmds

\* The thread takes the first task.
LEMMA TaskTaken ==
  ASSUME MoneyInv, RunTask
  PROVE  LET s == [lcsc EXCEPT !.posts = Tail(@)]
             p == Head(lcsc.posts)
         IN /\ lcsc.posts # << >> /\ lcsc' = Task(s, p.t, p.x).s /\ UNCHANGED <<reader, faults>>
            /\ Took(lcsc, s) /\ s.odd = lcsc.odd /\ s.stopping = lcsc.stopping
<1> DEFINE s == [lcsc EXCEPT !.posts = Tail(@)]
<1>1. /\ lcsc.posts # << >> /\ lcsc' = Task(s, Head(lcsc.posts).t, Head(lcsc.posts).x).s
      /\ UNCHANGED <<reader, faults>>
  BY DEF RunTask, d
<1>2. Sound(lcsc)
  BY Kinds
<1>3. Tail(lcsc.posts) \in Queues
  BY <1>1, <1>2, TailParts DEF Sound
<1>4. Took(lcsc, s)
  BY <1>1, <1>2, <1>3 DEF Took, Sound, Keys, Alike
<1> QED
  BY <1>1, <1>4 DEF Took, Alike

LEMMA RunTaskPlace == ASSUME MoneyInv, Place, RunTask PROVE Place'
<1> DEFINE s == [lcsc EXCEPT !.posts = Tail(@)]
           p == Head(lcsc.posts)
<1>1. /\ lcsc.posts # << >> /\ lcsc' = Task(s, p.t, p.x).s /\ reader' = reader
      /\ Took(lcsc, s) /\ s.odd = lcsc.odd /\ s.stopping = lcsc.stopping
  BY TaskTaken
<1>2. Sound(lcsc) /\ lcsc.frame \in Replies
  BY Kinds
<1>3. ~lcsc.stopping /\ Goes(lcsc, reader)
  BY <1>1 DEF Place, Closed, Goes
<1> HIDE DEF s
<1>4. Arrives(s, Task(s, p.t, p.x).s, reader)
  BY <1>1, <1>2, <1>3, IdleRuns, SendsRuns, WaitsRuns DEF Goes
<1>5. Arrives(s, lcsc', reader')
  BY <1>1, <1>4
<1> QED
  BY <1>1, <1>3, <1>5, PlaceArrives

\* What the command at work does not notice: the ends of jobs, and the calls of OP_IO.
Unnoticed ==
  /\ UNCHANGED reader
  /\ IF lcsc.stopping THEN Same(lcsc, lcsc') ELSE Harmless(lcsc, lcsc')

LEMMA UnnoticedPlace == ASSUME MoneyInv, Place, Unnoticed PROVE Place'
<1>1. CASE lcsc.stopping
  BY <1>1 DEF Unnoticed, Place, Goes, Closed, Timed, Same, Alike
<1>2. CASE ~lcsc.stopping
  <2>1. Sound(lcsc) /\ Goes(lcsc, reader) /\ Harmless(lcsc, lcsc') /\ reader' = reader
    BY <1>2, Kinds DEF Place, Closed, Unnoticed
  <2>2. Arrives(lcsc, lcsc', reader')
    BY <2>1, HarmlessArrives DEF Goes
  <2> QED
    BY <1>2, <2>2, PlaceArrives
<1> QED
  BY <1>1, <1>2

LEMMA JobEndsUnnoticed == ASSUME MoneyInv, NEW j \in Jobs, NEW ok \in BOOLEAN, JobEnds(j, ok) PROVE Unnoticed
<1> DEFINE s == [lcsc EXCEPT !.jobs[j] = @ - 1]
<1>1. lcsc' = (IF lcsc.stopping THEN s ELSE JobDone(s, j, ok)) /\ reader' = reader
  BY DEF JobEnds, d
<1>2. Same(lcsc, s)
  BY Kinds DEF Same, Sound, Keys, Alike
<1>3. Harmless(lcsc, s) /\ Sound(s) /\ Sound(lcsc)
  BY <1>2, Kinds, SameHarmless DEF Same
<1> HIDE DEF s
<1>4. CASE lcsc.stopping
  BY <1>1, <1>2, <1>4 DEF Unnoticed
<1>5. CASE ~lcsc.stopping
  <2>1. Harmless(lcsc, lcsc')
    BY <1>1, <1>3, <1>5, JobDoneHarmless, HarmlessTwice
  <2> QED
    BY <1>1, <1>5, <2>1 DEF Unnoticed
<1> QED
  BY <1>4, <1>5

\* OP_IO posts tasks that the command at work does not depend on.
LEMMA EnqueuesHarmless ==
  ASSUME NEW s, Sound(s), NEW c \in Codes, NEW id \in Nat
  PROVE  Harmless(s, Post(s, "enqueue", Command(c, id)))
<1>1. Job("enqueue", Command(c, id)) \in Tasks(Nat)
  BY Posted
<1> QED
  BY <1>1, PostHarmless DEF Aside

LEMMA CallsUnnoticed ==
  ASSUME MoneyInv,
         FnSendGetCardIDCmd \/ FnLCSCReaderStopRead \/ FnSendCardDeduct \/ FnSendGetStatusCmd \/ FnUploadLCSCCDFiles
  PROVE  Unnoticed
<1>1. Sound(lcsc) /\ ~lcsc.stopping /\ reader' = reader
  BY Kinds DEF FnSendGetCardIDCmd, FnLCSCReaderStopRead, FnSendCardDeduct, FnSendGetStatusCmd, FnUploadLCSCCDFiles,
     Call, d
<1>2. CASE FnSendGetCardIDCmd
  <2> DEFINE s == [lcsc EXCEPT !.reading = TRUE, !.reports = 0]
  <2>1. Same(lcsc, s)
    BY <1>1 DEF Same, Sound, Keys, Alike
  <2>2. lcsc' = Post(s, "enqueue", Command("card_id", 0))
    BY <1>2 DEF FnSendGetCardIDCmd, d
  <2> HIDE DEF s
  <2>3. Harmless(lcsc, s) /\ Sound(s)
    BY <1>1, <2>1, SameHarmless DEF Same
  <2>4. Harmless(s, lcsc')
    BY <2>2, <2>3, EnqueuesHarmless DEF Codes
  <2>5. Harmless(lcsc, lcsc')
    BY <1>1, <2>3, <2>4, HarmlessTwice
  <2> QED
    BY <1>1, <2>5 DEF Unnoticed
<1>3. CASE FnLCSCReaderStopRead
  <2>1. Same(lcsc, [lcsc EXCEPT !.reading = FALSE]) /\ Same(lcsc, lcsc)
    BY <1>1 DEF Same, Sound, Keys, Alike
  <2>2. lcsc' = [lcsc EXCEPT !.reading = FALSE] \/ lcsc' = lcsc
    BY <1>3 DEF FnLCSCReaderStopRead, d
  <2>3. Harmless(lcsc, lcsc')
    BY <1>1, <2>1, <2>2, SameHarmless
  <2> QED
    BY <1>1, <2>3 DEF Unnoticed
<1>4. CASE FnSendCardDeduct \/ FnSendGetStatusCmd
  <2>1. lcsc' = Post(lcsc, "enqueue", Command("deduct", 0)) \/ lcsc' = Post(lcsc, "enqueue", Command("status", 0))
    BY <1>4 DEF FnSendCardDeduct, FnSendGetStatusCmd, Enqueues, d
  <2>2. Harmless(lcsc, lcsc')
    BY <1>1, <2>1, EnqueuesHarmless DEF Codes
  <2> QED
    BY <1>1, <2>2 DEF Unnoticed
<1>5. CASE FnUploadLCSCCDFiles
  <2>1. Harmless(lcsc, lcsc')
    BY <1>1, <1>5, UploadEventHarmless DEF FnUploadLCSCCDFiles, Words, d
  <2> QED
    BY <1>1, <2>1 DEF Unnoticed
<1> QED
  BY <1>2, <1>3, <1>4, <1>5

LEMMA HandleEventUnnoticed == ASSUME MoneyInv, HandleEvent PROVE Unnoticed
<1> DEFINE ev == Head(op.events)
<1>1. op.events \in Seq(Reports(lcsc.settled)) /\ op.events # << >> /\ reader' = reader /\ Sound(lcsc)
  BY Kinds DEF MoneyInv, HandleEvent
<1>2. ev.id \in Nat
  BY <1>1, SeqParts DEF Reports, Replies
<1>3. \/ lcsc' = lcsc
      \/ ~lcsc.stopping /\ lcsc' = Post(lcsc, "enqueue", Command("record", 0))
      \/ ~lcsc.stopping /\ lcsc' = Post(lcsc, "enqueue", Command("flush", ev.id))
  BY DEF HandleEvent, d
<1> HIDE DEF ev
<1>4. CASE lcsc' = lcsc
  <2>1. Same(lcsc, lcsc')
    BY <1>1, <1>4 DEF Same, Alike
  <2> QED
    BY <1>1, <2>1, SameHarmless DEF Unnoticed
<1>5. CASE lcsc' # lcsc
  <2>1. Harmless(lcsc, lcsc') /\ ~lcsc.stopping
    BY <1>1, <1>2, <1>3, <1>5, EnqueuesHarmless DEF Codes
  <2> QED
    BY <1>1, <2>1 DEF Unnoticed
<1> QED
  BY <1>4, <1>5

LEMMA VarsUnnoticed == ASSUME MoneyInv, UNCHANGED vars PROVE Unnoticed
<1>1. Sound(lcsc) /\ lcsc' = lcsc /\ reader' = reader
  BY Kinds DEF vars
<1>2. Same(lcsc, lcsc')
  BY <1>1 DEF Same, Alike
<1> QED
  BY <1>1, <1>2, SameHarmless DEF Unnoticed

\* A write ends: it was under way, so that nothing else is told and the line is silent.
LEMMA WriteGoes ==
  ASSUME MoneyInv, Place, lcsc.out # "none"
  PROVE  /\ ~lcsc.stopping /\ lcsc.state = SendState(lcsc.current)
         /\ Timed(lcsc, TRUE, FALSE, "busy") /\ reader.wire = << >> /\ All(lcsc.posts, Called)
BY DEF Place, Closed, Goes, Idles, Sends, Waits, Timed

\* Its end is told; a late one for its time being over.
LEMMA WrittenTells ==
  ASSUME NEW s, Sound(s), NEW ev \in Words
  PROVE  LET u == Written(s, ev)
             x == IF s.out = "late" THEN Tardy ELSE Job("event", ev)
         IN /\ Steady(s, u) /\ u.state = s.state /\ u.current = s.current /\ Timed(u, FALSE, s.answerTimer, "none")
            /\ x \in Tasks(Nat) /\ Tells(s.posts, x, u.posts)
<1> DEFINE t == [s EXCEPT !.out = "none", !.writeTimer = FALSE]
           e == IF s.out = "late" THEN "write_timeout" ELSE ev
<1>1. /\ Sound(t) /\ t.state = s.state /\ t.current = s.current /\ Timed(t, FALSE, s.answerTimer, "none")
      /\ t.odd = s.odd /\ t.stopping = s.stopping /\ t.posts = s.posts
  BY DEF Sound, Keys, Timed
<1>2. Written(s, ev) = Event(t, e)
  BY DEF Written
<1>3. e \in Words /\ (IF s.out = "late" THEN Tardy ELSE Job("event", ev)) = Job("event", e)
  BY DEF Words, Tardy
<1> HIDE DEF t, e
<1>4. LET u == Event(t, e) IN Sound(u) /\ Alike(t, u) /\ Tells(t.posts, Job("event", e), u.posts)
  BY <1>1, <1>3, TokenPosted DEF Event, Plain
<1>5. Job("event", e) \in Tasks(Nat)
  BY <1>3, Posted DEF Plain
<1> QED
  BY <1>1, <1>2, <1>3, <1>4, <1>5 DEF Alike, Timed, Steady

LEMMA AnswerSent ==
  ASSUME MoneyInv, WriteEnds
  PROVE  /\ Len(reader.wire) \in Nat /\ Len(reader'.wire) = Len(reader.wire) + 1
<1>1. PICK a : reader' = Executed(lcsc.current, a)
  BY DEF WriteEnds, d
<1>2. reader'.wire = Append(reader.wire, a)
  BY <1>1, ExecutedFields
<1>3. reader.wire \in Seq(Charged(reader.taken))
  BY DEF MoneyInv, Reader
<1> QED
  BY <1>2, <1>3

LEMMA WriteEndsPlace == ASSUME MoneyInv, Place, WriteEnds PROVE Place'
<1>1. lcsc.out # "none" /\ lcsc' = Written(lcsc, "written") /\ Sound(lcsc)
  BY Kinds DEF WriteEnds, d
<1>2. Len(reader'.wire) <= 1
  BY <1>1, AnswerSent, WriteGoes
<1>3. /\ Steady(lcsc, lcsc') /\ lcsc'.state = lcsc.state /\ lcsc'.current = lcsc.current
      /\ Timed(lcsc', FALSE, FALSE, "none") /\ Wrote \in Tasks(Nat) /\ Tells(lcsc.posts, Wrote, lcsc'.posts)
  BY <1>1, WriteGoes, WrittenTells DEF Wrote, Words, Timed
<1>4. Carries(lcsc'.posts, Wrote, Called, {})
  BY <1>1, <1>3, WriteGoes, Telling DEF Steady, Sound
<1>5. Sends(lcsc', reader')
  BY <1>1, <1>2, <1>3, <1>4, WriteGoes DEF Sends
<1> QED
  BY <1>1, <1>3, <1>5, WriteGoes, PlaceArrives DEF Arrives

LEMMA WriteFailsPlace == ASSUME MoneyInv, Place, WriteFails PROVE Place'
<1> DEFINE x == Job("event", "write_failed")
<1>1. lcsc.out # "none" /\ lcsc' = Written(lcsc, "write_failed") /\ reader' = reader /\ Sound(lcsc)
  BY Kinds DEF WriteFails, d
<1>2. /\ Steady(lcsc, lcsc') /\ lcsc'.state = lcsc.state /\ lcsc'.current = lcsc.current
      /\ Timed(lcsc', FALSE, FALSE, "none") /\ x \in Tasks(Nat) /\ Tells(lcsc.posts, x, lcsc'.posts)
  BY <1>1, WriteGoes, WrittenTells DEF Words, Timed
<1>3. Carries(lcsc'.posts, x, Called, {})
  BY <1>1, <1>2, WriteGoes, Telling DEF Steady, Sound
<1>4. Sends(lcsc', reader')
  BY <1>1, <1>2, <1>3, WriteGoes DEF Sends, Fails
<1> QED
  BY <1>1, <1>2, <1>4, WriteGoes, PlaceArrives DEF Arrives

\* An answer is on its way only when its command was written and nothing of the answer is told yet.
LEMMA WireGoes ==
  ASSUME MoneyInv, Place, ~lcsc.stopping, reader.wire # << >>
  PROVE  /\ Len(reader.wire) <= 1
         /\ \/ /\ lcsc.state = SendState(lcsc.current)
               /\ Timed(lcsc, FALSE, FALSE, "none") /\ Carries(lcsc.posts, Wrote, Called, {})
            \/ /\ lcsc.state = WaitState(lcsc.current)
               /\ Timed(lcsc, FALSE, TRUE, "none") /\ All(lcsc.posts, {})
BY DEF Place, Closed, Goes, Idles, Sends, Waits

LEMMA OneLess == ASSUME NEW X, NEW q \in Seq(X), q # << >>
                 PROVE Len(q) \in Nat \ {0} /\ Len(Tail(q)) = Len(q) - 1 /\ (Len(q) <= 1 => Tail(q) = << >>)
OBVIOUS

LEMMA AnswerGone ==
  ASSUME MoneyInv, reader.wire # << >>, reader' = [reader EXCEPT !.wire = Tail(@)]
  PROVE  /\ Len(reader.wire) \in Nat \ {0} /\ Len(reader'.wire) = Len(reader.wire) - 1
         /\ Len(reader.wire) <= 1 => reader'.wire = << >>
<1>1. reader.wire \in Seq(Charged(reader.taken)) /\ reader'.wire = Tail(reader.wire)
  BY DEF MoneyInv, Reader
<1> QED
  BY <1>1, OneLess

\* A frame is complete, and is told.
LEMMA FrameTells ==
  ASSUME MoneyInv, NEW garbled, FrameArrives(garbled)
  PROVE  /\ ~lcsc.stopping /\ reader.wire # << >> /\ reader' = [reader EXCEPT !.wire = Tail(@)]
         /\ Steady(lcsc, lcsc') /\ lcsc'.state = lcsc.state /\ lcsc'.current = lcsc.current
         /\ Timed(lcsc', lcsc.writeTimer, lcsc.answerTimer, lcsc.out) /\ lcsc'.queue = lcsc.queue
         /\ lcsc.posts \in Queues /\ lcsc'.posts = Append(lcsc.posts, Heard) /\ Heard \in Tasks(Nat)
<1>1. PICK a : lcsc' = Event([lcsc EXCEPT !.frame = a], "received")
  BY DEF FrameArrives, d
<1>2. Sound(lcsc)
  BY Kinds
<1> DEFINE t == [lcsc EXCEPT !.frame = a]
<1>3. /\ Sound(t) /\ t.state = lcsc.state /\ t.current = lcsc.current /\ t.out = lcsc.out /\ t.odd = lcsc.odd
      /\ t.writeTimer = lcsc.writeTimer /\ t.answerTimer = lcsc.answerTimer /\ t.stopping = lcsc.stopping
      /\ t.posts = lcsc.posts /\ t.queue = lcsc.queue
  BY <1>2 DEF Sound, Keys
<1>4. Heard \in Tasks(Nat)
  BY Posted DEF Heard, Plain, Words
<1> HIDE DEF t
<1>5. lcsc' = Post(t, "event", "received")
  BY <1>1 DEF Event, t
<1>6. Sound(lcsc') /\ Alike(t, lcsc') /\ lcsc'.posts = Append(t.posts, Heard) /\ lcsc'.queue = t.queue
  BY <1>3, <1>4, <1>5, PostParts DEF Heard
<1>7. ~lcsc.stopping /\ reader.wire # << >> /\ reader' = [reader EXCEPT !.wire = Tail(@)]
  BY DEF FrameArrives, d
<1>8. lcsc.posts \in Queues
  BY <1>2 DEF Sound
<1>9. Timed(lcsc', lcsc.writeTimer, lcsc.answerTimer, lcsc.out)
  BY <1>3, <1>6 DEF Timed, Alike
<1> QED
  BY <1>3, <1>4, <1>6, <1>7, <1>8, <1>9 DEF Steady, Alike

LEMMA FrameArrivesPlace == ASSUME MoneyInv, Place, NEW garbled, FrameArrives(garbled) PROVE Place'
<1>1. /\ ~lcsc.stopping /\ reader.wire # << >> /\ reader' = [reader EXCEPT !.wire = Tail(@)]
      /\ Steady(lcsc, lcsc') /\ lcsc'.state = lcsc.state /\ lcsc'.current = lcsc.current
      /\ Timed(lcsc', lcsc.writeTimer, lcsc.answerTimer, lcsc.out)
      /\ lcsc.posts \in Queues /\ lcsc'.posts = Append(lcsc.posts, Heard)
  BY FrameTells
<1>2. reader'.wire = << >>
  BY <1>1, WireGoes, AnswerGone
<1>3. CASE /\ lcsc.state = SendState(lcsc.current)
           /\ Timed(lcsc, FALSE, FALSE, "none") /\ Carries(lcsc.posts, Wrote, Called, {})
  <2>1. CarriesBoth(lcsc'.posts, Wrote, Heard, Called, {})
    BY <1>1, <1>3, SecondComes
  <2>2. Sends(lcsc', reader')
    BY <1>1, <1>2, <1>3, <2>1 DEF Sends, Timed
  <2> QED
    BY <1>1, <2>2, PlaceArrives DEF Arrives
<1>4. CASE /\ lcsc.state = WaitState(lcsc.current)
           /\ Timed(lcsc, FALSE, TRUE, "none") /\ All(lcsc.posts, {})
  <2>1. Carries(lcsc'.posts, Heard, {}, {})
    BY <1>1, <1>4, TokenComes
  <2>2. Waits(lcsc', reader')
    BY <1>1, <1>2, <1>4, <2>1 DEF Waits, Timed
  <2> QED
    BY <1>1, <2>2, PlaceArrives DEF Arrives
<1> QED
  BY <1>1, <1>3, <1>4, WireGoes

LEMMA AnswerLostPlace == ASSUME MoneyInv, Place, AnswerLost PROVE Place'
<1>1. lcsc' = lcsc /\ reader.wire # << >> /\ reader' = [reader EXCEPT !.wire = Tail(@)]
  BY DEF AnswerLost
<1>2. CASE lcsc.stopping
  BY <1>1, <1>2 DEF Place, Goes, Closed, Timed
<1>3. CASE ~lcsc.stopping
  <2>1. reader'.wire = << >> /\ Sound(lcsc) /\ Len(reader'.wire) <= 1
    <3>1. reader'.wire = << >>
      BY <1>1, <1>3, WireGoes, AnswerGone
    <3>2. Sound(lcsc)
      BY Kinds
    <3> QED
      BY <3>1, <3>2
  <2>2. Sends(lcsc, reader') \/ Waits(lcsc, reader')
    BY <1>1, <1>3, <2>1, WireGoes DEF Sends, Waits
  <2>3. Arrives(lcsc, lcsc', reader')
    BY <1>1, <2>1, <2>2 DEF Arrives, Steady
  <2> QED
    BY <1>3, <2>3, PlaceArrives
<1> QED
  BY <1>2, <1>3

\* A timer expires, and its handler is posted.
LEMMA TimerTells ==
  ASSUME MoneyInv, NEW x \in {Expired, Over}, IF x = Expired THEN AnswerTimer ELSE WriteTimer
  PROVE  /\ reader' = reader /\ Steady(lcsc, lcsc') /\ lcsc'.state = lcsc.state /\ lcsc'.current = lcsc.current
         /\ IF x = Expired THEN lcsc.answerTimer /\ Timed(lcsc', lcsc.writeTimer, FALSE, lcsc.out)
                           ELSE lcsc.writeTimer /\ Timed(lcsc', FALSE, lcsc.answerTimer, lcsc.out)
         /\ lcsc.posts \in Queues /\ lcsc'.posts = Append(lcsc.posts, x)
<1>1. Sound(lcsc) /\ lcsc.posts \in Queues /\ Expired # Over
  BY Kinds DEF Sound, Expired, Over, Job
<1>2. CASE x = Expired
  <2> DEFINE t == [lcsc EXCEPT !.answerTimer = FALSE]
  <2>1. /\ Sound(t) /\ t.state = lcsc.state /\ t.current = lcsc.current /\ t.posts = lcsc.posts
        /\ Timed(t, lcsc.writeTimer, FALSE, lcsc.out) /\ t.odd = lcsc.odd /\ t.stopping = lcsc.stopping
    BY <1>1 DEF Sound, Keys, Timed
  <2>2. lcsc.answerTimer /\ lcsc' = Post(t, "answerTimer", "expired") /\ reader' = reader
    BY <1>2 DEF AnswerTimer, d
  <2> HIDE DEF t
  <2>3. Job("answerTimer", "expired") \in Tasks(Nat)
    BY Posted DEF Plain, Words
  <2>4. Sound(lcsc') /\ Alike(t, lcsc') /\ lcsc'.posts = Append(t.posts, x)
    BY <1>2, <2>1, <2>2, <2>3, PostParts DEF Expired
  <2> QED
    BY <1>1, <1>2, <2>1, <2>2, <2>4 DEF Steady, Alike, Timed
<1>3. CASE x = Over
  <2> DEFINE t == [lcsc EXCEPT !.writeTimer = FALSE]
  <2>1. /\ Sound(t) /\ t.state = lcsc.state /\ t.current = lcsc.current /\ t.posts = lcsc.posts
        /\ Timed(t, FALSE, lcsc.answerTimer, lcsc.out) /\ t.odd = lcsc.odd /\ t.stopping = lcsc.stopping
    BY <1>1 DEF Sound, Keys, Timed
  <2>2. lcsc.writeTimer /\ lcsc' = Post(t, "writeTimer", "expired") /\ reader' = reader
    BY <1>1, <1>3 DEF WriteTimer, d
  <2> HIDE DEF t
  <2>3. Job("writeTimer", "expired") \in Tasks(Nat)
    BY Posted DEF Plain, Words
  <2>4. Sound(lcsc') /\ Alike(t, lcsc') /\ lcsc'.posts = Append(t.posts, x)
    BY <1>3, <2>1, <2>2, <2>3, PostParts DEF Over
  <2> QED
    BY <1>1, <1>3, <2>1, <2>2, <2>4 DEF Steady, Alike, Timed
<1> QED
  BY <1>2, <1>3

\* The timer of an answer that does not come: nothing that was received waits to be handled.
LEMMA NotHeard ==
  ASSUME AnswerTimer, faults \in Int, faults' = faults
  PROVE  /\ lcsc.answerTimer /\ reader.wire = << >> /\ \A i \in DOMAIN lcsc.posts : lcsc.posts[i] # Heard
         /\ \A C, D : ~Carries(lcsc.posts, Heard, C, D)
<1>1. /\ lcsc.answerTimer /\ reader.wire = << >>
      /\ ~\E i \in DOMAIN lcsc.posts : IsReceived(lcsc.posts[i])
  BY DEF AnswerTimer, Fault, d
<1>2. \A i \in DOMAIN lcsc.posts : lcsc.posts[i] # Heard
  BY <1>1 DEF Heard, Job, IsReceived
<1> QED
  BY <1>1, <1>2 DEF Carries

LEMMA AnswerTimerPlace ==
  ASSUME MoneyInv, Place, AnswerTimer, faults \in Int, faults' = faults
  PROVE  Place'
<1>1. lcsc.answerTimer /\ reader.wire = << >> /\ ~Carries(lcsc.posts, Heard, {}, {})
  BY NotHeard
<1>2. /\ ~lcsc.stopping /\ lcsc.state = WaitState(lcsc.current)
      /\ Timed(lcsc, FALSE, TRUE, "none") /\ All(lcsc.posts, {})
  BY <1>1 DEF Place, Closed, Goes, Idles, Sends, Waits, Timed
<1>3. /\ reader' = reader /\ Steady(lcsc, lcsc') /\ lcsc'.state = lcsc.state /\ lcsc'.current = lcsc.current
      /\ Timed(lcsc', lcsc.writeTimer, FALSE, lcsc.out)
      /\ lcsc.posts \in Queues /\ lcsc'.posts = Append(lcsc.posts, Expired)
  BY TimerTells
<1>4. Carries(lcsc'.posts, Expired, {}, {})
  BY <1>2, <1>3, TokenComes
<1>5. Waits(lcsc', reader')
  BY <1>1, <1>2, <1>3, <1>4 DEF Waits, Timed, Ends
<1> QED
  BY <1>2, <1>3, <1>5, PlaceArrives DEF Arrives

\* The timer of a write that was never begun.
LEMMA WriteTimerPlace ==
  ASSUME MoneyInv, Place, WriteTimer, faults \in Int, faults' = faults
  PROVE  Place'
<1>1. lcsc.writeTimer /\ lcsc.out = "none" /\ Over # Expired
  BY DEF WriteTimer, Fault, d, Over, Expired, Job
<1>2. /\ ~lcsc.stopping /\ lcsc.state = SendState(lcsc.current)
      /\ Timed(lcsc, TRUE, FALSE, "none") /\ reader.wire = << >> /\ All(lcsc.posts, Called)
  BY <1>1 DEF Place, Closed, Goes, Idles, Sends, Waits, Timed
<1>3. /\ reader' = reader /\ Steady(lcsc, lcsc') /\ lcsc'.state = lcsc.state /\ lcsc'.current = lcsc.current
      /\ Timed(lcsc', FALSE, lcsc.answerTimer, lcsc.out)
      /\ lcsc.posts \in Queues /\ lcsc'.posts = Append(lcsc.posts, Over)
  BY <1>1, TimerTells
<1>4. Carries(lcsc'.posts, Over, Called, {})
  BY <1>2, <1>3, TokenComes
<1>5. Sends(lcsc', reader')
  BY <1>2, <1>3, <1>4 DEF Sends, Timed, Fails
<1> QED
  BY <1>2, <1>3, <1>5, PlaceArrives DEF Arrives

LEMMA ClosePlace == ASSUME MoneyInv, ~lcsc.odd, FnLCSCReaderClose PROVE Place' /\ LatePlace'
<1>1. /\ lcsc'.stopping = TRUE /\ lcsc'.posts = << >> /\ lcsc'.out = "none" /\ lcsc'.writeTimer = FALSE
      /\ lcsc'.answerTimer = FALSE /\ lcsc'.odd = lcsc.odd
  BY Kinds DEF FnLCSCReaderClose, d, Sound, Keys
<1> QED
  BY <1>1 DEF Place, LatePlace, Closed, Timed

LEMMA PlaceInit == Init => Place
<1> SUFFICES ASSUME Init PROVE Place
  OBVIOUS
<1>1. /\ lcsc.state = "idle" /\ Timed(lcsc, FALSE, FALSE, "none") /\ reader.wire = << >> /\ lcsc.odd = FALSE
      /\ lcsc.stopping = FALSE /\ lcsc.posts = <<Job("enqueue", Command("login1", 0))>>
  BY DEF Init, Timed, Job
<1>2. \A i \in DOMAIN lcsc.posts : lcsc.posts[i].t \in Aside
  BY <1>1 DEF Job, Aside
<1>3. All(lcsc.posts, CalledFor(lcsc.queue))
  BY <1>2 DEF All, Chore
<1> QED
  BY <1>1, <1>3 DEF Place, Goes, Idles

LEMMA NextPlace == MoneyInv /\ Bounded /\ Place /\ [Next]_vars /\ ~Late => Place'
<1> SUFFICES ASSUME MoneyInv, Bounded, Place, [Next]_vars, ~Late PROVE Place'
  OBVIOUS
<1>1. CASE RunTask \/ WriteEnds \/ WriteFails \/ AnswerLost
  BY <1>1, RunTaskPlace, WriteEndsPlace, WriteFailsPlace, AnswerLostPlace
<1>2. CASE AnswerTimer \/ WriteTimer
  <2>1. faults' = faults
    BY <1>2 DEF Late
  <2>2. faults \in Int
    BY LcscAssumption DEF Bounded
  <2> QED
    BY <1>2, <2>1, <2>2, AnswerTimerPlace, WriteTimerPlace
<1>3. CASE \E garbled \in BOOLEAN : FrameArrives(garbled)
  BY <1>3, FrameArrivesPlace
<1>4. CASE \E j \in Jobs, ok \in BOOLEAN : JobEnds(j, ok)
  BY <1>4, JobEndsUnnoticed, UnnoticedPlace
<1>5. CASE FnSendGetCardIDCmd \/ FnLCSCReaderStopRead \/ FnSendCardDeduct \/ FnSendGetStatusCmd \/ FnUploadLCSCCDFiles
  BY <1>5, CallsUnnoticed, UnnoticedPlace
<1>6. CASE HandleEvent \/ UNCHANGED vars
  BY <1>6, HandleEventUnnoticed, VarsUnnoticed, UnnoticedPlace
<1>7. CASE FnLCSCReaderClose
  BY <1>7, ClosePlace DEF Place
<1> QED
  BY <1>1, <1>2, <1>3, <1>4, <1>5, <1>6, <1>7 DEF Next

------------------------------------------------------------------------------
\* The first thing that goes wrong: any, or a timer that was late.

LEMMA PlaceLate == ASSUME MoneyInv, Place PROVE LatePlace
<1>1. CASE Closed(lcsc)
  BY <1>1 DEF Place, LatePlace
<1>2. CASE Goes(lcsc, reader)
  <2>1. /\ reader.wire = << >> => Few(reader, 0) /\ Few(reader, 1) /\ Few(reader, 2)
        /\ Len(reader.wire) <= 1 => Few(reader, 1) /\ Few(reader, 2)
    <3>1. Len(reader.wire) \in Nat
      BY DEF MoneyInv, Reader
    <3> QED
      BY <3>1 DEF Few
  <2>2. /\ Called \subseteq Ignored
        /\ \A C : {} \subseteq C /\ CalledFor(lcsc.queue) \subseteq CalledFor(lcsc.queue) \cup Dead
    BY DEF Ignored
  <2> SUFFICES LateIdles(lcsc, reader) \/ LateSends(lcsc, reader) \/ LateWaits(lcsc, reader)
    BY <1>2 DEF Place, LatePlace, LateGoes, Goes
  <2>3. CASE Idles(lcsc, reader)
    <3>1. All(lcsc.posts, CalledFor(lcsc.queue) \cup Dead)
      BY <2>2, <2>3, Widening DEF Idles
    <3> QED
      BY <2>1, <2>3, <3>1 DEF LateIdles, Idles
  <2>4. CASE Sends(lcsc, reader)
    <3>1. /\ All(lcsc.posts, Called) => All(lcsc.posts, Ignored)
          /\ \A x, D : Carries(lcsc.posts, x, Called, {}) => Carries(lcsc.posts, x, Ignored, D)
          /\ \A x, y, D : CarriesBoth(lcsc.posts, x, y, Called, {}) => CarriesBoth(lcsc.posts, x, y, Ignored, D)
      BY <2>2, Widening
    <3>2. CASE \E x \in Fails : Carries(lcsc.posts, x, Called, {})
      BY <2>1, <2>4, <3>1, <3>2 DEF Sends, LateSends
    <3>3. CASE ~\E x \in Fails : Carries(lcsc.posts, x, Called, {})
      BY <2>1, <2>4, <3>1, <3>3 DEF Sends, LateSends
    <3> QED
      BY <3>2, <3>3
  <2>5. CASE Waits(lcsc, reader)
    <3>1. /\ All(lcsc.posts, {}) => All(lcsc.posts, {Tardy})
          /\ \A x, C, D : Carries(lcsc.posts, x, {}, {}) => Carries(lcsc.posts, x, C, D)
      BY <2>2, Widening
    <3>2. CASE Timed(lcsc, FALSE, TRUE, "none")
      BY <2>1, <2>5, <3>1, <3>2 DEF Waits, LateWaits, Timed
    <3>3. CASE /\ Timed(lcsc, FALSE, FALSE, "none") /\ reader.wire = << >>
               /\ \E x \in Ends(lcsc.state) : Carries(lcsc.posts, x, {}, {})
      <4>1. PICK x \in Ends(lcsc.state) : Carries(lcsc.posts, x, {}, {})
        BY <3>3
      <4>2. Carries(lcsc.posts, x, {Tardy}, {}) /\ Carries(lcsc.posts, x, {Tardy}, Dead)
        BY <3>1, <4>1
      <4>3. x = Expired \/ x \in Told(lcsc.state)
        BY DEF Ends
      <4>4. Few(reader, 1) /\ lcsc.state = WaitState(lcsc.current)
        BY <2>1, <2>5, <3>3 DEF Waits
      <4> QED
        BY <3>3, <4>2, <4>3, <4>4 DEF LateWaits
    <3> QED
      BY <2>5, <3>2, <3>3 DEF Waits
  <2> QED
    BY <1>2, <2>3, <2>4, <2>5 DEF Goes
<1> QED
  BY <1>1, <1>2 DEF Place

LEMMA PlaceLates == MoneyInv /\ Place => LatePlace
BY PlaceLate

\* A step keeps the command where it may be after a late timer.
LateArrives(s, u, r) == Steady(s, u) /\ (LateIdles(u, r) \/ LateSends(u, r) \/ LateWaits(u, r))

LEMMA LatePlaceArrives ==
  ASSUME ~lcsc.odd, ~lcsc.stopping, NEW s, s.odd = lcsc.odd, s.stopping = lcsc.stopping, LateArrives(s, lcsc', reader')
  PROVE  LatePlace'
BY DEF LatePlace, LateArrives, Steady, LateGoes, Closed

\* The answer is on its way, or was heard, when the time for it is over.
LEMMA AnswerTimerComesLate == ASSUME MoneyInv, Place, AnswerTimer PROVE LatePlace'
<1>1. /\ reader' = reader /\ Steady(lcsc, lcsc') /\ lcsc'.state = lcsc.state /\ lcsc'.current = lcsc.current
      /\ lcsc.answerTimer /\ Timed(lcsc', lcsc.writeTimer, FALSE, lcsc.out)
      /\ lcsc.posts \in Queues /\ lcsc'.posts = Append(lcsc.posts, Expired)
  BY TimerTells
<1>2. /\ ~lcsc.stopping /\ ~lcsc.odd /\ lcsc.state = WaitState(lcsc.current)
      /\ \/ Timed(lcsc, FALSE, TRUE, "none") /\ Len(reader.wire) <= 1 /\ All(lcsc.posts, {})
         \/ Timed(lcsc, FALSE, TRUE, "none") /\ reader.wire = << >> /\ Carries(lcsc.posts, Heard, {}, {})
  BY <1>1 DEF Place, Closed, Goes, Idles, Sends, Waits, Timed
<1>3. CASE Timed(lcsc, FALSE, TRUE, "none") /\ Len(reader.wire) <= 1 /\ All(lcsc.posts, {})
  <2>1. Carries(lcsc'.posts, Expired, {Tardy}, {})
    <3>1. All(lcsc.posts, {Tardy})
      BY <1>3, Widening
    <3> QED
      BY <1>1, <3>1, TokenComes
  <2>2. LateWaits(lcsc', reader')
    BY <1>1, <1>2, <1>3, <2>1 DEF LateWaits, Timed, Few
  <2> QED
    BY <1>1, <1>2, <2>2, LatePlaceArrives DEF LateArrives
<1>4. CASE Timed(lcsc, FALSE, TRUE, "none") /\ reader.wire = << >> /\ Carries(lcsc.posts, Heard, {}, {})
  <2>1. CarriesBoth(lcsc'.posts, Heard, Expired, {}, {})
    BY <1>1, <1>4, SecondComes
  <2>2. LateWaits(lcsc', reader')
    BY <1>1, <1>2, <1>4, <2>1 DEF LateWaits, Timed, Few
  <2> QED
    BY <1>1, <1>2, <2>2, LatePlaceArrives DEF LateArrives
<1> QED
  BY <1>2, <1>3, <1>4

\* The write is under way, or the thread is busy, when the time for it is over.
LEMMA WriteTimerComesLate == ASSUME MoneyInv, Place, WriteTimer PROVE LatePlace'
<1>1. Over # Expired
  BY DEF Over, Expired, Job
<1>2. /\ reader' = reader /\ Steady(lcsc, lcsc') /\ lcsc'.state = lcsc.state /\ lcsc'.current = lcsc.current
      /\ lcsc.writeTimer /\ Timed(lcsc', FALSE, lcsc.answerTimer, lcsc.out)
      /\ lcsc.posts \in Queues /\ lcsc'.posts = Append(lcsc.posts, Over)
  BY <1>1, TimerTells
<1>3. /\ ~lcsc.stopping /\ ~lcsc.odd /\ lcsc.state = SendState(lcsc.current)
      /\ Timed(lcsc, TRUE, FALSE, "busy") \/ Timed(lcsc, TRUE, FALSE, "none")
      /\ reader.wire = << >> /\ All(lcsc.posts, Called)
  BY <1>2 DEF Place, Closed, Goes, Idles, Sends, Waits, Timed
<1>4. All(lcsc.posts, Ignored)
  BY <1>3, Widening DEF Ignored
<1>5. Carries(lcsc'.posts, Over, Ignored, {}) /\ Carries(lcsc'.posts, Over, Ignored, Dead)
  BY <1>2, <1>4, TokenComes
<1>6. LateSends(lcsc', reader')
  BY <1>2, <1>3, <1>5 DEF LateSends, Timed, Few, Fails
<1> QED
  BY <1>2, <1>3, <1>6, LatePlaceArrives DEF LateArrives

------------------------------------------------------------------------------
\* The steps after it, with nothing more going wrong.

LEMMA HarmlessLate ==
  ASSUME NEW s, Sound(s), NEW r, LateIdles(s, r) \/ LateSends(s, r) \/ LateWaits(s, r), NEW u, Harmless(s, u)
  PROVE  LateArrives(s, u, r)
<1>1. Sound(u) /\ Alike(s, u)
  BY DEF Harmless
<1>2. CASE LateIdles(s, r)
  <2> DEFINE C == CalledFor(u.queue) \cup Dead
             B == CalledFor(s.queue) \cup Dead
  <2>1. s.state = "idle" /\ s.posts \in Queues /\ u.posts \in Queues
    BY <1>1, <1>2 DEF LateIdles, Sound
  <2>2. B \subseteq C /\ CalledFor(u.queue) \subseteq C /\ Grows(s.posts, u.posts, CalledFor(u.queue))
    BY <2>1 DEF Harmless
  <2> HIDE DEF B, C
  <2>3. CASE All(s.posts, B)
    <3>1. All(u.posts, C)
      BY <2>1, <2>2, <2>3, Widening, GrowsAll
    <3> QED
      BY <1>1, <1>2, <3>1 DEF LateIdles, Alike, Timed, LateArrives, Steady, C
  <2>4. CASE Carries(s.posts, Refused, {}, B)
    <3>1. Carries(s.posts, Refused, {}, C)
      BY <2>2, <2>4, Widening
    <3>2. Carries(u.posts, Refused, {}, C)
      BY <2>1, <2>2, <3>1, GrowsCarries
    <3> QED
      BY <1>1, <1>2, <3>2 DEF LateIdles, Alike, Timed, LateArrives, Steady, C
  <2> QED
    BY <1>2, <2>3, <2>4 DEF LateIdles, B
<1>3. CASE LateSends(s, r)
  <2>1. s.state # "idle"
    BY <1>3 DEF LateSends, SendState
  <2>2. /\ \A C : All(s.posts, C) => All(u.posts, C)
        /\ \A x, C, D : Carries(s.posts, x, C, D) => Carries(u.posts, x, C, D)
        /\ \A x, y, C, D : CarriesBoth(s.posts, x, y, C, D) => CarriesBoth(u.posts, x, y, C, D)
    BY <2>1, GrowsHarmless
  <2>3. LateSends(u, r)
    BY <1>1, <1>3, <2>2 DEF LateSends, Alike, Timed
  <2> QED
    BY <1>1, <2>3 DEF LateArrives, Steady, Alike
<1>4. CASE LateWaits(s, r)
  <2>1. s.state # "idle"
    BY <1>4 DEF LateWaits, WaitState
  <2>2. /\ \A C : All(s.posts, C) => All(u.posts, C)
        /\ \A x, C, D : Carries(s.posts, x, C, D) => Carries(u.posts, x, C, D)
        /\ \A x, y, C, D : CarriesBoth(s.posts, x, y, C, D) => CarriesBoth(u.posts, x, y, C, D)
    BY <2>1, GrowsHarmless
  <2>3. LateWaits(u, r)
    BY <1>1, <1>4, <2>2 DEF LateWaits, Alike, Timed
  <2> QED
    BY <1>1, <2>3 DEF LateArrives, Steady, Alike
<1> QED
  BY <1>2, <1>3, <1>4

LEMMA AsideLate ==
  ASSUME NEW s, Sound(s), NEW r, LateIdles(s, r) \/ LateSends(s, r) \/ LateWaits(s, r),
         NEW p \in Tasks(Nat), p.t \in Aside
  PROVE  LateArrives(s, Task(s, p.t, p.x).s, r)
BY AsideHarmless, HarmlessLate

LEMMA IdledLate ==
  ASSUME NEW s, Sound(s), Timed(s, FALSE, FALSE, "none"), NEW r, Few(r, 1),
         All(s.posts, Dead) \/ Carries(s.posts, Refused, {}, Dead), NEW u, Idled(s, u)
  PROVE  LateArrives(s, u, r)
<1> DEFINE C == CalledFor(u.queue) \cup Dead
<1>1. s.posts \in Queues /\ u.posts \in Queues /\ Grows(s.posts, u.posts, {}) /\ Dead \subseteq C
  BY DEF Idled, Sound
<1> HIDE DEF C
<1>2. CASE All(s.posts, Dead)
  <2>1. All(u.posts, C)
    BY <1>1, <1>2, Widening, GrowsAll
  <2> QED
    BY <2>1 DEF Idled, LateIdles, Timed, LateArrives, Steady, C
<1>3. CASE Carries(s.posts, Refused, {}, Dead)
  <2>1. Carries(s.posts, Refused, {}, C)
    BY <1>1, <1>3, Widening
  <2>2. Carries(u.posts, Refused, {}, C)
    BY <1>1, <2>1, GrowsCarries
  <2> QED
    BY <2>2 DEF Idled, LateIdles, Timed, LateArrives, Steady, C
<1> QED
  BY <1>2, <1>3

LEMMA NextChunkLate ==
  ASSUME NEW s, Sound(s), IsChunked(s.current.c), NEW u, Chunks(s, u),
         NEW r, Few(r, 1), All(s.posts, Dead), Timed(s, FALSE, FALSE, "none")
  PROVE  LateArrives(s, u, r)
<1>1. All(u.posts, Ignored)
  BY Widening DEF Chunks, Ignored
<1>2. LateSends(u, r)
  BY <1>1 DEF LateSends, SendState, Chunks, Timed
<1> QED
  BY <1>2 DEF LateArrives, Chunks

\* No command, and the thread takes a task.
LEMMA LateIdleRuns ==
  ASSUME NEW s, Sound(s), NEW t, Took(s, t), NEW r, LateIdles(s, r)
  PROVE  LET p == Head(s.posts) IN LateArrives(t, Task(t, p.t, p.x).s, r)
<1> DEFINE p == Head(s.posts)
           q == Tail(s.posts)
           B == CalledFor(s.queue) \cup Dead
<1>1. p \in Tasks(Nat) /\ Sound(t) /\ s.posts \in Queues /\ t.posts = q /\ Alike(s, t) /\ t.queue = s.queue
      /\ s.posts # << >>
  BY TailParts DEF Sound, Took
<1>2. \/ p = Refused /\ All(q, B)
      \/ Chore(p, B) /\ All(q, B)
      \/ Chore(p, {}) /\ Carries(q, Refused, {}, B)
  BY <1>1, HeadOfAll, HeadOfCarries DEF LateIdles
<1> HIDE DEF p, q
<1>3. t.state = "idle" /\ Timed(t, FALSE, FALSE, "none") /\ Few(r, 1)
  BY <1>1 DEF LateIdles, Alike, Timed
<1>4. LateIdles(t, r)
  BY <1>1, <1>2, <1>3 DEF LateIdles
<1>5. CASE p = Refused \/ p \in Dead
  <2>1. Task(t, p.t, p.x).s = t
    BY <1>3, <1>5 DEF Refused, Dead, Heard, Job, Task, Transition, Silent, Says
  <2> QED
    BY <1>1, <1>4, <2>1 DEF LateArrives, Steady, p
<1>6. CASE p.t \in Aside
  BY <1>1, <1>4, <1>6, AsideLate DEF p
<1>7. CASE p \in CalledFor(s.queue) /\ All(q, B)
  <2> DEFINE u == Task(t, p.t, p.x).s
  <2>1. Fetches(t, u, Head(t.queue))
    BY <1>1, <1>3, <1>7, PopTakes
  <2> HIDE DEF u
  <2>2. B \subseteq Ignored
    BY CalledForCalled DEF Ignored
  <2>3. All(u.posts, Ignored)
    BY <1>1, <1>7, <2>1, <2>2, Widening DEF Fetches
  <2>4. LateSends(u, r)
    BY <1>3, <2>1, <2>3 DEF Fetches, LateSends, Timed
  <2> QED
    BY <2>1, <2>4 DEF Fetches, LateArrives, u, p
<1> QED
  BY <1>2, <1>5, <1>6, <1>7 DEF Chore

\* A command is being written, or its end is told, and the thread takes a task.
LEMMA FailsLate ==
  ASSUME NEW s, Sound(s), s.state = SendState(s.current),
         NEW r, Few(r, 1), All(s.posts, Dead), Timed(s, FALSE, FALSE, "none"), NEW p \in Fails
  PROVE  LateArrives(s, Task(s, p.t, p.x).s, r)
<1> DEFINE u == Task(s, p.t, p.x).s
<1>1. IF p = Over THEN Sound(u) /\ Alike(s, u) /\ Tells(s.posts, Tardy, u.posts) ELSE Idled(s, u)
  BY FailsTask
<1> HIDE DEF u
<1>2. CASE p = Over
  <2>1. Tardy \in Tasks(Nat) /\ All(s.posts, Ignored)
    BY Posted, Widening DEF Tardy, Plain, Words, Ignored
  <2>2. Carries(u.posts, Tardy, Ignored, Dead)
    BY <1>1, <1>2, <2>1, Telling DEF Sound
  <2>3. LateSends(u, r)
    BY <1>1, <1>2, <2>2 DEF LateSends, Fails, Alike, Timed
  <2> QED
    BY <1>1, <1>2, <2>3 DEF LateArrives, Steady, Alike, u
<1>3. CASE p # Over
  BY <1>1, <1>3, IdledLate DEF u
<1> QED
  BY <1>2, <1>3

LEMMA WroteLate ==
  ASSUME NEW s, Sound(s), s.state = SendState(s.current), NEW r, Timed(s, FALSE, FALSE, "none"),
         \/ Few(r, 2) /\ All(s.posts, {Tardy})
         \/ Few(r, 1) /\ Carries(s.posts, Heard, {Tardy}, {Tardy})
         \/ Few(r, 0) /\ All(s.posts, {Tardy, Heard})
  PROVE  LateArrives(s, Task(s, Wrote.t, Wrote.x).s, r)
<1> DEFINE u == Task(s, Wrote.t, Wrote.x).s
<1>1. Awaits(s, u)
  BY WroteTask
<1> HIDE DEF u
<1>2. LateWaits(u, r)
  BY <1>1 DEF LateWaits, Awaits
<1> QED
  BY <1>1, <1>2 DEF LateArrives, Awaits, u

\* The handler of the timer is overtaken by the end of the write, or comes while the write is under way.
LEMMA OverLate ==
  ASSUME NEW s, Sound(s), s.state = SendState(s.current), NEW r, Len(r.wire) \in Nat,
         \/ Timed(s, FALSE, FALSE, "busy") /\ Few(r, 0) /\ All(s.posts, {})
         \/ Timed(s, FALSE, FALSE, "none") /\ Few(r, 1) /\ Carries(s.posts, Wrote, {}, {})
         \/ Timed(s, FALSE, FALSE, "none") /\ Few(r, 0) /\ Carries(s.posts, Wrote, {Heard}, {Heard})
  PROVE  LateArrives(s, Task(s, Over.t, Over.x).s, r)
<1> DEFINE u == Task(s, Over.t, Over.x).s
<1>1. CASE Timed(s, FALSE, FALSE, "busy") /\ Few(r, 0) /\ All(s.posts, {})
  <2> DEFINE v == [s EXCEPT !.out = "late"]
  <2>1. u = v
    BY <1>1 DEF Over, Job, Task, Silent, Says, Timed
  <2>2. Steady(s, v) /\ v.state = s.state /\ v.current = s.current /\ v.posts = s.posts /\ Timed(v, FALSE, FALSE, "late")
    BY <1>1 DEF Sound, Keys, Timed, Steady
  <2> HIDE DEF u, v
  <2>3. All(v.posts, Ignored)
    BY <1>1, <2>2, Widening
  <2>4. LateSends(v, r)
    BY <1>1, <2>2, <2>3 DEF LateSends
  <2> QED
    BY <2>1, <2>2, <2>4 DEF LateArrives, u
<1>2. CASE Timed(s, FALSE, FALSE, "none")
  <2>1. Sound(u) /\ Alike(s, u) /\ Tells(s.posts, Tardy, u.posts)
    BY <1>2, FailsTask DEF Fails
  <2> HIDE DEF u
  <2>2. Tardy \in Tasks(Nat) /\ {} \subseteq Ignored /\ {Heard} \subseteq Ignored
    BY Posted DEF Tardy, Plain, Words, Ignored, Dead
  <2>3. CASE Few(r, 1) /\ Carries(s.posts, Wrote, {}, {})
    <3>1. Carries(s.posts, Wrote, Ignored, {Tardy})
      BY <2>2, <2>3, Widening
    <3>2. Carries(u.posts, Wrote, Ignored, {Tardy})
      BY <2>1, <2>2, <3>1, Telling DEF Sound
    <3> QED
      BY <1>2, <2>1, <2>3, <3>2 DEF LateSends, Alike, Timed, Few, LateArrives, Steady, u
  <2>4. CASE Few(r, 0) /\ Carries(s.posts, Wrote, {Heard}, {Heard})
    <3>1. Carries(s.posts, Wrote, Ignored, {Tardy, Heard})
      BY <2>2, <2>4, Widening
    <3>2. Carries(u.posts, Wrote, Ignored, {Tardy, Heard})
      BY <2>1, <2>2, <3>1, Telling DEF Sound
    <3> QED
      BY <1>2, <2>1, <2>4, <3>2 DEF LateSends, Alike, Timed, LateArrives, Steady, u
  <2> QED
    BY <1>2, <2>3, <2>4 DEF Timed
<1> QED
  BY <1>1, <1>2

LEMMA LateSendsRuns ==
  ASSUME NEW s, Sound(s), NEW t, Took(s, t), NEW r, Len(r.wire) \in Nat, LateSends(s, r)
  PROVE  LET p == Head(s.posts) IN LateArrives(t, Task(t, p.t, p.x).s, r)
<1> DEFINE p == Head(s.posts)
           q == Tail(s.posts)
<1>1. p \in Tasks(Nat) /\ s.posts \in Queues /\ Sound(t)
  BY TailParts DEF Sound, Took
<1>2. /\ \A C : All(s.posts, C) => Chore(p, C) /\ All(q, C)
      /\ \A x, C, D : Carries(s.posts, x, C, D) => (p = x /\ All(q, D)) \/ (Chore(p, C) /\ Carries(q, x, C, D))
      /\ \A x, y, C, D : CarriesBoth(s.posts, x, y, C, D) =>
           (p = x /\ Carries(q, y, D, D)) \/ (Chore(p, C) /\ CarriesBoth(q, x, y, C, D))
  BY <1>1, HeadOfAll, HeadOfCarries, HeadOfBoth DEF Took
<1> HIDE DEF p, q
<1>3. t.posts = q /\ Alike(s, t)
  BY DEF Took, q
<1>4. t.state = SendState(t.current)
  BY <1>3 DEF LateSends, Alike
<1> DEFINE Skips == Chore(p, Ignored) /\ LateSends(t, r)
           HasFailed == Timed(t, FALSE, FALSE, "none") /\ Few(r, 1) /\ p \in Fails /\ All(t.posts, Dead)
           HasWritten == Timed(t, FALSE, FALSE, "none") /\ p = Wrote
                     /\ \/ Few(r, 2) /\ All(t.posts, {Tardy})
                        \/ Few(r, 1) /\ Carries(t.posts, Heard, {Tardy}, {Tardy})
                        \/ Few(r, 0) /\ All(t.posts, {Tardy, Heard})
           IsOver == p = Over
                    /\ \/ Timed(t, FALSE, FALSE, "busy") /\ Few(r, 0) /\ All(t.posts, {})
                       \/ Timed(t, FALSE, FALSE, "none") /\ Few(r, 1) /\ Carries(t.posts, Wrote, {}, {})
                       \/ Timed(t, FALSE, FALSE, "none") /\ Few(r, 0) /\ Carries(t.posts, Wrote, {Heard}, {Heard})
<1>5. Skips \/ HasFailed \/ HasWritten \/ IsOver
  <2>1. CASE Timed(s, TRUE, FALSE, "busy") /\ Few(r, 1) /\ All(s.posts, Ignored)
    BY <1>2, <1>3, <1>4, <2>1 DEF LateSends, Timed, Alike
  <2>2. CASE Timed(s, TRUE, FALSE, "none") /\ Few(r, 1) /\ All(s.posts, Ignored)
    BY <1>2, <1>3, <1>4, <2>2 DEF LateSends, Timed, Alike
  <2>3. CASE Timed(s, FALSE, FALSE, "none") /\ Few(r, 1) /\ \E x \in Fails : Carries(s.posts, x, Ignored, Dead)
    BY <1>2, <1>3, <1>4, <2>3 DEF LateSends, Timed, Alike
  <2>4. CASE Timed(s, FALSE, FALSE, "none") /\ Few(r, 2) /\ Carries(s.posts, Wrote, Ignored, {Tardy})
    BY <1>2, <1>3, <1>4, <2>4 DEF LateSends, Timed, Alike
  <2>5. CASE Timed(s, FALSE, FALSE, "none") /\ Few(r, 1) /\ CarriesBoth(s.posts, Wrote, Heard, Ignored, {Tardy})
    BY <1>2, <1>3, <1>4, <2>5 DEF LateSends, Timed, Alike
  <2>6. CASE Timed(s, FALSE, FALSE, "none") /\ Few(r, 0) /\ Carries(s.posts, Wrote, Ignored, {Tardy, Heard})
    BY <1>2, <1>3, <1>4, <2>6 DEF LateSends, Timed, Alike
  <2>7. CASE Timed(s, FALSE, FALSE, "busy") /\ Few(r, 0) /\ Carries(s.posts, Over, Ignored, {})
    BY <1>2, <1>3, <1>4, <2>7 DEF LateSends, Timed, Alike
  <2>8. CASE Timed(s, FALSE, FALSE, "none") /\ Few(r, 1) /\ CarriesBoth(s.posts, Over, Wrote, Ignored, {})
    BY <1>2, <1>3, <1>4, <2>8 DEF LateSends, Timed, Alike
  <2>9. CASE Timed(s, FALSE, FALSE, "none") /\ Few(r, 0) /\ CarriesBoth(s.posts, Over, Wrote, Ignored, {Heard})
    BY <1>2, <1>3, <1>4, <2>9 DEF LateSends, Timed, Alike
  <2>10. CASE Timed(s, FALSE, FALSE, "late") /\ Few(r, 0) /\ All(s.posts, Ignored)
    BY <1>2, <1>3, <1>4, <2>10 DEF LateSends, Timed, Alike
  <2> QED
    BY <2>1, <2>2, <2>3, <2>4, <2>5, <2>6, <2>7, <2>8, <2>9, <2>10 DEF LateSends
<1>6. CASE Skips
  <2>1. CASE p.t \in Aside
    BY <1>1, <1>6, <2>1, AsideLate DEF p
  <2>2. CASE p \in Ignored
    <3>1. Task(t, p.t, p.x).s = t
      BY <1>4, <2>2, IgnoredTask
    <3> QED
      BY <1>1, <1>6, <3>1 DEF LateArrives, Steady, p
  <2> QED
    BY <1>6, <2>1, <2>2 DEF Chore
<1>7. CASE HasFailed
  BY <1>1, <1>4, <1>7, FailsLate DEF p
<1>8. CASE HasWritten
  BY <1>1, <1>4, <1>8, WroteLate DEF p
<1>9. CASE IsOver
  BY <1>1, <1>4, <1>9, OverLate DEF p
<1> HIDE DEF Skips, HasFailed, HasWritten, IsOver
<1> QED
  BY <1>5, <1>6, <1>7, <1>8, <1>9 DEF p

\* The end of the command is told.
LEMMA ToldLate ==
  ASSUME NEW s, Sound(s), s.state = WaitState(s.current), Timed(s, FALSE, FALSE, "none"), NEW p \in Told(s.state),
         NEW r, Few(r, 1), All(s.posts, Dead) \/ (p = TimedOut /\ Carries(s.posts, Refused, {}, Dead))
  PROVE  LateArrives(s, Task(s, p.t, p.x).s, r)
<1> DEFINE u == Task(s, p.t, p.x).s
<1>1. Idled(s, u) \/ (p = Job("event", "next") /\ IsChunked(s.current.c) /\ Chunks(s, u))
  BY ToldTask DEF Timed
<1> HIDE DEF u
<1>2. Job("event", "next") # TimedOut
  BY DEF TimedOut, Job
<1> QED
  BY <1>1, <1>2, IdledLate, NextChunkLate DEF u

\* The answer was read in time, or after its time was over.
LEMMA HeardLate ==
  ASSUME NEW s, Sound(s), s.state = WaitState(s.current), s.frame \in Replies, s.current.c # "none",
         s.writeTimer = FALSE, s.out = "none", NEW r, Len(r.wire) \in Nat,
         \/ Few(r, 1) /\ All(s.posts, {Tardy})
         \/ Few(r, 0) /\ All(s.posts, {Tardy, Heard})
         \/ Few(r, 0) /\ s.frame = None /\ \E x \in Told(s.state) : Carries(s.posts, x, {Tardy, Heard}, Dead)
         \/ Few(r, 0) /\ Carries(s.posts, Expired, {}, {})
         \/ Few(r, 0) /\ Carries(s.posts, TimedOut, {}, {})
  PROVE  LateArrives(s, Task(s, Heard.t, Heard.x).s, r)
<1> DEFINE read == [s EXCEPT !.frame = None]
           u == Task(s, Heard.t, Heard.x).s
<1>1. /\ \E x \in Told(s.state) : Heeds(read, u, x)
      /\ s.frame = None /\ s.current.c # "none" => Heeds(read, u, Job("event", "rejected"))
      /\ read.posts = s.posts /\ read.state = s.state /\ read.current = s.current /\ read.odd = s.odd
      /\ read.stopping = s.stopping /\ read.writeTimer = s.writeTimer /\ read.out = s.out /\ read.frame = None
  BY HeardTask
<1> HIDE DEF read, u
<1>2. PICK x \in Told(s.state) : /\ Heeds(read, u, x)
                                 /\ s.frame = None => x = Job("event", "rejected")
  <2>1. Job("event", "rejected") \in Told(s.state)
    BY DEF Told, EndWords
  <2> QED
    BY <1>1, <2>1
<1>3. /\ Steady(s, u) /\ u.state = s.state /\ u.current = s.current /\ Timed(u, FALSE, FALSE, "none") /\ u.frame = None
      /\ u.state = WaitState(u.current) /\ Told(u.state) = Told(s.state)
  BY <1>1, <1>2 DEF Heeds, Timed, Steady
<1>4. x \in Tasks(Nat) /\ s.posts \in Queues /\ u.posts \in Queues /\ Tells(s.posts, x, u.posts)
  BY <1>1, <1>2, <1>3, ToldTasks DEF Heeds, Sound, Steady
<1>5. /\ \A C, D : All(s.posts, C) => Carries(u.posts, x, C, D)
      /\ \A y, C, D : Carries(s.posts, y, C, D) => CarriesBoth(u.posts, y, x, C, D)
      /\ \A y, C, D : Carries(s.posts, y, C, D) /\ x \in D => Carries(u.posts, y, C, D)
  BY <1>4, Telling
<1>6. x = Refused \/ x \in Dead
  BY <1>2 DEF Told, EndWords, Refused, Dead
<1>7. SUFFICES LateWaits(u, r)
  BY <1>3 DEF LateArrives, u
<1>8. CASE Few(r, 1) /\ All(s.posts, {Tardy})
  BY <1>2, <1>3, <1>5, <1>8 DEF LateWaits
<1>9. CASE Few(r, 0) /\ All(s.posts, {Tardy, Heard})
  BY <1>2, <1>3, <1>5, <1>9 DEF LateWaits
<1>10. CASE Few(r, 0) /\ s.frame = None /\ \E y \in Told(s.state) : Carries(s.posts, y, {Tardy, Heard}, Dead)
  <2>1. x \in Dead
    BY <1>2, <1>10 DEF Dead
  <2> QED
    BY <1>3, <1>5, <1>10, <2>1 DEF LateWaits
<1>11. CASE Few(r, 0) /\ Carries(s.posts, Expired, {}, {})
  BY <1>2, <1>3, <1>5, <1>11 DEF LateWaits
<1>12. CASE Few(r, 0) /\ Carries(s.posts, TimedOut, {}, {})
  <2>1. CASE x = Refused
    BY <1>3, <1>5, <1>12, <2>1 DEF LateWaits
  <2>2. CASE x \in Dead
    <3>1. Carries(s.posts, TimedOut, {Tardy}, Dead)
      BY <1>12, Widening
    <3>2. Carries(u.posts, TimedOut, {Tardy}, Dead)
      BY <1>5, <2>2, <3>1
    <3>3. TimedOut \in Told(u.state)
      BY DEF TimedOut, Told, EndWords
    <3>4. Few(r, 1)
      BY <1>12 DEF Few
    <3> QED
      BY <1>3, <3>2, <3>3, <3>4 DEF LateWaits
  <2> QED
    BY <1>6, <2>1, <2>2
<1> QED
  BY <1>8, <1>9, <1>10, <1>11, <1>12

\* The timer of the answer has expired before the answer came, or between its coming and its being read.
LEMMA ExpiredLate ==
  ASSUME NEW s, Sound(s), s.state = WaitState(s.current), Timed(s, FALSE, FALSE, "none"), NEW r, Len(r.wire) \in Nat,
         \/ Few(r, 1) /\ All(s.posts, {})
         \/ Few(r, 0) /\ Carries(s.posts, Heard, {}, {})
         \/ Few(r, 0) /\ \E x \in Told(s.state) : Carries(s.posts, x, {}, {})
  PROVE  LateArrives(s, Task(s, Expired.t, Expired.x).s, r)
<1> DEFINE u == Task(s, Expired.t, Expired.x).s
<1>1. Sound(u) /\ Alike(s, u) /\ Tells(s.posts, TimedOut, u.posts)
  BY ExpiredTask
<1> HIDE DEF u
<1>2. /\ Steady(s, u) /\ u.state = s.state /\ u.current = s.current /\ Timed(u, FALSE, FALSE, "none")
      /\ u.state = WaitState(u.current)
  BY <1>1 DEF Alike, Timed, Steady
<1>3. TimedOut \in Told(s.state) /\ TimedOut \in Tasks(Nat) /\ TimedOut \in Dead
  BY ToldTasks DEF Told, EndWords, TimedOut, Dead
<1>4. s.posts \in Queues /\ u.posts \in Queues
  BY <1>1 DEF Sound
<1>5. /\ \A C, D : All(s.posts, C) => Carries(u.posts, TimedOut, C, D)
      /\ \A y, C, D : Carries(s.posts, y, C, D) => CarriesBoth(u.posts, y, TimedOut, C, D)
      /\ \A y, C, D : Carries(s.posts, y, C, D) /\ TimedOut \in D => Carries(u.posts, y, C, D)
  BY <1>1, <1>3, <1>4, Telling
<1>6. SUFFICES LateWaits(u, r)
  BY <1>2 DEF LateArrives, u
<1>7. CASE Few(r, 1) /\ All(s.posts, {})
  <2>1. All(s.posts, {Tardy})
    BY <1>7, Widening
  <2> QED
    BY <1>2, <1>3, <1>5, <1>7, <2>1 DEF LateWaits
<1>8. CASE Few(r, 0) /\ Carries(s.posts, Heard, {}, {})
  BY <1>2, <1>5, <1>8 DEF LateWaits
<1>9. CASE Few(r, 0) /\ \E x \in Told(s.state) : Carries(s.posts, x, {}, {})
  <2>1. PICK x \in Told(s.state) : Carries(s.posts, x, {}, {})
    BY <1>9
  <2>2. Carries(s.posts, x, {Tardy}, Dead)
    BY <2>1, Widening
  <2>3. Carries(u.posts, x, {Tardy}, Dead)
    BY <1>3, <1>5, <2>2
  <2>4. Few(r, 1)
    BY <1>9 DEF Few
  <2>5. x \in Told(u.state)
    BY <1>2
  <2> QED
    BY <1>2, <2>3, <2>4, <2>5 DEF LateWaits
<1> QED
  BY <1>7, <1>8, <1>9

LEMMA LateWaitsRuns ==
  ASSUME NEW s, Sound(s), s.frame \in Replies, s.current.c # "none", NEW t, Took(s, t),
         NEW r, Len(r.wire) \in Nat, LateWaits(s, r)
  PROVE  LET p == Head(s.posts) IN LateArrives(t, Task(t, p.t, p.x).s, r)
<1> DEFINE p == Head(s.posts)
           q == Tail(s.posts)
<1>1. p \in Tasks(Nat) /\ s.posts \in Queues /\ Sound(t) /\ t.frame \in Replies /\ t.current.c # "none"
  BY TailParts DEF Sound, Took, Alike
<1>2. /\ \A C : All(s.posts, C) => Chore(p, C) /\ All(q, C)
      /\ \A x, C, D : Carries(s.posts, x, C, D) => (p = x /\ All(q, D)) \/ (Chore(p, C) /\ Carries(q, x, C, D))
      /\ \A x, y, C, D : CarriesBoth(s.posts, x, y, C, D) =>
           (p = x /\ Carries(q, y, D, D)) \/ (Chore(p, C) /\ CarriesBoth(q, x, y, C, D))
  BY <1>1, HeadOfAll, HeadOfCarries, HeadOfBoth DEF Took
<1> HIDE DEF p, q
<1>3. t.posts = q /\ Alike(s, t)
  BY DEF Took, q
<1>4. t.state = WaitState(t.current)
  BY <1>3 DEF LateWaits, Alike
<1> DEFINE Skips == Chore(p, {Tardy}) /\ LateWaits(t, r)
           IsTold == /\ p \in Told(t.state) /\ Timed(t, FALSE, FALSE, "none") /\ Few(r, 1)
                     /\ All(t.posts, Dead) \/ (p = TimedOut /\ Carries(t.posts, Refused, {}, Dead))
           IsHeard == /\ p = Heard /\ t.writeTimer = FALSE /\ t.out = "none"
                      /\ \/ Few(r, 1) /\ All(t.posts, {Tardy})
                         \/ Few(r, 0) /\ All(t.posts, {Tardy, Heard})
                         \/ /\ Few(r, 0) /\ t.frame = None
                            /\ \E x \in Told(t.state) : Carries(t.posts, x, {Tardy, Heard}, Dead)
                         \/ Few(r, 0) /\ Carries(t.posts, Expired, {}, {})
                         \/ Few(r, 0) /\ Carries(t.posts, TimedOut, {}, {})
           IsExpired == /\ p = Expired /\ Timed(t, FALSE, FALSE, "none")
                        /\ \/ Few(r, 1) /\ All(t.posts, {})
                           \/ Few(r, 0) /\ Carries(t.posts, Heard, {}, {})
                           \/ Few(r, 0) /\ \E x \in Told(t.state) : Carries(t.posts, x, {}, {})
<1>5. Skips \/ IsTold \/ IsHeard \/ IsExpired
  <2>1. Chore(p, {}) => Chore(p, {Tardy})
    BY DEF Chore
  <2>2. Chore(p, {Tardy, Heard}) => Chore(p, {Tardy}) \/ p = Heard
    BY DEF Chore
  <2>3. \A x : Carries(q, x, {}, {}) => Carries(q, x, {}, Dead)
    BY Widening
  <2>4. All(q, {}) => All(q, {Tardy}) /\ All(q, Dead)
    BY Widening
  <2>5. TimedOut \in Told(t.state)
    BY DEF Told, TimedOut, EndWords
  <2>6. s.state = t.state /\ s.frame = t.frame /\ \A w, a, o : Timed(s, w, a, o) = Timed(t, w, a, o)
    BY <1>3 DEF Alike, Timed
  <2>7. CASE Timed(s, FALSE, TRUE, "none")
    <3>1. t.writeTimer = FALSE /\ t.out = "none" /\ Timed(t, FALSE, TRUE, "none") /\ ~Timed(t, FALSE, FALSE, "none")
      BY <2>6, <2>7 DEF Timed
    <3>2. CASE Few(r, 2) /\ All(s.posts, {Tardy})
      BY <1>2, <1>3, <1>4, <3>1, <3>2 DEF LateWaits
    <3>3. CASE Few(r, 1) /\ Carries(s.posts, Heard, {Tardy}, {Tardy})
      BY <1>2, <1>3, <1>4, <3>1, <3>3 DEF LateWaits
    <3>4. CASE Few(r, 0) /\ All(s.posts, {Tardy, Heard})
      BY <1>2, <1>3, <1>4, <2>2, <3>1, <3>4 DEF LateWaits
    <3> QED
      BY <2>6, <3>1, <3>2, <3>3, <3>4 DEF LateWaits
  <2>8. CASE Timed(s, FALSE, FALSE, "none")
    <3>1. t.writeTimer = FALSE /\ t.out = "none" /\ Timed(t, FALSE, FALSE, "none") /\ ~Timed(t, FALSE, TRUE, "none")
      BY <2>6, <2>8 DEF Timed
    <3>2. CASE Few(r, 0) /\ s.frame = None /\ \E x \in Told(s.state) : Carries(s.posts, x, {Tardy, Heard}, Dead)
      <4>1. PICK x \in Told(t.state) : Carries(s.posts, x, {Tardy, Heard}, Dead)
        BY <2>6, <3>2
      <4>2. (p = x /\ All(q, Dead)) \/ (Chore(p, {Tardy, Heard}) /\ Carries(q, x, {Tardy, Heard}, Dead))
        BY <1>2, <4>1
      <4>3. Few(r, 1) /\ t.frame = None
        BY <2>6, <3>2 DEF Few
      <4>4. CASE p = x /\ All(q, Dead)
        BY <1>3, <3>1, <4>1, <4>3, <4>4
      <4>5. CASE p = Heard /\ Carries(q, x, {Tardy, Heard}, Dead)
        BY <1>3, <3>1, <3>2, <4>1, <4>3, <4>5
      <4>6. CASE Chore(p, {Tardy}) /\ Carries(q, x, {Tardy, Heard}, Dead)
        BY <1>3, <1>4, <3>1, <3>2, <4>1, <4>3, <4>6 DEF LateWaits
      <4> QED
        BY <2>2, <4>2, <4>4, <4>5, <4>6
    <3>3. CASE Few(r, 1) /\ \E x \in Told(s.state) : Carries(s.posts, x, {Tardy}, Dead)
      BY <1>2, <1>3, <1>4, <2>6, <3>1, <3>3 DEF LateWaits
    <3>4. CASE Few(r, 1) /\ Carries(s.posts, Expired, {Tardy}, {})
      BY <1>2, <1>3, <1>4, <3>1, <3>4 DEF LateWaits
    <3>5. CASE Few(r, 0) /\ CarriesBoth(s.posts, Expired, Heard, {Tardy}, {})
      BY <1>2, <1>3, <1>4, <3>1, <3>5 DEF LateWaits
    <3>6. CASE Few(r, 0) /\ CarriesBoth(s.posts, Heard, Expired, {}, {})
      BY <1>2, <1>3, <1>4, <2>1, <3>1, <3>6 DEF LateWaits
    <3>7. CASE Few(r, 0) /\ \E x \in Told(s.state) : CarriesBoth(s.posts, Expired, x, {}, {})
      BY <1>2, <1>3, <1>4, <2>1, <2>6, <3>1, <3>7 DEF LateWaits
    <3>8. CASE Few(r, 0) /\ CarriesBoth(s.posts, Heard, TimedOut, {}, {})
      BY <1>2, <1>3, <1>4, <2>1, <3>1, <3>8 DEF LateWaits
    <3>9. CASE Few(r, 0) /\ CarriesBoth(s.posts, TimedOut, Refused, {}, {})
      <4>1. (p = TimedOut /\ Carries(q, Refused, {}, {})) \/ (Chore(p, {}) /\ CarriesBoth(q, TimedOut, Refused, {}, {}))
        BY <1>2, <3>9
      <4>2. Few(r, 1)
        BY <3>9 DEF Few
      <4>3. CASE p = TimedOut /\ Carries(q, Refused, {}, {})
        BY <1>3, <2>3, <2>5, <3>1, <4>2, <4>3
      <4>4. CASE Chore(p, {}) /\ CarriesBoth(q, TimedOut, Refused, {}, {})
        BY <1>3, <1>4, <2>1, <3>1, <3>9, <4>4 DEF LateWaits
      <4> QED
        BY <4>1, <4>3, <4>4
    <3> QED
      BY <2>6, <3>1, <3>2, <3>3, <3>4, <3>5, <3>6, <3>7, <3>8, <3>9 DEF LateWaits
  <2> QED
    BY <2>7, <2>8 DEF LateWaits
<1>6. CASE Skips
  <2>1. CASE p.t \in Aside
    BY <1>1, <1>6, <2>1, AsideLate DEF p
  <2>2. CASE p = Tardy
    <3>1. Task(t, p.t, p.x).s = t
      BY <1>4, <2>2 DEF Tardy, Job, Task, Transition, WaitState, Silent, Says
    <3> QED
      BY <1>1, <1>6, <3>1 DEF LateArrives, Steady, p
  <2> QED
    BY <1>6, <2>1, <2>2 DEF Chore
<1>7. CASE IsTold
  BY <1>1, <1>4, <1>7, ToldLate DEF p
<1>8. CASE IsHeard
  BY <1>1, <1>4, <1>8, HeardLate DEF p
<1>9. CASE IsExpired
  BY <1>1, <1>4, <1>9, ExpiredLate DEF p
<1> HIDE DEF Skips, IsTold, IsHeard, IsExpired
<1> QED
  BY <1>5, <1>6, <1>7, <1>8, <1>9 DEF p

LEMMA RunTaskLate == ASSUME MoneyInv, LatePlace, RunTask PROVE LatePlace'
<1> DEFINE s == [lcsc EXCEPT !.posts = Tail(@)]
           p == Head(lcsc.posts)
<1>1. /\ lcsc.posts # << >> /\ lcsc' = Task(s, p.t, p.x).s /\ reader' = reader
      /\ Took(lcsc, s) /\ s.odd = lcsc.odd /\ s.stopping = lcsc.stopping
  BY TaskTaken
<1>2. Sound(lcsc) /\ lcsc.frame \in Replies /\ lcsc.current.c # "none" /\ Len(reader.wire) \in Nat
  BY Kinds DEF Codes, MoneyInv, Reader
<1>3. ~lcsc.stopping /\ ~lcsc.odd /\ LateGoes(lcsc, reader)
  BY <1>1 DEF LatePlace, Closed, LateGoes
<1> HIDE DEF s
<1>4. LateArrives(s, Task(s, p.t, p.x).s, reader)
  BY <1>1, <1>2, <1>3, LateIdleRuns, LateSendsRuns, LateWaitsRuns DEF LateGoes
<1>5. LateArrives(s, lcsc', reader')
  BY <1>1, <1>4
<1> QED
  BY <1>1, <1>3, <1>5, LatePlaceArrives

LEMMA UnnoticedLate == ASSUME MoneyInv, LatePlace, Unnoticed PROVE LatePlace'
<1>1. CASE lcsc.stopping
  BY <1>1 DEF Unnoticed, LatePlace, LateGoes, Closed, Timed, Same, Alike
<1>2. CASE ~lcsc.stopping
  <2>1. Sound(lcsc) /\ LateGoes(lcsc, reader) /\ Harmless(lcsc, lcsc') /\ reader' = reader /\ ~lcsc.odd
    BY <1>2, Kinds DEF LatePlace, Closed, Unnoticed
  <2>2. LateArrives(lcsc, lcsc', reader')
    BY <2>1, HarmlessLate DEF LateGoes
  <2> QED
    BY <1>2, <2>1, <2>2, LatePlaceArrives
<1> QED
  BY <1>1, <1>2

\* The end of a write is told, also one that comes after its time was over.
LEMMA WriteEndsLate == ASSUME MoneyInv, LatePlace, WriteEnds PROVE LatePlace'
<1>1. lcsc.out # "none" /\ lcsc' = Written(lcsc, "written") /\ Sound(lcsc)
  BY Kinds DEF WriteEnds, d
<1>2. /\ ~lcsc.stopping /\ ~lcsc.odd /\ lcsc.state = SendState(lcsc.current)
      /\ \/ Timed(lcsc, TRUE, FALSE, "busy") /\ Few(reader, 1) /\ All(lcsc.posts, Ignored)
         \/ Timed(lcsc, FALSE, FALSE, "busy") /\ Few(reader, 0) /\ Carries(lcsc.posts, Over, Ignored, {})
         \/ Timed(lcsc, FALSE, FALSE, "late") /\ Few(reader, 0) /\ All(lcsc.posts, Ignored)
  BY <1>1 DEF LatePlace, Closed, LateGoes, LateIdles, LateSends, LateWaits, Timed
<1>3. Len(reader.wire) \in Nat /\ Len(reader'.wire) = Len(reader.wire) + 1
  BY AnswerSent
<1> DEFINE x == IF lcsc.out = "late" THEN Tardy ELSE Wrote
<1>4. /\ Steady(lcsc, lcsc') /\ lcsc'.state = lcsc.state /\ lcsc'.current = lcsc.current
      /\ Timed(lcsc', FALSE, FALSE, "none") /\ x \in Tasks(Nat) /\ Tells(lcsc.posts, x, lcsc'.posts)
  <2>1. "written" \in Words /\ lcsc.answerTimer = FALSE
    BY <1>2 DEF Words, Timed
  <2>2. x = IF lcsc.out = "late" THEN Tardy ELSE Job("event", "written")
    BY DEF Wrote
  <2> HIDE DEF x
  <2> QED
    BY <1>1, <2>1, <2>2, WrittenTells
<1>5. /\ \A C, D : All(lcsc.posts, C) => Carries(lcsc'.posts, x, C, D)
      /\ \A y, C, D : Carries(lcsc.posts, y, C, D) => CarriesBoth(lcsc'.posts, y, x, C, D)
  BY <1>1, <1>4, Telling DEF Steady, Sound
<1>6. SUFFICES LateSends(lcsc', reader')
  BY <1>2, <1>4, LatePlaceArrives DEF LateArrives
<1>7. CASE Timed(lcsc, TRUE, FALSE, "busy") /\ Few(reader, 1) /\ All(lcsc.posts, Ignored)
  <2>1. x = Wrote /\ Few(reader', 2)
    BY <1>3, <1>7 DEF Timed, Few
  <2> QED
    BY <1>2, <1>4, <1>5, <1>7, <2>1 DEF LateSends
<1>8. CASE Timed(lcsc, FALSE, FALSE, "busy") /\ Few(reader, 0) /\ Carries(lcsc.posts, Over, Ignored, {})
  <2>1. x = Wrote /\ Few(reader', 1)
    BY <1>3, <1>8 DEF Timed, Few
  <2> QED
    BY <1>2, <1>4, <1>5, <1>8, <2>1 DEF LateSends
<1>9. CASE Timed(lcsc, FALSE, FALSE, "late") /\ Few(reader, 0) /\ All(lcsc.posts, Ignored)
  <2>1. x = Tardy /\ Few(reader', 1) /\ Tardy \in Fails
    BY <1>3, <1>9 DEF Timed, Few, Fails
  <2> QED
    BY <1>2, <1>4, <1>5, <1>9, <2>1 DEF LateSends
<1> QED
  BY <1>2, <1>7, <1>8, <1>9

\* A frame is complete: the answer to this command, or to one before it.
LEMMA FrameArrivesLate == ASSUME MoneyInv, LatePlace, NEW garbled, FrameArrives(garbled) PROVE LatePlace'
<1>1. /\ ~lcsc.stopping /\ reader.wire # << >> /\ reader' = [reader EXCEPT !.wire = Tail(@)]
      /\ Steady(lcsc, lcsc') /\ lcsc'.state = lcsc.state /\ lcsc'.current = lcsc.current
      /\ Timed(lcsc', lcsc.writeTimer, lcsc.answerTimer, lcsc.out) /\ lcsc'.queue = lcsc.queue
      /\ lcsc.posts \in Queues /\ lcsc'.posts = Append(lcsc.posts, Heard) /\ Heard \in Tasks(Nat)
  BY FrameTells
<1>2. Len(reader.wire) \in Nat \ {0} /\ Len(reader'.wire) = Len(reader.wire) - 1
  BY <1>1, AnswerGone
<1>3. /\ Few(reader, 2) => Few(reader', 1)
      /\ Few(reader, 1) => Few(reader', 0) /\ Few(reader', 1)
      /\ ~Few(reader, 0)
  BY <1>2 DEF Few
<1>4. Tells(lcsc.posts, Heard, lcsc'.posts) /\ lcsc'.posts \in Queues
  BY <1>1, Appending
<1>5. /\ \A C, D : All(lcsc.posts, C) => Carries(lcsc'.posts, Heard, C, D)
      /\ \A y, C, D : Carries(lcsc.posts, y, C, D) => CarriesBoth(lcsc'.posts, y, Heard, C, D)
      /\ \A y, C, D : Carries(lcsc.posts, y, C, D) /\ Heard \in D => Carries(lcsc'.posts, y, C, D)
  BY <1>1, <1>4, Telling
<1>6. \A C : All(lcsc.posts, C) /\ Heard \in C => All(lcsc'.posts, C)
  <2>1. \A C : Heard \in C => Grows(lcsc.posts, lcsc'.posts, C)
    BY <1>1, Growing DEF Chore
  <2> QED
    BY <1>1, <1>4, <2>1, GrowsAll
<1>7. \A w, a, o : Timed(lcsc, w, a, o) => Timed(lcsc', w, a, o)
  BY <1>1 DEF Timed
<1>8. Heard \in Dead /\ Heard \in Ignored
  BY DEF Dead, Ignored
<1>9. ~lcsc.odd /\ LateGoes(lcsc, reader)
  BY <1>1 DEF LatePlace, Closed
<1>10. SUFFICES LateIdles(lcsc', reader') \/ LateSends(lcsc', reader') \/ LateWaits(lcsc', reader')
  BY <1>1, <1>9, LatePlaceArrives DEF LateArrives
<1>11. CASE LateIdles(lcsc, reader)
  <2> DEFINE B == CalledFor(lcsc.queue) \cup Dead
  <2>1. All(lcsc'.posts, B) \/ Carries(lcsc'.posts, Refused, {}, B)
    BY <1>5, <1>6, <1>8, <1>11 DEF LateIdles
  <2> QED
    BY <1>1, <1>3, <1>7, <1>11, <2>1 DEF LateIdles
<1>12. CASE LateSends(lcsc, reader)
  <2>1. lcsc'.state = SendState(lcsc'.current)
    BY <1>1, <1>12 DEF LateSends
  <2>2. CASE Timed(lcsc, TRUE, FALSE, "busy") /\ Few(reader, 1) /\ All(lcsc.posts, Ignored)
    BY <1>3, <1>6, <1>7, <1>8, <2>1, <2>2 DEF LateSends
  <2>3. CASE Timed(lcsc, TRUE, FALSE, "none") /\ Few(reader, 1) /\ All(lcsc.posts, Ignored)
    BY <1>3, <1>6, <1>7, <1>8, <2>1, <2>3 DEF LateSends
  <2>4. CASE Timed(lcsc, FALSE, FALSE, "none") /\ Few(reader, 1) /\ \E x \in Fails : Carries(lcsc.posts, x, Ignored, Dead)
    BY <1>3, <1>5, <1>7, <1>8, <2>1, <2>4 DEF LateSends
  <2>5. CASE Timed(lcsc, FALSE, FALSE, "none") /\ Few(reader, 2) /\ Carries(lcsc.posts, Wrote, Ignored, {Tardy})
    BY <1>3, <1>5, <1>7, <2>1, <2>5 DEF LateSends
  <2>6. CASE Timed(lcsc, FALSE, FALSE, "none") /\ Few(reader, 1) /\ CarriesBoth(lcsc.posts, Wrote, Heard, Ignored, {Tardy})
    <3>1. Carries(lcsc.posts, Wrote, Ignored, {Tardy, Heard})
      BY <2>6, BothCarries
    <3> QED
      BY <1>3, <1>5, <1>7, <2>1, <2>6, <3>1 DEF LateSends
  <2>7. CASE Timed(lcsc, FALSE, FALSE, "none") /\ Few(reader, 1) /\ CarriesBoth(lcsc.posts, Over, Wrote, Ignored, {})
    <3>1. CarriesBoth(lcsc.posts, Over, Wrote, Ignored, {Heard})
      BY <2>7, Widening
    <3>2. Grows(lcsc.posts, lcsc'.posts, {Heard})
      BY <1>1, Growing DEF Chore
    <3>3. CarriesBoth(lcsc'.posts, Over, Wrote, Ignored, {Heard})
      BY <1>1, <1>4, <3>1, <3>2, GrowsCarriesBoth
    <3> QED
      BY <1>3, <1>7, <2>1, <2>7, <3>3 DEF LateSends
  <2> QED
    BY <1>3, <1>12, <2>2, <2>3, <2>4, <2>5, <2>6, <2>7 DEF LateSends
<1>13. CASE LateWaits(lcsc, reader)
  <2>1. lcsc'.state = WaitState(lcsc'.current) /\ lcsc'.state = lcsc.state
    BY <1>1, <1>13 DEF LateWaits
  <2>2. CASE Timed(lcsc, FALSE, TRUE, "none") /\ Few(reader, 2) /\ All(lcsc.posts, {Tardy})
    BY <1>3, <1>5, <1>7, <2>1, <2>2 DEF LateWaits
  <2>3. CASE Timed(lcsc, FALSE, TRUE, "none") /\ Few(reader, 1) /\ Carries(lcsc.posts, Heard, {Tardy}, {Tardy})
    <3>1. All(lcsc.posts, {Tardy, Heard})
      <4>1. PICK k \in DOMAIN lcsc.posts : /\ lcsc.posts[k] = Heard
                                           /\ \A i \in DOMAIN lcsc.posts : i # k => Chore(lcsc.posts[i], {Tardy})
        <5>1. DOMAIN lcsc.posts \subseteq Nat
          BY <1>1, QueueParts
        <5> QED
          BY <2>3, <5>1 DEF Carries
      <4> QED
        BY <4>1 DEF All, Chore
    <3>2. All(lcsc'.posts, {Tardy, Heard})
      BY <1>6, <3>1
    <3> QED
      BY <1>3, <1>7, <2>1, <2>3, <3>2 DEF LateWaits
  <2>4. CASE Timed(lcsc, FALSE, FALSE, "none") /\ Few(reader, 1) /\ \E x \in Told(lcsc.state) : Carries(lcsc.posts, x, {Tardy}, Dead)
    BY <1>3, <1>5, <1>7, <1>8, <2>1, <2>4 DEF LateWaits
  <2>5. CASE Timed(lcsc, FALSE, FALSE, "none") /\ Few(reader, 1) /\ Carries(lcsc.posts, Expired, {Tardy}, {})
    BY <1>3, <1>5, <1>7, <2>1, <2>5 DEF LateWaits
  <2> QED
    BY <1>3, <1>13, <2>2, <2>3, <2>4, <2>5 DEF LateWaits
<1> QED
  BY <1>9, <1>11, <1>12, <1>13 DEF LateGoes

\* The timer of an answer expires in time.
LEMMA AnswerTimerLate ==
  ASSUME MoneyInv, LatePlace, AnswerTimer, faults \in Int, faults' = faults
  PROVE  LatePlace'
<1>1. /\ lcsc.answerTimer /\ reader.wire = << >> /\ \A i \in DOMAIN lcsc.posts : lcsc.posts[i] # Heard
      /\ \A C, D : ~Carries(lcsc.posts, Heard, C, D)
  BY NotHeard
<1>2. All(lcsc.posts, {Tardy, Heard}) => All(lcsc.posts, {Tardy})
  BY <1>1 DEF All, Chore
<1>3. /\ ~lcsc.stopping /\ ~lcsc.odd /\ lcsc.state = WaitState(lcsc.current)
      /\ Timed(lcsc, FALSE, TRUE, "none") /\ All(lcsc.posts, {Tardy})
  BY <1>1, <1>2 DEF LatePlace, Closed, LateGoes, LateIdles, LateSends, LateWaits, Timed
<1>4. /\ reader' = reader /\ Steady(lcsc, lcsc') /\ lcsc'.state = lcsc.state /\ lcsc'.current = lcsc.current
      /\ Timed(lcsc', lcsc.writeTimer, FALSE, lcsc.out)
      /\ lcsc.posts \in Queues /\ lcsc'.posts = Append(lcsc.posts, Expired)
  BY TimerTells
<1>5. Carries(lcsc'.posts, Expired, {Tardy}, {})
  BY <1>3, <1>4, TokenComes
<1>6. LateWaits(lcsc', reader')
  BY <1>1, <1>3, <1>4, <1>5 DEF LateWaits, Timed, Few
<1> QED
  BY <1>3, <1>4, <1>6, LatePlaceArrives DEF LateArrives

\* And that of a write that was never begun.
LEMMA WriteTimerLate ==
  ASSUME MoneyInv, LatePlace, WriteTimer, faults \in Int, faults' = faults
  PROVE  LatePlace'
<1>1. lcsc.writeTimer /\ lcsc.out = "none" /\ Over # Expired
  BY DEF WriteTimer, Fault, d, Over, Expired, Job
<1>2. /\ ~lcsc.stopping /\ ~lcsc.odd /\ lcsc.state = SendState(lcsc.current)
      /\ Timed(lcsc, TRUE, FALSE, "none") /\ Few(reader, 1) /\ All(lcsc.posts, Ignored)
  BY <1>1 DEF LatePlace, Closed, LateGoes, LateIdles, LateSends, LateWaits, Timed
<1>3. /\ reader' = reader /\ Steady(lcsc, lcsc') /\ lcsc'.state = lcsc.state /\ lcsc'.current = lcsc.current
      /\ Timed(lcsc', FALSE, lcsc.answerTimer, lcsc.out)
      /\ lcsc.posts \in Queues /\ lcsc'.posts = Append(lcsc.posts, Over)
  BY <1>1, TimerTells
<1>4. Carries(lcsc'.posts, Over, Ignored, Dead)
  BY <1>2, <1>3, TokenComes
<1>5. LateSends(lcsc', reader')
  BY <1>2, <1>3, <1>4 DEF LateSends, Timed, Few, Fails
<1> QED
  BY <1>2, <1>3, <1>5, LatePlaceArrives DEF LateArrives

LEMMA NextLate ==
  ASSUME MoneyInv, Bounded, LatePlace, [Next]_vars, faults' = faults
  PROVE  LatePlace'
<1>1. faults \in Int
  BY LcscAssumption DEF Bounded
<1>2. CASE RunTask \/ WriteEnds
  BY <1>2, RunTaskLate, WriteEndsLate
<1>3. CASE WriteFails \/ AnswerLost
  BY <1>1, <1>3 DEF WriteFails, AnswerLost, Fault
<1>4. CASE AnswerTimer \/ WriteTimer
  BY <1>1, <1>4, AnswerTimerLate, WriteTimerLate
<1>5. CASE \E garbled \in BOOLEAN : FrameArrives(garbled)
  BY <1>5, FrameArrivesLate
<1>6. CASE \E j \in Jobs, ok \in BOOLEAN : JobEnds(j, ok)
  BY <1>6, JobEndsUnnoticed, UnnoticedLate
<1>7. CASE FnSendGetCardIDCmd \/ FnLCSCReaderStopRead \/ FnSendCardDeduct \/ FnSendGetStatusCmd \/ FnUploadLCSCCDFiles
  BY <1>7, CallsUnnoticed, UnnoticedLate
<1>8. CASE HandleEvent \/ UNCHANGED vars
  BY <1>8, HandleEventUnnoticed, VarsUnnoticed, UnnoticedLate
<1>9. CASE FnLCSCReaderClose
  BY <1>9, ClosePlace DEF LatePlace
<1> QED
  BY <1>2, <1>3, <1>4, <1>5, <1>6, <1>7, <1>8, <1>9 DEF Next

\* Each step goes wrong in one way at most.
LEMMA OneFault == [Next]_vars => faults' = faults \/ faults' = faults + 1
BY DEF Next, vars, RunTask, WriteEnds, WriteFails, AnswerLost, AnswerTimer, WriteTimer, FrameArrives, JobEnds,
   FnSendGetCardIDCmd, FnLCSCReaderStopRead, FnSendCardDeduct, FnSendGetStatusCmd, FnUploadLCSCCDFiles,
   FnLCSCReaderClose, HandleEvent, Call, Fault

LEMMA NextOnePlace == MoneyInv /\ MoneyInv' /\ Bounded /\ OnePlace /\ [Next]_vars => OnePlace'
<1> SUFFICES ASSUME MoneyInv, MoneyInv', Bounded, OnePlace, [Next]_vars PROVE OnePlace'
  OBVIOUS
<1>1. faults \in Nat /\ (faults' = faults \/ faults' = faults + 1)
  BY OneFault, LcscAssumption DEF Bounded
<1>2. CASE faults = 0
  <2>1. Place
    BY <1>2 DEF OnePlace
  <2>2. CASE Late
    <3>1. LatePlace'
      BY <2>1, <2>2, AnswerTimerComesLate, WriteTimerComesLate DEF Late
    <3>2. faults' # faults
      BY <2>2 DEF Late
    <3> QED
      BY <1>1, <1>2, <3>1, <3>2 DEF OnePlace
  <2>3. CASE ~Late
    <3>1. Place'
      BY <2>1, <2>3, NextPlace
    <3>2. (MoneyInv /\ Place => LatePlace)'
      BY PlaceLates, PTL
    <3> QED
      BY <3>1, <3>2 DEF OnePlace
  <2> QED
    BY <2>2, <2>3
<1>3. CASE faults = 1
  <2>1. LatePlace
    BY <1>3 DEF OnePlace
  <2>2. CASE faults' = faults
    <3>1. LatePlace'
      BY <2>1, <2>2, NextLate
    <3> QED
      BY <1>3, <2>2, <3>1 DEF OnePlace
  <2> QED
    BY <1>1, <1>3, <2>2 DEF OnePlace
<1>4. CASE faults > 1
  BY <1>1, <1>4 DEF OnePlace
<1> QED
  BY <1>1, <1>2, <1>3, <1>4

LEMMA OnePlaceHolds == Spec => []OnePlace
<1>1. Init => OnePlace
  BY PlaceInit DEF OnePlace, Init
<1> QED
  BY <1>1, NextOnePlace, MoneyHolds, BoundedHolds, PTL DEF Spec

\* As long as one thing at most went wrong, of whatever kind, lcsc.cpp never runs the timer of a write and that of
\* an answer at once, for all calls and all orders of them: also when the time for a write or an answer was over while
\* it was under way, so that the answer, or the events of that command, meet the command after it.
THEOREM TimersAlternate == Spec => [](faults <= 1 => OneTimer)
<1>1. Place \/ LatePlace => OneTimer
  BY DEF Place, LatePlace, Closed, Goes, Idles, Sends, Waits, LateGoes, LateIdles, LateSends, LateWaits, Timed,
     OneTimer, d
<1>2. Bounded /\ OnePlace => (faults <= 1 => OneTimer)
  BY <1>1, LcscAssumption DEF OnePlace, Bounded
<1> QED
  BY <1>2, OnePlaceHolds, BoundedHolds, PTL

\* Likewise COMMAND_ENQUEUED and CHUNK_COMMAND_ENQUEUED always meet the kind of command they were posted for, whatever
\* is put in front of the queue (enqueueCommandToFront) in between.
THEOREM TakenIsQueued == Spec => [](faults <= 1 => TakenAsQueued)
<1>1. Place \/ LatePlace => TakenAsQueued
  BY DEF Place, LatePlace, TakenAsQueued, d
<1>2. Bounded /\ OnePlace => (faults <= 1 => TakenAsQueued)
  BY <1>1, LcscAssumption DEF OnePlace, Bounded
<1> QED
  BY <1>2, OnePlaceHolds, BoundedHolds, PTL
==============================================================================
