# LinuxPBS: a TLA+ verification project

LinuxPBS is the controller of one car-park station: an entry or an exit lane. It is a C++17 program of
about 64 000 lines without tests or design documents, so everything below is read from the source.

## 1. The system

### How it is put together

Every device driver owns a thread with a Boost.Asio `io_context` (or a coroutine on one) and talks to
its device over a serial line or a socket. A driver reports by `EventManager::FnEnqueueEvent`: one
thread, `EVT_MANAGER`, takes the events in order and hands each to `EventHandler`, whose route table
calls `operation::FnOnEvent`, which posts it to the thread `OP_IO`. `OP_IO` alone reads and writes the
state of the visit (`tEntry`, `tExit`, `tProcess`), with one exception: the DIO thread sets and clears
`gbLoopApresent`, the loop A flag, before it enqueues the loop event. UDP messages of the
car-park management system (PMS) and of the monitor are posted to `OP_IO` too. The database singleton
is called synchronously from `OP_IO`; it writes to the central server and falls back on a local one.

| Component | State it keeps | Operations | Hard behaviour | What makes it correct |
|---|---|---|---|---|
| Exit lane (`operation.cpp`) | `tExit`, `tProcess`, loop A timer, outstanding commands | loops, barrier, OBU and reader answers, debits, `SaveExit` | four devices answer the same visit in any order; late, lost and repeated answers; the flag read ahead of its event; a watchdog | one debit at a time, rows that say what happened, nobody is left at a closed barrier |
| Entry lane (`operation.cpp`) | `tEntry`, `tProcess` | `VehicleCome`, `PBSEntry`, `SaveEntry`, barrier, full car park | tailgating, five ways to a number that interrupt one another | who is let in is recorded, once per visit |
| UPOS terminal driver (`upt.cpp`) | command queue, state machine, timers, write queue, sequence number | enqueue, send, ack, response, cancel, close | cancels against completions, time-outs against answers, wrap-around | no lost wake-up, no endless wait, answers matched |
| LCSC driver (`lcsc.cpp`) | command queue, two state machines, timers, receive buffer, settlement upload | card polling, debit, record, flush, status, upload, close | priorities that put commands before others, chunked commands, upload interleaved with debits, late answers | no transaction is forgotten before it is settled, one balance per request, commands and uploads end |
| EEP client (`eep_client.cpp`) | connection, queue, sequence numbers, seven timers, missed health replies | requests, acknowledgements, notifications, health check, reconnect | reconnect during a deduction, acknowledgements out of order, late connections | every request answered or failed, an answer for its own request, no state without an end |
| Event pipeline (`event_manager`, `event_handler`) | FIFO, route table | enqueue, dispatch, post, stop | start and stop races | order kept, none lost before the stop |
| Database (`db.cpp`, `odbc.cpp`) | two connections, error flag, local rows | insert with fallback, update, `moveOfflineTransToCentral` | loss of the server in the middle, crash between insert and delete | every row reaches the centre, none twice |
| Tariff and seasons (`db.cpp`, `ce_time`) | tables | `CalFeeRAM`, season checks | boundaries of time bands | equals a reference definition |
| Antenna (`antenna.cpp`) | a request flag, two coroutines on one port | start-up, read until certain, stop, shut down | the flag is changed by another thread than the loop that looks at it | a request has a loop, a stopped loop ends |
| KSM card reader (`ksm_reader.cpp`) | queue, polling flag, what is in the reader | poll, read the card in a chain of commands, eject | answers carry no number, polling enqueues itself | polling goes on, a card comes out again |
| Parameter tables (`db.cpp`) | local tables, copies in memory, marks at the centre | ten downloads and loads | edits during a download, failures half-way, marks set too early | the station decides by what the centre has |
| Settlement files (`eep_client.cpp`, `lcsc.cpp`, `main.cpp`, `mount.cpp`) | files by hour or second, mounts and leases, the last day backed up | write a record, ship at once, daily backup | two pools and a backup on the same files, failing mounts, a crash between copy and removal | no record is lost, a day that is done left nothing |
| Printer, LPR, CHU, barcode, displays | one connection each | print, match, read | reconnects | no endless wait |
| DIO/GPIO (`dio.cpp`) | debounced inputs | edge detection | flag before event | every edge reported |
| Shutdown (`shutdown_manager`, `main.cpp`) | flag, condition variable | notify, wait, close in order | notification without the mutex | the wait ends |

`PROJECT.json` lists every component with its status, and every hazard with the line where it bites
and the properties that cover it.

### The modules

The most important behaviour was modelled first: money, then what the money and the barrier depend on.

| Module | What it models | Composition |
|---|---|---|
| `UptDriver` | the UPOS terminal driver | |
| `ExitStation` | the exit lane with units, readers and people | takes the drivers' answers as its environment |
| `OfflineSync`, `Records` | the two databases under outages, faults, crashes | implements `Records`: a stored transaction stays stored |
| `LcscDriver`, `Settlement` | the contactless reader's driver | implements `Settlement`: flushed only when settled |
| `EepClient` | the on-board unit controller's client | |
| `Antenna`, `KsmReader`, `ParamDownload`, `EntryStation`, `SettlementFiles` | five smaller parts | composed by `Lane` |
| `...Proofs` | theorems about the module they are named for | `LaneProofs` proves what is said of the antenna, the card reader and the parameters, and rests on `EntryStationProofs` and `SettlementFilesProofs` for the rest |

Every module with posted events takes its queue to be a FIFO. That is what the strands of Asio and the single
thread of `EVT_MANAGER` make of it as long as the program runs.

What is left of the plan: `EventPipeline` and `Shutdown` (starting and stopping `EVT_MANAGER` and `OP_IO`; the
lost notification of `shutdown_manager.cpp` is a listed hazard); `FeeCalc` (the tariff as a function, against
a reference definition); a composition of `ExitStation` with the drivers it takes as its environment, which
is beyond TLC as both stand; and for `ExitStation` a property that ties a commanded debit to a judged visit, which is
false as the code stands (see the hazards at `operation.cpp:8575`).

## 2. `UptDriver`: the UPOS terminal driver (`src/upt.cpp`)

The thread `UPOS_IO` runs the handlers of an `io_context` one after the other. The variable `ready` is
the queue of that context: posted events (`processEvent`), posted commands
(`enqueueCommandOnIoThread`), completions of reads and writes, and timer handlers. One action is one
handler run to its end, with every call it makes; the others are what happens outside the thread:

| Model | Code |
|---|---|
| `phase` | `stopping_` and the join in `FnUptClose` |
| `state`, `commandQueue`, `current` | `currentState_`, `commandQueue_`, `currentCmd_` with `sequenceNo_` |
| `writeQueue`, `writeInProgress`, `writeDelayActive`, `writeTimedOut` | the members of those names |
| `writing`, `terminal` | the `async_write` under way; what the terminal has received |
| `timers` | write, inter-frame gap, acknowledgement and response timers that are armed |
| `FnUptSend`, `FnUptSendCancel`, `FnUptClose` | calls from other threads |
| `SendNextCommand`, `AckReceived`, `ResponseReceived`, `ReplyTimeout`, `CancelWhenBusy`, `CancelCleanUp`, `IgnoreEvent`, ... | the handlers of the state transition table |
| `RunWriteEnd`, `RunWriteTimer`, `RunGapTimer`, `RunReadEnd`, `RunReplyTimer` | Asio handlers |
| `WriteDone`, `WriteError`, `TimerExpires`, `TerminalAcks`, `TerminalResponds` | port, clock, terminal (external) |

`failures` and `answers` are history of the current command, which begins again with each command and with a close. Contents of frames, CRC, byte framing and the fields of the
answers are abstracted to the command, the sequence number and the status the protocol branches on.
A cancelled timer whose handler was already queued still runs its handler, as in Asio.

Two aspects of the terminal are external assumptions: it answers only frames it received, and each
with the frame's own number. It may stay silent for ever, acknowledge without responding, answer late,
and ask for a logon or a reset of the numbers.

### Runs

* **`upt_commands`** (`UptCommands.cfg`): two requests after the start-up commands, no cancel, one fault, a close.
  `TypeOK`; `FailedOnce`: a command is reported failed at most once, although three time-outs and the
  answer race; `AnswersMatch`: a response is reported for the command it answers; `FrameIsCurrent`: the
  frame on the wire is the current command's. `SeqMax = 50` keeps wrap-around out: with it and
  `RESET_SEQ` the number alone no longer tells an old answer from a new one (a listed hazard).
* **`upt_cancel`** (`UptCancel.cfg`): one request, a cancel at any moment, a close, a fault, a terminal that asks
  for a reset, and `SeqMax = 4` so that numbers wrap. `WakeUpPending`, `WaitsEnd`, `SendEnds`, and the liveness
  property `QueueDrains`.
* **`upt_cancel_in_flight`** (`UptCancelInFlight.cfg`, a violation): with a cancel, `FrameIsCurrent` fails. `startWrite`
  logs the current command and transmits the front of the write queue; a cancel while the `async_write` of a frame
  is under way leaves that frame there, and its completion is ignored, so that the next command sends
  the cancelled frame, and every later one the frame before its own.

The bounds are small because the interesting cases are: one cancel against each point of one
command's life, a second command to be confused with the first, and a wrap. `MaxBacklog` limits only
what may be posted while handlers wait; a handler may always post.

Fairness: the context runs what is ready (`WF(RunHandler \/ Joined)`) and timers expire. Nothing is
assumed of the port or the terminal. Deadlock is not checked: with its calls used up and nothing to answer, a
driver that is idle or closed rightly has nothing to do.

## 3. `ExitStation`: the exit lane (`src/operation.cpp`)

The record `lane` is what `OP_IO` owns; `queue` is what is posted to it; the operators named after
functions take a lane and return the lane (or the set of lanes) the call leaves behind, so one
`RunHandler` step is a whole handler with every call in it. `car` is the vehicle on loop A and so
`gbLoopApresent`; it changes *before* the loop event is handled, as in the code.

| Model | Code |
|---|---|
| `lane.iu`, `card`, `fee`, `paid`, `status`, `gbPaid`, `serial`, ... | the fields of `tExit` |
| `lane.reader`, `opened`, `inq`, `tailgate`, `upos`, `lastPaid`, `lastCard`, `lastBal`, ... | the fields of `tProcess` |
| `lane.timer`, `overdue` | `pLoopATimer_`; the time since `setLastActionTimeAfterLoopA` |
| `lane.asked`, `debits`, `wanted` | commands given to EEP driver, LCSC and UPOS and not answered |
| `lane.ledger` | rows of `Exit_Trans` |
| `LoopACome`, `LoopAGone`, `LoopCGone`, `TimerTick`, `BarrierUp` | loop, timer and barrier handlers |
| `ObuAnswered`, `ObuUnasked`, `NoObu`, `processEEPTransData`, `DeductTimeout` | EEP handlers |
| `CardRead`, `CardFlushed`, `RetryLCSCLastCommand`, `CardDetected`, `Paid`, ... | `ProcessLCSC`, `processUPT` |
| `CheckIUorCardStatus`, `PBSExit`, `EEPDebit`, `debitfromReader`, `CloseExitOperation`, `SaveExit` | the functions of those names |
| `CarComes`, ..., `ObuDebits`, `ObuLosesTouch`, `LCSCDebits`, `UPOSDebitFails`, ... | vehicles, units, cards, devices (external) |

`purse`, `taken` and `reported` are what the world knows: the money on the cards, the debits that took
money, and those the station was told of by a unit. A debit may take money and the answer be lost, be late, or
come after its time-out; the serial numbers of `deductAck` may come before or after.

Assumptions: an exit station with on-board units (`giEPS = 3`), LCSC and UPOS; no KDE readers,
tickets, bar codes, plates, EZPay, AXS, rebates or redemption. A fee is 0 or 1 dollar; what the tariff
and the season tables say is any member of `Verdicts`. One of the two databases takes each row (what happens when
neither or only one does is the subject of `OfflineSync`). `gbLoopApresent` is read once per handler. Opening by hand and by the
PMS is one event. A result of 8 for a deduction is treated like 1 and 2. A serial number does not wrap at 2^16.

### Runs

* **`exit_payments`** (`ExitPayments.cfg`): one visit, a unit with a card, reported unasked too, another card at
  either reader, four answers in any order. `TypeOK`; `ObuPaidRowsAreReal`: a row that books a unit's
  payment carries the unit and serial of a debit that unit reported; `NoSecondDebit`: no debit is
  commanded for a paid visit or while one is under way. About 7 million states.
* **`exit_watch`** (`ExitWatch.cfg`): two visits, so that a tick, a report or a loop event of the first meets the
  second; a chargeable card and a master card. `WatchdogArmed`: a vehicle at a closed barrier has the periodic
  timer running, or its tick or its arrival queued; `StuckDeductionEnds`: a deduction that nobody answers is
  given up. `Unasked = FALSE`: once the unit of a vehicle behind was heard, `EndEEPprocess` starts that
  visit without the timer that `Openbarrier` has just stopped, and `WatchdogArmed` fails (a listed hazard).
* **`exit_unbooked`** (`ExitUnbooked.cfg`, a violation): the vehicle leaves loop A before the report of its deduction
  is handled; `processEEPTransData` then updates a row that was never written and logs
  "Update Successful deduction trans", and the money is in no row.
* **`exit_balance`** (`ExitBalance.cfg`, a violation): the unit's balance is kept in cents and a reader's in dollars, in
  the same variable; the comparison that recognises an unreported debit takes the difference of units for
  a payment and opens the barrier for a card nothing was charged to.

Bounds: `MaxAnswers` counts what devices and persons do, `MaxBacklog` the events waiting when another is
posted, `MaxVisits` the arrivals. Four answers are an inquiry, a debit, its time-out or loss, and one
more device's answer, the shortest conflict of two devices over one visit; two visits are what a stale
event needs. `MaxPurse = 2` lets a card pay twice. The proofs below hold for all bounds.

Fairness: `OP_IO` serves its queue, the loop A timer expires, `giOperationTO` passes. Nothing is
assumed of vehicles, units, cards and readers, so `StuckDeductionEnds` rests on the watchdog alone. Deadlock
is not checked: an empty lane with its arrivals used up has nothing to do.

## 4. `OfflineSync` and `Records`: the two databases (`src/db.cpp`, `src/odbc.cpp`)

All calls run on `OP_IO`, but the server may vanish and the program may end between two SQL statements, so each
statement is a step: `op` holds the next one and the row it is about.

| Model | Code |
|---|---|
| `central`, `open`, `moved` | the central `..._Trans_tmp` and `movement_trans_tmp` |
| `local`, `offline`, `online` | the local table, `glNoofOfflineData`, `giSystemOnline` |
| `gbLoopApresent`, `LoopAChanges` | the loop A flag, set by the DIO thread (`dio.cpp`) |
| `Save`, `CentralInsert`, `Fallback`, `UpdateMovement`, `InsertMovement` | `SaveEntry`, `SaveExit`, `insertentrytrans`, `insertexittrans`, `updatemovementtrans`, `insert2movementtrans` |
| `DailyProcess`, `Select`, `Put`, `DeleteBeforeInsertMT`, `CloseMovement`, `DeleteLocalTrans`, `HouseKeeping` | `handleDailyProcessTimer`, `moveOfflineTransToCentral` and the statements under it, `HouseKeeping` |
| `LinkBreaks`, `LinkReturns`, `RowGrowsOld`, `Crash`, `Restart` | the network, the clock, the process (external) |

An `Answer` says whether the caller was told of success and whether the statement took effect: a connection that
breaks after the server committed makes the two differ. `told`, `disturbed` and `expired` are history.

The timer of the daily process looks for the server, uploads and cleans up only while nothing is on loop A
(`operation.cpp:2270`), so `DailyProcess` has that guard: a vehicle, or a sensor that hangs, stops all three for as long as
it stays. `Undated` are transactions without a time of payment. The local copy of such an exit has an empty one, which the upload
cannot convert (`db.cpp:6963`): the centre refuses the row each time (`Refusable`), and the next row is tried.

`Records` is what a user may expect: each transaction is new, kept, sent, refused or expired, and one that is kept only
becomes sent or expired. `Fate` is the refinement mapping.

Run **`offline_sync`**: `ToldMeansStored`: what was reported saved is in a database; `UndisturbedOnce`: a row
that neither a fault nor a crash met is in exactly one place, once; `StoredRowsAreKept`: `Records` is
implemented; `CountedRowsAreSent`: when the link stays up and loop A stays free, rows the counter knows of leave the local database, except
those the centre always refuses. Two transactions, the second without a time of payment, one outage, one fault and one crash, at any step: two rows are what a half-done upload needs, and
the proofs of the three safety properties hold for any number. A crash or an unanswered statement may double a row
at the centre (the insert took effect and is repeated, or the local row outlives its upload): `UndisturbedOnce` excepts
the rows they met. Fairness: `OP_IO` makes its statements, the timer of the daily process fires, a program that
ended is restarted; nothing is assumed of the network and of loop A but in the premise of `CountedRowsAreSent`. The premise
asks for a loop that stays free: the code promises no upload to a lane that happens to be occupied at each tick.

## 5. `LcscDriver` and `Settlement`: the card reader (`src/lcsc.cpp`)

The thread `LCSC_IO` runs the tasks posted to it; `lcsc` is its state, `reader` the device with the transaction it
keeps until it is flushed, `op` what `OP_IO` still calls and the events it has not handled.

| Model | Code |
|---|---|
| `state`, `current`, `queue`, `chunks` | the command state machine, `currentCmd`, `commandQueue_`, `chunkCommandQueue_` |
| `reading`, `frame`, `out`, the timers | `continueReadFlag_`, `rxBuffer_`, `writeInProgress_` and `writeTimedOut_`, the write and response timers |
| `upload`, `has`, `done`, `file`, `files`, `jobs` | the upload state machine and the jobs of its pool |
| `Transition`, `UploadTransition` | the two transition tables with their handlers |
| `Enqueue`, `EnqueueToFront`, `CheckCommandQueue` | the functions of those names |
| `Received`, `Response`, `ChunkResponse`, `Failed` | `handleReceivedCmd`, `handleCmdResponse`, `handleCmdErrorOrTimeout` |
| `WriteEnds`, `FrameArrives`, `AnswerLost`, `JobEnds`, ... | port, clock, pool (external) |

A frame that arrives overwrites the buffer before its event is handled, so a second frame is what both handlers see.
`Settlement` is the money side alone: a reader takes a transaction when it holds none, the driver settles
it, and only a settled one is flushed.

Run **`lcsc`** (`MCLcscDriver` names five plans of calls: polling and its stop, two deductions, an upload with a command or with
polling, a close with work under way), one fault: `TypeOK`; `OneTimer`: no write and
no answer are timed at once; `TakenAsQueued`: a command is not taken for one of another kind,
although commands are put before
it after its event was posted; `OneBalancePerRequest`; `FlushedIsSettled`: `Settlement` is implemented, also when the
answer to a deduction is lost; `CommandsAreServed` and `UploadEnds`. One fault per behaviour is a lost, late or
garbled answer, a failing or stuck write or a failing job; each meets each point of each plan. A single plan of
all calls is out of TLC's reach; the plans pair the calls that meet in the code.
Fairness: the thread and `OP_IO` serve what was posted, writes end, complete frames are read, timers expire, jobs end.

## 6. `EepClient`: the on-board units' controller (`src/eep_client.cpp`)

`eep` holds the socket, the state, the queue, the seven timers and the tasks of the thread; `unit` is the controller:
frames under way and the notifications it owes. `Idle`, `Connecting`, `Connected`, `Writing` and `Waiting` are the handlers of the
states, `SocketConnect`, `SocketSend` and `SocketClose` those of `tcp_client.cpp`. A frame that comes is matched by kind and by sequence
number, which is counted modulo 3 here, with at most two frames under way: the differences of numbers are what matters. A timer's handler may be
posted when what it guards arrives. Closing the socket raises `connectionGeneration_`, so that a write under way ends without a word
(`SocketClose`): what ends the writing state then is the event of the failure or the write's timer. Only a write that
fails itself reports that it did (`TransportFails`). A frame that is not valid is refused with a NAK, unless it is shorter than a
header (`FrameGarbled`).

* **`eep`**: the client's own commands, a request of the lane and a deduction; one lost, garbled or late frame,
  broken connection or racing timer. `TypeOK`; `Armed`: every state has on its way what ends it; `OnlyFaultsFail`:
  without a fault no request fails; `AnswersMatch`; `RequestsEnd`. `SlowConnect = FALSE`: a connection is made before the
  timer of its attempt expires.
* **`eep_late_connect`** (a violation): with `SlowConnect`, a connection made after its timer expired leaves a
  connected socket under a state machine that waits to reconnect, and `AppTcpClient::connectOnIoThread` returns at once
  from each later attempt because the socket is connected: `Reconnects` fails.

Fairness: the thread runs, writes end, complete frames are read, all timers but those that only repeat (health and
watchdog) expire, the controller takes the connection and sends the notifications it owes.

## 7. `Lane`: the smaller parts

Five modules share one run. They share no state: what `OP_IO` does between two of them is in the module of the
part it does it to, so a behaviour of `Lane` follows one, and the properties are checked for each.

| Part | Model and code | Properties |
|---|---|---|
| `Antenna` (`antenna.cpp`) | `at`: the `co_await` where the start-up and the loop are; `asked`: `continueReadFlag_`, changed by `OP_IO` at once, while its posts wait | `RequestIsServed`: a set flag has a loop or the start of one, and the port is never shared; `StoppedLoopEnds` |
| `KsmReader` (`ksm_reader.cpp`, `operation.cpp`) | the command under way, queue, `reading`, `presented`, the events `OP_IO` has not handled; an answer is taken for whichever command is under way | `PollingIsKept`: while a card is wanted a status command is on its way, unless a late answer or a taken card excuses it; `CardIsOrderedOut`, unless answers were mixed up |
| `ParamDownload` (`db.cpp`) | ten recipes of one machinery: what a download takes, when the local table is emptied, what the station decides by; each SQL statement a step | `EditsArrive`: after a download that nothing disturbed the station decides by the central rows, whatever failed before, except rows marked although they were not stored |
| `EntryStation` (`operation.cpp`) | the entry half: `VehicleCome`, `PBSEntry`, `SaveEntry`, `Openbarrier`, `EndEEPprocess` over what loops, units, cards, plates and the server post | `EntryIsRecorded`: the barrier opens for a recorded number only, a visit is recorded once but where the code means to record again (the operator, a car park that is full no more, an authorised vehicle) |
| `SettlementFiles` (`eep_client.cpp`, `lcsc.cpp`, `main.cpp`, `mount.cpp`) | each file operation of the workers and of the backup a step; leases of mounts; an hour is a day of `Instants` | `RecordsAreKept`: a written record is in its file or in the copy on the share; `DoneMeansMoved` |

Bounds: `MinOKtimes = 2` and `ReadLimit = 2` are the least that make counting matter; two rows with `BatchSize = 1`
make the season batch full; two edits, two faults and a restart reach a failure after a failure; five posts are a
vehicle, two ways to its number and its departure; payments come in pairs that meet in one file, in one share
or in one worker pool; with `Instants = 2`, `MaxTime = 2` is a day with its window for the backup and the window of the next.
In `EntryStation` a vehicle of type 9 is authorised: recorded and let in without the mark of an entry. The type of a card is that of the
loops, the type of a unit that of its prefix; but with on-board units (`giEPS = 3`) and the class a unit has told (`vcc`), `PBSEntry`
writes the type to the exit's record (`operation.cpp:3299`), so that the entry's own is the one an earlier judgement of the visit left
(`nine`). A unit found by its plate, before any answer, has no class and may be authorised.
Excepted from `RecordsAreKept` are names that raced: `eep_client.cpp` opens the file without the lock `lcsc.cpp` has, so two workers
may both truncate it (a listed hazard), and a file written after its day was backed up replaces the copy.
Fairness is asked of the antenna's and the card reader's threads only: they run what they can, and their time-outs pass.

## 8. What is proved

The proofs hold for every value of the constants under named assumptions, which TLC evaluates in the runs:
`UptAssumption`, `ExitAssumption`, `SyncAssumption`, `LcscAssumption`, `EepAssumption`, and in `Lane` `AntennaFits`,
`KsmAssumption`, `ParamAssumption`, `EntryAssumption` and `FilesFit`. They are type conditions and positive bounds; the antenna's says also
that one equal reading is never enough (`MinOKtimes > 1`), for the code compares before it counts. Two theorems have a
hypothesis of their own, on the constants: `SendsCurrent` and `AnswersAreCurrent`. `TimersAlternate` and `TakenIsQueued` say what holds
while one thing at most went wrong.

**`UptDriverProofs`**

* `TypeCorrect`: `Spec => []TypeOK`.
* `NoWakeUpLost` (`WakeUpPending`) and `NoWaitIsATrap` (`WaitsEnd`) share one inductive invariant, `NoTrap`, which
  adds what the two properties do not say themselves: in each state of the machine, which handler or
  timer is on its way. The lemmas about `Has` say what running the front handler and appending posts does
  to the queue; then there is one step per action.
* `NoSendIsATrap` (`SendEnds`), with the invariant `SendInv` on top. A write that ended is reported by an event in the queue,
  and what that event meets depends on what is queued before it, so that the invariant is about the order of the queue:
  the event of a write comes after every wake-up that finds no command (`Told`), the clean-up of a cancel after
  all wake-ups (`CleansLast`), and a gap that was aborted before them (`AbortsFirst`). A write in progress has its frame
  and is on the line, ended, or waits for its gap (`Underway`); a command that is sent has a write that is timed or has
  ended (`Sending`). Cancels, faults, repeated numbers and a reset are all allowed.

* `FailsOnce` (`FailedOnce` as long as `calls.cancel = 0`), `UncancelledSends` (the action of `FrameIsCurrent` as long as no cancel was
  asked for) and `SendsCurrent`, its consequence for `MaxCancels = 0`: until the first cancel commands go one by one. `OneByOne` says what that means for the write path and the queue. A write in progress is the
  current command's and is at exactly one place: it waits for its gap, is on the line, or has ended; once its end
  has been told nothing of it is left (`OnTheLine`). A wake-up never finds the driver idle without a command, and comes before the
  end of a write that is under way (`WakesInTime`), so that `SendNothing` is not reached and no second report can follow the first. The
  rest is about marks in the queue (`None`, `Once`, `Before`): `MovesMarks` says what running the front handler and posting do to them.
* `AnswersAreCurrent` (`AnswersMatch`), with cancels and a close, under `NumbersSuffice`: the terminal asks for no reset, and `SeqMax`
  exceeds the commands that can be asked for. `Numbered` gives each number its rank, the reset of the start first, and keeps a
  budget: the rank of the current number, the commands queued and the handlers that still bring one (`ToCome`) never
  exceed what was asked for (`Asked`), so that no number comes up twice and none wraps. Every frame carried by the
  driver or the terminal and every reply in the queue then belongs to a command already numbered (`Past`), and one with the
  current number to the current command.

`UptAssumption` also reserves the names that the driver's own commands, and no command, have in the model.

**`ExitStationProofs`**

A handler is a chain of calls from lane to lane, and the proofs follow the calls. `Quiet` is what commands to the
readers, inquiries and displays leave alone; `Calm` what a call that commands no debit keeps; `Closes` and
`Safe` what closing a visit and judging a vehicle do; the relations compose, so that a caller's lemma follows from
those of its callees. They end in `HandledHandles`: for every lane, event and outcome, `Handles(l, m, ev)`.

* `TypeCorrect`: `Spec => []TypeOK`; purses never go below zero, and `queue` holds only events with a handler.
* `ObuRowsAreReported` (`ObuPaidRowsAreReal`), inductive together with `TypeOK`.
* `OneDebitAtATime` (`NoSecondDebit`), an action property.
* `VehicleIsWatched` (`WatchdogArmed`, for `~Unasked`). The invariant `OnWatch` adds that no tailgater is in mind, that
  nothing unasked is queued, and that while a vehicle is on loop A each departure in the queue is followed
  by an arrival. Without the last part it is not inductive: `LoopAGone` stops the timer, and handled late it would
  stop the timer of the next vehicle.

**`OfflineSyncProofs`**, with the invariant `SyncInv`: types, what the counter and the stage of the statements mean (`Counted`,
`Staged`, `Begun`), and that what was told is stored (`Stored`).

* `TypeCorrect`; `SavedMeansStored` (`ToldMeansStored`).
* `KeepsThePromise` (`StoredRowsAreKept`): each statement is a step of `Records` for the one row it is about, or a stutter. `Staged` is
  what this needs: a row whose insert or fallback comes next is in neither database, one that is deleted next is at the
  centre, and those still to upload are local.
* `UndisturbedIsOnce` (`UndisturbedOnce`). That a row is somewhere once is not inductive, since between two statements it is nowhere or
  in both databases. `OnceInv` says of each transaction no fault has met where it lies at the stage of the statement at hand
  (`Once`); only the transaction a statement is about may be between two places.

**`LcscDriverProofs`**

* `FlushedStaysSettled` (`FlushedIsSettled`): `Settlement` is implemented. The invariant `MoneyInv` says of every place where
  a transaction's number travels what that number may be: a flush in the queue, in a task or under way is of a settled
  transaction (`Cmds`, `Tasks`), a deduction or a record in an answer is of a taken one (`Charged`), a record `OP_IO` was told of
  is settled (`Reports`), and the reader holds the last transaction and has flushed the ones before it (`Kept`). Every
  function of the driver then has one lemma: given such a driver it returns such a driver, with at most one more
  transaction settled (`Outcome`).
* `TypeCorrect`: `Spec => []TypeOK`, along the same calls.
* `BalanceOnce` (`OneBalancePerRequest`): a balance ends the reading of a card, and reading begins again only with a new
  request. What makes it inductive is `Holding`: while a card is read for a request, no balance has been reported for it.
* `TimersAlternate` (`OneTimer`) and `TakenIsQueued` (`TakenAsQueued`): both hold as long as `faults <= 1`, whatever the plan of calls, how
  many faults are allowed, and what the one fault is: a lost or garbled answer, a write or a job that fails, or a timer that expires
  while the write or the answer it guards is under way. Two invariants are about the command at work, the second about what a
  late timer leaves behind.
  * `Place`, until something goes wrong, and after a fault that is no late timer: the command is at exactly one place, with the timer
    that guards it and no other: being written, its end queued, its answer awaited, queued, or what became of it queued (`Sends`,
    `Waits`). While there is none, every call queued is for the command at the head (`Idles`). `Carries` says where in the
    queue the one task stands that the command depends on: calls only before it, chores on both sides. Each function that does other
    work is `Harmless`, each of those tasks leads to the next place (`Arrives`), and each action of the port and the clock to one of these.
  * `LatePlace`, after one fault: the command a late timer has ended may leave its answer on the line and its events in the queue. Of
    those, `Dead` may be met by any later command, which they may end early, but never start; the others (the expiry that
    the end of its write overtook, a write's time-out, a refused chunk) are met in the state they are ignored in, before another command is taken.
    `LateIdles`, `LateSends` and `LateWaits` list the places with what may stand before and behind the decisive task, and how many answers
    may be on the line. `Place` implies `LatePlace` (`PlaceLate`), a late timer leads from the first to the second, and every step without
    a further fault keeps the second (`NextLate`). `OnePlace` joins the two.

**`EepClientProofs`**

* `AlwaysArmed` (`Armed`). What ends a state is a timer, a task of the thread, a frame under way or the controller's own move, and
  a handler often leaves a state without any of these and lets the function it calls next provide it. The lemmas are
  therefore of two kinds: an operation `Covers`, that is, a state that had its end still has one, or a transition
  `Rests`, that is, it leaves a state with its end whatever was there before. `Sound` adds the types and that the client is
  never connected and connecting at once, writes only while connected, and expects, if any, the answer to the number it gave
  last.
* `TypeCorrect` (`TypeOK`); `AnswersAreOwn` (`AnswersMatch`): since the number expected is the one given last, an answer that
  passes the comparison is the current request's.
* `FaultlessNeverFails` (`OnlyFaultsFail`). A client that meets no fault still has timers, and tasks that come in any order between
  the steps of an exchange. `Smooth` says that the exchange is then at exactly one place, from the call for a write
  to the event that ends it (`Before` the connection, `Between` two exchanges, `Sending`, `Waits`): one task in the
  thread's queue, one frame, or one notification that is owed, guarded by that place's timer and by no other. The task is
  found by its neighbours (`Carries`): only what does not touch the exchange (`Chores`) may stand before it, and no second call
  for a write behind it. Each operation but the exchange's own steps is `Quiet`, that is, it only appends such tasks; and no timer
  can expire without being counted as a fault (`TimersGuard`), so that nothing posts a time-out or a reconnection.

**`EntryStationProofs`, `SettlementFilesProofs`**, two of the parts `LaneProofs` rests on

* `EntryStation`: `Recorded` adds to the property that the last number and an accepted visit's number are recorded, and that
  a visit without entry has no row and one with its entry has one, unless something may add one.
* `SettlementFiles`: `FilesInv` adds what the workers and the two movers believe: a record's file is of its kind (`Named`), two
  records in one back-end file, or writing to one file at once, have been noticed (`Twice`), a file vanishes only after
  its day (`Gone`), who found no file is the first to write it (`Fresh`), a record is in its file while that is there and
  then on the share (`Kept`), what is about to be removed is on the share (`Shipped`), a lease counts its users (`Leased`), and what
  a backup without failure has still to move (`Moved`). Each is a belief a step between two file operations could break.
  `PoolFits` bounds the leases: the pool of the on-board units' client has two workers, so that no mount has more than three users.

**`LaneProofs`**: a step of `Lane` is a step of one part and leaves the others, so what is proved of the parts carries over. Three
parts are proved here, under the names they have in `Lane`:

* Antenna: `AntennaInv` is the type with `Serves`: a set flag has a loop or its start posted, closing takes the request back, and
  the start-up and the loop never have a command on the port at once. Each step of a coroutine and each post keeps it.
* Card reader: `KsmInv`. A queue holds at most one status command, a loop that was told to stop has no port, and while
  polling is wanted a status command is under way or queued.
* Parameters: `ParamInv` says at every statement of a download that a row marked as received is stored unless the mark itself
  lost it (`Marks`), which stages the recipe of a table can reach (`Planned`), and, for a download that met no fault and no edit, what
  each stage has stored, marked and loaded so far (`Undisturbed`).

The theorems are `LaneTypes` (`TypeOK` of all five parts), `AntennaTypes` and `AntennaServes` (of the antenna in `Lane`),
`LaneServesRequests` (`RequestIsServed`), `LanePolls` (`PollingIsKept`), `LaneDownloads` (`EditsArrive`),
`LaneRecordsEntries` (`EntryIsRecorded`), `LaneKeepsRecords` (`RecordsAreKept`) and `LaneMovesDays` (`DoneMeansMoved`).

### What is only model-checked

* Liveness: `QueueDrains`, `StuckDeductionEnds`, `CountedRowsAreSent`, `CommandsAreServed`, `UploadEnds`, `RequestsEnd`,
  `StoppedLoopEnds` and `CardIsOrderedOut`. The prover handles neither fairness nor `ENABLED`.
* `UptDriver`, beyond the hypotheses of its theorems: with a cancel TLC finds a command that is reported failed twice (a
  `SendNothing` that stale events leave behind meets it while it is already the current command), and `FrameIsCurrent` is what
  `upt_cancel_in_flight` refutes. `AnswersMatch` needs numbers that are not used again: after a wrap or a `RESET_SEQ` the number
  alone no longer tells an old answer from a new one.
* `LcscDriver`: `OneTimer` and `TakenAsQueued` with two faults (`MaxFaults = 2` in `Lcsc.cfg`, 6.3 million states). They rest on how many of these meet in one command: with three faults and
  three uploads TLC finds a way to the idle state while a write is still under way: three frames arrive in one wait, and
  the second and third are taken in the state the first has led to. From there two writes may be queued in `writeQueue_`,
  which the single frame `out` does not tell apart, so the model is used up to two faults per behaviour, where both
  properties hold. In the same way an "ok" that comes late ends a file before its chunks are sent
  (`ALL_CHUNK_COMMAND_COMPLETED` without `clearChunkCommandQueue`, `lcsc.cpp:1590`), so that `TypeOK` bounds `chunks` by nothing.

The four violations
(`upt_cancel_in_flight`, `exit_unbooked`, `exit_balance`, `eep_late_connect`) are counterexamples of TLC.

## 9. What is not modelled

* The event pipeline's and `OP_IO`'s start and stop, and the wait for the shutdown signal (see section 1).
* The tariff and the season checks: functions of the clock and of tables. The lanes take any verdict they could give.
* Printer, displays, barcode reader, CHU, the licence plate client's own connection: output, line reading or a connection like
  that of `tcp_client.cpp`, with nothing a lane decides by. Plates arrive in `EntryStation`.
* Configuration, time, CRC, parsing and formatting; registers and pins.
* In `ExitStation` the payment means named under its assumptions, the wrap of serial numbers, and the texts shown to the
  driver; in `EntryStation` prepaid fees, receipts and the default number; in the reader drivers the bytes of
  frames, keys and fields; in the daily backup the logs and plate records, which take the same steps to other shares.

Hazards that no property covers are in `PROJECT.json` with the reason.

## 10. Running

In this directory, with TLC: `tlc -config X.cfg M` for

| Module `M` | Configurations |
|---|---|
| `UptDriver` | `UptCommands`, `UptCancel`, `UptCancelInFlight` |
| `ExitStation` | `ExitPayments`, `ExitWatch`, `ExitUnbooked`, `ExitBalance` |
| `OfflineSync` | `OfflineSync` |
| `MCLcscDriver` | `Lcsc` |
| `EepClient` | `Eep`, `EepLateConnect` |
| `Lane` | `Lane` |

`UptCancelInFlight`, `ExitUnbooked`, `ExitBalance` and `EepLateConnect` are meant to fail. Deadlock is checked for `OfflineSync`, which
always has a timer to fire; the others rightly stop when their calls are used up.

With TLAPS: `tlapm M.tla` for each of the eight modules whose name ends in `Proofs`.
`PROJECT.json` names, for every property, a plausible bug (an operator commented "Variant") that breaks it.
