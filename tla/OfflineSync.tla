----------------------------- MODULE OfflineSync -----------------------------
(***************************************************************************)
(* The transactions of a station and the two databases (db.cpp, odbc.cpp). *)
(* A transaction goes to the central server; when that cannot be reached   *)
(* it goes to the local database, and moveOfflineTransToCentral uploads it *)
(* later.  All calls run on OP_IO, one at a time, but each SQL statement   *)
(* is a step of its own, because the server may vanish and the program may *)
(* crash between two of them: `op' says which statement comes next.        *)
(***************************************************************************)
EXTENDS Integers, FiniteSets

CONSTANTS
  MaxRows,      \* bound on the transactions, numbered in the order of their times
  Undated,      \* those that carry no time of payment
  MaxOutages,   \* bound on the times the central server goes away
  MaxFaults,    \* bound on statements that fail, or fail to be answered, on a live connection
  MaxCrashes    \* bound on the restarts of the program

ASSUME SyncAssumption ==
  /\ MaxRows \in Nat /\ Undated \subseteq 1..MaxRows /\ MaxOutages \in Nat /\ MaxFaults \in Nat /\ MaxCrashes \in Nat

Rows == 1..MaxRows

\* What the caller of SQLExecutNoneQuery is told, and whether the statement took effect.
Answer == [ok : BOOLEAN, done : BOOLEAN]
Refusal == [ok |-> FALSE, done |-> FALSE]

Stages == {"idle", "insert", "movement", "movementInsert", "fallback",
           "select", "put", "unopen", "closing", "delete", "keep"}

\* row: the transaction at hand; rest: those still to upload; then: HouseKeeping is to follow.
Op == [at : Stages, row : 0..MaxRows, rest : SUBSET Rows, then : BOOLEAN]

VARIABLES
  station,      \* gtStation.iType: an "entry" or an "exit"
  gbLoopApresent,  \* a vehicle, or a sensor that hangs, is on loop A
  link,         \* the central server answers
  outages, faults, crashes,
  alive,        \* the program runs
  op,           \* the statement OP_IO is about to make
  visits,       \* transactions begun so far
  known,        \* those saved with an entry record found (bNoEntryRecord = 0)
  offline,      \* tProcess.glNoofOfflineData
  online,       \* tProcess.giSystemOnline: 0 online, 1 offline
  local,        \* rows of the local Entry_Trans or Exit_Trans
  central,      \* how often each row is in the central ..._Trans_tmp
  open,         \* rows of movement_trans_tmp without an exit
  moved,        \* rows of movement_trans_tmp with the exit of each transaction
  old, expired, \* past giDataKeepDays; cleared by HouseKeeping
  told,         \* reported saved: "Entry OK", "Exit OK"
  disturbed     \* met by a fault, or by a crash between two statements

lane == <<station, gbLoopApresent>>
world == <<link, outages, faults, crashes, alive, old>>
stores == <<local, central, open, moved, expired>>
vars == <<lane, world, op, visits, known, offline, online, stores, told, disturbed>>

At(stage, r, rest, then) == [at |-> stage, row |-> r, rest |-> rest, then |-> then]
Idle == At("idle", 0, {}, FALSE)
Move(stage) == op' = [op EXCEPT !.at = stage]

Saving == op.at \in {"insert", "movement", "movementInsert", "fallback"}
Uploading == op.at \in {"put", "unopen", "closing", "delete"}

Init ==
  /\ station \in {"entry", "exit"}
  /\ gbLoopApresent = FALSE
  /\ link \in BOOLEAN /\ outages = 0 /\ faults = 0 /\ crashes = 0
  /\ alive = TRUE /\ op = Idle
  /\ visits = 0 /\ known = {}
  /\ offline = 0 /\ online = IF link THEN 0 ELSE 1
  /\ local = {} /\ central = [r \in Rows |-> 0]
  /\ open \in IF station = "exit" THEN SUBSET Rows ELSE {{}}
  /\ moved = [r \in Rows |-> 0]
  /\ old = {} /\ expired = {} /\ told = {} /\ disturbed = {}

------------------------------------------------------------------------------
\* A statement sent to the local, and one sent to the central database.

LocalStatement(s) ==
  /\ s.ok => s.done
  /\ IF s.ok THEN UNCHANGED faults
     ELSE faults < MaxFaults /\ faults' = faults + 1
  /\ UNCHANGED <<lane, link, outages, crashes, alive, old>>

CentralStatement(s) ==
  /\ IF link THEN LocalStatement(s)
     ELSE s = Refusal /\ UNCHANGED <<lane, world>>

\* A call that was answered wrongly, or left half of the work undone.
Disturbs(bad) == disturbed' = IF bad THEN disturbed \cup {op.row} ELSE disturbed

------------------------------------------------------------------------------
\* SaveEntry and SaveExit.

\* insertentrytrans believes a connection that was open; insertexittrans always connects anew.
Reaches(usable) == IF link THEN usable ELSE usable => station = "entry"

Save(usable, found) ==
  /\ alive /\ op = Idle /\ visits < MaxRows
  /\ link => usable
  /\ Reaches(usable)
  /\ found => visits + 1 \in open
  /\ visits' = visits + 1
  /\ known' = IF found THEN known \cup {visits + 1} ELSE known
  /\ online' = IF usable THEN 0 ELSE 1
  /\ op' = At(IF usable THEN "insert" ELSE "fallback", visits + 1, {}, FALSE)
  /\ UNCHANGED <<lane, world, offline, stores, told, disturbed>>

Tell == told' = told \cup {op.row}

\* The answer decides: a failure is reported and the row is not kept anywhere else.
CentralInsert(s) ==
  /\ op.at = "insert"
  /\ CentralStatement(s)
  /\ central' = IF s.done THEN [central EXCEPT ![op.row] = @ + 1] ELSE central
  /\ Disturbs(s.done /\ ~s.ok)
  /\ IF s.ok /\ station = "exit"
     THEN /\ Move(IF op.row \in known THEN "movement" ELSE "movementInsert")
          /\ UNCHANGED told
     ELSE /\ op' = Idle
          /\ IF s.ok THEN Tell ELSE UNCHANGED told
  /\ UNCHANGED <<visits, known, offline, online, local, open, moved, expired>>

\* Variant: reports the row saved without looking at the local answer.
FallbackUnchecked(s) ==
  /\ op.at = "fallback"
  /\ LocalStatement(s)
  /\ local' = IF s.done THEN local \cup {op.row} ELSE local
  /\ offline' = offline + 1
  /\ Tell
  /\ Disturbs(s.done /\ ~s.ok)
  /\ op' = Idle
  /\ UNCHANGED <<visits, known, online, central, open, moved, expired>>

Fallback(s) ==
  /\ op.at = "fallback"
  /\ LocalStatement(s)
  /\ local' = IF s.done THEN local \cup {op.row} ELSE local
  /\ offline' = IF s.ok THEN offline + 1 ELSE offline
  /\ IF s.ok THEN Tell ELSE UNCHANGED told
  /\ Disturbs(s.done /\ ~s.ok)
  /\ op' = Idle
  /\ UNCHANGED <<visits, known, online, central, open, moved, expired>>

Closes(s) == moved' = IF s.done THEN [moved EXCEPT ![op.row] = @ + 1] ELSE moved

\* updatemovementtrans closes the row of the entry, or inserts one when there was none.
UpdateMovement(s) ==
  /\ op.at = "movement"
  /\ CentralStatement(s)
  /\ LET closes == s.done /\ op.row \in open
     IN /\ Closes([s EXCEPT !.done = closes])
        /\ open' = IF closes THEN open \ {op.row} ELSE open
        /\ IF s.ok /\ ~closes
           THEN Move("movementInsert") /\ UNCHANGED told
           ELSE op' = Idle /\ (IF s.ok THEN Tell ELSE UNCHANGED told)
  /\ Disturbs(~s.ok)
  /\ UNCHANGED <<visits, known, offline, online, local, central, expired>>

\* SaveExit takes the answer of insert2movementtrans, updatemovementtrans does not look at it.
InsertMovement(s) ==
  /\ op.at = "movementInsert"
  /\ CentralStatement(s)
  /\ Closes(s)
  /\ op' = Idle
  /\ IF s.ok \/ op.row \in known THEN Tell ELSE UNCHANGED told
  /\ Disturbs(~s.ok)
  /\ UNCHANGED <<visits, known, offline, online, local, central, open, expired>>

------------------------------------------------------------------------------
\* moveOfflineTransToCentral, called at the start, by the PMS's "online" and by the timer.

\* The newest row comes first; after the last one comes what is to follow.
Finish(then) == op' = IF then THEN At("keep", 0, {}, FALSE) ELSE Idle

Take(rows, then) ==
  IF rows = {} THEN Finish(then)
  ELSE \E r \in rows : /\ \A x \in rows : x <= r
                      /\ op' = At("put", r, rows \ {r}, then)

NextRow == Take(op.rest, op.then)

\* Variant: enters the loop although there is no row.
SelectUncounted(s) ==
  /\ op.at = "select"
  /\ LocalStatement(s)
  /\ IF s.ok /\ local # {} THEN Take(local, op.then)
     ELSE op' = At("put", 0, {}, op.then)
  /\ UNCHANGED <<visits, known, offline, online, stores, told, disturbed>>

\* Count and select; a failure ends the upload.
Select(s) ==
  /\ op.at = "select"
  /\ LocalStatement(s)
  /\ Take(IF s.ok THEN local ELSE {}, op.then)
  /\ UNCHANGED <<visits, known, offline, online, stores, told, disturbed>>

\* The local copy of an exit without a time of payment has one that the centre cannot convert.
Refusable == IF station = "exit" THEN Undated ELSE {}

\* Such a row is refused whenever it is tried.
UploadStatement(s) ==
  IF op.row \in Refusable THEN s = Refusal /\ UNCHANGED <<lane, world>> ELSE CentralStatement(s)

\* Variant: the local row is deleted whatever the centre answered.
PutUnchecked(s) ==
  /\ op.at = "put"
  /\ UploadStatement(s)
  /\ central' = IF s.done THEN [central EXCEPT ![op.row] = @ + 1] ELSE central
  /\ Move("delete")
  /\ Disturbs(s.done /\ ~s.ok)
  /\ UNCHANGED <<visits, known, offline, online, local, open, moved, expired, told>>

\* Variant: an uploaded exit closes no movement.
PutUnmoved(s) ==
  /\ op.at = "put"
  /\ UploadStatement(s)
  /\ central' = IF s.done THEN [central EXCEPT ![op.row] = @ + 1] ELSE central
  /\ IF s.ok THEN Move("delete") ELSE NextRow
  /\ Disturbs(s.done /\ ~s.ok)
  /\ UNCHANGED <<visits, known, offline, online, local, open, moved, expired, told>>

\* A row that the centre did not take stays where it is, and the next one is tried.
Put(s) ==
  /\ op.at = "put"
  /\ UploadStatement(s)
  /\ central' = IF s.done THEN [central EXCEPT ![op.row] = @ + 1] ELSE central
  /\ IF s.ok THEN Move(IF station = "exit" THEN "unopen" ELSE "delete") ELSE NextRow
  /\ Disturbs(s.done /\ ~s.ok)
  /\ UNCHANGED <<visits, known, offline, online, local, open, moved, expired, told>>

\* DeleteBeforeInsertMT: with no entry time on the row it deletes nothing.
DeleteBeforeInsertMT(s) ==
  /\ op.at = "unopen"
  /\ CentralStatement(s)
  /\ open' = IF s.done /\ op.row \in known THEN open \ {op.row} ELSE open
  /\ Move("closing")
  /\ Disturbs(~s.ok)
  /\ UNCHANGED <<visits, known, offline, online, local, central, moved, expired, told>>

CloseMovement(s) ==
  /\ op.at = "closing"
  /\ CentralStatement(s)
  /\ Closes(s)
  /\ Move("delete")
  /\ Disturbs(~s.ok)
  /\ UNCHANGED <<visits, known, offline, online, local, central, open, expired, told>>

DeleteLocalTrans(s) ==
  /\ op.at = "delete"
  /\ LocalStatement(s)
  /\ local' = IF s.done THEN local \ {op.row} ELSE local
  /\ NextRow
  /\ Disturbs(~s.ok)
  /\ UNCHANGED <<visits, known, offline, online, central, open, moved, expired, told>>

------------------------------------------------------------------------------
\* The PMS says the centre is there; the timer looks for it itself.

Upload(now, then) ==
  IF now THEN op' = At("select", 0, {}, then) ELSE Finish(then)

StatusOnline ==
  /\ alive /\ op = Idle /\ online # 0
  /\ online' = 0
  /\ Upload(offline > 0, FALSE)
  /\ UNCHANGED <<lane, world, visits, known, offline, stores, told, disturbed>>

\* Variant: uploads only when the station has just come back online.
DailyProcessOnce(newDay) ==
  /\ alive /\ op = Idle /\ ~gbLoopApresent
  /\ online' = IF online = 1 /\ link THEN 0 ELSE online
  /\ Upload(online = 1 /\ online' = 0 /\ offline > 0, newDay)
  /\ UNCHANGED <<lane, world, visits, known, offline, stores, told, disturbed>>

\* Every five seconds, but only while nothing is on loop A; HouseKeeping follows on a new day.
DailyProcess(newDay) ==
  /\ alive /\ op = Idle /\ ~gbLoopApresent
  /\ online' = IF online = 1 /\ link THEN 0 ELSE online
  /\ Upload(online' = 0 /\ offline > 0, newDay)
  /\ UNCHANGED <<lane, world, visits, known, offline, stores, told, disturbed>>

HouseKeeping(s) ==
  /\ op.at = "keep"
  /\ LocalStatement(s)
  /\ local' = IF s.done THEN local \ old ELSE local
  /\ expired' = IF s.done THEN expired \cup (local \cap old) ELSE expired
  /\ op' = Idle
  /\ UNCHANGED <<visits, known, offline, online, central, open, moved, told, disturbed>>

------------------------------------------------------------------------------
\* The world: the network, time, and the program's end and restart.

LinkBreaks ==
  /\ link /\ outages < MaxOutages
  /\ link' = FALSE /\ outages' = outages + 1
  /\ UNCHANGED <<lane, faults, crashes, alive, old, op, visits, known, offline, online,
                 stores, told, disturbed>>

LinkReturns ==
  /\ ~link /\ link' = TRUE
  /\ UNCHANGED <<lane, outages, faults, crashes, alive, old, op, visits, known, offline,
                 online, stores, told, disturbed>>

\* Set by the thread that watches the loops, whatever OP_IO is doing.
LoopAChanges ==
  /\ alive /\ gbLoopApresent' = ~gbLoopApresent
  /\ UNCHANGED <<station, world, op, visits, known, offline, online, stores, told, disturbed>>

RowGrowsOld(r) ==
  /\ r \in local \ old /\ old' = old \cup {r}
  /\ UNCHANGED <<lane, link, outages, faults, crashes, alive, op, visits, known, offline,
                 online, stores, told, disturbed>>

Crash ==
  /\ alive /\ crashes < MaxCrashes
  /\ alive' = FALSE /\ crashes' = crashes + 1
  /\ op' = Idle
  /\ Disturbs(Saving \/ Uploading)
  /\ UNCHANGED <<lane, link, outages, faults, old, visits, known, offline, online,
                 stores, told>>

\* Setdefaultparameter, connectcentraldb and, whatever they found, an upload.
Restart ==
  /\ ~alive /\ alive' = TRUE
  /\ gbLoopApresent' = FALSE
  /\ offline' = 0
  /\ online' = IF link THEN 0 ELSE 1
  /\ Upload(TRUE, FALSE)
  /\ UNCHANGED <<station, link, outages, faults, crashes, old, visits, known, stores, told,
                 disturbed>>

Statement ==
  \E s \in Answer :
    \/ CentralInsert(s) \/ Fallback(s) \/ UpdateMovement(s) \/ InsertMovement(s)
    \/ Select(s) \/ Put(s) \/ DeleteBeforeInsertMT(s) \/ CloseMovement(s)
    \/ DeleteLocalTrans(s) \/ HouseKeeping(s)

Next ==
  \/ \E usable, found \in BOOLEAN : Save(usable, found)
  \/ Statement
  \/ StatusOnline
  \/ \E newDay \in BOOLEAN : DailyProcess(newDay)
  \/ LinkBreaks \/ LinkReturns \/ LoopAChanges
  \/ \E r \in Rows : RowGrowsOld(r)
  \/ Crash \/ Restart

\* OP_IO makes its statements, the timer fires in the end while loop A stays free, a program that ended is
\* started again.
Fairness ==
  /\ WF_vars(Statement)
  /\ WF_vars(\E newDay \in BOOLEAN : DailyProcess(newDay))
  /\ WF_vars(Restart)

Spec == Init /\ [][Next]_vars /\ Fairness

------------------------------------------------------------------------------
\* Types, and what holds of the stage the statements are at.
TypeOK ==
  /\ station \in {"entry", "exit"} /\ gbLoopApresent \in BOOLEAN
  /\ link \in BOOLEAN /\ alive \in BOOLEAN
  /\ outages \in 0..MaxOutages /\ faults \in 0..MaxFaults /\ crashes \in 0..MaxCrashes
  /\ op \in Op
  /\ Saving \/ Uploading => op.row \in Rows
  /\ visits \in 0..MaxRows /\ known \subseteq Rows
  /\ offline \in 0..MaxRows /\ online \in {0, 1}
  /\ local \subseteq Rows /\ open \subseteq Rows
  /\ central \in [Rows -> Nat] /\ moved \in [Rows -> Nat]
  /\ old \subseteq Rows /\ expired \subseteq Rows
  /\ told \subseteq Rows /\ disturbed \subseteq Rows

\* What became of a transaction, as Records has it.
Fate(r) ==
  CASE central[r] > 0 -> "sent"
    [] central[r] = 0 /\ r \in local -> "kept"
    [] central[r] = 0 /\ r \notin local /\ r \in expired -> "expired"
    [] central[r] = 0 /\ r \notin local /\ r \notin expired ->
         IF r <= visits /\ ~(Saving /\ op.row = r) THEN "refused" ELSE "new"

Promise == INSTANCE Records WITH record <- [r \in Rows |-> Fate(r)]

\* moveOfflineTransToCentral deletes a local row only after the centre took it, so that whatever
\* fails or crashes, a row once stored is stored until it is at the centre or too old to be kept.
StoredRowsAreKept == Promise!RecordSpec

\* What was reported as saved was saved: "Entry OK" and "Exit OK" are never said of a row
\* that is in neither database, unless HouseKeeping has cleared it.
ToldMeansStored == \A r \in told : Fate(r) \in {"sent", "kept", "expired"}

\* A row that no fault and no crash met is in exactly one place, once, and the exit of one that
\* is at the centre closed exactly one movement: outages alone neither lose nor double anything.
UndisturbedOnce ==
  \A r \in 1..visits \ (disturbed \cup expired) :
    (~Saving /\ ~Uploading) \/ op.row # r =>
      /\ central[r] + Cardinality({r} \cap local) = IF Fate(r) = "refused" THEN 0 ELSE 1
      /\ moved[r] = IF station = "exit" THEN central[r] ELSE 0

\* When the network stays up and loop A stays free, a row the counter of offline data covers leaves the
\* local database, unless the centre refuses it whenever it is tried.  After a restart the counter is 0 and
\* covers none until the next offline row.  With loop A occupied the timer does nothing at all.
CountedRowsAreSent ==
  <>[]link /\ <>[]~gbLoopApresent =>
    \A r \in Rows : (r \in local \ Refusable /\ offline > 0) ~> (r \notin local \/ offline = 0)
==============================================================================
