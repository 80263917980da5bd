-------------------------- MODULE OfflineSyncProofs --------------------------
(***************************************************************************)
(* Proofs about OfflineSync, for every number of transactions, outages,    *)
(* faults and restarts: types, what "Entry OK" and "Exit OK" are worth,    *)
(* and that the statements keep the promise of Records.                    *)
(***************************************************************************)
EXTENDS OfflineSync, FiniteSetTheorems, TLAPS

\* The counter of offline rows and the row being saved never run ahead of the transactions.
Counted ==
  /\ offline <= visits
  /\ Saving => op.row = visits /\ offline < visits

\* What each statement finds in the two databases.
Staged ==
  /\ op.at \in {"insert", "fallback"} =>
       central[op.row] = 0 /\ op.row \notin local \cup expired \cup told
  /\ op.at \in {"movement", "movementInsert", "unopen", "closing", "delete"} =>
       central[op.row] > 0
  /\ Uploading => op.row \in local /\ op.rest \subseteq local \ {op.row}

\* Nothing is known of a transaction before it begins.
Begun ==
  /\ local \cup expired \cup told \subseteq 1..visits
  /\ \A r \in Rows : central[r] > 0 => r <= visits

\* What is reported saved is at the centre, in the local database, or was cleared.
Stored == \A r \in told : central[r] > 0 \/ r \in local \/ r \in expired

\* A program that is not running makes no statement.
Down == ~alive => op.at = "idle"

SyncInv == TypeOK /\ Counted /\ Staged /\ Begun /\ Stored

------------------------------------------------------------------------------
LEMMA InitHolds == Init => SyncInv
<1> SUFFICES ASSUME Init
             PROVE  SyncInv
  OBVIOUS
<1>1. /\ op \in Op /\ op.at = "idle" /\ ~Saving /\ ~Uploading
      /\ MaxRows \in Nat /\ MaxOutages \in Nat /\ MaxFaults \in Nat /\ MaxCrashes \in Nat
  BY SyncAssumption DEF Init, Idle, At, Op, Stages, Saving, Uploading
<1>2. /\ visits = 0 /\ offline = 0 /\ known = {} /\ told = {} /\ local = {} /\ expired = {} /\ old = {}
      /\ disturbed = {} /\ open \in SUBSET Rows /\ station \in {"entry", "exit"}
      /\ \A r \in Rows : central[r] = 0
  BY DEF Init
<1>3. /\ gbLoopApresent \in BOOLEAN /\ link \in BOOLEAN /\ alive \in BOOLEAN /\ online \in {0, 1}
      /\ outages = 0 /\ faults = 0 /\ crashes = 0
      /\ central \in [Rows -> Nat] /\ moved \in [Rows -> Nat]
  BY DEF Init
<1>4. TypeOK
  BY <1>1, <1>2, <1>3 DEF TypeOK
<1>5. Counted /\ Staged /\ Begun /\ Stored
  BY <1>1, <1>2 DEF Counted, Staged, Begun, Stored
<1> QED
  BY <1>4, <1>5 DEF SyncInv

LEMMA AtIsOp ==
  ASSUME NEW stage \in Stages, NEW r \in 0..MaxRows, NEW S \in SUBSET Rows, NEW then \in BOOLEAN
  PROVE  At(stage, r, S, then) \in Op
BY DEF At, Op

LEMMA IdleIsOp ==
  /\ Idle \in Op
  /\ Idle.at = "idle"
BY SyncAssumption DEF Idle, At, Op, Stages

\* What every statement leaves of the world.
LEMMA StatementWorld ==
  ASSUME TypeOK, NEW s \in Answer, LocalStatement(s) \/ CentralStatement(s) \/ UploadStatement(s)
  PROVE  /\ station' = station /\ gbLoopApresent' = gbLoopApresent /\ link' = link
         /\ outages' = outages /\ crashes' = crashes
         /\ alive' = alive /\ old' = old
         /\ faults' \in 0..MaxFaults
         /\ s.ok \in BOOLEAN /\ s.done \in BOOLEAN
         /\ s.ok => s.done
BY SyncAssumption DEF TypeOK, Answer, Refusal, LocalStatement, CentralStatement, UploadStatement, lane, world

\* Where the upload goes at its end, and after a row.
LEMMA FinishStage ==
  ASSUME NEW then \in BOOLEAN, Finish(then)
  PROVE  op' \in Op /\ op'.at \in {"idle", "keep"}
<1>1. At("keep", 0, {}, FALSE) \in Op /\ At("keep", 0, {}, FALSE).at = "keep"
  BY SyncAssumption DEF At, Op, Stages
<1> QED
  BY <1>1, IdleIsOp DEF Finish

LEMMA TakeStage ==
  ASSUME NEW S \in SUBSET Rows, NEW then \in BOOLEAN, Take(S, then)
  PROVE  /\ op' \in Op
         /\ \/ op'.at \in {"idle", "keep"}
            \/ op'.at = "put" /\ op'.row \in S /\ op'.rest = S \ {op'.row}
<1>1. CASE S = {}
  BY <1>1, FinishStage DEF Take
<1>2. CASE S # {}
  <2>1. PICK r \in S : op' = At("put", r, S \ {r}, then)
    BY <1>2 DEF Take
  <2>2. r \in 0..MaxRows /\ S \ {r} \in SUBSET Rows /\ "put" \in Stages
    BY SyncAssumption DEF Rows, Stages
  <2>3. op' = [at |-> "put", row |-> r, rest |-> S \ {r}, then |-> then]
    BY <2>1 DEF At
  <2>4. op' \in Op
    BY <2>1, <2>2, AtIsOp
  <2>5. op'.at = "put" /\ op'.row = r /\ op'.rest = S \ {r}
    BY <2>3
  <2> QED
    BY <2>4, <2>5
<1> QED
  BY <1>1, <1>2

------------------------------------------------------------------------------
\* Every statement keeps the invariant.
LEMMA SaveKeeps ==
  ASSUME SyncInv, NEW usable \in BOOLEAN, NEW found \in BOOLEAN, Save(usable, found)
  PROVE  SyncInv'
<1> USE SyncAssumption DEF SyncInv
<1>1. visits + 1 \in Rows /\ visits' = visits + 1 /\ op = Idle
  BY DEF Save, TypeOK, Rows
<1>2. op' = At(IF usable THEN "insert" ELSE "fallback", visits + 1, {}, FALSE)
  BY DEF Save
<1>3. TypeOK'
  <2>1. op' \in Op /\ op'.row = visits + 1
    BY <1>1, <1>2 DEF Op, Stages, At, Rows
  <2>2. visits' \in 0..MaxRows /\ known' \subseteq Rows /\ online' \in {0, 1}
    BY <1>1 DEF Save, TypeOK, Rows
  <2> QED
    BY <1>1, <2>1, <2>2 DEF Save, TypeOK, lane, world, stores
<1>4. Counted'
  BY <1>1, <1>2 DEF Save, TypeOK, Counted, Saving, At, Rows
<1>5. Staged'
  BY <1>1, <1>2 DEF Save, TypeOK, Staged, Begun, Saving, Uploading, At, Rows, stores
<1>6. Begun' /\ Stored'
  BY <1>1 DEF Save, TypeOK, Begun, Stored, Rows, stores
<1> QED
  BY <1>3, <1>4, <1>5, <1>6

LEMMA CentralInsertKeeps ==
  ASSUME SyncInv, NEW s \in Answer, CentralInsert(s)
  PROVE  SyncInv'
<1> USE SyncAssumption DEF SyncInv
<1>1. /\ station' = station /\ gbLoopApresent' = gbLoopApresent /\ link' = link
      /\ outages' = outages /\ crashes' = crashes
      /\ alive' = alive /\ old' = old /\ faults' \in 0..MaxFaults
      /\ s.ok \in BOOLEAN /\ s.done \in BOOLEAN /\ (s.ok => s.done)
  BY StatementWorld DEF CentralInsert
<1>2. op.row = visits /\ op.row \in Rows /\ offline < visits /\ op \in Op
  BY DEF CentralInsert, TypeOK, Counted, Saving
<1>3. /\ central' \in [Rows -> Nat]
      /\ s.done => central'[op.row] > 0
      /\ \A r \in Rows : central[r] > 0 => central'[r] > 0
      /\ \A r \in Rows : central'[r] > 0 => central[r] > 0 \/ r = op.row
  BY <1>1, <1>2 DEF CentralInsert, TypeOK
<1>4. op' = Idle \/ (s.ok /\ op'.at \in {"movement", "movementInsert"} /\ op'.row = op.row
                         /\ op'.rest = op.rest /\ op'.then = op.then /\ op' \in Op)
  BY <1>1, <1>2 DEF CentralInsert, Move, Op, Stages
<1>5. told' = told \/ (s.ok /\ told' = told \cup {op.row})
  BY DEF CentralInsert, Tell
<1>6. disturbed' \subseteq Rows
  BY <1>2 DEF CentralInsert, Disturbs, TypeOK
<1>7. TypeOK'
  <2>1. op' \in Op /\ ((Saving \/ Uploading)' => op'.row \in Rows)
    BY <1>2, <1>4, IdleIsOp DEF Saving, Uploading
  <2>2. told' \subseteq Rows
    BY <1>2, <1>5 DEF TypeOK
  <2> QED
    BY <1>1, <1>3, <1>6, <2>1, <2>2 DEF CentralInsert, TypeOK
<1>8. Counted' /\ Staged'
  <2>1. UNCHANGED <<visits, offline, local, expired>>
    BY DEF CentralInsert
  <2>2. op' = Idle \/ (op'.at \in {"movement", "movementInsert"} /\ op'.row = visits
                       /\ central'[op'.row] > 0)
    BY <1>2, <1>3, <1>4, <1>1
  <2> QED
    BY <1>2, <2>1, <2>2, IdleIsOp DEF TypeOK, Counted, Staged, Saving, Uploading
<1>9. Begun'
  <2>1. op.row \in 1..visits /\ told' \subseteq told \cup {op.row}
    BY <1>2, <1>5 DEF TypeOK, Rows
  <2>2. UNCHANGED <<visits, local, expired>>
    BY DEF CentralInsert
  <2> QED
    BY <1>2, <1>3, <2>1, <2>2 DEF Begun, Rows
<1>10. Stored'
  <2>1. \A r \in told : r \in Rows
    BY DEF TypeOK
  <2> QED
    BY <1>1, <1>2, <1>3, <1>5, <2>1 DEF CentralInsert, Stored
<1> QED
  BY <1>7, <1>8, <1>9, <1>10

LEMMA FallbackKeeps ==
  ASSUME SyncInv, NEW s \in Answer, Fallback(s)
  PROVE  SyncInv'
<1> USE SyncAssumption DEF SyncInv
<1>1. /\ station' = station /\ gbLoopApresent' = gbLoopApresent /\ link' = link
      /\ outages' = outages /\ crashes' = crashes
      /\ alive' = alive /\ old' = old /\ faults' \in 0..MaxFaults
      /\ s.ok \in BOOLEAN /\ s.done \in BOOLEAN /\ (s.ok => s.done)
  BY StatementWorld DEF Fallback
<1>2. op.row = visits /\ op.row \in Rows /\ offline < visits /\ op' = Idle
  BY DEF Fallback, TypeOK, Counted, Saving
<1>3. disturbed' \subseteq Rows /\ told' \subseteq told \cup {op.row}
  BY <1>2 DEF Fallback, Disturbs, TypeOK, Tell
<1>4. TypeOK'
  <2>1. op' \in Op /\ ~Saving' /\ ~Uploading'
    BY <1>2, IdleIsOp DEF Saving, Uploading
  <2>2. local' \subseteq Rows /\ told' \subseteq Rows
    BY <1>2, <1>3 DEF TypeOK, Fallback
  <2>3. offline' \in 0..MaxRows
    BY <1>2 DEF TypeOK, Fallback, Rows
  <2> QED
    BY <1>1, <1>3, <2>1, <2>2, <2>3 DEF Fallback, TypeOK
<1>5. Counted' /\ Staged'
  BY <1>2 DEF Fallback, TypeOK, Counted, Staged, Idle, At, Saving, Uploading, Rows
<1>6. Begun'
  BY <1>2, <1>3 DEF Fallback, TypeOK, Begun, Rows
<1>7. Stored'
  BY <1>1 DEF Fallback, Stored, Tell
<1> QED
  BY <1>4, <1>5, <1>6, <1>7

LEMMA MovementKeeps ==
  ASSUME SyncInv, NEW s \in Answer, UpdateMovement(s) \/ InsertMovement(s)
  PROVE  SyncInv'
<1> USE SyncAssumption DEF SyncInv
<1>1. /\ station' = station /\ gbLoopApresent' = gbLoopApresent /\ link' = link
      /\ outages' = outages /\ crashes' = crashes
      /\ alive' = alive /\ old' = old /\ faults' \in 0..MaxFaults
      /\ s.ok \in BOOLEAN /\ s.done \in BOOLEAN /\ (s.ok => s.done)
  BY StatementWorld DEF UpdateMovement, InsertMovement
<1>2. op.row = visits /\ op.row \in Rows /\ offline < visits /\ op \in Op /\ central[op.row] > 0
  BY DEF UpdateMovement, InsertMovement, TypeOK, Counted, Staged, Saving
<1>3. op' = Idle \/ op' = [op EXCEPT !.at = "movementInsert"]
  BY DEF UpdateMovement, InsertMovement, Move
<1>4. /\ UNCHANGED <<visits, known, offline, online, local, central, expired>>
      /\ open' \subseteq open /\ told' \subseteq told \cup {op.row} /\ told \subseteq told'
      /\ moved' \in [Rows -> Nat] /\ disturbed' \subseteq Rows
  BY <1>2 DEF UpdateMovement, InsertMovement, Tell, Closes, Disturbs, TypeOK
<1>5. TypeOK'
  <2>1. op' \in Op /\ ((Saving \/ Uploading)' => op'.row \in Rows)
    <3>1. CASE op' = Idle
      BY <3>1, IdleIsOp DEF Saving, Uploading
    <3>2. CASE op' = [op EXCEPT !.at = "movementInsert"]
      BY <1>2, <3>2 DEF Op, Stages
    <3> QED
      BY <1>3, <3>1, <3>2
  <2>2. told' \subseteq Rows /\ open' \subseteq Rows
    BY <1>2, <1>4 DEF TypeOK
  <2> QED
    BY <1>1, <1>4, <2>1, <2>2 DEF TypeOK
<1>6. Counted' /\ Staged'
  BY <1>2, <1>3, <1>4 DEF TypeOK, Counted, Staged, Idle, At, Op, Saving, Uploading, Rows
<1>7. Begun' /\ Stored'
  BY <1>2, <1>4 DEF TypeOK, Begun, Stored, Rows
<1> QED
  BY <1>5, <1>6, <1>7

\* The upload's statements on the way from a row to the next.
LEMMA PutKeeps ==
  ASSUME SyncInv, NEW s \in Answer, Put(s)
  PROVE  SyncInv'
<1> USE SyncAssumption DEF SyncInv
<1>1. /\ station' = station /\ gbLoopApresent' = gbLoopApresent /\ link' = link
      /\ outages' = outages /\ crashes' = crashes
      /\ alive' = alive /\ old' = old /\ faults' \in 0..MaxFaults
      /\ s.ok \in BOOLEAN /\ s.done \in BOOLEAN /\ (s.ok => s.done)
  BY StatementWorld DEF Put
<1>2. /\ op.row \in Rows /\ op \in Op /\ op.row \in local /\ op.rest \subseteq local \ {op.row}
      /\ op.rest \in SUBSET Rows /\ op.then \in BOOLEAN
  BY DEF Put, TypeOK, Staged, Uploading, Op
<1>3. UNCHANGED <<visits, known, offline, online, local, open, moved, expired, told>>
  BY DEF Put
<1>4. /\ central' \in [Rows -> Nat]
      /\ s.done => central'[op.row] > 0
      /\ \A r \in Rows : central[r] > 0 => central'[r] > 0
      /\ \A r \in Rows : central'[r] > 0 => central[r] > 0 \/ r = op.row
  BY <1>1, <1>2 DEF Put, TypeOK
<1>5. /\ op' \in Op /\ ~Saving'
      /\ op'.at \in {"unopen", "closing", "delete"} => central'[op'.row] > 0
      /\ Uploading' => op'.row \in local /\ op'.rest \subseteq local \ {op'.row}
  <2>1. CASE s.ok
    <3>1. op' = [op EXCEPT !.at = "unopen"] \/ op' = [op EXCEPT !.at = "delete"]
      BY <2>1 DEF Put, Move
    <3>2. op' \in Op /\ op'.row = op.row /\ op'.rest = op.rest
            /\ op'.at \in {"unopen", "delete"}
      BY <1>2, <3>1 DEF Op, Stages
    <3> QED
      BY <1>1, <1>2, <1>4, <2>1, <3>2 DEF Saving, Uploading
  <2>2. CASE ~s.ok
    <3>1. Take(op.rest, op.then)
      BY <2>2 DEF Put, NextRow
    <3> QED
      BY <1>2, <3>1, TakeStage DEF Saving, Uploading
  <2> QED
    BY <2>1, <2>2
<1>6. disturbed' \subseteq Rows
  BY <1>2 DEF Put, Disturbs, TypeOK
<1>7. TypeOK'
  BY <1>1, <1>3, <1>4, <1>5, <1>6 DEF TypeOK
<1>8. Counted' /\ Staged'
  BY <1>3, <1>5 DEF Counted, Staged, Saving, Uploading
<1>9. Begun' /\ Stored'
  <2>1. op.row \in 1..visits /\ told \subseteq Rows
    BY <1>2 DEF Begun, TypeOK
  <2> QED
    BY <1>3, <1>4, <2>1 DEF Begun, Stored, Rows
<1> QED
  BY <1>7, <1>8, <1>9

LEMMA UncloseKeeps ==
  ASSUME SyncInv, NEW s \in Answer, DeleteBeforeInsertMT(s) \/ CloseMovement(s)
  PROVE  SyncInv'
<1> USE SyncAssumption DEF SyncInv
<1>1. /\ station' = station /\ gbLoopApresent' = gbLoopApresent /\ link' = link
      /\ outages' = outages /\ crashes' = crashes
      /\ alive' = alive /\ old' = old /\ faults' \in 0..MaxFaults
      /\ s.ok \in BOOLEAN /\ s.done \in BOOLEAN /\ (s.ok => s.done)
  BY StatementWorld DEF DeleteBeforeInsertMT, CloseMovement
<1>2. /\ op.row \in Rows /\ op \in Op /\ op.row \in local /\ op.rest \subseteq local \ {op.row}
      /\ central[op.row] > 0
  BY DEF DeleteBeforeInsertMT, CloseMovement, TypeOK, Staged, Uploading
<1>3. /\ UNCHANGED <<visits, known, offline, online, local, central, expired, told>>
      /\ open' \subseteq open /\ moved' \in [Rows -> Nat] /\ disturbed' \subseteq Rows
  BY <1>2 DEF DeleteBeforeInsertMT, CloseMovement, Closes, Disturbs, TypeOK
<1>4. op' = [op EXCEPT !.at = "closing"] \/ op' = [op EXCEPT !.at = "delete"]
  BY DEF DeleteBeforeInsertMT, CloseMovement, Move
<1>5. /\ op' \in Op /\ op'.row = op.row /\ op'.rest = op.rest
      /\ op'.at \in {"closing", "delete"}
  BY <1>2, <1>4 DEF Op, Stages
<1>6. TypeOK'
  <2>1. open' \subseteq Rows
    BY <1>3 DEF TypeOK
  <2> QED
    BY <1>1, <1>2, <1>3, <1>5, <2>1 DEF TypeOK
<1>7. Counted' /\ Staged' /\ Begun' /\ Stored'
  BY <1>2, <1>3, <1>5 DEF Counted, Staged, Begun, Stored, Saving, Uploading
<1> QED
  BY <1>6, <1>7

LEMMA DeleteKeeps ==
  ASSUME SyncInv, NEW s \in Answer, DeleteLocalTrans(s)
  PROVE  SyncInv'
<1> USE SyncAssumption DEF SyncInv
<1>1. /\ station' = station /\ gbLoopApresent' = gbLoopApresent /\ link' = link
      /\ outages' = outages /\ crashes' = crashes
      /\ alive' = alive /\ old' = old /\ faults' \in 0..MaxFaults
      /\ s.ok \in BOOLEAN /\ s.done \in BOOLEAN /\ (s.ok => s.done)
  BY StatementWorld DEF DeleteLocalTrans
<1>2. /\ op.row \in Rows /\ op \in Op /\ op.row \in local /\ op.rest \subseteq local \ {op.row}
      /\ op.rest \in SUBSET Rows /\ op.then \in BOOLEAN /\ central[op.row] > 0
  BY DEF DeleteLocalTrans, TypeOK, Staged, Uploading, Op
<1>3. /\ UNCHANGED <<visits, known, offline, online, central, open, moved, expired, told>>
      /\ local' = local \/ local' = local \ {op.row}
      /\ disturbed' \subseteq Rows
  BY <1>2 DEF DeleteLocalTrans, Disturbs, TypeOK
<1>4. Take(op.rest, op.then)
  BY DEF DeleteLocalTrans, NextRow
<1>5. /\ op' \in Op /\ ~Saving'
      /\ op'.at \notin {"unopen", "closing", "delete"}
      /\ Uploading' => op'.row \in op.rest /\ op'.rest = op.rest \ {op'.row}
  <2>1. /\ op' \in Op
        /\ \/ op'.at \in {"idle", "keep"}
           \/ op'.at = "put" /\ op'.row \in op.rest /\ op'.rest = op.rest \ {op'.row}
    BY <1>2, <1>4, TakeStage
  <2> QED
    BY <2>1 DEF Saving, Uploading
<1>6. Uploading' => op'.row \in local' /\ op'.rest \subseteq local' \ {op'.row}
  BY <1>2, <1>3, <1>5
<1>7. TypeOK'
  BY <1>1, <1>2, <1>3, <1>5 DEF TypeOK
<1>8. Counted' /\ Staged'
  BY <1>3, <1>5, <1>6 DEF Counted, Staged, Saving
<1>9. Begun' /\ Stored'
  BY <1>2, <1>3 DEF Begun, Stored
<1> QED
  BY <1>7, <1>8, <1>9

\* Where an upload starts.
LEMMA UploadStage ==
  ASSUME NEW then \in BOOLEAN, op' = At("select", 0, {}, then) \/ Finish(then)
  PROVE  op' \in Op /\ op'.at \in {"select", "idle", "keep"}
<1>1. At("select", 0, {}, then) \in Op /\ At("select", 0, {}, then).at = "select"
  BY SyncAssumption DEF At, Op, Stages
<1> QED
  BY <1>1, FinishStage

LEMMA SelectKeeps ==
  ASSUME SyncInv, NEW s \in Answer, Select(s)
  PROVE  SyncInv'
<1> USE SyncAssumption DEF SyncInv
<1>1. /\ station' = station /\ gbLoopApresent' = gbLoopApresent /\ link' = link
      /\ outages' = outages /\ crashes' = crashes
      /\ alive' = alive /\ old' = old /\ faults' \in 0..MaxFaults
  BY StatementWorld DEF Select
<1>2. UNCHANGED <<visits, known, offline, online, stores, told, disturbed>>
  BY DEF Select
<1>3. \E S \in SUBSET local : Take(S, op.then)
  BY DEF Select
<1>4. local \subseteq Rows /\ op.then \in BOOLEAN
  BY DEF TypeOK, Op
<1>5. /\ op' \in Op
      /\ \/ op'.at \in {"idle", "keep"}
         \/ op'.at = "put" /\ op'.row \in local /\ op'.rest \subseteq local \ {op'.row}
  <2>1. PICK S \in SUBSET local : Take(S, op.then)
    BY <1>3
  <2>2. S \in SUBSET Rows /\ S \subseteq local
    BY <1>4
  <2> QED
    BY <1>4, <2>1, <2>2, TakeStage
<1>6. TypeOK'
  <2>1. (Saving \/ Uploading)' => op'.row \in Rows
    BY <1>4, <1>5 DEF Saving, Uploading
  <2> QED
    BY <1>1, <1>2, <1>5, <2>1 DEF TypeOK, stores
<1>7. Counted' /\ Staged'
  BY <1>2, <1>5 DEF Counted, Staged, Saving, Uploading, stores
<1>8. Begun' /\ Stored'
  BY <1>2 DEF Begun, Stored, stores
<1> QED
  BY <1>6, <1>7, <1>8

LEMMA HouseKeepingKeeps ==
  ASSUME SyncInv, NEW s \in Answer, HouseKeeping(s)
  PROVE  SyncInv'
<1> USE SyncAssumption DEF SyncInv
<1>1. /\ station' = station /\ gbLoopApresent' = gbLoopApresent /\ link' = link
      /\ outages' = outages /\ crashes' = crashes
      /\ alive' = alive /\ old' = old /\ faults' \in 0..MaxFaults
  BY StatementWorld DEF HouseKeeping
<1>2. /\ UNCHANGED <<visits, known, offline, online, central, open, moved, told, disturbed>>
      /\ local' \subseteq local /\ local \subseteq local' \cup expired'
      /\ expired \subseteq expired' /\ expired' \subseteq expired \cup local
      /\ op' = Idle
  BY DEF HouseKeeping
<1>3. TypeOK'
  BY <1>1, <1>2, IdleIsOp DEF TypeOK, Saving, Uploading
<1>4. Counted' /\ Staged' /\ Begun' /\ Stored'
  BY <1>2, IdleIsOp DEF Counted, Staged, Begun, Stored, Saving, Uploading
<1> QED
  BY <1>3, <1>4

\* What neither saves nor uploads: the switch to online, the timer, the network, time, the end of
\* the program and its start.
LEMMA WorldKeeps ==
  ASSUME SyncInv,
         \/ StatusOnline \/ \E newDay \in BOOLEAN : DailyProcess(newDay)
         \/ LinkBreaks \/ LinkReturns \/ LoopAChanges \/ \E r \in Rows : RowGrowsOld(r)
         \/ Crash \/ Restart
  PROVE  SyncInv'
<1> USE SyncAssumption DEF SyncInv
<1>1. CASE StatusOnline \/ \E newDay \in BOOLEAN : DailyProcess(newDay)
  <2>1. \E then \in BOOLEAN : op' = At("select", 0, {}, then) \/ Finish(then)
    BY <1>1 DEF StatusOnline, DailyProcess, Upload
  <2>2. /\ UNCHANGED <<lane, world, visits, known, offline, stores, told, disturbed>>
        /\ online' \in {0, 1}
    BY <1>1 DEF StatusOnline, DailyProcess, TypeOK
  <2>3. op' \in Op /\ op'.at \in {"select", "idle", "keep"}
    BY <2>1, UploadStage
  <2>4. TypeOK'
    <3>1. ~Saving' /\ ~Uploading'
      BY <2>3 DEF Saving, Uploading
    <3> QED
      BY <2>2, <2>3, <3>1 DEF TypeOK, stores, lane, world
  <2>5. Counted' /\ Staged' /\ Begun' /\ Stored'
    BY <2>2, <2>3 DEF Counted, Staged, Begun, Stored, Saving, Uploading, stores
  <2> QED
    BY <2>4, <2>5
<1>2. CASE LinkBreaks \/ LinkReturns \/ LoopAChanges \/ \E r \in Rows : RowGrowsOld(r)
  <2>1. /\ UNCHANGED <<station, faults, crashes, alive, op, visits, known, offline, online,
                       stores, told, disturbed>>
        /\ gbLoopApresent' \in BOOLEAN
        /\ link' \in BOOLEAN /\ outages' \in 0..MaxOutages /\ old' \subseteq Rows
    <3>1. CASE LinkBreaks
      <4>1. outages \in 0..MaxOutages /\ outages < MaxOutages /\ outages' = outages + 1
        BY <3>1 DEF LinkBreaks, TypeOK
      <4>2. outages' \in 0..MaxOutages
        BY <4>1
      <4> QED
        BY <3>1, <4>2 DEF LinkBreaks, lane, TypeOK
    <3>2. CASE LinkReturns
      BY <3>2 DEF LinkReturns, lane, TypeOK
    <3>3. CASE \E r \in Rows : RowGrowsOld(r)
      BY <3>3 DEF RowGrowsOld, lane, TypeOK
    <3>4. CASE LoopAChanges
      BY <3>4 DEF LoopAChanges, world, TypeOK
    <3> QED
      BY <1>2, <3>1, <3>2, <3>3, <3>4
  <2>2. TypeOK'
    <3>1. (Saving' <=> Saving) /\ (Uploading' <=> Uploading)
      BY <2>1 DEF Saving, Uploading
    <3> QED
      BY <2>1, <3>1 DEF TypeOK, stores
  <2>3. Counted' /\ Staged' /\ Begun' /\ Stored'
    BY <2>1 DEF Counted, Staged, Begun, Stored, Saving, Uploading, stores
  <2> QED
    BY <2>2, <2>3
<1>3. CASE Crash
  <2>1. /\ UNCHANGED <<lane, link, outages, faults, old, visits, known, offline, online,
                       stores, told>>
        /\ alive' \in BOOLEAN /\ crashes' \in 0..MaxCrashes /\ op' = Idle
    <3>1. crashes < MaxCrashes /\ crashes' = crashes + 1 /\ crashes \in 0..MaxCrashes
      BY <1>3 DEF Crash, TypeOK
    <3>2. crashes' \in 0..MaxCrashes
      BY <3>1
    <3> QED
      BY <1>3, <3>2 DEF Crash
  <2>2. disturbed' \subseteq Rows
    BY <1>3 DEF Crash, Disturbs, TypeOK
  <2>3. TypeOK'
    <3>1. ~Saving' /\ ~Uploading'
      BY <2>1, IdleIsOp DEF Saving, Uploading
    <3> QED
      BY <2>1, <2>2, <3>1, IdleIsOp DEF TypeOK, lane, stores
  <2>4. Counted' /\ Staged' /\ Begun' /\ Stored'
    BY <2>1, IdleIsOp DEF Counted, Staged, Begun, Stored, Saving, Uploading, stores
  <2> QED
    BY <2>3, <2>4
<1>4. CASE Restart
  <2>1. /\ UNCHANGED <<station, link, outages, faults, crashes, old, visits, known, stores, told,
                       disturbed>>
        /\ alive' \in BOOLEAN /\ offline' = 0 /\ online' \in {0, 1} /\ gbLoopApresent' \in BOOLEAN
    BY <1>4 DEF Restart
  <2>2. op' \in Op /\ op'.at \in {"select", "idle", "keep"}
    BY <1>4, UploadStage DEF Restart, Upload
  <2>3. visits \in Nat
    BY DEF TypeOK
  <2>4. TypeOK'
    <3>1. ~Saving' /\ ~Uploading'
      BY <2>2 DEF Saving, Uploading
    <3> QED
      BY <2>1, <2>2, <3>1 DEF TypeOK, stores
  <2>5. Counted' /\ Staged' /\ Begun' /\ Stored'
    BY <2>1, <2>2, <2>3 DEF Counted, Staged, Begun, Stored, Saving, Uploading, stores
  <2> QED
    BY <2>4, <2>5
<1> QED
  BY <1>1, <1>2, <1>3, <1>4

LEMMA StepKeeps == SyncInv /\ [Next]_vars => SyncInv'
<1> SUFFICES ASSUME SyncInv, [Next]_vars
             PROVE  SyncInv'
  OBVIOUS
<1>1. CASE \E usable, found \in BOOLEAN : Save(usable, found)
  BY <1>1, SaveKeeps
<1>2. CASE Statement
  BY <1>2, CentralInsertKeeps, FallbackKeeps, MovementKeeps, SelectKeeps, PutKeeps,
     UncloseKeeps, DeleteKeeps, HouseKeepingKeeps DEF Statement
<1>3. CASE UNCHANGED vars
  BY <1>3 DEF vars, lane, world, stores, SyncInv, TypeOK, Counted, Staged, Begun, Stored, Saving,
     Uploading
<1> QED
  BY <1>1, <1>2, <1>3, WorldKeeps DEF Next

\* Whatever fails, every variable keeps its type and every statement knows its row (the handlers
\* of db.cpp from insertentrytrans to moveOfflineTransToCentral).
THEOREM SyncHolds == Spec => []SyncInv
BY InitHolds, StepKeeps, PTL DEF Spec

LEMMA DownHolds == Spec => []Down
<1>1. Init => Down
  BY DEF Init, Down
<1>2. Down /\ [Next]_vars => Down'
  <2> SUFFICES ASSUME Down, [Next]_vars
               PROVE  Down'
    OBVIOUS
  <2>1. CASE \E usable, found \in BOOLEAN : Save(usable, found)
    BY <2>1 DEF Save, Down, lane, world, At
  <2>2. CASE Statement
    <3>1. PICK s \in Answer :
            \/ CentralInsert(s) \/ Fallback(s) \/ UpdateMovement(s) \/ InsertMovement(s)
            \/ Select(s) \/ Put(s) \/ DeleteBeforeInsertMT(s) \/ CloseMovement(s)
            \/ DeleteLocalTrans(s) \/ HouseKeeping(s)
      BY <2>2 DEF Statement
    <3>2. op.at # "idle" /\ (LocalStatement(s) \/ CentralStatement(s) \/ UploadStatement(s))
      BY <3>1 DEF CentralInsert, Fallback, UpdateMovement, InsertMovement, Select, Put,
         DeleteBeforeInsertMT, CloseMovement, DeleteLocalTrans, HouseKeeping
    <3>3. alive' = alive
      BY <3>2 DEF LocalStatement, CentralStatement, UploadStatement, lane, world
    <3> QED
      BY <3>2, <3>3 DEF Down
  <2>3. CASE StatusOnline \/ \E newDay \in BOOLEAN : DailyProcess(newDay)
    <3>1. alive /\ alive' = alive
      BY <2>3 DEF StatusOnline, DailyProcess, lane, world
    <3> QED
      BY <3>1 DEF Down
  <2>4. CASE LinkBreaks \/ LinkReturns \/ LoopAChanges \/ \E r \in Rows : RowGrowsOld(r)
    BY <2>4 DEF LinkBreaks, LinkReturns, LoopAChanges, RowGrowsOld, world, Down
  <2>5. CASE Crash \/ Restart
    BY <2>5, IdleIsOp DEF Crash, Restart, Down
  <2>6. CASE UNCHANGED vars
    BY <2>6 DEF vars, lane, world, Down
  <2> QED
    BY <2>1, <2>2, <2>3, <2>4, <2>5, <2>6 DEF Next
<1> QED
  BY <1>1, <1>2, PTL DEF Spec

THEOREM TypeCorrect == Spec => []TypeOK
<1>1. SyncInv => TypeOK
  BY DEF SyncInv
<1> QED
  BY <1>1, SyncHolds, PTL

\* What SaveEntry and SaveExit reported as saved is at the centre or in the local database, or
\* was cleared by HouseKeeping.
THEOREM SavedMeansStored == Spec => []ToldMeansStored
<1>1. SyncInv => ToldMeansStored
  <2> SUFFICES ASSUME SyncInv, NEW r \in told
               PROVE  Fate(r) \in {"sent", "kept", "expired"}
    BY DEF ToldMeansStored
  <2>1. central[r] \in Nat /\ (central[r] > 0 \/ r \in local \/ r \in expired)
    BY DEF SyncInv, TypeOK, Stored
  <2> QED
    BY <2>1 DEF Fate
<1> QED
  BY <1>1, SyncHolds, PTL

------------------------------------------------------------------------------
\* Every statement keeps the promise of Records, or does what it does not speak of.

\* The transaction is over, so that one that is nowhere was refused.
Settled(r) == r <= visits /\ ~(Saving /\ op.row = r)

LEMMA FateStays ==
  ASSUME TypeOK, TypeOK', NEW r \in Rows,
         central[r] > 0 <=> central'[r] > 0,
         \/ central[r] > 0
         \/ /\ r \in local <=> r \in local'
            /\ r \in local \/ ((r \in expired <=> r \in expired')
                               /\ (r \in expired \/ (Settled(r)' <=> Settled(r))))
  PROVE  Fate(r)' = Fate(r)
<1>1. central[r] \in Nat /\ central'[r] \in Nat
  BY DEF TypeOK
<1> QED
  BY <1>1 DEF Fate, Settled

LEMMA FateNow ==
  ASSUME TypeOK, NEW r \in Rows
  PROVE  /\ Fate(r) \in {"new", "kept", "sent", "refused", "expired"}
         /\ central[r] > 0 => Fate(r) = "sent"
         /\ central[r] = 0 /\ r \in local => Fate(r) = "kept"
         /\ central[r] = 0 /\ r \notin local /\ r \notin expired =>
              Fate(r) = IF Settled(r) THEN "refused" ELSE "new"
<1>1. central[r] \in Nat
  BY DEF TypeOK
<1> QED
  BY <1>1 DEF Fate, Settled

LEMMA FateThen ==
  ASSUME TypeOK', NEW r \in Rows
  PROVE  /\ central'[r] > 0 => Fate(r)' = "sent"
         /\ central'[r] = 0 /\ r \in local' => Fate(r)' = "kept"
         /\ central'[r] = 0 /\ r \notin local' /\ r \in expired' => Fate(r)' = "expired"
         /\ central'[r] = 0 /\ r \notin local' /\ r \notin expired' /\ Settled(r)' =>
              Fate(r)' = "refused"
<1>1. central'[r] \in Nat
  BY DEF TypeOK
<1> QED
  BY <1>1 DEF Fate, Settled

LEMMA RecordStays ==
  ASSUME \A r \in Rows : Fate(r)' = Fate(r), old' = old
  PROVE  UNCHANGED Promise!recordVars
BY DEF Promise!recordVars

LEMMA RecordBecomes ==
  ASSUME NEW r \in Rows, NEW from, NEW to, Fate(r) \in from, Fate(r)' = to,
         \A q \in Rows \ {r} : Fate(q)' = Fate(q), old' = old
  PROVE  Promise!Becomes(r, from, to)
BY DEF Promise!Becomes

\* Steps with no statement that stores, moves or clears a row.
LEMMA NothingRecorded ==
  ASSUME SyncInv, SyncInv', ~Saving, ~Saving', UNCHANGED <<visits, local, central, expired>>
  PROVE  \A r \in Rows : Fate(r)' = Fate(r)
<1>1. \A r \in Rows : Settled(r)' <=> Settled(r)
  BY DEF Settled
<1> QED
  BY <1>1, FateStays DEF SyncInv

LEMMA SaveRecords ==
  ASSUME SyncInv, SyncInv', NEW usable \in BOOLEAN, NEW found \in BOOLEAN, Save(usable, found)
  PROVE  UNCHANGED Promise!recordVars
<1>1. /\ visits' = visits + 1 /\ ~Saving /\ Saving' /\ op'.row = visits + 1
      /\ UNCHANGED <<local, central, expired>> /\ old' = old /\ visits \in Nat
  BY DEF Save, SyncInv, TypeOK, Idle, At, Saving, stores, lane, world
<1>2. \A r \in Rows : Settled(r)' <=> Settled(r)
  BY <1>1 DEF Settled, Rows
<1>3. \A r \in Rows : Fate(r)' = Fate(r)
  BY <1>1, <1>2, FateStays DEF SyncInv
<1> QED
  BY <1>1, <1>3, RecordStays

LEMMA CentralInsertRecords ==
  ASSUME SyncInv, SyncInv', NEW s \in Answer, CentralInsert(s)
  PROVE  \E r \in Rows : Promise!Send(r) \/ Promise!Refuse(r)
<1> USE DEF SyncInv
<1>0. PICK row \in Rows : row = op.row
  BY DEF CentralInsert, TypeOK, Saving
<1>1. /\ s.ok \in BOOLEAN /\ s.done \in BOOLEAN /\ (s.ok => s.done) /\ old' = old
  BY StatementWorld DEF CentralInsert
<1>2. /\ row = visits /\ Saving
      /\ central[row] = 0 /\ row \notin local /\ row \notin expired
      /\ UNCHANGED <<visits, local, expired>>
  BY <1>0 DEF CentralInsert, TypeOK, Counted, Staged, Saving
<1>3. op' = Idle \/ op'.row = row
  BY <1>0 DEF CentralInsert, Move, TypeOK, Op
<1>4. \A q \in Rows \ {row} : Fate(q)' = Fate(q)
  <2> TAKE q \in Rows \ {row}
  <2>1. central'[q] = central[q]
    BY <1>0, <1>2 DEF CentralInsert, TypeOK
  <2>2. Settled(q)' <=> Settled(q)
    BY <1>0, <1>2, <1>3, IdleIsOp DEF Settled, Saving
  <2> QED
    BY <1>2, <2>1, <2>2, FateStays
<1>5. Fate(row) = "new"
  BY <1>0, <1>2, FateNow DEF Settled
<1>6. CASE s.done
  <2>1. central'[row] > 0
    BY <1>0, <1>2, <1>6 DEF CentralInsert, TypeOK
  <2>2. Fate(row)' = "sent"
    BY <1>2, <2>1, FateThen
  <2> QED
    BY <1>1, <1>2, <1>4, <1>5, <2>2, RecordBecomes DEF Promise!Send
<1>7. CASE ~s.done
  <2>1. central' = central /\ op' = Idle
    BY <1>1, <1>7 DEF CentralInsert
  <2>2. Settled(row)'
    BY <1>0, <1>2, <2>1, IdleIsOp DEF Settled, Saving, TypeOK
  <2>3. Fate(row)' = "refused"
    BY <1>2, <2>1, <2>2, FateThen
  <2> QED
    BY <1>1, <1>2, <1>4, <1>5, <2>3, RecordBecomes DEF Promise!Refuse
<1> QED
  BY <1>1, <1>6, <1>7

LEMMA FallbackRecords ==
  ASSUME SyncInv, SyncInv', NEW s \in Answer, Fallback(s)
  PROVE  \E r \in Rows : Promise!Keep(r) \/ Promise!Refuse(r)
<1> USE DEF SyncInv
<1>0. PICK row \in Rows : row = op.row
  BY DEF Fallback, TypeOK, Saving
<1>1. /\ s.ok \in BOOLEAN /\ s.done \in BOOLEAN /\ old' = old
  BY StatementWorld DEF Fallback
<1>2. /\ row = visits /\ Saving /\ op' = Idle
      /\ central[row] = 0 /\ row \notin local /\ row \notin expired
      /\ UNCHANGED <<visits, central, expired>>
      /\ local' = IF s.done THEN local \cup {row} ELSE local
  BY <1>0 DEF Fallback, TypeOK, Counted, Staged, Saving
<1>3. Settled(row)' /\ \A q \in Rows \ {row} : Settled(q)' <=> Settled(q)
  BY <1>0, <1>2, IdleIsOp DEF Settled, Saving, TypeOK
<1>4. \A q \in Rows \ {row} : Fate(q)' = Fate(q)
  BY <1>2, <1>3, FateStays
<1>5. Fate(row) = "new"
  BY <1>0, <1>2, FateNow DEF Settled
<1>6. CASE s.done
  <2>1. Fate(row)' = "kept"
    BY <1>2, <1>6, FateThen
  <2> QED
    BY <1>1, <1>2, <1>4, <1>5, <2>1, RecordBecomes DEF Promise!Keep
<1>7. CASE ~s.done
  <2>1. Fate(row)' = "refused"
    BY <1>2, <1>3, <1>7, FateThen
  <2> QED
    BY <1>1, <1>2, <1>4, <1>5, <2>1, RecordBecomes DEF Promise!Refuse
<1> QED
  BY <1>1, <1>6, <1>7

LEMMA MovementRecords ==
  ASSUME SyncInv, SyncInv', NEW s \in Answer, UpdateMovement(s) \/ InsertMovement(s)
  PROVE  UNCHANGED Promise!recordVars
<1> USE DEF SyncInv
<1>1. old' = old
  BY StatementWorld DEF UpdateMovement, InsertMovement
<1>2. /\ central[op.row] > 0
      /\ op' = Idle \/ op'.row = op.row
      /\ UNCHANGED <<visits, local, central, expired>>
  BY DEF UpdateMovement, InsertMovement, Move, Staged, TypeOK, Op
<1>3. \A q \in Rows : q # op.row => (Settled(q)' <=> Settled(q))
  BY <1>2, IdleIsOp DEF Settled, Saving
<1>4. \A q \in Rows : Fate(q)' = Fate(q)
  BY <1>2, <1>3, FateStays
<1> QED
  BY <1>1, <1>4, RecordStays

LEMMA PutRecords ==
  ASSUME SyncInv, SyncInv', NEW s \in Answer, Put(s)
  PROVE  UNCHANGED Promise!recordVars \/ \E r \in Rows : Promise!Send(r)
<1> USE DEF SyncInv
<1>0. PICK row \in Rows : row = op.row
  BY DEF Put, TypeOK, Uploading
<1>1. old' = old /\ s.done \in BOOLEAN
  BY StatementWorld DEF Put
<1>2. row \in local /\ ~Saving /\ UNCHANGED <<visits, local, expired>>
  BY <1>0 DEF Put, Staged, Saving, Uploading
<1>3. ~Saving'
  <2>1. CASE s.ok
    BY <2>1 DEF Put, Move, Saving, TypeOK, Op
  <2>2. CASE ~s.ok
    <3>1. op.rest \in SUBSET Rows /\ op.then \in BOOLEAN /\ Take(op.rest, op.then)
      BY <2>2 DEF Put, NextRow, TypeOK, Op
    <3> QED
      BY <3>1, TakeStage DEF Saving
  <2> QED
    BY <2>1, <2>2
<1>4. \A q \in Rows : Settled(q)' <=> Settled(q)
  BY <1>2, <1>3 DEF Settled
<1>5. \A q \in Rows \ {row} : Fate(q)' = Fate(q)
  <2> TAKE q \in Rows \ {row}
  <2>1. central'[q] = central[q]
    BY <1>0 DEF Put, TypeOK
  <2> QED
    BY <1>2, <1>4, <2>1, FateStays
<1>6. CASE central[row] > 0 \/ ~s.done
  <2>1. central[row] > 0 <=> central'[row] > 0
    BY <1>0, <1>6 DEF Put, TypeOK
  <2>2. Fate(row)' = Fate(row)
    BY <1>2, <1>4, <2>1, FateStays
  <2> QED
    BY <1>1, <1>5, <2>2, RecordStays
<1>7. CASE central[row] = 0 /\ s.done
  <2>1. Fate(row) = "kept"
    BY <1>2, <1>7, FateNow
  <2>2. central'[row] > 0
    BY <1>0, <1>7 DEF Put, TypeOK
  <2>3. Fate(row)' = "sent"
    BY <2>2, FateThen
  <2> QED
    BY <1>1, <1>5, <2>1, <2>3, RecordBecomes DEF Promise!Send
<1> QED
  BY <1>1, <1>6, <1>7 DEF TypeOK

LEMMA DeleteRecords ==
  ASSUME SyncInv, SyncInv', NEW s \in Answer, DeleteLocalTrans(s)
  PROVE  UNCHANGED Promise!recordVars
<1> USE DEF SyncInv
<1>0. PICK row \in Rows : row = op.row
  BY DEF DeleteLocalTrans, TypeOK, Uploading
<1>1. old' = old
  BY StatementWorld DEF DeleteLocalTrans
<1>2. /\ central[row] > 0 /\ ~Saving
      /\ UNCHANGED <<visits, central, expired>>
      /\ \A q \in Rows \ {row} : q \in local <=> q \in local'
  BY <1>0 DEF DeleteLocalTrans, Staged, Saving
<1>3. ~Saving'
  <2>1. op.rest \in SUBSET Rows /\ op.then \in BOOLEAN /\ Take(op.rest, op.then)
    BY DEF DeleteLocalTrans, NextRow, TypeOK, Op
  <2> QED
    BY <2>1, TakeStage DEF Saving
<1>4. \A q \in Rows : Settled(q)' <=> Settled(q)
  BY <1>2, <1>3 DEF Settled
<1>5. \A q \in Rows : Fate(q)' = Fate(q)
  BY <1>2, <1>4, FateStays
<1> QED
  BY <1>1, <1>5, RecordStays

LEMMA HouseKeepingRecords ==
  ASSUME SyncInv, SyncInv', NEW s \in Answer, HouseKeeping(s)
  PROVE  UNCHANGED Promise!recordVars \/ \E S \in SUBSET Rows : Promise!Expire(S)
<1> USE DEF SyncInv
<1>1. old' = old /\ s.done \in BOOLEAN
  BY StatementWorld DEF HouseKeeping
<1>2. /\ ~Saving /\ ~Saving' /\ UNCHANGED <<visits, central>>
      /\ local' = IF s.done THEN local \ old ELSE local
      /\ expired' = IF s.done THEN expired \cup (local \cap old) ELSE expired
  BY IdleIsOp DEF HouseKeeping, Saving
<1>3. CASE ~s.done
  BY <1>1, <1>2, <1>3, NothingRecorded, RecordStays
<1>4. CASE s.done
  <2> DEFINE S == {r \in local \cap old : central[r] = 0}
  <2>1. S \in SUBSET Rows
    BY DEF TypeOK
  <2>2. ASSUME NEW r \in S
        PROVE  Fate(r) = "kept" /\ Fate(r)' = "expired" /\ r \in old
    BY <1>2, <1>4, <2>1, FateNow, FateThen
  <2>3. ASSUME NEW r \in Rows \ S
        PROVE  Fate(r)' = Fate(r)
    <3>1. central[r] > 0 \/ r \notin local \/ r \notin old
      BY DEF TypeOK
    <3>2. Settled(r)' <=> Settled(r)
      BY <1>2 DEF Settled
    <3>3. central[r] > 0 \/ ((r \in local <=> r \in local') /\ (r \in expired <=> r \in expired'))
      BY <1>2, <1>4, <3>1
    <3> QED
      BY <1>2, <3>2, <3>3, FateStays
  <2>4. Promise!Expire(S)
    <3> HIDE DEF S
    <3>1. S \subseteq {r \in old : [q \in Rows |-> Fate(q)][r] = "kept"}
      BY <2>1, <2>2
    <3>2. [q \in Rows |-> Fate(q)]' =
            [r \in Rows |-> IF r \in S THEN "expired" ELSE [q \in Rows |-> Fate(q)][r]]
      BY <2>1, <2>2, <2>3
    <3> QED
      BY <1>1, <3>1, <3>2 DEF Promise!Expire
  <2> QED
    BY <2>1, <2>4
<1> QED
  BY <1>1, <1>3, <1>4

LEMMA CrashRecords ==
  ASSUME SyncInv, SyncInv', Crash
  PROVE  UNCHANGED Promise!recordVars \/ \E r \in Rows : Promise!Refuse(r)
<1> USE DEF SyncInv
<1>1. /\ op' = Idle /\ ~Saving' /\ old' = old
      /\ UNCHANGED <<visits, local, central, expired>>
  BY IdleIsOp DEF Crash, Saving, stores
<1>2. CASE ~Saving
  BY <1>1, <1>2, NothingRecorded, RecordStays
<1>3. CASE Saving
  <2>0. PICK row \in Rows : row = op.row
    BY <1>3 DEF TypeOK
  <2>1. \A q \in Rows \ {row} : Settled(q)' <=> Settled(q)
    BY <1>1, <2>0 DEF Settled
  <2>2. \A q \in Rows \ {row} : Fate(q)' = Fate(q)
    BY <1>1, <2>1, FateStays
  <2>3. CASE central[row] > 0
    <3>1. Fate(row)' = Fate(row)
      BY <1>1, <2>3, FateStays
    <3> QED
      BY <1>1, <2>2, <3>1, RecordStays
  <2>4. CASE central[row] = 0 /\ row \notin local /\ row \notin expired
    <3>1. ~Settled(row) /\ Settled(row)'
      BY <1>1, <1>3, <2>0 DEF Settled, Counted, TypeOK
    <3>2. Fate(row) = "new" /\ Fate(row)' = "refused"
      BY <1>1, <2>4, <3>1, FateNow, FateThen
    <3> QED
      BY <1>1, <2>2, <3>2, RecordBecomes DEF Promise!Refuse
  <2> QED
    BY <1>3, <2>0, <2>3, <2>4 DEF Staged, Saving
<1> QED
  BY <1>2, <1>3

LEMMA OthersRecord ==
  ASSUME SyncInv, Down, SyncInv',
         \/ StatusOnline \/ \E newDay \in BOOLEAN : DailyProcess(newDay)
         \/ LinkBreaks \/ LinkReturns \/ LoopAChanges \/ Restart
         \/ \E s \in Answer : Select(s) \/ DeleteBeforeInsertMT(s) \/ CloseMovement(s)
  PROVE  UNCHANGED Promise!recordVars
<1> USE DEF SyncInv
<1>1. UNCHANGED <<visits, local, central, expired>> /\ old' = old
  BY StatementWorld DEF StatusOnline, DailyProcess, LinkBreaks, LinkReturns, LoopAChanges, Restart, Select,
     DeleteBeforeInsertMT, CloseMovement, stores, lane, world
<1>2. Saving' <=> Saving
  <2>1. CASE LinkBreaks \/ LinkReturns \/ LoopAChanges
    BY <2>1 DEF LinkBreaks, LinkReturns, LoopAChanges, Saving
  <2>2. CASE \E s \in Answer : DeleteBeforeInsertMT(s) \/ CloseMovement(s)
    BY <2>2 DEF DeleteBeforeInsertMT, CloseMovement, Move, Saving, TypeOK, Op
  <2>3. CASE \E s \in Answer : Select(s)
    <3>1. \E S \in SUBSET local : Take(S, op.then)
      BY <2>3 DEF Select
    <3>2. local \subseteq Rows /\ op.then \in BOOLEAN /\ ~Saving
      BY <2>3 DEF TypeOK, Op, Select, Saving
    <3>3. PICK S \in SUBSET Rows : Take(S, op.then)
      BY <3>1, <3>2
    <3> QED
      BY <3>2, <3>3, TakeStage DEF Saving
  <2>4. CASE StatusOnline \/ (\E newDay \in BOOLEAN : DailyProcess(newDay))
    <3>1. \E then \in BOOLEAN : op' = At("select", 0, {}, then) \/ Finish(then)
      BY <2>4 DEF StatusOnline, DailyProcess, Upload
    <3>2. op = Idle
      BY <2>4 DEF StatusOnline, DailyProcess
    <3> QED
      BY <3>1, <3>2, UploadStage, IdleIsOp DEF Saving
  <2>5. CASE Restart
    BY <2>5 DEF Restart, Upload, At, Saving, Down
  <2> QED
    BY <2>1, <2>2, <2>3, <2>4, <2>5
<1>3. CASE ~Saving
  BY <1>1, <1>2, <1>3, NothingRecorded, RecordStays
<1>4. CASE Saving
  <2>1. LinkBreaks \/ LinkReturns \/ LoopAChanges
    BY <1>4, IdleIsOp DEF StatusOnline, DailyProcess, Restart, Down, Select,
       DeleteBeforeInsertMT, CloseMovement, Saving
  <2>2. op' = op
    BY <2>1 DEF LinkBreaks, LinkReturns, LoopAChanges
  <2>3. \A q \in Rows : Settled(q)' <=> Settled(q)
    BY <1>1, <1>2, <2>2 DEF Settled
  <2>4. \A q \in Rows : Fate(q)' = Fate(q)
    BY <1>1, <2>3, FateStays
  <2> QED
    BY <1>1, <2>4, RecordStays
<1> QED
  BY <1>3, <1>4

LEMMA OldRecords ==
  ASSUME SyncInv, SyncInv', NEW r \in Rows, RowGrowsOld(r)
  PROVE  Promise!GrowsOld(r)
<1>1. UNCHANGED <<visits, local, central, expired, op>> /\ old' = old \cup {r}
  BY DEF RowGrowsOld, stores
<1>2. \A q \in Rows : Settled(q)' <=> Settled(q)
  BY <1>1 DEF Settled, Saving
<1>3. \A q \in Rows : Fate(q)' = Fate(q)
  BY <1>1, <1>2, FateStays DEF SyncInv
<1> QED
  BY <1>1, <1>3 DEF Promise!GrowsOld

LEMMA StepRecords ==
  SyncInv /\ Down /\ SyncInv' /\ [Next]_vars => [Promise!RecordNext]_Promise!recordVars
<1> SUFFICES ASSUME SyncInv, Down, SyncInv', [Next]_vars
             PROVE  Promise!RecordNext \/ UNCHANGED Promise!recordVars
  OBVIOUS
<1>1. CASE \E usable, found \in BOOLEAN : Save(usable, found)
  BY <1>1, SaveRecords
<1>2. CASE \E s \in Answer : CentralInsert(s)
  BY <1>2, CentralInsertRecords DEF Promise!RecordNext
<1>3. CASE \E s \in Answer : Fallback(s)
  BY <1>3, FallbackRecords DEF Promise!RecordNext
<1>4. CASE \E s \in Answer : UpdateMovement(s) \/ InsertMovement(s)
  BY <1>4, MovementRecords
<1>5. CASE \E s \in Answer : Put(s)
  BY <1>5, PutRecords DEF Promise!RecordNext
<1>6. CASE \E s \in Answer : DeleteLocalTrans(s)
  BY <1>6, DeleteRecords
<1>7. CASE \E s \in Answer : HouseKeeping(s)
  BY <1>7, HouseKeepingRecords DEF Promise!RecordNext
<1>8. CASE Crash
  BY <1>8, CrashRecords DEF Promise!RecordNext
<1>9. CASE \E r \in Rows : RowGrowsOld(r)
  BY <1>9, OldRecords DEF Promise!RecordNext
<1>10. CASE UNCHANGED vars
  <2>1. UNCHANGED <<visits, local, central, expired, op>> /\ old' = old
    BY <1>10 DEF vars, stores, lane, world
  <2>2. \A q \in Rows : Settled(q)' <=> Settled(q)
    BY <2>1 DEF Settled, Saving
  <2>3. \A q \in Rows : Fate(q)' = Fate(q)
    BY <2>1, <2>2, FateStays DEF SyncInv
  <2> QED
    BY <2>1, <2>3, RecordStays
<1> QED
  BY <1>1, <1>2, <1>3, <1>4, <1>5, <1>6, <1>7, <1>8, <1>9, <1>10, OthersRecord
     DEF Next, Statement

\* The statements implement Records: a stored transaction stays stored until it is at the centre
\* or too old, though the centre, a statement or the program fail at any moment.
THEOREM KeepsThePromise == Spec => StoredRowsAreKept
<1>1. Init => Promise!RecordInit
  <2> SUFFICES ASSUME Init
               PROVE  [r \in Rows |-> Fate(r)] = [r \in Rows |-> "new"] /\ old = {}
    BY DEF Promise!RecordInit
  <2>1. SyncInv /\ ~Saving /\ visits = 0 /\ local = {} /\ expired = {} /\ old = {}
        /\ central = [r \in Rows |-> 0]
    BY InitHolds, IdleIsOp DEF Init, Saving
  <2>2. \A r \in Rows : ~Settled(r) /\ central[r] = 0
    BY <2>1 DEF Settled, Rows
  <2>3. \A r \in Rows : Fate(r) = "new"
    BY <2>1, <2>2, FateNow DEF SyncInv
  <2> QED
    BY <2>1, <2>3
<1>2. Spec => []SyncInv /\ []Down
  BY SyncHolds, DownHolds, PTL
<1> QED
  BY <1>1, <1>2, StepRecords, PTL DEF Spec, StoredRowsAreKept, Promise!RecordSpec
------------------------------------------------------------------------------
\* Outages alone neither lose nor double a transaction.

\* The movement rows that the exit of a transaction at the centre closed.
Ends == IF station = "exit" THEN 1 ELSE 0

\* A transaction is so often at the centre, or not; in the local database, or not; and its exit
\* closed so many movements.
Lies(r, c, l, m) == central[r] = c /\ (r \in local <=> l) /\ moved[r] = m

AtHand(r) == (Saving \/ Uploading) /\ op.row = r

Clean == 1..visits \ (disturbed \cup expired)

\* Where a transaction that nothing disturbed lies between two of its statements, and when OP_IO
\* is at another one.
Once(r) ==
  /\ ~AtHand(r) => Lies(r, 1, FALSE, Ends) \/ Lies(r, 0, TRUE, 0) \/ Lies(r, 0, FALSE, 0)
  /\ AtHand(r) /\ op.at \in {"insert", "fallback"} => Lies(r, 0, FALSE, 0)
  /\ AtHand(r) /\ op.at \in {"movement", "movementInsert"} => Lies(r, 1, FALSE, 0)
  /\ AtHand(r) /\ op.at = "put" => Lies(r, 0, TRUE, 0)
  /\ AtHand(r) /\ op.at \in {"unopen", "closing"} => Lies(r, 1, TRUE, 0)
  /\ AtHand(r) /\ op.at = "delete" => Lies(r, 1, TRUE, Ends)

\* No movement is closed for a transaction to come, nor by the statements of an entry.
Unmoved == \A r \in Rows : r > visits => moved[r] = 0
Exits == op.at \in {"movement", "movementInsert", "unopen", "closing"} => station = "exit"

OnceInv == Unmoved /\ Exits /\ \A r \in Clean : Once(r)

\* A transaction that the statement is not about stays, or is the next to be uploaded.
LEMMA OthersOnce ==
  ASSUME NEW r, Once(r), ~AtHand(r),
         central'[r] = central[r], moved'[r] = moved[r], r \in local' <=> r \in local,
         station' = station, AtHand(r)' => op'.at = "put" /\ r \in local
  PROVE  Once(r)'
BY DEF Once, AtHand, Lies, Ends

\* What a statement's answer leaves clean.
LEMMA CleanShrinks ==
  ASSUME visits' = visits, disturbed \subseteq disturbed', expired \subseteq expired'
  PROVE  Clean' \subseteq Clean
BY DEF Clean

LEMMA CleanRow ==
  ASSUME SyncInv, NEW r \in Clean
  PROVE  /\ r \in Rows /\ r <= visits /\ r \notin disturbed /\ r \notin expired
         /\ central[r] \in Nat /\ moved[r] \in Nat
BY SyncAssumption DEF SyncInv, TypeOK, Clean, Rows

LEMMA StageOnce ==
  ASSUME SyncInv, OnceInv, NEW r \in Clean, AtHand(r)
  PROVE  /\ op.at \in {"insert", "fallback"} => Lies(r, 0, FALSE, 0)
         /\ op.at \in {"movement", "movementInsert"} => Lies(r, 1, FALSE, 0)
         /\ op.at = "put" => Lies(r, 0, TRUE, 0)
         /\ op.at \in {"unopen", "closing"} => Lies(r, 1, TRUE, 0)
         /\ op.at = "delete" => Lies(r, 1, TRUE, Ends)
BY DEF OnceInv, Once

LEMMA InitOnce == Init => OnceInv
BY SyncAssumption DEF Init, OnceInv, Unmoved, Exits, Clean, Idle, At, Rows

\* The transaction that begins is nowhere yet.
LEMMA SaveOnce ==
  ASSUME SyncInv, OnceInv, NEW usable \in BOOLEAN, NEW found \in BOOLEAN, Save(usable, found)
  PROVE  OnceInv'
<1>1. /\ visits \in Nat /\ visits' = visits + 1 /\ visits + 1 \in Rows /\ op = Idle
      /\ UNCHANGED <<lane, stores, disturbed>>
      /\ op' = At(IF usable THEN "insert" ELSE "fallback", visits + 1, {}, FALSE)
  BY SyncAssumption DEF Save, SyncInv, TypeOK, Rows
<1>2. op'.at \in {"insert", "fallback"} /\ op'.row = visits + 1
  BY <1>1 DEF At
<1>3. Unmoved' /\ Exits'
  <2>1. moved' = moved
    BY <1>1 DEF stores
  <2>2. \A r \in Rows : r > visits + 1 => r > visits
    BY <1>1 DEF Rows
  <2> QED
    BY <1>1, <1>2, <2>1, <2>2 DEF OnceInv, Unmoved, Exits
<1>4. ASSUME NEW r \in Clean'
      PROVE  Once(r)'
  <2>1. CASE r = visits + 1
    <3>1. central[r] = 0 /\ r \notin local /\ moved[r] = 0
      <4>1. central[r] \in Nat /\ moved[r] = 0 /\ r \in Rows /\ ~(r <= visits)
        BY <1>1, <2>1 DEF OnceInv, Unmoved, SyncInv, TypeOK
      <4>2. r \notin 1..visits /\ ~(central[r] > 0)
        BY <1>1, <2>1, <4>1 DEF SyncInv, Begun
      <4> QED
        BY <4>1, <4>2 DEF SyncInv, Begun
    <3>2. Lies(r, 0, FALSE, 0)' /\ AtHand(r)'
      BY <1>1, <1>2, <2>1, <3>1 DEF Lies, stores, AtHand, Saving
    <3> QED
      BY <1>2, <3>2 DEF Once
  <2>2. CASE r # visits + 1
    <3>1. r \in Clean
      BY <1>1, <1>4, <2>2 DEF Clean, stores
    <3>2. ~AtHand(r) /\ ~AtHand(r)'
      BY <1>1, <1>2, <2>2, IdleIsOp DEF AtHand, Saving, Uploading
    <3>3. station' = station /\ central' = central /\ moved' = moved /\ local' = local
      BY <1>1 DEF lane, stores
    <3> QED
      BY <3>1, <3>2, <3>3, OthersOnce DEF OnceInv
  <2> QED
    BY <2>1, <2>2
<1> QED
  BY <1>3, <1>4 DEF OnceInv

\* The statements of a transaction that is being saved: the answer decides where it lies, and an
\* answer that does not say what was done disturbs it.
LEMMA SavingOnce ==
  ASSUME SyncInv, OnceInv, NEW s \in Answer,
         CentralInsert(s) \/ Fallback(s) \/ UpdateMovement(s) \/ InsertMovement(s)
  PROVE  OnceInv'
<1>1. /\ station' = station
      /\ s.ok \in BOOLEAN /\ s.done \in BOOLEAN /\ (s.ok => s.done)
  BY StatementWorld DEF SyncInv, CentralInsert, Fallback, UpdateMovement, InsertMovement
<1>2. /\ op.row \in Rows /\ op.row = visits /\ visits \in Nat /\ Saving
      /\ central \in [Rows -> Nat] /\ moved \in [Rows -> Nat] /\ op \in Op
  BY DEF SyncInv, TypeOK, Counted, Saving, CentralInsert, Fallback, UpdateMovement,
     InsertMovement
<1>3. /\ visits' = visits /\ expired' = expired /\ disturbed \subseteq disturbed'
      /\ \A r \in Rows \ {op.row} : central'[r] = central[r] /\ moved'[r] = moved[r]
                                     /\ (r \in local' <=> r \in local)
  BY <1>2 DEF CentralInsert, Fallback, UpdateMovement, InsertMovement, Closes, Disturbs
<1>4. /\ op' = Idle \/ (op'.at \in {"movement", "movementInsert"} /\ op'.row = op.row)
      /\ Exits'
  <2>1. CASE CentralInsert(s)
    <3>1. op' = Idle \/ (op' = [op EXCEPT !.at = "movement"] /\ station = "exit")
            \/ (op' = [op EXCEPT !.at = "movementInsert"] /\ station = "exit")
      BY <2>1 DEF CentralInsert, Move
    <3> QED
      BY <1>1, <1>2, <3>1, IdleIsOp DEF Op, Exits
  <2>2. CASE Fallback(s)
    BY <2>2, IdleIsOp DEF Fallback, Exits
  <2>3. CASE UpdateMovement(s)
    <3>1. station = "exit"
      BY <2>3 DEF UpdateMovement, OnceInv, Exits
    <3>2. op' = Idle \/ op' = [op EXCEPT !.at = "movementInsert"]
      BY <2>3 DEF UpdateMovement, Move
    <3> QED
      BY <1>1, <1>2, <3>1, <3>2, IdleIsOp DEF Op, Exits
  <2>4. CASE InsertMovement(s)
    BY <2>4, IdleIsOp DEF InsertMovement, Exits
  <2> QED
    BY <2>1, <2>2, <2>3, <2>4
<1>5. Unmoved'
  <2>1. \A r \in Rows : r > visits => r # op.row
    BY <1>2 DEF Rows
  <2> QED
    BY <1>3, <2>1 DEF OnceInv, Unmoved
<1>6. ASSUME NEW r \in Clean'
      PROVE  Once(r)'
  <2>1. r \in Clean /\ r \in Rows /\ r \notin disturbed'
    BY <1>3, <1>6, CleanShrinks, CleanRow DEF Clean
  <2>2. CASE r # op.row
    <3>1. ~AtHand(r) /\ ~AtHand(r)'
      BY <1>4, <2>2, IdleIsOp DEF AtHand, Saving, Uploading
    <3> QED
      BY <1>1, <1>3, <2>1, <2>2, <3>1, OthersOnce DEF OnceInv
  <2>3. CASE r = op.row
    <3>1. AtHand(r)
      BY <1>2, <2>3 DEF AtHand
    <3>2. CASE CentralInsert(s)
      <4>1. Lies(r, 0, FALSE, 0) /\ local' = local /\ moved' = moved
        BY <2>1, <3>1, <3>2, StageOnce DEF CentralInsert
      <4>2. ~(s.done /\ ~s.ok)
        BY <2>1, <2>3, <3>2 DEF CentralInsert, Disturbs
      <4>3. CASE s.ok
        <5>1. Lies(r, 1, FALSE, 0)'
          BY <1>1, <1>2, <2>3, <3>2, <4>1, <4>3 DEF CentralInsert, Lies
        <5>2. CASE station = "exit"
          <6>1. op' = [op EXCEPT !.at = "movement"] \/ op' = [op EXCEPT !.at = "movementInsert"]
            BY <3>2, <4>3, <5>2 DEF CentralInsert, Move
          <6>2. op'.at \in {"movement", "movementInsert"} /\ op'.row = r
            BY <1>2, <2>3, <6>1 DEF Op
          <6> QED
            BY <5>1, <6>2 DEF Once, AtHand, Saving
        <5>3. CASE station # "exit"
          <6>1. op' = Idle /\ Ends' = 0
            BY <1>1, <3>2, <5>3 DEF CentralInsert, Ends
          <6> QED
            BY <5>1, <6>1, IdleIsOp DEF Once, AtHand, Saving, Uploading
        <5> QED
          BY <5>2, <5>3
      <4>4. CASE ~s.ok
        <5>1. op' = Idle /\ central' = central
          BY <1>1, <3>2, <4>2, <4>4 DEF CentralInsert
        <5>2. Lies(r, 0, FALSE, 0)'
          BY <4>1, <5>1 DEF Lies
        <5> QED
          BY <5>1, <5>2, IdleIsOp DEF Once, AtHand, Saving, Uploading
      <4> QED
        BY <1>1, <4>3, <4>4
    <3>3. CASE Fallback(s)
      <4>1. Lies(r, 0, FALSE, 0) /\ central' = central /\ moved' = moved /\ op' = Idle
        BY <2>1, <3>1, <3>3, StageOnce DEF Fallback
      <4>2. Lies(r, 0, TRUE, 0)' \/ Lies(r, 0, FALSE, 0)'
        BY <2>3, <3>3, <4>1 DEF Fallback, Lies
      <4> QED
        BY <4>1, <4>2, IdleIsOp DEF Once, AtHand, Saving, Uploading
    <3>4. CASE UpdateMovement(s) \/ InsertMovement(s)
      <4>1. /\ Lies(r, 1, FALSE, 0) /\ central' = central /\ local' = local
            /\ station = "exit"
        BY <2>1, <3>1, <3>4, StageOnce DEF UpdateMovement, InsertMovement, OnceInv, Exits
      <4>2. s.ok /\ s.done
        BY <1>1, <2>1, <2>3, <3>4 DEF UpdateMovement, InsertMovement, Disturbs
      <4>3. CASE UpdateMovement(s) /\ op.row \notin open
        <5>1. op' = [op EXCEPT !.at = "movementInsert"] /\ moved' = moved
          <6>1. [s EXCEPT !.done = FALSE].done = FALSE
            BY DEF Answer
          <6>2. Closes([s EXCEPT !.done = FALSE]) /\ Move("movementInsert")
            BY <4>2, <4>3 DEF UpdateMovement
          <6> QED
            BY <6>1, <6>2 DEF Move, Closes
        <5>2. op'.at = "movementInsert" /\ op'.row = r
          BY <1>2, <2>3, <5>1 DEF Op
        <5>3. Lies(r, 1, FALSE, 0)'
          BY <4>1, <5>1 DEF Lies
        <5> QED
          BY <5>2, <5>3 DEF Once, AtHand, Saving
      <4>4. CASE InsertMovement(s) \/ op.row \in open
        <5>1. op' = Idle /\ moved' = [moved EXCEPT ![op.row] = @ + 1]
          <6>1. CASE InsertMovement(s)
            BY <4>2, <6>1 DEF InsertMovement, Closes
          <6>2. CASE UpdateMovement(s) /\ op.row \in open
            <7>1. [s EXCEPT !.done = TRUE].done = TRUE
              BY DEF Answer
            <7>2. Closes([s EXCEPT !.done = TRUE]) /\ op' = Idle
              BY <4>2, <6>2 DEF UpdateMovement
            <7> QED
              BY <7>1, <7>2 DEF Closes
          <6> QED
            BY <3>4, <4>4, <6>1, <6>2
        <5>2. Lies(r, 1, FALSE, 1)' /\ Ends' = 1
          BY <1>1, <1>2, <2>3, <4>1, <5>1 DEF Lies, Ends
        <5> QED
          BY <5>1, <5>2, IdleIsOp DEF Once, AtHand, Saving, Uploading
      <4> QED
        BY <3>4, <4>3, <4>4
    <3> QED
      BY <3>2, <3>3, <3>4
  <2> QED
    BY <2>2, <2>3
<1> QED
  BY <1>4, <1>5, <1>6 DEF OnceInv

\* The statements of an upload: a row is at the centre once before the local one is deleted, and
\* one that was answered wrongly is disturbed.
LEMMA UploadingOnce ==
  ASSUME SyncInv, OnceInv, NEW s \in Answer,
         Put(s) \/ DeleteBeforeInsertMT(s) \/ CloseMovement(s) \/ DeleteLocalTrans(s)
  PROVE  OnceInv'
<1>1. /\ station' = station
      /\ s.ok \in BOOLEAN /\ s.done \in BOOLEAN /\ (s.ok => s.done)
  BY StatementWorld DEF SyncInv, Put, DeleteBeforeInsertMT, CloseMovement, DeleteLocalTrans
<1>2. /\ op.row \in Rows /\ op \in Op /\ Uploading /\ ~Saving
      /\ op.row \in local /\ op.rest \subseteq local \ {op.row}
      /\ op.rest \in SUBSET Rows /\ op.then \in BOOLEAN
      /\ central \in [Rows -> Nat] /\ moved \in [Rows -> Nat] /\ visits \in Nat
  BY DEF SyncInv, TypeOK, Staged, Saving, Uploading, Put, DeleteBeforeInsertMT, CloseMovement,
     DeleteLocalTrans, Op
<1>3. /\ visits' = visits /\ expired' = expired /\ disturbed \subseteq disturbed'
      /\ \A r \in Rows \ {op.row} : central'[r] = central[r] /\ moved'[r] = moved[r]
                                     /\ (r \in local' <=> r \in local)
  BY <1>2 DEF Put, DeleteBeforeInsertMT, CloseMovement, DeleteLocalTrans, Closes, Disturbs
<1>4. \/ /\ op'.at \in {"unopen", "closing", "delete"} /\ op'.row = op.row
         /\ op'.at \in {"unopen", "closing"} => station = "exit"
      \/ op'.at \in {"idle", "keep"}
      \/ op'.at = "put" /\ op'.row \in op.rest
  <2>1. CASE Put(s) /\ s.ok
    <3>1. \/ op' = [op EXCEPT !.at = "unopen"] /\ station = "exit"
          \/ op' = [op EXCEPT !.at = "delete"]
      BY <2>1 DEF Put, Move
    <3> QED
      BY <1>2, <3>1 DEF Op
  <2>2. CASE DeleteBeforeInsertMT(s) \/ CloseMovement(s)
    <3>1. station = "exit"
      BY <2>2 DEF DeleteBeforeInsertMT, CloseMovement, OnceInv, Exits
    <3>2. op' = [op EXCEPT !.at = "closing"] \/ op' = [op EXCEPT !.at = "delete"]
      BY <2>2 DEF DeleteBeforeInsertMT, CloseMovement, Move
    <3> QED
      BY <1>2, <3>1, <3>2 DEF Op
  <2>3. CASE (Put(s) /\ ~s.ok) \/ DeleteLocalTrans(s)
    <3>1. Take(op.rest, op.then)
      BY <2>3 DEF Put, DeleteLocalTrans, NextRow
    <3> QED
      BY <1>2, <3>1, TakeStage
  <2> QED
    BY <2>1, <2>2, <2>3
<1>5. Unmoved' /\ Exits'
  <2>1. op.row \in 1..visits
    BY <1>2 DEF SyncInv, Begun
  <2>2. \A r \in Rows : r > visits => r # op.row
    BY <1>2, <2>1 DEF Rows
  <2> QED
    BY <1>1, <1>3, <1>4, <2>2 DEF OnceInv, Unmoved, Exits
<1>6. ASSUME NEW r \in Clean'
      PROVE  Once(r)'
  <2>1. r \in Clean /\ r \in Rows /\ r \notin disturbed'
    BY <1>3, <1>6, CleanShrinks, CleanRow DEF Clean
  <2>2. CASE r # op.row
    <3>1. ~AtHand(r) /\ (AtHand(r)' => op'.at = "put" /\ r \in local)
      BY <1>2, <1>4, <2>2 DEF AtHand, Saving, Uploading
    <3> QED
      BY <1>1, <1>3, <2>1, <2>2, <3>1, OthersOnce DEF OnceInv
  <2>3. CASE r = op.row
    <3>1. AtHand(r)
      BY <1>2, <2>3 DEF AtHand
    <3>2. CASE Put(s)
      <4>1. Lies(r, 0, TRUE, 0) /\ local' = local /\ moved' = moved
        BY <2>1, <3>1, <3>2, StageOnce DEF Put
      <4>2. ~(s.done /\ ~s.ok)
        BY <2>1, <2>3, <3>2 DEF Put, Disturbs
      <4>3. CASE s.ok
        <5>1. Lies(r, 1, TRUE, 0)'
          BY <1>1, <1>2, <2>3, <3>2, <4>1, <4>3 DEF Put, Lies
        <5>2. \/ op' = [op EXCEPT !.at = "unopen"]
              \/ op' = [op EXCEPT !.at = "delete"] /\ station # "exit"
          BY <3>2, <4>3 DEF Put, Move
        <5>3. /\ op'.row = r
              /\ op'.at = "unopen" \/ (op'.at = "delete" /\ Ends' = 0)
          BY <1>1, <1>2, <2>3, <5>2 DEF Op, Ends
        <5> QED
          BY <5>1, <5>3 DEF Once, AtHand, Uploading
      <4>4. CASE ~s.ok
        <5>1. central' = central /\ Take(op.rest, op.then)
          BY <1>1, <3>2, <4>2, <4>4 DEF Put, NextRow
        <5>2. Lies(r, 0, TRUE, 0)'
          BY <4>1, <5>1 DEF Lies
        <5>3. ~AtHand(r)'
          BY <1>2, <2>3, <5>1, TakeStage DEF AtHand, Saving, Uploading
        <5> QED
          BY <5>2, <5>3 DEF Once
      <4> QED
        BY <1>1, <4>3, <4>4
    <3>3. CASE DeleteBeforeInsertMT(s) \/ CloseMovement(s)
      <4>1. Lies(r, 1, TRUE, 0) /\ central' = central /\ local' = local /\ station = "exit"
        BY <2>1, <3>1, <3>3, StageOnce DEF DeleteBeforeInsertMT, CloseMovement, OnceInv, Exits
      <4>2. s.ok /\ s.done
        BY <1>1, <2>1, <2>3, <3>3 DEF DeleteBeforeInsertMT, CloseMovement, Disturbs
      <4>3. CASE DeleteBeforeInsertMT(s)
        <5>1. op' = [op EXCEPT !.at = "closing"] /\ moved' = moved
          BY <4>3 DEF DeleteBeforeInsertMT, Move
        <5>2. op'.at = "closing" /\ op'.row = r
          BY <1>2, <2>3, <5>1 DEF Op
        <5>3. Lies(r, 1, TRUE, 0)'
          BY <4>1, <5>1 DEF Lies
        <5> QED
          BY <5>2, <5>3 DEF Once, AtHand, Uploading
      <4>4. CASE CloseMovement(s)
        <5>1. op' = [op EXCEPT !.at = "delete"] /\ moved' = [moved EXCEPT ![op.row] = @ + 1]
          BY <4>2, <4>4 DEF CloseMovement, Move, Closes
        <5>2. op'.at = "delete" /\ op'.row = r
          BY <1>2, <2>3, <5>1 DEF Op
        <5>3. Lies(r, 1, TRUE, 1)' /\ Ends' = 1
          BY <1>1, <1>2, <2>3, <4>1, <5>1 DEF Lies, Ends
        <5> QED
          BY <5>2, <5>3 DEF Once, AtHand, Uploading
      <4> QED
        BY <3>3, <4>3, <4>4
    <3>4. CASE DeleteLocalTrans(s)
      <4>1. /\ Lies(r, 1, TRUE, Ends) /\ central' = central /\ moved' = moved
            /\ Take(op.rest, op.then)
        BY <2>1, <3>1, <3>4, StageOnce DEF DeleteLocalTrans, NextRow
      <4>2. s.ok /\ s.done
        BY <1>1, <2>1, <2>3, <3>4 DEF DeleteLocalTrans, Disturbs
      <4>3. Lies(r, 1, FALSE, Ends)'
        BY <1>1, <2>3, <3>4, <4>1, <4>2 DEF DeleteLocalTrans, Lies, Ends
      <4>4. ~AtHand(r)'
        BY <1>2, <2>3, <4>1, TakeStage DEF AtHand, Saving, Uploading
      <4> QED
        BY <4>3, <4>4 DEF Once
    <3> QED
      BY <3>2, <3>3, <3>4
  <2> QED
    BY <2>2, <2>3
<1> QED
  BY <1>5, <1>6 DEF OnceInv

\* What begins an upload or ends it, and HouseKeeping, which clears what it takes away.
LEMMA BetweenOnce ==
  ASSUME SyncInv, OnceInv, ~Saving, ~Uploading,
         visits' = visits, station' = station, central' = central, moved' = moved,
         disturbed \subseteq disturbed', expired \subseteq expired',
         \A r \in Clean' : r \in local' <=> r \in local,
         op'.at \in {"idle", "select", "keep"} \/ (op'.at = "put" /\ op'.row \in local)
  PROVE  OnceInv'
<1>1. Unmoved' /\ Exits'
  BY DEF OnceInv, Unmoved, Exits
<1>2. ASSUME NEW r \in Clean'
      PROVE  Once(r)'
  <2>1. r \in Clean
    BY <1>2, CleanShrinks
  <2>2. ~AtHand(r) /\ (AtHand(r)' => op'.at = "put" /\ r \in local)
    BY DEF AtHand, Saving, Uploading
  <2> QED
    BY <1>2, <2>1, <2>2, OthersOnce DEF OnceInv
<1> QED
  BY <1>1, <1>2 DEF OnceInv

LEMMA SelectOnce ==
  ASSUME SyncInv, OnceInv, NEW s \in Answer, Select(s)
  PROVE  OnceInv'
<1>1. station' = station /\ ~Saving /\ ~Uploading
  BY StatementWorld DEF SyncInv, Select, Saving, Uploading
<1>2. local \subseteq Rows /\ op.then \in BOOLEAN
  BY DEF SyncInv, TypeOK, Op
<1>3. PICK S \in SUBSET local : Take(S, op.then)
  BY DEF Select
<1>4. S \in SUBSET Rows /\ S \subseteq local
  BY <1>2
<1>5. op'.at \in {"idle", "keep"} \/ (op'.at = "put" /\ op'.row \in local)
  BY <1>2, <1>3, <1>4, TakeStage
<1> QED
  BY <1>1, <1>5, BetweenOnce DEF Select, stores

LEMMA HouseKeepingOnce ==
  ASSUME SyncInv, OnceInv, NEW s \in Answer, HouseKeeping(s)
  PROVE  OnceInv'
<1>1. station' = station /\ ~Saving /\ ~Uploading
  BY StatementWorld DEF SyncInv, HouseKeeping, Saving, Uploading
<1>2. /\ visits' = visits /\ central' = central /\ moved' = moved /\ disturbed' = disturbed
      /\ expired \subseteq expired' /\ op'.at = "idle"
  BY IdleIsOp DEF HouseKeeping
<1>3. \A r \in Clean' : r \in local' <=> r \in local
  BY DEF HouseKeeping, Clean
<1> QED
  BY <1>1, <1>2, <1>3, BetweenOnce

\* A crash between two statements disturbs the transaction at hand and no other.
LEMMA CrashOnce ==
  ASSUME SyncInv, OnceInv, Crash
  PROVE  OnceInv'
<1>1. /\ UNCHANGED <<station, visits, local, central, moved, expired>>
      /\ disturbed \subseteq disturbed' /\ op'.at = "idle"
  BY IdleIsOp DEF Crash, Disturbs, lane, stores
<1>2. Unmoved' /\ Exits'
  BY <1>1 DEF OnceInv, Unmoved, Exits
<1>3. ASSUME NEW r \in Clean'
      PROVE  Once(r)'
  <2>1. r \in Clean
    BY <1>1, <1>3, CleanShrinks
  <2>2. ~AtHand(r)
    BY <1>3 DEF Crash, Disturbs, AtHand, Clean
  <2>3. ~AtHand(r)'
    BY <1>1 DEF AtHand, Saving, Uploading
  <2> QED
    BY <1>1, <2>1, <2>2, <2>3, OthersOnce DEF OnceInv
<1> QED
  BY <1>2, <1>3 DEF OnceInv

LEMMA OthersOnceStep ==
  ASSUME SyncInv, Down, OnceInv,
         \/ StatusOnline \/ \E newDay \in BOOLEAN : DailyProcess(newDay)
         \/ Restart
  PROVE  OnceInv'
<1>1. ~Saving /\ ~Uploading
  BY IdleIsOp DEF Down, Restart, StatusOnline, DailyProcess, Saving, Uploading
<1>2. \E then \in BOOLEAN : op' = At("select", 0, {}, then) \/ Finish(then)
  BY DEF StatusOnline, DailyProcess, Restart, Upload
<1>3. op'.at \in {"select", "idle", "keep"}
  BY <1>2, UploadStage
<1>4. UNCHANGED <<station, visits, stores, disturbed>>
  BY DEF StatusOnline, DailyProcess, Restart, lane
<1> QED
  BY <1>1, <1>3, <1>4, BetweenOnce DEF stores

LEMMA StepOnce == SyncInv /\ Down /\ OnceInv /\ [Next]_vars => OnceInv'
<1> SUFFICES ASSUME SyncInv, Down, OnceInv, [Next]_vars
             PROVE  OnceInv'
  OBVIOUS
<1>1. CASE \E usable, found \in BOOLEAN : Save(usable, found)
  BY <1>1, SaveOnce
<1>2. CASE Statement
  BY <1>2, SavingOnce, SelectOnce, UploadingOnce, HouseKeepingOnce DEF Statement
<1>3. CASE LinkBreaks \/ LinkReturns \/ LoopAChanges \/ (\E r \in Rows : RowGrowsOld(r)) \/ UNCHANGED vars
  <2>1. UNCHANGED <<station, visits, op, stores, disturbed>>
    BY <1>3 DEF LinkBreaks, LinkReturns, LoopAChanges, RowGrowsOld, lane, world, vars
  <2>2. Unmoved' /\ Exits'
    BY <2>1 DEF OnceInv, Unmoved, Exits, stores
  <2>3. ASSUME NEW r \in Clean'
        PROVE  Once(r)'
    BY <2>1, <2>3 DEF OnceInv, Once, Clean, stores, AtHand, Saving, Uploading, Lies, Ends
  <2> QED
    BY <2>2, <2>3 DEF OnceInv
<1> QED
  BY <1>1, <1>2, <1>3, CrashOnce, OthersOnceStep DEF Next

\* Outages, however many, neither lose nor double a transaction: one that no fault and no crash met
\* is in exactly one of the two databases, once, and the exit of one that is at the centre closed
\* exactly one movement (SaveEntry, SaveExit and moveOfflineTransToCentral in db.cpp).
THEOREM UndisturbedIsOnce == Spec => []UndisturbedOnce
<1>1. SyncInv /\ OnceInv => UndisturbedOnce
  <2> SUFFICES ASSUME SyncInv, OnceInv, NEW r \in 1..visits \ (disturbed \cup expired),
                      (~Saving /\ ~Uploading) \/ op.row # r
               PROVE  /\ central[r] + Cardinality({r} \cap local)
                           = IF Fate(r) = "refused" THEN 0 ELSE 1
                      /\ moved[r] = IF station = "exit" THEN central[r] ELSE 0
    BY DEF UndisturbedOnce
  <2>1. r \in Clean /\ ~AtHand(r)
    BY DEF Clean, AtHand
  <2>2. Lies(r, 1, FALSE, Ends) \/ Lies(r, 0, TRUE, 0) \/ Lies(r, 0, FALSE, 0)
    BY <2>1 DEF OnceInv, Once
  <2>3. r \in Rows /\ r <= visits /\ r \notin expired
    BY <2>1, CleanRow
  <2>4. Settled(r)
    BY <2>1, <2>3 DEF Settled, AtHand
  <2>5. Cardinality({r} \cap local) = IF r \in local THEN 1 ELSE 0
    <3>1. {r} \cap local = IF r \in local THEN {r} ELSE {}
      OBVIOUS
    <3> QED
      BY <3>1, FS_EmptySet, FS_Singleton
  <2>6. CASE Lies(r, 1, FALSE, Ends)
    BY <2>3, <2>5, <2>6, FateNow DEF SyncInv, Lies, Ends
  <2>7. CASE Lies(r, 0, TRUE, 0)
    BY <2>3, <2>5, <2>7, FateNow DEF SyncInv, Lies
  <2>8. CASE Lies(r, 0, FALSE, 0)
    BY <2>3, <2>4, <2>5, <2>8, FateNow DEF SyncInv, Lies
  <2> QED
    BY <2>2, <2>6, <2>7, <2>8
<1>2. Spec => []SyncInv /\ []Down
  BY SyncHolds, DownHolds, PTL
<1> QED
  BY <1>1, <1>2, InitOnce, StepOnce, PTL DEF Spec
==============================================================================
