--------------------------- MODULE ParamDownload ---------------------------
(***************************************************************************)
(* How an edit in the central database reaches what the station decides    *)
(* by (db.cpp, operation.cpp): a download copies rows of a central table   *)
(* to the local table, tells the central database which it has fetched,    *)
(* and a load copies the local table to memory.  The ten tables share the  *)
(* machinery and differ in their recipes; OP_IO handles one table at a     *)
(* time, so a behaviour follows one.  Others edit the central table at any *)
(* moment, each statement may fail, and the station may be restarted.      *)
(***************************************************************************)
EXTENDS Integers, FiniteSets

CONSTANTS
  Tables,       \* the tables that are looked at, of the ten below
  Rows,         \* keys of a table's rows
  BatchSize,    \* kBatchSize: rows one season download takes
  MaxEdits,     \* bound on the edits of the central table
  MaxFaults,    \* bound on the statements that fail
  MaxRestarts   \* bound on the restarts of the station

------------------------------------------------------------------------------
\* The recipes.  pending: which rows a download takes ("all", those with their own flag, or all if the
\* table's flag is set); clear: when the local table is emptied; use: whether the station decides by the local
\* table, by a list in memory that loads add to, or by a copy in memory.

Recipe(pending, clear, use) == [pending |-> pending, clear |-> clear, use |-> use]

downloadseason         == Recipe("row", "never", "local")
downloadvehicletype    == Recipe("all", "never", "list")
downloadledmessage     == Recipe("row", "never", "copy")
downloadparameter      == Recipe("row", "never", "copy")
downloadstationsetup   == Recipe("all", "never", "copy")
downloadtariffsetup    == Recipe("all", "first", "copy")
downloadtarifftypeinfo == Recipe("all", "first", "copy")
downloadxtariff        == Recipe("all", "first", "copy")
downloadholidaymst     == Recipe("table", "found", "copy")
downloadTR             == Recipe("all", "never", "list")

recipes ==
  [season |-> downloadseason, vehicletype |-> downloadvehicletype, ledmessage |-> downloadledmessage,
   parameter |-> downloadparameter, stationsetup |-> downloadstationsetup, tariff |-> downloadtariffsetup,
   typeinfo |-> downloadtarifftypeinfo, xtariff |-> downloadxtariff, holiday |-> downloadholidaymst,
   tr |-> downloadTR]

VARIABLE params

\* central: version of each row; fetched: rows the central database believes the station to have; local,
\* memory: <<row, version>> pairs, version 0 is another zone's row in its place; job: what OP_IO is doing;
\* remoteErr: m_remote_db_err_flag; clean: nothing failed, was edited or left out since the last request;
\* lost: rows that are marked as fetched though the station has them not.
Jobs == [stage : {"idle", "clear", "select", "rows", "flag", "load"}, by : {"request", "monitor", "load"},
         got : [Rows -> Nat], todo : SUBSET Rows, count : Nat, again : BOOLEAN]

\* again: the load's second attempt; count: rows that were written.
Idle == [stage |-> "idle", by |-> "load", got |-> [r \in Rows |-> 0], todo |-> {}, count |-> 0,
         again |-> FALSE]

\* A new station: nothing is stored, everything is to be fetched, and the parameters are being loaded.
ParamInit ==
  \E t \in Tables :
    params = [table |-> t, central |-> [r \in Rows |-> 1], fetched |-> {}, local |-> {}, memory |-> {},
              job |-> [Idle EXCEPT !.stage = IF t = "season" THEN "select" ELSE "load", !.by = "request"],
              remoteErr |-> FALSE, clean |-> FALSE, lost |-> {},
              edits |-> 0, faults |-> 0, restarts |-> 0]

p == params
Become(s) == params' = s
recipe == recipes[p.table]
Current(s) == {<<r, s.central[r]>> : r \in Rows}
Versions(set, r) == {q \in set : q[1] = r}
Fails(s) == [s EXCEPT !.faults = @ + 1, !.clean = FALSE]
MayFail == p.faults < MaxFaults
Stage(s, stage) == [s EXCEPT !.job.stage = stage]

------------------------------------------------------------------------------
\* A download.

StartDownload(s, by) ==
  Stage([s EXCEPT !.job = [Idle EXCEPT !.by = by, !.again = by = "load"]],
        IF recipe.clear = "first" THEN "clear" ELSE "select")

\* After the download: the second attempt of a load, the load that follows a request, or nothing.
Downloaded(s) ==
  IF \/ s.job.by = "load"
     \/ s.job.by = "request" /\ s.table \in {"vehicletype", "ledmessage", "parameter", "stationsetup", "holiday", "tr"}
     \/ s.job.by = "request" /\ recipe.use # "local" /\ s.job.count > 0
     \/ s.job.by = "monitor" /\ ~s.remoteErr
  THEN Stage(s, "load") ELSE [s EXCEPT !.job = Idle]

\* The central server asks for it; the monitor can ask for the parameters only.
Request(by) ==
  /\ p.job.stage = "idle"
  /\ by = "monitor" => p.table = "parameter"
  /\ Become(StartDownload([p EXCEPT !.clean = TRUE], by))

\* The local table is emptied before anything is read.
Clear ==
  /\ p.job.stage = "clear"
  /\ \/ Become(Stage([p EXCEPT !.local = {}], "select"))
     \/ MayFail /\ Become(Downloaded(Fails(p)))

\* The rows a download takes: some BatchSize of the pending seasons, all pending rows, or all rows.
Taken(set) ==
  LET pending == Rows \ p.fetched
  IN CASE recipe.pending = "row" /\ p.table = "season" ->
            set \subseteq pending /\ Cardinality(set) = IF Cardinality(pending) < BatchSize THEN Cardinality(pending) ELSE BatchSize
       [] recipe.pending = "row" -> set = pending
       [] OTHER -> set = Rows

\* The holiday's flag is not looked at when a load asks.
NothingFlagged == recipe.pending = "table" /\ p.job.by # "load" /\ p.fetched = Rows

\* Select; only the holidays are emptied now, and a failure of that is not looked at.
Select(rows) ==
  /\ p.job.stage = "select" /\ ~NothingFlagged /\ Taken(rows)
  /\ LET got == [p EXCEPT !.remoteErr = FALSE, !.job.todo = rows,
                          !.job.got = [r \in Rows |-> IF r \in rows THEN p.central[r] ELSE 0],
                          !.clean = @ /\ (recipe.pending = "row" => rows = Rows \ p.fetched)]
     IN \/ Become(Stage([got EXCEPT !.local = IF recipe.clear = "found" THEN {} ELSE @], "rows"))
        \/ recipe.clear = "found" /\ MayFail /\ Become(Stage(Fails(got), "rows"))

SelectNothing ==
  /\ p.job.stage = "select" /\ NothingFlagged
  /\ Become(Downloaded([p EXCEPT !.remoteErr = FALSE]))

SelectFails ==
  /\ p.job.stage = "select" /\ MayFail
  /\ Become(Downloaded([Fails(p) EXCEPT !.remoteErr = TRUE]))

\* write...2local: the tables that are never emptied look for the row first.
Upsert(local, r, v) == (local \ Versions(local, r)) \cup {<<r, v>>}
Insert(local, r, v) == local \cup {<<r, v>>}

writeseason2local(local, r, v)         == Upsert(local, r, v)
writevehicletype2local(local, r, v)    == Upsert(local, r, v)
writeledmessage2local(local, r, v)     == Upsert(local, r, v)
writeparameter2local(local, r, v)      == Upsert(local, r, v)
writestationsetup2local(local, r, v)   == Upsert(local, r, v)
writetr2local(local, r, v)             == Upsert(local, r, v)
writetarifftypeinfo2local(local, r, v) == Insert(local, r, v)
writextariff2local(local, r, v)        == Insert(local, r, v)
writeholidaymst2local(local, r, v)     == Insert(local, r, v)

\* A load's own download of the tariff names no group: another zone's row comes along.
writetariffsetup2local(local, r, v) ==
  IF p.job.by = "load" THEN Insert(Insert(local, r, v), r, 0) ELSE Insert(local, r, v)

Written(r) ==
  LET v == p.job.got[r] IN
  CASE p.table = "season"       -> writeseason2local(p.local, r, v)
    [] p.table = "vehicletype"  -> writevehicletype2local(p.local, r, v)
    [] p.table = "ledmessage"   -> writeledmessage2local(p.local, r, v)
    [] p.table = "parameter"    -> writeparameter2local(p.local, r, v)
    [] p.table = "stationsetup" -> writestationsetup2local(p.local, r, v)
    [] p.table = "tariff"       -> writetariffsetup2local(p.local, r, v)
    [] p.table = "typeinfo"     -> writetarifftypeinfo2local(p.local, r, v)
    [] p.table = "xtariff"      -> writextariff2local(p.local, r, v)
    [] p.table = "holiday"      -> writeholidaymst2local(p.local, r, v)
    [] p.table = "tr"           -> writetr2local(p.local, r, v)

\* The mark goes by the key: an edit since the select is marked too.
MarkedRow(s, r) ==
  IF recipe.pending # "row" THEN s
  ELSE [s EXCEPT !.fetched = @ \cup {r}, !.remoteErr = FALSE,
                 !.lost = IF p.central[r] # p.job.got[r] THEN @ \cup {r} ELSE @ \ {r}]

\* Variant: a row that could not be written is marked all the same.
RowMarkedAnyway(r) ==
  /\ p.job.stage = "rows" /\ r \in p.job.todo
  /\ LET next == [p EXCEPT !.job.todo = @ \ {r}]
     IN \/ Become(MarkedRow([next EXCEPT !.local = Written(r), !.job.count = @ + 1], r))
        \/ MayFail /\ Become(MarkedRow(Fails(next), r))

\* A row is written, then marked; a failed one is passed over.
Row(r) ==
  /\ p.job.stage = "rows" /\ r \in p.job.todo
  /\ LET next == [p EXCEPT !.job.todo = @ \ {r}]
         written == [next EXCEPT !.local = Written(r)]
     IN \/ Become(MarkedRow([written EXCEPT !.job.count = @ + 1], r))
        \/ MayFail /\ Become(Fails(next))
        \/ recipe.pending = "row" /\ MayFail /\ Become([Fails(written) EXCEPT !.remoteErr = TRUE])

RowsDone ==
  /\ p.job.stage = "rows" /\ p.job.todo = {}
  /\ Become(IF recipe.pending = "table" /\ p.job.by # "load" THEN Stage(p, "flag") ELSE Downloaded(p))

\* What a mark of the whole table loses: it does not depend on what was written or edited meanwhile.
LosesAll(s) == [s EXCEPT !.fetched = Rows, !.lost = {r \in Rows : Versions(s.local, r) # {<<r, s.central[r]>>}}]

MarkTable ==
  /\ p.job.stage = "flag"
  /\ \/ Become(Downloaded(LosesAll(p)))
     \/ MayFail /\ Become(Downloaded([Fails(p) EXCEPT !.remoteErr = TRUE]))

------------------------------------------------------------------------------
\* A load.

\* WriteTariff2RAM: a cell is overwritten, the last of its rows wins, and none is emptied.
WriteTariff2RAM(memory) ==
  {m \in SUBSET (p.local \cup memory) :
     \A r \in Rows : LET from == IF Versions(p.local, r) # {} THEN p.local ELSE memory
                     IN Versions(m, r) \subseteq from
                        /\ Cardinality(Versions(m, r)) = IF Versions(from, r) = {} THEN 0 ELSE 1}

\* What memory may be after the load of a table; the messages of an exit are loaded as those of an entry.
loadEntrymessage   == {p.local}
loadmessage        == loadEntrymessage
loadParam          == {p.local}
loadstationsetup   == {p.local}
LoadTariffTypeInfo == {p.local}
LoadXTariff        == {p.local}
LoadHoliday        == {p.local}
LoadTariff         == WriteTariff2RAM(p.memory)

\* These add to the list there is.
loadvehicletype == {p.memory \cup p.local}
loadTR          == {p.memory \cup p.local}

LoadedMemory ==
  CASE p.table = "ledmessage"   -> loadmessage
    [] p.table = "parameter"    -> loadParam
    [] p.table = "stationsetup" -> loadstationsetup
    [] p.table = "typeinfo"     -> LoadTariffTypeInfo
    [] p.table = "xtariff"      -> LoadXTariff
    [] p.table = "holiday"      -> LoadHoliday
    [] p.table = "tariff"       -> LoadTariff
    [] p.table = "vehicletype"  -> loadvehicletype
    [] p.table = "tr"           -> loadTR

\* The loads that download once if nothing is stored.
LoadsAgain == p.table \in {"tariff", "typeinfo", "xtariff", "holiday"}

Load ==
  /\ p.job.stage = "load" /\ p.local # {}
  /\ \E m \in LoadedMemory : Become([p EXCEPT !.memory = m, !.job = Idle])

LoadNothing ==
  /\ p.job.stage = "load" /\ p.local = {}
  /\ Become(IF LoadsAgain /\ ~p.job.again THEN StartDownload(p, "load") ELSE [p EXCEPT !.job = Idle])

LoadFails ==
  /\ p.job.stage = "load" /\ MayFail
  /\ Become([Fails(p) EXCEPT !.job = Idle])

------------------------------------------------------------------------------
\* Everyone else.

\* Someone edits a row and asks for it to be fetched again.
Edit(r) ==
  /\ p.edits < MaxEdits
  /\ Become([p EXCEPT !.central[r] = @ + 1, !.fetched = IF recipe.pending = "table" THEN {} ELSE @ \ {r},
                      !.lost = @ \ {r}, !.clean = FALSE, !.edits = @ + 1])

\* The holiday's flag is a row of the parameters: their download marks it as fetched.
ParametersTakeFlag ==
  /\ p.table = "holiday" /\ p.job.stage = "idle" /\ p.fetched # Rows
  /\ Become(LosesAll(p))

clearseason ==
  /\ p.table = "season" /\ p.job.stage = "idle" /\ p.local # {}
  /\ Become([p EXCEPT !.local = {}, !.lost = p.fetched])

\* LoadParameter, or the download of the seasons that follows it.
Restart ==
  /\ p.restarts < MaxRestarts
  /\ LET fresh == [p EXCEPT !.memory = {}, !.job = Idle, !.clean = FALSE, !.restarts = @ + 1]
     IN Become(IF p.table = "season" THEN StartDownload(fresh, "request") ELSE Stage(fresh, "load"))

ParamNext ==
  \/ \E by \in {"request", "monitor"} : Request(by)
  \/ Clear \/ SelectNothing \/ SelectFails \/ RowsDone \/ MarkTable \/ Load \/ LoadNothing \/ LoadFails
  \/ \E rows \in SUBSET Rows : Select(rows)
  \/ \E r \in Rows : Row(r) \/ Edit(r)
  \/ ParametersTakeFlag \/ clearseason \/ Restart

ParamSpec == ParamInit /\ [][ParamNext]_params

------------------------------------------------------------------------------
\* The state is well formed.
ParamTypeOK ==
  /\ p.table \in Tables /\ p.central \in [Rows -> Nat] /\ p.fetched \subseteq Rows /\ p.lost \subseteq Rows
  /\ p.local \subseteq Rows \X Nat /\ p.memory \subseteq Rows \X Nat
  /\ p.job \in Jobs /\ p.remoteErr \in BOOLEAN /\ p.clean \in BOOLEAN
  /\ p.edits \in 0..MaxEdits /\ p.faults \in 0..MaxFaults /\ p.restarts \in 0..MaxRestarts

\* What the station decides by: the seasons are looked up in the local table.
InUse == IF recipe.use = "local" THEN p.local ELSE p.memory

\* When a download that was asked for is done, nothing failed or was edited meanwhile, and the season batch
\* was not full, then the station decides by the rows as they are in the central database: whatever failed
\* before is made good, except rows that were marked although the station has them not.  (The lists that
\* are added to hold the old row as well.)
EditsArrive ==
  p.clean /\ p.job.stage = "idle" =>
    \A r \in Rows \ p.lost :
      /\ <<r, p.central[r]>> \in InUse
      /\ recipe.use # "list" => Versions(InUse, r) = {<<r, p.central[r]>>}
=============================================================================
