------------------------------- MODULE Records -------------------------------
(***************************************************************************)
(* What the station promises about the transactions it records, whatever   *)
(* happens to the central server: a transaction is stored at the station   *)
(* or at the centre or refused at once; one that is stored at the station  *)
(* stays stored until it is at the centre, or too old to be kept; one that *)
(* is at the centre stays there.                                           *)
(***************************************************************************)
CONSTANT Rows   \* transactions

VARIABLES
  record,       \* what became of each transaction
  old           \* transactions past giDataKeepDays

recordVars == <<record, old>>

Fate == {"new", "kept", "sent", "refused", "expired"}

RecordInit ==
  /\ record = [r \in Rows |-> "new"]
  /\ old = {}

Becomes(r, from, to) ==
  /\ record[r] \in from
  /\ record' = [record EXCEPT ![r] = to]
  /\ UNCHANGED old

Keep(r)   == Becomes(r, {"new"}, "kept")
Send(r)   == Becomes(r, {"new", "kept"}, "sent")
Refuse(r) == Becomes(r, {"new"}, "refused")

GrowsOld(r) ==
  /\ old' = old \cup {r}
  /\ UNCHANGED record

\* HouseKeeping clears every old transaction at once.
Expire(S) ==
  /\ S \subseteq {r \in old : record[r] = "kept"}
  /\ record' = [r \in Rows |-> IF r \in S THEN "expired" ELSE record[r]]
  /\ UNCHANGED old

RecordNext ==
  \/ \E r \in Rows : Keep(r) \/ Send(r) \/ Refuse(r) \/ GrowsOld(r)
  \/ \E S \in SUBSET Rows : Expire(S)

RecordSpec == RecordInit /\ [][RecordNext]_recordVars
==============================================================================
