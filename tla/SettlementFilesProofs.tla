----------------------- MODULE SettlementFilesProofs -----------------------
(***************************************************************************)
(* Proofs about the files that claim the money: a record that was written  *)
(* is kept, and a day that counts as backed up left nothing, for every set *)
(* of payments, every clock and every pattern of failures and crashes.     *)
(***************************************************************************)
EXTENDS SettlementFiles, FiniteSetTheorems, TLAPS

At(s, r)    == s.job[r].at
Nm(s, r)    == s.job[r].name
IsNew(s, r) == s.job[r].new

Moving == {"mounted", "copied", "leaving"}
Safe(s, r)    == At(s, r) \in {"written", "mounted", "copied", "leaving", "done"}
Writing(s, r) == At(s, r) \in {"named", "open"}
Over(s, x)    == DayOf(x) < Day(s.now)

------------------------------------------------------------------------------
\* The invariant, in parts.

\* A record has a file of its kind once a worker has it; only back-end files are moved by their worker.
Named(s) ==
  \A r \in Records :
    /\ At(s, r) = "none" => Nm(s, r) = NoName
    /\ At(s, r) # "none" => Nm(s, r) \in Names /\ Nm(s, r).k = Kind(r)
    /\ At(s, r) \in {"written"} \cup Moving => r \in BeRecords

\* Two records with one back-end file, or with any file at once, have been noticed.
Twice(s) ==
  \A q, r \in Records :
    q # r /\ Nm(s, q) = Nm(s, r) /\ (Nm(s, r).k = "be" \/ (Writing(s, q) /\ Writing(s, r)))
      /\ At(s, r) # "none" => Nm(s, r) \in s.raced

\* A file that is written to, or was, can only have been removed after its day.
Gone(s) ==
  \A r \in Records :
    /\ Nm(s, r) \notin s.raced /\ Nm(s, r) \notin s.there
    /\ At(s, r) = "open" \/ (Safe(s, r) /\ Nm(s, r).k # "be")
    => Over(s, Nm(s, r))

\* A worker that found no file is the first to write to it.
Fresh(s) ==
  \A r \in Records :
    IsNew(s, r) /\ Nm(s, r) \notin s.raced =>
      /\ At(s, r) = "named" => Nm(s, r) \notin s.there
      /\ At(s, r) = "open" => \A q \in Records : Safe(s, q) => Nm(s, q) # Nm(s, r)

\* As long as the file is there the record is in it, and then on the share.
Kept(s) ==
  \A r \in Records :
    Safe(s, r) /\ Nm(s, r) \notin s.raced =>
      /\ Nm(s, r) \in s.there => r \in s.local[Nm(s, r)]
      /\ Nm(s, r) \notin s.there => r \in s.share[Nm(s, r)]

\* What is about to be removed is on the share.
Shipped(s) ==
  /\ \A r \in Records : At(s, r) = "copied" /\ Nm(s, r) \notin s.raced => r \in s.share[Nm(s, r)]
  /\ \A x \in s.backup.todo : Over(s, x)
  /\ s.backup.at = "copied" =>
       /\ s.backup.file \in Names /\ Over(s, s.backup.file)
       /\ s.backup.file \notin s.raced =>
            \A r \in Records : Safe(s, r) /\ Nm(s, r) = s.backup.file => r \in s.share[s.backup.file]

\* The lease of a share counts who uses it, and it is mounted as long as someone does.
Workers(s, m) == IF m = "dsrc" THEN {r \in Records : At(s, r) \in Moving} ELSE {}
Mover(s, m) == IF s.backup.at \in {"files", "copied"} /\ s.backup.m = m THEN 1 ELSE 0
Users(s, m) == Cardinality(Workers(s, m)) + Mover(s, m)
Leased(s) ==
  \A m \in Shares :
    /\ IsFiniteSet(Workers(s, m))
    /\ Users(s, m) > 0 => s.mounted[m] /\ s.leases[m].n = Users(s, m)
    /\ Users(s, m) = 0 => s.leases[m].n <= 0

\* What a backup that has not failed has still to move.
Moved(s) ==
  /\ s.done <= Day(s.now) /\ s.backup.day <= Day(s.now)
  /\ \A x \in s.there : DayOf(x) < s.done => x \in s.raced
  /\ s.backup.at # "rest" /\ s.backup.ok =>
       /\ \A x \in s.there : DayOf(x) < s.backup.day =>
            x \in s.raced \/ x \in s.backup.todo \/ (s.backup.at = "copied" /\ x = s.backup.file)
       /\ s.backup.m = "dsrc" => \A x \in s.backup.todo : ShareOf(x) # "lcsc"

FilesInv(s) ==
  /\ s \in FilesState /\ Named(s) /\ Twice(s) /\ Gone(s) /\ Fresh(s) /\ Kept(s) /\ Shipped(s)
  /\ Leased(s) /\ Moved(s)

------------------------------------------------------------------------------
\* Days and names.

LEMMA DayTypes ==
  ASSUME FilesAssumption
  PROVE  /\ \A t \in Nat : Day(t) \in Nat
         /\ \A t, u \in Nat : t <= u => Day(t) <= Day(u)
<1>1. Instants \in Nat \ {0}
  BY DEF FilesAssumption
<1>2. ASSUME NEW t \in Nat PROVE Day(t) \in Nat
  BY <1>1 DEF Day
<1>3. ASSUME NEW t \in Nat, NEW u \in Nat, t <= u PROVE Day(t) <= Day(u)
  BY <1>1, <1>3 DEF Day
<1> QED
  BY <1>2, <1>3

LEMMA NameTypes ==
  ASSUME FilesAssumption
  PROVE  /\ \A k \in {"fe", "be", "lcs"}, t \in 0..MaxTime : Name(k, t) \in Names /\ Name(k, t).k = k
         /\ \A x \in Names : x.k \in {"fe", "be", "lcs"} /\ DayOf(x) \in Nat
         /\ NoName \notin Names
         /\ \A x \in Names : ShareOf(x) \in Shares /\ (x.k = "be" => ShareOf(x) = "dsrc")
<1>1. ASSUME NEW k \in {"fe", "be", "lcs"}, NEW t \in 0..MaxTime
      PROVE  Name(k, t) \in Names /\ Name(k, t).k = k
  BY DEF Names, Name
<1>2. ASSUME NEW x \in Names PROVE x.k \in {"fe", "be", "lcs"} /\ DayOf(x) \in Nat
  <2>1. PICK k \in {"fe", "be", "lcs"}, t \in 0..MaxTime : x = Name(k, t)
    BY DEF Names
  <2>2. t \in Nat /\ Day(t) \in Nat
    BY DayTypes DEF FilesAssumption
  <2>3. x.k = k
    BY <2>1 DEF Name
  <2>4. CASE k = "be"
    <3>1. x.t = t
      BY <2>1, <2>4 DEF Name
    <3> QED
      BY <2>2, <2>3, <2>4, <3>1 DEF DayOf
  <2>5. CASE k # "be"
    <3>1. x.t = Day(t)
      BY <2>1, <2>5 DEF Name
    <3> QED
      BY <2>2, <2>3, <2>5, <3>1 DEF DayOf
  <2> QED
    BY <2>3, <2>4, <2>5
<1>3. NoName \notin Names
  <2>1. NoName.k = "none"
    BY DEF NoName
  <2> QED
    BY <1>2, <2>1
<1> QED
  BY <1>1, <1>2, <1>3 DEF ShareOf, Shares

LEMMA KindTypes ==
  ASSUME FilesAssumption, NEW r \in Records
  PROVE  /\ Kind(r) \in {"fe", "be", "lcs"}
         /\ Kind(r) = "be" <=> r \in BeRecords
         /\ r \in LcsRecords => Kind(r) = "lcs"
BY DEF Kind, Records, FilesAssumption
------------------------------------------------------------------------------
\* What the steps have in common.

USE DEF f, b

\* The parts of the state that the invariant speaks of.
Fields == {"now", "there", "local", "share", "job", "mounted", "leases", "backup", "done", "raced"}

Same(s, t, K) == \A k \in K : t[k] = s[k]

\* A part of the invariant holds as long as what it speaks of stays.
LEMMA Frames ==
  ASSUME NEW s, NEW t, FilesInv(s)
  PROVE  /\ Same(s, t, {"job"}) => Named(t)
         /\ Same(s, t, {"job", "raced"}) => Twice(t)
         /\ Same(s, t, {"job", "raced", "there", "now"}) => Gone(t)
         /\ Same(s, t, {"job", "raced", "there"}) => Fresh(t)
         /\ Same(s, t, {"job", "raced", "there", "local", "share"}) => Kept(t)
         /\ Same(s, t, {"job", "raced", "share", "backup", "now"}) => Shipped(t)
         /\ Same(s, t, {"job", "backup", "mounted", "leases"}) => Leased(t)
         /\ Same(s, t, {"backup", "raced", "there", "now", "done"}) => Moved(t)
<1>1. Same(s, t, {"job"}) => Named(t)
  BY DEF FilesInv, Same, Named, At, Nm
<1>2. Same(s, t, {"job", "raced"}) => Twice(t)
  BY DEF FilesInv, Same, Twice, At, Nm, Writing
<1>3. Same(s, t, {"job", "raced", "there", "now"}) => Gone(t)
  BY DEF FilesInv, Same, Gone, At, Nm, Safe, Over
<1>4. Same(s, t, {"job", "raced", "there"}) => Fresh(t)
  BY DEF FilesInv, Same, Fresh, At, Nm, Safe, IsNew
<1>5. Same(s, t, {"job", "raced", "there", "local", "share"}) => Kept(t)
  BY DEF FilesInv, Same, Kept, At, Nm, Safe
<1>6. Same(s, t, {"job", "raced", "share", "backup", "now"}) => Shipped(t)
  BY DEF FilesInv, Same, Shipped, At, Nm, Safe, Over
<1>7. Same(s, t, {"job", "backup", "mounted", "leases"}) => Leased(t)
  <2> SUFFICES ASSUME Same(s, t, {"job", "backup", "mounted", "leases"}) PROVE Leased(t)
    OBVIOUS
  <2>1. \A m \in Shares : Workers(t, m) = Workers(s, m) /\ Mover(t, m) = Mover(s, m)
    BY DEF Same, Workers, Mover, At
  <2>2. t.mounted = s.mounted /\ t.leases = s.leases
    BY DEF Same
  <2> QED
    BY <2>1, <2>2 DEF FilesInv, Leased, Users
<1>8. Same(s, t, {"backup", "raced", "there", "now", "done"}) => Moved(t)
  BY DEF FilesInv, Same, Moved
<1> QED
  BY <1>1, <1>2, <1>3, <1>4, <1>5, <1>6, <1>7, <1>8

\* That a step failed is noted where no part of the invariant looks.
LEMMA Became ==
  ASSUME NEW s, NEW ok \in BOOLEAN, FilesInv(s), s.faults = f.faults, FilesAssumption, Become(s, ok)
  PROVE  FilesInv(files')
<1>1. s \in FilesState
  BY DEF FilesInv
<1>2. CASE ok
  BY <1>2 DEF Become
<1>3. CASE ~ok
  <2>1. files' = [s EXCEPT !.faults = @ + 1] /\ s.faults < FileFaults
    BY <1>3 DEF Become
  <2>2. files' \in FilesState
    <3>1. s.faults + 1 \in 0..FileFaults
      BY <1>1, <2>1 DEF FilesState, FilesAssumption
    <3> QED
      BY <1>1, <2>1, <3>1 DEF FilesState
  <2>3. Same(s, files', Fields)
    BY <1>1, <2>1 DEF FilesState, Fields, Same
  <2> QED
    BY <2>2, <2>3, Frames DEF FilesInv, Same, Fields
<1> QED
  BY <1>2, <1>3

\* A record r changes its stage, and nothing else about the records changes.
Moves(s, t, r, stage) ==
  \A q \in Records :
    /\ At(t, q) = IF q = r THEN stage ELSE At(s, q)
    /\ Nm(t, q) = Nm(s, q) /\ IsNew(t, q) = IsNew(s, q)

LEMMA GoesTypes ==
  ASSUME NEW s \in FilesState, NEW r \in Records, NEW stage \in Stages
  PROVE  LET t == Goes(s, r, stage)
         IN /\ t \in FilesState /\ Moves(s, t, r, stage) /\ t.faults = s.faults
            /\ Same(s, t, Fields \ {"job"})
<1> DEFINE t == Goes(s, r, stage)
<1>1. t \in FilesState
  <2>1. s.job \in Jobs
    BY DEF FilesState
  <2>2. [s.job EXCEPT ![r].at = stage] \in Jobs
    BY <2>1 DEF Jobs
  <2>3. t = [s EXCEPT !.job = [s.job EXCEPT ![r].at = stage]]
    BY DEF Goes
  <2> QED
    BY <2>2, <2>3 DEF FilesState
<1>2. Moves(s, t, r, stage)
  <2>1. s.job \in Jobs
    BY DEF FilesState
  <2>2. t.job = [s.job EXCEPT ![r].at = stage]
    BY DEF Goes, FilesState
  <2> QED
    BY <2>1, <2>2 DEF Jobs, Moves, At, Nm, IsNew
<1>3. t.faults = s.faults /\ Same(s, t, Fields \ {"job"})
  BY DEF Goes, FilesState, Fields, Same
<1> QED
  BY <1>1, <1>2, <1>3

LEMMA LeasedStays ==
  ASSUME NEW s, NEW t, FilesInv(s), Same(s, t, {"backup", "mounted", "leases"}),
         \A q \in Records : At(t, q) \in Moving <=> At(s, q) \in Moving
  PROVE  Leased(t)
<1>1. \A m \in Shares : Workers(t, m) = Workers(s, m) /\ Mover(t, m) = Mover(s, m)
  BY DEF Same, Workers, Mover
<1>2. t.mounted = s.mounted /\ t.leases = s.leases
  BY DEF Same
<1> QED
  BY <1>1, <1>2 DEF FilesInv, Leased, Users

------------------------------------------------------------------------------
\* A record is handed to a worker, and is written.

LEMMA HandKeeps ==
  ASSUME FilesAssumption, FilesInv(files), NEW r \in Records, Hand(r)
  PROVE  FilesInv(files')
<1> DEFINE name == Name("lcs", f.now)
           t == [f EXCEPT !.job[r].at = "queued", !.job[r].name = name]
<1>1. files \in FilesState /\ r \in LcsRecords /\ At(files, r) = "none" /\ Become(t, TRUE)
  BY DEF Hand, FilesInv, At
<1>2. name \in Names /\ name.k = "lcs"
  BY <1>1, NameTypes DEF FilesState
<1>3. t \in FilesState
  <2>1. files.job \in Jobs
    BY <1>1 DEF FilesState
  <2>2. [files.job EXCEPT ![r].at = "queued", ![r].name = name] \in Jobs
    <3> HIDE DEF name
    <3> QED
      BY <1>2, <2>1 DEF Jobs, Stages
  <2>3. t = [f EXCEPT !.job = [f.job EXCEPT ![r].at = "queued", ![r].name = name]]
    OBVIOUS
  <2> HIDE DEF name
  <2> QED
    BY <1>1, <2>2, <2>3 DEF FilesState
<1>4. \A q \in Records :
        /\ At(t, q) = IF q = r THEN "queued" ELSE At(files, q)
        /\ Nm(t, q) = IF q = r THEN name ELSE Nm(files, q)
        /\ IsNew(t, q) = IsNew(files, q)
  <2>1. files.job \in Jobs
    BY <1>1 DEF FilesState
  <2>2. t.job = [f.job EXCEPT ![r].at = "queued", ![r].name = name]
    BY <1>1 DEF FilesState
  <2> HIDE DEF name
  <2> QED
    BY <2>1, <2>2 DEF Jobs, At, Nm, IsNew
<1>5. t.faults = f.faults /\ Same(files, t, Fields \ {"job"})
  BY <1>1 DEF FilesState, Fields, Same
<1> HIDE DEF t, name
<1>6. Named(t)
  BY <1>1, <1>2, <1>4, KindTypes DEF FilesInv, Named, Moving
<1>7. Twice(t)
  BY <1>1, <1>2, <1>4, <1>5 DEF FilesInv, Twice, Writing, Same, Fields
<1>8. Gone(t) /\ Fresh(t)
  BY <1>1, <1>2, <1>4, <1>5 DEF FilesInv, Gone, Fresh, Safe, Over, Same, Fields
<1>9. Kept(t)
  BY <1>1, <1>2, <1>4, <1>5 DEF FilesInv, Kept, Safe, Same, Fields
<1>10. Shipped(t)
  BY <1>1, <1>2, <1>4, <1>5 DEF FilesInv, Shipped, Safe, Over, Same, Fields
<1>11. Leased(t)
  BY <1>1, <1>4, <1>5, LeasedStays DEF Same, Fields, Moving
<1>12. Moved(t)
  BY <1>5, Frames DEF Same, Fields
<1> QED
  BY <1>1, <1>3, <1>5, <1>6, <1>7, <1>8, <1>9, <1>10, <1>11, <1>12, Became DEF FilesInv

LEMMA StartKeeps ==
  ASSUME FilesAssumption, FilesInv(files), NEW r \in Records, Start(r)
  PROVE  FilesInv(files')
<1> DEFINE name == IF r \in LcsRecords THEN f.job[r].name ELSE Name(Kind(r), f.now)
           new == name \notin f.there
           j == [at |-> "named", name |-> name, new |-> new]
           begun == [f EXCEPT !.job[r] = j]
           t == Shared(begun, r, name)
<1>1. files \in FilesState /\ At(files, r) \in {"queued", "none"} /\ (r \in LcsRecords <=> At(files, r) = "queued")
      /\ Become(t, TRUE)
  BY DEF Start, FilesInv, At
<1>2. name \in Names /\ name.k = Kind(r)
  <2>1. CASE r \in LcsRecords
    BY <1>1, <2>1 DEF FilesInv, Named, Nm
  <2>2. CASE r \notin LcsRecords
    BY <1>1, <2>2, NameTypes, KindTypes DEF FilesState
  <2> QED
    BY <2>1, <2>2
<1>3. begun \in FilesState
  <2>1. files.job \in Jobs
    BY <1>1 DEF FilesState
  <2>2. j \in [at : Stages, name : Names \cup {NoName}, new : BOOLEAN]
    <3> HIDE DEF name
    <3> QED
      BY <1>2 DEF Stages
  <2> HIDE DEF j
  <2>3. [files.job EXCEPT ![r] = j] \in Jobs
    BY <2>1, <2>2 DEF Jobs
  <2> QED
    BY <1>1, <2>3 DEF FilesState
<1>4. \A q \in Records :
        /\ At(begun, q) = IF q = r THEN "named" ELSE At(files, q)
        /\ Nm(begun, q) = IF q = r THEN name ELSE Nm(files, q)
        /\ IsNew(begun, q) = IF q = r THEN new ELSE IsNew(files, q)
  <2>1. files.job \in Jobs
    BY <1>1 DEF FilesState
  <2>2. begun.job = [f.job EXCEPT ![r] = j]
    BY <1>1 DEF FilesState
  <2> HIDE DEF begun, name
  <2> QED
    BY <2>1, <2>2 DEF Jobs, At, Nm, IsNew
<1>5. begun.faults = f.faults /\ Same(files, begun, Fields \ {"job"})
  <2> HIDE DEF j
  <2> QED
    BY <1>1 DEF FilesState, Fields, Same
<1> HIDE DEF begun
<1>6. /\ t \in FilesState /\ t.job = begun.job /\ t.faults = begun.faults /\ Same(begun, t, Fields \ {"job", "raced"})
      /\ t.raced \in {begun.raced, begun.raced \cup {name}}
      /\ (\E q \in Records \ {r} : Nm(begun, q) = name /\ (name.k = "be" \/ At(begun, q) \in {"named", "open"}))
           => t.raced = begun.raced \cup {name}
  <2> HIDE DEF name
  <2> QED
    BY <1>2, <1>3 DEF Shared, Marked, FilesState, Same, Fields, At, Nm
<1>7. \A q \in Records :
        /\ At(t, q) = IF q = r THEN "named" ELSE At(files, q)
        /\ Nm(t, q) = IF q = r THEN name ELSE Nm(files, q)
        /\ IsNew(t, q) = IF q = r THEN new ELSE IsNew(files, q)
  BY <1>4, <1>6 DEF At, Nm, IsNew
<1>8. Same(files, t, Fields \ {"job", "raced"}) /\ files.raced \subseteq t.raced /\ t.faults = files.faults
  BY <1>5, <1>6 DEF Same, Fields
<1>9. \A q \in Records \ {r} : Nm(files, q) = name /\ (name.k = "be" \/ At(files, q) \in {"named", "open"})
        => name \in t.raced
  BY <1>4, <1>6
<1> HIDE DEF t, name
<1>10. Named(t)
  BY <1>1, <1>2, <1>7, KindTypes DEF FilesInv, Named, Moving
<1>11. Twice(t)
  BY <1>1, <1>7, <1>8, <1>9 DEF FilesInv, Twice, Writing
<1>12. Gone(t)
  BY <1>7, <1>8 DEF FilesInv, Gone, Safe, Over, Same, Fields
<1>13. Fresh(t)
  BY <1>7, <1>8 DEF FilesInv, Fresh, Safe, Same, Fields
<1>14. Kept(t)
  BY <1>7, <1>8 DEF FilesInv, Kept, Safe, Same, Fields
<1>15. Shipped(t)
  BY <1>7, <1>8 DEF FilesInv, Shipped, Safe, Over, Same, Fields
<1>16. Leased(t)
  BY <1>1, <1>7, <1>8, LeasedStays DEF Same, Fields, Moving
<1>17. Moved(t)
  BY <1>8 DEF FilesInv, Moved, Same, Fields
<1> QED
  BY <1>1, <1>6, <1>8, <1>10, <1>11, <1>12, <1>13, <1>14, <1>15, <1>16, <1>17, Became DEF FilesInv

\* A worker that writes does so under a name of its own, or of its kind.
LEMMA WritersName ==
  ASSUME FilesAssumption, FilesInv(files), NEW r \in Records, At(files, r) # "none"
  PROVE  Nm(files, r) \in Names /\ ShareOf(Nm(files, r)) \in Shares /\ DayOf(Nm(files, r)) \in Nat
         /\ (r \in BeRecords => Nm(files, r).k = "be" /\ ShareOf(Nm(files, r)) = "dsrc")
BY NameTypes, KindTypes DEF FilesInv, Named

\* Late and Goes, after something that leaves the records and the clock alone.
LEMMA LateTypes ==
  ASSUME NEW s \in FilesState, NEW x \in Names
  PROVE  LET t == Late(s, x)
         IN /\ t \in FilesState /\ t.faults = s.faults /\ Same(s, t, Fields \ {"raced"})
            /\ t.raced = IF Over(s, x) THEN s.raced \cup {x} ELSE s.raced
BY DEF Late, Marked, FilesState, Same, Fields, Over

LEMMA OpenKeeps ==
  ASSUME FilesAssumption, FilesInv(files), NEW r \in Records, NEW ok \in BOOLEAN, Open(r, ok)
  PROVE  FilesInv(files')
<1> DEFINE name == f.job[r].name
           there == f.there \cup {name}
           local == IF f.job[r].new THEN [f.local EXCEPT ![name] = {}] ELSE f.local
           opened == [f EXCEPT !.there = @ \cup {name}, !.local[name] = IF f.job[r].new THEN {} ELSE @]
<1>1. files \in FilesState /\ At(files, r) = "named" /\ name = Nm(files, r)
  BY DEF Open, FilesInv, At, Nm
<1>2. name \in Names /\ name.k = Kind(r) /\ DayOf(name) \in Nat
  BY <1>1, WritersName DEF FilesInv, Named
<1>3. CASE ok
  <2> DEFINE s == Late(opened, name)
             t == Goes(s, r, "open")
  <2>1. Become(t, TRUE)
    BY <1>3 DEF Open
  <2>2. opened = [f EXCEPT !.there = there, !.local = local] /\ there \in SUBSET Names /\ local \in Contents
    <3>1. f.local \in Contents /\ f.there \in SUBSET Names
      BY <1>1 DEF FilesState
    <3>2. [f.local EXCEPT ![name] = {}] \in Contents /\ [f.local EXCEPT ![name] = f.local[name]] = f.local
      BY <1>2, <3>1 DEF Contents
    <3> QED
      BY <1>2, <3>1, <3>2
  <2>3. /\ opened \in FilesState /\ opened.faults = f.faults /\ Same(files, opened, Fields \ {"there", "local"})
        /\ opened.there = there /\ opened.local = local
    <3> HIDE DEF opened, there, local
    <3> QED
      BY <1>1, <2>2 DEF FilesState, Same, Fields
  <2> HIDE DEF opened
  <2>4. /\ s \in FilesState /\ s.faults = f.faults /\ Same(files, s, Fields \ {"there", "local", "raced"})
        /\ s.there = there /\ s.local = local
        /\ s.raced = IF Over(files, name) THEN f.raced \cup {name} ELSE f.raced
    <3> HIDE DEF name, there, local
    <3>1. /\ s \in FilesState /\ s.faults = f.faults /\ Same(opened, s, Fields \ {"raced"})
          /\ s.raced = IF Over(opened, name) THEN opened.raced \cup {name} ELSE opened.raced
      BY <1>2, <2>3, LateTypes
    <3>2. Over(opened, name) <=> Over(files, name)
      BY <2>3 DEF Same, Fields, Over
    <3> HIDE DEF s
    <3> QED
      BY <2>3, <3>1, <3>2 DEF Same, Fields
  <2> HIDE DEF s
  <2>5. /\ t \in FilesState /\ t.faults = f.faults /\ Same(files, t, Fields \ {"there", "local", "raced", "job"})
        /\ t.there = there /\ t.local = local
        /\ t.raced = IF Over(files, name) THEN f.raced \cup {name} ELSE f.raced
        /\ Moves(s, t, r, "open")
    <3> HIDE DEF name, there, local
    <3>1. t \in FilesState /\ t.faults = s.faults /\ Same(s, t, Fields \ {"job"}) /\ Moves(s, t, r, "open")
      BY <2>4, GoesTypes DEF Stages
    <3> HIDE DEF t
    <3> QED
      BY <2>4, <3>1 DEF Same, Fields
  <2>6. \A q \in Records :
          /\ At(t, q) = IF q = r THEN "open" ELSE At(files, q)
          /\ Nm(t, q) = Nm(files, q) /\ IsNew(t, q) = IsNew(files, q)
    BY <2>4, <2>5 DEF Moves, At, Nm, IsNew, Same, Fields
  <2> HIDE DEF t
  <2>7. files.raced \subseteq t.raced /\ files.there \subseteq t.there /\ name \in t.there
    BY <2>5
  <2>8. Named(t)
    BY <1>1, <2>6 DEF FilesInv, Named, Moving
  <2>9. Twice(t)
    BY <1>1, <2>6, <2>7 DEF FilesInv, Twice, Writing
  <2>10. Gone(t)
    BY <1>1, <2>5, <2>6, <2>7 DEF FilesInv, Gone, Safe, Over, Same, Fields
  \* Nobody has written to a file that was not there, or that is about to be emptied.
  <2>11. ASSUME NEW q \in Records, Safe(files, q), Nm(files, q) = name, name \notin t.raced
         PROVE  name \in files.there /\ ~IsNew(files, r)
    <3>1. q # r /\ At(files, r) # "none" /\ name \notin files.raced /\ ~Over(files, name)
      BY <1>1, <2>5, <2>7, <2>11 DEF Safe
    <3>2. name.k # "be"
      BY <1>1, <2>11, <3>1 DEF FilesInv, Twice
    <3>3. name \in files.there
      BY <2>11, <3>1, <3>2 DEF FilesInv, Gone
    <3> QED
      BY <1>1, <3>1, <3>3 DEF FilesInv, Fresh
  <2>12. Fresh(t)
    <3> SUFFICES ASSUME NEW p \in Records, IsNew(t, p), Nm(t, p) \notin t.raced
                 PROVE  /\ At(t, p) = "named" => Nm(t, p) \notin t.there
                        /\ At(t, p) = "open" => \A q \in Records : Safe(t, q) => Nm(t, q) # Nm(t, p)
      BY DEF Fresh
    <3>1. \A q \in Records : Safe(t, q) => Safe(files, q) /\ q # r
      BY <2>6 DEF Safe
    <3>2. Nm(files, p) = Nm(t, p) /\ IsNew(files, p) /\ Nm(files, p) \notin files.raced
      BY <2>6, <2>7
    <3>3. CASE p = r
      BY <1>1, <2>6, <2>11, <3>1, <3>2, <3>3
    <3>4. CASE p # r
      <4>1. ASSUME At(t, p) = "named" PROVE Nm(t, p) \notin t.there
        <5>1. Nm(files, p) # name
          BY <1>1, <2>6, <3>2, <3>4, <4>1 DEF FilesInv, Twice, Writing
        <5> QED
          BY <2>5, <2>6, <3>2, <3>4, <4>1, <5>1 DEF FilesInv, Fresh
      <4>2. ASSUME At(t, p) = "open" PROVE \A q \in Records : Safe(t, q) => Nm(t, q) # Nm(t, p)
        BY <2>6, <3>1, <3>2, <3>4, <4>2 DEF FilesInv, Fresh
      <4> QED
        BY <4>1, <4>2
    <3> QED
      BY <3>3, <3>4
  <2>13. Kept(t)
    <3> SUFFICES ASSUME NEW q \in Records, Safe(t, q), Nm(t, q) \notin t.raced
                 PROVE  /\ Nm(t, q) \in t.there => q \in t.local[Nm(t, q)]
                        /\ Nm(t, q) \notin t.there => q \in t.share[Nm(t, q)]
      BY DEF Kept
    <3>1. Safe(files, q) /\ Nm(files, q) = Nm(t, q) /\ Nm(files, q) \notin files.raced
      BY <2>6, <2>7 DEF Safe
    <3>2. CASE Nm(files, q) = name
      <4>1. name \in files.there /\ ~files.job[r].new
        BY <2>11, <3>1, <3>2 DEF IsNew
      <4> QED
        BY <2>5, <3>1, <3>2, <4>1 DEF FilesInv, Kept
    <3>3. CASE Nm(files, q) # name
      <4>1. t.local[Nm(files, q)] = files.local[Nm(files, q)] /\ (Nm(files, q) \in t.there <=> Nm(files, q) \in files.there)
        <5>1. Nm(files, q) \in Names /\ files.local \in Contents
          BY <1>1, <3>1, WritersName DEF Safe, FilesState
        <5> QED
          BY <2>5, <3>3, <5>1 DEF Contents
      <4> QED
        BY <2>5, <3>1, <4>1 DEF FilesInv, Kept, Same, Fields
    <3> QED
      BY <3>2, <3>3
  <2>14. Shipped(t)
    BY <1>1, <2>5, <2>6, <2>7 DEF FilesInv, Shipped, Safe, Over, Same, Fields
  <2>15. Leased(t)
    BY <1>1, <2>5, <2>6, LeasedStays DEF Same, Fields, Moving
  <2>16. Moved(t)
    <3>1. /\ files.done \in Int /\ files.backup.day \in Nat /\ Day(files.now) \in Nat
          /\ files.done <= Day(files.now) /\ files.backup.day <= Day(files.now)
      <4>1. files.backup \in Backups /\ files.now \in Nat
        BY <1>1 DEF FilesState, FilesAssumption
      <4> QED
        BY <1>1, <4>1, DayTypes DEF FilesInv, Moved, Backups, FilesState
    <3>2. DayOf(name) < files.done \/ DayOf(name) < files.backup.day => name \in t.raced
      BY <1>2, <2>5, <3>1 DEF Over
    <3> QED
      BY <2>5, <2>7, <3>2 DEF FilesInv, Moved, Same, Fields
  <2> QED
    BY <2>1, <2>5, <2>8, <2>9, <2>10, <2>12, <2>13, <2>14, <2>15, <2>16, Became DEF FilesInv
<1>4. CASE ~ok
  \* no file: the record is lost to the worker
  <2> DEFINE t == Goes(f, r, "failed")
  <2>1. Become(t, FALSE)
    BY <1>4 DEF Open
  <2>2. t \in FilesState /\ Moves(files, t, r, "failed") /\ t.faults = f.faults /\ Same(files, t, Fields \ {"job"})
    BY <1>1, GoesTypes DEF Stages
  <2> HIDE DEF t
  <2>3. Named(t) /\ Twice(t)
    BY <1>1, <2>2 DEF FilesInv, Named, Twice, Writing, Moves, Moving, Same, Fields
  <2>4. Gone(t) /\ Fresh(t)
    BY <1>1, <2>2 DEF FilesInv, Gone, Fresh, Safe, Over, Moves, Same, Fields
  <2>5. Kept(t)
    BY <1>1, <2>2 DEF FilesInv, Kept, Safe, Moves, Same, Fields
  <2>6. Shipped(t)
    BY <1>1, <2>2 DEF FilesInv, Shipped, Safe, Over, Moves, Same, Fields
  <2>7. Leased(t)
    BY <1>1, <2>2, LeasedStays DEF Same, Fields, Moving, Moves
  <2>8. Moved(t)
    BY <2>2, Frames DEF Same, Fields
  <2> QED
    BY <2>1, <2>2, <2>3, <2>4, <2>5, <2>6, <2>7, <2>8, Became DEF FilesInv
<1> QED
  BY <1>3, <1>4

LEMMA CloseKeeps ==
  ASSUME FilesAssumption, FilesInv(files), NEW r \in Records, Close(r)
  PROVE  FilesInv(files')
<1> DEFINE name == Nm(files, r)
           stage == IF r \in BeRecords THEN "written" ELSE "done"
           written == Wrote(f, r)
           s == Late(written, name)
           t == Goes(s, r, stage)
<1>1. files \in FilesState /\ At(files, r) = "open" /\ stage \in Stages /\ Become(t, TRUE)
  BY DEF Close, FilesInv, At, Nm, Stages
<1>2. name \in Names /\ name.k = Kind(r) /\ DayOf(name) \in Nat
  BY <1>1, WritersName DEF FilesInv, Named
<1>3. /\ written \in FilesState /\ written.faults = f.faults /\ Same(files, written, Fields \ {"local"})
      /\ \A x \in Names : x # name \/ name \notin files.there => written.local[x] = files.local[x]
      /\ name \in files.there => r \in written.local[name]
      /\ name \in files.there /\ ~IsNew(files, r) => files.local[name] \subseteq written.local[name]
  <2>1. files.local \in Contents /\ files.job[r].name = name /\ files.job[r].new = IsNew(files, r)
    BY <1>1 DEF FilesState, Nm, IsNew
  <2>2. CASE name \notin files.there
    BY <1>1, <2>1, <2>2 DEF Wrote, Same
  <2>3. CASE name \in files.there
    <3> DEFINE contents == IF IsNew(files, r) THEN {r} ELSE files.local[name] \cup {r}
               local == [files.local EXCEPT ![name] = contents]
    <3>1. written = [files EXCEPT !.local = local]
      BY <2>1, <2>3 DEF Wrote
    <3>2. local \in Contents
      <4>1. contents \in SUBSET Records
        BY <1>2, <2>1 DEF Contents
      <4> HIDE DEF contents
      <4> QED
        BY <1>2, <2>1, <4>1 DEF Contents
    <3>3. local[name] = contents /\ \A x \in Names : x # name => local[x] = files.local[x]
      BY <1>2, <2>1 DEF Contents
    <3>4. /\ written \in FilesState /\ written.faults = f.faults /\ Same(files, written, Fields \ {"local"})
          /\ written.local = local
      <4> HIDE DEF written, local
      <4> QED
        BY <1>1, <3>1, <3>2 DEF FilesState, Same, Fields
    <3> HIDE DEF written, local
    <3> QED
      BY <2>3, <3>3, <3>4
  <2> QED
    BY <2>2, <2>3
<1> HIDE DEF written
<1>4. /\ s \in FilesState /\ s.faults = f.faults /\ Same(files, s, Fields \ {"local", "raced"})
      /\ s.local = written.local
      /\ s.raced = IF Over(files, name) THEN files.raced \cup {name} ELSE files.raced
  <2> HIDE DEF name
  <2>1. /\ s \in FilesState /\ s.faults = f.faults /\ Same(written, s, Fields \ {"raced"})
        /\ s.raced = IF Over(written, name) THEN written.raced \cup {name} ELSE written.raced
    BY <1>2, <1>3, LateTypes
  <2>2. Over(written, name) <=> Over(files, name)
    BY <1>3 DEF Same, Fields, Over
  <2> HIDE DEF s
  <2> QED
    BY <1>3, <2>1, <2>2 DEF Same, Fields
<1> HIDE DEF s
<1>5. /\ t \in FilesState /\ t.faults = f.faults /\ Same(files, t, Fields \ {"local", "raced", "job"})
      /\ t.local = written.local /\ Moves(s, t, r, stage)
      /\ t.raced = IF Over(files, name) THEN files.raced \cup {name} ELSE files.raced
  <2> HIDE DEF name, stage
  <2>1. t \in FilesState /\ t.faults = s.faults /\ Same(s, t, Fields \ {"job"}) /\ Moves(s, t, r, stage)
    BY <1>1, <1>4, GoesTypes
  <2> HIDE DEF t
  <2> QED
    BY <1>4, <2>1 DEF Same, Fields
<1> HIDE DEF t
<1>6. \A q \in Records :
        /\ At(t, q) = IF q = r THEN stage ELSE At(files, q)
        /\ Nm(t, q) = Nm(files, q) /\ IsNew(t, q) = IsNew(files, q)
  BY <1>4, <1>5 DEF Moves, At, Nm, IsNew, Same, Fields
<1>7. files.raced \subseteq t.raced /\ t.there = files.there /\ (Over(files, name) => name \in t.raced)
  BY <1>5 DEF Same, Fields
<1>8. Named(t)
  BY <1>1, <1>6 DEF FilesInv, Named, Moving
<1>9. Twice(t)
  BY <1>1, <1>6, <1>7 DEF FilesInv, Twice, Writing
<1>10. Gone(t)
  <2> SUFFICES ASSUME NEW q \in Records, Nm(t, q) \notin t.raced, Nm(t, q) \notin t.there,
                      At(t, q) = "open" \/ (Safe(t, q) /\ Nm(t, q).k # "be")
               PROVE  Over(t, Nm(t, q))
    BY DEF Gone
  <2>1. Nm(t, q) = Nm(files, q) /\ Nm(files, q) \notin files.raced /\ Nm(files, q) \notin files.there
        /\ (Over(files, Nm(t, q)) => Over(t, Nm(t, q)))
    BY <1>5, <1>6, <1>7 DEF Over, Same, Fields
  <2>2. CASE q = r
    BY <1>1, <2>1, <2>2 DEF FilesInv, Gone
  <2>3. CASE q # r
    BY <1>6, <2>1, <2>3 DEF FilesInv, Gone, Safe
  <2> QED
    BY <2>2, <2>3
<1>11. Fresh(t)
  <2> SUFFICES ASSUME NEW p \in Records, IsNew(t, p), Nm(t, p) \notin t.raced
               PROVE  /\ At(t, p) = "named" => Nm(t, p) \notin t.there
                      /\ At(t, p) = "open" => \A q \in Records : Safe(t, q) => Nm(t, q) # Nm(t, p)
    BY DEF Fresh
  <2>1. IsNew(files, p) /\ Nm(files, p) = Nm(t, p) /\ Nm(files, p) \notin files.raced
    BY <1>6, <1>7
  <2>2. ASSUME At(t, p) = "named" PROVE Nm(t, p) \notin t.there
    BY <1>1, <1>6, <1>7, <2>1, <2>2 DEF FilesInv, Fresh
  <2>3. ASSUME At(t, p) = "open", NEW q \in Records, Safe(t, q) PROVE Nm(t, q) # Nm(t, p)
    <3>1. p # r /\ At(files, p) = "open"
      BY <1>6, <2>3
    <3>2. CASE q = r
      BY <1>1, <1>6, <2>1, <3>1, <3>2 DEF FilesInv, Twice, Writing
    <3>3. CASE q # r
      BY <1>6, <2>1, <2>3, <3>1, <3>3 DEF FilesInv, Fresh, Safe
    <3> QED
      BY <3>2, <3>3
  <2> QED
    BY <2>2, <2>3
<1>12. Kept(t)
  <2> SUFFICES ASSUME NEW q \in Records, Safe(t, q), Nm(t, q) \notin t.raced
               PROVE  /\ Nm(t, q) \in t.there => q \in t.local[Nm(t, q)]
                      /\ Nm(t, q) \notin t.there => q \in t.share[Nm(t, q)]
    BY DEF Kept
  <2>1. Nm(files, q) = Nm(t, q) /\ Nm(files, q) \notin files.raced /\ t.share = files.share
    BY <1>5, <1>6, <1>7 DEF Same, Fields
  <2>2. CASE q = r
    <3>1. name \in files.there
      BY <1>1, <1>7, <2>1, <2>2 DEF FilesInv, Gone
    <3> QED
      BY <1>3, <1>5, <1>7, <2>1, <2>2, <3>1
  <2>3. CASE q # r
    <3>1. Safe(files, q) /\ Nm(files, q) \in Names
      <4>1. Safe(files, q)
        BY <1>6, <2>3 DEF Safe
      <4> QED
        BY <4>1, WritersName DEF Safe
    <3>2. Nm(files, q) \in files.there => q \in files.local[Nm(files, q)]
      BY <2>1, <3>1 DEF FilesInv, Kept
    <3>3. Nm(files, q) = name => ~IsNew(files, r)
      BY <1>1, <2>1, <3>1 DEF FilesInv, Fresh
    <3>4. Nm(files, q) \in files.there => q \in written.local[Nm(files, q)]
      BY <1>3, <3>1, <3>2, <3>3
    <3>5. Nm(files, q) \notin files.there => q \in files.share[Nm(files, q)]
      BY <2>1, <3>1 DEF FilesInv, Kept
    <3> QED
      BY <1>5, <1>7, <2>1, <3>4, <3>5
  <2> QED
    BY <2>2, <2>3
<1>13. Shipped(t)
  <2>1. \A q \in Records : At(t, q) = "copied" /\ Nm(t, q) \notin t.raced => q \in t.share[Nm(t, q)]
    BY <1>5, <1>6, <1>7 DEF FilesInv, Shipped, Same, Fields
  <2>2. t.backup = files.backup /\ t.share = files.share /\ \A x : Over(files, x) <=> Over(t, x)
    BY <1>5 DEF Over, Same, Fields
  <2>3. ASSUME files.backup.at = "copied", files.backup.file \notin t.raced,
               NEW q \in Records, Safe(t, q), Nm(t, q) = files.backup.file
        PROVE  q \in t.share[files.backup.file]
    <3>1. Over(files, files.backup.file)
      BY <2>3 DEF FilesInv, Shipped
    <3>2. q # r
      BY <1>6, <1>7, <2>3, <3>1
    <3> QED
      BY <1>6, <1>7, <2>2, <2>3, <3>2 DEF FilesInv, Shipped, Safe
  <2> QED
    BY <2>1, <2>2, <2>3 DEF FilesInv, Shipped
<1>14. Leased(t)
  BY <1>1, <1>5, <1>6, LeasedStays DEF Same, Fields, Moving
<1>15. Moved(t)
  BY <1>5, <1>7 DEF FilesInv, Moved, Same, Fields
<1> QED
  BY <1>1, <1>5, <1>8, <1>9, <1>10, <1>11, <1>12, <1>13, <1>14, <1>15, Became DEF FilesInv

------------------------------------------------------------------------------
\* The shares come and go.

LEMMA AcquiredTypes ==
  ASSUME NEW s \in FilesState, NEW m \in Shares
  PROVE  LET t == Acquired(s, m)
         IN /\ t \in FilesState /\ t.faults = s.faults /\ Same(s, t, Fields \ {"mounted", "leases"})
            /\ t.mounted[m] /\ t.leases[m].n = IF s.leases[m].n >= 0 THEN s.leases[m].n + 1 ELSE 1
            /\ \A o \in Shares \ {m} : t.mounted[o] = s.mounted[o] /\ t.leases[o].n = s.leases[o].n
<1> DEFINE t == Acquired(s, m)
           mounted == [s.mounted EXCEPT ![m] = TRUE]
           lease == IF s.leases[m].n >= 0 THEN [s.leases[m] EXCEPT !.n = @ + 1] ELSE [n |-> 1, own |-> ~s.mounted[m]]
           leases == [s.leases EXCEPT ![m] = lease]
<1>1. s.mounted \in [Shares -> BOOLEAN] /\ s.leases \in Leases
  BY DEF FilesState
<1>2. lease \in [n : Nat \cup {-1}, own : BOOLEAN] /\ lease.n = IF s.leases[m].n >= 0 THEN s.leases[m].n + 1 ELSE 1
  <2>1. s.leases[m] \in [n : Nat \cup {-1}, own : BOOLEAN] /\ s.mounted[m] \in BOOLEAN
    BY <1>1 DEF Leases
  <2> QED
    BY <2>1
<1>3. t = [s EXCEPT !.mounted = mounted, !.leases = leases]
  BY DEF Acquired
<1> HIDE DEF lease
<1>4. mounted \in [Shares -> BOOLEAN] /\ leases \in Leases
  BY <1>1, <1>2 DEF Leases
<1>5. /\ mounted[m] /\ leases[m] = lease
      /\ \A o \in Shares \ {m} : mounted[o] = s.mounted[o] /\ leases[o] = s.leases[o]
  BY <1>1 DEF Leases
<1> HIDE DEF mounted, leases, t
<1>6. /\ t \in FilesState /\ t.faults = s.faults /\ Same(s, t, Fields \ {"mounted", "leases"})
      /\ t.mounted = mounted /\ t.leases = leases
  BY <1>3, <1>4 DEF FilesState, Same, Fields
<1> QED
  BY <1>2, <1>5, <1>6 DEF t

LEMMA ReleasedTypes ==
  ASSUME NEW s \in FilesState, NEW m \in Shares, NEW ok \in BOOLEAN
  PROVE  LET t == Released(s, m, ok)
         IN /\ t \in FilesState /\ t.faults = s.faults /\ Same(s, t, Fields \ {"mounted", "leases"})
            /\ s.leases[m].n > 1 => t.mounted[m] = s.mounted[m] /\ t.leases[m].n = s.leases[m].n - 1
            /\ s.leases[m].n <= 1 => t.leases[m].n <= 0
            /\ \A o \in Shares \ {m} : t.mounted[o] = s.mounted[o] /\ t.leases[o].n = s.leases[o].n
<1> DEFINE t == Released(s, m, ok)
           n == s.leases[m].n
           gone == n <= 1 /\ s.leases[m].own /\ ok
           mounted == IF gone THEN [s.mounted EXCEPT ![m] = FALSE] ELSE s.mounted
           lease == IF n > 1 THEN [s.leases[m] EXCEPT !.n = @ - 1]
                    ELSE IF ~s.leases[m].own \/ ok THEN [n |-> -1, own |-> FALSE]
                    ELSE [s.leases[m] EXCEPT !.n = 0]
           leases == [s.leases EXCEPT ![m] = lease]
<1>1. s.mounted \in [Shares -> BOOLEAN] /\ s.leases \in Leases
  BY DEF FilesState
<1>2. /\ lease \in [n : Nat \cup {-1}, own : BOOLEAN] /\ n \in Int
      /\ n > 1 => lease.n = n - 1
      /\ n <= 1 => lease.n <= 0
  <2>1. s.leases[m] \in [n : Nat \cup {-1}, own : BOOLEAN]
    BY <1>1 DEF Leases
  <2> QED
    BY <2>1
<1>3. \/ gone /\ t = [s EXCEPT !.mounted = mounted, !.leases = leases]
      \/ ~gone /\ t = [s EXCEPT !.leases = leases]
  <2>1. CASE n > 1
    BY <1>2, <2>1 DEF Released
  <2>2. CASE n <= 1 /\ ~s.leases[m].own
    BY <1>2, <2>2 DEF Released
  <2>3. CASE n <= 1 /\ s.leases[m].own /\ ok
    <3>1. gone /\ ~(n > 1)
      BY <1>2, <2>3
    <3>2. mounted = [s.mounted EXCEPT ![m] = FALSE] /\ lease = [n |-> -1, own |-> FALSE]
      BY <2>3, <3>1
    <3>3. t = [s EXCEPT !.mounted[m] = FALSE, !.leases[m] = [n |-> -1, own |-> FALSE]]
      BY <2>3, <3>1 DEF Released
    <3> HIDE DEF mounted, lease, t, gone
    <3> QED
      BY <3>1, <3>2, <3>3
  <2>4. CASE n <= 1 /\ s.leases[m].own /\ ~ok
    BY <1>2, <2>4 DEF Released
  <2> QED
    BY <1>2, <2>1, <2>2, <2>3, <2>4
<1>4. mounted \in [Shares -> BOOLEAN] /\ leases \in Leases
  <2> HIDE DEF lease, gone
  <2> QED
    BY <1>1, <1>2 DEF Leases
<1>5. /\ n > 1 => mounted[m] = s.mounted[m]
      /\ \A o \in Shares \ {m} : mounted[o] = s.mounted[o]
  <2>1. n > 1 => ~gone
    BY <1>2
  <2> HIDE DEF gone, lease
  <2> QED
    BY <1>1, <2>1
<1>6. leases[m] = lease /\ \A o \in Shares \ {m} : leases[o] = s.leases[o]
  <2> HIDE DEF lease
  <2> QED
    BY <1>1, <1>2 DEF Leases
<1>7. ~gone => mounted = s.mounted
  OBVIOUS
<1> HIDE DEF mounted, leases, t, gone
<1>8. /\ t \in FilesState /\ t.faults = s.faults /\ Same(s, t, Fields \ {"mounted", "leases"})
      /\ t.mounted = mounted /\ t.leases = leases
  <2>1. CASE gone
    BY <1>3, <1>4, <2>1 DEF FilesState, Same, Fields
  <2>2. CASE ~gone
    BY <1>3, <1>4, <1>7, <2>2 DEF FilesState, Same, Fields
  <2> QED
    BY <2>1, <2>2
<1> QED
  BY <1>2, <1>5, <1>6, <1>8 DEF t

\* A worker, or the backup, joins the users of a share or leaves them.
LEMMA OneMore ==
  ASSUME NEW s, FilesInv(s), NEW t, NEW m \in Shares, LET u == Acquired(s, m) IN t.mounted = u.mounted /\ t.leases = u.leases,
         \A o \in Shares : IsFiniteSet(Workers(t, o)) /\ Users(t, o) = IF o = m THEN Users(s, o) + 1 ELSE Users(s, o)
  PROVE  Leased(t)
<1> DEFINE u == Acquired(s, m)
<1>1. \A o \in Shares : Users(s, o) \in Nat /\ (Users(s, o) > 0 => s.mounted[o] /\ s.leases[o].n = Users(s, o))
                        /\ (Users(s, o) = 0 => s.leases[o].n <= 0) /\ s.leases[o].n \in Int
  <2>1. \A o \in Shares : Users(s, o) \in Nat
    BY FS_CardinalityType DEF FilesInv, Leased, Users, Mover
  <2>2. s.leases \in Leases
    BY DEF FilesInv, FilesState
  <2> QED
    BY <2>1, <2>2 DEF FilesInv, Leased, Leases
<1>2. /\ u.mounted[m] /\ u.leases[m].n = IF s.leases[m].n >= 0 THEN s.leases[m].n + 1 ELSE 1
      /\ \A o \in Shares \ {m} : u.mounted[o] = s.mounted[o] /\ u.leases[o].n = s.leases[o].n
  BY AcquiredTypes DEF FilesInv
<1>3. t.mounted = u.mounted /\ t.leases = u.leases
  OBVIOUS
<1> HIDE DEF u
<1> QED
  BY <1>1, <1>2, <1>3 DEF Leased

LEMMA OneLess ==
  ASSUME NEW s, FilesInv(s), NEW t, NEW m \in Shares, NEW ok \in BOOLEAN, Users(s, m) > 0,
         LET u == Released(s, m, ok) IN t.mounted = u.mounted /\ t.leases = u.leases,
         \A o \in Shares : IsFiniteSet(Workers(t, o)) /\ Users(t, o) = IF o = m THEN Users(s, o) - 1 ELSE Users(s, o)
  PROVE  Leased(t)
<1> DEFINE u == Released(s, m, ok)
<1>1. \A o \in Shares : Users(s, o) \in Nat /\ (Users(s, o) > 0 => s.mounted[o] /\ s.leases[o].n = Users(s, o))
                        /\ (Users(s, o) = 0 => s.leases[o].n <= 0) /\ s.leases[o].n \in Int
  <2>1. \A o \in Shares : Users(s, o) \in Nat
    BY FS_CardinalityType DEF FilesInv, Leased, Users, Mover
  <2>2. s.leases \in Leases
    BY DEF FilesInv, FilesState
  <2> QED
    BY <2>1, <2>2 DEF FilesInv, Leased, Leases
<1>2. /\ s.leases[m].n > 1 => u.mounted[m] = s.mounted[m] /\ u.leases[m].n = s.leases[m].n - 1
      /\ s.leases[m].n <= 1 => u.leases[m].n <= 0
      /\ \A o \in Shares \ {m} : u.mounted[o] = s.mounted[o] /\ u.leases[o].n = s.leases[o].n
  BY ReleasedTypes DEF FilesInv
<1>3. t.mounted = u.mounted /\ t.leases = u.leases
  OBVIOUS
<1> HIDE DEF u
<1> QED
  BY <1>1, <1>2, <1>3 DEF Leased

------------------------------------------------------------------------------
\* A worker moves its file of the back end to the share.

\* A stage after the writing leads to the next, as far as the records alone are concerned.
LEMMA StageKeeps ==
  ASSUME FilesInv(files), NEW t, NEW r \in Records, r \in BeRecords, At(files, r) \in {"written"} \cup Moving,
         NEW stage \in Moving \cup {"done"}, Moves(files, t, r, stage),
         Same(files, t, {"now", "backup", "raced"})
  PROVE  Named(t) /\ Twice(t) /\ \A q \in Records : Safe(t, q) <=> Safe(files, q)
<1>1. Named(t)
  BY DEF FilesInv, Named, Moves, Moving
<1>2. Twice(t)
  BY DEF FilesInv, Twice, Writing, Moves, Moving, Same
<1>3. \A q \in Records : Safe(t, q) <=> Safe(files, q)
  BY DEF Safe, Moves, Moving
<1> QED
  BY <1>1, <1>2, <1>3

\* Nor does it matter to the files as long as they stay.
LEMMA StageKeepsFiles ==
  ASSUME FilesInv(files), NEW t, NEW r \in Records, r \in BeRecords, At(files, r) \in {"written"} \cup Moving,
         NEW stage \in {"mounted", "leaving", "done"}, Moves(files, t, r, stage),
         Same(files, t, Fields \ {"job", "mounted", "leases"})
  PROVE  Gone(t) /\ Fresh(t) /\ Kept(t) /\ Shipped(t) /\ Moved(t)
<1>1. \A q \in Records : Safe(t, q) <=> Safe(files, q)
  BY DEF Safe, Moves, Moving
<1>2. Gone(t)
  BY <1>1 DEF FilesInv, Gone, Over, Moves, Moving, Same, Fields
<1>3. Fresh(t)
  BY <1>1 DEF FilesInv, Fresh, Moves, Moving, Same, Fields
<1>4. Kept(t)
  BY <1>1 DEF FilesInv, Kept, Moves, Same, Fields
<1>5. Shipped(t)
  BY <1>1 DEF FilesInv, Shipped, Over, Moves, Same, Fields
<1>6. Moved(t)
  BY Frames DEF Same, Fields
<1> QED
  BY <1>2, <1>3, <1>4, <1>5, <1>6

LEMMA AcquireKeeps ==
  ASSUME FilesAssumption, FilesInv(files), NEW r \in Records, NEW ok \in BOOLEAN, Acquire(r, ok)
  PROVE  FilesInv(files')
<1>1. files \in FilesState /\ At(files, r) = "written" /\ r \in BeRecords
  BY DEF Acquire, FilesInv, Named, At
<1>2. CASE CanMount(f, "dsrc", ok)
  <2> DEFINE s == Acquired(f, "dsrc")
             t == Goes(s, r, "mounted")
  <2>1. Become(t, ok)
    BY <1>2 DEF Acquire
  <2>2. s \in FilesState /\ s.faults = f.faults /\ Same(files, s, Fields \ {"mounted", "leases"})
    BY <1>1, AcquiredTypes DEF Shares
  <2> HIDE DEF s
  <2>3. t \in FilesState /\ t.faults = s.faults /\ Same(s, t, Fields \ {"job"}) /\ Moves(s, t, r, "mounted")
    BY <2>2, GoesTypes DEF Stages
  <2> HIDE DEF t
  <2>4. Same(files, t, Fields \ {"job", "mounted", "leases"}) /\ Moves(files, t, r, "mounted")
    BY <2>2, <2>3 DEF Same, Fields, Moves, At, Nm, IsNew
  <2>5. Named(t) /\ Twice(t)
    BY <1>1, <2>4, StageKeeps DEF Moving, Same, Fields
  <2>6. Gone(t) /\ Fresh(t) /\ Kept(t) /\ Shipped(t) /\ Moved(t)
    BY <1>1, <2>4, StageKeepsFiles
  <2>7. Leased(t)
    <3>1. Workers(t, "dsrc") = Workers(files, "dsrc") \cup {r} /\ r \notin Workers(files, "dsrc")
          /\ Workers(t, "lcsc") = Workers(files, "lcsc")
      BY <1>1, <2>4 DEF Workers, Moves, Moving
    <3>2. \A m \in Shares : IsFiniteSet(Workers(files, m)) /\ Mover(t, m) = Mover(files, m) /\ Mover(files, m) \in Nat
      BY <2>4 DEF FilesInv, Leased, Mover, Same, Fields
    <3>3. IsFiniteSet(Workers(t, "dsrc")) /\ Cardinality(Workers(t, "dsrc")) = Cardinality(Workers(files, "dsrc")) + 1
      BY <3>1, <3>2, FS_AddElement DEF Shares
    <3>4. \A m \in Shares : Cardinality(Workers(files, m)) \in Nat
      BY <3>2, FS_CardinalityType
    <3>5. \A m \in Shares : IsFiniteSet(Workers(t, m)) /\ Users(t, m) = IF m = "dsrc" THEN Users(files, m) + 1 ELSE Users(files, m)
      BY <3>1, <3>2, <3>3, <3>4 DEF Users, Shares
    <3>6. t.mounted = s.mounted /\ t.leases = s.leases
      BY <2>3 DEF Same, Fields
    <3> QED
      BY <3>5, <3>6, OneMore DEF s, Shares
  <2> QED
    BY <2>1, <2>2, <2>3, <2>5, <2>6, <2>7, Became DEF FilesInv
<1>3. CASE ~CanMount(f, "dsrc", ok)
  <2> DEFINE t == Goes(f, r, "done")
  <2>1. Become(t, ok)
    BY <1>3 DEF Acquire
  <2>2. t \in FilesState /\ t.faults = f.faults /\ Same(files, t, Fields \ {"job"}) /\ Moves(files, t, r, "done")
    BY <1>1, GoesTypes DEF Stages
  <2> HIDE DEF t
  <2>3. Named(t) /\ Twice(t)
    BY <1>1, <2>2, StageKeeps DEF Moving, Same, Fields
  <2>4. Gone(t) /\ Fresh(t) /\ Kept(t) /\ Shipped(t) /\ Moved(t)
    BY <1>1, <2>2, StageKeepsFiles DEF Same, Fields
  <2>5. Leased(t)
    BY <1>1, <2>2, LeasedStays DEF Same, Fields, Moving, Moves
  <2> QED
    BY <2>1, <2>2, <2>3, <2>4, <2>5, Became DEF FilesInv
<1> QED
  BY <1>2, <1>3

LEMMA CopiedTypes ==
  ASSUME NEW s \in FilesState, NEW x \in Names, s.mounted[ShareOf(x)]
  PROVE  LET t == Copied(s, x)
         IN /\ t \in FilesState /\ t.faults = s.faults /\ Same(s, t, Fields \ {"share"})
            /\ t.share[x] = s.local[x] /\ \A y \in Names \ {x} : t.share[y] = s.share[y]
<1> DEFINE t == Copied(s, x)
           share == [s.share EXCEPT ![x] = s.local[x]]
<1>1. s.share \in Contents /\ s.local \in Contents
  BY DEF FilesState
<1>2. share \in Contents /\ share[x] = s.local[x] /\ \A y \in Names \ {x} : share[y] = s.share[y]
  BY <1>1 DEF Contents
<1>3. t = [s EXCEPT !.share = share]
  BY DEF Copied
<1> HIDE DEF t, share
<1>4. t \in FilesState /\ t.faults = s.faults /\ Same(s, t, Fields \ {"share"}) /\ t.share = share
  BY <1>2, <1>3 DEF FilesState, Same, Fields
<1> QED
  BY <1>2, <1>4 DEF t

LEMMA RemovedTypes ==
  ASSUME NEW s \in FilesState, NEW x \in Names
  PROVE  LET t == Removed(s, x)
         IN /\ t \in FilesState /\ t.faults = s.faults /\ Same(s, t, Fields \ {"there", "local"})
            /\ t.there = s.there \ {x} /\ \A y \in Names \ {x} : t.local[y] = s.local[y]
<1> DEFINE t == Removed(s, x)
           local == [s.local EXCEPT ![x] = {}]
           there == s.there \ {x}
<1>1. s.there \in SUBSET Names /\ s.local \in Contents
  BY DEF FilesState
<1>2. local \in Contents /\ (\A y \in Names \ {x} : local[y] = s.local[y]) /\ there \in SUBSET Names
  BY <1>1 DEF Contents
<1>3. t = [s EXCEPT !.there = there, !.local = local]
  BY DEF Removed
<1> HIDE DEF t, local, there
<1>4. t \in FilesState /\ t.faults = s.faults /\ Same(s, t, Fields \ {"there", "local"}) /\ t.local = local /\ t.there = there
  BY <1>2, <1>3 DEF FilesState, Same, Fields
<1> QED
  BY <1>2, <1>4 DEF t, there

\* Whoever is about to copy has the share.
LEMMA UsersHaveIt ==
  ASSUME FilesInv(files), NEW m \in Shares, Mover(files, m) = 1 \/ \E r \in Workers(files, m) : TRUE
  PROVE  Users(files, m) > 0 /\ files.mounted[m]
<1>1. IsFiniteSet(Workers(files, m)) /\ Cardinality(Workers(files, m)) \in Nat /\ Mover(files, m) \in {0, 1}
  BY FS_CardinalityType DEF FilesInv, Leased, Mover
<1>2. Workers(files, m) # {} => Cardinality(Workers(files, m)) # 0
  BY <1>1, FS_EmptySet
<1>3. Users(files, m) > 0
  BY <1>1, <1>2 DEF Users
<1> QED
  BY <1>3 DEF FilesInv, Leased

LEMMA CopyKeeps ==
  ASSUME FilesAssumption, FilesInv(files), NEW r \in Records, NEW ok \in BOOLEAN, Copy(r, ok)
  PROVE  FilesInv(files')
<1> DEFINE name == Nm(files, r)
<1>1. files \in FilesState /\ At(files, r) = "mounted" /\ r \in BeRecords
  BY DEF Copy, FilesInv, Named, At, Moving
<1>2. name \in Names /\ name.k = "be" /\ ShareOf(name) = "dsrc"
  BY <1>1, WritersName
<1>3. CASE ok /\ name \in f.there
  <2> DEFINE s == Copied(f, name)
             t == Goes(s, r, "copied")
  <2>1. Become(t, ok)
    BY <1>3 DEF Copy, Nm
  <2>2. files.mounted[ShareOf(name)]
    BY <1>1, <1>2, UsersHaveIt DEF Workers, Moving, Shares
  <2>3. /\ s \in FilesState /\ s.faults = f.faults /\ Same(files, s, Fields \ {"share"})
        /\ s.share[name] = files.local[name] /\ \A y \in Names \ {name} : s.share[y] = files.share[y]
    <3> HIDE DEF name
    <3> QED
      BY <1>1, <1>2, <2>2, CopiedTypes
  <2> HIDE DEF s
  <2>4. t \in FilesState /\ t.faults = s.faults /\ Same(s, t, Fields \ {"job"}) /\ Moves(s, t, r, "copied")
    BY <2>3, GoesTypes DEF Stages
  <2> HIDE DEF t
  <2>5. /\ Same(files, t, Fields \ {"job", "share"}) /\ Moves(files, t, r, "copied")
        /\ t.share[name] = files.local[name] /\ \A y \in Names \ {name} : t.share[y] = files.share[y]
    <3> HIDE DEF name
    <3> QED
      BY <2>3, <2>4 DEF Same, Fields, Moves, At, Nm, IsNew
  <2>6. Named(t) /\ Twice(t) /\ \A q \in Records : Safe(t, q) <=> Safe(files, q)
    BY <1>1, <2>5, StageKeeps DEF Moving, Same, Fields
  <2>7. Gone(t)
    BY <1>1, <2>5, <2>6 DEF FilesInv, Gone, Over, Moves, Same, Fields
  <2>8. Fresh(t)
    BY <1>1, <2>5, <2>6 DEF FilesInv, Fresh, Moves, Same, Fields
  \* Every record of the file is on the share now, this one among them.
  <2>9. ASSUME NEW q \in Records, Safe(files, q), Nm(files, q) \notin files.raced
        PROVE  /\ Nm(files, q) = name => q \in t.share[name]
               /\ Nm(files, q) # name => t.share[Nm(files, q)] = files.share[Nm(files, q)]
    <3>1. Nm(files, q) \in Names
      BY <2>9, WritersName DEF Safe
    <3>2. Nm(files, q) = name => q \in files.local[name]
      BY <1>3, <2>9 DEF FilesInv, Kept
    <3> QED
      BY <2>5, <3>1, <3>2
  <2>10. Kept(t)
    <3> SUFFICES ASSUME NEW q \in Records, Safe(t, q), Nm(t, q) \notin t.raced
                 PROVE  /\ Nm(t, q) \in t.there => q \in t.local[Nm(t, q)]
                        /\ Nm(t, q) \notin t.there => q \in t.share[Nm(t, q)]
      BY DEF Kept
    <3>1. Safe(files, q) /\ Nm(files, q) = Nm(t, q) /\ Nm(files, q) \notin files.raced
          /\ t.there = files.there /\ t.local = files.local
      BY <2>5, <2>6 DEF Moves, Same, Fields
    <3> QED
      BY <1>3, <2>9, <3>1 DEF FilesInv, Kept
  <2>11. Shipped(t)
    <3>1. ASSUME NEW q \in Records, At(t, q) = "copied", Nm(t, q) \notin t.raced
          PROVE  q \in t.share[Nm(t, q)]
      <4>1. Safe(files, q) /\ Nm(files, q) = Nm(t, q) /\ Nm(files, q) \notin files.raced
        BY <2>5, <2>6, <3>1 DEF Moves, Safe, Same, Fields
      <4>2. q # r => At(files, q) = "copied"
        BY <2>5, <3>1 DEF Moves
      <4> QED
        BY <2>9, <4>1, <4>2 DEF FilesInv, Shipped
    <3>2. t.backup = files.backup /\ t.raced = files.raced /\ \A x : Over(files, x) <=> Over(t, x)
      BY <2>5 DEF Over, Same, Fields
    <3>3. ASSUME files.backup.at = "copied", files.backup.file \notin t.raced,
                 NEW q \in Records, Safe(t, q), Nm(t, q) = files.backup.file
          PROVE  q \in t.share[files.backup.file]
      <4>1. Safe(files, q) /\ Nm(files, q) = Nm(t, q) /\ Nm(files, q) \notin files.raced
        BY <2>5, <2>6, <3>2, <3>3 DEF Moves
      <4>2. q \in files.share[files.backup.file]
        BY <3>3, <4>1 DEF FilesInv, Shipped
      <4> QED
        BY <2>9, <3>3, <4>1, <4>2
    <3> QED
      BY <3>1, <3>2, <3>3 DEF FilesInv, Shipped
  <2>12. Leased(t)
    BY <1>1, <2>5, LeasedStays DEF Same, Fields, Moving, Moves
  <2>13. Moved(t)
    BY <2>5, Frames DEF Same, Fields
  <2> QED
    BY <2>1, <2>3, <2>4, <2>6, <2>7, <2>8, <2>10, <2>11, <2>12, <2>13, Became DEF FilesInv
<1>4. CASE ~(ok /\ name \in f.there)
  <2> DEFINE t == Goes(f, r, "leaving")
  <2>1. Become(t, ok)
    BY <1>4 DEF Copy, Nm
  <2>2. t \in FilesState /\ t.faults = f.faults /\ Same(files, t, Fields \ {"job"}) /\ Moves(files, t, r, "leaving")
    BY <1>1, GoesTypes DEF Stages
  <2> HIDE DEF t
  <2>3. Named(t) /\ Twice(t)
    BY <1>1, <2>2, StageKeeps DEF Moving, Same, Fields
  <2>4. Gone(t) /\ Fresh(t) /\ Kept(t) /\ Shipped(t) /\ Moved(t)
    BY <1>1, <2>2, StageKeepsFiles DEF Same, Fields, Moving
  <2>5. Leased(t)
    BY <1>1, <2>2, LeasedStays DEF Same, Fields, Moving, Moves
  <2> QED
    BY <2>1, <2>2, <2>3, <2>4, <2>5, Became DEF FilesInv
<1> QED
  BY <1>3, <1>4

LEMMA RemoveKeeps ==
  ASSUME FilesAssumption, FilesInv(files), NEW r \in Records, NEW ok \in BOOLEAN, Remove(r, ok)
  PROVE  FilesInv(files')
<1> DEFINE name == Nm(files, r)
<1>1. files \in FilesState /\ At(files, r) = "copied" /\ r \in BeRecords
  BY DEF Remove, FilesInv, Named, At, Moving
<1>2. name \in Names /\ name.k = "be"
  BY <1>1, WritersName
<1>3. CASE ok
  <2> DEFINE s == Removed(f, name)
             t == Goes(s, r, "leaving")
  <2>1. Become(t, ok)
    BY <1>3 DEF Remove, Nm
  <2>2. /\ s \in FilesState /\ s.faults = f.faults /\ Same(files, s, Fields \ {"there", "local"})
        /\ s.there = files.there \ {name} /\ \A y \in Names \ {name} : s.local[y] = files.local[y]
    <3> HIDE DEF name
    <3> QED
      BY <1>1, <1>2, RemovedTypes
  <2> HIDE DEF s
  <2>3. t \in FilesState /\ t.faults = s.faults /\ Same(s, t, Fields \ {"job"}) /\ Moves(s, t, r, "leaving")
    BY <2>2, GoesTypes DEF Stages
  <2> HIDE DEF t
  <2>4. /\ Same(files, t, Fields \ {"job", "there", "local"}) /\ Moves(files, t, r, "leaving")
        /\ t.there = files.there \ {name} /\ \A y \in Names \ {name} : t.local[y] = files.local[y]
    <3> HIDE DEF name
    <3> QED
      BY <2>2, <2>3 DEF Same, Fields, Moves, At, Nm, IsNew
  <2>5. Named(t) /\ Twice(t) /\ \A q \in Records : Safe(t, q) <=> Safe(files, q)
    BY <1>1, <2>4, StageKeeps DEF Moving, Same, Fields
  <2>6. ASSUME NEW q \in Records, q # r, Nm(files, q) = name
        PROVE  name \in files.raced
    BY <1>1, <1>2, <2>6 DEF FilesInv, Twice
  <2>7. Gone(t)
    <3> SUFFICES ASSUME NEW q \in Records, Nm(t, q) \notin t.raced, Nm(t, q) \notin t.there,
                        At(t, q) = "open" \/ (Safe(t, q) /\ Nm(t, q).k # "be")
                 PROVE  Over(t, Nm(t, q))
      BY DEF Gone
    <3>1. Nm(t, q) = Nm(files, q) /\ Nm(files, q) \notin files.raced /\ (Over(files, Nm(t, q)) => Over(t, Nm(t, q)))
      BY <2>4 DEF Moves, Over, Same, Fields
    <3>2. q # r
      BY <1>2, <2>4, <3>1 DEF Moves
    <3>3. Nm(files, q) \notin files.there
      BY <2>4, <2>6, <3>1, <3>2
    <3> QED
      BY <2>4, <2>5, <3>1, <3>2, <3>3 DEF FilesInv, Gone, Moves
  <2>8. Fresh(t)
    BY <1>1, <2>4, <2>5 DEF FilesInv, Fresh, Moves, Same, Fields
  <2>9. Kept(t)
    <3> SUFFICES ASSUME NEW q \in Records, Safe(t, q), Nm(t, q) \notin t.raced
                 PROVE  /\ Nm(t, q) \in t.there => q \in t.local[Nm(t, q)]
                        /\ Nm(t, q) \notin t.there => q \in t.share[Nm(t, q)]
      BY DEF Kept
    <3>1. /\ Safe(files, q) /\ Nm(files, q) = Nm(t, q) /\ Nm(files, q) \notin files.raced
          /\ t.share = files.share /\ Nm(files, q) \in Names
      <4>1. Safe(files, q) /\ Nm(files, q) = Nm(t, q) /\ Nm(files, q) \notin files.raced /\ t.share = files.share
        BY <2>4, <2>5 DEF Moves, Same, Fields
      <4> QED
        BY <4>1, WritersName DEF Safe
    <3>2. CASE Nm(files, q) = name
      <4>1. q = r
        BY <2>6, <3>1, <3>2
      <4> QED
        BY <1>1, <2>4, <3>1, <3>2, <4>1 DEF FilesInv, Shipped
    <3>3. CASE Nm(files, q) # name
      BY <2>4, <3>1, <3>3 DEF FilesInv, Kept
    <3> QED
      BY <3>2, <3>3
  <2>10. Shipped(t)
    BY <1>1, <2>4, <2>5 DEF FilesInv, Shipped, Over, Moves, Same, Fields
  <2>11. Leased(t)
    BY <1>1, <2>4, LeasedStays DEF Same, Fields, Moving, Moves
  <2>12. Moved(t)
    BY <2>4 DEF FilesInv, Moved, Same, Fields
  <2> QED
    BY <2>1, <2>2, <2>3, <2>5, <2>7, <2>8, <2>9, <2>10, <2>11, <2>12, Became DEF FilesInv
<1>4. CASE ~ok
  <2> DEFINE t == Goes(f, r, "leaving")
  <2>1. Become(t, ok)
    BY <1>4 DEF Remove
  <2>2. t \in FilesState /\ t.faults = f.faults /\ Same(files, t, Fields \ {"job"}) /\ Moves(files, t, r, "leaving")
    BY <1>1, GoesTypes DEF Stages
  <2> HIDE DEF t
  <2>3. Named(t) /\ Twice(t)
    BY <1>1, <2>2, StageKeeps DEF Moving, Same, Fields
  <2>4. Gone(t) /\ Fresh(t) /\ Kept(t) /\ Shipped(t) /\ Moved(t)
    BY <1>1, <2>2, StageKeepsFiles DEF Same, Fields, Moving
  <2>5. Leased(t)
    BY <1>1, <2>2, LeasedStays DEF Same, Fields, Moving, Moves
  <2> QED
    BY <2>1, <2>2, <2>3, <2>4, <2>5, Became DEF FilesInv
<1> QED
  BY <1>3, <1>4

LEMMA LeaveKeeps ==
  ASSUME FilesAssumption, FilesInv(files), NEW r \in Records, NEW ok \in BOOLEAN, Leave(r, ok)
  PROVE  FilesInv(files')
<1> DEFINE s == Released(f, "dsrc", ok)
           t == Goes(s, r, "done")
<1>1. files \in FilesState /\ At(files, r) = "leaving" /\ r \in BeRecords /\ Become(t, ok)
  BY DEF Leave, FilesInv, Named, At, Moving
<1>2. s \in FilesState /\ s.faults = f.faults /\ Same(files, s, Fields \ {"mounted", "leases"})
  BY <1>1, ReleasedTypes DEF Shares
<1> HIDE DEF s
<1>3. t \in FilesState /\ t.faults = s.faults /\ Same(s, t, Fields \ {"job"}) /\ Moves(s, t, r, "done")
  BY <1>2, GoesTypes DEF Stages
<1> HIDE DEF t
<1>4. Same(files, t, Fields \ {"job", "mounted", "leases"}) /\ Moves(files, t, r, "done")
  BY <1>2, <1>3 DEF Same, Fields, Moves, At, Nm, IsNew
<1>5. Named(t) /\ Twice(t)
  BY <1>1, <1>4, StageKeeps DEF Moving, Same, Fields
<1>6. Gone(t) /\ Fresh(t) /\ Kept(t) /\ Shipped(t) /\ Moved(t)
  BY <1>1, <1>4, StageKeepsFiles DEF Moving
<1>7. Leased(t)
  <2>1. Workers(t, "dsrc") = Workers(files, "dsrc") \ {r} /\ r \in Workers(files, "dsrc")
        /\ Workers(t, "lcsc") = Workers(files, "lcsc")
    BY <1>1, <1>4 DEF Workers, Moves, Moving
  <2>2. \A m \in Shares : IsFiniteSet(Workers(files, m)) /\ Mover(t, m) = Mover(files, m) /\ Mover(files, m) \in Nat
    BY <1>4 DEF FilesInv, Leased, Mover, Same, Fields
  <2>3. IsFiniteSet(Workers(t, "dsrc")) /\ Cardinality(Workers(t, "dsrc")) = Cardinality(Workers(files, "dsrc")) - 1
    BY <2>1, <2>2, FS_RemoveElement DEF Shares
  <2>4. \A m \in Shares : Cardinality(Workers(files, m)) \in Nat
    BY <2>2, FS_CardinalityType
  <2>5. \A m \in Shares : IsFiniteSet(Workers(t, m)) /\ Users(t, m) = IF m = "dsrc" THEN Users(files, m) - 1 ELSE Users(files, m)
    BY <2>1, <2>2, <2>3, <2>4 DEF Users, Shares
  <2>6. t.mounted = s.mounted /\ t.leases = s.leases
    BY <1>3 DEF Same, Fields
  <2>7. Users(files, "dsrc") > 0
    BY <2>1, UsersHaveIt DEF Shares
  <2> QED
    BY <2>5, <2>6, <2>7, OneLess DEF s, Shares
<1> QED
  BY <1>1, <1>2, <1>3, <1>5, <1>6, <1>7, Became DEF FilesInv

------------------------------------------------------------------------------
\* The daily backup.

LEMMA BackupTypes ==
  ASSUME NEW s \in FilesState, NEW back \in Backups
  PROVE  LET t == [s EXCEPT !.backup = back]
         IN t \in FilesState /\ t.faults = s.faults /\ Same(s, t, Fields \ {"backup"}) /\ t.backup = back
BY DEF FilesState, Same, Fields

\* The records do not notice the backup as long as it leaves the files alone.
LEMMA BackupKeepsFiles ==
  ASSUME FilesInv(files), NEW t, Same(files, t, Fields \ {"backup", "mounted", "leases", "done"})
  PROVE  Named(t) /\ Twice(t) /\ Gone(t) /\ Fresh(t) /\ Kept(t) /\ \A m \in Shares : Workers(t, m) = Workers(files, m)
<1>1. Named(t) /\ Twice(t) /\ Gone(t) /\ Fresh(t) /\ Kept(t)
  BY Frames DEF Same, Fields
<1>2. \A m \in Shares : Workers(t, m) = Workers(files, m)
  BY DEF Workers, At, Same, Fields
<1> QED
  BY <1>1, <1>2

LEMMA NextShareTypes ==
  ASSUME NEW s \in FilesState
  PROVE  LET t == NextShare(s)
         IN /\ t \in FilesState /\ t.faults = s.faults /\ Same(s, t, Fields \ {"backup", "done"})
            /\ t.backup.todo = s.backup.todo /\ t.backup.day = s.backup.day /\ t.backup.ok = s.backup.ok
            /\ s.backup.m = "lcsc" => t.backup.at = "share" /\ t.backup.m = "dsrc" /\ t.done = s.done
            /\ s.backup.m # "lcsc" =>
                 t.backup.at = "rest" /\ t.done = IF s.backup.ok THEN s.backup.day ELSE s.done
<1> DEFINE t == NextShare(s)
<1>1. s.backup \in Backups /\ s.done \in Int
  BY DEF FilesState
<1>2. CASE s.backup.m = "lcsc"
  <2> DEFINE back == [s.backup EXCEPT !.m = "dsrc", !.at = "share"]
  <2>1. t = [s EXCEPT !.backup = back]
    BY <1>2 DEF NextShare
  <2>2. /\ back \in Backups /\ back.at = "share" /\ back.m = "dsrc" /\ back.todo = s.backup.todo
        /\ back.day = s.backup.day /\ back.ok = s.backup.ok
    BY <1>1 DEF Backups, Shares
  <2> HIDE DEF t, back
  <2>3. t \in FilesState /\ t.faults = s.faults /\ Same(s, t, Fields \ {"backup"}) /\ t.backup = back
    BY <2>1, <2>2, BackupTypes
  <2> QED
    BY <1>2, <2>2, <2>3 DEF t, Same, Fields
<1>3. CASE s.backup.m # "lcsc"
  <2> DEFINE back == [s.backup EXCEPT !.at = "rest"]
             done == IF s.backup.ok THEN s.backup.day ELSE s.done
  <2>1. t = [s EXCEPT !.backup = back, !.done = done]
    BY <1>3 DEF NextShare
  <2>2. /\ back \in Backups /\ back.at = "rest" /\ back.todo = s.backup.todo
        /\ back.day = s.backup.day /\ back.ok = s.backup.ok
    BY <1>1 DEF Backups
  <2>3. done \in Int
    BY <1>1 DEF Backups
  <2> HIDE DEF t, back, done
  <2>4. t \in FilesState /\ t.faults = s.faults /\ Same(s, t, Fields \ {"backup", "done"}) /\ t.backup = back /\ t.done = done
    BY <2>1, <2>2, <2>3 DEF FilesState, Same, Fields
  <2> QED
    BY <1>3, <2>2, <2>4 DEF t, done
<1> QED
  BY <1>2, <1>3

\* It goes on to the next share only without candidates on this one, or when it has failed.
LEMMA NextKeeps ==
  ASSUME FilesInv(files), NEW s \in FilesState, Same(files, s, Fields \ {"backup", "mounted", "leases"}),
         s.faults = f.faults,
         b.at \in {"share", "files"}, s.backup.todo = b.todo, s.backup.day = b.day, s.backup.m = b.m,
         s.backup.ok => b.ok /\ TodoOn(b.m) = {}
  PROVE  LET t == NextShare(s)
         IN /\ t \in FilesState /\ t.faults = f.faults /\ t.mounted = s.mounted /\ t.leases = s.leases
            /\ Named(t) /\ Twice(t) /\ Gone(t) /\ Fresh(t) /\ Kept(t) /\ Shipped(t) /\ Moved(t)
            /\ \A m \in Shares : Workers(t, m) = Workers(files, m) /\ Mover(t, m) = 0
<1> DEFINE t == NextShare(s)
<1>1. /\ t \in FilesState /\ t.faults = s.faults /\ Same(s, t, Fields \ {"backup", "done"})
      /\ t.backup.todo = s.backup.todo /\ t.backup.day = s.backup.day /\ t.backup.ok = s.backup.ok
      /\ s.backup.m = "lcsc" => t.backup.at = "share" /\ t.backup.m = "dsrc" /\ t.done = s.done
      /\ s.backup.m # "lcsc" => t.backup.at = "rest" /\ t.done = IF s.backup.ok THEN s.backup.day ELSE s.done
  BY NextShareTypes
<1> HIDE DEF t
<1>2. Same(files, t, Fields \ {"backup", "mounted", "leases", "done"}) /\ t.mounted = s.mounted /\ t.leases = s.leases
  BY <1>1 DEF Same, Fields
<1>3. Named(t) /\ Twice(t) /\ Gone(t) /\ Fresh(t) /\ Kept(t) /\ \A m \in Shares : Workers(t, m) = Workers(files, m)
  BY <1>2, BackupKeepsFiles
<1>4. t.backup.at \in {"share", "rest"} /\ s.done = files.done
  BY <1>1 DEF Same, Fields
<1>5. \A m \in Shares : Mover(t, m) = 0
  BY <1>4 DEF Mover
<1>6. Shipped(t)
  BY <1>1, <1>2, <1>4 DEF FilesInv, Shipped, Over, At, Nm, Same, Fields
<1>7. b.m \in Shares /\ \A x \in b.todo : ShareOf(x) \in Shares
  <2>1. b \in Backups
    BY DEF FilesInv, FilesState
  <2> QED
    BY <2>1 DEF Backups, ShareOf, Shares
<1>8. Moved(t)
  <2>1. t.done <= Day(t.now) /\ t.backup.day <= Day(t.now)
    BY <1>1, <1>2, <1>4 DEF FilesInv, Moved, Same, Fields
  <2>2. CASE b.m = "lcsc"
    <3>1. t.backup.at = "share" /\ t.backup.m = "dsrc" /\ t.done = files.done /\ t.there = files.there /\ t.raced = files.raced
      BY <1>1, <1>2, <1>4, <2>2 DEF Same, Fields
    <3>2. t.backup.ok => \A x \in t.backup.todo : ShareOf(x) # "lcsc"
      BY <1>1, <2>2 DEF TodoOn
    <3>3. t.backup.ok => \A x \in t.there : DayOf(x) < t.backup.day => x \in t.raced \/ x \in t.backup.todo
      BY <1>1, <3>1 DEF FilesInv, Moved
    <3> QED
      BY <2>1, <3>1, <3>2, <3>3 DEF FilesInv, Moved
  <2>3. CASE b.m # "lcsc"
    <3>1. t.backup.at = "rest" /\ t.done = (IF s.backup.ok THEN b.day ELSE files.done)
          /\ t.there = files.there /\ t.raced = files.raced
      BY <1>1, <1>2, <1>4, <2>3 DEF Same, Fields
    <3>2. s.backup.ok => b.ok /\ b.todo = {}
      <4>1. s.backup.ok => \A x \in b.todo : ShareOf(x) # "lcsc" /\ ShareOf(x) # "dsrc"
        <5>1. b.m = "dsrc"
          BY <1>7, <2>3 DEF Shares
        <5> QED
          BY <5>1 DEF FilesInv, Moved, TodoOn
      <4> QED
        BY <1>7, <4>1 DEF Shares
    <3>3. \A x \in t.there : DayOf(x) < t.done => x \in t.raced
      BY <3>1, <3>2 DEF FilesInv, Moved
    <3> QED
      BY <2>1, <3>1, <3>3 DEF Moved
  <2> QED
    BY <2>2, <2>3
<1> QED
  BY <1>1, <1>2, <1>3, <1>5, <1>6, <1>8 DEF t

LEMMA BeginsKeeps ==
  ASSUME FilesAssumption, FilesInv(files), NEW ok \in BOOLEAN, BackupBegins(ok)
  PROVE  FilesInv(files')
<1> DEFINE begun == [f EXCEPT !.first = FALSE]
           back == [at |-> "share", day |-> Day(f.now), todo |-> Old(f), m |-> "lcsc", file |-> NoName, ok |-> TRUE]
<1>1. files \in FilesState /\ b.at = "rest"
  BY DEF BackupBegins, FilesInv
<1>2. begun \in FilesState /\ begun.faults = f.faults /\ Same(files, begun, Fields) /\ Day(f.now) \in Nat
  <2>1. Day(f.now) \in Nat
    BY <1>1, DayTypes DEF FilesState, FilesAssumption
  <2>2. begun \in FilesState /\ begun.faults = f.faults /\ Same(files, begun, Fields)
    BY <1>1 DEF FilesState, Same, Fields
  <2> QED
    BY <2>1, <2>2
<1> HIDE DEF begun
<1>3. FilesInv(begun)
  BY <1>2, Frames DEF FilesInv, Same, Fields
<1>4. CASE Old(f) = {}
  <2> DEFINE t == [begun EXCEPT !.done = Day(f.now)]
  <2>1. Become(t, ok)
    BY <1>4 DEF BackupBegins, begun
  <2>2. t \in FilesState /\ t.faults = f.faults /\ Same(begun, t, Fields \ {"done"}) /\ t.done = Day(f.now)
    BY <1>2 DEF FilesState, Same, Fields
  <2> HIDE DEF t
  <2>3. Same(files, t, Fields \ {"done"})
    BY <1>2, <2>2 DEF Same, Fields
  <2>4. Named(t) /\ Twice(t) /\ Gone(t) /\ Fresh(t) /\ Kept(t) /\ Shipped(t) /\ Leased(t)
    BY <2>3, Frames DEF Same, Fields
  <2>5. Moved(t)
    BY <1>1, <1>2, <1>4, <2>2, <2>3 DEF FilesInv, Moved, Old, Same, Fields
  <2> QED
    BY <2>1, <2>2, <2>4, <2>5, Became DEF FilesInv
<1>5. CASE Old(f) # {} /\ ~ok
  <2>1. Become(begun, ok)
    BY <1>5 DEF BackupBegins, begun
  <2> QED
    BY <1>2, <1>3, <2>1, Became
<1>6. CASE Old(f) # {} /\ ok
  <2> DEFINE t == [begun EXCEPT !.backup = back]
  <2>1. Become(t, ok)
    BY <1>6 DEF BackupBegins, begun
  <2>2. Old(f) \in SUBSET Names
    BY <1>1 DEF Old, FilesState
  <2>3. back \in Backups
    BY <1>2, <2>2 DEF Backups, Shares
  <2>4. back.at = "share" /\ back.day = Day(f.now) /\ back.todo = Old(f) /\ back.m = "lcsc"
    OBVIOUS
  <2> HIDE DEF back
  <2>5. t \in FilesState /\ t.faults = f.faults /\ Same(begun, t, Fields \ {"backup"}) /\ t.backup = back
    BY <1>2, <2>3, BackupTypes
  <2> HIDE DEF t
  <2>6. Same(files, t, Fields \ {"backup"})
    BY <1>2, <2>5 DEF Same, Fields
  <2>7. Named(t) /\ Twice(t) /\ Gone(t) /\ Fresh(t) /\ Kept(t) /\ \A m \in Shares : Workers(t, m) = Workers(files, m)
    BY <2>6, BackupKeepsFiles DEF Same, Fields
  <2>8. Shipped(t)
    BY <2>4, <2>5, <2>6 DEF FilesInv, Shipped, Over, Old, At, Nm, Same, Fields
  <2>9. Leased(t)
    <3>1. \A m \in Shares : Mover(t, m) = Mover(files, m)
      BY <1>1, <2>4, <2>5 DEF Mover
    <3>2. t.mounted = files.mounted /\ t.leases = files.leases
      BY <2>6 DEF Same, Fields
    <3> QED
      BY <2>7, <3>1, <3>2 DEF FilesInv, Leased, Users
  <2>10. Moved(t)
    BY <1>2, <2>4, <2>5, <2>6 DEF FilesInv, Moved, Old, Same, Fields
  <2> QED
    BY <2>1, <2>5, <2>7, <2>8, <2>9, <2>10, Became DEF FilesInv
<1> QED
  BY <1>4, <1>5, <1>6

LEMMA MountsKeeps ==
  ASSUME FilesAssumption, FilesInv(files), NEW ok \in BOOLEAN, BackupMounts(ok)
  PROVE  FilesInv(files')
<1>1. files \in FilesState /\ b.at = "share" /\ b \in Backups /\ b.m \in Shares
  BY DEF BackupMounts, FilesInv, FilesState, Backups
<1>2. \A m \in Shares : Mover(files, m) = 0
  BY <1>1 DEF Mover
\* Without a candidate, or without the share, it goes on to the next one.
<1>3. ASSUME NEW s \in FilesState, Same(files, s, Fields \ {"backup"}), s.faults = f.faults,
             s.backup.todo = b.todo, s.backup.day = b.day, s.backup.m = b.m,
             s.backup.ok => b.ok /\ TodoOn(b.m) = {}, Become(NextShare(s), ok)
      PROVE  FilesInv(files')
  <2> DEFINE t == NextShare(s)
  <2>1. /\ t \in FilesState /\ t.faults = f.faults /\ t.mounted = s.mounted /\ t.leases = s.leases
        /\ Named(t) /\ Twice(t) /\ Gone(t) /\ Fresh(t) /\ Kept(t) /\ Shipped(t) /\ Moved(t)
        /\ \A m \in Shares : Workers(t, m) = Workers(files, m) /\ Mover(t, m) = 0
    BY <1>1, <1>3, NextKeeps DEF Same, Fields
  <2> HIDE DEF t
  <2>2. t.mounted = files.mounted /\ t.leases = files.leases
    BY <1>3, <2>1 DEF Same, Fields
  <2>3. Leased(t)
    BY <1>2, <2>1, <2>2 DEF FilesInv, Leased, Users
  <2>4. FilesInv(t)
    BY <2>1, <2>3 DEF FilesInv
  <2> QED
    BY <1>3, <2>1, <2>4, Became DEF t
<1>4. CASE TodoOn(b.m) = {}
  <2>1. Become(NextShare(f), ok)
    BY <1>4 DEF BackupMounts
  <2>2. Same(files, files, Fields \ {"backup"}) /\ (files.backup.ok => b.ok)
    BY DEF Same
  <2> QED
    BY <1>1, <1>3, <1>4, <2>1, <2>2
<1>5. CASE TodoOn(b.m) # {} /\ ~CanMount(f, b.m, ok)
  <2> DEFINE s == Outcome(f, FALSE)
             back == [f.backup EXCEPT !.ok = FALSE]
  <2>1. Become(NextShare(s), ok)
    BY <1>5 DEF BackupMounts
  <2>2. s = [f EXCEPT !.backup = back]
    <3>1. f.backup.ok \in BOOLEAN
      BY <1>1 DEF Backups
    <3> QED
      BY <3>1 DEF Outcome
  <2>3. back \in Backups /\ back.todo = b.todo /\ back.day = b.day /\ back.m = b.m /\ back.ok = FALSE
    BY <1>1 DEF Backups
  <2> HIDE DEF back, s
  <2>4. s \in FilesState /\ s.faults = f.faults /\ Same(files, s, Fields \ {"backup"}) /\ s.backup = back
    BY <1>1, <2>2, <2>3, BackupTypes
  <2>5. s.backup.todo = b.todo /\ s.backup.day = b.day /\ s.backup.m = b.m /\ s.backup.ok = FALSE
    BY <2>3, <2>4
  <2> QED
    BY <1>3, <2>1, <2>4, <2>5
<1>6. CASE TodoOn(b.m) # {} /\ CanMount(f, b.m, ok)
  <2> DEFINE s == Acquired(f, b.m)
             back == [s.backup EXCEPT !.at = "files"]
             t == [s EXCEPT !.backup.at = "files"]
  <2>1. Become(t, ok)
    BY <1>6 DEF BackupMounts
  <2>2. s \in FilesState /\ s.faults = f.faults /\ Same(files, s, Fields \ {"mounted", "leases"})
    BY <1>1, AcquiredTypes
  <2> HIDE DEF s
  <2>3. s.backup = b
    BY <2>2 DEF Same, Fields
  <2>4. /\ back \in Backups /\ back.at = "files" /\ back.todo = b.todo /\ back.day = b.day /\ back.m = b.m
        /\ back.ok = b.ok
    BY <1>1, <2>3 DEF Backups
  <2>5. t = [s EXCEPT !.backup = back]
    OBVIOUS
  <2> HIDE DEF back, t
  <2>6. t \in FilesState /\ t.faults = f.faults /\ Same(s, t, Fields \ {"backup"}) /\ t.backup = back
    BY <2>2, <2>4, <2>5, BackupTypes
  <2>7. Same(files, t, Fields \ {"backup", "mounted", "leases"}) /\ t.mounted = s.mounted /\ t.leases = s.leases
    BY <2>2, <2>6 DEF Same, Fields
  <2>8. Named(t) /\ Twice(t) /\ Gone(t) /\ Fresh(t) /\ Kept(t) /\ \A m \in Shares : Workers(t, m) = Workers(files, m)
    BY <2>7, BackupKeepsFiles DEF Same, Fields
  <2>9. Shipped(t)
    BY <2>4, <2>6, <2>7 DEF FilesInv, Shipped, Over, At, Nm, Same, Fields
  <2>10. Leased(t)
    <3>1. \A m \in Shares : Mover(t, m) = IF m = b.m THEN 1 ELSE 0
      BY <2>4, <2>6 DEF Mover
    <3>2. \A m \in Shares : IsFiniteSet(Workers(t, m)) /\ Cardinality(Workers(files, m)) \in Nat
      BY <2>8, FS_CardinalityType DEF FilesInv, Leased
    <3>3. \A m \in Shares : IsFiniteSet(Workers(t, m)) /\ Users(t, m) = IF m = b.m THEN Users(files, m) + 1 ELSE Users(files, m)
      BY <1>2, <2>8, <3>1, <3>2 DEF Users
    <3> QED
      BY <1>1, <2>7, <3>3, OneMore DEF s
  <2>11. Moved(t)
    BY <1>1, <2>4, <2>6, <2>7 DEF FilesInv, Moved, Same, Fields
  <2> QED
    BY <2>1, <2>6, <2>8, <2>9, <2>10, <2>11, Became DEF FilesInv
<1> QED
  BY <1>4, <1>5, <1>6

LEMMA CopiesKeeps ==
  ASSUME FilesAssumption, FilesInv(files), NEW x \in b.todo, NEW ok \in BOOLEAN, BackupCopies(x, ok)
  PROVE  FilesInv(files')
<1> DEFINE taken == [f EXCEPT !.backup.todo = @ \ {x}]
<1>1. /\ files \in FilesState /\ b.at = "files" /\ ShareOf(x) = b.m /\ b \in Backups /\ b.m \in Shares
      /\ x \in Names
  BY DEF BackupCopies, TodoOn, FilesInv, FilesState, Backups
<1>2. Over(files, x)
  BY DEF FilesInv, Shipped
<1>3. /\ taken \in FilesState /\ taken.faults = f.faults /\ Same(files, taken, Fields \ {"backup"})
      /\ taken.backup = [b EXCEPT !.todo = b.todo \ {x}]
  <2> DEFINE back == [b EXCEPT !.todo = b.todo \ {x}]
  <2>1. taken = [f EXCEPT !.backup = back]
    OBVIOUS
  <2>2. back \in Backups
    BY <1>1 DEF Backups
  <2> HIDE DEF taken, back
  <2>3. taken \in FilesState /\ taken.faults = f.faults /\ Same(files, taken, Fields \ {"backup"}) /\ taken.backup = back
    BY <1>1, <2>1, <2>2, BackupTypes
  <2> QED
    BY <2>3 DEF back
<1> HIDE DEF taken
<1>4. CASE ok /\ x \in f.there
  <2> DEFINE s == Copied(taken, x)
             back == [s.backup EXCEPT !.at = "copied", !.file = x]
             t == [s EXCEPT !.backup.at = "copied", !.backup.file = x]
  <2>1. Become(t, ok)
    BY <1>4 DEF BackupCopies, taken
  <2>2. taken.mounted[ShareOf(x)]
    <3>1. files.mounted[b.m]
      BY <1>1, UsersHaveIt DEF Mover
    <3> QED
      BY <1>1, <1>3, <3>1 DEF Same, Fields
  <2>3. /\ s \in FilesState /\ s.faults = f.faults /\ Same(files, s, Fields \ {"backup", "share"}) /\ s.backup = taken.backup
        /\ s.share[x] = files.local[x] /\ \A y \in Names \ {x} : s.share[y] = files.share[y]
    <3>1. /\ s \in FilesState /\ s.faults = taken.faults /\ Same(taken, s, Fields \ {"share"})
          /\ s.share[x] = taken.local[x] /\ \A y \in Names \ {x} : s.share[y] = taken.share[y]
      BY <1>1, <1>3, <2>2, CopiedTypes
    <3> HIDE DEF s
    <3> QED
      BY <1>3, <3>1 DEF Same, Fields
  <2> HIDE DEF s
  <2>4. /\ back \in Backups /\ back.at = "copied" /\ back.file = x /\ back.todo = b.todo \ {x}
        /\ back.day = b.day /\ back.m = b.m /\ back.ok = b.ok
    <3>1. back = [[b EXCEPT !.todo = b.todo \ {x}] EXCEPT !.at = "copied", !.file = x]
      BY <1>3, <2>3
    <3> HIDE DEF back
    <3> QED
      BY <1>1, <3>1 DEF Backups
  <2>5. t = [s EXCEPT !.backup = back]
    OBVIOUS
  <2> HIDE DEF back, t
  <2>6. t \in FilesState /\ t.faults = f.faults /\ Same(s, t, Fields \ {"backup"}) /\ t.backup = back
    BY <2>3, <2>4, <2>5, BackupTypes
  <2>7. /\ Same(files, t, Fields \ {"backup", "share"})
        /\ t.share[x] = files.local[x] /\ \A y \in Names \ {x} : t.share[y] = files.share[y]
    BY <2>3, <2>6 DEF Same, Fields
  <2>8. Named(t) /\ Twice(t) /\ Gone(t) /\ Fresh(t)
    BY <2>7, Frames DEF Same, Fields
  <2>9. \A q \in Records : At(t, q) = At(files, q) /\ Nm(t, q) = Nm(files, q) /\ (Safe(t, q) <=> Safe(files, q))
    BY <2>7 DEF At, Nm, Safe, Same, Fields
  \* Every record of the file is on the share now.
  <2>10. ASSUME NEW q \in Records, Safe(files, q), Nm(files, q) \notin files.raced
         PROVE  /\ Nm(files, q) = x => q \in t.share[x]
                /\ Nm(files, q) # x => t.share[Nm(files, q)] = files.share[Nm(files, q)]
    <3>1. Nm(files, q) \in Names
      BY <2>10, WritersName DEF Safe
    <3>2. Nm(files, q) = x => q \in files.local[x]
      BY <1>4, <2>10 DEF FilesInv, Kept
    <3> QED
      BY <2>7, <3>1, <3>2
  <2>11. t.there = files.there /\ t.local = files.local /\ t.raced = files.raced
         /\ \A y : Over(files, y) <=> Over(t, y)
    BY <2>7 DEF Over, Same, Fields
  <2>12. Kept(t)
    <3> SUFFICES ASSUME NEW q \in Records, Safe(t, q), Nm(t, q) \notin t.raced
                 PROVE  /\ Nm(t, q) \in t.there => q \in t.local[Nm(t, q)]
                        /\ Nm(t, q) \notin t.there => q \in t.share[Nm(t, q)]
      BY DEF Kept
    <3>1. Safe(files, q) /\ Nm(files, q) = Nm(t, q) /\ Nm(files, q) \notin files.raced
      BY <2>9, <2>11
    <3> QED
      BY <2>10, <2>11, <3>1 DEF FilesInv, Kept
  <2>13. Shipped(t)
    <3>1. ASSUME NEW q \in Records, At(t, q) = "copied", Nm(t, q) \notin t.raced
          PROVE  q \in t.share[Nm(t, q)]
      <4>1. Safe(files, q) /\ Nm(files, q) = Nm(t, q) /\ Nm(files, q) \notin files.raced /\ At(files, q) = "copied"
        BY <2>9, <2>11, <3>1 DEF Safe
      <4> QED
        BY <2>10, <4>1 DEF FilesInv, Shipped
    <3>2. \A y \in t.backup.todo : Over(t, y)
      BY <2>4, <2>6, <2>11 DEF FilesInv, Shipped
    <3>3. t.backup.file = x /\ x \in Names /\ Over(t, x)
      BY <1>1, <1>2, <2>4, <2>6, <2>11
    <3>4. ASSUME x \notin t.raced, NEW q \in Records, Safe(t, q), Nm(t, q) = x
          PROVE  q \in t.share[x]
      BY <2>9, <2>10, <2>11, <3>4
    <3> QED
      BY <3>1, <3>2, <3>3, <3>4 DEF Shipped
  <2>14. Leased(t)
    <3>1. \A m \in Shares : Workers(t, m) = Workers(files, m) /\ Mover(t, m) = Mover(files, m)
      BY <1>1, <2>4, <2>6, <2>9 DEF Workers, Mover
    <3>2. t.mounted = files.mounted /\ t.leases = files.leases
      BY <2>7 DEF Same, Fields
    <3> QED
      BY <3>1, <3>2 DEF FilesInv, Leased, Users
  <2>15. Moved(t)
    <3>1. t.done = files.done /\ t.now = files.now
      BY <2>7 DEF Same, Fields
    <3> QED
      BY <1>1, <2>4, <2>6, <2>11, <3>1 DEF FilesInv, Moved
  <2> QED
    BY <2>1, <2>6, <2>8, <2>12, <2>13, <2>14, <2>15, Became DEF FilesInv
<1>5. CASE ~(ok /\ x \in f.there)
  <2> DEFINE t == Outcome(taken, FALSE)
             back == [taken.backup EXCEPT !.ok = FALSE]
  <2>1. Become(t, ok)
    BY <1>5 DEF BackupCopies, taken
  <2>2. taken.backup \in Backups /\ taken.backup.at = "files" /\ taken.backup.todo = b.todo \ {x}
        /\ taken.backup.m = b.m /\ taken.backup.day = b.day
    BY <1>1, <1>3 DEF FilesState, Backups
  <2>3. back \in Backups /\ back.at = "files" /\ back.todo = b.todo \ {x} /\ back.m = b.m /\ back.day = b.day /\ back.ok = FALSE
    BY <2>2 DEF Backups
  <2>4. t = [taken EXCEPT !.backup = back]
    <3>1. taken.backup.ok \in BOOLEAN
      BY <2>2 DEF Backups
    <3> QED
      BY <3>1 DEF Outcome
  <2> HIDE DEF back, t
  <2>5. t \in FilesState /\ t.faults = f.faults /\ Same(taken, t, Fields \ {"backup"}) /\ t.backup = back
    BY <1>3, <2>3, <2>4, BackupTypes
  <2>6. Same(files, t, Fields \ {"backup"})
    BY <1>3, <2>5 DEF Same, Fields
  <2>7. Named(t) /\ Twice(t) /\ Gone(t) /\ Fresh(t) /\ Kept(t) /\ \A m \in Shares : Workers(t, m) = Workers(files, m)
    BY <2>6, BackupKeepsFiles DEF Same, Fields
  <2>8. Shipped(t)
    BY <2>3, <2>5, <2>6 DEF FilesInv, Shipped, Over, At, Nm, Same, Fields
  <2>9. Leased(t)
    <3>1. \A m \in Shares : Mover(t, m) = Mover(files, m)
      BY <1>1, <2>3, <2>5 DEF Mover
    <3>2. t.mounted = files.mounted /\ t.leases = files.leases
      BY <2>6 DEF Same, Fields
    <3> QED
      BY <2>7, <3>1, <3>2 DEF FilesInv, Leased, Users
  <2>10. Moved(t)
    BY <2>3, <2>5, <2>6 DEF FilesInv, Moved, Same, Fields
  <2> QED
    BY <2>1, <2>5, <2>7, <2>8, <2>9, <2>10, Became DEF FilesInv
<1> QED
  BY <1>4, <1>5

LEMMA RemovesKeeps ==
  ASSUME FilesAssumption, FilesInv(files), NEW ok \in BOOLEAN, BackupRemoves(ok)
  PROVE  FilesInv(files')
<1> DEFINE x == b.file
           s == IF ok THEN Removed(f, x) ELSE f
           back == [b EXCEPT !.ok = b.ok /\ ok, !.at = "files"]
           t == [Outcome(s, ok) EXCEPT !.backup.at = "files"]
<1>1. files \in FilesState /\ b.at = "copied" /\ b \in Backups /\ b.m \in Shares /\ x \in Names /\ Become(t, ok)
      /\ Over(files, x)
  BY DEF BackupRemoves, FilesInv, FilesState, Backups, Shipped
<1>2. /\ s \in FilesState /\ s.faults = f.faults /\ Same(files, s, Fields \ {"there", "local"})
      /\ s.there = (IF ok THEN files.there \ {x} ELSE files.there)
      /\ \A y \in Names \ {x} : s.local[y] = files.local[y]
      /\ ~ok => s.local = files.local
  <2> HIDE DEF x
  <2>1. CASE ok
    BY <1>1, <2>1, RemovedTypes
  <2>2. CASE ~ok
    BY <1>1, <2>2 DEF Same
  <2> QED
    BY <2>1, <2>2
<1> HIDE DEF s
<1>3. s.backup = b
  BY <1>2 DEF Same, Fields
<1>4. back \in Backups /\ back.at = "files" /\ back.todo = b.todo /\ back.m = b.m /\ back.day = b.day /\ (back.ok => b.ok /\ ok)
  BY <1>1 DEF Backups
<1>5. t = [s EXCEPT !.backup = back]
  BY <1>2, <1>3 DEF Outcome, FilesState
<1> HIDE DEF back, t
<1>6. t \in FilesState /\ t.faults = f.faults /\ Same(s, t, Fields \ {"backup"}) /\ t.backup = back
  BY <1>2, <1>4, <1>5, BackupTypes
<1>7. /\ Same(files, t, Fields \ {"there", "local", "backup"})
      /\ t.there = (IF ok THEN files.there \ {x} ELSE files.there)
      /\ \A y \in Names \ {x} : t.local[y] = files.local[y]
      /\ ~ok => t.local = files.local
  <2> HIDE DEF x
  <2> QED
    BY <1>2, <1>6 DEF Same, Fields
<1>8. \A q \in Records : At(t, q) = At(files, q) /\ Nm(t, q) = Nm(files, q) /\ IsNew(t, q) = IsNew(files, q)
                         /\ (Safe(t, q) <=> Safe(files, q))
  BY <1>7 DEF At, Nm, IsNew, Safe, Same, Fields
<1>9. t.share = files.share /\ t.raced = files.raced /\ \A y : Over(files, y) <=> Over(t, y)
  BY <1>7 DEF Over, Same, Fields
<1>10. Named(t) /\ Twice(t)
  BY <1>7, Frames DEF Same, Fields
<1>11. Gone(t)
  BY <1>1, <1>7, <1>8, <1>9 DEF FilesInv, Gone
<1>12. Fresh(t)
  BY <1>7, <1>8, <1>9 DEF FilesInv, Fresh
<1>13. Kept(t)
  <2> SUFFICES ASSUME NEW q \in Records, Safe(t, q), Nm(t, q) \notin t.raced
               PROVE  /\ Nm(t, q) \in t.there => q \in t.local[Nm(t, q)]
                      /\ Nm(t, q) \notin t.there => q \in t.share[Nm(t, q)]
    BY DEF Kept
  <2>1. Safe(files, q) /\ Nm(files, q) = Nm(t, q) /\ Nm(files, q) \notin files.raced
    BY <1>8, <1>9
  <2>2. Nm(files, q) \in Names
    BY <2>1, WritersName DEF Safe
  <2>3. CASE ok /\ Nm(files, q) = x
    <3>1. q \in files.share[x]
      BY <1>1, <2>1, <2>3 DEF FilesInv, Shipped
    <3> QED
      BY <1>7, <1>9, <2>1, <2>3, <3>1
  <2>4. CASE ~ok
    BY <1>7, <1>9, <2>1, <2>4 DEF FilesInv, Kept
  <2>5. CASE ok /\ Nm(files, q) # x
    <3>1. (Nm(files, q) \in t.there <=> Nm(files, q) \in files.there) /\ t.local[Nm(files, q)] = files.local[Nm(files, q)]
      BY <1>7, <2>2, <2>5
    <3> QED
      BY <1>9, <2>1, <3>1 DEF FilesInv, Kept
  <2> QED
    BY <2>3, <2>4, <2>5
<1>14. Shipped(t)
  BY <1>4, <1>6, <1>8, <1>9 DEF FilesInv, Shipped
<1>15. Leased(t)
  <2>1. \A m \in Shares : Workers(t, m) = Workers(files, m) /\ Mover(t, m) = Mover(files, m)
    BY <1>1, <1>4, <1>6, <1>8 DEF Workers, Mover
  <2>2. t.mounted = files.mounted /\ t.leases = files.leases
    BY <1>7 DEF Same, Fields
  <2> QED
    BY <2>1, <2>2 DEF FilesInv, Leased, Users
<1>16. Moved(t)
  <2>1. t.done = files.done /\ t.now = files.now /\ t.there \subseteq files.there /\ (ok => x \notin t.there)
    BY <1>7 DEF Same, Fields
  <2> QED
    BY <1>1, <1>4, <1>6, <1>9, <2>1 DEF FilesInv, Moved
<1> QED
  BY <1>1, <1>6, <1>10, <1>11, <1>12, <1>13, <1>14, <1>15, <1>16, Became DEF FilesInv

LEMMA LeavesKeeps ==
  ASSUME FilesAssumption, FilesInv(files), NEW ok \in BOOLEAN, BackupLeaves(ok)
  PROVE  FilesInv(files')
<1> DEFINE s == Released(f, b.m, ok)
           t == NextShare(s)
<1>1. files \in FilesState /\ b.at = "files" /\ b.m \in Shares /\ TodoOn(b.m) = {} /\ Become(t, ok)
  BY DEF BackupLeaves, FilesInv, FilesState, Backups
<1>2. s \in FilesState /\ s.faults = f.faults /\ Same(files, s, Fields \ {"mounted", "leases"})
  BY <1>1, ReleasedTypes
<1> HIDE DEF s
<1>3. /\ t \in FilesState /\ t.faults = f.faults /\ t.mounted = s.mounted /\ t.leases = s.leases
      /\ Named(t) /\ Twice(t) /\ Gone(t) /\ Fresh(t) /\ Kept(t) /\ Shipped(t) /\ Moved(t)
      /\ \A m \in Shares : Workers(t, m) = Workers(files, m) /\ Mover(t, m) = 0
  <2>1. s.backup = b /\ Same(files, s, Fields \ {"backup", "mounted", "leases"})
    BY <1>2 DEF Same, Fields
  <2> QED
    BY <1>1, <1>2, <2>1, NextKeeps
<1> HIDE DEF t
<1>4. Leased(t)
  <2>1. \A m \in Shares : Mover(files, m) = IF m = b.m THEN 1 ELSE 0
    BY <1>1 DEF Mover
  <2>2. \A m \in Shares : IsFiniteSet(Workers(files, m)) /\ Cardinality(Workers(files, m)) \in Nat
    BY FS_CardinalityType DEF FilesInv, Leased
  <2>3. \A m \in Shares : IsFiniteSet(Workers(t, m)) /\ Users(t, m) = IF m = b.m THEN Users(files, m) - 1 ELSE Users(files, m)
    BY <1>3, <2>1, <2>2 DEF Users
  <2>4. Users(files, b.m) > 0
    BY <1>1, <2>1, UsersHaveIt
  <2> QED
    BY <1>1, <1>3, <2>3, <2>4, OneLess DEF s
<1> QED
  BY <1>1, <1>3, <1>4, Became DEF FilesInv

------------------------------------------------------------------------------
\* Time passes, and the program dies.

LEMMA TickKeeps ==
  ASSUME FilesAssumption, FilesInv(files), Tick
  PROVE  FilesInv(files')
<1> DEFINE t == [f EXCEPT !.now = @ + 1]
<1>1. files \in FilesState /\ f.now \in Nat /\ f.now + 1 \in 0..MaxTime /\ Become(t, TRUE)
  <2>1. files \in FilesState /\ f.now < MaxTime /\ Become(t, TRUE)
    BY DEF Tick, FilesInv
  <2> HIDE DEF t
  <2>2. f.now \in 0..MaxTime /\ MaxTime \in Nat
    BY <2>1 DEF FilesState, FilesAssumption
  <2>3. f.now \in Nat /\ f.now + 1 \in 0..MaxTime
    BY <2>1, <2>2
  <2> QED
    BY <2>1, <2>3
<1>2. t \in FilesState /\ t.faults = f.faults /\ Same(files, t, Fields \ {"now"}) /\ t.now = f.now + 1
  BY <1>1 DEF FilesState, Same, Fields
<1> HIDE DEF t
<1>3. Day(files.now) \in Nat /\ Day(t.now) \in Nat /\ Day(files.now) <= Day(t.now)
  BY <1>1, <1>2, DayTypes
<1>4. \A x \in Names : Over(files, x) => Over(t, x)
  BY <1>3, NameTypes DEF Over
<1>5. Named(t) /\ Twice(t) /\ Fresh(t) /\ Kept(t) /\ Leased(t)
  BY <1>2, Frames DEF Same, Fields
<1>6. \A q \in Records : At(t, q) = At(files, q) /\ Nm(t, q) = Nm(files, q) /\ (Safe(t, q) <=> Safe(files, q))
  BY <1>2 DEF At, Nm, Safe, Same, Fields
<1>7. Gone(t)
  <2>1. \A q \in Records : At(files, q) = "open" \/ Safe(files, q) => Nm(files, q) \in Names
    BY WritersName DEF Safe
  <2> QED
    BY <1>2, <1>4, <1>6, <2>1 DEF FilesInv, Gone, Same, Fields
<1>8. Shipped(t)
  <2>1. f.backup.todo \subseteq Names
    BY <1>1 DEF FilesState, Backups
  <2>2. t.backup = files.backup /\ t.share = files.share /\ t.raced = files.raced
    BY <1>2 DEF Same, Fields
  <2> QED
    BY <1>4, <1>6, <2>1, <2>2 DEF FilesInv, Shipped
<1>9. Moved(t)
  <2>1. files.done \in Int /\ files.backup.day \in Nat
    BY <1>1 DEF FilesState, Backups
  <2>2. t.done = files.done /\ t.backup = files.backup /\ t.there = files.there /\ t.raced = files.raced
    BY <1>2 DEF Same, Fields
  <2>3. t.done <= Day(t.now) /\ t.backup.day <= Day(t.now)
    BY <1>3, <2>1, <2>2 DEF FilesInv, Moved
  <2> QED
    BY <2>2, <2>3 DEF FilesInv, Moved
<1> QED
  BY <1>1, <1>2, <1>5, <1>7, <1>8, <1>9, Became DEF FilesInv

LEMMA CrashKeeps ==
  ASSUME FilesAssumption, FilesInv(files), Crash
  PROVE  FilesInv(files')
<1> DEFINE job == [r \in Records |-> AfterCrash(f.job[r])]
           back == [b EXCEPT !.at = "rest"]
           leases == [m \in Shares |-> [n |-> -1, own |-> FALSE]]
           t == [f EXCEPT !.job = [r \in Records |-> AfterCrash(@[r])], !.first = TRUE, !.done = -1,
                          !.backup.at = "rest", !.leases = [m \in Shares |-> [n |-> -1, own |-> FALSE]]]
<1>1. files \in FilesState /\ b \in Backups /\ f.job \in Jobs /\ Become(t, FALSE)
  BY DEF Crash, FilesInv, FilesState
<1>2. t = [f EXCEPT !.job = job, !.first = TRUE, !.done = -1, !.backup = back, !.leases = leases]
  OBVIOUS
<1>3. job \in Jobs
  <2>1. \A r \in Records : f.job[r] \in [at : Stages, name : Names \cup {NoName}, new : BOOLEAN]
    BY <1>1 DEF Jobs
  <2>2. \A r \in Records : AfterCrash(f.job[r]) \in [at : Stages, name : Names \cup {NoName}, new : BOOLEAN]
    BY <2>1 DEF AfterCrash, Stages
  <2> QED
    BY <2>2 DEF Jobs
<1>4. back \in Backups /\ back.at = "rest" /\ back.todo = b.todo /\ back.day = b.day
  BY <1>1 DEF Backups
<1>5. leases \in Leases /\ \A m \in Shares : leases[m].n = -1
  BY DEF Leases
<1> HIDE DEF t, back, leases
<1>6. /\ t \in FilesState /\ t.faults = f.faults /\ Same(files, t, Fields \ {"job", "done", "backup", "leases"})
      /\ t.job = job /\ t.done = -1 /\ t.backup = back /\ t.leases = leases
  <2> HIDE DEF job
  <2>1. -1 \in Int
    OBVIOUS
  <2>2. t \in FilesState
    BY <1>1, <1>2, <1>3, <1>4, <1>5, <2>1 DEF FilesState
  <2>3. t.faults = f.faults /\ t.job = job /\ t.done = -1 /\ t.backup = back /\ t.leases = leases
    BY <1>1, <1>2 DEF FilesState
  <2>4. Same(files, t, Fields \ {"job", "done", "backup", "leases"})
    BY <1>1, <1>2 DEF FilesState, Same, Fields
  <2> QED
    BY <2>2, <2>3, <2>4
<1>7. \A q \in Records :
        /\ At(t, q) \in {"none", "failed", "done"} /\ Nm(t, q) = Nm(files, q)
        /\ (At(t, q) = "none" <=> At(files, q) = "none") /\ (Safe(t, q) <=> Safe(files, q))
  <2>1. \A q \in Records : f.job[q] \in [at : Stages, name : Names \cup {NoName}, new : BOOLEAN] /\ t.job[q] = AfterCrash(f.job[q])
    BY <1>1, <1>6 DEF Jobs
  <2> QED
    BY <2>1 DEF AfterCrash, Stages, At, Nm, Safe
<1>8. t.there = files.there /\ t.local = files.local /\ t.share = files.share /\ t.raced = files.raced
      /\ t.now = files.now /\ \A y : Over(files, y) <=> Over(t, y)
  BY <1>6 DEF Over, Same, Fields
<1>9. Named(t)
  BY <1>7 DEF FilesInv, Named, Moving
<1>10. Twice(t)
  BY <1>7, <1>8 DEF FilesInv, Twice, Writing
<1>11. Gone(t)
  BY <1>7, <1>8 DEF FilesInv, Gone
<1>12. Fresh(t)
  BY <1>7, <1>8 DEF Fresh
<1>13. Kept(t)
  BY <1>7, <1>8 DEF FilesInv, Kept
<1>14. Shipped(t)
  BY <1>4, <1>6, <1>7, <1>8 DEF FilesInv, Shipped
<1>15. Leased(t)
  <2>1. \A m \in Shares : Workers(t, m) = {} /\ Mover(t, m) = 0
    BY <1>4, <1>6, <1>7 DEF Workers, Mover, Moving
  <2>2. IsFiniteSet({}) /\ Cardinality({}) = 0
    BY FS_EmptySet
  <2>3. \A m \in Shares : Users(t, m) = 0 /\ IsFiniteSet(Workers(t, m))
    BY <2>1, <2>2 DEF Users
  <2>4. \A m \in Shares : t.leases[m].n <= 0
    BY <1>5, <1>6
  <2> QED
    BY <2>3, <2>4 DEF Leased
<1>16. Moved(t)
  <2>1. \A x \in t.there : DayOf(x) \in Nat
    BY <1>1, <1>8, NameTypes DEF FilesState
  <2>2. Day(t.now) \in Nat
    BY <1>6, DayTypes DEF FilesState, FilesAssumption
  <2> QED
    BY <1>4, <1>6, <1>8, <2>1, <2>2 DEF FilesInv, Moved
<1> QED
  BY <1>1, <1>6, <1>9, <1>10, <1>11, <1>12, <1>13, <1>14, <1>15, <1>16, Became DEF FilesInv

LEMMA InitKeeps ==
  ASSUME FilesAssumption, FilesInit
  PROVE  FilesInv(files)
<1> DEFINE job == [r \in Records |-> [at |-> "none", name |-> NoName, new |-> FALSE]]
           empty == [x \in Names |-> {}]
           mounted == [m \in Shares |-> FALSE]
           leases == [m \in Shares |-> [n |-> -1, own |-> FALSE]]
           back == [at |-> "rest", day |-> 0, todo |-> {}, m |-> "lcsc", file |-> NoName, ok |-> TRUE]
<1>1. PICK paid \in Payments :
        files = [paid |-> paid, now |-> 0, there |-> {}, local |-> empty, share |-> empty, job |-> job,
                 mounted |-> mounted, leases |-> leases, backup |-> back, first |-> TRUE, done |-> -1,
                 raced |-> {}, faults |-> 0]
  BY DEF FilesInit
<1>2. paid \in SUBSET Records
  BY DEF FilesAssumption, Records
<1>3. job \in Jobs /\ \A r \in Records : job[r].at = "none" /\ job[r].name = NoName /\ job[r].new = FALSE
  BY DEF Jobs, Stages
<1>4. empty \in Contents /\ mounted \in [Shares -> BOOLEAN]
  BY DEF Contents
<1>5. leases \in Leases /\ \A m \in Shares : leases[m].n <= 0
  BY DEF Leases
<1>6. back \in Backups /\ back.at = "rest" /\ back.todo = {} /\ back.day = 0
  BY DEF Backups, Shares
<1>7. 0 \in 0..MaxTime /\ 0 \in 0..FileFaults /\ -1 \in Int
  BY DEF FilesAssumption
<1> HIDE DEF job, empty, mounted, leases, back
<1>8. files \in FilesState
  BY <1>1, <1>2, <1>3, <1>4, <1>5, <1>6, <1>7 DEF FilesState
<1>9. \A r \in Records : At(files, r) = "none" /\ Nm(files, r) = NoName /\ IsNew(files, r) = FALSE
  BY <1>1, <1>3 DEF At, Nm, IsNew
<1>10. Named(files) /\ Twice(files) /\ Gone(files) /\ Fresh(files) /\ Kept(files)
  BY <1>9 DEF Named, Twice, Gone, Fresh, Kept, Safe, Writing, Moving
<1>11. files.backup = back /\ files.there = {} /\ files.done = -1 /\ files.now = 0 /\ files.leases = leases
  BY <1>1
<1>12. Shipped(files)
  BY <1>6, <1>9, <1>11 DEF Shipped
<1>13. Leased(files)
  <2>1. \A m \in Shares : Workers(files, m) = {} /\ Mover(files, m) = 0
    BY <1>6, <1>9, <1>11 DEF Workers, Mover, Moving
  <2>2. IsFiniteSet({}) /\ Cardinality({}) = 0
    BY FS_EmptySet
  <2>3. \A m \in Shares : Users(files, m) = 0 /\ IsFiniteSet(Workers(files, m))
    BY <2>1, <2>2 DEF Users
  <2> QED
    BY <1>5, <1>11, <2>3 DEF Leased
<1>14. Moved(files)
  <2>1. Day(0) \in Nat
    BY DayTypes
  <2> QED
    BY <1>6, <1>11, <2>1 DEF Moved
<1> QED
  BY <1>8, <1>10, <1>12, <1>13, <1>14 DEF FilesInv

------------------------------------------------------------------------------
\* Every step of a worker, of the backup, of the clock and of the process keeps the invariant.
LEMMA EveryStepKeeps ==
  ASSUME FilesAssumption, FilesInv(files), [FilesNext]_files
  PROVE  FilesInv(files')
<1>1. files.paid \subseteq Records
  BY DEF FilesInv, FilesState
<1>2. ASSUME NEW r \in files.paid, Works(r) PROVE FilesInv(files')
  <2>1. r \in Records
    BY <1>1
  <2>2. CASE Hand(r)
    BY <2>1, <2>2, HandKeeps
  <2>3. CASE Start(r)
    BY <2>1, <2>3, StartKeeps
  <2>4. CASE Close(r)
    BY <2>1, <2>4, CloseKeeps
  <2>5. ASSUME NEW ok \in BOOLEAN, Open(r, ok) PROVE FilesInv(files')
    BY <2>1, <2>5, OpenKeeps
  <2>6. ASSUME NEW ok \in BOOLEAN, Acquire(r, ok) PROVE FilesInv(files')
    BY <2>1, <2>6, AcquireKeeps
  <2>7. ASSUME NEW ok \in BOOLEAN, Copy(r, ok) PROVE FilesInv(files')
    BY <2>1, <2>7, CopyKeeps
  <2>8. ASSUME NEW ok \in BOOLEAN, Remove(r, ok) PROVE FilesInv(files')
    BY <2>1, <2>8, RemoveKeeps
  <2>9. ASSUME NEW ok \in BOOLEAN, Leave(r, ok) PROVE FilesInv(files')
    BY <2>1, <2>9, LeaveKeeps
  <2> QED
    BY <1>2, <2>2, <2>3, <2>4, <2>5, <2>6, <2>7, <2>8, <2>9 DEF Works
<1>3. ASSUME Backs PROVE FilesInv(files')
  <2>1. ASSUME NEW ok \in BOOLEAN, BackupBegins(ok) PROVE FilesInv(files')
    BY <2>1, BeginsKeeps
  <2>2. ASSUME NEW ok \in BOOLEAN, BackupMounts(ok) PROVE FilesInv(files')
    BY <2>2, MountsKeeps
  <2>3. ASSUME NEW ok \in BOOLEAN, BackupRemoves(ok) PROVE FilesInv(files')
    BY <2>3, RemovesKeeps
  <2>4. ASSUME NEW ok \in BOOLEAN, BackupLeaves(ok) PROVE FilesInv(files')
    BY <2>4, LeavesKeeps
  <2>5. ASSUME NEW ok \in BOOLEAN, NEW x \in b.todo, BackupCopies(x, ok) PROVE FilesInv(files')
    BY <2>5, CopiesKeeps
  <2> QED
    BY <1>3, <2>1, <2>2, <2>3, <2>4, <2>5 DEF Backs
<1>4. CASE UNCHANGED files
  BY <1>4
<1> QED
  BY <1>2, <1>3, <1>4, TickKeeps, CrashKeeps DEF FilesNext

\* Of the workers that write files of the on-board units there are two, so a share has at most three users.
Pool(s) ==
  {q \in Records \ LcsRecords : At(s, q) \in {"named", "open", "written", "mounted", "copied", "leaving"}}
PoolFits(s) == IsFiniteSet(Pool(s)) /\ Cardinality(Pool(s)) <= 2

\* What is done to the rest of the state leaves the jobs alone.
Carries(s, t) == "job" \in DOMAIN t /\ t.job = s.job

LEMMA WritingCarries ==
  ASSUME NEW s, "job" \in DOMAIN s
  PROVE  /\ \A name : Carries(s, Late(s, name)) /\ Carries(s, Copied(s, name)) /\ Carries(s, Removed(s, name))
         /\ \A r, name : Carries(s, Shared(s, r, name))
         /\ \A r : Carries(s, Wrote(s, r))
<1>1. Carries(s, s) /\ \A name : Carries(s, Marked(s, name))
  BY DEF Carries, Marked
<1>2. \A name : Carries(s, Late(s, name))
  BY <1>1 DEF Late
<1>3. \A r, name : Carries(s, Shared(s, r, name))
  BY <1>1 DEF Shared
<1>4. \A name : Carries(s, Copied(s, name)) /\ Carries(s, Removed(s, name))
  BY DEF Carries, Copied, Removed
<1>5. \A r : Carries(s, Wrote(s, r))
  BY DEF Carries, Wrote
<1> QED
  BY <1>2, <1>3, <1>4, <1>5

LEMMA SharesCarry ==
  ASSUME NEW s, "job" \in DOMAIN s
  PROVE  /\ \A m : Carries(s, Acquired(s, m))
         /\ \A m, ok : Carries(s, Released(s, m, ok))
         /\ \A ok : Carries(s, Outcome(s, ok))
         /\ Carries(s, NextShare(s))
<1>1. \A m : Carries(s, Acquired(s, m))
  BY DEF Carries, Acquired
<1>2. \A m, ok : Carries(s, Released(s, m, ok))
  BY DEF Carries, Released
<1>3. (\A ok : Carries(s, Outcome(s, ok))) /\ Carries(s, NextShare(s))
  BY DEF Carries, Outcome, NextShare
<1> QED
  BY <1>1, <1>2, <1>3

LEMMA BecameCarries ==
  ASSUME NEW t, "job" \in DOMAIN t, NEW ok \in BOOLEAN, Become(t, ok)
  PROVE  files'.job = t.job
BY DEF Become

\* A stage of one record is no stage of another.
LEMMA GoesAlone ==
  ASSUME NEW s, Carries(files, s), files.job \in Jobs, NEW r \in Records, NEW stage, NEW ok \in BOOLEAN,
         Become(Goes(s, r, stage), ok)
  PROVE  \A q \in Records \ {r} : files'.job[q] = files.job[q]
<1> DEFINE t == Goes(s, r, stage)
<1>1. "job" \in DOMAIN t /\ \A q \in Records \ {r} : t.job[q] = files.job[q]
  BY DEF Goes, Carries, Jobs
<1> HIDE DEF t
<1>2. files'.job = t.job
  BY <1>1, BecameCarries DEF t
<1> QED
  BY <1>1, <1>2

\* A worker that works already is no new one.
LEMMA PoolStays ==
  ASSUME PoolFits(files), Pool(files') \subseteq Pool(files)
  PROVE  PoolFits(files')
<1>1. IsFiniteSet(Pool(files')) /\ Cardinality(Pool(files')) <= Cardinality(Pool(files))
  BY FS_Subset DEF PoolFits
<1>2. Cardinality(Pool(files)) \in Nat /\ Cardinality(Pool(files')) \in Nat
  BY <1>1, FS_CardinalityType DEF PoolFits
<1> QED
  BY <1>1, <1>2 DEF PoolFits

LEMMA StartFits ==
  ASSUME files \in FilesState, PoolFits(files), NEW r \in Records, Start(r)
  PROVE  PoolFits(files')
<1> DEFINE name == IF r \in LcsRecords THEN f.job[r].name ELSE Name(Kind(r), f.now)
           begun == [f EXCEPT !.job[r] = [at |-> "named", name |-> name, new |-> name \notin f.there]]
<1>1. /\ Become(Shared(begun, r, name), TRUE)
      /\ r \notin LcsRecords => Cardinality(Busy(f, r)) < 2
  BY DEF Start
<1>2. "job" \in DOMAIN begun /\ \A q \in Records \ {r} : begun.job[q] = files.job[q]
  BY DEF FilesState, Jobs
<1> HIDE DEF begun, name
<1>3. files'.job = begun.job
  <2>1. Carries(begun, Shared(begun, r, name))
    BY <1>2, WritingCarries
  <2> QED
    BY <1>1, <2>1, BecameCarries DEF Carries
<1>4. \A q \in Records \ {r} : files'.job[q] = files.job[q]
  BY <1>2, <1>3
<1>5. CASE r \in LcsRecords
  BY <1>4, <1>5, PoolStays DEF Pool, At
<1>6. CASE r \notin LcsRecords
  <2>1. Pool(files) = Busy(f, r)
    BY <1>6 DEF Pool, Busy, At
  <2>2. Pool(files') \subseteq Pool(files) \cup {r}
    BY <1>4 DEF Pool, At
  <2>3. /\ IsFiniteSet(Pool(files) \cup {r})
        /\ Cardinality(Pool(files) \cup {r}) <= Cardinality(Pool(files)) + 1
        /\ Cardinality(Pool(files)) \in Nat
    <3>1. IsFiniteSet(Pool(files)) /\ Cardinality(Pool(files)) \in Nat
      BY FS_CardinalityType DEF PoolFits
    <3> DEFINE P == Pool(files)
    <3>2. IsFiniteSet(P) /\ Cardinality(P) \in Nat
      BY <3>1
    <3> HIDE DEF P
    <3>3. /\ IsFiniteSet(P \cup {r})
          /\ Cardinality(P \cup {r}) = IF r \in P THEN Cardinality(P) ELSE Cardinality(P) + 1
      BY <3>2, FS_AddElement
    <3>4. Cardinality(P \cup {r}) <= Cardinality(P) + 1
      BY <3>2, <3>3
    <3> QED
      BY <3>2, <3>3, <3>4 DEF P
  <2>4. /\ IsFiniteSet(Pool(files'))
        /\ Cardinality(Pool(files')) <= Cardinality(Pool(files) \cup {r})
    BY <2>2, <2>3, FS_Subset
  <2>5. Cardinality(Pool(files')) \in Nat /\ Cardinality(Pool(files) \cup {r}) \in Nat
    BY <2>3, <2>4, FS_CardinalityType
  <2> QED
    BY <1>1, <1>6, <2>1, <2>3, <2>4, <2>5 DEF PoolFits
<1> QED
  BY <1>5, <1>6

LEMMA WorksFits ==
  ASSUME files \in FilesState, PoolFits(files), NEW r \in Records, Works(r)
  PROVE  PoolFits(files')
<1>1. files.job \in Jobs /\ Carries(files, f)
  BY DEF FilesState, Carries
<1>2. ASSUME \A q \in Records \ {r} : files'.job[q] = files.job[q], r \in Pool(files) \cup LcsRecords
      PROVE  PoolFits(files')
  BY <1>2, PoolStays DEF Pool, At
<1>3. CASE Hand(r)
  <2> DEFINE t == [f EXCEPT !.job[r].at = "queued", !.job[r].name = Name("lcs", f.now)]
  <2>1. "job" \in DOMAIN t /\ \A q \in Records \ {r} : t.job[q] = files.job[q]
    BY <1>1 DEF Jobs, Carries
  <2>2. Become(t, TRUE) /\ r \in LcsRecords
    BY <1>3 DEF Hand
  <2> HIDE DEF t
  <2> QED
    BY <1>2, <2>1, <2>2, BecameCarries
<1>4. CASE Start(r)
  BY <1>4, StartFits
<1>5. CASE Close(r)
  <2>1. Carries(files, Late(Wrote(f, r), f.job[r].name))
    <3> DEFINE s == Wrote(f, r)
    <3>1. Carries(files, s)
      BY <1>1, WritingCarries DEF Carries
    <3> HIDE DEF s
    <3>2. Carries(s, Late(s, f.job[r].name))
      BY <3>1, WritingCarries DEF Carries
    <3>3. Carries(files, Late(s, f.job[r].name))
      BY <3>1, <3>2 DEF Carries
    <3> QED
      BY <3>3 DEF s
  <2>2. r \in Pool(files) \cup LcsRecords
    BY <1>5 DEF Close, Pool, At
  <2> QED
    BY <1>1, <1>2, <1>5, <2>1, <2>2, GoesAlone DEF Close
<1>6. ASSUME NEW ok \in BOOLEAN, Open(r, ok) PROVE PoolFits(files')
  <2> DEFINE name == f.job[r].name
             opened == [f EXCEPT !.there = @ \cup {name}, !.local[name] = IF f.job[r].new THEN {} ELSE @]
  <2>1. Become(Goes(IF ok THEN Late(opened, name) ELSE f, r, IF ok THEN "open" ELSE "failed"), ok)
    BY <1>6 DEF Open
  <2>2. Carries(files, opened)
    BY <1>1 DEF Carries
  <2> HIDE DEF opened, name
  <2>3. Carries(files, IF ok THEN Late(opened, name) ELSE f)
    BY <1>1, <2>2, WritingCarries, SharesCarry DEF Carries
  <2>4. r \in Pool(files) \cup LcsRecords
    BY <1>6 DEF Open, Pool, At
  <2> QED
    BY <1>1, <1>2, <2>1, <2>3, <2>4, GoesAlone
<1>7. ASSUME NEW ok \in BOOLEAN, Acquire(r, ok) PROVE PoolFits(files')
  <2>1. PICK s, stage : (s = f \/ s = Acquired(f, "dsrc")) /\ Become(Goes(s, r, stage), ok)
    BY <1>7 DEF Acquire
  <2>2. Carries(files, s)
    BY <1>1, <2>1, WritingCarries, SharesCarry DEF Carries
  <2>3. r \in Pool(files) \cup LcsRecords
    BY <1>7 DEF Acquire, Pool, At
  <2> QED
    BY <1>1, <1>2, <2>1, <2>2, <2>3, GoesAlone
<1>8. ASSUME NEW ok \in BOOLEAN, Copy(r, ok) PROVE PoolFits(files')
  <2>1. PICK s, stage : (s = f \/ s = Copied(f, f.job[r].name)) /\ Become(Goes(s, r, stage), ok)
    BY <1>8 DEF Copy
  <2>2. Carries(files, s)
    BY <1>1, <2>1, WritingCarries, SharesCarry DEF Carries
  <2>3. r \in Pool(files) \cup LcsRecords
    BY <1>8 DEF Copy, Pool, At
  <2> QED
    BY <1>1, <1>2, <2>1, <2>2, <2>3, GoesAlone
<1>9. ASSUME NEW ok \in BOOLEAN, Remove(r, ok) PROVE PoolFits(files')
  <2>1. PICK s : (s = f \/ s = Removed(f, f.job[r].name)) /\ Become(Goes(s, r, "leaving"), ok)
    BY <1>9 DEF Remove
  <2>2. Carries(files, s)
    BY <1>1, <2>1, WritingCarries, SharesCarry DEF Carries
  <2>3. r \in Pool(files) \cup LcsRecords
    BY <1>9 DEF Remove, Pool, At
  <2> QED
    BY <1>1, <1>2, <2>1, <2>2, <2>3, GoesAlone
<1>10. ASSUME NEW ok \in BOOLEAN, Leave(r, ok) PROVE PoolFits(files')
  <2>1. Become(Goes(Released(f, "dsrc", ok), r, "done"), ok)
    BY <1>10 DEF Leave
  <2>2. Carries(files, Released(f, "dsrc", ok))
    BY <1>1, WritingCarries, SharesCarry DEF Carries
  <2>3. r \in Pool(files) \cup LcsRecords
    BY <1>10 DEF Leave, Pool, At
  <2> QED
    BY <1>1, <1>2, <2>1, <2>2, <2>3, GoesAlone
<1> QED
  BY <1>3, <1>4, <1>5, <1>6, <1>7, <1>8, <1>9, <1>10 DEF Works

LEMMA BacksFits ==
  ASSUME files \in FilesState, PoolFits(files), Backs
  PROVE  PoolFits(files')
<1>1. Carries(files, f)
  BY DEF FilesState, Carries
<1>2. ASSUME NEW t, Carries(files, t), NEW ok \in BOOLEAN, Become(t, ok) PROVE PoolFits(files')
  <2>1. files'.job = files.job
    BY <1>2, BecameCarries DEF Carries
  <2> QED
    BY <2>1, PoolStays DEF Pool, At
<1>3. ASSUME NEW ok \in BOOLEAN, BackupBegins(ok) PROVE PoolFits(files')
  <2> DEFINE begun == [f EXCEPT !.first = FALSE]
             back == [at |-> "share", day |-> Day(f.now), todo |-> Old(f), m |-> "lcsc", file |-> NoName, ok |-> TRUE]
  <2>1. PICK t : /\ t \in {begun, [begun EXCEPT !.done = Day(f.now)], [begun EXCEPT !.backup = back]}
                 /\ Become(t, ok)
    BY <1>3 DEF BackupBegins
  <2> HIDE DEF back
  <2>2. Carries(files, t)
    BY <1>1, <2>1 DEF Carries
  <2> QED
    BY <1>2, <2>1, <2>2
<1>4. ASSUME NEW ok \in BOOLEAN, BackupMounts(ok) PROVE PoolFits(files')
  <2>1. PICK t : /\ t \in {NextShare(f), [Acquired(f, b.m) EXCEPT !.backup.at = "files"], NextShare(Outcome(f, FALSE))}
                 /\ Become(t, ok)
    BY <1>4 DEF BackupMounts
  <2>2. Carries(files, Acquired(f, b.m)) /\ Carries(files, Outcome(f, FALSE)) /\ Carries(files, NextShare(f))
    BY <1>1, WritingCarries, SharesCarry DEF Carries
  <2>3. Carries(files, NextShare(Outcome(f, FALSE)))
    BY <2>2, WritingCarries, SharesCarry DEF Carries
  <2>4. Carries(files, [Acquired(f, b.m) EXCEPT !.backup.at = "files"])
    BY <2>2 DEF Carries
  <2> QED
    BY <1>2, <2>1, <2>2, <2>3, <2>4
<1>5. ASSUME NEW x, NEW ok \in BOOLEAN, BackupCopies(x, ok) PROVE PoolFits(files')
  <2> DEFINE taken == [f EXCEPT !.backup.todo = @ \ {x}]
  <2>1. PICK t : /\ t \in {[Copied(taken, x) EXCEPT !.backup.at = "copied", !.backup.file = x], Outcome(taken, FALSE)}
                 /\ Become(t, ok)
    BY <1>5 DEF BackupCopies
  <2>2. Carries(files, taken)
    BY <1>1 DEF Carries
  <2> HIDE DEF taken
  <2>3. Carries(files, Copied(taken, x)) /\ Carries(files, Outcome(taken, FALSE))
    BY <2>2, WritingCarries, SharesCarry DEF Carries
  <2>4. Carries(files, [Copied(taken, x) EXCEPT !.backup.at = "copied", !.backup.file = x])
    BY <2>3 DEF Carries
  <2> QED
    BY <1>2, <2>1, <2>3, <2>4
<1>6. ASSUME NEW ok \in BOOLEAN, BackupRemoves(ok) PROVE PoolFits(files')
  <2> DEFINE s == IF ok THEN Removed(f, b.file) ELSE f
  <2>1. Become([Outcome(s, ok) EXCEPT !.backup.at = "files"], ok)
    BY <1>6 DEF BackupRemoves
  <2>2. Carries(files, s)
    BY <1>1, WritingCarries, SharesCarry DEF Carries
  <2> HIDE DEF s
  <2>3. Carries(files, Outcome(s, ok))
    BY <2>2, WritingCarries, SharesCarry DEF Carries
  <2>4. Carries(files, [Outcome(s, ok) EXCEPT !.backup.at = "files"])
    BY <2>3 DEF Carries
  <2> QED
    BY <1>2, <2>1, <2>4
<1>7. ASSUME NEW ok \in BOOLEAN, BackupLeaves(ok) PROVE PoolFits(files')
  <2>1. Become(NextShare(Released(f, b.m, ok)), ok)
    BY <1>7 DEF BackupLeaves
  <2>2. Carries(files, Released(f, b.m, ok))
    BY <1>1, WritingCarries, SharesCarry DEF Carries
  <2>3. Carries(files, NextShare(Released(f, b.m, ok)))
    BY <2>2, WritingCarries, SharesCarry DEF Carries
  <2> QED
    BY <1>2, <2>1, <2>3
<1> QED
  BY <1>3, <1>4, <1>5, <1>6, <1>7 DEF Backs

LEMMA EveryStepFits ==
  ASSUME files \in FilesState, PoolFits(files), [FilesNext]_files
  PROVE  PoolFits(files')
<1>1. ASSUME NEW r \in files.paid, Works(r) PROVE PoolFits(files')
  <2>1. r \in Records
    BY DEF FilesState
  <2> QED
    BY <1>1, <2>1, WorksFits
<1>2. CASE Tick
  <2> DEFINE t == [f EXCEPT !.now = @ + 1]
  <2>1. "job" \in DOMAIN t /\ t.job = files.job /\ Become(t, TRUE)
    BY <1>2 DEF Tick, FilesState
  <2> HIDE DEF t
  <2>2. files'.job = files.job
    BY <2>1, BecameCarries
  <2> QED
    BY <2>2, PoolStays DEF Pool, At
<1>3. CASE Crash
  <2> DEFINE t == [f EXCEPT !.job = [r \in Records |-> AfterCrash(@[r])], !.first = TRUE, !.done = -1,
                            !.backup.at = "rest", !.leases = [m \in Shares |-> [n |-> -1, own |-> FALSE]]]
  <2>1. "job" \in DOMAIN t /\ t.job = [r \in Records |-> AfterCrash(files.job[r])] /\ Become(t, FALSE)
    BY <1>3 DEF Crash, FilesState
  <2> HIDE DEF t
  <2>2. files'.job = [r \in Records |-> AfterCrash(files.job[r])]
    BY <2>1, BecameCarries
  <2>3. \A r \in Records : AfterCrash(files.job[r]).at \in {"none", "failed", "done"}
    BY DEF AfterCrash, FilesState, Jobs
  <2>4. Pool(files') = {}
    BY <2>2, <2>3 DEF Pool, At
  <2> QED
    BY <2>4, PoolStays
<1>4. CASE UNCHANGED files
  BY <1>4
<1> QED
  BY <1>1, <1>2, <1>3, <1>4, BacksFits DEF FilesNext

LEMMA InitFits == ASSUME FilesInit PROVE PoolFits(files)
<1>1. Pool(files) = {}
  BY DEF FilesInit, Pool, At
<1> QED
  BY <1>1, FS_EmptySet DEF PoolFits

\* The invariant and the size of the pool make the state well formed.
LEMMA InvTypes ==
  ASSUME FilesAssumption, FilesInv(files), PoolFits(files)
  PROVE  FilesTypeOK
<1>1. files \in FilesState /\ files.leases \in Leases /\ Leased(files)
  BY DEF FilesInv, FilesState
<1>2. ASSUME NEW m \in Shares PROVE Users(files, m) \in 0..3
  <2>1. Workers(files, m) \subseteq Pool(files)
    <3>1. \A r \in Records : At(files, r) \in Moving => r \in BeRecords /\ r \notin LcsRecords
      BY DEF FilesInv, Named, Moving, FilesAssumption
    <3> QED
      BY <3>1 DEF Pool, Workers, Moving
  <2>2. IsFiniteSet(Workers(files, m)) /\ Cardinality(Workers(files, m)) <= Cardinality(Pool(files))
    BY <2>1, FS_Subset DEF PoolFits
  <2>3. Cardinality(Workers(files, m)) \in Nat /\ Cardinality(Pool(files)) \in Nat
    BY <2>2, FS_CardinalityType DEF PoolFits
  <2>4. Mover(files, m) \in {0, 1}
    BY DEF Mover
  <2> QED
    BY <2>2, <2>3, <2>4 DEF Users, PoolFits
<1>3. ASSUME NEW m \in Shares
      PROVE  files.leases[m].n \in -1..3 /\ (files.leases[m].n > 0 => files.mounted[m])
  <2>1. files.leases[m].n \in Nat \cup {-1}
    BY <1>1 DEF Leases
  <2>2. /\ Users(files, m) > 0 => files.mounted[m] /\ files.leases[m].n = Users(files, m)
        /\ Users(files, m) = 0 => files.leases[m].n <= 0
    BY <1>1 DEF Leased
  <2> QED
    BY <1>2, <2>1, <2>2
<1> QED
  BY <1>1, <1>3 DEF FilesTypeOK

\* What is written is in its file or on the share, and what counts as backed up is gone.
LEMMA InvKeeps ==
  ASSUME FilesInv(files)
  PROVE  RecordsAreKept /\ DoneMeansMoved
<1>1. RecordsAreKept
  BY DEF FilesInv, RecordsAreKept, Written, Kept, Safe, At, Nm
<1>2. DoneMeansMoved
  BY DEF FilesInv, DoneMeansMoved, Moved
<1> QED
  BY <1>1, <1>2

Inv == FilesInv(files)

LEMMA FilesInvariant == ASSUME FilesAssumption PROVE FilesSpec => []Inv
<1>1. FilesInit => Inv
  BY InitKeeps DEF Inv
<1>2. Inv /\ [FilesNext]_files => Inv'
  BY EveryStepKeeps DEF Inv
<1> QED
  BY <1>1, <1>2, PTL DEF FilesSpec

\* However the workers of the two readers, the daily backup, failures and restarts interleave, a record
\* that was written is in its file at the station or in the copy on the server's share (Close, Copy,
\* Remove of the workers and of the backup), unless its name raced.
THEOREM RecordsStayKept == ASSUME FilesAssumption PROVE FilesSpec => []RecordsAreKept
<1>1. Inv => RecordsAreKept
  BY InvKeeps DEF Inv
<1> QED
  BY <1>1, FilesInvariant, PTL

\* A day that the backup has noted as done (lastBackupDay) has left no file of a former day at the
\* station, whichever of the shares or the files failed in between.
THEOREM DoneStaysMoved == ASSUME FilesAssumption PROVE FilesSpec => []DoneMeansMoved
<1>1. Inv => DoneMeansMoved
  BY InvKeeps DEF Inv
<1> QED
  BY <1>1, FilesInvariant, PTL
=============================================================================
