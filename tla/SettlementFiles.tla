--------------------------- MODULE SettlementFiles ---------------------------
(***************************************************************************)
(* The files that claim the money: records of the on-board units (eep_     *)
(* client.cpp) and of the card reader (lcsc.cpp) are written to files of   *)
(* this station by the workers of two pools.  They leave for shares of the *)
(* central server, a file of the back end at once, the others by the daily *)
(* backup (main.cpp).  Shares are mounted and leased (mount.cpp).          *)
(***************************************************************************)
EXTENDS Integers, FiniteSets

CONSTANTS
  FeRecords, BeRecords, LcsRecords,   \* payments: front end, back end, card reader
  Payments,                           \* sets of them that are studied together
  Instants,                           \* instants of a day; the first is the window of the backup
  MaxTime,                            \* bound on the clock
  FileFaults                          \* bound on what fails: a mount, a file operation, the process

FilesAssumption ==
  /\ Payments \subseteq SUBSET (FeRecords \cup BeRecords \cup LcsRecords)
  /\ FeRecords \cap BeRecords = {} /\ (FeRecords \cup BeRecords) \cap LcsRecords = {}
  /\ Instants \in Nat \ {0} /\ MaxTime \in Nat /\ FileFaults \in Nat

Records == FeRecords \cup BeRecords \cup LcsRecords
Kind(r) == IF r \in FeRecords THEN "fe" ELSE IF r \in BeRecords THEN "be" ELSE "lcs"

\* A file of the back end is named for its second, the others for their hour (here: their day).
Day(t) == t \div Instants
Name(kind, t) == [k |-> kind, t |-> IF kind = "be" THEN t ELSE Day(t)]
Names == {Name(kind, t) : kind \in {"fe", "be", "lcs"}, t \in 0..MaxTime}
NoName == [k |-> "none", t |-> 0]
DayOf(name) == IF name.k = "be" THEN Day(name.t) ELSE name.t

Shares == {"lcsc", "dsrc"}
ShareOf(name) == IF name.k = "lcs" THEN "lcsc" ELSE "dsrc"

VARIABLE files

\* paid: the payments that happen; there, local: the files of the station and their records; share: those of the server.  job: what a worker
\* does with a record; new: it found no file.  mounted: by the kernel; leases: gMountRegistry, n = -1 without an
\* entry.  backup: at, the day it began with, candidates left, share at work, file at work, no failure so far.
\* done: lastBackupDay; raced: names of which two records were written at once, or one after its day (history).
FilesInit ==
  \E paid \in Payments :
    files = [paid |-> paid, now |-> 0, there |-> {}, local |-> [x \in Names |-> {}],
             share |-> [x \in Names |-> {}],
             job |-> [r \in Records |-> [at |-> "none", name |-> NoName, new |-> FALSE]],
             mounted |-> [m \in Shares |-> FALSE], leases |-> [m \in Shares |-> [n |-> -1, own |-> FALSE]],
             backup |-> [at |-> "rest", day |-> 0, todo |-> {}, m |-> "lcsc", file |-> NoName, ok |-> TRUE],
             first |-> TRUE, done |-> -1, raced |-> {}, faults |-> 0]

f == files

\* A step that may fail does so at most FileFaults times.
Become(s, ok) ==
  /\ ~ok => f.faults < FileFaults
  /\ files' = IF ok THEN s ELSE [s EXCEPT !.faults = @ + 1]

Goes(s, r, stage) == [s EXCEPT !.job[r].at = stage]

------------------------------------------------------------------------------
\* MountManager, under its mutex.

\* A mount that exists is used, though nobody here made it; it is not unmounted then.
CanMount(s, m, ok) == s.mounted[m] \/ ok

Acquired(s, m) ==
  LET lease == s.leases[m]
  IN [s EXCEPT !.mounted[m] = TRUE,
               !.leases[m] = IF lease.n >= 0 THEN [lease EXCEPT !.n = @ + 1] ELSE [n |-> 1, own |-> ~s.mounted[m]]]

\* Variant: the mount goes with the first of its users.
ReleasedAtOnce(s, m, ok) ==
  IF ok THEN [s EXCEPT !.mounted[m] = FALSE, !.leases[m] = [n |-> -1, own |-> FALSE]]
  ELSE [s EXCEPT !.leases[m].n = @ - 1]

\* The last one out unmounts; if that fails the entry stays for the next.
Released(s, m, ok) ==
  IF s.leases[m].n > 1 THEN [s EXCEPT !.leases[m].n = @ - 1]
  ELSE IF ~s.leases[m].own THEN [s EXCEPT !.leases[m] = [n |-> -1, own |-> FALSE]]
  ELSE IF ok THEN [s EXCEPT !.mounted[m] = FALSE, !.leases[m] = [n |-> -1, own |-> FALSE]]
  ELSE [s EXCEPT !.leases[m].n = 0]

\* overwrite_existing; where nothing is mounted the copy lands in the empty directory.
Copied(s, name) == IF s.mounted[ShareOf(name)] THEN [s EXCEPT !.share[name] = s.local[name]] ELSE s

Removed(s, name) == [s EXCEPT !.there = @ \ {name}, !.local[name] = {}]

------------------------------------------------------------------------------
\* The workers.

\* A name is at risk when two write to it at once, when it is used twice, or when its day is over.
Marked(s, name) == [s EXCEPT !.raced = @ \cup {name}]
Late(s, name) == IF DayOf(name) < Day(s.now) THEN Marked(s, name) ELSE s
Shared(s, r, name) ==
  IF \E q \in Records \ {r} : s.job[q].name = name /\ (name.k = "be" \/ s.job[q].at \in {"named", "open"})
  THEN Marked(s, name) ELSE s

Busy(s, r) ==
  {q \in Records : (q \in LcsRecords <=> r \in LcsRecords)
                   /\ s.job[q].at \in {"named", "open", "written", "mounted", "copied", "leaving"}}

\* The card reader's driver names the file when it hands the record over, that of the on-board units when
\* a worker takes it: until then such a record is nowhere.
Hand(r) ==
  /\ r \in LcsRecords /\ f.job[r].at = "none"
  /\ Become([f EXCEPT !.job[r].at = "queued", !.job[r].name = Name("lcs", f.now)], TRUE)

\* Two workers; those of the card reader lock the file, those of the on-board units do not.
Start(r) ==
  LET name == IF r \in LcsRecords THEN f.job[r].name ELSE Name(Kind(r), f.now)
      begun == [f EXCEPT !.job[r] = [at |-> "named", name |-> name, new |-> name \notin f.there]]
  IN /\ f.job[r].at = (IF r \in LcsRecords THEN "queued" ELSE "none")
     /\ Cardinality(Busy(f, r)) < (IF r \in LcsRecords THEN 1 ELSE 2)
     /\ Become(Shared(begun, r, name), TRUE)

\* A file that was not found is truncated, whatever became of it since.
Open(r, ok) ==
  LET name == f.job[r].name
      opened == [f EXCEPT !.there = @ \cup {name}, !.local[name] = IF f.job[r].new THEN {} ELSE @]
  IN /\ f.job[r].at = "named"
     /\ Become(IF ok THEN Goes(Late(opened, name), r, "open") ELSE Goes(f, r, "failed"), ok)

\* The header and the record go to the beginning of a new file, over what another wrote there; else the
\* record goes to the end.
Wrote(s, r) ==
  LET name == s.job[r].name
  IN IF name \notin s.there THEN s
     ELSE [s EXCEPT !.local[name] = IF s.job[r].new THEN {r} ELSE @ \cup {r}]

Close(r) ==
  /\ f.job[r].at = "open"
  /\ Become(Goes(Late(Wrote(f, r), f.job[r].name), r, IF r \in BeRecords THEN "written" ELSE "done"), TRUE)

\* copyAndRemoveBEFile.
Acquire(r, ok) ==
  /\ f.job[r].at = "written"
  /\ Become(IF CanMount(f, "dsrc", ok) THEN Goes(Acquired(f, "dsrc"), r, "mounted") ELSE Goes(f, r, "done"), ok)

Copy(r, ok) ==
  /\ f.job[r].at = "mounted"
  /\ LET name == f.job[r].name
     IN Become(IF ok /\ name \in f.there THEN Goes(Copied(f, name), r, "copied") ELSE Goes(f, r, "leaving"), ok)

Remove(r, ok) ==
  /\ f.job[r].at = "copied"
  /\ Become(Goes(IF ok THEN Removed(f, f.job[r].name) ELSE f, r, "leaving"), ok)

Leave(r, ok) ==
  /\ f.job[r].at = "leaving"
  /\ Become(Goes(Released(f, "dsrc", ok), r, "done"), ok)

Works(r) ==
  \/ Hand(r) \/ Start(r) \/ Close(r)
  \/ \E ok \in BOOLEAN : Open(r, ok) \/ Acquire(r, ok) \/ Copy(r, ok) \/ Remove(r, ok) \/ Leave(r, ok)

------------------------------------------------------------------------------
\* The daily backup, on the thread BACKUP_FILE.

b == f.backup
Old(s) == {x \in s.there : DayOf(x) < Day(s.now)}
TodoOn(m) == {x \in b.todo : ShareOf(x) = m}

\* Variant: only the last file decides.
OutcomeOfLast(s, ok) == [s EXCEPT !.backup.ok = ok]

\* A failure is kept to the end.
Outcome(s, ok) == [s EXCEPT !.backup.ok = @ /\ ok]

\* At the start of the program, and in the window until it has succeeded that day.  Without the server it
\* tries again a minute later; without files of former days it has succeeded.
BackupBegins(ok) ==
  /\ b.at = "rest" /\ (f.first \/ (f.now % Instants = 0 /\ f.done # Day(f.now)))
  /\ LET begun == [f EXCEPT !.first = FALSE]
     IN Become(IF Old(f) = {} THEN [begun EXCEPT !.done = Day(f.now)]
               ELSE IF ~ok THEN begun
               ELSE [begun EXCEPT !.backup = [at |-> "share", day |-> Day(f.now), todo |-> Old(f), m |-> "lcsc",
                                              file |-> NoName, ok |-> TRUE]], ok)

\* One share after the other; one that has no candidates is not mounted.
NextShare(s) ==
  IF s.backup.m = "lcsc" THEN [s EXCEPT !.backup.m = "dsrc", !.backup.at = "share"]
  ELSE [s EXCEPT !.backup.at = "rest", !.done = IF s.backup.ok THEN s.backup.day ELSE @]

BackupMounts(ok) ==
  /\ b.at = "share"
  /\ Become(IF TodoOn(b.m) = {} THEN NextShare(f)
            ELSE IF CanMount(f, b.m, ok) THEN [Acquired(f, b.m) EXCEPT !.backup.at = "files"]
            ELSE NextShare(Outcome(f, FALSE)), ok)

BackupCopies(x, ok) ==
  /\ b.at = "files" /\ x \in TodoOn(b.m)
  /\ LET taken == [f EXCEPT !.backup.todo = @ \ {x}]
     IN Become(IF ok /\ x \in f.there THEN [Copied(taken, x) EXCEPT !.backup.at = "copied", !.backup.file = x]
               ELSE Outcome(taken, FALSE), ok)

\* A file that another removed meanwhile is no failure.
BackupRemoves(ok) ==
  /\ b.at = "copied"
  /\ Become([Outcome(IF ok THEN Removed(f, b.file) ELSE f, ok) EXCEPT !.backup.at = "files"], ok)

BackupLeaves(ok) ==
  /\ b.at = "files" /\ TodoOn(b.m) = {}
  /\ Become(NextShare(Released(f, b.m, ok)), ok)

Backs ==
  \E ok \in BOOLEAN :
    \/ BackupBegins(ok) \/ BackupMounts(ok) \/ BackupRemoves(ok) \/ BackupLeaves(ok)
    \/ \E x \in b.todo : BackupCopies(x, ok)

------------------------------------------------------------------------------
Tick ==
  /\ f.now < MaxTime
  /\ Become([f EXCEPT !.now = @ + 1], TRUE)

\* The program ends and is started again; what is mounted and what is in the files stays.
AfterCrash(j) ==
  [j EXCEPT !.at = IF @ \in {"queued", "named", "open"} THEN "failed" ELSE IF @ = "none" THEN @ ELSE
                   IF @ = "failed" THEN @ ELSE "done"]

Crash ==
  Become([f EXCEPT !.job = [r \in Records |-> AfterCrash(@[r])], !.first = TRUE, !.done = -1,
                   !.backup.at = "rest", !.leases = [m \in Shares |-> [n |-> -1, own |-> FALSE]]], FALSE)

FilesNext == (\E r \in f.paid : Works(r)) \/ Backs \/ Tick \/ Crash

FilesSpec == FilesInit /\ [][FilesNext]_files

------------------------------------------------------------------------------
Stages == {"none", "queued", "named", "open", "written", "mounted", "copied", "leaving", "done", "failed"}

Jobs == [Records -> [at : Stages, name : Names \cup {NoName}, new : BOOLEAN]]
Leases == [Shares -> [n : Nat \cup {-1}, own : BOOLEAN]]
Backups ==
  [at : {"rest", "share", "files", "copied"}, day : Nat, todo : SUBSET Names, m : Shares,
   file : Names \cup {NoName}, ok : BOOLEAN]
Contents == [Names -> SUBSET Records]

FilesState ==
  [paid : SUBSET Records, now : 0..MaxTime, there : SUBSET Names, local : Contents, share : Contents,
   job : Jobs, mounted : [Shares -> BOOLEAN], leases : Leases, backup : Backups, first : BOOLEAN,
   done : Int, raced : SUBSET Names, faults : 0..FileFaults]

\* At most the two workers and the backup use a share.
FilesTypeOK ==
  /\ f \in FilesState
  /\ \A m \in Shares : f.leases[m].n \in -1..3 /\ (f.leases[m].n > 0 => f.mounted[m])

Written(r) == f.job[r].at \in {"written", "mounted", "copied", "leaving", "done"}

\* A record that was written is in its file or in the copy on the share, whatever fails, whichever of the two
\* movers comes first, and though the program dies between the copy and the removal.  Excepted are names that
\* raced: eep_client.cpp has no lock as lcsc.cpp has, and both may write to a file whose day is over.
RecordsAreKept ==
  \A r \in Records :
    LET name == f.job[r].name
    IN Written(r) /\ name \notin f.raced
         => r \in f.local[name] \cup f.share[name]

\* A day on which the backup counts as done has no file of a former day left, so none waits for the
\* backup of the day after (main.cpp, lastBackupDay).
DoneMeansMoved == \A x \in f.there : DayOf(x) < f.done => x \in f.raced
==============================================================================
