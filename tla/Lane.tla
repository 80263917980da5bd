-------------------------------- MODULE Lane --------------------------------
(***************************************************************************)
(* The parts of a station that are small enough to be checked together:    *)
(* the antenna, the card reader that swallows cards, the entry lane, the   *)
(* parameters and the files that claim the money.  Each is a module of its *)
(* own.  They share no state, and what OP_IO does between two of them is   *)
(* in the module of the part it does it to, so a behaviour of this module  *)
(* follows one of them.                                                    *)
(***************************************************************************)
EXTENDS Integers, Sequences, FiniteSets

CONSTANTS
  Units, MinOKtimes, MaxRetry, ReadLimit, NakWillDo, AntennaCalls,     \* Antenna
  LateAnswers, KsmCalls, KsmBacklog,                                   \* KsmReader
  Tables, Rows, BatchSize, MaxEdits, MaxFaults, MaxRestarts,           \* ParamDownload
  Ius, Cards, EntryPosts, EntryBacklog,                                \* EntryStation
  FeRecords, BeRecords, LcsRecords, Payments, Instants, MaxTime, FileFaults   \* SettlementFiles

VARIABLES part, antenna, ksm, params, entry, files

vars == <<part, antenna, ksm, params, entry, files>>

\* With what is proved of two of the parts, which LaneProofs rests on.
A == INSTANCE Antenna WITH MaxCalls <- AntennaCalls
K == INSTANCE KsmReader WITH MaxCalls <- KsmCalls, MaxBacklog <- KsmBacklog
P == INSTANCE ParamDownload
E == INSTANCE EntryStationProofs WITH MaxPosts <- EntryPosts, MaxBacklog <- EntryBacklog
F == INSTANCE SettlementFilesProofs

ASSUME AntennaFits == A!AntennaAssumption
ASSUME KsmAssumption == LateAnswers \in BOOLEAN /\ KsmCalls \in Nat /\ KsmBacklog \in Nat \ {0}
ASSUME ParamAssumption ==
  /\ Tables \subseteq DOMAIN P!recipes /\ IsFiniteSet(Rows) /\ BatchSize \in Nat \ {0}
  /\ MaxEdits \in Nat /\ MaxFaults \in Nat /\ MaxRestarts \in Nat
ASSUME EntryAssumption ==
  /\ Ius \cap Cards = {} /\ "" \notin Ius \cup Cards
  /\ EntryPosts \in Nat /\ EntryBacklog \in Nat \ {0}
ASSUME FilesFit == F!FilesAssumption

Absent == "absent"

Init ==
  \/ part = "antenna" /\ A!AntennaInit /\ ksm = Absent /\ params = Absent /\ entry = Absent /\ files = Absent
  \/ part = "ksm" /\ K!KsmInit /\ antenna = Absent /\ params = Absent /\ entry = Absent /\ files = Absent
  \/ part = "params" /\ P!ParamInit /\ antenna = Absent /\ ksm = Absent /\ entry = Absent /\ files = Absent
  \/ part = "entry" /\ E!EntryInit /\ antenna = Absent /\ ksm = Absent /\ params = Absent /\ files = Absent
  \/ part = "files" /\ F!FilesInit /\ antenna = Absent /\ ksm = Absent /\ params = Absent /\ entry = Absent

AntennaRuns   == part = "antenna" /\ A!Runs /\ UNCHANGED <<part, ksm, params, entry, files>>
AntennaStep   == part = "antenna" /\ A!AntennaNext /\ UNCHANGED <<part, ksm, params, entry, files>>
KsmStep(step) == part = "ksm" /\ step /\ UNCHANGED <<part, antenna, params, entry, files>>
ParamsStep    == part = "params" /\ P!ParamNext /\ UNCHANGED <<part, antenna, ksm, entry, files>>
EntryStep     == part = "entry" /\ E!EntryNext /\ UNCHANGED <<part, antenna, ksm, params, files>>
FilesStep     == part = "files" /\ F!FilesNext /\ UNCHANGED <<part, antenna, ksm, params, entry>>

Next == AntennaStep \/ KsmStep(K!KsmNext) \/ ParamsStep \/ EntryStep \/ FilesStep

\* What the modules of the antenna and the card reader ask of their threads.
Fairness ==
  /\ WF_vars(AntennaRuns)
  /\ WF_vars(KsmStep(K!Take)) /\ WF_vars(KsmStep(K!RunPost))
  /\ WF_vars(KsmStep(K!NoAnswer(FALSE))) /\ WF_vars(KsmStep(K!Handles))

Spec == Init /\ [][Next]_vars /\ Fairness

------------------------------------------------------------------------------
\* The properties are stated in the modules of the parts.

\* Every part's state is well formed.
TypeOK ==
  CASE part = "antenna" -> A!AntennaTypeOK
    [] part = "ksm"     -> K!KsmTypeOK
    [] part = "params"  -> P!ParamTypeOK
    [] part = "entry"   -> E!EntryTypeOK
    [] part = "files"   -> F!FilesTypeOK

\* A request to the antenna has a loop that serves it, alone on the port (antenna.cpp).
RequestIsServed == part = "antenna" => A!RequestIsServed

\* A loop that is stopped ends, though the antenna is silent (antenna.cpp).
StoppedLoopEnds == (part = "antenna" /\ A!LoopStopped) ~> (part = "antenna" /\ A!LoopOver)

\* While a card is wanted the reader is polled (ksm_reader.cpp).
PollingIsKept == part = "ksm" => K!PollingIsKept

\* A card that came in is ordered out again (ksm_reader.cpp, operation.cpp).
CardIsOrderedOut == (part = "ksm" /\ K!CardIsIn) ~> (part = "ksm" /\ K!CardIsGiven)

\* A download that nothing disturbs brings the station up to date (db.cpp).
EditsArrive == part = "params" => P!EditsArrive

\* Who is let in has been recorded, and once per visit (operation.cpp).
EntryIsRecorded == part = "entry" => E!EntryIsRecorded

\* A record of money that was written is in its file or on the share (eep_client.cpp, lcsc.cpp, main.cpp).
RecordsAreKept == part = "files" => F!RecordsAreKept

\* A day that counts as backed up has no file of a former day left (main.cpp).
DoneMeansMoved == part = "files" => F!DoneMeansMoved
==============================================================================
