---------------------------- MODULE EntryStation ----------------------------
(***************************************************************************)
(* The entry lane (operation.cpp): OP_IO handles, one after the other, what *)
(* the loops, the on-board unit, the antenna, the card readers, the plate   *)
(* camera and the central server post.  A vehicle is recorded and let in.   *)
(* Numbers of ten digits are on-board or in-vehicle units; the others are   *)
(* cards.  The default number is left out, and parking is not paid here.    *)
(***************************************************************************)
EXTENDS Integers, Sequences

CONSTANTS
  Ius,         \* numbers of units, ten digits
  Cards,       \* numbers of cards
  MaxPosts,    \* bound on the events that happen
  MaxBacklog   \* bound on the events OP_IO has not handled yet

Numbers == Ius \cup Cards
NoOne == ""

\* giEPS: 3 asks on-board units, 1 and 2 an antenna, 0 knows cards only.
Eps == {"obu", "antenna", "none"}

VARIABLE entry

\* car: the unit of the vehicle on loop A; iu, ok, saved: sIUTKNo, gbEntryOK, gbsavedtrans; reader:
\* sEnableReader, on: what the readers were told; trans: gsTransID is set; plate: the unit that is registered
\* under sLPN; inside: giCardIsIn = 1; tail: gsTailgateOBU; last, fresh: gsLastIUNo and whether giMaxTransInterval
\* has not passed; full: gbcarparkfull; asked: the unit is being asked; held: giBarrierContinueOpened; vcc: the
\* unit told its vehicle class; nine: iTransType is 9, kept where units are asked, elsewhere it is found anew.
\* rows, again: rows of this visit, and whether something may add one; recorded, through: numbers that
\* were recorded, and the number the barrier was last opened for (history).
EntryInit ==
  \E eps \in Eps :
    entry = [eps |-> eps, car |-> NoOne, passing |-> FALSE, iu |-> NoOne, ok |-> FALSE, saved |-> FALSE,
             reader |-> FALSE, on |-> FALSE, trans |-> FALSE, plate |-> NoOne, inside |-> FALSE,
             tail |-> NoOne, last |-> NoOne, fresh |-> FALSE, full |-> FALSE, asked |-> FALSE,
             held |-> FALSE, vcc |-> FALSE, nine |-> FALSE, events |-> << >>, posts |-> 0, rows |-> 0, again |-> FALSE,
             recorded |-> {}, through |-> NoOne]

n == entry
Become(s) == entry' = s
gbLoopApresent(s) == s.car # NoOne

------------------------------------------------------------------------------
\* The lane's operations, each the set of states it may leave.

Clearme(s) ==
  [s EXCEPT !.iu = NoOne, !.ok = FALSE, !.saved = FALSE, !.reader = FALSE, !.trans = FALSE, !.plate = NoOne,
            !.inside = FALSE, !.asked = FALSE, !.vcc = FALSE, !.nine = FALSE, !.rows = 0, !.again = FALSE]

EEPInq(s) == IF gbLoopApresent(s) THEN [s EXCEPT !.asked = TRUE] ELSE s

\* The vehicle is told, and the one behind, if it was heard, takes over.
EndEEPprocess(s) ==
  IF s.eps # "obu" THEN s
  ELSE IF s.tail = NoOne THEN [s EXCEPT !.asked = FALSE]
  ELSE EEPInq(Clearme(s))

\* Not while a card is in the reader, nor when the barrier is held open.
Openbarrier(s, who) ==
  IF s.inside \/ s.held THEN s ELSE EndEEPprocess([s EXCEPT !.through = who])

\* The number is remembered if one of the databases took the row; the visit counts as saved anyway.
SaveEntry(s) ==
  IF s.iu = NoOne THEN {s}
  ELSE LET saved == [s EXCEPT !.saved = TRUE, !.rows = @ + 1, !.recorded = @ \cup {s.iu}]
       IN {saved, [saved EXCEPT !.last = s.iu, !.fresh = TRUE]}

\* Whether the type is 9, that of an authorised vehicle.  Cards have that of the loops and sensors.  The class
\* a unit has told gives a type to the exit's record: the entry's is what the visit's last judgement left.
Authorised(s, no) ==
  IF no \in Cards THEN {FALSE} ELSE IF s.eps = "obu" /\ s.vcc THEN {s.nine} ELSE BOOLEAN

\* Refused (black list, prefix), authorised, refused after all (full, season only, passback), or accepted.  The
\* season that was looked for leaves a unit another type, which may be 9, as 8 is followed by it.
PBSEntry(s, no) ==
  LET known == [s EXCEPT !.iu = no]
      typed == {[known EXCEPT !.nine = nine] : nine \in IF s.eps = "obu" /\ no \in Ius THEN BOOLEAN ELSE {FALSE}}
      typedNine == [known EXCEPT !.nine = (s.eps = "obu")]
      authorised == {Openbarrier([t EXCEPT !.again = TRUE], no) : t \in SaveEntry(typedNine)}
      accepted   == {Openbarrier([t EXCEPT !.ok = TRUE], no) : t \in UNION {SaveEntry(k) : k \in typed}}
  IN IF no = NoOne THEN {known}
     ELSE {known} \cup UNION {IF nine THEN authorised ELSE typed \cup accepted : nine \in Authorised(s, no)}

\* Variant: whether the visit has its entry is not looked at.
RecogniseAgain(s, no) ==
  IF no \in Ius /\ s.last = no /\ s.fresh THEN {Openbarrier(s, no)} ELSE PBSEntry(s, no)

\* What VehicleCome does once the readers are off: a unit that was recorded just now only passes.
Recognise(s, no) ==
  IF no \in Ius /\ s.last = no /\ s.fresh THEN {Openbarrier(s, no)}
  ELSE IF s.ok THEN {s} ELSE PBSEntry(s, no)

\* If the plate is registered, a switch of the readers is VehicleCome for its unit instead, which switches
\* them off: twice so if they were to be switched on.
EnableCashcard(s, on) ==
  LET switched == [s EXCEPT !.reader = on]
      off == [s EXCEPT !.reader = FALSE]
  IN IF on = s.reader THEN {s}
     ELSE IF ~s.trans \/ s.plate = NoOne THEN {[switched EXCEPT !.on = on]}
     ELSE IF on THEN UNION {Recognise(t, s.plate) : t \in Recognise(off, s.plate)}
     ELSE Recognise(off, s.plate)

VehicleCome(s, no) ==
  IF no \in Ius THEN UNION {Recognise(t, no) : t \in EnableCashcard(s, FALSE)}
  ELSE Recognise([s EXCEPT !.asked = IF s.eps = "antenna" THEN FALSE ELSE @], no)

LoopACome(s) ==
  LET fresh == [Clearme(s) EXCEPT !.tail = NoOne, !.trans = TRUE]
  IN CASE s.eps = "obu"  -> {EEPInq(fresh)}
       [] s.eps = "none" -> EnableCashcard(fresh, TRUE)
       [] OTHER          -> {[fresh EXCEPT !.asked = TRUE]} \cup EnableCashcard(fresh, TRUE)

LoopAGone(s) ==
  {[t EXCEPT !.asked = FALSE] : t \in EnableCashcard(s, FALSE)}

LoopCGone(s) ==
  IF ~s.saved /\ gbLoopApresent(s) THEN {s}
  ELSE IF gbLoopApresent(s) THEN LoopACome(Clearme(s)) ELSE {Clearme(s)}

\* Nothing happened on loop A for giOperationTO.
loopATimeoutHandler(s) ==
  UNION {IF gbLoopApresent(s) THEN LoopACome(t) ELSE {t} :
           t \in EnableCashcard([s EXCEPT !.asked = IF s.eps = "antenna" THEN FALSE ELSE @], FALSE)}

------------------------------------------------------------------------------
\* What was posted.

\* The unit tells its vehicle class; its plate may be registered itself.
ProcessOUBInformation(s, no) ==
  UNION {VehicleCome([s EXCEPT !.tail = IF @ = no THEN NoOne ELSE @, !.plate = plate, !.vcc = TRUE], no) :
           plate \in {no, NoOne}}

\* The answer to an inquiry, or that no unit is there.
ObuAnswered(s, no) ==
  UNION {IF gbLoopApresent(s) THEN ProcessOUBInformation(t, no) ELSE {t} :
           t \in EnableCashcard([s EXCEPT !.asked = FALSE], FALSE)}
NoObu(s) == IF gbLoopApresent(s) THEN EnableCashcard([s EXCEPT !.asked = FALSE], TRUE) ELSE {s}

\* A unit that was not asked is the one behind; when heard again it is taken for the vehicle.
ObuUnasked(s, no) ==
  IF gbLoopApresent(s) /\ s.tail = NoOne THEN {[s EXCEPT !.tail = no]}
  ELSE IF s.tail = no THEN ProcessOUBInformation(s, no)
  ELSE {s}

AntennaIU(s, no) ==
  IF s.last = no /\ s.fresh THEN {Openbarrier(s, no)} ELSE VehicleCome(s, no)

\* No number was read; of other errors the antenna is stopped as well.
AntennaFail(s) ==
  {[t EXCEPT !.asked = FALSE] : t \in EnableCashcard(s, TRUE)}

\* The tapped card and the card in the other reader.
LcscRead(s, no) ==
  IF s.iu # NoOne THEN {s} ELSE UNION {VehicleCome(t, no) : t \in EnableCashcard(s, FALSE)}
KsmCardIn(s) == {[s EXCEPT !.inside = TRUE]}
KsmCardInfo(s, no) == IF s.iu # NoOne THEN {s} ELSE VehicleCome(s, no)
KsmCardTakeAway(s) ==
  LET taken == [s EXCEPT !.inside = FALSE]
  IN IF s.ok THEN EnableCashcard(Openbarrier(taken, s.iu), FALSE) ELSE {taken}

\* The plate of this vehicle, before it is recorded, is kept with it.
ReceivedLPR(s, no) ==
  IF s.trans /\ gbLoopApresent(s) /\ ~s.saved THEN {[s EXCEPT !.plate = no]} ELSE {s}

\* The operator opens the barrier: a vehicle that has a number is recorded, also for the second time.
ManualOpenBarrier(s) ==
  IF s.iu # NoOne /\ gbLoopApresent(s)
  THEN {Openbarrier([t EXCEPT !.again = TRUE], s.iu) : t \in SaveEntry(s)}
  ELSE {Openbarrier(s, s.through)}

\* The car park is full or not any more: the vehicle that waits is judged again, recorded or not.
CarparkFull(s, full) ==
  IF full = s.full THEN {s}
  ELSE LET told == [s EXCEPT !.full = full]
       IN IF ~full /\ gbLoopApresent(s) /\ s.iu # NoOne THEN PBSEntry([told EXCEPT !.again = TRUE], s.iu) ELSE {told}

HoldBarrier(s, held) == {[s EXCEPT !.held = held]}

Handled(s, ev) ==
  CASE ev.e = "a_on"    -> LoopACome(s)
    [] ev.e = "a_off"   -> LoopAGone(s)
    [] ev.e = "c_off"   -> LoopCGone(s)
    [] ev.e = "timeout" -> loopATimeoutHandler(s)
    [] ev.e = "obu"     -> ObuAnswered(s, ev.no)
    [] ev.e = "unasked" -> ObuUnasked(s, ev.no)
    [] ev.e = "none"    -> IF s.eps = "obu" THEN NoObu(s) ELSE AntennaFail(s)
    [] ev.e = "iu"      -> AntennaIU(s, ev.no)
    [] ev.e = "tap"     -> LcscRead(s, ev.no)
    [] ev.e = "in"      -> KsmCardIn(s)
    [] ev.e = "card"    -> KsmCardInfo(s, ev.no)
    [] ev.e = "taken"   -> KsmCardTakeAway(s)
    [] ev.e = "lpr"     -> ReceivedLPR(s, ev.no)
    [] ev.e = "manual"  -> ManualOpenBarrier(s)
    [] ev.e = "full"    -> CarparkFull(s, TRUE)
    [] ev.e = "free"    -> CarparkFull(s, FALSE)
    [] ev.e = "hold"    -> HoldBarrier(s, TRUE)
    [] ev.e = "close"   -> HoldBarrier(s, FALSE)

HandleEvent ==
  /\ n.events # << >>
  /\ \E s \in Handled([n EXCEPT !.events = Tail(@)], Head(n.events)) : Become(s)

------------------------------------------------------------------------------
\* The vehicles, the devices and the central server.

Posted(s, e, no) ==
  [s EXCEPT !.events = Append(@, [e |-> e, no |-> no]), !.posts = @ + 1]
CanPost == n.posts < MaxPosts /\ Len(n.events) < MaxBacklog

Arrives(no) ==
  /\ CanPost /\ n.car = NoOne
  /\ Become(Posted([n EXCEPT !.car = no], "a_on", no))

\* Forward past loop C, or back.
Leaves(forward) ==
  /\ CanPost /\ n.car # NoOne
  /\ Become(Posted([n EXCEPT !.car = NoOne, !.passing = forward], "a_off", n.car))

LeavesLoopC ==
  /\ CanPost /\ n.passing
  /\ Become(Posted([n EXCEPT !.passing = FALSE], "c_off", NoOne))

UnitSays(e, no) ==
  /\ CanPost
  /\ CASE e = "obu"     -> n.eps = "obu" /\ n.asked /\ no = n.car
       [] e = "unasked" -> n.eps = "obu"
       [] e = "iu"      -> n.eps = "antenna" /\ n.asked /\ no = n.car
       [] e = "lpr"     -> no = n.car
  /\ Become(Posted(n, e, no))

\* A card is tapped, or put into the other reader, read, and taken.
CardSays(e, no) ==
  /\ CanPost
  /\ CASE e \in {"tap", "in"} -> n.on /\ n.car # NoOne
       [] e \in {"card", "taken"} -> n.inside
  /\ Become(Posted(n, e, no))

ServerSays(e) ==
  /\ CanPost
  /\ e = "none" => n.asked
  /\ Become(Posted(n, e, NoOne))

IntervalPasses ==
  /\ n.fresh
  /\ Become([n EXCEPT !.fresh = FALSE])

EntryNext ==
  \/ HandleEvent \/ LeavesLoopC \/ IntervalPasses
  \/ \E no \in Ius : Arrives(no)
  \/ \E forward \in BOOLEAN : Leaves(forward)
  \/ \E e \in {"obu", "unasked", "iu", "lpr"}, no \in Ius : UnitSays(e, no)
  \/ \E e \in {"tap", "in", "card", "taken"}, no \in Cards : CardSays(e, no)
  \/ \E e \in {"none", "timeout", "manual", "full", "free", "hold", "close"} : ServerSays(e)

EntrySpec == EntryInit /\ [][EntryNext]_entry

------------------------------------------------------------------------------
\* The state is well formed.
EntryTypeOK ==
  /\ n.eps \in Eps /\ n.posts \in 0..MaxPosts
  /\ {n.iu, n.through} \subseteq Numbers \cup {NoOne}
  /\ {n.car, n.plate, n.tail} \subseteq Ius \cup {NoOne} /\ n.last \in Numbers \cup {NoOne}
  /\ n.rows \in Nat /\ n.recorded \subseteq Numbers
  /\ Len(n.events) <= MaxBacklog
  /\ \A f \in {"ok", "saved", "reader", "on", "trans", "inside", "fresh", "full", "asked", "held", "passing", "again",
            "vcc", "nine"} :
       n[f] \in BOOLEAN

\* Whichever of the ways to a number comes first, and although they interrupt one another (a plate while
\* the readers are switched, a card while a unit is read): the barrier is opened for a number that has
\* been recorded, and a visit is recorded once.  The exceptions to the latter are in the code: an authorised
\* vehicle (type 9, which does not mark the visit entered), the operator, and a car park that is not full any more.
EntryIsRecorded ==
  /\ n.through \in n.recorded \cup {NoOne}
  /\ n.rows > 1 => n.again
=============================================================================
