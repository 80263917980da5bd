------------------------ MODULE EntryStationProofs -------------------------
(***************************************************************************)
(* Proofs about the entry lane: whoever is let in has been recorded, and   *)
(* once per visit, for every set of units and cards and every bound.       *)
(***************************************************************************)
EXTENDS EntryStation, TLAPS

Known == Numbers \cup {NoOne}
Happenings == {"a_on", "a_off", "c_off", "timeout", "obu", "unasked", "none", "iu", "tap", "in", "card",
               "taken", "lpr", "manual", "full", "free", "hold", "close"}
IusOrNone == Ius \cup {NoOne}
Told  == {ev \in [e : Happenings, no : Known] : ev.e \in {"a_off", "obu", "unasked", "iu", "lpr"} => ev.no \in IusOrNone}

\* The events that wait, and how many were posted.
Backlogs == {q \in Seq(Told) : Len(q) <= MaxBacklog}
Counts   == {k \in Nat : k <= MaxPosts}

EntryState ==
  [eps : Eps, car : IusOrNone, passing : BOOLEAN, iu : Known, ok : BOOLEAN, saved : BOOLEAN, reader : BOOLEAN,
   on : BOOLEAN, trans : BOOLEAN, plate : IusOrNone, inside : BOOLEAN, tail : IusOrNone, last : Known,
   fresh : BOOLEAN, full : BOOLEAN, asked : BOOLEAN, held : BOOLEAN, vcc : BOOLEAN, nine : BOOLEAN, events : Backlogs,
   posts : Counts, rows : Nat, again : BOOLEAN, recorded : SUBSET Numbers, through : Known]

\* The numbers the lane opens for without asking again were recorded: the last one, the one it has just
\* opened for, and the one of a visit that has its entry.  A visit without entry has no row, and one with
\* its entry has one, unless something that may add one came.
Recorded(s) ==
  /\ s.last \in s.recorded \cup {NoOne}
  /\ s.through \in s.recorded \cup {NoOne}
  /\ s.ok => s.iu \in s.recorded
  /\ s.again \/ s.rows = 0 \/ (s.rows = 1 /\ s.ok)

Good(s) == s \in EntryState /\ Recorded(s)
AllGood(S) == \A t \in S : Good(t)

------------------------------------------------------------------------------
\* The operations of the lane leave a good state good.

LEMMA ClearmeTypes ==
  ASSUME NEW s \in EntryState
  PROVE  /\ Clearme(s) \in EntryState /\ Clearme(s).last = s.last /\ Clearme(s).through = s.through
         /\ Clearme(s).recorded = s.recorded /\ ~Clearme(s).ok /\ Clearme(s).rows = 0
<1> DEFINE t == [s EXCEPT !.iu = NoOne, !.ok = FALSE, !.saved = FALSE, !.reader = FALSE]
           u == [t EXCEPT !.trans = FALSE, !.plate = NoOne, !.inside = FALSE, !.asked = FALSE]
           v == [u EXCEPT !.vcc = FALSE, !.nine = FALSE, !.rows = 0, !.again = FALSE]
<1>1. Clearme(s) \in EntryState
  <2>1. Clearme(s) = v
    BY DEF EntryState, Clearme
  <2>2. t \in EntryState
    BY Zenon DEF EntryState, Known
  <2> HIDE DEF t
  <2>3. u \in EntryState
    BY <2>2, Zenon DEF EntryState, IusOrNone
  <2> HIDE DEF u
  <2>4. v \in EntryState
    BY <2>3, Zenon DEF EntryState
  <2> HIDE DEF v
  <2> QED
    BY <2>1, <2>4
<1>2. /\ Clearme(s).last = s.last /\ Clearme(s).through = s.through
      /\ Clearme(s).recorded = s.recorded /\ ~Clearme(s).ok /\ Clearme(s).rows = 0
  BY DEF EntryState, Clearme
<1> QED
  BY <1>1, <1>2

LEMMA ClearmeKeeps == ASSUME NEW s, Good(s) PROVE Good(Clearme(s))
BY ClearmeTypes DEF Good, Recorded

\* Setting what the invariant does not mention.
LEMMA AskedKeeps == ASSUME NEW s, Good(s), NEW x \in BOOLEAN PROVE Good([s EXCEPT !.asked = x])
BY DEF Good, EntryState, Recorded

LEMMA EndKeeps == ASSUME NEW s, Good(s) PROVE Good(EndEEPprocess(s))
<1>1. Good(Clearme(s))
  BY ClearmeKeeps
<1>2. ASSUME NEW t, Good(t) PROVE Good([t EXCEPT !.asked = FALSE]) /\ Good(EEPInq(t))
  BY <1>2, AskedKeeps DEF EEPInq
<1> QED
  BY <1>1, <1>2 DEF EndEEPprocess

LEMMA OpenKeeps ==
  ASSUME NEW s, Good(s), NEW who \in s.recorded \cup {NoOne}
  PROVE  Good(Openbarrier(s, who))
<1>1. Good([s EXCEPT !.through = who])
  BY DEF Good, EntryState, Recorded, Known
<1> QED
  BY <1>1, EndKeeps DEF Openbarrier

\* What SaveEntry leaves is good once the visit counts as entered or repeated.
LEMMA SaveEntrySaves ==
  ASSUME NEW s \in EntryState, s.iu # NoOne, NEW t \in SaveEntry(s),
         s.last \in s.recorded \cup {NoOne}, s.through \in s.recorded \cup {NoOne}
  PROVE  /\ t \in EntryState /\ t.iu = s.iu /\ t.iu \in t.recorded
         /\ t.last \in t.recorded \cup {NoOne} /\ t.through \in t.recorded \cup {NoOne}
         /\ t.ok = s.ok /\ t.again = s.again /\ t.rows = s.rows + 1
<1> DEFINE saved == [s EXCEPT !.saved = TRUE, !.rows = @ + 1, !.recorded = @ \cup {s.iu}]
           fresh == [saved EXCEPT !.last = s.iu, !.fresh = TRUE]
<1>0. s.iu \in Numbers /\ s.recorded \cup {s.iu} \in SUBSET Numbers /\ s.rows + 1 \in Nat
  BY DEF EntryState, Known
<1>1. /\ saved \in EntryState /\ saved.iu = s.iu /\ saved.recorded = s.recorded \cup {s.iu}
      /\ saved.last = s.last /\ saved.through = s.through
      /\ saved.ok = s.ok /\ saved.again = s.again /\ saved.rows = s.rows + 1
  <2>1. saved \in EntryState
    BY <1>0 DEF EntryState
  <2>2. /\ saved.iu = s.iu /\ saved.recorded = s.recorded \cup {s.iu}
        /\ saved.last = s.last /\ saved.through = s.through
        /\ saved.ok = s.ok /\ saved.again = s.again /\ saved.rows = s.rows + 1
    BY DEF EntryState
  <2> QED
    BY <2>1, <2>2
<1>2. t = saved \/ t = fresh
  BY DEF SaveEntry
<1>3. s.iu \in Known
  BY DEF EntryState
<1>4. ASSUME NEW x \in EntryState, NEW y, y = [x EXCEPT !.last = s.iu, !.fresh = TRUE]
      PROVE  /\ y \in EntryState /\ y.iu = x.iu /\ y.recorded = x.recorded /\ y.last = s.iu
             /\ y.through = x.through /\ y.ok = x.ok /\ y.again = x.again /\ y.rows = x.rows
  BY <1>3, <1>4 DEF EntryState
<1> HIDE DEF saved
<1> QED
  BY <1>1, <1>2, <1>4

LEMMA MarkedKeeps ==
  ASSUME NEW t \in EntryState, t.iu \in t.recorded,
         t.last \in t.recorded \cup {NoOne}, t.through \in t.recorded \cup {NoOne}
  PROVE  /\ Good([t EXCEPT !.again = TRUE])
         /\ t.again \/ t.rows = 1 => Good([t EXCEPT !.ok = TRUE])
BY DEF Good, EntryState, Recorded

LEMMA PBSEntryKeeps ==
  ASSUME NEW s, Good(s), NEW no \in Known,
         s.again \/ s.rows = 0,
         s.ok => no = s.iu /\ no # NoOne
  PROVE  AllGood(PBSEntry(s, no))
<1> DEFINE known == [s EXCEPT !.iu = no]
           Same(k) == /\ k \in EntryState /\ k.iu = no /\ k.last = s.last /\ k.through = s.through
                      /\ k.recorded = s.recorded /\ k.ok = s.ok /\ k.again = s.again /\ k.rows = s.rows
<1>1. Same(known)
  BY DEF Good, EntryState
<1>2. ASSUME NEW k, Same(k), NEW nine \in BOOLEAN
      PROVE  Same([k EXCEPT !.nine = nine])
  BY <1>2 DEF EntryState
<1>3. ASSUME NEW k, Same(k)
      PROVE  Good(k)
  BY <1>3 DEF Good, Recorded
<1>4. ASSUME NEW k, Same(k), NEW t \in SaveEntry(k), no # NoOne
      PROVE  Good(Openbarrier([t EXCEPT !.again = TRUE], no)) /\ Good(Openbarrier([t EXCEPT !.ok = TRUE], no))
  <2>1. /\ t \in EntryState /\ t.iu = no /\ no \in t.recorded
        /\ t.last \in t.recorded \cup {NoOne} /\ t.through \in t.recorded \cup {NoOne}
        /\ t.ok = s.ok /\ t.again = s.again /\ t.rows = s.rows + 1
    BY <1>4, SaveEntrySaves DEF Good, Recorded
  <2>2. s.rows \in Nat
    BY DEF Good, EntryState
  <2>3. t.again \/ t.rows = 1
    BY <2>1, <2>2
  <2>4. Good([t EXCEPT !.again = TRUE]) /\ Good([t EXCEPT !.ok = TRUE])
    BY <2>1, <2>3, MarkedKeeps
  <2>5. [t EXCEPT !.again = TRUE].recorded = t.recorded /\ [t EXCEPT !.ok = TRUE].recorded = t.recorded
    BY <2>1 DEF EntryState
  <2> QED
    BY <2>1, <2>4, <2>5, OpenKeeps
<1> HIDE DEF known
<1> DEFINE nines == IF s.eps = "obu" /\ no \in Ius THEN BOOLEAN ELSE {FALSE}
           typed == {[known EXCEPT !.nine = nine] : nine \in nines}
           typedNine == [known EXCEPT !.nine = (s.eps = "obu")]
           authorised == {Openbarrier([t EXCEPT !.again = TRUE], no) : t \in SaveEntry(typedNine)}
           accepted   == {Openbarrier([t EXCEPT !.ok = TRUE], no) : t \in UNION {SaveEntry(k) : k \in typed}}
<1> HIDE DEF Same
<1>5. Same(typedNine) /\ \A k \in typed : Same(k)
  BY <1>1, <1>2
<1> HIDE DEF typed, typedNine
<1>6. AllGood(typed) /\ Good(known)
  BY <1>1, <1>3, <1>5 DEF AllGood
<1>7. no # NoOne => AllGood(authorised) /\ AllGood(accepted)
  BY <1>4, <1>5 DEF AllGood
<1>8. PBSEntry(s, no) =
        IF no = NoOne THEN {known}
        ELSE {known} \cup UNION {IF nine THEN authorised ELSE typed \cup accepted : nine \in Authorised(s, no)}
  BY DEF PBSEntry, known, typed, typedNine
<1> HIDE DEF authorised, accepted
<1> QED
  BY <1>6, <1>7, <1>8 DEF AllGood

LEMMA RecogniseKeeps == ASSUME NEW s, Good(s), NEW no \in Known PROVE AllGood(Recognise(s, no))
<1>1. CASE no \in Ius /\ s.last = no /\ s.fresh
  BY <1>1, OpenKeeps DEF Recognise, AllGood, Good, Recorded
<1>2. CASE ~(no \in Ius /\ s.last = no /\ s.fresh) /\ s.ok
  BY <1>2 DEF Recognise, AllGood
<1>3. CASE ~(no \in Ius /\ s.last = no /\ s.fresh) /\ ~s.ok
  BY <1>3, PBSEntryKeeps DEF Recognise, Good, Recorded
<1> QED
  BY <1>1, <1>2, <1>3

LEMMA EnableKeeps == ASSUME NEW s, Good(s), NEW on \in BOOLEAN PROVE AllGood(EnableCashcard(s, on))
<1> DEFINE off == [s EXCEPT !.reader = FALSE]
<1>1. Good(off) /\ Good([[s EXCEPT !.reader = on] EXCEPT !.on = on]) /\ s.plate \in Known
  <2> DEFINE r == [s EXCEPT !.reader = on]
  <2>1. Good(off) /\ s.plate \in IusOrNone
    BY DEF Good, EntryState, Recorded
  <2>2. Good(r)
    BY DEF Good, EntryState, Recorded
  <2> HIDE DEF r, off
  <2>3. Good([r EXCEPT !.on = on])
    BY <2>2 DEF Good, EntryState, Recorded
  <2> QED
    BY <2>1, <2>3 DEF IusOrNone, Known, Numbers, r
<1>2. AllGood(Recognise(off, s.plate))
  BY <1>1, RecogniseKeeps
<1>3. \A t \in Recognise(off, s.plate) : AllGood(Recognise(t, s.plate))
  BY <1>1, <1>2, RecogniseKeeps DEF AllGood
<1> HIDE DEF off
<1> QED
  BY <1>1, <1>2, <1>3 DEF EnableCashcard, AllGood, off

LEMMA VehicleComeKeeps == ASSUME NEW s, Good(s), NEW no \in Known PROVE AllGood(VehicleCome(s, no))
<1>1. \A t \in EnableCashcard(s, FALSE) : AllGood(Recognise(t, no))
  BY EnableKeeps, RecogniseKeeps DEF AllGood
<1>2. Good([s EXCEPT !.asked = IF s.eps = "antenna" THEN FALSE ELSE @])
  BY DEF Good, EntryState, Recorded
<1>3. AllGood(Recognise([s EXCEPT !.asked = IF s.eps = "antenna" THEN FALSE ELSE @], no))
  BY <1>2, RecogniseKeeps
<1> QED
  BY <1>1, <1>3 DEF VehicleCome, AllGood

LEMMA LoopAComeKeeps == ASSUME NEW s, Good(s) PROVE AllGood(LoopACome(s))
<1> DEFINE fresh == [Clearme(s) EXCEPT !.tail = NoOne, !.trans = TRUE]
<1>1. Good(fresh)
  <2>1. ASSUME NEW c \in EntryState, Recorded(c) PROVE Good([c EXCEPT !.tail = NoOne, !.trans = TRUE])
    <3>1. [c EXCEPT !.tail = NoOne, !.trans = TRUE] \in EntryState
      BY DEF EntryState, IusOrNone
    <3>2. Recorded([c EXCEPT !.tail = NoOne, !.trans = TRUE])
      BY <2>1 DEF EntryState, Recorded
    <3> QED
      BY <3>1, <3>2 DEF Good
  <2> QED
    BY <2>1, ClearmeKeeps DEF Good
<1>2. Good([fresh EXCEPT !.asked = TRUE]) /\ Good(EEPInq(fresh))
  BY <1>1, AskedKeeps DEF EEPInq
<1>3. AllGood(EnableCashcard(fresh, TRUE))
  BY <1>1, EnableKeeps
<1> HIDE DEF fresh
<1> QED
  BY <1>2, <1>3 DEF LoopACome, AllGood, fresh

LEMMA LoopAGoneKeeps == ASSUME NEW s, Good(s) PROVE AllGood(LoopAGone(s))
BY EnableKeeps, AskedKeeps DEF LoopAGone, AllGood

LEMMA LoopCGoneKeeps == ASSUME NEW s, Good(s) PROVE AllGood(LoopCGone(s))
BY ClearmeKeeps, LoopAComeKeeps DEF LoopCGone, AllGood

LEMMA TimeoutKeeps == ASSUME NEW s, Good(s) PROVE AllGood(loopATimeoutHandler(s))
<1>1. Good([s EXCEPT !.asked = IF s.eps = "antenna" THEN FALSE ELSE @])
  BY DEF Good, EntryState, Recorded
<1>2. \A t \in EnableCashcard([s EXCEPT !.asked = IF s.eps = "antenna" THEN FALSE ELSE @], FALSE) :
        Good(t) /\ AllGood(LoopACome(t))
  BY <1>1, EnableKeeps, LoopAComeKeeps DEF AllGood
<1> QED
  BY <1>2 DEF loopATimeoutHandler, AllGood

LEMMA OuKeeps == ASSUME NEW s, Good(s), NEW no \in IusOrNone PROVE AllGood(ProcessOUBInformation(s, no))
<1>1. \A plate \in {no, NoOne} : Good([s EXCEPT !.tail = IF @ = no THEN NoOne ELSE @, !.plate = plate, !.vcc = TRUE])
  <2>1. ASSUME NEW c \in EntryState, NEW plate \in IusOrNone, Recorded(c)
        PROVE  Good([c EXCEPT !.tail = IF @ = no THEN NoOne ELSE @, !.plate = plate, !.vcc = TRUE])
    <3> DEFINE d == [c EXCEPT !.tail = IF @ = no THEN NoOne ELSE @, !.plate = plate, !.vcc = TRUE]
    <3>1. d \in EntryState
      <4> DEFINE tail == IF c.tail = no THEN NoOne ELSE c.tail
      <4>1. tail \in IusOrNone
        BY DEF EntryState, IusOrNone
      <4> HIDE DEF tail
      <4>2. [c EXCEPT !.tail = tail, !.plate = plate, !.vcc = TRUE] \in EntryState
        BY <4>1 DEF EntryState
      <4> QED
        BY <4>2 DEF tail
    <3>2. /\ d.last = c.last /\ d.through = c.through /\ d.recorded = c.recorded
          /\ d.ok = c.ok /\ d.iu = c.iu /\ d.again = c.again /\ d.rows = c.rows
      BY DEF EntryState
    <3> HIDE DEF d
    <3>3. Good(d)
      BY <2>1, <3>1, <3>2 DEF Good, Recorded
    <3> QED
      BY <3>3 DEF d
  <2> QED
    BY <2>1 DEF Good, IusOrNone
<1>2. \A plate \in {no, NoOne} :
        AllGood(VehicleCome([s EXCEPT !.tail = IF @ = no THEN NoOne ELSE @, !.plate = plate, !.vcc = TRUE], no))
  BY <1>1, VehicleComeKeeps DEF IusOrNone, Known, Numbers
<1> QED
  BY <1>2 DEF ProcessOUBInformation, AllGood

LEMMA ObuAnsweredKeeps == ASSUME NEW s, Good(s), NEW no \in IusOrNone PROVE AllGood(ObuAnswered(s, no))
<1>1. \A t \in EnableCashcard([s EXCEPT !.asked = FALSE], FALSE) : Good(t) /\ AllGood(ProcessOUBInformation(t, no))
  BY AskedKeeps, EnableKeeps, OuKeeps DEF AllGood
<1> QED
  BY <1>1 DEF ObuAnswered, AllGood

LEMMA UnaskedKeeps == ASSUME NEW s, Good(s), NEW no \in IusOrNone PROVE AllGood(ObuUnasked(s, no))
<1>1. Good([s EXCEPT !.tail = no])
  BY DEF Good, EntryState, Recorded
<1> QED
  BY <1>1, OuKeeps DEF ObuUnasked, AllGood

LEMMA NoUnitKeeps == ASSUME NEW s, Good(s) PROVE AllGood(NoObu(s)) /\ AllGood(AntennaFail(s))
BY AskedKeeps, EnableKeeps DEF NoObu, AntennaFail, AllGood

LEMMA AntennaKeeps == ASSUME NEW s, Good(s), NEW no \in Known PROVE AllGood(AntennaIU(s, no))
<1>1. s.last = no => Good(Openbarrier(s, no))
  BY OpenKeeps DEF Good, Recorded
<1> QED
  BY <1>1, VehicleComeKeeps DEF AntennaIU, AllGood

LEMMA CardKeeps ==
  ASSUME NEW s, Good(s), NEW no \in Known
  PROVE  AllGood(LcscRead(s, no)) /\ AllGood(KsmCardIn(s)) /\ AllGood(KsmCardInfo(s, no))
<1>1. \A t \in EnableCashcard(s, FALSE) : AllGood(VehicleCome(t, no))
  BY EnableKeeps, VehicleComeKeeps DEF AllGood
<1>2. Good([s EXCEPT !.inside = TRUE])
  BY DEF Good, EntryState, Recorded
<1> QED
  BY <1>1, <1>2, VehicleComeKeeps DEF LcscRead, KsmCardIn, KsmCardInfo, AllGood

LEMMA TakenKeeps == ASSUME NEW s, Good(s) PROVE AllGood(KsmCardTakeAway(s))
<1> DEFINE taken == [s EXCEPT !.inside = FALSE]
<1>1. Good(taken) /\ taken.recorded = s.recorded
  BY DEF Good, EntryState, Recorded
<1>2. s.ok => Good(Openbarrier(taken, s.iu))
  BY <1>1, OpenKeeps DEF Good, Recorded
<1> HIDE DEF taken
<1>3. s.ok => AllGood(EnableCashcard(Openbarrier(taken, s.iu), FALSE))
  BY <1>2, EnableKeeps
<1> QED
  BY <1>1, <1>3 DEF KsmCardTakeAway, AllGood, taken

LEMMA PlateKeeps == ASSUME NEW s, Good(s), NEW no \in IusOrNone PROVE AllGood(ReceivedLPR(s, no))
BY DEF ReceivedLPR, AllGood, Good, EntryState, Recorded

\* The operator's barrier records a vehicle that has a number; it may be recorded twice.
LEMMA ManualKeeps == ASSUME NEW s, Good(s) PROVE AllGood(ManualOpenBarrier(s))
<1>1. Good(Openbarrier(s, s.through))
  BY OpenKeeps DEF Good, Recorded
<1>2. ASSUME s.iu # NoOne, NEW t \in SaveEntry(s) PROVE Good(Openbarrier([t EXCEPT !.again = TRUE], s.iu))
  <2>1. /\ t \in EntryState /\ t.iu = s.iu /\ t.iu \in t.recorded
        /\ t.last \in t.recorded \cup {NoOne} /\ t.through \in t.recorded \cup {NoOne}
    BY <1>2, SaveEntrySaves DEF Good, Recorded
  <2>2. Good([t EXCEPT !.again = TRUE]) /\ [t EXCEPT !.again = TRUE].recorded = t.recorded
    BY <2>1, MarkedKeeps DEF EntryState
  <2> QED
    BY <2>1, <2>2, OpenKeeps
<1> QED
  BY <1>1, <1>2 DEF ManualOpenBarrier, AllGood

LEMMA FullKeeps == ASSUME NEW s, Good(s), NEW full \in BOOLEAN PROVE AllGood(CarparkFull(s, full))
<1> DEFINE told == [s EXCEPT !.full = full]
           next == [told EXCEPT !.again = TRUE]
<1>1. Good(told) /\ Good(next) /\ next.again /\ next.iu = s.iu /\ s.iu \in Known
  BY DEF Good, EntryState, Recorded
<1>2. s.iu # NoOne => AllGood(PBSEntry(next, s.iu))
  BY <1>1, PBSEntryKeeps
<1> HIDE DEF told
<1> QED
  BY <1>1, <1>2 DEF CarparkFull, AllGood, told

LEMMA HoldKeeps == ASSUME NEW s, Good(s), NEW held \in BOOLEAN PROVE AllGood(HoldBarrier(s, held))
BY DEF HoldBarrier, AllGood, Good, EntryState, Recorded

------------------------------------------------------------------------------
\* Every event, and what happens outside OP_IO.

LEMMA HandledKeeps ==
  ASSUME NEW s, Good(s), NEW ev \in Told, NEW t \in Handled(s, ev)
  PROVE  Good(t)
<1>1. ev.no \in Known /\ ev.e \in Happenings /\ (ev.e \in {"obu", "unasked", "lpr"} => ev.no \in IusOrNone)
  BY DEF Told
<1>2. CASE ev.e \in {"a_on", "a_off", "c_off", "timeout"}
  BY <1>2, LoopAComeKeeps, LoopAGoneKeeps, LoopCGoneKeeps, TimeoutKeeps DEF Handled, AllGood
<1>3. CASE ev.e \in {"obu", "unasked", "none", "iu"}
  BY <1>1, <1>3, ObuAnsweredKeeps, UnaskedKeeps, NoUnitKeeps, AntennaKeeps DEF Handled, AllGood
<1>4. CASE ev.e \in {"tap", "in", "card", "taken"}
  BY <1>1, <1>4, CardKeeps, TakenKeeps DEF Handled, AllGood
<1>5. CASE ev.e \in {"lpr", "manual", "full", "free", "hold", "close"}
  BY <1>1, <1>5, PlateKeeps, ManualKeeps, FullKeeps, HoldKeeps DEF Handled, AllGood
<1> QED
  BY <1>1, <1>2, <1>3, <1>4, <1>5 DEF Happenings

LEMMA HandleEventKeeps == ASSUME MaxBacklog \in Nat, Good(n), HandleEvent PROVE Good(entry')
<1> DEFINE s == [n EXCEPT !.events = Tail(@)]
<1>1. n.events \in Seq(Told) /\ n.events # << >>
  BY DEF Good, EntryState, HandleEvent, Backlogs
<1>2. Head(n.events) \in Told /\ Tail(n.events) \in Backlogs
  <2>1. Len(n.events) <= MaxBacklog
    BY DEF Good, EntryState, Backlogs
  <2>2. Len(Tail(n.events)) = Len(n.events) - 1 /\ Len(n.events) \in Nat /\ MaxBacklog \in Nat
    BY <1>1
  <2> QED
    BY <1>1, <2>1, <2>2 DEF Backlogs
<1>3. Good(s)
  BY <1>2 DEF Good, EntryState, Recorded
<1>4. entry' \in Handled(s, Head(n.events))
  BY DEF HandleEvent, Become
<1> QED
  BY <1>2, <1>3, <1>4, HandledKeeps

\* What happens outside OP_IO changes the vehicle on the loop and posts an event, if there is room for it.
LEMMA PostedKeeps ==
  ASSUME MaxPosts \in Nat, MaxBacklog \in Nat, NEW s, Good(s), s.posts < MaxPosts, Len(s.events) < MaxBacklog,
         NEW e \in Happenings, NEW no \in Known,
         e \in {"a_off", "obu", "unasked", "iu", "lpr"} => no \in IusOrNone
  PROVE  Good(Posted(s, e, no))
<1> DEFINE ev == [e |-> e, no |-> no]
<1>1. s \in EntryState /\ Recorded(s) /\ s.events \in Seq(Told) /\ s.posts \in Nat
  BY DEF Good, EntryState, Backlogs, Counts
<1>2. Append(s.events, ev) \in Backlogs /\ s.posts + 1 \in Counts
  <2>1. ev \in Told
    BY DEF Told
  <2> HIDE DEF ev
  <2>2. Append(s.events, ev) \in Seq(Told) /\ Len(Append(s.events, ev)) = Len(s.events) + 1 /\ Len(s.events) \in Nat
    BY <1>1, <2>1
  <2> QED
    BY <1>1, <2>2 DEF Backlogs, Counts
<1> HIDE DEF ev
<1>3. ASSUME NEW c \in EntryState, Recorded(c), NEW q \in Backlogs, NEW k \in Counts
      PROVE  Good([c EXCEPT !.events = q, !.posts = k])
  <2> DEFINE d == [c EXCEPT !.events = q, !.posts = k]
  <2>1. d \in EntryState
    BY DEF EntryState
  <2>2. /\ d.last = c.last /\ d.through = c.through /\ d.recorded = c.recorded
        /\ d.ok = c.ok /\ d.iu = c.iu /\ d.again = c.again /\ d.rows = c.rows
    BY DEF EntryState
  <2> HIDE DEF d
  <2>3. Good(d)
    BY <1>3, <2>1, <2>2 DEF Good, Recorded
  <2> QED
    BY <2>3 DEF d
<1>4. Good([s EXCEPT !.events = Append(s.events, ev), !.posts = s.posts + 1])
  BY <1>1, <1>2, <1>3
<1> QED
  BY <1>4 DEF Posted, ev

LEMMA WorldKeeps ==
  ASSUME MaxPosts \in Nat, MaxBacklog \in Nat, Good(n), EntryNext, ~HandleEvent
  PROVE  Good(entry')
<1>1. /\ n \in EntryState /\ Recorded(n) /\ n.car \in IusOrNone /\ IusOrNone \subseteq Known /\ NoOne \in IusOrNone
      /\ Ius \subseteq IusOrNone /\ Cards \subseteq Known
  BY DEF Good, EntryState, Known, Numbers, IusOrNone
<1>2. ASSUME NEW no \in Ius, Arrives(no) PROVE Good(entry')
  <2> DEFINE s == [n EXCEPT !.car = no]
  <2>1. Good(s) /\ s.posts = n.posts /\ s.events = n.events
    BY <1>1 DEF Good, EntryState, Recorded
  <2>2. CanPost /\ entry' = Posted(s, "a_on", no)
    BY <1>2 DEF Arrives, Become
  <2> HIDE DEF s
  <2> QED
    BY <1>1, <2>1, <2>2, PostedKeeps DEF CanPost, Happenings
<1>3. ASSUME NEW forward \in BOOLEAN, Leaves(forward) PROVE Good(entry')
  <2> DEFINE s == [[n EXCEPT !.car = NoOne] EXCEPT !.passing = forward]
  <2>1. Good(s) /\ s.posts = n.posts /\ s.events = n.events
    BY <1>1 DEF Good, EntryState, Recorded
  <2>2. s = [n EXCEPT !.car = NoOne, !.passing = forward]
    OBVIOUS
  <2>3. CanPost /\ entry' = Posted(s, "a_off", n.car)
    BY <1>3, <2>2 DEF Leaves, Become
  <2> HIDE DEF s
  <2> QED
    BY <1>1, <2>1, <2>3, PostedKeeps DEF CanPost, Happenings
<1>4. ASSUME LeavesLoopC PROVE Good(entry')
  <2> DEFINE s == [n EXCEPT !.passing = FALSE]
  <2>1. Good(s) /\ s.posts = n.posts /\ s.events = n.events
    BY <1>1 DEF Good, EntryState, Recorded
  <2>2. CanPost /\ entry' = Posted(s, "c_off", NoOne)
    BY <1>4 DEF LeavesLoopC, Become
  <2> HIDE DEF s
  <2> QED
    BY <1>1, <2>1, <2>2, PostedKeeps DEF CanPost, Happenings
<1>5. ASSUME NEW e \in {"obu", "unasked", "iu", "lpr"}, NEW no \in Ius, UnitSays(e, no) PROVE Good(entry')
  BY <1>1, <1>5, PostedKeeps DEF UnitSays, CanPost, Become, Happenings
<1>6. ASSUME NEW e \in {"tap", "in", "card", "taken"}, NEW no \in Cards, CardSays(e, no) PROVE Good(entry')
  BY <1>1, <1>6, PostedKeeps DEF CardSays, CanPost, Become, Happenings
<1>7. ASSUME NEW e \in {"none", "timeout", "manual", "full", "free", "hold", "close"}, ServerSays(e) PROVE Good(entry')
  BY <1>1, <1>7, PostedKeeps DEF ServerSays, CanPost, Become, Happenings
<1>8. ASSUME IntervalPasses PROVE Good(entry')
  BY <1>1, <1>8 DEF IntervalPasses, Become, Good, EntryState, Recorded
<1> QED
  BY <1>2, <1>3, <1>4, <1>5, <1>6, <1>7, <1>8 DEF EntryNext

LEMMA StepKeeps == ASSUME MaxPosts \in Nat, MaxBacklog \in Nat, Good(n), [EntryNext]_entry PROVE Good(entry')
<1>1. CASE UNCHANGED entry
  BY <1>1 DEF n
<1> QED
  BY <1>1, HandleEventKeeps, WorldKeeps

LEMMA InitKeeps == ASSUME MaxPosts \in Nat, MaxBacklog \in Nat, EntryInit PROVE Good(n)
<1>1. PICK eps \in Eps : entry =
        [eps |-> eps, car |-> NoOne, passing |-> FALSE, iu |-> NoOne, ok |-> FALSE, saved |-> FALSE,
         reader |-> FALSE, on |-> FALSE, trans |-> FALSE, plate |-> NoOne, inside |-> FALSE,
         tail |-> NoOne, last |-> NoOne, fresh |-> FALSE, full |-> FALSE, asked |-> FALSE,
         held |-> FALSE, vcc |-> FALSE, nine |-> FALSE, events |-> << >>, posts |-> 0, rows |-> 0, again |-> FALSE,
         recorded |-> {}, through |-> NoOne]
  BY DEF EntryInit
<1>2. entry \in EntryState
  <2>1. << >> \in Backlogs /\ 0 \in Counts
    BY DEF Backlogs, Counts
  <2> QED
    BY <1>1, <2>1 DEF EntryState, Known, IusOrNone
<1>3. Recorded(entry)
  BY <1>1 DEF Recorded
<1> QED
  BY <1>2, <1>3 DEF Good, n

\* What is good is recorded, and well formed.
LEMMA GoodRecorded == ASSUME Good(n) PROVE EntryIsRecorded
<1>1. n.rows \in Nat
  BY DEF Good, EntryState
<1> QED
  BY <1>1 DEF Good, Recorded, EntryIsRecorded

LEMMA GoodTypes == ASSUME MaxPosts \in Nat, Good(n) PROVE EntryTypeOK
<1>1. n \in EntryState
  BY DEF Good
<1>2. n.posts \in 0..MaxPosts /\ Len(n.events) <= MaxBacklog
  BY <1>1 DEF EntryState, Counts, Backlogs
<1>3. /\ n.iu \in Known /\ n.through \in Known /\ n.last \in Known
      /\ n.car \in IusOrNone /\ n.plate \in IusOrNone /\ n.tail \in IusOrNone
      /\ n.eps \in Eps /\ n.rows \in Nat /\ n.recorded \subseteq Numbers
  BY <1>1 DEF EntryState
<1>4. \A g \in {"ok", "saved", "reader", "on", "trans", "inside", "fresh", "full", "asked", "held", "passing", "again",
             "vcc", "nine"} :
        n[g] \in BOOLEAN
  BY <1>1 DEF EntryState
<1> QED
  BY <1>2, <1>3, <1>4 DEF EntryTypeOK, Known, IusOrNone

\* Whichever way to a number comes first and however the units, the readers, the plates and the server
\* interrupt one another (VehicleCome, EnableCashcard, PBSEntry), the barrier is opened for a number that
\* was recorded, and a visit is recorded once unless the code itself means to record it again.
THEOREM LetInMeansRecorded ==
  ASSUME MaxPosts \in Nat, MaxBacklog \in Nat PROVE EntrySpec => []EntryIsRecorded
<1>1. EntryInit => Good(n)
  BY InitKeeps
<1>2. Good(n) /\ [EntryNext]_entry => Good(n)'
  <2> SUFFICES ASSUME Good(n), [EntryNext]_entry PROVE Good(n)'
    OBVIOUS
  <2>1. Good(entry')
    BY StepKeeps
  <2> QED
    BY <2>1 DEF Good, EntryState, Recorded, n
<1>3. Good(n) => EntryIsRecorded
  BY GoodRecorded
<1> QED
  BY <1>1, <1>2, <1>3, PTL DEF EntrySpec
=============================================================================
