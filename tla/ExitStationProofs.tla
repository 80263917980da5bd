-------------------------- MODULE ExitStationProofs ---------------------------
(***************************************************************************)
(* Proofs about ExitStation, for every set of units, cards and verdicts    *)
(* and every bound.  A handler is a chain of calls, each of which takes a  *)
(* lane to a lane; what a call leaves alone is said by one of the relations *)
(* Quiet, Calm and Safe below, and the lemmas follow the calls upwards.    *)
(***************************************************************************)
EXTENDS ExitStation, TLAPS

\* What commands to readers, inquiries and displays leave alone.
Quiet(l, m) ==
  /\ m \in Lane
  /\ m.timer = l.timer /\ m.opened = l.opened /\ m.tailgate = l.tailgate
  /\ m.status = l.status /\ m.gbPaid = l.gbPaid /\ m.serials = l.serials
  /\ m.iu = l.iu /\ m.fee = l.fee /\ m.paid = l.paid /\ m.serial = l.serial
  /\ m.cardStatus = l.cardStatus /\ m.result5 = l.result5
  /\ m.ledger = l.ledger

LEMMA QuietReader ==
  ASSUME NEW l \in Lane, NEW on \in BOOLEAN
  PROVE  Quiet(l, EnableLCSC(l, on))
  BY DEF Quiet, EnableLCSC, Lane

LEMMA QuietCancel ==
  ASSUME NEW l \in Lane
  PROVE  Quiet(l, CancelUPOS(l))
  BY DEF Quiet, CancelUPOS, Lane

LEMMA QuietRefl ==
  ASSUME NEW l \in Lane
  PROVE  Quiet(l, l)
  BY DEF Quiet

LEMMA QuietTrans ==
  ASSUME NEW l, NEW m, NEW n, Quiet(l, m), Quiet(m, n)
  PROVE  Quiet(l, n)
  BY DEF Quiet

LEMMA QuietTerminal ==
  ASSUME NEW l \in Lane, NEW on \in BOOLEAN
  PROVE  Quiet(l, EnableUPOS(l, on))
  <1> DEFINE on1 == [l EXCEPT !.asked = @ \cup {"detect"}, !.upos = "Enable"]
  <1>1. Quiet(l, on1)
    BY DEF Quiet, Lane
  <1>2. EnableUPOS(l, on) \in {l, on1, CancelUPOS(l)}
    BY DEF EnableUPOS
  <1>3. QED
    BY <1>1, <1>2, QuietCancel, QuietRefl

LEMMA QuietCashcard ==
  ASSUME NEW l \in Lane, NEW on \in BOOLEAN
  PROVE  Quiet(l, EnableCashcard(l, on))
  <1> DEFINE set == [l EXCEPT !.reader = on]
             read == EnableLCSC(set, on)
  <1>1. Quiet(l, set)
    BY DEF Quiet, Lane
  <1>2. Quiet(set, read)
    BY <1>1, QuietReader DEF Quiet
  <1>3. Quiet(read, EnableUPOS(read, on))
    BY <1>2, QuietTerminal DEF Quiet
  <1>4. EnableCashcard(l, on) \in {l, EnableUPOS(read, on)}
    BY DEF EnableCashcard
  <1> HIDE DEF set, read
  <1>5. QED
    BY <1>1, <1>2, <1>3, <1>4, QuietRefl, QuietTrans

LEMMA QuietAction ==
  ASSUME NEW l \in Lane
  PROVE  Quiet(l, setLastAction(l))
  BY DEF Quiet, setLastAction, Lane

LEMMA QuietDisplay ==
  ASSUME NEW l \in Lane
  PROVE  Quiet(l, SendMsg2OBU(l))
  BY DEF Quiet, SendMsg2OBU, Lane

LEMMA QuietInquiry ==
  ASSUME NEW l \in Lane
  PROVE  Quiet(l, EEPInq(l))
  <1> DEFINE asks == [l EXCEPT !.inq = TRUE, !.asked = @ \cup {"obuInfo"}]
  <1>1. Quiet(l, asks)
    BY DEF Quiet, Lane
  <1>2. EEPInq(l) \in {l, asks}
    BY DEF EEPInq
  <1> HIDE DEF asks
  <1>3. QED
    BY <1>1, <1>2, QuietRefl

LEMMA QuietInquiries ==
  ASSUME NEW l \in Lane, NEW m \in EEPInqs(l)
  PROVE  Quiet(l, m)
  BY QuietInquiry, QuietRefl DEF EEPInqs

LEMMA QuietRemember ==
  ASSUME NEW l \in Lane, NEW can \in Ids, NEW bal \in Balance
  PROVE  Quiet(l, Remember(l, can, bal))
  <1> DEFINE kept == [l EXCEPT !.lastCard = can, !.lastBal = bal]
  <1>1. Quiet(l, kept)
    BY DEF Quiet, Lane
  <1>2. Remember(l, can, bal) \in {l, kept}
    BY DEF Remember
  <1> HIDE DEF kept
  <1>3. QED
    BY <1>1, <1>2, QuietRefl

-----------------------------------------------------------------------------
(* Opening and closing *)

\* A lane that is watched, with no vehicle behind in mind, stays so.
Watched(l, m) ==
  l.tailgate = "" => m.tailgate = "" /\ (l.timer \/ l.opened => m.timer \/ m.opened)

\* No row of m that claims an on-board payment is new.
NoObuRow(l, m) == \A e \in m.ledger : e.obuPaid => e \in l.ledger

\* What a call that commands no debit leaves alone.
Calm(l, m) == m \in Lane /\ m.serials = l.serials /\ Watched(l, m) /\ NoObuRow(l, m)

LEMMA QuietIsCalm ==
  ASSUME NEW l, NEW m, Quiet(l, m)
  PROVE  Calm(l, m)
  BY DEF Quiet, Calm, Watched, NoObuRow

LEMMA CalmTrans ==
  ASSUME NEW l, NEW m, NEW n, Calm(l, m), Calm(m, n)
  PROVE  Calm(l, n)
  BY DEF Calm, Watched, NoObuRow

LEMMA Zeroes ==
  /\ "" \in Ids /\ "init" \in DeductionStatus
  /\ 0 \in Fee /\ 1 \in Fee /\ 0 \in CardStatus /\ 1 \in CardStatus /\ 0 \in Serial
  /\ "" \in Tailgater
  BY DEF Ids, DeductionStatus, Fee, CardStatus, Serial, Tailgater

\* The fields Clearme does not write, as far as they matter below.
Keeps(l, m) ==
  m.serials = l.serials /\ m.ledger = l.ledger /\ m.timer = l.timer /\ m.tailgate = l.tailgate

LEMMA ClearmeType ==
  ASSUME NEW l \in Lane
  PROVE  /\ Clearme(l) \in Lane
         /\ Clearme(l).serials = l.serials /\ Clearme(l).ledger = l.ledger
         /\ Clearme(l).timer = l.timer /\ Clearme(l).tailgate = l.tailgate
  <1> DEFINE a == [l EXCEPT !.saved = FALSE, !.reader = FALSE, !.opened = FALSE,
                            !.inq = FALSE, !.iu = "", !.card = ""]
             b == [a EXCEPT !.fee = 0, !.paid = 0, !.status = "init", !.gbPaid = FALSE,
                            !.cardStatus = 1]
             c == [b EXCEPT !.backend = FALSE, !.business = FALSE, !.serial = 0,
                            !.result5 = FALSE]
  <1>1. a \in Lane /\ Keeps(l, a)
    BY Zeroes, ZenonT(60) DEF Lane, Keeps
  <1>2. Clearme(l) = c
    BY DEF Clearme
  <1> HIDE DEF a
  <1>3. b \in Lane /\ Keeps(a, b)
    BY <1>1, Zeroes, ZenonT(60) DEF Lane, Keeps
  <1> HIDE DEF b
  <1>4. c \in Lane /\ Keeps(b, c)
    BY <1>3, Zeroes, ZenonT(60) DEF Lane, Keeps
  <1> HIDE DEF c
  <1>5. QED
    BY <1>1, <1>2, <1>3, <1>4 DEF Keeps

LEMMA EndEEPprocessCalm ==
  ASSUME NEW l \in Lane
  PROVE  Calm(l, EndEEPprocess(l))
  <1> DEFINE done == [l EXCEPT !.inq = FALSE]
             next == Clearme(done)
  <1>1. Quiet(l, done)
    BY DEF Quiet, Lane
  <1>2. done \in Lane /\ done.serials = l.serials /\ done.ledger = l.ledger
    BY <1>1 DEF Quiet
  <1>3. next \in Lane /\ next.serials = l.serials /\ next.ledger = l.ledger
    BY <1>2, ClearmeType
  <1>4. EndEEPprocess(l) = IF l.tailgate = "" THEN done ELSE EEPInq(next)
    BY DEF EndEEPprocess
  <1> HIDE DEF done, next
  <1>5. CASE l.tailgate = ""
    BY <1>1, <1>4, <1>5, QuietIsCalm
  <1>6. CASE l.tailgate # ""
    <2>1. Quiet(next, EEPInq(next))
      BY <1>3, QuietInquiry
    <2>2. QED
      BY <1>3, <1>4, <1>6, <2>1 DEF Quiet, Calm, Watched, NoObuRow
  <1>7. QED
    BY <1>5, <1>6

LEMMA OpenbarrierCalm ==
  ASSUME NEW l \in Lane
  PROVE  Calm(l, Openbarrier(l))
  <1> DEFINE up == [l EXCEPT !.timer = FALSE, !.opened = TRUE]
  <1>1. Calm(l, up)
    BY DEF Calm, Watched, NoObuRow, Lane
  <1>2. Openbarrier(l) = EndEEPprocess(up)
    BY DEF Openbarrier
  <1> HIDE DEF up
  <1>3. up \in Lane
    BY <1>1 DEF Calm
  <1>4. QED
    BY <1>1, <1>2, <1>3, EndEEPprocessCalm, CalmTrans

\* A call that closes a visit: the rows of m that claim an on-board payment and are
\* new are the visit's own, and there are some only if it was paid by the unit.
Closes(l, m, obuPaid) ==
  /\ m \in Lane /\ m.serials = l.serials /\ Watched(l, m)
  /\ \A e \in m.ledger : e.obuPaid =>
       e \in l.ledger \/ (obuPaid /\ e.iu = l.iu /\ e.serial = l.serial)

LEMMA ClosesUnpaid ==
  ASSUME NEW l, NEW m, Closes(l, m, FALSE)
  PROVE  Calm(l, m)
  BY DEF Closes, Calm, NoObuRow

LEMMA ClosesCalm ==
  ASSUME NEW l, NEW m, NEW n, NEW obuPaid, Closes(l, m, obuPaid), Calm(m, n)
  PROVE  Closes(l, n, obuPaid)
  BY DEF Closes, Calm, Watched, NoObuRow

LEMMA SaveExitCloses ==
  ASSUME NEW l \in Lane, NEW kind \in TransType, NEW obuPaid \in BOOLEAN
  PROVE  Closes(l, SaveExit(l, kind, obuPaid), obuPaid)
  <1> DEFINE row == [kind |-> kind, iu |-> l.iu, card |-> l.card, serial |-> l.serial,
                     amt |-> l.fee, obuPaid |-> obuPaid]
             rows == l.ledger \cup {row}
             lastCard == IF l.fee = 0 THEN l.card ELSE l.lastCard
             lastOk == IF l.fee = 0 THEN TRUE ELSE l.lastOk
             m == [l EXCEPT !.paid = l.fee, !.ledger = rows, !.lastPaid = l.iu, !.saved = TRUE,
                            !.gbPaid = TRUE, !.lastCard = lastCard, !.lastOk = lastOk]
  <1>1. row \in Row /\ row.iu = l.iu /\ row.serial = l.serial /\ row.obuPaid = obuPaid
    BY DEF Row, Lane
  <1>2. SaveExit(l, kind, obuPaid) = IF l.iu = "" THEN l ELSE m
    BY DEF SaveExit
  <1>3. lastCard \in Ids /\ lastOk \in BOOLEAN
    BY DEF Lane
  <1> HIDE DEF row
  <1>4. rows \in SUBSET Row
    BY <1>1 DEF Lane
  <1>5. \A e \in rows : e \in l.ledger \/ e = row
    OBVIOUS
  <1> HIDE DEF rows, lastCard, lastOk
  <1>6. /\ m \in Lane /\ m.serials = l.serials /\ m.ledger = rows
        /\ m.tailgate = l.tailgate /\ m.timer = l.timer /\ m.opened = l.opened
    BY <1>3, <1>4 DEF Lane
  <1> HIDE DEF m
  <1>7. Closes(l, m, obuPaid)
    BY <1>1, <1>5, <1>6 DEF Closes, Watched
  <1>8. Closes(l, l, obuPaid)
    BY DEF Closes, Watched, Lane
  <1>9. QED
    BY <1>2, <1>7, <1>8

LEMMA CloseExitCloses ==
  ASSUME NEW l \in Lane, NEW kind \in TransType, NEW obuPaid \in BOOLEAN
  PROVE  Closes(l, CloseExitOperation(l, kind, obuPaid), obuPaid)
  <1>1. Closes(l, SaveExit(l, kind, obuPaid), obuPaid)
    BY SaveExitCloses
  <1>2. SaveExit(l, kind, obuPaid) \in Lane
    BY <1>1 DEF Closes
  <1>3. QED
    BY <1>1, <1>2, OpenbarrierCalm, ClosesCalm DEF CloseExitOperation

LEMMA DebitOKCloses ==
  ASSUME NEW l \in Lane, NEW can \in Ids, NEW bal \in Balance,
         NEW dev \in Readers \cup {"EEP"}
  PROVE  Closes(l, DebitOK(l, can, bal, dev), dev = "EEP")
  <1> DEFINE m == [l EXCEPT !.gbPaid = TRUE, !.card = can, !.status = "DeductionSuccessed",
                            !.lastPaid = l.iu, !.lastOk = TRUE,
                            !.lastCard = can, !.lastBal = bal]
  <1>1. "DeductionSuccessed" \in DeductionStatus /\ "DeductionOK" \in TransType
    BY DEF DeductionStatus, TransType
  <1>2. /\ m \in Lane /\ m.serials = l.serials /\ m.ledger = l.ledger
        /\ m.tailgate = l.tailgate /\ m.timer = l.timer /\ m.opened = l.opened
        /\ m.iu = l.iu /\ m.serial = l.serial
    BY <1>1 DEF Lane
  <1>3. DebitOK(l, can, bal, dev) = CloseExitOperation(m, "DeductionOK", dev = "EEP")
    BY DEF DebitOK
  <1> HIDE DEF m
  <1>4. Closes(m, CloseExitOperation(m, "DeductionOK", dev = "EEP"), dev = "EEP")
    BY <1>1, <1>2, CloseExitCloses
  <1>5. QED
    BY <1>2, <1>3, <1>4 DEF Closes, Watched

-----------------------------------------------------------------------------
(* Charging *)

\* What a call leaves alone that may command a debit.
Alike(l, m) ==
  /\ m \in Lane
  /\ m.timer = l.timer /\ m.opened = l.opened /\ m.tailgate = l.tailgate
  /\ m.ledger = l.ledger

\* The same of a chain of calls, which commands one only when none is under way.
MayDebit(l, m) ==
  /\ m \in Lane /\ Watched(l, m) /\ NoObuRow(l, m)
  /\ m.serials # l.serials => l.status # "Doingdeduction"

LEMMA QuietIsAlike ==
  ASSUME NEW l, NEW m, Quiet(l, m)
  PROVE  Alike(l, m)
  BY DEF Quiet, Alike

LEMMA AlikeTrans ==
  ASSUME NEW l, NEW m, NEW n, Alike(l, m), Alike(m, n)
  PROVE  Alike(l, n)
  BY DEF Alike

LEMMA CalmMayDebit ==
  ASSUME NEW l, NEW m, Calm(l, m)
  PROVE  MayDebit(l, m)
  BY DEF Calm, MayDebit

LEMMA QuietMayDebit ==
  ASSUME NEW l, NEW m, NEW n, Quiet(l, m), MayDebit(m, n)
  PROVE  MayDebit(l, n)
  BY DEF Quiet, MayDebit, Watched, NoObuRow

LEMMA MayDebitCalm ==
  ASSUME NEW l, NEW m, NEW n, MayDebit(l, m), Calm(m, n)
  PROVE  MayDebit(l, n)
  BY DEF Calm, MayDebit, Watched, NoObuRow

LEMMA AlikeMayDebit ==
  ASSUME NEW l, NEW m, Alike(l, m), l.status # "Doingdeduction"
  PROVE  MayDebit(l, m)
  BY DEF Alike, MayDebit, Watched, NoObuRow

LEMMA CommandAlike ==
  ASSUME NEW l \in Lane, NEW dev \in Readers \cup {"EEP"}
  PROVE  Alike(l, Command(l, dev))
  <1> DEFINE next == l.serials + 1
             debit == [dev |-> dev, iu |-> l.iu, amt |-> l.paid, serial |-> next, waited |-> FALSE]
             all == l.debits \cup {debit}
  <1> l.serials \in Nat
    BY DEF Lane
  <1>1. next \in Nat /\ next \in Serial
    BY DEF Serial
  <1>2. Command(l, dev) = [l EXCEPT !.serials = next, !.debits = all]
    BY DEF Command
  <1> HIDE DEF next
  <1>3. debit \in Debit
    BY <1>1 DEF Debit, Lane
  <1> HIDE DEF debit
  <1>4. all \in SUBSET Debit
    BY <1>3 DEF Lane
  <1> HIDE DEF all
  <1>5. [l EXCEPT !.serials = next, !.debits = all] \in Lane
    BY <1>1, <1>4 DEF Lane
  <1>6. QED
    BY <1>2, <1>5 DEF Alike, Lane

LEMMA DebitMayDebit ==
  ASSUME NEW l \in Lane, NEW no \in Ids, NEW bal \in Balance, NEW dev \in Readers
  PROVE  MayDebit(l, debitfromReader(l, no, bal, dev))
  <1> DEFINE doing == [l EXCEPT !.status = "Doingdeduction", !.lastOk = FALSE,
                                !.lastCard = no, !.lastBal = bal, !.card = no]
             atUPOS == Command(doing, "UPOS")
             enabled == [atUPOS EXCEPT !.upos = "Enable"]
             cancelled == CancelUPOS(doing)
  <1>1. "Doingdeduction" \in DeductionStatus /\ Readers = {"LCSC", "UPOS"}
    BY DEF DeductionStatus, Readers
  <1>2. Alike(l, doing)
    BY <1>1 DEF Alike, Lane
  <1>3. doing \in Lane
    BY <1>2 DEF Alike
  <1>4. debitfromReader(l, no, bal, dev) =
          IF l.status = "Doingdeduction" THEN l
          ELSE IF dev = "UPOS" THEN EnableLCSC(enabled, FALSE) ELSE Command(cancelled, "LCSC")
    BY DEF debitfromReader
  <1> HIDE DEF doing
  <1>5. Alike(doing, atUPOS)
    BY <1>1, <1>3, CommandAlike
  <1>6. Alike(atUPOS, enabled)
    BY <1>5 DEF Alike, Lane
  <1>7. Alike(enabled, EnableLCSC(enabled, FALSE))
    BY <1>6, QuietReader, QuietIsAlike DEF Alike
  <1>8. Alike(doing, cancelled)
    BY <1>3, QuietCancel, QuietIsAlike
  <1>9. Alike(cancelled, Command(cancelled, "LCSC"))
    BY <1>1, <1>8, CommandAlike DEF Alike
  <1> HIDE DEF atUPOS, enabled, cancelled
  <1>10. Alike(l, EnableLCSC(enabled, FALSE)) /\ Alike(l, Command(cancelled, "LCSC"))
    BY <1>2, <1>5, <1>6, <1>7, <1>8, <1>9, AlikeTrans
  <1>11. MayDebit(l, l)
    BY DEF MayDebit, Watched, NoObuRow
  <1>12. QED
    BY <1>4, <1>10, <1>11, AlikeMayDebit

LEMMA EEPDebitMayDebit ==
  ASSUME NEW l \in Lane
  PROVE  MayDebit(l, EEPDebit(l))
  <1> DEFINE off == EnableCashcard(l, FALSE)
             doing == [off EXCEPT !.status = "Doingdeduction", !.lastOk = FALSE, !.inq = FALSE]
  <1>1. Alike(l, off)
    BY QuietCashcard, QuietIsAlike
  <1>2. EEPDebit(l) = IF ~gbLoopApresent \/ l.status = "Doingdeduction" THEN l
                      ELSE Command(doing, "EEP")
    BY DEF EEPDebit
  <1> HIDE DEF off
  <1>3. Alike(off, doing)
    BY <1>1, ZenonT(60) DEF Alike, Lane, DeductionStatus
  <1> HIDE DEF doing
  <1>4. Alike(doing, Command(doing, "EEP"))
    BY <1>3, CommandAlike DEF Alike
  <1>5. Alike(l, Command(doing, "EEP"))
    BY <1>1, <1>3, <1>4, AlikeTrans
  <1>6. MayDebit(l, l)
    BY DEF MayDebit, Watched, NoObuRow
  <1>7. QED
    BY <1>2, <1>5, <1>6, AlikeMayDebit

LEMMA WaitsQuiet ==
  ASSUME NEW l \in Lane, NEW status \in DeductionStatus
  PROVE  Calm(l, [l EXCEPT !.status = status])
  BY DEF Calm, Watched, NoObuRow, Lane

LEMMA FeeCalm ==
  ASSUME NEW l \in Lane, NEW fee \in Fee
  PROVE  /\ Alike(l, [l EXCEPT !.fee = fee, !.paid = fee])
         /\ [l EXCEPT !.fee = fee, !.paid = fee].serials = l.serials
         /\ [l EXCEPT !.fee = fee, !.paid = fee].status = l.status
  BY DEF Alike, Lane

LEMMA ChargeOBUMayDebit ==
  ASSUME NEW l \in Lane, NEW can \in Ids, NEW bal \in Balance, NEW andReaders \in BOOLEAN,
         NEW m \in ChargeOBU(l, can, bal, andReaders)
  PROVE  MayDebit(l, m)
  <1> DEFINE kept == Remember(l, can, bal)
             waits == [l EXCEPT !.status = "WaitingCard"]
             on == EnableCashcard(waits, TRUE)
  <1>1. Quiet(l, kept) /\ kept \in Lane
    BY QuietRemember DEF Quiet
  <1>2. Calm(l, waits) /\ waits \in Lane
    BY WaitsQuiet DEF DeductionStatus, Calm
  <1>3. \/ m = EEPDebit(kept)
        \/ m = on
        \/ m \in EEPInqs(on)
        \/ m \in EEPInqs(waits)
    BY DEF ChargeOBU
  <1> HIDE DEF kept, waits
  <1>4. Quiet(waits, on) /\ on \in Lane
    BY <1>2, QuietCashcard DEF Quiet
  <1> HIDE DEF on
  <1>5. CASE m = EEPDebit(kept)
    BY <1>1, <1>5, EEPDebitMayDebit, QuietMayDebit
  <1>6. Calm(l, on)
    BY <1>2, <1>4, QuietIsCalm, CalmTrans
  <1>7. CASE m \in EEPInqs(on)
    BY <1>4, <1>6, <1>7, QuietInquiries, QuietIsCalm, CalmTrans, CalmMayDebit
  <1>8. CASE m \in EEPInqs(waits)
    BY <1>2, <1>8, QuietInquiries, QuietIsCalm, CalmTrans, CalmMayDebit
  <1>9. QED
    BY <1>3, <1>5, <1>6, <1>7, <1>8, CalmMayDebit

LEMMA JudgedCharged ==
  ASSUME NEW l \in Lane, NEW dev \in Readers \cup {"EEP"}, NEW can \in Ids,
         NEW bal \in Balance, NEW m \in Judged(l, "charged", dev, can, bal)
  PROVE  MayDebit(l, m)
  <1> DEFINE dear == [l EXCEPT !.fee = 1, !.paid = 1]
             due == SendMsg2OBU(dear)
             waits == [due EXCEPT !.status = "WaitingCard"]
  <1>1. /\ dear \in Lane /\ dear.serials = l.serials /\ dear.status = l.status
        /\ Alike(l, dear)
    BY FeeCalm, Zeroes DEF Alike
  <1> HIDE DEF dear
  <1>2. Quiet(dear, due) /\ due \in Lane
    BY <1>1, QuietDisplay DEF Quiet
  <1>3. \/ dev = "EEP" /\ m \in ChargeOBU(due, can, bal, FALSE)
        \/ dev # "EEP" /\ m = debitfromReader(due, due.iu, bal, dev)
        \/ m = EnableCashcard(waits, TRUE)
    BY DEF Judged, dear
  <1> HIDE DEF due
  <1>4. Calm(due, waits) /\ waits \in Lane
    BY <1>2, WaitsQuiet DEF DeductionStatus, Calm
  <1> HIDE DEF waits
  <1>5. MayDebit(due, EnableCashcard(waits, TRUE))
    BY <1>4, QuietCashcard, QuietIsCalm, CalmTrans, CalmMayDebit
  <1>6. due.iu \in Ids /\ (dev # "EEP" => dev \in Readers)
    BY <1>2 DEF Lane
  <1>7. MayDebit(due, m)
    BY <1>2, <1>3, <1>5, <1>6, ChargeOBUMayDebit, DebitMayDebit
  <1>8. MayDebit(dear, m)
    BY <1>2, <1>7, QuietMayDebit
  <1>9. QED
    BY <1>1, <1>8 DEF MayDebit, Alike, Watched, NoObuRow

LEMMA JudgedMayDebit ==
  ASSUME NEW l \in Lane, NEW verdict \in Verdicts, NEW dev \in Readers \cup {"EEP"},
         NEW can \in Ids, NEW bal \in Balance, NEW m \in Judged(l, verdict, dev, can, bal)
  PROVE  MayDebit(l, m)
  <1> DEFINE none == [l EXCEPT !.fee = 0, !.paid = 0]
             told == SendMsg2OBU(none)
             dear == [l EXCEPT !.fee = 1]
  <1>1. none \in Lane /\ Alike(l, none) /\ none.serials = l.serials
    BY FeeCalm, Zeroes DEF Alike
  <1>2. dear \in Lane /\ Alike(l, dear) /\ dear.serials = l.serials
    BY Zeroes DEF Alike, Lane
  <1>3. verdict \in {"stopped", "noEntry", "authorised", "season", "waived", "free", "charged"}
    BY ExitAssumption
  <1>4. {"FreeParking", "SeasonParking", "Complimentary"} \subseteq TransType
    BY DEF TransType
  <1>5. Calm(l, l) /\ Calm(l, SendMsg2OBU(l))
    BY QuietRefl, QuietDisplay, QuietIsCalm
  <1>6. CASE verdict = "charged"
    BY <1>6, JudgedCharged
  <1>7. CASE verdict \in {"stopped", "noEntry"}
    BY <1>5, <1>7, CalmMayDebit DEF Judged
  <1>8. CASE verdict = "authorised"
    <2>1. m = CloseExitOperation(l, "FreeParking", FALSE)
      BY <1>8 DEF Judged
    <2>2. QED
      BY <1>4, <2>1, CloseExitCloses, ClosesUnpaid, CalmMayDebit
  <1>9. CASE verdict \in {"season", "waived", "free"}
    <2>1. Calm(l, none) /\ Calm(l, dear)
      BY <1>1, <1>2 DEF Alike, Calm, Watched, NoObuRow
    <2>2. \/ m = CloseExitOperation(none, "SeasonParking", FALSE)
          \/ m = CloseExitOperation(dear, "Complimentary", FALSE)
          \/ m = CloseExitOperation(told, "FreeParking", FALSE)
      BY <1>9 DEF Judged
    <2> HIDE DEF none, dear
    <2>3. Calm(none, told) /\ told \in Lane
      BY <1>1, QuietDisplay, QuietIsCalm DEF Calm
    <2> HIDE DEF told
    <2>4. Calm(none, m) \/ Calm(dear, m) \/ Calm(told, m)
      BY <1>1, <1>2, <1>4, <2>2, <2>3, CloseExitCloses, ClosesUnpaid
    <2>5. QED
      BY <2>1, <2>3, <2>4, CalmTrans, CalmMayDebit
  <1>10. QED
    BY <1>3, <1>6, <1>7, <1>8, <1>9

LEMMA PBSExitMayDebit ==
  ASSUME NEW l \in Lane, NEW no \in Ids, NEW dev \in Readers \cup {"EEP"}, NEW can \in Ids,
         NEW bal \in Balance, NEW m \in PBSExit(l, no, dev, can, bal)
  PROVE  MayDebit(l, m)
  <1> DEFINE known == [l EXCEPT !.iu = no]
  <1>1. Alike(l, known) /\ known.serials = l.serials /\ known.status = l.status
    BY DEF Alike, Lane
  <1>2. m = l \/ \E v \in Verdicts : m \in Judged(known, v, dev, can, bal)
    BY DEF PBSExit
  <1> HIDE DEF known
  <1>3. CASE m = l
    BY <1>3, QuietRefl, QuietIsCalm, CalmMayDebit
  <1>4. CASE \E v \in Verdicts : m \in Judged(known, v, dev, can, bal)
    <2>1. MayDebit(known, m)
      BY <1>1, <1>4, JudgedMayDebit DEF Alike
    <2>2. QED
      BY <1>1, <2>1 DEF MayDebit, Alike, Watched, NoObuRow
  <1>5. QED
    BY <1>2, <1>3, <1>4

LEMMA ReadersOnMayDebit ==
  ASSUME NEW l \in Lane, NEW m, m = EnableCashcard(l, TRUE) \/ m \in EEPInqs(EnableCashcard(l, TRUE))
  PROVE  Quiet(l, m)
  <1>1. Quiet(l, EnableCashcard(l, TRUE)) /\ EnableCashcard(l, TRUE) \in Lane
    BY QuietCashcard DEF Quiet
  <1>2. QED
    BY <1>1, QuietInquiries, QuietTrans

LEMMA TryCardMayDebit ==
  ASSUME NEW l \in Lane, NEW dev \in Readers \cup {"EEP"}, NEW can \in Ids,
         NEW bal \in Balance, NEW m \in TryCard(l, dev, can, bal)
  PROVE  MayDebit(l, m)
  <1> DEFINE free == [l EXCEPT !.card = can, !.paid = 0]
             kept == Remember(l, can, bal)
             shown == [kept EXCEPT !.card = can]
  <1>1. Quiet(l, kept) /\ kept \in Lane
    BY QuietRemember DEF Quiet
  <1>2. \/ m = EnableCashcard(l, TRUE) \/ m \in EEPInqs(EnableCashcard(l, TRUE))
        \/ m = CloseExitOperation(free, "FreeParking", FALSE)
        \/ m = EEPDebit(shown)
        \/ dev # "EEP" /\ m = debitfromReader(l, l.iu, bal, dev)
    BY DEF TryCard
  <1> HIDE DEF kept
  <1>3. Quiet(kept, shown) /\ shown \in Lane
    BY <1>1 DEF Quiet, Lane
  <1>4. Calm(l, free) /\ free \in Lane
    BY Zeroes DEF Calm, Watched, NoObuRow, Lane
  <1>5. l.iu \in Ids /\ (dev # "EEP" => dev \in Readers) /\ "FreeParking" \in TransType
    BY DEF Lane, TransType
  <1> HIDE DEF free, shown
  <1>6. CASE m = EnableCashcard(l, TRUE) \/ m \in EEPInqs(EnableCashcard(l, TRUE))
    BY <1>6, ReadersOnMayDebit, QuietIsCalm, CalmMayDebit
  <1>7. CASE m = CloseExitOperation(free, "FreeParking", FALSE)
    BY <1>4, <1>5, <1>7, CloseExitCloses, ClosesUnpaid, CalmTrans, CalmMayDebit
  <1>8. CASE m = EEPDebit(shown)
    BY <1>1, <1>3, <1>8, EEPDebitMayDebit, QuietTrans, QuietMayDebit
  <1>9. CASE dev # "EEP" /\ m = debitfromReader(l, l.iu, bal, dev)
    BY <1>5, <1>9, DebitMayDebit
  <1>10. QED
    BY <1>2, <1>6, <1>7, <1>8, <1>9

LEMMA RecogniseMayDebit ==
  ASSUME NEW l \in Lane, NEW no \in Ids, NEW dev \in Readers \cup {"EEP"}, NEW can \in Ids,
         NEW bal \in Balance, NEW m \in Recognise(l, no, dev, can, bal)
  PROVE  MayDebit(l, m)
  <1> DEFINE off == EnableCashcard(l, FALSE)
  <1>1. Quiet(l, off) /\ off \in Lane
    BY QuietCashcard DEF Quiet
  <1>2. \/ m \in PBSExit(l, no, dev, can, bal)
        \/ m = Openbarrier(off)
        \/ m \in ChargeOBU(l, can, bal, TRUE)
        \/ dev # "EEP" /\ m = debitfromReader(l, l.iu, bal, dev)
    BY DEF Recognise
  <1>3. l.iu \in Ids /\ (dev # "EEP" => dev \in Readers)
    BY DEF Lane
  <1> HIDE DEF off
  <1>4. MayDebit(l, Openbarrier(off))
    BY <1>1, OpenbarrierCalm, QuietIsCalm, CalmTrans, CalmMayDebit
  <1>5. QED
    BY <1>2, <1>3, <1>4, PBSExitMayDebit, ChargeOBUMayDebit, DebitMayDebit

\* The whole of a handler: no debit for a paid visit either.
Safe(l, m) == MayDebit(l, m) /\ (m.serials # l.serials => ~l.gbPaid)

LEMMA CalmIsSafe ==
  ASSUME NEW l, NEW m, Calm(l, m)
  PROVE  Safe(l, m)
  BY DEF Calm, MayDebit, Safe

LEMMA QuietSafe ==
  ASSUME NEW l, NEW m, NEW n, Quiet(l, m), Safe(m, n)
  PROVE  Safe(l, n)
  BY DEF Quiet, Safe, MayDebit, Watched, NoObuRow

LEMMA CheckIUorCardStatusSafe ==
  ASSUME NEW l0 \in Lane, NEW no \in Ids, NEW dev \in Readers \cup {"EEP"}, NEW can \in Ids,
         NEW bal \in Balance, NEW m \in CheckIUorCardStatus(l0, no, dev, can, bal)
  PROVE  Safe(l0, m)
  <1> DEFINE l == IF l0.status \in Faulty THEN [l0 EXCEPT !.status = "WaitingCard"] ELSE l0
             told == [l EXCEPT !.lastBal = bal]
             seen == EnableCashcard(told, FALSE)
             off == EnableCashcard(l, FALSE)
  <1>1. /\ Alike(l0, l) /\ l.serials = l0.serials /\ l.gbPaid = l0.gbPaid
        /\ l.status = "Doingdeduction" <=> l0.status = "Doingdeduction"
    <2>1. CASE l0.status \in Faulty
      <3> DEFINE w == [l0 EXCEPT !.status = "WaitingCard"]
      <3>1. l = w /\ l0.status # "Doingdeduction"
        BY <2>1 DEF Faulty
      <3>2. w \in Lane
        BY WaitsQuiet DEF DeductionStatus, Calm
      <3>3. /\ w.timer = l0.timer /\ w.opened = l0.opened /\ w.tailgate = l0.tailgate
            /\ w.ledger = l0.ledger /\ w.serials = l0.serials /\ w.gbPaid = l0.gbPaid
            /\ w.status = "WaitingCard"
        BY DEF Lane
      <3> HIDE DEF w, l
      <3>4. QED
        BY <3>1, <3>2, <3>3 DEF Alike
    <2>2. CASE l0.status \notin Faulty
      BY <2>2 DEF Alike
    <2>3. QED
      BY <2>1, <2>2
  <1>2. \/ m \in EEPInqs(EnableCashcard(l0, TRUE))
        \/ m = Openbarrier(off) \/ m = Openbarrier(seen)
        \/ m = CloseExitOperation(seen, "BalanceChange", FALSE)
        \/ ~l.gbPaid /\ m \in TryCard(l, dev, can, bal)
        \/ ~l.gbPaid /\ m \in Recognise(l, no, dev, can, bal)
    BY DEF CheckIUorCardStatus
  <1> HIDE DEF l
  <1>3. l \in Lane
    BY <1>1 DEF Alike
  <1>4. Quiet(l, told) /\ told \in Lane
    BY <1>3 DEF Quiet, Lane
  <1> HIDE DEF told
  <1>5. Quiet(told, seen) /\ seen \in Lane /\ Quiet(l, off) /\ off \in Lane
    BY <1>3, <1>4, QuietCashcard DEF Quiet
  <1> HIDE DEF seen, off
  <1>6. Quiet(l, seen)
    BY <1>4, <1>5, QuietTrans
  <1>7. CASE m \in EEPInqs(EnableCashcard(l0, TRUE))
    BY <1>7, ReadersOnMayDebit, QuietIsCalm, CalmIsSafe
  <1>8. CASE m = Openbarrier(off) \/ m = Openbarrier(seen)
    <2>1. Safe(l, m)
      BY <1>5, <1>6, <1>8, OpenbarrierCalm, QuietIsCalm, CalmTrans, CalmIsSafe
    <2>2. QED
      BY <1>1, <2>1 DEF Alike, Safe, MayDebit, Watched, NoObuRow
  <1>9. CASE m = CloseExitOperation(seen, "BalanceChange", FALSE)
    <2>1. Calm(seen, m)
      BY <1>5, <1>9, CloseExitCloses, ClosesUnpaid DEF TransType
    <2>2. Safe(l, m)
      BY <1>6, <2>1, QuietIsCalm, CalmTrans, CalmIsSafe
    <2>3. QED
      BY <1>1, <2>2 DEF Alike, Safe, MayDebit, Watched, NoObuRow
  <1>10. CASE ~l.gbPaid /\ (m \in TryCard(l, dev, can, bal) \/ m \in Recognise(l, no, dev, can, bal))
    <2>1. MayDebit(l, m)
      BY <1>3, <1>10, TryCardMayDebit, RecogniseMayDebit
    <2>2. QED
      BY <1>1, <1>10, <2>1 DEF Alike, Safe, MayDebit, Watched, NoObuRow
  <1>11. QED
    BY <1>2, <1>7, <1>8, <1>9, <1>10

-----------------------------------------------------------------------------
(* The events, and their handlers *)

LEMMA ObuFields ==
  ASSUME NEW ev \in Event, ev.e \in {"obu", "obuUnasked"}
  PROVE  /\ ev.obu \in Obus /\ ev.card \in Ids /\ ev.valid \in CardStatus
         /\ ev.backend \in BOOLEAN /\ ev.business \in BOOLEAN /\ ev.bal \in Balance
  BY DEF Event, ObuEvents, CardEvents, DebitEvents, Signals, Ids, Cards

LEMMA CardFields ==
  ASSUME NEW ev \in Event, ev.e \in {"lcscRead", "detected"}
  PROVE  ev.card \in Ids /\ ev.bal \in Balance
  BY DEF Event, ObuEvents, CardEvents, DebitEvents, Signals, Ids, Cards

LEMMA TransFields ==
  ASSUME NEW ev \in Event, ev.e \in {"trans", "lcscPaid", "uposPaid"}
  PROVE  /\ ev.result \in Results /\ ev.obu \in Ids /\ ev.serial \in Serial
         /\ ev.card \in Ids /\ ev.amt \in Fee /\ ev.bal \in Balance
  BY DEF Event, ObuEvents, CardEvents, DebitEvents, Signals, Ids, Cards

LEMMA AckFields ==
  ASSUME NEW ev \in Event, ev.e = "deductAck"
  PROVE  ev.serial \in Serial
  BY DEF Event, ObuEvents, CardEvents, DebitEvents, Signals

\* What every handler does: Safe but for the watch.
Books(l, m) ==
  /\ m \in Lane /\ NoObuRow(l, m)
  /\ m.serials # l.serials => l.status # "Doingdeduction" /\ ~l.gbPaid

LEMMA SafeBooks ==
  ASSUME NEW l, NEW m
  PROVE  Safe(l, m) <=> Books(l, m) /\ Watched(l, m)
  BY DEF Safe, Books, MayDebit

LEMMA ProcessOUBSafe ==
  ASSUME NEW l \in Lane, NEW ev \in Event, ev.e \in {"obu", "obuUnasked"},
         NEW m \in ProcessOUBInformation(l, ev)
  PROVE  Safe(l, m)
  <1> DEFINE tailgate == IF l.tailgate = ev.obu THEN "" ELSE l.tailgate
             known == [l EXCEPT !.tailgate = tailgate, !.backend = ev.backend,
                                !.business = ev.business, !.card = ev.card,
                                !.cardStatus = ev.valid]
             asking == [known EXCEPT !.wanted = l.serial]
  <1>1. /\ ev.obu \in Ids /\ ev.card \in Ids /\ ev.valid \in CardStatus
        /\ ev.backend \in BOOLEAN /\ ev.business \in BOOLEAN /\ ev.bal \in Balance
    BY ObuFields DEF Ids
  <1>2. tailgate \in Tailgater /\ (l.tailgate = "" => tailgate = "")
    BY Zeroes DEF Lane
  <1>3. m \in {l, asking} \/ m \in CheckIUorCardStatus(known, ev.obu, "EEP", ev.card, ev.bal)
    BY DEF ProcessOUBInformation
  <1> HIDE DEF tailgate
  <1>4. /\ known \in Lane /\ known.tailgate = tailgate
        /\ known.timer = l.timer /\ known.opened = l.opened
        /\ known.serials = l.serials /\ known.status = l.status
        /\ known.gbPaid = l.gbPaid /\ known.ledger = l.ledger
    BY <1>1, <1>2 DEF Lane
  <1> HIDE DEF known
  <1>5. l.serial \in Serial
    BY DEF Lane
  <1>6. Quiet(known, asking)
    BY <1>4, <1>5 DEF Quiet, Lane
  <1> HIDE DEF asking
  <1>7. Safe(known, m) \/ m = l
    BY <1>1, <1>3, <1>4, <1>6, CheckIUorCardStatusSafe, QuietIsCalm, CalmIsSafe
  <1>8. Safe(l, l)
    BY QuietRefl, QuietIsCalm, CalmIsSafe
  <1>9. QED
    BY <1>2, <1>4, <1>7, <1>8 DEF Safe, MayDebit, Watched, NoObuRow

LEMMA ObuAnsweredSafe ==
  ASSUME NEW l \in Lane, NEW ev \in Event, ev.e = "obu", NEW m \in ObuAnswered(l, ev)
  PROVE  Safe(l, m)
  <1> DEFINE cash == EnableCashcard(l, FALSE)
             off == [cash EXCEPT !.inq = FALSE]
  <1>1. Quiet(l, cash) /\ cash \in Lane
    BY QuietCashcard DEF Quiet
  <1>2. m = off \/ m \in ProcessOUBInformation(off, ev)
    BY DEF ObuAnswered
  <1> HIDE DEF cash
  <1>3. Quiet(cash, off) /\ off \in Lane
    BY <1>1, ZenonT(60) DEF Quiet, Lane
  <1> HIDE DEF off
  <1>4. Quiet(l, off)
    BY <1>1, <1>3, QuietTrans
  <1>5. QED
    BY <1>2, <1>3, <1>4, ProcessOUBSafe, QuietSafe, QuietIsCalm, CalmIsSafe

LEMMA ObuUnaskedBooks ==
  ASSUME NEW l \in Lane, NEW ev \in Event, ev.e = "obuUnasked", NEW m \in ObuUnasked(l, ev)
  PROVE  Books(l, m)
  <1> DEFINE heard == [l EXCEPT !.tailgate = ev.obu]
  <1>1. ev.obu \in Tailgater
    BY ObuFields DEF Tailgater
  <1>2. m \in {l, heard} \/ m \in ProcessOUBInformation(l, ev)
    BY DEF ObuUnasked
  <1>3. Books(l, heard) /\ Books(l, l)
    BY <1>1 DEF Books, NoObuRow, Lane
  <1> HIDE DEF heard
  <1>4. QED
    BY <1>2, <1>3, ProcessOUBSafe, SafeBooks

LEMMA DeductTimeoutCalm ==
  ASSUME NEW l \in Lane
  PROVE  Calm(l, DeductTimeout(l))
  <1> DEFINE waits == [l EXCEPT !.status = "WaitingCard"]
  <1>1. Calm(l, waits) /\ waits \in Lane
    BY WaitsQuiet DEF DeductionStatus, Calm
  <1>2. DeductTimeout(l) \in {l, EnableCashcard(waits, TRUE)}
    BY DEF DeductTimeout
  <1> HIDE DEF waits
  <1>3. Calm(waits, EnableCashcard(waits, TRUE))
    BY <1>1, QuietCashcard, QuietIsCalm
  <1>4. Calm(l, l) /\ Calm(l, EnableCashcard(waits, TRUE))
    BY <1>1, <1>3, QuietRefl, QuietIsCalm, CalmTrans
  <1>5. QED
    BY <1>2, <1>4

LEMMA CardReadSafe ==
  ASSUME NEW l \in Lane, NEW ev \in Event, ev.e = "lcscRead", NEW m \in CardRead(l, ev)
  PROVE  Safe(l, m)
  <1> DEFINE acted == setLastAction(l)
             off == EnableCashcard(acted, FALSE)
             valid == [off EXCEPT !.cardStatus = 0]
  <1>1. Quiet(l, acted) /\ acted \in Lane
    BY QuietAction DEF Quiet
  <1>2. m \in CheckIUorCardStatus(valid, ev.card, "LCSC", ev.card, ev.bal)
    BY DEF CardRead
  <1> HIDE DEF acted
  <1>3. Quiet(acted, off) /\ off \in Lane
    BY <1>1, QuietCashcard DEF Quiet
  <1> HIDE DEF off
  <1>4. /\ valid \in Lane /\ valid.timer = off.timer /\ valid.opened = off.opened
        /\ valid.tailgate = off.tailgate /\ valid.ledger = off.ledger
        /\ valid.serials = off.serials /\ valid.status = off.status /\ valid.gbPaid = off.gbPaid
    BY <1>3, Zeroes DEF Lane
  <1> HIDE DEF valid
  <1>5. Safe(valid, m)
    BY <1>2, <1>4, CardFields, CheckIUorCardStatusSafe DEF Readers
  <1>6. Safe(off, m)
    BY <1>4, <1>5 DEF Safe, MayDebit, Watched, NoObuRow
  <1>7. QED
    BY <1>1, <1>3, <1>6, QuietSafe

LEMMA CardDetectedSafe ==
  ASSUME NEW l \in Lane, NEW ev \in Event, ev.e = "detected", NEW m \in CardDetected(l, ev)
  PROVE  Safe(l, m)
  <1> DEFINE idle == [l EXCEPT !.upos = "Disable"]
             acted == setLastAction(idle)
             off == EnableLCSC(acted, FALSE)
             valid == [off EXCEPT !.cardStatus = 0]
  <1>1. Quiet(l, idle) /\ idle \in Lane
    BY DEF Quiet, Lane
  <1>2. m \in CheckIUorCardStatus(valid, ev.card, "UPOS", ev.card, ev.bal)
    BY DEF CardDetected
  <1> HIDE DEF idle
  <1>3. Quiet(idle, acted) /\ acted \in Lane
    BY <1>1, QuietAction DEF Quiet
  <1> HIDE DEF acted
  <1>4. Quiet(acted, off) /\ off \in Lane
    BY <1>3, QuietReader DEF Quiet
  <1> HIDE DEF off
  <1>5. /\ valid \in Lane /\ valid.timer = off.timer /\ valid.opened = off.opened
        /\ valid.tailgate = off.tailgate /\ valid.ledger = off.ledger
        /\ valid.serials = off.serials /\ valid.status = off.status /\ valid.gbPaid = off.gbPaid
    BY <1>4, Zeroes DEF Lane
  <1> HIDE DEF valid
  <1>6. Safe(valid, m)
    BY <1>2, <1>5, CardFields, CheckIUorCardStatusSafe DEF Readers
  <1>7. Safe(off, m)
    BY <1>5, <1>6 DEF Safe, MayDebit, Watched, NoObuRow
  <1>8. QED
    BY <1>1, <1>3, <1>4, <1>7, QuietSafe

LEMMA RetryCalm ==
  ASSUME NEW l \in Lane, NEW m \in RetryLCSCLastCommand(l)
  PROVE  Calm(l, m)
  <1> DEFINE whole == [l EXCEPT !.paid = l.fee]
             told == IF l.status = "Doingdeduction" THEN SendMsg2OBU(whole) ELSE l
             waits == [told EXCEPT !.status = "WaitingCard"]
  <1>1. Calm(l, whole) /\ whole \in Lane
    BY DEF Calm, Watched, NoObuRow, Lane
  <1>2. m = EnableCashcard(l, FALSE) \/ m \in EEPInqs(EnableCashcard(waits, TRUE))
    BY DEF RetryLCSCLastCommand
  <1> HIDE DEF whole
  <1>3. Calm(l, told) /\ told \in Lane
    BY <1>1, QuietDisplay, QuietRefl, QuietIsCalm, CalmTrans DEF Calm
  <1> HIDE DEF told
  <1>4. Calm(told, waits) /\ waits \in Lane
    BY <1>3, WaitsQuiet DEF DeductionStatus, Calm
  <1> HIDE DEF waits
  <1>5. m \in EEPInqs(EnableCashcard(waits, TRUE)) => Calm(waits, m)
    BY <1>4, ReadersOnMayDebit, QuietIsCalm
  <1>6. QED
    BY <1>2, <1>3, <1>4, <1>5, QuietCashcard, QuietIsCalm, CalmTrans

LEMMA RefusedCalm ==
  ASSUME NEW l \in Lane, NEW status \in DeductionStatus
  PROVE  Calm(l, Refused(l, status))
  <1> DEFINE set == [l EXCEPT !.status = status]
             acted == setLastAction(set)
  <1>1. Calm(l, set) /\ set \in Lane
    BY WaitsQuiet DEF Calm
  <1>2. Refused(l, status) = EnableCashcard(acted, TRUE)
    BY DEF Refused
  <1> HIDE DEF set
  <1>3. Calm(set, acted) /\ acted \in Lane
    BY <1>1, QuietAction, QuietIsCalm DEF Calm
  <1> HIDE DEF acted
  <1>4. Calm(acted, EnableCashcard(acted, TRUE))
    BY <1>3, QuietCashcard, QuietIsCalm
  <1>5. QED
    BY <1>1, <1>2, <1>3, <1>4, CalmTrans

LEMMA IdleCalm ==
  ASSUME NEW l \in Lane
  PROVE  /\ [l EXCEPT !.upos = "Disable"] \in Lane
         /\ Quiet(l, [l EXCEPT !.upos = "Disable"])
  BY DEF Quiet, Lane

LEMMA DetectTimeoutCalm ==
  ASSUME NEW l \in Lane
  PROVE  Calm(l, DetectTimeout(l))
  <1> DEFINE late == [l EXCEPT !.upos = "ReadCardTimeout"]
             idle == [l EXCEPT !.upos = "Disable"]
  <1>1. Quiet(l, late) /\ late \in Lane
    BY DEF Quiet, Lane
  <1>2. DetectTimeout(l) \in {idle, EnableUPOS(late, TRUE)}
    BY DEF DetectTimeout
  <1>3. Quiet(l, idle)
    BY IdleCalm
  <1> HIDE DEF late, idle
  <1>4. Quiet(late, EnableUPOS(late, TRUE))
    BY <1>1, QuietTerminal
  <1>5. QED
    BY <1>1, <1>2, <1>3, <1>4, QuietTrans, QuietIsCalm

LEMMA InvalidCardSafe ==
  ASSUME NEW l \in Lane
  PROVE  Safe(l, InvalidCard(l))
  <1> DEFINE off == [l EXCEPT !.upos = "Disable"]
             debited == debitfromReader(off, "", 0, "UPOS")
  <1>1. Quiet(l, off) /\ off \in Lane
    BY IdleCalm
  <1>2. \/ InvalidCard(l) = off
        \/ InvalidCard(l) = setLastAction(debited) /\ ~l.gbPaid
    BY DEF InvalidCard
  <1> HIDE DEF off
  <1>3. 0 \in Balance
    <2>1. MaxPurse \in Nat
      BY ExitAssumption
    <2>2. QED
      BY <2>1 DEF Balance
  <1>4. MayDebit(off, debited) /\ debited \in Lane
    BY <1>1, <1>3, Zeroes, DebitMayDebit DEF Readers, MayDebit
  <1> HIDE DEF debited
  <1>5. MayDebit(l, setLastAction(debited))
    BY <1>1, <1>4, QuietAction, QuietIsCalm, MayDebitCalm, QuietMayDebit
  <1>6. QED
    BY <1>1, <1>2, <1>5, QuietIsCalm, CalmIsSafe DEF Safe

LEMMA PaidCalm ==
  ASSUME NEW l \in Lane, NEW ev \in Event, ev.e = "uposPaid"
  PROVE  Calm(l, Paid(l, ev))
  <1> DEFINE due == [l EXCEPT !.upos = "Disable", !.paid = ev.amt]
             paid == DebitOK(due, ev.card, ev.bal, "UPOS")
  <1>1. ev.card \in Ids /\ ev.amt \in Fee /\ ev.bal \in Balance
    BY TransFields
  <1>2. Calm(l, due) /\ due \in Lane
    BY <1>1 DEF Calm, Watched, NoObuRow, Lane
  <1>3. Paid(l, ev) = setLastAction(paid)
    BY DEF Paid
  <1> HIDE DEF due
  <1>4. Closes(due, paid, "UPOS" = "EEP")
    BY <1>1, <1>2, DebitOKCloses DEF Readers
  <1>5. Calm(due, paid) /\ paid \in Lane
    BY <1>4, ClosesUnpaid DEF Closes
  <1> HIDE DEF paid
  <1>6. QED
    BY <1>2, <1>3, <1>5, QuietAction, QuietIsCalm, CalmTrans

LEMMA PayFailedCalm ==
  ASSUME NEW l \in Lane
  PROVE  Calm(l, PayFailed(l)) /\ Calm(l, PayTimeout(l))
  <1> DEFINE idle == [l EXCEPT !.upos = "Disable"]
             waits == [l EXCEPT !.upos = "Disable", !.status = "WaitingCard"]
  <1>1. Calm(l, idle) /\ idle \in Lane
    BY IdleCalm, QuietIsCalm
  <1>2. Calm(l, waits) /\ waits \in Lane
    BY ZenonT(60) DEF Calm, Watched, NoObuRow, Lane, DeductionStatus
  <1>3. PayFailed(l) = EnableCashcard(waits, TRUE) /\ PayTimeout(l) = DeductTimeout(idle)
    BY DEF PayFailed, PayTimeout
  <1> HIDE DEF idle, waits
  <1>4. Calm(waits, EnableCashcard(waits, TRUE)) /\ Calm(idle, DeductTimeout(idle))
    BY <1>1, <1>2, QuietCashcard, QuietIsCalm, DeductTimeoutCalm
  <1>5. QED
    BY <1>1, <1>2, <1>3, <1>4, CalmTrans

\* A report of a deduction: rows claim an on-board payment anew only with its unit and
\* its serial number.
Reports(l, m, ev) ==
  /\ m \in Lane /\ m.serials = l.serials /\ Watched(l, m)
  /\ \A e \in m.ledger : e.obuPaid =>
       e \in l.ledger \/ (e.iu = ev.obu /\ e.serial = ev.serial)

LEMMA UpdateReports ==
  ASSUME NEW l \in Lane, NEW ev \in Event, ev.e = "trans"
  PROVE  Reports(l, UpdateEEPExitTrans(l, ev), ev)
  <1> DEFINE found == {e \in l.ledger : e.serial = ev.serial /\ e.iu = ev.obu /\ ~e.obuPaid}
             paid(e) == [e EXCEPT !.amt = ev.amt, !.card = ev.card, !.obuPaid = TRUE]
             new == {paid(e) : e \in found}
             rows == (l.ledger \ found) \cup new
             m == [l EXCEPT !.ledger = rows]
  <1>1. ev.obu \in Ids /\ ev.serial \in Serial /\ ev.card \in Ids /\ ev.amt \in Fee
    BY TransFields
  <1>2. l.ledger \in SUBSET Row
    BY DEF Lane
  <1>3. \A e \in found : paid(e) \in Row /\ paid(e).iu = ev.obu /\ paid(e).serial = ev.serial
    BY <1>1, <1>2 DEF Row
  <1>4. \A r \in new : r \in Row /\ r.iu = ev.obu /\ r.serial = ev.serial
    BY <1>3
  <1>5. UpdateEEPExitTrans(l, ev) = m
    BY DEF UpdateEEPExitTrans
  <1> HIDE DEF found, new
  <1>6. rows \in SUBSET Row /\ \A r \in rows : r \in l.ledger \/ r \in new
    BY <1>2, <1>4
  <1> HIDE DEF rows
  <1>7. /\ m \in Lane /\ m.serials = l.serials /\ m.ledger = rows
        /\ m.tailgate = l.tailgate /\ m.timer = l.timer /\ m.opened = l.opened
    BY <1>6 DEF Lane
  <1> HIDE DEF m
  <1>8. QED
    BY <1>4, <1>5, <1>6, <1>7 DEF Reports, Watched

LEMMA DeductedReports ==
  ASSUME NEW l \in Lane, NEW ev \in Event, ev.e = "trans"
  PROVE  Reports(l, Deducted(l, ev), ev)
  <1> DEFINE told == [l EXCEPT !.paid = ev.amt, !.serial = ev.serial, !.result5 = FALSE]
             closed == DebitOK(told, ev.card, ev.bal, "EEP")
  <1>1. /\ ev.obu \in Ids /\ ev.serial \in Serial /\ ev.card \in Ids /\ ev.amt \in Fee
        /\ ev.bal \in Balance
    BY TransFields
  <1>2. /\ told \in Lane /\ told.serials = l.serials /\ told.ledger = l.ledger
        /\ told.tailgate = l.tailgate /\ told.timer = l.timer /\ told.opened = l.opened
        /\ told.iu = l.iu /\ told.serial = ev.serial
    BY <1>1 DEF Lane
  <1>3. Deducted(l, ev) = IF ev.obu = l.iu /\ gbLoopApresent THEN closed
                          ELSE UpdateEEPExitTrans(l, ev)
    BY DEF Deducted
  <1> HIDE DEF told
  <1>4. Closes(told, closed, "EEP" = "EEP")
    BY <1>1, <1>2, DebitOKCloses
  <1> HIDE DEF closed
  <1>5. ev.obu = l.iu => Reports(l, closed, ev)
    BY <1>2, <1>4 DEF Closes, Reports, Watched
  <1>6. QED
    BY <1>3, <1>5, UpdateReports

LEMMA ViolationCalm ==
  ASSUME NEW l \in Lane, NEW status \in DeductionStatus, NEW m \in Violation(l, status)
  PROVE  Calm(l, m)
  <1> DEFINE set == [l EXCEPT !.status = status]
             told == SendMsg2OBU(set)
  <1>1. Calm(l, set) /\ set \in Lane
    BY WaitsQuiet DEF Calm
  <1>2. m \in EEPInqs(EnableCashcard(told, TRUE))
    BY DEF Violation
  <1> HIDE DEF set
  <1>3. Calm(set, told) /\ told \in Lane
    BY <1>1, QuietDisplay, QuietIsCalm DEF Calm
  <1> HIDE DEF told
  <1>4. Calm(told, m)
    BY <1>2, <1>3, ReadersOnMayDebit, QuietIsCalm
  <1>5. QED
    BY <1>1, <1>3, <1>4, CalmTrans

LEMMA RejectedCalm ==
  ASSUME NEW l \in Lane, NEW ev \in Event, ev.e = "trans", ev.result # "done",
         NEW m \in processEEPTransData(l, ev)
  PROVE  Calm(l, m)
  <1> DEFINE doubted == [l EXCEPT !.iu = ev.obu, !.card = ev.card, !.result5 = FALSE]
             unknown == [l EXCEPT !.result5 = TRUE, !.inq = TRUE]
  <1>1. ev.result \in {"code5", "code7", "code9", "balance", "card", "account"}
    BY TransFields DEF Results
  <1>2. ev.obu \in Ids /\ ev.card \in Ids
    BY TransFields
  <1>3. /\ doubted \in Lane /\ doubted.serials = l.serials /\ doubted.ledger = l.ledger
        /\ doubted.tailgate = l.tailgate /\ doubted.timer = l.timer
        /\ doubted.opened = l.opened
    BY <1>2 DEF Lane
  <1>4. Calm(l, unknown)
    BY DEF Calm, Watched, NoObuRow, Lane
  <1>5. \/ m = CloseExitOperation(doubted, "RejectCode7", FALSE)
        \/ m = unknown
        \/ m \in EEPInqs(EnableCashcard(l, TRUE))
        \/ \E s \in {"InsufficientBalance", "CardFault", "WaitingCard"} : m \in Violation(l, s)
    BY <1>1 DEF processEEPTransData
  <1> HIDE DEF doubted, unknown
  <1>6. CASE m = CloseExitOperation(doubted, "RejectCode7", FALSE)
    <2>1. Calm(doubted, m)
      BY <1>3, <1>6, CloseExitCloses, ClosesUnpaid DEF TransType
    <2>2. QED
      BY <1>3, <2>1 DEF Calm, Watched, NoObuRow
  <1>7. CASE m \in EEPInqs(EnableCashcard(l, TRUE))
    BY <1>7, ReadersOnMayDebit, QuietIsCalm
  <1>8. CASE \E s \in {"InsufficientBalance", "CardFault", "WaitingCard"} : m \in Violation(l, s)
    BY <1>8, ViolationCalm DEF DeductionStatus
  <1>9. QED
    BY <1>4, <1>5, <1>6, <1>7, <1>8

-----------------------------------------------------------------------------
(* The loops *)

LEMMA LoopAComeWatches ==
  ASSUME NEW l \in Lane
  PROVE  /\ LoopACome(l) \in Lane
         /\ LoopACome(l).serials = l.serials /\ LoopACome(l).ledger = l.ledger
         /\ LoopACome(l).tailgate = "" /\ LoopACome(l).timer = TRUE
  <1> DEFINE timed == [l EXCEPT !.timer = TRUE]
             acted == setLastAction(timed)
             clear == Clearme(acted)
             alone == [clear EXCEPT !.tailgate = ""]
  <1>1. /\ timed \in Lane /\ timed.serials = l.serials /\ timed.ledger = l.ledger
        /\ timed.timer = TRUE
    BY DEF Lane
  <1>2. LoopACome(l) = EEPInq(alone)
    BY DEF LoopACome
  <1> HIDE DEF timed
  <1>3. Quiet(timed, acted) /\ acted \in Lane
    BY <1>1, QuietAction DEF Quiet
  <1> HIDE DEF acted
  <1>4. clear \in Lane /\ clear.serials = acted.serials /\ clear.ledger = acted.ledger
        /\ clear.timer = acted.timer
    BY <1>3, ClearmeType
  <1> HIDE DEF clear
  <1>5. /\ alone \in Lane /\ alone.serials = clear.serials /\ alone.ledger = clear.ledger
        /\ alone.timer = clear.timer /\ alone.tailgate = ""
    BY <1>4, Zeroes DEF Lane
  <1> HIDE DEF alone
  <1>6. Quiet(alone, EEPInq(alone))
    BY <1>5, QuietInquiry
  <1>7. QED
    BY <1>1, <1>2, <1>3, <1>4, <1>5, <1>6 DEF Quiet

LEMMA LoopAComeCalm ==
  ASSUME NEW l \in Lane
  PROVE  Calm(l, LoopACome(l))
  BY LoopAComeWatches DEF Calm, Watched, NoObuRow

LEMMA LoopAGoneBooks ==
  ASSUME NEW l \in Lane
  PROVE  Books(l, LoopAGone(l)) /\ LoopAGone(l).tailgate = l.tailgate
  <1> DEFINE untimed == [l EXCEPT !.timer = FALSE]
             off == EnableCashcard(untimed, FALSE)
             silent == off.asked \ {"obuInfo"}
             m == [off EXCEPT !.asked = silent]
  <1>1. /\ untimed \in Lane /\ untimed.serials = l.serials /\ untimed.ledger = l.ledger
        /\ untimed.tailgate = l.tailgate
    BY DEF Lane
  <1>2. LoopAGone(l) = m
    BY DEF LoopAGone
  <1> HIDE DEF untimed
  <1>3. Quiet(untimed, off) /\ off \in Lane
    BY <1>1, QuietCashcard DEF Quiet
  <1> HIDE DEF off
  <1>4. Quiet(off, m)
    BY <1>3 DEF Quiet, Lane
  <1> HIDE DEF m
  <1>5. QED
    BY <1>1, <1>2, <1>3, <1>4 DEF Quiet, Books, NoObuRow

LEMMA LoopCGoneBooks ==
  ASSUME NEW l \in Lane
  PROVE  /\ Books(l, LoopCGone(l))
         /\ l.tailgate = "" => LoopCGone(l).tailgate = ""
         /\ gbLoopApresent => Watched(l, LoopCGone(l))
  <1> DEFINE clear == Clearme(l)
             again == LoopACome(clear)
  <1>1. /\ clear \in Lane /\ clear.serials = l.serials /\ clear.ledger = l.ledger
        /\ clear.tailgate = l.tailgate
    BY ClearmeType
  <1>2. LoopCGone(l) = IF ~l.saved /\ gbLoopApresent THEN l
                       ELSE IF gbLoopApresent THEN again ELSE clear
    BY DEF LoopCGone
  <1> HIDE DEF clear
  <1>3. /\ again \in Lane /\ again.serials = l.serials /\ again.ledger = l.ledger
        /\ again.tailgate = "" /\ again.timer = TRUE
    BY <1>1, LoopAComeWatches
  <1> HIDE DEF again
  <1>4. QED
    BY <1>1, <1>2, <1>3 DEF Books, NoObuRow, Watched

LEMMA TimerTickCalm ==
  ASSUME NEW l \in Lane
  PROVE  /\ Calm(l, TimerTick(l))
         /\ gbLoopApresent => TimerTick(l).timer
  <1> DEFINE armed == [l EXCEPT !.timer = TRUE]
             off == EnableCashcard(l, FALSE)
  <1>1. Calm(l, armed) /\ armed.timer = TRUE
    BY DEF Calm, Watched, NoObuRow, Lane
  <1>2. TimerTick(l) = IF ~l.overdue THEN armed
                       ELSE IF gbLoopApresent THEN LoopACome(off) ELSE off
    BY DEF TimerTick
  <1> HIDE DEF armed
  <1>3. Calm(l, off) /\ off \in Lane
    BY QuietCashcard, QuietIsCalm DEF Calm
  <1> HIDE DEF off
  <1>4. Calm(l, LoopACome(off)) /\ LoopACome(off).timer = TRUE
    BY <1>3, LoopAComeCalm, LoopAComeWatches, CalmTrans
  <1>5. QED
    BY <1>1, <1>2, <1>3, <1>4

LEMMA SignalFields ==
  ASSUME NEW ev \in Event
  PROVE  ev.e \in Signals \cup {"deductAck", "obu", "obuUnasked", "lcscRead", "detected",
                                "trans", "lcscPaid", "uposPaid"}
  BY DEF Event, ObuEvents, CardEvents, DebitEvents

\* The events whose handlers command no debit, the loops aside.
Calming == {"tick", "up", "noObu", "deductAck", "deductTimeout", "lcscPaid", "lcscExpired",
            "lcscFailed", "flushed", "detectTimeout", "uposPaid", "uposTimeout", "uposExpired",
            "uposFault", "uposFailed"}

LEMMA SignalCalm ==
  ASSUME NEW l \in Lane, NEW ev \in Event, NEW m \in Handled(l, ev),
         ev.e \in {"tick", "up", "noObu", "deductAck", "deductTimeout"}
  PROVE  Calm(l, m)
  <1> DEFINE acked == [l EXCEPT !.serial = ev.serial]
  <1>1. Calm(l, l)
    BY QuietRefl, QuietIsCalm
  <1>2. ev.e = "deductAck" => Calm(l, acked)
    BY AckFields DEF Calm, Watched, NoObuRow, Lane
  <1>3. CASE ev.e = "tick"
    BY <1>3, TimerTickCalm DEF Handled
  <1>4. CASE ev.e = "up"
    <2>1. m = BarrierUp(l)
      BY <1>4 DEF Handled
    <2>2. m = l \/ m = Openbarrier(l)
      BY <2>1 DEF BarrierUp
    <2>3. QED
      BY <1>1, <2>2, OpenbarrierCalm
  <1>5. CASE ev.e = "noObu"
    <2>1. m = NoObu(l)
      BY <1>5 DEF Handled
    <2>2. m = l \/ m = EnableCashcard(l, TRUE)
      BY <2>1 DEF NoObu
    <2>3. QED
      BY <1>1, <2>2, QuietCashcard, QuietIsCalm
  <1>6. CASE ev.e = "deductAck"
    <2>1. m = acked
      BY <1>6 DEF Handled
    <2> HIDE DEF acked
    <2>2. QED
      BY <1>2, <1>6, <2>1
  <1>7. CASE ev.e = "deductTimeout"
    BY <1>7, DeductTimeoutCalm DEF Handled
  <1>8. QED
    BY <1>3, <1>4, <1>5, <1>6, <1>7

LEMMA LCSCCalm ==
  ASSUME NEW l \in Lane, NEW ev \in Event, NEW m \in Handled(l, ev),
         ev.e \in {"lcscPaid", "lcscExpired", "lcscFailed", "flushed"}
  PROVE  Calm(l, m)
  <1> DEFINE acted == setLastAction(l)
             paid == DebitOK(acted, ev.card, ev.bal, "LCSC")
  <1>1. Calm(l, acted) /\ acted \in Lane
    BY QuietAction, QuietIsCalm DEF Calm
  <1>2. CASE ev.e = "lcscPaid"
    <2>1. m = paid
      BY <1>2 DEF Handled
    <2> HIDE DEF acted
    <2>2. Closes(acted, paid, "LCSC" = "EEP")
      BY <1>1, <1>2, TransFields, DebitOKCloses DEF Readers
    <2> HIDE DEF paid
    <2>3. QED
      BY <1>1, <2>1, <2>2, ClosesUnpaid, CalmTrans
  <1>3. CASE ev.e = "lcscExpired"
    <2>1. m = Refused(l, "CardExpired")
      BY <1>3 DEF Handled
    <2>2. QED
      BY <2>1, RefusedCalm DEF DeductionStatus
  <1>4. CASE ev.e \in {"lcscFailed", "flushed"}
    <2>1. m = l \/ m \in RetryLCSCLastCommand(l)
      BY <1>4 DEF Handled, CardFlushed
    <2>2. QED
      BY <2>1, RetryCalm, QuietRefl, QuietIsCalm
  <1>5. QED
    BY <1>2, <1>3, <1>4

LEMMA UPOSCalm ==
  ASSUME NEW l \in Lane, NEW ev \in Event, NEW m \in Handled(l, ev),
         ev.e \in {"detectTimeout", "uposPaid", "uposTimeout", "uposExpired", "uposFault",
                   "uposFailed"}
  PROVE  Calm(l, m)
  <1> DEFINE idle == [l EXCEPT !.upos = "Disable"]
  <1>1. Calm(l, idle) /\ idle \in Lane
    BY IdleCalm, QuietIsCalm
  <1>2. \/ m = DetectTimeout(l) \/ m = PayTimeout(l) \/ m = PayFailed(l)
        \/ ev.e = "uposPaid" /\ m = Paid(l, ev)
        \/ m = Refused(idle, "CardExpired") \/ m = Refused(idle, "CardFault")
    BY DEF Handled
  <1> HIDE DEF idle
  <1>3. Calm(idle, Refused(idle, "CardExpired")) /\ Calm(idle, Refused(idle, "CardFault"))
    BY <1>1, RefusedCalm DEF DeductionStatus
  <1>4. QED
    BY <1>1, <1>2, <1>3, DetectTimeoutCalm, PayFailedCalm, PaidCalm, CalmTrans

\* The rest: what a handler does to the lane.
Handles(l, m, ev) ==
  /\ m \in Lane
  /\ m.serials # l.serials => l.status # "Doingdeduction" /\ ~l.gbPaid
  /\ \A e \in m.ledger : e.obuPaid =>
       \/ e \in l.ledger
       \/ ev.e = "trans" /\ ev.result = "done" /\ e.iu = ev.obu /\ e.serial = ev.serial
  /\ ev.e # "obuUnasked" /\ l.tailgate = "" => m.tailgate = ""
  /\ ev.e \in {"A_ON", "tick"} /\ gbLoopApresent => m.timer
  /\ ev.e \notin {"A_OFF", "obuUnasked"} /\ gbLoopApresent => Watched(l, m)

LEMMA SafeHandles ==
  ASSUME NEW l, NEW m, NEW ev, Safe(l, m), ev.e \notin {"A_ON", "tick"}
  PROVE  Handles(l, m, ev)
  BY DEF Safe, MayDebit, Watched, NoObuRow, Handles

LEMMA LoopHandles ==
  ASSUME NEW l \in Lane, NEW ev \in Event, NEW m \in Handled(l, ev),
         ev.e \in {"A_ON", "A_OFF", "C_OFF", "tick"}
  PROVE  Handles(l, m, ev)
  <1>1. CASE ev.e = "A_ON"
    <2>1. m = LoopACome(l)
      BY <1>1 DEF Handled
    <2>2. QED
      BY <1>1, <2>1, LoopAComeWatches DEF Handles, Watched
  <1>2. CASE ev.e = "A_OFF"
    <2>1. m = LoopAGone(l)
      BY <1>2 DEF Handled
    <2>2. QED
      BY <1>2, <2>1, LoopAGoneBooks DEF Handles, Books, NoObuRow
  <1>3. CASE ev.e = "C_OFF"
    <2>1. m = LoopCGone(l)
      BY <1>3 DEF Handled
    <2>2. QED
      BY <1>3, <2>1, LoopCGoneBooks DEF Handles, Books, NoObuRow
  <1>4. CASE ev.e = "tick"
    <2>1. m = TimerTick(l)
      BY <1>4 DEF Handled
    <2>2. QED
      BY <1>4, <2>1, TimerTickCalm DEF Handles, Calm, NoObuRow, Watched
  <1>5. QED
    BY <1>1, <1>2, <1>3, <1>4

LEMMA HandledHandles ==
  ASSUME NEW l \in Lane, NEW ev \in Event, NEW m \in Handled(l, ev)
  PROVE  Handles(l, m, ev)
  <1>1. CASE ev.e \in {"A_ON", "A_OFF", "C_OFF", "tick"}
    BY <1>1, LoopHandles
  <1>2. CASE ev.e \in Calming \ {"tick"}
    BY <1>2, SignalCalm, LCSCCalm, UPOSCalm, CalmIsSafe, SafeHandles DEF Calming
  <1>3. CASE ev.e = "obu"
    <2>1. m \in ObuAnswered(l, ev)
      BY <1>3 DEF Handled
    <2>2. QED
      BY <1>3, <2>1, ObuAnsweredSafe, SafeHandles
  <1>4. CASE ev.e = "obuUnasked"
    <2>1. m \in ObuUnasked(l, ev)
      BY <1>4 DEF Handled
    <2>2. QED
      BY <1>4, <2>1, ObuUnaskedBooks DEF Books, NoObuRow, Handles
  <1>5. CASE ev.e = "trans"
    <2>1. m \in processEEPTransData(l, ev)
      BY <1>5 DEF Handled
    <2>2. CASE ev.result = "done"
      <3>1. m = Deducted(l, ev)
        BY <2>1, <2>2 DEF processEEPTransData
      <3>2. QED
        BY <1>5, <2>2, <3>1, DeductedReports DEF Reports, Handles, Watched
    <2>3. CASE ev.result # "done"
      BY <1>5, <2>1, <2>3, RejectedCalm, CalmIsSafe, SafeHandles
    <2>4. QED
      BY <2>2, <2>3
  <1>6. CASE ev.e \in {"lcscRead", "detected", "invalidCard"}
    <2>1. \/ ev.e = "lcscRead" /\ m \in CardRead(l, ev)
          \/ ev.e = "detected" /\ m \in CardDetected(l, ev)
          \/ m = InvalidCard(l)
      BY <1>6 DEF Handled
    <2>2. QED
      BY <1>6, <2>1, CardReadSafe, CardDetectedSafe, InvalidCardSafe, SafeHandles
  <1>7. QED
    BY <1>1, <1>2, <1>3, <1>4, <1>5, <1>6, SignalFields DEF Signals, Calming

-----------------------------------------------------------------------------
(* What comes from outside *)

LEMMA PurseBalance ==
  ASSUME NEW x \in 0..MaxPurse
  PROVE  x \in Balance /\ 100 * x \in Balance
  <1>1. MaxPurse \in Nat
    BY ExitAssumption
  <1>2. QED
    BY <1>1 DEF Balance

LEMMA ZeroBalance == 0 \in Balance
  <1>1. MaxPurse \in Nat
    BY ExitAssumption
  <1>2. QED
    BY <1>1 DEF Balance

LEMMA SignalEvent ==
  ASSUME NEW s \in Signals
  PROVE  [e |-> s] \in Event /\ [e |-> s].e = s
  BY DEF Event

LEMMA ObuEvent ==
  ASSUME NEW what \in {"obu", "obuUnasked"}, NEW obu \in Obus, NEW c \in ObuCards \cup {""},
         NEW backend \in BOOLEAN, NEW business \in BOOLEAN, purse \in [Cards -> 0..MaxPurse]
  PROVE  /\ ObuSays(what, obu, c, backend, business) \in Event
         /\ ObuSays(what, obu, c, backend, business).e = what
  <1> DEFINE valid == IF c = "" THEN 1 ELSE 0
             bal == IF c = "" THEN 0 ELSE 100 * purse[c]
  <1>1. valid \in CardStatus
    BY Zeroes
  <1>2. bal \in Balance
    <2>1. CASE c = ""
      BY <2>1, ZeroBalance
    <2>2. CASE c # ""
      <3>1. purse[c] \in 0..MaxPurse
        BY <2>2 DEF Cards
      <3>2. QED
        BY <2>2, <3>1, PurseBalance
    <2>3. QED
      BY <2>1, <2>2
  <1> DEFINE r(v, b) == [e |-> what, obu |-> obu, card |-> c, valid |-> v,
                         backend |-> backend, business |-> business, bal |-> b]
  <1>3. \A v \in CardStatus, b \in Balance : r(v, b) \in ObuEvents /\ r(v, b).e = what
    BY DEF ObuEvents
  <1>4. ObuSays(what, obu, c, backend, business) = r(valid, bal)
    BY DEF ObuSays
  <1> HIDE DEF valid, bal, r
  <1>5. QED
    BY <1>1, <1>2, <1>3, <1>4 DEF Event

LEMMA CardEvent ==
  ASSUME NEW what \in {"lcscRead", "detected"}, NEW c \in TapCards,
         purse \in [Cards -> 0..MaxPurse]
  PROVE  Says(what, c) \in Event /\ Says(what, c).e = what
  <1>1. purse[c] \in Balance
    BY PurseBalance DEF Cards
  <1>2. QED
    BY <1>1 DEF Says, CardEvents, Event

LEMMA OutcomeEvent ==
  ASSUME NEW what \in {"trans", "lcscPaid", "uposPaid"}, NEW result \in Results,
         NEW t \in Charge, purse' \in [Cards -> 0..MaxPurse]
  PROVE  Outcome(what, result, t) \in Event /\ Outcome(what, result, t).e = what
  <1> DEFINE bal == IF t.card = "" THEN 0 ELSE purse'[t.card]
  <1>1. t.iu \in Ids /\ t.card \in Cards \cup {""} /\ t.serial \in Serial /\ t.amt \in Fee
    BY DEF Charge
  <1>2. bal \in Balance
    <2>1. CASE t.card = ""
      BY <2>1, ZeroBalance
    <2>2. CASE t.card # ""
      <3>1. purse'[t.card] \in 0..MaxPurse
        BY <1>1, <2>2
      <3>2. QED
        BY <2>2, <3>1, PurseBalance
    <2>3. QED
      BY <2>1, <2>2
  <1> DEFINE r(i, s, c, a, b) == [e |-> what, result |-> result, obu |-> i, serial |-> s,
                                  card |-> c, amt |-> a, bal |-> b]
  <1>3. \A i \in Ids, s \in Serial, c \in Cards \cup {""}, a \in Fee, b \in Balance :
          r(i, s, c, a, b) \in DebitEvents /\ r(i, s, c, a, b).e = what
    BY DEF DebitEvents
  <1>4. Outcome(what, result, t) = r(t.iu, t.serial, t.card, t.amt, bal)
    BY DEF Outcome
  <1> DEFINE ev == r(t.iu, t.serial, t.card, t.amt, bal)
  <1> HIDE DEF bal, r
  <1>5. ev \in DebitEvents /\ ev.e = what
    BY <1>1, <1>2, <1>3
  <1> HIDE DEF ev
  <1>6. ev \in Event
    BY <1>5 DEF Event
  <1>7. Outcome(what, result, t) = ev
    BY <1>4 DEF ev
  <1>8. QED
    BY <1>5, <1>6, <1>7

LEMMA TakesCharge ==
  ASSUME NEW d \in Debit, NEW c \in Cards \cup {""}
  PROVE  Takes(d, c) \in Charge
  BY DEF Takes, Debit, Charge

LEMMA Less ==
  ASSUME NEW n \in Nat, NEW x \in 0..n, NEW a \in 0..1, x >= a
  PROVE  x - a \in 0..n
  OBVIOUS

LEMMA ChargesTypes ==
  ASSUME NEW t \in Charge, Charges(t), purse \in [Cards -> 0..MaxPurse], taken \subseteq Charge
  PROVE  purse' \in [Cards -> 0..MaxPurse] /\ taken' \subseteq Charge
  <1>1. MaxPurse \in Nat /\ t.amt \in 0..1 /\ t.card \in Cards \cup {""}
    BY ExitAssumption DEF Charge, Fee
  <1>2. \A c \in Cards : (IF c = t.card THEN purse[c] - t.amt ELSE purse[c]) \in 0..MaxPurse
    <2> SUFFICES ASSUME NEW c \in Cards
                 PROVE  (IF c = t.card THEN purse[c] - t.amt ELSE purse[c]) \in 0..MaxPurse
      OBVIOUS
    <2>1. purse[c] \in 0..MaxPurse
      OBVIOUS
    <2>2. c = t.card => purse[c] >= t.amt
      BY ExitAssumption DEF Charges, Cards
    <2>3. CASE c = t.card
      <3> DEFINE x == purse[c]
                 a == t.amt
      <3>1. x \in 0..MaxPurse /\ a \in 0..1 /\ x >= a
        BY <1>1, <2>1, <2>2, <2>3
      <3> HIDE DEF x, a
      <3>2. x - a \in 0..MaxPurse
        BY <1>1, <3>1, Less
      <3>3. QED
        BY <2>3, <3>2 DEF x, a
    <2>4. QED
      BY <2>1, <2>3
  <1>3. QED
    BY <1>2 DEF Charges

\* One step of a unit or a reader, as far as the lane and the queue go.
Arrives ==
  /\ Quiet(lane, lane')
  /\ UNCHANGED <<car, passing, reported, visits>>
  /\ \/ queue' = queue
     \/ \E ev \in Event : /\ ev.e \notin {"A_ON", "A_OFF"}
                          /\ ev.e = "obuUnasked" => Unasked
                          /\ queue' = Append(queue, ev)
  /\ purse' \in [Cards -> 0..MaxPurse] /\ taken' \subseteq Charge /\ answers' \in Nat

LEMMA AnswerArrives ==
  ASSUME TypeOK, NEW ev \in Event, ev.e \notin {"A_ON", "A_OFF"}, ev.e = "obuUnasked" => Unasked,
         Quiet(lane, lane'), Post(ev), UNCHANGED <<car, passing, reported, visits>>,
         purse' \in [Cards -> 0..MaxPurse], taken' \subseteq Charge, answers' \in Nat
  PROVE  Arrives
  BY DEF Arrives, Post

LEMMA AnswersNat ==
  ASSUME TypeOK, NEW ev, Answers(ev)
  PROVE  answers' \in Nat /\ Post(ev)
  <1>1. answers \in Nat
    BY DEF TypeOK
  <1>2. QED
    BY <1>1 DEF Answers

LEMMA AskedQuiet ==
  ASSUME NEW l \in Lane, NEW what
  PROVE  Quiet(l, [l EXCEPT !.asked = @ \ {what}])
  BY DEF Quiet, Lane

LEMMA DebitGone ==
  ASSUME NEW l \in Lane, NEW d
  PROVE  Quiet(l, [l EXCEPT !.debits = @ \ {d}])
  BY DEF Quiet, Lane

LEMMA CommandedDebit ==
  ASSUME TypeOK, NEW dev, NEW d \in Commanded(lane, dev)
  PROVE  d \in Debit
  BY DEF TypeOK, Commanded, Lane

LEMMA AnsweredArrives ==
  ASSUME TypeOK, NEW ev \in Event, ev.e \notin {"A_ON", "A_OFF"}, ev.e = "obuUnasked" => Unasked,
         Quiet(lane, lane'), Answers(ev), UNCHANGED <<car, passing, purse, taken, reported, visits>>
  PROVE  Arrives
  <1>1. answers' \in Nat /\ Post(ev)
    BY AnswersNat
  <1>2. purse' \in [Cards -> 0..MaxPurse] /\ taken' \subseteq Charge
    BY DEF TypeOK
  <1>3. QED
    BY <1>1, <1>2, AnswerArrives

LEMMA ChargedArrives ==
  ASSUME TypeOK, NEW ev \in Event, ev.e \notin {"A_ON", "A_OFF", "obuUnasked"},
         NEW t \in Charge, Charges(t),
         Quiet(lane, lane'), Answers(ev), UNCHANGED <<car, passing, reported, visits>>
  PROVE  Arrives
  <1>1. answers' \in Nat /\ Post(ev)
    BY AnswersNat
  <1>2. purse' \in [Cards -> 0..MaxPurse] /\ taken' \subseteq Charge
    BY ChargesTypes DEF TypeOK
  <1>3. QED
    BY <1>1, <1>2, AnswerArrives

LEMMA ObuTalks ==
  ASSUME TypeOK
  PROVE  /\ \A c \in ObuCards \cup {""}, backend, business \in BOOLEAN :
              ObuAnswers(c, backend, business) => Arrives
         /\ NoObuAnswers => Arrives
         /\ \A obu \in Obus, c \in ObuCards \cup {""}, backend \in BOOLEAN :
              ObuIsHeard(obu, c, backend) => Arrives
  <1> USE DEF TypeOK
  <1>1. ASSUME NEW c \in ObuCards \cup {""}, NEW backend \in BOOLEAN, NEW business \in BOOLEAN,
               ObuAnswers(c, backend, business)
        PROVE  Arrives
    <2> DEFINE ev == ObuSays("obu", car, c, backend, business)
    <2>1. Quiet(lane, lane')
      BY <1>1, AskedQuiet DEF ObuAnswers
    <2>2. car \in Obus
      BY <1>1 DEF ObuAnswers
    <2>3. ev \in Event /\ ev.e = "obu"
      <3>1. \A obu \in Obus : /\ ObuSays("obu", obu, c, backend, business) \in Event
                              /\ ObuSays("obu", obu, c, backend, business).e = "obu"
        <4> SUFFICES ASSUME NEW obu \in Obus
                     PROVE  /\ ObuSays("obu", obu, c, backend, business) \in Event
                            /\ ObuSays("obu", obu, c, backend, business).e = "obu"
          OBVIOUS
        <4>1. "obu" \in {"obu", "obuUnasked"} /\ purse \in [Cards -> 0..MaxPurse]
          BY DEF TypeOK
        <4> HIDE DEF TypeOK
        <4>2. QED
          BY <4>1, ObuEvent, ZenonT(60)
      <3>2. QED
        BY <2>2, <3>1
    <2>4. Answers(ev) /\ UNCHANGED <<car, passing, purse, taken, reported, visits>>
      BY <1>1 DEF ObuAnswers
    <2> HIDE DEF ev
    <2>5. QED
      BY <2>1, <2>3, <2>4, AnsweredArrives
  <1>2. ASSUME NoObuAnswers
        PROVE  Arrives
    <2>1. Quiet(lane, lane')
      BY <1>2, AskedQuiet DEF NoObuAnswers
    <2>2. [e |-> "noObu"] \in Event /\ [e |-> "noObu"].e = "noObu"
      BY SignalEvent DEF Signals
    <2>3. QED
      BY <1>2, <2>1, <2>2, AnsweredArrives DEF NoObuAnswers
  <1>3. ASSUME NEW obu \in Obus, NEW c \in ObuCards \cup {""}, NEW backend \in BOOLEAN,
               ObuIsHeard(obu, c, backend)
        PROVE  Arrives
    <2> DEFINE ev == ObuSays("obuUnasked", obu, c, backend, TRUE)
    <2>1. Quiet(lane, lane')
      BY <1>3, QuietRefl DEF ObuIsHeard
    <2>2. ev \in Event /\ ev.e = "obuUnasked"
      <3>1. /\ "obuUnasked" \in {"obu", "obuUnasked"} /\ TRUE \in BOOLEAN
            /\ purse \in [Cards -> 0..MaxPurse]
        OBVIOUS
      <3>2. QED
        BY <3>1, ObuEvent, ZenonT(60)
    <2>3. Unasked /\ Answers(ev) /\ UNCHANGED <<car, passing, purse, taken, reported, visits>>
      BY <1>3 DEF ObuIsHeard
    <2> HIDE DEF ev
    <2>4. QED
      BY <2>1, <2>2, <2>3, AnsweredArrives
  <1>4. QED
    BY <1>1, <1>2, <1>3

LEMMA ObuPays ==
  ASSUME TypeOK, NEW d \in Commanded(lane, "EEP"), NEW c \in ObuCards \cup {""}
  PROVE  /\ \A arrives \in BOOLEAN : ObuDebits(d, c, arrives) => Arrives
         /\ \A charged \in BOOLEAN : ObuLosesTouch(d, c, charged) => Arrives
         /\ \A result \in {"code7", "code9", "balance", "card", "account"} :
              ObuDeclines(d, result) => Arrives
  <1> DEFINE none == Takes(d, "")
             all == Takes(d, c)
  <1> {"done", "code5", "code7", "code9", "balance", "card", "account"} \subseteq Results
    BY DEF Results
  <1>1. none \in Charge /\ all \in Charge
    BY CommandedDebit, TakesCharge DEF Cards
  <1> HIDE DEF none, all
  <1>2. ASSUME NEW arrives \in BOOLEAN, ObuDebits(d, c, arrives)
        PROVE  Arrives
    <2>1. Quiet(lane, lane') /\ Charges(all)
      BY <1>2, DebitGone DEF ObuDebits, TypeOK, all
    <2>2. purse' \in [Cards -> 0..MaxPurse] /\ taken' \subseteq Charge
      BY <1>1, <2>1, ChargesTypes DEF TypeOK
    <2>3. CASE arrives
      <3>1. Outcome("trans", "done", all) \in Event /\ Outcome("trans", "done", all).e = "trans"
        BY <1>1, <2>2, OutcomeEvent
      <3>2. Answers(Outcome("trans", "done", all)) /\ UNCHANGED <<car, passing, reported, visits>>
        BY <1>2, <2>3 DEF ObuDebits, all
      <3>3. QED
        BY <1>1, <2>1, <3>1, <3>2, ChargedArrives
    <2>4. CASE ~arrives
      <3>1. UNCHANGED <<queue, answers, car, passing, reported, visits>>
        BY <1>2, <2>4 DEF ObuDebits
      <3>2. QED
        BY <2>1, <2>2, <3>1 DEF Arrives, TypeOK
    <2>5. QED
      BY <2>3, <2>4
  <1>3. ASSUME NEW charged \in BOOLEAN, ObuLosesTouch(d, c, charged)
        PROVE  Arrives
    <2> DEFINE ev == Outcome("trans", "code5", none)
    <2>1. /\ Quiet(lane, lane') /\ Answers(ev)
          /\ UNCHANGED <<car, passing, reported, visits>>
      BY <1>3, DebitGone DEF ObuLosesTouch, TypeOK, none
    <2>2. Charges(all) \/ UNCHANGED <<purse, taken>>
      BY <1>3 DEF ObuLosesTouch, all
    <2>3. purse' \in [Cards -> 0..MaxPurse] /\ taken' \subseteq Charge
      BY <1>1, <2>2, ChargesTypes DEF TypeOK
    <2>4. ev \in Event /\ ev.e = "trans"
      BY <1>1, <2>3, OutcomeEvent
    <2> HIDE DEF ev
    <2>5. QED
      BY <2>1, <2>3, <2>4, AnswersNat, AnswerArrives
  <1>4. ASSUME NEW result \in {"code7", "code9", "balance", "card", "account"},
               ObuDeclines(d, result)
        PROVE  Arrives
    <2> DEFINE ev == Outcome("trans", result, none)
    <2>1. /\ Quiet(lane, lane') /\ Answers(ev)
          /\ UNCHANGED <<car, passing, purse, taken, reported, visits>>
      BY <1>4, DebitGone DEF ObuDeclines, TypeOK, none
    <2>2. ev \in Event /\ ev.e = "trans"
      <3>1. purse' \in [Cards -> 0..MaxPurse]
        BY <2>1 DEF TypeOK
      <3>2. none \in Charge /\ result \in Results
        BY <1>1 DEF Results
      <3> HIDE DEF none
      <3>3. QED
        BY <3>1, <3>2, OutcomeEvent, ZenonT(60)
    <2> HIDE DEF ev
    <2>3. QED
      BY <2>1, <2>2, AnsweredArrives
  <1>5. QED
    BY <1>2, <1>3, <1>4

LEMMA ObuWaits ==
  ASSUME TypeOK, NEW d \in Commanded(lane, "EEP")
  PROVE  /\ ObuAcknowledges(d) => Arrives
         /\ ObuDebitTimesOut(d) => Arrives
         /\ ObuDebitFails(d) => Arrives
  <1>1. d \in Debit /\ lane \in Lane
    BY CommandedDebit DEF TypeOK
  <1>2. ASSUME ObuAcknowledges(d)
        PROVE  Arrives
    <2> DEFINE ev == [e |-> "deductAck", serial |-> d.serial]
    <2>1. ev \in Event /\ ev.e = "deductAck"
      BY <1>1 DEF Event, Debit
    <2>2. Answers(ev) /\ UNCHANGED <<lane, car, passing, purse, taken, reported, visits>>
      BY <1>2 DEF ObuAcknowledges
    <2> HIDE DEF ev
    <2>3. QED
      BY <1>1, <2>1, <2>2, QuietRefl, AnsweredArrives
  <1>3. ASSUME ObuDebitTimesOut(d)
        PROVE  Arrives
    <2> DEFINE waited == [d EXCEPT !.waited = TRUE]
               ev == [e |-> "deductTimeout"]
    <2>1. waited \in Debit
      BY <1>1 DEF Debit
    <2>2. /\ lane' = [lane EXCEPT !.debits = (@ \ {d}) \cup {waited}]
          /\ Answers(ev) /\ UNCHANGED <<car, passing, purse, taken, reported, visits>>
      BY <1>3 DEF ObuDebitTimesOut
    <2>3. ev \in Event /\ ev.e = "deductTimeout"
      BY SignalEvent DEF Signals
    <2> HIDE DEF waited, ev
    <2>4. Quiet(lane, lane')
      BY <1>1, <2>1, <2>2 DEF Quiet, Lane
    <2>5. QED
      BY <2>2, <2>3, <2>4, AnsweredArrives
  <1>4. ASSUME ObuDebitFails(d)
        PROVE  Arrives
    BY <1>1, <1>4, DebitGone DEF ObuDebitFails, Arrives, TypeOK
  <1>5. QED
    BY <1>2, <1>3, <1>4

LEMMA TransactionArrives ==
  ASSUME TypeOK, TransactionAnswers
  PROVE  Arrives
  <1>1. PICK t \in taken : Post(Outcome("trans", "done", t))
    BY DEF TransactionAnswers
  <1> DEFINE ev == Outcome("trans", "done", t)
  <1>2. UNCHANGED <<car, passing, purse, taken, reported, visits, answers>>
    BY DEF TransactionAnswers
  <1>3. purse' \in [Cards -> 0..MaxPurse] /\ taken' \subseteq Charge /\ answers' \in Nat
    BY <1>2 DEF TypeOK
  <1>4. t \in Charge /\ "done" \in Results
    BY DEF TypeOK, Results
  <1>5. ev \in Event /\ ev.e = "trans"
    BY <1>3, <1>4, OutcomeEvent
  <1>6. Quiet(lane, lane')
    <2>1. \A n \in Serial : lane \in Lane => Quiet(lane, [lane EXCEPT !.wanted = n])
      BY DEF Quiet, Lane
    <2>2. QED
      BY <2>1, Zeroes DEF TransactionAnswers, TypeOK
  <1> HIDE DEF ev
  <1>7. QED
    BY <1>1, <1>2, <1>3, <1>5, <1>6, AnswerArrives DEF ev

LEMMA ObuStep ==
  ASSUME TypeOK, ObuActs
  PROVE  Arrives
  BY ObuTalks, ObuPays, ObuWaits, TransactionArrives DEF ObuActs

LEMMA ReadersSay ==
  ASSUME TypeOK
  PROVE  /\ \A c \in TapCards : CardAtLCSC(c) \/ CardAtUPOS(c) => Arrives
         /\ \A how \in {"detectTimeout", "invalidCard"} : NoCardAtUPOS(how) => Arrives
         /\ \A how \in {"flushed", "lcscFailed"} : LCSCFlushes(how) => Arrives
  <1>0. lane \in Lane /\ purse \in [Cards -> 0..MaxPurse]
    BY DEF TypeOK
  <1>1. ASSUME NEW c \in TapCards, CardAtLCSC(c) \/ CardAtUPOS(c)
        PROVE  Arrives
    <2>1. Quiet(lane, lane')
      BY <1>0, <1>1, AskedQuiet DEF CardAtLCSC, CardAtUPOS
    <2>2. PICK what \in {"lcscRead", "detected"} : Answers(Says(what, c))
      BY <1>1 DEF CardAtLCSC, CardAtUPOS
    <2>3. UNCHANGED <<car, passing, purse, taken, reported, visits>>
      BY <1>1 DEF CardAtLCSC, CardAtUPOS
    <2>4. Says(what, c) \in Event /\ Says(what, c).e = what
      BY <1>0, CardEvent
    <2>5. QED
      BY <2>1, <2>2, <2>3, <2>4, AnsweredArrives
  <1>2. ASSUME NEW how \in {"detectTimeout", "invalidCard", "flushed", "lcscFailed"},
               NoCardAtUPOS(how) \/ LCSCFlushes(how)
        PROVE  Arrives
    <2> DEFINE ev == [e |-> how]
    <2>1. Quiet(lane, lane')
      BY <1>0, <1>2, AskedQuiet DEF NoCardAtUPOS, LCSCFlushes
    <2>2. Answers(ev) /\ UNCHANGED <<car, passing, purse, taken, reported, visits>>
      BY <1>2 DEF NoCardAtUPOS, LCSCFlushes
    <2>3. ev \in Event /\ ev.e = how
      BY SignalEvent DEF Signals
    <2> HIDE DEF ev
    <2>4. QED
      BY <2>1, <2>2, <2>3, AnsweredArrives
  <1>3. QED
    BY <1>1, <1>2

\* A reader's debit goes through: the card is charged and the station is told.
LEMMA ReaderPays ==
  ASSUME TypeOK, NEW dev \in Readers, NEW d \in Commanded(lane, dev), NEW c \in TapCards
  PROVE  LCSCDebits(d, c) \/ UPOSDebits(d, c) => Arrives
  <1> SUFFICES ASSUME LCSCDebits(d, c) \/ UPOSDebits(d, c)
               PROVE  Arrives
    OBVIOUS
  <1> DEFINE t == Takes(d, c)
             gone == [lane EXCEPT !.debits = @ \ {d}]
             flush == [lane EXCEPT !.debits = @ \ {d}, !.asked = @ \cup {"flush"}]
  <1>1. lane \in Lane /\ t \in Charge
    <2>1. d \in Debit
      BY CommandedDebit
    <2>2. QED
      BY <2>1, TakesCharge DEF TypeOK, Cards
  <1>2. Quiet(lane, gone) /\ Quiet(lane, flush)
    <2>1. Quiet(lane, gone)
      BY <1>1, DebitGone
    <2>2. "flush" \in {"obuInfo", "read", "flush", "detect"}
      OBVIOUS
    <2>3. Quiet(lane, flush)
      BY <1>1, <2>2 DEF Quiet, Lane
    <2>4. QED
      BY <2>1, <2>3
  <1>3. /\ lane' = gone \/ lane' = flush
        /\ Charges(t) /\ UNCHANGED <<car, passing, reported, visits>>
    BY DEF LCSCDebits, UPOSDebits
  <1>4. PICK what \in {"lcscPaid", "uposPaid"} : Answers(Outcome(what, "done", t))
    BY DEF LCSCDebits, UPOSDebits
  <1> HIDE DEF t, gone, flush
  <1>5. Quiet(lane, lane')
    BY <1>2, <1>3
  <1>6. purse' \in [Cards -> 0..MaxPurse]
    BY <1>1, <1>3, ChargesTypes DEF TypeOK
  <1>7. Outcome(what, "done", t) \in Event /\ Outcome(what, "done", t).e = what
    BY <1>1, <1>6, OutcomeEvent DEF Results
  <1>8. QED
    BY <1>1, <1>3, <1>4, <1>5, <1>7, ChargedArrives

\* It fails, and the card may have been charged.
LEMMA ReaderFails ==
  ASSUME TypeOK, NEW dev \in Readers, NEW d \in Commanded(lane, dev), NEW c \in TapCards,
         NEW charged \in BOOLEAN, NEW how \in {"lcscFailed", "lcscExpired", "uposTimeout",
                                               "uposFailed", "uposExpired", "uposFault"}
  PROVE  LCSCDebitFails(d, c, charged, how) \/ UPOSDebitFails(d, c, charged, how) => Arrives
  <1> SUFFICES ASSUME LCSCDebitFails(d, c, charged, how) \/ UPOSDebitFails(d, c, charged, how)
               PROVE  Arrives
    OBVIOUS
  <1> DEFINE t == Takes(d, c)
             ev == [e |-> how]
  <1>1. lane \in Lane /\ t \in Charge
    BY CommandedDebit, TakesCharge DEF TypeOK, Cards
  <1>2. /\ lane' = [lane EXCEPT !.debits = @ \ {d}]
        /\ Charges(t) \/ UNCHANGED <<purse, taken>>
        /\ Answers(ev) /\ UNCHANGED <<car, passing, reported, visits>>
    BY DEF LCSCDebitFails, UPOSDebitFails
  <1>3. ev \in Event /\ ev.e = how
    BY SignalEvent DEF Signals
  <1> HIDE DEF t, ev
  <1>4. Quiet(lane, lane')
    BY <1>1, <1>2, DebitGone
  <1>5. CASE Charges(t)
    BY <1>1, <1>2, <1>3, <1>4, <1>5, ChargedArrives
  <1>6. CASE UNCHANGED <<purse, taken>>
    BY <1>2, <1>3, <1>4, <1>6, AnsweredArrives
  <1>7. QED
    BY <1>2, <1>5, <1>6

LEMMA ReadersStep ==
  ASSUME TypeOK, ReadersAct
  PROVE  Arrives
  <1>1. CASE \/ \E c \in TapCards : CardAtLCSC(c) \/ CardAtUPOS(c)
             \/ \E how \in {"detectTimeout", "invalidCard"} : NoCardAtUPOS(how)
             \/ \E how \in {"flushed", "lcscFailed"} : LCSCFlushes(how)
    BY <1>1, ReadersSay
  <1>2. CASE \E d \in Commanded(lane, "LCSC"), c \in TapCards :
               \/ LCSCDebits(d, c)
               \/ \E charged \in BOOLEAN : LCSCDebitFails(d, c, charged, "lcscFailed")
               \/ LCSCDebitFails(d, c, FALSE, "lcscExpired")
    <2>1. "LCSC" \in Readers
      BY DEF Readers
    <2>2. QED
      BY <1>2, <2>1, ReaderPays, ReaderFails
  <1>3. CASE \E d \in Commanded(lane, "UPOS"), c \in TapCards :
               \/ UPOSDebits(d, c)
               \/ \E charged \in BOOLEAN, how \in {"uposTimeout", "uposFailed"} :
                    UPOSDebitFails(d, c, charged, how)
               \/ \E how \in {"uposExpired", "uposFault"} : UPOSDebitFails(d, c, FALSE, how)
    <2>1. "UPOS" \in Readers
      BY DEF Readers
    <2>2. QED
      BY <1>3, <2>1, ReaderPays, ReaderFails
  <1>4. QED
    BY <1>1, <1>2, <1>3 DEF ReadersAct

-----------------------------------------------------------------------------
(* One step of OP_IO *)

LEMMA HeadTail ==
  ASSUME queue \in Seq(Event), queue # <<>>
  PROVE  Head(queue) \in Event /\ Tail(queue) \in Seq(Event)
  OBVIOUS

LEMMA TransCharge ==
  ASSUME NEW ev \in Event, ev.e = "trans"
  PROVE  [iu |-> ev.obu, card |-> ev.card, serial |-> ev.serial, amt |-> ev.amt] \in Charge
  <1>1. ev \in DebitEvents
    BY DEF Event, Signals, ObuEvents, CardEvents
  <1>2. QED
    BY <1>1 DEF DebitEvents, Charge

LEMMA HandlerTypes ==
  ASSUME TypeOK, RunHandler
  PROVE  TypeOK'
  <1> DEFINE ev == Head(queue)
             told == [iu |-> ev.obu, card |-> ev.card, serial |-> ev.serial, amt |-> ev.amt]
  <1>1. ev \in Event /\ Tail(queue) \in Seq(Event)
    BY HeadTail DEF TypeOK, RunHandler
  <1>2. lane' \in Handled(lane, ev) /\ lane \in Lane /\ queue' = Tail(queue)
    BY DEF RunHandler, TypeOK
  <1>3. ev.e = "trans" => told \in Charge
    BY <1>1, TransCharge
  <1>4. reported' = reported \/ (ev.e = "trans" /\ reported' = reported \cup {told})
    BY DEF RunHandler
  <1> HIDE DEF ev, told
  <1>5. lane' \in Lane
    BY <1>1, <1>2, HandledHandles DEF Handles
  <1>6. QED
    BY <1>1, <1>2, <1>3, <1>4, <1>5 DEF TypeOK, RunHandler

-----------------------------------------------------------------------------
(* The vehicles, the barrier and time *)

\* What a step that runs no handler leaves of the lane and of the history.
Outside ==
  /\ lane' \in Lane /\ lane'.serials = lane.serials /\ lane'.ledger = lane.ledger
  /\ lane'.tailgate = lane.tailgate /\ lane'.opened = lane.opened
  /\ reported' = reported

LEMMA SameLane ==
  ASSUME lane \in Lane, UNCHANGED <<lane, reported>>
  PROVE  Outside
  BY DEF Outside

LEMMA PostSeq ==
  ASSUME queue \in Seq(Event), NEW ev \in Event, Post(ev)
  PROVE  queue' \in Seq(Event)
  BY DEF Post

LEMMA LoopEvent ==
  /\ [e |-> "A_ON"] \in Event /\ [e |-> "A_OFF"] \in Event /\ [e |-> "C_OFF"] \in Event
  /\ [e |-> "tick"] \in Event /\ [e |-> "up"] \in Event
  BY SignalEvent DEF Signals

LEMMA CarsType ==
  ASSUME TypeOK
  PROVE  /\ \A obu \in Obus : CarComes(obu) => TypeOK' /\ Outside
         /\ \A onwards \in BOOLEAN : CarLeaves(onwards) => TypeOK' /\ Outside
         /\ CarClearsLoopC => TypeOK' /\ Outside
  <1>1. ASSUME NEW obu \in Obus, CarComes(obu)
        PROVE  TypeOK' /\ Outside
    <2>1. queue' \in Seq(Event) /\ Outside
      BY <1>1, PostSeq, LoopEvent, SameLane DEF CarComes, TypeOK
    <2>2. visits' \in Nat
      <3>1. visits \in Nat /\ visits' = visits + 1
        BY <1>1 DEF CarComes, TypeOK
      <3>2. QED
        BY <3>1
    <2>3. QED
      BY <1>1, <2>1, <2>2 DEF CarComes, TypeOK
  <1>2. ASSUME NEW onwards \in BOOLEAN, CarLeaves(onwards)
        PROVE  TypeOK' /\ Outside
    <2>1. queue' \in Seq(Event) /\ Outside
      BY <1>2, PostSeq, LoopEvent, SameLane DEF CarLeaves, TypeOK
    <2>2. passing' \in BOOLEAN /\ car' \in Obus \cup {""}
      BY <1>2 DEF CarLeaves, TypeOK
    <2>3. QED
      BY <1>2, <2>1, <2>2 DEF CarLeaves, TypeOK
  <1>3. ASSUME CarClearsLoopC
        PROVE  TypeOK' /\ Outside
    <2>1. queue' \in Seq(Event) /\ Outside
      BY <1>3, PostSeq, LoopEvent, SameLane DEF CarClearsLoopC, TypeOK
    <2>2. QED
      BY <1>3, <2>1 DEF CarClearsLoopC, TypeOK
  <1>4. QED
    BY <1>1, <1>2, <1>3

LEMMA TimeType ==
  ASSUME TypeOK
  PROVE  /\ TimerExpires => TypeOK' /\ Outside
         /\ TimePasses => TypeOK' /\ Outside
         /\ BarrierGoesUp => TypeOK' /\ Outside
  <1>0. lane \in Lane
    BY DEF TypeOK
  <1>1. ASSUME TimerExpires
        PROVE  TypeOK' /\ Outside
    <2>1. queue' \in Seq(Event)
      BY <1>1, PostSeq, LoopEvent DEF TimerExpires, TypeOK
    <2>2. Outside
      BY <1>0, <1>1, ZenonT(60) DEF TimerExpires, Outside, Lane
    <2>3. QED
      BY <1>1, <2>1, <2>2 DEF TimerExpires, TypeOK, Outside
  <1>2. ASSUME TimePasses
        PROVE  TypeOK' /\ Outside
    <2>1. Outside
      BY <1>0, <1>2 DEF TimePasses, Outside, Lane
    <2>2. QED
      BY <1>2, <2>1 DEF TimePasses, TypeOK, Outside
  <1>3. ASSUME BarrierGoesUp
        PROVE  TypeOK' /\ Outside
    <2>1. answers' \in Nat /\ Post([e |-> "up"])
      BY <1>3, AnswersNat DEF BarrierGoesUp
    <2>2. queue' \in Seq(Event) /\ Outside
      BY <1>0, <1>3, <2>1, PostSeq, LoopEvent, SameLane DEF BarrierGoesUp, TypeOK
    <2>3. QED
      BY <1>3, <2>1, <2>2 DEF BarrierGoesUp, TypeOK
  <1>4. QED
    BY <1>1, <1>2, <1>3

LEMMA ArrivesType ==
  ASSUME TypeOK, Arrives
  PROVE  TypeOK' /\ Outside
  <1>1. queue' \in Seq(Event)
    <2>1. queue \in Seq(Event)
      BY DEF TypeOK
    <2>2. queue' = queue \/ \E ev \in Event : queue' = Append(queue, ev)
      BY DEF Arrives
    <2>3. QED
      BY <2>1, <2>2
  <1>2. lane' \in Lane /\ Outside
    BY DEF Arrives, Quiet, Outside
  <1>3. QED
    BY <1>1, <1>2 DEF Arrives, TypeOK

\* A step is a handler's, or leaves debits and rows as they are.
LEMMA Steps ==
  ASSUME TypeOK, [Next]_vars
  PROVE  TypeOK' /\ (RunHandler \/ Outside)
  <1>1. CASE RunHandler
    BY <1>1, HandlerTypes
  <1>2. CASE LaneMoves
    BY <1>2, CarsType, TimeType DEF LaneMoves
  <1>3. CASE ObuActs \/ ReadersAct
    BY <1>3, ObuStep, ReadersStep, ArrivesType
  <1>4. CASE UNCHANGED vars
    BY <1>4, SameLane DEF vars, TypeOK
  <1>5. QED
    BY <1>1, <1>2, <1>3, <1>4 DEF Next

LEMMA InitTypes == Init => TypeOK /\ lane.ledger = {} /\ lane.tailgate = ""
  <1> SUFFICES ASSUME Init
               PROVE  TypeOK /\ lane.ledger = {} /\ lane.tailgate = ""
    OBVIOUS
  <1> DEFINE z == 0
             one == 1
             off == FALSE
             none == ""
             init == "init"
             idle == "Disable"
             no == {}
  <1>1. /\ z \in Fee /\ one \in CardStatus /\ z \in Balance /\ z \in Serial /\ z \in Nat
        /\ off \in BOOLEAN /\ none \in Ids /\ none \in Tailgater /\ init \in DeductionStatus
    BY Zeroes, ZeroBalance
  <1>2. /\ idle \in {"Enable", "Disable", "ReadCardTimeout"}
        /\ no \in SUBSET {"obuInfo", "read", "flush", "detect"}
        /\ no \in SUBSET Debit /\ no \in SUBSET Row
    OBVIOUS
  <1>3. lane \in Lane /\ lane.ledger = {} /\ lane.tailgate = ""
    <2>1. lane = [timer |-> off, overdue |-> off, iu |-> none, card |-> none, fee |-> z,
                  paid |-> z, status |-> init, gbPaid |-> off, saved |-> off,
                  cardStatus |-> one, backend |-> off, business |-> off, reader |-> off,
                  opened |-> off, inq |-> off, tailgate |-> none, serial |-> z,
                  result5 |-> off, upos |-> idle, lastPaid |-> none, lastOk |-> off,
                  lastCard |-> none, lastBal |-> z, asked |-> no, wanted |-> z,
                  debits |-> no, serials |-> z, ledger |-> no]
      BY DEF Init
    <2> HIDE DEF z, one, off, none, init, idle, no
    <2>2. lane \in Lane
      BY <1>1, <1>2, <2>1 DEF Lane
    <2>3. lane.ledger = no /\ lane.tailgate = none
      BY <2>1
    <2>4. QED
      BY <2>2, <2>3 DEF no, none
  <1>4. purse \in [Cards -> 0..MaxPurse]
    <2>1. MaxPurse \in 0..MaxPurse
      <3>1. MaxPurse \in Nat
        BY ExitAssumption
      <3>2. QED
        BY <3>1
    <2>2. purse = [c \in Cards |-> MaxPurse]
      BY DEF Init
    <2>3. QED
      BY <2>1, <2>2
  <1>5. queue = <<>> /\ car = "" /\ passing = FALSE /\ taken = {} /\ reported = {}
    BY DEF Init
  <1>6. queue \in Seq(Event)
    <2>1. queue = <<>>
      BY <1>5
    <2>2. QED
      BY <2>1
  <1>7. visits \in Nat /\ answers \in Nat
    <2>1. visits = 0 /\ answers = 0
      BY DEF Init
    <2>2. QED
      BY <2>1
  <1>8. QED
    BY <1>3, <1>4, <1>5, <1>6, <1>7 DEF TypeOK

\* Whatever the vehicles, units, readers and people do, the station's variables stay of
\* their types: in particular every event OP_IO takes from its queue is one it knows,
\* and no purse is overdrawn.
THEOREM TypeCorrect == Spec => []TypeOK
<1>1. Init => TypeOK
  BY InitTypes
<1>2. TypeOK /\ [Next]_vars => TypeOK'
  BY Steps
<1> QED
  BY <1>1, <1>2, PTL DEF Spec

-----------------------------------------------------------------------------
(* Rows and debits *)

LEMMA RowsStep ==
  ASSUME TypeOK, ObuPaidRowsAreReal, [Next]_vars
  PROVE  ObuPaidRowsAreReal'
  <1>1. CASE Outside
    BY <1>1 DEF Outside, ObuPaidRowsAreReal
  <1>2. CASE RunHandler
    <2> DEFINE ev == Head(queue)
               told == [iu |-> ev.obu, card |-> ev.card, serial |-> ev.serial, amt |-> ev.amt]
    <2>1. ev \in Event /\ lane \in Lane /\ lane' \in Handled(lane, ev)
      BY <1>2, HeadTail DEF TypeOK, RunHandler
    <2>2. reported \subseteq reported' /\ (ev.e = "trans" /\ ev.result = "done" => told \in reported')
      BY <1>2 DEF RunHandler
    <2>3. told.iu = ev.obu /\ told.serial = ev.serial
      OBVIOUS
    <2> HIDE DEF ev, told
    <2>4. \A e \in lane'.ledger : e.obuPaid =>
            \/ e \in lane.ledger
            \/ ev.e = "trans" /\ ev.result = "done" /\ e.iu = ev.obu /\ e.serial = ev.serial
      BY <2>1, HandledHandles DEF Handles
    <2>5. QED
      BY <2>2, <2>3, <2>4 DEF ObuPaidRowsAreReal
  <1>3. QED
    BY <1>1, <1>2, Steps

\* A row that books an on-board unit's payment was written by the handler of that very
\* report: the handlers of every other event, those of readers, time-outs and loops
\* included, write rows of their own kind only.
THEOREM ObuRowsAreReported == Spec => []ObuPaidRowsAreReal
<1>1. Init => TypeOK /\ ObuPaidRowsAreReal
  BY InitTypes DEF ObuPaidRowsAreReal
<1>2. TypeOK /\ ObuPaidRowsAreReal /\ [Next]_vars => (TypeOK /\ ObuPaidRowsAreReal)'
  BY Steps, RowsStep
<1> QED
  BY <1>1, <1>2, PTL DEF Spec

LEMMA DebitStep ==
  ASSUME TypeOK, [Next]_vars
  PROVE  [lane'.serials # lane.serials => ~lane.gbPaid /\ lane.status # "Doingdeduction"]_vars
  <1>1. CASE Outside
    BY <1>1 DEF Outside
  <1>2. CASE RunHandler
    <2> DEFINE ev == Head(queue)
    <2>1. ev \in Event /\ lane \in Lane /\ lane' \in Handled(lane, ev)
      BY <1>2, HeadTail DEF TypeOK, RunHandler
    <2> HIDE DEF ev
    <2>2. QED
      BY <2>1, HandledHandles DEF Handles
  <1>3. QED
    BY <1>1, <1>2, Steps

\* However the answers of the on-board unit, the card readers and their time-outs are
\* interleaved, a debit is commanded only for a visit that is not paid and has no other
\* debit under way.
THEOREM OneDebitAtATime == Spec => NoSecondDebit
<1>1. Init => TypeOK
  BY InitTypes
<1>2. TypeOK /\ [Next]_vars => TypeOK'
  BY Steps
<1>3. TypeOK /\ [Next]_vars =>
        [lane'.serials # lane.serials => ~lane.gbPaid /\ lane.status # "Doingdeduction"]_vars
  BY DebitStep
<1> QED
  BY <1>1, <1>2, <1>3, PTL DEF Spec, NoSecondDebit

-----------------------------------------------------------------------------
(* The loop A timer *)

Holds(q, what) == \E i \in DOMAIN q : q[i].e = what

\* No unit is reported that was not asked for.
OnlyAsked(q) == \A i \in DOMAIN q : q[i].e # "obuUnasked"

\* What a vehicle left behind in the queue is followed by the arrival of the next.
Followed(q) ==
  \A i \in DOMAIN q : q[i].e = "A_OFF" => \E j \in DOMAIN q : i < j /\ q[j].e = "A_ON"

LEMMA AppendHolds ==
  ASSUME NEW q \in Seq(Event), NEW ev \in Event
  PROVE  /\ \A what : Holds(Append(q, ev), what) <=> Holds(q, what) \/ ev.e = what
         /\ OnlyAsked(q) /\ ev.e # "obuUnasked" => OnlyAsked(Append(q, ev))
         /\ Followed(q) /\ ev.e # "A_OFF" => Followed(Append(q, ev))
         /\ ev.e = "A_ON" => Followed(Append(q, ev))
  <1> DEFINE r == Append(q, ev)
             n == Len(q)
  <1>1. /\ n \in Nat /\ DOMAIN q = 1..n /\ DOMAIN r = 1..(n + 1)
        /\ r[n + 1] = ev /\ \A i \in 1..n : r[i] = q[i]
    OBVIOUS
  <1> HIDE DEF r, n
  <1>2. DOMAIN r = (DOMAIN q) \cup {n + 1} /\ \A i \in DOMAIN q : i < n + 1
    BY <1>1
  <1>3. r[n + 1] = ev /\ \A i \in DOMAIN q : r[i] = q[i]
    BY <1>1
  <1>4. \A what : Holds(r, what) <=> Holds(q, what) \/ ev.e = what
    BY <1>2, <1>3 DEF Holds
  <1>5. OnlyAsked(q) /\ ev.e # "obuUnasked" => OnlyAsked(r)
    BY <1>2, <1>3 DEF OnlyAsked
  <1>6. Followed(q) /\ ev.e # "A_OFF" => Followed(r)
    BY <1>2, <1>3 DEF Followed
  <1>7. ev.e = "A_ON" => Followed(r)
    BY <1>2, <1>3 DEF Followed
  <1>8. QED
    BY <1>4, <1>5, <1>6, <1>7 DEF r

LEMMA TailHolds ==
  ASSUME NEW q \in Seq(Event), q # <<>>
  PROVE  /\ \A what : Holds(q, what) <=> Head(q).e = what \/ Holds(Tail(q), what)
         /\ OnlyAsked(q) => Head(q).e # "obuUnasked" /\ OnlyAsked(Tail(q))
         /\ Followed(q) => /\ Followed(Tail(q))
                           /\ Head(q).e = "A_OFF" => Holds(Tail(q), "A_ON")
  <1> DEFINE r == Tail(q)
             n == Len(r)
  <1>1. /\ n \in Nat /\ DOMAIN r = 1..n /\ DOMAIN q = 1..(n + 1)
        /\ q[1] = Head(q) /\ \A i \in 1..n : r[i] = q[i + 1]
    OBVIOUS
  <1> HIDE DEF r, n
  <1>2. \A i \in DOMAIN q : i = 1 \/ (i - 1 \in DOMAIN r /\ q[i] = r[i - 1])
    BY <1>1
  <1>3. \A i \in DOMAIN r : i \in Nat /\ i + 1 \in DOMAIN q /\ q[i + 1] = r[i] /\ 1 < i + 1
    BY <1>1
  <1>4. 1 \in DOMAIN q /\ q[1] = Head(q)
    BY <1>1
  <1>5. \A what : Holds(q, what) <=> Head(q).e = what \/ Holds(r, what)
    BY <1>2, <1>3, <1>4 DEF Holds
  <1>6. OnlyAsked(q) => Head(q).e # "obuUnasked" /\ OnlyAsked(r)
    BY <1>3, <1>4 DEF OnlyAsked
  <1>7. ASSUME Followed(q)
        PROVE  Followed(r) /\ (Head(q).e = "A_OFF" => Holds(r, "A_ON"))
    <2>1. ASSUME NEW i \in DOMAIN r, r[i].e = "A_OFF"
          PROVE  \E j \in DOMAIN r : i < j /\ r[j].e = "A_ON"
      <3>1. PICK j \in DOMAIN q : i + 1 < j /\ q[j].e = "A_ON"
        BY <1>3, <1>7, <2>1 DEF Followed
      <3>2. i \in Nat /\ j \in Nat
        BY <1>1, <1>3, <2>1
      <3>3. j # 1
        BY <3>1, <3>2
      <3>4. j - 1 \in DOMAIN r /\ r[j - 1].e = "A_ON" /\ i < j - 1
        BY <1>2, <3>1, <3>2, <3>3
      <3>5. QED
        BY <3>4
    <2>2. ASSUME Head(q).e = "A_OFF"
          PROVE  Holds(r, "A_ON")
      <3>1. PICK j \in DOMAIN q : 1 < j /\ q[j].e = "A_ON"
        BY <1>4, <1>7, <2>2 DEF Followed
      <3>2. QED
        BY <1>2, <3>1 DEF Holds
    <2>3. QED
      BY <2>1, <2>2 DEF Followed
  <1>8. QED
    BY <1>5, <1>6, <1>7 DEF r

\* The invariant behind WatchdogArmed: no tailgater is in mind, and the timer is
\* stopped only by what opens the barrier or is followed by the next arrival.
OnWatch ==
  /\ lane.tailgate = "" /\ OnlyAsked(queue)
  /\ gbLoopApresent => Followed(queue)
  /\ WatchdogArmed

LEMMA Watches ==
  WatchdogArmed <=> (gbLoopApresent /\ ~lane.opened /\ ~Holds(queue, "A_ON")
                       => lane.timer \/ Holds(queue, "tick"))
  BY DEF WatchdogArmed, Pending, Holds

LEMMA WatchesNext ==
  WatchdogArmed' <=> (gbLoopApresent' /\ ~lane'.opened /\ ~Holds(queue', "A_ON")
                        => lane'.timer \/ Holds(queue', "tick"))
  BY DEF WatchdogArmed, Pending, Holds

LEMMA HandlerWatches ==
  ASSUME TypeOK, OnWatch, RunHandler
  PROVE  OnWatch'
  <1> DEFINE ev == Head(queue)
             rest == Tail(queue)
  <1>1. /\ ev \in Event /\ lane \in Lane /\ lane' \in Handled(lane, ev)
        /\ queue \in Seq(Event) /\ queue # <<>>
    BY HeadTail DEF TypeOK, RunHandler
  <1>2. /\ \A what : Holds(queue, what) <=> ev.e = what \/ Holds(rest, what)
        /\ OnlyAsked(queue) => ev.e # "obuUnasked" /\ OnlyAsked(rest)
        /\ Followed(queue) => /\ Followed(rest)
                              /\ ev.e = "A_OFF" => Holds(rest, "A_ON")
    BY <1>1, TailHolds
  <1>3. queue' = rest /\ car' = car
    BY DEF RunHandler
  <1> HIDE DEF ev, rest
  <1>4. Handles(lane, lane', ev)
    BY <1>1, HandledHandles
  <1>5. ev.e # "obuUnasked" /\ lane.tailgate = ""
    BY <1>2 DEF OnWatch
  <1>6. lane'.tailgate = ""
    BY <1>4, <1>5 DEF Handles
  <1>7. ASSUME gbLoopApresent, ~lane'.opened, ~Holds(rest, "A_ON")
        PROVE  lane'.timer \/ Holds(rest, "tick")
    <2>1. ev.e # "A_OFF"
      BY <1>2, <1>7 DEF OnWatch
    <2>2. CASE ev.e \in {"A_ON", "tick"}
      BY <1>4, <1>7, <2>2 DEF Handles
    <2>3. CASE ev.e \notin {"A_ON", "tick"}
      <3>1. lane.timer \/ lane.opened \/ Holds(rest, "tick")
        BY <1>2, <1>7, <2>3, Watches DEF OnWatch
      <3>2. lane.timer \/ lane.opened => lane'.timer \/ lane'.opened
        BY <1>4, <1>5, <1>7, <2>1 DEF Handles, Watched
      <3>3. QED
        BY <1>7, <3>1, <3>2
    <2>4. QED
      BY <2>2, <2>3
  <1>8. WatchdogArmed'
    BY <1>3, <1>7, WatchesNext DEF gbLoopApresent
  <1>9. QED
    BY <1>2, <1>3, <1>6, <1>8 DEF OnWatch, gbLoopApresent

\* A vehicle stays, or there is none: events that are not of loop A may come.
LEMMA StayWatched ==
  ASSUME TypeOK, OnWatch, lane'.tailgate = lane.tailgate,
         lane'.opened = lane.opened, lane'.timer = lane.timer, car' = car,
         \/ queue' = queue
         \/ \E ev \in Event : /\ ev.e \notin {"A_ON", "A_OFF", "obuUnasked"}
                              /\ queue' = Append(queue, ev)
  PROVE  OnWatch'
  <1>1. CASE queue' = queue
    BY <1>1, Watches, WatchesNext DEF OnWatch, gbLoopApresent
  <1>2. CASE queue' # queue
    <2>1. PICK ev \in Event : /\ ev.e \notin {"A_ON", "A_OFF", "obuUnasked"}
                              /\ queue' = Append(queue, ev)
      BY <1>2
    <2>2. queue \in Seq(Event)
      BY DEF TypeOK
    <2>3. /\ \A what : Holds(queue', what) <=> Holds(queue, what) \/ ev.e = what
          /\ OnlyAsked(queue) => OnlyAsked(queue')
          /\ Followed(queue) => Followed(queue')
      BY <2>1, <2>2, AppendHolds
    <2>4. WatchdogArmed'
      BY <2>3, <2>1, Watches, WatchesNext DEF OnWatch, gbLoopApresent
    <2>5. QED
      BY <2>3, <2>4 DEF OnWatch, gbLoopApresent
  <1>3. QED
    BY <1>1, <1>2

LEMMA CarsWatched ==
  ASSUME TypeOK, OnWatch
  PROVE  /\ \A obu \in Obus : CarComes(obu) => OnWatch'
         /\ \A onwards \in BOOLEAN : CarLeaves(onwards) => OnWatch'
         /\ CarClearsLoopC => OnWatch'
  <1>0. queue \in Seq(Event)
    BY DEF TypeOK
  <1>1. ASSUME NEW obu \in Obus, CarComes(obu)
        PROVE  OnWatch'
    <2> DEFINE ev == [e |-> "A_ON"]
    <2>1. ev \in Event /\ ev.e = "A_ON"
      BY LoopEvent
    <2>2. queue' = Append(queue, ev) /\ lane' = lane
      BY <1>1 DEF CarComes, Post
    <2> HIDE DEF ev
    <2>3. Holds(queue', "A_ON") /\ Followed(queue') /\ (OnlyAsked(queue) => OnlyAsked(queue'))
      BY <1>0, <2>1, <2>2, AppendHolds
    <2>4. QED
      BY <2>2, <2>3, WatchesNext DEF OnWatch
  <1>2. ASSUME NEW onwards \in BOOLEAN, CarLeaves(onwards)
        PROVE  OnWatch'
    <2> DEFINE ev == [e |-> "A_OFF"]
    <2>1. ev \in Event /\ ev.e = "A_OFF"
      BY LoopEvent
    <2>2. queue' = Append(queue, ev) /\ lane' = lane /\ ~gbLoopApresent'
      BY <1>2 DEF CarLeaves, Post, gbLoopApresent
    <2> HIDE DEF ev
    <2>3. OnlyAsked(queue) => OnlyAsked(queue')
      BY <1>0, <2>1, <2>2, AppendHolds
    <2>4. QED
      BY <2>2, <2>3, WatchesNext DEF OnWatch
  <1>3. ASSUME CarClearsLoopC
        PROVE  OnWatch'
    <2> DEFINE ev == [e |-> "C_OFF"]
    <2>1. ev \in Event /\ ev.e = "C_OFF"
      BY LoopEvent
    <2>2. queue' = Append(queue, ev) /\ lane' = lane /\ car' = car
      BY <1>3 DEF CarClearsLoopC, Post
    <2> HIDE DEF ev
    <2>3. QED
      BY <2>1, <2>2, StayWatched
  <1>4. QED
    BY <1>1, <1>2, <1>3

LEMMA TimeWatched ==
  ASSUME TypeOK, OnWatch
  PROVE  /\ TimerExpires => OnWatch'
         /\ TimePasses => OnWatch'
         /\ BarrierGoesUp => OnWatch'
  <1>0. lane \in Lane /\ queue \in Seq(Event)
    BY DEF TypeOK
  <1>1. ASSUME TimerExpires
        PROVE  OnWatch'
    <2> DEFINE ev == [e |-> "tick"]
    <2>1. ev \in Event /\ ev.e = "tick"
      BY LoopEvent
    <2>2. queue' = Append(queue, ev) /\ car' = car
      BY <1>1 DEF TimerExpires, Post
    <2>3. lane'.tailgate = lane.tailgate
      BY <1>0, <1>1 DEF TimerExpires, Lane
    <2> HIDE DEF ev
    <2>4. /\ Holds(queue', "tick")
          /\ OnlyAsked(queue) => OnlyAsked(queue')
          /\ Followed(queue) => Followed(queue')
      BY <1>0, <2>1, <2>2, AppendHolds
    <2>5. QED
      BY <2>2, <2>3, <2>4, WatchesNext DEF OnWatch, gbLoopApresent
  <1>2. ASSUME TimePasses
        PROVE  OnWatch'
    <2>1. /\ lane'.tailgate = lane.tailgate /\ lane'.opened = lane.opened
          /\ lane'.timer = lane.timer
      BY <1>0, <1>2 DEF TimePasses, Lane
    <2>2. queue' = queue /\ car' = car
      BY <1>2 DEF TimePasses
    <2>3. QED
      BY <2>1, <2>2, StayWatched
  <1>3. ASSUME BarrierGoesUp
        PROVE  OnWatch'
    <2> DEFINE ev == [e |-> "up"]
    <2>1. ev \in Event /\ ev.e = "up"
      BY LoopEvent
    <2>2. queue' = Append(queue, ev) /\ lane' = lane /\ car' = car
      BY <1>3 DEF BarrierGoesUp, Answers, Post
    <2> HIDE DEF ev
    <2>3. QED
      BY <2>1, <2>2, StayWatched
  <1>4. QED
    BY <1>1, <1>2, <1>3

LEMMA WatchStep ==
  ASSUME ~Unasked, TypeOK, OnWatch, [Next]_vars
  PROVE  OnWatch'
  <1>1. CASE RunHandler
    BY <1>1, HandlerWatches
  <1>2. CASE LaneMoves
    BY <1>2, CarsWatched, TimeWatched DEF LaneMoves
  <1>3. CASE ObuActs \/ ReadersAct
    <2>1. Arrives
      BY <1>3, ObuStep, ReadersStep
    <2>2. /\ lane'.tailgate = lane.tailgate /\ lane'.opened = lane.opened
          /\ lane'.timer = lane.timer /\ car' = car
      BY <2>1 DEF Arrives, Quiet
    <2>3. \/ queue' = queue
          \/ \E ev \in Event : /\ ev.e \notin {"A_ON", "A_OFF", "obuUnasked"}
                               /\ queue' = Append(queue, ev)
      BY <2>1 DEF Arrives
    <2>4. QED
      BY <2>2, <2>3, StayWatched
  <1>4. CASE UNCHANGED vars
    BY <1>4, StayWatched DEF vars
  <1>5. QED
    BY <1>1, <1>2, <1>3, <1>4 DEF Next

\* A vehicle on loop A is never forgotten: until its barrier is open the periodic timer
\* that starts a visit over is running, or its expiry, or the loop event that starts it,
\* is in the queue.  It is proved for stations where only units that were asked are
\* reported; with unasked reports the tailgating branch of EndEEPprocess breaks it.
THEOREM VehicleIsWatched == ~Unasked => (Spec => []WatchdogArmed)
<1> SUFFICES ASSUME ~Unasked
             PROVE  Spec => []WatchdogArmed
  OBVIOUS
<1>1. Init => TypeOK /\ OnWatch
  <2> SUFFICES ASSUME Init
               PROVE  TypeOK /\ OnWatch
    OBVIOUS
  <2>1. TypeOK /\ lane.tailgate = ""
    BY InitTypes
  <2>2. queue = <<>> /\ car = ""
    BY DEF Init
  <2>3. OnlyAsked(queue) /\ ~gbLoopApresent
    <3>1. DOMAIN queue = {}
      <4>1. queue = <<>>
        BY <2>2
      <4>2. QED
        BY <4>1
    <3>2. QED
      BY <2>2, <3>1 DEF OnlyAsked, gbLoopApresent
  <2>4. QED
    BY <2>1, <2>3 DEF OnWatch, WatchdogArmed
<1>2. TypeOK /\ OnWatch /\ [Next]_vars => (TypeOK /\ OnWatch)'
  BY Steps, WatchStep
<1>3. OnWatch => WatchdogArmed
  BY DEF OnWatch
<1> QED
  BY <1>1, <1>2, <1>3, PTL DEF Spec

=============================================================================
