------------------------------ MODULE ExitStation ------------------------------
(***************************************************************************)
(* The exit lane of a station that talks to on-board units (giEPS = 3) and *)
(* has the LCSC and the UPOS card reader (operation.cpp).  The record      *)
(* `lane' is what the one thread OP_IO owns: tExit, tProcess, the loop A   *)
(* timer, and the commands it has given to the devices and not got an      *)
(* answer to.  `queue' holds the events posted to that thread.  The DIO    *)
(* thread sets gbLoopApresent before it posts the loop event, so `car' is  *)
(* read by handlers that run before the event does.  The operators named   *)
(* after functions take a lane and return the lane the call leaves behind. *)
(***************************************************************************)
EXTENDS Integers, Sequences, FiniteSets

CONSTANTS
  Obus,        \* labels of on-board units
  ObuCards,    \* stored-value cards that may sit in an on-board unit
  TapCards,    \* cards that may be shown to the LCSC or the UPOS reader
  FreeCards,   \* master and complimentary cards (db::CheckCardOK)
  Verdicts,    \* what the tariff may say of a vehicle
  Unasked,     \* may an on-board unit be reported that was not asked for?
  MaxPurse,    \* dollars on each card at the start; every fee is 1 dollar
  MaxVisits,   \* bound on arrivals at loop A
  MaxAnswers,  \* bound on answers of the devices and on openings by hand
  MaxBacklog   \* bound on the events waiting when another is posted

ASSUME ExitAssumption ==
  /\ Verdicts \subseteq {"stopped", "noEntry", "authorised", "season", "waived",
                         "free", "charged"}
  /\ Unasked \in BOOLEAN
  /\ MaxPurse \in Nat /\ MaxVisits \in Nat /\ MaxAnswers \in Nat /\ MaxBacklog \in Nat
  /\ FreeCards \subseteq TapCards
  /\ "" \notin Obus \cup ObuCards \cup TapCards

Cards   == ObuCards \cup TapCards
Ids     == Obus \cup Cards \cup {""}
Readers == {"LCSC", "UPOS"}

DeductionStatus == {"init", "WaitingCard", "Doingdeduction", "DeductionSuccessed",
                    "CardExpired", "CardFault", "InsufficientBalance"}

\* TransType, as far as a row tells how the vehicle left.
TransType == {"FreeParking", "SeasonParking", "Complimentary", "DeductionOK",
              "BalanceChange", "RejectCode7"}

\* Dollars, as much as one visit costs.
Fee == 0..1

\* cardValidity: 0 is a valid card, 1 none, 2 stands for any fault.
CardStatus == 0..2

\* The serial number of a debit, or 0; the code's wrap at 2^16 is left out.
Serial == Nat

\* The unit of a vehicle that waits behind, or none.
Tailgater == Obus \cup {""}

\* A balance in the unit it is kept in: dollars from the readers, cents from an OBU.
Balance == 0..(100 * MaxPurse)

\* A debit command given to a device.
Debit == [dev : Readers \cup {"EEP"}, iu : Ids, amt : Fee, serial : Serial, waited : BOOLEAN]

\* A row of Exit_Trans; obuPaid is EEPPaymentResult = 1 or 2.
Row == [kind : TransType, iu : Ids, card : Ids, serial : Serial, amt : Fee, obuPaid : BOOLEAN]

\* A debit that took money, and the card it took it from ("": the backend account).
Charge == [iu : Ids, card : Cards \cup {""}, serial : Serial, amt : Fee]

Signals == {"A_ON", "A_OFF", "C_OFF", "tick", "up", "noObu", "deductTimeout", "lcscExpired",
            "lcscFailed", "flushed", "detectTimeout", "invalidCard", "uposTimeout",
            "uposExpired", "uposFault", "uposFailed"}

Results == {"done", "code5", "code7", "code9", "balance", "card", "account"}

\* What a unit says of itself, what a reader says of a card, the outcome of a debit.
ObuEvents  == [e : {"obu", "obuUnasked"}, obu : Obus, card : ObuCards \cup {""},
               valid : CardStatus, backend : BOOLEAN, business : BOOLEAN, bal : Balance]
CardEvents == [e : {"lcscRead", "detected"}, card : TapCards, bal : Balance]
DebitEvents == [e : {"trans", "lcscPaid", "uposPaid"}, result : Results, obu : Ids,
                serial : Serial, card : Cards \cup {""}, amt : Fee, bal : Balance]

\* Events posted to OP_IO.
Event == [e : Signals] \cup [e : {"deductAck"}, serial : Serial]
           \cup ObuEvents \cup CardEvents \cup DebitEvents

Lane ==
  [timer : BOOLEAN,          \* pLoopATimer_ is waiting
   overdue : BOOLEAN,        \* giOperationTO has passed since the last action
   iu : Ids, card : Ids,     \* tExit.sIUNo, sCardNo
   fee : Fee, paid : Fee,  \* tExit.sFee, sPaidAmt
   status : DeductionStatus, \* tExit.giDeductionStatus
   gbPaid : BOOLEAN, saved : BOOLEAN,         \* tExit.gbPaid, tProcess.gbsavedtrans
   cardStatus : CardStatus,  \* tExit.iCardStatus
   backend : BOOLEAN, business : BOOLEAN,     \* iBackendAccount, iBFunctionStatus = 1
   reader : BOOLEAN,         \* tProcess.sEnableReader
   opened : BOOLEAN,         \* tProcess.gbBarrierOpened
   inq : BOOLEAN,            \* tProcess.fiLastEEPCmd = GET_OBU_INFO_REQ_CMD
   tailgate : Tailgater,      \* tProcess.gsTailgateOBU
   serial : Serial, result5 : BOOLEAN,           \* sDSerialNo, iEEPPaymentResult = 5
   upos : {"Enable", "Disable", "ReadCardTimeout"}, \* tProcess.gbUPOSStatus
   lastPaid : Ids, lastOk : BOOLEAN,          \* gsLastPaidTrans, gbLastPaidStatus
   lastCard : Ids, lastBal : Balance,         \* gsLastCardNo, gfLastCardBal
   asked : SUBSET {"obuInfo", "read", "flush", "detect"},
   wanted : Serial,             \* the debit FnSendTransactionReq asks about, or 0
   debits : SUBSET Debit,    \* debits commanded and not answered
   serials : Nat,            \* debits commanded so far
   ledger : SUBSET Row]      \* what the database has of this station's exits

VARIABLES
  lane,
  queue,     \* events posted to OP_IO
  car,       \* the on-board unit of the vehicle on loop A, or "": gbLoopApresent
  passing,   \* a vehicle is between loop A and the end of loop C
  purse,     \* dollars on each card
  taken,     \* debits that took money, with the card they took it from (history)
  reported,  \* taken debits the station was told of by an on-board unit (history)
  visits, answers

vars == <<lane, queue, car, passing, purse, taken, reported, visits, answers>>

gbLoopApresent == car # ""

-----------------------------------------------------------------------------
(* The readers and the barrier *)

setLastAction(l) == [l EXCEPT !.overdue = FALSE]

EnableLCSC(l, on) ==
  [l EXCEPT !.asked = IF on THEN @ \cup {"read"} ELSE @ \ {"read"}]

Commanded(l, dev) == {d \in l.debits : d.dev = dev}

\* FnUptSendDeviceCancelCommandRequest withdraws whatever the terminal does.
CancelUPOS(l) ==
  [l EXCEPT !.asked = l.asked \ {"detect"}, !.debits = l.debits \ Commanded(l, "UPOS"),
            !.upos = "Disable"]

EnableUPOS(l, on) ==
  IF on THEN IF l.upos = "Enable" THEN l
             ELSE [l EXCEPT !.asked = @ \cup {"detect"}, !.upos = "Enable"]
  ELSE IF l.upos = "Disable" THEN l ELSE CancelUPOS(l)

\* With the bar code reader left out, and no vehicle registered under its plate.
EnableCashcard(l, on) ==
  IF on = l.reader THEN l
  ELSE EnableUPOS(EnableLCSC([l EXCEPT !.reader = on], on), on)

\* EEPInq without its delay: the on-board unit is asked, unless one is being asked
\* or charged already.
EEPInq(l) ==
  IF ~gbLoopApresent \/ l.status = "Doingdeduction" \/ l.inq THEN l
  ELSE [l EXCEPT !.inq = TRUE, !.asked = @ \cup {"obuInfo"}]

\* EEPInq(1), (2) and (3): a card that comes during the delay takes its place.
EEPInqs(l) == {l, EEPInq(l)}

\* FnSendCPOInfoDisplayReq and what it does to fiLastEEPCmd.
SendMsg2OBU(l) == [l EXCEPT !.inq = FALSE]

\* Clearme leaves the commands given, the last payment and the tailgater.
Clearme(l) ==
  [l EXCEPT !.saved = FALSE, !.reader = FALSE, !.opened = FALSE, !.inq = FALSE,
            !.iu = "", !.card = "", !.fee = 0, !.paid = 0, !.status = "init",
            !.gbPaid = FALSE, !.cardStatus = 1, !.backend = FALSE, !.business = FALSE,
            !.serial = 0, !.result5 = FALSE]

\* The vehicle is told, and the next one, if its unit was heard, takes over.
EndEEPprocess(l) ==
  LET done == [l EXCEPT !.inq = FALSE]
  IN IF l.tailgate = "" THEN done ELSE EEPInq(Clearme(done))

Openbarrier(l) == EndEEPprocess([l EXCEPT !.timer = FALSE, !.opened = TRUE])

\* Variant: the loop A timer is not started.
LoopAComeUntimed(l) ==
  EEPInq([Clearme(setLastAction(l)) EXCEPT !.tailgate = ""])

LoopACome(l) ==
  EEPInq([Clearme(setLastAction([l EXCEPT !.timer = TRUE])) EXCEPT !.tailgate = ""])

\* With neither EZPay nor AXS; the running inquiry is told to stop.
LoopAGone(l) ==
  [EnableCashcard([l EXCEPT !.timer = FALSE], FALSE) EXCEPT !.asked = @ \ {"obuInfo"}]

LoopCGone(l) ==
  IF ~l.saved /\ gbLoopApresent THEN l
  ELSE IF gbLoopApresent THEN LoopACome(Clearme(l)) ELSE Clearme(l)

-----------------------------------------------------------------------------
(* Closing a visit *)

\* SaveExit without rebates: the fee is what the row says was paid.  One of the two
\* databases takes the row.
SaveExit(l, kind, obuPaid) ==
  IF l.iu = "" THEN l
  ELSE [l EXCEPT !.paid = l.fee,
                 !.ledger = @ \cup {[kind |-> kind, iu |-> l.iu, card |-> l.card,
                                     serial |-> l.serial, amt |-> l.fee, obuPaid |-> obuPaid]},
                 !.lastPaid = l.iu, !.saved = TRUE, !.gbPaid = TRUE,
                 !.lastCard = IF l.fee = 0 THEN l.card ELSE @,
                 !.lastOk = IF l.fee = 0 THEN TRUE ELSE @]

CloseExitOperation(l, kind, obuPaid) == Openbarrier(SaveExit(l, kind, obuPaid))

\* DebitOK with the balance left on the card.
DebitOK(l, can, bal, dev) ==
  CloseExitOperation([l EXCEPT !.gbPaid = TRUE, !.card = can, !.status = "DeductionSuccessed",
                               !.lastPaid = l.iu, !.lastOk = TRUE,
                               !.lastCard = can, !.lastBal = bal], "DeductionOK", dev = "EEP")

-----------------------------------------------------------------------------
(* Charging *)

\* A debit for the vehicle in the lane is given to a device.
Command(l, dev) ==
  [l EXCEPT !.serials = @ + 1,
            !.debits = @ \cup {[dev |-> dev, iu |-> l.iu, amt |-> l.paid,
                                serial |-> l.serials + 1, waited |-> FALSE]}]

\* Variant: a debit under way does not stop the next.
debitfromReaderAgain(l, no, bal, dev) ==
  LET doing == [l EXCEPT !.status = "Doingdeduction", !.lastOk = FALSE,
                         !.lastCard = no, !.lastBal = bal, !.card = no]
  IN IF dev = "UPOS" THEN EnableLCSC([Command(doing, "UPOS") EXCEPT !.upos = "Enable"], FALSE)
     ELSE Command(CancelUPOS(doing), "LCSC")

\* debitfromReader; `no' is the number its callers pass for a card.
debitfromReader(l, no, bal, dev) ==
  IF l.status = "Doingdeduction" THEN l
  ELSE LET doing == [l EXCEPT !.status = "Doingdeduction", !.lastOk = FALSE,
                              !.lastCard = no, !.lastBal = bal, !.card = no]
       IN IF dev = "UPOS"
          THEN EnableLCSC([Command(doing, "UPOS") EXCEPT !.upos = "Enable"], FALSE)
          ELSE Command(CancelUPOS(doing), "LCSC")

EEPDebit(l) ==
  IF ~gbLoopApresent \/ l.status = "Doingdeduction" THEN l
  ELSE Command([EnableCashcard(l, FALSE) EXCEPT !.status = "Doingdeduction",
                                               !.lastOk = FALSE, !.inq = FALSE], "EEP")

\* Variant: the balance is taken to a hundredth the wrong way.
RememberHundredfold(l, can, bal) ==
  IF can = "" THEN l ELSE [l EXCEPT !.lastCard = can, !.lastBal = 100 * bal]

\* gsLastCardNo and gfLastCardBal for a card in an on-board unit.
Remember(l, can, bal) ==
  IF can = "" THEN l ELSE [l EXCEPT !.lastCard = can, !.lastBal = bal]

\* What PBSExit and CheckIUorCardStatus do with a fee and an on-board unit; only the
\* latter turns the readers on while it waits for a card (`andReaders').
ChargeOBU(l, can, bal, andReaders) ==
  IF l.business /\ (l.backend \/ (l.card # "" /\ l.cardStatus = 0))
  THEN {EEPDebit(Remember(l, can, bal))}
  ELSE LET waits == [l EXCEPT !.status = "WaitingCard"]
       IN IF ~l.business THEN {EnableCashcard(waits, TRUE)}
          ELSE IF andReaders THEN EEPInqs(EnableCashcard(waits, TRUE)) ELSE EEPInqs(waits)

\* PBSExit once the vehicle has its number and the databases and the tariff gave
\* their verdict.
Judged(l, verdict, dev, can, bal) ==
  CASE verdict = "stopped"    -> {l}
    [] verdict = "noEntry"    -> {SendMsg2OBU(l)}
    [] verdict = "authorised" -> {CloseExitOperation(l, "FreeParking", FALSE)}
    [] verdict = "season"     -> {CloseExitOperation([l EXCEPT !.fee = 0, !.paid = 0],
                                                     "SeasonParking", FALSE)}
    [] verdict = "waived"     -> {CloseExitOperation([l EXCEPT !.fee = 1], "Complimentary", FALSE)}
    [] verdict = "free"       -> {CloseExitOperation(SendMsg2OBU([l EXCEPT !.fee = 0, !.paid = 0]),
                                                     "FreeParking", FALSE)}
    [] verdict = "charged"    ->
         LET due == SendMsg2OBU([l EXCEPT !.fee = 1, !.paid = 1])
         IN IF dev = "EEP" THEN ChargeOBU(due, can, bal, FALSE)
            ELSE IF bal >= 1 THEN {debitfromReader(due, due.iu, bal, dev)}
            ELSE {EnableCashcard([due EXCEPT !.status = "WaitingCard"], TRUE)}

PBSExit(l, no, dev, can, bal) ==
  IF no = l.iu THEN {l}
  ELSE UNION {Judged([l EXCEPT !.iu = no], v, dev, can, bal) : v \in Verdicts}

\* CheckIUorCardStatus while a card is waited for.
TryCard(l, dev, can, bal) ==
  IF l.cardStatus # 0
  THEN IF dev = "EEP" THEN EEPInqs(EnableCashcard(l, TRUE)) ELSE {EnableCashcard(l, TRUE)}
  ELSE IF can \in FreeCards
  THEN {CloseExitOperation([l EXCEPT !.card = can, !.paid = 0], "FreeParking", FALSE)}
  ELSE IF can = ""
  THEN IF dev = "EEP" THEN EEPInqs(EnableCashcard(l, TRUE)) ELSE {EnableCashcard(l, TRUE)}
  ELSE IF dev = "EEP"
  THEN {EEPDebit([Remember(l, can, bal) EXCEPT !.card = can])}
  ELSE IF l.paid <= bal
  THEN {debitfromReader(l, l.iu, bal, dev)}
  ELSE {EnableCashcard(l, TRUE)}

\* CheckIUorCardStatus for a vehicle that is not known to be paid or waiting; a number
\* that left less than giMaxTransInterval ago is not judged again.
Recognise(l, no, dev, can, bal) ==
  PBSExit(l, no, dev, can, bal)
    \cup IF no # l.lastPaid THEN {}
         ELSE IF l.lastOk THEN {Openbarrier(EnableCashcard(l, FALSE))}
         ELSE IF l.paid = 0 THEN {}
         ELSE IF dev = "EEP" THEN ChargeOBU(l, can, bal, TRUE)
         ELSE {debitfromReader(l, l.iu, bal, dev)}

\* The card in the lane was debited although the debit was not reported: its balance
\* is another than the one the debit was commanded on.
BalanceChanged(l, can, bal) ==
  can # "" /\ bal # l.lastBal /\ can = l.lastCard /\ ~l.lastOk

Faulty == {"CardExpired", "CardFault", "InsufficientBalance"}

CheckIUorCardStatus(l0, no, dev, can, bal) ==
  LET l == IF l0.status \in Faulty THEN [l0 EXCEPT !.status = "WaitingCard"] ELSE l0
      seen == EnableCashcard([l EXCEPT !.lastBal = bal], FALSE)
  IN IF l0.status \in Faulty /\ l0.lastCard = no
     THEN EEPInqs(EnableCashcard(l0, TRUE))
     ELSE IF l.gbPaid THEN {Openbarrier(EnableCashcard(l, FALSE))}
     ELSE IF BalanceChanged(l, can, bal)
     THEN {IF l.paid = 0 THEN Openbarrier(seen) ELSE CloseExitOperation(seen, "BalanceChange", FALSE)}
     ELSE IF l.status = "WaitingCard" THEN TryCard(l, dev, can, bal)
     ELSE Recognise(l, no, dev, can, bal)

-----------------------------------------------------------------------------
(* What an on-board unit sends *)

\* ProcessOUBInformation.
ProcessOUBInformation(l, ev) ==
  IF l.status = "Doingdeduction" THEN {l}
  ELSE LET known == [l EXCEPT !.tailgate = IF @ = ev.obu THEN "" ELSE @,
                              !.backend = ev.backend, !.business = ev.business,
                              !.card = ev.card, !.cardStatus = ev.valid]
       IN IF l.result5 /\ l.serial # 0 THEN {[known EXCEPT !.wanted = l.serial]}
          ELSE CheckIUorCardStatus(known, ev.obu, "EEP", ev.card, ev.bal)

\* The answer to GET_OBU_INFO_REQ.
ObuAnswered(l, ev) ==
  LET off == [EnableCashcard(l, FALSE) EXCEPT !.inq = FALSE]
  IN IF gbLoopApresent THEN ProcessOUBInformation(off, ev) ELSE {off}

\* An OBU_INFORMATION_NOTIFICATION nobody asked for: the first is taken for that of
\* the vehicle behind, the next one of the same unit is processed.
ObuUnasked(l, ev) ==
  IF gbLoopApresent /\ l.tailgate = "" THEN {[l EXCEPT !.tailgate = ev.obu]}
  ELSE IF l.tailgate = ev.obu THEN ProcessOUBInformation(l, ev) ELSE {l}

NoObu(l) == IF gbLoopApresent THEN EnableCashcard(l, TRUE) ELSE l

DeductTimeout(l) ==
  IF gbLoopApresent /\ (~l.gbPaid \/ l.status = "Doingdeduction")
  THEN EnableCashcard([l EXCEPT !.status = "WaitingCard"], TRUE) ELSE l

\* UpdateEEPExitTrans: an UPDATE, which finds the row or does nothing.
UpdateEEPExitTrans(l, ev) ==
  LET found == {e \in l.ledger : e.serial = ev.serial /\ e.iu = ev.obu /\ ~e.obuPaid}
  IN [l EXCEPT !.ledger = (@ \ found) \cup
        {[e EXCEPT !.amt = ev.amt, !.card = ev.card, !.obuPaid = TRUE] : e \in found}]

\* Variant: the deduction is taken to be the present vehicle's.
DeductedUnchecked(l, ev) ==
  DebitOK([l EXCEPT !.paid = ev.amt, !.serial = ev.serial, !.result5 = FALSE],
          ev.card, ev.bal, "EEP")

\* processEEPTransData for a deduction that was made.
Deducted(l, ev) ==
  IF ev.obu = l.iu /\ gbLoopApresent
  THEN DebitOK([l EXCEPT !.paid = ev.amt, !.serial = ev.serial, !.result5 = FALSE],
               ev.card, ev.bal, "EEP")
  ELSE UpdateEEPExitTrans(l, ev)

\* processEEPTransData for one that was not: rejected with a fault of the payment.
Violation(l, status) ==
  EEPInqs(EnableCashcard(SendMsg2OBU([l EXCEPT !.status = status]), TRUE))

processEEPTransData(l, ev) ==
  CASE ev.result = "done"  -> {Deducted(l, ev)}
    [] ev.result = "code7" -> {CloseExitOperation([l EXCEPT !.iu = ev.obu, !.card = ev.card,
                                                            !.result5 = FALSE],
                                                  "RejectCode7", FALSE)}
    [] ev.result = "code9" -> EEPInqs(EnableCashcard(l, TRUE))
    [] ev.result = "code5" -> {[l EXCEPT !.result5 = TRUE, !.inq = TRUE]}
    [] ev.result = "balance"  -> Violation(l, "InsufficientBalance")
    [] ev.result = "card"     -> Violation(l, "CardFault")
    [] ev.result = "account"  -> Violation(l, "WaitingCard")

-----------------------------------------------------------------------------
(* What the readers send *)

\* ProcessLCSC on sGetBlcSuccess.
CardRead(l, ev) ==
  CheckIUorCardStatus([EnableCashcard(setLastAction(l), FALSE) EXCEPT !.cardStatus = 0],
                      ev.card, "LCSC", ev.card, ev.bal)

\* RetryLCSCLastCommand.
RetryLCSCLastCommand(l) ==
  IF ~gbLoopApresent THEN {EnableCashcard(l, FALSE)}
  ELSE LET told == IF l.status = "Doingdeduction"
                   THEN SendMsg2OBU([l EXCEPT !.paid = l.fee]) ELSE l
       IN EEPInqs(EnableCashcard([told EXCEPT !.status = "WaitingCard"], TRUE))

\* The driver flushes the reader's record of its own after a debit.
CardFlushed(l) == IF l.opened THEN {l} ELSE RetryLCSCLastCommand(l)

\* A reader says the card cannot pay.
Refused(l, status) == EnableCashcard(setLastAction([l EXCEPT !.status = status]), TRUE)

\* processUPT, card detection.
CardDetected(l, ev) ==
  CheckIUorCardStatus([EnableLCSC(setLastAction([l EXCEPT !.upos = "Disable"]), FALSE)
                         EXCEPT !.cardStatus = 0],
                      ev.card, "UPOS", ev.card, ev.bal)

DetectTimeout(l) ==
  IF gbLoopApresent /\ ~l.gbPaid THEN EnableUPOS([l EXCEPT !.upos = "ReadCardTimeout"], TRUE)
  ELSE [l EXCEPT !.upos = "Disable"]

\* SOF_INVALID_CARD: a card that shows no number is debited unseen.
InvalidCard(l) ==
  LET off == [l EXCEPT !.upos = "Disable"]
  IN IF gbLoopApresent /\ ~l.gbPaid /\ l.paid > 0 /\ l.status = "WaitingCard"
     THEN setLastAction(debitfromReader(off, "", 0, "UPOS")) ELSE off

\* processUPT, payment.
Paid(l, ev) ==
  setLastAction(DebitOK([l EXCEPT !.upos = "Disable", !.paid = ev.amt], ev.card, ev.bal, "UPOS"))

PayTimeout(l) == DeductTimeout([l EXCEPT !.upos = "Disable"])

PayFailed(l) == EnableCashcard([l EXCEPT !.upos = "Disable", !.status = "WaitingCard"], TRUE)

-----------------------------------------------------------------------------
(* The handlers of OP_IO *)

\* Variant: a tick that finds nothing overdue does not wait for the next.
TimerTickOnce(l) ==
  IF ~l.overdue THEN l
  ELSE IF gbLoopApresent THEN LoopACome(EnableCashcard(l, FALSE)) ELSE EnableCashcard(l, FALSE)

\* handleLoopAPeriodicTimerTimeout and loopATimeoutHandler.
TimerTick(l) ==
  IF ~l.overdue THEN [l EXCEPT !.timer = TRUE]
  ELSE IF gbLoopApresent THEN LoopACome(EnableCashcard(l, FALSE)) ELSE EnableCashcard(l, FALSE)

\* BARRIER_STATUS_ON_EVENT and ManualOpenBarrier, which at an exit only opens: the
\* number it looks for is that of the entry.
BarrierUp(l) == IF l.opened THEN l ELSE Openbarrier(l)

Handled(l, ev) ==
  CASE ev.e = "A_ON"          -> {LoopACome(l)}
    [] ev.e = "A_OFF"         -> {LoopAGone(l)}
    [] ev.e = "C_OFF"         -> {LoopCGone(l)}
    [] ev.e = "tick"          -> {TimerTick(l)}
    [] ev.e = "up"            -> {BarrierUp(l)}
    [] ev.e = "obu"           -> ObuAnswered(l, ev)
    [] ev.e = "obuUnasked"    -> ObuUnasked(l, ev)
    [] ev.e = "noObu"         -> {NoObu(l)}
    [] ev.e = "deductAck"     -> {[l EXCEPT !.serial = ev.serial]}
    [] ev.e = "deductTimeout" -> {DeductTimeout(l)}
    [] ev.e = "trans"         -> processEEPTransData(l, ev)
    [] ev.e = "lcscRead"      -> CardRead(l, ev)
    [] ev.e = "lcscPaid"      -> {DebitOK(setLastAction(l), ev.card, ev.bal, "LCSC")}
    [] ev.e = "lcscExpired"   -> {Refused(l, "CardExpired")}
    [] ev.e = "lcscFailed"    -> RetryLCSCLastCommand(l)
    [] ev.e = "flushed"       -> CardFlushed(l)
    [] ev.e = "detected"      -> CardDetected(l, ev)
    [] ev.e = "detectTimeout" -> {DetectTimeout(l)}
    [] ev.e = "invalidCard"   -> {InvalidCard(l)}
    [] ev.e = "uposPaid"      -> {Paid(l, ev)}
    [] ev.e = "uposTimeout"   -> {PayTimeout(l)}
    [] ev.e = "uposExpired"   -> {Refused([l EXCEPT !.upos = "Disable"], "CardExpired")}
    [] ev.e = "uposFault"     -> {Refused([l EXCEPT !.upos = "Disable"], "CardFault")}
    [] ev.e = "uposFailed"    -> {PayFailed(l)}

\* The event in front is taken out and handled to the end.
RunHandler ==
  /\ queue # <<>>
  /\ queue' = Tail(queue)
  /\ lane' \in Handled(lane, Head(queue))
  /\ reported' = reported \cup
       IF Head(queue).e = "trans" /\ Head(queue).result = "done"
       THEN {[iu |-> Head(queue).obu, card |-> Head(queue).card,
              serial |-> Head(queue).serial, amt |-> Head(queue).amt]} ELSE {}
  /\ UNCHANGED <<car, passing, purse, taken, visits, answers>>

-----------------------------------------------------------------------------
(* The lane: loops, barrier, time *)

Post(ev) == Len(queue) < MaxBacklog /\ queue' = Append(queue, ev)

\* The DIO thread sees a vehicle come onto loop A, and leave it: on through an open
\* barrier, or backwards.
CarComes(obu) ==
  /\ car = "" /\ visits < MaxVisits
  /\ car' = obu /\ visits' = visits + 1
  /\ Post([e |-> "A_ON"])
  /\ UNCHANGED <<lane, passing, purse, taken, reported, answers>>

CarLeaves(onwards) ==
  /\ car # "" /\ (onwards => lane.opened)
  /\ car' = "" /\ passing' = (passing \/ onwards)
  /\ Post([e |-> "A_OFF"])
  /\ UNCHANGED <<lane, purse, taken, reported, visits, answers>>

CarClearsLoopC ==
  /\ passing /\ passing' = FALSE
  /\ Post([e |-> "C_OFF"])
  /\ UNCHANGED <<lane, car, purse, taken, reported, visits, answers>>

TimerExpires ==
  /\ lane.timer
  /\ lane' = [lane EXCEPT !.timer = FALSE]
  /\ Post([e |-> "tick"])
  /\ UNCHANGED <<car, passing, purse, taken, reported, visits, answers>>

\* giOperationTO goes by without an action.
TimePasses ==
  /\ ~lane.overdue
  /\ lane' = [lane EXCEPT !.overdue = TRUE]
  /\ UNCHANGED <<queue, car, passing, purse, taken, reported, visits, answers>>

\* Something the devices or a person does, at most MaxAnswers times.
Answers(ev) == answers < MaxAnswers /\ answers' = answers + 1 /\ Post(ev)

BarrierGoesUp ==
  /\ Answers([e |-> "up"])
  /\ UNCHANGED <<lane, car, passing, purse, taken, reported, visits>>

-----------------------------------------------------------------------------
(* The on-board units, through the EEP driver *)

\* What a unit says: a card or none, an account, and whether it can debit.
ObuSays(what, obu, c, backend, business) ==
  [e |-> what, obu |-> obu, card |-> c, valid |-> IF c = "" THEN 1 ELSE 0,
   backend |-> backend, business |-> business, bal |-> IF c = "" THEN 0 ELSE 100 * purse[c]]

ObuAnswers(c, backend, business) ==
  /\ "obuInfo" \in lane.asked /\ car # ""
  /\ lane' = [lane EXCEPT !.asked = @ \ {"obuInfo"}]
  /\ Answers(ObuSays("obu", car, c, backend, business))
  /\ UNCHANGED <<car, passing, purse, taken, reported, visits>>

NoObuAnswers ==
  /\ "obuInfo" \in lane.asked
  /\ lane' = [lane EXCEPT !.asked = @ \ {"obuInfo"}]
  /\ Answers([e |-> "noObu"])
  /\ UNCHANGED <<car, passing, purse, taken, reported, visits>>

ObuIsHeard(obu, c, backend) ==
  /\ Unasked
  /\ Answers(ObuSays("obuUnasked", obu, c, backend, TRUE))
  /\ UNCHANGED <<lane, car, passing, purse, taken, reported, visits>>

\* The outcome of a debit as the station will be told.
Outcome(what, result, t) ==
  [e |-> what, result |-> result, obu |-> t.iu, serial |-> t.serial, card |-> t.card,
   amt |-> t.amt, bal |-> IF t.card = "" THEN 0 ELSE purse'[t.card]]

Takes(d, c) == [iu |-> d.iu, card |-> c, serial |-> d.serial, amt |-> d.amt]

\* Money leaves a card or, with "", the account behind an on-board unit.
Charges(t) ==
  /\ t.card # "" => purse[t.card] >= t.amt
  /\ purse' = [c \in Cards |-> IF c = t.card THEN purse[c] - t.amt ELSE purse[c]]
  /\ taken' = taken \cup {t}

ObuAcknowledges(d) ==
  /\ Answers([e |-> "deductAck", serial |-> d.serial])
  /\ UNCHANGED <<lane, car, passing, purse, taken, reported, visits>>

\* The unit debits, and its report arrives or is lost.
ObuDebits(d, c, arrives) ==
  /\ lane' = [lane EXCEPT !.debits = @ \ {d}]
  /\ Charges(Takes(d, c))
  /\ IF arrives THEN Answers(Outcome("trans", "done", Takes(d, c)))
     ELSE UNCHANGED <<queue, answers>>
  /\ UNCHANGED <<car, passing, reported, visits>>

ObuDeclines(d, result) ==
  /\ lane' = [lane EXCEPT !.debits = @ \ {d}]
  /\ UNCHANGED <<car, passing, purse, taken, reported, visits>>
  /\ Answers(Outcome("trans", result, Takes(d, "")))

\* DSRC is lost: the unit reports that it does not know whether it debited.
ObuLosesTouch(d, c, charged) ==
  /\ lane' = [lane EXCEPT !.debits = @ \ {d}]
  /\ IF charged THEN Charges(Takes(d, c)) ELSE UNCHANGED <<purse, taken>>
  /\ Answers(Outcome("trans", "code5", Takes(d, "")))
  /\ UNCHANGED <<car, passing, reported, visits>>

\* No answer in time; it may still come.
ObuDebitTimesOut(d) ==
  /\ ~d.waited
  /\ lane' = [lane EXCEPT !.debits = (@ \ {d}) \cup {[d EXCEPT !.waited = TRUE]}]
  /\ Answers([e |-> "deductTimeout"])
  /\ UNCHANGED <<car, passing, purse, taken, reported, visits>>

\* NAK, a request that cannot be sent or is not acknowledged: nothing is handled.
ObuDebitFails(d) ==
  /\ lane' = [lane EXCEPT !.debits = @ \ {d}]
  /\ UNCHANGED <<queue, car, passing, purse, taken, reported, visits, answers>>

\* The answer to FnSendTransactionReq for a debit that was made.
TransactionAnswers ==
  /\ lane.wanted # 0
  /\ lane' = [lane EXCEPT !.wanted = 0]
  /\ UNCHANGED <<car, passing, purse, taken, reported, visits, answers>>
  /\ \E t \in taken : t.serial = lane.wanted /\ Post(Outcome("trans", "done", t))

-----------------------------------------------------------------------------
(* The readers *)

Says(what, c) == [e |-> what, card |-> c, bal |-> purse[c]]

CardAtLCSC(c) ==
  /\ "read" \in lane.asked
  /\ lane' = [lane EXCEPT !.asked = @ \ {"read"}]
  /\ Answers(Says("lcscRead", c))
  /\ UNCHANGED <<car, passing, purse, taken, reported, visits>>

\* CARD_DEDUCT succeeds; the driver then flushes the reader.
LCSCDebits(d, c) ==
  /\ lane' = [lane EXCEPT !.debits = @ \ {d}, !.asked = @ \cup {"flush"}]
  /\ Charges(Takes(d, c))
  /\ Answers(Outcome("lcscPaid", "done", Takes(d, c)))
  /\ UNCHANGED <<car, passing, reported, visits>>

\* It fails: the card was charged or not.
LCSCDebitFails(d, c, charged, how) ==
  /\ lane' = [lane EXCEPT !.debits = @ \ {d}]
  /\ IF charged THEN Charges(Takes(d, c)) ELSE UNCHANGED <<purse, taken>>
  /\ Answers([e |-> how])
  /\ UNCHANGED <<car, passing, reported, visits>>

LCSCFlushes(how) ==
  /\ "flush" \in lane.asked
  /\ lane' = [lane EXCEPT !.asked = @ \ {"flush"}]
  /\ Answers([e |-> how])
  /\ UNCHANGED <<car, passing, purse, taken, reported, visits>>

CardAtUPOS(c) ==
  /\ "detect" \in lane.asked
  /\ lane' = [lane EXCEPT !.asked = @ \ {"detect"}]
  /\ Answers(Says("detected", c))
  /\ UNCHANGED <<car, passing, purse, taken, reported, visits>>

NoCardAtUPOS(how) ==
  /\ "detect" \in lane.asked
  /\ lane' = [lane EXCEPT !.asked = @ \ {"detect"}]
  /\ Answers([e |-> how])
  /\ UNCHANGED <<car, passing, purse, taken, reported, visits>>

UPOSDebits(d, c) ==
  /\ lane' = [lane EXCEPT !.debits = @ \ {d}]
  /\ Charges(Takes(d, c))
  /\ Answers(Outcome("uposPaid", "done", Takes(d, c)))
  /\ UNCHANGED <<car, passing, reported, visits>>

UPOSDebitFails(d, c, charged, how) ==
  /\ lane' = [lane EXCEPT !.debits = @ \ {d}]
  /\ IF charged THEN Charges(Takes(d, c)) ELSE UNCHANGED <<purse, taken>>
  /\ Answers([e |-> how])
  /\ UNCHANGED <<car, passing, reported, visits>>

-----------------------------------------------------------------------------
Init ==
  /\ lane = [timer |-> FALSE, overdue |-> FALSE, iu |-> "", card |-> "", fee |-> 0,
             paid |-> 0, status |-> "init", gbPaid |-> FALSE, saved |-> FALSE,
             cardStatus |-> 1, backend |-> FALSE, business |-> FALSE, reader |-> FALSE,
             opened |-> FALSE, inq |-> FALSE, tailgate |-> "", serial |-> 0,
             result5 |-> FALSE, upos |-> "Disable", lastPaid |-> "", lastOk |-> FALSE,
             lastCard |-> "", lastBal |-> 0, asked |-> {}, wanted |-> 0, debits |-> {},
             serials |-> 0, ledger |-> {}]
  /\ queue = <<>> /\ car = "" /\ passing = FALSE
  /\ purse = [c \in Cards |-> MaxPurse]
  /\ taken = {} /\ reported = {}
  /\ visits = 0 /\ answers = 0

LaneMoves ==
  \/ \E obu \in Obus : CarComes(obu)
  \/ \E onwards \in BOOLEAN : CarLeaves(onwards)
  \/ CarClearsLoopC \/ TimerExpires \/ TimePasses \/ BarrierGoesUp

ObuActs ==
  \/ \E c \in ObuCards \cup {""}, backend, business \in BOOLEAN : ObuAnswers(c, backend, business)
  \/ NoObuAnswers
  \/ \E obu \in Obus, c \in ObuCards \cup {""}, backend \in BOOLEAN : ObuIsHeard(obu, c, backend)
  \/ \E d \in Commanded(lane, "EEP") :
       \/ ObuAcknowledges(d) \/ ObuDebitTimesOut(d) \/ ObuDebitFails(d)
       \/ \E c \in ObuCards \cup {""}, arrives \in BOOLEAN : ObuDebits(d, c, arrives)
       \/ \E c \in ObuCards \cup {""}, charged \in BOOLEAN : ObuLosesTouch(d, c, charged)
       \/ \E result \in {"code7", "code9", "balance", "card", "account"} :
            ObuDeclines(d, result)
  \/ TransactionAnswers

ReadersAct ==
  \/ \E c \in TapCards : CardAtLCSC(c) \/ CardAtUPOS(c)
  \/ \E how \in {"detectTimeout", "invalidCard"} : NoCardAtUPOS(how)
  \/ \E how \in {"flushed", "lcscFailed"} : LCSCFlushes(how)
  \/ \E d \in Commanded(lane, "LCSC"), c \in TapCards :
       \/ LCSCDebits(d, c)
       \/ \E charged \in BOOLEAN : LCSCDebitFails(d, c, charged, "lcscFailed")
       \/ LCSCDebitFails(d, c, FALSE, "lcscExpired")
  \/ \E d \in Commanded(lane, "UPOS"), c \in TapCards :
       \/ UPOSDebits(d, c)
       \/ \E charged \in BOOLEAN, how \in {"uposTimeout", "uposFailed"} :
            UPOSDebitFails(d, c, charged, how)
       \/ \E how \in {"uposExpired", "uposFault"} : UPOSDebitFails(d, c, FALSE, how)

Next == RunHandler \/ LaneMoves \/ ObuActs \/ ReadersAct

\* OP_IO serves its queue, the loop A timer runs and time passes; nothing is assumed
\* of vehicles, units, cards or readers.
Fairness == WF_vars(RunHandler) /\ WF_vars(TimerExpires) /\ WF_vars(TimePasses)

Spec == Init /\ [][Next]_vars /\ Fairness

-----------------------------------------------------------------------------
(* Properties *)

TypeOK ==
  /\ lane \in Lane
  /\ queue \in Seq(Event)
  /\ car \in Obus \cup {""} /\ passing \in BOOLEAN
  /\ purse \in [Cards -> 0..MaxPurse]
  /\ taken \subseteq Charge /\ reported \subseteq Charge
  /\ visits \in Nat /\ answers \in Nat

\* No debit is commanded for a visit that is paid, or while another is believed to be
\* under way, although units, readers and time-outs each restart the payment.
NoSecondDebit ==
  [][lane'.serials # lane.serials => ~lane.gbPaid /\ lane.status # "Doingdeduction"]_vars

\* A row says that an on-board unit paid only if that unit reported that debit.
ObuPaidRowsAreReal ==
  \A e \in lane.ledger : e.obuPaid => \E r \in reported : r.iu = e.iu /\ r.serial = e.serial

\* Every debit an on-board unit reports is in the books.
ObuDebitsAreBooked ==
  \A r \in reported : \E e \in lane.ledger : e.iu = r.iu /\ e.serial = r.serial /\ e.obuPaid

\* A vehicle let out as paid because the balance of the card it shows has changed since
\* its debit (the log says "balance change case.") has a card that was charged.
BalanceChangeMeansCharged ==
  [][\A e \in lane'.ledger \ lane.ledger :
       e.kind = "BalanceChange" => \E t \in taken : t.card = Head(queue).card]_vars

Pending(what) == \E i \in DOMAIN queue : queue[i].e = what

\* A vehicle on loop A whose barrier is not open is watched.
WatchdogArmed ==
  gbLoopApresent /\ ~lane.opened /\ ~Pending("A_ON") => lane.timer \/ Pending("tick")

\* A deduction that is not answered is given up.
StuckDeductionEnds ==
  lane.status = "Doingdeduction" /\ gbLoopApresent /\ ~lane.opened
    ~> lane.status # "Doingdeduction" \/ ~gbLoopApresent \/ lane.opened
=============================================================================
