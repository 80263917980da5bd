----------------------------- MODULE Settlement ------------------------------
(***************************************************************************)
(* What the card reader's driver promises of the money it takes: the reader *)
(* holds one transaction at a time, and forgets it (is flushed) only after  *)
(* it was handed to the settlement file.  LcscDriver implements this.       *)
(***************************************************************************)
VARIABLES
  taken,      \* transactions the reader charged to a card
  settled,    \* those handed to the settlement file
  flushed     \* those the reader has forgotten

Init == taken = {} /\ settled = {} /\ flushed = {}

\* The reader charges a card, with whatever number it gives the transaction.
Take ==
  /\ taken = flushed
  /\ \E id \in taken' \ taken : taken' = taken \cup {id}
  /\ UNCHANGED <<settled, flushed>>

Settle ==
  /\ \E id \in taken : settled' = settled \cup {id}
  /\ UNCHANGED <<taken, flushed>>

Flush ==
  /\ \E id \in settled : flushed' = flushed \cup {id}
  /\ UNCHANGED <<taken, settled>>

Next == Take \/ Settle \/ Flush

Spec == Init /\ [][Next]_<<taken, settled, flushed>>
==============================================================================
