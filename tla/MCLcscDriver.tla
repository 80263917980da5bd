---------------------------- MODULE MCLcscDriver ----------------------------
(***************************************************************************)
(* Instance of LcscDriver for TLC: which calls are studied together.       *)
(***************************************************************************)
EXTENDS LcscDriver

Plan(counts) == [c \in Calls |-> IF c \in DOMAIN counts THEN counts[c] ELSE 0]

\* A card is waited for and given up; a card is charged, whatever becomes of the answer; the reader's
\* files are uploaded while a command comes between; the driver is closed with work under way.
MCPlans ==
  {Plan([read |-> 1, stop |-> 1]), Plan([deduct |-> 2]),
   Plan([upload |-> 1, status |-> 1]), Plan([upload |-> 1, read |-> 1]),
   Plan([status |-> 1, deduct |-> 1, close |-> 1])}
==============================================================================
