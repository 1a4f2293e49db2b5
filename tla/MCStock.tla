------------------------------- MODULE MCStock -------------------------------
(* Small libraries for TLC: one copy, one campaign that covers it. *)
EXTENDS Stock

CONSTANTS r1, p1

OneRecord == [i \in Items |-> r1]
CardsValid == [p \in Patrons |-> 9]
\* One reader has an account with an address, the others have none.
OneAddress == {p1}
WholeLibrary == [n \in Campaigns |-> Items]
\* A reminder the day before, and every day of delay.
EveryDay == {[before |-> 1, every |-> 1]}
=============================================================================
