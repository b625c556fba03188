--------------------------- MODULE MCCaseLifecycle ---------------------------
(***************************************************************************)
(* Instances of CaseLifecycle for TLC, with a "month" of one day and an    *)
(* extended period of three.                                               *)
(***************************************************************************)
EXTENDS CaseLifecycle, TLC

CONSTANT MaxDay

MCDays == 0..MaxDay
MCInitialDue == [code \in Calendars |-> [d \in Days |-> d + 1]]
MCExtendedDue == [code \in Calendars |-> [d \in Days |-> d + 3]]

(* The instances run the same code on the same archive. *)
Symmetry == Permutations(Instances)

=============================================================================
