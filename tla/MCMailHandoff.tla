---------------------------- MODULE MCMailHandoff ----------------------------
(***************************************************************************)
(* Instances of MailHandoff for TLC: a month of one day, as in             *)
(* MCCaseLifecycle.                                                        *)
(***************************************************************************)
EXTENDS MailHandoff, TLC

CONSTANT MaxDay

MCDays == 0..MaxDay
MCInitialDue == [code \in Calendars |-> [d \in Days |-> d + 1]]
MCExtendedDue == [code \in Calendars |-> [d \in Days |-> d + 3]]

Symmetry == Permutations(Instances)

=============================================================================
