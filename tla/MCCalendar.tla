----------------------------- MODULE MCCalendar -----------------------------
(* A small instance of CourtCalendar for TLC: one court in Ha Noi and one    *)
(* whose zone is not a whole number of hours from UTC.                       *)
EXTENDS CourtCalendar

CONSTANTS c1, c2

\* UTC+7 and UTC+5:30.
TwoZones == [c \in Courts |-> IF c = c1 THEN 14 ELSE 11]
=============================================================================
