---------------------------- MODULE MCOfficeHours ----------------------------
(* A small instance of OfficeHours for TLC.                                    *)
EXTENDS OfficeHours

\* Three working days, the second a holiday, and a day of the weekend.
MCWeekdays == {0, 1, 2}
MCHolidays == {1}
=============================================================================
