---------------------------- MODULE MCTrafficLog ----------------------------
(* TrafficLog for TLC: the last two days of a month and the first of the   *)
(* next.                                                                   *)
EXTENDS TrafficLog, TLC

MCCalendar == << [month |-> 1, date |-> 30], [month |-> 1, date |-> 31], [month |-> 2, date |-> 1] >>
=============================================================================
