----------------------------- MODULE MCSchedules -----------------------------
(* A day of three minutes; the report is due in the last one, the countdown
   in the second one, and reminders are not sent in the first half minute. *)
EXTENDS Schedules

MCAt == [d \in Daily |-> IF d = "report" THEN 2 ELSE 1]
MCWorkHours == 1..5
=============================================================================
