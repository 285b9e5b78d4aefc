--------------------------- MODULE MCCronScheduler ---------------------------
(* Days of two hours of two units. The jobs daily and orphan are due at 0:01, *)
(* orphan has no session; the job star, with an empty prompt, is due at the   *)
(* minute "*", which stands for 1:00; the hour of bad is out of range.        *)
EXTENDS CronScheduler

CONSTANTS daily, orphan, star, bad

MCMinute == [j \in Jobs |-> IF j = star THEN Star ELSE 1]
MCHour == [j \in Jobs |-> CASE j = star -> 1 [] j = bad -> Hours [] OTHER -> 0]
=============================================================================
