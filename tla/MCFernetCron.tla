---------------------------- MODULE MCFernetCron ----------------------------
(* Groups of one to five hosts.  Shortest: the schedule repeats every hour  *)
(* or every day.  WholeDays: it repeats every week, and rotations are at    *)
(* midnight; the last interval is one minute too long.  Suggested: the      *)
(* intervals, in minutes, that roles/keystone/tasks/precheck.yml suggests.  *)
EXTENDS FernetCron

Shortest == 1 .. 62 \cup {90, 121, 240, 287, 288}
WholeDays == {DAY_SPAN * d : d \in 1 .. 7} \cup {WEEK_SPAN + 1}
Scheduled == Shortest \cup WholeDays

Suggested == {1, 2, 4, 8, 12, 24, 60, 120, 180, 240, 360, 720, 1008, 2016,
              2520, 3360, 5040, 10080}
=============================================================================
