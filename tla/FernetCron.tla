----------------------------- MODULE FernetCron -----------------------------
(***************************************************************************)
(* The schedule of fernet key rotations.  On every keystone host the role  *)
(* runs fernet_rotate_cron_generator.py with the host's index in the group *)
(* and writes the answer to that host's crontab; the hosts never talk, and *)
(* the schedule of the group is whatever their crontabs add up to.  The    *)
(* module runs generate() for each host of the group in turn, one          *)
(* iteration of its loop per step, and then reads the crontabs as cron     *)
(* does.  Times are minutes of the week.                                   *)
(***************************************************************************)
EXTENDS Integers, Sequences

CONSTANTS GroupSizes,      \* sizes of the keystone group
          Intervals        \* fernet_key_rotation_interval, in minutes

(* Group sizes and intervals are positive: an interval below one minute is *)
(* rounded to 0 by the role, and generate() then never leaves its loop.    *)
ASSUME CronAssumption == /\ GroupSizes \subseteq Nat \ {0}
                         /\ Intervals \subseteq Nat \ {0}

MINUTE_SPAN == 1
HOUR_SPAN   == 60
DAY_SPAN    == 24 * HOUR_SPAN
WEEK_SPAN   == 7 * DAY_SPAN
Any         == -1          \* the '*' of a crontab field

VARIABLES total_hosts, total_rotation_mins,   \* the arguments -n and -t
          host,                               \* the argument -i
          pc, time, crons

vars == <<total_hosts, total_rotation_mins, host, pc, time, crons>>

Hosts == 0 .. total_hosts - 1
host_rotation_mins == total_rotation_mins * total_hosts

-----------------------------------------------------------------------------
(* The cycle the schedule repeats: a week, a day or an hour. *)
Span == IF host_rotation_mins > DAY_SPAN THEN WEEK_SPAN
        ELSE IF host_rotation_mins > HOUR_SPAN THEN DAY_SPAN ELSE HOUR_SPAN

(* The crontab entry for minute t of the cycle. *)
Cron(t) ==
    IF Span = WEEK_SPAN
    THEN [min |-> t % HOUR_SPAN, hour |-> t % HOUR_SPAN, day |-> t \div DAY_SPAN]
    ELSE IF Span = DAY_SPAN
    THEN [min |-> t % HOUR_SPAN, hour |-> t \div HOUR_SPAN, day |-> Any]
    ELSE [min |-> t \div MINUTE_SPAN, hour |-> Any, day |-> Any]

(* Fault: no room is kept for the last interval. *)
FitsLoosely(t) == t <= Span

(* There is room for a whole interval before the cycle ends. *)
Fits(t) == t + total_rotation_mins <= Span

Init == /\ total_hosts \in GroupSizes
        /\ total_rotation_mins \in Intervals
        /\ host = 0 /\ pc = "called" /\ time = 0
        /\ crons = [h \in Hosts |-> <<>>]

(* Fault: the host's offset is forgotten. *)
GenerateWithoutOffset == /\ pc = "called"
                         /\ total_rotation_mins <= WEEK_SPAN
                         /\ time' = 0
                         /\ pc' = "loop"
                         /\ UNCHANGED <<total_hosts, total_rotation_mins, host, crons>>

(* The generator starts on the next host of the group ... *)
Generate == /\ pc = "called"
            /\ total_rotation_mins <= WEEK_SPAN
            /\ time' = total_rotation_mins * host
            /\ pc' = "loop"
            /\ UNCHANGED <<total_hosts, total_rotation_mins, host, crons>>

(* ... or raises RotationIntervalTooLong, and the task fails. *)
RotationIntervalTooLong == /\ pc = "called"
                           /\ total_rotation_mins > WEEK_SPAN
                           /\ pc' = "failed"
                           /\ UNCHANGED <<total_hosts, total_rotation_mins, host,
                                          time, crons>>

(* One iteration of the loop. *)
AddCron == /\ pc = "loop"
           /\ Fits(time)
           /\ crons' = [crons EXCEPT ![host] = Append(@, Cron(time))]
           /\ time' = time + host_rotation_mins
           /\ UNCHANGED <<total_hosts, total_rotation_mins, host, pc>>

(* The loop ends; the crontab of this host is written. *)
Return == /\ pc = "loop"
          /\ ~Fits(time)
          /\ IF host = total_hosts - 1
             THEN pc' = "deployed" /\ UNCHANGED host
             ELSE pc' = "called" /\ host' = host + 1
          /\ UNCHANGED <<total_hosts, total_rotation_mins, time, crons>>

Next == Generate \/ RotationIntervalTooLong \/ AddCron \/ Return

Spec == Init /\ [][Next]_vars

-----------------------------------------------------------------------------
(* How cron reads a field: '*' is every value of its range, and a value    *)
(* out of range matches nothing.                                           *)
Field(v, range) == IF v = Any THEN range ELSE {v} \cap range

(* The minutes of the week at which a crontab entry runs the rotation. *)
FireMinutes(c) == {d * DAY_SPAN + h * HOUR_SPAN + m :
                        d \in Field(c.day, 0 .. 6),
                        h \in Field(c.hour, 0 .. 23),
                        m \in Field(c.min, 0 .. 59)}

(* A rotation of the week: who runs it, for which entry, when. *)
Rotations == UNION {UNION {{[host |-> h, entry |-> i, at |-> m] :
                                    m \in FireMinutes(crons[h][i])} :
                                i \in DOMAIN crons[h]} :
                          h \in Hosts}

(* The rotations of one cycle; the next cycle repeats them. *)
Cycle == {r \in Rotations : r.at < Span}

-----------------------------------------------------------------------------
Crons == [min : 0 .. 59, hour : 0 .. 59 \cup {Any}, day : 0 .. 6 \cup {Any}]

TypeOK == /\ total_hosts \in GroupSizes /\ total_rotation_mins \in Intervals
          /\ host \in Hosts /\ time \in Nat
          /\ pc \in {"called", "loop", "deployed", "failed"}
          /\ crons \in [Hosts -> Seq(Crons)]

(***************************************************************************)
(* "Minor under-rotation is better than over-rotation since tokens may     *)
(* become invalid if keys are over-rotated": whatever the crontabs add up  *)
(* to, no two rotations of the group, by one host or by two, are closer    *)
(* than the interval, the step from the end of one cycle to the start of   *)
(* the next included.                                                      *)
(***************************************************************************)
NoOverRotation ==
    pc = "deployed" =>
        LET cycle == Cycle
        IN  \A r, s \in cycle : r # s => (s.at - r.at) % Span >= total_rotation_mins

(***************************************************************************)
(* "each host should rotate once every N * total_rotation_mins minutes, in *)
(* a round-robin manner": within a cycle the rotations go round the group, *)
(* host 0 first, and every interval that fits in the cycle is served, so   *)
(* that the under-rotation at its end is minor: less than one interval.    *)
(***************************************************************************)
RoundRobin ==
    pc = "deployed" =>
        LET cycle == Cycle
        IN  \A k \in 0 .. (Span \div total_rotation_mins) - 1 :
                \E r \in cycle : /\ r.at = k * total_rotation_mins
                                 /\ r.host = k % total_hosts
=============================================================================
