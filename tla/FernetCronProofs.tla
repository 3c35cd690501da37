-------------------------- MODULE FernetCronProofs --------------------------
(***************************************************************************)
(* Proofs about FernetCron, for every group size and every interval.       *)
(***************************************************************************)
EXTENDS FernetCron, TLAPS

Spans == {HOUR_SPAN, DAY_SPAN, WEEK_SPAN}

(* Slot k of the cycle is the minute k intervals after its start; entry i   *)
(* of host h is for slot h + (i - 1) * total_hosts.                         *)
SlotTime(k) == total_rotation_mins * k
Slot(h, i) == h + (i - 1) * total_hosts

(***************************************************************************)
(* The inductive invariant.  Entries: what the loop has written so far, on *)
(* every host, are the entries of its slots, all of which fit.  Progress:  *)
(* the loop is at the slot after the last one written.  Complete: on the   *)
(* hosts that are done, the next slot would not fit.                       *)
(***************************************************************************)
Entries == \A h \in Hosts : \A i \in 1 .. Len(crons[h]) :
                /\ crons[h][i] = Cron(SlotTime(Slot(h, i)))
                /\ Fits(SlotTime(Slot(h, i)))

Progress == /\ \A h \in Hosts : h > host => Len(crons[h]) = 0
            /\ pc = "called" => Len(crons[host]) = 0
            /\ pc = "loop" => /\ time = SlotTime(Slot(host, Len(crons[host]) + 1))
                              /\ total_rotation_mins <= WEEK_SPAN
            /\ pc = "deployed" => host = total_hosts - 1

Complete == \A h \in Hosts : h < host \/ pc = "deployed"
                => ~Fits(SlotTime(Slot(h, Len(crons[h]) + 1)))

IInv == TypeOK /\ Entries /\ Progress /\ Complete

-----------------------------------------------------------------------------
\* The parameters are natural numbers.
LEMMA ParametersType ==
  ASSUME TypeOK
  PROVE  /\ total_hosts \in Nat /\ total_hosts > 0
         /\ total_rotation_mins \in Nat /\ total_rotation_mins > 0
         /\ host \in Nat /\ host < total_hosts
         /\ \A h \in Hosts : h \in Nat /\ h < total_hosts
BY CronAssumption DEF TypeOK, Hosts

\* Products of natural numbers are natural numbers.
LEMMA ProductType ==
  ASSUME NEW a \in Nat, NEW b \in Nat
  PROVE  a * b \in Nat
OBVIOUS

\* The span of the schedule is one of the three the crontab can express.
LEMMA SpanType == Span \in Spans /\ Span \in Nat
BY DEF Span, Spans, HOUR_SPAN, DAY_SPAN, WEEK_SPAN

(* A minute of the cycle gives an entry of fields in range (in the weekly   *)
(* branch the hour is a minute, 0 to 59).                                   *)
LEMMA CronType ==
  ASSUME NEW t \in Nat, t < Span
  PROVE  Cron(t) \in Crons
<1>1. t % 60 \in 0 .. 59 /\ t \div 60 \in Nat /\ t \div 1440 \in Nat /\ t \div 1 = t
  BY SMT
<1>2. t < 60 * 24 => t \div 60 \in 0 .. 23
  BY SMT
<1>3. t < 10080 => t \div 1440 \in 0 .. 6
  BY SMT
<1>4. CASE Span = WEEK_SPAN
  BY <1>1, <1>3, <1>4 DEF Cron, Crons, HOUR_SPAN, DAY_SPAN, WEEK_SPAN, Any
<1>5. CASE Span = DAY_SPAN
  BY <1>1, <1>2, <1>5 DEF Cron, Crons, HOUR_SPAN, DAY_SPAN, WEEK_SPAN, Any
<1>6. CASE Span = HOUR_SPAN
  BY <1>1, <1>6 DEF Cron, Crons, HOUR_SPAN, DAY_SPAN, WEEK_SPAN, MINUTE_SPAN, Any
<1> QED
  BY <1>4, <1>5, <1>6, SpanType DEF Spans

(* One turn of the loop moves on by one slot of the same host. *)
LEMMA NextSlot ==
  ASSUME TypeOK, NEW h \in Nat, NEW i \in Nat
  PROVE  /\ SlotTime(Slot(h, i + 1)) = SlotTime(Slot(h, i)) + host_rotation_mins
         /\ i > 0 => SlotTime(Slot(h, i)) \in Nat
<1> DEFINE n == total_hosts
           R == total_rotation_mins
<1>1. n \in Nat /\ R \in Nat
  BY ParametersType
<1> HIDE DEF n, R
<1>2. R * (h + (i + 1 - 1) * n) = R * (h + (i - 1) * n) + R * n
  BY <1>1, SMT
<1>3. ASSUME i > 0 PROVE R * (h + (i - 1) * n) \in Nat
  <2>1. (i - 1) * n \in Nat
    BY <1>1, <1>3, ProductType
  <2> QED
    BY <1>1, <2>1, ProductType
<1> QED
  BY <1>2, <1>3 DEF SlotTime, Slot, host_rotation_mins, n, R

-----------------------------------------------------------------------------
(***************************************************************************)
(* The loop invariant of generate(): every crontab written so far is the   *)
(* sequence of the entries of its host's slots.                            *)
(***************************************************************************)
THEOREM LoopInvariant == Spec => []IInv
<1>1. Init => IInv
  <2> SUFFICES ASSUME Init PROVE IInv
    OBVIOUS
  <2>1. TypeOK
    BY CronAssumption DEF Init, TypeOK, Hosts
  <2>2. \A h \in Hosts : Len(crons[h]) = 0
    BY DEF Init
  <2>3. Entries /\ Progress
    BY <2>1, <2>2 DEF Init, Entries, Progress, TypeOK
  <2>4. Complete
    BY <2>1, ParametersType DEF Init, Complete
  <2> QED
    BY <2>1, <2>3, <2>4 DEF IInv
<1>2. IInv /\ [Next]_vars => IInv'
  <2> SUFFICES ASSUME IInv, [Next]_vars PROVE IInv'
    OBVIOUS
  <2> USE DEF IInv
  <2>0. /\ total_hosts \in Nat /\ total_rotation_mins \in Nat /\ host \in Nat
        /\ host < total_hosts /\ total_rotation_mins > 0
        /\ \A h \in Hosts : h \in Nat /\ crons[h] \in Seq(Crons) /\ Len(crons[h]) \in Nat
    BY ParametersType DEF TypeOK
  <2>1. CASE Generate
    <3>1. total_rotation_mins * host \in Nat
      BY <2>0, ProductType
    <3>2. TypeOK'
      BY <2>1, <3>1 DEF TypeOK, Generate, Hosts
    <3>3. Entries' /\ Complete'
      BY <2>1 DEF Generate, Entries, Complete, Hosts, Fits, Cron, Span, SlotTime, Slot,
                  host_rotation_mins
    <3>4. Slot(host, Len(crons[host]) + 1) = host
      BY <2>0, <2>1 DEF Generate, Progress, Slot
    <3>5. Progress'
      BY <2>1, <3>4 DEF Generate, Progress, Hosts, SlotTime, Slot
    <3> QED
      BY <3>2, <3>3, <3>5
  <2>2. CASE RotationIntervalTooLong
    BY <2>2 DEF RotationIntervalTooLong, TypeOK, Entries, Progress, Complete, Hosts, Fits,
                Cron, Span, SlotTime, Slot, host_rotation_mins
  <2>3. CASE AddCron
    <3> DEFINE L == Len(crons[host])
    <3>1. host \in Hosts /\ L \in Nat /\ time = SlotTime(Slot(host, L + 1))
      BY <2>0, <2>3 DEF AddCron, Progress, TypeOK
    <3>2. time \in Nat /\ time < Span /\ Cron(time) \in Crons
      BY <2>0, <2>3, CronType, SpanType DEF AddCron, Fits, TypeOK
    <3>3. /\ crons' \in [Hosts -> Seq(Crons)]
          /\ \A h \in Hosts \ {host} : crons'[h] = crons[h]
          /\ Len(crons'[host]) = L + 1
          /\ \A i \in 1 .. L : crons'[host][i] = crons[host][i]
          /\ crons'[host][L + 1] = Cron(time)
      BY <2>0, <2>3, <3>1, <3>2 DEF AddCron, TypeOK
    <3>4. host_rotation_mins \in Nat
      BY <2>0, ProductType DEF host_rotation_mins
    <3>5. TypeOK'
      BY <2>3, <3>2, <3>3, <3>4 DEF AddCron, TypeOK, Hosts
    <3>6. UNCHANGED <<total_hosts, total_rotation_mins, host, pc>> /\ pc = "loop"
      BY <2>3 DEF AddCron
    <3>7. Entries'
      <4> SUFFICES ASSUME NEW h \in Hosts, NEW i \in 1 .. Len(crons'[h])
                   PROVE  /\ crons'[h][i] = Cron(SlotTime(Slot(h, i)))
                          /\ Fits(SlotTime(Slot(h, i)))
        BY <3>6 DEF Entries, Hosts, Fits, Cron, Span, SlotTime, Slot, host_rotation_mins
      <4>1. CASE h # host \/ i <= L
        BY <4>1, <3>1, <3>3 DEF Entries
      <4>2. CASE h = host /\ i = L + 1
        BY <4>2, <2>3, <3>1, <3>3 DEF AddCron
      <4> QED
        BY <4>1, <4>2, <3>1, <3>3
    <3>8. time' = SlotTime(Slot(host, L + 2))
      <4>1. SlotTime(Slot(host, (L + 1) + 1))
                = SlotTime(Slot(host, L + 1)) + host_rotation_mins
        <5>1. L + 1 \in Nat
          BY <3>1
        <5> HIDE DEF L
        <5> QED
          BY <2>0, <5>1, NextSlot
      <4>2. (L + 1) + 1 = L + 2
        BY <3>1
      <4> QED
        BY <2>3, <3>1, <4>1, <4>2 DEF AddCron
    <3>9. Progress'
      <4>1. Len(crons'[host]) + 1 = L + 2
        BY <3>1, <3>3
      <4>2. time' = SlotTime(Slot(host, Len(crons'[host]) + 1))
        BY <3>8, <4>1
      <4>3. \A h \in Hosts : h > host => Len(crons'[h]) = 0
        BY <2>0, <3>3 DEF Progress
      <4>4. (SlotTime(Slot(host, Len(crons[host]) + 1)))'
                = SlotTime(Slot(host, Len(crons'[host]) + 1))
        BY <3>6 DEF SlotTime, Slot
      <4>5. Hosts' = Hosts /\ total_rotation_mins <= WEEK_SPAN
        BY <3>6 DEF Hosts, Progress
      <4> QED
        BY <3>6, <4>2, <4>3, <4>4, <4>5 DEF Progress
    <3>10. Complete'
      <4> SUFFICES ASSUME NEW h \in Hosts, h < host
                   PROVE  ~Fits(SlotTime(Slot(h, Len(crons'[h]) + 1)))
        BY <3>6 DEF Complete, Hosts, Fits, Span, SlotTime, Slot, host_rotation_mins
      <4>1. crons'[h] = crons[h]
        BY <2>0, <3>3
      <4> QED
        BY <4>1 DEF Complete
    <3> QED
      BY <3>5, <3>7, <3>9, <3>10
  <2>4. CASE Return
    <3>1. UNCHANGED <<total_hosts, total_rotation_mins, time, crons>> /\ pc = "loop"
      BY <2>4 DEF Return
    <3>2. \/ pc' = "deployed" /\ host' = host /\ host = total_hosts - 1
          \/ pc' = "called" /\ host' = host + 1 /\ host # total_hosts - 1
      BY <2>4 DEF Return
    <3>3. TypeOK'
      BY <2>0, <3>1, <3>2 DEF TypeOK, Hosts
    <3>4. Entries'
      BY <3>1 DEF Entries, Hosts, Fits, Cron, Span, SlotTime, Slot, host_rotation_mins
    <3>5. Progress'
      <4>1. \A h \in Hosts : h > host' => Len(crons[h]) = 0
        BY <2>0, <3>2 DEF Progress
      <4>2. pc' = "called" => host' \in Hosts /\ host' > host
        BY <2>0, <3>2 DEF Hosts
      <4>3. pc' = "called" => Len(crons[host']) = 0
        BY <4>2 DEF Progress
      <4>4. Hosts' = Hosts /\ pc' # "loop" /\ (pc' = "deployed" => host' = total_hosts - 1)
        BY <3>1, <3>2 DEF Hosts
      <4> QED
        BY <3>1, <4>1, <4>3, <4>4 DEF Progress
    <3>6. ~Fits(SlotTime(Slot(host, Len(crons[host]) + 1)))
      BY <2>4 DEF Return, Progress
    <3>7. \A h \in Hosts : h < host' \/ pc' = "deployed" => h < host \/ h = host
      BY <2>0, <3>2 DEF Hosts
    <3>8. Complete'
      BY <3>1, <3>6, <3>7 DEF Complete, Hosts, Fits, Span, SlotTime, Slot,
                              host_rotation_mins
    <3> QED
      BY <3>3, <3>4, <3>5, <3>8
  <2>5. CASE UNCHANGED vars
    BY <2>5 DEF vars, TypeOK, Entries, Progress, Complete, Hosts, Fits, Cron, Span,
                SlotTime, Slot, host_rotation_mins
  <2> QED
    BY <2>1, <2>2, <2>3, <2>4, <2>5 DEF Next
<1> QED
  BY <1>1, <1>2, PTL DEF Spec

-----------------------------------------------------------------------------
(* The intervals the weekly branch is right for: whole days. *)
Aligned == Span = WEEK_SPAN => total_rotation_mins % DAY_SPAN = 0

(* How cron reads '*', and a value in range. *)
LEMMA FieldValues ==
  ASSUME NEW range, NEW v \in range, range \subseteq Nat
  PROVE  Field(Any, range) = range /\ Field(v, range) = {v}
<1>1. v # Any
  BY DEF Any
<1> QED
  BY <1>1 DEF Field

(* The hour and the minute of a crontab entry name minute t of the cycle,   *)
(* and no other.                                                            *)
LEMMA FireAt ==
  ASSUME NEW t \in Nat, t < Span, Span = WEEK_SPAN => t % DAY_SPAN = 0, NEW m
  PROVE  m \in FireMinutes(Cron(t)) /\ m < Span <=> m = t
<1> USE DEF HOUR_SPAN, DAY_SPAN, WEEK_SPAN, MINUTE_SPAN
<1> DEFINE c == Cron(t)
           H == t \div 60
           M == t % 60
           D == t \div 1440
           dd == Field(c.day, 0 .. 6)
           hh == Field(c.hour, 0 .. 23)
           mm == Field(c.min, 0 .. 59)
<1>1. t = 60 * H + M /\ M \in 0 .. 59 /\ H \in Nat
  BY SMT
<1>2. m \in FireMinutes(c) <=> \E d \in dd, h \in hh, x \in mm : m = d * 1440 + h * 60 + x
  BY DEF FireMinutes
<1>3. /\ \A x \in 0 .. 59 : Field(x, 0 .. 59) = {x}
      /\ \A h \in 0 .. 23 : Field(h, 0 .. 23) = {h}
      /\ \A d \in 0 .. 6 : Field(d, 0 .. 6) = {d}
      /\ Field(Any, 0 .. 23) = 0 .. 23
      /\ Field(Any, 0 .. 6) = 0 .. 6
  <2>1. 0 .. 59 \subseteq Nat /\ 0 .. 23 \subseteq Nat /\ 0 .. 6 \subseteq Nat
    OBVIOUS
  <2>2. 0 \in 0 .. 23 /\ 0 \in 0 .. 6
    OBVIOUS
  <2> QED
    BY <2>1, <2>2, FieldValues
<1>4. CASE Span = HOUR_SPAN
  <2>1. t \div 1 = t /\ t \in 0 .. 59
    BY <1>4, SMT
  <2>2. c.min = t /\ c.hour = Any /\ c.day = Any
    BY <1>4, <2>1 DEF Cron
  <2>3. m \in FireMinutes(c) <=> \E d \in 0 .. 6, h \in 0 .. 23 : m = d * 1440 + h * 60 + t
    <3>1. mm = {t} /\ hh = 0 .. 23 /\ dd = 0 .. 6
      BY <1>3, <2>1, <2>2, Zenon
    <3> HIDE DEF c, dd, hh, mm
    <3> QED
      BY <1>2, <3>1
  <2>4. t = 0 * 1440 + 0 * 60 + t /\ 0 \in 0 .. 6 /\ 0 \in 0 .. 23
    BY SMT
  <2> QED
    BY <1>4, <2>1, <2>3, <2>4
<1>5. CASE Span = DAY_SPAN
  <2>1. H \in 0 .. 23
    BY <1>1, <1>5
  <2>2. c.min = M /\ c.hour = H /\ c.day = Any
    BY <1>5 DEF Cron
  <2> HIDE DEF H, M
  <2>3. m \in FireMinutes(c) <=> \E d \in 0 .. 6 : m = d * 1440 + H * 60 + M
    <3>1. mm = {M} /\ hh = {H} /\ dd = 0 .. 6
      BY <1>1, <1>3, <2>1, <2>2, Zenon
    <3> HIDE DEF c, dd, hh, mm
    <3> QED
      BY <1>2, <3>1
  <2>4. m \in FireMinutes(c) <=> \E d \in 0 .. 6 : m = d * 1440 + t
    BY <1>1, <2>3
  <2>5. t = 0 * 1440 + t /\ 0 \in 0 .. 6
    BY SMT
  <2> QED
    BY <1>5, <2>4, <2>5
<1>6. CASE Span = WEEK_SPAN
  <2>1. t = 1440 * D /\ D \in 0 .. 6
    BY <1>6, SMT
  <2>2. M = 0
    BY <2>1, SMT
  <2>3. c.min = 0 /\ c.hour = 0 /\ c.day = D
    BY <1>6, <2>2 DEF Cron
  <2> HIDE DEF D
  <2>4. m \in FireMinutes(c) <=> m = D * 1440 + 0 * 60 + 0
    <3>1. Field(0, 0 .. 59) = {0} /\ Field(0, 0 .. 23) = {0} /\ Field(D, 0 .. 6) = {D}
      <4>1. 0 \in 0 .. 59 /\ 0 \in 0 .. 23 /\ D \in 0 .. 6
        BY <2>1
      <4>2. /\ 0 \in 0 .. 59 => Field(0, 0 .. 59) = {0}
            /\ 0 \in 0 .. 23 => Field(0, 0 .. 23) = {0}
            /\ D \in 0 .. 6 => Field(D, 0 .. 6) = {D}
        BY <1>3, Zenon
      <4> QED
        BY <4>1, <4>2, Zenon
    <3>2. mm = {0} /\ hh = {0} /\ dd = {D}
      BY <2>3, <3>1, Zenon
    <3> HIDE DEF c, dd, hh, mm
    <3> QED
      BY <1>2, <3>2
  <2> QED
    BY <1>6, <2>1, <2>4
<1> QED
  BY <1>4, <1>5, <1>6, SpanType DEF Spans

(* The next multiple of R is at least R away. *)
LEMMA MultiplesApart ==
  ASSUME NEW R \in Nat, NEW a \in Nat, NEW b \in Nat, a < b
  PROVE  R * a + R <= R * b
<1> DEFINE d == b - a - 1
<1>1. d \in Nat /\ b = a + 1 + d
  OBVIOUS
<1> HIDE DEF d
<1>2. R * d \in Nat
  BY <1>1, ProductType
<1>3. R * (a + 1 + d) = R * a + R + R * d
  BY <1>1, SMT
<1>4. R * a \in Nat /\ R * b \in Nat
  BY ProductType
<1> QED
  BY <1>1, <1>2, <1>3, <1>4

(* No slot is served twice: not by two entries, not by two hosts. *)
LEMMA SlotsDiffer ==
  ASSUME NEW n \in Nat, NEW g \in Nat, NEW h \in Nat, g < n, h < n,
         NEW a \in Nat, NEW b \in Nat, g + a * n = h + b * n
  PROVE  g = h /\ a = b
<1>0. a * n \in Nat /\ b * n \in Nat
  BY ProductType
<1>1. ASSUME a < b PROVE FALSE
  <2>1. n * a + n <= n * b
    BY <1>1, MultiplesApart
  <2>2. n * a = a * n /\ n * b = b * n
    BY SMT
  <2> QED
    BY <1>0, <2>1, <2>2
<1>2. ASSUME b < a PROVE FALSE
  <2>1. n * b + n <= n * a
    BY <1>2, MultiplesApart
  <2>2. n * a = a * n /\ n * b = b * n
    BY SMT
  <2> QED
    BY <1>0, <2>1, <2>2
<1>3. a = b
  BY <1>1, <1>2
<1> QED
  BY <1>0, <1>3

\* Slots are natural numbers.
LEMMA SlotType ==
  ASSUME TypeOK, NEW h \in Hosts, NEW i \in Nat, i > 0
  PROVE  Slot(h, i) \in Nat /\ SlotTime(Slot(h, i)) \in Nat
<1>1. total_hosts \in Nat /\ total_rotation_mins \in Nat /\ h \in Nat
  BY ParametersType
<1>2. i - 1 \in Nat
  OBVIOUS
<1>3. (i - 1) * total_hosts \in Nat
  BY <1>1, <1>2, ProductType
<1>4. Slot(h, i) \in Nat
  BY <1>1, <1>3 DEF Slot
<1> QED
  BY <1>1, <1>4, ProductType DEF SlotTime

(* The rotations of a cycle are at the slots of its entries. *)
LEMMA CycleSlots ==
  ASSUME IInv, Aligned, NEW h \in Hosts, NEW i \in 1 .. Len(crons[h]), NEW m
  PROVE  m \in FireMinutes(crons[h][i]) /\ m < Span <=> m = SlotTime(Slot(h, i))
<1> DEFINE t == SlotTime(Slot(h, i))
<1>0. TypeOK /\ Entries
  BY DEF IInv
<1>1. Len(crons[h]) \in Nat /\ i \in Nat /\ i > 0
  BY <1>0 DEF TypeOK
<1>2. Slot(h, i) \in Nat /\ t \in Nat
  BY <1>0, <1>1, SlotType
<1>3. crons[h][i] = Cron(t) /\ t + total_rotation_mins <= Span
  BY <1>0 DEF Entries, Fits
<1>4. t < Span
  BY <1>0, <1>2, <1>3, ParametersType, SpanType
<1>5. Span = WEEK_SPAN => t % DAY_SPAN = 0
  <2> SUFFICES ASSUME Span = WEEK_SPAN PROVE t % DAY_SPAN = 0
    OBVIOUS
  <2>1. DAY_SPAN = 1440
    BY DEF DAY_SPAN, HOUR_SPAN
  <2>2. total_rotation_mins % 1440 = 0 /\ total_rotation_mins \in Nat
    BY <1>0, <2>1, ParametersType DEF Aligned
  <2>3. (total_rotation_mins * Slot(h, i)) % 1440 = 0
    <3> DEFINE R == total_rotation_mins
               k == Slot(h, i)
    <3>1. R \in Nat /\ R % 1440 = 0 /\ k \in Nat
      BY <1>2, <2>2
    <3> HIDE DEF R, k
    <3> DEFINE q == R \div 1440
               z == q * k
    <3>2. q \in Nat /\ R = 1440 * q
      BY <3>1, SMT
    <3>3. z \in Nat /\ R * k = 1440 * z
      <4> HIDE DEF q
      <4> QED
        BY <3>1, <3>2, ProductType, SMT
    <3> HIDE DEF z
    <3>4. (1440 * z) % 1440 = 0
      BY <3>3, SMT
    <3>5. (R * k) % 1440 = 0
      BY <3>1, <3>3, <3>4, SMT
    <3> QED
      BY <3>5 DEF R, k
  <2> QED
    BY <2>1, <2>3 DEF SlotTime
<1> HIDE DEF t
<1>6. m \in FireMinutes(Cron(t)) /\ m < Span <=> m = t
  BY <1>2, <1>4, <1>5, FireAt
<1> QED
  BY <1>3, <1>6 DEF t

-----------------------------------------------------------------------------
(***************************************************************************)
(* For every group size, and for every interval that fits the hourly or    *)
(* the daily cycle or is a whole number of days, no two rotations of the   *)
(* group are closer than the interval.                                     *)
(***************************************************************************)
THEOREM NeverEarly == Spec => [](Aligned => NoOverRotation)
<1>1. ASSUME IInv, Aligned, NEW r \in Cycle, NEW s \in Cycle, r # s
      PROVE  (s.at - r.at) % Span >= total_rotation_mins
  <2>0. TypeOK /\ Entries
    BY <1>1 DEF IInv
  <2>a. \A x \in Cycle : \E k \in Hosts : \E e \in DOMAIN crons[k] :
            \E m \in FireMinutes(crons[k][e]) : x = [host |-> k, entry |-> e, at |-> m]
    BY DEF Cycle, Rotations
  <2>b. PICK g \in Hosts : \E e \in DOMAIN crons[g] :
            \E m \in FireMinutes(crons[g][e]) : r = [host |-> g, entry |-> e, at |-> m]
    BY <1>1, <2>a
  <2>c. PICK h \in Hosts : \E e \in DOMAIN crons[h] :
            \E m \in FireMinutes(crons[h][e]) : s = [host |-> h, entry |-> e, at |-> m]
    BY <1>1, <2>a
  <2>d. PICK i \in DOMAIN crons[g] :
            \E m \in FireMinutes(crons[g][i]) : r = [host |-> g, entry |-> i, at |-> m]
    BY <2>b
  <2>e. PICK j \in DOMAIN crons[h] :
            \E m \in FireMinutes(crons[h][j]) : s = [host |-> h, entry |-> j, at |-> m]
    BY <2>c
  <2>1. PICK u \in FireMinutes(crons[g][i]) : r = [host |-> g, entry |-> i, at |-> u]
    BY <2>d
  <2>2. PICK v \in FireMinutes(crons[h][j]) : s = [host |-> h, entry |-> j, at |-> v]
    BY <2>e
  <2>3. /\ i \in 1 .. Len(crons[g]) /\ i \in Nat /\ i > 0
        /\ j \in 1 .. Len(crons[h]) /\ j \in Nat /\ j > 0
    BY <2>0 DEF TypeOK
  <2>4. u < Span /\ v < Span /\ r.at = u /\ s.at = v
    BY <1>1, <2>1, <2>2 DEF Cycle
  <2>5. u = SlotTime(Slot(g, i)) /\ v = SlotTime(Slot(h, j))
    BY <1>1, <2>1, <2>2, <2>3, <2>4, CycleSlots
  <2> DEFINE a == Slot(g, i)
             b == Slot(h, j)
             R == total_rotation_mins
             n == total_hosts
  <2>6. a \in Nat /\ b \in Nat /\ R \in Nat /\ R > 0 /\ n \in Nat /\ Span \in Nat
    BY <2>0, <2>3, SlotType, ParametersType, SpanType
  <2>7. u = R * a /\ v = R * b
    BY <2>5 DEF SlotTime
  <2>8. u + R <= Span /\ v + R <= Span
    BY <2>0, <2>3, <2>5 DEF Entries, Fits
  <2>9. a # b
    <3> SUFFICES ASSUME a = b PROVE FALSE
      OBVIOUS
    <3>1. g + (i - 1) * n = h + (j - 1) * n
      BY DEF Slot
    <3>2. i - 1 \in Nat /\ j - 1 \in Nat /\ g \in Nat /\ h \in Nat /\ g < n /\ h < n
      BY <2>0, <2>3, ParametersType
    <3>3. g = h /\ i - 1 = j - 1
      BY <2>6, <3>1, <3>2, SlotsDiffer
    <3>4. i = j
      BY <2>3, <3>3
    <3> QED
      BY <1>1, <2>1, <2>2, <2>7, <3>3, <3>4
  <2> HIDE DEF a, b, R, n
  <2>10. u \in Nat /\ v \in Nat
    BY <2>6, <2>7, ProductType
  <2>11. u + R <= v \/ v + R <= u
    BY <2>6, <2>7, <2>9, MultiplesApart
  <2>12. (v - u) % Span >= R
    <3>1. CASE u + R <= v
      <4>1. v - u \in 0 .. Span - 1
        BY <2>4, <2>6, <2>10, <3>1
      <4>2. (v - u) % Span = v - u
        BY <2>6, <4>1, SMT
      <4> QED
        BY <2>6, <2>10, <3>1, <4>2
    <3>2. CASE v + R <= u
      <4> DEFINE w == v - u + Span
      <4>1. w \in 0 .. Span - 1 /\ w >= R
        BY <2>4, <2>6, <2>8, <2>10, <3>2
      <4>2. (v - u) % Span = w
        BY <2>6, <2>10, <4>1, SMT
      <4> QED
        BY <4>1, <4>2
    <3> QED
      BY <2>11, <3>1, <3>2
  <2> QED
    BY <2>4, <2>12 DEF R
<1>2. IInv => (Aligned => NoOverRotation)
  BY <1>1 DEF NoOverRotation
<1> QED
  BY <1>2, LoopInvariant, PTL

(***************************************************************************)
(* ... and every interval of the cycle is served, by the hosts in turn.    *)
(***************************************************************************)
THEOREM ServesInTurn == Spec => [](Aligned => RoundRobin)
<1>1. ASSUME IInv, Aligned, pc = "deployed",
             NEW k \in 0 .. (Span \div total_rotation_mins) - 1
      PROVE  \E r \in Cycle : r.at = k * total_rotation_mins /\ r.host = k % total_hosts
  <2>0. TypeOK /\ Entries /\ Complete
    BY <1>1 DEF IInv
  <2> DEFINE n == total_hosts
             R == total_rotation_mins
             h == k % n
             i == k \div n + 1
             L == Len(crons[h])
  <2>1. n \in Nat /\ n > 0 /\ R \in Nat /\ R > 0 /\ Span \in Nat
    BY <2>0, ParametersType, SpanType
  <2>2. h \in Hosts /\ h \in Nat
    BY <2>1 DEF Hosts
  <2>3. L \in Nat
    BY <2>0, <2>2 DEF TypeOK
  <2>4. k \in Nat /\ i \in Nat /\ i > 0 /\ k = h + (i - 1) * n
    BY <2>1, SMT
  <2>5. R * k + R <= Span
    <3> DEFINE q == Span \div R
    <3>1. q \in Nat /\ R * q <= Span /\ k < q
      BY <2>1, SMT
    <3> HIDE DEF q
    <3>2. R * k + R <= R * q
      BY <2>1, <2>4, <3>1, MultiplesApart
    <3>3. R * k \in Nat /\ R * q \in Nat
      BY <2>1, <2>4, <3>1, ProductType
    <3> QED
      BY <2>1, <3>1, <3>2, <3>3
  <2>6. i <= L
    <3> SUFFICES ASSUME L < i PROVE FALSE
      BY <2>3, <2>4
    <3> DEFINE l == Slot(h, L + 1)
    <3>1. l \in Nat /\ l <= k
      <4>1. L * n \in Nat /\ (i - 1) * n \in Nat
        BY <2>1, <2>3, <2>4, ProductType
      <4>2. L * n <= (i - 1) * n
        <5>1. CASE L = i - 1
          BY <4>1, <5>1
        <5>2. CASE L < i - 1
          <6>1. n * L + n <= n * (i - 1)
            BY <2>1, <2>3, <2>4, <5>2, MultiplesApart
          <6>2. n * L = L * n /\ n * (i - 1) = (i - 1) * n
            BY <2>1, <2>3, <2>4, SMT
          <6> QED
            BY <2>1, <4>1, <6>1, <6>2
        <5> QED
          BY <2>3, <2>4, <5>1, <5>2
      <4>3. l = h + L * n
        BY <2>3 DEF Slot
      <4> QED
        BY <2>2, <2>4, <4>1, <4>2, <4>3
    <3>2. R * l <= R * k
      <4>0. R * l \in Nat /\ R * k \in Nat
        BY <2>1, <2>4, <3>1, ProductType
      <4>1. CASE l = k
        BY <4>0, <4>1
      <4>2. CASE l < k
        BY <2>1, <2>4, <3>1, <4>0, <4>2, MultiplesApart
      <4> QED
        BY <2>4, <3>1, <4>1, <4>2
    <3>3. R * l \in Nat /\ R * k \in Nat
      BY <2>1, <2>4, <3>1, ProductType
    <3>4. ~(R * l + R <= Span)
      BY <1>1, <2>0, <2>2 DEF Complete, Fits, SlotTime
    <3> HIDE DEF l
    <3> QED
      BY <2>1, <2>5, <3>2, <3>3, <3>4
  <2>7. i \in 1 .. L
    BY <2>3, <2>4, <2>6
  <2>8. SlotTime(Slot(h, i)) = k * R
    <3>1. Slot(h, i) = k
      BY <2>4 DEF Slot
    <3> QED
      BY <2>1, <2>4, <3>1 DEF SlotTime
  <2> DEFINE r == [host |-> h, entry |-> i, at |-> k * R]
  <2>9. k * R \in FireMinutes(crons[h][i]) /\ k * R < Span
    BY <1>1, <2>2, <2>7, <2>8, CycleSlots
  <2>10. i \in DOMAIN crons[h]
    BY <2>0, <2>2, <2>7 DEF TypeOK
  <2>11. r \in Cycle
    <3> HIDE DEF h, i, R
    <3>1. r \in {[host |-> h, entry |-> i, at |-> m] : m \in FireMinutes(crons[h][i])}
      BY <2>9
    <3> DEFINE E(e) == {[host |-> h, entry |-> e, at |-> m] : m \in FireMinutes(crons[h][e])}
    <3>2. r \in UNION {E(e) : e \in DOMAIN crons[h]}
      <4>1. r \in E(i)
        BY <3>1
      <4> HIDE DEF E, r
      <4> QED
        BY <2>10, <4>1
    <3>3. r \in Rotations
      <4> DEFINE F(g) == UNION {{[host |-> g, entry |-> e, at |-> m] :
                                    m \in FireMinutes(crons[g][e])} :
                                e \in DOMAIN crons[g]}
      <4>1. r \in F(h)
        BY <3>2
      <4>2. Rotations = UNION {F(g) : g \in Hosts}
        BY DEF Rotations
      <4> HIDE DEF F, r
      <4> QED
        BY <2>2, <4>1, <4>2
    <3>4. r.at = k * R
      OBVIOUS
    <3> QED
      BY <2>9, <3>3, <3>4 DEF Cycle
  <2> QED
    BY <2>11
<1>2. IInv => (Aligned => RoundRobin)
  BY <1>1 DEF RoundRobin
<1> QED
  BY <1>2, LoopInvariant, PTL

(* Every field of every crontab is in the range the comments give, except   *)
(* that the hour of the weekly branch may be anything up to 59.             *)
THEOREM CronTypeCorrect == Spec => []TypeOK
<1>1. IInv => TypeOK
  BY DEF IInv
<1> QED
  BY <1>1, LoopInvariant, PTL
=============================================================================
