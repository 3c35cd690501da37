---------------------------- MODULE FernetProofs ----------------------------
(***************************************************************************)
(* Proofs about FernetKeys and FernetBootstrap.  The former are for every  *)
(* number of hosts, token life, rotation interval and push time, as long   *)
(* as a deployment does not push during a rotation's push                  *)
(* (FernetOverlap.cfg shows what happens then); the latter for docker, for *)
(* every number of keystone hosts and every number of deployments,         *)
(* replacements, stops and losses.                                         *)
(***************************************************************************)
EXTENDS FernetKeys, FernetBootstrap, FiniteSetTheorems, WellFoundedInduction, TLAPS

-----------------------------------------------------------------------------
(* Pushes.                                                                 *)

\* A push that has still to reach somebody never has to reach its own host.
PushTyped ==
    /\ DOMAIN repo = Hosts /\ repo = [h \in Hosts |-> repo[h]]
    /\ push \in [Pushers -> [from : Hosts, to : Seq(Hosts)]]
    /\ lost \in Nat

\* The hosts that a push has still to reach.
Pending(p) == {push[p].to[i] : i \in 1 .. Len(push[p].to)}

\* One push at a time; the hosts it need not reach any more have its keys.
Pushing ==
    /\ Idle("cron") \/ Idle("deploy")
    /\ \A p \in Pushers : ~Idle(p) =>
          /\ push[p].from \notin Pending(p)
          /\ \A h \in Hosts \ Pending(p) : repo[h] = repo[push[p].from]
    /\ lost = 0 /\ (\A p \in Pushers : Idle(p)) => \A g, h \in Hosts : repo[g] = repo[h]

PushInv == PushTyped /\ Pushing

\* Others(h) is the group without h.
LEMMA OthersType ==
    ASSUME NEW h \in Hosts
    PROVE  /\ Others(h) \in Seq(Hosts)
           /\ Len(Others(h)) = N - 1
           /\ {Others(h)[i] : i \in 1 .. Len(Others(h))} = Hosts \ {h}
<1>1. N \in Nat \ {0} /\ h \in Nat /\ 1 <= h /\ h <= N
  BY FernetAssumption DEF Hosts
<1>2. Others(h) \in [1 .. N - 1 -> Hosts]
  BY <1>1 DEF Others, Hosts
<1>3. Others(h) \in Seq(Hosts) /\ Len(Others(h)) = N - 1
  BY <1>1, <1>2
<1>4. ASSUME NEW g \in Hosts \ {h}
      PROVE  \E i \in 1 .. N - 1 : Others(h)[i] = g
  <2>1. CASE g < h
    <3>1. g \in 1 .. N - 1 /\ Others(h)[g] = g
      BY <1>1, <2>1 DEF Others, Hosts
    <3> QED
      BY <3>1
  <2>2. CASE g > h
    <3>1. g - 1 \in 1 .. N - 1 /\ Others(h)[g - 1] = g
      BY <1>1, <2>2 DEF Others, Hosts
    <3> QED
      BY <3>1
  <2> QED
    BY <1>1, <2>1, <2>2 DEF Hosts
<1>5. \A i \in 1 .. N - 1 : Others(h)[i] \in Hosts \ {h}
  BY <1>1, <1>2 DEF Others
<1> QED
  BY <1>3, <1>4, <1>5

\* What is left to push after the next host.
LEMMA TailPending ==
    ASSUME PushTyped, NEW p \in Pushers, ~Idle(p)
    PROVE  /\ Head(push[p].to) \in Hosts
           /\ Tail(push[p].to) \in Seq(Hosts)
           /\ Pending(p) = {Head(push[p].to)}
                \cup {Tail(push[p].to)[i] : i \in 1 .. Len(Tail(push[p].to))}
<1> DEFINE s == push[p].to
<1>1. s \in Seq(Hosts) /\ s # <<>>
  BY DEF PushTyped, Idle
<1> HIDE DEF s
<1>2. /\ Head(s) = s[1] /\ Head(s) \in Hosts /\ Tail(s) \in Seq(Hosts)
      /\ Len(s) \in Nat \ {0} /\ Len(Tail(s)) = Len(s) - 1
      /\ \A i \in 1 .. Len(Tail(s)) : Tail(s)[i] = s[i + 1]
  BY <1>1
<1>3. {s[i] : i \in 1 .. Len(s)} = {Head(s)} \cup {Tail(s)[i] : i \in 1 .. Len(Tail(s))}
  <2>1. \A i \in 1 .. Len(s) : i = 1 \/ (i - 1 \in 1 .. Len(Tail(s)) /\ Tail(s)[i - 1] = s[i])
    BY <1>2
  <2>2. \A i \in 1 .. Len(Tail(s)) : i + 1 \in 1 .. Len(s)
    BY <1>2
  <2> QED
    BY <1>2, <2>1, <2>2
<1> QED
  BY <1>2, <1>3 DEF s, Pending

\* Types of the pushes.
LEMMA PushTypedNext ==
    ASSUME PushTyped, [Next]_vars
    PROVE  PushTyped'
<1> USE DEF PushTyped
<1>1. ASSUME NEW h \in Hosts, Rotate(h) \/ Distribute(h)
      PROVE  PushTyped'
  <2>1. [from |-> h, to |-> Others(h)] \in [from : Hosts, to : Seq(Hosts)]
    BY OthersType
  <2>2. PICK q \in Pushers : push' = [push EXCEPT ![q] = [from |-> h, to |-> Others(h)]]
    BY <1>1 DEF Rotate, Distribute, Pushers
  <2>3. push' \in [Pushers -> [from : Hosts, to : Seq(Hosts)]]
    BY <2>1, <2>2
  <2>4. DOMAIN repo' = Hosts /\ repo' = [g \in Hosts |-> repo'[g]]
    <3>1. CASE Rotate(h)
      <4>1. PICK r : repo' = [repo EXCEPT ![h] = r]
        BY <3>1 DEF Rotate
      <4> QED
        BY <4>1
    <3>2. CASE Distribute(h)
      BY <3>2 DEF Distribute
    <3> QED
      BY <1>1, <3>1, <3>2
  <2> QED
    BY <1>1, <2>3, <2>4 DEF Rotate, Distribute
<1>2. ASSUME NEW p \in Pushers, Rsync(p)
      PROVE  PushTyped'
  <2>1. push' \in [Pushers -> [from : Hosts, to : Seq(Hosts)]]
    BY <1>2, TailPending DEF Rsync
  <2> QED
    BY <1>2, <2>1 DEF Rsync
<1>3. ASSUME NEW p \in Pushers, RsyncFails(p)
      PROVE  PushTyped'
  <2>1. <<>> \in Seq(Hosts)
    OBVIOUS
  <2>2. push' \in [Pushers -> [from : Hosts, to : Seq(Hosts)]]
    BY <1>3, <2>1 DEF RsyncFails
  <2> QED
    BY <1>3, <2>2 DEF RsyncFails
<1>4. CASE Tick \/ UNCHANGED vars \/ \E h \in Hosts : IssueToken(h)
  BY <1>4 DEF Tick, IssueToken, vars
<1> QED
  BY <1>1, <1>2, <1>3, <1>4 DEF Next

\* A push goes on as it began.
LEMMA PushingNext ==
    ASSUME Overlap = FALSE, PushInv, [Next]_vars
    PROVE  Pushing'
<1>1. PushTyped /\ Pushing
  BY DEF PushInv
<1>2. ASSUME NEW h \in Hosts, Rotate(h) \/ Distribute(h)
      PROVE  Pushing'
  <2>1. \A p \in Pushers : Idle(p)
    BY <1>2 DEF Rotate, Distribute, Pushers
  <2>2. PICK q \in Pushers :
            /\ push' = [push EXCEPT ![q] = [from |-> h, to |-> Others(h)]]
            /\ \A g \in Hosts \ {h} : repo'[g] = repo[g]
            /\ repo' = repo \/ q = "cron"
    BY <1>1, <1>2 DEF Rotate, Distribute, Pushers, PushTyped
  <2>3. push'[q] = [from |-> h, to |-> Others(h)]
        /\ \A p \in Pushers \ {q} : push'[p] = push[p]
    BY <1>1, <2>2 DEF PushTyped
  <2>4. Pending(q)' = Hosts \ {h}
    BY <2>3, OthersType DEF Pending
  <2>5. \A p \in Pushers \ {q} : Idle(p)'
    BY <2>1, <2>3 DEF Idle
  <2>6. Idle(q)' => Hosts = {h}
    <3>1. Idle(q)' => Len(Others(h)) = 0
      BY <2>3 DEF Idle
    <3> QED
      BY <3>1, OthersType, FernetAssumption DEF Hosts
  <2> QED
    BY <2>3, <2>4, <2>5, <2>6 DEF Pushing, Pushers
<1>3. ASSUME NEW p \in Pushers, Rsync(p)
      PROVE  Pushing'
  <2> DEFINE next == Head(push[p].to)
             from == push[p].from
  <2>1. ~Idle(p) /\ repo' = [repo EXCEPT ![next] = repo[from]]
        /\ push' = [push EXCEPT ![p].to = Tail(@)] /\ lost' = lost
    BY <1>3 DEF Rsync
  <2>2. next \in Hosts /\ from \in Hosts /\ next # from
    <3>1. next \in Pending(p) /\ next \in Hosts
      BY <1>1, <2>1, TailPending
    <3> QED
      BY <1>1, <2>1, <3>1 DEF Pushing, PushTyped
  <2>3. push'[p].from = from /\ push'[p].to = Tail(push[p].to)
        /\ \A q \in Pushers \ {p} : push'[q] = push[q]
    BY <1>1, <2>1 DEF PushTyped
  <2>4. Pending(p) = {next} \cup Pending(p)'
    BY <1>1, <2>1, <2>3, TailPending DEF Pending
  <2>5. \A q \in Pushers \ {p} : Idle(q) /\ Idle(q)'
    BY <1>1, <2>1, <2>3 DEF Pushing, Pushers, Idle
  <2>6. repo'[from] = repo[from] /\ from \notin Pending(p)'
        /\ \A h \in Hosts \ Pending(p)' : repo'[h] = repo[from]
    BY <1>1, <2>1, <2>2, <2>4 DEF Pushing, PushTyped
  <2>7. Idle(p)' => Pending(p)' = {}
    BY DEF Idle, Pending
  <2> QED
    BY <2>3, <2>5, <2>6, <2>7 DEF Pushing, Pushers
<1>4. ASSUME NEW p \in Pushers, RsyncFails(p)
      PROVE  Pushing'
  <2>1. push'[p].to = <<>> /\ lost' # 0 /\ UNCHANGED repo
        /\ \A q \in Pushers \ {p} : push'[q] = push[q]
    BY <1>1, <1>4 DEF RsyncFails, PushTyped
  <2>2. \A q \in Pushers : Idle(q)'
    BY <1>1, <1>4, <2>1 DEF Pushing, Pushers, Idle, RsyncFails
  <2> QED
    BY <2>1, <2>2 DEF Pushing, Pushers
<1>5. CASE Tick \/ UNCHANGED vars \/ \E h \in Hosts : IssueToken(h)
  BY <1>1, <1>5 DEF Tick, IssueToken, vars, Pushing, Idle, Pending
<1> QED
  BY <1>2, <1>3, <1>4, <1>5 DEF Next

\* Nobody pushes at first, and the repositories are the same.
LEMMA PushInit == Init => PushInv
<1> SUFFICES ASSUME Init PROVE PushInv
  OBVIOUS
<1>1. 1 \in Hosts
  BY FernetAssumption DEF Hosts
<1>2. PushTyped
  BY <1>1 DEF Init, PushTyped
<1>3. Pushing
  BY DEF Init, Pushing, Idle, Pushers
<1> QED
  BY <1>2, <1>3 DEF PushInv

\* The invariant of the pushes.
LEMMA PushInvariant ==
    ASSUME Overlap = FALSE
    PROVE  Spec => []PushInv
<1>1. Init => PushInv
  BY PushInit
<1>2. PushInv /\ [Next]_vars => PushInv'
  BY PushTypedNext, PushingNext DEF PushInv
<1> QED
  BY <1>1, <1>2, PTL DEF Spec

\* Every push that ends without an error leaves all hosts with the same keys, and
\* unless one failed they have the same keys between pushes.
THEOREM PushesSynchronise ==
    ASSUME Overlap = FALSE
    PROVE  Spec => PushesReachAll
<1>1. PushInv => Synchronised
  BY DEF PushInv, Pushing, Synchronised
<1>2. PushInv /\ [Next]_vars => [PushStep]_vars
  <2> SUFFICES ASSUME PushInv, Next, NEW p \in Pushers, ~Idle(p), push'[p].to = <<>>,
                      lost' = lost
               PROVE  \A g, h \in Hosts : repo'[g] = repo'[h]
    BY DEF PushStep
  <2>1. PushTyped /\ Pushing
    BY DEF PushInv
  <2>2. Rsync(p)
    <3>1. \A h \in Hosts : ~Rotate(h) /\ ~Distribute(h)
      BY <2>1 DEF Pushing, Pushers, Rotate, Distribute
    <3>2. \A q \in Pushers : ~RsyncFails(q)
      BY <2>1 DEF RsyncFails, PushTyped
    <3>3. \A q \in Pushers \ {p} : ~Rsync(q)
      BY <2>1 DEF Pushing, Pushers, Rsync
    <3>4. ~Tick /\ \A h \in Hosts : ~IssueToken(h)
      BY DEF Tick, IssueToken, Idle
    <3> QED
      BY <3>1, <3>2, <3>3, <3>4 DEF Next
  <2>3. Tail(push[p].to) = <<>>
    BY <2>1, <2>2 DEF Rsync, PushTyped
  <2>4. Pending(p) = {Head(push[p].to)} /\ Head(push[p].to) \in Hosts
    <3> DEFINE rest == Tail(push[p].to)
    <3>1. rest = <<>>
      BY <2>3
    <3> HIDE DEF rest
    <3>2. {rest[i] : i \in 1 .. Len(rest)} = {}
      BY <3>1
    <3> QED
      BY <2>1, <3>2, TailPending DEF rest
  <2>5. /\ repo' = [repo EXCEPT ![Head(push[p].to)] = repo[push[p].from]]
        /\ \A h \in Hosts \ {Head(push[p].to)} : repo[h] = repo[push[p].from]
    BY <2>1, <2>2, <2>4 DEF Rsync, Pushing
  <2>6. \A h \in Hosts : repo'[h] = repo[push[p].from]
    BY <2>1, <2>4, <2>5 DEF PushTyped
  <2> QED
    BY <2>6
<1> QED
  BY <1>1, <1>2, PushInvariant, PTL DEF Spec, PushesReachAll, PushSynchronises

-----------------------------------------------------------------------------
(* Repositories.                                                           *)

\* A repository: the staged key 0 and the signing keys lo .. hi, all different, never
\* more than may be active.
Shape(r, lo, hi) ==
    /\ lo \in Nat /\ hi \in Nat /\ 1 <= lo /\ lo <= hi
    /\ hi - lo + 2 <= max_active_keys
    /\ r \in [{0} \cup (lo .. hi) -> Keys]
    /\ \A i, j \in {0} \cup (lo .. hi) : r[i] = r[j] => i = j

\* The constants as natural numbers.
LEMMA Numbers ==
    /\ N \in Nat /\ 1 <= N /\ TokenLife \in Nat /\ 1 <= TokenLife
    /\ Interval \in Nat /\ 1 <= Interval
    /\ MaxTime \in Nat /\ MaxDeploys \in Nat /\ MaxLost \in Nat
    /\ PushTime \in Nat
<1>1. N \in Nat \ {0} /\ TokenLife \in Nat \ {0} /\ Interval \in Nat \ {0}
      /\ MaxTime \in Nat /\ MaxDeploys \in Nat /\ MaxLost \in Nat
  BY FernetAssumption
<1> QED
  BY <1>1, FernetAssumption

\* At least three keys are active: the staged, the primary and the one before it.
LEMMA ThreeKeys == max_active_keys \in Nat /\ 3 <= max_active_keys
<1>1. \A a, b \in Nat : 1 <= b /\ b <= a => a \div b \in Nat /\ 1 <= a \div b
  OBVIOUS
<1>2. TokenLife + Interval - 1 \in Nat /\ Interval <= TokenLife + Interval - 1
  BY Numbers
<1>3. (TokenLife + Interval - 1) \div Interval \in Nat
      /\ 1 <= (TokenLife + Interval - 1) \div Interval
  BY <1>1, <1>2, Numbers
<1> QED
  BY <1>3 DEF max_active_keys

\* There are keys for every rotation that fits in the time.
LEMMA KeysEnough ==
    /\ Keys \subseteq Nat /\ 0 \in Keys /\ 1 \in Keys
    /\ \A n \in Nat : n * Interval <= MaxTime => n + 2 \in Keys
<1>1. \A n, a, b \in Nat : 1 <= b /\ n * b <= a => a \div b \in Nat /\ n <= a \div b
  OBVIOUS
<1>2. \A a, b \in Nat : 1 <= b => a \div b \in Nat
  OBVIOUS
<1>3. MaxTime \div Interval \in Nat
  BY <1>2, Numbers
<1> DEFINE d == MaxTime \div Interval
<1>4. \A n \in Nat : n * Interval <= MaxTime => n <= d
  BY <1>1, Numbers
<1> HIDE DEF d
<1>5. d \in Nat /\ Keys = 0 .. d + 3
  BY <1>3 DEF d, Keys
<1> QED
  BY <1>4, <1>5

\* The primary key of a repository is the last one.
LEMMA ShapeMax ==
    ASSUME NEW r, NEW lo, NEW hi, Shape(r, lo, hi)
    PROVE  DOMAIN r = {0} \cup (lo .. hi) /\ Max(DOMAIN r) = hi
<1>1. DOMAIN r = {0} \cup (lo .. hi)
  BY DEF Shape
<1>2. hi \in DOMAIN r /\ \A y \in DOMAIN r : hi >= y
  BY <1>1 DEF Shape
<1>3. \A x \in DOMAIN r : (\A y \in DOMAIN r : x >= y) => x = hi
  BY <1>1, <1>2 DEF Shape
<1> QED
  BY <1>1, <1>2, <1>3 DEF Max

\* What fernet_rotate makes of a repository.
Rotated(r, s, lo, hi, low) ==
    /\ Shape(s, low, hi + 1)
    /\ lo <= low /\ low <= hi
    /\ s[hi + 1] = r[0]
    /\ \A i \in low .. hi : s[i] = r[i]
    /\ \A i \in lo .. hi : i < low => hi + 1 - i >= max_active_keys - 1

\* fernet_rotate keeps the shape; what it drops is as old as a key may get.
LEMMA RotateShape ==
    ASSUME NEW r, NEW lo, NEW hi, Shape(r, lo, hi),
           NEW f \in Keys, \A i \in DOMAIN r : r[i] # f
    PROVE  /\ \E low \in Nat : Rotated(r, FernetRotate(r, f), lo, hi, low)
           /\ FernetRotate(r, f)[0] = f
<1> DEFINE signing == (DOMAIN r \ {0}) \cup {hi + 1}
           kept    == {i \in signing : Cardinality({j \in signing : j > i}) < max_active_keys - 1}
           low     == IF lo > hi + 3 - max_active_keys THEN lo ELSE hi + 3 - max_active_keys
           s       == [i \in kept \cup {0} |->
                          IF i = 0 THEN f ELSE IF i = hi + 1 THEN r[0] ELSE r[i]]
<1>1. lo \in Nat /\ hi \in Nat /\ 1 <= lo /\ lo <= hi
      /\ max_active_keys \in Nat /\ 3 <= max_active_keys
      /\ hi - lo + 2 <= max_active_keys
  BY ThreeKeys DEF Shape
<1>2. FernetRotate(r, f) = s
  BY ShapeMax DEF FernetRotate
<1>3. signing = lo .. hi + 1
  <2>1. signing = (({0} \cup (lo .. hi)) \ {0}) \cup {hi + 1}
    BY ShapeMax
  <2> QED
    BY <1>1, <2>1
<1>4. \A i \in lo .. hi + 1 : Cardinality({j \in lo .. hi + 1 : j > i}) = hi + 1 - i
  <2> SUFFICES ASSUME NEW i \in lo .. hi + 1
               PROVE  Cardinality({j \in lo .. hi + 1 : j > i}) = hi + 1 - i
    OBVIOUS
  <2> DEFINE above == {j \in lo .. hi + 1 : j > i}
  <2>1. above = i + 1 .. hi + 1
    BY <1>1
  <2> HIDE DEF above
  <2>2. Cardinality(above) = IF i + 1 > hi + 1 THEN 0 ELSE hi + 1 - (i + 1) + 1
    BY <1>1, <2>1, FS_Interval
  <2>3. Cardinality(above) = hi + 1 - i
    BY <1>1, <2>2
  <2> QED
    BY <2>3 DEF above
<1>5. kept = {i \in lo .. hi + 1 : hi + 1 - i < max_active_keys - 1}
  BY <1>3, <1>4
<1>6. low \in Nat /\ lo <= low /\ low <= hi
  BY <1>1
<1>7. kept = low .. hi + 1
  BY <1>1, <1>5
<1> HIDE DEF kept, signing
<1>8. DOMAIN s = {0} \cup (low .. hi + 1)
  BY <1>7
<1>9. s[0] = f /\ s[hi + 1] = r[0] /\ \A i \in low .. hi : s[i] = r[i]
  BY <1>1, <1>6, <1>7
<1>10. /\ r[0] \in Keys /\ \A i \in low .. hi : r[i] \in Keys
       /\ \A i \in low .. hi : r[i] # r[0]
       /\ \A i, j \in low .. hi : r[i] = r[j] => i = j
  BY <1>1, <1>6 DEF Shape
<1>11. r[0] # f /\ \A i \in low .. hi : r[i] # f
  <2>1. 0 \in DOMAIN r /\ \A i \in lo .. hi : i \in DOMAIN r
    BY ShapeMax
  <2>2. \A i \in low .. hi : i \in lo .. hi
    BY <1>1, <1>6
  <2> QED
    BY <2>1, <2>2
<1>12. \A i \in low .. hi + 1 : i = hi + 1 \/ i \in low .. hi
  BY <1>1, <1>6
<1>13. s = [i \in {0} \cup (low .. hi + 1) |-> s[i]]
  BY <1>8
<1> HIDE DEF s
<1>14. s \in [{0} \cup (low .. hi + 1) -> Keys]
  BY <1>8, <1>9, <1>10, <1>12, <1>13
<1>15. \A i, j \in {0} \cup (low .. hi + 1) : s[i] = s[j] => i = j
  BY <1>9, <1>10, <1>11, <1>12
<1>16. hi + 1 - low + 2 <= max_active_keys
  BY <1>1
<1>17. \A i \in lo .. hi : i < low => hi + 1 - i >= max_active_keys - 1
  BY <1>1
<1> HIDE DEF low
<1>18. Rotated(r, s, lo, hi, low)
  BY <1>1, <1>6, <1>9, <1>14, <1>15, <1>16, <1>17 DEF Rotated, Shape
<1> QED
  BY <1>2, <1>6, <1>9, <1>18

\* Times and counters.
Clocks ==
    /\ now \in Nat /\ now <= MaxTime
    /\ rotated \in Nat /\ rotated <= now
    /\ deploys \in Nat /\ deploys <= MaxDeploys
    /\ lost <= MaxLost
    /\ \A p \in Pushers : Len(push[p].to) < N

\* Every repository has its shape.
Stored == \A h \in Hosts : \E lo, hi \in Nat : Shape(repo[h], lo, hi)

\* When each key last signed a token.
Signatures == /\ issued \in [Keys -> Int]
              /\ \A k \in Keys : Never <= issued[k] /\ issued[k] <= now

\* After n rotations, which take n intervals, the keys 0 .. n + 1 are all that were used.
CountedBy(n) == /\ n * Interval <= rotated
                /\ \A k \in Keys : k > n + 1 =>
                      issued[k] = Never /\ \A h \in Hosts : k \notin Known(h)

Counted == \E n \in Nat : CountedBy(n)

KeysInv == PushTyped /\ Clocks /\ Stored /\ Signatures /\ Counted

\* There is a key that keystone-manage can generate.
LEMMA FreshKeyExists ==
    ASSUME KeysInv, NEW n \in Nat, CountedBy(n)
    PROVE  /\ FreshKey \in Keys /\ FreshKey <= n + 2
           /\ issued[FreshKey] = Never
           /\ \A h \in Hosts : FreshKey \notin Known(h)
<1> DEFINE free == {k \in Keys : issued[k] = Never /\ \A h \in Hosts : k \notin Known(h)}
<1>1. free \subseteq Nat
  BY KeysEnough
<1>2. n + 2 \in free
  <2>1. n * Interval <= MaxTime
    <3>1. n * Interval \in Int
      BY Numbers
    <3>2. n * Interval <= rotated /\ rotated <= now /\ now <= MaxTime
      BY DEF CountedBy, KeysInv, Clocks
    <3> QED
      BY <3>1, <3>2, Numbers DEF KeysInv, Clocks
  <2>2. n + 2 \in Keys /\ n + 2 > n + 1
    BY <2>1, KeysEnough
  <2> QED
    BY <2>2 DEF CountedBy
<1>3. FreshKey = Min(free)
  BY DEF FreshKey
<1> HIDE DEF free
<1>4. PICK x \in free : \A y \in free : ~(<<y, x>> \in OpToRel(<, Nat))
  BY <1>1, <1>2, NatLessThanWellFounded, WFMin
<1>5. \A y \in free : ~(y < x)
  BY <1>1, <1>4 DEF OpToRel
<1>6. \A y \in free : x <= y
  BY <1>1, <1>5
<1>7. Min(free) \in free /\ \A y \in free : Min(free) <= y
  BY <1>6 DEF Min
<1> QED
  BY <1>2, <1>3, <1>7 DEF free

\* A host's primary key is one of the keys it knows.
LEMMA PrimaryKnown ==
    ASSUME Stored, NEW h \in Hosts
    PROVE  Primary(h) \in Keys /\ Primary(h) \in Known(h)
<1>1. PICK lo, hi \in Nat : Shape(repo[h], lo, hi)
  BY DEF Stored
<1>2. Max(DOMAIN repo[h]) = hi /\ hi \in DOMAIN repo[h]
  <2>1. DOMAIN repo[h] = {0} \cup (lo .. hi) /\ Max(DOMAIN repo[h]) = hi
    BY <1>1, ShapeMax
  <2>2. hi \in lo .. hi
    BY <1>1 DEF Shape
  <2> QED
    BY <2>1, <2>2
<1>3. repo[h][hi] \in Keys
  BY <1>1 DEF Shape
<1> QED
  BY <1>2, <1>3 DEF Primary, Known

\* A host that rotates knows afterwards what it knew and the new key at most.
LEMMA RotateKnown ==
    ASSUME NEW r, NEW s, NEW lo, NEW hi, NEW low \in Nat, NEW f,
           Shape(r, lo, hi), Rotated(r, s, lo, hi, low), s[0] = f,
           NEW i \in DOMAIN s
    PROVE  s[i] = f \/ \E j \in DOMAIN r : s[i] = r[j]
<1>1. lo \in Nat /\ hi \in Nat /\ 1 <= lo /\ lo <= low
  BY DEF Shape, Rotated
<1>2. DOMAIN r = {0} \cup (lo .. hi) /\ DOMAIN s = {0} \cup (low .. hi + 1)
  BY ShapeMax DEF Rotated
<1>3. CASE i = hi + 1
  BY <1>2, <1>3 DEF Rotated
<1>4. CASE i \in low .. hi
  <2>1. i \in lo .. hi
    BY <1>1, <1>4
  <2> QED
    BY <1>2, <1>4, <2>1 DEF Rotated
<1>5. i = 0 \/ i = hi + 1 \/ i \in low .. hi
  BY <1>1, <1>2
<1> QED
  BY <1>3, <1>4, <1>5

\* A step that only copies repositories brings no new key and no new shape.
LEMMA CopiesKeep ==
    ASSUME Stored, Counted, \A h \in Hosts : \E g \in Hosts : repo'[h] = repo[g],
           issued' = issued, rotated' = rotated
    PROVE  Stored' /\ Counted'
<1>1. Stored'
  BY DEF Stored
<1>2. PICK n \in Nat : CountedBy(n)
  BY DEF Counted
<1>3. \A h \in Hosts : \E g \in Hosts : Known(h)' = Known(g)
  BY DEF Known
<1>4. CountedBy(n)'
  BY <1>2, <1>3 DEF CountedBy
<1> QED
  BY <1>1, <1>4 DEF Counted

\* A rotation uses one more key, at least an interval after the one before it.
LEMMA RotateKeeps ==
    ASSUME KeysInv, NEW h \in Hosts, Rotate(h)
    PROVE  Stored' /\ Counted'
<1>1. PICK n \in Nat : CountedBy(n)
  BY DEF KeysInv, Counted
<1>2. PICK lo, hi \in Nat : Shape(repo[h], lo, hi)
  BY DEF KeysInv, Stored
<1> DEFINE f == FreshKey
           s == FernetRotate(repo[h], f)
<1>3. f \in Keys /\ f <= n + 2 /\ issued[f] = Never
      /\ \A g \in Hosts : f \notin Known(g)
  BY <1>1, FreshKeyExists
<1>4. repo' = [repo EXCEPT ![h] = s] /\ rotated' = now /\ issued' = issued
      /\ now >= rotated + Interval
  BY DEF Rotate
<1> HIDE DEF f, s
<1>5. \A i \in DOMAIN repo[h] : repo[h][i] # f
  BY <1>3 DEF Known
<1>6. PICK low \in Nat : Rotated(repo[h], s, lo, hi, low)
  BY <1>2, <1>3, <1>5, RotateShape DEF s
<1>7. s[0] = f
  BY <1>2, <1>3, <1>5, RotateShape DEF s
<1>8. repo'[h] = s /\ \A g \in Hosts \ {h} : repo'[g] = repo[g]
  BY <1>4 DEF KeysInv, PushTyped
<1>9. Stored'
  <2>1. Shape(s, low, hi + 1)
    BY <1>6 DEF Rotated
  <2>2. \E a, b \in Nat : Shape(repo'[h], a, b)
    BY <1>8, <2>1
  <2>3. \A g \in Hosts \ {h} : \E a, b \in Nat : Shape(repo'[g], a, b)
    BY <1>8 DEF KeysInv, Stored
  <2> QED
    BY <2>2, <2>3 DEF Stored
<1>10. CountedBy(n + 1)'
  <2>1. (n + 1) * Interval <= rotated'
    <3>1. (n + 1) * Interval = n * Interval + Interval /\ n * Interval \in Int
      BY Numbers
    <3>2. n * Interval <= rotated
      BY <1>1 DEF CountedBy
    <3> QED
      BY <1>4, <3>1, <3>2, Numbers DEF KeysInv, Clocks
  <2>2. ASSUME NEW k \in Keys, k > n + 1 + 1
        PROVE  issued'[k] = Never /\ \A g \in Hosts : k \notin Known(g)'
    <3>1. k \in Nat /\ k > n + 1 /\ k # f
      BY <1>3, <2>2, KeysEnough
    <3>2. issued[k] = Never /\ \A g \in Hosts : k \notin Known(g)
      BY <1>1, <3>1 DEF CountedBy
    <3>3. k \notin Known(h)'
      <4>1. \A i \in DOMAIN s : s[i] = f \/ \E j \in DOMAIN repo[h] : s[i] = repo[h][j]
        BY <1>2, <1>6, <1>7, RotateKnown
      <4> QED
        BY <1>8, <3>1, <3>2, <4>1 DEF Known
    <3>4. \A g \in Hosts \ {h} : k \notin Known(g)'
      BY <1>8, <3>2 DEF Known
    <3> QED
      BY <1>4, <3>2, <3>3, <3>4
  <2> QED
    BY <2>1, <2>2 DEF CountedBy
<1> QED
  BY <1>9, <1>10 DEF Counted

\* Times and counters stay within their bounds.
LEMMA ClocksNext ==
    ASSUME PushTyped, Clocks, [Next]_vars
    PROVE  Clocks'
<1>1. ASSUME NEW h \in Hosts, Rotate(h) \/ Distribute(h)
      PROVE  Clocks'
  <2>1. PICK q \in Pushers : push' = [push EXCEPT ![q] = [from |-> h, to |-> Others(h)]]
    BY <1>1 DEF Rotate, Distribute, Pushers
  <2>2. Len(Others(h)) < N
    BY OthersType, Numbers
  <2>3. \A p \in Pushers : Len(push'[p].to) < N
    BY <2>1, <2>2 DEF PushTyped, Clocks
  <2>4. /\ now' = now /\ lost' = lost /\ (rotated' = rotated \/ rotated' = now)
        /\ deploys' = deploys \/ (deploys < MaxDeploys /\ deploys' = deploys + 1)
    BY <1>1 DEF Rotate, Distribute
  <2> QED
    BY <2>3, <2>4, Numbers DEF Clocks
<1>2. ASSUME NEW p \in Pushers, Rsync(p)
      PROVE  Clocks'
  <2>1. Len(Tail(push[p].to)) < N
    <3> DEFINE to == push[p].to
    <3>1. to \in Seq(Hosts) /\ to # <<>> /\ Len(to) < N
      BY <1>2 DEF PushTyped, Clocks, Rsync, Idle
    <3> HIDE DEF to
    <3>2. Len(Tail(to)) < N
      BY <3>1, Numbers
    <3> QED
      BY <3>2 DEF to
  <2>2. \A q \in Pushers : Len(push'[q].to) < N
    BY <1>2, <2>1 DEF Rsync, PushTyped, Clocks
  <2> QED
    BY <1>2, <2>2 DEF Rsync, Clocks
<1>3. ASSUME NEW p \in Pushers, RsyncFails(p)
      PROVE  Clocks'
  <2>1. \A q \in Pushers : push'[q].to = <<>> \/ push'[q].to = push[q].to
    BY <1>3 DEF RsyncFails, PushTyped
  <2>2. \A q \in Pushers : Len(push'[q].to) < N
    <3>1. Len(<<>>) < N
      BY Numbers
    <3> QED
      BY <2>1, <3>1 DEF Clocks
  <2> QED
    BY <1>3, <2>2, Numbers DEF RsyncFails, Clocks, PushTyped
<1>4. CASE Tick
  BY <1>4, Numbers DEF Tick, Clocks
<1>5. CASE UNCHANGED vars \/ \E h \in Hosts : IssueToken(h)
  BY <1>5 DEF IssueToken, vars, Clocks
<1> QED
  BY <1>1, <1>2, <1>3, <1>4, <1>5 DEF Next

\* Every step keeps the invariant of the repositories.
LEMMA KeysNext ==
    ASSUME KeysInv, [Next]_vars
    PROVE  KeysInv'
<1> USE DEF KeysInv
<1>1. PushTyped' /\ Clocks'
  BY PushTypedNext, ClocksNext
<1>2. ASSUME NEW h \in Hosts, Rotate(h)
      PROVE  Stored' /\ Counted' /\ Signatures'
  <2>1. Signatures'
    BY <1>2 DEF Rotate, Signatures
  <2> QED
    BY <1>2, <2>1, RotateKeeps
<1>3. ASSUME NEW p \in Pushers, Rsync(p)
      PROVE  Stored' /\ Counted' /\ Signatures'
  <2>1. \A h \in Hosts : \E g \in Hosts : repo'[h] = repo[g]
    <3>1. push[p].from \in Hosts
      BY DEF PushTyped
    <3> QED
      BY <1>3, <3>1 DEF Rsync, PushTyped
  <2>2. issued' = issued /\ rotated' = rotated /\ now' = now
    BY <1>3 DEF Rsync
  <2> QED
    BY <2>1, <2>2, CopiesKeep DEF Signatures
<1>4. CASE (\E h \in Hosts : Distribute(h)) \/ (\E p \in Pushers : RsyncFails(p)) \/ Tick
           \/ UNCHANGED vars
  <2>1. repo' = repo /\ issued' = issued /\ rotated' = rotated /\ now <= now'
    BY <1>4 DEF Distribute, RsyncFails, Tick, vars, Clocks
  <2>2. Signatures'
    BY <1>1, <2>1, KeysEnough DEF Signatures, Clocks
  <2>3. \A h \in Hosts : \E g \in Hosts : repo'[h] = repo[g]
    BY <2>1
  <2> QED
    BY <1>1, <2>1, <2>2, <2>3, CopiesKeep
<1>5. ASSUME NEW h \in Hosts, IssueToken(h)
      PROVE  Stored' /\ Counted' /\ Signatures'
  <2>1. issued' = [issued EXCEPT ![Primary(h)] = now] /\ repo' = repo /\ rotated' = rotated
        /\ now' = now
    BY <1>5 DEF IssueToken
  <2>2. Stored'
    BY <2>1 DEF Stored
  <2>3. Primary(h) \in Keys /\ Primary(h) \in Known(h)
    BY PrimaryKnown
  <2>4. Signatures'
    BY <2>1, <2>3 DEF Signatures, Clocks, Never
  <2>5. PICK n \in Nat : CountedBy(n)
    BY DEF Counted
  <2>6. \A g \in Hosts : Known(g)' = Known(g)
    BY <2>1 DEF Known
  <2>7. \A k \in Keys : k > n + 1 => k # Primary(h)
    BY <2>3, <2>5 DEF CountedBy
  <2>8. CountedBy(n)'
    BY <2>1, <2>5, <2>6, <2>7 DEF CountedBy, Signatures
  <2> QED
    BY <2>2, <2>4, <2>8 DEF Counted
<1> QED
  BY <1>1, <1>2, <1>3, <1>4, <1>5 DEF Next

\* The two repositories that fernet_setup makes.
LEMMA KeysInit == Init => KeysInv
<1> SUFFICES ASSUME Init PROVE KeysInv
  OBVIOUS
<1>1. PushTyped
  BY PushInit DEF PushInv
<1>2. Clocks
  BY Numbers DEF Init, Clocks
<1>3. 0 \in Keys /\ 1 \in Keys /\ Keys \subseteq Nat
  BY KeysEnough
<1>4. \A h \in Hosts : repo[h] = [i \in {0, 1} |-> i]
  BY DEF Init
<1>5. Stored
  <2>1. {0} \cup (1 .. 1) = {0, 1}
    OBVIOUS
  <2>2. Shape([i \in {0, 1} |-> i], 1, 1)
    BY <1>3, <2>1, ThreeKeys DEF Shape
  <2> QED
    BY <1>4, <2>2 DEF Stored
<1>6. Signatures
  BY DEF Init, Signatures, Never
<1>7. CountedBy(0)
  <2>1. 0 * Interval <= rotated
    BY Numbers DEF Init
  <2>2. \A h \in Hosts : Known(h) = {0, 1}
    BY <1>4 DEF Known
  <2> QED
    BY <1>3, <2>1, <2>2 DEF CountedBy, Init
<1> QED
  BY <1>1, <1>2, <1>5, <1>6, <1>7 DEF KeysInv, Counted

\* The repositories of all hosts always hold the staged key and at most max_active_keys
\* keys, and keystone-manage always finds a new key: for every group and schedule, also
\* when pushes fail or overlap.
THEOREM KeysTypeCorrect == Spec => []TypeOK
<1>1. Init => KeysInv
  BY KeysInit
<1>2. KeysInv /\ [Next]_vars => KeysInv'
  BY KeysNext
<1>3. KeysInv => TypeOK
  <2> SUFFICES ASSUME KeysInv PROVE TypeOK
    OBVIOUS
  <2> USE DEF KeysInv
  <2>1. now \in 0 .. MaxTime /\ rotated \in 0 .. MaxTime
        /\ deploys \in 0 .. MaxDeploys /\ lost \in 0 .. MaxLost
    BY Numbers DEF Clocks, PushTyped
  <2>2. ASSUME NEW h \in Hosts
        PROVE  0 \in DOMAIN repo[h] /\ Known(h) \subseteq Keys
               /\ Cardinality(DOMAIN repo[h]) <= max_active_keys
    <3>1. PICK lo, hi \in Nat : Shape(repo[h], lo, hi)
      BY DEF Stored
    <3>2. DOMAIN repo[h] = {0} \cup (lo .. hi)
      BY <3>1, ShapeMax
    <3>3. Known(h) \subseteq Keys
      BY <3>1 DEF Shape, Known
    <3>4. 1 <= lo /\ lo <= hi /\ hi - lo + 2 <= max_active_keys
      BY <3>1 DEF Shape
    <3>5. IsFiniteSet(lo .. hi) /\ Cardinality(lo .. hi) = hi - lo + 1
      <4>1. lo \in Int /\ hi \in Int /\ ~(lo > hi)
        BY <3>4
      <4>2. /\ IsFiniteSet(lo .. hi)
            /\ Cardinality(lo .. hi) = IF lo > hi THEN 0 ELSE hi - lo + 1
        BY <4>1, FS_Interval
      <4> QED
        BY <4>1, <4>2
    <3>6. Cardinality((lo .. hi) \cup {0}) = hi - lo + 2
      <4>1. 0 \notin lo .. hi
        BY <3>4
      <4>2. Cardinality((lo .. hi) \cup {0}) = Cardinality(lo .. hi) + 1
        BY <3>5, <4>1, FS_AddElement
      <4> QED
        BY <3>4, <3>5, <4>2
    <3>7. DOMAIN repo[h] = (lo .. hi) \cup {0}
      BY <3>2
    <3> QED
      BY <3>3, <3>4, <3>6, <3>7
  <2>3. \A p \in Pushers : push[p].from \in Hosts /\ Len(push[p].to) < N
    BY DEF PushTyped, Clocks
  <2>4. issued \in [Keys -> 0 .. MaxTime \cup {Never}]
    <3>1. \A k \in Keys : issued[k] \in 0 .. MaxTime \cup {Never}
      BY Numbers DEF Signatures, Clocks, Never
    <3> QED
      BY <3>1 DEF Signatures
  <2> QED
    BY <2>1, <2>2, <2>3, <2>4 DEF TypeOK
<1> QED
  BY <1>1, <1>2, <1>3, PTL DEF Spec

-----------------------------------------------------------------------------
(* Tokens.                                                                 *)

\* The repository of the last rotation.
Lead == repo[push["cron"].from]

\* When a repository with signing keys up to hi leads, a key that has ceased to be
\* primary was last used when the rotation that retired it had been pushed.
Aged(hi) ==
    \A i \in DOMAIN Lead \ {0, hi} :
        issued[Lead[i]] # Never =>
            issued[Lead[i]] <= rotated - (hi - i - 1) * Interval + PushTime

\* r is one rotation behind s.
Behind(r, s) == \E lo, hi, low \in Nat : Shape(r, lo, hi) /\ Rotated(r, s, lo, hi, low)

\* While no rsync has failed: the hosts have the repository of the last rotation or,
\* during its push, are one rotation behind it.
TokenInv ==
    lost = 0 =>
        /\ Idle("cron") => \A g, h \in Hosts : repo[g] = repo[h]
        /\ ~Idle("cron") => /\ now <= rotated + PushTime
                            /\ \A h \in Hosts : repo[h] = Lead \/ Behind(repo[h], Lead)
        /\ \A lo, hi \in Nat : Shape(Lead, lo, hi) => Aged(hi)
        /\ TokensValidate

FernetInv == KeysInv /\ PushInv /\ TokenInv

\* A host one rotation behind has the new primary key staged, and its own is kept.
LEMMA BehindShares ==
    ASSUME NEW r, NEW s, Behind(r, s), NEW lo, NEW hi, Shape(s, lo, hi)
    PROVE  /\ hi - 1 \in Nat /\ 1 <= hi - 1
           /\ 0 \in DOMAIN r /\ hi - 1 \in DOMAIN r /\ Max(DOMAIN r) = hi - 1
           /\ hi - 1 \in DOMAIN s
           /\ s[hi] = r[0] /\ s[hi - 1] = r[hi - 1]
<1>1. PICK l, u, low \in Nat : Shape(r, l, u) /\ Rotated(r, s, l, u, low)
  BY DEF Behind
<1>2. Shape(s, low, u + 1)
  BY <1>1 DEF Rotated
<1>3. Max(DOMAIN s) = hi /\ Max(DOMAIN s) = u + 1
  BY <1>2, ShapeMax
<1>4. hi = u + 1 /\ hi - 1 = u
  BY <1>3
<1>5. DOMAIN r = {0} \cup (l .. u) /\ Max(DOMAIN r) = u
  BY <1>1, ShapeMax
<1>6. DOMAIN s = {0} \cup (low .. u + 1)
  BY <1>2, ShapeMax
<1>7. 1 <= l /\ l <= u /\ low <= u /\ u \in l .. u /\ u \in low .. u /\ u \in low .. u + 1
  BY <1>1 DEF Shape, Rotated
<1>8. s[u + 1] = r[0] /\ s[u] = r[u]
  BY <1>1, <1>7 DEF Rotated
<1> QED
  BY <1>4, <1>5, <1>6, <1>7, <1>8

\* Every host signs with the last primary key or, during a push, the one before it.
LEMMA SignsWith ==
    ASSUME FernetInv, lost = 0, NEW h \in Hosts, NEW lo, NEW hi, Shape(Lead, lo, hi)
    PROVE  \/ Primary(h) = Lead[hi]
           \/ /\ ~Idle("cron") /\ now <= rotated + PushTime
              /\ hi - 1 \in Nat /\ 1 <= hi - 1 /\ hi - 1 \in DOMAIN Lead
              /\ Primary(h) = Lead[hi - 1]
<1>1. push["cron"].from \in Hosts
  BY DEF FernetInv, KeysInv, PushTyped, Pushers
<1>2. CASE repo[h] = Lead
  BY <1>2, ShapeMax DEF Primary
<1>3. CASE ~Idle("cron") /\ Behind(repo[h], Lead)
  <2>1. now <= rotated + PushTime
    BY <1>3 DEF FernetInv, TokenInv
  <2> QED
    BY <1>3, <2>1, BehindShares DEF Primary
<1> QED
  BY <1>1, <1>2, <1>3 DEF FernetInv, TokenInv, Lead

\* A key that some host signs with is known to all.
LEMMA PrimaryShared ==
    ASSUME FernetInv, lost = 0, NEW h \in Hosts, NEW g \in Hosts
    PROVE  Primary(h) \in Known(g)
<1>1. push["cron"].from \in Hosts
  BY DEF FernetInv, KeysInv, PushTyped, Pushers
<1>2. PICK lo, hi \in Nat : Shape(Lead, lo, hi)
  BY <1>1 DEF FernetInv, KeysInv, Stored, Lead
<1>3. hi \in DOMAIN Lead
  <2>1. DOMAIN Lead = {0} \cup (lo .. hi) /\ hi \in lo .. hi
    BY <1>2, ShapeMax DEF Shape
  <2> QED
    BY <2>1
<1>4. CASE repo[g] = Lead
  BY <1>2, <1>3, <1>4, SignsWith DEF Known
<1>5. CASE Behind(repo[g], Lead)
  <2>1. Lead[hi] \in Known(g)
    BY <1>2, <1>5, BehindShares DEF Known
  <2>2. Lead[hi - 1] \in Known(g)
    BY <1>2, <1>5, BehindShares DEF Known
  <2> QED
    BY <1>2, <2>1, <2>2, SignsWith
<1> QED
  BY <1>1, <1>4, <1>5 DEF FernetInv, TokenInv, Lead

\* Signing a token.
LEMMA IssueKeeps ==
    ASSUME FernetInv, NEW h \in Hosts, IssueToken(h)
    PROVE  TokenInv'
<1> SUFFICES ASSUME lost = 0 PROVE TokenInv'
  BY DEF TokenInv, IssueToken
<1> DEFINE k == Primary(h)
<1>1. issued' = [issued EXCEPT ![k] = now]
      /\ UNCHANGED <<now, repo, push, rotated, deploys, lost>>
  BY DEF IssueToken
<1>2. k \in Keys /\ issued \in [Keys -> Int]
  BY PrimaryKnown DEF FernetInv, KeysInv, Signatures
<1>3. \A g \in Hosts : k \in Known(g)
  BY PrimaryShared
<1>4. ASSUME NEW lo \in Nat, NEW hi \in Nat, Shape(Lead, lo, hi)
      PROVE  k = Lead[hi]
             \/ (now <= rotated + PushTime /\ hi - 1 \in DOMAIN Lead /\ k = Lead[hi - 1])
  BY <1>4, SignsWith
<1> HIDE DEF k
<1>5. \A j \in Keys : issued'[j] = IF j = k THEN now ELSE issued[j]
  BY <1>1, <1>2
<1>6. Lead' = Lead /\ Idle("cron")' = Idle("cron") /\ \A g \in Hosts : Known(g)' = Known(g)
  BY <1>1 DEF Lead, Idle, Known
<1>7. TokensValidate'
  <2>1. DOMAIN issued' = Keys /\ DOMAIN issued = Keys
    BY <1>1, <1>2
  <2>2. TokensValidate
    BY DEF FernetInv, TokenInv
  <2> QED
    BY <1>1, <1>3, <1>5, <1>6, <2>1, <2>2 DEF TokensValidate
<1>8. ASSUME NEW lo \in Nat, NEW hi \in Nat, Shape(Lead, lo, hi)
      PROVE  Aged(hi)'
  <2> SUFFICES ASSUME NEW i \in DOMAIN Lead \ {0, hi}, issued'[Lead[i]] # Never
               PROVE  issued'[Lead[i]] <= rotated - (hi - i - 1) * Interval + PushTime
    BY <1>1, <1>6 DEF Aged
  <2>1. i \in Nat /\ hi \in DOMAIN Lead /\ Lead[i] \in Keys
    BY <1>8, ShapeMax DEF Shape
  <2>2. \A j \in DOMAIN Lead : Lead[i] = Lead[j] => i = j
    BY <1>8, ShapeMax DEF Shape
  <2>3. CASE Lead[i] = k
    <3>1. i = hi - 1 /\ now <= rotated + PushTime
      BY <1>4, <1>8, <2>1, <2>2, <2>3
    <3>2. (hi - i - 1) * Interval = 0
      BY <3>1, Numbers
    <3>3. issued'[Lead[i]] = now
      BY <1>5, <2>1, <2>3
    <3> QED
      BY <3>1, <3>2, <3>3, Numbers DEF FernetInv, KeysInv, Clocks
  <2>4. CASE Lead[i] # k
    <3>1. issued'[Lead[i]] = issued[Lead[i]]
      BY <1>5, <2>1, <2>4
    <3> QED
      BY <1>8, <3>1 DEF FernetInv, TokenInv, Aged
  <2> QED
    BY <2>3, <2>4
<1> QED
  BY <1>1, <1>6, <1>7, <1>8 DEF FernetInv, TokenInv

\* A key that outlives the push that retired it and the tokens it signed may be dropped.
KeysOutliveTokens == PushTime + TokenLife <= (max_active_keys - 2) * Interval

\* Keys retired long ago have signed no token that is still valid.
LEMMA DroppedKeysExpired ==
    ASSUME KeysOutliveTokens, NEW n \in Nat, n + 1 >= max_active_keys - 2,
           NEW a \in Int, NEW r \in Nat, NEW t \in Nat,
           a <= r - n * Interval + PushTime, t >= r + Interval
    PROVE  t >= a + TokenLife
<1>1. max_active_keys - 2 \in Nat
  BY ThreeKeys
<1>2. \A c, d, e \in Nat : c <= d => c * e <= d * e
  OBVIOUS
<1>3. (max_active_keys - 2) * Interval <= (n + 1) * Interval
  BY <1>1, <1>2, Numbers
<1>4. (n + 1) * Interval = n * Interval + Interval /\ n * Interval \in Int
      /\ (max_active_keys - 2) * Interval \in Int
  BY <1>1, Numbers
<1> QED
  BY <1>3, <1>4, Numbers DEF KeysOutliveTokens

\* A rotation drops a key only after its tokens have expired.
LEMMA RotateTokens ==
    ASSUME Overlap = FALSE, KeysOutliveTokens, FernetInv, NEW h \in Hosts, Rotate(h)
    PROVE  TokenInv'
<1>0. PushInv'
  BY PushTypedNext, PushingNext DEF FernetInv, PushInv, Next
<1> SUFFICES ASSUME lost = 0 PROVE TokenInv'
  BY DEF TokenInv, Rotate
<1>1. PICK n \in Nat : CountedBy(n)
  BY DEF FernetInv, KeysInv, Counted
<1>2. PICK lo, hi \in Nat : Shape(repo[h], lo, hi)
  BY DEF FernetInv, KeysInv, Stored
<1> DEFINE r == repo[h]
           f == FreshKey
           s == FernetRotate(r, f)
<1>3. f \in Keys /\ \A i \in DOMAIN r : r[i] # f
  BY <1>1, FreshKeyExists DEF FernetInv, Known
<1>4. PICK low \in Nat : Rotated(r, s, lo, hi, low)
  BY <1>2, <1>3, RotateShape
<1>5. /\ repo' = [repo EXCEPT ![h] = s] /\ rotated' = now /\ issued' = issued
      /\ now >= rotated + Interval /\ now' = now /\ lost' = lost
      /\ push' = [push EXCEPT !["cron"] = [from |-> h, to |-> Others(h)]]
      /\ Idle("cron") /\ Idle("deploy")
  BY DEF Rotate
<1> HIDE DEF f, s
<1>6. repo'[h] = s /\ (\A g \in Hosts \ {h} : repo'[g] = repo[g])
      /\ push'["cron"].from = h /\ push'["deploy"] = push["deploy"]
  BY <1>5 DEF FernetInv, KeysInv, PushTyped, Pushers
<1>7. Lead' = s
  BY <1>6 DEF Lead
<1>8. Lead = r /\ \A g \in Hosts : repo[g] = r
  <2>1. push["cron"].from \in Hosts
    BY DEF FernetInv, KeysInv, PushTyped, Pushers
  <2> QED
    BY <1>5, <2>1 DEF FernetInv, TokenInv, Lead
<1>9. Idle("cron")' => \A g, k \in Hosts : repo'[g] = repo'[k]
  BY <1>0, <1>5, <1>6 DEF PushInv, Pushing, Pushers, Idle
<1>10. now' <= rotated' + PushTime
  BY <1>5, Numbers DEF FernetInv, KeysInv, Clocks
<1>11. \A g \in Hosts : repo'[g] = Lead' \/ Behind(repo'[g], Lead')
  <2>1. Behind(r, s)
    BY <1>2, <1>4 DEF Behind
  <2> QED
    BY <1>6, <1>7, <1>8, <2>1
<1>12. Shape(s, low, hi + 1) /\ DOMAIN s = {0} \cup (low .. hi + 1)
       /\ DOMAIN r = {0} \cup (lo .. hi) /\ lo <= low /\ low <= hi
  BY <1>2, <1>4, ShapeMax DEF Rotated
<1>13. \A i \in lo .. hi : i # hi /\ issued[r[i]] # Never =>
           issued[r[i]] <= rotated - (hi - i - 1) * Interval + PushTime
  <2>1. Aged(hi)
    BY <1>2, <1>8 DEF FernetInv, TokenInv
  <2>2. \A i \in lo .. hi : i # 0
    BY <1>2 DEF Shape
  <2> QED
    BY <1>8, <1>12, <2>1, <2>2 DEF Aged
<1>14. \A i \in lo .. hi : r[i] \in Keys /\ issued[r[i]] \in Int /\ issued[r[i]] <= now
  BY <1>2 DEF Shape, FernetInv, KeysInv, Signatures
<1>15. \A i \in low .. hi : s[i] = r[i] /\ i \in lo .. hi
  BY <1>2, <1>4, <1>12 DEF Rotated
<1>16. ASSUME NEW lo2 \in Nat, NEW hi2 \in Nat, Shape(Lead', lo2, hi2)
       PROVE  Aged(hi2)'
  <2>1. hi2 = hi + 1
    <3>1. Max(DOMAIN s) = hi2
      BY <1>7, <1>16, ShapeMax
    <3>2. Max(DOMAIN s) = hi + 1
      BY <1>12, ShapeMax
    <3> QED
      BY <3>1, <3>2
  <2> SUFFICES ASSUME NEW i \in DOMAIN s \ {0, hi2}, issued[s[i]] # Never
               PROVE  issued[s[i]] <= now - (hi2 - i - 1) * Interval + PushTime
    BY <1>5, <1>7 DEF Aged
  <2>2. i \in low .. hi /\ i \in Nat /\ i <= hi
    BY <1>2, <1>12, <2>1 DEF Shape
  <2>3. s[i] = r[i] /\ i \in lo .. hi
    BY <1>15, <2>2
  <2>4. CASE i = hi
    <3>1. (hi2 - i - 1) * Interval = 0
      BY <2>1, <2>4, Numbers
    <3> QED
      BY <1>14, <2>3, <3>1, Numbers DEF FernetInv, KeysInv, Clocks
  <2>5. CASE i # hi
    <3> DEFINE m == hi - i - 1
    <3>1. m \in Int /\ hi2 - i - 1 = m + 1
      BY <2>1, <2>2
    <3>2. issued[r[i]] <= rotated - m * Interval + PushTime
      BY <1>13, <2>3, <2>5
    <3> HIDE DEF m
    <3>3. (m + 1) * Interval = m * Interval + Interval /\ m * Interval \in Int
      BY <3>1, Numbers
    <3>4. issued[r[i]] <= now - (m + 1) * Interval + PushTime
      BY <1>5, <1>14, <2>3, <3>2, <3>3, Numbers DEF FernetInv, KeysInv, Clocks
    <3> QED
      BY <2>3, <3>1, <3>4
  <2> QED
    BY <2>4, <2>5
<1>17. ASSUME NEW k \in DOMAIN issued, issued[k] # Never, now < issued[k] + TokenLife
       PROVE  k \in Known(h)'
  <2>1. k \in Known(h)
    BY <1>17 DEF FernetInv, TokenInv, TokensValidate
  <2>2. PICK i \in DOMAIN r : k = r[i]
    BY <2>1 DEF Known
  <2>3. CASE i = 0
    <3>1. s[hi + 1] = r[0] /\ hi + 1 \in low .. hi + 1
      BY <1>2, <1>4, <1>12 DEF Rotated, Shape
    <3> QED
      BY <1>6, <1>12, <2>2, <2>3, <3>1 DEF Known
  <2>4. CASE i \in low .. hi
    <3>1. s[i] = r[i] /\ i \in low .. hi + 1
      BY <1>15, <2>4
    <3> QED
      BY <1>6, <1>12, <2>2, <3>1 DEF Known
  <2>5. ASSUME i \in lo .. hi, i < low
        PROVE  FALSE
    <3>1. hi + 1 - i >= max_active_keys - 1 /\ i < hi
      BY <1>2, <1>4, <1>12, <2>5 DEF Rotated
    <3> DEFINE m == hi - i - 1
    <3>2. m \in Nat /\ m + 1 >= max_active_keys - 2
      BY <1>2, <2>5, <3>1, ThreeKeys
    <3>3. issued[k] <= rotated - m * Interval + PushTime /\ issued[k] \in Int
      BY <1>13, <1>14, <1>17, <2>2, <2>5, <3>1
    <3> HIDE DEF m
    <3>4. now >= issued[k] + TokenLife
      BY <1>5, <3>2, <3>3, DroppedKeysExpired DEF FernetInv, KeysInv, Clocks
    <3> QED
      BY <1>17, <3>3, <3>4, Numbers DEF FernetInv, KeysInv, Clocks
  <2>6. i = 0 \/ i \in low .. hi \/ (i \in lo .. hi /\ i < low)
    BY <1>2, <1>12
  <2> QED
    BY <2>3, <2>4, <2>5, <2>6
<1>18. TokensValidate'
  <2>1. \A g \in Hosts \ {h} : Known(g)' = Known(g)
    BY <1>6 DEF Known
  <2> QED
    BY <1>5, <1>17, <2>1 DEF FernetInv, TokenInv, TokensValidate
<1> QED
  BY <1>9, <1>10, <1>11, <1>16, <1>18 DEF TokenInv

\* A push gives the hosts the repository of the last rotation.
LEMMA RsyncTokens ==
    ASSUME Overlap = FALSE, FernetInv, NEW p \in Pushers, Rsync(p)
    PROVE  TokenInv'
<1>0. PushInv'
  BY PushTypedNext, PushingNext DEF FernetInv, PushInv, Next
<1> SUFFICES ASSUME lost = 0 PROVE TokenInv'
  BY DEF TokenInv, Rsync
<1> DEFINE next == Head(push[p].to)
           from == push[p].from
<1>1. ~Idle(p) /\ repo' = [repo EXCEPT ![next] = repo[from]]
      /\ push' = [push EXCEPT ![p].to = Tail(@)] /\ UNCHANGED <<now, rotated, lost, issued>>
  BY DEF Rsync
<1>2. next \in Hosts /\ from \in Hosts /\ next # from
  <2>1. next \in Pending(p) /\ next \in Hosts
    BY <1>1, TailPending DEF FernetInv, PushInv
  <2> QED
    BY <1>1, <2>1 DEF FernetInv, PushInv, Pushing, PushTyped
<1>3. repo'[next] = repo[from] /\ \A g \in Hosts \ {next} : repo'[g] = repo[g]
  BY <1>1, <1>2 DEF FernetInv, KeysInv, PushTyped
<1>4. \A q \in Pushers : push'[q].from = push[q].from
  BY <1>1 DEF FernetInv, KeysInv, PushTyped
<1>5. \A q \in Pushers \ {p} : push'[q] = push[q] /\ Idle(q)
  BY <1>1 DEF FernetInv, PushInv, Pushing, PushTyped, Pushers
<1>6. "cron" \in Pushers /\ push["cron"].from \in Hosts
  BY DEF FernetInv, KeysInv, PushTyped, Pushers
<1>7. CASE p = "cron"
  <2>1. Lead' = Lead /\ repo[from] = Lead
    BY <1>2, <1>3, <1>4, <1>6, <1>7 DEF Lead
  <2>2. now <= rotated + PushTime
        /\ \A h \in Hosts : repo[h] = Lead \/ Behind(repo[h], Lead)
    BY <1>1, <1>7 DEF FernetInv, TokenInv
  <2>3. \A h \in Hosts : repo'[h] = Lead \/ Behind(repo'[h], Lead)
    BY <1>3, <2>1, <2>2
  <2>4. Idle("cron")' => \A g, h \in Hosts : repo'[g] = repo'[h]
    BY <1>0, <1>1, <1>5, <1>7 DEF PushInv, Pushing, Pushers, Idle
  <2>5. \A lo, hi \in Nat : Shape(Lead', lo, hi) => Aged(hi)'
    BY <1>1, <2>1 DEF FernetInv, TokenInv, Aged
  <2>6. TokensValidate'
    <3>1. \A h \in Hosts : Known(h)' = Known(h) \/ Known(h)' = Known(from)
      BY <1>3 DEF Known
    <3> QED
      BY <1>1, <1>2, <3>1 DEF FernetInv, TokenInv, TokensValidate
  <2> QED
    BY <1>1, <2>1, <2>2, <2>3, <2>4, <2>5, <2>6 DEF TokenInv
<1>8. CASE p # "cron"
  <2>1. Idle("cron") /\ push'["cron"] = push["cron"]
    BY <1>5, <1>6, <1>8
  <2>2. \A g, h \in Hosts : repo[g] = repo[h]
    BY <2>1 DEF FernetInv, TokenInv
  <2>3. \A g \in Hosts : repo'[g] = repo[g]
    BY <1>2, <1>3, <2>2
  <2>4. Lead' = Lead /\ Idle("cron")' = Idle("cron") /\ \A g \in Hosts : Known(g)' = Known(g)
    BY <1>6, <2>1, <2>3 DEF Lead, Idle, Known
  <2>5. \A lo, hi \in Nat : Shape(Lead', lo, hi) => Aged(hi)'
    BY <1>1, <2>4 DEF FernetInv, TokenInv, Aged
  <2>6. TokensValidate'
    BY <1>1, <2>4 DEF FernetInv, TokenInv, TokensValidate
  <2> QED
    BY <2>1, <2>2, <2>3, <2>4, <2>5, <2>6 DEF TokenInv
<1> QED
  BY <1>7, <1>8

\* Deployments that begin, rsyncs that fail, and time.
LEMMA OtherTokens ==
    ASSUME FernetInv,
           \/ \E h \in Hosts : Distribute(h)
           \/ \E p \in Pushers : RsyncFails(p)
           \/ Tick \/ UNCHANGED vars
    PROVE  TokenInv'
<1>1. CASE \E p \in Pushers : RsyncFails(p)
  <2>1. lost' # 0
    BY <1>1 DEF RsyncFails, FernetInv, KeysInv, PushTyped
  <2> QED
    BY <2>1 DEF TokenInv
<1>2. CASE \/ \E h \in Hosts : Distribute(h)
           \/ Tick \/ UNCHANGED vars
  <2>1. push'["cron"] = push["cron"] /\ UNCHANGED <<repo, rotated, lost, issued>>
        /\ now <= now' /\ now \in Nat /\ now' \in Nat
    BY <1>2 DEF Distribute, Tick, vars, FernetInv, KeysInv, PushTyped, Pushers, Clocks
  <2>2. Idle("cron") \/ now' <= rotated + PushTime \/ now' = now
    BY <1>2, Numbers DEF Distribute, Tick, vars, FernetInv, KeysInv, Clocks
  <2>3. Lead' = Lead /\ Idle("cron")' = Idle("cron") /\ \A g \in Hosts : Known(g)' = Known(g)
    BY <2>1 DEF Lead, Idle, Known
  <2>4. ASSUME lost = 0 PROVE TokensValidate'
    <3>1. \A k \in DOMAIN issued : issued[k] \in Int
      BY DEF FernetInv, KeysInv, Signatures
    <3>2. \A k \in DOMAIN issued : now' < issued[k] + TokenLife => now < issued[k] + TokenLife
      BY <2>1, <3>1, Numbers
    <3> QED
      BY <2>1, <2>3, <2>4, <3>2 DEF FernetInv, TokenInv, TokensValidate
  <2>5. lost = 0 => \A lo, hi \in Nat : Shape(Lead', lo, hi) => Aged(hi)'
    BY <2>1, <2>3 DEF FernetInv, TokenInv, Aged
  <2> QED
    BY <2>1, <2>2, <2>3, <2>4, <2>5 DEF FernetInv, TokenInv
<1> QED
  BY <1>1, <1>2

\* The invariant of the tokens.
LEMMA TokenInvariant ==
    ASSUME Overlap = FALSE, KeysOutliveTokens
    PROVE  Spec => []FernetInv
<1>1. Init => FernetInv
  <2> SUFFICES ASSUME Init PROVE FernetInv
    OBVIOUS
  <2>1. KeysInv /\ PushInv
    BY KeysInit, PushInit
  <2>2. 1 \in Hosts
    BY FernetAssumption DEF Hosts
  <2>3. Idle("cron") /\ Lead = [i \in {0, 1} |-> i] /\ \A g, h \in Hosts : repo[g] = repo[h]
    BY <2>2 DEF Init, Idle, Lead, Pushers
  <2>4. ASSUME NEW lo \in Nat, NEW hi \in Nat, Shape(Lead, lo, hi)
        PROVE  Aged(hi)
    <3>1. \A k \in Keys : issued[k] = Never
      BY DEF Init
    <3>2. \A i \in DOMAIN Lead : Lead[i] \in Keys
      BY <2>4, ShapeMax DEF Shape
    <3> QED
      BY <3>1, <3>2 DEF Aged
  <2>5. TokensValidate
    BY DEF Init, TokensValidate
  <2> QED
    BY <2>1, <2>3, <2>4, <2>5 DEF FernetInv, TokenInv
<1>2. FernetInv /\ [Next]_vars => FernetInv'
  <2> SUFFICES ASSUME FernetInv, [Next]_vars PROVE FernetInv'
    OBVIOUS
  <2>1. KeysInv' /\ PushInv'
    BY KeysNext, PushTypedNext, PushingNext DEF FernetInv, PushInv
  <2>2. TokenInv'
    BY IssueKeeps, RotateTokens, RsyncTokens, OtherTokens DEF Next
  <2> QED
    BY <2>1, <2>2 DEF FernetInv
<1> QED
  BY <1>1, <1>2, PTL DEF Spec

\* As long as no rsync has failed, every token that has not expired is accepted by every
\* host, for every number of hosts and every schedule of rotations, pushes and
\* deployments, provided that a retired key outlives the push that retired it and the
\* tokens it signed.
THEOREM TokensStayValid ==
    ASSUME Overlap = FALSE, PushTime + TokenLife <= (max_active_keys - 2) * Interval
    PROVE  Spec => []TokensValidate
<1>1. KeysOutliveTokens
  BY DEF KeysOutliveTokens
<1>2. Spec => []FernetInv
  BY <1>1, TokenInvariant
<1>3. FernetInv => TokensValidate
  BY DEF FernetInv, TokenInv, TokensValidate
<1> QED
  BY <1>2, <1>3, PTL

-----------------------------------------------------------------------------
(* Deployments.                                                            *)

Stages == {"idle", "batch", "group", "check", "setup", "handlers", "distribute"}

Typed ==
    /\ cont \in [Hosts -> {"absent", "exited", "running"}]
    /\ keys \in [Hosts -> Nat]
    /\ signed \subseteq Nat \ {NoKeys}
    /\ task \in Stages
    /\ targets \subseteq Hosts /\ batch \subseteq Hosts /\ grouped \subseteq Hosts
    /\ running \in Seq(Hosts)
    /\ deployments \in Nat /\ replaced \in Nat /\ exits \in Nat /\ failures \in Nat
    /\ task # "idle" => deployments # 0

\* What the play knows of the containers: whoever group_by has not seen running
\* does not run before the handlers, and without a running container the batch is
\* the whole group.
Judged ==
    /\ task \in {"group", "check", "setup"} /\ running = <<>>
         => \A h \in grouped : cont[h] # "running"
    /\ task \in {"check", "setup"} => grouped = batch
    /\ task \in {"setup", "handlers"} /\ running = <<>> => batch = Hosts

Up == \E h \in Hosts : cont[h] = "running"

\* The keys that exist or have signed a token.
Generations == (signed \cup {keys[h] : h \in Hosts}) \ {NoKeys}

\* As long as no container stops, one that runs keeps keys from being set up again.
SetUpOnce ==
    exits = 0 =>
        /\ ~Up => signed = {} /\ \A h \in Hosts \ {1} : keys[h] = NoKeys
        /\ \A a, b \in Generations : a = b

\* As long as no deployment ends half way, the hosts that a play may take for the
\* source have keys, and the play leaves all with the same.
SourcesHaveKeys ==
    failures = 0 =>
        /\ task # "distribute"
             => \A h \in Hosts : cont[h] = "running" => keys[h] # NoKeys
        /\ task # "idle" => \A i \in 1 .. Len(running) : keys[running[i]] # NoKeys
        /\ task \in {"handlers", "distribute"} /\ running = <<>> => keys[1] # NoKeys
        /\ task = "batch" /\ targets = {}
             => \A g, h \in Hosts : keys[g] # NoKeys /\ keys[g] = keys[h]

NotRunning == {h \in Hosts : cont[h] # "running"}
Lacking == {h \in Hosts : cont[h] # "running" \/ keys[h] = NoKeys}

\* The first deployment, from fernet_setup to the distribution.
First == task \in {"handlers", "distribute"} /\ running = <<>>

\* While fewer containers have been stopped or replaced than there are hosts, one
\* that has the keys runs, and so the keys of all hosts are the same.
SomeoneHasKeys ==
    failures = 0 /\ exits + replaced < N =>
        /\ \A g, h \in Hosts : keys[g] # NoKeys /\ keys[h] # NoKeys => keys[g] = keys[h]
        /\ (\E h \in Hosts : keys[h] # NoKeys) /\ ~First
             => Cardinality(Lacking) <= exits + replaced
        /\ First /\ task = "distribute" => Cardinality(NotRunning) <= exits

BootstrapInv == Typed /\ Judged /\ SetUpOnce /\ SourcesHaveKeys /\ SomeoneHasKeys

-----------------------------------------------------------------------------
(* Preservation.                                                           *)

\* The host that pushes is one of the group; if it was seen running, it is the
\* first of those.
LEMMA SourceIsHost ==
    ASSUME Typed
    PROVE  /\ 1 \in Hosts
           /\ Source \in Hosts
           /\ running # <<>> => 1 \in 1 .. Len(running) /\ Source = running[1]
           /\ running = <<>> => Source = 1
<1>1. 1 \in Hosts
  BY BootstrapAssumption DEF Hosts
<1>2. CASE running = <<>>
  BY <1>1, <1>2 DEF Source
<1>3. CASE running # <<>>
  <2>1. Len(running) \in Nat \ {0} /\ Head(running) = running[1] /\ Head(running) \in Hosts
    BY <1>3 DEF Typed
  <2> QED
    BY <1>1, <1>3, <2>1 DEF Source
<1> QED
  BY <1>2, <1>3

\* A push that reaches all leaves every host with the source's keys.
LEMMA PushToAll ==
    ASSUME Typed, RunKeyDistribution, failures' = failures
    PROVE  /\ keys' = [h \in Hosts |-> keys[Source]]
           /\ task' = "batch"
           /\ cont[Source] = "running"
<1>1. cont[Source] = "running" /\ Reached = Hosts
  BY DEF RunKeyDistribution, HalfWay, Typed
<1>2. \A h \in Hosts : cont[h] # "absent"
  <2> TAKE h \in Hosts
  <2>1. h \in 1 .. h
    BY DEF Hosts
  <2> QED
    BY <1>1, <2>1 DEF Reached
<1> QED
  BY <1>1, <1>2 DEF RunKeyDistribution

\* Types.
LEMMA KeysTyped ==
    ASSUME Typed, [BootstrapNext]_bootstrapVars
    PROVE  Typed'
<1> USE DEF Typed, Stages, playVars, counters, bootstrapVars, End, HalfWay, NoKeys
<1>1. CASE Deploy
  BY <1>1 DEF Deploy
<1>2. CASE Check
  BY <1>2 DEF Check
<1>3. CASE Interrupted
  BY <1>3 DEF Interrupted
<1>4. CASE NextBatch
  <2>1. CASE targets = {}
    BY <1>4, <2>1 DEF NextBatch
  <2>2. CASE targets # {}
    <3>1. PICK b \in (SUBSET targets) \ {{}} : batch' = b /\ targets' = targets \ b
      BY <1>4, <2>2 DEF NextBatch
    <3>2. batch' \subseteq Hosts /\ targets' \subseteq Hosts
      BY <3>1
    <3> QED
      BY <1>4, <2>2, <3>2 DEF NextBatch
  <2> QED
    BY <2>1, <2>2
<1>5. CASE Handlers
  BY <1>5 DEF Handlers
<1>6. CASE Setup
  BY <1>6, SourceIsHost DEF Setup
<1>7. CASE RunKeyDistribution
  <2>1. \A h \in Hosts : keys[Source] \in Nat /\ keys[h] \in Nat
    BY SourceIsHost
  <2>2. keys' \in [Hosts -> Nat]
    BY <1>7, <2>1 DEF RunKeyDistribution
  <2> QED
    BY <1>7, <2>2 DEF RunKeyDistribution
<1>8. ASSUME NEW h \in Hosts, Sign(h) \/ Replace(h) \/ Exit(h)
      PROVE  Typed'
  <2>1. CASE Sign(h)
    <3>1. keys[h] \in Nat \ {NoKeys}
      BY <2>1 DEF Sign
    <3> QED
      BY <2>1, <3>1 DEF Sign
  <2>2. CASE Replace(h)
    BY <2>2 DEF Replace
  <2>3. CASE Exit(h)
    BY <2>3 DEF Exit
  <2> QED
    BY <1>8, <2>1, <2>2, <2>3
<1>9. ASSUME NEW h \in Hosts, Group(h)
      PROVE  Typed'
  BY <1>9 DEF Group
<1>10. CASE UNCHANGED bootstrapVars
  BY <1>10
<1> QED
  BY <1>1, <1>2, <1>3, <1>4, <1>5, <1>6, <1>7, <1>8, <1>9, <1>10 DEF BootstrapNext

\* A host that enters the group makes it a group.
LEMMA AppendNotEmpty ==
    ASSUME NEW S, NEW seq \in Seq(S), NEW e \in S
    PROVE  Append(seq, e) # <<>>
<1>1. Len(Append(seq, e)) = Len(seq) + 1 /\ Len(seq) \in Nat
  OBVIOUS
<1>2. Len(<<>>) = 0
  OBVIOUS
<1> QED
  BY <1>1, <1>2

\* What the play has concluded stays true until the handlers run.
LEMMA KeysJudged ==
    ASSUME Engine = "docker", Typed, Judged, [BootstrapNext]_bootstrapVars
    PROVE  Judged'
<1> USE DEF Typed, Judged, playVars, counters, bootstrapVars, End, HalfWay
<1>1. CASE Deploy \/ NextBatch
  BY <1>1 DEF Deploy, NextBatch
<1>2. CASE Check
  BY <1>2 DEF Check
<1>3. CASE Handlers \/ Interrupted \/ Setup
  BY <1>3 DEF Handlers, Interrupted, Setup
<1>4. CASE RunKeyDistribution
  BY <1>4 DEF RunKeyDistribution
<1>5. ASSUME NEW h \in Hosts, Sign(h) \/ Replace(h) \/ Exit(h)
      PROVE  Judged'
  BY <1>5 DEF Sign, Replace, Exit
<1>6. ASSUME NEW h \in Hosts, Group(h)
      PROVE  Judged'
  <2>1. State(h) # "running" => cont[h] # "running"
    BY DEF State
  <2>2. running' = <<>> => running = <<>> /\ cont[h] # "running"
    <3>1. Append(running, h) # <<>>
      BY AppendNotEmpty DEF Typed
    <3>2. running = <<>> => ~Contains(running, h)
      BY DEF Contains
    <3> QED
      BY <1>6, <2>1, <3>1, <3>2 DEF Group
  <2> QED
    BY <1>6, <2>2 DEF Group
<1>7. CASE UNCHANGED bootstrapVars
  BY <1>7
<1> QED
  BY <1>1, <1>2, <1>3, <1>4, <1>5, <1>6, <1>7 DEF BootstrapNext

\* The host itself, or no other key: what a step makes of the generations.
LEMMA GenerationsGrow ==
    ASSUME signed' \subseteq signed \cup {keys[h] : h \in Hosts},
           \A h \in Hosts : keys'[h] \in {keys[g] : g \in Hosts} \cup {NoKeys}
    PROVE  Generations' \subseteq Generations
BY DEF Generations, NoKeys

\* Keys are set up once while no container stops.
LEMMA KeysSetUpOnce ==
    ASSUME Typed, Judged, SetUpOnce, [BootstrapNext]_bootstrapVars
    PROVE  SetUpOnce'
<1>1. exits' = 0 => exits = 0
  BY DEF Typed, BootstrapNext, bootstrapVars, counters, Deploy, NextBatch, Check, Setup, Handlers,
      RunKeyDistribution, Interrupted, Sign, Replace, Exit, Group
<1> SUFFICES ASSUME exits' = 0, exits = 0
             PROVE  /\ ~Up' => signed' = {} /\ \A h \in Hosts \ {1} : keys'[h] = NoKeys
                    /\ \A a, b \in Generations' : a = b
  BY <1>1 DEF SetUpOnce
<1>2. /\ ~Up => signed = {} /\ \A h \in Hosts \ {1} : keys[h] = NoKeys
      /\ \A a, b \in Generations : a = b
  BY DEF SetUpOnce
<1>3. CASE \/ Deploy \/ NextBatch \/ Check \/ Interrupted \/ UNCHANGED bootstrapVars
           \/ \E h \in Hosts : Group(h)
  BY <1>2, <1>3 DEF Deploy, NextBatch, Check, Interrupted, Group, bootstrapVars, Up, Generations
<1>4. CASE Setup
  <2>1. CASE keys' = keys
    BY <1>2, <1>4, <2>1 DEF Setup, Up, Generations
  <2>2. CASE keys' # keys
    <3>1. running = <<>> /\ keys' = [keys EXCEPT ![1] = deployments]
      BY <1>4, <2>2 DEF Setup
    <3>2. ~Up
      BY <1>4, <3>1 DEF Setup, Judged, Up
    <3>3. signed = {} /\ \A h \in Hosts \ {1} : keys'[h] = NoKeys
      BY <1>2, <3>1, <3>2 DEF Typed
    <3>4. signed' = signed
      BY <1>4 DEF Setup
    <3>5. \A a \in Generations' : a = keys'[1]
      BY <3>3, <3>4 DEF Generations
    <3> QED
      BY <3>3, <3>4, <3>5
  <2> QED
    BY <2>1, <2>2
<1>5. CASE Handlers
  <2>1. Up => Up'
    BY <1>5 DEF Handlers, Up
  <2>2. Generations' = Generations
    BY <1>5 DEF Handlers, Generations
  <2> QED
    BY <1>2, <1>5, <2>1, <2>2 DEF Handlers
<1>6. CASE RunKeyDistribution
  <2>1. CASE keys' = keys
    BY <1>2, <1>6, <2>1 DEF RunKeyDistribution, Up, Generations
  <2>2. CASE keys' # keys
    <3>1. Up'
      BY <1>6, <2>2, SourceIsHost DEF RunKeyDistribution, Up
    <3>2. \A h \in Hosts : keys'[h] \in {keys[g] : g \in Hosts}
      BY <1>6, <2>2, SourceIsHost DEF RunKeyDistribution
    <3>3. Generations' \subseteq Generations
      BY <1>6, <3>2, GenerationsGrow DEF RunKeyDistribution
    <3> QED
      BY <1>2, <3>1, <3>3
  <2> QED
    BY <2>1, <2>2
<1>7. ASSUME NEW h \in Hosts, Sign(h)
      PROVE  Up' /\ Generations' \subseteq Generations
  BY <1>7, GenerationsGrow DEF Sign, Up
<1>8. ASSUME NEW h \in Hosts, Replace(h)
      PROVE  Up' /\ Generations' \subseteq Generations
  <2>1. Up'
    BY <1>8 DEF Replace, Up, Typed
  <2>2. \A g \in Hosts : keys'[g] \in {keys[x] : x \in Hosts} \cup {NoKeys}
    BY <1>8 DEF Replace, Typed
  <2> QED
    BY <1>8, <2>1, <2>2, GenerationsGrow DEF Replace
<1>9. ASSUME NEW h \in Hosts, Exit(h)
      PROVE  FALSE
  BY <1>9 DEF Exit, Typed
<1> QED
  BY <1>2, <1>3, <1>4, <1>5, <1>6, <1>7, <1>8, <1>9 DEF BootstrapNext

\* Every possible source has keys while no deployment ends half way.
LEMMA KeysAtSources ==
    ASSUME Engine = "docker", Typed, Judged, SourcesHaveKeys,
           [BootstrapNext]_bootstrapVars
    PROVE  SourcesHaveKeys'
<1>1. failures' = 0 => failures = 0
  BY DEF Typed, BootstrapNext, bootstrapVars, counters, Deploy, NextBatch, Check, Setup, Handlers,
      RunKeyDistribution, Interrupted, Sign, Replace, Exit, Group, HalfWay
<1> SUFFICES ASSUME failures' = 0, failures = 0
             PROVE  SourcesHaveKeys'
  BY <1>1 DEF SourcesHaveKeys
<1> USE DEF SourcesHaveKeys, Typed, playVars, counters, bootstrapVars, End, HalfWay
<1>2. CASE Deploy
  BY <1>2 DEF Deploy
<1>3. CASE NextBatch \/ Check
  BY <1>3 DEF NextBatch, Check
<1>4. CASE Setup
  <2>1. deployments # NoKeys /\ 1 \in Hosts
    BY <1>4, SourceIsHost DEF Setup, NoKeys
  <2>2. /\ \A h \in Hosts : keys[h] # NoKeys => keys'[h] # NoKeys
        /\ running = <<>> => keys'[1] # NoKeys
    BY <1>4, <2>1 DEF Setup
  <2>3. \A i \in 1 .. Len(running) : running[i] \in Hosts
    OBVIOUS
  <2> QED
    BY <1>4, <2>2, <2>3 DEF Setup
<1>5. CASE Handlers
  BY <1>5 DEF Handlers
<1>6. CASE RunKeyDistribution
  <2>1. failures' = failures
    OBVIOUS
  <2>2. keys[Source] # NoKeys
    BY <1>6, SourceIsHost DEF RunKeyDistribution
  <2>3. keys' = [h \in Hosts |-> keys[Source]] /\ task' = "batch"
    BY <1>6, <2>1, PushToAll
  <2> QED
    BY <1>6, <2>2, <2>3 DEF RunKeyDistribution
<1>7. CASE Interrupted
  BY <1>7 DEF Interrupted
<1>8. ASSUME NEW h \in Hosts, Sign(h) \/ Exit(h)
      PROVE  SourcesHaveKeys'
  BY <1>8 DEF Sign, Exit
<1>9. ASSUME NEW h \in Hosts, Replace(h)
      PROVE  SourcesHaveKeys'
  BY <1>9 DEF Replace
<1>10. ASSUME NEW h \in Hosts, Group(h)
       PROVE  SourcesHaveKeys'
  <2>1. State(h) = "running" => cont[h] = "running"
    BY DEF State
  <2>2. running' = running \/ (running' = Append(running, h) /\ keys[h] # NoKeys)
    BY <1>10, <2>1 DEF Group
  <2>3. \A i \in 1 .. Len(running') : keys[running'[i]] # NoKeys
    BY <1>10, <2>2 DEF Group
  <2> QED
    BY <1>10, <2>3 DEF Group
<1>11. CASE UNCHANGED bootstrapVars
  BY <1>11
<1> QED
  BY <1>2, <1>3, <1>4, <1>5, <1>6, <1>7, <1>8, <1>9, <1>10, <1>11 DEF BootstrapNext

\* One more host without a running container with keys is one more counted.
LEMMA OneMore ==
    ASSUME NEW S, NEW T, NEW x, NEW n \in Nat, IsFiniteSet(S), T \subseteq S \cup {x},
           Cardinality(S) <= n
    PROVE  Cardinality(T) <= n + 1
<1>1. IsFiniteSet(S \cup {x}) /\ Cardinality(S) \in Nat
      /\ Cardinality(S \cup {x}) <= Cardinality(S) + 1
  <2>1. Cardinality(S) \in Nat
    BY FS_CardinalityType
  <2>2. /\ IsFiniteSet(S \cup {x})
        /\ Cardinality(S \cup {x}) = IF x \in S THEN Cardinality(S) ELSE Cardinality(S) + 1
    BY FS_AddElement
  <2> QED
    BY <2>1, <2>2
<1>2. IsFiniteSet(T) /\ Cardinality(T) <= Cardinality(S \cup {x})
  BY <1>1, FS_Subset
<1>3. Cardinality(T) \in Nat /\ Cardinality(S \cup {x}) \in Nat
  BY <1>1, <1>2, FS_CardinalityType
<1> QED
  BY <1>1, <1>2, <1>3

\* No more hosts, no more counted.
LEMMA NoMore ==
    ASSUME NEW S, NEW T, NEW n \in Nat, IsFiniteSet(S), T \subseteq S,
           Cardinality(S) <= n
    PROVE  Cardinality(T) <= n
<1>1. IsFiniteSet(T) /\ Cardinality(T) <= Cardinality(S)
  BY FS_Subset
<1>2. Cardinality(T) \in Nat /\ Cardinality(S) \in Nat
  BY <1>1, FS_CardinalityType
<1> QED
  BY <1>1, <1>2

\* There are N hosts.
LEMMA HostsCount ==
    /\ IsFiniteSet(Hosts) /\ Cardinality(Hosts) = N
    /\ \A S \in SUBSET Hosts : IsFiniteSet(S)
<1>1. IsFiniteSet(Hosts) /\ Cardinality(Hosts) = N
  <2>1. 1 \in Int /\ N \in Int /\ N >= 1
    BY BootstrapAssumption
  <2>2. IsFiniteSet(1 .. N) /\ Cardinality(1 .. N) = IF 1 > N THEN 0 ELSE N - 1 + 1
    BY <2>1, FS_Interval
  <2> QED
    BY <2>1, <2>2 DEF Hosts
<1> QED
  BY <1>1, FS_Subset

\* A container with keys runs while fewer were stopped or replaced than there are.
LEMMA KeysKept ==
    ASSUME Engine = "docker", Typed, Judged, SourcesHaveKeys,
           SomeoneHasKeys, [BootstrapNext]_bootstrapVars
    PROVE  SomeoneHasKeys'
<1>1. /\ failures' = 0 => failures = 0
      /\ exits' + replaced' < N => exits + replaced < N
  BY BootstrapAssumption DEF Typed, BootstrapNext, bootstrapVars, counters, Deploy, NextBatch, Check,
      Setup, Handlers, RunKeyDistribution, Interrupted, Sign, Replace, Exit, Group, HalfWay
<1> SUFFICES ASSUME failures' = 0, failures = 0, exits + replaced < N
             PROVE  SomeoneHasKeys'
  BY <1>1 DEF SomeoneHasKeys
<1> DEFINE Same == \A g, h \in Hosts : keys[g] # NoKeys /\ keys[h] # NoKeys
                                          => keys[g] = keys[h]
           Started == \E h \in Hosts : keys[h] # NoKeys
<1>2. /\ Same
      /\ Started /\ ~First => Cardinality(Lacking) <= exits + replaced
      /\ First /\ task = "distribute" => Cardinality(NotRunning) <= exits
  BY DEF SomeoneHasKeys
<1>3. /\ IsFiniteSet(Lacking) /\ IsFiniteSet(NotRunning)
      /\ exits + replaced \in Nat /\ exits \in Nat /\ replaced \in Nat
  BY HostsCount DEF Lacking, NotRunning, Typed
<1> SUFFICES /\ Same'
             /\ Started' /\ ~First' => Cardinality(Lacking') <= exits' + replaced'
             /\ First' /\ task' = "distribute" => Cardinality(NotRunning') <= exits'
  BY DEF SomeoneHasKeys
<1>4. CASE Deploy \/ NextBatch \/ Check
  <2>1. UNCHANGED <<cont, keys, exits, replaced>> /\ ~First /\ ~First'
    BY <1>4 DEF Deploy, NextBatch, Check, First, End, counters
  <2> QED
    BY <1>2, <2>1 DEF Lacking
<1>5. CASE Setup
  <2>1. CASE running = <<>>
    <3>1. Lacking = Hosts
      BY <1>5, <2>1 DEF Setup, Judged, Lacking
    <3>2. ~Started
      BY <1>2, <1>3, <1>5, <3>1, HostsCount, BootstrapAssumption DEF Setup, First
    <3>3. \A h \in Hosts \ {1} : keys'[h] = NoKeys
      BY <1>5, <3>2 DEF Setup, Typed
    <3>4. First' /\ task' # "distribute"
      BY <1>5, <2>1 DEF Setup, First
    <3> QED
      BY <3>3, <3>4
  <2>2. CASE running # <<>>
    <3>1. UNCHANGED <<cont, keys, exits, replaced>> /\ ~First /\ ~First'
      BY <1>5, <2>2 DEF Setup, First, counters
    <3> QED
      BY <1>2, <3>1 DEF Lacking
  <2> QED
    BY <2>1, <2>2
<1>6. CASE Handlers
  <2>1. UNCHANGED <<keys, running, exits, replaced>> /\ First' = First
    BY <1>6 DEF Handlers, First, counters
  <2>2. Lacking' \subseteq Lacking
    BY <1>6 DEF Handlers, Lacking, Typed
  <2>3. First => NotRunning' = {}
    BY <1>6 DEF Handlers, Judged, First, NotRunning
  <2>4. Cardinality({}) = 0
    BY FS_EmptySet
  <2>5. Cardinality(Lacking) <= exits + replaced => Cardinality(Lacking') <= exits + replaced
    BY <1>3, <2>2, NoMore
  <2> QED
    BY <1>2, <1>3, <2>1, <2>3, <2>4, <2>5
<1>7. CASE RunKeyDistribution
  <2>1. keys[Source] # NoKeys
    BY <1>7, SourceIsHost DEF RunKeyDistribution, SourcesHaveKeys, Typed
  <2>2. keys' = [h \in Hosts |-> keys[Source]] /\ task' = "batch"
    BY <1>7, PushToAll
  <2>3. Same' /\ ~First'
    BY <2>2 DEF First
  <2>4. UNCHANGED <<cont, exits, replaced>>
    BY <1>7 DEF RunKeyDistribution
  <2>5. Lacking' \subseteq Lacking /\ Lacking' = NotRunning
    BY <2>1, <2>2, <2>4 DEF Lacking, NotRunning
  <2>6. CASE First
    <3>1. Cardinality(NotRunning) \in Nat
      BY <1>3, FS_CardinalityType
    <3> QED
      BY <1>2, <1>3, <1>7, <2>3, <2>4, <2>5, <2>6, <3>1 DEF RunKeyDistribution
  <2>7. CASE ~First
    <3>1. Started
      BY <2>1, SourceIsHost
    <3>2. Cardinality(Lacking') <= exits + replaced
      BY <1>2, <1>3, <2>5, <2>7, <3>1, NoMore
    <3> QED
      BY <2>3, <2>4, <3>2
  <2> QED
    BY <2>6, <2>7
<1>8. CASE Interrupted
  BY <1>8 DEF Interrupted, HalfWay
<1>9. ASSUME NEW h \in Hosts, Sign(h) \/ Group(h)
      PROVE  /\ Same'
             /\ Started' /\ ~First' => Cardinality(Lacking') <= exits' + replaced'
             /\ First' /\ task' = "distribute" => Cardinality(NotRunning') <= exits'
  <2>1. UNCHANGED <<cont, keys, exits, replaced>> /\ First' = First
        /\ (First => task' = task)
    BY <1>9 DEF Sign, Group, First, playVars, counters
  <2> QED
    BY <1>2, <2>1 DEF Lacking, NotRunning
<1>10. ASSUME NEW h \in Hosts, Replace(h)
       PROVE  /\ Same'
              /\ Started' /\ ~First' => Cardinality(Lacking') <= exits' + replaced'
              /\ First' /\ task' = "distribute" => Cardinality(NotRunning') <= exits'
  <2>1. Same' /\ (Started' => Started)
    BY <1>2, <1>10 DEF Replace, Typed
  <2>2. ~First /\ ~First'
    BY <1>10 DEF Replace, First, playVars
  <2>3. Lacking' \subseteq Lacking \cup {h}
    BY <1>10 DEF Replace, Lacking, Typed
  <2>4. Started => Cardinality(Lacking') <= exits + replaced + 1
    BY <1>2, <1>3, <2>2, <2>3, OneMore
  <2>5. exits' + replaced' = exits + replaced + 1
    BY <1>3, <1>10 DEF Replace
  <2> QED
    BY <2>1, <2>2, <2>4, <2>5
<1>11. ASSUME NEW h \in Hosts, Exit(h)
       PROVE  /\ Same'
              /\ Started' /\ ~First' => Cardinality(Lacking') <= exits' + replaced'
              /\ First' /\ task' = "distribute" => Cardinality(NotRunning') <= exits'
  <2>1. UNCHANGED keys /\ First' = First /\ task' = task
    BY <1>11 DEF Exit, First, playVars
  <2>2. Lacking' \subseteq Lacking \cup {h} /\ NotRunning' \subseteq NotRunning \cup {h}
    BY <1>11 DEF Exit, Lacking, NotRunning, Typed
  <2>3. Started /\ ~First => Cardinality(Lacking') <= exits + replaced + 1
    BY <1>2, <1>3, <2>2, OneMore
  <2>4. First /\ task = "distribute" => Cardinality(NotRunning') <= exits + 1
    BY <1>2, <1>3, <2>2, OneMore
  <2>5. exits' + replaced' = exits + replaced + 1 /\ exits' = exits + 1
    BY <1>3, <1>11 DEF Exit
  <2> QED
    BY <1>2, <2>1, <2>3, <2>4, <2>5
<1>12. CASE UNCHANGED bootstrapVars
  <2>1. UNCHANGED <<cont, keys, exits, replaced, task, running>>
    BY <1>12 DEF bootstrapVars, playVars, counters
  <2> QED
    BY <1>2, <2>1 DEF Lacking, NotRunning, First
<1> QED
  BY <1>4, <1>5, <1>6, <1>7, <1>8, <1>9, <1>10, <1>11, <1>12 DEF BootstrapNext

-----------------------------------------------------------------------------
(* The theorem.                                                            *)

\* The invariant holds in every reachable state.
LEMMA KeysInvariant ==
    ASSUME Engine = "docker"
    PROVE  BootstrapSpec => []BootstrapInv
<1>1. BootstrapInit => BootstrapInv
  <2> SUFFICES ASSUME BootstrapInit PROVE BootstrapInv
    OBVIOUS
  <2>1. Typed
    BY DEF BootstrapInit, Typed, Stages, NoKeys
  <2>2. Judged /\ SetUpOnce /\ SourcesHaveKeys
    BY DEF BootstrapInit, Judged, SetUpOnce, Generations, SourcesHaveKeys
  <2>3. SomeoneHasKeys
    BY DEF BootstrapInit, SomeoneHasKeys, First
  <2> QED
    BY <2>1, <2>2, <2>3 DEF BootstrapInv
<1>2. BootstrapInv /\ [BootstrapNext]_bootstrapVars => BootstrapInv'
  BY KeysTyped, KeysJudged, KeysSetUpOnce, KeysAtSources, KeysKept DEF BootstrapInv
<1> QED
  BY <1>1, <1>2, PTL DEF BootstrapSpec

\* No step takes keys in use from a host.
LEMMA KeepsStep ==
    ASSUME BootstrapInv, [BootstrapNext]_bootstrapVars, failures = 0, exits + replaced < N,
           NEW h \in Hosts, keys[h] \in signed, cont'[h] # "absent"
    PROVE  keys'[h] = keys[h]
<1>1. Typed /\ keys[h] # NoKeys
  BY DEF BootstrapInv, Typed
<1>2. CASE Setup
  BY <1>1, <1>2 DEF Setup, Typed
<1>3. CASE RunKeyDistribution
  <2>1. keys[Source] # NoKeys
    BY <1>1, <1>3, SourceIsHost DEF RunKeyDistribution, BootstrapInv, SourcesHaveKeys, Typed
  <2>2. keys[Source] = keys[h]
    BY <1>1, <2>1, SourceIsHost DEF BootstrapInv, SomeoneHasKeys
  <2> QED
    BY <1>3, <2>2 DEF RunKeyDistribution
<1>4. ASSUME NEW g \in Hosts, Replace(g)
      PROVE  keys'[h] = keys[h]
  BY <1>1, <1>4 DEF Replace, Typed
<1>5. CASE ~Setup /\ ~RunKeyDistribution /\ ~(\E g \in Hosts : Replace(g))
  BY <1>5 DEF BootstrapNext, Deploy, NextBatch, Check, Handlers, Interrupted, Sign, Exit, Group,
      bootstrapVars
<1> QED
  BY <1>2, <1>3, <1>4, <1>5

\* Deployments with docker do no harm to the keys, for every number of hosts and
\* every history of deployments, replacements, stops and losses.
THEOREM DeploymentsKeepKeys ==
    ASSUME Engine = "docker"
    PROVE  BootstrapSpec => DeploysKeepKeys
<1>1. BootstrapInv /\ [BootstrapNext]_bootstrapVars =>
        [failures = 0 /\ exits + replaced < N =>
           \A h \in Hosts : keys[h] \in signed /\ cont'[h] # "absent"
                              => keys'[h] = keys[h]]_bootstrapVars
  BY KeepsStep
<1>2. BootstrapInv /\ [BootstrapNext]_bootstrapVars =>
        [failures = 0 /\ result' = "ok" /\ task = "batch" /\ task' = "idle"
           => \A g, h \in Hosts : keys[g] # NoKeys /\ keys[g] = keys[h]]_bootstrapVars
  <2> SUFFICES ASSUME BootstrapInv, [BootstrapNext]_bootstrapVars, failures = 0,
                      result' = "ok", task = "batch",
                      task' = "idle"
               PROVE  \A g, h \in Hosts : keys[g] # NoKeys /\ keys[g] = keys[h]
    OBVIOUS
  <2>1. targets = {}
    BY DEF BootstrapNext, Deploy, NextBatch, Check, Setup, Handlers, RunKeyDistribution, Interrupted,
        HalfWay, End, Sign, Replace, Exit, Group, bootstrapVars, playVars
  <2> QED
    BY <2>1 DEF BootstrapInv, SourcesHaveKeys
<1>3. BootstrapInv => OneGeneration
  BY DEF BootstrapInv, Typed, SetUpOnce, Generations, OneGeneration
<1> QED
  BY <1>1, <1>2, <1>3, KeysInvariant, PTL
  DEF BootstrapSpec, DeploysKeepKeys, DeployKeepsKeys, DeploySynchronises

=============================================================================
