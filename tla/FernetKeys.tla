----------------------------- MODULE FernetKeys -----------------------------
(***************************************************************************)
(* Fernet key repositories of a keystone group.  A rotation runs on one    *)
(* host (fernet-rotate.sh, from its crontab): keystone-manage turns the    *)
(* staged key into the primary one, stages a new key and drops keys beyond *)
(* max_active_keys; fernet-push.sh then mirrors the repository to the      *)
(* other hosts, one rsync after the other, and stops at the first that     *)
(* fails.  A deployment mirrors the repository of one host in the same     *)
(* way.  Meanwhile every host signs tokens with its own primary key, and   *)
(* any host may be asked to validate them.                                 *)
(*                                                                         *)
(* FernetCron shows when rotations happen: at least one interval apart, on *)
(* any host of the group.                                                  *)
(***************************************************************************)
EXTENDS KeystoneGroup, Integers, Sequences, FiniteSets, FiniteSetsExt

CONSTANTS TokenLife,       \* fernet_token_expiry + fernet_token_allow_expired_window
          Interval,        \* fernet_key_rotation_interval
          PushTime,        \* the longest a rotation's push takes
          MaxTime,         \* bound on time
          MaxDeploys,      \* bound on deployments
          MaxLost,         \* bound on rsync calls that fail
          Overlap          \* a deployment may push during a rotation's push

ASSUME FernetAssumption == /\ {N, TokenLife, Interval} \subseteq Nat \ {0}
                           /\ {MaxTime, MaxDeploys, MaxLost} \subseteq Nat
                           /\ PushTime \in 0 .. Interval - 1
                           /\ Overlap \in BOOLEAN

Pushers == {"cron", "deploy"}
Never == -1
Keys == 0 .. (MaxTime \div Interval) + 3     \* as many as there can be rotations

(* Fault: the division is rounded down. *)
max_active_keys_floor == TokenLife \div Interval + 2

max_active_keys == (TokenLife + Interval - 1) \div Interval + 2

VARIABLES now,
          repo,            \* each host's key files: index -> key
          push,            \* each pusher's source and the hosts it has still to reach
          rotated,         \* time of the last rotation
          deploys, lost,   \* deployments made, rsync calls that failed
          issued           \* key -> when it last signed a token

vars == <<now, repo, push, rotated, deploys, lost, issued>>

-----------------------------------------------------------------------------
(* The key files of a repository: 0 is the staged key, the highest index   *)
(* the primary one.                                                        *)
Primary(h) == repo[h][Max(DOMAIN repo[h])]
Known(h) == {repo[h][i] : i \in DOMAIN repo[h]}

(* The key that keystone-manage generates: on no host, and never used. *)
FreshKey == Min({k \in Keys : issued[k] = Never /\ \A h \in Hosts : k \notin Known(h)})

(* keystone-manage fernet_rotate on repository r. *)
FernetRotate(r, fresh) ==
    LET primary == Max(DOMAIN r) + 1
        signed  == (DOMAIN r \ {0}) \cup {primary}
        kept    == {i \in signed : Cardinality({j \in signed : j > i}) < max_active_keys - 1}
    IN  [i \in kept \cup {0} |->
            IF i = 0 THEN fresh ELSE IF i = primary THEN r[0] ELSE r[i]]

(* Fault: the host pushes to itself as well. *)
OthersAndSelf(h) == [i \in Hosts |-> i]

(* The hosts fernet-push.sh on h mirrors to, in the order of the group. *)
Others(h) == [i \in 1 .. N - 1 |-> IF i < h THEN i ELSE i + 1]

Idle(p) == push[p].to = <<>>

Init == /\ now = 0 /\ rotated = 0 /\ deploys = 0 /\ lost = 0
        /\ repo = [h \in Hosts |-> [i \in {0, 1} |-> i]]      \* fernet_setup, then a push
        /\ push = [p \in Pushers |-> [from |-> 1, to |-> <<>>]]
        /\ issued = [k \in Keys |-> Never]

(* cron on host h runs fernet-rotate.sh. *)
Rotate(h) == /\ now >= rotated + Interval
             /\ Idle("cron")
             /\ Overlap \/ Idle("deploy")
             /\ repo' = [repo EXCEPT ![h] = FernetRotate(@, FreshKey)]
             /\ rotated' = now
             /\ push' = [push EXCEPT !["cron"] = [from |-> h, to |-> Others(h)]]
             /\ UNCHANGED <<now, deploys, lost, issued>>

(* A deployment runs fernet-push.sh on a host where the container runs. *)
Distribute(h) == /\ deploys < MaxDeploys
                 /\ Idle("deploy")
                 /\ Overlap \/ Idle("cron")
                 /\ deploys' = deploys + 1
                 /\ push' = [push EXCEPT !["deploy"] = [from |-> h, to |-> Others(h)]]
                 /\ UNCHANGED <<now, repo, rotated, lost, issued>>

(* fernet-push.sh mirrors the repository to the next host. *)
Rsync(p) == /\ ~Idle(p)
            /\ repo' = [repo EXCEPT ![Head(push[p].to)] = repo[push[p].from]]
            /\ push' = [push EXCEPT ![p].to = Tail(@)]
            /\ UNCHANGED <<now, rotated, deploys, lost, issued>>

(* Fault: the script goes on after an rsync that failed. *)
RsyncFailsQuietly(p) == /\ ~Idle(p)
                        /\ lost < MaxLost
                        /\ lost' = lost + 1
                        /\ push' = [push EXCEPT ![p].to = Tail(@)]
                        /\ UNCHANGED <<now, repo, rotated, deploys, issued>>

(* The rsync to the next host fails: errexit, no host after it is reached. *)
RsyncFails(p) == /\ ~Idle(p)
                 /\ lost < MaxLost
                 /\ lost' = lost + 1
                 /\ push' = [push EXCEPT ![p].to = <<>>]
                 /\ UNCHANGED <<now, repo, rotated, deploys, issued>>

(* A keystone server signs a token. *)
IssueToken(h) == /\ issued' = [issued EXCEPT ![Primary(h)] = now]
                 /\ UNCHANGED <<now, repo, push, rotated, deploys, lost>>

(* Time passes; a rotation's push ends within PushTime. *)
Tick == /\ now < MaxTime
        /\ Idle("cron") \/ now < rotated + PushTime
        /\ now' = now + 1
        /\ UNCHANGED <<repo, push, rotated, deploys, lost, issued>>

Next == \/ \E h \in Hosts : Rotate(h) \/ Distribute(h) \/ IssueToken(h)
        \/ \E p \in Pushers : Rsync(p) \/ RsyncFails(p)
        \/ Tick

Spec == Init /\ [][Next]_vars

-----------------------------------------------------------------------------
TypeOK == /\ now \in 0 .. MaxTime /\ rotated \in 0 .. MaxTime
          /\ deploys \in 0 .. MaxDeploys /\ lost \in 0 .. MaxLost
          /\ \A h \in Hosts : /\ 0 \in DOMAIN repo[h]
                              /\ Known(h) \subseteq Keys
                              /\ Cardinality(DOMAIN repo[h]) <= max_active_keys
          /\ \A p \in Pushers : push[p].from \in Hosts /\ Len(push[p].to) < N
          /\ issued \in [Keys -> 0 .. MaxTime \cup {Never}]

(***************************************************************************)
(* No user's token stops working: every token that has not expired, signed *)
(* by any host, is accepted by every host, also while a rotation has       *)
(* reached only some of the hosts, as long as no rsync has failed.  This   *)
(* is what max_active_keys and the staged key are for.  It needs PushTime  *)
(* + TokenLife to be at most the life of a key that has ceased to be       *)
(* primary, (max_active_keys - 2) * Interval: in the default               *)
(* configuration, TokenLife = Interval, nothing is left for the push.      *)
(***************************************************************************)
TokensValidate ==
    lost = 0 =>
        \A k \in DOMAIN issued : issued[k] # Never /\ now < issued[k] + TokenLife
                            => \A h \in Hosts : k \in Known(h)

(***************************************************************************)
(* "Fernet tokens require the use of keys that must be synchronised        *)
(* between Keystone servers": when nobody pushes and no rsync has failed,  *)
(* the repositories are the same.                                          *)
(***************************************************************************)
Synchronised ==
    (\A p \in Pushers : Idle(p)) /\ lost = 0 => \A g, h \in Hosts : repo[g] = repo[h]

(***************************************************************************)
(* A push that ends without an error has synchronised the group, whatever  *)
(* earlier pushes have missed and however stale its own host was: this is  *)
(* how the group recovers from a lost push, and what the exit status of    *)
(* fernet-push.sh (set -o errexit) tells cron and the deployment.          *)
(***************************************************************************)
PushStep == \A p \in Pushers :
                ~Idle(p) /\ push'[p].to = <<>> /\ lost' = lost
                    => \A g, h \in Hosts : repo'[g] = repo'[h]
PushSynchronises == [][PushStep]_vars

(***************************************************************************)
(* fernet-push.sh leaves the whole group with the keys of the host that    *)
(* pushes: between pushes all hosts have the same unless an rsync was      *)
(* lost, and the first push that ends without an error after that makes up *)
(* for it.                                                                 *)
(***************************************************************************)
PushesReachAll == []Synchronised /\ PushSynchronises
=============================================================================
