---------------------------- MODULE MCFernetKeys ----------------------------
(***************************************************************************)
(* The fernet keys of three keystone hosts.  One of three stories is told: *)
(* "rotation", where a retired key outlives its tokens by the time a push  *)
(* takes; "default", the default configuration, where a key is retired for *)
(* as long as a token lives and a push takes no time; and "deploy", where  *)
(* the keys are set up and distributed by deployments.                     *)
(***************************************************************************)
EXTENDS FernetKeys, FernetBootstrap

Default == INSTANCE FernetKeys WITH Interval <- TokenLife, PushTime <- 0,
                                    MaxTime <- 3 * TokenLife + 1, MaxLost <- 0

VARIABLE story

keystoneVars == <<vars, bootstrapVars, story>>

KeystoneInit ==
    /\ story \in {"rotation", "default", "deploy"}
    /\ IF story = "default" THEN Default!Init ELSE Init
    /\ BootstrapInit

KeystoneNext ==
    /\ \/ story = "rotation" /\ Next /\ UNCHANGED bootstrapVars
       \/ story = "default" /\ Default!Next /\ UNCHANGED bootstrapVars
       \/ story = "deploy" /\ BootstrapNext /\ UNCHANGED vars
    /\ UNCHANGED story

KeystoneSpec == KeystoneInit /\ [][KeystoneNext]_keystoneVars

-----------------------------------------------------------------------------
\* The repositories hold the keys and as many as they may.
RepositoriesTyped == IF story = "default" THEN Default!TypeOK ELSE TypeOK

=============================================================================
