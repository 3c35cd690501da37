----------------------------- MODULE Passwords -----------------------------
(***************************************************************************)
(* kolla_ansible/cmd/{genpwd,mergepwd,readpwd,writepwd}.py: the tools that *)
(* rewrite passwords.yml and copy it to and from Hashicorp Vault, and the  *)
(* documented ways of using them (user/operating-kolla.rst,                *)
(* admin/password-rotation.rst).  A step is one call that leaves the       *)
(* process: reading a file, a Vault request, os.remove, os.open with       *)
(* O_TRUNC, the write.  The process may be killed between any two, and in  *)
(* the middle of a write.  After a failure the operator repeats the step   *)
(* that failed with the inputs it had.                                     *)
(***************************************************************************)
EXTENDS Naturals, FiniteSets, Dicts

CONSTANTS
    ssh_keys,      \* keys whose value is a key pair
    blank_keys,    \* keys that stay None
    Installed,     \* contents passwords.yml may have in a running cloud, by workflow
    Template,      \* passwords.yml as the new release ships it
    MaxKills,      \* processes killed
    MaxRuns        \* tools run in the "vault" workflow

\* Values: None, a text, a key pair (either half may be missing), and what a
\* tool generates for a key.
NoPassword == [kind |-> "none"]
Text(s) == [kind |-> "text", text |-> s]
Pair(a, b) == [kind |-> "pair", private |-> a, public |-> b]
Fresh(k) == IF k \in ssh_keys THEN Pair("fresh", "fresh") ELSE Text("fresh")

Password == [kind : {"none"}] \cup [kind : {"text"}, text : STRING]
                \cup [kind : {"pair"}, private : STRING, public : STRING]

\* A key has no fixed value in a release, and a key pair is not one to stay empty.
ASSUME PasswordsAssumption ==
    /\ ssh_keys \cap blank_keys = {}
    /\ \A w \in {"upgrade", "rotate", "vault"} : \A d \in Installed[w] :
          \A k \in DOMAIN d : d[k] \in Password
    /\ \A k \in DOMAIN Template :
          IF k \in ssh_keys THEN Template[k] \in {NoPassword, Pair("", "")}
                            ELSE Template[k] = NoPassword

\* A file: missing, emptied by O_TRUNC, or a dict.
NoFile == [state |-> "missing"]
EmptyFile == [state |-> "empty"]
Dict(d) == [state |-> "dict", map |-> d]

FileNames == {"etc", "old", "new"}   \* /etc/kolla/passwords.yml, .old (or .bak), .new

VARIABLES
    workflow,  \* what the operator does: "upgrade", "rotate" or "vault"
    file,      \* [FileNames -> file]
    vault,     \* secrets by key; a key without one is not in its domain
    stage,     \* the operator's place in the workflow
    tool,      \* the tool that runs, "none" between two
    pc,        \* its next call
    target,    \* the file it rewrites
    buf,       \* the dict it will write
    todo,      \* keys its loop has not seen
    status,    \* how the last tool ended: "none", "ok", "failed", "killed"
    kills,     \* processes killed so far
    runs,      \* tools started in the "vault" workflow
    deployed,  \* history: the passwords the cloud runs with
    edited,    \* history: keys emptied for regeneration
    before     \* history: the rewritten file when the tool read it

passwordVars == <<workflow, file, vault, stage, tool, pc, target, buf, todo, status, kills,
                  runs, deployed, edited, before>>
fixed == <<workflow, deployed, edited, kills, runs>>   \* what no step of a tool changes

PasswordsInit ==
    /\ workflow \in {"upgrade", "rotate", "vault"}
    /\ deployed \in Installed[workflow]
    /\ file = [n \in FileNames |-> IF n = "etc" THEN Dict(deployed) ELSE NoFile]
    /\ vault = <<>>
    /\ stage = "start"
    /\ tool = "none" /\ pc = "idle" /\ target = "etc"
    /\ buf = <<>> /\ todo = {} /\ status = "none"
    /\ kills = 0 /\ runs = 0 /\ edited = {} /\ before = <<>>

-----------------------------------------------------------------------------
(* The operator                                                            *)

\* Where the workflow goes on after a tool, or after its failure.
AfterOk == [copied |-> "generated", generated |-> "finished",
            edited |-> "finished", start |-> "start"]
AfterFailure == [copied |-> "saved", generated |-> "generated",
                 edited |-> "saved", start |-> "start"]

Quiet == UNCHANGED <<workflow, vault, tool, pc, target, buf, todo, status, kills, runs,
                     deployed, before>>

\* cp /etc/kolla/passwords.yml passwords.yml.old (passwords.yml.bak)
Save ==
    /\ workflow \in {"upgrade", "rotate"}
    /\ stage = "start"
    /\ file' = [file EXCEPT !.old = file.etc]
    /\ stage' = "saved"
    /\ UNCHANGED edited
    /\ Quiet

\* cp kolla-ansible/etc/kolla/passwords.yml passwords.yml.new
CopyTemplate ==
    /\ workflow = "upgrade"
    /\ stage = "saved"
    /\ file' = [file EXCEPT !.new = Dict(Template)]
    /\ stage' = "copied"
    /\ UNCHANGED edited
    /\ Quiet

\* "Edit the passwords.yml file to remove the password strings": of the file
\* that was saved, which a failed attempt is repeated from.
EmptyKeys ==
    /\ workflow = "rotate"
    /\ stage = "saved"
    /\ edited' \in SUBSET DOMAIN deployed
    /\ file' = [file EXCEPT !.etc =
                  Dict([k \in DOMAIN deployed |->
                          IF k \in edited' THEN NoPassword ELSE file.old.map[k]])]
    /\ stage' = "edited"
    /\ Quiet

\* With Vault, the file is edited or restored at any time.
EditFile ==
    /\ workflow = "vault" /\ tool = "none" /\ runs < MaxRuns
    /\ \E d \in Installed[workflow] : file' = [file EXCEPT !.etc = Dict(d)]
    /\ runs' = runs + 1
    /\ status' = "none"
    /\ UNCHANGED <<workflow, vault, stage, tool, pc, target, buf, todo, kills,
                   deployed, edited, before>>

Start(t, name) ==
    /\ tool = "none"
    /\ tool' = t
    /\ pc' = "read"
    /\ target' = name
    /\ buf' = <<>>
    /\ todo' = {}
    /\ status' = "none"
    /\ UNCHANGED <<workflow, file, vault, stage, kills, deployed, edited, before>>

StartTool ==
    \/ workflow = "upgrade" /\ stage = "copied" /\ Start("genpwd", "new") /\ UNCHANGED runs
    \/ workflow = "upgrade" /\ stage = "generated" /\ UNCHANGED runs
         /\ (Start("mergepwd", "etc") \/ Start("mergepwd --clean", "etc"))
    \/ workflow = "rotate" /\ stage = "edited" /\ Start("genpwd", "etc") /\ UNCHANGED runs
    \/ workflow = "vault" /\ runs < MaxRuns /\ runs' = runs + 1
         /\ (Start("readpwd", "etc") \/ Start("writepwd", "etc"))

-----------------------------------------------------------------------------
(* Ends and common steps of the tools                                      *)

Ends(how) ==
    /\ tool' = "none"
    /\ pc' = "idle"
    /\ status' = how
    /\ stage' = IF how = "ok" THEN AfterOk[stage] ELSE AfterFailure[stage]

Goes(label) == pc' = label /\ UNCHANGED <<tool, status, stage>>

\* sys.exit(1) for a file that is not a dict, FileNotFoundError or sys.exit(1)
\* for one that is missing: nothing has been touched.
InputFails(name) ==
    /\ pc = "read"
    /\ file[name].state # "dict"
    /\ Ends("failed")
    /\ UNCHANGED <<file, vault, target, buf, todo, before, fixed>>

\* Fault: the OSError of os.remove is not ignored.
RemoveFileStrict ==
    /\ pc = "remove"
    /\ IF file[target] = NoFile
         THEN UNCHANGED file /\ Ends("failed")
         ELSE file' = [file EXCEPT ![target] = NoFile] /\ Goes("open")
    /\ UNCHANGED <<vault, target, buf, todo, before, fixed>>

\* os.remove, whose OSError is ignored; os.open; write.
RemoveFile ==
    /\ pc = "remove"
    /\ file' = [file EXCEPT ![target] = NoFile]
    /\ Goes("open")
    /\ UNCHANGED <<vault, target, buf, todo, before, fixed>>

OpenFile ==
    /\ pc = "open"
    /\ file' = [file EXCEPT ![target] = EmptyFile]
    /\ Goes("write")
    /\ UNCHANGED <<vault, target, buf, todo, before, fixed>>

WriteFile ==
    /\ pc = "write"
    /\ file' = [file EXCEPT ![target] = Dict(buf)]
    /\ Ends("ok")
    /\ UNCHANGED <<vault, target, buf, todo, before, fixed>>

\* The process dies; a write may have got as far as some of the keys.  The step of
\* the workflow is prepared again, or, when no file is left, the tool just repeated.
Kill ==
    /\ tool # "none"
    /\ kills < MaxKills
    /\ kills' = kills + 1
    /\ \/ UNCHANGED file
       \/ /\ pc = "write"
          /\ \E S \in SUBSET DOMAIN buf \ {{}} :
                file' = [file EXCEPT ![target] = Dict([k \in S |-> buf[k]])]
    /\ tool' = "none" /\ pc' = "idle" /\ status' = "killed"
    /\ \/ stage' = AfterFailure[stage]
       \/ file'[target].state # "dict" /\ stage' = stage
    /\ UNCHANGED <<workflow, vault, target, buf, todo, before, runs, deployed, edited>>

-----------------------------------------------------------------------------
(* genpwd                                                                  *)

\* The loop's body.  A uuid, an HMAC, a fernet key, a salt or a random text of
\* 40 characters are all fresh values.
Generate(k, v) ==
    IF k \in ssh_keys /\ (v = NoPassword \/ (v.public = "" /\ v.private = "")) THEN Fresh(k)
    ELSE IF v = NoPassword /\ k \notin blank_keys THEN Fresh(k)
    ELSE v

\* v.get() of a text raises.
SshKeyIsText(d) == \E k \in ssh_keys \cap DOMAIN d : d[k].kind = "text"

Genpwd ==
    \/ tool = "genpwd" /\ InputFails(target)
    \/ /\ tool = "genpwd" /\ pc = "read"
       /\ file[target].state = "dict"
       /\ LET d == file[target].map
          IN  /\ before' = d
              /\ IF SshKeyIsText(d)
                   THEN UNCHANGED buf /\ Ends("failed")
                   ELSE buf' = [k \in DOMAIN d |-> Generate(k, d[k])] /\ Goes("remove")
       /\ UNCHANGED <<file, vault, target, todo, fixed>>

-----------------------------------------------------------------------------
(* mergepwd                                                                *)

\* Fault: the newly generated passwords win.
MergeNewWins(old, new, clean) ==
    IF clean THEN new ELSE Overlay(new, old)

MergePasswords(old, new, clean) ==
    IF clean THEN [k \in DOMAIN new |-> IF k \in DOMAIN old THEN old[k] ELSE new[k]]
             ELSE Overlay(old, new)

\* Fault: the old file is removed instead of the final one.
MergepwdRemovesOld ==
    /\ tool \in {"mergepwd", "mergepwd --clean"}
    /\ pc = "read"
    /\ file.old.state = "dict" /\ file.new.state = "dict"
    /\ buf' = MergePasswords(file.old.map, file.new.map, tool = "mergepwd --clean")
    /\ file' = [file EXCEPT !.old = NoFile]
    /\ before' = file.old.map
    /\ Goes("open")
    /\ UNCHANGED <<vault, target, todo, fixed>>

Mergepwd ==
    /\ tool \in {"mergepwd", "mergepwd --clean"}
    /\ \/ InputFails("old")
       \/ InputFails("new")
       \/ /\ pc = "read"
          /\ file.old.state = "dict" /\ file.new.state = "dict"
          /\ buf' = MergePasswords(file.old.map, file.new.map, tool = "mergepwd --clean")
          /\ before' = file.old.map
          /\ Goes("remove")
          /\ UNCHANGED <<file, vault, target, todo, fixed>>

-----------------------------------------------------------------------------
(* readpwd, writepwd                                                       *)

\* hashicorp_vault_client: which credentials may be given together.
ClientArgsOk(role_id, secret_id, token) ==
    IF role_id \/ secret_id THEN ~token /\ role_id /\ secret_id ELSE token

ConnectVault ==
    /\ tool \in {"readpwd", "writepwd"}
    /\ pc = "read"
    /\ file[target].state = "dict"
    /\ \E role_id, secret_id, token, authenticated \in BOOLEAN :
          IF ClientArgsOk(role_id, secret_id, token) /\ authenticated
            THEN todo' = DOMAIN file[target].map /\ Goes("loop")
            ELSE UNCHANGED todo /\ Ends("failed")
    /\ buf' = IF tool = "writepwd" THEN file[target].map ELSE <<>>
    /\ before' = file[target].map
    /\ UNCHANGED <<file, vault, target, fixed>>

VaultInputFails == tool \in {"readpwd", "writepwd"} /\ InputFails(target)

\* Any other error of a request is not caught.
VaultFails ==
    /\ pc = "loop" /\ todo # {}
    /\ Ends("failed")
    /\ UNCHANGED <<file, vault, target, buf, todo, before, fixed>>

\* dict(password=...) around a text is taken off again.
Secret(k, d) == Set(d, k, IF k \in DOMAIN vault THEN vault[k] ELSE NoPassword)

ReadSecret ==
    /\ tool = "readpwd" /\ pc = "loop"
    /\ IF todo = {}
         THEN Goes("remove") /\ UNCHANGED <<buf, todo>>
         ELSE /\ \E k \in todo : buf' = Secret(k, buf) /\ todo' = todo \ {k}
              /\ Goes("loop")
    /\ UNCHANGED <<file, vault, target, before, fixed>>

Falsy(v) == v \in {NoPassword, Text("")}

\* Fault: only secrets Vault does not have yet are written.
StoreNew(k, v) == IF Falsy(v) \/ k \in DOMAIN vault THEN vault ELSE Set(vault, k, v)

\* Read and, when it differs, create_or_update_secret.
Store(k, v) == IF Falsy(v) THEN vault ELSE Set(vault, k, v)

WriteSecret ==
    /\ tool = "writepwd" /\ pc = "loop"
    /\ IF todo = {}
         THEN Ends("ok") /\ UNCHANGED <<vault, todo>>
         ELSE /\ \E k \in todo : vault' = Store(k, buf[k]) /\ todo' = todo \ {k}
              /\ Goes("loop")
    /\ UNCHANGED <<file, target, buf, before, fixed>>

-----------------------------------------------------------------------------
Tool == Genpwd \/ Mergepwd \/ ConnectVault \/ VaultInputFails \/ ReadSecret
            \/ WriteSecret \/ RemoveFile \/ OpenFile \/ WriteFile

Operator == Save \/ CopyTemplate \/ EmptyKeys \/ EditFile \/ StartTool

PasswordsNext == Operator \/ Tool \/ VaultFails \/ Kill

PasswordsSpec == PasswordsInit /\ [][PasswordsNext]_passwordVars

\* The operator goes on with the workflow, and a tool that is not killed runs.
PasswordsFairSpec == PasswordsSpec /\ WF_passwordVars(Operator \/ Tool)

-----------------------------------------------------------------------------
(* Properties                                                              *)

Holds(name, d) == file[name].state = "dict" /\ file[name].map = d

\* Whatever is killed on the way of an upgrade or a rotation, one of the files
\* still has all the passwords the cloud runs with (the tools remove the file
\* before they write it).
DeployedSurvives ==
    workflow # "vault" => Holds("etc", deployed) \/ Holds("old", deployed)

\* A finished upgrade has kept every password of the cloud (with --clean: every
\* one the new release still has) and has every key of the new release, with a
\* value if the old file did not have the key; blank keys stay blank.
UpgradeKeeps ==
    workflow = "upgrade" /\ stage = "finished" =>
        LET d == file.etc.map
        IN  /\ file.etc.state = "dict"
            /\ DOMAIN Template \subseteq DOMAIN d
            /\ DOMAIN deployed \subseteq DOMAIN d \/ DOMAIN d = DOMAIN Template
            /\ \A k \in DOMAIN d : IF k \in DOMAIN deployed THEN d[k] = deployed[k]
                                   ELSE d[k] = NoPassword <=> k \in blank_keys

\* A finished rotation has changed the passwords that were emptied, and them
\* only; a key pair with one half is left alone.
RotationChangesOnlyEdited ==
    workflow = "rotate" /\ stage = "finished" =>
        /\ file.etc.state = "dict"
        /\ \A k \in DOMAIN deployed :
              /\ k \in edited \ blank_keys => file.etc.map[k] # NoPassword
              /\ deployed[k] \notin {NoPassword, Pair("", "")} /\ k \notin edited =>
                    file.etc.map[k] = deployed[k]

\* The tools change only the passwords they are asked for: an upgrade keeps those
\* of the running cloud, and a rotation changes no other than the emptied ones.
OnlyAskedForChange == UpgradeKeeps /\ RotationChangesOnlyEdited

\* After a writepwd that ended well, Vault has every password of the file that
\* is set, also when an earlier one failed half way.
VaultAgrees ==
    workflow = "vault" /\ status = "ok" /\ pc = "idle" /\ buf = before =>
        \A k \in DOMAIN before :
           Falsy(before[k]) \/ (k \in DOMAIN vault /\ vault[k] = before[k])

ReadpwdEnds == tool = "readpwd" /\ pc = "write" /\ pc' = "idle" /\ status' = "ok"

\* readpwd leaves the file with the keys it had, each with the password of Vault,
\* and with none where Vault has none: what the file had for that key is gone.
ReadStep ==
    ReadpwdEnds =>
        /\ DOMAIN file'.etc.map = DOMAIN before
        /\ \A k \in DOMAIN before :
              file'.etc.map[k] = IF k \in DOMAIN vault THEN vault[k] ELSE NoPassword

\* A writepwd that ends well leaves Vault with the passwords of the file, and a
\* readpwd the file with those of Vault and no others, whatever failed half way
\* before.
VaultAndFileAgree == [][VaultAgrees' /\ ReadStep]_passwordVars

\* What readpwd.py says of a password that is not found in Vault, that it is
\* ignored: the file keeps the one it has.
IgnoresPasswordsNotInVault ==
    [][ReadpwdEnds =>
         \A k \in DOMAIN before \ DOMAIN vault : file'.etc.map[k] = before[k]]_passwordVars

\* The upgrade of the passwords comes to its end.
Upgraded == workflow = "upgrade" => <>(stage = "finished")

=============================================================================
