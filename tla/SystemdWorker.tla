---------------------------- MODULE SystemdWorker ----------------------------
(***************************************************************************)
(* ansible/module_utils/kolla_systemd_worker.py: the unit file of a        *)
(* container and the D-Bus calls on its unit, as steps of the              *)
(* kolla_container process.  A step is one call that leaves the process;   *)
(* the host may move between any two of them.                              *)
(***************************************************************************)
EXTENDS KollaHost, Integers

CONSTANTS
    Params,           \* parameter records a kolla_container task may carry
    Oneshot,          \* restart_policy == 'oneshot' for this container name
    RestartTimeout    \* client_timeout, in seconds

\* Sleep between two polls of wait_for_unit.
Delay == 5

ASSUME WorkerAssumption ==
    /\ Params \subseteq [spec : Specs, unit : Units,
                         detach : BOOLEAN, remove_on_exit : BOOLEAN,
                         ignore_missing : BOOLEAN]
    /\ Oneshot \in BOOLEAN
    /\ RestartTimeout \in Nat

VARIABLES
    pc,        \* the call the module makes next, "idle" between two tasks
    op,        \* params['action'] of the current or last task
    par,       \* params of the current or last task
    ret,       \* where stop_container + remove_container return to
    seen,      \* container['Status'] held by start_container
    elapsed,   \* elapsed of wait_for_unit
    rc,        \* result['rc'] of a container waited for
    changed,   \* self.changed
    result,    \* outcome of the last task: "none", "ok", "failed", "killed"
    touched    \* history: has this task modified the host?

taskVars == <<op, par, ret>>
workerVars == <<pc, op, par, ret, seen, elapsed, rc, changed, result, touched>>

-----------------------------------------------------------------------------
(* Leaving a task.                                                         *)

Goto(label) == pc' = label /\ UNCHANGED result

\* module.exit_json(changed=cw.changed, ...) at the end of main().
Done == pc' = "idle" /\ result' = "ok"

\* module.fail_json, called by the worker or by main() on an exception.
Fail == pc' = "idle" /\ result' = "failed"

-----------------------------------------------------------------------------
(* restart_duration of __init__ : RestartSec of the unit.                  *)

RestartDuration(timeout, retries) == (timeout \div retries) - 1

-----------------------------------------------------------------------------
(* The unit file.                                                          *)

\* check_unit_change: a missing file counts as a change.
CheckUnitChange == unitFile # par.unit

\* create_unit_file, first half: the file is written when it differs.  Every
\* caller has set self.changed before the call.
WriteUnitFile(at, enable, next) ==
    /\ pc = at
    /\ IF CheckUnitChange
         THEN unitFile' = par.unit /\ touched' = TRUE /\ Goto(enable)
         ELSE UNCHANGED <<unitFile, touched>> /\ Goto(next)
    /\ UNCHANGED <<registry, image, containerVars, volume, conf, enabled, sub,
                   job, taskVars, seen, elapsed, rc, changed>>

\* create_unit_file, second half: reload() and enable(), whose failures
\* perform_action swallows and create_unit_file ignores.
EnableUnitFile(at, next) ==
    /\ pc = at
    /\ \/ enabled' = TRUE
       \/ BusMayFail /\ UNCHANGED enabled
    /\ Goto(next)
    /\ UNCHANGED <<registry, image, containerVars, volume, conf, unitFile, sub,
                   job, taskVars, seen, elapsed, rc, changed, touched>>

\* remove_unit_file; the unit stays enabled (its symlink is not removed) and,
\* when it is active, stays active.
RemoveUnitFile(at, next) ==
    /\ pc = at
    /\ unitFile' = None
    /\ changed' = (changed \/ unitFile # None)
    /\ touched' = (touched \/ unitFile # None)
    /\ Goto(next)
    /\ UNCHANGED <<registry, image, containerVars, volume, conf, enabled, sub,
                   job, taskVars, seen, elapsed, rc>>

-----------------------------------------------------------------------------
(* start, restart, stop: a job is queued, then wait_for_unit polls.        *)

\* perform_action returned True: the job is queued, in mode 'replace'.
JobQueued(at, kind, wait) ==
    /\ pc = at
    /\ job' = kind
    /\ elapsed' = 0
    /\ touched' = TRUE
    /\ Goto(wait)
    /\ UNCHANGED <<registry, image, containerVars, volume, conf, unitVars, sub,
                   taskVars, seen, rc, changed>>

\* perform_action returned False.
JobRefused(at) ==
    /\ pc = at
    /\ BusMayFail
    /\ UNCHANGED <<hostVars, taskVars, seen, elapsed, rc, changed, touched>>

\* get_unit_state: an inactive unit may have been dropped from ListUnits.
UnitStates == IF sub = "dead" THEN {"dead", "unlisted"} ELSE {sub}

\* wait_for_unit found the state it waits for.
UnitReached(at, state) ==
    /\ pc = at
    /\ state \in UnitStates
    /\ elapsed' = 0
    /\ UNCHANGED <<hostVars, taskVars, seen, rc, changed, touched>>

\* wait_for_unit gives up.
UnitTimesOut(at, state) ==
    /\ pc = at
    /\ UnitStates # {state}
    /\ elapsed > RestartTimeout
    /\ elapsed' = 0
    /\ UNCHANGED <<hostVars, taskVars, seen, rc, changed, touched>>

\* Fault: the deadline is never reached.
UnitPolledForever(at, state) ==
    /\ pc = at
    /\ UnitStates # {state}
    /\ UNCHANGED <<hostVars, taskVars, seen, elapsed, rc, changed, touched, pc, result>>

\* Fault: the deadline is checked before the last sleep instead of after it.
UnitPolledTwice(at, state) ==
    /\ pc = at
    /\ UnitStates # {state}
    /\ elapsed <= RestartTimeout + Delay
    /\ elapsed' = elapsed + Delay
    /\ UNCHANGED <<hostVars, taskVars, seen, rc, changed, touched, pc, result>>

\* wait_for_unit sleeps.
UnitPolled(at, state) ==
    /\ pc = at
    /\ UnitStates # {state}
    /\ elapsed <= RestartTimeout
    /\ elapsed' = elapsed + Delay
    /\ UNCHANGED <<hostVars, taskVars, seen, rc, changed, touched, pc, result>>

=============================================================================
