# Kolla Ansible: a verification project

Kolla Ansible deploys OpenStack as containers. Most of the repository is
declarative (roles, templates, group variables); the logic that can be wrong in
ways a test hardly reaches sits in the Ansible modules that change a host, in the
scripts that run on the hosts afterwards, and in the order in which playbooks
call them. This directory models that logic in TLA+, checks it with TLC and
proves the most important results with TLAPS.

## 1. The system

### Components, their state and their operations

| Part | State it keeps | Operations | Works with |
|---|---|---|---|
| `kolla_container` module: `ansible/library/kolla_container.py`, `ansible/module_utils/kolla_docker_worker.py`, `kolla_container_worker.py` | none between calls: it reads the engine, acts, and answers `changed`, `failed` | compare, ensure/pull/remove image, create/remove volume, start, stop, restart, recreate-or-restart, remove, stop-and-remove | container engine, systemd worker |
| systemd worker: `kolla_systemd_worker.py` | `/etc/systemd/system/kolla-<name>-container.service` | write, enable, remove the unit file; start, stop, restart and poll the unit | systemd over D-Bus |
| podman worker: `kolla_podman_worker.py` | as the docker worker | as the docker worker, in other orders | podman, systemd worker |
| fact modules, `kolla_toolbox` | none | read the engine, run one command | engine |
| fernet rotation: `roles/keystone/files/fernet_rotate_cron_generator.py`, `templates/crontab.j2`, `fernet-rotate.sh.j2`, `fernet-push.sh.j2`, `keystone.conf.j2` | a crontab and a key repository on each keystone host | generate crontabs, rotate, push, distribute on deployment | keystone, rsync over ssh |
| keystone bootstrap: `bootstrap_service.yml`, `distribute_fernet.yml` | key repositories, running `keystone_fernet` containers | decide whether keys are to be set up, set up, choose a source, distribute | container facts, `fernet-push.sh` |
| mariadb role: `recover_cluster.yml`, `lookup_cluster.yml`, `bootstrap_cluster.yml`, handlers, `restart_services.yml`, `mariadb.yml` | volumes and members of the Galera cluster, a temporary file on the control host | recover: choose the node to bootstrap from; deploy: look for a cluster, bootstrap, restart nodes in batches | kolla_container |
| service roles | rendered files under `/etc/kolla`, notified handlers of the running play | config, check-containers, handlers, stop, upgrade | kolla_container |
| password tools: `kolla_ansible/cmd/*.py`, `hashi_vault.py` | `passwords.yml`, Vault | generate, merge, read from and write to Vault | file system, Vault |
| `merge_configs`, `merge_yaml` | none | merge override files | templates |
| filters, shards, addresses, urls | none | pure functions on the inventory | templates |

How they interact: a role renders files, asks `kolla_container` with
`compare_container` whether the container differs, and notifies a handler that
calls `recreate_or_restart_container`. The engine and systemd go on by themselves
between any two calls: containers exit, units restart them, hosts reboot. An
interrupted play loses its handlers, and the next `compare_container` has to find
out what is still to be done. On the keystone hosts the deployed scripts run
without the control host: each host has its own crontab, and the hosts write to
one another's key repositories.

### What is hard

* A task is a sequence of engine and D-Bus calls; the container may exit, be
  restarted or be listed with a stale status between two of them.
* The module may be killed between any two calls; what it leaves behind must be
  found and repaired by the next task.
* `changed` decides whether handlers run; it is assigned, or-ed and overwritten
  in several places.
* systemd jobs are asynchronous, D-Bus errors are swallowed, polls time out.
* Key rotation is scheduled by independent crontabs and distributed by
  unsynchronised pushes that may stop half way, while tokens signed under old and
  new keys are validated on every host.
* A play is many tasks on many hosts: a host drops out after any of them, the play
  is interrupted, and it is run again on what that left behind. What a task
  concludes from volumes, ports, containers or facts may be stale or partial.

### What makes each part correct

* kolla_container: success means the container asked for is there, with the
  image, parameters, files and unit file asked for; "unchanged" means untouched;
  a failing pull costs nothing; drift is reported; every task ends.
* systemd worker: polls end; restarts are limited.
* rotation schedule: never two rotations of the group closer than the interval;
  every interval of a cycle is served, in turn.
* key distribution: a token that has not expired is accepted everywhere; hosts
  agree once the pushes are over; a successful push repairs earlier losses.
* key bootstrap: keys in use are never overwritten, whatever hosts a deployment is
  limited to, and whatever hosts were replaced before.
* mariadb: bootstrap from one node, with the largest seqno, so that no committed
  transaction is lost; never lose the last member in a rolling restart; never
  initialise a cluster next to the data of another.
* service upgrades: no container meets a database schema it does not know, lost
  handlers are made up for, a successful play has upgraded everything.
* passwords: no tool loses or changes a password that is set, wherever it is killed
  (`readpwd` does, where Vault lacks it).
* parameters and files: a second run finds nothing changed, no drift goes
  unnoticed, the merge of several sources is what the last one says, and rendered
  files name hosts by their own addresses.

`PROJECT.json` lists the hazards behind these, each at its line.

## 2. Modules

| Module | Models |
|---|---|
| `KollaHost` | External: one host as the worker sees it, for one container name and one image reference. Engine (container status, image, parameters, copied files), systemd (unit file, enablement, sub-state, queued job), the registry and the rendered files, and the steps the host takes by itself. |
| `SystemdWorker` | `kolla_systemd_worker.py` and the result of a task; operators with the caller's program points as parameters (`WriteUnitFile(at, enable, next)`, ...). |
| `DockerWorker` | `kolla_docker_worker.py`, the inherited `compare_container` and `check_container_differs`, and `main()`. One action per engine or systemd call, named after the method. |
| `PodmanWorker` | `kolla_podman_worker.py` over the same host: the methods that differ are written out, those that take the same steps are named after the podman method and taken from `DockerWorker`. |
| `ContainerContract` | Abstract specification: what a `kolla_container` task promises its role, with neither engine nor systemd in it. |
| `WorkerContract` | The refinement mapping from a worker and its host to `ContainerContract`; `ImplementsContract` is checked for both workers. |
| `ContainerCompare` | The comparisons of `kolla_container_worker.py`, field by field, with the parsing of volumes, dimensions, ulimits and healthchecks, and the creation arguments of both workers: what `DockerWorker` takes for one inequality of specs. |
| `CommonOptions` | `generate_module` of `kolla_container.py`: task parameters, `common_options`, defaults. |
| `FernetCron` | `generate()` for each host of a group, an iteration per step, and the crontabs of the group read together as cron reads them. |
| `KeystoneGroup` | The hosts of the keystone group, in order. |
| `FernetKeys` | Key repositories of a group: `fernet-rotate.sh`, `fernet-push.sh`, the distribution of a deployment, `max_active_keys`, tokens. |
| `FernetBootstrap` | Deployments of keystone: container facts, `group_by`, the check for hosts that are not targeted, `fernet_setup`, handlers, choice of the source and distribution, with `--limit` and serial batches. |
| `GaleraRecovery` | `mariadb_recovery`: stop, read positions, compare, write and read the name of the bootstrap host, bootstrap, slaves, master. |
| `GaleraDeploy` | Deployments of one mariadb shard: lookup, bootstrap, handlers, and the three serial plays of `mariadb.yml`. |
| `GlanceUpgrade` | The rolling and the legacy upgrade of glance: templates, notified handlers, comparison, database steps that run once. |
| `Passwords` | `genpwd`, `mergepwd`, `readpwd`, `writepwd`, call by call, within the documented steps of an upgrade, a rotation and the use of Vault. |
| `MergeConfigs`, `MergeYaml` | The two action plugins; `MergeYaml` with list objects shared by reference. |
| `KollaAddress` | `kolla_address()` with the facts it reads and a template that names the hosts of a group. |
| `Dicts` | `d[k] = v` and `update()` of Python's dicts, as functions. |
| `*Proofs` | Theorems, see section 4: `FernetProofs` about `FernetKeys` and `FernetBootstrap`, `PlaysProofs` about `GaleraRecovery` and `GlanceUpgrade`, `FilesProofs` about `CommonOptions`, `Passwords` and `KollaAddress`, the others about the module they are named after. |
| `MC*` | Instances for TLC, see below. |

Components that do not share state are checked in one run with a *scenario
variable* (`container`, `waiting`, `story`, `chosen`): it is chosen in the initial
state, never changes, and says which component moves while the others stay as they
begin. The state space is the union of the components' own, and a property of one
component is either about variables that stay in a good initial state otherwise or
names the scenario it is about.

### State and actions of the workers

`pc` is the next call the module makes and `ret` the point `stop_container` and
`remove_container` return to; the other locals are the listed status (`seen`),
the poll's `elapsed` and the exit code (`rc`). `changed` and `result` are what
Ansible is told. `touched` is a history variable: the task has modified the host.
Fault operators (introduced by "Fault:", in all modules) are wrong variants of the
definitions they precede; they show that the properties can be violated.

Abstractions. All parameters given to `create_container` are one value, a *spec*,
so that `compare_image` is kept and the other field comparisons of
`check_container_differs` are one inequality (`ContainerCompare` has them one by
one). The content of a unit file is a value of `Units`. The config strategy is a
property of the spec. A container that runs is `Up`, one that ran is `Exited`, and
`Created` is neither.

Each `Raise` is an exception of an engine call, reported by `main()`; `Killed` is
the loss of the module's process; `Reboot` is that of the host.

### The contract

`ContainerContract` reduces a host to the image the reference resolves to, the
identity (image and spec) of the container that holds the name, and the volume. A
task is a start, steps and an end; the contract says which of the three things a
task of which action may change at all, that a container is never changed in
place, that a deploying task gives a container up only with an image at hand, and
what success means at the end. `WorkerContract` maps `pc`, `op`, `result`,
`status`, `cImage` and `cSpec` to it; everything else of a worker (unit, jobs,
polls, files) is hidden. Both workers implement it.

### Plays

`GaleraRecovery`, `GaleraDeploy`, `GlanceUpgrade` and `FernetBootstrap` share the
way Ansible runs a play (external, from how the playbooks rely on it): a task ends
on every remaining host, in any order, before the next one begins; a host that
fails is left out of the rest of the play and its handlers are forgotten; a
`run_once` task that fails fails every host; a batch that fails entirely ends the
playbook; `serial: 33%` of n hosts is the whole part of a third, at least one. An
interruption may come between any two tasks, and the play may then be run again.

* `GaleraRecovery`: Galera is reduced to positions, members of a primary
  component, and joining nodes that get the state of a member. Stopping is what
  `stop_container` does: an exited container is left alone, also when its unit is
  about to restart it, and a unit that refuses to stop is ignored, so that the play
  may go on with a member that runs or comes back. Recovery on the volume of such a
  member logs its position or fails. A host whose position is missing makes the
  comparison fail on every host, as the undefined fact does in the play; one that
  logs more than a number (`gtid`: MariaDB appends `,<gtid>` in some configurations)
  is behind no other. The first container is oneshot, so that nothing restarts it
  until the last tasks of the play put the service's container back, and the tasks
  that start it and make it primary may fail half way. The operator starts a recovery
  when there is no primary component. Recovery with a named host, and Galera's own
  `pc.recovery`, are left out; the waits are long enough for a state transfer.
* `GaleraDeploy`: no node fails by itself; the operator may replace a host, and a
  stop may end in a kill, after which a node has to join again. There is one shard:
  with several, the group `mariadb_restart` (`handlers/main.yml:56`) has hosts of all
  of them, and `33%` is a third of these. The clustercheck container and the
  registration of database users are left out.
* `GlanceUpgrade`: the schema goes from "old" over "expanded" and "migrated" to
  "contracted"; the legacy order does all in one step. A handler that fails leaves no
  container, or one that does not run. `kolla_serial` is unset: with it a rolling
  upgrade would contract the database at the end of the first batch.
* `FernetBootstrap`: a repository is the generation `fernet_setup` made it.
  Rotations, which keep a generation, are the subject of `FernetKeys`.

### Files

* `Passwords`: a step is one call that leaves the process, and the process may be
  killed between any two and in the middle of a write (`O_TRUNC`, then the text);
  the step is then prepared again, or the tool repeated on the file that is gone.
  After a failure the operator repeats the step that failed.
* `MergeConfigs`: a file is a sequence of lines; parsing, merging and writing are
  modelled, and what was written is parsed again. Templating is left out.
* `MergeYaml`: dicts, lists with an identity, scalars.
* `KollaAddress`: an address is its owner; facts are gathered host by host, or are
  those of an earlier play (a fact cache), while keepalived moves the VIP. One
  global address per host besides the VIP.

## 3. Runs

| Run | Question |
|---|---|
| `docker_service` | Any sequence of a service's tasks, and any of a bootstrap container's and its cleanup, against a host that moves, with failures, kills, reboots, and new images, tags, files and unit contents in between: the type invariant, two invariants, four action properties, and the contract. |
| `task_ends` | Does every task end, and whose exit code is reported? Bootstrap containers that are waited for, with image and volume operations and either worker, and start, restart and stop of a service through systemd. |
| `podman_service` | The podman worker, for a service and for a bootstrap container: the contract, and the promises of the docker worker. |
| `params_and_files` | The functions on data against reference definitions: comparisons and options (`MCContainerParams`), passwords, ini and YAML merging, addresses (`MCFiles`). |
| `fernet_cron` | The schedule of groups of 1, 2, 3 and 5 hosts for 75 intervals. |
| `fernet_keys` | Tokens and repositories: `TokenLife` no multiple of `Interval`, with slow and lost pushes; the tight default case; and deployments. |
| `plays` | Recovery of a Galera cluster; deployments on three and on seven hosts; glance upgrades. |
| `stop_in_restart_window` | *Violated*: a stopped container stays stopped. |
| `fernet_suggested` | *Violated*: the schedule for the intervals `precheck.yml` suggests. |
| `fernet_overlap` | *Violated*: repositories agree when a deployment overlaps a rotation. |
| `fernet_podman` | *Violated*: under podman a deployment keeps the keys in use. |
| `readpwd_missing` | *Violated*: `readpwd` ignores a password that Vault does not have. |

The five violations are findings of `PROJECT.json`, with the lines that say
otherwise.

### What the conditions in the properties say

Some properties hold with conditions, and each condition is a limit of the code
that the model checker found when the condition was left out:

* `Unrepeatable` (in `SecondRunFindsNoChange`): environment values that are no
  texts, labels that override those of the image, a state other than running and,
  with docker, another `KOLLA_SERVICE_NAME` in a task's environment than the one the
  worker sets make a container differ at every run; so do, with podman, `tmpfs`, security options, `:shared` binds,
  volumes it shows otherwise, dimensions with a unit and ulimits other than the defaults.
  A volume `devpts:...` next to others is one of these: podman gets a mount of its own
  for it (`kolla_podman_worker.py:189`) and shows no bind, so that `nova_libvirt`
  (`roles/nova-cell/defaults/main.yml:376`) is recreated at every run.
* `NoSilentDrift` lists what a comparison does not see: environment variables and
  image labels that were dropped, ipc mode, cgroup namespace and command no longer
  asked for. With podman, also volumes added to a container that had none
  (`generate_volumes` falls back to the requested ones), a devpts mount no longer
  asked for, another registry, and a security option that the task asks for and the container has anyway ("label=disable",
  from the host modes), although creation would not pass it on.
* `NeverSame` (in `ComparisonFailsOnlyWhereNamed` and `SecondRunFindsNoChange`): the
  podman worker's `compare_volumes` (`kolla_podman_worker.py:351`) iterates over `None`
  when a task has no volumes, although `volumes` is optional (`kolla_container.py:198`);
  `compare_command` (`kolla_container_worker.py:345`) takes the first word of a command
  that has none, although such a container can be created; and dimensions that creation
  takes are compared as numbers or by names the API no longer has. Each raises or exits
  unless an earlier comparison has found a difference. A healthcheck with the test
  `NONE` is no such case under podman: `create_container` itself raises
  (`kolla_podman_worker.py:102`), and no container comes to be (`Creatable`). The
  comparison of labels is safe only because that of images comes before it.
* `EveryVolumeMounted`: volumes are keyed by source, so a source asked for twice
  is mounted once.
* `OptionsMerged`: every text of digits in `common_options` becomes a number where
  the parameter has a default, a registry password too (`kolla_container.py:384`), and
  `007` becomes `7`.
* `VaultAndFileAgree`: a password Vault does not have is set to `None` in the file
  (`readpwd.py:57`), although the comment above it speaks of ignoring it; this is what
  `readpwd_missing` shows.
* `IniFileIsTheMerge`: keys without a section that only a later source has are
  written after the sections (`merge_configs.py:138`), into the last of them.
* `YamlFileIsTheMerge`: with `extend_lists` and YAML aliases, extending the list of
  one key extends that of the other (`merge_yaml.py:188`).
* `OwnAddresses`: an IPv6 VIP must be spelled in the inventory as the facts spell
  it; otherwise it is not excluded (`kolla_address.py:125`).
* `DeploysKeepKeys`: after a deployment that ended half way, between the handlers
  and the distribution, running containers without keys may become the source; and
  containers that have stopped, or hosts that were replaced, are no sign of keys (the
  FIXME of `bootstrap_service.yml`): the keys are safe while fewer have stopped or
  been replaced than there are.
* `DeployKeepsCluster` (`SevenKeepCluster` on seven hosts): the restarts keep the
  cluster if more than one member was found, after a kill more than two, all of one
  cluster. A deployment that is repeated when only the bootstrap
  host was started restarts that host, the only member. `BootstrapStep` allows a
  second cluster when every host with data has failed in the run that looks for
  volumes; of two clusters side by side, each may lose its majority in turn, and a
  killed member may take a node of the other along without a task that fails
  (`OneCluster` in `RestartStep` and `SuccessStep`). A first deployment that is
  interrupted after its volumes were created makes every later one fail with
  "cluster exists but is stopped" (`lookup_cluster.yml:17` and `:37`).
* `ServesThroughout` is about the rolling upgrade. The legacy one migrates the
  database while old containers run (`legacy_upgrade.yml:6`), although
  `glance-guide.rst:143` says it stops the APIs. An interrupted rolling upgrade also
  leaves `log_bin_trust_function_creators` on.
* The contract says nothing of `changed`: the podman worker's `remove_container`
  (`kolla_podman_worker.py:477`) reports a change for the unit file only, so that
  `UnchangedMeansUntouched` holds for docker and not for podman. It also recreates
  an unchanged COPY_ALWAYS container where docker restarts it (line 524).
* `OneBootstrap` and `NothingCommittedLost`: a host whose recovered position is no
  plain number is behind no other host and writes its name as well
  (`recover_cluster.yml:73`). All hosts still agree on the last name written, and there
  is one primary component; but that the host has the largest position, and with it
  every committed transaction, is said for positions that are numbers (`gtid = {}`).
* `UpgradeCompleted`: `stop_service.yml:6` does not ignore a missing container. When a
  handler has removed the container of the first host and failed to create the new one,
  every later rolling upgrade fails on that host before its handlers run, although the
  other hosts and the database are upgraded (`OutOfReach`). The legacy order repairs it.

### Bounds, and why they are enough

* Workers: two images, two specs, two versions of the files and two unit
  contents: every comparison is an equality, so that "the one asked for" and
  "another one" are the cases there are. Nothing bounds the number of tasks, exits
  or restarts; the state space is finite and explored completely. Images and file
  versions are interchangeable (symmetry), except in the run with liveness, which
  has one image and one version where the stories do not need two.
  `RestartTimeout = 0` gives the poll two rounds, in time and out of time; the
  proofs are for every timeout.
* Parameters: each group of fields that a comparison reads together takes every
  combination of its representative values while the others stay at a base
  (private ipc and pid modes only with each other);
  container and comparison range over all pairs of such sets.
* Passwords: one key of each sort (text, key pair, blank, obsolete, new), two kills,
  four runs with Vault: one kill in each of two consecutive tools.
* ini files: two sources of up to three lines, five together, over two sections,
  two keys and two values. YAML: two levels, two keys at the top, pairs of documents, and triples
  with one key, as extension of an extended list needs three.
* Addresses: two hosts, the fewest that disagree about a third address.
* Fernet schedule: 1 to 62 minutes cross the border between hourly and daily
  cycles for every group size; 287 and 288 minutes with five hosts touch the
  border between daily and weekly ones; 10081 minutes is too long. The week is
  not scaled down.
* Fernet keys: `MaxTime` allows three or four rotations, one more than a key
  survives as a secondary key. Three hosts are the fewest with one that is pushed
  to early and one late. Three deployments, with two replaced hosts, a container that
  exits and an interruption: set up, damage, repair; together the replaced and the
  exited reach the number of hosts, where the keys cease to be safe.
* Galera recovery: three hosts, one transaction, two crashes and two failures: hosts
  that have it and hosts that lack it, two crashes to lose the majority, two hosts that
  fail or are not stopped; positions are numbers on all hosts, or on one
  of the three. More transactions only add positions, of which a comparison sees the order; the
  proofs are for any number. Deployments: three on
  three hosts with two failures, a replaced host and a kill; two on seven hosts, the
  smallest shard whose batches have two hosts, so that one of a batch may fail and
  the play goes on. Two clusters side by side take more deployments, failures and
  kills than that; the proof covers them, and the invariant it uses was checked with
  up to four hosts and larger bounds. Glance: three hosts (first, and two others of a batch) and three
  failures.

### Fairness

* Workers: the module's process goes on while it can, which an operating system
  grants, and, for oneshot containers only, a running container exits some day,
  which is what a bootstrap command does. Under podman the unit of
  such a container may start it again at once; strong fairness of the wait says
  that `container.wait()` returns for the exit all the same. Nothing
  is asked of systemd, of a service's container or of the registry: `TaskEnds`
  rests on the timeout of `wait_for_unit`.
* Passwords: the operator goes on with the steps and a tool that is not killed
  runs to its end. Kills are bounded, so failures end.
* Galera: the operator runs the recovery again, a play that runs goes on, units
  restart their containers and nodes that find a member join it (systemd and
  Galera do).
* Glance: the operator runs the upgrade again and a play that runs goes on.

## 4. Proofs

The theorems hold for every value of the constants that satisfies the assumptions
of the modules (`HostAssumption`, `WorkerAssumption`, `TasksAssumption`,
`CronAssumption`, `FernetAssumption`, `BootstrapAssumption`, `RecoveryAssumption`,
`UpgradeAssumption`, `DeployAssumption`, `CompareAssumption`, `OptionsAssumption`,
`PasswordsAssumption`, `AddressAssumption`): any number of hosts, images, parameters,
passwords, failures and deployments, any timeout. All are machine-checked to the
last leaf.

| Module | Theorems and the properties they state |
|---|---|
| `DockerWorkerProofs` | `TypeCorrect`, `PullsFirst`, `ReportsItsChanges`, `Converges`, `InstallsUnit`, `DeliversConfig`, `ReportsDrift`, `WaitsForOwn`: all invariants and action properties of `docker_service` and the action property of `task_ends`; `KeepsContract`: the refinement `ImplementsContract`; `RestartsAreLimited`: the NOTE on `restart_duration`. |
| `PodmanWorkerProofs` | `PodmanTypeCorrect`, `PodmanKeepsPromises` (`KeepsDockerPromises`), `PodmanKeepsContract` (`ImplementsContract`). |
| `ContainerCompareProofs` | `NoDriftUnnoticed` (`NoSilentDrift`), `SecondRunChangesNothing` (`SecondRunFindsNoChange`), `ComparesWithoutFailing` (`ComparisonFailsOnlyWhereNamed`), `MountsEveryVolume` (`EveryVolumeMounted`). |
| `FernetCronProofs` | `NeverEarly` (`NoOverRotation`), `ServesInTurn` (`RoundRobin`), `CronTypeCorrect`. |
| `FernetProofs` | `TokensStayValid` (`TokensValidate`), `PushesSynchronise` (`PushesReachAll`), `KeysTypeCorrect`; `DeploymentsKeepKeys` (`DeploysKeepKeys`). |
| `PlaysProofs` | `RecoveryLosesNothing` (`NothingCommittedLost`), `RecoveryBootstrapsOnce` (`OneBootstrap`), `RecoveryTypeCorrect`; `UpgradeServesThroughout` (`ServesThroughout`), `UpgradeSuccess` (`SuccessMeansUpgraded`), `UpgradeTypeCorrect`. |
| `GaleraDeployProofs` | `DeploymentKeepsCluster` (`DeployKeepsCluster`), `DeployTyped`, and `DeployInductive`, the invariant they come from. |
| `FilesProofs` | `OptionsAreMerged` (`OptionsMerged`), `RendersOwnAddresses` (`OwnAddresses`), `PasswordsSurvive` (`DeployedSurvives`), `PasswordsChangeAsAsked` (`OnlyAskedForChange`), `VaultKeepsUp` (`VaultAndFileAgree`). |

### The workers

None of the properties is inductive. `CommonInv` is what both workers share, in
layers, each preserved by every action given those below it:

* `Control`: which program points go with which actions and return addresses, and
  what was last read there;
* `PullOrder`: from which points on `touched` may hold;
* `Content`: what the container and the unit file are at the points after
  `check_container_differs`, `create_container` and `create_unit_file`, which no
  step the host takes by itself can undo.

docker's `Inv` adds `Reporting` (what was touched will be reported; this is where
pull_image's assignment to `changed` matters: it is harmless only because nothing
is touched before a pull) and `Separate` (a oneshot container never meets systemd).
podman's `PodmanInv` has neither, as neither is true of podman, and adds that a
recreation never turns into a restart. The type invariant is proved in two halves
(Boolean variables apart), because no one back end does both.

For the refinement, `Grounds` adds that a deployment which gives its container up
has an image at hand. Every step of a worker is then shown to leave what the
contract sees alone, or to be one of its steps; steps of the host are shown not to
touch it (`HostKeepsIdentity`). The mapping has no history variable.

The proof attempt showed that the contract was too strong in one case: a bootstrap
task with `remove_on_exit` and without `detach` succeeds with its container gone,
which `Kept` now says.

### The comparisons

`ContainerCompareProofs` is about sixteen functions on records, sets and short
sequences. Its invariant says that the container is one that `create_container`
made, running or exited, and that a verdict is that of `check_container_differs` on
the container and the image as they still are; the rest is about the functions:

* the verdict is that of the first comparison that does not say "same"
  (`FirstOfSays`), so a failing one knows that those before it found nothing: the
  comparison of labels that the image is the container's own;
* `generate_volumes` keeps the last item of every source (`VolDictIs`), podman
  mounts the same if the modes are plain (`PodmanMountsVolDict`), `build_ulimits`
  tells apart what is asked for (`UlimitsTold`);
* on a container just created each comparison says "differs" exactly for the values
  that `Unrepeatable` and `NeverSame` name (the `Again...` lemmas);
* where all say "same", each field of the container is the one of the container
  that would be created now (the `Same...` lemmas), and both are records of the same
  fields (`IsInfo`).

The proof attempt found two errors in the properties, which TLC then confirmed with
further parameters: `KOLLA_SERVICE_NAME` in a task's environment does no harm when
it is the name docker's worker sets; and podman's comparison
finds a container that has "label=disable" from its host modes unchanged for a task
that asks for this option, although podman's creation passes no such option on.
`CompareAssumption` excludes one case with podman, a host path that is asked for
twice with different mount points: the order in which podman would show the two is
not modelled.

### The keys

`FernetCronProofs`: the loop invariant says of the crontabs written so far that
entry `i` of host `h` is the entry of slot `h + (i - 1) * total_hosts`, slot `k`
being the minute `k` intervals into the cycle (`Entries`), that the loop is at the
next slot (`Progress`), and that on a finished host the next slot does not fit
(`Complete`). `NeverEarly` and `ServesInTurn` follow from the distance of two slots,
under `Aligned`: in a weekly cycle the interval is a whole number of days. Without
it they are false, as `fernet_suggested` shows, because the hour of a weekly entry
is computed as a minute. `CronTypeCorrect` needs no such condition.

In `FernetProofs`, `FernetKeys` has three invariants. `PushInv`: one push at a time, and the
hosts it has passed have its keys (`PushesSynchronise`, under `Overlap = FALSE`;
`fernet_overlap` shows that this is needed). `KeysInv`: a repository has a staged
key and a contiguous range of others (`Shape`), and after `n` rotations no key
beyond `n + 1` was made (`KeysTypeCorrect`, with or without overlap). `TokenInv`,
while no rsync has failed: all hosts have the repository of the last rotation, or
during its push are one rotation behind it (`Behind`), and a key that ceased to be
primary `j` rotations ago was last used at most the duration of a push later
(`Aged`). A key is deleted `max_active_keys - 2` rotations after it ceased to be
primary, so that `TokensStayValid` follows from `PushTime + TokenLife <=
(max_active_keys - 2) * Interval`.

`FernetBootstrap`: whoever `group_by` has not seen running does not run
(`Judged`); as long as no container stops, one that runs keeps keys from being set
up again (`SetUpOnce`); as long as no deployment ends half way, every possible
source has keys (`SourcesHaveKeys`); and fewer hosts lack the keys than were
stopped or replaced (`SomeoneHasKeys`), a count that every step has to respect.
Under docker only: `fernet_podman` is a counterexample for podman. The proof attempt
showed that the conditions of two properties were met by the old bounds only: two
replaced hosts, or a container that stops while a play runs, lose the keys as well.
The properties now say so and the run has the larger bounds.

### The plays

`GaleraRecovery`: no component is there before the first container is started, and
that is tried once, on the host every other has read from the file
(`NoneBeforeFirst`, `ReadFromFile`): a member that was not stopped, or that came back,
is in no component and can only join the new one, which is why the play survives stops
that stop nothing. If positions are numbers, what was committed is on some disk
(`OnSomeDisk`), and the file names a host with the largest position until that host
is started (`FileLargest`), because positions are of this play (`PositionsCurrent`),
do not move without a component, and a host without one stops all. `GlanceUpgrade`: files come before containers
(`ConfigFirst`), every container that is not of the new release is found by the
check and handled (`CheckedThenHandled`), the database is ahead of every container
(`SchemaReached`), hosts that fail are those left behind (`LeftBehind`), and another
host than the first serves until the handlers run (`OtherServes`).

`GaleraDeploy`: the play decides early, from volumes and ports, and acts later, on
hosts that may have failed in between. `DeployInv` therefore says what it knows at
every task about the hosts that have not failed:

* a host without a volume had nothing (`HadInv`), a host that answers was found by
  the lookup and in sync (`SyncInv`), and the first host has data of a cluster of its
  own between its bootstrap and its start, after which it is to be started again
  (`BootInv`);
* whoever is not as configured is in a group whose turn is still to come
  (`CoverInv`), which gives `SuccessStep`;
* in the rolling restart, hosts whose turn has not come are kept, and of every batch
  so far one has come back (`RestartInv`): two batches leave two members, hence the
  three hosts of `RestartStep` after a kill; in a new cluster everyone has the first
  one's state before that one is restarted (`StartInv`);
* a majority lost without a failure is that of one of two clusters (`LostInv`), where
  `Stuck` says that the wait of the batch then fails.

The proof attempt found the two cases with two clusters described in section 3, which
the bounds of the run had hidden: `RestartStep` fails with four deployments, three
failures, a replaced host and two kills on three hosts, `SuccessStep` with four
deployments, four failures and one kill. TLC confirmed both; the properties now say so.

### The files

* `CommonOptions`: after `seen` rounds the parameters seen have the task's values, or
  the inventory's or the default, and those not seen what the inventory has
  (`LoopMerged`); a round changes its own parameter only (`MergeEffect`).
* `KollaAddress`: whatever moves, the addresses of an interface and the facts about it
  are among the host's own, the VIP and a link-local one, an IPv4 fact begins with the
  host's own, and there is no VIP without haproxy (`Shows`); so the first global address
  that is not the VIP is the host's. A cached fact is one that was true once.
* `Passwords`: no tool rewrites the saved copy, and it is made before the first tool
  runs (`ToolInv`). For each stage of an upgrade and of a rotation the invariant says
  what the files and the dict in the tool's memory are (`UpgradeInv`, `RotateInv`): a
  file half written is never the input of a later stage, because the step is prepared
  again or finds no dict. With Vault it says what the loops have done with the keys
  they have seen (`VaultInv`). That `genpwd` fills exactly what is empty and leaves
  the rest is `GenerateFills` and `GenerateKeeps`; the latter needs that a key pair
  is none of the texts on which `genpwd` fails.

### Only model-checked

* `TaskEnds`, `ClusterReturns`, `Upgraded` and `UpgradeCompleted`: liveness, and the enabledness
  that fairness is about, are beyond the prover.
* `RepositoriesTyped`, `PlaysTyped` and `SevenKeepCluster` are about scenarios of a
  run: they put together, for instances with other constants, what `KeysTypeCorrect`,
  `RecoveryTypeCorrect`, `UpgradeTypeCorrect`, `DeployTyped` and
  `DeploymentKeepsCluster` prove for all.
* `IniFileIsTheMerge` and `YamlFileIsTheMerge`: they compare functions over
  sequences of any length with a reference definition, which takes induction over
  data; `MergeYaml` has a RECURSIVE operator.

## 5. What the key rotation needs

`TokensValidate` holds when `PushTime + TokenLife <= (max_active_keys - 2)
* Interval`: `TokensStayValid` proves it, TLC confirms it on both instances, and
refutes the property when `PushTime` is positive in the tight one. Rounding up leaves room for a push when
`TokenLife` is no multiple of `Interval`; in the default configuration it leaves
none, and the run assumes an instantaneous push: a token that a host not yet reached signs after the rotation
loses its key, at the end of the window for expired tokens, a push's duration
early. Likewise one lost push is enough to lose tokens of the host that missed
it, as it goes on signing with the old key for a whole interval.

`FernetKeys` takes from `FernetCron` that rotations are at least an interval apart
(`NoOverRotation`), on whichever host. An rsync to one host is one step.

## 6. Plan

Done: the workers with their contract, comparisons and options; rotation,
distribution and bootstrap of the fernet keys; recovery and deployment of mariadb;
upgrades of glance; passwords; merging; addresses. Theorems about all of them but
merging: every safety property of a passing run is proved, except those listed
under "Only model-checked".

Next: other service roles whose upgrade orders differ from glance's (nova, neutron),
as further instances of the pattern in `GlanceUpgrade`.

## 7. Not modelled

* `kolla_toolbox` (runs one command and parses its output) and the volume facts
  (a read-only query); `get_container_env` and `get_container_state`, which change
  nothing.
* Templates and the some seventy roles as data: they repeat the pattern of
  `GlanceUpgrade`. Whether a unit that was written but not enabled, because the
  module died in between, is ever enabled (`kolla_systemd_worker.py:176`) is in the
  model and in no property: no line of the repository promises it.
* Filters, shards, cells and urls: selections and string formatting. The command
  line wrapper and the installation scripts.
* An interval of less than a minute for key rotation, for which `generate()` does
  not end; the precheck does not exclude it, and `CronAssumption` does.
* The inside of an rsync, of the engine, of systemd, of Galera and of Ansible.
