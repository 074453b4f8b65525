---------------------------- MODULE LocalProjects ----------------------------
(***************************************************************************)
(* The commands an operator gives on the host for one project              *)
(* (src/src/main.rs): registering it, driving its container through Docker *)
(* (src/src/docker.rs), the policy a start must pass (src/src/policy.rs)   *)
(* and the standing approval rules (src/src/approvals.rs).                 *)
(*                                                                         *)
(* Every command is a process of its own, and nothing locks them against   *)
(* each other: each looks (at the registry, the daemon, the configuration  *)
(* file, the list of rules) and acts on what it saw.  Beside them the      *)
(* daemon admits and ends runs, a person edits the configuration, Docker   *)
(* restarts the container, and Hermes records rules.                       *)
(***************************************************************************)
EXTENDS Naturals

CONSTANTS
  Commands,    \* the processes that may run at the same time
  Categories,  \* the command categories a rule can allow
  NoCategory,  \* no category
  MaxCommands, \* bound: how many commands are given, registrations aside
  MaxRuns,     \* bound: how many runs are admitted
  MaxEdits,    \* bound: how often a person edits, and Hermes records a rule
  MaxFaults    \* bound: failures of Docker, of a probe, and daemon restarts

ASSUME BoundsAssumption == {MaxCommands, MaxRuns, MaxEdits, MaxFaults} \subseteq Nat
ASSUME CategoryAssumption == NoCategory \notin Categories

VARIABLES
  reg,     \* the row of the project: absent, or who owns its runtime
  ctr,     \* its container
  bind,    \* the Hermes data directory it was created on
  files,   \* config.yaml in each Hermes data directory
  proc,    \* what Hermes read when it started: with the pins or without
  run,     \* the last run: its row is active, Hermes executes it
  daemon,  \* the daemon is up
  rules,   \* command_allowlist
  held,    \* external: the list Hermes loaded when it started, and what it added
  cli,     \* the commands
  given, edits, faults,
  taken,   \* history: rules that were revoked, and not recorded again since
  revived, \* history: of these, the ones a list read or loaded earlier brought back
  torn     \* history: a command ended between its pins and the restart they need

dockerVars == <<ctr, bind, files, proc, torn>>
ruleVars == <<rules, held, taken, revived>>
countVars == <<given, edits, faults>>
vars == <<reg, dockerVars, run, daemon, ruleVars, cli, countVars>>

-----------------------------------------------------------------------------
(* The configuration and the policy on it.                                 *)

\* The data directories an operator may name with --hermes-data.
Dirs == {"data", "other"}

\* The settings that matter here, as lookup reads them: model.openai_runtime is
\* codex_app_server, approvals.mode is off, the model and the workspace are
\* pinned.  A setting in another shape than Hermes writes is read as unset.
RuntimeConfiguration == [native : BOOLEAN, bypassed : BOOLEAN, pinned : BOOLEAN, there : BOOLEAN]
NoFile == [native |-> FALSE, bypassed |-> FALSE, pinned |-> FALSE, there |-> FALSE]

\* What Hermes writes on its first start.
Seeded == [NoFile EXCEPT !.there = TRUE]
Loaded(d) == IF files[d] = NoFile THEN Seeded ELSE files[d]

uses_native_codex(c) == c.native
approvals_bypassed(c) == c.bypassed

\* Allowed, with or without a warning.
evaluate(c, override) == ~(uses_native_codex(c) /\ approvals_bypassed(c)) \/ override

\* `start` checks the directory of the container, `ensure` the one it was given,
\* whatever an existing container is bound to.  A file that is not there is no
\* failure.
enforce_runtime_policy(c) ==
  LET f == files[IF cli[c].op = "start" THEN bind ELSE cli[c].data] IN
  f = NoFile \/ evaluate(f, cli[c].override)

set_setting(c) == [c EXCEPT !.pinned = TRUE]

Ops == {"ensure", "setup", "auth", "start", "stop", "remove", "unregister", "revoke", "clear"}
Quiet == [op |-> "none", pc |-> "idle", force |-> FALSE, override |-> FALSE, category |-> NoCategory,
          data |-> "data", root |-> "home", text |-> NoFile, list |-> {}, seen |-> 0, stale |-> {}]
NoRun == [id |-> 0, active |-> FALSE, at |-> "nowhere"]

\* Every variable has the type its row, file or process gives it.
TypeOK ==
  /\ reg \in {"absent", "managed_container", "external"}
  /\ ctr \in {"absent", "stopped", "running"}
  /\ bind \in Dirs
  /\ files \in [Dirs -> RuntimeConfiguration]
  /\ proc \in {"none", "pinned", "unpinned"}
  /\ run \in [id : 0 .. MaxRuns, active : BOOLEAN, at : {"nowhere", "container", "external"}]
  /\ daemon \in BOOLEAN
  /\ torn \in BOOLEAN
  /\ rules \subseteq Categories /\ held \subseteq Categories
  /\ taken \subseteq Categories /\ revived \subseteq Categories
  /\ cli \in [Commands -> [op : Ops \union {"none"},
       pc : {"idle", "begun", "guarded", "checked", "created", "started", "healthy", "pin", "pinned",
             "halted", "login", "read"},
       force : BOOLEAN, override : BOOLEAN, category : Categories \union {NoCategory},
       data : Dirs, root : {"home", "elsewhere"}, text : RuntimeConfiguration, list : SUBSET Categories,
       seen : 0 .. MaxRuns, stale : SUBSET Categories]]
  /\ <<given, edits, faults>> \in Nat \X Nat \X Nat

\* A project nobody registered yet, on a host whose Hermes may have rules already.
Init ==
  /\ reg = "absent" /\ ctr = "absent" /\ bind = "data" /\ files = [d \in Dirs |-> NoFile]
  /\ proc = "none" /\ torn = FALSE
  /\ run = NoRun /\ daemon = TRUE
  /\ rules \in SUBSET Categories /\ held = rules /\ taken = {} /\ revived = {}
  /\ cli = [c \in Commands |-> Quiet]
  /\ given = 0 /\ edits = 0 /\ faults = 0

At(c, ops, pc) == cli[c].op \in ops /\ cli[c].pc = pc
Go(c, pc) == cli' = [cli EXCEPT ![c].pc = pc]
Exit(c) == cli' = [cli EXCEPT ![c] = Quiet]
Fault == faults < MaxFaults /\ faults' = faults + 1 /\ UNCHANGED <<given, edits>>

-----------------------------------------------------------------------------
(* The registry.                                                           *)

owns_container == reg = "managed_container"

\* A project nobody registered may have a container all the same.
require_managed_container == reg = "absent" \/ owns_container

\* `project register`: a registered project stays as it is.
register_project(ownership) ==
  /\ reg = "absent"
  /\ reg' = ownership
  /\ UNCHANGED <<dockerVars, run, daemon, ruleVars, cli, countVars>>

\* What an operator may say with each command.
Arguments(op) ==
  [force : IF op \in {"stop", "remove"} THEN BOOLEAN ELSE {FALSE},
   override : IF op \in {"ensure", "start"} THEN BOOLEAN ELSE {FALSE},
   category : IF op = "revoke" THEN Categories ELSE {NoCategory},
   data : IF op \in {"ensure", "setup"} THEN Dirs ELSE {"data"},
   root : IF op \in {"auth", "start", "stop", "remove"} THEN {"home", "elsewhere"} ELSE {"home"}]

Given(op, a) ==
  [op |-> op, pc |-> "begun", force |-> a.force, override |-> a.override, category |-> a.category,
   data |-> a.data, root |-> a.root, text |-> NoFile, list |-> {}, seen |-> 0, stale |-> {}]

\* A command begins with the check of the registry: who owns the runtime, or,
\* for the rules, that there is such a project.
Begin(c, op) ==
  /\ given < MaxCommands
  /\ cli[c] = Quiet
  /\ CASE op = "unregister" -> reg # "absent"
       [] op \in {"revoke", "clear"} -> reg # "absent"
       [] OTHER -> require_managed_container
  /\ given' = given + 1
  /\ \E a \in Arguments(op) : cli' = [cli EXCEPT ![c] = Given(op, a)]
  /\ UNCHANGED <<reg, dockerVars, run, daemon, ruleVars, edits, faults>>

\* The rows of the registry that are not at an end, as the daemon and every
\* command under the Node's home read them.
active_runs == IF run.active THEN {run.id} ELSE {}

\* What the daemon tells of the project, over its socket.
project_activity == active_runs

\* The socket under the command's --state-root accepts a request; otherwise the
\* client says the Node is unavailable.  Only the Node's home has one: the owner
\* of the runtime is read there, but --state-root is ./.asterism unless it is set.
NodeUnavailable(c) == ~daemon \/ cli[c].root # "home"

\* Mutant: a daemon that does not answer has nothing running.
idle_unless_told(c) == NodeUnavailable(c) \/ project_activity = {}

\* Without an answer the registry under --state-root is read; it is created empty
\* where there is none.
ensure_project_idle(c) ==
  IF NodeUnavailable(c) THEN cli[c].root = "home" => active_runs = {} ELSE project_activity = {}

\* The commands that must not disturb a run ask before they act; --force does not.
Guard(c) ==
  /\ At(c, {"auth", "stop", "remove", "unregister"}, "begun")
  /\ IF CASE cli[c].op = "unregister" -> active_runs = {}
          [] OTHER -> cli[c].force \/ ensure_project_idle(c)
     THEN cli' = [cli EXCEPT ![c].pc = "guarded", ![c].seen = run.id]
     ELSE Exit(c)
  /\ UNCHANGED <<reg, dockerVars, run, daemon, ruleVars, countVars>>

unregister_project(c) ==
  /\ At(c, {"unregister"}, "guarded")
  /\ reg' = "absent"
  /\ Exit(c)
  /\ UNCHANGED <<dockerVars, run, daemon, ruleVars, countVars>>

-----------------------------------------------------------------------------
(* Docker.                                                                 *)

\* Whoever was executed in the container is not any more.
RunDies == run' = IF run.at = "container" THEN [run EXCEPT !.at = "nowhere"] ELSE run

Reads(d) == IF Loaded(d).pinned THEN "pinned" ELSE "unpinned"

\* `docker start` of a container that runs does nothing.
docker_start ==
  IF ctr = "running" THEN UNCHANGED dockerVars
  ELSE /\ ctr' = "running"
       /\ files' = [files EXCEPT ![bind] = Loaded(bind)]
       /\ proc' = Reads(bind) /\ torn' = FALSE
       /\ UNCHANGED bind

docker_stop ==
  /\ ctr' = "stopped" /\ proc' = "none"
  /\ RunDies
  /\ UNCHANGED <<bind, files, torn>>

docker_rm ==
  /\ ctr' = "absent" /\ proc' = "none"
  /\ RunDies
  /\ UNCHANGED <<bind, files, torn>>

\* `docker` cannot be run, or fails; so does a probe that waits for Hermes; or the
\* command is interrupted.
DockerFails(c) ==
  /\ Fault
  /\ cli[c].op \in {"ensure", "setup", "auth", "start", "stop", "remove"}
  /\ cli[c].pc # "idle"
  /\ torn' = (torn \/ cli[c].pc = "pinned")
  /\ Exit(c)
  /\ UNCHANGED <<reg, ctr, bind, files, proc, run, daemon, ruleVars>>

\* Arguments that make no container: an unusable workspace, mounts that overlap,
\* a runtime user who is root.
project_spec(c) ==
  /\ At(c, {"ensure", "setup"}, "begun")
  /\ Exit(c)
  /\ UNCHANGED <<reg, dockerVars, run, daemon, ruleVars, countVars>>

\* `ensure` and `start` read the configuration and refuse what the policy
\* denies; there must be a container for `start` to find it.
EnforcePolicy(c) ==
  /\ At(c, {"ensure", "start"}, "begun")
  /\ IF (cli[c].op = "start" => ctr # "absent") /\ enforce_runtime_policy(c)
     THEN Go(c, "checked") ELSE Exit(c)
  /\ UNCHANGED <<reg, dockerVars, run, daemon, ruleVars, countVars>>

container_exists == ctr # "absent"

\* ensure_project creates the container unless there is one.
ensure_project(c) ==
  /\ At(c, {"ensure"}, "checked")
  /\ IF container_exists THEN UNCHANGED <<ctr, bind>> ELSE ctr' = "stopped" /\ bind' = cli[c].data
  /\ Go(c, "created")
  /\ UNCHANGED <<reg, files, proc, torn, run, daemon, ruleVars, countVars>>

start_project(c) ==
  /\ \/ At(c, {"ensure"}, "created")
     \/ At(c, {"start"}, "checked")
  /\ IF ctr = "absent" THEN UNCHANGED dockerVars /\ Exit(c)
     ELSE docker_start /\ Go(c, "started")
  /\ UNCHANGED <<reg, run, daemon, ruleVars, countVars>>

\* `start` asks the daemon, if its --state-root finds it, to reconcile, which ends
\* a run nobody executes.
notify_reconcile(c) ==
  /\ At(c, {"start"}, "started")
  /\ run' = IF ~NodeUnavailable(c) /\ run.at = "nowhere" THEN [run EXCEPT !.active = FALSE] ELSE run
  /\ Exit(c)
  /\ UNCHANGED <<reg, dockerVars, daemon, ruleVars, countVars>>

\* Hermes answers; the configuration it wrote on its first start can be pinned.
wait_for_hermes(c) ==
  /\ At(c, {"ensure"}, "started") /\ ctr = "running"
  /\ Go(c, "healthy")
  /\ UNCHANGED <<reg, dockerVars, run, daemon, ruleVars, countVars>>

\* pin_model_configuration reads the file in the directory it was given; nothing
\* to change ends the command.
pin_read(c) ==
  LET f == files[cli[c].data] IN
  /\ At(c, {"ensure"}, "healthy")
  /\ IF f = NoFile \/ set_setting(f) = f THEN Exit(c)
     ELSE cli' = [cli EXCEPT ![c].pc = "pin", ![c].text = f]
  /\ UNCHANGED <<reg, dockerVars, run, daemon, ruleVars, countVars>>

\* It writes the whole text back, with the pins: an edit made since is lost.
pin_write(c) ==
  /\ At(c, {"ensure"}, "pin")
  /\ files' = [files EXCEPT ![cli[c].data] = set_setting(cli[c].text)]
  /\ cli' = [cli EXCEPT ![c].pc = "pinned", ![c].text = NoFile]
  /\ UNCHANGED <<reg, ctr, bind, proc, torn, run, daemon, ruleVars, countVars>>

\* Mutant: a container that runs is not stopped first, and starting it does nothing.
pin_stop_skipped(c) ==
  /\ At(c, {"ensure"}, "pinned")
  /\ IF ctr = "absent" THEN Exit(c) ELSE Go(c, "halted")
  /\ UNCHANGED <<reg, dockerVars, run, daemon, ruleVars, countVars>>

\* The process has read the old text: the container is stopped, whatever it
\* executes, and started again, without another look at the policy.
pin_stop(c) ==
  /\ At(c, {"ensure"}, "pinned")
  /\ IF ctr = "absent" THEN UNCHANGED <<dockerVars, run>> /\ Exit(c)
     ELSE docker_stop /\ Go(c, "halted")
  /\ UNCHANGED <<reg, daemon, ruleVars, countVars>>

pin_start(c) ==
  /\ At(c, {"ensure"}, "halted")
  /\ IF ctr = "absent" THEN UNCHANGED dockerVars ELSE docker_start
  /\ Exit(c)
  /\ UNCHANGED <<reg, run, daemon, ruleVars, countVars>>

stop_project(c) ==
  /\ At(c, {"stop"}, "guarded")
  /\ IF ctr = "absent" THEN UNCHANGED <<dockerVars, run>> ELSE docker_stop
  /\ Exit(c)
  /\ UNCHANGED <<reg, daemon, ruleVars, countVars>>

\* The workspace and the Hermes data stay.
remove_project(c) ==
  /\ At(c, {"remove"}, "guarded")
  /\ docker_rm
  /\ Exit(c)
  /\ UNCHANGED <<reg, daemon, ruleVars, countVars>>

\* A login runs in a container that is running, for as long as a person takes.
authenticate_provider(c) ==
  /\ At(c, {"auth"}, "guarded")
  /\ IF ctr = "running" THEN Go(c, "login") ELSE Exit(c)
  /\ UNCHANGED <<reg, dockerVars, run, daemon, ruleVars, countVars>>

\* The image has no such provider.
ensure_provider_available(c) ==
  /\ At(c, {"auth"}, "guarded")
  /\ Exit(c)
  /\ UNCHANGED <<reg, dockerVars, run, daemon, ruleVars, countVars>>

\* It ends with credentials the runtime user can read, or with its container.
verify_credential_readable(c) ==
  /\ At(c, {"auth"}, "login")
  /\ Exit(c)
  /\ UNCHANGED <<reg, dockerVars, run, daemon, ruleVars, countVars>>

\* The setup of Hermes runs in a container of its own, on the same data, and
\* leaves the configuration the person asked for.
setup_hermes(c) ==
  /\ At(c, {"setup"}, "begun")
  /\ \E f \in {g \in RuntimeConfiguration : g.there /\ ~g.pinned} :
        files' = [files EXCEPT ![cli[c].data] = f]
  /\ Exit(c)
  /\ UNCHANGED <<reg, ctr, bind, proc, torn, run, daemon, ruleVars, countVars>>

-----------------------------------------------------------------------------
(* The standing rules.                                                     *)

\* `hermes config get command_allowlist`; a category that is not there, or an
\* empty list, ends the command.
parse_allowlist(c) ==
  /\ At(c, {"revoke", "clear"}, "begun")
  /\ IF rules = {} \/ (cli[c].op = "revoke" /\ cli[c].category \notin rules) THEN Exit(c)
     ELSE cli' = [cli EXCEPT ![c].pc = "read", ![c].list = rules]
  /\ UNCHANGED <<reg, dockerVars, run, daemon, ruleVars, countVars>>

\* A command that read the list before the categories in gone went.
Unaware(d, gone) ==
  IF cli[d].pc = "read" THEN [cli[d] EXCEPT !.stale = @ \union gone] ELSE cli[d]

\* Command c took the categories in gone away and left the rules as left: the
\* commands that read the list before do not know of these, nor of a rule that
\* was not in the list of c and went all the same.
Took(c, gone, left) ==
  /\ rules' = left
  /\ taken' = taken \union gone
  /\ revived' = (revived \union cli[c].stale) \intersect taken' \intersect left
  /\ cli' = [d \in Commands |-> IF d = c THEN Quiet ELSE Unaware(d, gone \union (rules \ left))]
  /\ UNCHANGED held

\* Mutant: the list is written as it was read.
revoke_unfiltered(c) ==
  /\ At(c, {"revoke"}, "read")
  /\ Took(c, {cli[c].category}, cli[c].list)
  /\ UNCHANGED <<reg, dockerVars, run, daemon, countVars>>

\* One category is filtered out.  The last one goes with the key; otherwise the
\* block is rewritten, and there must still be one.
revoke(c) ==
  LET after == cli[c].list \ {cli[c].category} IN
  /\ At(c, {"revoke"}, "read")
  /\ IF after # {} /\ rules = {} THEN Exit(c) /\ UNCHANGED ruleVars
     ELSE Took(c, {cli[c].category}, after)
  /\ UNCHANGED <<reg, dockerVars, run, daemon, countVars>>

\* The key is removed, with whatever was recorded since it was read.
clear(c) ==
  /\ At(c, {"clear"}, "read")
  /\ Took(c, cli[c].list, {})
  /\ UNCHANGED <<reg, dockerVars, run, daemon, countVars>>

\* An approval is answered with "always", and Hermes records the category in the
\* list: the one in the file, or the one it loaded when it started.
HermesRecords(k) ==
  /\ edits < MaxEdits
  /\ k \notin rules
  /\ edits' = edits + 1
  /\ \E list \in {rules, held} :
       /\ rules' = list \union {k}
       /\ revived' = (revived \union (list \ rules)) \intersect (list \ {k})
       /\ cli' = [d \in Commands |-> Unaware(d, rules \ list)]
  /\ held' = held \union {k}
  /\ taken' = taken \ {k}
  /\ UNCHANGED <<reg, dockerVars, run, daemon, given, faults>>

\* "Hermes loads the allowlist at startup": the restart a revocation asks for.
HermesReloads ==
  /\ held # rules
  /\ held' = rules
  /\ UNCHANGED <<reg, dockerVars, run, daemon, rules, taken, revived, cli, countVars>>

-----------------------------------------------------------------------------
(* The daemon, Docker, and whoever edits the configuration.                *)

\* The daemon admits one run at a time, and Hermes executes it.
AdmitRun ==
  /\ daemon /\ ~run.active /\ run.id < MaxRuns
  /\ \/ reg = "external" /\ run' = [id |-> run.id + 1, active |-> TRUE, at |-> "external"]
     \/ owns_container /\ ctr = "running" /\ run' = [id |-> run.id + 1, active |-> TRUE, at |-> "container"]
  /\ UNCHANGED <<reg, dockerVars, daemon, ruleVars, cli, countVars>>

HermesFinishes ==
  /\ run.at # "nowhere"
  /\ run' = [run EXCEPT !.at = "nowhere"]
  /\ UNCHANGED <<reg, dockerVars, daemon, ruleVars, cli, countVars>>

\* The daemon learns it, from the stream or by reconciling.
RunSettles ==
  /\ daemon /\ run.active /\ run.at = "nowhere"
  /\ run' = [run EXCEPT !.active = FALSE]
  /\ UNCHANGED <<reg, dockerVars, daemon, ruleVars, cli, countVars>>

DaemonStops ==
  /\ Fault /\ daemon /\ daemon' = FALSE
  /\ UNCHANGED <<reg, dockerVars, run, ruleVars, cli>>

DaemonStarts ==
  /\ ~daemon /\ daemon' = TRUE
  /\ UNCHANGED <<reg, dockerVars, run, ruleVars, cli, countVars>>

\* The process dies, or the host restarts: `--restart unless-stopped` brings
\* the container back, with the configuration there is.
DockerRestarts ==
  /\ Fault
  /\ ctr = "running"
  /\ proc' = Reads(bind) /\ torn' = FALSE
  /\ files' = [files EXCEPT ![bind] = Loaded(bind)]
  /\ RunDies
  /\ UNCHANGED <<reg, ctr, bind, daemon, ruleVars, cli>>

EditConfig(d) ==
  /\ edits < MaxEdits
  /\ edits' = edits + 1
  /\ \E f \in {g \in RuntimeConfiguration : g.there /\ g.pinned = files[d].pinned} \ {files[d]} :
        files' = [files EXCEPT ![d] = f]
  /\ UNCHANGED <<reg, ctr, bind, proc, torn, run, daemon, ruleVars, cli, given, faults>>

Lifecycle(c) ==
  \/ Guard(c) \/ project_spec(c) \/ EnforcePolicy(c) \/ ensure_project(c) \/ start_project(c) \/ notify_reconcile(c)
  \/ wait_for_hermes(c) \/ pin_read(c) \/ pin_write(c) \/ pin_stop(c) \/ pin_start(c)
  \/ stop_project(c) \/ remove_project(c) \/ authenticate_provider(c) \/ verify_credential_readable(c)
  \/ ensure_provider_available(c) \/ setup_hermes(c) \/ unregister_project(c) \/ DockerFails(c)
  \/ parse_allowlist(c) \/ revoke(c) \/ clear(c)

Environment ==
  \/ AdmitRun \/ HermesFinishes \/ RunSettles \/ DaemonStops \/ DaemonStarts
  \/ DockerRestarts \/ HermesReloads
  \/ \E d \in Dirs : EditConfig(d)
  \/ \E k \in Categories : HermesRecords(k)

Next ==
  \/ \E o \in {"managed_container", "external"} : register_project(o)
  \/ \E c \in Commands, op \in Ops : Begin(c, op)
  \/ \E c \in Commands : Lifecycle(c)
  \/ Environment

Spec == Init /\ [][Next]_vars

-----------------------------------------------------------------------------
(* Properties.                                                             *)

\* A command that asked, under the Node's home, whether the project is idle, and
\* is about to stop it, remove it, forget it or change its credentials, meets only
\* a run that was admitted after it asked: a run there was is never disturbed, not
\* even where the daemon that knows of it does not answer.
KnownRunSpared ==
  \A c \in Commands :
     /\ cli[c].op \in {"auth", "stop", "remove", "unregister"} /\ ~cli[c].force
     /\ cli[c].root = "home"
     /\ cli[c].pc \in {"guarded", "login"}
     /\ run.active
     => run.id > cli[c].seen

\* A Hermes that runs without the pins its file has is about to be restarted by the
\* `ensure` that wrote them, however the commands and Docker interleave, or such a
\* command ended before it could: then no later `ensure` finds anything to change.
PinsInEffect ==
  ctr = "running" /\ proc = "unpinned" /\ files[bind].pinned
    => torn \/ \E c \in Commands : At(c, {"ensure"}, "pinned") /\ cli[c].data = bind

\* A rule that was revoked stands again, without having been recorded again,
\* only where another revocation had read the list before, or Hermes had loaded it.
RevokedReturnsByRace == taken \intersect rules \subseteq revived
=============================================================================
