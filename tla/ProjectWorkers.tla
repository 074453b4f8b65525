--------------------------- MODULE ProjectWorkers ---------------------------
(***************************************************************************)
(* The workers of a Node's projects: one systemd unit per project, serving *)
(* from the project's own home on the project's own port.  Provisioning    *)
(* builds them (src/src/provisioning.rs, src/src/profiles.rs), the worker  *)
(* manager changes the credential or the model they read, puts them to     *)
(* sleep, wakes them, and restarts every worker of a credential whose      *)
(* material is replaced (src/src/workers.rs, src/src/credential_swap.rs),  *)
(* and a boot brings them back (src/src/daemon.rs).                        *)
(*                                                                         *)
(* Everything here is done by one task at a time: the boot, then the       *)
(* session loop.  What interleaves is a death of the daemon between any    *)
(* two effects (the units go on without it), a reboot of the host, and     *)
(* the runs, and an operator whose `project unregister` and                *)
(* `project register` write the rows from a process of their own.  An      *)
(* action is one effect: a unit stopped or started, a file or link         *)
(* replaced, a row written.                                                *)
(***************************************************************************)
EXTENDS Integers

CONSTANTS
  Projects,     \* projects the Control Plane may place here
  Credentials,  \* isolated credentials, each with material to begin with
  NoCredential, \* the shared pool
  Models,       \* models the provider offers
  DefaultModel, \* the model a new home is configured for
  Ports,        \* the port range of this Node, a set of numbers
  MaxCommands,  \* bound: how many commands arrive
  MaxFaults,    \* bound: how many effects fail
  MaxDeaths,    \* bound: how often the daemon or the host goes down
  Hazards       \* which of AllHazards the environment may show

\* effects       starting, proving, writing, renaming or stopping may fail
\* ignored       so may the effects whose errors the code ignores or only notes:
\*               the stop and the writes of a rollback, the repair of a link
\* crash         the daemon dies between two effects; the units go on
\* reboot        the host goes down with everything on it
\* operator      rows are deleted and written by hand, whatever the loop is doing
AllHazards == {"effects", "ignored", "crash", "reboot", "operator"}

ASSUME NoCredentialAssumption == NoCredential \notin Credentials
ASSUME DefaultModelAssumption == DefaultModel \in Models
ASSUME PortsAssumption == Ports \subseteq Nat \ {0}
ASSUME BoundsAssumption == {MaxCommands, MaxFaults, MaxDeaths} \subseteq Nat
ASSUME HazardsAssumption == Hazards \subseteq AllHazards

NoPort == 0
Stores == Credentials \union {NoCredential}

VARIABLES
  profile,    \* projects.profile_state, "absent" without a row
  endpoint,   \* projects.runtime_endpoint
  bound,      \* projects.hermes_profile and hermes_api_key_ref are set
  suspended,  \* projects.suspended_at is set
  credential, \* projects.credential_id
  model,      \* projects.model
  manual,     \* the row was written by `project register`
  home,       \* the port a project's complete home is configured for
  link,       \* where the home's credential link points
  config,     \* the model in the home's configuration
  unit,       \* the worker process: whether it runs, and what it read at start
  live,       \* the material in a credential's home
  aside,      \* the material a swap moved aside
  mats,       \* how many materials there have been
  inRun,      \* the project has a run in flight
  loop,       \* what the boot or the session loop is doing
  commands, faults, deaths,
  proven,     \* history: the last material every worker was proven on
  forgotten   \* history: the projects that have been unregistered

rowVars == <<profile, endpoint, bound, suspended, credential, model>>
homeVars == <<home, link, config>>
swapVars == <<live, aside, mats, proven>>
operatorVars == <<manual, forgotten>>
countVars == <<commands, faults, deaths>>
vars == <<rowVars, operatorVars, homeVars, unit, swapVars, inRun, loop, countVars>>

Off == [on |-> FALSE, cred |-> NoCredential, mat |-> 0, model |-> DefaultModel, port |-> NoPort]
Idle == [op |-> "idle", step |-> "none", ps |-> {}, cred |-> NoCredential, model |-> DefaultModel,
         was |-> {}, oldCred |-> NoCredential, oldLink |-> NoCredential,
         oldModel |-> DefaultModel, oldConfig |-> DefaultModel, restored |-> TRUE, port |-> NoPort]

\* Every variable has the type its row, file or process gives it.
TypeOK ==
  /\ profile \in [Projects -> {"absent", "pending", "provisioning", "ready", "failed"}]
  /\ endpoint \in [Projects -> Ports \union {NoPort}]
  /\ bound \in [Projects -> BOOLEAN] /\ suspended \in [Projects -> BOOLEAN]
  /\ credential \in [Projects -> Stores]
  /\ model \in [Projects -> Models]
  /\ home \in [Projects -> Ports \union {NoPort}]
  /\ link \in [Projects -> Stores]
  /\ config \in [Projects -> Models]
  /\ unit \in [Projects -> [on : BOOLEAN, cred : Stores, mat : Nat, model : Models,
                            port : Ports \union {NoPort}]]
  /\ live \in [Credentials -> Nat] /\ aside \in [Credentials -> Nat]
  /\ mats \in Nat
  /\ inRun \in [Projects -> BOOLEAN]
  /\ loop \in [op : {"idle", "boot", "provision", "assign", "model", "suspend", "resume", "swap"},
               step : {"none", "workspace", "register", "reserve", "build", "bind", "up", "health", "stop",
                       "write",
                       "record", "start", "back", "unrecord", "restart", "aside", "in", "undo",
                       "accept", "flag"},
               ps : SUBSET Projects, cred : Stores, model : Models, was : SUBSET Projects,
               oldCred : Stores, oldLink : Stores, oldModel : Models, oldConfig : Models,
               restored : BOOLEAN, port : Ports \union {NoPort}]
  /\ loop.op = "swap" => loop.cred \in Credentials
  /\ commands \in Nat /\ faults \in Nat /\ deaths \in Nat
  /\ proven \in [Credentials -> Nat]
  /\ manual \in [Projects -> BOOLEAN] /\ forgotten \in SUBSET Projects

\* A Node with authorized credentials and no project.
Init ==
  /\ profile = [p \in Projects |-> "absent"]
  /\ endpoint = [p \in Projects |-> NoPort]
  /\ bound = [p \in Projects |-> FALSE] /\ suspended = [p \in Projects |-> FALSE]
  /\ credential = [p \in Projects |-> NoCredential]
  /\ model = [p \in Projects |-> DefaultModel]
  /\ home = [p \in Projects |-> NoPort]
  /\ link = [p \in Projects |-> NoCredential]
  /\ config = [p \in Projects |-> DefaultModel]
  /\ unit = [p \in Projects |-> Off]
  /\ live = [c \in Credentials |-> 1]
  /\ aside = [c \in Credentials |-> 0]
  /\ mats = 1
  /\ inRun = [p \in Projects |-> FALSE]
  /\ loop = Idle
  /\ commands = 0 /\ faults = 0 /\ deaths = 0
  /\ proven = [c \in Credentials |-> 1]
  /\ manual = [p \in Projects |-> FALSE] /\ forgotten = {}

-----------------------------------------------------------------------------
(* The pieces the operations are made of.                                  *)

Step(s) == loop' = [loop EXCEPT !.step = s]
Done == loop' = Idle
At(o, s) == loop.op \in o /\ loop.step = s

\* An effect of the environment's choosing fails.
Fails ==
  /\ "effects" \in Hazards /\ faults < MaxFaults
  /\ faults' = faults + 1
Works == UNCHANGED faults

\* Mutant: runs are not looked at.
begin_regardless(ps) == TRUE

\* begin_credential_change: one change at a time, and none under a run.  The
\* loop does one thing at a time, so what is changing is what it works on.
begin_worker_change(ps) == \A p \in ps : ~inRun[p]
Changing(p) == loop.op \in {"assign", "model", "suspend", "resume", "swap"} /\ p \in loop.ps

\* What a unit started with its link on store c would read and serve on.
Started(p, c) ==
  [on |-> TRUE, cred |-> c, mat |-> IF c = NoCredential THEN 0 ELSE live[c],
   model |-> config[p], port |-> home[p]]

\* systemctl start leaves a unit that is active as it is.
start(ps) ==
  unit' = [p \in Projects |-> IF p \in ps /\ ~unit[p].on THEN Started(p, link[p]) ELSE unit[p]]
stop(ps) == unit' = [p \in Projects |-> IF p \in ps THEN Off ELSE unit[p]]
Active(ps) == {p \in ps : unit[p].on}

\* Of two units configured for one port, one listens.
Contested(p) == \E q \in Projects \ {p} : unit[q].on /\ unit[q].port = unit[p].port

\* set_profile_state, which writes nothing when the row is gone.
Marked(p, s) == [profile EXCEPT ![p] = IF @ = "absent" THEN @ ELSE s]

\* WorkerManager::binding refuses a project without a profile and an endpoint.
Bound(p) == bound[p] /\ endpoint[p] # NoPort

Command(o, s, ps) ==
  /\ loop = Idle /\ commands < MaxCommands
  /\ commands' = commands + 1
  /\ loop' = [Idle EXCEPT !.op = o, !.step = s, !.ps = ps]

-----------------------------------------------------------------------------
(* Provisioning.                                                           *)

\* project.provision, for a new project or again for one that is there.
ProvisionBegins(p) ==
  /\ Command("provision", "workspace", {p})
  /\ UNCHANGED <<operatorVars, rowVars, homeVars, unit, swapVars, inRun, faults, deaths>>

\* prepare_workspace: an existing checkout is accepted, a clone or an empty one
\* is built aside and renamed, so it fails whole.
PrepareWorkspace(p) ==
  /\ At({"provision"}, "workspace") /\ p \in loop.ps
  /\ \/ Works /\ Step("register")
     \/ Fails /\ Done
  /\ UNCHANGED <<operatorVars, rowVars, homeVars, unit, swapVars, inRun, commands, deaths>>

\* register_project: the row is there before the home is, and one that is there
\* keeps what it has, unless it was written by hand for another workspace.
Register(p) ==
  /\ At({"provision"}, "register") /\ p \in loop.ps
  /\ \/ /\ Works /\ Step("reserve")
        /\ profile' = [profile EXCEPT ![p] = IF @ = "absent" THEN "pending" ELSE @]
     \/ manual[p] /\ Works /\ Done /\ UNCHANGED profile
     \/ Fails /\ Done /\ UNCHANGED profile
  /\ UNCHANGED <<operatorVars, endpoint, bound, suspended, credential, model, homeVars, unit,
                 swapVars, inRun, commands, deaths>>

\* Mutant: a worker that is stopped has given up its port.
FreePortsListening ==
  {n \in Ports : \A q \in Projects : ~(unit[q].on /\ unit[q].port = n)}

\* reserve_endpoint takes the first port that is neither in a row nor in use.
FreePorts == {n \in Ports : /\ \A q \in Projects : endpoint[q] # n
                            /\ \A q \in Projects : ~(unit[q].on /\ unit[q].port = n)}
LeastPort(S) == CHOOSE n \in S : \A k \in S : n <= k

\* The row is written under its own transaction, so what is reserved is what
\* the rows say then; without a row there is nothing to reserve for.
Reserve(p) ==
  /\ At({"provision"}, "reserve") /\ p \in loop.ps
  /\ profile' = Marked(p, "provisioning")
  /\ \/ /\ profile[p] = "absent" \/ (endpoint[p] = NoPort /\ FreePorts = {})
        /\ Done /\ UNCHANGED endpoint
     \/ /\ profile[p] # "absent" /\ (endpoint[p] # NoPort \/ FreePorts # {})
        /\ endpoint' = [endpoint EXCEPT ![p] = IF @ = NoPort THEN LeastPort(FreePorts) ELSE @]
        /\ loop' = [loop EXCEPT !.step = "build", !.port = endpoint'[p]]
  /\ UNCHANGED <<operatorVars, bound, suspended, credential, model, homeVars, unit, swapVars,
                 inRun, countVars>>

\* provision_project_profile: a complete home is reused, whatever port it is
\* configured for; a new one is built aside for the reserved port, linked to
\* the shared pool, and renamed into place; a failure gives the port back.
Build(p) ==
  /\ At({"provision"}, "build") /\ p \in loop.ps
  /\ \/ /\ home[p] # NoPort
        /\ Works /\ Step("bind") /\ UNCHANGED <<profile, endpoint, homeVars>>
     \/ /\ home[p] = NoPort
        /\ Works /\ Step("bind") /\ UNCHANGED <<profile, endpoint>>
        /\ home' = [home EXCEPT ![p] = loop.port]
        /\ link' = [link EXCEPT ![p] = NoCredential]
        /\ config' = [config EXCEPT ![p] = DefaultModel]
     \/ /\ home[p] = NoPort
        /\ Fails /\ Done /\ UNCHANGED homeVars
        /\ endpoint' = [endpoint EXCEPT ![p] = NoPort]
        /\ profile' = Marked(p, "failed")
  /\ UNCHANGED <<operatorVars, bound, suspended, credential, model, unit, swapVars, inRun,
                 commands, deaths>>

\* set_profile_runtime: the row, if it is still there, learns of the home and
\* of the port that was reserved.
Bind(p) ==
  /\ At({"provision"}, "bind") /\ p \in loop.ps
  /\ \/ /\ profile[p] # "absent" /\ Works /\ Step("up")
        /\ bound' = [bound EXCEPT ![p] = TRUE]
        /\ endpoint' = [endpoint EXCEPT ![p] = loop.port]
        /\ profile' = [profile EXCEPT ![p] = "provisioning"]
     \/ profile[p] = "absent" /\ Works /\ Done /\ UNCHANGED <<profile, bound, endpoint>>
     \/ Fails /\ Done /\ UNCHANGED <<profile, bound, endpoint>>
  /\ UNCHANGED <<operatorVars, suspended, credential, model, homeVars, unit, swapVars, inRun,
                 commands, deaths>>

-----------------------------------------------------------------------------
(* ensure_running: after provisioning, on resume, and for each project of a *)
(* boot.                                                                    *)

\* Where ensure_running goes when it is done with project p.
Next1(p) == IF loop.op = "boot" /\ loop.ps # {p}
            THEN [loop EXCEPT !.step = "up", !.ps = @ \ {p}] ELSE Idle

\* Mutant: the link is trusted.
RepairNothing(p) == UNCHANGED link

\* profiles::reconcile_credentials: the link goes to the store of the row.
Relinked(p) == [link EXCEPT ![p] = credential[p]]

\* classify_link: the link leads to the store the row names.
Linked(p) == link[p] = credential[p]

\* The credential link of a stopped worker is brought in line with the row,
\* and a failure to do so is only noted.
Repair(p) ==
  \/ link' = IF unit[p].on THEN link ELSE Relinked(p)
  \/ "ignored" \in Hazards /\ UNCHANGED link

\* ensure_running, up to the health check: the link, then the unit.
EnsureUp(p) ==
  /\ At({"provision", "resume", "boot"}, "up") /\ p \in loop.ps
  /\ \/ /\ ~Bound(p) /\ Works
        /\ loop' = Next1(p)
        /\ profile' = IF loop.op = "provision" THEN Marked(p, "failed") ELSE profile
        /\ UNCHANGED <<link, unit>>
     \/ /\ Bound(p) /\ Works /\ Repair(p)
        /\ unit' = IF unit[p].on THEN unit ELSE [unit EXCEPT ![p] = Started(p, link'[p])]
        /\ loop' = [loop EXCEPT !.step = "health", !.was = {p}, !.port = endpoint[p]]
        /\ UNCHANGED profile
     \/ /\ Bound(p) /\ ~unit[p].on /\ Fails /\ Repair(p)
        /\ loop' = Next1(p)
        /\ profile' = IF loop.op = "provision" THEN Marked(p, "failed") ELSE profile
        /\ UNCHANGED unit
  /\ UNCHANGED <<operatorVars, endpoint, bound, suspended, credential, model, home, config,
                 swapVars, inRun, commands, deaths>>

\* The worker answers a health check at port n.
Healthy(p, n) == unit[p].on /\ unit[p].port = n

\* Ready is the answer to a health check and nothing before it.
EnsureHealthy(p) ==
  /\ At({"provision", "resume", "boot"}, "health") /\ p \in loop.was
  /\ loop' = [Next1(p) EXCEPT !.was = {}, !.port = NoPort]
  /\ \/ Healthy(p, loop.port) /\ Works /\ profile' = Marked(p, "ready")
     \/ /\ ~Healthy(p, loop.port) \/ Contested(p)
        /\ Works /\ profile' = Marked(p, "failed")
     \/ Healthy(p, loop.port) /\ Fails /\ profile' = Marked(p, "failed")
  /\ UNCHANGED <<operatorVars, endpoint, bound, suspended, credential, model, homeVars, unit,
                 swapVars, inRun, commands, deaths>>

-----------------------------------------------------------------------------
(* Trash.                                                                  *)

SuspendBegins(p) ==
  /\ profile[p] # "absent" /\ begin_worker_change({p})
  /\ Command("suspend", "flag", {p})
  /\ UNCHANGED <<operatorVars, rowVars, homeVars, unit, swapVars, inRun, faults, deaths>>

\* suspend_worker: the row first, so that no boot starts the worker again.
SuspendFlag(p) ==
  /\ At({"suspend"}, "flag") /\ p \in loop.ps
  /\ suspended' = [suspended EXCEPT ![p] = profile[p] # "absent"]
  /\ IF profile[p] = "ready" THEN Step("stop")
     ELSE Done
  /\ UNCHANGED <<operatorVars, profile, endpoint, bound, credential, model, homeVars, unit,
                 swapVars, inRun, countVars>>

\* ... then the unit, and "stopped" only when it is seen inactive.
SuspendStop(p) ==
  /\ At({"suspend"}, "stop") /\ p \in loop.ps
  /\ Done
  /\ \/ Works /\ stop({p})
     \/ unit[p].on /\ Fails /\ UNCHANGED unit
  /\ UNCHANGED <<operatorVars, rowVars, homeVars, swapVars, inRun, commands, deaths>>

\* resume_worker: the flag first, then ensure_running.
Resume(p) ==
  /\ suspended[p] /\ begin_worker_change({p})
  /\ Command("resume", "up", {p})
  /\ suspended' = [suspended EXCEPT ![p] = FALSE]
  /\ UNCHANGED <<operatorVars, profile, endpoint, bound, credential, model, homeVars, unit,
                 swapVars, inRun, faults, deaths>>

-----------------------------------------------------------------------------
(* One project's credential or model.                                      *)

\* perform_credential_assignment: ready, and the credential usable here.  The
\* Control Plane sends neither command for a project in Trash.
AssignBegins(p, c) ==
  /\ profile[p] = "ready" /\ Bound(p) /\ ~suspended[p] /\ begin_worker_change({p})
  /\ c # NoCredential => live[c] # 0
  /\ loop = Idle /\ commands < MaxCommands
  /\ commands' = commands + 1
  /\ loop' = [Idle EXCEPT !.op = "assign", !.step = "stop", !.ps = {p}, !.was = Active({p}),
                          !.cred = c, !.oldCred = credential[p], !.oldLink = link[p]]
  /\ UNCHANGED <<operatorVars, rowVars, homeVars, unit, swapVars, inRun, faults, deaths>>

\* perform_model_selection: for a project with a credential of its own.
ModelBegins(p, m) ==
  /\ profile[p] = "ready" /\ Bound(p) /\ ~suspended[p] /\ begin_worker_change({p})
  /\ credential[p] # NoCredential /\ live[credential[p]] # 0
  /\ loop = Idle /\ commands < MaxCommands
  /\ commands' = commands + 1
  /\ loop' = [Idle EXCEPT !.op = "model", !.step = "stop", !.ps = {p}, !.was = Active({p}),
                          !.model = m, !.oldModel = model[p], !.oldConfig = config[p]]
  /\ UNCHANGED <<operatorVars, rowVars, homeVars, unit, swapVars, inRun, faults, deaths>>

\* A request for what is there already changes nothing if the worker answers;
\* otherwise it is carried out all the same.
Unchanged ==
  /\ At({"assign", "model"}, "stop")
  /\ \A p \in loop.ps :
       /\ Healthy(p, endpoint[p])
       /\ loop.op = "assign" => link[p] = loop.cred /\ credential[p] = loop.cred
       /\ loop.op = "model" => config[p] = loop.model /\ model[p] = loop.model
  /\ Done
  /\ UNCHANGED <<operatorVars, rowVars, homeVars, unit, swapVars, inRun, countVars>>

\* switch_credential and switch_model: stop, write, record, start, believe.
ChangeStops(p) ==
  /\ At({"assign", "model"}, "stop") /\ p \in loop.ps
  /\ \/ Works /\ stop({p}) /\ Step("write")
     \/ p \in loop.was /\ Fails /\ UNCHANGED unit /\ Step("back")
  /\ UNCHANGED <<operatorVars, rowVars, homeVars, swapVars, inRun, commands, deaths>>

ChangeWrites(p) ==
  /\ At({"assign", "model"}, "write") /\ p \in loop.ps
  /\ \/ /\ Works /\ Step("record")
        /\ link' = IF loop.op = "assign" THEN [link EXCEPT ![p] = loop.cred] ELSE link
        /\ config' = IF loop.op = "model" THEN [config EXCEPT ![p] = loop.model] ELSE config
     \/ Fails /\ Step("back") /\ UNCHANGED <<link, config>>
  /\ UNCHANGED <<operatorVars, rowVars, home, unit, swapVars, inRun, commands, deaths>>

ChangeRecords(p) ==
  /\ At({"assign", "model"}, "record") /\ p \in loop.ps
  /\ \/ /\ profile[p] # "absent" /\ Works /\ Step("start")
        /\ credential' = IF loop.op = "assign" THEN [credential EXCEPT ![p] = loop.cred]
                         ELSE credential
        /\ model' = IF loop.op = "model" THEN [model EXCEPT ![p] = loop.model] ELSE model
     \/ profile[p] = "absent" /\ Works /\ Step("back") /\ UNCHANGED <<credential, model>>
     \/ Fails /\ Step("back") /\ UNCHANGED <<credential, model>>
  /\ UNCHANGED <<operatorVars, profile, endpoint, bound, suspended, homeVars, unit, swapVars,
                 inRun, commands, deaths>>

\* The unit is started whether or not it ran before; it may fail to start, or
\* start and not answer.
ChangeStarts(p) ==
  /\ At({"assign", "model"}, "start") /\ p \in loop.ps
  /\ \/ start({p}) /\ Works /\ Done
     \/ start({p}) /\ Fails /\ Step("back")
     \/ UNCHANGED unit /\ Fails /\ Step("back")
  /\ UNCHANGED <<operatorVars, rowVars, homeVars, swapVars, inRun, commands, deaths>>

\* restore_credential and restore_model: stop whatever runs, without looking
\* at whether it did; put the file back, the row back, and the worker back if
\* there was one.
ChangeUnwrites(p) ==
  /\ At({"assign", "model"}, "back") /\ p \in loop.ps
  /\ \/ Works /\ stop({p})
     \/ "ignored" \in Hazards /\ Fails /\ UNCHANGED unit
  /\ \/ /\ Step("unrecord")
        /\ link' = IF loop.op = "assign" THEN [link EXCEPT ![p] = loop.oldLink] ELSE link
        /\ config' = IF loop.op = "model" THEN [config EXCEPT ![p] = loop.oldConfig] ELSE config
     \/ /\ "ignored" \in Hazards
        /\ loop' = [loop EXCEPT !.step = "unrecord", !.restored = FALSE]
        /\ UNCHANGED <<link, config>>
  /\ UNCHANGED <<operatorVars, rowVars, home, swapVars, inRun, commands, deaths>>

ChangeUnrecords(p) ==
  /\ At({"assign", "model"}, "unrecord") /\ p \in loop.ps
  /\ \/ /\ profile[p] # "absent" /\ Works /\ Step("restart")
        /\ credential' = IF loop.op = "assign" THEN [credential EXCEPT ![p] = loop.oldCred]
                         ELSE credential
        /\ model' = IF loop.op = "model" THEN [model EXCEPT ![p] = loop.oldModel] ELSE model
     \/ /\ \/ profile[p] = "absent" /\ Works
           \/ "ignored" \in Hazards /\ Fails
        /\ loop' = [loop EXCEPT !.step = "restart", !.restored = FALSE]
        /\ UNCHANGED <<credential, model>>
  /\ UNCHANGED <<operatorVars, profile, endpoint, bound, suspended, homeVars, unit, swapVars,
                 inRun, commands, deaths>>

\* A project that could not be put back is not routed to.
ChangeRestarts(p) ==
  /\ At({"assign", "model"}, "restart") /\ p \in loop.ps
  /\ Done
  /\ \/ /\ start(loop.was) /\ Works
        /\ profile' = IF loop.restored THEN profile ELSE Marked(p, "failed")
     \/ /\ loop.was # {} /\ Fails
        /\ start(loop.was) \/ UNCHANGED unit
        /\ profile' = Marked(p, "failed")
  /\ UNCHANGED <<operatorVars, endpoint, bound, suspended, credential, model, homeVars, swapVars,
                 inRun, commands, deaths>>

-----------------------------------------------------------------------------
(* The material of one credential, for every worker that reads it.         *)

Readers(c) == {p \in Projects : credential[p] = c}

\* perform_reauthorization: a login produced material, and no project that
\* reads the credential has a run in flight.  Every one must be describable.
SwapBegins(c) ==
  /\ begin_worker_change(Readers(c)) /\ \A p \in Readers(c) : Bound(p)
  /\ loop = Idle /\ commands < MaxCommands
  /\ commands' = commands + 1
  /\ mats' = mats + 1
  /\ loop' = [Idle EXCEPT !.op = "swap", !.step = "stop", !.cred = c, !.ps = Readers(c),
                          !.was = Active(Readers(c))]
  /\ UNCHANGED <<operatorVars, rowVars, homeVars, unit, live, aside, proven, inRun, faults,
                 deaths>>

\* All of them are stopped before the file moves; one that will not stop ends
\* the attempt with those before it down.
SwapStops ==
  /\ At({"swap"}, "stop")
  /\ \/ Works /\ stop(loop.was) /\ Step("aside")
     \/ /\ loop.was # {} /\ Fails /\ Done
        /\ \E S \in SUBSET loop.was : S # loop.was /\ stop(S)
  /\ UNCHANGED <<operatorVars, rowVars, homeVars, swapVars, inRun, commands, deaths>>

\* Mutant: an earlier swap does not matter.
SwapAsideAgain ==
  /\ At({"swap"}, "aside")
  /\ \/ /\ Works /\ Step("in")
        /\ aside' = [aside EXCEPT ![loop.cred] = live[loop.cred]]
        /\ live' = [live EXCEPT ![loop.cred] = 0]
     \/ Fails /\ Step("restart") /\ UNCHANGED <<live, aside>>
  /\ UNCHANGED <<operatorVars, rowVars, homeVars, unit, mats, proven, inRun, commands, deaths>>

\* swap_in: refused while an earlier swap waits to be accepted; the old store
\* is moved aside first ...
SwapAside ==
  /\ At({"swap"}, "aside")
  /\ \/ aside[loop.cred] # 0 /\ Works /\ Step("restart") /\ UNCHANGED <<live, aside>>
     \/ /\ aside[loop.cred] = 0 /\ Works /\ Step("in")
        /\ aside' = [aside EXCEPT ![loop.cred] = live[loop.cred]]
        /\ live' = [live EXCEPT ![loop.cred] = 0]
     \/ aside[loop.cred] = 0 /\ Fails /\ Step("restart") /\ UNCHANGED <<live, aside>>
  /\ UNCHANGED <<operatorVars, rowVars, homeVars, unit, mats, proven, inRun, commands, deaths>>

\* ... and the new one renamed in second.
SwapIn ==
  /\ At({"swap"}, "in")
  /\ \/ Works /\ Step("start") /\ live' = [live EXCEPT ![loop.cred] = mats]
     \/ Fails /\ Step("restart") /\ UNCHANGED live
  /\ UNCHANGED <<operatorVars, rowVars, homeVars, unit, aside, mats, proven, inRun, commands,
                 deaths>>

\* start_and_prove: the same workers, each answering on a new process.
SwapStarts ==
  /\ At({"swap"}, "start")
  /\ \/ /\ start(loop.was) /\ Works /\ Step("accept")
        /\ proven' = [proven EXCEPT ![loop.cred] = live[loop.cred]]
     \/ /\ loop.was # {} /\ Fails /\ Step("undo")
        /\ \E S \in SUBSET loop.was : start(S)
        /\ UNCHANGED proven
  /\ UNCHANGED <<operatorVars, rowVars, homeVars, live, aside, mats, inRun, commands, deaths>>

\* roll_back, after a stop whose errors are ignored: the new store goes, and
\* with nothing aside it stays and the workers stay down.
SwapUndoes ==
  /\ At({"swap"}, "undo")
  /\ \/ Works /\ stop(loop.ps)
     \/ /\ "ignored" \in Hazards /\ Fails
        /\ \E S \in SUBSET loop.ps : S # loop.ps /\ stop(S)
  /\ IF aside[loop.cred] = 0 THEN Done /\ UNCHANGED live
     ELSE Step("back") /\ live' = [live EXCEPT ![loop.cred] = 0]
  /\ UNCHANGED <<operatorVars, rowVars, homeVars, aside, mats, proven, inRun, commands, deaths>>

SwapBack ==
  /\ At({"swap"}, "back")
  /\ \/ /\ Works /\ Step("restart")
        /\ live' = [live EXCEPT ![loop.cred] = aside[loop.cred]]
        /\ aside' = [aside EXCEPT ![loop.cred] = 0]
     \/ Fails /\ Done /\ UNCHANGED <<live, aside>>
  /\ UNCHANGED <<operatorVars, rowVars, homeVars, unit, mats, proven, inRun, commands, deaths>>

\* restart_all: each on its own.
SwapRestarts ==
  /\ At({"swap"}, "restart")
  /\ Done
  /\ \/ start(loop.was) /\ Works
     \/ loop.was # {} /\ Fails /\ \E S \in SUBSET loop.was : start(S)
  /\ UNCHANGED <<operatorVars, rowVars, homeVars, swapVars, inRun, commands, deaths>>

\* accept: the old store is removed once every worker is proven.
SwapAccepts ==
  /\ At({"swap"}, "accept")
  /\ Done
  /\ \/ Works /\ aside' = [aside EXCEPT ![loop.cred] = 0]
     \/ Fails /\ UNCHANGED aside
  /\ UNCHANGED <<operatorVars, rowVars, homeVars, unit, live, mats, proven, inRun, commands,
                 deaths>>

-----------------------------------------------------------------------------
(* The operator, runs, and the end of the world.                           *)

\* `project unregister`: refused under a run.  The row goes, and with it the
\* credential, the model and the claim to a port; home, link and unit stay.
Unregister(p) ==
  /\ "operator" \in Hazards /\ commands < MaxCommands
  /\ profile[p] # "absent" /\ ~inRun[p]
  /\ commands' = commands + 1
  /\ profile' = [profile EXCEPT ![p] = "absent"]
  /\ endpoint' = [endpoint EXCEPT ![p] = NoPort]
  /\ bound' = [bound EXCEPT ![p] = FALSE]
  /\ suspended' = [suspended EXCEPT ![p] = FALSE]
  /\ credential' = [credential EXCEPT ![p] = NoCredential]
  /\ model' = [model EXCEPT ![p] = DefaultModel]
  /\ manual' = [manual EXCEPT ![p] = FALSE]
  /\ forgotten' = forgotten \union {p}
  /\ UNCHANGED <<homeVars, unit, swapVars, inRun, loop, faults, deaths>>

\* `project register`, with or without --runtime-endpoint: an endpoint is
\* taken as it is given, whoever else has it.
RegisterByHand(p, e) ==
  /\ "operator" \in Hazards /\ commands < MaxCommands
  /\ profile[p] = "absent"
  /\ commands' = commands + 1
  /\ profile' = [profile EXCEPT ![p] = "pending"]
  /\ endpoint' = [endpoint EXCEPT ![p] = e]
  /\ manual' = [manual EXCEPT ![p] = TRUE]
  /\ UNCHANGED <<bound, suspended, credential, model, forgotten, homeVars, unit, swapVars, inRun,
                 loop, faults, deaths>>

\* create_run and credential_run_guard, under the lock the run is created under.
RunStarts(p) ==
  /\ profile[p] # "absent" /\ ~suspended[p] /\ ~Changing(p) /\ ~inRun[p]
  /\ credential[p] # NoCredential => Linked(p)
  /\ inRun' = [inRun EXCEPT ![p] = TRUE]
  /\ UNCHANGED <<operatorVars, rowVars, homeVars, unit, swapVars, loop, countVars>>

RunEnds(p) ==
  /\ inRun[p]
  /\ inRun' = [inRun EXCEPT ![p] = FALSE]
  /\ UNCHANGED <<operatorVars, rowVars, homeVars, unit, swapVars, loop, countVars>>

\* reconcile_workers takes every project that is ready and awake.
BootList == {p \in Projects : profile[p] = "ready" /\ ~suspended[p]}
Boot == IF BootList = {} THEN Idle ELSE [Idle EXCEPT !.op = "boot", !.step = "up", !.ps = BootList]

\* The daemon dies; its units and their runs go on, and it starts again.
Crash ==
  /\ "crash" \in Hazards /\ deaths < MaxDeaths
  /\ deaths' = deaths + 1
  /\ loop' = Boot
  /\ UNCHANGED <<operatorVars, rowVars, homeVars, unit, swapVars, inRun, commands, faults>>

\* The host goes down with units and runs.
Reboot ==
  /\ "reboot" \in Hazards /\ deaths < MaxDeaths
  /\ deaths' = deaths + 1
  /\ unit' = [p \in Projects |-> Off]
  /\ inRun' = [p \in Projects |-> FALSE]
  /\ loop' = Boot
  /\ UNCHANGED <<operatorVars, rowVars, homeVars, swapVars, commands, faults>>

Next ==
  \/ \E p \in Projects :
       \/ ProvisionBegins(p) \/ PrepareWorkspace(p) \/ Register(p) \/ Reserve(p) \/ Build(p) \/ Bind(p)
       \/ EnsureUp(p) \/ EnsureHealthy(p)
       \/ SuspendBegins(p) \/ SuspendFlag(p) \/ SuspendStop(p) \/ Resume(p)
       \/ \E c \in Stores : AssignBegins(p, c)
       \/ \E m \in Models : ModelBegins(p, m)
       \/ ChangeStops(p) \/ ChangeWrites(p) \/ ChangeRecords(p) \/ ChangeStarts(p)
       \/ ChangeUnwrites(p) \/ ChangeUnrecords(p) \/ ChangeRestarts(p)
       \/ RunStarts(p) \/ RunEnds(p)
       \/ Unregister(p) \/ \E e \in Ports \union {NoPort} : RegisterByHand(p, e)
  \/ \E c \in Credentials : SwapBegins(c)
  \/ Unchanged
  \/ SwapStops \/ SwapAside \/ SwapIn \/ SwapStarts \/ SwapUndoes \/ SwapBack \/ SwapRestarts
  \/ SwapAccepts
  \/ Crash \/ Reboot

Spec == Init /\ [][Next]_vars

-----------------------------------------------------------------------------
(* Properties.                                                             *)

\* A project's endpoint is where its own home listens, and no other project's
\* row or home names that port: what one project asks never reaches the worker
\* of another (reserve_endpoint, release_endpoint).  Two rows can share a port
\* only if an operator wrote one of them, and a home can be at odds with the
\* rows only if its project was unregistered.
OwnEndpoint ==
  \A p, q \in Projects :
    /\ p \notin forgotten /\ home[p] # NoPort => endpoint[p] = home[p]
    /\ p # q /\ endpoint[p] # NoPort /\ ~manual[p] /\ ~manual[q] =>
         /\ endpoint[p] # endpoint[q]
         /\ q \notin forgotten => endpoint[p] # home[q]

\* Whenever the loop is at rest, whatever failed or died before, a running
\* worker serves from the credential its project is recorded to use, and from
\* the material that credential holds, as long as the project was never
\* unregistered.
ServesAssigned ==
  loop = Idle => \A p \in Projects \ forgotten : unit[p].on =>
    /\ unit[p].cred = credential[p]
    /\ credential[p] # NoCredential => unit[p].mat = live[credential[p]]

\* The material a credential's workers were last proven on is never lost: it
\* is in place or set aside, through every failure and death (swap_in,
\* roll_back, accept).
ProvenKept == \A c \in Credentials : proven[c] \in {live[c], aside[c]}

\* No worker is stopped or replaced under a run (begin_credential_change
\* against credential_run_guard).
UndisturbedRuns ==
  [][\A p \in Projects : inRun[p] /\ inRun'[p] /\ unit[p].on => unit'[p] = unit[p]]_vars
=============================================================================
