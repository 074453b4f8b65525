----------------------------- MODULE NodeUpdate -----------------------------
(***************************************************************************)
(* Installing, updating and repairing a Node.  A release is a Node binary  *)
(* and a runtime tree, with the configuration generated for them; the      *)
(* processes (the Node, the host's Hermes, the project workers) run from   *)
(* those files.  An operator runs `node install`, `node update` and        *)
(* `node repair`; the Control Plane, or `node request-update`, asks a root *)
(* unit for an update.  An update replaces the binary, becomes it,         *)
(* replaces the runtime, restarts everything, proves it, and either        *)
(* commits or puts it all back (src/src/main.rs, nodeinstall.rs,           *)
(* updatefinish.rs, convergence.rs).                                       *)
(* What it did travels as a journal on disk that whichever daemon runs     *)
(* next forwards (updateop.rs, control.rs), and the Control Plane decides  *)
(* how the operation ended (node-updates.ts, node-update-repository.ts).   *)
(*                                                                         *)
(* An action is one effect on the host.  Between any two of them workers   *)
(* are woken or put to sleep by the running Node, the power may fail, and  *)
(* the updater alone may be killed.  Nothing in the code keeps an          *)
(* operator's verb from running beside the unit; here one waits for the    *)
(* other.                                                                  *)
(***************************************************************************)
EXTENDS Integers, Sequences

CONSTANTS
  Releases,    \* releases that are published
  None,        \* no release: the file or the process is not there
  Workers,     \* project workers, as the registry names them
  MaxOps,      \* bound: update operations created
  MaxAttempts, \* bound: installs, repairs and updates together
  MaxFaults,   \* bound: how many effects fail
  MaxCrashes,  \* bound: power losses, killed updaters, lost connections and failed rollbacks
  Hazards      \* which of AllHazards the environment may show

\* effects   fetching, writing, renaming, starting or proving may fail
\* capture   so may reading the configuration that is to be restored
\* crash     the power fails, or the updater is killed
\* drop      the connection to the Control Plane breaks
\* rollback  so may deleting a new runtime, or renaming the old one back
AllHazards == {"effects", "capture", "crash", "drop", "rollback"}

ASSUME NoneAssumption == None \notin Releases
ASSUME BoundsAssumption == {MaxOps, MaxAttempts, MaxFaults, MaxCrashes} \subseteq Nat
ASSUME HazardsAssumption == Hazards \subseteq AllHazards

Ops == 1..MaxOps
NoOp == 0
Maybe == Releases \union {None}

\* ConfigSnapshot: what an update saves of the configuration and puts back.
Configs == [env : Maybe, mode : Maybe, units : Maybe]
Written(r) == [env |-> r, mode |-> r, units |-> r]

\* UpdateRequest: the release, and the operation if the Control Plane asked.
Requests == [op : Ops \union {NoOp}, release : Maybe]
NoRequest == [op |-> NoOp, release |-> None]

VARIABLES
  binary,    \* the installed Node binary
  runtime,   \* the tree at /opt/asterism
  retired,   \* the tree moved to .asterism-previous
  config,    \* which release wrote the environment, the journal mode and the units
  node,      \* the release the Node process executes
  hermes,    \* the runtime the host's Hermes executes
  worker,    \* the runtime each project worker executes
  awake,     \* workers whose project is not suspended
  request,   \* the update request on disk
  upd,       \* the process of an install, an update or a repair
  journal,   \* the events recorded for an operation
  acked,     \* how many of them the Node knows to be delivered
  stage,     \* the operation at the Control Plane
  wanted,    \* the release it asks for
  heard,     \* how many of its events the Control Plane has received
  sent,      \* operations whose command the Node has answered
  session,   \* the Node's connection
  ops, verbs, faults, crashes,
  proven,      \* history: the runtime that was last proven to serve
  interrupted, \* history: an updater died, or gave up, and left an unproven runtime in place
  overtaken    \* history: proven operations after which an operator set out for a release

fileVars == <<binary, runtime, retired, config>>
procVars == <<node, hermes, worker, awake>>
planeVars == <<stage, wanted, heard, sent, ops>>
countVars == <<verbs, faults, crashes>>
histVars == <<proven, interrupted, overtaken>>
vars == <<fileVars, procVars, request, upd, journal, acked, planeVars, session, countVars,
          histVars>>

Live == {"queued", "accepted", "applying", "awaiting_reconnect"}
Ended == {"succeeded", "failed", "timed_out"}
Idle == [step |-> "idle", verb |-> "none", unit |-> FALSE, op |-> NoOp, target |-> None,
         handed |-> FALSE, parked |-> None, displaced |-> {}, captured |-> FALSE,
         saved |-> Written(None), swap |-> FALSE, restarted |-> FALSE, clean |-> TRUE,
         before |-> <<None, None, Written(None)>>]
Down == [up |-> FALSE, release |-> None, after |-> {}]
Steps == {"idle", "consume", "handover", "begin", "recover", "fetch", "verify", "prepare",
          "unpack", "aside", "in", "env", "mode", "units", "self", "enroll", "start",
          "health", "check", "converge", "commit",
          "report", "undo", "undo_files", "undo_units", "judge", "undo_workers"}

\* Every variable has the type its file, process, row or message gives it.
TypeOK ==
  /\ {binary, runtime, retired, node, hermes, proven} \subseteq Maybe
  /\ config \in Configs
  /\ worker \in [Workers -> Maybe] /\ awake \in SUBSET Workers
  /\ request \in Requests
  /\ upd \in [step : Steps, verb : {"none", "install", "update", "repair"}, unit : BOOLEAN,
              op : Ops \union {NoOp}, target : Maybe, handed : BOOLEAN, parked : Maybe,
              displaced : SUBSET Workers, captured : BOOLEAN, saved : Configs, swap : BOOLEAN,
              restarted : BOOLEAN, clean : BOOLEAN, before : Maybe \X Maybe \X Configs]
  /\ journal \in [Ops -> Seq([state : {"progress", "complete", "restored", "incomplete"},
                            services : SUBSET Workers])]
  /\ \A o \in Ops : {acked[o], heard[o]} \subseteq 0..Len(journal[o])
  /\ acked \in [Ops -> Nat] /\ heard \in [Ops -> Nat]
  /\ stage \in [Ops -> {"none"} \union Live \union Ended]
  /\ wanted \in [Ops -> Maybe] /\ sent \in SUBSET Ops
  /\ session \in [up : BOOLEAN, release : Maybe, after : SUBSET Ops]
  /\ ops \in 0..MaxOps /\ verbs \in 0..MaxAttempts
  /\ faults \in 0..MaxFaults /\ crashes \in 0..MaxCrashes
  /\ interrupted \in BOOLEAN /\ overtaken \in SUBSET Ops

\* A host with nothing of this program on it.
Init ==
  /\ binary = None /\ runtime = None /\ retired = None
  /\ config = Written(None)
  /\ node = None /\ hermes = None /\ worker = [w \in Workers |-> None] /\ awake = {}
  /\ request = NoRequest /\ upd = Idle
  /\ journal = [o \in Ops |-> <<>>] /\ acked = [o \in Ops |-> 0]
  /\ stage = [o \in Ops |-> "none"] /\ wanted = [o \in Ops |-> None]
  /\ heard = [o \in Ops |-> 0] /\ sent = {} /\ ops = 0
  /\ session = Down /\ verbs = 0 /\ faults = 0 /\ crashes = 0
  /\ proven = None /\ interrupted = FALSE /\ overtaken = {}

-----------------------------------------------------------------------------
(* The pieces the steps are made of.                                       *)

At(s) == upd.step = s
Goto(s) == upd' = [upd EXCEPT !.step = s]
Fails == "effects" \in Hazards /\ faults < MaxFaults /\ faults' = faults + 1
Still == UNCHANGED <<request, acked, planeVars, verbs>>
Quiet == Still /\ UNCHANGED crashes

\* hostsetup::inspect, as far as the verbs ask it.
Installed == binary # None /\ config.env # None

\* active_project_workers: read before anything moves.
active_project_workers == {w \in Workers : worker[w] # None}

\* PreviousBinary: the copy the first half kept, if there was a first half.  It
\* stays beside the binary, and is read by the process handed over to alone.
PreviousBinary == IF upd.handed THEN upd.parked ELSE binary

\* UpdateGuard::abandon and the exits beside it: an update puts everything
\* back, an install or a repair only a runtime that was swapped.
abandon(swap, restarted) ==
  upd' = IF upd.verb = "update" \/ swap
         THEN [upd EXCEPT !.step = "undo", !.swap = swap, !.restarted = restarted]
         ELSE Idle

\* Journal::append_outcome and Reporter::stage, silent without an operation.
\* The evidence names the workers that were proven.
Record(e) ==
  journal' = IF upd.op = NoOp THEN journal
             ELSE [journal EXCEPT ![upd.op] = Append(@, [state |-> e, services |->
                     IF e = "complete" THEN upd.displaced ELSE {}])]

\* RuntimeSwap::roll_back: the new runtime is deleted and the old one renamed
\* back, or, with none to put back, the new one taken out of the way.  Both
\* errors are ignored: what could not be deleted stays in place, as a rename
\* onto it fails, and what could not be renamed stays moved aside.
RollBack ==
  \/ runtime' = retired /\ retired' = None /\ UNCHANGED <<interrupted, crashes>>
  \/ /\ "rollback" \in Hazards /\ crashes < MaxCrashes /\ crashes' = crashes + 1
     /\ runtime' \in {upd.target, None} /\ UNCHANGED retired
     /\ interrupted' = (interrupted \/ runtime' # None)

\* Operations whose evidence is on the host's disk.
Evident == {o \in Ops : \E k \in 1..Len(journal[o]) : journal[o][k].state = "complete"}

\* The daemon's boot starts the workers of projects that are not suspended.
BootWorkers ==
  worker' = [w \in Workers |-> IF w \in awake /\ worker[w] = None THEN runtime ELSE worker[w]]

\* convergence::converge over the services an update answers for: each is
\* active and executes the file that is installed now.
Converged ==
  /\ upd.verb = "update" => node = binary /\ hermes = runtime
  /\ runtime # None
  /\ \A w \in upd.displaced : worker[w] = runtime

-----------------------------------------------------------------------------
(* Asking for it.                                                          *)

\* `node install` on a bare host, `node update` and `node repair` on one that
\* is not.  The release r is the one of the binary that is run, a downloaded
\* one perhaps, or the one --version names; then the installed binary is
\* replaced by it first.  (An install's hand-over replaces only the download.)
run_lifecycle(verb, r) ==
  /\ At("idle") /\ ops + verbs < MaxAttempts
  /\ Installed <=> verb # "install"
  /\ verbs' = verbs + 1
  /\ \E half \in {"handover", "begin"} :
       /\ half = "handover" => verb # "install" /\ r # binary
       /\ upd' = [Idle EXCEPT !.step = half, !.verb = verb, !.target = r]
  /\ overtaken' = IF verb = "repair" /\ r = binary THEN overtaken
                  ELSE overtaken \union Evident
  /\ UNCHANGED <<fileVars, procVars, request, journal, acked, planeVars, session, faults,
                 crashes, proven, interrupted>>

\* POST /update: one live operation at a time.
RequestUpdate(r) ==
  /\ ops < MaxOps /\ ops + verbs < MaxAttempts /\ session.up
  /\ \A o \in Ops : stage[o] \notin Live
  /\ ops' = ops + 1
  /\ stage' = [stage EXCEPT ![ops + 1] = "queued"]
  /\ wanted' = [wanted EXCEPT ![ops + 1] = r]
  /\ UNCHANGED <<fileVars, procVars, request, upd, journal, acked, heard, sent, session,
                 countVars, histVars>>

\* UpdateRequest::new and write: one request on disk, the latest.
write_request(o, r) == request' = [op |-> o, release |-> r]

\* consume: the request is gone before anything is done about it.
consume == request' = NoRequest

\* updaterequest::request: the request is written and the unit started, which
\* does nothing if it is active; when it cannot be started the request is
\* taken away.
updaterequest_request(o, r) ==
  /\ At("idle") \/ upd.unit
  /\ \/ /\ write_request(o, r) /\ UNCHANGED faults
        /\ upd' = IF At("idle") THEN [Idle EXCEPT !.step = "consume", !.unit = TRUE] ELSE upd
     \/ Fails /\ request' = NoRequest /\ UNCHANGED upd

\* node.update.  A refusal is something the operation does not hear of.
ReceiveUpdate(o) ==
  /\ session.up /\ o \in 1..ops \ sent /\ \A q \in 1..(o - 1) : q \in sent
  /\ sent' = sent \union {o}
  /\ updaterequest_request(o, wanted[o])
  /\ stage' = IF request' # NoRequest /\ stage[o] = "queued"
              THEN [stage EXCEPT ![o] = "accepted"] ELSE stage
  /\ UNCHANGED <<fileVars, procVars, journal, acked, wanted, heard, ops, session, verbs,
                 crashes, histVars>>

\* `node request-update`: the same, for no operation.
request_update(r) ==
  /\ config.units # None /\ ops + verbs < MaxAttempts
  /\ verbs' = verbs + 1
  /\ updaterequest_request(NoOp, r)
  /\ overtaken' = IF At("idle") THEN overtaken \union Evident ELSE overtaken
  /\ UNCHANGED <<fileVars, procVars, journal, acked, planeVars, session, crashes, proven,
                 interrupted>>

-----------------------------------------------------------------------------
(* The first half of an update.                                            *)

\* apply_update: a binary of another release hands the update over; with no
\* request there is nothing to do.
apply_update ==
  /\ At("consume") /\ consume
  /\ upd' = IF request = NoRequest THEN Idle
            ELSE [Idle EXCEPT !.verb = "update", !.unit = TRUE, !.op = request.op,
                    !.target = request.release,
                    !.step = IF request.release # binary THEN "handover" ELSE "begin",
                    !.before = <<binary, runtime, config>>]
  /\ UNCHANGED <<fileVars, procVars, journal, acked, planeVars, session, countVars, histVars>>

\* hand_over_to: fetched and verified, the running binary is kept beside, and
\* the new one is renamed over it and executed.  An error ends the process
\* there and then: the journal has no event, and a binary that could not be
\* executed stays in place.
hand_over_to ==
  /\ At("handover")
  /\ \/ /\ binary' = upd.target /\ UNCHANGED faults
        /\ upd' = [upd EXCEPT !.step = "begin", !.handed = TRUE, !.parked = binary]
     \/ Fails /\ upd' = Idle /\ binary' \in {binary, upd.target}
  /\ UNCHANGED <<runtime, retired, config, procVars, journal, session, histVars>>
  /\ Quiet

-----------------------------------------------------------------------------
(* The second half, and the whole of an install or a repair.               *)

\* UpdateGuard::new, preflight and active_project_workers.
Begin ==
  /\ At("begin")
  /\ Record("progress")
  /\ \E kept \in BOOLEAN :
       /\ kept => upd.verb = "update"
       /\ ~kept => upd.verb # "update" \/ "capture" \in Hazards
       /\ LET guarded == [upd EXCEPT !.captured = kept, !.saved = IF kept THEN config ELSE @]
          IN \/ /\ upd' = [guarded EXCEPT !.step = "recover",
                             !.displaced = active_project_workers]
                /\ UNCHANGED faults
             \/ /\ Fails
                /\ upd' = IF upd.verb = "update" THEN [guarded EXCEPT !.step = "undo"] ELSE Idle
  /\ UNCHANGED <<fileVars, procVars, session, histVars>> /\ Quiet

\* Mutant: what was moved aside is cleared away before a missing runtime is put back.
recover_by_clearing ==
  /\ At("recover")
  /\ runtime' = runtime /\ retired' = None
  /\ Goto("fetch")
  /\ UNCHANGED <<binary, config, procVars, journal, session, faults, histVars>>
  /\ Quiet

\* A runtime stranded between two renames is put back; anything else that was
\* moved aside is deleted.
recover_from_interrupted_install ==
  /\ At("recover")
  /\ \/ /\ runtime' = IF runtime = None THEN retired ELSE runtime
        /\ retired' = None
        /\ upd' = [upd EXCEPT !.step = "fetch", !.before = <<@[1], runtime', @[3]>>]
        /\ UNCHANGED faults
     \/ Fails /\ abandon(FALSE, FALSE) /\ UNCHANGED <<runtime, retired>>
  /\ UNCHANGED <<binary, config, procVars, journal, session, histVars>>
  /\ Quiet

\* A step that leaves nothing behind: it leads to the next one, or abandons.
Prepare(here, there) ==
  /\ At(here)
  /\ \/ Goto(there) /\ UNCHANGED faults
     \/ Fails /\ abandon(FALSE, FALSE)
  /\ UNCHANGED <<fileVars, procVars, journal, session, histVars>> /\ Quiet

\* fetch_manifest and download_bundle, into a staging directory.
download_bundle == Prepare("fetch", "verify")

\* Manifest::accept and verify: the platform, the schema and every digest.
verify_bundle == Prepare("verify", IF upd.verb = "repair" THEN "unpack" ELSE "prepare")

\* ensure_prerequisites: packages, the service account, Docker.
ensure_prerequisites == Prepare("prepare", "unpack")

\* unpack, into .asterism-incoming.
unpack == Prepare("unpack", "aside")

\* install_runtime: the live tree is renamed aside ...
SwapAside ==
  /\ At("aside")
  /\ retired' = runtime /\ runtime' = None
  /\ Goto("in")
  /\ UNCHANGED <<binary, config, procVars, journal, session, faults, histVars>> /\ Quiet

\* ... the new one renamed in.  If that fails, or the new runtime does not
\* start at all, it is undone before the error is returned.
SwapIn ==
  /\ At("in")
  /\ \/ /\ runtime' = upd.target /\ UNCHANGED <<retired, faults, interrupted, crashes>>
        /\ upd' = [upd EXCEPT !.step = "env", !.swap = TRUE]
     \/ Fails /\ RollBack /\ abandon(FALSE, FALSE)
  /\ UNCHANGED <<binary, config, procVars, journal, session, proven, overtaken>> /\ Still

\* write_configuration, a part at a time.  An error leaves what was written,
\* and dropping the swap rolls the runtime back.
Write(here, there, after) ==
  /\ At(here)
  /\ \/ /\ config' = after /\ Goto(there)
        /\ UNCHANGED <<runtime, retired, faults, interrupted, crashes>>
     \/ Fails /\ UNCHANGED config /\ RollBack /\ abandon(FALSE, FALSE)
  /\ UNCHANGED <<binary, procVars, journal, session, proven, overtaken>> /\ Still

\* The directories, the registry's mode, the host credential and write_env_file.
write_env_file == Write("env", "mode", [config EXCEPT !.env = upd.target])

\* reconcile_journal_mode: what the SQLite of this runtime supports.
reconcile_journal_mode == Write("mode", "units", [config EXCEPT !.mode = upd.target])

\* The units and the sudoers policy, from the templates of the running binary.
write_units == Write("units", "self", [config EXCEPT !.units = upd.target])

\* install_self: the running binary is what is installed from here on.
install_self ==
  /\ At("self")
  /\ \/ /\ binary' = upd.target /\ UNCHANGED faults
        /\ Goto(IF upd.verb = "install" THEN "enroll" ELSE "start")
     \/ Fails /\ UNCHANGED binary /\ abandon(TRUE, FALSE)
  /\ UNCHANGED <<runtime, retired, config, procVars, journal, session, histVars>> /\ Quiet

\* enroll_during_install.  A refusal exits with everything left in place.
EnrollDuring ==
  /\ At("enroll")
  /\ \/ Goto("start") /\ UNCHANGED faults
     \/ Fails /\ upd' = Idle
  /\ UNCHANGED <<fileVars, procVars, journal, session, histVars>> /\ Quiet

\* start_services restarts Hermes, then the Node, whose boot sees to its workers.
start_services ==
  /\ At("start")
  /\ \/ /\ hermes' = runtime /\ node' = binary /\ BootWorkers /\ session' = Down
        /\ Goto("health") /\ UNCHANGED faults
     \/ /\ Fails /\ hermes' \in {hermes, runtime} /\ UNCHANGED <<node, worker, session>>
        /\ abandon(TRUE, TRUE)
  /\ UNCHANGED <<fileVars, awake, journal, histVars>> /\ Quiet

\* wait_until_healthy.
wait_until_healthy ==
  /\ At("health")
  /\ \/ /\ node # None /\ UNCHANGED faults
        /\ Goto(IF upd.verb = "update" \/ upd.displaced # {} THEN "check" ELSE "commit")
     \/ node = None /\ UNCHANGED faults /\ abandon(TRUE, TRUE)
     \/ Fails /\ abandon(TRUE, TRUE)
  /\ UNCHANGED <<fileVars, procVars, journal, session, histVars>> /\ Quiet

\* verify_installation: the installed binary and the marker of the runtime are
\* the target's, then every displaced worker is restarted.
verify_installation ==
  /\ At("check")
  /\ \/ /\ binary = upd.target /\ runtime = upd.target
        /\ worker' = [w \in Workers |-> IF w \in upd.displaced THEN runtime ELSE worker[w]]
        /\ Goto("converge") /\ UNCHANGED faults
     \/ /\ Fails /\ abandon(TRUE, TRUE)
        /\ \E some \in SUBSET upd.displaced :
             worker' = [w \in Workers |-> IF w \in some THEN runtime ELSE worker[w]]
  /\ UNCHANGED <<fileVars, node, hermes, awake, journal, session, histVars>> /\ Quiet

\* converge: every service holds, or one did not in the time allowed.
Converge ==
  /\ At("converge")
  /\ \/ Converged /\ Goto("commit") /\ UNCHANGED faults
     \/ ~Converged /\ abandon(TRUE, TRUE) /\ UNCHANGED faults
     \/ Fails /\ abandon(TRUE, TRUE)
  /\ UNCHANGED <<fileVars, procVars, journal, session, histVars>> /\ Quiet

\* RuntimeSwap::commit: only now is the replaced runtime deleted.
Commit ==
  /\ At("commit")
  /\ retired' = None /\ proven' = runtime /\ interrupted' = FALSE /\ UNCHANGED overtaken
  /\ upd' = [upd EXCEPT !.step = "report", !.swap = FALSE]
  /\ UNCHANGED <<binary, runtime, config, procVars, journal, session, faults>>
  /\ Quiet

\* Reporter::complete_verified.
Report ==
  /\ At("report")
  /\ Record("complete")
  /\ upd' = Idle
  /\ UNCHANGED <<fileVars, procVars, session, faults, histVars>> /\ Quiet

-----------------------------------------------------------------------------
(* restore_previous_installation, and restore_previous_runtime for the     *)
(* other verbs.                                                            *)

\* RuntimeSwap::roll_back_now.
roll_back ==
  /\ At("undo")
  /\ IF upd.swap THEN RollBack ELSE UNCHANGED <<runtime, retired, interrupted, crashes>>
  /\ Goto(IF upd.verb = "update" THEN "undo_files" ELSE "undo_workers")
  /\ UNCHANGED <<binary, config, procVars, journal, session, faults, proven, overtaken>>
  /\ Still

\* Mutant: the binary of the first half is not put back.
restore_configuration ==
  /\ At("undo_files")
  /\ config' = (IF upd.captured THEN upd.saved ELSE config)
  /\ Goto("undo_units")
  /\ UNCHANGED <<binary, faults, runtime, retired, procVars, journal, session, histVars>>
  /\ Quiet

\* ConfigSnapshot::restore and PreviousBinary::restore; what fails is a problem
\* the outcome remembers.
restore_files ==
  /\ At("undo_files")
  /\ \/ /\ config' = IF upd.captured THEN upd.saved ELSE config
        /\ binary' = PreviousBinary
        /\ Goto("undo_units") /\ UNCHANGED faults
     \/ /\ Fails
        /\ upd' = [upd EXCEPT !.step = "undo_units", !.clean = FALSE]
        /\ \/ upd.captured /\ UNCHANGED config
              /\ binary' = PreviousBinary
           \/ upd.handed /\ UNCHANGED binary
              /\ config' = IF upd.captured THEN upd.saved ELSE config
  /\ UNCHANGED <<runtime, retired, procVars, journal, session, histVars>> /\ Quiet

\* The units are restarted onto what was restored if anything was touched, the
\* workers if the runtime was.
restart_units ==
  /\ At("undo_units")
  /\ IF upd.restarted \/ upd.swap \/ upd.handed
     THEN /\ hermes' = runtime /\ node' = binary /\ session' = Down
          /\ worker' = [w \in Workers |->
               IF \/ w \in upd.displaced /\ (upd.restarted \/ upd.swap)
                  \/ w \in awake /\ worker[w] = None
               THEN runtime ELSE worker[w]]
     ELSE UNCHANGED <<hermes, node, session, worker>>
  /\ Goto("judge")
  /\ UNCHANGED <<fileVars, awake, journal, faults, histVars>> /\ Quiet

\* The services are watched on what was restored, and the failure reported
\* with how that went.
judge ==
  /\ At("judge")
  /\ \/ Record(IF upd.clean /\ Converged THEN "restored" ELSE "incomplete") /\ UNCHANGED faults
     \/ Fails /\ Record("incomplete")
  /\ upd' = Idle
  /\ UNCHANGED <<fileVars, procVars, session, histVars>> /\ Quiet

\* restore_previous_runtime: only the workers are restarted.
restore_previous_runtime ==
  /\ At("undo_workers")
  /\ worker' = [w \in Workers |-> IF w \in upd.displaced THEN runtime ELSE worker[w]]
  /\ upd' = Idle
  /\ UNCHANGED <<fileVars, node, hermes, awake, journal, session, faults, histVars>> /\ Quiet

-----------------------------------------------------------------------------
(* The host around it.                                                     *)

\* The Node wakes a worker or puts it to sleep, whatever the updater does.
Wake(w) ==
  /\ node # None /\ w \notin awake /\ runtime # None
  /\ awake' = awake \union {w} /\ worker' = [worker EXCEPT ![w] = runtime]
  /\ UNCHANGED <<fileVars, node, hermes, request, upd, journal, acked, planeVars, session,
                 countVars, histVars>>
Sleep(w) ==
  /\ node # None /\ w \in awake
  /\ awake' = awake \ {w} /\ worker' = [worker EXCEPT ![w] = None]
  /\ UNCHANGED <<fileVars, node, hermes, request, upd, journal, acked, planeVars, session,
                 countVars, histVars>>

\* systemd starts what is installed and not running.
HermesStarts ==
  /\ hermes = None /\ runtime # None /\ config.units # None
  /\ hermes' = runtime
  /\ UNCHANGED <<fileVars, node, worker, awake, request, upd, journal, acked, planeVars, session,
                 countVars, histVars>>
NodeStarts ==
  /\ node = None /\ Installed /\ config.units # None /\ At("idle")
  /\ node' = binary /\ BootWorkers
  /\ UNCHANGED <<fileVars, hermes, awake, request, upd, journal, acked, planeVars, session,
                 countVars, histVars>>

\* The power fails: every process is gone, the files stay as they are.
PowerLoss ==
  /\ "crash" \in Hazards /\ crashes < MaxCrashes /\ crashes' = crashes + 1
  /\ node' = None /\ hermes' = None /\ worker' = [w \in Workers |-> None]
  /\ upd' = Idle /\ session' = Down
  /\ interrupted' = (interrupted \/ upd.swap)
  /\ UNCHANGED <<fileVars, awake, request, journal, acked, planeVars, verbs, faults, proven,
                 overtaken>>

\* The updater is killed; what it changed so far stays.
UpdaterKilled ==
  /\ "crash" \in Hazards /\ crashes < MaxCrashes /\ crashes' = crashes + 1
  /\ ~At("idle") /\ upd' = Idle
  /\ interrupted' = (interrupted \/ upd.swap)
  /\ UNCHANGED <<fileVars, procVars, request, journal, acked, planeVars, session, verbs, faults,
                 proven, overtaken>>

-----------------------------------------------------------------------------
(* What the Control Plane learns.                                          *)

\* resolveReconnect: a reconnect decides only an operation with evidence.
resolveReconnect(o, r) ==
  IF stage[o] # "awaiting_reconnect" THEN stage[o]
  ELSE IF r = wanted[o] THEN "succeeded" ELSE "failed"

\* The Node authenticates, and says which release it is.
Connect ==
  /\ node # None /\ ~session.up
  /\ session' = [up |-> TRUE, release |-> node, after |-> 1..ops]
  /\ stage' = [o \in Ops |-> resolveReconnect(o, node)]
  /\ UNCHANGED <<fileVars, procVars, request, upd, journal, acked, wanted, heard, sent, ops,
                 countVars, histVars>>

Disconnect ==
  /\ "drop" \in Hazards /\ crashes < MaxCrashes /\ crashes' = crashes + 1
  /\ session.up /\ session' = Down
  /\ UNCHANGED <<fileVars, procVars, request, upd, journal, acked, planeVars, verbs, faults,
                 histVars>>

\* Mutant: a decision made from the release alone, when any news arrives.
decide_on_release(o, k) ==
  IF k <= heard[o] \/ stage[o] \notin Live THEN stage[o]
  ELSE IF session.release = wanted[o] THEN "succeeded" ELSE "applying"

\* decideUpdateProgress, and resolveCompletion once the evidence is in.
decideUpdateProgress(o, k) ==
  IF k <= heard[o] \/ stage[o] \notin Live THEN stage[o]
  ELSE CASE journal[o][k].state = "progress" -> "applying"
         [] journal[o][k].state = "complete" ->
              IF session.release = wanted[o] /\ o \in session.after THEN "succeeded"
              ELSE "awaiting_reconnect"
         [] OTHER -> "failed"

\* undelivered: what the cursor on disk has not passed, in order.
undelivered(o) == (acked[o] + 1)..Len(journal[o])

\* flush_update_progress: what is not known to be delivered is sent, in order.
\* The acknowledgement is lost with the connection; events sent again while it
\* is only slow change nothing and are left out.
flush_update_progress(o, answered) ==
  LET k == acked[o] + 1 IN
  /\ session.up /\ k \in undelivered(o)
  /\ stage' = [stage EXCEPT ![o] = decideUpdateProgress(o, k)]
  /\ heard' = [heard EXCEPT ![o] = IF k > @ THEN k ELSE @]
  /\ IF answered THEN /\ acked' = [acked EXCEPT ![o] = k] /\ UNCHANGED <<session, crashes>>
     ELSE /\ "drop" \in Hazards /\ crashes < MaxCrashes /\ crashes' = crashes + 1
          /\ session' = Down /\ UNCHANGED acked
  /\ UNCHANGED <<fileVars, procVars, request, upd, journal, wanted, sent, ops, verbs, faults,
                 histVars>>

\* sweepStalled: no news for as long as the stage allows.
sweepStalled(o) ==
  /\ stage[o] \in Live
  /\ stage' = [stage EXCEPT ![o] = "timed_out"]
  /\ UNCHANGED <<fileVars, procVars, request, upd, journal, acked, wanted, heard, sent, ops,
                 session, countVars, histVars>>

-----------------------------------------------------------------------------
UpdaterStep ==
  \/ apply_update \/ hand_over_to \/ Begin
  \/ recover_from_interrupted_install \/ download_bundle \/ verify_bundle
  \/ ensure_prerequisites \/ unpack \/ SwapAside \/ SwapIn
  \/ write_env_file \/ reconcile_journal_mode \/ write_units \/ install_self
  \/ EnrollDuring \/ start_services
  \/ wait_until_healthy \/ verify_installation \/ Converge \/ Commit \/ Report
  \/ roll_back \/ restore_files \/ restart_units \/ judge \/ restore_previous_runtime

Forward(answered) == \E o \in Ops : flush_update_progress(o, answered)

Next ==
  \/ \E verb \in {"install", "update", "repair"}, r \in Releases : run_lifecycle(verb, r)
  \/ \E r \in Releases : RequestUpdate(r) \/ request_update(r)
  \/ \E o \in Ops : ReceiveUpdate(o) \/ sweepStalled(o)
  \/ UpdaterStep
  \/ \E w \in Workers : Wake(w) \/ Sleep(w)
  \/ HermesStarts \/ NodeStarts \/ PowerLoss \/ UpdaterKilled
  \/ Connect \/ Disconnect
  \/ \E answered \in BOOLEAN : Forward(answered)

Spec == Init /\ [][Next]_vars

-----------------------------------------------------------------------------
(* What must hold.                                                         *)

\* When the Control Plane calls an update successful, the host is the release
\* it asked for throughout: binary, runtime (or moved aside, if a repair is at
\* work by then), configuration, the processes, and the workers that served
\* when the update began.  The one exception: after the evidence was recorded,
\* and before it was forwarded, an operator on the host set out for a release.
SuccessIsCoherent ==
  [][\A o \in Ops :
       stage[o] # "succeeded" /\ stage'[o] = "succeeded" /\ o \notin overtaken =>
         /\ binary = wanted[o] /\ wanted[o] \in {runtime, retired}
         /\ config = Written(wanted[o])
         /\ node = wanted[o] /\ hermes \in {wanted[o], None}
         /\ \A k \in 1..Len(journal[o]) : \A w \in journal[o][k].services :
              worker[w] \in {wanted[o], None}]_vars

\* An update that reports the previous installation restored has left the
\* binary and the configuration as it found them, and the runtime too unless
\* rolling back could not withdraw the new one, an error nobody looks at; then
\* the old one is still moved aside.
RestoredIsBack ==
  [][\A o \in Ops :
       journal'[o] # journal[o] /\ journal'[o][Len(journal'[o])].state = "restored" =>
         /\ <<binary, config>> = <<upd.before[1], upd.before[3]>>
         /\ runtime = upd.before[2] \/ (interrupted /\ retired = upd.before[2])]_vars

\* The runtime that last served is on the host, in place or moved aside, until
\* another has served; only an unproven one left in place by an updater that
\* died, or that could not withdraw it, puts it at risk.
ProvenRuntimeKept == proven # None => proven \in {runtime, retired} \/ interrupted
=============================================================================
