------------------------------ MODULE NodeRuns ------------------------------
(***************************************************************************)
(* How one project's runs are executed by the Node daemon: the service     *)
(* operations that create, cancel and retry runs (src/src/service.rs), the *)
(* worker task that owns a run (execute_run and follow_to_terminal,        *)
(* src/src/runner.rs), the reconciliation passes (reconcile_project and    *)
(* Service::reconcile), the single-flight lock and its sidecar file        *)
(* (src/src/runlock.rs), and the daemon's start, drain and death           *)
(* (src/src/daemon.rs).                                                    *)
(*                                                                         *)
(* An action is what happens between two points where another task can     *)
(* run: one registry transaction, or one answer of Hermes.  Worker and     *)
(* passes open their own database connection, so only the service          *)
(* operations exclude each other (the registry mutex, here cancelRun).     *)
(* Everything is per project: runs of different projects share no lock,    *)
(* no sidecar and no Hermes home.                                          *)
(*                                                                         *)
(* Approvals themselves are in RunApprovals; here a run merely waits.      *)
(* The journal is reduced to whether it is empty, which is all the         *)
(* decisions below read of it.                                             *)
(***************************************************************************)
EXTENDS Integers, FiniteSets, RunState

CONSTANTS
  NumRuns,      \* how many runs may ever be created
  NumPasses,    \* how many reconciliation passes may be under way at once
  MaxRestarts,  \* bound: how often the daemon stops or dies
  MaxForgets,   \* bound: how often Hermes loses its in-memory run registry
  Hazards       \* which of AllHazards the environment may show

ASSUME NumRunsAssumption == NumRuns \in Nat /\ NumRuns > 0
ASSUME NumPassesAssumption == NumPasses \in Nat /\ NumPasses > 0

\* restart_live          the daemon stops or dies while Hermes executes a run
\* crash_in_submission   the daemon dies while it hands a run to Hermes
\* cancel_in_submission  a cancel overlaps the submission of the same run
\* overlap               a pass overlaps another pass or a starting worker
\* unreachable           a status or stop request to Hermes fails
\* lost_reply            Hermes accepts a run but the answer never arrives
\* stall                 a live run shows no event for STREAM_IDLE_BUDGET
\* routing               the project's Hermes home ceases to resolve, or does again
\* unlisted              the project was registered after the daemon started
AllHazards == {"restart_live", "crash_in_submission", "cancel_in_submission", "overlap",
               "unreachable", "lost_reply", "stall", "routing", "unlisted"}

ASSUME HazardsAssumption == Hazards \subseteq AllHazards

\* Tasks are numbered: the worker of run r is task r, the passes follow.
\* Pass StartupPass is the daemon's own (at startup, then periodic); the
\* others are passes an operator asks for over the local API.
Runs == 1..NumRuns
StartupPass == NumRuns + 1
Passes == (NumRuns + 1)..(NumRuns + NumPasses)
NoRun == 0
Free == 0

VARIABLES
  status,      \* runs.status, or "absent" before the row exists
  hid,         \* runs.hermes_run_id is set
  noted,       \* runs.last_event_seq > 0
  retryOf,     \* runs.retry_of_run_id
  lock,        \* which task holds the flock on run.lock
  sidecar,     \* the run whose Hermes id is in active-run.json
  wk,          \* where the worker task of each run is
  known,       \* worker: hermes_run_id was set in the record it loaded
  obs,         \* worker: observed_status
  verdict,     \* worker: the status it is about to finalize with
  ppc,         \* where each pass is
  todo,        \* pass: runs of its snapshot still to reconcile
  psnap,       \* pass: the rows as read when the pass began
  picked,      \* pass: the resumable run it will supervise
  cancelRun,   \* the run a cancel_run call is working on
  cancelSeen,  \* that call found a hermes_run_id
  mode,        \* the daemon: down, boot, up or draining
  restarts,    \* how often it stopped
  route,       \* project_runtime finds the project's endpoint and key
  listed,      \* the project is in the list the daemon made when it started
  backend,     \* external: what Hermes knows of each run
  forgets,     \* external: how often Hermes restarted
  submits,     \* history: how often Hermes accepted this run
  final        \* history: the terminal status Hermes itself reached

registryVars == <<status, hid, noted, retryOf>>
workerVars == <<wk, known, obs, verdict>>
passVars == <<ppc, todo, psnap, picked>>
cancelVars == <<cancelRun, cancelSeen>>
settingVars == <<restarts, route, listed>>
daemonVars == <<mode, settingVars>>
hermesVars == <<backend, forgets, submits, final>>
vars == <<registryVars, lock, sidecar, workerVars, passVars, cancelVars, daemonVars, hermesVars>>

-----------------------------------------------------------------------------
Snapshot == [st : RunStatus \union {"absent"}, hid : BOOLEAN, noted : BOOLEAN]
Blank == [r \in Runs |-> [st |-> "absent", hid |-> FALSE, noted |-> FALSE]]

\* Worker locations.  In Holding the task owns the project lock.
Holding == {"admit", "refuse", "accept", "submit", "reply", "mark", "follow", "final", "clear"}
WorkerPC == Holding \union {"none", "queued", "load", "lock", "conflict", "exit"}

\* Pass locations.
PassHolding == {"park", "decide", "clear"}
PassPC == PassHolding \union {"idle", "pick", "supervise"}

\* Every variable has the type its row, file or task gives it.
TypeOK ==
  /\ status \in [Runs -> RunStatus \union {"absent"}]
  /\ hid \in [Runs -> BOOLEAN]
  /\ noted \in [Runs -> BOOLEAN]
  /\ retryOf \in [Runs -> Runs \union {NoRun}]
  /\ lock \in Runs \union Passes \union {Free}
  /\ sidecar \in Runs \union {NoRun}
  /\ wk \in [Runs -> WorkerPC]
  /\ known \in [Runs -> BOOLEAN]
  /\ obs \in [Runs -> {"running", "waiting_for_approval"}]
  /\ verdict \in [Runs -> Terminal]
  /\ ppc \in [Passes -> PassPC]
  /\ todo \in [Passes -> SUBSET Runs]
  /\ psnap \in [Passes -> [Runs -> Snapshot]]
  /\ picked \in [Passes -> Runs \union {NoRun}]
  /\ cancelRun \in Runs \union {NoRun}
  /\ cancelSeen \in BOOLEAN
  /\ mode \in {"down", "boot", "up", "draining"}
  /\ restarts \in Nat
  /\ route \in BOOLEAN
  /\ listed \in BOOLEAN
  /\ backend \in [Runs -> BackendStatus]
  /\ forgets \in Nat
  /\ submits \in [Runs -> Nat]
  /\ final \in [Runs -> BackendTerminal \union {"none"}]

\* A fresh installation: no run, the daemon in startup reconciliation, or up
\* already when the project is registered.
Init ==
  /\ status = [r \in Runs |-> "absent"]
  /\ hid = [r \in Runs |-> FALSE]
  /\ noted = [r \in Runs |-> FALSE]
  /\ retryOf = [r \in Runs |-> NoRun]
  /\ lock = Free
  /\ sidecar = NoRun
  /\ wk = [r \in Runs |-> "none"]
  /\ known = [r \in Runs |-> FALSE]
  /\ obs = [r \in Runs |-> "running"]
  /\ verdict = [r \in Runs |-> "failed"]
  /\ ppc = [p \in Passes |-> "idle"]
  /\ todo = [p \in Passes |-> {}]
  /\ psnap = [p \in Passes |-> Blank]
  /\ picked = [p \in Passes |-> NoRun]
  /\ cancelRun = NoRun
  /\ cancelSeen = FALSE
  /\ \/ mode = "boot" /\ listed = TRUE
     \/ mode = "up" /\ listed = FALSE /\ "unlisted" \in Hazards
  /\ restarts = 0
  /\ route = TRUE
  /\ backend = [r \in Runs |-> "none"]
  /\ forgets = 0
  /\ submits = [r \in Runs |-> 0]
  /\ final = [r \in Runs |-> "none"]

-----------------------------------------------------------------------------
(* The registry.                                                           *)

\* append_event without a status change.
Note(r) == noted' = [noted EXCEPT ![r] = TRUE]

\* append_event with a status change, one transaction: an invalid transition
\* rolls the event back too.
AppendUpdate(r, s) ==
  /\ status' = IF ValidTransition(status[r], s) THEN [status EXCEPT ![r] = s] ELSE status
  /\ noted' = IF ValidTransition(status[r], s) THEN [noted EXCEPT ![r] = TRUE] ELSE noted

\* Rows are created in order, so the next run is the first without a row.
NextRun(r) == status[r] = "absent" /\ \A q \in Runs : q < r => status[q] # "absent"

\* Mutant: a parked run is not listed as active.
ActiveRunsButParked == {r \in Runs : status[r] \in Active \ {"recovering"}}

\* active_runs, the rows a pass and the resumption look at.
ActiveRuns == {r \in Runs : status[r] \in Active}

IsOldest(r, S) == r \in S /\ \A q \in S : r <= q

\* What Hermes answers when asked for the status of r: unknown and forgotten
\* are the same 404, and a request may fail.
Answers(r) ==
  {IF backend[r] = "none" THEN "forgotten" ELSE backend[r]}
    \union (IF "unreachable" \in Hazards THEN {"error"} ELSE {})

\* `.await.ok().flatten()`: a failed request is read as "not found".
Flatten(a) == IF a = "error" THEN "forgotten" ELSE a

\* Release the lock if task t holds it (the guard is dropped, or the process dies).
Unlock(t) == lock' = IF lock = t THEN Free ELSE lock

Go(r, pc) == wk' = [wk EXCEPT ![r] = pc]

-----------------------------------------------------------------------------
(* Service operations.                                                     *)

Quiet == \A p \in Passes : ppc[p] = "idle"

\* create_run: refused while draining; the row is written under the registry
\* mutex and the handler goes on to supervise it.
CreateRun(r) ==
  /\ mode = "up"
  /\ cancelRun = NoRun
  /\ "overlap" \in Hazards \/ Quiet
  /\ NextRun(r)
  /\ status' = [status EXCEPT ![r] = "created"]
  /\ Go(r, "queued")
  /\ UNCHANGED <<hid, noted, retryOf, lock, sidecar, known, obs, verdict,
                 passVars, cancelVars, daemonVars, hermesVars>>

\* retry_run: a replacement for a run that ended interrupted or lost; both
\* journals name the other run.
RetryRun(q, r) ==
  /\ mode = "up"
  /\ cancelRun = NoRun
  /\ "overlap" \in Hazards \/ Quiet
  /\ IsRetryable(status[q])
  /\ NextRun(r)
  /\ status' = [status EXCEPT ![r] = "created"]
  /\ noted' = [noted EXCEPT ![q] = TRUE, ![r] = TRUE]
  /\ retryOf' = [retryOf EXCEPT ![r] = q]
  /\ Go(r, "queued")
  /\ UNCHANGED <<hid, lock, sidecar, known, obs, verdict,
                 passVars, cancelVars, daemonVars, hermesVars>>

\* supervise, called by create_run and retry_run: a project that cannot be
\* routed is only logged, the row stays as it is.
SuperviseNew(r) ==
  /\ wk[r] = "queued"
  /\ Go(r, IF route THEN "load" ELSE "none")
  /\ UNCHANGED <<registryVars, lock, sidecar, known, obs, verdict,
                 passVars, cancelVars, daemonVars, hermesVars>>

\* cancel_run, up to the await: the runtime is resolved, the record read and the
\* request journalled.  A terminal run is answered without a change.
CancelBegin(r) ==
  /\ mode \in {"up", "draining"}
  /\ route
  /\ cancelRun = NoRun
  /\ status[r] \in Active
  /\ "cancel_in_submission" \in Hazards \/ hid[r] \/ wk[r] \notin {"submit", "reply"}
  /\ Note(r)
  /\ cancelRun' = r
  /\ cancelSeen' = hid[r]
  /\ UNCHANGED <<status, hid, retryOf, lock, sidecar, workerVars, passVars,
                 daemonVars, hermesVars>>

\* cancel_run without a backend id in the record it read: the row becomes
\* cancelled, if it still may.
CancelUnsubmitted ==
  /\ cancelRun # NoRun /\ ~cancelSeen
  /\ status' = IF ValidTransition(status[cancelRun], "cancelled")
               THEN [status EXCEPT ![cancelRun] = "cancelled"] ELSE status
  /\ cancelRun' = NoRun
  /\ UNCHANGED <<hid, noted, retryOf, lock, sidecar, workerVars, passVars,
                 cancelSeen, daemonVars, hermesVars>>

\* Mutant: cancelling a submitted run also settles its row.
CancelSubmittedEager ==
  /\ cancelRun # NoRun /\ cancelSeen
  /\ AppendUpdate(cancelRun, "cancelled")
  /\ cancelRun' = NoRun
  /\ cancelSeen' = FALSE
  /\ UNCHANGED <<hid, retryOf, lock, sidecar, workerVars, passVars,
                 daemonVars, hermesVars>>

\* cancel_run with a backend id: Hermes is asked to stop, its answer (or the
\* failure) is journalled, and the row is left to the worker.
CancelSubmitted ==
  /\ cancelRun # NoRun /\ cancelSeen
  /\ \/ backend' = IF backend[cancelRun] \in BackendLive
                   THEN [backend EXCEPT ![cancelRun] = "stopping"] ELSE backend
     \/ "unreachable" \in Hazards /\ UNCHANGED backend
  /\ Note(cancelRun)
  /\ cancelRun' = NoRun
  /\ cancelSeen' = FALSE
  /\ UNCHANGED <<status, hid, retryOf, lock, sidecar, workerVars, passVars,
                 daemonVars, forgets, submits, final>>

-----------------------------------------------------------------------------
(* The worker task: execute_run.                                           *)

\* The record is loaded before the lock is tried.
WLoad(r) ==
  /\ wk[r] = "load"
  /\ known' = [known EXCEPT ![r] = hid[r]]
  /\ Go(r, "lock")
  /\ UNCHANGED <<registryVars, lock, sidecar, obs, verdict,
                 passVars, cancelVars, daemonVars, hermesVars>>

\* try_lock never waits.
WLock(r) ==
  /\ wk[r] = "lock"
  /\ \/ lock = Free /\ Go(r, "admit") /\ lock' = r
     \/ lock # Free /\ Go(r, "conflict") /\ UNCHANGED lock
  /\ UNCHANGED <<registryVars, sidecar, known, obs, verdict,
                 passVars, cancelVars, daemonVars, hermesVars>>

\* Refused by single-flight admission, or by Hermes: the run is failed.
WFail(r) ==
  /\ wk[r] \in {"conflict", "refuse"}
  /\ AppendUpdate(r, "failed")
  /\ Unlock(r)
  /\ Go(r, "exit")
  /\ UNCHANGED <<hid, retryOf, sidecar, known, obs, verdict,
                 passVars, cancelVars, daemonVars, hermesVars>>

\* A recorded run that Hermes still executes refuses this one; one it finished
\* or does not know is cleared; if Hermes cannot be asked the worker gives up
\* and records nothing.
WAdmit(r) ==
  /\ wk[r] = "admit"
  /\ \/ sidecar = NoRun /\ Go(r, "accept") /\ UNCHANGED <<sidecar, lock>>
     \/ /\ sidecar # NoRun
        /\ \E a \in Answers(sidecar) :
             \/ a = "error" /\ Go(r, "exit") /\ Unlock(r) /\ UNCHANGED sidecar
             \/ a \in BackendLive /\ Go(r, "refuse") /\ UNCHANGED <<sidecar, lock>>
             \/ a \in BackendTerminal \union {"forgotten"} /\ Go(r, "accept")
                /\ sidecar' = NoRun /\ UNCHANGED lock
  /\ UNCHANGED <<registryVars, known, obs, verdict,
                 passVars, cancelVars, daemonVars, hermesVars>>

\* A run that already has a backend id is followed, never submitted again.
WResume(r) ==
  /\ wk[r] = "accept" /\ known[r]
  /\ Note(r)
  /\ known' = [known EXCEPT ![r] = FALSE]
  /\ Go(r, "follow")
  /\ UNCHANGED <<status, hid, retryOf, lock, sidecar, obs, verdict,
                 passVars, cancelVars, daemonVars, hermesVars>>

\* Mutant: the re-attach branch is missing, every worker submits.
WAcceptAlways(r) ==
  /\ wk[r] = "accept"
  /\ IF known[r] THEN Note(r) /\ UNCHANGED status ELSE AppendUpdate(r, "starting")
  /\ Go(r, "submit")
  /\ UNCHANGED <<hid, retryOf, lock, sidecar, known, obs, verdict,
                 passVars, cancelVars, daemonVars, hermesVars>>

\* A new run is accepted: the journal entry and `starting`, or the worker ends
\* because the row was settled meanwhile.
WAccept(r) ==
  /\ wk[r] = "accept" /\ ~known[r]
  /\ "cancel_in_submission" \in Hazards \/ cancelRun # r
  /\ AppendUpdate(r, "starting")
  /\ \/ ValidTransition(status[r], "starting") /\ Go(r, "submit") /\ UNCHANGED lock
     \/ ~ValidTransition(status[r], "starting") /\ Go(r, "exit") /\ Unlock(r)
  /\ UNCHANGED <<hid, retryOf, sidecar, known, obs, verdict,
                 passVars, cancelVars, daemonVars, hermesVars>>

\* start_run reaches Hermes, which accepts or rejects it; on an error the
\* sidecar is cleared and the run failed.
WStartRun(r) ==
  /\ wk[r] = "submit"
  /\ \/ /\ backend' = [backend EXCEPT ![r] = "running"]
        /\ submits' = [submits EXCEPT ![r] = @ + 1]
        /\ \/ Go(r, "reply") /\ UNCHANGED sidecar
           \/ "lost_reply" \in Hazards /\ Go(r, "refuse") /\ sidecar' = NoRun
     \/ Go(r, "refuse") /\ sidecar' = NoRun /\ UNCHANGED <<backend, submits>>
  /\ UNCHANGED <<registryVars, lock, known, obs, verdict,
                 passVars, cancelVars, daemonVars, forgets, final>>

\* The accepted run is recorded with its backend id in the same transaction,
\* or the worker ends if the row was settled meanwhile.
WSubmitted(r) ==
  /\ wk[r] = "reply"
  /\ AppendUpdate(r, "running")
  /\ \/ /\ ValidTransition(status[r], "running")
        /\ hid' = [hid EXCEPT ![r] = TRUE]
        /\ Go(r, "mark") /\ UNCHANGED lock
     \/ /\ ~ValidTransition(status[r], "running")
        /\ Go(r, "exit") /\ Unlock(r) /\ UNCHANGED hid
  /\ UNCHANGED <<retryOf, sidecar, known, obs, verdict,
                 passVars, cancelVars, daemonVars, hermesVars>>

\* record_active_run.
WMark(r) ==
  /\ wk[r] = "mark"
  /\ sidecar' = r
  /\ Go(r, "follow")
  /\ UNCHANGED <<registryVars, lock, known, obs, verdict,
                 passVars, cancelVars, daemonVars, hermesVars>>

-----------------------------------------------------------------------------
(* The worker task: follow_to_terminal.                                    *)

\* status_update_for: what a frame of the given kind implies, if anything.
StatusUpdateFor(kind, observed) ==
  IF kind = "approval.request" THEN "waiting_for_approval"
  ELSE IF observed = "waiting_for_approval" THEN "running" ELSE "nothing"

\* A frame arrives.  The worker's own view always moves; the row moves only if
\* the frame was not journalled before, and a refused append ends the stream.
WFrame(r, kind, fresh) ==
  LET update == StatusUpdateFor(kind, obs[r]) IN
  /\ wk[r] = "follow"
  /\ backend[r] # "forgotten"
  /\ obs' = [obs EXCEPT ![r] = IF update = "nothing" THEN @ ELSE update]
  /\ \/ ~fresh /\ UNCHANGED <<status, noted>>
     \/ fresh /\ update = "nothing" /\ Note(r) /\ UNCHANGED status
     \/ fresh /\ update # "nothing" /\ AppendUpdate(r, update)
  /\ UNCHANGED <<hid, retryOf, lock, sidecar, wk, known, verdict,
                 passVars, cancelVars, daemonVars, hermesVars>>

\* Mutant: the end of the stream is taken for the end of the run.
WPollEager(r) ==
  /\ wk[r] = "follow"
  /\ verdict' = [verdict EXCEPT ![r] = "completed"]
  /\ obs' = [obs EXCEPT ![r] = "running"]
  /\ Go(r, "final")
  /\ UNCHANGED <<registryVars, lock, sidecar, known,
                 passVars, cancelVars, daemonVars, hermesVars>>

\* The stream ended and Hermes is asked.  A run it still executes is followed
\* again (no change), unless nothing was journalled for the idle budget.
WPoll(r) ==
  /\ wk[r] = "follow"
  /\ \E a \in Answers(r) :
       LET answer == Flatten(a) IN
       \/ /\ answer = "forgotten"
          /\ verdict' = [verdict EXCEPT ![r] = "interrupted"]
       \/ /\ answer \in BackendTerminal
          /\ verdict' = [verdict EXCEPT ![r] = FromHermesStatus(answer)]
       \/ /\ answer \in BackendLive /\ "stall" \in Hazards
          /\ verdict' = [verdict EXCEPT ![r] = "interrupted"]
  /\ obs' = [obs EXCEPT ![r] = "running"]
  /\ Go(r, "final")
  /\ UNCHANGED <<registryVars, lock, sidecar, known,
                 passVars, cancelVars, daemonVars, hermesVars>>

\* finalize: the terminal event and the status, or nothing if the row was
\* settled otherwise.
WFinalize(r) ==
  /\ wk[r] = "final"
  /\ AppendUpdate(r, verdict[r])
  /\ verdict' = [verdict EXCEPT ![r] = "failed"]
  /\ Go(r, "clear")
  /\ UNCHANGED <<hid, retryOf, lock, sidecar, known, obs,
                 passVars, cancelVars, daemonVars, hermesVars>>

\* The sidecar is cleared and the task returns, dropping the lock.
WClear(r) ==
  /\ wk[r] = "clear"
  /\ sidecar' = NoRun
  /\ Unlock(r)
  /\ Go(r, "exit")
  /\ UNCHANGED <<registryVars, known, obs, verdict,
                 passVars, cancelVars, daemonVars, hermesVars>>

\* The task removes itself from the worker map.
WExit(r) ==
  /\ wk[r] = "exit"
  /\ Go(r, "none")
  /\ known' = [known EXCEPT ![r] = FALSE]
  /\ UNCHANGED <<registryVars, lock, sidecar, obs, verdict, passVars, cancelVars,
                 daemonVars, hermesVars>>

-----------------------------------------------------------------------------
(* A reconciliation pass.                                                  *)

\* Worker tasks that have not tried the lock yet.
Starting == {r \in Runs : wk[r] \in {"queued", "load", "lock"}}

\* A pass is due: an operator asks for one, or the daemon comes to the project in
\* its list, at startup and then every RECONCILE_INTERVAL.
PassDue(p) ==
  /\ ppc[p] = "idle"
  /\ mode = "up" \/ (mode = "boot" /\ p = StartupPass)
  /\ p = StartupPass => listed
  /\ "overlap" \in Hazards \/ (Quiet /\ Starting = {})

\* Service::reconcile returns client_for's error; startup goes on without the pass.
PUnrouted(p) ==
  /\ PassDue(p)
  /\ ~route
  /\ mode' = "up"
  /\ UNCHANGED <<registryVars, lock, sidecar, workerVars, passVars, cancelVars,
                 settingVars, hermesVars>>

\* reconcile_project: without the lock the pass skips to the resumption; with
\* it, the active runs are read.
PBegin(p) ==
  /\ PassDue(p)
  /\ route
  /\ \/ /\ lock = Free
        /\ lock' = p
        /\ todo' = [todo EXCEPT ![p] = ActiveRuns]
        /\ psnap' = [psnap EXCEPT ![p] = [r \in Runs |->
             IF r \in ActiveRuns
             THEN [st |-> status[r], hid |-> hid[r], noted |-> noted[r]] ELSE Blank[r]]]
        /\ ppc' = [ppc EXCEPT ![p] = IF ActiveRuns = {} THEN "clear" ELSE "park"]
     \/ /\ lock # Free
        /\ ppc' = [ppc EXCEPT ![p] = "pick"]
        /\ UNCHANGED <<lock, todo, psnap>>
  /\ UNCHANGED <<registryVars, sidecar, workerVars, picked, cancelVars, daemonVars, hermesVars>>

\* The pass gives up with an error: Service::reconcile returns it.
PReturn(p) ==
  /\ ppc' = [ppc EXCEPT ![p] = "idle"]
  /\ todo' = [todo EXCEPT ![p] = {}]
  /\ psnap' = [psnap EXCEPT ![p] = Blank]
  /\ picked' = [picked EXCEPT ![p] = NoRun]
  /\ mode' = IF mode = "boot" THEN "up" ELSE mode
  /\ Unlock(p)

\* A run with a backend id is parked in `recovering` while Hermes is asked,
\* judged on the row the pass read when it began.
PPark(p, r) ==
  LET snap == psnap[p][r]
      parks == snap.hid /\ snap.st # "recovering" /\ ValidTransition(snap.st, "recovering")
  IN
  /\ ppc[p] = "park"
  /\ IsOldest(r, todo[p])
  /\ IF parks THEN AppendUpdate(r, "recovering") ELSE UNCHANGED <<status, noted>>
  /\ \/ /\ parks => ValidTransition(status[r], "recovering")
        /\ ppc' = [ppc EXCEPT ![p] = "decide"]
        /\ UNCHANGED <<todo, psnap, picked, mode, lock>>
     \/ /\ parks /\ ~ValidTransition(status[r], "recovering")
        /\ PReturn(p)
  /\ UNCHANGED <<hid, retryOf, sidecar, workerVars, cancelVars, settingVars, hermesVars>>

\* Hermes has answered: the decision is taken on the status the row had before
\* it was parked.  The same status again leaves the row untouched, parked.
PDecide(p, r) ==
  LET snap == psnap[p][r] IN
  /\ ppc[p] = "decide"
  /\ IsOldest(r, todo[p])
  /\ \E a \in (IF snap.hid THEN Answers(r) ELSE {"forgotten"}) :
       LET new == ReconcileDecision(snap.st, Flatten(a), snap.noted)
           changes == new # snap.st
       IN
       /\ IF changes THEN AppendUpdate(r, new) ELSE UNCHANGED <<status, noted>>
       /\ \/ /\ changes => ValidTransition(status[r], new)
             /\ todo' = [todo EXCEPT ![p] = @ \ {r}]
             /\ ppc' = [ppc EXCEPT ![p] = IF todo[p] = {r} THEN "clear" ELSE "park"]
             /\ psnap' = [psnap EXCEPT ![p][r] = Blank[r]]
             /\ UNCHANGED <<picked, mode, lock>>
          \/ /\ changes /\ ~ValidTransition(status[r], new)
             /\ PReturn(p)
  /\ UNCHANGED <<hid, retryOf, sidecar, workerVars, cancelVars, settingVars, hermesVars>>

\* The sidecar is dropped and reconcile_project returns, releasing the lock.
PClear(p) ==
  /\ ppc[p] = "clear"
  /\ sidecar' = NoRun
  /\ Unlock(p)
  /\ ppc' = [ppc EXCEPT ![p] = "pick"]
  /\ UNCHANGED <<registryVars, workerVars, todo, psnap, picked, cancelVars, daemonVars, hermesVars>>

Resumable == {r \in ActiveRuns : hid[r] /\ status[r] \in {"running", "waiting_for_approval"}}

\* Service::reconcile reads the resumable runs under the registry mutex.
PPick(p) ==
  /\ ppc[p] = "pick"
  /\ cancelRun = NoRun
  /\ \/ Resumable = {} /\ picked' = [picked EXCEPT ![p] = NoRun]
     \/ \E r \in Runs : IsOldest(r, Resumable) /\ picked' = [picked EXCEPT ![p] = r]
  /\ ppc' = [ppc EXCEPT ![p] = "supervise"]
  /\ UNCHANGED <<registryVars, lock, sidecar, workerVars, todo, psnap,
                 cancelVars, daemonVars, hermesVars>>

\* ... and supervises the oldest, unless a worker already has it or the
\* project cannot be routed.
PSupervise(p) ==
  LET spawns == {r \in Runs : r = picked[p] /\ wk[r] = "none"} IN
  /\ ppc[p] = "supervise"
  /\ \/ route /\ \E r \in spawns : Go(r, "load")
     \/ (spawns = {} \/ ~route) /\ UNCHANGED wk
  /\ PReturn(p)
  /\ UNCHANGED <<registryVars, sidecar, known, obs, verdict, cancelVars, settingVars, hermesVars>>

-----------------------------------------------------------------------------
(* The daemon process.                                                     *)

\* Shutdown begins: no new run is accepted and the periodic pass is aborted.
Drain ==
  /\ mode = "up"
  /\ restarts < MaxRestarts
  /\ mode' = "draining"
  /\ ppc' = [ppc EXCEPT ![StartupPass] = "idle"]
  /\ todo' = [todo EXCEPT ![StartupPass] = {}]
  /\ psnap' = [psnap EXCEPT ![StartupPass] = Blank]
  /\ picked' = [picked EXCEPT ![StartupPass] = NoRun]
  /\ Unlock(StartupPass)
  /\ UNCHANGED <<registryVars, sidecar, workerVars, cancelVars, settingVars, hermesVars>>

\* The process ends: drained, timed out while draining, or killed.  Tasks and
\* the kernel's lock vanish; the database, the sidecar and Hermes stay.
Stop ==
  /\ mode # "down"
  /\ restarts < MaxRestarts
  /\ \A r \in Runs :
       /\ "crash_in_submission" \in Hazards \/ wk[r] \notin {"submit", "reply"}
       /\ "restart_live" \in Hazards \/ backend[r] \notin BackendLive \/ wk[r] = "reply"
  /\ mode' = "down"
  /\ restarts' = restarts + 1
  /\ wk' = [r \in Runs |-> "none"]
  /\ known' = [r \in Runs |-> FALSE]
  /\ obs' = [r \in Runs |-> "running"]
  /\ verdict' = [r \in Runs |-> "failed"]
  /\ ppc' = [p \in Passes |-> "idle"]
  /\ todo' = [p \in Passes |-> {}]
  /\ psnap' = [p \in Passes |-> Blank]
  /\ picked' = [p \in Passes |-> NoRun]
  /\ lock' = Free
  /\ cancelRun' = NoRun
  /\ cancelSeen' = FALSE
  /\ UNCHANGED <<registryVars, sidecar, route, listed, hermesVars>>

\* serve: the registered projects are listed, once; reconciliation first, the
\* socket afterwards.
Boot ==
  /\ mode = "down"
  /\ mode' = "boot"
  /\ listed' = TRUE
  /\ UNCHANGED <<registryVars, lock, sidecar, workerVars, passVars, cancelVars,
                 restarts, route, hermesVars>>

\* The row is disabled, unregistered, leaves or re-enters a runnable state, or its
\* key file becomes unreadable or readable (project_runtime's conditions).
RouteChanges ==
  /\ "routing" \in Hazards
  /\ route' = ~route
  /\ UNCHANGED <<registryVars, lock, sidecar, workerVars, passVars, cancelVars,
                 mode, restarts, listed, hermesVars>>

-----------------------------------------------------------------------------
(* Hermes, external: what the client in hermes.rs can observe of it.       *)

\* A run starts or stops waiting for an approval.
HWait(r) ==
  /\ \/ backend[r] = "running" /\ backend' = [backend EXCEPT ![r] = "waiting_for_approval"]
     \/ backend[r] = "waiting_for_approval" /\ backend' = [backend EXCEPT ![r] = "running"]
  /\ UNCHANGED <<registryVars, lock, sidecar, workerVars, passVars, cancelVars,
                 daemonVars, forgets, submits, final>>

\* A run ends; only one that was asked to stop ends cancelled.
HFinish(r) ==
  /\ backend[r] \in BackendLive
  /\ \E s \in BackendTerminal :
       /\ s = "cancelled" => backend[r] = "stopping"
       /\ backend' = [backend EXCEPT ![r] = s]
       /\ final' = [final EXCEPT ![r] = s]
  /\ UNCHANGED <<registryVars, lock, sidecar, workerVars, passVars, cancelVars,
                 daemonVars, forgets, submits>>

\* The container restarts: the in-memory run registry is gone, and so is
\* everything it was executing.
HForget ==
  /\ forgets < MaxForgets
  /\ forgets' = forgets + 1
  /\ backend' = [r \in Runs |-> IF backend[r] = "none" THEN "none" ELSE "forgotten"]
  /\ UNCHANGED <<registryVars, lock, sidecar, workerVars, passVars, cancelVars,
                 daemonVars, submits, final>>

-----------------------------------------------------------------------------
WorkerStep(r) ==
  \/ SuperviseNew(r) \/ WLoad(r) \/ WLock(r) \/ WFail(r) \/ WAdmit(r) \/ WResume(r)
  \/ WAccept(r) \/ WStartRun(r) \/ WSubmitted(r) \/ WMark(r)
  \/ WPoll(r) \/ WFinalize(r) \/ WClear(r) \/ WExit(r)

Frame(r) == \E kind \in {"approval.request", "other"}, fresh \in BOOLEAN : WFrame(r, kind, fresh)

PassStep(p) ==
  \/ \E r \in Runs : PPark(p, r) \/ PDecide(p, r)
  \/ PClear(p) \/ PPick(p) \/ PSupervise(p)

CancelStep == CancelUnsubmitted \/ CancelSubmitted

Next ==
  \/ \E r \in Runs : CreateRun(r) \/ CancelBegin(r) \/ WorkerStep(r) \/ Frame(r)
                     \/ HWait(r) \/ HFinish(r)
  \/ \E q, r \in Runs : RetryRun(q, r)
  \/ \E p \in Passes : PUnrouted(p) \/ PBegin(p) \/ PassStep(p)
  \/ CancelStep
  \/ Drain \/ Stop \/ Boot \/ RouteChanges \/ HForget

Spec == Init /\ [][Next]_vars

\* The executor runs every ready task, and its mutex is first come, first
\* served, so a pass that waits for the registry gets it; the periodic pass
\* comes to every listed project each minute while the daemon is up, and begins
\* if the project is routed; a service manager restarts the process; and a run
\* Hermes executes ends.  Nothing repairs a route, and only a restart lists a
\* project.
Fairness ==
  /\ \A r \in Runs : WF_vars(WorkerStep(r)) /\ WF_vars(HFinish(r))
  /\ \A p \in Passes : WF_vars(PassStep(p))
  /\ \A p \in Passes : SF_vars(PPick(p))
  /\ WF_vars(PUnrouted(StartupPass)) /\ WF_vars(PBegin(StartupPass))
  /\ WF_vars(CancelStep)
  /\ WF_vars(Boot)
  /\ WF_vars(mode = "draining" /\ Stop)

FairSpec == Spec /\ Fairness

-----------------------------------------------------------------------------
(* What holds whatever the environment does.                               *)

\* The lock is a lock: the task that reads the sidecar, submits, follows or
\* reconciles is the only one of the project that does (try_lock, and the guard
\* dropped on every way out of execute_run and reconcile_project).
LockDiscipline ==
  /\ \A r \in Runs : wk[r] \in Holding => lock = r
  /\ \A p \in Passes : ppc[p] \in PassHolding => lock = p

\* A run is handed to Hermes at most once, through restarts, overlapping passes
\* and re-attached workers ("Submitting again would run the task twice").
SubmittedAtMostOnce == \A r \in Runs : submits[r] <= 1

\* A run is completed only if Hermes completed it: neither reconciliation nor a
\* broken stream ever invents a result.
CompletedOnEvidence == \A r \in Runs : status[r] = "completed" => final[r] = "completed"

\* A replacement exists only for a run whose outcome the Node never determined,
\* and stays the replacement of such a run (retry_run, is_retryable).
RetryOnlyUndetermined == \A r \in Runs : retryOf[r] # NoRun => IsRetryable(status[retryOf[r]])

\* A settled run keeps its status: the late worker, the second pass and the
\* cancel that lost its race are all refused by validate_transition.
TerminalIsFinal == [][\A r \in Runs : status[r] \in Terminal => status'[r] = status[r]]_vars

\* Once the project stays routed and listed, every run is settled, by its worker
\* or by the pass that finds it without one, whatever happened before: a pass that
\* was refused, a worker that gave up, a restart that left the run parked.
EveryRunSettles ==
  <>[](route /\ listed) => \A r \in Runs : status[r] \in Active ~> status[r] \in Terminal

\* What is promised of a run, seen through its row: every active status is an
\* open record, every terminal status a settled one.
Record ==
  [r \in Runs |-> IF status[r] = "absent" THEN "none"
                  ELSE IF status[r] \in Active THEN "open" ELSE status[r]]

Lifecycle == INSTANCE RunLifecycle WITH
  record <- Record,
  handed <- submits,
  result <- final,
  replaces <- retryOf

\* The daemon, its workers, the overlapping passes and the registry implement
\* the life cycle: no step of any of them does to a run what it does not allow.
ImplementsLifecycle == Lifecycle!Spec

-----------------------------------------------------------------------------
(* What the code and its documents say and what holds only as long as the  *)
(* hazards named in the configurations stay away.                          *)

\* Single flight: Hermes executes at most one run of the project.
SingleFlight == \A q, r \in Runs : {backend[q], backend[r]} \subseteq BackendLive => q = r

\* The record is true of a run Hermes received: `cancelled` is claimed only if
\* Hermes cancelled it ("only ever claimed on backend evidence"), `interrupted`
\* only of a run Hermes no longer executes ("Never guess a result").
RecordIsTrue ==
  \A r \in Runs :
    /\ status[r] = "cancelled" /\ submits[r] > 0 => final[r] = "cancelled"
    /\ status[r] = "interrupted" => backend[r] \notin BackendLive
=============================================================================
