-------------------------- MODULE CredentialLogins --------------------------
(***************************************************************************)
(* The logins that give a credential its material (src/src/provider.rs):   *)
(* one attempt at a time on a Node, a first login into the credential's    *)
(* own home or a replacement into a staging home, the device code that has *)
(* to reach the Control Plane, the session loop that settles attempts and  *)
(* puts replacements in place (src/src/control.rs), and the runs that use  *)
(* a credential and report it dead (src/src/service.rs).                   *)
(*                                                                         *)
(* Material is known by the number of the login that produced it; 0 is a   *)
(* home without a record.  Three kinds of task interleave: the session     *)
(* loop, which handles one command or one tick of the pump to its end; the *)
(* reader of a login that produced no code; and the task of a run.  How a  *)
(* swap moves files and workers is the subject of ProjectWorkers; here it  *)
(* succeeds or fails.                                                      *)
(***************************************************************************)
EXTENDS Integers

CONSTANTS
  Credentials,  \* isolated credentials this Node can hold (MAX_CREDENTIALS)
  Projects,     \* projects of this Node
  NoCredential, \* the shared pool: a project without an assignment
  MaxLogins,    \* bound: how many logins are begun
  MaxRuns,      \* bound: how many runs are created
  MaxFaults,    \* bound: how often a session ends or the daemon dies
  Hazards       \* which of AllHazards the environment may show

\* stray_cancel  credentials.cancel names a credential no login is out for
\* cancel_all    the older provider.cancel, which names no credential
\* storage       the registry is busy: a command's answer cannot be stored
\* stubborn      the runtime refuses to remove a record, or to start a login
\* silent        the CLI ends or times out without printing a code
AllHazards == {"stray_cancel", "cancel_all", "storage", "stubborn", "silent"}

ASSUME NoCredentialAssumption == NoCredential \notin Credentials
ASSUME BoundsAssumption == {MaxLogins, MaxRuns, MaxFaults} \subseteq Nat
ASSUME HazardsAssumption == Hazards \subseteq AllHazards

\* CredentialState.
CredentialState ==
  {"required", "authorizing", "authorized", "failed", "revoked", "reauthorizing",
   "reauthorization_required", "runtime_missing"}

\* CredentialState::reauthorizable.
reauthorizable(s) ==
  s \in {"authorized", "reauthorization_required", "runtime_missing", "required", "failed"}

VARIABLES
  cstate,      \* Credential.state, "absent" before the row exists
  generation,  \* Credential.generation: how often its material was replaced
  live,        \* the material in the credential's home
  dead,        \* material whose grant the runtime has written off
  logins,      \* how many logins were begun
  attempt,     \* Provider.attempt
  agen,        \* Provider.generation
  parked,      \* Provider.finished_reauth
  late,        \* readers that gave up an attempt and have yet to say so
  session,     \* a session with the Control Plane is up
  loop,        \* what the session loop is doing
  assigned,    \* projects.credential_id
  run,         \* the run of a project and its task
  runs, faults,
  superseded,  \* history: replacements that were cancelled or overtaken
  accepted     \* history: the last replacement each credential accepted

loginVars == <<attempt, agen, parked, logins>>
countVars == <<runs, faults>>
vars == <<cstate, generation, live, dead, loginVars, late, session, loop, assigned, run,
          countVars, superseded, accepted>>

NoAttempt == [cred |-> NoCredential, gen |-> 0, phase |-> "none", reauth |-> FALSE,
              ended |-> FALSE, mat |-> 0]
NoParked == [cred |-> NoCredential, gen |-> 0, mat |-> 0]
Idle == [op |-> "idle", cred |-> NoCredential, mat |-> 0, state |-> "required",
         verdicts |-> [c \in Credentials |-> "same"]]
NoRun == [pc |-> "none", cred |-> NoCredential, gen |-> 0]

Materials == 0..MaxLogins
Attempts ==
  [cred : Credentials \union {NoCredential}, gen : Nat,
   phase : {"none", "producing", "pending", "sent", "acknowledged"},
   reauth : BOOLEAN, ended : BOOLEAN, mat : Materials]

\* Every variable has the type its field or row gives it, a task in flight
\* names a credential this Node holds, and a login has a number.
TypeOK ==
  /\ cstate \in [Credentials -> CredentialState \union {"absent"}]
  /\ generation \in [Credentials -> Nat]
  /\ live \in [Credentials -> Materials]
  /\ dead \subseteq Materials
  /\ logins \in Materials
  /\ attempt \in Attempts
  /\ agen \in Nat
  /\ parked \in [cred : Credentials \union {NoCredential}, gen : Nat, mat : Materials]
  /\ late \subseteq [cred : Credentials, replacing : BOOLEAN,
                     state : CredentialState \union {"unread"}]
  /\ session \in BOOLEAN
  /\ loop \in [op : {"idle", "mark", "list", "swap", "accept"},
               cred : Credentials \union {NoCredential}, mat : Materials,
               state : CredentialState,
               verdicts : [Credentials -> CredentialState \union {"same"}]]
  /\ loop.op \in {"mark", "swap", "accept"} => loop.cred \in Credentials
  /\ assigned \in [Projects -> Credentials \union {NoCredential}]
  /\ run \in [Projects -> [pc : {"none", "checked", "active", "ended", "dead"},
                           cred : Credentials \union {NoCredential}, gen : Nat]]
  /\ runs \in Nat /\ faults \in Nat
  /\ superseded \subseteq Materials
  /\ accepted \in [Credentials -> Materials]

\* A Node without credentials.
Init ==
  /\ cstate = [c \in Credentials |-> "absent"]
  /\ generation = [c \in Credentials |-> 0]
  /\ live = [c \in Credentials |-> 0]
  /\ dead = {}
  /\ logins = 0
  /\ attempt = NoAttempt
  /\ agen = 0
  /\ parked = NoParked
  /\ late = {}
  /\ session = TRUE
  /\ loop = Idle
  /\ assigned = [p \in Projects |-> NoCredential]
  /\ run = [p \in Projects |-> NoRun]
  /\ runs = 0 /\ faults = 0
  /\ superseded = {}
  /\ accepted = [c \in Credentials |-> 0]

-----------------------------------------------------------------------------
(* Reading the state.                                                      *)

\* attempt_in_flight: a login whose process has not ended.
InFlight == attempt.phase # "none" /\ ~attempt.ended

\* credential_runtime::verdict: what the runtime's own record says of material m.
verdict(m) == IF m = 0 THEN "missing" ELSE IF m \in dead THEN "dead" ELSE "alive"

\* runtime_state: the state that record justifies.
runtime_state(m) ==
  CASE verdict(m) = "missing" -> "runtime_missing"
    [] verdict(m) = "dead" -> "reauthorization_required"
    [] OTHER -> "authorized"

\* credential_homes::inspect finds a store in the credential's home.
HomeReady(c) == live[c] # 0

\* usable: asked before a project is given a credential and before a run.
usable(c) ==
  /\ cstate[c] = "authorized"
  /\ ~(InFlight /\ attempt.cred = c)
  /\ HomeReady(c)

\* begin_credential_change refuses while a run of the project is in flight.
NoActiveRun(p) == run[p].pc # "active"

\* Changing: the projects marked for the swap the loop is performing.
Changing(p) == loop.op = "swap" /\ assigned[p] = loop.cred

Mark(c, s) == [Idle EXCEPT !.op = "mark", !.cred = c, !.state = s]

\* What a replacement that is thrown away adds to the history.
Lost(a) == IF a.phase # "none" /\ a.reauth THEN {a.mat} \ {0} ELSE {}

-----------------------------------------------------------------------------
(* The login process and its reader.                                       *)

\* read_device_code finds an address and a code in what the CLI prints, in
\* whatever pieces it arrives, before the CLI ends.
CodePrinted == attempt.phase = "producing" /\ ~attempt.ended

\* record_code: the code belongs to the attempt still expected.
ReaderCode ==
  /\ CodePrinted
  /\ attempt' = [attempt EXCEPT !.phase = "pending"]
  /\ UNCHANGED <<cstate, generation, live, dead, agen, parked, logins, late, session, loop,
                 assigned, run, countVars, superseded, accepted>>

\* abandon_produced_nothing, under the attempt lock: the reader takes the
\* attempt away.  What it says of the credential follows.
ReaderGivesUp ==
  /\ "silent" \in Hazards
  /\ attempt.phase = "producing"
  /\ late' = late \union {[cred |-> attempt.cred, replacing |-> attempt.reauth, state |-> "unread"]}
  /\ attempt' = NoAttempt
  /\ agen' = agen + 1
  /\ UNCHANGED <<cstate, generation, live, dead, parked, logins, session, loop, assigned, run,
                 countVars, superseded, accepted>>

\* settle_reauthorization_failure reads before it writes; a first login failed.
ReaderReads(r) ==
  /\ r.state = "unread"
  /\ late' = (late \ {r}) \union
             {[r EXCEPT !.state = IF r.replacing THEN runtime_state(live[r.cred]) ELSE "failed"]}
  /\ UNCHANGED <<cstate, generation, live, dead, loginVars, session, loop, assigned, run,
                 countVars, superseded, accepted>>

ReaderMarks(r) ==
  /\ r.state # "unread"
  /\ late' = late \ {r}
  /\ cstate' = [cstate EXCEPT ![r.cred] = r.state]
  /\ UNCHANGED <<generation, live, dead, loginVars, session, loop, assigned, run, countVars,
                 superseded, accepted>>

\* The person approves, or the code expires: the CLI writes to the home it was
\* given, or nothing, and ends.
LoginEnds(approved) ==
  /\ attempt.phase \in {"pending", "sent", "acknowledged"} /\ ~attempt.ended
  /\ approved => attempt.phase # "pending"
  /\ attempt' = [attempt EXCEPT !.ended = TRUE, !.mat = IF approved THEN logins ELSE 0]
  /\ live' = IF approved /\ ~attempt.reauth THEN [live EXCEPT ![attempt.cred] = logins] ELSE live
  /\ UNCHANGED <<cstate, generation, dead, agen, parked, logins, late, session, loop, assigned,
                 run, countVars, superseded, accepted>>

-----------------------------------------------------------------------------
(* The session loop: commands.                                             *)

\* The loop takes up a frame or a tick.  A replacement parked by a command is
\* put in place before the next one, unless storing the answer failed.
Ready == session /\ loop = Idle
Command == Ready /\ (parked = NoParked \/ "storage" \in Hazards)

\* spawn_login: the CLI runs in the home it is given and has printed nothing.
spawn_login(c, reauth, gen) ==
  [cred |-> c, gen |-> gen, phase |-> "producing", reauth |-> reauth, ended |-> FALSE, mat |-> 0]

\* begin_login: whatever attempt is left has ended and is dropped with what it
\* staged; the generation moves even when the CLI cannot be started.
begin_login(c, reauth, started) ==
  /\ logins < MaxLogins
  /\ agen' = agen + 1
  /\ superseded' = superseded \union Lost(attempt) \union ({parked.mat} \ {0})
  /\ logins' = logins + 1
  /\ started \/ "stubborn" \in Hazards
  /\ attempt' = IF started THEN spawn_login(c, reauth, agen + 1) ELSE NoAttempt
  /\ UNCHANGED parked

\* start_authorization: the row exists before the login does.
authorize_credential(c) ==
  /\ Command /\ cstate[c] = "absent" /\ ~InFlight
  /\ \E started \in BOOLEAN :
       /\ begin_login(c, FALSE, started)
       /\ cstate' = [cstate EXCEPT ![c] = IF started THEN "authorizing" ELSE "failed"]
  /\ UNCHANGED <<generation, live, dead, late, session, loop, assigned, run,
                 countVars, accepted>>

\* reauthorize_credential: into a staging home, under the same id.
reauthorize_credential(c) ==
  /\ Command /\ ~InFlight /\ reauthorizable(cstate[c])
  /\ \E started \in BOOLEAN :
       /\ begin_login(c, TRUE, started)
       /\ cstate' = [cstate EXCEPT ![c] =
                       IF started THEN "reauthorizing" ELSE runtime_state(live[c])]
  /\ UNCHANGED <<generation, live, dead, late, session, loop, assigned, run,
                 countVars, accepted>>

\* Mutant: only a login that is still running is taken away.
abandon_running ==
  /\ attempt' = IF attempt.ended THEN attempt ELSE NoAttempt
  /\ agen' = IF InFlight THEN agen + 1 ELSE agen
  /\ superseded' = superseded \union Lost(attempt)
  /\ UNCHANGED <<parked, logins>>

\* abandon_attempt: the generation moves with the attempt.
abandon_attempt ==
  /\ attempt' = NoAttempt
  /\ agen' = IF attempt.phase # "none" THEN agen + 1 ELSE agen
  /\ superseded' = superseded \union Lost(attempt)
  /\ UNCHANGED <<parked, logins>>

\* Where a cancelled login leaves its credential: what it held, if it was
\* being replaced, and otherwise failed.  Its state is not looked at further.
Cancelled(c) ==
  Mark(c, IF attempt.reauth \/ cstate[c] = "reauthorizing"
          THEN runtime_state(live[c]) ELSE "failed")

\* cancel_credential: not another credential's attempt, running or ended.
cancel_credential(c) ==
  /\ Command /\ cstate[c] # "absent"
  /\ attempt.phase = "none" \/ attempt.cred = c
  /\ \/ attempt.cred = c \/ cstate[c] \in {"authorizing", "reauthorizing"}
     \/ "stray_cancel" \in Hazards
  /\ abandon_attempt
  /\ loop' = Cancelled(c)
  /\ UNCHANGED <<cstate, generation, live, dead, late, session, assigned, run, countVars, accepted>>

\* provider.cancel abandons the attempt and says nothing of its credential.
provider_cancel ==
  /\ "cancel_all" \in Hazards
  /\ Command /\ attempt.phase # "none"
  /\ abandon_attempt
  /\ UNCHANGED <<cstate, generation, live, dead, late, session, loop, assigned, run,
                 countVars, accepted>>

\* mark, the last step of a cancellation or of a failed replacement.
LoopMarks ==
  /\ loop.op = "mark"
  /\ cstate' = [cstate EXCEPT ![loop.cred] = loop.state]
  /\ loop' = Idle
  /\ UNCHANGED <<generation, live, dead, loginVars, late, session, assigned, run, countVars,
                 superseded, accepted>>

\* credential_revoke: refused while a project uses it; the attempt goes first,
\* and a record the runtime will not remove leaves the row as it was.
revoke_credential(c) ==
  /\ Command /\ cstate[c] # "absent"
  /\ \A p \in Projects : assigned[p] # c
  /\ IF attempt.cred = c THEN abandon_attempt ELSE UNCHANGED <<loginVars, superseded>>
  /\ \/ live' = [live EXCEPT ![c] = 0] /\ cstate' = [cstate EXCEPT ![c] = "revoked"]
     \/ "stubborn" \in Hazards /\ live[c] # 0 /\ UNCHANGED <<live, cstate>>
  /\ UNCHANGED <<generation, dead, late, session, loop, assigned, run,
                 countVars, accepted>>

\* credentials.assign, as far as credentials go: the project's reader changes
\* once the new one is usable and no run is in flight.
assign_credential(p, c) ==
  /\ Command /\ assigned[p] # c
  /\ c # NoCredential => usable(c)
  /\ NoActiveRun(p)
  /\ assigned' = [assigned EXCEPT ![p] = c]
  /\ UNCHANGED <<cstate, generation, live, dead, loginVars, late, session, loop, run, countVars,
                 superseded, accepted>>

\* settle_attempt: a login that has ended is taken; one the generation has
\* moved past is dropped, a replacement is parked, a first login is returned.
settle_attempt ==
  IF attempt.phase = "none" \/ ~attempt.ended
  THEN UNCHANGED <<attempt, parked, superseded>>
  ELSE /\ attempt' = NoAttempt
       /\ IF attempt.reauth /\ attempt.gen = agen
          THEN /\ parked' = [cred |-> attempt.cred, gen |-> attempt.gen, mat |-> attempt.mat]
               /\ superseded' = superseded \union ({parked.mat} \ {0})
          ELSE parked' = parked /\ superseded' = superseded \union Lost(attempt)

\* The credential of a first login that has just ended.
FinishedFirst == IF attempt.phase # "none" /\ attempt.ended /\ ~attempt.reauth /\ attempt.gen = agen
                 THEN attempt.cred ELSE NoCredential

\* Mutant: a credential somebody is expected to approve is not judged.
ListJudgesSettled ==
  /\ Command
  /\ settle_attempt
  /\ loop' = [Idle EXCEPT
       !.op = "list", !.cred = FinishedFirst,
       !.verdicts = [c \in Credentials |->
         IF \/ cstate[c] \in {"absent", "revoked", "authorizing", "reauthorizing"}
            \/ runtime_state(live[c]) = cstate[c]
         THEN "same" ELSE runtime_state(live[c])]]
  /\ UNCHANGED <<cstate, generation, live, dead, agen, logins, late, session, assigned, run,
                 countVars, accepted>>

\* list_credentials, first half: settle the attempt and judge, without the
\* registry's lock, every credential that is neither revoked nor in flight.
ListJudges ==
  /\ Command
  /\ settle_attempt
  /\ loop' = [Idle EXCEPT
       !.op = "list", !.cred = FinishedFirst,
       !.verdicts = [c \in Credentials |->
         IF \/ cstate[c] \in {"absent", "revoked"}
            \/ InFlight /\ attempt.cred = c
            \/ runtime_state(live[c]) = cstate[c]
         THEN "same" ELSE runtime_state(live[c])]]
  /\ UNCHANGED <<cstate, generation, live, dead, agen, logins, late, session, assigned, run,
                 countVars, accepted>>

\* ... second half: write the verdicts that still apply; a first login that
\* left nothing failed.
ListWrites ==
  /\ loop.op = "list"
  /\ cstate' = [c \in Credentials |->
       IF loop.verdicts[c] # "same" /\ cstate[c] # "revoked" THEN loop.verdicts[c]
       ELSE IF loop.cred = c /\ cstate[c] = "authorizing" THEN "failed" ELSE cstate[c]]
  /\ loop' = Idle
  /\ UNCHANGED <<generation, live, dead, loginVars, late, session, assigned, run, countVars,
                 superseded, accepted>>

-----------------------------------------------------------------------------
(* The session loop: the pump.                                             *)

\* take_finished_reauthorization: what is parked, or what ended just now.
Finished ==
  IF attempt.reauth /\ attempt.ended /\ attempt.gen = agen
  THEN [cred |-> attempt.cred, gen |-> attempt.gen, mat |-> attempt.mat]
  ELSE parked

\* accept_staged: the staged store holds this credential, once and alive.
accept_staged(f) == verdict(f.mat) = "alive"

\* perform_reauthorization goes ahead: what was staged is accepted, and no
\* project that reads the credential has a run in flight.
MayReplace(f) ==
  /\ accept_staged(f)
  /\ \A p \in Projects : assigned[p] = f.cred => NoActiveRun(p)

\* apply_finished_reauthorization, run at every tick and after every command,
\* up to the swap: a superseded login is dropped, and one that may not go ahead.
Apply ==
  /\ Ready /\ Finished # NoParked
  /\ attempt' = IF attempt.reauth /\ attempt.ended THEN NoAttempt ELSE attempt
  /\ parked' = NoParked
  /\ LET f == Finished
         c == f.cred
         dropped == (({parked.mat} \union Lost(attempt)) \ {f.mat, 0})
     IN IF f.gen = agen /\ MayReplace(f)
        THEN /\ loop' = [Idle EXCEPT !.op = "swap", !.cred = c, !.mat = f.mat]
             /\ superseded' = superseded \union dropped
        ELSE /\ loop' = Mark(c, runtime_state(live[c]))
             /\ superseded' = superseded \union dropped \union ({f.mat} \ {0})
  /\ UNCHANGED <<cstate, generation, live, dead, agen, logins, late, session, assigned, run,
                 countVars, accepted>>

\* perform_reauthorization, the swap: in place and proven, or put back.  With
\* nothing to put back the new store stays where it is.
SwapSucceeds ==
  /\ loop.op = "swap"
  /\ live' = [live EXCEPT ![loop.cred] = loop.mat]
  /\ loop' = [loop EXCEPT !.op = "accept"]
  /\ UNCHANGED <<cstate, generation, dead, loginVars, late, session, assigned, run, countVars,
                 superseded, accepted>>

SwapFails ==
  /\ loop.op = "swap"
  /\ \/ UNCHANGED live
     \/ live[loop.cred] = 0 /\ live' = [live EXCEPT ![loop.cred] = loop.mat]
  /\ loop' = Mark(loop.cred, runtime_state(live'[loop.cred]))
  /\ UNCHANGED <<cstate, generation, dead, loginVars, late, session, assigned, run, countVars,
                 superseded, accepted>>

\* Mutant: new material under the old generation.
accept_quietly ==
  /\ loop.op = "accept"
  /\ cstate' = [cstate EXCEPT ![loop.cred] = "authorized"]
  /\ accepted' = [accepted EXCEPT ![loop.cred] = loop.mat]
  /\ loop' = Idle
  /\ UNCHANGED <<generation, live, dead, loginVars, late, session, assigned, run, countVars,
                 superseded>>

\* accept_reauthorization: the one place the credential's generation moves.
accept_reauthorization ==
  /\ loop.op = "accept"
  /\ cstate' = [cstate EXCEPT ![loop.cred] = "authorized"]
  /\ generation' = [generation EXCEPT ![loop.cred] = @ + 1]
  /\ accepted' = [accepted EXCEPT ![loop.cred] = loop.mat]
  /\ loop' = Idle
  /\ UNCHANGED <<live, dead, loginVars, late, session, assigned, run, countVars, superseded>>

\* deliverable_code: a code that was printed and never sent.
Deliverable == attempt.phase = "pending"

\* deliver_ready_device_code: it goes out once.
Deliver ==
  /\ Ready /\ Deliverable
  /\ attempt' = [attempt EXCEPT !.phase = "sent"]
  /\ UNCHANGED <<cstate, generation, live, dead, agen, parked, logins, late, session, loop,
                 assigned, run, countVars, superseded, accepted>>

\* acknowledge_delivery: the Control Plane holds the code.
Acknowledge ==
  /\ Command /\ attempt.phase = "sent"
  /\ attempt' = [attempt EXCEPT !.phase = "acknowledged"]
  /\ UNCHANGED <<cstate, generation, live, dead, agen, parked, logins, late, session, loop,
                 assigned, run, countVars, superseded, accepted>>

\* Mutant: a login without a code yet has nothing to lose.
UndeliveredCode(ended) ==
  IF ended THEN attempt.phase \in {"pending", "sent"} ELSE attempt.phase = "sent"

\* cancel_undelivered: a code that was not confirmed in time, or whose session
\* is gone, and a login that has no code yet when the session goes.
Undelivered(ended) ==
  IF ended THEN attempt.phase \in {"producing", "pending", "sent"} ELSE attempt.phase = "sent"

DeliveryTimeout ==
  /\ Command /\ Undelivered(FALSE)
  /\ abandon_attempt
  /\ loop' = Cancelled(attempt.cred)
  /\ UNCHANGED <<cstate, generation, live, dead, late, session, assigned, run, countVars, accepted>>

SessionEnds ==
  /\ Command /\ faults < MaxFaults
  /\ faults' = faults + 1
  /\ session' = FALSE
  /\ IF Undelivered(TRUE)
     THEN abandon_attempt /\ loop' = Cancelled(attempt.cred)
     ELSE UNCHANGED <<loginVars, superseded, loop>>
  /\ UNCHANGED <<cstate, generation, live, dead, late, assigned, run, runs, accepted>>

SessionStarts ==
  /\ ~session /\ loop = Idle
  /\ session' = TRUE
  /\ UNCHANGED <<cstate, generation, live, dead, loginVars, late, loop, assigned, run, countVars,
                 superseded, accepted>>

-----------------------------------------------------------------------------
(* Runs.                                                                   *)

\* credential_usable_for_run: asked before the registry is locked.
RunChecks(p) ==
  /\ run[p].pc = "none" /\ runs < MaxRuns
  /\ assigned[p] # NoCredential /\ usable(assigned[p])
  /\ run' = [run EXCEPT ![p] = [NoRun EXCEPT !.pc = "checked", !.cred = assigned[p]]]
  /\ UNCHANGED <<cstate, generation, live, dead, loginVars, late, session, loop, assigned,
                 countVars, superseded, accepted>>

\* Mutant: only the assignment is checked again.
RunStartsChanging(p) ==
  /\ run[p].pc = "checked"
  /\ IF assigned[p] # run[p].cred
     THEN run' = [run EXCEPT ![p] = NoRun] /\ UNCHANGED runs
     ELSE /\ run' = [run EXCEPT ![p].pc = "active", ![p].gen = generation[run[p].cred]]
          /\ runs' = runs + 1
  /\ UNCHANGED <<cstate, generation, live, dead, loginVars, late, session, loop, assigned, faults,
                 superseded, accepted>>

\* credential_run_guard under the lock the run is created under, then the
\* generation its report will carry.
RunStarts(p) ==
  /\ run[p].pc = "checked"
  /\ IF Changing(p) \/ assigned[p] # run[p].cred
     THEN run' = [run EXCEPT ![p] = NoRun] /\ UNCHANGED runs
     ELSE /\ run' = [run EXCEPT ![p].pc = "active", ![p].gen = generation[run[p].cred]]
          /\ runs' = runs + 1
  /\ UNCHANGED <<cstate, generation, live, dead, loginVars, late, session, loop, assigned, faults,
                 superseded, accepted>>

\* The runtime writes off the grant a run is using.
RuntimeWritesOff(p) ==
  /\ run[p].pc = "active" /\ live[run[p].cred] \notin dead \union {0}
  /\ dead' = dead \union {live[run[p].cred]}
  /\ UNCHANGED <<cstate, generation, live, loginVars, late, session, loop, assigned, run,
                 countVars, superseded, accepted>>

RunEnds(p) ==
  /\ run[p].pc = "active"
  /\ run' = [run EXCEPT ![p].pc = "ended"]
  /\ UNCHANGED <<cstate, generation, live, dead, loginVars, late, session, loop, assigned,
                 countVars, superseded, accepted>>

\* reconcile_credential_after_run asks the runtime first ...
RunAsks(p) ==
  /\ run[p].pc = "ended"
  /\ run' = IF runtime_state(live[run[p].cred]) = "reauthorization_required"
            THEN [run EXCEPT ![p].pc = "dead"] ELSE [run EXCEPT ![p] = NoRun]
  /\ UNCHANGED <<cstate, generation, live, dead, loginVars, late, session, loop, assigned,
                 countVars, superseded, accepted>>

\* ... and report_grant_dead applies what it heard only to the same material,
\* and never over a login.
report_grant_dead(p) ==
  /\ run[p].pc = "dead"
  /\ run' = [run EXCEPT ![p] = NoRun]
  /\ LET c == run[p].cred IN
     cstate' = IF /\ generation[c] = run[p].gen
                  /\ cstate[c] \notin {"reauthorizing", "authorizing"}
               THEN [cstate EXCEPT ![c] = "reauthorization_required"] ELSE cstate
  /\ UNCHANGED <<generation, live, dead, loginVars, late, session, loop, assigned, countVars,
                 superseded, accepted>>

-----------------------------------------------------------------------------
\* The daemon dies and starts again: the registry and the homes are on disk,
\* everything else is gone, and a run in flight is supervised anew.
Crash ==
  /\ faults < MaxFaults
  /\ faults' = faults + 1
  /\ attempt' = NoAttempt /\ parked' = NoParked /\ agen' = 0
  /\ superseded' = superseded \union Lost(attempt) \union ({parked.mat} \ {0})
  /\ late' = {}
  /\ loop' = Idle
  /\ session' = FALSE
  /\ run' = [p \in Projects |->
       IF run[p].pc = "active" THEN [run[p] EXCEPT !.gen = generation[run[p].cred]] ELSE NoRun]
  /\ UNCHANGED <<cstate, generation, live, dead, logins, assigned, runs, accepted>>

Next ==
  \/ ReaderCode \/ ReaderGivesUp
  \/ \E r \in late : ReaderReads(r) \/ ReaderMarks(r)
  \/ \E approved \in BOOLEAN : LoginEnds(approved)
  \/ \E c \in Credentials :
       \/ authorize_credential(c) \/ reauthorize_credential(c)
       \/ cancel_credential(c) \/ revoke_credential(c)
  \/ provider_cancel
  \/ LoopMarks \/ ListJudges \/ ListWrites
  \/ \E p \in Projects, c \in Credentials \union {NoCredential} : assign_credential(p, c)
  \/ Apply \/ SwapSucceeds \/ SwapFails \/ accept_reauthorization \/ Deliver
  \/ Acknowledge \/ DeliveryTimeout \/ SessionEnds \/ SessionStarts
  \/ \E p \in Projects :
       \/ RunChecks(p) \/ RunStarts(p) \/ RuntimeWritesOff(p) \/ RunEnds(p) \/ RunAsks(p)
       \/ report_grant_dead(p)
  \/ Crash

Spec == Init /\ [][Next]_vars

\* The loop goes on, a reader ends, a login expires, a session is tried again,
\* and the Control Plane asks for the list: at every authentication, after
\* every credential command, and while a page shows a credential unsettled.
Fairness ==
  /\ WF_vars(LoopMarks \/ ListWrites \/ SwapSucceeds \/ SwapFails \/ accept_reauthorization)
  /\ SF_vars(Apply)
  /\ SF_vars(Deliver)
  /\ WF_vars(ReaderCode \/ ReaderGivesUp)
  /\ WF_vars(\E r \in late : ReaderReads(r) \/ ReaderMarks(r))
  /\ WF_vars(LoginEnds(FALSE))
  /\ WF_vars(SessionStarts)
  /\ SF_vars(ListJudges)

FairSpec == Spec /\ Fairness

-----------------------------------------------------------------------------
(* Properties.                                                             *)

\* Material of a replacement that was cancelled, given up or overtaken by a
\* later login never gets into a home (the generation guards of settle_attempt
\* and apply_finished_reauthorization).
SupersededDiscarded == \A c \in Credentials : live[c] \notin superseded

\* While the material of a credential is being moved no run of a project that
\* reads it is in flight (begin_worker_change against credential_run_guard).
SwapExcludesRuns ==
  loop.op = "swap" =>
    \A p \in Projects : assigned[p] = loop.cred => NoActiveRun(p)

\* A credential holding a replacement that was accepted is never sent back to
\* be authorized again by a run that used what was replaced: a late report
\* moves it only if the material it holds now was written off.
ReportAboutCurrent ==
  [][\A p \in Projects, c \in Credentials :
       report_grant_dead(p) /\ cstate'[c] # cstate[c] /\ live[c] # 0 /\ live[c] = accepted[c]
         => live[c] \in dead]_vars

\* No session, no unconfirmed code: a login that goes on without a session is
\* one whose code the Control Plane holds.
NoOrphanLogin ==
  ~session /\ InFlight => attempt.phase = "acknowledged"

\* A credential never waits for ever on a login: whatever cancels, loses or
\* interrupts the login, its state is settled.
LoginSettles ==
  \A c \in Credentials :
    cstate[c] \in {"authorizing", "reauthorizing"} ~>
      cstate[c] \notin {"authorizing", "reauthorizing"}
=============================================================================
