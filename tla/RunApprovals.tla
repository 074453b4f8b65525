---------------------------- MODULE RunApprovals ----------------------------
(***************************************************************************)
(* The approval requests of one run: the worker that journals a request    *)
(* and answers it when the run's policy says so (the stream callback of    *)
(* follow_to_terminal and spawn_auto_resolution, src/src/runner.rs), the   *)
(* operator's decision and change of policy (src/src/service.rs), and the  *)
(* approval rows both claim (src/src/registry.rs).                         *)
(*                                                                         *)
(* Hermes, external, waits on one request at a time, and an answer names   *)
(* the run, not the request: it answers whatever Hermes waits on when it   *)
(* arrives.  A request has no identifier either; the journal recognises a  *)
(* frame it has seen by its content, so a row is known by its frame.       *)
(*                                                                         *)
(* An action is one registry statement or transaction, or one exchange     *)
(* with Hermes.  Service calls exclude each other (the registry mutex,     *)
(* kept across the exchange); the worker and the spawned tasks have their  *)
(* own connection.                                                         *)
(***************************************************************************)
EXTENDS Integers

CONSTANTS
  NumRequests,  \* bound: how many approvals Hermes asks for
  Frames,       \* contents of approval.request frames
  NoFrame,      \* no frame
  MaxCrashes,   \* bound: how often the daemon dies
  Hazards       \* which of AllHazards the environment may show

\* crash             the daemon dies
\* unreachable       an answer does not reach Hermes, or its reply is lost
\* approval_timeout  Hermes stops waiting for an approval (300 s by default)
\* identical         Hermes asks again with the very same frame
\* policy_race       the policy changes between the worker's read and its claim
\* end_race          the run ends inside set_run_approval_policy
\* forgotten         Hermes restarts and forgets the run and what it waited on
\* stall             a live run shows no event for STREAM_IDLE_BUDGET
AllHazards == {"crash", "unreachable", "approval_timeout", "identical", "policy_race", "end_race",
               "forgotten", "stall"}

ASSUME NumRequestsAssumption == NumRequests \in Nat
ASSUME NoFrameAssumption == NoFrame \notin Frames
ASSUME HazardsAssumption == Hazards \subseteq AllHazards

Requests == 1..NumRequests
NoRequest == 0
Choices == {"once", "session", "deny"}
Policies == {"manual", "allow_all_for_run"}

VARIABLES
  asked,       \* external: how many requests Hermes has made
  frame,       \* external: the frame of each
  waiting,     \* external: the request Hermes waits on
  outcome,     \* external: how each request ended
  hdone,       \* external: Hermes finished the run, or forgot it
  lastSeq,     \* runs.last_event_seq, counting the frames only
  seqOf,       \* run_events.seq of a frame, 0 before it is journalled
  decision,    \* run_approvals.decision; "none" without a row, "open" for NULL
  resolution,  \* what the journal entry at resolution_seq says of the forward
  policy,      \* runs.approval_policy
  ended,       \* the run's status is terminal
  wpc,         \* where the worker is
  wframe,      \* worker: the frame it handles
  got,         \* worker: the last request its present stream has delivered
  autos,       \* the auto-resolution tasks, by the request they claimed
  call,        \* where the service call under the registry mutex is
  callFrame,   \* ... the request it read or claimed
  callArg,     \* ... its choice or policy
  crashes,     \* how often the daemon died
  sends,       \* history: how often the decision on a row was forwarded
  via          \* history: the row whose decision answered a request

hermesVars == <<asked, frame, waiting, outcome, hdone>>
registryVars == <<lastSeq, seqOf, decision, resolution, policy, ended>>
callVars == <<call, callFrame, callArg>>
historyVars == <<sends, via>>
workerVars == <<wpc, wframe, got>>
approvalVars == <<hermesVars, registryVars, workerVars, autos, callVars, crashes, historyVars>>

\* Every variable has the type its row or task gives it; "always" never gets in.
ApprovalsTypeOK ==
  /\ asked \in 0..NumRequests
  /\ frame \in [Requests -> Frames \union {NoFrame}]
  /\ waiting \in Requests \union {NoRequest}
  /\ outcome \in [Requests -> Choices \union {"none", "timeout"}]
  /\ hdone \in BOOLEAN
  /\ lastSeq \in Nat
  /\ seqOf \in [Frames -> Nat]
  /\ decision \in [Frames -> Choices \union {"none", "open"}]
  /\ resolution \in [Frames -> {"none", "resolved", "failed"}]
  /\ policy \in Policies
  /\ ended \in BOOLEAN
  /\ wpc \in {"down", "stream", "request", "policy", "claim"}
  /\ wframe \in Frames \union {NoFrame}
  /\ got \in Requests \union {NoRequest}
  /\ autos \in [Frames -> {"none", "claimed", "resolved", "failed"}]
  /\ call \in {"idle", "decide", "forward", "resolved", "failed", "policy"}
  /\ callFrame \in Frames \union {NoFrame}
  /\ callArg \in Choices \union Policies \union {"none"}
  /\ crashes \in Nat
  /\ sends \in [Frames -> Nat]
  /\ via \in [Requests -> Frames \union {NoFrame}]

\* A submitted run, with the policy its creation asked for.
ApprovalsInit ==
  /\ asked = 0
  /\ frame = [k \in Requests |-> NoFrame]
  /\ waiting = NoRequest
  /\ outcome = [k \in Requests |-> "none"]
  /\ hdone = FALSE
  /\ lastSeq = 0
  /\ seqOf = [f \in Frames |-> 0]
  /\ decision = [f \in Frames |-> "none"]
  /\ resolution = [f \in Frames |-> "none"]
  /\ policy \in Policies
  /\ ended = FALSE
  /\ wpc = "stream"
  /\ wframe = NoFrame
  /\ got = NoRequest
  /\ autos = [f \in Frames |-> "none"]
  /\ call = "idle" /\ callFrame = NoFrame /\ callArg = "none"
  /\ crashes = 0
  /\ sends = [f \in Frames |-> 0]
  /\ via = [k \in Requests |-> NoFrame]

-----------------------------------------------------------------------------
(* Hermes.                                                                 *)

\* The agent needs an approval and stops until it has one.
HAsk(f) ==
  /\ ~hdone /\ waiting = NoRequest /\ asked < NumRequests
  /\ "identical" \in Hazards \/ \A k \in Requests : frame[k] # f
  /\ asked' = asked + 1
  /\ waiting' = asked + 1
  /\ frame' = [frame EXCEPT ![asked + 1] = f]
  /\ UNCHANGED <<outcome, hdone, registryVars, workerVars, autos, callVars, crashes, historyVars>>

HTimeout ==
  /\ "approval_timeout" \in Hazards
  /\ waiting # NoRequest
  /\ outcome' = [outcome EXCEPT ![waiting] = "timeout"]
  /\ waiting' = NoRequest
  /\ UNCHANGED <<asked, frame, hdone, registryVars, workerVars, autos, callVars, crashes, historyVars>>

\* The run ends, or the container restarts and a status read answers 404.
HDone ==
  /\ ~hdone
  /\ waiting = NoRequest \/ "forgotten" \in Hazards
  /\ hdone' = TRUE
  /\ waiting' = NoRequest
  /\ UNCHANGED <<asked, frame, outcome, registryVars, workerVars, autos, callVars,
                 crashes, historyVars>>

\* resolve_approval(run, choice) on behalf of row f: it reaches Hermes or not,
\* and r is what the caller is told.
Forward(f, choice, r) ==
  /\ sends' = [sends EXCEPT ![f] = @ + 1]
  /\ \/ /\ waiting # NoRequest
        /\ r = "resolved" \/ (r = "failed" /\ "unreachable" \in Hazards)
        /\ outcome' = [outcome EXCEPT ![waiting] = choice]
        /\ via' = [via EXCEPT ![waiting] = f]
        /\ waiting' = NoRequest
     \/ /\ waiting = NoRequest \/ "unreachable" \in Hazards
        /\ r = "failed"
        /\ UNCHANGED <<outcome, via, waiting>>
  /\ UNCHANGED <<asked, frame, hdone>>

-----------------------------------------------------------------------------
(* The approval rows.                                                      *)

\* Mutant: the claim does not ask for a row without a decision.
ClaimableAgain(f) == decision[f] # "none"

\* record_approval_decision changes a row that has no decision yet.
Claimable(f) == decision[f] = "open"

\* pending_approval: the latest request without a decision.
PendingApproval(f) ==
  /\ decision[f] = "open"
  /\ \A g \in Frames : decision[g] = "open" => seqOf[g] <= seqOf[f]

-----------------------------------------------------------------------------
(* The worker.                                                             *)

\* A frame arrives, once and in order on each stream.  It is journalled unless
\* its content already is; on a settled run the refused status change undoes that.
WFrame(k) ==
  LET f == frame[k] IN
  /\ wpc = "stream" /\ k <= asked /\ k > got
  /\ got' = k
  /\ \/ seqOf[f] # 0 /\ wpc' = "request" /\ wframe' = f /\ UNCHANGED <<lastSeq, seqOf>>
     \/ /\ seqOf[f] = 0 /\ ~ended
        /\ lastSeq' = lastSeq + 1
        /\ seqOf' = [seqOf EXCEPT ![f] = lastSeq + 1]
        /\ wpc' = "request" /\ wframe' = f
  /\ UNCHANGED <<hermesVars, decision, resolution, policy, ended, autos, callVars, crashes, historyVars>>

\* record_approval_request: INSERT OR IGNORE.
WRequest ==
  /\ wpc = "request"
  /\ decision' = [decision EXCEPT ![wframe] = IF @ = "none" THEN "open" ELSE @]
  /\ wpc' = "policy"
  /\ UNCHANGED <<hermesVars, lastSeq, seqOf, resolution, policy, ended, wframe, got, autos, callVars,
                 crashes, historyVars>>

\* The policy is read from the registry for every request.
WPolicy ==
  /\ wpc = "policy"
  /\ \/ policy = "allow_all_for_run" /\ wpc' = "claim" /\ UNCHANGED wframe
     \/ policy = "manual" /\ wpc' = "stream" /\ wframe' = NoFrame
  /\ UNCHANGED <<hermesVars, registryVars, got, autos, callVars, crashes, historyVars>>

\* Mutant: the claimed request is left to the end of the stream.
WClaimDeferred ==
  /\ wpc = "claim"
  /\ decision' = [decision EXCEPT ![wframe] = IF @ = "open" THEN "once" ELSE @]
  /\ wpc' = "stream" /\ wframe' = NoFrame
  /\ UNCHANGED <<hermesVars, lastSeq, seqOf, resolution, policy, ended, got, autos, callVars, crashes, historyVars>>

\* The policy claims the row through the gate the operator uses, and a claimed
\* row is forwarded by a task of its own.
WClaim ==
  /\ wpc = "claim"
  /\ \/ /\ Claimable(wframe)
        /\ decision' = [decision EXCEPT ![wframe] = "once"]
        /\ autos' = [autos EXCEPT ![wframe] = "claimed"]
     \/ ~Claimable(wframe) /\ UNCHANGED <<decision, autos>>
  /\ wpc' = "stream" /\ wframe' = NoFrame
  /\ UNCHANGED <<hermesVars, lastSeq, seqOf, resolution, policy, ended, got, callVars, crashes, historyVars>>

AutoSend(f) ==
  /\ autos[f] = "claimed"
  /\ \E r \in {"resolved", "failed"} : Forward(f, "once", r) /\ autos' = [autos EXCEPT ![f] = r]
  /\ UNCHANGED <<registryVars, workerVars, callVars, crashes>>

\* Mutant: the entry says resolved whatever Hermes answered.
AutoNoteBlind(f) ==
  /\ autos[f] \in {"resolved", "failed"}
  /\ resolution' = [resolution EXCEPT ![f] = "resolved"]
  /\ autos' = [autos EXCEPT ![f] = "none"]
  /\ UNCHANGED <<hermesVars, lastSeq, seqOf, decision, policy, ended, workerVars, callVars, crashes, historyVars>>

\* approval.auto_resolved is journalled and the row points at it.
AutoNote(f) ==
  /\ autos[f] \in {"resolved", "failed"}
  /\ resolution' = [resolution EXCEPT ![f] = autos[f]]
  /\ autos' = [autos EXCEPT ![f] = "none"]
  /\ UNCHANGED <<hermesVars, lastSeq, seqOf, decision, policy, ended, workerVars, callVars, crashes, historyVars>>

\* The stream ends, because Hermes parked the run or the connection broke, and
\* Hermes still executes it: the worker follows it on a new stream.  Nothing makes
\* that happen: Hermes may as well hold the stream open while it waits.
WReconnect ==
  /\ wpc = "stream" /\ ~hdone
  /\ got' = NoRequest
  /\ UNCHANGED <<hermesVars, registryVars, wpc, wframe, autos, callVars, crashes, historyVars>>

MayEnd == "end_race" \in Hazards \/ call # "policy"

\* The stream ended and the run is finalized: Hermes reports a terminal status or
\* does not know the run, the status read fails, or the idle budget is spent.
WFinish ==
  /\ wpc = "stream" /\ MayEnd
  /\ hdone \/ {"unreachable", "stall"} \intersect Hazards # {}
  /\ ended' = TRUE
  /\ wpc' = "down" /\ got' = NoRequest
  /\ UNCHANGED <<hermesVars, lastSeq, seqOf, decision, resolution, policy, wframe, autos, callVars,
                 crashes, historyVars>>

-----------------------------------------------------------------------------
(* The operator.                                                           *)

Hangup == call' = "idle" /\ callFrame' = NoFrame /\ callArg' = "none"

\* resolve_approval: the choice is checked and the pending request read.
ResolveRead(f, choice) ==
  /\ call = "idle"
  /\ choice # "always" /\ choice \in {"once", "session", "deny"}
  /\ PendingApproval(f)
  /\ call' = "decide" /\ callFrame' = f /\ callArg' = choice
  /\ UNCHANGED <<hermesVars, registryVars, workerVars, autos, crashes, historyVars>>

\* Mutant: the answer of record_approval_decision is ignored.
ResolveClaimUnchecked ==
  /\ call = "decide"
  /\ decision' = [decision EXCEPT ![callFrame] = IF @ = "open" THEN callArg ELSE @]
  /\ call' = "forward" /\ UNCHANGED <<callFrame, callArg>>
  /\ UNCHANGED <<hermesVars, lastSeq, seqOf, resolution, policy, ended, workerVars, autos, crashes, historyVars>>

\* The decision is claimed before it is forwarded; the policy may have been first.
ResolveClaim ==
  /\ call = "decide"
  /\ \/ /\ Claimable(callFrame)
        /\ decision' = [decision EXCEPT ![callFrame] = callArg]
        /\ call' = "forward" /\ UNCHANGED <<callFrame, callArg>>
     \/ ~Claimable(callFrame) /\ Hangup /\ UNCHANGED decision
  /\ UNCHANGED <<hermesVars, lastSeq, seqOf, resolution, policy, ended, workerVars, autos, crashes, historyVars>>

ResolveSend ==
  /\ call = "forward"
  /\ \E r \in {"resolved", "failed"} : Forward(callFrame, callArg, r) /\ call' = r
  /\ UNCHANGED <<callFrame, callArg, registryVars, workerVars, autos, crashes>>

\* asterism.approval.decision is journalled with Hermes' answer or the failure.
ResolveNote ==
  /\ call \in {"resolved", "failed"}
  /\ resolution' = [resolution EXCEPT ![callFrame] = call]
  /\ Hangup
  /\ UNCHANGED <<hermesVars, lastSeq, seqOf, decision, policy, ended, workerVars, autos, crashes, historyVars>>

\* set_run_approval_policy reads the status and the policy ...
PolicyCheck(p) ==
  /\ call = "idle" /\ ~ended /\ policy # p
  /\ call' = "policy" /\ callArg' = p
  /\ UNCHANGED <<callFrame, hermesVars, registryVars, workerVars, autos, crashes, historyVars>>

\* ... and writes the new one with a statement of its own.
PolicyWrite ==
  /\ call = "policy"
  /\ "policy_race" \in Hazards \/ wpc # "claim"
  /\ policy' = callArg
  /\ Hangup
  /\ UNCHANGED <<hermesVars, lastSeq, seqOf, decision, resolution, ended, workerVars, autos, crashes, historyVars>>

-----------------------------------------------------------------------------
(* The daemon.                                                             *)

\* Tasks and calls vanish, rows and Hermes stay.
Crash ==
  /\ "crash" \in Hazards /\ crashes < MaxCrashes
  /\ crashes' = crashes + 1
  /\ wpc' = "down" /\ wframe' = NoFrame /\ got' = NoRequest
  /\ autos' = [f \in Frames |-> "none"]
  /\ Hangup
  /\ UNCHANGED <<hermesVars, registryVars, historyVars>>

\* A pass settles a run without a worker, on Hermes' answer or the lack of one.
PassSettles ==
  /\ wpc = "down" /\ ~ended /\ MayEnd
  /\ hdone \/ "unreachable" \in Hazards
  /\ ended' = TRUE
  /\ UNCHANGED <<hermesVars, lastSeq, seqOf, decision, resolution, policy, workerVars, autos, callVars,
                 crashes, historyVars>>

\* A pass re-attaches a worker to the live run.  It may also leave it parked with
\* none (PDecide and PPick of NodeRuns), so this is never bound to happen.
Attach ==
  /\ wpc = "down" /\ ~ended
  /\ wpc' = "stream"
  /\ UNCHANGED <<hermesVars, registryVars, wframe, got, autos, callVars, crashes, historyVars>>

WorkerStep == WRequest \/ WPolicy \/ WClaim
StreamStep == WReconnect \/ WFinish
PassStep == PassSettles \/ Attach
AutoStep(f) == AutoSend(f) \/ AutoNote(f)
CallStep == ResolveClaim \/ ResolveSend \/ ResolveNote \/ PolicyWrite

ApprovalsNext ==
  \/ \E f \in Frames : HAsk(f) \/ AutoStep(f)
  \/ HTimeout \/ HDone \/ Crash
  \/ \E k \in Requests : WFrame(k)
  \/ WorkerStep \/ StreamStep \/ PassStep \/ CallStep
  \/ \E f \in Frames, choice \in Choices \union {"always"} : ResolveRead(f, choice)
  \/ \E p \in Policies : PolicyCheck(p)

ApprovalsSpec == ApprovalsInit /\ [][ApprovalsNext]_approvalVars

\* Ready tasks run, and Hermes sends the request it waits on to a worker whose
\* stream has not had it.  The end of a stream, the end of a worker and a worker
\* for a run without one are not bound to happen.
Fairness ==
  /\ WF_approvalVars(WorkerStep)
  /\ WF_approvalVars(CallStep)
  /\ \A f \in Frames : WF_approvalVars(AutoStep(f))
  /\ SF_approvalVars(\E k \in Requests : k = waiting /\ WFrame(k))

FairSpec == ApprovalsSpec /\ Fairness

-----------------------------------------------------------------------------
\* The decision on a request is forwarded at most once, whoever claims it -
\* operator, policy, or a worker replaying the stream after a crash.
ForwardedAtMostOnce == \A f \in Frames : sends[f] <= 1

\* An entry that says a decision was applied is about an answer Hermes took.
RecordedAsHermesDid ==
  \A f \in Frames : resolution[f] = "resolved" => \E k \in Requests : via[k] = f

\* A decision answers the request it was made on ("it answers this one
\* request"): what Hermes took for a request is what the row says, and the row
\* is another request's only after Hermes stopped waiting for an earlier one.
StrayOnlyAfterTimeout ==
  \A k \in Requests : via[k] # NoFrame =>
     /\ outcome[k] = decision[via[k]]
     /\ via[k] = frame[k] \/ \E j \in Requests : j < k /\ outcome[j] = "timeout"

\* Under allow_all_for_run a request that a worker is still to receive does not
\* wait for ever, even if Hermes holds the stream open until it is answered:
\* through repeated frames, broken streams and races with the operator it is
\* forwarded while the stream is open, unless the policy is taken back, the worker
\* goes, or a daemon that died had claimed the request and not forwarded it.
AllowAllAnswers ==
  \A k \in Requests :
     policy = "allow_all_for_run" /\ waiting = k /\ wpc = "stream" /\ k > got
       ~> \/ waiting # k \/ policy = "manual" \/ wpc = "down"
          \/ sends[frame[k]] > 0
          \/ crashes > 0 /\ decision[frame[k]] \in Choices
=============================================================================
