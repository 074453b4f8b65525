------------------------------ MODULE RunState ------------------------------
(***************************************************************************)
(* The durable run state machine of the Node (src/src/runstate.rs) and the *)
(* two decision tables built on it: what a status reported by Hermes means *)
(* and what reconciliation makes of a run that was left non-terminal       *)
(* (src/src/runner.rs).  Pure operators, no state.                         *)
(*                                                                         *)
(* Hermes, the agent runtime, is external: BackendLive and BackendTerminal *)
(* are the statuses the source says it reports.  "forgotten" stands for a  *)
(* 404 answer, "none" for a run that was never submitted.                  *)
(***************************************************************************)

Terminal == {"completed", "failed", "cancelled", "interrupted", "lost"}

Active == {"created", "starting", "running", "waiting_for_approval", "recovering"}

RunStatus == Active \union Terminal

\* Only outcomes the Node could not determine may be retried.
IsRetryable(s) == s \in {"interrupted", "lost"}

\* What Hermes reports of a run it still executes, and of one it finished.
BackendLive == {"running", "waiting_for_approval", "stopping"}

BackendTerminal == {"completed", "failed", "cancelled"}

BackendStatus == BackendLive \union BackendTerminal \union {"none", "forgotten"}

\* Mutant: the early return for terminal records is dropped.
ValidTransitionNoTerminalGuard(from, to) ==
  \/ from = to
  \/ from = "created" /\ to \in {"starting", "failed", "cancelled", "lost"}
  \/ to \in Terminal /\ from # "created"
  \/ from \in Active \ {"created"} /\ to \in {"running", "waiting_for_approval", "recovering"}

\* validate_transition: the same status again is a no-op, a terminal record
\* never changes, and every other pair is listed.
ValidTransition(from, to) ==
  \/ from = to
  \/ from = "created" /\ to \in {"starting", "failed", "cancelled", "lost"}
  \/ from = "starting" /\ to \in {"running", "recovering"} \union Terminal
  \/ from = "running" /\ to \in {"waiting_for_approval", "recovering"} \union Terminal
  \/ from = "waiting_for_approval" /\ to \in {"running", "recovering"} \union Terminal
  \/ from = "recovering" /\ to \in {"running", "waiting_for_approval"} \union Terminal

\* Mutant: an unrecognised status is taken for a finished run.
FromHermesStatusGuessing(b) ==
  IF b \in BackendTerminal \union {"waiting_for_approval", "running"} THEN b ELSE "completed"

\* from_hermes_status: anything unrecognised is still running, never an
\* invented result.
FromHermesStatus(b) ==
  IF b \in BackendTerminal \union {"waiting_for_approval"} THEN b ELSE "running"

\* reconcile_decision: adopt what Hermes reports; a run Hermes does not know is
\* lost if there is no evidence it ever ran and interrupted otherwise.
ReconcileDecision(current, backend, journalled) ==
  IF backend # "forgotten" THEN FromHermesStatus(backend)
  ELSE IF current # "created" /\ journalled THEN "interrupted" ELSE "lost"
=============================================================================
