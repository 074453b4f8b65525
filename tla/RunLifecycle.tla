---------------------------- MODULE RunLifecycle ----------------------------
(***************************************************************************)
(* What a Node promises about the runs of a project, with no word on how:  *)
(* no lock, worker, reconciliation pass, restart or file appears here.     *)
(*                                                                         *)
(* A run has a record, is handed to Hermes at most once, and is settled    *)
(* once and for good.  It is recorded as completed only when Hermes        *)
(* completed it, and replaced only when its outcome is not known.  A run   *)
(* may be settled before Hermes is done with it, or before it is handed    *)
(* over: what the record says is final, what Hermes does is not undone.    *)
(***************************************************************************)
CONSTANTS Runs, NoRun

VARIABLES
  record,    \* "none", "open", or how the run was settled
  handed,    \* how often the run was handed to Hermes
  result,    \* how Hermes ended it
  replaces   \* the run this one is a retry of

lifecycle == <<record, handed, result, replaces>>

Results == {"completed", "failed", "cancelled"}
Undetermined == {"interrupted", "lost"}

Init ==
  /\ record = [r \in Runs |-> "none"]
  /\ handed = [r \in Runs |-> 0]
  /\ result = [r \in Runs |-> "none"]
  /\ replaces = [r \in Runs |-> NoRun]

Open(r) == record[r] = "none" /\ record' = [record EXCEPT ![r] = "open"]

Create(r) == Open(r) /\ UNCHANGED <<handed, result, replaces>>

Retry(q, r) ==
  /\ record[q] \in Undetermined
  /\ Open(r)
  /\ replaces' = [replaces EXCEPT ![r] = q]
  /\ UNCHANGED <<handed, result>>

HandOver(r) ==
  /\ record[r] # "none" /\ handed[r] = 0
  /\ handed' = [handed EXCEPT ![r] = 1]
  /\ UNCHANGED <<record, result, replaces>>

Finish(r, s) ==
  /\ handed[r] = 1 /\ result[r] = "none"
  /\ result' = [result EXCEPT ![r] = s]
  /\ UNCHANGED <<record, handed, replaces>>

Settle(r, s) ==
  /\ record[r] = "open"
  /\ s = "completed" => result[r] = "completed"
  /\ record' = [record EXCEPT ![r] = s]
  /\ UNCHANGED <<handed, result, replaces>>

Next ==
  \/ \E r \in Runs : Create(r) \/ HandOver(r)
  \/ \E q, r \in Runs : Retry(q, r)
  \/ \E r \in Runs, s \in Results : Finish(r, s)
  \/ \E r \in Runs, s \in Results \union Undetermined : Settle(r, s)

Spec == Init /\ [][Next]_lifecycle
=============================================================================
