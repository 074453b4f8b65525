----------------------------- MODULE RemoteRuns -----------------------------
(***************************************************************************)
(* What the channel between the Control Plane and a Node promises about    *)
(* the runs asked for through it, with no word on how: no connection,      *)
(* frame, inbox, outbox, subscription, timeout or crash appears here.      *)
(*                                                                         *)
(* A command takes effect at most once, and only if somebody asked for it. *)
(* What the Control Plane holds as its outcome is final, and completed     *)
(* only if the Node completed it with that effect; it may hold a command   *)
(* as failed or indeterminate and be wrong.  The events it has are events  *)
(* the Node recorded, in whatever order they arrived; and the Node lets go *)
(* of a prefix of its journal only when the Control Plane has all of it.   *)
(***************************************************************************)
EXTENDS Integers

CONSTANTS Runs, NumEvents

VARIABLES
  told,      \* what the Control Plane holds of the command
  effects,   \* how often it took effect on the Node
  done,      \* how the Node settled it
  recorded,  \* how many events the Node recorded of the run
  known,     \* the events the Control Plane has
  released   \* up to where the Node sends no more, -1 before anybody listens

remote == <<told, effects, done, recorded, known, released>>

Outcomes == {"completed", "failed", "rejected", "indeterminate"}

Init ==
  /\ told = [r \in Runs |-> "none"]
  /\ effects = [r \in Runs |-> 0]
  /\ done = [r \in Runs |-> "open"]
  /\ recorded = [r \in Runs |-> 0]
  /\ known = [r \in Runs |-> {}]
  /\ released = [r \in Runs |-> -1]

Ask(r) ==
  /\ told[r] = "none"
  /\ told' = [told EXCEPT ![r] = "open"]
  /\ UNCHANGED <<effects, done, recorded, known, released>>

\* The run exists from now on; its journal begins with it.
Execute(r) ==
  /\ told[r] # "none" /\ done[r] = "open" /\ effects[r] = 0
  /\ effects' = [effects EXCEPT ![r] = 1]
  /\ recorded' = [recorded EXCEPT ![r] = 1]
  /\ UNCHANGED <<told, done, known, released>>

Conclude(r, s) ==
  /\ told[r] # "none" /\ done[r] = "open"
  /\ s = "completed" => effects[r] = 1
  /\ done' = [done EXCEPT ![r] = s]
  /\ UNCHANGED <<told, effects, recorded, known, released>>

Settle(r, s) ==
  /\ told[r] = "open"
  /\ s = "completed" => done[r] = "completed"
  /\ told' = [told EXCEPT ![r] = s]
  /\ UNCHANGED <<effects, done, recorded, known, released>>

Record(r) ==
  /\ effects[r] = 1 /\ recorded[r] < NumEvents
  /\ recorded' = [recorded EXCEPT ![r] = @ + 1]
  /\ UNCHANGED <<told, effects, done, known, released>>

Learn(r, n) ==
  /\ n <= recorded[r]
  /\ known' = [known EXCEPT ![r] = @ \union {n}]
  /\ UNCHANGED <<told, effects, done, recorded, released>>

Release(r, n) ==
  /\ n > released[r] /\ 1..n \subseteq known[r]
  /\ released' = [released EXCEPT ![r] = n]
  /\ UNCHANGED <<told, effects, done, recorded, known>>

Next ==
  \/ \E r \in Runs : Ask(r) \/ Execute(r) \/ Record(r)
  \/ \E r \in Runs, s \in {"completed", "failed"} : Conclude(r, s)
  \/ \E r \in Runs, s \in Outcomes : Settle(r, s)
  \/ \E r \in Runs, n \in 1..NumEvents : Learn(r, n)
  \/ \E r \in Runs, n \in 0..NumEvents : Release(r, n)

Spec == Init /\ [][Next]_remote
=============================================================================
