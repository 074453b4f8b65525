-------------------------- MODULE NodeUpdateProofs --------------------------
(***************************************************************************)
(* TLAPS proofs about NodeUpdate, for any releases, workers and bounds,    *)
(* and any set of hazards unless a theorem says which.                     *)
(*                                                                         *)
(* The argument follows the files.  From the rename that takes the runtime *)
(* aside to the commit, the tree that served is the one moved aside;       *)
(* before and after, it is in place, or else still aside, and the recovery *)
(* of the next attempt puts it back (KeptInv).  An install never runs over *)
(* it, so the enrollment an install may be refused loses nothing           *)
(* (InstalledInv).  By each step an attempt has written what its target    *)
(* calls for, one part after the other (ReadyInv), which is why a commit   *)
(* is coherent.  What an operation has to put back is where its undo looks *)
(* for it (BackInv), as long as the configuration could be captured; a     *)
(* roll-back that could not withdraw the new runtime leaves the old one    *)
(* moved aside.                                                            *)
(*                                                                         *)
(* That a success is coherent when it is declared, possibly long after the *)
(* evidence was recorded, needs the time between: while an operation with  *)
(* evidence is live every request of the Control Plane has been answered,  *)
(* so no update of its can start, and unless an operator has set out for a *)
(* release the only thing that can be at work is a repair of the very      *)
(* release the operation asked for (ServeInv).                             *)
(***************************************************************************)
EXTENDS NodeUpdate, SequenceTheorems, TLAPS

\* A new runtime is in place, and not proven.
Placed == {"env", "mode", "units", "self", "enroll", "start", "health", "check", "converge",
           "commit"}

\* The runtime has been seen to, and not been touched.
Cleared == {"fetch", "verify", "prepare", "unpack", "aside"}

Unplaced == Cleared \union {"idle", "consume", "handover", "begin", "recover", "in", "report"}

\* Steps an update alone takes.
UpdateOnly == {"undo_files", "undo_units", "judge"}

\* What a process at a step is about, and which requests there are.
StepInv ==
  /\ upd.step \in Placed => upd.swap
  /\ upd.step \in Unplaced => ~upd.swap
  /\ upd.step \notin {"idle", "consume"} => upd.verb # "none" /\ upd.target \in Releases
  /\ upd.step \in UpdateOnly => upd.verb = "update"
  /\ upd.step = "enroll" => upd.verb = "install"
  /\ upd.step = "handover" => ~upd.handed
  /\ upd.step = "undo" /\ ~upd.swap => upd.verb = "update"
  /\ upd.step = "undo_workers" => upd.verb # "update"
  /\ upd.verb # "update" => upd.op = NoOp

\* Operations are numbered as they are created and answered in that order, and
\* a request and an update for one are for the release it asks for.
OpInv ==
  /\ \A o \in 1..ops : wanted[o] \in Releases
  /\ \A o \in sent : o \in 1..ops /\ 1..o \subseteq sent
  /\ request # NoRequest => request.release \in Releases
  /\ request.op # NoOp => request.op \in sent /\ request.release = wanted[request.op]
  /\ upd.op # NoOp => upd.op \in sent /\ upd.target = wanted[upd.op]

\* A new runtime is in place of the one moved aside.
Swapped == upd.swap /\ upd.step \in Placed \union {"undo"}

\* Release r's runtime is on the host, where the next step looks for it.
Kept(r) ==
  IF Swapped THEN retired = r
  ELSE /\ runtime \in {r, None}
       /\ runtime = None => retired = r
       /\ upd.step \in Cleared => runtime = r

KeptInv == proven # None /\ ~interrupted => Kept(proven)

\* Over a runtime that served, nothing is installed and what an update would
\* put back is an installation.
InstalledInv ==
  proven # None =>
    /\ Installed
    /\ upd.step \notin {"idle", "report"} =>
         /\ upd.verb # "install"
         /\ upd.handed => upd.parked # None
         /\ upd.captured => upd.saved.env # None

\* What an attempt has written by each of its steps.
Proving == {"health", "check", "converge", "commit", "report"}
Selfed == Proving \union {"enroll", "start"}
ReadyInv ==
  /\ upd.step \in Selfed \union {"self", "units", "mode"} => config.env = upd.target
  /\ upd.step \in Selfed \union {"self", "units"} => config.mode = upd.target
  /\ upd.step \in Selfed \union {"self"} => config = Written(upd.target)
  /\ upd.step \in Selfed => binary = upd.target
  /\ upd.step \in Placed \union {"report"} \/ Swapped => runtime = upd.target
  /\ upd.step = "in" => runtime = None
  /\ upd.step \in Proving => node = upd.target /\ hermes = upd.target
  /\ upd.step \in {"commit", "report"} =>
       \A w \in upd.displaced : worker[w] \in {upd.target, None}

\* The runtime an operation found is back, or was left moved aside.
Undone ==
  \/ runtime = upd.before[2]
  \/ retired = upd.before[2] /\ (runtime = None \/ interrupted)

\* What an operation's update found is where its undo looks for it.
BackInv ==
  upd.op # NoOp =>
    /\ upd.handed => upd.parked = upd.before[1]
    /\ ~upd.handed => binary = upd.before[1]
    /\ ~upd.handed /\ upd.step # "handover" => upd.target = binary
    /\ IF upd.step \in {"handover", "begin"} THEN config = upd.before[3]
       ELSE upd.captured /\ upd.saved = upd.before[3]
    /\ upd.step \in {"handover", "begin", "recover"} \union Cleared => runtime = upd.before[2]
    /\ upd.step = "in" \/ Swapped => retired = upd.before[2]
    /\ upd.step = "undo" /\ ~upd.swap => Undone
    /\ upd.step \in {"undo_files", "undo_units", "judge"} => Undone
    /\ upd.step \in {"undo_units", "judge"} /\ upd.clean =>
         binary = upd.before[1] /\ config = upd.before[3]

\* The evidence of a proven update is among its events.
Complete(o) == \E k \in 1..Len(journal[o]) : journal[o][k].state = "complete"

\* The host is release r, and nothing but a repair of it is at work.
Host(r) ==
  /\ binary = r /\ config = Written(r) /\ Kept(r)
  /\ {node, hermes} \subseteq {r, None}
  /\ upd.step # "idle" =>
       upd.verb = "repair" /\ upd.target = r /\ upd.step \notin {"consume", "handover"}

\* Of the workers an operation was proven with, none executes another runtime.
Attended(o) ==
  \A k \in 1..Len(journal[o]) : \A w \in journal[o][k].services :
    worker[w] \in {wanted[o], None}

\* While a proven operation is live the host stays what was proven, unless an
\* operator has set out for a release since.
ServeInv ==
  \A o \in Ops : Complete(o) /\ stage[o] \in Live /\ o \notin overtaken =>
                  Host(wanted[o]) /\ Attended(o)

-----------------------------------------------------------------------------
(* The types, in groups that change together.                              *)

Befores == Maybe \X Maybe \X Configs

Updater ==
  [step : Steps, verb : {"none", "install", "update", "repair"}, unit : BOOLEAN,
   op : Ops \union {NoOp}, target : Maybe, handed : BOOLEAN, parked : Maybe,
   displaced : SUBSET Workers, captured : BOOLEAN, saved : Configs, swap : BOOLEAN,
   restarted : BOOLEAN, clean : BOOLEAN, before : Befores]

Event == [state : {"progress", "complete", "restored", "incomplete"}, services : SUBSET Workers]

HostOK ==
  /\ binary \in Maybe /\ runtime \in Maybe /\ retired \in Maybe
  /\ config \in Configs
  /\ node \in Maybe /\ hermes \in Maybe
  /\ worker \in [Workers -> Maybe] /\ awake \in SUBSET Workers
  /\ proven \in Maybe /\ interrupted \in BOOLEAN /\ overtaken \in SUBSET Ops

PlaneOK ==
  /\ request \in Requests
  /\ stage \in [Ops -> {"none"} \union Live \union Ended]
  /\ wanted \in [Ops -> Maybe] /\ sent \in SUBSET Ops
  /\ session \in [up : BOOLEAN, release : Maybe, after : SUBSET Ops]

CountOK ==
  /\ ops \in 0..MaxOps /\ verbs \in 0..MaxAttempts
  /\ faults \in 0..MaxFaults /\ crashes \in 0..MaxCrashes

JournalOK == journal \in [Ops -> Seq(Event)]

CursorOK ==
  /\ acked \in [Ops -> Nat] /\ heard \in [Ops -> Nat]
  /\ \A o \in Ops : acked[o] <= Len(journal[o]) /\ heard[o] <= Len(journal[o])

\* The bounds are numbers, and operations are positive ones.
LEMMA BoundFacts ==
  /\ MaxOps \in Nat /\ MaxAttempts \in Nat /\ MaxFaults \in Nat /\ MaxCrashes \in Nat
  /\ Ops = 1..MaxOps /\ NoOp = 0 /\ NoOp \notin Ops
BY BoundsAssumption DEF Ops, NoOp

\* No release is the absent one.
LEMMA ReleaseFacts == None \notin Releases /\ None \in Maybe /\ Releases \subseteq Maybe
BY NoneAssumption DEF Maybe

\* A configuration a release wrote is one.
LEMMA WrittenType == ASSUME NEW r \in Maybe PROVE Written(r) \in Configs
BY DEF Written, Configs

\* The updater at rest, and the connection that is down, have their types.
LEMMA RestType == Idle \in Updater /\ Down \in [up : BOOLEAN, release : Maybe, after : SUBSET Ops]
<1>1. Written(None) \in Configs
  BY WrittenType, ReleaseFacts
<1>2. <<None, None, Written(None)>> \in Maybe \X Maybe \X Configs
  BY <1>1, ReleaseFacts
<1>3. "idle" \in Steps
  BY DEF Steps
<1>4. Idle \in Updater
  BY <1>1, <1>2, <1>3, ReleaseFacts DEF Idle, Updater, Befores
<1> QED
  BY <1>4, ReleaseFacts DEF Down

\* TypeOK is the groups together.
LEMMA TypeParts ==
  TypeOK <=> upd \in Updater /\ HostOK /\ PlaneOK /\ CountOK /\ JournalOK /\ CursorOK
<1>1. ASSUME JournalOK, acked \in [Ops -> Nat], heard \in [Ops -> Nat]
      PROVE  CursorOK <=> \A o \in Ops : {acked[o], heard[o]} \subseteq 0..Len(journal[o])
  <2>1. \A o \in Ops : Len(journal[o]) \in Nat
    BY <1>1 DEF JournalOK
  <2> QED
    BY <1>1, <2>1 DEF CursorOK
<1>2. TypeOK => JournalOK
  BY DEF TypeOK, JournalOK, Event
<1>3. TypeOK => acked \in [Ops -> Nat] /\ heard \in [Ops -> Nat]
  BY DEF TypeOK
<1>4. CursorOK => acked \in [Ops -> Nat] /\ heard \in [Ops -> Nat]
  BY DEF CursorOK
<1>5. TypeOK => CursorOK
  <2> SUFFICES ASSUME TypeOK PROVE CursorOK
    OBVIOUS
  <2>1. \A o \in Ops : {acked[o], heard[o]} \subseteq 0..Len(journal[o])
    BY DEF TypeOK
  <2> QED
    BY <1>1, <1>2, <1>3, <2>1
<1>6. TypeOK => upd \in Updater
  BY DEF TypeOK, Updater, Befores
<1>7. TypeOK => HostOK /\ PlaneOK /\ CountOK
  BY DEF TypeOK, HostOK, PlaneOK, CountOK
<1>8. ASSUME upd \in Updater, HostOK, PlaneOK, CountOK, JournalOK, CursorOK PROVE TypeOK
  <2>1. \A o \in Ops : {acked[o], heard[o]} \subseteq 0..Len(journal[o])
    BY <1>1, <1>4, <1>8
  <2>2. HostOK /\ PlaneOK /\ CountOK
    BY <1>8
  <2>3. {binary, runtime, retired, node, hermes, proven} \subseteq Maybe
    BY <2>2 DEF HostOK
  <2> QED
    BY <1>8, <2>1, <2>2, <2>3, <1>4
    DEF TypeOK, Updater, Befores, HostOK, PlaneOK, CountOK, JournalOK, Event
<1> QED
  BY <1>2, <1>5, <1>6, <1>7, <1>8

\* Journal::append_outcome adds one event, to the operation at hand.
LEMMA RecordFacts ==
  ASSUME JournalOK, upd \in Updater,
         NEW e \in {"progress", "complete", "restored", "incomplete"}, Record(e)
  PROVE  /\ JournalOK'
         /\ \A o \in Ops : o # upd.op => journal'[o] = journal[o]
         /\ \A o \in Ops : Len(journal[o]) <= Len(journal'[o])
         /\ \A o \in Ops : o = upd.op =>
              /\ Len(journal'[o]) = Len(journal[o]) + 1
              /\ journal'[o][Len(journal[o]) + 1] =
                   [state |-> e, services |-> IF e = "complete" THEN upd.displaced ELSE {}]
              /\ \A k \in 1..Len(journal[o]) : journal'[o][k] = journal[o][k]
<1> DEFINE row == [state |-> e, services |-> IF e = "complete" THEN upd.displaced ELSE {}]
<1>1. row \in Event
  BY DEF Event, Updater
<1> HIDE DEF row
<1>2. \A o \in Ops : journal[o] \in Seq(Event) /\ Len(journal[o]) \in Nat
  BY DEF JournalOK
<1>3. CASE upd.op = NoOp
  BY <1>2, <1>3, BoundFacts DEF Record, JournalOK
<1>4. CASE upd.op # NoOp
  <2>1. upd.op \in Ops
    BY <1>4 DEF Updater
  <2>2. journal' = [journal EXCEPT ![upd.op] = Append(@, row)]
    BY <1>4 DEF Record, row
  <2>3. journal'[upd.op] = Append(journal[upd.op], row)
    BY <2>1, <2>2 DEF JournalOK
  <2>4. \A o \in Ops : o # upd.op => journal'[o] = journal[o]
    BY <2>1, <2>2 DEF JournalOK
  <2>5. /\ Append(journal[upd.op], row) \in Seq(Event)
        /\ Len(Append(journal[upd.op], row)) = Len(journal[upd.op]) + 1
        /\ \A k \in 1..Len(journal[upd.op]) : Append(journal[upd.op], row)[k] = journal[upd.op][k]
        /\ Append(journal[upd.op], row)[Len(journal[upd.op]) + 1] = row
    BY <1>1, <1>2, <2>1, AppendProperties
  <2>6. JournalOK'
    BY <2>1, <2>2, <2>5 DEF JournalOK
  <2>7. /\ Len(journal'[upd.op]) = Len(journal[upd.op]) + 1
        /\ journal'[upd.op][Len(journal[upd.op]) + 1] = row
        /\ \A k \in 1..Len(journal[upd.op]) : journal'[upd.op][k] = journal[upd.op][k]
    BY <2>3, <2>5
  <2>8. \A o \in Ops : Len(journal[o]) <= Len(journal'[o])
    BY <1>2, <2>1, <2>4, <2>7
  <2> QED
    BY <2>4, <2>6, <2>7, <2>8 DEF row
<1> QED
  BY <1>3, <1>4

\* The updater is at step s; its swap is sw, and whether it restarted anything re.
Moved(s, sw, re) ==
  /\ upd'.step = s /\ upd'.swap = sw /\ upd'.restarted = re
  /\ upd'.verb = upd.verb /\ upd'.op = upd.op /\ upd'.target = upd.target
  /\ upd'.unit = upd.unit /\ upd'.handed = upd.handed /\ upd'.parked = upd.parked
  /\ upd'.displaced = upd.displaced
  /\ upd'.captured = upd.captured /\ upd'.saved = upd.saved
  /\ upd'.clean = upd.clean /\ upd'.before = upd.before

\* Going on to a step changes nothing else of the updater.
LEMMA GotoFacts ==
  ASSUME upd \in Updater, NEW s \in Steps, Goto(s)
  PROVE  upd' \in Updater /\ Moved(s, upd.swap, upd.restarted)
BY DEF Goto, Moved, Updater

\* Before the runtime was swapped, an update is undone and anything else is over.
GaveUp == IF upd.verb = "update" THEN Moved("undo", FALSE, FALSE) ELSE upd' = Idle

\* Abandoning leads to the undo, or ends the process.
LEMMA AbandonFacts ==
  ASSUME upd \in Updater, NEW sw \in BOOLEAN, NEW re \in BOOLEAN, abandon(sw, re)
  PROVE  /\ upd' \in Updater
         /\ IF upd.verb = "update" \/ sw THEN Moved("undo", sw, re) ELSE upd' = Idle
<1>1. CASE upd.verb = "update" \/ sw
  <2>1. upd' = [upd EXCEPT !.step = "undo", !.swap = sw, !.restarted = re] /\ "undo" \in Steps
    BY <1>1 DEF abandon, Steps
  <2>2. upd' \in Updater /\ Moved("undo", sw, re)
    BY <2>1 DEF Moved, Updater
  <2> QED
    BY <1>1, <2>2
<1>2. CASE ~(upd.verb = "update" \/ sw)
  BY <1>2, RestType DEF abandon
<1> QED
  BY <1>1, <1>2

\* Every step leaves the updater a record of its type.
LEMMA UpdaterStepType ==
  upd \in Updater /\ HostOK /\ PlaneOK /\ CountOK /\ [Next]_vars => (upd \in Updater)'
<1> SUFFICES ASSUME upd \in Updater, HostOK, PlaneOK, CountOK, [Next]_vars
             PROVE  (upd \in Updater)'
  OBVIOUS
<1> USE ReleaseFacts, RestType
<1> USE DEF Steps
<1>1. ASSUME NEW v \in {"install", "update", "repair"}, NEW r \in Releases, run_lifecycle(v, r)
      PROVE  (upd \in Updater)'
  <2>1. PICK half \in {"handover", "begin"} :
          upd' = [Idle EXCEPT !.step = half, !.verb = v, !.target = r]
    BY <1>1 DEF run_lifecycle
  <2>2. half \in Steps
    BY DEF Steps
  <2> HIDE DEF Steps
  <2> QED
    BY <2>1, <2>2, <1>1 DEF Updater
<1>2. ASSUME NEW r \in Releases, RequestUpdate(r)
      PROVE  (upd \in Updater)'
  BY <1>2 DEF RequestUpdate, fileVars, procVars, planeVars, countVars, histVars
<1>3. ASSUME NEW r \in Releases, request_update(r)
      PROVE  (upd \in Updater)'
  <2>1. \/ upd' = upd
        \/ upd' = [Idle EXCEPT !.step = "consume", !.unit = TRUE]
    BY <1>3 DEF request_update, updaterequest_request
  <2>2. CASE upd' = upd
    BY <2>2
  <2>3. CASE upd' = [Idle EXCEPT !.step = "consume", !.unit = TRUE]
    BY <2>3 DEF Updater
  <2> QED
    BY <2>1, <2>2, <2>3
<1>4. ASSUME NEW o \in Ops, ReceiveUpdate(o)
      PROVE  (upd \in Updater)'
  <2>1. \/ upd' = upd
        \/ upd' = [Idle EXCEPT !.step = "consume", !.unit = TRUE]
    BY <1>4 DEF ReceiveUpdate, updaterequest_request
  <2>2. CASE upd' = upd
    BY <2>2
  <2>3. CASE upd' = [Idle EXCEPT !.step = "consume", !.unit = TRUE]
    BY <2>3 DEF Updater
  <2> QED
    BY <2>1, <2>2, <2>3
<1>5. ASSUME NEW o \in Ops, sweepStalled(o)
      PROVE  (upd \in Updater)'
  BY <1>5 DEF sweepStalled, fileVars, procVars, planeVars, countVars, histVars
<1>6. CASE apply_update
  <2> DEFINE s == IF request.release # binary THEN "handover" ELSE "begin"
  <2>1. request.release \in Maybe /\ request.op \in Ops \union {NoOp}
    BY DEF PlaneOK, Requests
  <2>2. <<binary, runtime, config>> \in Befores
    BY DEF Befores, HostOK
  <2>3. \/ upd' = Idle
        \/ upd' = [Idle EXCEPT !.verb = "update", !.unit = TRUE, !.op = request.op,
                     !.target = request.release, !.step = s,
                     !.before = <<binary, runtime, config>>]
    BY <1>6 DEF apply_update
  <2>4. s \in Steps
    OBVIOUS
  <2> HIDE DEF s, Steps
  <2>5. CASE upd' = Idle
    BY <2>5
  <2>6. CASE upd' = [Idle EXCEPT !.verb = "update", !.unit = TRUE, !.op = request.op,
                     !.target = request.release, !.step = s,
                     !.before = <<binary, runtime, config>>]
    BY <2>1, <2>2, <2>4, <2>6 DEF Updater
  <2> QED
    BY <2>3, <2>5, <2>6
<1>7. CASE hand_over_to
  <2>1. CASE upd' = Idle
    BY <2>1
  <2>2. CASE upd' = [upd EXCEPT !.step = "begin", !.handed = TRUE, !.parked = binary]
    BY <2>2 DEF Updater, HostOK
  <2> QED
    BY <1>7, <2>1, <2>2 DEF hand_over_to
<1>8. CASE Begin
  <2>1. PICK kept \in BOOLEAN :
          LET guarded == [upd EXCEPT !.captured = kept, !.saved = IF kept THEN config ELSE @]
          IN \/ upd' = [guarded EXCEPT !.step = "recover", !.displaced = active_project_workers]
             \/ upd' = [guarded EXCEPT !.step = "undo"]
             \/ upd' = Idle
    BY <1>8, Zenon DEF Begin
  <2> DEFINE c == IF kept THEN config ELSE upd.saved
             guarded == [upd EXCEPT !.captured = kept, !.saved = c]
  <2>2. c \in Configs
    BY DEF HostOK, Updater
  <2>3. active_project_workers \in SUBSET Workers
    BY DEF active_project_workers
  <2>4. guarded \in Updater
    <3> HIDE DEF c
    <3> QED
      BY <2>2 DEF Updater
  <2>5. \/ upd' = [guarded EXCEPT !.step = "recover", !.displaced = active_project_workers]
        \/ upd' = [guarded EXCEPT !.step = "undo"]
        \/ upd' = Idle
    BY <2>1
  <2> HIDE DEF guarded, c, active_project_workers
  <2>6. CASE upd' = [guarded EXCEPT !.step = "recover", !.displaced = active_project_workers]
    BY <2>3, <2>4, <2>6 DEF Updater
  <2>7. CASE upd' = [guarded EXCEPT !.step = "undo"]
    BY <2>4, <2>7 DEF Updater
  <2>8. CASE upd' = Idle
    BY <2>8
  <2> QED
    BY <2>5, <2>6, <2>7, <2>8
<1>9. CASE recover_from_interrupted_install
  <2>1. CASE abandon(FALSE, FALSE)
    BY <2>1, AbandonFacts
  <2>2. CASE upd' = [upd EXCEPT !.step = "fetch", !.before = <<@[1], runtime', @[3]>>]
            /\ runtime' = IF runtime = None THEN retired ELSE runtime
    <3>1. runtime' \in Maybe
      BY <2>2 DEF HostOK
    <3>2. <<upd.before[1], runtime', upd.before[3]>> \in Befores
      BY <3>1 DEF Befores, Updater
    <3> QED
      BY <2>2, <3>2 DEF Updater
  <2> QED
    BY <1>9, <2>1, <2>2 DEF recover_from_interrupted_install
<1>10. CASE download_bundle
  BY <1>10, GotoFacts, AbandonFacts DEF download_bundle, Prepare
<1>11. CASE verify_bundle
  BY <1>11, GotoFacts, AbandonFacts DEF verify_bundle, Prepare
<1>12. CASE ensure_prerequisites
  BY <1>12, GotoFacts, AbandonFacts DEF ensure_prerequisites, Prepare
<1>13. CASE unpack
  BY <1>13, GotoFacts, AbandonFacts DEF unpack, Prepare
<1>14. CASE SwapAside
  BY <1>14, GotoFacts, AbandonFacts DEF SwapAside
<1>15. CASE SwapIn
  <2>1. CASE abandon(FALSE, FALSE)
    BY <2>1, AbandonFacts
  <2>2. CASE upd' = [upd EXCEPT !.step = "env", !.swap = TRUE]
    BY <2>2 DEF Updater
  <2> QED
    BY <1>15, <2>1, <2>2 DEF SwapIn
<1>16. CASE write_env_file
  BY <1>16, GotoFacts, AbandonFacts DEF write_env_file, Write
<1>17. CASE reconcile_journal_mode
  BY <1>17, GotoFacts, AbandonFacts DEF reconcile_journal_mode, Write
<1>18. CASE write_units
  BY <1>18, GotoFacts, AbandonFacts DEF write_units, Write
<1>19. CASE install_self
  BY <1>19, GotoFacts, AbandonFacts DEF install_self
<1>20. CASE EnrollDuring
  BY <1>20, GotoFacts, AbandonFacts DEF EnrollDuring
<1>21. CASE start_services
  BY <1>21, GotoFacts, AbandonFacts DEF start_services
<1>22. CASE wait_until_healthy
  BY <1>22, GotoFacts, AbandonFacts DEF wait_until_healthy
<1>23. CASE verify_installation
  BY <1>23, GotoFacts, AbandonFacts DEF verify_installation
<1>24. CASE Converge
  BY <1>24, GotoFacts, AbandonFacts DEF Converge
<1>25. CASE Commit
  BY <1>25 DEF Commit, Updater
<1>26. CASE Report
  BY <1>26 DEF Report, At, Goto, Fails, Quiet, Still, fileVars, procVars, planeVars,
     countVars,
  histVars
<1>27. CASE roll_back
  BY <1>27, GotoFacts, AbandonFacts DEF roll_back
<1>28. CASE restore_files
  <2>1. CASE Goto("undo_units")
    BY <2>1, GotoFacts
  <2>2. CASE upd' = [upd EXCEPT !.step = "undo_units", !.clean = FALSE]
    BY <2>2 DEF Updater
  <2> QED
    BY <1>28, <2>1, <2>2 DEF restore_files
<1>29. CASE restart_units
  BY <1>29, GotoFacts, AbandonFacts DEF restart_units
<1>30. CASE judge
  BY <1>30 DEF judge, At, Goto, Fails, Quiet, Still, fileVars, procVars, planeVars,
     countVars,
  histVars
<1>31. CASE restore_previous_runtime
  BY <1>31 DEF restore_previous_runtime, At, Goto, Fails, Quiet, Still, fileVars, procVars,
  planeVars, countVars, histVars
<1>32. ASSUME NEW w \in Workers, Wake(w)
      PROVE  (upd \in Updater)'
  BY <1>32 DEF Wake, fileVars, procVars, planeVars, countVars, histVars
<1>33. ASSUME NEW w \in Workers, Sleep(w)
      PROVE  (upd \in Updater)'
  BY <1>33 DEF Sleep, fileVars, procVars, planeVars, countVars, histVars
<1>34. CASE HermesStarts
  BY <1>34 DEF HermesStarts, fileVars, procVars, planeVars, countVars, histVars
<1>35. CASE NodeStarts
  BY <1>35 DEF NodeStarts, At, Installed, BootWorkers, fileVars, procVars, planeVars,
     countVars,
  histVars
<1>36. CASE PowerLoss
  BY <1>36 DEF PowerLoss, fileVars, procVars, planeVars, countVars, histVars
<1>37. CASE UpdaterKilled
  BY <1>37 DEF UpdaterKilled, At, fileVars, procVars, planeVars, countVars, histVars
<1>38. CASE Connect
  BY <1>38 DEF Connect, fileVars, procVars, planeVars, countVars, histVars
<1>39. CASE Disconnect
  BY <1>39 DEF Disconnect, fileVars, procVars, planeVars, countVars, histVars
<1>40. ASSUME NEW o \in Ops, NEW answered \in BOOLEAN, flush_update_progress(o, answered)
      PROVE  (upd \in Updater)'
  BY <1>40 DEF flush_update_progress, fileVars, procVars, planeVars, countVars, histVars
<1>41. CASE UNCHANGED vars
  BY <1>41 DEF vars
<1> QED
  BY <1>1, <1>2, <1>3, <1>4, <1>5, <1>6, <1>7, <1>8, <1>9, <1>10, <1>11, <1>12, <1>13,
     <1>14, <1>15, <1>16, <1>17, <1>18, <1>19, <1>20, <1>21, <1>22, <1>23, <1>24,
     <1>25, <1>26, <1>27, <1>28, <1>29, <1>30, <1>31, <1>32, <1>33, <1>34, <1>35,
     <1>36, <1>37, <1>38, <1>39, <1>40, <1>41
  DEF Next, UpdaterStep, Forward

\* Files and processes keep their types.
LEMMA HostStepType ==
  upd \in Updater /\ HostOK /\ PlaneOK /\ CountOK /\ [Next]_vars => HostOK'
<1> SUFFICES ASSUME upd \in Updater, HostOK, PlaneOK, CountOK, [Next]_vars
             PROVE  HostOK'
  OBVIOUS
<1> USE ReleaseFacts
<1> USE DEF Updater, HostOK, Configs, fileVars, procVars, planeVars, countVars,
            histVars
<1>1. ASSUME NEW v \in {"install", "update", "repair"}, NEW r \in Releases, run_lifecycle(v, r)
      PROVE  HostOK'
  BY <1>1 DEF run_lifecycle, At, Idle, Installed, Evident
<1>2. ASSUME NEW r \in Releases, RequestUpdate(r)
      PROVE  HostOK'
  BY <1>2 DEF RequestUpdate
<1>3. ASSUME NEW r \in Releases, request_update(r)
      PROVE  HostOK'
  BY <1>3 DEF request_update, At, Fails, write_request, updaterequest_request, Idle, Evident
<1>4. ASSUME NEW o \in Ops, ReceiveUpdate(o)
      PROVE  HostOK'
  BY <1>4 DEF ReceiveUpdate, At, Fails, write_request, updaterequest_request, Idle
<1>5. ASSUME NEW o \in Ops, sweepStalled(o)
      PROVE  HostOK'
  BY <1>5 DEF sweepStalled
<1>6. CASE apply_update
  BY <1>6 DEF apply_update, At, consume, Idle
<1>7. CASE hand_over_to
  BY <1>7 DEF hand_over_to, At, Goto, Fails, Quiet, Still, Idle
<1>8. CASE Begin
  BY <1>8 DEF Begin, At, Goto, Fails, Quiet, Still
<1>9. CASE recover_from_interrupted_install
  BY <1>9 DEF recover_from_interrupted_install, At, Goto, Fails, Quiet, Still, abandon
<1>10. CASE download_bundle
  BY <1>10 DEF download_bundle, At, Goto, Fails, Quiet, Still, abandon, Prepare
<1>11. CASE verify_bundle
  BY <1>11 DEF verify_bundle, At, Goto, Fails, Quiet, Still, abandon, Prepare
<1>12. CASE ensure_prerequisites
  BY <1>12 DEF ensure_prerequisites, At, Goto, Fails, Quiet, Still, abandon, Prepare
<1>13. CASE unpack
  BY <1>13 DEF unpack, At, Goto, Fails, Quiet, Still, abandon, Prepare
<1>14. CASE SwapAside
  BY <1>14 DEF SwapAside, At, Goto, Fails, Quiet, Still
<1>15. CASE SwapIn
  BY <1>15 DEF SwapIn, At, Goto, Fails, Quiet, Still, abandon, RollBack
<1>16. CASE write_env_file
  BY <1>16 DEF write_env_file, At, Goto, Fails, Quiet, Still, abandon, Write, RollBack
<1>17. CASE reconcile_journal_mode
  BY <1>17 DEF reconcile_journal_mode, At, Goto, Fails, Quiet, Still, abandon, Write,
     RollBack
<1>18. CASE write_units
  BY <1>18 DEF write_units, At, Goto, Fails, Quiet, Still, abandon, Write, RollBack
<1>19. CASE install_self
  BY <1>19 DEF install_self, At, Goto, Fails, Quiet, Still, abandon
<1>20. CASE EnrollDuring
  BY <1>20 DEF EnrollDuring, At, Goto, Fails, Quiet, Still, Idle
<1>21. CASE start_services
  BY <1>21 DEF start_services, At, Goto, Fails, Quiet, Still, abandon, BootWorkers, Down
<1>22. CASE wait_until_healthy
  BY <1>22 DEF wait_until_healthy, At, Goto, Fails, Quiet, Still, abandon
<1>23. CASE verify_installation
  BY <1>23 DEF verify_installation, At, Goto, Fails, Quiet, Still, abandon
<1>24. CASE Converge
  BY <1>24 DEF Converge, At, Goto, Fails, Quiet, Still, abandon, Converged
<1>25. CASE Commit
  BY <1>25 DEF Commit, At, Goto, Fails, Quiet, Still
<1>26. CASE Report
  BY <1>26 DEF Report, At, Goto, Fails, Quiet, Still, Idle
<1>27. CASE roll_back
  BY <1>27 DEF roll_back, At, Goto, Fails, Quiet, Still, RollBack
<1>28. CASE restore_files
  BY <1>28 DEF restore_files, At, Goto, Fails, Quiet, Still, PreviousBinary
<1>29. CASE restart_units
  BY <1>29 DEF restart_units, At, Goto, Fails, Quiet, Still, Down
<1>30. CASE judge
  BY <1>30 DEF judge, At, Goto, Fails, Quiet, Still, Idle
<1>31. CASE restore_previous_runtime
  BY <1>31 DEF restore_previous_runtime, At, Goto, Fails, Quiet, Still, Idle
<1>32. ASSUME NEW w \in Workers, Wake(w)
      PROVE  HostOK'
  BY <1>32 DEF Wake
<1>33. ASSUME NEW w \in Workers, Sleep(w)
      PROVE  HostOK'
  BY <1>33 DEF Sleep
<1>34. CASE HermesStarts
  BY <1>34 DEF HermesStarts
<1>35. CASE NodeStarts
  BY <1>35 DEF NodeStarts, At, Installed, BootWorkers
<1>36. CASE PowerLoss
  BY <1>36 DEF PowerLoss, Idle, Down
<1>37. CASE UpdaterKilled
  BY <1>37 DEF UpdaterKilled, At, Idle
<1>38. CASE Connect
  BY <1>38 DEF Connect
<1>39. CASE Disconnect
  BY <1>39 DEF Disconnect, Down
<1>40. ASSUME NEW o \in Ops, NEW answered \in BOOLEAN, flush_update_progress(o, answered)
      PROVE  HostOK'
  BY <1>40 DEF flush_update_progress, Down
<1>41. CASE UNCHANGED vars
  BY <1>41 DEF vars
<1> QED
  BY <1>1, <1>2, <1>3, <1>4, <1>5, <1>6, <1>7, <1>8, <1>9, <1>10, <1>11, <1>12, <1>13,
     <1>14, <1>15, <1>16, <1>17, <1>18, <1>19, <1>20, <1>21, <1>22, <1>23, <1>24,
     <1>25, <1>26, <1>27, <1>28, <1>29, <1>30, <1>31, <1>32, <1>33, <1>34, <1>35,
     <1>36, <1>37, <1>38, <1>39, <1>40, <1>41
  DEF Next, UpdaterStep, Forward

\* The rows of the Control Plane, the request and the connection keep theirs.
LEMMA PlaneStepType ==
  upd \in Updater /\ HostOK /\ PlaneOK /\ CountOK /\ [Next]_vars => PlaneOK'
<1> SUFFICES ASSUME upd \in Updater, HostOK, PlaneOK, CountOK, [Next]_vars
             PROVE  PlaneOK'
  OBVIOUS
<1> USE BoundFacts, ReleaseFacts, RestType
<1> USE DEF PlaneOK, CountOK, HostOK, Requests, NoRequest, Live, Ended,
            resolveReconnect, decideUpdateProgress, fileVars, procVars, planeVars,
            countVars, histVars
<1>1. ASSUME NEW v \in {"install", "update", "repair"}, NEW r \in Releases, run_lifecycle(v, r)
      PROVE  PlaneOK'
  BY <1>1 DEF run_lifecycle, At, Installed
<1>2. ASSUME NEW r \in Releases, RequestUpdate(r)
      PROVE  PlaneOK'
  BY <1>2 DEF RequestUpdate
<1>3. ASSUME NEW r \in Releases, request_update(r)
      PROVE  PlaneOK'
  BY <1>3 DEF request_update, At, Fails, write_request, updaterequest_request
<1>4. ASSUME NEW o \in Ops, ReceiveUpdate(o)
      PROVE  PlaneOK'
  BY <1>4 DEF ReceiveUpdate, At, Fails, write_request, updaterequest_request
<1>5. ASSUME NEW o \in Ops, sweepStalled(o)
      PROVE  PlaneOK'
  BY <1>5 DEF sweepStalled
<1>6. CASE apply_update
  BY <1>6 DEF apply_update, At, consume
<1>7. CASE hand_over_to
  BY <1>7 DEF hand_over_to, At, Fails, Quiet, Still
<1>8. CASE Begin
  BY <1>8 DEF Begin, At, Fails, Quiet, Still
<1>9. CASE recover_from_interrupted_install
  BY <1>9 DEF recover_from_interrupted_install, At, Fails, Quiet, Still
<1>10. CASE download_bundle
  BY <1>10 DEF download_bundle, At, Fails, Quiet, Still, Prepare
<1>11. CASE verify_bundle
  BY <1>11 DEF verify_bundle, At, Fails, Quiet, Still, Prepare
<1>12. CASE ensure_prerequisites
  BY <1>12 DEF ensure_prerequisites, At, Fails, Quiet, Still, Prepare
<1>13. CASE unpack
  BY <1>13 DEF unpack, At, Fails, Quiet, Still, Prepare
<1>14. CASE SwapAside
  BY <1>14 DEF SwapAside, At, Fails, Quiet, Still
<1>15. CASE SwapIn
  BY <1>15 DEF SwapIn, At, Fails, Quiet, Still, RollBack
<1>16. CASE write_env_file
  BY <1>16 DEF write_env_file, At, Fails, Quiet, Still, Write, RollBack
<1>17. CASE reconcile_journal_mode
  BY <1>17 DEF reconcile_journal_mode, At, Fails, Quiet, Still, Write, RollBack
<1>18. CASE write_units
  BY <1>18 DEF write_units, At, Fails, Quiet, Still, Write, RollBack
<1>19. CASE install_self
  BY <1>19 DEF install_self, At, Fails, Quiet, Still
<1>20. CASE EnrollDuring
  BY <1>20 DEF EnrollDuring, At, Fails, Quiet, Still
<1>21. CASE start_services
  BY <1>21 DEF start_services, At, Fails, Quiet, Still, BootWorkers
<1>22. CASE wait_until_healthy
  BY <1>22 DEF wait_until_healthy, At, Fails, Quiet, Still
<1>23. CASE verify_installation
  BY <1>23 DEF verify_installation, At, Fails, Quiet, Still
<1>24. CASE Converge
  BY <1>24 DEF Converge, At, Fails, Quiet, Still, Converged
<1>25. CASE Commit
  BY <1>25 DEF Commit, At, Fails, Quiet, Still
<1>26. CASE Report
  BY <1>26 DEF Report, At, Fails, Quiet, Still
<1>27. CASE roll_back
  BY <1>27 DEF roll_back, At, Fails, Quiet, Still, RollBack
<1>28. CASE restore_files
  BY <1>28 DEF restore_files, At, Fails, Quiet, Still, PreviousBinary
<1>29. CASE restart_units
  BY <1>29 DEF restart_units, At, Fails, Quiet, Still
<1>30. CASE judge
  BY <1>30 DEF judge, At, Fails, Quiet, Still
<1>31. CASE restore_previous_runtime
  BY <1>31 DEF restore_previous_runtime, At, Fails, Quiet, Still
<1>32. ASSUME NEW w \in Workers, Wake(w)
      PROVE  PlaneOK'
  BY <1>32 DEF Wake
<1>33. ASSUME NEW w \in Workers, Sleep(w)
      PROVE  PlaneOK'
  BY <1>33 DEF Sleep
<1>34. CASE HermesStarts
  BY <1>34 DEF HermesStarts
<1>35. CASE NodeStarts
  BY <1>35 DEF NodeStarts, At, Installed, BootWorkers
<1>36. CASE PowerLoss
  BY <1>36 DEF PowerLoss
<1>37. CASE UpdaterKilled
  BY <1>37 DEF UpdaterKilled, At
<1>38. CASE Connect
  BY <1>38 DEF Connect
<1>39. CASE Disconnect
  BY <1>39 DEF Disconnect
<1>40. ASSUME NEW o \in Ops, NEW answered \in BOOLEAN, flush_update_progress(o, answered)
      PROVE  PlaneOK'
  BY <1>40 DEF flush_update_progress
<1>41. CASE UNCHANGED vars
  BY <1>41 DEF vars
<1> QED
  BY <1>1, <1>2, <1>3, <1>4, <1>5, <1>6, <1>7, <1>8, <1>9, <1>10, <1>11, <1>12, <1>13,
     <1>14, <1>15, <1>16, <1>17, <1>18, <1>19, <1>20, <1>21, <1>22, <1>23, <1>24,
     <1>25, <1>26, <1>27, <1>28, <1>29, <1>30, <1>31, <1>32, <1>33, <1>34, <1>35,
     <1>36, <1>37, <1>38, <1>39, <1>40, <1>41
  DEF Next, UpdaterStep, Forward

\* No count passes its bound.
LEMMA CountStepType ==
  upd \in Updater /\ HostOK /\ PlaneOK /\ CountOK /\ [Next]_vars => CountOK'
<1> SUFFICES ASSUME upd \in Updater, HostOK, PlaneOK, CountOK, [Next]_vars
             PROVE  CountOK'
  OBVIOUS
<1> USE BoundFacts
<1> USE DEF CountOK, fileVars, procVars, planeVars, countVars, histVars
<1>1. ASSUME NEW v \in {"install", "update", "repair"}, NEW r \in Releases, run_lifecycle(v, r)
      PROVE  CountOK'
  BY <1>1 DEF run_lifecycle, At, Installed
<1>2. ASSUME NEW r \in Releases, RequestUpdate(r)
      PROVE  CountOK'
  BY <1>2 DEF RequestUpdate
<1>3. ASSUME NEW r \in Releases, request_update(r)
      PROVE  CountOK'
  BY <1>3 DEF request_update, At, Fails, write_request, updaterequest_request
<1>4. ASSUME NEW o \in Ops, ReceiveUpdate(o)
      PROVE  CountOK'
  BY <1>4 DEF ReceiveUpdate, At, Fails, write_request, updaterequest_request
<1>5. ASSUME NEW o \in Ops, sweepStalled(o)
      PROVE  CountOK'
  BY <1>5 DEF sweepStalled
<1>6. CASE apply_update
  BY <1>6 DEF apply_update, At, consume
<1>7. CASE hand_over_to
  BY <1>7 DEF hand_over_to, At, Goto, Fails, Quiet, Still
<1>8. CASE Begin
  BY <1>8 DEF Begin, At, Goto, Fails, Quiet, Still
<1>9. CASE recover_from_interrupted_install
  BY <1>9 DEF recover_from_interrupted_install, At, Goto, Fails, Quiet, Still, abandon
<1>10. CASE download_bundle
  BY <1>10 DEF download_bundle, At, Goto, Fails, Quiet, Still, abandon, Prepare
<1>11. CASE verify_bundle
  BY <1>11 DEF verify_bundle, At, Goto, Fails, Quiet, Still, abandon, Prepare
<1>12. CASE ensure_prerequisites
  BY <1>12 DEF ensure_prerequisites, At, Goto, Fails, Quiet, Still, abandon, Prepare
<1>13. CASE unpack
  BY <1>13 DEF unpack, At, Goto, Fails, Quiet, Still, abandon, Prepare
<1>14. CASE SwapAside
  BY <1>14 DEF SwapAside, At, Goto, Fails, Quiet, Still
<1>15. CASE SwapIn
  BY <1>15 DEF SwapIn, At, Goto, Fails, Quiet, Still, abandon, RollBack
<1>16. CASE write_env_file
  BY <1>16 DEF write_env_file, At, Goto, Fails, Quiet, Still, abandon, Write, RollBack
<1>17. CASE reconcile_journal_mode
  BY <1>17 DEF reconcile_journal_mode, At, Goto, Fails, Quiet, Still, abandon, Write,
     RollBack
<1>18. CASE write_units
  BY <1>18 DEF write_units, At, Goto, Fails, Quiet, Still, abandon, Write, RollBack
<1>19. CASE install_self
  BY <1>19 DEF install_self, At, Goto, Fails, Quiet, Still, abandon
<1>20. CASE EnrollDuring
  BY <1>20 DEF EnrollDuring, At, Goto, Fails, Quiet, Still
<1>21. CASE start_services
  BY <1>21 DEF start_services, At, Goto, Fails, Quiet, Still, abandon
<1>22. CASE wait_until_healthy
  BY <1>22 DEF wait_until_healthy, At, Goto, Fails, Quiet, Still, abandon
<1>23. CASE verify_installation
  BY <1>23 DEF verify_installation, At, Goto, Fails, Quiet, Still, abandon
<1>24. CASE Converge
  BY <1>24 DEF Converge, At, Goto, Fails, Quiet, Still, abandon
<1>25. CASE Commit
  BY <1>25 DEF Commit, At, Goto, Fails, Quiet, Still
<1>26. CASE Report
  BY <1>26 DEF Report, At, Goto, Fails, Quiet, Still
<1>27. CASE roll_back
  BY <1>27 DEF roll_back, At, Goto, Fails, Quiet, Still, RollBack
<1>28. CASE restore_files
  BY <1>28 DEF restore_files, At, Goto, Fails, Quiet, Still, PreviousBinary
<1>29. CASE restart_units
  BY <1>29 DEF restart_units, At, Goto, Fails, Quiet, Still
<1>30. CASE judge
  BY <1>30 DEF judge, At, Goto, Fails, Quiet, Still
<1>31. CASE restore_previous_runtime
  BY <1>31 DEF restore_previous_runtime, At, Goto, Fails, Quiet, Still
<1>32. ASSUME NEW w \in Workers, Wake(w)
      PROVE  CountOK'
  BY <1>32 DEF Wake
<1>33. ASSUME NEW w \in Workers, Sleep(w)
      PROVE  CountOK'
  BY <1>33 DEF Sleep
<1>34. CASE HermesStarts
  BY <1>34 DEF HermesStarts
<1>35. CASE NodeStarts
  BY <1>35 DEF NodeStarts, At, Installed
<1>36. CASE PowerLoss
  BY <1>36 DEF PowerLoss
<1>37. CASE UpdaterKilled
  BY <1>37 DEF UpdaterKilled, At
<1>38. CASE Connect
  BY <1>38 DEF Connect
<1>39. CASE Disconnect
  BY <1>39 DEF Disconnect
<1>40. ASSUME NEW o \in Ops, NEW answered \in BOOLEAN, flush_update_progress(o, answered)
      PROVE  CountOK'
  BY <1>40 DEF flush_update_progress
<1>41. CASE UNCHANGED vars
  BY <1>41 DEF vars
<1> QED
  BY <1>1, <1>2, <1>3, <1>4, <1>5, <1>6, <1>7, <1>8, <1>9, <1>10, <1>11, <1>12, <1>13,
     <1>14, <1>15, <1>16, <1>17, <1>18, <1>19, <1>20, <1>21, <1>22, <1>23, <1>24,
     <1>25, <1>26, <1>27, <1>28, <1>29, <1>30, <1>31, <1>32, <1>33, <1>34, <1>35,
     <1>36, <1>37, <1>38, <1>39, <1>40, <1>41
  DEF Next, UpdaterStep, Forward

\* Journals have lengths.
LEMMA LenFacts == JournalOK => \A o \in Ops : journal[o] \in Seq(Event) /\ Len(journal[o]) \in Nat
BY DEF JournalOK

\* Journals grow, and no cursor passes the end of one.
LEMMA JournalStepType ==
  upd \in Updater /\ JournalOK /\ CursorOK /\ [Next]_vars => JournalOK' /\ CursorOK'
<1> SUFFICES ASSUME upd \in Updater, JournalOK, CursorOK, [Next]_vars
             PROVE  JournalOK' /\ CursorOK'
  OBVIOUS
<1> USE DEF JournalOK, CursorOK, fileVars, procVars, planeVars, countVars, histVars
<1>1. ASSUME NEW v \in {"install", "update", "repair"}, NEW r \in Releases, run_lifecycle(v, r)
      PROVE  JournalOK' /\ CursorOK'
  BY <1>1 DEF run_lifecycle, At, Idle, Installed
<1>2. ASSUME NEW r \in Releases, RequestUpdate(r)
      PROVE  JournalOK' /\ CursorOK'
  BY <1>2 DEF RequestUpdate
<1>3. ASSUME NEW r \in Releases, request_update(r)
      PROVE  JournalOK' /\ CursorOK'
  BY <1>3 DEF request_update, At, Fails, write_request, updaterequest_request, Idle
<1>4. ASSUME NEW o \in Ops, ReceiveUpdate(o)
      PROVE  JournalOK' /\ CursorOK'
  BY <1>4 DEF ReceiveUpdate, At, Fails, write_request, updaterequest_request, Idle
<1>5. ASSUME NEW o \in Ops, sweepStalled(o)
      PROVE  JournalOK' /\ CursorOK'
  BY <1>5 DEF sweepStalled
<1>6. CASE apply_update
  BY <1>6 DEF apply_update, At, consume, Idle
<1>7. CASE hand_over_to
  BY <1>7 DEF hand_over_to, At, Goto, Fails, Quiet, Still, Idle
<1>8. CASE Begin
  <2>1. Record("progress")
    BY <1>8 DEF Begin
  <2>2. acked' = acked /\ heard' = heard
    BY <1>8 DEF Begin, Quiet, Still, planeVars
  <2>3. JournalOK' /\ \A q \in Ops : Len(journal[q]) <= Len(journal'[q])
    BY <2>1, RecordFacts
  <2>4. \A q \in Ops : Len(journal[q]) \in Nat /\ Len(journal'[q]) \in Nat
    BY <2>3, LenFacts DEF JournalOK
  <2> QED
    BY <2>2, <2>3, <2>4
    DEF CursorOK
<1>9. CASE recover_from_interrupted_install
  BY <1>9 DEF recover_from_interrupted_install, At, Goto, Fails, Quiet, Still, abandon
<1>10. CASE download_bundle
  BY <1>10 DEF download_bundle, At, Goto, Fails, Quiet, Still, abandon, Prepare
<1>11. CASE verify_bundle
  BY <1>11 DEF verify_bundle, At, Goto, Fails, Quiet, Still, abandon, Prepare
<1>12. CASE ensure_prerequisites
  BY <1>12 DEF ensure_prerequisites, At, Goto, Fails, Quiet, Still, abandon, Prepare
<1>13. CASE unpack
  BY <1>13 DEF unpack, At, Goto, Fails, Quiet, Still, abandon, Prepare
<1>14. CASE SwapAside
  BY <1>14 DEF SwapAside, At, Goto, Fails, Quiet, Still
<1>15. CASE SwapIn
  BY <1>15 DEF SwapIn, At, Goto, Fails, Quiet, Still, abandon, RollBack
<1>16. CASE write_env_file
  BY <1>16 DEF write_env_file, At, Goto, Fails, Quiet, Still, abandon, Write, RollBack
<1>17. CASE reconcile_journal_mode
  BY <1>17 DEF reconcile_journal_mode, At, Goto, Fails, Quiet, Still, abandon, Write,
     RollBack
<1>18. CASE write_units
  BY <1>18 DEF write_units, At, Goto, Fails, Quiet, Still, abandon, Write, RollBack
<1>19. CASE install_self
  BY <1>19 DEF install_self, At, Goto, Fails, Quiet, Still, abandon
<1>20. CASE EnrollDuring
  BY <1>20 DEF EnrollDuring, At, Goto, Fails, Quiet, Still, Idle
<1>21. CASE start_services
  BY <1>21 DEF start_services, At, Goto, Fails, Quiet, Still, abandon, BootWorkers, Down
<1>22. CASE wait_until_healthy
  BY <1>22 DEF wait_until_healthy, At, Goto, Fails, Quiet, Still, abandon
<1>23. CASE verify_installation
  BY <1>23 DEF verify_installation, At, Goto, Fails, Quiet, Still, abandon
<1>24. CASE Converge
  BY <1>24 DEF Converge, At, Goto, Fails, Quiet, Still, abandon, Converged
<1>25. CASE Commit
  BY <1>25 DEF Commit, At, Goto, Fails, Quiet, Still
<1>26. CASE Report
  <2>1. Record("complete")
    BY <1>26 DEF Report
  <2>2. acked' = acked /\ heard' = heard
    BY <1>26 DEF Report, Quiet, Still, planeVars
  <2>3. JournalOK' /\ \A q \in Ops : Len(journal[q]) <= Len(journal'[q])
    BY <2>1, RecordFacts
  <2>4. \A q \in Ops : Len(journal[q]) \in Nat /\ Len(journal'[q]) \in Nat
    BY <2>3, LenFacts DEF JournalOK
  <2> QED
    BY <2>2, <2>3, <2>4
    DEF CursorOK
<1>27. CASE roll_back
  BY <1>27 DEF roll_back, At, Goto, Fails, Quiet, Still, RollBack
<1>28. CASE restore_files
  BY <1>28 DEF restore_files, At, Goto, Fails, Quiet, Still, PreviousBinary
<1>29. CASE restart_units
  BY <1>29 DEF restart_units, At, Goto, Fails, Quiet, Still, Down
<1>30. CASE judge
  <2>1. PICK e \in {"restored", "incomplete"} : Record(e)
    BY <1>30 DEF judge
  <2>2. acked' = acked /\ heard' = heard
    BY <1>30 DEF judge, Quiet, Still, planeVars
  <2>3. JournalOK' /\ \A q \in Ops : Len(journal[q]) <= Len(journal'[q])
    BY <2>1, RecordFacts
  <2>4. \A q \in Ops : Len(journal[q]) \in Nat /\ Len(journal'[q]) \in Nat
    BY <2>3, LenFacts DEF JournalOK
  <2> QED
    BY <2>2, <2>3, <2>4
    DEF CursorOK
<1>31. CASE restore_previous_runtime
  BY <1>31 DEF restore_previous_runtime, At, Goto, Fails, Quiet, Still, Idle
<1>32. ASSUME NEW w \in Workers, Wake(w)
      PROVE  JournalOK' /\ CursorOK'
  BY <1>32 DEF Wake
<1>33. ASSUME NEW w \in Workers, Sleep(w)
      PROVE  JournalOK' /\ CursorOK'
  BY <1>33 DEF Sleep
<1>34. CASE HermesStarts
  BY <1>34 DEF HermesStarts
<1>35. CASE NodeStarts
  BY <1>35 DEF NodeStarts, At, Installed, BootWorkers
<1>36. CASE PowerLoss
  BY <1>36 DEF PowerLoss, Idle, Down
<1>37. CASE UpdaterKilled
  BY <1>37 DEF UpdaterKilled, At, Idle
<1>38. CASE Connect
  BY <1>38 DEF Connect
<1>39. CASE Disconnect
  BY <1>39 DEF Disconnect, Down
<1>40. ASSUME NEW o \in Ops, NEW answered \in BOOLEAN, flush_update_progress(o, answered)
      PROVE  JournalOK' /\ CursorOK'
  <2> DEFINE k == acked[o] + 1
  <2>1. k \in Nat /\ k <= Len(journal[o]) /\ journal' = journal
    BY <1>40, LenFacts DEF flush_update_progress, undelivered, CursorOK
  <2>2. heard' = [heard EXCEPT ![o] = IF k > @ THEN k ELSE @]
    BY <1>40 DEF flush_update_progress
  <2>3. acked' = [acked EXCEPT ![o] = k] \/ acked' = acked
    BY <1>40 DEF flush_update_progress
  <2> HIDE DEF k
  <2> QED
    BY <2>1, <2>2, <2>3, LenFacts DEF CursorOK, JournalOK
<1>41. CASE UNCHANGED vars
  BY <1>41 DEF vars
<1> QED
  BY <1>1, <1>2, <1>3, <1>4, <1>5, <1>6, <1>7, <1>8, <1>9, <1>10, <1>11, <1>12, <1>13,
     <1>14, <1>15, <1>16, <1>17, <1>18, <1>19, <1>20, <1>21, <1>22, <1>23, <1>24,
     <1>25, <1>26, <1>27, <1>28, <1>29, <1>30, <1>31, <1>32, <1>33, <1>34, <1>35,
     <1>36, <1>37, <1>38, <1>39, <1>40, <1>41
  DEF Next, UpdaterStep, Forward

-----------------------------------------------------------------------------
(* What the larger steps do to the updater, outcome by outcome.            *)

\* The updater at rest is about nothing.
LEMMA IdleFacts ==
  /\ Idle.step = "idle" /\ Idle.verb = "none" /\ Idle.op = NoOp /\ ~Idle.swap /\ ~Idle.handed
  /\ ~Idle.captured
BY DEF Idle

\* The verbs: an install begins on a bare host, the others on an installation.
LEMMA RunFacts ==
  ASSUME NEW v \in {"install", "update", "repair"}, NEW r \in Releases, run_lifecycle(v, r)
  PROVE  /\ upd.step = "idle" /\ upd'.step \in {"handover", "begin"}
         /\ upd'.verb = v /\ upd'.op = NoOp
         /\ upd'.target = r /\ ~upd'.swap /\ ~upd'.handed /\ ~upd'.captured
         /\ v = "install" => ~Installed
         /\ upd'.step = "handover" => r # binary
         /\ \/ v = "repair" /\ r = binary /\ overtaken' = overtaken
            \/ overtaken' = overtaken \union Evident
         /\ UNCHANGED <<fileVars, procVars, request, journal, acked, planeVars, session, proven,
                        interrupted>>
<1>1. PICK half \in {"handover", "begin"} :
        /\ half = "handover" => r # binary
        /\ upd' = [Idle EXCEPT !.step = half, !.verb = v, !.target = r]
  BY DEF run_lifecycle
<1>2. /\ upd.step = "idle"
      /\ v = "install" => ~Installed
      /\ \/ v = "repair" /\ r = binary /\ overtaken' = overtaken
         \/ overtaken' = overtaken \union Evident
      /\ UNCHANGED <<fileVars, procVars, request, journal, acked, planeVars, session, proven,
                     interrupted>>
  BY DEF run_lifecycle, At
<1>3. /\ upd'.step = half /\ upd'.verb = v /\ upd'.op = NoOp /\ upd'.target = r
      /\ ~upd'.swap /\ ~upd'.handed /\ ~upd'.captured
  BY <1>1 DEF Idle
<1> QED
  BY <1>1, <1>2, <1>3

\* updaterequest::request starts the unit where it is idle, and nothing where it
\* is not.
LEMMA RequestFacts ==
  ASSUME NEW o, NEW r, updaterequest_request(o, r)
  PROVE  /\ \/ upd' = upd
            \/ /\ upd'.step = "consume" /\ upd'.verb = "none" /\ upd'.op = NoOp
               /\ ~upd'.swap /\ ~upd'.handed /\ ~upd'.captured
               /\ upd.step = "idle"
         /\ request' = [op |-> o, release |-> r] \/ request' = NoRequest
<1>1. /\ \/ upd' = upd
         \/ upd' = [Idle EXCEPT !.step = "consume", !.unit = TRUE] /\ upd.step = "idle"
      /\ request' = [op |-> o, release |-> r] \/ request' = NoRequest
  BY DEF updaterequest_request, write_request, At
<1>2. CASE upd' = [Idle EXCEPT !.step = "consume", !.unit = TRUE] /\ upd.step = "idle"
  BY <1>1, <1>2, RestType, IdleFacts DEF Updater
<1> QED
  BY <1>1, <1>2

\* hand_over_to: the new binary is in place of the one kept, or the process is
\* over.
LEMMA HandoverFacts ==
  ASSUME upd \in Updater, hand_over_to
  PROVE  /\ upd.step = "handover"
         /\ \/ upd' = Idle
            \/ /\ binary' = upd.target /\ upd'.parked = binary
               /\ upd'.step = "begin" /\ upd'.handed
               /\ upd'.verb = upd.verb /\ upd'.op = upd.op /\ upd'.target = upd.target
               /\ upd'.captured = upd.captured /\ upd'.saved = upd.saved
               /\ upd'.swap = upd.swap /\ upd'.before = upd.before
         /\ binary' \in {binary, upd.target}
         /\ UNCHANGED <<runtime, retired, config, procVars, journal, session, histVars>> /\ Quiet
<1>1. /\ upd.step = "handover" /\ binary' \in {binary, upd.target}
      /\ UNCHANGED <<runtime, retired, config, procVars, journal, session, histVars>> /\ Quiet
  BY DEF hand_over_to, At
<1>2. CASE upd' = Idle
  BY <1>1, <1>2
<1>3. CASE /\ upd' = [upd EXCEPT !.step = "begin", !.handed = TRUE, !.parked = binary]
           /\ binary' = upd.target
  <2>1. /\ upd'.step = "begin" /\ upd'.handed /\ upd'.parked = binary
        /\ upd'.verb = upd.verb /\ upd'.op = upd.op /\ upd'.target = upd.target
        /\ upd'.captured = upd.captured /\ upd'.saved = upd.saved
        /\ upd'.swap = upd.swap /\ upd'.before = upd.before
    BY <1>3 DEF Updater
  <2> QED
    BY <1>1, <1>3, <2>1
<1> QED
  BY <1>2, <1>3 DEF hand_over_to

\* UpdateGuard::new: an update's configuration is captured, or could not be.
LEMMA BeginFacts ==
  ASSUME upd \in Updater, Begin
  PROVE  /\ upd.step = "begin"
         /\ \/ upd.verb # "update" /\ upd' = Idle
            \/ /\ \/ upd'.step = "recover"
                  \/ upd'.step = "undo" /\ upd.verb = "update"
               /\ upd'.verb = upd.verb /\ upd'.op = upd.op /\ upd'.target = upd.target
               /\ upd'.handed = upd.handed /\ upd'.parked = upd.parked
               /\ upd'.swap = upd.swap /\ upd'.before = upd.before
               /\ \/ upd'.captured /\ upd'.saved = config /\ upd.verb = "update"
                  \/ ~upd'.captured /\ (upd.verb = "update" => "capture" \in Hazards)
         /\ UNCHANGED <<fileVars, procVars, session, histVars>> /\ Quiet
<1>1. PICK kept \in BOOLEAN :
        /\ kept => upd.verb = "update"
        /\ ~kept => upd.verb # "update" \/ "capture" \in Hazards
        /\ LET guarded == [upd EXCEPT !.captured = kept, !.saved = IF kept THEN config ELSE @]
           IN \/ upd' = [guarded EXCEPT !.step = "recover", !.displaced = active_project_workers]
              \/ upd' = IF upd.verb = "update" THEN [guarded EXCEPT !.step = "undo"] ELSE Idle
  BY Zenon DEF Begin
<1> DEFINE c == IF kept THEN config ELSE upd.saved
           g == [upd EXCEPT !.captured = kept, !.saved = c]
<1>2. \/ upd' = [g EXCEPT !.step = "recover", !.displaced = active_project_workers]
      \/ upd.verb = "update" /\ upd' = [g EXCEPT !.step = "undo"]
      \/ upd.verb # "update" /\ upd' = Idle
  BY <1>1
<1>3. /\ g.verb = upd.verb /\ g.op = upd.op /\ g.target = upd.target /\ g.handed = upd.handed
      /\ g.parked = upd.parked
      /\ g.swap = upd.swap /\ g.before = upd.before /\ g.captured = kept /\ g.saved = c
      /\ DOMAIN g = DOMAIN upd
  BY DEF Updater
<1>4. DOMAIN upd = {"step", "verb", "unit", "op", "target", "handed", "parked", "displaced",
                    "captured", "saved", "swap", "restarted", "clean", "before"}
  BY DEF Updater
<1>5. kept => c = config
  OBVIOUS
<1>6. /\ kept \in BOOLEAN /\ (kept => upd.verb = "update")
      /\ ~kept => (upd.verb = "update" => "capture" \in Hazards)
  BY <1>1
<1>7. upd.step = "begin" /\ UNCHANGED <<fileVars, procVars, session, histVars>> /\ Quiet
  BY DEF Begin, At
<1> HIDE DEF g, c
<1>8. CASE upd' = [g EXCEPT !.step = "recover", !.displaced = active_project_workers]
  BY <1>3, <1>4, <1>5, <1>6, <1>7, <1>8
<1>9. CASE upd.verb = "update" /\ upd' = [g EXCEPT !.step = "undo"]
  BY <1>3, <1>4, <1>5, <1>6, <1>7, <1>9
<1>10. CASE upd.verb # "update" /\ upd' = Idle
  BY <1>7, <1>10
<1> QED
  BY <1>2, <1>8, <1>9, <1>10

\* A step that leaves nothing behind led on, or was abandoned.
Prepared(here, there) ==
  /\ upd.step = here
  /\ \/ Moved(there, upd.swap, upd.restarted)
     \/ GaveUp
  /\ UNCHANGED <<fileVars, procVars, journal, session, histVars>> /\ Quiet

\* Fetching, verifying, preparing and unpacking.
LEMMA PrepareFacts ==
  ASSUME upd \in Updater, NEW here, NEW there \in Steps, Prepare(here, there)
  PROVE  Prepared(here, there)
<1>1. upd.step = here /\ UNCHANGED <<fileVars, procVars, journal, session, histVars>> /\ Quiet
  BY DEF Prepare, At
<1>2. CASE abandon(FALSE, FALSE)
  BY <1>1, <1>2, AbandonFacts DEF Prepared, GaveUp
<1>3. CASE Goto(there)
  BY <1>1, <1>3, GotoFacts DEF Prepared
<1> QED
  BY <1>2, <1>3 DEF Prepare

\* recover_from_interrupted_install: a stranded runtime is put back, or the
\* attempt abandoned before it has touched anything.
LEMMA RecoverFacts ==
  ASSUME upd \in Updater, recover_from_interrupted_install
  PROVE  /\ upd.step = "recover"
         /\ \/ /\ runtime' = (IF runtime = None THEN retired ELSE runtime) /\ retired' = None
               /\ upd'.step = "fetch" /\ upd'.swap = upd.swap
               /\ upd'.before[1] = upd.before[1] /\ upd'.before[2] = runtime'
               /\ upd'.before[3] = upd.before[3]
               /\ upd'.verb = upd.verb /\ upd'.op = upd.op /\ upd'.target = upd.target
               /\ upd'.handed = upd.handed /\ upd'.parked = upd.parked
               /\ upd'.captured = upd.captured /\ upd'.saved = upd.saved
            \/ UNCHANGED <<runtime, retired>> /\ GaveUp
         /\ UNCHANGED <<binary, config, procVars, journal, session, histVars>> /\ Quiet
<1>1. upd.step = "recover"
      /\ UNCHANGED <<binary, config, procVars, journal, session, histVars>> /\ Quiet
  BY DEF recover_from_interrupted_install, At
<1>2. CASE abandon(FALSE, FALSE) /\ UNCHANGED <<runtime, retired>>
  BY <1>1, <1>2, AbandonFacts DEF GaveUp
<1>3. CASE /\ runtime' = (IF runtime = None THEN retired ELSE runtime) /\ retired' = None
           /\ upd' = [upd EXCEPT !.step = "fetch", !.before = <<@[1], runtime', @[3]>>]
  <2> DEFINE b == <<upd.before[1], runtime', upd.before[3]>>
  <2>1. b[1] = upd.before[1] /\ b[2] = runtime' /\ b[3] = upd.before[3]
    OBVIOUS
  <2>2. upd' = [upd EXCEPT !.step = "fetch", !.before = b]
    BY <1>3
  <2> HIDE DEF b
  <2> QED
    BY <1>1, <1>3, <2>1, <2>2 DEF Updater
<1> QED
  BY <1>2, <1>3 DEF recover_from_interrupted_install

\* RuntimeSwap::roll_back: the old runtime is back, or moved aside still, with
\* the new one in place or nothing.
Rolled ==
  \/ runtime' = retired /\ retired' = None /\ interrupted' = interrupted
  \/ runtime' = None /\ retired' = retired /\ interrupted' = interrupted
  \/ runtime' = upd.target /\ retired' = retired /\ interrupted'

LEMMA RollFacts == ASSUME upd.target # None, interrupted \in BOOLEAN, RollBack PROVE Rolled
BY DEF RollBack, Rolled

\* install_runtime: the new tree is in place, or it was rolled back.
LEMMA SwapInFacts ==
  ASSUME upd \in Updater, HostOK, StepInv, SwapIn
  PROVE  /\ upd.step = "in"
         /\ \/ /\ runtime' = upd.target /\ retired' = retired /\ interrupted' = interrupted
               /\ Moved("env", TRUE, upd.restarted)
            \/ Rolled /\ GaveUp
         /\ UNCHANGED <<binary, config, procVars, journal, session, proven, overtaken>> /\ Still
<1>1. upd.step = "in"
      /\ UNCHANGED <<binary, config, procVars, journal, session, proven, overtaken>> /\ Still
  BY DEF SwapIn, At
<1>2. CASE abandon(FALSE, FALSE) /\ RollBack
  <2>1. Rolled
    BY <1>1, <1>2, RollFacts, ReleaseFacts DEF StepInv, HostOK
  <2> QED
    BY <1>1, <1>2, <2>1, AbandonFacts DEF GaveUp
<1>3. CASE runtime' = upd.target /\ UNCHANGED <<retired, interrupted>>
           /\ upd' = [upd EXCEPT !.step = "env", !.swap = TRUE]
  <2>1. Moved("env", TRUE, upd.restarted)
    BY <1>3 DEF Moved, Updater
  <2> QED
    BY <1>1, <1>3, <2>1
<1> QED
  BY <1>2, <1>3 DEF SwapIn

\* A part of the configuration is written, or the runtime is rolled back.
Wrote(here, there, after) ==
  /\ upd.step = here
  /\ \/ /\ config' = after /\ UNCHANGED <<runtime, retired, interrupted>>
        /\ Moved(there, upd.swap, upd.restarted)
     \/ Rolled /\ config' = config /\ GaveUp
  /\ UNCHANGED <<binary, procVars, journal, session, proven, overtaken>> /\ Still

\* write_configuration, a part at a time.
LEMMA WriteFacts ==
  ASSUME upd \in Updater, HostOK, StepInv, NEW here \in Placed, NEW there \in Steps, NEW after,
         Write(here, there, after)
  PROVE  Wrote(here, there, after)
<1>1. upd.step = here
      /\ UNCHANGED <<binary, procVars, journal, session, proven, overtaken>> /\ Still
  BY DEF Write, At
<1>2. CASE abandon(FALSE, FALSE) /\ RollBack /\ config' = config
  <2>1. Rolled
    BY <1>1, <1>2, RollFacts, ReleaseFacts DEF StepInv, HostOK, Placed
  <2> QED
    BY <1>1, <1>2, <2>1, AbandonFacts DEF Wrote, GaveUp
<1>3. CASE config' = after /\ Goto(there) /\ UNCHANGED <<runtime, retired, interrupted>>
  BY <1>1, <1>3, GotoFacts DEF Wrote
<1> QED
  BY <1>2, <1>3 DEF Write

\* roll_back: what was swapped is rolled back.
LEMMA UndoFacts ==
  ASSUME upd \in Updater, HostOK, StepInv, roll_back
  PROVE  /\ upd.step = "undo"
         /\ IF upd.swap THEN Rolled ELSE UNCHANGED <<runtime, retired, interrupted>>
         /\ Moved(IF upd.verb = "update" THEN "undo_files" ELSE "undo_workers", upd.swap,
                  upd.restarted)
         /\ UNCHANGED <<binary, config, procVars, journal, session, proven, overtaken>> /\ Still
<1>1. /\ upd.step = "undo"
      /\ IF upd.swap THEN RollBack ELSE UNCHANGED <<runtime, retired, interrupted>>
      /\ Goto(IF upd.verb = "update" THEN "undo_files" ELSE "undo_workers")
      /\ UNCHANGED <<binary, config, procVars, journal, session, proven, overtaken>> /\ Still
  BY DEF roll_back, At
<1>2. (IF upd.verb = "update" THEN "undo_files" ELSE "undo_workers") \in Steps
  BY DEF Steps
<1>3. upd.swap => Rolled
  BY <1>1, RollFacts, ReleaseFacts DEF StepInv, HostOK
<1> QED
  BY <1>1, <1>2, <1>3, GotoFacts

\* install_self: the binary is in place, or the attempt is undone.
LEMMA SelfFacts ==
  ASSUME upd \in Updater, install_self
  PROVE  /\ upd.step = "self"
         /\ \/ /\ binary' = upd.target
               /\ Moved(IF upd.verb = "install" THEN "enroll" ELSE "start", upd.swap, upd.restarted)
            \/ binary' = binary /\ Moved("undo", TRUE, FALSE)
         /\ UNCHANGED <<runtime, retired, config, procVars, journal, session, histVars>> /\ Quiet
<1>1. upd.step = "self"
      /\ UNCHANGED <<runtime, retired, config, procVars, journal, session, histVars>> /\ Quiet
  BY DEF install_self, At
<1>2. CASE abandon(TRUE, FALSE) /\ binary' = binary
  BY <1>1, <1>2, AbandonFacts
<1>3. CASE binary' = upd.target /\ Goto(IF upd.verb = "install" THEN "enroll" ELSE "start")
  <2>1. (IF upd.verb = "install" THEN "enroll" ELSE "start") \in Steps
    BY DEF Steps
  <2> QED
    BY <1>1, <1>3, <2>1, GotoFacts
<1> QED
  BY <1>2, <1>3 DEF install_self

\* enroll_during_install: the process goes on, or is over.
LEMMA EnrollFacts ==
  ASSUME upd \in Updater, EnrollDuring
  PROVE  /\ upd.step = "enroll"
         /\ Moved("start", upd.swap, upd.restarted) \/ upd' = Idle
         /\ UNCHANGED <<fileVars, procVars, journal, session, histVars>> /\ Quiet
<1>1. CASE Goto("start")
  BY <1>1, GotoFacts DEF EnrollDuring, At, Steps
<1> QED
  BY <1>1 DEF EnrollDuring, At

\* start_services: Hermes and the Node execute what is installed, or the
\* attempt is undone.
LEMMA StartFacts ==
  ASSUME upd \in Updater, start_services
  PROVE  /\ upd.step = "start"
         /\ \/ /\ hermes' = runtime /\ node' = binary /\ BootWorkers /\ session' = Down
               /\ Moved("health", upd.swap, upd.restarted)
            \/ /\ hermes' \in {hermes, runtime} /\ UNCHANGED <<node, worker, session>>
               /\ Moved("undo", TRUE, TRUE)
         /\ UNCHANGED <<fileVars, awake, journal, histVars>> /\ Quiet
<1>1. upd.step = "start" /\ UNCHANGED <<fileVars, awake, journal, histVars>> /\ Quiet
  BY DEF start_services, At
<1>2. CASE abandon(TRUE, TRUE) /\ hermes' \in {hermes, runtime} /\ UNCHANGED <<node, worker, session>>
  BY <1>1, <1>2, AbandonFacts
<1>3. CASE /\ hermes' = runtime /\ node' = binary /\ BootWorkers /\ session' = Down
           /\ Goto("health")
  BY <1>1, <1>3, GotoFacts DEF Steps
<1> QED
  BY <1>2, <1>3 DEF start_services

\* verify_installation: the displaced workers are restarted, all of them or
\* some before the failure.
LEMMA VerifyFacts ==
  ASSUME upd \in Updater, verify_installation
  PROVE  /\ upd.step = "check"
         /\ \E some \in SUBSET upd.displaced :
              worker' = [w \in Workers |-> IF w \in some THEN runtime ELSE worker[w]]
         /\ Moved("converge", upd.swap, upd.restarted) \/ Moved("undo", TRUE, TRUE)
         /\ UNCHANGED <<fileVars, node, hermes, awake, journal, session, histVars>> /\ Quiet
<1>1. /\ upd.step = "check"
      /\ UNCHANGED <<fileVars, node, hermes, awake, journal, session, histVars>> /\ Quiet
  BY DEF verify_installation, At
<1>2. \E some \in SUBSET upd.displaced :
        worker' = [w \in Workers |-> IF w \in some THEN runtime ELSE worker[w]]
  BY DEF verify_installation
<1>3. CASE abandon(TRUE, TRUE)
  BY <1>1, <1>2, <1>3, AbandonFacts
<1>4. CASE Goto("converge")
  BY <1>1, <1>2, <1>4, GotoFacts DEF Steps
<1> QED
  BY <1>3, <1>4 DEF verify_installation

\* converge: every service holds, or everything is undone.
LEMMA ConvergeFacts ==
  ASSUME upd \in Updater, Converge
  PROVE  /\ upd.step = "converge"
         /\ \/ Converged /\ Moved("commit", upd.swap, upd.restarted)
            \/ Moved("undo", TRUE, TRUE)
         /\ UNCHANGED <<fileVars, procVars, journal, session, histVars>> /\ Quiet
<1>1. /\ upd.step = "converge"
      /\ UNCHANGED <<fileVars, procVars, journal, session, histVars>> /\ Quiet
  BY DEF Converge, At
<1>2. CASE abandon(TRUE, TRUE)
  BY <1>1, <1>2, AbandonFacts
<1>3. CASE Converged /\ Goto("commit")
  BY <1>1, <1>3, GotoFacts DEF Steps
<1> QED
  BY <1>2, <1>3 DEF Converge

\* wait_until_healthy: the Node answered, or everything is undone.
LEMMA HealthFacts ==
  ASSUME upd \in Updater, wait_until_healthy
  PROVE  /\ upd.step = "health"
         /\ \/ /\ node # None
               /\ \/ Moved("check", upd.swap, upd.restarted)
                  \/ /\ upd.displaced = {} /\ upd.verb # "update"
                     /\ Moved("commit", upd.swap, upd.restarted)
            \/ Moved("undo", TRUE, TRUE)
         /\ UNCHANGED <<fileVars, procVars, journal, session, histVars>> /\ Quiet
<1>1. /\ upd.step = "health"
      /\ UNCHANGED <<fileVars, procVars, journal, session, histVars>> /\ Quiet
  BY DEF wait_until_healthy, At
<1>2. CASE abandon(TRUE, TRUE)
  BY <1>1, <1>2, AbandonFacts
<1>3. CASE /\ node # None
           /\ Goto(IF upd.verb = "update" \/ upd.displaced # {} THEN "check" ELSE "commit")
  <2>1. CASE upd.verb = "update" \/ upd.displaced # {}
    BY <1>1, <1>3, <2>1, GotoFacts DEF Steps
  <2>2. CASE ~(upd.verb = "update" \/ upd.displaced # {})
    BY <1>1, <1>3, <2>2, GotoFacts DEF Steps
  <2> QED
    BY <2>1, <2>2
<1> QED
  BY <1>2, <1>3 DEF wait_until_healthy

\* restore_files: what was found is put back, or the outcome is not clean.
LEMMA RestoreFacts ==
  ASSUME upd \in Updater, restore_files
  PROVE  /\ upd.step = "undo_files" /\ upd'.step = "undo_units"
         /\ upd'.verb = upd.verb /\ upd'.op = upd.op /\ upd'.target = upd.target
         /\ upd'.handed = upd.handed /\ upd'.parked = upd.parked /\ upd'.captured = upd.captured /\ upd'.saved = upd.saved
         /\ upd'.swap = upd.swap /\ upd'.before = upd.before
         /\ config' \in {config, IF upd.captured THEN upd.saved ELSE config}
         /\ binary' \in {binary, PreviousBinary}
         /\ upd'.clean => /\ config' = (IF upd.captured THEN upd.saved ELSE config)
                          /\ binary' = PreviousBinary
         /\ UNCHANGED <<runtime, retired, procVars, journal, session, histVars>> /\ Quiet
<1>1. upd.step = "undo_files"
      /\ UNCHANGED <<runtime, retired, procVars, journal, session, histVars>> /\ Quiet
  BY DEF restore_files, At
<1>2. CASE /\ config' = (IF upd.captured THEN upd.saved ELSE config) /\ binary' = PreviousBinary
           /\ Goto("undo_units")
  <2>1. Moved("undo_units", upd.swap, upd.restarted)
    BY <1>2, GotoFacts DEF Steps
  <2> QED
    BY <1>1, <1>2, <2>1 DEF Moved
<1>3. CASE /\ upd' = [upd EXCEPT !.step = "undo_units", !.clean = FALSE]
           /\ config' \in {config, IF upd.captured THEN upd.saved ELSE config}
           /\ binary' \in {binary, PreviousBinary}
  BY <1>1, <1>3 DEF Updater
<1> QED
  BY <1>2, <1>3 DEF restore_files

-----------------------------------------------------------------------------
(* Each invariant, over every step.                                        *)

\* A process keeps to its steps.
LEMMA StepStep ==
  upd \in Updater /\ HostOK /\ StepInv /\ OpInv /\ [Next]_vars => StepInv'
<1> SUFFICES ASSUME upd \in Updater, HostOK, StepInv, OpInv, [Next]_vars
             PROVE  StepInv'
  OBVIOUS
<1> USE IdleFacts
<1> USE DEF StepInv, Updater, Placed, Cleared, Unplaced, UpdateOnly
<1>1. ASSUME NEW v \in {"install", "update", "repair"}, NEW r \in Releases, run_lifecycle(v, r)
      PROVE  StepInv'
  BY <1>1, RunFacts DEF fileVars, procVars, planeVars, histVars
<1>2. ASSUME NEW r \in Releases, RequestUpdate(r)
      PROVE  StepInv'
  BY <1>2 DEF RequestUpdate
<1>3. ASSUME NEW r \in Releases, request_update(r)
      PROVE  StepInv'
  BY <1>3, RequestFacts DEF request_update, fileVars, procVars, planeVars, countVars,
     histVars
<1>4. ASSUME NEW o \in Ops, ReceiveUpdate(o)
      PROVE  StepInv'
  BY <1>4, RequestFacts DEF ReceiveUpdate, fileVars, procVars, planeVars, countVars,
     histVars
<1>5. ASSUME NEW o \in Ops, sweepStalled(o)
      PROVE  StepInv'
  BY <1>5 DEF sweepStalled
<1>6. CASE apply_update
  BY <1>6 DEF apply_update, At, consume, OpInv
<1>7. CASE hand_over_to
  BY <1>7 DEF hand_over_to, At, Goto, Still
<1>8. CASE Begin
  BY <1>8, BeginFacts DEF Quiet, Still, fileVars, procVars, planeVars, countVars, histVars
<1>9. CASE recover_from_interrupted_install
  BY <1>9, RecoverFacts DEF GaveUp, Moved, Quiet, Still, fileVars, procVars, planeVars,
     countVars, histVars
<1>10. CASE download_bundle
  <2>1. Prepare("fetch", "verify")
    BY <1>10 DEF download_bundle
  <2>2. Prepared("fetch", "verify")
    BY <2>1, PrepareFacts DEF Steps
  <2> QED
    BY <2>2 DEF Prepared, GaveUp, Moved, Quiet, Still, fileVars, procVars, planeVars,
       countVars, histVars
<1>11. CASE verify_bundle
  <2>1. Prepare("verify", IF upd.verb = "repair" THEN "unpack" ELSE "prepare")
    BY <1>11 DEF verify_bundle
  <2>2. Prepared("verify", IF upd.verb = "repair" THEN "unpack" ELSE "prepare")
    BY <2>1, PrepareFacts DEF Steps
  <2> QED
    BY <2>2 DEF Prepared, GaveUp, Moved, Quiet, Still, fileVars, procVars, planeVars,
       countVars, histVars
<1>12. CASE ensure_prerequisites
  <2>1. Prepare("prepare", "unpack")
    BY <1>12 DEF ensure_prerequisites
  <2>2. Prepared("prepare", "unpack")
    BY <2>1, PrepareFacts DEF Steps
  <2> QED
    BY <2>2 DEF Prepared, GaveUp, Moved, Quiet, Still, fileVars, procVars, planeVars,
       countVars, histVars
<1>13. CASE unpack
  <2>1. Prepare("unpack", "aside")
    BY <1>13 DEF unpack
  <2>2. Prepared("unpack", "aside")
    BY <2>1, PrepareFacts DEF Steps
  <2> QED
    BY <2>2 DEF Prepared, GaveUp, Moved, Quiet, Still, fileVars, procVars, planeVars,
       countVars, histVars
<1>14. CASE SwapAside
  BY <1>14 DEF SwapAside, At, Goto, Still
<1>15. CASE SwapIn
  BY <1>15, SwapInFacts DEF Rolled, GaveUp, Moved, Quiet, Still, fileVars, procVars,
     planeVars, countVars, histVars
<1>16. CASE write_env_file
  <2>1. Write("env", "mode", [config EXCEPT !.env = upd.target])
    BY <1>16 DEF write_env_file
  <2>2. Wrote("env", "mode", [config EXCEPT !.env = upd.target])
    BY <2>1, WriteFacts DEF Steps, Placed
  <2> QED
    BY <2>2 DEF Wrote, Rolled, GaveUp, Moved, Quiet, Still, fileVars, procVars, planeVars,
       countVars, histVars
<1>17. CASE reconcile_journal_mode
  <2>1. Write("mode", "units", [config EXCEPT !.mode = upd.target])
    BY <1>17 DEF reconcile_journal_mode
  <2>2. Wrote("mode", "units", [config EXCEPT !.mode = upd.target])
    BY <2>1, WriteFacts DEF Steps, Placed
  <2> QED
    BY <2>2 DEF Wrote, Rolled, GaveUp, Moved, Quiet, Still, fileVars, procVars, planeVars,
       countVars, histVars
<1>18. CASE write_units
  <2>1. Write("units", "self", [config EXCEPT !.units = upd.target])
    BY <1>18 DEF write_units
  <2>2. Wrote("units", "self", [config EXCEPT !.units = upd.target])
    BY <2>1, WriteFacts DEF Steps, Placed
  <2> QED
    BY <2>2 DEF Wrote, Rolled, GaveUp, Moved, Quiet, Still, fileVars, procVars, planeVars,
       countVars, histVars
<1>19. CASE install_self
  BY <1>19, SelfFacts DEF Moved, Quiet, Still, fileVars, procVars, planeVars, countVars,
     histVars
<1>20. CASE EnrollDuring
  BY <1>20, EnrollFacts, IdleFacts DEF Moved, Quiet, Still, fileVars, procVars, planeVars,
     countVars, histVars
<1>21. CASE start_services
  BY <1>21, StartFacts DEF BootWorkers, Moved, Quiet, Still, fileVars, procVars, planeVars,
     countVars, histVars
<1>22. CASE wait_until_healthy
  BY <1>22, HealthFacts DEF Moved, Quiet, Still, fileVars, procVars, planeVars, countVars,
     histVars
<1>23. CASE verify_installation
  BY <1>23, VerifyFacts DEF Moved, Quiet, Still, fileVars, procVars, planeVars, countVars,
     histVars
<1>24. CASE Converge
  BY <1>24, ConvergeFacts DEF Converged, Moved, Quiet, Still, fileVars, procVars,
     planeVars, countVars, histVars
<1>25. CASE Commit
  BY <1>25 DEF Commit, At, Goto, Still
<1>26. CASE Report
  BY <1>26 DEF Report, At, Goto, Still
<1>27. CASE roll_back
  BY <1>27, UndoFacts DEF Rolled, Moved, Still, fileVars, procVars, planeVars, countVars,
     histVars
<1>28. CASE restore_files
  BY <1>28, RestoreFacts DEF PreviousBinary, Quiet, Still, fileVars, procVars, planeVars,
     countVars, histVars
<1>29. CASE restart_units
  BY <1>29 DEF restart_units, At, Goto, Still
<1>30. CASE judge
  BY <1>30 DEF judge, At, Goto, Still
<1>31. CASE restore_previous_runtime
  BY <1>31 DEF restore_previous_runtime, At, Goto, Still
<1>32. ASSUME NEW w \in Workers, Wake(w)
      PROVE  StepInv'
  BY <1>32 DEF Wake
<1>33. ASSUME NEW w \in Workers, Sleep(w)
      PROVE  StepInv'
  BY <1>33 DEF Sleep
<1>34. CASE HermesStarts
  BY <1>34 DEF HermesStarts
<1>35. CASE NodeStarts
  BY <1>35 DEF NodeStarts, At, Installed
<1>36. CASE PowerLoss
  BY <1>36 DEF PowerLoss
<1>37. CASE UpdaterKilled
  BY <1>37 DEF UpdaterKilled, At
<1>38. CASE Connect
  BY <1>38 DEF Connect
<1>39. CASE Disconnect
  BY <1>39 DEF Disconnect
<1>40. ASSUME NEW o \in Ops, NEW answered \in BOOLEAN, flush_update_progress(o, answered)
      PROVE  StepInv'
  BY <1>40 DEF flush_update_progress
<1>41. CASE UNCHANGED vars
  BY <1>41 DEF vars
<1> QED
  BY <1>1, <1>2, <1>3, <1>4, <1>5, <1>6, <1>7, <1>8, <1>9, <1>10, <1>11, <1>12, <1>13,
     <1>14, <1>15, <1>16, <1>17, <1>18, <1>19, <1>20, <1>21, <1>22, <1>23, <1>24,
     <1>25, <1>26, <1>27, <1>28, <1>29, <1>30, <1>31, <1>32, <1>33, <1>34, <1>35,
     <1>36, <1>37, <1>38, <1>39, <1>40, <1>41
  DEF Next, UpdaterStep, Forward

\* Operations are created and answered in order, and a process keeps to its own.
LEMMA OpStep ==
  upd \in Updater /\ PlaneOK /\ CountOK /\ StepInv /\ OpInv /\ [Next]_vars => OpInv'
<1> SUFFICES ASSUME upd \in Updater, PlaneOK, CountOK, StepInv, OpInv, [Next]_vars
             PROVE  OpInv'
  OBVIOUS
<1> USE IdleFacts, BoundFacts
<1> USE DEF OpInv, Updater, PlaneOK, CountOK, fileVars, procVars, planeVars, countVars,
            histVars
<1>1. ASSUME NEW v \in {"install", "update", "repair"}, NEW r \in Releases, run_lifecycle(v, r)
      PROVE  OpInv'
  BY <1>1 DEF run_lifecycle, At, Installed
<1>2. ASSUME NEW r \in Releases, RequestUpdate(r)
      PROVE  OpInv'
  BY <1>2 DEF RequestUpdate
<1>3. ASSUME NEW r \in Releases, request_update(r)
      PROVE  OpInv'
  <2>1. updaterequest_request(NoOp, r)
    BY <1>3 DEF request_update
  <2> DEFINE q == [op |-> NoOp, release |-> r]
  <2>2. q.op = NoOp /\ q.release = r /\ NoRequest.op = NoOp
    BY DEF NoRequest
  <2>3. request' = q \/ request' = NoRequest
    BY <2>1, RequestFacts
  <2>4. upd' = upd \/ upd'.op = NoOp
    BY <2>1, RequestFacts
  <2> HIDE DEF q
  <2> QED
    BY <1>3, <2>2, <2>3, <2>4 DEF request_update
<1>4. ASSUME NEW o \in Ops, ReceiveUpdate(o)
      PROVE  OpInv'
  <2>1. updaterequest_request(o, wanted[o])
    BY <1>4 DEF ReceiveUpdate
  <2> DEFINE q == [op |-> o, release |-> wanted[o]]
  <2>2. q.op = o /\ q.release = wanted[o] /\ NoRequest.op = NoOp
    BY DEF NoRequest
  <2>3. request' = q \/ request' = NoRequest
    BY <2>1, RequestFacts
  <2>4. upd' = upd \/ upd'.op = NoOp
    BY <2>1, RequestFacts
  <2> HIDE DEF q
  <2> QED
    BY <1>4, <2>2, <2>3, <2>4 DEF ReceiveUpdate
<1>5. ASSUME NEW o \in Ops, sweepStalled(o)
      PROVE  OpInv'
  BY <1>5 DEF sweepStalled
<1>6. CASE apply_update
  <2>1. NoRequest.op = NoOp /\ request' = NoRequest /\ UNCHANGED <<wanted, sent, ops>>
    BY <1>6 DEF apply_update, consume, NoRequest
  <2>2. CASE upd' = Idle
    BY <2>1, <2>2
  <2>3. CASE upd' = [Idle EXCEPT !.verb = "update", !.unit = TRUE, !.op = request.op,
                  !.target = request.release,
                  !.step = IF request.release # binary THEN "handover" ELSE "begin",
                  !.before = <<binary, runtime, config>>]
    <3>1. upd'.op = request.op /\ upd'.target = request.release
      BY <2>3 DEF Idle
    <3> QED
      BY <2>1, <3>1
  <2> QED
    BY <1>6, <2>2, <2>3 DEF apply_update
<1>7. CASE hand_over_to
  BY <1>7 DEF hand_over_to, At, Goto, Fails, Quiet, Still
<1>8. CASE Begin
  BY <1>8, BeginFacts DEF Quiet, Still, fileVars, procVars, planeVars, countVars, histVars
<1>9. CASE recover_from_interrupted_install
  BY <1>9 DEF recover_from_interrupted_install, At, Goto, Fails, Quiet, Still, abandon
<1>10. CASE download_bundle
  BY <1>10 DEF download_bundle, At, Goto, Fails, Quiet, Still, abandon, Prepare
<1>11. CASE verify_bundle
  BY <1>11 DEF verify_bundle, At, Goto, Fails, Quiet, Still, abandon, Prepare
<1>12. CASE ensure_prerequisites
  BY <1>12 DEF ensure_prerequisites, At, Goto, Fails, Quiet, Still, abandon, Prepare
<1>13. CASE unpack
  BY <1>13 DEF unpack, At, Goto, Fails, Quiet, Still, abandon, Prepare
<1>14. CASE SwapAside
  BY <1>14 DEF SwapAside, At, Goto, Fails, Quiet, Still
<1>15. CASE SwapIn
  BY <1>15 DEF SwapIn, At, Goto, Fails, Quiet, Still, abandon, RollBack
<1>16. CASE write_env_file
  BY <1>16 DEF write_env_file, At, Goto, Fails, Quiet, Still, abandon, Write, RollBack
<1>17. CASE reconcile_journal_mode
  BY <1>17 DEF reconcile_journal_mode, At, Goto, Fails, Quiet, Still, abandon, Write,
     RollBack
<1>18. CASE write_units
  BY <1>18 DEF write_units, At, Goto, Fails, Quiet, Still, abandon, Write, RollBack
<1>19. CASE install_self
  BY <1>19 DEF install_self, At, Goto, Fails, Quiet, Still, abandon
<1>20. CASE EnrollDuring
  BY <1>20 DEF EnrollDuring, At, Goto, Fails, Quiet, Still
<1>21. CASE start_services
  BY <1>21 DEF start_services, At, Goto, Fails, Quiet, Still, abandon
<1>22. CASE wait_until_healthy
  BY <1>22 DEF wait_until_healthy, At, Goto, Fails, Quiet, Still, abandon
<1>23. CASE verify_installation
  BY <1>23 DEF verify_installation, At, Goto, Fails, Quiet, Still, abandon
<1>24. CASE Converge
  BY <1>24 DEF Converge, At, Goto, Fails, Quiet, Still, abandon
<1>25. CASE Commit
  BY <1>25 DEF Commit, At, Goto, Fails, Quiet, Still
<1>26. CASE Report
  BY <1>26 DEF Report, At, Goto, Fails, Quiet, Still
<1>27. CASE roll_back
  BY <1>27 DEF roll_back, At, Goto, Fails, Quiet, Still, RollBack
<1>28. CASE restore_files
  BY <1>28 DEF restore_files, At, Goto, Fails, Quiet, Still
<1>29. CASE restart_units
  BY <1>29 DEF restart_units, At, Goto, Fails, Quiet, Still
<1>30. CASE judge
  BY <1>30 DEF judge, At, Goto, Fails, Quiet, Still
<1>31. CASE restore_previous_runtime
  BY <1>31 DEF restore_previous_runtime, At, Goto, Fails, Quiet, Still
<1>32. ASSUME NEW w \in Workers, Wake(w)
      PROVE  OpInv'
  BY <1>32 DEF Wake
<1>33. ASSUME NEW w \in Workers, Sleep(w)
      PROVE  OpInv'
  BY <1>33 DEF Sleep
<1>34. CASE HermesStarts
  BY <1>34 DEF HermesStarts
<1>35. CASE NodeStarts
  BY <1>35 DEF NodeStarts, At, Installed
<1>36. CASE PowerLoss
  BY <1>36 DEF PowerLoss
<1>37. CASE UpdaterKilled
  BY <1>37 DEF UpdaterKilled, At
<1>38. CASE Connect
  BY <1>38 DEF Connect
<1>39. CASE Disconnect
  BY <1>39 DEF Disconnect
<1>40. ASSUME NEW o \in Ops, NEW answered \in BOOLEAN, flush_update_progress(o, answered)
      PROVE  OpInv'
  BY <1>40 DEF flush_update_progress
<1>41. CASE UNCHANGED vars
  BY <1>41 DEF vars
<1> QED
  BY <1>1, <1>2, <1>3, <1>4, <1>5, <1>6, <1>7, <1>8, <1>9, <1>10, <1>11, <1>12, <1>13,
     <1>14, <1>15, <1>16, <1>17, <1>18, <1>19, <1>20, <1>21, <1>22, <1>23, <1>24,
     <1>25, <1>26, <1>27, <1>28, <1>29, <1>30, <1>31, <1>32, <1>33, <1>34, <1>35,
     <1>36, <1>37, <1>38, <1>39, <1>40, <1>41
  DEF Next, UpdaterStep, Forward

\* The runtime that last served stays where the next step looks for it.
LEMMA KeptStep ==
  upd \in Updater /\ HostOK /\ StepInv /\ InstalledInv /\ ReadyInv /\ KeptInv
    /\ [Next]_vars => KeptInv'
<1> SUFFICES ASSUME upd \in Updater, HostOK, StepInv, InstalledInv, ReadyInv, KeptInv, [Next]_vars
             PROVE  KeptInv'
  OBVIOUS
<1> USE IdleFacts
<1> USE DEF StepInv, ReadyInv, KeptInv, Kept, Swapped, Placed, Cleared, Unplaced,
            UpdateOnly, fileVars, procVars, planeVars, countVars, histVars
<1>1. ASSUME NEW v \in {"install", "update", "repair"}, NEW r \in Releases, run_lifecycle(v, r)
      PROVE  KeptInv'
  BY <1>1, RunFacts DEF fileVars, procVars, planeVars, histVars
<1>2. ASSUME NEW r \in Releases, RequestUpdate(r)
      PROVE  KeptInv'
  BY <1>2 DEF RequestUpdate, Updater
<1>3. ASSUME NEW r \in Releases, request_update(r)
      PROVE  KeptInv'
  BY <1>3, RequestFacts DEF request_update, fileVars, procVars, planeVars, countVars,
     histVars
<1>4. ASSUME NEW o \in Ops, ReceiveUpdate(o)
      PROVE  KeptInv'
  BY <1>4, RequestFacts DEF ReceiveUpdate, fileVars, procVars, planeVars, countVars,
     histVars
<1>5. ASSUME NEW o \in Ops, sweepStalled(o)
      PROVE  KeptInv'
  BY <1>5 DEF sweepStalled, Updater
<1>6. CASE apply_update
  BY <1>6 DEF apply_update, At, consume, Updater
<1>7. CASE hand_over_to
  BY <1>7 DEF hand_over_to, At, Goto, Quiet, Still, Updater
<1>8. CASE Begin
  BY <1>8, BeginFacts DEF Quiet, Still, fileVars, procVars, planeVars, countVars, histVars
<1>9. CASE recover_from_interrupted_install
  BY <1>9, RecoverFacts DEF GaveUp, Moved, Quiet, Still, fileVars, procVars, planeVars,
     countVars, histVars
<1>10. CASE download_bundle
  <2>1. Prepare("fetch", "verify")
    BY <1>10 DEF download_bundle
  <2>2. Prepared("fetch", "verify")
    BY <2>1, PrepareFacts DEF Steps
  <2> QED
    BY <2>2 DEF Prepared, GaveUp, Moved, Quiet, Still, fileVars, procVars, planeVars,
       countVars, histVars
<1>11. CASE verify_bundle
  <2>1. Prepare("verify", IF upd.verb = "repair" THEN "unpack" ELSE "prepare")
    BY <1>11 DEF verify_bundle
  <2>2. Prepared("verify", IF upd.verb = "repair" THEN "unpack" ELSE "prepare")
    BY <2>1, PrepareFacts DEF Steps
  <2> QED
    BY <2>2 DEF Prepared, GaveUp, Moved, Quiet, Still, fileVars, procVars, planeVars,
       countVars, histVars
<1>12. CASE ensure_prerequisites
  <2>1. Prepare("prepare", "unpack")
    BY <1>12 DEF ensure_prerequisites
  <2>2. Prepared("prepare", "unpack")
    BY <2>1, PrepareFacts DEF Steps
  <2> QED
    BY <2>2 DEF Prepared, GaveUp, Moved, Quiet, Still, fileVars, procVars, planeVars,
       countVars, histVars
<1>13. CASE unpack
  <2>1. Prepare("unpack", "aside")
    BY <1>13 DEF unpack
  <2>2. Prepared("unpack", "aside")
    BY <2>1, PrepareFacts DEF Steps
  <2> QED
    BY <2>2 DEF Prepared, GaveUp, Moved, Quiet, Still, fileVars, procVars, planeVars,
       countVars, histVars
<1>14. CASE SwapAside
  BY <1>14 DEF SwapAside, At, Goto, Quiet, Still, Updater
<1>15. CASE SwapIn
  BY <1>15, SwapInFacts DEF Rolled, GaveUp, Moved, Quiet, Still, fileVars, procVars,
     planeVars, countVars, histVars
<1>16. CASE write_env_file
  <2>1. Write("env", "mode", [config EXCEPT !.env = upd.target])
    BY <1>16 DEF write_env_file
  <2>2. Wrote("env", "mode", [config EXCEPT !.env = upd.target])
    BY <2>1, WriteFacts DEF Steps, Placed
  <2> QED
    BY <2>2 DEF Wrote, Rolled, GaveUp, Moved, Quiet, Still, fileVars, procVars, planeVars,
       countVars, histVars
<1>17. CASE reconcile_journal_mode
  <2>1. Write("mode", "units", [config EXCEPT !.mode = upd.target])
    BY <1>17 DEF reconcile_journal_mode
  <2>2. Wrote("mode", "units", [config EXCEPT !.mode = upd.target])
    BY <2>1, WriteFacts DEF Steps, Placed
  <2> QED
    BY <2>2 DEF Wrote, Rolled, GaveUp, Moved, Quiet, Still, fileVars, procVars, planeVars,
       countVars, histVars
<1>18. CASE write_units
  <2>1. Write("units", "self", [config EXCEPT !.units = upd.target])
    BY <1>18 DEF write_units
  <2>2. Wrote("units", "self", [config EXCEPT !.units = upd.target])
    BY <2>1, WriteFacts DEF Steps, Placed
  <2> QED
    BY <2>2 DEF Wrote, Rolled, GaveUp, Moved, Quiet, Still, fileVars, procVars, planeVars,
       countVars, histVars
<1>19. CASE install_self
  <2>1. upd.step = "self" /\ upd.swap
    BY <1>19, SelfFacts DEF StepInv, Placed
  <2>2. upd'.swap /\ upd'.step \in {"enroll", "start", "undo"}
    BY <1>19, <2>1, SelfFacts DEF Moved
  <2>3. UNCHANGED <<runtime, retired, proven, interrupted>>
    BY <1>19, SelfFacts DEF fileVars, histVars
  <2> QED
    BY <2>1, <2>2, <2>3
<1>20. CASE EnrollDuring
  BY <1>20, EnrollFacts, IdleFacts DEF Moved, Quiet, Still, fileVars, procVars, planeVars,
     countVars, histVars, InstalledInv
<1>21. CASE start_services
  <2>1. upd.step = "start" /\ upd.swap
    BY <1>21, StartFacts DEF StepInv, Placed
  <2>2. upd'.swap /\ upd'.step \in {"health", "undo"}
    BY <1>21, <2>1, StartFacts DEF Moved
  <2>3. UNCHANGED <<runtime, retired, proven, interrupted>>
    BY <1>21, StartFacts DEF fileVars, histVars
  <2> QED
    BY <2>1, <2>2, <2>3
<1>22. CASE wait_until_healthy
  <2>1. upd.step = "health" /\ upd.swap
    BY <1>22, HealthFacts DEF StepInv, Placed
  <2>2. upd'.swap /\ upd'.step \in {"check", "commit", "undo"}
    BY <1>22, <2>1, HealthFacts DEF Moved
  <2>3. UNCHANGED <<runtime, retired, proven, interrupted>>
    BY <1>22, HealthFacts DEF fileVars, histVars
  <2> QED
    BY <2>1, <2>2, <2>3
<1>23. CASE verify_installation
  <2>1. upd.step = "check" /\ upd.swap
    BY <1>23, VerifyFacts DEF StepInv, Placed
  <2>2. upd'.swap /\ upd'.step \in {"converge", "undo"}
    BY <1>23, <2>1, VerifyFacts DEF Moved
  <2>3. UNCHANGED <<runtime, retired, proven, interrupted>>
    BY <1>23, VerifyFacts DEF fileVars, histVars
  <2> QED
    BY <2>1, <2>2, <2>3
<1>24. CASE Converge
  <2>1. upd.step = "converge" /\ upd.swap
    BY <1>24, ConvergeFacts DEF StepInv, Placed
  <2>2. upd'.swap /\ upd'.step \in {"commit", "undo"}
    BY <1>24, <2>1, ConvergeFacts DEF Moved
  <2>3. UNCHANGED <<runtime, retired, proven, interrupted>>
    BY <1>24, ConvergeFacts DEF fileVars, histVars
  <2> QED
    BY <2>1, <2>2, <2>3
<1>25. CASE Commit
  BY <1>25 DEF Commit, At, Goto, Quiet, Still, Updater
<1>26. CASE Report
  BY <1>26 DEF Report, At, Goto, Quiet, Still, Updater
<1>27. CASE roll_back
  BY <1>27, UndoFacts DEF Rolled, Moved, Still, fileVars, procVars, planeVars, countVars,
     histVars
<1>28. CASE restore_files
  BY <1>28, RestoreFacts DEF PreviousBinary, Quiet, Still, fileVars, procVars, planeVars,
     countVars, histVars
<1>29. CASE restart_units
  BY <1>29 DEF restart_units, At, Goto, Quiet, Still, Updater
<1>30. CASE judge
  BY <1>30 DEF judge, At, Goto, Quiet, Still, Updater
<1>31. CASE restore_previous_runtime
  BY <1>31 DEF restore_previous_runtime, At, Goto, Quiet, Still, Updater
<1>32. ASSUME NEW w \in Workers, Wake(w)
      PROVE  KeptInv'
  BY <1>32 DEF Wake, Updater
<1>33. ASSUME NEW w \in Workers, Sleep(w)
      PROVE  KeptInv'
  BY <1>33 DEF Sleep, Updater
<1>34. CASE HermesStarts
  BY <1>34 DEF HermesStarts, Updater
<1>35. CASE NodeStarts
  BY <1>35 DEF NodeStarts, At, Installed, Updater
<1>36. CASE PowerLoss
  BY <1>36 DEF PowerLoss, Updater
<1>37. CASE UpdaterKilled
  BY <1>37 DEF UpdaterKilled, At, Updater
<1>38. CASE Connect
  BY <1>38 DEF Connect, Updater
<1>39. CASE Disconnect
  BY <1>39 DEF Disconnect, Updater
<1>40. ASSUME NEW o \in Ops, NEW answered \in BOOLEAN, flush_update_progress(o, answered)
      PROVE  KeptInv'
  BY <1>40 DEF flush_update_progress, Updater
<1>41. CASE UNCHANGED vars
  BY <1>41 DEF vars
<1> QED
  BY <1>1, <1>2, <1>3, <1>4, <1>5, <1>6, <1>7, <1>8, <1>9, <1>10, <1>11, <1>12, <1>13,
     <1>14, <1>15, <1>16, <1>17, <1>18, <1>19, <1>20, <1>21, <1>22, <1>23, <1>24,
     <1>25, <1>26, <1>27, <1>28, <1>29, <1>30, <1>31, <1>32, <1>33, <1>34, <1>35,
     <1>36, <1>37, <1>38, <1>39, <1>40, <1>41
  DEF Next, UpdaterStep, Forward

\* Over a runtime that served there is always an installation.
LEMMA InstalledStep ==
  upd \in Updater /\ HostOK /\ StepInv /\ ReadyInv /\ InstalledInv
    /\ [Next]_vars => InstalledInv'
<1> SUFFICES ASSUME upd \in Updater, HostOK, StepInv, ReadyInv, InstalledInv, [Next]_vars
             PROVE  InstalledInv'
  OBVIOUS
<1> USE IdleFacts, ReleaseFacts
<1> USE DEF InstalledInv, Installed, StepInv, Placed, Cleared, Unplaced, UpdateOnly,
            fileVars, procVars, planeVars, countVars, histVars
<1>1. ASSUME NEW v \in {"install", "update", "repair"}, NEW r \in Releases, run_lifecycle(v, r)
      PROVE  InstalledInv'
  BY <1>1, RunFacts DEF fileVars, procVars, planeVars, histVars
<1>2. ASSUME NEW r \in Releases, RequestUpdate(r)
      PROVE  InstalledInv'
  BY <1>2 DEF RequestUpdate, Updater
<1>3. ASSUME NEW r \in Releases, request_update(r)
      PROVE  InstalledInv'
  BY <1>3, RequestFacts DEF request_update, fileVars, procVars, planeVars, countVars,
     histVars
<1>4. ASSUME NEW o \in Ops, ReceiveUpdate(o)
      PROVE  InstalledInv'
  BY <1>4, RequestFacts DEF ReceiveUpdate, fileVars, procVars, planeVars, countVars,
     histVars
<1>5. ASSUME NEW o \in Ops, sweepStalled(o)
      PROVE  InstalledInv'
  BY <1>5 DEF sweepStalled, Updater
<1>6. CASE apply_update
  BY <1>6 DEF apply_update, At, consume, Updater
<1>7. CASE hand_over_to
  BY <1>7 DEF hand_over_to, At, Goto, Quiet, Still, Updater
<1>8. CASE Begin
  BY <1>8, BeginFacts DEF Quiet, Still, fileVars, procVars, planeVars, countVars, histVars
<1>9. CASE recover_from_interrupted_install
  BY <1>9, RecoverFacts DEF GaveUp, Moved, Quiet, Still, fileVars, procVars, planeVars,
     countVars, histVars
<1>10. CASE download_bundle
  <2>1. Prepare("fetch", "verify")
    BY <1>10 DEF download_bundle
  <2>2. Prepared("fetch", "verify")
    BY <2>1, PrepareFacts DEF Steps
  <2> QED
    BY <2>2 DEF Prepared, GaveUp, Moved, Quiet, Still, fileVars, procVars, planeVars,
       countVars, histVars
<1>11. CASE verify_bundle
  <2>1. Prepare("verify", IF upd.verb = "repair" THEN "unpack" ELSE "prepare")
    BY <1>11 DEF verify_bundle
  <2>2. Prepared("verify", IF upd.verb = "repair" THEN "unpack" ELSE "prepare")
    BY <2>1, PrepareFacts DEF Steps
  <2> QED
    BY <2>2 DEF Prepared, GaveUp, Moved, Quiet, Still, fileVars, procVars, planeVars,
       countVars, histVars
<1>12. CASE ensure_prerequisites
  <2>1. Prepare("prepare", "unpack")
    BY <1>12 DEF ensure_prerequisites
  <2>2. Prepared("prepare", "unpack")
    BY <2>1, PrepareFacts DEF Steps
  <2> QED
    BY <2>2 DEF Prepared, GaveUp, Moved, Quiet, Still, fileVars, procVars, planeVars,
       countVars, histVars
<1>13. CASE unpack
  <2>1. Prepare("unpack", "aside")
    BY <1>13 DEF unpack
  <2>2. Prepared("unpack", "aside")
    BY <2>1, PrepareFacts DEF Steps
  <2> QED
    BY <2>2 DEF Prepared, GaveUp, Moved, Quiet, Still, fileVars, procVars, planeVars,
       countVars, histVars
<1>14. CASE SwapAside
  BY <1>14 DEF SwapAside, At, Goto, Quiet, Still, Updater
<1>15. CASE SwapIn
  BY <1>15, SwapInFacts DEF Rolled, GaveUp, Moved, Quiet, Still, fileVars, procVars,
     planeVars, countVars, histVars
<1>16. CASE write_env_file
  <2> DEFINE after == [config EXCEPT !.env = upd.target]
  <2>1. Write("env", "mode", after)
    BY <1>16 DEF write_env_file
  <2>2. Wrote("env", "mode", after)
    BY <2>1, WriteFacts DEF Steps, Placed
  <2>3. /\ after.env = upd.target
        /\ after.mode = config.mode
        /\ after = [env |-> after.env, mode |-> after.mode, units |-> config.units]
    BY DEF HostOK, Configs
  <2>4. upd.target # None
    BY <2>2, ReleaseFacts DEF Wrote, StepInv
  <2> HIDE DEF after
  <2> QED
    BY <2>2, <2>3, <2>4 DEF Wrote, Rolled, GaveUp, Moved, Written, Quiet, Still, fileVars,
       procVars, planeVars, countVars, histVars
<1>17. CASE reconcile_journal_mode
  <2> DEFINE after == [config EXCEPT !.mode = upd.target]
  <2>1. Write("mode", "units", after)
    BY <1>17 DEF reconcile_journal_mode
  <2>2. Wrote("mode", "units", after)
    BY <2>1, WriteFacts DEF Steps, Placed
  <2>3. /\ after.env = config.env
        /\ after.mode = upd.target
        /\ after = [env |-> after.env, mode |-> after.mode, units |-> config.units]
    BY DEF HostOK, Configs
  <2>4. upd.target # None
    BY <2>2, ReleaseFacts DEF Wrote, StepInv
  <2> HIDE DEF after
  <2> QED
    BY <2>2, <2>3, <2>4 DEF Wrote, Rolled, GaveUp, Moved, Written, Quiet, Still, fileVars,
       procVars, planeVars, countVars, histVars
<1>18. CASE write_units
  <2> DEFINE after == [config EXCEPT !.units = upd.target]
  <2>1. Write("units", "self", after)
    BY <1>18 DEF write_units
  <2>2. Wrote("units", "self", after)
    BY <2>1, WriteFacts DEF Steps, Placed
  <2>3. /\ after.env = config.env
        /\ after.mode = config.mode
        /\ after = [env |-> after.env, mode |-> after.mode, units |-> upd.target]
    BY DEF HostOK, Configs
  <2>4. upd.target # None
    BY <2>2, ReleaseFacts DEF Wrote, StepInv
  <2> HIDE DEF after
  <2> QED
    BY <2>2, <2>3, <2>4 DEF Wrote, Rolled, GaveUp, Moved, Written, Quiet, Still, fileVars,
       procVars, planeVars, countVars, histVars
<1>19. CASE install_self
  BY <1>19, SelfFacts DEF Moved, Quiet, Still, fileVars, procVars, planeVars, countVars,
     histVars
<1>20. CASE EnrollDuring
  BY <1>20, EnrollFacts, IdleFacts DEF Moved, Quiet, Still, fileVars, procVars, planeVars,
     countVars, histVars
<1>21. CASE start_services
  BY <1>21, StartFacts DEF BootWorkers, Moved, Quiet, Still, fileVars, procVars, planeVars,
     countVars, histVars
<1>22. CASE wait_until_healthy
  BY <1>22, HealthFacts DEF Moved, Quiet, Still, fileVars, procVars, planeVars, countVars,
     histVars
<1>23. CASE verify_installation
  BY <1>23, VerifyFacts DEF Moved, Quiet, Still, fileVars, procVars, planeVars, countVars,
     histVars
<1>24. CASE Converge
  BY <1>24, ConvergeFacts DEF Converged, Moved, Quiet, Still, fileVars, procVars,
     planeVars, countVars, histVars
<1>25. CASE Commit
  BY <1>25 DEF Commit, At, Goto, Quiet, Still, ReadyInv, Proving, Selfed, Updater
<1>26. CASE Report
  BY <1>26 DEF Report, At, Goto, Quiet, Still, Updater
<1>27. CASE roll_back
  BY <1>27, UndoFacts DEF Rolled, Moved, Still, fileVars, procVars, planeVars, countVars,
     histVars
<1>28. CASE restore_files
  BY <1>28, RestoreFacts DEF PreviousBinary, Quiet, Still, fileVars, procVars, planeVars,
     countVars, histVars
<1>29. CASE restart_units
  BY <1>29 DEF restart_units, At, Goto, Quiet, Still, Updater
<1>30. CASE judge
  BY <1>30 DEF judge, At, Goto, Quiet, Still, Updater
<1>31. CASE restore_previous_runtime
  BY <1>31 DEF restore_previous_runtime, At, Goto, Quiet, Still, Updater
<1>32. ASSUME NEW w \in Workers, Wake(w)
      PROVE  InstalledInv'
  BY <1>32 DEF Wake, Updater
<1>33. ASSUME NEW w \in Workers, Sleep(w)
      PROVE  InstalledInv'
  BY <1>33 DEF Sleep, Updater
<1>34. CASE HermesStarts
  BY <1>34 DEF HermesStarts, Updater
<1>35. CASE NodeStarts
  BY <1>35 DEF NodeStarts, At, Installed, Updater
<1>36. CASE PowerLoss
  BY <1>36 DEF PowerLoss, Updater
<1>37. CASE UpdaterKilled
  BY <1>37 DEF UpdaterKilled, At, Updater
<1>38. CASE Connect
  BY <1>38 DEF Connect, Updater
<1>39. CASE Disconnect
  BY <1>39 DEF Disconnect, Updater
<1>40. ASSUME NEW o \in Ops, NEW answered \in BOOLEAN, flush_update_progress(o, answered)
      PROVE  InstalledInv'
  BY <1>40 DEF flush_update_progress, Updater
<1>41. CASE UNCHANGED vars
  BY <1>41 DEF vars
<1> QED
  BY <1>1, <1>2, <1>3, <1>4, <1>5, <1>6, <1>7, <1>8, <1>9, <1>10, <1>11, <1>12, <1>13,
     <1>14, <1>15, <1>16, <1>17, <1>18, <1>19, <1>20, <1>21, <1>22, <1>23, <1>24,
     <1>25, <1>26, <1>27, <1>28, <1>29, <1>30, <1>31, <1>32, <1>33, <1>34, <1>35,
     <1>36, <1>37, <1>38, <1>39, <1>40, <1>41
  DEF Next, UpdaterStep, Forward

\* By each step the attempt has written what its target calls for.
LEMMA ReadyStep ==
  upd \in Updater /\ HostOK /\ StepInv /\ ReadyInv /\ [Next]_vars => ReadyInv'
<1> SUFFICES ASSUME upd \in Updater, HostOK, StepInv, ReadyInv, [Next]_vars
             PROVE  ReadyInv'
  OBVIOUS
<1> USE IdleFacts, ReleaseFacts
<1> USE DEF StepInv, ReadyInv, Proving, Selfed, Swapped, Placed, Cleared, Unplaced,
            UpdateOnly, fileVars, procVars, planeVars, countVars, histVars
<1>1. ASSUME NEW v \in {"install", "update", "repair"}, NEW r \in Releases, run_lifecycle(v, r)
      PROVE  ReadyInv'
  BY <1>1, RunFacts DEF fileVars, procVars, planeVars, histVars
<1>2. ASSUME NEW r \in Releases, RequestUpdate(r)
      PROVE  ReadyInv'
  BY <1>2 DEF RequestUpdate, Updater
<1>3. ASSUME NEW r \in Releases, request_update(r)
      PROVE  ReadyInv'
  BY <1>3, RequestFacts DEF request_update, fileVars, procVars, planeVars, countVars,
     histVars
<1>4. ASSUME NEW o \in Ops, ReceiveUpdate(o)
      PROVE  ReadyInv'
  BY <1>4, RequestFacts DEF ReceiveUpdate, fileVars, procVars, planeVars, countVars,
     histVars
<1>5. ASSUME NEW o \in Ops, sweepStalled(o)
      PROVE  ReadyInv'
  BY <1>5 DEF sweepStalled, Updater
<1>6. CASE apply_update
  BY <1>6 DEF apply_update, At, consume, Updater
<1>7. CASE hand_over_to
  BY <1>7 DEF hand_over_to, At, Goto, Quiet, Still, Updater
<1>8. CASE Begin
  BY <1>8, BeginFacts DEF Quiet, Still, fileVars, procVars, planeVars, countVars, histVars
<1>9. CASE recover_from_interrupted_install
  BY <1>9, RecoverFacts DEF GaveUp, Moved, Quiet, Still, fileVars, procVars, planeVars,
     countVars, histVars
<1>10. CASE download_bundle
  <2>1. Prepare("fetch", "verify")
    BY <1>10 DEF download_bundle
  <2>2. Prepared("fetch", "verify")
    BY <2>1, PrepareFacts DEF Steps
  <2> QED
    BY <2>2 DEF Prepared, GaveUp, Moved, Quiet, Still, fileVars, procVars, planeVars,
       countVars, histVars
<1>11. CASE verify_bundle
  <2>1. Prepare("verify", IF upd.verb = "repair" THEN "unpack" ELSE "prepare")
    BY <1>11 DEF verify_bundle
  <2>2. Prepared("verify", IF upd.verb = "repair" THEN "unpack" ELSE "prepare")
    BY <2>1, PrepareFacts DEF Steps
  <2> QED
    BY <2>2 DEF Prepared, GaveUp, Moved, Quiet, Still, fileVars, procVars, planeVars,
       countVars, histVars
<1>12. CASE ensure_prerequisites
  <2>1. Prepare("prepare", "unpack")
    BY <1>12 DEF ensure_prerequisites
  <2>2. Prepared("prepare", "unpack")
    BY <2>1, PrepareFacts DEF Steps
  <2> QED
    BY <2>2 DEF Prepared, GaveUp, Moved, Quiet, Still, fileVars, procVars, planeVars,
       countVars, histVars
<1>13. CASE unpack
  <2>1. Prepare("unpack", "aside")
    BY <1>13 DEF unpack
  <2>2. Prepared("unpack", "aside")
    BY <2>1, PrepareFacts DEF Steps
  <2> QED
    BY <2>2 DEF Prepared, GaveUp, Moved, Quiet, Still, fileVars, procVars, planeVars,
       countVars, histVars
<1>14. CASE SwapAside
  BY <1>14 DEF SwapAside, At, Goto, Quiet, Still, Updater
<1>15. CASE SwapIn
  BY <1>15, SwapInFacts DEF Rolled, GaveUp, Moved, Quiet, Still, fileVars, procVars,
     planeVars, countVars, histVars
<1>16. CASE write_env_file
  <2> DEFINE after == [config EXCEPT !.env = upd.target]
  <2>1. Write("env", "mode", after)
    BY <1>16 DEF write_env_file
  <2>2. Wrote("env", "mode", after)
    BY <2>1, WriteFacts DEF Steps, Placed
  <2>3. /\ after.env = upd.target
        /\ after.mode = config.mode
        /\ after = [env |-> after.env, mode |-> after.mode, units |-> config.units]
    BY DEF HostOK, Configs
  <2>4. upd.target # None
    BY <2>2, ReleaseFacts DEF Wrote, StepInv
  <2> HIDE DEF after
  <2> QED
    BY <2>2, <2>3, <2>4 DEF Wrote, Rolled, GaveUp, Moved, Written, Quiet, Still, fileVars,
       procVars, planeVars, countVars, histVars
<1>17. CASE reconcile_journal_mode
  <2> DEFINE after == [config EXCEPT !.mode = upd.target]
  <2>1. Write("mode", "units", after)
    BY <1>17 DEF reconcile_journal_mode
  <2>2. Wrote("mode", "units", after)
    BY <2>1, WriteFacts DEF Steps, Placed
  <2>3. /\ after.env = config.env
        /\ after.mode = upd.target
        /\ after = [env |-> after.env, mode |-> after.mode, units |-> config.units]
    BY DEF HostOK, Configs
  <2>4. upd.target # None
    BY <2>2, ReleaseFacts DEF Wrote, StepInv
  <2> HIDE DEF after
  <2> QED
    BY <2>2, <2>3, <2>4 DEF Wrote, Rolled, GaveUp, Moved, Written, Quiet, Still, fileVars,
       procVars, planeVars, countVars, histVars
<1>18. CASE write_units
  <2> DEFINE after == [config EXCEPT !.units = upd.target]
  <2>1. Write("units", "self", after)
    BY <1>18 DEF write_units
  <2>2. Wrote("units", "self", after)
    BY <2>1, WriteFacts DEF Steps, Placed
  <2>3. /\ after.env = config.env
        /\ after.mode = config.mode
        /\ after = [env |-> after.env, mode |-> after.mode, units |-> upd.target]
    BY DEF HostOK, Configs
  <2>4. upd.target # None
    BY <2>2, ReleaseFacts DEF Wrote, StepInv
  <2> HIDE DEF after
  <2> QED
    BY <2>2, <2>3, <2>4 DEF Wrote, Rolled, GaveUp, Moved, Written, Quiet, Still, fileVars,
       procVars, planeVars, countVars, histVars
<1>19. CASE install_self
  BY <1>19, SelfFacts DEF Moved, Quiet, Still, fileVars, procVars, planeVars, countVars,
     histVars
<1>20. CASE EnrollDuring
  BY <1>20, EnrollFacts, IdleFacts DEF Moved, Quiet, Still, fileVars, procVars, planeVars,
     countVars, histVars
<1>21. CASE start_services
  BY <1>21, StartFacts DEF BootWorkers, Moved, Quiet, Still, fileVars, procVars, planeVars,
     countVars, histVars
<1>22. CASE wait_until_healthy
  BY <1>22, HealthFacts DEF Moved, Quiet, Still, fileVars, procVars, planeVars, countVars,
     histVars
<1>23. CASE verify_installation
  BY <1>23, VerifyFacts DEF Moved, Quiet, Still, fileVars, procVars, planeVars, countVars,
     histVars
<1>24. CASE Converge
  <2>1. /\ upd.step = "converge" /\ UNCHANGED <<binary, runtime, retired, config, node, hermes, worker>>
        /\ upd'.displaced = upd.displaced /\ upd'.target = upd.target
    BY <1>24, ConvergeFacts DEF Moved, fileVars, procVars
  <2>2. CASE Converged /\ upd'.step = "commit"
    <3>1. \A w \in upd.displaced : worker[w] = upd.target
      BY <2>1, <2>2 DEF Converged
    <3> QED
      BY <2>1, <2>2, <3>1
  <2>3. CASE upd'.step = "undo"
    BY <2>1, <2>3
  <2> QED
    BY <1>24, <2>2, <2>3, ConvergeFacts DEF Moved
<1>25. CASE Commit
  BY <1>25 DEF Commit, At, Goto, Quiet, Still, Updater
<1>26. CASE Report
  BY <1>26 DEF Report, At, Goto, Quiet, Still, Updater
<1>27. CASE roll_back
  BY <1>27, UndoFacts DEF Rolled, Moved, Still, fileVars, procVars, planeVars, countVars,
     histVars
<1>28. CASE restore_files
  BY <1>28, RestoreFacts DEF PreviousBinary, Quiet, Still, fileVars, procVars, planeVars,
     countVars, histVars
<1>29. CASE restart_units
  BY <1>29 DEF restart_units, At, Goto, Quiet, Still, Updater
<1>30. CASE judge
  BY <1>30 DEF judge, At, Goto, Quiet, Still, Updater
<1>31. CASE restore_previous_runtime
  BY <1>31 DEF restore_previous_runtime, At, Goto, Quiet, Still, Updater
<1>32. ASSUME NEW w \in Workers, Wake(w)
      PROVE  ReadyInv'
  BY <1>32 DEF Wake, Updater
<1>33. ASSUME NEW w \in Workers, Sleep(w)
      PROVE  ReadyInv'
  BY <1>33 DEF Sleep, Updater
<1>34. CASE HermesStarts
  BY <1>34 DEF HermesStarts, Updater
<1>35. CASE NodeStarts
  BY <1>35 DEF NodeStarts, At, Installed, Updater
<1>36. CASE PowerLoss
  BY <1>36 DEF PowerLoss, Updater
<1>37. CASE UpdaterKilled
  BY <1>37 DEF UpdaterKilled, At, Updater
<1>38. CASE Connect
  BY <1>38 DEF Connect, Updater
<1>39. CASE Disconnect
  BY <1>39 DEF Disconnect, Updater
<1>40. ASSUME NEW o \in Ops, NEW answered \in BOOLEAN, flush_update_progress(o, answered)
      PROVE  ReadyInv'
  BY <1>40 DEF flush_update_progress, Updater
<1>41. CASE UNCHANGED vars
  BY <1>41 DEF vars
<1> QED
  BY <1>1, <1>2, <1>3, <1>4, <1>5, <1>6, <1>7, <1>8, <1>9, <1>10, <1>11, <1>12, <1>13,
     <1>14, <1>15, <1>16, <1>17, <1>18, <1>19, <1>20, <1>21, <1>22, <1>23, <1>24,
     <1>25, <1>26, <1>27, <1>28, <1>29, <1>30, <1>31, <1>32, <1>33, <1>34, <1>35,
     <1>36, <1>37, <1>38, <1>39, <1>40, <1>41
  DEF Next, UpdaterStep, Forward

\* What an update found stays where its undo looks for it.
LEMMA BackStep ==
  "capture" \notin Hazards /\ upd \in Updater /\ HostOK /\ StepInv /\ ReadyInv /\ BackInv
    /\ [Next]_vars => BackInv'
<1> SUFFICES ASSUME "capture" \notin Hazards, upd \in Updater, HostOK, StepInv, ReadyInv, BackInv, [Next]_vars
             PROVE  BackInv'
  OBVIOUS
<1> USE IdleFacts, ReleaseFacts
<1> USE DEF StepInv, BackInv, Undone, Swapped, Placed, Cleared, Unplaced, UpdateOnly,
            fileVars, procVars, planeVars, countVars, histVars
<1>1. ASSUME NEW v \in {"install", "update", "repair"}, NEW r \in Releases, run_lifecycle(v, r)
      PROVE  BackInv'
  BY <1>1, RunFacts DEF fileVars, procVars, planeVars, histVars
<1>2. ASSUME NEW r \in Releases, RequestUpdate(r)
      PROVE  BackInv'
  BY <1>2 DEF RequestUpdate, Updater
<1>3. ASSUME NEW r \in Releases, request_update(r)
      PROVE  BackInv'
  BY <1>3, RequestFacts DEF request_update, fileVars, procVars, planeVars, countVars,
     histVars
<1>4. ASSUME NEW o \in Ops, ReceiveUpdate(o)
      PROVE  BackInv'
  BY <1>4, RequestFacts DEF ReceiveUpdate, fileVars, procVars, planeVars, countVars,
     histVars
<1>5. ASSUME NEW o \in Ops, sweepStalled(o)
      PROVE  BackInv'
  BY <1>5 DEF sweepStalled, Updater
<1>6. CASE apply_update
  BY <1>6 DEF apply_update, At, consume, Updater
<1>7. CASE hand_over_to
  BY <1>7, HandoverFacts, IdleFacts DEF Quiet, Still, fileVars, procVars, planeVars,
     countVars, histVars
<1>8. CASE Begin
  BY <1>8, BeginFacts DEF Quiet, Still, fileVars, procVars, planeVars, countVars, histVars
<1>9. CASE recover_from_interrupted_install
  BY <1>9, RecoverFacts DEF GaveUp, Moved, Quiet, Still, fileVars, procVars, planeVars,
     countVars, histVars
<1>10. CASE download_bundle
  <2>1. Prepare("fetch", "verify")
    BY <1>10 DEF download_bundle
  <2>2. Prepared("fetch", "verify")
    BY <2>1, PrepareFacts DEF Steps
  <2> QED
    BY <2>2 DEF Prepared, GaveUp, Moved, Quiet, Still, fileVars, procVars, planeVars,
       countVars, histVars
<1>11. CASE verify_bundle
  <2>1. Prepare("verify", IF upd.verb = "repair" THEN "unpack" ELSE "prepare")
    BY <1>11 DEF verify_bundle
  <2>2. Prepared("verify", IF upd.verb = "repair" THEN "unpack" ELSE "prepare")
    BY <2>1, PrepareFacts DEF Steps
  <2> QED
    BY <2>2 DEF Prepared, GaveUp, Moved, Quiet, Still, fileVars, procVars, planeVars,
       countVars, histVars
<1>12. CASE ensure_prerequisites
  <2>1. Prepare("prepare", "unpack")
    BY <1>12 DEF ensure_prerequisites
  <2>2. Prepared("prepare", "unpack")
    BY <2>1, PrepareFacts DEF Steps
  <2> QED
    BY <2>2 DEF Prepared, GaveUp, Moved, Quiet, Still, fileVars, procVars, planeVars,
       countVars, histVars
<1>13. CASE unpack
  <2>1. Prepare("unpack", "aside")
    BY <1>13 DEF unpack
  <2>2. Prepared("unpack", "aside")
    BY <2>1, PrepareFacts DEF Steps
  <2> QED
    BY <2>2 DEF Prepared, GaveUp, Moved, Quiet, Still, fileVars, procVars, planeVars,
       countVars, histVars
<1>14. CASE SwapAside
  BY <1>14 DEF SwapAside, At, Goto, Quiet, Still, Updater
<1>15. CASE SwapIn
  BY <1>15, SwapInFacts DEF Rolled, GaveUp, Moved, Quiet, Still, fileVars, procVars,
     planeVars, countVars, histVars
<1>16. CASE write_env_file
  <2>1. Write("env", "mode", [config EXCEPT !.env = upd.target])
    BY <1>16 DEF write_env_file
  <2>2. Wrote("env", "mode", [config EXCEPT !.env = upd.target])
    BY <2>1, WriteFacts DEF Steps, Placed
  <2> QED
    BY <2>2 DEF Wrote, Rolled, GaveUp, Moved, Quiet, Still, fileVars, procVars, planeVars,
       countVars, histVars
<1>17. CASE reconcile_journal_mode
  <2>1. Write("mode", "units", [config EXCEPT !.mode = upd.target])
    BY <1>17 DEF reconcile_journal_mode
  <2>2. Wrote("mode", "units", [config EXCEPT !.mode = upd.target])
    BY <2>1, WriteFacts DEF Steps, Placed
  <2> QED
    BY <2>2 DEF Wrote, Rolled, GaveUp, Moved, Quiet, Still, fileVars, procVars, planeVars,
       countVars, histVars
<1>18. CASE write_units
  <2>1. Write("units", "self", [config EXCEPT !.units = upd.target])
    BY <1>18 DEF write_units
  <2>2. Wrote("units", "self", [config EXCEPT !.units = upd.target])
    BY <2>1, WriteFacts DEF Steps, Placed
  <2> QED
    BY <2>2 DEF Wrote, Rolled, GaveUp, Moved, Quiet, Still, fileVars, procVars, planeVars,
       countVars, histVars
<1>19. CASE install_self
  BY <1>19, SelfFacts DEF Moved, Quiet, Still, fileVars, procVars, planeVars, countVars,
     histVars
<1>20. CASE EnrollDuring
  BY <1>20, EnrollFacts, IdleFacts DEF Moved, Quiet, Still, fileVars, procVars, planeVars,
     countVars, histVars
<1>21. CASE start_services
  BY <1>21, StartFacts DEF BootWorkers, Moved, Quiet, Still, fileVars, procVars, planeVars,
     countVars, histVars
<1>22. CASE wait_until_healthy
  BY <1>22, HealthFacts DEF Moved, Quiet, Still, fileVars, procVars, planeVars, countVars,
     histVars
<1>23. CASE verify_installation
  BY <1>23, VerifyFacts DEF Moved, Quiet, Still, fileVars, procVars, planeVars, countVars,
     histVars
<1>24. CASE Converge
  BY <1>24, ConvergeFacts DEF Converged, Moved, Quiet, Still, fileVars, procVars,
     planeVars, countVars, histVars
<1>25. CASE Commit
  BY <1>25 DEF Commit, At, Goto, Quiet, Still, Updater
<1>26. CASE Report
  BY <1>26 DEF Report, At, Goto, Quiet, Still, Updater
<1>27. CASE roll_back
  BY <1>27, UndoFacts DEF Rolled, Moved, Still, fileVars, procVars, planeVars, countVars,
     histVars
<1>28. CASE restore_files
  BY <1>28, RestoreFacts DEF PreviousBinary, Quiet, Still, fileVars, procVars, planeVars,
     countVars, histVars
<1>29. CASE restart_units
  BY <1>29 DEF restart_units, At, Goto, Quiet, Still, Updater
<1>30. CASE judge
  BY <1>30 DEF judge, At, Goto, Quiet, Still, Updater
<1>31. CASE restore_previous_runtime
  BY <1>31 DEF restore_previous_runtime, At, Goto, Quiet, Still, Updater
<1>32. ASSUME NEW w \in Workers, Wake(w)
      PROVE  BackInv'
  BY <1>32 DEF Wake, Updater
<1>33. ASSUME NEW w \in Workers, Sleep(w)
      PROVE  BackInv'
  BY <1>33 DEF Sleep, Updater
<1>34. CASE HermesStarts
  BY <1>34 DEF HermesStarts, Updater
<1>35. CASE NodeStarts
  BY <1>35 DEF NodeStarts, At, Installed, Updater
<1>36. CASE PowerLoss
  BY <1>36 DEF PowerLoss, Updater
<1>37. CASE UpdaterKilled
  BY <1>37 DEF UpdaterKilled, At, Updater
<1>38. CASE Connect
  BY <1>38 DEF Connect, Updater
<1>39. CASE Disconnect
  BY <1>39 DEF Disconnect, Updater
<1>40. ASSUME NEW o \in Ops, NEW answered \in BOOLEAN, flush_update_progress(o, answered)
      PROVE  BackInv'
  BY <1>40 DEF flush_update_progress, Updater
<1>41. CASE UNCHANGED vars
  BY <1>41 DEF vars
<1> QED
  BY <1>1, <1>2, <1>3, <1>4, <1>5, <1>6, <1>7, <1>8, <1>9, <1>10, <1>11, <1>12, <1>13,
     <1>14, <1>15, <1>16, <1>17, <1>18, <1>19, <1>20, <1>21, <1>22, <1>23, <1>24,
     <1>25, <1>26, <1>27, <1>28, <1>29, <1>30, <1>31, <1>32, <1>33, <1>34, <1>35,
     <1>36, <1>37, <1>38, <1>39, <1>40, <1>41
  DEF Next, UpdaterStep, Forward

\* Only evidence names workers.
Bare(o) == \A k \in 1..Len(journal[o]) :
             journal[o][k].state # "complete" => journal[o][k].services = {}

\* What one more event makes of an operation's evidence.
LEMMA EvidenceFacts ==
  ASSUME JournalOK, upd \in Updater, NEW o \in Ops, Bare(o),
         NEW e \in {"progress", "complete", "restored", "incomplete"}, Record(e)
  PROVE  /\ Bare(o)'
         /\ Complete(o) => Complete(o)'
         /\ Complete(o)' => Complete(o) \/ (e = "complete" /\ o = upd.op)
<1>1. CASE o # upd.op
  BY <1>1, RecordFacts DEF Bare, Complete
<1>2. CASE o = upd.op
  <2> DEFINE n == Len(journal[o])
  <2>1. /\ n \in Nat /\ Len(journal'[o]) = n + 1
        /\ journal'[o][n + 1] =
             [state |-> e, services |-> IF e = "complete" THEN upd.displaced ELSE {}]
        /\ \A k \in 1..n : journal'[o][k] = journal[o][k]
    BY <1>2, LenFacts, RecordFacts
  <2>2. \A k \in 1..(n + 1) : k \in 1..n \/ k = n + 1
    BY <2>1
  <2>3. Bare(o)'
    <3> SUFFICES ASSUME NEW k \in 1..(n + 1), journal'[o][k].state # "complete"
                 PROVE  journal'[o][k].services = {}
      BY <2>1 DEF Bare
    <3>1. CASE k \in 1..n
      BY <2>1, <3>1 DEF Bare
    <3>2. CASE k = n + 1
      BY <2>1, <3>2
    <3> QED
      BY <2>2, <3>1, <3>2
  <2>4. Complete(o) => Complete(o)'
    <3> SUFFICES ASSUME Complete(o) PROVE Complete(o)'
      OBVIOUS
    <3>1. PICK k \in 1..n : journal[o][k].state = "complete"
      BY DEF Complete
    <3>2. k \in 1..Len(journal'[o]) /\ journal'[o][k].state = "complete"
      BY <2>1, <3>1
    <3> QED
      BY <3>2 DEF Complete
  <2>5. Complete(o)' => Complete(o) \/ e = "complete"
    <3> SUFFICES ASSUME Complete(o)', e # "complete" PROVE Complete(o)
      OBVIOUS
    <3>1. PICK k \in 1..(n + 1) : journal'[o][k].state = "complete"
      BY <2>1 DEF Complete
    <3>2. k # n + 1
      BY <2>1, <3>1
    <3>3. k \in 1..n /\ journal[o][k].state = "complete"
      BY <2>1, <2>2, <3>1, <3>2
    <3> QED
      BY <3>3 DEF Complete
  <2> QED
    BY <1>2, <2>3, <2>4, <2>5
<1> QED
  BY <1>1, <1>2

\* One operation is live, the last.  It awaits a reconnect only with evidence,
\* and evidence is of an operation that was answered.
StageInv ==
  \A o \in Ops : /\ stage[o] \in Live => o = ops
                 /\ stage[o] = "awaiting_reconnect" => Complete(o)
                 /\ Complete(o) => o \in sent
                 /\ Bare(o)

\* A session is the running Node's.
SessionInv == session.up => node = session.release /\ node # None

\* A session does not outlive the process it is of.
LEMMA SessionStep ==
  upd \in Updater /\ PlaneOK /\ StepInv /\ ReadyInv /\ SessionInv
    /\ [Next]_vars => SessionInv'
<1> SUFFICES ASSUME upd \in Updater, PlaneOK, StepInv, ReadyInv, SessionInv, [Next]_vars
             PROVE  SessionInv'
  OBVIOUS
<1> USE ReleaseFacts
<1> USE DEF SessionInv, PlaneOK, fileVars, procVars, planeVars, countVars, histVars
<1>1. ASSUME NEW v \in {"install", "update", "repair"}, NEW r \in Releases, run_lifecycle(v, r)
      PROVE  SessionInv'
  BY <1>1 DEF run_lifecycle, At, Installed
<1>2. ASSUME NEW r \in Releases, RequestUpdate(r)
      PROVE  SessionInv'
  BY <1>2 DEF RequestUpdate
<1>3. ASSUME NEW r \in Releases, request_update(r)
      PROVE  SessionInv'
  BY <1>3 DEF request_update, At, write_request, updaterequest_request
<1>4. ASSUME NEW o \in Ops, ReceiveUpdate(o)
      PROVE  SessionInv'
  BY <1>4 DEF ReceiveUpdate, At, write_request, updaterequest_request
<1>5. ASSUME NEW o \in Ops, sweepStalled(o)
      PROVE  SessionInv'
  BY <1>5 DEF sweepStalled
<1>6. CASE apply_update
  BY <1>6 DEF apply_update, At, consume
<1>7. CASE hand_over_to
  BY <1>7 DEF hand_over_to, At, Quiet, Still
<1>8. CASE Begin
  BY <1>8 DEF Begin, At, Quiet, Still
<1>9. CASE recover_from_interrupted_install
  BY <1>9 DEF recover_from_interrupted_install, At, Quiet, Still
<1>10. CASE download_bundle
  BY <1>10 DEF download_bundle, At, Quiet, Still, Prepare
<1>11. CASE verify_bundle
  BY <1>11 DEF verify_bundle, At, Quiet, Still, Prepare
<1>12. CASE ensure_prerequisites
  BY <1>12 DEF ensure_prerequisites, At, Quiet, Still, Prepare
<1>13. CASE unpack
  BY <1>13 DEF unpack, At, Quiet, Still, Prepare
<1>14. CASE SwapAside
  BY <1>14 DEF SwapAside, At, Quiet, Still
<1>15. CASE SwapIn
  BY <1>15 DEF SwapIn, At, Quiet, Still, RollBack
<1>16. CASE write_env_file
  BY <1>16 DEF write_env_file, At, Quiet, Still, Write, RollBack
<1>17. CASE reconcile_journal_mode
  BY <1>17 DEF reconcile_journal_mode, At, Quiet, Still, Write, RollBack
<1>18. CASE write_units
  BY <1>18 DEF write_units, At, Quiet, Still, Write, RollBack
<1>19. CASE install_self
  BY <1>19 DEF install_self, At, Quiet, Still
<1>20. CASE EnrollDuring
  BY <1>20 DEF EnrollDuring, At, Quiet, Still
<1>21. CASE start_services
  <2>1. session' = Down \/ UNCHANGED <<session, node>>
    BY <1>21 DEF start_services
  <2> QED
    BY <2>1 DEF Down
<1>22. CASE wait_until_healthy
  BY <1>22 DEF wait_until_healthy, At, Quiet, Still
<1>23. CASE verify_installation
  BY <1>23 DEF verify_installation, At, Quiet, Still
<1>24. CASE Converge
  BY <1>24 DEF Converge, At, Quiet, Still
<1>25. CASE Commit
  BY <1>25 DEF Commit, At, Quiet, Still
<1>26. CASE Report
  BY <1>26 DEF Report, At, Quiet, Still
<1>27. CASE roll_back
  BY <1>27 DEF roll_back, At, Quiet, Still, RollBack
<1>28. CASE restore_files
  BY <1>28 DEF restore_files, At, Quiet, Still, PreviousBinary
<1>29. CASE restart_units
  BY <1>29 DEF restart_units, At, Quiet, Still, Down
<1>30. CASE judge
  BY <1>30 DEF judge, At, Quiet, Still
<1>31. CASE restore_previous_runtime
  BY <1>31 DEF restore_previous_runtime, At, Quiet, Still
<1>32. ASSUME NEW w \in Workers, Wake(w)
      PROVE  SessionInv'
  BY <1>32 DEF Wake
<1>33. ASSUME NEW w \in Workers, Sleep(w)
      PROVE  SessionInv'
  BY <1>33 DEF Sleep
<1>34. CASE HermesStarts
  BY <1>34 DEF HermesStarts
<1>35. CASE NodeStarts
  BY <1>35 DEF NodeStarts, At, Installed
<1>36. CASE PowerLoss
  BY <1>36 DEF PowerLoss, Down
<1>37. CASE UpdaterKilled
  BY <1>37 DEF UpdaterKilled, At
<1>38. CASE Connect
  BY <1>38 DEF Connect
<1>39. CASE Disconnect
  BY <1>39 DEF Disconnect, Down
<1>40. ASSUME NEW o \in Ops, NEW answered \in BOOLEAN, flush_update_progress(o, answered)
      PROVE  SessionInv'
  BY <1>40 DEF flush_update_progress, Down
<1>41. CASE UNCHANGED vars
  BY <1>41 DEF vars
<1> QED
  BY <1>1, <1>2, <1>3, <1>4, <1>5, <1>6, <1>7, <1>8, <1>9, <1>10, <1>11, <1>12, <1>13,
     <1>14, <1>15, <1>16, <1>17, <1>18, <1>19, <1>20, <1>21, <1>22, <1>23, <1>24,
     <1>25, <1>26, <1>27, <1>28, <1>29, <1>30, <1>31, <1>32, <1>33, <1>34, <1>35,
     <1>36, <1>37, <1>38, <1>39, <1>40, <1>41
  DEF Next, UpdaterStep, Forward

\* Stages and evidence stay in step.
LEMMA StageStep ==
  upd \in Updater /\ PlaneOK /\ CountOK /\ JournalOK /\ CursorOK /\ StepInv /\ OpInv /\ StageInv
    /\ [Next]_vars => StageInv'
<1> SUFFICES ASSUME upd \in Updater, PlaneOK, CountOK, JournalOK, CursorOK, StepInv, OpInv, StageInv, [Next]_vars
             PROVE  StageInv'
  OBVIOUS
<1> USE DEF fileVars, procVars, planeVars, countVars, histVars
<1>1. ASSUME NEW v \in {"install", "update", "repair"}, NEW r \in Releases, run_lifecycle(v, r)
      PROVE  StageInv'
  BY <1>1 DEF run_lifecycle, At, Installed, StageInv, Complete, Bare
<1>2. ASSUME NEW r \in Releases, RequestUpdate(r)
      PROVE  StageInv'
  <2>1. /\ journal' = journal /\ sent' = sent /\ ops' = ops + 1 /\ ops + 1 \in Ops
        /\ stage' = [stage EXCEPT ![ops + 1] = "queued"]
        /\ \A q \in Ops : stage[q] \notin Live
    BY <1>2, BoundFacts DEF RequestUpdate, CountOK
  <2>2. \A q \in Ops : stage'[q] = stage[q] \/ (q = ops + 1 /\ stage'[q] = "queued")
    BY <2>1 DEF PlaneOK
  <2> QED
    BY <2>1, <2>2 DEF StageInv, Complete, Bare
<1>3. ASSUME NEW r \in Releases, request_update(r)
      PROVE  StageInv'
  BY <1>3 DEF request_update, At, write_request, updaterequest_request, StageInv, Complete,
     Bare
<1>4. ASSUME NEW o \in Ops, ReceiveUpdate(o)
      PROVE  StageInv'
  <2>1. journal' = journal /\ sent' = sent \union {o} /\ ops' = ops
    BY <1>4 DEF ReceiveUpdate
  <2>2. \A q \in Ops : \/ stage'[q] = stage[q]
                       \/ stage[q] = "queued" /\ stage'[q] = "accepted"
    BY <1>4 DEF ReceiveUpdate, PlaneOK
  <2> QED
    BY <2>1, <2>2 DEF StageInv, Complete, Bare, Live
<1>5. ASSUME NEW o \in Ops, sweepStalled(o)
      PROVE  StageInv'
  <2>1. journal' = journal /\ sent' = sent /\ ops' = ops
    BY <1>5 DEF sweepStalled
  <2>2. \A q \in Ops : stage'[q] = stage[q] \/ stage'[q] = "timed_out"
    BY <1>5 DEF sweepStalled, PlaneOK
  <2> QED
    BY <2>1, <2>2 DEF StageInv, Complete, Bare, Live
<1>6. CASE apply_update
  BY <1>6 DEF apply_update, At, consume, StageInv, Complete, Bare
<1>7. CASE hand_over_to
  BY <1>7 DEF hand_over_to, At, Quiet, Still, StageInv, Complete, Bare
<1>8. CASE Begin
  <2>1. Record("progress")
    BY <1>8 DEF Begin
  <2>2. UNCHANGED <<stage, sent, ops>>
    BY <1>8 DEF Begin, Quiet, Still, planeVars
  <2> SUFFICES ASSUME NEW q \in Ops
               PROVE  /\ stage'[q] \in Live => q = ops'
                      /\ stage'[q] = "awaiting_reconnect" => Complete(q)'
                      /\ Complete(q)' => q \in sent'
                      /\ Bare(q)'
    BY DEF StageInv
  <2>3. /\ Bare(q)' /\ (Complete(q) => Complete(q)')
        /\ Complete(q)' => Complete(q)
    BY <2>1, EvidenceFacts DEF StageInv
  <2> QED
    BY <2>2, <2>3 DEF StageInv
<1>9. CASE recover_from_interrupted_install
  BY <1>9 DEF recover_from_interrupted_install, At, Quiet, Still, StageInv, Complete, Bare
<1>10. CASE download_bundle
  BY <1>10 DEF download_bundle, At, Quiet, Still, Prepare, StageInv, Complete, Bare
<1>11. CASE verify_bundle
  BY <1>11 DEF verify_bundle, At, Quiet, Still, Prepare, StageInv, Complete, Bare
<1>12. CASE ensure_prerequisites
  BY <1>12 DEF ensure_prerequisites, At, Quiet, Still, Prepare, StageInv, Complete, Bare
<1>13. CASE unpack
  BY <1>13 DEF unpack, At, Quiet, Still, Prepare, StageInv, Complete, Bare
<1>14. CASE SwapAside
  BY <1>14 DEF SwapAside, At, Quiet, Still, StageInv, Complete, Bare
<1>15. CASE SwapIn
  BY <1>15 DEF SwapIn, At, Quiet, Still, RollBack, StageInv, Complete, Bare
<1>16. CASE write_env_file
  BY <1>16 DEF write_env_file, At, Quiet, Still, Write, RollBack, StageInv, Complete, Bare
<1>17. CASE reconcile_journal_mode
  BY <1>17 DEF reconcile_journal_mode, At, Quiet, Still, Write, RollBack, StageInv,
     Complete, Bare
<1>18. CASE write_units
  BY <1>18 DEF write_units, At, Quiet, Still, Write, RollBack, StageInv, Complete, Bare
<1>19. CASE install_self
  BY <1>19 DEF install_self, At, Quiet, Still, StageInv, Complete, Bare
<1>20. CASE EnrollDuring
  BY <1>20 DEF EnrollDuring, At, Quiet, Still, StageInv, Complete, Bare
<1>21. CASE start_services
  BY <1>21 DEF start_services, At, Quiet, Still, StageInv, Complete, Bare
<1>22. CASE wait_until_healthy
  BY <1>22 DEF wait_until_healthy, At, Quiet, Still, StageInv, Complete, Bare
<1>23. CASE verify_installation
  BY <1>23 DEF verify_installation, At, Quiet, Still, StageInv, Complete, Bare
<1>24. CASE Converge
  BY <1>24 DEF Converge, At, Quiet, Still, StageInv, Complete, Bare
<1>25. CASE Commit
  BY <1>25 DEF Commit, At, Quiet, Still, StageInv, Complete, Bare
<1>26. CASE Report
  <2>1. Record("complete")
    BY <1>26 DEF Report
  <2>2. UNCHANGED <<stage, sent, ops>>
    BY <1>26 DEF Report, Quiet, Still, planeVars
  <2> SUFFICES ASSUME NEW q \in Ops
               PROVE  /\ stage'[q] \in Live => q = ops'
                      /\ stage'[q] = "awaiting_reconnect" => Complete(q)'
                      /\ Complete(q)' => q \in sent'
                      /\ Bare(q)'
    BY DEF StageInv
  <2>3. /\ Bare(q)' /\ (Complete(q) => Complete(q)')
        /\ Complete(q)' => Complete(q) \/ q = upd.op
    BY <2>1, EvidenceFacts DEF StageInv
  <2>4. q = upd.op => q \in sent
    BY <1>26, BoundFacts DEF Report, At, StepInv, OpInv
  <2> QED
    BY <2>2, <2>3, <2>4 DEF StageInv
<1>27. CASE roll_back
  BY <1>27 DEF roll_back, At, Quiet, Still, RollBack, StageInv, Complete, Bare
<1>28. CASE restore_files
  BY <1>28 DEF restore_files, At, Quiet, Still, PreviousBinary, StageInv, Complete, Bare
<1>29. CASE restart_units
  BY <1>29 DEF restart_units, At, Quiet, Still, StageInv, Complete, Bare
<1>30. CASE judge
  <2>1. PICK e \in {"restored", "incomplete"} : Record(e)
    BY <1>30 DEF judge
  <2>2. UNCHANGED <<stage, sent, ops>>
    BY <1>30 DEF judge, Quiet, Still, planeVars
  <2> SUFFICES ASSUME NEW q \in Ops
               PROVE  /\ stage'[q] \in Live => q = ops'
                      /\ stage'[q] = "awaiting_reconnect" => Complete(q)'
                      /\ Complete(q)' => q \in sent'
                      /\ Bare(q)'
    BY DEF StageInv
  <2>3. /\ Bare(q)' /\ (Complete(q) => Complete(q)')
        /\ Complete(q)' => Complete(q)
    BY <2>1, EvidenceFacts DEF StageInv
  <2> QED
    BY <2>2, <2>3 DEF StageInv
<1>31. CASE restore_previous_runtime
  BY <1>31 DEF restore_previous_runtime, At, Quiet, Still, StageInv, Complete, Bare
<1>32. ASSUME NEW w \in Workers, Wake(w)
      PROVE  StageInv'
  BY <1>32 DEF Wake, StageInv, Complete, Bare
<1>33. ASSUME NEW w \in Workers, Sleep(w)
      PROVE  StageInv'
  BY <1>33 DEF Sleep, StageInv, Complete, Bare
<1>34. CASE HermesStarts
  BY <1>34 DEF HermesStarts, StageInv, Complete, Bare
<1>35. CASE NodeStarts
  BY <1>35 DEF NodeStarts, At, Installed, StageInv, Complete, Bare
<1>36. CASE PowerLoss
  BY <1>36 DEF PowerLoss, StageInv, Complete, Bare
<1>37. CASE UpdaterKilled
  BY <1>37 DEF UpdaterKilled, At, StageInv, Complete, Bare
<1>38. CASE Connect
  <2>1. journal' = journal /\ sent' = sent /\ ops' = ops
    BY <1>38 DEF Connect
  <2>2. \A q \in Ops : stage'[q] = stage[q] \/ stage'[q] \in {"succeeded", "failed"}
    BY <1>38 DEF Connect, resolveReconnect
  <2> QED
    BY <2>1, <2>2 DEF StageInv, Complete, Bare, Live
<1>39. CASE Disconnect
  BY <1>39 DEF Disconnect, StageInv, Complete, Bare
<1>40. ASSUME NEW o \in Ops, NEW answered \in BOOLEAN, flush_update_progress(o, answered)
      PROVE  StageInv'
  <2> DEFINE k == acked[o] + 1
  <2>1. journal' = journal /\ sent' = sent /\ ops' = ops /\ k \in 1..Len(journal[o])
    BY <1>40, LenFacts DEF flush_update_progress, undelivered, CursorOK
  <2>2. stage' = [stage EXCEPT ![o] = decideUpdateProgress(o, k)]
    BY <1>40 DEF flush_update_progress
  <2>3. \/ decideUpdateProgress(o, k) = stage[o]
        \/ stage[o] \in Live /\ decideUpdateProgress(o, k) \in {"applying", "failed", "succeeded"}
        \/ /\ stage[o] \in Live /\ decideUpdateProgress(o, k) = "awaiting_reconnect"
           /\ journal[o][k].state = "complete"
    <3>1. CASE k <= heard[o] \/ stage[o] \notin Live
      BY <3>1 DEF decideUpdateProgress
    <3>2. CASE ~(k <= heard[o] \/ stage[o] \notin Live) /\ journal[o][k].state = "complete"
      BY <3>2 DEF decideUpdateProgress
    <3>3. CASE ~(k <= heard[o] \/ stage[o] \notin Live) /\ journal[o][k].state # "complete"
      BY <3>3 DEF decideUpdateProgress
    <3> QED
      BY <3>1, <3>2, <3>3
  <2> HIDE DEF k
  <2>4. \A q \in Ops : \/ stage'[q] = stage[q]
                       \/ stage[q] \in Live /\ stage'[q] \in {"applying", "failed", "succeeded"}
                       \/ stage[q] \in Live /\ stage'[q] = "awaiting_reconnect" /\ Complete(q)
    BY <2>1, <2>2, <2>3 DEF PlaneOK, Complete
  <2> QED
    BY <2>1, <2>4 DEF StageInv, Complete, Bare, Live
<1>41. CASE UNCHANGED vars
  BY <1>41 DEF vars, StageInv, Complete, Bare
<1> QED
  BY <1>1, <1>2, <1>3, <1>4, <1>5, <1>6, <1>7, <1>8, <1>9, <1>10, <1>11, <1>12, <1>13,
     <1>14, <1>15, <1>16, <1>17, <1>18, <1>19, <1>20, <1>21, <1>22, <1>23, <1>24,
     <1>25, <1>26, <1>27, <1>28, <1>29, <1>30, <1>31, <1>32, <1>33, <1>34, <1>35,
     <1>36, <1>37, <1>38, <1>39, <1>40, <1>41
  DEF Next, UpdaterStep, Forward

\* While every request is answered, a host that is one release stays it: what is at
\* work can only be a repair of that release, or an operator has overtaken it.
LEMMA HostStep ==
  ASSUME NEW rel \in Releases, NEW x \in Evident, x \notin overtaken',
         upd \in Updater, HostOK, StepInv, ReadyInv, 1..ops \subseteq sent, Host(rel), [Next]_vars
  PROVE  Host(rel)'
<1> USE IdleFacts, ReleaseFacts
<1> USE DEF StepInv, Host, Kept, Swapped, Placed, Cleared, Unplaced, UpdateOnly,
            fileVars, procVars, planeVars, countVars, histVars
<1>1. ASSUME NEW v \in {"install", "update", "repair"}, NEW r \in Releases, run_lifecycle(v, r)
      PROVE  Host(rel)'
  <2>1. v = "repair" /\ r = binary
    BY <1>1, RunFacts
  <2> QED
    BY <1>1, <2>1, RunFacts
<1>2. ASSUME NEW r \in Releases, RequestUpdate(r)
      PROVE  Host(rel)'
  BY <1>2 DEF RequestUpdate, Updater, ReadyInv
<1>3. ASSUME NEW r \in Releases, request_update(r)
      PROVE  Host(rel)'
  <2>1. upd.step # "idle"
    BY <1>3 DEF request_update, At
  <2>2. upd' = upd
    BY <1>3, <2>1, RequestFacts DEF request_update
  <2> QED
    BY <1>3, <2>2 DEF request_update
<1>4. ASSUME NEW o \in Ops, ReceiveUpdate(o)
      PROVE  Host(rel)'
  <2>1. o \in 1..ops \ sent
    BY <1>4 DEF ReceiveUpdate
  <2> QED
    BY <2>1
<1>5. ASSUME NEW o \in Ops, sweepStalled(o)
      PROVE  Host(rel)'
  BY <1>5 DEF sweepStalled, Updater, ReadyInv
<1>6. CASE apply_update
  BY <1>6 DEF apply_update, At
<1>7. CASE hand_over_to
  BY <1>7 DEF hand_over_to, At
<1>8. CASE Begin
  BY <1>8, BeginFacts DEF Quiet, Still, fileVars, procVars, planeVars, countVars, histVars
<1>9. CASE recover_from_interrupted_install
  BY <1>9, RecoverFacts DEF GaveUp, Moved, Quiet, Still, fileVars, procVars, planeVars,
     countVars, histVars
<1>10. CASE download_bundle
  <2>1. Prepare("fetch", "verify")
    BY <1>10 DEF download_bundle
  <2>2. Prepared("fetch", "verify")
    BY <2>1, PrepareFacts DEF Steps
  <2> QED
    BY <2>2 DEF Prepared, GaveUp, Moved, Quiet, Still, fileVars, procVars, planeVars,
       countVars, histVars
<1>11. CASE verify_bundle
  <2>1. Prepare("verify", IF upd.verb = "repair" THEN "unpack" ELSE "prepare")
    BY <1>11 DEF verify_bundle
  <2>2. Prepared("verify", IF upd.verb = "repair" THEN "unpack" ELSE "prepare")
    BY <2>1, PrepareFacts DEF Steps
  <2> QED
    BY <2>2 DEF Prepared, GaveUp, Moved, Quiet, Still, fileVars, procVars, planeVars,
       countVars, histVars
<1>12. CASE ensure_prerequisites
  <2>1. Prepare("prepare", "unpack")
    BY <1>12 DEF ensure_prerequisites
  <2>2. Prepared("prepare", "unpack")
    BY <2>1, PrepareFacts DEF Steps
  <2> QED
    BY <2>2 DEF Prepared, GaveUp, Moved, Quiet, Still, fileVars, procVars, planeVars,
       countVars, histVars
<1>13. CASE unpack
  <2>1. Prepare("unpack", "aside")
    BY <1>13 DEF unpack
  <2>2. Prepared("unpack", "aside")
    BY <2>1, PrepareFacts DEF Steps
  <2> QED
    BY <2>2 DEF Prepared, GaveUp, Moved, Quiet, Still, fileVars, procVars, planeVars,
       countVars, histVars
<1>14. CASE SwapAside
  BY <1>14 DEF SwapAside, At, Goto, Quiet, Still, Updater, ReadyInv
<1>15. CASE SwapIn
  BY <1>15, SwapInFacts DEF Rolled, GaveUp, Moved, Quiet, Still, fileVars, procVars,
     planeVars, countVars, histVars, ReadyInv
<1>16. CASE write_env_file
  <2> DEFINE after == [config EXCEPT !.env = upd.target]
  <2>1. Write("env", "mode", after)
    BY <1>16 DEF write_env_file
  <2>2. Wrote("env", "mode", after)
    BY <2>1, WriteFacts DEF Steps, Placed
  <2>3. /\ after.env = upd.target
        /\ after.mode = config.mode
        /\ after = [env |-> after.env, mode |-> after.mode, units |-> config.units]
    BY DEF HostOK, Configs
  <2>4. upd.target # None
    BY <2>2, ReleaseFacts DEF Wrote, StepInv
  <2>5. upd.target = rel /\ after = config
    BY <2>2, <2>3 DEF Wrote, Written, HostOK, Configs
  <2> HIDE DEF after
  <2> QED
    BY <2>2, <2>5 DEF Wrote, Rolled, GaveUp, Moved, Written, Quiet, Still, fileVars,
       procVars, planeVars, countVars, histVars
<1>17. CASE reconcile_journal_mode
  <2> DEFINE after == [config EXCEPT !.mode = upd.target]
  <2>1. Write("mode", "units", after)
    BY <1>17 DEF reconcile_journal_mode
  <2>2. Wrote("mode", "units", after)
    BY <2>1, WriteFacts DEF Steps, Placed
  <2>3. /\ after.env = config.env
        /\ after.mode = upd.target
        /\ after = [env |-> after.env, mode |-> after.mode, units |-> config.units]
    BY DEF HostOK, Configs
  <2>4. upd.target # None
    BY <2>2, ReleaseFacts DEF Wrote, StepInv
  <2>5. upd.target = rel /\ after = config
    BY <2>2, <2>3 DEF Wrote, Written, HostOK, Configs
  <2> HIDE DEF after
  <2> QED
    BY <2>2, <2>5 DEF Wrote, Rolled, GaveUp, Moved, Written, Quiet, Still, fileVars,
       procVars, planeVars, countVars, histVars
<1>18. CASE write_units
  <2> DEFINE after == [config EXCEPT !.units = upd.target]
  <2>1. Write("units", "self", after)
    BY <1>18 DEF write_units
  <2>2. Wrote("units", "self", after)
    BY <2>1, WriteFacts DEF Steps, Placed
  <2>3. /\ after.env = config.env
        /\ after.mode = config.mode
        /\ after = [env |-> after.env, mode |-> after.mode, units |-> upd.target]
    BY DEF HostOK, Configs
  <2>4. upd.target # None
    BY <2>2, ReleaseFacts DEF Wrote, StepInv
  <2>5. upd.target = rel /\ after = config
    BY <2>2, <2>3 DEF Wrote, Written, HostOK, Configs
  <2> HIDE DEF after
  <2> QED
    BY <2>2, <2>5 DEF Wrote, Rolled, GaveUp, Moved, Written, Quiet, Still, fileVars,
       procVars, planeVars, countVars, histVars
<1>19. CASE install_self
  <2>1. upd.step = "self" /\ upd.swap /\ upd.verb = "repair" /\ upd.target = rel
    BY <1>19, SelfFacts DEF StepInv, Placed, Host
  <2>2. upd'.swap /\ upd'.step \in {"start", "enroll", "undo"} /\ upd'.verb = "repair" /\ upd'.target = rel
    BY <1>19, <2>1, SelfFacts DEF Moved
  <2>3. UNCHANGED <<config, runtime, retired>> /\ binary' \in {binary, upd.target}
    BY <1>19, SelfFacts DEF fileVars
  <2>4. {node', hermes'} \subseteq {rel, None}
    BY <1>19, <2>1, SelfFacts DEF Host, procVars
  <2> QED
    BY <2>1, <2>2, <2>3, <2>4
<1>20. CASE EnrollDuring
  BY <1>20 DEF EnrollDuring, At
<1>21. CASE start_services
  <2>1. upd.step = "start" /\ upd.swap /\ upd.verb = "repair" /\ upd.target = rel
    BY <1>21, StartFacts DEF StepInv, Placed, Host
  <2>2. upd'.swap /\ upd'.step \in {"health", "undo"} /\ upd'.verb = "repair" /\ upd'.target = rel
    BY <1>21, <2>1, StartFacts DEF Moved
  <2>3. UNCHANGED <<config, runtime, retired>> /\ binary' \in {binary, upd.target}
    BY <1>21, StartFacts DEF fileVars
  <2>4. {node', hermes'} \subseteq {rel, None}
    BY <1>21, <2>1, StartFacts DEF Host, ReadyInv, Placed
  <2> QED
    BY <2>1, <2>2, <2>3, <2>4
<1>22. CASE wait_until_healthy
  <2>1. upd.step = "health" /\ upd.swap /\ upd.verb = "repair" /\ upd.target = rel
    BY <1>22, HealthFacts DEF StepInv, Placed, Host
  <2>2. upd'.swap /\ upd'.step \in {"check", "commit", "undo"} /\ upd'.verb = "repair" /\ upd'.target = rel
    BY <1>22, <2>1, HealthFacts DEF Moved
  <2>3. UNCHANGED <<config, runtime, retired>> /\ binary' \in {binary, upd.target}
    BY <1>22, HealthFacts DEF fileVars
  <2>4. {node', hermes'} \subseteq {rel, None}
    BY <1>22, <2>1, HealthFacts DEF Host, procVars
  <2> QED
    BY <2>1, <2>2, <2>3, <2>4
<1>23. CASE verify_installation
  <2>1. upd.step = "check" /\ upd.swap /\ upd.verb = "repair" /\ upd.target = rel
    BY <1>23, VerifyFacts DEF StepInv, Placed, Host
  <2>2. upd'.swap /\ upd'.step \in {"converge", "undo"} /\ upd'.verb = "repair" /\ upd'.target = rel
    BY <1>23, <2>1, VerifyFacts DEF Moved
  <2>3. UNCHANGED <<config, runtime, retired>> /\ binary' \in {binary, upd.target}
    BY <1>23, VerifyFacts DEF fileVars
  <2>4. {node', hermes'} \subseteq {rel, None}
    BY <1>23, <2>1, VerifyFacts DEF Host
  <2> QED
    BY <2>1, <2>2, <2>3, <2>4
<1>24. CASE Converge
  <2>1. upd.step = "converge" /\ upd.swap /\ upd.verb = "repair" /\ upd.target = rel
    BY <1>24, ConvergeFacts DEF StepInv, Placed, Host
  <2>2. upd'.swap /\ upd'.step \in {"commit", "undo"} /\ upd'.verb = "repair" /\ upd'.target = rel
    BY <1>24, <2>1, ConvergeFacts DEF Moved
  <2>3. UNCHANGED <<config, runtime, retired>> /\ binary' \in {binary, upd.target}
    BY <1>24, ConvergeFacts DEF fileVars
  <2>4. {node', hermes'} \subseteq {rel, None}
    BY <1>24, <2>1, ConvergeFacts DEF Host, procVars
  <2> QED
    BY <2>1, <2>2, <2>3, <2>4
<1>25. CASE Commit
  BY <1>25 DEF Commit, At, Goto, Quiet, Still, Updater, ReadyInv
<1>26. CASE Report
  BY <1>26 DEF Report, At, Goto, Quiet, Still, Updater, ReadyInv
<1>27. CASE roll_back
  BY <1>27, UndoFacts DEF Rolled, Moved, Still, fileVars, procVars, planeVars, countVars,
     histVars
<1>28. CASE restore_files
  BY <1>28 DEF restore_files, At
<1>29. CASE restart_units
  BY <1>29 DEF restart_units, At
<1>30. CASE judge
  BY <1>30 DEF judge, At
<1>31. CASE restore_previous_runtime
  BY <1>31 DEF restore_previous_runtime, At, Goto, Quiet, Still, Updater, ReadyInv
<1>32. ASSUME NEW w \in Workers, Wake(w)
      PROVE  Host(rel)'
  BY <1>32 DEF Wake, Updater, ReadyInv
<1>33. ASSUME NEW w \in Workers, Sleep(w)
      PROVE  Host(rel)'
  BY <1>33 DEF Sleep, Updater, ReadyInv
<1>34. CASE HermesStarts
  BY <1>34 DEF HermesStarts, Updater, ReadyInv
<1>35. CASE NodeStarts
  BY <1>35 DEF NodeStarts, At, Installed, Updater, ReadyInv
<1>36. CASE PowerLoss
  BY <1>36 DEF PowerLoss, Updater, ReadyInv
<1>37. CASE UpdaterKilled
  BY <1>37 DEF UpdaterKilled, At, Updater, ReadyInv
<1>38. CASE Connect
  BY <1>38 DEF Connect, Updater, ReadyInv
<1>39. CASE Disconnect
  BY <1>39 DEF Disconnect, Updater, ReadyInv
<1>40. ASSUME NEW o \in Ops, NEW answered \in BOOLEAN, flush_update_progress(o, answered)
      PROVE  Host(rel)'
  BY <1>40 DEF flush_update_progress, Updater, ReadyInv
<1>41. CASE UNCHANGED vars
  BY <1>41 DEF vars
<1> QED
  BY <1>1, <1>2, <1>3, <1>4, <1>5, <1>6, <1>7, <1>8, <1>9, <1>10, <1>11, <1>12, <1>13,
     <1>14, <1>15, <1>16, <1>17, <1>18, <1>19, <1>20, <1>21, <1>22, <1>23, <1>24,
     <1>25, <1>26, <1>27, <1>28, <1>29, <1>30, <1>31, <1>32, <1>33, <1>34, <1>35,
     <1>36, <1>37, <1>38, <1>39, <1>40, <1>41
  DEF Next, UpdaterStep, Forward

\* Then no worker of it comes to execute another runtime.
LEMMA WorkerStep ==
  ASSUME NEW rel \in Releases, NEW x \in Workers,
         upd \in Updater, HostOK, StepInv, ReadyInv, Host(rel), worker[x] \in {rel, None}, [Next]_vars
  PROVE  worker'[x] \in {rel, None}
<1>0. runtime \in {rel, None} /\ worker \in [Workers -> Maybe]
  BY DEF Host, Kept, ReadyInv, Swapped, Placed, HostOK
<1> USE <1>0
<1> USE DEF fileVars, procVars, planeVars, countVars, histVars
<1>1. ASSUME NEW v \in {"install", "update", "repair"}, NEW r \in Releases, run_lifecycle(v, r)
      PROVE  worker'[x] \in {rel, None}
  BY <1>1 DEF run_lifecycle, At, Installed
<1>2. ASSUME NEW r \in Releases, RequestUpdate(r)
      PROVE  worker'[x] \in {rel, None}
  BY <1>2 DEF RequestUpdate
<1>3. ASSUME NEW r \in Releases, request_update(r)
      PROVE  worker'[x] \in {rel, None}
  BY <1>3 DEF request_update, At, write_request, updaterequest_request
<1>4. ASSUME NEW o \in Ops, ReceiveUpdate(o)
      PROVE  worker'[x] \in {rel, None}
  BY <1>4 DEF ReceiveUpdate, At, write_request, updaterequest_request
<1>5. ASSUME NEW o \in Ops, sweepStalled(o)
      PROVE  worker'[x] \in {rel, None}
  BY <1>5 DEF sweepStalled
<1>6. CASE apply_update
  BY <1>6 DEF apply_update, At, consume
<1>7. CASE hand_over_to
  BY <1>7 DEF hand_over_to, At, Quiet, Still
<1>8. CASE Begin
  BY <1>8 DEF Begin, At, Quiet, Still
<1>9. CASE recover_from_interrupted_install
  BY <1>9 DEF recover_from_interrupted_install, At, Quiet, Still
<1>10. CASE download_bundle
  BY <1>10 DEF download_bundle, At, Quiet, Still, Prepare
<1>11. CASE verify_bundle
  BY <1>11 DEF verify_bundle, At, Quiet, Still, Prepare
<1>12. CASE ensure_prerequisites
  BY <1>12 DEF ensure_prerequisites, At, Quiet, Still, Prepare
<1>13. CASE unpack
  BY <1>13 DEF unpack, At, Quiet, Still, Prepare
<1>14. CASE SwapAside
  BY <1>14 DEF SwapAside, At, Quiet, Still
<1>15. CASE SwapIn
  BY <1>15 DEF SwapIn, At, Quiet, Still, RollBack
<1>16. CASE write_env_file
  BY <1>16 DEF write_env_file, Write
<1>17. CASE reconcile_journal_mode
  BY <1>17 DEF reconcile_journal_mode, At, Quiet, Still, Write, RollBack
<1>18. CASE write_units
  BY <1>18 DEF write_units, At, Quiet, Still, Write, RollBack
<1>19. CASE install_self
  BY <1>19 DEF install_self, At, Quiet, Still
<1>20. CASE EnrollDuring
  BY <1>20 DEF EnrollDuring, At, Quiet, Still
<1>21. CASE start_services
  BY <1>21 DEF start_services, At, Quiet, Still, BootWorkers
<1>22. CASE wait_until_healthy
  BY <1>22 DEF wait_until_healthy, At, Quiet, Still
<1>23. CASE verify_installation
  BY <1>23, VerifyFacts
<1>24. CASE Converge
  BY <1>24 DEF Converge, At, Quiet, Still, Converged
<1>25. CASE Commit
  BY <1>25 DEF Commit, At, Quiet, Still
<1>26. CASE Report
  BY <1>26 DEF Report, At, Quiet, Still
<1>27. CASE roll_back
  BY <1>27 DEF roll_back, At, Quiet, Still, RollBack
<1>28. CASE restore_files
  BY <1>28 DEF restore_files, At, Quiet, Still, PreviousBinary
<1>29. CASE restart_units
  BY <1>29 DEF restart_units, At, Host, StepInv, UpdateOnly
<1>30. CASE judge
  BY <1>30 DEF judge, At, Quiet, Still
<1>31. CASE restore_previous_runtime
  BY <1>31 DEF restore_previous_runtime, At, Quiet, Still
<1>32. ASSUME NEW w \in Workers, Wake(w)
      PROVE  worker'[x] \in {rel, None}
  BY <1>32 DEF Wake
<1>33. ASSUME NEW w \in Workers, Sleep(w)
      PROVE  worker'[x] \in {rel, None}
  BY <1>33 DEF Sleep
<1>34. CASE HermesStarts
  BY <1>34 DEF HermesStarts
<1>35. CASE NodeStarts
  BY <1>35 DEF NodeStarts, At, Installed, BootWorkers
<1>36. CASE PowerLoss
  BY <1>36 DEF PowerLoss
<1>37. CASE UpdaterKilled
  BY <1>37 DEF UpdaterKilled, At
<1>38. CASE Connect
  BY <1>38 DEF Connect
<1>39. CASE Disconnect
  BY <1>39 DEF Disconnect
<1>40. ASSUME NEW o \in Ops, NEW answered \in BOOLEAN, flush_update_progress(o, answered)
      PROVE  worker'[x] \in {rel, None}
  BY <1>40 DEF flush_update_progress
<1>41. CASE UNCHANGED vars
  BY <1>41 DEF vars
<1> QED
  BY <1>1, <1>2, <1>3, <1>4, <1>5, <1>6, <1>7, <1>8, <1>9, <1>10, <1>11, <1>12, <1>13,
     <1>14, <1>15, <1>16, <1>17, <1>18, <1>19, <1>20, <1>21, <1>22, <1>23, <1>24,
     <1>25, <1>26, <1>27, <1>28, <1>29, <1>30, <1>31, <1>32, <1>33, <1>34, <1>35,
     <1>36, <1>37, <1>38, <1>39, <1>40, <1>41
  DEF Next, UpdaterStep, Forward

\* Three steps record an event.
LEMMA JournalStep ==
  [Next]_vars => journal' = journal \/ Begin \/ Report \/ judge
<1> SUFFICES ASSUME [Next]_vars
             PROVE  journal' = journal \/ Begin \/ Report \/ judge
  OBVIOUS
<1> USE DEF fileVars, procVars, planeVars, countVars, histVars
<1>1. ASSUME NEW v \in {"install", "update", "repair"}, NEW r \in Releases, run_lifecycle(v, r)
      PROVE  journal' = journal \/ Begin \/ Report \/ judge
  BY <1>1 DEF run_lifecycle, At
<1>2. ASSUME NEW r \in Releases, RequestUpdate(r)
      PROVE  journal' = journal \/ Begin \/ Report \/ judge
  BY <1>2 DEF RequestUpdate
<1>3. ASSUME NEW r \in Releases, request_update(r)
      PROVE  journal' = journal \/ Begin \/ Report \/ judge
  BY <1>3 DEF request_update, At, write_request, updaterequest_request
<1>4. ASSUME NEW o \in Ops, ReceiveUpdate(o)
      PROVE  journal' = journal \/ Begin \/ Report \/ judge
  BY <1>4 DEF ReceiveUpdate, At, write_request, updaterequest_request
<1>5. ASSUME NEW o \in Ops, sweepStalled(o)
      PROVE  journal' = journal \/ Begin \/ Report \/ judge
  BY <1>5 DEF sweepStalled
<1>6. CASE apply_update
  BY <1>6 DEF apply_update, At, consume
<1>7. CASE hand_over_to
  BY <1>7 DEF hand_over_to, At, Quiet, Still
<1>8. CASE Begin
  BY <1>8
<1>9. CASE recover_from_interrupted_install
  BY <1>9 DEF recover_from_interrupted_install, At, Quiet, Still
<1>10. CASE download_bundle
  BY <1>10 DEF download_bundle, At, Quiet, Still, Prepare
<1>11. CASE verify_bundle
  BY <1>11 DEF verify_bundle, At, Quiet, Still, Prepare
<1>12. CASE ensure_prerequisites
  BY <1>12 DEF ensure_prerequisites, At, Quiet, Still, Prepare
<1>13. CASE unpack
  BY <1>13 DEF unpack, At, Quiet, Still, Prepare
<1>14. CASE SwapAside
  BY <1>14 DEF SwapAside, At, Quiet, Still
<1>15. CASE SwapIn
  BY <1>15 DEF SwapIn, At, Quiet, Still, RollBack
<1>16. CASE write_env_file
  BY <1>16 DEF write_env_file, At, Quiet, Still, Write, RollBack
<1>17. CASE reconcile_journal_mode
  BY <1>17 DEF reconcile_journal_mode, At, Quiet, Still, Write, RollBack
<1>18. CASE write_units
  BY <1>18 DEF write_units, At, Quiet, Still, Write, RollBack
<1>19. CASE install_self
  BY <1>19 DEF install_self, At, Quiet, Still
<1>20. CASE EnrollDuring
  BY <1>20 DEF EnrollDuring, At, Quiet, Still
<1>21. CASE start_services
  BY <1>21 DEF start_services, At, Quiet, Still
<1>22. CASE wait_until_healthy
  BY <1>22 DEF wait_until_healthy, At, Quiet, Still
<1>23. CASE verify_installation
  BY <1>23 DEF verify_installation, At, Quiet, Still
<1>24. CASE Converge
  BY <1>24 DEF Converge, At, Quiet, Still
<1>25. CASE Commit
  BY <1>25 DEF Commit, At, Quiet, Still
<1>26. CASE Report
  BY <1>26
<1>27. CASE roll_back
  BY <1>27 DEF roll_back, At, Quiet, Still, RollBack
<1>28. CASE restore_files
  BY <1>28 DEF restore_files, At, Quiet, Still
<1>29. CASE restart_units
  BY <1>29 DEF restart_units, At, Quiet, Still
<1>30. CASE judge
  BY <1>30
<1>31. CASE restore_previous_runtime
  BY <1>31 DEF restore_previous_runtime, At, Quiet, Still
<1>32. ASSUME NEW w \in Workers, Wake(w)
      PROVE  journal' = journal \/ Begin \/ Report \/ judge
  BY <1>32 DEF Wake
<1>33. ASSUME NEW w \in Workers, Sleep(w)
      PROVE  journal' = journal \/ Begin \/ Report \/ judge
  BY <1>33 DEF Sleep
<1>34. CASE HermesStarts
  BY <1>34 DEF HermesStarts
<1>35. CASE NodeStarts
  BY <1>35 DEF NodeStarts, At
<1>36. CASE PowerLoss
  BY <1>36 DEF PowerLoss
<1>37. CASE UpdaterKilled
  BY <1>37 DEF UpdaterKilled, At
<1>38. CASE Connect
  BY <1>38 DEF Connect
<1>39. CASE Disconnect
  BY <1>39 DEF Disconnect
<1>40. ASSUME NEW o \in Ops, NEW answered \in BOOLEAN, flush_update_progress(o, answered)
      PROVE  journal' = journal \/ Begin \/ Report \/ judge
  BY <1>40 DEF flush_update_progress
<1>41. CASE UNCHANGED vars
  BY <1>41 DEF vars
<1> QED
  BY <1>1, <1>2, <1>3, <1>4, <1>5, <1>6, <1>7, <1>8, <1>9, <1>10, <1>11, <1>12, <1>13,
     <1>14, <1>15, <1>16, <1>17, <1>18, <1>19, <1>20, <1>21, <1>22, <1>23, <1>24,
     <1>25, <1>26, <1>27, <1>28, <1>29, <1>30, <1>31, <1>32, <1>33, <1>34, <1>35,
     <1>36, <1>37, <1>38, <1>39, <1>40, <1>41
  DEF Next, UpdaterStep, Forward

\* What was overtaken stays so.
LEMMA OvertakenStep ==
  [Next]_vars => overtaken \subseteq overtaken'
<1> SUFFICES ASSUME [Next]_vars
             PROVE  overtaken \subseteq overtaken'
  OBVIOUS
<1> USE DEF fileVars, procVars, planeVars, countVars, histVars
<1>1. ASSUME NEW v \in {"install", "update", "repair"}, NEW r \in Releases, run_lifecycle(v, r)
      PROVE  overtaken \subseteq overtaken'
  BY <1>1 DEF run_lifecycle, At
<1>2. ASSUME NEW r \in Releases, RequestUpdate(r)
      PROVE  overtaken \subseteq overtaken'
  BY <1>2 DEF RequestUpdate
<1>3. ASSUME NEW r \in Releases, request_update(r)
      PROVE  overtaken \subseteq overtaken'
  BY <1>3 DEF request_update, At, write_request, updaterequest_request
<1>4. ASSUME NEW o \in Ops, ReceiveUpdate(o)
      PROVE  overtaken \subseteq overtaken'
  BY <1>4 DEF ReceiveUpdate, At, write_request, updaterequest_request
<1>5. ASSUME NEW o \in Ops, sweepStalled(o)
      PROVE  overtaken \subseteq overtaken'
  BY <1>5 DEF sweepStalled
<1>6. CASE apply_update
  BY <1>6 DEF apply_update, At, consume
<1>7. CASE hand_over_to
  BY <1>7 DEF hand_over_to, At, Quiet, Still
<1>8. CASE Begin
  BY <1>8 DEF Begin, At, Quiet, Still
<1>9. CASE recover_from_interrupted_install
  BY <1>9 DEF recover_from_interrupted_install, At, Quiet, Still
<1>10. CASE download_bundle
  BY <1>10 DEF download_bundle, At, Quiet, Still, Prepare
<1>11. CASE verify_bundle
  BY <1>11 DEF verify_bundle, At, Quiet, Still, Prepare
<1>12. CASE ensure_prerequisites
  BY <1>12 DEF ensure_prerequisites, At, Quiet, Still, Prepare
<1>13. CASE unpack
  BY <1>13 DEF unpack, At, Quiet, Still, Prepare
<1>14. CASE SwapAside
  BY <1>14 DEF SwapAside, At, Quiet, Still
<1>15. CASE SwapIn
  BY <1>15 DEF SwapIn, At, Quiet, Still, RollBack
<1>16. CASE write_env_file
  BY <1>16 DEF write_env_file, At, Quiet, Still, Write, RollBack
<1>17. CASE reconcile_journal_mode
  BY <1>17 DEF reconcile_journal_mode, At, Quiet, Still, Write, RollBack
<1>18. CASE write_units
  BY <1>18 DEF write_units, At, Quiet, Still, Write, RollBack
<1>19. CASE install_self
  BY <1>19 DEF install_self, At, Quiet, Still
<1>20. CASE EnrollDuring
  BY <1>20 DEF EnrollDuring, At, Quiet, Still
<1>21. CASE start_services
  BY <1>21 DEF start_services, At, Quiet, Still
<1>22. CASE wait_until_healthy
  BY <1>22 DEF wait_until_healthy, At, Quiet, Still
<1>23. CASE verify_installation
  BY <1>23 DEF verify_installation, At, Quiet, Still
<1>24. CASE Converge
  BY <1>24 DEF Converge, At, Quiet, Still
<1>25. CASE Commit
  BY <1>25 DEF Commit, At, Quiet, Still
<1>26. CASE Report
  BY <1>26 DEF Report, At, Quiet, Still
<1>27. CASE roll_back
  BY <1>27 DEF roll_back, At, Quiet, Still, RollBack
<1>28. CASE restore_files
  BY <1>28 DEF restore_files, At, Quiet, Still
<1>29. CASE restart_units
  BY <1>29 DEF restart_units, At, Quiet, Still
<1>30. CASE judge
  BY <1>30 DEF judge, At, Quiet, Still
<1>31. CASE restore_previous_runtime
  BY <1>31 DEF restore_previous_runtime, At, Quiet, Still
<1>32. ASSUME NEW w \in Workers, Wake(w)
      PROVE  overtaken \subseteq overtaken'
  BY <1>32 DEF Wake
<1>33. ASSUME NEW w \in Workers, Sleep(w)
      PROVE  overtaken \subseteq overtaken'
  BY <1>33 DEF Sleep
<1>34. CASE HermesStarts
  BY <1>34 DEF HermesStarts
<1>35. CASE NodeStarts
  BY <1>35 DEF NodeStarts, At
<1>36. CASE PowerLoss
  BY <1>36 DEF PowerLoss
<1>37. CASE UpdaterKilled
  BY <1>37 DEF UpdaterKilled, At
<1>38. CASE Connect
  BY <1>38 DEF Connect
<1>39. CASE Disconnect
  BY <1>39 DEF Disconnect
<1>40. ASSUME NEW o \in Ops, NEW answered \in BOOLEAN, flush_update_progress(o, answered)
      PROVE  overtaken \subseteq overtaken'
  BY <1>40 DEF flush_update_progress
<1>41. CASE UNCHANGED vars
  BY <1>41 DEF vars
<1> QED
  BY <1>1, <1>2, <1>3, <1>4, <1>5, <1>6, <1>7, <1>8, <1>9, <1>10, <1>11, <1>12, <1>13,
     <1>14, <1>15, <1>16, <1>17, <1>18, <1>19, <1>20, <1>21, <1>22, <1>23, <1>24,
     <1>25, <1>26, <1>27, <1>28, <1>29, <1>30, <1>31, <1>32, <1>33, <1>34, <1>35,
     <1>36, <1>37, <1>38, <1>39, <1>40, <1>41
  DEF Next, UpdaterStep, Forward

\* An operation that was answered does not come alive again, nor ask for another
\* release.
LEMMA LiveStep ==
  ASSUME NEW x \in Ops, x \in sent,
         PlaneOK, CountOK, OpInv, [Next]_vars
  PROVE  (stage'[x] \in Live => stage[x] \in Live) /\ wanted'[x] = wanted[x]
<1> USE BoundFacts
<1> USE DEF fileVars, procVars, planeVars, countVars, histVars
<1>1. ASSUME NEW v \in {"install", "update", "repair"}, NEW r \in Releases, run_lifecycle(v, r)
      PROVE  (stage'[x] \in Live => stage[x] \in Live) /\ wanted'[x] = wanted[x]
  BY <1>1 DEF run_lifecycle, At
<1>2. ASSUME NEW r \in Releases, RequestUpdate(r)
      PROVE  (stage'[x] \in Live => stage[x] \in Live) /\ wanted'[x] = wanted[x]
  <2>1. x # ops + 1 /\ ops + 1 \in Ops
    BY <1>2 DEF RequestUpdate, OpInv, CountOK
  <2> QED
    BY <1>2, <2>1 DEF RequestUpdate, PlaneOK
<1>3. ASSUME NEW r \in Releases, request_update(r)
      PROVE  (stage'[x] \in Live => stage[x] \in Live) /\ wanted'[x] = wanted[x]
  BY <1>3 DEF request_update, At, write_request, updaterequest_request
<1>4. ASSUME NEW o \in Ops, ReceiveUpdate(o)
      PROVE  (stage'[x] \in Live => stage[x] \in Live) /\ wanted'[x] = wanted[x]
  BY <1>4 DEF ReceiveUpdate, PlaneOK, Live
<1>5. ASSUME NEW o \in Ops, sweepStalled(o)
      PROVE  (stage'[x] \in Live => stage[x] \in Live) /\ wanted'[x] = wanted[x]
  BY <1>5 DEF sweepStalled, PlaneOK, Live
<1>6. CASE apply_update
  BY <1>6 DEF apply_update, At, consume
<1>7. CASE hand_over_to
  BY <1>7 DEF hand_over_to, At, Quiet, Still
<1>8. CASE Begin
  BY <1>8 DEF Begin, At, Quiet, Still
<1>9. CASE recover_from_interrupted_install
  BY <1>9 DEF recover_from_interrupted_install, At, Quiet, Still
<1>10. CASE download_bundle
  BY <1>10 DEF download_bundle, At, Quiet, Still, Prepare
<1>11. CASE verify_bundle
  BY <1>11 DEF verify_bundle, At, Quiet, Still, Prepare
<1>12. CASE ensure_prerequisites
  BY <1>12 DEF ensure_prerequisites, At, Quiet, Still, Prepare
<1>13. CASE unpack
  BY <1>13 DEF unpack, At, Quiet, Still, Prepare
<1>14. CASE SwapAside
  BY <1>14 DEF SwapAside, At, Quiet, Still
<1>15. CASE SwapIn
  BY <1>15 DEF SwapIn, At, Quiet, Still, RollBack
<1>16. CASE write_env_file
  BY <1>16 DEF write_env_file, At, Quiet, Still, Write, RollBack
<1>17. CASE reconcile_journal_mode
  BY <1>17 DEF reconcile_journal_mode, At, Quiet, Still, Write, RollBack
<1>18. CASE write_units
  BY <1>18 DEF write_units, At, Quiet, Still, Write, RollBack
<1>19. CASE install_self
  BY <1>19 DEF install_self, At, Quiet, Still
<1>20. CASE EnrollDuring
  BY <1>20 DEF EnrollDuring, At, Quiet, Still
<1>21. CASE start_services
  BY <1>21 DEF start_services, At, Quiet, Still
<1>22. CASE wait_until_healthy
  BY <1>22 DEF wait_until_healthy, At, Quiet, Still
<1>23. CASE verify_installation
  BY <1>23 DEF verify_installation, At, Quiet, Still
<1>24. CASE Converge
  BY <1>24 DEF Converge, At, Quiet, Still
<1>25. CASE Commit
  BY <1>25 DEF Commit, At, Quiet, Still
<1>26. CASE Report
  BY <1>26 DEF Report, At, Quiet, Still
<1>27. CASE roll_back
  BY <1>27 DEF roll_back, At, Quiet, Still, RollBack
<1>28. CASE restore_files
  BY <1>28 DEF restore_files, At, Quiet, Still
<1>29. CASE restart_units
  BY <1>29 DEF restart_units, At, Quiet, Still
<1>30. CASE judge
  BY <1>30 DEF judge, At, Quiet, Still
<1>31. CASE restore_previous_runtime
  BY <1>31 DEF restore_previous_runtime, At, Quiet, Still
<1>32. ASSUME NEW w \in Workers, Wake(w)
      PROVE  (stage'[x] \in Live => stage[x] \in Live) /\ wanted'[x] = wanted[x]
  BY <1>32 DEF Wake
<1>33. ASSUME NEW w \in Workers, Sleep(w)
      PROVE  (stage'[x] \in Live => stage[x] \in Live) /\ wanted'[x] = wanted[x]
  BY <1>33 DEF Sleep
<1>34. CASE HermesStarts
  BY <1>34 DEF HermesStarts
<1>35. CASE NodeStarts
  BY <1>35 DEF NodeStarts, At
<1>36. CASE PowerLoss
  BY <1>36 DEF PowerLoss
<1>37. CASE UpdaterKilled
  BY <1>37 DEF UpdaterKilled, At
<1>38. CASE Connect
  BY <1>38 DEF Connect, resolveReconnect, PlaneOK, Live
<1>39. CASE Disconnect
  BY <1>39 DEF Disconnect
<1>40. ASSUME NEW o \in Ops, NEW answered \in BOOLEAN, flush_update_progress(o, answered)
      PROVE  (stage'[x] \in Live => stage[x] \in Live) /\ wanted'[x] = wanted[x]
  <2>1. stage' = [stage EXCEPT ![o] = decideUpdateProgress(o, acked[o] + 1)] /\ wanted' = wanted
    BY <1>40 DEF flush_update_progress
  <2>2. stage[o] \in Live \/ decideUpdateProgress(o, acked[o] + 1) = stage[o]
    BY DEF decideUpdateProgress
  <2> QED
    BY <2>1, <2>2 DEF PlaneOK
<1>41. CASE UNCHANGED vars
  BY <1>41 DEF vars
<1> QED
  BY <1>1, <1>2, <1>3, <1>4, <1>5, <1>6, <1>7, <1>8, <1>9, <1>10, <1>11, <1>12, <1>13,
     <1>14, <1>15, <1>16, <1>17, <1>18, <1>19, <1>20, <1>21, <1>22, <1>23, <1>24,
     <1>25, <1>26, <1>27, <1>28, <1>29, <1>30, <1>31, <1>32, <1>33, <1>34, <1>35,
     <1>36, <1>37, <1>38, <1>39, <1>40, <1>41
  DEF Next, UpdaterStep, Forward

\* A success is declared of a live operation with evidence, and of the release the
\* connected Node is.
LEMMA SuccessStep ==
  ASSUME NEW x \in Ops, stage[x] # "succeeded", stage'[x] = "succeeded",
         PlaneOK, CountOK, JournalOK, CursorOK, StageInv, SessionInv, [Next]_vars
  PROVE  Complete(x) /\ stage[x] \in Live /\ node = wanted[x]
<1> USE BoundFacts
<1> USE DEF fileVars, procVars, planeVars, countVars, histVars
<1>1. ASSUME NEW v \in {"install", "update", "repair"}, NEW r \in Releases, run_lifecycle(v, r)
      PROVE  Complete(x) /\ stage[x] \in Live /\ node = wanted[x]
  BY <1>1 DEF run_lifecycle, At
<1>2. ASSUME NEW r \in Releases, RequestUpdate(r)
      PROVE  Complete(x) /\ stage[x] \in Live /\ node = wanted[x]
  <2>1. ops + 1 \in Ops
    BY <1>2 DEF RequestUpdate, CountOK
  <2> QED
    BY <1>2, <2>1 DEF RequestUpdate, PlaneOK
<1>3. ASSUME NEW r \in Releases, request_update(r)
      PROVE  Complete(x) /\ stage[x] \in Live /\ node = wanted[x]
  BY <1>3 DEF request_update, At, write_request, updaterequest_request
<1>4. ASSUME NEW o \in Ops, ReceiveUpdate(o)
      PROVE  Complete(x) /\ stage[x] \in Live /\ node = wanted[x]
  BY <1>4 DEF ReceiveUpdate, PlaneOK
<1>5. ASSUME NEW o \in Ops, sweepStalled(o)
      PROVE  Complete(x) /\ stage[x] \in Live /\ node = wanted[x]
  BY <1>5 DEF sweepStalled, PlaneOK
<1>6. CASE apply_update
  BY <1>6 DEF apply_update, At, consume
<1>7. CASE hand_over_to
  BY <1>7 DEF hand_over_to, At, Quiet, Still
<1>8. CASE Begin
  BY <1>8 DEF Begin, At, Quiet, Still
<1>9. CASE recover_from_interrupted_install
  BY <1>9 DEF recover_from_interrupted_install, At, Quiet, Still
<1>10. CASE download_bundle
  BY <1>10 DEF download_bundle, At, Quiet, Still, Prepare
<1>11. CASE verify_bundle
  BY <1>11 DEF verify_bundle, At, Quiet, Still, Prepare
<1>12. CASE ensure_prerequisites
  BY <1>12 DEF ensure_prerequisites, At, Quiet, Still, Prepare
<1>13. CASE unpack
  BY <1>13 DEF unpack, At, Quiet, Still, Prepare
<1>14. CASE SwapAside
  BY <1>14 DEF SwapAside, At, Quiet, Still
<1>15. CASE SwapIn
  BY <1>15 DEF SwapIn, At, Quiet, Still, RollBack
<1>16. CASE write_env_file
  BY <1>16 DEF write_env_file, At, Quiet, Still, Write, RollBack
<1>17. CASE reconcile_journal_mode
  BY <1>17 DEF reconcile_journal_mode, At, Quiet, Still, Write, RollBack
<1>18. CASE write_units
  BY <1>18 DEF write_units, At, Quiet, Still, Write, RollBack
<1>19. CASE install_self
  BY <1>19 DEF install_self, At, Quiet, Still
<1>20. CASE EnrollDuring
  BY <1>20 DEF EnrollDuring, At, Quiet, Still
<1>21. CASE start_services
  BY <1>21 DEF start_services, At, Quiet, Still
<1>22. CASE wait_until_healthy
  BY <1>22 DEF wait_until_healthy, At, Quiet, Still
<1>23. CASE verify_installation
  BY <1>23 DEF verify_installation, At, Quiet, Still
<1>24. CASE Converge
  BY <1>24 DEF Converge, At, Quiet, Still
<1>25. CASE Commit
  BY <1>25 DEF Commit, At, Quiet, Still
<1>26. CASE Report
  BY <1>26 DEF Report, At, Quiet, Still
<1>27. CASE roll_back
  BY <1>27 DEF roll_back, At, Quiet, Still, RollBack
<1>28. CASE restore_files
  BY <1>28 DEF restore_files, At, Quiet, Still
<1>29. CASE restart_units
  BY <1>29 DEF restart_units, At, Quiet, Still
<1>30. CASE judge
  BY <1>30 DEF judge, At, Quiet, Still
<1>31. CASE restore_previous_runtime
  BY <1>31 DEF restore_previous_runtime, At, Quiet, Still
<1>32. ASSUME NEW w \in Workers, Wake(w)
      PROVE  Complete(x) /\ stage[x] \in Live /\ node = wanted[x]
  BY <1>32 DEF Wake
<1>33. ASSUME NEW w \in Workers, Sleep(w)
      PROVE  Complete(x) /\ stage[x] \in Live /\ node = wanted[x]
  BY <1>33 DEF Sleep
<1>34. CASE HermesStarts
  BY <1>34 DEF HermesStarts
<1>35. CASE NodeStarts
  BY <1>35 DEF NodeStarts, At
<1>36. CASE PowerLoss
  BY <1>36 DEF PowerLoss
<1>37. CASE UpdaterKilled
  BY <1>37 DEF UpdaterKilled, At
<1>38. CASE Connect
  <2>1. stage'[x] = resolveReconnect(x, node)
    BY <1>38 DEF Connect
  <2>2. stage[x] = "awaiting_reconnect" /\ node = wanted[x]
    BY <2>1 DEF resolveReconnect
  <2> QED
    BY <2>2 DEF StageInv, Live
<1>39. CASE Disconnect
  BY <1>39 DEF Disconnect
<1>40. ASSUME NEW o \in Ops, NEW answered \in BOOLEAN, flush_update_progress(o, answered)
      PROVE  Complete(x) /\ stage[x] \in Live /\ node = wanted[x]
  <2> DEFINE k == acked[o] + 1
  <2>1. /\ stage' = [stage EXCEPT ![o] = decideUpdateProgress(o, k)] /\ session.up
        /\ k \in undelivered(o)
    BY <1>40 DEF flush_update_progress
  <2>2. k \in 1..Len(journal[o])
    BY <2>1, LenFacts DEF undelivered, CursorOK
  <2> HIDE DEF k
  <2>3. x = o /\ decideUpdateProgress(x, k) = "succeeded"
    BY <2>1 DEF PlaneOK
  <2>4. stage[x] \in Live /\ journal[x][k].state = "complete" /\ session.release = wanted[x]
    <3>1. ~(k <= heard[x] \/ stage[x] \notin Live)
      BY <2>3 DEF decideUpdateProgress
    <3>2. journal[x][k].state # "progress"
      BY <2>3, <3>1 DEF decideUpdateProgress
    <3>3. journal[x][k].state = "complete"
      BY <2>3, <3>1, <3>2 DEF decideUpdateProgress
    <3> QED
      BY <2>3, <3>1, <3>3 DEF decideUpdateProgress
  <2> QED
    BY <2>1, <2>2, <2>3, <2>4 DEF Complete, SessionInv
<1>41. CASE UNCHANGED vars
  BY <1>41 DEF vars
<1> QED
  BY <1>1, <1>2, <1>3, <1>4, <1>5, <1>6, <1>7, <1>8, <1>9, <1>10, <1>11, <1>12, <1>13,
     <1>14, <1>15, <1>16, <1>17, <1>18, <1>19, <1>20, <1>21, <1>22, <1>23, <1>24,
     <1>25, <1>26, <1>27, <1>28, <1>29, <1>30, <1>31, <1>32, <1>33, <1>34, <1>35,
     <1>36, <1>37, <1>38, <1>39, <1>40, <1>41
  DEF Next, UpdaterStep, Forward

\* While an operation with evidence is live the host stays what was proven.
LEMMA ServeStep ==
  ASSUME upd \in Updater, HostOK, PlaneOK, CountOK, JournalOK, CursorOK, StepInv, OpInv,
         ReadyInv, StageInv, ServeInv, [Next]_vars
  PROVE  ServeInv'
<1> SUFFICES ASSUME NEW x \in Ops, Complete(x)', stage'[x] \in Live, x \notin overtaken'
             PROVE  Host(wanted[x])' /\ Attended(x)'
  BY DEF ServeInv
<1>1. Complete(x) \/ (Report /\ x = upd.op)
  <2>1. CASE journal' = journal
    BY <2>1 DEF Complete
  <2>2. CASE Begin
    <3>1. Record("progress")
      BY <2>2 DEF Begin
    <3> QED
      BY <3>1, EvidenceFacts DEF StageInv
  <2>3. CASE Report
    <3>1. Record("complete")
      BY <2>3 DEF Report
    <3> QED
      BY <2>3, <3>1, EvidenceFacts DEF StageInv
  <2>4. CASE judge
    <3>1. PICK e \in {"restored", "incomplete"} : Record(e)
      BY <2>4 DEF judge
    <3> QED
      BY <3>1, EvidenceFacts DEF StageInv
  <2> QED
    BY <2>1, <2>2, <2>3, <2>4, JournalStep
<1>2. x \in sent
  <2>1. CASE Complete(x)
    BY <2>1 DEF StageInv
  <2>2. CASE Report /\ x = upd.op
    BY <2>2, BoundFacts DEF Report, At, StepInv, OpInv
  <2> QED
    BY <1>1, <2>1, <2>2
<1>3. stage[x] \in Live /\ wanted'[x] = wanted[x] /\ x = ops
  BY <1>2, LiveStep DEF StageInv
<1>4. 1..ops \subseteq sent /\ wanted[x] \in Releases
  BY <1>2, <1>3 DEF OpInv
<1>5. \A k \in 1..Len(journal[x]) : journal[x][k].services \subseteq Workers
  <2>1. journal[x] \in Seq(Event)
    BY LenFacts
  <2>2. \A k \in 1..Len(journal[x]) : journal[x][k] \in Event
    BY <2>1, ElementOfSeq
  <2> QED
    BY <2>2 DEF Event
<1>6. CASE Complete(x)
  <2>0. x \in Evident /\ x \notin overtaken
    BY <1>6, OvertakenStep DEF Evident, Complete
  <2>1. Host(wanted[x]) /\ Attended(x)
    BY <1>3, <1>6, <2>0 DEF ServeInv
  <2>2. Host(wanted[x])'
    <3> DEFINE rel == wanted[x]
    <3>1. rel \in Releases /\ rel' = rel
      BY <1>3, <1>4
    <3>2. Host(rel)
      BY <2>1
    <3> HIDE DEF rel
    <3>3. PICK c \in Releases : c = rel
      BY <3>1
    <3>4. Host(c)'
      BY <1>4, <2>0, <3>2, <3>3, HostStep
    <3> QED
      BY <3>1, <3>3, <3>4 DEF rel
  <2>3. journal'[x] = journal[x]
    <3>1. judge => FALSE
      BY <2>1 DEF judge, At, Host, StepInv, UpdateOnly
    <3>2. Report \/ Begin => upd.op = NoOp
      BY <2>1 DEF Report, Begin, At, Host, StepInv
    <3>3. Report \/ Begin => journal' = journal
      BY <3>2 DEF Report, Begin, Record
    <3>4. journal' = journal
      BY <3>1, <3>3, JournalStep
    <3> QED
      BY <3>4
  <2>4. ASSUME NEW k \in 1..Len(journal[x]), NEW w \in journal[x][k].services
        PROVE  worker'[w] \in {wanted[x], None}
    <3>1. w \in Workers /\ worker[w] \in {wanted[x], None}
      BY <1>5, <2>1 DEF Attended
    <3> QED
      BY <1>4, <2>1, <3>1, WorkerStep
  <2>5. Attended(x)'
    BY <1>3, <2>3, <2>4 DEF Attended
  <2> QED
    BY <2>2, <2>5
<1>7. CASE ~Complete(x)
  <2>1. Report /\ x = upd.op
    BY <1>1, <1>7
  <2>2. /\ upd.step = "report" /\ upd' = Idle
        /\ UNCHANGED <<binary, runtime, retired, config, node, hermes, worker>>
    BY <2>1 DEF Report, At, fileVars, procVars
  <2>3. upd.target = wanted[x]
    BY <2>1, <2>2, BoundFacts DEF StepInv, OpInv
  <2>4. /\ binary = wanted[x] /\ config = Written(wanted[x]) /\ runtime = wanted[x]
        /\ node = wanted[x] /\ hermes = wanted[x]
        /\ \A w \in upd.displaced : worker[w] \in {wanted[x], None}
    BY <2>2, <2>3 DEF ReadyInv, Proving, Selfed
  <2>5. Host(wanted[x])'
    BY <1>3, <1>4, <2>2, <2>4, IdleFacts, ReleaseFacts DEF Host, Kept, Swapped, Cleared
  <2>6. Record("complete")
    BY <2>1 DEF Report
  <2> DEFINE n == Len(journal[x])
  <2>7. /\ n \in Nat /\ Len(journal'[x]) = n + 1
        /\ journal'[x][n + 1].services = upd.displaced
        /\ \A k \in 1..n : journal'[x][k] = journal[x][k]
    BY <2>1, <2>6, LenFacts, RecordFacts
  <2>8. \A k \in 1..n : journal[x][k].services = {}
    BY <1>7 DEF StageInv, Bare, Complete
  <2>9. ASSUME NEW k \in 1..(n + 1), NEW w \in journal'[x][k].services
        PROVE  worker'[w] \in {wanted[x], None}
    <3>1. CASE k \in 1..n
      BY <2>7, <2>8, <2>9, <3>1
    <3>2. CASE k = n + 1
      BY <2>2, <2>4, <2>7, <2>9, <3>2
    <3> QED
      BY <2>7, <3>1, <3>2
  <2>10. Attended(x)'
    BY <1>3, <2>7, <2>9 DEF Attended
  <2> QED
    BY <2>5, <2>10
<1> QED
  BY <1>6, <1>7

\* What a roll-back that succeeded leaves is what the update found.
LEMMA RestoredStep ==
  ASSUME upd \in Updater, JournalOK, StepInv, BackInv, [Next]_vars, NEW x \in Ops,
         journal'[x] # journal[x], journal'[x][Len(journal'[x])].state = "restored"
  PROVE  /\ <<binary, config>> = <<upd.before[1], upd.before[3]>>
         /\ runtime = upd.before[2] \/ (interrupted /\ retired = upd.before[2])
<1>1. CASE Begin
  <2>1. Record("progress")
    BY <1>1 DEF Begin
  <2>2. x = upd.op
    BY <2>1, RecordFacts
  <2>3. journal'[x][Len(journal'[x])].state = "progress"
    BY <2>1, <2>2, RecordFacts
  <2> QED
    BY <2>3
<1>2. CASE Report
  <2>1. Record("complete")
    BY <1>2 DEF Report
  <2>2. x = upd.op
    BY <2>1, RecordFacts
  <2>3. journal'[x][Len(journal'[x])].state = "complete"
    BY <2>1, <2>2, RecordFacts
  <2> QED
    BY <2>3
<1>3. CASE judge
  <2>1. upd.step = "judge"
    BY <1>3 DEF judge, At
  <2>2. PICK e \in {"restored", "incomplete"} : Record(e)
    BY <1>3 DEF judge
  <2>3. x = upd.op
    BY <2>2, RecordFacts
  <2>4. ASSUME Record("incomplete") PROVE FALSE
    <3>1. journal'[x][Len(journal'[x])].state = "incomplete"
      BY <2>3, <2>4, RecordFacts
    <3> QED
      BY <3>1
  <2>5. upd.clean /\ Converged
    BY <1>3, <2>4 DEF judge
  <2>6. upd.op # NoOp
    BY <2>3, BoundFacts
  <2> QED
    BY <2>1, <2>5, <2>6 DEF BackInv, Undone, Converged
<1> QED
  BY <1>1, <1>2, <1>3, JournalStep

-----------------------------------------------------------------------------
IInv ==
  /\ TypeOK /\ StepInv /\ OpInv /\ KeptInv /\ InstalledInv /\ ReadyInv /\ SessionInv
  /\ StageInv /\ ServeInv

\* A host with nothing on it satisfies the invariant.
LEMMA InitIInv == Init => IInv /\ BackInv
<1> SUFFICES ASSUME Init PROVE IInv /\ BackInv
  OBVIOUS
<1>1. upd \in Updater
  BY RestType DEF Init
<1>2. HostOK /\ PlaneOK
  BY WrittenType, ReleaseFacts, RestType DEF Init, HostOK, PlaneOK, Requests, NoRequest
<1>3. CountOK
  BY BoundFacts DEF Init, CountOK
<1>4. JournalOK
  BY DEF Init, JournalOK
<1>5. \A o \in Ops : journal[o] = <<>> /\ Len(journal[o]) = 0
  BY DEF Init
<1>6. CursorOK
  BY <1>5 DEF Init, CursorOK
<1>7. TypeOK
  BY <1>1, <1>2, <1>3, <1>4, <1>6, TypeParts
<1>8. StepInv /\ BackInv
  BY IdleFacts DEF Init, StepInv, BackInv, Placed, Unplaced, UpdateOnly
<1>9. OpInv
  BY IdleFacts DEF Init, OpInv, NoRequest
<1>10. KeptInv /\ InstalledInv
  BY DEF Init, KeptInv, InstalledInv
<1>11. ReadyInv
  BY IdleFacts DEF Init, ReadyInv, Selfed, Proving, Placed, Swapped
<1>12. SessionInv
  BY DEF Init, SessionInv, Down
<1>13. StageInv /\ ServeInv
  BY <1>5 DEF Init, StageInv, ServeInv, Complete, Bare, Live
<1> QED
  BY <1>7, <1>8, <1>9, <1>10, <1>11, <1>12, <1>13 DEF IInv

\* Every step of the updater, the host and the Control Plane keeps it.
LEMMA NextIInv == IInv /\ [Next]_vars => IInv'
<1> SUFFICES ASSUME IInv, [Next]_vars PROVE IInv'
  OBVIOUS
<1>1. upd \in Updater /\ HostOK /\ PlaneOK /\ CountOK /\ JournalOK /\ CursorOK
  BY TypeParts DEF IInv
<1>2. /\ (upd \in Updater)' /\ HostOK' /\ PlaneOK' /\ CountOK' /\ JournalOK' /\ CursorOK'
  BY <1>1, UpdaterStepType, HostStepType, PlaneStepType, CountStepType, JournalStepType
<1>3. TypeOK'
  BY <1>2, TypeParts, PTL
<1>4. StepInv' /\ OpInv' /\ KeptInv' /\ InstalledInv' /\ ReadyInv'
  BY <1>1, StepStep, OpStep, KeptStep, InstalledStep, ReadyStep DEF IInv
<1>5. SessionInv' /\ StageInv' /\ ServeInv'
  BY <1>1, SessionStep, StageStep, ServeStep DEF IInv
<1> QED
  BY <1>3, <1>4, <1>5 DEF IInv

\* The invariant holds throughout.
THEOREM Invariance == Spec => []IInv
BY InitIInv, NextIInv, PTL DEF Spec

\* Files, processes, rows and journals keep their types, wherever an updater
\* dies.
THEOREM TypeCorrectness == Spec => []TypeOK
BY Invariance, PTL DEF IInv

\* recover_from_interrupted_install, install_runtime and RuntimeSwap: the
\* runtime that last served is never lost to an attempt that did not get as far
\* as serving, unless that attempt left its own runtime in place: by dying, or
\* because rolling it back failed.
THEOREM ProvenRuntimeIsKept == Spec => []ProvenRuntimeKept
<1>1. IInv => ProvenRuntimeKept
  BY DEF IInv, KeptInv, Kept, ProvenRuntimeKept, TypeOK
<1> QED
  BY <1>1, Invariance, PTL

\* resolveReconnect and decideUpdateProgress: an operation is called successful
\* only over a host that is the release it asked for throughout, unless an
\* operator on the host has set out for a release since it was proven.
THEOREM SuccessesAreCoherent == Spec => SuccessIsCoherent
<1>1. IInv /\ [Next]_vars =>
        [\A o \in Ops :
           stage[o] # "succeeded" /\ stage'[o] = "succeeded" /\ o \notin overtaken =>
             /\ binary = wanted[o] /\ wanted[o] \in {runtime, retired}
             /\ config = Written(wanted[o])
             /\ node = wanted[o] /\ hermes \in {wanted[o], None}
             /\ \A k \in 1..Len(journal[o]) : \A w \in journal[o][k].services :
                  worker[w] \in {wanted[o], None}]_vars
  <2> SUFFICES ASSUME IInv, [Next]_vars, NEW o \in Ops,
                      stage[o] # "succeeded", stage'[o] = "succeeded", o \notin overtaken
               PROVE  /\ binary = wanted[o] /\ wanted[o] \in {runtime, retired}
                      /\ config = Written(wanted[o])
                      /\ node = wanted[o] /\ hermes \in {wanted[o], None}
                      /\ \A k \in 1..Len(journal[o]) : \A w \in journal[o][k].services :
                           worker[w] \in {wanted[o], None}
    OBVIOUS
  <2>1. PlaneOK /\ CountOK /\ JournalOK /\ CursorOK
    BY TypeParts DEF IInv
  <2>2. Complete(o) /\ stage[o] \in Live /\ node = wanted[o]
    BY <2>1, SuccessStep DEF IInv
  <2>3. Host(wanted[o]) /\ Attended(o)
    BY <2>2 DEF IInv, ServeInv
  <2> QED
    BY <2>2, <2>3 DEF Host, Kept, Attended
<1> QED
  BY <1>1, Invariance, PTL DEF Spec, SuccessIsCoherent

\* restore_previous_installation: where the configuration an update finds can be
\* read, a report that the previous installation is restored means binary and
\* configuration are the ones it found, and so is the runtime, unless rolling it
\* back failed unseen; then it is still moved aside.
THEOREM RestoredMeansBack ==
  ASSUME "capture" \notin Hazards
  PROVE  Spec => RestoredIsBack
<1>1. Init => IInv /\ BackInv
  BY InitIInv
<1>2. IInv /\ BackInv /\ [Next]_vars => (IInv /\ BackInv)'
  <2> SUFFICES ASSUME IInv, BackInv, [Next]_vars PROVE IInv' /\ BackInv'
    OBVIOUS
  <2>1. upd \in Updater /\ HostOK
    BY TypeParts DEF IInv
  <2> QED
    BY <2>1, NextIInv, BackStep DEF IInv
<1>3. IInv /\ BackInv /\ [Next]_vars =>
        [\A o \in Ops :
           journal'[o] # journal[o] /\ journal'[o][Len(journal'[o])].state = "restored" =>
             /\ <<binary, config>> = <<upd.before[1], upd.before[3]>>
             /\ runtime = upd.before[2] \/ (interrupted /\ retired = upd.before[2])]_vars
  <2> SUFFICES ASSUME IInv, BackInv, [Next]_vars, NEW o \in Ops, journal'[o] # journal[o],
                      journal'[o][Len(journal'[o])].state = "restored"
               PROVE  /\ <<binary, config>> = <<upd.before[1], upd.before[3]>>
                      /\ runtime = upd.before[2] \/ (interrupted /\ retired = upd.before[2])
    OBVIOUS
  <2>1. upd \in Updater /\ JournalOK
    BY TypeParts DEF IInv
  <2> QED
    BY <2>1, RestoredStep DEF IInv
<1> QED
  BY <1>1, <1>2, <1>3, PTL DEF Spec, RestoredIsBack
=============================================================================
