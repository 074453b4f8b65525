--------------------------- MODULE NodeRunsProofs ---------------------------
(***************************************************************************)
(* TLAPS proofs about NodeRuns, for any number of runs and passes, any     *)
(* bounds and any set of hazards; RecordsAreTrue and OneFlight name the    *)
(* hazards they leave out.                                                 *)
(*                                                                         *)
(* IInv is the inductive invariant: the types, the lock discipline, what   *)
(* ties a worker's location to the run's row and to Hermes (so that a run  *)
(* is submitted once), what ties a recorded result to what Hermes reached, *)
(* and the retry links.  Each conjunct has a lemma with one step per       *)
(* action.  The last part adds where a run that was handed over is         *)
(* (HandedInv), so that a row says of it what is true of Hermes (TruthInv) *)
(* and what Hermes executes has a worker, hence the lock (FlightInv).      *)
(***************************************************************************)
EXTENDS NodeRuns, TLAPS

\* Why a run is submitted once.  Before its first submission a worker has found
\* no backend id and Hermes has never seen the run; a worker spawned later is
\* spawned for a row that has one, and takes the re-attach branch.
SubmissionInv ==
  /\ \A r \in Runs :
       /\ submits[r] <= 1
       /\ status[r] = "absent" => wk[r] = "none" /\ ~hid[r] /\ submits[r] = 0
       /\ wk[r] \in {"queued", "load", "lock", "admit", "accept"} /\ ~hid[r] => submits[r] = 0
       /\ wk[r] \in {"lock", "admit", "accept"} => (known[r] <=> hid[r])
       /\ wk[r] = "submit" => submits[r] = 0
  /\ \A p \in Passes : picked[p] # NoRun => hid[picked[p]]

\* Why a completed run was completed by Hermes.  The terminal status Hermes
\* reached is fixed when it is reached, and a worker's verdict or a pass's
\* decision that is not `interrupted` or `lost` is that status.
EvidenceInv ==
  \A r \in Runs :
    /\ status[r] = "completed" => final[r] = "completed"
    /\ wk[r] = "final" /\ verdict[r] = "completed" => final[r] = "completed"
    /\ backend[r] \in BackendTerminal => final[r] = backend[r]
    /\ backend[r] \in BackendLive \union {"none"} => final[r] = "none"
    /\ submits[r] = 0 => backend[r] = "none"

\* Why a retried run is undetermined: its status was when it was retried, and
\* a terminal status never changes.
RetryInv ==
  \A r \in Runs :
    /\ retryOf[r] # NoRun => IsRetryable(status[retryOf[r]])
    /\ status[r] = "absent" => retryOf[r] = NoRun

IInv == TypeOK /\ LockDiscipline /\ SubmissionInv /\ EvidenceInv /\ RetryInv

\* The empty snapshot of a pass that reads no row has the type of a snapshot.
LEMMA BlankType == Blank \in [Runs -> Snapshot]
  BY DEF Blank, Snapshot

\* Whatever it is given, reconciliation decides on one of the run statuses.
LEMMA DecisionType ==
  ASSUME NEW current, NEW answer, NEW journalled
  PROVE  ReconcileDecision(current, answer, journalled) \in RunStatus
  BY DEF ReconcileDecision, FromHermesStatus, RunStatus, Active, Terminal, BackendTerminal

\* Every action keeps the type of every variable.
LEMMA TypeOKStep ==
  TypeOK /\ [Next]_vars => TypeOK'
<1> SUFFICES ASSUME TypeOK, [Next]_vars
             PROVE  TypeOK'
  OBVIOUS
<1> USE NumRunsAssumption, NumPassesAssumption, BlankType
<1> USE DEF TypeOK, NoRun, registryVars, workerVars, passVars, cancelVars,
            daemonVars, settingVars, hermesVars
<1>1. ASSUME NEW r \in Runs, CreateRun(r)
      PROVE  TypeOK'
  BY <1>1 DEF CreateRun, Go, RunStatus, Terminal, Active, WorkerPC, Holding, PassPC, PassHolding
<1>2. ASSUME NEW q \in Runs, NEW r \in Runs, RetryRun(q, r)
      PROVE  TypeOK'
  BY <1>2 DEF RetryRun, Go, RunStatus, Terminal, Active, WorkerPC, Holding, PassPC, PassHolding
<1>3. ASSUME NEW r \in Runs, SuperviseNew(r)
      PROVE  TypeOK'
  BY <1>3 DEF SuperviseNew, Go, RunStatus, Terminal, Active, WorkerPC, Holding, PassPC,
  PassHolding
<1>4. ASSUME NEW r \in Runs, CancelBegin(r)
      PROVE  TypeOK'
  BY <1>4 DEF CancelBegin, Note, RunStatus, Terminal, Active, WorkerPC, Holding, PassPC,
  PassHolding
<1>5. CASE CancelUnsubmitted
  BY <1>5 DEF CancelUnsubmitted, RunStatus, Terminal, Active, WorkerPC, Holding, PassPC,
  PassHolding
<1>6. CASE CancelSubmitted
  BY <1>6 DEF CancelSubmitted, Note, BackendStatus, BackendLive, BackendTerminal
<1>7. ASSUME NEW r \in Runs, WLoad(r)
      PROVE  TypeOK'
  BY <1>7 DEF WLoad, Go, RunStatus, Terminal, Active, WorkerPC, Holding, PassPC, PassHolding
<1>8. ASSUME NEW r \in Runs, WLock(r)
      PROVE  TypeOK'
  BY <1>8 DEF WLock, Go, RunStatus, Terminal, Active, WorkerPC, Holding, PassPC, PassHolding
<1>9. ASSUME NEW r \in Runs, WFail(r)
      PROVE  TypeOK'
  BY <1>9 DEF WFail, Go, AppendUpdate, Unlock, RunStatus, Terminal, Active, WorkerPC, Holding,
  PassPC, PassHolding
<1>10. ASSUME NEW r \in Runs, WAdmit(r)
      PROVE  TypeOK'
  BY <1>10 DEF WAdmit, Go, Unlock, RunStatus, Terminal, Active, WorkerPC, Holding, PassPC,
  PassHolding
<1>11. ASSUME NEW r \in Runs, WResume(r)
      PROVE  TypeOK'
  BY <1>11 DEF WResume, Go, Note, RunStatus, Terminal, Active, WorkerPC, Holding, PassPC,
  PassHolding
<1>12. ASSUME NEW r \in Runs, WAccept(r)
      PROVE  TypeOK'
  BY <1>12 DEF WAccept, Go, AppendUpdate, Unlock, RunStatus, Terminal, Active, WorkerPC, Holding,
  PassPC, PassHolding
<1>13. ASSUME NEW r \in Runs, WStartRun(r)
      PROVE  TypeOK'
  <2>1. backend' \in [Runs -> BackendStatus]
    BY <1>13 DEF WStartRun, BackendStatus, BackendLive
  <2>2. submits' \in [Runs -> Nat]
    BY <1>13 DEF WStartRun
  <2>3. wk' \in [Runs -> WorkerPC] /\ sidecar' \in Runs \union {NoRun}
    BY <1>13 DEF WStartRun, WorkerPC, Holding, Go
  <2> QED
    BY <1>13, <2>1, <2>2, <2>3 DEF WStartRun
<1>14. ASSUME NEW r \in Runs, WSubmitted(r)
      PROVE  TypeOK'
  BY <1>14 DEF WSubmitted, Go, AppendUpdate, Unlock, RunStatus, Terminal, Active, WorkerPC,
  Holding, PassPC, PassHolding
<1>15. ASSUME NEW r \in Runs, WMark(r)
      PROVE  TypeOK'
  BY <1>15 DEF WMark, Go, RunStatus, Terminal, Active, WorkerPC, Holding, PassPC, PassHolding
<1>16. ASSUME NEW r \in Runs, NEW kind \in {"approval.request", "other"}, NEW fresh \in BOOLEAN, WFrame(r, kind, fresh)
      PROVE  TypeOK'
  <2>1. status' \in [Runs -> RunStatus \union {"absent"}]
    BY <1>16 DEF WFrame, AppendUpdate, Note, StatusUpdateFor, RunStatus, Active
  <2>2. noted' \in [Runs -> BOOLEAN]
    BY <1>16 DEF WFrame, AppendUpdate, Note
  <2>3. obs' \in [Runs -> {"running", "waiting_for_approval"}]
    BY <1>16 DEF WFrame, StatusUpdateFor
  <2> QED
    BY <1>16, <2>1, <2>2, <2>3 DEF WFrame
<1>17. ASSUME NEW r \in Runs, WPoll(r)
      PROVE  TypeOK'
  <2>1. verdict' \in [Runs -> Terminal]
    BY <1>17 DEF WPoll, FromHermesStatus, Terminal, BackendTerminal
  <2>2. wk' \in [Runs -> WorkerPC]
    BY <1>17 DEF WPoll, Go, WorkerPC, Holding
  <2>3. obs' \in [Runs -> {"running", "waiting_for_approval"}]
    BY <1>17 DEF WPoll
  <2> QED
    BY <1>17, <2>1, <2>2, <2>3 DEF WPoll
<1>18. ASSUME NEW r \in Runs, WFinalize(r)
      PROVE  TypeOK'
  BY <1>18 DEF WFinalize, Go, AppendUpdate, RunStatus, Terminal, Active, WorkerPC, Holding,
  PassPC, PassHolding
<1>19. ASSUME NEW r \in Runs, WClear(r)
      PROVE  TypeOK'
  BY <1>19 DEF WClear, Go, Unlock, RunStatus, Terminal, Active, WorkerPC, Holding, PassPC,
  PassHolding
<1>20. ASSUME NEW r \in Runs, WExit(r)
      PROVE  TypeOK'
  BY <1>20 DEF WExit, Go, RunStatus, Terminal, Active, WorkerPC, Holding, PassPC, PassHolding
<1>21. ASSUME NEW p \in Passes, PBegin(p)
      PROVE  TypeOK'
  <2> DEFINE read == [r \in Runs |->
                        IF r \in ActiveRuns
                        THEN [st |-> status[r], hid |-> hid[r], noted |-> noted[r]]
                        ELSE Blank[r]]
  <2>1. ActiveRuns \subseteq Runs
    BY DEF ActiveRuns
  <2>2. ASSUME NEW r \in Runs
        PROVE  [st |-> status[r], hid |-> hid[r], noted |-> noted[r]] \in Snapshot
    BY <2>2 DEF Snapshot
  <2>3. read \in [Runs -> Snapshot]
    BY BlankType, <2>2
  <2>4. psnap' = [psnap EXCEPT ![p] = read] \/ psnap' = psnap
    BY <1>21 DEF PBegin, PassDue
  <2> HIDE DEF read
  <2>5. psnap' \in [Passes -> [Runs -> Snapshot]]
    BY <2>3, <2>4
  <2>6. ppc' \in [Passes -> PassPC]
    BY <1>21 DEF PBegin, PassDue, PassPC, PassHolding
  <2>7. todo' \in [Passes -> SUBSET Runs]
    BY <1>21, <2>1 DEF PBegin, PassDue
  <2>8. lock' \in Runs \union Passes \union {Free}
    BY <1>21 DEF PBegin, PassDue
  <2> QED
    BY <1>21, <2>5, <2>6, <2>7, <2>8 DEF PBegin, PassDue
<1>22. ASSUME NEW p \in Passes, NEW r \in Runs, PPark(p, r)
      PROVE  TypeOK'
  <2>1. status' \in [Runs -> RunStatus \union {"absent"}] /\ noted' \in [Runs -> BOOLEAN]
    BY <1>22 DEF PPark, AppendUpdate, RunStatus, Active
  <2>2. \/ /\ ppc' = [ppc EXCEPT ![p] = "decide"]
           /\ UNCHANGED <<todo, psnap, picked, mode, lock>>
        \/ PReturn(p)
    BY <1>22 DEF PPark
  <2>3. /\ ppc' \in [Passes -> PassPC]
        /\ todo' \in [Passes -> SUBSET Runs]
    BY <2>2 DEF PReturn, PassPC, PassHolding
  <2>4. psnap' \in [Passes -> [Runs -> Snapshot]]
    BY <2>2, BlankType DEF PReturn
  <2>6. picked' \in [Passes -> Runs \union {NoRun}]
    BY <2>2 DEF PReturn
  <2>5. lock' \in Runs \union Passes \union {Free} /\ mode' \in {"down", "boot", "up", "draining"}
    BY <2>2 DEF PReturn, Unlock
  <2> QED
    BY <1>22, <2>1, <2>3, <2>4, <2>5, <2>6 DEF PPark
<1>23. ASSUME NEW p \in Passes, NEW r \in Runs, PDecide(p, r)
      PROVE  TypeOK'
  <2> DEFINE decided(a) == ReconcileDecision(psnap[p][r].st, Flatten(a), psnap[p][r].noted)
  <2>1. PICK a \in (IF psnap[p][r].hid THEN Answers(r) ELSE {"forgotten"}) :
          /\ IF decided(a) # psnap[p][r].st THEN AppendUpdate(r, decided(a))
             ELSE UNCHANGED <<status, noted>>
          /\ \/ /\ todo' = [todo EXCEPT ![p] = @ \ {r}]
                /\ ppc' = [ppc EXCEPT ![p] = IF todo[p] = {r} THEN "clear" ELSE "park"]
                /\ psnap' = [psnap EXCEPT ![p][r] = Blank[r]]
                /\ UNCHANGED <<picked, mode, lock>>
             \/ PReturn(p)
    BY <1>23 DEF PDecide
  <2>2. decided(a) \in RunStatus
    BY DecisionType
  <2> HIDE DEF decided
  <2>3. status' \in [Runs -> RunStatus \union {"absent"}] /\ noted' \in [Runs -> BOOLEAN]
    BY <2>1, <2>2 DEF AppendUpdate
  <2>4. psnap' \in [Passes -> [Runs -> Snapshot]]
    <3>1. [psnap[p] EXCEPT ![r] = Blank[r]] \in [Runs -> Snapshot]
      BY BlankType
    <3>2. \/ psnap' = [psnap EXCEPT ![p] = [psnap[p] EXCEPT ![r] = Blank[r]]]
          \/ psnap' = [psnap EXCEPT ![p] = Blank]
      BY <2>1 DEF PReturn
    <3> QED
      BY BlankType, <3>1, <3>2
  <2>5. ppc' \in [Passes -> PassPC]
    BY <2>1 DEF PReturn, PassPC, PassHolding
  <2>6. todo' \in [Passes -> SUBSET Runs]
    <3>1. todo[p] \ {r} \in SUBSET Runs
      OBVIOUS
    <3>2. todo' = [todo EXCEPT ![p] = todo[p] \ {r}] \/ todo' = [todo EXCEPT ![p] = {}]
      BY <2>1 DEF PReturn
    <3> QED
      BY <3>1, <3>2
  <2>7. picked' \in [Passes -> Runs \union {NoRun}]
    BY <2>1 DEF PReturn, NoRun
  <2>8. lock' \in Runs \union Passes \union {Free} /\ mode' \in {"down", "boot", "up", "draining"}
    BY <2>1 DEF PReturn, Unlock
  <2> QED
    BY <1>23, <2>3, <2>4, <2>5, <2>6, <2>7, <2>8 DEF PDecide
<1>24. ASSUME NEW p \in Passes, PClear(p)
      PROVE  TypeOK'
  BY <1>24 DEF PClear, Unlock, RunStatus, Terminal, Active, WorkerPC, Holding, PassPC,
  PassHolding
<1>25. ASSUME NEW p \in Passes, PPick(p)
      PROVE  TypeOK'
  BY <1>25 DEF PPick, RunStatus, Terminal, Active, WorkerPC, Holding, PassPC, PassHolding
<1>26. ASSUME NEW p \in Passes, PSupervise(p)
      PROVE  TypeOK'
  BY <1>26 DEF PSupervise, Go, PReturn, Unlock, RunStatus, Terminal, Active, WorkerPC, Holding,
  PassPC, PassHolding
<1>27. CASE Drain
  BY <1>27 DEF Drain, Unlock, RunStatus, Terminal, Active, WorkerPC, Holding, PassPC, PassHolding
<1>28. CASE Stop
  <2>1. wk' \in [Runs -> WorkerPC] /\ known' \in [Runs -> BOOLEAN]
    BY <1>28 DEF Stop, WorkerPC
  <2>2. obs' \in [Runs -> {"running", "waiting_for_approval"}] /\ verdict' \in [Runs -> Terminal]
    BY <1>28 DEF Stop, Terminal
  <2>3. ppc' \in [Passes -> PassPC] /\ todo' \in [Passes -> SUBSET Runs]
    BY <1>28 DEF Stop, PassPC
  <2>4. psnap' \in [Passes -> [Runs -> Snapshot]] /\ picked' \in [Passes -> Runs \union {NoRun}]
    BY <1>28, BlankType DEF Stop
  <2>5. /\ lock' = Free /\ cancelRun' = NoRun /\ cancelSeen' = FALSE /\ mode' = "down"
        /\ restarts' \in Nat
        /\ UNCHANGED <<status, hid, noted, retryOf, sidecar, backend, forgets, submits, final>>
        /\ UNCHANGED <<route, listed>>
    BY <1>28 DEF Stop
  <2> QED
    BY <2>1, <2>2, <2>3, <2>4, <2>5
<1>29. CASE Boot
  BY <1>29 DEF Boot, RunStatus, Terminal, Active, WorkerPC, Holding, PassPC, PassHolding
<1>30. ASSUME NEW r \in Runs, HWait(r)
      PROVE  TypeOK'
  BY <1>30 DEF HWait, BackendStatus, BackendLive, BackendTerminal
<1>31. ASSUME NEW r \in Runs, HFinish(r)
      PROVE  TypeOK'
  BY <1>31 DEF HFinish, BackendStatus, BackendLive, BackendTerminal
<1>32. CASE HForget
  BY <1>32 DEF HForget, BackendStatus, BackendLive, BackendTerminal
<1>34. ASSUME NEW p \in Passes, PUnrouted(p)
      PROVE  TypeOK'
  BY <1>34 DEF PUnrouted, RunStatus, Terminal, Active, WorkerPC, Holding, PassPC, PassHolding
<1>35. CASE RouteChanges
  BY <1>35 DEF RouteChanges, RunStatus, Terminal, Active, WorkerPC, Holding, PassPC, PassHolding
<1>33. CASE UNCHANGED vars
  BY <1>33 DEF vars
<1> QED
  BY <1>1, <1>2, <1>3, <1>4, <1>5, <1>6, <1>7, <1>8, <1>9, <1>10, <1>11, <1>12,
     <1>13, <1>14, <1>15, <1>16, <1>17, <1>18, <1>19, <1>20, <1>21, <1>22, <1>23,
     <1>24, <1>25, <1>26, <1>27, <1>28, <1>29, <1>30, <1>31, <1>32, <1>33, <1>34, <1>35
  DEF Next, WorkerStep, Frame, PassStep, CancelStep

\* Every action keeps the lock discipline: only a free lock is taken, and only its
\* holder releases it.
LEMMA LockStep ==
  TypeOK /\ LockDiscipline /\ [Next]_vars => LockDiscipline'
<1> SUFFICES ASSUME TypeOK, LockDiscipline, [Next]_vars
             PROVE  LockDiscipline'
  OBVIOUS
<1> USE NumRunsAssumption, NumPassesAssumption
<1> USE DEF TypeOK, LockDiscipline, Runs, Passes, Holding, PassHolding, Free,
            registryVars, workerVars, passVars, cancelVars, daemonVars, settingVars, hermesVars
<1>1. ASSUME NEW r \in Runs, CreateRun(r)
      PROVE  LockDiscipline'
  BY <1>1 DEF CreateRun, Go
<1>2. ASSUME NEW q \in Runs, NEW r \in Runs, RetryRun(q, r)
      PROVE  LockDiscipline'
  BY <1>2 DEF RetryRun, Go
<1>3. ASSUME NEW r \in Runs, SuperviseNew(r)
      PROVE  LockDiscipline'
  BY <1>3 DEF SuperviseNew, Go
<1>4. ASSUME NEW r \in Runs, CancelBegin(r)
      PROVE  LockDiscipline'
  BY <1>4 DEF CancelBegin
<1>5. CASE CancelUnsubmitted
  BY <1>5 DEF CancelUnsubmitted
<1>6. CASE CancelSubmitted
  BY <1>6 DEF CancelSubmitted
<1>7. ASSUME NEW r \in Runs, WLoad(r)
      PROVE  LockDiscipline'
  BY <1>7 DEF WLoad, Go
<1>8. ASSUME NEW r \in Runs, WLock(r)
      PROVE  LockDiscipline'
  BY <1>8 DEF WLock, Go
<1>9. ASSUME NEW r \in Runs, WFail(r)
      PROVE  LockDiscipline'
  BY <1>9 DEF WFail, Go, Unlock
<1>10. ASSUME NEW r \in Runs, WAdmit(r)
      PROVE  LockDiscipline'
  <2>1. \/ wk' = [wk EXCEPT ![r] = "exit"] /\ lock' = IF lock = r THEN Free ELSE lock
        \/ \E pc \in {"accept", "refuse"} : wk' = [wk EXCEPT ![r] = pc] /\ lock' = lock
    BY <1>10 DEF WAdmit, Go, Unlock
  <2>2. wk[r] = "admit" /\ ppc' = ppc
    BY <1>10 DEF WAdmit
  <2>3. lock = r /\ (\A q \in Runs : q # r => wk[q] \notin Holding)
    BY <2>2
  <2>4. \A p \in Passes : ppc[p] \notin PassHolding
    BY <2>3
  <2> QED
    BY <2>1, <2>2, <2>3, <2>4
<1>11. ASSUME NEW r \in Runs, WResume(r)
      PROVE  LockDiscipline'
  BY <1>11 DEF WResume, Go
<1>12. ASSUME NEW r \in Runs, WAccept(r)
      PROVE  LockDiscipline'
  <2>1. \/ wk' = [wk EXCEPT ![r] = "exit"] /\ lock' = IF lock = r THEN Free ELSE lock
        \/ wk' = [wk EXCEPT ![r] = "submit"] /\ lock' = lock
    BY <1>12 DEF WAccept, Go, Unlock
  <2>2. wk[r] = "accept" /\ ppc' = ppc
    BY <1>12 DEF WAccept
  <2>3. lock = r /\ (\A q \in Runs : q # r => wk[q] \notin Holding)
    BY <2>2
  <2>4. \A p \in Passes : ppc[p] \notin PassHolding
    BY <2>3
  <2> QED
    BY <2>1, <2>2, <2>3, <2>4
<1>13. ASSUME NEW r \in Runs, WStartRun(r)
      PROVE  LockDiscipline'
  BY <1>13 DEF WStartRun, Go
<1>14. ASSUME NEW r \in Runs, WSubmitted(r)
      PROVE  LockDiscipline'
  <2>1. wk[r] = "reply" /\ lock = r /\ UNCHANGED ppc
    BY <1>14 DEF WSubmitted
  <2>2. CASE wk' = [wk EXCEPT ![r] = "mark"] /\ lock' = lock
    BY <2>1, <2>2
  <2>3. CASE wk' = [wk EXCEPT ![r] = "exit"] /\ lock' = Free
    BY <2>1, <2>3
  <2> QED
    BY <1>14, <2>1, <2>2, <2>3 DEF WSubmitted, Go, Unlock
<1>15. ASSUME NEW r \in Runs, WMark(r)
      PROVE  LockDiscipline'
  BY <1>15 DEF WMark, Go
<1>16. ASSUME NEW r \in Runs, NEW kind \in {"approval.request", "other"}, NEW fresh \in BOOLEAN, WFrame(r, kind, fresh)
      PROVE  LockDiscipline'
  BY <1>16 DEF WFrame, StatusUpdateFor
<1>17. ASSUME NEW r \in Runs, WPoll(r)
      PROVE  LockDiscipline'
  BY <1>17 DEF WPoll, Go
<1>18. ASSUME NEW r \in Runs, WFinalize(r)
      PROVE  LockDiscipline'
  BY <1>18 DEF WFinalize, Go
<1>19. ASSUME NEW r \in Runs, WClear(r)
      PROVE  LockDiscipline'
  BY <1>19 DEF WClear, Go, Unlock
<1>20. ASSUME NEW r \in Runs, WExit(r)
      PROVE  LockDiscipline'
  BY <1>20 DEF WExit, Go
<1>21. ASSUME NEW p \in Passes, PBegin(p)
      PROVE  LockDiscipline'
  BY <1>21 DEF PBegin, PassDue
<1>22. ASSUME NEW p \in Passes, NEW r \in Runs, PPark(p, r)
      PROVE  LockDiscipline'
  <2>1. \/ ppc' = [ppc EXCEPT ![p] = "decide"] /\ lock' = lock
        \/ ppc' = [ppc EXCEPT ![p] = "idle"] /\ lock' = IF lock = p THEN Free ELSE lock
    BY <1>22 DEF PPark, PReturn, Unlock
  <2>2. ppc[p] = "park" /\ wk' = wk
    BY <1>22 DEF PPark
  <2>3. lock = p
    BY <2>2
  <2>4. \A q \in Passes : q # p => ppc[q] \notin PassHolding
    BY <2>3
  <2>5. \A r1 \in Runs : wk[r1] \notin Holding
    BY <2>3
  <2> QED
    BY <2>1, <2>2, <2>3, <2>4, <2>5
<1>23. ASSUME NEW p \in Passes, NEW r \in Runs, PDecide(p, r)
      PROVE  LockDiscipline'
  <2>1. ppc[p] = "decide" /\ lock = p /\ UNCHANGED wk
    BY <1>23 DEF PDecide
  <2>2. CASE ppc' = [ppc EXCEPT ![p] = "clear"] /\ lock' = lock
    BY <2>1, <2>2
  <2>3. CASE ppc' = [ppc EXCEPT ![p] = "park"] /\ lock' = lock
    BY <2>1, <2>3
  <2>4. CASE ppc' = [ppc EXCEPT ![p] = "idle"] /\ lock' = Free
    BY <2>1, <2>4
  <2> QED
    BY <1>23, <2>1, <2>2, <2>3, <2>4 DEF PDecide, PReturn, Unlock
<1>24. ASSUME NEW p \in Passes, PClear(p)
      PROVE  LockDiscipline'
  BY <1>24 DEF PClear, Unlock
<1>25. ASSUME NEW p \in Passes, PPick(p)
      PROVE  LockDiscipline'
  BY <1>25 DEF PPick
<1>26. ASSUME NEW p \in Passes, PSupervise(p)
      PROVE  LockDiscipline'
  BY <1>26 DEF PSupervise, Go, PReturn, Unlock
<1>27. CASE Drain
  BY <1>27 DEF Drain, Unlock, StartupPass
<1>28. CASE Stop
  BY <1>28 DEF Stop
<1>29. CASE Boot
  BY <1>29 DEF Boot
<1>30. ASSUME NEW r \in Runs, HWait(r)
      PROVE  LockDiscipline'
  BY <1>30 DEF HWait
<1>31. ASSUME NEW r \in Runs, HFinish(r)
      PROVE  LockDiscipline'
  BY <1>31 DEF HFinish
<1>32. CASE HForget
  BY <1>32 DEF HForget
<1>34. ASSUME NEW p \in Passes, PUnrouted(p)
      PROVE  LockDiscipline'
  BY <1>34 DEF PUnrouted
<1>35. CASE RouteChanges
  BY <1>35 DEF RouteChanges
<1>33. CASE UNCHANGED vars
  BY <1>33 DEF vars
<1> QED
  BY <1>1, <1>2, <1>3, <1>4, <1>5, <1>6, <1>7, <1>8, <1>9, <1>10, <1>11, <1>12,
     <1>13, <1>14, <1>15, <1>16, <1>17, <1>18, <1>19, <1>20, <1>21, <1>22, <1>23,
     <1>24, <1>25, <1>26, <1>27, <1>28, <1>29, <1>30, <1>31, <1>32, <1>33, <1>34, <1>35
  DEF Next, WorkerStep, Frame, PassStep, CancelStep

\* Every action keeps SubmissionInv.
LEMMA SubmissionStep ==
  TypeOK /\ SubmissionInv /\ [Next]_vars => SubmissionInv'
<1> SUFFICES ASSUME TypeOK, SubmissionInv, [Next]_vars
             PROVE  SubmissionInv'
  OBVIOUS
<1> USE NumRunsAssumption, NumPassesAssumption
<1> USE DEF TypeOK, SubmissionInv, NoRun, registryVars, workerVars, passVars,
            cancelVars, daemonVars, settingVars, hermesVars
<1>1. ASSUME NEW r \in Runs, CreateRun(r)
      PROVE  SubmissionInv'
  BY <1>1 DEF CreateRun, Go, NextRun
<1>2. ASSUME NEW q \in Runs, NEW r \in Runs, RetryRun(q, r)
      PROVE  SubmissionInv'
  BY <1>2 DEF RetryRun, Go, NextRun
<1>3. ASSUME NEW r \in Runs, SuperviseNew(r)
      PROVE  SubmissionInv'
  BY <1>3 DEF SuperviseNew, Go
<1>4. ASSUME NEW r \in Runs, CancelBegin(r)
      PROVE  SubmissionInv'
  BY <1>4 DEF CancelBegin, Note
<1>5. CASE CancelUnsubmitted
  BY <1>5 DEF CancelUnsubmitted
<1>6. CASE CancelSubmitted
  BY <1>6 DEF CancelSubmitted, Note
<1>7. ASSUME NEW r \in Runs, WLoad(r)
      PROVE  SubmissionInv'
  BY <1>7 DEF WLoad, Go
<1>8. ASSUME NEW r \in Runs, WLock(r)
      PROVE  SubmissionInv'
  BY <1>8 DEF WLock, Go
<1>9. ASSUME NEW r \in Runs, WFail(r)
      PROVE  SubmissionInv'
  BY <1>9 DEF WFail, Go, AppendUpdate
<1>10. ASSUME NEW r \in Runs, WAdmit(r)
      PROVE  SubmissionInv'
  BY <1>10 DEF WAdmit, Go
<1>11. ASSUME NEW r \in Runs, WResume(r)
      PROVE  SubmissionInv'
  BY <1>11 DEF WResume, Go, Note
<1>12. ASSUME NEW r \in Runs, WAccept(r)
      PROVE  SubmissionInv'
  BY <1>12 DEF WAccept, Go, AppendUpdate
<1>13. ASSUME NEW r \in Runs, WStartRun(r)
      PROVE  SubmissionInv'
  BY <1>13 DEF WStartRun, Go
<1>14. ASSUME NEW r \in Runs, WSubmitted(r)
      PROVE  SubmissionInv'
  BY <1>14 DEF WSubmitted, Go, AppendUpdate
<1>15. ASSUME NEW r \in Runs, WMark(r)
      PROVE  SubmissionInv'
  BY <1>15 DEF WMark, Go
<1>16. ASSUME NEW r \in Runs, NEW kind \in {"approval.request", "other"}, NEW fresh \in BOOLEAN, WFrame(r, kind, fresh)
      PROVE  SubmissionInv'
  BY <1>16 DEF WFrame, AppendUpdate, Note, StatusUpdateFor
<1>17. ASSUME NEW r \in Runs, WPoll(r)
      PROVE  SubmissionInv'
  BY <1>17 DEF WPoll, Go
<1>18. ASSUME NEW r \in Runs, WFinalize(r)
      PROVE  SubmissionInv'
  BY <1>18 DEF WFinalize, Go, AppendUpdate, Terminal
<1>19. ASSUME NEW r \in Runs, WClear(r)
      PROVE  SubmissionInv'
  BY <1>19 DEF WClear, Go
<1>20. ASSUME NEW r \in Runs, WExit(r)
      PROVE  SubmissionInv'
  BY <1>20 DEF WExit, Go
<1>21. ASSUME NEW p \in Passes, PBegin(p)
      PROVE  SubmissionInv'
  BY <1>21 DEF PBegin, PassDue
<1>22. ASSUME NEW p \in Passes, NEW r \in Runs, PPark(p, r)
      PROVE  SubmissionInv'
  BY <1>22 DEF PPark, AppendUpdate, PReturn
<1>23. ASSUME NEW p \in Passes, NEW r \in Runs, PDecide(p, r)
      PROVE  SubmissionInv'
  <2> DEFINE decided(a) == ReconcileDecision(psnap[p][r].st, Flatten(a), psnap[p][r].noted)
  <2>1. PICK a \in (IF psnap[p][r].hid THEN Answers(r) ELSE {"forgotten"}) :
          IF decided(a) # psnap[p][r].st THEN AppendUpdate(r, decided(a))
          ELSE UNCHANGED <<status, noted>>
    BY <1>23 DEF PDecide
  <2>2. decided(a) \in RunStatus
    BY DecisionType
  <2>3. /\ UNCHANGED <<hid, submits, wk, known>>
        /\ picked' = picked \/ picked' = [picked EXCEPT ![p] = NoRun]
    BY <1>23 DEF PDecide, PReturn
  <2> HIDE DEF decided
  <2>4. \A t \in Runs : status'[t] = "absent" => status[t] = "absent"
    BY <2>1, <2>2 DEF AppendUpdate, RunStatus, Active, Terminal
  <2> QED
    BY <2>3, <2>4
<1>24. ASSUME NEW p \in Passes, PClear(p)
      PROVE  SubmissionInv'
  BY <1>24 DEF PClear
<1>25. ASSUME NEW p \in Passes, PPick(p)
      PROVE  SubmissionInv'
  BY <1>25 DEF PPick, IsOldest, Resumable, ActiveRuns
<1>26. ASSUME NEW p \in Passes, PSupervise(p)
      PROVE  SubmissionInv'
  BY <1>26 DEF PSupervise, Go, PReturn, Runs
<1>27. CASE Drain
  BY <1>27 DEF Drain
<1>28. CASE Stop
  BY <1>28 DEF Stop
<1>29. CASE Boot
  BY <1>29 DEF Boot
<1>30. ASSUME NEW r \in Runs, HWait(r)
      PROVE  SubmissionInv'
  BY <1>30 DEF HWait
<1>31. ASSUME NEW r \in Runs, HFinish(r)
      PROVE  SubmissionInv'
  BY <1>31 DEF HFinish
<1>32. CASE HForget
  BY <1>32 DEF HForget
<1>34. ASSUME NEW p \in Passes, PUnrouted(p)
      PROVE  SubmissionInv'
  BY <1>34 DEF PUnrouted
<1>35. CASE RouteChanges
  BY <1>35 DEF RouteChanges
<1>33. CASE UNCHANGED vars
  BY <1>33 DEF vars
<1> QED
  BY <1>1, <1>2, <1>3, <1>4, <1>5, <1>6, <1>7, <1>8, <1>9, <1>10, <1>11, <1>12,
     <1>13, <1>14, <1>15, <1>16, <1>17, <1>18, <1>19, <1>20, <1>21, <1>22, <1>23,
     <1>24, <1>25, <1>26, <1>27, <1>28, <1>29, <1>30, <1>31, <1>32, <1>33, <1>34, <1>35
  DEF Next, WorkerStep, Frame, PassStep, CancelStep

\* Every action keeps EvidenceInv.
LEMMA EvidenceStep ==
  TypeOK /\ SubmissionInv /\ EvidenceInv /\ [Next]_vars => EvidenceInv'
<1> SUFFICES ASSUME TypeOK, SubmissionInv, EvidenceInv, [Next]_vars
             PROVE  EvidenceInv'
  OBVIOUS
<1> USE DEF TypeOK, EvidenceInv, BackendTerminal, BackendLive, registryVars,
            workerVars, passVars, cancelVars, daemonVars, settingVars, hermesVars
<1>1. ASSUME NEW r \in Runs, CreateRun(r)
      PROVE  EvidenceInv'
  BY <1>1 DEF CreateRun, Go
<1>2. ASSUME NEW q \in Runs, NEW r \in Runs, RetryRun(q, r)
      PROVE  EvidenceInv'
  BY <1>2 DEF RetryRun, Go
<1>3. ASSUME NEW r \in Runs, SuperviseNew(r)
      PROVE  EvidenceInv'
  BY <1>3 DEF SuperviseNew, Go
<1>4. ASSUME NEW r \in Runs, CancelBegin(r)
      PROVE  EvidenceInv'
  BY <1>4 DEF CancelBegin, Note
<1>5. CASE CancelUnsubmitted
  BY <1>5 DEF CancelUnsubmitted
<1>6. CASE CancelSubmitted
  BY <1>6 DEF CancelSubmitted, Note
<1>7. ASSUME NEW r \in Runs, WLoad(r)
      PROVE  EvidenceInv'
  BY <1>7 DEF WLoad, Go
<1>8. ASSUME NEW r \in Runs, WLock(r)
      PROVE  EvidenceInv'
  BY <1>8 DEF WLock, Go
<1>9. ASSUME NEW r \in Runs, WFail(r)
      PROVE  EvidenceInv'
  BY <1>9 DEF WFail, Go, AppendUpdate, ValidTransition
<1>10. ASSUME NEW r \in Runs, WAdmit(r)
      PROVE  EvidenceInv'
  BY <1>10 DEF WAdmit, Go
<1>11. ASSUME NEW r \in Runs, WResume(r)
      PROVE  EvidenceInv'
  BY <1>11 DEF WResume, Go, Note
<1>12. ASSUME NEW r \in Runs, WAccept(r)
      PROVE  EvidenceInv'
  BY <1>12 DEF WAccept, Go, AppendUpdate, ValidTransition
<1>13. ASSUME NEW r \in Runs, WStartRun(r)
      PROVE  EvidenceInv'
  BY <1>13 DEF WStartRun, Go, SubmissionInv
<1>14. ASSUME NEW r \in Runs, WSubmitted(r)
      PROVE  EvidenceInv'
  BY <1>14 DEF WSubmitted, Go, AppendUpdate, ValidTransition
<1>15. ASSUME NEW r \in Runs, WMark(r)
      PROVE  EvidenceInv'
  BY <1>15 DEF WMark, Go
<1>16. ASSUME NEW r \in Runs, NEW kind \in {"approval.request", "other"}, NEW fresh \in BOOLEAN, WFrame(r, kind, fresh)
      PROVE  EvidenceInv'
  BY <1>16 DEF WFrame, AppendUpdate, Note, StatusUpdateFor, ValidTransition
<1>17. ASSUME NEW r \in Runs, WPoll(r)
      PROVE  EvidenceInv'
  <2>1. verdict'[r] = "completed" => backend[r] = "completed"
    BY <1>17 DEF WPoll, Answers, Flatten, FromHermesStatus, Terminal
  <2>2. \A t \in Runs : t # r => verdict'[t] = verdict[t] /\ wk'[t] = wk[t]
    BY <1>17 DEF WPoll, Go
  <2> QED
    BY <1>17, <2>1, <2>2 DEF WPoll
<1>18. ASSUME NEW r \in Runs, WFinalize(r)
      PROVE  EvidenceInv'
  BY <1>18 DEF WFinalize, Go, AppendUpdate, ValidTransition
<1>19. ASSUME NEW r \in Runs, WClear(r)
      PROVE  EvidenceInv'
  BY <1>19 DEF WClear, Go
<1>20. ASSUME NEW r \in Runs, WExit(r)
      PROVE  EvidenceInv'
  BY <1>20 DEF WExit, Go
<1>21. ASSUME NEW p \in Passes, PBegin(p)
      PROVE  EvidenceInv'
  BY <1>21 DEF PBegin, PassDue
<1>22. ASSUME NEW p \in Passes, NEW r \in Runs, PPark(p, r)
      PROVE  EvidenceInv'
  BY <1>22 DEF PPark, AppendUpdate, PReturn, ValidTransition
<1>23. ASSUME NEW p \in Passes, NEW r \in Runs, PDecide(p, r)
      PROVE  EvidenceInv'
  <2> DEFINE decided(a) == ReconcileDecision(psnap[p][r].st, Flatten(a), psnap[p][r].noted)
  <2>1. PICK a \in (IF psnap[p][r].hid THEN Answers(r) ELSE {"forgotten"}) :
          IF decided(a) # psnap[p][r].st THEN AppendUpdate(r, decided(a))
          ELSE UNCHANGED <<status, noted>>
    BY <1>23 DEF PDecide
  <2>2. decided(a) \in RunStatus
    BY DecisionType
  <2>3. decided(a) = "completed" => final[r] = "completed"
    BY <2>1 DEF ReconcileDecision, Flatten, FromHermesStatus, Answers
  <2> HIDE DEF decided
  <2>4. \A t \in Runs : status'[t] = "completed" => status[t] = "completed" \/ final[t] = "completed"
    BY <2>1, <2>3 DEF AppendUpdate
  <2> QED
    BY <1>23, <2>4 DEF PDecide
<1>24. ASSUME NEW p \in Passes, PClear(p)
      PROVE  EvidenceInv'
  BY <1>24 DEF PClear
<1>25. ASSUME NEW p \in Passes, PPick(p)
      PROVE  EvidenceInv'
  BY <1>25 DEF PPick
<1>26. ASSUME NEW p \in Passes, PSupervise(p)
      PROVE  EvidenceInv'
  BY <1>26 DEF PSupervise, Go, PReturn
<1>27. CASE Drain
  BY <1>27 DEF Drain
<1>28. CASE Stop
  BY <1>28 DEF Stop
<1>29. CASE Boot
  BY <1>29 DEF Boot
<1>30. ASSUME NEW r \in Runs, HWait(r)
      PROVE  EvidenceInv'
  BY <1>30 DEF HWait
<1>31. ASSUME NEW r \in Runs, HFinish(r)
      PROVE  EvidenceInv'
  BY <1>31 DEF HFinish
<1>32. CASE HForget
  BY <1>32 DEF HForget
<1>34. ASSUME NEW p \in Passes, PUnrouted(p)
      PROVE  EvidenceInv'
  BY <1>34 DEF PUnrouted
<1>35. CASE RouteChanges
  BY <1>35 DEF RouteChanges
<1>33. CASE UNCHANGED vars
  BY <1>33 DEF vars
<1> QED
  BY <1>1, <1>2, <1>3, <1>4, <1>5, <1>6, <1>7, <1>8, <1>9, <1>10, <1>11, <1>12,
     <1>13, <1>14, <1>15, <1>16, <1>17, <1>18, <1>19, <1>20, <1>21, <1>22, <1>23,
     <1>24, <1>25, <1>26, <1>27, <1>28, <1>29, <1>30, <1>31, <1>32, <1>33, <1>34, <1>35
  DEF Next, WorkerStep, Frame, PassStep, CancelStep

\* Every action keeps RetryInv.
LEMMA RetryStep ==
  TypeOK /\ RetryInv /\ [Next]_vars => RetryInv'
<1> SUFFICES ASSUME TypeOK, RetryInv, [Next]_vars
             PROVE  RetryInv'
  OBVIOUS
<1> USE NumRunsAssumption
<1> USE DEF TypeOK, RetryInv, IsRetryable, NoRun, registryVars, workerVars, passVars,
            cancelVars, daemonVars, settingVars, hermesVars
<1>1. ASSUME NEW r \in Runs, CreateRun(r)
      PROVE  RetryInv'
  BY <1>1 DEF CreateRun, Go, NextRun
<1>2. ASSUME NEW q \in Runs, NEW r \in Runs, RetryRun(q, r)
      PROVE  RetryInv'
  BY <1>2 DEF RetryRun, Go, NextRun
<1>3. ASSUME NEW r \in Runs, SuperviseNew(r)
      PROVE  RetryInv'
  BY <1>3 DEF SuperviseNew, Go
<1>4. ASSUME NEW r \in Runs, CancelBegin(r)
      PROVE  RetryInv'
  BY <1>4 DEF CancelBegin, Note
<1>5. CASE CancelUnsubmitted
  BY <1>5 DEF CancelUnsubmitted, ValidTransition
<1>6. CASE CancelSubmitted
  BY <1>6 DEF CancelSubmitted, Note
<1>7. ASSUME NEW r \in Runs, WLoad(r)
      PROVE  RetryInv'
  BY <1>7 DEF WLoad, Go
<1>8. ASSUME NEW r \in Runs, WLock(r)
      PROVE  RetryInv'
  BY <1>8 DEF WLock, Go
<1>9. ASSUME NEW r \in Runs, WFail(r)
      PROVE  RetryInv'
  BY <1>9 DEF WFail, Go, AppendUpdate, ValidTransition
<1>10. ASSUME NEW r \in Runs, WAdmit(r)
      PROVE  RetryInv'
  BY <1>10 DEF WAdmit, Go
<1>11. ASSUME NEW r \in Runs, WResume(r)
      PROVE  RetryInv'
  BY <1>11 DEF WResume, Go, Note
<1>12. ASSUME NEW r \in Runs, WAccept(r)
      PROVE  RetryInv'
  BY <1>12 DEF WAccept, Go, AppendUpdate, ValidTransition
<1>13. ASSUME NEW r \in Runs, WStartRun(r)
      PROVE  RetryInv'
  BY <1>13 DEF WStartRun, Go
<1>14. ASSUME NEW r \in Runs, WSubmitted(r)
      PROVE  RetryInv'
  BY <1>14 DEF WSubmitted, Go, AppendUpdate, ValidTransition
<1>15. ASSUME NEW r \in Runs, WMark(r)
      PROVE  RetryInv'
  BY <1>15 DEF WMark, Go
<1>16. ASSUME NEW r \in Runs, NEW kind \in {"approval.request", "other"}, NEW fresh \in BOOLEAN, WFrame(r, kind, fresh)
      PROVE  RetryInv'
  BY <1>16 DEF WFrame, AppendUpdate, Note, StatusUpdateFor, ValidTransition
<1>17. ASSUME NEW r \in Runs, WPoll(r)
      PROVE  RetryInv'
  BY <1>17 DEF WPoll, Go
<1>18. ASSUME NEW r \in Runs, WFinalize(r)
      PROVE  RetryInv'
  BY <1>18 DEF WFinalize, Go, AppendUpdate, ValidTransition, Terminal
<1>19. ASSUME NEW r \in Runs, WClear(r)
      PROVE  RetryInv'
  BY <1>19 DEF WClear, Go
<1>20. ASSUME NEW r \in Runs, WExit(r)
      PROVE  RetryInv'
  BY <1>20 DEF WExit, Go
<1>21. ASSUME NEW p \in Passes, PBegin(p)
      PROVE  RetryInv'
  BY <1>21 DEF PBegin, PassDue
<1>22. ASSUME NEW p \in Passes, NEW r \in Runs, PPark(p, r)
      PROVE  RetryInv'
  BY <1>22 DEF PPark, AppendUpdate, PReturn, ValidTransition
<1>23. ASSUME NEW p \in Passes, NEW r \in Runs, PDecide(p, r)
      PROVE  RetryInv'
  <2> DEFINE decided(a) == ReconcileDecision(psnap[p][r].st, Flatten(a), psnap[p][r].noted)
  <2>1. PICK a \in (IF psnap[p][r].hid THEN Answers(r) ELSE {"forgotten"}) :
          IF decided(a) # psnap[p][r].st THEN AppendUpdate(r, decided(a))
          ELSE UNCHANGED <<status, noted>>
    BY <1>23 DEF PDecide
  <2>2. decided(a) \in RunStatus
    BY DecisionType
  <2> HIDE DEF decided
  <2>3. \A t \in Runs : status'[t] = "absent" => status[t] = "absent"
    BY <2>1, <2>2 DEF AppendUpdate, RunStatus, Active, Terminal
  <2>4. \A t \in Runs : IsRetryable(status[t]) => IsRetryable(status'[t])
    BY <2>1 DEF AppendUpdate, ValidTransition
  <2> QED
    BY <1>23, <2>3, <2>4 DEF PDecide, Runs
<1>24. ASSUME NEW p \in Passes, PClear(p)
      PROVE  RetryInv'
  BY <1>24 DEF PClear
<1>25. ASSUME NEW p \in Passes, PPick(p)
      PROVE  RetryInv'
  BY <1>25 DEF PPick
<1>26. ASSUME NEW p \in Passes, PSupervise(p)
      PROVE  RetryInv'
  BY <1>26 DEF PSupervise, Go, PReturn
<1>27. CASE Drain
  BY <1>27 DEF Drain
<1>28. CASE Stop
  BY <1>28 DEF Stop
<1>29. CASE Boot
  BY <1>29 DEF Boot
<1>30. ASSUME NEW r \in Runs, HWait(r)
      PROVE  RetryInv'
  BY <1>30 DEF HWait
<1>31. ASSUME NEW r \in Runs, HFinish(r)
      PROVE  RetryInv'
  BY <1>31 DEF HFinish
<1>32. CASE HForget
  BY <1>32 DEF HForget
<1>34. ASSUME NEW p \in Passes, PUnrouted(p)
      PROVE  RetryInv'
  BY <1>34 DEF PUnrouted
<1>35. CASE RouteChanges
  BY <1>35 DEF RouteChanges
<1>33. CASE UNCHANGED vars
  BY <1>33 DEF vars
<1> QED
  BY <1>1, <1>2, <1>3, <1>4, <1>5, <1>6, <1>7, <1>8, <1>9, <1>10, <1>11, <1>12,
     <1>13, <1>14, <1>15, <1>16, <1>17, <1>18, <1>19, <1>20, <1>21, <1>22, <1>23,
     <1>24, <1>25, <1>26, <1>27, <1>28, <1>29, <1>30, <1>31, <1>32, <1>33, <1>34, <1>35
  DEF Next, WorkerStep, Frame, PassStep, CancelStep

\* No action moves a settled run.
LEMMA TerminalStep ==
  TypeOK /\ [Next]_vars => \A t \in Runs : status[t] \in Terminal => status'[t] = status[t]
<1> SUFFICES ASSUME TypeOK, [Next]_vars
             PROVE  \A t \in Runs : status[t] \in Terminal => status'[t] = status[t]
  OBVIOUS
<1> USE DEF TypeOK, registryVars, workerVars, passVars, cancelVars, daemonVars, settingVars,
            hermesVars
<1>1. ASSUME NEW r \in Runs, CreateRun(r)
      PROVE  \A t \in Runs : status[t] \in Terminal => status'[t] = status[t]
  BY <1>1 DEF CreateRun, NextRun, Terminal
<1>2. ASSUME NEW q \in Runs, NEW r \in Runs, RetryRun(q, r)
      PROVE  \A t \in Runs : status[t] \in Terminal => status'[t] = status[t]
  BY <1>2 DEF RetryRun, NextRun, Terminal
<1>3. ASSUME NEW r \in Runs, SuperviseNew(r)
      PROVE  \A t \in Runs : status[t] \in Terminal => status'[t] = status[t]
  BY <1>3 DEF SuperviseNew
<1>4. ASSUME NEW r \in Runs, CancelBegin(r)
      PROVE  \A t \in Runs : status[t] \in Terminal => status'[t] = status[t]
  BY <1>4 DEF CancelBegin
<1>5. CASE CancelUnsubmitted
  BY <1>5 DEF CancelUnsubmitted, ValidTransition, Terminal
<1>6. CASE CancelSubmitted
  BY <1>6 DEF CancelSubmitted
<1>7. ASSUME NEW r \in Runs, WLoad(r)
      PROVE  \A t \in Runs : status[t] \in Terminal => status'[t] = status[t]
  BY <1>7 DEF WLoad
<1>8. ASSUME NEW r \in Runs, WLock(r)
      PROVE  \A t \in Runs : status[t] \in Terminal => status'[t] = status[t]
  BY <1>8 DEF WLock
<1>9. ASSUME NEW r \in Runs, WFail(r)
      PROVE  \A t \in Runs : status[t] \in Terminal => status'[t] = status[t]
  BY <1>9 DEF WFail, AppendUpdate, ValidTransition, Terminal
<1>10. ASSUME NEW r \in Runs, WAdmit(r)
      PROVE  \A t \in Runs : status[t] \in Terminal => status'[t] = status[t]
  BY <1>10 DEF WAdmit
<1>11. ASSUME NEW r \in Runs, WResume(r)
      PROVE  \A t \in Runs : status[t] \in Terminal => status'[t] = status[t]
  BY <1>11 DEF WResume
<1>12. ASSUME NEW r \in Runs, WAccept(r)
      PROVE  \A t \in Runs : status[t] \in Terminal => status'[t] = status[t]
  BY <1>12 DEF WAccept, AppendUpdate, ValidTransition, Terminal
<1>13. ASSUME NEW r \in Runs, WStartRun(r)
      PROVE  \A t \in Runs : status[t] \in Terminal => status'[t] = status[t]
  BY <1>13 DEF WStartRun
<1>14. ASSUME NEW r \in Runs, WSubmitted(r)
      PROVE  \A t \in Runs : status[t] \in Terminal => status'[t] = status[t]
  BY <1>14 DEF WSubmitted, AppendUpdate, ValidTransition, Terminal
<1>15. ASSUME NEW r \in Runs, WMark(r)
      PROVE  \A t \in Runs : status[t] \in Terminal => status'[t] = status[t]
  BY <1>15 DEF WMark
<1>16. ASSUME NEW r \in Runs, NEW kind \in {"approval.request", "other"}, NEW fresh \in BOOLEAN, WFrame(r, kind, fresh)
      PROVE  \A t \in Runs : status[t] \in Terminal => status'[t] = status[t]
  BY <1>16 DEF WFrame, AppendUpdate, StatusUpdateFor, ValidTransition, Terminal
<1>17. ASSUME NEW r \in Runs, WPoll(r)
      PROVE  \A t \in Runs : status[t] \in Terminal => status'[t] = status[t]
  BY <1>17 DEF WPoll
<1>18. ASSUME NEW r \in Runs, WFinalize(r)
      PROVE  \A t \in Runs : status[t] \in Terminal => status'[t] = status[t]
  BY <1>18 DEF WFinalize, AppendUpdate, ValidTransition, Terminal
<1>19. ASSUME NEW r \in Runs, WClear(r)
      PROVE  \A t \in Runs : status[t] \in Terminal => status'[t] = status[t]
  BY <1>19 DEF WClear
<1>20. ASSUME NEW r \in Runs, WExit(r)
      PROVE  \A t \in Runs : status[t] \in Terminal => status'[t] = status[t]
  BY <1>20 DEF WExit
<1>21. ASSUME NEW p \in Passes, PBegin(p)
      PROVE  \A t \in Runs : status[t] \in Terminal => status'[t] = status[t]
  BY <1>21 DEF PBegin, PassDue
<1>22. ASSUME NEW p \in Passes, NEW r \in Runs, PPark(p, r)
      PROVE  \A t \in Runs : status[t] \in Terminal => status'[t] = status[t]
  BY <1>22 DEF PPark, AppendUpdate, PReturn, ValidTransition, Terminal
<1>23. ASSUME NEW p \in Passes, NEW r \in Runs, PDecide(p, r)
      PROVE  \A t \in Runs : status[t] \in Terminal => status'[t] = status[t]
  BY <1>23 DEF PDecide, AppendUpdate, PReturn, ValidTransition, Terminal
<1>24. ASSUME NEW p \in Passes, PClear(p)
      PROVE  \A t \in Runs : status[t] \in Terminal => status'[t] = status[t]
  BY <1>24 DEF PClear
<1>25. ASSUME NEW p \in Passes, PPick(p)
      PROVE  \A t \in Runs : status[t] \in Terminal => status'[t] = status[t]
  BY <1>25 DEF PPick
<1>26. ASSUME NEW p \in Passes, PSupervise(p)
      PROVE  \A t \in Runs : status[t] \in Terminal => status'[t] = status[t]
  BY <1>26 DEF PSupervise, PReturn
<1>27. CASE Drain
  BY <1>27 DEF Drain
<1>28. CASE Stop
  BY <1>28 DEF Stop
<1>29. CASE Boot
  BY <1>29 DEF Boot
<1>30. ASSUME NEW r \in Runs, HWait(r)
      PROVE  \A t \in Runs : status[t] \in Terminal => status'[t] = status[t]
  BY <1>30 DEF HWait
<1>31. ASSUME NEW r \in Runs, HFinish(r)
      PROVE  \A t \in Runs : status[t] \in Terminal => status'[t] = status[t]
  BY <1>31 DEF HFinish
<1>32. CASE HForget
  BY <1>32 DEF HForget
<1>34. ASSUME NEW p \in Passes, PUnrouted(p)
      PROVE  \A t \in Runs : status[t] \in Terminal => status'[t] = status[t]
  BY <1>34 DEF PUnrouted
<1>35. CASE RouteChanges
  BY <1>35 DEF RouteChanges
<1>33. CASE UNCHANGED vars
  BY <1>33 DEF vars
<1> QED
  BY <1>1, <1>2, <1>3, <1>4, <1>5, <1>6, <1>7, <1>8, <1>9, <1>10, <1>11, <1>12,
     <1>13, <1>14, <1>15, <1>16, <1>17, <1>18, <1>19, <1>20, <1>21, <1>22, <1>23,
     <1>24, <1>25, <1>26, <1>27, <1>28, <1>29, <1>30, <1>31, <1>32, <1>33, <1>34, <1>35
  DEF Next, WorkerStep, Frame, PassStep, CancelStep

\* The initial state: an empty registry and a daemon that is starting.
LEMMA InitIInv == Init => IInv
<1> SUFFICES ASSUME Init PROVE IInv
  OBVIOUS
<1> USE NumRunsAssumption, NumPassesAssumption
<1>1. TypeOK
  BY BlankType DEF Init, TypeOK, Terminal, BackendStatus, WorkerPC, PassPC, NoRun, Free
<1>2. LockDiscipline
  BY DEF Init, LockDiscipline, Holding, PassHolding
<1>3. SubmissionInv
  BY DEF Init, SubmissionInv
<1>4. EvidenceInv
  BY DEF Init, EvidenceInv, BackendTerminal, BackendLive
<1>5. RetryInv
  BY DEF Init, RetryInv
<1> QED
  BY <1>1, <1>2, <1>3, <1>4, <1>5 DEF IInv

\* The inductive invariant holds in every reachable state.
THEOREM Invariance == Spec => []IInv
<1>1. Init => IInv
  BY InitIInv
<1>2. IInv /\ [Next]_vars => IInv'
  BY TypeOKStep, LockStep, SubmissionStep, EvidenceStep, RetryStep DEF IInv
<1> QED
  BY <1>1, <1>2, PTL DEF Spec

\* Every row, file and task location keeps its type, whatever the hazards.
THEOREM TypeCorrect == Spec => []TypeOK
<1>1. IInv => TypeOK
  BY DEF IInv
<1> QED
  BY <1>1, Invariance, PTL

\* At most one task works on the project at a time, and it holds the lock: no way
\* out of execute_run or reconcile_project, nor the death of the process, leaves
\* two tasks in the guarded section.
THEOREM MutualExclusion == Spec => []LockDiscipline
<1>1. IInv => LockDiscipline
  BY DEF IInv
<1> QED
  BY <1>1, Invariance, PTL

\* No run is ever handed to Hermes twice: not by a restart at any point, not by
\* overlapping passes, not by a re-attached worker.
THEOREM SubmittedOnce == Spec => []SubmittedAtMostOnce
<1>1. IInv => SubmittedAtMostOnce
  BY DEF IInv, SubmissionInv, SubmittedAtMostOnce
<1> QED
  BY <1>1, Invariance, PTL

\* No run is recorded as completed unless Hermes completed it.
THEOREM NoInventedCompletion == Spec => []CompletedOnEvidence
<1>1. IInv => CompletedOnEvidence
  BY DEF IInv, EvidenceInv, CompletedOnEvidence
<1> QED
  BY <1>1, Invariance, PTL

\* Only runs of undetermined outcome are ever replaced by a retry.
THEOREM RetriesAreUndetermined == Spec => []RetryOnlyUndetermined
<1>1. IInv => RetryOnlyUndetermined
  BY DEF IInv, RetryInv, RetryOnlyUndetermined
<1> QED
  BY <1>1, Invariance, PTL

\* A settled run never changes its status again.
THEOREM TerminalForever == Spec => TerminalIsFinal
<1>1. TypeOK /\ [Next]_vars => [\A r \in Runs : status[r] \in Terminal => status'[r] = status[r]]_vars
  BY TerminalStep
<1> QED
  BY <1>1, TypeCorrect, PTL DEF Spec, TerminalIsFinal

-----------------------------------------------------------------------------
(* The daemon implements the run life cycle.                               *)

\* A step that moves at most one row, from an active status to a status, and
\* leaves Hermes and the retry links alone.
RowMove ==
  /\ \E t \in Runs :
       /\ \A u \in Runs \ {t} : status'[u] = status[u]
       /\ status'[t] = status[t] \/ (status[t] \in Active /\ status'[t] \in RunStatus)
  /\ UNCHANGED <<submits, final, retryOf>>

\* append_event moves one row that was not settled, or none.
LEMMA UpdateMoves ==
  ASSUME TypeOK, NEW t \in Runs, NEW s \in RunStatus, AppendUpdate(t, s),
         UNCHANGED <<submits, final, retryOf>>
  PROVE  RowMove
  BY DEF TypeOK, AppendUpdate, ValidTransition, RowMove, RunStatus, Active, Terminal

\* Moving a row is settling an open record, or nothing the life cycle sees: a
\* row that becomes completed is backed by what Hermes reached.
LEMMA MoveSettles ==
  ASSUME IInv, IInv', RowMove
  PROVE  [Lifecycle!Next]_Lifecycle!lifecycle
<1>1. PICK t \in Runs :
        /\ \A u \in Runs \ {t} : status'[u] = status[u]
        /\ status'[t] = status[t] \/ (status[t] \in Active /\ status'[t] \in RunStatus)
  BY DEF RowMove
<1>2. UNCHANGED <<submits, final, retryOf>>
  BY DEF RowMove
<1>3. CASE Record' = Record
  BY <1>2, <1>3 DEF Lifecycle!lifecycle
<1>4. CASE Record' # Record
  <2>1. status[t] \in Active /\ status'[t] \in Terminal
    BY <1>1, <1>4 DEF Record, RunStatus, Active, Terminal
  <2>2. Record' = [Record EXCEPT ![t] = status'[t]] /\ Record[t] = "open"
    BY <1>1, <2>1 DEF Record, Active, Terminal
  <2>3. status'[t] = "completed" => final[t] = "completed"
    BY <1>2 DEF IInv, EvidenceInv
  <2>4. status'[t] \in Lifecycle!Results \union Lifecycle!Undetermined
    BY <2>1 DEF Terminal, Lifecycle!Results, Lifecycle!Undetermined
  <2>5. Lifecycle!Settle(t, status'[t])
    BY <1>2, <2>2, <2>3 DEF Lifecycle!Settle
  <2> QED
    BY <2>4, <2>5 DEF Lifecycle!Next
<1> QED
  BY <1>3, <1>4

\* A step that leaves the rows, Hermes' ends and the links alone is not seen.
LEMMA Unseen ==
  ASSUME UNCHANGED <<status, submits, final, retryOf>>
  PROVE  [Lifecycle!Next]_Lifecycle!lifecycle
<1>1. Record' = Record
  BY DEF Record
<1> QED
  BY <1>1 DEF Lifecycle!lifecycle

\* A row that appears is a record that opens.
LEMMA RowOpens ==
  ASSUME TypeOK, NEW r \in Runs, status[r] = "absent",
         status' = [status EXCEPT ![r] = "created"]
  PROVE  Lifecycle!Open(r)
<1>1. Record[r] = "none" /\ Record' = [Record EXCEPT ![r] = "open"]
  BY DEF TypeOK, Record, Active
<1> QED
  BY <1>1 DEF Lifecycle!Open

\* Every action is a step of the life cycle or is not seen by it.
LEMMA LifecycleStep ==
  IInv /\ IInv' /\ [Next]_vars => [Lifecycle!Next]_Lifecycle!lifecycle
<1> SUFFICES ASSUME IInv, IInv', [Next]_vars
             PROVE  [Lifecycle!Next]_Lifecycle!lifecycle
  OBVIOUS
<1> USE DEF registryVars, workerVars, passVars, cancelVars, daemonVars, settingVars, hermesVars
<1>0. TypeOK
  BY DEF IInv
<1>1. ASSUME NEW r \in Runs, CreateRun(r)
      PROVE  [Lifecycle!Next]_Lifecycle!lifecycle
  <2>1. Lifecycle!Open(r)
    BY <1>0, <1>1, RowOpens DEF CreateRun, NextRun
  <2> QED
    BY <1>1, <2>1 DEF CreateRun, Lifecycle!Next, Lifecycle!Create
<1>2. ASSUME NEW q \in Runs, NEW r \in Runs, RetryRun(q, r)
      PROVE  [Lifecycle!Next]_Lifecycle!lifecycle
  <2>1. Lifecycle!Open(r)
    BY <1>0, <1>2, RowOpens DEF RetryRun, NextRun
  <2>2. Record[q] \in Lifecycle!Undetermined
    BY <1>0, <1>2 DEF RetryRun, IsRetryable, Record, Active, Lifecycle!Undetermined
  <2>3. Lifecycle!Retry(q, r)
    BY <1>2, <2>1, <2>2 DEF RetryRun, Lifecycle!Retry
  <2> QED
    BY <2>3 DEF Lifecycle!Next
<1>3. ASSUME NEW r \in Runs, SuperviseNew(r)
      PROVE  [Lifecycle!Next]_Lifecycle!lifecycle
  BY <1>3, Unseen DEF SuperviseNew
<1>4. ASSUME NEW r \in Runs, CancelBegin(r)
      PROVE  [Lifecycle!Next]_Lifecycle!lifecycle
  BY <1>4, Unseen DEF CancelBegin
<1>5. CASE CancelUnsubmitted
  <2>1. RowMove
    BY <1>0, <1>5 DEF TypeOK, CancelUnsubmitted, ValidTransition, RowMove, RunStatus, Active, Terminal
  <2> QED
    BY <2>1, MoveSettles
<1>6. CASE CancelSubmitted
  BY <1>6, Unseen DEF CancelSubmitted
<1>7. ASSUME NEW r \in Runs, WLoad(r)
      PROVE  [Lifecycle!Next]_Lifecycle!lifecycle
  BY <1>7, Unseen DEF WLoad
<1>8. ASSUME NEW r \in Runs, WLock(r)
      PROVE  [Lifecycle!Next]_Lifecycle!lifecycle
  BY <1>8, Unseen DEF WLock
<1>9. ASSUME NEW r \in Runs, WFail(r)
      PROVE  [Lifecycle!Next]_Lifecycle!lifecycle
  <2>1. RowMove
    BY <1>0, <1>9, UpdateMoves DEF WFail, RunStatus, Active, Terminal
  <2> QED
    BY <2>1, MoveSettles
<1>10. ASSUME NEW r \in Runs, WAdmit(r)
      PROVE  [Lifecycle!Next]_Lifecycle!lifecycle
  BY <1>10, Unseen DEF WAdmit
<1>11. ASSUME NEW r \in Runs, WResume(r)
      PROVE  [Lifecycle!Next]_Lifecycle!lifecycle
  BY <1>11, Unseen DEF WResume
<1>12. ASSUME NEW r \in Runs, WAccept(r)
      PROVE  [Lifecycle!Next]_Lifecycle!lifecycle
  <2>1. RowMove
    BY <1>0, <1>12, UpdateMoves DEF WAccept, RunStatus, Active, Terminal
  <2> QED
    BY <2>1, MoveSettles
<1>13. ASSUME NEW r \in Runs, WStartRun(r)
      PROVE  [Lifecycle!Next]_Lifecycle!lifecycle
  <2>1. CASE submits' = submits
    BY <1>13, <2>1, Unseen DEF WStartRun
  <2>2. CASE submits' = [submits EXCEPT ![r] = @ + 1]
    <3>1. submits[r] = 0 /\ status[r] # "absent"
      BY <1>13 DEF WStartRun, IInv, SubmissionInv
    <3>2. submits' = [submits EXCEPT ![r] = 1]
      BY <1>0, <2>2, <3>1 DEF TypeOK
    <3>3. Record' = Record /\ Record[r] # "none"
      BY <1>0, <1>13, <3>1 DEF TypeOK, WStartRun, Record, RunStatus, Terminal
    <3>4. Lifecycle!HandOver(r)
      BY <1>13, <3>1, <3>2, <3>3 DEF WStartRun, Lifecycle!HandOver
    <3> QED
      BY <3>4 DEF Lifecycle!Next
  <2> QED
    BY <1>13, <2>1, <2>2 DEF WStartRun
<1>14. ASSUME NEW r \in Runs, WSubmitted(r)
      PROVE  [Lifecycle!Next]_Lifecycle!lifecycle
  <2>1. RowMove
    BY <1>0, <1>14, UpdateMoves DEF WSubmitted, RunStatus, Active, Terminal
  <2> QED
    BY <2>1, MoveSettles
<1>15. ASSUME NEW r \in Runs, WMark(r)
      PROVE  [Lifecycle!Next]_Lifecycle!lifecycle
  BY <1>15, Unseen DEF WMark
<1>16. ASSUME NEW r \in Runs, NEW kind \in {"approval.request", "other"}, NEW fresh \in BOOLEAN, WFrame(r, kind, fresh)
      PROVE  [Lifecycle!Next]_Lifecycle!lifecycle
  <2>1. CASE UNCHANGED status
    BY <1>16, <2>1, Unseen DEF WFrame
  <2>2. CASE AppendUpdate(r, StatusUpdateFor(kind, obs[r])) /\ StatusUpdateFor(kind, obs[r]) # "nothing"
    <3>1. StatusUpdateFor(kind, obs[r]) \in RunStatus
      BY <2>2 DEF StatusUpdateFor, RunStatus, Active
    <3>2. RowMove
      BY <1>0, <1>16, <2>2, <3>1, UpdateMoves DEF WFrame
    <3> QED
      BY <3>2, MoveSettles
  <2> QED
    BY <1>16, <2>1, <2>2 DEF WFrame
<1>17. ASSUME NEW r \in Runs, WPoll(r)
      PROVE  [Lifecycle!Next]_Lifecycle!lifecycle
  BY <1>17, Unseen DEF WPoll
<1>18. ASSUME NEW r \in Runs, WFinalize(r)
      PROVE  [Lifecycle!Next]_Lifecycle!lifecycle
  <2>1. verdict[r] \in RunStatus
    BY <1>0 DEF TypeOK, RunStatus
  <2>2. RowMove
    BY <1>0, <1>18, <2>1, UpdateMoves DEF WFinalize
  <2> QED
    BY <2>2, MoveSettles
<1>19. ASSUME NEW r \in Runs, WClear(r)
      PROVE  [Lifecycle!Next]_Lifecycle!lifecycle
  BY <1>19, Unseen DEF WClear
<1>20. ASSUME NEW r \in Runs, WExit(r)
      PROVE  [Lifecycle!Next]_Lifecycle!lifecycle
  BY <1>20, Unseen DEF WExit
<1>21. ASSUME NEW p \in Passes, PBegin(p)
      PROVE  [Lifecycle!Next]_Lifecycle!lifecycle
  BY <1>21, Unseen DEF PBegin, PassDue
<1>22. ASSUME NEW p \in Passes, NEW r \in Runs, PPark(p, r)
      PROVE  [Lifecycle!Next]_Lifecycle!lifecycle
  <2>1. CASE UNCHANGED status
    BY <1>22, <2>1, Unseen DEF PPark
  <2>2. CASE AppendUpdate(r, "recovering")
    <3>1. RowMove
      BY <1>0, <1>22, <2>2, UpdateMoves DEF PPark, RunStatus, Active
    <3> QED
      BY <3>1, MoveSettles
  <2> QED
    BY <1>22, <2>1, <2>2 DEF PPark
<1>23. ASSUME NEW p \in Passes, NEW r \in Runs, PDecide(p, r)
      PROVE  [Lifecycle!Next]_Lifecycle!lifecycle
  <2>1. CASE UNCHANGED status
    BY <1>23, <2>1, Unseen DEF PDecide
  <2>2. CASE \E a : AppendUpdate(r, ReconcileDecision(psnap[p][r].st, Flatten(a), psnap[p][r].noted))
    <3>1. PICK a : AppendUpdate(r, ReconcileDecision(psnap[p][r].st, Flatten(a), psnap[p][r].noted))
      BY <2>2
    <3>2. RowMove
      BY <1>0, <1>23, <3>1, DecisionType, UpdateMoves DEF PDecide
    <3> QED
      BY <3>2, MoveSettles
  <2> QED
    BY <1>23, <2>1, <2>2 DEF PDecide
<1>24. ASSUME NEW p \in Passes, PClear(p)
      PROVE  [Lifecycle!Next]_Lifecycle!lifecycle
  BY <1>24, Unseen DEF PClear
<1>25. ASSUME NEW p \in Passes, PPick(p)
      PROVE  [Lifecycle!Next]_Lifecycle!lifecycle
  BY <1>25, Unseen DEF PPick
<1>26. ASSUME NEW p \in Passes, PSupervise(p)
      PROVE  [Lifecycle!Next]_Lifecycle!lifecycle
  BY <1>26, Unseen DEF PSupervise
<1>27. CASE Drain
  BY <1>27, Unseen DEF Drain
<1>28. CASE Stop
  BY <1>28, Unseen DEF Stop
<1>29. CASE Boot
  BY <1>29, Unseen DEF Boot
<1>30. ASSUME NEW r \in Runs, HWait(r)
      PROVE  [Lifecycle!Next]_Lifecycle!lifecycle
  BY <1>30, Unseen DEF HWait
<1>31. ASSUME NEW r \in Runs, HFinish(r)
      PROVE  [Lifecycle!Next]_Lifecycle!lifecycle
  <2>1. PICK s \in BackendTerminal : final' = [final EXCEPT ![r] = s]
    BY <1>31 DEF HFinish
  <2>2. submits[r] = 1 /\ final[r] = "none"
    <3>1. backend[r] # "none" /\ final[r] = "none"
      BY <1>31 DEF HFinish, IInv, EvidenceInv, BackendLive
    <3>2. submits[r] # 0 /\ submits[r] <= 1 /\ submits[r] \in Nat
      BY <1>0, <3>1 DEF IInv, TypeOK, SubmissionInv, EvidenceInv
    <3> QED
      BY <3>1, <3>2
  <2>3. Record' = Record
    BY <1>31 DEF HFinish, Record
  <2>4. Lifecycle!Finish(r, s)
    BY <1>31, <2>1, <2>2, <2>3 DEF HFinish, Lifecycle!Finish
  <2> QED
    BY <2>1, <2>4 DEF Lifecycle!Next, Lifecycle!Results, BackendTerminal
<1>32. CASE HForget
  BY <1>32, Unseen DEF HForget
<1>34. ASSUME NEW p \in Passes, PUnrouted(p)
      PROVE  [Lifecycle!Next]_Lifecycle!lifecycle
  BY <1>34, Unseen DEF PUnrouted
<1>35. CASE RouteChanges
  BY <1>35, Unseen DEF RouteChanges
<1>33. CASE UNCHANGED vars
  BY <1>33, Unseen DEF vars
<1> QED
  BY <1>1, <1>2, <1>3, <1>4, <1>5, <1>6, <1>7, <1>8, <1>9, <1>10, <1>11, <1>12,
     <1>13, <1>14, <1>15, <1>16, <1>17, <1>18, <1>19, <1>20, <1>21, <1>22, <1>23,
     <1>24, <1>25, <1>26, <1>27, <1>28, <1>29, <1>30, <1>31, <1>32, <1>33, <1>34, <1>35
  DEF Next, WorkerStep, Frame, PassStep, CancelStep

\* The daemon, its workers, the overlapping passes and the registry implement
\* the run life cycle, for any number of runs, restarts and hazards: however
\* they interleave, a run is handed over once, settled once, completed only on
\* Hermes' word and replaced only when its outcome is unknown.
THEOREM Implementation == Spec => ImplementsLifecycle
<1>1. Init => Lifecycle!Init
  BY DEF Init, Lifecycle!Init, Record
<1>2. IInv /\ IInv' /\ [Next]_vars => [Lifecycle!Next]_Lifecycle!lifecycle
  BY LifecycleStep
<1> QED
  BY <1>1, <1>2, Invariance, PTL DEF Spec, ImplementsLifecycle, Lifecycle!Spec

-----------------------------------------------------------------------------
(* What the record says of Hermes, and single flight, as long as a request *)
(* to Hermes is answered and its answer is recorded.                       *)

\* Where a run is that was handed over: its worker waits for the answer, or the
\* backend id is recorded.  A cancel that found no backend id is about a run
\* that was not handed over and will not be.
HandedInv ==
  \A r \in Runs :
    /\ wk[r] \in {"submit", "reply"} => status[r] = "starting" /\ cancelRun # r /\ ~hid[r]
    /\ wk[r] = "reply" => submits[r] > 0
    /\ wk[r] \in {"mark", "follow", "final", "clear"} => hid[r]
    /\ hid[r] => submits[r] > 0
    /\ submits[r] > 0 => backend[r] # "none" /\ (hid[r] \/ wk[r] = "reply")
    /\ cancelRun = r /\ ~cancelSeen => submits[r] = 0

\* Whether a run has a backend id does not change under a pass.
SnapInv ==
  \A p \in Passes : \A r \in todo[p] : ppc[p] \in {"park", "decide"} => psnap[p][r].hid = hid[r]

\* What a worker is about to record is true, and stays so.
TruthInv ==
  /\ RecordIsTrue
  /\ \A r \in Runs : wk[r] = "final" =>
       /\ verdict[r] = "cancelled" => final[r] = "cancelled"
       /\ verdict[r] = "interrupted" => backend[r] \notin BackendLive

\* What Hermes executes has a worker that waits for it.
FlightInv == \A r \in Runs : backend[r] \in BackendLive => wk[r] \in {"reply", "mark", "follow"}

\* The lock keeps a pass and the workers apart.
LEMMA Apart ==
  ASSUME LockDiscipline
  PROVE  /\ \A r \in Runs, p \in Passes : wk[r] \in Holding => ppc[p] \notin PassHolding
         /\ \A q, r \in Runs : wk[q] \in Holding /\ wk[r] \in Holding => q = r
  BY NumRunsAssumption, NumPassesAssumption DEF LockDiscipline, Runs, Passes

\* What a decision of a pass does to the rows: that of the run it is about
\* changes, to what the answer implies.
LEMMA DecisionEffect ==
  ASSUME TypeOK, NEW p \in Passes, NEW r \in Runs, PDecide(p, r)
  PROVE  /\ ppc[p] = "decide" /\ r \in todo[p]
         /\ \E a \in (IF psnap[p][r].hid THEN Answers(r) ELSE {"forgotten"}) :
              \A t \in Runs : \/ status'[t] = status[t]
                              \/ /\ t = r
                                 /\ status'[t] = ReconcileDecision(psnap[p][r].st, Flatten(a), psnap[p][r].noted)
         /\ UNCHANGED <<hid, retryOf, sidecar, workerVars, cancelVars, restarts, hermesVars>>
<1> DEFINE decided(a) == ReconcileDecision(psnap[p][r].st, Flatten(a), psnap[p][r].noted)
<1>1. PICK a \in (IF psnap[p][r].hid THEN Answers(r) ELSE {"forgotten"}) :
        IF decided(a) # psnap[p][r].st THEN AppendUpdate(r, decided(a))
        ELSE UNCHANGED <<status, noted>>
  BY DEF PDecide
<1> HIDE DEF decided
<1>2. \A t \in Runs : status'[t] = status[t] \/ (t = r /\ status'[t] = decided(a))
  BY <1>1 DEF TypeOK, AppendUpdate
<1>3. /\ ppc[p] = "decide" /\ r \in todo[p]
      /\ UNCHANGED <<hid, retryOf, sidecar, workerVars, cancelVars, restarts, hermesVars>>
  BY DEF PDecide, IsOldest, settingVars
<1> QED
  BY <1>2, <1>3 DEF decided

\* Every action keeps HandedInv.
LEMMA HandedStep ==
  ASSUME "crash_in_submission" \notin Hazards, "cancel_in_submission" \notin Hazards, "lost_reply" \notin Hazards,
         TypeOK, LockDiscipline, SubmissionInv, HandedInv, [Next]_vars
  PROVE  HandedInv'
<1>a. /\ \A r \in Runs, p \in Passes : wk[r] \in Holding => ppc[p] \notin PassHolding
      /\ \A q, r \in Runs : wk[q] \in Holding /\ wk[r] \in Holding => q = r
  BY Apart
<1>z. NoRun \notin Runs
  BY DEF NoRun, Runs
<1> USE DEF TypeOK, HandedInv, SubmissionInv, registryVars, workerVars, passVars,
            cancelVars, daemonVars, settingVars, hermesVars
<1>1. ASSUME NEW r \in Runs, CreateRun(r)
      PROVE  HandedInv'
  BY <1>1 DEF CreateRun, Go, NextRun
<1>2. ASSUME NEW q \in Runs, NEW r \in Runs, RetryRun(q, r)
      PROVE  HandedInv'
  BY <1>2 DEF RetryRun, Go, NextRun
<1>3. ASSUME NEW r \in Runs, SuperviseNew(r)
      PROVE  HandedInv'
  BY <1>3 DEF SuperviseNew, Go
<1>4. ASSUME NEW r \in Runs, CancelBegin(r)
      PROVE  HandedInv'
  BY <1>4 DEF CancelBegin, Note, Active
<1>5. CASE CancelUnsubmitted
  BY <1>5, <1>z DEF CancelUnsubmitted
<1>6. CASE CancelSubmitted
  BY <1>6, <1>z DEF CancelSubmitted, Note, BackendLive
<1>7. ASSUME NEW r \in Runs, WLoad(r)
      PROVE  HandedInv'
  BY <1>7 DEF WLoad, Go
<1>8. ASSUME NEW r \in Runs, WLock(r)
      PROVE  HandedInv'
  BY <1>8 DEF WLock, Go
<1>9. ASSUME NEW r \in Runs, WFail(r)
      PROVE  HandedInv'
  BY <1>9 DEF WFail, Go, AppendUpdate
<1>10. ASSUME NEW r \in Runs, WAdmit(r)
      PROVE  HandedInv'
  BY <1>10 DEF WAdmit, Go
<1>11. ASSUME NEW r \in Runs, WResume(r)
      PROVE  HandedInv'
  BY <1>11 DEF WResume, Go, Note
<1>12. ASSUME NEW r \in Runs, WAccept(r)
      PROVE  HandedInv'
  BY <1>12 DEF WAccept, Go, AppendUpdate, ValidTransition
<1>13. ASSUME NEW r \in Runs, WStartRun(r)
      PROVE  HandedInv'
  BY <1>13 DEF WStartRun, Go
<1>14. ASSUME NEW r \in Runs, WSubmitted(r)
      PROVE  HandedInv'
  <2>1. status[r] = "starting" /\ cancelRun # r /\ submits[r] > 0 /\ ValidTransition(status[r], "running")
    BY <1>14 DEF WSubmitted, ValidTransition
  <2>2. /\ hid' = [hid EXCEPT ![r] = TRUE] /\ wk' = [wk EXCEPT ![r] = "mark"]
        /\ status' = [status EXCEPT ![r] = "running"]
        /\ UNCHANGED <<cancelVars, hermesVars>>
    BY <1>14, <2>1 DEF WSubmitted, Go, AppendUpdate
  <2> QED
    BY <2>1, <2>2
<1>15. ASSUME NEW r \in Runs, WMark(r)
      PROVE  HandedInv'
  BY <1>15 DEF WMark, Go
<1>16. ASSUME NEW r \in Runs, NEW kind \in {"approval.request", "other"}, NEW fresh \in BOOLEAN, WFrame(r, kind, fresh)
      PROVE  HandedInv'
  BY <1>16 DEF WFrame, AppendUpdate, Note, StatusUpdateFor
<1>17. ASSUME NEW r \in Runs, WPoll(r)
      PROVE  HandedInv'
  BY <1>17 DEF WPoll, Go
<1>18. ASSUME NEW r \in Runs, WFinalize(r)
      PROVE  HandedInv'
  BY <1>18 DEF WFinalize, Go, AppendUpdate
<1>19. ASSUME NEW r \in Runs, WClear(r)
      PROVE  HandedInv'
  BY <1>19 DEF WClear, Go
<1>20. ASSUME NEW r \in Runs, WExit(r)
      PROVE  HandedInv'
  BY <1>20 DEF WExit, Go
<1>21. ASSUME NEW p \in Passes, PBegin(p)
      PROVE  HandedInv'
  BY <1>21 DEF PBegin, PassDue
<1>22. ASSUME NEW p \in Passes, NEW r \in Runs, PPark(p, r)
      PROVE  HandedInv'
  <2>1. /\ \A t \in Runs : t # r => status'[t] = status[t]
        /\ UNCHANGED <<hid, workerVars, cancelVars, hermesVars>> /\ ppc[p] = "park"
    BY <1>22 DEF PPark, AppendUpdate
  <2>2. wk[r] \notin {"submit", "reply"}
    BY <1>a, <2>1 DEF Holding, PassHolding
  <2> QED
    BY <2>1, <2>2
<1>23. ASSUME NEW p \in Passes, NEW r \in Runs, PDecide(p, r)
      PROVE  HandedInv'
  <2>1. /\ \A t \in Runs : t # r => status'[t] = status[t]
        /\ UNCHANGED <<hid, workerVars, cancelVars, hermesVars>> /\ ppc[p] = "decide"
    BY <1>23, DecisionEffect
  <2>2. wk[r] \notin {"submit", "reply"}
    BY <1>a, <2>1 DEF Holding, PassHolding
  <2> QED
    BY <2>1, <2>2
<1>24. ASSUME NEW p \in Passes, PClear(p)
      PROVE  HandedInv'
  BY <1>24 DEF PClear
<1>25. ASSUME NEW p \in Passes, PPick(p)
      PROVE  HandedInv'
  BY <1>25 DEF PPick
<1>26. ASSUME NEW p \in Passes, PSupervise(p)
      PROVE  HandedInv'
  BY <1>26 DEF PSupervise, Go, PReturn
<1>27. CASE Drain
  BY <1>27 DEF Drain
<1>28. CASE Stop
  BY <1>28, <1>z DEF Stop
<1>29. CASE Boot
  BY <1>29 DEF Boot
<1>30. ASSUME NEW r \in Runs, HWait(r)
      PROVE  HandedInv'
  BY <1>30 DEF HWait, BackendLive
<1>31. ASSUME NEW r \in Runs, HFinish(r)
      PROVE  HandedInv'
  BY <1>31 DEF HFinish, BackendLive, BackendTerminal
<1>32. CASE HForget
  BY <1>32 DEF HForget
<1>34. ASSUME NEW p \in Passes, PUnrouted(p)
      PROVE  HandedInv'
  BY <1>34 DEF PUnrouted
<1>35. CASE RouteChanges
  BY <1>35 DEF RouteChanges
<1>33. CASE UNCHANGED vars
  BY <1>33 DEF vars
<1> QED
  BY <1>1, <1>2, <1>3, <1>4, <1>5, <1>6, <1>7, <1>8, <1>9, <1>10, <1>11, <1>12, <1>13,
     <1>14, <1>15, <1>16, <1>17, <1>18, <1>19, <1>20, <1>21, <1>22, <1>23, <1>24,
     <1>25, <1>26, <1>27, <1>28, <1>29, <1>30, <1>31, <1>32, <1>33, <1>34, <1>35
  DEF Next, WorkerStep, Frame, PassStep, CancelStep

\* Every action keeps SnapInv.
LEMMA SnapStep ==
  TypeOK /\ LockDiscipline /\ SnapInv /\ [Next]_vars => SnapInv'
<1> SUFFICES ASSUME TypeOK, LockDiscipline, SnapInv, [Next]_vars
             PROVE  SnapInv'
  OBVIOUS
<1>a. /\ \A r \in Runs, p \in Passes : wk[r] \in Holding => ppc[p] \notin PassHolding
      /\ \A q, r \in Runs : wk[q] \in Holding /\ wk[r] \in Holding => q = r
  BY Apart
<1> USE DEF TypeOK, SnapInv, registryVars, workerVars, passVars, cancelVars,
            daemonVars, settingVars, hermesVars
<1>1. ASSUME NEW r \in Runs, CreateRun(r)
      PROVE  SnapInv'
  BY <1>1 DEF CreateRun, Go, NextRun
<1>2. ASSUME NEW q \in Runs, NEW r \in Runs, RetryRun(q, r)
      PROVE  SnapInv'
  BY <1>2 DEF RetryRun, Go, NextRun
<1>3. ASSUME NEW r \in Runs, SuperviseNew(r)
      PROVE  SnapInv'
  BY <1>3 DEF SuperviseNew, Go
<1>4. ASSUME NEW r \in Runs, CancelBegin(r)
      PROVE  SnapInv'
  BY <1>4 DEF CancelBegin, Note
<1>5. CASE CancelUnsubmitted
  BY <1>5 DEF CancelUnsubmitted
<1>6. CASE CancelSubmitted
  BY <1>6 DEF CancelSubmitted, Note
<1>7. ASSUME NEW r \in Runs, WLoad(r)
      PROVE  SnapInv'
  BY <1>7 DEF WLoad, Go
<1>8. ASSUME NEW r \in Runs, WLock(r)
      PROVE  SnapInv'
  BY <1>8 DEF WLock, Go
<1>9. ASSUME NEW r \in Runs, WFail(r)
      PROVE  SnapInv'
  BY <1>9 DEF WFail, Go, AppendUpdate
<1>10. ASSUME NEW r \in Runs, WAdmit(r)
      PROVE  SnapInv'
  BY <1>10 DEF WAdmit, Go
<1>11. ASSUME NEW r \in Runs, WResume(r)
      PROVE  SnapInv'
  BY <1>11 DEF WResume, Go, Note
<1>12. ASSUME NEW r \in Runs, WAccept(r)
      PROVE  SnapInv'
  BY <1>12 DEF WAccept, Go, AppendUpdate, ValidTransition
<1>13. ASSUME NEW r \in Runs, WStartRun(r)
      PROVE  SnapInv'
  BY <1>13 DEF WStartRun, Go
<1>14. ASSUME NEW r \in Runs, WSubmitted(r)
      PROVE  SnapInv'
  <2>1. \A p \in Passes : ppc[p] \notin {"park", "decide"}
    BY <1>14, <1>a DEF WSubmitted, Holding, PassHolding
  <2> QED
    BY <1>14, <2>1 DEF WSubmitted
<1>15. ASSUME NEW r \in Runs, WMark(r)
      PROVE  SnapInv'
  BY <1>15 DEF WMark, Go
<1>16. ASSUME NEW r \in Runs, NEW kind \in {"approval.request", "other"}, NEW fresh \in BOOLEAN, WFrame(r, kind, fresh)
      PROVE  SnapInv'
  BY <1>16 DEF WFrame, AppendUpdate, Note, StatusUpdateFor
<1>17. ASSUME NEW r \in Runs, WPoll(r)
      PROVE  SnapInv'
  BY <1>17 DEF WPoll, Go
<1>18. ASSUME NEW r \in Runs, WFinalize(r)
      PROVE  SnapInv'
  BY <1>18 DEF WFinalize, Go, AppendUpdate
<1>19. ASSUME NEW r \in Runs, WClear(r)
      PROVE  SnapInv'
  BY <1>19 DEF WClear, Go
<1>20. ASSUME NEW r \in Runs, WExit(r)
      PROVE  SnapInv'
  BY <1>20 DEF WExit, Go
<1>21. ASSUME NEW p \in Passes, PBegin(p)
      PROVE  SnapInv'
  <2>1. hid' = hid /\ \A q \in Passes : q # p => ppc'[q] = ppc[q] /\ todo'[q] = todo[q] /\ psnap'[q] = psnap[q]
    BY <1>21 DEF PBegin, PassDue
  <2>2. CASE lock = Free
    <3>1. todo'[p] = ActiveRuns /\ ActiveRuns \subseteq Runs
      BY <1>21, <2>2 DEF PBegin, PassDue, ActiveRuns
    <3>2. \A t \in ActiveRuns : psnap'[p][t] = [st |-> status[t], hid |-> hid[t], noted |-> noted[t]]
      BY <1>21, <2>2, <3>1 DEF PBegin, PassDue
    <3> HIDE DEF TypeOK, SnapInv
    <3>3. ASSUME NEW t \in ActiveRuns
          PROVE  psnap'[p][t].hid = hid[t]
      <4> DEFINE row == [st |-> status[t], hid |-> hid[t], noted |-> noted[t]]
      <4>1. psnap'[p][t] = row
        BY <3>2
      <4>2. row.hid = hid[t]
        OBVIOUS
      <4> QED
        BY <4>1, <4>2
    <3>4. \A t \in todo'[p] : psnap'[p][t].hid = hid'[t]
      BY <2>1, <3>1, <3>3
    <3> USE DEF SnapInv
    <3> QED
      BY <2>1, <3>4
  <2>3. CASE lock # Free
    BY <1>21, <2>1, <2>3 DEF PBegin, PassDue
  <2> QED
    BY <2>2, <2>3
<1>22. ASSUME NEW p \in Passes, NEW r \in Runs, PPark(p, r)
      PROVE  SnapInv'
  <2>1. hid' = hid /\ ppc[p] = "park"
    BY <1>22 DEF PPark
  <2>2. \/ ppc' = [ppc EXCEPT ![p] = "decide"] /\ UNCHANGED <<todo, psnap>>
        \/ /\ ppc' = [ppc EXCEPT ![p] = "idle"]
           /\ todo' = [todo EXCEPT ![p] = {}]
           /\ psnap' = [psnap EXCEPT ![p] = Blank]
    BY <1>22 DEF PPark, PReturn
  <2>3. CASE ppc' = [ppc EXCEPT ![p] = "decide"] /\ UNCHANGED <<todo, psnap>>
    BY <2>1, <2>3
  <2>4. CASE /\ ppc' = [ppc EXCEPT ![p] = "idle"]
             /\ todo' = [todo EXCEPT ![p] = {}]
             /\ psnap' = [psnap EXCEPT ![p] = Blank]
    BY <2>1, <2>4
  <2> QED
    BY <2>2, <2>3, <2>4
<1>23. ASSUME NEW p \in Passes, NEW r \in Runs, PDecide(p, r)
      PROVE  SnapInv'
  <2>1. hid' = hid
    BY <1>23 DEF PDecide
  <2>2. \A q \in Passes : q # p => ppc'[q] = ppc[q] /\ todo'[q] = todo[q] /\ psnap'[q] = psnap[q]
    BY <1>23 DEF PDecide, PReturn
  <2>3. ppc[p] = "decide" /\ todo'[p] \subseteq todo[p]
    BY <1>23 DEF PDecide, PReturn
  <2>4. \A t \in todo'[p] : psnap'[p][t] = psnap[p][t]
    BY <1>23 DEF PDecide, PReturn
  <2> QED
    BY <2>1, <2>2, <2>3, <2>4
<1>24. ASSUME NEW p \in Passes, PClear(p)
      PROVE  SnapInv'
  BY <1>24 DEF PClear
<1>25. ASSUME NEW p \in Passes, PPick(p)
      PROVE  SnapInv'
  BY <1>25 DEF PPick
<1>26. ASSUME NEW p \in Passes, PSupervise(p)
      PROVE  SnapInv'
  BY <1>26 DEF PSupervise, Go, PReturn, Runs
<1>27. CASE Drain
  BY <1>27 DEF Drain
<1>28. CASE Stop
  BY <1>28 DEF Stop
<1>29. CASE Boot
  BY <1>29 DEF Boot
<1>30. ASSUME NEW r \in Runs, HWait(r)
      PROVE  SnapInv'
  BY <1>30 DEF HWait
<1>31. ASSUME NEW r \in Runs, HFinish(r)
      PROVE  SnapInv'
  BY <1>31 DEF HFinish
<1>32. CASE HForget
  BY <1>32 DEF HForget
<1>34. ASSUME NEW p \in Passes, PUnrouted(p)
      PROVE  SnapInv'
  BY <1>34 DEF PUnrouted
<1>35. CASE RouteChanges
  BY <1>35 DEF RouteChanges
<1>33. CASE UNCHANGED vars
  BY <1>33 DEF vars
<1> QED
  BY <1>1, <1>2, <1>3, <1>4, <1>5, <1>6, <1>7, <1>8, <1>9, <1>10, <1>11, <1>12, <1>13,
     <1>14, <1>15, <1>16, <1>17, <1>18, <1>19, <1>20, <1>21, <1>22, <1>23, <1>24,
     <1>25, <1>26, <1>27, <1>28, <1>29, <1>30, <1>31, <1>32, <1>33, <1>34, <1>35
  DEF Next, WorkerStep, Frame, PassStep, CancelStep

\* What a decision says is true when it is taken.
LEMMA DecisionIsTrue ==
  ASSUME "unreachable" \notin Hazards,
         IInv, HandedInv, SnapInv, NEW p \in Passes, NEW r \in Runs, r \in todo[p], ppc[p] = "decide",
         NEW a \in (IF psnap[p][r].hid THEN Answers(r) ELSE {"forgotten"})
  PROVE  LET new == ReconcileDecision(psnap[p][r].st, Flatten(a), psnap[p][r].noted) IN
         /\ new = "cancelled" => final[r] = "cancelled"
         /\ new = "interrupted" => backend[r] \notin BackendLive
<1> USE DEF IInv, TypeOK, BackendLive, BackendTerminal
<1>1. psnap[p][r].hid = hid[r] /\ wk[r] # "reply"
  BY Apart DEF SnapInv, Holding, PassHolding
<1>2. CASE hid[r]
  BY <1>1, <1>2 DEF HandedInv, EvidenceInv, Answers, Flatten, ReconcileDecision, FromHermesStatus
<1>3. CASE ~hid[r]
  <2>1. backend[r] = "none" /\ a = "forgotten"
    BY <1>1, <1>3 DEF HandedInv, EvidenceInv
  <2> QED
    BY <2>1 DEF Flatten, ReconcileDecision
<1> QED
  BY <1>2, <1>3

\* Every action keeps TruthInv.
LEMMA TruthStep ==
  ASSUME "unreachable" \notin Hazards, "stall" \notin Hazards,
         IInv, HandedInv, SnapInv, TruthInv, [Next]_vars
  PROVE  TruthInv'
<1>t. TypeOK
  BY DEF IInv
<1> USE <1>t
<1> USE DEF TypeOK, TruthInv, RecordIsTrue, registryVars, workerVars, passVars,
            cancelVars, daemonVars, settingVars, hermesVars
<1>1. ASSUME NEW r \in Runs, CreateRun(r)
      PROVE  TruthInv'
  BY <1>1 DEF CreateRun, Go, NextRun
<1>2. ASSUME NEW q \in Runs, NEW r \in Runs, RetryRun(q, r)
      PROVE  TruthInv'
  BY <1>2 DEF RetryRun, Go, NextRun
<1>3. ASSUME NEW r \in Runs, SuperviseNew(r)
      PROVE  TruthInv'
  BY <1>3 DEF SuperviseNew, Go
<1>4. ASSUME NEW r \in Runs, CancelBegin(r)
      PROVE  TruthInv'
  BY <1>4 DEF CancelBegin, Note
<1>5. CASE CancelUnsubmitted
  BY <1>5 DEF CancelUnsubmitted, HandedInv, ValidTransition
<1>6. CASE CancelSubmitted
  BY <1>6 DEF CancelSubmitted, Note, BackendLive
<1>7. ASSUME NEW r \in Runs, WLoad(r)
      PROVE  TruthInv'
  BY <1>7 DEF WLoad, Go
<1>8. ASSUME NEW r \in Runs, WLock(r)
      PROVE  TruthInv'
  BY <1>8 DEF WLock, Go
<1>9. ASSUME NEW r \in Runs, WFail(r)
      PROVE  TruthInv'
  BY <1>9 DEF WFail, Go, AppendUpdate
<1>10. ASSUME NEW r \in Runs, WAdmit(r)
      PROVE  TruthInv'
  BY <1>10 DEF WAdmit, Go
<1>11. ASSUME NEW r \in Runs, WResume(r)
      PROVE  TruthInv'
  BY <1>11 DEF WResume, Go, Note
<1>12. ASSUME NEW r \in Runs, WAccept(r)
      PROVE  TruthInv'
  BY <1>12 DEF WAccept, Go, AppendUpdate, ValidTransition
<1>13. ASSUME NEW r \in Runs, WStartRun(r)
      PROVE  TruthInv'
  BY <1>13 DEF WStartRun, Go, HandedInv, BackendLive
<1>14. ASSUME NEW r \in Runs, WSubmitted(r)
      PROVE  TruthInv'
  BY <1>14 DEF WSubmitted, Go, AppendUpdate, ValidTransition
<1>15. ASSUME NEW r \in Runs, WMark(r)
      PROVE  TruthInv'
  BY <1>15 DEF WMark, Go
<1>16. ASSUME NEW r \in Runs, NEW kind \in {"approval.request", "other"}, NEW fresh \in BOOLEAN, WFrame(r, kind, fresh)
      PROVE  TruthInv'
  BY <1>16 DEF WFrame, AppendUpdate, Note, StatusUpdateFor
<1>17. ASSUME NEW r \in Runs, WPoll(r)
      PROVE  TruthInv'
  <2>1. hid[r] /\ backend[r] # "none"
    BY <1>17 DEF WPoll, HandedInv
  <2>2. /\ verdict'[r] = "cancelled" => final[r] = "cancelled"
        /\ verdict'[r] = "interrupted" => backend[r] \notin BackendLive
    BY <1>17, <2>1 DEF WPoll, Answers, Flatten, FromHermesStatus, EvidenceInv, BackendTerminal, BackendLive, IInv
  <2> QED
    BY <1>17, <2>2 DEF WPoll, Go
<1>18. ASSUME NEW r \in Runs, WFinalize(r)
      PROVE  TruthInv'
  BY <1>18 DEF WFinalize, Go, AppendUpdate
<1>19. ASSUME NEW r \in Runs, WClear(r)
      PROVE  TruthInv'
  BY <1>19 DEF WClear, Go
<1>20. ASSUME NEW r \in Runs, WExit(r)
      PROVE  TruthInv'
  BY <1>20 DEF WExit, Go
<1>21. ASSUME NEW p \in Passes, PBegin(p)
      PROVE  TruthInv'
  BY <1>21 DEF PBegin, PassDue
<1>22. ASSUME NEW p \in Passes, NEW r \in Runs, PPark(p, r)
      PROVE  TruthInv'
  BY <1>22 DEF PPark, AppendUpdate, PReturn
<1>23. ASSUME NEW p \in Passes, NEW r \in Runs, PDecide(p, r)
      PROVE  TruthInv'
  <2>1. /\ ppc[p] = "decide" /\ r \in todo[p]
        /\ UNCHANGED <<hid, workerVars, cancelVars, hermesVars>>
    BY <1>23, DecisionEffect
  <2>2. PICK a \in (IF psnap[p][r].hid THEN Answers(r) ELSE {"forgotten"}) :
          \A t \in Runs : \/ status'[t] = status[t]
                          \/ /\ t = r
                             /\ status'[t] = ReconcileDecision(psnap[p][r].st, Flatten(a), psnap[p][r].noted)
    BY <1>23, DecisionEffect
  <2>3. /\ status'[r] # status[r] /\ status'[r] = "cancelled" => final[r] = "cancelled"
        /\ status'[r] # status[r] /\ status'[r] = "interrupted" => backend[r] \notin BackendLive
    BY <2>1, <2>2, DecisionIsTrue
  <2>4. \A t \in Runs : t # r => status'[t] = status[t]
    BY <2>2
  <2> QED
    BY <2>1, <2>3, <2>4
<1>24. ASSUME NEW p \in Passes, PClear(p)
      PROVE  TruthInv'
  BY <1>24 DEF PClear
<1>25. ASSUME NEW p \in Passes, PPick(p)
      PROVE  TruthInv'
  BY <1>25 DEF PPick
<1>26. ASSUME NEW p \in Passes, PSupervise(p)
      PROVE  TruthInv'
  BY <1>26 DEF PSupervise, Go, PReturn
<1>27. CASE Drain
  BY <1>27 DEF Drain
<1>28. CASE Stop
  BY <1>28 DEF Stop
<1>29. CASE Boot
  BY <1>29 DEF Boot
<1>30. ASSUME NEW r \in Runs, HWait(r)
      PROVE  TruthInv'
  BY <1>30 DEF HWait, BackendLive
<1>31. ASSUME NEW r \in Runs, HFinish(r)
      PROVE  TruthInv'
  BY <1>31 DEF HFinish, BackendLive, BackendTerminal, EvidenceInv, IInv
<1>32. CASE HForget
  BY <1>32 DEF HForget, BackendLive
<1>34. ASSUME NEW p \in Passes, PUnrouted(p)
      PROVE  TruthInv'
  BY <1>34 DEF PUnrouted
<1>35. CASE RouteChanges
  BY <1>35 DEF RouteChanges
<1>33. CASE UNCHANGED vars
  BY <1>33 DEF vars
<1> QED
  BY <1>1, <1>2, <1>3, <1>4, <1>5, <1>6, <1>7, <1>8, <1>9, <1>10, <1>11, <1>12, <1>13,
     <1>14, <1>15, <1>16, <1>17, <1>18, <1>19, <1>20, <1>21, <1>22, <1>23, <1>24,
     <1>25, <1>26, <1>27, <1>28, <1>29, <1>30, <1>31, <1>32, <1>33, <1>34, <1>35
  DEF Next, WorkerStep, Frame, PassStep, CancelStep

\* Every action keeps FlightInv.
LEMMA FlightStep ==
  ASSUME "crash_in_submission" \notin Hazards, "restart_live" \notin Hazards, "lost_reply" \notin Hazards, "unreachable" \notin Hazards, "stall" \notin Hazards,
         IInv, HandedInv, FlightInv, [Next]_vars
  PROVE  FlightInv'
<1>t. TypeOK
  BY DEF IInv
<1> USE <1>t
<1> USE DEF TypeOK, FlightInv, BackendLive, registryVars, workerVars, passVars,
            cancelVars, daemonVars, settingVars, hermesVars
<1>1. ASSUME NEW r \in Runs, CreateRun(r)
      PROVE  FlightInv'
  BY <1>1 DEF CreateRun, Go, NextRun, IInv, SubmissionInv, EvidenceInv
<1>2. ASSUME NEW q \in Runs, NEW r \in Runs, RetryRun(q, r)
      PROVE  FlightInv'
  BY <1>2 DEF RetryRun, Go, NextRun, IInv, SubmissionInv, EvidenceInv
<1>3. ASSUME NEW r \in Runs, SuperviseNew(r)
      PROVE  FlightInv'
  BY <1>3 DEF SuperviseNew, Go
<1>4. ASSUME NEW r \in Runs, CancelBegin(r)
      PROVE  FlightInv'
  BY <1>4 DEF CancelBegin, Note
<1>5. CASE CancelUnsubmitted
  BY <1>5 DEF CancelUnsubmitted
<1>6. CASE CancelSubmitted
  BY <1>6 DEF CancelSubmitted, Note
<1>7. ASSUME NEW r \in Runs, WLoad(r)
      PROVE  FlightInv'
  BY <1>7 DEF WLoad, Go
<1>8. ASSUME NEW r \in Runs, WLock(r)
      PROVE  FlightInv'
  BY <1>8 DEF WLock, Go
<1>9. ASSUME NEW r \in Runs, WFail(r)
      PROVE  FlightInv'
  BY <1>9 DEF WFail, Go, AppendUpdate
<1>10. ASSUME NEW r \in Runs, WAdmit(r)
      PROVE  FlightInv'
  BY <1>10 DEF WAdmit, Go
<1>11. ASSUME NEW r \in Runs, WResume(r)
      PROVE  FlightInv'
  BY <1>11 DEF WResume, Go, Note
<1>12. ASSUME NEW r \in Runs, WAccept(r)
      PROVE  FlightInv'
  BY <1>12 DEF WAccept, Go, AppendUpdate, ValidTransition
<1>13. ASSUME NEW r \in Runs, WStartRun(r)
      PROVE  FlightInv'
  BY <1>13 DEF WStartRun, Go
<1>14. ASSUME NEW r \in Runs, WSubmitted(r)
      PROVE  FlightInv'
  BY <1>14 DEF WSubmitted, Go, AppendUpdate, ValidTransition, HandedInv
<1>15. ASSUME NEW r \in Runs, WMark(r)
      PROVE  FlightInv'
  BY <1>15 DEF WMark, Go
<1>16. ASSUME NEW r \in Runs, NEW kind \in {"approval.request", "other"}, NEW fresh \in BOOLEAN, WFrame(r, kind, fresh)
      PROVE  FlightInv'
  BY <1>16 DEF WFrame, AppendUpdate, Note, StatusUpdateFor
<1>17. ASSUME NEW r \in Runs, WPoll(r)
      PROVE  FlightInv'
  BY <1>17 DEF WPoll, Go, Answers, Flatten, HandedInv, BackendTerminal
<1>18. ASSUME NEW r \in Runs, WFinalize(r)
      PROVE  FlightInv'
  BY <1>18 DEF WFinalize, Go, AppendUpdate
<1>19. ASSUME NEW r \in Runs, WClear(r)
      PROVE  FlightInv'
  BY <1>19 DEF WClear, Go
<1>20. ASSUME NEW r \in Runs, WExit(r)
      PROVE  FlightInv'
  BY <1>20 DEF WExit, Go
<1>21. ASSUME NEW p \in Passes, PBegin(p)
      PROVE  FlightInv'
  BY <1>21 DEF PBegin, PassDue
<1>22. ASSUME NEW p \in Passes, NEW r \in Runs, PPark(p, r)
      PROVE  FlightInv'
  BY <1>22 DEF PPark, AppendUpdate, PReturn
<1>23. ASSUME NEW p \in Passes, NEW r \in Runs, PDecide(p, r)
      PROVE  FlightInv'
  BY <1>23, DecisionEffect
<1>24. ASSUME NEW p \in Passes, PClear(p)
      PROVE  FlightInv'
  BY <1>24 DEF PClear
<1>25. ASSUME NEW p \in Passes, PPick(p)
      PROVE  FlightInv'
  BY <1>25 DEF PPick
<1>26. ASSUME NEW p \in Passes, PSupervise(p)
      PROVE  FlightInv'
  BY <1>26 DEF PSupervise, Go, PReturn, Runs
<1>27. CASE Drain
  BY <1>27 DEF Drain
<1>28. CASE Stop
  BY <1>28 DEF Stop
<1>29. CASE Boot
  BY <1>29 DEF Boot
<1>30. ASSUME NEW r \in Runs, HWait(r)
      PROVE  FlightInv'
  BY <1>30 DEF HWait
<1>31. ASSUME NEW r \in Runs, HFinish(r)
      PROVE  FlightInv'
  BY <1>31 DEF HFinish, BackendTerminal
<1>32. CASE HForget
  BY <1>32 DEF HForget
<1>34. ASSUME NEW p \in Passes, PUnrouted(p)
      PROVE  FlightInv'
  BY <1>34 DEF PUnrouted
<1>35. CASE RouteChanges
  BY <1>35 DEF RouteChanges
<1>33. CASE UNCHANGED vars
  BY <1>33 DEF vars
<1> QED
  BY <1>1, <1>2, <1>3, <1>4, <1>5, <1>6, <1>7, <1>8, <1>9, <1>10, <1>11, <1>12, <1>13,
     <1>14, <1>15, <1>16, <1>17, <1>18, <1>19, <1>20, <1>21, <1>22, <1>23, <1>24,
     <1>25, <1>26, <1>27, <1>28, <1>29, <1>30, <1>31, <1>32, <1>33, <1>34, <1>35
  DEF Next, WorkerStep, Frame, PassStep, CancelStep

\* As long as every request to Hermes is answered, its answer reaches the daemon,
\* which does not die on the way, and no cancel overlaps a submission: a run is
\* recorded as cancelled only if Hermes cancelled it or never had it, and as
\* interrupted only if Hermes does not execute it.  The daemon may stop while a
\* run is live, and passes and workers may overlap.
THEOREM RecordsAreTrue ==
  ASSUME "crash_in_submission" \notin Hazards, "cancel_in_submission" \notin Hazards,
         "lost_reply" \notin Hazards, "unreachable" \notin Hazards, "stall" \notin Hazards
  PROVE  Spec => []RecordIsTrue
<1>1. Init => HandedInv /\ SnapInv /\ TruthInv
  BY DEF Init, HandedInv, SnapInv, TruthInv, RecordIsTrue, NoRun, Runs
<1>2. IInv /\ HandedInv /\ SnapInv /\ TruthInv /\ [Next]_vars => HandedInv' /\ SnapInv' /\ TruthInv'
  BY HandedStep, SnapStep, TruthStep DEF IInv
<1>3. TruthInv => RecordIsTrue
  BY DEF TruthInv
<1> QED
  BY <1>1, <1>2, <1>3, Invariance, PTL DEF Spec

\* If moreover the daemon does not stop while Hermes executes a run, Hermes
\* executes at most one run of the project.
THEOREM OneFlight ==
  ASSUME "restart_live" \notin Hazards, "crash_in_submission" \notin Hazards,
         "cancel_in_submission" \notin Hazards, "lost_reply" \notin Hazards,
         "unreachable" \notin Hazards, "stall" \notin Hazards
  PROVE  Spec => []SingleFlight
<1>1. Init => HandedInv /\ FlightInv
  BY DEF Init, HandedInv, FlightInv, BackendLive, NoRun, Runs
<1>2. IInv /\ HandedInv /\ FlightInv /\ [Next]_vars => HandedInv' /\ FlightInv'
  BY HandedStep, FlightStep DEF IInv
<1>3. IInv /\ FlightInv => SingleFlight
  BY Apart DEF IInv, FlightInv, SingleFlight, Holding
<1> QED
  BY <1>1, <1>2, <1>3, Invariance, PTL DEF Spec
=============================================================================
