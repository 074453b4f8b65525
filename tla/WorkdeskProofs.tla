---------------------------- MODULE WorkdeskProofs ----------------------------
(***************************************************************************)
(* TLAPS proofs about Workdesk, for any number of people, runs, rows,      *)
(* requests and faults.                                                    *)
(*                                                                         *)
(* A request that is fresh holds the task as it is, and a run it made and  *)
(* did not attach yet carries the generation behind it (HttpInv): so the   *)
(* run that becomes the current one has the generation the task moves to.  *)
(* That generations stay within the number of runs is a matter of          *)
(* counting: every step of the generation attached a run (CountInv).  A    *)
(* run the Control Plane calls completed completed on the Node (RunInv),   *)
(* whichever of its end and its reports came first.  What a transaction    *)
(* does to the task is stated once, for whatever desk it finds             *)
(* (SettleEffect, ReportEffect).                                           *)
(***************************************************************************)
EXTENDS Workdesk, FiniteSetTheorems, SequenceTheorems, TLAPS

Attached == {r \in Runs : runs[r].attached}

\* Every step of the generation attached a run.
CountInv == task.gen <= Cardinality(Attached)

\* What a request read, and the run it made.
RequestInv(u) ==
  LET h == http[u] IN
  /\ h.pc # "idle" => h.action \in Actions
  /\ h.fresh => h.task = task
  /\ h.task.gen <= task.gen
  /\ h.pc = "created" =>
       /\ h.run \in Runs
       /\ runs[h.run].gen = h.task.gen + 1
       /\ runs[h.run].status # "none" /\ ~runs[h.run].attached
       /\ \A v \in People \ {u} : http[v].pc = "created" => http[v].run # h.run
  /\ h.pc = "read" => \/ Wish(u) /\ h.task.cur \in Runs
                      \/ h.action \in {"start", "answer_input"}
                      \/ transitionFor(h.task.status, h.action)
  /\ h.pc = "answered" => transitionFor(h.task.status, h.action)

HttpInv == \A u \in People : RequestInv(u)

\* What the Control Plane knows of a run, the Node did.
RunInv ==
  \A r \in Runs :
     /\ runs[r].attached => runs[r].status # "none"
     /\ runs[r].status = "completed" => work[r] = "completed"
     /\ r \in sent => work[r] \in Ended

IInv == TypeOK /\ CountInv /\ HttpInv /\ RunInv /\ NothingSkipped /\ CurrentAttempt

-----------------------------------------------------------------------------
(* Types.                                                                  *)

Policies == {"agent_outcome", "explicit_review"}
TaskRow == [status : TaskStates, gen : 0 .. NumRuns, cur : 0 .. NumRuns, policy : Policies]
CompletionRow == [run : Runs, gen : 0 .. NumRuns]
RunRow == [status : {"none", "queued", "running"} \union Ended, gen : 0 .. NumRuns, attached : BOOLEAN]
Served == [action : Actions \union {"none"}, pc : {"idle", "read", "created", "answered", "moved"},
           task : TaskRow, fresh : BOOLEAN, run : 0 .. NumRuns]

PlaneOK ==
  /\ task \in TaskRow
  /\ pending \in Seq(CompletionRow)
  /\ accepted \subseteq CompletionRow
  /\ runs \in [Runs -> RunRow]
  /\ asked \subseteq Reports /\ reports \subseteq Reports /\ forgotten \subseteq Reports
  /\ owned \in BOOLEAN

NodeOK ==
  /\ work \in [Runs -> {"none", "minted", "live", "refused", "gone"} \union Ended]
  /\ card \in [Runs -> {"none", "minted", "bound"}]
  /\ board \in [Runs -> Seq(Kinds)] /\ mark \in [Runs -> 0 .. MaxRows]
  /\ \A r \in Runs : Len(board[r]) <= MaxRows /\ mark[r] <= Len(board[r])
  /\ look \in [Runs -> 0 .. MaxRows \union {NotReading}]
  /\ outbox \subseteq Reports /\ missed \subseteq Reports
  /\ sent \subseteq Runs
  /\ given \in Nat /\ faults \in Nat

\* The bounds are numbers.
LEMMA BoundFacts == NumRuns \in Nat /\ MaxRows \in Nat /\ MaxRequests \in Nat /\ MaxFaults \in Nat
BY WorkdeskAssumption

\* TypeOK in its parts.
LEMMA TypeParts == TypeOK <=> PlaneOK /\ NodeOK /\ http \in [People -> Served]
BY DEF TypeOK, PlaneOK, NodeOK, Served, TaskRow, CompletionRow, RunRow, Policies

\* A request that was answered, and a task nobody started.
LEMMA AbsentFacts ==
  /\ NoTask \in TaskRow /\ NoTask.gen = 0
  /\ NoRequest \in Served /\ NoRequest.pc = "idle" /\ NoRequest.fresh = FALSE
  /\ NoRequest.task = NoTask
<1>1. NoTask \in TaskRow /\ NoTask.gen = 0
  BY BoundFacts DEF NoTask, TaskRow, TaskStates, Policies, NoRun
<1>2. NoRequest \in Served
  BY <1>1, BoundFacts DEF NoRequest, Served, NoRun
<1> QED
  BY <1>1, <1>2 DEF NoRequest

\* Where a transition is allowed, it leads to a state of a task.
LEMMA TransitionFacts ==
  ASSUME NEW s, NEW action \in Actions, transitionFor(s, action)
  PROVE  TRANSITIONS[action][s] \in TaskStates
<1> USE DEF transitionFor, TRANSITIONS, TaskStates
<1>1. CASE action = "mark_ready"
  BY <1>1
<1>2. CASE action = "return_to_backlog"
  BY <1>2
<1>3. CASE action = "start"
  BY <1>3
<1>4. CASE action = "cancel"
  BY <1>4
<1>5. CASE action = "complete"
  BY <1>5
<1>6. CASE action = "request_changes"
  BY <1>6
<1>7. CASE action = "reopen"
  BY <1>7
<1>8. CASE action = "answer_input"
  BY <1>8
<1> QED
  BY <1>1, <1>2, <1>3, <1>4, <1>5, <1>6, <1>7, <1>8 DEF Actions

\* To complete a task is a wish while it runs: no transition leads there.
LEMMA NoCompletionOfRunning == ~transitionFor("running", "complete")
BY DEF transitionFor, TRANSITIONS

\* What a write of the task does to the requests that are served.
LEMMA OutdatedFacts ==
  ASSUME NEW h \in [People -> Served]
  PROVE  /\ Outdated(h) \in [People -> Served]
         /\ \A u \in People :
              /\ Outdated(h)[u].fresh = FALSE
              /\ Outdated(h)[u].task = h[u].task /\ Outdated(h)[u].action = h[u].action
              /\ Outdated(h)[u].pc = h[u].pc /\ Outdated(h)[u].run = h[u].run
BY DEF Outdated, Served

-----------------------------------------------------------------------------
(* Counting.                                                               *)

\* The runs that are attached are counted; one that is not leaves room.
LEMMA AttachedFacts ==
  /\ IsFiniteSet(Attached) /\ Cardinality(Attached) \in Nat
  /\ Cardinality(Attached) <= NumRuns
  /\ \A r \in Runs \ Attached :
       /\ Cardinality(Attached \union {r}) = Cardinality(Attached) + 1
       /\ Cardinality(Attached) + 1 <= NumRuns
<1>1. 1 \in Int /\ NumRuns \in Int
  BY BoundFacts
<1>2. IsFiniteSet(1 .. NumRuns) /\ Cardinality(1 .. NumRuns) = IF 1 > NumRuns THEN 0 ELSE NumRuns - 1 + 1
  BY <1>1, FS_Interval, Zenon
<1>3. IsFiniteSet(Runs) /\ Cardinality(Runs) = NumRuns
  BY <1>2, BoundFacts DEF Runs
<1>4. \A S \in SUBSET Runs : IsFiniteSet(S) /\ Cardinality(S) <= NumRuns /\ Cardinality(S) \in Nat
  BY <1>3, FS_Subset, FS_CardinalityType
<1>5. Attached \in SUBSET Runs
  BY DEF Attached
<1>6. ASSUME NEW r \in Runs \ Attached
      PROVE  Cardinality(Attached \union {r}) = Cardinality(Attached) + 1 /\ Attached \union {r} \in SUBSET Runs
  BY <1>4, <1>5, FS_AddElement
<1> QED
  BY <1>4, <1>5, <1>6

-----------------------------------------------------------------------------
(* What a transaction of the Control Plane does to the desk it finds.      *)

DeskRow == [task : TaskRow, pending : Seq(CompletionRow), accepted : SUBSET CompletionRow]

\* The newest request that waits.
LEMMA LastFacts ==
  ASSUME NEW s \in Seq(CompletionRow), s # << >>
  PROVE  Last(s) \in CompletionRow /\ Front(s) \in Seq(CompletionRow)
<1>1. Len(s) \in Nat /\ Len(s) # 0
  OBVIOUS
<1>2. Last(s) \in CompletionRow
  BY <1>1 DEF Last
<1>3. SubSeq(s, 1, Len(s) - 1) \in Seq(CompletionRow)
  BY <1>1, SubSeqProperties
<1> QED
  BY <1>2, <1>3 DEF Front

\* Answering a request leaves the task.
LEMMA AnsweredFacts ==
  ASSUME NEW d \in DeskRow
  PROVE  /\ Answered(d) \in DeskRow
         /\ Answered(d).task = d.task /\ Answered(d).accepted = d.accepted
BY LastFacts DEF Answered, DeskRow

\* Moving a task leaves its attempt.
LEMMA MovedFacts ==
  ASSUME NEW d \in DeskRow, NEW from, NEW to \in TaskStates
  PROVE  /\ Moved(d, from, to) \in DeskRow
         /\ Moved(d, from, to).task.gen = d.task.gen /\ Moved(d, from, to).task.cur = d.task.cur
         /\ Moved(d, from, to).accepted = d.accepted /\ Moved(d, from, to).pending = d.pending
BY DEF Moved, DeskRow, TaskRow

\* The end of a run never moves the task to another attempt, and accepts a
\* request only where it is the run's own, for the attempt the task is at.
LEMMA SettleEffect ==
  ASSUME NEW d \in DeskRow, NEW open, NEW r \in Runs, NEW status \in Ended
  PROVE  LET e == settleTaskAfterRun(d, open, r, status) IN
         /\ e \in DeskRow
         /\ e.task.gen = d.task.gen /\ e.task.cur \in {d.task.cur, NoRun}
         /\ \A a \in e.accepted \ d.accepted :
              /\ status = "completed" /\ a.run = r /\ a.gen = d.task.gen
              /\ open = {} /\ d.task.policy = "agent_outcome"
<1> DEFINE e == settleTaskAfterRun(d, open, r, status)
           quiet == [Answered(Moved(d, {"running"}, status)) EXCEPT
                       !.task.cur = IF d.task.status = "running" THEN NoRun ELSE @]
           done == [Answered(Moved(d, {"running", "review"}, "completed")) EXCEPT
                       !.accepted = @ \union {Last(d.pending)}]
           Good(x) == /\ x \in DeskRow
                      /\ x.task.gen = d.task.gen /\ x.task.cur \in {d.task.cur, NoRun}
<1>1. status \in TaskStates /\ "review" \in TaskStates /\ "completed" \in TaskStates
  BY DEF Ended, TaskStates
<1>2. \A f, t : t \in TaskStates =>
         /\ Good(Moved(d, f, t)) /\ Good(Answered(Moved(d, f, t)))
         /\ Moved(d, f, t).accepted = d.accepted /\ Answered(Moved(d, f, t)).accepted = d.accepted
  BY MovedFacts, AnsweredFacts
<1>3. Good(Answered(d)) /\ Answered(d).accepted = d.accepted
  BY AnsweredFacts
<1>4. Good(quiet) /\ quiet.accepted = d.accepted
  <2> DEFINE x == Answered(Moved(d, {"running"}, status))
  <2>1. Good(x) /\ x.accepted = d.accepted
    BY <1>1, <1>2
  <2>2. NoRun \in 0 .. NumRuns
    BY BoundFacts DEF NoRun
  <2> HIDE DEF x
  <2>3. quiet = [x EXCEPT !.task.cur = IF d.task.status = "running" THEN NoRun ELSE @]
    BY DEF x
  <2> DEFINE row == [x.task EXCEPT !.cur = IF d.task.status = "running" THEN NoRun ELSE @]
  <2>4. x.task \in TaskRow /\ x \in DeskRow
    BY <2>1 DEF DeskRow
  <2>5. row \in TaskRow /\ row.gen = x.task.gen /\ row.cur \in {x.task.cur, NoRun}
    BY <2>2, <2>4 DEF TaskRow
  <2>6. quiet = [x EXCEPT !.task = row]
    BY <2>3
  <2> HIDE DEF row, quiet
  <2>7. quiet \in DeskRow /\ quiet.task = row /\ quiet.accepted = x.accepted
    BY <2>4, <2>5, <2>6 DEF DeskRow
  <2> QED
    BY <2>1, <2>5, <2>7
<1>5. ASSUME d.pending # << >>
      PROVE  Good(done) /\ done.accepted = d.accepted \union {Last(d.pending)}
  <2> DEFINE x == Answered(Moved(d, {"running", "review"}, "completed"))
  <2>1. Good(x) /\ x.accepted = d.accepted
    BY <1>1, <1>2
  <2>2. Last(d.pending) \in CompletionRow
    BY <1>5, LastFacts DEF DeskRow
  <2> HIDE DEF x
  <2>3. done = [x EXCEPT !.accepted = @ \union {Last(d.pending)}]
    BY DEF x
  <2> QED
    BY <2>1, <2>2, <2>3 DEF DeskRow
<1> HIDE DEF Good, quiet, done
<1>6. \/ e = quiet \/ e = Moved(d, {"running"}, "review") \/ e = Answered(d)
      \/ e = Answered(Moved(d, {"running"}, "review"))
      \/ /\ e = done /\ d.pending # << >> /\ status = "completed"
         /\ Last(d.pending).run = r /\ Last(d.pending).gen = d.task.gen
         /\ open = {} /\ d.task.policy = "agent_outcome"
  BY DEF settleTaskAfterRun, quiet, done
<1> HIDE DEF e
<1>7. CASE e = done /\ d.pending # << >> /\ status = "completed"
           /\ Last(d.pending).run = r /\ Last(d.pending).gen = d.task.gen
           /\ open = {} /\ d.task.policy = "agent_outcome"
  BY <1>5, <1>7 DEF e, Good
<1>8. CASE \/ e = quiet \/ e = Moved(d, {"running"}, "review") \/ e = Answered(d)
           \/ e = Answered(Moved(d, {"running"}, "review"))
  BY <1>1, <1>2, <1>3, <1>4, <1>8 DEF e, Good
<1> QED
  BY <1>6, <1>7, <1>8

\* A report moves no task to another attempt, and accepts nothing itself.
LEMMA ReportEffect ==
  ASSUME NEW d \in DeskRow, NEW rep \in Reports, PlaneOK
  PROVE  LET e == applyTaskReport(d, rep) IN
         /\ e \in DeskRow
         /\ e.task.gen = d.task.gen /\ e.task.cur = d.task.cur
         /\ e.accepted = d.accepted
         /\ Completes(board[rep[1]][rep[2]]) => e.task = d.task
<1> DEFINE row == [run |-> rep[1], gen |-> TaskAttachment(rep[1])]
           e == applyTaskReport(d, rep)
<1>1. row \in CompletionRow
  BY DEF Reports, TaskAttachment, PlaneOK, RunRow, CompletionRow
<1>2. [d EXCEPT !.pending = Append(@, row)] \in DeskRow
  <2> HIDE DEF row
  <2>1. Append(d.pending, row) \in Seq(CompletionRow)
    BY <1>1 DEF DeskRow
  <2> QED
    BY <2>1 DEF DeskRow
<1>3. "waiting_input" \in TaskStates
  BY DEF TaskStates
<1>4. CASE board[rep[1]][rep[2]] = "blocked"
  BY <1>3, <1>4, MovedFacts DEF applyTaskReport, Completes
<1>5. CASE Completes(board[rep[1]][rep[2]])
  BY <1>2, <1>5 DEF applyTaskReport, Completes, DeskRow
<1>6. CASE board[rep[1]][rep[2]] # "blocked" /\ ~Completes(board[rep[1]][rep[2]])
  BY <1>6 DEF applyTaskReport
<1> QED
  BY <1>4, <1>5, <1>6


\* A run gets a status, and keeps the rest.
LEMMA StatusFacts ==
  ASSUME PlaneOK, NEW r \in Runs, NEW s \in {"none", "queued", "running"} \union Ended,
         runs' = [runs EXCEPT ![r].status = s]
  PROVE  /\ runs' \in [Runs -> RunRow]
         /\ \A q \in Runs :
              /\ runs'[q].gen = runs[q].gen /\ runs'[q].attached = runs[q].attached
              /\ runs'[q].status = IF q = r THEN s ELSE runs[q].status
BY DEF PlaneOK, RunRow

\* What a transaction on the desk leaves behind.
Settled(ok) ==
  /\ task' \in TaskRow /\ pending' \in Seq(CompletionRow) /\ accepted' \subseteq CompletionRow
  /\ task'.gen = task.gen /\ task'.cur \in {task.cur, NoRun}
  /\ (http' = http /\ task' = task) \/ http' = Outdated(http)
  /\ \A a \in accepted' \ accepted :
       /\ a.run \in ok /\ a.gen = task.gen
       /\ asked = {} /\ task.policy = "agent_outcome"

\* The desk is one.
LEMMA DeskFacts ==
  ASSUME PlaneOK
  PROVE  /\ Desk \in DeskRow
         /\ Desk.task = task /\ Desk.pending = pending /\ Desk.accepted = accepted
BY DEF PlaneOK, Desk, DeskRow

\* What is committed is what the transaction left.
LEMMA CommitFacts ==
  ASSUME NEW e \in DeskRow, Commit(e)
  PROVE  /\ task' \in TaskRow /\ pending' \in Seq(CompletionRow) /\ accepted' \subseteq CompletionRow
         /\ task' = e.task /\ accepted' = e.accepted
         /\ (http' = http /\ task' = task) \/ http' = Outdated(http)
BY DEF Commit, DeskRow

\* The end of a run.
LEMMA EventEffect ==
  ASSUME PlaneOK, RunInv, NEW r \in Runs, handleEvent(r)
  PROVE  /\ work[r] \in Ended /\ runs' = [runs EXCEPT ![r].status = work[r]]
         /\ Settled({q \in Runs : work[q] = "completed"})
<1> DEFINE e == settleTaskAfterRun(Desk, asked, r, work[r])
           ok == {q \in Runs : work[q] = "completed"}
<1>1. work[r] \in Ended /\ runs' = [runs EXCEPT ![r].status = work[r]]
  BY DEF handleEvent, RunInv
<1>2. Commit(IF runs[r].attached THEN e ELSE Desk)
  BY DEF handleEvent
<1>3. /\ e \in DeskRow
      /\ e.task.gen = task.gen /\ e.task.cur \in {task.cur, NoRun}
      /\ \A a \in e.accepted \ accepted :
           /\ a.run = r /\ work[r] = "completed" /\ a.gen = task.gen
           /\ asked = {} /\ task.policy = "agent_outcome"
  <2>1. /\ e \in DeskRow
        /\ e.task.gen = Desk.task.gen /\ e.task.cur \in {Desk.task.cur, NoRun}
        /\ \A a \in e.accepted \ Desk.accepted :
             /\ work[r] = "completed" /\ a.run = r /\ a.gen = Desk.task.gen
             /\ asked = {} /\ Desk.task.policy = "agent_outcome"
    BY <1>1, DeskFacts, SettleEffect, Zenon
  <2> HIDE DEF e
  <2> QED
    BY <2>1, DeskFacts
<1> HIDE DEF e
<1>4. CASE runs[r].attached
  <2>1. Commit(e)
    BY <1>2, <1>4
  <2>2. /\ task' \in TaskRow /\ pending' \in Seq(CompletionRow) /\ accepted' \subseteq CompletionRow
        /\ task' = e.task /\ accepted' = e.accepted
        /\ (http' = http /\ task' = task) \/ http' = Outdated(http)
    BY <1>3, <2>1, CommitFacts
  <2>3. Settled(ok)
    BY <1>3, <2>2 DEF Settled
  <2> QED
    BY <1>1, <2>3
<1>5. CASE ~runs[r].attached
  <2>1. Commit(Desk)
    BY <1>2, <1>5
  <2>2. /\ task' \in TaskRow /\ pending' \in Seq(CompletionRow) /\ accepted' \subseteq CompletionRow
        /\ task' = task /\ accepted' = accepted
        /\ (http' = http /\ task' = task) \/ http' = Outdated(http)
    BY <2>1, DeskFacts, CommitFacts
  <2>3. Settled(ok)
    BY <2>2 DEF Settled
  <2> QED
    BY <1>1, <2>3
<1> QED
  BY <1>4, <1>5

\* A report, the first time or again.
LEMMA TaskReportEffect ==
  ASSUME PlaneOK, RunInv, NEW rep \in Reports, NEW id \in RunIds, handleTaskReport(rep, id)
  PROVE  Settled({q \in Runs : work[q] = "completed"})
<1> DEFINE ok == {q \in Runs : work[q] = "completed"}
           r == rep[1]
           d == applyTaskReport(Desk, rep)
           ends == Completes(board[r][rep[2]]) /\ runs[r].status \in Ended
           e == settleTaskAfterRun(d, asked, r, runs[r].status)
<1>1. CASE UNCHANGED <<task, pending, accepted, http, asked>>
  BY <1>1 DEF Settled, PlaneOK
<1>2. CASE Apply(rep)
  <2>1. Commit(IF ends THEN e ELSE d)
    BY <1>2 DEF Apply
  <2>2. /\ d \in DeskRow
        /\ d.task.gen = task.gen /\ d.task.cur = task.cur /\ d.accepted = accepted
        /\ Completes(board[r][rep[2]]) => d.task = task
    BY DeskFacts, ReportEffect
  <2> HIDE DEF d
  <2>3. ASSUME ends
        PROVE  /\ e \in DeskRow
               /\ e.task.gen = task.gen /\ e.task.cur \in {task.cur, NoRun}
               /\ \A a \in e.accepted \ accepted :
                    /\ a.run = r /\ runs[r].status = "completed" /\ a.gen = task.gen
                    /\ asked = {} /\ task.policy = "agent_outcome"
    <3>1. r \in Runs
      BY DEF Reports
    <3>2. /\ e \in DeskRow
          /\ e.task.gen = d.task.gen /\ e.task.cur \in {d.task.cur, NoRun}
          /\ \A a \in e.accepted \ d.accepted :
               /\ runs[r].status = "completed" /\ a.run = r /\ a.gen = d.task.gen
               /\ asked = {} /\ d.task.policy = "agent_outcome"
      BY <2>2, <2>3, <3>1, SettleEffect, Zenon
    <3> HIDE DEF e
    <3> QED
      BY <2>2, <2>3, <3>2
  <2> HIDE DEF e
  <2>4. CASE ends
    <3>1. /\ task' \in TaskRow /\ pending' \in Seq(CompletionRow) /\ accepted' \subseteq CompletionRow
          /\ task' = e.task /\ accepted' = e.accepted
          /\ (http' = http /\ task' = task) \/ http' = Outdated(http)
      BY <2>1, <2>3, <2>4, CommitFacts
    <3>2. runs[r].status = "completed" => r \in ok
      BY DEF Reports, RunInv
    <3> HIDE DEF ok
    <3> QED
      BY <2>3, <2>4, <3>1, <3>2 DEF Settled, ok
  <2>5. CASE ~ends
    <3>1. /\ task' \in TaskRow /\ pending' \in Seq(CompletionRow) /\ accepted' \subseteq CompletionRow
          /\ task' = d.task /\ accepted' = d.accepted
          /\ (http' = http /\ task' = task) \/ http' = Outdated(http)
      BY <2>1, <2>2, <2>5, CommitFacts
    <3> QED
      BY <2>2, <3>1 DEF Settled
  <2> QED
    BY <2>4, <2>5
<1> QED
  BY <1>1, <1>2 DEF handleTaskReport

-----------------------------------------------------------------------------
(* Every step keeps the types.                                             *)

\* The rows of the Control Plane.
LEMMA PlaneStep ==
  PlaneOK /\ NodeOK /\ http \in [People -> Served] /\ CountInv /\ HttpInv /\ RunInv /\ [Next]_vars => PlaneOK'
<1> SUFFICES ASSUME PlaneOK, NodeOK, http \in [People -> Served], CountInv, HttpInv, RunInv, [Next]_vars
             PROVE  PlaneOK'
  OBVIOUS
<1> USE BoundFacts, AbsentFacts
<1> USE DEF PlaneOK, planeVars, nodeVars
<1>1. ASSUME NEW u \in People, NEW action \in Actions, loadTaskForWork(u, action)
      PROVE  PlaneOK'
  BY <1>1 DEF loadTaskForWork
<1>2. ASSUME NEW u \in People, recordRequest(u)
      PROVE  PlaneOK'
  <2>1. http[u].task.cur \in Runs /\ http[u].task \in TaskRow
    BY <1>2, NoCompletionOfRunning DEF recordRequest, HttpInv, RequestInv, Wish, Served
  <2>2. [run |-> http[u].task.cur, gen |-> http[u].task.gen] \in CompletionRow
    BY <2>1 DEF CompletionRow, TaskRow
  <2>3. pending' \in Seq(CompletionRow)
    BY <1>2, <2>2 DEF recordRequest
  <2> QED
    BY <1>2, <2>3 DEF recordRequest
<1>3. ASSUME NEW u \in People, createRun(u)
      PROVE  PlaneOK'
  <2>1. PICK r \in Runs :
          /\ runs[r].status = "none"
          /\ runs' = [runs EXCEPT ![r] = [status |-> "queued", gen |-> http[u].task.gen + 1, attached |-> FALSE]]
    BY <1>3 DEF createRun
  <2>2. r \notin Attached
    BY <2>1 DEF Attached, RunInv
  <2>3. http[u].task.gen + 1 \in 0 .. NumRuns
    <3>1. http[u].task.gen \in 0 .. NumRuns /\ task.gen \in 0 .. NumRuns
      BY DEF Served, TaskRow
    <3>2. http[u].task.gen <= task.gen /\ task.gen <= Cardinality(Attached)
      BY DEF HttpInv, RequestInv, CountInv
    <3>3. Cardinality(Attached) + 1 <= NumRuns /\ Cardinality(Attached) \in Nat
      BY <2>2, AttachedFacts
    <3> QED
      BY <3>1, <3>2, <3>3
  <2>4. [status |-> "queued", gen |-> http[u].task.gen + 1, attached |-> FALSE] \in RunRow
    BY <2>3 DEF RunRow
  <2>5. runs' \in [Runs -> RunRow]
    BY <2>1, <2>4
  <2> QED
    BY <1>3, <2>5 DEF createRun
<1>4. ASSUME NEW u \in People, startRun(u)
      PROVE  PlaneOK'
  <2>1. http[u].run \in Runs /\ http[u].run \notin Attached
    BY <1>4 DEF startRun, HttpInv, RequestInv, Attached
  <2>2. task.gen + 1 \in 0 .. NumRuns
    <3>1. task.gen \in 0 .. NumRuns /\ task.gen <= Cardinality(Attached)
      BY DEF TaskRow, CountInv
    <3>2. Cardinality(Attached) + 1 <= NumRuns /\ Cardinality(Attached) \in Nat
      BY <2>1, AttachedFacts
    <3> QED
      BY <3>1, <3>2
  <2>3. runs' \in [Runs -> RunRow]
    BY <1>4, <2>1 DEF startRun, RunRow
  <2>4. [task EXCEPT !.status = "running", !.gen = @ + 1, !.cur = http[u].run] \in TaskRow
    <3>1. http[u].run \in 0 .. NumRuns /\ "running" \in TaskStates
      BY <2>1 DEF Runs, TaskStates
    <3> QED
      BY <2>2, <3>1 DEF TaskRow
  <2>5. task' \in TaskRow
    BY <1>4, <2>4 DEF startRun
  <2> QED
    BY <1>4, <2>3, <2>5 DEF startRun
<1>5. ASSUME NEW u \in People, answerInputRequest(u)
      PROVE  PlaneOK'
  <2>1. asked' \subseteq Reports
    BY <1>5 DEF answerInputRequest
  <2> QED
    BY <1>5, <2>1 DEF answerInputRequest
<1>6. ASSUME NEW u \in People, applyTransition(u)
      PROVE  PlaneOK'
  <2>1. CASE UNCHANGED task
    BY <1>6, <2>1 DEF applyTransition
  <2>2. CASE ~UNCHANGED task
    <3>1. transitionFor(http[u].task.status, http[u].action) /\ http[u].action \in Actions
      BY <1>6 DEF applyTransition, HttpInv, RequestInv, Served
    <3>2. TRANSITIONS[http[u].action][http[u].task.status] \in TaskStates
      BY <3>1, TransitionFacts
    <3>3. task' = [task EXCEPT !.status = TRANSITIONS[http[u].action][http[u].task.status],
                               !.cur = IF Leaves(http[u].action) THEN NoRun ELSE @]
      BY <1>6, <2>2 DEF applyTransition
    <3>4. task' \in TaskRow
      BY <3>2, <3>3 DEF TaskRow, NoRun
    <3> QED
      BY <1>6, <3>4 DEF applyTransition
  <2> QED
    BY <2>1, <2>2
<1>7. ASSUME NEW u \in People, settleRequest(u)
      PROVE  PlaneOK'
  BY <1>7, LastFacts DEF settleRequest
<1>8. CASE editFields
  BY <1>8 DEF editFields, TaskRow, Policies
<1>9. CASE EnrolledAnew
  BY <1>9 DEF EnrolledAnew, Fault
<1>10. ASSUME NEW r \in Runs, mint_task_card(r)
      PROVE  PlaneOK'
  BY <1>10 DEF mint_task_card, Fault
<1>11. ASSUME NEW r \in Runs, create_run(r)
      PROVE  PlaneOK'
  BY <1>11 DEF create_run, Fault
<1>12. ASSUME NEW r \in Runs, record_binding(r)
      PROVE  PlaneOK'
  BY <1>12 DEF record_binding
<1>13. ASSUME NEW r \in Runs, applyCommandOutcome(r)
      PROVE  PlaneOK'
  <2>1. runs' \in [Runs -> RunRow]
    BY <1>13, StatusFacts DEF applyCommandOutcome, Ended
  <2> QED
    BY <1>13, <2>1 DEF applyCommandOutcome
<1>14. ASSUME NEW r \in Runs, CrashInCommand(r)
      PROVE  PlaneOK'
  BY <1>14 DEF CrashInCommand, Fault
<1>15. ASSUME NEW r \in Runs, NEW kind \in Kinds, AgentReports(r, kind)
      PROVE  PlaneOK'
  BY <1>15 DEF AgentReports
<1>16. ASSUME NEW r \in Runs, NEW outcome \in Outcomes, RunEnds(r, outcome)
      PROVE  PlaneOK'
  BY <1>16 DEF RunEnds
<1>17. ASSUME NEW r \in Runs, read_card(r)
      PROVE  PlaneOK'
  BY <1>17 DEF read_card
<1>18. ASSUME NEW r \in Runs, pump_task_boards(r)
      PROVE  PlaneOK'
  BY <1>18 DEF pump_task_boards
<1>19. ASSUME NEW r \in Runs, pump_subscriptions(r)
      PROVE  PlaneOK'
  BY <1>19 DEF pump_subscriptions
<1>20. ASSUME NEW r \in Runs, handleEvent(r)
      PROVE  PlaneOK'
  <2>1. runs' \in [Runs -> RunRow]
    BY <1>20, EventEffect, StatusFacts
  <2> QED
    BY <1>20, <2>1, EventEffect DEF handleEvent, Settled
<1>21. ASSUME NEW rep \in Reports, NEW id \in RunIds, handleTaskReport(rep, id)
      PROVE  PlaneOK'
  <2>1. asked' \subseteq Reports /\ reports' \subseteq Reports /\ forgotten' \subseteq Reports
    BY <1>21 DEF handleTaskReport, Apply
  <2> QED
    BY <1>21, <2>1, TaskReportEffect DEF handleTaskReport, Settled
<1>22. ASSUME NEW rep \in Reports, acknowledge_outbox_correlation(rep)
      PROVE  PlaneOK'
  BY <1>22 DEF acknowledge_outbox_correlation
<1>23. CASE UNCHANGED vars
  BY <1>23 DEF vars
<1> QED
  BY <1>1, <1>2, <1>3, <1>4, <1>5, <1>6, <1>7, <1>8, <1>9, <1>10, <1>11, <1>12, <1>13,
     <1>14, <1>15, <1>16, <1>17, <1>18, <1>19, <1>20, <1>21, <1>22, <1>23
  DEF Next, Request, Command, Agent, Pump, Report


\* A pass over a card: the mark moves within the rows, and no further than what
\* it queued or what landed inside it.
Drained(r) ==
  /\ outbox' \subseteq Reports /\ outbox \subseteq outbox'
  /\ missed' \subseteq Reports /\ missed \subseteq missed'
  /\ mark' \in [Runs -> 0 .. MaxRows] /\ faults' \in Nat
  /\ \A q \in Runs : mark'[q] <= Len(board[q]) /\ (q # r => mark'[q] = mark[q])
  /\ \A i \in 1 .. mark'[r] : i > mark[r] /\ Said(r, i) => stamp(r, i) \in outbox' \union missed'

LEMMA DrainEffect ==
  ASSUME NodeOK, NEW r \in Runs, NEW k \in Int, drain_task_board(r, k)
  PROVE  Drained(r)
<1> USE BoundFacts
<1>0. mark[r] \in 0 .. MaxRows /\ Len(board[r]) \in Nat /\ Len(board[r]) <= MaxRows /\ mark[r] <= Len(board[r])
  BY DEF NodeOK
<1>1. CASE UNCHANGED <<outbox, mark, missed, faults>>
  BY <1>0, <1>1 DEF NodeOK, Drained
<1>2. ASSUME NEW m \in mark[r] .. Len(board[r]), enqueue_report(r, k, m), faults' \in Nat
      PROVE  Drained(r)
  <2>1. m \in 0 .. MaxRows /\ m <= Len(board[r])
    BY <1>0
  <2>2. /\ mark' = [mark EXCEPT ![r] = IF m > mark[r] THEN m ELSE mark[r]]
        /\ outbox' = outbox \union read_board(r, k, m)
        /\ missed' = missed \union landed_between(r, k, m)
    BY <1>2 DEF enqueue_report, advance_marks
  <2>3. mark' \in [Runs -> 0 .. MaxRows] /\ mark'[r] = m /\ \A q \in Runs : q # r => mark'[q] = mark[q]
    BY <1>0, <2>1, <2>2 DEF NodeOK
  <2>4. read_board(r, k, m) \subseteq Reports /\ landed_between(r, k, m) \subseteq Reports
    BY <1>0, <2>1 DEF read_board, landed_between, stamp, Reports
  <2>5. ASSUME NEW i \in 1 .. m, i > mark[r], Said(r, i)
        PROVE  stamp(r, i) \in read_board(r, k, m) \union landed_between(r, k, m)
    <3>1. i \in mark[r] + 1 .. m
      BY <1>0, <2>1, <2>5
    <3>2. CASE i > k
      BY <2>5, <3>1, <3>2 DEF landed_between
    <3>3. CASE i <= k
      <4>1. result_at(r, i) => result_at(r, k)
        BY <3>3 DEF result_at
      <4>2. report_for_event(board[r][i], result_at(r, k))
        BY <2>5, <4>1 DEF Said, report_for_event
      <4> QED
        BY <3>1, <4>2 DEF read_board
    <3> QED
      BY <2>1, <3>2, <3>3
  <2>6. \A q \in Runs : mark'[q] <= Len(board[q])
    BY <2>1, <2>3 DEF NodeOK
  <2> QED
    BY <1>2, <2>2, <2>3, <2>4, <2>5, <2>6 DEF NodeOK, Drained
<1>3. CASE enqueue_report(r, k, Len(board[r])) /\ UNCHANGED faults
  <2>1. Len(board[r]) \in mark[r] .. Len(board[r]) /\ faults' \in Nat
    BY <1>0, <1>3 DEF NodeOK
  <2> QED
    BY <1>2, <1>3, <2>1
<1>4. CASE Fault /\ \E m \in mark[r] .. Len(board[r]) : enqueue_report(r, k, m)
  <2>1. PICK m \in mark[r] .. Len(board[r]) : enqueue_report(r, k, m)
    BY <1>4
  <2>2. faults' \in Nat
    BY <1>4 DEF Fault, NodeOK
  <2> QED
    BY <1>2, <2>1, <2>2
<1> QED
  BY <1>1, <1>3, <1>4 DEF drain_task_board, drain_card

\* Both passes are one, with the columns read before or at the rows.
LEMMA PassEffect ==
  ASSUME NodeOK, NEW r \in Runs, pump_task_boards(r) \/ pump_subscriptions(r)
  PROVE  Drained(r)
<1>1. look[r] \in Int /\ Len(board[r]) \in Int
  BY BoundFacts DEF NodeOK, NotReading
<1> QED
  BY <1>1, DrainEffect DEF pump_task_boards, pump_subscriptions

\* The cards, the board, the marks and the outbox.
LEMMA NodeStep ==
  NodeOK /\ [Next]_vars => NodeOK'
<1> SUFFICES ASSUME NodeOK, [Next]_vars
             PROVE  NodeOK'
  OBVIOUS
<1> USE BoundFacts, WorkdeskAssumption
<1> USE DEF NodeOK, planeVars, nodeVars
<1>1. ASSUME NEW u \in People, NEW action \in Actions, loadTaskForWork(u, action)
      PROVE  NodeOK'
  BY <1>1 DEF loadTaskForWork
<1>2. ASSUME NEW u \in People, recordRequest(u)
      PROVE  NodeOK'
  BY <1>2 DEF recordRequest
<1>3. ASSUME NEW u \in People, createRun(u)
      PROVE  NodeOK'
  BY <1>3 DEF createRun
<1>4. ASSUME NEW u \in People, startRun(u)
      PROVE  NodeOK'
  BY <1>4 DEF startRun
<1>5. ASSUME NEW u \in People, answerInputRequest(u)
      PROVE  NodeOK'
  BY <1>5 DEF answerInputRequest
<1>6. ASSUME NEW u \in People, applyTransition(u)
      PROVE  NodeOK'
  BY <1>6 DEF applyTransition
<1>7. ASSUME NEW u \in People, settleRequest(u)
      PROVE  NodeOK'
  BY <1>7 DEF settleRequest
<1>8. CASE editFields
  BY <1>8 DEF editFields
<1>9. CASE EnrolledAnew
  BY <1>9 DEF EnrolledAnew, Fault
<1>10. ASSUME NEW r \in Runs, mint_task_card(r)
      PROVE  NodeOK'
  <2>1. work' \in [Runs -> {"none", "minted", "live", "refused", "gone"} \union Ended]
    BY <1>10 DEF mint_task_card
  <2>2. card' \in [Runs -> {"none", "minted", "bound"}]
    BY <1>10 DEF mint_task_card, mint_card
  <2>3. faults' \in Nat
    BY <1>10 DEF mint_task_card, Fault
  <2> QED
    BY <1>10, <2>1, <2>2, <2>3 DEF mint_task_card
<1>11. ASSUME NEW r \in Runs, create_run(r)
      PROVE  NodeOK'
  <2>1. work' \in [Runs -> {"none", "minted", "live", "refused", "gone"} \union Ended]
    BY <1>11 DEF create_run
  <2>2. faults' \in Nat
    BY <1>11 DEF create_run, Fault
  <2> QED
    BY <1>11, <2>1, <2>2 DEF create_run
<1>12. ASSUME NEW r \in Runs, record_binding(r)
      PROVE  NodeOK'
  BY <1>12 DEF record_binding
<1>13. ASSUME NEW r \in Runs, applyCommandOutcome(r)
      PROVE  NodeOK'
  BY <1>13 DEF applyCommandOutcome
<1>14. ASSUME NEW r \in Runs, CrashInCommand(r)
      PROVE  NodeOK'
  BY <1>14 DEF CrashInCommand, Fault
<1>15. ASSUME NEW r \in Runs, NEW kind \in Kinds, AgentReports(r, kind)
      PROVE  NodeOK'
  <2>1. Append(board[r], kind) \in Seq(Kinds) /\ Len(Append(board[r], kind)) = Len(board[r]) + 1
    OBVIOUS
  <2>2. /\ board' = [board EXCEPT ![r] = Append(board[r], kind)]
        /\ Len(board[r]) < MaxRows
        /\ UNCHANGED <<work, card, mark, look, outbox, sent, missed, given, faults>>
    BY <1>15 DEF AgentReports
  <2>3. Len(board[r]) + 1 <= MaxRows /\ mark[r] <= Len(board[r]) + 1
    BY <2>2
  <2>4. board' \in [Runs -> Seq(Kinds)]
    BY <2>1, <2>2
  <2>5. \A q \in Runs : Len(board'[q]) <= MaxRows /\ mark[q] <= Len(board'[q])
    BY <2>1, <2>2, <2>3
  <2> QED
    BY <2>2, <2>4, <2>5
<1>16. ASSUME NEW r \in Runs, NEW outcome \in Outcomes, RunEnds(r, outcome)
      PROVE  NodeOK'
  BY <1>16 DEF RunEnds, Ended
<1>17. ASSUME NEW r \in Runs, read_card(r)
      PROVE  NodeOK'
  BY <1>17 DEF read_card
<1>18. ASSUME NEW r \in Runs, pump_task_boards(r)
      PROVE  NodeOK'
  BY <1>18, PassEffect DEF pump_task_boards, Drained, NotReading
<1>19. ASSUME NEW r \in Runs, pump_subscriptions(r)
      PROVE  NodeOK'
  BY <1>19, PassEffect DEF pump_subscriptions, Drained
<1>20. ASSUME NEW r \in Runs, handleEvent(r)
      PROVE  NodeOK'
  BY <1>20 DEF handleEvent
<1>21. ASSUME NEW rep \in Reports, NEW id \in RunIds, handleTaskReport(rep, id)
      PROVE  NodeOK'
  BY <1>21 DEF handleTaskReport
<1>22. ASSUME NEW rep \in Reports, acknowledge_outbox_correlation(rep)
      PROVE  NodeOK'
  BY <1>22 DEF acknowledge_outbox_correlation
<1>23. CASE UNCHANGED vars
  BY <1>23 DEF vars
<1> QED
  BY <1>1, <1>2, <1>3, <1>4, <1>5, <1>6, <1>7, <1>8, <1>9, <1>10, <1>11, <1>12, <1>13,
     <1>14, <1>15, <1>16, <1>17, <1>18, <1>19, <1>20, <1>21, <1>22, <1>23
  DEF Next, Request, Command, Agent, Pump, Report

\* The requests that are served.
LEMMA ServedStep ==
  PlaneOK /\ RunInv /\ http \in [People -> Served] /\ [Next]_vars => http' \in [People -> Served]
<1> SUFFICES ASSUME PlaneOK, RunInv, http \in [People -> Served], [Next]_vars
             PROVE  http' \in [People -> Served]
  OBVIOUS
<1> USE BoundFacts, AbsentFacts
<1> USE DEF planeVars, nodeVars
<1>1. ASSUME NEW u \in People, NEW action \in Actions, loadTaskForWork(u, action)
      PROVE  http' \in [People -> Served]
  <2>1. [NoRequest EXCEPT !.action = action, !.pc = "read", !.task = task, !.fresh = TRUE] \in Served
    BY DEF Served, PlaneOK
  <2> QED
    BY <1>1, <2>1 DEF loadTaskForWork
<1>2. ASSUME NEW u \in People, recordRequest(u)
      PROVE  http' \in [People -> Served]
  BY <1>2 DEF recordRequest
<1>3. ASSUME NEW u \in People, createRun(u)
      PROVE  http' \in [People -> Served]
  <2>1. PICK r \in Runs : http' = [http EXCEPT ![u].pc = "created", ![u].run = r]
    BY <1>3 DEF createRun
  <2>2. r \in 0 .. NumRuns
    BY DEF Runs
  <2> QED
    BY <2>1, <2>2 DEF Served
<1>4. ASSUME NEW u \in People, startRun(u)
      PROVE  http' \in [People -> Served]
  <2>1. [http EXCEPT ![u] = NoRequest] \in [People -> Served]
    OBVIOUS
  <2> QED
    BY <1>4, <2>1, OutdatedFacts DEF startRun
<1>5. ASSUME NEW u \in People, answerInputRequest(u)
      PROVE  http' \in [People -> Served]
  <2>1. [http EXCEPT ![u] = NoRequest] \in [People -> Served]
    OBVIOUS
  <2>2. [http EXCEPT ![u].pc = "answered"] \in [People -> Served]
    BY DEF Served
  <2> QED
    BY <1>5, <2>1, <2>2 DEF answerInputRequest
<1>6. ASSUME NEW u \in People, applyTransition(u)
      PROVE  http' \in [People -> Served]
  <2>1. [http EXCEPT ![u] = NoRequest] \in [People -> Served]
    OBVIOUS
  <2>2. [http EXCEPT ![u].pc = "moved"] \in [People -> Served]
    BY DEF Served
  <2> QED
    <3>1. \/ http' = [http EXCEPT ![u] = NoRequest]
          \/ http' = Outdated([http EXCEPT ![u] = NoRequest])
          \/ http' = Outdated([http EXCEPT ![u].pc = "moved"])
      BY <1>6 DEF applyTransition
    <3> QED
      BY <2>1, <2>2, <3>1, OutdatedFacts
<1>7. ASSUME NEW u \in People, settleRequest(u)
      PROVE  http' \in [People -> Served]
  BY <1>7 DEF settleRequest
<1>8. CASE editFields
  BY <1>8, OutdatedFacts DEF editFields
<1>9. CASE EnrolledAnew
  BY <1>9 DEF EnrolledAnew, Fault
<1>10. ASSUME NEW r \in Runs, mint_task_card(r)
      PROVE  http' \in [People -> Served]
  BY <1>10 DEF mint_task_card, Fault
<1>11. ASSUME NEW r \in Runs, create_run(r)
      PROVE  http' \in [People -> Served]
  BY <1>11 DEF create_run, Fault
<1>12. ASSUME NEW r \in Runs, record_binding(r)
      PROVE  http' \in [People -> Served]
  BY <1>12 DEF record_binding
<1>13. ASSUME NEW r \in Runs, applyCommandOutcome(r)
      PROVE  http' \in [People -> Served]
  BY <1>13 DEF applyCommandOutcome
<1>14. ASSUME NEW r \in Runs, CrashInCommand(r)
      PROVE  http' \in [People -> Served]
  BY <1>14 DEF CrashInCommand, Fault
<1>15. ASSUME NEW r \in Runs, NEW kind \in Kinds, AgentReports(r, kind)
      PROVE  http' \in [People -> Served]
  BY <1>15 DEF AgentReports
<1>16. ASSUME NEW r \in Runs, NEW outcome \in Outcomes, RunEnds(r, outcome)
      PROVE  http' \in [People -> Served]
  BY <1>16 DEF RunEnds
<1>17. ASSUME NEW r \in Runs, read_card(r)
      PROVE  http' \in [People -> Served]
  BY <1>17 DEF read_card
<1>18. ASSUME NEW r \in Runs, pump_task_boards(r)
      PROVE  http' \in [People -> Served]
  BY <1>18 DEF pump_task_boards
<1>19. ASSUME NEW r \in Runs, pump_subscriptions(r)
      PROVE  http' \in [People -> Served]
  BY <1>19 DEF pump_subscriptions
<1>20. ASSUME NEW r \in Runs, handleEvent(r)
      PROVE  http' \in [People -> Served]
  BY <1>20, EventEffect, OutdatedFacts DEF Settled
<1>21. ASSUME NEW rep \in Reports, NEW id \in RunIds, handleTaskReport(rep, id)
      PROVE  http' \in [People -> Served]
  BY <1>21, TaskReportEffect, OutdatedFacts DEF Settled
<1>22. ASSUME NEW rep \in Reports, acknowledge_outbox_correlation(rep)
      PROVE  http' \in [People -> Served]
  BY <1>22 DEF acknowledge_outbox_correlation
<1>23. CASE UNCHANGED vars
  BY <1>23 DEF vars
<1> QED
  BY <1>1, <1>2, <1>3, <1>4, <1>5, <1>6, <1>7, <1>8, <1>9, <1>10, <1>11, <1>12, <1>13,
     <1>14, <1>15, <1>16, <1>17, <1>18, <1>19, <1>20, <1>21, <1>22, <1>23
  DEF Next, Request, Command, Agent, Pump, Report


\* Every step keeps the types.
LEMMA TypeOKStep ==
  TypeOK /\ CountInv /\ HttpInv /\ RunInv /\ [Next]_vars => TypeOK'
<1> SUFFICES ASSUME TypeOK, CountInv, HttpInv, RunInv, [Next]_vars
             PROVE  TypeOK'
  OBVIOUS
<1>1. PlaneOK /\ NodeOK /\ http \in [People -> Served]
  BY TypeParts
<1>2. PlaneOK' /\ NodeOK' /\ http' \in [People -> Served]
  BY <1>1, PlaneStep, NodeStep, ServedStep
<1> QED
  BY <1>2 DEF TypeOK, PlaneOK, NodeOK, Served, TaskRow, CompletionRow, RunRow, Policies

-----------------------------------------------------------------------------
(* The invariants.                                                         *)


\* What somebody else does leaves a request as it was, or outdated: the task has
\* the same or a later generation, and a run keeps what it is.
LEMMA OthersRequests ==
  ASSUME http \in [People -> Served], HttpInv,
         (http' = http /\ task' = task) \/ http' = Outdated(http),
         task \in TaskRow, task' \in TaskRow, task'.gen >= task.gen,
         \A q \in Runs : /\ runs'[q].gen = runs[q].gen /\ runs'[q].attached = runs[q].attached
                         /\ runs[q].status # "none" => runs'[q].status # "none"
  PROVE  HttpInv'
<1>1. SUFFICES ASSUME NEW u \in People PROVE RequestInv(u)'
  BY DEF HttpInv
<1>2. /\ \A v \in People :
           /\ http'[v].task = http[v].task /\ http'[v].pc = http[v].pc
           /\ http'[v].action = http[v].action /\ http'[v].run = http[v].run
      /\ http'[u].fresh => http[u].fresh /\ task' = task
  <2>1. CASE http' = http /\ task' = task
    BY <2>1
  <2>2. CASE http' = Outdated(http)
    BY <2>2, OutdatedFacts
  <2> QED
    BY <2>1, <2>2
<1>3. http[u].task.gen <= task'.gen
  BY DEF HttpInv, RequestInv, TaskRow, Served
<1>4. RequestInv(u)
  BY DEF HttpInv
<1> QED
  BY <1>2, <1>3, <1>4 DEF RequestInv, Wish


\* A request that is answered leaves the others as they are.
LEMMA DroppedRequest ==
  ASSUME http \in [People -> Served], HttpInv, NEW u \in People, task \in TaskRow,
         http' = [http EXCEPT ![u] = NoRequest], UNCHANGED <<task, runs>>
  PROVE  HttpInv'
<1>1. SUFFICES ASSUME NEW v \in People PROVE RequestInv(v)'
  BY DEF HttpInv
<1>2. RequestInv(v)
  BY DEF HttpInv
<1>3. http'[u].pc = "idle" /\ http'[u].fresh = FALSE /\ http'[u].task.gen = 0
  BY AbsentFacts
<1>4. CASE v = u
  BY <1>3, <1>4, BoundFacts DEF RequestInv, TaskRow
<1>5. CASE v # u
  BY <1>2, <1>3, <1>5 DEF RequestInv, Wish
<1> QED
  BY <1>4, <1>5

\* A request holds what it read until somebody writes the task.
LEMMA HttpStep ==
  PlaneOK /\ NodeOK /\ http \in [People -> Served] /\ CountInv /\ HttpInv /\ RunInv /\ [Next]_vars => HttpInv'
<1> SUFFICES ASSUME PlaneOK, NodeOK, http \in [People -> Served], CountInv, HttpInv, RunInv, [Next]_vars
             PROVE  HttpInv'
  OBVIOUS
<1> USE DEF planeVars, nodeVars
<1>1. ASSUME NEW u \in People, NEW action \in Actions, loadTaskForWork(u, action)
      PROVE  HttpInv'
  <2>1. /\ http' = [http EXCEPT ![u] = [NoRequest EXCEPT !.action = action, !.pc = "read", !.task = task, !.fresh = TRUE]]
        /\ UNCHANGED <<task, runs>>
    BY <1>1 DEF loadTaskForWork
  <2>2. \/ transitionFor(task.status, action)
        \/ action = "complete" /\ task.status = "running" /\ task.cur # NoRun
        \/ action = "answer_input"
    BY <1>1 DEF loadTaskForWork
  <2>3. task.cur # NoRun => task.cur \in Runs
    BY BoundFacts DEF PlaneOK, TaskRow, NoRun, Runs
  <2>4. http'[u].action = action /\ http'[u].pc = "read" /\ http'[u].task = task
    BY <2>1, AbsentFacts DEF Served
  <2>5. RequestInv(u)'
    BY <2>1, <2>2, <2>3, <2>4 DEF RequestInv, Wish, PlaneOK, TaskRow
  <2>6. ASSUME NEW v \in People, v # u PROVE RequestInv(v)'
    <3>1. RequestInv(v)
      BY DEF HttpInv
    <3> QED
      BY <2>1, <2>4, <2>6, <3>1 DEF RequestInv, Wish
  <2> QED
    BY <2>5, <2>6 DEF HttpInv
<1>2. ASSUME NEW u \in People, recordRequest(u)
      PROVE  HttpInv'
  <2>1. http' = [http EXCEPT ![u] = NoRequest] /\ UNCHANGED <<task, runs>>
    BY <1>2 DEF recordRequest
  <2> QED
    BY <2>1, DroppedRequest DEF PlaneOK
<1>3. ASSUME NEW u \in People, createRun(u)
      PROVE  HttpInv'
  <2>1. PICK r \in Runs :
          /\ runs[r].status = "none"
          /\ runs' = [runs EXCEPT ![r] = [status |-> "queued", gen |-> http[u].task.gen + 1, attached |-> FALSE]]
          /\ http' = [http EXCEPT ![u].pc = "created", ![u].run = r]
          /\ http[u].action = "start" /\ UNCHANGED task
    BY <1>3 DEF createRun
  <2>2. /\ http'[u] = [http[u] EXCEPT !.pc = "created", !.run = r]
        /\ \A v \in People \ {u} : http'[v] = http[v]
    BY <2>1
  <2>3. /\ http'[u].pc = "created" /\ http'[u].run = r /\ http'[u].task = http[u].task
        /\ http'[u].action = "start" /\ http'[u].fresh = http[u].fresh
    BY <2>1, <2>2 DEF Served
  <2>4. /\ runs'[r].status = "queued" /\ runs'[r].gen = http[u].task.gen + 1 /\ ~runs'[r].attached
        /\ \A q \in Runs \ {r} : runs'[q] = runs[q]
    BY <2>1 DEF PlaneOK
  <2>5. \A v \in People : http[v].pc = "created" => http[v].run # r
    BY <2>1 DEF HttpInv, RequestInv
  <2>6. RequestInv(u)'
    <3>1. RequestInv(u)
      BY DEF HttpInv
    <3> QED
      BY <2>1, <2>2, <2>3, <2>4, <2>5, <3>1 DEF RequestInv, Actions
  <2>7. ASSUME NEW v \in People, v # u PROVE RequestInv(v)'
    <3>1. RequestInv(v)
      BY DEF HttpInv
    <3>2. http[v].pc = "created" => http[v].run # r /\ http[v].run \in Runs
      BY <2>5, <3>1 DEF RequestInv
    <3> QED
      BY <2>1, <2>2, <2>3, <2>4, <2>7, <3>1, <3>2 DEF RequestInv, Wish
  <2> QED
    BY <2>6, <2>7 DEF HttpInv
<1>4. ASSUME NEW u \in People, startRun(u)
      PROVE  HttpInv'
  <2>1. http[u].pc = "created" /\ http[u].run \in Runs /\ RequestInv(u)
    BY <1>4 DEF startRun, HttpInv, RequestInv
  <2>2. runs' = [runs EXCEPT ![http[u].run].attached = TRUE]
    BY <1>4 DEF startRun
  <2>3. \A q \in Runs : /\ runs'[q].gen = runs[q].gen /\ runs'[q].status = runs[q].status
                        /\ q # http[u].run => runs'[q].attached = runs[q].attached
    BY <2>1, <2>2 DEF PlaneOK, RunRow
  <2>4. [http EXCEPT ![u] = NoRequest] \in [People -> Served]
    BY AbsentFacts
  <2>5. /\ http'[u].pc = "idle" /\ http'[u].fresh = FALSE /\ http'[u].task = NoTask
        /\ \A v \in People \ {u} :
             /\ http'[v].task = http[v].task /\ http'[v].pc = http[v].pc
             /\ http'[v].action = http[v].action /\ http'[v].run = http[v].run
             /\ http'[v].fresh => http[v].fresh /\ task' = task
    <3> DEFINE done == [http EXCEPT ![u] = NoRequest]
    <3>1. done[u] = NoRequest /\ \A v \in People \ {u} : done[v] = http[v]
      OBVIOUS
    <3>2. (http' = done /\ task' = task) \/ http' = Outdated(done)
      BY <1>4 DEF startRun
    <3> HIDE DEF done
    <3>3. CASE http' = done /\ task' = task
      BY <3>1, <3>3, AbsentFacts
    <3>4. CASE http' = Outdated(done)
      <4>1. done \in [People -> Served]
        BY <2>4 DEF done
      <4>2. \A v \in People :
               /\ http'[v].task = done[v].task /\ http'[v].pc = done[v].pc
               /\ http'[v].action = done[v].action /\ http'[v].run = done[v].run
               /\ http'[v].fresh = FALSE
        BY <3>4, <4>1, OutdatedFacts
      <4> QED
        BY <3>1, <4>2, AbsentFacts
    <3> QED
      BY <3>2, <3>3, <3>4
  <2>6. task'.gen >= task.gen /\ task.gen \in Nat /\ task'.gen \in Nat
    <3>1. task.gen \in Nat
      BY BoundFacts DEF PlaneOK, TaskRow
    <3>2. task' = task \/ task' = [task EXCEPT !.status = "running", !.gen = @ + 1, !.cur = http[u].run]
      BY <1>4 DEF startRun
    <3>3. task'.gen \in {task.gen, task.gen + 1}
      BY <3>2 DEF PlaneOK, TaskRow
    <3> QED
      BY <3>1, <3>3
  <2>7. RequestInv(u)'
    BY <2>5, <2>6, AbsentFacts DEF RequestInv
  <2>8. ASSUME NEW v \in People, v # u PROVE RequestInv(v)'
    <3>1. RequestInv(v) /\ http[v].task.gen \in Nat
      BY BoundFacts DEF HttpInv, Served, TaskRow
    <3>2. http[v].pc = "created" => http[v].run # http[u].run
      BY <2>1, <2>8 DEF RequestInv
    <3>3. http'[v].task.gen <= task'.gen
      BY <2>5, <2>6, <2>8, <3>1 DEF RequestInv
    <3> QED
      BY <2>3, <2>5, <2>8, <3>1, <3>2, <3>3 DEF RequestInv, Wish
  <2> QED
    BY <2>7, <2>8 DEF HttpInv
<1>5. ASSUME NEW u \in People, answerInputRequest(u)
      PROVE  HttpInv'
  <2>1. UNCHANGED <<task, runs>>
    BY <1>5 DEF answerInputRequest
  <2>2. CASE http' = [http EXCEPT ![u] = NoRequest]
    BY <2>1, <2>2, DroppedRequest DEF PlaneOK
  <2>3. CASE http' = [http EXCEPT ![u].pc = "answered"] /\ http[u].action = "answer_input"
             /\ transitionFor(http[u].task.status, "answer_input")
    <3>1. /\ http'[u].pc = "answered" /\ http'[u].task = http[u].task /\ http'[u].action = http[u].action
          /\ http'[u].fresh = http[u].fresh
          /\ \A v \in People \ {u} : http'[v] = http[v]
      BY <2>3 DEF Served
    <3>2. ASSUME NEW v \in People PROVE RequestInv(v)'
      <4>1. RequestInv(v)
        BY DEF HttpInv
      <4> QED
        BY <2>1, <2>3, <3>1, <4>1 DEF RequestInv, Wish, Actions
    <3> QED
      BY <3>2 DEF HttpInv
  <2> QED
    BY <1>5, <2>2, <2>3 DEF answerInputRequest
<1>6. ASSUME NEW u \in People, applyTransition(u)
      PROVE  HttpInv'
  <2>1. UNCHANGED runs /\ task'.gen = task.gen /\ task.gen \in Nat
    <3>1. task.gen \in Nat
      BY BoundFacts DEF PlaneOK, TaskRow
    <3>2. UNCHANGED task \/ task' = [task EXCEPT !.status = TRANSITIONS[http[u].action][http[u].task.status],
                                                 !.cur = IF Leaves(http[u].action) THEN NoRun ELSE @]
      BY <1>6 DEF applyTransition
    <3>3. task'.gen = task.gen
      BY <3>2 DEF PlaneOK, TaskRow
    <3> QED
      BY <1>6, <3>1, <3>3 DEF applyTransition
  <2>2. CASE http' = [http EXCEPT ![u] = NoRequest] /\ UNCHANGED task
    BY <2>1, <2>2, DroppedRequest DEF PlaneOK
  <2>3. ASSUME NEW h \in [People -> Served], http' = Outdated(h),
               h \in {[http EXCEPT ![u] = NoRequest], [http EXCEPT ![u].pc = "moved"]},
               http[u].pc # "idle"
        PROVE  HttpInv'
    <3>0. h[u] \in {NoRequest, [http[u] EXCEPT !.pc = "moved"]} /\ \A v \in People \ {u} : h[v] = http[v]
      <4>1. CASE h = [http EXCEPT ![u] = NoRequest]
        BY <4>1
      <4>2. CASE h = [http EXCEPT ![u].pc = "moved"]
        BY <4>2
      <4> QED
        BY <2>3, <4>1, <4>2
    <3>1. /\ http'[u].pc \in {"idle", "moved"} /\ http'[u].fresh = FALSE
          /\ http'[u].task \in {NoTask, http[u].task}
          /\ http'[u].pc = "moved" => http'[u].action = http[u].action
      <4>1. /\ h[u].pc \in {"idle", "moved"}
            /\ h[u].task \in {NoTask, http[u].task}
            /\ h[u].pc = "moved" => h[u].action = http[u].action
        BY <3>0, AbsentFacts DEF Served
      <4>2. /\ http'[u].pc = h[u].pc /\ http'[u].fresh = FALSE
            /\ http'[u].task = h[u].task /\ http'[u].action = h[u].action
        BY <2>3, OutdatedFacts
      <4> QED
        BY <4>1, <4>2
    <3>2. \A v \in People \ {u} :
             /\ http'[v].task = http[v].task /\ http'[v].pc = http[v].pc
             /\ http'[v].action = http[v].action /\ http'[v].run = http[v].run
             /\ http'[v].fresh = FALSE
      <4>1. \A v \in People :
               /\ http'[v].task = h[v].task /\ http'[v].pc = h[v].pc
               /\ http'[v].action = h[v].action /\ http'[v].run = h[v].run
               /\ http'[v].fresh = FALSE
        BY <2>3, OutdatedFacts
      <4> QED
        BY <3>0, <4>1
    <3>3. RequestInv(u)'
      <4>1. RequestInv(u)
        BY DEF HttpInv
      <4> QED
        BY <2>1, <2>3, <3>1, <4>1, AbsentFacts DEF RequestInv
    <3>4. ASSUME NEW v \in People, v # u PROVE RequestInv(v)'
      <4>1. RequestInv(v)
        BY DEF HttpInv
      <4> QED
        BY <2>1, <3>1, <3>2, <3>4, <4>1 DEF RequestInv, Wish
    <3> QED
      BY <3>3, <3>4 DEF HttpInv
  <2>4. CASE ~UNCHANGED task \/ http' # [http EXCEPT ![u] = NoRequest]
    <3>1. /\ [http EXCEPT ![u] = NoRequest] \in [People -> Served]
          /\ [http EXCEPT ![u].pc = "moved"] \in [People -> Served]
          /\ http[u].pc # "idle"
      BY <1>6, AbsentFacts DEF Served, applyTransition
    <3>2. \/ http' = Outdated([http EXCEPT ![u] = NoRequest])
          \/ http' = Outdated([http EXCEPT ![u].pc = "moved"])
      BY <1>6, <2>4 DEF applyTransition
    <3> QED
      BY <2>3, <3>1, <3>2
  <2> QED
    BY <2>2, <2>4
<1>7. ASSUME NEW u \in People, settleRequest(u)
      PROVE  HttpInv'
  <2>1. http' = [http EXCEPT ![u] = NoRequest] /\ UNCHANGED <<task, runs>>
    BY <1>7 DEF settleRequest
  <2> QED
    BY <2>1, DroppedRequest DEF PlaneOK
<1>8. CASE editFields
  <2>1. http' = Outdated(http) /\ UNCHANGED runs /\ task' \in TaskRow /\ task'.gen = task.gen
    BY <1>8 DEF editFields, PlaneOK, TaskRow, Policies
  <2> QED
    BY <2>1, OthersRequests DEF PlaneOK, TaskRow
<1>9. CASE EnrolledAnew
  BY <1>9 DEF EnrolledAnew, HttpInv, RequestInv, Wish
<1>10. ASSUME NEW r \in Runs, mint_task_card(r)
      PROVE  HttpInv'
  BY <1>10 DEF mint_task_card, HttpInv, RequestInv, Wish
<1>11. ASSUME NEW r \in Runs, create_run(r)
      PROVE  HttpInv'
  BY <1>11 DEF create_run, HttpInv, RequestInv, Wish
<1>12. ASSUME NEW r \in Runs, record_binding(r)
      PROVE  HttpInv'
  BY <1>12 DEF record_binding, HttpInv, RequestInv, Wish
<1>13. ASSUME NEW r \in Runs, applyCommandOutcome(r)
      PROVE  HttpInv'
  <2>1. \A q \in Runs : /\ runs'[q].gen = runs[q].gen /\ runs'[q].attached = runs[q].attached
                        /\ runs[q].status # "none" => runs'[q].status # "none"
    BY <1>13 DEF applyCommandOutcome, PlaneOK, RunRow
  <2>2. http' = http /\ task' = task
    BY <1>13 DEF applyCommandOutcome
  <2> QED
    BY <2>1, <2>2, OthersRequests DEF PlaneOK, TaskRow
<1>14. ASSUME NEW r \in Runs, CrashInCommand(r)
      PROVE  HttpInv'
  BY <1>14 DEF CrashInCommand, HttpInv, RequestInv, Wish
<1>15. ASSUME NEW r \in Runs, NEW kind \in Kinds, AgentReports(r, kind)
      PROVE  HttpInv'
  BY <1>15 DEF AgentReports, HttpInv, RequestInv, Wish
<1>16. ASSUME NEW r \in Runs, NEW outcome \in Outcomes, RunEnds(r, outcome)
      PROVE  HttpInv'
  BY <1>16 DEF RunEnds, HttpInv, RequestInv, Wish
<1>17. ASSUME NEW r \in Runs, read_card(r)
      PROVE  HttpInv'
  BY <1>17 DEF read_card, HttpInv, RequestInv, Wish
<1>18. ASSUME NEW r \in Runs, pump_task_boards(r)
      PROVE  HttpInv'
  BY <1>18 DEF pump_task_boards, HttpInv, RequestInv, Wish
<1>19. ASSUME NEW r \in Runs, pump_subscriptions(r)
      PROVE  HttpInv'
  BY <1>19 DEF pump_subscriptions, HttpInv, RequestInv, Wish
<1>20. ASSUME NEW r \in Runs, handleEvent(r)
      PROVE  HttpInv'
  <2>1. \A q \in Runs : /\ runs'[q].gen = runs[q].gen /\ runs'[q].attached = runs[q].attached
                        /\ runs[q].status # "none" => runs'[q].status # "none"
    <3>1. work[r] \in Ended /\ runs' = [runs EXCEPT ![r].status = work[r]]
      BY <1>20, EventEffect
    <3>2. \A q \in Runs :
             /\ runs'[q].gen = runs[q].gen /\ runs'[q].attached = runs[q].attached
             /\ runs'[q].status = IF q = r THEN work[r] ELSE runs[q].status
      BY <3>1, StatusFacts
    <3> QED
      BY <3>1, <3>2 DEF Ended
  <2> QED
    BY <1>20, <2>1, EventEffect, OthersRequests DEF PlaneOK, TaskRow, Settled
<1>21. ASSUME NEW rep \in Reports, NEW id \in RunIds, handleTaskReport(rep, id)
      PROVE  HttpInv'
  <2>1. UNCHANGED runs
    BY <1>21 DEF handleTaskReport
  <2> QED
    BY <1>21, <2>1, TaskReportEffect, OthersRequests DEF PlaneOK, TaskRow, Settled
<1>22. ASSUME NEW rep \in Reports, acknowledge_outbox_correlation(rep)
      PROVE  HttpInv'
  BY <1>22 DEF acknowledge_outbox_correlation, HttpInv, RequestInv, Wish
<1>23. CASE UNCHANGED vars
  BY <1>23 DEF vars, HttpInv, RequestInv, Wish
<1> QED
  BY <1>1, <1>2, <1>3, <1>4, <1>5, <1>6, <1>7, <1>8, <1>9, <1>10, <1>11, <1>12, <1>13,
     <1>14, <1>15, <1>16, <1>17, <1>18, <1>19, <1>20, <1>21, <1>22, <1>23
  DEF Next, Request, Command, Agent, Pump, Report

\* The generation moves when a run is attached that was not.
LEMMA CountStep ==
  PlaneOK /\ RunInv /\ HttpInv /\ CountInv /\ [Next]_vars => CountInv'
<1> SUFFICES ASSUME PlaneOK, RunInv, HttpInv, CountInv, [Next]_vars
             PROVE  CountInv'
  OBVIOUS
<1> USE DEF planeVars, nodeVars
<1>1. ASSUME NEW u \in People, NEW action \in Actions, loadTaskForWork(u, action)
      PROVE  CountInv'
  BY <1>1 DEF loadTaskForWork, CountInv, Attached
<1>2. ASSUME NEW u \in People, recordRequest(u)
      PROVE  CountInv'
  BY <1>2 DEF recordRequest, CountInv, Attached
<1>3. ASSUME NEW u \in People, createRun(u)
      PROVE  CountInv'
  <2>1. PICK r \in Runs :
          /\ runs[r].status = "none"
          /\ runs' = [runs EXCEPT ![r] = [status |-> "queued", gen |-> http[u].task.gen + 1, attached |-> FALSE]]
    BY <1>3 DEF createRun
  <2>2. Attached' = Attached
    BY <2>1 DEF Attached, PlaneOK, RunRow, RunInv
  <2> QED
    BY <1>3, <2>2 DEF createRun, CountInv
<1>4. ASSUME NEW u \in People, startRun(u)
      PROVE  CountInv'
  <2>1. http[u].run \in Runs /\ http[u].run \notin Attached
    BY <1>4 DEF startRun, HttpInv, RequestInv, Attached
  <2>2. Attached' = Attached \union {http[u].run}
    BY <1>4, <2>1 DEF startRun, Attached, PlaneOK, RunRow
  <2>3. Cardinality(Attached') = Cardinality(Attached) + 1 /\ Cardinality(Attached) \in Nat
    BY <2>1, <2>2, AttachedFacts
  <2>4. task.gen \in Nat /\ task'.gen \in {task.gen, task.gen + 1}
    <3>1. task' = task \/ task' = [task EXCEPT !.status = "running", !.gen = @ + 1, !.cur = http[u].run]
      BY <1>4 DEF startRun
    <3>2. task.gen \in Nat
      BY BoundFacts DEF PlaneOK, TaskRow
    <3> QED
      BY <3>1, <3>2 DEF PlaneOK, TaskRow
  <2> QED
    BY <2>3, <2>4 DEF CountInv
<1>5. ASSUME NEW u \in People, answerInputRequest(u)
      PROVE  CountInv'
  BY <1>5 DEF answerInputRequest, CountInv, Attached
<1>6. ASSUME NEW u \in People, applyTransition(u)
      PROVE  CountInv'
  <2>1. Attached' = Attached
    BY <1>6 DEF applyTransition, Attached
  <2>2. task'.gen = task.gen
    BY <1>6 DEF applyTransition, PlaneOK, TaskRow
  <2> QED
    BY <2>1, <2>2 DEF CountInv
<1>7. ASSUME NEW u \in People, settleRequest(u)
      PROVE  CountInv'
  BY <1>7 DEF settleRequest, CountInv, Attached
<1>8. CASE editFields
  <2>1. Attached' = Attached /\ task'.gen = task.gen
    BY <1>8 DEF editFields, Attached, PlaneOK, TaskRow
  <2> QED
    BY <2>1 DEF CountInv
<1>9. CASE EnrolledAnew
  BY <1>9 DEF EnrolledAnew, CountInv, Attached
<1>10. ASSUME NEW r \in Runs, mint_task_card(r)
      PROVE  CountInv'
  BY <1>10 DEF mint_task_card, CountInv, Attached
<1>11. ASSUME NEW r \in Runs, create_run(r)
      PROVE  CountInv'
  BY <1>11 DEF create_run, CountInv, Attached
<1>12. ASSUME NEW r \in Runs, record_binding(r)
      PROVE  CountInv'
  BY <1>12 DEF record_binding, CountInv, Attached
<1>13. ASSUME NEW r \in Runs, applyCommandOutcome(r)
      PROVE  CountInv'
  <2>1. Attached' = Attached
    BY <1>13 DEF applyCommandOutcome, Attached, PlaneOK, RunRow
  <2> QED
    BY <1>13, <2>1 DEF applyCommandOutcome, CountInv
<1>14. ASSUME NEW r \in Runs, CrashInCommand(r)
      PROVE  CountInv'
  BY <1>14 DEF CrashInCommand, CountInv, Attached
<1>15. ASSUME NEW r \in Runs, NEW kind \in Kinds, AgentReports(r, kind)
      PROVE  CountInv'
  BY <1>15 DEF AgentReports, CountInv, Attached
<1>16. ASSUME NEW r \in Runs, NEW outcome \in Outcomes, RunEnds(r, outcome)
      PROVE  CountInv'
  BY <1>16 DEF RunEnds, CountInv, Attached
<1>17. ASSUME NEW r \in Runs, read_card(r)
      PROVE  CountInv'
  BY <1>17 DEF read_card, CountInv, Attached
<1>18. ASSUME NEW r \in Runs, pump_task_boards(r)
      PROVE  CountInv'
  BY <1>18 DEF pump_task_boards, CountInv, Attached
<1>19. ASSUME NEW r \in Runs, pump_subscriptions(r)
      PROVE  CountInv'
  BY <1>19 DEF pump_subscriptions, CountInv, Attached
<1>20. ASSUME NEW r \in Runs, handleEvent(r)
      PROVE  CountInv'
  <2>1. work[r] \in Ended /\ runs' = [runs EXCEPT ![r].status = work[r]] /\ task'.gen = task.gen
    BY <1>20, EventEffect DEF Settled
  <2>2. Attached' = Attached
    BY <2>1, StatusFacts DEF Attached
  <2> QED
    BY <2>1, <2>2 DEF CountInv
<1>21. ASSUME NEW rep \in Reports, NEW id \in RunIds, handleTaskReport(rep, id)
      PROVE  CountInv'
  <2>1. Attached' = Attached /\ task'.gen = task.gen
    BY <1>21, TaskReportEffect DEF Settled, handleTaskReport, Attached
  <2> QED
    BY <2>1 DEF CountInv
<1>22. ASSUME NEW rep \in Reports, acknowledge_outbox_correlation(rep)
      PROVE  CountInv'
  BY <1>22 DEF acknowledge_outbox_correlation, CountInv, Attached
<1>23. CASE UNCHANGED vars
  BY <1>23 DEF vars, CountInv, Attached
<1> QED
  BY <1>1, <1>2, <1>3, <1>4, <1>5, <1>6, <1>7, <1>8, <1>9, <1>10, <1>11, <1>12, <1>13,
     <1>14, <1>15, <1>16, <1>17, <1>18, <1>19, <1>20, <1>21, <1>22, <1>23
  DEF Next, Request, Command, Agent, Pump, Report

\* The Control Plane learns of an end what the Node recorded, and that stays.
LEMMA RunStep ==
  PlaneOK /\ NodeOK /\ HttpInv /\ RunInv /\ [Next]_vars => RunInv'
<1> SUFFICES ASSUME PlaneOK, NodeOK, HttpInv, RunInv, [Next]_vars
             PROVE  RunInv'
  OBVIOUS
<1> USE DEF RunInv, planeVars, nodeVars
<1>1. ASSUME NEW u \in People, NEW action \in Actions, loadTaskForWork(u, action)
      PROVE  RunInv'
  BY <1>1 DEF loadTaskForWork
<1>2. ASSUME NEW u \in People, recordRequest(u)
      PROVE  RunInv'
  BY <1>2 DEF recordRequest
<1>3. ASSUME NEW u \in People, createRun(u)
      PROVE  RunInv'
  <2>1. PICK r \in Runs :
          runs' = [runs EXCEPT ![r] = [status |-> "queued", gen |-> http[u].task.gen + 1, attached |-> FALSE]]
    BY <1>3 DEF createRun
  <2> QED
    BY <1>3, <2>1 DEF createRun, PlaneOK, RunRow
<1>4. ASSUME NEW u \in People, startRun(u)
      PROVE  RunInv'
  <2>1. http[u].run \in Runs /\ runs[http[u].run].status # "none"
    BY <1>4 DEF startRun, HttpInv, RequestInv
  <2> QED
    BY <1>4, <2>1 DEF startRun, PlaneOK, RunRow
<1>5. ASSUME NEW u \in People, answerInputRequest(u)
      PROVE  RunInv'
  BY <1>5 DEF answerInputRequest
<1>6. ASSUME NEW u \in People, applyTransition(u)
      PROVE  RunInv'
  BY <1>6 DEF applyTransition
<1>7. ASSUME NEW u \in People, settleRequest(u)
      PROVE  RunInv'
  BY <1>7 DEF settleRequest
<1>8. CASE editFields
  BY <1>8 DEF editFields
<1>9. CASE EnrolledAnew
  BY <1>9 DEF EnrolledAnew
<1>10. ASSUME NEW r \in Runs, mint_task_card(r)
      PROVE  RunInv'
  BY <1>10 DEF mint_task_card, NodeOK, Ended
<1>11. ASSUME NEW r \in Runs, create_run(r)
      PROVE  RunInv'
  BY <1>11 DEF create_run, NodeOK, Ended
<1>12. ASSUME NEW r \in Runs, record_binding(r)
      PROVE  RunInv'
  BY <1>12 DEF record_binding
<1>13. ASSUME NEW r \in Runs, applyCommandOutcome(r)
      PROVE  RunInv'
  BY <1>13 DEF applyCommandOutcome, PlaneOK, RunRow
<1>14. ASSUME NEW r \in Runs, CrashInCommand(r)
      PROVE  RunInv'
  BY <1>14 DEF CrashInCommand, NodeOK, Ended
<1>15. ASSUME NEW r \in Runs, NEW kind \in Kinds, AgentReports(r, kind)
      PROVE  RunInv'
  BY <1>15 DEF AgentReports
<1>16. ASSUME NEW r \in Runs, NEW outcome \in Outcomes, RunEnds(r, outcome)
      PROVE  RunInv'
  BY <1>16 DEF RunEnds, NodeOK, Ended
<1>17. ASSUME NEW r \in Runs, read_card(r)
      PROVE  RunInv'
  BY <1>17 DEF read_card
<1>18. ASSUME NEW r \in Runs, pump_task_boards(r)
      PROVE  RunInv'
  BY <1>18 DEF pump_task_boards
<1>19. ASSUME NEW r \in Runs, pump_subscriptions(r)
      PROVE  RunInv'
  BY <1>19 DEF pump_subscriptions
<1>20. ASSUME NEW r \in Runs, handleEvent(r)
      PROVE  RunInv'
  <2>1. work[r] \in Ended /\ runs' = [runs EXCEPT ![r].status = work[r]]
    BY <1>20, EventEffect
  <2>2. \A q \in Runs :
           /\ runs'[q].attached = runs[q].attached
           /\ runs'[q].status = IF q = r THEN work[r] ELSE runs[q].status
    BY <2>1, StatusFacts
  <2> QED
    BY <1>20, <2>1, <2>2 DEF handleEvent, Ended
<1>21. ASSUME NEW rep \in Reports, NEW id \in RunIds, handleTaskReport(rep, id)
      PROVE  RunInv'
  BY <1>21 DEF handleTaskReport
<1>22. ASSUME NEW rep \in Reports, acknowledge_outbox_correlation(rep)
      PROVE  RunInv'
  BY <1>22 DEF acknowledge_outbox_correlation
<1>23. CASE UNCHANGED vars
  BY <1>23 DEF vars
<1> QED
  BY <1>1, <1>2, <1>3, <1>4, <1>5, <1>6, <1>7, <1>8, <1>9, <1>10, <1>11, <1>12, <1>13,
     <1>14, <1>15, <1>16, <1>17, <1>18, <1>19, <1>20, <1>21, <1>22, <1>23
  DEF Next, Request, Command, Agent, Pump, Report


\* Marks are numbers.
LEMMA MarkFacts ==
  ASSUME NodeOK, NEW q \in Runs
  PROVE  mark[q] \in Nat /\ \A i \in 1 .. mark[q] : 1 .. i \subseteq 1 .. mark[q]
BY BoundFacts DEF NodeOK

\* A mark moves with the reports up to it, and what leaves the outbox was
\* taken.
LEMMA SkipStep ==
  NodeOK /\ NothingSkipped /\ [Next]_vars => NothingSkipped'
<1> SUFFICES ASSUME NodeOK, NothingSkipped, [Next]_vars
             PROVE  NothingSkipped'
  OBVIOUS
<1> USE DEF NothingSkipped, planeVars, nodeVars
<1>1. ASSUME NEW u \in People, NEW action \in Actions, loadTaskForWork(u, action)
      PROVE  NothingSkipped'
  BY <1>1 DEF loadTaskForWork, Said, result_at, report_for_event, stamp
<1>2. ASSUME NEW u \in People, recordRequest(u)
      PROVE  NothingSkipped'
  BY <1>2 DEF recordRequest, Said, result_at, report_for_event, stamp
<1>3. ASSUME NEW u \in People, createRun(u)
      PROVE  NothingSkipped'
  BY <1>3 DEF createRun, Said, result_at, report_for_event, stamp
<1>4. ASSUME NEW u \in People, startRun(u)
      PROVE  NothingSkipped'
  BY <1>4 DEF startRun, Said, result_at, report_for_event, stamp
<1>5. ASSUME NEW u \in People, answerInputRequest(u)
      PROVE  NothingSkipped'
  BY <1>5 DEF answerInputRequest, Said, result_at, report_for_event, stamp
<1>6. ASSUME NEW u \in People, applyTransition(u)
      PROVE  NothingSkipped'
  BY <1>6 DEF applyTransition, Said, result_at, report_for_event, stamp
<1>7. ASSUME NEW u \in People, settleRequest(u)
      PROVE  NothingSkipped'
  BY <1>7 DEF settleRequest, Said, result_at, report_for_event, stamp
<1>8. CASE editFields
  BY <1>8 DEF editFields, Said, result_at, report_for_event, stamp
<1>9. CASE EnrolledAnew
  BY <1>9 DEF EnrolledAnew, Said, result_at, report_for_event, stamp
<1>10. ASSUME NEW r \in Runs, mint_task_card(r)
      PROVE  NothingSkipped'
  BY <1>10 DEF mint_task_card, Said, result_at, report_for_event, stamp
<1>11. ASSUME NEW r \in Runs, create_run(r)
      PROVE  NothingSkipped'
  BY <1>11 DEF create_run, Said, result_at, report_for_event, stamp
<1>12. ASSUME NEW r \in Runs, record_binding(r)
      PROVE  NothingSkipped'
  BY <1>12 DEF record_binding, Said, result_at, report_for_event, stamp
<1>13. ASSUME NEW r \in Runs, applyCommandOutcome(r)
      PROVE  NothingSkipped'
  BY <1>13 DEF applyCommandOutcome, Said, result_at, report_for_event, stamp
<1>14. ASSUME NEW r \in Runs, CrashInCommand(r)
      PROVE  NothingSkipped'
  BY <1>14 DEF CrashInCommand, Said, result_at, report_for_event, stamp
<1>15. ASSUME NEW r \in Runs, NEW kind \in Kinds, AgentReports(r, kind)
      PROVE  NothingSkipped'
  <2>1. /\ board' = [board EXCEPT ![r] = Append(board[r], kind)]
        /\ UNCHANGED <<mark, outbox, reports, forgotten, missed>>
    BY <1>15 DEF AgentReports
  <2>2. \A i \in 1 .. mark[r] : Append(board[r], kind)[i] = board[r][i]
    BY DEF NodeOK
  <2>3. \A q \in Runs : \A i \in 1 .. mark[q] : board'[q][i] = board[q][i]
    BY <2>1, <2>2 DEF NodeOK
  <2>4. \A q \in Runs : \A i \in 1 .. mark[q] : Said(q, i)' => Said(q, i)
    BY <2>1, <2>3, MarkFacts DEF Said, result_at, report_for_event
  <2> QED
    BY <2>1, <2>4
<1>16. ASSUME NEW r \in Runs, NEW outcome \in Outcomes, RunEnds(r, outcome)
      PROVE  NothingSkipped'
  BY <1>16 DEF RunEnds, Said, result_at, report_for_event, stamp
<1>17. ASSUME NEW r \in Runs, read_card(r)
      PROVE  NothingSkipped'
  BY <1>17 DEF read_card, Said, result_at, report_for_event, stamp
<1>18. ASSUME NEW r \in Runs, pump_task_boards(r)
      PROVE  NothingSkipped'
  <2>1. Drained(r) /\ UNCHANGED <<board, reports, forgotten>>
    BY <1>18, PassEffect DEF pump_task_boards
  <2>2. /\ outbox \subseteq outbox' /\ missed \subseteq missed'
        /\ \A q \in Runs : q # r => mark'[q] = mark[q]
        /\ \A i \in 1 .. mark'[r] : i > mark[r] /\ Said(r, i) => stamp(r, i) \in outbox' \union missed'
    BY <2>1 DEF Drained
  <2>3. mark[r] \in Nat /\ mark'[r] \in Nat
    BY <2>1, BoundFacts DEF NodeOK, Drained
  <2>4. SUFFICES ASSUME NEW q \in Runs, NEW i \in 1 .. mark'[q], Said(q, i)
                 PROVE  stamp(q, i) \in outbox' \union reports \union forgotten \union missed'
    BY <2>1 DEF Said, result_at, report_for_event, stamp
  <2>5. CASE q = r /\ i > mark[r]
    BY <2>2, <2>4, <2>5
  <2>6. CASE ~(q = r /\ i > mark[r])
    <3>1. i \in 1 .. mark[q]
      BY <2>2, <2>3, <2>6
    <3> QED
      BY <2>2, <2>4, <3>1
  <2> QED
    BY <2>5, <2>6
<1>19. ASSUME NEW r \in Runs, pump_subscriptions(r)
      PROVE  NothingSkipped'
  <2>1. Drained(r) /\ UNCHANGED <<board, reports, forgotten>>
    BY <1>19, PassEffect DEF pump_subscriptions
  <2>2. /\ outbox \subseteq outbox' /\ missed \subseteq missed'
        /\ \A q \in Runs : q # r => mark'[q] = mark[q]
        /\ \A i \in 1 .. mark'[r] : i > mark[r] /\ Said(r, i) => stamp(r, i) \in outbox' \union missed'
    BY <2>1 DEF Drained
  <2>3. mark[r] \in Nat /\ mark'[r] \in Nat
    BY <2>1, BoundFacts DEF NodeOK, Drained
  <2>4. SUFFICES ASSUME NEW q \in Runs, NEW i \in 1 .. mark'[q], Said(q, i)
                 PROVE  stamp(q, i) \in outbox' \union reports \union forgotten \union missed'
    BY <2>1 DEF Said, result_at, report_for_event, stamp
  <2>5. CASE q = r /\ i > mark[r]
    BY <2>2, <2>4, <2>5
  <2>6. CASE ~(q = r /\ i > mark[r])
    <3>1. i \in 1 .. mark[q]
      BY <2>2, <2>3, <2>6
    <3> QED
      BY <2>2, <2>4, <3>1
  <2> QED
    BY <2>5, <2>6
<1>20. ASSUME NEW r \in Runs, handleEvent(r)
      PROVE  NothingSkipped'
  BY <1>20 DEF handleEvent, Said, result_at, report_for_event, stamp
<1>21. ASSUME NEW rep \in Reports, NEW id \in RunIds, handleTaskReport(rep, id)
      PROVE  NothingSkipped'
  BY <1>21 DEF handleTaskReport, Said, result_at, report_for_event, stamp
<1>22. ASSUME NEW rep \in Reports, acknowledge_outbox_correlation(rep)
      PROVE  NothingSkipped'
  BY <1>22 DEF acknowledge_outbox_correlation, Said, result_at, report_for_event, stamp
<1>23. CASE UNCHANGED vars
  BY <1>23 DEF vars, Said, result_at, report_for_event, stamp
<1> QED
  BY <1>1, <1>2, <1>3, <1>4, <1>5, <1>6, <1>7, <1>8, <1>9, <1>10, <1>11, <1>12, <1>13,
     <1>14, <1>15, <1>16, <1>17, <1>18, <1>19, <1>20, <1>21, <1>22, <1>23
  DEF Next, Request, Command, Agent, Pump, Report

\* The run that becomes current is attached in the same step, and was made for
\* the generation that step moves to.
LEMMA AttemptStep ==
  PlaneOK /\ http \in [People -> Served] /\ HttpInv /\ RunInv /\ CurrentAttempt /\ [Next]_vars => CurrentAttempt'
<1> SUFFICES ASSUME PlaneOK, http \in [People -> Served], HttpInv, RunInv, CurrentAttempt, [Next]_vars
             PROVE  CurrentAttempt'
  OBVIOUS
<1> USE BoundFacts
<1> USE DEF CurrentAttempt, planeVars, nodeVars
<1>1. ASSUME NEW u \in People, NEW action \in Actions, loadTaskForWork(u, action)
      PROVE  CurrentAttempt'
  BY <1>1 DEF loadTaskForWork
<1>2. ASSUME NEW u \in People, recordRequest(u)
      PROVE  CurrentAttempt'
  BY <1>2 DEF recordRequest
<1>3. ASSUME NEW u \in People, createRun(u)
      PROVE  CurrentAttempt'
  <2>1. PICK r \in Runs :
          /\ runs[r].status = "none"
          /\ runs' = [runs EXCEPT ![r] = [status |-> "queued", gen |-> http[u].task.gen + 1, attached |-> FALSE]]
    BY <1>3 DEF createRun
  <2>2. task.cur # r
    BY <2>1 DEF RunInv, NoRun, Runs
  <2> QED
    BY <1>3, <2>1, <2>2 DEF createRun, PlaneOK
<1>4. ASSUME NEW u \in People, startRun(u)
      PROVE  CurrentAttempt'
  <2>1. /\ http[u].run \in Runs /\ runs[http[u].run].gen = http[u].task.gen + 1
        /\ http[u].fresh => http[u].task = task
    BY <1>4 DEF startRun, HttpInv, RequestInv
  <2>2. \A q \in Runs : /\ runs'[q].gen = runs[q].gen
                        /\ runs'[q].attached = (q = http[u].run \/ runs[q].attached)
    BY <1>4, <2>1 DEF startRun, PlaneOK, RunRow
  <2>3. CASE UNCHANGED task
    <3>1. task.cur # NoRun => task.cur \in Runs
      BY DEF PlaneOK, TaskRow, NoRun, Runs
    <3> QED
      BY <2>2, <2>3, <3>1
  <2>4. CASE http[u].fresh
    <3>1. task' = [task EXCEPT !.status = "running", !.gen = @ + 1, !.cur = http[u].run]
      BY <1>4, <2>4 DEF startRun
    <3>2. task'.gen = task.gen + 1 /\ task'.cur = http[u].run
      BY <3>1 DEF PlaneOK, TaskRow
    <3> QED
      BY <2>1, <2>2, <2>4, <3>2
  <2> QED
    BY <1>4, <2>3, <2>4 DEF startRun
<1>5. ASSUME NEW u \in People, answerInputRequest(u)
      PROVE  CurrentAttempt'
  BY <1>5 DEF answerInputRequest
<1>6. ASSUME NEW u \in People, applyTransition(u)
      PROVE  CurrentAttempt'
  BY <1>6 DEF applyTransition, PlaneOK, TaskRow
<1>7. ASSUME NEW u \in People, settleRequest(u)
      PROVE  CurrentAttempt'
  BY <1>7 DEF settleRequest
<1>8. CASE editFields
  BY <1>8 DEF editFields, PlaneOK, TaskRow
<1>9. CASE EnrolledAnew
  BY <1>9 DEF EnrolledAnew
<1>10. ASSUME NEW r \in Runs, mint_task_card(r)
      PROVE  CurrentAttempt'
  BY <1>10 DEF mint_task_card
<1>11. ASSUME NEW r \in Runs, create_run(r)
      PROVE  CurrentAttempt'
  BY <1>11 DEF create_run
<1>12. ASSUME NEW r \in Runs, record_binding(r)
      PROVE  CurrentAttempt'
  BY <1>12 DEF record_binding
<1>13. ASSUME NEW r \in Runs, applyCommandOutcome(r)
      PROVE  CurrentAttempt'
  <2>1. task.cur # NoRun => task.cur \in Runs
    BY DEF PlaneOK, TaskRow, NoRun, Runs
  <2>2. \A q \in Runs : runs'[q].attached = runs[q].attached /\ runs'[q].gen = runs[q].gen
    BY <1>13, StatusFacts DEF applyCommandOutcome, Ended
  <2> QED
    BY <1>13, <2>1, <2>2 DEF applyCommandOutcome
<1>14. ASSUME NEW r \in Runs, CrashInCommand(r)
      PROVE  CurrentAttempt'
  BY <1>14 DEF CrashInCommand
<1>15. ASSUME NEW r \in Runs, NEW kind \in Kinds, AgentReports(r, kind)
      PROVE  CurrentAttempt'
  BY <1>15 DEF AgentReports
<1>16. ASSUME NEW r \in Runs, NEW outcome \in Outcomes, RunEnds(r, outcome)
      PROVE  CurrentAttempt'
  BY <1>16 DEF RunEnds
<1>17. ASSUME NEW r \in Runs, read_card(r)
      PROVE  CurrentAttempt'
  BY <1>17 DEF read_card
<1>18. ASSUME NEW r \in Runs, pump_task_boards(r)
      PROVE  CurrentAttempt'
  BY <1>18 DEF pump_task_boards
<1>19. ASSUME NEW r \in Runs, pump_subscriptions(r)
      PROVE  CurrentAttempt'
  BY <1>19 DEF pump_subscriptions
<1>20. ASSUME NEW r \in Runs, handleEvent(r)
      PROVE  CurrentAttempt'
  <2>1. /\ work[r] \in Ended /\ runs' = [runs EXCEPT ![r].status = work[r]]
        /\ task'.gen = task.gen /\ task'.cur \in {task.cur, NoRun} /\ task' \in TaskRow
    BY <1>20, EventEffect DEF Settled
  <2>2. \A q \in Runs : runs'[q].attached = runs[q].attached /\ runs'[q].gen = runs[q].gen
    BY <2>1, StatusFacts
  <2>3. task.cur # NoRun => task.cur \in Runs
    BY DEF PlaneOK, TaskRow, NoRun, Runs
  <2> QED
    BY <2>1, <2>2, <2>3
<1>21. ASSUME NEW rep \in Reports, NEW id \in RunIds, handleTaskReport(rep, id)
      PROVE  CurrentAttempt'
  BY <1>21, TaskReportEffect DEF Settled, handleTaskReport
<1>22. ASSUME NEW rep \in Reports, acknowledge_outbox_correlation(rep)
      PROVE  CurrentAttempt'
  BY <1>22 DEF acknowledge_outbox_correlation
<1>23. CASE UNCHANGED vars
  BY <1>23 DEF vars
<1> QED
  BY <1>1, <1>2, <1>3, <1>4, <1>5, <1>6, <1>7, <1>8, <1>9, <1>10, <1>11, <1>12, <1>13,
     <1>14, <1>15, <1>16, <1>17, <1>18, <1>19, <1>20, <1>21, <1>22, <1>23
  DEF Next, Request, Command, Agent, Pump, Report

\* Only the end of a run, or the report of one that ended, accepts a request.
LEMMA AcceptStep ==
  PlaneOK /\ RunInv /\ [Next]_vars => \A a \in accepted' \ accepted :
        /\ work[a.run] = "completed" /\ a.gen = task.gen
        /\ asked = {} /\ task.policy = "agent_outcome"
<1> SUFFICES ASSUME PlaneOK, RunInv, [Next]_vars
             PROVE  \A a \in accepted' \ accepted :
        /\ work[a.run] = "completed" /\ a.gen = task.gen
        /\ asked = {} /\ task.policy = "agent_outcome"
  OBVIOUS
<1> USE DEF planeVars, nodeVars
<1>1. ASSUME NEW u \in People, NEW action \in Actions, loadTaskForWork(u, action)
      PROVE  \A a \in accepted' \ accepted :
        /\ work[a.run] = "completed" /\ a.gen = task.gen
        /\ asked = {} /\ task.policy = "agent_outcome"
  BY <1>1 DEF loadTaskForWork
<1>2. ASSUME NEW u \in People, recordRequest(u)
      PROVE  \A a \in accepted' \ accepted :
        /\ work[a.run] = "completed" /\ a.gen = task.gen
        /\ asked = {} /\ task.policy = "agent_outcome"
  BY <1>2 DEF recordRequest
<1>3. ASSUME NEW u \in People, createRun(u)
      PROVE  \A a \in accepted' \ accepted :
        /\ work[a.run] = "completed" /\ a.gen = task.gen
        /\ asked = {} /\ task.policy = "agent_outcome"
  BY <1>3 DEF createRun
<1>4. ASSUME NEW u \in People, startRun(u)
      PROVE  \A a \in accepted' \ accepted :
        /\ work[a.run] = "completed" /\ a.gen = task.gen
        /\ asked = {} /\ task.policy = "agent_outcome"
  BY <1>4 DEF startRun
<1>5. ASSUME NEW u \in People, answerInputRequest(u)
      PROVE  \A a \in accepted' \ accepted :
        /\ work[a.run] = "completed" /\ a.gen = task.gen
        /\ asked = {} /\ task.policy = "agent_outcome"
  BY <1>5 DEF answerInputRequest
<1>6. ASSUME NEW u \in People, applyTransition(u)
      PROVE  \A a \in accepted' \ accepted :
        /\ work[a.run] = "completed" /\ a.gen = task.gen
        /\ asked = {} /\ task.policy = "agent_outcome"
  BY <1>6 DEF applyTransition
<1>7. ASSUME NEW u \in People, settleRequest(u)
      PROVE  \A a \in accepted' \ accepted :
        /\ work[a.run] = "completed" /\ a.gen = task.gen
        /\ asked = {} /\ task.policy = "agent_outcome"
  BY <1>7 DEF settleRequest
<1>8. CASE editFields
  BY <1>8 DEF editFields
<1>9. CASE EnrolledAnew
  BY <1>9 DEF EnrolledAnew
<1>10. ASSUME NEW r \in Runs, mint_task_card(r)
      PROVE  \A a \in accepted' \ accepted :
        /\ work[a.run] = "completed" /\ a.gen = task.gen
        /\ asked = {} /\ task.policy = "agent_outcome"
  BY <1>10 DEF mint_task_card
<1>11. ASSUME NEW r \in Runs, create_run(r)
      PROVE  \A a \in accepted' \ accepted :
        /\ work[a.run] = "completed" /\ a.gen = task.gen
        /\ asked = {} /\ task.policy = "agent_outcome"
  BY <1>11 DEF create_run
<1>12. ASSUME NEW r \in Runs, record_binding(r)
      PROVE  \A a \in accepted' \ accepted :
        /\ work[a.run] = "completed" /\ a.gen = task.gen
        /\ asked = {} /\ task.policy = "agent_outcome"
  BY <1>12 DEF record_binding
<1>13. ASSUME NEW r \in Runs, applyCommandOutcome(r)
      PROVE  \A a \in accepted' \ accepted :
        /\ work[a.run] = "completed" /\ a.gen = task.gen
        /\ asked = {} /\ task.policy = "agent_outcome"
  BY <1>13 DEF applyCommandOutcome
<1>14. ASSUME NEW r \in Runs, CrashInCommand(r)
      PROVE  \A a \in accepted' \ accepted :
        /\ work[a.run] = "completed" /\ a.gen = task.gen
        /\ asked = {} /\ task.policy = "agent_outcome"
  BY <1>14 DEF CrashInCommand
<1>15. ASSUME NEW r \in Runs, NEW kind \in Kinds, AgentReports(r, kind)
      PROVE  \A a \in accepted' \ accepted :
        /\ work[a.run] = "completed" /\ a.gen = task.gen
        /\ asked = {} /\ task.policy = "agent_outcome"
  BY <1>15 DEF AgentReports
<1>16. ASSUME NEW r \in Runs, NEW outcome \in Outcomes, RunEnds(r, outcome)
      PROVE  \A a \in accepted' \ accepted :
        /\ work[a.run] = "completed" /\ a.gen = task.gen
        /\ asked = {} /\ task.policy = "agent_outcome"
  BY <1>16 DEF RunEnds
<1>17. ASSUME NEW r \in Runs, read_card(r)
      PROVE  \A a \in accepted' \ accepted :
        /\ work[a.run] = "completed" /\ a.gen = task.gen
        /\ asked = {} /\ task.policy = "agent_outcome"
  BY <1>17 DEF read_card
<1>18. ASSUME NEW r \in Runs, pump_task_boards(r)
      PROVE  \A a \in accepted' \ accepted :
        /\ work[a.run] = "completed" /\ a.gen = task.gen
        /\ asked = {} /\ task.policy = "agent_outcome"
  BY <1>18 DEF pump_task_boards
<1>19. ASSUME NEW r \in Runs, pump_subscriptions(r)
      PROVE  \A a \in accepted' \ accepted :
        /\ work[a.run] = "completed" /\ a.gen = task.gen
        /\ asked = {} /\ task.policy = "agent_outcome"
  BY <1>19 DEF pump_subscriptions
<1>20. ASSUME NEW r \in Runs, handleEvent(r)
      PROVE  \A a \in accepted' \ accepted :
        /\ work[a.run] = "completed" /\ a.gen = task.gen
        /\ asked = {} /\ task.policy = "agent_outcome"
  BY <1>20, EventEffect DEF Settled
<1>21. ASSUME NEW rep \in Reports, NEW id \in RunIds, handleTaskReport(rep, id)
      PROVE  \A a \in accepted' \ accepted :
        /\ work[a.run] = "completed" /\ a.gen = task.gen
        /\ asked = {} /\ task.policy = "agent_outcome"
  BY <1>21, TaskReportEffect DEF Settled
<1>22. ASSUME NEW rep \in Reports, acknowledge_outbox_correlation(rep)
      PROVE  \A a \in accepted' \ accepted :
        /\ work[a.run] = "completed" /\ a.gen = task.gen
        /\ asked = {} /\ task.policy = "agent_outcome"
  BY <1>22 DEF acknowledge_outbox_correlation
<1>23. CASE UNCHANGED vars
  BY <1>23 DEF vars
<1> QED
  BY <1>1, <1>2, <1>3, <1>4, <1>5, <1>6, <1>7, <1>8, <1>9, <1>10, <1>11, <1>12, <1>13,
     <1>14, <1>15, <1>16, <1>17, <1>18, <1>19, <1>20, <1>21, <1>22, <1>23
  DEF Next, Request, Command, Agent, Pump, Report


\* The invariant is one.
LEMMA Invariance == Spec => []IInv
<1>1. Init => IInv
  <2> SUFFICES ASSUME Init PROVE IInv
    OBVIOUS
  <2> USE BoundFacts, AbsentFacts DEF Init
  <2>1. PlaneOK
    <3>1. [status |-> "none", gen |-> 0, attached |-> FALSE] \in RunRow
      BY DEF RunRow
    <3> QED
      BY <3>1 DEF PlaneOK
  <2>2. NodeOK
    BY DEF NodeOK, NotReading
  <2>3. TypeOK
    BY <2>1, <2>2, TypeParts
  <2>4. CountInv
    BY AttachedFacts DEF CountInv
  <2>5. HttpInv
    BY DEF HttpInv, RequestInv
  <2>6. RunInv
    BY DEF RunInv
  <2>7. NothingSkipped /\ CurrentAttempt
    BY DEF NothingSkipped, CurrentAttempt, NoTask
  <2> QED
    BY <2>3, <2>4, <2>5, <2>6, <2>7 DEF IInv
<1>2. IInv /\ [Next]_vars => IInv'
  <2> SUFFICES ASSUME IInv, [Next]_vars PROVE IInv'
    OBVIOUS
  <2>1. PlaneOK /\ NodeOK /\ http \in [People -> Served]
    BY TypeParts DEF IInv
  <2> QED
    BY <2>1, TypeOKStep, CountStep, HttpStep, RunStep, SkipStep, AttemptStep DEF IInv
<1> QED
  BY <1>1, <1>2, PTL DEF Spec

\* The rows of the task, of its runs and of its requests, the cards and the
\* outbox keep their types; no generation passes the number of runs.
THEOREM TypeCorrectness == Spec => []TypeOK
BY Invariance, PTL DEF IInv

\* workdesk.rs: the cursor is past something the agent said only when that was
\* queued, or landed between the two reads of a pass that needed both.
THEOREM CursorNeverSkips == Spec => []NothingSkipped
BY Invariance, PTL DEF IInv

\* task-repository.ts: the current run of a task is attached to it and carries
\* its generation, whatever requests were served beside the start.
THEOREM CurrentRunIsOfItsGeneration == Spec => []CurrentAttempt
BY Invariance, PTL DEF IInv

\* tasks.ts: what completes a task without a person is the request of its own
\* attempt, and that run completed on the Node.
THEOREM CompletionIsByItsRun == Spec => CompletedByItsRun
<1>1. IInv /\ [Next]_vars
        => [\A a \in accepted' \ accepted :
               /\ work[a.run] = "completed" /\ a.gen = task.gen
               /\ asked = {} /\ task.policy = "agent_outcome"]_vars
  BY AcceptStep, TypeParts DEF IInv
<1> QED
  BY <1>1, Invariance, PTL DEF Spec, CompletedByItsRun
=============================================================================
