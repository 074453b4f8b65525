------------------------------- MODULE Workdesk -------------------------------
(***************************************************************************)
(* A task, the runs that attempt it, and what the executing agent reports. *)
(*                                                                         *)
(* The agent writes rows on a card of its project's board.  The Node mints *)
(* the card, binds it to the run, reads its rows into the outbox and sends *)
(* that until it is acknowledged (src/src/workdesk.rs, src/src/control.rs).*)
(* The Control Plane takes each report once, and settles the task when     *)
(* both the run's end and a request to complete are known, in whichever    *)
(* order they come (control-plane/src/node-channel.ts, tasks.ts).  People  *)
(* act on the task beside them, each request on what it read of the task   *)
(* (product-api.ts, task-repository.ts).                                   *)
(***************************************************************************)
EXTENDS Integers, Sequences, SequencesExt

CONSTANTS
  People,      \* places for requests that are served at the same time
  NumRuns,     \* bound: how many runs the task is given
  MaxRows,     \* bound: rows of a card
  MaxRequests, \* bound: how many requests people make
  MaxFaults,   \* bound: crashes, refused runs, failed reads and writes
  MaxEvents,   \* bound: requests and rows of all cards together
  Window,      \* how many entries of the outbox are sent at a tick
  Kinds,       \* what the agent's tools leave on a card
  Outcomes,    \* how a run ends on the Node
  RunIds       \* which run a report may name: the Node's own, or the Control Plane's

ASSUME WorkdeskAssumption ==
  /\ People \subseteq Nat
  /\ {NumRuns, MaxRows, MaxRequests, MaxFaults, MaxEvents, Window} \subseteq Nat
  \* A heartbeat and a result for review mean to the task what a comment does.
  \* A completion has its summary in the payload of its event, in the column
  \* `result` of the card, which is written with it, or nowhere.  `oversized` is
  \* what the Control Plane's schema refuses: a note, reason or list past its
  \* limit, or a kind of block it does not know.
  /\ Kinds \subseteq {"blocked", "completed", "completed_in_card", "completed_bare", "comment",
                     "oversized", "unknown"}
  /\ Outcomes \subseteq {"completed", "failed", "cancelled"}
  /\ RunIds \subseteq {"node", "plane"}

Runs == 1 .. NumRuns
NoRun == 0
Ended == {"completed", "failed", "cancelled"}

VARIABLES
  task,     \* the row of the task
  pending,  \* completion requests without an answer, oldest first
  asked,    \* input requests without an answer
  runs,     \* the Control Plane's runs: status, generation, task_runs
  reports,  \* task_reports: the reports it has seen
  owned,    \* the project of the task is one of the Node that is connected
  http,     \* the requests of people
  work,     \* the Node's runs
  card,     \* the card of a run: on the board, and bound
  board,    \* the rows of a card
  mark,     \* how far they are forwarded
  look,     \* a pass over a card that has read its columns: how many rows it had
  outbox,   \* reports that are not acknowledged
  sent,     \* runs whose end was sent
  given, faults,
  accepted, \* history: the completion requests that were accepted
  forgotten,\* history: the reports that were acknowledged and recorded nowhere
  missed    \* history: rows a pass stepped over because they landed inside it

planeVars == <<task, pending, asked, runs, reports, owned, accepted, forgotten>>
nodeVars == <<work, card, board, mark, look, outbox, sent, missed>>
vars == <<planeVars, http, nodeVars, given, faults>>

TaskStates == {"backlog", "ready", "running", "waiting_input", "review", "completed", "failed", "cancelled"}
Actions == {"mark_ready", "return_to_backlog", "start", "cancel", "complete", "request_changes", "reopen", "answer_input"}

\* Where a person's action takes a task, by the state it is in.
TRANSITIONS ==
  [mark_ready |-> [backlog |-> "ready"],
   return_to_backlog |-> [ready |-> "backlog"],
   start |-> [s \in {"backlog", "ready", "waiting_input", "failed", "cancelled"} |-> "running"],
   cancel |-> [s \in {"backlog", "ready", "running", "waiting_input", "review", "failed"} |-> "cancelled"],
   complete |-> [review |-> "completed"],
   request_changes |-> [review |-> "ready"],
   reopen |-> [s \in {"completed", "cancelled", "failed"} |-> "ready"],
   answer_input |-> [waiting_input |-> "ready"]]

transitionFor(from, action) == from \in DOMAIN TRANSITIONS[action]

NoTask == [status |-> "backlog", gen |-> 0, cur |-> NoRun, policy |-> "agent_outcome"]
NoRequest == [action |-> "none", pc |-> "idle", task |-> NoTask, fresh |-> FALSE, run |-> NoRun]
Reports == Runs \X (1 .. MaxRows)
NotReading == -1

\* Every variable has the type its table, board or frame gives it.
TypeOK ==
  /\ task \in [status : TaskStates, gen : 0 .. NumRuns, cur : 0 .. NumRuns, policy : {"agent_outcome", "explicit_review"}]
  /\ pending \in Seq([run : Runs, gen : 0 .. NumRuns])
  /\ asked \subseteq Reports /\ reports \subseteq Reports /\ outbox \subseteq Reports
  /\ forgotten \subseteq Reports /\ missed \subseteq Reports /\ owned \in BOOLEAN
  /\ runs \in [Runs -> [status : {"none", "queued", "running"} \union Ended, gen : 0 .. NumRuns, attached : BOOLEAN]]
  /\ http \in [People -> [action : Actions \union {"none"}, pc : {"idle", "read", "created", "answered", "moved"},
                          task : [status : TaskStates, gen : 0 .. NumRuns, cur : 0 .. NumRuns,
                                  policy : {"agent_outcome", "explicit_review"}],
                          fresh : BOOLEAN, run : 0 .. NumRuns]]
  /\ work \in [Runs -> {"none", "minted", "live", "refused", "gone"} \union Ended]
  /\ card \in [Runs -> {"none", "minted", "bound"}]
  /\ board \in [Runs -> Seq(Kinds)] /\ mark \in [Runs -> 0 .. MaxRows]
  /\ \A r \in Runs : Len(board[r]) <= MaxRows /\ mark[r] <= Len(board[r])
  /\ look \in [Runs -> 0 .. MaxRows \union {NotReading}]
  /\ sent \subseteq Runs
  /\ accepted \subseteq [run : Runs, gen : 0 .. NumRuns]
  /\ given \in Nat /\ faults \in Nat

Init ==
  /\ task = NoTask /\ pending = <<>> /\ asked = {} /\ reports = {} /\ accepted = {}
  /\ owned = TRUE /\ forgotten = {} /\ missed = {}
  /\ runs = [r \in Runs |-> [status |-> "none", gen |-> 0, attached |-> FALSE]]
  /\ http = [u \in People |-> NoRequest]
  /\ work = [r \in Runs |-> "none"] /\ card = [r \in Runs |-> "none"]
  /\ board = [r \in Runs |-> <<>>] /\ mark = [r \in Runs |-> 0]
  /\ look = [r \in Runs |-> NotReading]
  /\ outbox = {} /\ sent = {}
  /\ given = 0 /\ faults = 0

\* The bounds leave room for another request or row.
Room == given + Cardinality({rep \in Reports : rep[2] <= Len(board[rep[1]])}) < MaxEvents

Fault == faults < MaxFaults /\ faults' = faults + 1

\* A row of the task was written: its version moves, and a request that read
\* the old one will not find it again.
Outdated(h) == [u \in People |-> [h[u] EXCEPT !.fresh = FALSE]]

-----------------------------------------------------------------------------
(* Requests of people.                                                     *)

\* The route reads the task and asks whether its state allows the action; to
\* complete a task that is running is a wish.
loadTaskForWork(u, action) ==
  /\ given < MaxRequests /\ Room
  /\ http[u] = NoRequest /\ \A v \in People : v < u => http[v] # NoRequest
  /\ \/ transitionFor(task.status, action)
     \/ action = "complete" /\ task.status = "running" /\ task.cur # NoRun
     \/ action = "answer_input" /\ asked # {}
  /\ given' = given + 1
  /\ http' = [http EXCEPT ![u] = [NoRequest EXCEPT !.action = action, !.pc = "read", !.task = task, !.fresh = TRUE]]
  /\ UNCHANGED <<planeVars, nodeVars, faults>>

Wish(u) == http[u].action = "complete" /\ http[u].task.status = "running"

\* At most one completion waits for each generation.
Waits(p, gen) == \E i \in DOMAIN p : p[i].gen = gen

recordRequest(u) ==
  /\ http[u].pc = "read" /\ Wish(u)
  /\ LET t == http[u].task IN
     pending' = IF Waits(pending, t.gen) THEN pending ELSE Append(pending, [run |-> t.cur, gen |-> t.gen])
  /\ http' = [http EXCEPT ![u] = NoRequest]
  /\ UNCHANGED <<task, asked, runs, reports, owned, accepted, forgotten, nodeVars, given, faults>>

\* `start` makes the run and its command, with the next generation ...
createRun(u) ==
  /\ http[u].pc = "read" /\ http[u].action = "start"
  /\ \E r \in Runs :
       /\ runs[r].status = "none" /\ \A q \in Runs : q < r => runs[q].status # "none"
       /\ runs' = [runs EXCEPT ![r] = [status |-> "queued", gen |-> http[u].task.gen + 1, attached |-> FALSE]]
       /\ http' = [http EXCEPT ![u].pc = "created", ![u].run = r]
  /\ UNCHANGED <<task, pending, asked, reports, owned, accepted, forgotten, nodeVars, given, faults>>

\* Mutant: the task is moved whatever became of it since it was read.
start_unchecked(u) ==
  /\ http[u].pc = "created"
  /\ runs' = [runs EXCEPT ![http[u].run].attached = TRUE]
  /\ task' = [task EXCEPT !.status = "running", !.gen = @ + 1, !.cur = http[u].run]
  /\ http' = Outdated([http EXCEPT ![u] = NoRequest])
  /\ UNCHANGED <<pending, asked, reports, owned, accepted, forgotten, nodeVars, given, faults>>

\* ... and then moves the task, unless it changed since it was read: the run
\* is attached to it in either case.
startRun(u) ==
  /\ http[u].pc = "created"
  /\ runs' = [runs EXCEPT ![http[u].run].attached = TRUE]
  /\ LET done == [http EXCEPT ![u] = NoRequest] IN
     IF http[u].fresh
     THEN /\ task' = [task EXCEPT !.status = "running", !.gen = @ + 1, !.cur = http[u].run]
          /\ http' = Outdated(done)
     ELSE UNCHANGED task /\ http' = done
  /\ UNCHANGED <<pending, asked, reports, owned, accepted, forgotten, nodeVars, given, faults>>

\* The answer to an input request, given once, before the task moves; nothing
\* happens when somebody else gave it meanwhile.
answerInputRequest(u) ==
  /\ http[u].pc = "read" /\ http[u].action = "answer_input"
  /\ asked' \in IF asked = {} THEN {asked} ELSE {asked \ {a} : a \in asked}
  /\ http' = IF asked # {} /\ transitionFor(http[u].task.status, "answer_input")
             THEN [http EXCEPT ![u].pc = "answered"] ELSE [http EXCEPT ![u] = NoRequest]
  /\ UNCHANGED <<task, pending, runs, reports, owned, accepted, forgotten, nodeVars, given, faults>>

Leaves(action) == action \in {"cancel", "reopen", "request_changes"}

\* Every other action moves the task, if nobody wrote it since it was read (the
\* run a cancelled task was at is asked to stop, and ends when it ends).
applyTransition(u) ==
  LET h == http[u] IN
  /\ \/ h.pc = "answered"
     \/ h.pc = "read" /\ h.action \notin {"start", "answer_input"} /\ ~Wish(u)
  /\ IF h.fresh
     THEN /\ task' = [task EXCEPT !.status = TRANSITIONS[h.action][h.task.status],
                                  !.cur = IF Leaves(h.action) THEN NoRun ELSE @]
          /\ http' = Outdated(IF Leaves(h.action) THEN [http EXCEPT ![u].pc = "moved"]
                              ELSE [http EXCEPT ![u] = NoRequest])
     ELSE UNCHANGED task /\ http' = [http EXCEPT ![u] = NoRequest]
  /\ UNCHANGED <<pending, asked, runs, reports, owned, accepted, forgotten, nodeVars, given, faults>>

\* A completion that waited does not survive the task moving elsewhere.
settleRequest(u) ==
  /\ http[u].pc = "moved"
  /\ pending' = IF pending = <<>> THEN pending ELSE Front(pending)
  /\ http' = [http EXCEPT ![u] = NoRequest]
  /\ UNCHANGED <<task, asked, runs, reports, owned, accepted, forgotten, nodeVars, given, faults>>

\* The policy is edited whatever the version.
editFields ==
  /\ given < MaxRequests /\ Room /\ given' = given + 1
  /\ task' = [task EXCEPT !.policy = CHOOSE p \in {"agent_outcome", "explicit_review"} : p # @]
  /\ http' = Outdated(http)
  /\ UNCHANGED <<pending, asked, runs, reports, owned, accepted, forgotten, nodeVars, faults>>

-----------------------------------------------------------------------------
(* The Node: the command, the card and the run.                            *)

\* The card goes on the board, claimed, where no dispatcher takes it.
mint_card(r) == card' = [card EXCEPT ![r] = "minted"]

\* runs.create: a card nobody has seen goes on the board; without one the run
\* is executed all the same.
mint_task_card(r) ==
  /\ runs[r].status = "queued" /\ work[r] = "none" /\ owned
  /\ work' = [work EXCEPT ![r] = "minted"]
  /\ \/ mint_card(r) /\ UNCHANGED faults
     \/ Fault /\ UNCHANGED card
  /\ UNCHANGED <<planeVars, http, board, mark, look, outbox, sent, missed, given>>

create_run(r) ==
  /\ work[r] = "minted"
  /\ \/ work' = [work EXCEPT ![r] = "live"] /\ UNCHANGED faults
     \/ work' = [work EXCEPT ![r] = "refused"] /\ Fault
  /\ UNCHANGED <<planeVars, http, card, board, mark, look, outbox, sent, missed, given>>

\* The binding is written when the run has an id.
record_binding(r) ==
  /\ work[r] \in {"live"} \union Ended /\ card[r] = "minted"
  /\ card' = [card EXCEPT ![r] = "bound"]
  /\ UNCHANGED <<planeVars, http, work, board, mark, look, outbox, sent, missed, given, faults>>

\* The daemon dies in the middle of the command: no run, or no binding.
CrashInCommand(r) ==
  /\ Fault
  /\ \/ work[r] = "minted" /\ work' = [work EXCEPT ![r] = "gone"]
     \/ work[r] = "live" /\ card[r] = "minted" /\ UNCHANGED work
  /\ card' = [card EXCEPT ![r] = "none"]
  /\ look' = [q \in Runs |-> NotReading]
  /\ UNCHANGED <<planeVars, http, board, mark, outbox, sent, missed, given>>

\* The agent calls a tool, and the row lands on the card it was told of, with
\* what the tool writes into the columns of the card in one transaction.
AgentReports(r, kind) ==
  /\ work[r] = "live" /\ card[r] # "none"
  /\ Len(board[r]) < MaxRows /\ Room
  /\ board' = [board EXCEPT ![r] = Append(@, kind)]
  /\ UNCHANGED <<planeVars, http, work, card, mark, look, outbox, sent, missed, given, faults>>

RunEnds(r, outcome) ==
  /\ work[r] = "live"
  /\ work' = [work EXCEPT ![r] = outcome]
  /\ UNCHANGED <<planeVars, http, card, board, mark, look, outbox, sent, missed, given, faults>>

-----------------------------------------------------------------------------
(* The Node: the board and the outbox.                                     *)

\* The column `result` of the card of run r when it had k rows.
result_at(r, k) == \E i \in 1 .. k : board[r][i] = "completed_in_card"

\* Whether a row becomes a report, by the `result` that was read.  A kind this
\* build does not know is stepped over, and so is a completion with no summary.
report_for_event(kind, result) ==
  \/ kind \in {"blocked", "completed", "comment", "oversized"}
  \/ kind \in {"completed_in_card", "completed_bare"} /\ result

\* What the agent said with row i, given what it had written into the card.
Said(r, i) == report_for_event(board[r][i], result_at(r, i))

\* The identity of a report is the card and the row, however often it is sent.
stamp(r, i) == <<r, i>>

\* The rows of run r after its mark and up to m, as reports.  The columns of the
\* card were read before the rows, when it had k of them.  (Events and comments
\* are read with a mark each; the card has one stream of rows here.)
read_board(r, k, m) ==
  {stamp(r, i) : i \in {j \in mark[r] + 1 .. m : report_for_event(board[r][j], result_at(r, k))}}

\* The rows that landed between the two reads and needed the columns.
landed_between(r, k, m) ==
  {stamp(r, i) : i \in {j \in mark[r] + 1 .. m : j > k /\ Said(r, j)}} \ read_board(r, k, m)

\* The mark only moves forward.
advance_marks(r, m) == mark' = [mark EXCEPT ![r] = IF m > @ THEN m ELSE @]

\* A report and the mark behind it are one transaction.
enqueue_report(r, k, m) ==
  /\ outbox' = outbox \union read_board(r, k, m)
  /\ missed' = missed \union landed_between(r, k, m)
  /\ advance_marks(r, m)

\* The card of a run, if it is bound, and the cards that are watched: no card
\* is ever closed.
binding_for_run(r) == card[r] = "bound"
open_cards == {r \in Runs : binding_for_run(r)}

\* Mutant: the mark is advanced before the reports are queued.
drain_advancing_first(r, k) ==
  \/ enqueue_report(r, k, Len(board[r])) /\ UNCHANGED faults
  \/ /\ Fault
     /\ \E m \in mark[r] .. Len(board[r]) : outbox' = outbox \union read_board(r, k, m)
     /\ missed' = missed \union landed_between(r, k, Len(board[r]))
     /\ advance_marks(r, Len(board[r]))

\* A pass over a card stops at its last row or, when a transaction fails or the
\* daemon dies, before it.
drain_card(r, k) ==
  \/ enqueue_report(r, k, Len(board[r])) /\ UNCHANGED faults
  \/ Fault /\ \E m \in mark[r] .. Len(board[r]) : enqueue_report(r, k, m)

\* A card without a binding is not read, and what goes wrong is only logged.
drain_task_board(r, k) ==
  IF binding_for_run(r) THEN drain_card(r, k) ELSE UNCHANGED <<outbox, mark, missed, faults>>

\* Mutant: only the cards of runs that execute are read.
read_live_card(r) ==
  /\ r \in open_cards /\ look[r] = NotReading
  /\ work[r] = "live"
  /\ look' = [look EXCEPT ![r] = Len(board[r])]
  /\ UNCHANGED <<planeVars, http, work, card, board, mark, outbox, sent, missed, given, faults>>

\* Every tick reads every card: its columns first.  (Where there is nothing new
\* and nothing can land, the pass changes nothing.)
read_card(r) ==
  /\ r \in open_cards /\ look[r] = NotReading
  /\ mark[r] # Len(board[r]) \/ (work[r] = "live" /\ Len(board[r]) < MaxRows /\ Room)
  /\ look' = [look EXCEPT ![r] = Len(board[r])]
  /\ UNCHANGED <<planeVars, http, work, card, board, mark, outbox, sent, missed, given, faults>>

\* Its rows afterwards.
pump_task_boards(r) ==
  /\ look[r] # NotReading
  /\ drain_task_board(r, look[r])
  /\ look' = [look EXCEPT ![r] = NotReading]
  /\ UNCHANGED <<planeVars, http, work, card, board, sent, given>>

\* The end of a run the Control Plane subscribed to is sent, tick after tick
\* until it is acknowledged, after one more look at the card; no row lands any
\* more.
pump_subscriptions(r) ==
  /\ work[r] \in Ended /\ runs[r].status \notin {"none", "queued"} /\ r \notin sent
  /\ look[r] = NotReading
  /\ drain_task_board(r, Len(board[r]))
  /\ sent' = sent \union {r}
  /\ UNCHANGED <<planeVars, http, work, card, board, look, given>>

\* What the Control Plane's schema takes, by the row the report is about.
TaskReportSchema(rep) == board[rep[1]][rep[2]] # "oversized"

\* What the outbox holds is sent at every tick and in every session, so it is
\* on its way; a copy may still be when the Control Plane has had another.
flush_outbox == outbox \union reports \union forgotten

\* Of the outbox the oldest entries are sent.  An entry the Control Plane neither
\* takes nor answers stays: the others have their turn while fewer than Window
\* of it are such.
Clogged == Cardinality({rep \in outbox : ~TaskReportSchema(rep)}) >= Window

\* A report leaves the outbox when the Control Plane acknowledged it.
acknowledge_outbox_correlation(rep) ==
  /\ rep \in outbox \intersect (reports \union forgotten)
  /\ outbox' = outbox \ {rep}
  /\ UNCHANGED <<planeVars, http, work, card, board, mark, look, sent, missed, given, faults>>

-----------------------------------------------------------------------------
(* The Control Plane.                                                      *)

\* The answer to runs.create.  A run that was refused has failed, and nobody
\* settles its task.
applyCommandOutcome(r) ==
  /\ runs[r].status = "queued" /\ owned
  /\ \/ work[r] \in {"live"} \union Ended /\ runs' = [runs EXCEPT ![r].status = "running"]
     \/ work[r] = "refused" /\ runs' = [runs EXCEPT ![r].status = "failed"]
  /\ UNCHANGED <<task, pending, asked, reports, owned, accepted, forgotten, http, nodeVars, given, faults>>

\* What a transaction changes: the task, the requests that wait, the accepted.
Desk == [task |-> task, pending |-> pending, accepted |-> accepted]

Moved(d, from, to) == [d EXCEPT !.task.status = IF @ \in from THEN to ELSE @]

\* The newest request that waits gets its answer.
Answered(d) == [d EXCEPT !.pending = IF @ = <<>> THEN @ ELSE Front(@)]

\* Mutant: a request is taken for the run that ended, whichever it was about.
settle_any_request(d, open, r, status) ==
  IF status # "completed" THEN [Answered(Moved(d, {"running"}, status)) EXCEPT !.task.cur = IF d.task.status = "running" THEN NoRun ELSE @]
  ELSE IF d.pending = <<>> THEN Moved(d, {"running"}, "review")
  ELSE IF open # {} \/ d.task.policy # "agent_outcome" THEN Answered(Moved(d, {"running"}, "review"))
  ELSE [Answered(Moved(d, {"running", "review"}, "completed")) EXCEPT !.accepted = @ \union {Last(d.pending)}]

\* Run r ended as status: whatever run the task is at, it leaves `running`,
\* except where the request that waits is about another attempt.
settleTaskAfterRun(d, open, r, status) ==
  IF status # "completed" THEN [Answered(Moved(d, {"running"}, status)) EXCEPT !.task.cur = IF d.task.status = "running" THEN NoRun ELSE @]
  ELSE IF d.pending = <<>> THEN Moved(d, {"running"}, "review")
  ELSE IF Last(d.pending).run # r \/ Last(d.pending).gen # d.task.gen THEN Answered(d)
  ELSE IF open # {} \/ d.task.policy # "agent_outcome" THEN Answered(Moved(d, {"running"}, "review"))
  ELSE [Answered(Moved(d, {"running", "review"}, "completed")) EXCEPT !.accepted = @ \union {Last(d.pending)}]

\* A transaction leaves the desk as d.
Commit(d) ==
  /\ task' = d.task /\ pending' = d.pending /\ accepted' = d.accepted
  /\ http' = IF d.task # task THEN Outdated(http) ELSE http

\* The end of a run of the connected Node, the first time or again.
handleEvent(r) ==
  /\ r \in sent /\ owned
  /\ runs' = [runs EXCEPT ![r].status = work[r]]
  /\ Commit(IF runs[r].attached THEN settleTaskAfterRun(Desk, asked, r, work[r]) ELSE Desk)
  /\ UNCHANGED <<asked, reports, owned, forgotten, nodeVars, given, faults>>

\* What a report of run r is stamped with: the generation its command named.
TaskAttachment(r) == runs[r].gen

Completes(kind) == kind \in {"completed", "completed_in_card", "completed_bare"}

\* What the agent reported.  A request to complete waits for the end of its
\* run; a block moves the task.
applyTaskReport(d, rep) ==
  LET kind == board[rep[1]][rep[2]] IN
  CASE kind = "blocked" -> Moved(d, {"running"}, "waiting_input")
    [] Completes(kind) ->
         IF Waits(d.pending, TaskAttachment(rep[1])) THEN d
         ELSE [d EXCEPT !.pending = Append(@, [run |-> rep[1], gen |-> TaskAttachment(rep[1])])]
    [] OTHER -> d

\* Whose report is taken: it names a run of the task, of the generation it is
\* at, that is its current one or has ended.
Believed(rep, id) ==
  LET r == rep[1] IN
  /\ id = "plane" /\ runs[r].attached
  /\ TaskAttachment(r) = task.gen
  /\ runs[r].status \in Ended \/ task.cur = r

Apply(rep) ==
  LET r == rep[1]
      kind == board[r][rep[2]]
      d == applyTaskReport(Desk, rep) IN
  /\ asked' = IF kind = "blocked" THEN asked \union {rep} ELSE asked
  /\ Commit(IF Completes(kind) /\ runs[r].status \in Ended
            THEN settleTaskAfterRun(d, asked, r, runs[r].status) ELSE d)

\* A report the schema refuses is counted, neither recorded nor answered.  One
\* about a task that is not this Node's is answered and recorded nowhere.  One
\* that was seen changes nothing; the others are remembered first.
handleTaskReport(rep, id) ==
  /\ rep \in flush_outbox /\ TaskReportSchema(rep)
  /\ reports' = IF owned THEN reports \union {rep} ELSE reports
  /\ forgotten' = IF owned THEN forgotten ELSE forgotten \union {rep}
  /\ IF owned /\ rep \notin reports /\ Believed(rep, id) THEN Apply(rep)
     ELSE UNCHANGED <<task, pending, accepted, http, asked>>
  /\ UNCHANGED <<runs, owned, nodeVars, given, faults>>

\* The host is enrolled anew, under another id: what it holds for the Node it was
\* is no longer its own to say.
EnrolledAnew ==
  /\ owned /\ Fault
  /\ owned' = FALSE
  /\ UNCHANGED <<task, pending, asked, runs, reports, accepted, forgotten, http, nodeVars, given>>

-----------------------------------------------------------------------------
Request(u) ==
  \/ recordRequest(u) \/ createRun(u) \/ startRun(u) \/ answerInputRequest(u)
  \/ applyTransition(u) \/ settleRequest(u)

Command(r) == mint_task_card(r) \/ create_run(r) \/ record_binding(r) \/ applyCommandOutcome(r)

Agent(r) ==
  \/ \E kind \in Kinds : AgentReports(r, kind)
  \/ \E outcome \in Outcomes : RunEnds(r, outcome)

Report(rep) == \E id \in RunIds : handleTaskReport(rep, id)

Pump(r) == read_card(r) \/ pump_task_boards(r) \/ pump_subscriptions(r)

Next ==
  \/ \E u \in People, action \in Actions : loadTaskForWork(u, action)
  \/ \E u \in People : Request(u)
  \/ editFields \/ EnrolledAnew
  \/ \E r \in Runs : Command(r) \/ CrashInCommand(r) \/ Agent(r) \/ Pump(r) \/ handleEvent(r)
  \/ \E rep \in Reports : Report(rep) \/ acknowledge_outbox_correlation(rep)

Spec == Init /\ [][Next]_vars

\* The pump ticks, and a session comes back in which what it sends is handled:
\* of a clogged outbox nothing is assumed.
Fairness ==
  /\ \A r \in Runs : WF_vars(read_card(r) \/ pump_task_boards(r))
  /\ WF_vars(~Clogged /\ \E rep \in Reports \ (reports \union forgotten) : Report(rep))

FairSpec == Spec /\ Fairness

-----------------------------------------------------------------------------
(* Properties.                                                             *)

\* The marks pass a row with which the agent said something only when its report
\* was queued (it waits in the outbox, or the Control Plane answered it), or the
\* row landed between the two reads of one pass and its summary was in the column
\* the pass had already read.  "The cursor can never be past a report that was
\* never queued" is true but for that.
NothingSkipped ==
  \A r \in Runs : \A i \in 1 .. mark[r] :
     Said(r, i) => stamp(r, i) \in outbox \union reports \union forgotten \union missed

\* The run a task is at belongs to it and carries its generation, whoever
\* started it and whatever was started beside it: otherwise what that run
\* reports is stale from its first word.
CurrentAttempt == task.cur # NoRun => runs[task.cur].attached /\ runs[task.cur].gen = task.gen

\* A task is completed without a person only on the request of the attempt it
\* is at, whose run ended well on the Node, with nothing it asked for open and
\* the policy for it - whichever of end and request arrived first.
CompletedByItsRun ==
  [][\A a \in accepted' \ accepted :
        /\ work[a.run] = "completed" /\ a.gen = task.gen
        /\ asked = {} /\ task.policy = "agent_outcome"]_vars

\* What the agent said on a card that is bound, the Control Plane has not got,
\* its schema would take and no pass stepped over.
Outstanding ==
  {rep \in Reports :
     LET r == rep[1] i == rep[2] IN
     /\ card[r] = "bound" /\ i <= Len(board[r]) /\ Said(r, i)
     /\ TaskReportSchema(rep) /\ rep \notin reports \union missed}

\* What is outstanding arrives: there is a time again and again when nothing is,
\* as long as the host stays the Node it was and refused reports do not fill the
\* window of the outbox.
EveryReportArrives == []<>(Outstanding = {} \/ ~owned \/ Clogged)
=============================================================================
