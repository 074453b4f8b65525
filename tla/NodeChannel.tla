---------------------------- MODULE NodeChannel -----------------------------
(***************************************************************************)
(* The session between the Control Plane and one Node: commands that       *)
(* create runs, their results, and the replication of the runs' journals   *)
(* (control-plane/src/node-channel.ts and repositories.ts on one side,     *)
(* src/src/control.rs and remote.rs on the other).                         *)
(*                                                                         *)
(* Both sides keep what they must not lose in a database; everything else  *)
(* is lost with the connection.  Frames of a connection arrive in order.   *)
(* A command is known by the run it creates.  The Node's session loop does *)
(* one thing at a time (task); an action is one transaction or one frame.  *)
(* The subscription of a run is a command too; its own row and its answer  *)
(* change nothing and are left out, its flush of the outbox is not.        *)
(***************************************************************************)
EXTENDS Integers, Sequences, FiniteSets

CONSTANTS
  NumRuns,      \* bound: runs asked for
  NumEvents,    \* events in the journal of a run, the last is terminal
  MaxOutbox,    \* MAX_OUTBOX_DEPTH
  MaxInFlight,  \* bound: frames on the way when the Node's timer ticks
  MaxDrops,     \* bound: how often the connection breaks
  MaxCrashes,   \* bound: how often the daemon dies
  MaxRepeats,   \* bound: how often a command is sent again
  Hazards       \* which of AllHazards the environment may show

\* rollback    the dispatching transaction fails after the frame was sent
\* slow        an answer takes longer than the command timeout
\* slow_ack    the Node's next tick comes before the acknowledgement
\* late_frames frames of a dead connection are processed beside the new one
\* storage     the Node's registry is busy
\* mid_command the daemon dies inside the handling of a command
AllHazards == {"rollback", "slow", "slow_ack", "late_frames", "storage", "mid_command"}

ASSUME BoundsAssumption == NumRuns \in Nat /\ NumEvents \in Nat \ {0} /\ MaxOutbox \in Nat \ {0}
ASSUME HazardsAssumption == Hazards \subseteq AllHazards

Runs == 1..NumRuns
Seqs == 1..NumEvents
NoRun == 0
NotSubscribed == -1

Settled == {"completed", "failed", "rejected", "indeterminate"}
Ended == {"completed", "failed", "lost"}

VARIABLES
  cmd,         \* Control Plane: remote_commands.state
  crun,        \* ... runs.status
  attached,    \* ... runs.node_run_id is set
  subscribed,  \* ... runs.subscribed
  stored,      \* ... run_events, the sequence numbers of a run
  acked,       \* ... runs.acked_event_seq
  covered,     \* the session's subscribed set
  stale,       \* what a sweep of expired commands has still to settle
  conn,        \* there is a connection
  down, up,    \* frames to the Node and from it
  late,        \* frames of the last connection not yet processed
  inbox,       \* Node: remote_commands.state
  outbox,      \* ... unacknowledged answers, [run, state]
  cursor,      \* ... event_subscriptions.acked_seq
  journal,     \* ... how many events the run has
  task,        \* where the session loop is
  taskRun,     \* ... with which run
  answer,      \* ... and which outcome
  drops, crashes, repeats,
  executions   \* history: how often the command took effect

planeVars == <<cmd, crun, attached, subscribed, stored, acked>>
sessionVars == <<covered, stale>>
netVars == <<conn, down, up, late>>
nodeVars == <<inbox, outbox, cursor, journal>>
taskVars == <<task, taskRun, answer>>
counters == <<drops, crashes, repeats>>
vars == <<planeVars, sessionVars, netVars, nodeVars, taskVars, counters, executions>>

Frame(type, r, state, seq) == [type |-> type, run |-> r, state |-> state, seq |-> seq]
Answers == [run : Runs, state : {"received", "executing", "completed", "failed"}]
UpFrames ==
  {Frame("accepted", r, "-", 0) : r \in Runs}
    \union {Frame("result", e.run, e.state, 0) : e \in Answers}
    \union {Frame("event", r, "-", n) : r \in Runs, n \in Seqs}
DownFrames == [type : {"command", "ack", "eventack", "subscribe"}, run : Runs, state : {"-"}, seq : 0..NumEvents]

\* Every row, frame and location has its type.
TypeOK ==
  /\ cmd \in [Runs -> Settled \union {"none", "queued", "dispatched", "accepted"}]
  /\ crun \in [Runs -> Ended \union {"none", "queued", "running"}]
  /\ attached \in [Runs -> BOOLEAN]
  /\ subscribed \in [Runs -> BOOLEAN]
  /\ stored \in [Runs -> SUBSET Seqs]
  /\ acked \in [Runs -> 0..NumEvents]
  /\ covered \subseteq Runs
  /\ stale \subseteq Runs
  /\ conn \in BOOLEAN
  /\ down \in Seq(DownFrames)
  /\ up \in Seq(UpFrames)
  /\ late \in Seq(UpFrames)
  /\ inbox \in [Runs -> {"none", "received", "executing", "completed", "failed"}]
  /\ outbox \in Seq(Answers)
  /\ Len(outbox) <= MaxOutbox
  /\ cursor \in [Runs -> NotSubscribed..NumEvents]
  /\ journal \in [Runs -> 0..NumEvents]
  /\ task \in {"idle", "accept", "execute", "complete", "enqueue", "pump"}
  /\ taskRun \in 0..(NumRuns + 1)
  /\ answer \in {"none", "completed", "failed"}
  /\ drops \in Nat /\ crashes \in Nat /\ repeats \in Nat
  /\ executions \in [Runs -> Nat]

Init ==
  /\ cmd = [r \in Runs |-> "none"]
  /\ crun = [r \in Runs |-> "none"]
  /\ attached = [r \in Runs |-> FALSE]
  /\ subscribed = [r \in Runs |-> FALSE]
  /\ stored = [r \in Runs |-> {}]
  /\ acked = [r \in Runs |-> 0]
  /\ covered = {} /\ stale = {}
  /\ conn = TRUE /\ down = << >> /\ up = << >> /\ late = << >>
  /\ inbox = [r \in Runs |-> "none"]
  /\ outbox = << >>
  /\ cursor = [r \in Runs |-> NotSubscribed]
  /\ journal = [r \in Runs |-> 0]
  /\ task = "idle" /\ taskRun = NoRun /\ answer = "none"
  /\ drops = 0 /\ crashes = 0 /\ repeats = 0
  /\ executions = [r \in Runs |-> 0]

-----------------------------------------------------------------------------
(* The Control Plane.                                                      *)

\* Somebody asks for a run: the command is queued with its run.
CCreate(r) ==
  /\ cmd[r] = "none"
  /\ cmd' = [cmd EXCEPT ![r] = "queued"]
  /\ crun' = [crun EXCEPT ![r] = "queued"]
  /\ UNCHANGED <<attached, subscribed, stored, acked, sessionVars, netVars, nodeVars, taskVars,
                 counters, executions>>

\* dispatchFor: the frame goes out inside the transaction that marks it.
CDispatch(r) ==
  /\ conn /\ cmd[r] = "queued"
  /\ down' = Append(down, Frame("command", r, "-", 0))
  /\ \/ cmd' = [cmd EXCEPT ![r] = "dispatched"] /\ UNCHANGED repeats
     \/ /\ "rollback" \in Hazards /\ repeats < MaxRepeats
        /\ repeats' = repeats + 1
        /\ UNCHANGED cmd
  /\ UNCHANGED <<crun, attached, subscribed, stored, acked, sessionVars, conn, up, late, nodeVars,
                 taskVars, drops, crashes, executions>>

\* ensureSubscriptions: once per session, from the stored cursor.
CSubscribe(r) ==
  /\ conn /\ subscribed[r] /\ attached[r] /\ r \notin covered
  /\ covered' = covered \union {r}
  /\ down' = Append(down, Frame("subscribe", r, "-", acked[r]))
  /\ UNCHANGED <<planeVars, stale, conn, up, late, nodeVars, taskVars, counters, executions>>

\* The next frame of the live connection, or of the last one.  What is
\* answered on the last one reaches nobody.
Incoming(live, m) ==
  \/ /\ live /\ conn /\ up # << >>
     /\ m = Head(up) /\ up' = Tail(up) /\ UNCHANGED late
  \/ /\ ~live /\ late # << >>
     /\ m = Head(late) /\ late' = Tail(late) /\ UNCHANGED up

Reply(live, m) == down' = IF live THEN Append(down, m) ELSE down

CAccepted(live, m) ==
  /\ m.type = "accepted"
  /\ Incoming(live, m)
  /\ cmd' = [cmd EXCEPT ![m.run] = IF @ \in {"queued", "dispatched"} THEN "accepted" ELSE @]
  /\ UNCHANGED <<crun, attached, subscribed, stored, acked, sessionVars, conn, down, nodeVars,
                 taskVars, counters, executions>>

\* handleCommandResult: anything but completed counts as failed.
Outcome(state) == IF state = "completed" THEN "completed" ELSE "failed"

\* Mutant: an answer overwrites what the command was settled as.
CompleteAgain(r, state) == [cmd EXCEPT ![r] = state]

\* commandsRepo.complete: only an open command takes an outcome.
Complete(r, state) == [cmd EXCEPT ![r] = IF @ \in Settled THEN @ ELSE state]

\* The outcome is applied to the run also when the command was settled before.
CResult(live, m) ==
  LET r == m.run IN
  /\ m.type = "result"
  /\ Incoming(live, m)
  /\ Reply(live, Frame("ack", r, "-", 0))
  /\ cmd' = Complete(r, Outcome(m.state))
  /\ \/ /\ m.state = "completed"
        /\ attached' = [attached EXCEPT ![r] = TRUE]
        /\ crun' = [crun EXCEPT ![r] = "running"]
        /\ subscribed' = [subscribed EXCEPT ![r] = TRUE]
     \/ /\ m.state # "completed"
        /\ crun' = [crun EXCEPT ![r] = "failed"]
        /\ UNCHANGED <<attached, subscribed>>
  /\ UNCHANGED <<stored, acked, sessionVars, conn, nodeVars, taskVars, counters, executions>>

\* eventsRepo.highestContiguous, starting after what is acknowledged.
HighestContiguous(r, seqs, n) ==
  /\ n \in acked[r]..NumEvents
  /\ (acked[r] + 1)..n \subseteq seqs
  /\ n + 1 \notin seqs

\* Mutant: a terminal event ends the subscription and not the run.
CEventKeepsRun(live, m) ==
  LET r == m.run IN
  /\ m.type = "event" /\ attached[r]
  /\ Incoming(live, m)
  /\ stored' = [stored EXCEPT ![r] = @ \union {m.seq}]
  /\ \E n \in 0..NumEvents :
       /\ HighestContiguous(r, stored'[r], n)
       /\ acked' = [acked EXCEPT ![r] = n]
       /\ Reply(live, Frame("eventack", r, "-", n))
  /\ subscribed' = [subscribed EXCEPT ![r] = @ /\ m.seq # NumEvents]
  /\ UNCHANGED <<cmd, crun, attached, sessionVars, conn, nodeVars, taskVars, counters, executions>>

\* handleEvent: store, acknowledge the gapless prefix, end the run with its
\* terminal event.  It ignores the events of a run without a Node run; there
\* are none, the run is subscribed only after it has one.
CEvent(live, m) ==
  LET r == m.run IN
  /\ m.type = "event" /\ attached[r]
  /\ Incoming(live, m)
  /\ stored' = [stored EXCEPT ![r] = @ \union {m.seq}]
  /\ \E n \in 0..NumEvents :
       /\ HighestContiguous(r, stored'[r], n)
       /\ acked' = [acked EXCEPT ![r] = n]
       /\ Reply(live, Frame("eventack", r, "-", n))
  /\ \/ /\ m.seq = NumEvents
        /\ crun' = [crun EXCEPT ![r] = "completed"]
        /\ subscribed' = [subscribed EXCEPT ![r] = FALSE]
     \/ m.seq # NumEvents /\ UNCHANGED <<crun, subscribed>>
  /\ UNCHANGED <<cmd, attached, sessionVars, conn, nodeVars, taskVars, counters, executions>>

CFrame(live, m) ==
  CAccepted(live, m) \/ CResult(live, m) \/ CEvent(live, m)

\* No frame and no row will bring an answer to the command any more.
Unanswerable(r) ==
  /\ ~\E i \in 1..Len(down) : down[i].type = "command" /\ down[i].run = r
  /\ ~\E i \in 1..Len(up) : up[i].run = r /\ up[i].type = "result"
  /\ ~\E i \in 1..Len(late) : late[i].run = r /\ late[i].type = "result"
  /\ ~\E i \in 1..Len(outbox) : outbox[i].run = r
  /\ taskRun # r \/ task \in {"idle", "pump"}

\* expireStaleCommands reads which commands are overdue ...
CSweep(r) ==
  /\ r \notin stale /\ cmd[r] \in {"dispatched", "accepted"}
  /\ "slow" \in Hazards \/ Unanswerable(r)
  /\ stale' = stale \union {r}
  /\ UNCHANGED <<planeVars, covered, netVars, nodeVars, taskVars, counters, executions>>

\* ... and settles each: the command if it is still open, its run in any case.
CExpire(r) ==
  /\ r \in stale
  /\ stale' = stale \ {r}
  /\ cmd' = [cmd EXCEPT ![r] = IF @ \in {"dispatched", "accepted"} THEN "indeterminate" ELSE @]
  /\ crun' = [crun EXCEPT ![r] = "lost"]
  /\ subscribed' = [subscribed EXCEPT ![r] = FALSE]
  /\ UNCHANGED <<attached, stored, acked, covered, netVars, nodeVars, taskVars, counters, executions>>

\* An operator closes a run whose Node is away.
CForceClose(r) ==
  /\ ~conn /\ crun[r] \in {"queued", "running"}
  /\ crun' = [crun EXCEPT ![r] = "lost"]
  /\ subscribed' = [subscribed EXCEPT ![r] = FALSE]
  /\ UNCHANGED <<cmd, attached, stored, acked, sessionVars, netVars, nodeVars, taskVars, counters,
                 executions>>

-----------------------------------------------------------------------------
(* The Node.                                                               *)

Results(entries) == [i \in 1..Len(entries) |-> Frame("result", entries[i].run, entries[i].state, 0)]

\* flush_outbox: every unacknowledged answer, in order.  Without a connection
\* the session ends with an error, and a busy registry skips the flush.
Flush(entries) ==
  \/ conn /\ up' = up \o Results(entries)
  \/ (~conn \/ "storage" \in Hazards) /\ UNCHANGED up

Idle == task' = "idle" /\ taskRun' = NoRun /\ answer' = "none"

NextDown(type, r) ==
  /\ conn /\ task = "idle" /\ down # << >>
  /\ Head(down).type = type /\ Head(down).run = r
  /\ down' = Tail(down)

\* handle_command refuses a command it could not answer.
NRefuse(r) ==
  /\ \/ NextDown("command", r)
     \/ NextDown("subscribe", r)
  /\ Len(outbox) >= MaxOutbox
  /\ UNCHANGED <<planeVars, sessionVars, conn, up, late, nodeVars, taskVars, counters, executions>>

\* Mutant: only a settled command counts as a duplicate.
NAdmitUnsettled(r) ==
  /\ NextDown("command", r)
  /\ Len(outbox) < MaxOutbox
  /\ inbox[r] \notin {"completed", "failed"}
  /\ inbox' = [inbox EXCEPT ![r] = "received"]
  /\ task' = "accept" /\ taskRun' = r /\ UNCHANGED answer
  /\ UNCHANGED <<planeVars, sessionVars, conn, up, late, outbox, cursor, journal, counters, executions>>

\* admit_remote_command: a command seen for the first time is recorded.
NAdmit(r) ==
  /\ NextDown("command", r)
  /\ Len(outbox) < MaxOutbox
  /\ inbox[r] = "none"
  /\ inbox' = [inbox EXCEPT ![r] = "received"]
  /\ task' = "accept" /\ taskRun' = r /\ UNCHANGED answer
  /\ UNCHANGED <<planeVars, sessionVars, conn, up, late, outbox, cursor, journal, counters, executions>>

\* A command seen before is answered with what is stored about it.
NDuplicate(r) ==
  LET entries == Append(outbox, [run |-> r, state |-> inbox[r]]) IN
  /\ NextDown("command", r)
  /\ Len(outbox) < MaxOutbox
  /\ inbox[r] # "none"
  /\ outbox' = entries
  /\ Flush(entries)
  /\ UNCHANGED <<planeVars, sessionVars, conn, late, inbox, cursor, journal, taskVars, counters, executions>>

\* The acceptance is sent and the command marked executing; without a
\* connection, or when it cannot be marked, it stays as it was received.
NAccept ==
  /\ task = "accept"
  /\ \/ /\ conn
        /\ up' = Append(up, Frame("accepted", taskRun, "-", 0))
        /\ \/ /\ inbox' = [inbox EXCEPT ![taskRun] = "executing"]
              /\ task' = "execute" /\ UNCHANGED <<taskRun, answer>>
           \/ "storage" \in Hazards /\ Idle /\ UNCHANGED inbox
     \/ ~conn /\ Idle /\ UNCHANGED <<up, inbox>>
  /\ UNCHANGED <<planeVars, sessionVars, conn, down, late, outbox, cursor, journal, counters, executions>>

\* The run is created, or refused without effect.  When the registry is busy
\* once the run exists, its task is not bound and the answer is a failure.
NExecute ==
  /\ task = "execute"
  /\ \/ /\ answer' = "completed" \/ ("storage" \in Hazards /\ answer' = "failed")
        /\ executions' = [executions EXCEPT ![taskRun] = @ + 1]
        /\ journal' = [journal EXCEPT ![taskRun] = IF @ = 0 THEN 1 ELSE @]
     \/ answer' = "failed" /\ UNCHANGED <<executions, journal>>
  /\ task' = "complete" /\ UNCHANGED taskRun
  /\ UNCHANGED <<planeVars, sessionVars, netVars, inbox, outbox, cursor, counters>>

NComplete ==
  /\ task = "complete"
  /\ inbox' = [inbox EXCEPT ![taskRun] = answer]
  /\ task' = "enqueue" /\ UNCHANGED <<taskRun, answer>>
  /\ UNCHANGED <<planeVars, sessionVars, netVars, outbox, cursor, journal, counters, executions>>

\* Mutant: the answer is sent and not kept.
NEnqueueUnkept ==
  LET entries == Append(outbox, [run |-> taskRun, state |-> answer]) IN
  /\ task = "enqueue"
  /\ Flush(entries)
  /\ Idle
  /\ UNCHANGED <<planeVars, sessionVars, conn, down, late, nodeVars, counters, executions>>

\* The answer is kept before it is sent.
NEnqueue ==
  LET entries == Append(outbox, [run |-> taskRun, state |-> answer]) IN
  /\ task = "enqueue"
  /\ outbox' = entries
  /\ Flush(entries)
  /\ Idle
  /\ UNCHANGED <<planeVars, sessionVars, conn, down, late, inbox, cursor, journal, counters, executions>>

\* events.subscribe: a subscription that exists keeps its cursor.
NSubscribe(r) ==
  /\ NextDown("subscribe", r)
  /\ Len(outbox) < MaxOutbox
  /\ cursor' = [cursor EXCEPT ![r] = IF @ = NotSubscribed THEN Head(down).seq ELSE @]
  /\ Flush(outbox)
  /\ UNCHANGED <<planeVars, sessionVars, conn, late, inbox, outbox, journal, taskVars, counters, executions>>

\* Mutant: an acknowledgement settles nothing.
NAckIgnored(r) ==
  /\ NextDown("ack", r)
  /\ UNCHANGED <<planeVars, sessionVars, conn, up, late, nodeVars, taskVars, counters, executions>>

\* server.command.result.ack settles every answer about the command; the
\* others keep their order.
NAck(r) ==
  LET others == {i \in 1..Len(outbox) : outbox[i].run # r} IN
  /\ NextDown("ack", r)
  /\ \E at \in [1..Cardinality(others) -> others] :
       /\ \A i, j \in 1..Cardinality(others) : i < j => at[i] < at[j]
       /\ outbox' = [i \in 1..Cardinality(others) |-> outbox[at[i]]]
  /\ UNCHANGED <<planeVars, sessionVars, conn, up, late, inbox, cursor, journal, taskVars, counters, executions>>

\* server.event.ack moves the cursor of a subscription, never back.
NEventAck(r) ==
  /\ NextDown("eventack", r)
  /\ cursor' = [cursor EXCEPT ![r] = IF @ # NotSubscribed /\ Head(down).seq > @ THEN Head(down).seq ELSE @]
  /\ UNCHANGED <<planeVars, sessionVars, conn, up, late, inbox, outbox, journal, taskVars, counters, executions>>

\* Every answer sent was acknowledged and every acknowledgement handled.
Acknowledged ==
  /\ ~\E i \in 1..Len(up) : up[i].type = "result"
  /\ ~\E i \in 1..Len(down) : down[i].type = "ack"

\* A tick of the session loop: the subscriptions in order, then the outbox.
NTick ==
  /\ conn /\ task = "idle" /\ Len(up) + Len(down) <= MaxInFlight
  /\ "slow_ack" \in Hazards \/ Acknowledged
  /\ outbox # << >> \/ \E r \in Runs : cursor[r] # NotSubscribed /\ cursor[r] < journal[r]
  /\ task' = "pump" /\ taskRun' = 1 /\ UNCHANGED answer
  /\ UNCHANGED <<planeVars, sessionVars, netVars, nodeVars, counters, executions>>

\* Mutant: the cursor moves when the events are sent.
NPumpAdvances ==
  /\ task = "pump" /\ taskRun \in Runs
  /\ \/ /\ conn
        /\ LET from == IF cursor[taskRun] = NotSubscribed THEN journal[taskRun] ELSE cursor[taskRun]
               news == [i \in 1..(journal[taskRun] - from) |-> Frame("event", taskRun, "-", from + i)]
           IN  up' = up \o news
        /\ cursor' = [cursor EXCEPT ![taskRun] = IF @ = NotSubscribed THEN @ ELSE journal[taskRun]]
        /\ taskRun' = taskRun + 1 /\ UNCHANGED <<task, answer>>
     \/ ~conn /\ Idle /\ UNCHANGED <<up, cursor>>
  /\ UNCHANGED <<planeVars, sessionVars, conn, down, late, inbox, outbox, journal, counters, executions>>

\* pump_subscriptions: what follows the cursor.  A busy registry skips the
\* rest of the pass.
NPump ==
  /\ task = "pump" /\ taskRun \in Runs
  /\ \/ /\ conn
        /\ LET from == IF cursor[taskRun] = NotSubscribed THEN journal[taskRun] ELSE cursor[taskRun]
               news == [i \in 1..(journal[taskRun] - from) |-> Frame("event", taskRun, "-", from + i)]
           IN  up' = up \o news
        /\ taskRun' = taskRun + 1 /\ UNCHANGED <<task, answer>>
     \/ /\ conn /\ "storage" \in Hazards
        /\ taskRun' = NumRuns + 1 /\ UNCHANGED <<up, task, answer>>
     \/ ~conn /\ Idle /\ UNCHANGED up
  /\ UNCHANGED <<planeVars, sessionVars, conn, down, late, nodeVars, counters, executions>>

\* The tick ends with the outbox.
NFlush ==
  /\ task = "pump" /\ taskRun \notin Runs
  /\ Flush(outbox)
  /\ Idle
  /\ UNCHANGED <<planeVars, sessionVars, conn, down, late, nodeVars, counters, executions>>

\* The registry is busy: the frame, or the rest of the command, is given up
\* and the session kept.
NStorage ==
  /\ "storage" \in Hazards /\ conn
  /\ \/ task = "idle" /\ down # << >> /\ down' = Tail(down) /\ UNCHANGED taskVars
     \/ task \in {"complete", "enqueue"} /\ Idle /\ UNCHANGED down
  /\ UNCHANGED <<planeVars, sessionVars, conn, up, late, nodeVars, counters, executions>>

\* The run goes on.
NEvent(r) ==
  /\ executions[r] > 0 /\ journal[r] < NumEvents
  /\ journal' = [journal EXCEPT ![r] = @ + 1]
  /\ UNCHANGED <<planeVars, sessionVars, netVars, inbox, outbox, cursor, taskVars, counters, executions>>

-----------------------------------------------------------------------------
(* The connection.                                                         *)

\* n frames had arrived at the Control Plane and are still processed.
Drop(n) ==
  /\ conn /\ drops < MaxDrops /\ late = << >>
  /\ n = 0 \/ "late_frames" \in Hazards
  /\ drops' = drops + 1
  /\ conn' = FALSE
  /\ late' = SubSeq(up, 1, n)
  /\ up' = << >> /\ down' = << >>
  /\ covered' = {}
  /\ UNCHANGED <<planeVars, stale, nodeVars, taskVars, crashes, repeats, executions>>

\* The daemon dies, the connection with it.
Crash ==
  /\ crashes < MaxCrashes
  /\ "mid_command" \in Hazards \/ task \in {"idle", "pump"}
  /\ crashes' = crashes + 1
  /\ conn' = FALSE /\ up' = << >> /\ down' = << >>
  /\ covered' = {}
  /\ Idle
  /\ UNCHANGED <<planeVars, stale, late, nodeVars, drops, repeats, executions>>

\* A new session sends the outbox first.
Connect ==
  /\ ~conn /\ task = "idle"
  /\ conn' = TRUE
  /\ up' = Results(outbox)
  /\ UNCHANGED <<planeVars, sessionVars, down, late, nodeVars, taskVars, counters, executions>>

-----------------------------------------------------------------------------
PlaneStep ==
  \/ \E r \in Runs : CDispatch(r) \/ CSubscribe(r) \/ CSweep(r) \/ CExpire(r)
  \/ \E m \in {Head(q) : q \in {up, late} \ {<< >>}}, live \in BOOLEAN : CFrame(live, m)

TaskStep == NAccept \/ NExecute \/ NComplete \/ NEnqueue \/ NPump \/ NFlush

FrameStep ==
  \E r \in Runs : NRefuse(r) \/ NAdmit(r) \/ NDuplicate(r) \/ NSubscribe(r) \/ NAck(r) \/ NEventAck(r)

Next ==
  \/ PlaneStep \/ TaskStep \/ FrameStep
  \/ \E r \in Runs : CCreate(r) \/ CForceClose(r) \/ NEvent(r)
  \/ NTick \/ NStorage \/ Crash \/ Connect
  \/ \E n \in 0..Len(up) : Drop(n)

Spec == Init /\ [][Next]_vars

\* Timers fire, ready tasks run, the Node reconnects and runs go on to their end.
Fairness ==
  /\ \A r \in Runs : /\ WF_vars(CDispatch(r)) /\ WF_vars(CSubscribe(r))
                     /\ WF_vars(CSweep(r)) /\ WF_vars(CExpire(r))
                     /\ WF_vars(NEvent(r))
  /\ WF_vars(\E m \in {Head(q) : q \in {up, late} \ {<< >>}}, live \in BOOLEAN : CFrame(live, m))
  /\ WF_vars(TaskStep) /\ WF_vars(FrameStep) /\ WF_vars(NTick) /\ WF_vars(Connect)

FairSpec == Spec /\ Fairness

-----------------------------------------------------------------------------
\* "Delivery is at-least-once; execution is at-most-once."
ExecutedAtMostOnce == \A r \in Runs : executions[r] <= 1

\* The Node stops resending an event only when the Control Plane has it, and
\* everything before it.
CursorBehindStore == \A r \in Runs : 1..cursor[r] \subseteq stored[r]

\* The Control Plane has a command completed only if the Node completed it.
CompletedIsTrue == \A r \in Runs : cmd[r] = "completed" => inbox[r] = "completed"

\* The answer to a command is kept until the Control Plane has it.
AnswerKept ==
  \A r \in Runs : inbox[r] \in {"completed", "failed"} /\ taskRun # r
    => cmd[r] \in Settled \/ \E i \in 1..Len(outbox) : outbox[i].run = r

\* A run whose end was reported is never shown otherwise again.
EndSticks == [][\A r \in Runs : crun[r] = "completed" => crun'[r] = "completed"]_vars

\* A run the Node accepted ends for the Control Plane too.
EndIsLearned == \A r \in Runs : crun[r] \in {"queued", "running"} ~> crun[r] \in Ended

-----------------------------------------------------------------------------
(* The abstract specification.                                             *)

\* What the Control Plane's row says of the command; before its outcome the
\* row's state is only about the delivery.
Told == [r \in Runs |-> IF cmd[r] \in Settled \union {"none"} THEN cmd[r] ELSE "open"]

\* What the inbox row says of it.
Done == [r \in Runs |-> IF inbox[r] \in {"completed", "failed"} THEN inbox[r] ELSE "open"]

Remote == INSTANCE RemoteRuns WITH
  told <- Told,
  effects <- executions,
  done <- Done,
  recorded <- journal,
  known <- stored,
  released <- cursor

\* Whatever is lost, repeated, late or cut off, the channel does what RemoteRuns
\* promises: one effect per command that was asked for, an outcome that is
\* final and completed only on evidence, no event the Node did not record,
\* and no event released before it is stored.
ImplementsRemoteRuns == Remote!Spec
=============================================================================
