------------------------- MODULE NodeChannelProofs --------------------------
(***************************************************************************)
(* TLAPS proofs about NodeChannel, for any number of runs, events, drops,  *)
(* crashes and repetitions, any size of the outbox and any set of hazards; *)
(* AnswersAreKept and EndsStick name the hazards they leave out.           *)
(*                                                                         *)
(* TypeOK is inductive once the session loop is known to have a run and a  *)
(* place in the outbox for its answer (TaskInv).  A command takes effect   *)
(* at most once because the row of the inbox is written before and never   *)
(* removed (OnceInv).  The two sides agree because every frame on the way  *)
(* says something that is true of the sender's rows and stays true: a      *)
(* completed answer is about a completed command (TrueAnswers), an         *)
(* acknowledged prefix is stored (StoredPrefixes).                         *)
(* An answer is given up only for an acknowledgement, which is only of a   *)
(* settled command (AckedInv).  An end sticks because the pump runs only   *)
(* when no result is on the way or held, a subscription comes behind every *)
(* command of its run, and a command that expires is silent (LastWordInv). *)
(* What is on its way goes back to somebody's asking and to the journal    *)
(* (AskedInv, HonestInv), hence the two sides implement RemoteRuns.        *)
(***************************************************************************)
EXTENDS NodeChannel, TLAPS, SequenceTheorems, FiniteSetTheorems

\* The session loop knows the run and the answer of its command and has room
\* for it.
TaskInv ==
  /\ task \in {"accept", "execute", "complete", "enqueue"} =>
       taskRun \in Runs /\ Len(outbox) < MaxOutbox
  /\ task \in {"complete", "enqueue"} => answer \in {"completed", "failed"}

\* The parts of TypeOK.
PlaneTypes ==
  /\ cmd \in [Runs -> Settled \union {"none", "queued", "dispatched", "accepted"}]
  /\ crun \in [Runs -> Ended \union {"none", "queued", "running"}]
  /\ attached \in [Runs -> BOOLEAN] /\ subscribed \in [Runs -> BOOLEAN]
  /\ stored \in [Runs -> SUBSET Seqs]
  /\ acked \in [Runs -> 0..NumEvents]
  /\ covered \subseteq Runs /\ stale \subseteq Runs
  /\ conn \in BOOLEAN

NodeTypes ==
  /\ inbox \in [Runs -> {"none", "received", "executing", "completed", "failed"}]
  /\ cursor \in [Runs -> NotSubscribed..NumEvents]
  /\ journal \in [Runs -> 0..NumEvents]
  /\ executions \in [Runs -> Nat]

TaskTypes ==
  /\ task \in {"idle", "accept", "execute", "complete", "enqueue", "pump"}
  /\ taskRun \in 0..(NumRuns + 1)
  /\ answer \in {"none", "completed", "failed"}

CounterTypes == drops \in Nat /\ crashes \in Nat /\ repeats \in Nat

FlatTypes == PlaneTypes /\ NodeTypes /\ TaskTypes /\ CounterTypes

SeqTypes ==
  /\ down \in Seq(DownFrames) /\ up \in Seq(UpFrames) /\ late \in Seq(UpFrames)
  /\ outbox \in Seq(Answers) /\ Len(outbox) <= MaxOutbox

TypeInv == FlatTypes /\ SeqTypes /\ TaskInv

\* A command takes effect after its row is written, and before its task ends.
OnceInv ==
  /\ \A r \in Runs : executions[r] <= 1 /\ (inbox[r] = "none" => executions[r] = 0)
  /\ task \in {"accept", "execute"} => inbox[taskRun] # "none" /\ executions[taskRun] = 0

\* Where the command of the session loop is, and what is completed stays so.
ProgressInv ==
  /\ task = "accept" => inbox[taskRun] = "received"
  /\ task \in {"execute", "complete"} => inbox[taskRun] = "executing"
  /\ task = "enqueue" => inbox[taskRun] = answer

\* Answers and frames that claim a completed command, only where it is one.
TrueEntries == {e \in Answers : e.state = "completed" => inbox[e.run] = "completed"}
TrueFrames == {f \in UpFrames : f.state = "completed" => inbox[f.run] = "completed"}
TrueAnswers ==
  outbox \in Seq(TrueEntries) /\ up \in Seq(TrueFrames) /\ late \in Seq(TrueFrames)

\* Frames that move a cursor, only over stored events.
SafeFrames ==
  {f \in DownFrames : f.type \in {"eventack", "subscribe"} => 1..f.seq \subseteq stored[f.run]}
StoredPrefixes ==
  /\ \A r \in Runs : 1..acked[r] \subseteq stored[r] /\ 1..cursor[r] \subseteq stored[r]
  /\ down \in Seq(SafeFrames)

-----------------------------------------------------------------------------
(* Frames and sequences of frames.                                         *)

\* What is sent to the Node is a frame to the Node.
LEMMA DownFrame ==
  ASSUME NEW type \in {"command", "ack", "eventack", "subscribe"}, NEW r \in Runs,
         NEW n \in 0..NumEvents
  PROVE  Frame(type, r, "-", n) \in DownFrames
  BY DEF Frame, DownFrames

\* What is sent to the Control Plane is a frame to the Control Plane.
LEMMA UpFrame ==
  /\ \A r \in Runs : Frame("accepted", r, "-", 0) \in UpFrames
  /\ \A e \in Answers : Frame("result", e.run, e.state, 0) \in UpFrames
  /\ \A r \in Runs, n \in Seqs : Frame("event", r, "-", n) \in UpFrames
  BY DEF UpFrames

\* The fields of a frame to the Control Plane.
LEMMA UpFields ==
  ASSUME NEW m \in UpFrames
  PROVE  /\ m.run \in Runs
         /\ m.type = "event" => m.seq \in Seqs
         /\ m.state = "completed" => m.type = "result"
  BY DEF UpFrames, Frame, Answers

\* A flush sends one frame for every answer.
LEMMA ResultsSeq ==
  ASSUME NEW S, NEW s \in Seq(Answers),
         \A i \in 1..Len(s) : Frame("result", s[i].run, s[i].state, 0) \in S
  PROVE  Results(s) \in Seq(S)
<1> DEFINE e(i) == Frame("result", s[i].run, s[i].state, 0)
<1>1. Len(s) \in Nat
  BY LenProperties
<1> HIDE DEF e
<1>2. \A i \in 1..Len(s) : e(i) \in S
  BY DEF e
<1>3. [i \in 1..Len(s) |-> e(i)] \in Seq(S)
  BY <1>1, <1>2
<1> QED
  BY <1>3 DEF Results, e

\* The events after a cursor.
LEMMA NewsSeq ==
  ASSUME NEW S, NEW r, NEW from \in Int, NEW to \in Int,
         \A n \in (from + 1)..to : Frame("event", r, "-", n) \in S
  PROVE  [i \in 1..(to - from) |-> Frame("event", r, "-", from + i)] \in Seq(S)
<1> DEFINE e(i) == Frame("event", r, "-", from + i)
<1>1. \A i \in 1..(to - from) : e(i) \in S
  OBVIOUS
<1> HIDE DEF e
<1>2. to - from >= 0 => [i \in 1..(to - from) |-> e(i)] \in Seq(S)
  BY <1>1
<1>3. to - from < 0 => [i \in 1..(to - from) |-> e(i)] \in Seq(S)
  <2>1. to - from < 0 => 1..(to - from) = 1..0
    OBVIOUS
  <2>2. [i \in 1..0 |-> e(i)] \in Seq(S)
    OBVIOUS
  <2> QED
    BY <2>1, <2>2
<1>4. [i \in 1..(to - from) |-> e(i)] \in Seq(S)
  BY <1>2, <1>3
<1> QED
  BY <1>4 DEF e

\* An acknowledgement keeps a part of the outbox.
LEMMA AckSeq ==
  ASSUME NEW S, outbox \in Seq(S), NEW r, NAck(r)
  PROVE  outbox' \in Seq(S) /\ Len(outbox') <= Len(outbox)
<1> DEFINE others == {i \in 1..Len(outbox) : outbox[i].run # r}
<1>1. Len(outbox) \in Nat
  BY LenProperties
<1>2. IsFiniteSet(1..Len(outbox)) /\ Cardinality(1..Len(outbox)) = Len(outbox)
  BY <1>1, FS_Interval
<1>3. IsFiniteSet(others) /\ Cardinality(others) <= Len(outbox)
  BY <1>2, FS_Subset
<1>4. Cardinality(others) \in Nat
  BY <1>3, FS_CardinalityType
<1>5. PICK at \in [1..Cardinality(others) -> others] :
        outbox' = [i \in 1..Cardinality(others) |-> outbox[at[i]]]
  BY DEF NAck
<1>6. \A i \in 1..Cardinality(others) : outbox[at[i]] \in S
  BY ElementOfSeq
<1> QED
  BY <1>3, <1>4, <1>5, <1>6

\* The flat part of the state keeps its type.
LEMMA FlatStep ==
  TypeInv /\ [Next]_vars => FlatTypes'
<1> SUFFICES ASSUME TypeInv, [Next]_vars
             PROVE  FlatTypes'
  OBVIOUS
<1> USE BoundsAssumption DEF TypeInv
<1>m. \A m \in {Head(q) : q \in {up, late} \ {<< >>}} :
        m.run \in Runs /\ (m.type = "event" => m.seq \in Seqs)
  BY HeadTailProperties, UpFields DEF SeqTypes
<1>d. down # << >> => Head(down).seq \in 0..NumEvents
  <2>1. down # << >> => Head(down) \in DownFrames
    BY HeadTailProperties DEF SeqTypes
  <2> QED
    BY <2>1 DEF DownFrames
<1> USE <1>m, <1>d
<1> USE DEF planeVars, sessionVars, netVars, nodeVars, taskVars, counters, Settled,
            Ended, NotSubscribed, NoRun, FlatTypes
<1>1. ASSUME NEW r \in Runs, CDispatch(r)
      PROVE  FlatTypes'
  <2>1. PlaneTypes'
    BY <1>1 DEF PlaneTypes, CDispatch, Seqs
  <2>2. NodeTypes'
    BY <1>1 DEF NodeTypes, CDispatch, TaskInv
  <2>3. TaskTypes'
    BY <1>1 DEF TaskTypes, CDispatch, TaskInv
  <2>4. CounterTypes'
    BY <1>1 DEF CounterTypes, CDispatch
  <2> QED
    BY <2>1, <2>2, <2>3, <2>4 DEF FlatTypes
<1>2. ASSUME NEW r \in Runs, CSubscribe(r)
      PROVE  FlatTypes'
  BY <1>2 DEF CSubscribe, PlaneTypes, NodeTypes, TaskTypes, CounterTypes
<1>3. ASSUME NEW r \in Runs, CSweep(r)
      PROVE  FlatTypes'
  BY <1>3 DEF CSweep, PlaneTypes, NodeTypes, TaskTypes, CounterTypes
<1>4. ASSUME NEW r \in Runs, CExpire(r)
      PROVE  FlatTypes'
  BY <1>4 DEF CExpire, PlaneTypes, NodeTypes, TaskTypes, CounterTypes
<1>5. ASSUME NEW m \in {Head(q) : q \in {up, late} \ {<< >>}}, NEW live \in BOOLEAN, CAccepted(live, m)
      PROVE  FlatTypes'
  BY <1>5 DEF CAccepted, Incoming, PlaneTypes, NodeTypes, TaskTypes, CounterTypes
<1>6. ASSUME NEW m \in {Head(q) : q \in {up, late} \ {<< >>}}, NEW live \in BOOLEAN, CResult(live, m)
      PROVE  FlatTypes'
  BY <1>6 DEF CResult, Incoming, Reply, Complete, Outcome, PlaneTypes, NodeTypes, TaskTypes,
  CounterTypes
<1>7. ASSUME NEW m \in {Head(q) : q \in {up, late} \ {<< >>}}, NEW live \in BOOLEAN, CEvent(live, m)
      PROVE  FlatTypes'
  <2>r. m.run \in Runs /\ m.seq \in Seqs
    BY <1>7 DEF CEvent
  <2>s. stored' \in [Runs -> SUBSET Seqs]
    BY <1>7, <2>r DEF CEvent, PlaneTypes
  <2>a. acked' \in [Runs -> 0..NumEvents]
    BY <1>7, <2>r DEF CEvent, PlaneTypes
  <2>c. /\ crun' \in [Runs -> Ended \union {"none", "queued", "running"}]
        /\ subscribed' \in [Runs -> BOOLEAN]
    BY <1>7, <2>r DEF CEvent, PlaneTypes
  <2>1. PlaneTypes'
    BY <1>7, <2>s, <2>a, <2>c DEF PlaneTypes, CEvent
  <2>2. NodeTypes'
    BY <1>7 DEF NodeTypes, CEvent, Incoming, Reply, HighestContiguous, TaskInv
  <2>3. TaskTypes'
    BY <1>7 DEF TaskTypes, CEvent, Incoming, Reply, HighestContiguous, TaskInv
  <2>4. CounterTypes'
    BY <1>7 DEF CounterTypes, CEvent, Incoming, Reply, HighestContiguous
  <2> QED
    BY <2>1, <2>2, <2>3, <2>4 DEF FlatTypes
<1>8. CASE NAccept
  <2>1. PlaneTypes'
    BY <1>8 DEF PlaneTypes, NAccept, Idle, Seqs
  <2>2. NodeTypes'
    BY <1>8 DEF NodeTypes, NAccept, Idle, TaskInv
  <2>3. TaskTypes'
    BY <1>8 DEF TaskTypes, NAccept, Idle, TaskInv
  <2>4. CounterTypes'
    BY <1>8 DEF CounterTypes, NAccept, Idle
  <2> QED
    BY <2>1, <2>2, <2>3, <2>4 DEF FlatTypes
<1>9. CASE NExecute
  <2>1. PlaneTypes'
    BY <1>9 DEF PlaneTypes, NExecute, Seqs
  <2>r. taskRun \in Runs /\ inbox' = inbox /\ cursor' = cursor
    BY <1>9 DEF NExecute, TaskInv
  <2>j. journal' \in [Runs -> 0..NumEvents]
    <3>1. \/ journal' = [journal EXCEPT ![taskRun] = IF journal[taskRun] = 0 THEN 1 ELSE journal[taskRun]]
          \/ journal' = journal
      BY <1>9 DEF NExecute
    <3> QED
      BY <3>1, <2>r DEF NodeTypes
  <2>e. executions' \in [Runs -> Nat]
    <3>1. \/ executions' = [executions EXCEPT ![taskRun] = executions[taskRun] + 1]
          \/ executions' = executions
      BY <1>9 DEF NExecute
    <3> QED
      BY <3>1, <2>r DEF NodeTypes
  <2>2. NodeTypes'
    BY <2>r, <2>j, <2>e DEF NodeTypes
  <2>3. TaskTypes'
    BY <1>9 DEF TaskTypes, NExecute, TaskInv
  <2>4. CounterTypes'
    BY <1>9 DEF CounterTypes, NExecute
  <2> QED
    BY <2>1, <2>2, <2>3, <2>4 DEF FlatTypes
<1>10. CASE NComplete
  BY <1>10 DEF NComplete, TaskInv, PlaneTypes, NodeTypes, TaskTypes, CounterTypes
<1>11. CASE NEnqueue
  BY <1>11 DEF NEnqueue, Flush, Idle, PlaneTypes, NodeTypes, TaskTypes, CounterTypes
<1>12. CASE NPump
  <2>1. PlaneTypes'
    BY <1>12 DEF PlaneTypes, NPump, Idle, Seqs
  <2>2. NodeTypes'
    BY <1>12 DEF NodeTypes, NPump, Idle, TaskInv
  <2>3. TaskTypes'
    BY <1>12 DEF TaskTypes, NPump, Idle, TaskInv, Runs
  <2>4. CounterTypes'
    BY <1>12 DEF CounterTypes, NPump, Idle
  <2> QED
    BY <2>1, <2>2, <2>3, <2>4 DEF FlatTypes
<1>13. CASE NFlush
  BY <1>13 DEF NFlush, Flush, Idle, PlaneTypes, NodeTypes, TaskTypes, CounterTypes
<1>14. ASSUME NEW r \in Runs, NRefuse(r)
      PROVE  FlatTypes'
  BY <1>14 DEF NRefuse, NextDown, PlaneTypes, NodeTypes, TaskTypes, CounterTypes
<1>15. ASSUME NEW r \in Runs, NAdmit(r)
      PROVE  FlatTypes'
  <2>1. PlaneTypes'
    BY <1>15 DEF PlaneTypes, NAdmit, NextDown, Seqs
  <2>2. NodeTypes'
    BY <1>15 DEF NodeTypes, NAdmit, NextDown, TaskInv
  <2>3. TaskTypes'
    BY <1>15 DEF TaskTypes, NAdmit, NextDown, TaskInv, Runs
  <2>4. CounterTypes'
    BY <1>15 DEF CounterTypes, NAdmit, NextDown
  <2> QED
    BY <2>1, <2>2, <2>3, <2>4 DEF FlatTypes
<1>16. ASSUME NEW r \in Runs, NDuplicate(r)
      PROVE  FlatTypes'
  BY <1>16 DEF NDuplicate, NextDown, Flush, PlaneTypes, NodeTypes, TaskTypes, CounterTypes
<1>17. ASSUME NEW r \in Runs, NSubscribe(r)
      PROVE  FlatTypes'
  <2>1. PlaneTypes'
    BY <1>17 DEF PlaneTypes, NSubscribe, NextDown, Flush, Seqs
  <2>2. NodeTypes'
    BY <1>17 DEF NodeTypes, NSubscribe, NextDown, Flush, TaskInv
  <2>3. TaskTypes'
    BY <1>17 DEF TaskTypes, NSubscribe, NextDown, Flush, TaskInv
  <2>4. CounterTypes'
    BY <1>17 DEF CounterTypes, NSubscribe, NextDown, Flush
  <2> QED
    BY <2>1, <2>2, <2>3, <2>4 DEF FlatTypes
<1>18. ASSUME NEW r \in Runs, NAck(r)
      PROVE  FlatTypes'
  BY <1>18 DEF NAck, NextDown, PlaneTypes, NodeTypes, TaskTypes, CounterTypes
<1>19. ASSUME NEW r \in Runs, NEventAck(r)
      PROVE  FlatTypes'
  <2>1. PlaneTypes'
    BY <1>19 DEF PlaneTypes, NEventAck, NextDown, Seqs
  <2>2. NodeTypes'
    BY <1>19 DEF NodeTypes, NEventAck, NextDown, TaskInv
  <2>3. TaskTypes'
    BY <1>19 DEF TaskTypes, NEventAck, NextDown, TaskInv
  <2>4. CounterTypes'
    BY <1>19 DEF CounterTypes, NEventAck, NextDown
  <2> QED
    BY <2>1, <2>2, <2>3, <2>4 DEF FlatTypes
<1>20. ASSUME NEW r \in Runs, CCreate(r)
      PROVE  FlatTypes'
  BY <1>20 DEF CCreate, PlaneTypes, NodeTypes, TaskTypes, CounterTypes
<1>21. ASSUME NEW r \in Runs, CForceClose(r)
      PROVE  FlatTypes'
  BY <1>21 DEF CForceClose, PlaneTypes, NodeTypes, TaskTypes, CounterTypes
<1>22. ASSUME NEW r \in Runs, NEvent(r)
      PROVE  FlatTypes'
  BY <1>22 DEF NEvent, PlaneTypes, NodeTypes, TaskTypes, CounterTypes
<1>23. CASE NTick
  <2>1. PlaneTypes'
    BY <1>23 DEF PlaneTypes, NTick, Seqs
  <2>2. NodeTypes'
    BY <1>23 DEF NodeTypes, NTick, TaskInv
  <2>3. TaskTypes'
    BY <1>23 DEF TaskTypes, NTick, TaskInv, Runs
  <2>4. CounterTypes'
    BY <1>23 DEF CounterTypes, NTick
  <2> QED
    BY <2>1, <2>2, <2>3, <2>4 DEF FlatTypes
<1>24. CASE NStorage
  BY <1>24 DEF NStorage, Idle, PlaneTypes, NodeTypes, TaskTypes, CounterTypes
<1>25. CASE Crash
  <2>1. PlaneTypes'
    BY <1>25 DEF PlaneTypes, Crash, Idle, Seqs
  <2>2. NodeTypes'
    BY <1>25 DEF NodeTypes, Crash, Idle, TaskInv
  <2>3. TaskTypes'
    BY <1>25 DEF TaskTypes, Crash, Idle, TaskInv
  <2>4. CounterTypes'
    BY <1>25 DEF CounterTypes, Crash, Idle
  <2> QED
    BY <2>1, <2>2, <2>3, <2>4 DEF FlatTypes
<1>26. CASE Connect
  BY <1>26 DEF Connect, PlaneTypes, NodeTypes, TaskTypes, CounterTypes
<1>27. ASSUME NEW n \in 0..Len(up), Drop(n)
      PROVE  FlatTypes'
  <2>1. PlaneTypes'
    BY <1>27 DEF PlaneTypes, Drop, Seqs
  <2>2. NodeTypes'
    BY <1>27 DEF NodeTypes, Drop, TaskInv
  <2>3. TaskTypes'
    BY <1>27 DEF TaskTypes, Drop, TaskInv
  <2>4. CounterTypes'
    BY <1>27 DEF CounterTypes, Drop
  <2> QED
    BY <2>1, <2>2, <2>3, <2>4 DEF FlatTypes
<1>28. CASE UNCHANGED vars
  BY <1>28 DEF vars, PlaneTypes, NodeTypes, TaskTypes, CounterTypes
<1> QED
  BY <1>1, <1>2, <1>3, <1>4, <1>5, <1>6, <1>7, <1>8, <1>9, <1>10, <1>11, <1>12, <1>13,
     <1>14, <1>15, <1>16, <1>17, <1>18, <1>19, <1>20, <1>21, <1>22, <1>23, <1>24,
     <1>25, <1>26, <1>27, <1>28
  DEF Next, PlaneStep, TaskStep, FrameStep, CFrame

\* The frames on the way and the outbox keep their type.
LEMMA SeqStep ==
  TypeInv /\ [Next]_vars => SeqTypes'
<1> SUFFICES ASSUME TypeInv, [Next]_vars
             PROVE  SeqTypes'
  OBVIOUS
<1> USE BoundsAssumption DEF TypeInv, SeqTypes
<1>m. \A m \in {Head(q) : q \in {up, late} \ {<< >>}} :
        m.run \in Runs /\ (m.type = "event" => m.seq \in Seqs)
  BY HeadTailProperties, UpFields
<1>h. /\ down # << >> => Tail(down) \in Seq(DownFrames)
      /\ up # << >> => Tail(up) \in Seq(UpFrames)
      /\ late # << >> => Tail(late) \in Seq(UpFrames)
  BY HeadTailProperties
<1>f. \A s \in Seq(Answers) : Results(s) \in Seq(UpFrames)
  BY ElementOfSeq, UpFrame, ResultsSeq
<1> USE DEF planeVars, sessionVars, netVars, nodeVars, taskVars, counters
<1>1. ASSUME NEW r \in Runs, CDispatch(r)
      PROVE  SeqTypes'
  <2>1. down' \in Seq(DownFrames)
    <3>1. Frame("command", r, "-", 0) \in DownFrames
      BY <1>1, DownFrame
    <3>2. Append(down, Frame("command", r, "-", 0)) \in Seq(DownFrames)
      BY <3>1, AppendProperties
    <3> QED
      BY <1>1, <3>2 DEF CDispatch
  <2>2. up' \in Seq(UpFrames)
    BY <1>1 DEF CDispatch
  <2>3. late' \in Seq(UpFrames)
    BY <1>1 DEF CDispatch
  <2>4. outbox' \in Seq(Answers) /\ Len(outbox') <= MaxOutbox
    BY <1>1 DEF CDispatch
  <2> QED
    BY <2>1, <2>2, <2>3, <2>4 DEF SeqTypes
<1>2. ASSUME NEW r \in Runs, CSubscribe(r)
      PROVE  SeqTypes'
  <2>1. down' \in Seq(DownFrames)
    BY <1>2, DownFrame, AppendProperties DEF CSubscribe, FlatTypes, PlaneTypes
  <2>2. up' \in Seq(UpFrames)
    BY <1>2 DEF CSubscribe
  <2>3. late' \in Seq(UpFrames)
    BY <1>2 DEF CSubscribe
  <2>4. outbox' \in Seq(Answers) /\ Len(outbox') <= MaxOutbox
    BY <1>2 DEF CSubscribe
  <2> QED
    BY <2>1, <2>2, <2>3, <2>4 DEF SeqTypes
<1>3. ASSUME NEW r \in Runs, CSweep(r)
      PROVE  SeqTypes'
  BY <1>3 DEF CSweep
<1>4. ASSUME NEW r \in Runs, CExpire(r)
      PROVE  SeqTypes'
  BY <1>4 DEF CExpire
<1>5. ASSUME NEW m \in {Head(q) : q \in {up, late} \ {<< >>}}, NEW live \in BOOLEAN, CAccepted(live, m)
      PROVE  SeqTypes'
  <2>1. down' \in Seq(DownFrames)
    BY <1>5 DEF CAccepted, Incoming
  <2>2. up' \in Seq(UpFrames)
    BY <1>5, <1>h DEF Incoming, CAccepted
  <2>3. late' \in Seq(UpFrames)
    BY <1>5, <1>h DEF Incoming, CAccepted
  <2>4. outbox' \in Seq(Answers) /\ Len(outbox') <= MaxOutbox
    BY <1>5 DEF CAccepted, Incoming
  <2> QED
    BY <2>1, <2>2, <2>3, <2>4 DEF SeqTypes
<1>6. ASSUME NEW m \in {Head(q) : q \in {up, late} \ {<< >>}}, NEW live \in BOOLEAN, CResult(live, m)
      PROVE  SeqTypes'
  <2>1. down' \in Seq(DownFrames)
    BY <1>6, <1>m, DownFrame, AppendProperties DEF Reply, CResult
  <2>2. up' \in Seq(UpFrames)
    BY <1>6, <1>h DEF Incoming, CResult
  <2>3. late' \in Seq(UpFrames)
    BY <1>6, <1>h DEF Incoming, CResult
  <2>4. outbox' \in Seq(Answers) /\ Len(outbox') <= MaxOutbox
    BY <1>6 DEF CResult, Incoming, Reply, Complete, Outcome
  <2> QED
    BY <2>1, <2>2, <2>3, <2>4 DEF SeqTypes
<1>7. ASSUME NEW m \in {Head(q) : q \in {up, late} \ {<< >>}}, NEW live \in BOOLEAN, CEvent(live, m)
      PROVE  SeqTypes'
  <2>1. down' \in Seq(DownFrames)
    BY <1>7, <1>m, DownFrame, AppendProperties DEF Reply, CEvent
  <2>2. up' \in Seq(UpFrames)
    BY <1>7, <1>h DEF Incoming, CEvent
  <2>3. late' \in Seq(UpFrames)
    BY <1>7, <1>h DEF Incoming, CEvent
  <2>4. outbox' \in Seq(Answers) /\ Len(outbox') <= MaxOutbox
    BY <1>7 DEF CEvent, Incoming, Reply, HighestContiguous
  <2> QED
    BY <2>1, <2>2, <2>3, <2>4 DEF SeqTypes
<1>8. CASE NAccept
  <2>1. down' \in Seq(DownFrames)
    BY <1>8 DEF NAccept, Idle
  <2>2. up' \in Seq(UpFrames)
    <3>1. Frame("accepted", taskRun, "-", 0) \in UpFrames
      BY <1>8, UpFrame DEF NAccept, TaskInv
    <3>2. Append(up, Frame("accepted", taskRun, "-", 0)) \in Seq(UpFrames)
      BY <3>1, AppendProperties
    <3>3. up' = Append(up, Frame("accepted", taskRun, "-", 0)) \/ up' = up
      BY <1>8 DEF NAccept
    <3> QED
      BY <3>2, <3>3
  <2>3. late' \in Seq(UpFrames)
    BY <1>8 DEF NAccept, Idle
  <2>4. outbox' \in Seq(Answers) /\ Len(outbox') <= MaxOutbox
    BY <1>8 DEF NAccept, Idle
  <2> QED
    BY <2>1, <2>2, <2>3, <2>4 DEF SeqTypes
<1>9. CASE NExecute
  BY <1>9 DEF NExecute
<1>10. CASE NComplete
  BY <1>10 DEF NComplete
<1>11. CASE NEnqueue
  <2> DEFINE entries == Append(outbox, [run |-> taskRun, state |-> answer])
  <2>e. [run |-> taskRun, state |-> answer] \in Answers
    BY <1>11 DEF Answers, NEnqueue, TaskInv
  <2>o. entries \in Seq(Answers) /\ Len(entries) = Len(outbox) + 1
    BY <2>e, AppendProperties
  <2>f. Results(entries) \in Seq(UpFrames)
    BY <2>o, <1>f
  <2>1. down' \in Seq(DownFrames)
    BY <1>11 DEF NEnqueue, Flush, Idle
  <2>2. up' \in Seq(UpFrames)
    BY <1>11, <2>f, ConcatProperties DEF Flush, NEnqueue
  <2>3. late' \in Seq(UpFrames)
    BY <1>11 DEF NEnqueue, Flush, Idle
  <2>4. outbox' \in Seq(Answers) /\ Len(outbox') <= MaxOutbox
    BY <1>11, <2>o DEF TaskInv, NEnqueue
  <2> QED
    BY <2>1, <2>2, <2>3, <2>4 DEF SeqTypes
<1>12. CASE NPump
  <2>1. down' \in Seq(DownFrames)
    BY <1>12 DEF NPump, Idle
  <2>2. up' \in Seq(UpFrames)
    <3> DEFINE from == IF cursor[taskRun] = NotSubscribed THEN journal[taskRun] ELSE cursor[taskRun]
    <3> DEFINE news == [i \in 1..(journal[taskRun] - from) |-> Frame("event", taskRun, "-", from + i)]
    <3>1. taskRun \in Runs
      BY <1>12 DEF NPump
    <3>2. from \in 0..NumEvents /\ journal[taskRun] \in 0..NumEvents
      BY <3>1 DEF FlatTypes, NodeTypes, NotSubscribed
    <3>3. \A n \in (from + 1)..journal[taskRun] : n \in Seqs
      BY <3>2 DEF Seqs
    <3>4. \A n \in (from + 1)..journal[taskRun] : Frame("event", taskRun, "-", n) \in UpFrames
      BY <3>1, <3>3, UpFrame
    <3>i. from \in Int /\ journal[taskRun] \in Int
      BY <3>2
    <3> HIDE DEF from
    <3>5. news \in Seq(UpFrames)
      BY <3>i, <3>4, NewsSeq
    <3>6. up' = up \o news \/ up' = up
      BY <1>12 DEF NPump, from
    <3> QED
      BY <3>5, <3>6, ConcatProperties
  <2>3. late' \in Seq(UpFrames)
    BY <1>12 DEF NPump, Idle
  <2>4. outbox' \in Seq(Answers) /\ Len(outbox') <= MaxOutbox
    BY <1>12 DEF NPump, Idle
  <2> QED
    BY <2>1, <2>2, <2>3, <2>4 DEF SeqTypes
<1>13. CASE NFlush
  <2>1. down' \in Seq(DownFrames)
    BY <1>13 DEF NFlush, Flush, Idle
  <2>2. up' \in Seq(UpFrames)
    BY <1>13, <1>f, ConcatProperties DEF Flush, NFlush
  <2>3. late' \in Seq(UpFrames)
    BY <1>13 DEF NFlush, Flush, Idle
  <2>4. outbox' \in Seq(Answers) /\ Len(outbox') <= MaxOutbox
    BY <1>13 DEF NFlush, Flush, Idle
  <2> QED
    BY <2>1, <2>2, <2>3, <2>4 DEF SeqTypes
<1>14. ASSUME NEW r \in Runs, NRefuse(r)
      PROVE  SeqTypes'
  <2>1. down' \in Seq(DownFrames)
    BY <1>14, <1>h DEF NextDown, NRefuse
  <2>2. up' \in Seq(UpFrames)
    BY <1>14 DEF NRefuse, NextDown
  <2>3. late' \in Seq(UpFrames)
    BY <1>14 DEF NRefuse, NextDown
  <2>4. outbox' \in Seq(Answers) /\ Len(outbox') <= MaxOutbox
    BY <1>14 DEF NRefuse, NextDown
  <2> QED
    BY <2>1, <2>2, <2>3, <2>4 DEF SeqTypes
<1>15. ASSUME NEW r \in Runs, NAdmit(r)
      PROVE  SeqTypes'
  <2>1. down' \in Seq(DownFrames)
    BY <1>15, <1>h DEF NextDown, NAdmit
  <2>2. up' \in Seq(UpFrames)
    BY <1>15 DEF NAdmit, NextDown
  <2>3. late' \in Seq(UpFrames)
    BY <1>15 DEF NAdmit, NextDown
  <2>4. outbox' \in Seq(Answers) /\ Len(outbox') <= MaxOutbox
    BY <1>15 DEF NAdmit, NextDown
  <2> QED
    BY <2>1, <2>2, <2>3, <2>4 DEF SeqTypes
<1>16. ASSUME NEW r \in Runs, NDuplicate(r)
      PROVE  SeqTypes'
  <2> DEFINE entries == Append(outbox, [run |-> r, state |-> inbox[r]])
  <2>e. [run |-> r, state |-> inbox[r]] \in Answers
    BY <1>16 DEF Answers, NDuplicate, FlatTypes, NodeTypes
  <2>o. entries \in Seq(Answers) /\ Len(entries) = Len(outbox) + 1
    BY <2>e, AppendProperties
  <2>f. Results(entries) \in Seq(UpFrames)
    BY <2>o, <1>f
  <2>1. down' \in Seq(DownFrames)
    BY <1>16, <1>h DEF NextDown, NDuplicate
  <2>2. up' \in Seq(UpFrames)
    BY <1>16, <2>f, ConcatProperties DEF Flush, NDuplicate
  <2>3. late' \in Seq(UpFrames)
    BY <1>16 DEF NDuplicate, NextDown, Flush
  <2>4. outbox' \in Seq(Answers) /\ Len(outbox') <= MaxOutbox
    BY <1>16, <2>o DEF TaskInv, NDuplicate
  <2> QED
    BY <2>1, <2>2, <2>3, <2>4 DEF SeqTypes
<1>17. ASSUME NEW r \in Runs, NSubscribe(r)
      PROVE  SeqTypes'
  <2>1. down' \in Seq(DownFrames)
    BY <1>17, <1>h DEF NextDown, NSubscribe
  <2>2. up' \in Seq(UpFrames)
    BY <1>17, <1>f, ConcatProperties DEF Flush, NSubscribe
  <2>3. late' \in Seq(UpFrames)
    BY <1>17 DEF NSubscribe, NextDown, Flush
  <2>4. outbox' \in Seq(Answers) /\ Len(outbox') <= MaxOutbox
    BY <1>17 DEF NSubscribe, NextDown, Flush
  <2> QED
    BY <2>1, <2>2, <2>3, <2>4 DEF SeqTypes
<1>18. ASSUME NEW r \in Runs, NAck(r)
      PROVE  SeqTypes'
  <2>1. down' \in Seq(DownFrames)
    BY <1>18, <1>h DEF NextDown, NAck
  <2>2. up' \in Seq(UpFrames)
    BY <1>18 DEF NAck, NextDown
  <2>3. late' \in Seq(UpFrames)
    BY <1>18 DEF NAck, NextDown
  <2>4. outbox' \in Seq(Answers) /\ Len(outbox') <= MaxOutbox
    <3>1. /\ Len(outbox) \in Nat /\ Len(outbox') \in Nat
          /\ outbox' \in Seq(Answers) /\ Len(outbox') <= Len(outbox)
      BY <1>18, AckSeq, LenProperties
    <3> QED
      BY <3>1
  <2> QED
    BY <2>1, <2>2, <2>3, <2>4 DEF SeqTypes
<1>19. ASSUME NEW r \in Runs, NEventAck(r)
      PROVE  SeqTypes'
  <2>1. down' \in Seq(DownFrames)
    BY <1>19, <1>h DEF NextDown, NEventAck
  <2>2. up' \in Seq(UpFrames)
    BY <1>19 DEF NEventAck, NextDown
  <2>3. late' \in Seq(UpFrames)
    BY <1>19 DEF NEventAck, NextDown
  <2>4. outbox' \in Seq(Answers) /\ Len(outbox') <= MaxOutbox
    BY <1>19 DEF NEventAck, NextDown
  <2> QED
    BY <2>1, <2>2, <2>3, <2>4 DEF SeqTypes
<1>20. ASSUME NEW r \in Runs, CCreate(r)
      PROVE  SeqTypes'
  BY <1>20 DEF CCreate
<1>21. ASSUME NEW r \in Runs, CForceClose(r)
      PROVE  SeqTypes'
  BY <1>21 DEF CForceClose
<1>22. ASSUME NEW r \in Runs, NEvent(r)
      PROVE  SeqTypes'
  BY <1>22 DEF NEvent
<1>23. CASE NTick
  BY <1>23 DEF NTick
<1>24. CASE NStorage
  <2>1. down' \in Seq(DownFrames)
    BY <1>24, <1>h DEF NStorage
  <2>2. up' \in Seq(UpFrames)
    BY <1>24 DEF NStorage, Idle
  <2>3. late' \in Seq(UpFrames)
    BY <1>24 DEF NStorage, Idle
  <2>4. outbox' \in Seq(Answers) /\ Len(outbox') <= MaxOutbox
    BY <1>24 DEF NStorage, Idle
  <2> QED
    BY <2>1, <2>2, <2>3, <2>4 DEF SeqTypes
<1>25. CASE Crash
  <2>1. down' \in Seq(DownFrames)
    BY <1>25, EmptySeq DEF Crash
  <2>2. up' \in Seq(UpFrames)
    BY <1>25, EmptySeq DEF Crash
  <2>3. late' \in Seq(UpFrames)
    BY <1>25 DEF Crash, Idle
  <2>4. outbox' \in Seq(Answers) /\ Len(outbox') <= MaxOutbox
    BY <1>25 DEF Crash, Idle
  <2> QED
    BY <2>1, <2>2, <2>3, <2>4 DEF SeqTypes
<1>26. CASE Connect
  <2>1. down' \in Seq(DownFrames)
    BY <1>26 DEF Connect
  <2>2. up' \in Seq(UpFrames)
    BY <1>26, <1>f DEF Connect
  <2>3. late' \in Seq(UpFrames)
    BY <1>26 DEF Connect
  <2>4. outbox' \in Seq(Answers) /\ Len(outbox') <= MaxOutbox
    BY <1>26 DEF Connect
  <2> QED
    BY <2>1, <2>2, <2>3, <2>4 DEF SeqTypes
<1>27. ASSUME NEW n \in 0..Len(up), Drop(n)
      PROVE  SeqTypes'
  <2>1. down' \in Seq(DownFrames)
    BY <1>27, EmptySeq DEF Drop
  <2>2. up' \in Seq(UpFrames)
    BY <1>27, EmptySeq DEF Drop
  <2>3. late' \in Seq(UpFrames)
    <3>1. \A i \in 1..n : up[i] \in UpFrames
      BY ElementOfSeq, LenProperties
    <3>2. SubSeq(up, 1, n) \in Seq(UpFrames)
      BY <3>1, SubSeqProperties, LenProperties
    <3> QED
      BY <1>27, <3>2 DEF Drop
  <2>4. outbox' \in Seq(Answers) /\ Len(outbox') <= MaxOutbox
    BY <1>27 DEF Drop
  <2> QED
    BY <2>1, <2>2, <2>3, <2>4 DEF SeqTypes
<1>28. CASE UNCHANGED vars
  BY <1>28 DEF vars
<1> QED
  BY <1>1, <1>2, <1>3, <1>4, <1>5, <1>6, <1>7, <1>8, <1>9, <1>10, <1>11, <1>12, <1>13,
     <1>14, <1>15, <1>16, <1>17, <1>18, <1>19, <1>20, <1>21, <1>22, <1>23, <1>24,
     <1>25, <1>26, <1>27, <1>28
  DEF Next, PlaneStep, TaskStep, FrameStep, CFrame

\* The session loop keeps its run, its answer and its place in the outbox.
LEMMA TaskStepInv ==
  TypeInv /\ [Next]_vars => TaskInv'
<1> SUFFICES ASSUME TypeInv, [Next]_vars
             PROVE  TaskInv'
  OBVIOUS
<1> USE DEF TypeInv
<1> USE DEF planeVars, sessionVars, netVars, nodeVars, taskVars, counters, TaskInv
<1>1. ASSUME NEW r \in Runs, CDispatch(r)
      PROVE  TaskInv'
  BY <1>1 DEF CDispatch
<1>2. ASSUME NEW r \in Runs, CSubscribe(r)
      PROVE  TaskInv'
  BY <1>2 DEF CSubscribe
<1>3. ASSUME NEW r \in Runs, CSweep(r)
      PROVE  TaskInv'
  BY <1>3 DEF CSweep
<1>4. ASSUME NEW r \in Runs, CExpire(r)
      PROVE  TaskInv'
  BY <1>4 DEF CExpire
<1>5. ASSUME NEW m \in {Head(q) : q \in {up, late} \ {<< >>}}, NEW live \in BOOLEAN, CAccepted(live, m)
      PROVE  TaskInv'
  BY <1>5 DEF CAccepted, Incoming
<1>6. ASSUME NEW m \in {Head(q) : q \in {up, late} \ {<< >>}}, NEW live \in BOOLEAN, CResult(live, m)
      PROVE  TaskInv'
  BY <1>6 DEF CResult, Incoming, Reply, Complete, Outcome
<1>7. ASSUME NEW m \in {Head(q) : q \in {up, late} \ {<< >>}}, NEW live \in BOOLEAN, CEvent(live, m)
      PROVE  TaskInv'
  BY <1>7 DEF CEvent, Incoming, Reply, HighestContiguous
<1>8. CASE NAccept
  BY <1>8 DEF NAccept, Idle
<1>9. CASE NExecute
  BY <1>9 DEF NExecute
<1>10. CASE NComplete
  BY <1>10 DEF NComplete
<1>11. CASE NEnqueue
  BY <1>11 DEF NEnqueue, Flush, Idle
<1>12. CASE NPump
  BY <1>12 DEF NPump, Idle
<1>13. CASE NFlush
  BY <1>13 DEF NFlush, Flush, Idle
<1>14. ASSUME NEW r \in Runs, NRefuse(r)
      PROVE  TaskInv'
  BY <1>14 DEF NRefuse, NextDown
<1>15. ASSUME NEW r \in Runs, NAdmit(r)
      PROVE  TaskInv'
  BY <1>15 DEF NAdmit, NextDown
<1>16. ASSUME NEW r \in Runs, NDuplicate(r)
      PROVE  TaskInv'
  BY <1>16 DEF NDuplicate, NextDown
<1>17. ASSUME NEW r \in Runs, NSubscribe(r)
      PROVE  TaskInv'
  BY <1>17 DEF NSubscribe, NextDown, Flush
<1>18. ASSUME NEW r \in Runs, NAck(r)
      PROVE  TaskInv'
  BY <1>18 DEF NAck, NextDown
<1>19. ASSUME NEW r \in Runs, NEventAck(r)
      PROVE  TaskInv'
  BY <1>19 DEF NEventAck, NextDown
<1>20. ASSUME NEW r \in Runs, CCreate(r)
      PROVE  TaskInv'
  BY <1>20 DEF CCreate
<1>21. ASSUME NEW r \in Runs, CForceClose(r)
      PROVE  TaskInv'
  BY <1>21 DEF CForceClose
<1>22. ASSUME NEW r \in Runs, NEvent(r)
      PROVE  TaskInv'
  BY <1>22 DEF NEvent
<1>23. CASE NTick
  BY <1>23 DEF NTick
<1>24. CASE NStorage
  BY <1>24 DEF NStorage, Idle
<1>25. CASE Crash
  BY <1>25 DEF Crash, Idle
<1>26. CASE Connect
  BY <1>26 DEF Connect
<1>27. ASSUME NEW n \in 0..Len(up), Drop(n)
      PROVE  TaskInv'
  BY <1>27 DEF Drop
<1>28. CASE UNCHANGED vars
  BY <1>28 DEF vars
<1> QED
  BY <1>1, <1>2, <1>3, <1>4, <1>5, <1>6, <1>7, <1>8, <1>9, <1>10, <1>11, <1>12, <1>13,
     <1>14, <1>15, <1>16, <1>17, <1>18, <1>19, <1>20, <1>21, <1>22, <1>23, <1>24,
     <1>25, <1>26, <1>27, <1>28
  DEF Next, PlaneStep, TaskStep, FrameStep, CFrame

\* TypeInv is an invariant.
LEMMA TypeInvariant == Spec => []TypeInv
<1>1. Init => TypeInv
  BY BoundsAssumption, EmptySeq DEF Init, TypeInv, FlatTypes, PlaneTypes, NodeTypes, TaskTypes, CounterTypes,
     SeqTypes, TaskInv, Settled, Ended, NotSubscribed, NoRun
<1>2. TypeInv /\ [Next]_vars => TypeInv'
  BY FlatStep, SeqStep, TaskStepInv DEF TypeInv
<1> QED
  BY <1>1, <1>2, PTL DEF Spec

\* The rows, the frames and the session loop have their types.
THEOREM TypeCorrect == Spec => []TypeOK
<1>1. TypeInv => TypeOK
  BY DEF TypeInv, FlatTypes, PlaneTypes, NodeTypes, TaskTypes, CounterTypes, SeqTypes, TypeOK
<1> QED
  BY <1>1, TypeInvariant, PTL

\* OnceInv is inductive.
LEMMA OnceStep ==
  TypeInv /\ OnceInv /\ [Next]_vars => OnceInv'
<1> SUFFICES ASSUME TypeInv, OnceInv, [Next]_vars
             PROVE  OnceInv'
  OBVIOUS
<1> USE DEF TypeInv, FlatTypes, NodeTypes, TaskTypes, TaskInv
<1> USE DEF planeVars, sessionVars, netVars, nodeVars, taskVars, counters, OnceInv
<1>1. ASSUME NEW r \in Runs, CDispatch(r)
      PROVE  OnceInv'
  BY <1>1 DEF CDispatch
<1>2. ASSUME NEW r \in Runs, CSubscribe(r)
      PROVE  OnceInv'
  BY <1>2 DEF CSubscribe
<1>3. ASSUME NEW r \in Runs, CSweep(r)
      PROVE  OnceInv'
  BY <1>3 DEF CSweep
<1>4. ASSUME NEW r \in Runs, CExpire(r)
      PROVE  OnceInv'
  BY <1>4 DEF CExpire
<1>5. ASSUME NEW m \in {Head(q) : q \in {up, late} \ {<< >>}}, NEW live \in BOOLEAN, CAccepted(live, m)
      PROVE  OnceInv'
  BY <1>5 DEF CAccepted, Incoming
<1>6. ASSUME NEW m \in {Head(q) : q \in {up, late} \ {<< >>}}, NEW live \in BOOLEAN, CResult(live, m)
      PROVE  OnceInv'
  BY <1>6 DEF CResult, Incoming, Reply, Complete, Outcome
<1>7. ASSUME NEW m \in {Head(q) : q \in {up, late} \ {<< >>}}, NEW live \in BOOLEAN, CEvent(live, m)
      PROVE  OnceInv'
  BY <1>7 DEF CEvent, Incoming, Reply, HighestContiguous
<1>8. CASE NAccept
  BY <1>8 DEF NAccept, Idle
<1>9. CASE NExecute
  <2>1. taskRun \in Runs /\ executions[taskRun] = 0 /\ inbox[taskRun] # "none"
    BY <1>9 DEF NExecute
  <2>2. \A r \in Runs : executions'[r] = executions[r] \/ (r = taskRun /\ executions'[r] = 1)
    BY <1>9, <2>1 DEF NExecute
  <2>3. inbox' = inbox /\ task' = "complete"
    BY <1>9 DEF NExecute
  <2> QED
    BY <2>1, <2>2, <2>3
<1>10. CASE NComplete
  BY <1>10 DEF NComplete
<1>11. CASE NEnqueue
  BY <1>11 DEF NEnqueue, Flush, Idle
<1>12. CASE NPump
  BY <1>12 DEF NPump, Idle
<1>13. CASE NFlush
  BY <1>13 DEF NFlush, Flush, Idle
<1>14. ASSUME NEW r \in Runs, NRefuse(r)
      PROVE  OnceInv'
  BY <1>14 DEF NRefuse, NextDown
<1>15. ASSUME NEW r \in Runs, NAdmit(r)
      PROVE  OnceInv'
  BY <1>15 DEF NAdmit, NextDown
<1>16. ASSUME NEW r \in Runs, NDuplicate(r)
      PROVE  OnceInv'
  BY <1>16 DEF NDuplicate, NextDown, Flush
<1>17. ASSUME NEW r \in Runs, NSubscribe(r)
      PROVE  OnceInv'
  BY <1>17 DEF NSubscribe, NextDown, Flush
<1>18. ASSUME NEW r \in Runs, NAck(r)
      PROVE  OnceInv'
  BY <1>18 DEF NAck, NextDown
<1>19. ASSUME NEW r \in Runs, NEventAck(r)
      PROVE  OnceInv'
  BY <1>19 DEF NEventAck, NextDown
<1>20. ASSUME NEW r \in Runs, CCreate(r)
      PROVE  OnceInv'
  BY <1>20 DEF CCreate
<1>21. ASSUME NEW r \in Runs, CForceClose(r)
      PROVE  OnceInv'
  BY <1>21 DEF CForceClose
<1>22. ASSUME NEW r \in Runs, NEvent(r)
      PROVE  OnceInv'
  BY <1>22 DEF NEvent
<1>23. CASE NTick
  BY <1>23 DEF NTick
<1>24. CASE NStorage
  BY <1>24 DEF NStorage, Idle
<1>25. CASE Crash
  BY <1>25 DEF Crash, Idle
<1>26. CASE Connect
  BY <1>26 DEF Connect
<1>27. ASSUME NEW n \in 0..Len(up), Drop(n)
      PROVE  OnceInv'
  BY <1>27 DEF Drop
<1>28. CASE UNCHANGED vars
  BY <1>28 DEF vars
<1> QED
  BY <1>1, <1>2, <1>3, <1>4, <1>5, <1>6, <1>7, <1>8, <1>9, <1>10, <1>11, <1>12, <1>13,
     <1>14, <1>15, <1>16, <1>17, <1>18, <1>19, <1>20, <1>21, <1>22, <1>23, <1>24,
     <1>25, <1>26, <1>27, <1>28
  DEF Next, PlaneStep, TaskStep, FrameStep, CFrame

\* Delivery is at least once, execution at most once: the row of the inbox
\* outlives every connection and every crash.
THEOREM AtMostOnce == Spec => []ExecutedAtMostOnce
<1>1. Init => OnceInv
  BY DEF Init, OnceInv
<1>2. Spec => []TypeInv
  BY TypeInvariant
<1>3. TypeInv /\ OnceInv /\ [Next]_vars => OnceInv'
  BY OnceStep
<1>4. OnceInv => ExecutedAtMostOnce
  BY DEF OnceInv, ExecutedAtMostOnce
<1> QED
  BY <1>1, <1>2, <1>3, <1>4, PTL DEF Spec

\* ProgressInv is inductive.
LEMMA ProgressStep ==
  TypeInv /\ ProgressInv /\ [Next]_vars => ProgressInv'
<1> SUFFICES ASSUME TypeInv, ProgressInv, [Next]_vars
             PROVE  ProgressInv'
  OBVIOUS
<1> USE DEF TypeInv, FlatTypes, NodeTypes, TaskTypes, TaskInv
<1> USE DEF planeVars, sessionVars, netVars, nodeVars, taskVars, counters, ProgressInv
<1>1. ASSUME NEW r \in Runs, CDispatch(r)
      PROVE  ProgressInv'
  BY <1>1 DEF CDispatch
<1>2. ASSUME NEW r \in Runs, CSubscribe(r)
      PROVE  ProgressInv'
  BY <1>2 DEF CSubscribe
<1>3. ASSUME NEW r \in Runs, CSweep(r)
      PROVE  ProgressInv'
  BY <1>3 DEF CSweep
<1>4. ASSUME NEW r \in Runs, CExpire(r)
      PROVE  ProgressInv'
  BY <1>4 DEF CExpire
<1>5. ASSUME NEW m \in {Head(q) : q \in {up, late} \ {<< >>}}, NEW live \in BOOLEAN, CAccepted(live, m)
      PROVE  ProgressInv'
  BY <1>5 DEF CAccepted, Incoming
<1>6. ASSUME NEW m \in {Head(q) : q \in {up, late} \ {<< >>}}, NEW live \in BOOLEAN, CResult(live, m)
      PROVE  ProgressInv'
  BY <1>6 DEF CResult, Incoming, Reply, Complete, Outcome
<1>7. ASSUME NEW m \in {Head(q) : q \in {up, late} \ {<< >>}}, NEW live \in BOOLEAN, CEvent(live, m)
      PROVE  ProgressInv'
  BY <1>7 DEF CEvent, Incoming, Reply, HighestContiguous
<1>8. CASE NAccept
  BY <1>8 DEF NAccept, Idle
<1>9. CASE NExecute
  BY <1>9 DEF NExecute
<1>10. CASE NComplete
  BY <1>10 DEF NComplete
<1>11. CASE NEnqueue
  BY <1>11 DEF NEnqueue, Flush, Idle
<1>12. CASE NPump
  BY <1>12 DEF NPump, Idle
<1>13. CASE NFlush
  BY <1>13 DEF NFlush, Flush, Idle
<1>14. ASSUME NEW r \in Runs, NRefuse(r)
      PROVE  ProgressInv'
  BY <1>14 DEF NRefuse, NextDown
<1>15. ASSUME NEW r \in Runs, NAdmit(r)
      PROVE  ProgressInv'
  BY <1>15 DEF NAdmit, NextDown
<1>16. ASSUME NEW r \in Runs, NDuplicate(r)
      PROVE  ProgressInv'
  BY <1>16 DEF NDuplicate, NextDown, Flush
<1>17. ASSUME NEW r \in Runs, NSubscribe(r)
      PROVE  ProgressInv'
  BY <1>17 DEF NSubscribe, NextDown, Flush
<1>18. ASSUME NEW r \in Runs, NAck(r)
      PROVE  ProgressInv'
  BY <1>18 DEF NAck, NextDown
<1>19. ASSUME NEW r \in Runs, NEventAck(r)
      PROVE  ProgressInv'
  BY <1>19 DEF NEventAck, NextDown
<1>20. ASSUME NEW r \in Runs, CCreate(r)
      PROVE  ProgressInv'
  BY <1>20 DEF CCreate
<1>21. ASSUME NEW r \in Runs, CForceClose(r)
      PROVE  ProgressInv'
  BY <1>21 DEF CForceClose
<1>22. ASSUME NEW r \in Runs, NEvent(r)
      PROVE  ProgressInv'
  BY <1>22 DEF NEvent
<1>23. CASE NTick
  BY <1>23 DEF NTick
<1>24. CASE NStorage
  BY <1>24 DEF NStorage, Idle
<1>25. CASE Crash
  BY <1>25 DEF Crash, Idle
<1>26. CASE Connect
  BY <1>26 DEF Connect
<1>27. ASSUME NEW n \in 0..Len(up), Drop(n)
      PROVE  ProgressInv'
  BY <1>27 DEF Drop
<1>28. CASE UNCHANGED vars
  BY <1>28 DEF vars
<1> QED
  BY <1>1, <1>2, <1>3, <1>4, <1>5, <1>6, <1>7, <1>8, <1>9, <1>10, <1>11, <1>12, <1>13,
     <1>14, <1>15, <1>16, <1>17, <1>18, <1>19, <1>20, <1>21, <1>22, <1>23, <1>24,
     <1>25, <1>26, <1>27, <1>28
  DEF Next, PlaneStep, TaskStep, FrameStep, CFrame

\* A completed command stays completed.
LEMMA CompletedStays ==
  TypeInv /\ ProgressInv /\ [Next]_vars => \A k \in Runs : inbox[k] = "completed" => inbox'[k] = "completed"
<1> SUFFICES ASSUME TypeInv, ProgressInv, [Next]_vars
             PROVE  \A k \in Runs : inbox[k] = "completed" => inbox'[k] = "completed"
  OBVIOUS
<1> USE DEF TypeInv, FlatTypes, NodeTypes, TaskTypes, TaskInv
<1> USE DEF planeVars, sessionVars, netVars, nodeVars, taskVars, counters, ProgressInv
<1>1. ASSUME NEW r \in Runs, CDispatch(r)
      PROVE  \A k \in Runs : inbox[k] = "completed" => inbox'[k] = "completed"
  BY <1>1 DEF CDispatch
<1>2. ASSUME NEW r \in Runs, CSubscribe(r)
      PROVE  \A k \in Runs : inbox[k] = "completed" => inbox'[k] = "completed"
  BY <1>2 DEF CSubscribe
<1>3. ASSUME NEW r \in Runs, CSweep(r)
      PROVE  \A k \in Runs : inbox[k] = "completed" => inbox'[k] = "completed"
  BY <1>3 DEF CSweep
<1>4. ASSUME NEW r \in Runs, CExpire(r)
      PROVE  \A k \in Runs : inbox[k] = "completed" => inbox'[k] = "completed"
  BY <1>4 DEF CExpire
<1>5. ASSUME NEW m \in {Head(q) : q \in {up, late} \ {<< >>}}, NEW live \in BOOLEAN, CAccepted(live, m)
      PROVE  \A k \in Runs : inbox[k] = "completed" => inbox'[k] = "completed"
  BY <1>5 DEF CAccepted, Incoming
<1>6. ASSUME NEW m \in {Head(q) : q \in {up, late} \ {<< >>}}, NEW live \in BOOLEAN, CResult(live, m)
      PROVE  \A k \in Runs : inbox[k] = "completed" => inbox'[k] = "completed"
  BY <1>6 DEF CResult, Incoming, Reply, Complete, Outcome
<1>7. ASSUME NEW m \in {Head(q) : q \in {up, late} \ {<< >>}}, NEW live \in BOOLEAN, CEvent(live, m)
      PROVE  \A k \in Runs : inbox[k] = "completed" => inbox'[k] = "completed"
  BY <1>7 DEF CEvent, Incoming, Reply, HighestContiguous
<1>8. CASE NAccept
  BY <1>8 DEF NAccept, Idle
<1>9. CASE NExecute
  BY <1>9 DEF NExecute
<1>10. CASE NComplete
  BY <1>10 DEF NComplete
<1>11. CASE NEnqueue
  BY <1>11 DEF NEnqueue, Flush, Idle
<1>12. CASE NPump
  BY <1>12 DEF NPump, Idle
<1>13. CASE NFlush
  BY <1>13 DEF NFlush, Flush, Idle
<1>14. ASSUME NEW r \in Runs, NRefuse(r)
      PROVE  \A k \in Runs : inbox[k] = "completed" => inbox'[k] = "completed"
  BY <1>14 DEF NRefuse, NextDown
<1>15. ASSUME NEW r \in Runs, NAdmit(r)
      PROVE  \A k \in Runs : inbox[k] = "completed" => inbox'[k] = "completed"
  BY <1>15 DEF NAdmit, NextDown
<1>16. ASSUME NEW r \in Runs, NDuplicate(r)
      PROVE  \A k \in Runs : inbox[k] = "completed" => inbox'[k] = "completed"
  BY <1>16 DEF NDuplicate, NextDown, Flush
<1>17. ASSUME NEW r \in Runs, NSubscribe(r)
      PROVE  \A k \in Runs : inbox[k] = "completed" => inbox'[k] = "completed"
  BY <1>17 DEF NSubscribe, NextDown, Flush
<1>18. ASSUME NEW r \in Runs, NAck(r)
      PROVE  \A k \in Runs : inbox[k] = "completed" => inbox'[k] = "completed"
  BY <1>18 DEF NAck, NextDown
<1>19. ASSUME NEW r \in Runs, NEventAck(r)
      PROVE  \A k \in Runs : inbox[k] = "completed" => inbox'[k] = "completed"
  BY <1>19 DEF NEventAck, NextDown
<1>20. ASSUME NEW r \in Runs, CCreate(r)
      PROVE  \A k \in Runs : inbox[k] = "completed" => inbox'[k] = "completed"
  BY <1>20 DEF CCreate
<1>21. ASSUME NEW r \in Runs, CForceClose(r)
      PROVE  \A k \in Runs : inbox[k] = "completed" => inbox'[k] = "completed"
  BY <1>21 DEF CForceClose
<1>22. ASSUME NEW r \in Runs, NEvent(r)
      PROVE  \A k \in Runs : inbox[k] = "completed" => inbox'[k] = "completed"
  BY <1>22 DEF NEvent
<1>23. CASE NTick
  BY <1>23 DEF NTick
<1>24. CASE NStorage
  BY <1>24 DEF NStorage, Idle
<1>25. CASE Crash
  BY <1>25 DEF Crash, Idle
<1>26. CASE Connect
  BY <1>26 DEF Connect
<1>27. ASSUME NEW n \in 0..Len(up), Drop(n)
      PROVE  \A k \in Runs : inbox[k] = "completed" => inbox'[k] = "completed"
  BY <1>27 DEF Drop
<1>28. CASE UNCHANGED vars
  BY <1>28 DEF vars
<1> QED
  BY <1>1, <1>2, <1>3, <1>4, <1>5, <1>6, <1>7, <1>8, <1>9, <1>10, <1>11, <1>12, <1>13,
     <1>14, <1>15, <1>16, <1>17, <1>18, <1>19, <1>20, <1>21, <1>22, <1>23, <1>24,
     <1>25, <1>26, <1>27, <1>28
  DEF Next, PlaneStep, TaskStep, FrameStep, CFrame

\* TrueAnswers is inductive.
LEMMA TrueStep ==
  TypeInv /\ ProgressInv /\ TrueAnswers /\ [Next]_vars => TrueAnswers'
<1> SUFFICES ASSUME TypeInv, ProgressInv, TrueAnswers, [Next]_vars
             PROVE  TrueAnswers'
  OBVIOUS
<1> USE DEF TypeInv, FlatTypes, NodeTypes, TaskTypes, TaskInv
<1>s. \A k \in Runs : inbox[k] = "completed" => inbox'[k] = "completed"
  BY CompletedStays
<1>t. TrueEntries \subseteq TrueEntries' /\ TrueFrames \subseteq TrueFrames'
  BY <1>s, UpFields DEF TrueEntries, TrueFrames, Answers
<1>q. outbox \in Seq(TrueEntries') /\ up \in Seq(TrueFrames') /\ late \in Seq(TrueFrames')
  BY <1>t, SeqMonotonic DEF TrueAnswers
<1>h. /\ up # << >> => Tail(up) \in Seq(TrueFrames')
      /\ late # << >> => Tail(late) \in Seq(TrueFrames')
  BY <1>q, HeadTailProperties
<1>c. \A s \in Seq(TrueFrames') : up \o s \in Seq(TrueFrames')
  BY <1>q, ConcatProperties
<1>f. \A s \in Seq(TrueEntries') : Results(s) \in Seq(TrueFrames')
  <2> SUFFICES ASSUME NEW s \in Seq(TrueEntries')
               PROVE  Results(s) \in Seq(TrueFrames')
    OBVIOUS
  <2>1. TrueEntries' \subseteq Answers
    BY DEF TrueEntries
  <2>2. s \in Seq(Answers)
    BY <2>1, SeqMonotonic
  <2>3. \A e \in TrueEntries' : Frame("result", e.run, e.state, 0) \in TrueFrames'
    BY UpFrame DEF TrueEntries, TrueFrames, Frame
  <2>4. \A i \in 1..Len(s) : Frame("result", s[i].run, s[i].state, 0) \in TrueFrames'
    BY <2>3, ElementOfSeq
  <2> QED
    BY <2>2, <2>4, ResultsSeq
<1> USE DEF planeVars, sessionVars, netVars, nodeVars, taskVars, counters
<1>1. ASSUME NEW r \in Runs, CDispatch(r)
      PROVE  TrueAnswers'
  BY <1>1, <1>q DEF TrueAnswers, CDispatch
<1>2. ASSUME NEW r \in Runs, CSubscribe(r)
      PROVE  TrueAnswers'
  BY <1>2, <1>q DEF TrueAnswers, CSubscribe
<1>3. ASSUME NEW r \in Runs, CSweep(r)
      PROVE  TrueAnswers'
  BY <1>3, <1>q DEF TrueAnswers, CSweep
<1>4. ASSUME NEW r \in Runs, CExpire(r)
      PROVE  TrueAnswers'
  BY <1>4, <1>q DEF TrueAnswers, CExpire
<1>5. ASSUME NEW m \in {Head(q) : q \in {up, late} \ {<< >>}}, NEW live \in BOOLEAN, CAccepted(live, m)
      PROVE  TrueAnswers'
  <2>i. up' = up \/ (up # << >> /\ up' = Tail(up))
    BY <1>5 DEF Incoming, CAccepted
  <2>j. late' = late \/ (late # << >> /\ late' = Tail(late))
    BY <1>5 DEF Incoming, CAccepted
  <2>1. outbox' \in Seq(TrueEntries')
    BY <1>5, <1>q DEF CAccepted, Incoming
  <2>2. up' \in Seq(TrueFrames')
    BY <1>h, <1>q, <2>i
  <2>3. late' \in Seq(TrueFrames')
    BY <1>h, <1>q, <2>j
  <2> QED
    BY <2>1, <2>2, <2>3 DEF TrueAnswers
<1>6. ASSUME NEW m \in {Head(q) : q \in {up, late} \ {<< >>}}, NEW live \in BOOLEAN, CResult(live, m)
      PROVE  TrueAnswers'
  <2>i. up' = up \/ (up # << >> /\ up' = Tail(up))
    BY <1>6 DEF Incoming, CResult
  <2>j. late' = late \/ (late # << >> /\ late' = Tail(late))
    BY <1>6 DEF Incoming, CResult
  <2>1. outbox' \in Seq(TrueEntries')
    BY <1>6, <1>q DEF CResult, Incoming, Reply, Complete, Outcome
  <2>2. up' \in Seq(TrueFrames')
    BY <1>h, <1>q, <2>i
  <2>3. late' \in Seq(TrueFrames')
    BY <1>h, <1>q, <2>j
  <2> QED
    BY <2>1, <2>2, <2>3 DEF TrueAnswers
<1>7. ASSUME NEW m \in {Head(q) : q \in {up, late} \ {<< >>}}, NEW live \in BOOLEAN, CEvent(live, m)
      PROVE  TrueAnswers'
  <2>i. up' = up \/ (up # << >> /\ up' = Tail(up))
    BY <1>7 DEF Incoming, CEvent
  <2>j. late' = late \/ (late # << >> /\ late' = Tail(late))
    BY <1>7 DEF Incoming, CEvent
  <2>1. outbox' \in Seq(TrueEntries')
    BY <1>7, <1>q DEF CEvent, Incoming, Reply, HighestContiguous
  <2>2. up' \in Seq(TrueFrames')
    BY <1>h, <1>q, <2>i
  <2>3. late' \in Seq(TrueFrames')
    BY <1>h, <1>q, <2>j
  <2> QED
    BY <2>1, <2>2, <2>3 DEF TrueAnswers
<1>8. CASE NAccept
  <2>1. outbox' \in Seq(TrueEntries')
    BY <1>8, <1>q DEF NAccept, Idle
  <2>2. up' \in Seq(TrueFrames')
    <3>1. Frame("accepted", taskRun, "-", 0) \in UpFrames
      BY <1>8, UpFrame DEF NAccept
    <3>2. Frame("accepted", taskRun, "-", 0) \in TrueFrames'
      BY <3>1 DEF TrueFrames, Frame
    <3>3. Append(up, Frame("accepted", taskRun, "-", 0)) \in Seq(TrueFrames')
      BY <3>2, <1>q, AppendProperties
    <3>4. up' = Append(up, Frame("accepted", taskRun, "-", 0)) \/ up' = up
      BY <1>8 DEF NAccept
    <3> QED
      BY <3>3, <3>4, <1>q
  <2>3. late' \in Seq(TrueFrames')
    BY <1>8, <1>q DEF NAccept, Idle
  <2> QED
    BY <2>1, <2>2, <2>3 DEF TrueAnswers
<1>9. CASE NExecute
  BY <1>9, <1>q DEF TrueAnswers, NExecute
<1>10. CASE NComplete
  BY <1>10, <1>q DEF TrueAnswers, NComplete
<1>11. CASE NEnqueue
  <2> DEFINE entries == Append(outbox, [run |-> taskRun, state |-> answer])
  <2>e. [run |-> taskRun, state |-> answer] \in Answers
    BY <1>11 DEF Answers, NEnqueue
  <2>t. [run |-> taskRun, state |-> answer] \in TrueEntries'
    BY <1>11, <2>e DEF TrueEntries, ProgressInv, NEnqueue
  <2>o. entries \in Seq(TrueEntries')
    BY <2>t, <1>q, AppendProperties
  <2>f. Results(entries) \in Seq(TrueFrames')
    BY <2>o, <1>f
  <2>1. outbox' \in Seq(TrueEntries')
    BY <1>11, <2>o DEF NEnqueue
  <2>2. up' \in Seq(TrueFrames')
    <3>1. up' = up \/ up' = up \o Results(entries)
      BY <1>11 DEF Flush, NEnqueue
    <3> QED
      BY <3>1, <2>f, <1>q, <1>c
  <2>3. late' \in Seq(TrueFrames')
    BY <1>11, <1>q DEF NEnqueue, Flush, Idle
  <2> QED
    BY <2>1, <2>2, <2>3 DEF TrueAnswers
<1>12. CASE NPump
  <2>1. outbox' \in Seq(TrueEntries')
    BY <1>12, <1>q DEF NPump, Idle
  <2>2. up' \in Seq(TrueFrames')
    <3> DEFINE from == IF cursor[taskRun] = NotSubscribed THEN journal[taskRun] ELSE cursor[taskRun]
    <3> DEFINE news == [i \in 1..(journal[taskRun] - from) |-> Frame("event", taskRun, "-", from + i)]
    <3>1. taskRun \in Runs
      BY <1>12 DEF NPump
    <3>2. from \in 0..NumEvents /\ journal[taskRun] \in 0..NumEvents
      BY <3>1 DEF NotSubscribed
    <3>3. \A n \in (from + 1)..journal[taskRun] : n \in Seqs
      BY BoundsAssumption, <3>2 DEF Seqs
    <3>4. \A n \in Seqs : Frame("event", taskRun, "-", n) \in TrueFrames'
      BY <3>1, UpFrame DEF TrueFrames, Frame
    <3>i. from \in Int /\ journal[taskRun] \in Int
      BY BoundsAssumption, <3>2
    <3> HIDE DEF from
    <3>5. news \in Seq(TrueFrames')
      BY <3>i, <3>3, <3>4, NewsSeq
    <3>6. up' = up \o news \/ up' = up
      BY <1>12 DEF NPump, from
    <3> QED
      BY <3>5, <3>6, <1>q, <1>c
  <2>3. late' \in Seq(TrueFrames')
    BY <1>12, <1>q DEF NPump, Idle
  <2> QED
    BY <2>1, <2>2, <2>3 DEF TrueAnswers
<1>13. CASE NFlush
  <2>1. outbox' \in Seq(TrueEntries')
    BY <1>13, <1>q DEF NFlush, Flush, Idle
  <2>2. up' \in Seq(TrueFrames')
    <3>1. up' = up \/ up' = up \o Results(outbox)
      BY <1>13 DEF Flush, NFlush
    <3> QED
      BY <3>1, <1>f, <1>q, <1>c
  <2>3. late' \in Seq(TrueFrames')
    BY <1>13, <1>q DEF NFlush, Flush, Idle
  <2> QED
    BY <2>1, <2>2, <2>3 DEF TrueAnswers
<1>14. ASSUME NEW r \in Runs, NRefuse(r)
      PROVE  TrueAnswers'
  BY <1>14, <1>q DEF TrueAnswers, NRefuse, NextDown
<1>15. ASSUME NEW r \in Runs, NAdmit(r)
      PROVE  TrueAnswers'
  BY <1>15, <1>q DEF TrueAnswers, NAdmit, NextDown
<1>16. ASSUME NEW r \in Runs, NDuplicate(r)
      PROVE  TrueAnswers'
  <2> DEFINE entries == Append(outbox, [run |-> r, state |-> inbox[r]])
  <2>e. [run |-> r, state |-> inbox[r]] \in Answers
    BY <1>16 DEF Answers, NDuplicate
  <2>t. [run |-> r, state |-> inbox[r]] \in TrueEntries'
    BY <1>16, <2>e DEF TrueEntries, NodeTypes, NDuplicate
  <2>o. entries \in Seq(TrueEntries')
    BY <2>t, <1>q, AppendProperties
  <2>f. Results(entries) \in Seq(TrueFrames')
    BY <2>o, <1>f
  <2>1. outbox' \in Seq(TrueEntries')
    BY <1>16, <2>o DEF NDuplicate
  <2>2. up' \in Seq(TrueFrames')
    <3>1. up' = up \/ up' = up \o Results(entries)
      BY <1>16 DEF Flush, NDuplicate
    <3> QED
      BY <3>1, <2>f, <1>q, <1>c
  <2>3. late' \in Seq(TrueFrames')
    BY <1>16, <1>q DEF NDuplicate, NextDown, Flush
  <2> QED
    BY <2>1, <2>2, <2>3 DEF TrueAnswers
<1>17. ASSUME NEW r \in Runs, NSubscribe(r)
      PROVE  TrueAnswers'
  <2>1. outbox' \in Seq(TrueEntries')
    BY <1>17, <1>q DEF NSubscribe, NextDown, Flush
  <2>2. up' \in Seq(TrueFrames')
    <3>1. up' = up \/ up' = up \o Results(outbox)
      BY <1>17 DEF Flush, NSubscribe
    <3> QED
      BY <3>1, <1>f, <1>q, <1>c
  <2>3. late' \in Seq(TrueFrames')
    BY <1>17, <1>q DEF NSubscribe, NextDown, Flush
  <2> QED
    BY <2>1, <2>2, <2>3 DEF TrueAnswers
<1>18. ASSUME NEW r \in Runs, NAck(r)
      PROVE  TrueAnswers'
  <2>1. outbox' \in Seq(TrueEntries')
    BY <1>18, <1>q, AckSeq
  <2>2. up' \in Seq(TrueFrames')
    BY <1>18, <1>q DEF NAck, NextDown
  <2>3. late' \in Seq(TrueFrames')
    BY <1>18, <1>q DEF NAck, NextDown
  <2> QED
    BY <2>1, <2>2, <2>3 DEF TrueAnswers
<1>19. ASSUME NEW r \in Runs, NEventAck(r)
      PROVE  TrueAnswers'
  BY <1>19, <1>q DEF TrueAnswers, NEventAck, NextDown
<1>20. ASSUME NEW r \in Runs, CCreate(r)
      PROVE  TrueAnswers'
  BY <1>20, <1>q DEF TrueAnswers, CCreate
<1>21. ASSUME NEW r \in Runs, CForceClose(r)
      PROVE  TrueAnswers'
  BY <1>21, <1>q DEF TrueAnswers, CForceClose
<1>22. ASSUME NEW r \in Runs, NEvent(r)
      PROVE  TrueAnswers'
  BY <1>22, <1>q DEF TrueAnswers, NEvent
<1>23. CASE NTick
  BY <1>23, <1>q DEF TrueAnswers, NTick
<1>24. CASE NStorage
  BY <1>24, <1>q DEF TrueAnswers, NStorage, Idle
<1>25. CASE Crash
  <2>1. outbox' \in Seq(TrueEntries')
    BY <1>25, <1>q DEF Crash, Idle
  <2>2. up' \in Seq(TrueFrames')
    BY <1>25, EmptySeq DEF Crash
  <2>3. late' \in Seq(TrueFrames')
    BY <1>25, <1>q DEF Crash, Idle
  <2> QED
    BY <2>1, <2>2, <2>3 DEF TrueAnswers
<1>26. CASE Connect
  <2>1. outbox' \in Seq(TrueEntries')
    BY <1>26, <1>q DEF Connect
  <2>2. up' \in Seq(TrueFrames')
    BY <1>26, <1>q, <1>f DEF Connect
  <2>3. late' \in Seq(TrueFrames')
    BY <1>26, <1>q DEF Connect
  <2> QED
    BY <2>1, <2>2, <2>3 DEF TrueAnswers
<1>27. ASSUME NEW n \in 0..Len(up), Drop(n)
      PROVE  TrueAnswers'
  <2>1. outbox' \in Seq(TrueEntries')
    BY <1>27, <1>q DEF Drop
  <2>2. up' \in Seq(TrueFrames')
    BY <1>27, EmptySeq DEF Drop
  <2>3. late' \in Seq(TrueFrames')
    <3>1. \A i \in 1..n : up[i] \in TrueFrames'
      BY <1>q, ElementOfSeq, LenProperties
    <3>2. SubSeq(up, 1, n) \in Seq(TrueFrames')
      BY <1>q, <3>1, SubSeqProperties, LenProperties
    <3> QED
      BY <1>27, <3>2 DEF Drop
  <2> QED
    BY <2>1, <2>2, <2>3 DEF TrueAnswers
<1>28. CASE UNCHANGED vars
  BY <1>28, <1>q DEF vars, TrueAnswers
<1> QED
  BY <1>1, <1>2, <1>3, <1>4, <1>5, <1>6, <1>7, <1>8, <1>9, <1>10, <1>11, <1>12, <1>13,
     <1>14, <1>15, <1>16, <1>17, <1>18, <1>19, <1>20, <1>21, <1>22, <1>23, <1>24,
     <1>25, <1>26, <1>27, <1>28
  DEF Next, PlaneStep, TaskStep, FrameStep, CFrame

\* A command becomes completed only by a true answer.
LEMMA CompletedStep ==
  TypeInv /\ ProgressInv /\ TrueAnswers /\ CompletedIsTrue /\ [Next]_vars => CompletedIsTrue'
<1> SUFFICES ASSUME TypeInv, ProgressInv, TrueAnswers, CompletedIsTrue, [Next]_vars
             PROVE  CompletedIsTrue'
  OBVIOUS
<1> USE DEF TypeInv, FlatTypes, PlaneTypes
<1>s. \A k \in Runs : inbox[k] = "completed" => inbox'[k] = "completed"
  BY CompletedStays
<1>m. \A m \in {Head(q) : q \in {up, late} \ {<< >>}} : m \in TrueFrames
  BY HeadTailProperties DEF TrueAnswers
<1> USE <1>s
<1> USE DEF planeVars, sessionVars, netVars, nodeVars, taskVars, counters,
            CompletedIsTrue
<1>1. ASSUME NEW r \in Runs, CDispatch(r)
      PROVE  CompletedIsTrue'
  BY <1>1 DEF CDispatch
<1>2. ASSUME NEW r \in Runs, CSubscribe(r)
      PROVE  CompletedIsTrue'
  BY <1>2 DEF CSubscribe
<1>3. ASSUME NEW r \in Runs, CSweep(r)
      PROVE  CompletedIsTrue'
  BY <1>3 DEF CSweep
<1>4. ASSUME NEW r \in Runs, CExpire(r)
      PROVE  CompletedIsTrue'
  BY <1>4 DEF CExpire
<1>5. ASSUME NEW m \in {Head(q) : q \in {up, late} \ {<< >>}}, NEW live \in BOOLEAN, CAccepted(live, m)
      PROVE  CompletedIsTrue'
  <2>1. m.run \in Runs
    BY <1>m, UpFields DEF TrueFrames
  <2> QED
    BY <1>5, <2>1 DEF CAccepted
<1>6. ASSUME NEW m \in {Head(q) : q \in {up, late} \ {<< >>}}, NEW live \in BOOLEAN, CResult(live, m)
      PROVE  CompletedIsTrue'
  <2>1. m \in TrueFrames /\ m.run \in Runs
    BY <1>m, UpFields DEF TrueFrames
  <2>2. \A k \in Runs : cmd'[k] = cmd[k] \/ (k = m.run /\ cmd'[k] = Outcome(m.state))
    BY <1>6, <2>1 DEF CResult, Complete
  <2>3. Outcome(m.state) = "completed" => inbox[m.run] = "completed"
    BY <2>1 DEF Outcome, TrueFrames
  <2> QED
    BY <2>1, <2>2, <2>3
<1>7. ASSUME NEW m \in {Head(q) : q \in {up, late} \ {<< >>}}, NEW live \in BOOLEAN, CEvent(live, m)
      PROVE  CompletedIsTrue'
  BY <1>7 DEF CEvent, Incoming, Reply, HighestContiguous
<1>8. CASE NAccept
  BY <1>8 DEF NAccept, Idle
<1>9. CASE NExecute
  BY <1>9 DEF NExecute
<1>10. CASE NComplete
  BY <1>10 DEF NComplete
<1>11. CASE NEnqueue
  BY <1>11 DEF NEnqueue, Flush, Idle
<1>12. CASE NPump
  BY <1>12 DEF NPump, Idle
<1>13. CASE NFlush
  BY <1>13 DEF NFlush, Flush, Idle
<1>14. ASSUME NEW r \in Runs, NRefuse(r)
      PROVE  CompletedIsTrue'
  BY <1>14 DEF NRefuse, NextDown
<1>15. ASSUME NEW r \in Runs, NAdmit(r)
      PROVE  CompletedIsTrue'
  BY <1>15 DEF NAdmit, NextDown
<1>16. ASSUME NEW r \in Runs, NDuplicate(r)
      PROVE  CompletedIsTrue'
  BY <1>16 DEF NDuplicate, NextDown, Flush
<1>17. ASSUME NEW r \in Runs, NSubscribe(r)
      PROVE  CompletedIsTrue'
  BY <1>17 DEF NSubscribe, NextDown, Flush
<1>18. ASSUME NEW r \in Runs, NAck(r)
      PROVE  CompletedIsTrue'
  BY <1>18 DEF NAck, NextDown
<1>19. ASSUME NEW r \in Runs, NEventAck(r)
      PROVE  CompletedIsTrue'
  BY <1>19 DEF NEventAck, NextDown
<1>20. ASSUME NEW r \in Runs, CCreate(r)
      PROVE  CompletedIsTrue'
  BY <1>20 DEF CCreate
<1>21. ASSUME NEW r \in Runs, CForceClose(r)
      PROVE  CompletedIsTrue'
  BY <1>21 DEF CForceClose
<1>22. ASSUME NEW r \in Runs, NEvent(r)
      PROVE  CompletedIsTrue'
  BY <1>22 DEF NEvent
<1>23. CASE NTick
  BY <1>23 DEF NTick
<1>24. CASE NStorage
  BY <1>24 DEF NStorage, Idle
<1>25. CASE Crash
  BY <1>25 DEF Crash, Idle
<1>26. CASE Connect
  BY <1>26 DEF Connect
<1>27. ASSUME NEW n \in 0..Len(up), Drop(n)
      PROVE  CompletedIsTrue'
  BY <1>27 DEF Drop
<1>28. CASE UNCHANGED vars
  BY <1>28 DEF vars
<1> QED
  BY <1>1, <1>2, <1>3, <1>4, <1>5, <1>6, <1>7, <1>8, <1>9, <1>10, <1>11, <1>12, <1>13,
     <1>14, <1>15, <1>16, <1>17, <1>18, <1>19, <1>20, <1>21, <1>22, <1>23, <1>24,
     <1>25, <1>26, <1>27, <1>28
  DEF Next, PlaneStep, TaskStep, FrameStep, CFrame

\* The Control Plane has a command completed only if the Node completed it,
\* whatever was lost, repeated or sent again on the way.
THEOREM AnswersAreTrue == Spec => []CompletedIsTrue
<1> DEFINE Inv == ProgressInv /\ TrueAnswers /\ CompletedIsTrue
<1>1. Init => Inv
  BY EmptySeq DEF Init, ProgressInv, TrueAnswers, CompletedIsTrue
<1>2. TypeInv /\ Inv /\ [Next]_vars => Inv'
  BY ProgressStep, TrueStep, CompletedStep
<1>3. Inv => CompletedIsTrue
  OBVIOUS
<1> HIDE DEF Inv
<1> QED
  BY <1>1, <1>2, <1>3, TypeInvariant, PTL DEF Spec

\* A stored event is never removed.
LEMMA StoredGrows ==
  TypeInv /\ [Next]_vars => \A k \in Runs : stored[k] \subseteq stored'[k]
<1> SUFFICES ASSUME TypeInv, [Next]_vars
             PROVE  \A k \in Runs : stored[k] \subseteq stored'[k]
  OBVIOUS
<1> USE DEF TypeInv, FlatTypes, PlaneTypes
<1> USE DEF planeVars, sessionVars, netVars, nodeVars, taskVars, counters
<1>1. ASSUME NEW r \in Runs, CDispatch(r)
      PROVE  \A k \in Runs : stored[k] \subseteq stored'[k]
  BY <1>1 DEF CDispatch
<1>2. ASSUME NEW r \in Runs, CSubscribe(r)
      PROVE  \A k \in Runs : stored[k] \subseteq stored'[k]
  BY <1>2 DEF CSubscribe
<1>3. ASSUME NEW r \in Runs, CSweep(r)
      PROVE  \A k \in Runs : stored[k] \subseteq stored'[k]
  BY <1>3 DEF CSweep
<1>4. ASSUME NEW r \in Runs, CExpire(r)
      PROVE  \A k \in Runs : stored[k] \subseteq stored'[k]
  BY <1>4 DEF CExpire
<1>5. ASSUME NEW m \in {Head(q) : q \in {up, late} \ {<< >>}}, NEW live \in BOOLEAN, CAccepted(live, m)
      PROVE  \A k \in Runs : stored[k] \subseteq stored'[k]
  BY <1>5 DEF CAccepted, Incoming
<1>6. ASSUME NEW m \in {Head(q) : q \in {up, late} \ {<< >>}}, NEW live \in BOOLEAN, CResult(live, m)
      PROVE  \A k \in Runs : stored[k] \subseteq stored'[k]
  BY <1>6 DEF CResult, Incoming, Reply, Complete, Outcome
<1>7. ASSUME NEW m \in {Head(q) : q \in {up, late} \ {<< >>}}, NEW live \in BOOLEAN, CEvent(live, m)
      PROVE  \A k \in Runs : stored[k] \subseteq stored'[k]
  BY <1>7 DEF CEvent, Incoming, Reply, HighestContiguous
<1>8. CASE NAccept
  BY <1>8 DEF NAccept, Idle
<1>9. CASE NExecute
  BY <1>9 DEF NExecute
<1>10. CASE NComplete
  BY <1>10 DEF NComplete
<1>11. CASE NEnqueue
  BY <1>11 DEF NEnqueue, Flush, Idle
<1>12. CASE NPump
  BY <1>12 DEF NPump, Idle
<1>13. CASE NFlush
  BY <1>13 DEF NFlush, Flush, Idle
<1>14. ASSUME NEW r \in Runs, NRefuse(r)
      PROVE  \A k \in Runs : stored[k] \subseteq stored'[k]
  BY <1>14 DEF NRefuse, NextDown
<1>15. ASSUME NEW r \in Runs, NAdmit(r)
      PROVE  \A k \in Runs : stored[k] \subseteq stored'[k]
  BY <1>15 DEF NAdmit, NextDown
<1>16. ASSUME NEW r \in Runs, NDuplicate(r)
      PROVE  \A k \in Runs : stored[k] \subseteq stored'[k]
  BY <1>16 DEF NDuplicate, NextDown, Flush
<1>17. ASSUME NEW r \in Runs, NSubscribe(r)
      PROVE  \A k \in Runs : stored[k] \subseteq stored'[k]
  BY <1>17 DEF NSubscribe, NextDown, Flush
<1>18. ASSUME NEW r \in Runs, NAck(r)
      PROVE  \A k \in Runs : stored[k] \subseteq stored'[k]
  BY <1>18 DEF NAck, NextDown
<1>19. ASSUME NEW r \in Runs, NEventAck(r)
      PROVE  \A k \in Runs : stored[k] \subseteq stored'[k]
  BY <1>19 DEF NEventAck, NextDown
<1>20. ASSUME NEW r \in Runs, CCreate(r)
      PROVE  \A k \in Runs : stored[k] \subseteq stored'[k]
  BY <1>20 DEF CCreate
<1>21. ASSUME NEW r \in Runs, CForceClose(r)
      PROVE  \A k \in Runs : stored[k] \subseteq stored'[k]
  BY <1>21 DEF CForceClose
<1>22. ASSUME NEW r \in Runs, NEvent(r)
      PROVE  \A k \in Runs : stored[k] \subseteq stored'[k]
  BY <1>22 DEF NEvent
<1>23. CASE NTick
  BY <1>23 DEF NTick
<1>24. CASE NStorage
  BY <1>24 DEF NStorage, Idle
<1>25. CASE Crash
  BY <1>25 DEF Crash, Idle
<1>26. CASE Connect
  BY <1>26 DEF Connect
<1>27. ASSUME NEW n \in 0..Len(up), Drop(n)
      PROVE  \A k \in Runs : stored[k] \subseteq stored'[k]
  BY <1>27 DEF Drop
<1>28. CASE UNCHANGED vars
  BY <1>28 DEF vars
<1> QED
  BY <1>1, <1>2, <1>3, <1>4, <1>5, <1>6, <1>7, <1>8, <1>9, <1>10, <1>11, <1>12, <1>13,
     <1>14, <1>15, <1>16, <1>17, <1>18, <1>19, <1>20, <1>21, <1>22, <1>23, <1>24,
     <1>25, <1>26, <1>27, <1>28
  DEF Next, PlaneStep, TaskStep, FrameStep, CFrame

\* StoredPrefixes is inductive.
LEMMA StoredStep ==
  TypeInv /\ StoredPrefixes /\ [Next]_vars => StoredPrefixes'
<1> SUFFICES ASSUME TypeInv, StoredPrefixes, [Next]_vars
             PROVE  StoredPrefixes'
  OBVIOUS
<1> USE BoundsAssumption DEF TypeInv, SeqTypes
<1>g. \A k \in Runs : stored[k] \subseteq stored'[k]
  BY StoredGrows
<1>r. \A k \in Runs : 1..acked[k] \subseteq stored'[k] /\ 1..cursor[k] \subseteq stored'[k]
  BY <1>g DEF StoredPrefixes
<1>t. SafeFrames \subseteq SafeFrames'
  BY <1>g DEF SafeFrames, DownFrames
<1>q. down \in Seq(SafeFrames')
  BY <1>t, SeqMonotonic DEF StoredPrefixes
<1>h. down # << >> => Head(down) \in SafeFrames' /\ Tail(down) \in Seq(SafeFrames')
  BY <1>q, HeadTailProperties
<1>a. \A f \in SafeFrames' : Append(down, f) \in Seq(SafeFrames')
  BY <1>q, AppendProperties
<1>m. \A m \in {Head(q) : q \in {up, late} \ {<< >>}} : m.run \in Runs
  BY HeadTailProperties, UpFields
<1> USE DEF planeVars, sessionVars, netVars, nodeVars, taskVars, counters
<1>1. ASSUME NEW r \in Runs, CDispatch(r)
      PROVE  StoredPrefixes'
  <2>1. \A k \in Runs : 1..acked'[k] \subseteq stored'[k] /\ 1..cursor'[k] \subseteq stored'[k]
    BY <1>1, <1>r DEF CDispatch
  <2>2. down' \in Seq(SafeFrames')
    <3>1. Frame("command", r, "-", 0) \in DownFrames
      BY <1>1, DownFrame DEF CDispatch, FlatTypes, PlaneTypes
    <3>2. Frame("command", r, "-", 0) \in SafeFrames'
      BY <1>1, <1>r, <3>1 DEF SafeFrames, Frame, CDispatch
    <3> QED
      BY <1>1, <1>a, <3>2 DEF CDispatch
  <2> QED
    BY <2>1, <2>2 DEF StoredPrefixes
<1>2. ASSUME NEW r \in Runs, CSubscribe(r)
      PROVE  StoredPrefixes'
  <2>1. \A k \in Runs : 1..acked'[k] \subseteq stored'[k] /\ 1..cursor'[k] \subseteq stored'[k]
    BY <1>2, <1>r DEF CSubscribe
  <2>2. down' \in Seq(SafeFrames')
    <3>1. Frame("subscribe", r, "-", acked[r]) \in DownFrames
      BY <1>2, DownFrame DEF CSubscribe, FlatTypes, PlaneTypes
    <3>2. Frame("subscribe", r, "-", acked[r]) \in SafeFrames'
      BY <1>2, <1>r, <3>1 DEF SafeFrames, Frame, CSubscribe
    <3> QED
      BY <1>2, <1>a, <3>2 DEF CSubscribe
  <2> QED
    BY <2>1, <2>2 DEF StoredPrefixes
<1>3. ASSUME NEW r \in Runs, CSweep(r)
      PROVE  StoredPrefixes'
  BY <1>3, <1>q, <1>r DEF StoredPrefixes, CSweep
<1>4. ASSUME NEW r \in Runs, CExpire(r)
      PROVE  StoredPrefixes'
  BY <1>4, <1>q, <1>r DEF StoredPrefixes, CExpire
<1>5. ASSUME NEW m \in {Head(q) : q \in {up, late} \ {<< >>}}, NEW live \in BOOLEAN, CAccepted(live, m)
      PROVE  StoredPrefixes'
  BY <1>5, <1>q, <1>r DEF StoredPrefixes, CAccepted, Incoming
<1>6. ASSUME NEW m \in {Head(q) : q \in {up, late} \ {<< >>}}, NEW live \in BOOLEAN, CResult(live, m)
      PROVE  StoredPrefixes'
  <2>1. \A k \in Runs : 1..acked'[k] \subseteq stored'[k] /\ 1..cursor'[k] \subseteq stored'[k]
    BY <1>6, <1>r DEF CResult, Incoming, Reply, Complete, Outcome
  <2>2. down' \in Seq(SafeFrames')
    <3>0. m.run \in Runs
      BY <1>m
    <3>1. Frame("ack", m.run, "-", 0) \in DownFrames
      BY <3>0, DownFrame
    <3>2. Frame("ack", m.run, "-", 0) \in SafeFrames'
      BY <3>1 DEF SafeFrames, Frame
    <3>3. down' = down \/ down' = Append(down, Frame("ack", m.run, "-", 0))
      BY <1>6 DEF CResult, Reply
    <3> QED
      BY <3>2, <3>3, <1>a, <1>q
  <2> QED
    BY <2>1, <2>2 DEF StoredPrefixes
<1>7. ASSUME NEW m \in {Head(q) : q \in {up, late} \ {<< >>}}, NEW live \in BOOLEAN, CEvent(live, m)
      PROVE  StoredPrefixes'
  <2>m. m.run \in Runs
    BY <1>m
  <2>n. PICK k \in 0..NumEvents :
          /\ HighestContiguous(m.run, stored'[m.run], k)
          /\ acked' = [acked EXCEPT ![m.run] = k]
          /\ Reply(live, Frame("eventack", m.run, "-", k))
    BY <1>7 DEF CEvent
  <2>p. 1..k \subseteq stored'[m.run]
    <3>1. acked[m.run] \in 0..NumEvents
      BY <2>m DEF FlatTypes, PlaneTypes
    <3>2. 1..k = 1..acked[m.run] \union (acked[m.run] + 1)..k
      BY <2>n, <3>1 DEF HighestContiguous
    <3>3. 1..acked[m.run] \subseteq stored'[m.run]
      BY <2>m, <1>r
    <3> QED
      BY <2>n, <3>2, <3>3 DEF HighestContiguous
  <2>1. \A i \in Runs : 1..acked'[i] \subseteq stored'[i] /\ 1..cursor'[i] \subseteq stored'[i]
    <3>1. cursor' = cursor /\ acked'[m.run] = k /\ \A j \in Runs : j # m.run => acked'[j] = acked[j]
      BY <1>7, <2>m, <2>n DEF CEvent, FlatTypes, PlaneTypes
    <3> QED
      BY <2>p, <3>1, <1>r
  <2>2. down' \in Seq(SafeFrames')
    <3>1. Frame("eventack", m.run, "-", k) \in DownFrames
      BY <2>m, DownFrame
    <3>2. Frame("eventack", m.run, "-", k) \in SafeFrames'
      BY <3>1, <2>p DEF SafeFrames, Frame
    <3>3. down' = down \/ down' = Append(down, Frame("eventack", m.run, "-", k))
      BY <2>n DEF Reply
    <3> QED
      BY <3>2, <3>3, <1>a, <1>q
  <2> QED
    BY <2>1, <2>2 DEF StoredPrefixes
<1>8. CASE NAccept
  BY <1>8, <1>q, <1>r DEF StoredPrefixes, NAccept, Idle
<1>9. CASE NExecute
  BY <1>9, <1>q, <1>r DEF StoredPrefixes, NExecute
<1>10. CASE NComplete
  BY <1>10, <1>q, <1>r DEF StoredPrefixes, NComplete
<1>11. CASE NEnqueue
  BY <1>11, <1>q, <1>r DEF StoredPrefixes, NEnqueue, Flush, Idle
<1>12. CASE NPump
  BY <1>12, <1>q, <1>r DEF StoredPrefixes, NPump, Idle
<1>13. CASE NFlush
  BY <1>13, <1>q, <1>r DEF StoredPrefixes, NFlush, Flush, Idle
<1>14. ASSUME NEW r \in Runs, NRefuse(r)
      PROVE  StoredPrefixes'
  <2>1. \A k \in Runs : 1..acked'[k] \subseteq stored'[k] /\ 1..cursor'[k] \subseteq stored'[k]
    BY <1>14, <1>r DEF NRefuse, NextDown
  <2>2. down' \in Seq(SafeFrames')
    BY <1>14, <1>h DEF NextDown, NRefuse
  <2> QED
    BY <2>1, <2>2 DEF StoredPrefixes
<1>15. ASSUME NEW r \in Runs, NAdmit(r)
      PROVE  StoredPrefixes'
  <2>1. \A k \in Runs : 1..acked'[k] \subseteq stored'[k] /\ 1..cursor'[k] \subseteq stored'[k]
    BY <1>15, <1>r DEF NAdmit, NextDown
  <2>2. down' \in Seq(SafeFrames')
    BY <1>15, <1>h DEF NextDown, NAdmit
  <2> QED
    BY <2>1, <2>2 DEF StoredPrefixes
<1>16. ASSUME NEW r \in Runs, NDuplicate(r)
      PROVE  StoredPrefixes'
  <2>1. \A k \in Runs : 1..acked'[k] \subseteq stored'[k] /\ 1..cursor'[k] \subseteq stored'[k]
    BY <1>16, <1>r DEF NDuplicate, NextDown, Flush
  <2>2. down' \in Seq(SafeFrames')
    BY <1>16, <1>h DEF NextDown, NDuplicate
  <2> QED
    BY <2>1, <2>2 DEF StoredPrefixes
<1>17. ASSUME NEW r \in Runs, NSubscribe(r)
      PROVE  StoredPrefixes'
  <2>1. \A k \in Runs : 1..acked'[k] \subseteq stored'[k] /\ 1..cursor'[k] \subseteq stored'[k]
    <3>1. Head(down) \in SafeFrames' /\ Head(down).run = r /\ Head(down).type = "subscribe"
      BY <1>17, <1>h DEF NextDown, NSubscribe
    <3>2. 1..Head(down).seq \subseteq stored'[r]
      BY <3>1 DEF SafeFrames
    <3>3. acked' = acked /\ \A j \in Runs : cursor'[j] = cursor[j] \/ (j = r /\ cursor'[j] = Head(down).seq)
      BY <1>17 DEF NSubscribe, FlatTypes, NodeTypes
    <3> QED
      BY <3>2, <3>3, <1>r
  <2>2. down' \in Seq(SafeFrames')
    BY <1>17, <1>h DEF NextDown, NSubscribe
  <2> QED
    BY <2>1, <2>2 DEF StoredPrefixes
<1>18. ASSUME NEW r \in Runs, NAck(r)
      PROVE  StoredPrefixes'
  <2>1. \A k \in Runs : 1..acked'[k] \subseteq stored'[k] /\ 1..cursor'[k] \subseteq stored'[k]
    BY <1>18, <1>r DEF NAck, NextDown
  <2>2. down' \in Seq(SafeFrames')
    BY <1>18, <1>h DEF NextDown, NAck
  <2> QED
    BY <2>1, <2>2 DEF StoredPrefixes
<1>19. ASSUME NEW r \in Runs, NEventAck(r)
      PROVE  StoredPrefixes'
  <2>1. \A k \in Runs : 1..acked'[k] \subseteq stored'[k] /\ 1..cursor'[k] \subseteq stored'[k]
    <3>1. Head(down) \in SafeFrames' /\ Head(down).run = r /\ Head(down).type = "eventack"
      BY <1>19, <1>h DEF NextDown, NEventAck
    <3>2. 1..Head(down).seq \subseteq stored'[r]
      BY <3>1 DEF SafeFrames
    <3>3. acked' = acked /\ \A j \in Runs : cursor'[j] = cursor[j] \/ (j = r /\ cursor'[j] = Head(down).seq)
      BY <1>19 DEF NEventAck, FlatTypes, NodeTypes
    <3> QED
      BY <3>2, <3>3, <1>r
  <2>2. down' \in Seq(SafeFrames')
    BY <1>19, <1>h DEF NextDown, NEventAck
  <2> QED
    BY <2>1, <2>2 DEF StoredPrefixes
<1>20. ASSUME NEW r \in Runs, CCreate(r)
      PROVE  StoredPrefixes'
  BY <1>20, <1>q, <1>r DEF StoredPrefixes, CCreate
<1>21. ASSUME NEW r \in Runs, CForceClose(r)
      PROVE  StoredPrefixes'
  BY <1>21, <1>q, <1>r DEF StoredPrefixes, CForceClose
<1>22. ASSUME NEW r \in Runs, NEvent(r)
      PROVE  StoredPrefixes'
  BY <1>22, <1>q, <1>r DEF StoredPrefixes, NEvent
<1>23. CASE NTick
  BY <1>23, <1>q, <1>r DEF StoredPrefixes, NTick
<1>24. CASE NStorage
  <2>1. \A k \in Runs : 1..acked'[k] \subseteq stored'[k] /\ 1..cursor'[k] \subseteq stored'[k]
    BY <1>24, <1>r DEF NStorage, Idle
  <2>2. down' \in Seq(SafeFrames')
    BY <1>24, <1>h, <1>q DEF NStorage
  <2> QED
    BY <2>1, <2>2 DEF StoredPrefixes
<1>25. CASE Crash
  <2>1. \A k \in Runs : 1..acked'[k] \subseteq stored'[k] /\ 1..cursor'[k] \subseteq stored'[k]
    BY <1>25, <1>r DEF Crash, Idle
  <2>2. down' \in Seq(SafeFrames')
    BY <1>25, EmptySeq DEF Crash
  <2> QED
    BY <2>1, <2>2 DEF StoredPrefixes
<1>26. CASE Connect
  BY <1>26, <1>q, <1>r DEF StoredPrefixes, Connect
<1>27. ASSUME NEW n \in 0..Len(up), Drop(n)
      PROVE  StoredPrefixes'
  <2>1. \A k \in Runs : 1..acked'[k] \subseteq stored'[k] /\ 1..cursor'[k] \subseteq stored'[k]
    BY <1>27, <1>r DEF Drop
  <2>2. down' \in Seq(SafeFrames')
    BY <1>27, EmptySeq DEF Drop
  <2> QED
    BY <2>1, <2>2 DEF StoredPrefixes
<1>28. CASE UNCHANGED vars
  BY <1>28, <1>q, <1>r DEF vars, StoredPrefixes
<1> QED
  BY <1>1, <1>2, <1>3, <1>4, <1>5, <1>6, <1>7, <1>8, <1>9, <1>10, <1>11, <1>12, <1>13,
     <1>14, <1>15, <1>16, <1>17, <1>18, <1>19, <1>20, <1>21, <1>22, <1>23, <1>24,
     <1>25, <1>26, <1>27, <1>28
  DEF Next, PlaneStep, TaskStep, FrameStep, CFrame

\* The Node stops resending an event only when the Control Plane has it and
\* everything before it.
THEOREM NothingSkipped == Spec => []CursorBehindStore
<1>1. Init => StoredPrefixes
  BY EmptySeq DEF Init, StoredPrefixes, NotSubscribed
<1>2. TypeInv /\ StoredPrefixes /\ [Next]_vars => StoredPrefixes'
  BY StoredStep
<1>3. StoredPrefixes => CursorBehindStore
  BY DEF StoredPrefixes, CursorBehindStore
<1> QED
  BY <1>1, <1>2, <1>3, TypeInvariant, PTL DEF Spec

-----------------------------------------------------------------------------
(* Which runs the frames of a sequence and the answers are about.          *)

RunsOf(s, type) == {r \in Runs : \E i \in 1..Len(s) : s[i].type = type /\ s[i].run = r}
Answering(s) == {r \in Runs : \E i \in 1..Len(s) : s[i].run = r}
Held == Answering(outbox)

\* One more frame.
LEMMA RunsAppend ==
  ASSUME NEW S, NEW s \in Seq(S), NEW f \in S
  PROVE  \A t : RunsOf(Append(s, f), t) = RunsOf(s, t) \union {r \in Runs : f.type = t /\ f.run = r}
<1>1. /\ Len(Append(s, f)) = Len(s) + 1 /\ Len(s) \in Nat
      /\ \A i \in 1..Len(s) : Append(s, f)[i] = s[i]
      /\ Append(s, f)[Len(s) + 1] = f
  BY AppendProperties, LenProperties
<1>2. ASSUME NEW t, NEW r \in Runs, r \in RunsOf(Append(s, f), t)
      PROVE  r \in RunsOf(s, t) \/ (f.type = t /\ f.run = r)
  BY <1>1, <1>2 DEF RunsOf
<1>3. ASSUME NEW t, NEW r \in RunsOf(s, t)
      PROVE  r \in RunsOf(Append(s, f), t)
  BY <1>1 DEF RunsOf
<1>4. ASSUME NEW t, NEW r \in Runs, f.type = t /\ f.run = r
      PROVE  r \in RunsOf(Append(s, f), t)
  <2>1. Len(s) + 1 \in 1..Len(Append(s, f))
    BY <1>1
  <2> QED
    BY <1>1, <1>4, <2>1 DEF RunsOf
<1> QED
  BY <1>2, <1>3, <1>4 DEF RunsOf

\* The frames of both parts.
LEMMA RunsConcat ==
  ASSUME NEW S, NEW s \in Seq(S), NEW u \in Seq(S)
  PROVE  \A t : RunsOf(s \o u, t) = RunsOf(s, t) \union RunsOf(u, t)
<1>1. /\ Len(s \o u) = Len(s) + Len(u) /\ Len(s) \in Nat /\ Len(u) \in Nat
      /\ \A i \in 1..Len(s \o u) : (s \o u)[i] = IF i <= Len(s) THEN s[i] ELSE u[i - Len(s)]
  BY ConcatProperties, LenProperties
<1>2. ASSUME NEW t, NEW r \in RunsOf(s \o u, t)
      PROVE  r \in RunsOf(s, t) \union RunsOf(u, t)
  <2>1. PICK i \in 1..Len(s \o u) : (s \o u)[i].type = t /\ (s \o u)[i].run = r
    BY DEF RunsOf
  <2>2. CASE i <= Len(s)
    BY <1>1, <2>1, <2>2 DEF RunsOf
  <2>3. CASE ~(i <= Len(s))
    <3>1. i - Len(s) \in 1..Len(u)
      BY <1>1, <2>3
    <3>2. u[i - Len(s)].type = t /\ u[i - Len(s)].run = r
      BY <1>1, <2>1, <2>3
    <3> QED
      BY <3>1, <3>2 DEF RunsOf
  <2> QED
    BY <2>2, <2>3
<1>3. ASSUME NEW t, NEW r \in RunsOf(s, t)
      PROVE  r \in RunsOf(s \o u, t)
  <2>1. PICK i \in 1..Len(s) : s[i].type = t /\ s[i].run = r
    BY DEF RunsOf
  <2>2. i \in 1..Len(s \o u) /\ (s \o u)[i] = s[i]
    BY <1>1
  <2> QED
    BY <2>1, <2>2 DEF RunsOf
<1>4. ASSUME NEW t, NEW r \in RunsOf(u, t)
      PROVE  r \in RunsOf(s \o u, t)
  <2>1. PICK i \in 1..Len(u) : u[i].type = t /\ u[i].run = r
    BY DEF RunsOf
  <2>2. i + Len(s) \in 1..Len(s \o u)
    BY <1>1
  <2>3. (s \o u)[i + Len(s)] = u[i]
    <3>1. ~(i + Len(s) <= Len(s)) /\ (i + Len(s)) - Len(s) = i
      BY <1>1
    <3> QED
      BY <1>1, <2>2, <3>1
  <2> QED
    BY <2>1, <2>2, <2>3 DEF RunsOf
<1>5. \A t : RunsOf(s \o u, t) \subseteq Runs /\ RunsOf(s, t) \subseteq Runs /\ RunsOf(u, t) \subseteq Runs
  BY DEF RunsOf
<1> QED
  BY <1>2, <1>3, <1>4

\* The first frame is taken off.
LEMMA RunsTail ==
  ASSUME NEW S, NEW s \in Seq(S), s # << >>
  PROVE  \A t : /\ RunsOf(Tail(s), t) \subseteq RunsOf(s, t)
                /\ RunsOf(s, t) \subseteq RunsOf(Tail(s), t) \union {r \in Runs : Head(s).type = t /\ Head(s).run = r}
                /\ Head(s).run \in Runs /\ Head(s).type = t => Head(s).run \in RunsOf(s, t)
<1>1. /\ Len(s) \in Nat /\ Len(s) # 0 /\ Len(Tail(s)) = Len(s) - 1
      /\ \A i \in 1..Len(Tail(s)) : Tail(s)[i] = s[i + 1]
      /\ Head(s) = s[1]
  BY HeadTailProperties, LenProperties, EmptySeq
<1>2. ASSUME NEW t, NEW r \in RunsOf(Tail(s), t)
      PROVE  r \in RunsOf(s, t)
  <2>1. PICK i \in 1..Len(Tail(s)) : Tail(s)[i].type = t /\ Tail(s)[i].run = r
    BY DEF RunsOf
  <2>2. i + 1 \in 1..Len(s) /\ Tail(s)[i] = s[i + 1]
    BY <1>1
  <2> QED
    BY <2>1, <2>2 DEF RunsOf
<1>3. ASSUME NEW t, NEW r \in RunsOf(s, t), r \notin RunsOf(Tail(s), t)
      PROVE  Head(s).type = t /\ Head(s).run = r
  <2>1. PICK i \in 1..Len(s) : s[i].type = t /\ s[i].run = r
    BY DEF RunsOf
  <2>2. CASE i = 1
    BY <1>1, <2>1, <2>2
  <2>3. CASE i # 1
    <3>1. i - 1 \in 1..Len(Tail(s)) /\ (i - 1) + 1 = i
      BY <1>1, <2>3
    <3>2. Tail(s)[i - 1] = s[i]
      BY <1>1, <3>1
    <3> QED
      BY <1>3, <2>1, <3>1, <3>2 DEF RunsOf
  <2> QED
    BY <2>2, <2>3
<1>4. ASSUME NEW t, Head(s).run \in Runs, Head(s).type = t
      PROVE  Head(s).run \in RunsOf(s, t)
  <2>1. 1 \in 1..Len(s)
    BY <1>1
  <2> QED
    BY <1>1, <1>4, <2>1 DEF RunsOf
<1>5. \A t : RunsOf(s, t) \subseteq Runs
  BY DEF RunsOf
<1> QED
  BY <1>2, <1>3, <1>4, <1>5

\* No frame is about no run.
LEMMA RunsEmpty == \A t : RunsOf(<< >>, t) = {}
  BY EmptySeq DEF RunsOf

\* A flush sends a result for every answer held, and nothing else.
LEMMA RunsResults ==
  ASSUME NEW s \in Seq(Answers)
  PROVE  /\ RunsOf(Results(s), "result") = Answering(s)
         /\ \A t : t # "result" => RunsOf(Results(s), t) = {}
<1>1. Len(s) \in Nat
  BY LenProperties
<1>2. Len(Results(s)) = Len(s) /\ DOMAIN Results(s) = 1..Len(s)
  BY <1>1 DEF Results
<1>3. \A i \in 1..Len(s) : Results(s)[i] = Frame("result", s[i].run, s[i].state, 0)
  BY <1>1 DEF Results
<1>f. \A k, st : Frame("result", k, st, 0).type = "result" /\ Frame("result", k, st, 0).run = k
  BY DEF Frame
<1>4. \A i \in 1..Len(s) : Results(s)[i].type = "result" /\ Results(s)[i].run = s[i].run
  BY <1>3, <1>f
<1> HIDE DEF Results
<1> QED
  BY <1>2, <1>4 DEF RunsOf, Answering

\* The events after a cursor are about one run, if there are any.
LEMMA RunsNews ==
  ASSUME NEW r \in Runs, NEW from \in Int, NEW to \in Int
  PROVE  \A t : RunsOf([i \in 1..(to - from) |-> Frame("event", r, "-", from + i)], t)
                  \subseteq {k \in Runs : t = "event" /\ k = r /\ from < to}
<1> DEFINE news == [i \in 1..(to - from) |-> Frame("event", r, "-", from + i)]
<1>1. CASE from < to
  <2>1. Len(news) = to - from
    BY <1>1
  <2>2. \A i \in 1..(to - from) : news[i] = Frame("event", r, "-", from + i)
    OBVIOUS
  <2>3. \A i \in 1..(to - from) : news[i].type = "event" /\ news[i].run = r
    BY <2>2 DEF Frame
  <2> HIDE DEF news
  <2>4. \A t : RunsOf(news, t) \subseteq {k \in Runs : t = "event" /\ k = r /\ from < to}
    BY <1>1, <2>1, <2>3 DEF RunsOf
  <2> QED
    BY <2>4 DEF news
<1>2. CASE ~(from < to)
  <2>1. 1..(to - from) = {}
    BY <1>2
  <2>2. news = << >>
    BY <2>1
  <2>3. \A t : RunsOf(news, t) = {}
    BY <2>2, RunsEmpty
  <2> QED
    BY <2>3
<1> QED
  BY <1>1, <1>2

\* One more answer.
LEMMA HeldAppend ==
  ASSUME NEW s \in Seq(Answers), NEW e \in Answers
  PROVE  Answering(Append(s, e)) = Answering(s) \union {e.run}
<1>1. /\ Len(Append(s, e)) = Len(s) + 1 /\ Len(s) \in Nat
      /\ \A i \in 1..Len(s) : Append(s, e)[i] = s[i]
      /\ Append(s, e)[Len(s) + 1] = e
  BY AppendProperties, LenProperties
<1>2. e.run \in Runs
  BY DEF Answers
<1>3. ASSUME NEW r \in Answering(Append(s, e))
      PROVE  r \in Answering(s) \union {e.run}
  BY <1>1 DEF Answering
<1>4. ASSUME NEW r \in Answering(s)
      PROVE  r \in Answering(Append(s, e))
  BY <1>1 DEF Answering
<1>5. e.run \in Answering(Append(s, e))
  <2>1. Len(s) + 1 \in 1..Len(Append(s, e))
    BY <1>1
  <2> QED
    BY <1>1, <1>2, <2>1 DEF Answering
<1> QED
  BY <1>3, <1>4, <1>5

\* An acknowledgement removes the answers about its run and no other: as many
\* places as there are other answers, in their order, are all of them.
LEMMA HeldAck ==
  ASSUME SeqTypes, NEW r \in Runs, NAck(r)
  PROVE  Held' = Held \ {r}
<1> DEFINE others == {i \in 1..Len(outbox) : outbox[i].run # r}
<1> DEFINE n == Cardinality(others)
<1>1. Len(outbox) \in Nat
  BY LenProperties DEF SeqTypes
<1>2. IsFiniteSet(others)
  <2>1. IsFiniteSet(1..Len(outbox))
    BY <1>1, FS_Interval
  <2> QED
    BY <2>1, FS_Subset
<1>3. n \in Nat
  BY <1>2, FS_CardinalityType
<1>4. PICK at \in [1..n -> others] :
        /\ \A i, j \in 1..n : i < j => at[i] < at[j]
        /\ outbox' = [i \in 1..n |-> outbox[at[i]]]
  BY DEF NAck
<1> HIDE DEF n
<1>5. at \in Injection(1..n, others)
  <2>1. \A i, j \in 1..n : at[i] = at[j] => i = j
    <3> SUFFICES ASSUME NEW i \in 1..n, NEW j \in 1..n, at[i] = at[j]
                 PROVE  i = j
      OBVIOUS
    <3>1. at[i] \in Int /\ at[j] \in Int
      BY <1>1
    <3> QED
      BY <1>3, <1>4, <3>1
  <2> QED
    BY <2>1 DEF Injection, IsInjective
<1>6. IsFiniteSet(1..n) /\ Cardinality(1..n) = n
  BY <1>3, FS_Interval
<1>7. at \in Surjection(1..n, others)
  BY <1>2, <1>5, <1>6, FS_Injection DEF n
<1>8. \A k \in others : \E i \in 1..n : at[i] = k
  BY <1>7 DEF Surjection
<1>9. Len(outbox') = n /\ \A i \in 1..n : outbox'[i] = outbox[at[i]]
  BY <1>3, <1>4
<1>10. ASSUME NEW k \in Held'
       PROVE  k \in Held \ {r}
  <2>1. PICK i \in 1..n : outbox'[i].run = k
    BY <1>9 DEF Held, Answering
  <2>2. at[i] \in others
    BY <1>4
  <2>3. outbox[at[i]].run = k
    BY <1>9, <2>1
  <2>4. k \in Runs
    BY DEF Held, Answering
  <2> QED
    BY <2>2, <2>3, <2>4 DEF Held, Answering
<1>11. ASSUME NEW k \in Held \ {r}
       PROVE  k \in Held'
  <2>1. PICK j \in 1..Len(outbox) : outbox[j].run = k
    BY DEF Held, Answering
  <2>2. PICK i \in 1..n : at[i] = j
    BY <1>8, <1>11, <2>1
  <2>3. outbox'[i].run = k
    BY <1>9, <2>1, <2>2
  <2>4. k \in Runs
    BY DEF Held, Answering
  <2> QED
    BY <1>9, <2>3, <2>4 DEF Held, Answering
<1> QED
  BY <1>10, <1>11

-----------------------------------------------------------------------------
(* What a step may add to the frames and the answers.                      *)

\* The session loop handles the command of run r.
Tasked(r) == taskRun = r /\ task \in {"accept", "execute", "complete", "enqueue"}

\* A command is sent when it is queued, an acknowledgement when the command is
\* settled, a subscription when the run has a Node run.
NewDown ==
  /\ \A k \in RunsOf(down', "command") \ RunsOf(down, "command") : cmd[k] = "queued"
  /\ \A k \in RunsOf(down', "ack") \ RunsOf(down, "ack") : cmd'[k] \in Settled
  /\ \A k \in RunsOf(down', "subscribe") \ RunsOf(down, "subscribe") : attached[k]

\* A result is sent when it is held, an event by the pump to a subscriber.
NewUp ==
  /\ \A k \in RunsOf(up', "result") \ RunsOf(up, "result") : k \in Held'
  /\ \A k \in RunsOf(up', "event") \ RunsOf(up, "event") :
       conn /\ task = "pump" /\ cursor[k] # NotSubscribed

\* An answer is held when its command was handled or repeated, and until it is
\* acknowledged; a command is handled when it arrives.
NewHeld ==
  /\ \A k \in Held' \ Held : Tasked(k) \/ k \in RunsOf(down, "command")
  /\ \A k \in Held \ Held' : k \in RunsOf(down, "ack")
  /\ \A k \in Runs : Tasked(k)' /\ ~Tasked(k) => k \in RunsOf(down, "command")

\* What is sent to the Node, and when.
LEMMA DownStep ==
  TypeInv /\ [Next]_vars => NewDown
<1> SUFFICES ASSUME TypeInv, [Next]_vars
             PROVE  NewDown
  OBVIOUS
<1> USE BoundsAssumption
<1> USE DEF TypeInv, FlatTypes, PlaneTypes, NodeTypes, TaskTypes, TaskInv, SeqTypes
<1>m. \A m \in {Head(q) : q \in {up, late} \ {<< >>}} : m.run \in Runs
  BY HeadTailProperties, UpFields
<1>a. \A f \in DownFrames : \A t :
        RunsOf(Append(down, f), t) = RunsOf(down, t) \union {k \in Runs : f.type = t /\ f.run = k}
  BY RunsAppend
<1>t. down # << >> => \A t : RunsOf(Tail(down), t) \subseteq RunsOf(down, t)
  BY RunsTail
<1>e. \A t : RunsOf(<< >>, t) = {}
  BY RunsEmpty
<1> USE DEF planeVars, sessionVars, netVars, nodeVars, taskVars, counters, NewDown
<1>1. ASSUME NEW r \in Runs, CDispatch(r)
      PROVE  NewDown
  <2>1. Frame("command", r, "-", 0).type = "command" /\ Frame("command", r, "-", 0).run = r
    BY DEF Frame
  <2>2. Frame("command", r, "-", 0) \in DownFrames
    BY DownFrame
  <2>3. \A t : RunsOf(Append(down, Frame("command", r, "-", 0)), t)
               = RunsOf(down, t) \union {k \in Runs : "command" = t /\ r = k}
    BY <1>a, <2>1, <2>2
  <2> QED
    BY <1>1, <2>3 DEF CDispatch
<1>2. ASSUME NEW r \in Runs, CSubscribe(r)
      PROVE  NewDown
  <2>1. Frame("subscribe", r, "-", acked[r]).type = "subscribe" /\ Frame("subscribe", r, "-", acked[r]).run = r
    BY DEF Frame
  <2>2. Frame("subscribe", r, "-", acked[r]) \in DownFrames
    BY DownFrame
  <2>3. \A t : RunsOf(Append(down, Frame("subscribe", r, "-", acked[r])), t)
               = RunsOf(down, t) \union {k \in Runs : "subscribe" = t /\ r = k}
    BY <1>a, <2>1, <2>2
  <2> QED
    BY <1>2, <2>3 DEF CSubscribe
<1>3. ASSUME NEW r \in Runs, CSweep(r)
      PROVE  NewDown
  BY <1>3 DEF CSweep
<1>4. ASSUME NEW r \in Runs, CExpire(r)
      PROVE  NewDown
  BY <1>4 DEF CExpire
<1>5. ASSUME NEW m \in {Head(q) : q \in {up, late} \ {<< >>}}, NEW live \in BOOLEAN, CAccepted(live, m)
      PROVE  NewDown
  BY <1>5 DEF CAccepted, Incoming
<1>6. ASSUME NEW m \in {Head(q) : q \in {up, late} \ {<< >>}}, NEW live \in BOOLEAN, CResult(live, m)
      PROVE  NewDown
  <2>1. Frame("ack", m.run, "-", 0).type = "ack" /\ Frame("ack", m.run, "-", 0).run = m.run
    BY DEF Frame
  <2>r. m.run \in Runs /\ 0 \in 0..NumEvents
    BY <1>m
  <2>2. Frame("ack", m.run, "-", 0) \in DownFrames
    BY <2>r, DownFrame
  <2>3. \A t : RunsOf(Append(down, Frame("ack", m.run, "-", 0)), t)
               = RunsOf(down, t) \union {k \in Runs : "ack" = t /\ m.run = k}
    BY <1>a, <2>1, <2>2
  <2>4. cmd'[m.run] \in Settled
    BY <1>m, <1>6 DEF CResult, Complete, Outcome, Settled
  <2> QED
    BY <1>6, <2>3, <2>4 DEF CResult, Reply
<1>7. ASSUME NEW m \in {Head(q) : q \in {up, late} \ {<< >>}}, NEW live \in BOOLEAN, CEvent(live, m)
      PROVE  NewDown
  <2>1. PICK n \in 0..NumEvents : Reply(live, Frame("eventack", m.run, "-", n))
    BY <1>7 DEF CEvent
  <2>2. Frame("eventack", m.run, "-", n).type = "eventack" /\ Frame("eventack", m.run, "-", n).run = m.run
    BY DEF Frame
  <2>3. Frame("eventack", m.run, "-", n) \in DownFrames
    BY <1>m, DownFrame
  <2>4. \A t : RunsOf(Append(down, Frame("eventack", m.run, "-", n)), t)
               = RunsOf(down, t) \union {k \in Runs : "eventack" = t /\ m.run = k}
    BY <1>a, <2>2, <2>3
  <2> QED
    BY <2>1, <2>4 DEF Reply
<1>8. CASE NAccept
  BY <1>8 DEF NAccept, Idle
<1>9. CASE NExecute
  BY <1>9 DEF NExecute
<1>10. CASE NComplete
  BY <1>10 DEF NComplete
<1>11. CASE NEnqueue
  BY <1>11 DEF NEnqueue, Flush, Idle
<1>12. CASE NPump
  BY <1>12 DEF NPump, Idle
<1>13. CASE NFlush
  BY <1>13 DEF NFlush, Flush, Idle
<1>14. ASSUME NEW r \in Runs, NRefuse(r)
      PROVE  NewDown
  BY <1>14, <1>t DEF NRefuse, NextDown
<1>15. ASSUME NEW r \in Runs, NAdmit(r)
      PROVE  NewDown
  BY <1>15, <1>t DEF NAdmit, NextDown
<1>16. ASSUME NEW r \in Runs, NDuplicate(r)
      PROVE  NewDown
  BY <1>16, <1>t DEF NDuplicate, NextDown, Flush
<1>17. ASSUME NEW r \in Runs, NSubscribe(r)
      PROVE  NewDown
  BY <1>17, <1>t DEF NSubscribe, NextDown, Flush
<1>18. ASSUME NEW r \in Runs, NAck(r)
      PROVE  NewDown
  BY <1>18, <1>t DEF NAck, NextDown
<1>19. ASSUME NEW r \in Runs, NEventAck(r)
      PROVE  NewDown
  BY <1>19, <1>t DEF NEventAck, NextDown
<1>20. ASSUME NEW r \in Runs, CCreate(r)
      PROVE  NewDown
  BY <1>20 DEF CCreate
<1>21. ASSUME NEW r \in Runs, CForceClose(r)
      PROVE  NewDown
  BY <1>21 DEF CForceClose
<1>22. ASSUME NEW r \in Runs, NEvent(r)
      PROVE  NewDown
  BY <1>22 DEF NEvent
<1>23. CASE NTick
  BY <1>23 DEF NTick
<1>24. CASE NStorage
  BY <1>24, <1>t DEF NStorage, Idle
<1>25. CASE Crash
  BY <1>25, <1>e DEF Crash, Idle
<1>26. CASE Connect
  BY <1>26 DEF Connect
<1>27. ASSUME NEW n \in 0..Len(up), Drop(n)
      PROVE  NewDown
  BY <1>27, <1>e DEF Drop
<1>28. CASE UNCHANGED vars
  BY <1>28 DEF vars
<1> QED
  BY <1>1, <1>2, <1>3, <1>4, <1>5, <1>6, <1>7, <1>8, <1>9, <1>10, <1>11, <1>12, <1>13,
     <1>14, <1>15, <1>16, <1>17, <1>18, <1>19, <1>20, <1>21, <1>22, <1>23, <1>24,
     <1>25, <1>26, <1>27, <1>28
  DEF Next, PlaneStep, TaskStep, FrameStep, CFrame

\* What is sent to the Control Plane, and when.
LEMMA UpStep ==
  TypeInv /\ [Next]_vars => NewUp
<1> SUFFICES ASSUME TypeInv, [Next]_vars
             PROVE  NewUp
  OBVIOUS
<1> USE BoundsAssumption
<1> USE DEF TypeInv, FlatTypes, PlaneTypes, NodeTypes, TaskTypes, TaskInv, SeqTypes
<1>u. \A s \in Seq(UpFrames) : \A t : RunsOf(up \o s, t) = RunsOf(up, t) \union RunsOf(s, t)
  BY RunsConcat
<1>t. up # << >> => \A t : RunsOf(Tail(up), t) \subseteq RunsOf(up, t)
  BY RunsTail
<1>e. \A t : RunsOf(<< >>, t) = {}
  BY RunsEmpty
<1>f. \A s \in Seq(Answers) : Results(s) \in Seq(UpFrames)
  BY ElementOfSeq, UpFrame, ResultsSeq
<1>s. \A s \in Seq(Answers) : RunsOf(Results(s), "result") = Answering(s) /\ RunsOf(Results(s), "event") = {}
  BY RunsResults
<1> USE DEF planeVars, sessionVars, netVars, nodeVars, taskVars, counters, NewUp
<1>1. ASSUME NEW r \in Runs, CDispatch(r)
      PROVE  NewUp
  BY <1>1 DEF CDispatch
<1>2. ASSUME NEW r \in Runs, CSubscribe(r)
      PROVE  NewUp
  BY <1>2 DEF CSubscribe
<1>3. ASSUME NEW r \in Runs, CSweep(r)
      PROVE  NewUp
  BY <1>3 DEF CSweep
<1>4. ASSUME NEW r \in Runs, CExpire(r)
      PROVE  NewUp
  BY <1>4 DEF CExpire
<1>5. ASSUME NEW m \in {Head(q) : q \in {up, late} \ {<< >>}}, NEW live \in BOOLEAN, CAccepted(live, m)
      PROVE  NewUp
  <2>1. up' = up \/ (up # << >> /\ up' = Tail(up))
    BY <1>5 DEF Incoming, CAccepted
  <2> QED
    BY <2>1, <1>t
<1>6. ASSUME NEW m \in {Head(q) : q \in {up, late} \ {<< >>}}, NEW live \in BOOLEAN, CResult(live, m)
      PROVE  NewUp
  <2>1. up' = up \/ (up # << >> /\ up' = Tail(up))
    BY <1>6 DEF Incoming, CResult
  <2> QED
    BY <2>1, <1>t
<1>7. ASSUME NEW m \in {Head(q) : q \in {up, late} \ {<< >>}}, NEW live \in BOOLEAN, CEvent(live, m)
      PROVE  NewUp
  <2>1. up' = up \/ (up # << >> /\ up' = Tail(up))
    BY <1>7 DEF Incoming, CEvent
  <2> QED
    BY <2>1, <1>t
<1>8. CASE NAccept
  <2>1. Frame("accepted", taskRun, "-", 0).type = "accepted" /\ Frame("accepted", taskRun, "-", 0).run = taskRun
    BY DEF Frame
  <2>2. Frame("accepted", taskRun, "-", 0) \in UpFrames
    BY <1>8, UpFrame DEF NAccept
  <2>3. \A t : RunsOf(Append(up, Frame("accepted", taskRun, "-", 0)), t)
               = RunsOf(up, t) \union {k \in Runs : "accepted" = t /\ taskRun = k}
    BY <2>1, <2>2, RunsAppend
  <2>4. up' = Append(up, Frame("accepted", taskRun, "-", 0)) \/ up' = up
    BY <1>8 DEF NAccept
  <2> QED
    BY <2>3, <2>4
<1>9. CASE NExecute
  BY <1>9 DEF NExecute
<1>10. CASE NComplete
  BY <1>10 DEF NComplete
<1>11. CASE NEnqueue
  <2> DEFINE entries == Append(outbox, [run |-> taskRun, state |-> answer])
  <2>e. [run |-> taskRun, state |-> answer] \in Answers
    BY <1>11 DEF Answers, NEnqueue
  <2>o. entries \in Seq(Answers)
    BY <2>e, AppendProperties
  <2>1. up' = up \/ up' = up \o Results(entries)
    BY <1>11 DEF Flush, NEnqueue
  <2>2. entries \in Seq(Answers) /\ Held' = Answering(entries)
    BY <1>11, <2>o DEF Held, NEnqueue
  <2>3. \A t : RunsOf(up \o Results(entries), t) = RunsOf(up, t) \union RunsOf(Results(entries), t)
    BY <1>u, <1>f, <2>2
  <2>4. RunsOf(Results(entries), "result") = Held' /\ RunsOf(Results(entries), "event") = {}
    BY <1>s, <2>2
  <2> QED
    BY <2>1, <2>3, <2>4
<1>12. CASE NPump
  <2> DEFINE from == IF cursor[taskRun] = NotSubscribed THEN journal[taskRun] ELSE cursor[taskRun]
  <2> DEFINE news == [i \in 1..(journal[taskRun] - from) |-> Frame("event", taskRun, "-", from + i)]
  <2>1. taskRun \in Runs /\ task = "pump"
    BY <1>12 DEF NPump
  <2>2. from \in 0..NumEvents /\ journal[taskRun] \in 0..NumEvents
    BY <2>1 DEF NotSubscribed
  <2>i. from \in Int /\ journal[taskRun] \in Int
    BY <2>2
  <2>3. \A n \in (from + 1)..journal[taskRun] : n \in Seqs
    BY <2>2 DEF Seqs
  <2>4. \A n \in (from + 1)..journal[taskRun] : Frame("event", taskRun, "-", n) \in UpFrames
    BY <2>1, <2>3, UpFrame
  <2>5. up' = up \/ (conn /\ up' = up \o news)
    BY <1>12 DEF NPump
  <2>6. from < journal[taskRun] => cursor[taskRun] # NotSubscribed
    BY <2>2
  <2> HIDE DEF from
  <2>7. news \in Seq(UpFrames)
    BY ONLY <2>i, <2>4, NewsSeq DEF news
  <2>8. \A t : RunsOf(news, t) \subseteq {k \in Runs : t = "event" /\ k = taskRun /\ from < journal[taskRun]}
    BY <2>1, <2>i, RunsNews
  <2> HIDE DEF news
  <2>9. \A t : RunsOf(up \o news, t) = RunsOf(up, t) \union RunsOf(news, t)
    BY <1>u, <2>7
  <2> QED
    BY <2>1, <2>5, <2>6, <2>8, <2>9
<1>13. CASE NFlush
  <2>1. up' = up \/ up' = up \o Results(outbox)
    BY <1>13 DEF Flush, NFlush
  <2>2. outbox \in Seq(Answers) /\ Held' = Answering(outbox)
    BY <1>13 DEF Held, NFlush
  <2>3. \A t : RunsOf(up \o Results(outbox), t) = RunsOf(up, t) \union RunsOf(Results(outbox), t)
    BY <1>u, <1>f, <2>2
  <2>4. RunsOf(Results(outbox), "result") = Held' /\ RunsOf(Results(outbox), "event") = {}
    BY <1>s, <2>2
  <2> QED
    BY <2>1, <2>3, <2>4
<1>14. ASSUME NEW r \in Runs, NRefuse(r)
      PROVE  NewUp
  BY <1>14 DEF NRefuse, NextDown
<1>15. ASSUME NEW r \in Runs, NAdmit(r)
      PROVE  NewUp
  BY <1>15 DEF NAdmit, NextDown
<1>16. ASSUME NEW r \in Runs, NDuplicate(r)
      PROVE  NewUp
  <2> DEFINE entries == Append(outbox, [run |-> r, state |-> inbox[r]])
  <2>e. [run |-> r, state |-> inbox[r]] \in Answers
    BY <1>16 DEF Answers, NDuplicate
  <2>o. entries \in Seq(Answers)
    BY <2>e, AppendProperties
  <2>1. up' = up \/ up' = up \o Results(entries)
    BY <1>16 DEF Flush, NDuplicate
  <2>2. entries \in Seq(Answers) /\ Held' = Answering(entries)
    BY <1>16, <2>o DEF Held, NDuplicate
  <2>3. \A t : RunsOf(up \o Results(entries), t) = RunsOf(up, t) \union RunsOf(Results(entries), t)
    BY <1>u, <1>f, <2>2
  <2>4. RunsOf(Results(entries), "result") = Held' /\ RunsOf(Results(entries), "event") = {}
    BY <1>s, <2>2
  <2> QED
    BY <2>1, <2>3, <2>4
<1>17. ASSUME NEW r \in Runs, NSubscribe(r)
      PROVE  NewUp
  <2>1. up' = up \/ up' = up \o Results(outbox)
    BY <1>17 DEF Flush, NSubscribe
  <2>2. outbox \in Seq(Answers) /\ Held' = Answering(outbox)
    BY <1>17 DEF Held, NSubscribe
  <2>3. \A t : RunsOf(up \o Results(outbox), t) = RunsOf(up, t) \union RunsOf(Results(outbox), t)
    BY <1>u, <1>f, <2>2
  <2>4. RunsOf(Results(outbox), "result") = Held' /\ RunsOf(Results(outbox), "event") = {}
    BY <1>s, <2>2
  <2> QED
    BY <2>1, <2>3, <2>4
<1>18. ASSUME NEW r \in Runs, NAck(r)
      PROVE  NewUp
  BY <1>18 DEF NAck, NextDown
<1>19. ASSUME NEW r \in Runs, NEventAck(r)
      PROVE  NewUp
  BY <1>19 DEF NEventAck, NextDown
<1>20. ASSUME NEW r \in Runs, CCreate(r)
      PROVE  NewUp
  BY <1>20 DEF CCreate
<1>21. ASSUME NEW r \in Runs, CForceClose(r)
      PROVE  NewUp
  BY <1>21 DEF CForceClose
<1>22. ASSUME NEW r \in Runs, NEvent(r)
      PROVE  NewUp
  BY <1>22 DEF NEvent
<1>23. CASE NTick
  BY <1>23 DEF NTick
<1>24. CASE NStorage
  BY <1>24 DEF NStorage, Idle
<1>25. CASE Crash
  BY <1>25, <1>e DEF Crash, Idle
<1>26. CASE Connect
  BY <1>26, <1>s DEF Connect, Held
<1>27. ASSUME NEW n \in 0..Len(up), Drop(n)
      PROVE  NewUp
  BY <1>27, <1>e DEF Drop
<1>28. CASE UNCHANGED vars
  BY <1>28 DEF vars
<1> QED
  BY <1>1, <1>2, <1>3, <1>4, <1>5, <1>6, <1>7, <1>8, <1>9, <1>10, <1>11, <1>12, <1>13,
     <1>14, <1>15, <1>16, <1>17, <1>18, <1>19, <1>20, <1>21, <1>22, <1>23, <1>24,
     <1>25, <1>26, <1>27, <1>28
  DEF Next, PlaneStep, TaskStep, FrameStep, CFrame

\* What is held and handled, and when.
LEMMA HeldStep ==
  TypeInv /\ [Next]_vars => NewHeld
<1> SUFFICES ASSUME TypeInv, [Next]_vars
             PROVE  NewHeld
  OBVIOUS
<1> USE DEF TypeInv, FlatTypes, PlaneTypes, NodeTypes, TaskTypes, TaskInv, SeqTypes
<1>h. down # << >> => \A k \in Runs : \A t : Head(down).type = t /\ Head(down).run = k => k \in RunsOf(down, t)
  BY RunsTail
<1> USE DEF planeVars, sessionVars, netVars, nodeVars, taskVars, counters, NewHeld,
            Tasked
<1>1. ASSUME NEW r \in Runs, CDispatch(r)
      PROVE  NewHeld
  BY <1>1 DEF Held, CDispatch
<1>2. ASSUME NEW r \in Runs, CSubscribe(r)
      PROVE  NewHeld
  BY <1>2 DEF Held, CSubscribe
<1>3. ASSUME NEW r \in Runs, CSweep(r)
      PROVE  NewHeld
  BY <1>3 DEF Held, CSweep
<1>4. ASSUME NEW r \in Runs, CExpire(r)
      PROVE  NewHeld
  BY <1>4 DEF Held, CExpire
<1>5. ASSUME NEW m \in {Head(q) : q \in {up, late} \ {<< >>}}, NEW live \in BOOLEAN, CAccepted(live, m)
      PROVE  NewHeld
  BY <1>5 DEF Held, CAccepted, Incoming
<1>6. ASSUME NEW m \in {Head(q) : q \in {up, late} \ {<< >>}}, NEW live \in BOOLEAN, CResult(live, m)
      PROVE  NewHeld
  BY <1>6 DEF Held, CResult, Incoming, Reply, Complete, Outcome
<1>7. ASSUME NEW m \in {Head(q) : q \in {up, late} \ {<< >>}}, NEW live \in BOOLEAN, CEvent(live, m)
      PROVE  NewHeld
  BY <1>7 DEF Held, CEvent, Incoming, Reply, HighestContiguous
<1>8. CASE NAccept
  BY <1>8 DEF Held, NAccept, Idle
<1>9. CASE NExecute
  BY <1>9 DEF Held, NExecute
<1>10. CASE NComplete
  BY <1>10 DEF Held, NComplete
<1>11. CASE NEnqueue
  <2>1. [run |-> taskRun, state |-> answer] \in Answers
    BY <1>11 DEF Answers, NEnqueue
  <2>2. Held' = Held \union {taskRun}
    BY <1>11, <2>1, HeldAppend DEF NEnqueue, Held
  <2> QED
    BY <1>11, <2>2 DEF NEnqueue, Idle
<1>12. CASE NPump
  BY <1>12 DEF Held, NPump, Idle
<1>13. CASE NFlush
  BY <1>13 DEF Held, NFlush, Flush, Idle
<1>14. ASSUME NEW r \in Runs, NRefuse(r)
      PROVE  NewHeld
  BY <1>14 DEF Held, NRefuse, NextDown
<1>15. ASSUME NEW r \in Runs, NAdmit(r)
      PROVE  NewHeld
  <2>1. r \in RunsOf(down, "command")
    BY <1>15, <1>h DEF NAdmit, NextDown
  <2> QED
    BY <1>15, <2>1 DEF Held, NAdmit, NextDown
<1>16. ASSUME NEW r \in Runs, NDuplicate(r)
      PROVE  NewHeld
  <2>1. [run |-> r, state |-> inbox[r]] \in Answers
    BY <1>16 DEF Answers, NDuplicate
  <2>2. Held' = Held \union {r}
    BY <1>16, <2>1, HeldAppend DEF NDuplicate, Held
  <2>3. r \in RunsOf(down, "command")
    BY <1>16, <1>h DEF NDuplicate, NextDown
  <2> QED
    BY <1>16, <2>2, <2>3 DEF NDuplicate
<1>17. ASSUME NEW r \in Runs, NSubscribe(r)
      PROVE  NewHeld
  BY <1>17 DEF Held, NSubscribe, NextDown, Flush
<1>18. ASSUME NEW r \in Runs, NAck(r)
      PROVE  NewHeld
  <2>1. r \in RunsOf(down, "ack")
    BY <1>18, <1>h DEF NAck, NextDown
  <2>2. Held' = Held \ {r}
    BY <1>18, HeldAck
  <2> QED
    BY <1>18, <2>1, <2>2 DEF NAck
<1>19. ASSUME NEW r \in Runs, NEventAck(r)
      PROVE  NewHeld
  BY <1>19 DEF Held, NEventAck, NextDown
<1>20. ASSUME NEW r \in Runs, CCreate(r)
      PROVE  NewHeld
  BY <1>20 DEF Held, CCreate
<1>21. ASSUME NEW r \in Runs, CForceClose(r)
      PROVE  NewHeld
  BY <1>21 DEF Held, CForceClose
<1>22. ASSUME NEW r \in Runs, NEvent(r)
      PROVE  NewHeld
  BY <1>22 DEF Held, NEvent
<1>23. CASE NTick
  BY <1>23 DEF Held, NTick
<1>24. CASE NStorage
  BY <1>24 DEF Held, NStorage, Idle
<1>25. CASE Crash
  BY <1>25 DEF Held, Crash, Idle
<1>26. CASE Connect
  BY <1>26 DEF Held, Connect
<1>27. ASSUME NEW n \in 0..Len(up), Drop(n)
      PROVE  NewHeld
  BY <1>27 DEF Held, Drop
<1>28. CASE UNCHANGED vars
  BY <1>28 DEF vars, Held
<1> QED
  BY <1>1, <1>2, <1>3, <1>4, <1>5, <1>6, <1>7, <1>8, <1>9, <1>10, <1>11, <1>12, <1>13,
     <1>14, <1>15, <1>16, <1>17, <1>18, <1>19, <1>20, <1>21, <1>22, <1>23, <1>24,
     <1>25, <1>26, <1>27, <1>28
  DEF Next, PlaneStep, TaskStep, FrameStep, CFrame

\* A settled command stays settled.
LEMMA SettledStays ==
  TypeInv /\ [Next]_vars => \A k \in Runs : cmd[k] \in Settled => cmd'[k] \in Settled
<1> SUFFICES ASSUME TypeInv, [Next]_vars
             PROVE  \A k \in Runs : cmd[k] \in Settled => cmd'[k] \in Settled
  OBVIOUS
<1> USE DEF TypeInv, FlatTypes, PlaneTypes, NodeTypes, TaskTypes, TaskInv, SeqTypes
<1>m. \A m \in {Head(q) : q \in {up, late} \ {<< >>}} : m.run \in Runs
  BY HeadTailProperties, UpFields
<1> USE <1>m
<1> USE DEF planeVars, sessionVars, netVars, nodeVars, taskVars, counters
<1>1. ASSUME NEW r \in Runs, CDispatch(r)
      PROVE  \A k \in Runs : cmd[k] \in Settled => cmd'[k] \in Settled
  BY <1>1 DEF CDispatch, Settled
<1>2. ASSUME NEW r \in Runs, CSubscribe(r)
      PROVE  \A k \in Runs : cmd[k] \in Settled => cmd'[k] \in Settled
  BY <1>2 DEF CSubscribe
<1>3. ASSUME NEW r \in Runs, CSweep(r)
      PROVE  \A k \in Runs : cmd[k] \in Settled => cmd'[k] \in Settled
  BY <1>3 DEF CSweep
<1>4. ASSUME NEW r \in Runs, CExpire(r)
      PROVE  \A k \in Runs : cmd[k] \in Settled => cmd'[k] \in Settled
  BY <1>4 DEF CExpire, Settled
<1>5. ASSUME NEW m \in {Head(q) : q \in {up, late} \ {<< >>}}, NEW live \in BOOLEAN, CAccepted(live, m)
      PROVE  \A k \in Runs : cmd[k] \in Settled => cmd'[k] \in Settled
  BY <1>5 DEF CAccepted, Settled
<1>6. ASSUME NEW m \in {Head(q) : q \in {up, late} \ {<< >>}}, NEW live \in BOOLEAN, CResult(live, m)
      PROVE  \A k \in Runs : cmd[k] \in Settled => cmd'[k] \in Settled
  BY <1>6 DEF CResult, Complete, Outcome, Settled
<1>7. ASSUME NEW m \in {Head(q) : q \in {up, late} \ {<< >>}}, NEW live \in BOOLEAN, CEvent(live, m)
      PROVE  \A k \in Runs : cmd[k] \in Settled => cmd'[k] \in Settled
  BY <1>7 DEF CEvent, Incoming, Reply, HighestContiguous
<1>8. CASE NAccept
  BY <1>8 DEF NAccept, Idle
<1>9. CASE NExecute
  BY <1>9 DEF NExecute
<1>10. CASE NComplete
  BY <1>10 DEF NComplete
<1>11. CASE NEnqueue
  BY <1>11 DEF NEnqueue, Flush, Idle
<1>12. CASE NPump
  BY <1>12 DEF NPump, Idle
<1>13. CASE NFlush
  BY <1>13 DEF NFlush, Flush, Idle
<1>14. ASSUME NEW r \in Runs, NRefuse(r)
      PROVE  \A k \in Runs : cmd[k] \in Settled => cmd'[k] \in Settled
  BY <1>14 DEF NRefuse, NextDown
<1>15. ASSUME NEW r \in Runs, NAdmit(r)
      PROVE  \A k \in Runs : cmd[k] \in Settled => cmd'[k] \in Settled
  BY <1>15 DEF NAdmit, NextDown
<1>16. ASSUME NEW r \in Runs, NDuplicate(r)
      PROVE  \A k \in Runs : cmd[k] \in Settled => cmd'[k] \in Settled
  BY <1>16 DEF NDuplicate, NextDown, Flush
<1>17. ASSUME NEW r \in Runs, NSubscribe(r)
      PROVE  \A k \in Runs : cmd[k] \in Settled => cmd'[k] \in Settled
  BY <1>17 DEF NSubscribe, NextDown, Flush
<1>18. ASSUME NEW r \in Runs, NAck(r)
      PROVE  \A k \in Runs : cmd[k] \in Settled => cmd'[k] \in Settled
  BY <1>18 DEF NAck, NextDown
<1>19. ASSUME NEW r \in Runs, NEventAck(r)
      PROVE  \A k \in Runs : cmd[k] \in Settled => cmd'[k] \in Settled
  BY <1>19 DEF NEventAck, NextDown
<1>20. ASSUME NEW r \in Runs, CCreate(r)
      PROVE  \A k \in Runs : cmd[k] \in Settled => cmd'[k] \in Settled
  BY <1>20 DEF CCreate, Settled
<1>21. ASSUME NEW r \in Runs, CForceClose(r)
      PROVE  \A k \in Runs : cmd[k] \in Settled => cmd'[k] \in Settled
  BY <1>21 DEF CForceClose
<1>22. ASSUME NEW r \in Runs, NEvent(r)
      PROVE  \A k \in Runs : cmd[k] \in Settled => cmd'[k] \in Settled
  BY <1>22 DEF NEvent
<1>23. CASE NTick
  BY <1>23 DEF NTick
<1>24. CASE NStorage
  BY <1>24 DEF NStorage, Idle
<1>25. CASE Crash
  BY <1>25 DEF Crash, Idle
<1>26. CASE Connect
  BY <1>26 DEF Connect
<1>27. ASSUME NEW n \in 0..Len(up), Drop(n)
      PROVE  \A k \in Runs : cmd[k] \in Settled => cmd'[k] \in Settled
  BY <1>27 DEF Drop
<1>28. CASE UNCHANGED vars
  BY <1>28 DEF vars
<1> QED
  BY <1>1, <1>2, <1>3, <1>4, <1>5, <1>6, <1>7, <1>8, <1>9, <1>10, <1>11, <1>12, <1>13,
     <1>14, <1>15, <1>16, <1>17, <1>18, <1>19, <1>20, <1>21, <1>22, <1>23, <1>24,
     <1>25, <1>26, <1>27, <1>28
  DEF Next, PlaneStep, TaskStep, FrameStep, CFrame

-----------------------------------------------------------------------------
(* Answers are kept, as long as the registry takes them and the daemon     *)
(* does not die inside a command.                                          *)

\* Only an answer the Control Plane has is acknowledged.
AckedInv == \A r \in RunsOf(down, "ack") : cmd[r] \in Settled

\* The answer to a settled command is at the Control Plane, in the outbox, or
\* about to be put there.
KeptInv ==
  \A r \in Runs : inbox[r] \in {"completed", "failed"} /\ ~(task = "enqueue" /\ taskRun = r)
    => cmd[r] \in Settled \/ r \in Held

\* An answer that becomes due is held.
NewDue ==
  \A k \in Runs :
    /\ inbox'[k] \in {"completed", "failed"} /\ ~(task' = "enqueue" /\ taskRun' = k)
    /\ inbox[k] \notin {"completed", "failed"} \/ (task = "enqueue" /\ taskRun = k)
    => k \in Held'

\* The loop leaves no answer behind.
LEMMA DueStep ==
  ASSUME "storage" \notin Hazards, "mid_command" \notin Hazards,
         TypeInv, ProgressInv, [Next]_vars
  PROVE  NewDue
<1> USE DEF TypeInv, FlatTypes, PlaneTypes, NodeTypes, TaskTypes, TaskInv, SeqTypes
<1> USE DEF planeVars, sessionVars, netVars, nodeVars, taskVars, counters, NewDue,
            ProgressInv
<1>1. ASSUME NEW r \in Runs, CDispatch(r)
      PROVE  NewDue
  BY <1>1 DEF Held, CDispatch
<1>2. ASSUME NEW r \in Runs, CSubscribe(r)
      PROVE  NewDue
  BY <1>2 DEF Held, CSubscribe
<1>3. ASSUME NEW r \in Runs, CSweep(r)
      PROVE  NewDue
  BY <1>3 DEF Held, CSweep
<1>4. ASSUME NEW r \in Runs, CExpire(r)
      PROVE  NewDue
  BY <1>4 DEF Held, CExpire
<1>5. ASSUME NEW m \in {Head(q) : q \in {up, late} \ {<< >>}}, NEW live \in BOOLEAN, CAccepted(live, m)
      PROVE  NewDue
  BY <1>5 DEF Held, CAccepted, Incoming
<1>6. ASSUME NEW m \in {Head(q) : q \in {up, late} \ {<< >>}}, NEW live \in BOOLEAN, CResult(live, m)
      PROVE  NewDue
  BY <1>6 DEF Held, CResult, Incoming, Reply, Complete, Outcome
<1>7. ASSUME NEW m \in {Head(q) : q \in {up, late} \ {<< >>}}, NEW live \in BOOLEAN, CEvent(live, m)
      PROVE  NewDue
  BY <1>7 DEF Held, CEvent, Incoming, Reply, HighestContiguous
<1>8. CASE NAccept
  BY <1>8 DEF Held, NAccept, Idle
<1>9. CASE NExecute
  BY <1>9 DEF Held, NExecute
<1>10. CASE NComplete
  BY <1>10 DEF Held, NComplete
<1>11. CASE NEnqueue
  <2>1. [run |-> taskRun, state |-> answer] \in Answers
    BY <1>11 DEF Answers, NEnqueue
  <2>2. Held' = Held \union {taskRun}
    BY <1>11, <2>1, HeldAppend DEF NEnqueue, Held
  <2> QED
    BY <1>11, <2>2 DEF NEnqueue, Idle
<1>12. CASE NPump
  BY <1>12 DEF Held, NPump, Idle
<1>13. CASE NFlush
  BY <1>13 DEF Held, NFlush, Flush, Idle
<1>14. ASSUME NEW r \in Runs, NRefuse(r)
      PROVE  NewDue
  BY <1>14 DEF Held, NRefuse, NextDown
<1>15. ASSUME NEW r \in Runs, NAdmit(r)
      PROVE  NewDue
  BY <1>15 DEF Held, NAdmit, NextDown
<1>16. ASSUME NEW r \in Runs, NDuplicate(r)
      PROVE  NewDue
  BY <1>16 DEF Held, NDuplicate, NextDown, Flush
<1>17. ASSUME NEW r \in Runs, NSubscribe(r)
      PROVE  NewDue
  BY <1>17 DEF Held, NSubscribe, NextDown, Flush
<1>18. ASSUME NEW r \in Runs, NAck(r)
      PROVE  NewDue
  BY <1>18 DEF Held, NAck, NextDown
<1>19. ASSUME NEW r \in Runs, NEventAck(r)
      PROVE  NewDue
  BY <1>19 DEF Held, NEventAck, NextDown
<1>20. ASSUME NEW r \in Runs, CCreate(r)
      PROVE  NewDue
  BY <1>20 DEF Held, CCreate
<1>21. ASSUME NEW r \in Runs, CForceClose(r)
      PROVE  NewDue
  BY <1>21 DEF Held, CForceClose
<1>22. ASSUME NEW r \in Runs, NEvent(r)
      PROVE  NewDue
  BY <1>22 DEF Held, NEvent
<1>23. CASE NTick
  BY <1>23 DEF Held, NTick
<1>24. CASE NStorage
  BY <1>24 DEF Held, NStorage, Idle
<1>25. CASE Crash
  BY <1>25 DEF Held, Crash, Idle
<1>26. CASE Connect
  BY <1>26 DEF Held, Connect
<1>27. ASSUME NEW n \in 0..Len(up), Drop(n)
      PROVE  NewDue
  BY <1>27 DEF Held, Drop
<1>28. CASE UNCHANGED vars
  BY <1>28 DEF vars, Held
<1> QED
  BY <1>1, <1>2, <1>3, <1>4, <1>5, <1>6, <1>7, <1>8, <1>9, <1>10, <1>11, <1>12, <1>13,
     <1>14, <1>15, <1>16, <1>17, <1>18, <1>19, <1>20, <1>21, <1>22, <1>23, <1>24,
     <1>25, <1>26, <1>27, <1>28
  DEF Next, PlaneStep, TaskStep, FrameStep, CFrame

\* AckedInv is inductive.
LEMMA AckedStep == TypeInv /\ AckedInv /\ [Next]_vars => AckedInv'
<1> SUFFICES ASSUME TypeInv, AckedInv, [Next]_vars
             PROVE  AckedInv'
  OBVIOUS
<1>1. NewDown
  BY DownStep
<1>2. \A k \in Runs : cmd[k] \in Settled => cmd'[k] \in Settled
  BY SettledStays
<1>3. RunsOf(down, "ack") \subseteq Runs
  BY DEF RunsOf
<1> QED
  BY <1>1, <1>2, <1>3 DEF NewDown, AckedInv

\* The answer to a command is kept until the Control Plane has it, through
\* drops, restarts between commands, repeated commands and slow answers.
THEOREM AnswersAreKept ==
  ASSUME "storage" \notin Hazards, "mid_command" \notin Hazards
  PROVE  Spec => []AnswerKept
<1> DEFINE Inv == ProgressInv /\ AckedInv /\ KeptInv
<1>1. Init => Inv
  BY RunsEmpty DEF Init, ProgressInv, AckedInv, KeptInv
<1>2. TypeInv /\ Inv /\ [Next]_vars => Inv'
  <2> SUFFICES ASSUME TypeInv, Inv, [Next]_vars
               PROVE  Inv'
    OBVIOUS
  <2>1. ProgressInv' /\ AckedInv'
    BY ProgressStep, AckedStep
  <2>2. NewDue /\ NewHeld
    BY DueStep, HeldStep
  <2>3. \A k \in Runs : cmd[k] \in Settled => cmd'[k] \in Settled
    BY SettledStays
  <2>4. \A k \in Runs : k \in Held => k \in Held' \/ cmd[k] \in Settled
    BY <2>2 DEF NewHeld, AckedInv
  <2>5. KeptInv'
    BY <2>2, <2>3, <2>4 DEF NewDue, KeptInv
  <2> QED
    BY <2>1, <2>5
<1>3. Inv => AnswerKept
  BY DEF KeptInv, AnswerKept, Held, Answering
<1> HIDE DEF Inv
<1> QED
  BY <1>1, <1>2, <1>3, TypeInvariant, PTL DEF Spec

-----------------------------------------------------------------------------
(* An end sticks, as long as acknowledgements come before the next tick,   *)
(* answers before the command expires, nothing is processed late and the   *)
(* registry is not busy: then no result follows an event of its run.       *)

\* Nothing that is on the way or kept will become an answer to the command.
Silent(r) ==
  /\ r \notin RunsOf(down, "command") /\ ~Tasked(r)
  /\ r \notin Held /\ r \notin RunsOf(up, "result")

\* The command is settled and does not arrive again.
Delivered(r) == cmd[r] \in Settled /\ r \notin RunsOf(down, "command") /\ ~Tasked(r)

\* No command follows a subscription of its run.
Ordered(s) ==
  \A i, j \in 1..Len(s) :
    i < j /\ s[i].type = "subscribe" /\ s[j].type = "command" => s[i].run # s[j].run

\* A run is subscribed once its command is settled, and its events are sent to
\* a subscriber the command does not reach any more.
DeliveredInv ==
  /\ \A r \in Runs : cursor[r] # NotSubscribed => Delivered(r)
  /\ \A r \in Runs : attached[r] \/ r \in RunsOf(down, "subscribe") => cmd[r] \in Settled
  /\ Ordered(down)

\* What is held was sent on this connection, or its acknowledgement is on the
\* way; so nothing is held while the pump runs.
ResentInv ==
  /\ conn => Held \subseteq RunsOf(up, "result") \union RunsOf(down, "ack")
  /\ conn /\ task = "pump" => Held = {} /\ RunsOf(up, "result") = {}

\* A run with an event on the way, or that ended, has had its last result; one
\* whose command is about to expire will have none.
OverInv ==
  /\ \A r \in Runs : crun[r] = "completed" \/ r \in RunsOf(up, "event")
       => cmd[r] \in Settled /\ Silent(r)
  /\ \A r \in stale : cmd[r] \in {"dispatched", "accepted"} /\ Silent(r)

LastWordInv == late = << >> /\ DeliveredInv /\ ResentInv /\ OverInv

\* What the Control Plane does to its rows.
PlaneMoves ==
  /\ \A k \in Runs : crun'[k] = "completed" /\ crun[k] # "completed" => k \in RunsOf(up, "event")
  /\ \A k \in Runs : crun[k] = "completed" /\ crun'[k] # "completed"
       => k \in RunsOf(up, "result") \/ k \in stale \/ cmd[k] = "none"
  /\ \A k \in Runs : attached'[k] /\ ~attached[k] => cmd'[k] \in Settled
  /\ \A k \in stale' \ stale : cmd[k] \in {"dispatched", "accepted"} /\ cmd' = cmd /\ Silent(k)
  /\ \A k \in stale' \intersect stale :
       cmd[k] \in {"dispatched", "accepted"}
         => cmd'[k] \in {cmd[k], "accepted"} \/ k \in RunsOf(up, "result")

\* What the Node does to its cursors and when it pumps.
NodeMoves ==
  /\ \A k \in Runs : cursor'[k] # NotSubscribed /\ cursor[k] = NotSubscribed
       => /\ down # << >> /\ Head(down).type = "subscribe" /\ Head(down).run = k
          /\ down' = Tail(down) /\ ~Tasked(k)'
  /\ conn' /\ task' = "pump" =>
       /\ conn /\ Held' = Held
       /\ \/ task = "pump"
          \/ /\ RunsOf(up, "result") = {} /\ RunsOf(down, "ack") = {}
             /\ up' = up

\* A frame at the end.
LEMMA OrderedAppend ==
  ASSUME NEW S, NEW s \in Seq(S), NEW f \in S, Ordered(s),
         f.type = "command" => f.run \notin RunsOf(s, "subscribe"), f.run \in Runs
  PROVE  Ordered(Append(s, f))
<1>1. /\ Len(Append(s, f)) = Len(s) + 1 /\ Len(s) \in Nat
      /\ \A i \in 1..Len(s) : Append(s, f)[i] = s[i]
      /\ Append(s, f)[Len(s) + 1] = f
  BY AppendProperties, LenProperties
<1> SUFFICES ASSUME NEW i \in 1..Len(Append(s, f)), NEW j \in 1..Len(Append(s, f)), i < j,
                    Append(s, f)[i].type = "subscribe", Append(s, f)[j].type = "command",
                    Append(s, f)[i].run = Append(s, f)[j].run
             PROVE  FALSE
  BY DEF Ordered
<1>2. i \in 1..Len(s) /\ Append(s, f)[i] = s[i]
  BY <1>1
<1>3. CASE j \in 1..Len(s)
  BY <1>1, <1>2, <1>3 DEF Ordered
<1>4. CASE j = Len(s) + 1
  BY <1>1, <1>2, <1>4 DEF RunsOf
<1> QED
  BY <1>1, <1>3, <1>4

\* The first frame taken off, which no command follows if it is a subscription.
LEMMA OrderedTail ==
  ASSUME NEW S, NEW s \in Seq(S), s # << >>, Ordered(s)
  PROVE  /\ Ordered(Tail(s))
         /\ Head(s).type = "subscribe" => Head(s).run \notin RunsOf(Tail(s), "command")
<1>1. /\ Len(s) \in Nat /\ Len(s) # 0 /\ Len(Tail(s)) = Len(s) - 1
      /\ \A i \in 1..Len(Tail(s)) : Tail(s)[i] = s[i + 1]
      /\ Head(s) = s[1]
  BY HeadTailProperties, LenProperties, EmptySeq
<1>2. \A i \in 1..Len(Tail(s)) : i + 1 \in 1..Len(s) /\ 1 < i + 1
  BY <1>1
<1>3. Ordered(Tail(s))
  <2> SUFFICES ASSUME NEW i \in 1..Len(Tail(s)), NEW j \in 1..Len(Tail(s)), i < j,
                      Tail(s)[i].type = "subscribe", Tail(s)[j].type = "command",
                      Tail(s)[i].run = Tail(s)[j].run
               PROVE  FALSE
    BY DEF Ordered
  <2>1. i + 1 \in 1..Len(s) /\ j + 1 \in 1..Len(s) /\ i + 1 < j + 1
    BY <1>1
  <2>2. Tail(s)[i] = s[i + 1] /\ Tail(s)[j] = s[j + 1]
    BY <1>1
  <2> QED
    BY <2>1, <2>2 DEF Ordered
<1>4. ASSUME Head(s).type = "subscribe", Head(s).run \in RunsOf(Tail(s), "command")
      PROVE  FALSE
  <2>1. PICK i \in 1..Len(Tail(s)) : Tail(s)[i].type = "command" /\ Tail(s)[i].run = Head(s).run
    BY <1>4 DEF RunsOf
  <2>2. 1 \in 1..Len(s) /\ i + 1 \in 1..Len(s) /\ 1 < i + 1 /\ Tail(s)[i] = s[i + 1]
    BY <1>1, <1>2
  <2> QED
    BY <1>1, <1>4, <2>1, <2>2 DEF Ordered
<1> QED
  BY <1>3, <1>4

\* Nothing is processed late.
LEMMA LateStep ==
  ASSUME "late_frames" \notin Hazards,
         late = << >>, [Next]_vars
  PROVE  late' = << >>
<1> USE DEF planeVars, sessionVars, netVars, nodeVars, taskVars, counters
<1>1. ASSUME NEW r \in Runs, CDispatch(r)
      PROVE  late' = << >>
  BY <1>1 DEF CDispatch
<1>2. ASSUME NEW r \in Runs, CSubscribe(r)
      PROVE  late' = << >>
  BY <1>2 DEF CSubscribe
<1>3. ASSUME NEW r \in Runs, CSweep(r)
      PROVE  late' = << >>
  BY <1>3 DEF CSweep
<1>4. ASSUME NEW r \in Runs, CExpire(r)
      PROVE  late' = << >>
  BY <1>4 DEF CExpire
<1>5. ASSUME NEW m \in {Head(q) : q \in {up, late} \ {<< >>}}, NEW live \in BOOLEAN, CAccepted(live, m)
      PROVE  late' = << >>
  BY <1>5 DEF CAccepted, Incoming
<1>6. ASSUME NEW m \in {Head(q) : q \in {up, late} \ {<< >>}}, NEW live \in BOOLEAN, CResult(live, m)
      PROVE  late' = << >>
  BY <1>6 DEF CResult, Incoming, Reply, Complete, Outcome
<1>7. ASSUME NEW m \in {Head(q) : q \in {up, late} \ {<< >>}}, NEW live \in BOOLEAN, CEvent(live, m)
      PROVE  late' = << >>
  BY <1>7 DEF CEvent, Incoming, Reply, HighestContiguous
<1>8. CASE NAccept
  BY <1>8 DEF NAccept, Idle
<1>9. CASE NExecute
  BY <1>9 DEF NExecute
<1>10. CASE NComplete
  BY <1>10 DEF NComplete
<1>11. CASE NEnqueue
  BY <1>11 DEF NEnqueue, Flush, Idle
<1>12. CASE NPump
  BY <1>12 DEF NPump, Idle
<1>13. CASE NFlush
  BY <1>13 DEF NFlush, Flush, Idle
<1>14. ASSUME NEW r \in Runs, NRefuse(r)
      PROVE  late' = << >>
  BY <1>14 DEF NRefuse, NextDown
<1>15. ASSUME NEW r \in Runs, NAdmit(r)
      PROVE  late' = << >>
  BY <1>15 DEF NAdmit, NextDown
<1>16. ASSUME NEW r \in Runs, NDuplicate(r)
      PROVE  late' = << >>
  BY <1>16 DEF NDuplicate, NextDown, Flush
<1>17. ASSUME NEW r \in Runs, NSubscribe(r)
      PROVE  late' = << >>
  BY <1>17 DEF NSubscribe, NextDown, Flush
<1>18. ASSUME NEW r \in Runs, NAck(r)
      PROVE  late' = << >>
  BY <1>18 DEF NAck, NextDown
<1>19. ASSUME NEW r \in Runs, NEventAck(r)
      PROVE  late' = << >>
  BY <1>19 DEF NEventAck, NextDown
<1>20. ASSUME NEW r \in Runs, CCreate(r)
      PROVE  late' = << >>
  BY <1>20 DEF CCreate
<1>21. ASSUME NEW r \in Runs, CForceClose(r)
      PROVE  late' = << >>
  BY <1>21 DEF CForceClose
<1>22. ASSUME NEW r \in Runs, NEvent(r)
      PROVE  late' = << >>
  BY <1>22 DEF NEvent
<1>23. CASE NTick
  BY <1>23 DEF NTick
<1>24. CASE NStorage
  BY <1>24 DEF NStorage, Idle
<1>25. CASE Crash
  BY <1>25 DEF Crash, Idle
<1>26. CASE Connect
  BY <1>26 DEF Connect
<1>27. ASSUME NEW n \in 0..Len(up), Drop(n)
      PROVE  late' = << >>
  BY <1>27 DEF Drop
<1>28. CASE UNCHANGED vars
  BY <1>28 DEF vars
<1> QED
  BY <1>1, <1>2, <1>3, <1>4, <1>5, <1>6, <1>7, <1>8, <1>9, <1>10, <1>11, <1>12, <1>13,
     <1>14, <1>15, <1>16, <1>17, <1>18, <1>19, <1>20, <1>21, <1>22, <1>23, <1>24,
     <1>25, <1>26, <1>27, <1>28
  DEF Next, PlaneStep, TaskStep, FrameStep, CFrame

\* No command is sent behind a subscription of its run.
LEMMA OrderStep ==
  TypeInv /\ DeliveredInv /\ [Next]_vars => Ordered(down')
<1> SUFFICES ASSUME TypeInv, DeliveredInv, [Next]_vars
             PROVE  Ordered(down')
  OBVIOUS
<1> USE BoundsAssumption
<1> USE DEF TypeInv, FlatTypes, PlaneTypes, NodeTypes, TaskTypes, TaskInv, SeqTypes
<1>m. \A m \in {Head(q) : q \in {up, late} \ {<< >>}} : m.run \in Runs
  BY HeadTailProperties, UpFields
<1>t. down # << >> => Ordered(Tail(down))
  BY OrderedTail DEF DeliveredInv
<1>e. Ordered(<< >>)
  BY DEF Ordered
<1> USE DEF planeVars, sessionVars, netVars, nodeVars, taskVars, counters
<1>1. ASSUME NEW r \in Runs, CDispatch(r)
      PROVE  Ordered(down')
  <2>1. Frame("command", r, "-", 0).type = "command" /\ Frame("command", r, "-", 0).run = r
    BY DEF Frame
  <2>r. r \in Runs /\ 0 \in 0..NumEvents
    BY <1>m
  <2>2. Frame("command", r, "-", 0) \in DownFrames
    BY <2>r, DownFrame
  <2>3. Ordered(Append(down, Frame("command", r, "-", 0)))
    BY <1>1, <2>r, <2>1, <2>2, OrderedAppend DEF CDispatch, DeliveredInv, Settled
  <2> QED
    BY <1>1, <2>3 DEF CDispatch
<1>2. ASSUME NEW r \in Runs, CSubscribe(r)
      PROVE  Ordered(down')
  <2>1. Frame("subscribe", r, "-", acked[r]).type = "subscribe" /\ Frame("subscribe", r, "-", acked[r]).run = r
    BY DEF Frame
  <2>r. r \in Runs /\ acked[r] \in 0..NumEvents
    BY <1>m
  <2>2. Frame("subscribe", r, "-", acked[r]) \in DownFrames
    BY <2>r, DownFrame
  <2>3. Ordered(Append(down, Frame("subscribe", r, "-", acked[r])))
    BY <2>r, <2>1, <2>2, OrderedAppend DEF DeliveredInv
  <2> QED
    BY <1>2, <2>3 DEF CSubscribe
<1>3. ASSUME NEW r \in Runs, CSweep(r)
      PROVE  Ordered(down')
  BY <1>3 DEF DeliveredInv, CSweep
<1>4. ASSUME NEW r \in Runs, CExpire(r)
      PROVE  Ordered(down')
  BY <1>4 DEF DeliveredInv, CExpire
<1>5. ASSUME NEW m \in {Head(q) : q \in {up, late} \ {<< >>}}, NEW live \in BOOLEAN, CAccepted(live, m)
      PROVE  Ordered(down')
  BY <1>5 DEF DeliveredInv, CAccepted, Incoming
<1>6. ASSUME NEW m \in {Head(q) : q \in {up, late} \ {<< >>}}, NEW live \in BOOLEAN, CResult(live, m)
      PROVE  Ordered(down')
  <2>1. Frame("ack", m.run, "-", 0).type = "ack" /\ Frame("ack", m.run, "-", 0).run = m.run
    BY DEF Frame
  <2>r. m.run \in Runs /\ 0 \in 0..NumEvents
    BY <1>m
  <2>2. Frame("ack", m.run, "-", 0) \in DownFrames
    BY <2>r, DownFrame
  <2>3. Ordered(Append(down, Frame("ack", m.run, "-", 0)))
    BY <2>r, <2>1, <2>2, OrderedAppend DEF DeliveredInv
  <2> QED
    BY <1>6, <2>3 DEF CResult, Reply, DeliveredInv
<1>7. ASSUME NEW m \in {Head(q) : q \in {up, late} \ {<< >>}}, NEW live \in BOOLEAN, CEvent(live, m)
      PROVE  Ordered(down')
  <2>n. PICK n \in 0..NumEvents : Reply(live, Frame("eventack", m.run, "-", n))
    BY <1>7 DEF CEvent
  <2>1. Frame("eventack", m.run, "-", n).type = "eventack" /\ Frame("eventack", m.run, "-", n).run = m.run
    BY DEF Frame
  <2>r. m.run \in Runs /\ n \in 0..NumEvents
    BY <1>m
  <2>2. Frame("eventack", m.run, "-", n) \in DownFrames
    BY <2>r, DownFrame
  <2>3. Ordered(Append(down, Frame("eventack", m.run, "-", n)))
    BY <2>r, <2>1, <2>2, OrderedAppend DEF DeliveredInv
  <2> QED
    BY <2>n, <2>3 DEF Reply, DeliveredInv
<1>8. CASE NAccept
  BY <1>8 DEF DeliveredInv, NAccept, Idle
<1>9. CASE NExecute
  BY <1>9 DEF DeliveredInv, NExecute
<1>10. CASE NComplete
  BY <1>10 DEF DeliveredInv, NComplete
<1>11. CASE NEnqueue
  BY <1>11 DEF DeliveredInv, NEnqueue, Flush, Idle
<1>12. CASE NPump
  BY <1>12 DEF DeliveredInv, NPump, Idle
<1>13. CASE NFlush
  BY <1>13 DEF DeliveredInv, NFlush, Flush, Idle
<1>14. ASSUME NEW r \in Runs, NRefuse(r)
      PROVE  Ordered(down')
  BY <1>14, <1>t DEF DeliveredInv, NRefuse, NextDown
<1>15. ASSUME NEW r \in Runs, NAdmit(r)
      PROVE  Ordered(down')
  BY <1>15, <1>t DEF DeliveredInv, NAdmit, NextDown
<1>16. ASSUME NEW r \in Runs, NDuplicate(r)
      PROVE  Ordered(down')
  BY <1>16, <1>t DEF DeliveredInv, NDuplicate, NextDown, Flush
<1>17. ASSUME NEW r \in Runs, NSubscribe(r)
      PROVE  Ordered(down')
  BY <1>17, <1>t DEF DeliveredInv, NSubscribe, NextDown, Flush
<1>18. ASSUME NEW r \in Runs, NAck(r)
      PROVE  Ordered(down')
  BY <1>18, <1>t DEF DeliveredInv, NAck, NextDown
<1>19. ASSUME NEW r \in Runs, NEventAck(r)
      PROVE  Ordered(down')
  BY <1>19, <1>t DEF DeliveredInv, NEventAck, NextDown
<1>20. ASSUME NEW r \in Runs, CCreate(r)
      PROVE  Ordered(down')
  BY <1>20 DEF DeliveredInv, CCreate
<1>21. ASSUME NEW r \in Runs, CForceClose(r)
      PROVE  Ordered(down')
  BY <1>21 DEF DeliveredInv, CForceClose
<1>22. ASSUME NEW r \in Runs, NEvent(r)
      PROVE  Ordered(down')
  BY <1>22 DEF DeliveredInv, NEvent
<1>23. CASE NTick
  BY <1>23 DEF DeliveredInv, NTick
<1>24. CASE NStorage
  BY <1>24, <1>t DEF DeliveredInv, NStorage, Idle
<1>25. CASE Crash
  BY <1>25, <1>e DEF Crash, Idle
<1>26. CASE Connect
  BY <1>26 DEF DeliveredInv, Connect
<1>27. ASSUME NEW n \in 0..Len(up), Drop(n)
      PROVE  Ordered(down')
  BY <1>27, <1>e DEF Drop
<1>28. CASE UNCHANGED vars
  BY <1>28 DEF vars, DeliveredInv
<1> QED
  BY <1>1, <1>2, <1>3, <1>4, <1>5, <1>6, <1>7, <1>8, <1>9, <1>10, <1>11, <1>12, <1>13,
     <1>14, <1>15, <1>16, <1>17, <1>18, <1>19, <1>20, <1>21, <1>22, <1>23, <1>24,
     <1>25, <1>26, <1>27, <1>28
  DEF Next, PlaneStep, TaskStep, FrameStep, CFrame

\* What the Control Plane does to its rows, when nothing is processed late.
LEMMA PlaneMovesStep ==
  ASSUME "slow" \notin Hazards,
         TypeInv, late = << >>, [Next]_vars
  PROVE  PlaneMoves
<1> USE DEF TypeInv, FlatTypes, PlaneTypes, NodeTypes, TaskTypes, TaskInv, SeqTypes
<1>h. \A m \in {Head(q) : q \in {up, late} \ {<< >>}} : m.run \in Runs /\ m = Head(up) /\ up # << >>
  BY HeadTailProperties, UpFields
<1>w. up # << >> =>
        \A t : Head(up).run \in Runs /\ Head(up).type = t => Head(up).run \in RunsOf(up, t)
  BY RunsTail
<1>m. \A m \in {Head(q) : q \in {up, late} \ {<< >>}} :
        m.run \in Runs /\ m = Head(up) /\ m.run \in RunsOf(up, m.type)
  BY <1>h, <1>w
<1> USE DEF planeVars, sessionVars, netVars, nodeVars, taskVars, counters, PlaneMoves
<1>1. ASSUME NEW r \in Runs, CDispatch(r)
      PROVE  PlaneMoves
  <2>1. \A k \in Runs : cmd'[k] = cmd[k] \/ cmd[k] \in {"queued", "none"}
    BY <1>1 DEF CDispatch
  <2> QED
    BY <1>1, <2>1 DEF CDispatch
<1>2. ASSUME NEW r \in Runs, CSubscribe(r)
      PROVE  PlaneMoves
  BY <1>2 DEF CSubscribe
<1>3. ASSUME NEW r \in Runs, CSweep(r)
      PROVE  PlaneMoves
  <2>1. Unanswerable(r) /\ cmd[r] \in {"dispatched", "accepted"} /\ stale' = stale \union {r}
    BY <1>3 DEF CSweep
  <2>2. Silent(r)
    BY <2>1 DEF Unanswerable, Silent, Tasked, Held, Answering, RunsOf
  <2> QED
    BY <1>3, <2>1, <2>2 DEF CSweep
<1>4. ASSUME NEW r \in Runs, CExpire(r)
      PROVE  PlaneMoves
  BY <1>4 DEF CExpire
<1>5. ASSUME NEW m \in {Head(q) : q \in {up, late} \ {<< >>}}, NEW live \in BOOLEAN, CAccepted(live, m)
      PROVE  PlaneMoves
  <2>1. \A k \in Runs : cmd'[k] \in {cmd[k], "accepted"}
    BY <1>m, <1>5 DEF CAccepted
  <2> QED
    BY <1>5, <2>1 DEF CAccepted
<1>6. ASSUME NEW m \in {Head(q) : q \in {up, late} \ {<< >>}}, NEW live \in BOOLEAN, CResult(live, m)
      PROVE  PlaneMoves
  <2>1. m.run \in RunsOf(up, "result")
    BY <1>6, <1>m DEF CResult
  <2>2. cmd'[m.run] \in Settled
    BY <1>m, <1>6 DEF CResult, Complete, Outcome, Settled
  <2>3. /\ \A k \in Runs : k # m.run => crun'[k] = crun[k] /\ attached'[k] = attached[k] /\ cmd'[k] = cmd[k]
        /\ crun'[m.run] # "completed" /\ stale' = stale
    BY <1>m, <1>6 DEF CResult, Complete
  <2> QED
    BY <2>1, <2>2, <2>3
<1>7. ASSUME NEW m \in {Head(q) : q \in {up, late} \ {<< >>}}, NEW live \in BOOLEAN, CEvent(live, m)
      PROVE  PlaneMoves
  <2>1. m.run \in RunsOf(up, "event")
    BY <1>7, <1>m DEF CEvent
  <2>2. /\ \A k \in Runs : crun'[k] = crun[k] \/ (k = m.run /\ crun'[k] = "completed")
        /\ stale' = stale /\ attached' = attached /\ cmd' = cmd
    BY <1>m, <1>7 DEF CEvent
  <2> QED
    BY <2>1, <2>2
<1>8. CASE NAccept
  BY <1>8 DEF NAccept, Idle
<1>9. CASE NExecute
  BY <1>9 DEF NExecute
<1>10. CASE NComplete
  BY <1>10 DEF NComplete
<1>11. CASE NEnqueue
  BY <1>11 DEF NEnqueue, Flush, Idle
<1>12. CASE NPump
  BY <1>12 DEF NPump, Idle
<1>13. CASE NFlush
  BY <1>13 DEF NFlush, Flush, Idle
<1>14. ASSUME NEW r \in Runs, NRefuse(r)
      PROVE  PlaneMoves
  BY <1>14 DEF NRefuse, NextDown
<1>15. ASSUME NEW r \in Runs, NAdmit(r)
      PROVE  PlaneMoves
  BY <1>15 DEF NAdmit, NextDown
<1>16. ASSUME NEW r \in Runs, NDuplicate(r)
      PROVE  PlaneMoves
  BY <1>16 DEF NDuplicate, NextDown, Flush
<1>17. ASSUME NEW r \in Runs, NSubscribe(r)
      PROVE  PlaneMoves
  BY <1>17 DEF NSubscribe, NextDown, Flush
<1>18. ASSUME NEW r \in Runs, NAck(r)
      PROVE  PlaneMoves
  BY <1>18 DEF NAck, NextDown
<1>19. ASSUME NEW r \in Runs, NEventAck(r)
      PROVE  PlaneMoves
  BY <1>19 DEF NEventAck, NextDown
<1>20. ASSUME NEW r \in Runs, CCreate(r)
      PROVE  PlaneMoves
  <2>1. \A k \in Runs : cmd'[k] = cmd[k] \/ cmd[k] \in {"queued", "none"}
    BY <1>20 DEF CCreate
  <2> QED
    BY <1>20, <2>1 DEF CCreate
<1>21. ASSUME NEW r \in Runs, CForceClose(r)
      PROVE  PlaneMoves
  BY <1>21 DEF CForceClose
<1>22. ASSUME NEW r \in Runs, NEvent(r)
      PROVE  PlaneMoves
  BY <1>22 DEF NEvent
<1>23. CASE NTick
  BY <1>23 DEF NTick
<1>24. CASE NStorage
  BY <1>24 DEF NStorage, Idle
<1>25. CASE Crash
  BY <1>25 DEF Crash, Idle
<1>26. CASE Connect
  BY <1>26 DEF Connect
<1>27. ASSUME NEW n \in 0..Len(up), Drop(n)
      PROVE  PlaneMoves
  BY <1>27 DEF Drop
<1>28. CASE UNCHANGED vars
  BY <1>28 DEF vars
<1> QED
  BY <1>1, <1>2, <1>3, <1>4, <1>5, <1>6, <1>7, <1>8, <1>9, <1>10, <1>11, <1>12, <1>13,
     <1>14, <1>15, <1>16, <1>17, <1>18, <1>19, <1>20, <1>21, <1>22, <1>23, <1>24,
     <1>25, <1>26, <1>27, <1>28
  DEF Next, PlaneStep, TaskStep, FrameStep, CFrame

\* What the Node does to its cursors, and when it pumps.
LEMMA NodeMovesStep ==
  ASSUME "slow_ack" \notin Hazards,
         TypeInv, [Next]_vars
  PROVE  NodeMoves
<1> USE DEF TypeInv, FlatTypes, PlaneTypes, NodeTypes, TaskTypes, TaskInv, SeqTypes
<1> USE DEF planeVars, sessionVars, netVars, nodeVars, taskVars, counters, NodeMoves
<1>1. ASSUME NEW r \in Runs, CDispatch(r)
      PROVE  NodeMoves
  BY <1>1 DEF Held, CDispatch
<1>2. ASSUME NEW r \in Runs, CSubscribe(r)
      PROVE  NodeMoves
  BY <1>2 DEF Held, CSubscribe
<1>3. ASSUME NEW r \in Runs, CSweep(r)
      PROVE  NodeMoves
  BY <1>3 DEF Held, CSweep
<1>4. ASSUME NEW r \in Runs, CExpire(r)
      PROVE  NodeMoves
  BY <1>4 DEF Held, CExpire
<1>5. ASSUME NEW m \in {Head(q) : q \in {up, late} \ {<< >>}}, NEW live \in BOOLEAN, CAccepted(live, m)
      PROVE  NodeMoves
  BY <1>5 DEF Held, CAccepted, Incoming
<1>6. ASSUME NEW m \in {Head(q) : q \in {up, late} \ {<< >>}}, NEW live \in BOOLEAN, CResult(live, m)
      PROVE  NodeMoves
  BY <1>6 DEF Held, CResult, Incoming, Reply, Complete, Outcome
<1>7. ASSUME NEW m \in {Head(q) : q \in {up, late} \ {<< >>}}, NEW live \in BOOLEAN, CEvent(live, m)
      PROVE  NodeMoves
  BY <1>7 DEF Held, CEvent, Incoming, Reply, HighestContiguous
<1>8. CASE NAccept
  BY <1>8 DEF Held, NAccept, Idle
<1>9. CASE NExecute
  BY <1>9 DEF Held, NExecute
<1>10. CASE NComplete
  BY <1>10 DEF Held, NComplete
<1>11. CASE NEnqueue
  BY <1>11 DEF NEnqueue, Flush, Idle
<1>12. CASE NPump
  BY <1>12 DEF Held, NPump, Idle
<1>13. CASE NFlush
  BY <1>13 DEF Held, NFlush, Flush, Idle
<1>14. ASSUME NEW r \in Runs, NRefuse(r)
      PROVE  NodeMoves
  BY <1>14 DEF Held, NRefuse, NextDown
<1>15. ASSUME NEW r \in Runs, NAdmit(r)
      PROVE  NodeMoves
  BY <1>15 DEF Held, NAdmit, NextDown
<1>16. ASSUME NEW r \in Runs, NDuplicate(r)
      PROVE  NodeMoves
  BY <1>16 DEF NDuplicate, NextDown, Flush
<1>17. ASSUME NEW r \in Runs, NSubscribe(r)
      PROVE  NodeMoves
  BY <1>17 DEF Held, Tasked, NSubscribe, NextDown, Flush
<1>18. ASSUME NEW r \in Runs, NAck(r)
      PROVE  NodeMoves
  BY <1>18 DEF NAck, NextDown
<1>19. ASSUME NEW r \in Runs, NEventAck(r)
      PROVE  NodeMoves
  BY <1>19 DEF Held, NEventAck, NextDown
<1>20. ASSUME NEW r \in Runs, CCreate(r)
      PROVE  NodeMoves
  BY <1>20 DEF Held, CCreate
<1>21. ASSUME NEW r \in Runs, CForceClose(r)
      PROVE  NodeMoves
  BY <1>21 DEF Held, CForceClose
<1>22. ASSUME NEW r \in Runs, NEvent(r)
      PROVE  NodeMoves
  BY <1>22 DEF Held, NEvent
<1>23. CASE NTick
  <2>1. Acknowledged /\ conn
    BY <1>23 DEF NTick
  <2>2. RunsOf(up, "result") = {} /\ RunsOf(down, "ack") = {}
    BY <2>1 DEF Acknowledged, RunsOf
  <2> QED
    BY <1>23, <2>1, <2>2 DEF NTick, Held
<1>24. CASE NStorage
  BY <1>24 DEF Held, NStorage, Idle
<1>25. CASE Crash
  BY <1>25 DEF Held, Crash, Idle
<1>26. CASE Connect
  BY <1>26 DEF Held, Connect
<1>27. ASSUME NEW n \in 0..Len(up), Drop(n)
      PROVE  NodeMoves
  BY <1>27 DEF Held, Drop
<1>28. CASE UNCHANGED vars
  BY <1>28 DEF vars, Held
<1> QED
  BY <1>1, <1>2, <1>3, <1>4, <1>5, <1>6, <1>7, <1>8, <1>9, <1>10, <1>11, <1>12, <1>13,
     <1>14, <1>15, <1>16, <1>17, <1>18, <1>19, <1>20, <1>21, <1>22, <1>23, <1>24,
     <1>25, <1>26, <1>27, <1>28
  DEF Next, PlaneStep, TaskStep, FrameStep, CFrame

\* What is held was sent on this connection, or is acknowledged.
LEMMA ResentStep ==
  ASSUME "storage" \notin Hazards,
         TypeInv, late = << >>, ResentInv, [Next]_vars
  PROVE  conn' => Held' \subseteq RunsOf(up', "result") \union RunsOf(down', "ack")
<1> USE BoundsAssumption
<1> USE DEF TypeInv, FlatTypes, PlaneTypes, NodeTypes, TaskTypes, TaskInv, SeqTypes
<1>m. \A m \in {Head(q) : q \in {up, late} \ {<< >>}} : m.run \in Runs /\ m = Head(up) /\ up # << >>
  BY HeadTailProperties, UpFields
<1>r. conn => Held \subseteq RunsOf(up, "result") \union RunsOf(down, "ack")
  BY DEF ResentInv
<1>a. \A f \in DownFrames : \A t :
        RunsOf(Append(down, f), t) = RunsOf(down, t) \union {k \in Runs : f.type = t /\ f.run = k}
  BY RunsAppend
<1>v. down # << >> =>
        \A t : RunsOf(down, t) \subseteq RunsOf(Tail(down), t) \union {k \in Runs : Head(down).type = t /\ Head(down).run = k}
  BY RunsTail
<1>w. up # << >> =>
        \A t : RunsOf(up, t) \subseteq RunsOf(Tail(up), t) \union {k \in Runs : Head(up).type = t /\ Head(up).run = k}
  BY RunsTail
<1>u. \A s \in Seq(UpFrames) : \A t : RunsOf(up \o s, t) = RunsOf(up, t) \union RunsOf(s, t)
  BY RunsConcat
<1>t. up # << >> => \A t : RunsOf(Tail(up), t) \subseteq RunsOf(up, t)
  BY RunsTail
<1>e. \A t : RunsOf(<< >>, t) = {}
  BY RunsEmpty
<1>f. \A s \in Seq(Answers) : Results(s) \in Seq(UpFrames)
  BY ElementOfSeq, UpFrame, ResultsSeq
<1>s. \A s \in Seq(Answers) : RunsOf(Results(s), "result") = Answering(s) /\ RunsOf(Results(s), "event") = {}
  BY RunsResults
<1> USE <1>r
<1> USE DEF planeVars, sessionVars, netVars, nodeVars, taskVars, counters
<1>1. ASSUME NEW r \in Runs, CDispatch(r)
      PROVE  conn' => Held' \subseteq RunsOf(up', "result") \union RunsOf(down', "ack")
  <2>1. Frame("command", r, "-", 0) \in DownFrames
    BY DownFrame
  <2>2. RunsOf(down, "ack") \subseteq RunsOf(down', "ack")
    BY <1>1, <1>a, <2>1 DEF CDispatch
  <2> QED
    BY <1>1, <2>2 DEF CDispatch, Held
<1>2. ASSUME NEW r \in Runs, CSubscribe(r)
      PROVE  conn' => Held' \subseteq RunsOf(up', "result") \union RunsOf(down', "ack")
  <2>1. Frame("subscribe", r, "-", acked[r]) \in DownFrames
    BY DownFrame
  <2>2. RunsOf(down, "ack") \subseteq RunsOf(down', "ack")
    BY <1>2, <1>a, <2>1 DEF CSubscribe
  <2> QED
    BY <1>2, <2>2 DEF CSubscribe, Held
<1>3. ASSUME NEW r \in Runs, CSweep(r)
      PROVE  conn' => Held' \subseteq RunsOf(up', "result") \union RunsOf(down', "ack")
  BY <1>3 DEF Held, CSweep
<1>4. ASSUME NEW r \in Runs, CExpire(r)
      PROVE  conn' => Held' \subseteq RunsOf(up', "result") \union RunsOf(down', "ack")
  BY <1>4 DEF Held, CExpire
<1>5. ASSUME NEW m \in {Head(q) : q \in {up, late} \ {<< >>}}, NEW live \in BOOLEAN, CAccepted(live, m)
      PROVE  conn' => Held' \subseteq RunsOf(up', "result") \union RunsOf(down', "ack")
  <2>1. up # << >> /\ up' = Tail(up) /\ Head(up).type # "result"
    BY <1>5, <1>m DEF Incoming, CAccepted
  <2>2. RunsOf(up, "result") \subseteq RunsOf(up', "result")
    BY <2>1, <1>w
  <2> QED
    BY <1>5, <2>2 DEF CAccepted, Held
<1>6. ASSUME NEW m \in {Head(q) : q \in {up, late} \ {<< >>}}, NEW live \in BOOLEAN, CResult(live, m)
      PROVE  conn' => Held' \subseteq RunsOf(up', "result") \union RunsOf(down', "ack")
  <2>1. up # << >> /\ up' = Tail(up) /\ m = Head(up) /\ live
    BY <1>6, <1>m DEF Incoming, CResult
  <2>2. RunsOf(up, "result") \subseteq RunsOf(up', "result") \union {m.run}
    BY <2>1, <1>w
  <2>3. Frame("ack", m.run, "-", 0).type = "ack" /\ Frame("ack", m.run, "-", 0).run = m.run
    BY DEF Frame
  <2>r. m.run \in Runs /\ 0 \in 0..NumEvents
    BY <1>m
  <2>4. Frame("ack", m.run, "-", 0) \in DownFrames
    BY <2>r, DownFrame
  <2>5. down' = Append(down, Frame("ack", m.run, "-", 0))
    BY <1>6, <2>1 DEF CResult, Reply
  <2>6. RunsOf(down', "ack") = RunsOf(down, "ack") \union {m.run}
    BY <2>r, <2>3, <2>4, <2>5, <1>a
  <2> QED
    BY <1>6, <2>2, <2>6 DEF CResult, Held
<1>7. ASSUME NEW m \in {Head(q) : q \in {up, late} \ {<< >>}}, NEW live \in BOOLEAN, CEvent(live, m)
      PROVE  conn' => Held' \subseteq RunsOf(up', "result") \union RunsOf(down', "ack")
  <2>1. up # << >> /\ up' = Tail(up) /\ Head(up).type # "result"
    BY <1>7, <1>m DEF Incoming, CEvent
  <2>2. RunsOf(up, "result") \subseteq RunsOf(up', "result")
    BY <2>1, <1>w
  <2>3. PICK n \in 0..NumEvents : Reply(live, Frame("eventack", m.run, "-", n))
    BY <1>7 DEF CEvent
  <2>4. Frame("eventack", m.run, "-", n) \in DownFrames
    BY <1>m, DownFrame
  <2>5. RunsOf(down, "ack") \subseteq RunsOf(down', "ack")
    BY <2>3, <2>4, <1>a DEF Reply
  <2> QED
    BY <1>7, <2>2, <2>5 DEF CEvent, Held
<1>8. CASE NAccept
  <2>1. Frame("accepted", taskRun, "-", 0) \in UpFrames
    BY <1>8, UpFrame DEF NAccept
  <2>2. \A t : RunsOf(up, t) \subseteq RunsOf(Append(up, Frame("accepted", taskRun, "-", 0)), t)
    BY <2>1, RunsAppend
  <2>3. up' = Append(up, Frame("accepted", taskRun, "-", 0)) \/ up' = up
    BY <1>8 DEF NAccept
  <2> QED
    BY <1>8, <2>2, <2>3 DEF NAccept, Held
<1>9. CASE NExecute
  BY <1>9 DEF Held, NExecute
<1>10. CASE NComplete
  BY <1>10 DEF Held, NComplete
<1>11. CASE NEnqueue
  <2> DEFINE entries == Append(outbox, [run |-> taskRun, state |-> answer])
  <2>e. [run |-> taskRun, state |-> answer] \in Answers
    BY <1>11 DEF Answers, NEnqueue
  <2>o. entries \in Seq(Answers)
    BY <2>e, AppendProperties
  <2>1. conn => up' = up \o Results(entries)
    BY <1>11 DEF Flush, NEnqueue
  <2>2. entries \in Seq(Answers) /\ Held' = Answering(entries) /\ conn' = conn
    BY <1>11, <2>o DEF Held, NEnqueue
  <2>3. RunsOf(up \o Results(entries), "result") = RunsOf(up, "result") \union RunsOf(Results(entries), "result")
    BY <1>u, <1>f, <2>2
  <2>4. RunsOf(Results(entries), "result") = Held'
    BY <1>s, <2>2
  <2> QED
    BY <2>1, <2>2, <2>3, <2>4
<1>12. CASE NPump
  <2> DEFINE from == IF cursor[taskRun] = NotSubscribed THEN journal[taskRun] ELSE cursor[taskRun]
  <2> DEFINE news == [i \in 1..(journal[taskRun] - from) |-> Frame("event", taskRun, "-", from + i)]
  <2>1. taskRun \in Runs /\ task = "pump"
    BY <1>12 DEF NPump
  <2>2. from \in 0..NumEvents /\ journal[taskRun] \in 0..NumEvents
    BY <2>1 DEF NotSubscribed
  <2>i. from \in Int /\ journal[taskRun] \in Int
    BY <2>2
  <2>3. \A n \in (from + 1)..journal[taskRun] : n \in Seqs
    BY <2>2 DEF Seqs
  <2>4. \A n \in (from + 1)..journal[taskRun] : Frame("event", taskRun, "-", n) \in UpFrames
    BY <2>1, <2>3, UpFrame
  <2>5. up' = up \/ (conn /\ up' = up \o news)
    BY <1>12 DEF NPump
  <2>6. from < journal[taskRun] => cursor[taskRun] # NotSubscribed
    BY <2>2
  <2> HIDE DEF from
  <2>7. news \in Seq(UpFrames)
    BY ONLY <2>i, <2>4, NewsSeq DEF news
  <2>8. \A t : RunsOf(news, t) \subseteq {k \in Runs : t = "event" /\ k = taskRun /\ from < journal[taskRun]}
    BY <2>1, <2>i, RunsNews
  <2> HIDE DEF news
  <2>9. \A t : RunsOf(up \o news, t) = RunsOf(up, t) \union RunsOf(news, t)
    BY <1>u, <2>7
  <2>10. Held' = Held /\ down' = down /\ conn' = conn
    BY <1>12 DEF NPump, Held
  <2> QED
    BY <2>5, <2>9, <2>10
<1>13. CASE NFlush
  <2>1. conn => up' = up \o Results(outbox)
    BY <1>13 DEF Flush, NFlush
  <2>2. outbox \in Seq(Answers) /\ Held' = Answering(outbox) /\ conn' = conn
    BY <1>13 DEF Held, NFlush
  <2>3. RunsOf(up \o Results(outbox), "result") = RunsOf(up, "result") \union RunsOf(Results(outbox), "result")
    BY <1>u, <1>f, <2>2
  <2>4. RunsOf(Results(outbox), "result") = Held'
    BY <1>s, <2>2
  <2> QED
    BY <2>1, <2>2, <2>3, <2>4
<1>14. ASSUME NEW r \in Runs, NRefuse(r)
      PROVE  conn' => Held' \subseteq RunsOf(up', "result") \union RunsOf(down', "ack")
  <2>1. down # << >> /\ down' = Tail(down) /\ Head(down).type # "ack"
    BY <1>14 DEF NextDown, NRefuse
  <2>2. RunsOf(down, "ack") \subseteq RunsOf(down', "ack")
    BY <2>1, <1>v
  <2> QED
    BY <1>14, <2>2 DEF NRefuse, NextDown, Held
<1>15. ASSUME NEW r \in Runs, NAdmit(r)
      PROVE  conn' => Held' \subseteq RunsOf(up', "result") \union RunsOf(down', "ack")
  <2>1. down # << >> /\ down' = Tail(down) /\ Head(down).type # "ack"
    BY <1>15 DEF NextDown, NAdmit
  <2>2. RunsOf(down, "ack") \subseteq RunsOf(down', "ack")
    BY <2>1, <1>v
  <2> QED
    BY <1>15, <2>2 DEF NAdmit, NextDown, Held
<1>16. ASSUME NEW r \in Runs, NDuplicate(r)
      PROVE  conn' => Held' \subseteq RunsOf(up', "result") \union RunsOf(down', "ack")
  <2> DEFINE entries == Append(outbox, [run |-> r, state |-> inbox[r]])
  <2>e. [run |-> r, state |-> inbox[r]] \in Answers
    BY <1>16 DEF Answers, NDuplicate
  <2>o. entries \in Seq(Answers)
    BY <2>e, AppendProperties
  <2>1. conn => up' = up \o Results(entries)
    BY <1>16 DEF Flush, NDuplicate
  <2>2. entries \in Seq(Answers) /\ Held' = Answering(entries) /\ conn' = conn
    BY <1>16, <2>o DEF Held, NDuplicate
  <2>3. RunsOf(up \o Results(entries), "result") = RunsOf(up, "result") \union RunsOf(Results(entries), "result")
    BY <1>u, <1>f, <2>2
  <2>4. RunsOf(Results(entries), "result") = Held'
    BY <1>s, <2>2
  <2> QED
    BY <2>1, <2>2, <2>3, <2>4
<1>17. ASSUME NEW r \in Runs, NSubscribe(r)
      PROVE  conn' => Held' \subseteq RunsOf(up', "result") \union RunsOf(down', "ack")
  <2>1. conn => up' = up \o Results(outbox)
    BY <1>17 DEF Flush, NSubscribe
  <2>2. outbox \in Seq(Answers) /\ Held' = Answering(outbox) /\ conn' = conn
    BY <1>17 DEF Held, NSubscribe
  <2>3. RunsOf(up \o Results(outbox), "result") = RunsOf(up, "result") \union RunsOf(Results(outbox), "result")
    BY <1>u, <1>f, <2>2
  <2>4. RunsOf(Results(outbox), "result") = Held'
    BY <1>s, <2>2
  <2> QED
    BY <2>1, <2>2, <2>3, <2>4
<1>18. ASSUME NEW r \in Runs, NAck(r)
      PROVE  conn' => Held' \subseteq RunsOf(up', "result") \union RunsOf(down', "ack")
  <2>1. down # << >> /\ down' = Tail(down) /\ Head(down).run = r /\ up' = up /\ conn
    BY <1>18 DEF NextDown, NAck
  <2>2. RunsOf(down, "ack") \subseteq RunsOf(down', "ack") \union {r}
    BY <2>1, <1>v
  <2>3. Held' = Held \ {r}
    BY <1>18, HeldAck
  <2> QED
    BY <2>1, <2>2, <2>3
<1>19. ASSUME NEW r \in Runs, NEventAck(r)
      PROVE  conn' => Held' \subseteq RunsOf(up', "result") \union RunsOf(down', "ack")
  <2>1. down # << >> /\ down' = Tail(down) /\ Head(down).type # "ack"
    BY <1>19 DEF NextDown, NEventAck
  <2>2. RunsOf(down, "ack") \subseteq RunsOf(down', "ack")
    BY <2>1, <1>v
  <2> QED
    BY <1>19, <2>2 DEF NEventAck, NextDown, Held
<1>20. ASSUME NEW r \in Runs, CCreate(r)
      PROVE  conn' => Held' \subseteq RunsOf(up', "result") \union RunsOf(down', "ack")
  BY <1>20 DEF Held, CCreate
<1>21. ASSUME NEW r \in Runs, CForceClose(r)
      PROVE  conn' => Held' \subseteq RunsOf(up', "result") \union RunsOf(down', "ack")
  BY <1>21 DEF Held, CForceClose
<1>22. ASSUME NEW r \in Runs, NEvent(r)
      PROVE  conn' => Held' \subseteq RunsOf(up', "result") \union RunsOf(down', "ack")
  BY <1>22 DEF Held, NEvent
<1>23. CASE NTick
  BY <1>23 DEF Held, NTick
<1>24. CASE NStorage
  BY <1>24 DEF Held, NStorage, Idle
<1>25. CASE Crash
  BY <1>25 DEF Crash, Idle
<1>26. CASE Connect
  BY <1>26, <1>s DEF Connect, Held
<1>27. ASSUME NEW n \in 0..Len(up), Drop(n)
      PROVE  conn' => Held' \subseteq RunsOf(up', "result") \union RunsOf(down', "ack")
  BY <1>27 DEF Drop
<1>28. CASE UNCHANGED vars
  BY <1>28 DEF vars, Held
<1> QED
  BY <1>1, <1>2, <1>3, <1>4, <1>5, <1>6, <1>7, <1>8, <1>9, <1>10, <1>11, <1>12, <1>13,
     <1>14, <1>15, <1>16, <1>17, <1>18, <1>19, <1>20, <1>21, <1>22, <1>23, <1>24,
     <1>25, <1>26, <1>27, <1>28
  DEF Next, PlaneStep, TaskStep, FrameStep, CFrame

\* What is silent stays so, once the command was sent for the last time.
LEMMA SilentStays ==
  ASSUME TypeInv, [Next]_vars, NEW r \in Runs, Silent(r), cmd[r] # "queued"
  PROVE  Silent(r)'
<1>1. NewDown /\ NewUp /\ NewHeld
  BY DownStep, UpStep, HeldStep
<1>2. r \notin RunsOf(down', "command")
  BY <1>1 DEF NewDown, Silent
<1>3. ~Tasked(r)' /\ r \notin Held'
  BY <1>1 DEF NewHeld, Silent
<1>4. r \notin RunsOf(up', "result")
  BY <1>1, <1>3 DEF NewUp, Silent
<1> QED
  BY <1>2, <1>3, <1>4 DEF Silent

\* DeliveredInv is inductive.
LEMMA DeliveredStep ==
  ASSUME TypeInv, DeliveredInv, [Next]_vars, NodeMoves, PlaneMoves
  PROVE  DeliveredInv'
<1>1. NewDown /\ NewHeld
  BY DownStep, HeldStep
<1>2. \A k \in Runs : cmd[k] \in Settled => cmd'[k] \in Settled /\ cmd[k] # "queued"
  BY SettledStays DEF Settled
<1>3. Ordered(down')
  BY OrderStep
<1>4. ASSUME NEW k \in Runs, cursor'[k] # NotSubscribed
      PROVE  Delivered(k)'
  <2>1. CASE cursor[k] # NotSubscribed
    <3>1. Delivered(k)
      BY <2>1 DEF DeliveredInv
    <3> QED
      BY <1>1, <1>2, <3>1 DEF NewDown, NewHeld, Delivered
  <2>2. CASE cursor[k] = NotSubscribed
    <3>1. /\ down # << >> /\ Head(down).type = "subscribe" /\ Head(down).run = k
          /\ down' = Tail(down) /\ ~Tasked(k)'
      BY <1>4, <2>2 DEF NodeMoves
    <3>2. down \in Seq(DownFrames)
      BY DEF TypeInv, SeqTypes
    <3>3. k \in RunsOf(down, "subscribe")
      BY <3>1, <3>2, RunsTail
    <3>4. k \notin RunsOf(Tail(down), "command")
      BY <3>1, <3>2, OrderedTail DEF DeliveredInv
    <3> QED
      BY <1>2, <3>1, <3>3, <3>4 DEF DeliveredInv, Delivered
  <2> QED
    BY <2>1, <2>2
<1>5. ASSUME NEW k \in Runs, attached'[k] \/ k \in RunsOf(down', "subscribe")
      PROVE  cmd'[k] \in Settled
  BY <1>1, <1>2, <1>5 DEF DeliveredInv, PlaneMoves, NewDown
<1> QED
  BY <1>3, <1>4, <1>5 DEF DeliveredInv

\* Nothing is held while the pump runs.
LEMMA PumpStep ==
  ASSUME TypeInv, ResentInv, [Next]_vars, NodeMoves, conn', task' = "pump"
  PROVE  Held' = {} /\ RunsOf(up', "result") = {}
<1>1. conn /\ Held' = Held
  BY DEF NodeMoves
<1>2. CASE task = "pump"
  <2>1. Held' = {} /\ RunsOf(up, "result") = {}
    BY <1>1, <1>2 DEF ResentInv
  <2>2. NewUp
    BY UpStep
  <2> QED
    BY <2>1, <2>2 DEF NewUp
<1>3. CASE task # "pump"
  BY <1>1, <1>3 DEF NodeMoves, ResentInv
<1> QED
  BY <1>2, <1>3

\* OverInv is inductive.
LEMMA OverStep ==
  ASSUME TypeInv, LastWordInv, [Next]_vars, PlaneMoves
  PROVE  OverInv'
<1>1. NewUp
  BY UpStep
<1>2. \A k \in Runs : cmd[k] \in Settled => cmd'[k] \in Settled /\ cmd[k] # "queued"
  BY SettledStays DEF Settled
<1>3. ASSUME NEW k \in Runs, cmd[k] \in Settled, Silent(k)
      PROVE  cmd'[k] \in Settled /\ Silent(k)'
  BY <1>2, <1>3, SilentStays
<1>4. ASSUME NEW k \in Runs, crun'[k] = "completed" \/ k \in RunsOf(up', "event")
      PROVE  cmd'[k] \in Settled /\ Silent(k)'
  <2>1. CASE crun[k] = "completed" \/ k \in RunsOf(up, "event")
    BY <1>3, <2>1 DEF LastWordInv, OverInv
  <2>2. CASE ~(crun[k] = "completed" \/ k \in RunsOf(up, "event"))
    <3>1. conn /\ task = "pump" /\ cursor[k] # NotSubscribed
      BY <1>1, <1>4, <2>2 DEF NewUp, PlaneMoves
    <3>2. cmd[k] \in Settled /\ Silent(k)
      BY <3>1 DEF LastWordInv, DeliveredInv, ResentInv, Delivered, Silent
    <3> QED
      BY <1>3, <3>2
  <2> QED
    BY <2>1, <2>2
<1>5. ASSUME NEW k \in stale'
      PROVE  cmd'[k] \in {"dispatched", "accepted"} /\ Silent(k)'
  <2>1. k \in Runs
    <3>1. TypeInv'
      BY FlatStep, SeqStep, TaskStepInv DEF TypeInv
    <3> QED
      BY <3>1 DEF TypeInv, FlatTypes, PlaneTypes
  <2>2. cmd[k] \in {"dispatched", "accepted"} /\ Silent(k)
    BY DEF LastWordInv, OverInv, PlaneMoves
  <2>3. cmd'[k] \in {"dispatched", "accepted"}
    BY <2>2 DEF PlaneMoves, Silent
  <2> QED
    BY <2>1, <2>2, <2>3, SilentStays
<1> QED
  BY <1>4, <1>5 DEF OverInv

\* A run whose end was reported is never shown otherwise again: on the way and
\* in the outbox no result comes behind an event of its run, through drops,
\* crashes and repeated commands.
THEOREM EndsStick ==
  ASSUME "slow_ack" \notin Hazards, "late_frames" \notin Hazards,
         "slow" \notin Hazards, "storage" \notin Hazards
  PROVE  Spec => EndSticks
<1>1. Init => LastWordInv
  BY RunsEmpty DEF Init, LastWordInv, DeliveredInv, ResentInv, OverInv, Ordered, Held, Answering
<1>2. TypeInv /\ LastWordInv /\ [Next]_vars => LastWordInv' /\ PlaneMoves
  <2> SUFFICES ASSUME TypeInv, LastWordInv, [Next]_vars
               PROVE  LastWordInv' /\ PlaneMoves
    OBVIOUS
  <2>1. PlaneMoves /\ NodeMoves /\ late' = << >>
    BY PlaneMovesStep, NodeMovesStep, LateStep DEF LastWordInv
  <2>2. DeliveredInv' /\ OverInv'
    BY <2>1, DeliveredStep, OverStep DEF LastWordInv
  <2>3. ResentInv'
    BY <2>1, ResentStep, PumpStep DEF LastWordInv, ResentInv
  <2> QED
    BY <2>1, <2>2, <2>3 DEF LastWordInv
<1>3. LastWordInv /\ PlaneMoves => \A r \in Runs : crun[r] = "completed" => crun'[r] = "completed"
  BY DEF LastWordInv, OverInv, PlaneMoves, Silent, Settled
<1>4. TypeInv /\ LastWordInv /\ [Next]_vars
        => [\A r \in Runs : crun[r] = "completed" => crun'[r] = "completed"]_vars
  BY <1>2, <1>3
<1> QED
  BY <1>1, <1>2, <1>4, TypeInvariant, PTL DEF Spec, EndSticks

-----------------------------------------------------------------------------
(* The channel implements RemoteRuns.                                      *)

\* What is on its way goes back to somebody's asking: answers and commands are
\* about runs that were asked for, events were recorded.
AskedEntries == {e \in Answers : cmd[e.run] # "none"}
HonestFrames ==
  {f \in UpFrames : /\ f.type = "result" => cmd[f.run] # "none"
                    /\ f.type = "event" => f.seq <= journal[f.run]}
HonestInv ==
  outbox \in Seq(AskedEntries) /\ up \in Seq(HonestFrames) /\ late \in Seq(HonestFrames)

AskedFrames == {f \in DownFrames : f.type = "command" => cmd[f.run] # "none"}
AskedInv ==
  /\ \A r \in Runs : inbox[r] # "none" => cmd[r] # "none"
  /\ down \in Seq(AskedFrames)

\* A journal begins with the effect, and the session loop answers completed
\* after it.
EffectInv ==
  /\ \A r \in Runs : executions[r] = 0 => journal[r] = 0
  /\ task = "complete" /\ answer = "completed" => executions[taskRun] = 1

RemoteInv ==
  /\ TypeInv /\ OnceInv /\ ProgressInv /\ TrueAnswers /\ StoredPrefixes
  /\ HonestInv /\ AskedInv /\ EffectInv

\* A command once asked for stays asked for, and journals grow.
LEMMA RowsGrow ==
  TypeInv /\ [Next]_vars => \A k \in Runs : (cmd[k] # "none" => cmd'[k] # "none") /\ journal[k] <= journal'[k]
<1> SUFFICES ASSUME TypeInv, [Next]_vars
             PROVE  \A k \in Runs : (cmd[k] # "none" => cmd'[k] # "none") /\ journal[k] <= journal'[k]
  OBVIOUS
<1> USE BoundsAssumption DEF TypeInv, FlatTypes, PlaneTypes, NodeTypes, TaskInv
<1>m. \A m \in {Head(q) : q \in {up, late} \ {<< >>}} : m.run \in Runs
  BY HeadTailProperties, UpFields DEF SeqTypes
<1> USE DEF planeVars, sessionVars, netVars, nodeVars, taskVars, counters, Settled
<1>1. ASSUME NEW r \in Runs, CDispatch(r)
      PROVE  \A k \in Runs : (cmd[k] # "none" => cmd'[k] # "none") /\ journal[k] <= journal'[k]
  BY <1>1 DEF CDispatch
<1>2. ASSUME NEW r \in Runs, CSubscribe(r)
      PROVE  \A k \in Runs : (cmd[k] # "none" => cmd'[k] # "none") /\ journal[k] <= journal'[k]
  BY <1>2 DEF CSubscribe
<1>3. ASSUME NEW r \in Runs, CSweep(r)
      PROVE  \A k \in Runs : (cmd[k] # "none" => cmd'[k] # "none") /\ journal[k] <= journal'[k]
  BY <1>3 DEF CSweep
<1>4. ASSUME NEW r \in Runs, CExpire(r)
      PROVE  \A k \in Runs : (cmd[k] # "none" => cmd'[k] # "none") /\ journal[k] <= journal'[k]
  BY <1>4 DEF CExpire
<1>5. ASSUME NEW m \in {Head(q) : q \in {up, late} \ {<< >>}}, NEW live \in BOOLEAN, CAccepted(live, m)
      PROVE  \A k \in Runs : (cmd[k] # "none" => cmd'[k] # "none") /\ journal[k] <= journal'[k]
  BY <1>5 DEF CAccepted, Incoming
<1>6. ASSUME NEW m \in {Head(q) : q \in {up, late} \ {<< >>}}, NEW live \in BOOLEAN, CResult(live, m)
      PROVE  \A k \in Runs : (cmd[k] # "none" => cmd'[k] # "none") /\ journal[k] <= journal'[k]
  BY <1>6 DEF CResult, Incoming, Reply, Complete, Outcome
<1>7. ASSUME NEW m \in {Head(q) : q \in {up, late} \ {<< >>}}, NEW live \in BOOLEAN, CEvent(live, m)
      PROVE  \A k \in Runs : (cmd[k] # "none" => cmd'[k] # "none") /\ journal[k] <= journal'[k]
  BY <1>7 DEF CEvent, Incoming, Reply, HighestContiguous
<1>8. CASE NAccept
  BY <1>8 DEF NAccept, Idle
<1>9. CASE NExecute
  <2>1. taskRun \in Runs /\ journal[taskRun] \in 0..NumEvents /\ cmd' = cmd
    BY <1>9 DEF NExecute
  <2>2. journal' = journal \/ journal' = [journal EXCEPT ![taskRun] = IF @ = 0 THEN 1 ELSE @]
    BY <1>9 DEF NExecute
  <2>3. \A k \in Runs : journal'[k] = journal[k] \/ (journal[k] = 0 /\ journal'[k] = 1)
    BY <2>1, <2>2
  <2>4. \A k \in Runs : journal[k] \in Int
    OBVIOUS
  <2>5. \A k \in Runs : journal[k] <= journal'[k]
    BY ONLY <2>3, <2>4
  <2> QED
    BY ONLY <2>1, <2>5
<1>10. CASE NComplete
  BY <1>10 DEF NComplete
<1>11. CASE NEnqueue
  BY <1>11 DEF NEnqueue, Flush, Idle
<1>12. CASE NPump
  BY <1>12 DEF NPump, Idle
<1>13. CASE NFlush
  BY <1>13 DEF NFlush, Flush, Idle
<1>14. ASSUME NEW r \in Runs, NRefuse(r)
      PROVE  \A k \in Runs : (cmd[k] # "none" => cmd'[k] # "none") /\ journal[k] <= journal'[k]
  BY <1>14 DEF NRefuse, NextDown
<1>15. ASSUME NEW r \in Runs, NAdmit(r)
      PROVE  \A k \in Runs : (cmd[k] # "none" => cmd'[k] # "none") /\ journal[k] <= journal'[k]
  BY <1>15 DEF NAdmit, NextDown
<1>16. ASSUME NEW r \in Runs, NDuplicate(r)
      PROVE  \A k \in Runs : (cmd[k] # "none" => cmd'[k] # "none") /\ journal[k] <= journal'[k]
  BY <1>16 DEF NDuplicate, NextDown, Flush
<1>17. ASSUME NEW r \in Runs, NSubscribe(r)
      PROVE  \A k \in Runs : (cmd[k] # "none" => cmd'[k] # "none") /\ journal[k] <= journal'[k]
  BY <1>17 DEF NSubscribe, NextDown, Flush
<1>18. ASSUME NEW r \in Runs, NAck(r)
      PROVE  \A k \in Runs : (cmd[k] # "none" => cmd'[k] # "none") /\ journal[k] <= journal'[k]
  BY <1>18 DEF NAck, NextDown
<1>19. ASSUME NEW r \in Runs, NEventAck(r)
      PROVE  \A k \in Runs : (cmd[k] # "none" => cmd'[k] # "none") /\ journal[k] <= journal'[k]
  BY <1>19 DEF NEventAck, NextDown
<1>20. ASSUME NEW r \in Runs, CCreate(r)
      PROVE  \A k \in Runs : (cmd[k] # "none" => cmd'[k] # "none") /\ journal[k] <= journal'[k]
  BY <1>20 DEF CCreate
<1>21. ASSUME NEW r \in Runs, CForceClose(r)
      PROVE  \A k \in Runs : (cmd[k] # "none" => cmd'[k] # "none") /\ journal[k] <= journal'[k]
  BY <1>21 DEF CForceClose
<1>22. ASSUME NEW r \in Runs, NEvent(r)
      PROVE  \A k \in Runs : (cmd[k] # "none" => cmd'[k] # "none") /\ journal[k] <= journal'[k]
  BY <1>22 DEF NEvent
<1>23. CASE NTick
  BY <1>23 DEF NTick
<1>24. CASE NStorage
  BY <1>24 DEF NStorage, Idle
<1>25. CASE Crash
  BY <1>25 DEF Crash, Idle
<1>26. CASE Connect
  BY <1>26 DEF Connect
<1>27. ASSUME NEW n \in 0..Len(up), Drop(n)
      PROVE  \A k \in Runs : (cmd[k] # "none" => cmd'[k] # "none") /\ journal[k] <= journal'[k]
  BY <1>27 DEF Drop
<1>28. CASE UNCHANGED vars
  BY <1>28 DEF vars
<1> QED
  BY <1>1, <1>2, <1>3, <1>4, <1>5, <1>6, <1>7, <1>8, <1>9, <1>10, <1>11, <1>12, <1>13,
     <1>14, <1>15, <1>16, <1>17, <1>18, <1>19, <1>20, <1>21, <1>22, <1>23, <1>24,
     <1>25, <1>26, <1>27, <1>28
  DEF Next, PlaneStep, TaskStep, FrameStep, CFrame

\* HonestInv is inductive.
LEMMA HonestStep ==
  TypeInv /\ ProgressInv /\ AskedInv /\ HonestInv /\ [Next]_vars => HonestInv'
<1> SUFFICES ASSUME TypeInv, ProgressInv, AskedInv, HonestInv, [Next]_vars
             PROVE  HonestInv'
  OBVIOUS
<1> USE DEF TypeInv, FlatTypes, NodeTypes, TaskTypes, TaskInv
<1>s. \A k \in Runs : (cmd[k] # "none" => cmd'[k] # "none") /\ journal[k] <= journal'[k]
  BY RowsGrow
<1>j. \A k \in Runs : journal[k] \in 0..NumEvents /\ journal'[k] \in 0..NumEvents
  BY FlatStep
<1>t. AskedEntries \subseteq AskedEntries' /\ HonestFrames \subseteq HonestFrames'
  <2>1. AskedEntries \subseteq AskedEntries'
    BY <1>s DEF AskedEntries, Answers
  <2>2. ASSUME NEW f \in HonestFrames
        PROVE  f \in HonestFrames'
    <3>1. f \in UpFrames
      BY DEF HonestFrames
    <3>2. f.run \in Runs /\ (f.type = "event" => f.seq \in Seqs)
      BY <3>1, UpFields
    <3>3. f.type = "event" => f.seq <= journal'[f.run]
      BY <1>s, <1>j, <3>2, BoundsAssumption DEF HonestFrames, Seqs
    <3> QED
      BY <1>s, <3>1, <3>2, <3>3 DEF HonestFrames
  <2> QED
    BY <2>1, <2>2
<1>q. outbox \in Seq(AskedEntries') /\ up \in Seq(HonestFrames') /\ late \in Seq(HonestFrames')
  BY <1>t, SeqMonotonic DEF HonestInv
<1>h. /\ up # << >> => Tail(up) \in Seq(HonestFrames')
      /\ late # << >> => Tail(late) \in Seq(HonestFrames')
  BY <1>q, HeadTailProperties
<1>c. \A s \in Seq(HonestFrames') : up \o s \in Seq(HonestFrames')
  BY <1>q, ConcatProperties
<1>f. \A s \in Seq(AskedEntries') : Results(s) \in Seq(HonestFrames')
  <2> SUFFICES ASSUME NEW s \in Seq(AskedEntries')
               PROVE  Results(s) \in Seq(HonestFrames')
    OBVIOUS
  <2>1. AskedEntries' \subseteq Answers
    BY DEF AskedEntries
  <2>2. s \in Seq(Answers)
    BY <2>1, SeqMonotonic
  <2>3. ASSUME NEW e \in AskedEntries'
        PROVE  Frame("result", e.run, e.state, 0) \in HonestFrames'
    <3> DEFINE f == Frame("result", e.run, e.state, 0)
    <3>1. e \in Answers /\ cmd'[e.run] # "none"
      BY DEF AskedEntries
    <3>2. f \in UpFrames
      BY <3>1, UpFrame
    <3>3. f.type = "result" /\ f.run = e.run
      BY DEF Frame
    <3> HIDE DEF f
    <3>4. f \in HonestFrames'
      BY <3>1, <3>2, <3>3 DEF HonestFrames
    <3> QED
      BY <3>4 DEF f
  <2>4. \A i \in 1..Len(s) : Frame("result", s[i].run, s[i].state, 0) \in HonestFrames'
    BY <2>3, ElementOfSeq
  <2> QED
    BY <2>2, <2>4, ResultsSeq
<1> USE DEF planeVars, sessionVars, netVars, nodeVars, taskVars, counters
<1>1. ASSUME NEW r \in Runs, CDispatch(r)
      PROVE  HonestInv'
  BY <1>1, <1>q DEF HonestInv, CDispatch
<1>2. ASSUME NEW r \in Runs, CSubscribe(r)
      PROVE  HonestInv'
  BY <1>2, <1>q DEF HonestInv, CSubscribe
<1>3. ASSUME NEW r \in Runs, CSweep(r)
      PROVE  HonestInv'
  BY <1>3, <1>q DEF HonestInv, CSweep
<1>4. ASSUME NEW r \in Runs, CExpire(r)
      PROVE  HonestInv'
  BY <1>4, <1>q DEF HonestInv, CExpire
<1>5. ASSUME NEW m \in {Head(q) : q \in {up, late} \ {<< >>}}, NEW live \in BOOLEAN, CAccepted(live, m)
      PROVE  HonestInv'
  <2>i. up' = up \/ (up # << >> /\ up' = Tail(up))
    BY <1>5 DEF Incoming, CAccepted
  <2>j. late' = late \/ (late # << >> /\ late' = Tail(late))
    BY <1>5 DEF Incoming, CAccepted
  <2>1. outbox' \in Seq(AskedEntries')
    BY <1>5, <1>q DEF CAccepted, Incoming
  <2>2. up' \in Seq(HonestFrames')
    BY <1>h, <1>q, <2>i
  <2>3. late' \in Seq(HonestFrames')
    BY <1>h, <1>q, <2>j
  <2> QED
    BY <2>1, <2>2, <2>3 DEF HonestInv
<1>6. ASSUME NEW m \in {Head(q) : q \in {up, late} \ {<< >>}}, NEW live \in BOOLEAN, CResult(live, m)
      PROVE  HonestInv'
  <2>i. up' = up \/ (up # << >> /\ up' = Tail(up))
    BY <1>6 DEF Incoming, CResult
  <2>j. late' = late \/ (late # << >> /\ late' = Tail(late))
    BY <1>6 DEF Incoming, CResult
  <2>1. outbox' \in Seq(AskedEntries')
    BY <1>6, <1>q DEF CResult, Incoming, Reply, Complete, Outcome
  <2>2. up' \in Seq(HonestFrames')
    BY <1>h, <1>q, <2>i
  <2>3. late' \in Seq(HonestFrames')
    BY <1>h, <1>q, <2>j
  <2> QED
    BY <2>1, <2>2, <2>3 DEF HonestInv
<1>7. ASSUME NEW m \in {Head(q) : q \in {up, late} \ {<< >>}}, NEW live \in BOOLEAN, CEvent(live, m)
      PROVE  HonestInv'
  <2>i. up' = up \/ (up # << >> /\ up' = Tail(up))
    BY <1>7 DEF Incoming, CEvent
  <2>j. late' = late \/ (late # << >> /\ late' = Tail(late))
    BY <1>7 DEF Incoming, CEvent
  <2>1. outbox' \in Seq(AskedEntries')
    BY <1>7, <1>q DEF CEvent, Incoming, Reply, HighestContiguous
  <2>2. up' \in Seq(HonestFrames')
    BY <1>h, <1>q, <2>i
  <2>3. late' \in Seq(HonestFrames')
    BY <1>h, <1>q, <2>j
  <2> QED
    BY <2>1, <2>2, <2>3 DEF HonestInv
<1>8. CASE NAccept
  <2>1. outbox' \in Seq(AskedEntries')
    BY <1>8, <1>q DEF NAccept, Idle
  <2>2. up' \in Seq(HonestFrames')
    <3>1. Frame("accepted", taskRun, "-", 0) \in UpFrames
      BY <1>8, UpFrame DEF NAccept
    <3>2. Frame("accepted", taskRun, "-", 0) \in HonestFrames'
      BY <3>1 DEF HonestFrames, Frame
    <3>3. Append(up, Frame("accepted", taskRun, "-", 0)) \in Seq(HonestFrames')
      BY <3>2, <1>q, AppendProperties
    <3>4. up' = Append(up, Frame("accepted", taskRun, "-", 0)) \/ up' = up
      BY <1>8 DEF NAccept
    <3> QED
      BY <3>3, <3>4, <1>q
  <2>3. late' \in Seq(HonestFrames')
    BY <1>8, <1>q DEF NAccept, Idle
  <2> QED
    BY <2>1, <2>2, <2>3 DEF HonestInv
<1>9. CASE NExecute
  BY <1>9, <1>q DEF HonestInv, NExecute
<1>10. CASE NComplete
  BY <1>10, <1>q DEF HonestInv, NComplete
<1>11. CASE NEnqueue
  <2> DEFINE entries == Append(outbox, [run |-> taskRun, state |-> answer])
  <2>e. [run |-> taskRun, state |-> answer] \in Answers
    BY <1>11 DEF Answers, NEnqueue
  <2>t. [run |-> taskRun, state |-> answer] \in AskedEntries'
    BY <1>11, <2>e, <1>s DEF AskedEntries, AskedInv, ProgressInv, NEnqueue
  <2>o. entries \in Seq(AskedEntries')
    BY <2>t, <1>q, AppendProperties
  <2>f. Results(entries) \in Seq(HonestFrames')
    BY <2>o, <1>f
  <2>1. outbox' \in Seq(AskedEntries')
    BY <1>11, <2>o DEF NEnqueue
  <2>2. up' \in Seq(HonestFrames')
    <3>1. up' = up \/ up' = up \o Results(entries)
      BY <1>11 DEF Flush, NEnqueue
    <3> QED
      BY <3>1, <2>f, <1>q, <1>c
  <2>3. late' \in Seq(HonestFrames')
    BY <1>11, <1>q DEF NEnqueue, Flush, Idle
  <2> QED
    BY <2>1, <2>2, <2>3 DEF HonestInv
<1>12. CASE NPump
  <2>1. outbox' \in Seq(AskedEntries')
    BY <1>12, <1>q DEF NPump, Idle
  <2>2. up' \in Seq(HonestFrames')
    <3> DEFINE from == IF cursor[taskRun] = NotSubscribed THEN journal[taskRun] ELSE cursor[taskRun]
    <3> DEFINE news == [i \in 1..(journal[taskRun] - from) |-> Frame("event", taskRun, "-", from + i)]
    <3>1. taskRun \in Runs
      BY <1>12 DEF NPump
    <3>2. from \in 0..NumEvents /\ journal[taskRun] \in 0..NumEvents
      BY <3>1 DEF NotSubscribed
    <3>3. \A n \in (from + 1)..journal[taskRun] : n \in Seqs
      BY BoundsAssumption, <3>2 DEF Seqs
    <3>4. \A n \in (from + 1)..journal[taskRun] : Frame("event", taskRun, "-", n) \in HonestFrames'
      <4> SUFFICES ASSUME NEW n \in (from + 1)..journal[taskRun]
                   PROVE  Frame("event", taskRun, "-", n) \in HonestFrames'
        OBVIOUS
      <4>1. Frame("event", taskRun, "-", n) \in UpFrames
        BY <3>1, <3>3, UpFrame
      <4>2. n <= journal'[taskRun]
        BY <1>s, <1>j, <3>1, <3>2, BoundsAssumption
      <4> QED
        BY <4>1, <4>2 DEF HonestFrames, Frame
    <3>i. from \in Int /\ journal[taskRun] \in Int
      BY BoundsAssumption, <3>2
    <3> HIDE DEF from
    <3>5. news \in Seq(HonestFrames')
      BY <3>i, <3>3, <3>4, NewsSeq
    <3>6. up' = up \o news \/ up' = up
      BY <1>12 DEF NPump, from
    <3> QED
      BY <3>5, <3>6, <1>q, <1>c
  <2>3. late' \in Seq(HonestFrames')
    BY <1>12, <1>q DEF NPump, Idle
  <2> QED
    BY <2>1, <2>2, <2>3 DEF HonestInv
<1>13. CASE NFlush
  <2>1. outbox' \in Seq(AskedEntries')
    BY <1>13, <1>q DEF NFlush, Flush, Idle
  <2>2. up' \in Seq(HonestFrames')
    <3>1. up' = up \/ up' = up \o Results(outbox)
      BY <1>13 DEF Flush, NFlush
    <3> QED
      BY <3>1, <1>f, <1>q, <1>c
  <2>3. late' \in Seq(HonestFrames')
    BY <1>13, <1>q DEF NFlush, Flush, Idle
  <2> QED
    BY <2>1, <2>2, <2>3 DEF HonestInv
<1>14. ASSUME NEW r \in Runs, NRefuse(r)
      PROVE  HonestInv'
  BY <1>14, <1>q DEF HonestInv, NRefuse, NextDown
<1>15. ASSUME NEW r \in Runs, NAdmit(r)
      PROVE  HonestInv'
  BY <1>15, <1>q DEF HonestInv, NAdmit, NextDown
<1>16. ASSUME NEW r \in Runs, NDuplicate(r)
      PROVE  HonestInv'
  <2> DEFINE entries == Append(outbox, [run |-> r, state |-> inbox[r]])
  <2>e. [run |-> r, state |-> inbox[r]] \in Answers
    BY <1>16 DEF Answers, NDuplicate
  <2>t. [run |-> r, state |-> inbox[r]] \in AskedEntries'
    BY <1>16, <2>e, <1>s DEF AskedEntries, AskedInv, NDuplicate
  <2>o. entries \in Seq(AskedEntries')
    BY <2>t, <1>q, AppendProperties
  <2>f. Results(entries) \in Seq(HonestFrames')
    BY <2>o, <1>f
  <2>1. outbox' \in Seq(AskedEntries')
    BY <1>16, <2>o DEF NDuplicate
  <2>2. up' \in Seq(HonestFrames')
    <3>1. up' = up \/ up' = up \o Results(entries)
      BY <1>16 DEF Flush, NDuplicate
    <3> QED
      BY <3>1, <2>f, <1>q, <1>c
  <2>3. late' \in Seq(HonestFrames')
    BY <1>16, <1>q DEF NDuplicate, NextDown, Flush
  <2> QED
    BY <2>1, <2>2, <2>3 DEF HonestInv
<1>17. ASSUME NEW r \in Runs, NSubscribe(r)
      PROVE  HonestInv'
  <2>1. outbox' \in Seq(AskedEntries')
    BY <1>17, <1>q DEF NSubscribe, NextDown, Flush
  <2>2. up' \in Seq(HonestFrames')
    <3>1. up' = up \/ up' = up \o Results(outbox)
      BY <1>17 DEF Flush, NSubscribe
    <3> QED
      BY <3>1, <1>f, <1>q, <1>c
  <2>3. late' \in Seq(HonestFrames')
    BY <1>17, <1>q DEF NSubscribe, NextDown, Flush
  <2> QED
    BY <2>1, <2>2, <2>3 DEF HonestInv
<1>18. ASSUME NEW r \in Runs, NAck(r)
      PROVE  HonestInv'
  <2>1. outbox' \in Seq(AskedEntries')
    BY <1>18, <1>q, AckSeq
  <2>2. up' \in Seq(HonestFrames')
    BY <1>18, <1>q DEF NAck, NextDown
  <2>3. late' \in Seq(HonestFrames')
    BY <1>18, <1>q DEF NAck, NextDown
  <2> QED
    BY <2>1, <2>2, <2>3 DEF HonestInv
<1>19. ASSUME NEW r \in Runs, NEventAck(r)
      PROVE  HonestInv'
  BY <1>19, <1>q DEF HonestInv, NEventAck, NextDown
<1>20. ASSUME NEW r \in Runs, CCreate(r)
      PROVE  HonestInv'
  BY <1>20, <1>q DEF HonestInv, CCreate
<1>21. ASSUME NEW r \in Runs, CForceClose(r)
      PROVE  HonestInv'
  BY <1>21, <1>q DEF HonestInv, CForceClose
<1>22. ASSUME NEW r \in Runs, NEvent(r)
      PROVE  HonestInv'
  BY <1>22, <1>q DEF HonestInv, NEvent
<1>23. CASE NTick
  BY <1>23, <1>q DEF HonestInv, NTick
<1>24. CASE NStorage
  BY <1>24, <1>q DEF HonestInv, NStorage, Idle
<1>25. CASE Crash
  <2>1. outbox' \in Seq(AskedEntries')
    BY <1>25, <1>q DEF Crash, Idle
  <2>2. up' \in Seq(HonestFrames')
    BY <1>25, EmptySeq DEF Crash
  <2>3. late' \in Seq(HonestFrames')
    BY <1>25, <1>q DEF Crash, Idle
  <2> QED
    BY <2>1, <2>2, <2>3 DEF HonestInv
<1>26. CASE Connect
  <2>1. outbox' \in Seq(AskedEntries')
    BY <1>26, <1>q DEF Connect
  <2>2. up' \in Seq(HonestFrames')
    BY <1>26, <1>q, <1>f DEF Connect
  <2>3. late' \in Seq(HonestFrames')
    BY <1>26, <1>q DEF Connect
  <2> QED
    BY <2>1, <2>2, <2>3 DEF HonestInv
<1>27. ASSUME NEW n \in 0..Len(up), Drop(n)
      PROVE  HonestInv'
  <2>1. outbox' \in Seq(AskedEntries')
    BY <1>27, <1>q DEF Drop
  <2>2. up' \in Seq(HonestFrames')
    BY <1>27, EmptySeq DEF Drop
  <2>3. late' \in Seq(HonestFrames')
    <3>1. \A i \in 1..n : up[i] \in HonestFrames'
      BY <1>q, ElementOfSeq, LenProperties
    <3>2. SubSeq(up, 1, n) \in Seq(HonestFrames')
      BY <1>q, <3>1, SubSeqProperties, LenProperties
    <3> QED
      BY <1>27, <3>2 DEF Drop
  <2> QED
    BY <2>1, <2>2, <2>3 DEF HonestInv
<1>28. CASE UNCHANGED vars
  BY <1>28, <1>q DEF vars, HonestInv
<1> QED
  BY <1>1, <1>2, <1>3, <1>4, <1>5, <1>6, <1>7, <1>8, <1>9, <1>10, <1>11, <1>12, <1>13,
     <1>14, <1>15, <1>16, <1>17, <1>18, <1>19, <1>20, <1>21, <1>22, <1>23, <1>24,
     <1>25, <1>26, <1>27, <1>28
  DEF Next, PlaneStep, TaskStep, FrameStep, CFrame

\* AskedInv is inductive.
LEMMA AskedStep ==
  TypeInv /\ ProgressInv /\ AskedInv /\ [Next]_vars => AskedInv'
<1> SUFFICES ASSUME TypeInv, ProgressInv, AskedInv, [Next]_vars
             PROVE  AskedInv'
  OBVIOUS
<1> USE BoundsAssumption DEF TypeInv, SeqTypes
<1>g. \A k \in Runs : cmd[k] # "none" => cmd'[k] # "none"
  BY RowsGrow
<1>r. \A k \in Runs : inbox[k] # "none" => cmd'[k] # "none"
  BY <1>g DEF AskedInv
<1>t. AskedFrames \subseteq AskedFrames'
  BY <1>g DEF AskedFrames, DownFrames
<1>q. down \in Seq(AskedFrames')
  BY <1>t, SeqMonotonic DEF AskedInv
<1>h. down # << >> => Head(down) \in AskedFrames' /\ Tail(down) \in Seq(AskedFrames')
  BY <1>q, HeadTailProperties
<1>a. \A f \in AskedFrames' : Append(down, f) \in Seq(AskedFrames')
  BY <1>q, AppendProperties
<1>m. \A m \in {Head(q) : q \in {up, late} \ {<< >>}} : m.run \in Runs
  BY HeadTailProperties, UpFields
<1> USE DEF planeVars, sessionVars, netVars, nodeVars, taskVars, counters
<1>1. ASSUME NEW r \in Runs, CDispatch(r)
      PROVE  AskedInv'
  <2>1. \A k \in Runs : inbox'[k] # "none" => cmd'[k] # "none"
    BY <1>1, <1>r DEF CDispatch
  <2>2. down' \in Seq(AskedFrames')
    <3>1. Frame("command", r, "-", 0) \in DownFrames
      BY <1>1, DownFrame DEF CDispatch, FlatTypes, PlaneTypes
    <3>2. Frame("command", r, "-", 0) \in AskedFrames'
      BY <1>1, <1>g, <3>1 DEF AskedFrames, Frame, CDispatch
    <3> QED
      BY <1>1, <1>a, <3>2 DEF CDispatch
  <2> QED
    BY <2>1, <2>2 DEF AskedInv
<1>2. ASSUME NEW r \in Runs, CSubscribe(r)
      PROVE  AskedInv'
  <2>1. \A k \in Runs : inbox'[k] # "none" => cmd'[k] # "none"
    BY <1>2, <1>r DEF CSubscribe
  <2>2. down' \in Seq(AskedFrames')
    <3>1. Frame("subscribe", r, "-", acked[r]) \in DownFrames
      BY <1>2, DownFrame DEF CSubscribe, FlatTypes, PlaneTypes
    <3>2. Frame("subscribe", r, "-", acked[r]) \in AskedFrames'
      BY <1>2, <1>r, <3>1 DEF AskedFrames, Frame, CSubscribe
    <3> QED
      BY <1>2, <1>a, <3>2 DEF CSubscribe
  <2> QED
    BY <2>1, <2>2 DEF AskedInv
<1>3. ASSUME NEW r \in Runs, CSweep(r)
      PROVE  AskedInv'
  BY <1>3, <1>q, <1>r DEF AskedInv, CSweep
<1>4. ASSUME NEW r \in Runs, CExpire(r)
      PROVE  AskedInv'
  BY <1>4, <1>q, <1>r DEF AskedInv, CExpire
<1>5. ASSUME NEW m \in {Head(q) : q \in {up, late} \ {<< >>}}, NEW live \in BOOLEAN, CAccepted(live, m)
      PROVE  AskedInv'
  BY <1>5, <1>q, <1>r DEF AskedInv, CAccepted, Incoming
<1>6. ASSUME NEW m \in {Head(q) : q \in {up, late} \ {<< >>}}, NEW live \in BOOLEAN, CResult(live, m)
      PROVE  AskedInv'
  <2>1. \A k \in Runs : inbox'[k] # "none" => cmd'[k] # "none"
    BY <1>6, <1>r DEF CResult, Incoming, Reply, Complete, Outcome
  <2>2. down' \in Seq(AskedFrames')
    <3>0. m.run \in Runs
      BY <1>m
    <3>1. Frame("ack", m.run, "-", 0) \in DownFrames
      BY <3>0, DownFrame
    <3>2. Frame("ack", m.run, "-", 0) \in AskedFrames'
      BY <3>1 DEF AskedFrames, Frame
    <3>3. down' = down \/ down' = Append(down, Frame("ack", m.run, "-", 0))
      BY <1>6 DEF CResult, Reply
    <3> QED
      BY <3>2, <3>3, <1>a, <1>q
  <2> QED
    BY <2>1, <2>2 DEF AskedInv
<1>7. ASSUME NEW m \in {Head(q) : q \in {up, late} \ {<< >>}}, NEW live \in BOOLEAN, CEvent(live, m)
      PROVE  AskedInv'
  <2>m. m.run \in Runs
    BY <1>m
  <2>n. PICK p \in 0..NumEvents :
          /\ HighestContiguous(m.run, stored'[m.run], p)
          /\ acked' = [acked EXCEPT ![m.run] = p]
          /\ Reply(live, Frame("eventack", m.run, "-", p))
    BY <1>7 DEF CEvent
  <2>1. \A k \in Runs : inbox'[k] # "none" => cmd'[k] # "none"
    BY <1>7, <1>r DEF CEvent
  <2>2. down' \in Seq(AskedFrames')
    <3>1. Frame("eventack", m.run, "-", p) \in DownFrames
      BY <2>m, DownFrame
    <3>2. Frame("eventack", m.run, "-", p) \in AskedFrames'
      BY <3>1 DEF AskedFrames, Frame
    <3>3. down' = down \/ down' = Append(down, Frame("eventack", m.run, "-", p))
      BY <2>n DEF Reply
    <3> QED
      BY <3>2, <3>3, <1>a, <1>q
  <2> QED
    BY <2>1, <2>2 DEF AskedInv
<1>8. CASE NAccept
  <2>1. \A k \in Runs : inbox'[k] # "none" => cmd'[k] # "none"
    <3>1. taskRun \in Runs /\ inbox[taskRun] # "none"
      BY <1>8 DEF ProgressInv, TaskInv, NAccept
    <3>2. \A k \in Runs : k # taskRun => inbox'[k] = inbox[k]
      BY <1>8 DEF NAccept, FlatTypes, NodeTypes
    <3> QED
      BY <3>1, <3>2, <1>r
  <2>2. down' \in Seq(AskedFrames')
    BY <1>8, <1>q DEF NAccept, Idle
  <2> QED
    BY <2>1, <2>2 DEF AskedInv
<1>9. CASE NExecute
  BY <1>9, <1>q, <1>r DEF AskedInv, NExecute
<1>10. CASE NComplete
  <2>1. \A k \in Runs : inbox'[k] # "none" => cmd'[k] # "none"
    <3>1. taskRun \in Runs /\ inbox[taskRun] # "none"
      BY <1>10 DEF ProgressInv, TaskInv, NComplete
    <3>2. \A k \in Runs : k # taskRun => inbox'[k] = inbox[k]
      BY <1>10 DEF NComplete, FlatTypes, NodeTypes
    <3> QED
      BY <3>1, <3>2, <1>r
  <2>2. down' \in Seq(AskedFrames')
    BY <1>10, <1>q DEF NComplete
  <2> QED
    BY <2>1, <2>2 DEF AskedInv
<1>11. CASE NEnqueue
  BY <1>11, <1>q, <1>r DEF AskedInv, NEnqueue, Flush, Idle
<1>12. CASE NPump
  BY <1>12, <1>q, <1>r DEF AskedInv, NPump, Idle
<1>13. CASE NFlush
  BY <1>13, <1>q, <1>r DEF AskedInv, NFlush, Flush, Idle
<1>14. ASSUME NEW r \in Runs, NRefuse(r)
      PROVE  AskedInv'
  <2>1. \A k \in Runs : inbox'[k] # "none" => cmd'[k] # "none"
    BY <1>14, <1>r DEF NRefuse, NextDown
  <2>2. down' \in Seq(AskedFrames')
    BY <1>14, <1>h DEF NextDown, NRefuse
  <2> QED
    BY <2>1, <2>2 DEF AskedInv
<1>15. ASSUME NEW r \in Runs, NAdmit(r)
      PROVE  AskedInv'
  <2>1. \A k \in Runs : inbox'[k] # "none" => cmd'[k] # "none"
    <3>1. Head(down) \in AskedFrames' /\ Head(down).run = r /\ Head(down).type = "command"
      BY <1>15, <1>h DEF NextDown, NAdmit
    <3>2. cmd'[r] # "none"
      BY <3>1 DEF AskedFrames
    <3>3. \A k \in Runs : k # r => inbox'[k] = inbox[k]
      BY <1>15 DEF NAdmit, FlatTypes, NodeTypes
    <3> QED
      BY <3>2, <3>3, <1>r
  <2>2. down' \in Seq(AskedFrames')
    BY <1>15, <1>h DEF NextDown, NAdmit
  <2> QED
    BY <2>1, <2>2 DEF AskedInv
<1>16. ASSUME NEW r \in Runs, NDuplicate(r)
      PROVE  AskedInv'
  <2>1. \A k \in Runs : inbox'[k] # "none" => cmd'[k] # "none"
    BY <1>16, <1>r DEF NDuplicate, NextDown, Flush
  <2>2. down' \in Seq(AskedFrames')
    BY <1>16, <1>h DEF NextDown, NDuplicate
  <2> QED
    BY <2>1, <2>2 DEF AskedInv
<1>17. ASSUME NEW r \in Runs, NSubscribe(r)
      PROVE  AskedInv'
  <2>1. \A k \in Runs : inbox'[k] # "none" => cmd'[k] # "none"
    BY <1>17, <1>r DEF NSubscribe, NextDown, Flush
  <2>2. down' \in Seq(AskedFrames')
    BY <1>17, <1>h DEF NextDown, NSubscribe
  <2> QED
    BY <2>1, <2>2 DEF AskedInv
<1>18. ASSUME NEW r \in Runs, NAck(r)
      PROVE  AskedInv'
  <2>1. \A k \in Runs : inbox'[k] # "none" => cmd'[k] # "none"
    BY <1>18, <1>r DEF NAck, NextDown
  <2>2. down' \in Seq(AskedFrames')
    BY <1>18, <1>h DEF NextDown, NAck
  <2> QED
    BY <2>1, <2>2 DEF AskedInv
<1>19. ASSUME NEW r \in Runs, NEventAck(r)
      PROVE  AskedInv'
  <2>1. \A k \in Runs : inbox'[k] # "none" => cmd'[k] # "none"
    BY <1>19, <1>r DEF NEventAck, NextDown, Flush
  <2>2. down' \in Seq(AskedFrames')
    BY <1>19, <1>h DEF NextDown, NEventAck
  <2> QED
    BY <2>1, <2>2 DEF AskedInv
<1>20. ASSUME NEW r \in Runs, CCreate(r)
      PROVE  AskedInv'
  BY <1>20, <1>q, <1>r DEF AskedInv, CCreate
<1>21. ASSUME NEW r \in Runs, CForceClose(r)
      PROVE  AskedInv'
  BY <1>21, <1>q, <1>r DEF AskedInv, CForceClose
<1>22. ASSUME NEW r \in Runs, NEvent(r)
      PROVE  AskedInv'
  BY <1>22, <1>q, <1>r DEF AskedInv, NEvent
<1>23. CASE NTick
  BY <1>23, <1>q, <1>r DEF AskedInv, NTick
<1>24. CASE NStorage
  <2>1. \A k \in Runs : inbox'[k] # "none" => cmd'[k] # "none"
    BY <1>24, <1>r DEF NStorage, Idle
  <2>2. down' \in Seq(AskedFrames')
    BY <1>24, <1>h, <1>q DEF NStorage
  <2> QED
    BY <2>1, <2>2 DEF AskedInv
<1>25. CASE Crash
  <2>1. \A k \in Runs : inbox'[k] # "none" => cmd'[k] # "none"
    BY <1>25, <1>r DEF Crash, Idle
  <2>2. down' \in Seq(AskedFrames')
    BY <1>25, EmptySeq DEF Crash
  <2> QED
    BY <2>1, <2>2 DEF AskedInv
<1>26. CASE Connect
  BY <1>26, <1>q, <1>r DEF AskedInv, Connect
<1>27. ASSUME NEW n \in 0..Len(up), Drop(n)
      PROVE  AskedInv'
  <2>1. \A k \in Runs : inbox'[k] # "none" => cmd'[k] # "none"
    BY <1>27, <1>r DEF Drop
  <2>2. down' \in Seq(AskedFrames')
    BY <1>27, EmptySeq DEF Drop
  <2> QED
    BY <2>1, <2>2 DEF AskedInv
<1>28. CASE UNCHANGED vars
  BY <1>28, <1>q, <1>r DEF vars, AskedInv
<1> QED
  BY <1>1, <1>2, <1>3, <1>4, <1>5, <1>6, <1>7, <1>8, <1>9, <1>10, <1>11, <1>12, <1>13,
     <1>14, <1>15, <1>16, <1>17, <1>18, <1>19, <1>20, <1>21, <1>22, <1>23, <1>24,
     <1>25, <1>26, <1>27, <1>28
  DEF Next, PlaneStep, TaskStep, FrameStep, CFrame

\* EffectInv is inductive.
LEMMA EffectStep ==
  TypeInv /\ OnceInv /\ EffectInv /\ [Next]_vars => EffectInv'
<1> SUFFICES ASSUME TypeInv, OnceInv, EffectInv, [Next]_vars
             PROVE  EffectInv'
  OBVIOUS
<1> USE BoundsAssumption DEF TypeInv, FlatTypes, NodeTypes, TaskTypes, TaskInv
<1> USE DEF planeVars, sessionVars, netVars, nodeVars, taskVars, counters, EffectInv
<1>1. ASSUME NEW r \in Runs, CDispatch(r)
      PROVE  EffectInv'
  BY <1>1 DEF CDispatch
<1>2. ASSUME NEW r \in Runs, CSubscribe(r)
      PROVE  EffectInv'
  BY <1>2 DEF CSubscribe
<1>3. ASSUME NEW r \in Runs, CSweep(r)
      PROVE  EffectInv'
  BY <1>3 DEF CSweep
<1>4. ASSUME NEW r \in Runs, CExpire(r)
      PROVE  EffectInv'
  BY <1>4 DEF CExpire
<1>5. ASSUME NEW m \in {Head(q) : q \in {up, late} \ {<< >>}}, NEW live \in BOOLEAN, CAccepted(live, m)
      PROVE  EffectInv'
  BY <1>5 DEF CAccepted, Incoming
<1>6. ASSUME NEW m \in {Head(q) : q \in {up, late} \ {<< >>}}, NEW live \in BOOLEAN, CResult(live, m)
      PROVE  EffectInv'
  BY <1>6 DEF CResult, Incoming, Reply, Complete, Outcome
<1>7. ASSUME NEW m \in {Head(q) : q \in {up, late} \ {<< >>}}, NEW live \in BOOLEAN, CEvent(live, m)
      PROVE  EffectInv'
  BY <1>7 DEF CEvent, Incoming, Reply, HighestContiguous
<1>8. CASE NAccept
  BY <1>8 DEF NAccept, Idle
<1>9. CASE NExecute
  BY <1>9 DEF NExecute, OnceInv
<1>10. CASE NComplete
  BY <1>10 DEF NComplete
<1>11. CASE NEnqueue
  BY <1>11 DEF NEnqueue, Flush, Idle
<1>12. CASE NPump
  BY <1>12 DEF NPump, Idle
<1>13. CASE NFlush
  BY <1>13 DEF NFlush, Flush, Idle
<1>14. ASSUME NEW r \in Runs, NRefuse(r)
      PROVE  EffectInv'
  BY <1>14 DEF NRefuse, NextDown
<1>15. ASSUME NEW r \in Runs, NAdmit(r)
      PROVE  EffectInv'
  BY <1>15 DEF NAdmit, NextDown
<1>16. ASSUME NEW r \in Runs, NDuplicate(r)
      PROVE  EffectInv'
  BY <1>16 DEF NDuplicate, NextDown, Flush
<1>17. ASSUME NEW r \in Runs, NSubscribe(r)
      PROVE  EffectInv'
  BY <1>17 DEF NSubscribe, NextDown, Flush
<1>18. ASSUME NEW r \in Runs, NAck(r)
      PROVE  EffectInv'
  BY <1>18 DEF NAck, NextDown
<1>19. ASSUME NEW r \in Runs, NEventAck(r)
      PROVE  EffectInv'
  BY <1>19 DEF NEventAck, NextDown
<1>20. ASSUME NEW r \in Runs, CCreate(r)
      PROVE  EffectInv'
  BY <1>20 DEF CCreate
<1>21. ASSUME NEW r \in Runs, CForceClose(r)
      PROVE  EffectInv'
  BY <1>21 DEF CForceClose
<1>22. ASSUME NEW r \in Runs, NEvent(r)
      PROVE  EffectInv'
  BY <1>22 DEF NEvent
<1>23. CASE NTick
  BY <1>23 DEF NTick
<1>24. CASE NStorage
  BY <1>24 DEF NStorage, Idle
<1>25. CASE Crash
  BY <1>25 DEF Crash, Idle
<1>26. CASE Connect
  BY <1>26 DEF Connect
<1>27. ASSUME NEW n \in 0..Len(up), Drop(n)
      PROVE  EffectInv'
  BY <1>27 DEF Drop
<1>28. CASE UNCHANGED vars
  BY <1>28 DEF vars
<1> QED
  BY <1>1, <1>2, <1>3, <1>4, <1>5, <1>6, <1>7, <1>8, <1>9, <1>10, <1>11, <1>12, <1>13,
     <1>14, <1>15, <1>16, <1>17, <1>18, <1>19, <1>20, <1>21, <1>22, <1>23, <1>24,
     <1>25, <1>26, <1>27, <1>28
  DEF Next, PlaneStep, TaskStep, FrameStep, CFrame

\* A step that leaves the rows of both sides alone is not seen.
LEMMA NotSeen ==
  ASSUME UNCHANGED <<cmd, executions, inbox, journal, stored, cursor>>
  PROVE  [Remote!Next]_Remote!remote
<1>1. Told' = Told /\ Done' = Done
  BY DEF Told, Done
<1> QED
  BY <1>1 DEF Remote!remote

\* Nor is a move of the command that is about its delivery, nor one of the
\* inbox row before it is settled.
LEMMA DeliveryNotSeen ==
  ASSUME UNCHANGED <<executions, journal, stored, cursor>>,
         \A r \in Runs : cmd'[r] = cmd[r] \/ {cmd[r], cmd'[r]} \subseteq {"queued", "dispatched", "accepted"},
         \A r \in Runs : inbox'[r] = inbox[r] \/ {inbox[r], inbox'[r]} \subseteq {"none", "received", "executing"}
  PROVE  [Remote!Next]_Remote!remote
<1>1. Told' = Told
  BY DEF Told, Settled
<1>2. Done' = Done
  BY DEF Done
<1> QED
  BY <1>1, <1>2 DEF Remote!remote

\* Settling an open command is Settle, and whatever is done to a settled one is
\* not seen, as long as completed is said on evidence.
LEMMA OutcomeSettles ==
  ASSUME TypeInv, NEW r \in Runs, NEW s \in Settled, cmd[r] # "none",
         s = "completed" => inbox[r] = "completed",
         cmd' = [cmd EXCEPT ![r] = s] \/ cmd' = cmd,
         cmd[r] \in Settled => cmd' = cmd,
         UNCHANGED <<executions, inbox, journal, stored, cursor>>
  PROVE  [Remote!Next]_Remote!remote
<1>1. CASE cmd' = cmd
  BY <1>1, NotSeen
<1>2. CASE cmd[r] \notin Settled /\ cmd' = [cmd EXCEPT ![r] = s]
  <2>1. Told[r] = "open" /\ Told' = [Told EXCEPT ![r] = s]
    BY <1>2 DEF Told, TypeInv, FlatTypes, PlaneTypes, Settled
  <2>2. Done' = Done /\ (s = "completed" => Done[r] = "completed")
    BY DEF Done
  <2>3. Remote!Settle(r, s)
    BY <2>1, <2>2 DEF Remote!Settle
  <2>4. s \in Remote!Outcomes
    BY DEF Settled, Remote!Outcomes
  <2> QED
    BY <2>3, <2>4 DEF Remote!Next
<1> QED
  BY <1>1, <1>2

\* A cursor that moves on over stored events is Release.
LEMMA CursorReleases ==
  ASSUME TypeInv, NEW r \in Runs, NEW n \in 0..NumEvents, n > cursor[r], 1..n \subseteq stored[r],
         cursor' = [cursor EXCEPT ![r] = n],
         UNCHANGED <<cmd, executions, inbox, journal, stored>>
  PROVE  [Remote!Next]_Remote!remote
<1>1. Told' = Told /\ Done' = Done
  BY DEF Told, Done
<1>2. Remote!Release(r, n)
  BY <1>1 DEF Remote!Release
<1> QED
  BY <1>2 DEF Remote!Next

\* Every action is a step of RemoteRuns or is not seen by it.
LEMMA RemoteStep ==
  RemoteInv /\ [Next]_vars => [Remote!Next]_Remote!remote
<1> SUFFICES ASSUME RemoteInv, [Next]_vars
             PROVE  [Remote!Next]_Remote!remote
  OBVIOUS
<1> USE BoundsAssumption DEF RemoteInv, TypeInv, FlatTypes, PlaneTypes, NodeTypes, TaskTypes, TaskInv
<1>m. \A m \in {Head(q) : q \in {up, late} \ {<< >>}} :
        m.run \in Runs /\ (m.type = "event" => m.seq \in Seqs)
  BY HeadTailProperties, UpFields DEF SeqTypes
<1>h. \A m \in {Head(q) : q \in {up, late} \ {<< >>}} : m \in HonestFrames /\ m \in TrueFrames
  BY HeadTailProperties DEF HonestInv, TrueAnswers
<1> USE DEF planeVars, sessionVars, netVars, nodeVars, taskVars, counters
<1>1. ASSUME NEW r \in Runs, CDispatch(r)
      PROVE  [Remote!Next]_Remote!remote
  BY <1>1, DeliveryNotSeen DEF CDispatch
<1>2. ASSUME NEW r \in Runs, CSubscribe(r)
      PROVE  [Remote!Next]_Remote!remote
  BY <1>2, NotSeen DEF CSubscribe
<1>3. ASSUME NEW r \in Runs, CSweep(r)
      PROVE  [Remote!Next]_Remote!remote
  BY <1>3, NotSeen DEF CSweep
<1>4. ASSUME NEW r \in Runs, CExpire(r)
      PROVE  [Remote!Next]_Remote!remote
  <2>1. CASE cmd[r] \in {"dispatched", "accepted"}
    <3>1. cmd' = [cmd EXCEPT ![r] = "indeterminate"] /\ cmd[r] # "none" /\ cmd[r] \notin Settled
      BY <1>4, <2>1 DEF CExpire, Settled
    <3>2. "indeterminate" \in Settled
      BY DEF Settled
    <3> QED
      BY <1>4, <3>1, <3>2, OutcomeSettles DEF CExpire
  <2>2. CASE cmd[r] \notin {"dispatched", "accepted"}
    <3>1. cmd' = cmd
      BY <1>4, <2>2 DEF CExpire
    <3> QED
      BY <1>4, <3>1, NotSeen DEF CExpire
  <2> QED
    BY <2>1, <2>2
<1>5. ASSUME NEW m \in {Head(q) : q \in {up, late} \ {<< >>}}, NEW live \in BOOLEAN, CAccepted(live, m)
      PROVE  [Remote!Next]_Remote!remote
  <2>1. m.run \in Runs
    BY <1>m
  <2>2. \A k \in Runs : cmd'[k] = cmd[k] \/ {cmd[k], cmd'[k]} \subseteq {"queued", "dispatched", "accepted"}
    BY <1>5, <2>1 DEF CAccepted
  <2> QED
    BY <1>5, <2>2, DeliveryNotSeen DEF CAccepted, Incoming
<1>6. ASSUME NEW m \in {Head(q) : q \in {up, late} \ {<< >>}}, NEW live \in BOOLEAN, CResult(live, m)
      PROVE  [Remote!Next]_Remote!remote
  <2>1. m.run \in Runs /\ cmd[m.run] # "none"
    BY <1>6, <1>m, <1>h DEF CResult, HonestFrames
  <2>2. m.state = "completed" => inbox[m.run] = "completed"
    BY <1>h DEF TrueFrames
  <2>3. Outcome(m.state) \in Settled /\ (Outcome(m.state) = "completed" => inbox[m.run] = "completed")
    BY <2>2 DEF Outcome, Settled
  <2>4. cmd' = [cmd EXCEPT ![m.run] = IF @ \in Settled THEN @ ELSE Outcome(m.state)]
    BY <1>6 DEF CResult, Complete
  <2>5. /\ cmd' = [cmd EXCEPT ![m.run] = Outcome(m.state)] \/ cmd' = cmd
        /\ cmd[m.run] \in Settled => cmd' = cmd
    BY <2>1, <2>4
  <2>6. UNCHANGED <<executions, inbox, journal, stored, cursor>>
    BY <1>6 DEF CResult
  <2> QED
    BY <2>1, <2>3, <2>5, <2>6, OutcomeSettles DEF TypeInv
<1>7. ASSUME NEW m \in {Head(q) : q \in {up, late} \ {<< >>}}, NEW live \in BOOLEAN, CEvent(live, m)
      PROVE  [Remote!Next]_Remote!remote
  <2>1. m.run \in Runs /\ m.seq \in Seqs /\ m.seq <= journal[m.run]
    BY <1>7, <1>m, <1>h DEF CEvent, HonestFrames
  <2>2. Told' = Told /\ Done' = Done
    BY <1>7 DEF CEvent, Told, Done
  <2>3. Remote!Learn(m.run, m.seq)
    BY <1>7, <2>1, <2>2 DEF CEvent, Remote!Learn
  <2> QED
    BY <2>1, <2>3 DEF Remote!Next, Seqs
<1>8. CASE NAccept
  <2>1. taskRun \in Runs /\ inbox[taskRun] = "received"
    BY <1>8 DEF NAccept, ProgressInv
  <2>2. inbox' = inbox \/ inbox' = [inbox EXCEPT ![taskRun] = "executing"]
    BY <1>8 DEF NAccept
  <2>3. \A k \in Runs : inbox'[k] = inbox[k] \/ {inbox[k], inbox'[k]} \subseteq {"none", "received", "executing"}
    BY <2>1, <2>2
  <2> QED
    BY <1>8, <2>3, DeliveryNotSeen DEF NAccept
<1>9. CASE NExecute
  <2>1. taskRun \in Runs /\ inbox[taskRun] = "executing" /\ executions[taskRun] = 0
    BY <1>9 DEF NExecute, ProgressInv, OnceInv
  <2>2. cmd[taskRun] # "none" /\ journal[taskRun] = 0
    BY <2>1 DEF AskedInv, EffectInv
  <2>3. Told' = Told /\ Done' = Done /\ UNCHANGED <<cmd, inbox, stored, cursor>>
    BY <1>9 DEF NExecute, Told, Done
  <2>4. CASE UNCHANGED <<executions, journal>>
    BY <2>3, <2>4, NotSeen
  <2>5. CASE /\ executions' = [executions EXCEPT ![taskRun] = @ + 1]
             /\ journal' = [journal EXCEPT ![taskRun] = IF @ = 0 THEN 1 ELSE @]
    <3>1. /\ executions' = [executions EXCEPT ![taskRun] = 1]
          /\ journal' = [journal EXCEPT ![taskRun] = 1]
      BY <2>1, <2>2, <2>5
    <3>2. Told[taskRun] # "none" /\ Done[taskRun] = "open"
      BY <2>1, <2>2 DEF Told, Done
    <3>3. Remote!Execute(taskRun)
      BY <2>1, <2>3, <3>1, <3>2 DEF Remote!Execute
    <3> QED
      BY <2>1, <3>3 DEF Remote!Next
  <2> QED
    BY <1>9, <2>4, <2>5 DEF NExecute
<1>10. CASE NComplete
  <2>1. taskRun \in Runs /\ inbox[taskRun] = "executing" /\ answer \in {"completed", "failed"}
    BY <1>10 DEF NComplete, ProgressInv
  <2>2. cmd[taskRun] # "none" /\ (answer = "completed" => executions[taskRun] = 1)
    BY <1>10, <2>1 DEF NComplete, AskedInv, EffectInv
  <2>3. Told' = Told /\ Told[taskRun] # "none"
    BY <1>10, <2>1, <2>2 DEF NComplete, Told
  <2>4. Done[taskRun] = "open" /\ Done' = [Done EXCEPT ![taskRun] = answer]
    BY <1>10, <2>1 DEF NComplete, Done
  <2>5. Remote!Conclude(taskRun, answer)
    BY <1>10, <2>2, <2>3, <2>4 DEF NComplete, Remote!Conclude
  <2> QED
    BY <2>1, <2>5 DEF Remote!Next
<1>11. CASE NEnqueue
  BY <1>11, NotSeen DEF NEnqueue
<1>12. CASE NPump
  BY <1>12, NotSeen DEF NPump, Idle
<1>13. CASE NFlush
  BY <1>13, NotSeen DEF NFlush
<1>14. ASSUME NEW r \in Runs, NRefuse(r)
      PROVE  [Remote!Next]_Remote!remote
  BY <1>14, NotSeen DEF NRefuse
<1>15. ASSUME NEW r \in Runs, NAdmit(r)
      PROVE  [Remote!Next]_Remote!remote
  BY <1>15, DeliveryNotSeen DEF NAdmit
<1>16. ASSUME NEW r \in Runs, NDuplicate(r)
      PROVE  [Remote!Next]_Remote!remote
  BY <1>16, NotSeen DEF NDuplicate
<1>17. ASSUME NEW r \in Runs, NSubscribe(r)
      PROVE  [Remote!Next]_Remote!remote
  <2>1. Head(down) \in SafeFrames /\ Head(down).run = r /\ Head(down).type = "subscribe"
    BY <1>17, HeadTailProperties DEF NextDown, StoredPrefixes, NSubscribe
  <2>2. Head(down).seq \in 0..NumEvents /\ 1..Head(down).seq \subseteq stored[r]
    BY <2>1 DEF SafeFrames, DownFrames
  <2>3. cursor' = cursor \/ (cursor' = [cursor EXCEPT ![r] = Head(down).seq] /\ Head(down).seq > cursor[r])
    <3>1. cursor' = [cursor EXCEPT ![r] = IF @ = NotSubscribed THEN Head(down).seq ELSE @]
      BY <1>17 DEF NSubscribe
    <3>2. CASE cursor[r] = NotSubscribed
      BY <2>2, <3>1, <3>2 DEF NotSubscribed
    <3>3. CASE cursor[r] # NotSubscribed
      BY <3>1, <3>3
    <3> QED
      BY <3>2, <3>3
  <2>4. UNCHANGED <<cmd, executions, inbox, journal, stored>>
    BY <1>17 DEF NSubscribe
  <2>5. TypeInv
    BY DEF TypeInv
  <2> QED
    BY <2>2, <2>3, <2>4, <2>5, NotSeen, CursorReleases
<1>18. ASSUME NEW r \in Runs, NAck(r)
      PROVE  [Remote!Next]_Remote!remote
  BY <1>18, NotSeen DEF NAck
<1>19. ASSUME NEW r \in Runs, NEventAck(r)
      PROVE  [Remote!Next]_Remote!remote
  <2>1. Head(down) \in SafeFrames /\ Head(down).run = r /\ Head(down).type = "eventack"
    BY <1>19, HeadTailProperties DEF NextDown, StoredPrefixes, NEventAck
  <2>2. Head(down).seq \in 0..NumEvents /\ 1..Head(down).seq \subseteq stored[r]
    BY <2>1 DEF SafeFrames, DownFrames
  <2>3. cursor' = cursor \/ (cursor' = [cursor EXCEPT ![r] = Head(down).seq] /\ Head(down).seq > cursor[r])
    BY <1>19, <2>2 DEF NEventAck, NotSubscribed
  <2>4. UNCHANGED <<cmd, executions, inbox, journal, stored>>
    BY <1>19 DEF NEventAck
  <2>5. TypeInv
    BY DEF TypeInv
  <2> QED
    BY <2>2, <2>3, <2>4, <2>5, NotSeen, CursorReleases
<1>20. ASSUME NEW r \in Runs, CCreate(r)
      PROVE  [Remote!Next]_Remote!remote
  <2>1. Told[r] = "none" /\ Told' = [Told EXCEPT ![r] = "open"]
    BY <1>20 DEF CCreate, Told, Settled
  <2>2. Done' = Done
    BY <1>20 DEF CCreate, Done
  <2>3. Remote!Ask(r)
    BY <1>20, <2>1, <2>2 DEF CCreate, Remote!Ask
  <2> QED
    BY <2>3 DEF Remote!Next
<1>21. ASSUME NEW r \in Runs, CForceClose(r)
      PROVE  [Remote!Next]_Remote!remote
  BY <1>21, NotSeen DEF CForceClose
<1>22. ASSUME NEW r \in Runs, NEvent(r)
      PROVE  [Remote!Next]_Remote!remote
  <2>1. executions[r] = 1
    BY <1>22 DEF NEvent, OnceInv
  <2>2. Told' = Told /\ Done' = Done
    BY <1>22 DEF NEvent, Told, Done
  <2>3. Remote!Record(r)
    BY <1>22, <2>1, <2>2 DEF NEvent, Remote!Record
  <2> QED
    BY <2>3 DEF Remote!Next
<1>23. CASE NTick
  BY <1>23, NotSeen DEF NTick
<1>24. CASE NStorage
  BY <1>24, NotSeen DEF NStorage
<1>25. CASE Crash
  BY <1>25, NotSeen DEF Crash
<1>26. CASE Connect
  BY <1>26, NotSeen DEF Connect
<1>27. ASSUME NEW n \in 0..Len(up), Drop(n)
      PROVE  [Remote!Next]_Remote!remote
  BY <1>27, NotSeen DEF Drop
<1>28. CASE UNCHANGED vars
  BY <1>28, NotSeen DEF vars
<1> QED
  BY <1>1, <1>2, <1>3, <1>4, <1>5, <1>6, <1>7, <1>8, <1>9, <1>10, <1>11, <1>12, <1>13,
     <1>14, <1>15, <1>16, <1>17, <1>18, <1>19, <1>20, <1>21, <1>22, <1>23, <1>24,
     <1>25, <1>26, <1>27, <1>28
  DEF Next, PlaneStep, TaskStep, FrameStep, CFrame

\* The channel implements RemoteRuns: over lost connections and crashes, repeated,
\* late and expired commands, each takes effect once at most and only if asked
\* for, its outcome is final and completed on evidence, the Control Plane has
\* only recorded events and the Node lets go only of stored ones.
THEOREM RemoteImplementation == Spec => ImplementsRemoteRuns
<1>1. Init => Remote!Init
  BY DEF Init, Remote!Init, Told, Done, NotSubscribed
<1>2. Init => OnceInv /\ ProgressInv /\ TrueAnswers /\ StoredPrefixes /\ HonestInv /\ AskedInv /\ EffectInv
  BY EmptySeq DEF Init, OnceInv, ProgressInv, TrueAnswers, StoredPrefixes, HonestInv, AskedInv,
                  EffectInv, NotSubscribed
<1>3. RemoteInv /\ TypeInv' /\ [Next]_vars => RemoteInv'
  BY OnceStep, ProgressStep, TrueStep, StoredStep, HonestStep, AskedStep, EffectStep DEF RemoteInv
<1>4. RemoteInv /\ [Next]_vars => [Remote!Next]_Remote!remote
  BY RemoteStep
<1>5. TypeInv /\ OnceInv /\ ProgressInv /\ TrueAnswers /\ StoredPrefixes /\ HonestInv /\ AskedInv
        /\ EffectInv <=> RemoteInv
  BY DEF RemoteInv
<1> QED
  BY <1>1, <1>2, <1>3, <1>4, <1>5, TypeInvariant, PTL DEF Spec, ImplementsRemoteRuns, Remote!Spec
=============================================================================
