------------------------ MODULE ProjectWorkersProofs ------------------------
(***************************************************************************)
(* TLAPS proofs about ProjectWorkers, for any projects, credentials,       *)
(* models, ports and bounds.                                               *)
(*                                                                         *)
(* IInv holds whatever fails.  Its parts say what a death between two      *)
(* effects leaves behind: what a worker was proven on is aside from the    *)
(* moment it is moved until it is back or replaced (SwapInv); a port is    *)
(* reserved before a home is built for it, and it is still the row's when  *)
(* the row is the one it was reserved for (PortInv); and what the loop     *)
(* changes has no run (LoopInv).                                           *)
(*                                                                         *)
(* ServeInv holds besides, of the projects that were never unregistered,   *)
(* unless the rollback fails in a way the code ignores.  A row and a link that differ are the trace of an assignment   *)
(* that was cut off: the worker is down, and the project is one the next   *)
(* boot visits, because the row still says ready and awake (LinkInv).  And *)
(* the readers of a credential are all down while its material moves       *)
(* (ReaderInv).                                                            *)
(***************************************************************************)
EXTENDS ProjectWorkers, TLAPS, WellFoundedInduction

\* What the loop is doing.
LoopRow ==
  [op : {"idle", "boot", "provision", "assign", "model", "suspend", "resume", "swap"},
   step : {"none", "workspace", "register", "reserve", "build", "bind", "up", "health", "stop",
           "write",
           "record", "start", "back", "unrecord", "restart", "aside", "in", "undo",
           "accept", "flag"},
   ps : SUBSET Projects, cred : Stores, model : Models, was : SUBSET Projects,
   oldCred : Stores, oldLink : Stores, oldModel : Models, oldConfig : Models,
   restored : BOOLEAN, port : Ports \union {NoPort}]

\* What a unit is.
UnitRow == [on : BOOLEAN, cred : Stores, mat : Nat, model : Models, port : Ports \union {NoPort}]

LoopType == loop \in LoopRow /\ (loop.op = "swap" => loop.cred \in Credentials)
UnitType == unit \in [Projects -> UnitRow]
RowType ==
  /\ profile \in [Projects -> {"absent", "pending", "provisioning", "ready", "failed"}]
  /\ endpoint \in [Projects -> Ports \union {NoPort}]
  /\ bound \in [Projects -> BOOLEAN] /\ suspended \in [Projects -> BOOLEAN]
  /\ credential \in [Projects -> Stores]
  /\ model \in [Projects -> Models]
HomeType ==
  /\ home \in [Projects -> Ports \union {NoPort}]
  /\ link \in [Projects -> Stores]
  /\ config \in [Projects -> Models]
SwapType ==
  /\ live \in [Credentials -> Nat] /\ aside \in [Credentials -> Nat] /\ proven \in [Credentials -> Nat]
  /\ mats \in Nat
CountType ==
  /\ inRun \in [Projects -> BOOLEAN]
  /\ commands \in Nat /\ faults \in Nat /\ deaths \in Nat
  /\ manual \in [Projects -> BOOLEAN] /\ forgotten \in SUBSET Projects

\* A command about one project works on that one; a worker that is looked at,
\* stopped or to be brought back is one of them; no worker that is changed has
\* a run.
LoopInv ==
  /\ loop.op \in {"provision", "assign"} => \A p, q \in loop.ps : p = q
  /\ loop.was \subseteq loop.ps
  /\ loop.op = "boot" /\ loop.step = "up" => loop.was = {}
  /\ \A p \in Projects : Changing(p) => ~inRun[p]

\* A home is built for a port that was reserved, and until the row learns of
\* the home that port is the row's own, unless the row has been deleted
\* meanwhile.  What was never unregistered and has a home has a row.
PortInv ==
  /\ loop.op = "provision" /\ loop.step \in {"build", "bind"} =>
       /\ loop.port # NoPort
       /\ \A p \in loop.ps :
            /\ p \notin forgotten => profile[p] # "absent" /\ endpoint[p] = loop.port
            /\ profile[p] # "absent" /\ ~manual[p] => endpoint[p] = loop.port
  /\ \A p \in Projects \ forgotten : home[p] # NoPort => profile[p] # "absent"

\* From the moment the proven material is moved until it is back it is aside,
\* and what the workers were proven on is in place when the rest is removed.
SwapInv ==
  /\ mats # 0 /\ \A c \in Credentials : proven[c] # 0
  /\ loop.op = "swap" =>
       /\ loop.step \in {"in", "start", "undo", "back"} => proven[loop.cred] = aside[loop.cred]
       /\ loop.step = "accept" => proven[loop.cred] = live[loop.cred]
       /\ loop.step = "start" => live[loop.cred] # 0

\* Before a project has a home its row names no profile and no credential.
HomeInv ==
  /\ \A p \in Projects : home[p] = NoPort =>
       ~bound[p] /\ credential[p] = NoCredential /\ link[p] = NoCredential
  /\ loop.op = "provision" /\ loop.step = "bind" => \A p \in loop.ps : home[p] # NoPort
  /\ loop.op = "assign" => \A p \in loop.ps : home[p] # NoPort

\* The row and the link of a project may name different stores while an
\* assignment has written one of them, and after a death until the boot
\* reaches the project.
Torn(p) == loop.op = "assign" /\ p \in loop.ps /\ loop.step \in {"record", "back", "unrecord"}
Unvisited(p) == loop.op = "boot" /\ p \in loop.ps /\ p \notin loop.was
Apart(p) ==
  /\ ~unit[p].on /\ Bound(p) /\ profile[p] = "ready" /\ ~suspended[p]
  /\ Torn(p) \/ Unvisited(p)
LinkInv == \A p \in Projects \ forgotten : Linked(p) \/ Apart(p)

\* How far an assignment is, and that the worker is down in the middle of it.
AssignInv ==
  loop.op = "assign" =>
    \A p \in loop.ps \ forgotten :
         /\ loop.oldLink = loop.oldCred
         /\ Bound(p) /\ profile[p] = "ready" /\ ~suspended[p]
         /\ loop.step = "record" => link[p] = loop.cred
         /\ loop.step = "unrecord" => link[p] = loop.oldLink
         /\ loop.step \in {"write", "record", "start", "unrecord"} => ~unit[p].on

\* A swap is about every reader, and they are down while the material moves.
ReaderInv ==
  loop.op = "swap" =>
    /\ Readers(loop.cred) \subseteq loop.ps
    /\ loop.step = "stop" => \A p \in loop.ps : unit[p].on => p \in loop.was
    /\ loop.step \in {"aside", "in", "start", "back", "restart"} => \A p \in loop.ps : ~unit[p].on

\* A running worker serves from what its row names, at every moment.
MatchInv ==
  \A p \in Projects \ forgotten : unit[p].on =>
    /\ unit[p].cred = credential[p]
    /\ credential[p] # NoCredential => unit[p].mat = live[credential[p]]

\* The parts are the whole.
LEMMA TypeParts == TypeOK <=> LoopType /\ UnitType /\ RowType /\ HomeType /\ SwapType /\ CountType
BY DEF TypeOK, LoopType, UnitType, RowType, HomeType, SwapType, CountType, LoopRow, UnitRow

\* Every set of numbers that has one has a least one.
LEMMA LeastIsOne ==
  ASSUME NEW S, S \subseteq Nat, S # {}
  PROVE  LeastPort(S) \in S
<1>1. \E x \in S : \A y \in S : ~(<<y, x>> \in OpToRel(<, Nat))
  BY NatLessThanWellFounded, WFMin
<1>2. PICK x \in S : \A y \in S : ~(<<y, x>> \in OpToRel(<, Nat))
  BY <1>1
<1>3. \A y \in S : x <= y
  <2> TAKE y \in S
  <2>1. y \in Nat /\ x \in Nat
    OBVIOUS
  <2>2. ~(y < x)
    BY <1>2, <2>1 DEF OpToRel
  <2> QED
    BY <2>1, <2>2
<1> QED
  BY <1>3 DEF LeastPort

\* A free port is a port.
LEMMA FreePortFacts ==
  ASSUME FreePorts # {}
  PROVE  /\ LeastPort(FreePorts) \in Ports /\ LeastPort(FreePorts) # NoPort
         /\ \A q \in Projects : endpoint[q] # LeastPort(FreePorts)
<1>1. FreePorts \subseteq Nat
  BY PortsAssumption DEF FreePorts
<1>2. LeastPort(FreePorts) \in FreePorts
  BY <1>1, LeastIsOne
<1>3. ASSUME NEW n \in FreePorts
      PROVE  n \in Ports /\ n # NoPort /\ \A q \in Projects : endpoint[q] # n
  BY <1>3, PortsAssumption DEF FreePorts, NoPort
<1> QED
  BY <1>2, <1>3

\* The loop at rest, and a unit that is down.
LEMMA RestFacts ==
  /\ Idle \in LoopRow /\ Idle.op = "idle" /\ Idle.ps = {} /\ Idle.was = {}
  /\ Idle.step = "none" /\ Idle.port = NoPort
  /\ Off \in UnitRow /\ Off.on = FALSE
BY DefaultModelAssumption DEF Idle, Off, LoopRow, UnitRow, Stores, NoPort

\* A unit that is started reads what is there.
LEMMA StartedFacts ==
  ASSUME HomeType, SwapType, NEW p \in Projects, NEW c \in Stores
  PROVE  /\ Started(p, c) \in UnitRow
         /\ Started(p, c).on = TRUE /\ Started(p, c).cred = c
         /\ c # NoCredential => c \in Credentials /\ Started(p, c).mat = live[c]
BY DEF Started, UnitRow, HomeType, SwapType, Stores

\* Units are started that were down, from what their links and homes say.
LEMMA StartFacts ==
  ASSUME UnitType, HomeType, SwapType, NEW S \in SUBSET Projects, start(S)
  PROVE  /\ UnitType'
         /\ \A p \in Projects :
              unit'[p] = IF p \in S /\ ~unit[p].on THEN Started(p, link[p]) ELSE unit[p]
<1>1. \A p \in Projects : link[p] \in Stores
  BY DEF HomeType
<1>2. \A p \in Projects : (IF p \in S /\ ~unit[p].on THEN Started(p, link[p]) ELSE unit[p]) \in UnitRow
  BY <1>1, StartedFacts DEF UnitType
<1> QED
  BY <1>2 DEF start, UnitType

\* Units are stopped.
LEMMA StopFacts ==
  ASSUME UnitType, NEW S \in SUBSET Projects, stop(S)
  PROVE  /\ UnitType'
         /\ \A p \in Projects : unit'[p] = IF p \in S THEN Off ELSE unit[p]
BY RestFacts DEF stop, UnitType

\* Where ensure_running goes.
LEMMA Next1Facts ==
  ASSUME LoopType, NEW p \in Projects
  PROVE  /\ Next1(p) \in LoopRow /\ Next1(p).op \in {"idle", "boot"} /\ Next1(p).was \subseteq loop.was
         /\ Next1(p).op = "idle" => Next1(p) = Idle
         /\ Next1(p).op = "boot" => /\ Next1(p).ps = loop.ps \ {p} /\ Next1(p).step = "up"
                                    /\ loop.op = "boot" /\ Next1(p).was = loop.was
<1>1. CASE loop.op = "boot" /\ loop.ps # {p}
  <2>1. Next1(p) = [loop EXCEPT !.step = "up", !.ps = @ \ {p}]
    BY <1>1 DEF Next1
  <2> QED
    BY <1>1, <2>1 DEF LoopType, LoopRow
<1>2. CASE ~(loop.op = "boot" /\ loop.ps # {p})
  <2>1. Next1(p) = Idle
    BY <1>2 DEF Next1
  <2> QED
    BY <2>1, RestFacts
<1> QED
  BY <1>1, <1>2

\* What reserve_endpoint leaves of the rows and of the loop.
LEMMA ReserveFacts ==
  ASSUME TypeOK, NEW p \in Projects, Reserve(p)
  PROVE  /\ endpoint' \in [Projects -> Ports \union {NoPort}]
         /\ \/ loop' = Idle
            \/ /\ loop' \in LoopRow /\ loop'.op = "provision" /\ loop'.step = "build"
               /\ loop'.ps = loop.ps /\ loop'.was = loop.was /\ loop.op = "provision"
<1>1. loop \in LoopRow /\ endpoint \in [Projects -> Ports \union {NoPort}]
  BY TypeParts DEF LoopType, RowType
<1>2. endpoint' \in [Projects -> Ports \union {NoPort}]
  BY <1>1, FreePortFacts DEF Reserve
<1>3. endpoint'[p] \in Ports \union {NoPort}
  BY <1>2
<1>4. CASE loop' = [loop EXCEPT !.step = "build", !.port = endpoint'[p]]
  <2>1. loop.op = "provision"
    BY DEF Reserve, At
  <2> QED
    BY <1>1, <1>2, <1>3, <1>4, <2>1 DEF LoopRow
<1>5. CASE loop' = Idle
  BY <1>2, <1>5
<1> QED
  BY <1>4, <1>5 DEF Reserve, Done

\* What a boot begins with.
LEMMA BootFacts ==
  ASSUME TypeOK
  PROVE  Boot \in LoopRow /\ Boot.op \in {"idle", "boot"}
<1>1. BootList \in SUBSET Projects
  BY DEF BootList
<1>2. CASE BootList = {}
  BY <1>2, RestFacts DEF Boot
<1>3. CASE BootList # {}
  BY <1>1, <1>3, RestFacts DEF Boot, LoopRow
<1> QED
  BY <1>2, <1>3

\* Every step leaves the loop at something it does.
LEMMA LoopTypeStep ==
  TypeOK /\ [Next]_vars => LoopType'
<1> SUFFICES ASSUME TypeOK, [Next]_vars
             PROVE  LoopType'
  OBVIOUS
<1> USE TypeParts, RestFacts, DefaultModelAssumption
<1> USE DEF LoopType, LoopRow, Stores
<1>1. ASSUME NEW p \in Projects, ProvisionBegins(p)
      PROVE  LoopType'
  BY <1>1 DEF ProvisionBegins, Command
<1>2. ASSUME NEW p \in Projects, PrepareWorkspace(p)
      PROVE  LoopType'
  BY <1>2 DEF PrepareWorkspace, At, Works, Fails, Step, Done
<1>3. ASSUME NEW p \in Projects, Register(p)
      PROVE  LoopType'
  BY <1>3 DEF Register, At, Works, Fails, Step, Done
<1>4. ASSUME NEW p \in Projects, Reserve(p)
      PROVE  LoopType'
  BY <1>4, ReserveFacts
<1>5. ASSUME NEW p \in Projects, Build(p)
      PROVE  LoopType'
  BY <1>5 DEF Build, At, Works, Fails, Step, Done, Marked
<1>6. ASSUME NEW p \in Projects, Bind(p)
      PROVE  LoopType'
  BY <1>6 DEF Bind, At, Works, Fails, Step, Done
<1>7. ASSUME NEW p \in Projects, EnsureUp(p)
      PROVE  LoopType'
  <2>1. CASE loop' = Next1(p)
    BY <2>1, Next1Facts
  <2>2. CASE loop' = [loop EXCEPT !.step = "health", !.was = {p}, !.port = endpoint[p]]
    BY <1>7, <2>2 DEF EnsureUp, At, RowType
  <2> QED
    BY <1>7, <2>1, <2>2 DEF EnsureUp
<1>8. ASSUME NEW p \in Projects, EnsureHealthy(p)
      PROVE  LoopType'
  <2>1. Next1(p) \in LoopRow /\ Next1(p).op # "swap"
    BY Next1Facts
  <2>2. loop' = [Next1(p) EXCEPT !.was = {}, !.port = NoPort]
    BY <1>8 DEF EnsureHealthy
  <2> DEFINE n == Next1(p)
  <2> HIDE DEF n
  <2>3. [n EXCEPT !.was = {}, !.port = NoPort].op = n.op
    BY <2>1 DEF n
  <2>4. [n EXCEPT !.was = {}, !.port = NoPort] \in LoopRow
    BY <2>1 DEF n
  <2> QED
    BY <2>1, <2>2, <2>3, <2>4 DEF n
<1>9. ASSUME NEW p \in Projects, SuspendBegins(p)
      PROVE  LoopType'
  BY <1>9 DEF SuspendBegins, begin_worker_change, Command
<1>10. ASSUME NEW p \in Projects, SuspendFlag(p)
      PROVE  LoopType'
  BY <1>10 DEF SuspendFlag, At, Step, Done
<1>11. ASSUME NEW p \in Projects, SuspendStop(p)
      PROVE  LoopType'
  BY <1>11 DEF SuspendStop, At, Works, Fails, Done, stop
<1>12. ASSUME NEW p \in Projects, Resume(p)
      PROVE  LoopType'
  BY <1>12 DEF Resume, begin_worker_change, Command
<1>13. ASSUME NEW p \in Projects, NEW c \in Stores, AssignBegins(p, c)
      PROVE  LoopType'
  <2>1. credential[p] \in Stores /\ link[p] \in Stores /\ Active({p}) \in SUBSET Projects
    BY DEF RowType, HomeType, Active
  <2> QED
    BY <1>13, <2>1 DEF AssignBegins
<1>14. ASSUME NEW p \in Projects, NEW m \in Models, ModelBegins(p, m)
      PROVE  LoopType'
  <2>1. model[p] \in Models /\ config[p] \in Models /\ Active({p}) \in SUBSET Projects
    BY DEF RowType, HomeType, Active
  <2> QED
    BY <1>14, <2>1 DEF ModelBegins
<1>15. ASSUME NEW p \in Projects, ChangeStops(p)
      PROVE  LoopType'
  BY <1>15 DEF ChangeStops, At, Works, Fails, Step, stop
<1>16. ASSUME NEW p \in Projects, ChangeWrites(p)
      PROVE  LoopType'
  BY <1>16 DEF ChangeWrites, At, Works, Fails, Step
<1>17. ASSUME NEW p \in Projects, ChangeRecords(p)
      PROVE  LoopType'
  BY <1>17 DEF ChangeRecords, At, Works, Fails, Step
<1>18. ASSUME NEW p \in Projects, ChangeStarts(p)
      PROVE  LoopType'
  BY <1>18 DEF ChangeStarts, At, Works, Fails, Step, Done, start, Started
<1>19. ASSUME NEW p \in Projects, ChangeUnwrites(p)
      PROVE  LoopType'
  BY <1>19 DEF ChangeUnwrites, At, Works, Fails, Step, stop
<1>20. ASSUME NEW p \in Projects, ChangeUnrecords(p)
      PROVE  LoopType'
  BY <1>20 DEF ChangeUnrecords, At, Works, Fails, Step
<1>21. ASSUME NEW p \in Projects, ChangeRestarts(p)
      PROVE  LoopType'
  BY <1>21 DEF ChangeRestarts, At, Works, Fails, Done, start, Started, Marked
<1>22. ASSUME NEW p \in Projects, RunStarts(p)
      PROVE  LoopType'
  BY <1>22 DEF RunStarts, Changing, Linked
<1>23. ASSUME NEW p \in Projects, RunEnds(p)
      PROVE  LoopType'
  BY <1>23 DEF RunEnds
<1>24. ASSUME NEW p \in Projects, Unregister(p)
      PROVE  LoopType'
  BY <1>24 DEF Unregister
<1>25. ASSUME NEW p \in Projects, NEW e \in Ports \union {NoPort}, RegisterByHand(p, e)
      PROVE  LoopType'
  BY <1>25 DEF RegisterByHand
<1>26. ASSUME NEW k \in Credentials, SwapBegins(k)
      PROVE  LoopType'
  BY <1>26 DEF SwapBegins, begin_worker_change, Bound, Active, Readers
<1>27. CASE Unchanged
  BY <1>27 DEF Unchanged, At, Healthy, Done
<1>28. CASE SwapStops
  BY <1>28 DEF SwapStops, At, Works, Fails, Step, Done, stop
<1>29. CASE SwapAside
  BY <1>29 DEF SwapAside, At, Works, Fails, Step
<1>30. CASE SwapIn
  BY <1>30 DEF SwapIn, At, Works, Fails, Step
<1>31. CASE SwapStarts
  BY <1>31 DEF SwapStarts, At, Works, Fails, Step, start, Started
<1>32. CASE SwapUndoes
  BY <1>32 DEF SwapUndoes, At, Works, Fails, Step, Done, stop
<1>33. CASE SwapBack
  BY <1>33 DEF SwapBack, At, Works, Fails, Step, Done
<1>34. CASE SwapRestarts
  BY <1>34 DEF SwapRestarts, At, Works, Fails, Done, start, Started
<1>35. CASE SwapAccepts
  BY <1>35 DEF SwapAccepts, At, Works, Fails, Done
<1>36. CASE Crash
  BY <1>36, BootFacts DEF Crash
<1>37. CASE Reboot
  BY <1>37, BootFacts DEF Reboot
<1>38. CASE UNCHANGED vars
  BY <1>38 DEF vars
<1> QED
  BY <1>1, <1>2, <1>3, <1>4, <1>5, <1>6, <1>7, <1>8, <1>9, <1>10, <1>11, <1>12, <1>13,
     <1>14, <1>15, <1>16, <1>17, <1>18, <1>19, <1>20, <1>21, <1>22, <1>23, <1>24,
     <1>25, <1>26, <1>27, <1>28, <1>29, <1>30, <1>31, <1>32, <1>33, <1>34, <1>35,
     <1>36, <1>37, <1>38
  DEF Next

\* Every step leaves units.
LEMMA UnitTypeStep ==
  TypeOK /\ [Next]_vars => UnitType'
<1> SUFFICES ASSUME TypeOK, [Next]_vars
             PROVE  UnitType'
  OBVIOUS
<1> USE TypeParts, RestFacts
<1> USE DEF UnitType, rowVars, operatorVars, homeVars, swapVars, countVars
<1>1. ASSUME NEW p \in Projects, ProvisionBegins(p)
      PROVE  UnitType'
  BY <1>1 DEF ProvisionBegins, Command
<1>2. ASSUME NEW p \in Projects, PrepareWorkspace(p)
      PROVE  UnitType'
  BY <1>2 DEF PrepareWorkspace, At, Works, Fails, Step, Done
<1>3. ASSUME NEW p \in Projects, Register(p)
      PROVE  UnitType'
  BY <1>3 DEF Register, At, Works, Fails, Step, Done
<1>4. ASSUME NEW p \in Projects, Reserve(p)
      PROVE  UnitType'
  BY <1>4 DEF Reserve, At, Step, Done, Marked
<1>5. ASSUME NEW p \in Projects, Build(p)
      PROVE  UnitType'
  BY <1>5 DEF Build, At, Works, Fails, Step, Done, Marked
<1>6. ASSUME NEW p \in Projects, Bind(p)
      PROVE  UnitType'
  BY <1>6 DEF Bind, At, Works, Fails, Step, Done
<1>7. ASSUME NEW p \in Projects, EnsureUp(p)
      PROVE  UnitType'
  <2>1. CASE unit' = unit
    BY <2>1 DEF UnitType
  <2>2. CASE Repair(p) /\ unit' = [unit EXCEPT ![p] = Started(p, link'[p])]
    <3>1. link'[p] \in Stores
      BY <2>2 DEF Repair, Relinked, HomeType, RowType
    <3>2. Started(p, link'[p]) \in UnitRow
      BY <3>1, StartedFacts
    <3> QED
      BY <2>2, <3>2 DEF UnitType
  <2> QED
    BY <1>7, <2>1, <2>2 DEF EnsureUp
<1>8. ASSUME NEW p \in Projects, EnsureHealthy(p)
      PROVE  UnitType'
  BY <1>8 DEF EnsureHealthy, At, Works, Fails, Healthy, Next1, Marked
<1>9. ASSUME NEW p \in Projects, SuspendBegins(p)
      PROVE  UnitType'
  BY <1>9 DEF SuspendBegins, begin_worker_change, Command
<1>10. ASSUME NEW p \in Projects, SuspendFlag(p)
      PROVE  UnitType'
  BY <1>10 DEF SuspendFlag, At, Step, Done
<1>11. ASSUME NEW p \in Projects, SuspendStop(p)
      PROVE  UnitType'
  BY <1>11 DEF SuspendStop, At, Works, Fails, Done, stop
<1>12. ASSUME NEW p \in Projects, Resume(p)
      PROVE  UnitType'
  BY <1>12 DEF Resume, begin_worker_change, Command
<1>13. ASSUME NEW p \in Projects, NEW c \in Stores, AssignBegins(p, c)
      PROVE  UnitType'
  BY <1>13 DEF AssignBegins, Bound, begin_worker_change, Active
<1>14. ASSUME NEW p \in Projects, NEW m \in Models, ModelBegins(p, m)
      PROVE  UnitType'
  BY <1>14 DEF ModelBegins, Bound, begin_worker_change, Active
<1>15. ASSUME NEW p \in Projects, ChangeStops(p)
      PROVE  UnitType'
  BY <1>15 DEF ChangeStops, At, Works, Fails, Step, stop
<1>16. ASSUME NEW p \in Projects, ChangeWrites(p)
      PROVE  UnitType'
  BY <1>16 DEF ChangeWrites, At, Works, Fails, Step
<1>17. ASSUME NEW p \in Projects, ChangeRecords(p)
      PROVE  UnitType'
  BY <1>17 DEF ChangeRecords, At, Works, Fails, Step
<1>18. ASSUME NEW p \in Projects, ChangeStarts(p)
      PROVE  UnitType'
  BY <1>18, StartFacts DEF ChangeStarts, LoopType, LoopRow, UnitType
<1>19. ASSUME NEW p \in Projects, ChangeUnwrites(p)
      PROVE  UnitType'
  BY <1>19 DEF ChangeUnwrites, At, Works, Fails, Step, stop
<1>20. ASSUME NEW p \in Projects, ChangeUnrecords(p)
      PROVE  UnitType'
  BY <1>20 DEF ChangeUnrecords, At, Works, Fails, Step
<1>21. ASSUME NEW p \in Projects, ChangeRestarts(p)
      PROVE  UnitType'
  BY <1>21, StartFacts DEF ChangeRestarts, LoopType, LoopRow, UnitType
<1>22. ASSUME NEW p \in Projects, RunStarts(p)
      PROVE  UnitType'
  BY <1>22 DEF RunStarts, Changing, Linked
<1>23. ASSUME NEW p \in Projects, RunEnds(p)
      PROVE  UnitType'
  BY <1>23 DEF RunEnds
<1>24. ASSUME NEW p \in Projects, Unregister(p)
      PROVE  UnitType'
  BY <1>24 DEF Unregister
<1>25. ASSUME NEW p \in Projects, NEW e \in Ports \union {NoPort}, RegisterByHand(p, e)
      PROVE  UnitType'
  BY <1>25 DEF RegisterByHand
<1>26. ASSUME NEW k \in Credentials, SwapBegins(k)
      PROVE  UnitType'
  BY <1>26 DEF SwapBegins, begin_worker_change, Bound, Active, Readers
<1>27. CASE Unchanged
  BY <1>27 DEF Unchanged, At, Healthy, Done
<1>28. CASE SwapStops
  BY <1>28 DEF SwapStops, At, Works, Fails, Step, Done, stop
<1>29. CASE SwapAside
  BY <1>29 DEF SwapAside, At, Works, Fails, Step
<1>30. CASE SwapIn
  BY <1>30 DEF SwapIn, At, Works, Fails, Step
<1>31. CASE SwapStarts
  <2>1. PICK S \in SUBSET loop.was : start(S)
    BY <1>31 DEF SwapStarts
  <2>2. S \in SUBSET Projects
    BY <2>1 DEF LoopType, LoopRow
  <2> QED
    BY <2>1, <2>2, StartFacts
<1>32. CASE SwapUndoes
  BY <1>32 DEF SwapUndoes, At, Works, Fails, Step, Done, stop
<1>33. CASE SwapBack
  BY <1>33 DEF SwapBack, At, Works, Fails, Step, Done
<1>34. CASE SwapRestarts
  <2>1. PICK S \in SUBSET loop.was : start(S)
    BY <1>34 DEF SwapRestarts
  <2>2. S \in SUBSET Projects
    BY <2>1 DEF LoopType, LoopRow
  <2> QED
    BY <2>1, <2>2, StartFacts
<1>35. CASE SwapAccepts
  BY <1>35 DEF SwapAccepts, At, Works, Fails, Done
<1>36. CASE Crash
  BY <1>36 DEF Crash, Boot, BootList
<1>37. CASE Reboot
  BY <1>37 DEF Reboot, Boot, BootList
<1>38. CASE UNCHANGED vars
  BY <1>38 DEF vars
<1> QED
  BY <1>1, <1>2, <1>3, <1>4, <1>5, <1>6, <1>7, <1>8, <1>9, <1>10, <1>11, <1>12, <1>13,
     <1>14, <1>15, <1>16, <1>17, <1>18, <1>19, <1>20, <1>21, <1>22, <1>23, <1>24,
     <1>25, <1>26, <1>27, <1>28, <1>29, <1>30, <1>31, <1>32, <1>33, <1>34, <1>35,
     <1>36, <1>37, <1>38
  DEF Next

\* Every step leaves rows.
LEMMA RowTypeStep ==
  TypeOK /\ [Next]_vars => RowType'
<1> SUFFICES ASSUME TypeOK, [Next]_vars
             PROVE  RowType'
  OBVIOUS
<1> USE TypeParts
<1> USE DEF RowType, rowVars, operatorVars, homeVars, swapVars, countVars
<1>1. ASSUME NEW p \in Projects, ProvisionBegins(p)
      PROVE  RowType'
  BY <1>1 DEF ProvisionBegins, Command
<1>2. ASSUME NEW p \in Projects, PrepareWorkspace(p)
      PROVE  RowType'
  BY <1>2 DEF PrepareWorkspace, At, Works, Fails, Step, Done
<1>3. ASSUME NEW p \in Projects, Register(p)
      PROVE  RowType'
  BY <1>3 DEF Register, At, Works, Fails, Step, Done
<1>4. ASSUME NEW p \in Projects, Reserve(p)
      PROVE  RowType'
  <2>1. endpoint' \in [Projects -> Ports \union {NoPort}]
    BY <1>4, ReserveFacts
  <2>2. profile' \in [Projects -> {"absent", "pending", "provisioning", "ready", "failed"}]
    BY <1>4 DEF Reserve, Marked
  <2> QED
    BY <1>4, <2>1, <2>2 DEF Reserve
<1>5. ASSUME NEW p \in Projects, Build(p)
      PROVE  RowType'
  BY <1>5 DEF Build, At, Works, Fails, Step, Done, Marked
<1>6. ASSUME NEW p \in Projects, Bind(p)
      PROVE  RowType'
  <2>1. loop.port \in Ports \union {NoPort}
    BY DEF LoopType, LoopRow
  <2>2. endpoint' \in [Projects -> Ports \union {NoPort}] /\ bound' \in [Projects -> BOOLEAN]
    BY <1>6, <2>1 DEF Bind
  <2>3. profile' \in [Projects -> {"absent", "pending", "provisioning", "ready", "failed"}]
    BY <1>6 DEF Bind
  <2> QED
    BY <1>6, <2>2, <2>3 DEF Bind
<1>7. ASSUME NEW p \in Projects, EnsureUp(p)
      PROVE  RowType'
  BY <1>7 DEF EnsureUp, At, Works, Fails, Bound, Next1, Repair, Relinked, Started, Marked
<1>8. ASSUME NEW p \in Projects, EnsureHealthy(p)
      PROVE  RowType'
  BY <1>8 DEF EnsureHealthy, At, Works, Fails, Healthy, Next1, Marked
<1>9. ASSUME NEW p \in Projects, SuspendBegins(p)
      PROVE  RowType'
  BY <1>9 DEF SuspendBegins, begin_worker_change, Command
<1>10. ASSUME NEW p \in Projects, SuspendFlag(p)
      PROVE  RowType'
  BY <1>10 DEF SuspendFlag, At, Step, Done
<1>11. ASSUME NEW p \in Projects, SuspendStop(p)
      PROVE  RowType'
  BY <1>11 DEF SuspendStop, At, Works, Fails, Done, stop
<1>12. ASSUME NEW p \in Projects, Resume(p)
      PROVE  RowType'
  BY <1>12 DEF Resume, begin_worker_change, Command
<1>13. ASSUME NEW p \in Projects, NEW c \in Stores, AssignBegins(p, c)
      PROVE  RowType'
  BY <1>13 DEF AssignBegins, Bound, begin_worker_change, Active
<1>14. ASSUME NEW p \in Projects, NEW m \in Models, ModelBegins(p, m)
      PROVE  RowType'
  BY <1>14 DEF ModelBegins, Bound, begin_worker_change, Active
<1>15. ASSUME NEW p \in Projects, ChangeStops(p)
      PROVE  RowType'
  BY <1>15 DEF ChangeStops, At, Works, Fails, Step, stop
<1>16. ASSUME NEW p \in Projects, ChangeWrites(p)
      PROVE  RowType'
  BY <1>16 DEF ChangeWrites, At, Works, Fails, Step
<1>17. ASSUME NEW p \in Projects, ChangeRecords(p)
      PROVE  RowType'
  <2>1. loop.cred \in Stores /\ loop.model \in Models /\ loop.oldCred \in Stores /\ loop.oldModel \in Models
    BY DEF LoopType, LoopRow
  <2>2. credential' \in [Projects -> Stores]
    BY <1>17, <2>1 DEF ChangeRecords
  <2>3. model' \in [Projects -> Models]
    BY <1>17, <2>1 DEF ChangeRecords
  <2> QED
    BY <1>17, <2>2, <2>3 DEF ChangeRecords
<1>18. ASSUME NEW p \in Projects, ChangeStarts(p)
      PROVE  RowType'
  BY <1>18 DEF ChangeStarts, At, Works, Fails, Step, Done, start, Started
<1>19. ASSUME NEW p \in Projects, ChangeUnwrites(p)
      PROVE  RowType'
  BY <1>19 DEF ChangeUnwrites, At, Works, Fails, Step, stop
<1>20. ASSUME NEW p \in Projects, ChangeUnrecords(p)
      PROVE  RowType'
  <2>1. loop.cred \in Stores /\ loop.model \in Models /\ loop.oldCred \in Stores /\ loop.oldModel \in Models
    BY DEF LoopType, LoopRow
  <2>2. credential' \in [Projects -> Stores]
    BY <1>20, <2>1 DEF ChangeUnrecords
  <2>3. model' \in [Projects -> Models]
    BY <1>20, <2>1 DEF ChangeUnrecords
  <2> QED
    BY <1>20, <2>2, <2>3 DEF ChangeUnrecords
<1>21. ASSUME NEW p \in Projects, ChangeRestarts(p)
      PROVE  RowType'
  BY <1>21 DEF ChangeRestarts, At, Works, Fails, Done, start, Started, Marked
<1>22. ASSUME NEW p \in Projects, RunStarts(p)
      PROVE  RowType'
  BY <1>22 DEF RunStarts, Changing, Linked
<1>23. ASSUME NEW p \in Projects, RunEnds(p)
      PROVE  RowType'
  BY <1>23 DEF RunEnds
<1>24. ASSUME NEW p \in Projects, Unregister(p)
      PROVE  RowType'
  <2>1. NoCredential \in Stores /\ DefaultModel \in Models
    BY DefaultModelAssumption DEF Stores
  <2> QED
    BY <1>24, <2>1 DEF Unregister
<1>25. ASSUME NEW p \in Projects, NEW e \in Ports \union {NoPort}, RegisterByHand(p, e)
      PROVE  RowType'
  BY <1>25 DEF RegisterByHand
<1>26. ASSUME NEW k \in Credentials, SwapBegins(k)
      PROVE  RowType'
  BY <1>26 DEF SwapBegins, begin_worker_change, Bound, Active, Readers
<1>27. CASE Unchanged
  BY <1>27 DEF Unchanged, At, Healthy, Done
<1>28. CASE SwapStops
  BY <1>28 DEF SwapStops, At, Works, Fails, Step, Done, stop
<1>29. CASE SwapAside
  BY <1>29 DEF SwapAside, At, Works, Fails, Step
<1>30. CASE SwapIn
  BY <1>30 DEF SwapIn, At, Works, Fails, Step
<1>31. CASE SwapStarts
  BY <1>31 DEF SwapStarts, At, Works, Fails, Step, start, Started
<1>32. CASE SwapUndoes
  BY <1>32 DEF SwapUndoes, At, Works, Fails, Step, Done, stop
<1>33. CASE SwapBack
  BY <1>33 DEF SwapBack, At, Works, Fails, Step, Done
<1>34. CASE SwapRestarts
  BY <1>34 DEF SwapRestarts, At, Works, Fails, Done, start, Started
<1>35. CASE SwapAccepts
  BY <1>35 DEF SwapAccepts, At, Works, Fails, Done
<1>36. CASE Crash
  BY <1>36 DEF Crash, Boot, BootList
<1>37. CASE Reboot
  BY <1>37 DEF Reboot, Boot, BootList
<1>38. CASE UNCHANGED vars
  BY <1>38 DEF vars
<1> QED
  BY <1>1, <1>2, <1>3, <1>4, <1>5, <1>6, <1>7, <1>8, <1>9, <1>10, <1>11, <1>12, <1>13,
     <1>14, <1>15, <1>16, <1>17, <1>18, <1>19, <1>20, <1>21, <1>22, <1>23, <1>24,
     <1>25, <1>26, <1>27, <1>28, <1>29, <1>30, <1>31, <1>32, <1>33, <1>34, <1>35,
     <1>36, <1>37, <1>38
  DEF Next

\* Every step leaves homes.
LEMMA HomeTypeStep ==
  TypeOK /\ [Next]_vars => HomeType'
<1> SUFFICES ASSUME TypeOK, [Next]_vars
             PROVE  HomeType'
  OBVIOUS
<1> USE TypeParts
<1> USE DEF HomeType, rowVars, operatorVars, homeVars, swapVars, countVars
<1>1. ASSUME NEW p \in Projects, ProvisionBegins(p)
      PROVE  HomeType'
  BY <1>1 DEF ProvisionBegins, Command
<1>2. ASSUME NEW p \in Projects, PrepareWorkspace(p)
      PROVE  HomeType'
  BY <1>2 DEF PrepareWorkspace, At, Works, Fails, Step, Done
<1>3. ASSUME NEW p \in Projects, Register(p)
      PROVE  HomeType'
  BY <1>3 DEF Register, At, Works, Fails, Step, Done
<1>4. ASSUME NEW p \in Projects, Reserve(p)
      PROVE  HomeType'
  BY <1>4 DEF Reserve, At, Step, Done, Marked
<1>5. ASSUME NEW p \in Projects, Build(p)
      PROVE  HomeType'
  <2>1. loop.port \in Ports \union {NoPort} /\ NoCredential \in Stores
    BY DEF LoopType, LoopRow, Stores
  <2> QED
    BY <1>5, <2>1, DefaultModelAssumption DEF Build
<1>6. ASSUME NEW p \in Projects, Bind(p)
      PROVE  HomeType'
  BY <1>6 DEF Bind, At, Works, Fails, Step, Done
<1>7. ASSUME NEW p \in Projects, EnsureUp(p)
      PROVE  HomeType'
  <2>1. link' \in [Projects -> Stores]
    BY <1>7 DEF EnsureUp, Repair, Relinked, RowType
  <2> QED
    BY <1>7, <2>1 DEF EnsureUp
<1>8. ASSUME NEW p \in Projects, EnsureHealthy(p)
      PROVE  HomeType'
  BY <1>8 DEF EnsureHealthy, At, Works, Fails, Healthy, Next1, Marked
<1>9. ASSUME NEW p \in Projects, SuspendBegins(p)
      PROVE  HomeType'
  BY <1>9 DEF SuspendBegins, begin_worker_change, Command
<1>10. ASSUME NEW p \in Projects, SuspendFlag(p)
      PROVE  HomeType'
  BY <1>10 DEF SuspendFlag, At, Step, Done
<1>11. ASSUME NEW p \in Projects, SuspendStop(p)
      PROVE  HomeType'
  BY <1>11 DEF SuspendStop, At, Works, Fails, Done, stop
<1>12. ASSUME NEW p \in Projects, Resume(p)
      PROVE  HomeType'
  BY <1>12 DEF Resume, begin_worker_change, Command
<1>13. ASSUME NEW p \in Projects, NEW c \in Stores, AssignBegins(p, c)
      PROVE  HomeType'
  BY <1>13 DEF AssignBegins, Bound, begin_worker_change, Active
<1>14. ASSUME NEW p \in Projects, NEW m \in Models, ModelBegins(p, m)
      PROVE  HomeType'
  BY <1>14 DEF ModelBegins, Bound, begin_worker_change, Active
<1>15. ASSUME NEW p \in Projects, ChangeStops(p)
      PROVE  HomeType'
  BY <1>15 DEF ChangeStops, At, Works, Fails, Step, stop
<1>16. ASSUME NEW p \in Projects, ChangeWrites(p)
      PROVE  HomeType'
  <2>1. loop.cred \in Stores /\ loop.model \in Models /\ loop.oldLink \in Stores /\ loop.oldConfig \in Models
    BY DEF LoopType, LoopRow
  <2>2. link' \in [Projects -> Stores]
    BY <1>16, <2>1 DEF ChangeWrites
  <2>3. config' \in [Projects -> Models]
    BY <1>16, <2>1 DEF ChangeWrites
  <2> QED
    BY <1>16, <2>2, <2>3 DEF ChangeWrites
<1>17. ASSUME NEW p \in Projects, ChangeRecords(p)
      PROVE  HomeType'
  BY <1>17 DEF ChangeRecords, At, Works, Fails, Step
<1>18. ASSUME NEW p \in Projects, ChangeStarts(p)
      PROVE  HomeType'
  BY <1>18 DEF ChangeStarts, At, Works, Fails, Step, Done, start, Started
<1>19. ASSUME NEW p \in Projects, ChangeUnwrites(p)
      PROVE  HomeType'
  <2>1. loop.cred \in Stores /\ loop.model \in Models /\ loop.oldLink \in Stores /\ loop.oldConfig \in Models
    BY DEF LoopType, LoopRow
  <2>2. link' \in [Projects -> Stores]
    BY <1>19, <2>1 DEF ChangeUnwrites
  <2>3. config' \in [Projects -> Models]
    BY <1>19, <2>1 DEF ChangeUnwrites
  <2> QED
    BY <1>19, <2>2, <2>3 DEF ChangeUnwrites
<1>20. ASSUME NEW p \in Projects, ChangeUnrecords(p)
      PROVE  HomeType'
  BY <1>20 DEF ChangeUnrecords, At, Works, Fails, Step
<1>21. ASSUME NEW p \in Projects, ChangeRestarts(p)
      PROVE  HomeType'
  BY <1>21 DEF ChangeRestarts, At, Works, Fails, Done, start, Started, Marked
<1>22. ASSUME NEW p \in Projects, RunStarts(p)
      PROVE  HomeType'
  BY <1>22 DEF RunStarts, Changing, Linked
<1>23. ASSUME NEW p \in Projects, RunEnds(p)
      PROVE  HomeType'
  BY <1>23 DEF RunEnds
<1>24. ASSUME NEW p \in Projects, Unregister(p)
      PROVE  HomeType'
  BY <1>24 DEF Unregister
<1>25. ASSUME NEW p \in Projects, NEW e \in Ports \union {NoPort}, RegisterByHand(p, e)
      PROVE  HomeType'
  BY <1>25 DEF RegisterByHand
<1>26. ASSUME NEW k \in Credentials, SwapBegins(k)
      PROVE  HomeType'
  BY <1>26 DEF SwapBegins, begin_worker_change, Bound, Active, Readers
<1>27. CASE Unchanged
  BY <1>27 DEF Unchanged, At, Healthy, Done
<1>28. CASE SwapStops
  BY <1>28 DEF SwapStops, At, Works, Fails, Step, Done, stop
<1>29. CASE SwapAside
  BY <1>29 DEF SwapAside, At, Works, Fails, Step
<1>30. CASE SwapIn
  BY <1>30 DEF SwapIn, At, Works, Fails, Step
<1>31. CASE SwapStarts
  BY <1>31 DEF SwapStarts, At, Works, Fails, Step, start, Started
<1>32. CASE SwapUndoes
  BY <1>32 DEF SwapUndoes, At, Works, Fails, Step, Done, stop
<1>33. CASE SwapBack
  BY <1>33 DEF SwapBack, At, Works, Fails, Step, Done
<1>34. CASE SwapRestarts
  BY <1>34 DEF SwapRestarts, At, Works, Fails, Done, start, Started
<1>35. CASE SwapAccepts
  BY <1>35 DEF SwapAccepts, At, Works, Fails, Done
<1>36. CASE Crash
  BY <1>36 DEF Crash, Boot, BootList
<1>37. CASE Reboot
  BY <1>37 DEF Reboot, Boot, BootList
<1>38. CASE UNCHANGED vars
  BY <1>38 DEF vars
<1> QED
  BY <1>1, <1>2, <1>3, <1>4, <1>5, <1>6, <1>7, <1>8, <1>9, <1>10, <1>11, <1>12, <1>13,
     <1>14, <1>15, <1>16, <1>17, <1>18, <1>19, <1>20, <1>21, <1>22, <1>23, <1>24,
     <1>25, <1>26, <1>27, <1>28, <1>29, <1>30, <1>31, <1>32, <1>33, <1>34, <1>35,
     <1>36, <1>37, <1>38
  DEF Next

\* Every step leaves materials.
LEMMA SwapTypeStep ==
  TypeOK /\ [Next]_vars => SwapType'
<1> SUFFICES ASSUME TypeOK, [Next]_vars
             PROVE  SwapType'
  OBVIOUS
<1> USE TypeParts
<1> USE DEF SwapType, rowVars, operatorVars, homeVars, swapVars, countVars
<1>1. ASSUME NEW p \in Projects, ProvisionBegins(p)
      PROVE  SwapType'
  BY <1>1 DEF ProvisionBegins, Command
<1>2. ASSUME NEW p \in Projects, PrepareWorkspace(p)
      PROVE  SwapType'
  BY <1>2 DEF PrepareWorkspace, At, Works, Fails, Step, Done
<1>3. ASSUME NEW p \in Projects, Register(p)
      PROVE  SwapType'
  BY <1>3 DEF Register, At, Works, Fails, Step, Done
<1>4. ASSUME NEW p \in Projects, Reserve(p)
      PROVE  SwapType'
  BY <1>4 DEF Reserve, At, Step, Done, Marked
<1>5. ASSUME NEW p \in Projects, Build(p)
      PROVE  SwapType'
  BY <1>5 DEF Build, At, Works, Fails, Step, Done, Marked
<1>6. ASSUME NEW p \in Projects, Bind(p)
      PROVE  SwapType'
  BY <1>6 DEF Bind, At, Works, Fails, Step, Done
<1>7. ASSUME NEW p \in Projects, EnsureUp(p)
      PROVE  SwapType'
  BY <1>7 DEF EnsureUp, At, Works, Fails, Bound, Next1, Repair, Relinked, Started, Marked
<1>8. ASSUME NEW p \in Projects, EnsureHealthy(p)
      PROVE  SwapType'
  BY <1>8 DEF EnsureHealthy, At, Works, Fails, Healthy, Next1, Marked
<1>9. ASSUME NEW p \in Projects, SuspendBegins(p)
      PROVE  SwapType'
  BY <1>9 DEF SuspendBegins, begin_worker_change, Command
<1>10. ASSUME NEW p \in Projects, SuspendFlag(p)
      PROVE  SwapType'
  BY <1>10 DEF SuspendFlag, At, Step, Done
<1>11. ASSUME NEW p \in Projects, SuspendStop(p)
      PROVE  SwapType'
  BY <1>11 DEF SuspendStop, At, Works, Fails, Done, stop
<1>12. ASSUME NEW p \in Projects, Resume(p)
      PROVE  SwapType'
  BY <1>12 DEF Resume, begin_worker_change, Command
<1>13. ASSUME NEW p \in Projects, NEW c \in Stores, AssignBegins(p, c)
      PROVE  SwapType'
  BY <1>13 DEF AssignBegins, Bound, begin_worker_change, Active
<1>14. ASSUME NEW p \in Projects, NEW m \in Models, ModelBegins(p, m)
      PROVE  SwapType'
  BY <1>14 DEF ModelBegins, Bound, begin_worker_change, Active
<1>15. ASSUME NEW p \in Projects, ChangeStops(p)
      PROVE  SwapType'
  BY <1>15 DEF ChangeStops, At, Works, Fails, Step, stop
<1>16. ASSUME NEW p \in Projects, ChangeWrites(p)
      PROVE  SwapType'
  BY <1>16 DEF ChangeWrites, At, Works, Fails, Step
<1>17. ASSUME NEW p \in Projects, ChangeRecords(p)
      PROVE  SwapType'
  BY <1>17 DEF ChangeRecords, At, Works, Fails, Step
<1>18. ASSUME NEW p \in Projects, ChangeStarts(p)
      PROVE  SwapType'
  BY <1>18 DEF ChangeStarts, At, Works, Fails, Step, Done, start, Started
<1>19. ASSUME NEW p \in Projects, ChangeUnwrites(p)
      PROVE  SwapType'
  BY <1>19 DEF ChangeUnwrites, At, Works, Fails, Step, stop
<1>20. ASSUME NEW p \in Projects, ChangeUnrecords(p)
      PROVE  SwapType'
  BY <1>20 DEF ChangeUnrecords, At, Works, Fails, Step
<1>21. ASSUME NEW p \in Projects, ChangeRestarts(p)
      PROVE  SwapType'
  BY <1>21 DEF ChangeRestarts, At, Works, Fails, Done, start, Started, Marked
<1>22. ASSUME NEW p \in Projects, RunStarts(p)
      PROVE  SwapType'
  BY <1>22 DEF RunStarts, Changing, Linked
<1>23. ASSUME NEW p \in Projects, RunEnds(p)
      PROVE  SwapType'
  BY <1>23 DEF RunEnds
<1>24. ASSUME NEW p \in Projects, Unregister(p)
      PROVE  SwapType'
  BY <1>24 DEF Unregister
<1>25. ASSUME NEW p \in Projects, NEW e \in Ports \union {NoPort}, RegisterByHand(p, e)
      PROVE  SwapType'
  BY <1>25 DEF RegisterByHand
<1>26. ASSUME NEW k \in Credentials, SwapBegins(k)
      PROVE  SwapType'
  BY <1>26 DEF SwapBegins, begin_worker_change, Bound, Active, Readers
<1>27. CASE Unchanged
  BY <1>27 DEF Unchanged, At, Healthy, Done
<1>28. CASE SwapStops
  BY <1>28 DEF SwapStops, At, Works, Fails, Step, Done, stop
<1>29. CASE SwapAside
  BY <1>29 DEF SwapAside, At, Works, Fails, Step
<1>30. CASE SwapIn
  BY <1>30 DEF SwapIn, At, Works, Fails, Step
<1>31. CASE SwapStarts
  BY <1>31 DEF SwapStarts, At, Works, Fails, Step, start, Started
<1>32. CASE SwapUndoes
  BY <1>32 DEF SwapUndoes, At, Works, Fails, Step, Done, stop
<1>33. CASE SwapBack
  BY <1>33 DEF SwapBack, At, Works, Fails, Step, Done
<1>34. CASE SwapRestarts
  BY <1>34 DEF SwapRestarts, At, Works, Fails, Done, start, Started
<1>35. CASE SwapAccepts
  BY <1>35 DEF SwapAccepts, At, Works, Fails, Done
<1>36. CASE Crash
  BY <1>36 DEF Crash, Boot, BootList
<1>37. CASE Reboot
  BY <1>37 DEF Reboot, Boot, BootList
<1>38. CASE UNCHANGED vars
  BY <1>38 DEF vars
<1> QED
  BY <1>1, <1>2, <1>3, <1>4, <1>5, <1>6, <1>7, <1>8, <1>9, <1>10, <1>11, <1>12, <1>13,
     <1>14, <1>15, <1>16, <1>17, <1>18, <1>19, <1>20, <1>21, <1>22, <1>23, <1>24,
     <1>25, <1>26, <1>27, <1>28, <1>29, <1>30, <1>31, <1>32, <1>33, <1>34, <1>35,
     <1>36, <1>37, <1>38
  DEF Next

\* Every step leaves counts.
LEMMA CountTypeStep ==
  TypeOK /\ [Next]_vars => CountType'
<1> SUFFICES ASSUME TypeOK, [Next]_vars
             PROVE  CountType'
  OBVIOUS
<1> USE TypeParts
<1> USE DEF CountType, rowVars, operatorVars, homeVars, swapVars, countVars
<1>1. ASSUME NEW p \in Projects, ProvisionBegins(p)
      PROVE  CountType'
  BY <1>1 DEF ProvisionBegins, Command
<1>2. ASSUME NEW p \in Projects, PrepareWorkspace(p)
      PROVE  CountType'
  BY <1>2 DEF PrepareWorkspace, At, Works, Fails, Step, Done
<1>3. ASSUME NEW p \in Projects, Register(p)
      PROVE  CountType'
  BY <1>3 DEF Register, At, Works, Fails, Step, Done
<1>4. ASSUME NEW p \in Projects, Reserve(p)
      PROVE  CountType'
  BY <1>4 DEF Reserve, At, Step, Done, Marked
<1>5. ASSUME NEW p \in Projects, Build(p)
      PROVE  CountType'
  BY <1>5 DEF Build, At, Works, Fails, Step, Done, Marked
<1>6. ASSUME NEW p \in Projects, Bind(p)
      PROVE  CountType'
  BY <1>6 DEF Bind, At, Works, Fails, Step, Done
<1>7. ASSUME NEW p \in Projects, EnsureUp(p)
      PROVE  CountType'
  BY <1>7 DEF EnsureUp, At, Works, Fails, Bound, Next1, Repair, Relinked, Started, Marked
<1>8. ASSUME NEW p \in Projects, EnsureHealthy(p)
      PROVE  CountType'
  BY <1>8 DEF EnsureHealthy, At, Works, Fails, Healthy, Next1, Marked
<1>9. ASSUME NEW p \in Projects, SuspendBegins(p)
      PROVE  CountType'
  BY <1>9 DEF SuspendBegins, begin_worker_change, Command
<1>10. ASSUME NEW p \in Projects, SuspendFlag(p)
      PROVE  CountType'
  BY <1>10 DEF SuspendFlag, At, Step, Done
<1>11. ASSUME NEW p \in Projects, SuspendStop(p)
      PROVE  CountType'
  BY <1>11 DEF SuspendStop, At, Works, Fails, Done, stop
<1>12. ASSUME NEW p \in Projects, Resume(p)
      PROVE  CountType'
  BY <1>12 DEF Resume, begin_worker_change, Command
<1>13. ASSUME NEW p \in Projects, NEW c \in Stores, AssignBegins(p, c)
      PROVE  CountType'
  BY <1>13 DEF AssignBegins, Bound, begin_worker_change, Active
<1>14. ASSUME NEW p \in Projects, NEW m \in Models, ModelBegins(p, m)
      PROVE  CountType'
  BY <1>14 DEF ModelBegins, Bound, begin_worker_change, Active
<1>15. ASSUME NEW p \in Projects, ChangeStops(p)
      PROVE  CountType'
  BY <1>15 DEF ChangeStops, At, Works, Fails, Step, stop
<1>16. ASSUME NEW p \in Projects, ChangeWrites(p)
      PROVE  CountType'
  BY <1>16 DEF ChangeWrites, At, Works, Fails, Step
<1>17. ASSUME NEW p \in Projects, ChangeRecords(p)
      PROVE  CountType'
  BY <1>17 DEF ChangeRecords, At, Works, Fails, Step
<1>18. ASSUME NEW p \in Projects, ChangeStarts(p)
      PROVE  CountType'
  BY <1>18 DEF ChangeStarts, At, Works, Fails, Step, Done, start, Started
<1>19. ASSUME NEW p \in Projects, ChangeUnwrites(p)
      PROVE  CountType'
  BY <1>19 DEF ChangeUnwrites, At, Works, Fails, Step, stop
<1>20. ASSUME NEW p \in Projects, ChangeUnrecords(p)
      PROVE  CountType'
  BY <1>20 DEF ChangeUnrecords, At, Works, Fails, Step
<1>21. ASSUME NEW p \in Projects, ChangeRestarts(p)
      PROVE  CountType'
  BY <1>21 DEF ChangeRestarts, At, Works, Fails, Done, start, Started, Marked
<1>22. ASSUME NEW p \in Projects, RunStarts(p)
      PROVE  CountType'
  BY <1>22 DEF RunStarts, Changing, Linked
<1>23. ASSUME NEW p \in Projects, RunEnds(p)
      PROVE  CountType'
  BY <1>23 DEF RunEnds
<1>24. ASSUME NEW p \in Projects, Unregister(p)
      PROVE  CountType'
  BY <1>24 DEF Unregister
<1>25. ASSUME NEW p \in Projects, NEW e \in Ports \union {NoPort}, RegisterByHand(p, e)
      PROVE  CountType'
  BY <1>25 DEF RegisterByHand
<1>26. ASSUME NEW k \in Credentials, SwapBegins(k)
      PROVE  CountType'
  BY <1>26 DEF SwapBegins, begin_worker_change, Bound, Active, Readers
<1>27. CASE Unchanged
  BY <1>27 DEF Unchanged, At, Healthy, Done
<1>28. CASE SwapStops
  BY <1>28 DEF SwapStops, At, Works, Fails, Step, Done, stop
<1>29. CASE SwapAside
  BY <1>29 DEF SwapAside, At, Works, Fails, Step
<1>30. CASE SwapIn
  BY <1>30 DEF SwapIn, At, Works, Fails, Step
<1>31. CASE SwapStarts
  BY <1>31 DEF SwapStarts, At, Works, Fails, Step, start, Started
<1>32. CASE SwapUndoes
  BY <1>32 DEF SwapUndoes, At, Works, Fails, Step, Done, stop
<1>33. CASE SwapBack
  BY <1>33 DEF SwapBack, At, Works, Fails, Step, Done
<1>34. CASE SwapRestarts
  BY <1>34 DEF SwapRestarts, At, Works, Fails, Done, start, Started
<1>35. CASE SwapAccepts
  BY <1>35 DEF SwapAccepts, At, Works, Fails, Done
<1>36. CASE Crash
  BY <1>36 DEF Crash, Boot, BootList
<1>37. CASE Reboot
  BY <1>37 DEF Reboot, Boot, BootList
<1>38. CASE UNCHANGED vars
  BY <1>38 DEF vars
<1> QED
  BY <1>1, <1>2, <1>3, <1>4, <1>5, <1>6, <1>7, <1>8, <1>9, <1>10, <1>11, <1>12, <1>13,
     <1>14, <1>15, <1>16, <1>17, <1>18, <1>19, <1>20, <1>21, <1>22, <1>23, <1>24,
     <1>25, <1>26, <1>27, <1>28, <1>29, <1>30, <1>31, <1>32, <1>33, <1>34, <1>35,
     <1>36, <1>37, <1>38
  DEF Next

\* Every step keeps the types.
LEMMA TypeStep == TypeOK /\ [Next]_vars => TypeOK'
<1>1. (TypeOK <=> LoopType /\ UnitType /\ RowType /\ HomeType /\ SwapType /\ CountType)'
  BY TypeParts, PTL
<1> QED
  BY <1>1, LoopTypeStep, UnitTypeStep, RowTypeStep, HomeTypeStep, SwapTypeStep, CountTypeStep

\* Every step keeps what the loop works on apart from the runs.
LEMMA LoopStep ==
  TypeOK /\ LoopInv /\ [Next]_vars => LoopInv'
<1> SUFFICES ASSUME TypeOK, LoopInv, [Next]_vars
             PROVE  LoopInv'
  OBVIOUS
<1> USE TypeParts, RestFacts
<1> USE DEF LoopInv, Changing, LoopType, CountType, rowVars, operatorVars, homeVars,
            swapVars, countVars
<1>1. ASSUME NEW p \in Projects, ProvisionBegins(p)
      PROVE  LoopInv'
  BY <1>1 DEF ProvisionBegins, Command, LoopRow
<1>2. ASSUME NEW p \in Projects, PrepareWorkspace(p)
      PROVE  LoopInv'
  BY <1>2 DEF PrepareWorkspace, At, Works, Fails, Step, Done, LoopRow
<1>3. ASSUME NEW p \in Projects, Register(p)
      PROVE  LoopInv'
  BY <1>3 DEF Register, At, Works, Fails, Step, Done, LoopRow
<1>4. ASSUME NEW p \in Projects, Reserve(p)
      PROVE  LoopInv'
  <2>1. UNCHANGED inRun
    BY <1>4 DEF Reserve
  <2> QED
    BY <1>4, <2>1, ReserveFacts
<1>5. ASSUME NEW p \in Projects, Build(p)
      PROVE  LoopInv'
  BY <1>5 DEF Build, At, Works, Fails, Step, Done, Marked, LoopRow
<1>6. ASSUME NEW p \in Projects, Bind(p)
      PROVE  LoopInv'
  BY <1>6 DEF Bind, At, Works, Fails, Step, Done, LoopRow
<1>7. ASSUME NEW p \in Projects, EnsureUp(p)
      PROVE  LoopInv'
  <2>1. CASE loop' = Next1(p)
    BY <1>7, <2>1, Next1Facts DEF EnsureUp, At
  <2>2. CASE loop' = [loop EXCEPT !.step = "health", !.was = {p}, !.port = endpoint[p]]
    BY <1>7, <2>2 DEF EnsureUp, At, LoopRow
  <2> QED
    BY <1>7, <2>1, <2>2 DEF EnsureUp
<1>8. ASSUME NEW p \in Projects, EnsureHealthy(p)
      PROVE  LoopInv'
  <2>1. Next1(p) \in LoopRow
    BY Next1Facts
  <2>2. /\ loop'.op = Next1(p).op /\ loop'.ps = Next1(p).ps /\ loop'.step = Next1(p).step
        /\ loop'.was = {}
    BY <1>8, <2>1 DEF EnsureHealthy, LoopRow
  <2> QED
    BY <1>8, <2>2, Next1Facts DEF EnsureHealthy
<1>9. ASSUME NEW p \in Projects, SuspendBegins(p)
      PROVE  LoopInv'
  BY <1>9 DEF SuspendBegins, begin_worker_change, Command, LoopRow
<1>10. ASSUME NEW p \in Projects, SuspendFlag(p)
      PROVE  LoopInv'
  BY <1>10 DEF SuspendFlag, At, Step, Done, LoopRow
<1>11. ASSUME NEW p \in Projects, SuspendStop(p)
      PROVE  LoopInv'
  BY <1>11 DEF SuspendStop, At, Works, Fails, Done, stop, LoopRow
<1>12. ASSUME NEW p \in Projects, Resume(p)
      PROVE  LoopInv'
  BY <1>12 DEF Resume, begin_worker_change, Command, LoopRow
<1>13. ASSUME NEW p \in Projects, NEW c \in Stores, AssignBegins(p, c)
      PROVE  LoopInv'
  BY <1>13 DEF AssignBegins, Bound, begin_worker_change, Active, LoopRow
<1>14. ASSUME NEW p \in Projects, NEW m \in Models, ModelBegins(p, m)
      PROVE  LoopInv'
  BY <1>14 DEF ModelBegins, Bound, begin_worker_change, Active, LoopRow
<1>15. ASSUME NEW p \in Projects, ChangeStops(p)
      PROVE  LoopInv'
  BY <1>15 DEF ChangeStops, At, Works, Fails, Step, stop, LoopRow
<1>16. ASSUME NEW p \in Projects, ChangeWrites(p)
      PROVE  LoopInv'
  BY <1>16 DEF ChangeWrites, At, Works, Fails, Step, LoopRow
<1>17. ASSUME NEW p \in Projects, ChangeRecords(p)
      PROVE  LoopInv'
  BY <1>17 DEF ChangeRecords, At, Works, Fails, Step, LoopRow
<1>18. ASSUME NEW p \in Projects, ChangeStarts(p)
      PROVE  LoopInv'
  BY <1>18 DEF ChangeStarts, At, Works, Fails, Step, Done, start, Started, LoopRow
<1>19. ASSUME NEW p \in Projects, ChangeUnwrites(p)
      PROVE  LoopInv'
  BY <1>19 DEF ChangeUnwrites, At, Works, Fails, Step, stop, LoopRow
<1>20. ASSUME NEW p \in Projects, ChangeUnrecords(p)
      PROVE  LoopInv'
  BY <1>20 DEF ChangeUnrecords, At, Works, Fails, Step, LoopRow
<1>21. ASSUME NEW p \in Projects, ChangeRestarts(p)
      PROVE  LoopInv'
  BY <1>21 DEF ChangeRestarts, At, Works, Fails, Done, start, Started, Marked, LoopRow
<1>22. ASSUME NEW p \in Projects, RunStarts(p)
      PROVE  LoopInv'
  BY <1>22 DEF RunStarts, Changing, Linked, LoopRow
<1>23. ASSUME NEW p \in Projects, RunEnds(p)
      PROVE  LoopInv'
  BY <1>23 DEF RunEnds, LoopRow
<1>24. ASSUME NEW p \in Projects, Unregister(p)
      PROVE  LoopInv'
  BY <1>24 DEF Unregister, LoopRow
<1>25. ASSUME NEW p \in Projects, NEW e \in Ports \union {NoPort}, RegisterByHand(p, e)
      PROVE  LoopInv'
  BY <1>25 DEF RegisterByHand, LoopRow
<1>26. ASSUME NEW k \in Credentials, SwapBegins(k)
      PROVE  LoopInv'
  BY <1>26 DEF SwapBegins, begin_worker_change, Bound, Active, Readers, LoopRow
<1>27. CASE Unchanged
  BY <1>27 DEF Unchanged, At, Healthy, Done, LoopRow
<1>28. CASE SwapStops
  BY <1>28 DEF SwapStops, At, Works, Fails, Step, Done, stop, LoopRow
<1>29. CASE SwapAside
  BY <1>29 DEF SwapAside, At, Works, Fails, Step, LoopRow
<1>30. CASE SwapIn
  BY <1>30 DEF SwapIn, At, Works, Fails, Step, LoopRow
<1>31. CASE SwapStarts
  BY <1>31 DEF SwapStarts, At, Works, Fails, Step, start, Started, LoopRow
<1>32. CASE SwapUndoes
  BY <1>32 DEF SwapUndoes, At, Works, Fails, Step, Done, stop, LoopRow
<1>33. CASE SwapBack
  BY <1>33 DEF SwapBack, At, Works, Fails, Step, Done, LoopRow
<1>34. CASE SwapRestarts
  BY <1>34 DEF SwapRestarts, At, Works, Fails, Done, start, Started, LoopRow
<1>35. CASE SwapAccepts
  BY <1>35 DEF SwapAccepts, At, Works, Fails, Done, LoopRow
<1>36. CASE Crash
  BY <1>36 DEF Crash, Boot, BootList, LoopRow
<1>37. CASE Reboot
  BY <1>37 DEF Reboot, Boot, BootList, LoopRow
<1>38. CASE UNCHANGED vars
  BY <1>38 DEF vars
<1> QED
  BY <1>1, <1>2, <1>3, <1>4, <1>5, <1>6, <1>7, <1>8, <1>9, <1>10, <1>11, <1>12, <1>13,
     <1>14, <1>15, <1>16, <1>17, <1>18, <1>19, <1>20, <1>21, <1>22, <1>23, <1>24,
     <1>25, <1>26, <1>27, <1>28, <1>29, <1>30, <1>31, <1>32, <1>33, <1>34, <1>35,
     <1>36, <1>37, <1>38
  DEF Next

\* No step stops or replaces a worker under a run.
LEMMA UndisturbedStep ==
  TypeOK /\ LoopInv /\ [Next]_vars => \A q \in Projects : inRun[q] /\ inRun'[q] /\ unit[q].on => unit'[q] = unit[q]
<1> SUFFICES ASSUME TypeOK, LoopInv, [Next]_vars
             PROVE  \A q \in Projects : inRun[q] /\ inRun'[q] /\ unit[q].on => unit'[q] = unit[q]
  OBVIOUS
<1> USE TypeParts, RestFacts
<1> USE DEF LoopInv, Changing, LoopType, rowVars, operatorVars, homeVars, swapVars,
            countVars
<1>1. ASSUME NEW p \in Projects, ProvisionBegins(p)
      PROVE  \A q \in Projects : inRun[q] /\ inRun'[q] /\ unit[q].on => unit'[q] = unit[q]
  BY <1>1 DEF ProvisionBegins, Command
<1>2. ASSUME NEW p \in Projects, PrepareWorkspace(p)
      PROVE  \A q \in Projects : inRun[q] /\ inRun'[q] /\ unit[q].on => unit'[q] = unit[q]
  BY <1>2 DEF PrepareWorkspace, At, Works, Fails, Step, Done
<1>3. ASSUME NEW p \in Projects, Register(p)
      PROVE  \A q \in Projects : inRun[q] /\ inRun'[q] /\ unit[q].on => unit'[q] = unit[q]
  BY <1>3 DEF Register, At, Works, Fails, Step, Done
<1>4. ASSUME NEW p \in Projects, Reserve(p)
      PROVE  \A q \in Projects : inRun[q] /\ inRun'[q] /\ unit[q].on => unit'[q] = unit[q]
  BY <1>4 DEF Reserve, At, Step, Done, Marked
<1>5. ASSUME NEW p \in Projects, Build(p)
      PROVE  \A q \in Projects : inRun[q] /\ inRun'[q] /\ unit[q].on => unit'[q] = unit[q]
  BY <1>5 DEF Build, At, Works, Fails, Step, Done, Marked
<1>6. ASSUME NEW p \in Projects, Bind(p)
      PROVE  \A q \in Projects : inRun[q] /\ inRun'[q] /\ unit[q].on => unit'[q] = unit[q]
  BY <1>6 DEF Bind, At, Works, Fails, Step, Done
<1>7. ASSUME NEW p \in Projects, EnsureUp(p)
      PROVE  \A q \in Projects : inRun[q] /\ inRun'[q] /\ unit[q].on => unit'[q] = unit[q]
  BY <1>7 DEF EnsureUp, UnitType, Started
<1>8. ASSUME NEW p \in Projects, EnsureHealthy(p)
      PROVE  \A q \in Projects : inRun[q] /\ inRun'[q] /\ unit[q].on => unit'[q] = unit[q]
  BY <1>8 DEF EnsureHealthy, At, Works, Fails, Healthy, Next1, Marked
<1>9. ASSUME NEW p \in Projects, SuspendBegins(p)
      PROVE  \A q \in Projects : inRun[q] /\ inRun'[q] /\ unit[q].on => unit'[q] = unit[q]
  BY <1>9 DEF SuspendBegins, begin_worker_change, Command
<1>10. ASSUME NEW p \in Projects, SuspendFlag(p)
      PROVE  \A q \in Projects : inRun[q] /\ inRun'[q] /\ unit[q].on => unit'[q] = unit[q]
  BY <1>10 DEF SuspendFlag, At, Step, Done
<1>11. ASSUME NEW p \in Projects, SuspendStop(p)
      PROVE  \A q \in Projects : inRun[q] /\ inRun'[q] /\ unit[q].on => unit'[q] = unit[q]
  BY <1>11 DEF SuspendStop, stop, At, LoopRow
<1>12. ASSUME NEW p \in Projects, Resume(p)
      PROVE  \A q \in Projects : inRun[q] /\ inRun'[q] /\ unit[q].on => unit'[q] = unit[q]
  BY <1>12 DEF Resume, begin_worker_change, Command
<1>13. ASSUME NEW p \in Projects, NEW c \in Stores, AssignBegins(p, c)
      PROVE  \A q \in Projects : inRun[q] /\ inRun'[q] /\ unit[q].on => unit'[q] = unit[q]
  BY <1>13 DEF AssignBegins, Bound, begin_worker_change, Active
<1>14. ASSUME NEW p \in Projects, NEW m \in Models, ModelBegins(p, m)
      PROVE  \A q \in Projects : inRun[q] /\ inRun'[q] /\ unit[q].on => unit'[q] = unit[q]
  BY <1>14 DEF ModelBegins, Bound, begin_worker_change, Active
<1>15. ASSUME NEW p \in Projects, ChangeStops(p)
      PROVE  \A q \in Projects : inRun[q] /\ inRun'[q] /\ unit[q].on => unit'[q] = unit[q]
  BY <1>15 DEF ChangeStops, stop, At, LoopRow
<1>16. ASSUME NEW p \in Projects, ChangeWrites(p)
      PROVE  \A q \in Projects : inRun[q] /\ inRun'[q] /\ unit[q].on => unit'[q] = unit[q]
  BY <1>16 DEF ChangeWrites, At, Works, Fails, Step
<1>17. ASSUME NEW p \in Projects, ChangeRecords(p)
      PROVE  \A q \in Projects : inRun[q] /\ inRun'[q] /\ unit[q].on => unit'[q] = unit[q]
  BY <1>17 DEF ChangeRecords, At, Works, Fails, Step
<1>18. ASSUME NEW p \in Projects, ChangeStarts(p)
      PROVE  \A q \in Projects : inRun[q] /\ inRun'[q] /\ unit[q].on => unit'[q] = unit[q]
  BY <1>18 DEF ChangeStarts, start, At, LoopRow
<1>19. ASSUME NEW p \in Projects, ChangeUnwrites(p)
      PROVE  \A q \in Projects : inRun[q] /\ inRun'[q] /\ unit[q].on => unit'[q] = unit[q]
  BY <1>19 DEF ChangeUnwrites, stop, At, LoopRow
<1>20. ASSUME NEW p \in Projects, ChangeUnrecords(p)
      PROVE  \A q \in Projects : inRun[q] /\ inRun'[q] /\ unit[q].on => unit'[q] = unit[q]
  BY <1>20 DEF ChangeUnrecords, At, Works, Fails, Step
<1>21. ASSUME NEW p \in Projects, ChangeRestarts(p)
      PROVE  \A q \in Projects : inRun[q] /\ inRun'[q] /\ unit[q].on => unit'[q] = unit[q]
  BY <1>21 DEF ChangeRestarts, start, At, LoopRow
<1>22. ASSUME NEW p \in Projects, RunStarts(p)
      PROVE  \A q \in Projects : inRun[q] /\ inRun'[q] /\ unit[q].on => unit'[q] = unit[q]
  BY <1>22 DEF RunStarts, Changing, Linked
<1>23. ASSUME NEW p \in Projects, RunEnds(p)
      PROVE  \A q \in Projects : inRun[q] /\ inRun'[q] /\ unit[q].on => unit'[q] = unit[q]
  BY <1>23 DEF RunEnds
<1>24. ASSUME NEW p \in Projects, Unregister(p)
      PROVE  \A q \in Projects : inRun[q] /\ inRun'[q] /\ unit[q].on => unit'[q] = unit[q]
  BY <1>24 DEF Unregister
<1>25. ASSUME NEW p \in Projects, NEW e \in Ports \union {NoPort}, RegisterByHand(p, e)
      PROVE  \A q \in Projects : inRun[q] /\ inRun'[q] /\ unit[q].on => unit'[q] = unit[q]
  BY <1>25 DEF RegisterByHand
<1>26. ASSUME NEW k \in Credentials, SwapBegins(k)
      PROVE  \A q \in Projects : inRun[q] /\ inRun'[q] /\ unit[q].on => unit'[q] = unit[q]
  BY <1>26 DEF SwapBegins, begin_worker_change, Bound, Active, Readers
<1>27. CASE Unchanged
  BY <1>27 DEF Unchanged, At, Healthy, Done
<1>28. CASE SwapStops
  BY <1>28 DEF SwapStops, stop, At, LoopRow
<1>29. CASE SwapAside
  BY <1>29 DEF SwapAside, At, Works, Fails, Step
<1>30. CASE SwapIn
  BY <1>30 DEF SwapIn, At, Works, Fails, Step
<1>31. CASE SwapStarts
  BY <1>31 DEF SwapStarts, start, At, LoopRow
<1>32. CASE SwapUndoes
  BY <1>32 DEF SwapUndoes, stop, At, LoopRow
<1>33. CASE SwapBack
  BY <1>33 DEF SwapBack, At, Works, Fails, Step, Done
<1>34. CASE SwapRestarts
  BY <1>34 DEF SwapRestarts, start, At, LoopRow
<1>35. CASE SwapAccepts
  BY <1>35 DEF SwapAccepts, At, Works, Fails, Done
<1>36. CASE Crash
  BY <1>36 DEF Crash, Boot, BootList
<1>37. CASE Reboot
  BY <1>37 DEF Reboot, Boot, BootList
<1>38. CASE UNCHANGED vars
  BY <1>38 DEF vars
<1> QED
  BY <1>1, <1>2, <1>3, <1>4, <1>5, <1>6, <1>7, <1>8, <1>9, <1>10, <1>11, <1>12, <1>13,
     <1>14, <1>15, <1>16, <1>17, <1>18, <1>19, <1>20, <1>21, <1>22, <1>23, <1>24,
     <1>25, <1>26, <1>27, <1>28, <1>29, <1>30, <1>31, <1>32, <1>33, <1>34, <1>35,
     <1>36, <1>37, <1>38
  DEF Next

\* What ensure_running leaves of the loop.
LEMMA EnsureUpLoop ==
  ASSUME TypeOK, NEW p \in Projects, EnsureUp(p)
  PROVE  /\ loop'.op \in {"idle", "provision", "resume", "boot"} /\ loop'.step \in {"none", "up", "health"}
         /\ loop.op = "boot" /\ loop.ps # {p} =>
              loop'.op = "boot" /\ \A q \in loop.ps : q # p => q \in loop'.ps
<1> USE TypeParts DEF LoopType
<1>1. CASE loop' = [loop EXCEPT !.step = "health", !.was = {p}, !.port = endpoint[p]]
  BY <1>1 DEF EnsureUp, At, LoopRow
<1>2. CASE loop' = [loop EXCEPT !.step = "up", !.ps = @ \ {p}] /\ loop.op = "boot"
  BY <1>2 DEF LoopRow
<1>3. CASE loop' = Idle /\ ~(loop.op = "boot" /\ loop.ps # {p})
  BY <1>3 DEF Idle
<1> QED
  BY <1>1, <1>2, <1>3 DEF EnsureUp, Next1

\* Every step leaves every project its own port.
LEMMA PortStep ==
  TypeOK /\ LoopInv /\ PortInv /\ OwnEndpoint /\ [Next]_vars => PortInv' /\ OwnEndpoint'
<1> SUFFICES ASSUME TypeOK, LoopInv, PortInv, OwnEndpoint, [Next]_vars
             PROVE  PortInv' /\ OwnEndpoint'
  OBVIOUS
<1> USE TypeParts, RestFacts
<1> USE DEF LoopInv, PortInv, OwnEndpoint, LoopType, LoopRow, RowType, HomeType,
            CountType, rowVars, operatorVars, homeVars, swapVars, countVars
<1>1. ASSUME NEW p \in Projects, ProvisionBegins(p)
      PROVE  PortInv' /\ OwnEndpoint'
  BY <1>1 DEF ProvisionBegins, Command
<1>2. ASSUME NEW p \in Projects, PrepareWorkspace(p)
      PROVE  PortInv' /\ OwnEndpoint'
  BY <1>2 DEF PrepareWorkspace, At, Works, Fails, Step, Done
<1>3. ASSUME NEW p \in Projects, Register(p)
      PROVE  PortInv' /\ OwnEndpoint'
  BY <1>3 DEF Register, At, Works, Fails, Step, Done
<1>4. ASSUME NEW p \in Projects, Reserve(p)
      PROVE  PortInv' /\ OwnEndpoint'
  <2>1. UNCHANGED <<home, operatorVars>> /\ loop.op = "provision" /\ p \in loop.ps
    BY <1>4 DEF Reserve, At
  <2>2. \A q \in Projects : profile'[q] = "absent" <=> profile[q] = "absent"
    BY <1>4 DEF Reserve, Marked
  <2>3. CASE Done /\ UNCHANGED endpoint
    BY <2>1, <2>2, <2>3 DEF Done
  <2>4. CASE /\ profile[p] # "absent" /\ (endpoint[p] # NoPort \/ FreePorts # {})
             /\ endpoint' = [endpoint EXCEPT ![p] = IF @ = NoPort THEN LeastPort(FreePorts) ELSE @]
             /\ loop' = [loop EXCEPT !.step = "build", !.port = endpoint'[p]]
    <3> DEFINE n == IF endpoint[p] = NoPort THEN LeastPort(FreePorts) ELSE endpoint[p]
    <3>1. n # NoPort /\ (endpoint[p] = NoPort => \A q \in Projects : endpoint[q] # n)
      BY <2>4, FreePortFacts
    <3>2. endpoint[p] # NoPort => n = endpoint[p]
      OBVIOUS
    <3>3. endpoint' = [endpoint EXCEPT ![p] = n]
      BY <2>4
    <3> HIDE DEF n
    <3>4. \A q \in Projects : endpoint'[q] = IF q = p THEN n ELSE endpoint[q]
      BY <3>3
    <3>5. loop'.op = "provision" /\ loop'.ps = loop.ps /\ loop'.port = n
      BY <2>1, <2>4, <3>4
    <3>6. PortInv'
      BY <2>1, <2>2, <2>4, <3>1, <3>4, <3>5
    <3>7. OwnEndpoint'
      BY <2>1, <3>1, <3>2, <3>4 DEF NoPort
    <3> QED
      BY <3>6, <3>7
  <2> QED
    BY <1>4, <2>3, <2>4 DEF Reserve
<1>5. ASSUME NEW p \in Projects, Build(p)
      PROVE  PortInv' /\ OwnEndpoint'
  BY <1>5 DEF Build, At, Works, Fails, Step, Done, Marked
<1>6. ASSUME NEW p \in Projects, Bind(p)
      PROVE  PortInv' /\ OwnEndpoint'
  BY <1>6 DEF Bind, At, Works, Fails, Step, Done
<1>7. ASSUME NEW p \in Projects, EnsureUp(p)
      PROVE  PortInv' /\ OwnEndpoint'
  <2>1. loop'.op # "provision" \/ loop'.step \notin {"build", "bind"}
    BY <1>7, EnsureUpLoop
  <2>2. UNCHANGED <<endpoint, home, operatorVars>>
    BY <1>7 DEF EnsureUp
  <2>3. \A q \in Projects : profile'[q] = "absent" <=> profile[q] = "absent"
    BY <1>7 DEF EnsureUp, Marked
  <2> QED
    BY <2>1, <2>2, <2>3
<1>8. ASSUME NEW p \in Projects, EnsureHealthy(p)
      PROVE  PortInv' /\ OwnEndpoint'
  <2>1. Next1(p) \in LoopRow
    BY Next1Facts
  <2>2. loop'.op = Next1(p).op
    BY <1>8, <2>1 DEF EnsureHealthy, LoopRow
  <2>3. loop'.op # "provision"
    BY <2>2, Next1Facts
  <2>4. UNCHANGED <<endpoint, home, operatorVars>>
    BY <1>8 DEF EnsureHealthy
  <2>5. \A q \in Projects : profile'[q] = "absent" <=> profile[q] = "absent"
    BY <1>8 DEF EnsureHealthy, Marked
  <2> QED
    BY <2>3, <2>4, <2>5
<1>9. ASSUME NEW p \in Projects, SuspendBegins(p)
      PROVE  PortInv' /\ OwnEndpoint'
  BY <1>9 DEF SuspendBegins, begin_worker_change, Command
<1>10. ASSUME NEW p \in Projects, SuspendFlag(p)
      PROVE  PortInv' /\ OwnEndpoint'
  BY <1>10 DEF SuspendFlag, At, Step, Done
<1>11. ASSUME NEW p \in Projects, SuspendStop(p)
      PROVE  PortInv' /\ OwnEndpoint'
  BY <1>11 DEF SuspendStop, At, Works, Fails, Done, stop
<1>12. ASSUME NEW p \in Projects, Resume(p)
      PROVE  PortInv' /\ OwnEndpoint'
  BY <1>12 DEF Resume, begin_worker_change, Command
<1>13. ASSUME NEW p \in Projects, NEW c \in Stores, AssignBegins(p, c)
      PROVE  PortInv' /\ OwnEndpoint'
  BY <1>13 DEF AssignBegins, Bound, begin_worker_change, Active
<1>14. ASSUME NEW p \in Projects, NEW m \in Models, ModelBegins(p, m)
      PROVE  PortInv' /\ OwnEndpoint'
  BY <1>14 DEF ModelBegins, Bound, begin_worker_change, Active
<1>15. ASSUME NEW p \in Projects, ChangeStops(p)
      PROVE  PortInv' /\ OwnEndpoint'
  BY <1>15 DEF ChangeStops, At, Works, Fails, Step, stop
<1>16. ASSUME NEW p \in Projects, ChangeWrites(p)
      PROVE  PortInv' /\ OwnEndpoint'
  BY <1>16 DEF ChangeWrites, At, Works, Fails, Step
<1>17. ASSUME NEW p \in Projects, ChangeRecords(p)
      PROVE  PortInv' /\ OwnEndpoint'
  BY <1>17 DEF ChangeRecords, At, Works, Fails, Step
<1>18. ASSUME NEW p \in Projects, ChangeStarts(p)
      PROVE  PortInv' /\ OwnEndpoint'
  BY <1>18 DEF ChangeStarts, At, Works, Fails, Step, Done, start, Started
<1>19. ASSUME NEW p \in Projects, ChangeUnwrites(p)
      PROVE  PortInv' /\ OwnEndpoint'
  <2>1. loop.op # "provision" /\ loop'.op = loop.op
    BY <1>19 DEF ChangeUnwrites, At, Step
  <2>2. UNCHANGED <<profile, endpoint, home, operatorVars>>
    BY <1>19 DEF ChangeUnwrites
  <2> QED
    BY <2>1, <2>2
<1>20. ASSUME NEW p \in Projects, ChangeUnrecords(p)
      PROVE  PortInv' /\ OwnEndpoint'
  <2>1. loop.op # "provision" /\ loop'.op = loop.op
    BY <1>20 DEF ChangeUnrecords, At, Step
  <2>2. UNCHANGED <<profile, endpoint, home, operatorVars>>
    BY <1>20 DEF ChangeUnrecords
  <2> QED
    BY <2>1, <2>2
<1>21. ASSUME NEW p \in Projects, ChangeRestarts(p)
      PROVE  PortInv' /\ OwnEndpoint'
  BY <1>21 DEF ChangeRestarts, At, Works, Fails, Done, start, Started, Marked
<1>22. ASSUME NEW p \in Projects, RunStarts(p)
      PROVE  PortInv' /\ OwnEndpoint'
  BY <1>22 DEF RunStarts, Changing, Linked
<1>23. ASSUME NEW p \in Projects, RunEnds(p)
      PROVE  PortInv' /\ OwnEndpoint'
  BY <1>23 DEF RunEnds
<1>24. ASSUME NEW p \in Projects, Unregister(p)
      PROVE  PortInv' /\ OwnEndpoint'
  BY <1>24 DEF Unregister
<1>25. ASSUME NEW p \in Projects, NEW e \in Ports \union {NoPort}, RegisterByHand(p, e)
      PROVE  PortInv' /\ OwnEndpoint'
  BY <1>25 DEF RegisterByHand
<1>26. ASSUME NEW k \in Credentials, SwapBegins(k)
      PROVE  PortInv' /\ OwnEndpoint'
  BY <1>26 DEF SwapBegins, begin_worker_change, Bound, Active, Readers
<1>27. CASE Unchanged
  BY <1>27 DEF Unchanged, At, Healthy, Done
<1>28. CASE SwapStops
  BY <1>28 DEF SwapStops, At, Works, Fails, Step, Done, stop
<1>29. CASE SwapAside
  BY <1>29 DEF SwapAside, At, Works, Fails, Step
<1>30. CASE SwapIn
  BY <1>30 DEF SwapIn, At, Works, Fails, Step
<1>31. CASE SwapStarts
  BY <1>31 DEF SwapStarts, At, Works, Fails, Step, start, Started
<1>32. CASE SwapUndoes
  BY <1>32 DEF SwapUndoes, At, Works, Fails, Step, Done, stop
<1>33. CASE SwapBack
  BY <1>33 DEF SwapBack, At, Works, Fails, Step, Done
<1>34. CASE SwapRestarts
  BY <1>34 DEF SwapRestarts, At, Works, Fails, Done, start, Started
<1>35. CASE SwapAccepts
  BY <1>35 DEF SwapAccepts, At, Works, Fails, Done
<1>36. CASE Crash
  BY <1>36 DEF Crash, Boot, BootList
<1>37. CASE Reboot
  BY <1>37 DEF Reboot, Boot, BootList
<1>38. CASE UNCHANGED vars
  BY <1>38 DEF vars
<1> QED
  BY <1>1, <1>2, <1>3, <1>4, <1>5, <1>6, <1>7, <1>8, <1>9, <1>10, <1>11, <1>12, <1>13,
     <1>14, <1>15, <1>16, <1>17, <1>18, <1>19, <1>20, <1>21, <1>22, <1>23, <1>24,
     <1>25, <1>26, <1>27, <1>28, <1>29, <1>30, <1>31, <1>32, <1>33, <1>34, <1>35,
     <1>36, <1>37, <1>38
  DEF Next

\* Every step keeps the proven material in place or aside.
LEMMA ProvenStep ==
  TypeOK /\ SwapInv /\ ProvenKept /\ [Next]_vars => SwapInv' /\ ProvenKept'
<1> SUFFICES ASSUME TypeOK, SwapInv, ProvenKept, [Next]_vars
             PROVE  SwapInv' /\ ProvenKept'
  OBVIOUS
<1> USE TypeParts, RestFacts
<1> USE DEF SwapInv, ProvenKept, LoopType, LoopRow, SwapType, rowVars, operatorVars,
            homeVars, swapVars, countVars
<1>1. ASSUME NEW p \in Projects, ProvisionBegins(p)
      PROVE  SwapInv' /\ ProvenKept'
  BY <1>1 DEF ProvisionBegins, Command
<1>2. ASSUME NEW p \in Projects, PrepareWorkspace(p)
      PROVE  SwapInv' /\ ProvenKept'
  BY <1>2 DEF PrepareWorkspace, At, Works, Fails, Step, Done
<1>3. ASSUME NEW p \in Projects, Register(p)
      PROVE  SwapInv' /\ ProvenKept'
  BY <1>3 DEF Register, At, Works, Fails, Step, Done
<1>4. ASSUME NEW p \in Projects, Reserve(p)
      PROVE  SwapInv' /\ ProvenKept'
  BY <1>4 DEF Reserve, At, Step, Done, Marked
<1>5. ASSUME NEW p \in Projects, Build(p)
      PROVE  SwapInv' /\ ProvenKept'
  BY <1>5 DEF Build, At, Works, Fails, Step, Done, Marked
<1>6. ASSUME NEW p \in Projects, Bind(p)
      PROVE  SwapInv' /\ ProvenKept'
  BY <1>6 DEF Bind, At, Works, Fails, Step, Done
<1>7. ASSUME NEW p \in Projects, EnsureUp(p)
      PROVE  SwapInv' /\ ProvenKept'
  BY <1>7 DEF EnsureUp, At, Works, Fails, Bound, Next1, Repair, Relinked, Started, Marked
<1>8. ASSUME NEW p \in Projects, EnsureHealthy(p)
      PROVE  SwapInv' /\ ProvenKept'
  BY <1>8 DEF EnsureHealthy, At, Works, Fails, Healthy, Next1, Marked
<1>9. ASSUME NEW p \in Projects, SuspendBegins(p)
      PROVE  SwapInv' /\ ProvenKept'
  BY <1>9 DEF SuspendBegins, begin_worker_change, Command
<1>10. ASSUME NEW p \in Projects, SuspendFlag(p)
      PROVE  SwapInv' /\ ProvenKept'
  BY <1>10 DEF SuspendFlag, At, Step, Done
<1>11. ASSUME NEW p \in Projects, SuspendStop(p)
      PROVE  SwapInv' /\ ProvenKept'
  BY <1>11 DEF SuspendStop, At, Works, Fails, Done, stop
<1>12. ASSUME NEW p \in Projects, Resume(p)
      PROVE  SwapInv' /\ ProvenKept'
  BY <1>12 DEF Resume, begin_worker_change, Command
<1>13. ASSUME NEW p \in Projects, NEW c \in Stores, AssignBegins(p, c)
      PROVE  SwapInv' /\ ProvenKept'
  BY <1>13 DEF AssignBegins, Bound, begin_worker_change, Active
<1>14. ASSUME NEW p \in Projects, NEW m \in Models, ModelBegins(p, m)
      PROVE  SwapInv' /\ ProvenKept'
  BY <1>14 DEF ModelBegins, Bound, begin_worker_change, Active
<1>15. ASSUME NEW p \in Projects, ChangeStops(p)
      PROVE  SwapInv' /\ ProvenKept'
  BY <1>15 DEF ChangeStops, At, Works, Fails, Step, stop
<1>16. ASSUME NEW p \in Projects, ChangeWrites(p)
      PROVE  SwapInv' /\ ProvenKept'
  BY <1>16 DEF ChangeWrites, At, Works, Fails, Step
<1>17. ASSUME NEW p \in Projects, ChangeRecords(p)
      PROVE  SwapInv' /\ ProvenKept'
  BY <1>17 DEF ChangeRecords, At, Works, Fails, Step
<1>18. ASSUME NEW p \in Projects, ChangeStarts(p)
      PROVE  SwapInv' /\ ProvenKept'
  BY <1>18 DEF ChangeStarts, At, Works, Fails, Step, Done, start, Started
<1>19. ASSUME NEW p \in Projects, ChangeUnwrites(p)
      PROVE  SwapInv' /\ ProvenKept'
  BY <1>19 DEF ChangeUnwrites, At, Works, Fails, Step, stop
<1>20. ASSUME NEW p \in Projects, ChangeUnrecords(p)
      PROVE  SwapInv' /\ ProvenKept'
  BY <1>20 DEF ChangeUnrecords, At, Works, Fails, Step
<1>21. ASSUME NEW p \in Projects, ChangeRestarts(p)
      PROVE  SwapInv' /\ ProvenKept'
  BY <1>21 DEF ChangeRestarts, At, Works, Fails, Done, start, Started, Marked
<1>22. ASSUME NEW p \in Projects, RunStarts(p)
      PROVE  SwapInv' /\ ProvenKept'
  BY <1>22 DEF RunStarts, Changing, Linked
<1>23. ASSUME NEW p \in Projects, RunEnds(p)
      PROVE  SwapInv' /\ ProvenKept'
  BY <1>23 DEF RunEnds
<1>24. ASSUME NEW p \in Projects, Unregister(p)
      PROVE  SwapInv' /\ ProvenKept'
  BY <1>24 DEF Unregister
<1>25. ASSUME NEW p \in Projects, NEW e \in Ports \union {NoPort}, RegisterByHand(p, e)
      PROVE  SwapInv' /\ ProvenKept'
  BY <1>25 DEF RegisterByHand
<1>26. ASSUME NEW k \in Credentials, SwapBegins(k)
      PROVE  SwapInv' /\ ProvenKept'
  BY <1>26 DEF SwapBegins, begin_worker_change, Bound, Active, Readers
<1>27. CASE Unchanged
  BY <1>27 DEF Unchanged, At, Healthy, Done
<1>28. CASE SwapStops
  BY <1>28 DEF SwapStops, At, Works, Fails, Step, Done, stop
<1>29. CASE SwapAside
  BY <1>29 DEF SwapAside, At, Works, Fails, Step
<1>30. CASE SwapIn
  BY <1>30 DEF SwapIn, At, Works, Fails, Step
<1>31. CASE SwapStarts
  BY <1>31 DEF SwapStarts, At, Works, Fails, Step, start, Started
<1>32. CASE SwapUndoes
  BY <1>32 DEF SwapUndoes, At, Works, Fails, Step, Done, stop
<1>33. CASE SwapBack
  BY <1>33 DEF SwapBack, At, Works, Fails, Step, Done
<1>34. CASE SwapRestarts
  BY <1>34 DEF SwapRestarts, At, Works, Fails, Done, start, Started
<1>35. CASE SwapAccepts
  BY <1>35 DEF SwapAccepts, At, Works, Fails, Done
<1>36. CASE Crash
  BY <1>36 DEF Crash, Boot, BootList
<1>37. CASE Reboot
  BY <1>37 DEF Reboot, Boot, BootList
<1>38. CASE UNCHANGED vars
  BY <1>38 DEF vars
<1> QED
  BY <1>1, <1>2, <1>3, <1>4, <1>5, <1>6, <1>7, <1>8, <1>9, <1>10, <1>11, <1>12, <1>13,
     <1>14, <1>15, <1>16, <1>17, <1>18, <1>19, <1>20, <1>21, <1>22, <1>23, <1>24,
     <1>25, <1>26, <1>27, <1>28, <1>29, <1>30, <1>31, <1>32, <1>33, <1>34, <1>35,
     <1>36, <1>37, <1>38
  DEF Next

\* Every step leaves what has no home without a credential.
LEMMA HomeStep ==
  TypeOK /\ LoopInv /\ PortInv /\ HomeInv /\ [Next]_vars => HomeInv'
<1> SUFFICES ASSUME TypeOK, LoopInv, PortInv, HomeInv, [Next]_vars
             PROVE  HomeInv'
  OBVIOUS
<1> USE TypeParts, RestFacts
<1> USE DEF LoopInv, PortInv, HomeInv, LoopType, LoopRow, RowType, HomeType, rowVars,
            operatorVars, homeVars, swapVars, countVars
<1>1. ASSUME NEW p \in Projects, ProvisionBegins(p)
      PROVE  HomeInv'
  BY <1>1 DEF ProvisionBegins, Command
<1>2. ASSUME NEW p \in Projects, PrepareWorkspace(p)
      PROVE  HomeInv'
  BY <1>2 DEF PrepareWorkspace, At, Works, Fails, Step, Done
<1>3. ASSUME NEW p \in Projects, Register(p)
      PROVE  HomeInv'
  BY <1>3 DEF Register, At, Works, Fails, Step, Done
<1>4. ASSUME NEW p \in Projects, Reserve(p)
      PROVE  HomeInv'
  BY <1>4 DEF Reserve, At, Step, Done, Marked
<1>5. ASSUME NEW p \in Projects, Build(p)
      PROVE  HomeInv'
  BY <1>5 DEF Build, At, Works, Fails, Step, Done, Marked
<1>6. ASSUME NEW p \in Projects, Bind(p)
      PROVE  HomeInv'
  BY <1>6 DEF Bind, At, Works, Fails, Step, Done
<1>7. ASSUME NEW p \in Projects, EnsureUp(p)
      PROVE  HomeInv'
  <2>1. UNCHANGED <<home, bound, credential>>
    BY <1>7 DEF EnsureUp
  <2>2. \A q \in Projects : home[q] = NoPort => link'[q] = NoCredential
    BY <1>7 DEF EnsureUp, Repair, Relinked
  <2> QED
    BY <1>7, <2>1, <2>2, EnsureUpLoop
<1>8. ASSUME NEW p \in Projects, EnsureHealthy(p)
      PROVE  HomeInv'
  BY <1>8 DEF EnsureHealthy, At, Works, Fails, Healthy, Next1, Marked
<1>9. ASSUME NEW p \in Projects, SuspendBegins(p)
      PROVE  HomeInv'
  BY <1>9 DEF SuspendBegins, begin_worker_change, Command
<1>10. ASSUME NEW p \in Projects, SuspendFlag(p)
      PROVE  HomeInv'
  BY <1>10 DEF SuspendFlag, At, Step, Done
<1>11. ASSUME NEW p \in Projects, SuspendStop(p)
      PROVE  HomeInv'
  BY <1>11 DEF SuspendStop, At, Works, Fails, Done, stop
<1>12. ASSUME NEW p \in Projects, Resume(p)
      PROVE  HomeInv'
  BY <1>12 DEF Resume, begin_worker_change, Command
<1>13. ASSUME NEW p \in Projects, NEW c \in Stores, AssignBegins(p, c)
      PROVE  HomeInv'
  BY <1>13 DEF AssignBegins, Bound, begin_worker_change, Active
<1>14. ASSUME NEW p \in Projects, NEW m \in Models, ModelBegins(p, m)
      PROVE  HomeInv'
  BY <1>14 DEF ModelBegins, Bound, begin_worker_change, Active
<1>15. ASSUME NEW p \in Projects, ChangeStops(p)
      PROVE  HomeInv'
  BY <1>15 DEF ChangeStops, At, Works, Fails, Step, stop
<1>16. ASSUME NEW p \in Projects, ChangeWrites(p)
      PROVE  HomeInv'
  BY <1>16 DEF ChangeWrites, At, Works, Fails, Step
<1>17. ASSUME NEW p \in Projects, ChangeRecords(p)
      PROVE  HomeInv'
  BY <1>17 DEF ChangeRecords, At, Works, Fails, Step
<1>18. ASSUME NEW p \in Projects, ChangeStarts(p)
      PROVE  HomeInv'
  BY <1>18 DEF ChangeStarts, At, Works, Fails, Step, Done, start, Started
<1>19. ASSUME NEW p \in Projects, ChangeUnwrites(p)
      PROVE  HomeInv'
  <2>1. loop'.op = loop.op /\ loop'.ps = loop.ps /\ loop'.step = "unrecord"
    BY <1>19 DEF ChangeUnwrites, Step
  <2>2. UNCHANGED <<home, bound, credential>>
    BY <1>19 DEF ChangeUnwrites
  <2>3. \A q \in Projects : home[q] = NoPort => link'[q] = NoCredential
    BY <1>19 DEF ChangeUnwrites, At
  <2> QED
    BY <2>1, <2>2, <2>3
<1>20. ASSUME NEW p \in Projects, ChangeUnrecords(p)
      PROVE  HomeInv'
  <2>1. loop'.op = loop.op /\ loop'.ps = loop.ps /\ loop'.step = "restart"
    BY <1>20 DEF ChangeUnrecords, Step
  <2>2. UNCHANGED <<home, bound, link>>
    BY <1>20 DEF ChangeUnrecords
  <2>3. \A q \in Projects : home[q] = NoPort => credential'[q] = NoCredential
    BY <1>20 DEF ChangeUnrecords, At
  <2> QED
    BY <2>1, <2>2, <2>3
<1>21. ASSUME NEW p \in Projects, ChangeRestarts(p)
      PROVE  HomeInv'
  BY <1>21 DEF ChangeRestarts, At, Works, Fails, Done, start, Started, Marked
<1>22. ASSUME NEW p \in Projects, RunStarts(p)
      PROVE  HomeInv'
  BY <1>22 DEF RunStarts, Changing, Linked
<1>23. ASSUME NEW p \in Projects, RunEnds(p)
      PROVE  HomeInv'
  BY <1>23 DEF RunEnds
<1>24. ASSUME NEW p \in Projects, Unregister(p)
      PROVE  HomeInv'
  BY <1>24 DEF Unregister
<1>25. ASSUME NEW p \in Projects, NEW e \in Ports \union {NoPort}, RegisterByHand(p, e)
      PROVE  HomeInv'
  BY <1>25 DEF RegisterByHand
<1>26. ASSUME NEW k \in Credentials, SwapBegins(k)
      PROVE  HomeInv'
  BY <1>26 DEF SwapBegins, begin_worker_change, Bound, Active, Readers
<1>27. CASE Unchanged
  BY <1>27 DEF Unchanged, At, Healthy, Done
<1>28. CASE SwapStops
  BY <1>28 DEF SwapStops, At, Works, Fails, Step, Done, stop
<1>29. CASE SwapAside
  BY <1>29 DEF SwapAside, At, Works, Fails, Step
<1>30. CASE SwapIn
  BY <1>30 DEF SwapIn, At, Works, Fails, Step
<1>31. CASE SwapStarts
  BY <1>31 DEF SwapStarts, At, Works, Fails, Step, start, Started
<1>32. CASE SwapUndoes
  BY <1>32 DEF SwapUndoes, At, Works, Fails, Step, Done, stop
<1>33. CASE SwapBack
  BY <1>33 DEF SwapBack, At, Works, Fails, Step, Done
<1>34. CASE SwapRestarts
  BY <1>34 DEF SwapRestarts, At, Works, Fails, Done, start, Started
<1>35. CASE SwapAccepts
  BY <1>35 DEF SwapAccepts, At, Works, Fails, Done
<1>36. CASE Crash
  BY <1>36 DEF Crash, Boot, BootList
<1>37. CASE Reboot
  BY <1>37 DEF Reboot, Boot, BootList
<1>38. CASE UNCHANGED vars
  BY <1>38 DEF vars
<1> QED
  BY <1>1, <1>2, <1>3, <1>4, <1>5, <1>6, <1>7, <1>8, <1>9, <1>10, <1>11, <1>12, <1>13,
     <1>14, <1>15, <1>16, <1>17, <1>18, <1>19, <1>20, <1>21, <1>22, <1>23, <1>24,
     <1>25, <1>26, <1>27, <1>28, <1>29, <1>30, <1>31, <1>32, <1>33, <1>34, <1>35,
     <1>36, <1>37, <1>38
  DEF Next

\* Every step leaves an assignment where it is.
LEMMA AssignStep ==
  "ignored" \notin Hazards /\ TypeOK /\ LoopInv /\ LinkInv /\ AssignInv /\ [Next]_vars => AssignInv'
<1> SUFFICES ASSUME "ignored" \notin Hazards, TypeOK, LoopInv, LinkInv, AssignInv, [Next]_vars
             PROVE  AssignInv'
  OBVIOUS
<1> USE TypeParts, RestFacts
<1> USE DEF LoopInv, AssignInv, Bound, LoopType, LoopRow, RowType, HomeType, UnitType,
            rowVars, operatorVars, homeVars, swapVars, countVars
<1>1. ASSUME NEW p \in Projects, ProvisionBegins(p)
      PROVE  AssignInv'
  BY <1>1 DEF ProvisionBegins, Command
<1>2. ASSUME NEW p \in Projects, PrepareWorkspace(p)
      PROVE  AssignInv'
  BY <1>2 DEF PrepareWorkspace, At, Works, Fails, Step, Done
<1>3. ASSUME NEW p \in Projects, Register(p)
      PROVE  AssignInv'
  BY <1>3 DEF Register, At, Works, Fails, Step, Done
<1>4. ASSUME NEW p \in Projects, Reserve(p)
      PROVE  AssignInv'
  BY <1>4, ReserveFacts
<1>5. ASSUME NEW p \in Projects, Build(p)
      PROVE  AssignInv'
  BY <1>5 DEF Build, At, Works, Fails, Step, Done, Marked
<1>6. ASSUME NEW p \in Projects, Bind(p)
      PROVE  AssignInv'
  BY <1>6 DEF Bind, At, Works, Fails, Step, Done
<1>7. ASSUME NEW p \in Projects, EnsureUp(p)
      PROVE  AssignInv'
  BY <1>7, EnsureUpLoop
<1>8. ASSUME NEW p \in Projects, EnsureHealthy(p)
      PROVE  AssignInv'
  BY <1>8 DEF EnsureHealthy, At, Works, Fails, Healthy, Next1, Marked
<1>9. ASSUME NEW p \in Projects, SuspendBegins(p)
      PROVE  AssignInv'
  BY <1>9 DEF SuspendBegins, begin_worker_change, Command
<1>10. ASSUME NEW p \in Projects, SuspendFlag(p)
      PROVE  AssignInv'
  BY <1>10 DEF SuspendFlag, At, Step, Done
<1>11. ASSUME NEW p \in Projects, SuspendStop(p)
      PROVE  AssignInv'
  BY <1>11 DEF SuspendStop, At, Works, Fails, Done, stop
<1>12. ASSUME NEW p \in Projects, Resume(p)
      PROVE  AssignInv'
  BY <1>12 DEF Resume, begin_worker_change, Command
<1>13. ASSUME NEW p \in Projects, NEW c \in Stores, AssignBegins(p, c)
      PROVE  AssignInv'
  <2>1. p \notin forgotten => link[p] = credential[p]
    BY <1>13 DEF AssignBegins, LinkInv, Linked, Apart, Torn, Unvisited, Idle
  <2>2. /\ loop'.op = "assign" /\ loop'.step = "stop" /\ loop'.ps = {p}
        /\ loop'.oldLink = link[p] /\ loop'.oldCred = credential[p]
    BY <1>13 DEF AssignBegins, Idle
  <2> QED
    BY <1>13, <2>1, <2>2 DEF AssignBegins
<1>14. ASSUME NEW p \in Projects, NEW m \in Models, ModelBegins(p, m)
      PROVE  AssignInv'
  BY <1>14 DEF ModelBegins, Bound, begin_worker_change, Active
<1>15. ASSUME NEW p \in Projects, ChangeStops(p)
      PROVE  AssignInv'
  BY <1>15 DEF ChangeStops, At, Works, Fails, Step, stop
<1>16. ASSUME NEW p \in Projects, ChangeWrites(p)
      PROVE  AssignInv'
  BY <1>16 DEF ChangeWrites, At, Works, Fails, Step
<1>17. ASSUME NEW p \in Projects, ChangeRecords(p)
      PROVE  AssignInv'
  BY <1>17 DEF ChangeRecords, At, Works, Fails, Step
<1>18. ASSUME NEW p \in Projects, ChangeStarts(p)
      PROVE  AssignInv'
  BY <1>18 DEF ChangeStarts, At, Works, Fails, Step, Done, start, Started
<1>19. ASSUME NEW p \in Projects, ChangeUnwrites(p)
      PROVE  AssignInv'
  BY <1>19 DEF ChangeUnwrites, At, Works, Fails, Step, stop
<1>20. ASSUME NEW p \in Projects, ChangeUnrecords(p)
      PROVE  AssignInv'
  <2>1. \/ loop' = [loop EXCEPT !.step = "restart"]
        \/ loop' = [loop EXCEPT !.step = "restart", !.restored = FALSE]
    BY <1>20 DEF ChangeUnrecords, Step
  <2>2. UNCHANGED <<profile, endpoint, bound, suspended, forgotten>>
    BY <1>20 DEF ChangeUnrecords
  <2>3. /\ loop'.op = loop.op /\ loop'.ps = loop.ps /\ loop'.step = "restart"
        /\ loop'.oldLink = loop.oldLink /\ loop'.oldCred = loop.oldCred
    <3>1. CASE loop' = [loop EXCEPT !.step = "restart"]
      BY <3>1
    <3>2. CASE loop' = [loop EXCEPT !.step = "restart", !.restored = FALSE]
      BY <3>2
    <3> QED
      BY <2>1, <3>1, <3>2
  <2> QED
    BY <2>2, <2>3
<1>21. ASSUME NEW p \in Projects, ChangeRestarts(p)
      PROVE  AssignInv'
  BY <1>21 DEF ChangeRestarts, At, Works, Fails, Done, start, Started, Marked
<1>22. ASSUME NEW p \in Projects, RunStarts(p)
      PROVE  AssignInv'
  BY <1>22 DEF RunStarts, Changing, Linked
<1>23. ASSUME NEW p \in Projects, RunEnds(p)
      PROVE  AssignInv'
  BY <1>23 DEF RunEnds
<1>24. ASSUME NEW p \in Projects, Unregister(p)
      PROVE  AssignInv'
  BY <1>24 DEF Unregister
<1>25. ASSUME NEW p \in Projects, NEW e \in Ports \union {NoPort}, RegisterByHand(p, e)
      PROVE  AssignInv'
  BY <1>25 DEF RegisterByHand
<1>26. ASSUME NEW k \in Credentials, SwapBegins(k)
      PROVE  AssignInv'
  BY <1>26 DEF SwapBegins, begin_worker_change, Bound, Active, Readers
<1>27. CASE Unchanged
  BY <1>27 DEF Unchanged, At, Healthy, Done
<1>28. CASE SwapStops
  BY <1>28 DEF SwapStops, At, Works, Fails, Step, Done, stop
<1>29. CASE SwapAside
  BY <1>29 DEF SwapAside, At, Works, Fails, Step
<1>30. CASE SwapIn
  BY <1>30 DEF SwapIn, At, Works, Fails, Step
<1>31. CASE SwapStarts
  BY <1>31 DEF SwapStarts, At, Works, Fails, Step, start, Started
<1>32. CASE SwapUndoes
  BY <1>32 DEF SwapUndoes, At, Works, Fails, Step, Done, stop
<1>33. CASE SwapBack
  BY <1>33 DEF SwapBack, At, Works, Fails, Step, Done
<1>34. CASE SwapRestarts
  BY <1>34 DEF SwapRestarts, At, Works, Fails, Done, start, Started
<1>35. CASE SwapAccepts
  BY <1>35 DEF SwapAccepts, At, Works, Fails, Done
<1>36. CASE Crash
  BY <1>36 DEF Crash, Boot, BootList
<1>37. CASE Reboot
  BY <1>37 DEF Reboot, Boot, BootList
<1>38. CASE UNCHANGED vars
  BY <1>38 DEF vars
<1> QED
  BY <1>1, <1>2, <1>3, <1>4, <1>5, <1>6, <1>7, <1>8, <1>9, <1>10, <1>11, <1>12, <1>13,
     <1>14, <1>15, <1>16, <1>17, <1>18, <1>19, <1>20, <1>21, <1>22, <1>23, <1>24,
     <1>25, <1>26, <1>27, <1>28, <1>29, <1>30, <1>31, <1>32, <1>33, <1>34, <1>35,
     <1>36, <1>37, <1>38
  DEF Next

\* Every step leaves row and link together or the worker down.
LEMMA LinkStep ==
  "ignored" \notin Hazards /\ TypeOK /\ LoopInv /\ HomeInv /\ LinkInv /\ AssignInv /\ [Next]_vars => LinkInv'
<1> SUFFICES ASSUME "ignored" \notin Hazards, TypeOK, LoopInv, HomeInv, LinkInv, AssignInv, [Next]_vars
             PROVE  LinkInv'
  OBVIOUS
<1> USE TypeParts, RestFacts
<1> USE DEF LinkInv, AssignInv, LoopInv, HomeInv, Bound, Linked, Apart, Torn,
            Unvisited, LoopType, LoopRow, RowType, HomeType, UnitType, rowVars,
            operatorVars, homeVars, swapVars, countVars
<1>1. ASSUME NEW p \in Projects, ProvisionBegins(p)
      PROVE  LinkInv'
  BY <1>1 DEF ProvisionBegins, Command
<1>2. ASSUME NEW p \in Projects, PrepareWorkspace(p)
      PROVE  LinkInv'
  BY <1>2 DEF PrepareWorkspace, At, Works, Fails, Step, Done
<1>3. ASSUME NEW p \in Projects, Register(p)
      PROVE  LinkInv'
  BY <1>3 DEF Register, At, Works, Fails, Step, Done
<1>4. ASSUME NEW p \in Projects, Reserve(p)
      PROVE  LinkInv'
  BY <1>4 DEF Reserve, At, Step, Done, Marked
<1>5. ASSUME NEW p \in Projects, Build(p)
      PROVE  LinkInv'
  BY <1>5 DEF Build, At, Works, Fails, Step, Done, Marked
<1>6. ASSUME NEW p \in Projects, Bind(p)
      PROVE  LinkInv'
  BY <1>6 DEF Bind, At, Works, Fails, Step, Done
<1>7. ASSUME NEW p \in Projects, EnsureUp(p)
      PROVE  LinkInv'
  <2>1. UNCHANGED <<endpoint, bound, suspended, credential, forgotten>>
    BY <1>7 DEF EnsureUp
  <2>2. p \notin forgotten => link'[p] = credential[p]
    <3>1. CASE ~Bound(p)
      BY <1>7, <3>1 DEF EnsureUp
    <3>2. CASE Bound(p)
      BY <1>7, <3>2 DEF EnsureUp, At, Repair, Relinked
    <3> QED
      BY <3>1, <3>2
  <2>3. ASSUME NEW q \in Projects, q # p
        PROVE  link'[q] = link[q] /\ unit'[q] = unit[q] /\ profile'[q] = profile[q]
    <3>1. link'[q] = link[q]
      BY <1>7, <2>3 DEF EnsureUp, Repair, Relinked
    <3>2. unit'[q] = unit[q]
      BY <1>7, <2>3 DEF EnsureUp
    <3>3. profile'[q] = profile[q]
      BY <1>7, <2>3 DEF EnsureUp, Marked
    <3> QED
      BY <3>1, <3>2, <3>3
  <2>4. ASSUME NEW q \in Projects, q # p, Unvisited(q)
        PROVE  Unvisited(q)'
    <3>1. loop'.op = "boot" /\ q \in loop'.ps
      BY <1>7, <2>4, EnsureUpLoop
    <3>2. loop'.was \in {loop.was, {p}}
      <4>1. CASE loop' = [loop EXCEPT !.step = "health", !.was = {p}, !.port = endpoint[p]]
        BY <4>1
      <4>2. CASE loop' = Next1(p)
        BY <3>1, <4>2, Next1Facts
      <4> QED
        BY <1>7, <4>1, <4>2 DEF EnsureUp
    <3> QED
      BY <2>4, <3>1, <3>2
  <2>5. ASSUME NEW q \in Projects \ forgotten, q # p
        PROVE  (Linked(q) \/ Apart(q))'
    BY <1>7, <2>1, <2>3, <2>4, <2>5 DEF EnsureUp, At
  <2>6. p \notin forgotten => Linked(p)'
    BY <2>1, <2>2
  <2> QED
    BY <2>1, <2>5, <2>6
<1>8. ASSUME NEW p \in Projects, EnsureHealthy(p)
      PROVE  LinkInv'
  BY <1>8 DEF EnsureHealthy, At, Works, Fails, Healthy, Next1, Marked
<1>9. ASSUME NEW p \in Projects, SuspendBegins(p)
      PROVE  LinkInv'
  BY <1>9 DEF SuspendBegins, begin_worker_change, Command
<1>10. ASSUME NEW p \in Projects, SuspendFlag(p)
      PROVE  LinkInv'
  BY <1>10 DEF SuspendFlag, At, Step, Done
<1>11. ASSUME NEW p \in Projects, SuspendStop(p)
      PROVE  LinkInv'
  BY <1>11 DEF SuspendStop, At, Works, Fails, Done, stop
<1>12. ASSUME NEW p \in Projects, Resume(p)
      PROVE  LinkInv'
  BY <1>12 DEF Resume, begin_worker_change, Command
<1>13. ASSUME NEW p \in Projects, NEW c \in Stores, AssignBegins(p, c)
      PROVE  LinkInv'
  BY <1>13 DEF AssignBegins, Bound, begin_worker_change, Active
<1>14. ASSUME NEW p \in Projects, NEW m \in Models, ModelBegins(p, m)
      PROVE  LinkInv'
  BY <1>14 DEF ModelBegins, Bound, begin_worker_change, Active
<1>15. ASSUME NEW p \in Projects, ChangeStops(p)
      PROVE  LinkInv'
  BY <1>15 DEF ChangeStops, At, Works, Fails, Step, stop
<1>16. ASSUME NEW p \in Projects, ChangeWrites(p)
      PROVE  LinkInv'
  BY <1>16 DEF ChangeWrites, At, Works, Fails, Step
<1>17. ASSUME NEW p \in Projects, ChangeRecords(p)
      PROVE  LinkInv'
  BY <1>17 DEF ChangeRecords, At, Works, Fails, Step
<1>18. ASSUME NEW p \in Projects, ChangeStarts(p)
      PROVE  LinkInv'
  BY <1>18 DEF ChangeStarts, At, Works, Fails, Step, Done, start, Started
<1>19. ASSUME NEW p \in Projects, ChangeUnwrites(p)
      PROVE  LinkInv'
  BY <1>19 DEF ChangeUnwrites, At, Works, Fails, Step, stop
<1>20. ASSUME NEW p \in Projects, ChangeUnrecords(p)
      PROVE  LinkInv'
  BY <1>20 DEF ChangeUnrecords, At, Works, Fails, Step
<1>21. ASSUME NEW p \in Projects, ChangeRestarts(p)
      PROVE  LinkInv'
  BY <1>21 DEF ChangeRestarts, At, Works, Fails, Done, start, Started, Marked
<1>22. ASSUME NEW p \in Projects, RunStarts(p)
      PROVE  LinkInv'
  BY <1>22 DEF RunStarts, Changing, Linked
<1>23. ASSUME NEW p \in Projects, RunEnds(p)
      PROVE  LinkInv'
  BY <1>23 DEF RunEnds
<1>24. ASSUME NEW p \in Projects, Unregister(p)
      PROVE  LinkInv'
  BY <1>24 DEF Unregister
<1>25. ASSUME NEW p \in Projects, NEW e \in Ports \union {NoPort}, RegisterByHand(p, e)
      PROVE  LinkInv'
  BY <1>25 DEF RegisterByHand
<1>26. ASSUME NEW k \in Credentials, SwapBegins(k)
      PROVE  LinkInv'
  BY <1>26 DEF SwapBegins, begin_worker_change, Bound, Active, Readers
<1>27. CASE Unchanged
  BY <1>27 DEF Unchanged, At, Healthy, Done
<1>28. CASE SwapStops
  BY <1>28 DEF SwapStops, At, Works, Fails, Step, Done, stop
<1>29. CASE SwapAside
  BY <1>29 DEF SwapAside, At, Works, Fails, Step
<1>30. CASE SwapIn
  BY <1>30 DEF SwapIn, At, Works, Fails, Step
<1>31. CASE SwapStarts
  BY <1>31 DEF SwapStarts, At, Works, Fails, Step, start, Started
<1>32. CASE SwapUndoes
  BY <1>32 DEF SwapUndoes, At, Works, Fails, Step, Done, stop
<1>33. CASE SwapBack
  BY <1>33 DEF SwapBack, At, Works, Fails, Step, Done
<1>34. CASE SwapRestarts
  BY <1>34 DEF SwapRestarts, At, Works, Fails, Done, start, Started
<1>35. CASE SwapAccepts
  BY <1>35 DEF SwapAccepts, At, Works, Fails, Done
<1>36. CASE Crash
  BY <1>36 DEF Crash, Boot, BootList
<1>37. CASE Reboot
  BY <1>37 DEF Reboot, Boot, BootList
<1>38. CASE UNCHANGED vars
  BY <1>38 DEF vars
<1> QED
  BY <1>1, <1>2, <1>3, <1>4, <1>5, <1>6, <1>7, <1>8, <1>9, <1>10, <1>11, <1>12, <1>13,
     <1>14, <1>15, <1>16, <1>17, <1>18, <1>19, <1>20, <1>21, <1>22, <1>23, <1>24,
     <1>25, <1>26, <1>27, <1>28, <1>29, <1>30, <1>31, <1>32, <1>33, <1>34, <1>35,
     <1>36, <1>37, <1>38
  DEF Next

\* Every step leaves the readers down while the material moves.
LEMMA ReaderStep ==
  "ignored" \notin Hazards /\ TypeOK /\ LoopInv /\ ReaderInv /\ [Next]_vars => ReaderInv'
<1> SUFFICES ASSUME "ignored" \notin Hazards, TypeOK, LoopInv, ReaderInv, [Next]_vars
             PROVE  ReaderInv'
  OBVIOUS
<1> USE TypeParts, RestFacts, NoCredentialAssumption
<1> USE DEF ReaderInv, Readers, LoopInv, LoopType, LoopRow, UnitType, RowType, rowVars,
            operatorVars, homeVars, swapVars, countVars
<1>1. ASSUME NEW p \in Projects, ProvisionBegins(p)
      PROVE  ReaderInv'
  BY <1>1 DEF ProvisionBegins, Command
<1>2. ASSUME NEW p \in Projects, PrepareWorkspace(p)
      PROVE  ReaderInv'
  BY <1>2 DEF PrepareWorkspace, At, Works, Fails, Step, Done
<1>3. ASSUME NEW p \in Projects, Register(p)
      PROVE  ReaderInv'
  BY <1>3 DEF Register, At, Works, Fails, Step, Done
<1>4. ASSUME NEW p \in Projects, Reserve(p)
      PROVE  ReaderInv'
  BY <1>4, ReserveFacts
<1>5. ASSUME NEW p \in Projects, Build(p)
      PROVE  ReaderInv'
  BY <1>5 DEF Build, At, Works, Fails, Step, Done, Marked
<1>6. ASSUME NEW p \in Projects, Bind(p)
      PROVE  ReaderInv'
  BY <1>6 DEF Bind, At, Works, Fails, Step, Done
<1>7. ASSUME NEW p \in Projects, EnsureUp(p)
      PROVE  ReaderInv'
  BY <1>7 DEF EnsureUp, At, Works, Fails, Bound, Next1, Repair, Relinked, Started, Marked
<1>8. ASSUME NEW p \in Projects, EnsureHealthy(p)
      PROVE  ReaderInv'
  BY <1>8 DEF EnsureHealthy, At, Works, Fails, Healthy, Next1, Marked
<1>9. ASSUME NEW p \in Projects, SuspendBegins(p)
      PROVE  ReaderInv'
  BY <1>9 DEF SuspendBegins, begin_worker_change, Command
<1>10. ASSUME NEW p \in Projects, SuspendFlag(p)
      PROVE  ReaderInv'
  BY <1>10 DEF SuspendFlag, At, Step, Done
<1>11. ASSUME NEW p \in Projects, SuspendStop(p)
      PROVE  ReaderInv'
  BY <1>11 DEF SuspendStop, At, Works, Fails, Done, stop
<1>12. ASSUME NEW p \in Projects, Resume(p)
      PROVE  ReaderInv'
  BY <1>12 DEF Resume, begin_worker_change, Command
<1>13. ASSUME NEW p \in Projects, NEW c \in Stores, AssignBegins(p, c)
      PROVE  ReaderInv'
  BY <1>13 DEF AssignBegins, Bound, begin_worker_change, Active
<1>14. ASSUME NEW p \in Projects, NEW m \in Models, ModelBegins(p, m)
      PROVE  ReaderInv'
  BY <1>14 DEF ModelBegins, Bound, begin_worker_change, Active
<1>15. ASSUME NEW p \in Projects, ChangeStops(p)
      PROVE  ReaderInv'
  BY <1>15 DEF ChangeStops, At, Works, Fails, Step, stop
<1>16. ASSUME NEW p \in Projects, ChangeWrites(p)
      PROVE  ReaderInv'
  BY <1>16 DEF ChangeWrites, At, Works, Fails, Step
<1>17. ASSUME NEW p \in Projects, ChangeRecords(p)
      PROVE  ReaderInv'
  BY <1>17 DEF ChangeRecords, At, Works, Fails, Step
<1>18. ASSUME NEW p \in Projects, ChangeStarts(p)
      PROVE  ReaderInv'
  BY <1>18 DEF ChangeStarts, At, Works, Fails, Step, Done, start, Started
<1>19. ASSUME NEW p \in Projects, ChangeUnwrites(p)
      PROVE  ReaderInv'
  BY <1>19 DEF ChangeUnwrites, At, Works, Fails, Step, stop
<1>20. ASSUME NEW p \in Projects, ChangeUnrecords(p)
      PROVE  ReaderInv'
  BY <1>20 DEF ChangeUnrecords, At, Works, Fails, Step
<1>21. ASSUME NEW p \in Projects, ChangeRestarts(p)
      PROVE  ReaderInv'
  BY <1>21 DEF ChangeRestarts, At, Works, Fails, Done, start, Started, Marked
<1>22. ASSUME NEW p \in Projects, RunStarts(p)
      PROVE  ReaderInv'
  BY <1>22 DEF RunStarts, Changing, Linked
<1>23. ASSUME NEW p \in Projects, RunEnds(p)
      PROVE  ReaderInv'
  BY <1>23 DEF RunEnds
<1>24. ASSUME NEW p \in Projects, Unregister(p)
      PROVE  ReaderInv'
  BY <1>24 DEF Unregister
<1>25. ASSUME NEW p \in Projects, NEW e \in Ports \union {NoPort}, RegisterByHand(p, e)
      PROVE  ReaderInv'
  BY <1>25 DEF RegisterByHand
<1>26. ASSUME NEW k \in Credentials, SwapBegins(k)
      PROVE  ReaderInv'
  BY <1>26 DEF SwapBegins, begin_worker_change, Bound, Active, Readers
<1>27. CASE Unchanged
  BY <1>27 DEF Unchanged, At, Healthy, Done
<1>28. CASE SwapStops
  BY <1>28 DEF SwapStops, At, Works, Fails, Step, Done, stop
<1>29. CASE SwapAside
  BY <1>29 DEF SwapAside, At, Works, Fails, Step
<1>30. CASE SwapIn
  BY <1>30 DEF SwapIn, At, Works, Fails, Step
<1>31. CASE SwapStarts
  BY <1>31 DEF SwapStarts, At, Works, Fails, Step, start, Started
<1>32. CASE SwapUndoes
  BY <1>32 DEF SwapUndoes, At, Works, Fails, Step, Done, stop
<1>33. CASE SwapBack
  BY <1>33 DEF SwapBack, At, Works, Fails, Step, Done
<1>34. CASE SwapRestarts
  BY <1>34 DEF SwapRestarts, At, Works, Fails, Done, start, Started
<1>35. CASE SwapAccepts
  BY <1>35 DEF SwapAccepts, At, Works, Fails, Done
<1>36. CASE Crash
  BY <1>36 DEF Crash, Boot, BootList
<1>37. CASE Reboot
  BY <1>37 DEF Reboot, Boot, BootList
<1>38. CASE UNCHANGED vars
  BY <1>38 DEF vars
<1> QED
  BY <1>1, <1>2, <1>3, <1>4, <1>5, <1>6, <1>7, <1>8, <1>9, <1>10, <1>11, <1>12, <1>13,
     <1>14, <1>15, <1>16, <1>17, <1>18, <1>19, <1>20, <1>21, <1>22, <1>23, <1>24,
     <1>25, <1>26, <1>27, <1>28, <1>29, <1>30, <1>31, <1>32, <1>33, <1>34, <1>35,
     <1>36, <1>37, <1>38
  DEF Next

\* Workers that are started where row and link agree serve what the row names.
LEMMA StartMatches ==
  ASSUME TypeOK, MatchInv, NEW S \in SUBSET Projects, start(S),
         \A p \in S \ forgotten : Linked(p), UNCHANGED <<credential, live, forgotten>>
  PROVE  MatchInv'
<1> SUFFICES ASSUME NEW p \in Projects \ forgotten, unit'[p].on
             PROVE  /\ unit'[p].cred = credential[p]
                    /\ credential[p] # NoCredential => unit'[p].mat = live[credential[p]]
  BY DEF MatchInv
<1>1. UnitType /\ HomeType /\ SwapType
  BY TypeParts
<1>2. CASE p \in S /\ ~unit[p].on
  <2>1. unit'[p] = Started(p, link[p]) /\ link[p] = credential[p] /\ link[p] \in Stores
    BY <1>1, <1>2, StartFacts DEF Linked, HomeType
  <2>2. /\ Started(p, link[p]).cred = link[p]
        /\ link[p] # NoCredential => Started(p, link[p]).mat = live[link[p]]
    BY <1>1, <2>1, StartedFacts
  <2> QED
    BY <2>1, <2>2
<1>3. CASE ~(p \in S /\ ~unit[p].on)
  <2>1. unit'[p] = unit[p]
    BY <1>1, <1>3, StartFacts
  <2> QED
    BY <2>1 DEF MatchInv
<1> QED
  BY <1>2, <1>3

\* A material moves while no worker that reads it is up.
LEMMA MaterialMoves ==
  ASSUME TypeOK, MatchInv, NEW c \in Credentials, NEW x,
         live' = [live EXCEPT ![c] = x], UNCHANGED <<credential, forgotten>>,
         \A q \in Projects : unit'[q].on => unit'[q] = unit[q] /\ credential[q] # c
  PROVE  MatchInv'
<1> SUFFICES ASSUME NEW p \in Projects \ forgotten, unit'[p].on
             PROVE  /\ unit'[p].cred = credential[p]
                    /\ credential[p] # NoCredential => unit'[p].mat = live'[credential[p]]
  BY DEF MatchInv
<1>1. credential[p] \in Stores /\ live \in [Credentials -> Nat]
  BY TypeParts DEF RowType, SwapType
<1>2. unit'[p] = unit[p] /\ credential[p] # c
  OBVIOUS
<1>3. credential[p] # NoCredential => live'[credential[p]] = live[credential[p]]
  BY <1>1, <1>2 DEF Stores
<1> QED
  BY <1>2, <1>3 DEF MatchInv

\* Every step leaves every running worker on what its row names.
LEMMA MatchStep ==
  "ignored" \notin Hazards /\ TypeOK /\ LoopInv /\ LinkInv /\ AssignInv /\ ReaderInv /\ MatchInv /\ [Next]_vars => MatchInv'
<1> SUFFICES ASSUME "ignored" \notin Hazards, TypeOK, LoopInv, LinkInv, AssignInv, ReaderInv, MatchInv, [Next]_vars
             PROVE  MatchInv'
  OBVIOUS
<1> USE TypeParts, RestFacts
<1> USE DEF MatchInv, rowVars, operatorVars, homeVars, swapVars, countVars
<1>1. ASSUME NEW p \in Projects, ProvisionBegins(p)
      PROVE  MatchInv'
  BY <1>1 DEF ProvisionBegins, Command
<1>2. ASSUME NEW p \in Projects, PrepareWorkspace(p)
      PROVE  MatchInv'
  BY <1>2 DEF PrepareWorkspace, At, Works, Fails, Step, Done
<1>3. ASSUME NEW p \in Projects, Register(p)
      PROVE  MatchInv'
  BY <1>3 DEF Register, At, Works, Fails, Step, Done
<1>4. ASSUME NEW p \in Projects, Reserve(p)
      PROVE  MatchInv'
  BY <1>4 DEF Reserve, At, Step, Done, Marked
<1>5. ASSUME NEW p \in Projects, Build(p)
      PROVE  MatchInv'
  BY <1>5 DEF Build, At, Works, Fails, Step, Done, Marked
<1>6. ASSUME NEW p \in Projects, Bind(p)
      PROVE  MatchInv'
  BY <1>6 DEF Bind, At, Works, Fails, Step, Done
<1>7. ASSUME NEW p \in Projects, EnsureUp(p)
      PROVE  MatchInv'
  <2>1. UNCHANGED <<credential, live, forgotten>>
    BY <1>7 DEF EnsureUp
  <2>2. CASE UNCHANGED unit
    BY <2>1, <2>2 DEF MatchInv
  <2>3. CASE ~unit[p].on /\ Repair(p) /\ unit' = [unit EXCEPT ![p] = Started(p, link'[p])]
    <3>1. link'[p] = credential[p] /\ credential[p] \in Stores
      BY <2>3 DEF Repair, Relinked, HomeType, RowType
    <3>2. unit' = [unit EXCEPT ![p] = Started(p, credential[p])]
      BY <2>3, <3>1
    <3>3. /\ unit'[p] = Started(p, credential[p])
          /\ \A q \in Projects : q # p => unit'[q] = unit[q]
      BY <3>2 DEF UnitType
    <3>4. /\ Started(p, credential[p]).cred = credential[p]
          /\ credential[p] # NoCredential => Started(p, credential[p]).mat = live[credential[p]]
      BY <3>1, StartedFacts
    <3> QED
      BY <2>1, <3>3, <3>4 DEF MatchInv
  <2> QED
    BY <1>7, <2>2, <2>3 DEF EnsureUp
<1>8. ASSUME NEW p \in Projects, EnsureHealthy(p)
      PROVE  MatchInv'
  BY <1>8 DEF EnsureHealthy, At, Works, Fails, Healthy, Next1, Marked
<1>9. ASSUME NEW p \in Projects, SuspendBegins(p)
      PROVE  MatchInv'
  BY <1>9 DEF SuspendBegins, begin_worker_change, Command
<1>10. ASSUME NEW p \in Projects, SuspendFlag(p)
      PROVE  MatchInv'
  BY <1>10 DEF SuspendFlag, At, Step, Done
<1>11. ASSUME NEW p \in Projects, SuspendStop(p)
      PROVE  MatchInv'
  BY <1>11 DEF SuspendStop, At, Works, Fails, Done, stop
<1>12. ASSUME NEW p \in Projects, Resume(p)
      PROVE  MatchInv'
  BY <1>12 DEF Resume, begin_worker_change, Command
<1>13. ASSUME NEW p \in Projects, NEW c \in Stores, AssignBegins(p, c)
      PROVE  MatchInv'
  BY <1>13 DEF AssignBegins, Bound, begin_worker_change, Active
<1>14. ASSUME NEW p \in Projects, NEW m \in Models, ModelBegins(p, m)
      PROVE  MatchInv'
  BY <1>14 DEF ModelBegins, Bound, begin_worker_change, Active
<1>15. ASSUME NEW p \in Projects, ChangeStops(p)
      PROVE  MatchInv'
  BY <1>15 DEF ChangeStops, At, Works, Fails, Step, stop
<1>16. ASSUME NEW p \in Projects, ChangeWrites(p)
      PROVE  MatchInv'
  BY <1>16 DEF ChangeWrites, At, Works, Fails, Step
<1>17. ASSUME NEW p \in Projects, ChangeRecords(p)
      PROVE  MatchInv'
  <2>1. UNCHANGED <<unit, live, forgotten>>
    BY <1>17 DEF ChangeRecords
  <2>2. CASE UNCHANGED credential
    BY <2>1, <2>2 DEF MatchInv
  <2>3. CASE loop.op = "assign"
    <3>1. p \notin forgotten => ~unit[p].on
      BY <1>17, <2>3 DEF ChangeRecords, At, AssignInv
    <3>2. \A q \in Projects : q # p => credential'[q] = credential[q]
      BY <1>17, <2>3 DEF ChangeRecords, RowType
    <3> QED
      BY <2>1, <3>1, <3>2 DEF MatchInv
  <2> QED
    BY <1>17, <2>2, <2>3 DEF ChangeRecords
<1>18. ASSUME NEW p \in Projects, ChangeStarts(p)
      PROVE  MatchInv'
  <2>1. UNCHANGED <<credential, live, forgotten>>
    BY <1>18 DEF ChangeStarts
  <2>2. CASE UNCHANGED unit
    BY <2>1, <2>2 DEF MatchInv
  <2>3. CASE start({p})
    <3>1. {p} \in SUBSET Projects /\ \A q \in Projects \ forgotten : Linked(q)
      BY <1>18 DEF ChangeStarts, At, LinkInv, Apart, Torn, Unvisited, LoopType, LoopRow
    <3> QED
      BY <2>1, <2>3, <3>1, StartMatches
  <2> QED
    BY <1>18, <2>2, <2>3 DEF ChangeStarts
<1>19. ASSUME NEW p \in Projects, ChangeUnwrites(p)
      PROVE  MatchInv'
  BY <1>19 DEF ChangeUnwrites, At, Works, Fails, Step, stop
<1>20. ASSUME NEW p \in Projects, ChangeUnrecords(p)
      PROVE  MatchInv'
  <2>1. UNCHANGED <<unit, live, forgotten>>
    BY <1>20 DEF ChangeUnrecords
  <2>2. CASE UNCHANGED credential
    BY <2>1, <2>2 DEF MatchInv
  <2>3. CASE loop.op = "assign"
    <3>1. p \notin forgotten => ~unit[p].on
      BY <1>20, <2>3 DEF ChangeUnrecords, At, AssignInv
    <3>2. \A q \in Projects : q # p => credential'[q] = credential[q]
      BY <1>20, <2>3 DEF ChangeUnrecords, RowType
    <3> QED
      BY <2>1, <3>1, <3>2 DEF MatchInv
  <2> QED
    BY <1>20, <2>2, <2>3 DEF ChangeUnrecords
<1>21. ASSUME NEW p \in Projects, ChangeRestarts(p)
      PROVE  MatchInv'
  <2>1. UNCHANGED <<credential, live, forgotten>>
    BY <1>21 DEF ChangeRestarts
  <2>2. CASE UNCHANGED unit
    BY <2>1, <2>2 DEF MatchInv
  <2>3. CASE start(loop.was)
    <3>1. loop.was \in SUBSET Projects /\ \A q \in Projects \ forgotten : Linked(q)
      BY <1>21 DEF ChangeRestarts, At, LinkInv, Apart, Torn, Unvisited, LoopType, LoopRow
    <3> QED
      BY <2>1, <2>3, <3>1, StartMatches
  <2> QED
    BY <1>21, <2>2, <2>3 DEF ChangeRestarts
<1>22. ASSUME NEW p \in Projects, RunStarts(p)
      PROVE  MatchInv'
  BY <1>22 DEF RunStarts, Changing, Linked
<1>23. ASSUME NEW p \in Projects, RunEnds(p)
      PROVE  MatchInv'
  BY <1>23 DEF RunEnds
<1>24. ASSUME NEW p \in Projects, Unregister(p)
      PROVE  MatchInv'
  BY <1>24 DEF Unregister
<1>25. ASSUME NEW p \in Projects, NEW e \in Ports \union {NoPort}, RegisterByHand(p, e)
      PROVE  MatchInv'
  BY <1>25 DEF RegisterByHand
<1>26. ASSUME NEW k \in Credentials, SwapBegins(k)
      PROVE  MatchInv'
  BY <1>26 DEF SwapBegins, begin_worker_change, Bound, Active, Readers
<1>27. CASE Unchanged
  BY <1>27 DEF Unchanged, At, Healthy, Done
<1>28. CASE SwapStops
  BY <1>28 DEF SwapStops, At, Works, Fails, Step, Done, stop
<1>29. CASE SwapAside
  <2>1. \A q \in Projects : credential[q] = loop.cred => ~unit[q].on
    BY <1>29 DEF SwapAside, At, ReaderInv, Readers
  <2>2. loop.cred \in Credentials
    BY <1>29 DEF SwapAside, At, LoopType
  <2>3. UNCHANGED <<credential, unit, forgotten>>
    BY <1>29 DEF SwapAside
  <2>4. CASE UNCHANGED live
    BY <2>3, <2>4 DEF MatchInv
  <2>5. CASE live' = [live EXCEPT ![loop.cred] = 0]
    BY <2>1, <2>2, <2>3, <2>5, MaterialMoves
  <2> QED
    BY <1>29, <2>4, <2>5 DEF SwapAside
<1>30. CASE SwapIn
  <2>1. \A q \in Projects : credential[q] = loop.cred => ~unit[q].on
    BY <1>30 DEF SwapIn, At, ReaderInv, Readers
  <2>2. loop.cred \in Credentials
    BY <1>30 DEF SwapIn, At, LoopType
  <2>3. UNCHANGED <<credential, unit, forgotten>>
    BY <1>30 DEF SwapIn
  <2>4. CASE UNCHANGED live
    BY <2>3, <2>4 DEF MatchInv
  <2>5. CASE live' = [live EXCEPT ![loop.cred] = mats]
    BY <2>1, <2>2, <2>3, <2>5, MaterialMoves
  <2> QED
    BY <1>30, <2>4, <2>5 DEF SwapIn
<1>31. CASE SwapStarts
  <2>1. PICK S \in SUBSET loop.was : start(S)
    BY <1>31 DEF SwapStarts
  <2>2. S \in SUBSET Projects
    BY <2>1 DEF LoopType, LoopRow
  <2>3. \A p \in Projects \ forgotten : Linked(p)
    BY <1>31 DEF SwapStarts, At, LinkInv, Apart, Torn, Unvisited
  <2>4. UNCHANGED <<credential, live, forgotten>>
    BY <1>31 DEF SwapStarts
  <2> QED
    BY <2>1, <2>2, <2>3, <2>4, StartMatches
<1>32. CASE SwapUndoes
  <2>1. stop(loop.ps) /\ loop.op = "swap"
    BY <1>32 DEF SwapUndoes, At
  <2>2. loop.cred \in Credentials /\ Readers(loop.cred) \subseteq loop.ps /\ loop.ps \in SUBSET Projects
    BY <2>1 DEF LoopType, LoopRow, ReaderInv
  <2>3. \A q \in Projects : unit'[q].on => unit'[q] = unit[q] /\ credential[q] # loop.cred
    BY <2>1, <2>2, StopFacts DEF Readers
  <2>4. UNCHANGED <<credential, forgotten>>
    BY <1>32 DEF SwapUndoes
  <2>5. CASE UNCHANGED live
    BY <2>3, <2>4, <2>5 DEF MatchInv
  <2>6. CASE live' = [live EXCEPT ![loop.cred] = 0]
    BY <2>2, <2>3, <2>4, <2>6, MaterialMoves
  <2> QED
    BY <1>32, <2>5, <2>6 DEF SwapUndoes
<1>33. CASE SwapBack
  <2>1. \A q \in Projects : credential[q] = loop.cred => ~unit[q].on
    BY <1>33 DEF SwapBack, At, ReaderInv, Readers
  <2>2. loop.cred \in Credentials
    BY <1>33 DEF SwapBack, At, LoopType
  <2>3. UNCHANGED <<credential, unit, forgotten>>
    BY <1>33 DEF SwapBack
  <2>4. CASE UNCHANGED live
    BY <2>3, <2>4 DEF MatchInv
  <2>5. CASE live' = [live EXCEPT ![loop.cred] = aside[loop.cred]]
    BY <2>1, <2>2, <2>3, <2>5, MaterialMoves
  <2> QED
    BY <1>33, <2>4, <2>5 DEF SwapBack
<1>34. CASE SwapRestarts
  <2>1. PICK S \in SUBSET loop.was : start(S)
    BY <1>34 DEF SwapRestarts
  <2>2. S \in SUBSET Projects
    BY <2>1 DEF LoopType, LoopRow
  <2>3. \A p \in Projects \ forgotten : Linked(p)
    BY <1>34 DEF SwapRestarts, At, LinkInv, Apart, Torn, Unvisited
  <2>4. UNCHANGED <<credential, live, forgotten>>
    BY <1>34 DEF SwapRestarts
  <2> QED
    BY <2>1, <2>2, <2>3, <2>4, StartMatches
<1>35. CASE SwapAccepts
  BY <1>35 DEF SwapAccepts, At, Works, Fails, Done
<1>36. CASE Crash
  BY <1>36 DEF Crash, Boot, BootList
<1>37. CASE Reboot
  BY <1>37 DEF Reboot, Boot, BootList
<1>38. CASE UNCHANGED vars
  BY <1>38 DEF vars
<1> QED
  BY <1>1, <1>2, <1>3, <1>4, <1>5, <1>6, <1>7, <1>8, <1>9, <1>10, <1>11, <1>12, <1>13,
     <1>14, <1>15, <1>16, <1>17, <1>18, <1>19, <1>20, <1>21, <1>22, <1>23, <1>24,
     <1>25, <1>26, <1>27, <1>28, <1>29, <1>30, <1>31, <1>32, <1>33, <1>34, <1>35,
     <1>36, <1>37, <1>38
  DEF Next

\* Everything that holds in every state, whatever fails.
IInv ==
  /\ TypeOK /\ LoopInv /\ PortInv /\ SwapInv /\ HomeInv
  /\ OwnEndpoint /\ ProvenKept

\* What holds besides as long as a rollback does what it tries.
ServeInv == LinkInv /\ AssignInv /\ ReaderInv /\ MatchInv

\* All of it holds on a Node without projects.
LEMMA InitInv == Init => IInv /\ ServeInv
<1> SUFFICES ASSUME Init
             PROVE  IInv /\ ServeInv
  OBVIOUS
<1> USE DefaultModelAssumption, RestFacts DEF Init
<1>1. TypeOK
  BY TypeParts DEF LoopType, UnitType, RowType, HomeType, SwapType, CountType, Stores
<1>2. LoopInv /\ PortInv /\ SwapInv /\ HomeInv
  BY DEF LoopInv, PortInv, SwapInv, HomeInv, Changing
<1>3. OwnEndpoint /\ ProvenKept
  BY DEF OwnEndpoint, ProvenKept
<1>4. ServeInv
  BY DEF ServeInv, LinkInv, AssignInv, ReaderInv, MatchInv, Linked
<1> QED
  BY <1>1, <1>2, <1>3, <1>4 DEF IInv

\* Every step keeps the invariant.
LEMMA InvStep == IInv /\ [Next]_vars => IInv'
BY TypeStep, LoopStep, PortStep, ProvenStep, HomeStep DEF IInv

LEMMA ServeStep == "ignored" \notin Hazards /\ IInv /\ ServeInv /\ [Next]_vars => ServeInv'
BY LinkStep, AssignStep, ReaderStep, MatchStep DEF IInv, ServeInv

\* The invariant holds in every state.
THEOREM Invariance == Spec => []IInv
<1>1. Init => IInv
  BY InitInv
<1> QED
  BY <1>1, InvStep, PTL DEF Spec

\* Every variable always has its type, whatever fails and dies.
THEOREM TypeCorrectness == Spec => []TypeOK
<1>1. IInv => TypeOK
  BY DEF IInv
<1> QED
  BY <1>1, Invariance, PTL

\* Whatever fails and dies, and whatever rows an operator deletes and writes at
\* any moment of a provisioning, a project that was never unregistered has the
\* endpoint its own home listens on, and two rows that no operator wrote never
\* share a port (reserve_endpoint, set_profile_runtime, release_endpoint), for
\* any number of projects and ports.
THEOREM EndpointsAreOwn == Spec => []OwnEndpoint
<1>1. IInv => OwnEndpoint
  BY DEF IInv
<1> QED
  BY <1>1, Invariance, PTL

\* Whatever fails and dies between two effects of a swap, the material that
\* every worker was last proven on is in place or set aside (swap_in,
\* roll_back, accept).
THEOREM ProvenMaterialIsKept == Spec => []ProvenKept
<1>1. IInv => ProvenKept
  BY DEF IInv
<1> QED
  BY <1>1, Invariance, PTL

\* No step of the loop, of a boot or of a rollback stops or replaces the
\* worker of a run (begin_credential_change against credential_run_guard).
THEOREM RunsAreUndisturbed == Spec => UndisturbedRuns
<1>1. IInv /\ [Next]_vars =>
        [\A p \in Projects : inRun[p] /\ inRun'[p] /\ unit[p].on => unit'[p] = unit[p]]_vars
  BY UndisturbedStep DEF IInv
<1> QED
  BY <1>1, Invariance, PTL DEF Spec, UndisturbedRuns

\* As long as no effect fails whose error the code ignores, a running worker
\* serves from the credential its row names and from the material that
\* credential holds: at rest, and in fact at every moment, through every
\* assignment, swap, failure, death and boot, for every project that was never
\* unregistered.
THEOREM WorkersServeAssigned ==
  ASSUME "ignored" \notin Hazards
  PROVE  Spec => []ServesAssigned
<1>1. IInv /\ ServeInv /\ [Next]_vars => ServeInv'
  BY ServeStep
<1>2. Init => ServeInv
  BY InitInv
<1>3. ServeInv => ServesAssigned
  BY DEF ServeInv, MatchInv, ServesAssigned
<1> QED
  BY <1>1, <1>2, <1>3, Invariance, PTL DEF Spec
=============================================================================
