------------------------ MODULE LocalProjectsProofs ------------------------
(***************************************************************************)
(* TLAPS proofs about LocalProjects, for any number of commands at once,   *)
(* any set of categories and any bounds.                                   *)
(*                                                                         *)
(* What a command saw can only age in one direction.  The number of the    *)
(* last run grows, and a run is active only from its admission on: so the  *)
(* number a guard noted is never ahead (SeenInv), and a run that is active *)
(* behind a guard was admitted after it.  What a command holds in its list *)
(* although it was revoked, it holds because it read the list before, or   *)
(* because another such list had brought it back (ListInv).  That a Hermes *)
(* without the pins of its file has an `ensure` on the way to restart it   *)
(* is inductive as it stands.                                              *)
(*                                                                         *)
(* The last section is about RunApprovals, the approvals a run asks for    *)
(* while its category has no rule.  The two modules share no variable.     *)
(***************************************************************************)
EXTENDS LocalProjects, RunApprovals, TLAPS

\* A guard noted the number of a run that was there.
SeenInv ==
  \A c \in Commands : cli[c].pc \in {"guarded", "login"} => cli[c].seen <= run.id

\* A revocation names a category.
CategoryInv == \A c \in Commands : cli[c].op = "revoke" => cli[c].category \in Categories

\* Revoked rules in a list that was read are stale there, or stand again.
ListInv ==
  /\ revived \subseteq rules
  /\ \A c \in Commands : cli[c].pc = "read" =>
       cli[c].list \intersect taken \subseteq cli[c].stale \union revived

IInv ==
  /\ TypeOK /\ CategoryInv /\ SeenInv /\ ListInv
  /\ KnownRunSpared /\ PinsInEffect /\ RevokedReturnsByRace

\* What is idle noted nothing and read nothing.
LEMMA QuietFacts ==
  /\ Quiet.op = "none" /\ Quiet.pc = "idle" /\ Quiet.override = FALSE
  /\ Quiet.list = {} /\ Quiet.stale = {} /\ Quiet.seen = 0
BY DEF Quiet

\* NoFile and what Hermes writes on its first start are configurations.
LEMMA ConfigurationFacts ==
  /\ NoFile \in RuntimeConfiguration
  /\ Seeded \in RuntimeConfiguration
  /\ files \in [Dirs -> RuntimeConfiguration] => \A d \in Dirs : Loaded(d) \in RuntimeConfiguration
  /\ \A f \in RuntimeConfiguration :
       set_setting(f) \in RuntimeConfiguration /\ set_setting(f).pinned = TRUE
BY DEF NoFile, Seeded, Loaded, RuntimeConfiguration, set_setting


\* The bounds are numbers.
LEMMA Bounds == MaxCommands \in Nat /\ MaxRuns \in Nat /\ MaxEdits \in Nat /\ MaxFaults \in Nat
BY BoundsAssumption

\* What a command is at.
CommandState ==
  [op : Ops \union {"none"},
   pc : {"idle", "begun", "guarded", "checked", "created", "started", "healthy", "pin", "pinned",
         "halted", "login", "read"},
   force : BOOLEAN, override : BOOLEAN, category : Categories \union {NoCategory},
   data : Dirs, root : {"home", "elsewhere"}, text : RuntimeConfiguration, list : SUBSET Categories,
   seen : 0 .. MaxRuns, stale : SUBSET Categories]

\* A command that ended is one again.
LEMMA QuietType == Quiet \in CommandState
BY BoundsAssumption, ConfigurationFacts DEF Quiet, CommandState, Dirs

\* A command that wrote its pins is one.
LEMMA PinnedType ==
  ASSUME cli \in [Commands -> CommandState], NEW c \in Commands, NEW t \in RuntimeConfiguration
  PROVE  [cli EXCEPT ![c].pc = "pinned", ![c].text = t] \in [Commands -> CommandState]
<1> DEFINE s == [cli[c] EXCEPT !.pc = "pinned", !.text = t]
<1>1. s \in CommandState
  <2>1. cli[c] \in CommandState
    OBVIOUS
  <2> QED
    BY <2>1 DEF CommandState
<1>2. [cli EXCEPT ![c].pc = "pinned", ![c].text = t] = [cli EXCEPT ![c] = s]
  OBVIOUS
<1> HIDE DEF s
<1> QED
  BY <1>1, <1>2

\* A command that was given is one, at its beginning; a revocation has a category.
LEMMA GivenFacts ==
  ASSUME NEW op \in Ops, NEW a \in Arguments(op)
  PROVE  /\ Given(op, a) \in CommandState
         /\ Given(op, a).op = op /\ Given(op, a).pc = "begun"
         /\ op = "revoke" => Given(op, a).category \in Categories
<1>1. a.force \in BOOLEAN /\ a.override \in BOOLEAN
  BY DEF Arguments
<1>2. a.category \in Categories \union {NoCategory} /\ (op = "revoke" => a.category \in Categories)
  BY DEF Arguments
<1>3. a.data \in Dirs /\ a.root \in {"home", "elsewhere"}
  BY DEF Arguments, Dirs
<1>4. 0 \in 0 .. MaxRuns /\ NoFile \in RuntimeConfiguration
  BY Bounds, ConfigurationFacts
<1> QED
  BY <1>1, <1>2, <1>3, <1>4 DEF CommandState, Given

\* A command that ends leaves the others as they are.
LEMMA ExitType ==
  ASSUME cli \in [Commands -> CommandState], NEW c \in Commands, Exit(c)
  PROVE  cli' \in [Commands -> CommandState]
BY QuietType DEF Exit

\* Every operation leaves commands.
LEMMA CommandStep ==
  TypeOK /\ CategoryInv /\ cli \in [Commands -> CommandState] /\ [Next]_vars => cli' \in [Commands -> CommandState]
<1> SUFFICES ASSUME TypeOK, CategoryInv, cli \in [Commands -> CommandState], [Next]_vars
             PROVE  cli' \in [Commands -> CommandState]
  OBVIOUS
<1> USE Bounds, CategoryAssumption, ConfigurationFacts, QuietType, ExitType, GivenFacts
<1> USE DEF CommandState
<1>1. ASSUME NEW o \in {"managed_container", "external"}, register_project(o)
      PROVE  cli' \in [Commands -> CommandState]
  BY <1>1 DEF register_project
<1>2. ASSUME NEW c \in Commands, NEW op \in Ops, Begin(c, op)
      PROVE  cli' \in [Commands -> CommandState]
  BY <1>2 DEF Begin, require_managed_container, owns_container
<1>3. ASSUME NEW c \in Commands, Guard(c)
      PROVE  cli' \in [Commands -> CommandState]
  BY <1>3 DEF Guard, At, TypeOK
<1>4. ASSUME NEW c \in Commands, project_spec(c)
      PROVE  cli' \in [Commands -> CommandState]
  BY <1>4 DEF project_spec, At
<1>5. ASSUME NEW c \in Commands, EnforcePolicy(c)
      PROVE  cli' \in [Commands -> CommandState]
  BY <1>5 DEF EnforcePolicy, At, Go
<1>6. ASSUME NEW c \in Commands, ensure_project(c)
      PROVE  cli' \in [Commands -> CommandState]
  BY <1>6 DEF ensure_project, At, Go
<1>7. ASSUME NEW c \in Commands, start_project(c)
      PROVE  cli' \in [Commands -> CommandState]
  BY <1>7 DEF start_project, At, Go, docker_start, Reads, Loaded
<1>8. ASSUME NEW c \in Commands, notify_reconcile(c)
      PROVE  cli' \in [Commands -> CommandState]
  BY <1>8 DEF notify_reconcile, At
<1>9. ASSUME NEW c \in Commands, wait_for_hermes(c)
      PROVE  cli' \in [Commands -> CommandState]
  BY <1>9 DEF wait_for_hermes, At, Go
<1>10. ASSUME NEW c \in Commands, pin_read(c)
      PROVE  cli' \in [Commands -> CommandState]
  BY <1>10 DEF pin_read, At, TypeOK
<1>11. ASSUME NEW c \in Commands, pin_write(c)
      PROVE  cli' \in [Commands -> CommandState]
  <2>1. cli' = [cli EXCEPT ![c].pc = "pinned", ![c].text = NoFile]
    BY <1>11 DEF pin_write
  <2>2. [cli EXCEPT ![c].pc = "pinned", ![c].text = NoFile] \in [Commands -> CommandState]
    BY PinnedType, ConfigurationFacts, Zenon
  <2> HIDE DEF CommandState
  <2> QED
    BY <2>1, <2>2, Zenon
<1>12. ASSUME NEW c \in Commands, pin_stop(c)
      PROVE  cli' \in [Commands -> CommandState]
  BY <1>12 DEF pin_stop, At, Go, docker_stop, RunDies
<1>13. ASSUME NEW c \in Commands, pin_start(c)
      PROVE  cli' \in [Commands -> CommandState]
  BY <1>13 DEF pin_start, At, docker_start, Reads, Loaded
<1>14. ASSUME NEW c \in Commands, stop_project(c)
      PROVE  cli' \in [Commands -> CommandState]
  BY <1>14 DEF stop_project, At, docker_stop, RunDies
<1>15. ASSUME NEW c \in Commands, remove_project(c)
      PROVE  cli' \in [Commands -> CommandState]
  BY <1>15 DEF remove_project, At, docker_rm, RunDies
<1>16. ASSUME NEW c \in Commands, authenticate_provider(c)
      PROVE  cli' \in [Commands -> CommandState]
  BY <1>16 DEF authenticate_provider, At, Go
<1>17. ASSUME NEW c \in Commands, verify_credential_readable(c)
      PROVE  cli' \in [Commands -> CommandState]
  BY <1>17 DEF verify_credential_readable, At
<1>18. ASSUME NEW c \in Commands, ensure_provider_available(c)
      PROVE  cli' \in [Commands -> CommandState]
  BY <1>18 DEF ensure_provider_available, At
<1>19. ASSUME NEW c \in Commands, setup_hermes(c)
      PROVE  cli' \in [Commands -> CommandState]
  BY <1>19 DEF setup_hermes, At
<1>20. ASSUME NEW c \in Commands, unregister_project(c)
      PROVE  cli' \in [Commands -> CommandState]
  BY <1>20 DEF unregister_project, At
<1>21. ASSUME NEW c \in Commands, DockerFails(c)
      PROVE  cli' \in [Commands -> CommandState]
  BY <1>21 DEF DockerFails, Fault
<1>22. ASSUME NEW c \in Commands, parse_allowlist(c)
      PROVE  cli' \in [Commands -> CommandState]
  BY <1>22 DEF parse_allowlist, At, TypeOK
<1>23. ASSUME NEW c \in Commands, revoke(c)
      PROVE  cli' \in [Commands -> CommandState]
  <2>1. CASE Exit(c)
    BY <2>1, ExitType
  <2>2. CASE Took(c, {cli[c].category}, cli[c].list \ {cli[c].category})
    <3>1. {cli[c].category} \subseteq Categories
      BY <1>23 DEF revoke, At, CategoryInv
    <3> QED
      BY <2>2, <3>1, QuietType DEF Took, Unaware, TypeOK
  <2> QED
    BY <1>23, <2>1, <2>2 DEF revoke
<1>24. ASSUME NEW c \in Commands, clear(c)
      PROVE  cli' \in [Commands -> CommandState]
  BY <1>24 DEF clear, At, Took, Unaware, TypeOK
<1>25. CASE AdmitRun
  BY <1>25 DEF AdmitRun
<1>26. CASE HermesFinishes
  BY <1>26 DEF HermesFinishes
<1>27. CASE RunSettles
  BY <1>27 DEF RunSettles
<1>28. CASE DaemonStops
  BY <1>28 DEF DaemonStops, Fault
<1>29. CASE DaemonStarts
  BY <1>29 DEF DaemonStarts
<1>30. CASE DockerRestarts
  BY <1>30 DEF DockerRestarts, Fault, RunDies, Reads, Loaded
<1>31. CASE HermesReloads
  BY <1>31 DEF HermesReloads
<1>32. ASSUME NEW d \in Dirs, EditConfig(d)
      PROVE  cli' \in [Commands -> CommandState]
  BY <1>32 DEF EditConfig
<1>33. ASSUME NEW k \in Categories, HermesRecords(k)
      PROVE  cli' \in [Commands -> CommandState]
  BY <1>33 DEF HermesRecords, Unaware, TypeOK
<1>34. CASE UNCHANGED vars
  BY <1>34 DEF vars
<1> QED
  BY <1>1, <1>2, <1>3, <1>4, <1>5, <1>6, <1>7, <1>8, <1>9, <1>10, <1>11, <1>12, <1>13,
     <1>14, <1>15, <1>16, <1>17, <1>18, <1>19, <1>20, <1>21, <1>22, <1>23, <1>24,
     <1>25, <1>26, <1>27, <1>28, <1>29, <1>30, <1>31, <1>32, <1>33, <1>34
  DEF Next, Lifecycle, Environment


\* The types of what the commands act on.
HostTypeOK ==
  /\ reg \in {"absent", "managed_container", "external"}
  /\ ctr \in {"absent", "stopped", "running"}
  /\ bind \in Dirs
  /\ files \in [Dirs -> RuntimeConfiguration]
  /\ proc \in {"none", "pinned", "unpinned"}
  /\ torn \in BOOLEAN
  /\ run \in [id : 0 .. MaxRuns, active : BOOLEAN, at : {"nowhere", "container", "external"}]
  /\ daemon \in BOOLEAN
  /\ rules \subseteq Categories /\ held \subseteq Categories
  /\ taken \subseteq Categories /\ revived \subseteq Categories
  /\ <<given, edits, faults>> \in Nat \X Nat \X Nat

\* TypeOK in its two parts.
LEMMA TypeParts ==
  TypeOK <=> cli \in [Commands -> CommandState] /\ HostTypeOK
BY DEF TypeOK, CommandState, HostTypeOK

\* Every operation keeps the rows, the container, the files and the rules.
LEMMA HostStep ==
  cli \in [Commands -> CommandState] /\ CategoryInv /\ HostTypeOK /\ [Next]_vars => HostTypeOK'
<1> SUFFICES ASSUME cli \in [Commands -> CommandState], CategoryInv, HostTypeOK, [Next]_vars
             PROVE  HostTypeOK'
  OBVIOUS
<1> USE Bounds, ConfigurationFacts
<1> USE DEF HostTypeOK, dockerVars, ruleVars, countVars
<1>1. ASSUME NEW o \in {"managed_container", "external"}, register_project(o)
      PROVE  HostTypeOK'
  BY <1>1 DEF register_project
<1>2. ASSUME NEW c \in Commands, NEW op \in Ops, Begin(c, op)
      PROVE  HostTypeOK'
  BY <1>2 DEF Begin, require_managed_container, owns_container
<1>3. ASSUME NEW c \in Commands, Guard(c)
      PROVE  HostTypeOK'
  BY <1>3 DEF Guard
<1>4. ASSUME NEW c \in Commands, project_spec(c)
      PROVE  HostTypeOK'
  BY <1>4 DEF project_spec
<1>5. ASSUME NEW c \in Commands, EnforcePolicy(c)
      PROVE  HostTypeOK'
  BY <1>5 DEF EnforcePolicy
<1>6. ASSUME NEW c \in Commands, ensure_project(c)
      PROVE  HostTypeOK'
  BY <1>6 DEF ensure_project, CommandState
<1>7. ASSUME NEW c \in Commands, start_project(c)
      PROVE  HostTypeOK'
  BY <1>7 DEF start_project, docker_start, Reads, Loaded
<1>8. ASSUME NEW c \in Commands, notify_reconcile(c)
      PROVE  HostTypeOK'
  BY <1>8 DEF notify_reconcile
<1>9. ASSUME NEW c \in Commands, wait_for_hermes(c)
      PROVE  HostTypeOK'
  BY <1>9 DEF wait_for_hermes
<1>10. ASSUME NEW c \in Commands, pin_read(c)
      PROVE  HostTypeOK'
  BY <1>10 DEF pin_read
<1>11. ASSUME NEW c \in Commands, pin_write(c)
      PROVE  HostTypeOK'
  BY <1>11 DEF pin_write, set_setting, CommandState, RuntimeConfiguration
<1>12. ASSUME NEW c \in Commands, pin_stop(c)
      PROVE  HostTypeOK'
  BY <1>12 DEF pin_stop, docker_stop, RunDies
<1>13. ASSUME NEW c \in Commands, pin_start(c)
      PROVE  HostTypeOK'
  BY <1>13 DEF pin_start, docker_start, Reads, Loaded
<1>14. ASSUME NEW c \in Commands, stop_project(c)
      PROVE  HostTypeOK'
  BY <1>14 DEF stop_project, docker_stop, RunDies
<1>15. ASSUME NEW c \in Commands, remove_project(c)
      PROVE  HostTypeOK'
  BY <1>15 DEF remove_project, docker_rm, RunDies
<1>16. ASSUME NEW c \in Commands, authenticate_provider(c)
      PROVE  HostTypeOK'
  BY <1>16 DEF authenticate_provider
<1>17. ASSUME NEW c \in Commands, verify_credential_readable(c)
      PROVE  HostTypeOK'
  BY <1>17 DEF verify_credential_readable
<1>18. ASSUME NEW c \in Commands, ensure_provider_available(c)
      PROVE  HostTypeOK'
  BY <1>18 DEF ensure_provider_available
<1>19. ASSUME NEW c \in Commands, setup_hermes(c)
      PROVE  HostTypeOK'
  <2>1. files' \in [Dirs -> RuntimeConfiguration]
    BY <1>19 DEF setup_hermes
  <2> QED
    BY <1>19, <2>1 DEF setup_hermes
<1>20. ASSUME NEW c \in Commands, unregister_project(c)
      PROVE  HostTypeOK'
  BY <1>20 DEF unregister_project
<1>21. ASSUME NEW c \in Commands, DockerFails(c)
      PROVE  HostTypeOK'
  BY <1>21 DEF DockerFails, Fault
<1>22. ASSUME NEW c \in Commands, parse_allowlist(c)
      PROVE  HostTypeOK'
  BY <1>22 DEF parse_allowlist
<1>23. ASSUME NEW c \in Commands, revoke(c)
      PROVE  HostTypeOK'
  <2>1. {cli[c].category} \subseteq Categories
    BY <1>23 DEF revoke, At, CategoryInv
  <2> QED
    BY <1>23, <2>1 DEF revoke, Took, CommandState
<1>24. ASSUME NEW c \in Commands, clear(c)
      PROVE  HostTypeOK'
  BY <1>24 DEF clear, Took, Unaware, CommandState
<1>25. CASE AdmitRun
  <2>1. run.id + 1 \in 0 .. MaxRuns
    BY <1>25 DEF AdmitRun
  <2>2. [id |-> run.id + 1, active |-> TRUE, at |-> "external"]
          \in [id : 0 .. MaxRuns, active : BOOLEAN, at : {"nowhere", "container", "external"}]
    BY <2>1
  <2>3. [id |-> run.id + 1, active |-> TRUE, at |-> "container"]
          \in [id : 0 .. MaxRuns, active : BOOLEAN, at : {"nowhere", "container", "external"}]
    BY <2>1
  <2>4. run' \in [id : 0 .. MaxRuns, active : BOOLEAN, at : {"nowhere", "container", "external"}]
    BY <1>25, <2>2, <2>3 DEF AdmitRun
  <2> QED
    BY <1>25, <2>4 DEF AdmitRun
<1>26. CASE HermesFinishes
  BY <1>26 DEF HermesFinishes
<1>27. CASE RunSettles
  BY <1>27 DEF RunSettles
<1>28. CASE DaemonStops
  <2>1. daemon' \in BOOLEAN
    BY <1>28 DEF DaemonStops
  <2>2. <<given, edits, faults>>' \in Nat \X Nat \X Nat
    BY <1>28 DEF DaemonStops, Fault
  <2> QED
    BY <1>28, <2>1, <2>2 DEF DaemonStops
<1>29. CASE DaemonStarts
  BY <1>29 DEF DaemonStarts
<1>30. CASE DockerRestarts
  <2>1. files' \in [Dirs -> RuntimeConfiguration] /\ proc' \in {"none", "pinned", "unpinned"}
    BY <1>30 DEF DockerRestarts, Reads
  <2>2. run' \in [id : 0 .. MaxRuns, active : BOOLEAN, at : {"nowhere", "container", "external"}]
    BY <1>30 DEF DockerRestarts, RunDies
  <2>3. <<given, edits, faults>>' \in Nat \X Nat \X Nat
    BY <1>30 DEF DockerRestarts, Fault
  <2> QED
    BY <1>30, <2>1, <2>2, <2>3 DEF DockerRestarts
<1>31. CASE HermesReloads
  BY <1>31 DEF HermesReloads
<1>32. ASSUME NEW d \in Dirs, EditConfig(d)
      PROVE  HostTypeOK'
  BY <1>32 DEF EditConfig
<1>33. ASSUME NEW k \in Categories, HermesRecords(k)
      PROVE  HostTypeOK'
  BY <1>33 DEF HermesRecords, Unaware
<1>34. CASE UNCHANGED vars
  BY <1>34 DEF vars
<1> QED
  BY <1>1, <1>2, <1>3, <1>4, <1>5, <1>6, <1>7, <1>8, <1>9, <1>10, <1>11, <1>12, <1>13,
     <1>14, <1>15, <1>16, <1>17, <1>18, <1>19, <1>20, <1>21, <1>22, <1>23, <1>24,
     <1>25, <1>26, <1>27, <1>28, <1>29, <1>30, <1>31, <1>32, <1>33, <1>34
  DEF Next, Lifecycle, Environment


\* Every operation keeps the types.
LEMMA TypeOKStep ==
  TypeOK /\ CategoryInv /\ [Next]_vars => TypeOK'
<1>1. TypeOK /\ CategoryInv /\ [Next]_vars => HostTypeOK' /\ cli' \in [Commands -> CommandState]
  BY CommandStep, HostStep, TypeParts
<1>2. HostTypeOK' /\ cli' \in [Commands -> CommandState] => TypeOK'
  BY DEF TypeOK, CommandState, HostTypeOK
<1> QED
  BY <1>1, <1>2

\* `approvals revoke` has an argument.
LEMMA CategoryStep ==
  TypeOK /\ CategoryInv /\ [Next]_vars => CategoryInv'
<1> SUFFICES ASSUME TypeOK, CategoryInv, [Next]_vars
             PROVE  CategoryInv'
  OBVIOUS
<1> USE QuietFacts, GivenFacts
<1> USE DEF TypeOK, CategoryInv, dockerVars, ruleVars, countVars
<1>1. ASSUME NEW o \in {"managed_container", "external"}, register_project(o)
      PROVE  CategoryInv'
  BY <1>1 DEF register_project
<1>2. ASSUME NEW c \in Commands, NEW op \in Ops, Begin(c, op)
      PROVE  CategoryInv'
  BY <1>2 DEF Begin, require_managed_container, owns_container
<1>3. ASSUME NEW c \in Commands, Guard(c)
      PROVE  CategoryInv'
  BY <1>3 DEF Guard, At, Exit
<1>4. ASSUME NEW c \in Commands, project_spec(c)
      PROVE  CategoryInv'
  BY <1>4 DEF project_spec, At, Exit
<1>5. ASSUME NEW c \in Commands, EnforcePolicy(c)
      PROVE  CategoryInv'
  BY <1>5 DEF EnforcePolicy, At, Go, Exit
<1>6. ASSUME NEW c \in Commands, ensure_project(c)
      PROVE  CategoryInv'
  BY <1>6 DEF ensure_project, At, Go
<1>7. ASSUME NEW c \in Commands, start_project(c)
      PROVE  CategoryInv'
  BY <1>7 DEF start_project, At, Go, Exit, docker_start, Reads, Loaded
<1>8. ASSUME NEW c \in Commands, notify_reconcile(c)
      PROVE  CategoryInv'
  BY <1>8 DEF notify_reconcile, At, Exit
<1>9. ASSUME NEW c \in Commands, wait_for_hermes(c)
      PROVE  CategoryInv'
  BY <1>9 DEF wait_for_hermes, At, Go
<1>10. ASSUME NEW c \in Commands, pin_read(c)
      PROVE  CategoryInv'
  BY <1>10 DEF pin_read, At, Exit
<1>11. ASSUME NEW c \in Commands, pin_write(c)
      PROVE  CategoryInv'
  BY <1>11 DEF pin_write, At, set_setting
<1>12. ASSUME NEW c \in Commands, pin_stop(c)
      PROVE  CategoryInv'
  BY <1>12 DEF pin_stop, At, Go, Exit, docker_stop, RunDies
<1>13. ASSUME NEW c \in Commands, pin_start(c)
      PROVE  CategoryInv'
  BY <1>13 DEF pin_start, At, Exit, docker_start, Reads, Loaded
<1>14. ASSUME NEW c \in Commands, stop_project(c)
      PROVE  CategoryInv'
  BY <1>14 DEF stop_project, At, Exit, docker_stop, RunDies
<1>15. ASSUME NEW c \in Commands, remove_project(c)
      PROVE  CategoryInv'
  BY <1>15 DEF remove_project, At, Exit, docker_rm, RunDies
<1>16. ASSUME NEW c \in Commands, authenticate_provider(c)
      PROVE  CategoryInv'
  BY <1>16 DEF authenticate_provider, At, Go, Exit
<1>17. ASSUME NEW c \in Commands, verify_credential_readable(c)
      PROVE  CategoryInv'
  BY <1>17 DEF verify_credential_readable, At, Exit
<1>18. ASSUME NEW c \in Commands, ensure_provider_available(c)
      PROVE  CategoryInv'
  BY <1>18 DEF ensure_provider_available, At, Exit
<1>19. ASSUME NEW c \in Commands, setup_hermes(c)
      PROVE  CategoryInv'
  BY <1>19 DEF setup_hermes, At, Exit
<1>20. ASSUME NEW c \in Commands, unregister_project(c)
      PROVE  CategoryInv'
  BY <1>20 DEF unregister_project, At, Exit
<1>21. ASSUME NEW c \in Commands, DockerFails(c)
      PROVE  CategoryInv'
  BY <1>21 DEF DockerFails, Exit, Fault
<1>22. ASSUME NEW c \in Commands, parse_allowlist(c)
      PROVE  CategoryInv'
  BY <1>22 DEF parse_allowlist, At, Exit
<1>23. ASSUME NEW c \in Commands, revoke(c)
      PROVE  CategoryInv'
  BY <1>23 DEF revoke, At, Exit, Took, Unaware
<1>24. ASSUME NEW c \in Commands, clear(c)
      PROVE  CategoryInv'
  BY <1>24 DEF clear, At, Took, Unaware
<1>25. CASE AdmitRun
  BY <1>25 DEF AdmitRun
<1>26. CASE HermesFinishes
  BY <1>26 DEF HermesFinishes
<1>27. CASE RunSettles
  BY <1>27 DEF RunSettles
<1>28. CASE DaemonStops
  BY <1>28 DEF DaemonStops, Fault
<1>29. CASE DaemonStarts
  BY <1>29 DEF DaemonStarts
<1>30. CASE DockerRestarts
  BY <1>30 DEF DockerRestarts, Fault, RunDies, Reads, Loaded
<1>31. CASE HermesReloads
  BY <1>31 DEF HermesReloads
<1>32. ASSUME NEW d \in Dirs, EditConfig(d)
      PROVE  CategoryInv'
  BY <1>32 DEF EditConfig
<1>33. ASSUME NEW k \in Categories, HermesRecords(k)
      PROVE  CategoryInv'
  BY <1>33 DEF HermesRecords, Unaware
<1>34. CASE UNCHANGED vars
  BY <1>34 DEF vars
<1> QED
  BY <1>1, <1>2, <1>3, <1>4, <1>5, <1>6, <1>7, <1>8, <1>9, <1>10, <1>11, <1>12, <1>13,
     <1>14, <1>15, <1>16, <1>17, <1>18, <1>19, <1>20, <1>21, <1>22, <1>23, <1>24,
     <1>25, <1>26, <1>27, <1>28, <1>29, <1>30, <1>31, <1>32, <1>33, <1>34
  DEF Next, Lifecycle, Environment

\* A run behind a guard was admitted after it: numbers grow, and only an
\* admission makes a run active.
LEMMA SeenStep ==
  TypeOK /\ SeenInv /\ KnownRunSpared /\ [Next]_vars => (SeenInv /\ KnownRunSpared)'
<1> SUFFICES ASSUME TypeOK, SeenInv, KnownRunSpared, [Next]_vars
             PROVE  (SeenInv /\ KnownRunSpared)'
  OBVIOUS
<1> USE Bounds, QuietFacts, GivenFacts
<1> USE DEF TypeOK, SeenInv, KnownRunSpared, dockerVars, ruleVars, countVars
<1>1. ASSUME NEW o \in {"managed_container", "external"}, register_project(o)
      PROVE  (SeenInv /\ KnownRunSpared)'
  BY <1>1 DEF register_project
<1>2. ASSUME NEW c \in Commands, NEW op \in Ops, Begin(c, op)
      PROVE  (SeenInv /\ KnownRunSpared)'
  BY <1>2 DEF Begin, require_managed_container, owns_container
<1>3. ASSUME NEW c \in Commands, Guard(c)
      PROVE  (SeenInv /\ KnownRunSpared)'
  BY <1>3 DEF Guard, At, Exit, active_runs, project_activity, ensure_project_idle, NodeUnavailable
<1>4. ASSUME NEW c \in Commands, project_spec(c)
      PROVE  (SeenInv /\ KnownRunSpared)'
  BY <1>4 DEF project_spec, At, Exit
<1>5. ASSUME NEW c \in Commands, EnforcePolicy(c)
      PROVE  (SeenInv /\ KnownRunSpared)'
  BY <1>5 DEF EnforcePolicy, At, Go, Exit
<1>6. ASSUME NEW c \in Commands, ensure_project(c)
      PROVE  (SeenInv /\ KnownRunSpared)'
  BY <1>6 DEF ensure_project, At, Go
<1>7. ASSUME NEW c \in Commands, start_project(c)
      PROVE  (SeenInv /\ KnownRunSpared)'
  BY <1>7 DEF start_project, At, Go, Exit, docker_start, Reads, Loaded
<1>8. ASSUME NEW c \in Commands, notify_reconcile(c)
      PROVE  (SeenInv /\ KnownRunSpared)'
  BY <1>8 DEF notify_reconcile, At, Exit
<1>9. ASSUME NEW c \in Commands, wait_for_hermes(c)
      PROVE  (SeenInv /\ KnownRunSpared)'
  BY <1>9 DEF wait_for_hermes, At, Go
<1>10. ASSUME NEW c \in Commands, pin_read(c)
      PROVE  (SeenInv /\ KnownRunSpared)'
  BY <1>10 DEF pin_read, At, Exit
<1>11. ASSUME NEW c \in Commands, pin_write(c)
      PROVE  (SeenInv /\ KnownRunSpared)'
  BY <1>11 DEF pin_write, At, set_setting
<1>12. ASSUME NEW c \in Commands, pin_stop(c)
      PROVE  (SeenInv /\ KnownRunSpared)'
  BY <1>12 DEF pin_stop, At, Go, Exit, docker_stop, RunDies
<1>13. ASSUME NEW c \in Commands, pin_start(c)
      PROVE  (SeenInv /\ KnownRunSpared)'
  BY <1>13 DEF pin_start, At, Exit, docker_start, Reads, Loaded
<1>14. ASSUME NEW c \in Commands, stop_project(c)
      PROVE  (SeenInv /\ KnownRunSpared)'
  BY <1>14 DEF stop_project, At, Exit, docker_stop, RunDies
<1>15. ASSUME NEW c \in Commands, remove_project(c)
      PROVE  (SeenInv /\ KnownRunSpared)'
  BY <1>15 DEF remove_project, At, Exit, docker_rm, RunDies
<1>16. ASSUME NEW c \in Commands, authenticate_provider(c)
      PROVE  (SeenInv /\ KnownRunSpared)'
  BY <1>16 DEF authenticate_provider, At, Go, Exit
<1>17. ASSUME NEW c \in Commands, verify_credential_readable(c)
      PROVE  (SeenInv /\ KnownRunSpared)'
  BY <1>17 DEF verify_credential_readable, At, Exit
<1>18. ASSUME NEW c \in Commands, ensure_provider_available(c)
      PROVE  (SeenInv /\ KnownRunSpared)'
  BY <1>18 DEF ensure_provider_available, At, Exit
<1>19. ASSUME NEW c \in Commands, setup_hermes(c)
      PROVE  (SeenInv /\ KnownRunSpared)'
  BY <1>19 DEF setup_hermes, At, Exit
<1>20. ASSUME NEW c \in Commands, unregister_project(c)
      PROVE  (SeenInv /\ KnownRunSpared)'
  BY <1>20 DEF unregister_project, At, Exit
<1>21. ASSUME NEW c \in Commands, DockerFails(c)
      PROVE  (SeenInv /\ KnownRunSpared)'
  BY <1>21 DEF DockerFails, Exit, Fault
<1>22. ASSUME NEW c \in Commands, parse_allowlist(c)
      PROVE  (SeenInv /\ KnownRunSpared)'
  BY <1>22 DEF parse_allowlist, At, Exit
<1>23. ASSUME NEW c \in Commands, revoke(c)
      PROVE  (SeenInv /\ KnownRunSpared)'
  BY <1>23 DEF revoke, At, Exit, Took, Unaware
<1>24. ASSUME NEW c \in Commands, clear(c)
      PROVE  (SeenInv /\ KnownRunSpared)'
  BY <1>24 DEF clear, At, Took, Unaware
<1>25. CASE AdmitRun
  BY <1>25 DEF AdmitRun
<1>26. CASE HermesFinishes
  BY <1>26 DEF HermesFinishes
<1>27. CASE RunSettles
  BY <1>27 DEF RunSettles
<1>28. CASE DaemonStops
  BY <1>28 DEF DaemonStops, Fault
<1>29. CASE DaemonStarts
  BY <1>29 DEF DaemonStarts
<1>30. CASE DockerRestarts
  BY <1>30 DEF DockerRestarts, Fault, RunDies, Reads, Loaded
<1>31. CASE HermesReloads
  BY <1>31 DEF HermesReloads
<1>32. ASSUME NEW d \in Dirs, EditConfig(d)
      PROVE  (SeenInv /\ KnownRunSpared)'
  BY <1>32 DEF EditConfig
<1>33. ASSUME NEW k \in Categories, HermesRecords(k)
      PROVE  (SeenInv /\ KnownRunSpared)'
  BY <1>33 DEF HermesRecords, Unaware
<1>34. CASE UNCHANGED vars
  BY <1>34 DEF vars
<1> QED
  BY <1>1, <1>2, <1>3, <1>4, <1>5, <1>6, <1>7, <1>8, <1>9, <1>10, <1>11, <1>12, <1>13,
     <1>14, <1>15, <1>16, <1>17, <1>18, <1>19, <1>20, <1>21, <1>22, <1>23, <1>24,
     <1>25, <1>26, <1>27, <1>28, <1>29, <1>30, <1>31, <1>32, <1>33, <1>34
  DEF Next, Lifecycle, Environment

\* What starts reads the pins that are there, and who writes them goes on to stop
\* what runs.
LEMMA PinsStep ==
  TypeOK /\ PinsInEffect /\ [Next]_vars => PinsInEffect'
<1> SUFFICES ASSUME TypeOK, PinsInEffect, [Next]_vars
             PROVE  PinsInEffect'
  OBVIOUS
<1> USE QuietFacts, GivenFacts, ConfigurationFacts
<1> USE DEF TypeOK, PinsInEffect, At, dockerVars, ruleVars, countVars
<1>1. ASSUME NEW o \in {"managed_container", "external"}, register_project(o)
      PROVE  PinsInEffect'
  BY <1>1 DEF register_project
<1>2. ASSUME NEW c \in Commands, NEW op \in Ops, Begin(c, op)
      PROVE  PinsInEffect'
  BY <1>2 DEF Begin, require_managed_container, owns_container
<1>3. ASSUME NEW c \in Commands, Guard(c)
      PROVE  PinsInEffect'
  BY <1>3 DEF Guard, At, Exit
<1>4. ASSUME NEW c \in Commands, project_spec(c)
      PROVE  PinsInEffect'
  BY <1>4 DEF project_spec, At, Exit
<1>5. ASSUME NEW c \in Commands, EnforcePolicy(c)
      PROVE  PinsInEffect'
  BY <1>5 DEF EnforcePolicy, At, Go, Exit
<1>6. ASSUME NEW c \in Commands, ensure_project(c)
      PROVE  PinsInEffect'
  BY <1>6 DEF ensure_project, At, Go
<1>7. ASSUME NEW c \in Commands, start_project(c)
      PROVE  PinsInEffect'
  BY <1>7 DEF start_project, At, Go, Exit, docker_start, Reads, Loaded
<1>8. ASSUME NEW c \in Commands, notify_reconcile(c)
      PROVE  PinsInEffect'
  BY <1>8 DEF notify_reconcile, At, Exit
<1>9. ASSUME NEW c \in Commands, wait_for_hermes(c)
      PROVE  PinsInEffect'
  BY <1>9 DEF wait_for_hermes, At, Go
<1>10. ASSUME NEW c \in Commands, pin_read(c)
      PROVE  PinsInEffect'
  BY <1>10 DEF pin_read, At, Exit
<1>11. ASSUME NEW c \in Commands, pin_write(c)
      PROVE  PinsInEffect'
  BY <1>11 DEF pin_write, At, set_setting
<1>12. ASSUME NEW c \in Commands, pin_stop(c)
      PROVE  PinsInEffect'
  BY <1>12 DEF pin_stop, At, Go, Exit, docker_stop, RunDies
<1>13. ASSUME NEW c \in Commands, pin_start(c)
      PROVE  PinsInEffect'
  BY <1>13 DEF pin_start, At, Exit, docker_start, Reads, Loaded
<1>14. ASSUME NEW c \in Commands, stop_project(c)
      PROVE  PinsInEffect'
  BY <1>14 DEF stop_project, At, Exit, docker_stop, RunDies
<1>15. ASSUME NEW c \in Commands, remove_project(c)
      PROVE  PinsInEffect'
  BY <1>15 DEF remove_project, At, Exit, docker_rm, RunDies
<1>16. ASSUME NEW c \in Commands, authenticate_provider(c)
      PROVE  PinsInEffect'
  BY <1>16 DEF authenticate_provider, At, Go, Exit
<1>17. ASSUME NEW c \in Commands, verify_credential_readable(c)
      PROVE  PinsInEffect'
  BY <1>17 DEF verify_credential_readable, At, Exit
<1>18. ASSUME NEW c \in Commands, ensure_provider_available(c)
      PROVE  PinsInEffect'
  BY <1>18 DEF ensure_provider_available, At, Exit
<1>19. ASSUME NEW c \in Commands, setup_hermes(c)
      PROVE  PinsInEffect'
  BY <1>19 DEF setup_hermes, At, Exit
<1>20. ASSUME NEW c \in Commands, unregister_project(c)
      PROVE  PinsInEffect'
  BY <1>20 DEF unregister_project, At, Exit
<1>21. ASSUME NEW c \in Commands, DockerFails(c)
      PROVE  PinsInEffect'
  BY <1>21 DEF DockerFails, Exit, Fault
<1>22. ASSUME NEW c \in Commands, parse_allowlist(c)
      PROVE  PinsInEffect'
  <2>1. \A e \in Commands : At(e, {"ensure"}, "pinned") => At(e, {"ensure"}, "pinned")'
    BY <1>22 DEF parse_allowlist, Exit
  <2>2. \A e \in Commands : At(e, {"ensure"}, "pinned") => cli'[e].data = cli[e].data
    BY <1>22 DEF parse_allowlist, Exit
  <2> QED
    BY <1>22, <2>1, <2>2 DEF parse_allowlist
<1>23. ASSUME NEW c \in Commands, revoke(c)
      PROVE  PinsInEffect'
  BY <1>23 DEF revoke, At, Exit, Took, Unaware
<1>24. ASSUME NEW c \in Commands, clear(c)
      PROVE  PinsInEffect'
  BY <1>24 DEF clear, At, Took, Unaware
<1>25. CASE AdmitRun
  BY <1>25 DEF AdmitRun
<1>26. CASE HermesFinishes
  BY <1>26 DEF HermesFinishes
<1>27. CASE RunSettles
  BY <1>27 DEF RunSettles
<1>28. CASE DaemonStops
  BY <1>28 DEF DaemonStops, Fault
<1>29. CASE DaemonStarts
  BY <1>29 DEF DaemonStarts
<1>30. CASE DockerRestarts
  BY <1>30 DEF DockerRestarts, Fault, RunDies, Reads, Loaded
<1>31. CASE HermesReloads
  BY <1>31 DEF HermesReloads
<1>32. ASSUME NEW d \in Dirs, EditConfig(d)
      PROVE  PinsInEffect'
  BY <1>32 DEF EditConfig
<1>33. ASSUME NEW k \in Categories, HermesRecords(k)
      PROVE  PinsInEffect'
  BY <1>33 DEF HermesRecords, Unaware
<1>34. CASE UNCHANGED vars
  BY <1>34 DEF vars
<1> QED
  BY <1>1, <1>2, <1>3, <1>4, <1>5, <1>6, <1>7, <1>8, <1>9, <1>10, <1>11, <1>12, <1>13,
     <1>14, <1>15, <1>16, <1>17, <1>18, <1>19, <1>20, <1>21, <1>22, <1>23, <1>24,
     <1>25, <1>26, <1>27, <1>28, <1>29, <1>30, <1>31, <1>32, <1>33, <1>34
  DEF Next, Lifecycle, Environment

\* A write brings back what its list holds, and marks every other list that
\* was read.
LEMMA ListStep ==
  TypeOK /\ ListInv /\ RevokedReturnsByRace /\ [Next]_vars => (ListInv /\ RevokedReturnsByRace)'
<1> SUFFICES ASSUME TypeOK, ListInv, RevokedReturnsByRace, [Next]_vars
             PROVE  (ListInv /\ RevokedReturnsByRace)'
  OBVIOUS
<1> USE QuietFacts, GivenFacts
<1> USE DEF TypeOK, ListInv, RevokedReturnsByRace, dockerVars, ruleVars, countVars
<1>1. ASSUME NEW o \in {"managed_container", "external"}, register_project(o)
      PROVE  (ListInv /\ RevokedReturnsByRace)'
  BY <1>1 DEF register_project
<1>2. ASSUME NEW c \in Commands, NEW op \in Ops, Begin(c, op)
      PROVE  (ListInv /\ RevokedReturnsByRace)'
  BY <1>2 DEF Begin, require_managed_container, owns_container
<1>3. ASSUME NEW c \in Commands, Guard(c)
      PROVE  (ListInv /\ RevokedReturnsByRace)'
  BY <1>3 DEF Guard, At, Exit
<1>4. ASSUME NEW c \in Commands, project_spec(c)
      PROVE  (ListInv /\ RevokedReturnsByRace)'
  BY <1>4 DEF project_spec, At, Exit
<1>5. ASSUME NEW c \in Commands, EnforcePolicy(c)
      PROVE  (ListInv /\ RevokedReturnsByRace)'
  BY <1>5 DEF EnforcePolicy, At, Go, Exit
<1>6. ASSUME NEW c \in Commands, ensure_project(c)
      PROVE  (ListInv /\ RevokedReturnsByRace)'
  BY <1>6 DEF ensure_project, At, Go
<1>7. ASSUME NEW c \in Commands, start_project(c)
      PROVE  (ListInv /\ RevokedReturnsByRace)'
  BY <1>7 DEF start_project, At, Go, Exit, docker_start, Reads, Loaded
<1>8. ASSUME NEW c \in Commands, notify_reconcile(c)
      PROVE  (ListInv /\ RevokedReturnsByRace)'
  BY <1>8 DEF notify_reconcile, At, Exit
<1>9. ASSUME NEW c \in Commands, wait_for_hermes(c)
      PROVE  (ListInv /\ RevokedReturnsByRace)'
  BY <1>9 DEF wait_for_hermes, At, Go
<1>10. ASSUME NEW c \in Commands, pin_read(c)
      PROVE  (ListInv /\ RevokedReturnsByRace)'
  BY <1>10 DEF pin_read, At, Exit
<1>11. ASSUME NEW c \in Commands, pin_write(c)
      PROVE  (ListInv /\ RevokedReturnsByRace)'
  BY <1>11 DEF pin_write, At, set_setting
<1>12. ASSUME NEW c \in Commands, pin_stop(c)
      PROVE  (ListInv /\ RevokedReturnsByRace)'
  BY <1>12 DEF pin_stop, At, Go, Exit, docker_stop, RunDies
<1>13. ASSUME NEW c \in Commands, pin_start(c)
      PROVE  (ListInv /\ RevokedReturnsByRace)'
  BY <1>13 DEF pin_start, At, Exit, docker_start, Reads, Loaded
<1>14. ASSUME NEW c \in Commands, stop_project(c)
      PROVE  (ListInv /\ RevokedReturnsByRace)'
  BY <1>14 DEF stop_project, At, Exit, docker_stop, RunDies
<1>15. ASSUME NEW c \in Commands, remove_project(c)
      PROVE  (ListInv /\ RevokedReturnsByRace)'
  BY <1>15 DEF remove_project, At, Exit, docker_rm, RunDies
<1>16. ASSUME NEW c \in Commands, authenticate_provider(c)
      PROVE  (ListInv /\ RevokedReturnsByRace)'
  BY <1>16 DEF authenticate_provider, At, Go, Exit
<1>17. ASSUME NEW c \in Commands, verify_credential_readable(c)
      PROVE  (ListInv /\ RevokedReturnsByRace)'
  BY <1>17 DEF verify_credential_readable, At, Exit
<1>18. ASSUME NEW c \in Commands, ensure_provider_available(c)
      PROVE  (ListInv /\ RevokedReturnsByRace)'
  BY <1>18 DEF ensure_provider_available, At, Exit
<1>19. ASSUME NEW c \in Commands, setup_hermes(c)
      PROVE  (ListInv /\ RevokedReturnsByRace)'
  BY <1>19 DEF setup_hermes, At, Exit
<1>20. ASSUME NEW c \in Commands, unregister_project(c)
      PROVE  (ListInv /\ RevokedReturnsByRace)'
  BY <1>20 DEF unregister_project, At, Exit
<1>21. ASSUME NEW c \in Commands, DockerFails(c)
      PROVE  (ListInv /\ RevokedReturnsByRace)'
  BY <1>21 DEF DockerFails, Exit, Fault
<1>22. ASSUME NEW c \in Commands, parse_allowlist(c)
      PROVE  (ListInv /\ RevokedReturnsByRace)'
  BY <1>22 DEF parse_allowlist, At, Exit
<1>23. ASSUME NEW c \in Commands, revoke(c)
      PROVE  (ListInv /\ RevokedReturnsByRace)'
  BY <1>23 DEF revoke, At, Exit, Took, Unaware
<1>24. ASSUME NEW c \in Commands, clear(c)
      PROVE  (ListInv /\ RevokedReturnsByRace)'
  BY <1>24 DEF clear, At, Took, Unaware
<1>25. CASE AdmitRun
  BY <1>25 DEF AdmitRun
<1>26. CASE HermesFinishes
  BY <1>26 DEF HermesFinishes
<1>27. CASE RunSettles
  BY <1>27 DEF RunSettles
<1>28. CASE DaemonStops
  BY <1>28 DEF DaemonStops, Fault
<1>29. CASE DaemonStarts
  BY <1>29 DEF DaemonStarts
<1>30. CASE DockerRestarts
  BY <1>30 DEF DockerRestarts, Fault, RunDies, Reads, Loaded
<1>31. CASE HermesReloads
  BY <1>31 DEF HermesReloads
<1>32. ASSUME NEW d \in Dirs, EditConfig(d)
      PROVE  (ListInv /\ RevokedReturnsByRace)'
  BY <1>32 DEF EditConfig
<1>33. ASSUME NEW k \in Categories, HermesRecords(k)
      PROVE  (ListInv /\ RevokedReturnsByRace)'
  BY <1>33 DEF HermesRecords, Unaware
<1>34. CASE UNCHANGED vars
  BY <1>34 DEF vars
<1> QED
  BY <1>1, <1>2, <1>3, <1>4, <1>5, <1>6, <1>7, <1>8, <1>9, <1>10, <1>11, <1>12, <1>13,
     <1>14, <1>15, <1>16, <1>17, <1>18, <1>19, <1>20, <1>21, <1>22, <1>23, <1>24,
     <1>25, <1>26, <1>27, <1>28, <1>29, <1>30, <1>31, <1>32, <1>33, <1>34
  DEF Next, Lifecycle, Environment


\* The invariant is one.
LEMMA Invariance == Spec => []IInv
<1>1. Init => IInv
  <2> SUFFICES ASSUME Init PROVE IInv
    OBVIOUS
  <2> USE BoundsAssumption, QuietFacts, ConfigurationFacts DEF Init
  <2>1. TypeOK
    <3>1. cli \in [Commands -> CommandState]
      BY QuietType
    <3>2. HostTypeOK
      <4>1. files \in [Dirs -> RuntimeConfiguration] /\ bind \in Dirs
        BY DEF Dirs
      <4>2. run \in [id : 0 .. MaxRuns, active : BOOLEAN, at : {"nowhere", "container", "external"}]
        BY DEF NoRun
      <4>3. <<given, edits, faults>> \in Nat \X Nat \X Nat
        OBVIOUS
      <4> QED
        BY <4>1, <4>2, <4>3 DEF HostTypeOK
    <3> QED
      BY <3>1, <3>2, TypeParts
  <2>2. SeenInv /\ KnownRunSpared
    BY DEF SeenInv, KnownRunSpared, NoRun
  <2>3. PinsInEffect
    BY DEF PinsInEffect
  <2>4. ListInv /\ RevokedReturnsByRace
    BY DEF ListInv, RevokedReturnsByRace
  <2>5. CategoryInv
    BY DEF CategoryInv
  <2> QED
    BY <2>1, <2>2, <2>3, <2>4, <2>5 DEF IInv
<1>2. IInv /\ [Next]_vars => IInv'
  BY TypeOKStep, CategoryStep, SeenStep, PinsStep, ListStep DEF IInv
<1> QED
  BY <1>1, <1>2, PTL DEF Spec

\* The rows, the container, the configuration and the commands of main.rs keep
\* their types, whatever interleaving of commands.
THEOREM TypeCorrectness == Spec => []TypeOK
BY Invariance, PTL DEF IInv

\* `project stop`, `remove`, `unregister` and a login meet no run that
\* ensure_project_idle, asked under the Node's home, or the registry could have
\* told them of.
THEOREM KnownRunsAreSpared == Spec => []KnownRunSpared
BY Invariance, PTL DEF IInv

\* The restart after pin_model_configuration: Hermes runs with the pins its file
\* has, unless the command that wrote them has yet to restart it or ended before.
THEOREM PinsAreInEffect == Spec => []PinsInEffect
BY Invariance, PTL DEF IInv

\* A rule `approvals revoke` took away stands again only through the list of a
\* command that had read it before, or the one Hermes had loaded.
THEOREM RevokedRulesReturnByRaceOnly == Spec => []RevokedReturnsByRace
BY Invariance, PTL DEF IInv

-----------------------------------------------------------------------------
(* The approvals of one run, specified in RunApprovals, for any number of  *)
(* requests and crashes and any set of frames and of hazards.              *)
(*                                                                         *)
(* The argument for ForwardedAtMostOnce: a row is forwarded by the task or *)
(* call that claimed it, a row is claimed once, and the claim is spent by  *)
(* the forward (ClaimInv).  That an answer is about the request it reaches *)
(* needs Hermes to wait: until a request times out or the run ends, one    *)
(* without a decision is the one Hermes waits on, and so is the request of *)
(* a claim that was not forwarded yet (WaitedFor); and a timeout always    *)
(* comes before the request that is answered astray (TargetInv).           *)

\* Who is working on which row.
SubjectInv ==
  /\ wpc \in {"request", "policy", "claim"} => wframe \in Frames
  /\ call \in {"decide", "forward", "resolved", "failed"} =>
       callFrame \in Frames /\ callArg \in Choices
  /\ call = "policy" => callArg \in Policies
  /\ \A k \in Requests : k <= asked => frame[k] \in Frames
  /\ waiting <= asked

\* A claim is unspent until its forward, and a row is claimed once.
ClaimInv ==
  /\ \A f \in Frames :
       /\ sends[f] <= 1
       /\ decision[f] \in {"none", "open"} => sends[f] = 0 /\ autos[f] = "none"
       /\ autos[f] = "claimed" => sends[f] = 0
  /\ call = "forward" =>
       sends[callFrame] = 0 /\ autos[callFrame] = "none" /\ decision[callFrame] = callArg

\* What a task or a call is about to journal as applied, Hermes took.
ResultInv ==
  /\ \A f \in Frames : resolution[f] = "resolved" \/ autos[f] = "resolved"
                       => \E k \in Requests : via[k] = f
  /\ call = "resolved" => \E k \in Requests : via[k] = callFrame
  /\ waiting # NoRequest => via[waiting] = NoFrame
  /\ \A k \in Requests : k > asked => via[k] = NoFrame

\* As long as no request timed out and the run goes on, undecided requests and
\* unspent claims are about the request Hermes waits on.
TimedOut == \E j \in Requests : outcome[j] = "timeout"

WaitedFor ==
  /\ \A k \in Requests : k <= asked /\ decision[frame[k]] \in {"none", "open"} => waiting = k
  /\ \A f \in Frames :
       /\ decision[f] # "none" => \E k \in Requests : k <= asked /\ frame[k] = f
       /\ autos[f] = "claimed" => waiting # NoRequest /\ frame[waiting] = f
  /\ wpc \in {"request", "policy", "claim"} =>
       \E k \in Requests : k <= asked /\ frame[k] = wframe
  /\ call = "forward" => waiting # NoRequest /\ frame[waiting] = callFrame

\* What Hermes took is a row's decision for good, and the request Hermes waits
\* on is the last one, so that whatever timed out came before it.
TargetInv ==
  /\ \A k \in Requests : via[k] # NoFrame =>
       /\ outcome[k] \in Choices /\ outcome[k] = decision[via[k]]
       /\ via[k] = frame[k] \/ \E j \in Requests : j < k /\ outcome[j] = "timeout"
  /\ waiting # NoRequest => waiting = asked /\ outcome[waiting] = "none"
  /\ \A k \in Requests : k > asked => outcome[k] = "none"
  /\ \A f \in Frames : autos[f] = "claimed" => decision[f] = "once"
  /\ hdone => waiting = NoRequest
  /\ TimedOut \/ hdone \/ WaitedFor

ApprovalsInv == ApprovalsTypeOK /\ SubjectInv /\ ClaimInv /\ ResultInv /\ TargetInv

\* Every action keeps the types, "always" is refused before it can be stored.
LEMMA ApprovalsTypeStep ==
  ApprovalsTypeOK /\ SubjectInv /\ [ApprovalsNext]_approvalVars => ApprovalsTypeOK'
<1> USE NumRequestsAssumption, NoFrameAssumption
<1> SUFFICES ASSUME ApprovalsTypeOK, SubjectInv, [ApprovalsNext]_approvalVars
             PROVE  ApprovalsTypeOK'
  OBVIOUS
<1> USE DEF ApprovalsTypeOK, SubjectInv, Requests, NoRequest,
            hermesVars, registryVars,
            callVars, historyVars, workerVars, Choices, Policies
<1>1. ASSUME NEW f \in Frames, HAsk(f)
      PROVE  ApprovalsTypeOK'
  BY <1>1 DEF HAsk
<1>2. ASSUME NEW f \in Frames, AutoSend(f)
      PROVE  ApprovalsTypeOK'
  <2>1. sends' \in [Frames -> Nat]
    BY <1>2 DEF AutoSend, Forward
  <2>2. waiting' \in Requests \union {NoRequest}
    BY <1>2 DEF AutoSend, Forward
  <2>3. outcome' \in [Requests -> Choices \union {"none", "timeout"}]
    BY <1>2 DEF AutoSend, Forward
  <2>4. via' \in [Requests -> Frames \union {NoFrame}]
    BY <1>2 DEF AutoSend, Forward
  <2>5. autos' \in [Frames -> {"none", "claimed", "resolved", "failed"}]
    BY <1>2 DEF AutoSend
  <2> QED
    BY <1>2, <2>1, <2>2, <2>3, <2>4, <2>5 DEF AutoSend, Forward
<1>3. ASSUME NEW f \in Frames, AutoNote(f)
      PROVE  ApprovalsTypeOK'
  BY <1>3 DEF AutoNote
<1>4. CASE HTimeout
  BY <1>4 DEF HTimeout
<1>5. CASE HDone
  BY <1>5 DEF HDone
<1>6. CASE Crash
  BY <1>6 DEF Crash, Hangup
<1>7. ASSUME NEW k \in Requests, WFrame(k)
      PROVE  ApprovalsTypeOK'
  <2>1. frame[k] \in Frames
    BY <1>7 DEF WFrame
  <2>2. seqOf' \in [Frames -> Nat] /\ lastSeq' \in Nat
    <3>1. CASE UNCHANGED <<lastSeq, seqOf>>
      BY <3>1
    <3>2. CASE lastSeq' = lastSeq + 1 /\ seqOf' = [seqOf EXCEPT ![frame[k]] = lastSeq + 1]
      <4>1. lastSeq + 1 \in Nat /\ seqOf \in [Frames -> Nat]
        OBVIOUS
      <4> QED
        BY <2>1, <3>2, <4>1
    <3> QED
      BY <1>7, <3>1, <3>2 DEF WFrame
  <2>3. wframe' \in Frames \union {NoFrame} /\ wpc' = "request"
    BY <1>7, <2>1 DEF WFrame
  <2> QED
    BY <1>7, <2>2, <2>3 DEF WFrame
<1>8. CASE WRequest
  BY <1>8 DEF WRequest
<1>9. CASE WPolicy
  BY <1>9 DEF WPolicy
<1>10. CASE WClaim
  <2>1. decision' \in [Frames -> Choices \union {"none", "open"}]
    BY <1>10 DEF WClaim
  <2>2. autos' \in [Frames -> {"none", "claimed", "resolved", "failed"}]
    BY <1>10 DEF WClaim
  <2> QED
    BY <1>10, <2>1, <2>2 DEF WClaim
<1>11. CASE WFinish
  BY <1>11 DEF WFinish
<1>12. CASE Attach
  BY <1>12 DEF Attach
<1>13. CASE ResolveClaim
  <2>1. decision' \in [Frames -> Choices \union {"none", "open"}]
    BY <1>13 DEF ResolveClaim
  <2>2. /\ call' \in {"idle", "forward"}
        /\ callFrame' \in Frames \union {NoFrame}
        /\ callArg' \in Choices \union Policies \union {"none"}
    BY <1>13 DEF ResolveClaim, Hangup
  <2> QED
    BY <1>13, <2>1, <2>2 DEF ResolveClaim
<1>14. CASE ResolveSend
  <2>1. sends' \in [Frames -> Nat]
    BY <1>14 DEF ResolveSend, Forward
  <2>2. waiting' \in Requests \union {NoRequest}
    BY <1>14 DEF ResolveSend, Forward
  <2>3. outcome' \in [Requests -> Choices \union {"none", "timeout"}]
    BY <1>14 DEF ResolveSend, Forward
  <2>4. via' \in [Requests -> Frames \union {NoFrame}]
    BY <1>14 DEF ResolveSend, Forward
  <2>5. call' \in {"idle", "decide", "forward", "resolved", "failed", "policy"}
    BY <1>14 DEF ResolveSend
  <2> QED
    BY <1>14, <2>1, <2>2, <2>3, <2>4, <2>5 DEF ResolveSend, Forward
<1>15. CASE ResolveNote
  BY <1>15 DEF ResolveNote, Hangup
<1>16. CASE PolicyWrite
  BY <1>16 DEF PolicyWrite, Hangup
<1>17. ASSUME NEW f \in Frames, NEW choice \in Choices \union {"always"}, ResolveRead(f, choice)
      PROVE  ApprovalsTypeOK'
  BY <1>17 DEF ResolveRead, PendingApproval
<1>18. ASSUME NEW p \in Policies, PolicyCheck(p)
      PROVE  ApprovalsTypeOK'
  BY <1>18 DEF PolicyCheck
<1>19. CASE WReconnect
  BY <1>19 DEF WReconnect
<1>20. CASE PassSettles
  BY <1>20 DEF PassSettles
<1>21. CASE UNCHANGED approvalVars
  BY <1>21 DEF approvalVars
<1> QED
  BY <1>1, <1>2, <1>3, <1>4, <1>5, <1>6, <1>7, <1>8, <1>9, <1>10, <1>11, <1>12, <1>13,
     <1>14, <1>15, <1>16, <1>17, <1>18, <1>19, <1>20, <1>21
  DEF ApprovalsNext, WorkerStep, StreamStep, PassStep, AutoStep, CallStep

\* Every action knows which row it works on.
LEMMA SubjectStep ==
  ApprovalsTypeOK /\ SubjectInv /\ [ApprovalsNext]_approvalVars => SubjectInv'
<1> USE NumRequestsAssumption, NoFrameAssumption
<1> SUFFICES ASSUME ApprovalsTypeOK, SubjectInv, [ApprovalsNext]_approvalVars
             PROVE  SubjectInv'
  OBVIOUS
<1> USE DEF ApprovalsTypeOK, SubjectInv, Requests, NoRequest,
            hermesVars, registryVars,
            callVars, historyVars, workerVars, Choices, Policies
<1>1. ASSUME NEW f \in Frames, HAsk(f)
      PROVE  SubjectInv'
  BY <1>1 DEF HAsk
<1>2. ASSUME NEW f \in Frames, AutoSend(f)
      PROVE  SubjectInv'
  BY <1>2 DEF AutoSend, Forward
<1>3. ASSUME NEW f \in Frames, AutoNote(f)
      PROVE  SubjectInv'
  BY <1>3 DEF AutoNote
<1>4. CASE HTimeout
  BY <1>4 DEF HTimeout
<1>5. CASE HDone
  BY <1>5 DEF HDone
<1>6. CASE Crash
  BY <1>6 DEF Crash, Hangup
<1>7. ASSUME NEW k \in Requests, WFrame(k)
      PROVE  SubjectInv'
  BY <1>7 DEF WFrame
<1>8. CASE WRequest
  BY <1>8 DEF WRequest
<1>9. CASE WPolicy
  BY <1>9 DEF WPolicy
<1>10. CASE WClaim
  BY <1>10 DEF WClaim, Claimable
<1>11. CASE WFinish
  BY <1>11 DEF WFinish
<1>12. CASE Attach
  BY <1>12 DEF Attach
<1>13. CASE ResolveClaim
  BY <1>13 DEF ResolveClaim, Claimable, Hangup
<1>14. CASE ResolveSend
  BY <1>14 DEF ResolveSend, Forward
<1>15. CASE ResolveNote
  BY <1>15 DEF ResolveNote, Hangup
<1>16. CASE PolicyWrite
  BY <1>16 DEF PolicyWrite, Hangup
<1>17. ASSUME NEW f \in Frames, NEW choice \in Choices \union {"always"}, ResolveRead(f, choice)
      PROVE  SubjectInv'
  BY <1>17 DEF ResolveRead, PendingApproval
<1>18. ASSUME NEW p \in Policies, PolicyCheck(p)
      PROVE  SubjectInv'
  BY <1>18 DEF PolicyCheck
<1>19. CASE WReconnect
  BY <1>19 DEF WReconnect
<1>20. CASE PassSettles
  BY <1>20 DEF PassSettles
<1>21. CASE UNCHANGED approvalVars
  BY <1>21 DEF approvalVars
<1> QED
  BY <1>1, <1>2, <1>3, <1>4, <1>5, <1>6, <1>7, <1>8, <1>9, <1>10, <1>11, <1>12, <1>13,
     <1>14, <1>15, <1>16, <1>17, <1>18, <1>19, <1>20, <1>21
  DEF ApprovalsNext, WorkerStep, StreamStep, PassStep, AutoStep, CallStep

\* A row is claimed once and forwarded by its claim.
LEMMA ClaimStep ==
  ApprovalsTypeOK /\ SubjectInv /\ ClaimInv /\ [ApprovalsNext]_approvalVars => ClaimInv'
<1> USE NumRequestsAssumption, NoFrameAssumption
<1> SUFFICES ASSUME ApprovalsTypeOK, SubjectInv, ClaimInv, [ApprovalsNext]_approvalVars
             PROVE  ClaimInv'
  OBVIOUS
<1> USE DEF ApprovalsTypeOK, SubjectInv, Requests, NoRequest,
            hermesVars, registryVars,
            callVars, historyVars, workerVars, ClaimInv, Choices,
              Policies
<1>1. ASSUME NEW f \in Frames, HAsk(f)
      PROVE  ClaimInv'
  BY <1>1 DEF HAsk
<1>2. ASSUME NEW f \in Frames, AutoSend(f)
      PROVE  ClaimInv'
  BY <1>2 DEF AutoSend, Forward
<1>3. ASSUME NEW f \in Frames, AutoNote(f)
      PROVE  ClaimInv'
  BY <1>3 DEF AutoNote
<1>4. CASE HTimeout
  BY <1>4 DEF HTimeout
<1>5. CASE HDone
  BY <1>5 DEF HDone
<1>6. CASE Crash
  BY <1>6 DEF Crash, Hangup
<1>7. ASSUME NEW k \in Requests, WFrame(k)
      PROVE  ClaimInv'
  BY <1>7 DEF WFrame
<1>8. CASE WRequest
  BY <1>8 DEF WRequest
<1>9. CASE WPolicy
  BY <1>9 DEF WPolicy
<1>10. CASE WClaim
  BY <1>10 DEF WClaim, Claimable
<1>11. CASE WFinish
  BY <1>11 DEF WFinish
<1>12. CASE Attach
  BY <1>12 DEF Attach
<1>13. CASE ResolveClaim
  BY <1>13 DEF ResolveClaim, Claimable, Hangup
<1>14. CASE ResolveSend
  BY <1>14 DEF ResolveSend, Forward
<1>15. CASE ResolveNote
  BY <1>15 DEF ResolveNote, Hangup
<1>16. CASE PolicyWrite
  BY <1>16 DEF PolicyWrite, Hangup
<1>17. ASSUME NEW f \in Frames, NEW choice \in Choices \union {"always"}, ResolveRead(f, choice)
      PROVE  ClaimInv'
  BY <1>17 DEF ResolveRead, PendingApproval
<1>18. ASSUME NEW p \in Policies, PolicyCheck(p)
      PROVE  ClaimInv'
  BY <1>18 DEF PolicyCheck
<1>19. CASE WReconnect
  BY <1>19 DEF WReconnect
<1>20. CASE PassSettles
  BY <1>20 DEF PassSettles
<1>21. CASE UNCHANGED approvalVars
  BY <1>21 DEF approvalVars
<1> QED
  BY <1>1, <1>2, <1>3, <1>4, <1>5, <1>6, <1>7, <1>8, <1>9, <1>10, <1>11, <1>12, <1>13,
     <1>14, <1>15, <1>16, <1>17, <1>18, <1>19, <1>20, <1>21
  DEF ApprovalsNext, WorkerStep, StreamStep, PassStep, AutoStep, CallStep

\* Only an answer Hermes took is journalled as applied.
LEMMA ResultStep ==
  ApprovalsTypeOK /\ SubjectInv /\ ResultInv /\ [ApprovalsNext]_approvalVars => ResultInv'
<1> USE NumRequestsAssumption, NoFrameAssumption
<1> SUFFICES ASSUME ApprovalsTypeOK, SubjectInv, ResultInv, [ApprovalsNext]_approvalVars
             PROVE  ResultInv'
  OBVIOUS
<1> USE DEF ApprovalsTypeOK, SubjectInv, Requests, NoRequest,
            hermesVars, registryVars,
            callVars, historyVars, workerVars, ResultInv
<1>1. ASSUME NEW f \in Frames, HAsk(f)
      PROVE  ResultInv'
  BY <1>1 DEF HAsk
<1>2. ASSUME NEW f \in Frames, AutoSend(f)
      PROVE  ResultInv'
  <2>1. /\ via' = via \/ (waiting # NoRequest /\ via' = [via EXCEPT ![waiting] = f])
        /\ waiting' = waiting \/ waiting' = NoRequest
        /\ asked' = asked
    BY <1>2 DEF AutoSend, Forward
  <2>2. ASSUME NEW g \in Frames, \E k \in Requests : via[k] = g
        PROVE  \E k \in Requests : via'[k] = g
    BY <2>1, <2>2
  <2>3. autos'[f] = "resolved" => \E k \in Requests : via'[k] = f
    BY <1>2 DEF AutoSend, Forward
  <2>4. waiting' # NoRequest => via'[waiting'] = NoFrame
    BY <1>2 DEF AutoSend, Forward
  <2>5. \A k \in Requests : k > asked' => via'[k] = NoFrame
    BY <2>1
  <2>6. resolution' = resolution /\ call' = call /\ callFrame' = callFrame
    BY <1>2 DEF AutoSend
  <2>7. ASSUME NEW g \in Frames, resolution'[g] = "resolved" \/ autos'[g] = "resolved"
        PROVE  \E k \in Requests : via'[k] = g
    <3>1. CASE g = f /\ autos'[f] = "resolved"
      BY <2>3, <3>1
    <3>2. CASE resolution[g] = "resolved" \/ autos[g] = "resolved"
      BY <2>2, <3>2
    <3>3. g # f => autos'[g] = autos[g]
      BY <1>2 DEF AutoSend
    <3> QED
      BY <2>6, <2>7, <3>1, <3>2, <3>3
  <2>8. call' = "resolved" => \E k \in Requests : via'[k] = callFrame'
    BY <2>2, <2>6
  <2> QED
    BY <2>4, <2>5, <2>7, <2>8
<1>3. ASSUME NEW f \in Frames, AutoNote(f)
      PROVE  ResultInv'
  BY <1>3 DEF AutoNote
<1>4. CASE HTimeout
  BY <1>4 DEF HTimeout
<1>5. CASE HDone
  BY <1>5 DEF HDone
<1>6. CASE Crash
  BY <1>6 DEF Crash, Hangup
<1>7. ASSUME NEW k \in Requests, WFrame(k)
      PROVE  ResultInv'
  BY <1>7 DEF WFrame
<1>8. CASE WRequest
  BY <1>8 DEF WRequest
<1>9. CASE WPolicy
  BY <1>9 DEF WPolicy
<1>10. CASE WClaim
  BY <1>10 DEF WClaim, Claimable
<1>11. CASE WFinish
  BY <1>11 DEF WFinish
<1>12. CASE Attach
  BY <1>12 DEF Attach
<1>13. CASE ResolveClaim
  BY <1>13 DEF ResolveClaim, Claimable, Hangup
<1>14. CASE ResolveSend
  <2>1. /\ via' = via \/ (waiting # NoRequest /\ via' = [via EXCEPT ![waiting] = callFrame])
        /\ waiting' = waiting \/ waiting' = NoRequest
        /\ asked' = asked
    BY <1>14 DEF ResolveSend, Forward
  <2>2. ASSUME NEW g \in Frames, \E k \in Requests : via[k] = g
        PROVE  \E k \in Requests : via'[k] = g
    BY <2>1, <2>2
  <2>3. call' = "resolved" => \E k \in Requests : via'[k] = callFrame
    BY <1>14 DEF ResolveSend, Forward
  <2>4. waiting' # NoRequest => via'[waiting'] = NoFrame
    BY <1>14 DEF ResolveSend, Forward
  <2>5. \A k \in Requests : k > asked' => via'[k] = NoFrame
    BY <2>1
  <2> QED
    BY <1>14, <2>2, <2>3, <2>4, <2>5 DEF ResolveSend, Forward
<1>15. CASE ResolveNote
  BY <1>15 DEF ResolveNote, Hangup
<1>16. CASE PolicyWrite
  BY <1>16 DEF PolicyWrite, Hangup
<1>17. ASSUME NEW f \in Frames, NEW choice \in Choices \union {"always"}, ResolveRead(f, choice)
      PROVE  ResultInv'
  BY <1>17 DEF ResolveRead, PendingApproval
<1>18. ASSUME NEW p \in Policies, PolicyCheck(p)
      PROVE  ResultInv'
  BY <1>18 DEF PolicyCheck
<1>19. CASE WReconnect
  BY <1>19 DEF WReconnect
<1>20. CASE PassSettles
  BY <1>20 DEF PassSettles
<1>21. CASE UNCHANGED approvalVars
  BY <1>21 DEF approvalVars
<1> QED
  BY <1>1, <1>2, <1>3, <1>4, <1>5, <1>6, <1>7, <1>8, <1>9, <1>10, <1>11, <1>12, <1>13,
     <1>14, <1>15, <1>16, <1>17, <1>18, <1>19, <1>20, <1>21
  DEF ApprovalsNext, WorkerStep, StreamStep, PassStep, AutoStep, CallStep

\* A forward answers with the decision of its row, and the request it answers is
\* the row's own unless an earlier one timed out.
LEMMA ForwardTarget ==
  ASSUME ApprovalsTypeOK, SubjectInv, ResultInv, TargetInv,
         NEW f \in Frames, NEW c \in Choices, NEW r, Forward(f, c, r),
           decision[f] = c,
         UNCHANGED decision,
         TimedOut \/ waiting = NoRequest \/ frame[waiting] = f
  PROVE  /\ \A k \in Requests : via'[k] # NoFrame =>
              /\ outcome'[k] \in Choices /\ outcome'[k] = decision'[via'[k]]
              /\ via'[k] = frame'[k] \/ \E j \in Requests : j < k /\ outcome'[j] = "timeout"
         /\ waiting' # NoRequest => waiting' = asked' /\ outcome'[waiting'] = "none"
         /\ \A k \in Requests : k > asked' => outcome'[k] = "none"
         /\ TimedOut => TimedOut'
<1> USE NumRequestsAssumption, NoFrameAssumption
<1> USE DEF ApprovalsTypeOK, Requests, NoRequest
<1>1. CASE UNCHANGED <<outcome, via, waiting>>
  BY <1>1 DEF Forward, TargetInv, TimedOut
<1>2. CASE /\ waiting # NoRequest
           /\ outcome' = [outcome EXCEPT ![waiting] = c]
           /\ via' = [via EXCEPT ![waiting] = f]
           /\ waiting' = NoRequest
  <2>1. waiting \in Requests /\ waiting = asked /\ outcome[waiting] = "none"
    BY <1>2 DEF TargetInv
  <2>2. \A j \in Requests : outcome[j] = "timeout" => outcome'[j] = "timeout" /\ j < waiting
    <3> SUFFICES ASSUME NEW j \in Requests, outcome[j] = "timeout"
                 PROVE  outcome'[j] = "timeout" /\ j < waiting
      OBVIOUS
    <3>1. j # waiting /\ ~(j > asked)
      BY <2>1 DEF TargetInv
    <3> QED
      BY <1>2, <2>1, <3>1
  <2>3. asked' = asked /\ frame' = frame
    BY DEF Forward
  <2>4. ASSUME NEW k \in Requests, via'[k] # NoFrame
        PROVE  /\ outcome'[k] \in Choices /\ outcome'[k] = decision'[via'[k]]
               /\ via'[k] = frame'[k] \/ \E j \in Requests : j < k /\ outcome'[j] = "timeout"
    <3>1. CASE k = waiting
      BY <1>2, <2>1, <2>2, <2>3, <3>1 DEF TimedOut
    <3>2. CASE k # waiting
      BY <1>2, <2>2, <2>3, <2>4, <3>2 DEF TargetInv
    <3> QED
      BY <3>1, <3>2
  <2>5. \A k \in Requests : k > asked' => outcome'[k] = "none"
    BY <1>2, <2>1, <2>3 DEF TargetInv
  <2> QED
    BY <1>2, <2>2, <2>4, <2>5 DEF TimedOut
<1> QED
  BY <1>1, <1>2 DEF Forward

\* A claim stays about the request Hermes waits on until a request times out.
LEMMA TargetStep ==
  ApprovalsTypeOK /\ SubjectInv /\ ClaimInv /\ ResultInv /\ TargetInv /\ [ApprovalsNext]_approvalVars => TargetInv'
<1> USE NumRequestsAssumption, NoFrameAssumption
<1> SUFFICES ASSUME ApprovalsTypeOK, SubjectInv, ClaimInv, ResultInv, TargetInv, [ApprovalsNext]_approvalVars
             PROVE  TargetInv'
  OBVIOUS
<1> USE DEF ApprovalsTypeOK, SubjectInv, Requests, NoRequest,
            hermesVars, registryVars,
            callVars, historyVars, workerVars, ClaimInv, ResultInv, TargetInv,
              TimedOut, WaitedFor,
            Choices
<1>1. ASSUME NEW f \in Frames, HAsk(f)
      PROVE  TargetInv'
  BY <1>1 DEF HAsk
<1>2. ASSUME NEW f \in Frames, AutoSend(f)
      PROVE  TargetInv'
  <2>1. autos[f] = "claimed" /\ decision[f] = "once" /\ UNCHANGED <<decision, asked, frame, wpc, wframe, call, callFrame, hdone>>
    BY <1>2 DEF AutoSend, Forward
  <2>2. PICK r \in {"resolved", "failed"} : Forward(f, "once", r) /\ autos' = [autos EXCEPT ![f] = r]
    BY <1>2 DEF AutoSend
  <2>3. TimedOut \/ waiting = NoRequest \/ frame[waiting] = f
    BY <2>1 DEF WaitedFor
  <2>4. /\ \A k \in Requests : via'[k] # NoFrame =>
             /\ outcome'[k] \in Choices /\ outcome'[k] = decision'[via'[k]]
             /\ via'[k] = frame'[k] \/ \E j \in Requests : j < k /\ outcome'[j] = "timeout"
        /\ waiting' # NoRequest => waiting' = asked' /\ outcome'[waiting'] = "none"
        /\ \A k \in Requests : k > asked' => outcome'[k] = "none"
        /\ TimedOut => TimedOut'
    BY <2>1, <2>2, <2>3, ForwardTarget, "once" \in Choices
  <2>5. \A g \in Frames : autos'[g] = "claimed" => g # f /\ autos[g] = "claimed" /\ decision'[g] = "once"
    BY <2>1, <2>2
  <2>6. ASSUME ~TimedOut, ~hdone
        PROVE  WaitedFor'
    BY <2>1, <2>3, <2>5, <2>6 DEF WaitedFor
  <2>7. hdone' => waiting' = NoRequest
    BY <2>1, <2>2 DEF Forward
  <2> QED
    BY <2>1, <2>4, <2>5, <2>6, <2>7
<1>3. ASSUME NEW f \in Frames, AutoNote(f)
      PROVE  TargetInv'
  BY <1>3 DEF AutoNote
<1>4. CASE HTimeout
  <2>1. waiting \in Requests /\ waiting = asked /\ outcome[waiting] = "none" /\ via[waiting] = NoFrame
    BY <1>4 DEF HTimeout
  <2>2. outcome' = [outcome EXCEPT ![waiting] = "timeout"] /\ waiting' = NoRequest
        /\ UNCHANGED <<asked, frame, via, decision, autos>>
    BY <1>4 DEF HTimeout
  <2>3. TimedOut'
    BY <2>1, <2>2
  <2>4. ASSUME NEW k \in Requests, via'[k] # NoFrame
        PROVE  /\ outcome'[k] \in Choices /\ outcome'[k] = decision'[via'[k]]
               /\ via'[k] = frame'[k] \/ \E j \in Requests : j < k /\ outcome'[j] = "timeout"
    <3> HIDE DEF WaitedFor, TimedOut
    <3>1. k # waiting /\ via[k] # NoFrame
      BY <2>1, <2>2, <2>4
    <3>2. \A j \in Requests : outcome[j] = "timeout" => outcome'[j] = "timeout"
      BY <2>1, <2>2
    <3> QED
      BY <2>2, <3>1, <3>2
  <2> QED
    BY <1>4, <2>1, <2>2, <2>3, <2>4 DEF HTimeout
<1>5. CASE HDone
  BY <1>5 DEF HDone
<1>6. CASE Crash
  BY <1>6 DEF Crash, Hangup
<1>7. ASSUME NEW k \in Requests, WFrame(k)
      PROVE  TargetInv'
  BY <1>7 DEF WFrame
<1>8. CASE WRequest
  BY <1>8 DEF WRequest
<1>9. CASE WPolicy
  BY <1>9 DEF WPolicy
<1>10. CASE WClaim
  <2>1. wframe \in Frames /\ UNCHANGED <<via, outcome, waiting, asked, frame, call, callFrame, hdone>>
        /\ wpc' = "stream"
    BY <1>10 DEF WClaim
  <2>2. \/ /\ decision[wframe] = "open"
           /\ decision' = [decision EXCEPT ![wframe] = "once"]
           /\ autos' = [autos EXCEPT ![wframe] = "claimed"]
        \/ UNCHANGED <<decision, autos>>
    BY <1>10 DEF WClaim, Claimable
  <2>3. \A f \in Frames : decision[f] \in Choices => decision'[f] = decision[f]
    BY <2>1, <2>2
  <2>4. \A f \in Frames : autos'[f] = "claimed" => decision'[f] = "once"
    BY <2>1, <2>2
  <2>5. ASSUME NEW k \in Requests, via'[k] # NoFrame
        PROVE  /\ outcome'[k] \in Choices /\ outcome'[k] = decision'[via'[k]]
               /\ via'[k] = frame'[k] \/ \E j \in Requests : j < k /\ outcome'[j] = "timeout"
    <3> HIDE DEF WaitedFor, TimedOut
    <3>1. via[k] \in Frames /\ outcome[k] \in Choices /\ outcome[k] = decision[via[k]]
      BY <2>1, <2>5
    <3>2. via[k] = frame[k] \/ \E j \in Requests : j < k /\ outcome[j] = "timeout"
      BY <2>1, <2>5
    <3> QED
      BY <2>1, <2>3, <3>1, <3>2
  <2>6. ASSUME WaitedFor
        PROVE  WaitedFor'
    <3>1. \A k \in Requests : k <= asked /\ decision'[frame[k]] \in {"none", "open"} => waiting = k
      BY <2>1, <2>2, <2>6
    <3>2. \A f \in Frames : decision'[f] # "none" => \E k \in Requests : k <= asked /\ frame[k] = f
      BY <2>1, <2>2, <2>6
    <3>3. \A f \in Frames : autos'[f] = "claimed" => waiting # NoRequest /\ frame[waiting] = f
      <4>1. CASE UNCHANGED <<decision, autos>>
        BY <2>6, <4>1
      <4>2. CASE decision[wframe] = "open" /\ autos' = [autos EXCEPT ![wframe] = "claimed"]
        <5>1. PICK k \in Requests : k <= asked /\ frame[k] = wframe
          BY <1>10, <2>6 DEF WClaim
        <5>2. waiting = k
          BY <2>6, <4>2, <5>1
        <5> QED
          BY <2>1, <2>6, <4>2, <5>1, <5>2
      <4> QED
        BY <2>2, <4>1, <4>2
    <3> QED
      BY <2>1, <2>6, <3>1, <3>2, <3>3
  <2> QED
    BY <2>1, <2>4, <2>5, <2>6
<1>11. CASE WFinish
  BY <1>11 DEF WFinish
<1>12. CASE Attach
  BY <1>12 DEF Attach
<1>13. CASE ResolveClaim
  BY <1>13 DEF ResolveClaim, Claimable, Hangup
<1>14. CASE ResolveSend
  <2>1. /\ callFrame \in Frames /\ callArg \in Choices /\ decision[callFrame] = callArg
        /\ UNCHANGED <<decision, asked, frame, wpc, wframe, autos, callFrame, hdone>>
    BY <1>14 DEF ResolveSend, Forward
  <2>2. PICK r \in {"resolved", "failed"} : Forward(callFrame, callArg, r) /\ call' = r
    BY <1>14 DEF ResolveSend
  <2>3. TimedOut \/ waiting = NoRequest \/ frame[waiting] = callFrame
    BY <1>14 DEF ResolveSend, WaitedFor
  <2>4. /\ \A k \in Requests : via'[k] # NoFrame =>
             /\ outcome'[k] \in Choices /\ outcome'[k] = decision'[via'[k]]
             /\ via'[k] = frame'[k] \/ \E j \in Requests : j < k /\ outcome'[j] = "timeout"
        /\ waiting' # NoRequest => waiting' = asked' /\ outcome'[waiting'] = "none"
        /\ \A k \in Requests : k > asked' => outcome'[k] = "none"
        /\ TimedOut => TimedOut'
    <3> HIDE DEF WaitedFor, TimedOut, TargetInv, SubjectInv, ResultInv, ClaimInv
    <3> QED
      BY <2>1, <2>2, <2>3, ForwardTarget
  <2>5. ASSUME ~TimedOut, ~hdone
        PROVE  WaitedFor'
    BY <1>14, <2>1, <2>2, <2>3, <2>5 DEF ResolveSend, WaitedFor
  <2>6. hdone' => waiting' = NoRequest
    BY <2>1, <2>2 DEF Forward
  <2> QED
    BY <2>1, <2>4, <2>5, <2>6
<1>15. CASE ResolveNote
  BY <1>15 DEF ResolveNote, Hangup
<1>16. CASE PolicyWrite
  BY <1>16 DEF PolicyWrite, Hangup
<1>17. ASSUME NEW f \in Frames, NEW choice \in Choices \union {"always"}, ResolveRead(f, choice)
      PROVE  TargetInv'
  BY <1>17 DEF ResolveRead, PendingApproval
<1>18. ASSUME NEW p \in Policies, PolicyCheck(p)
      PROVE  TargetInv'
  BY <1>18 DEF PolicyCheck
<1>19. CASE WReconnect
  BY <1>19 DEF WReconnect
<1>20. CASE PassSettles
  BY <1>20 DEF PassSettles
<1>21. CASE UNCHANGED approvalVars
  BY <1>21 DEF approvalVars
<1> QED
  BY <1>1, <1>2, <1>3, <1>4, <1>5, <1>6, <1>7, <1>8, <1>9, <1>10, <1>11, <1>12, <1>13,
     <1>14, <1>15, <1>16, <1>17, <1>18, <1>19, <1>20, <1>21
  DEF ApprovalsNext, WorkerStep, StreamStep, PassStep, AutoStep, CallStep

\* The initial states satisfy every part of the invariant.
LEMMA InitApprovals ==
  ApprovalsInit => ApprovalsInv
<1> USE NumRequestsAssumption, NoFrameAssumption
<1> SUFFICES ASSUME ApprovalsInit PROVE ApprovalsInv
  OBVIOUS
<1> USE DEF ApprovalsInit, Requests, NoRequest
<1>1. ApprovalsTypeOK
  <2>1. asked \in 0..NumRequests /\ waiting \in Requests \union {NoRequest}
    OBVIOUS
  <2> QED
    BY <2>1 DEF ApprovalsTypeOK, Choices, Policies
<1>2. SubjectInv /\ ClaimInv
  BY DEF SubjectInv, ClaimInv
<1>3. ResultInv
  BY DEF ResultInv
<1>4. TargetInv
  BY DEF TargetInv, WaitedFor
<1> QED
  BY <1>1, <1>2, <1>3, <1>4 DEF ApprovalsInv

\* ApprovalsInv is an invariant, whatever the environment does.
THEOREM ApprovalsInvariance == ApprovalsSpec => []ApprovalsInv
<1>1. ApprovalsInit => ApprovalsInv
  BY InitApprovals
<1>2. ApprovalsInv /\ [ApprovalsNext]_approvalVars => ApprovalsInv'
  BY ApprovalsTypeStep, SubjectStep, ClaimStep, ResultStep, TargetStep DEF ApprovalsInv
<1> QED
  BY <1>1, <1>2, PTL DEF ApprovalsSpec

\* The variables keep their types; no choice but once, session and deny is stored.
THEOREM ApprovalsTypeCorrect == ApprovalsSpec => []ApprovalsTypeOK
<1>1. ApprovalsInv => ApprovalsTypeOK
  BY DEF ApprovalsInv
<1> QED
  BY <1>1, ApprovalsInvariance, PTL

\* The decision on a request is forwarded at most once.
THEOREM AtMostOnce == ApprovalsSpec => []ForwardedAtMostOnce
<1>1. ApprovalsInv => ForwardedAtMostOnce
  BY DEF ApprovalsInv, ClaimInv, ForwardedAtMostOnce
<1> QED
  BY <1>1, ApprovalsInvariance, PTL

\* A decision journalled as applied was taken by Hermes.
THEOREM JournalledAsApplied == ApprovalsSpec => []RecordedAsHermesDid
<1>1. ApprovalsInv => RecordedAsHermesDid
  BY DEF ApprovalsInv, ResultInv, RecordedAsHermesDid
<1> QED
  BY <1>1, ApprovalsInvariance, PTL

\* Through crashes, failed forwards and repeated frames, a decision answers the
\* request it was made on, or one asked after a request that timed out.
THEOREM DecisionsReachTheirRequest == ApprovalsSpec => []StrayOnlyAfterTimeout
<1>1. ApprovalsInv => StrayOnlyAfterTimeout
  BY DEF ApprovalsInv, TargetInv, StrayOnlyAfterTimeout
<1> QED
  BY <1>1, ApprovalsInvariance, PTL
=============================================================================
