------------------------- MODULE NodeIdentityProofs -------------------------
(***************************************************************************)
(* TLAPS proofs about NodeIdentity, for any number of keys, tokens,        *)
(* crashes, boots and revocations, and any set of hazards.                 *)
(*                                                                         *)
(* The argument, in the order of the life of an identity.  A key is drawn  *)
(* by `create` only while there is none, and a file that was written once  *)
(* is never absent again, torn as it may be (MintInv).  Whatever a command *)
(* holds as the answer to its request, the Control Plane recorded, with    *)
(* the key of the command, and a rotation that goes on has that answer in  *)
(* the metadata it is about to replace the key beside (AnswerInv).  A      *)
(* handshake that was verified is still good, or was overtaken (HelloInv). *)
(* That the ids of the Nodes stay in their range is a matter of counting:  *)
(* every Node but the first used a token up (CountInv).                    *)
(***************************************************************************)
EXTENDS NodeIdentity, FiniteSetTheorems, SequenceTheorems, TLAPS

UsedTokens == {t \in DOMAIN tokens : tokens[t].used}

\* Every Node but the first used a token up.
CountInv ==
  /\ Len(tokens) <= MaxTokens
  /\ Len(nodes) <= 1 + Cardinality(UsedTokens)

\* Tokens, requests and rotations are about Nodes there are.
TokenInv ==
  /\ \A t \in DOMAIN tokens : tokens[t].bound \in DOMAIN nodes \union {None}
  /\ request.st = "sent" => request.token \in DOMAIN tokens /\ request.k \in Keys
  /\ request.st = "rotated" => request.answer \in DOMAIN nodes

\* An identity is created where there is none, and there is one for good.
MintInv ==
  /\ cli.pc = "create" => key = None
  /\ key = None => minted = 0

\* What a command was answered, the Control Plane recorded with its key.
AnswerInv ==
  /\ cli.pc \in {"created", "loaded", "rotatable", "proposed", "posted", "answered", "compare", "commit", "committed"}
       => cli.k \in Keys
  /\ cli.pc = "posted" => request.st # "none" /\ request.k = cli.k
  /\ request.st = "answered" => cli.pc = "posted"
  /\ request.st \in {"rotated", "answered"} /\ request.answer # None
       => <<request.answer, request.k>> \in accepted
  /\ cli.pc \in {"answered", "compare", "commit"} => <<cli.answer, cli.k>> \in accepted
  /\ cli.pc \in {"compare", "commit"} => meta.node = cli.answer

\* A handshake that was verified is good still, or was overtaken, and only a
\* Node has sessions.
HelloInv ==
  /\ \A n \in NodeIds \ DOMAIN nodes : sess[n] = NoSession
  /\ hello.st = "verified" =>
       hello.node \in DOMAIN nodes /\ (hello.raced \/ verified(hello.node, hello.k))

IInv ==
  /\ TypeOK /\ CountInv /\ TokenInv /\ MintInv /\ AnswerInv /\ HelloInv
  /\ NeverMintsOver /\ OneNodePerKey /\ SupersededSessionRaced

\* The bounds are numbers.
LEMMA BoundFacts ==
  /\ MaxKeys \in Nat /\ MaxTokens \in Nat /\ MaxCrashes \in Nat
  /\ MaxLost \in Nat /\ MaxBoots \in Nat /\ MaxRevokes \in Nat
BY BoundsAssumption

\* No key is absent, torn or the other Node's, and no Node is nobody.
LEMMA ValueFacts ==
  /\ None \notin Keys /\ Torn \notin Keys /\ OtherKey \notin Keys /\ Torn # None
  /\ None \notin NodeIds /\ 1 \in NodeIds
BY BoundFacts DEF Keys, None, Torn, OtherKey, NodeIds

Commandline ==
  [op : {"none", "identity", "enroll", "rotate"},
   pc : {"idle", "create", "created", "loaded", "rotatable", "proposed", "posted", "answered",
         "compare", "commit", "committed", "save"},
   k : Keys \union {None}, node : NodeIds \union {None}, answer : NodeIds \union {None}]

Running ==
  [st : {"down", "starting", "listening", "running"}, url : {"unset", "set", "refused"},
   k : Keys \union {None}, node : NodeIds \union {None},
   ch : {"none", "disabled", "failed", "unenrolled", "backing_off", "connecting",
         "authenticating", "signed", "stuck", "connected"}]

Greeting ==
  [st : {"none", "challenged", "verified"}, k : Keys \union {None},
   node : NodeIds \union {None}, raced : BOOLEAN]

Asked ==
  [st : {"none", "sent", "rotated", "answered"}, k : Keys \union {None},
   token : 0 .. MaxTokens, answer : NodeIds \union {None}]

DiskOK ==
  /\ key \in Keys \union {None, Torn}
  /\ meta \in [fp : Keys \union {None, Torn}, node : NodeIds \union {None}]
  /\ cfg \in {"unset", "set", "refused", "torn"}
  /\ socket \in BOOLEAN
  /\ drawn \in 0 .. MaxKeys
  /\ countVars \in Nat \X Nat \X Nat \X Nat
  /\ minted \in Nat

RowsOK ==
  /\ nodes \in Seq([fp : Keys \union {OtherKey}, revoked : BOOLEAN])
  /\ tokens \in Seq([bound : NodeIds \union {None}, used : BOOLEAN])
  /\ sess \in [NodeIds -> [k : Keys \union {None}, raced : BOOLEAN]]
  /\ revoking \in NodeIds \union {None}
  /\ accepted \subseteq NodeIds \X (Keys \union {OtherKey})

\* TypeOK in its parts.
LEMMA TypeParts ==
  TypeOK <=> /\ cli \in Commandline /\ daemon \in Running /\ hello \in Greeting /\ request \in Asked
             /\ DiskOK /\ RowsOK
BY DEF TypeOK, Commandline, Running, Greeting, Asked, DiskOK, RowsOK

\* What is not there has its type too.
LEMMA AbsentFacts ==
  /\ Idle \in Commandline /\ Idle.pc = "idle"
  /\ Down \in Running /\ NoHello \in Greeting /\ NoHello.st = "none"
  /\ NoRequest \in Asked /\ NoRequest.st = "none"
  /\ NoSession \in [k : Keys \union {None}, raced : BOOLEAN]
<1>1. Idle \in Commandline /\ Idle.pc = "idle"
  BY DEF Idle, Commandline
<1>2. Down \in Running
  BY DEF Down, Running
<1>3. NoHello \in Greeting /\ NoHello.st = "none"
  BY DEF NoHello, Greeting
<1>4. NoRequest \in Asked /\ NoRequest.st = "none"
  BY BoundFacts DEF NoRequest, Asked, None
<1>5. NoSession \in [k : Keys \union {None}, raced : BOOLEAN]
  BY DEF NoSession
<1> QED
  BY <1>1, <1>2, <1>3, <1>4, <1>5

-----------------------------------------------------------------------------
(* What the Control Plane does to its rows.                                *)

NodeRow == [fp : Keys \union {OtherKey}, revoked : BOOLEAN]
TokenRow == [bound : NodeIds \union {None}, used : BOOLEAN]

\* A row that is added comes last.
LEMMA AppendRow ==
  ASSUME NEW S, NEW s \in Seq(S), NEW e \in S
  PROVE  /\ Append(s, e) \in Seq(S)
         /\ Len(Append(s, e)) = Len(s) + 1
         /\ DOMAIN Append(s, e) = DOMAIN s \union {Len(s) + 1}
         /\ \A j \in DOMAIN s : Append(s, e)[j] = s[j]
         /\ Append(s, e)[Len(s) + 1] = e
OBVIOUS

\* A row that is updated stays where it is.
LEMMA UpdateRow ==
  ASSUME NEW S, NEW s \in Seq(S), NEW i \in DOMAIN s, NEW e \in S
  PROVE  /\ [s EXCEPT ![i] = e] \in Seq(S)
         /\ Len([s EXCEPT ![i] = e]) = Len(s)
         /\ DOMAIN [s EXCEPT ![i] = e] = DOMAIN s
         /\ \A j \in DOMAIN s : [s EXCEPT ![i] = e][j] = IF j = i THEN e ELSE s[j]
BY ExceptSeq

\* There are n rows up to the n-th.
LEMMA CountUpTo ==
  ASSUME NEW n \in Nat
  PROVE  IsFiniteSet(1 .. n) /\ Cardinality(1 .. n) = n
<1>1. 1 \in Int /\ n \in Int
  OBVIOUS
<1>2. /\ IsFiniteSet(1 .. n)
      /\ Cardinality(1 .. n) = IF 1 > n THEN 0 ELSE n - 1 + 1
  BY <1>1, FS_Interval, Zenon
<1> QED
  BY <1>2

\* The tokens that were used are counted, and there are no more than tokens.
LEMMA UsedFacts ==
  ASSUME RowsOK
  PROVE  /\ IsFiniteSet(UsedTokens)
         /\ Cardinality(UsedTokens) \in Nat
         /\ Cardinality(UsedTokens) <= Len(tokens)
         /\ Len(tokens) \in Nat /\ DOMAIN tokens = 1 .. Len(tokens)
         /\ Len(nodes) \in Nat /\ DOMAIN nodes = 1 .. Len(nodes)
<1>1. /\ Len(tokens) \in Nat /\ DOMAIN tokens = 1 .. Len(tokens)
      /\ Len(nodes) \in Nat /\ DOMAIN nodes = 1 .. Len(nodes)
  BY DEF RowsOK
<1>2. IsFiniteSet(1 .. Len(tokens)) /\ Cardinality(1 .. Len(tokens)) = Len(tokens)
  BY <1>1, CountUpTo
<1>3. UsedTokens \in SUBSET (1 .. Len(tokens))
  BY <1>1 DEF UsedTokens
<1>4. IsFiniteSet(UsedTokens) /\ Cardinality(UsedTokens) <= Cardinality(1 .. Len(tokens))
  BY <1>2, <1>3, FS_Subset
<1> QED
  BY <1>1, <1>2, <1>4, FS_CardinalityType

\* The ids of the Nodes are in their range.
LEMMA NodeRange ==
  ASSUME RowsOK, CountInv
  PROVE  DOMAIN nodes \subseteq NodeIds
BY UsedFacts, BoundFacts DEF CountInv, NodeIds

\* A token that is used up is one more.
LEMMA UseToken ==
  ASSUME RowsOK, NEW t \in DOMAIN tokens, ~tokens[t].used,
         tokens' = [tokens EXCEPT ![t].used = TRUE]
  PROVE  /\ tokens' \in Seq(TokenRow)
         /\ Len(tokens') = Len(tokens) /\ DOMAIN tokens' = DOMAIN tokens
         /\ \A j \in DOMAIN tokens : tokens'[j].bound = tokens[j].bound
         /\ Cardinality(UsedTokens') = Cardinality(UsedTokens) + 1
         /\ Cardinality(UsedTokens) + 1 <= Len(tokens)
<1> DEFINE row == [tokens[t] EXCEPT !.used = TRUE]
<1>1. tokens \in Seq(TokenRow) /\ tokens[t] \in TokenRow
  <2>1. tokens \in Seq(TokenRow)
    BY DEF RowsOK, TokenRow
  <2> QED
    BY <2>1
<1>2. row \in TokenRow /\ row.bound = tokens[t].bound /\ row.used = TRUE
  BY <1>1 DEF TokenRow
<1>3. tokens' = [tokens EXCEPT ![t] = row]
  OBVIOUS
<1> HIDE DEF row
<1>4. /\ tokens' \in Seq(TokenRow)
      /\ Len(tokens') = Len(tokens) /\ DOMAIN tokens' = DOMAIN tokens
      /\ \A j \in DOMAIN tokens : tokens'[j] = IF j = t THEN row ELSE tokens[j]
  BY ONLY t \in DOMAIN tokens, <1>1, <1>2, <1>3, UpdateRow
<1>5. UsedTokens' = UsedTokens \union {t} /\ t \notin UsedTokens
  BY <1>2, <1>4 DEF UsedTokens
<1>6. Cardinality(UsedTokens') = Cardinality(UsedTokens) + 1 /\ IsFiniteSet(UsedTokens')
  BY <1>5, UsedFacts, FS_AddElement
<1>7. UsedTokens' \in SUBSET (1 .. Len(tokens))
  BY <1>5, UsedFacts DEF UsedTokens
<1>8. Cardinality(UsedTokens') <= Len(tokens)
  <2>1. IsFiniteSet(1 .. Len(tokens)) /\ Cardinality(1 .. Len(tokens)) = Len(tokens)
    BY UsedFacts, CountUpTo
  <2> QED
    BY <2>1, <1>7, FS_Subset
<1> QED
  BY <1>2, <1>4, <1>6, <1>8

\* An enrollment: one Node more, under a new id, for one token.
LEMMA EnrollEffect ==
  ASSUME RowsOK, CountInv, TokenInv, CpEnroll
  PROVE  LET id == Len(nodes) + 1 IN
         /\ id \in NodeIds /\ id \notin DOMAIN nodes
         /\ nodes' \in Seq(NodeRow) /\ Len(nodes') = id
         /\ DOMAIN nodes' = DOMAIN nodes \union {id}
         /\ \A j \in DOMAIN nodes : nodes'[j] = nodes[j]
         /\ nodes'[id].fp = request.k /\ nodes'[id].revoked = FALSE
         /\ request.token \in DOMAIN tokens /\ request.k \in Keys
<1> DEFINE id == Len(nodes) + 1
           row == [fp |-> request.k, revoked |-> FALSE]
<1>1. request.token \in DOMAIN tokens /\ request.k \in Keys /\ ~tokens[request.token].used
  BY DEF CpEnroll, TokenInv
<1>2. tokens' = [tokens EXCEPT ![request.token].used = TRUE]
  BY DEF CpEnroll
<1>3. Cardinality(UsedTokens) + 1 <= Len(tokens)
  BY <1>1, <1>2, UseToken
<1>4. id \in NodeIds /\ id \notin DOMAIN nodes
  BY <1>3, UsedFacts, BoundFacts DEF CountInv, NodeIds
<1>5. row \in NodeRow /\ row.fp = request.k /\ row.revoked = FALSE
  BY <1>1 DEF NodeRow
<1>6. nodes \in Seq(NodeRow) /\ nodes' = Append(nodes, row)
  BY DEF RowsOK, NodeRow, CpEnroll
<1> HIDE DEF row
<1>7. /\ nodes' \in Seq(NodeRow) /\ Len(nodes') = id
      /\ DOMAIN nodes' = DOMAIN nodes \union {id}
      /\ \A j \in DOMAIN nodes : nodes'[j] = nodes[j]
      /\ nodes'[id] = row
  BY <1>5, <1>6, AppendRow
<1> QED
  BY <1>1, <1>4, <1>5, <1>7

\* A rotation: the bound Node has the new key.
LEMMA RotateEffect ==
  ASSUME RowsOK, CountInv, TokenInv, rotateIdentity
  PROVE  LET n == tokens[request.token].bound IN
         /\ n \in DOMAIN nodes /\ n \in NodeIds
         /\ nodes' \in Seq(NodeRow) /\ Len(nodes') = Len(nodes)
         /\ DOMAIN nodes' = DOMAIN nodes
         /\ \A j \in DOMAIN nodes : j # n => nodes'[j] = nodes[j]
         /\ nodes'[n].fp = request.k /\ nodes'[n].revoked = nodes[n].revoked
         /\ request.token \in DOMAIN tokens /\ request.k \in Keys
<1> DEFINE n == tokens[request.token].bound
           row == [nodes[n] EXCEPT !.fp = request.k]
<1>1. request.token \in DOMAIN tokens /\ request.k \in Keys /\ n \in DOMAIN nodes
  BY DEF rotateIdentity, TokenInv
<1>2. nodes \in Seq(NodeRow) /\ nodes[n] \in NodeRow
  <2>1. nodes \in Seq(NodeRow)
    BY DEF RowsOK, NodeRow
  <2> QED
    BY <1>1, <2>1
<1>3. row \in NodeRow /\ row.fp = request.k /\ row.revoked = nodes[n].revoked
  BY <1>1, <1>2 DEF NodeRow
<1>4. nodes' = [nodes EXCEPT ![n] = row]
  BY DEF rotateIdentity
<1> HIDE DEF row, n
<1>5. /\ nodes' \in Seq(NodeRow) /\ Len(nodes') = Len(nodes)
      /\ DOMAIN nodes' = DOMAIN nodes
      /\ \A j \in DOMAIN nodes : nodes'[j] = IF j = n THEN row ELSE nodes[j]
  BY <1>1, <1>2, <1>3, <1>4, UpdateRow
<1>6. n \in NodeIds
  BY <1>1, NodeRange
<1> QED
  BY <1>1, <1>3, <1>5, <1>6 DEF n

\* A revocation: the key of the Node stays its key.
LEMMA RevokeEffect ==
  ASSUME RowsOK, NEW n \in NodeIds, CpRevoke(n)
  PROVE  /\ n \in DOMAIN nodes
         /\ nodes' \in Seq(NodeRow) /\ Len(nodes') = Len(nodes)
         /\ DOMAIN nodes' = DOMAIN nodes
         /\ \A j \in DOMAIN nodes : j # n => nodes'[j] = nodes[j]
         /\ nodes'[n].fp = nodes[n].fp /\ nodes'[n].revoked = TRUE
<1> DEFINE row == [nodes[n] EXCEPT !.revoked = TRUE]
<1>1. n \in DOMAIN nodes
  BY DEF CpRevoke
<1>2. nodes \in Seq(NodeRow) /\ nodes[n] \in NodeRow
  <2>1. nodes \in Seq(NodeRow)
    BY DEF RowsOK, NodeRow
  <2> QED
    BY <1>1, <2>1
<1>3. row \in NodeRow /\ row.fp = nodes[n].fp /\ row.revoked = TRUE
  BY <1>2 DEF NodeRow
<1>4. nodes' = [nodes EXCEPT ![n] = row]
  BY DEF CpRevoke
<1> HIDE DEF row
<1>5. /\ nodes' \in Seq(NodeRow) /\ Len(nodes') = Len(nodes)
      /\ DOMAIN nodes' = DOMAIN nodes
      /\ \A j \in DOMAIN nodes : nodes'[j] = IF j = n THEN row ELSE nodes[j]
  BY <1>1, <1>2, <1>3, <1>4, UpdateRow
<1> QED
  BY <1>1, <1>3, <1>5

\* A token that is issued is unused, and about a Node there is or a new one.
LEMMA IssueEffect ==
  ASSUME RowsOK, CountInv, NEW n \in NodeIds \union {None}, IssueToken(n)
  PROVE  /\ tokens' \in Seq(TokenRow) /\ Len(tokens') <= MaxTokens
         /\ DOMAIN tokens' = DOMAIN tokens \union {Len(tokens) + 1}
         /\ \A j \in DOMAIN tokens : tokens'[j] = tokens[j]
         /\ tokens'[Len(tokens) + 1].bound = n
         /\ n \in DOMAIN nodes \union {None}
         /\ UsedTokens' = UsedTokens
<1> DEFINE row == [bound |-> n, used |-> FALSE]
<1>1. row \in TokenRow /\ row.bound = n /\ row.used = FALSE
  BY DEF TokenRow
<1>2. tokens \in Seq(TokenRow) /\ tokens' = Append(tokens, row)
  BY DEF RowsOK, TokenRow, IssueToken
<1> HIDE DEF row
<1>3. /\ tokens' \in Seq(TokenRow) /\ Len(tokens') = Len(tokens) + 1
      /\ DOMAIN tokens' = DOMAIN tokens \union {Len(tokens) + 1}
      /\ \A j \in DOMAIN tokens : tokens'[j] = tokens[j]
      /\ tokens'[Len(tokens) + 1] = row
  BY <1>1, <1>2, AppendRow
<1>4. Len(tokens') <= MaxTokens
  BY <1>3, UsedFacts, BoundFacts DEF IssueToken
<1>5. UsedTokens' = UsedTokens
  BY <1>1, <1>3 DEF UsedTokens
<1> QED
  BY <1>1, <1>3, <1>4, <1>5 DEF IssueToken

-----------------------------------------------------------------------------
(* Types.                                                                  *)

\* Every step leaves a command.
LEMMA CommandlineStep ==
  cli \in Commandline /\ request \in Asked /\ DiskOK /\ [Next]_vars => cli' \in Commandline
<1> SUFFICES ASSUME cli \in Commandline, request \in Asked, DiskOK, [Next]_vars
             PROVE  cli' \in Commandline
  OBVIOUS
<1> USE BoundFacts, ValueFacts, AbsentFacts
<1> USE DEF Commandline, diskVars, cpVars, countVars
<1>1. ASSUME NEW op \in {"identity", "enroll"}, load_or_create(op)
      PROVE  cli' \in Commandline
  BY <1>1 DEF load_or_create, load_ok, DiskOK
<1>2. CASE create
  <2>1. drawn + 1 \in Keys
    BY <1>2 DEF create, DiskOK, Keys
  <2> QED
    BY <1>2, <2>1 DEF create
<1>3. CASE create_metadata
  BY <1>3 DEF create_metadata, save_metadata, Exit, Go
<1>4. CASE rotate_load
  BY <1>4 DEF rotate_load, load_ok, DiskOK
<1>5. CASE propose_rotation
  <2>1. CASE Exit
    BY <2>1 DEF Exit
  <2>2. CASE ~Exit
    <3>1. drawn + 1 \in Keys
      BY <1>5, <2>2 DEF propose_rotation, DiskOK, Keys
    <3> QED
      BY <1>5, <2>2, <3>1 DEF propose_rotation
  <2> QED
    BY <2>1, <2>2
<1>6. ASSUME NEW t \in DOMAIN tokens, submit_identity(t)
      PROVE  cli' \in Commandline
  BY <1>6 DEF submit_identity, Go
<1>7. CASE submitted
  <2>1. request.answer \in NodeIds \union {None}
    BY DEF Asked
  <2>2. cli' = Idle \/ cli' = [cli EXCEPT !.pc = "answered", !.answer = request.answer]
    BY <1>7 DEF submitted, Exit
  <2> QED
    BY <2>1, <2>2
<1>8. CASE record_enrollment
  BY <1>8 DEF record_enrollment, save_metadata, Go
<1>9. CASE compare_node_id
  BY <1>9 DEF compare_node_id, Go, Exit
<1>10. CASE commit_rotation
  BY <1>10 DEF commit_rotation, write_key, Go
<1>11. CASE commit_metadata
  BY <1>11 DEF commit_metadata, save_metadata, Go
<1>12. CASE save_config
  BY <1>12 DEF save_config, Exit
<1>13. CASE submit_fails
  BY <1>13 DEF submit_fails, Exit
<1>14. CASE Crash
  BY <1>14 DEF Crash, Exit
<1>15. ASSUME NEW n0 \in NodeIds \union {None}, IssueToken(n0)
      PROVE  cli' \in Commandline
  BY <1>15 DEF IssueToken
<1>16. CASE CpRefuse
  BY <1>16 DEF CpRefuse, reply
<1>17. CASE CpEnroll
  BY <1>17 DEF CpEnroll, reply
<1>18. CASE rotateIdentity
  BY <1>18 DEF rotateIdentity, overtaken
<1>19. CASE CpAnswerRotation
  BY <1>19 DEF CpAnswerRotation, reply, disconnect
<1>20. ASSUME NEW n \in NodeIds, CpRevoke(n)
      PROVE  cli' \in Commandline
  BY <1>20 DEF CpRevoke, overtaken
<1>21. CASE CpCloseRevoked
  BY <1>21 DEF CpCloseRevoked, disconnect
<1>22. CASE EditConfig
  BY <1>22 DEF EditConfig
<1>23. CASE serve
  BY <1>23 DEF serve, prepare_socket_path
<1>24. CASE Listen
  BY <1>24 DEF Listen
<1>25. CASE run_channel
  BY <1>25 DEF run_channel
<1>26. CASE Stop
  BY <1>26 DEF Stop
<1>27. CASE session
  BY <1>27 DEF session, Channel
<1>28. CASE CpChallenge
  BY <1>28 DEF CpChallenge, Channel
<1>29. CASE authenticate
  BY <1>29 DEF authenticate, Channel
<1>30. CASE CpVerify
  BY <1>30 DEF CpVerify, back_off, Channel
<1>31. CASE CpActivate
  BY <1>31 DEF CpActivate, Channel
<1>32. CASE LinkDrops
  BY <1>32 DEF LinkDrops, back_off, Channel
<1>33. CASE expect_message_hangs
  BY <1>33 DEF expect_message_hangs, Channel
<1>34. CASE SessionEnds
  BY <1>34 DEF SessionEnds, back_off, Channel
<1>35. ASSUME NEW n \in NodeIds, CpHeartbeatTimeout(n)
      PROVE  cli' \in Commandline
  BY <1>35 DEF CpHeartbeatTimeout, disconnect
<1>36. CASE UNCHANGED vars
  BY <1>36 DEF vars
<1> QED
  BY <1>1, <1>2, <1>3, <1>4, <1>5, <1>6, <1>7, <1>8, <1>9, <1>10, <1>11, <1>12, <1>13,
     <1>14, <1>15, <1>16, <1>17, <1>18, <1>19, <1>20, <1>21, <1>22, <1>23, <1>24,
     <1>25, <1>26, <1>27, <1>28, <1>29, <1>30, <1>31, <1>32, <1>33, <1>34, <1>35,
     <1>36
  DEF Next, Commands, ControlPlane, Daemon, Handshake

\* Every step leaves a daemon.
LEMMA RunningStep ==
  daemon \in Running /\ DiskOK /\ [Next]_vars => daemon' \in Running
<1> SUFFICES ASSUME daemon \in Running, DiskOK, [Next]_vars
             PROVE  daemon' \in Running
  OBVIOUS
<1> USE BoundFacts, ValueFacts, AbsentFacts
<1> USE DEF Running, diskVars, cpVars, countVars
<1>1. ASSUME NEW op \in {"identity", "enroll"}, load_or_create(op)
      PROVE  daemon' \in Running
  BY <1>1 DEF load_or_create
<1>2. CASE create
  BY <1>2 DEF create, write_key
<1>3. CASE create_metadata
  BY <1>3 DEF create_metadata, save_metadata, Exit, Go
<1>4. CASE rotate_load
  BY <1>4 DEF rotate_load
<1>5. CASE propose_rotation
  BY <1>5 DEF propose_rotation, Exit
<1>6. ASSUME NEW t \in DOMAIN tokens, submit_identity(t)
      PROVE  daemon' \in Running
  BY <1>6 DEF submit_identity, Go
<1>7. CASE submitted
  BY <1>7 DEF submitted, Exit
<1>8. CASE record_enrollment
  BY <1>8 DEF record_enrollment, save_metadata, Go
<1>9. CASE compare_node_id
  BY <1>9 DEF compare_node_id, Go, Exit
<1>10. CASE commit_rotation
  BY <1>10 DEF commit_rotation, write_key, Go
<1>11. CASE commit_metadata
  BY <1>11 DEF commit_metadata, save_metadata, Go
<1>12. CASE save_config
  BY <1>12 DEF save_config, Exit
<1>13. CASE submit_fails
  BY <1>13 DEF submit_fails, Exit
<1>14. CASE Crash
  BY <1>14 DEF Crash, Exit
<1>15. ASSUME NEW n0 \in NodeIds \union {None}, IssueToken(n0)
      PROVE  daemon' \in Running
  BY <1>15 DEF IssueToken
<1>16. CASE CpRefuse
  BY <1>16 DEF CpRefuse, reply
<1>17. CASE CpEnroll
  BY <1>17 DEF CpEnroll, reply
<1>18. CASE rotateIdentity
  BY <1>18 DEF rotateIdentity, overtaken
<1>19. CASE CpAnswerRotation
  BY <1>19 DEF CpAnswerRotation, reply, disconnect
<1>20. ASSUME NEW n \in NodeIds, CpRevoke(n)
      PROVE  daemon' \in Running
  BY <1>20 DEF CpRevoke, overtaken
<1>21. CASE CpCloseRevoked
  BY <1>21 DEF CpCloseRevoked, disconnect
<1>22. CASE EditConfig
  BY <1>22 DEF EditConfig
<1>23. CASE serve
  BY <1>23 DEF serve, prepare_socket_path, DiskOK, config_load_ok
<1>24. CASE Listen
  BY <1>24 DEF Listen
<1>25. CASE run_channel
  BY <1>25 DEF run_channel, DiskOK, load_ok
<1>26. CASE Stop
  BY <1>26 DEF Stop
<1>27. CASE session
  BY <1>27 DEF session, Channel
<1>28. CASE CpChallenge
  BY <1>28 DEF CpChallenge, Channel
<1>29. CASE authenticate
  BY <1>29 DEF authenticate, Channel
<1>30. CASE CpVerify
  BY <1>30 DEF CpVerify, back_off, Channel
<1>31. CASE CpActivate
  BY <1>31 DEF CpActivate, Channel
<1>32. CASE LinkDrops
  BY <1>32 DEF LinkDrops, back_off, Channel
<1>33. CASE expect_message_hangs
  BY <1>33 DEF expect_message_hangs, Channel
<1>34. CASE SessionEnds
  BY <1>34 DEF SessionEnds, back_off, Channel
<1>35. ASSUME NEW n \in NodeIds, CpHeartbeatTimeout(n)
      PROVE  daemon' \in Running
  BY <1>35 DEF CpHeartbeatTimeout, disconnect
<1>36. CASE UNCHANGED vars
  BY <1>36 DEF vars
<1> QED
  BY <1>1, <1>2, <1>3, <1>4, <1>5, <1>6, <1>7, <1>8, <1>9, <1>10, <1>11, <1>12, <1>13,
     <1>14, <1>15, <1>16, <1>17, <1>18, <1>19, <1>20, <1>21, <1>22, <1>23, <1>24,
     <1>25, <1>26, <1>27, <1>28, <1>29, <1>30, <1>31, <1>32, <1>33, <1>34, <1>35,
     <1>36
  DEF Next, Commands, ControlPlane, Daemon, Handshake

\* Every step leaves a handshake.
LEMMA GreetingStep ==
  daemon \in Running /\ hello \in Greeting /\ [Next]_vars => hello' \in Greeting
<1> SUFFICES ASSUME daemon \in Running, hello \in Greeting, [Next]_vars
             PROVE  hello' \in Greeting
  OBVIOUS
<1> USE BoundFacts, ValueFacts, AbsentFacts
<1> USE DEF Greeting, diskVars, cpVars, countVars
<1>1. ASSUME NEW op \in {"identity", "enroll"}, load_or_create(op)
      PROVE  hello' \in Greeting
  BY <1>1 DEF load_or_create
<1>2. CASE create
  BY <1>2 DEF create, write_key
<1>3. CASE create_metadata
  BY <1>3 DEF create_metadata, save_metadata, Exit, Go
<1>4. CASE rotate_load
  BY <1>4 DEF rotate_load
<1>5. CASE propose_rotation
  BY <1>5 DEF propose_rotation, Exit
<1>6. ASSUME NEW t \in DOMAIN tokens, submit_identity(t)
      PROVE  hello' \in Greeting
  BY <1>6 DEF submit_identity, Go
<1>7. CASE submitted
  BY <1>7 DEF submitted, Exit
<1>8. CASE record_enrollment
  BY <1>8 DEF record_enrollment, save_metadata, Go
<1>9. CASE compare_node_id
  BY <1>9 DEF compare_node_id, Go, Exit
<1>10. CASE commit_rotation
  BY <1>10 DEF commit_rotation, write_key, Go
<1>11. CASE commit_metadata
  BY <1>11 DEF commit_metadata, save_metadata, Go
<1>12. CASE save_config
  BY <1>12 DEF save_config, Exit
<1>13. CASE submit_fails
  BY <1>13 DEF submit_fails, Exit
<1>14. CASE Crash
  BY <1>14 DEF Crash, Exit
<1>15. ASSUME NEW n0 \in NodeIds \union {None}, IssueToken(n0)
      PROVE  hello' \in Greeting
  BY <1>15 DEF IssueToken
<1>16. CASE CpRefuse
  BY <1>16 DEF CpRefuse, reply
<1>17. CASE CpEnroll
  BY <1>17 DEF CpEnroll, reply
<1>18. CASE rotateIdentity
  BY <1>18 DEF rotateIdentity, overtaken
<1>19. CASE CpAnswerRotation
  BY <1>19 DEF CpAnswerRotation, reply, disconnect
<1>20. ASSUME NEW n \in NodeIds, CpRevoke(n)
      PROVE  hello' \in Greeting
  BY <1>20 DEF CpRevoke, overtaken
<1>21. CASE CpCloseRevoked
  BY <1>21 DEF CpCloseRevoked, disconnect
<1>22. CASE EditConfig
  BY <1>22 DEF EditConfig
<1>23. CASE serve
  BY <1>23 DEF serve, prepare_socket_path
<1>24. CASE Listen
  BY <1>24 DEF Listen
<1>25. CASE run_channel
  BY <1>25 DEF run_channel
<1>26. CASE Stop
  BY <1>26 DEF Stop
<1>27. CASE session
  BY <1>27 DEF session, Channel
<1>28. CASE CpChallenge
  BY <1>28 DEF CpChallenge, Channel, Running
<1>29. CASE authenticate
  BY <1>29 DEF authenticate, Channel
<1>30. CASE CpVerify
  BY <1>30 DEF CpVerify, back_off, Channel
<1>31. CASE CpActivate
  BY <1>31 DEF CpActivate, Channel
<1>32. CASE LinkDrops
  BY <1>32 DEF LinkDrops, back_off, Channel
<1>33. CASE expect_message_hangs
  BY <1>33 DEF expect_message_hangs, Channel
<1>34. CASE SessionEnds
  BY <1>34 DEF SessionEnds, back_off, Channel
<1>35. ASSUME NEW n \in NodeIds, CpHeartbeatTimeout(n)
      PROVE  hello' \in Greeting
  BY <1>35 DEF CpHeartbeatTimeout, disconnect
<1>36. CASE UNCHANGED vars
  BY <1>36 DEF vars
<1> QED
  BY <1>1, <1>2, <1>3, <1>4, <1>5, <1>6, <1>7, <1>8, <1>9, <1>10, <1>11, <1>12, <1>13,
     <1>14, <1>15, <1>16, <1>17, <1>18, <1>19, <1>20, <1>21, <1>22, <1>23, <1>24,
     <1>25, <1>26, <1>27, <1>28, <1>29, <1>30, <1>31, <1>32, <1>33, <1>34, <1>35,
     <1>36
  DEF Next, Commands, ControlPlane, Daemon, Handshake

\* Every step leaves a request.
LEMMA AskedStep ==
  cli \in Commandline /\ request \in Asked /\ RowsOK /\ TokenInv /\ CountInv /\ [Next]_vars => request' \in Asked
<1> SUFFICES ASSUME cli \in Commandline, request \in Asked, RowsOK, TokenInv, CountInv, [Next]_vars
             PROVE  request' \in Asked
  OBVIOUS
<1> USE BoundFacts, ValueFacts, AbsentFacts
<1> USE DEF diskVars, cpVars, countVars
<1>1. ASSUME NEW op \in {"identity", "enroll"}, load_or_create(op)
      PROVE  request' \in Asked
  BY <1>1 DEF load_or_create
<1>2. CASE create
  BY <1>2 DEF create, write_key
<1>3. CASE create_metadata
  BY <1>3 DEF create_metadata, save_metadata, Exit, Go
<1>4. CASE rotate_load
  BY <1>4 DEF rotate_load
<1>5. CASE propose_rotation
  BY <1>5 DEF propose_rotation, Exit
<1>6. ASSUME NEW t \in DOMAIN tokens, submit_identity(t)
      PROVE  request' \in Asked
  <2>1. t \in 0 .. MaxTokens
    BY UsedFacts DEF CountInv
  <2>2. [NoRequest EXCEPT !.st = "sent", !.k = cli.k, !.token = t] \in Asked
    BY <2>1 DEF Asked, Commandline
  <2> QED
    BY <1>6, <2>2 DEF submit_identity
<1>7. CASE submitted
  BY <1>7 DEF submitted, Exit
<1>8. CASE record_enrollment
  BY <1>8 DEF record_enrollment, save_metadata, Go
<1>9. CASE compare_node_id
  BY <1>9 DEF compare_node_id, Go, Exit
<1>10. CASE commit_rotation
  BY <1>10 DEF commit_rotation, write_key, Go
<1>11. CASE commit_metadata
  BY <1>11 DEF commit_metadata, save_metadata, Go
<1>12. CASE save_config
  BY <1>12 DEF save_config, Exit
<1>13. CASE submit_fails
  BY <1>13 DEF submit_fails, Exit
<1>14. CASE Crash
  BY <1>14 DEF Crash, Exit
<1>15. ASSUME NEW n0 \in NodeIds \union {None}, IssueToken(n0)
      PROVE  request' \in Asked
  BY <1>15 DEF IssueToken
<1>16. CASE CpRefuse
  BY <1>16 DEF CpRefuse, reply, Asked
<1>17. CASE CpEnroll
  <2>1. Len(nodes) + 1 \in NodeIds
    BY <1>17, EnrollEffect
  <2> QED
    BY <1>17, <2>1 DEF CpEnroll, reply, Asked
<1>18. CASE rotateIdentity
  <2>1. tokens[request.token].bound \in NodeIds
    BY <1>18, RotateEffect
  <2> QED
    BY <1>18, <2>1 DEF rotateIdentity, Asked
<1>19. CASE CpAnswerRotation
  BY <1>19 DEF CpAnswerRotation, reply, disconnect, Asked
<1>20. ASSUME NEW n \in NodeIds, CpRevoke(n)
      PROVE  request' \in Asked
  BY <1>20 DEF CpRevoke, overtaken
<1>21. CASE CpCloseRevoked
  BY <1>21 DEF CpCloseRevoked, disconnect
<1>22. CASE EditConfig
  BY <1>22 DEF EditConfig
<1>23. CASE serve
  BY <1>23 DEF serve, prepare_socket_path
<1>24. CASE Listen
  BY <1>24 DEF Listen
<1>25. CASE run_channel
  BY <1>25 DEF run_channel
<1>26. CASE Stop
  BY <1>26 DEF Stop
<1>27. CASE session
  BY <1>27 DEF session, Channel
<1>28. CASE CpChallenge
  BY <1>28 DEF CpChallenge, Channel
<1>29. CASE authenticate
  BY <1>29 DEF authenticate, Channel
<1>30. CASE CpVerify
  BY <1>30 DEF CpVerify, back_off, Channel
<1>31. CASE CpActivate
  BY <1>31 DEF CpActivate, Channel
<1>32. CASE LinkDrops
  BY <1>32 DEF LinkDrops, back_off, Channel
<1>33. CASE expect_message_hangs
  BY <1>33 DEF expect_message_hangs, Channel
<1>34. CASE SessionEnds
  BY <1>34 DEF SessionEnds, back_off, Channel
<1>35. ASSUME NEW n \in NodeIds, CpHeartbeatTimeout(n)
      PROVE  request' \in Asked
  BY <1>35 DEF CpHeartbeatTimeout, disconnect
<1>36. CASE UNCHANGED vars
  BY <1>36 DEF vars
<1> QED
  BY <1>1, <1>2, <1>3, <1>4, <1>5, <1>6, <1>7, <1>8, <1>9, <1>10, <1>11, <1>12, <1>13,
     <1>14, <1>15, <1>16, <1>17, <1>18, <1>19, <1>20, <1>21, <1>22, <1>23, <1>24,
     <1>25, <1>26, <1>27, <1>28, <1>29, <1>30, <1>31, <1>32, <1>33, <1>34, <1>35,
     <1>36
  DEF Next, Commands, ControlPlane, Daemon, Handshake

\* Every step leaves files.
LEMMA DiskStep ==
  cli \in Commandline /\ DiskOK /\ [Next]_vars => DiskOK'
<1> SUFFICES ASSUME cli \in Commandline, DiskOK, [Next]_vars
             PROVE  DiskOK'
  OBVIOUS
<1> USE BoundFacts, ValueFacts, AbsentFacts
<1> USE DEF DiskOK, diskVars, cpVars, countVars
<1>1. ASSUME NEW op \in {"identity", "enroll"}, load_or_create(op)
      PROVE  DiskOK'
  BY <1>1 DEF load_or_create
<1>2. CASE create
  <2>1. drawn + 1 \in Keys
    BY <1>2 DEF create, DiskOK, Keys
  <2> QED
    BY <1>2, <2>1 DEF create, write_key
<1>3. CASE create_metadata
  BY <1>3 DEF create_metadata, save_metadata, Exit, Go, Commandline
<1>4. CASE rotate_load
  BY <1>4 DEF rotate_load
<1>5. CASE propose_rotation
  BY <1>5 DEF propose_rotation, Exit
<1>6. ASSUME NEW t \in DOMAIN tokens, submit_identity(t)
      PROVE  DiskOK'
  BY <1>6 DEF submit_identity, Go
<1>7. CASE submitted
  BY <1>7 DEF submitted, Exit
<1>8. CASE record_enrollment
  BY <1>8 DEF record_enrollment, save_metadata, Go, Commandline
<1>9. CASE compare_node_id
  BY <1>9 DEF compare_node_id, Go, Exit
<1>10. CASE commit_rotation
  BY <1>10 DEF commit_rotation, write_key, Go, Commandline
<1>11. CASE commit_metadata
  BY <1>11 DEF commit_metadata, save_metadata, Go, Commandline
<1>12. CASE save_config
  BY <1>12 DEF save_config, Exit
<1>13. CASE submit_fails
  BY <1>13 DEF submit_fails, Exit
<1>14. CASE Crash
  <2>1. countVars' \in Nat \X Nat \X Nat \X Nat
    BY <1>14 DEF Crash
  <2> QED
    BY <1>14, <2>1 DEF Crash, TornMeta
<1>15. ASSUME NEW n0 \in NodeIds \union {None}, IssueToken(n0)
      PROVE  DiskOK'
  BY <1>15 DEF IssueToken
<1>16. CASE CpRefuse
  BY <1>16 DEF CpRefuse, reply
<1>17. CASE CpEnroll
  BY <1>17 DEF CpEnroll, reply
<1>18. CASE rotateIdentity
  BY <1>18 DEF rotateIdentity, overtaken
<1>19. CASE CpAnswerRotation
  BY <1>19 DEF CpAnswerRotation, reply, disconnect
<1>20. ASSUME NEW n \in NodeIds, CpRevoke(n)
      PROVE  DiskOK'
  BY <1>20 DEF CpRevoke, overtaken
<1>21. CASE CpCloseRevoked
  BY <1>21 DEF CpCloseRevoked, disconnect
<1>22. CASE EditConfig
  BY <1>22 DEF EditConfig
<1>23. CASE serve
  <2>1. countVars' \in Nat \X Nat \X Nat \X Nat
    BY <1>23 DEF serve
  <2> QED
    BY <1>23, <2>1 DEF serve, prepare_socket_path
<1>24. CASE Listen
  BY <1>24 DEF Listen
<1>25. CASE run_channel
  BY <1>25 DEF run_channel
<1>26. CASE Stop
  BY <1>26 DEF Stop
<1>27. CASE session
  BY <1>27 DEF session, Channel
<1>28. CASE CpChallenge
  BY <1>28 DEF CpChallenge, Channel
<1>29. CASE authenticate
  BY <1>29 DEF authenticate, Channel
<1>30. CASE CpVerify
  BY <1>30 DEF CpVerify, back_off, Channel
<1>31. CASE CpActivate
  BY <1>31 DEF CpActivate, Channel
<1>32. CASE LinkDrops
  BY <1>32 DEF LinkDrops, back_off, Channel
<1>33. CASE expect_message_hangs
  BY <1>33 DEF expect_message_hangs, Channel
<1>34. CASE SessionEnds
  BY <1>34 DEF SessionEnds, back_off, Channel
<1>35. ASSUME NEW n \in NodeIds, CpHeartbeatTimeout(n)
      PROVE  DiskOK'
  BY <1>35 DEF CpHeartbeatTimeout, disconnect
<1>36. CASE UNCHANGED vars
  BY <1>36 DEF vars
<1> QED
  BY <1>1, <1>2, <1>3, <1>4, <1>5, <1>6, <1>7, <1>8, <1>9, <1>10, <1>11, <1>12, <1>13,
     <1>14, <1>15, <1>16, <1>17, <1>18, <1>19, <1>20, <1>21, <1>22, <1>23, <1>24,
     <1>25, <1>26, <1>27, <1>28, <1>29, <1>30, <1>31, <1>32, <1>33, <1>34, <1>35,
     <1>36
  DEF Next, Commands, ControlPlane, Daemon, Handshake

\* Every step leaves rows.
LEMMA RowsStep ==
  request \in Asked /\ hello \in Greeting /\ RowsOK /\ CountInv /\ TokenInv /\ HelloInv /\ [Next]_vars => RowsOK'
<1> SUFFICES ASSUME request \in Asked, hello \in Greeting, RowsOK, CountInv, TokenInv, HelloInv, [Next]_vars
             PROVE  RowsOK'
  OBVIOUS
<1> USE ValueFacts, AbsentFacts
<1> USE DEF RowsOK, diskVars, cpVars, countVars
<1>1. ASSUME NEW op \in {"identity", "enroll"}, load_or_create(op)
      PROVE  RowsOK'
  BY <1>1 DEF load_or_create
<1>2. CASE create
  BY <1>2 DEF create, write_key
<1>3. CASE create_metadata
  BY <1>3 DEF create_metadata, save_metadata, Exit, Go
<1>4. CASE rotate_load
  BY <1>4 DEF rotate_load
<1>5. CASE propose_rotation
  BY <1>5 DEF propose_rotation, Exit
<1>6. ASSUME NEW t \in DOMAIN tokens, submit_identity(t)
      PROVE  RowsOK'
  BY <1>6 DEF submit_identity, Go
<1>7. CASE submitted
  BY <1>7 DEF submitted, Exit
<1>8. CASE record_enrollment
  BY <1>8 DEF record_enrollment, save_metadata, Go
<1>9. CASE compare_node_id
  BY <1>9 DEF compare_node_id, Go, Exit
<1>10. CASE commit_rotation
  BY <1>10 DEF commit_rotation, write_key, Go
<1>11. CASE commit_metadata
  BY <1>11 DEF commit_metadata, save_metadata, Go
<1>12. CASE save_config
  BY <1>12 DEF save_config, Exit
<1>13. CASE submit_fails
  BY <1>13 DEF submit_fails, Exit
<1>14. CASE Crash
  BY <1>14 DEF Crash, Exit
<1>15. ASSUME NEW n0 \in NodeIds \union {None}, IssueToken(n0)
      PROVE  RowsOK'
  BY <1>15, IssueEffect DEF IssueToken, TokenRow
<1>16. CASE CpRefuse
  BY <1>16 DEF CpRefuse, reply
<1>17. CASE CpEnroll
  <2>1. nodes' \in Seq(NodeRow) /\ <<Len(nodes) + 1, request.k>> \in NodeIds \X Keys
    BY <1>17, EnrollEffect
  <2>2. tokens' \in Seq(TokenRow)
    <3>1. request.token \in DOMAIN tokens /\ ~tokens[request.token].used
          /\ tokens' = [tokens EXCEPT ![request.token].used = TRUE]
      BY <1>17, EnrollEffect DEF CpEnroll
    <3> QED
      BY <3>1, UseToken
  <2> QED
    BY <1>17, <2>1, <2>2 DEF CpEnroll, NodeRow, TokenRow
<1>18. CASE rotateIdentity
  <2>1. nodes' \in Seq(NodeRow) /\ <<tokens[request.token].bound, request.k>> \in NodeIds \X Keys
    BY <1>18, RotateEffect
  <2>2. tokens' \in Seq(TokenRow)
    <3>1. request.token \in DOMAIN tokens /\ ~tokens[request.token].used
          /\ tokens' = [tokens EXCEPT ![request.token].used = TRUE]
      BY <1>18, RotateEffect DEF rotateIdentity
    <3> QED
      BY <3>1, UseToken
  <2> QED
    BY <1>18, <2>1, <2>2 DEF rotateIdentity, NodeRow, TokenRow
<1>19. CASE CpAnswerRotation
  BY <1>19 DEF CpAnswerRotation, reply, disconnect
<1>20. ASSUME NEW n \in NodeIds, CpRevoke(n)
      PROVE  RowsOK'
  BY <1>20, RevokeEffect DEF CpRevoke, NodeRow
<1>21. CASE CpCloseRevoked
  BY <1>21 DEF CpCloseRevoked, disconnect
<1>22. CASE EditConfig
  BY <1>22 DEF EditConfig
<1>23. CASE serve
  BY <1>23 DEF serve, prepare_socket_path
<1>24. CASE Listen
  BY <1>24 DEF Listen
<1>25. CASE run_channel
  BY <1>25 DEF run_channel
<1>26. CASE Stop
  BY <1>26 DEF Stop
<1>27. CASE session
  BY <1>27 DEF session, Channel
<1>28. CASE CpChallenge
  BY <1>28 DEF CpChallenge, Channel
<1>29. CASE authenticate
  BY <1>29 DEF authenticate, Channel
<1>30. CASE CpVerify
  BY <1>30 DEF CpVerify, back_off, Channel
<1>31. CASE CpActivate
  BY <1>31 DEF CpActivate, Channel, Greeting, HelloInv
<1>32. CASE LinkDrops
  BY <1>32 DEF LinkDrops, back_off, Channel
<1>33. CASE expect_message_hangs
  BY <1>33 DEF expect_message_hangs, Channel
<1>34. CASE SessionEnds
  BY <1>34 DEF SessionEnds, back_off, Channel
<1>35. ASSUME NEW n \in NodeIds, CpHeartbeatTimeout(n)
      PROVE  RowsOK'
  BY <1>35 DEF CpHeartbeatTimeout, disconnect
<1>36. CASE UNCHANGED vars
  BY <1>36 DEF vars
<1> QED
  BY <1>1, <1>2, <1>3, <1>4, <1>5, <1>6, <1>7, <1>8, <1>9, <1>10, <1>11, <1>12, <1>13,
     <1>14, <1>15, <1>16, <1>17, <1>18, <1>19, <1>20, <1>21, <1>22, <1>23, <1>24,
     <1>25, <1>26, <1>27, <1>28, <1>29, <1>30, <1>31, <1>32, <1>33, <1>34, <1>35,
     <1>36
  DEF Next, Commands, ControlPlane, Daemon, Handshake


\* Every step keeps the types.
LEMMA TypeOKStep ==
  TypeOK /\ CountInv /\ TokenInv /\ HelloInv /\ [Next]_vars => TypeOK'
<1> SUFFICES ASSUME TypeOK, CountInv, TokenInv, HelloInv, [Next]_vars
             PROVE  TypeOK'
  OBVIOUS
<1>1. /\ cli \in Commandline /\ daemon \in Running /\ hello \in Greeting /\ request \in Asked
      /\ DiskOK /\ RowsOK
  BY TypeParts
<1>2. /\ cli' \in Commandline /\ daemon' \in Running /\ hello' \in Greeting /\ request' \in Asked
      /\ DiskOK' /\ RowsOK'
  BY <1>1, CommandlineStep, RunningStep, GreetingStep, AskedStep, DiskStep, RowsStep
<1> QED
  BY <1>2 DEF TypeOK, Commandline, Running, Greeting, Asked, DiskOK, RowsOK

-----------------------------------------------------------------------------
(* The invariants.                                                         *)

\* A Node is created with a token that was not used.
LEMMA CountStep ==
  RowsOK /\ CountInv /\ TokenInv /\ [Next]_vars => CountInv'
<1> SUFFICES ASSUME RowsOK, CountInv, TokenInv, [Next]_vars
             PROVE  CountInv'
  OBVIOUS
<1> USE BoundFacts
<1> USE DEF CountInv, diskVars, cpVars, countVars
<1>1. ASSUME NEW op \in {"identity", "enroll"}, load_or_create(op)
      PROVE  CountInv'
  BY <1>1 DEF load_or_create, UsedTokens
<1>2. CASE create
  BY <1>2 DEF create, write_key, UsedTokens
<1>3. CASE create_metadata
  BY <1>3 DEF create_metadata, save_metadata, Exit, Go, UsedTokens
<1>4. CASE rotate_load
  BY <1>4 DEF rotate_load, UsedTokens
<1>5. CASE propose_rotation
  BY <1>5 DEF propose_rotation, Exit, UsedTokens
<1>6. ASSUME NEW t \in DOMAIN tokens, submit_identity(t)
      PROVE  CountInv'
  BY <1>6 DEF submit_identity, Go, UsedTokens
<1>7. CASE submitted
  BY <1>7 DEF submitted, Exit, UsedTokens
<1>8. CASE record_enrollment
  BY <1>8 DEF record_enrollment, save_metadata, Go, UsedTokens
<1>9. CASE compare_node_id
  BY <1>9 DEF compare_node_id, Go, Exit, UsedTokens
<1>10. CASE commit_rotation
  BY <1>10 DEF commit_rotation, write_key, Go, UsedTokens
<1>11. CASE commit_metadata
  BY <1>11 DEF commit_metadata, save_metadata, Go, UsedTokens
<1>12. CASE save_config
  BY <1>12 DEF save_config, Exit, UsedTokens
<1>13. CASE submit_fails
  BY <1>13 DEF submit_fails, Exit, UsedTokens
<1>14. CASE Crash
  BY <1>14 DEF Crash, Exit, UsedTokens
<1>15. ASSUME NEW n0 \in NodeIds \union {None}, IssueToken(n0)
      PROVE  CountInv'
  BY <1>15, IssueEffect DEF IssueToken
<1>16. CASE CpRefuse
  BY <1>16 DEF CpRefuse, reply, UsedTokens
<1>17. CASE CpEnroll
  <2>1. request.token \in DOMAIN tokens /\ ~tokens[request.token].used
        /\ tokens' = [tokens EXCEPT ![request.token].used = TRUE]
    BY <1>17, EnrollEffect DEF CpEnroll
  <2>2. Len(tokens') = Len(tokens) /\ Cardinality(UsedTokens') = Cardinality(UsedTokens) + 1
    BY <2>1, UseToken
  <2> QED
    BY <1>17, <2>1, <2>2, UsedFacts, EnrollEffect
<1>18. CASE rotateIdentity
  <2>1. request.token \in DOMAIN tokens /\ ~tokens[request.token].used
        /\ tokens' = [tokens EXCEPT ![request.token].used = TRUE]
    BY <1>18, RotateEffect DEF rotateIdentity
  <2>2. Len(tokens') = Len(tokens) /\ Cardinality(UsedTokens') = Cardinality(UsedTokens) + 1
    BY <2>1, UseToken
  <2> QED
    BY <1>18, <2>1, <2>2, UsedFacts, RotateEffect
<1>19. CASE CpAnswerRotation
  BY <1>19 DEF CpAnswerRotation, reply, disconnect, UsedTokens
<1>20. ASSUME NEW n \in NodeIds, CpRevoke(n)
      PROVE  CountInv'
  <2>1. UsedTokens' = UsedTokens
    BY <1>20 DEF CpRevoke, UsedTokens
  <2> QED
    BY <1>20, <2>1, RevokeEffect DEF CpRevoke
<1>21. CASE CpCloseRevoked
  BY <1>21 DEF CpCloseRevoked, disconnect, UsedTokens
<1>22. CASE EditConfig
  BY <1>22 DEF EditConfig, UsedTokens
<1>23. CASE serve
  BY <1>23 DEF serve, prepare_socket_path, UsedTokens
<1>24. CASE Listen
  BY <1>24 DEF Listen, UsedTokens
<1>25. CASE run_channel
  BY <1>25 DEF run_channel, UsedTokens
<1>26. CASE Stop
  BY <1>26 DEF Stop, UsedTokens
<1>27. CASE session
  BY <1>27 DEF session, Channel, UsedTokens
<1>28. CASE CpChallenge
  BY <1>28 DEF CpChallenge, Channel, UsedTokens
<1>29. CASE authenticate
  BY <1>29 DEF authenticate, Channel, UsedTokens
<1>30. CASE CpVerify
  BY <1>30 DEF CpVerify, back_off, Channel, UsedTokens
<1>31. CASE CpActivate
  BY <1>31 DEF CpActivate, Channel, UsedTokens
<1>32. CASE LinkDrops
  BY <1>32 DEF LinkDrops, back_off, Channel, UsedTokens
<1>33. CASE expect_message_hangs
  BY <1>33 DEF expect_message_hangs, Channel, UsedTokens
<1>34. CASE SessionEnds
  BY <1>34 DEF SessionEnds, back_off, Channel, UsedTokens
<1>35. ASSUME NEW n \in NodeIds, CpHeartbeatTimeout(n)
      PROVE  CountInv'
  BY <1>35 DEF CpHeartbeatTimeout, disconnect, UsedTokens
<1>36. CASE UNCHANGED vars
  BY <1>36 DEF vars, UsedTokens
<1> QED
  BY <1>1, <1>2, <1>3, <1>4, <1>5, <1>6, <1>7, <1>8, <1>9, <1>10, <1>11, <1>12, <1>13,
     <1>14, <1>15, <1>16, <1>17, <1>18, <1>19, <1>20, <1>21, <1>22, <1>23, <1>24,
     <1>25, <1>26, <1>27, <1>28, <1>29, <1>30, <1>31, <1>32, <1>33, <1>34, <1>35,
     <1>36
  DEF Next, Commands, ControlPlane, Daemon, Handshake

\* Tokens are issued for Nodes there are, and no Node goes away.
LEMMA TokenStep ==
  RowsOK /\ CountInv /\ TokenInv /\ AnswerInv /\ [Next]_vars => TokenInv'
<1> SUFFICES ASSUME RowsOK, CountInv, TokenInv, AnswerInv, [Next]_vars
             PROVE  TokenInv'
  OBVIOUS
<1> USE ValueFacts, AbsentFacts
<1> USE DEF TokenInv, diskVars, cpVars, countVars
<1>1. ASSUME NEW op \in {"identity", "enroll"}, load_or_create(op)
      PROVE  TokenInv'
  BY <1>1 DEF load_or_create
<1>2. CASE create
  BY <1>2 DEF create, write_key
<1>3. CASE create_metadata
  BY <1>3 DEF create_metadata, save_metadata, Exit, Go
<1>4. CASE rotate_load
  BY <1>4 DEF rotate_load
<1>5. CASE propose_rotation
  BY <1>5 DEF propose_rotation, Exit
<1>6. ASSUME NEW t \in DOMAIN tokens, submit_identity(t)
      PROVE  TokenInv'
  <2>1. cli.k \in Keys
    BY <1>6 DEF submit_identity, At, AnswerInv
  <2> QED
    BY <1>6, <2>1 DEF submit_identity, NoRequest
<1>7. CASE submitted
  BY <1>7 DEF submitted, Exit
<1>8. CASE record_enrollment
  BY <1>8 DEF record_enrollment, save_metadata, Go
<1>9. CASE compare_node_id
  BY <1>9 DEF compare_node_id, Go, Exit
<1>10. CASE commit_rotation
  BY <1>10 DEF commit_rotation, write_key, Go
<1>11. CASE commit_metadata
  BY <1>11 DEF commit_metadata, save_metadata, Go
<1>12. CASE save_config
  BY <1>12 DEF save_config, Exit
<1>13. CASE submit_fails
  BY <1>13 DEF submit_fails, Exit
<1>14. CASE Crash
  BY <1>14 DEF Crash, Exit
<1>15. ASSUME NEW n0 \in NodeIds \union {None}, IssueToken(n0)
      PROVE  TokenInv'
  BY <1>15, IssueEffect DEF IssueToken
<1>16. CASE CpRefuse
  BY <1>16 DEF CpRefuse, reply
<1>17. CASE CpEnroll
  <2>1. request.token \in DOMAIN tokens /\ ~tokens[request.token].used
        /\ tokens' = [tokens EXCEPT ![request.token].used = TRUE]
    BY <1>17, EnrollEffect DEF CpEnroll
  <2>2. DOMAIN tokens' = DOMAIN tokens /\ \A j \in DOMAIN tokens : tokens'[j].bound = tokens[j].bound
    BY <2>1, UseToken
  <2> QED
    BY <1>17, <2>1, <2>2, UsedFacts, EnrollEffect DEF CpEnroll, reply
<1>18. CASE rotateIdentity
  <2>1. request.token \in DOMAIN tokens /\ ~tokens[request.token].used
        /\ tokens' = [tokens EXCEPT ![request.token].used = TRUE]
    BY <1>18, RotateEffect DEF rotateIdentity
  <2>2. DOMAIN tokens' = DOMAIN tokens /\ \A j \in DOMAIN tokens : tokens'[j].bound = tokens[j].bound
    BY <2>1, UseToken
  <2> QED
    BY <1>18, <2>1, <2>2, UsedFacts, RotateEffect DEF rotateIdentity
<1>19. CASE CpAnswerRotation
  BY <1>19 DEF CpAnswerRotation, reply, disconnect
<1>20. ASSUME NEW n \in NodeIds, CpRevoke(n)
      PROVE  TokenInv'
  BY <1>20, RevokeEffect DEF CpRevoke
<1>21. CASE CpCloseRevoked
  BY <1>21 DEF CpCloseRevoked, disconnect
<1>22. CASE EditConfig
  BY <1>22 DEF EditConfig
<1>23. CASE serve
  BY <1>23 DEF serve, prepare_socket_path
<1>24. CASE Listen
  BY <1>24 DEF Listen
<1>25. CASE run_channel
  BY <1>25 DEF run_channel
<1>26. CASE Stop
  BY <1>26 DEF Stop
<1>27. CASE session
  BY <1>27 DEF session, Channel
<1>28. CASE CpChallenge
  BY <1>28 DEF CpChallenge, Channel
<1>29. CASE authenticate
  BY <1>29 DEF authenticate, Channel
<1>30. CASE CpVerify
  BY <1>30 DEF CpVerify, back_off, Channel
<1>31. CASE CpActivate
  BY <1>31 DEF CpActivate, Channel
<1>32. CASE LinkDrops
  BY <1>32 DEF LinkDrops, back_off, Channel
<1>33. CASE expect_message_hangs
  BY <1>33 DEF expect_message_hangs, Channel
<1>34. CASE SessionEnds
  BY <1>34 DEF SessionEnds, back_off, Channel
<1>35. ASSUME NEW n \in NodeIds, CpHeartbeatTimeout(n)
      PROVE  TokenInv'
  BY <1>35 DEF CpHeartbeatTimeout, disconnect
<1>36. CASE UNCHANGED vars
  BY <1>36 DEF vars
<1> QED
  BY <1>1, <1>2, <1>3, <1>4, <1>5, <1>6, <1>7, <1>8, <1>9, <1>10, <1>11, <1>12, <1>13,
     <1>14, <1>15, <1>16, <1>17, <1>18, <1>19, <1>20, <1>21, <1>22, <1>23, <1>24,
     <1>25, <1>26, <1>27, <1>28, <1>29, <1>30, <1>31, <1>32, <1>33, <1>34, <1>35,
     <1>36
  DEF Next, Commands, ControlPlane, Daemon, Handshake

\* `create` writes where no key is, and no step makes a key absent.
LEMMA MintStep ==
  cli \in Commandline /\ DiskOK /\ MintInv /\ NeverMintsOver /\ AnswerInv /\ [Next]_vars => (MintInv /\ NeverMintsOver)'
<1> SUFFICES ASSUME cli \in Commandline, DiskOK, MintInv, NeverMintsOver, AnswerInv, [Next]_vars
             PROVE  (MintInv /\ NeverMintsOver)'
  OBVIOUS
<1> USE BoundFacts, ValueFacts, AbsentFacts
<1> USE DEF MintInv, NeverMintsOver, At, Commandline, diskVars, cpVars, countVars
<1>1. ASSUME NEW op \in {"identity", "enroll"}, load_or_create(op)
      PROVE  (MintInv /\ NeverMintsOver)'
  BY <1>1 DEF load_or_create, creates_on, is_missing, Idle
<1>2. CASE create
  BY <1>2 DEF create, write_key, DiskOK, None
<1>3. CASE create_metadata
  BY <1>3 DEF create_metadata, save_metadata, Exit, Go
<1>4. CASE rotate_load
  BY <1>4 DEF rotate_load, Idle
<1>5. CASE propose_rotation
  BY <1>5 DEF propose_rotation, Exit
<1>6. ASSUME NEW t \in DOMAIN tokens, submit_identity(t)
      PROVE  (MintInv /\ NeverMintsOver)'
  BY <1>6 DEF submit_identity, Go
<1>7. CASE submitted
  BY <1>7 DEF submitted, Exit
<1>8. CASE record_enrollment
  BY <1>8 DEF record_enrollment, save_metadata, Go
<1>9. CASE compare_node_id
  BY <1>9 DEF compare_node_id, Go, Exit
<1>10. CASE commit_rotation
  BY <1>10 DEF commit_rotation, write_key, Go, AnswerInv
<1>11. CASE commit_metadata
  BY <1>11 DEF commit_metadata, save_metadata, Go
<1>12. CASE save_config
  BY <1>12 DEF save_config, Exit
<1>13. CASE submit_fails
  BY <1>13 DEF submit_fails, Exit
<1>14. CASE Crash
  BY <1>14 DEF Crash, Exit
<1>15. ASSUME NEW n0 \in NodeIds \union {None}, IssueToken(n0)
      PROVE  (MintInv /\ NeverMintsOver)'
  BY <1>15 DEF IssueToken
<1>16. CASE CpRefuse
  BY <1>16 DEF CpRefuse, reply
<1>17. CASE CpEnroll
  BY <1>17 DEF CpEnroll, reply
<1>18. CASE rotateIdentity
  BY <1>18 DEF rotateIdentity, overtaken
<1>19. CASE CpAnswerRotation
  BY <1>19 DEF CpAnswerRotation, reply, disconnect
<1>20. ASSUME NEW n \in NodeIds, CpRevoke(n)
      PROVE  (MintInv /\ NeverMintsOver)'
  BY <1>20 DEF CpRevoke, overtaken
<1>21. CASE CpCloseRevoked
  BY <1>21 DEF CpCloseRevoked, disconnect
<1>22. CASE EditConfig
  BY <1>22 DEF EditConfig
<1>23. CASE serve
  BY <1>23 DEF serve, prepare_socket_path
<1>24. CASE Listen
  BY <1>24 DEF Listen
<1>25. CASE run_channel
  BY <1>25 DEF run_channel
<1>26. CASE Stop
  BY <1>26 DEF Stop
<1>27. CASE session
  BY <1>27 DEF session, Channel
<1>28. CASE CpChallenge
  BY <1>28 DEF CpChallenge, Channel
<1>29. CASE authenticate
  BY <1>29 DEF authenticate, Channel
<1>30. CASE CpVerify
  BY <1>30 DEF CpVerify, back_off, Channel
<1>31. CASE CpActivate
  BY <1>31 DEF CpActivate, Channel
<1>32. CASE LinkDrops
  BY <1>32 DEF LinkDrops, back_off, Channel
<1>33. CASE expect_message_hangs
  BY <1>33 DEF expect_message_hangs, Channel
<1>34. CASE SessionEnds
  BY <1>34 DEF SessionEnds, back_off, Channel
<1>35. ASSUME NEW n \in NodeIds, CpHeartbeatTimeout(n)
      PROVE  (MintInv /\ NeverMintsOver)'
  BY <1>35 DEF CpHeartbeatTimeout, disconnect
<1>36. CASE UNCHANGED vars
  BY <1>36 DEF vars
<1> QED
  BY <1>1, <1>2, <1>3, <1>4, <1>5, <1>6, <1>7, <1>8, <1>9, <1>10, <1>11, <1>12, <1>13,
     <1>14, <1>15, <1>16, <1>17, <1>18, <1>19, <1>20, <1>21, <1>22, <1>23, <1>24,
     <1>25, <1>26, <1>27, <1>28, <1>29, <1>30, <1>31, <1>32, <1>33, <1>34, <1>35,
     <1>36
  DEF Next, Commands, ControlPlane, Daemon, Handshake

\* What a command is told was recorded before, for the key it sent.
LEMMA AnswerStep ==
  cli \in Commandline /\ request \in Asked /\ DiskOK /\ RowsOK /\ CountInv /\ TokenInv /\ AnswerInv /\ [Next]_vars => AnswerInv'
<1> SUFFICES ASSUME cli \in Commandline, request \in Asked, DiskOK, RowsOK, CountInv, TokenInv, AnswerInv, [Next]_vars
             PROVE  AnswerInv'
  OBVIOUS
<1> USE BoundFacts, ValueFacts, AbsentFacts
<1> USE DEF AnswerInv, At, Commandline, diskVars, cpVars, countVars
<1>1. ASSUME NEW op \in {"identity", "enroll"}, load_or_create(op)
      PROVE  AnswerInv'
  BY <1>1 DEF load_or_create, load_ok, Idle
<1>2. CASE create
  <2>1. drawn + 1 \in Keys
    BY <1>2 DEF create, DiskOK, Keys
  <2> QED
    BY <1>2, <2>1 DEF create, write_key
<1>3. CASE create_metadata
  BY <1>3 DEF create_metadata, save_metadata, Exit, Go
<1>4. CASE rotate_load
  BY <1>4 DEF rotate_load, load_ok, Idle
<1>5. CASE propose_rotation
  <2>1. CASE Exit
    BY <1>5, <2>1 DEF Exit, propose_rotation
  <2>2. CASE ~Exit
    <3>1. drawn + 1 \in Keys
      BY <1>5, <2>2, BoundFacts DEF propose_rotation, DiskOK, Keys
    <3> QED
      BY <1>5, <2>2, <3>1 DEF propose_rotation
  <2> QED
    BY <2>1, <2>2
<1>6. ASSUME NEW t \in DOMAIN tokens, submit_identity(t)
      PROVE  AnswerInv'
  BY <1>6 DEF submit_identity, Go, NoRequest
<1>7. CASE submitted
  BY <1>7 DEF submitted, Exit, Asked
<1>8. CASE record_enrollment
  BY <1>8 DEF record_enrollment, save_metadata, Go
<1>9. CASE compare_node_id
  BY <1>9 DEF compare_node_id, Go, Exit
<1>10. CASE commit_rotation
  BY <1>10 DEF commit_rotation, write_key, Go
<1>11. CASE commit_metadata
  BY <1>11 DEF commit_metadata, save_metadata, Go
<1>12. CASE save_config
  BY <1>12 DEF save_config, Exit
<1>13. CASE submit_fails
  BY <1>13 DEF submit_fails, Exit
<1>14. CASE Crash
  BY <1>14 DEF Crash, Exit
<1>15. ASSUME NEW n0 \in NodeIds \union {None}, IssueToken(n0)
      PROVE  AnswerInv'
  BY <1>15 DEF IssueToken
<1>16. CASE CpRefuse
  BY <1>16 DEF CpRefuse, reply, Asked
<1>17. CASE CpEnroll
  BY <1>17 DEF CpEnroll, reply, Asked
<1>18. CASE rotateIdentity
  BY <1>18 DEF rotateIdentity, overtaken, Asked
<1>19. CASE CpAnswerRotation
  BY <1>19 DEF CpAnswerRotation, reply, disconnect, Asked
<1>20. ASSUME NEW n \in NodeIds, CpRevoke(n)
      PROVE  AnswerInv'
  BY <1>20 DEF CpRevoke, overtaken
<1>21. CASE CpCloseRevoked
  BY <1>21 DEF CpCloseRevoked, disconnect
<1>22. CASE EditConfig
  BY <1>22 DEF EditConfig
<1>23. CASE serve
  BY <1>23 DEF serve, prepare_socket_path
<1>24. CASE Listen
  BY <1>24 DEF Listen
<1>25. CASE run_channel
  BY <1>25 DEF run_channel
<1>26. CASE Stop
  BY <1>26 DEF Stop
<1>27. CASE session
  BY <1>27 DEF session, Channel
<1>28. CASE CpChallenge
  BY <1>28 DEF CpChallenge, Channel
<1>29. CASE authenticate
  BY <1>29 DEF authenticate, Channel
<1>30. CASE CpVerify
  BY <1>30 DEF CpVerify, back_off, Channel
<1>31. CASE CpActivate
  BY <1>31 DEF CpActivate, Channel
<1>32. CASE LinkDrops
  BY <1>32 DEF LinkDrops, back_off, Channel
<1>33. CASE expect_message_hangs
  BY <1>33 DEF expect_message_hangs, Channel
<1>34. CASE SessionEnds
  BY <1>34 DEF SessionEnds, back_off, Channel
<1>35. ASSUME NEW n \in NodeIds, CpHeartbeatTimeout(n)
      PROVE  AnswerInv'
  BY <1>35 DEF CpHeartbeatTimeout, disconnect
<1>36. CASE UNCHANGED vars
  BY <1>36 DEF vars
<1> QED
  BY <1>1, <1>2, <1>3, <1>4, <1>5, <1>6, <1>7, <1>8, <1>9, <1>10, <1>11, <1>12, <1>13,
     <1>14, <1>15, <1>16, <1>17, <1>18, <1>19, <1>20, <1>21, <1>22, <1>23, <1>24,
     <1>25, <1>26, <1>27, <1>28, <1>29, <1>30, <1>31, <1>32, <1>33, <1>34, <1>35,
     <1>36
  DEF Next, Commands, ControlPlane, Daemon, Handshake

\* A change of the key or a revocation marks the handshake it overtakes.
LEMMA HelloStep ==
  hello \in Greeting /\ RowsOK /\ CountInv /\ TokenInv /\ HelloInv /\ [Next]_vars => HelloInv'
<1> SUFFICES ASSUME hello \in Greeting, RowsOK, CountInv, TokenInv, HelloInv, [Next]_vars
             PROVE  HelloInv'
  OBVIOUS
<1> USE ValueFacts, AbsentFacts, NodeRange
<1> USE DEF HelloInv, verified, verify_signature, diskVars, cpVars, countVars
<1>1. ASSUME NEW op \in {"identity", "enroll"}, load_or_create(op)
      PROVE  HelloInv'
  BY <1>1 DEF load_or_create
<1>2. CASE create
  BY <1>2 DEF create, write_key
<1>3. CASE create_metadata
  BY <1>3 DEF create_metadata, save_metadata, Exit, Go
<1>4. CASE rotate_load
  BY <1>4 DEF rotate_load
<1>5. CASE propose_rotation
  BY <1>5 DEF propose_rotation, Exit
<1>6. ASSUME NEW t \in DOMAIN tokens, submit_identity(t)
      PROVE  HelloInv'
  BY <1>6 DEF submit_identity, Go
<1>7. CASE submitted
  BY <1>7 DEF submitted, Exit
<1>8. CASE record_enrollment
  BY <1>8 DEF record_enrollment, save_metadata, Go
<1>9. CASE compare_node_id
  BY <1>9 DEF compare_node_id, Go, Exit
<1>10. CASE commit_rotation
  BY <1>10 DEF commit_rotation, write_key, Go
<1>11. CASE commit_metadata
  BY <1>11 DEF commit_metadata, save_metadata, Go
<1>12. CASE save_config
  BY <1>12 DEF save_config, Exit
<1>13. CASE submit_fails
  BY <1>13 DEF submit_fails, Exit
<1>14. CASE Crash
  BY <1>14 DEF Crash, Exit
<1>15. ASSUME NEW n0 \in NodeIds \union {None}, IssueToken(n0)
      PROVE  HelloInv'
  BY <1>15 DEF IssueToken
<1>16. CASE CpRefuse
  BY <1>16 DEF CpRefuse, reply
<1>17. CASE CpEnroll
  BY <1>17, EnrollEffect DEF CpEnroll
<1>18. CASE rotateIdentity
  BY <1>18, RotateEffect DEF rotateIdentity, overtaken, Greeting
<1>19. CASE CpAnswerRotation
  BY <1>19 DEF CpAnswerRotation, disconnect, RowsOK
<1>20. ASSUME NEW n \in NodeIds, CpRevoke(n)
      PROVE  HelloInv'
  BY <1>20, RevokeEffect DEF CpRevoke, overtaken, Greeting
<1>21. CASE CpCloseRevoked
  BY <1>21 DEF CpCloseRevoked, disconnect, RowsOK
<1>22. CASE EditConfig
  BY <1>22 DEF EditConfig
<1>23. CASE serve
  BY <1>23 DEF serve, prepare_socket_path
<1>24. CASE Listen
  BY <1>24 DEF Listen
<1>25. CASE run_channel
  BY <1>25 DEF run_channel
<1>26. CASE Stop
  BY <1>26 DEF Stop
<1>27. CASE session
  BY <1>27 DEF session, Channel
<1>28. CASE CpChallenge
  BY <1>28 DEF CpChallenge, Channel, NoHello
<1>29. CASE authenticate
  BY <1>29 DEF authenticate, Channel
<1>30. CASE CpVerify
  BY <1>30 DEF CpVerify, back_off, Channel, Greeting
<1>31. CASE CpActivate
  BY <1>31 DEF CpActivate, Channel, RowsOK
<1>32. CASE LinkDrops
  BY <1>32 DEF LinkDrops, back_off, Channel
<1>33. CASE expect_message_hangs
  BY <1>33 DEF expect_message_hangs, Channel
<1>34. CASE SessionEnds
  BY <1>34 DEF SessionEnds, back_off, Channel
<1>35. ASSUME NEW n \in NodeIds, CpHeartbeatTimeout(n)
      PROVE  HelloInv'
  BY <1>35 DEF CpHeartbeatTimeout, disconnect, RowsOK
<1>36. CASE UNCHANGED vars
  BY <1>36 DEF vars
<1> QED
  BY <1>1, <1>2, <1>3, <1>4, <1>5, <1>6, <1>7, <1>8, <1>9, <1>10, <1>11, <1>12, <1>13,
     <1>14, <1>15, <1>16, <1>17, <1>18, <1>19, <1>20, <1>21, <1>22, <1>23, <1>24,
     <1>25, <1>26, <1>27, <1>28, <1>29, <1>30, <1>31, <1>32, <1>33, <1>34, <1>35,
     <1>36
  DEF Next, Commands, ControlPlane, Daemon, Handshake

\* The Control Plane records a key only where no active Node has it.
LEMMA OneNodeStep ==
  RowsOK /\ CountInv /\ TokenInv /\ OneNodePerKey /\ [Next]_vars => OneNodePerKey'
<1> SUFFICES ASSUME RowsOK, CountInv, TokenInv, OneNodePerKey, [Next]_vars
             PROVE  OneNodePerKey'
  OBVIOUS
<1> USE DEF OneNodePerKey, diskVars, cpVars, countVars
<1>1. ASSUME NEW op \in {"identity", "enroll"}, load_or_create(op)
      PROVE  OneNodePerKey'
  BY <1>1 DEF load_or_create
<1>2. CASE create
  BY <1>2 DEF create, write_key
<1>3. CASE create_metadata
  BY <1>3 DEF create_metadata, save_metadata, Exit, Go
<1>4. CASE rotate_load
  BY <1>4 DEF rotate_load
<1>5. CASE propose_rotation
  BY <1>5 DEF propose_rotation, Exit
<1>6. ASSUME NEW t \in DOMAIN tokens, submit_identity(t)
      PROVE  OneNodePerKey'
  BY <1>6 DEF submit_identity, Go
<1>7. CASE submitted
  BY <1>7 DEF submitted, Exit
<1>8. CASE record_enrollment
  BY <1>8 DEF record_enrollment, save_metadata, Go
<1>9. CASE compare_node_id
  BY <1>9 DEF compare_node_id, Go, Exit
<1>10. CASE commit_rotation
  BY <1>10 DEF commit_rotation, write_key, Go
<1>11. CASE commit_metadata
  BY <1>11 DEF commit_metadata, save_metadata, Go
<1>12. CASE save_config
  BY <1>12 DEF save_config, Exit
<1>13. CASE submit_fails
  BY <1>13 DEF submit_fails, Exit
<1>14. CASE Crash
  BY <1>14 DEF Crash, Exit
<1>15. ASSUME NEW n0 \in NodeIds \union {None}, IssueToken(n0)
      PROVE  OneNodePerKey'
  BY <1>15 DEF IssueToken
<1>16. CASE CpRefuse
  BY <1>16 DEF CpRefuse, reply
<1>17. CASE CpEnroll
  BY <1>17, EnrollEffect DEF CpEnroll, may_enroll, active_with
<1>18. CASE rotateIdentity
  BY <1>18, RotateEffect DEF rotateIdentity, active_with
<1>19. CASE CpAnswerRotation
  BY <1>19 DEF CpAnswerRotation, reply, disconnect
<1>20. ASSUME NEW n \in NodeIds, CpRevoke(n)
      PROVE  OneNodePerKey'
  BY <1>20, RevokeEffect DEF CpRevoke
<1>21. CASE CpCloseRevoked
  BY <1>21 DEF CpCloseRevoked, disconnect
<1>22. CASE EditConfig
  BY <1>22 DEF EditConfig
<1>23. CASE serve
  BY <1>23 DEF serve, prepare_socket_path
<1>24. CASE Listen
  BY <1>24 DEF Listen
<1>25. CASE run_channel
  BY <1>25 DEF run_channel
<1>26. CASE Stop
  BY <1>26 DEF Stop
<1>27. CASE session
  BY <1>27 DEF session, Channel
<1>28. CASE CpChallenge
  BY <1>28 DEF CpChallenge, Channel
<1>29. CASE authenticate
  BY <1>29 DEF authenticate, Channel
<1>30. CASE CpVerify
  BY <1>30 DEF CpVerify, back_off, Channel
<1>31. CASE CpActivate
  BY <1>31 DEF CpActivate, Channel
<1>32. CASE LinkDrops
  BY <1>32 DEF LinkDrops, back_off, Channel
<1>33. CASE expect_message_hangs
  BY <1>33 DEF expect_message_hangs, Channel
<1>34. CASE SessionEnds
  BY <1>34 DEF SessionEnds, back_off, Channel
<1>35. ASSUME NEW n \in NodeIds, CpHeartbeatTimeout(n)
      PROVE  OneNodePerKey'
  BY <1>35 DEF CpHeartbeatTimeout, disconnect
<1>36. CASE UNCHANGED vars
  BY <1>36 DEF vars
<1> QED
  BY <1>1, <1>2, <1>3, <1>4, <1>5, <1>6, <1>7, <1>8, <1>9, <1>10, <1>11, <1>12, <1>13,
     <1>14, <1>15, <1>16, <1>17, <1>18, <1>19, <1>20, <1>21, <1>22, <1>23, <1>24,
     <1>25, <1>26, <1>27, <1>28, <1>29, <1>30, <1>31, <1>32, <1>33, <1>34, <1>35,
     <1>36
  DEF Next, Commands, ControlPlane, Daemon, Handshake

\* A rotation and a revocation close the session that is there, and what
\* activates a new one was verified or overtaken.
LEMMA SupersededStep ==
  hello \in Greeting /\ request \in Asked /\ RowsOK /\ CountInv /\ TokenInv /\ HelloInv /\ SupersededSessionRaced /\ [Next]_vars => SupersededSessionRaced'
<1> SUFFICES ASSUME hello \in Greeting, request \in Asked, RowsOK, CountInv, TokenInv, HelloInv, SupersededSessionRaced, [Next]_vars
             PROVE  SupersededSessionRaced'
  OBVIOUS
<1> USE ValueFacts, AbsentFacts, NodeRange
<1> USE DEF SupersededSessionRaced, verified, verify_signature, diskVars, cpVars,
            countVars
<1>1. ASSUME NEW op \in {"identity", "enroll"}, load_or_create(op)
      PROVE  SupersededSessionRaced'
  BY <1>1 DEF load_or_create
<1>2. CASE create
  BY <1>2 DEF create, write_key
<1>3. CASE create_metadata
  BY <1>3 DEF create_metadata, save_metadata, Exit, Go
<1>4. CASE rotate_load
  BY <1>4 DEF rotate_load
<1>5. CASE propose_rotation
  BY <1>5 DEF propose_rotation, Exit
<1>6. ASSUME NEW t \in DOMAIN tokens, submit_identity(t)
      PROVE  SupersededSessionRaced'
  BY <1>6 DEF submit_identity, Go
<1>7. CASE submitted
  BY <1>7 DEF submitted, Exit
<1>8. CASE record_enrollment
  BY <1>8 DEF record_enrollment, save_metadata, Go
<1>9. CASE compare_node_id
  BY <1>9 DEF compare_node_id, Go, Exit
<1>10. CASE commit_rotation
  BY <1>10 DEF commit_rotation, write_key, Go
<1>11. CASE commit_metadata
  BY <1>11 DEF commit_metadata, save_metadata, Go
<1>12. CASE save_config
  BY <1>12 DEF save_config, Exit
<1>13. CASE submit_fails
  BY <1>13 DEF submit_fails, Exit, Asked
<1>14. CASE Crash
  BY <1>14 DEF Crash, Exit, Asked
<1>15. ASSUME NEW n0 \in NodeIds \union {None}, IssueToken(n0)
      PROVE  SupersededSessionRaced'
  BY <1>15 DEF IssueToken
<1>16. CASE CpRefuse
  BY <1>16 DEF CpRefuse, reply, Asked
<1>17. CASE CpEnroll
  <2>1. sess' = sess /\ revoking' = revoking /\ request.st = "sent"
    BY <1>17 DEF CpEnroll
  <2>2. sess[Len(nodes) + 1] = NoSession
    BY <1>17, EnrollEffect DEF HelloInv
  <2> QED
    BY <1>17, <2>1, <2>2, EnrollEffect
<1>18. CASE rotateIdentity
  BY <1>18, RotateEffect DEF rotateIdentity, Asked
<1>19. CASE CpAnswerRotation
  BY <1>19 DEF CpAnswerRotation, disconnect, RowsOK, TokenInv, reply
<1>20. ASSUME NEW n \in NodeIds, CpRevoke(n)
      PROVE  SupersededSessionRaced'
  BY <1>20, RevokeEffect DEF CpRevoke
<1>21. CASE CpCloseRevoked
  BY <1>21 DEF CpCloseRevoked, disconnect, RowsOK
<1>22. CASE EditConfig
  BY <1>22 DEF EditConfig
<1>23. CASE serve
  BY <1>23 DEF serve, prepare_socket_path
<1>24. CASE Listen
  BY <1>24 DEF Listen
<1>25. CASE run_channel
  BY <1>25 DEF run_channel
<1>26. CASE Stop
  BY <1>26 DEF Stop
<1>27. CASE session
  BY <1>27 DEF session, Channel
<1>28. CASE CpChallenge
  BY <1>28 DEF CpChallenge, Channel
<1>29. CASE authenticate
  BY <1>29 DEF authenticate, Channel
<1>30. CASE CpVerify
  BY <1>30 DEF CpVerify, back_off, Channel
<1>31. CASE CpActivate
  BY <1>31 DEF CpActivate, Channel, RowsOK, HelloInv, Greeting
<1>32. CASE LinkDrops
  BY <1>32 DEF LinkDrops, back_off, Channel
<1>33. CASE expect_message_hangs
  BY <1>33 DEF expect_message_hangs, Channel
<1>34. CASE SessionEnds
  BY <1>34 DEF SessionEnds, back_off, Channel
<1>35. ASSUME NEW n \in NodeIds, CpHeartbeatTimeout(n)
      PROVE  SupersededSessionRaced'
  BY <1>35 DEF CpHeartbeatTimeout, disconnect, RowsOK
<1>36. CASE UNCHANGED vars
  BY <1>36 DEF vars
<1> QED
  BY <1>1, <1>2, <1>3, <1>4, <1>5, <1>6, <1>7, <1>8, <1>9, <1>10, <1>11, <1>12, <1>13,
     <1>14, <1>15, <1>16, <1>17, <1>18, <1>19, <1>20, <1>21, <1>22, <1>23, <1>24,
     <1>25, <1>26, <1>27, <1>28, <1>29, <1>30, <1>31, <1>32, <1>33, <1>34, <1>35,
     <1>36
  DEF Next, Commands, ControlPlane, Daemon, Handshake

\* The one step that replaces a key by a key is the commit of a rotation.
LEMMA KeyStep ==
  MintInv /\ AnswerInv /\ [Next]_vars => (key \in Keys /\ key' \in Keys /\ key' # key => <<meta.node, key'>> \in accepted)
<1> SUFFICES ASSUME MintInv, AnswerInv, [Next]_vars
             PROVE  (key \in Keys /\ key' \in Keys /\ key' # key => <<meta.node, key'>> \in accepted)
  OBVIOUS
<1> USE ValueFacts
<1> USE DEF MintInv, AnswerInv, At, diskVars, cpVars, countVars
<1>1. ASSUME NEW op \in {"identity", "enroll"}, load_or_create(op)
      PROVE  (key \in Keys /\ key' \in Keys /\ key' # key => <<meta.node, key'>> \in accepted)
  BY <1>1 DEF load_or_create
<1>2. CASE create
  BY <1>2 DEF create, write_key
<1>3. CASE create_metadata
  BY <1>3 DEF create_metadata, save_metadata, Exit, Go
<1>4. CASE rotate_load
  BY <1>4 DEF rotate_load
<1>5. CASE propose_rotation
  BY <1>5 DEF propose_rotation, Exit
<1>6. ASSUME NEW t \in DOMAIN tokens, submit_identity(t)
      PROVE  (key \in Keys /\ key' \in Keys /\ key' # key => <<meta.node, key'>> \in accepted)
  BY <1>6 DEF submit_identity, Go
<1>7. CASE submitted
  BY <1>7 DEF submitted, Exit
<1>8. CASE record_enrollment
  BY <1>8 DEF record_enrollment, save_metadata, Go
<1>9. CASE compare_node_id
  BY <1>9 DEF compare_node_id, Go, Exit
<1>10. CASE commit_rotation
  BY <1>10 DEF commit_rotation, write_key, Go
<1>11. CASE commit_metadata
  BY <1>11 DEF commit_metadata, save_metadata, Go
<1>12. CASE save_config
  BY <1>12 DEF save_config, Exit
<1>13. CASE submit_fails
  BY <1>13 DEF submit_fails, Exit
<1>14. CASE Crash
  BY <1>14 DEF Crash, Exit
<1>15. ASSUME NEW n0 \in NodeIds \union {None}, IssueToken(n0)
      PROVE  (key \in Keys /\ key' \in Keys /\ key' # key => <<meta.node, key'>> \in accepted)
  BY <1>15 DEF IssueToken
<1>16. CASE CpRefuse
  BY <1>16 DEF CpRefuse, reply
<1>17. CASE CpEnroll
  BY <1>17 DEF CpEnroll, reply
<1>18. CASE rotateIdentity
  BY <1>18 DEF rotateIdentity, overtaken
<1>19. CASE CpAnswerRotation
  BY <1>19 DEF CpAnswerRotation, reply, disconnect
<1>20. ASSUME NEW n \in NodeIds, CpRevoke(n)
      PROVE  (key \in Keys /\ key' \in Keys /\ key' # key => <<meta.node, key'>> \in accepted)
  BY <1>20 DEF CpRevoke, overtaken
<1>21. CASE CpCloseRevoked
  BY <1>21 DEF CpCloseRevoked, disconnect
<1>22. CASE EditConfig
  BY <1>22 DEF EditConfig
<1>23. CASE serve
  BY <1>23 DEF serve, prepare_socket_path
<1>24. CASE Listen
  BY <1>24 DEF Listen
<1>25. CASE run_channel
  BY <1>25 DEF run_channel
<1>26. CASE Stop
  BY <1>26 DEF Stop
<1>27. CASE session
  BY <1>27 DEF session, Channel
<1>28. CASE CpChallenge
  BY <1>28 DEF CpChallenge, Channel
<1>29. CASE authenticate
  BY <1>29 DEF authenticate, Channel
<1>30. CASE CpVerify
  BY <1>30 DEF CpVerify, back_off, Channel
<1>31. CASE CpActivate
  BY <1>31 DEF CpActivate, Channel
<1>32. CASE LinkDrops
  BY <1>32 DEF LinkDrops, back_off, Channel
<1>33. CASE expect_message_hangs
  BY <1>33 DEF expect_message_hangs, Channel
<1>34. CASE SessionEnds
  BY <1>34 DEF SessionEnds, back_off, Channel
<1>35. ASSUME NEW n \in NodeIds, CpHeartbeatTimeout(n)
      PROVE  (key \in Keys /\ key' \in Keys /\ key' # key => <<meta.node, key'>> \in accepted)
  BY <1>35 DEF CpHeartbeatTimeout, disconnect
<1>36. CASE UNCHANGED vars
  BY <1>36 DEF vars
<1> QED
  BY <1>1, <1>2, <1>3, <1>4, <1>5, <1>6, <1>7, <1>8, <1>9, <1>10, <1>11, <1>12, <1>13,
     <1>14, <1>15, <1>16, <1>17, <1>18, <1>19, <1>20, <1>21, <1>22, <1>23, <1>24,
     <1>25, <1>26, <1>27, <1>28, <1>29, <1>30, <1>31, <1>32, <1>33, <1>34, <1>35,
     <1>36
  DEF Next, Commands, ControlPlane, Daemon, Handshake


\* The invariant is one.
LEMMA Invariance == Spec => []IInv
<1>1. Init => IInv
  <2> SUFFICES ASSUME Init PROVE IInv
    OBVIOUS
  <2> USE BoundFacts, ValueFacts, AbsentFacts DEF Init
  <2>1. DiskOK
    <3>1. meta \in [fp : Keys \union {None, Torn}, node : NodeIds \union {None}]
      BY DEF NoMeta
    <3>2. countVars \in Nat \X Nat \X Nat \X Nat
      BY DEF countVars
    <3>3. drawn \in 0 .. MaxKeys /\ minted \in Nat
      OBVIOUS
    <3>5. socket \in BOOLEAN
      OBVIOUS
    <3>4. key \in Keys \union {None, Torn} /\ cfg \in {"unset", "set", "refused", "torn"}
      OBVIOUS
    <3> QED
      BY <3>1, <3>2, <3>3, <3>4, <3>5 DEF DiskOK
  <2>2. nodes \in Seq(NodeRow) /\ Len(nodes) = 1 /\ DOMAIN nodes = {1}
    BY DEF NodeRow
  <2>3. RowsOK
    BY <2>2 DEF RowsOK, NodeRow
  <2>4. TypeOK
    BY <2>1, <2>3, TypeParts
  <2>5. CountInv
    BY <2>2, <2>3, UsedFacts DEF CountInv
  <2>6. TokenInv /\ MintInv /\ AnswerInv /\ HelloInv
    BY DEF TokenInv, MintInv, AnswerInv, HelloInv
  <2>7. NeverMintsOver /\ OneNodePerKey /\ SupersededSessionRaced
    BY <2>2 DEF NeverMintsOver, OneNodePerKey, SupersededSessionRaced
  <2> QED
    BY <2>4, <2>5, <2>6, <2>7 DEF IInv
<1>2. IInv /\ [Next]_vars => IInv'
  <2> SUFFICES ASSUME IInv, [Next]_vars PROVE IInv'
    OBVIOUS
  <2>1. /\ cli \in Commandline /\ daemon \in Running /\ hello \in Greeting /\ request \in Asked
        /\ DiskOK /\ RowsOK
    BY TypeParts DEF IInv
  <2> QED
    BY <2>1, TypeOKStep, CountStep, TokenStep, MintStep, AnswerStep, HelloStep, OneNodeStep,
       SupersededStep DEF IInv
<1> QED
  BY <1>1, <1>2, PTL DEF Spec

\* Files, rows, sessions and commands keep their types, wherever a command dies.
THEOREM TypeCorrectness == Spec => []TypeOK
BY Invariance, PTL DEF IInv

\* NodeIdentity::load_or_create draws one identity for a host, ever.
THEOREM IdentityIsMintedOnce == Spec => []NeverMintsOver
BY Invariance, PTL DEF IInv

\* enroll and rotateIdentity of the Control Plane: no two active Nodes with one
\* key.
THEOREM KeysIdentifyNodes == Spec => []OneNodePerKey
BY Invariance, PTL DEF IInv

\* NodeChannel: a session of a superseded key or a revoked Node was activated by
\* a handshake that the change overtook.
THEOREM SupersededSessionsAreRaced == Spec => []SupersededSessionRaced
BY Invariance, PTL DEF IInv

\* `node rotate-identity`: the key on disk stays until the Control Plane has
\* accepted the replacement.
THEOREM KeyIsKeptUntilAccepted == Spec => KeyKeptUntilAccepted
<1>1. IInv /\ [Next]_vars
        => [(key \in Keys /\ key' \in Keys /\ key' # key) => <<meta.node, key'>> \in accepted]_vars
  BY KeyStep DEF IInv
<1> QED
  BY <1>1, Invariance, PTL DEF Spec, KeyKeptUntilAccepted
=============================================================================
