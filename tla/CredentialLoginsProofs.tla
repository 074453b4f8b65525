----------------------- MODULE CredentialLoginsProofs -----------------------
(***************************************************************************)
(* TLAPS proofs about CredentialLogins, for any credentials, projects and  *)
(* bounds.                                                                 *)
(*                                                                         *)
(* The argument follows every material from the login that makes it to the *)
(* home it ends in (WhereInv).  A login that has not ended has made        *)
(* nothing (FreshInv); what it makes is first in the attempt (StagedInv),  *)
(* then parked (ParkedInv), then in the hands of the loop (SwapInv), and   *)
(* in each place it is nowhere else.  What is parked may be overtaken, but *)
(* then the generation has moved past it, and that is what Apply looks at. *)
(* ReportInv adds that no material is accepted twice: a report that was    *)
(* true of a generation stays true of it.                                  *)
(***************************************************************************)
EXTENDS CredentialLogins, TLAPS

\* What is parked, what a reader has yet to say, what the loop is doing, and a
\* run.
ParkedRow == [cred : Credentials \union {NoCredential}, gen : Nat, mat : Materials]
LateRow == [cred : Credentials, replacing : BOOLEAN, state : CredentialState \union {"unread"}]
LoopRow ==
  [op : {"idle", "mark", "list", "swap", "accept"},
   cred : Credentials \union {NoCredential}, mat : Materials,
   state : CredentialState,
   verdicts : [Credentials -> CredentialState \union {"same"}]]
RunRow ==
  [pc : {"none", "checked", "active", "ended", "dead"},
   cred : Credentials \union {NoCredential}, gen : Nat]

CredentialType ==
  /\ cstate \in [Credentials -> CredentialState \union {"absent"}]
  /\ generation \in [Credentials -> Nat]
  /\ live \in [Credentials -> Materials]
  /\ accepted \in [Credentials -> Materials]
  /\ dead \subseteq Materials
LoginType ==
  /\ logins \in Materials /\ agen \in Nat
  /\ attempt \in Attempts /\ parked \in ParkedRow
  /\ superseded \subseteq Materials
LateType == late \subseteq LateRow
LoopType == loop \in LoopRow /\ (loop.op \in {"mark", "swap", "accept"} => loop.cred \in Credentials)
RunType == run \in [Projects -> RunRow] /\ assigned \in [Projects -> Credentials \union {NoCredential}]
CountType == session \in BOOLEAN /\ runs \in Nat /\ faults \in Nat

\* Whatever names a credential in the middle of something names one this Node
\* holds.
AttemptName ==
  /\ attempt.phase # "none" => attempt.cred \in Credentials
  /\ attempt.reauth => attempt.phase # "none"
ParkedName == parked # NoParked => parked.cred \in Credentials
RunName == \A p \in Projects : run[p].pc # "none" => run[p].cred \in Credentials
NameInv == AttemptName /\ ParkedName /\ RunName

\* Material m is in a home, was accepted, or was thrown away.
Placed(m) == \E c \in Credentials : m \in {live[c], accepted[c]}

\* No material is of a login that was not begun.
BoundInv ==
  /\ \A m \in superseded : m <= logins
  /\ \A c \in Credentials : live[c] <= logins /\ accepted[c] <= logins
  /\ parked.mat <= logins /\ loop.mat <= logins /\ attempt.mat <= logins
  /\ 0 \notin superseded

\* A login that has not ended has produced nothing so far.
FreshInv ==
  InFlight =>
    /\ logins # 0 /\ attempt.mat = 0
    /\ logins \notin superseded /\ ~Placed(logins) /\ logins \notin {parked.mat, loop.mat}

\* What a replacement produced is nowhere else while it waits to be settled.
StagedInv ==
  attempt.reauth /\ attempt.mat # 0 =>
    /\ attempt.mat \notin superseded /\ ~Placed(attempt.mat)
    /\ attempt.mat \notin {parked.mat, loop.mat}

\* What is parked is nowhere else, and was not overtaken while its generation
\* is the current one.
ParkedInv ==
  /\ parked.mat # 0 => ~Placed(parked.mat) /\ parked.mat # loop.mat
  /\ parked.gen <= agen
  /\ parked.gen = agen => parked.mat \notin superseded

\* What is being put in place was neither overtaken nor there before.
SwapInv ==
  loop.op = "swap" => loop.mat # 0 /\ loop.mat \notin superseded /\ ~Placed(loop.mat)

\* A report is about a generation the credential reached, and if that is still
\* the one and what is in place was accepted, it is what the runtime wrote off.
ReportInv ==
  \A p \in Projects :
    LET c == run[p].cred IN
    /\ run[p].pc \in {"active", "ended", "dead"} => run[p].gen <= generation[c]
    /\ /\ run[p].pc = "dead" /\ run[p].gen = generation[c]
       /\ live[c] # 0 /\ live[c] = accepted[c]
       => live[c] \in dead

\* The parts are the whole.
LEMMA TypeParts ==
  TypeOK <=> CredentialType /\ LoginType /\ LateType /\ LoopType /\ RunType /\ CountType
BY DEF TypeOK, CredentialType, LoginType, LateType, LoopType, RunType, CountType, ParkedRow, LateRow,
       LoopRow, RunRow

\* Nothing in flight, nothing parked, nothing to do.
LEMMA NothingFacts ==
  /\ 0 \in Materials
  /\ NoAttempt \in Attempts /\ NoAttempt.phase = "none" /\ NoAttempt.reauth = FALSE /\ NoAttempt.mat = 0
  /\ NoParked \in ParkedRow /\ NoParked.mat = 0 /\ NoParked.gen = 0
  /\ Idle \in LoopRow /\ Idle.op = "idle" /\ Idle.mat = 0
  /\ NoRun \in RunRow /\ NoRun.pc = "none"
<1>1. MaxLogins \in Nat
  BY BoundsAssumption
<1>2. 0 \in Materials
  BY <1>1 DEF Materials
<1> QED
  BY <1>2 DEF NoAttempt, Attempts, NoParked, ParkedRow, Idle, LoopRow, NoRun, RunRow, CredentialState

\* States, and what the runtime's record justifies.
LEMMA StateFacts ==
  /\ \A m : runtime_state(m) \in CredentialState
  /\ "failed" \in CredentialState /\ "authorizing" \in CredentialState
  /\ "reauthorizing" \in CredentialState /\ "revoked" \in CredentialState
  /\ "authorized" \in CredentialState /\ "reauthorization_required" \in CredentialState
  /\ "absent" \notin CredentialState /\ "unread" \notin CredentialState
BY DEF runtime_state, CredentialState

\* What a mark writes.
LEMMA MarkFacts ==
  ASSUME NEW c \in Credentials, NEW s \in CredentialState
  PROVE  /\ Mark(c, s) \in LoopRow /\ Mark(c, s).op = "mark" /\ Mark(c, s).cred = c
         /\ Mark(c, s).mat = 0
BY NothingFacts DEF Mark, LoopRow, Idle

\* What a replacement that is thrown away adds.
LEMMA LostFacts ==
  ASSUME LoginType
  PROVE  /\ Lost(attempt) \subseteq Materials
         /\ \A m \in Lost(attempt) : m = attempt.mat /\ m # 0 /\ attempt.reauth
BY DEF LoginType, Attempts, Lost

\* The number of a login that is begun.
LEMMA NextLogin ==
  ASSUME logins \in Materials, logins < MaxLogins
  PROVE  logins + 1 \in Materials
<1>1. MaxLogins \in Nat
  BY BoundsAssumption
<1> QED
  BY <1>1 DEF Materials

\* What begin_login does.
LEMMA BeginEffect ==
  ASSUME LoginType, NEW c \in Credentials, NEW reauth \in BOOLEAN, NEW started \in BOOLEAN,
         begin_login(c, reauth, started)
  PROVE  /\ LoginType'
         /\ agen' = agen + 1 /\ logins' = logins + 1 /\ parked' = parked
         /\ superseded' = superseded \union Lost(attempt) \union ({parked.mat} \ {0})
         /\ attempt'.mat = 0 /\ attempt'.cred \in {c, NoCredential}
         /\ attempt'.phase # "none" => attempt'.cred = c
         /\ attempt'.reauth => attempt'.phase # "none"
<1>1. logins + 1 \in Materials
  BY NextLogin DEF begin_login, LoginType
<1>2. agen + 1 \in Nat /\ 0 \in Materials
  BY NothingFacts DEF LoginType
<1>3. spawn_login(c, reauth, agen + 1) \in Attempts
  BY <1>2 DEF spawn_login, Attempts
<1>4. /\ spawn_login(c, reauth, agen + 1).mat = 0 /\ spawn_login(c, reauth, agen + 1).cred = c
      /\ spawn_login(c, reauth, agen + 1).phase = "producing"
  BY DEF spawn_login
<1>5. NoAttempt.cred = NoCredential
  BY DEF NoAttempt
<1>6. superseded' \subseteq Materials
  BY LostFacts DEF begin_login, LoginType, ParkedRow
<1>7. attempt' \in Attempts
  BY <1>3, NothingFacts DEF begin_login
<1>8. LoginType'
  BY <1>1, <1>2, <1>6, <1>7 DEF begin_login, LoginType
<1>9. /\ attempt'.mat = 0 /\ attempt'.cred \in {c, NoCredential}
      /\ attempt'.phase # "none" => attempt'.cred = c
      /\ attempt'.reauth => attempt'.phase # "none"
  BY <1>4, <1>5, NothingFacts DEF begin_login
<1> QED
  BY <1>8, <1>9 DEF begin_login

\* What abandon_attempt does.
LEMMA AbandonEffect ==
  ASSUME LoginType, abandon_attempt
  PROVE  /\ LoginType'
         /\ attempt' = NoAttempt /\ parked' = parked /\ logins' = logins
         /\ agen' \in {agen, agen + 1}
         /\ superseded' = superseded \union Lost(attempt)
         /\ agen' = agen => superseded' = superseded
<1>1. agen \in Nat /\ agen + 1 # agen
  BY DEF LoginType
<1>2. superseded' \subseteq Materials
  BY LostFacts DEF abandon_attempt, LoginType
<1>3. agen' = agen => Lost(attempt) = {}
  BY <1>1 DEF abandon_attempt, Lost
<1> QED
  BY <1>1, <1>2, <1>3, NothingFacts DEF abandon_attempt, LoginType

\* What settle_attempt does: nothing, park a replacement, or drop the attempt.
Parks ==
  /\ attempt.reauth /\ attempt.gen = agen /\ attempt' = NoAttempt
  /\ parked'.mat = attempt.mat /\ parked'.gen = attempt.gen /\ parked'.cred = attempt.cred
  /\ superseded' = superseded \union ({parked.mat} \ {0})
Drops ==
  /\ attempt' = NoAttempt /\ parked' = parked
  /\ superseded' = superseded \union Lost(attempt)

LEMMA SettleEffect ==
  ASSUME LoginType, settle_attempt, UNCHANGED <<agen, logins>>
  PROVE  LoginType' /\ (UNCHANGED <<attempt, parked, superseded>> \/ Parks \/ Drops)
<1>1. CASE UNCHANGED <<attempt, parked, superseded>>
  BY <1>1 DEF LoginType
<1>2. CASE /\ attempt.reauth /\ attempt.gen = agen /\ attempt' = NoAttempt
           /\ parked' = [cred |-> attempt.cred, gen |-> attempt.gen, mat |-> attempt.mat]
           /\ superseded' = superseded \union ({parked.mat} \ {0})
  <2>1. parked' \in ParkedRow
    BY <1>2 DEF LoginType, Attempts, ParkedRow
  <2>2. superseded' \subseteq Materials
    BY <1>2 DEF LoginType, ParkedRow
  <2>3. Parks
    BY <1>2 DEF Parks
  <2> QED
    BY <1>2, <2>1, <2>2, <2>3, NothingFacts DEF LoginType
<1>3. CASE Drops
  BY <1>3, LostFacts, NothingFacts DEF Drops, LoginType
<1> QED
  BY <1>1, <1>2, <1>3 DEF settle_attempt, Drops

\* What Apply takes up: what is parked, or a replacement that ended just now.
LEMMA FinishedFacts ==
  ASSUME LoginType, AttemptName, ParkedName
  PROVE  /\ Finished \in ParkedRow
         /\ Finished # NoParked => Finished.cred \in Credentials
         /\ \/ Finished = parked
            \/ attempt.reauth /\ attempt.ended /\ Finished.mat = attempt.mat /\ Finished.gen = agen
<1>1. CASE Finished = parked
  BY <1>1 DEF LoginType, ParkedName
<1>2. CASE /\ attempt.reauth /\ attempt.ended /\ attempt.gen = agen
           /\ Finished = [cred |-> attempt.cred, gen |-> attempt.gen, mat |-> attempt.mat]
  BY <1>2 DEF LoginType, Attempts, ParkedRow, AttemptName
<1> QED
  BY <1>1, <1>2 DEF Finished

\* What Apply does: it goes to the swap, or marks what the home still holds.
Dropped == ({parked.mat} \union Lost(attempt)) \ {Finished.mat, 0}
GoesToSwap ==
  /\ Finished.gen = agen /\ Finished.mat # 0
  /\ \A p \in Projects : assigned[p] = Finished.cred => NoActiveRun(p)
  /\ loop'.op = "swap" /\ loop'.cred = Finished.cred /\ loop'.mat = Finished.mat
  /\ superseded' = superseded \union Dropped
GoesToMark ==
  /\ loop'.op = "mark" /\ loop'.cred = Finished.cred /\ loop'.mat = 0
  /\ superseded' = superseded \union Dropped \union ({Finished.mat} \ {0})

LEMMA ApplyEffect ==
  ASSUME LoginType, AttemptName, ParkedName, Apply
  PROVE  /\ LoginType' /\ loop' \in LoopRow /\ loop'.cred \in Credentials
         /\ attempt' = IF attempt.reauth /\ attempt.ended THEN NoAttempt ELSE attempt
         /\ parked' = NoParked /\ UNCHANGED <<agen, logins, live, accepted>>
         /\ GoesToSwap \/ GoesToMark
<1> DEFINE f == Finished
<1>1. f \in ParkedRow /\ f.cred \in Credentials /\ f.mat \in Materials
  BY FinishedFacts DEF Apply, ParkedRow
<1>2. Dropped \subseteq Materials
  BY LostFacts DEF Dropped, LoginType, ParkedRow
<1>3. superseded' \subseteq Materials
  <2>1. superseded' \in {superseded \union Dropped, superseded \union Dropped \union ({f.mat} \ {0})}
    BY DEF Apply, Dropped
  <2> QED
    BY <1>1, <1>2, <2>1 DEF LoginType
<1>4. /\ attempt' = IF attempt.reauth /\ attempt.ended THEN NoAttempt ELSE attempt
      /\ parked' = NoParked /\ UNCHANGED <<agen, logins, live, accepted>>
  BY DEF Apply
<1>5. LoginType'
  BY <1>3, <1>4, NothingFacts DEF LoginType
<1> HIDE DEF f
<1>6. CASE /\ f.gen = agen /\ MayReplace(f)
           /\ loop' = [Idle EXCEPT !.op = "swap", !.cred = f.cred, !.mat = f.mat]
           /\ superseded' = superseded \union Dropped
  <2>1. f.mat # 0
    BY <1>6 DEF MayReplace, accept_staged, verdict
  <2>2. loop' \in LoopRow /\ loop'.op = "swap" /\ loop'.cred = f.cred /\ loop'.mat = f.mat
    BY <1>1, <1>6, NothingFacts DEF LoopRow
  <2> QED
    BY <1>1, <1>4, <1>5, <1>6, <2>1, <2>2 DEF GoesToSwap, MayReplace, f
<1>7. CASE /\ loop' = Mark(f.cred, runtime_state(live[f.cred]))
           /\ superseded' = superseded \union Dropped \union ({f.mat} \ {0})
  <2>1. /\ loop' \in LoopRow /\ loop'.op = "mark" /\ loop'.cred = f.cred /\ loop'.mat = 0
    BY <1>1, <1>7, StateFacts, MarkFacts
  <2> QED
    BY <1>1, <1>4, <1>5, <1>7, <2>1 DEF GoesToMark, f
<1> QED
  BY <1>6, <1>7 DEF Apply, Dropped, f

\* Where a cancellation goes.
LEMMA CancelEffect ==
  ASSUME NEW c \in Credentials, loop' = Cancelled(c)
  PROVE  loop' \in LoopRow /\ loop'.op = "mark" /\ loop'.cred = c /\ loop'.mat = 0
<1>1. PICK s \in CredentialState : loop' = Mark(c, s)
  BY StateFacts DEF Cancelled
<1> QED
  BY <1>1, MarkFacts

\* Every step leaves credentials.
LEMMA CredentialTypeStep ==
  TypeOK /\ NameInv /\ [Next]_vars => CredentialType'
<1> SUFFICES ASSUME TypeOK, NameInv, [Next]_vars
             PROVE  CredentialType'
  OBVIOUS
<1> USE TypeParts, NothingFacts
<1> USE DEF CredentialType, loginVars, countVars
<1>1. CASE ReaderCode
  BY <1>1 DEF ReaderCode, CodePrinted
<1>2. CASE ReaderGivesUp
  BY <1>2 DEF ReaderGivesUp
<1>3. ASSUME NEW r \in late, ReaderReads(r)
      PROVE  CredentialType'
  BY <1>3 DEF ReaderReads
<1>4. ASSUME NEW r \in late, ReaderMarks(r)
      PROVE  CredentialType'
  <2>1. r.cred \in Credentials /\ r.state \in CredentialState
    BY <1>4 DEF LateType, LateRow, ReaderMarks
  <2> QED
    BY <1>4, <2>1 DEF ReaderMarks
<1>5. ASSUME NEW b \in BOOLEAN, LoginEnds(b)
      PROVE  CredentialType'
  <2>1. attempt.cred \in Credentials /\ logins \in Materials
    BY <1>5 DEF LoginEnds, NameInv, AttemptName, LoginType
  <2>2. live' \in [Credentials -> Materials]
    BY <1>5, <2>1 DEF LoginEnds
  <2> QED
    BY <1>5, <2>2 DEF LoginEnds
<1>6. ASSUME NEW c \in Credentials, authorize_credential(c)
      PROVE  CredentialType'
  <2>1. cstate' \in [Credentials -> CredentialState \union {"absent"}]
    BY <1>6, StateFacts DEF authorize_credential
  <2> QED
    BY <1>6, <2>1 DEF authorize_credential
<1>7. ASSUME NEW c \in Credentials, reauthorize_credential(c)
      PROVE  CredentialType'
  <2>1. runtime_state(live[c]) \in CredentialState
    BY StateFacts
  <2>2. cstate' \in [Credentials -> CredentialState \union {"absent"}]
    BY <1>7, <2>1, StateFacts DEF reauthorize_credential
  <2> QED
    BY <1>7, <2>2 DEF reauthorize_credential
<1>8. ASSUME NEW c \in Credentials, cancel_credential(c)
      PROVE  CredentialType'
  BY <1>8 DEF cancel_credential, Command, Ready, abandon_attempt, Cancelled, Mark
<1>9. ASSUME NEW c \in Credentials, revoke_credential(c)
      PROVE  CredentialType'
  <2>1. cstate' \in [Credentials -> CredentialState \union {"absent"}]
    BY <1>9, StateFacts DEF revoke_credential
  <2>2. live' \in [Credentials -> Materials]
    BY <1>9 DEF revoke_credential
  <2> QED
    BY <1>9, <2>1, <2>2 DEF revoke_credential
<1>10. CASE provider_cancel
  BY <1>10 DEF provider_cancel, Command, Ready, abandon_attempt
<1>11. CASE LoopMarks
  <2>1. loop.cred \in Credentials /\ loop.state \in CredentialState
    BY <1>11 DEF LoopType, LoopRow, LoopMarks
  <2> QED
    BY <1>11, <2>1 DEF LoopMarks
<1>12. CASE ListJudges
  BY <1>12 DEF ListJudges, Command, Ready, settle_attempt, FinishedFirst
<1>13. CASE ListWrites
  <2>1. loop.verdicts \in [Credentials -> CredentialState \union {"same"}]
    BY DEF LoopType, LoopRow
  <2>2. cstate' \in [Credentials -> CredentialState \union {"absent"}]
    BY <1>13, <2>1, StateFacts DEF ListWrites
  <2> QED
    BY <1>13, <2>2 DEF ListWrites
<1>14. ASSUME NEW p \in Projects, NEW d \in Credentials \union {NoCredential}, assign_credential(p, d)
      PROVE  CredentialType'
  BY <1>14 DEF assign_credential, Command, Ready, usable, NoActiveRun
<1>15. CASE Apply
  BY <1>15 DEF Apply, Ready, Finished, Mark
<1>16. CASE SwapSucceeds
  <2>1. loop.mat \in Materials
    BY DEF LoopType, LoopRow
  <2> QED
    BY <1>16, <2>1 DEF SwapSucceeds
<1>17. CASE SwapFails
  <2>1. loop.mat \in Materials
    BY DEF LoopType, LoopRow
  <2>2. live' \in [Credentials -> Materials]
    BY <1>17, <2>1 DEF SwapFails
  <2> QED
    BY <1>17, <2>2 DEF SwapFails
<1>18. CASE accept_reauthorization
  <2>1. loop.mat \in Materials /\ loop.cred \in Credentials
    BY <1>18 DEF LoopType, LoopRow, accept_reauthorization
  <2>2. cstate' \in [Credentials -> CredentialState \union {"absent"}]
    BY <1>18, StateFacts DEF accept_reauthorization
  <2>3. accepted' \in [Credentials -> Materials] /\ generation' \in [Credentials -> Nat]
    BY <1>18, <2>1 DEF accept_reauthorization
  <2> QED
    BY <1>18, <2>2, <2>3 DEF accept_reauthorization
<1>19. CASE Deliver
  BY <1>19 DEF Deliver, Ready, Deliverable
<1>20. CASE Acknowledge
  BY <1>20 DEF Acknowledge, Command, Ready
<1>21. CASE DeliveryTimeout
  BY <1>21 DEF DeliveryTimeout, Command, Ready, Undelivered, abandon_attempt, Cancelled, Mark
<1>22. CASE SessionEnds
  BY <1>22 DEF SessionEnds, Command, Ready, Undelivered, abandon_attempt, Cancelled, Mark
<1>23. CASE SessionStarts
  BY <1>23 DEF SessionStarts
<1>24. ASSUME NEW p \in Projects, RunChecks(p)
      PROVE  CredentialType'
  BY <1>24 DEF RunChecks, usable
<1>25. ASSUME NEW p \in Projects, RunStarts(p)
      PROVE  CredentialType'
  BY <1>25 DEF RunStarts, Changing
<1>26. ASSUME NEW p \in Projects, RuntimeWritesOff(p)
      PROVE  CredentialType'
  <2>1. run[p].cred \in Credentials
    BY <1>26 DEF RuntimeWritesOff, NameInv, RunName
  <2> QED
    BY <1>26, <2>1 DEF RuntimeWritesOff
<1>27. ASSUME NEW p \in Projects, RunEnds(p)
      PROVE  CredentialType'
  BY <1>27 DEF RunEnds
<1>28. ASSUME NEW p \in Projects, RunAsks(p)
      PROVE  CredentialType'
  BY <1>28 DEF RunAsks
<1>29. ASSUME NEW p \in Projects, report_grant_dead(p)
      PROVE  CredentialType'
  <2>1. cstate' \in [Credentials -> CredentialState \union {"absent"}]
    BY <1>29, StateFacts DEF report_grant_dead
  <2> QED
    BY <1>29, <2>1 DEF report_grant_dead
<1>30. CASE Crash
  BY <1>30 DEF Crash
<1>31. CASE UNCHANGED vars
  BY <1>31 DEF vars
<1> QED
  BY <1>1, <1>2, <1>3, <1>4, <1>5, <1>6, <1>7, <1>8, <1>9, <1>10, <1>11, <1>12, <1>13,
     <1>14, <1>15, <1>16, <1>17, <1>18, <1>19, <1>20, <1>21, <1>22, <1>23, <1>24,
     <1>25, <1>26, <1>27, <1>28, <1>29, <1>30, <1>31
  DEF Next

\* Every step leaves attempts.
LEMMA LoginTypeStep ==
  TypeOK /\ NameInv /\ [Next]_vars => LoginType'
<1> SUFFICES ASSUME TypeOK, NameInv, [Next]_vars
             PROVE  LoginType'
  OBVIOUS
<1> USE TypeParts, NothingFacts
<1> USE DEF loginVars, countVars
<1>1. CASE ReaderCode
  <2>1. attempt' \in Attempts
    BY <1>1 DEF ReaderCode, LoginType, Attempts
  <2> QED
    BY <1>1, <2>1 DEF ReaderCode, LoginType
<1>2. CASE ReaderGivesUp
  BY <1>2 DEF ReaderGivesUp, LoginType
<1>3. ASSUME NEW r \in late, ReaderReads(r)
      PROVE  LoginType'
  BY <1>3 DEF ReaderReads, LoginType
<1>4. ASSUME NEW r \in late, ReaderMarks(r)
      PROVE  LoginType'
  BY <1>4 DEF ReaderMarks, LoginType
<1>5. ASSUME NEW b \in BOOLEAN, LoginEnds(b)
      PROVE  LoginType'
  <2>1. (IF b THEN logins ELSE 0) \in Materials
    BY DEF LoginType
  <2>2. attempt' \in Attempts
    BY <1>5, <2>1 DEF LoginEnds, LoginType, Attempts
  <2> QED
    BY <1>5, <2>2 DEF LoginEnds, LoginType
<1>6. ASSUME NEW c \in Credentials, authorize_credential(c)
      PROVE  LoginType'
  <2>1. PICK started \in BOOLEAN : begin_login(c, FALSE, started)
    BY <1>6 DEF authorize_credential
  <2> QED
    BY <2>1, BeginEffect
<1>7. ASSUME NEW c \in Credentials, reauthorize_credential(c)
      PROVE  LoginType'
  <2>1. PICK started \in BOOLEAN : begin_login(c, TRUE, started)
    BY <1>7 DEF reauthorize_credential
  <2> QED
    BY <2>1, BeginEffect
<1>8. ASSUME NEW c \in Credentials, cancel_credential(c)
      PROVE  LoginType'
  BY <1>8, AbandonEffect DEF cancel_credential
<1>9. ASSUME NEW c \in Credentials, revoke_credential(c)
      PROVE  LoginType'
  <2>1. CASE abandon_attempt
    BY <2>1, AbandonEffect
  <2>2. CASE UNCHANGED <<loginVars, superseded>>
    BY <2>2 DEF LoginType
  <2> QED
    BY <1>9, <2>1, <2>2 DEF revoke_credential
<1>10. CASE provider_cancel
  BY <1>10, AbandonEffect DEF provider_cancel
<1>11. CASE LoopMarks
  BY <1>11 DEF LoopMarks, LoginType
<1>12. CASE ListJudges
  BY <1>12, SettleEffect DEF ListJudges
<1>13. CASE ListWrites
  BY <1>13 DEF ListWrites, LoginType
<1>14. ASSUME NEW p \in Projects, NEW d \in Credentials \union {NoCredential}, assign_credential(p, d)
      PROVE  LoginType'
  BY <1>14 DEF assign_credential, Command, Ready, usable, NoActiveRun, LoginType
<1>15. CASE Apply
  BY <1>15, ApplyEffect DEF NameInv
<1>16. CASE SwapSucceeds
  BY <1>16 DEF SwapSucceeds, LoginType
<1>17. CASE SwapFails
  BY <1>17 DEF SwapFails, Mark, LoginType
<1>18. CASE accept_reauthorization
  BY <1>18 DEF accept_reauthorization, LoginType
<1>19. CASE Deliver
  <2>1. attempt' \in Attempts
    BY <1>19 DEF Deliver, LoginType, Attempts
  <2> QED
    BY <1>19, <2>1 DEF Deliver, LoginType
<1>20. CASE Acknowledge
  <2>1. attempt' \in Attempts
    BY <1>20 DEF Acknowledge, LoginType, Attempts
  <2> QED
    BY <1>20, <2>1 DEF Acknowledge, LoginType
<1>21. CASE DeliveryTimeout
  BY <1>21, AbandonEffect DEF DeliveryTimeout
<1>22. CASE SessionEnds
  <2>1. CASE abandon_attempt
    BY <2>1, AbandonEffect
  <2>2. CASE UNCHANGED <<loginVars, superseded>>
    BY <2>2 DEF LoginType
  <2> QED
    BY <1>22, <2>1, <2>2 DEF SessionEnds
<1>23. CASE SessionStarts
  BY <1>23 DEF SessionStarts, LoginType
<1>24. ASSUME NEW p \in Projects, RunChecks(p)
      PROVE  LoginType'
  BY <1>24 DEF RunChecks, usable, LoginType
<1>25. ASSUME NEW p \in Projects, RunStarts(p)
      PROVE  LoginType'
  BY <1>25 DEF RunStarts, Changing, LoginType
<1>26. ASSUME NEW p \in Projects, RuntimeWritesOff(p)
      PROVE  LoginType'
  BY <1>26 DEF RuntimeWritesOff, LoginType
<1>27. ASSUME NEW p \in Projects, RunEnds(p)
      PROVE  LoginType'
  BY <1>27 DEF RunEnds, LoginType
<1>28. ASSUME NEW p \in Projects, RunAsks(p)
      PROVE  LoginType'
  BY <1>28 DEF RunAsks, LoginType
<1>29. ASSUME NEW p \in Projects, report_grant_dead(p)
      PROVE  LoginType'
  BY <1>29 DEF report_grant_dead, LoginType
<1>30. CASE Crash
  <2>1. superseded' \subseteq Materials
    BY <1>30, LostFacts DEF Crash, LoginType, ParkedRow
  <2> QED
    BY <1>30, <2>1 DEF Crash, LoginType
<1>31. CASE UNCHANGED vars
  BY <1>31 DEF vars, LoginType
<1> QED
  BY <1>1, <1>2, <1>3, <1>4, <1>5, <1>6, <1>7, <1>8, <1>9, <1>10, <1>11, <1>12, <1>13,
     <1>14, <1>15, <1>16, <1>17, <1>18, <1>19, <1>20, <1>21, <1>22, <1>23, <1>24,
     <1>25, <1>26, <1>27, <1>28, <1>29, <1>30, <1>31
  DEF Next

\* Every step leaves readers.
LEMMA LateTypeStep ==
  TypeOK /\ NameInv /\ [Next]_vars => LateType'
<1> SUFFICES ASSUME TypeOK, NameInv, [Next]_vars
             PROVE  LateType'
  OBVIOUS
<1> USE TypeParts
<1> USE DEF LateType, loginVars, countVars
<1>1. CASE ReaderCode
  BY <1>1 DEF ReaderCode, CodePrinted
<1>2. CASE ReaderGivesUp
  <2>1. [cred |-> attempt.cred, replacing |-> attempt.reauth, state |-> "unread"] \in LateRow
    BY <1>2 DEF ReaderGivesUp, NameInv, AttemptName, LoginType, Attempts, LateRow
  <2> QED
    BY <1>2, <2>1 DEF ReaderGivesUp
<1>3. ASSUME NEW r \in late, ReaderReads(r)
      PROVE  LateType'
  <2> DEFINE s == IF r.replacing THEN runtime_state(live[r.cred]) ELSE "failed"
  <2>1. s \in CredentialState
    BY StateFacts
  <2> HIDE DEF s
  <2>2. [r EXCEPT !.state = s] \in LateRow
    BY <2>1 DEF LateRow
  <2>3. late' = (late \ {r}) \union {[r EXCEPT !.state = s]}
    BY <1>3 DEF ReaderReads, s
  <2> QED
    BY <2>2, <2>3
<1>4. ASSUME NEW r \in late, ReaderMarks(r)
      PROVE  LateType'
  BY <1>4 DEF ReaderMarks
<1>5. ASSUME NEW b \in BOOLEAN, LoginEnds(b)
      PROVE  LateType'
  BY <1>5 DEF LoginEnds
<1>6. ASSUME NEW c \in Credentials, authorize_credential(c)
      PROVE  LateType'
  BY <1>6 DEF authorize_credential, Command, Ready, begin_login, spawn_login, InFlight
<1>7. ASSUME NEW c \in Credentials, reauthorize_credential(c)
      PROVE  LateType'
  BY <1>7 DEF reauthorize_credential, Command, Ready, begin_login, spawn_login, InFlight,
  reauthorizable
<1>8. ASSUME NEW c \in Credentials, cancel_credential(c)
      PROVE  LateType'
  BY <1>8 DEF cancel_credential, Command, Ready, abandon_attempt, Cancelled, Mark
<1>9. ASSUME NEW c \in Credentials, revoke_credential(c)
      PROVE  LateType'
  BY <1>9 DEF revoke_credential, Command, Ready, abandon_attempt, loginVars
<1>10. CASE provider_cancel
  BY <1>10 DEF provider_cancel, Command, Ready, abandon_attempt
<1>11. CASE LoopMarks
  BY <1>11 DEF LoopMarks
<1>12. CASE ListJudges
  BY <1>12 DEF ListJudges, Command, Ready, settle_attempt, FinishedFirst
<1>13. CASE ListWrites
  BY <1>13 DEF ListWrites
<1>14. ASSUME NEW p \in Projects, NEW d \in Credentials \union {NoCredential}, assign_credential(p, d)
      PROVE  LateType'
  BY <1>14 DEF assign_credential, Command, Ready, usable, NoActiveRun
<1>15. CASE Apply
  BY <1>15 DEF Apply, Ready, Finished, Mark
<1>16. CASE SwapSucceeds
  BY <1>16 DEF SwapSucceeds
<1>17. CASE SwapFails
  BY <1>17 DEF SwapFails, Mark
<1>18. CASE accept_reauthorization
  BY <1>18 DEF accept_reauthorization
<1>19. CASE Deliver
  BY <1>19 DEF Deliver, Ready, Deliverable
<1>20. CASE Acknowledge
  BY <1>20 DEF Acknowledge, Command, Ready
<1>21. CASE DeliveryTimeout
  BY <1>21 DEF DeliveryTimeout, Command, Ready, Undelivered, abandon_attempt, Cancelled, Mark
<1>22. CASE SessionEnds
  BY <1>22 DEF SessionEnds, Command, Ready, Undelivered, abandon_attempt, Cancelled, Mark
<1>23. CASE SessionStarts
  BY <1>23 DEF SessionStarts
<1>24. ASSUME NEW p \in Projects, RunChecks(p)
      PROVE  LateType'
  BY <1>24 DEF RunChecks, usable
<1>25. ASSUME NEW p \in Projects, RunStarts(p)
      PROVE  LateType'
  BY <1>25 DEF RunStarts, Changing
<1>26. ASSUME NEW p \in Projects, RuntimeWritesOff(p)
      PROVE  LateType'
  BY <1>26 DEF RuntimeWritesOff
<1>27. ASSUME NEW p \in Projects, RunEnds(p)
      PROVE  LateType'
  BY <1>27 DEF RunEnds
<1>28. ASSUME NEW p \in Projects, RunAsks(p)
      PROVE  LateType'
  BY <1>28 DEF RunAsks
<1>29. ASSUME NEW p \in Projects, report_grant_dead(p)
      PROVE  LateType'
  BY <1>29 DEF report_grant_dead
<1>30. CASE Crash
  BY <1>30 DEF Crash
<1>31. CASE UNCHANGED vars
  BY <1>31 DEF vars
<1> QED
  BY <1>1, <1>2, <1>3, <1>4, <1>5, <1>6, <1>7, <1>8, <1>9, <1>10, <1>11, <1>12, <1>13,
     <1>14, <1>15, <1>16, <1>17, <1>18, <1>19, <1>20, <1>21, <1>22, <1>23, <1>24,
     <1>25, <1>26, <1>27, <1>28, <1>29, <1>30, <1>31
  DEF Next

\* Every step leaves the loop at something it does.
LEMMA LoopTypeStep ==
  TypeOK /\ NameInv /\ [Next]_vars => LoopType'
<1> SUFFICES ASSUME TypeOK, NameInv, [Next]_vars
             PROVE  LoopType'
  OBVIOUS
<1> USE TypeParts, NothingFacts
<1> USE DEF LoopType, loginVars, countVars
<1>1. CASE ReaderCode
  BY <1>1 DEF ReaderCode, CodePrinted
<1>2. CASE ReaderGivesUp
  BY <1>2 DEF ReaderGivesUp
<1>3. ASSUME NEW r \in late, ReaderReads(r)
      PROVE  LoopType'
  BY <1>3 DEF ReaderReads
<1>4. ASSUME NEW r \in late, ReaderMarks(r)
      PROVE  LoopType'
  BY <1>4 DEF ReaderMarks
<1>5. ASSUME NEW b \in BOOLEAN, LoginEnds(b)
      PROVE  LoopType'
  BY <1>5 DEF LoginEnds
<1>6. ASSUME NEW c \in Credentials, authorize_credential(c)
      PROVE  LoopType'
  BY <1>6 DEF authorize_credential, Command, Ready, begin_login, spawn_login, InFlight
<1>7. ASSUME NEW c \in Credentials, reauthorize_credential(c)
      PROVE  LoopType'
  BY <1>7 DEF reauthorize_credential, Command, Ready, begin_login, spawn_login, InFlight,
  reauthorizable
<1>8. ASSUME NEW c \in Credentials, cancel_credential(c)
      PROVE  LoopType'
  BY <1>8, CancelEffect DEF cancel_credential
<1>9. ASSUME NEW c \in Credentials, revoke_credential(c)
      PROVE  LoopType'
  BY <1>9 DEF revoke_credential, Command, Ready, abandon_attempt, loginVars
<1>10. CASE provider_cancel
  BY <1>10 DEF provider_cancel, Command, Ready, abandon_attempt
<1>11. CASE LoopMarks
  BY <1>11 DEF LoopMarks
<1>12. CASE ListJudges
  <2> DEFINE judged == [k \in Credentials |->
         IF \/ cstate[k] \in {"absent", "revoked"}
            \/ InFlight /\ attempt.cred = k
            \/ runtime_state(live[k]) = cstate[k]
         THEN "same" ELSE runtime_state(live[k])]
  <2>1. judged \in [Credentials -> CredentialState \union {"same"}]
    BY StateFacts
  <2>2. loop' = [Idle EXCEPT !.op = "list", !.cred = FinishedFirst, !.verdicts = judged]
    BY <1>12 DEF ListJudges
  <2> HIDE DEF judged
  <2>3. FinishedFirst \in Credentials \union {NoCredential}
    BY DEF FinishedFirst, LoginType, Attempts
  <2> QED
    BY <2>1, <2>2, <2>3 DEF LoopRow
<1>13. CASE ListWrites
  BY <1>13 DEF ListWrites
<1>14. ASSUME NEW p \in Projects, NEW d \in Credentials \union {NoCredential}, assign_credential(p, d)
      PROVE  LoopType'
  BY <1>14 DEF assign_credential, Command, Ready, usable, NoActiveRun
<1>15. CASE Apply
  BY <1>15, ApplyEffect DEF NameInv
<1>16. CASE SwapSucceeds
  BY <1>16 DEF SwapSucceeds, LoopRow
<1>17. CASE SwapFails
  BY <1>17, MarkFacts, StateFacts DEF SwapFails
<1>18. CASE accept_reauthorization
  BY <1>18 DEF accept_reauthorization
<1>19. CASE Deliver
  BY <1>19 DEF Deliver, Ready, Deliverable
<1>20. CASE Acknowledge
  BY <1>20 DEF Acknowledge, Command, Ready
<1>21. CASE DeliveryTimeout
  <2>1. attempt.cred \in Credentials
    BY <1>21 DEF DeliveryTimeout, Undelivered, NameInv, AttemptName
  <2> QED
    BY <1>21, <2>1, CancelEffect DEF DeliveryTimeout
<1>22. CASE SessionEnds
  <2>1. CASE UNCHANGED loop
    BY <2>1
  <2>2. CASE Undelivered(TRUE) /\ loop' = Cancelled(attempt.cred)
    <3>1. attempt.cred \in Credentials
      BY <2>2 DEF Undelivered, NameInv, AttemptName
    <3> QED
      BY <2>2, <3>1, CancelEffect
  <2> QED
    BY <1>22, <2>1, <2>2 DEF SessionEnds
<1>23. CASE SessionStarts
  BY <1>23 DEF SessionStarts
<1>24. ASSUME NEW p \in Projects, RunChecks(p)
      PROVE  LoopType'
  BY <1>24 DEF RunChecks, usable
<1>25. ASSUME NEW p \in Projects, RunStarts(p)
      PROVE  LoopType'
  BY <1>25 DEF RunStarts, Changing
<1>26. ASSUME NEW p \in Projects, RuntimeWritesOff(p)
      PROVE  LoopType'
  BY <1>26 DEF RuntimeWritesOff
<1>27. ASSUME NEW p \in Projects, RunEnds(p)
      PROVE  LoopType'
  BY <1>27 DEF RunEnds
<1>28. ASSUME NEW p \in Projects, RunAsks(p)
      PROVE  LoopType'
  BY <1>28 DEF RunAsks
<1>29. ASSUME NEW p \in Projects, report_grant_dead(p)
      PROVE  LoopType'
  BY <1>29 DEF report_grant_dead
<1>30. CASE Crash
  BY <1>30 DEF Crash
<1>31. CASE UNCHANGED vars
  BY <1>31 DEF vars
<1> QED
  BY <1>1, <1>2, <1>3, <1>4, <1>5, <1>6, <1>7, <1>8, <1>9, <1>10, <1>11, <1>12, <1>13,
     <1>14, <1>15, <1>16, <1>17, <1>18, <1>19, <1>20, <1>21, <1>22, <1>23, <1>24,
     <1>25, <1>26, <1>27, <1>28, <1>29, <1>30, <1>31
  DEF Next

\* Every step leaves runs.
LEMMA RunTypeStep ==
  TypeOK /\ NameInv /\ [Next]_vars => RunType'
<1> SUFFICES ASSUME TypeOK, NameInv, [Next]_vars
             PROVE  RunType'
  OBVIOUS
<1> USE TypeParts, NothingFacts
<1> USE DEF RunType, loginVars, countVars
<1>1. CASE ReaderCode
  BY <1>1 DEF ReaderCode, CodePrinted
<1>2. CASE ReaderGivesUp
  BY <1>2 DEF ReaderGivesUp
<1>3. ASSUME NEW r \in late, ReaderReads(r)
      PROVE  RunType'
  BY <1>3 DEF ReaderReads
<1>4. ASSUME NEW r \in late, ReaderMarks(r)
      PROVE  RunType'
  BY <1>4 DEF ReaderMarks
<1>5. ASSUME NEW b \in BOOLEAN, LoginEnds(b)
      PROVE  RunType'
  BY <1>5 DEF LoginEnds
<1>6. ASSUME NEW c \in Credentials, authorize_credential(c)
      PROVE  RunType'
  BY <1>6 DEF authorize_credential, Command, Ready, begin_login, spawn_login, InFlight
<1>7. ASSUME NEW c \in Credentials, reauthorize_credential(c)
      PROVE  RunType'
  BY <1>7 DEF reauthorize_credential, Command, Ready, begin_login, spawn_login, InFlight,
  reauthorizable
<1>8. ASSUME NEW c \in Credentials, cancel_credential(c)
      PROVE  RunType'
  BY <1>8 DEF cancel_credential, Command, Ready, abandon_attempt, Cancelled, Mark
<1>9. ASSUME NEW c \in Credentials, revoke_credential(c)
      PROVE  RunType'
  BY <1>9 DEF revoke_credential, Command, Ready, abandon_attempt, loginVars
<1>10. CASE provider_cancel
  BY <1>10 DEF provider_cancel, Command, Ready, abandon_attempt
<1>11. CASE LoopMarks
  BY <1>11 DEF LoopMarks
<1>12. CASE ListJudges
  BY <1>12 DEF ListJudges, Command, Ready, settle_attempt, FinishedFirst
<1>13. CASE ListWrites
  BY <1>13 DEF ListWrites
<1>14. ASSUME NEW p \in Projects, NEW d \in Credentials \union {NoCredential}, assign_credential(p, d)
      PROVE  RunType'
  BY <1>14 DEF assign_credential, Command, Ready, usable, NoActiveRun
<1>15. CASE Apply
  BY <1>15 DEF Apply, Ready, Finished, Mark
<1>16. CASE SwapSucceeds
  BY <1>16 DEF SwapSucceeds
<1>17. CASE SwapFails
  BY <1>17 DEF SwapFails, Mark
<1>18. CASE accept_reauthorization
  BY <1>18 DEF accept_reauthorization
<1>19. CASE Deliver
  BY <1>19 DEF Deliver, Ready, Deliverable
<1>20. CASE Acknowledge
  BY <1>20 DEF Acknowledge, Command, Ready
<1>21. CASE DeliveryTimeout
  BY <1>21 DEF DeliveryTimeout, Command, Ready, Undelivered, abandon_attempt, Cancelled, Mark
<1>22. CASE SessionEnds
  BY <1>22 DEF SessionEnds, Command, Ready, Undelivered, abandon_attempt, Cancelled, Mark
<1>23. CASE SessionStarts
  BY <1>23 DEF SessionStarts
<1>24. ASSUME NEW p \in Projects, RunChecks(p)
      PROVE  RunType'
  <2>1. [NoRun EXCEPT !.pc = "checked", !.cred = assigned[p]] \in RunRow
    BY DEF RunRow
  <2> QED
    BY <1>24, <2>1 DEF RunChecks
<1>25. ASSUME NEW p \in Projects, RunStarts(p)
      PROVE  RunType'
  <2>1. generation[run[p].cred] \in Nat
    BY <1>25 DEF RunStarts, NameInv, RunName, CredentialType
  <2>2. [run[p] EXCEPT !.pc = "active", !.gen = generation[run[p].cred]] \in RunRow
    BY <2>1 DEF RunRow
  <2>3. \/ run' = [run EXCEPT ![p] = NoRun]
        \/ run' = [run EXCEPT ![p] = [run[p] EXCEPT !.pc = "active", !.gen = generation[run[p].cred]]]
    BY <1>25 DEF RunStarts, RunRow
  <2> QED
    BY <1>25, <2>2, <2>3 DEF RunStarts
<1>26. ASSUME NEW p \in Projects, RuntimeWritesOff(p)
      PROVE  RunType'
  BY <1>26 DEF RuntimeWritesOff
<1>27. ASSUME NEW p \in Projects, RunEnds(p)
      PROVE  RunType'
  <2>1. [run[p] EXCEPT !.pc = "ended"] \in RunRow
    BY DEF RunRow
  <2>2. run' = [run EXCEPT ![p] = [run[p] EXCEPT !.pc = "ended"]]
    BY <1>27 DEF RunEnds
  <2> QED
    BY <1>27, <2>1, <2>2 DEF RunEnds
<1>28. ASSUME NEW p \in Projects, RunAsks(p)
      PROVE  RunType'
  <2>1. [run[p] EXCEPT !.pc = "dead"] \in RunRow
    BY DEF RunRow
  <2>2. \/ run' = [run EXCEPT ![p] = NoRun]
        \/ run' = [run EXCEPT ![p] = [run[p] EXCEPT !.pc = "dead"]]
    BY <1>28 DEF RunAsks
  <2> QED
    BY <1>28, <2>1, <2>2 DEF RunAsks
<1>29. ASSUME NEW p \in Projects, report_grant_dead(p)
      PROVE  RunType'
  BY <1>29 DEF report_grant_dead
<1>30. CASE Crash
  <2>1. ASSUME NEW p \in Projects, run[p].pc = "active"
        PROVE  [run[p] EXCEPT !.gen = generation[run[p].cred]] \in RunRow
    <3>1. generation[run[p].cred] \in Nat
      BY <2>1 DEF NameInv, RunName, CredentialType
    <3> QED
      BY <3>1 DEF RunRow
  <2> QED
    BY <1>30, <2>1 DEF Crash
<1>31. CASE UNCHANGED vars
  BY <1>31 DEF vars
<1> QED
  BY <1>1, <1>2, <1>3, <1>4, <1>5, <1>6, <1>7, <1>8, <1>9, <1>10, <1>11, <1>12, <1>13,
     <1>14, <1>15, <1>16, <1>17, <1>18, <1>19, <1>20, <1>21, <1>22, <1>23, <1>24,
     <1>25, <1>26, <1>27, <1>28, <1>29, <1>30, <1>31
  DEF Next

\* Every step leaves counts.
LEMMA CountTypeStep ==
  TypeOK /\ NameInv /\ [Next]_vars => CountType'
<1> SUFFICES ASSUME TypeOK, NameInv, [Next]_vars
             PROVE  CountType'
  OBVIOUS
<1> USE TypeParts
<1> USE DEF CountType, loginVars, countVars
<1>1. CASE ReaderCode
  BY <1>1 DEF ReaderCode, CodePrinted
<1>2. CASE ReaderGivesUp
  BY <1>2 DEF ReaderGivesUp
<1>3. ASSUME NEW r \in late, ReaderReads(r)
      PROVE  CountType'
  BY <1>3 DEF ReaderReads
<1>4. ASSUME NEW r \in late, ReaderMarks(r)
      PROVE  CountType'
  BY <1>4 DEF ReaderMarks
<1>5. ASSUME NEW b \in BOOLEAN, LoginEnds(b)
      PROVE  CountType'
  BY <1>5 DEF LoginEnds
<1>6. ASSUME NEW c \in Credentials, authorize_credential(c)
      PROVE  CountType'
  BY <1>6 DEF authorize_credential, Command, Ready, begin_login, spawn_login, InFlight
<1>7. ASSUME NEW c \in Credentials, reauthorize_credential(c)
      PROVE  CountType'
  BY <1>7 DEF reauthorize_credential, Command, Ready, begin_login, spawn_login, InFlight,
  reauthorizable
<1>8. ASSUME NEW c \in Credentials, cancel_credential(c)
      PROVE  CountType'
  BY <1>8 DEF cancel_credential, Command, Ready, abandon_attempt, Cancelled, Mark
<1>9. ASSUME NEW c \in Credentials, revoke_credential(c)
      PROVE  CountType'
  BY <1>9 DEF revoke_credential, Command, Ready, abandon_attempt, loginVars
<1>10. CASE provider_cancel
  BY <1>10 DEF provider_cancel, Command, Ready, abandon_attempt
<1>11. CASE LoopMarks
  BY <1>11 DEF LoopMarks
<1>12. CASE ListJudges
  BY <1>12 DEF ListJudges, Command, Ready, settle_attempt, FinishedFirst
<1>13. CASE ListWrites
  BY <1>13 DEF ListWrites
<1>14. ASSUME NEW p \in Projects, NEW d \in Credentials \union {NoCredential}, assign_credential(p, d)
      PROVE  CountType'
  BY <1>14 DEF assign_credential, Command, Ready, usable, NoActiveRun
<1>15. CASE Apply
  BY <1>15 DEF Apply, Ready, Finished, Mark
<1>16. CASE SwapSucceeds
  BY <1>16 DEF SwapSucceeds
<1>17. CASE SwapFails
  BY <1>17 DEF SwapFails, Mark
<1>18. CASE accept_reauthorization
  BY <1>18 DEF accept_reauthorization
<1>19. CASE Deliver
  BY <1>19 DEF Deliver, Ready, Deliverable
<1>20. CASE Acknowledge
  BY <1>20 DEF Acknowledge, Command, Ready
<1>21. CASE DeliveryTimeout
  BY <1>21 DEF DeliveryTimeout, Command, Ready, Undelivered, abandon_attempt, Cancelled, Mark
<1>22. CASE SessionEnds
  <2>1. session' \in BOOLEAN
    BY <1>22 DEF SessionEnds
  <2>2. faults' \in Nat /\ UNCHANGED runs
    BY <1>22 DEF SessionEnds
  <2> QED
    BY <2>1, <2>2
<1>23. CASE SessionStarts
  BY <1>23 DEF SessionStarts
<1>24. ASSUME NEW p \in Projects, RunChecks(p)
      PROVE  CountType'
  BY <1>24 DEF RunChecks, usable
<1>25. ASSUME NEW p \in Projects, RunStarts(p)
      PROVE  CountType'
  BY <1>25 DEF RunStarts, Changing
<1>26. ASSUME NEW p \in Projects, RuntimeWritesOff(p)
      PROVE  CountType'
  BY <1>26 DEF RuntimeWritesOff
<1>27. ASSUME NEW p \in Projects, RunEnds(p)
      PROVE  CountType'
  BY <1>27 DEF RunEnds
<1>28. ASSUME NEW p \in Projects, RunAsks(p)
      PROVE  CountType'
  BY <1>28 DEF RunAsks
<1>29. ASSUME NEW p \in Projects, report_grant_dead(p)
      PROVE  CountType'
  BY <1>29 DEF report_grant_dead
<1>30. CASE Crash
  <2>1. session' \in BOOLEAN
    BY <1>30 DEF Crash
  <2>2. faults' \in Nat /\ UNCHANGED runs
    BY <1>30 DEF Crash
  <2> QED
    BY <2>1, <2>2
<1>31. CASE UNCHANGED vars
  BY <1>31 DEF vars
<1> QED
  BY <1>1, <1>2, <1>3, <1>4, <1>5, <1>6, <1>7, <1>8, <1>9, <1>10, <1>11, <1>12, <1>13,
     <1>14, <1>15, <1>16, <1>17, <1>18, <1>19, <1>20, <1>21, <1>22, <1>23, <1>24,
     <1>25, <1>26, <1>27, <1>28, <1>29, <1>30, <1>31
  DEF Next

\* Every step leaves an attempt with its credential.
LEMMA AttemptNameStep ==
  TypeOK /\ NameInv /\ [Next]_vars => AttemptName'
<1> SUFFICES ASSUME TypeOK, NameInv, [Next]_vars
             PROVE  AttemptName'
  OBVIOUS
<1> USE TypeParts, NothingFacts
<1> USE DEF AttemptName, NameInv, loginVars, countVars
<1>1. CASE ReaderCode
  BY <1>1 DEF ReaderCode, CodePrinted, LoginType, Attempts
<1>2. CASE ReaderGivesUp
  BY <1>2 DEF ReaderGivesUp, LoginType, Attempts
<1>3. ASSUME NEW r \in late, ReaderReads(r)
      PROVE  AttemptName'
  BY <1>3 DEF ReaderReads, LoginType, Attempts
<1>4. ASSUME NEW r \in late, ReaderMarks(r)
      PROVE  AttemptName'
  BY <1>4 DEF ReaderMarks, LoginType, Attempts
<1>5. ASSUME NEW b \in BOOLEAN, LoginEnds(b)
      PROVE  AttemptName'
  BY <1>5 DEF LoginEnds, LoginType, Attempts
<1>6. ASSUME NEW c \in Credentials, authorize_credential(c)
      PROVE  AttemptName'
  <2>1. PICK started \in BOOLEAN : begin_login(c, FALSE, started)
    BY <1>6 DEF authorize_credential
  <2> QED
    BY <2>1, BeginEffect
<1>7. ASSUME NEW c \in Credentials, reauthorize_credential(c)
      PROVE  AttemptName'
  <2>1. PICK started \in BOOLEAN : begin_login(c, TRUE, started)
    BY <1>7 DEF reauthorize_credential
  <2> QED
    BY <2>1, BeginEffect
<1>8. ASSUME NEW c \in Credentials, cancel_credential(c)
      PROVE  AttemptName'
  BY <1>8, AbandonEffect DEF cancel_credential
<1>9. ASSUME NEW c \in Credentials, revoke_credential(c)
      PROVE  AttemptName'
  <2>1. CASE abandon_attempt
    BY <2>1, AbandonEffect
  <2>2. CASE UNCHANGED <<loginVars, superseded>>
    BY <2>2
  <2> QED
    BY <1>9, <2>1, <2>2 DEF revoke_credential
<1>10. CASE provider_cancel
  BY <1>10, AbandonEffect DEF provider_cancel
<1>11. CASE LoopMarks
  BY <1>11 DEF LoopMarks, LoginType, Attempts
<1>12. CASE ListJudges
  BY <1>12, SettleEffect DEF ListJudges, Parks, Drops
<1>13. CASE ListWrites
  BY <1>13 DEF ListWrites, LoginType, Attempts
<1>14. ASSUME NEW p \in Projects, NEW d \in Credentials \union {NoCredential}, assign_credential(p, d)
      PROVE  AttemptName'
  BY <1>14 DEF assign_credential, Command, Ready, usable, NoActiveRun, LoginType, Attempts
<1>15. CASE Apply
  BY <1>15, ApplyEffect
<1>16. CASE SwapSucceeds
  BY <1>16 DEF SwapSucceeds, LoginType, Attempts
<1>17. CASE SwapFails
  BY <1>17 DEF SwapFails, Mark, LoginType, Attempts
<1>18. CASE accept_reauthorization
  BY <1>18 DEF accept_reauthorization, LoginType, Attempts
<1>19. CASE Deliver
  BY <1>19 DEF Deliver, Ready, Deliverable, LoginType, Attempts
<1>20. CASE Acknowledge
  BY <1>20 DEF Acknowledge, Command, Ready, LoginType, Attempts
<1>21. CASE DeliveryTimeout
  BY <1>21, AbandonEffect DEF DeliveryTimeout
<1>22. CASE SessionEnds
  <2>1. CASE abandon_attempt
    BY <2>1, AbandonEffect
  <2>2. CASE UNCHANGED <<loginVars, superseded>>
    BY <2>2
  <2> QED
    BY <1>22, <2>1, <2>2 DEF SessionEnds
<1>23. CASE SessionStarts
  BY <1>23 DEF SessionStarts, LoginType, Attempts
<1>24. ASSUME NEW p \in Projects, RunChecks(p)
      PROVE  AttemptName'
  BY <1>24 DEF RunChecks, usable, LoginType, Attempts
<1>25. ASSUME NEW p \in Projects, RunStarts(p)
      PROVE  AttemptName'
  BY <1>25 DEF RunStarts, Changing, LoginType, Attempts
<1>26. ASSUME NEW p \in Projects, RuntimeWritesOff(p)
      PROVE  AttemptName'
  BY <1>26 DEF RuntimeWritesOff, LoginType, Attempts
<1>27. ASSUME NEW p \in Projects, RunEnds(p)
      PROVE  AttemptName'
  BY <1>27 DEF RunEnds, LoginType, Attempts
<1>28. ASSUME NEW p \in Projects, RunAsks(p)
      PROVE  AttemptName'
  BY <1>28 DEF RunAsks, LoginType, Attempts
<1>29. ASSUME NEW p \in Projects, report_grant_dead(p)
      PROVE  AttemptName'
  BY <1>29 DEF report_grant_dead, LoginType, Attempts
<1>30. CASE Crash
  BY <1>30 DEF Crash
<1>31. CASE UNCHANGED vars
  BY <1>31 DEF vars
<1> QED
  BY <1>1, <1>2, <1>3, <1>4, <1>5, <1>6, <1>7, <1>8, <1>9, <1>10, <1>11, <1>12, <1>13,
     <1>14, <1>15, <1>16, <1>17, <1>18, <1>19, <1>20, <1>21, <1>22, <1>23, <1>24,
     <1>25, <1>26, <1>27, <1>28, <1>29, <1>30, <1>31
  DEF Next

\* Every step leaves what is parked with its credential.
LEMMA ParkedNameStep ==
  TypeOK /\ NameInv /\ [Next]_vars => ParkedName'
<1> SUFFICES ASSUME TypeOK, NameInv, [Next]_vars
             PROVE  ParkedName'
  OBVIOUS
<1> USE TypeParts, NothingFacts
<1> USE DEF AttemptName, ParkedName, NameInv, loginVars, countVars
<1>1. CASE ReaderCode
  BY <1>1 DEF ReaderCode, CodePrinted
<1>2. CASE ReaderGivesUp
  BY <1>2 DEF ReaderGivesUp
<1>3. ASSUME NEW r \in late, ReaderReads(r)
      PROVE  ParkedName'
  BY <1>3 DEF ReaderReads
<1>4. ASSUME NEW r \in late, ReaderMarks(r)
      PROVE  ParkedName'
  BY <1>4 DEF ReaderMarks
<1>5. ASSUME NEW b \in BOOLEAN, LoginEnds(b)
      PROVE  ParkedName'
  BY <1>5 DEF LoginEnds
<1>6. ASSUME NEW c \in Credentials, authorize_credential(c)
      PROVE  ParkedName'
  BY <1>6 DEF authorize_credential, Command, Ready, begin_login, spawn_login, InFlight
<1>7. ASSUME NEW c \in Credentials, reauthorize_credential(c)
      PROVE  ParkedName'
  BY <1>7 DEF reauthorize_credential, Command, Ready, begin_login, spawn_login, InFlight,
  reauthorizable
<1>8. ASSUME NEW c \in Credentials, cancel_credential(c)
      PROVE  ParkedName'
  BY <1>8 DEF cancel_credential, Command, Ready, abandon_attempt, Cancelled, Mark
<1>9. ASSUME NEW c \in Credentials, revoke_credential(c)
      PROVE  ParkedName'
  BY <1>9 DEF revoke_credential, Command, Ready, abandon_attempt, loginVars
<1>10. CASE provider_cancel
  BY <1>10 DEF provider_cancel, Command, Ready, abandon_attempt
<1>11. CASE LoopMarks
  BY <1>11 DEF LoopMarks
<1>12. CASE ListJudges
  BY <1>12 DEF ListJudges, Command, Ready, settle_attempt, FinishedFirst
<1>13. CASE ListWrites
  BY <1>13 DEF ListWrites
<1>14. ASSUME NEW p \in Projects, NEW d \in Credentials \union {NoCredential}, assign_credential(p, d)
      PROVE  ParkedName'
  BY <1>14 DEF assign_credential, Command, Ready, usable, NoActiveRun
<1>15. CASE Apply
  BY <1>15 DEF Apply, Ready, Finished, Mark
<1>16. CASE SwapSucceeds
  BY <1>16 DEF SwapSucceeds
<1>17. CASE SwapFails
  BY <1>17 DEF SwapFails, Mark
<1>18. CASE accept_reauthorization
  BY <1>18 DEF accept_reauthorization
<1>19. CASE Deliver
  BY <1>19 DEF Deliver, Ready, Deliverable
<1>20. CASE Acknowledge
  BY <1>20 DEF Acknowledge, Command, Ready
<1>21. CASE DeliveryTimeout
  BY <1>21 DEF DeliveryTimeout, Command, Ready, Undelivered, abandon_attempt, Cancelled, Mark
<1>22. CASE SessionEnds
  BY <1>22 DEF SessionEnds, Command, Ready, Undelivered, abandon_attempt, Cancelled, Mark
<1>23. CASE SessionStarts
  BY <1>23 DEF SessionStarts
<1>24. ASSUME NEW p \in Projects, RunChecks(p)
      PROVE  ParkedName'
  BY <1>24 DEF RunChecks, usable
<1>25. ASSUME NEW p \in Projects, RunStarts(p)
      PROVE  ParkedName'
  BY <1>25 DEF RunStarts, Changing
<1>26. ASSUME NEW p \in Projects, RuntimeWritesOff(p)
      PROVE  ParkedName'
  BY <1>26 DEF RuntimeWritesOff
<1>27. ASSUME NEW p \in Projects, RunEnds(p)
      PROVE  ParkedName'
  BY <1>27 DEF RunEnds
<1>28. ASSUME NEW p \in Projects, RunAsks(p)
      PROVE  ParkedName'
  BY <1>28 DEF RunAsks
<1>29. ASSUME NEW p \in Projects, report_grant_dead(p)
      PROVE  ParkedName'
  BY <1>29 DEF report_grant_dead
<1>30. CASE Crash
  BY <1>30 DEF Crash
<1>31. CASE UNCHANGED vars
  BY <1>31 DEF vars
<1> QED
  BY <1>1, <1>2, <1>3, <1>4, <1>5, <1>6, <1>7, <1>8, <1>9, <1>10, <1>11, <1>12, <1>13,
     <1>14, <1>15, <1>16, <1>17, <1>18, <1>19, <1>20, <1>21, <1>22, <1>23, <1>24,
     <1>25, <1>26, <1>27, <1>28, <1>29, <1>30, <1>31
  DEF Next

\* Every step leaves a run with its credential.
LEMMA RunNameStep ==
  TypeOK /\ NameInv /\ [Next]_vars => RunName'
<1> SUFFICES ASSUME TypeOK, NameInv, [Next]_vars
             PROVE  RunName'
  OBVIOUS
<1> USE TypeParts, NothingFacts
<1> USE DEF RunName, NameInv, RunType, loginVars, countVars
<1>1. CASE ReaderCode
  BY <1>1 DEF ReaderCode, CodePrinted
<1>2. CASE ReaderGivesUp
  BY <1>2 DEF ReaderGivesUp
<1>3. ASSUME NEW r \in late, ReaderReads(r)
      PROVE  RunName'
  BY <1>3 DEF ReaderReads
<1>4. ASSUME NEW r \in late, ReaderMarks(r)
      PROVE  RunName'
  BY <1>4 DEF ReaderMarks
<1>5. ASSUME NEW b \in BOOLEAN, LoginEnds(b)
      PROVE  RunName'
  BY <1>5 DEF LoginEnds
<1>6. ASSUME NEW c \in Credentials, authorize_credential(c)
      PROVE  RunName'
  BY <1>6 DEF authorize_credential, Command, Ready, begin_login, spawn_login, InFlight
<1>7. ASSUME NEW c \in Credentials, reauthorize_credential(c)
      PROVE  RunName'
  BY <1>7 DEF reauthorize_credential, Command, Ready, begin_login, spawn_login, InFlight,
  reauthorizable
<1>8. ASSUME NEW c \in Credentials, cancel_credential(c)
      PROVE  RunName'
  BY <1>8 DEF cancel_credential, Command, Ready, abandon_attempt, Cancelled, Mark
<1>9. ASSUME NEW c \in Credentials, revoke_credential(c)
      PROVE  RunName'
  BY <1>9 DEF revoke_credential, Command, Ready, abandon_attempt, loginVars
<1>10. CASE provider_cancel
  BY <1>10 DEF provider_cancel, Command, Ready, abandon_attempt
<1>11. CASE LoopMarks
  BY <1>11 DEF LoopMarks
<1>12. CASE ListJudges
  BY <1>12 DEF ListJudges, Command, Ready, settle_attempt, FinishedFirst
<1>13. CASE ListWrites
  BY <1>13 DEF ListWrites
<1>14. ASSUME NEW p \in Projects, NEW d \in Credentials \union {NoCredential}, assign_credential(p, d)
      PROVE  RunName'
  BY <1>14 DEF assign_credential, Command, Ready, usable, NoActiveRun
<1>15. CASE Apply
  BY <1>15 DEF Apply, Ready, Finished, Mark
<1>16. CASE SwapSucceeds
  BY <1>16 DEF SwapSucceeds
<1>17. CASE SwapFails
  BY <1>17 DEF SwapFails, Mark
<1>18. CASE accept_reauthorization
  BY <1>18 DEF accept_reauthorization
<1>19. CASE Deliver
  BY <1>19 DEF Deliver, Ready, Deliverable
<1>20. CASE Acknowledge
  BY <1>20 DEF Acknowledge, Command, Ready
<1>21. CASE DeliveryTimeout
  BY <1>21 DEF DeliveryTimeout, Command, Ready, Undelivered, abandon_attempt, Cancelled, Mark
<1>22. CASE SessionEnds
  BY <1>22 DEF SessionEnds, Command, Ready, Undelivered, abandon_attempt, Cancelled, Mark
<1>23. CASE SessionStarts
  BY <1>23 DEF SessionStarts
<1>24. ASSUME NEW p \in Projects, RunChecks(p)
      PROVE  RunName'
  BY <1>24 DEF RunChecks, usable
<1>25. ASSUME NEW p \in Projects, RunStarts(p)
      PROVE  RunName'
  <2>1. \A q \in Projects : q # p => run'[q] = run[q]
    BY <1>25 DEF RunStarts
  <2>2. run'[p].pc # "none" => run'[p].cred = run[p].cred
    BY <1>25 DEF RunStarts, RunRow
  <2> QED
    BY <1>25, <2>1, <2>2 DEF RunStarts
<1>26. ASSUME NEW p \in Projects, RuntimeWritesOff(p)
      PROVE  RunName'
  BY <1>26 DEF RuntimeWritesOff
<1>27. ASSUME NEW p \in Projects, RunEnds(p)
      PROVE  RunName'
  BY <1>27 DEF RunEnds
<1>28. ASSUME NEW p \in Projects, RunAsks(p)
      PROVE  RunName'
  BY <1>28 DEF RunAsks
<1>29. ASSUME NEW p \in Projects, report_grant_dead(p)
      PROVE  RunName'
  BY <1>29 DEF report_grant_dead
<1>30. CASE Crash
  BY <1>30 DEF Crash
<1>31. CASE UNCHANGED vars
  BY <1>31 DEF vars
<1> QED
  BY <1>1, <1>2, <1>3, <1>4, <1>5, <1>6, <1>7, <1>8, <1>9, <1>10, <1>11, <1>12, <1>13,
     <1>14, <1>15, <1>16, <1>17, <1>18, <1>19, <1>20, <1>21, <1>22, <1>23, <1>24,
     <1>25, <1>26, <1>27, <1>28, <1>29, <1>30, <1>31
  DEF Next

\* Every step keeps the types.
LEMMA TypeStep == TypeOK /\ NameInv /\ [Next]_vars => TypeOK' /\ NameInv'
<1>1. (TypeOK <=> CredentialType /\ LoginType /\ LateType /\ LoopType /\ RunType /\ CountType)'
  BY TypeParts, PTL
<1> QED
  BY <1>1, CredentialTypeStep, LoginTypeStep, LateTypeStep, LoopTypeStep, RunTypeStep, CountTypeStep,
     AttemptNameStep, ParkedNameStep, RunNameStep DEF NameInv

\* Materials are numbers.
LEMMA MaterialFacts ==
  ASSUME TypeOK
  PROVE  /\ logins \in Nat /\ agen \in Nat /\ parked.gen \in Nat
         /\ parked.mat \in Nat /\ loop.mat \in Nat /\ attempt.mat \in Nat
         /\ superseded \subseteq Nat
         /\ \A c \in Credentials : live[c] \in Nat /\ accepted[c] \in Nat
<1>1. Materials \subseteq Nat
  BY BoundsAssumption DEF Materials
<1> QED
  BY <1>1, TypeParts DEF CredentialType, LoginType, LoopType, LoopRow, Attempts, ParkedRow

\* Where every material is.
WhereInv == BoundInv /\ FreshInv /\ StagedInv /\ ParkedInv /\ SwapInv /\ SupersededDiscarded

\* A login is begun while nothing is put in place.
LEMMA BeginKeeps ==
  ASSUME TypeOK, WhereInv, NEW c \in Credentials, NEW reauth \in BOOLEAN, NEW started \in BOOLEAN,
         begin_login(c, reauth, started), UNCHANGED <<live, accepted, loop>>, loop.op # "swap"
  PROVE  WhereInv'
<1> USE MaterialFacts DEF WhereInv
<1> DEFINE lost == Lost(attempt) \union ({parked.mat} \ {0})
<1>1. /\ agen' = agen + 1 /\ logins' = logins + 1 /\ parked' = parked
      /\ superseded' = superseded \union lost /\ attempt'.mat = 0
  BY BeginEffect, TypeParts
<1>2. /\ \A m \in lost : m # 0 /\ m <= logins /\ \A k \in Credentials : live[k] # m /\ m \in Nat
  BY LostFacts, TypeParts DEF BoundInv, StagedInv, ParkedInv, Placed
<1> HIDE DEF lost
<1>3. BoundInv'
  BY <1>1, <1>2 DEF BoundInv
<1>4. FreshInv'
  BY <1>1, <1>2 DEF BoundInv, FreshInv, Placed
<1>5. StagedInv' /\ SwapInv'
  BY <1>1 DEF StagedInv, SwapInv
<1>6. ParkedInv'
  BY <1>1 DEF ParkedInv, Placed
<1>7. SupersededDiscarded'
  BY <1>1, <1>2 DEF SupersededDiscarded
<1> QED
  BY <1>3, <1>4, <1>5, <1>6, <1>7

\* An attempt is taken away while nothing is put in place.
LEMMA AbandonKeeps ==
  ASSUME TypeOK, WhereInv, abandon_attempt, UNCHANGED accepted, loop'.op # "swap", loop'.mat \in {0, loop.mat},
         \A k \in Credentials : live'[k] \in {0, live[k]}
  PROVE  WhereInv'
<1> USE MaterialFacts DEF WhereInv
<1> DEFINE lost == Lost(attempt)
<1>1. /\ agen' \in {agen, agen + 1} /\ logins' = logins /\ parked' = parked
      /\ superseded' = superseded \union lost /\ attempt' = NoAttempt
      /\ agen' = agen => superseded' = superseded
  BY AbandonEffect, TypeParts
<1>2. /\ \A m \in lost : m # 0 /\ m <= logins /\ \A k \in Credentials : live[k] # m /\ m \in Nat
  BY LostFacts, TypeParts DEF BoundInv, StagedInv, Placed
<1> HIDE DEF lost
<1>3. BoundInv'
  BY <1>1, <1>2, NothingFacts DEF BoundInv
<1>4. FreshInv' /\ StagedInv' /\ SwapInv'
  BY <1>1, NothingFacts DEF FreshInv, StagedInv, SwapInv, InFlight
<1>6. ParkedInv'
  <2>1. parked.mat # 0 => ~Placed(parked.mat)' /\ parked.mat # loop'.mat
    BY <1>1 DEF ParkedInv, Placed
  <2> QED
    BY <1>1, <2>1 DEF ParkedInv
<1>7. SupersededDiscarded'
  BY <1>1, <1>2 DEF SupersededDiscarded, BoundInv
<1> QED
  BY <1>3, <1>4, <1>6, <1>7

\* An attempt is settled.
LEMMA SettleKeeps ==
  ASSUME TypeOK, WhereInv, settle_attempt, UNCHANGED <<agen, logins, live, accepted>>,
         loop'.op # "swap", loop'.mat = 0
  PROVE  WhereInv'
<1> USE MaterialFacts DEF WhereInv
<1>1. UNCHANGED <<attempt, parked, superseded>> \/ Parks \/ Drops
  BY SettleEffect, TypeParts
<1>2. CASE UNCHANGED <<attempt, parked, superseded>>
  BY <1>2 DEF BoundInv, FreshInv, StagedInv, ParkedInv, SwapInv, SupersededDiscarded, Placed, InFlight
<1>3. CASE Parks
  <2> USE <1>3, NothingFacts DEF Parks
  <2>1. BoundInv'
    BY DEF BoundInv
  <2>2. FreshInv' /\ StagedInv' /\ SwapInv'
    BY DEF FreshInv, StagedInv, SwapInv, InFlight
  <2>3. ParkedInv'
    BY DEF ParkedInv, StagedInv, BoundInv, Placed
  <2>4. SupersededDiscarded'
    BY DEF SupersededDiscarded, ParkedInv, Placed
  <2> QED
    BY <2>1, <2>2, <2>3, <2>4
<1>4. CASE Drops
  <2> USE <1>4, NothingFacts DEF Drops
  <2>1. \A m \in Lost(attempt) : m = attempt.mat /\ m # 0 /\ attempt.reauth
    BY LostFacts, TypeParts
  <2>2. BoundInv'
    BY <2>1 DEF BoundInv
  <2>3. FreshInv' /\ StagedInv' /\ SwapInv'
    BY DEF FreshInv, StagedInv, SwapInv, InFlight
  <2>4. ParkedInv'
    BY <2>1 DEF ParkedInv, StagedInv, Placed
  <2>5. SupersededDiscarded'
    BY <2>1 DEF SupersededDiscarded, StagedInv, Placed
  <2> QED
    BY <2>2, <2>3, <2>4, <2>5
<1> QED
  BY <1>1, <1>2, <1>3, <1>4

\* What was parked or ended just now is put in place, or dropped.
LEMMA ApplyKeeps ==
  ASSUME TypeOK, NameInv, WhereInv, Apply
  PROVE  WhereInv'
<1> USE MaterialFacts DEF WhereInv
<1> DEFINE f == Finished
<1>1. /\ attempt' = IF attempt.reauth /\ attempt.ended THEN NoAttempt ELSE attempt
      /\ parked' = NoParked /\ UNCHANGED <<agen, logins, live, accepted>>
      /\ GoesToSwap \/ GoesToMark
  BY ApplyEffect, TypeParts DEF NameInv
<1>2. f = parked \/ (attempt.reauth /\ attempt.ended /\ f.mat = attempt.mat /\ f.gen = agen)
  BY FinishedFacts, TypeParts DEF NameInv
<1>3. f.mat \in Nat /\ f.mat <= logins /\ (f.mat # 0 => ~Placed(f.mat))
  BY <1>2 DEF BoundInv, StagedInv, ParkedInv
<1>4. f.gen = agen /\ f.mat # 0 => f.mat \notin superseded
  BY <1>2 DEF StagedInv, ParkedInv
<1>5. ASSUME NEW m \in Dropped
      PROVE  m \in Nat /\ m # 0 /\ m # f.mat /\ m <= logins /\ ~Placed(m)
  BY <1>5, LostFacts, TypeParts DEF Dropped, BoundInv, StagedInv, ParkedInv
<1>6. ASSUME NEW m \in Dropped \union ({f.mat} \ {0})
      PROVE  InFlight' => m # logins
  <2>1. InFlight' => InFlight
    BY <1>1, NothingFacts DEF InFlight
  <2>2. InFlight => attempt.mat = 0
    BY DEF FreshInv
  <2>3. CASE m = parked.mat
    BY <2>1, <2>3 DEF FreshInv
  <2>4. CASE m = attempt.mat
    BY <1>5, <1>6, <2>1, <2>2, <2>4 DEF Dropped
  <2> QED
    BY <1>2, <1>6, <2>3, <2>4, LostFacts, TypeParts DEF Dropped
<1>7. attempt'.reauth /\ attempt'.mat # 0 => FALSE
  <2>1. attempt.reauth /\ ~attempt.ended => attempt.mat = 0
    BY DEF FreshInv, InFlight, NameInv, AttemptName
  <2> QED
    BY <1>1, <2>1, NothingFacts
<1>8. InFlight' => InFlight /\ attempt'.mat = 0
  BY <1>1, NothingFacts DEF InFlight, FreshInv
<1>9. attempt'.mat \in {0, attempt.mat} /\ parked'.mat = 0 /\ parked'.gen = 0
  BY <1>1, NothingFacts
<1>10. ~Placed(f.mat) \/ f.mat = 0
  BY <1>3
<1> HIDE DEF f
<1>11. CASE GoesToSwap
  <2>1. /\ loop'.op = "swap" /\ loop'.mat = f.mat /\ f.mat # 0 /\ f.gen = agen
        /\ superseded' = superseded \union Dropped
    BY <1>11 DEF GoesToSwap, f
  <2>2. BoundInv'
    BY <1>1, <1>3, <1>5, <1>9, <2>1 DEF BoundInv
  <2>3. FreshInv'
    BY <1>1, <1>6, <1>8, <1>9, <2>1 DEF FreshInv, Placed
  <2>4. StagedInv'
    BY <1>7 DEF StagedInv
  <2>5. ParkedInv'
    BY <1>1, <1>9, <2>1, <1>5 DEF ParkedInv, BoundInv
  <2>6. SwapInv'
    BY <1>1, <1>3, <1>4, <1>5, <2>1 DEF SwapInv, Placed
  <2>7. SupersededDiscarded'
    BY <1>1, <1>5, <2>1 DEF SupersededDiscarded, Placed
  <2> QED
    BY <2>2, <2>3, <2>4, <2>5, <2>6, <2>7
<1>12. CASE GoesToMark
  <2>1. /\ loop'.op = "mark" /\ loop'.mat = 0
        /\ superseded' = superseded \union Dropped \union ({f.mat} \ {0})
    BY <1>12 DEF GoesToMark, f
  <2>2. BoundInv'
    BY <1>1, <1>3, <1>5, <1>9, <2>1 DEF BoundInv
  <2>3. FreshInv'
    BY <1>1, <1>6, <1>8, <1>9, <2>1 DEF FreshInv, Placed
  <2>4. StagedInv' /\ SwapInv'
    BY <1>7, <2>1 DEF StagedInv, SwapInv
  <2>5. ParkedInv'
    BY <1>1, <1>9, <2>1, <1>5 DEF ParkedInv, BoundInv
  <2>7. SupersededDiscarded'
    BY <1>1, <1>3, <1>5, <2>1 DEF SupersededDiscarded, Placed
  <2> QED
    BY <2>2, <2>3, <2>4, <2>5, <2>7
<1> QED
  BY <1>1, <1>11, <1>12

\* Nothing moves but out of a home: the loop goes on to something else, the
\* attempt changes its phase.
LEMMA NothingMoves ==
  ASSUME TypeOK, WhereInv, UNCHANGED <<accepted, superseded, parked, logins>>,
         agen' = agen \/ agen' = agen + 1,
         \A k \in Credentials : live'[k] \in {0, live[k]},
         loop'.mat \in {0, loop.mat}, loop'.op = "swap" => loop' = loop,
         attempt'.mat \in {0, attempt.mat}, attempt'.reauth => attempt.reauth,
         InFlight' => InFlight
  PROVE  WhereInv'
<1> USE MaterialFacts DEF WhereInv
<1>1. BoundInv'
  BY DEF BoundInv
<1>2. FreshInv'
  BY DEF FreshInv, Placed
<1>3. StagedInv'
  BY DEF StagedInv, Placed
<1>4. ParkedInv'
  BY DEF ParkedInv, Placed
<1>5. SwapInv'
  BY DEF SwapInv, Placed
<1>6. SupersededDiscarded'
  BY DEF SupersededDiscarded, BoundInv
<1> QED
  BY <1>1, <1>2, <1>3, <1>4, <1>5, <1>6

\* What the loop holds is put in place or accepted.
LEMMA PutsInPlace ==
  ASSUME TypeOK, WhereInv, UNCHANGED <<superseded, parked, logins, agen, attempt>>,
         \A k \in Credentials : /\ live'[k] \in {live[k], loop.mat}
                                /\ accepted'[k] \in {accepted[k], loop.mat},
         live' = live \/ loop.op = "swap", loop'.mat \in {0, loop.mat}, loop'.op # "swap"
  PROVE  WhereInv'
<1> USE MaterialFacts DEF WhereInv
<1>1. BoundInv'
  BY DEF BoundInv
<1>2. FreshInv'
  BY DEF FreshInv, Placed, InFlight
<1>3. StagedInv'
  BY DEF StagedInv, Placed
<1>4. ParkedInv'
  BY DEF ParkedInv, Placed
<1>5. SwapInv'
  BY DEF SwapInv
<1>6. SupersededDiscarded'
  BY DEF SupersededDiscarded, SwapInv
<1> QED
  BY <1>1, <1>2, <1>3, <1>4, <1>5, <1>6

\* Every step keeps track of every material.
LEMMA WhereStep ==
  TypeOK /\ NameInv /\ WhereInv /\ [Next]_vars => WhereInv'
<1> SUFFICES ASSUME TypeOK, NameInv, WhereInv, [Next]_vars
             PROVE  WhereInv'
  OBVIOUS
<1>1. CASE ReaderCode
  <2>1. /\ attempt'.mat = attempt.mat /\ attempt'.reauth = attempt.reauth /\ attempt'.ended = attempt.ended
        /\ attempt.phase # "none"
    BY <1>1, TypeParts DEF ReaderCode, CodePrinted, Deliverable, LoginType, Attempts
  <2>2. InFlight' => InFlight
    BY <2>1 DEF InFlight
  <2>3. UNCHANGED <<live, accepted, superseded, parked, logins, agen, loop>>
    BY <1>1 DEF ReaderCode
  <2> QED
    BY <2>1, <2>2, <2>3, NothingMoves
<1>2. CASE ReaderGivesUp
  <2>1. UNCHANGED <<live, accepted, superseded, parked, logins, loop>>
    BY <1>2 DEF ReaderGivesUp
  <2>2. attempt' = NoAttempt /\ agen' = agen + 1
    BY <1>2 DEF ReaderGivesUp
  <2> QED
    BY <2>1, <2>2, NothingMoves, NothingFacts DEF InFlight
<1>3. ASSUME NEW r \in late, ReaderReads(r)
      PROVE  WhereInv'
  <2>1. UNCHANGED <<live, accepted, superseded, parked, logins, agen, loop, attempt>>
    BY <1>3 DEF ReaderReads, loginVars
  <2> QED
    BY <2>1, NothingMoves DEF InFlight
<1>4. ASSUME NEW r \in late, ReaderMarks(r)
      PROVE  WhereInv'
  <2>1. UNCHANGED <<live, accepted, superseded, parked, logins, agen, loop, attempt>>
    BY <1>4 DEF ReaderMarks, loginVars
  <2> QED
    BY <2>1, NothingMoves DEF InFlight
<1>5. ASSUME NEW b \in BOOLEAN, LoginEnds(b)
      PROVE  WhereInv'
  <2>1. /\ UNCHANGED <<accepted, superseded, parked, logins, agen, loop>>
        /\ InFlight /\ attempt.cred \in Credentials
    BY <1>5 DEF LoginEnds, InFlight, NameInv, AttemptName
  <2>2. attempt'.ended = TRUE
    BY <1>5, TypeParts DEF LoginEnds, LoginType, Attempts
  <2>3. attempt'.mat \in {0, logins} /\ attempt'.reauth = attempt.reauth
    BY <1>5, TypeParts DEF LoginEnds, LoginType, Attempts
  <2>4. ~InFlight'
    BY <2>2 DEF InFlight
  <2>5. attempt.reauth => live' = live
    BY <1>5 DEF LoginEnds
  <2>6. \A k \in Credentials : live'[k] \in {live[k], logins}
    BY <1>5, <2>1, TypeParts DEF LoginEnds, CredentialType
  <2> USE MaterialFacts
  <2>7. BoundInv'
    BY <2>1, <2>3, <2>6 DEF WhereInv, BoundInv
  <2>8. FreshInv'
    BY <2>4 DEF FreshInv
  <2>9. StagedInv'
    BY <2>1, <2>3, <2>5 DEF WhereInv, FreshInv, StagedInv, Placed
  <2>10. ParkedInv'
    BY <2>1, <2>6 DEF WhereInv, FreshInv, ParkedInv, Placed
  <2>11. SwapInv'
    BY <2>1, <2>6 DEF WhereInv, FreshInv, SwapInv, Placed
  <2>12. SupersededDiscarded'
    BY <2>1, <2>6 DEF WhereInv, FreshInv, SupersededDiscarded
  <2> QED
    BY <2>7, <2>8, <2>9, <2>10, <2>11, <2>12 DEF WhereInv
<1>6. ASSUME NEW c \in Credentials, authorize_credential(c)
      PROVE  WhereInv'
  <2>1. PICK started \in BOOLEAN : begin_login(c, FALSE, started)
    BY <1>6 DEF authorize_credential
  <2>2. UNCHANGED <<live, accepted, loop>> /\ loop = Idle
    BY <1>6 DEF authorize_credential, Command, Ready
  <2> QED
    BY <2>1, <2>2, BeginKeeps, NothingFacts
<1>7. ASSUME NEW c \in Credentials, reauthorize_credential(c)
      PROVE  WhereInv'
  <2>1. PICK started \in BOOLEAN : begin_login(c, TRUE, started)
    BY <1>7 DEF reauthorize_credential
  <2>2. UNCHANGED <<live, accepted, loop>> /\ loop = Idle
    BY <1>7 DEF reauthorize_credential, Command, Ready
  <2> QED
    BY <2>1, <2>2, BeginKeeps, NothingFacts
<1>8. ASSUME NEW c \in Credentials, cancel_credential(c)
      PROVE  WhereInv'
  <2>1. abandon_attempt /\ UNCHANGED <<live, accepted>> /\ loop' = Cancelled(c)
    BY <1>8 DEF cancel_credential
  <2> QED
    BY <2>1, AbandonKeeps, CancelEffect
<1>9. ASSUME NEW c \in Credentials, revoke_credential(c)
      PROVE  WhereInv'
  <2>1. UNCHANGED <<accepted, loop>> /\ loop = Idle
    BY <1>9 DEF revoke_credential, Command, Ready
  <2>2. \A k \in Credentials : live'[k] \in {0, live[k]}
    BY <1>9, TypeParts DEF revoke_credential, CredentialType
  <2>3. CASE abandon_attempt
    BY <2>1, <2>2, <2>3, AbandonKeeps, NothingFacts
  <2>4. CASE UNCHANGED <<loginVars, superseded>>
    BY <2>1, <2>2, <2>4, NothingMoves DEF InFlight, loginVars
  <2> QED
    BY <1>9, <2>3, <2>4 DEF revoke_credential
<1>10. CASE provider_cancel
  <2>1. abandon_attempt /\ UNCHANGED <<live, accepted, loop>> /\ loop = Idle
    BY <1>10 DEF provider_cancel, Command, Ready
  <2> QED
    BY <2>1, AbandonKeeps, NothingFacts
<1>11. CASE LoopMarks
  <2>1. UNCHANGED <<live, accepted, superseded, parked, logins, agen, attempt>> /\ loop' = Idle
    BY <1>11 DEF LoopMarks, loginVars
  <2> QED
    BY <2>1, NothingMoves, NothingFacts DEF InFlight
<1>12. CASE ListJudges
  <2>1. settle_attempt /\ UNCHANGED <<agen, logins, live, accepted>>
    BY <1>12 DEF ListJudges
  <2>2. loop'.op = "list" /\ loop'.mat = 0
    BY <1>12 DEF ListJudges, Idle
  <2> QED
    BY <2>1, <2>2, SettleKeeps
<1>13. CASE ListWrites
  <2>1. UNCHANGED <<live, accepted, superseded, parked, logins, agen, attempt>> /\ loop' = Idle
    BY <1>13 DEF ListWrites, loginVars
  <2> QED
    BY <2>1, NothingMoves, NothingFacts DEF InFlight
<1>14. ASSUME NEW p \in Projects, NEW d \in Credentials \union {NoCredential}, assign_credential(p, d)
      PROVE  WhereInv'
  <2>1. UNCHANGED <<live, accepted, superseded, parked, logins, agen, loop, attempt>>
    BY <1>14 DEF assign_credential, loginVars
  <2> QED
    BY <2>1, NothingMoves DEF InFlight
<1>15. CASE Apply
  BY <1>15, ApplyKeeps
<1>16. CASE SwapSucceeds
  <2>1. UNCHANGED <<accepted, superseded, parked, logins, agen, attempt>> /\ loop.op = "swap"
    BY <1>16 DEF SwapSucceeds, loginVars
  <2>2. loop.cred \in Credentials
    BY <2>1, TypeParts DEF LoopType
  <2>3. \A k \in Credentials : live'[k] \in {live[k], loop.mat}
    BY <1>16, <2>2, TypeParts DEF SwapSucceeds, CredentialType
  <2>4. loop'.mat \in {0, loop.mat} /\ loop'.op # "swap"
    BY <1>16, <2>2, TypeParts, MarkFacts, StateFacts DEF SwapSucceeds, LoopType, LoopRow
  <2> QED
    BY <2>1, <2>3, <2>4, PutsInPlace
<1>17. CASE SwapFails
  <2>1. UNCHANGED <<accepted, superseded, parked, logins, agen, attempt>> /\ loop.op = "swap"
    BY <1>17 DEF SwapFails, loginVars
  <2>2. loop.cred \in Credentials
    BY <2>1, TypeParts DEF LoopType
  <2>3. \A k \in Credentials : live'[k] \in {live[k], loop.mat}
    BY <1>17, <2>2, TypeParts DEF SwapFails, CredentialType
  <2>4. loop'.mat \in {0, loop.mat} /\ loop'.op # "swap"
    BY <1>17, <2>2, TypeParts, MarkFacts, StateFacts DEF SwapFails, LoopType, LoopRow
  <2> QED
    BY <2>1, <2>3, <2>4, PutsInPlace
<1>18. CASE accept_reauthorization
  <2>1. UNCHANGED <<live, superseded, parked, logins, agen, attempt>> /\ loop' = Idle
    BY <1>18 DEF accept_reauthorization, loginVars
  <2>2. \A k \in Credentials : accepted'[k] \in {accepted[k], loop.mat}
    BY <1>18, TypeParts DEF accept_reauthorization, CredentialType
  <2> QED
    BY <2>1, <2>2, PutsInPlace, NothingFacts
<1>19. CASE Deliver
  <2>1. /\ attempt'.mat = attempt.mat /\ attempt'.reauth = attempt.reauth /\ attempt'.ended = attempt.ended
        /\ attempt.phase # "none"
    BY <1>19, TypeParts DEF Deliver, CodePrinted, Deliverable, LoginType, Attempts
  <2>2. InFlight' => InFlight
    BY <2>1 DEF InFlight
  <2>3. UNCHANGED <<live, accepted, superseded, parked, logins, agen, loop>>
    BY <1>19 DEF Deliver
  <2> QED
    BY <2>1, <2>2, <2>3, NothingMoves
<1>20. CASE Acknowledge
  <2>1. /\ attempt'.mat = attempt.mat /\ attempt'.reauth = attempt.reauth /\ attempt'.ended = attempt.ended
        /\ attempt.phase # "none"
    BY <1>20, TypeParts DEF Acknowledge, CodePrinted, Deliverable, LoginType, Attempts
  <2>2. InFlight' => InFlight
    BY <2>1 DEF InFlight
  <2>3. UNCHANGED <<live, accepted, superseded, parked, logins, agen, loop>>
    BY <1>20 DEF Acknowledge
  <2> QED
    BY <2>1, <2>2, <2>3, NothingMoves
<1>21. CASE DeliveryTimeout
  <2>1. abandon_attempt /\ UNCHANGED <<live, accepted>> /\ loop' = Cancelled(attempt.cred)
    BY <1>21 DEF DeliveryTimeout
  <2>2. attempt.cred \in Credentials
    BY <1>21 DEF DeliveryTimeout, Undelivered, NameInv, AttemptName
  <2> QED
    BY <2>1, <2>2, AbandonKeeps, CancelEffect
<1>22. CASE SessionEnds
  <2>1. UNCHANGED <<live, accepted>>
    BY <1>22 DEF SessionEnds
  <2>2. CASE Undelivered(TRUE) /\ abandon_attempt /\ loop' = Cancelled(attempt.cred)
    <3>1. attempt.cred \in Credentials
      BY <2>2 DEF Undelivered, NameInv, AttemptName
    <3> QED
      BY <2>1, <2>2, <3>1, AbandonKeeps, CancelEffect
  <2>3. CASE UNCHANGED <<loginVars, superseded, loop>>
    BY <2>1, <2>3, NothingMoves DEF InFlight, loginVars
  <2> QED
    BY <1>22, <2>2, <2>3 DEF SessionEnds
<1>23. CASE SessionStarts
  <2>1. UNCHANGED <<live, accepted, superseded, parked, logins, agen, loop, attempt>>
    BY <1>23 DEF SessionStarts, loginVars
  <2> QED
    BY <2>1, NothingMoves DEF InFlight
<1>24. ASSUME NEW p \in Projects, RunChecks(p)
      PROVE  WhereInv'
  <2>1. UNCHANGED <<live, accepted, superseded, parked, logins, agen, loop, attempt>>
    BY <1>24 DEF RunChecks, loginVars
  <2> QED
    BY <2>1, NothingMoves DEF InFlight
<1>25. ASSUME NEW p \in Projects, RunStarts(p)
      PROVE  WhereInv'
  <2>1. UNCHANGED <<live, accepted, superseded, parked, logins, agen, loop, attempt>>
    BY <1>25 DEF RunStarts, loginVars
  <2> QED
    BY <2>1, NothingMoves DEF InFlight
<1>26. ASSUME NEW p \in Projects, RuntimeWritesOff(p)
      PROVE  WhereInv'
  <2>1. UNCHANGED <<live, accepted, superseded, parked, logins, agen, loop, attempt>>
    BY <1>26 DEF RuntimeWritesOff, loginVars
  <2> QED
    BY <2>1, NothingMoves DEF InFlight
<1>27. ASSUME NEW p \in Projects, RunEnds(p)
      PROVE  WhereInv'
  <2>1. UNCHANGED <<live, accepted, superseded, parked, logins, agen, loop, attempt>>
    BY <1>27 DEF RunEnds, loginVars
  <2> QED
    BY <2>1, NothingMoves DEF InFlight
<1>28. ASSUME NEW p \in Projects, RunAsks(p)
      PROVE  WhereInv'
  <2>1. UNCHANGED <<live, accepted, superseded, parked, logins, agen, loop, attempt>>
    BY <1>28 DEF RunAsks, loginVars
  <2> QED
    BY <2>1, NothingMoves DEF InFlight
<1>29. ASSUME NEW p \in Projects, report_grant_dead(p)
      PROVE  WhereInv'
  <2>1. UNCHANGED <<live, accepted, superseded, parked, logins, agen, loop, attempt>>
    BY <1>29 DEF report_grant_dead, loginVars
  <2> QED
    BY <2>1, NothingMoves DEF InFlight
<1>30. CASE Crash
  <2> DEFINE lost == Lost(attempt) \union ({parked.mat} \ {0})
  <2> USE MaterialFacts
  <2>1. \A m \in lost : m # 0 /\ m <= logins /\ \A k \in Credentials : live[k] # m
    BY LostFacts, TypeParts DEF WhereInv, BoundInv, StagedInv, ParkedInv, Placed
  <2>2. /\ UNCHANGED <<live, accepted, logins>> /\ superseded' = superseded \union lost
        /\ attempt' = NoAttempt /\ parked' = NoParked /\ loop' = Idle /\ agen' = 0
    BY <1>30 DEF Crash
  <2> HIDE DEF lost
  <2>3. BoundInv'
    BY <2>1, <2>2, NothingFacts DEF WhereInv, BoundInv
  <2>4. FreshInv' /\ StagedInv' /\ SwapInv'
    BY <2>2, NothingFacts DEF FreshInv, StagedInv, SwapInv, InFlight
  <2>5. ParkedInv'
    BY <2>2, <2>3, NothingFacts DEF ParkedInv, BoundInv
  <2>6. SupersededDiscarded'
    BY <2>1, <2>2 DEF WhereInv, SupersededDiscarded
  <2> QED
    BY <2>3, <2>4, <2>5, <2>6 DEF WhereInv
<1>31. CASE UNCHANGED vars
  BY <1>31, NothingMoves DEF vars, loginVars, InFlight
<1> QED
  BY <1>1, <1>2, <1>3, <1>4, <1>5, <1>6, <1>7, <1>8, <1>9, <1>10, <1>11, <1>12, <1>13,
     <1>14, <1>15, <1>16, <1>17, <1>18, <1>19, <1>20, <1>21, <1>22, <1>23, <1>24,
     <1>25, <1>26, <1>27, <1>28, <1>29, <1>30, <1>31
  DEF Next

\* Every step keeps runs and swaps of a credential apart.
LEMMA ExcludeStep ==
  TypeOK /\ NameInv /\ SwapExcludesRuns /\ [Next]_vars => SwapExcludesRuns'
<1> SUFFICES ASSUME TypeOK, NameInv, SwapExcludesRuns, [Next]_vars
             PROVE  SwapExcludesRuns'
  OBVIOUS
<1> USE TypeParts, NothingFacts
<1> USE DEF SwapExcludesRuns, NoActiveRun, RunType, loginVars, countVars
<1>1. CASE ReaderCode
  BY <1>1 DEF ReaderCode, CodePrinted
<1>2. CASE ReaderGivesUp
  BY <1>2 DEF ReaderGivesUp
<1>3. ASSUME NEW r \in late, ReaderReads(r)
      PROVE  SwapExcludesRuns'
  BY <1>3 DEF ReaderReads
<1>4. ASSUME NEW r \in late, ReaderMarks(r)
      PROVE  SwapExcludesRuns'
  BY <1>4 DEF ReaderMarks
<1>5. ASSUME NEW b \in BOOLEAN, LoginEnds(b)
      PROVE  SwapExcludesRuns'
  BY <1>5 DEF LoginEnds
<1>6. ASSUME NEW c \in Credentials, authorize_credential(c)
      PROVE  SwapExcludesRuns'
  BY <1>6 DEF authorize_credential, Command, Ready, begin_login, spawn_login, InFlight
<1>7. ASSUME NEW c \in Credentials, reauthorize_credential(c)
      PROVE  SwapExcludesRuns'
  BY <1>7 DEF reauthorize_credential, Command, Ready, begin_login, spawn_login, InFlight,
  reauthorizable
<1>8. ASSUME NEW c \in Credentials, cancel_credential(c)
      PROVE  SwapExcludesRuns'
  BY <1>8, CancelEffect DEF cancel_credential
<1>9. ASSUME NEW c \in Credentials, revoke_credential(c)
      PROVE  SwapExcludesRuns'
  BY <1>9 DEF revoke_credential, Command, Ready, abandon_attempt, loginVars
<1>10. CASE provider_cancel
  BY <1>10 DEF provider_cancel, Command, Ready, abandon_attempt
<1>11. CASE LoopMarks
  BY <1>11 DEF LoopMarks
<1>12. CASE ListJudges
  <2>1. loop'.op = "list"
    BY <1>12 DEF ListJudges, Idle
  <2> QED
    BY <2>1
<1>13. CASE ListWrites
  BY <1>13 DEF ListWrites
<1>14. ASSUME NEW p \in Projects, NEW d \in Credentials \union {NoCredential}, assign_credential(p, d)
      PROVE  SwapExcludesRuns'
  BY <1>14 DEF assign_credential, Command, Ready, usable, NoActiveRun
<1>15. CASE Apply
  <2>1. UNCHANGED <<assigned, run>> /\ (GoesToSwap \/ GoesToMark)
    BY <1>15, ApplyEffect DEF Apply, NameInv
  <2> QED
    BY <2>1 DEF GoesToSwap, GoesToMark
<1>16. CASE SwapSucceeds
  BY <1>16 DEF SwapSucceeds, LoopType, LoopRow
<1>17. CASE SwapFails
  <2>1. loop'.op = "mark"
    BY <1>17, MarkFacts, StateFacts DEF SwapFails, LoopType
  <2> QED
    BY <2>1
<1>18. CASE accept_reauthorization
  BY <1>18 DEF accept_reauthorization
<1>19. CASE Deliver
  BY <1>19 DEF Deliver, Ready, Deliverable
<1>20. CASE Acknowledge
  BY <1>20 DEF Acknowledge, Command, Ready
<1>21. CASE DeliveryTimeout
  <2>1. attempt.cred \in Credentials
    BY <1>21 DEF DeliveryTimeout, Undelivered, NameInv, AttemptName
  <2> QED
    BY <1>21, <2>1, CancelEffect DEF DeliveryTimeout
<1>22. CASE SessionEnds
  <2>1. loop = Idle /\ UNCHANGED <<assigned, run>>
    BY <1>22 DEF SessionEnds, Command, Ready
  <2>2. CASE loop' = loop
    BY <2>1, <2>2
  <2>3. CASE Undelivered(TRUE) /\ loop' = Cancelled(attempt.cred)
    <3>1. attempt.cred \in Credentials
      BY <2>3 DEF Undelivered, NameInv, AttemptName
    <3> QED
      BY <2>3, <3>1, CancelEffect
  <2> QED
    BY <1>22, <2>2, <2>3 DEF SessionEnds
<1>23. CASE SessionStarts
  BY <1>23 DEF SessionStarts
<1>24. ASSUME NEW p \in Projects, RunChecks(p)
      PROVE  SwapExcludesRuns'
  BY <1>24 DEF RunChecks, usable
<1>25. ASSUME NEW p \in Projects, RunStarts(p)
      PROVE  SwapExcludesRuns'
  <2>1. UNCHANGED <<loop, assigned>> /\ \A q \in Projects : q # p => run'[q] = run[q]
    BY <1>25 DEF RunStarts
  <2>2. CASE Changing(p) \/ assigned[p] # run[p].cred
    BY <1>25, <2>1, <2>2 DEF RunStarts
  <2>3. CASE ~Changing(p)
    BY <2>1, <2>3 DEF Changing
  <2> QED
    BY <2>2, <2>3
<1>26. ASSUME NEW p \in Projects, RuntimeWritesOff(p)
      PROVE  SwapExcludesRuns'
  BY <1>26 DEF RuntimeWritesOff
<1>27. ASSUME NEW p \in Projects, RunEnds(p)
      PROVE  SwapExcludesRuns'
  BY <1>27 DEF RunEnds
<1>28. ASSUME NEW p \in Projects, RunAsks(p)
      PROVE  SwapExcludesRuns'
  BY <1>28 DEF RunAsks
<1>29. ASSUME NEW p \in Projects, report_grant_dead(p)
      PROVE  SwapExcludesRuns'
  BY <1>29 DEF report_grant_dead
<1>30. CASE Crash
  BY <1>30 DEF Crash
<1>31. CASE UNCHANGED vars
  BY <1>31 DEF vars
<1> QED
  BY <1>1, <1>2, <1>3, <1>4, <1>5, <1>6, <1>7, <1>8, <1>9, <1>10, <1>11, <1>12, <1>13,
     <1>14, <1>15, <1>16, <1>17, <1>18, <1>19, <1>20, <1>21, <1>22, <1>23, <1>24,
     <1>25, <1>26, <1>27, <1>28, <1>29, <1>30, <1>31
  DEF Next

\* Every step leaves no login behind without a session.
LEMMA OrphanStep ==
  TypeOK /\ NameInv /\ NoOrphanLogin /\ [Next]_vars => NoOrphanLogin'
<1> SUFFICES ASSUME TypeOK, NameInv, NoOrphanLogin, [Next]_vars
             PROVE  NoOrphanLogin'
  OBVIOUS
<1> USE TypeParts, NothingFacts
<1> USE DEF NoOrphanLogin, InFlight, loginVars, countVars
<1>1. CASE ReaderCode
  BY <1>1 DEF ReaderCode, CodePrinted, LoginType, Attempts
<1>2. CASE ReaderGivesUp
  BY <1>2 DEF ReaderGivesUp, LoginType, Attempts
<1>3. ASSUME NEW r \in late, ReaderReads(r)
      PROVE  NoOrphanLogin'
  BY <1>3 DEF ReaderReads, LoginType, Attempts
<1>4. ASSUME NEW r \in late, ReaderMarks(r)
      PROVE  NoOrphanLogin'
  BY <1>4 DEF ReaderMarks, LoginType, Attempts
<1>5. ASSUME NEW b \in BOOLEAN, LoginEnds(b)
      PROVE  NoOrphanLogin'
  BY <1>5 DEF LoginEnds, LoginType, Attempts
<1>6. ASSUME NEW c \in Credentials, authorize_credential(c)
      PROVE  NoOrphanLogin'
  BY <1>6 DEF authorize_credential, Command, Ready, begin_login, spawn_login, InFlight, LoginType,
  Attempts
<1>7. ASSUME NEW c \in Credentials, reauthorize_credential(c)
      PROVE  NoOrphanLogin'
  BY <1>7 DEF reauthorize_credential, Command, Ready, begin_login, spawn_login, InFlight,
  reauthorizable, LoginType, Attempts
<1>8. ASSUME NEW c \in Credentials, cancel_credential(c)
      PROVE  NoOrphanLogin'
  BY <1>8 DEF cancel_credential, Command, Ready, abandon_attempt, Cancelled, Mark, LoginType,
  Attempts
<1>9. ASSUME NEW c \in Credentials, revoke_credential(c)
      PROVE  NoOrphanLogin'
  BY <1>9 DEF revoke_credential, Command, Ready, abandon_attempt, loginVars, LoginType, Attempts
<1>10. CASE provider_cancel
  BY <1>10 DEF provider_cancel, Command, Ready, abandon_attempt, LoginType, Attempts
<1>11. CASE LoopMarks
  BY <1>11 DEF LoopMarks, LoginType, Attempts
<1>12. CASE ListJudges
  BY <1>12 DEF ListJudges, Command, Ready, settle_attempt, FinishedFirst, LoginType, Attempts
<1>13. CASE ListWrites
  BY <1>13 DEF ListWrites, LoginType, Attempts
<1>14. ASSUME NEW p \in Projects, NEW d \in Credentials \union {NoCredential}, assign_credential(p, d)
      PROVE  NoOrphanLogin'
  BY <1>14 DEF assign_credential, Command, Ready, usable, NoActiveRun, LoginType, Attempts
<1>15. CASE Apply
  BY <1>15 DEF Apply, Ready, Finished, Mark, LoginType, Attempts
<1>16. CASE SwapSucceeds
  BY <1>16 DEF SwapSucceeds, LoginType, Attempts
<1>17. CASE SwapFails
  BY <1>17 DEF SwapFails, Mark, LoginType, Attempts
<1>18. CASE accept_reauthorization
  BY <1>18 DEF accept_reauthorization, LoginType, Attempts
<1>19. CASE Deliver
  BY <1>19 DEF Deliver, Ready, Deliverable, LoginType, Attempts
<1>20. CASE Acknowledge
  BY <1>20 DEF Acknowledge, Command, Ready, LoginType, Attempts
<1>21. CASE DeliveryTimeout
  BY <1>21 DEF DeliveryTimeout, Command, Ready, Undelivered, abandon_attempt, Cancelled, Mark,
  LoginType, Attempts
<1>22. CASE SessionEnds
  BY <1>22 DEF SessionEnds, Command, Ready, Undelivered, abandon_attempt, Cancelled, Mark,
  LoginType, Attempts
<1>23. CASE SessionStarts
  BY <1>23 DEF SessionStarts, LoginType, Attempts
<1>24. ASSUME NEW p \in Projects, RunChecks(p)
      PROVE  NoOrphanLogin'
  BY <1>24 DEF RunChecks, usable, LoginType, Attempts
<1>25. ASSUME NEW p \in Projects, RunStarts(p)
      PROVE  NoOrphanLogin'
  BY <1>25 DEF RunStarts, Changing, LoginType, Attempts
<1>26. ASSUME NEW p \in Projects, RuntimeWritesOff(p)
      PROVE  NoOrphanLogin'
  BY <1>26 DEF RuntimeWritesOff, LoginType, Attempts
<1>27. ASSUME NEW p \in Projects, RunEnds(p)
      PROVE  NoOrphanLogin'
  BY <1>27 DEF RunEnds, LoginType, Attempts
<1>28. ASSUME NEW p \in Projects, RunAsks(p)
      PROVE  NoOrphanLogin'
  BY <1>28 DEF RunAsks, LoginType, Attempts
<1>29. ASSUME NEW p \in Projects, report_grant_dead(p)
      PROVE  NoOrphanLogin'
  BY <1>29 DEF report_grant_dead, LoginType, Attempts
<1>30. CASE Crash
  BY <1>30 DEF Crash, LoginType, Attempts
<1>31. CASE UNCHANGED vars
  BY <1>31 DEF vars
<1> QED
  BY <1>1, <1>2, <1>3, <1>4, <1>5, <1>6, <1>7, <1>8, <1>9, <1>10, <1>11, <1>12, <1>13,
     <1>14, <1>15, <1>16, <1>17, <1>18, <1>19, <1>20, <1>21, <1>22, <1>23, <1>24,
     <1>25, <1>26, <1>27, <1>28, <1>29, <1>30, <1>31
  DEF Next

\* Every step keeps a report about what was written off.
LEMMA ReportStep ==
  TypeOK /\ NameInv /\ WhereInv /\ ReportInv /\ [Next]_vars => ReportInv'
<1> SUFFICES ASSUME TypeOK, NameInv, WhereInv, ReportInv, [Next]_vars
             PROVE  ReportInv'
  OBVIOUS
<1>1. CASE ReaderCode
  <2>1. UNCHANGED <<run, generation, live, accepted, dead>>
    BY <1>1 DEF ReaderCode
  <2> QED
    BY <2>1 DEF ReportInv
<1>2. CASE ReaderGivesUp
  <2>1. UNCHANGED <<run, generation, live, accepted, dead>>
    BY <1>2 DEF ReaderGivesUp
  <2> QED
    BY <2>1 DEF ReportInv
<1>3. ASSUME NEW r \in late, ReaderReads(r)
      PROVE  ReportInv'
  <2>1. UNCHANGED <<run, generation, live, accepted, dead>>
    BY <1>3 DEF ReaderReads
  <2> QED
    BY <2>1 DEF ReportInv
<1>4. ASSUME NEW r \in late, ReaderMarks(r)
      PROVE  ReportInv'
  <2>1. UNCHANGED <<run, generation, live, accepted, dead>>
    BY <1>4 DEF ReaderMarks
  <2> QED
    BY <2>1 DEF ReportInv
<1>5. ASSUME NEW b \in BOOLEAN, LoginEnds(b)
      PROVE  ReportInv'
  <2>1. UNCHANGED <<run, generation, accepted, dead>>
    BY <1>5 DEF LoginEnds
  <2>2. \A k \in Credentials : live'[k] = live[k] \/ live'[k] = logins
    BY <1>5, TypeParts DEF LoginEnds, CredentialType
  <2>3. \A k \in Credentials : accepted[k] # logins
    BY <1>5 DEF LoginEnds, WhereInv, FreshInv, SwapInv, Placed, InFlight
  <2> QED
    BY <2>1, <2>2, <2>3 DEF ReportInv, NameInv, RunName
<1>6. ASSUME NEW c \in Credentials, authorize_credential(c)
      PROVE  ReportInv'
  <2>1. UNCHANGED <<run, generation, live, accepted, dead>>
    BY <1>6 DEF authorize_credential
  <2> QED
    BY <2>1 DEF ReportInv
<1>7. ASSUME NEW c \in Credentials, reauthorize_credential(c)
      PROVE  ReportInv'
  <2>1. UNCHANGED <<run, generation, live, accepted, dead>>
    BY <1>7 DEF reauthorize_credential
  <2> QED
    BY <2>1 DEF ReportInv
<1>8. ASSUME NEW c \in Credentials, cancel_credential(c)
      PROVE  ReportInv'
  <2>1. UNCHANGED <<run, generation, live, accepted, dead>>
    BY <1>8 DEF cancel_credential
  <2> QED
    BY <2>1 DEF ReportInv
<1>9. ASSUME NEW c \in Credentials, revoke_credential(c)
      PROVE  ReportInv'
  <2>1. UNCHANGED <<run, generation, accepted, dead>>
    BY <1>9 DEF revoke_credential
  <2>2. \A k \in Credentials : live'[k] \in {0, live[k]}
    BY <1>9, TypeParts DEF revoke_credential, CredentialType
  <2> QED
    BY <2>1, <2>2 DEF ReportInv, NameInv, RunName
<1>10. CASE provider_cancel
  <2>1. UNCHANGED <<run, generation, live, accepted, dead>>
    BY <1>10 DEF provider_cancel
  <2> QED
    BY <2>1 DEF ReportInv
<1>11. CASE LoopMarks
  <2>1. UNCHANGED <<run, generation, live, accepted, dead>>
    BY <1>11 DEF LoopMarks
  <2> QED
    BY <2>1 DEF ReportInv
<1>12. CASE ListJudges
  <2>1. UNCHANGED <<run, generation, live, accepted, dead>>
    BY <1>12 DEF ListJudges
  <2> QED
    BY <2>1 DEF ReportInv
<1>13. CASE ListWrites
  <2>1. UNCHANGED <<run, generation, live, accepted, dead>>
    BY <1>13 DEF ListWrites
  <2> QED
    BY <2>1 DEF ReportInv
<1>14. ASSUME NEW p \in Projects, NEW d \in Credentials \union {NoCredential}, assign_credential(p, d)
      PROVE  ReportInv'
  <2>1. UNCHANGED <<run, generation, live, accepted, dead>>
    BY <1>14 DEF assign_credential
  <2> QED
    BY <2>1 DEF ReportInv
<1>15. CASE Apply
  <2>1. UNCHANGED <<run, generation, live, accepted, dead>>
    BY <1>15 DEF Apply
  <2> QED
    BY <2>1 DEF ReportInv
<1>16. CASE SwapSucceeds
  <2>1. UNCHANGED <<run, generation, accepted, dead>>
    BY <1>16 DEF SwapSucceeds
  <2>2. \A k \in Credentials : live'[k] = live[k] \/ live'[k] = loop.mat
    BY <1>16, TypeParts DEF SwapSucceeds, CredentialType
  <2>3. \A k \in Credentials : accepted[k] # loop.mat
    BY <1>16 DEF SwapSucceeds, WhereInv, FreshInv, SwapInv, Placed, InFlight
  <2> QED
    BY <2>1, <2>2, <2>3 DEF ReportInv, NameInv, RunName
<1>17. CASE SwapFails
  <2>1. UNCHANGED <<run, generation, accepted, dead>>
    BY <1>17 DEF SwapFails
  <2>2. \A k \in Credentials : live'[k] = live[k] \/ live'[k] = loop.mat
    BY <1>17, TypeParts DEF SwapFails, CredentialType
  <2>3. \A k \in Credentials : accepted[k] # loop.mat
    BY <1>17 DEF SwapFails, WhereInv, FreshInv, SwapInv, Placed, InFlight
  <2> QED
    BY <2>1, <2>2, <2>3 DEF ReportInv, NameInv, RunName
<1>18. CASE accept_reauthorization
  <2>1. UNCHANGED <<run, live, dead>>
    BY <1>18 DEF accept_reauthorization
  <2>2. loop.cred \in Credentials /\ \A k \in Credentials : generation[k] \in Nat
    BY <1>18, TypeParts DEF accept_reauthorization, LoopType, CredentialType
  <2>3. \A k \in Credentials :
          generation'[k] = IF k = loop.cred THEN generation[k] + 1 ELSE generation[k]
    BY <1>18, TypeParts DEF accept_reauthorization, CredentialType
  <2>4. \A k \in Credentials : k # loop.cred => accepted'[k] = accepted[k]
    BY <1>18, TypeParts DEF accept_reauthorization, CredentialType
  <2>5. \A p \in Projects : run[p].gen \in Nat
    BY TypeParts DEF RunType, RunRow
  <2> QED
    BY <2>1, <2>2, <2>3, <2>4, <2>5 DEF ReportInv, NameInv, RunName
<1>19. CASE Deliver
  <2>1. UNCHANGED <<run, generation, live, accepted, dead>>
    BY <1>19 DEF Deliver
  <2> QED
    BY <2>1 DEF ReportInv
<1>20. CASE Acknowledge
  <2>1. UNCHANGED <<run, generation, live, accepted, dead>>
    BY <1>20 DEF Acknowledge
  <2> QED
    BY <2>1 DEF ReportInv
<1>21. CASE DeliveryTimeout
  <2>1. UNCHANGED <<run, generation, live, accepted, dead>>
    BY <1>21 DEF DeliveryTimeout
  <2> QED
    BY <2>1 DEF ReportInv
<1>22. CASE SessionEnds
  <2>1. UNCHANGED <<run, generation, live, accepted, dead>>
    BY <1>22 DEF SessionEnds
  <2> QED
    BY <2>1 DEF ReportInv
<1>23. CASE SessionStarts
  <2>1. UNCHANGED <<run, generation, live, accepted, dead>>
    BY <1>23 DEF SessionStarts
  <2> QED
    BY <2>1 DEF ReportInv
<1>24. ASSUME NEW p \in Projects, RunChecks(p)
      PROVE  ReportInv'
  <2>1. UNCHANGED <<generation, live, accepted, dead>> /\ \A q \in Projects : q # p => run'[q] = run[q]
    BY <1>24, TypeParts DEF RunChecks, RunType
  <2>2. run'[p].pc = "checked"
    BY <1>24, TypeParts, NothingFacts DEF RunChecks, RunType, RunRow
  <2> QED
    BY <1>24, <2>1, <2>2 DEF ReportInv
<1>25. ASSUME NEW p \in Projects, RunStarts(p)
      PROVE  ReportInv'
  <2>1. UNCHANGED <<generation, live, accepted, dead>> /\ \A q \in Projects : q # p => run'[q] = run[q]
    BY <1>25, TypeParts DEF RunStarts, RunType
  <2>2. /\ run'[p].pc \in {"none", "active"}
        /\ run'[p].pc = "active" => run'[p].cred = run[p].cred /\ run'[p].gen = generation[run[p].cred]
    BY <1>25, TypeParts, NothingFacts DEF RunStarts, RunType, RunRow
  <2>3. run[p].cred \in Credentials /\ generation[run[p].cred] \in Nat
    BY <1>25, TypeParts DEF RunStarts, NameInv, RunName, CredentialType
  <2> QED
    BY <1>25, <2>1, <2>2, <2>3 DEF ReportInv
<1>26. ASSUME NEW p \in Projects, RuntimeWritesOff(p)
      PROVE  ReportInv'
  BY <1>26 DEF RuntimeWritesOff, ReportInv
<1>27. ASSUME NEW p \in Projects, RunEnds(p)
      PROVE  ReportInv'
  <2>1. UNCHANGED <<generation, live, accepted, dead>> /\ \A q \in Projects : q # p => run'[q] = run[q]
    BY <1>27, TypeParts DEF RunEnds, RunType
  <2>2. run'[p].pc = "ended" /\ run'[p].cred = run[p].cred /\ run'[p].gen = run[p].gen
    BY <1>27, TypeParts DEF RunEnds, RunType, RunRow
  <2> QED
    BY <1>27, <2>1, <2>2 DEF RunEnds, ReportInv
<1>28. ASSUME NEW p \in Projects, RunAsks(p)
      PROVE  ReportInv'
  <2>1. UNCHANGED <<generation, live, accepted, dead>> /\ \A q \in Projects : q # p => run'[q] = run[q]
    BY <1>28, TypeParts DEF RunAsks, RunType
  <2>2. /\ run'[p].pc \in {"none", "dead"}
        /\ run'[p].pc = "dead" => /\ run'[p].cred = run[p].cred /\ run'[p].gen = run[p].gen
                                  /\ runtime_state(live[run[p].cred]) = "reauthorization_required"
    BY <1>28, TypeParts, NothingFacts DEF RunAsks, RunType, RunRow
  <2>3. \A m : runtime_state(m) = "reauthorization_required" => m \in dead
    BY DEF runtime_state, verdict
  <2> QED
    BY <1>28, <2>1, <2>2, <2>3 DEF RunAsks, ReportInv
<1>29. ASSUME NEW p \in Projects, report_grant_dead(p)
      PROVE  ReportInv'
  <2>1. UNCHANGED <<generation, live, accepted, dead>> /\ \A q \in Projects : q # p => run'[q] = run[q]
    BY <1>29, TypeParts DEF report_grant_dead, RunType
  <2>2. run'[p].pc = "none"
    BY <1>29, TypeParts, NothingFacts DEF report_grant_dead, RunType
  <2> QED
    BY <1>29, <2>1, <2>2 DEF ReportInv
<1>30. CASE Crash
  <2>1. UNCHANGED <<generation, live, accepted, dead>>
    BY <1>30 DEF Crash
  <2>2. ASSUME NEW p \in Projects
        PROVE  /\ run'[p].pc \in {"none", "active"}
               /\ run'[p].pc = "active" =>
                    run'[p].gen = generation[run'[p].cred] /\ generation[run'[p].cred] \in Nat
    <3>1. CASE run[p].pc = "active"
      <4>1. run'[p] = [run[p] EXCEPT !.gen = generation[run[p].cred]] /\ run[p] \in RunRow
        BY <1>30, <3>1, TypeParts DEF Crash, RunType
      <4>2. run[p].cred \in Credentials /\ generation[run[p].cred] \in Nat
        BY <3>1, TypeParts DEF NameInv, RunName, CredentialType
      <4> QED
        BY <4>1, <4>2, <3>1 DEF RunRow
    <3>2. CASE run[p].pc # "active"
      BY <1>30, <3>2, NothingFacts DEF Crash
    <3> QED
      BY <3>1, <3>2
  <2> QED
    BY <2>1, <2>2 DEF ReportInv
<1>31. CASE UNCHANGED vars
  BY <1>31 DEF vars, ReportInv
<1> QED
  BY <1>1, <1>2, <1>3, <1>4, <1>5, <1>6, <1>7, <1>8, <1>9, <1>10, <1>11, <1>12, <1>13,
     <1>14, <1>15, <1>16, <1>17, <1>18, <1>19, <1>20, <1>21, <1>22, <1>23, <1>24,
     <1>25, <1>26, <1>27, <1>28, <1>29, <1>30, <1>31
  DEF Next

\* Everything that holds in every state.
IInv == TypeOK /\ NameInv /\ WhereInv /\ ReportInv /\ SwapExcludesRuns /\ NoOrphanLogin

\* It holds on a Node without credentials.
LEMMA InitInv == Init => IInv
<1> SUFFICES ASSUME Init
             PROVE  IInv
  OBVIOUS
<1> USE NothingFacts DEF Init
<1>1. CredentialType /\ LoginType /\ LateType /\ LoopType
  BY DEF CredentialType, LoginType, LateType, LoopType
<1>2. RunType
  BY DEF RunType
<1>3. session \in BOOLEAN
  OBVIOUS
<1>4. CountType
  BY <1>3 DEF CountType
<1>5. NameInv
  BY DEF NameInv, AttemptName, ParkedName, RunName
<1>6. WhereInv
  BY DEF WhereInv, BoundInv, FreshInv, StagedInv, ParkedInv, SwapInv, SupersededDiscarded, InFlight
<1>7. ReportInv /\ SwapExcludesRuns /\ NoOrphanLogin
  BY DEF ReportInv, SwapExcludesRuns, NoOrphanLogin, InFlight
<1> QED
  BY <1>1, <1>2, <1>4, <1>5, <1>6, <1>7, TypeParts DEF IInv

\* The invariant holds in every state.
THEOREM Invariance == Spec => []IInv
<1>1. Init => IInv
  BY InitInv
<1>2. IInv /\ [Next]_vars => IInv'
  BY TypeStep, WhereStep, ReportStep, ExcludeStep, OrphanStep DEF IInv
<1> QED
  BY <1>1, <1>2, PTL DEF Spec

\* Every variable always has its type.
THEOREM TypeCorrectness == Spec => []TypeOK
<1>1. IInv => TypeOK
  BY DEF IInv
<1> QED
  BY <1>1, Invariance, PTL

\* Material of a replacement that was cancelled, given up or overtaken by a
\* later login never gets into a home, however cancellations, sessions,
\* deaths and failed answers fall between the end of a login and its swap (the
\* generation guards of settle_attempt and apply_finished_reauthorization).
THEOREM SupersededIsDiscarded == Spec => []SupersededDiscarded
<1>1. IInv => SupersededDiscarded
  BY DEF IInv, WhereInv
<1> QED
  BY <1>1, Invariance, PTL

\* While material is moved no run of a project that reads the credential is
\* in flight (begin_worker_change against credential_run_guard).
THEOREM SwapsExcludeRuns == Spec => []SwapExcludesRuns
<1>1. IInv => SwapExcludesRuns
  BY DEF IInv
<1> QED
  BY <1>1, Invariance, PTL

\* A login goes on without a session only if the Control Plane holds its code
\* (cancel_undelivered at the end of a session).
THEOREM NoLoginIsOrphaned == Spec => []NoOrphanLogin
<1>1. IInv => NoOrphanLogin
  BY DEF IInv
<1> QED
  BY <1>1, Invariance, PTL

\* A late report of a run never sends a replacement that was accepted back to
\* be authorized, unless the runtime wrote that replacement off
\* (report_grant_dead and the generation that accept_reauthorization moves).
THEOREM ReportsAreAboutCurrent == Spec => ReportAboutCurrent
<1> DEFINE Fair(p, c) ==
      report_grant_dead(p) /\ cstate'[c] # cstate[c] /\ live[c] # 0 /\ live[c] = accepted[c]
         => live[c] \in dead
<1>1. ASSUME IInv, NEW p \in Projects, NEW c \in Credentials
      PROVE  Fair(p, c)
  <2>1. SUFFICES ASSUME report_grant_dead(p), cstate'[c] # cstate[c],
                        live[c] # 0, live[c] = accepted[c]
                 PROVE  live[c] \in dead
    OBVIOUS
  <2>2. cstate \in [Credentials -> CredentialState \union {"absent"}]
    BY <1>1, TypeParts DEF IInv, CredentialType
  <2>3. run[p].pc = "dead" /\ c = run[p].cred /\ generation[c] = run[p].gen
    BY <2>1, <2>2 DEF report_grant_dead
  <2> QED
    BY <1>1, <2>1, <2>3 DEF IInv, ReportInv
<1>2. IInv => [\A p \in Projects, c \in Credentials : Fair(p, c)]_vars
  BY <1>1
<1> QED
  BY <1>2, Invariance, PTL DEF ReportAboutCurrent
=============================================================================
