--------------------------- MODULE OnboardingProofs ---------------------------
(***************************************************************************)
(* Proofs about the KYC webhook, for any users, sessions and workers, and  *)
(* any answers of the partner and the bank.                                *)
(*                                                                         *)
(* Types hold whatever deliveries overlap.  The rest is proved for what    *)
(* the code was written for: at most one delivery for a user at a time     *)
(* (OneDeliveryPerUser), those of different users overlapping freely.      *)
(* Without it TLC finds a second account.  The invariant says what a       *)
(* delivery still knows to be so: that the account row it found is the     *)
(* user's only one and not active (AccountOK), that the sessions it has    *)
(* yet to move are where its loop found them (TodoOK), and that the call   *)
(* under way is for such a session (CallOK); and that a session waiting    *)
(* for an active account is one some delivery has yet to move (Waits).     *)
(* For a delivery that finds what earlier ones left half-way, RInv adds    *)
(* that the loops behind it left nothing behind (Emptied), and that the    *)
(* one under way forgets nothing it is to move (NoneMissed).               *)
(***************************************************************************)
EXTENDS Onboarding, SessionGatesProofs, SequenceTheorems

Looping(j) == j.step \in {"findSessions", "nextSession", "sessionMoved"}

JobOK(j) ==
  /\ j \in Job
  /\ j.step # "none" => j.user \in Users
  /\ Looping(j) => j.loop \in Loop
  /\ j.step = "createSubmission" => j.answer \in PartnerAnswers
  /\ j.step = "saveAccount" => j.answer \in {"active", "pending"}

ServiceTyped ==
  /\ sessionState \in [Sessions -> SessionState \cup {Absent}]
  /\ call \in [Workers -> Frame]

TablesTyped ==
  /\ approved \subseteq Users
  /\ submission \in [Users -> PartnerAnswers \cup {Absent}]
  /\ accounts \in [Users -> Seq({"active", "pending"})]
  /\ \A u \in Users : Len(accounts[u]) <= MaxAccounts
  /\ webhooks \in 0..MaxWebhooks
  /\ everHeld \in [Users -> SUBSET UserFlag]
  /\ broken \in BOOLEAN

JobsTyped == job \in [Workers -> Job] /\ \A p \in Workers : JobOK(job[p])

Typed == ServiceTyped /\ TablesTyped /\ JobsTyped

-----------------------------------------------------------------------------
(***************************************************************************)
(* Types                                                                   *)
(***************************************************************************)

LEMMA NoJobOK == JobOK(NoJob) /\ NoJob \in Job /\ NoJob.step = "none"
<1>1. NoJob \in Job /\ NoJob.step = "none"
  BY BoundAssumption DEF NoJob, Job, JobStep
<1> QED BY <1>1 DEF JobOK, Looping

LEMMA InLoopOK ==
  ASSUME NEW j \in Job, j.user \in Users, NEW loop \in Loop
  PROVE  \E i : /\ i = InLoop(j, loop)
                /\ JobOK(i) /\ i.step = "findSessions" /\ i.loop = loop
                /\ i.user = j.user /\ i.account = j.account /\ i.answer = j.answer
<1>1. PICK i : i = [j EXCEPT !.step = "findSessions", !.loop = loop]
  OBVIOUS
<1>2. /\ i \in Job /\ i.step = "findSessions" /\ i.loop = loop /\ i.user = j.user
      /\ i.account = j.account /\ i.answer = j.answer
  BY <1>1 DEF Job, JobStep
<1>3. JobOK(i)
  BY <1>2 DEF JobOK
<1> QED BY <1>1, <1>2, <1>3 DEF InLoop

\* The job at a step that asks nothing more of it.
LEMMA StepOK ==
  ASSUME NEW j \in Job, j.user \in Users,
         NEW step \in {"submitPack", "findAccount", "provision"}
  PROVE  \E i : /\ i = [j EXCEPT !.step = step]
                /\ JobOK(i) /\ i.step = step
                /\ i.user = j.user /\ i.account = j.account /\ i.answer = j.answer
<1>1. PICK i : i = [j EXCEPT !.step = step]
  OBVIOUS
<1>2. /\ i \in Job /\ i.step = step
      /\ i.user = j.user /\ i.account = j.account /\ i.answer = j.answer
  BY <1>1 DEF Job, JobStep
<1>3. JobOK(i)
  BY <1>2 DEF JobOK, Looping
<1> QED BY <1>1, <1>2, <1>3

\* Where a loop leads.
LEMMA AfterLoop ==
  ASSUME NEW j, JobOK(j), j.step = "nextSession"
  PROVE  \E i : /\ i = After(j) /\ JobOK(i)
                /\ \/ i = NoJob
                   \/ /\ i.user = j.user /\ i.account = j.account /\ i.answer = j.answer
                      /\ \/ i.step = "submitPack"
                         \/ /\ i.step = "findSessions" /\ i.loop = "compliance_handoff_ok"
                            /\ j.loop = "compliance_handoff_pending"
                         \/ i.step = "findAccount" /\ j.loop = "compliance_handoff_ok"
                         \/ i.step = "provision" /\ j.loop = "named_account_pending"
<1>1. j \in Job /\ j.user \in Users /\ j.loop \in Loop
  BY DEF JobOK, Looping
<1>2. CASE After(j) = NoJob
  BY <1>2, NoJobOK
<1>3. CASE /\ After(j) = InLoop(j, "compliance_handoff_ok")
           /\ j.loop = "compliance_handoff_pending"
  <2>1. PICK i : /\ i = InLoop(j, "compliance_handoff_ok") /\ JobOK(i)
                 /\ i.step = "findSessions" /\ i.loop = "compliance_handoff_ok"
                 /\ i.user = j.user /\ i.account = j.account /\ i.answer = j.answer
    BY <1>1, InLoopOK DEF Loop
  <2> QED BY <1>3, <2>1
<1>4. ASSUME NEW step \in {"submitPack", "findAccount", "provision"},
             After(j) = [j EXCEPT !.step = step],
             step = "findAccount" => j.loop = "compliance_handoff_ok",
             step = "provision" => j.loop = "named_account_pending"
      PROVE  \E i : /\ i = After(j) /\ JobOK(i)
                    /\ i.user = j.user /\ i.account = j.account /\ i.answer = j.answer
                    /\ \/ i.step = "submitPack"
                       \/ i.step = "findAccount" /\ j.loop = "compliance_handoff_ok"
                       \/ i.step = "provision" /\ j.loop = "named_account_pending"
  <2>1. PICK i : /\ i = [j EXCEPT !.step = step]
                 /\ JobOK(i) /\ i.step = step
                 /\ i.user = j.user /\ i.account = j.account /\ i.answer = j.answer
    BY <1>1, StepOK
  <2> QED BY <1>4, <2>1
<1>5. \/ After(j) = NoJob
      \/ /\ After(j) = InLoop(j, "compliance_handoff_ok")
         /\ j.loop = "compliance_handoff_pending"
      \/ After(j) = [j EXCEPT !.step = "submitPack"]
      \/ After(j) = [j EXCEPT !.step = "findAccount"] /\ j.loop = "compliance_handoff_ok"
      \/ After(j) = [j EXCEPT !.step = "provision"] /\ j.loop = "named_account_pending"
  BY <1>1 DEF After, Loop
<1> QED BY <1>2, <1>3, <1>4, <1>5

LEMMA Waiting ==
  ASSUME ServiceTyped, NEW p \in Workers, call[p].step \in Awaited
  PROVE  /\ call[p] \in CallFrame /\ call[p].session \in Sessions
         /\ call[p].to \in SessionState
BY AwaitingFrame DEF ServiceTyped, CallFrame

LEMMA FrameTyped ==
  ASSUME ServiceTyped, NEW p \in Workers, NEW f \in Frame, call' = [call EXCEPT ![p] = f],
         UNCHANGED sessionState
  PROVE  /\ ServiceTyped' /\ call'[p] = f
         /\ \A q \in Workers \ {p} : call'[q] = call[q]
BY DEF ServiceTyped

\* What a step of transition() leaves in its frame.
LEMMA TransitionTyped ==
  ASSUME ServiceTyped, NEW p \in Workers,
         \/ FindSession(p) \/ UpdateState(p) \/ AppendEvent(p) \/ QueryFails(p)
         \/ \E held : LoadFlags(p, held)
  PROVE  /\ ServiceTyped' /\ call[p].step \in Awaited
         /\ \A q \in Workers \ {p} : call'[q] = call[q]
<1>1. call[p].step \in Awaited
  BY DEF FindSession, LoadFlags, UpdateState, AppendEvent, QueryFails, InFlight, Awaited
<1>2. call[p] \in CallFrame /\ call[p].session \in Sessions /\ call[p].to \in SessionState
  BY <1>1, Waiting
<1>3. CASE FindSession(p)
  <2>1. StateFound(call[p], sessionState[call[p].session]) \in Frame
    BY <1>2, StateFoundType DEF ServiceTyped
  <2> QED BY <1>1, <1>3, <2>1, FrameTyped DEF FindSession
<1>4. ASSUME NEW held, LoadFlags(p, held)
      PROVE  ServiceTyped' /\ \A q \in Workers \ {p} : call'[q] = call[q]
  <2>1. PICK f : f = IF Verdict(call[p], held) = "ok" THEN [call[p] EXCEPT !.step = "updateState"]
                                                      ELSE Returned(Verdict(call[p], held))
    OBVIOUS
  <2>2. Verdict(call[p], held) \in Outcome
    BY VerdictIsOutcome DEF Outcome
  <2>3. f \in Frame
    BY <1>2, <2>1, <2>2, FrameTypes DEF Frame, CallFrame, Awaited
  <2> QED BY <1>4, <2>1, <2>3, FrameTyped DEF LoadFlags
<1>5. CASE UpdateState(p)
  <2>1. PICK f : f = [call[p] EXCEPT !.step = "appendEvent"]
    OBVIOUS
  <2>2. f \in Frame
    BY <1>2, <2>1 DEF Frame, CallFrame, Awaited
  <2>3. call' = [call EXCEPT ![p] = f]
    BY <1>5, <2>1 DEF UpdateState
  <2>4. sessionState' \in [Sessions -> SessionState \cup {Absent}]
    BY <1>2, <1>5 DEF UpdateState, ServiceTyped
  <2> QED BY <1>1, <2>2, <2>3, <2>4 DEF ServiceTyped
<1>6. CASE AppendEvent(p) \/ QueryFails(p)
  <2>1. Returned("ok") \in Frame /\ Returned("query_failed") \in Frame
    BY FrameTypes DEF Frame, Outcome
  <2> QED BY <1>1, <1>6, <2>1, FrameTyped DEF AppendEvent, QueryFails
<1> QED BY <1>1, <1>3, <1>4, <1>5, <1>6

LEMMA AskTyped ==
  ASSUME ServiceTyped, NEW p \in Workers, NEW s \in Sessions, NEW loop \in Loop,
         Ask(p, s, loop, Reason(loop))
  PROVE  /\ ServiceTyped' /\ \A q \in Workers \ {p} : call'[q] = call[q]
         /\ call'[p].step = "findSession" /\ call'[p].session = s
         /\ call'[p].to = loop /\ call'[p].reason = Reason(loop)
<1>1. loop \in SessionState /\ Reason(loop) \in TransitionReason
  BY DEF Loop, Reason, SessionState, TransitionReason
<1>2. PICK f : f = Called(s, loop, Reason(loop))
  OBVIOUS
<1>3. f \in Frame
  BY <1>1, <1>2, FrameTypes DEF Frame
<1>4. /\ f.step = "findSession" /\ f.session = s /\ f.to = loop
      /\ f.reason = Reason(loop)
  BY <1>2 DEF Called, IdleFrame
<1> QED BY <1>2, <1>3, <1>4, FrameTyped DEF Ask

LEMMA ResultTyped ==
  ASSUME ServiceTyped, NEW p \in Workers, NEW e, ResultTaken(p, e)
  PROVE  /\ ServiceTyped' /\ call'[p].step = "idle"
         /\ \A q \in Workers \ {p} : call'[q] = call[q]
<1>1. PICK f : f = IdleFrame
  OBVIOUS
<1>2. f \in Frame /\ f.step = "idle"
  BY <1>1, FrameTypes DEF Frame, IdleFrame
<1> QED BY <1>1, <1>2, FrameTyped DEF ResultTaken

LEMMA JobTyped ==
  ASSUME JobsTyped, NEW p \in Workers, NEW j, JobOK(j), Goto(p, j)
  PROVE  JobsTyped' /\ job'[p] = j /\ \A q \in Workers \ {p} : job'[q] = job[q]
<1>1. job'[p] = j /\ \A q \in Workers \ {p} : job'[q] = job[q]
  BY DEF Goto, JobsTyped
<1>2. job' \in [Workers -> Job]
  BY DEF Goto, JobsTyped, JobOK
<1> QED BY <1>1, <1>2 DEF JobsTyped

-----------------------------------------------------------------------------

\* A step that leaves the tables as they were.
LEMMA TablesKept ==
  ASSUME TablesTyped, UNCHANGED <<tables, webhooks>>, broken' \in BOOLEAN
  PROVE  TablesTyped'
BY DEF TablesTyped, tables

LEMMA ServiceKept ==
  ASSUME ServiceTyped, UNCHANGED serviceVars
  PROVE  ServiceTyped'
BY DEF ServiceTyped, serviceVars

LEMMA JobsKept ==
  ASSUME JobsTyped, UNCHANGED job
  PROVE  JobsTyped'
BY DEF JobsTyped

LEMMA LearnTyped ==
  ASSUME everHeld \in [Users -> SUBSET UserFlag], NEW u \in Users, NEW f \in UserFlag,
         Learn(u, f)
  PROVE  everHeld' \in [Users -> SUBSET UserFlag]
BY DEF Learn

\* A worker whose job is under way works for a user.
LEMMA JobUser ==
  ASSUME JobsTyped, NEW p \in Workers
  PROVE  /\ JobOK(job[p]) /\ job[p] \in Job
         /\ job[p].step # "none" => job[p].user \in Users
BY DEF JobsTyped, JobOK

\* What each step makes of its job, if anything.
LEMMA FindSessionsJob ==
  ASSUME JobsTyped, NEW p \in Workers, FindSessions(p)
  PROVE  \E j : /\ JobOK(j) /\ Goto(p, j)
                /\ j.step = "nextSession" /\ j.loop = job[p].loop
                /\ j.user = job[p].user /\ j.account = job[p].account
                /\ j.answer = job[p].answer
                /\ j.todo = {s \in Sessions : /\ UserOf[s] = job[p].user
                                              /\ sessionState[s] = Source(job[p].loop)}
<1>1. PICK todo : todo = {s \in Sessions : /\ UserOf[s] = job[p].user
                                           /\ sessionState[s] = Source(job[p].loop)}
  OBVIOUS
<1>2. PICK j : j = [job[p] EXCEPT !.step = "nextSession", !.todo = todo]
  OBVIOUS
<1>3. /\ JobOK(job[p]) /\ job[p] \in Job /\ job[p].user \in Users
      /\ job[p].step = "findSessions" /\ Goto(p, j)
  BY <1>1, <1>2, JobUser DEF FindSessions
<1>4. todo \in SUBSET Sessions
  BY <1>1
<1>5. /\ j \in Job /\ j.step = "nextSession" /\ j.loop = job[p].loop /\ j.todo = todo
      /\ j.user = job[p].user /\ j.account = job[p].account /\ j.answer = job[p].answer
  BY <1>2, <1>3, <1>4 DEF Job, JobStep
<1>6. JobOK(j)
  BY <1>3, <1>5 DEF JobOK, Looping
<1> QED BY <1>1, <1>3, <1>5, <1>6

LEMMA NextSessionJob ==
  ASSUME JobsTyped, NEW p \in Workers, NEW s \in job[p].todo,
         job[p].step = "nextSession",
         Goto(p, [job[p] EXCEPT !.step = "sessionMoved", !.todo = @ \ {s}])
  PROVE  \E j : /\ JobOK(j) /\ Goto(p, j)
                /\ j.step = "sessionMoved" /\ j.loop = job[p].loop
                /\ j.user = job[p].user /\ j.account = job[p].account
                /\ j.answer = job[p].answer
                /\ j.todo = job[p].todo \ {s}
<1>1. PICK todo : todo = job[p].todo \ {s}
  OBVIOUS
<1>2. PICK j : j = [job[p] EXCEPT !.step = "sessionMoved", !.todo = todo]
  OBVIOUS
<1>3. /\ JobOK(job[p]) /\ job[p] \in Job /\ job[p].user \in Users /\ Goto(p, j)
  BY <1>1, <1>2, JobUser
<1>4. todo \in SUBSET Sessions
  BY <1>1, <1>3 DEF Job
<1>5. /\ j \in Job /\ j.step = "sessionMoved" /\ j.loop = job[p].loop /\ j.todo = todo
      /\ j.user = job[p].user /\ j.account = job[p].account /\ j.answer = job[p].answer
  BY <1>2, <1>3, <1>4 DEF Job, JobStep
<1>6. JobOK(j)
  BY <1>3, <1>5 DEF JobOK, Looping
<1> QED BY <1>1, <1>3, <1>5, <1>6

LEMMA SessionMovedJob ==
  ASSUME JobsTyped, NEW p \in Workers, job[p].step = "sessionMoved",
         Goto(p, [job[p] EXCEPT !.step = "nextSession"])
  PROVE  \E j : /\ JobOK(j) /\ Goto(p, j)
                /\ j.step = "nextSession" /\ j.loop = job[p].loop
                /\ j.user = job[p].user /\ j.account = job[p].account
                /\ j.answer = job[p].answer
                /\ j.todo = job[p].todo
<1>1. PICK j : j = [job[p] EXCEPT !.step = "nextSession"]
  OBVIOUS
<1>2. /\ JobOK(job[p]) /\ job[p] \in Job /\ job[p].user \in Users /\ Goto(p, j)
  BY <1>1, JobUser
<1>3. /\ j \in Job /\ j.step = "nextSession" /\ j.loop = job[p].loop
      /\ j.user = job[p].user /\ j.account = job[p].account /\ j.todo = job[p].todo
      /\ j.answer = job[p].answer
  BY <1>1, <1>2 DEF Job, JobStep
<1>4. JobOK(j)
  BY <1>2, <1>3 DEF JobOK, Looping
<1> QED BY <1>2, <1>3, <1>4

LEMMA KycWebhookJob ==
  ASSUME NEW u \in Users, NEW p \in Workers,
         Goto(p, [NoJob EXCEPT !.step = "saveProfile", !.user = u])
  PROVE  \E j : JobOK(j) /\ Goto(p, j) /\ j.step = "saveProfile" /\ j.user = u
<1>1. PICK j : j = [NoJob EXCEPT !.step = "saveProfile", !.user = u]
  OBVIOUS
<1>2. j \in Job /\ j.step = "saveProfile" /\ j.user = u
  BY <1>1, NoJobOK DEF Job, JobStep
<1>3. JobOK(j)
  BY <1>2 DEF JobOK, Looping
<1> QED BY <1>1, <1>2, <1>3

LEMMA GotoLoop ==
  ASSUME JobsTyped, NEW p \in Workers, job[p].step # "none", NEW loop \in Loop,
         Goto(p, InLoop(job[p], loop))
  PROVE  \E j : /\ JobOK(j) /\ Goto(p, j)
                /\ j.step = "findSessions" /\ j.loop = loop
                /\ j.user = job[p].user /\ j.account = job[p].account
                /\ j.answer = job[p].answer
<1>1. job[p] \in Job /\ job[p].user \in Users
  BY JobUser
<1>2. PICK j : /\ j = InLoop(job[p], loop)
               /\ JobOK(j) /\ j.step = "findSessions" /\ j.loop = loop
               /\ j.user = job[p].user /\ j.account = job[p].account
               /\ j.answer = job[p].answer
  BY <1>1, InLoopOK
<1> QED BY <1>2

LEMMA SubmitPackJob ==
  ASSUME JobsTyped, NEW p \in Workers, NEW a \in PartnerAnswers, SubmitPack(p, a)
  PROVE  \E j : JobOK(j) /\ Goto(p, j) /\ j.step = "createSubmission" /\ j.user = job[p].user
<1>1. PICK j : j = [job[p] EXCEPT !.step = "createSubmission", !.answer = a]
  OBVIOUS
<1>2. /\ job[p] \in Job /\ job[p].user \in Users /\ Goto(p, j)
  BY <1>1, JobUser DEF SubmitPack
<1>3. /\ j \in Job /\ j.step = "createSubmission" /\ j.answer = a /\ j.user = job[p].user
  BY <1>1, <1>2 DEF Job, JobStep
<1>4. JobOK(j)
  BY <1>2, <1>3 DEF JobOK, Looping
<1> QED BY <1>2, <1>3, <1>4

LEMMA FindAccountJob ==
  ASSUME JobsTyped, TablesTyped, NEW p \in Workers, FindAccount(p)
  PROVE  \E j : /\ JobOK(j) /\ Goto(p, j) /\ j.step = "findSessions" /\ j.user = job[p].user
                /\ j.answer = job[p].answer
                /\ \/ /\ j.loop = "bank_link_required"
                      /\ HasActiveAccount(job[p].user)
                   \/ /\ j.loop = "named_account_pending"
                      /\ ~ HasActiveAccount(job[p].user)
                      /\ j.account = Len(accounts[job[p].user])
<1>0. /\ job[p] \in Job /\ job[p].user \in Users /\ job[p].step # "none"
      /\ "named_account_pending" \in Loop /\ "bank_link_required" \in Loop
  BY JobUser DEF FindAccount, Loop
<1>1. CASE HasActiveAccount(job[p].user)
  BY <1>0, <1>1, GotoLoop DEF FindAccount
<1>2. CASE ~ HasActiveAccount(job[p].user)
  <2>1. PICK i : /\ i = InLoop(job[p], "named_account_pending")
                 /\ JobOK(i) /\ i.step = "findSessions" /\ i.loop = "named_account_pending"
                 /\ i.user = job[p].user /\ i.answer = job[p].answer
    BY <1>0, InLoopOK
  <2>2. PICK n : n = Len(accounts[job[p].user])
    OBVIOUS
  <2>3. n \in 0..MaxAccounts
    <3>1. accounts[job[p].user] \in Seq({"active", "pending"})
      BY <1>0 DEF TablesTyped
    <3> QED BY <1>0, <2>2, <3>1, BoundAssumption DEF TablesTyped
  <2>4. PICK j : j = [i EXCEPT !.account = n]
    OBVIOUS
  <2>5. /\ j \in Job /\ j.step = "findSessions" /\ j.loop = "named_account_pending"
        /\ j.user = job[p].user /\ j.account = n /\ j.answer = job[p].answer
    BY <2>1, <2>3, <2>4 DEF Job, JobOK
  <2>6. JobOK(j)
    BY <1>0, <2>5 DEF JobOK, Loop
  <2>7. Goto(p, j)
    BY <1>2, <2>1, <2>2, <2>4 DEF FindAccount
  <2> QED BY <1>2, <2>2, <2>5, <2>6, <2>7
<1> QED BY <1>1, <1>2

LEMMA ProvisionJob ==
  ASSUME JobsTyped, NEW p \in Workers, NEW r \in BankReplies, Provision(p, r)
  PROVE  \E j : /\ JobOK(j) /\ Goto(p, j)
                /\ \/ j = NoJob
                   \/ /\ j.step = "saveAccount"
                      /\ j.user = job[p].user /\ j.account = job[p].account
<1>0. job[p] \in Job /\ job[p].user \in Users /\ job[p].step # "none"
  BY JobUser DEF Provision
<1>1. PICK a : a = provisionNamedAccount(r)
  OBVIOUS
<1>2. CASE a = "refused"
  BY <1>1, <1>2, NoJobOK DEF Provision, Finish
<1>3. CASE a # "refused"
  <2>1. a \in {"active", "pending"}
    BY <1>1, <1>3, BankAssumption DEF provisionNamedAccount, NoToken
  <2>2. PICK j : j = [job[p] EXCEPT !.step = "saveAccount", !.answer = a]
    OBVIOUS
  <2>3. /\ j \in Job /\ j.step = "saveAccount" /\ j.answer = a /\ j.user = job[p].user
        /\ j.account = job[p].account
    BY <1>0, <2>1, <2>2 DEF Job, JobStep
  <2>4. JobOK(j)
    BY <1>0, <2>1, <2>3 DEF JobOK, Looping
  <2> QED BY <1>1, <1>3, <2>2, <2>3, <2>4 DEF Provision
<1> QED BY <1>2, <1>3

\* What SaveAccount makes of the user's rows.
SavedRows(j) ==
  IF j.account = 0 THEN Append(accounts[j.user], j.answer)
                   ELSE [accounts[j.user] EXCEPT ![j.account] = j.answer]

LEMMA SavedRowsType ==
  ASSUME JobsTyped, TablesTyped, NEW p \in Workers, SaveAccount(p)
  PROVE  /\ SavedRows(job[p]) \in Seq({"active", "pending"})
         /\ Len(SavedRows(job[p])) <= MaxAccounts
<1>1. /\ job[p].user \in Users /\ job[p].answer \in {"active", "pending"}
      /\ job[p].account \in Nat
  BY JobUser, BoundAssumption DEF SaveAccount, JobOK, Job
<1>2. PICK rows : rows = accounts[job[p].user]
  OBVIOUS
<1>3. rows \in Seq({"active", "pending"}) /\ Len(rows) <= MaxAccounts
  BY <1>1, <1>2 DEF TablesTyped
<1>4. CASE job[p].account = 0
  <2>1. Len(rows) < MaxAccounts
    BY <1>2, <1>4 DEF SaveAccount
  <2>2. SavedRows(job[p]) = Append(rows, job[p].answer)
    BY <1>2, <1>4 DEF SavedRows
  <2> QED BY <1>1, <1>3, <2>1, <2>2, BoundAssumption
<1>5. CASE job[p].account # 0
  <2>1. SavedRows(job[p]) = [rows EXCEPT ![job[p].account] = job[p].answer]
    BY <1>2, <1>5 DEF SavedRows
  <2>2. CASE job[p].account \in 1..Len(rows)
    BY <1>1, <1>3, <2>1, <2>2, ExceptSeq
  <2>3. CASE job[p].account \notin 1..Len(rows)
    <3>1. DOMAIN rows = 1..Len(rows) /\ rows = [i \in DOMAIN rows |-> rows[i]]
      BY <1>3
    <3>2. SavedRows(job[p]) = rows
      BY <2>1, <2>3, <3>1
    <3> QED BY <1>3, <3>2
  <2> QED BY <2>2, <2>3
<1> QED BY <1>4, <1>5

LEMMA SaveAccountJob ==
  ASSUME JobsTyped, NEW p \in Workers, SaveAccount(p)
  PROVE  \E j : /\ JobOK(j) /\ Goto(p, j)
                /\ \/ /\ job[p].answer = "active"
                      /\ j.step = "findSessions" /\ j.loop = "bank_link_required"
                      /\ j.user = job[p].user
                   \/ job[p].answer # "active" /\ j = NoJob
<1>1. job[p].step # "none" /\ "bank_link_required" \in Loop
  BY DEF SaveAccount, Loop
<1>2. CASE job[p].answer = "active"
  BY <1>1, <1>2, GotoLoop DEF SaveAccount
<1>3. CASE job[p].answer # "active"
  BY <1>3, NoJobOK DEF SaveAccount, Finish
<1> QED BY <1>2, <1>3

LEMMA SavedTables ==
  ASSUME JobsTyped, TablesTyped, NEW p \in Workers, SaveAccount(p), UNCHANGED broken
  PROVE  /\ TablesTyped'
         /\ accounts'[job[p].user] = SavedRows(job[p])
         /\ \A u \in Users : u # job[p].user => accounts'[u] = accounts[u]
<1>1. job[p].user \in Users
  BY JobUser DEF SaveAccount
<1>2. PICK rows : rows = SavedRows(job[p])
  OBVIOUS
<1>3. rows \in Seq({"active", "pending"}) /\ Len(rows) <= MaxAccounts
  BY <1>2, SavedRowsType
<1>4. accounts' = [accounts EXCEPT ![job[p].user] = rows]
  BY <1>2 DEF SaveAccount, SavedRows
<1>5. /\ accounts' \in [Users -> Seq({"active", "pending"})]
      /\ accounts'[job[p].user] = rows
      /\ \A u \in Users : u # job[p].user => accounts'[u] = accounts[u]
  BY <1>1, <1>3, <1>4 DEF TablesTyped
<1>6. \A u \in Users : Len(accounts'[u]) <= MaxAccounts
  BY <1>3, <1>5 DEF TablesTyped
<1>7. everHeld' \in [Users -> SUBSET UserFlag]
  BY <1>1, LearnTyped DEF SaveAccount, TablesTyped, UserFlag
<1> QED BY <1>2, <1>5, <1>6, <1>7 DEF TablesTyped, SaveAccount

LEMMA TypedAtFirst ==
  ASSUME Init PROVE Typed
<1>1. ServiceTyped
  BY FrameTypes DEF Init, ServiceTyped, Frame
<1>2. TablesTyped
  <2>1. << >> \in Seq({"active", "pending"}) /\ Len(<< >>) = 0
    BY EmptySeq
  <2>2. PICK e : e = << >> /\ e \in Seq({"active", "pending"}) /\ Len(e) = 0
    BY <2>1
  <2>3. accounts = [u \in Users |-> e]
    BY <2>2 DEF Init
  <2>4. /\ accounts \in [Users -> Seq({"active", "pending"})]
        /\ \A u \in Users : Len(accounts[u]) <= MaxAccounts
    BY <2>2, <2>3, BoundAssumption
  <2>5. /\ submission \in [Users -> PartnerAnswers \cup {Absent}]
        /\ everHeld \in [Users -> SUBSET UserFlag]
    BY DEF Init
  <2>6. approved = {} /\ webhooks = 0 /\ broken = FALSE
    BY DEF Init
  <2>7. approved \subseteq Users /\ broken \in BOOLEAN
    BY <2>6
  <2>8. webhooks \in 0..MaxWebhooks
    BY <2>6, BoundAssumption
  <2> QED BY <2>4, <2>5, <2>7, <2>8 DEF TablesTyped
<1>3. JobsTyped
  <2>1. PICK j : j = NoJob
    OBVIOUS
  <2>2. job = [p \in Workers |-> j] /\ j \in Job /\ JobOK(j)
    BY <2>1, NoJobOK DEF Init
  <2> QED BY <2>2 DEF JobsTyped
<1> QED BY <1>1, <1>2, <1>3 DEF Typed

LEMMA TypedStep ==
  ASSUME Typed, [Next]_vars
  PROVE  Typed'
<1> USE DEF Typed
<1>1. ASSUME NEW p \in Workers, NEW j, JobOK(j), Goto(p, j)
      PROVE  JobsTyped'
  BY <1>1, JobTyped
<1>2. ASSUME NEW s \in Sessions, OpenSession(s), UNCHANGED broken
      PROVE  Typed'
  <2>1. ServiceTyped'
    BY <1>2, FirstStateNeedsNothing, DirectionOfAssumption DEF OpenSession, CreateSession, ServiceTyped
  <2> QED BY <1>2, <2>1, TablesKept, JobsKept DEF OpenSession, TablesTyped
<1>3. ASSUME NEW p \in Workers, NEW u \in Users, KycWebhook(p, u), UNCHANGED broken
      PROVE  Typed'
  <2>1. JobsTyped'
    BY <1>1, <1>3, KycWebhookJob DEF KycWebhook
  <2>2. TablesTyped'
    BY <1>3, BoundAssumption DEF KycWebhook, TablesTyped, tables
  <2> QED BY <1>3, <2>1, <2>2, ServiceKept DEF KycWebhook
<1>4. ASSUME NEW p \in Workers, TransitionStep(p), Untouched, UNCHANGED broken
      PROVE  Typed'
  <2>1. ServiceTyped'
    BY <1>4, TransitionTyped DEF TransitionStep
  <2> QED BY <1>4, <2>1, TablesKept, JobsKept DEF Untouched, TablesTyped
<1>5. ASSUME NEW p \in Workers, FindSessions(p), UNCHANGED broken
      PROVE  Typed'
  BY <1>1, <1>5, FindSessionsJob, TablesKept, ServiceKept DEF FindSessions, TablesTyped
<1>6. ASSUME NEW p \in Workers, NextSession(p), UNCHANGED broken
      PROVE  Typed'
  <2>1. job[p].step = "nextSession" /\ JobOK(job[p]) /\ job[p] \in Job /\ job[p].loop \in Loop
    BY <1>6, JobUser DEF NextSession, JobOK, Looping
  <2>2. TablesTyped'
    BY <1>6, TablesKept DEF NextSession, TablesTyped
  <2>3. ASSUME NEW s \in job[p].todo, Ask(p, s, job[p].loop, Reason(job[p].loop)),
               Goto(p, [job[p] EXCEPT !.step = "sessionMoved", !.todo = @ \ {s}])
        PROVE  Typed'
    <3>1. s \in Sessions
      BY <2>1 DEF Job
    <3>2. ServiceTyped'
      BY <2>1, <2>3, <3>1, AskTyped
    <3>3. JobsTyped'
      BY <1>1, <2>1, <2>3, NextSessionJob
    <3> QED BY <2>2, <3>2, <3>3
  <2>4. ASSUME Goto(p, After(job[p])), UNCHANGED serviceVars
        PROVE  Typed'
    BY <1>1, <2>1, <2>2, <2>4, AfterLoop, ServiceKept
  <2> QED BY <1>6, <2>3, <2>4 DEF NextSession
<1>7. ASSUME NEW p \in Workers, SessionMoved(p), UNCHANGED broken
      PROVE  Typed'
  <2>1. TablesTyped'
    BY <1>7, TablesKept DEF SessionMoved, TablesTyped
  <2>2. ServiceTyped'
    BY <1>7, ResultTyped DEF SessionMoved
  <2>3. JobsTyped'
    BY <1>1, <1>7, SessionMovedJob, NoJobOK DEF SessionMoved, Finish
  <2> QED BY <2>1, <2>2, <2>3
<1>8. ASSUME NEW p \in Workers, SaveProfile(p), UNCHANGED broken
      PROVE  Typed'
  <2>1. job[p].step # "none" /\ job[p].user \in Users /\ "kyc_ok" \in Loop
    BY <1>8, JobUser DEF SaveProfile, Loop
  <2>2. TablesTyped'
    <3>1. everHeld' \in [Users -> SUBSET UserFlag]
      BY <1>8, <2>1, LearnTyped DEF SaveProfile, TablesTyped, UserFlag
    <3> QED BY <1>8, <2>1, <3>1 DEF SaveProfile, TablesTyped
  <2>3. JobsTyped'
    BY <1>1, <1>8, <2>1, GotoLoop DEF SaveProfile
  <2> QED BY <1>8, <2>2, <2>3, ServiceKept DEF SaveProfile
<1>9. ASSUME NEW p \in Workers, NEW a \in PartnerAnswers, SubmitPack(p, a), UNCHANGED broken
      PROVE  Typed'
  BY <1>1, <1>9, SubmitPackJob, TablesKept, ServiceKept DEF SubmitPack, TablesTyped
<1>10. ASSUME NEW p \in Workers, CreateSubmission(p), UNCHANGED broken
       PROVE  Typed'
  <2>1. /\ job[p].step # "none" /\ job[p].user \in Users /\ job[p].answer \in PartnerAnswers
        /\ "compliance_handoff_pending" \in Loop
    BY <1>10, JobUser DEF CreateSubmission, Loop, JobOK
  <2>2. TablesTyped'
    <3>1. everHeld' \in [Users -> SUBSET UserFlag]
      BY <1>10, <2>1, LearnTyped DEF CreateSubmission, TablesTyped, UserFlag
    <3>2. submission' \in [Users -> PartnerAnswers \cup {Absent}]
      BY <1>10, <2>1 DEF CreateSubmission, TablesTyped
    <3> QED BY <1>10, <3>1, <3>2 DEF CreateSubmission, TablesTyped
  <2>3. JobsTyped'
    BY <1>1, <1>10, <2>1, GotoLoop DEF CreateSubmission
  <2> QED BY <1>10, <2>2, <2>3, ServiceKept DEF CreateSubmission
<1>11. ASSUME NEW p \in Workers, FindAccount(p), UNCHANGED broken
       PROVE  Typed'
  BY <1>1, <1>11, FindAccountJob, TablesKept, ServiceKept DEF FindAccount, TablesTyped
<1>12. ASSUME NEW p \in Workers, NEW r \in BankReplies, Provision(p, r), UNCHANGED broken
       PROVE  Typed'
  BY <1>1, <1>12, ProvisionJob, TablesKept, ServiceKept DEF Provision, TablesTyped
<1>13. ASSUME NEW p \in Workers, SaveAccount(p), UNCHANGED broken
       PROVE  Typed'
  BY <1>1, <1>13, SavedTables, SaveAccountJob, ServiceKept DEF SaveAccount
<1>14. ASSUME NEW p \in Workers, QueryFails(p), broken' = TRUE, Untouched
       PROVE  Typed'
  BY <1>14, TransitionTyped, TablesKept, JobsKept DEF Untouched
<1>15. ASSUME NEW p \in Workers, JobFails(p)
       PROVE  Typed'
  BY <1>1, <1>15, NoJobOK, TablesKept, ServiceKept DEF JobFails, Finish
<1>16. CASE UNCHANGED vars
  BY <1>16, TablesKept, JobsKept, ServiceKept DEF vars, TablesTyped
<1> QED
  BY <1>2, <1>3, <1>4, <1>5, <1>6, <1>7, <1>8, <1>9, <1>10, <1>11, <1>12, <1>13, <1>14,
     <1>15, <1>16 DEF Next, Work

\* The rows and the jobs of the onboarding path have their types, whatever
\* deliveries, sessions and failures overlap.
THEOREM TypesAreRight == Spec => []TypeOK
<1>1. Typed => TypeOK
  BY DEF Typed, ServiceTyped, TablesTyped, JobsTyped, TypeOK
<1> QED BY <1>1, TypedAtFirst, TypedStep, PTL DEF Spec

-----------------------------------------------------------------------------
(***************************************************************************)
(* What deliveries know that do not overlap for a user                     *)
(***************************************************************************)

\* No user has two deliveries under way.
OneDeliveryPerUser ==
  \A p, q \in Workers :
    p # q /\ ~ Idle(p) /\ ~ Idle(q) => job[p].user # job[q].user

Active(u) == \E i \in DOMAIN accounts[u] : accounts[u][i] = "active"

\* The job is about to ask the bank for an account, or to save one.
Provisioning(j) ==
  \/ j.step \in {"provision", "saveAccount"}
  \/ Looping(j) /\ j.loop = "named_account_pending"

AccountOK(j) ==
  /\ Provisioning(j) => j.account = Len(accounts[j.user]) /\ ~ Active(j.user)
  /\ Looping(j) /\ j.loop = "bank_link_required" => Active(j.user)

\* The sessions still to move are where the loop found them.
TodoOK(j) ==
  j.step \in {"nextSession", "sessionMoved"} =>
    \A s \in j.todo : UserOf[s] = j.user /\ sessionState[s] = Source(j.loop)

\* A call under way moves one of them, which nobody else touches.
Moving(f, j) ==
  /\ UserOf[f.session] = j.user
  /\ f.session \notin j.todo
  /\ f.to = j.loop
  /\ f.reason = Reason(j.loop)
  /\ f.step = "appendEvent" => sessionState[f.session] = j.loop
  /\ f.step # "appendEvent" => sessionState[f.session] = Source(j.loop)
  /\ f.step \in {"loadFlags", "updateState"} => f.from = Source(j.loop)

CallOK(f, j) ==
  /\ f.step # "idle" => j.step = "sessionMoved"
  /\ f.step \in Awaited => Moving(f, j)
  /\ f.step = "returned" /\ j.loop = "bank_link_required" /\ ~ broken
       => f.outcome = "ok"

WorkerOK(p) == AccountOK(job[p]) /\ TodoOK(job[p]) /\ CallOK(call[p], job[p])

\* Worker p has yet to move session s on to its bank link.
WillMove(p, s) ==
  /\ job[p].user = UserOf[s]
  /\ job[p].loop = "bank_link_required"
  /\ \/ job[p].step = "findSessions"
     \/ job[p].step \in {"nextSession", "sessionMoved"} /\ s \in job[p].todo
     \/ job[p].step = "sessionMoved" /\ InFlight(p) /\ call[p].session = s

Waits(s) ==
  ~ broken /\ Active(UserOf[s]) /\ sessionState[s] = "named_account_pending" =>
    \E p \in Workers : WillMove(p, s)

IInv ==
  /\ Typed
  /\ OneAccount
  /\ \A p \in Workers : WorkerOK(p)
  /\ \A s \in Sessions : Waits(s)

-----------------------------------------------------------------------------

LEMMA AtMostOne ==
  \A n \in Nat : n <= 1 => n = 0 \/ n = 1
OBVIOUS

\* With one row, the newest is active if any is.
LEMMA NewestRow ==
  ASSUME TablesTyped, OneAccount, NEW u \in Users
  PROVE  HasActiveAccount(u) <=> Active(u)
<1>1. accounts[u] \in Seq({"active", "pending"}) /\ Len(accounts[u]) <= 1
  BY DEF TablesTyped, OneAccount
<1>2. DOMAIN accounts[u] = 1..Len(accounts[u]) /\ Len(accounts[u]) \in Nat
  BY <1>1, LenProperties
<1>3. CASE accounts[u] = << >>
  <2>1. Len(accounts[u]) = 0
    BY <1>3, EmptySeq
  <2>2. ~ Active(u)
    BY <1>2, <2>1 DEF Active
  <2> QED BY <1>3, <2>2 DEF HasActiveAccount
<1>4. CASE accounts[u] # << >>
  <2>1. Len(accounts[u]) # 0
    BY <1>1, <1>4, EmptySeq
  <2>2. Len(accounts[u]) = 1
    BY <1>1, <1>2, <2>1, AtMostOne
  <2>3. DOMAIN accounts[u] = {1}
    BY <1>2, <2>2
  <2> QED BY <1>4, <2>2, <2>3 DEF HasActiveAccount, Active
<1> QED BY <1>3, <1>4

LEMMA SourceIsState ==
  ASSUME NEW loop \in Loop
  PROVE  /\ Source(loop) \in SessionState /\ Source(loop) # loop
         /\ loop \in SessionState /\ Reason(loop) \in TransitionReason
BY DEF Loop, Source, Reason, SessionState, TransitionReason

\* A step that leaves q alone, and the accounts of q's user and the sessions
\* there are of q's user, keeps what q knows.
LEMMA OtherKeeps ==
  ASSUME Typed, NEW q \in Workers, WorkerOK(q),
         UNCHANGED <<job[q], call[q]>>,
         ~ Idle(q) => accounts'[job[q].user] = accounts[job[q].user],
         \A s \in Sessions :
           UserOf[s] = job[q].user /\ sessionState[s] # Absent /\ ~ Idle(q)
             => sessionState'[s] = sessionState[s],
         broken => broken'
  PROVE  WorkerOK(q)'
<1>0. JobOK(job[q]) /\ job[q] \in Job /\ ServiceTyped
  BY JobUser DEF Typed
<1>1. AccountOK(job[q])'
  BY DEF WorkerOK, AccountOK, Provisioning, Looping, Active, Idle
<1>2. TodoOK(job[q])'
  <2>1. SUFFICES ASSUME job[q].step \in {"nextSession", "sessionMoved"}, NEW s \in job[q].todo
                 PROVE  UserOf[s] = job[q].user /\ sessionState'[s] = Source(job[q].loop)
    BY DEF TodoOK
  <2>2. job[q].loop \in Loop /\ s \in Sessions
    BY <1>0, <2>1 DEF JobOK, Looping, Job
  <2>3. UserOf[s] = job[q].user /\ sessionState[s] = Source(job[q].loop)
    BY <2>1 DEF WorkerOK, TodoOK
  <2>4. sessionState[s] # Absent
    BY <2>2, <2>3, SourceIsState, AbsentAssumption
  <2> QED BY <2>1, <2>2, <2>3, <2>4 DEF Idle
<1>3. CallOK(call[q], job[q])'
  <2>1. CASE call[q].step \in Awaited
    <3>1. /\ job[q].step = "sessionMoved" /\ Moving(call[q], job[q])
          /\ call[q].session \in Sessions
      BY <1>0, <2>1, Waiting DEF WorkerOK, CallOK, Awaited
    <3>2. job[q].loop \in Loop
      BY <1>0, <3>1 DEF JobOK, Looping
    <3>3. sessionState[call[q].session] # Absent
      BY <3>1, <3>2, SourceIsState, AbsentAssumption DEF Moving
    <3>4. sessionState'[call[q].session] = sessionState[call[q].session]
      BY <3>1, <3>3 DEF Moving, Idle
    <3> QED BY <2>1, <3>1, <3>4 DEF CallOK, Moving, WorkerOK, Awaited
  <2>2. CASE call[q].step \notin Awaited
    BY <2>2 DEF CallOK, WorkerOK
  <2> QED BY <2>1, <2>2
<1> QED BY <1>1, <1>2, <1>3 DEF WorkerOK

\* A step of worker p that leaves the accounts alone, and the sessions of the
\* other deliveries, keeps the invariant if p keeps its part and forgets no
\* session that waits.
LEMMA WorkerStep ==
  ASSUME IInv, Typed', NEW p \in Workers,
         \A q \in Workers \ {p} : UNCHANGED <<job[q], call[q]>>,
         UNCHANGED accounts,
         broken => broken',
         \A q \in Workers \ {p} : \A s \in Sessions :
           ~ Idle(q) /\ UserOf[s] = job[q].user /\ sessionState[s] # Absent
             => sessionState'[s] = sessionState[s],
         WorkerOK(p)',
         \A s \in Sessions :
           ~ broken' /\ Active(UserOf[s]) /\ sessionState'[s] = "named_account_pending"
             => /\ sessionState[s] = "named_account_pending"
                /\ WillMove(p, s) => WillMove(p, s)'
  PROVE  IInv'
<1>1. OneAccount'
  BY DEF IInv, OneAccount
<1>2. ASSUME NEW q \in Workers PROVE WorkerOK(q)'
  <2>1. CASE q = p
    BY <2>1
  <2>2. CASE q # p
    <3>1. Typed /\ WorkerOK(q) /\ UNCHANGED <<job[q], call[q]>>
      BY <2>2 DEF IInv
    <3>2. \A s \in Sessions :
            UserOf[s] = job[q].user /\ sessionState[s] # Absent /\ ~ Idle(q)
              => sessionState'[s] = sessionState[s]
      BY <2>2
    <3> QED BY <3>1, <3>2, OtherKeeps
  <2> QED BY <2>1, <2>2
<1>3. ASSUME NEW s \in Sessions PROVE Waits(s)'
  <2>1. SUFFICES ASSUME ~ broken', Active(UserOf[s])',
                        sessionState'[s] = "named_account_pending"
                 PROVE  \E q \in Workers : WillMove(q, s)'
    BY DEF Waits
  <2>2. Active(UserOf[s])
    BY <2>1 DEF Active
  <2>3. PICK q \in Workers : WillMove(q, s)
    BY <2>1, <2>2 DEF IInv, Waits
  <2>4. CASE q = p
    BY <2>1, <2>2, <2>3, <2>4
  <2>5. CASE q # p
    BY <2>3, <2>5 DEF WillMove, InFlight
  <2> QED BY <2>4, <2>5
<1> QED BY <1>1, <1>2, <1>3 DEF IInv

\* The steps that write neither a session nor an account, of a worker with no
\* call under way.
LEMMA JobStepKeeps ==
  ASSUME IInv, Typed', NEW p \in Workers, NEW j, JobOK(j), Goto(p, j),
         call[p].step = "idle",
         UNCHANGED <<sessionState, call, accounts>>,
         broken => broken',
         AccountOK(j), TodoOK(j),
         \A s \in Sessions :
           /\ WillMove(p, s) /\ ~ broken' /\ sessionState[s] = "named_account_pending"
           => /\ j.step = "nextSession" /\ j.loop = "bank_link_required"
              /\ j.user = UserOf[s] /\ s \in j.todo
  PROVE  IInv'
<1>1. job'[p] = j /\ \A q \in Workers \ {p} : job'[q] = job[q]
  BY JobTyped DEF IInv, Typed
<1>2. AccountOK(job[p])' /\ TodoOK(job[p])'
  BY <1>1 DEF AccountOK, TodoOK, Provisioning, Looping, Active
<1>3. CallOK(call[p], job[p])'
  BY <1>1 DEF CallOK, Awaited
<1>4. WorkerOK(p)'
  BY <1>2, <1>3 DEF WorkerOK
<1>5. \A s \in Sessions :
        ~ broken' /\ Active(UserOf[s]) /\ sessionState'[s] = "named_account_pending"
             => /\ sessionState[s] = "named_account_pending"
                /\ WillMove(p, s) => WillMove(p, s)'
  BY <1>1 DEF WillMove
<1> QED BY <1>1, <1>4, <1>5, WorkerStep

\* A worker that is not waiting for transition() has no call under way.
LEMMA NoCall ==
  ASSUME IInv, NEW p \in Workers, job[p].step # "sessionMoved"
  PROVE  call[p].step = "idle"
BY DEF IInv, WorkerOK, CallOK

\* Only a worker in its last loop has sessions to move to their bank link.
LEMMA NothingToMove ==
  ASSUME NEW p \in Workers, ~ Looping(job[p])
  PROVE  \A s \in Sessions : ~ WillMove(p, s)
BY DEF Looping, WillMove

-----------------------------------------------------------------------------
(***************************************************************************)
(* The steps of transition()                                               *)
(***************************************************************************)

\* The last loop's call is accepted: the account is active.
LEMMA BankLinkAccepted ==
  ASSUME NEW f, NEW held,
         f.from = "named_account_pending", f.to = "bank_link_required",
         "namedAccountActive" \in held
  PROVE  Verdict(f, held) = "ok"
<1>1. PICK ctx : ctx = Context(f.session, held)
  OBVIOUS
<1>2. ctx.namedAccountActive = TRUE
  BY <1>1 DEF Context
<1>3. checkPrerequisites("named_account_pending", "bank_link_required", ctx, f.reason,
                         RelaxStateGuards) = {}
  BY <1>2 DEF checkPrerequisites, Prerequisite
<1>4. isGraphEdgeAllowed("named_account_pending", "bank_link_required", RelaxStateGuards)
  BY DEF isGraphEdgeAllowed, allowedTargets, BASE_TRANSITIONS
<1>5. "named_account_pending" \notin TERMINAL_STATES
  BY DEF TERMINAL_STATES
<1> QED BY <1>1, <1>3, <1>4, <1>5 DEF Verdict, assertCanTransition

\* The flags found while the only account is active.
LEMMA ActiveFlag ==
  ASSUME TablesTyped, OneAccount, NEW u \in Users, Active(u), NEW held \in Flags(u)
  PROVE  "namedAccountActive" \in held
<1>1. accounts[u] \in Seq({"active", "pending"}) /\ Len(accounts[u]) <= 1
  BY DEF TablesTyped, OneAccount
<1>2. DOMAIN accounts[u] = 1..Len(accounts[u]) /\ Len(accounts[u]) \in Nat
  BY <1>1, LenProperties
<1>3. PICK i \in DOMAIN accounts[u] : accounts[u][i] = "active"
  BY DEF Active
<1>4. Len(accounts[u]) = 1
  <2>1. CASE Len(accounts[u]) = 0
    BY <1>2, <1>3, <2>1
  <2>2. Len(accounts[u]) = 0 \/ Len(accounts[u]) = 1
    BY <1>1, <1>2, AtMostOne
  <2> QED BY <2>1, <2>2
<1>5. DOMAIN accounts[u] = {i}
  BY <1>2, <1>3, <1>4
<1>6. accounts[u] # << >>
  <2>1. CASE accounts[u] = << >>
    <3>1. Len(accounts[u]) = 0
      BY <2>1, EmptySeq
    <3> QED BY <1>4, <3>1
  <2> QED BY <2>1
<1>7. PICK firm : held \in {firm \cup {f \in {"namedAccountActive"} : accounts[u][k] = "active"} :
                              k \in DOMAIN accounts[u]}
  BY <1>6 DEF Flags
<1> QED BY <1>3, <1>5, <1>7

\* What a worker in transition() is at.
LEMMA AtCall ==
  ASSUME IInv, NEW p \in Workers, call[p].step \in Awaited
  PROVE  /\ job[p].step = "sessionMoved" /\ job[p].loop \in Loop /\ job[p].user \in Users
         /\ Moving(call[p], job[p]) /\ WorkerOK(p) /\ ~ Idle(p)
         /\ call[p] \in CallFrame /\ call[p].session \in Sessions
<1>1. call[p] \in CallFrame /\ call[p].session \in Sessions
  BY Waiting DEF IInv, Typed
<1>2. WorkerOK(p) /\ JobOK(job[p])
  BY JobUser DEF IInv, Typed
<1> QED BY <1>1, <1>2 DEF WorkerOK, CallOK, Awaited, JobOK, Looping, Idle

\* A step of transition() that leaves the session as it is.
LEMMA CallStepKeeps ==
  ASSUME IInv, Typed', NEW p \in Workers, NEW f, call' = [call EXCEPT ![p] = f],
         call[p].step \in Awaited,
         UNCHANGED <<sessionState, accounts, job>>,
         broken => broken',
         \/ f.step \in Awaited /\ f.session = call[p].session /\ Moving(f, job[p])
         \/ /\ f.step = "returned"
            /\ job[p].loop = "bank_link_required" /\ ~ broken' =>
                 f.outcome = "ok" /\ sessionState[call[p].session] # "named_account_pending"
  PROVE  IInv'
<1>1. /\ job[p].step = "sessionMoved" /\ job[p].loop \in Loop
      /\ Moving(call[p], job[p]) /\ WorkerOK(p)
  BY AtCall
<1>2. call'[p] = f /\ \A q \in Workers \ {p} : call'[q] = call[q]
  BY DEF IInv, Typed, ServiceTyped
<1>3. AccountOK(job[p])' /\ TodoOK(job[p])'
  BY <1>1 DEF WorkerOK, AccountOK, TodoOK, Provisioning, Looping, Active
<1>4. CallOK(call[p], job[p])'
  BY <1>1, <1>2 DEF CallOK, Moving, Awaited
<1>5. ASSUME NEW s \in Sessions, ~ broken', sessionState'[s] = "named_account_pending",
             WillMove(p, s)
      PROVE  WillMove(p, s)'
  BY <1>1, <1>2, <1>5 DEF WillMove, InFlight, Awaited
<1> QED BY <1>2, <1>3, <1>4, <1>5, WorkerStep DEF WorkerOK

LEMMA FindSessionKeeps ==
  ASSUME IInv, Typed', NEW p \in Workers, FindSession(p), Untouched, UNCHANGED broken
  PROVE  IInv'
<1> DEFINE f == call[p]
           from == sessionState[f.session]
<1>1. f.step = "findSession" /\ f.step \in Awaited
  BY DEF FindSession, Awaited
<1>2. /\ job[p].loop \in Loop /\ Moving(f, job[p]) /\ f \in CallFrame
      /\ from = Source(job[p].loop) /\ f.to = job[p].loop
  BY <1>1, AtCall DEF Moving
<1>3. from \in SessionState /\ from # f.to /\ from # Absent
  BY <1>2, SourceIsState, AbsentAssumption
<1>4. PICK g : g = [f EXCEPT !.step = "loadFlags", !.from = from]
  OBVIOUS
<1>5. StateFound(f, from) = g
  BY <1>3, <1>4 DEF StateFound
<1>6. /\ g.step = "loadFlags" /\ g.from = from /\ g.session = f.session /\ g.to = f.to
      /\ g.reason = f.reason
  BY <1>2, <1>4 DEF CallFrame
<1>7. Moving(g, job[p])
  BY <1>1, <1>2, <1>6 DEF Moving
<1>8. call' = [call EXCEPT ![p] = g] /\ UNCHANGED <<sessionState, accounts, job>>
  BY <1>5 DEF FindSession, Untouched, tables
<1>9. g.step \in Awaited
  BY <1>6 DEF Awaited
<1> QED BY <1>1, <1>6, <1>7, <1>8, <1>9, CallStepKeeps

LEMMA LoadFlagsKeeps ==
  ASSUME IInv, Typed', NEW p \in Workers, NEW s \in Sessions, call[p].session = s,
         NEW held \in Flags(UserOf[s]), LoadFlags(p, held), Untouched, UNCHANGED broken
  PROVE  IInv'
<1> DEFINE f == call[p]
<1>1. f.step = "loadFlags" /\ f.step \in Awaited
  BY DEF LoadFlags, Awaited
<1>2. /\ job[p].loop \in Loop /\ Moving(f, job[p]) /\ f \in CallFrame /\ WorkerOK(p)
      /\ f.from = Source(job[p].loop) /\ f.to = job[p].loop
      /\ UserOf[s] = job[p].user /\ job[p].user \in Users /\ job[p].step = "sessionMoved"
  BY <1>1, AtCall DEF Moving
<1>3. UNCHANGED <<sessionState, accounts, job>>
  BY DEF LoadFlags, Untouched, tables
<1>4. CASE Verdict(f, held) = "ok"
  <2>1. PICK g : g = [f EXCEPT !.step = "updateState"]
    OBVIOUS
  <2>2. /\ g.step = "updateState" /\ g.from = f.from /\ g.session = f.session /\ g.to = f.to
        /\ g.reason = f.reason
    BY <1>2, <2>1 DEF CallFrame
  <2>3. Moving(g, job[p]) /\ g.step \in Awaited
    BY <1>1, <1>2, <2>2 DEF Moving, Awaited
  <2>4. call' = [call EXCEPT ![p] = g]
    BY <1>4, <2>1 DEF LoadFlags
  <2> QED BY <1>1, <1>3, <2>2, <2>3, <2>4, CallStepKeeps
<1>5. CASE Verdict(f, held) # "ok"
  <2>1. PICK g : g = Returned(Verdict(f, held))
    OBVIOUS
  <2>2. g.step = "returned"
    BY <2>1 DEF Returned, IdleFrame
  <2>3. call' = [call EXCEPT ![p] = g]
    BY <1>5, <2>1 DEF LoadFlags
  <2>4. job[p].loop # "bank_link_required"
    <3>1. SUFFICES ASSUME job[p].loop = "bank_link_required" PROVE FALSE
      OBVIOUS
    <3>2. Active(UserOf[s])
      BY <1>2, <3>1 DEF WorkerOK, AccountOK, Looping
    <3>3. TablesTyped /\ OneAccount
      BY DEF IInv, Typed
    <3>4. "namedAccountActive" \in held
      BY <1>2, <3>2, <3>3, ActiveFlag
    <3>5. f.from = "named_account_pending" /\ f.to = "bank_link_required"
      BY <1>2, <3>1 DEF Source
    <3> QED BY <1>5, <3>4, <3>5, BankLinkAccepted
  <2> QED BY <1>1, <1>3, <2>2, <2>3, <2>4, CallStepKeeps
<1> QED BY <1>4, <1>5

LEMMA AppendEventKeeps ==
  ASSUME IInv, Typed', NEW p \in Workers, AppendEvent(p), Untouched, UNCHANGED broken
  PROVE  IInv'
<1>1. call[p].step = "appendEvent" /\ call[p].step \in Awaited
  BY DEF AppendEvent, Awaited
<1>2. sessionState[call[p].session] = job[p].loop
  BY <1>1, AtCall DEF Moving
<1>3. PICK g : g = Returned("ok")
  OBVIOUS
<1>4. g.step = "returned" /\ g.outcome = "ok"
  BY <1>3 DEF Returned, IdleFrame
<1>5. call' = [call EXCEPT ![p] = g] /\ UNCHANGED <<sessionState, accounts, job>>
  BY <1>3 DEF AppendEvent, Untouched, tables
<1> QED BY <1>1, <1>2, <1>4, <1>5, CallStepKeeps

LEMMA QueryFailsKeeps ==
  ASSUME IInv, Typed', NEW p \in Workers, QueryFails(p), Untouched, broken' = TRUE
  PROVE  IInv'
<1>1. call[p].step \in Awaited
  BY DEF QueryFails, InFlight
<1>2. PICK g : g = Returned("query_failed")
  OBVIOUS
<1>3. g.step = "returned"
  BY <1>2 DEF Returned, IdleFrame
<1>4. call' = [call EXCEPT ![p] = g] /\ UNCHANGED <<sessionState, accounts, job>>
  BY <1>2 DEF QueryFails, Untouched, tables
<1> QED BY <1>1, <1>3, <1>4, CallStepKeeps

\* The write touches a session of the worker's own user, on which no other
\* delivery is at work; and it makes one wait for an account only while its
\* user has no active one.
LEMMA UpdateStateKeeps ==
  ASSUME IInv, Typed', OneDeliveryPerUser, NEW p \in Workers,
         UpdateState(p), Untouched, UNCHANGED broken
  PROVE  IInv'
<1> DEFINE f == call[p]
           j == job[p]
<1>1. f.step = "updateState" /\ f.step \in Awaited
  BY DEF UpdateState, Awaited
<1>2. /\ j.step = "sessionMoved" /\ j.loop \in Loop /\ j.user \in Users /\ Moving(f, j)
      /\ WorkerOK(p) /\ f \in CallFrame /\ f.session \in Sessions /\ ~ Idle(p)
  BY <1>1, AtCall
<1>3. PICK g : g = [f EXCEPT !.step = "appendEvent"]
  OBVIOUS
<1>4. /\ g.step = "appendEvent" /\ g.session = f.session /\ g.to = f.to /\ g.reason = f.reason
      /\ g.step \in Awaited
  BY <1>2, <1>3 DEF CallFrame, Awaited
<1>5. /\ call'[p] = g /\ \A q \in Workers \ {p} : call'[q] = call[q]
      /\ sessionState'[f.session] = j.loop
      /\ \A s \in Sessions : s # f.session => sessionState'[s] = sessionState[s]
      /\ UNCHANGED <<job, accounts>>
  BY <1>2, <1>3 DEF UpdateState, Untouched, tables, IInv, Typed, ServiceTyped, Moving
<1>6. AccountOK(j)'
  BY <1>2, <1>5 DEF WorkerOK, AccountOK, Provisioning, Looping, Active
<1>7. TodoOK(j)'
  <2>1. ASSUME NEW s \in j.todo PROVE UserOf[s] = j.user /\ sessionState'[s] = Source(j.loop)
    <3>1. s \in Sessions /\ s # f.session
      BY <1>2, JobUser DEF IInv, Typed, Job, Moving
    <3> QED BY <1>2, <1>5, <3>1 DEF WorkerOK, TodoOK
  <2> QED BY <1>5, <2>1 DEF TodoOK
<1>8. CallOK(call[p], j)'
  BY <1>2, <1>4, <1>5 DEF CallOK, Moving, Awaited
<1>9. \A q \in Workers \ {p} : \A s \in Sessions :
        ~ Idle(q) /\ UserOf[s] = job[q].user /\ sessionState[s] # Absent
          => sessionState'[s] = sessionState[s]
  BY <1>2, <1>5 DEF OneDeliveryPerUser, Moving
<1>10. ASSUME NEW s \in Sessions, Active(UserOf[s]), sessionState'[s] = "named_account_pending"
       PROVE  /\ sessionState[s] = "named_account_pending"
              /\ WillMove(p, s) => WillMove(p, s)'
  <2>1. s # f.session
    <3>1. SUFFICES ASSUME s = f.session PROVE FALSE
      OBVIOUS
    <3>2. j.loop = "named_account_pending" /\ UserOf[s] = j.user
      BY <1>2, <1>5, <1>10, <3>1 DEF Moving
    <3>3. ~ Active(j.user)
      BY <1>2, <3>2 DEF WorkerOK, AccountOK, Provisioning, Looping
    <3> QED BY <1>10, <3>2, <3>3
  <2> QED BY <1>1, <1>2, <1>4, <1>5, <1>10, <2>1 DEF WillMove, InFlight
<1> QED BY <1>5, <1>6, <1>7, <1>8, <1>9, <1>10, WorkerStep DEF WorkerOK

-----------------------------------------------------------------------------
(***************************************************************************)
(* The steps of the handler                                                *)
(***************************************************************************)

LEMMA AskKeeps ==
  ASSUME IInv, Typed', NEW p \in Workers, job[p].step = "nextSession", NEW s \in job[p].todo,
         Ask(p, s, job[p].loop, Reason(job[p].loop)),
         Goto(p, [job[p] EXCEPT !.step = "sessionMoved", !.todo = @ \ {s}]),
         UNCHANGED <<tables, broken>>
  PROVE  IInv'
<1>1. /\ JobsTyped /\ ServiceTyped /\ JobOK(job[p]) /\ job[p] \in Job /\ WorkerOK(p)
  BY JobUser DEF IInv, Typed
<1>2. job[p].loop \in Loop /\ s \in Sessions
  BY <1>1 DEF JobOK, Looping, Job
<1>3. PICK j : /\ JobOK(j) /\ Goto(p, j)
               /\ j.step = "sessionMoved" /\ j.loop = job[p].loop
               /\ j.user = job[p].user /\ j.account = job[p].account
               /\ j.todo = job[p].todo \ {s}
  BY <1>1, NextSessionJob
<1>4. job'[p] = j /\ \A q \in Workers \ {p} : job'[q] = job[q]
  BY <1>1, <1>3, JobTyped
<1>5. /\ \A q \in Workers \ {p} : call'[q] = call[q]
      /\ call'[p].step = "findSession" /\ call'[p].session = s
      /\ call'[p].to = job[p].loop /\ call'[p].reason = Reason(job[p].loop)
  BY <1>1, <1>2, AskTyped
<1>6. UNCHANGED <<sessionState, accounts, broken>>
  BY DEF Ask, tables
<1>7. AccountOK(job[p])'
  BY <1>1, <1>3, <1>4, <1>6 DEF WorkerOK, AccountOK, Provisioning, Looping, Active
<1>8. \A t \in job[p].todo : UserOf[t] = job[p].user /\ sessionState[t] = Source(job[p].loop)
  BY <1>1 DEF WorkerOK, TodoOK
<1>9. TodoOK(job[p])'
  BY <1>3, <1>4, <1>6, <1>8 DEF TodoOK
<1>10. CallOK(call[p], job[p])'
  BY <1>3, <1>4, <1>5, <1>6, <1>8 DEF CallOK, Moving
<1>11. ASSUME NEW t \in Sessions, WillMove(p, t) PROVE WillMove(p, t)'
  BY <1>3, <1>4, <1>5, <1>11 DEF WillMove, InFlight, Awaited
<1> QED BY <1>4, <1>5, <1>6, <1>7, <1>9, <1>10, <1>11, WorkerStep DEF WorkerOK

LEMMA NextSessionKeeps ==
  ASSUME IInv, Typed', NEW p \in Workers, NextSession(p), UNCHANGED broken
  PROVE  IInv'
<1>1. job[p].step = "nextSession" /\ UNCHANGED tables
  BY DEF NextSession
<1>2. CASE \E s \in job[p].todo :
             /\ Ask(p, s, job[p].loop, Reason(job[p].loop))
             /\ Goto(p, [job[p] EXCEPT !.step = "sessionMoved", !.todo = @ \ {s}])
  BY <1>1, <1>2, AskKeeps
<1>3. CASE job[p].todo = {} /\ Goto(p, After(job[p])) /\ UNCHANGED serviceVars
  <2>1. JobOK(job[p]) /\ WorkerOK(p)
    BY JobUser DEF IInv, Typed
  <2>2. PICK i : /\ i = After(job[p]) /\ JobOK(i)
                 /\ \/ i = NoJob
                    \/ /\ i.user = job[p].user /\ i.account = job[p].account
                       /\ \/ i.step = "submitPack"
                          \/ i.step = "findSessions" /\ i.loop = "compliance_handoff_ok"
                          \/ i.step = "findAccount"
                          \/ i.step = "provision" /\ job[p].loop = "named_account_pending"
    BY <1>1, <2>1, AfterLoop
  <2>3. AccountOK(i) /\ TodoOK(i)
    BY <1>1, <2>1, <2>2, NoJobOK DEF AccountOK, TodoOK, Provisioning, Looping, WorkerOK
  <2>4. \A s \in Sessions : ~ WillMove(p, s)
    BY <1>1, <1>3 DEF WillMove
  <2>5. call[p].step = "idle"
    BY <1>1, NoCall
  <2>6. UNCHANGED <<sessionState, call, accounts>> /\ Goto(p, i)
    BY <1>1, <1>3, <2>2 DEF serviceVars, tables
  <2> QED BY <2>2, <2>3, <2>4, <2>5, <2>6, JobStepKeeps
<1> QED BY <1>2, <1>3 DEF NextSession

LEMMA SessionMovedKeeps ==
  ASSUME IInv, Typed', NEW p \in Workers, SessionMoved(p), UNCHANGED broken
  PROVE  IInv'
<1>1. /\ job[p].step = "sessionMoved" /\ JobsTyped /\ ServiceTyped /\ WorkerOK(p)
      /\ JobOK(job[p]) /\ UNCHANGED <<sessionState, accounts>> /\ call[p].step = "returned"
  BY JobUser DEF SessionMoved, IInv, Typed, tables, ResultTaken
<1>2. call'[p].step = "idle" /\ \A q \in Workers \ {p} : call'[q] = call[q]
  BY <1>1, ResultTyped DEF SessionMoved
<1>3. ASSUME NEW j, JobOK(j), Goto(p, j), AccountOK(j), TodoOK(j),
             \A s \in Sessions :
               WillMove(p, s) /\ ~ broken =>
                 /\ j.step = "nextSession" /\ j.loop = "bank_link_required"
                 /\ j.user = UserOf[s] /\ s \in j.todo
      PROVE  IInv'
  <2>1. job'[p] = j /\ \A q \in Workers \ {p} : job'[q] = job[q]
    BY <1>1, <1>3, JobTyped
  <2>2. AccountOK(job[p])' /\ TodoOK(job[p])'
    BY <1>1, <1>3, <2>1 DEF AccountOK, TodoOK, Provisioning, Looping, Active
  <2>3. CallOK(call[p], job[p])'
    BY <1>2 DEF CallOK, Awaited
  <2>4. \A s \in Sessions : WillMove(p, s) /\ ~ broken' => WillMove(p, s)'
    BY <1>3, <2>1 DEF WillMove
  <2> QED BY <1>1, <1>2, <2>1, <2>2, <2>3, <2>4, WorkerStep DEF WorkerOK
<1>4. \A s \in Sessions : WillMove(p, s) => /\ job[p].loop = "bank_link_required"
                                             /\ job[p].user = UserOf[s] /\ s \in job[p].todo
  BY <1>1 DEF WillMove, InFlight, Awaited
<1>5. CASE Goto(p, [job[p] EXCEPT !.step = "nextSession"])
  <2>1. PICK j : /\ JobOK(j) /\ Goto(p, j)
                 /\ j.step = "nextSession" /\ j.loop = job[p].loop
                 /\ j.user = job[p].user /\ j.account = job[p].account
                 /\ j.todo = job[p].todo
    BY <1>1, <1>5, SessionMovedJob
  <2>2. AccountOK(j) /\ TodoOK(j)
    BY <1>1, <2>1 DEF WorkerOK, AccountOK, TodoOK, Provisioning, Looping
  <2> QED BY <1>3, <1>4, <2>1, <2>2
<1>6. CASE Finish(p) /\ call[p].outcome # "ok"
  <2>1. PICK j : j = NoJob
    OBVIOUS
  <2>2. JobOK(j) /\ Goto(p, j) /\ j.step = "none"
    BY <1>6, <2>1, NoJobOK DEF Finish
  <2>3. AccountOK(j) /\ TodoOK(j)
    BY <2>2 DEF AccountOK, TodoOK, Provisioning, Looping
  <2>4. \A s \in Sessions : ~ (WillMove(p, s) /\ ~ broken)
    BY <1>1, <1>4, <1>6 DEF WorkerOK, CallOK
  <2> QED BY <1>3, <2>2, <2>3, <2>4
<1> QED BY <1>5, <1>6 DEF SessionMoved, ResultTaken

\* The steps outside the loops that save no account.
LEMMA HandlerStepKeeps ==
  ASSUME IInv, Typed', NEW p \in Workers,
         \/ SaveProfile(p) \/ CreateSubmission(p) \/ FindAccount(p)
         \/ \E a \in PartnerAnswers : SubmitPack(p, a)
         \/ \E r \in BankReplies : Provision(p, r),
         UNCHANGED broken
  PROVE  IInv'
<1>1. /\ JobsTyped /\ TablesTyped /\ OneAccount /\ WorkerOK(p)
      /\ job[p].step # "sessionMoved" /\ ~ Looping(job[p]) /\ job[p].step # "none"
      /\ job[p].user \in Users
      /\ UNCHANGED <<sessionState, call, accounts>>
  BY JobUser DEF IInv, Typed, Looping, SaveProfile, CreateSubmission, FindAccount, SubmitPack,
     Provision, serviceVars, tables
<1>2. call[p].step = "idle" /\ \A s \in Sessions : ~ WillMove(p, s)
  BY <1>1, NoCall, NothingToMove
<1>3. SUFFICES \E j : JobOK(j) /\ Goto(p, j) /\ AccountOK(j) /\ TodoOK(j)
  BY <1>1, <1>2, JobStepKeeps
<1>4. ASSUME NEW loop \in {"kyc_ok", "compliance_handoff_pending"},
             Goto(p, InLoop(job[p], loop))
      PROVE  \E j : JobOK(j) /\ Goto(p, j) /\ AccountOK(j) /\ TodoOK(j)
  <2>1. loop \in Loop
    BY DEF Loop
  <2>2. PICK j : JobOK(j) /\ Goto(p, j) /\ j.step = "findSessions" /\ j.loop = loop
    BY <1>1, <1>4, <2>1, GotoLoop
  <2> QED BY <2>2 DEF AccountOK, TodoOK, Provisioning, Looping
<1>5. CASE SaveProfile(p) \/ CreateSubmission(p)
  BY <1>4, <1>5 DEF SaveProfile, CreateSubmission
<1>6. ASSUME NEW a \in PartnerAnswers, SubmitPack(p, a)
      PROVE  \E j : JobOK(j) /\ Goto(p, j) /\ AccountOK(j) /\ TodoOK(j)
  <2>1. PICK j : JobOK(j) /\ Goto(p, j) /\ j.step = "createSubmission"
    BY <1>1, <1>6, SubmitPackJob
  <2> QED BY <2>1 DEF AccountOK, TodoOK, Provisioning, Looping
<1>7. CASE FindAccount(p)
  <2>1. PICK j : /\ JobOK(j) /\ Goto(p, j) /\ j.step = "findSessions" /\ j.user = job[p].user
                 /\ \/ /\ j.loop = "bank_link_required"
                       /\ HasActiveAccount(job[p].user)
                    \/ /\ j.loop = "named_account_pending"
                       /\ ~ HasActiveAccount(job[p].user)
                       /\ j.account = Len(accounts[job[p].user])
    BY <1>1, <1>7, FindAccountJob
  <2>2. HasActiveAccount(job[p].user) <=> Active(job[p].user)
    BY <1>1, NewestRow
  <2> QED BY <2>1, <2>2 DEF AccountOK, TodoOK, Provisioning, Looping
<1>8. ASSUME NEW r \in BankReplies, Provision(p, r)
      PROVE  \E j : JobOK(j) /\ Goto(p, j) /\ AccountOK(j) /\ TodoOK(j)
  <2>1. PICK j : /\ JobOK(j) /\ Goto(p, j)
                 /\ \/ j = NoJob
                    \/ /\ j.step = "saveAccount"
                       /\ j.user = job[p].user /\ j.account = job[p].account
    BY <1>1, <1>8, ProvisionJob
  <2>2. AccountOK(job[p]) /\ job[p].step = "provision"
    BY <1>1, <1>8 DEF WorkerOK, Provision
  <2> QED BY <2>1, <2>2, NoJobOK DEF AccountOK, TodoOK, Provisioning, Looping
<1> QED BY <1>1, <1>5, <1>6, <1>7, <1>8

LEMMA FindSessionsKeeps ==
  ASSUME IInv, Typed', NEW p \in Workers, FindSessions(p), UNCHANGED broken
  PROVE  IInv'
<1>1. /\ JobsTyped /\ WorkerOK(p) /\ job[p].step = "findSessions"
      /\ UNCHANGED <<sessionState, call, accounts>>
  BY DEF IInv, Typed, FindSessions, serviceVars, tables
<1>2. PICK j : /\ JobOK(j) /\ Goto(p, j)
               /\ j.step = "nextSession" /\ j.loop = job[p].loop
               /\ j.user = job[p].user /\ j.account = job[p].account
               /\ j.todo = {s \in Sessions : /\ UserOf[s] = job[p].user
                                             /\ sessionState[s] = Source(job[p].loop)}
  BY <1>1, FindSessionsJob
<1>3. AccountOK(j) /\ TodoOK(j)
  BY <1>1, <1>2 DEF AccountOK, TodoOK, Provisioning, Looping, WorkerOK
<1>4. ASSUME NEW s \in Sessions, WillMove(p, s), sessionState[s] = "named_account_pending"
      PROVE  /\ j.step = "nextSession" /\ j.loop = "bank_link_required"
             /\ j.user = UserOf[s] /\ s \in j.todo
  BY <1>2, <1>4 DEF WillMove, Source
<1>5. call[p].step = "idle"
  BY <1>1, NoCall
<1> QED BY <1>1, <1>2, <1>3, <1>4, <1>5, JobStepKeeps

LEMMA JobFailsKeeps ==
  ASSUME IInv, Typed', NEW p \in Workers, JobFails(p)
  PROVE  IInv'
<1>1. PICK j : j = NoJob
  OBVIOUS
<1>2. JobOK(j) /\ Goto(p, j) /\ j.step = "none"
  BY <1>1, NoJobOK DEF JobFails, Finish
<1>3. AccountOK(j) /\ TodoOK(j)
  BY <1>2 DEF AccountOK, TodoOK, Provisioning, Looping
<1>4. UNCHANGED <<sessionState, call, accounts>> /\ broken' = TRUE /\ call[p].step = "idle"
  BY DEF JobFails, serviceVars, tables
<1> QED BY <1>2, <1>3, <1>4, JobStepKeeps

LEMMA KycWebhookKeeps ==
  ASSUME IInv, Typed', NEW p \in Workers, NEW u \in Users, KycWebhook(p, u), UNCHANGED broken
  PROVE  IInv'
<1>1. /\ job[p].step = "none" /\ ~ Looping(job[p])
      /\ UNCHANGED <<sessionState, call, accounts>>
  BY DEF KycWebhook, Idle, Looping, serviceVars, tables
<1>2. call[p].step = "idle" /\ \A s \in Sessions : ~ WillMove(p, s)
  BY <1>1, NoCall, NothingToMove
<1>3. PICK j : JobOK(j) /\ Goto(p, j) /\ j.step = "saveProfile"
  BY KycWebhookJob DEF KycWebhook
<1>4. AccountOK(j) /\ TodoOK(j)
  BY <1>3 DEF AccountOK, TodoOK, Provisioning, Looping
<1> QED BY <1>1, <1>2, <1>3, <1>4, JobStepKeeps

\* A new session stands in no loop's way.
LEMMA OpenSessionKeeps ==
  ASSUME IInv, Typed', NEW s \in Sessions, OpenSession(s), UNCHANGED broken
  PROVE  IInv'
<1>1. /\ UNCHANGED <<accounts, job, call>> /\ sessionState[s] = Absent
      /\ sessionState' = [sessionState EXCEPT ![s] = initialSessionState(DirectionOf[s])]
  BY DEF OpenSession, CreateSession, tables
<1>2. initialSessionState(DirectionOf[s]) # "named_account_pending"
  BY DEF initialSessionState
<1>3. \A t \in Sessions : /\ sessionState[t] # Absent => sessionState'[t] = sessionState[t]
                          /\ sessionState'[t] = "named_account_pending"
                               => sessionState[t] = "named_account_pending"
  BY <1>1, <1>2 DEF IInv, Typed, ServiceTyped
<1>4. ASSUME NEW q \in Workers PROVE WorkerOK(q)'
  <2>1. Typed /\ WorkerOK(q)
    BY DEF IInv
  <2> QED BY <1>1, <1>3, <2>1, OtherKeeps
<1>5. ASSUME NEW t \in Sessions PROVE Waits(t)'
  BY <1>1, <1>3 DEF IInv, Waits, WillMove, InFlight, Active
<1>6. OneAccount'
  BY <1>1 DEF IInv, OneAccount
<1> QED BY <1>4, <1>5, <1>6 DEF IInv

-----------------------------------------------------------------------------

\* The row saved is the user's only one, and was not active.
LEMMA OnlyRow ==
  ASSUME IInv, NEW p \in Workers, SaveAccount(p)
  PROVE  /\ Len(SavedRows(job[p])) = 1
         /\ ~ Active(job[p].user)
         /\ SavedRows(job[p])[1] = job[p].answer
         /\ SavedRows(job[p]) \in Seq({"active", "pending"})
<1>1. /\ JobsTyped /\ TablesTyped /\ OneAccount /\ job[p].user \in Users
      /\ job[p].answer \in {"active", "pending"}
      /\ job[p].account = Len(accounts[job[p].user]) /\ ~ Active(job[p].user)
  <2>1. WorkerOK(p) /\ JobsTyped /\ TablesTyped /\ OneAccount /\ job[p].step = "saveAccount"
    BY DEF IInv, Typed, SaveAccount
  <2> QED BY <2>1, JobUser DEF WorkerOK, AccountOK, Provisioning, JobOK
<1>2. PICK rows : rows = accounts[job[p].user]
  OBVIOUS
<1>3. /\ rows \in Seq({"active", "pending"}) /\ Len(rows) <= 1 /\ job[p].account = Len(rows)
      /\ Len(rows) \in Nat
  <2>1. rows \in Seq({"active", "pending"}) /\ Len(rows) <= 1 /\ job[p].account = Len(rows)
    BY <1>1, <1>2 DEF TablesTyped, OneAccount
  <2> QED BY <2>1, LenProperties
<1>4. SavedRows(job[p]) \in Seq({"active", "pending"})
  BY <1>1, SavedRowsType
<1>5. CASE Len(rows) = 0
  <2>1. SavedRows(job[p]) = Append(rows, job[p].answer)
    BY <1>2, <1>3, <1>5 DEF SavedRows
  <2> QED BY <1>1, <1>3, <1>4, <1>5, <2>1, AppendProperties
<1>6. CASE Len(rows) = 1
  <2>1. SavedRows(job[p]) = [rows EXCEPT ![1] = job[p].answer]
    BY <1>2, <1>3, <1>6 DEF SavedRows
  <2> QED BY <1>1, <1>3, <1>4, <1>6, <2>1, ExceptSeq
<1> QED BY <1>3, <1>5, <1>6, AtMostOne

LEMMA SaveAccountKeeps ==
  ASSUME IInv, Typed', OneDeliveryPerUser, NEW p \in Workers, SaveAccount(p), UNCHANGED broken
  PROVE  IInv'
<1>0. PICK u \in Users : u = job[p].user
  BY JobUser DEF IInv, Typed, SaveAccount
<1>1. /\ JobsTyped /\ TablesTyped /\ job[p].step = "saveAccount" /\ ~ Idle(p)
      /\ UNCHANGED <<sessionState, call>>
  BY JobUser DEF IInv, Typed, SaveAccount, Idle, serviceVars
<1>2. /\ accounts'[u] = SavedRows(job[p])
      /\ \A v \in Users : v # u => accounts'[v] = accounts[v]
  BY <1>0, <1>1, SavedTables
<1>3. PICK j : /\ JobOK(j) /\ Goto(p, j)
               /\ \/ /\ job[p].answer = "active"
                     /\ j.step = "findSessions" /\ j.loop = "bank_link_required"
                     /\ j.user = u
                  \/ job[p].answer # "active" /\ j = NoJob
  BY <1>0, <1>1, SaveAccountJob
<1>4. job'[p] = j /\ \A q \in Workers \ {p} : job'[q] = job[q]
  BY <1>1, <1>3, JobTyped
<1>5. PICK rows : rows = SavedRows(job[p])
  OBVIOUS
<1>6. Len(rows) = 1 /\ rows[1] = job[p].answer /\ DOMAIN rows = {1} /\ ~ Active(u)
  <2>1. /\ Len(rows) = 1 /\ rows[1] = job[p].answer /\ rows \in Seq({"active", "pending"})
        /\ ~ Active(u)
    BY <1>0, <1>5, OnlyRow
  <2>2. DOMAIN rows = 1..Len(rows)
    BY <2>1, LenProperties
  <2> QED BY <2>1, <2>2
<1>7. Active(u)' <=> job[p].answer = "active"
  BY <1>2, <1>5, <1>6 DEF Active
<1>8. OneAccount'
  <2>1. accounts'[u] = rows /\ Len(rows) = 1
    BY <1>2, <1>5, <1>6
  <2>2. \A v \in Users : v # u => Len(accounts'[v]) <= 1
    BY <1>2 DEF IInv, OneAccount
  <2>3. Len(accounts'[u]) <= 1
    BY <2>1
  <2> QED BY <2>2, <2>3 DEF OneAccount
<1>9. ASSUME NEW q \in Workers PROVE WorkerOK(q)'
  <2>1. CASE q = p
    <3>1. AccountOK(job[p])' /\ TodoOK(job[p])'
      BY <1>3, <1>4, <1>7, NoJobOK DEF AccountOK, TodoOK, Provisioning, Looping, Active
    <3>2. CallOK(call[p], job[p])'
      BY <1>1, NoCall DEF CallOK, Awaited
    <3> QED BY <2>1, <3>1, <3>2 DEF WorkerOK
  <2>2. CASE q # p
    <3>1. Typed /\ WorkerOK(q) /\ UNCHANGED <<job[q], call[q]>>
      BY <1>1, <1>4, <2>2 DEF IInv
    <3>2. ~ Idle(q) => job[q].user \in Users /\ job[q].user # u
      BY <1>0, <1>1, <2>2, JobUser DEF OneDeliveryPerUser, Idle
    <3> QED BY <1>1, <1>2, <3>1, <3>2, OtherKeeps
  <2> QED BY <2>1, <2>2
<1>10. ASSUME NEW s \in Sessions PROVE Waits(s)'
  <2>1. SUFFICES ASSUME ~ broken', Active(UserOf[s])',
                        sessionState'[s] = "named_account_pending"
                 PROVE  \E q \in Workers : WillMove(q, s)'
    BY DEF Waits
  <2>2. CASE UserOf[s] = u
    BY <1>3, <1>4, <1>7, <2>1, <2>2 DEF WillMove, Active
  <2>3. CASE UserOf[s] # u
    <3>1. Active(UserOf[s])
      BY <1>2, <2>1, <2>3, UserOfAssumption DEF Active
    <3>2. PICK q \in Workers : WillMove(q, s)
      BY <1>1, <2>1, <3>1 DEF IInv, Waits
    <3>3. q # p
      BY <1>1, <3>2 DEF WillMove
    <3> QED BY <1>1, <1>4, <3>2, <3>3 DEF WillMove, InFlight
  <2> QED BY <2>2, <2>3
<1> QED BY <1>8, <1>9, <1>10 DEF IInv

-----------------------------------------------------------------------------
(***************************************************************************)
(* The invariant                                                           *)
(***************************************************************************)

LEMMA IInvAtFirst ==
  ASSUME Init PROVE IInv
<1>1. Typed
  BY TypedAtFirst
<1>2. \A u \in Users : accounts[u] = << >> /\ Len(accounts[u]) = 0
  BY EmptySeq DEF Init
<1>3. OneAccount
  <2>1. ASSUME NEW u \in Users PROVE Len(accounts[u]) <= 1
    BY <1>2
  <2> QED BY <2>1 DEF OneAccount
<1>4. ASSUME NEW p \in Workers PROVE WorkerOK(p)
  <2>1. job[p] = NoJob /\ call[p] = IdleFrame
    BY DEF Init
  <2>2. job[p].step = "none" /\ call[p].step = "idle"
    BY <2>1, NoJobOK DEF IdleFrame
  <2> QED BY <2>2 DEF WorkerOK, AccountOK, TodoOK, CallOK, Provisioning, Looping, Awaited
<1>5. ASSUME NEW s \in Sessions PROVE Waits(s)
  <2>1. sessionState[s] = Absent
    BY DEF Init
  <2>2. Absent # "named_account_pending"
    BY AbsentAssumption DEF SessionState
  <2> QED BY <2>1, <2>2 DEF Waits
<1> QED BY <1>1, <1>3, <1>4, <1>5 DEF IInv

LEMMA IInvStep ==
  ASSUME IInv, OneDeliveryPerUser, [Next]_vars
  PROVE  IInv'
<1>1. Typed'
  BY TypedStep DEF IInv
<1>2. ASSUME NEW p \in Workers, TransitionStep(p), Untouched, UNCHANGED broken
      PROVE  IInv'
  BY <1>1, <1>2, FindSessionKeeps, LoadFlagsKeeps, UpdateStateKeeps, AppendEventKeeps
     DEF TransitionStep
<1>3. ASSUME NEW p \in Workers, Work(p), UNCHANGED broken
      PROVE  IInv'
  BY <1>1, <1>2, <1>3, FindSessionsKeeps, NextSessionKeeps, SessionMovedKeeps,
     HandlerStepKeeps, SaveAccountKeeps DEF Work
<1>4. CASE UNCHANGED vars
  <2>1. UNCHANGED <<sessionState, call, job, accounts, broken>>
    BY <1>4 DEF vars, serviceVars, tables
  <2> QED BY <1>1, <2>1 DEF IInv, OneAccount, WorkerOK, AccountOK, TodoOK, CallOK, Moving,
             Provisioning, Looping, Active, Waits, WillMove, InFlight
<1> QED
  BY <1>1, <1>3, <1>4, OpenSessionKeeps, KycWebhookKeeps, QueryFailsKeeps, JobFailsKeeps DEF Next

\* A user has one account however often KYC is approved and whatever fails,
\* if the deliveries for one user do not overlap: two that do each find none
\* and insert one.
THEOREM OneAccountEach == Spec /\ []OneDeliveryPerUser => []OneAccount
<1>1. IInv => OneAccount
  BY DEF IInv
<1> QED BY <1>1, IInvAtFirst, IInvStep, PTL DEF Spec

\* Once the server is idle and nothing has failed, no session waits for an
\* account its user has: the call that could have been too early or too late
\* for it is always made, and accepted.
THEOREM NobodyLeftWaiting ==
  Spec /\ []OneDeliveryPerUser => []NobodyWaitsForActiveAccount
<1>1. IInv => NobodyWaitsForActiveAccount
  <2>1. SUFFICES ASSUME IInv, NEW s \in Sessions, ~ broken, \A p \in Workers : Idle(p),
                        Active(UserOf[s]), sessionState[s] = "named_account_pending"
                 PROVE  FALSE
    BY DEF NobodyWaitsForActiveAccount, Active
  <2>2. PICK p \in Workers : WillMove(p, s)
    BY <2>1 DEF IInv, Waits
  <2> QED BY <2>1, <2>2 DEF WillMove, Idle
<1> QED BY <1>1, IInvAtFirst, IInvStep, PTL DEF Spec

\* A delivery for a user whose account is active does not ask the bank again,
\* so that nothing it is told can put the account back to pending.
LEMMA ActiveRowsStay ==
  ASSUME IInv, [Next]_vars, NEW u \in Users, NEW i \in DOMAIN accounts[u],
         accounts[u][i] = "active"
  PROVE  accounts'[u][i] = "active"
<1>1. CASE UNCHANGED accounts
  BY <1>1
<1>2. ASSUME NEW p \in Workers, SaveAccount(p), UNCHANGED broken
      PROVE  accounts'[u][i] = "active"
  <2>1. ~ Active(job[p].user)
    BY <1>2, OnlyRow
  <2>2. u # job[p].user
    BY <2>1 DEF Active
  <2>3. accounts'[u] = accounts[u]
    BY <1>2, <2>2, SavedTables DEF IInv, Typed
  <2> QED BY <2>3
<1>3. UNCHANGED accounts \/ \E p \in Workers : SaveAccount(p) /\ UNCHANGED broken
  BY DEF Next, Work, OpenSession, KycWebhook, Untouched, FindSessions, NextSession,
     SessionMoved, SaveProfile, SubmitPack, CreateSubmission, FindAccount, Provision,
     JobFails, tables, vars
<1> QED BY <1>1, <1>2, <1>3

\* An account that is active stays active, under the same condition.
THEOREM ActiveStays == Spec /\ []OneDeliveryPerUser => ActiveAccountStays
<1>1. IInv /\ [Next]_vars =>
        [ \A u \in Users : \A i \in DOMAIN accounts[u] :
            accounts[u][i] = "active" => accounts'[u][i] = "active" ]_vars
  BY ActiveRowsStay
<1> QED BY <1>1, IInvAtFirst, IInvStep, PTL DEF Spec, ActiveAccountStays

-----------------------------------------------------------------------------
(***************************************************************************)
(* What a delivery leaves behind                                           *)
(***************************************************************************)

\* A delivery on its way to open an account has been through loop l.
Through(j, l) ==
  \/ /\ j.step \in {"provision", "saveAccount"}
     /\ l \in {"compliance_handoff_pending", "compliance_handoff_ok", "named_account_pending"}
  \/ /\ j.step = "findAccount"
     /\ l \in {"compliance_handoff_pending", "compliance_handoff_ok"}
  \/ /\ Looping(j) /\ j.loop = "compliance_handoff_ok"
     /\ l = "compliance_handoff_pending"
  \/ /\ Looping(j) /\ j.loop = "named_account_pending"
     /\ l \in {"compliance_handoff_pending", "compliance_handoff_ok"}
  \/ /\ Looping(j) /\ j.loop = "bank_link_required" /\ j.answer = "active"
     /\ l \in {"compliance_handoff_pending", "compliance_handoff_ok", "named_account_pending"}

\* No session is where a loop it has been through takes sessions from.
Emptied(j) ==
  \A l \in Loop : Through(j, l) =>
    \A s \in Sessions : UserOf[s] = j.user => sessionState[s] # Source(l)

\* A session where the loop under way takes them from is still to be moved,
\* or is being moved, or its move has failed, which ends the delivery.
NoneMissed(f, j) ==
  Looping(j) /\ j.step # "findSessions" /\ j.loop # "kyc_ok" =>
    \A s \in Sessions :
      UserOf[s] = j.user /\ sessionState[s] = Source(j.loop) =>
        \/ s \in j.todo
        \/ /\ j.step = "sessionMoved"
           /\ \/ f.step \in Awaited /\ f.session = s
              \/ f.step = "returned" /\ f.outcome \notin {"ok", "invalid_transition"}

\* Until the bank is asked, the answer is the partner's.
AnswerOK(j) ==
  \/ j.step = "findAccount"
  \/ Looping(j) /\ j.loop \in {"compliance_handoff_pending", "compliance_handoff_ok"}
  => j.answer # "active"

Progress(f, j) == Emptied(j) /\ NoneMissed(f, j) /\ AnswerOK(j)

RInv == IInv /\ \A p \in Workers : Progress(call[p], job[p])

-----------------------------------------------------------------------------

\* Where the loops after the first take sessions from.
Underway ==
  {"kyc_ok", "compliance_handoff_pending", "compliance_handoff_ok", "named_account_pending"}

LEMMA SourceUnderway ==
  ASSUME NEW l \in Loop, l # "kyc_ok"
  PROVE  Source(l) \in Underway
BY DEF Loop, Source, Underway

\* A loop's step is one the graph has, strict or relaxed.
LEMMA LoopEdge ==
  ASSUME NEW f, NEW held, NEW loop \in Loop, f.from = Source(loop), f.to = loop
  PROVE  Verdict(f, held) # "invalid_transition"
<1>1. /\ Source(loop) \notin TERMINAL_STATES
      /\ loop \in BASE_TRANSITIONS(Source(loop)) /\ Source(loop) # loop
  BY DEF Loop, Source, TERMINAL_STATES, BASE_TRANSITIONS
<1>2. isGraphEdgeAllowed(Source(loop), loop, RelaxStateGuards)
  BY <1>1 DEF isGraphEdgeAllowed, allowedTargets
<1>3. PICK from : from = Source(loop)
  OBVIOUS
<1>4. from \notin TERMINAL_STATES /\ isGraphEdgeAllowed(from, loop, RelaxStateGuards)
  BY <1>1, <1>2, <1>3
<1> QED BY <1>3, <1>4 DEF Verdict, assertCanTransition

\* A job in no loop that has been through none.
LEMMA FreshProgress ==
  ASSUME NEW f, NEW j,
         j.step \in {"none", "saveProfile", "submitPack", "createSubmission"}
  PROVE  Progress(f, j)
BY DEF Progress, Emptied, NoneMissed, AnswerOK, Through, Looping

\* A delivery loses nothing when others move sessions that are not its user's,
\* or sessions are opened.
LEMMA ProgressKept ==
  ASSUME JobsTyped, NEW q \in Workers, Progress(call[q], job[q]),
         UNCHANGED <<job[q], call[q]>>,
         \A s \in Sessions :
           ~ Idle(q) /\ UserOf[s] = job[q].user
             => sessionState'[s] = sessionState[s] \/ sessionState'[s] \notin Underway
  PROVE  Progress(call[q], job[q])'
<1>0. PICK j : j = job[q]
  OBVIOUS
<1>1. JobOK(j) /\ job'[q] = j /\ Progress(call[q], j)
  BY <1>0, JobUser
<1>2. CASE Idle(q)
  BY <1>0, <1>1, <1>2
     DEF Idle, Progress, Emptied, NoneMissed, AnswerOK, Through, Looping
<1>3. CASE ~ Idle(q)
  <2>1. ASSUME NEW l \in Loop, l # "kyc_ok", NEW s \in Sessions, UserOf[s] = j.user,
               sessionState'[s] = Source(l)
        PROVE  sessionState[s] = Source(l)
    BY <1>0, <1>3, <2>1, SourceUnderway
  <2>2. ASSUME NEW l \in Loop, Through(j, l) PROVE l # "kyc_ok"
    BY <2>2 DEF Through
  <2>3. \A l \in Loop : Through(j, l) =>
          \A s \in Sessions : UserOf[s] = j.user => sessionState'[s] # Source(l)
    BY <1>1, <2>1, <2>2 DEF Progress, Emptied
  <2>4. Emptied(job[q])'
    BY <1>1, <2>3 DEF Emptied, Through, Looping, Source
  <2>5. NoneMissed(call[q], job[q])'
    <3>1. SUFFICES ASSUME Looping(j), j.step # "findSessions", j.loop # "kyc_ok",
                          NEW s \in Sessions, UserOf[s] = j.user,
                          sessionState'[s] = Source(j.loop)
                   PROVE  \/ s \in j.todo
                          \/ /\ j.step = "sessionMoved"
                             /\ \/ call[q].step \in Awaited /\ call[q].session = s
                                \/ /\ call[q].step = "returned"
                                   /\ call[q].outcome \notin {"ok", "invalid_transition"}
      BY <1>1 DEF NoneMissed, Looping, Source, Awaited
    <3>2. sessionState[s] = Source(j.loop)
      BY <1>1, <2>1, <3>1 DEF JobOK
    <3> QED BY <1>1, <3>1, <3>2 DEF Progress, NoneMissed
  <2>6. AnswerOK(job[q])'
    BY <1>1 DEF Progress, AnswerOK, Looping
  <2> QED BY <2>4, <2>5, <2>6 DEF Progress
<1> QED BY <1>2, <1>3

-----------------------------------------------------------------------------

\* A step of transition() by the delivery's own worker.
LEMMA CallProgress ==
  ASSUME RInv, NEW p \in Workers, call[p].step \in Awaited,
         NEW f, call'[p] = f, UNCHANGED job,
         \A s \in Sessions : s # call[p].session => sessionState'[s] = sessionState[s],
         \/ /\ f.step \in Awaited /\ f.session = call[p].session
            /\ sessionState'[f.session] = sessionState[f.session]
         \/ /\ f.step = "returned" /\ f.outcome \notin {"ok", "invalid_transition"}
            /\ sessionState'[call[p].session] = sessionState[call[p].session]
         \/ sessionState'[call[p].session] = job[p].loop
  PROVE  Progress(call[p], job[p])'
<1>0. PICK j : j = job[p]
  OBVIOUS
<1>1. /\ j.step = "sessionMoved" /\ j.loop \in Loop /\ Progress(call[p], j) /\ job'[p] = j
      /\ call[p].session \in Sessions
  BY <1>0, AtCall DEF RInv
<1>2. AnswerOK(job[p])'
  BY <1>1 DEF Progress, AnswerOK, Looping
<1>3. Emptied(job[p])'
  <2>1. ASSUME NEW l \in Loop, Through(j, l) PROVE Source(l) # j.loop
    BY <1>1, <2>1 DEF Through, Looping, Source
  <2>2. \A l \in Loop : Through(j, l) =>
          \A s \in Sessions : UserOf[s] = j.user => sessionState'[s] # Source(l)
    BY <1>0, <1>1, <2>1 DEF Progress, Emptied
  <2> QED BY <1>1, <2>2 DEF Emptied, Through, Looping, Source
<1>4. NoneMissed(call[p], job[p])'
  <2>1. SUFFICES ASSUME j.loop # "kyc_ok", NEW s \in Sessions, UserOf[s] = j.user,
                        sessionState'[s] = Source(j.loop)
                 PROVE  \/ s \in j.todo
                        \/ f.step \in Awaited /\ f.session = s
                        \/ /\ f.step = "returned"
                           /\ f.outcome \notin {"ok", "invalid_transition"}
    BY <1>1 DEF NoneMissed, Looping, Source, Awaited
  <2>2. Source(j.loop) # j.loop
    BY <1>1, SourceIsState
  <2>3. s = call[p].session => sessionState'[s] = sessionState[s]
    BY <1>0, <2>1, <2>2
  <2>4. sessionState[s] = Source(j.loop)
    BY <2>1, <2>3
  <2>5. \/ s \in j.todo
        \/ s = call[p].session
    BY <1>1, <2>1, <2>4 DEF Progress, NoneMissed, Looping, Awaited
  <2> QED BY <1>0, <2>1, <2>2, <2>5
<1> QED BY <1>2, <1>3, <1>4 DEF Progress

\* The call is given up only for an error that ends the delivery.
LEMMA TransitionProgress ==
  ASSUME RInv, NEW p \in Workers, UNCHANGED job,
         \/ FindSession(p) \/ UpdateState(p) \/ AppendEvent(p) \/ QueryFails(p)
         \/ \E held : LoadFlags(p, held)
  PROVE  Progress(call[p], job[p])'
<1> DEFINE f == call[p]
<1>1. f.step \in Awaited
  BY DEF FindSession, LoadFlags, UpdateState, AppendEvent, QueryFails, InFlight, Awaited
<1>2. /\ job[p].loop \in Loop /\ Moving(f, job[p]) /\ f \in CallFrame /\ f.session \in Sessions
      /\ call \in [Workers -> Frame] /\ sessionState \in [Sessions -> SessionState \cup {Absent}]
  BY <1>1, AtCall DEF RInv, IInv, Typed, ServiceTyped
<1>3. CASE FindSession(p)
  <2>1. sessionState[f.session] = Source(job[p].loop) /\ f.to = job[p].loop
    BY <1>2, <1>3 DEF Moving, FindSession
  <2>2. PICK from : from = sessionState[f.session]
    OBVIOUS
  <2>3. from # Absent /\ from # f.to
    BY <1>2, <2>1, <2>2, SourceIsState, AbsentAssumption
  <2>4. PICK g : g = [f EXCEPT !.step = "loadFlags", !.from = from]
    OBVIOUS
  <2>5. g = StateFound(f, sessionState[f.session])
    BY <2>2, <2>3, <2>4 DEF StateFound
  <2>6. g.step \in Awaited /\ g.session = f.session
    BY <1>2, <2>4 DEF CallFrame, Awaited
  <2>7. call'[p] = g /\ UNCHANGED sessionState
    BY <1>2, <1>3, <2>5 DEF FindSession
  <2> QED BY <1>1, <2>6, <2>7, CallProgress
<1>4. ASSUME NEW held, LoadFlags(p, held)
      PROVE  Progress(call[p], job[p])'
  <2>1. CASE Verdict(f, held) = "ok"
    <3>1. PICK g : g = [f EXCEPT !.step = "updateState"]
      OBVIOUS
    <3>2. g.step \in Awaited /\ g.session = f.session
      BY <1>2, <3>1 DEF CallFrame, Awaited
    <3>3. call'[p] = g /\ UNCHANGED sessionState
      BY <1>2, <1>4, <2>1, <3>1 DEF LoadFlags
    <3> QED BY <1>1, <3>2, <3>3, CallProgress
  <2>2. CASE Verdict(f, held) # "ok"
    <3>1. PICK g : g = Returned(Verdict(f, held))
      OBVIOUS
    <3>2. f.from = Source(job[p].loop) /\ f.to = job[p].loop
      BY <1>2, <1>4 DEF Moving, LoadFlags
    <3>3. Verdict(f, held) # "invalid_transition"
      BY <1>2, <3>2, LoopEdge
    <3>4. g.step = "returned" /\ g.outcome \notin {"ok", "invalid_transition"}
      BY <2>2, <3>1, <3>3 DEF Returned, IdleFrame
    <3>5. call'[p] = g /\ UNCHANGED sessionState
      BY <1>2, <1>4, <2>2, <3>1 DEF LoadFlags
    <3> QED BY <1>1, <3>4, <3>5, CallProgress
  <2> QED BY <2>1, <2>2
<1>5. CASE UpdateState(p)
  <2>1. PICK g : g = [f EXCEPT !.step = "appendEvent"]
    OBVIOUS
  <2>2. call'[p] = g
    BY <1>2, <1>5, <2>1 DEF UpdateState
  <2>3. /\ sessionState'[f.session] = job[p].loop
        /\ \A s \in Sessions : s # f.session => sessionState'[s] = sessionState[s]
    BY <1>2, <1>5 DEF UpdateState, Moving
  <2> QED BY <1>1, <2>2, <2>3, CallProgress
<1>6. CASE AppendEvent(p)
  <2>1. PICK g : g = Returned("ok")
    OBVIOUS
  <2>2. call'[p] = g /\ UNCHANGED sessionState
    BY <1>2, <1>6, <2>1 DEF AppendEvent
  <2>3. sessionState[f.session] = job[p].loop
    BY <1>2, <1>6 DEF AppendEvent, Moving
  <2> QED BY <1>1, <2>2, <2>3, CallProgress
<1>7. CASE QueryFails(p)
  <2>1. PICK g : g = Returned("query_failed")
    OBVIOUS
  <2>2. g.step = "returned" /\ g.outcome \notin {"ok", "invalid_transition"}
    BY <2>1 DEF Returned, IdleFrame
  <2>3. call'[p] = g /\ UNCHANGED sessionState
    BY <1>2, <1>7, <2>1 DEF QueryFails
  <2> QED BY <1>1, <2>2, <2>3, CallProgress
<1> QED BY <1>3, <1>4, <1>5, <1>6, <1>7

-----------------------------------------------------------------------------

\* A step of the handler, with no call under way after it, that leaves the
\* sessions as they are.
LEMMA JobProgress ==
  ASSUME RInv, NEW p \in Workers, NEW j, Goto(p, j),
         UNCHANGED sessionState, call'[p].step \in {"idle", "findSession"},
         AnswerOK(j), Emptied(j), NoneMissed(call'[p], j)
  PROVE  Progress(call[p], job[p])'
<1>1. job'[p] = j
  BY DEF Goto, RInv, IInv, Typed, JobsTyped
<1> QED
  BY <1>1 DEF Progress, Emptied, NoneMissed, AnswerOK, Through, Looping, Source

\* Entering a loop, having been through none since the pack or the account.
LEMMA EnterLoop ==
  ASSUME NEW f, NEW j, j.step = "findSessions", AnswerOK(j), Emptied(j)
  PROVE  Progress(f, j)
BY DEF Progress, NoneMissed

\* The loop is over when nothing is left to move.
LEMMA LoopOver ==
  ASSUME RInv, NEW p \in Workers, job[p].step = "nextSession", job[p].todo = {},
         job[p].loop # "kyc_ok"
  PROVE  \A s \in Sessions :
           UserOf[s] = job[p].user => sessionState[s] # Source(job[p].loop)
BY DEF RInv, Progress, NoneMissed, Looping

LEMMA NextSessionProgress ==
  ASSUME RInv, NEW p \in Workers, NextSession(p)
  PROVE  Progress(call[p], job[p])'
<1>1. /\ job[p].step = "nextSession" /\ JobsTyped /\ ServiceTyped /\ JobOK(job[p])
      /\ Progress(call[p], job[p]) /\ job[p].user \in Users /\ call[p].step = "idle"
      /\ job[p].loop \in Loop /\ job[p] \in Job
  BY JobUser, NoCall DEF NextSession, RInv, IInv, Typed, JobOK, Looping
<1>2. ASSUME NEW s \in job[p].todo, Ask(p, s, job[p].loop, Reason(job[p].loop)),
             Goto(p, [job[p] EXCEPT !.step = "sessionMoved", !.todo = @ \ {s}])
      PROVE  Progress(call[p], job[p])'
  <2>1. PICK j : /\ JobOK(j) /\ Goto(p, j)
                 /\ j.step = "sessionMoved" /\ j.loop = job[p].loop
                 /\ j.user = job[p].user /\ j.answer = job[p].answer
                 /\ j.todo = job[p].todo \ {s}
    BY <1>1, <1>2, NextSessionJob
  <2>2. s \in Sessions
    BY <1>1 DEF Job
  <2>3. call'[p].step = "findSession" /\ call'[p].session = s /\ UNCHANGED sessionState
    BY <1>1, <1>2, <2>2, AskTyped DEF Ask
  <2>4. AnswerOK(j) /\ Emptied(j)
    BY <1>1, <2>1 DEF Progress, AnswerOK, Emptied, Through, Looping
  <2>5. NoneMissed(call'[p], j)
    BY <1>1, <2>1, <2>3 DEF Progress, NoneMissed, Looping, Awaited
  <2> QED BY <2>1, <2>3, <2>4, <2>5, JobProgress
<1>3. ASSUME job[p].todo = {}, Goto(p, After(job[p])), UNCHANGED serviceVars
      PROVE  Progress(call[p], job[p])'
  <2>1. UNCHANGED <<sessionState, call>>
    BY <1>3 DEF serviceVars
  <2>2. PICK i : /\ i = After(job[p]) /\ JobOK(i)
                 /\ \/ i = NoJob
                    \/ /\ i.user = job[p].user /\ i.account = job[p].account
                       /\ i.answer = job[p].answer
                       /\ \/ i.step = "submitPack"
                          \/ /\ i.step = "findSessions" /\ i.loop = "compliance_handoff_ok"
                             /\ job[p].loop = "compliance_handoff_pending"
                          \/ i.step = "findAccount" /\ job[p].loop = "compliance_handoff_ok"
                          \/ i.step = "provision" /\ job[p].loop = "named_account_pending"
    BY <1>1, AfterLoop
  <2>3. CASE i = NoJob \/ i.step = "submitPack"
    <3>1. Progress(call'[p], i)
      BY <2>3, FreshProgress, NoJobOK
    <3> QED BY <1>1, <1>3, <2>1, <2>2, <3>1, JobProgress DEF Progress
  <2>4. ASSUME i.user = job[p].user, i.answer = job[p].answer,
               \/ /\ i.step = "findSessions" /\ i.loop = "compliance_handoff_ok"
                  /\ job[p].loop = "compliance_handoff_pending"
               \/ i.step = "findAccount" /\ job[p].loop = "compliance_handoff_ok"
               \/ i.step = "provision" /\ job[p].loop = "named_account_pending"
        PROVE  Progress(call[p], job[p])'
    <3>1. job[p].loop # "kyc_ok"
      BY <2>4
    <3>2. \A s \in Sessions :
            UserOf[s] = job[p].user => sessionState[s] # Source(job[p].loop)
      BY <1>1, <1>3, <3>1, LoopOver
    <3>3. ASSUME NEW l \in Loop, Through(i, l)
          PROVE  l = job[p].loop \/ Through(job[p], l)
      BY <1>1, <2>4, <3>3 DEF Through, Looping
    <3>4. Emptied(i)
      BY <1>1, <2>4, <3>2, <3>3 DEF Emptied, Progress
    <3>5. AnswerOK(i)
      BY <1>1, <2>4 DEF AnswerOK, Progress, Looping
    <3>6. NoneMissed(call'[p], i)
      BY <2>4 DEF NoneMissed, Looping
    <3> QED BY <1>1, <1>3, <2>1, <2>2, <3>4, <3>5, <3>6, JobProgress
  <2> QED BY <2>2, <2>3, <2>4
<1> QED BY <1>2, <1>3 DEF NextSession

LEMMA SessionMovedProgress ==
  ASSUME RInv, NEW p \in Workers, SessionMoved(p)
  PROVE  Progress(call[p], job[p])'
<1>1. /\ job[p].step = "sessionMoved" /\ JobsTyped /\ ServiceTyped /\ JobOK(job[p])
      /\ Progress(call[p], job[p]) /\ UNCHANGED sessionState /\ call[p].step = "returned"
  BY JobUser DEF SessionMoved, RInv, IInv, Typed, ResultTaken
<1>2. call'[p].step = "idle"
  BY <1>1, ResultTyped DEF SessionMoved
<1>3. CASE /\ call[p].outcome \in {"ok", "invalid_transition"}
           /\ Goto(p, [job[p] EXCEPT !.step = "nextSession"])
  <2>1. PICK j : /\ JobOK(j) /\ Goto(p, j)
                 /\ j.step = "nextSession" /\ j.loop = job[p].loop
                 /\ j.user = job[p].user /\ j.answer = job[p].answer
                 /\ j.todo = job[p].todo
    BY <1>1, <1>3, SessionMovedJob
  <2>2. AnswerOK(j) /\ Emptied(j)
    BY <1>1, <2>1 DEF Progress, AnswerOK, Emptied, Through, Looping
  <2>3. NoneMissed(call'[p], j)
    BY <1>1, <1>3, <2>1 DEF Progress, NoneMissed, Looping, Awaited
  <2> QED BY <1>1, <1>2, <2>1, <2>2, <2>3, JobProgress
<1>4. CASE Finish(p)
  <2>1. PICK j : j = NoJob
    OBVIOUS
  <2>2. Progress(call'[p], j)
    BY <2>1, FreshProgress, NoJobOK
  <2> QED BY <1>1, <1>2, <1>4, <2>1, <2>2, JobProgress DEF Finish, Progress
<1> QED BY <1>3, <1>4 DEF SessionMoved, ResultTaken

LEMMA FindSessionsProgress ==
  ASSUME RInv, NEW p \in Workers, FindSessions(p)
  PROVE  Progress(call[p], job[p])'
<1>1. /\ JobsTyped /\ Progress(call[p], job[p]) /\ job[p].step = "findSessions"
      /\ UNCHANGED <<sessionState, call>>
  BY DEF RInv, IInv, Typed, FindSessions, serviceVars
<1>2. PICK j : /\ JobOK(j) /\ Goto(p, j)
               /\ j.step = "nextSession" /\ j.loop = job[p].loop
               /\ j.user = job[p].user /\ j.answer = job[p].answer
               /\ j.todo = {s \in Sessions : /\ UserOf[s] = job[p].user
                                             /\ sessionState[s] = Source(job[p].loop)}
  BY <1>1, FindSessionsJob
<1>3. AnswerOK(j) /\ Emptied(j) /\ NoneMissed(call'[p], j)
  BY <1>1, <1>2 DEF Progress, AnswerOK, Emptied, NoneMissed, Through, Looping
<1>4. call'[p].step = "idle"
  BY <1>1, NoCall DEF RInv
<1> QED BY <1>1, <1>2, <1>3, <1>4, JobProgress

LEMMA HandlerProgress ==
  ASSUME RInv, NEW p \in Workers,
         \/ SaveProfile(p) \/ CreateSubmission(p) \/ FindAccount(p) \/ SaveAccount(p)
         \/ \E u \in Users : KycWebhook(p, u)
         \/ \E a \in PartnerAnswers : SubmitPack(p, a)
         \/ \E r \in BankReplies : Provision(p, r)
         \/ JobFails(p)
  PROVE  Progress(call[p], job[p])'
<1>1. /\ JobsTyped /\ TablesTyped /\ JobOK(job[p]) /\ Progress(call[p], job[p])
      /\ UNCHANGED <<sessionState, call>>
  BY JobUser DEF RInv, IInv, Typed, SaveProfile, CreateSubmission, FindAccount, SaveAccount,
     KycWebhook, SubmitPack, Provision, JobFails, serviceVars
<1>2. call'[p].step = "idle"
  BY <1>1, NoCall DEF RInv, SaveProfile, CreateSubmission, FindAccount, SaveAccount,
     KycWebhook, SubmitPack, Provision, JobFails, Idle
<1>3. SUFFICES \E j : Goto(p, j) /\ Progress(call'[p], j)
  BY <1>1, <1>2, JobProgress DEF Progress
<1>4. CASE SaveProfile(p)
  <2>1. PICK j : Goto(p, j) /\ j.step = "findSessions" /\ j.loop = "kyc_ok"
    BY <1>1, <1>4, GotoLoop DEF SaveProfile, Loop
  <2> QED BY <2>1 DEF Progress, Emptied, NoneMissed, AnswerOK, Through, Looping
<1>5. CASE CreateSubmission(p)
  <2>1. job[p].answer # "active"
    BY <1>1, <1>5, PartnerAssumption DEF CreateSubmission, JobOK
  <2>2. PICK j : /\ Goto(p, j) /\ j.step = "findSessions" /\ j.answer = job[p].answer
                 /\ j.loop = "compliance_handoff_pending"
    BY <1>1, <1>5, GotoLoop DEF CreateSubmission, Loop
  <2> QED BY <2>1, <2>2 DEF Progress, Emptied, NoneMissed, AnswerOK, Through, Looping
<1>6. CASE FindAccount(p)
  <2>1. PICK j : /\ Goto(p, j) /\ j.step = "findSessions" /\ j.user = job[p].user
                 /\ j.answer = job[p].answer
                 /\ j.loop \in {"bank_link_required", "named_account_pending"}
    BY <1>1, <1>6, FindAccountJob
  <2>2. job[p].step = "findAccount" /\ job[p].answer # "active"
    BY <1>1, <1>6 DEF FindAccount, Progress, AnswerOK
  <2>3. \A l \in Loop : Through(j, l) => Through(job[p], l)
    BY <2>1, <2>2 DEF Through, Looping
  <2> QED BY <1>1, <2>1, <2>3 DEF Progress, Emptied, NoneMissed, AnswerOK, Looping
<1>7. ASSUME NEW r \in BankReplies, Provision(p, r)
      PROVE  \E j : Goto(p, j) /\ Progress(call'[p], j)
  <2>1. PICK j : /\ Goto(p, j)
                 /\ \/ j = NoJob
                    \/ j.step = "saveAccount" /\ j.user = job[p].user
    BY <1>1, <1>7, ProvisionJob
  <2>2. CASE j = NoJob
    BY <2>1, <2>2, FreshProgress, NoJobOK
  <2>3. CASE j.step = "saveAccount" /\ j.user = job[p].user
    <3>1. job[p].step = "provision"
      BY <1>7 DEF Provision
    <3>2. \A l \in Loop : Through(j, l) => Through(job[p], l)
      BY <2>3, <3>1 DEF Through, Looping
    <3> QED
      BY <1>1, <2>1, <2>3, <3>2 DEF Progress, Emptied, NoneMissed, AnswerOK, Looping
  <2> QED BY <2>1, <2>2, <2>3
<1>8. CASE SaveAccount(p)
  <2>1. PICK j : /\ Goto(p, j)
                 /\ \/ /\ j.step = "findSessions" /\ j.loop = "bank_link_required"
                       /\ j.user = job[p].user
                    \/ j = NoJob
    BY <1>1, <1>8, SaveAccountJob
  <2>2. CASE j = NoJob
    BY <2>1, <2>2, FreshProgress, NoJobOK
  <2>3. CASE /\ j.step = "findSessions" /\ j.loop = "bank_link_required"
             /\ j.user = job[p].user
    <3>1. job[p].step = "saveAccount"
      BY <1>8 DEF SaveAccount
    <3>2. \A l \in Loop : Through(j, l) => Through(job[p], l)
      BY <2>3, <3>1 DEF Through, Looping
    <3> QED
      BY <1>1, <2>1, <2>3, <3>2 DEF Progress, Emptied, NoneMissed, AnswerOK, Looping
  <2> QED BY <2>1, <2>2, <2>3
<1>9. ASSUME NEW u \in Users, KycWebhook(p, u)
      PROVE  \E j : Goto(p, j) /\ Progress(call'[p], j)
  <2>1. PICK j : Goto(p, j) /\ j.step = "saveProfile"
    BY <1>9, KycWebhookJob DEF KycWebhook
  <2> QED BY <2>1, FreshProgress
<1>10. ASSUME NEW a \in PartnerAnswers, SubmitPack(p, a)
       PROVE  \E j : Goto(p, j) /\ Progress(call'[p], j)
  <2>1. PICK j : Goto(p, j) /\ j.step = "createSubmission"
    BY <1>1, <1>10, SubmitPackJob
  <2> QED BY <2>1, FreshProgress
<1>11. CASE JobFails(p)
  <2>1. PICK j : j = NoJob
    OBVIOUS
  <2>2. Goto(p, j) /\ Progress(call'[p], j)
    BY <1>11, <2>1, NoJobOK, FreshProgress DEF JobFails, Finish
  <2> QED BY <2>2
<1> QED BY <1>4, <1>5, <1>6, <1>7, <1>8, <1>9, <1>10, <1>11

-----------------------------------------------------------------------------

\* What a step of worker p leaves of the other deliveries' sessions.
LEMMA OthersProgress ==
  ASSUME RInv, NEW p \in Workers, Progress(call[p], job[p])',
         \A q \in Workers \ {p} : UNCHANGED <<job[q], call[q]>>,
         \A q \in Workers \ {p} : \A s \in Sessions :
           ~ Idle(q) /\ UserOf[s] = job[q].user => sessionState'[s] = sessionState[s]
  PROVE  \A q \in Workers : Progress(call[q], job[q])'
<1>1. ASSUME NEW q \in Workers, q # p PROVE Progress(call[q], job[q])'
  <2>1. JobsTyped /\ Progress(call[q], job[q]) /\ UNCHANGED <<job[q], call[q]>>
    BY <1>1 DEF RInv, IInv, Typed
  <2>2. \A s \in Sessions :
          ~ Idle(q) /\ UserOf[s] = job[q].user => sessionState'[s] = sessionState[s]
    BY <1>1
  <2> QED BY <2>1, <2>2, ProgressKept
<1> QED BY <1>1

LEMMA RInvAtFirst ==
  ASSUME Init PROVE RInv
<1>1. ASSUME NEW p \in Workers PROVE Progress(call[p], job[p])
  <2>1. job[p].step = "none"
    BY NoJobOK DEF Init
  <2> QED BY <2>1, FreshProgress
<1> QED BY <1>1, IInvAtFirst DEF RInv

LEMMA RInvStep ==
  ASSUME RInv, OneDeliveryPerUser, [Next]_vars
  PROVE  RInv'
<1>1. IInv'
  BY IInvStep DEF RInv
<1>2. SUFFICES \A q \in Workers : Progress(call[q], job[q])'
  BY <1>1 DEF RInv
<1>3. JobsTyped /\ ServiceTyped
  BY DEF RInv, IInv, Typed
<1>4. ASSUME NEW p \in Workers, Untouched,
             \/ FindSession(p) \/ UpdateState(p) \/ AppendEvent(p) \/ QueryFails(p)
             \/ \E held : LoadFlags(p, held)
      PROVE  \A q \in Workers : Progress(call[q], job[q])'
  <2>1. UNCHANGED job /\ Progress(call[p], job[p])'
    BY <1>4, TransitionProgress DEF Untouched
  <2>2. call[p].step \in Awaited /\ \A q \in Workers \ {p} : call'[q] = call[q]
    BY <1>3, <1>4, TransitionTyped
  <2>3. UserOf[call[p].session] = job[p].user /\ ~ Idle(p) /\ call[p].session \in Sessions
    BY <2>2, AtCall DEF RInv, Moving
  <2>4. \A s \in Sessions : s # call[p].session => sessionState'[s] = sessionState[s]
    BY <1>3, <1>4, <2>3 DEF FindSession, UpdateState, AppendEvent, QueryFails, LoadFlags, ServiceTyped
  <2>5. \A q \in Workers \ {p} : \A s \in Sessions :
          ~ Idle(q) /\ UserOf[s] = job[q].user => sessionState'[s] = sessionState[s]
    BY <2>3, <2>4 DEF OneDeliveryPerUser
  <2> QED BY <2>1, <2>2, <2>5, OthersProgress
<1>5. ASSUME NEW p \in Workers,
             \/ FindSessions(p) \/ NextSession(p) \/ SessionMoved(p)
             \/ SaveProfile(p) \/ CreateSubmission(p) \/ FindAccount(p) \/ SaveAccount(p)
             \/ \E u \in Users : KycWebhook(p, u)
             \/ \E a \in PartnerAnswers : SubmitPack(p, a)
             \/ \E r \in BankReplies : Provision(p, r)
             \/ JobFails(p)
      PROVE  \A q \in Workers : Progress(call[q], job[q])'
  <2>1. Progress(call[p], job[p])'
    BY <1>5, FindSessionsProgress, NextSessionProgress, SessionMovedProgress, HandlerProgress
  <2>2. UNCHANGED sessionState
    BY <1>5 DEF FindSessions, NextSession, SessionMoved, SaveProfile, CreateSubmission,
       FindAccount, SaveAccount, KycWebhook, SubmitPack, Provision, JobFails, Ask, ResultTaken,
       serviceVars
  <2>3. \A q \in Workers \ {p} : job'[q] = job[q]
    BY <1>3, <1>5 DEF FindSessions, NextSession, SessionMoved, SaveProfile, CreateSubmission,
       FindAccount, SaveAccount, KycWebhook, SubmitPack, Provision, JobFails, Goto, Finish,
       JobsTyped
  <2>4. \A q \in Workers \ {p} : call'[q] = call[q]
    BY <1>3, <1>5 DEF FindSessions, NextSession, SessionMoved, SaveProfile, CreateSubmission,
       FindAccount, SaveAccount, KycWebhook, SubmitPack, Provision, JobFails, Ask, ResultTaken,
       serviceVars, ServiceTyped
  <2> QED BY <2>1, <2>2, <2>3, <2>4, OthersProgress
<1>6. ASSUME NEW t \in Sessions, OpenSession(t)
      PROVE  \A q \in Workers : Progress(call[q], job[q])'
  <2>1. initialSessionState(DirectionOf[t]) \notin Underway
    BY DEF initialSessionState, Underway
  <2>2. /\ UNCHANGED <<job, call>>
        /\ \A s \in Sessions :
             sessionState'[s] = sessionState[s] \/ sessionState'[s] \notin Underway
    BY <1>3, <1>6, <2>1 DEF OpenSession, CreateSession, ServiceTyped
  <2> QED BY <1>3, <2>2, ProgressKept DEF RInv
<1>7. CASE UNCHANGED vars
  <2>1. UNCHANGED <<sessionState, job, call>>
    BY <1>7 DEF vars, serviceVars
  <2> QED BY <1>3, <2>1, ProgressKept DEF RInv
<1> QED BY <1>4, <1>5, <1>6, <1>7 DEF Next, Work, TransitionStep

\* A delivery that gets to the end leaves none of its user's sessions behind,
\* whatever earlier deliveries left half-way: each loop takes up every session
\* that is where it starts from, and the only error it passes over is one the
\* call cannot meet there.
THEOREM RedeliveryHeals == Spec /\ []OneDeliveryPerUser => RedeliveryCompletes
<1>1. ASSUME RInv, NEW p \in Workers, job[p].step = "nextSession",
             job[p].loop = "bank_link_required", job[p].todo = {},
             NEW s \in Sessions, UserOf[s] = job[p].user
      PROVE  /\ sessionState[s] # "named_account_pending"
             /\ job[p].answer = "active" =>
                  sessionState[s] \notin
                    {"kyc_ok", "compliance_handoff_pending", "compliance_handoff_ok"}
  <2>1. sessionState[s] # "named_account_pending"
    BY <1>1, LoopOver DEF Source
  <2>2. CASE job[p].answer = "active"
    <3>1. \A l \in {"compliance_handoff_pending", "compliance_handoff_ok",
                    "named_account_pending"} :
            l \in Loop /\ sessionState[s] # Source(l)
      BY <1>1, <2>2 DEF RInv, Progress, Emptied, Through, Looping, Loop
    <3> QED BY <2>1, <3>1 DEF Source
  <2> QED BY <2>1, <2>2
<1>2. RInv =>
        [ \A p \in Workers :
            /\ job[p].step = "nextSession"
            /\ job[p].loop = "bank_link_required"
            /\ job[p].todo = {}
            /\ job'[p] = NoJob
            => \A s \in Sessions :
                 UserOf[s] = job[p].user =>
                   /\ sessionState[s] # "named_account_pending"
                   /\ job[p].answer = "active" =>
                        sessionState[s] \notin
                          {"kyc_ok", "compliance_handoff_pending", "compliance_handoff_ok"} ]_vars
  BY <1>1
<1> QED BY <1>2, RInvAtFirst, RInvStep, PTL DEF Spec, RedeliveryCompletes
===============================================================================
