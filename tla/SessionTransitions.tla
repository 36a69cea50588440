------------------------- MODULE SessionTransitions -------------------------
(***************************************************************************)
(* The transition service under callers that may ask for any transition at *)
(* any time, and facts about users that come true, and stop being true,    *)
(* between the steps of a call.  The handlers of the server are some of    *)
(* these callers, so what holds here holds whatever order their calls run  *)
(* in.                                                                     *)
(***************************************************************************)
EXTENDS SessionGates

CONSTANT Calls      \* the [to, reason] pairs callers may ask for

ASSUME CallsAssumption == Calls \subseteq [to : SessionState, reason : TransitionReason]

vars == <<serviceVars, everHeld>>

-----------------------------------------------------------------------------

Init ==
  /\ sessionState = [s \in Sessions |-> Absent]
  /\ audited = [s \in Sessions |-> Absent]
  /\ call = [p \in Workers |-> IdleFrame]
  /\ everHeld = [u \in Users |-> {}]

\* A profile is only ever upserted as approved and no code deletes a wallet:
\* these facts stay true.  The newest submission, and the account row the query
\* happens to take, may go back to pending.
Monotone == {"kycApproved", "hasWallet"}

Establish(u, f) ==
  /\ f \notin everHeld[u]
  /\ everHeld' = [everHeld EXCEPT ![u] = @ \cup {f}]
  /\ UNCHANGED serviceVars

Call(p, s, c) ==
  /\ call[p].step = "idle"
  /\ call' = [call EXCEPT ![p] = Called(s, c.to, c.reason)]
  /\ UNCHANGED <<sessionState, audited>>

\* The caller takes the result.
TakeResult(p) ==
  /\ call[p].step = "returned"
  /\ call' = [call EXCEPT ![p] = IdleFrame]
  /\ UNCHANGED <<sessionState, audited>>

\* loadUserFlags finds true the facts that stay true and any of the others.
LoadUserFlags(p) ==
  /\ call[p].step = "loadFlags"
  /\ LET known == everHeld[UserOf[call[p].session]]
     IN \E held \in SUBSET known :
          known \cap Monotone \subseteq held /\ LoadFlags(p, held)

\* The steps of worker p that the event loop will eventually run.
Advance(p) ==
  \/ FindSession(p)
  \/ LoadUserFlags(p)
  \/ UpdateState(p)
  \/ AppendEvent(p)

ServiceStep(p) ==
  \/ Advance(p)
  \/ QueryFails(p)
  \/ TakeResult(p)
  \/ \E s \in Sessions, c \in Calls : Call(p, s, c)

Next ==
  \/ \E p \in Workers : ServiceStep(p) /\ UNCHANGED everHeld
  \/ \E s \in Sessions : CreateSession(s) /\ UNCHANGED everHeld
  \/ \E u \in Users, f \in UserFlag : Establish(u, f)

Spec == Init /\ [][Next]_vars

\* No lock is held, so a call in flight always has a query to wait for, and
\* the event loop resumes it once the query is answered.
FairSpec == Spec /\ \A p \in Workers : WF_vars(Advance(p) /\ UNCHANGED everHeld)

-----------------------------------------------------------------------------
(***************************************************************************)
(* Safety                                                                  *)
(***************************************************************************)

TypeOK ==
  /\ sessionState \in [Sessions -> SessionState \cup {Absent}]
  /\ audited \in [Sessions -> SessionState \cup {Absent}]
  /\ call \in [Workers -> Frame]
  /\ everHeld \in [Users -> SUBSET UserFlag]

\* A session that leaves the graph does so only under a writer that read it in
\* another state: a write conditional on the state read (UPDATE ... WHERE
\* state = from) would be enough to keep every session on the graph.
OnlyStaleWritesJump ==
  [][ \A s \in Sessions :
        /\ sessionState[s] # Absent
        /\ sessionState'[s] # sessionState[s]
        => \/ /\ sessionState[s] \notin TERMINAL_STATES
              /\ isGraphEdgeAllowed(sessionState[s], sessionState'[s], RelaxStateGuards)
           \/ \E p \in Workers :
                /\ call[p].step = "updateState"
                /\ call[p].session = s
                /\ call[p].from # sessionState[s] ]_vars

\* When no call for a session is under way its ledger leads to its state: no
\* change was left unrecorded, and events stand in the order of the writes.
AuditComplete ==
  \A s \in Sessions :
    (\A p \in Workers : InFlight(p) => call[p].session # s)
      => audited[s] = sessionState[s]

-----------------------------------------------------------------------------
(***************************************************************************)
(* With one worker and no failure the service keeps the abstract promise.  *)
(***************************************************************************)

Lifecycle == INSTANCE SessionLifecycle WITH granted <- everHeld

LifecycleSpec == Lifecycle!Spec

=============================================================================
