--------------------------- MODULE ApprovalProofs ---------------------------
(* Theorems about asking the user, for any number of calls, scopes, turns,  *)
(* posture switches and concurrent handlers.                                *)
EXTENDS Approval, TLAPS

USE KindsAssumption, NoneAssumption, BoundsAssumption, TimeoutsAssumption
DEF KindsAssumption, NoneAssumption, BoundsAssumption, TimeoutsAssumption

-----------------------------------------------------------------------------
(* The inductive invariant *)

Tools == {"writer", "askRule"}
Remembering(c) == reply[c] = "session" /\ kind[c] \in {"writer", "askRule", "trust"}

\* The call that holds promptMu is the one between Lock and the end of its select.
LockHeld == \A c \in Calls : callPC[c] \in {"recheck", "register", "waiting"} <=> promptMu = c

\* An open prompt waits, and nobody has answered it.
OpenUnanswered == \A c \in pending : callPC[c] = "waiting" /\ reply[c] = "none"

\* Nothing is answered before it is prompted.
BeforePrompt ==
    \A c \in Calls : callPC[c] \in {"idle", "queued", "recheck", "register"}
                       => c \notin pending /\ reply[c] = "none"

\* A drained prompt is in the hands of one handler, which has yet to answer it.
DrainedOnce ==
    \A h \in Handlers : \A c \in drained[h] :
       /\ c \notin pending
       /\ reply[c] = "none"
       /\ kind[c] \in Tools
       /\ callPC[c] \in {"waiting", "done"}
       /\ handlerPC[h] # "idle"
       /\ \A g \in Handlers : c \in drained[g] => g = h

Replies == \A c \in Calls : reply[c] = "drained" => kind[c] \in Tools

Verdicts == \A c \in Calls : verdict[c] = "none" <=> callPC[c] # "done"

Remembered ==
    /\ \A c \in Calls : callPC[c] = "granting" => Remembering(c)
    /\ \A c \in Calls : Remembering(c) => scope[c] \in allowedScopes
    /\ granted \subseteq allowedScopes

IInv == /\ TypeOK /\ LockHeld /\ OpenUnanswered /\ BeforePrompt /\ DrainedOnce
        /\ Replies /\ Verdicts /\ Remembered /\ UserDecides

LEMMA InitIInv == Init => IInv
<1> SUFFICES ASSUME Init PROVE IInv
  OBVIOUS
<1>1. TypeOK
  <2>1. 0 \in 0..MaxTurns /\ 0 \in 0..MaxSwitches
    OBVIOUS
  <2> QED BY <2>1 DEF Init, TypeOK, Modes
<1>2. LockHeld /\ OpenUnanswered /\ BeforePrompt /\ DrainedOnce /\ Verdicts
  BY DEF Init, LockHeld, OpenUnanswered, BeforePrompt, DrainedOnce, Verdicts
<1>3. Replies /\ Remembered /\ UserDecides
  BY DEF Init, Replies, Remembered, Remembering, UserDecides
<1> QED BY <1>1, <1>2, <1>3 DEF IInv

LEMMA NextTypeOK == TypeOK /\ [Next]_vars => TypeOK'
<1> SUFFICES ASSUME TypeOK, [Next]_vars PROVE TypeOK'
  OBVIOUS
<1> USE DEF managerVars, callVars, turnVars, cancelVars, switchVars, historyVars
<1>1. CASE StartTurn
  BY <1>1 DEF StartTurn, TypeOK
<1>2. CASE EndTurn
  <2>1. ctxDone' \subseteq 0..MaxTurns
    BY <1>2 DEF EndTurn, TypeOK
  <2> QED BY <1>2, <2>1 DEF EndTurn, TypeOK
<1>3. CASE OpenPlanWindow
  BY <1>3 DEF OpenPlanWindow, TypeOK
<1>4. ASSUME NEW c \in Calls, Request(c) PROVE TypeOK'
  <2>1. /\ callTurn' \in [Calls -> 0..MaxTurns]
        /\ callPC' \in [Calls -> {"idle", "queued", "recheck", "register", "waiting",
                                  "granting", "done"}]
        /\ verdict' \in [Calls -> {"none", "allow", "deny", "aborted"}]
    BY <1>4 DEF Request, Finish, TypeOK
  <2> QED BY <1>4, <2>1 DEF Request, TypeOK
<1>5. ASSUME NEW c \in Calls, Lock(c) PROVE TypeOK'
  BY <1>5 DEF Lock, TypeOK
<1>6. ASSUME NEW c \in Calls, Recheck(c) PROVE TypeOK'
  <2>1. /\ callPC' \in [Calls -> {"idle", "queued", "recheck", "register", "waiting",
                                  "granting", "done"}]
        /\ verdict' \in [Calls -> {"none", "allow", "deny", "aborted"}]
        /\ promptMu' \in Calls \cup {None}
    BY <1>6 DEF Recheck, Finish, TypeOK
  <2> QED BY <1>6, <2>1 DEF Recheck, TypeOK
<1>7. ASSUME NEW c \in Calls, Register(c) PROVE TypeOK'
  BY <1>7 DEF Register, TypeOK
<1>8. ASSUME NEW c \in Calls, Receive(c) PROVE TypeOK'
  <2>1. /\ callPC' \in [Calls -> {"idle", "queued", "recheck", "register", "waiting",
                                  "granting", "done"}]
        /\ verdict' \in [Calls -> {"none", "allow", "deny", "aborted"}]
    BY <1>8 DEF Receive, Finish, TypeOK
  <2> QED BY <1>8, <2>1 DEF Receive, TypeOK
<1>9. ASSUME NEW c \in Calls, Abort(c) PROVE TypeOK'
  BY <1>9 DEF Abort, Finish, TypeOK
<1>10. ASSUME NEW c \in Calls, Grant(c) PROVE TypeOK'
  BY <1>10 DEF Grant, Finish, TypeOK
<1>11. ASSUME NEW c \in Calls, NEW a \in {"allow", "session", "deny"}, Answer(c, a)
       PROVE TypeOK'
  BY <1>11 DEF Answer, TypeOK
<1>12. CASE CancelCapture
  BY <1>12 DEF CancelCapture, TypeOK
<1>13. CASE CancelClear
  BY <1>13 DEF CancelClear, TypeOK
<1>14. CASE CancelContext
  <2>1. ctxDone' \subseteq 0..MaxTurns
    BY <1>14 DEF CancelContext, TypeOK
  <2> QED BY <1>14, <2>1 DEF CancelContext, TypeOK
<1>15. ASSUME NEW h \in Handlers, BuildGate(h) PROVE TypeOK'
  BY <1>15 DEF BuildGate, TypeOK
<1>16. ASSUME NEW h \in Handlers, InstallGate(h) PROVE TypeOK'
  BY <1>16 DEF InstallGate, TypeOK
<1>17. ASSUME NEW h \in Handlers, SendDrained(h) PROVE TypeOK'
  BY <1>17 DEF SendDrained, TypeOK
<1>18. ASSUME NEW h \in Handlers, NEW m \in Modes, Switch(h, m) PROVE TypeOK'
  <2>1. /\ drained' \in [Handlers -> SUBSET Calls]
        /\ handlerPC' \in [Handlers -> {"idle", "switched", "built", "installed"}]
        /\ switches' \in 0..MaxSwitches
        /\ pending' \subseteq Calls
    BY <1>18 DEF Switch, TypeOK
  <2> QED BY <1>18, <2>1 DEF Switch, TypeOK
<1>19. CASE UNCHANGED vars
  BY <1>19 DEF vars, TypeOK
<1> QED
  BY <1>1, <1>2, <1>3, <1>4, <1>5, <1>6, <1>7, <1>8, <1>9, <1>10, <1>11, <1>12,
     <1>13, <1>14, <1>15, <1>16, <1>17, <1>18, <1>19
  DEF Next, CallStep, HandlerStep

LEMMA NextIInv == IInv /\ [Next]_vars => IInv'
<1> SUFFICES ASSUME IInv, [Next]_vars PROVE IInv'
  OBVIOUS
<1>t. TypeOK'
  BY NextTypeOK DEF IInv
<1> USE <1>t
<1> USE DEF managerVars, callVars, turnVars, cancelVars, switchVars, historyVars, IInv,
            LockHeld, OpenUnanswered, BeforePrompt, DrainedOnce, Replies, Verdicts,
            Remembered, Remembering, UserDecides, Tools
<1>1. CASE StartTurn \/ EndTurn \/ OpenPlanWindow
  BY <1>1 DEF StartTurn, EndTurn, OpenPlanWindow
<1>2. ASSUME NEW c \in Calls, Request(c) PROVE IInv'
  BY <1>2 DEF Request, Finish, PreApproved, BypassAllows, GrantAllows, TypeOK
<1>3. ASSUME NEW c \in Calls, Lock(c) PROVE IInv'
  BY <1>3 DEF Lock, TypeOK
<1>4. ASSUME NEW c \in Calls, Recheck(c) PROVE IInv'
  BY <1>4 DEF Recheck, Finish, PreApproved, BypassAllows, GrantAllows, TypeOK
<1>5. ASSUME NEW c \in Calls, Register(c) PROVE IInv'
  BY <1>5 DEF Register, TypeOK
<1>6. ASSUME NEW c \in Calls, Receive(c) PROVE IInv'
  <2>1. /\ promptMu = c /\ promptMu' = None
        /\ callPC' \in {[callPC EXCEPT ![c] = "granting"], [callPC EXCEPT ![c] = "done"]}
        /\ c \notin pending
    BY <1>6 DEF Receive, Finish
  <2>2. LockHeld' /\ OpenUnanswered' /\ BeforePrompt' /\ DrainedOnce' /\ Replies'
    BY <1>6, <2>1 DEF Receive, TypeOK
  <2>3. Verdicts' /\ UserDecides'
    BY <1>6 DEF Receive, Finish, TypeOK
  <2>4. Remembered'
    <3>1. kind[c] \in AllKinds
      BY DEF TypeOK
    <3>2. callPC'[c] = "granting" => Remembering(c)
      BY <1>6, <3>1 DEF Receive, Finish, FreshTool, TypeOK, AllKinds
    <3>3. \A d \in Calls \ {c} : callPC'[d] = callPC[d]
      BY <2>1 DEF TypeOK
    <3> QED BY <1>6, <3>2, <3>3 DEF Receive
  <2> QED BY <2>2, <2>3, <2>4
<1>7. ASSUME NEW c \in Calls, Abort(c) PROVE IInv'
  BY <1>7 DEF Abort, Finish, TypeOK
<1>8. ASSUME NEW c \in Calls, Grant(c) PROVE IInv'
  BY <1>8 DEF Grant, Finish, TypeOK
<1>9. ASSUME NEW c \in Calls, NEW a \in {"allow", "session", "deny"}, Answer(c, a)
      PROVE IInv'
  BY <1>9 DEF Answer, FreshTool, TypeOK, AllKinds
<1>10. CASE CancelCapture \/ CancelClear \/ CancelContext
  BY <1>10 DEF CancelCapture, CancelClear, CancelContext
<1>11. ASSUME NEW h \in Handlers, BuildGate(h) \/ InstallGate(h) PROVE IInv'
  BY <1>11 DEF BuildGate, InstallGate, TypeOK
<1>12. ASSUME NEW h \in Handlers, SendDrained(h) PROVE IInv'
  BY <1>12 DEF SendDrained, TypeOK
<1>13. ASSUME NEW h \in Handlers, NEW m \in Modes, Switch(h, m) PROVE IInv'
  BY <1>13 DEF Switch, Drains, TypeOK
<1>14. CASE UNCHANGED vars
  BY <1>14 DEF vars, TypeOK
<1> QED
  BY <1>1, <1>2, <1>3, <1>4, <1>5, <1>6, <1>7, <1>8, <1>9, <1>10, <1>11, <1>12,
     <1>13, <1>14 DEF Next, CallStep, HandlerStep

LEMMA Invariance == Spec => []IInv
BY InitIInv, NextIInv, PTL DEF Spec

-----------------------------------------------------------------------------

(* Type correctness of the approval manager, its callers and its history. *)
THEOREM TypeCorrect == Spec => []TypeOK
BY Invariance, PTL DEF IInv

(* promptMu serialises the prompts: at most one is open, it belongs to the  *)
(* call that holds the lock, and that call sits in its select.              *)
THEOREM OnePrompt == Spec => []OnePromptAtATime
<1>1. IInv => OnePromptAtATime
  BY DEF IInv, TypeOK, LockHeld, OpenUnanswered, OnePromptAtATime
<1> QED
  BY <1>1, Invariance, PTL

(* Plans, memory writes, questions and trust decisions are the user's alone: *)
(* no posture, drain, plan window or grant the user did not give settles one.*)
THEOREM TheUserDecides == Spec => []UserDecides
BY Invariance, PTL DEF IInv

\* The plan a window rests on stays approved, and its turn stays the current one.
LEMMA NextWindow == IInv /\ WindowNeedsPlan /\ [Next]_vars => WindowNeedsPlan'
<1> SUFFICES ASSUME IInv, WindowNeedsPlan, [Next]_vars, planAuto'
             PROVE  running' /\ PlanApproved'
  BY DEF WindowNeedsPlan
<1> USE DEF managerVars, callVars, turnVars, cancelVars, switchVars, historyVars
<1>1. CASE OpenPlanWindow
  BY <1>1 DEF OpenPlanWindow, PlanApproved
<1>2. CASE StartTurn \/ EndTurn
  BY <1>2 DEF StartTurn, EndTurn, WindowNeedsPlan
<1>3. ASSUME UNCHANGED <<planAuto, turn, running, kind>>,
             \A c \in Calls : verdict[c] = "allow" => /\ verdict'[c] = "allow"
                                                      /\ callTurn'[c] = callTurn[c]
      PROVE  running' /\ PlanApproved'
  BY <1>3 DEF WindowNeedsPlan, PlanApproved
<1>4. ASSUME NEW c \in Calls, Request(c) PROVE running' /\ PlanApproved'
  BY <1>3, <1>4 DEF Request, Finish, IInv, TypeOK, Verdicts
<1>5. ASSUME NEW c \in Calls, CallStep(c) PROVE running' /\ PlanApproved'
  <2>1. UNCHANGED <<planAuto, turn, running, kind, callTurn>>
    BY <1>5 DEF CallStep, Lock, Recheck, Register, Receive, Abort, Grant
  <2>2. UNCHANGED verdict \/ \E v : Finish(c, v) /\ callPC[c] # "done"
    BY <1>5 DEF CallStep, Lock, Recheck, Register, Receive, Abort, Grant, Finish
  <2> QED BY <1>3, <2>1, <2>2 DEF Finish, IInv, TypeOK, Verdicts
<1>6. ASSUME NEW c \in Calls, NEW a \in {"allow", "session", "deny"}, Answer(c, a)
      PROVE running' /\ PlanApproved'
  BY <1>3, <1>6 DEF Answer
<1>7. CASE CancelCapture \/ CancelClear \/ CancelContext
  BY <1>3, <1>7 DEF CancelCapture, CancelClear, CancelContext
<1>8. ASSUME NEW h \in Handlers, HandlerStep(h) PROVE running' /\ PlanApproved'
  BY <1>3, <1>8 DEF HandlerStep, BuildGate, InstallGate, SendDrained
<1>9. ASSUME NEW h \in Handlers, NEW m \in Modes, Switch(h, m)
      PROVE running' /\ PlanApproved'
  BY <1>3, <1>9 DEF Switch
<1>10. CASE UNCHANGED vars
  BY <1>3, <1>10 DEF vars
<1> QED
  BY <1>1, <1>2, <1>4, <1>5, <1>6, <1>7, <1>8, <1>9, <1>10 DEF Next

(* The window in which an approved plan runs without prompts never outlives  *)
(* the turn whose plan the user approved.                                    *)
THEOREM PlanWindow == Spec => []WindowNeedsPlan
<1>1. Init => WindowNeedsPlan
  BY DEF Init, WindowNeedsPlan
<1> QED
  BY <1>1, NextWindow, Invariance, PTL DEF Spec

-----------------------------------------------------------------------------
(* Prompts are not lost *)

\* A call that neither begins to wait nor loses what will wake it does not
\* become an orphan.
LEMMA StillHeld ==
  ASSUME OrphansAreStrays, UNCHANGED <<ctxDone, cancelPC, cancelTurn, strays, callTurn>>,
         \A c \in Calls : callPC'[c] = "waiting" =>
            /\ callPC[c] = "waiting" \/ c \in pending'
            /\ c \in pending =>
                 c \in pending' \/ reply'[c] # "none" \/ \E h \in Handlers : c \in drained'[h]
            /\ reply[c] # "none" => reply'[c] # "none"
            /\ \A h \in Handlers : c \in drained[h] => c \in drained'[h] \/ reply'[c] # "none"
  PROVE  OrphansAreStrays'
BY DEF OrphansAreStrays, Orphaned

LEMMA NextHeld == IInv /\ OrphansAreStrays /\ [Next]_vars => OrphansAreStrays'
<1> SUFFICES ASSUME IInv, OrphansAreStrays, [Next]_vars PROVE OrphansAreStrays'
  OBVIOUS
<1> USE DEF managerVars, callVars, turnVars, cancelVars, switchVars, historyVars
<1>1. CASE StartTurn \/ OpenPlanWindow
  BY <1>1, StillHeld DEF StartTurn, OpenPlanWindow
<1>2. CASE EndTurn
  BY <1>2 DEF EndTurn, OrphansAreStrays, Orphaned
<1>3. ASSUME NEW c \in Calls, Request(c) PROVE OrphansAreStrays'
  BY <1>3 DEF Request, Finish, OrphansAreStrays, Orphaned, IInv, TypeOK
<1>4. ASSUME NEW c \in Calls, CallStep(c) PROVE OrphansAreStrays'
  BY <1>4, StillHeld
  DEF CallStep, Lock, Recheck, Register, Receive, Abort, Grant, Finish, IInv, TypeOK
<1>5. ASSUME NEW c \in Calls, NEW a \in {"allow", "session", "deny"}, Answer(c, a)
      PROVE OrphansAreStrays'
  BY <1>5, StillHeld DEF Answer, IInv, TypeOK
<1>6. CASE CancelCapture \/ CancelClear \/ CancelContext
  BY <1>6 DEF CancelCapture, CancelClear, CancelContext, OrphansAreStrays, Orphaned
<1>7. ASSUME NEW h \in Handlers, BuildGate(h) \/ InstallGate(h) PROVE OrphansAreStrays'
  BY <1>7, StillHeld DEF BuildGate, InstallGate
<1>8. ASSUME NEW h \in Handlers, SendDrained(h) PROVE OrphansAreStrays'
  BY <1>8, StillHeld DEF SendDrained, IInv, TypeOK
<1>9. ASSUME NEW h \in Handlers, NEW m \in Modes, Switch(h, m) PROVE OrphansAreStrays'
  <2>1. drained[h] = {}
    BY <1>9 DEF Switch, IInv, DrainedOnce
  <2> QED BY <1>9, <2>1, StillHeld DEF Switch, IInv, TypeOK
<1>10. CASE UNCHANGED vars
  BY <1>10, StillHeld DEF vars
<1> QED
  BY <1>1, <1>2, <1>3, <1>4, <1>5, <1>6, <1>7, <1>8, <1>9, <1>10
  DEF Next, HandlerStep

(* A call that waits with nothing left to wake it lost its prompt to a       *)
(* Cancel aimed at an earlier turn, and in no other way: answers, drains,    *)
(* posture switches and the Cancel of its own turn leave it something.       *)
THEOREM PromptsAreHeld == Spec => []OrphansAreStrays
<1>1. Init => OrphansAreStrays
  BY DEF Init, OrphansAreStrays, Orphaned
<1> QED
  BY <1>1, NextHeld, Invariance, PTL DEF Spec

-----------------------------------------------------------------------------
(* Approval implements Consent *)

LEMMA InitRefines == Init => C!Init
BY DEF Init, C!Init, StatusOf, AnswerOf

\* A call that is finished becomes allowed or refused, and no other call changes.
LEMMA FinishStatus ==
  ASSUME TypeOK, NEW c \in Calls, NEW v \in {"allow", "deny", "aborted"}, Finish(c, v)
  PROVE  [d \in Calls |-> StatusOf(d)]' =
            [[d \in Calls |-> StatusOf(d)] EXCEPT
                ![c] = IF v = "allow" THEN "allowed" ELSE "refused"]
<1>1. ASSUME NEW d \in Calls, d # c PROVE StatusOf(d)' = StatusOf(d)
  BY <1>1 DEF Finish, TypeOK, StatusOf
<1>2. callPC'[c] = "done" /\ verdict'[c] = v
  BY DEF Finish, TypeOK
<1>3. StatusOf(c)' = IF v = "allow" THEN "allowed" ELSE "refused"
  BY <1>2 DEF StatusOf
<1> QED BY <1>1, <1>3

\* A call that starts to wait is being asked, and no other call changes.
LEMMA QueueStatus ==
  ASSUME TypeOK, NEW c \in Calls, callPC' = [callPC EXCEPT ![c] = "queued"],
         UNCHANGED verdict, verdict[c] = "none"
  PROVE  [d \in Calls |-> StatusOf(d)]' =
            [[d \in Calls |-> StatusOf(d)] EXCEPT ![c] = "asking"]
<1>1. ASSUME NEW d \in Calls, d # c PROVE StatusOf(d)' = StatusOf(d)
  BY <1>1 DEF TypeOK, StatusOf
<1>2. callPC'[c] = "queued" /\ verdict'[c] = "none"
  BY DEF TypeOK
<1>3. StatusOf(c)' = "asking"
  BY <1>2 DEF StatusOf
<1> QED BY <1>1, <1>3

LEMMA PreApprovedConsented == ASSUME NEW c \in Calls, PreApproved(c) PROVE C!Consented(c)
BY DEF PreApproved, BypassAllows, GrantAllows, C!Consented, C!Covers, C!MayRemember

LEMMA StepRefines == IInv /\ IInv' /\ [Next]_vars => [C!Next]_(C!vars)
<1> SUFFICES ASSUME IInv, IInv', [Next]_vars PROVE C!Next \/ UNCHANGED C!vars
  OBVIOUS
<1> DEFINE S == [c \in Calls |-> StatusOf(c)]
           A == [c \in Calls |-> AnswerOf(c)]
<1> USE DEF managerVars, callVars, turnVars, cancelVars, switchVars, historyVars
<1>1. CASE StartTurn \/ CancelCapture \/ CancelClear \/ CancelContext
  BY <1>1 DEF StartTurn, CancelCapture, CancelClear, CancelContext, C!vars,
              StatusOf, AnswerOf
<1>2. CASE EndTurn \/ OpenPlanWindow
  <2>1. C!SetWindow(planAuto')
    BY <1>2 DEF EndTurn, OpenPlanWindow, C!SetWindow, StatusOf, AnswerOf
  <2> QED BY <2>1, <1>2 DEF C!Next, EndTurn, OpenPlanWindow
<1>3. ASSUME NEW c \in Calls, Request(c) PROVE C!Ask(c)
  <2>1. A' = A
    BY <1>3 DEF Request, AnswerOf
  <2>2. S[c] = "unasked"
    BY <1>3 DEF Request, StatusOf
  <2>3. CASE PreApproved(c)
    <3>1. S' = [S EXCEPT ![c] = "allowed"]
      BY <1>3, <2>3, FinishStatus DEF Request, IInv
    <3> QED BY <1>3, <2>1, <2>2, <2>3, <3>1, PreApprovedConsented DEF Request, C!Ask
  <2>4. CASE ~PreApproved(c)
    <3>1. S' = [S EXCEPT ![c] = "asking"]
      BY <1>3, <2>4, QueueStatus DEF Request, IInv, Verdicts
    <3> QED BY <1>3, <2>1, <2>2, <3>1 DEF Request, C!Ask
  <2> QED BY <2>3, <2>4
<1>4. ASSUME NEW c \in Calls, Lock(c) \/ Register(c) PROVE UNCHANGED C!vars
  BY <1>4 DEF Lock, Register, C!vars, StatusOf, AnswerOf, IInv, TypeOK
<1>5. ASSUME NEW c \in Calls, Recheck(c) PROVE C!Allow(c) \/ UNCHANGED C!vars
  <2>1. A' = A
    BY <1>5 DEF Recheck, AnswerOf
  <2>2. S[c] = "asking" /\ A[c] = "none"
    BY <1>5 DEF Recheck, StatusOf, AnswerOf, IInv, Verdicts, BeforePrompt, DrainedOnce
  <2>3. CASE PreApproved(c)
    <3>1. S' = [S EXCEPT ![c] = "allowed"]
      BY <1>5, <2>3, FinishStatus DEF Recheck, IInv
    <3> QED BY <1>5, <2>1, <2>2, <2>3, <3>1, PreApprovedConsented DEF Recheck, C!Allow
  <2>4. CASE ~PreApproved(c)
    <3>1. S' = S
      BY <1>5, <2>4 DEF Recheck, StatusOf, IInv, TypeOK
    <3> QED BY <1>5, <2>1, <3>1 DEF Recheck, C!vars
  <2> QED BY <2>3, <2>4
<1>6. ASSUME NEW c \in Calls, Receive(c)
      PROVE C!Allow(c) \/ C!Refuse(c) \/ UNCHANGED C!vars
  <2>1. A' = A
    BY <1>6 DEF Receive, AnswerOf
  <2>2. S[c] = "asking"
    BY <1>6 DEF Receive, StatusOf, IInv, Verdicts
  <2>3. CASE reply[c] = "session" /\ ~FreshTool(c) /\ kind[c] # "question"
    <3>1. S' = S
      BY <1>6, <2>3 DEF Receive, StatusOf, IInv, TypeOK
    <3> QED BY <1>6, <2>1, <3>1 DEF Receive, C!vars
  <2>4. CASE reply[c] = "deny"
    <3>1. S' = [S EXCEPT ![c] = "refused"]
      BY <1>6, <2>4, FinishStatus DEF Receive, IInv
    <3> QED BY <1>6, <2>1, <2>2, <3>1 DEF Receive, C!Refuse
  <2>5. CASE /\ reply[c] # "deny"
             /\ ~(reply[c] = "session" /\ ~FreshTool(c) /\ kind[c] # "question")
    <3>1. S' = [S EXCEPT ![c] = "allowed"]
      BY <1>6, <2>5, FinishStatus DEF Receive, IInv
    <3>2. A[c] \in {"allow", "session", "posture"}
      BY <1>6, <2>5 DEF Receive, AnswerOf, IInv, TypeOK
    <3>3. ~(A[c] = "session" /\ C!MayRemember(c))
      BY <1>6, <2>5 DEF Receive, AnswerOf, FreshTool, C!MayRemember
    <3> QED BY <1>6, <2>1, <2>2, <3>1, <3>2, <3>3 DEF Receive, C!Allow
  <2> QED BY <2>3, <2>4, <2>5
<1>7. ASSUME NEW c \in Calls, Abort(c) PROVE C!Refuse(c)
  <2>1. S[c] = "asking" /\ A' = A
    BY <1>7 DEF Abort, StatusOf, AnswerOf, IInv, Verdicts
  <2>2. S' = [S EXCEPT ![c] = "refused"]
    BY <1>7, FinishStatus DEF Abort, IInv
  <2> QED BY <1>7, <2>1, <2>2 DEF Abort, C!Refuse
<1>8. ASSUME NEW c \in Calls, Grant(c) PROVE C!Allow(c)
  <2>1. S[c] = "asking" /\ A' = A
    BY <1>8 DEF Grant, StatusOf, AnswerOf, IInv, Verdicts
  <2>3. S' = [S EXCEPT ![c] = "allowed"]
    BY <1>8, FinishStatus DEF Grant, IInv
  <2>2. A[c] = "session" /\ C!MayRemember(c)
    BY <1>8 DEF Grant, AnswerOf, C!MayRemember, IInv, Remembered, Remembering,
                DrainedOnce
  <2> QED BY <1>8, <2>1, <2>2, <2>3 DEF Grant, C!Allow
<1>9. ASSUME NEW c \in Calls, NEW a \in {"allow", "session", "deny"}, Answer(c, a)
      PROVE C!Decide(c, a)
  <2>1. S[c] = "asking" /\ S' = S
    BY <1>9 DEF Answer, StatusOf, IInv, OpenUnanswered, Verdicts
  <2>2. A[c] = "none"
    BY <1>9 DEF Answer, AnswerOf, IInv, OpenUnanswered, DrainedOnce
  <2>3. A' = [A EXCEPT ![c] = a]
    BY <1>9 DEF Answer, AnswerOf, IInv, TypeOK, OpenUnanswered, DrainedOnce
  <2> QED BY <1>9, <2>1, <2>2, <2>3 DEF Answer, C!Decide
<1>10. ASSUME NEW h \in Handlers, BuildGate(h) \/ InstallGate(h) PROVE UNCHANGED C!vars
  BY <1>10 DEF BuildGate, InstallGate, C!vars, StatusOf, AnswerOf
<1>11. ASSUME NEW h \in Handlers, SendDrained(h) PROVE UNCHANGED C!vars
  <2>1. A' = A
    <3>1. ASSUME NEW c \in Calls PROVE AnswerOf(c)' = AnswerOf(c)
      BY <1>11 DEF SendDrained, AnswerOf, IInv, TypeOK
    <3> QED BY <3>1
  <2>2. S' = S
    BY <1>11 DEF SendDrained, StatusOf
  <2> QED BY <1>11, <2>1, <2>2 DEF SendDrained, C!vars
<1>12. ASSUME NEW h \in Handlers, NEW m \in Modes, Switch(h, m) PROVE C!SwitchTo(m)
  <2> DEFINE D == {c \in pending : Drains(m, c)}
  <2>1. S' = S
    BY <1>12 DEF Switch, StatusOf
  <2>2. D \in SUBSET {c \in Calls : S[c] = "asking" /\ A[c] = "none" /\ C!Covers(m, c)}
    BY <1>12 DEF Switch, Drains, C!Covers, StatusOf, AnswerOf, IInv, TypeOK,
                 OpenUnanswered, Verdicts, DrainedOnce
  <2>3. A' = [c \in Calls |-> IF c \in D THEN "posture" ELSE A[c]]
    <3>1. drained[h] = {}
      BY <1>12 DEF Switch, IInv, DrainedOnce
    <3>2. ASSUME NEW c \in Calls
          PROVE AnswerOf(c)' = IF c \in D THEN "posture" ELSE AnswerOf(c)
      BY <1>12, <3>1 DEF Switch, AnswerOf, IInv, TypeOK
    <3> QED BY <3>2
  <2> QED BY <1>12, <2>1, <2>2, <2>3 DEF Switch, C!SwitchTo
<1>13. CASE UNCHANGED vars
  BY <1>13 DEF vars, C!vars, StatusOf, AnswerOf
<1> QED
  BY <1>1, <1>2, <1>3, <1>4, <1>5, <1>6, <1>7, <1>8, <1>9, <1>10, <1>11, <1>12, <1>13
  DEF Next, CallStep, HandlerStep, C!Next, Modes

(* Every call that is let through has the user's yes, a grant the user gave   *)
(* or a posture the user chose behind it, in every interleaving of the calls, *)
(* answers, switches, cancels and turns: Approval implements Consent.         *)
THEOREM RefinesConsent == Spec => ImplementsConsent
<1>1. Init /\ [][Next]_vars /\ []IInv => C!Init /\ [][C!Next]_(C!vars)
  BY InitRefines, StepRefines, PTL
<1> QED
  BY <1>1, Invariance, PTL DEF Spec, ImplementsConsent, C!Spec
=============================================================================
