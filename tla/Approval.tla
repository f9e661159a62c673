------------------------------ MODULE Approval ------------------------------
(***************************************************************************)
(* Asking the user: internal/control/approval.go and the parts of          *)
(* internal/control/controller.go that drive it.                           *)
(*                                                                         *)
(* Tool calls of a turn ask for permission, plan approvals and questions   *)
(* ask for a decision.  At most one prompt is outstanding: promptMu is held*)
(* across the wait, while the short critical sections of approvalManager.mu*)
(* are interleaved by the user's answers, by posture switches of the UI,   *)
(* by Cancel, and by the turns that come and go.  One action below is one  *)
(* critical section, channel operation or context event.                   *)
(*                                                                         *)
(* A call makes one request, so the call stands for the prompt id the      *)
(* manager allocates (m.nextID is never reused).                           *)
(***************************************************************************)
EXTENDS Naturals, FiniteSets

CONSTANTS
    Calls,        \* requests that may be made
    Scopes,       \* session-grant scopes (tool and subject)
    Kinds,        \* the kinds of request that are made
    Handlers,     \* UI goroutines that may switch the posture concurrently
    None,
    MaxTurns,     \* bound on the number of turns
    MaxSwitches,  \* bound on the number of posture switches
    Timeouts      \* approvalTimeout is set

\* "writer": the policy's writer fallback; "askRule": an explicit ask rule;
\* "trust": the read-only trust of an MCP tool, a fresh decision; "fresh": the
\* memory tools; "plan": plan approval; "question": the ask tool.
AllKinds == {"writer", "askRule", "trust", "fresh", "plan", "question"}
Modes == {"ask", "auto", "yolo"}

ASSUME KindsAssumption == Kinds \subseteq AllKinds
ASSUME NoneAssumption == None \notin Calls
ASSUME BoundsAssumption == MaxTurns \in Nat /\ MaxSwitches \in Nat
ASSUME TimeoutsAssumption == Timeouts \in BOOLEAN

VARIABLES
    \* approvalManager, under mu
    pending,      \* approvals and asks: the calls with an open prompt
    granted,      \* the scopes granted for the session
    mode,         \* toolApprovalMode
    planAuto,     \* planAutoApprove
    promptMu,     \* the call that holds promptMu, or None
    \* the requests
    kind, scope,  \* what each call asks for
    callTurn,     \* the turn it belongs to
    callPC,       \* where it stands
    reply,        \* its reply channel (capacity one)
    verdict,      \* what the caller was told
    \* the controller, under c.mu
    turn,         \* the number of the current or last turn
    running,      \* c.running
    ctxDone,      \* the turns whose context is cancelled
    \* Cancel
    cancelPC, cancelTurn,
    \* SetToolApprovalMode, and the gate of the executor it rebuilds
    gate,         \* the posture the installed gate was built for
    handlerPC, built, drained,
    switches,
    \* history
    allowedScopes,  \* scopes the user answered "allow, for this session"
    strays          \* calls whose prompt a Cancel of an earlier turn dropped

managerVars == <<pending, granted, mode, planAuto, promptMu>>
callVars == <<kind, scope, callTurn, callPC, reply, verdict>>
turnVars == <<turn, running, ctxDone>>
cancelVars == <<cancelPC, cancelTurn>>
switchVars == <<gate, handlerPC, built, drained, switches>>
historyVars == <<allowedScopes, strays>>
vars == <<managerVars, callVars, turnVars, cancelVars, switchVars, historyVars>>

Init ==
    /\ pending = {} /\ granted = {} /\ mode = "ask" /\ planAuto = FALSE
    /\ promptMu = None
    /\ kind \in [Calls -> Kinds] /\ scope \in [Calls -> Scopes]
    /\ callTurn = [c \in Calls |-> 0]
    /\ callPC = [c \in Calls |-> "idle"]
    /\ reply = [c \in Calls |-> "none"]
    /\ verdict = [c \in Calls |-> "none"]
    /\ turn = 0 /\ running = FALSE /\ ctxDone = {}
    /\ cancelPC = "idle" /\ cancelTurn = 0
    /\ gate = "ask"
    /\ handlerPC = [h \in Handlers |-> "idle"]
    /\ built = [h \in Handlers |-> "ask"]
    /\ drained = [h \in Handlers |-> {}]
    /\ switches = 0
    /\ allowedScopes = {} /\ strays = {}

-----------------------------------------------------------------------------
(* Decisions under mu *)

\* requiresFreshApprovalTool
FreshTool(c) == kind[c] \in {"fresh", "plan"}

\* (mutant) a fresh decision takes the path of an ordinary permission
BypassAllowsTrust(c) ==
    /\ kind[c] \in {"writer", "askRule", "trust"}
    /\ mode = "yolo" \/ planAuto

\* bypassAllowsLocked, and the fresh decisions that preApprovedForDecision
\* keeps away from it; questions are never bypassed.
BypassAllows(c) ==
    /\ kind[c] \in {"writer", "askRule"}
    /\ mode = "yolo" \/ planAuto

\* sessionGrantAllowsLocked
GrantAllows(c) ==
    /\ kind[c] \in {"writer", "askRule", "trust"}
    /\ scope[c] \in granted

PreApproved(c) == BypassAllows(c) \/ GrantAllows(c)

\* (mutant) a switch answers every open permission prompt, fresh ones too
DrainsFresh(m, c) ==
    \/ m = "auto" /\ kind[c] = "writer"
    \/ m = "yolo" /\ kind[c] # "question"

\* drainLocked: which open prompts a switch to posture m answers.
Drains(m, c) ==
    \/ m = "auto" /\ kind[c] = "writer"
    \/ m = "yolo" /\ kind[c] \in {"writer", "askRule"}

Active == {c \in Calls : callPC[c] \notin {"idle", "done"}}
PlanApproved == \E c \in Calls : /\ kind[c] = "plan" /\ callTurn[c] = turn
                                 /\ verdict[c] = "allow"

-----------------------------------------------------------------------------
(* Turns: runGuarded and the plan window of runOrchestratedTurn *)

StartTurn ==
    /\ ~running
    /\ turn < MaxTurns
    /\ turn' = turn + 1
    /\ running' = TRUE
    /\ UNCHANGED <<managerVars, callVars, ctxDone, cancelVars, switchVars,
                   historyVars>>

\* (mutant) the deferred setPlanAutoApprove(false) is missing
EndTurnKeepsWindow ==
    /\ running
    /\ Active = {}
    /\ running' = FALSE
    /\ ctxDone' = ctxDone \cup {turn}
    /\ UNCHANGED <<managerVars, callVars, turn, cancelVars, switchVars, historyVars>>

\* The body returned: every call it made has been answered or aborted.
EndTurn ==
    /\ running
    /\ Active = {}
    /\ running' = FALSE
    /\ planAuto' = FALSE
    /\ ctxDone' = ctxDone \cup {turn}
    /\ UNCHANGED <<pending, granted, mode, promptMu, callVars, turn,
                   cancelVars, switchVars, historyVars>>

\* setPlanAutoApprove(true), after the user approved the plan of this turn.
OpenPlanWindow ==
    /\ running
    /\ PlanApproved
    /\ ~planAuto
    /\ planAuto' = TRUE
    /\ UNCHANGED <<pending, granted, mode, promptMu, callVars, turnVars,
                   cancelVars, switchVars, historyVars>>

-----------------------------------------------------------------------------
(* A request: requestApprovalDecisionWithOptions, and Ask *)

\* (mutant) the reply is handed to the caller as it came
FinishRaw(c, v) ==
    /\ callPC' = [callPC EXCEPT ![c] = "done"]
    /\ verdict' = [verdict EXCEPT ![c] = reply[c]]

Finish(c, v) ==
    /\ callPC' = [callPC EXCEPT ![c] = "done"]
    /\ verdict' = [verdict EXCEPT ![c] = v]

\* The call reaches the approver and checks the short-circuits for the first time.
\* A writer-fallback call gets here only if the installed gate still asks; a plan
\* is proposed when the run is over, and its execution waits for the window.
Request(c) ==
    /\ running
    /\ callPC[c] = "idle"
    /\ kind[c] = "writer" => gate = "ask"
    /\ kind[c] = "plan" => Active = {} /\ ~PlanApproved
    /\ \A d \in Active : kind[d] # "plan"
    /\ PlanApproved => planAuto
    /\ callTurn' = [callTurn EXCEPT ![c] = turn]
    /\ IF PreApproved(c) THEN Finish(c, "allow")
       ELSE /\ callPC' = [callPC EXCEPT ![c] = "queued"]
            /\ UNCHANGED verdict
    /\ UNCHANGED <<managerVars, kind, scope, reply, turnVars, cancelVars,
                   switchVars, historyVars>>

\* promptMu.Lock(): it does not look at the context.
Lock(c) ==
    /\ callPC[c] = "queued"
    /\ promptMu = None
    /\ promptMu' = c
    /\ callPC' = [callPC EXCEPT ![c] = "recheck"]
    /\ UNCHANGED <<pending, granted, mode, planAuto, kind, scope, callTurn, reply,
                   verdict, turnVars, cancelVars, switchVars, historyVars>>

\* The re-check under promptMu.
Recheck(c) ==
    /\ callPC[c] = "recheck"
    /\ IF PreApproved(c)
       THEN Finish(c, "allow") /\ promptMu' = None
       ELSE /\ callPC' = [callPC EXCEPT ![c] = "register"]
            /\ UNCHANGED <<verdict, promptMu>>
    /\ UNCHANGED <<pending, granted, mode, planAuto, kind, scope, callTurn, reply,
                   turnVars, cancelVars, switchVars, historyVars>>

\* (mutant) promptMu is released before the wait
RegisterUnlocks(c) ==
    /\ callPC[c] = "register"
    /\ pending' = pending \cup {c}
    /\ promptMu' = None
    /\ callPC' = [callPC EXCEPT ![c] = "waiting"]
    /\ UNCHANGED <<granted, mode, planAuto, kind, scope, callTurn, reply,
                   verdict, turnVars, cancelVars, switchVars, historyVars>>

\* registerDecision / registerAsk, and the event that shows the prompt.
Register(c) ==
    /\ callPC[c] = "register"
    /\ pending' = pending \cup {c}
    /\ callPC' = [callPC EXCEPT ![c] = "waiting"]
    /\ UNCHANGED <<granted, mode, planAuto, promptMu, kind, scope, callTurn, reply,
                   verdict, turnVars, cancelVars, switchVars, historyVars>>

\* The select takes the reply; promptMu is released on return.  An answer that is
\* to be remembered is recorded by requestApprovalWithReason after that.
Receive(c) ==
    /\ callPC[c] = "waiting"
    /\ reply[c] # "none"
    /\ promptMu' = None
    /\ IF reply[c] = "session" /\ ~FreshTool(c) /\ kind[c] # "question"
       THEN /\ callPC' = [callPC EXCEPT ![c] = "granting"]
            /\ UNCHANGED verdict
       ELSE Finish(c, IF reply[c] = "deny" THEN "deny" ELSE "allow")
    /\ UNCHANGED <<pending, granted, mode, planAuto, kind, scope, callTurn, reply,
                   turnVars, cancelVars, switchVars, historyVars>>

\* The select takes the context, cancelled or timed out: the prompt is dropped.
Abort(c) ==
    /\ callPC[c] = "waiting"
    /\ callTurn[c] \in ctxDone \/ Timeouts
    /\ pending' = pending \ {c}
    /\ promptMu' = None
    /\ Finish(c, "aborted")
    /\ UNCHANGED <<granted, mode, planAuto, kind, scope, callTurn, reply,
                   turnVars, cancelVars, switchVars, historyVars>>

\* grantSession
Grant(c) ==
    /\ callPC[c] = "granting"
    /\ granted' = granted \cup {scope[c]}
    /\ Finish(c, "allow")
    /\ UNCHANGED <<pending, mode, planAuto, promptMu, kind, scope, callTurn, reply,
                   turnVars, cancelVars, switchVars, historyVars>>

-----------------------------------------------------------------------------
(* The user: Approve and AnswerQuestion *)

Answer(c, a) ==
    /\ c \in pending
    /\ pending' = pending \ {c}
    /\ reply' = [reply EXCEPT ![c] = a]
    /\ allowedScopes' = IF a = "session" /\ ~FreshTool(c) /\ kind[c] # "question"
                        THEN allowedScopes \cup {scope[c]} ELSE allowedScopes
    /\ UNCHANGED <<granted, mode, planAuto, promptMu, kind, scope, callTurn, callPC,
                   verdict, turnVars, cancelVars, switchVars, strays>>

-----------------------------------------------------------------------------
(* Cancel *)

\* c.mu: read c.cancel, note that the turn is being cancelled.
CancelCapture ==
    /\ cancelPC = "idle"
    /\ running
    /\ cancelPC' = "captured"
    /\ cancelTurn' = turn
    /\ UNCHANGED <<managerVars, callVars, turnVars, switchVars, historyVars>>

\* approval.clearAll: every open prompt is dropped without a reply.
CancelClear ==
    /\ cancelPC = "captured"
    /\ pending' = {}
    /\ strays' = strays \cup {c \in pending : callTurn[c] # cancelTurn}
    /\ cancelPC' = "cleared"
    /\ UNCHANGED <<granted, mode, planAuto, promptMu, callVars, turnVars, cancelTurn,
                   switchVars, allowedScopes>>

\* (mutant) Cancel drops the prompts and leaves the context alone
CancelForgetsContext ==
    /\ cancelPC = "cleared"
    /\ cancelPC' = "idle"
    /\ UNCHANGED <<managerVars, callVars, turnVars, cancelTurn, switchVars,
                   historyVars>>

\* cancel(): the context of the captured turn.
CancelContext ==
    /\ cancelPC = "cleared"
    /\ ctxDone' = ctxDone \cup {cancelTurn}
    /\ cancelPC' = "idle"
    /\ UNCHANGED <<managerVars, callVars, turn, running, cancelTurn, switchVars,
                   historyVars>>

-----------------------------------------------------------------------------
(* SetToolApprovalMode *)

\* setMode: the posture changes and the prompts it answers leave the map.
Switch(h, m) ==
    /\ handlerPC[h] = "idle"
    /\ switches < MaxSwitches
    /\ switches' = switches + 1
    /\ mode' = m
    /\ drained' = [drained EXCEPT ![h] = {c \in pending : Drains(m, c)}]
    /\ pending' = {c \in pending : ~Drains(m, c)}
    /\ handlerPC' = [handlerPC EXCEPT ![h] = "switched"]
    /\ UNCHANGED <<granted, planAuto, promptMu, callVars, turnVars, cancelVars,
                   gate, built, historyVars>>

\* newInteractiveGate reads the posture again.
BuildGate(h) ==
    /\ handlerPC[h] = "switched"
    /\ built' = [built EXCEPT ![h] = mode]
    /\ handlerPC' = [handlerPC EXCEPT ![h] = "built"]
    /\ UNCHANGED <<managerVars, callVars, turnVars, cancelVars, gate, drained,
                   switches, historyVars>>

\* executor.SetGate
InstallGate(h) ==
    /\ handlerPC[h] = "built"
    /\ gate' = built[h]
    /\ handlerPC' = [handlerPC EXCEPT ![h] = "installed"]
    /\ UNCHANGED <<managerVars, callVars, turnVars, cancelVars, built, drained,
                   switches, historyVars>>

\* (mutant) the drained prompts are never answered
SendForgotten(h) ==
    /\ handlerPC[h] = "installed"
    /\ drained' = [drained EXCEPT ![h] = {}]
    /\ handlerPC' = [handlerPC EXCEPT ![h] = "idle"]
    /\ UNCHANGED <<managerVars, callVars, turnVars, cancelVars, gate, built,
                   switches, historyVars>>

\* The drained prompts are answered with {allow: true}.
SendDrained(h) ==
    /\ handlerPC[h] = "installed"
    /\ reply' = [c \in Calls |-> IF c \in drained[h] THEN "drained" ELSE reply[c]]
    /\ drained' = [drained EXCEPT ![h] = {}]
    /\ handlerPC' = [handlerPC EXCEPT ![h] = "idle"]
    /\ UNCHANGED <<managerVars, kind, scope, callTurn, callPC, verdict, turnVars,
                   cancelVars, gate, built, switches, historyVars>>

-----------------------------------------------------------------------------

CallStep(c) == \/ Lock(c) \/ Recheck(c) \/ Register(c)
               \/ Receive(c) \/ Abort(c) \/ Grant(c)

HandlerStep(h) == BuildGate(h) \/ InstallGate(h) \/ SendDrained(h)

Next ==
    \/ StartTurn \/ EndTurn \/ OpenPlanWindow
    \/ \E c \in Calls : \/ Request(c) \/ CallStep(c)
                        \/ \E a \in {"allow", "session", "deny"} : Answer(c, a)
    \/ CancelCapture \/ CancelClear \/ CancelContext
    \/ \E h \in Handlers : HandlerStep(h) \/ \E m \in Modes : Switch(h, m)

Spec == Init /\ [][Next]_vars

\* Goroutines run on; the user owes nobody an answer.  A select with several ready
\* cases takes one of them, so a call that can receive or abort does one of them.
Fairness ==
    /\ \A c \in Calls : WF_vars(CallStep(c))
    /\ \A h \in Handlers : WF_vars(HandlerStep(h))
    /\ WF_vars(CancelClear \/ CancelContext)
    /\ WF_vars(EndTurn)

FairSpec == Spec /\ Fairness

-----------------------------------------------------------------------------
(* Properties *)

TypeOK ==
    /\ pending \subseteq Calls
    /\ granted \subseteq Scopes
    /\ mode \in Modes
    /\ planAuto \in BOOLEAN
    /\ promptMu \in Calls \cup {None}
    /\ kind \in [Calls -> Kinds]
    /\ scope \in [Calls -> Scopes]
    /\ callTurn \in [Calls -> 0..MaxTurns]
    /\ callPC \in [Calls -> {"idle", "queued", "recheck", "register", "waiting",
                             "granting", "done"}]
    /\ reply \in [Calls -> {"none", "allow", "session", "deny", "drained"}]
    /\ verdict \in [Calls -> {"none", "allow", "deny", "aborted"}]
    /\ turn \in 0..MaxTurns
    /\ running \in BOOLEAN
    /\ ctxDone \subseteq 0..MaxTurns
    /\ cancelPC \in {"idle", "captured", "cleared"}
    /\ cancelTurn \in 0..MaxTurns
    /\ gate \in Modes
    /\ handlerPC \in [Handlers -> {"idle", "switched", "built", "installed"}]
    /\ built \in [Handlers -> Modes]
    /\ drained \in [Handlers -> SUBSET Calls]
    /\ switches \in 0..MaxSwitches
    /\ allowedScopes \subseteq Scopes
    /\ strays \subseteq Calls

\* At most one decision is in flight, and it is the one of the lock holder: an open
\* prompt belongs to the call that sits in the select under promptMu, so an answer,
\* a drain or a replay never meets two prompts or a prompt nobody waits on.
OnePromptAtATime ==
    \A c \in pending : promptMu = c /\ callPC[c] = "waiting"

\* A call sits in its select with nothing left to wake it.
Orphaned(c) ==
    /\ callPC[c] = "waiting"
    /\ c \notin pending
    /\ reply[c] = "none"
    /\ \A h \in Handlers : c \notin drained[h]
    /\ callTurn[c] \notin ctxDone
    /\ ~(cancelPC = "cleared" /\ cancelTurn = callTurn[c])

\* A prompt that left the map is answered, drained or cancelled; the only prompts
\* lost are the ones a Cancel aimed at an earlier turn swept away.
OrphansAreStrays == \A c \in Calls : Orphaned(c) => c \in strays

\* The plan window is open only during the turn whose plan the user approved.
WindowNeedsPlan == planAuto => running /\ PlanApproved

\* The decisions that are the user's alone are taken by the user: a plan, a memory
\* write or a question is settled positively only by the answer to that very
\* prompt, and a trust decision by that or by an answer given for the session; no
\* switch, drain, plan window or stale grant ever stands in for one.
UserDecides ==
    \A c \in Calls :
       verdict[c] = "allow" =>
          /\ kind[c] \in {"plan", "fresh", "question"} => reply[c] \in {"allow", "session"}
          /\ kind[c] = "trust" => \/ reply[c] \in {"allow", "session"}
                                  \/ scope[c] \in allowedScopes

\* What a call and its prompt amount to, whatever lock or channel they wait on.
StatusOf(c) ==
    IF callPC[c] = "idle" THEN "unasked"
    ELSE IF verdict[c] = "none" THEN "asking"
    ELSE IF verdict[c] = "allow" THEN "allowed" ELSE "refused"

AnswerOf(c) ==
    IF reply[c] = "drained" \/ (\E h \in Handlers : c \in drained[h])
    THEN "posture" ELSE reply[c]

\* The prompts, the lock, the cancellations and the drains implement Consent.
C == INSTANCE Consent WITH
        status <- [c \in Calls |-> StatusOf(c)],
        answer <- [c \in Calls |-> AnswerOf(c)],
        standing <- granted,
        posture <- mode,
        window <- planAuto

\* A call is let through only by the user's yes, a standing grant or a posture, and
\* never after a no, whatever the interleaving of answers, switches and cancels.
ImplementsConsent == C!Spec

\* Cancelling a turn always ends it: queued, prompting and granting calls unwind,
\* although promptMu.Lock ignores the context and clearAll signals nobody.
CancelledTurnEnds ==
    \A t \in 1..MaxTurns :
       cancelPC = "captured" /\ cancelTurn = t ~> ~(running /\ turn = t)

(* What the repository says and the code does not do *)

\* clearAll: "blocked waiters unblock via their cancelled context instead".
NoOrphans == \A c \in Calls : ~Orphaned(c)

\* "yolo" "skips every tool approval prompt except plan approval".
YoloHasNoToolPrompt ==
    mode = "yolo" /\ (\A h \in Handlers : handlerPC[h] = "idle")
       => \A c \in pending : kind[c] \notin {"writer", "askRule"}

\* Approve with session "remembers a grant ... so the same approval scope is not
\* re-prompted".
GrantedScopeNotReprompted ==
    [][\A c \in Calls : c \in pending' \ pending
          /\ kind[c] \in {"writer", "askRule", "trust"}
          => scope[c] \notin allowedScopes]_vars

\* After every switch has returned, the gate the executor consults was built for
\* the posture the manager reports.
GateMatchesMode ==
    (\A h \in Handlers : handlerPC[h] = "idle") => gate = mode
=============================================================================
