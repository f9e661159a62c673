-------------------------------- MODULE Goal --------------------------------
(***************************************************************************)
(* The goal loop: internal/control/goal.go (goalMachine) driven by         *)
(* internal/control/turn_orchestrator.go (continueGoal) and by the user's  *)
(* /goal, /goal clear and Cancel in internal/control/controller.go.        *)
(*                                                                         *)
(* The loop goroutine runs a turn, advances the machine with what the turn *)
(* said, persists the outcome and starts the next turn.  The user's        *)
(* goroutine sets and clears goals at any point of that.  A state to be    *)
(* persisted is built under the machine's mu and written later under       *)
(* writeMu, so each goroutine holds at most one save in its hands.         *)
(***************************************************************************)
EXTENDS Naturals

CONSTANTS
    Goals,         \* goal texts, with their research mode
    NoGoal,
    Reasons,       \* normalised block reasons
    NoReason,
    MaxAutoTurns,  \* maxGoalAutoTurns
    MaxIdleTurns,  \* maxGoalIdleTurns
    MaxCommands,   \* bound on the number of user commands
    HooksBlock     \* a UserPromptSubmit hook may block turns

ASSUME GoalsAssumption == NoGoal \notin Goals /\ NoReason \notin Reasons
ASSUME LimitsAssumption == MaxAutoTurns \in Nat \ {0} /\ MaxIdleTurns \in Nat \ {0}
ASSUME CommandsAssumption == MaxCommands \in Nat
ASSUME HooksAssumption == HooksBlock \in BOOLEAN

MaxBlocks == 3   \* the same block, reported this often, ends the goal

\* What a turn says last: its marker, and the reason of a block.
Complete == [marker |-> "complete", reason |-> NoReason]
Continue == [marker |-> "continue", reason |-> NoReason]  \* or no marker at all
Blocked(r) == [marker |-> "blocked", reason |-> r]
Said == {Complete, Continue} \cup {Blocked(r) : r \in Reasons}

NoSave == [goal |-> NoGoal, status |-> "none", todosDone |-> FALSE]

VARIABLES
    \* goalMachine
    goal, status, strict, turns, blocks, block, intercept, intercepts,
    selfCheckDone, idleTurns,
    \* the executor
    todosDone,    \* no incomplete todo, and project readiness satisfied
    said,         \* lastAssistantText, parsed
    toolCalled,   \* the turn called a tool
    \* the loop goroutine
    loopPC, message, loopSave, cancelled,
    \* the user's goroutine
    userPC, wantStrict, userSave, commands,
    disk,         \* the goal-state sidecar
    \* history, since the goal was set
    seen,         \* a turn was composed with the goal
    reminded,     \* the incomplete todos were put to the model, for this goal
    checked,      \* the self-check was put to the model, for this goal
    withheld,     \* a hook blocked the turn that was to put one of the two to it
    sameBlocks,   \* the same block reported so often with no progress between
    quiet,        \* turns in a row without a tool call (up to MaxIdleTurns)
    lastBuilt     \* the state built last

machineVars == <<goal, status, strict, turns, blocks, block, intercept, intercepts,
                 selfCheckDone, idleTurns>>
turnVars == <<todosDone, said, toolCalled>>
loopVars == <<loopPC, message, loopSave, cancelled>>
userVars == <<userPC, wantStrict, userSave, commands>>
historyVars == <<seen, reminded, checked, withheld, sameBlocks, quiet>>
vars == <<machineVars, turnVars, loopVars, userVars, disk, historyVars, lastBuilt>>

Init ==
    /\ goal = NoGoal /\ status = "stopped" /\ strict = FALSE
    /\ turns = 0 /\ blocks = 0 /\ block = NoReason
    /\ intercept = "none" /\ intercepts = 0 /\ selfCheckDone = FALSE /\ idleTurns = 0
    /\ todosDone = TRUE /\ said = Continue /\ toolCalled = FALSE
    /\ loopPC = "idle" /\ message = "none" /\ loopSave = NoSave /\ cancelled = FALSE
    /\ userPC = "idle" /\ wantStrict = FALSE /\ userSave = NoSave /\ commands = 0
    /\ disk = NoSave
    /\ seen = FALSE /\ reminded = FALSE /\ checked = FALSE /\ withheld = FALSE /\ quiet = 0
    /\ sameBlocks = [count |-> 0, reason |-> NoReason]
    /\ lastBuilt = NoSave

Running == goal # NoGoal /\ status = "running"

\* buildStateLocked, in the new state
BuiltState == [goal |-> goal', status |-> status', todosDone |-> todosDone]
Build(save) == save' = BuiltState /\ lastBuilt' = BuiltState

-----------------------------------------------------------------------------
(* The user: applyGoalCommand, ClearGoal, Cancel *)

ResetHistory ==
    /\ seen' = FALSE /\ reminded' = FALSE /\ checked' = FALSE /\ withheld' = FALSE
    /\ quiet' = 0
    /\ sameBlocks' = [count |-> 0, reason |-> NoReason]

\* (mutant) the intercept counter survives a new goal
SetKeepsIntercepts(g) ==
    /\ turns' = 0 /\ blocks' = 0 /\ block' = NoReason
    /\ intercept' = "none" /\ selfCheckDone' = FALSE /\ idleTurns' = 0
    /\ strict' = FALSE
    /\ goal' = g
    /\ status' = IF g = NoGoal THEN "stopped" ELSE "running"
    /\ UNCHANGED intercepts

\* goalMachine.set, when the goal is not the running one already
Set(g) ==
    /\ turns' = 0 /\ blocks' = 0 /\ block' = NoReason
    /\ intercept' = "none" /\ intercepts' = 0
    /\ selfCheckDone' = FALSE /\ idleTurns' = 0 /\ strict' = FALSE
    /\ goal' = g
    /\ status' = IF g = NoGoal THEN "stopped" ELSE "running"

\* /goal [--strict] g: SetGoal, then GoalStrict, then the loop unless one runs.
GoalCommand(g, st) ==
    /\ userPC = "idle"
    /\ commands < MaxCommands
    /\ commands' = commands + 1
    /\ wantStrict' = st
    /\ IF goal = g /\ status = "running"
       THEN /\ userPC' = "strict"
            /\ UNCHANGED <<machineVars, historyVars, userSave, lastBuilt>>
       ELSE /\ Set(g)
            /\ ResetHistory
            /\ Build(userSave)
            /\ userPC' = "saveGoal"
    /\ UNCHANGED <<turnVars, loopVars, disk>>

\* ClearGoal (NoGoal), and SetGoal as the HTTP and desktop handlers call it: the
\* machine and the sidecar, no strict mode and no loop.
SetGoal(g) ==
    /\ userPC = "idle"
    /\ commands < MaxCommands
    /\ commands' = commands + 1
    /\ ~(g # NoGoal /\ goal = g /\ status = "running")
    /\ Set(g)
    /\ ResetHistory
    /\ Build(userSave)
    /\ userPC' = "saveOnly"
    /\ UNCHANGED <<turnVars, loopVars, wantStrict, disk>>

\* writeState, under writeMu
UserWrite ==
    /\ userPC \in {"saveGoal", "saveStrict", "saveOnly"}
    /\ disk' = userSave
    /\ userSave' = NoSave
    /\ userPC' = CASE userPC = "saveGoal" -> "strict"
                   [] userPC = "saveStrict" -> "start"
                   [] userPC = "saveOnly" -> "idle"
    /\ UNCHANGED <<machineVars, turnVars, loopVars, wantStrict, commands,
                   historyVars, lastBuilt>>

GoalStrict ==
    /\ userPC = "strict"
    /\ strict' = wantStrict
    /\ UNCHANGED <<goal, status, turns, blocks, block, intercept, intercepts,
                   selfCheckDone, idleTurns>>
    /\ Build(userSave)
    /\ userPC' = "saveStrict"
    /\ UNCHANGED <<turnVars, loopVars, wantStrict, commands, disk, historyVars>>

\* runGuarded: a no-op when a turn is in flight already.
StartLoop ==
    /\ userPC = "start"
    /\ userPC' = "idle"
    /\ IF loopPC = "idle"
       THEN loopPC' = "begin" /\ message' = "none" /\ cancelled' = FALSE
       ELSE UNCHANGED <<loopPC, message, cancelled>>
    /\ UNCHANGED <<machineVars, turnVars, loopSave, wantStrict, userSave, commands,
                   disk, historyVars, lastBuilt>>

\* An ordinary message starts the same loop on whatever goal is active.
Send ==
    /\ loopPC = "idle"
    /\ commands < MaxCommands
    /\ commands' = commands + 1
    /\ loopPC' = "begin" /\ message' = "none" /\ cancelled' = FALSE
    /\ UNCHANGED <<machineVars, turnVars, loopSave, userPC, wantStrict, userSave,
                   disk, historyVars, lastBuilt>>

Cancel ==
    /\ loopPC # "idle"
    /\ ~cancelled
    /\ cancelled' = TRUE
    /\ UNCHANGED <<machineVars, turnVars, loopPC, message, loopSave, userVars, disk,
                   historyVars, lastBuilt>>

-----------------------------------------------------------------------------
(* The loop: runGoalLoopWithRawDisplay and continueGoal *)

\* The message of the turn carries what the machine counts as put to the model.
BringsTodos == message = "todos" /\ intercepts > 0
BringsSelfCheck == message = "selfCheck" /\ selfCheckDone

\* Compose puts the active goal before the message of the turn.
BeginTurn ==
    /\ loopPC = "begin"
    /\ loopPC' = "turn"
    /\ seen' = (seen \/ Running)
    /\ reminded' = (reminded \/ BringsTodos)
    /\ checked' = (checked \/ BringsSelfCheck)
    /\ UNCHANGED <<machineVars, turnVars, message, loopSave, cancelled, userVars,
                   disk, withheld, sameBlocks, quiet, lastBuilt>>

\* PromptSubmit blocks the turn: it returns without an error and without a word,
\* so the last thing said is still what an earlier turn said.
HookBlocks ==
    /\ HooksBlock
    /\ loopPC = "begin"
    /\ loopPC' = "advance"
    /\ withheld' = (withheld \/ BringsTodos \/ BringsSelfCheck)
    /\ UNCHANGED <<machineVars, turnVars, message, loopSave, cancelled, userVars,
                   disk, seen, reminded, checked, sameBlocks, quiet, lastBuilt>>

TurnEnds(s) ==
    /\ loopPC = "turn"
    /\ loopPC' = "advance"
    /\ said' = s
    /\ todosDone' \in BOOLEAN
    /\ toolCalled' \in BOOLEAN
    /\ UNCHANGED <<machineVars, message, loopSave, cancelled, userVars, disk,
                   historyVars, lastBuilt>>

TurnFails ==
    /\ loopPC = "turn"
    /\ loopPC' = IF cancelled THEN "stop" ELSE "idle"
    /\ UNCHANGED <<machineVars, turnVars, message, loopSave, cancelled, userVars,
                   disk, historyVars, lastBuilt>>

(* advance: the verdict on the marker, then the idle reminder, then the limit *)

Intercepted == ~todosDone /\ (strict \/ intercepts = 0)
SelfChecks == ~Intercepted /\ strict /\ ~selfCheckDone
Completes == said = Complete /\ ~Intercepted /\ ~SelfChecks

\* (mutant) the reason is not compared with the previous one
BlocksAfterAnyReason ==
    CASE said.marker = "blocked" -> blocks + 1
      [] said.marker = "continue" -> 0
      [] OTHER -> blocks

BlocksAfter ==
    CASE said.marker = "blocked" -> IF block = said.reason THEN blocks + 1 ELSE 1
      [] said.marker = "continue" -> 0
      [] OTHER -> blocks

BlockEnds == said.marker = "blocked" /\ BlocksAfter >= MaxBlocks

\* The marker's own effect on the pending intercept.
MarkerIntercept ==
    CASE said = Complete /\ Intercepted -> "todos"
      [] said = Complete /\ SelfChecks -> "selfCheck"
      [] OTHER -> intercept

\* The marker's own effect on the idle counter: the default branch clears it.
IdleAfterMarker == IF said = Continue THEN 0 ELSE idleTurns

\* toolWasCalledLastTurn looks at the last message of the assistant, and Agent.Run
\* returns without an error only after a message without tool calls.
ToolWasCalledLastTurn == FALSE

IdleReminds ==
    /\ ~ToolWasCalledLastTurn
    /\ IdleAfterMarker + 1 >= MaxIdleTurns

\* (mutant) no limit on the number of automatic turns
NoLimit(outcome) == FALSE

LimitReached(outcome) == outcome = "running" /\ turns' >= MaxAutoTurns

Outcome == CASE Completes -> "complete" [] BlockEnds -> "blocked" [] OTHER -> "running"

\* The machine goes on: intercepts and counters as the marker left them.
GoOn ==
    LET checksIdle == MarkerIntercept = "none"
    IN  /\ intercept' = IF checksIdle /\ IdleReminds THEN "idle" ELSE MarkerIntercept
        /\ idleTurns' = IF ~checksIdle THEN IdleAfterMarker
                        ELSE IF ToolWasCalledLastTurn \/ IdleReminds THEN 0
                        ELSE IdleAfterMarker + 1
        /\ intercepts' = CASE said = Continue -> 0
                           [] said = Complete /\ Intercepted -> intercepts + 1
                           [] OTHER -> intercepts
        /\ selfCheckDone' = CASE said = Continue -> FALSE
                              [] said = Complete /\ SelfChecks -> TRUE
                              [] OTHER -> selfCheckDone
        /\ UNCHANGED <<goal, status, strict>>

\* The goal is complete, or out of turns: nothing of its bookkeeping is left.
Conclude ==
    /\ goal' = IF Completes THEN NoGoal ELSE goal
    /\ status' = IF Completes THEN "complete" ELSE "blocked"
    /\ intercept' = "none" /\ intercepts' = 0
    /\ selfCheckDone' = FALSE /\ idleTurns' = 0
    /\ UNCHANGED strict

\* The same block once too often.
GiveUp ==
    /\ status' = "blocked"
    /\ UNCHANGED <<goal, intercept, intercepts, selfCheckDone, idleTurns, strict>>

\* (mutant) a loop whose goal is gone goes on
AdvanceIgnoresGoal ==
    /\ loopPC = "advance"
    /\ ~Running
    /\ loopPC' = "continue"
    /\ UNCHANGED <<machineVars, turnVars, message, loopSave, cancelled, userVars,
                   disk, historyVars, lastBuilt>>

\* advance without a running goal ends the loop.
AdvanceNothing ==
    /\ loopPC = "advance"
    /\ ~Running
    /\ loopPC' = "idle"
    /\ UNCHANGED <<machineVars, turnVars, message, loopSave, cancelled, userVars,
                   disk, historyVars, lastBuilt>>

Advance ==
    /\ loopPC = "advance"
    /\ Running
    /\ turns' = turns + 1
    /\ LET limit == LimitReached(Outcome)
       IN  /\ blocks' = IF Completes THEN 0 ELSE BlocksAfter
           \* the limit's own reason is not one the model reports
           /\ block' = CASE Completes \/ said = Continue \/ limit -> NoReason
                         [] said.marker = "blocked" -> said.reason
                         [] OTHER -> block
           /\ \/ (Completes \/ limit) /\ Conclude
              \/ BlockEnds /\ GiveUp
              \/ ~Completes /\ ~limit /\ ~BlockEnds /\ GoOn
           /\ IF Outcome # "running" \/ limit
              THEN Build(loopSave) /\ loopPC' = "save"
              ELSE UNCHANGED <<loopSave, lastBuilt>> /\ loopPC' = "continue"
    /\ sameBlocks' =
          CASE said.marker = "blocked" ->
                 [count |-> IF sameBlocks.reason = said.reason
                            THEN sameBlocks.count + 1 ELSE 1,
                  reason |-> said.reason]
            [] said = Continue -> [count |-> 0, reason |-> NoReason]
            [] OTHER -> sameBlocks
    /\ quiet' = IF toolCalled THEN 0
                ELSE IF quiet < MaxIdleTurns THEN quiet + 1 ELSE quiet
    /\ UNCHANGED <<turnVars, message, cancelled, userVars, disk,
                   seen, reminded, checked, withheld>>

\* persistGoalState, and after a completion completeRemainingGoalTodos.
LoopWrite ==
    /\ loopPC \in {"save", "saveLast"}
    /\ disk' = loopSave
    /\ loopSave' = NoSave
    /\ loopPC' = IF loopPC = "save" /\ loopSave.status = "complete" /\ ~todosDone
                 THEN "completeTodos" ELSE "idle"
    /\ UNCHANGED <<machineVars, turnVars, message, cancelled, userVars, historyVars,
                   lastBuilt>>

\* The remaining todos are completed and the state is built again.
CompleteTodos ==
    /\ loopPC = "completeTodos"
    /\ todosDone' = TRUE
    /\ loopSave' = [goal |-> goal, status |-> status, todosDone |-> TRUE]
    /\ lastBuilt' = loopSave'
    /\ loopPC' = "saveLast"
    /\ UNCHANGED <<machineVars, said, toolCalled, message, cancelled, userVars, disk,
                   historyVars>>

\* The next turn of the loop; takeIntercept overrides its message.
ContinueLoop ==
    /\ loopPC = "continue"
    /\ IF cancelled
       THEN loopPC' = "stop" /\ UNCHANGED <<message, intercept>>
       ELSE loopPC' = "begin" /\ message' = intercept /\ intercept' = "none"
    /\ UNCHANGED <<goal, status, strict, turns, blocks, block, intercepts,
                   selfCheckDone, idleTurns, turnVars, loopSave, cancelled, userVars,
                   disk, historyVars, lastBuilt>>

\* stopGoal
StopGoal ==
    /\ loopPC = "stop"
    /\ status' = IF Running THEN "stopped" ELSE status
    /\ intercept' = "none" /\ intercepts' = 0 /\ selfCheckDone' = FALSE /\ idleTurns' = 0
    /\ UNCHANGED <<goal, strict, turns, blocks, block>>
    /\ Build(loopSave)
    /\ loopPC' = "saveLast"
    /\ UNCHANGED <<turnVars, message, cancelled, userVars, disk, historyVars>>

-----------------------------------------------------------------------------

LoopStep ==
    \/ BeginTurn \/ HookBlocks \/ TurnFails
    \/ \E s \in Said : TurnEnds(s)
    \/ AdvanceNothing \/ Advance \/ LoopWrite \/ CompleteTodos
    \/ ContinueLoop \/ StopGoal

UserStep == UserWrite \/ GoalStrict \/ StartLoop

Next ==
    \/ LoopStep \/ UserStep
    \/ \E g \in Goals, st \in BOOLEAN : GoalCommand(g, st)
    \/ \E g \in Goals \cup {NoGoal} : SetGoal(g)
    \/ Send \/ Cancel

Spec == Init /\ [][Next]_vars

\* Goroutines run on, and every turn returns; the user owes nothing.
FairSpec == Spec /\ WF_vars(LoopStep) /\ WF_vars(UserStep)

-----------------------------------------------------------------------------
(* Properties *)

Statuses == {"running", "complete", "blocked", "stopped"}
Saves == [goal : Goals \cup {NoGoal}, status : Statuses \cup {"none"}, todosDone : BOOLEAN]
Messages == {"none", "todos", "selfCheck", "idle"}

TypeOK ==
    /\ goal \in Goals \cup {NoGoal}
    /\ status \in Statuses
    /\ strict \in BOOLEAN
    /\ turns \in 0..MaxAutoTurns
    /\ blocks \in 0..MaxAutoTurns
    /\ block \in Reasons \cup {NoReason}
    /\ intercept \in Messages
    /\ intercepts \in 0..MaxAutoTurns
    /\ selfCheckDone \in BOOLEAN
    /\ idleTurns \in 0..MaxIdleTurns
    /\ todosDone \in BOOLEAN
    /\ said \in Said
    /\ toolCalled \in BOOLEAN
    /\ loopPC \in {"idle", "begin", "turn", "advance", "save", "saveLast",
                   "completeTodos", "continue", "stop"}
    /\ message \in Messages
    /\ loopSave \in Saves
    /\ cancelled \in BOOLEAN
    /\ userPC \in {"idle", "saveGoal", "strict", "saveStrict", "saveOnly", "start"}
    /\ wantStrict \in BOOLEAN
    /\ userSave \in Saves
    /\ commands \in 0..MaxCommands
    /\ disk \in Saves
    /\ lastBuilt \in Saves
    /\ seen \in BOOLEAN /\ reminded \in BOOLEAN
    /\ checked \in BOOLEAN /\ withheld \in BOOLEAN
    /\ sameBlocks \in [count : Nat, reason : Reasons \cup {NoReason}]
    /\ quiet \in 0..MaxIdleTurns

Completed == status = "running" /\ status' = "complete"

Earned == IF strict THEN todosDone /\ checked ELSE todosDone \/ reminded

\* A goal completes only when it was earned: in strict mode with every todo done and
\* after the self-check was put to the model for this very goal; otherwise with every
\* todo done, or after the list of what is missing was put to it.  The one exception
\* is a hook that blocked the very turn that was to put it.
CompletionWasEarned == [][Completed => Earned \/ withheld]_vars

\* The machine gives up on a goal only at the turn limit, or when the model reported
\* the same block three times without progress in between, for this very goal.
BlockedNeedsThree ==
    [][status = "running" /\ status' = "blocked"
          => turns' >= MaxAutoTurns \/ sameBlocks'.count >= MaxBlocks]_vars

\* Whatever the model says, the loop that a message started comes to an end.
GoalLoopEnds == loopPC # "idle" ~> loopPC = "idle"

(* What the repository says and the code does not do *)

\* "After the interception the agent sees the concrete list of incomplete items"
\* (GOAL_ENFORCEMENT), or the self-check: without exception.
CompletionWasSeen == [][Completed => Earned]_vars

\* "only the first consecutive claim is intercepted", "the second consecutive
\* [goal:complete] overrides": a claim is overridden only right after another.
OverrideIsConsecutive ==
    [][Completed /\ ~strict /\ ~todosDone => message = "todos"]_vars

\* After two turns without a tool call the model is reminded.
IdleIsReminded ==
    [][Running /\ loopPC = "advance" /\ loopPC' = "continue" /\ quiet' >= MaxIdleTurns
          => intercept' # "none"]_vars

\* The reminder is for an agent that "went multiple turns without any tool calls".
ReminderIsDeserved ==
    [][intercept # "idle" /\ intercept' = "idle" => quiet' >= MaxIdleTurns]_vars

\* The loop keeps working "until the goal is complete, blocked, or cleared": only a
\* goal that some turn was composed with can end, unless the user clears it.
OnlySeenGoalsEnd ==
    [][status = "running" /\ status' # "running"
          => seen \/ (goal' = NoGoal /\ status' = "stopped")]_vars

\* Saves do not "land out of order": with none in flight, the sidecar holds the
\* state that was built last.
DiskIsCurrent ==
    loopSave = NoSave /\ userSave = NoSave => disk = lastBuilt
=============================================================================
