----------------------------- MODULE GoalProofs -----------------------------
(* Theorems about the goal loop, for any goals, reasons, limits and commands. *)
EXTENDS Goal, TLAPS

USE GoalsAssumption, LimitsAssumption, CommandsAssumption, HooksAssumption
DEF GoalsAssumption, LimitsAssumption, CommandsAssumption, HooksAssumption

-----------------------------------------------------------------------------
(* The inductive invariant *)

\* A running goal has turns left, and every counter is paid for by a turn.
Counters ==
    /\ Running => turns < MaxAutoTurns
    /\ blocks <= turns /\ intercepts <= turns
    /\ idleTurns < MaxIdleTurns

\* An intercept waits only between the advance that raised it and the next turn.
InterceptWaits == intercept # "none" => loopPC \in {"continue", "stop"}

\* What has been counted as put to the model was put to it, or is on its way.
Delivered ==
    Running =>
      /\ intercepts > 0 =>
            \/ reminded \/ withheld \/ intercept = "todos"
            \/ (message = "todos" /\ loopPC = "begin")
      /\ selfCheckDone =>
            \/ checked \/ withheld \/ intercept = "selfCheck"
            \/ (message = "selfCheck" /\ loopPC = "begin")

\* The machine's count of equal blocks is the true one.
BlocksCounted == Running => sameBlocks = [count |-> blocks, reason |-> block]

IInv == TypeOK /\ Counters /\ InterceptWaits /\ BlocksCounted

LEMMA InitIInv == Init => IInv
<1> SUFFICES ASSUME Init PROVE IInv
  OBVIOUS
<1>1. NoSave \in Saves /\ Continue \in Said
  BY DEF NoSave, Saves, Said
<1>2. sameBlocks \in [count : Nat, reason : Reasons \cup {NoReason}]
  BY DEF Init
<1>3. 0 \in 0..MaxAutoTurns /\ 0 \in 0..MaxIdleTurns /\ 0 \in 0..MaxCommands
  OBVIOUS
<1>4. TypeOK
  BY <1>1, <1>2, <1>3 DEF Init, TypeOK, Statuses, Messages
<1> QED
  BY <1>4 DEF Init, IInv, Counters, InterceptWaits, BlocksCounted, Running

\* A state built for the sidecar is one, whatever the machine holds.
LEMMA BuiltIsSave ==
  ASSUME goal' \in Goals \cup {NoGoal}, status' \in Statuses, todosDone \in BOOLEAN
  PROVE  BuiltState \in Saves
BY DEF BuiltState, Saves

LEMMA BlocksAfterBound ==
  ASSUME IInv, Running
  PROVE  /\ BlocksAfter \in 0..(turns + 1)
         /\ BlocksAfter \in Nat /\ BlocksAfter <= turns + 1
BY DEF IInv, TypeOK, Counters, BlocksAfter

LEMMA SetIInv ==
  ASSUME IInv, NEW g \in Goals \cup {NoGoal}, Set(g), ResetHistory, Build(userSave),
         UNCHANGED <<turnVars, loopVars, disk>>, commands' \in 0..MaxCommands,
         wantStrict' \in BOOLEAN,
         userPC' \in {"idle", "saveGoal", "strict", "saveStrict", "saveOnly", "start"}
  PROVE  IInv'
<1> USE DEF turnVars, loopVars
<1>1. goal' \in Goals \cup {NoGoal} /\ status' \in Statuses /\ todosDone \in BOOLEAN
  BY DEF Set, Statuses, IInv, TypeOK
<1>2. userSave' \in Saves /\ lastBuilt' \in Saves
  BY <1>1, BuiltIsSave DEF Build
<1>3. /\ 0 \in 0..MaxAutoTurns /\ 0 \in 0..MaxIdleTurns
      /\ sameBlocks' \in [count : Nat, reason : Reasons \cup {NoReason}]
  BY DEF ResetHistory
<1>4. TypeOK'
  BY <1>1, <1>2, <1>3 DEF Set, ResetHistory, IInv, TypeOK, Messages
<1> QED
  BY <1>4 DEF Set, ResetHistory, IInv, Counters, InterceptWaits, BlocksCounted, Running

\* One continuation step of the machine.
LEMMA AdvanceIInv == ASSUME IInv, Advance PROVE IInv'
<1> DEFINE limit == LimitReached(Outcome)
<1> USE DEF turnVars, userVars
<1>0. 0 \in 0..MaxAutoTurns /\ 0 \in 0..MaxIdleTurns
  OBVIOUS
<1>1. /\ Running /\ loopPC = "advance" /\ intercept = "none"
      /\ turns \in Nat /\ turns' = turns + 1 /\ turns' \in 0..MaxAutoTurns
      /\ turns' \in Nat
  BY DEF Advance, IInv, TypeOK, Counters, InterceptWaits
<1>2. Outcome \in {"complete", "blocked", "running"}
  BY DEF Outcome
<1>3. BlocksAfter \in Nat /\ BlocksAfter <= turns'
  BY <1>1, BlocksAfterBound
<1>4. blocks' \in Nat /\ blocks' <= turns' /\ blocks' \in 0..MaxAutoTurns
  BY <1>1, <1>3 DEF Advance
<1>5. block' \in Reasons \cup {NoReason}
  BY DEF Advance, IInv, TypeOK, Said, Complete, Continue, Blocked
<1>6. sameBlocks' \in [count : Nat, reason : Reasons \cup {NoReason}]
  BY DEF Advance, IInv, TypeOK, Said, Complete, Continue, Blocked
<1>7. quiet' \in 0..MaxIdleTurns
  BY DEF Advance, IInv, TypeOK
<1>8. CASE Completes \/ limit
  <2>0. Conclude /\ loopPC' = "save" /\ Build(loopSave)
    <3>1. ~BlockEnds
      BY <1>8 DEF LimitReached, Outcome, Completes, BlockEnds, Complete
    <3> QED BY <1>8, <3>1 DEF Advance, Outcome
  <2>1. /\ goal' \in Goals \cup {NoGoal} /\ status' \in {"complete", "blocked"}
        /\ intercept' = "none" /\ intercepts' = 0 /\ selfCheckDone' = FALSE
        /\ idleTurns' = 0 /\ UNCHANGED strict
    BY <2>0 DEF Conclude, IInv, TypeOK
  <2>2. loopSave' \in Saves /\ lastBuilt' \in Saves
    BY <2>0, <2>1, BuiltIsSave DEF Build, Statuses, IInv, TypeOK
  <2>3. TypeOK'
    <3>1. /\ intercepts' \in 0..MaxAutoTurns /\ idleTurns' \in 0..MaxIdleTurns
          /\ intercept' \in Messages /\ selfCheckDone' \in BOOLEAN
          /\ status' \in Statuses
      BY <1>0, <2>1 DEF Messages, Statuses
    <3> QED
      BY <1>1, <1>4, <1>5, <1>6, <1>7, <2>0, <2>1, <2>2, <3>1 DEF Advance, IInv, TypeOK
  <2> QED
    BY <1>1, <1>4, <2>0, <2>1, <2>3
    DEF IInv, Counters, InterceptWaits, BlocksCounted, Running
<1>9. CASE ~(Completes \/ limit) /\ BlockEnds
  <2>1. /\ status' = "blocked" /\ loopPC' = "save" /\ Build(loopSave)
        /\ UNCHANGED <<goal, intercept, intercepts, selfCheckDone, idleTurns, strict>>
    BY <1>9 DEF Advance, Outcome, GiveUp
  <2>2. loopSave' \in Saves /\ lastBuilt' \in Saves
    BY <2>1, BuiltIsSave DEF Build, Advance, Statuses, IInv, TypeOK
  <2>3. TypeOK'
    BY <1>1, <1>4, <1>5, <1>6, <1>7, <2>1, <2>2
    DEF Advance, IInv, TypeOK, Statuses
  <2> QED
    BY <1>1, <1>4, <2>1, <2>3
    DEF IInv, Counters, InterceptWaits, BlocksCounted, Running, TypeOK
<1>10. CASE ~(Completes \/ limit) /\ ~BlockEnds
  <2>1. GoOn /\ Outcome = "running" /\ loopPC' = "continue"
        /\ UNCHANGED <<loopSave, lastBuilt>>
    BY <1>10 DEF Advance, Outcome
  <2>2. turns' < MaxAutoTurns
    BY <1>1, <1>10, <2>1 DEF LimitReached
  <2>3. /\ intercept' \in Messages
        /\ idleTurns' \in 0..MaxIdleTurns /\ idleTurns' < MaxIdleTurns
    BY <1>1, <2>1 DEF GoOn, MarkerIntercept, IdleReminds, ToolWasCalledLastTurn,
                      IdleAfterMarker, Messages, IInv, TypeOK, Counters
  <2>4. intercepts' \in 0..MaxAutoTurns /\ intercepts' <= turns'
    BY <1>1, <2>1 DEF GoOn, IInv, TypeOK, Counters
  <2>5. selfCheckDone' \in BOOLEAN /\ UNCHANGED <<goal, status, strict>>
    BY <2>1 DEF GoOn, IInv, TypeOK
  <2>6. TypeOK'
    BY <1>1, <1>4, <1>5, <1>6, <1>7, <2>1, <2>3, <2>4, <2>5
    DEF Advance, IInv, TypeOK
  <2>7. BlocksCounted'
    <3>1. sameBlocks = [count |-> blocks, reason |-> block] /\ ~Completes /\ ~limit
      BY <1>1, <1>10 DEF IInv, BlocksCounted
    <3>2. CASE said.marker = "blocked"
      BY <3>1, <3>2 DEF Advance, BlocksAfter, BlocksCounted, Continue
    <3>3. CASE said = Continue
      BY <3>1, <3>3 DEF Advance, BlocksAfter, BlocksCounted, Continue
    <3>4. CASE said = Complete
      BY <3>1, <3>4 DEF Advance, BlocksAfter, BlocksCounted, Continue, Complete
    <3> QED BY <3>2, <3>3, <3>4 DEF IInv, TypeOK, Said, Blocked
  <2> QED
    BY <1>4, <2>1, <2>2, <2>3, <2>4, <2>6, <2>7
    DEF IInv, Counters, InterceptWaits
<1> QED BY <1>8, <1>9, <1>10

LEMMA NextIInv == IInv /\ [Next]_vars => IInv'
<1> SUFFICES ASSUME IInv, [Next]_vars PROVE IInv'
  OBVIOUS
<1> USE DEF machineVars, turnVars, loopVars, userVars, historyVars
<1>1. ASSUME NEW g \in Goals, NEW st \in BOOLEAN, GoalCommand(g, st) PROVE IInv'
  <2>1. commands' \in 0..MaxCommands /\ wantStrict' \in BOOLEAN
    BY <1>1 DEF GoalCommand, IInv, TypeOK
  <2>2. CASE goal = g /\ status = "running"
    BY <1>1, <2>1, <2>2
    DEF GoalCommand, IInv, TypeOK, Counters, InterceptWaits, BlocksCounted, Running
  <2>3. CASE ~(goal = g /\ status = "running")
    BY <1>1, <2>1, <2>3, SetIInv DEF GoalCommand
  <2> QED BY <2>2, <2>3
<1>2. ASSUME NEW g \in Goals \cup {NoGoal}, SetGoal(g) PROVE IInv'
  <2>1. commands' \in 0..MaxCommands /\ wantStrict' \in BOOLEAN
    BY <1>2 DEF SetGoal, IInv, TypeOK
  <2> QED BY <1>2, <2>1, SetIInv DEF SetGoal
<1>3. CASE UserWrite
  <2>1. NoSave \in Saves
    BY DEF NoSave, Saves
  <2> QED
    BY <1>3, <2>1
    DEF UserWrite, IInv, TypeOK, Counters, InterceptWaits, BlocksCounted, Running
<1>4. CASE GoalStrict
  <2>1. userSave' \in Saves /\ lastBuilt' \in Saves
    BY <1>4, BuiltIsSave DEF GoalStrict, Build, IInv, TypeOK
  <2> QED
    BY <1>4, <2>1
    DEF GoalStrict, IInv, TypeOK, Counters, InterceptWaits, BlocksCounted, Running
<1>5. CASE StartLoop
  <2>1. /\ loopPC' \in {loopPC, "begin"} /\ (loopPC' = "begin" \/ loopPC' = loopPC)
        /\ message' \in Messages /\ cancelled' \in BOOLEAN
        /\ intercept # "none" => loopPC' = loopPC
    BY <1>5 DEF StartLoop, IInv, TypeOK, InterceptWaits, Messages
  <2>2. TypeOK'
    BY <1>5, <2>1 DEF StartLoop, IInv, TypeOK
  <2> QED
    BY <1>5, <2>1, <2>2
    DEF StartLoop, IInv, Counters, InterceptWaits, BlocksCounted, Running
<1>6. CASE Send
  <2>1. commands' \in 0..MaxCommands
    BY <1>6 DEF Send, IInv, TypeOK
  <2>2. TypeOK'
    <3>1. "none" \in Messages
      BY DEF Messages
    <3>2. loopPC' = "begin" /\ message' \in Messages /\ cancelled' \in BOOLEAN
      BY <1>6, <3>1 DEF Send
    <3>3. UNCHANGED <<machineVars, turnVars, loopSave, userPC, wantStrict, userSave,
                      disk, historyVars, lastBuilt>>
      BY <1>6 DEF Send
    <3> QED BY <2>1, <3>2, <3>3 DEF IInv, TypeOK
  <2> QED
    BY <1>6, <2>2
    DEF Send, IInv, Counters, InterceptWaits, BlocksCounted, Running
<1>7. CASE Cancel
  BY <1>7 DEF Cancel, IInv, TypeOK, Counters, InterceptWaits, BlocksCounted, Running
<1>8. CASE BeginTurn
  BY <1>8 DEF BeginTurn, IInv, TypeOK, Counters, InterceptWaits, BlocksCounted, Running
<1>9. CASE HookBlocks
  BY <1>9 DEF HookBlocks, IInv, TypeOK, Counters, InterceptWaits, BlocksCounted, Running
<1>10. ASSUME NEW s \in Said, TurnEnds(s) PROVE IInv'
  BY <1>10 DEF TurnEnds, IInv, TypeOK, Counters, InterceptWaits, BlocksCounted, Running
<1>11. CASE TurnFails
  BY <1>11 DEF TurnFails, IInv, TypeOK, Counters, InterceptWaits, BlocksCounted, Running
<1>12. CASE AdvanceNothing
  BY <1>12
  DEF AdvanceNothing, IInv, TypeOK, Counters, InterceptWaits, BlocksCounted, Running
<1>13. CASE Advance
  BY <1>13, AdvanceIInv
<1>14. CASE LoopWrite
  <2>1. NoSave \in Saves
    BY DEF NoSave, Saves
  <2> QED
    BY <1>14, <2>1
    DEF LoopWrite, IInv, TypeOK, Counters, InterceptWaits, BlocksCounted, Running
<1>15. CASE CompleteTodos
  <2>1. loopSave' \in Saves /\ lastBuilt' \in Saves
    BY <1>15 DEF CompleteTodos, Saves, IInv, TypeOK
  <2> QED
    BY <1>15, <2>1
    DEF CompleteTodos, IInv, TypeOK, Counters, InterceptWaits, BlocksCounted, Running
<1>16. CASE ContinueLoop
  BY <1>16
  DEF ContinueLoop, IInv, TypeOK, Counters, InterceptWaits, BlocksCounted, Running,
      Messages
<1>17. CASE StopGoal
  <2>1. status' \in Statuses
    BY <1>17 DEF StopGoal, Statuses, IInv, TypeOK
  <2>2. loopSave' \in Saves /\ lastBuilt' \in Saves
    BY <1>17, <2>1, BuiltIsSave DEF StopGoal, Build, IInv, TypeOK
  <2>3. TypeOK'
    <3>1. 0 \in 0..MaxAutoTurns /\ 0 \in 0..MaxIdleTurns
      OBVIOUS
    <3>2. "none" \in Messages
      BY DEF Messages
    <3>3. /\ intercepts' \in 0..MaxAutoTurns /\ idleTurns' \in 0..MaxIdleTurns
          /\ intercept' \in Messages /\ selfCheckDone' \in BOOLEAN
          /\ loopPC' = "saveLast"
      BY <1>17, <3>1, <3>2 DEF StopGoal
    <3> QED BY <1>17, <2>1, <2>2, <3>3 DEF StopGoal, IInv, TypeOK
  <2> QED
    BY <1>17, <2>3
    DEF StopGoal, IInv, TypeOK, Counters, InterceptWaits, BlocksCounted, Running
<1>18. CASE UNCHANGED vars
  BY <1>18 DEF vars, IInv, TypeOK, Counters, InterceptWaits, BlocksCounted, Running
<1> QED
  BY <1>1, <1>2, <1>3, <1>4, <1>5, <1>6, <1>7, <1>8, <1>9, <1>10, <1>11, <1>12,
     <1>13, <1>14, <1>15, <1>16, <1>17, <1>18
  DEF Next, LoopStep, UserStep

LEMMA Invariance == Spec => []IInv
BY InitIInv, NextIInv, PTL DEF Spec

-----------------------------------------------------------------------------

(* Type correctness; with it, that no counter ever passes the turn limit and *)
(* that a running goal is always below it.                                   *)
THEOREM TypeCorrect == Spec => []TypeOK
BY Invariance, PTL DEF IInv

LEMMA StepBlocked ==
  ASSUME IInv, [Next]_vars, status = "running", status' = "blocked"
  PROVE  turns' >= MaxAutoTurns \/ sameBlocks'.count >= MaxBlocks
<1> USE DEF machineVars, turnVars, loopVars, userVars, historyVars
<1>1. CASE Advance
  <2>1. /\ Running
        /\ ~Completes
        /\ BlockEnds \/ LimitReached(Outcome)
    <3>1. Conclude => ~Completes
      BY DEF Conclude
    <3>2. ~GoOn
      BY DEF GoOn
    <3> QED
      BY <1>1, <3>1, <3>2 DEF Advance, Completes, BlockEnds, Complete
  <2>2. CASE LimitReached(Outcome)
    BY <2>2 DEF LimitReached
  <2>3. CASE BlockEnds
    <3>1. sameBlocks = [count |-> blocks, reason |-> block]
      BY <2>1 DEF IInv, BlocksCounted
    <3>2. sameBlocks' = [count |-> IF sameBlocks.reason = said.reason
                                   THEN sameBlocks.count + 1 ELSE 1,
                         reason |-> said.reason]
      BY <1>1, <2>3 DEF Advance, BlockEnds, Continue
    <3>3. sameBlocks'.count = BlocksAfter
      BY <2>3, <3>1, <3>2 DEF BlocksAfter, BlockEnds
    <3> QED BY <2>3, <3>3 DEF BlockEnds
  <2> QED BY <2>1, <2>2, <2>3
<1>2. CASE ~Advance
  BY <1>2 DEF Next, LoopStep, UserStep, vars, GoalCommand, SetGoal, Set, UserWrite,
              GoalStrict, StartLoop, Send, Cancel, BeginTurn, HookBlocks, TurnEnds,
              TurnFails, AdvanceNothing, LoopWrite, CompleteTodos, ContinueLoop, StopGoal
<1> QED BY <1>1, <1>2

(* A goal is given up only at the turn limit or after three reports of the   *)
(* same block with no progress in between, whatever the user does meanwhile. *)
THEOREM BlockedIsEarned == Spec => BlockedNeedsThree
<1>1. IInv /\ [Next]_vars
        => [status = "running" /\ status' = "blocked"
              => turns' >= MaxAutoTurns \/ sameBlocks'.count >= MaxBlocks]_vars
  BY StepBlocked
<1> QED
  BY <1>1, Invariance, PTL DEF Spec, BlockedNeedsThree

-----------------------------------------------------------------------------
(* Completion *)

LEMMA NextDelivered ==
  ASSUME IInv, Delivered, [Next]_vars
  PROVE  Delivered'
<1> USE DEF machineVars, turnVars, loopVars, userVars, historyVars, Delivered, Running
<1>1. ASSUME NEW g \in Goals \cup {NoGoal}, Set(g) PROVE Delivered'
  BY <1>1 DEF Set
<1>2. ASSUME NEW g \in Goals, NEW st \in BOOLEAN, GoalCommand(g, st) PROVE Delivered'
  BY <1>1, <1>2 DEF GoalCommand
<1>3. ASSUME NEW g \in Goals \cup {NoGoal}, SetGoal(g) PROVE Delivered'
  BY <1>1, <1>3 DEF SetGoal
<1>4. CASE UserWrite \/ GoalStrict \/ StartLoop \/ Send \/ Cancel
  BY <1>4 DEF UserWrite, GoalStrict, StartLoop, Send, Cancel
<1>5. CASE BeginTurn
  BY <1>5 DEF BeginTurn, BringsTodos, BringsSelfCheck, IInv, InterceptWaits
<1>6. CASE HookBlocks
  BY <1>6 DEF HookBlocks, BringsTodos, BringsSelfCheck, IInv, InterceptWaits
<1>7. ASSUME NEW s \in Said, TurnEnds(s) PROVE Delivered'
  BY <1>7 DEF TurnEnds
<1>8. CASE TurnFails \/ AdvanceNothing \/ LoopWrite \/ CompleteTodos
  BY <1>8 DEF TurnFails, AdvanceNothing, LoopWrite, CompleteTodos
<1>9. CASE Advance
  <2>1. intercept = "none" /\ loopPC = "advance" /\ UNCHANGED <<reminded, checked, withheld>>
    BY <1>9 DEF Advance, IInv, InterceptWaits
  <2>2. CASE Conclude
    BY <2>2 DEF Conclude
  <2>3. CASE GiveUp
    BY <2>3 DEF GiveUp
  <2>4. CASE GoOn
    <3>1. Running
      BY <1>9 DEF Advance
    <3>2. intercepts' > 0 => reminded' \/ withheld' \/ intercept' = "todos"
      <4>1. CASE said = Continue
        BY <2>4, <4>1 DEF GoOn, Continue, Complete
      <4>2. CASE said = Complete /\ Intercepted
        <5>1. MarkerIntercept = "todos"
          BY <4>2 DEF MarkerIntercept, SelfChecks
        <5> QED BY <2>4, <5>1 DEF GoOn
      <4>3. CASE ~(said = Continue) /\ ~(said = Complete /\ Intercepted)
        <5>1. intercepts' = intercepts
          BY <2>4, <4>3 DEF GoOn
        <5> QED BY <2>1, <3>1, <5>1
      <4> QED BY <4>1, <4>2, <4>3
    <3>3. selfCheckDone' => checked' \/ withheld' \/ intercept' = "selfCheck"
      BY <2>1, <2>4, <3>1 DEF GoOn, MarkerIntercept, SelfChecks, Continue, Complete
    <3> QED BY <3>2, <3>3
  <2> QED BY <1>9, <2>2, <2>3, <2>4 DEF Advance
<1>10. CASE ContinueLoop
  BY <1>10 DEF ContinueLoop, IInv, InterceptWaits
<1>11. CASE StopGoal
  BY <1>11 DEF StopGoal
<1>12. CASE UNCHANGED vars
  BY <1>12 DEF vars
<1> QED
  BY <1>2, <1>3, <1>4, <1>5, <1>6, <1>7, <1>8, <1>9, <1>10, <1>11, <1>12
  DEF Next, LoopStep, UserStep

LEMMA StepCompletes ==
  ASSUME IInv, Delivered, [Next]_vars, Completed
  PROVE  Earned \/ withheld
<1> USE DEF machineVars, turnVars, loopVars, userVars, historyVars
<1>1. Advance
  BY DEF Completed, Next, LoopStep, UserStep, vars, GoalCommand, SetGoal, Set,
         UserWrite, GoalStrict, StartLoop, Send, Cancel, BeginTurn, HookBlocks,
         TurnEnds, TurnFails, AdvanceNothing, LoopWrite, CompleteTodos, ContinueLoop,
         StopGoal
<1>2. Completes
  BY <1>1 DEF Completed, Advance, Conclude, GiveUp, GoOn
<1>3. Running /\ intercept = "none" /\ loopPC = "advance"
  BY <1>1 DEF Advance, IInv, InterceptWaits
<1>4. (intercepts > 0 => reminded \/ withheld) /\ (selfCheckDone => checked \/ withheld)
  BY <1>3 DEF Delivered
<1> QED
  BY <1>2, <1>4 DEF Completes, Intercepted, SelfChecks, Earned, IInv, TypeOK

(* A goal completes only with its todos done and its self-check made (strict  *)
(* mode), or with its todos done or their list put to the model (otherwise),  *)
(* for this very goal, however the user interleaves commands with the loop.   *)
(* Only a hook that blocks the turn with the reminder gets in the way.        *)
THEOREM CompletionIsEarned == Spec => CompletionWasEarned
<1>1. Init => Delivered
  BY DEF Init, Delivered, Running
<1>2. IInv /\ Delivered /\ [Next]_vars => Delivered'
  BY NextDelivered
<1>3. IInv /\ Delivered /\ [Next]_vars
        => [Completed => Earned \/ withheld]_vars
  BY StepCompletes
<1> QED
  BY <1>1, <1>2, <1>3, Invariance, PTL DEF Spec, CompletionWasEarned
=============================================================================
