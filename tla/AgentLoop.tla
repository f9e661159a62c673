----------------------------- MODULE AgentLoop -----------------------------
(***************************************************************************)
(* The tool loop of one agent (internal/agent/agent.go): Run with its      *)
(* budgets and retries, executeBatch with its serial and parallel          *)
(* segments, the storm breaker, the guard against repeated writes, and the *)
(* queue of mid-turn guidance that Controller.Steer fills.                 *)
(*                                                                         *)
(* The model is free: it answers, answers with nothing, calls a batch of   *)
(* tools, or its stream breaks.  A tool call is its kind and its outcome.  *)
(* The user may steer and cancel between any two steps, and the calls of a *)
(* parallel segment interleave.                                            *)
(***************************************************************************)
EXTENDS Naturals, Sequences, SequencesExt, FiniteSets, FiniteSetsExt

CONSTANTS
    Batches,        \* batches of calls the model may ask for: sequences of kinds
    Errors,         \* what a call of each kind may fail with
    MaxSteps,       \* maxSteps; 0 is no limit
    MaxParallel,    \* maxParallel
    MaxRuns,        \* bound: calls of Run
    MaxSteers       \* bound: guidance the user sends

\* Known read-only tools; todo_write and complete_step, which read the
\* ledger; writers; and names no tool has.
Kind == {"reader", "ledger", "writer", "unknown"}

ASSUME AgentLoopAssumption ==
  /\ MaxSteps \in Nat
  /\ MaxParallel \in Nat \ {0}
  /\ \A b \in Batches : b \in Seq(Kind) /\ b # <<>>
  /\ "ok" \notin UNION {Errors[k] : k \in DOMAIN Errors}

maxFinalReadinessBlocks == 3
maxEmptyFinalBlocks     == 3
maxStreamRecoveries     == 3
stormBreakThreshold     == 3
repeatSuccessBreakThreshold == 2

VARIABLES
    running,     \* Controller.running: guidance goes to the agent
    at,          \* where Run is: out, head, stream, batch, stored, closing
    cancelled,   \* the context of the turn is done
    step,        \* tool rounds begun
    recoveries,  \* streamRecoveries
    blocks,      \* finalReadinessBlocks
    empties,     \* emptyFinalBlocks
    nudged,      \* handoffNudges is used up, or usedAnyTool: no handoff nudge any more
    grace,       \* graceRound
    steers,      \* guidance in steerQueue
    dangling,    \* batches of calls in the history that have no results
    calls,       \* the batch being executed
    state,       \* per call: waiting, running, done, skipped
    outcome,     \* per call: none, ok, blocked, or its error
    from,        \* first call of the segment being executed
    next,        \* next call to launch
    writes,      \* successes of the write every writer call repeats, in this Run
    storm,       \* [sig, count]: stormSig and stormCount
    directive,   \* the last batch had its result replaced by a directive
    history,     \* the last batches that ran to their end, as signatures
    executed,    \* batches executed in this Run
    runs, sent   \* bounds

budget == <<step, recoveries, blocks, empties, nudged, grace>>
batch  == <<calls, state, outcome, from, next>>
guards == <<writes, storm, directive, history, executed>>
vars   == <<running, at, cancelled, budget, steers, dangling, batch, guards, runs, sent>>

None == <<>>

Init ==
  /\ running = FALSE
  /\ at = "out"
  /\ cancelled = FALSE
  /\ step = 0 /\ recoveries = 0 /\ blocks = 0 /\ empties = 0
  /\ nudged = FALSE /\ grace = FALSE
  /\ steers = 0
  /\ dangling = 0
  /\ calls = <<>> /\ state = <<>> /\ outcome = <<>> /\ from = 0 /\ next = 0
  /\ writes = 0
  /\ storm = [sig |-> None, count |-> 0]
  /\ directive = FALSE
  /\ history = <<>>
  /\ executed = 0
  /\ runs = 0
  /\ sent = 0

-----------------------------------------------------------------------------
(* The turn around Run, and the user.                                      *)

\* runGuarded: the turn is claimed.
StartTurn ==
  /\ ~running
  /\ runs < MaxRuns
  /\ running' = TRUE
  /\ cancelled' = FALSE
  /\ UNCHANGED <<at, budget, steers, dangling, batch, guards, runs, sent>>

\* Run up to the loop.  The counters of the loop are its local variables.
Begin ==
  /\ running /\ at = "out"
  /\ runs < MaxRuns
  /\ runs' = runs + 1
  /\ at' = "head"
  /\ step' = 0 /\ recoveries' = 0 /\ blocks' = 0 /\ empties' = 0
  /\ nudged' \in BOOLEAN /\ grace' = FALSE
  /\ writes' = 0
  /\ executed' = 0
  /\ UNCHANGED <<running, cancelled, steers, dangling, batch, storm, directive, history, sent>>

\* Run returns: its local variables are gone, and the deferred
\* clearSteerQueue drops the guidance that is left.
Leave ==
  /\ at' = "out"
  /\ steers' = 0
  /\ step' = 0 /\ recoveries' = 0 /\ blocks' = 0 /\ empties' = 0
  /\ nudged' = FALSE /\ grace' = FALSE

\* The turn is over; running goes down.
EndTurn ==
  /\ running /\ at = "out"
  /\ running' = FALSE
  /\ UNCHANGED <<at, cancelled, budget, steers, dangling, batch, guards, runs, sent>>

\* Controller.Steer while the turn runs.
Steer ==
  /\ running
  /\ sent < MaxSteers
  /\ sent' = sent + 1
  /\ steers' = steers + 1
  /\ UNCHANGED <<running, at, cancelled, budget, dangling, batch, guards, runs>>

Cancel ==
  /\ running /\ ~cancelled
  /\ cancelled' = TRUE
  /\ UNCHANGED <<running, at, budget, steers, dangling, batch, guards, runs, sent>>

-----------------------------------------------------------------------------
(* The head of the loop and the answers of the model.                      *)

\* The loop condition; one queued guidance enters the history.
NextRound ==
  /\ at = "head"
  /\ IF MaxSteps = 0 \/ step < MaxSteps \/ grace
       THEN /\ at' = "stream"
            /\ steers' = IF steers > 0 THEN steers - 1 ELSE 0
            /\ UNCHANGED budget
       ELSE Leave
  /\ UNCHANGED <<running, cancelled, dangling, batch, guards, runs, sent>>

\* (mutant) A recovery does not count.
InterruptedAlways ==
  /\ at = "stream"
  /\ recoveries < maxStreamRecoveries
  /\ at' = "head"
  /\ UNCHANGED <<running, cancelled, budget, steers, dangling, batch, guards, runs, sent>>

\* The stream breaks: a few recoveries in a row are free of charge.  Any
\* other error, and a cancelled context, end the Run.
Interrupted ==
  /\ at = "stream"
  /\ recoveries < maxStreamRecoveries
  /\ recoveries' = recoveries + 1
  /\ at' = "head"
  /\ UNCHANGED <<running, cancelled, step, blocks, empties, nudged, grace, steers, dangling,
                 batch, guards, runs, sent>>

StreamFails ==
  /\ at = "stream"
  /\ Leave
  /\ UNCHANGED <<running, cancelled, dangling, batch, guards, runs, sent>>

\* The model is told to try again: the next round of the loop.
Again ==
  /\ at' = "head"
  /\ step' = step + 1
  /\ recoveries' = 0
  /\ UNCHANGED steers

\* No tool call, and finalReadinessCheck has a reason to object.
NotReady ==
  /\ at = "stream"
  /\ IF blocks + 1 >= maxFinalReadinessBlocks
       THEN Leave
       ELSE Again /\ blocks' = blocks + 1 /\ UNCHANGED <<empties, nudged, grace>>
  /\ UNCHANGED <<running, cancelled, dangling, batch, guards, runs, sent>>

\* No tool call and no visible text.
Empty ==
  /\ at = "stream"
  /\ IF empties + 1 >= maxEmptyFinalBlocks
       THEN Leave
       ELSE Again /\ empties' = empties + 1 /\ UNCHANGED <<blocks, nudged, grace>>
  /\ UNCHANGED <<running, cancelled, dangling, batch, guards, runs, sent>>

\* An executor that answered without having used a tool is nudged once.
Nudge ==
  /\ at = "stream" /\ ~nudged
  /\ nudged' = TRUE
  /\ Again
  /\ UNCHANGED <<running, cancelled, blocks, empties, grace, dangling, batch, guards, runs, sent>>

\* A visible answer.  Guidance that is queued is worth another round; else
\* the history is compacted and Run returns.
Answer ==
  /\ at = "stream"
  /\ IF steers > 0
       THEN Again
       ELSE at' = "closing" /\ UNCHANGED <<step, recoveries, steers>>
  /\ UNCHANGED <<running, cancelled, blocks, empties, nudged, grace, dangling, batch, guards, runs,
                 sent>>

Return ==
  /\ at = "closing"
  /\ Leave
  /\ UNCHANGED <<running, cancelled, dangling, batch, guards, runs, sent>>

-----------------------------------------------------------------------------
(* Executing a batch.                                                      *)

\* (mutant) Every tool that changes nothing may overlap, the ledger's included.
ParallelisableAll(kind) == kind \in {"reader", "ledger"}

Parallelisable(kind) == kind = "reader"

\* partitionToolCalls: the last call of the segment that begins at i.
SegmentEnd(c, i) ==
  Max({i} \cup {k \in i .. Len(c) : \A j \in i .. k : Parallelisable(c[j])})

\* The model calls tools.  In the grace round that ends the Run, with the
\* calls in the history and no results.
CallTools ==
  /\ at = "stream"
  /\ dangling' = dangling + 1
  /\ \E c \in Batches :
       IF grace
         THEN Leave /\ UNCHANGED <<batch, executed>>
         ELSE /\ at' = "batch"
              /\ empties' = 0
              /\ nudged' = TRUE
              /\ recoveries' = 0
              /\ calls' = c
              /\ state' = [i \in 1 .. Len(c) |-> "waiting"]
              /\ outcome' = [i \in 1 .. Len(c) |-> "none"]
              /\ from' = 1 /\ next' = 1
              /\ executed' = executed + 1
              /\ UNCHANGED <<step, blocks, grace, steers>>
  /\ UNCHANGED <<running, cancelled, writes, storm, directive, history, runs, sent>>

Running == {i \in DOMAIN state : state[i] = "running"}

\* The loop of runParallel, or the only call of a serial segment.
Launch ==
  /\ at = "batch" /\ ~cancelled
  /\ next <= SegmentEnd(calls, from)
  /\ Cardinality(Running) < MaxParallel
  /\ state' = [state EXCEPT ![next] = "running"]
  /\ next' = next + 1
  /\ UNCHANGED <<running, at, cancelled, budget, steers, dangling, calls, outcome, from, guards,
                 runs, sent>>

\* executeOne returns.  A write that succeeded twice in this Run is refused.
Finish(i) ==
  LET refused == calls[i] = "writer" /\ writes >= repeatSuccessBreakThreshold
      may == IF refused THEN {"blocked"}
             ELSE IF calls[i] = "unknown" THEN Errors["unknown"]
             ELSE {"ok", "blocked"} \cup Errors[calls[i]]
  IN  /\ at = "batch"
      /\ i \in Running
      /\ \E o \in may :
           /\ outcome' = [outcome EXCEPT ![i] = o]
           /\ writes' = IF calls[i] = "writer" /\ o = "ok" THEN writes + 1 ELSE writes
      /\ state' = [state EXCEPT ![i] = "done"]
      /\ UNCHANGED <<running, at, cancelled, budget, steers, dangling, calls, from, next, storm,
                     directive, history, executed, runs, sent>>

SegmentOver ==
  at = "batch" /\ Running = {} /\ (cancelled \/ next > SegmentEnd(calls, from))

NextSegment ==
  /\ SegmentOver
  /\ ~cancelled /\ next <= Len(calls)
  /\ from' = next
  /\ UNCHANGED <<running, at, cancelled, budget, steers, dangling, calls, state, outcome, next,
                 guards, runs, sent>>

\* batchStormSignature: the calls with their errors, or None when one of
\* them succeeded or was blocked.
Signature ==
  IF \E i \in DOMAIN calls : outcome[i] \in {"ok", "blocked"} THEN None
  ELSE [i \in DOMAIN calls |-> <<calls[i], outcome[i]>>]

\* (mutant) A success in between does not break the series.
StormAfterFailures(sig) ==
  IF sig = None THEN storm
  ELSE IF sig # storm.sig THEN [sig |-> sig, count |-> 1]
  ELSE [sig |-> sig, count |-> storm.count + 1]

\* applyStormBreaker
StormAfter(sig) ==
  IF sig = None THEN [sig |-> None, count |-> 0]
  ELSE IF sig # storm.sig THEN [sig |-> sig, count |-> 1]
  ELSE [sig |-> sig, count |-> storm.count + 1]

Remember(sig) ==
  history' = IF Len(history) < stormBreakThreshold THEN Append(history, sig)
             ELSE Append(Tail(history), sig)

\* executeBatch returns and the results enter the history.
BatchOver ==
  /\ SegmentOver
  /\ calls' = <<>> /\ state' = <<>> /\ outcome' = <<>> /\ from' = 0 /\ next' = 0
  /\ dangling' = dangling - 1
  /\ at' = "stored"

\* markCancelled: what was not launched is written off.
StopBatch ==
  /\ BatchOver
  /\ cancelled
  /\ directive' = FALSE
  /\ UNCHANGED <<running, cancelled, budget, steers, writes, storm, history, executed, runs, sent>>

\* The last segment ended; a turn cancelled since then does not undo that.
EndBatch ==
  /\ BatchOver
  /\ next > Len(calls)
  /\ storm' = StormAfter(Signature)
  /\ directive' = (storm'.count >= stormBreakThreshold)
  /\ Remember(Signature)
  /\ UNCHANGED <<running, cancelled, budget, steers, writes, executed, runs, sent>>

\* (mutant) The grace round is offered again by a new count of rounds.
EndRoundStartsOver ==
  /\ at = "stored"
  /\ IF cancelled
       THEN Leave
       ELSE /\ at' = "head"
            /\ step' = IF MaxSteps > 0 /\ step + 1 >= MaxSteps THEN 0 ELSE step + 1
            /\ UNCHANGED <<grace, steers, recoveries, blocks, empties, nudged>>
  /\ UNCHANGED <<running, cancelled, dangling, batch, guards, runs, sent>>

\* The rest of the round: a spent budget earns the grace round.
EndRound ==
  /\ at = "stored"
  /\ IF cancelled
       THEN Leave
       ELSE /\ at' = "head"
            /\ step' = step + 1
            /\ grace' = (MaxSteps > 0 /\ step + 1 >= MaxSteps)
            /\ UNCHANGED <<steers, recoveries, blocks, empties, nudged>>
  /\ UNCHANGED <<running, cancelled, dangling, batch, guards, runs, sent>>

-----------------------------------------------------------------------------
Model == Interrupted \/ StreamFails \/ NotReady \/ Empty \/ Nudge \/ Answer \/ CallTools
Loop  == Begin \/ NextRound \/ Model \/ Return \/ Launch \/ NextSegment \/ StopBatch \/ EndBatch
         \/ EndRound
Finishes == \E i \in DOMAIN calls : Finish(i)

Next == StartTurn \/ EndTurn \/ Steer \/ Cancel \/ Loop \/ Finishes

\* The goroutine of the turn and those of the tools are scheduled; a stream
\* ends, and so does a tool.
Fairness == WF_vars(Loop) /\ WF_vars(Finishes)

Spec == Init /\ [][Next]_vars
FairSpec == Spec /\ Fairness

-----------------------------------------------------------------------------
TypeOK ==
  /\ running \in BOOLEAN
  /\ at \in {"out", "head", "stream", "batch", "stored", "closing"}
  /\ cancelled \in BOOLEAN
  /\ step \in Nat
  /\ recoveries \in 0 .. maxStreamRecoveries
  /\ blocks \in 0 .. maxFinalReadinessBlocks
  /\ empties \in 0 .. maxEmptyFinalBlocks
  /\ nudged \in BOOLEAN /\ grace \in BOOLEAN
  /\ steers \in Nat /\ dangling \in Nat
  /\ state \in Seq({"waiting", "running", "done"})
  /\ writes \in Nat
  /\ storm.count \in Nat
  /\ directive \in BOOLEAN
  /\ executed \in Nat

\* A call that may change something, and a call that reads the ledger, runs
\* alone, after every earlier call of its batch has left its receipt and before
\* any later one starts: only known readers overlap.
OrderKept ==
  \A i \in Running : calls[i] # "reader" =>
    /\ Running = {i}
    /\ \A j \in 1 .. i - 1 : state[j] = "done"
    /\ \A j \in i + 1 .. Len(calls) : state[j] = "waiting"

\* The directive is given exactly when the last three batches that ran to
\* their end failed with the same calls and the same errors, across turns and
\* whatever was cancelled in between; a success or a refusal breaks the run.
DirectiveIsDue ==
  at = "stored" /\ ~cancelled =>
    (directive <=> /\ Len(history) = stormBreakThreshold
                   /\ Last(history) # None
                   /\ \A i \in DOMAIN history : history[i] = Last(history))

\* The hard guard: with a budget, at most that many batches are executed in
\* one Run, whatever is retried, recovered or steered in between.
BudgetKept == MaxSteps > 0 => executed <= MaxSteps

\* With a budget Run returns, and without one it does once the user cancels.
RunEnds == (at # "out" /\ (MaxSteps > 0 \/ cancelled)) ~> at = "out"

\* What a comment says of the history: every tool call of it has its result
\* when the next request goes to the model.
RequestIsPaired == at = "stream" => dangling = 0

\* What a comment of Steer says of guidance sent to a running turn, that the
\* user gets a response: a turn that ends with an answer leaves none unread.
GuidanceIsHeard == [][at = "closing" /\ at' = "out" => steers = 0]_vars
=============================================================================
