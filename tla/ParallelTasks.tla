--------------------------- MODULE ParallelTasks ---------------------------
(***************************************************************************)
(* One call of the parallel_tasks tool (internal/agent/parallel_tasks.go): *)
(* validation of the depends_on lists, the scheduler loop that starts a    *)
(* sub-agent once what it depends on is done, the worker goroutines, and   *)
(* cancellation of the turn.                                               *)
(*                                                                         *)
(* Workers, the loop and the cancellation interleave freely.  The body of  *)
(* the loop between two selects is one step, since only the loop touches   *)
(* the bookkeeping.  Prompts, labels and outputs are left out: what a      *)
(* worker produced is its outcome.                                         *)
(***************************************************************************)
EXTENDS Naturals, Sequences, SequencesExt, FiniteSets

CONSTANTS Task,      \* the indices of the tasks of the call, a set of naturals
          MaxDup     \* how often one index may occur in a depends_on list

ASSUME TaskAssumption == Task \subseteq Nat /\ IsFiniteSet(Task)
ASSUME MaxDupAssumption == MaxDup \in Nat

VARIABLES
    deps,        \* deps[i][j]: occurrences of j in the depends_on list of i
    phase,       \* of Execute: called, looping, waiting (wg.Wait), returned
    cancelled,   \* the context of the turn is done
    remaining,   \* occurrences of unfinished dependencies, per task
    running,     \* tasks startTask was called for
    done,        \* tasks whose result was processed, or written off
    statuses,    \* parallelTaskStatus, per task
    worker,      \* the goroutine: none, works, sends, gone
    shown,       \* outcome on the card of the task (ToolResult event), or none
    doneCh,      \* tasks whose result was sent and not received, in order
    report       \* what Execute returned: none, rejected, full, partial

book == <<remaining, running, done, statuses>>
callVars == <<deps, phase, cancelled, book, worker, shown, doneCh, report>>

Outcome == {"completed", "failed", "cancelled"}
Status  == Outcome \cup {"pending", "skipped"}

DependsOn(i) == {j \in Task : deps[i][j] > 0}

\* The depends_on list of i: its entries, whatever their order.
Entries(i) == {e \in Task \X (1 .. MaxDup) : e[2] <= deps[i][e[1]]}

-----------------------------------------------------------------------------
(* validateParallelTaskItems: no self reference, then a depth-first search *)
(* that colours a task 1 while it is being visited and 2 once it is done.  *)

Uncoloured == [i \in Task |-> 0]
Cycle      == [i \in Task |-> 3]

\* (mutant) A task that is being visited is taken for one that is done.
VisitOnce ==
  LET visit[c \in [Task -> 0 .. 3], i \in Task] ==
        IF c[i] # 0 THEN c
        ELSE FoldLeft(LAMBDA acc, j : visit[acc, j], [c EXCEPT ![i] = 1],
                      SetToSortSeq(DependsOn(i), <))
  IN  visit

\* The colouring after visit(i) was called on colouring c, or Cycle.
Visit ==
  LET visit[c \in [Task -> 0 .. 3], i \in Task] ==
        IF c = Cycle \/ c[i] = 1 THEN Cycle
        ELSE IF c[i] = 2 THEN c
        ELSE LET below == FoldLeft(LAMBDA acc, j : visit[acc, j],
                                   [c EXCEPT ![i] = 1],
                                   SetToSortSeq(DependsOn(i), <))
             IN  IF below = Cycle THEN Cycle ELSE [below EXCEPT ![i] = 2]
  IN  visit

Valid ==
  /\ \A i \in Task : i \notin DependsOn(i)
  /\ FoldLeft(LAMBDA c, i : Visit[c, i], Uncoloured, SetToSortSeq(Task, <)) # Cycle

-----------------------------------------------------------------------------
CallInit ==
  /\ deps \in [Task -> [Task -> 0 .. MaxDup]]
  /\ phase = "called"
  /\ cancelled = FALSE
  /\ remaining = [i \in Task |-> 0]
  /\ running = {}
  /\ done = {}
  /\ statuses = [i \in Task |-> "pending"]
  /\ worker = [i \in Task |-> "none"]
  /\ shown = [i \in Task |-> "none"]
  /\ doneCh = <<>>
  /\ report = "none"

\* startReady, after the bookkeeping changed: every task with nothing left
\* to wait for gets its goroutine, unless the turn was cancelled.
StartReady ==
  LET ready == IF cancelled THEN {}
               ELSE {i \in Task \ (running \cup done') : remaining'[i] = 0}
  IN  /\ running' = running \cup ready
      /\ worker' = [i \in Task |-> IF i \in ready THEN "works" ELSE worker[i]]

\* Execute up to the loop.  A dependency listed twice counts twice.
Call ==
  /\ phase = "called"
  /\ \/ /\ ~Valid
        /\ phase' = "returned"
        /\ report' = "rejected"
        /\ UNCHANGED <<book, worker>>
     \/ /\ Valid
        /\ phase' = "looping"
        /\ remaining' = [i \in Task |-> Cardinality(Entries(i))]
        /\ done' = done
        /\ StartReady
        /\ UNCHANGED <<statuses, report>>
  /\ UNCHANGED <<deps, cancelled, shown, doneCh>>

\* RunSubAgentWithSession returned and the card shows how.  A run that was
\* not stopped reports the cancellation of the turn all the same; a deadline
\* of its own also counts as cancelled.
Finish(i) ==
  /\ worker[i] = "works"
  /\ \E o \in Outcome :
       shown' = [shown EXCEPT ![i] =
                   IF cancelled /\ o = "completed" THEN "cancelled" ELSE o]
  /\ worker' = [worker EXCEPT ![i] = "sends"]
  /\ UNCHANGED <<deps, phase, cancelled, book, doneCh, report>>

\* The result goes into the buffered channel and the goroutine ends.
SendResult(i) ==
  /\ worker[i] = "sends"
  /\ worker' = [worker EXCEPT ![i] = "gone"]
  /\ doneCh' = Append(doneCh, i)
  /\ UNCHANGED <<deps, phase, cancelled, book, shown, report>>

\* (mutant) A dependency is over as soon as one of those listed is.
ProcessAny(r) ==
  /\ done' = done \cup {r}
  /\ statuses' = [statuses EXCEPT ![r] = shown[r]]
  /\ remaining' = [i \in Task |-> IF deps[i][r] > 0 THEN 0 ELSE remaining[i]]

\* (mutant) A dependency listed twice is counted down once.
ProcessOnce(r) ==
  /\ done' = done \cup {r}
  /\ statuses' = [statuses EXCEPT ![r] = shown[r]]
  /\ remaining' = [i \in Task |->
       IF i \in running \cup done' \/ deps[i][r] = 0 THEN remaining[i]
       ELSE remaining[i] - 1]

\* processResult without scheduling, for the result of task r.
Process(r) ==
  /\ done' = done \cup {r}
  /\ statuses' = [statuses EXCEPT ![r] = shown[r]]
  /\ remaining' = [i \in Task |->
       IF i \in running \cup done' THEN remaining[i] ELSE remaining[i] - deps[i][r]]

Unprocessed == phase = "looping" /\ done # Task

Receive ==
  /\ Unprocessed
  /\ doneCh # <<>>
  /\ Process(Head(doneCh))
  /\ StartReady
  /\ doneCh' = Tail(doneCh)
  /\ UNCHANGED <<deps, phase, cancelled, shown, report>>

\* The ctx.Done branch: drain what was sent, then markCancelled.
StopLoop ==
  LET drained == ToSet(doneCh)
      lost    == Task \ (done \cup drained)
  IN  /\ Unprocessed
      /\ cancelled
      /\ remaining' = remaining
      /\ done' = Task
      /\ statuses' = [i \in Task |->
           IF i \in drained THEN shown[i]
           ELSE IF i \notin lost THEN statuses[i]
           ELSE IF i \in running THEN "cancelled" ELSE "skipped"]
      /\ doneCh' = <<>>
      /\ phase' = "waiting"
      /\ report' = "partial"
      /\ UNCHANGED <<deps, cancelled, running, worker, shown>>

\* Every result was processed.
EndLoop ==
  /\ phase = "looping"
  /\ done = Task
  /\ phase' = "waiting"
  /\ report' = IF \E i \in Task : statuses[i] \in {"cancelled", "skipped"}
               THEN "partial" ELSE "full"
  /\ UNCHANGED <<deps, cancelled, book, worker, shown, doneCh>>

\* (mutant) A cancelled call does not wait for its goroutines.
ReturnAtOnce ==
  /\ phase = "waiting"
  /\ cancelled \/ \A i \in Task : worker[i] \in {"none", "gone"}
  /\ phase' = "returned"
  /\ UNCHANGED <<deps, cancelled, book, worker, shown, doneCh, report>>

\* wg.Wait: every goroutine that was started has ended.
Return ==
  /\ phase = "waiting"
  /\ \A i \in Task : worker[i] \in {"none", "gone"}
  /\ phase' = "returned"
  /\ UNCHANGED <<deps, cancelled, book, worker, shown, doneCh, report>>

\* The user stops the turn, or its deadline passes; the context may already
\* be done when the first tasks would start.
CancelTurn ==
  /\ phase # "returned"
  /\ ~cancelled
  /\ cancelled' = TRUE
  /\ UNCHANGED <<deps, phase, book, worker, shown, doneCh, report>>

Over == phase = "returned" /\ UNCHANGED callVars

Loop == Call \/ Receive \/ StopLoop \/ EndLoop \/ Return
CallNext == Loop \/ CancelTurn \/ Over \/ \E i \in Task : Finish(i) \/ SendResult(i)

\* The loop and the goroutines are scheduled, and a sub-agent ends: it has
\* a step budget, and a cancelled context ends its provider calls.
CallFairness == WF_callVars(Loop) /\ \A i \in Task : WF_callVars(Finish(i) \/ SendResult(i))

CallSpec == CallInit /\ [][CallNext]_callVars
CallFairSpec == CallSpec /\ CallFairness

-----------------------------------------------------------------------------
CallTypeOK ==
  /\ deps \in [Task -> [Task -> 0 .. MaxDup]]
  /\ phase \in {"called", "looping", "waiting", "returned"}
  /\ cancelled \in BOOLEAN
  /\ remaining \in [Task -> Nat]
  /\ running \subseteq Task
  /\ done \subseteq Task
  /\ statuses \in [Task -> Status]
  /\ worker \in [Task -> {"none", "works", "sends", "gone"}]
  /\ shown \in [Task -> Outcome \cup {"none"}]
  /\ doneCh \in Seq(Task)
  /\ report \in {"none", "rejected", "full", "partial"}

\* The reference: some tasks each wait for another one of them.
Cyclic == \E S \in (SUBSET Task) \ {{}} : \A i \in S : DependsOn(i) \cap S # {}

\* The depth-first search refuses a call exactly when its depends_on lists
\* hold a cycle: a refused call never had an order to run in, and an
\* accepted one has.
ValidationIsExact == phase # "called" => (report = "rejected" <=> Cyclic)

\* A sub-agent is started only after every sub-agent it depends on has put
\* its result on its card, whatever the order results arrive in, and however
\* often a dependency is listed.
DepsFirst ==
  \A i \in running : \A j \in DependsOn(i) : shown[j] # "none" /\ worker[j] = "gone"

\* What Execute hands back is final and agrees with the cards: no goroutine
\* outlives the call, no task is left pending, a task that never ran is the
\* only one reported skipped, a task reported completed or failed shows that
\* on its card, and a full report means that every task ran to its end.
ReportIsTrue ==
  phase = "returned" /\ report # "rejected" =>
    /\ \A i \in Task :
         /\ worker[i] \in {"none", "gone"}
         /\ statuses[i] # "pending"
         /\ (statuses[i] = "skipped") <=> (worker[i] = "none")
         /\ statuses[i] \in {"completed", "failed"} => shown[i] = statuses[i]
    /\ report = "full" => \A i \in Task : statuses[i] \in {"completed", "failed"}

\* A call that was accepted returns: no task waits for a dependency the
\* loop has already counted, and a cancelled call does not wait for tasks
\* that were never started.
CallEnds == phase = "looping" ~> phase = "returned"

\* What a test says of a cancelled call: a sub-agent that had completed is
\* in the aggregate with its output.
CompletedIsReported ==
  phase = "returned" => \A i \in Task : shown[i] = "completed" => statuses[i] = "completed"
=============================================================================
