-------------------------------- MODULE Jobs --------------------------------
(***************************************************************************)
(* The background-job table of one session runtime: internal/jobs/jobs.go. *)
(*                                                                         *)
(* A Manager starts each job on a goroutine of its own and, when the job's *)
(* run function returns, walks it through a fixed tail: fix the outcome    *)
(* and write the sidecar metadata, queue the completion note, publish the  *)
(* status, close the done channel.  Every step of that tail takes a lock   *)
(* of its own, so kills, session destroys, session switches, the stall     *)
(* monitor and the shutdown of the manager all land between them.  One     *)
(* action below is one critical section of the code.                       *)
(*                                                                         *)
(* Job j is the job whose id carries sequence number j (m.seq is never     *)
(* reused).  The queue of notes is a set: a job queues at most one note of *)
(* each kind, and the order in which they are joined is wording.           *)
(***************************************************************************)
EXTENDS Naturals, FiniteSets

CONSTANTS
    Sessions,     \* parent-session ids
    Unscoped,     \* the empty session id of the legacy API
    StartScopes,  \* the ids jobs are started under
    MaxJobs,      \* bound on m.seq
    MaxDestroys,  \* bound on the number of session destroys
    MayClose,     \* somebody may close the manager
    MayRebind,    \* a session may be bound while it is being destroyed, and
                  \* destroyed while its binding adopts jobs
    StallWarning  \* WithStalledWarningAfter is set: jobs get a monitor

ASSUME BoundsAssumption == MaxJobs \in Nat /\ MaxDestroys \in Nat
ASSUME UnscopedAssumption == Unscoped \notin Sessions
ASSUME ScopesAssumption == StartScopes \subseteq Sessions \cup {Unscoped}
ASSUME OptionsAssumption == {MayClose, MayRebind, StallWarning} \subseteq BOOLEAN

Scopes == Sessions \cup {Unscoped}
Jobs == 1..MaxJobs
Terminal == {"Done", "Failed", "Killed"}
Statuses == {"Absent", "Running"} \cup Terminal

VARIABLES
    \* the manager, under m.mu
    seq,          \* m.seq: number of jobs registered so far
    tracked,      \* the jobs in m.jobs / m.order
    owner,        \* j.SessionID
    completed,    \* m.completed: notes waiting to be drained
    destroying,   \* m.destroying
    bound,        \* the sessions with an entry in m.artifactDirs
    \* each job, under j.mu
    status,       \* j.status
    \* each job's goroutine and its monitor
    pc,           \* where the goroutine of StartForSession stands
    starter,      \* parentSession as captured by the goroutine
    outcome,      \* the local st of the goroutine
    monitor,      \* where monitorStalled stands
    \* contexts
    toCancel,     \* jobs flipped to Killed whose cancel is still to be called
    cancelled,    \* jobs whose own context is cancelled
    rootDone,     \* m.root is cancelled
    \* callers inside a multi-step operation
    adopting,     \* the session a SetActiveSessionPath call is adopting for
    handle,       \* per session, the targets of its SessionTeardown handle
    destroyPC,    \* per session, where its destroy stands
    destroys,     \* how many destroys were begun
    closePC,      \* where Close stands
    \* history: what the readers got, and when a destroy began
    told,         \* per job, how often its completion note was drained
    toldTo,       \* per job, who drained it last
    dropped,      \* jobs whose note went with a destroyed session
    seqAt         \* per session, m.seq when its destroy began

managerVars == <<seq, tracked, owner, completed, destroying, bound>>
jobVars == <<status, pc, starter, outcome, monitor>>
ctxVars == <<toCancel, cancelled, rootDone>>
callerVars == <<adopting, handle, destroyPC, destroys, closePC>>
readerVars == <<told, toldTo, dropped, seqAt>>
vars == <<managerVars, jobVars, ctxVars, callerVars, readerVars>>

Notes == [job : Jobs, what : {"finished", "stalled"},
          session : Scopes, st : Terminal \cup {"Running"}]

Init ==
    /\ seq = 0
    /\ tracked = {}
    /\ owner = [j \in Jobs |-> Unscoped]
    /\ completed = {}
    /\ destroying = {}
    /\ bound = {}
    /\ status = [j \in Jobs |-> "Absent"]
    /\ pc = [j \in Jobs |-> "absent"]
    /\ starter = [j \in Jobs |-> Unscoped]
    /\ outcome = [j \in Jobs |-> "Running"]
    /\ monitor = [j \in Jobs |-> "off"]
    /\ toCancel = {}
    /\ cancelled = {}
    /\ rootDone = FALSE
    /\ adopting = Unscoped
    /\ handle = [s \in Sessions |-> {}]
    /\ destroyPC = [s \in Sessions |-> "idle"]
    /\ destroys = 0
    /\ closePC = "open"
    /\ told = [j \in Jobs |-> 0]
    /\ toldTo = [j \in Jobs |-> Unscoped]
    /\ dropped = {}
    /\ seqAt = [s \in Sessions |-> 0]

-----------------------------------------------------------------------------
(* Helpers *)

\* sessionMatches: the empty filter matches every job.
Matches(filter, session) == filter = Unscoped \/ session = filter

\* The done channel of a job is closed.
IsDone(j) == pc[j] = "closed"

\* ctx.Err() # nil in the goroutine of j.
ContextDone(j) == rootDone \/ j \in cancelled

\* The tracked jobs a session-scoped reader sees.
Visible(s) == {j \in tracked : Matches(s, owner[j])}

\* A note is suppressed while the session captured at start is destroyed.
Suppressed(j) == starter[j] \in destroying

FinishedNote(j) == [job |-> j, what |-> "finished",
                    session |-> starter[j], st |-> outcome[j]]
StalledNote(j) == [job |-> j, what |-> "stalled",
                   session |-> starter[j], st |-> "Running"]

-----------------------------------------------------------------------------
(* Starting and running a job *)

\* StartForSession up to m.mu.Unlock(): the job is registered as Running.
\* Nothing is refused: s is whatever session the turn captured when it began,
\* which may meanwhile be under destruction, and the manager may be closed.
Start(s) ==
    /\ seq < MaxJobs
    /\ LET j == seq + 1 IN
       /\ seq' = j
       /\ tracked' = tracked \cup {j}
       /\ owner' = [owner EXCEPT ![j] = s]
       /\ starter' = [starter EXCEPT ![j] = s]
       /\ status' = [status EXCEPT ![j] = "Running"]
       /\ pc' = [pc EXCEPT ![j] = "registered"]
    /\ UNCHANGED <<completed, destroying, bound, outcome, monitor,
                   ctxVars, callerVars, readerVars>>

\* StartForSession after the unlock: m.wg.Add, the monitor and the goroutine.
Launch(j) ==
    /\ pc[j] = "registered"
    /\ pc' = [pc EXCEPT ![j] = "run"]
    /\ monitor' = [monitor EXCEPT ![j] = IF StallWarning THEN "armed" ELSE "off"]
    /\ UNCHANGED <<managerVars, status, starter, outcome,
                   ctxVars, callerVars, readerVars>>

\* The run function returns, recovered or not: j.runReturned = true.
RunReturns(j) ==
    /\ pc[j] = "run"
    /\ pc' = [pc EXCEPT ![j] = "returned"]
    /\ UNCHANGED <<managerVars, status, starter, outcome, monitor,
                   ctxVars, callerVars, readerVars>>

\* (mutant) the switch lacks its default: st stays the zero value
SettleWithoutDefault(j) ==
    /\ pc[j] = "returned"
    /\ \E st \in IF ContextDone(j) THEN {"Killed"} ELSE {"", "Failed"} :
          outcome' = [outcome EXCEPT ![j] = st]
    /\ pc' = [pc EXCEPT ![j] = "settled"]
    /\ UNCHANGED <<managerVars, status, starter, monitor,
                   ctxVars, callerVars, readerVars>>

\* st is computed from the context and the run's error, the artifact is closed
\* and the sidecar metadata is written with st.
Settle(j) ==
    /\ pc[j] = "returned"
    /\ \E st \in IF ContextDone(j) THEN {"Killed"} ELSE {"Done", "Failed"} :
          outcome' = [outcome EXCEPT ![j] = st]
    /\ pc' = [pc EXCEPT ![j] = "settled"]
    /\ UNCHANGED <<managerVars, status, starter, monitor,
                   ctxVars, callerVars, readerVars>>

\* (mutant) no look at the destroy window
RecordKeepsNote(j) ==
    /\ pc[j] = "settled"
    /\ completed' = completed \cup {FinishedNote(j)}
    /\ pc' = [pc EXCEPT ![j] = "recorded"]
    /\ UNCHANGED <<seq, tracked, owner, destroying, bound, status,
                   starter, outcome, monitor, ctxVars, callerVars, readerVars>>

\* recordCompletion: queue the note unless the captured session is being destroyed.
Record(j) ==
    /\ pc[j] = "settled"
    /\ completed' = IF Suppressed(j) THEN completed
                    ELSE completed \cup {FinishedNote(j)}
    /\ dropped' = IF Suppressed(j) THEN dropped \cup {j} ELSE dropped
    /\ pc' = [pc EXCEPT ![j] = "recorded"]
    /\ UNCHANGED <<seq, tracked, owner, destroying, bound, status, starter,
                   outcome, monitor, ctxVars, callerVars, told, toldTo, seqAt>>

\* (mutant) the status becomes st even over a kill
PublishOverKill(j) ==
    /\ pc[j] = "recorded"
    /\ status' = [status EXCEPT ![j] = outcome[j]]
    /\ pc' = [pc EXCEPT ![j] = "published"]
    /\ UNCHANGED <<managerVars, starter, outcome, monitor,
                   ctxVars, callerVars, readerVars>>

\* The status becomes st, unless a concurrent kill already published Killed.
Publish(j) ==
    /\ pc[j] = "recorded"
    /\ status' = [status EXCEPT ![j] = IF @ = "Killed" THEN @ ELSE outcome[j]]
    /\ pc' = [pc EXCEPT ![j] = "published"]
    /\ UNCHANGED <<managerVars, starter, outcome, monitor,
                   ctxVars, callerVars, readerVars>>

\* close(j.done)
CloseDone(j) ==
    /\ pc[j] = "published"
    /\ pc' = [pc EXCEPT ![j] = "closed"]
    /\ UNCHANGED <<managerVars, status, starter, outcome, monitor,
                   ctxVars, callerVars, readerVars>>

-----------------------------------------------------------------------------
(* The stall monitor *)

\* The timer fired on a job that is still running: j.stalled = true, j.mu released.
MonitorFlags(j) ==
    /\ monitor[j] = "armed"
    /\ pc[j] = "run"
    /\ status[j] = "Running"
    /\ monitor' = [monitor EXCEPT ![j] = "flagged"]
    /\ UNCHANGED <<managerVars, status, pc, starter, outcome,
                   ctxVars, callerVars, readerVars>>

\* done is closed, or the timer fired on a job that returned or was killed.
MonitorExits(j) ==
    /\ monitor[j] = "armed"
    /\ pc[j] # "run" \/ status[j] # "Running"
    /\ monitor' = [monitor EXCEPT ![j] = "exited"]
    /\ UNCHANGED <<managerVars, status, pc, starter, outcome,
                   ctxVars, callerVars, readerVars>>

\* recordStalled: queue the warning unless the session is being destroyed.
RecordStalled(j) ==
    /\ monitor[j] = "flagged"
    /\ completed' = IF Suppressed(j) THEN completed
                    ELSE completed \cup {StalledNote(j)}
    /\ monitor' = [monitor EXCEPT ![j] = "exited"]
    /\ UNCHANGED <<seq, tracked, owner, destroying, bound, status, pc,
                   starter, outcome, ctxVars, callerVars, readerVars>>

-----------------------------------------------------------------------------
(* Killing and reading *)

\* (mutant) the status is flipped and the context is left alone
KillWithoutCancel(s, j) ==
    /\ j \in Visible(s)
    /\ status[j] = "Running"
    /\ status' = [status EXCEPT ![j] = "Killed"]
    /\ UNCHANGED <<managerVars, pc, starter, outcome, monitor,
                   ctxVars, callerVars, readerVars>>

\* KillForSession: a visible Running job becomes Killed at once, under j.mu.
Kill(s, j) ==
    /\ j \in Visible(s)
    /\ status[j] = "Running"
    /\ status' = [status EXCEPT ![j] = "Killed"]
    /\ toCancel' = toCancel \cup {j}
    /\ UNCHANGED <<managerVars, pc, starter, outcome, monitor,
                   cancelled, rootDone, callerVars, readerVars>>

\* The cancel function of a killed job, called after its lock is released.
CancelContext(j) ==
    /\ j \in toCancel
    /\ toCancel' = toCancel \ {j}
    /\ cancelled' = cancelled \cup {j}
    /\ UNCHANGED <<managerVars, jobVars, rootDone, callerVars, readerVars>>

ToldUpdate(notes, s) ==
    LET finished == {n.job : n \in {m \in notes : m.what = "finished"}} IN
    /\ told' = [j \in Jobs |-> IF j \in finished THEN told[j] + 1 ELSE told[j]]
    /\ toldTo' = [j \in Jobs |-> IF j \in finished THEN s ELSE toldTo[j]]

\* (mutant) the drained notes stay queued
DrainForgetsToClear(s) ==
    /\ \E n \in completed : Matches(s, n.session)
    /\ \A j \in Jobs : told[j] < 2
    /\ ToldUpdate({n \in completed : Matches(s, n.session)}, s)
    /\ UNCHANGED <<managerVars, jobVars, ctxVars, callerVars, dropped, seqAt>>

\* (mutant) a scoped drain takes every note
DrainIgnoresScope(s) ==
    /\ \E n \in completed : Matches(s, n.session)
    /\ completed' = {}
    /\ ToldUpdate(completed, s)
    /\ UNCHANGED <<seq, tracked, owner, destroying, bound,
                   jobVars, ctxVars, callerVars, dropped, seqAt>>

\* DrainCompletedNoteForSession: the turn of session s takes its own notes, the
\* unscoped reader takes them all.  A drain that finds nothing changes nothing.
Drain(s) ==
    LET mine == {n \in completed : Matches(s, n.session)} IN
    /\ mine # {}
    /\ completed' = completed \ mine
    /\ ToldUpdate(mine, s)
    /\ UNCHANGED <<seq, tracked, owner, destroying, bound,
                   jobVars, ctxVars, callerVars, dropped, seqAt>>

-----------------------------------------------------------------------------
(* Binding a session to its transcript *)

\* SetActiveSessionPath up to the first unlock.  When the session had no
\* directory and unscoped jobs exist, the call goes on to adopt them.  It does
\* not look at m.destroying: that no session is bound inside its destroy window is
\* up to the callers (MayRebind).
SetActiveSessionPath(s) ==
    /\ adopting = Unscoped
    /\ MayRebind \/ s \notin destroying
    /\ bound' = bound \cup {s}
    /\ adopting' = IF s \notin bound /\ \E j \in tracked : owner[j] = Unscoped
                   THEN s ELSE Unscoped
    /\ UNCHANGED <<seq, tracked, owner, completed, destroying,
                   jobVars, ctxVars, handle, destroyPC, destroys, closePC,
                   readerVars>>

\* adoptUnscopedJobsLocked, after the artifact migration, whether it succeeded
\* or not: queued unscoped notes and unscoped jobs now belong to the session.
AdoptUnscopedJobs ==
    /\ adopting # Unscoped
    /\ completed' = {IF n.session = Unscoped
                     THEN [n EXCEPT !.session = adopting] ELSE n : n \in completed}
    /\ owner' = [j \in Jobs |-> IF j \in tracked /\ owner[j] = Unscoped
                                THEN adopting ELSE owner[j]]
    /\ adopting' = Unscoped
    /\ UNCHANGED <<seq, tracked, destroying, bound,
                   jobVars, ctxVars, handle, destroyPC, destroys, closePC,
                   readerVars>>

-----------------------------------------------------------------------------
(* Destroying a session's jobs *)

LiveStatuses == {"Running", "Killed"}

\* (mutant) already killed jobs are not waited for
BeginDestroyMissesKilled(s) ==
    /\ destroyPC[s] = "idle"
    /\ destroys < MaxDestroys
    /\ destroys' = destroys + 1
    /\ MayRebind \/ adopting # s
    /\ destroying' = destroying \cup {s}
    /\ completed' = {n \in completed : n.session # s}
    /\ LET running == {j \in Visible(s) : status[j] = "Running"} IN
       /\ status' = [j \in Jobs |-> IF j \in running THEN "Killed" ELSE status[j]]
       /\ toCancel' = toCancel \cup running
       /\ handle' = [handle EXCEPT ![s] = running]
    /\ destroyPC' = [destroyPC EXCEPT ![s] = "waiting"]
    /\ dropped' = dropped \cup {n.job : n \in {m \in completed :
                                   m.session = s /\ m.what = "finished"}}
    /\ seqAt' = [seqAt EXCEPT ![s] = seq]
    /\ UNCHANGED <<seq, tracked, owner, bound, pc, starter, outcome,
                   monitor, cancelled, rootDone, adopting, closePC,
                   told, toldTo>>

\* (mutant) the contexts of the flipped jobs are left alone
BeginDestroyWithoutCancel(s) ==
    /\ destroyPC[s] = "idle"
    /\ destroys < MaxDestroys
    /\ destroys' = destroys + 1
    /\ MayRebind \/ adopting # s
    /\ destroying' = destroying \cup {s}
    /\ completed' = {n \in completed : n.session # s}
    /\ LET running == {j \in Visible(s) : status[j] = "Running"} IN
       /\ status' = [j \in Jobs |-> IF j \in running THEN "Killed" ELSE status[j]]
       /\ handle' = [handle EXCEPT ![s] = running]
    /\ destroyPC' = [destroyPC EXCEPT ![s] = "waiting"]
    /\ dropped' = dropped \cup {n.job : n \in {m \in completed :
                                   m.session = s /\ m.what = "finished"}}
    /\ seqAt' = [seqAt EXCEPT ![s] = seq]
    /\ UNCHANGED <<seq, tracked, owner, bound, pc, starter, outcome,
                   monitor, ctxVars, adopting, closePC,
                   told, toldTo>>

\* BeginDestroySession: drop the session's queued notes, flip its running jobs
\* to Killed, and return a handle on every job that may still be unwinding.
BeginDestroySession(s) ==
    /\ destroyPC[s] = "idle"
    /\ destroys < MaxDestroys
    /\ destroys' = destroys + 1
    /\ MayRebind \/ adopting # s
    /\ destroying' = destroying \cup {s}
    /\ completed' = {n \in completed : n.session # s}
    /\ LET running == {j \in Visible(s) : status[j] = "Running"} IN
       /\ status' = [j \in Jobs |-> IF j \in running THEN "Killed" ELSE status[j]]
       /\ toCancel' = toCancel \cup running
       /\ handle' = [handle EXCEPT
                       ![s] = {j \in Visible(s) : status[j] \in LiveStatuses}]
    /\ destroyPC' = [destroyPC EXCEPT ![s] = "waiting"]
    /\ dropped' = dropped \cup {n.job : n \in {m \in completed :
                                   m.session = s /\ m.what = "finished"}}
    /\ seqAt' = [seqAt EXCEPT ![s] = seq]
    /\ UNCHANGED <<seq, tracked, owner, bound, pc, starter, outcome,
                   monitor, cancelled, rootDone, adopting, closePC,
                   told, toldTo>>

\* FinishDestroySession.  Every caller first waits for the whole handle: a
\* WaitTeardown that times out is followed by WaitAll on the same channels.
FinishDestroySession(s) ==
    /\ destroyPC[s] = "waiting"
    /\ \A j \in handle[s] : IsDone(j)
    /\ destroying' = destroying \ {s}
    /\ bound' = bound \ {s}
    /\ tracked' = tracked \ Visible(s)
    /\ destroyPC' = [destroyPC EXCEPT ![s] = "idle"]
    /\ handle' = [handle EXCEPT ![s] = {}]
    /\ UNCHANGED <<seq, owner, completed, jobVars, ctxVars,
                   adopting, destroys, closePC, readerVars>>

-----------------------------------------------------------------------------
(* Shutting the manager down *)

\* (mutant) the root context survives the shutdown
CancelRootForgotten ==
    /\ MayClose
    /\ closePC = "open"
    /\ closePC' = "cancelled"
    /\ UNCHANGED <<managerVars, jobVars, ctxVars,
                   adopting, handle, destroyPC, destroys, readerVars>>

\* CloseWithGrace and CloseAsync: m.cancel().
CancelRoot ==
    /\ MayClose
    /\ closePC = "open"
    /\ rootDone' = TRUE
    /\ closePC' = "cancelled"
    /\ UNCHANGED <<managerVars, jobVars, toCancel, cancelled,
                   adopting, handle, destroyPC, destroys, readerVars>>

\* CloseWithGrace: closeTargets flips the unfinished Running jobs to Killed.
\* CloseAsync never takes this step.
CloseTargets ==
    /\ closePC = "cancelled"
    /\ status' = [j \in Jobs |->
                    IF j \in tracked /\ ~IsDone(j) /\ status[j] = "Running"
                    THEN "Killed" ELSE status[j]]
    /\ closePC' = "waiting"
    /\ UNCHANGED <<managerVars, pc, starter, outcome, monitor, ctxVars,
                   adopting, handle, destroyPC, destroys, readerVars>>

\* The wait group reached zero: every launched goroutine and monitor is over.
Unwound == \A j \in Jobs : /\ pc[j] \in {"absent", "registered", "closed"}
                           /\ monitor[j] \in {"off", "exited"}

\* m.wg.Wait returned (in time or not) and the temporary root is removed.
RemoveTempRoot ==
    /\ closePC \in {"cancelled", "waiting"}
    /\ Unwound
    /\ closePC' = "closed"
    /\ UNCHANGED <<managerVars, jobVars, ctxVars,
                   adopting, handle, destroyPC, destroys, readerVars>>

-----------------------------------------------------------------------------

GoroutineStep(j) ==
    \/ Launch(j) \/ Settle(j) \/ Record(j) \/ Publish(j) \/ CloseDone(j)

MonitorStep(j) == MonitorFlags(j) \/ MonitorExits(j) \/ RecordStalled(j)

Next ==
    \/ \E s \in StartScopes : Start(s)
    \/ \E s \in Scopes : Drain(s) \/ \E j \in Jobs : Kill(s, j)
    \/ \E j \in Jobs : \/ GoroutineStep(j) \/ RunReturns(j)
                       \/ MonitorStep(j) \/ CancelContext(j)
    \/ \E s \in Sessions : \/ SetActiveSessionPath(s)
                           \/ BeginDestroySession(s)
                           \/ FinishDestroySession(s)
    \/ AdoptUnscopedJobs
    \/ CancelRoot \/ CloseTargets \/ RemoveTempRoot

Spec == Init /\ [][Next]_vars

\* Goroutines are scheduled, a caller finishes the operation it began, and a run
\* function whose context is cancelled returns (bash jobs kill their process tree
\* and wait at most WaitDelay, task jobs poll the context).  Nothing obliges a job
\* to end by itself, nor anyone to kill, drain, switch, destroy or close.
CooperativeRun(j) == RunReturns(j) /\ ContextDone(j)

Fairness ==
    /\ \A j \in Jobs : /\ WF_vars(GoroutineStep(j))
                       /\ WF_vars(CooperativeRun(j))
                       /\ WF_vars(CancelContext(j))
                       /\ WF_vars(MonitorExits(j) \/ RecordStalled(j))
    /\ \A s \in Sessions : WF_vars(FinishDestroySession(s))
    /\ WF_vars(AdoptUnscopedJobs)
    /\ WF_vars(RemoveTempRoot)

FairSpec == Spec /\ Fairness
-----------------------------------------------------------------------------
(* Properties *)

TypeOK ==
    /\ seq \in 0..MaxJobs
    /\ tracked \subseteq Jobs
    /\ owner \in [Jobs -> Scopes]
    /\ completed \subseteq Notes
    /\ destroying \subseteq Sessions
    /\ bound \subseteq Sessions
    /\ status \in [Jobs -> Statuses]
    /\ pc \in [Jobs -> {"absent", "registered", "run", "returned", "settled",
                        "recorded", "published", "closed"}]
    /\ starter \in [Jobs -> Scopes]
    /\ outcome \in [Jobs -> Terminal \cup {"Running"}]
    /\ monitor \in [Jobs -> {"off", "armed", "flagged", "exited"}]
    /\ toCancel \subseteq Jobs
    /\ cancelled \subseteq Jobs
    /\ rootDone \in BOOLEAN
    /\ adopting \in Scopes
    /\ handle \in [Sessions -> SUBSET Jobs]
    /\ destroyPC \in [Sessions -> {"idle", "waiting"}]
    /\ destroys \in 0..MaxDestroys
    /\ closePC \in {"open", "cancelled", "waiting", "closed"}
    /\ told \in [Jobs -> Nat]
    /\ toldTo \in [Jobs -> Scopes]
    /\ dropped \subseteq Jobs
    /\ seqAt \in [Sessions -> 0..MaxJobs]

\* A status a reader saw as terminal never changes again, whatever kill, destroy
\* or shutdown races the goroutine's own publication (Publish against Kill).
TerminalIsFinal ==
    [][\A j \in Jobs : status[j] \in Terminal => status'[j] = status[j]]_vars

\* While a session is in its destroy window no note is queued under its id:
\* neither a completion, nor a stall warning, nor an adopted note slips back in
\* between BeginDestroySession and FinishDestroySession.
DestroyingIsQuiet == \A n \in completed : n.session \notin destroying

\* Once a job is past recordCompletion its note is queued, or was drained exactly
\* once, or went with a destroyed session: it is neither lost nor repeated, however
\* drains, adoptions and destroys interleave.
FinishedQueued(j) == \E n \in completed : n.what = "finished" /\ n.job = j
Recorded(j) == pc[j] \in {"recorded", "published", "closed"}

NoteAccountedFor ==
    \A j \in Jobs :
       /\ told[j] + (IF FinishedQueued(j) THEN 1 ELSE 0)
                  + (IF j \in dropped THEN 1 ELSE 0)
          = (IF Recorded(j) THEN 1 ELSE 0)

\* The note of a job that a session started is read by that session's turns, or by
\* the unscoped reader, and by no other session (DrainCompletedNoteForSession).
NoForeignReader ==
    \A j \in Jobs : told[j] > 0 /\ starter[j] # Unscoped
                    => toldTo[j] \in {starter[j], Unscoped}

\* A destroy handle covers every job the session owned when the destroy began and
\* that can still touch its artifacts: killed or running jobs that have not closed
\* done are targets, so the removal of the session's files that follows the wait
\* never meets one of them (BeginDestroySession collects Running and Killed).
DestroyHandleCovers ==
    \A s \in Sessions : destroyPC[s] = "waiting" =>
       \A j \in Visible(s) : j <= seqAt[s] =>
          j \in handle[s] \/ pc[j] \in {"published", "closed"}

\* A job that is shown as killed really ends, and closes its done channel.
KilledJobEnds ==
    \A j \in Jobs : status[j] = "Killed" ~> IsDone(j)

\* A session destroy always gets to its end.
DestroyEnds ==
    \A s \in Sessions : destroyPC[s] = "waiting" ~> destroyPC[s] = "idle"

\* A closed manager gets rid of every goroutine and then of its temporary root.
CloseEnds == closePC = "cancelled" ~> closePC = "closed"

\* Nothing that tears jobs down waits for ever: neither a kill, nor a session
\* destroy, nor a close, whichever of them meet on the same job.
TeardownEnds == KilledJobEnds /\ DestroyEnds /\ CloseEnds

(* What the repository says and the code does not do *)

\* "Recording first makes an observed terminal status imply the note is already
\* queued" (jobs.go, the goroutine of StartForSession).
TerminalImpliesRecorded ==
    \A j \in Jobs : status[j] \in Terminal => Recorded(j)

\* "a job that just finished keeps its real terminal status" (KillForSession): once
\* the goroutine has settled on Done or Failed, no kill turns that into Killed.
FinishedKeepsStatus ==
    [][\A j \in Jobs : outcome[j] \in {"Done", "Failed"} /\ status'[j] = "Killed"
          => status[j] = "Killed"]_vars

\* A stall warning is never queued for a job whose run has returned
\* (TestStalledWarningIgnoresReturnedJobBeforeTerminalStatusPublished).
NoFalseStallWarning ==
    [][\A j \in Jobs :
          StalledNote(j) \in completed' \ completed => pc[j] = "run"]_vars

\* A queued completion note is addressed to the session that owns its job, adopted
\* jobs included (DrainCompletedNoteForSession, adoptUnscopedJobsLocked).
NotesFollowAdoption ==
    \A n \in completed : n.what = "finished" => n.session = owner[n.job]

\* FinishDestroySession ends the window "after all owned jobs have unwound".
PurgeAfterUnwinding ==
    [][\A s \in Sessions : destroyPC[s] = "waiting" /\ destroyPC'[s] = "idle"
          => \A j \in Visible(s) : pc[j] \in {"published", "closed"}]_vars
=============================================================================
