---------------------------- MODULE SessionTrash ----------------------------
(***************************************************************************)
(* What becomes of the files of one session on the desktop: delete,        *)
(* restore, purge and clear (desktop/app.go, desktop/sessions.go), the     *)
(* autosaves that may still write to them (desktop/tabs.go, autosave in    *)
(* internal/control/controller.go), the background jobs of the session,    *)
(* and the cleanup marker that survives a crash (internal/agent/save.go).  *)
(*                                                                         *)
(* Files of different sessions are independent, so one session stands for  *)
(* any.  A step is one file operation or one section under a lock.  Its    *)
(* artifacts are the transcript, the files beside it (meta, goal state,    *)
(* telemetry, checkpoints, jobs) and the transcripts of its sub-agents.    *)
(***************************************************************************)
EXTENDS Naturals, Sequences

CONSTANTS
    Scenarios,   \* sets of the following; a behaviour picks one of them:
                 \*   crash    the process dies between two steps
                 \*   fail     moving an artifact fails
                 \*   rebuild  another tab of the directory is built
                 \*   late     a save that nobody waits for
                 \*   open     a delete begins while a tab is being opened
                 \*   overlap  a restore runs at the same time as another operation
                 \*   stuck    a cancelled turn needs more than five seconds
    MaxFault,    \* bound: crashes and failed moves
    MaxOpen      \* bound: how often the session is opened

ASSUME BoundAssumption == MaxFault \in Nat /\ MaxOpen \in Nat

Art    == {"transcript", "files", "subs"}
ArtSeq == <<"transcript", "files", "subs">>

VARIABLES
    on,          \* the scenario
    live,        \* artifacts in the session directory
    trash,       \* artifacts in the item directory of the session in .trash
    marker,      \* the cleanup-pending file: none, delete, clear
    tab,         \* closed, loaded (transcript read, not bound yet), open
    bound,       \* the controller's session path is this session
    turn,        \* a turn is running
    loop,        \* tabSnapshotLoop: idle, start, write, end
    again,       \* tab.saveAgain: a turn ended while the loop was running
    loopSet,     \* tab.saveCond was created, that is a snapshot loop has got that far
    closing,     \* tab.closing
    tick,        \* autosaveWhileRunning is between reading the path and writing
    job,         \* a background job of the session: none, running, saving
    destroying,  \* the job managers of the directory are in the destroy window
    pc,          \* where each operation is
    left,        \* artifacts the operation has yet to move or remove
    answered,    \* the delete under way was answered, or a later restore undid it
    wanted,      \* what the user was last told of the session: kept, trashed, restored
    erased,      \* the user purged or cleared it
    had,         \* artifacts the session has ever had
    faults,      \* crashes and failures so far
    opens        \* openings so far

disk    == <<on, live, trash, marker>>
saver   == <<loop, again, loopSet, closing, tick>>
runtime == <<tab, bound, turn, saver, job>>
told    == <<answered, wanted, erased, had, faults, opens>>
vars    == <<disk, runtime, destroying, pc, left, told>>

Op == {"delete", "restore", "clear", "reconcile"}

Init ==
  /\ on \in Scenarios
  /\ live = Art
  /\ had = Art
  /\ trash = {}
  /\ marker = "none"
  /\ tab = "closed" /\ bound = FALSE /\ turn = FALSE
  /\ loop = "idle" /\ again = FALSE /\ loopSet = FALSE /\ closing = FALSE
  /\ tick = FALSE
  /\ job = "none"
  /\ destroying = FALSE
  /\ pc = [o \in Op |-> "idle"]
  /\ left = [o \in Op |-> <<>>]
  /\ answered = FALSE
  /\ wanted = "kept"
  /\ erased = FALSE
  /\ faults = 0
  /\ opens = 0

Goto(o, where) == pc' = [pc EXCEPT ![o] = where]

\* None of the operations in O is under way, where that is assumed.
Alone(O) == "overlap" \in on \/ \A o \in O : pc[o] \in {"idle", "due"}

\* The session is in the list the user picks from.
Listed == "transcript" \in live /\ marker = "none"

-----------------------------------------------------------------------------
(* The tab of the session: opening, turns, autosaves, jobs.                *)

\* loadResumableSession: the transcript is read; the old controller of the
\* tab is still to be snapshotted and closed.
Load ==
  /\ tab = "closed"
  /\ Listed
  /\ opens < MaxOpen
  /\ opens' = opens + 1
  /\ ~turn /\ loop = "idle" /\ ~tick /\ job = "none"
  /\ pc["clear"] = "idle" /\ pc["delete"] = "idle"
  /\ tab' = "loaded"
  /\ UNCHANGED <<disk, bound, turn, saver, job, destroying, pc, left, answered, wanted,
                 erased, had, faults>>

\* The tab is bound to the session and its controller is built.
Bind ==
  /\ tab = "loaded"
  /\ "open" \in on \/ pc["delete"] = "idle"
  /\ IF marker = "none"
       THEN /\ tab' = "open" /\ bound' = TRUE
            /\ again' = FALSE /\ loopSet' = FALSE /\ closing' = FALSE
       ELSE tab' = "closed" /\ UNCHANGED <<bound, again, loopSet, closing>>
  /\ UNCHANGED <<disk, turn, loop, tick, job, destroying, pc, left, told>>

StartTurn ==
  /\ tab = "open" /\ bound /\ ~turn
  /\ turn' = TRUE
  /\ \/ UNCHANGED job
     \/ ~destroying /\ job = "none" /\ job' = "running"
  /\ UNCHANGED <<disk, tab, bound, saver, destroying, pc, left, told>>

\* The controller's own save: the path was read, the transcript is written.
Write(ok) ==
  /\ live' = IF ok THEN live \cup {"transcript"} ELSE live
  /\ had' = IF ok THEN had \cup {"transcript"} ELSE had

\* The turn ends, cancelled or not: it saves, then running goes down and
\* TurnDone starts the snapshot loop of the tab, if the tab is still there.
EndTurn ==
  /\ turn
  /\ turn' = FALSE
  /\ Write(bound)
  /\ LET schedule == tab = "open" /\ ~closing /\ pc["clear"] = "idle"
     IN  /\ loop' = IF schedule /\ loop = "idle" THEN "start" ELSE loop
         /\ again' = (again \/ (schedule /\ loop # "idle"))
  /\ UNCHANGED <<on, trash, marker, tab, bound, loopSet, closing, tick, job, destroying,
                 pc, left, answered, wanted, erased, faults, opens>>

\* tabSnapshotLoop reads the path; then it writes; then it is over.
LoopReads ==
  /\ loop = "start"
  /\ loop' = IF bound THEN "write" ELSE "end"
  /\ UNCHANGED <<disk, tab, bound, turn, again, loopSet, closing, tick, job, destroying,
                 pc, left, told>>

LoopWrites ==
  /\ loop = "write"
  /\ loop' = "end"
  /\ Write(TRUE)
  /\ UNCHANGED <<on, trash, marker, tab, bound, turn, again, loopSet, closing, tick,
                 job, destroying, pc, left, answered, wanted, erased, faults, opens>>

\* (mutant) The loop goes on while the tab is being torn down.
LoopEndsNever ==
  /\ loop = "end"
  /\ loop' = "start"
  /\ again' = FALSE
  /\ loopSet' = TRUE
  /\ UNCHANGED <<disk, tab, bound, turn, closing, tick, job, destroying, pc, left, told>>

LoopEnds ==
  /\ loop = "end"
  /\ loop' = IF again /\ ~closing THEN "start" ELSE "idle"
  /\ again' = FALSE
  /\ loopSet' = TRUE
  /\ UNCHANGED <<disk, tab, bound, turn, closing, tick, job, destroying, pc, left,
                 told>>

\* The periodic autosave of the controller, which nobody waits for.
TickReads ==
  /\ "late" \in on
  /\ turn /\ bound /\ ~tick
  /\ tick' = TRUE
  /\ UNCHANGED <<disk, tab, bound, turn, loop, again, loopSet, closing, job, destroying,
                 pc, left, told>>

TickWrites ==
  /\ tick
  /\ tick' = FALSE
  /\ Write(TRUE)
  /\ UNCHANGED <<on, trash, marker, tab, bound, turn, loop, again, loopSet, closing,
                 job, destroying, pc, left, answered, wanted, erased, faults, opens>>

\* A background sub-agent ends: it tests the destroy window, saves, is done.
JobTests ==
  /\ job = "running"
  /\ job' = IF destroying THEN "none" ELSE "saving"
  /\ UNCHANGED <<disk, tab, bound, turn, saver, destroying, pc, left, told>>

JobSaves ==
  /\ job = "saving"
  /\ job' = "none"
  /\ live' = live \cup {"subs"}
  /\ had' = had \cup {"subs"}
  /\ UNCHANGED <<on, trash, marker, tab, bound, turn, saver, destroying, pc, left,
                 answered, wanted, erased, faults, opens>>

-----------------------------------------------------------------------------
(* Moving and removing the artifacts, one by one.                          *)

Next1(o) == Head(left[o])
Advance(o) == left' = [left EXCEPT ![o] = Tail(@)]

\* movePathIfExists cannot rename a directory over another one.
CanMove(a, from, to) == ~(a = "files" /\ a \in from /\ a \in to)

MoveToTrash(o) ==
  /\ left[o] # <<>>
  /\ CanMove(Next1(o), live, trash)
  /\ live' = live \ {Next1(o)}
  /\ trash' = trash \cup ({Next1(o)} \cap live)
  /\ Advance(o)

MoveBack ==
  /\ left["restore"] # <<>>
  /\ CanMove(Next1("restore"), trash, live)
  /\ trash' = trash \ {Next1("restore")}
  /\ live' = live \cup ({Next1("restore")} \cap trash)
  /\ Advance("restore")

Remove(o) ==
  /\ left[o] # <<>>
  /\ live' = live \ {Next1(o)}
  /\ Advance(o)
  /\ UNCHANGED trash

\* The move of the next artifact fails.
MoveFails(o, from, to) ==
  /\ left[o] # <<>>
  /\ Next1(o) \in from
  /\ \/ ~CanMove(Next1(o), from, to) /\ UNCHANGED faults
     \/ "fail" \in on /\ faults < MaxFault /\ faults' = faults + 1

-----------------------------------------------------------------------------
(* DeleteSession                                                           *)

AskDelete ==
  /\ pc["delete"] = "idle"
  /\ Listed
  /\ "transcript" \notin trash
  /\ "open" \in on \/ tab # "loaded"
  /\ Alone({"restore"})
  /\ Goto("delete", "unbind")
  /\ wanted' = "kept"
  /\ UNCHANGED <<disk, runtime, destroying, left, answered, erased, had, faults, opens>>

\* removeSessionRuntimeBindings, and Cancel when a turn is running.
Unbind ==
  /\ pc["delete"] = "unbind"
  /\ Goto("delete", IF tab = "open" THEN "stop" ELSE "destroy")
  /\ tab' = IF tab = "open" THEN "closed" ELSE tab
  /\ UNCHANGED <<disk, bound, turn, saver, job, destroying, left, told>>

\* waitControllerStopped, then Snapshot; or it gives up after five seconds.
Stop ==
  /\ pc["delete"] = "stop"
  /\ \/ ~turn /\ Goto("delete", "release") /\ Write(bound)
     \/ "stuck" \in on /\ turn /\ Goto("delete", "idle") /\ UNCHANGED <<live, had>>
  /\ UNCHANGED <<on, trash, marker, runtime, destroying, left, answered, wanted, erased,
                 faults, opens>>

\* SetSessionPath("").
Release ==
  /\ pc["delete"] = "release"
  /\ bound' = FALSE
  /\ Goto("delete", "quiesce")
  /\ UNCHANGED <<disk, tab, turn, saver, job, destroying, left, told>>

\* (mutant) The files are moved while a loop is at work.
QuiesceAtOnce ==
  /\ pc["delete"] = "quiesce"
  /\ closing' = TRUE
  /\ Goto("delete", "destroy")
  /\ UNCHANGED <<disk, tab, bound, turn, loop, again, loopSet, tick, job, destroying, left,
                 told>>

\* quiesceTabAutosave waits for a snapshot loop, if the condition variable
\* exists, which the loop creates after its first write.
Quiesce ==
  /\ pc["delete"] = "quiesce"
  /\ closing' = TRUE
  /\ loopSet \/ loop = "idle" \/ "late" \in on
  /\ Goto("delete", IF loopSet THEN "drain" ELSE "destroy")
  /\ UNCHANGED <<disk, tab, bound, turn, loop, again, loopSet, tick, job, destroying,
                 left, told>>

Drain ==
  /\ pc["delete"] = "drain"
  /\ loop = "idle"
  /\ Goto("delete", "destroy")
  /\ UNCHANGED <<disk, runtime, destroying, left, told>>

\* destroyHandlesForSession: the jobs are cancelled.
BeginDestroy ==
  /\ pc["delete"] = "destroy"
  /\ destroying' = TRUE
  /\ answered' = FALSE
  /\ Goto("delete", "wait")
  /\ UNCHANGED <<disk, runtime, left, wanted, erased, had, faults, opens>>

\* Wait: the jobs have unwound, or the grace period is over.  Then the
\* session is marked and the rest happens in the background.
WaitJobs ==
  /\ pc["delete"] = "wait"
  /\ \/ /\ job = "none"
        /\ Goto("delete", "prepare")
        /\ UNCHANGED <<marker, answered, wanted>>
     \/ /\ job # "none"
        /\ marker' = "delete"
        /\ answered' = TRUE
        /\ wanted' = "trashed"
        /\ Goto("delete", "waitAll")
  /\ UNCHANGED <<on, live, trash, runtime, destroying, left, erased, had, faults,
                 opens>>

WaitAllJobs ==
  /\ pc["delete"] = "waitAll"
  /\ job = "none"
  /\ Goto("delete", "prepare")
  /\ UNCHANGED <<disk, runtime, destroying, left, told>>

\* The answer of a delete that did not time out.
TellTrashed == wanted' = IF answered THEN wanted ELSE "trashed"

\* validateSessionTrashTarget and prepareSessionTrashTarget.
Prepare ==
  /\ pc["delete"] = "prepare"
  /\ \/ /\ "transcript" \notin live
        /\ Goto("delete", "done")
        /\ TellTrashed
        /\ UNCHANGED <<disk, left>>
     \/ /\ "transcript" \in live \cap trash
        /\ Goto("delete", IF marker = "none" THEN "failed" ELSE "done")
        /\ live' = IF marker = "none" THEN live ELSE {}
        /\ marker' = "none"
        /\ IF marker = "none" THEN UNCHANGED wanted ELSE TellTrashed
        /\ UNCHANGED <<trash, left>>
     \/ /\ "transcript" \in live \ trash
        /\ trash' = {}
        /\ left' = [left EXCEPT !["delete"] = ArtSeq]
        /\ Goto("delete", "move")
        /\ UNCHANGED <<live, marker, wanted>>
  /\ UNCHANGED <<on, runtime, destroying, answered, erased, had, faults, opens>>

MoveOut ==
  /\ pc["delete"] = "move"
  /\ \/ /\ MoveToTrash("delete")
        /\ UNCHANGED <<pc, marker, wanted, faults>>
     \/ /\ MoveFails("delete", live, trash)
        /\ Goto("delete", "failed")
        /\ left' = [left EXCEPT !["delete"] = <<>>]
        /\ UNCHANGED <<disk, wanted>>
     \/ /\ left["delete"] = <<>>
        /\ marker' = "none"
        /\ Goto("delete", "done")
        /\ TellTrashed
        /\ UNCHANGED <<live, trash, left, faults>>
  /\ UNCHANGED <<on, runtime, destroying, answered, erased, had, opens>>

\* finishDestroyHandles.
FinishDelete ==
  /\ pc["delete"] \in {"done", "failed"}
  /\ destroying' = FALSE
  /\ Goto("delete", "idle")
  /\ UNCHANGED <<disk, runtime, left, told>>

-----------------------------------------------------------------------------
(* RestoreSession and PurgeTrashedSession                                  *)

\* sessionDestroying asks the controllers of the open tabs, of which there
\* may be none; sessionOpen refuses the session of an open tab.
AskRestore ==
  /\ pc["restore"] = "idle"
  /\ "transcript" \in trash
  /\ Alone(Op)
  /\ tab # "open"
  /\ wanted' = "kept"
  /\ answered' = TRUE
  /\ Goto("restore", "target")
  /\ UNCHANGED <<disk, runtime, destroying, left, erased, had, faults, opens>>

\* A live session in the way is discarded if it is pending cleanup.
Target ==
  /\ pc["restore"] = "target"
  /\ LET discard == "transcript" \in live /\ marker # "none"
         kept    == IF discard THEN {} ELSE live
         blocked == "transcript" \in kept \/ "subs" \in kept \cap trash
     IN  /\ live' = kept
         /\ marker' = IF discard THEN "none" ELSE marker
         /\ Goto("restore", IF blocked THEN "idle" ELSE "move")
         /\ left' = [left EXCEPT !["restore"] = IF blocked THEN <<>> ELSE ArtSeq]
  /\ UNCHANGED <<on, trash, runtime, destroying, told>>

\* (mutant) The item directory is removed before the sub-agents moved.
MoveInForgetsSubs ==
  /\ pc["restore"] = "move"
  /\ \/ /\ MoveBack
        /\ UNCHANGED <<pc, wanted, faults>>
     \/ /\ left["restore"] \in {<<>>, <<"subs">>}
        /\ trash' = {}
        /\ Goto("restore", "idle")
        /\ wanted' = "restored"
        /\ UNCHANGED <<live, left, faults>>
  /\ UNCHANGED <<on, marker, runtime, destroying, answered, erased, had, opens>>

MoveIn ==
  /\ pc["restore"] = "move"
  /\ \/ /\ MoveBack
        /\ UNCHANGED <<pc, wanted, faults>>
     \/ /\ MoveFails("restore", trash, live)
        /\ Goto("restore", "idle")
        /\ left' = [left EXCEPT !["restore"] = <<>>]
        /\ UNCHANGED <<live, trash, wanted>>
     \/ /\ left["restore"] = <<>>
        /\ trash' = {}
        /\ Goto("restore", "idle")
        /\ wanted' = "restored"
        /\ UNCHANGED <<live, left, faults>>
  /\ UNCHANGED <<on, marker, runtime, destroying, answered, erased, had, opens>>

Purge ==
  /\ "transcript" \in trash
  /\ trash' = {}
  /\ erased' = TRUE
  /\ UNCHANGED <<on, live, marker, runtime, destroying, pc, left, answered, wanted, had,
                 faults, opens>>

-----------------------------------------------------------------------------
(* ClearSession of a tab whose session has work under way                  *)

AskClear ==
  /\ pc["clear"] = "idle"
  /\ tab = "open" /\ (turn \/ job # "none")
  /\ pc["delete"] = "idle"
  /\ Goto("clear", "stop")
  /\ UNCHANGED <<disk, runtime, destroying, left, told>>

\* waitControllerStopped; BeginDestroySession; Wait; the marker.
StopForClear ==
  /\ pc["clear"] = "stop"
  /\ \/ ~turn /\ Goto("clear", "wait") /\ destroying' = TRUE
     \/ "stuck" \in on /\ turn /\ Goto("clear", "idle") /\ UNCHANGED destroying
  /\ UNCHANGED <<disk, runtime, left, told>>

\* The new controller is built in the same directory, which reconciles it.
WaitForClear ==
  /\ pc["clear"] = "wait"
  /\ pc["reconcile"] = "idle"
  /\ marker' = IF job = "none" THEN marker ELSE "clear"
  /\ erased' = TRUE
  /\ tab' = "closed"
  /\ pc' = [pc EXCEPT !["clear"] = "waitAll", !["reconcile"] = "due"]
  /\ UNCHANGED <<on, live, trash, bound, turn, saver, job, destroying, left, answered,
                 wanted, had, faults, opens>>

WaitAllForClear ==
  /\ pc["clear"] = "waitAll"
  /\ job = "none"
  /\ pc["reconcile"] = "idle"
  /\ left' = [left EXCEPT !["clear"] = ArtSeq]
  /\ Goto("clear", "remove")
  /\ UNCHANGED <<disk, runtime, destroying, told>>

\* removeDesktopSessionArtifacts, then Finish.
Erase ==
  /\ pc["clear"] = "remove"
  /\ \/ Remove("clear") /\ UNCHANGED <<marker, pc, destroying>>
     \/ /\ left["clear"] = <<>>
        /\ marker' = "none"
        /\ destroying' = FALSE
        /\ Goto("clear", "idle")
        /\ UNCHANGED <<live, trash, left>>
  /\ UNCHANGED <<on, runtime, told>>

-----------------------------------------------------------------------------
(* Reconciliation when a controller is built, and crashes                  *)

BuildAnother ==
  /\ "rebuild" \in on
  /\ pc["reconcile"] = "idle"
  /\ marker # "none"
  /\ Goto("reconcile", "due")
  /\ UNCHANGED <<disk, runtime, destroying, left, told>>

\* reconcileDesktopCleanupPending reads the marker.
ReadMarker ==
  /\ pc["reconcile"] = "due"
  /\ Alone({"restore"})
  /\ Goto("reconcile", IF marker = "none" THEN "idle" ELSE marker)
  /\ left' = [left EXCEPT !["reconcile"] = IF marker = "none" THEN <<>> ELSE ArtSeq]
  /\ UNCHANGED <<disk, runtime, destroying, told>>

Reconcile ==
  /\ pc["reconcile"] \in {"delete", "clear"}
  /\ \/ /\ IF pc["reconcile"] = "delete" THEN MoveToTrash("reconcile")
                                        ELSE Remove("reconcile")
        /\ UNCHANGED <<marker, pc, faults>>
     \/ /\ pc["reconcile"] = "delete"
        /\ MoveFails("reconcile", live, trash)
        /\ Goto("reconcile", "idle")
        /\ left' = [left EXCEPT !["reconcile"] = <<>>]
        /\ UNCHANGED disk
     \/ /\ left["reconcile"] = <<>>
        /\ marker' = "none"
        /\ Goto("reconcile", "idle")
        /\ UNCHANGED <<live, trash, left, faults>>
  /\ UNCHANGED <<on, runtime, destroying, answered, wanted, erased, had, opens>>

\* The process dies; the next one builds its first tab of the directory
\* some time after it has started.
Crash ==
  /\ "crash" \in on
  /\ faults < MaxFault
  /\ faults' = faults + 1
  /\ tab' = "closed" /\ bound' = FALSE /\ turn' = FALSE
  /\ loop' = "idle" /\ again' = FALSE /\ loopSet' = FALSE /\ closing' = FALSE
  /\ tick' = FALSE
  /\ job' = "none"
  /\ destroying' = FALSE
  /\ pc' = [o \in Op |-> IF o = "reconcile" THEN "due" ELSE "idle"]
  /\ left' = [o \in Op |-> <<>>]
  /\ answered' = FALSE
  /\ UNCHANGED <<disk, wanted, erased, had, opens>>

-----------------------------------------------------------------------------
Saver  == LoopReads \/ LoopWrites \/ LoopEnds
Job    == JobTests \/ JobSaves
Delete == Unbind \/ Stop \/ Release \/ Quiesce \/ Drain \/ BeginDestroy \/ WaitJobs
          \/ WaitAllJobs \/ Prepare \/ MoveOut \/ FinishDelete
Restore == Target \/ MoveIn
Clear  == StopForClear \/ WaitForClear \/ WaitAllForClear \/ Erase
Boot   == ReadMarker \/ Reconcile

Next ==
  \/ Load \/ Bind \/ StartTurn \/ EndTurn \/ TickReads \/ TickWrites \/ Saver \/ Job
  \/ AskDelete \/ Delete \/ AskRestore \/ Restore \/ Purge \/ AskClear \/ Clear
  \/ BuildAnother \/ Boot \/ Crash

\* Goroutines are scheduled, and turns and cancelled jobs end.
Fairness == WF_vars(EndTurn) /\ WF_vars(Saver) /\ WF_vars(Job) /\ WF_vars(Delete)

Spec == Init /\ [][Next]_vars
FairSpec == Spec /\ Fairness

-----------------------------------------------------------------------------
\* Where each operation may be, and what it may have yet to move.
Deleting    == {"idle", "unbind", "stop", "release", "quiesce", "drain", "destroy", "wait",
                "waitAll", "prepare", "move", "done", "failed"}
Restoring   == {"idle", "target", "move"}
Clearing    == {"idle", "stop", "wait", "waitAll", "remove"}
Reconciling == {"idle", "due", "delete", "clear"}
Suffix      == {ArtSeq, <<"files", "subs">>, <<"subs">>, <<>>}

Flags ==
  /\ bound \in BOOLEAN /\ turn \in BOOLEAN /\ again \in BOOLEAN /\ loopSet \in BOOLEAN
  /\ closing \in BOOLEAN /\ tick \in BOOLEAN /\ destroying \in BOOLEAN
  /\ answered \in BOOLEAN /\ erased \in BOOLEAN

TypeOK ==
  /\ on \in Scenarios
  /\ live \subseteq Art /\ trash \subseteq Art /\ had \subseteq Art
  /\ marker \in {"none", "delete", "clear"}
  /\ tab \in {"closed", "loaded", "open"}
  /\ loop \in {"idle", "start", "write", "end"}
  /\ job \in {"none", "running", "saving"}
  /\ Flags
  /\ pc \in [Op -> Deleting \cup Restoring \cup Clearing \cup Reconciling]
  /\ pc["delete"] \in Deleting /\ pc["restore"] \in Restoring
  /\ pc["clear"] \in Clearing /\ pc["reconcile"] \in Reconciling
  /\ left \in [Op -> Suffix]
  /\ wanted \in {"kept", "trashed", "restored"}
  /\ faults \in 0 .. MaxFault
  /\ opens \in 0 .. MaxOpen

\* Nothing but a purge or a clear destroys what belongs to a session: no
\* delete, restore or reconciliation in any order, with jobs and saves that
\* end late, leaves an artifact in neither place.  After a crash or a failed
\* move in the middle that holds of the conversation only.
NothingLost ==
  (IF faults = 0 THEN had ELSE {"transcript"}) \subseteq live \cup trash \/ erased

\* Once a delete was answered the session does not come back to the list by
\* itself: "so autosave cannot recreate or append to the deleted file".
DeletedStaysDeleted == wanted = "trashed" => ~Listed \/ erased

\* It holds when every save is waited for: no save of a finished turn that
\* was under way already, no tab half opened, no turn beyond five seconds.
DeletedStaysIfSettled == on \cap {"late", "open", "stuck"} = {} => DeletedStaysDeleted

\* A delete comes to its end: it waits for the turn, the snapshot loop and
\* the jobs, none of which waits for it.
DeleteEnds == pc["delete"] # "idle" ~> pc["delete"] = "idle"

\* Everything that belongs to a session survives a crash or a failed move.
EverythingKept == had \subseteq live \cup trash \/ erased

\* The same of the conversation when a restore runs beside another operation.
TranscriptKept == "transcript" \in live \cup trash \/ erased

\* A session the user restored is in the list again.
RestoredIsListed ==
  wanted = "restored" => Listed \/ erased

\* Files are moved or removed only after the jobs that write to them ended.
JobsUnwound ==
  [][job # "none" => live \subseteq live']_vars
=============================================================================
