----------------------------- MODULE AcpService -----------------------------
(***************************************************************************)
(* One session id of the ACP agent (internal/acp/service.go,               *)
(* internal/acp/server.go): the requests an editor sends over stdio, each  *)
(* handled on a goroutine of its own, the acpSession objects that have     *)
(* been registered under the id, the controllers built for them, the       *)
(* transcript and the cleanup marker on disk.                              *)
(*                                                                         *)
(* A request is its position in the order the client sent them; a prompt   *)
(* leaves its number in the conversation, a switch its number as the model *)
(* or effort it asks for.  A transcript without a prompt has no file.      *)
(* session/new gives every session a fresh id, so the id starts with the   *)
(* object and the controller session/new made.                             *)
(***************************************************************************)
EXTENDS Naturals, FiniteSets

CONSTANTS
    MaxRequests,    \* bound: requests the client sends
    MaxAsks,        \* bound: permission requests sent back to the client
    MaxJobs,        \* bound: background jobs the turns leave
    Kinds,          \* the requests it may send
    Alone,          \* those it sends with nothing outstanding, and waits for
    MayFail         \* what may fail: "build" (the factory), "save" (the transcript of
                    \* a switch, the metadata of a load), "mark" (the cleanup marker)

Request == 1 .. MaxRequests
Built   == 1 .. MaxRequests + 1     \* every request builds at most one
Switch  == {"model", "effort"}
None    == [model |-> 0, effort |-> 0]
First   == [model |-> 1, effort |-> 1]
At(r)   == r + 1                    \* the value request r asks for

VARIABLES
    sent, kind,             \* requests received, and what they are
    pc, obj, want, owner,   \* handler: where, its session, its config, whose turn it waits for
    live,                   \* service.sessions[id], or 0
    ctrl, config, pending,  \* per acpSession: ctrl, model and effort, pendingConfig
    running, deleted,       \* per acpSession: the prompt that holds it or 0; deleted
    cancelled,              \* prompts whose turn context is done
    asking,                 \* prompts that wait for session/request_permission
    opened, built, closed,  \* acpSessions made; controllers made, closed
    history, jobs,          \* per controller: prompts it knows; it has a background job
    file, marked,           \* the transcript; cleanup pending
    eof, served,            \* the input has ended; Serve has returned
    \* history
    asked, left,            \* permission requests, background jobs so far
    told,                   \* prompts whose turn has ended in the conversation
    accepted,               \* switches answered without an error
    erased, failed          \* the files were deleted; what failed for a switch or a delete

client  == <<sent, kind, eof>>
handler == <<pc, obj, want, owner>>
object  == <<live, ctrl, config, pending, running, deleted, opened>>
turn    == <<cancelled, asking, asked>>
core    == <<built, closed, history, jobs, left>>
disk    == <<file, marked, erased>>
notes   == <<told, accepted, failed>>
vars    == <<client, handler, object, turn, core, disk, served, notes>>

Init ==
  /\ sent = 0 /\ kind = [r \in Request |-> "none"] /\ eof = FALSE /\ served = FALSE
  /\ pc = [r \in Request |-> "none"] /\ obj = [r \in Request |-> 0]
  /\ want = [r \in Request |-> None] /\ owner = [r \in Request |-> 0]
  /\ live = 1 /\ opened = 1 /\ built = 1 /\ closed = {}
  /\ ctrl = [o \in Built |-> IF o = 1 THEN 1 ELSE 0]
  /\ config = [o \in Built |-> First] /\ pending = [o \in Built |-> None]
  /\ running = [o \in Built |-> 0] /\ deleted = {}
  /\ cancelled = {} /\ asking = {} /\ asked = 0
  /\ history = [c \in Built |-> {}] /\ jobs = {} /\ left = 0
  /\ file = {} /\ marked = FALSE /\ erased = FALSE
  /\ told = {} /\ accepted = {} /\ failed = {}

Goes(r, place)  == pc' = [pc EXCEPT ![r] = place]
Finds(r, o, place) ==
  /\ obj' = [obj EXCEPT ![r] = o]
  /\ Goes(r, place)
  /\ UNCHANGED <<want, owner>>
Ends(r) == Goes(r, "answered") /\ UNCHANGED <<obj, want, owner>>

Answered(r)  == pc[r] \in {"answered", "later"}
Quiet        == \A r \in 1 .. sent : Answered(r)
Cancelled(r) == r \in cancelled \/ eof
Ctrl(r)      == ctrl[obj[r]]
Written(h)   == IF h = {} THEN file ELSE h      \* Controller.Snapshot

-----------------------------------------------------------------------------
(* The connection.                                                         *)

\* Conn.dispatch
Receive(k) ==
  /\ sent < MaxRequests /\ ~eof
  /\ k \in Alone => Quiet
  /\ \A r \in 1 .. sent : kind[r] \in Alone => Answered(r)
  /\ sent' = sent + 1
  /\ kind' = [kind EXCEPT ![sent'] = k]
  /\ Goes(sent', "start")
  /\ UNCHANGED <<eof, obj, want, owner, object, turn, core, disk, served, notes>>

\* The read loop ends: every handler's context is done.
HangUp ==
  /\ ~eof
  /\ eof' = TRUE
  /\ UNCHANGED <<sent, kind, handler, object, turn, core, disk, served, notes>>

\* wg.Wait, shutdown and closeAll.
ServeReturns ==
  /\ eof /\ ~served /\ Quiet
  /\ served' = TRUE
  /\ live' = 0
  /\ IF live = 0 THEN UNCHANGED <<closed, jobs>>
     ELSE closed' = closed \cup {ctrl[live]} /\ jobs' = jobs \ {ctrl[live]}
  /\ UNCHANGED <<client, handler, ctrl, config, pending, running, deleted, opened, turn, built,
                 history, left, disk, notes>>

-----------------------------------------------------------------------------
(* session/prompt, session/cancel                                          *)

Starts(r, k) == pc[r] = "start" /\ kind[r] = k

LookPrompt(r) ==
  /\ Starts(r, "prompt")
  /\ IF live = 0 THEN Ends(r) ELSE Finds(r, live, "begin")
  /\ UNCHANGED <<client, object, turn, core, disk, served, notes>>

\* acpSession.begin
Begin(r) ==
  /\ pc[r] = "begin"
  /\ IF running[obj[r]] # 0 \/ obj[r] \in deleted
       THEN Goes(r, "answered") /\ UNCHANGED running
       ELSE Goes(r, "turn") /\ running' = [running EXCEPT ![obj[r]] = r]
  /\ UNCHANGED <<client, obj, want, owner, live, ctrl, config, pending, deleted, opened, turn, core,
                 disk, served, notes>>

\* requestPermission or requestAsk: the turn waits for the client.
Ask(r) ==
  /\ pc[r] = "turn" /\ r \notin asking /\ ~Cancelled(r)
  /\ asked < MaxAsks
  /\ asked' = asked + 1
  /\ asking' = asking \cup {r}
  /\ UNCHANGED <<client, handler, object, cancelled, core, disk, served, notes>>

\* The client replies, or the turn's context ends the request.
Reply(r) ==
  /\ r \in asking
  /\ ~Cancelled(r)
  /\ asking' = asking \ {r}
  /\ UNCHANGED <<client, handler, object, cancelled, asked, core, disk, served, notes>>

StopAsking(r) ==
  /\ r \in asking
  /\ Cancelled(r)
  /\ asking' = asking \ {r}
  /\ UNCHANGED <<client, handler, object, cancelled, asked, core, disk, served, notes>>

\* Controller.RunTurn returns; it has saved what it added.  A turn that was
\* cancelled early may have added nothing.
TurnEnds(r) ==
  /\ pc[r] = "turn" /\ r \notin asking
  /\ \/ history' = [history EXCEPT ![Ctrl(r)] = @ \cup {r}]
     \/ Cancelled(r) /\ UNCHANGED history
  /\ file' = Written(history'[Ctrl(r)])
  /\ \/ UNCHANGED <<jobs, left>>
     \/ left < MaxJobs /\ left' = left + 1 /\ jobs' = jobs \cup {Ctrl(r)}
  /\ Goes(r, "persist")
  /\ UNCHANGED <<client, obj, want, owner, object, turn, built, closed, marked, erased, served,
                 notes>>

\* persistAfterTurn
Persist(r) ==
  /\ pc[r] = "persist"
  /\ file' = IF obj[r] \in deleted THEN file ELSE Written(history[Ctrl(r)])
  /\ Goes(r, "finish")
  /\ UNCHANGED <<client, obj, want, owner, object, turn, core, marked, erased, served, notes>>

\* (mutant) What was queued during the turn is not looked at.
FinishForgets(r) ==
  /\ pc[r] = "finish"
  /\ running' = [running EXCEPT ![obj[r]] = 0]
  /\ Goes(r, "answered")
  /\ told' = told \cup ({r} \cap history[Ctrl(r)])
  /\ UNCHANGED <<client, obj, want, owner, live, ctrl, config, pending, deleted, opened, turn, core,
                 disk, served, accepted, failed>>

\* acpSession.finish
Finish(r) ==
  /\ pc[r] = "finish"
  /\ running' = [running EXCEPT ![obj[r]] = 0]
  /\ Goes(r, "apply")
  /\ told' = told \cup ({r} \cap history[Ctrl(r)])
  /\ UNCHANGED <<client, obj, want, owner, live, ctrl, config, pending, deleted, opened, turn, core,
                 disk, served, accepted, failed>>

\* applyPendingSessionConfig asks whether the session is still registered,
Apply(r) ==
  /\ pc[r] = "apply"
  /\ Goes(r, IF live = obj[r] THEN "take" ELSE "answered")
  /\ UNCHANGED <<client, obj, want, owner, object, turn, core, disk, served, notes>>

\* and takes what was queued under the session's lock.
TakePending(r) ==
  /\ pc[r] = "take"
  /\ LET o == obj[r]
     IN  IF o \in deleted \/ pending[o] = None
           THEN Goes(r, "answered") /\ UNCHANGED <<want, pending>>
           ELSE /\ want' = [want EXCEPT ![r] = pending[o]]
                /\ pending' = [pending EXCEPT ![o] = None]
                /\ Goes(r, "rebuild")
  /\ UNCHANGED <<client, obj, owner, live, ctrl, config, running, deleted, opened, turn, core, disk,
                 served, notes>>

CancelTurn(r) ==
  /\ Starts(r, "cancel")
  /\ cancelled' = IF live = 0 THEN cancelled ELSE cancelled \cup ({running[live]} \ {0})
  /\ Ends(r)
  /\ UNCHANGED <<client, object, asking, asked, core, disk, served, notes>>

-----------------------------------------------------------------------------
(* session/set_model, session/set_config_option                            *)

LookSwitch(r) ==
  /\ pc[r] = "start" /\ kind[r] \in Switch
  /\ IF live = 0 THEN Ends(r) ELSE Finds(r, live, "compute")
  /\ UNCHANGED <<client, object, turn, core, disk, served, notes>>

\* configStateParams, with the new value of one of the two.
Compute(r) ==
  /\ pc[r] = "compute"
  /\ want' = [want EXCEPT ![r] = [config[obj[r]] EXCEPT ![kind[r]] = At(r)]]
  /\ Goes(r, "rebuild")
  /\ UNCHANGED <<client, obj, owner, object, turn, core, disk, served, notes>>

Accepts(r) == accepted' = IF kind[r] \in Switch THEN accepted \cup {r} ELSE accepted

\* rebuildSession, which holds the session's lock to the end.
Refused(o) == \/ o \in deleted
              \/ running[o] \in asking
              \/ running[o] = 0 /\ ctrl[o] \in jobs

RefuseRebuild(r) ==
  /\ pc[r] = "rebuild" /\ Refused(obj[r])
  /\ Goes(r, "answered")
  /\ UNCHANGED <<client, obj, want, owner, object, turn, core, disk, served, notes>>

QueueRebuild(r) ==
  /\ pc[r] = "rebuild" /\ ~Refused(obj[r])
  /\ running[obj[r]] # 0
  /\ pending' = [pending EXCEPT ![obj[r]] = want[r]]
  /\ Accepts(r)
  /\ Goes(r, "answered")
  /\ UNCHANGED <<client, obj, want, owner, live, ctrl, config, running, deleted, opened, turn, core,
                 disk, served, told, failed>>

\* (mutant) The new controller starts afresh.
AdoptsNothing(r) == {}

\* Controller.AdoptHistory
Adopts(r) == history[Ctrl(r)]

\* (mutant) The old controller is left open.
ReleasesNothing(r) == closed

\* Controller.ReleaseResources
Releases(r) == closed \cup {Ctrl(r)}

Rebuild(r) ==
  /\ pc[r] = "rebuild" /\ ~Refused(obj[r])
  /\ running[obj[r]] = 0
  /\ pending' = [pending EXCEPT ![obj[r]] = None]
  /\ file' = Written(history[Ctrl(r)])
  /\ built' = built + 1
  /\ ctrl' = [ctrl EXCEPT ![obj[r]] = built']
  /\ config' = [config EXCEPT ![obj[r]] = want[r]]
  /\ history' = [history EXCEPT ![built'] = Adopts(r)]
  /\ closed' = Releases(r)
  /\ Accepts(r)
  /\ Goes(r, "answered")
  /\ UNCHANGED <<client, obj, want, owner, live, running, deleted, opened, turn, jobs, left, marked,
                 erased, served, told, failed>>

\* Snapshot or the factory returns an error.
RebuildFails(r) ==
  /\ pc[r] = "rebuild" /\ ~Refused(obj[r])
  /\ running[obj[r]] = 0
  /\ pending' = [pending EXCEPT ![obj[r]] = None]
  /\ \E what \in MayFail \cap {"save", "build"} :
       /\ failed' = failed \cup {what}
       /\ file' = IF what = "save" THEN file ELSE Written(history[Ctrl(r)])
  /\ Goes(r, IF kind[r] = "prompt" THEN "restore" ELSE "answered")
  /\ UNCHANGED <<client, obj, want, owner, live, ctrl, config, running, deleted, opened, turn, core,
                 marked, erased, served, told, accepted>>

\* applyPendingSessionConfig puts back what it took.
Restore(r) ==
  /\ pc[r] = "restore"
  /\ pending' = IF obj[r] \in deleted \/ pending[obj[r]] # None THEN pending
                ELSE [pending EXCEPT ![obj[r]] = want[r]]
  /\ Goes(r, "answered")
  /\ UNCHANGED <<client, obj, want, owner, live, ctrl, config, running, deleted, opened, turn, core,
                 disk, served, notes>>

-----------------------------------------------------------------------------
(* session/close, session/delete                                           *)

\* takeSession
Take(r) ==
  /\ pc[r] = "start" /\ kind[r] \in {"close", "delete"}
  /\ IF live # 0 THEN Finds(r, live, "stop")
     ELSE IF kind[r] = "delete" THEN Finds(r, 0, "remove")
     ELSE Ends(r)
  /\ live' = 0
  /\ UNCHANGED <<client, ctrl, config, pending, running, deleted, opened, turn, core, disk, served,
                 notes>>

\* (mutant) The turn is waited for and not cancelled.
StopOnlyWaits(r) ==
  /\ pc[r] = "stop"
  /\ owner' = [owner EXCEPT ![r] = running[obj[r]]]
  /\ deleted' = IF kind[r] = "delete" THEN deleted \cup {obj[r]} ELSE deleted
  /\ Goes(r, "wait")
  /\ UNCHANGED <<client, obj, want, live, ctrl, config, pending, running, opened, turn, core, disk,
                 served, notes>>

\* abortAndWait and deleteAndWait, up to the wait.
Stop(r) ==
  /\ pc[r] = "stop"
  /\ owner' = [owner EXCEPT ![r] = running[obj[r]]]
  /\ cancelled' = cancelled \cup ({running[obj[r]]} \ {0})
  /\ deleted' = IF kind[r] = "delete" THEN deleted \cup {obj[r]} ELSE deleted
  /\ Goes(r, "wait")
  /\ UNCHANGED <<client, obj, want, live, ctrl, config, pending, running, opened, asking, asked,
                 core, disk, served, notes>>

\* (mutant) The turn is not waited for.
StoppedAtOnce(r) ==
  /\ pc[r] = "wait"
  /\ Goes(r, "release")
  /\ UNCHANGED <<client, obj, want, owner, object, turn, core, disk, served, notes>>

\* The done channel is closed, or there was none.
Stopped(r) ==
  /\ pc[r] = "wait"
  /\ owner[r] = 0 \/ running[obj[r]] # owner[r]
  /\ Goes(r, "release")
  /\ UNCHANGED <<client, obj, want, owner, object, turn, core, disk, served, notes>>

CloseController(r) ==
  /\ pc[r] = "release" /\ kind[r] = "close"
  /\ closed' = closed \cup {Ctrl(r)}
  /\ jobs' = jobs \ {Ctrl(r)}
  /\ Goes(r, "answered")
  /\ UNCHANGED <<client, obj, want, owner, object, turn, built, history, left, disk, served, notes>>

\* BeginDestroySession and its Wait, which gives up on a job that hangs; the
\* delayed delete goes on when the marker could not be written as well.
Destroy(r) ==
  /\ pc[r] = "release" /\ kind[r] = "delete"
  /\ closed' = closed \cup {Ctrl(r)}
  /\ \/ jobs' = jobs \ {Ctrl(r)} /\ Goes(r, "remove") /\ UNCHANGED marked
        /\ UNCHANGED failed
     \/ /\ Ctrl(r) \in jobs /\ Goes(r, "later") /\ UNCHANGED jobs
        /\ \/ marked' = TRUE /\ UNCHANGED failed
           \/ "mark" \in MayFail /\ failed' = failed \cup {"mark"} /\ UNCHANGED marked
  /\ UNCHANGED <<client, obj, want, owner, object, turn, built, history, left, file, erased, served,
                 told, accepted>>

\* deleteSessionFiles
Remove(r) ==
  /\ pc[r] = "remove"
  /\ file' = {} /\ marked' = FALSE /\ erased' = TRUE
  /\ Goes(r, "answered")
  /\ UNCHANGED <<client, obj, want, owner, object, turn, core, served, notes>>

\* delayedDeleteSessionFiles, after the job has ended.
RemoveLater(r) ==
  /\ pc[r] = "later" /\ Ctrl(r) \notin jobs
  /\ file' = {} /\ marked' = FALSE /\ erased' = TRUE
  /\ Goes(r, "answered")
  /\ UNCHANGED <<client, obj, want, owner, object, turn, core, served, notes>>

JobEnds ==
  /\ jobs # {}
  /\ \E c \in jobs : jobs' = jobs \ {c}
  /\ UNCHANGED <<client, handler, object, turn, built, closed, history, left, disk, served, notes>>

-----------------------------------------------------------------------------
(* session/load, session/resume                                            *)

\* A live session is replayed; one that is being cleaned up is unknown.
LookLoad(r) ==
  /\ Starts(r, "load")
  /\ Goes(r, IF live # 0 \/ marked THEN "answered" ELSE "open")
  /\ UNCHANGED <<client, obj, want, owner, object, turn, core, disk, served, notes>>

\* The configuration or the factory returns an error.
OpenFails(r) ==
  /\ pc[r] = "open" /\ "build" \in MayFail
  /\ Ends(r)
  /\ UNCHANGED <<client, object, turn, core, disk, served, notes>>

\* The factory builds a controller and LoadSession reads the transcript; the
\* controller is closed again when there is none or the metadata is not saved.
Open(r) ==
  /\ pc[r] = "open"
  /\ built' = built + 1
  /\ \/ /\ file = {} \/ "save" \in MayFail
        /\ closed' = closed \cup {built'}
        /\ Ends(r)
        /\ UNCHANGED <<ctrl, opened, history>>
     \/ /\ file # {}
        /\ opened' = opened + 1
        /\ ctrl' = [ctrl EXCEPT ![opened'] = built']
        /\ history' = [history EXCEPT ![built'] = file]
        /\ Finds(r, opened', "register")
        /\ UNCHANGED closed
  /\ UNCHANGED <<client, live, config, pending, running, deleted, turn, jobs, left, disk, served,
                 notes>>

Register(r) ==
  /\ pc[r] = "register"
  /\ live' = obj[r]
  /\ Goes(r, "answered")
  /\ UNCHANGED <<client, obj, want, owner, ctrl, config, pending, running, deleted, opened, turn,
                 core, disk, served, notes>>

-----------------------------------------------------------------------------
Prompt(r) == \/ LookPrompt(r) \/ Begin(r) \/ StopAsking(r) \/ TurnEnds(r) \/ Persist(r)
             \/ Finish(r) \/ Apply(r) \/ TakePending(r) \/ Restore(r)
Switches(r) == LookSwitch(r) \/ Compute(r)
Rebuilds(r) == RefuseRebuild(r) \/ QueueRebuild(r) \/ Rebuild(r) \/ RebuildFails(r)
Closes(r) == \/ Take(r) \/ Stop(r) \/ Stopped(r) \/ CloseController(r) \/ Destroy(r) \/ Remove(r)
             \/ RemoveLater(r)
Loads(r) == LookLoad(r) \/ OpenFails(r) \/ Open(r) \/ Register(r)
Handler(r) == Prompt(r) \/ Switches(r) \/ Rebuilds(r) \/ Closes(r) \/ Loads(r) \/ CancelTurn(r)

Next ==
  \/ \E k \in Kinds : Receive(k)
  \/ HangUp \/ ServeReturns \/ JobEnds
  \/ \E r \in Request : Handler(r) \/ Ask(r) \/ Reply(r)

\* The goroutines are scheduled and a turn that does not wait for the client
\* ends.  The client need not reply, nor hang up; a job need not end.
Fairness == WF_vars(ServeReturns) /\ \A r \in Request : WF_vars(Handler(r))

Spec == Init /\ [][Next]_vars
FairSpec == Spec /\ Fairness

-----------------------------------------------------------------------------
Place  == {"none", "start", "begin", "turn", "persist", "finish", "apply", "take", "compute",
           "rebuild", "restore", "stop", "wait", "release", "remove", "later", "open", "register", "answered"}
Config == [model : 0 .. MaxRequests + 1, effort : 0 .. MaxRequests + 1]

Flags ==
  /\ eof \in BOOLEAN /\ served \in BOOLEAN /\ marked \in BOOLEAN
  /\ erased \in BOOLEAN /\ failed \subseteq {"build", "save", "mark"}

HandlersTyped ==
  /\ sent \in 0 .. MaxRequests
  /\ kind \in [Request -> Kinds \cup {"none"}]
  /\ pc \in [Request -> Place] /\ obj \in [Request -> 0 .. opened]
  /\ owner \in [Request -> 0 .. MaxRequests]

ConfigsTyped ==
  /\ want \in [Request -> Config]
  /\ config \in [Built -> Config] /\ pending \in [Built -> Config]

ObjectsTyped ==
  /\ live \in 0 .. opened /\ opened \in Built /\ built \in Built /\ opened <= built
  /\ ctrl \in [Built -> 0 .. built] /\ \A o \in 1 .. opened : ctrl[o] # 0
  /\ running \in [Built -> 0 .. MaxRequests] /\ deleted \subseteq 1 .. opened
  /\ closed \subseteq 1 .. built /\ jobs \subseteq 1 .. built

TurnsTyped ==
  /\ cancelled \subseteq Request /\ asking \subseteq Request /\ asked \in 0 .. MaxAsks
  /\ history \in [Built -> SUBSET Request] /\ file \subseteq Request
  /\ left \in 0 .. MaxJobs /\ told \subseteq Request /\ accepted \subseteq Request

TypeOK == HandlersTyped /\ ConfigsTyped /\ ObjectsTyped /\ TurnsTyped /\ Flags

\* A prompt whose turn was run is in the transcript and in the conversation
\* the next prompt goes to, whatever switches rebuilt the controller in
\* between, until the session is deleted.
NothingForgotten ==
  ~erased =>
    /\ told \subseteq file
    /\ live # 0 => told \subseteq history[ctrl[live]]

\* A deleted session is gone: once nothing is under way, no turn that ran
\* meanwhile has written its files again, and it is not opened while it waits
\* for the files to be removed.  A delete that could not write its marker has
\* told the client so.
DeletedStaysDeleted ==
  "mark" \notin failed =>
    /\ Quiet /\ erased /\ ~marked => file = {}
    /\ erased \/ marked => live = 0

\* A switch that was queued behind a turn does not stay queued: when nothing
\* is under way it has been applied, or refused with a notice.  One that failed
\* is put back on purpose.
NoSwitchLeft == Quiet /\ live # 0 /\ failed \subseteq {"mark"} => pending[live] = None

\* When Serve has returned every controller it built has been closed.
EverythingClosed == served => closed = 1 .. built

\* A close or a delete is answered whatever the turn waits for, and Serve
\* returns once its input has ended.
Ending ==
  \/ \E r \in 1 .. sent : kind[r] \in {"close", "delete"} /\ ~Answered(r)
  \/ eof /\ ~served
EndsAreReached == Ending ~> ~Ending

\* What sessionPrompt's refusal says: a session has one active prompt.  Two
\* prompts never run on one transcript.
OneTurn == Cardinality({r \in Request : pc[r] \in {"turn", "persist"}}) <= 1

\* What the reply to a switch says: the option has the value asked for.  When
\* nothing is under way, the latest switch of each kind is in effect.
Latest(k) == {r \in accepted : kind[r] = k /\ \A q \in accepted : kind[q] = k => q <= r}
SwitchesStand ==
  Quiet /\ live = 1 /\ failed = {} /\ left = 0 /\ asked = 0 =>
    \A k \in Switch : \A r \in Latest(k) : config[live][k] = At(r)

\* What session/cancel is for: the prompt sent before it is cancelled, unless
\* it had ended.
CancelReaches ==
  [][\A r, q \in Request :
       kind[q] = "cancel" /\ pc[q] = "start" /\ pc'[q] = "answered" /\ kind[r] = "prompt" /\ r < q /\ live # 0
         => Answered(r) \/ pc[r] \in {"persist", "finish", "apply", "take", "rebuild", "restore"}
            \/ r \in cancelled']_vars
=============================================================================
