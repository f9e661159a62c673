---------------------------- MODULE MCFrontEnds ----------------------------
(***************************************************************************)
(* The front ends that drive a controller without a terminal, in one state *)
(* graph: the bot gateway, the ACP agent, the heartbeat engine and its     *)
(* schedule.  They share nothing, so a behaviour is one of one of them     *)
(* while the others have nothing left to do.                               *)
(***************************************************************************)
EXTENDS Integers, Sequences, FiniteSets

CONSTANTS MaxTexts, MaxPrompts, MaxCommands, Commands

ASSUME BotAssumption == {MaxTexts, MaxPrompts, MaxCommands} \subseteq Nat

VARIABLES sent, commanded, asked, active, pending, desk, subject, at, msgs, made, target, canceller,
          known, last, stopped, runner, prompt, session, begunIn, ran, refused, told, astray,
          forced, void

botVars ==
  <<sent, commanded, asked, active, pending, desk, subject, at, msgs, made, target, canceller,
    known, last, stopped, runner, prompt, session, begunIn, ran, refused, told, astray,
    forced, void>>

B == INSTANCE BotGateway

CONSTANTS MaxRequests, MaxAsks, MaxJobs, Kinds, Alone, MayFail

ASSUME AcpAssumption ==
  /\ {MaxRequests, MaxAsks, MaxJobs} \subseteq Nat
  /\ Kinds \subseteq {"prompt", "cancel", "model", "effort", "close", "delete", "load"}
  /\ MayFail \subseteq {"build", "save", "mark"}

VARIABLES requests, kind, pc, obj, want, owner, live, ctrl, config, queued, running, deleted,
          cancelled, asking, opened, built, closed, history, jobs, transcript, marked, eof, served,
          asks, left, answered, accepted, erased, failed

acpVars ==
  <<requests, kind, pc, obj, want, owner, live, ctrl, config, queued, running, deleted,
    cancelled, asking, opened, built, closed, history, jobs, transcript, marked, eof, served,
    asks, left, answered, accepted, erased, failed>>

A == INSTANCE AcpService WITH sent <- requests, pending <- queued, asked <- asks,
                              told <- answered, file <- transcript

CONSTANTS WeekDays, WeekSets, YearMonths, SpringDay, MaxCreated

\* Two years, the second with a short month where the first has a long one.
MonthLengths == <<5, 4, 5, 3>>

VARIABLES rule, created, lastRun, now

clockVars == <<rule, created, lastRun, now>>

S == INSTANCE HeartbeatSchedule WITH Lengths <- MonthLengths

CONSTANTS MayToggle, MaxSlots, MaxTopics, MaxEdits, MaxFileEdits, MaxTriggers, MaxTurns, MaxFailures

ASSUME HeartbeatAssumption ==
  /\ {MaxSlots, MaxTopics, MaxEdits, MaxFileEdits, MaxTriggers, MaxTurns, MaxFailures} \subseteq Nat
  /\ MayToggle \in BOOLEAN

VARIABLES slot, tasks, file, panel, pendingTopic, at2, copy, topicID, seen, topics, turn, waits,
          edits, fileEdits, triggers, turns, failures, runs, saved, drained

heartbeatVars ==
  <<slot, tasks, file, panel, pendingTopic, at2, copy, topicID, seen, topics, turn, waits,
    edits, fileEdits, triggers, turns, failures, runs, saved, drained>>

E == INSTANCE Heartbeat WITH pc <- at2, asks <- waits

-----------------------------------------------------------------------------
(* Each component with nothing left to do.                                 *)

\* Every text was answered with an error.
BotRests ==
  /\ sent = MaxTexts /\ commanded = MaxCommands /\ asked = MaxPrompts
  /\ active = FALSE /\ pending = <<>> /\ desk = "idle" /\ subject = 0
  /\ at = [i \in B!Goroutine |-> "gone"] /\ msgs = [i \in B!Goroutine |-> <<>>]
  /\ made = FALSE /\ target = 0 /\ canceller = 0 /\ known = {} /\ last = 0
  /\ stopped = {} /\ runner = 0 /\ prompt = 0 /\ session = 0 /\ begunIn = 0
  /\ ran = <<>> /\ refused = {} /\ told = 1 .. MaxTexts /\ astray = {}
  /\ forced = FALSE /\ void = {}

\* Serve has returned.
AcpRests ==
  /\ requests = 0 /\ kind = [r \in A!Request |-> "none"] /\ eof = TRUE /\ served = TRUE
  /\ pc = [r \in A!Request |-> "none"] /\ obj = [r \in A!Request |-> 0]
  /\ want = [r \in A!Request |-> A!None] /\ owner = [r \in A!Request |-> 0]
  /\ live = 0 /\ opened = 1 /\ built = 1 /\ closed = {1}
  /\ ctrl = [o \in A!Built |-> IF o = 1 THEN 1 ELSE 0]
  /\ config = [o \in A!Built |-> A!First] /\ queued = [o \in A!Built |-> A!None]
  /\ running = [o \in A!Built |-> 0] /\ deleted = {}
  /\ cancelled = {} /\ asking = {} /\ asks = 0
  /\ history = [c \in A!Built |-> {}] /\ jobs = {} /\ left = 0
  /\ transcript = {} /\ marked = FALSE /\ erased = FALSE
  /\ answered = {} /\ accepted = {} /\ failed = {}

\* The calendar is over.
ClockRests ==
  /\ rule = [kind |-> "daily", days |-> {}, month |-> 0, half |-> 0]
  /\ created = 0 /\ lastRun = S!Horizon /\ now = S!Horizon

\* The task was deleted.
HeartbeatRests ==
  /\ slot = MaxSlots /\ edits = MaxEdits /\ fileEdits = 0 /\ triggers = 0 /\ turns = 0
  /\ tasks = [there |-> FALSE, enabled |-> FALSE, edit |-> 0, fresh |-> FALSE, lastRun |-> 0,
              topic |-> 0]
  /\ file = tasks /\ panel = tasks /\ pendingTopic = E!NoTopic
  /\ at2 = [r \in E!Runner |-> "idle"] /\ copy = [r \in E!Runner |-> tasks]
  /\ topicID = [r \in E!Runner |-> 0] /\ seen = [r \in E!Runner |-> FALSE]
  /\ topics = 0 /\ turn = [t \in E!Topic |-> "none"] /\ waits = [t \in E!Topic |-> FALSE]
  /\ failures = 0 /\ runs = [s \in 0 .. MaxSlots |-> 0] /\ saved = 0 /\ drained = FALSE

-----------------------------------------------------------------------------
Init ==
  \/ B!Init /\ AcpRests /\ ClockRests /\ HeartbeatRests
  \/ BotRests /\ A!Init /\ ClockRests /\ HeartbeatRests
  \/ BotRests /\ AcpRests /\ S!Init /\ HeartbeatRests
  \/ BotRests /\ AcpRests /\ ClockRests /\ E!Init

Next ==
  \/ B!Next /\ UNCHANGED <<acpVars, clockVars, heartbeatVars>>
  \/ A!Next /\ UNCHANGED <<botVars, clockVars, heartbeatVars>>
  \/ S!Next /\ UNCHANGED <<botVars, acpVars, heartbeatVars>>
  \/ E!Next /\ UNCHANGED <<botVars, acpVars, clockVars>>

Spec ==
  /\ Init /\ [][Next]_<<botVars, acpVars, clockVars, heartbeatVars>>
  /\ B!Fairness /\ A!Fairness /\ E!Fairness

-----------------------------------------------------------------------------
\* Every text of a chat is run once, in order, and answered in its place.
EachInTurn == B!EachInTurn
\* A prompt whose turn ran stays in the ACP session's transcript.
NothingForgotten == A!NothingForgotten
\* The files of a deleted ACP session are not written again.
DeletedStaysDeleted == A!DeletedStaysDeleted
\* A switch queued behind a turn does not stay queued.
NoSwitchLeft == A!NoSwitchLeft
\* Serve closes every controller it built.
EverythingClosed == A!EverythingClosed
\* A heartbeat runs for a slot of its own, and as soon as that comes.
SlotsAreKept == S!SlotsAreKept
\* The end of a heartbeat run undoes no edit of the task list.
EditsKept == E!EditsKept
\* Fresh heartbeat conversations do not run beside each other.
RunsDoNotOverlap == E!RunsDoNotOverlap

\* A chat session that is taken comes free, a close, a delete and the end of
\* the input of the ACP agent reach their end, and a heartbeat that is due is
\* run: in each behaviour one of the three can hold.
Owes == active \/ A!Ending \/ E!Owing
FrontEndsProgress == Owes ~> ~Owes
=============================================================================
