----------------------------- MODULE Heartbeat -----------------------------
(***************************************************************************)
(* The heartbeat engine (desktop/heartbeat.go), for one task: the          *)
(* scheduler goroutine and HeartbeatTriggerNow, which both run the task    *)
(* from a copy of it, the task list in memory and on disk, the panel that  *)
(* saves its own copy of the list, and the topics the task runs in, which  *)
(* the user can type in as well.                                           *)
(*                                                                         *)
(* When a task is due is HeartbeatSchedule's subject; here slots come one  *)
(* by one, and LastRunAt is the latest slot at that time (0: never).       *)
(***************************************************************************)
EXTENDS Naturals

CONSTANTS
    MayToggle,      \* whether an edit may switch NewConversationEachRun
    MaxSlots,       \* bound: slots that come
    MaxTopics,      \* bound: topics the engine creates
    MaxEdits,       \* bound: saves of the panel
    MaxFileEdits,   \* bound: edits of the file with another program
    MaxTriggers,    \* bound: calls of HeartbeatTriggerNow
    MaxTurns,       \* bound: turns the user starts in a topic
    MaxFailures     \* bound: runs that do not get to their turn

Topic  == 1 .. MaxTopics
Runner == {"tick", "trigger"}
Task   == [there : BOOLEAN, enabled : BOOLEAN, edit : 0 .. MaxEdits + MaxFileEdits,
           fresh : BOOLEAN, lastRun : 0 .. MaxSlots, topic : 0 .. MaxTopics]

VARIABLES
    slot,           \* the latest slot that has come
    tasks, file,    \* the task, in e.tasks and in the file
    panel,          \* the copy the panel holds
    pendingTopic,   \* e.pendingTopics: topic (0: none) and submitted
    pc, copy,       \* per runner: where in executeTask, with which task
    topicID, seen,  \* topicID and pendingSubmitted of executeTask
    topics,         \* how many topics have been created
    turn, asks,     \* per topic: whose turn runs; the user's turn waits for an answer
    edits, fileEdits, triggers, turns, failures,   \* how many so far
    \* history
    runs,           \* per slot: how many runs of the task it saw submitted
    saved,          \* the latest edit that the panel saved or loaded
    drained         \* a prompt of the user's turn was allowed by the engine

clock  == <<slot>>
lists  == <<tasks, file, panel>>
local  == <<pc, copy, topicID, seen>>
chats  == <<topics, turn, asks>>
counts == <<edits, fileEdits, triggers, turns, failures>>
notes  == <<runs, saved, drained>>
vars   == <<clock, lists, pendingTopic, local, chats, counts, notes>>

NoTopic == [topic |-> 0, submitted |-> FALSE]

Init ==
  /\ slot = 0
  /\ \E enabled, fresh \in BOOLEAN :
       tasks = [there |-> TRUE, enabled |-> enabled, edit |-> 0, fresh |-> fresh, lastRun |-> 0,
                topic |-> 0]
  /\ file = tasks /\ panel = tasks
  /\ pendingTopic = NoTopic
  /\ pc = [r \in Runner |-> "idle"] /\ copy = [r \in Runner |-> tasks]
  /\ topicID = [r \in Runner |-> 0] /\ seen = [r \in Runner |-> FALSE]
  /\ topics = 0
  /\ turn = [t \in Topic |-> "none"] /\ asks = [t \in Topic |-> FALSE]
  /\ edits = 0 /\ fileEdits = 0 /\ triggers = 0 /\ turns = 0 /\ failures = 0
  /\ runs = [s \in 0 .. MaxSlots |-> 0] /\ saved = 0 /\ drained = FALSE

Due(t) == t.lastRun < slot

Go(r, place) == pc' = [pc EXCEPT ![r] = place]

-----------------------------------------------------------------------------
(* tick, TriggerNow and executeTask                                        *)

\* Both take a copy of the list under the lock.  TriggerNow runs a task that
\* is disabled as well.
Snapshot(r) ==
  /\ pc[r] = "idle" /\ tasks.there
  /\ r = "tick" => tasks.enabled /\ Due(tasks)
  /\ r = "trigger" => triggers < MaxTriggers
  /\ triggers' = IF r = "trigger" THEN triggers + 1 ELSE triggers
  /\ copy' = [copy EXCEPT ![r] = tasks]
  /\ Go(r, "choose")
  /\ UNCHANGED <<clock, lists, pendingTopic, topicID, seen, chats, edits, fileEdits, turns, failures,
                 notes>>

\* The topic to use: with fresh conversations the pending one, else the
\* task's own.
Choose(r) ==
  LET known == IF copy[r].fresh THEN pendingTopic.topic ELSE copy[r].topic
  IN  /\ pc[r] = "choose"
      /\ topicID' = [topicID EXCEPT ![r] = known]
      /\ seen' = [seen EXCEPT ![r] = copy[r].fresh /\ pendingTopic.submitted]
      /\ Go(r, IF known = 0 THEN "create" ELSE "open")
      /\ UNCHANGED <<clock, lists, pendingTopic, copy, chats, counts, notes>>

Create(r) ==
  /\ pc[r] = "create" /\ topics < MaxTopics
  /\ topics' = topics + 1
  /\ topicID' = [topicID EXCEPT ![r] = topics']
  /\ copy' = [copy EXCEPT ![r].topic = topics']
  /\ pendingTopic' = IF copy[r].fresh THEN [topic |-> topics', submitted |-> FALSE]
                     ELSE pendingTopic
  /\ Go(r, "open")
  /\ UNCHANGED <<clock, lists, seen, turn, asks, counts, notes>>

\* CreateTopic or the opening of the tab fails: the run counts as done.
Fail(r) ==
  /\ pc[r] \in {"create", "open"} /\ failures < MaxFailures
  /\ failures' = failures + 1
  /\ copy' = [copy EXCEPT ![r].lastRun = slot]
  /\ Go(r, "merge")
  /\ UNCHANGED <<clock, lists, pendingTopic, topicID, seen, chats, edits, fileEdits, triggers, turns,
                 notes>>

\* No controller in ten seconds: to be tried again.
NotReady(r) ==
  /\ pc[r] = "open" /\ failures < MaxFailures
  /\ failures' = failures + 1
  /\ Go(r, "merge")
  /\ UNCHANGED <<clock, lists, pendingTopic, copy, topicID, seen, chats, edits, fileEdits, triggers,
                 turns, notes>>

\* (mutant) The topic of the previous run is not asked.
BusySelf(r) == ~seen[r] /\ turn[topicID[r]] # "none"

Busy(r) == turn[topicID[r]] # "none"

SkipBusy(r) ==
  /\ pc[r] = "open" /\ Busy(r)
  /\ Go(r, "merge")
  /\ UNCHANGED <<clock, lists, pendingTopic, copy, topicID, seen, chats, counts, notes>>

\* (mutant) The topic of the run that is over stays pending.
ForgetNothing(r) ==
  /\ pc[r] = "open" /\ ~Busy(r) /\ seen[r]
  /\ Go(r, "choose")
  /\ UNCHANGED <<clock, lists, pendingTopic, copy, topicID, seen, chats, counts, notes>>

\* The previous run is over: its topic is forgotten and executeTask calls
\* itself.
ForgetOver(r) ==
  /\ pc[r] = "open" /\ ~Busy(r) /\ seen[r]
  /\ pendingTopic' = IF pendingTopic = [topic |-> topicID[r], submitted |-> TRUE] THEN NoTopic
                     ELSE pendingTopic
  /\ Go(r, "choose")
  /\ UNCHANGED <<clock, lists, copy, topicID, seen, chats, counts, notes>>

Idle(r) ==
  /\ pc[r] = "open" /\ ~Busy(r) /\ ~seen[r]
  /\ Go(r, "mode")
  /\ UNCHANGED <<clock, lists, pendingTopic, copy, topicID, seen, chats, counts, notes>>

\* SetToolApprovalModeForTab: auto and yolo allow what is being asked.
SetMode(r) ==
  LET t == topicID[r]
  IN  /\ pc[r] = "mode"
      /\ drained' = (drained \/ asks[t])
      /\ asks' = [asks EXCEPT ![t] = FALSE]
      /\ Go(r, "submit")
      /\ UNCHANGED <<clock, lists, pendingTopic, copy, topicID, seen, topics, turn, counts, runs,
                     saved>>

\* submitUserTurnToTab: a controller that runs a turn drops the new one.
Submit(r) ==
  LET t == topicID[r]
      starts == turn[t] = "none"
  IN  /\ pc[r] = "submit"
      /\ turn' = IF starts THEN [turn EXCEPT ![t] = "task"] ELSE turn
      /\ runs' = IF starts THEN [runs EXCEPT ![slot] = @ + 1] ELSE runs
      /\ Go(r, "record")
      /\ UNCHANGED <<clock, lists, pendingTopic, copy, topicID, seen, topics, asks, counts, saved,
                     drained>>

\* The tab is read-only or its controller gone: submitUserTurnToTab refuses, and the run
\* is to be tried again, with the mode set already.
SubmitRefused(r) ==
  /\ pc[r] = "submit" /\ failures < MaxFailures
  /\ failures' = failures + 1
  /\ Go(r, "merge")
  /\ UNCHANGED <<clock, lists, pendingTopic, copy, topicID, seen, chats, edits, fileEdits, triggers,
                 turns, notes>>

Record(r) ==
  /\ pc[r] = "record"
  /\ pendingTopic' = IF copy[r].fresh THEN [topic |-> topicID[r], submitted |-> TRUE]
                     ELSE pendingTopic
  /\ copy' = [copy EXCEPT ![r].lastRun = slot]
  /\ Go(r, "merge")
  /\ UNCHANGED <<clock, lists, topicID, seen, chats, counts, notes>>

\* (mutant) The copy replaces the task.
MergedWhole(r) == copy[r]

\* What mergeRunUpdatesLocked takes from the copy; a task that has been
\* deleted is not found.
Merged(r) ==
  IF ~tasks.there THEN tasks
  ELSE [tasks EXCEPT !.topic   = IF copy[r].topic # 0 THEN copy[r].topic ELSE @,
                     !.lastRun = IF copy[r].lastRun # 0 THEN copy[r].lastRun ELSE @]

Merge(r) ==
  /\ pc[r] = "merge"
  /\ tasks' = Merged(r)
  /\ file' = tasks'
  /\ Go(r, "idle")
  /\ UNCHANGED <<clock, panel, pendingTopic, copy, topicID, seen, chats, counts, notes>>

-----------------------------------------------------------------------------
(* The panel, the file, the user and the clock                             *)

Prune(t) == pendingTopic' = IF t.there /\ t.fresh THEN pendingTopic ELSE NoTopic

\* ReloadTasks
PanelOpens ==
  /\ edits < MaxEdits
  /\ panel' = file /\ tasks' = file
  /\ saved' = file.edit
  /\ Prune(file)
  /\ UNCHANGED <<clock, file, local, chats, counts, runs, drained>>

\* ReplaceTasks, with the panel's copy and what the user changed in it.
PanelSaves ==
  /\ edits < MaxEdits /\ panel.there
  /\ edits' = edits + 1
  /\ saved' = edits'
  /\ \/ \E enabled \in BOOLEAN, f \in IF MayToggle THEN BOOLEAN ELSE {panel.fresh} :
          panel' = [panel EXCEPT !.edit = edits', !.enabled = enabled, !.fresh = f]
     \/ panel' = [panel EXCEPT !.edit = edits', !.there = FALSE]
  /\ tasks' = panel' /\ file' = panel'
  /\ Prune(panel')
  /\ UNCHANGED <<clock, local, chats, fileEdits, triggers, turns, failures, runs, drained>>

EditFile ==
  /\ fileEdits < MaxFileEdits /\ file.there
  /\ fileEdits' = fileEdits + 1
  /\ file' = [file EXCEPT !.edit = MaxEdits + fileEdits']
  /\ UNCHANGED <<clock, tasks, panel, pendingTopic, local, chats, edits, triggers, turns, failures,
                 notes>>

UserTurn(t) ==
  /\ t <= topics /\ turn[t] = "none" /\ turns < MaxTurns
  /\ turns' = turns + 1
  /\ turn' = [turn EXCEPT ![t] = "user"]
  /\ UNCHANGED <<clock, lists, pendingTopic, local, topics, asks, edits, fileEdits, triggers, failures,
                 notes>>

AskUser(t) ==
  /\ turn[t] = "user" /\ ~asks[t]
  /\ asks' = [asks EXCEPT ![t] = TRUE]
  /\ UNCHANGED <<clock, lists, pendingTopic, local, topics, turn, counts, notes>>

TurnEnds(t) ==
  /\ turn[t] # "none"
  /\ turn' = [turn EXCEPT ![t] = "none"] /\ asks' = [asks EXCEPT ![t] = FALSE]
  /\ UNCHANGED <<clock, lists, pendingTopic, local, topics, counts, notes>>

SlotComes ==
  /\ slot < MaxSlots
  /\ slot' = slot + 1
  /\ UNCHANGED <<lists, pendingTopic, local, chats, counts, notes>>

-----------------------------------------------------------------------------
Execute(r) == \/ Snapshot(r) \/ Choose(r) \/ Create(r) \/ Fail(r) \/ NotReady(r) \/ SkipBusy(r)
              \/ ForgetOver(r) \/ Idle(r) \/ SetMode(r) \/ Submit(r) \/ SubmitRefused(r) \/ Record(r)
              \/ Merge(r)

Next ==
  \/ \E r \in Runner : Execute(r)
  \/ PanelOpens \/ PanelSaves \/ EditFile \/ SlotComes
  \/ \E t \in Topic : UserTurn(t) \/ AskUser(t) \/ TurnEnds(t)

\* The scheduler ticks on, and a turn ends: its prompts time out, or the user
\* answers or stops it.
Fairness == WF_vars(Execute("tick")) /\ \A t \in Topic : WF_vars(TurnEnds(t))

Spec == Init /\ [][Next]_vars
FairSpec == Spec /\ Fairness

-----------------------------------------------------------------------------
TypeOK ==
  /\ slot \in 0 .. MaxSlots
  /\ tasks \in Task /\ file \in Task /\ panel \in Task
  /\ copy \in [Runner -> Task] /\ seen \in [Runner -> BOOLEAN]
  /\ topicID \in [Runner -> 0 .. MaxTopics]
  /\ pc \in [Runner -> {"idle", "choose", "create", "open", "mode", "submit", "record", "merge"}]
  /\ \A r \in Runner : pc[r] \in {"open", "mode", "submit", "record"} => topicID[r] \in Topic
  /\ pendingTopic \in [topic : 0 .. MaxTopics, submitted : BOOLEAN]
  /\ topics \in 0 .. MaxTopics
  /\ turn \in [Topic -> {"none", "user", "task"}] /\ asks \in [Topic -> BOOLEAN]
  /\ edits \in 0 .. MaxEdits /\ fileEdits \in 0 .. MaxFileEdits
  /\ runs \in [0 .. MaxSlots -> Nat]

\* The edit the panel saved or loaded last is what the engine holds, and the
\* file as long as nobody else writes it, whatever run of the task began before
\* and ends after; a deleted task stays deleted.
EditsKept ==
  /\ tasks.edit = saved
  /\ fileEdits = 0 => file.edit = saved /\ file.there = tasks.there

\* While a task with fresh conversations is in the list its runs do not
\* overlap, however long one takes, though each is in a topic of its own.
RunsDoNotOverlap ==
  tasks.there /\ tasks.fresh =>
    \A t, u \in Topic : turn[t] = "task" /\ turn[u] = "task" => t = u

\* A task that is enabled and due is run, whatever failed, was edited or was
\* typed in its topic meanwhile.
Owing == tasks.there /\ tasks.enabled /\ Due(tasks)
DueIsRun == Owing ~> ~Owing

\* Setting the mode of the task allows nothing a turn of the user asked.
AnswersAreTheUsers == ~drained

\* What the schedule promises: a slot is run once.
OncePerSlot == \A s \in 1 .. MaxSlots : runs[s] <= 1

\* What a successful submit stands for: the turn of the task has begun.
SubmitIsRun ==
  [][\A r \in Runner : pc[r] = "submit" /\ pc'[r] = "record" => turn[topicID[r]] = "none"]_vars

\* What the head of the file says: the list can be edited on disk.
FileEditsKept == [][edits' = edits /\ fileEdits' = fileEdits => file'.edit = file.edit]_vars
=============================================================================
