----------------------------- MODULE Checkpoint -----------------------------
(***************************************************************************)
(* Checkpoints and rewind: internal/checkpoint/checkpoint.go,              *)
(* internal/control/checkpoint.go, and the orchestration around them in    *)
(* internal/control/controller.go and turn_orchestrator.go.                *)
(*                                                                         *)
(* A user turn opens a checkpoint that anchors two things: the length of   *)
(* the message log at its start (the conversation boundary), and the       *)
(* contents, from before their first edit, of the files the turn touches.  *)
(* A rewind puts the files, the log or both back.  The log is meanwhile    *)
(* rewritten by compactions and summaries, cut by cancelled turns, saved   *)
(* and reloaded; the checkpoints are saved one file per turn.              *)
(*                                                                         *)
(* A message is the turns it belongs to and what it is; the system prompt  *)
(* is left out.  A file's content is the number of the edit that wrote it, *)
(* 0 for what was there (or not there) at first.                           *)
(***************************************************************************)
EXTENDS Naturals, Sequences, FiniteSets, FiniteSetsExt, Functions

CONSTANTS
    Files,
    Scopes,       \* the rewind scopes in use
    Serialised,   \* the frontend issues one command at a time
    Subagents,    \* sub-agents write files too
    MaxTurns,     \* bound on the number of user turns
    MaxLog,       \* bound on the length a turn lets the log grow to
    MaxEdits,     \* bound on the number of file writes
    MaxFolds,     \* bound on automatic compactions
    MaxManual,    \* bound on /compact commands
    MaxSummaries, \* bound on "summarize from / up to here"
    MaxRewinds,   \* bound on the number of rewinds
    MaxReloads    \* bound on crashes and controller rebuilds

ASSUME ScopesAssumption == Scopes \subseteq {"code", "conversation", "both"}
ASSUME SwitchesAssumption == Serialised \in BOOLEAN /\ Subagents \in BOOLEAN
ASSUME BoundsAssumption ==
    {MaxTurns, MaxLog, MaxEdits, MaxFolds, MaxManual, MaxSummaries, MaxRewinds,
     MaxReloads} \subseteq Nat

VARIABLES
    \* the session, in memory and in its .jsonl file
    log,       \* Session.Messages
    saved,     \* the file, and the epoch it was written in
    \* the turn
    turnPC,    \* "idle", "starting", "opening", "prompting" or "running"
    start,     \* startMessages of runOrchestratedTurn, and the epoch it was read in
    opening,   \* the checkpoint begin announced and Store.Begin is to open
    writing,   \* the file a cleared writer tool is about to write, or None
    \* checkpointManager, under mu
    next,      \* m.turn
    bound,     \* m.bound
    \* checkpoint.Store, and its directory
    done, cur, \* finalized checkpoints; the open one, in a set of at most one
    disk,      \* turn number -> the checkpoint in turn-<n>.json
    \* the workspace
    files,
    \* a rewind or summary, and a /compact, in progress
    op,
    compact,
    \* counters
    edits, folds, manuals, summaries, rewinds, reloads,
    \* history
    serial,    \* user turns begun so far
    epoch,     \* identifies the last restructuring of log
    epochs,    \* restructurings so far
    owed,      \* prompts that nothing asked to remove from log
    tainted    \* turns since whose start files changed in ways no checkpoint holds

logVars == <<log, saved>>
turnVars == <<turnPC, start, opening, writing>>
managerVars == <<next, bound>>
storeVars == <<done, cur, disk>>
counterVars == <<edits, folds, manuals, summaries, rewinds, reloads>>
historyVars == <<serial, epoch, epochs, owed, tainted>>
vars == <<logVars, turnVars, managerVars, storeVars, files, op, compact,
          counterVars, historyVars>>

None == "none"
Idle == [pc |-> "idle"]
Unknown == 0   \* of a boundary: recorded in no epoch the log can be in
NoStart == [len |-> 0, epoch |-> Unknown]

Prompt(n) == [first |-> n, last |-> n, what |-> "prompt"]
Work(n) == [first |-> n, last |-> n, what |-> "work"]

\* A summary of messages stands for all the turns they belong to.
Digest(ms) == [first |-> Min({ms[i].first : i \in DOMAIN ms}),
               last |-> Max({ms[i].last : i \in DOMAIN ms}),
               what |-> "digest"]

Prompts(ms) == {ms[i].first : i \in {j \in DOMAIN ms : ms[j].what = "prompt"}}

Init ==
    /\ log = <<>> /\ saved = [log |-> <<>>, epoch |-> 1]
    /\ turnPC = "idle" /\ start = NoStart /\ opening = Idle /\ writing = None
    /\ next = 0 /\ bound = <<>>
    /\ done = {} /\ cur = {} /\ disk = <<>>
    /\ files = [f \in Files |-> 0]
    /\ op = Idle /\ compact = Idle
    /\ edits = 0 /\ folds = 0 /\ manuals = 0 /\ summaries = 0
    /\ rewinds = 0 /\ reloads = 0
    /\ serial = 0 /\ epoch = 1 /\ epochs = 1 /\ owed = {}
    /\ tainted = {}

-----------------------------------------------------------------------------
(* Helpers *)

All == done \cup cur
Running == turnPC # "idle"

\* Session.Save
Saved == [log |-> log, epoch |-> epoch]

\* A rewrite of the log starts a new epoch.
Rewrite(ms) ==
    /\ log' = ms
    /\ epochs' = epochs + 1
    /\ epoch' = epochs + 1

\* The log is cut to its first n messages.  (For the history, a cut at an index from
\* another epoch is a rewrite.)
Cut(n, e) == IF e = epoch THEN log' = SubSeq(log, 1, n) /\ UNCHANGED <<epoch, epochs>>
             ELSE Rewrite(SubSeq(log, 1, n))

\* NextTurn over a set of checkpoints.
NextTurn(cps) == IF cps = {} THEN 0
                 ELSE 1 + CHOOSE n \in {c.turn : c \in cps} :
                              \A c \in cps : c.turn <= n

\* Bounds over a set of checkpoints.
Bounds(cps) == [n \in {c.turn : c \in cps} |->
                  LET c == CHOOSE d \in cps : d.turn = n
                  IN [idx |-> c.idx, serial |-> c.serial, epoch |-> c.epoch]]

-----------------------------------------------------------------------------
(* A user turn: runOrchestratedTurn *)

\* runGuarded takes c.running; startMessages is read soon after.
StartTurn ==
    /\ ~Running
    /\ Serialised => op.pc = "idle"
    /\ serial < MaxTurns
    /\ turnPC' = "starting"
    /\ start' = [len |-> Len(log), epoch |-> epoch]
    /\ serial' = serial + 1
    /\ UNCHANGED <<logVars, opening, writing, managerVars, storeVars, files, op,
                   compact, counterVars, epoch, epochs, owed, tainted>>

\* checkpointManager.begin under mu.
Begin ==
    /\ turnPC = "starting"
    /\ opening' = [turn |-> next, idx |-> Len(log), epoch |-> epoch]
    /\ next' = next + 1
    /\ bound' = [n \in DOMAIN bound \cup {next} |->
                   IF n = next
                   THEN [idx |-> Len(log), serial |-> serial, epoch |-> epoch]
                   ELSE bound[n]]
    /\ turnPC' = "opening"
    /\ UNCHANGED <<logVars, start, writing, storeVars, files, op, compact,
                   counterVars, historyVars>>

\* (mutant) the open checkpoint is not finalized
OpenSecond ==
    /\ turnPC = "opening"
    /\ LET n == opening.turn
           c == [turn |-> n, idx |-> opening.idx, snaps |-> <<>>,
                 serial |-> serial, epoch |-> opening.epoch, at |-> files]
       IN /\ cur' = cur \cup {c}
          /\ disk' = [m \in DOMAIN disk \cup {n} |-> IF m = n THEN c ELSE disk[m]]
    /\ turnPC' = "prompting"
    /\ opening' = Idle
    /\ UNCHANGED <<logVars, start, writing, managerVars, done, files, op, compact,
                   counterVars, historyVars>>

\* Store.Begin: the previous checkpoint is finalized, the new one written.
OpenCheckpoint ==
    /\ turnPC = "opening"
    /\ LET n == opening.turn
           c == [turn |-> n, idx |-> opening.idx, snaps |-> <<>>,
                 serial |-> serial, epoch |-> opening.epoch, at |-> files]
       IN /\ done' = All
          /\ cur' = {c}
          /\ disk' = [m \in DOMAIN disk \cup {n} |-> IF m = n THEN c ELSE disk[m]]
    /\ turnPC' = "prompting"
    /\ opening' = Idle
    /\ UNCHANGED <<logVars, start, writing, managerVars, files, op, compact,
                   counterVars, historyVars>>

\* runner.Run appends the user message.
AddPrompt ==
    /\ turnPC = "prompting"
    /\ log' = Append(log, Prompt(serial))
    /\ owed' = owed \cup {serial}
    /\ turnPC' = "running"
    /\ UNCHANGED <<saved, start, opening, writing, managerVars, storeVars, files, op,
                   compact, counterVars, serial, epoch, epochs, tainted>>

\* An answer or a tool result is appended.
AddWork ==
    /\ turnPC = "running"
    /\ Len(log) < MaxLog
    /\ log' = Append(log, Work(serial))
    /\ UNCHANGED <<saved, turnVars, managerVars, storeVars, files, op, compact,
                   counterVars, historyVars>>

\* executeOne: the pre-edit hook of a writer tool that was cleared to run.
\* Store.Snapshot keeps the first touch of a path and nothing before a Begin.
PreEdit(f) ==
    /\ turnPC = "running"
    /\ writing = None
    /\ edits < MaxEdits
    /\ writing' = f
    /\ IF \E c \in cur : f \notin DOMAIN c.snaps
       THEN LET c == CHOOSE d \in cur : TRUE
                new == [c EXCEPT !.snaps = [g \in DOMAIN @ \cup {f} |->
                                              IF g = f THEN files[f] ELSE @[g]]]
            IN /\ cur' = {new}
               /\ disk' = [n \in DOMAIN disk \cup {c.turn} |->
                             IF n = c.turn THEN new ELSE disk[n]]
       ELSE UNCHANGED <<cur, disk>>
    /\ UNCHANGED <<logVars, turnPC, start, opening, managerVars, done, files, op,
                   compact, counterVars, historyVars>>

\* The tool writes the file.
WriteFile ==
    /\ writing # None
    /\ edits' = edits + 1
    /\ files' = [files EXCEPT ![writing] = edits + 1]
    /\ writing' = None
    /\ UNCHANGED <<logVars, turnPC, start, opening, managerVars, storeVars, op, compact,
                   folds, manuals, summaries, rewinds, reloads, historyVars>>

\* RunSubAgentWithSession builds the sub-agent with New and installs no pre-edit
\* hook: its writer tools change files unrecorded.
SubagentWrite(f) ==
    /\ Subagents
    /\ turnPC = "running"
    /\ edits < MaxEdits
    /\ edits' = edits + 1
    /\ files' = [files EXCEPT ![f] = edits + 1]
    /\ tainted' = tainted \cup {c.turn : c \in All}
    /\ UNCHANGED <<logVars, turnVars, managerVars, storeVars, op, compact, folds, manuals,
                   summaries, rewinds, reloads, serial, epoch, epochs, owed>>

\* snapshotActivityIfChanged
SaveIfGrown == IF Len(log) > start.len THEN saved' = Saved ELSE UNCHANGED saved

TurnOver == turnPC' = "idle" /\ start' = NoStart

\* The turn returns, with or without an error.
EndTurn ==
    /\ turnPC = "running" /\ writing = None
    /\ TurnOver
    /\ SaveIfGrown
    /\ UNCHANGED <<log, opening, writing, managerVars, storeVars, files, op,
                   compact, counterVars, historyVars>>

\* The goal loop goes on with a synthetic turn, which opens no checkpoint.
ContinueGoal ==
    /\ turnPC = "running" /\ writing = None
    /\ Len(log) < MaxLog
    /\ SaveIfGrown
    /\ start' = [len |-> Len(log), epoch |-> epoch]
    /\ log' = Append(log, Work(serial))
    /\ UNCHANGED <<turnPC, opening, writing, managerVars, storeVars, files, op, compact,
                   counterVars, historyVars>>

\* The user cancels: stripTurnMessagesAfter(start), which saves what is left.
CancelTurn ==
    /\ turnPC = "running" /\ writing = None
    /\ TurnOver
    /\ IF Len(log) > start.len
       THEN /\ Cut(start.len, start.epoch)
            /\ saved' = [log |-> log', epoch |-> epoch']
            /\ owed' = owed \cap Prompts(log')
       ELSE UNCHANGED <<log, saved, epoch, epochs, owed>>
    /\ UNCHANGED <<opening, writing, managerVars, storeVars, files, op, compact,
                   counterVars, serial, tainted>>

\* autosaveWhileRunning
AutoSave ==
    /\ turnPC = "running"
    /\ saved' = Saved
    /\ UNCHANGED <<log, turnVars, managerVars, storeVars, files, op, compact,
                   counterVars, historyVars>>

-----------------------------------------------------------------------------
(* Compaction: agent.compact *)

\* The messages of ms at the positions in I, in order.
Rank(I, i) == Cardinality({j \in I : j <= i})
At(ms, I) == [k \in 1..Cardinality(I) |-> ms[CHOOSE i \in I : Rank(I, i) = k]]

\* (mutant) the fold takes the user's turns as well
CompactedAll(ms, s) == <<Digest(SubSeq(ms, 1, s))>> \o SubSeq(ms, s + 1, Len(ms))

\* The region before the verbatim tail: small user turns and digests are kept, the
\* rest folds into one more digest.
Compacted(ms, s) ==
    LET work == {i \in 1..s : ms[i].what = "work"}
    IN At(ms, (1..s) \ work) \o <<Digest(At(ms, work))>> \o SubSeq(ms, s + 1, Len(ms))

\* planCompaction: at least two messages stay, and something folds.
Foldable(ms) == {s \in 1..Len(ms) : /\ s + 2 <= Len(ms)
                                    /\ \E i \in 1..s : ms[i].what = "work"}

\* maybeCompact, on the goroutine of the turn, after an answer of the model.
AutoCompact ==
    /\ turnPC = "running"
    /\ log # <<>> /\ log[Len(log)] = Work(serial)
    /\ folds < MaxFolds
    /\ \E s \in Foldable(log) : Rewrite(Compacted(log, s))
    /\ folds' = folds + 1
    /\ UNCHANGED <<saved, turnVars, managerVars, storeVars, files, op, compact,
                   edits, manuals, summaries, rewinds, reloads, serial, owed, tainted>>

\* /compact runs on a goroutine of its own, whether or not a turn runs: the log is
\* read, the summarizer is called, and the log is replaced by what was read.
CompactBegin ==
    /\ compact.pc = "idle"
    /\ manuals < MaxManual
    /\ manuals' = manuals + 1
    /\ Foldable(log) # {}
    /\ compact' = [pc |-> "summarizing", base |-> log]
    /\ UNCHANGED <<logVars, turnVars, managerVars, storeVars, files, op, edits, folds,
                   summaries, rewinds, reloads, historyVars>>

CompactReplace ==
    /\ compact.pc = "summarizing"
    /\ \E s \in Foldable(compact.base) : Rewrite(Compacted(compact.base, s))
    /\ compact' = [pc |-> "replaced"]
    /\ UNCHANGED <<saved, turnVars, managerVars, storeVars, files, op, counterVars,
                   serial, owed, tainted>>

\* The snapshot after /compact; the terminal UI takes it in its update loop.
CompactSave ==
    /\ compact.pc = "replaced"
    /\ Serialised => op.pc = "idle"
    /\ saved' = Saved
    /\ compact' = Idle
    /\ UNCHANGED <<log, turnVars, managerVars, storeVars, files, op, counterVars,
                   historyVars>>

-----------------------------------------------------------------------------
(* Rewind *)

\* (mutant) the last snapshot of a file wins
RestorePlansLast(cps, k) ==
    LET late == {c \in cps : c.turn >= k}
        touched == UNION {DOMAIN c.snaps : c \in late}
        lasts(f) == {c \in late : /\ f \in DOMAIN c.snaps
                                  /\ \A d \in late : f \in DOMAIN d.snaps
                                        => c.turn >= d.turn}
    IN {p \in [touched -> 0..MaxEdits] :
          \A f \in touched : \E c \in lasts(f) : p[f] = c.snaps[f]}

\* RestoreCode: the earliest snapshot of each file touched in turn k or later.
\* Two checkpoints with one number would be sorted either way.
RestorePlans(cps, k) ==
    LET late == {c \in cps : c.turn >= k}
        touched == UNION {DOMAIN c.snaps : c \in late}
        firsts(f) == {c \in late : /\ f \in DOMAIN c.snaps
                                   /\ \A d \in late : f \in DOMAIN d.snaps
                                         => c.turn <= d.turn}
    IN {p \in [touched -> 0..MaxEdits] :
          \A f \in touched : \E c \in firsts(f) : p[f] = c.snaps[f]}

\* Rewind(k, scope), k one of the listed checkpoints: the running flag is read, then
\* the boundary, then the snapshots.
RewindBegin(k, scope) ==
    /\ ~Running
    /\ op.pc = "idle"
    /\ rewinds < MaxRewinds
    /\ rewinds' = rewinds + 1
    /\ \E p \in RestorePlans(All, k) :
          op' = [pc |-> IF scope = "conversation" THEN "cut" ELSE "restore",
                 turn |-> k, scope |-> scope,
                 known |-> k \in DOMAIN bound,
                 bound |-> IF k \in DOMAIN bound THEN bound[k].idx ELSE 0,
                 epoch |-> IF k \in DOMAIN bound THEN bound[k].epoch ELSE Unknown,
                 plan |-> IF scope = "conversation" THEN <<>> ELSE p,
                 want |-> (CHOOSE c \in All : c.turn = k).at]
    /\ UNCHANGED <<logVars, turnVars, managerVars, storeVars, files, compact, edits,
                   folds, manuals, summaries, reloads, historyVars>>

\* One file is written back (or removed).
RestoreFile(f) ==
    /\ op.pc = "restore"
    /\ f \in DOMAIN op.plan
    /\ files' = [files EXCEPT ![f] = op.plan[f]]
    /\ op' = [op EXCEPT !.plan = Restrict(@, DOMAIN @ \ {f})]
    /\ tainted' = tainted \cup {c.turn : c \in {d \in All : d.turn > op.turn}}
    /\ UNCHANGED <<logVars, turnVars, managerVars, storeVars, compact, counterVars,
                   serial, epoch, epochs, owed>>

RestoreDone ==
    /\ op.pc = "restore"
    /\ DOMAIN op.plan = {}
    /\ op' = IF op.scope = "code" THEN Idle ELSE [op EXCEPT !.pc = "cut"]
    /\ UNCHANGED <<logVars, turnVars, managerVars, storeVars, files, compact,
                   counterVars, historyVars>>

\* The log is cut back to the boundary, unless there is none or it lies past the end.
CutLog ==
    /\ op.pc = "cut"
    /\ IF ~op.known \/ op.bound > Len(log)
       THEN op' = Idle /\ UNCHANGED <<log, owed, epoch, epochs>>
       ELSE /\ Cut(op.bound, op.epoch)
            /\ owed' = owed \cap Prompts(log')
            /\ op' = [op EXCEPT !.pc = "forget"]
    /\ UNCHANGED <<saved, turnVars, managerVars, storeVars, files, compact, counterVars,
                   serial, tainted>>

\* (mutant) the boundaries of the dropped turns stay
ForgetKeepsBounds ==
    /\ op.pc = "forget"
    /\ next' = op.turn
    /\ UNCHANGED bound
    /\ op' = [op EXCEPT !.pc = "drop"]
    /\ UNCHANGED <<logVars, turnVars, storeVars, files, compact, counterVars, historyVars>>

\* checkpointManager.truncateFrom under mu.
ForgetTurns ==
    /\ op.pc = "forget"
    /\ next' = op.turn
    /\ bound' = Restrict(bound, {n \in DOMAIN bound : n < op.turn})
    /\ op' = [op EXCEPT !.pc = "drop"]
    /\ UNCHANGED <<logVars, turnVars, storeVars, files, compact, counterVars, historyVars>>

\* (history) The files after a code rewind to turn k; the turns a rewind to which comes
\* out differently once the checkpoints gone are lost.
Outcome(cps, k) == LET p == CHOOSE q \in RestorePlans(cps, k) : TRUE
                   IN [f \in Files |-> IF f \in DOMAIN p THEN p[f] ELSE files[f]]
Tainted(cps, gone) == {k \in {c.turn : c \in cps \ gone} :
                         Outcome(cps, k) # Outcome(cps \ gone, k)}

\* (mutant) the open checkpoint survives the cut
DropKeepsOpen ==
    /\ op.pc = "drop"
    /\ LET gone == {c \in done : c.turn >= op.turn} IN
       /\ done' = done \ gone
       /\ UNCHANGED cur
       /\ op' = [pc |-> "delete", turns |-> {c.turn : c \in gone}]
       /\ tainted' = tainted \cup Tainted(All, gone)
    /\ UNCHANGED <<logVars, turnVars, managerVars, disk, files, compact, counterVars,
                   serial, epoch, epochs, owed>>

\* Store.TruncateFrom under mu.
DropCheckpoints ==
    /\ op.pc = "drop"
    /\ LET gone == {c \in All : c.turn >= op.turn} IN
       /\ done' = done \ gone
       /\ cur' = cur \ gone
       /\ op' = [pc |-> "delete", turns |-> {c.turn : c \in gone}]
       /\ tainted' = tainted \cup Tainted(All, gone)
    /\ UNCHANGED <<logVars, turnVars, managerVars, disk, files, compact, counterVars,
                   serial, epoch, epochs, owed>>

\* The files are removed in the order of a Go map.
DeleteFile(n) ==
    /\ op.pc = "delete"
    /\ n \in op.turns
    /\ disk' = Restrict(disk, DOMAIN disk \ {n})
    /\ op' = [op EXCEPT !.turns = @ \ {n}]
    /\ tainted' = (tainted \ {n}) \cup
                  Tainted({disk[m] : m \in DOMAIN disk},
                          {disk[m] : m \in DOMAIN disk \cap {n}})
    /\ UNCHANGED <<logVars, turnVars, managerVars, done, cur, files, compact,
                   counterVars, serial, epoch, epochs, owed>>

\* (mutant) the checkpoint files stay behind
DeleteSkipped ==
    /\ op.pc = "delete"
    /\ op' = [pc |-> "save"]
    /\ UNCHANGED <<logVars, turnVars, managerVars, storeVars, files, compact,
                   counterVars, historyVars>>

DeleteDone ==
    /\ op.pc = "delete"
    /\ op.turns = {}
    /\ op' = [pc |-> "save"]
    /\ UNCHANGED <<logVars, turnVars, managerVars, storeVars, files, compact,
                   counterVars, historyVars>>

\* Snapshot after a rewind or a summary: a log without content is not written.  (For
\* the history, what follows such a cut is a log the file knows nothing of.)
SaveOp ==
    /\ op.pc = "save"
    /\ op' = Idle
    /\ IF log # <<>> THEN saved' = Saved /\ UNCHANGED <<epoch, epochs>>
       ELSE Rewrite(log) /\ UNCHANGED saved
    /\ UNCHANGED <<log, turnVars, managerVars, storeVars, files, compact, counterVars,
                   serial, owed, tainted>>

-----------------------------------------------------------------------------
(* Summarize from / up to here *)

SummarizeBegin(k, from) ==
    /\ ~Running
    /\ op.pc = "idle"
    /\ summaries < MaxSummaries
    /\ summaries' = summaries + 1
    /\ k \in DOMAIN bound
    /\ op' = [pc |-> "summarize", bound |-> bound[k].idx, from |-> from, base |-> log]
    /\ UNCHANGED <<logVars, turnVars, managerVars, storeVars, files, compact, edits,
                   folds, manuals, rewinds, reloads, historyVars>>

\* What SummarizeFrom and SummarizeUpTo leave of ms; an empty region is left alone.
Summarized(ms, i, from) ==
    LET early == SubSeq(ms, 1, i)
        late == SubSeq(ms, i + 1, Len(ms))
    IN IF from THEN Append(early, Digest(late)) ELSE <<Digest(early)>> \o late

Summarizable(ms, i, from) == IF from THEN i < Len(ms) ELSE 0 < i /\ i <= Len(ms)

\* The summarizer answered: the log is replaced, and every boundary cleared.
SummarizeEnd ==
    /\ op.pc = "summarize"
    /\ IF Summarizable(op.base, op.bound, op.from)
       THEN /\ Rewrite(Summarized(op.base, op.bound, op.from))
            /\ owed' = owed \ (Prompts(op.base) \ Prompts(log'))
       ELSE UNCHANGED <<log, epoch, epochs, owed>>
    /\ bound' = <<>>
    /\ op' = [pc |-> "save"]
    /\ UNCHANGED <<saved, turnVars, next, storeVars, files, compact, counterVars, serial,
                   tainted>>

-----------------------------------------------------------------------------
(* Resume: rebind reads the checkpoints back *)

Rebind == LET cps == {disk'[n] : n \in DOMAIN disk'} IN
          /\ done' = cps
          /\ cur' = {}
          /\ next' = NextTurn(cps)
          /\ bound' = Bounds(cps)

\* The controller is rebuilt, for a model switch say: the session is saved, and its
\* messages are carried over.
Rebuild ==
    /\ ~Running /\ op.pc = "idle" /\ compact.pc = "idle"
    /\ reloads < MaxReloads
    /\ log # <<>>
    /\ reloads' = reloads + 1
    /\ saved' = Saved
    /\ disk' = disk
    /\ Rebind
    /\ UNCHANGED <<log, turnVars, files, op, compact, edits, folds, manuals,
                   summaries, rewinds, historyVars>>

\* The process dies anywhere; a new one resumes the session from its file.  (For the
\* history: messages before a boundary that the file never held are gone with it.)
CrashAndResume ==
    /\ reloads < MaxReloads
    /\ saved.log # <<>>
    /\ reloads' = reloads + 1
    /\ log' = saved.log
    /\ epoch' = saved.epoch
    /\ owed' = owed \cap Prompts(log')
    /\ TurnOver /\ opening' = Idle /\ writing' = None
    /\ op' = Idle /\ compact' = Idle
    /\ disk' = [n \in DOMAIN disk |->
                  IF disk[n].epoch = saved.epoch /\ disk[n].idx > Len(saved.log)
                  THEN [disk[n] EXCEPT !.epoch = Unknown] ELSE disk[n]]
    /\ Rebind
    /\ UNCHANGED <<saved, files, edits, folds, manuals, summaries,
                   rewinds, serial, epochs, tainted>>

-----------------------------------------------------------------------------

Turn ==
    \/ StartTurn \/ Begin \/ OpenCheckpoint \/ AddPrompt \/ AddWork
    \/ \E f \in Files : PreEdit(f) \/ SubagentWrite(f)
    \/ WriteFile \/ EndTurn \/ ContinueGoal \/ CancelTurn \/ AutoSave

Compaction == AutoCompact \/ CompactBegin \/ CompactReplace \/ CompactSave

Rewind ==
    \/ \E k \in {c.turn : c \in All}, scope \in Scopes : RewindBegin(k, scope)
    \/ \E f \in Files : RestoreFile(f)
    \/ RestoreDone \/ CutLog \/ ForgetTurns \/ DropCheckpoints
    \/ \E n \in 0..MaxTurns : DeleteFile(n)
    \/ DeleteDone \/ SaveOp

Summarize == \/ \E k \in DOMAIN bound, from \in BOOLEAN : SummarizeBegin(k, from)
             \/ SummarizeEnd

Next == Turn \/ Compaction \/ Rewind \/ Summarize \/ Rebuild \/ CrashAndResume

Spec == Init /\ [][Next]_vars

-----------------------------------------------------------------------------
(* Properties *)

\* A sub-agent may write between the hook of the agent's last edit and that edit.
Contents == 0..MaxEdits + 1
Turns == 0..MaxTurns
Messages == [first : Turns, last : Turns, what : {"prompt", "work", "digest"}]

Epochs == 0..(1 + MaxFolds + MaxManual + MaxSummaries + MaxTurns + 2 * MaxRewinds)

IsLog(ms) == /\ Len(ms) <= MaxLog + MaxTurns
             /\ \A i \in DOMAIN ms : ms[i] \in Messages

IsCheckpoint(c) ==
    /\ c.turn \in Turns /\ c.idx \in Nat /\ c.serial \in Turns /\ c.epoch \in Epochs
    /\ DOMAIN c.snaps \subseteq Files
    /\ \A f \in DOMAIN c.snaps : c.snaps[f] \in Contents
    /\ c.at \in [Files -> Contents]

TypeOK ==
    /\ IsLog(log) /\ IsLog(saved.log) /\ saved.epoch \in Epochs
    /\ turnPC \in {"idle", "starting", "opening", "prompting", "running"}
    /\ start.len \in Nat /\ start.epoch \in Epochs
    /\ writing \in Files \cup {None}
    /\ next \in Turns
    /\ DOMAIN bound \subseteq Turns
    /\ \A n \in DOMAIN bound : /\ bound[n].idx \in Nat /\ bound[n].serial \in Turns
                               /\ bound[n].epoch \in Epochs
    /\ \A c \in All : IsCheckpoint(c)
    /\ Cardinality(cur) <= 1
    /\ DOMAIN disk \subseteq Turns
    /\ \A n \in DOMAIN disk : IsCheckpoint(disk[n]) /\ disk[n].turn = n
    /\ files \in [Files -> Contents]
    /\ serial \in Turns /\ epoch \in Epochs /\ epochs \in Epochs
    /\ owed \subseteq Turns /\ tainted \subseteq Turns

\* Boundary b cuts the log between the turns before it and the turns from it on.
Exact(b) ==
    /\ b.idx <= Len(log)
    /\ \A i \in DOMAIN log : IF i <= b.idx THEN log[i].last < b.serial
                             ELSE log[i].first >= b.serial

\* As long as no compaction or summary restructured the log after it was recorded, and
\* no crash took messages before it that were not in the session file yet, a boundary
\* separates the messages exactly, through cancelled turns, goal continuations,
\* rewinds, crashes and resumes: a rewind to it neither keeps a message of that turn
\* nor drops one of an earlier turn.
FreshBoundaryIsExact ==
    op.pc # "forget" => \A n \in DOMAIN bound : bound[n].epoch = epoch => Exact(bound[n])

\* A code rewind leaves every file as it was when the target turn began, whichever
\* turns touched it and however often, across rewinds of every scope, half-done ones
\* too, and across crashes: unless files changed since in ways no checkpoint holds.
RestoreIsExact ==
    op.pc = "restore" /\ DOMAIN op.plan = {} /\ op.turn \notin tainted
       => files = op.want

\* No two checkpoints share a turn number and the next turn gets a fresh one, so no
\* turn overwrites the snapshots of another.
NumbersAreUnique ==
    /\ \A c \in All, d \in All : c.turn = d.turn => c = d
    /\ op.pc # "drop" => \A c \in All : c.turn < next

\* Between operations the directory holds what the store holds: a resume brings back
\* each checkpoint that could be rewound to, and no other.
DiskIsMemory ==
    op.pc = "idle" => {disk[n] : n \in DOMAIN disk} = All

\* Only a cancel, a rewind, a summary or a crash takes a user's message out of the
\* log: compaction keeps the user's turns verbatim.
NoPromptLost == owed \subseteq Prompts(log)

\* Outside a turn and an operation, the session file holds the log.
TranscriptIsSaved ==
    ~Running /\ op.pc = "idle" /\ compact.pc = "idle" => saved.log = log

(* What the repository says and the code does not do *)

\* A boundary that a compaction or a summary made stale is reported "unavailable
\* rather than mis-truncating".
StaleBoundaryUnavailable ==
    ~Running => \A n \in DOMAIN bound : bound[n].idx <= Len(log) => Exact(bound[n])

\* RestoreCode "reverts the workspace to its state at the start of turn `fromTurn`".
RestoreIsAlwaysExact ==
    op.pc = "restore" /\ DOMAIN op.plan = {} => files = op.want

\* A cancelled turn is stripped, "discarding an incomplete turn (the user prompt plus
\* every assistant / tool message that followed)", "so the next prompt starts clean".
CancelledTurnIsStripped ==
    [][CancelTurn /\ (\E c \in cur : c.idx = start.len)
         => \A i \in DOMAIN log' : log'[i].last # serial]_vars

\* A rewind is "refused while a turn is running": the tool edits of a running turn are
\* recorded in an open checkpoint.
EditsAreRecorded ==
    writing # None => \E c \in cur : writing \in DOMAIN c.snaps
=============================================================================
