------------------------- MODULE SessionTrashProofs -------------------------
(***************************************************************************)
(* Theorems about the files of a desktop session, for any bounds and any   *)
(* scenarios in which a restore has the session to itself: the transcript  *)
(* is never lost, nothing at all is lost while nothing failed, and what    *)
(* was deleted does not come back where every save is waited for.          *)
(***************************************************************************)
EXTENDS SessionTrash, SequenceTheorems, TLAPS

-----------------------------------------------------------------------------
(* Types *)

\* What is left after a move is again an end of the list, and not the whole of it.
LEMMA Suffixes ==
  ASSUME NEW s \in Suffix, s # <<>>
  PROVE  Head(s) \in Art /\ Tail(s) \in Suffix /\ Tail(s) # ArtSeq
<1>1. CASE s = ArtSeq
  BY <1>1 DEF ArtSeq, Suffix, Art
<1>2. CASE s = <<"files", "subs">>
  BY <1>2 DEF ArtSeq, Suffix, Art
<1>3. CASE s = <<"subs">>
  BY <1>3 DEF ArtSeq, Suffix, Art
<1> QED
  BY <1>1, <1>2, <1>3 DEF Suffix

LEMMA Names ==
  /\ "transcript" \in Art /\ "subs" \in Art /\ "files" \in Art
  /\ ArtSeq \in Suffix /\ <<>> \in Suffix /\ ArtSeq # <<>>
BY DEF Art, ArtSeq, Suffix

\* The same of the next artifact of an operation.
LEMMA Remaining ==
  ASSUME TypeOK, NEW o \in Op, left[o] # <<>>
  PROVE  Next1(o) \in Art /\ Tail(left[o]) \in Suffix /\ Tail(left[o]) # ArtSeq
BY Suffixes DEF TypeOK, Next1

LEMMA FlagsStep == Flags /\ [Next]_vars => Flags'
<1> SUFFICES ASSUME Flags, [Next]_vars PROVE Flags'
  OBVIOUS
<1> USE DEF Flags, disk, saver, runtime, told
<1>1. CASE Load
  BY <1>1, Zenon DEF Load
<1>2. CASE Bind
  BY <1>2, Zenon DEF Bind
<1>3. CASE StartTurn
  BY <1>3, Zenon DEF StartTurn
<1>4. CASE EndTurn
  BY <1>4, Zenon DEF EndTurn
<1>5. CASE TickReads
  BY <1>5, Zenon DEF TickReads
<1>6. CASE TickWrites
  BY <1>6, Zenon DEF TickWrites
<1>7. CASE LoopReads
  BY <1>7, Zenon DEF LoopReads
<1>8. CASE LoopWrites
  BY <1>8, Zenon DEF LoopWrites
<1>9. CASE LoopEnds
  BY <1>9, Zenon DEF LoopEnds
<1>10. CASE JobTests
  BY <1>10, Zenon DEF JobTests
<1>11. CASE JobSaves
  BY <1>11, Zenon DEF JobSaves
<1>12. CASE AskDelete
  BY <1>12, Zenon DEF AskDelete
<1>13. CASE Unbind
  BY <1>13, Zenon DEF Unbind
<1>14. CASE Stop
  BY <1>14, Zenon DEF Stop
<1>15. CASE Release
  BY <1>15, Zenon DEF Release
<1>16. CASE Quiesce
  BY <1>16, Zenon DEF Quiesce
<1>17. CASE Drain
  BY <1>17, Zenon DEF Drain
<1>18. CASE BeginDestroy
  BY <1>18, Zenon DEF BeginDestroy
<1>19. CASE WaitJobs
  BY <1>19, Zenon DEF WaitJobs
<1>20. CASE WaitAllJobs
  BY <1>20, Zenon DEF WaitAllJobs
<1>21. CASE Prepare
  BY <1>21, Zenon DEF Prepare
<1>22. CASE MoveOut
  BY <1>22, Zenon DEF MoveOut
<1>23. CASE FinishDelete
  BY <1>23, Zenon DEF FinishDelete
<1>24. CASE AskRestore
  BY <1>24, Zenon DEF AskRestore
<1>25. CASE Target
  BY <1>25, Zenon DEF Target
<1>26. CASE MoveIn
  BY <1>26, Zenon DEF MoveIn
<1>27. CASE Purge
  BY <1>27, Zenon DEF Purge
<1>28. CASE AskClear
  BY <1>28, Zenon DEF AskClear
<1>29. CASE StopForClear
  BY <1>29, Zenon DEF StopForClear
<1>30. CASE WaitForClear
  BY <1>30, Zenon DEF WaitForClear
<1>31. CASE WaitAllForClear
  BY <1>31, Zenon DEF WaitAllForClear
<1>32. CASE Erase
  BY <1>32, Zenon DEF Erase
<1>33. CASE BuildAnother
  BY <1>33, Zenon DEF BuildAnother
<1>34. CASE ReadMarker
  BY <1>34, Zenon DEF ReadMarker
<1>35. CASE Reconcile
  BY <1>35, Zenon DEF Reconcile
<1>36. CASE Crash
  BY <1>36, Zenon DEF Crash
<1>37. CASE UNCHANGED vars
  BY <1>37, Zenon DEF vars
<1> QED
  BY <1>1, <1>2, <1>3, <1>4, <1>5, <1>6, <1>7, <1>8, <1>9, <1>10, <1>11, <1>12, <1>13,
     <1>14, <1>15, <1>16, <1>17, <1>18, <1>19, <1>20, <1>21, <1>22, <1>23, <1>24, <1>25,
     <1>26, <1>27, <1>28, <1>29, <1>30, <1>31, <1>32, <1>33, <1>34, <1>35, <1>36, <1>37
     DEF Next, Saver, Job, Delete, Restore, Clear, Boot

LEMMA TypeInit == Init => TypeOK
<1>1. Init => Flags
  BY Zenon DEF Init, Flags
<1> QED
  BY <1>1, BoundAssumption DEF Init, TypeOK, Op, Suffix, Deleting, Restoring, Clearing,
     Reconciling

LEMMA TypeStep == TypeOK /\ [Next]_vars => TypeOK'
<1> SUFFICES ASSUME TypeOK, [Next]_vars PROVE TypeOK'
  OBVIOUS
<1>0. Flags'
  BY FlagsStep DEF TypeOK
<1> USE DEF TypeOK, Op, Deleting, Restoring, Clearing, Reconciling, disk, saver, runtime, told
<1>1. CASE Load
  BY <1>0, <1>1, BoundAssumption, Names DEF Load, Listed
<1>2. CASE Bind
  BY <1>0, <1>2, BoundAssumption, Names DEF Bind
<1>3. CASE StartTurn
  BY <1>0, <1>3, BoundAssumption, Names DEF StartTurn
<1>4. CASE EndTurn
  BY <1>0, <1>4, BoundAssumption, Names DEF EndTurn, Write
<1>5. CASE TickReads
  BY <1>0, <1>5, BoundAssumption, Names DEF TickReads
<1>6. CASE TickWrites
  BY <1>0, <1>6, BoundAssumption, Names DEF TickWrites, Write
<1>7. CASE LoopReads
  BY <1>0, <1>7, BoundAssumption, Names DEF LoopReads
<1>8. CASE LoopWrites
  BY <1>0, <1>8, BoundAssumption, Names DEF LoopWrites, Write
<1>9. CASE LoopEnds
  BY <1>0, <1>9, BoundAssumption, Names DEF LoopEnds
<1>10. CASE JobTests
  BY <1>0, <1>10, BoundAssumption, Names DEF JobTests
<1>11. CASE JobSaves
  BY <1>0, <1>11, BoundAssumption, Names DEF JobSaves
<1>12. CASE AskDelete
  BY <1>0, <1>12, BoundAssumption, Names DEF AskDelete, Goto, Alone, Listed
<1>13. CASE Unbind
  BY <1>0, <1>13, BoundAssumption, Names DEF Unbind, Goto
<1>14. CASE Stop
  BY <1>0, <1>14, BoundAssumption, Names DEF Stop, Write, Goto
<1>15. CASE Release
  BY <1>0, <1>15, BoundAssumption, Names DEF Release, Goto
<1>16. CASE Quiesce
  BY <1>0, <1>16, BoundAssumption, Names DEF Quiesce, Goto
<1>17. CASE Drain
  BY <1>0, <1>17, BoundAssumption, Names DEF Drain, Goto
<1>18. CASE BeginDestroy
  BY <1>0, <1>18, BoundAssumption, Names DEF BeginDestroy, Goto
<1>19. CASE WaitJobs
  BY <1>0, <1>19, BoundAssumption, Names DEF WaitJobs, Goto
<1>20. CASE WaitAllJobs
  BY <1>0, <1>20, BoundAssumption, Names DEF WaitAllJobs, Goto
<1>21. CASE Prepare
  BY <1>0, <1>21, BoundAssumption, Names DEF Prepare, Goto, TellTrashed
<1>22. CASE MoveOut
  <2>1. CASE MoveToTrash("delete") /\ UNCHANGED <<pc, marker, wanted, faults>>
    BY <1>0, <1>22, <2>1, Remaining DEF MoveOut, MoveToTrash, Advance
  <2>2. CASE MoveFails("delete", live, trash) /\ UNCHANGED <<disk, wanted>>
                /\ Goto("delete", "failed") /\ left' = [left EXCEPT !["delete"] = <<>>]
    BY <1>0, <1>22, <2>2, BoundAssumption, Names DEF MoveOut, MoveFails, Goto
  <2>3. CASE marker' = "none" /\ Goto("delete", "done") /\ TellTrashed
                /\ UNCHANGED <<live, trash, left, faults>>
    BY <1>0, <1>22, <2>3 DEF MoveOut, Goto, TellTrashed
  <2> QED BY <1>22, <2>1, <2>2, <2>3 DEF MoveOut
<1>23. CASE FinishDelete
  BY <1>0, <1>23, BoundAssumption, Names DEF FinishDelete, Goto
<1>24. CASE AskRestore
  BY <1>0, <1>24, BoundAssumption, Names DEF AskRestore, Goto, Alone
<1>25. CASE Target
  BY <1>0, <1>25, BoundAssumption, Names DEF Target, Goto
<1>26. CASE MoveIn
  <2>1. CASE MoveBack /\ UNCHANGED <<pc, wanted, faults>>
    BY <1>0, <1>26, <2>1, Remaining DEF MoveIn, MoveBack, Advance
  <2>2. CASE MoveFails("restore", trash, live) /\ UNCHANGED <<live, trash, wanted>>
                /\ Goto("restore", "idle") /\ left' = [left EXCEPT !["restore"] = <<>>]
    BY <1>0, <1>26, <2>2, BoundAssumption, Names DEF MoveIn, MoveFails, Goto
  <2>3. CASE trash' = {} /\ Goto("restore", "idle") /\ wanted' = "restored"
                /\ UNCHANGED <<live, left, faults>>
    BY <1>0, <1>26, <2>3 DEF MoveIn, Goto
  <2> QED BY <1>26, <2>1, <2>2, <2>3 DEF MoveIn
<1>27. CASE Purge
  BY <1>0, <1>27, BoundAssumption, Names DEF Purge
<1>28. CASE AskClear
  BY <1>0, <1>28, BoundAssumption, Names DEF AskClear, Goto
<1>29. CASE StopForClear
  BY <1>0, <1>29, BoundAssumption, Names DEF StopForClear, Goto
<1>30. CASE WaitForClear
  BY <1>0, <1>30, BoundAssumption, Names DEF WaitForClear
<1>31. CASE WaitAllForClear
  BY <1>0, <1>31, BoundAssumption, Names DEF WaitAllForClear, Goto
<1>32. CASE Erase
  <2>1. CASE Remove("clear") /\ UNCHANGED <<marker, pc, destroying>>
    BY <1>0, <1>32, <2>1, Remaining DEF Erase, Remove, Advance
  <2>2. CASE marker' = "none" /\ Goto("clear", "idle") /\ UNCHANGED <<live, trash, left>>
    BY <1>0, <1>32, <2>2 DEF Erase, Goto
  <2> QED BY <1>32, <2>1, <2>2 DEF Erase
<1>33. CASE BuildAnother
  BY <1>0, <1>33, BoundAssumption, Names DEF BuildAnother, Goto
<1>34. CASE ReadMarker
  BY <1>0, <1>34, BoundAssumption, Names DEF ReadMarker, Goto, Alone
<1>35. CASE Reconcile
  <2>1. CASE MoveToTrash("reconcile") /\ UNCHANGED <<marker, pc, faults>>
    BY <1>0, <1>35, <2>1, Remaining DEF Reconcile, MoveToTrash, Advance
  <2>2. CASE Remove("reconcile") /\ UNCHANGED <<marker, pc, faults>>
    BY <1>0, <1>35, <2>2, Remaining DEF Reconcile, Remove, Advance
  <2>3. CASE MoveFails("reconcile", live, trash) /\ UNCHANGED disk
                /\ Goto("reconcile", "idle") /\ left' = [left EXCEPT !["reconcile"] = <<>>]
    BY <1>0, <1>35, <2>3, BoundAssumption, Names DEF Reconcile, MoveFails, Goto
  <2>4. CASE marker' = "none" /\ Goto("reconcile", "idle") /\ UNCHANGED <<live, trash, left, faults>>
    BY <1>0, <1>35, <2>4 DEF Reconcile, Goto
  <2> QED BY <1>35, <2>1, <2>2, <2>3, <2>4 DEF Reconcile
<1>36. CASE Crash
  BY <1>0, <1>36, BoundAssumption, Names DEF Crash
<1>37. CASE UNCHANGED vars
  BY <1>0, <1>37 DEF vars
<1> QED
  BY <1>1, <1>2, <1>3, <1>4, <1>5, <1>6, <1>7, <1>8, <1>9, <1>10, <1>11, <1>12, <1>13,
     <1>14, <1>15, <1>16, <1>17, <1>18, <1>19, <1>20, <1>21, <1>22, <1>23, <1>24, <1>25,
     <1>26, <1>27, <1>28, <1>29, <1>30, <1>31, <1>32, <1>33, <1>34, <1>35, <1>36, <1>37
     DEF Next, Saver, Job, Delete, Restore, Clear, Boot

-----------------------------------------------------------------------------
(* The scenarios the theorems are about *)

\* No restore runs at the same time as another operation.
NoOverlap == \A s \in Scenarios : "overlap" \notin s

\* A tab that is built while a session is under deletion meets no save that
\* nobody waited for.
CalmRebuilds == \A s \in Scenarios : "rebuild" \in s => s \cap {"late", "open", "stuck"} = {}

-----------------------------------------------------------------------------
(* The invariant *)

\* Only a clear leaves a marker to clear, and it comes after the user said so.
ClearErases ==
  /\ pc["clear"] \in {"waitAll", "remove"} => erased
  /\ marker = "clear" => erased
  /\ pc["reconcile"] = "clear" => erased

\* What an operation has yet to move.
Ahead(s) == {s[i] : i \in DOMAIN s}

\* A restore has the session for itself, and brings back all there is of it.
RestoreAlone ==
  /\ pc["restore"] # "idle" => pc["delete"] = "idle" /\ pc["reconcile"] \in {"idle", "due"}
  /\ pc["restore"] # "idle" => wanted = "kept"
  /\ pc["restore"] = "target" => "transcript" \in trash \/ erased
  /\ pc["restore"] = "move" => trash \subseteq Ahead(left["restore"])

\* No directory is in both places, so none is in the way of another.
OnePlace == "files" \notin live \cap trash

Settled == on \cap {"late", "open", "stuck"} = {}

\* Once a delete has gone past the tab nobody is left to save the session.
Calm == Settled /\ ~erased =>
  /\ ~tick
  /\ tab # "open" /\ pc["delete"] \notin {"stop", "release", "quiesce", "drain"} => ~turn /\ loop = "idle"
  /\ pc["delete"] \notin {"idle", "unbind"} => tab = "closed"
  /\ pc["delete"] = "unbind" => tab # "loaded"
  /\ pc["delete"] \in {"release", "quiesce", "drain"} => ~turn
  /\ pc["delete"] = "drain" => closing
  /\ turn => tab = "open" \/ pc["delete"] = "stop"

Early   == {"unbind", "stop", "release", "quiesce", "drain", "destroy", "wait"}
Waiting == {"waitAll", "prepare"}

\* A transcript that was moved out does not come back by itself, and a
\* session that was deleted is neither open nor in the list.
Gone == Settled /\ ~erased =>
  /\ pc["delete"] = "move" /\ left["delete"] # ArtSeq => "transcript" \notin live
  /\ pc["reconcile"] = "delete" /\ left["reconcile"] # ArtSeq => "transcript" \notin live
  /\ pc["delete"] \in Early \ {"wait"} => wanted = "kept"
  /\ wanted = "trashed" => tab = "closed" /\ ~Listed
  /\ marker # "none" \/ pc["reconcile"] = "delete" => tab = "closed" /\ pc["delete"] \notin Early
  /\ marker = "none" /\ pc["reconcile"] = "delete" => "transcript" \notin live

Unhurt  == faults = 0 /\ ~erased

\* While nothing failed, all that belongs to the session is somewhere.
AllKept == Unhurt => had \subseteq live \cup trash

\* The transcript goes to the trash first and leaves it first.
TrashLed == Unhurt =>
  /\ trash # {} => "transcript" \in trash \/ pc["restore"] = "move"
  /\ pc["delete"] = "move" /\ left["delete"] # ArtSeq => "transcript" \in trash
  /\ pc["reconcile"] = "delete" /\ left["reconcile"] # ArtSeq => "transcript" \in trash

\* A marker has somebody who will do what it says.
Marked == Unhurt =>
  /\ marker # "none" => pc["delete"] \in {"waitAll", "prepare", "move"} \/ pc["reconcile"] = "delete"
  /\ pc["delete"] \in Waiting /\ "transcript" \notin live => marker = "none" \/ pc["reconcile"] = "delete"

\* Until its files are moved a session under deletion is in its place; only a
\* reconciliation may have moved them first, when the delete was answered.
InPlace == Unhurt =>
  /\ pc["delete"] \in Early => "transcript" \in live \ trash
  /\ pc["delete"] \in Waiting => "transcript" \notin trash \/ ("transcript" \notin live /\ "rebuild" \in on)
  /\ "rebuild" \notin on => pc["reconcile"] = "idle"

\* What holds whatever fails, and what holds while nothing did.
Safe  == ClearErases /\ RestoreAlone /\ OnePlace /\ TranscriptKept /\ Calm /\ Gone
Whole == AllKept /\ TrashLed /\ Marked /\ InPlace

-----------------------------------------------------------------------------
(* Every step keeps it *)

\* The transcript is moved first.
LEMMA First == Head(ArtSeq) = "transcript" /\ \A s \in Suffix : s # <<>> => Tail(s) # ArtSeq
BY Suffixes DEF ArtSeq

\* A marker to clear comes from a clear only: deletes and reconciliations write none.
LEMMA ErasesStep ==
  ASSUME TypeOK, ClearErases, [Next]_vars
  PROVE  ClearErases'
<1> USE DEF ClearErases, TypeOK, Op, Deleting, Restoring, Clearing, Reconciling, disk,
            saver, runtime, told
<1>1. CASE Load \/ Bind \/ StartTurn \/ EndTurn \/ TickReads \/ TickWrites \/ LoopReads
             \/ LoopWrites \/ LoopEnds \/ JobTests \/ JobSaves \/ AskDelete \/ Unbind \/ Stop
             \/ Release \/ Quiesce \/ Drain \/ BeginDestroy \/ WaitAllJobs \/ FinishDelete
             \/ AskRestore \/ MoveIn \/ Purge
  BY <1>1 DEF Load, Listed, Bind, StartTurn, EndTurn, Write, TickReads, TickWrites,
     LoopReads, LoopWrites, LoopEnds, JobTests, JobSaves, AskDelete, Goto, Alone, Unbind,
     Stop, Release, Quiesce, Drain, BeginDestroy, WaitAllJobs, FinishDelete, AskRestore,
     MoveIn, MoveBack, MoveFails, CanMove, Next1, Advance, Purge
<1>2. CASE WaitJobs
  BY <1>2 DEF WaitJobs, Goto
<1>3. CASE Prepare
  BY <1>3 DEF Prepare, Goto, TellTrashed
<1>4. CASE MoveOut
  BY <1>4 DEF MoveOut, Goto, MoveToTrash, MoveFails, CanMove, Next1, Advance, TellTrashed
<1>5. CASE Target
  BY <1>5 DEF Target, Goto
<1>6. CASE AskClear
  BY <1>6 DEF AskClear, Goto
<1>7. CASE StopForClear
  BY <1>7 DEF StopForClear, Goto
<1>8. CASE WaitForClear
  BY <1>8 DEF WaitForClear
<1>9. CASE WaitAllForClear
  BY <1>9 DEF WaitAllForClear, Goto
<1>10. CASE Erase
  BY <1>10 DEF Erase, Goto, Remove, Next1, Advance
<1>11. CASE BuildAnother
  BY <1>11 DEF BuildAnother, Goto
<1>12. CASE ReadMarker
  BY <1>12 DEF ReadMarker, Goto, Alone
<1>13. CASE Reconcile
  BY <1>13 DEF Reconcile, Goto, MoveToTrash, Remove, MoveFails, CanMove, Next1, Advance
<1>14. CASE Crash
  BY <1>14 DEF Crash
<1>15. CASE UNCHANGED vars
  BY <1>15 DEF vars
<1> QED
  BY <1>1, <1>2, <1>3, <1>4, <1>5, <1>6, <1>7, <1>8, <1>9, <1>10, <1>11, <1>12, <1>13,
     <1>14, <1>15
     DEF Next, Saver, Job, Delete, Restore, Clear, Boot

\* No rename puts a directory over another.
LEMMA OnePlaceStep ==
  ASSUME TypeOK, OnePlace, [Next]_vars
  PROVE  OnePlace'
<1> USE DEF OnePlace, disk, saver, runtime, told
<1>1. CASE Load \/ Bind \/ StartTurn \/ EndTurn \/ TickReads \/ TickWrites \/ LoopReads
             \/ LoopWrites \/ LoopEnds \/ JobTests \/ JobSaves \/ AskDelete \/ Unbind \/ Stop
             \/ Release \/ Quiesce \/ Drain \/ BeginDestroy \/ WaitJobs \/ WaitAllJobs
             \/ FinishDelete \/ AskRestore \/ Purge \/ AskClear \/ StopForClear \/ WaitForClear
             \/ WaitAllForClear \/ BuildAnother \/ ReadMarker \/ Crash
  BY <1>1 DEF Load, Listed, Bind, StartTurn, EndTurn, Write, TickReads, TickWrites,
     LoopReads, LoopWrites, LoopEnds, JobTests, JobSaves, AskDelete, Goto, Alone, Unbind,
     Stop, Release, Quiesce, Drain, BeginDestroy, WaitJobs, WaitAllJobs, FinishDelete,
     AskRestore, Purge, AskClear, StopForClear, WaitForClear, WaitAllForClear, BuildAnother,
     ReadMarker, Crash
<1>2. CASE Prepare
  BY <1>2 DEF Prepare, Goto, TellTrashed
<1>3. CASE MoveOut
  BY <1>3 DEF MoveOut, Goto, MoveToTrash, MoveFails, CanMove, Next1, Advance, TellTrashed
<1>4. CASE Target
  BY <1>4 DEF Target, Goto
<1>5. CASE MoveIn
  BY <1>5 DEF MoveIn, Goto, MoveBack, MoveFails, CanMove, Next1, Advance
<1>6. CASE Erase
  BY <1>6 DEF Erase, Goto, Remove, Next1, Advance
<1>7. CASE Reconcile
  BY <1>7 DEF Reconcile, Goto, MoveToTrash, Remove, MoveFails, CanMove, Next1, Advance
<1>8. CASE UNCHANGED vars
  BY <1>8 DEF vars
<1> QED
  BY <1>1, <1>2, <1>3, <1>4, <1>5, <1>6, <1>7, <1>8
     DEF Next, Saver, Job, Delete, Restore, Clear, Boot

\* A step takes the head off what is ahead.
LEMMA AheadFacts ==
  /\ Ahead(ArtSeq) = Art
  /\ \A s \in Suffix \ {<<>>} : Ahead(s) \ {Head(s)} \subseteq Ahead(Tail(s))
<1>1. Ahead(ArtSeq) = Art
  BY DEF Ahead, ArtSeq, Art
<1>2. Ahead(ArtSeq) \ {Head(ArtSeq)} \subseteq Ahead(Tail(ArtSeq))
  BY DEF Ahead, ArtSeq
<1>3. Ahead(<<"files", "subs">>) \ {Head(<<"files", "subs">>)} \subseteq Ahead(Tail(<<"files", "subs">>))
  BY DEF Ahead
<1>4. Ahead(<<"subs">>) \ {Head(<<"subs">>)} \subseteq Ahead(Tail(<<"subs">>))
  BY DEF Ahead
<1> QED
  BY <1>1, <1>2, <1>3, <1>4 DEF Suffix

\* No other operation begins or goes on while a restore runs.
LEMMA RestoreStep ==
  ASSUME NoOverlap, TypeOK, RestoreAlone, [Next]_vars
  PROVE  RestoreAlone'
<1> USE DEF NoOverlap, RestoreAlone, TypeOK, Op, Deleting, Restoring, Clearing, Reconciling,
            disk, saver, runtime, told
<1>1. CASE Load \/ Bind \/ StartTurn \/ EndTurn \/ TickReads \/ TickWrites \/ LoopReads
             \/ LoopWrites \/ LoopEnds \/ JobTests \/ JobSaves \/ Unbind \/ Stop \/ Release
             \/ Quiesce \/ Drain \/ BeginDestroy \/ AskClear \/ StopForClear
  BY <1>1 DEF Load, Listed, Bind, StartTurn, EndTurn, Write, TickReads, TickWrites,
     LoopReads, LoopWrites, LoopEnds, JobTests, JobSaves, Unbind, Goto, Stop, Release,
     Quiesce, Drain, BeginDestroy, AskClear, StopForClear
<1>2. CASE AskDelete
  BY <1>2 DEF AskDelete, Goto, Alone, Listed
<1>3. CASE WaitJobs
  BY <1>3 DEF WaitJobs, Goto
<1>4. CASE WaitAllJobs
  BY <1>4 DEF WaitAllJobs, Goto
<1>5. CASE Prepare
  BY <1>5 DEF Prepare, Goto, TellTrashed
<1>6. CASE MoveOut
  BY <1>6 DEF MoveOut, Goto, MoveToTrash, MoveFails, CanMove, Next1, Advance, TellTrashed
<1>7. CASE FinishDelete
  BY <1>7 DEF FinishDelete, Goto
<1>8. CASE AskRestore
  BY <1>8 DEF AskRestore, Goto, Alone
<1>9. CASE Target
  BY <1>9, AheadFacts DEF Target, Goto
<1>10. CASE MoveIn
  <2>1. CASE MoveBack /\ UNCHANGED <<pc, wanted, faults>>
    BY <1>10, <2>1, AheadFacts DEF MoveIn, MoveBack, Next1, Advance
  <2>2. CASE MoveFails("restore", trash, live) /\ UNCHANGED <<live, trash, wanted>>
                /\ Goto("restore", "idle") /\ left' = [left EXCEPT !["restore"] = <<>>]
    BY <1>10, <2>2 DEF MoveIn, Goto
  <2>3. CASE left["restore"] = <<>> /\ trash' = {} /\ Goto("restore", "idle") /\ wanted' = "restored"
                /\ UNCHANGED <<live, left, faults>>
    BY <1>10, <2>3 DEF MoveIn, Goto
  <2> QED BY <1>10, <2>1, <2>2, <2>3 DEF MoveIn
<1>11. CASE Purge
  BY <1>11 DEF Purge
<1>12. CASE WaitForClear
  BY <1>12 DEF WaitForClear
<1>13. CASE WaitAllForClear
  BY <1>13 DEF WaitAllForClear, Goto
<1>14. CASE Erase
  BY <1>14 DEF Erase, Goto, Remove, Next1, Advance
<1>15. CASE BuildAnother
  BY <1>15 DEF BuildAnother, Goto
<1>16. CASE ReadMarker
  BY <1>16 DEF ReadMarker, Goto, Alone
<1>17. CASE Reconcile
  BY <1>17 DEF Reconcile, Goto, MoveToTrash, Remove, MoveFails, CanMove, Next1, Advance
<1>18. CASE Crash
  BY <1>18 DEF Crash
<1>19. CASE UNCHANGED vars
  BY <1>19 DEF vars
<1> QED
  BY <1>1, <1>2, <1>3, <1>4, <1>5, <1>6, <1>7, <1>8, <1>9, <1>10, <1>11, <1>12, <1>13,
     <1>14, <1>15, <1>16, <1>17, <1>18, <1>19
     DEF Next, Saver, Job, Delete, Restore, Clear, Boot

\* A directory is emptied only when what is in it is in the other place, or was erased.
LEMMA KeptStep ==
  ASSUME TypeOK, ClearErases, RestoreAlone, TranscriptKept, [Next]_vars
  PROVE  TranscriptKept'
<1> USE DEF TranscriptKept, ClearErases, RestoreAlone, TypeOK, Op, Deleting, Restoring,
            Clearing, Reconciling, disk, saver, runtime, told
<1>1. CASE Load \/ Bind \/ StartTurn \/ EndTurn \/ TickReads \/ TickWrites \/ LoopReads
             \/ LoopWrites \/ LoopEnds \/ JobTests \/ JobSaves \/ AskDelete \/ Unbind \/ Stop
             \/ Release \/ Quiesce \/ Drain \/ BeginDestroy \/ WaitJobs \/ WaitAllJobs
             \/ FinishDelete \/ AskRestore \/ Purge \/ AskClear \/ StopForClear \/ WaitForClear
             \/ WaitAllForClear \/ BuildAnother \/ ReadMarker \/ Crash
  BY <1>1 DEF Load, Listed, Bind, StartTurn, EndTurn, Write, TickReads, TickWrites,
     LoopReads, LoopWrites, LoopEnds, JobTests, JobSaves, AskDelete, Goto, Alone, Unbind,
     Stop, Release, Quiesce, Drain, BeginDestroy, WaitJobs, WaitAllJobs, FinishDelete,
     AskRestore, Purge, AskClear, StopForClear, WaitForClear, WaitAllForClear, BuildAnother,
     ReadMarker, Crash
<1>2. CASE Prepare
  BY <1>2 DEF Prepare, Goto, TellTrashed
<1>3. CASE MoveOut
  BY <1>3 DEF MoveOut, Goto, MoveToTrash, MoveFails, CanMove, Next1, Advance, TellTrashed
<1>4. CASE Target
  BY <1>4 DEF Target, Goto
<1>5. CASE MoveIn
  <2>1. CASE MoveBack /\ UNCHANGED <<pc, wanted, faults>>
    BY <1>5, <2>1 DEF MoveIn, MoveBack
  <2>2. CASE MoveFails("restore", trash, live) /\ UNCHANGED <<live, trash, wanted>>
                /\ Goto("restore", "idle") /\ left' = [left EXCEPT !["restore"] = <<>>]
    BY <1>5, <2>2 DEF MoveIn
  <2>3. CASE left["restore"] = <<>> /\ trash' = {} /\ Goto("restore", "idle") /\ wanted' = "restored"
                /\ UNCHANGED <<live, left, faults>>
    BY <1>5, <2>3 DEF MoveIn, Ahead
  <2> QED BY <1>5, <2>1, <2>2, <2>3 DEF MoveIn
<1>6. CASE Erase
  BY <1>6 DEF Erase, Goto, Remove, Next1, Advance
<1>7. CASE Reconcile
  <2>1. CASE pc["reconcile"] = "delete" /\ MoveToTrash("reconcile") /\ UNCHANGED <<marker, pc, faults>>
    BY <1>7, <2>1 DEF Reconcile, MoveToTrash
  <2>2. CASE pc["reconcile"] = "clear" /\ Remove("reconcile") /\ UNCHANGED <<marker, pc, faults>>
    BY <1>7, <2>2 DEF Reconcile
  <2>3. CASE MoveFails("reconcile", live, trash) /\ UNCHANGED disk
                /\ Goto("reconcile", "idle") /\ left' = [left EXCEPT !["reconcile"] = <<>>]
    BY <1>7, <2>3 DEF Reconcile
  <2>4. CASE left["reconcile"] = <<>> /\ marker' = "none" /\ Goto("reconcile", "idle")
                /\ UNCHANGED <<live, trash, left, faults>>
    BY <1>7, <2>4 DEF Reconcile
  <2> QED BY <1>7, <2>1, <2>2, <2>3, <2>4 DEF Reconcile
<1>8. CASE UNCHANGED vars
  BY <1>8 DEF vars
<1> QED
  BY <1>1, <1>2, <1>3, <1>4, <1>5, <1>6, <1>7, <1>8
     DEF Next, Saver, Job, Delete, Restore, Clear, Boot

\* Stopping, releasing and draining end every save before the files are touched.
LEMMA CalmStep ==
  ASSUME TypeOK, ClearErases, RestoreAlone, Calm, Gone, [Next]_vars
  PROVE  Calm'
<1> USE DEF Calm, Gone, ClearErases, RestoreAlone, Settled, Listed, TypeOK, Op, Deleting,
            Restoring, Clearing, Reconciling, disk, saver, runtime, told
<1>1. CASE Load
  BY <1>1 DEF Load, Listed
<1>2. CASE Bind
  BY <1>2 DEF Bind
<1>3. CASE StartTurn
  BY <1>3 DEF StartTurn
<1>4. CASE EndTurn
  BY <1>4 DEF EndTurn, Write
<1>5. CASE TickReads
  BY <1>5 DEF TickReads
<1>6. CASE TickWrites
  BY <1>6 DEF TickWrites, Write
<1>7. CASE LoopReads
  BY <1>7 DEF LoopReads
<1>8. CASE LoopWrites
  BY <1>8 DEF LoopWrites, Write
<1>9. CASE LoopEnds
  BY <1>9 DEF LoopEnds
<1>10. CASE JobTests
  BY <1>10 DEF JobTests
<1>11. CASE JobSaves
  BY <1>11 DEF JobSaves
<1>12. CASE AskDelete
  BY <1>12 DEF AskDelete, Goto, Alone, Listed
<1>13. CASE Unbind
  BY <1>13 DEF Unbind, Goto
<1>14. CASE Stop
  BY <1>14 DEF Stop, Write, Goto
<1>15. CASE Release
  BY <1>15 DEF Release, Goto
<1>16. CASE Quiesce
  BY <1>16 DEF Quiesce, Goto
<1>17. CASE Drain
  BY <1>17 DEF Drain, Goto
<1>18. CASE BeginDestroy
  BY <1>18 DEF BeginDestroy, Goto
<1>19. CASE WaitJobs
  BY <1>19 DEF WaitJobs, Goto
<1>20. CASE WaitAllJobs
  BY <1>20 DEF WaitAllJobs, Goto
<1>21. CASE Prepare
  BY <1>21 DEF Prepare, Goto, TellTrashed
<1>22. CASE MoveOut
  BY <1>22 DEF MoveOut, Goto, MoveToTrash, MoveFails, CanMove, Next1, Advance, TellTrashed
<1>23. CASE FinishDelete
  BY <1>23 DEF FinishDelete, Goto
<1>24. CASE AskRestore
  BY <1>24 DEF AskRestore, Goto, Alone
<1>25. CASE Target
  BY <1>25 DEF Target, Goto
<1>26. CASE MoveIn
  BY <1>26 DEF MoveIn, Goto, MoveBack, MoveFails, CanMove, Next1, Advance
<1>27. CASE Purge
  BY <1>27 DEF Purge
<1>28. CASE AskClear
  BY <1>28 DEF AskClear, Goto
<1>29. CASE StopForClear
  BY <1>29 DEF StopForClear, Goto
<1>30. CASE WaitForClear
  BY <1>30 DEF WaitForClear
<1>31. CASE WaitAllForClear
  BY <1>31 DEF WaitAllForClear, Goto
<1>32. CASE Erase
  BY <1>32 DEF Erase, Goto, Remove, Next1, Advance
<1>33. CASE BuildAnother
  BY <1>33 DEF BuildAnother, Goto
<1>34. CASE ReadMarker
  BY <1>34 DEF ReadMarker, Goto, Alone
<1>35. CASE Reconcile
  BY <1>35 DEF Reconcile, Goto, MoveToTrash, Remove, MoveFails, CanMove, Next1, Advance
<1>36. CASE Crash
  BY <1>36 DEF Crash
<1>37. CASE UNCHANGED vars
  BY <1>37 DEF vars
<1> QED
  BY <1>1, <1>2, <1>3, <1>4, <1>5, <1>6, <1>7, <1>8, <1>9, <1>10, <1>11, <1>12, <1>13,
     <1>14, <1>15, <1>16, <1>17, <1>18, <1>19, <1>20, <1>21, <1>22, <1>23, <1>24, <1>25,
     <1>26, <1>27, <1>28, <1>29, <1>30, <1>31, <1>32, <1>33, <1>34, <1>35, <1>36, <1>37
     DEF Next, Saver, Job, Delete, Restore, Clear, Boot

\* What is moved out is not written again, so the answer of a delete stands.
LEMMA GoneStep ==
  ASSUME NoOverlap, TypeOK, ClearErases, RestoreAlone, Calm, Gone, [Next]_vars
  PROVE  Gone'
<1> USE DEF NoOverlap, Early, Calm, Gone, ClearErases, RestoreAlone, Settled, Listed,
            TypeOK, Op, Deleting, Restoring, Clearing, Reconciling, disk, saver, runtime,
            told
<1>1. CASE Load
  BY <1>1 DEF Load, Listed
<1>2. CASE Bind
  BY <1>2 DEF Bind
<1>3. CASE StartTurn
  BY <1>3 DEF StartTurn
<1>4. CASE EndTurn
  BY <1>4 DEF EndTurn, Write
<1>5. CASE TickReads
  BY <1>5 DEF TickReads
<1>6. CASE TickWrites
  BY <1>6 DEF TickWrites, Write
<1>7. CASE LoopReads
  BY <1>7 DEF LoopReads
<1>8. CASE LoopWrites
  BY <1>8 DEF LoopWrites, Write
<1>9. CASE LoopEnds
  BY <1>9 DEF LoopEnds
<1>10. CASE JobTests
  BY <1>10 DEF JobTests
<1>11. CASE JobSaves
  BY <1>11 DEF JobSaves
<1>12. CASE AskDelete
  BY <1>12 DEF AskDelete, Goto, Alone, Listed
<1>13. CASE Unbind
  BY <1>13 DEF Unbind, Goto
<1>14. CASE Stop
  BY <1>14 DEF Stop, Write, Goto
<1>15. CASE Release
  BY <1>15 DEF Release, Goto
<1>16. CASE Quiesce
  BY <1>16 DEF Quiesce, Goto
<1>17. CASE Drain
  BY <1>17 DEF Drain, Goto
<1>18. CASE BeginDestroy
  BY <1>18 DEF BeginDestroy, Goto
<1>19. CASE WaitJobs
  BY <1>19 DEF WaitJobs, Goto
<1>20. CASE WaitAllJobs
  BY <1>20 DEF WaitAllJobs, Goto
<1>21. CASE Prepare
  BY <1>21 DEF Prepare, Goto, TellTrashed
<1>22. CASE MoveOut
  <2>1. CASE MoveToTrash("delete") /\ UNCHANGED <<pc, marker, wanted, faults>>
    BY <1>22, <2>1, First DEF MoveOut, MoveToTrash, Next1, Advance
  <2>2. CASE MoveFails("delete", live, trash) /\ UNCHANGED <<disk, wanted>>
                /\ Goto("delete", "failed") /\ left' = [left EXCEPT !["delete"] = <<>>]
    BY <1>22, <2>2 DEF MoveOut, Goto
  <2>3. CASE left["delete"] = <<>> /\ marker' = "none" /\ Goto("delete", "done") /\ TellTrashed
                /\ UNCHANGED <<live, trash, left, faults>>
    BY <1>22, <2>3, Names DEF MoveOut, Goto, TellTrashed
  <2> QED BY <1>22, <2>1, <2>2, <2>3 DEF MoveOut
<1>23. CASE FinishDelete
  BY <1>23 DEF FinishDelete, Goto
<1>24. CASE AskRestore
  BY <1>24 DEF AskRestore, Goto, Alone
<1>25. CASE Target
  BY <1>25 DEF Target, Goto
<1>26. CASE MoveIn
  BY <1>26 DEF MoveIn, Goto, MoveBack, MoveFails, CanMove, Next1, Advance
<1>27. CASE Purge
  BY <1>27 DEF Purge
<1>28. CASE AskClear
  BY <1>28 DEF AskClear, Goto
<1>29. CASE StopForClear
  BY <1>29 DEF StopForClear, Goto
<1>30. CASE WaitForClear
  BY <1>30 DEF WaitForClear
<1>31. CASE WaitAllForClear
  BY <1>31 DEF WaitAllForClear, Goto
<1>32. CASE Erase
  BY <1>32 DEF Erase, Goto, Remove, Next1, Advance
<1>33. CASE BuildAnother
  BY <1>33 DEF BuildAnother, Goto
<1>34. CASE ReadMarker
  BY <1>34 DEF ReadMarker, Goto, Alone
<1>35. CASE Reconcile
  <2>1. CASE pc["reconcile"] = "delete" /\ MoveToTrash("reconcile") /\ UNCHANGED <<marker, pc, faults>>
    BY <1>35, <2>1, First DEF Reconcile, MoveToTrash, Next1, Advance
  <2>2. CASE pc["reconcile"] = "clear" /\ Remove("reconcile") /\ UNCHANGED <<marker, pc, faults>>
    BY <1>35, <2>2 DEF Reconcile
  <2>3. CASE MoveFails("reconcile", live, trash) /\ UNCHANGED disk
                /\ Goto("reconcile", "idle") /\ left' = [left EXCEPT !["reconcile"] = <<>>]
    BY <1>35, <2>3 DEF Reconcile, Goto
  <2>4. CASE left["reconcile"] = <<>> /\ marker' = "none" /\ Goto("reconcile", "idle")
                /\ UNCHANGED <<live, trash, left, faults>>
    BY <1>35, <2>4, Names DEF Reconcile, Goto
  <2> QED BY <1>35, <2>1, <2>2, <2>3, <2>4 DEF Reconcile
<1>36. CASE Crash
  BY <1>36 DEF Crash
<1>37. CASE UNCHANGED vars
  BY <1>37 DEF vars
<1> QED
  BY <1>1, <1>2, <1>3, <1>4, <1>5, <1>6, <1>7, <1>8, <1>9, <1>10, <1>11, <1>12, <1>13,
     <1>14, <1>15, <1>16, <1>17, <1>18, <1>19, <1>20, <1>21, <1>22, <1>23, <1>24, <1>25,
     <1>26, <1>27, <1>28, <1>29, <1>30, <1>31, <1>32, <1>33, <1>34, <1>35, <1>36, <1>37
     DEF Next, Saver, Job, Delete, Restore, Clear, Boot

\* The trash item is emptied only when it holds nothing of the session.
LEMMA AllKeptStep ==
  ASSUME CalmRebuilds, TypeOK, ClearErases, RestoreAlone, OnePlace, TranscriptKept, Calm, Gone,
         AllKept, TrashLed, Marked, InPlace, [Next]_vars
  PROVE  AllKept'
<1> USE DEF AllKept, CalmRebuilds, Unhurt, Early, Waiting, Calm, Gone, ClearErases,
            RestoreAlone, OnePlace, TranscriptKept, TrashLed, InPlace, Marked, Settled,
            Listed, TypeOK, Op, Deleting, Restoring, Clearing, Reconciling, disk, saver,
            runtime, told
<1>1. CASE Load
  BY <1>1 DEF Load, Listed
<1>2. CASE Bind
  BY <1>2 DEF Bind
<1>3. CASE StartTurn
  BY <1>3 DEF StartTurn
<1>4. CASE EndTurn
  BY <1>4 DEF EndTurn, Write
<1>5. CASE TickReads
  BY <1>5 DEF TickReads
<1>6. CASE TickWrites
  BY <1>6 DEF TickWrites, Write
<1>7. CASE LoopReads
  BY <1>7 DEF LoopReads
<1>8. CASE LoopWrites
  BY <1>8 DEF LoopWrites, Write
<1>9. CASE LoopEnds
  BY <1>9 DEF LoopEnds
<1>10. CASE JobTests
  BY <1>10 DEF JobTests
<1>11. CASE JobSaves
  BY <1>11 DEF JobSaves
<1>12. CASE AskDelete
  BY <1>12 DEF AskDelete, Goto, Alone, Listed
<1>13. CASE Unbind
  BY <1>13 DEF Unbind, Goto
<1>14. CASE Stop
  BY <1>14 DEF Stop, Write, Goto
<1>15. CASE Release
  BY <1>15 DEF Release, Goto
<1>16. CASE Quiesce
  BY <1>16 DEF Quiesce, Goto
<1>17. CASE Drain
  BY <1>17 DEF Drain, Goto
<1>18. CASE BeginDestroy
  BY <1>18 DEF BeginDestroy, Goto
<1>19. CASE WaitJobs
  BY <1>19 DEF WaitJobs, Goto
<1>20. CASE WaitAllJobs
  BY <1>20 DEF WaitAllJobs, Goto
<1>21. CASE Prepare
  BY <1>21 DEF Prepare, Goto, TellTrashed
<1>22. CASE MoveOut
  BY <1>22 DEF MoveOut, Goto, MoveToTrash, MoveFails, CanMove, Next1, Advance, TellTrashed
<1>23. CASE FinishDelete
  BY <1>23 DEF FinishDelete, Goto
<1>24. CASE AskRestore
  BY <1>24 DEF AskRestore, Goto, Alone
<1>25. CASE Target
  BY <1>25 DEF Target, Goto
<1>26. CASE MoveIn
  <2>1. CASE MoveBack /\ UNCHANGED <<pc, wanted, faults>>
    BY <1>26, <2>1 DEF MoveIn, MoveBack
  <2>2. CASE MoveFails("restore", trash, live) /\ UNCHANGED <<live, trash, wanted>>
                /\ Goto("restore", "idle") /\ left' = [left EXCEPT !["restore"] = <<>>]
    BY <1>26, <2>2 DEF MoveIn, MoveFails, CanMove
  <2>3. CASE left["restore"] = <<>> /\ trash' = {} /\ Goto("restore", "idle") /\ wanted' = "restored"
                /\ UNCHANGED <<live, left, faults>>
    BY <1>26, <2>3 DEF MoveIn, Ahead
  <2> QED BY <1>26, <2>1, <2>2, <2>3 DEF MoveIn
<1>27. CASE Purge
  BY <1>27 DEF Purge
<1>28. CASE AskClear
  BY <1>28 DEF AskClear, Goto
<1>29. CASE StopForClear
  BY <1>29 DEF StopForClear, Goto
<1>30. CASE WaitForClear
  BY <1>30 DEF WaitForClear
<1>31. CASE WaitAllForClear
  BY <1>31 DEF WaitAllForClear, Goto
<1>32. CASE Erase
  BY <1>32 DEF Erase, Goto, Remove, Next1, Advance
<1>33. CASE BuildAnother
  BY <1>33 DEF BuildAnother, Goto
<1>34. CASE ReadMarker
  BY <1>34 DEF ReadMarker, Goto, Alone
<1>35. CASE Reconcile
  BY <1>35 DEF Reconcile, Goto, MoveToTrash, Remove, MoveFails, CanMove, Next1, Advance
<1>36. CASE Crash
  BY <1>36 DEF Crash
<1>37. CASE UNCHANGED vars
  BY <1>37 DEF vars
<1> QED
  BY <1>1, <1>2, <1>3, <1>4, <1>5, <1>6, <1>7, <1>8, <1>9, <1>10, <1>11, <1>12, <1>13,
     <1>14, <1>15, <1>16, <1>17, <1>18, <1>19, <1>20, <1>21, <1>22, <1>23, <1>24, <1>25,
     <1>26, <1>27, <1>28, <1>29, <1>30, <1>31, <1>32, <1>33, <1>34, <1>35, <1>36, <1>37
     DEF Next, Saver, Job, Delete, Restore, Clear, Boot

\* The first artifact to be moved is the transcript, so the item is known by it.
LEMMA TrashLedStep ==
  ASSUME CalmRebuilds, TypeOK, ClearErases, RestoreAlone, OnePlace, TranscriptKept, Calm, Gone,
         AllKept, TrashLed, Marked, InPlace, [Next]_vars
  PROVE  TrashLed'
<1> USE DEF CalmRebuilds, Unhurt, Early, Waiting, Calm, Gone, ClearErases, RestoreAlone,
            OnePlace, TranscriptKept, TrashLed, InPlace, Marked, Settled, Listed, TypeOK,
            Op, Deleting, Restoring, Clearing, Reconciling, disk, saver, runtime, told
<1>1. CASE Load
  BY <1>1 DEF Load, Listed
<1>2. CASE Bind
  BY <1>2 DEF Bind
<1>3. CASE StartTurn
  BY <1>3 DEF StartTurn
<1>4. CASE EndTurn
  BY <1>4 DEF EndTurn, Write
<1>5. CASE TickReads
  BY <1>5 DEF TickReads
<1>6. CASE TickWrites
  BY <1>6 DEF TickWrites, Write
<1>7. CASE LoopReads
  BY <1>7 DEF LoopReads
<1>8. CASE LoopWrites
  BY <1>8 DEF LoopWrites, Write
<1>9. CASE LoopEnds
  BY <1>9 DEF LoopEnds
<1>10. CASE JobTests
  BY <1>10 DEF JobTests
<1>11. CASE JobSaves
  BY <1>11 DEF JobSaves
<1>12. CASE AskDelete
  BY <1>12 DEF AskDelete, Goto, Alone, Listed
<1>13. CASE Unbind
  BY <1>13 DEF Unbind, Goto
<1>14. CASE Stop
  BY <1>14 DEF Stop, Write, Goto
<1>15. CASE Release
  BY <1>15 DEF Release, Goto
<1>16. CASE Quiesce
  BY <1>16 DEF Quiesce, Goto
<1>17. CASE Drain
  BY <1>17 DEF Drain, Goto
<1>18. CASE BeginDestroy
  BY <1>18 DEF BeginDestroy, Goto
<1>19. CASE WaitJobs
  BY <1>19 DEF WaitJobs, Goto
<1>20. CASE WaitAllJobs
  BY <1>20 DEF WaitAllJobs, Goto
<1>21. CASE Prepare
  BY <1>21 DEF Prepare, Goto, TellTrashed
<1>22. CASE MoveOut
  <2>1. CASE MoveToTrash("delete") /\ UNCHANGED <<pc, marker, wanted, faults>>
    BY <1>22, <2>1, First DEF MoveOut, MoveToTrash, Next1, Advance
  <2>2. CASE MoveFails("delete", live, trash) /\ UNCHANGED <<disk, wanted>>
                /\ Goto("delete", "failed") /\ left' = [left EXCEPT !["delete"] = <<>>]
    BY <1>22, <2>2 DEF MoveOut, MoveFails, CanMove, Goto
  <2>3. CASE left["delete"] = <<>> /\ marker' = "none" /\ Goto("delete", "done") /\ TellTrashed
                /\ UNCHANGED <<live, trash, left, faults>>
    BY <1>22, <2>3 DEF MoveOut, Goto
  <2> QED BY <1>22, <2>1, <2>2, <2>3 DEF MoveOut
<1>23. CASE FinishDelete
  BY <1>23 DEF FinishDelete, Goto
<1>24. CASE AskRestore
  BY <1>24 DEF AskRestore, Goto, Alone
<1>25. CASE Target
  BY <1>25 DEF Target, Goto
<1>26. CASE MoveIn
  BY <1>26 DEF MoveIn, Goto, MoveBack, MoveFails, CanMove, Next1, Advance
<1>27. CASE Purge
  BY <1>27 DEF Purge
<1>28. CASE AskClear
  BY <1>28 DEF AskClear, Goto
<1>29. CASE StopForClear
  BY <1>29 DEF StopForClear, Goto
<1>30. CASE WaitForClear
  BY <1>30 DEF WaitForClear
<1>31. CASE WaitAllForClear
  BY <1>31 DEF WaitAllForClear, Goto
<1>32. CASE Erase
  BY <1>32 DEF Erase, Goto, Remove, Next1, Advance
<1>33. CASE BuildAnother
  BY <1>33 DEF BuildAnother, Goto
<1>34. CASE ReadMarker
  BY <1>34 DEF ReadMarker, Goto, Alone
<1>35. CASE Reconcile
  <2>1. CASE pc["reconcile"] = "delete" /\ MoveToTrash("reconcile") /\ UNCHANGED <<marker, pc, faults>>
    BY <1>35, <2>1, First DEF Reconcile, MoveToTrash, Next1, Advance
  <2>2. CASE pc["reconcile"] = "clear" /\ Remove("reconcile") /\ UNCHANGED <<marker, pc, faults>>
    BY <1>35, <2>2 DEF Reconcile
  <2>3. CASE MoveFails("reconcile", live, trash) /\ UNCHANGED disk
                /\ Goto("reconcile", "idle") /\ left' = [left EXCEPT !["reconcile"] = <<>>]
    BY <1>35, <2>3 DEF Reconcile, MoveFails, CanMove, Goto
  <2>4. CASE left["reconcile"] = <<>> /\ marker' = "none" /\ Goto("reconcile", "idle")
                /\ UNCHANGED <<live, trash, left, faults>>
    BY <1>35, <2>4 DEF Reconcile, Goto
  <2> QED BY <1>35, <2>1, <2>2, <2>3, <2>4 DEF Reconcile
<1>36. CASE Crash
  BY <1>36 DEF Crash
<1>37. CASE UNCHANGED vars
  BY <1>37 DEF vars
<1> QED
  BY <1>1, <1>2, <1>3, <1>4, <1>5, <1>6, <1>7, <1>8, <1>9, <1>10, <1>11, <1>12, <1>13,
     <1>14, <1>15, <1>16, <1>17, <1>18, <1>19, <1>20, <1>21, <1>22, <1>23, <1>24, <1>25,
     <1>26, <1>27, <1>28, <1>29, <1>30, <1>31, <1>32, <1>33, <1>34, <1>35, <1>36, <1>37
     DEF Next, Saver, Job, Delete, Restore, Clear, Boot

\* The marker is removed by the delete that wrote it or by a reconciliation.
LEMMA MarkedStep ==
  ASSUME CalmRebuilds, TypeOK, ClearErases, RestoreAlone, OnePlace, TranscriptKept, Calm, Gone,
         AllKept, TrashLed, Marked, InPlace, [Next]_vars
  PROVE  Marked'
<1> USE DEF CalmRebuilds, Unhurt, Early, Waiting, Calm, Gone, ClearErases, RestoreAlone,
            OnePlace, TranscriptKept, TrashLed, InPlace, Marked, Settled, Listed, TypeOK,
            Op, Deleting, Restoring, Clearing, Reconciling, disk, saver, runtime, told
<1>1. CASE Load
  BY <1>1 DEF Load, Listed
<1>2. CASE Bind
  BY <1>2 DEF Bind
<1>3. CASE StartTurn
  BY <1>3 DEF StartTurn
<1>4. CASE EndTurn
  BY <1>4 DEF EndTurn, Write
<1>5. CASE TickReads
  BY <1>5 DEF TickReads
<1>6. CASE TickWrites
  BY <1>6 DEF TickWrites, Write
<1>7. CASE LoopReads
  BY <1>7 DEF LoopReads
<1>8. CASE LoopWrites
  BY <1>8 DEF LoopWrites, Write
<1>9. CASE LoopEnds
  BY <1>9 DEF LoopEnds
<1>10. CASE JobTests
  BY <1>10 DEF JobTests
<1>11. CASE JobSaves
  BY <1>11 DEF JobSaves
<1>12. CASE AskDelete
  BY <1>12 DEF AskDelete, Goto, Alone, Listed
<1>13. CASE Unbind
  BY <1>13 DEF Unbind, Goto
<1>14. CASE Stop
  BY <1>14 DEF Stop, Write, Goto
<1>15. CASE Release
  BY <1>15 DEF Release, Goto
<1>16. CASE Quiesce
  BY <1>16 DEF Quiesce, Goto
<1>17. CASE Drain
  BY <1>17 DEF Drain, Goto
<1>18. CASE BeginDestroy
  BY <1>18 DEF BeginDestroy, Goto
<1>19. CASE WaitJobs
  BY <1>19 DEF WaitJobs, Goto
<1>20. CASE WaitAllJobs
  BY <1>20 DEF WaitAllJobs, Goto
<1>21. CASE Prepare
  BY <1>21 DEF Prepare, Goto, TellTrashed
<1>22. CASE MoveOut
  BY <1>22 DEF MoveOut, Goto, MoveToTrash, MoveFails, CanMove, Next1, Advance, TellTrashed
<1>23. CASE FinishDelete
  BY <1>23 DEF FinishDelete, Goto
<1>24. CASE AskRestore
  BY <1>24 DEF AskRestore, Goto, Alone
<1>25. CASE Target
  BY <1>25 DEF Target, Goto
<1>26. CASE MoveIn
  BY <1>26 DEF MoveIn, Goto, MoveBack, MoveFails, CanMove, Next1, Advance
<1>27. CASE Purge
  BY <1>27 DEF Purge
<1>28. CASE AskClear
  BY <1>28 DEF AskClear, Goto
<1>29. CASE StopForClear
  BY <1>29 DEF StopForClear, Goto
<1>30. CASE WaitForClear
  BY <1>30 DEF WaitForClear
<1>31. CASE WaitAllForClear
  BY <1>31 DEF WaitAllForClear, Goto
<1>32. CASE Erase
  BY <1>32 DEF Erase, Goto, Remove, Next1, Advance
<1>33. CASE BuildAnother
  BY <1>33 DEF BuildAnother, Goto
<1>34. CASE ReadMarker
  BY <1>34 DEF ReadMarker, Goto, Alone
<1>35. CASE Reconcile
  BY <1>35 DEF Reconcile, Goto, MoveToTrash, Remove, MoveFails, CanMove, Next1, Advance
<1>36. CASE Crash
  BY <1>36 DEF Crash
<1>37. CASE UNCHANGED vars
  BY <1>37 DEF vars
<1> QED
  BY <1>1, <1>2, <1>3, <1>4, <1>5, <1>6, <1>7, <1>8, <1>9, <1>10, <1>11, <1>12, <1>13,
     <1>14, <1>15, <1>16, <1>17, <1>18, <1>19, <1>20, <1>21, <1>22, <1>23, <1>24, <1>25,
     <1>26, <1>27, <1>28, <1>29, <1>30, <1>31, <1>32, <1>33, <1>34, <1>35, <1>36, <1>37
     DEF Next, Saver, Job, Delete, Restore, Clear, Boot

\* The transcript stays until the delete moves it, unless a reconciliation was there before.
LEMMA InPlaceStep ==
  ASSUME CalmRebuilds, TypeOK, ClearErases, RestoreAlone, OnePlace, TranscriptKept, Calm, Gone,
         AllKept, TrashLed, Marked, InPlace, [Next]_vars
  PROVE  InPlace'
<1> USE DEF CalmRebuilds, Unhurt, Early, Waiting, Calm, Gone, ClearErases, RestoreAlone,
            OnePlace, TranscriptKept, TrashLed, InPlace, Marked, Settled, Listed, TypeOK,
            Op, Deleting, Restoring, Clearing, Reconciling, disk, saver, runtime, told
<1>1. CASE Load
  BY <1>1 DEF Load, Listed
<1>2. CASE Bind
  BY <1>2 DEF Bind
<1>3. CASE StartTurn
  BY <1>3 DEF StartTurn
<1>4. CASE EndTurn
  BY <1>4 DEF EndTurn, Write
<1>5. CASE TickReads
  BY <1>5 DEF TickReads
<1>6. CASE TickWrites
  BY <1>6 DEF TickWrites, Write
<1>7. CASE LoopReads
  BY <1>7 DEF LoopReads
<1>8. CASE LoopWrites
  BY <1>8 DEF LoopWrites, Write
<1>9. CASE LoopEnds
  BY <1>9 DEF LoopEnds
<1>10. CASE JobTests
  BY <1>10 DEF JobTests
<1>11. CASE JobSaves
  BY <1>11 DEF JobSaves
<1>12. CASE AskDelete
  BY <1>12 DEF AskDelete, Goto, Alone, Listed
<1>13. CASE Unbind
  BY <1>13 DEF Unbind, Goto
<1>14. CASE Stop
  BY <1>14 DEF Stop, Write, Goto
<1>15. CASE Release
  BY <1>15 DEF Release, Goto
<1>16. CASE Quiesce
  BY <1>16 DEF Quiesce, Goto
<1>17. CASE Drain
  BY <1>17 DEF Drain, Goto
<1>18. CASE BeginDestroy
  BY <1>18 DEF BeginDestroy, Goto
<1>19. CASE WaitJobs
  BY <1>19 DEF WaitJobs, Goto
<1>20. CASE WaitAllJobs
  BY <1>20 DEF WaitAllJobs, Goto
<1>21. CASE Prepare
  BY <1>21 DEF Prepare, Goto, TellTrashed
<1>22. CASE MoveOut
  BY <1>22 DEF MoveOut, Goto, MoveToTrash, MoveFails, CanMove, Next1, Advance, TellTrashed
<1>23. CASE FinishDelete
  BY <1>23 DEF FinishDelete, Goto
<1>24. CASE AskRestore
  BY <1>24 DEF AskRestore, Goto, Alone
<1>25. CASE Target
  BY <1>25 DEF Target, Goto
<1>26. CASE MoveIn
  BY <1>26 DEF MoveIn, Goto, MoveBack, MoveFails, CanMove, Next1, Advance
<1>27. CASE Purge
  BY <1>27 DEF Purge
<1>28. CASE AskClear
  BY <1>28 DEF AskClear, Goto
<1>29. CASE StopForClear
  BY <1>29 DEF StopForClear, Goto
<1>30. CASE WaitForClear
  BY <1>30 DEF WaitForClear
<1>31. CASE WaitAllForClear
  BY <1>31 DEF WaitAllForClear, Goto
<1>32. CASE Erase
  BY <1>32 DEF Erase, Goto, Remove, Next1, Advance
<1>33. CASE BuildAnother
  BY <1>33 DEF BuildAnother, Goto
<1>34. CASE ReadMarker
  BY <1>34 DEF ReadMarker, Goto, Alone
<1>35. CASE Reconcile
  BY <1>35 DEF Reconcile, Goto, MoveToTrash, Remove, MoveFails, CanMove, Next1, Advance
<1>36. CASE Crash
  BY <1>36 DEF Crash
<1>37. CASE UNCHANGED vars
  BY <1>37 DEF vars
<1> QED
  BY <1>1, <1>2, <1>3, <1>4, <1>5, <1>6, <1>7, <1>8, <1>9, <1>10, <1>11, <1>12, <1>13,
     <1>14, <1>15, <1>16, <1>17, <1>18, <1>19, <1>20, <1>21, <1>22, <1>23, <1>24, <1>25,
     <1>26, <1>27, <1>28, <1>29, <1>30, <1>31, <1>32, <1>33, <1>34, <1>35, <1>36, <1>37
     DEF Next, Saver, Job, Delete, Restore, Clear, Boot

-----------------------------------------------------------------------------
(* The theorems *)

LEMMA SafeInit == Init => Safe
BY DEF Init, Safe, ClearErases, RestoreAlone, OnePlace, TranscriptKept, Calm, Gone, Settled,
   Listed,
       Early, Op, Art

LEMMA WholeInit == Init => Whole
BY DEF Init, Whole, AllKept, TrashLed, Marked, InPlace, Unhurt, Early, Waiting, Op, Art

\* Every operation is where the code can be, and has a rest of the artifacts to move.
THEOREM FilesAreTyped == Spec => []TypeOK
<1> QED
  BY TypeInit, TypeStep, PTL DEF Spec

LEMMA SafeAlways ==
  ASSUME NoOverlap
  PROVE  Spec => []Safe
<1>1. TypeOK /\ Safe /\ [Next]_vars => Safe'
  BY ErasesStep, RestoreStep, OnePlaceStep, KeptStep, CalmStep, GoneStep DEF Safe
<1> QED
  BY SafeInit, FilesAreTyped, <1>1, PTL DEF Spec

\* Whatever crashes, fails or is written late, the transcript of a session is in its directory
\* or in the trash until the user purges or clears it.
THEOREM TranscriptSurvives ==
  ASSUME NoOverlap
  PROVE  Spec => []TranscriptKept
<1>1. Safe => TranscriptKept
  BY DEF Safe
<1> QED
  BY SafeAlways, <1>1, PTL

\* Once a delete was answered the session does not come back, where every save is waited for.
THEOREM DeletedStays ==
  ASSUME NoOverlap
  PROVE  Spec => []DeletedStaysIfSettled
<1>1. Safe => DeletedStaysIfSettled
  BY DEF Safe, Gone, Settled, DeletedStaysIfSettled, DeletedStaysDeleted
<1> QED
  BY SafeAlways, <1>1, PTL

\* Until something fails every artifact a session ever had is in one of the two places, and
\* after that its transcript.
THEOREM NothingIsLost ==
  ASSUME NoOverlap, CalmRebuilds
  PROVE  Spec => []NothingLost
<1>1. TypeOK /\ Safe /\ Whole /\ [Next]_vars => Whole'
  BY AllKeptStep, TrashLedStep, MarkedStep, InPlaceStep DEF Safe, Whole
<1>2. Spec => []Whole
  BY WholeInit, FilesAreTyped, SafeAlways, <1>1, PTL DEF Spec
<1>3. Safe /\ Whole => NothingLost
  BY DEF Safe, Whole, TranscriptKept, AllKept, Unhurt, NothingLost
<1> QED
  BY SafeAlways, <1>2, <1>3, PTL
=============================================================================
