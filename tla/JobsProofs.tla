----------------------------- MODULE JobsProofs -----------------------------
(* Theorems about the background-job table, for any number of jobs and sessions. *)
EXTENDS Jobs, TLAPS

USE BoundsAssumption, UnscopedAssumption, ScopesAssumption, OptionsAssumption
DEF BoundsAssumption, UnscopedAssumption, ScopesAssumption, OptionsAssumption

LEMMA InitTypeOK == Init => TypeOK
<1> SUFFICES ASSUME Init PROVE TypeOK
  OBVIOUS
<1>1. 0 \in 0..MaxJobs /\ 0 \in 0..MaxDestroys
  OBVIOUS
<1>2. /\ status \in [Jobs -> Statuses]
      /\ outcome \in [Jobs -> Terminal \cup {"Running"}]
      /\ owner \in [Jobs -> Scopes]
      /\ starter \in [Jobs -> Scopes]
      /\ toldTo \in [Jobs -> Scopes]
      /\ adopting \in Scopes
  BY DEF Init, Statuses, Scopes
<1>3. /\ handle \in [Sessions -> SUBSET Jobs]
      /\ seqAt \in [Sessions -> 0..MaxJobs]
  BY <1>1 DEF Init
<1> QED
  BY <1>1, <1>2, <1>3 DEF Init, TypeOK

LEMMA NextTypeOK == TypeOK /\ [Next]_vars => TypeOK'
<1> SUFFICES ASSUME TypeOK, [Next]_vars PROVE TypeOK'
  OBVIOUS
<1> USE DEF managerVars, jobVars, ctxVars, callerVars, readerVars
<1>1. ASSUME NEW s \in StartScopes, Start(s) PROVE TypeOK'
  BY <1>1 DEF Start, TypeOK, Jobs, Scopes, Statuses, Terminal
<1>2. ASSUME NEW s \in Scopes, Drain(s) PROVE TypeOK'
  <2>1. \A j \in Jobs : told[j] + 1 \in Nat
    BY DEF TypeOK
  <2> QED BY <1>2, <2>1 DEF Drain, ToldUpdate, TypeOK
<1>3. ASSUME NEW s \in Scopes, NEW j \in Jobs, Kill(s, j) PROVE TypeOK'
  BY <1>3 DEF Kill, TypeOK, Statuses, Terminal
<1>4. ASSUME NEW j \in Jobs, Launch(j) PROVE TypeOK'
  BY <1>4 DEF Launch, TypeOK
<1>5. ASSUME NEW j \in Jobs, RunReturns(j) PROVE TypeOK'
  BY <1>5 DEF RunReturns, TypeOK
<1>6. ASSUME NEW j \in Jobs, Settle(j) PROVE TypeOK'
  BY <1>6 DEF Settle, TypeOK, Terminal
<1>7. ASSUME NEW j \in Jobs, Record(j) PROVE TypeOK'
  <2>1. FinishedNote(j) \in Notes
    BY DEF FinishedNote, Notes, TypeOK
  <2> QED BY <1>7, <2>1 DEF Record, TypeOK
<1>8. ASSUME NEW j \in Jobs, Publish(j) PROVE TypeOK'
  BY <1>8 DEF Publish, TypeOK, Statuses, Terminal
<1>9. ASSUME NEW j \in Jobs, CloseDone(j) PROVE TypeOK'
  BY <1>9 DEF CloseDone, TypeOK
<1>10. ASSUME NEW j \in Jobs, MonitorFlags(j) PROVE TypeOK'
  BY <1>10 DEF MonitorFlags, TypeOK
<1>11. ASSUME NEW j \in Jobs, MonitorExits(j) PROVE TypeOK'
  BY <1>11 DEF MonitorExits, TypeOK
<1>12. ASSUME NEW j \in Jobs, RecordStalled(j) PROVE TypeOK'
  <2>1. StalledNote(j) \in Notes
    BY DEF StalledNote, Notes, TypeOK
  <2> QED BY <1>12, <2>1 DEF RecordStalled, TypeOK
<1>13. ASSUME NEW j \in Jobs, CancelContext(j) PROVE TypeOK'
  BY <1>13 DEF CancelContext, TypeOK
<1>14. ASSUME NEW s \in Sessions, SetActiveSessionPath(s) PROVE TypeOK'
  BY <1>14 DEF SetActiveSessionPath, TypeOK, Scopes
<1>15. ASSUME NEW s \in Sessions, BeginDestroySession(s) PROVE TypeOK'
  <2>1. status' \in [Jobs -> Statuses]
    BY <1>15 DEF BeginDestroySession, TypeOK, Statuses, Terminal
  <2>2. /\ toCancel' \subseteq Jobs
        /\ handle' \in [Sessions -> SUBSET Jobs]
    BY <1>15 DEF BeginDestroySession, TypeOK, Visible
  <2>3. dropped' \subseteq Jobs
    BY <1>15 DEF BeginDestroySession, TypeOK, Notes
  <2>4. seqAt' \in [Sessions -> 0..MaxJobs]
    BY <1>15 DEF BeginDestroySession, TypeOK
  <2>5. completed' \subseteq Notes /\ destroying' \subseteq Sessions
    BY <1>15 DEF BeginDestroySession, TypeOK
  <2>6. /\ destroyPC' \in [Sessions -> {"idle", "waiting"}]
        /\ destroys' \in 0..MaxDestroys
    BY <1>15 DEF BeginDestroySession, TypeOK
  <2> QED BY <1>15, <2>1, <2>2, <2>3, <2>4, <2>5, <2>6 DEF BeginDestroySession, TypeOK
<1>16. ASSUME NEW s \in Sessions, FinishDestroySession(s) PROVE TypeOK'
  BY <1>16 DEF FinishDestroySession, TypeOK
<1>17. ASSUME AdoptUnscopedJobs PROVE TypeOK'
  <2>1. adopting \in Scopes
    BY DEF TypeOK
  <2>2. owner' \in [Jobs -> Scopes]
    BY <1>17, <2>1 DEF AdoptUnscopedJobs, TypeOK
  <2>3. ASSUME NEW n \in completed
        PROVE  (IF n.session = Unscoped
                THEN [n EXCEPT !.session = adopting] ELSE n) \in Notes
    BY <2>1 DEF TypeOK, Notes
  <2>4. completed' \subseteq Notes
    BY <1>17, <2>3 DEF AdoptUnscopedJobs
  <2>5. adopting' \in Scopes
    BY <1>17 DEF AdoptUnscopedJobs, Scopes
  <2>6. UNCHANGED <<seq, tracked, destroying, bound, jobVars, ctxVars, handle,
                    destroyPC, destroys, closePC, readerVars>>
    BY <1>17 DEF AdoptUnscopedJobs
  <2> QED BY <2>2, <2>4, <2>5, <2>6 DEF TypeOK
<1>18. ASSUME CancelRoot PROVE TypeOK'
  BY <1>18 DEF CancelRoot, TypeOK
<1>19. ASSUME CloseTargets PROVE TypeOK'
  <2>1. status' \in [Jobs -> Statuses]
    BY <1>19 DEF CloseTargets, TypeOK, Statuses, Terminal
  <2> QED BY <1>19, <2>1 DEF CloseTargets, TypeOK
<1>20. ASSUME RemoveTempRoot PROVE TypeOK'
  BY <1>20 DEF RemoveTempRoot, TypeOK
<1>21. CASE UNCHANGED vars
  BY <1>21 DEF vars, TypeOK
<1> QED
  BY <1>1, <1>2, <1>3, <1>4, <1>5, <1>6, <1>7, <1>8, <1>9, <1>10, <1>11, <1>12,
     <1>13, <1>14, <1>15, <1>16, <1>17, <1>18, <1>19, <1>20, <1>21
  DEF Next, GoroutineStep, MonitorStep

\* Every variable keeps its type: statuses, notes and handles are well formed
\* after any interleaving of starts, kills, adoptions, destroys and shutdown.
THEOREM TypeCorrect == Spec => []TypeOK
  BY InitTypeOK, NextTypeOK, PTL DEF Spec

-----------------------------------------------------------------------------
(* Which jobs exist, and when a job may show Done or Failed *)

Lifecycle ==
    /\ \A j \in Jobs : j > seq => status[j] = "Absent" /\ pc[j] = "absent"
    /\ \A j \in tracked : j <= seq /\ status[j] # "Absent"
    /\ \A j \in Jobs : status[j] \in {"Done", "Failed"}
                      => pc[j] \in {"published", "closed"}

LEMMA NextLifecycle == TypeOK /\ Lifecycle /\ [Next]_vars => Lifecycle'
<1> SUFFICES ASSUME TypeOK, Lifecycle, [Next]_vars PROVE Lifecycle'
  OBVIOUS
<1> USE DEF TypeOK, Lifecycle, Jobs, Terminal, Statuses, Visible,
            managerVars, jobVars, ctxVars, callerVars, readerVars
<1>1. ASSUME NEW s \in StartScopes, Start(s) PROVE Lifecycle'
  BY <1>1 DEF Start
<1>2. ASSUME NEW s \in Scopes, Drain(s) PROVE Lifecycle'
  BY <1>2 DEF Drain, ToldUpdate
<1>3. ASSUME NEW s \in Scopes, NEW j \in Jobs, Kill(s, j) PROVE Lifecycle'
  BY <1>3 DEF Kill
<1>4. ASSUME NEW j \in Jobs, Launch(j) PROVE Lifecycle'
  BY <1>4 DEF Launch
<1>5. ASSUME NEW j \in Jobs, RunReturns(j) PROVE Lifecycle'
  BY <1>5 DEF RunReturns
<1>6. ASSUME NEW j \in Jobs, Settle(j) PROVE Lifecycle'
  BY <1>6 DEF Settle
<1>7. ASSUME NEW j \in Jobs, Record(j) PROVE Lifecycle'
  BY <1>7 DEF Record, Suppressed, FinishedNote
<1>8. ASSUME NEW j \in Jobs, Publish(j) PROVE Lifecycle'
  BY <1>8 DEF Publish
<1>9. ASSUME NEW j \in Jobs, CloseDone(j) PROVE Lifecycle'
  BY <1>9 DEF CloseDone
<1>10. ASSUME NEW j \in Jobs, MonitorFlags(j) PROVE Lifecycle'
  BY <1>10 DEF MonitorFlags
<1>11. ASSUME NEW j \in Jobs, MonitorExits(j) PROVE Lifecycle'
  BY <1>11 DEF MonitorExits
<1>12. ASSUME NEW j \in Jobs, RecordStalled(j) PROVE Lifecycle'
  BY <1>12 DEF RecordStalled, Suppressed, StalledNote
<1>13. ASSUME NEW j \in Jobs, CancelContext(j) PROVE Lifecycle'
  BY <1>13 DEF CancelContext
<1>14. ASSUME NEW s \in Sessions, SetActiveSessionPath(s) PROVE Lifecycle'
  BY <1>14 DEF SetActiveSessionPath
<1>15. ASSUME NEW s \in Sessions, BeginDestroySession(s) PROVE Lifecycle'
  BY <1>15 DEF BeginDestroySession
<1>16. ASSUME NEW s \in Sessions, FinishDestroySession(s) PROVE Lifecycle'
  BY <1>16 DEF FinishDestroySession
<1>17. ASSUME AdoptUnscopedJobs PROVE Lifecycle'
  BY <1>17 DEF AdoptUnscopedJobs
<1>18. ASSUME CancelRoot PROVE Lifecycle'
  BY <1>18 DEF CancelRoot
<1>19. ASSUME CloseTargets PROVE Lifecycle'
  BY <1>19 DEF CloseTargets
<1>20. ASSUME RemoveTempRoot PROVE Lifecycle'
  BY <1>20 DEF RemoveTempRoot
<1>21. CASE UNCHANGED vars
  BY <1>21 DEF vars
<1> QED
  BY <1>1, <1>2, <1>3, <1>4, <1>5, <1>6, <1>7, <1>8, <1>9, <1>10, <1>11,
     <1>12, <1>13, <1>14, <1>15, <1>16, <1>17, <1>18, <1>19, <1>20, <1>21
  DEF Next, GoroutineStep, MonitorStep

-----------------------------------------------------------------------------
(* The destroy window *)

(* The manager itself keeps no adoption out of a destroy window.  What does is
   that the callers keep the two apart, or that every job is started under a
   session, so that there is nothing to adopt. *)

Apart == ~MayRebind \/ Unscoped \notin StartScopes

Window ==
    /\ adopting \notin destroying
    /\ Unscoped \notin StartScopes =>
          adopting = Unscoped /\ \A j \in tracked : owner[j] # Unscoped
    /\ \A s \in Sessions : /\ destroyPC[s] = "waiting" => s \in destroying
                           /\ seqAt[s] <= seq

LEMMA NextWindow == Apart /\ TypeOK /\ Window /\ [Next]_vars => Window'
<1> SUFFICES ASSUME Apart, TypeOK, Window, [Next]_vars PROVE Window'
  OBVIOUS
<1> USE DEF Apart, TypeOK, Window,
            managerVars, jobVars, ctxVars, callerVars, readerVars
<1>1. ASSUME NEW s \in StartScopes, Start(s) PROVE Window'
  BY <1>1 DEF Start, Jobs
<1>2. ASSUME NEW s \in Scopes, Drain(s) PROVE Window'
  BY <1>2 DEF Drain, ToldUpdate
<1>3. ASSUME NEW s \in Scopes, NEW j \in Jobs, Kill(s, j) PROVE Window'
  BY <1>3 DEF Kill
<1>4. ASSUME NEW j \in Jobs, Launch(j) PROVE Window'
  BY <1>4 DEF Launch
<1>5. ASSUME NEW j \in Jobs, RunReturns(j) PROVE Window'
  BY <1>5 DEF RunReturns
<1>6. ASSUME NEW j \in Jobs, Settle(j) PROVE Window'
  BY <1>6 DEF Settle
<1>7. ASSUME NEW j \in Jobs, Record(j) PROVE Window'
  BY <1>7 DEF Record, Suppressed, FinishedNote
<1>8. ASSUME NEW j \in Jobs, Publish(j) PROVE Window'
  BY <1>8 DEF Publish
<1>9. ASSUME NEW j \in Jobs, CloseDone(j) PROVE Window'
  BY <1>9 DEF CloseDone
<1>10. ASSUME NEW j \in Jobs, MonitorFlags(j) PROVE Window'
  BY <1>10 DEF MonitorFlags
<1>11. ASSUME NEW j \in Jobs, MonitorExits(j) PROVE Window'
  BY <1>11 DEF MonitorExits
<1>12. ASSUME NEW j \in Jobs, RecordStalled(j) PROVE Window'
  BY <1>12 DEF RecordStalled, Suppressed, StalledNote
<1>13. ASSUME NEW j \in Jobs, CancelContext(j) PROVE Window'
  BY <1>13 DEF CancelContext
<1>14. ASSUME NEW s \in Sessions, SetActiveSessionPath(s) PROVE Window'
  BY <1>14 DEF SetActiveSessionPath
<1>15. ASSUME NEW s \in Sessions, BeginDestroySession(s) PROVE Window'
  BY <1>15 DEF BeginDestroySession
<1>16. ASSUME NEW s \in Sessions, FinishDestroySession(s) PROVE Window'
  BY <1>16 DEF FinishDestroySession
<1>17. ASSUME AdoptUnscopedJobs PROVE Window'
  BY <1>17 DEF AdoptUnscopedJobs
<1>18. ASSUME CancelRoot PROVE Window'
  BY <1>18 DEF CancelRoot
<1>19. ASSUME CloseTargets PROVE Window'
  BY <1>19 DEF CloseTargets
<1>20. ASSUME RemoveTempRoot PROVE Window'
  BY <1>20 DEF RemoveTempRoot
<1>21. CASE UNCHANGED vars
  BY <1>21 DEF vars
<1> QED
  BY <1>1, <1>2, <1>3, <1>4, <1>5, <1>6, <1>7, <1>8, <1>9, <1>10, <1>11,
     <1>12, <1>13, <1>14, <1>15, <1>16, <1>17, <1>18, <1>19, <1>20, <1>21
  DEF Next, GoroutineStep, MonitorStep

LEMMA NextQuiet ==
  TypeOK /\ Window /\ DestroyingIsQuiet /\ [Next]_vars => DestroyingIsQuiet'
<1> SUFFICES ASSUME TypeOK, Window, DestroyingIsQuiet, [Next]_vars
             PROVE  DestroyingIsQuiet'
  OBVIOUS
<1> USE DEF TypeOK, Window, DestroyingIsQuiet,
            managerVars, jobVars, ctxVars, callerVars, readerVars
<1>1. ASSUME NEW s \in StartScopes, Start(s) PROVE DestroyingIsQuiet'
  BY <1>1 DEF Start
<1>2. ASSUME NEW s \in Scopes, Drain(s) PROVE DestroyingIsQuiet'
  BY <1>2 DEF Drain, ToldUpdate
<1>3. ASSUME NEW s \in Scopes, NEW j \in Jobs, Kill(s, j) PROVE DestroyingIsQuiet'
  BY <1>3 DEF Kill
<1>4. ASSUME NEW j \in Jobs, Launch(j) PROVE DestroyingIsQuiet'
  BY <1>4 DEF Launch
<1>5. ASSUME NEW j \in Jobs, RunReturns(j) PROVE DestroyingIsQuiet'
  BY <1>5 DEF RunReturns
<1>6. ASSUME NEW j \in Jobs, Settle(j) PROVE DestroyingIsQuiet'
  BY <1>6 DEF Settle
<1>7. ASSUME NEW j \in Jobs, Record(j) PROVE DestroyingIsQuiet'
  BY <1>7 DEF Record, Suppressed, FinishedNote
<1>8. ASSUME NEW j \in Jobs, Publish(j) PROVE DestroyingIsQuiet'
  BY <1>8 DEF Publish
<1>9. ASSUME NEW j \in Jobs, CloseDone(j) PROVE DestroyingIsQuiet'
  BY <1>9 DEF CloseDone
<1>10. ASSUME NEW j \in Jobs, MonitorFlags(j) PROVE DestroyingIsQuiet'
  BY <1>10 DEF MonitorFlags
<1>11. ASSUME NEW j \in Jobs, MonitorExits(j) PROVE DestroyingIsQuiet'
  BY <1>11 DEF MonitorExits
<1>12. ASSUME NEW j \in Jobs, RecordStalled(j) PROVE DestroyingIsQuiet'
  BY <1>12 DEF RecordStalled, Suppressed, StalledNote
<1>13. ASSUME NEW j \in Jobs, CancelContext(j) PROVE DestroyingIsQuiet'
  BY <1>13 DEF CancelContext
<1>14. ASSUME NEW s \in Sessions, SetActiveSessionPath(s) PROVE DestroyingIsQuiet'
  BY <1>14 DEF SetActiveSessionPath
<1>15. ASSUME NEW s \in Sessions, BeginDestroySession(s) PROVE DestroyingIsQuiet'
  BY <1>15 DEF BeginDestroySession
<1>16. ASSUME NEW s \in Sessions, FinishDestroySession(s) PROVE DestroyingIsQuiet'
  BY <1>16 DEF FinishDestroySession
<1>17. ASSUME AdoptUnscopedJobs PROVE DestroyingIsQuiet'
  <2> HIDE DEF TypeOK, Window, DestroyingIsQuiet
  <2>1. adopting \notin destroying /\ destroying' = destroying
    BY <1>17 DEF AdoptUnscopedJobs, Window
  <2>2. ASSUME NEW n \in completed
        PROVE  (IF n.session = Unscoped
                THEN [n EXCEPT !.session = adopting] ELSE n).session \notin destroying
    BY <2>1 DEF DestroyingIsQuiet, TypeOK, Notes
  <2>3. \A m \in completed' : m.session \notin destroying
    BY <1>17, <2>2 DEF AdoptUnscopedJobs
  <2> QED BY <2>1, <2>3 DEF DestroyingIsQuiet
<1>18. ASSUME CancelRoot PROVE DestroyingIsQuiet'
  BY <1>18 DEF CancelRoot
<1>19. ASSUME CloseTargets PROVE DestroyingIsQuiet'
  BY <1>19 DEF CloseTargets
<1>20. ASSUME RemoveTempRoot PROVE DestroyingIsQuiet'
  BY <1>20 DEF RemoveTempRoot
<1>21. CASE UNCHANGED vars
  BY <1>21 DEF vars
<1> QED
  BY <1>1, <1>2, <1>3, <1>4, <1>5, <1>6, <1>7, <1>8, <1>9, <1>10, <1>11,
     <1>12, <1>13, <1>14, <1>15, <1>16, <1>17, <1>18, <1>19, <1>20, <1>21
  DEF Next, GoroutineStep, MonitorStep

LEMMA NextCovers ==
  TypeOK /\ Lifecycle /\ Window /\ DestroyHandleCovers /\ [Next]_vars
    => DestroyHandleCovers'
<1> SUFFICES ASSUME TypeOK, Lifecycle, Window, DestroyHandleCovers, [Next]_vars
             PROVE  DestroyHandleCovers'
  OBVIOUS
<1> USE DEF TypeOK, Lifecycle, Window, DestroyHandleCovers,
            LiveStatuses, Statuses, Terminal,
            managerVars, jobVars, ctxVars, callerVars, readerVars, Visible, Matches
<1>1. ASSUME NEW s \in StartScopes, Start(s) PROVE DestroyHandleCovers'
  BY <1>1 DEF Start
<1>2. ASSUME NEW s \in Scopes, Drain(s) PROVE DestroyHandleCovers'
  BY <1>2 DEF Drain, ToldUpdate
<1>3. ASSUME NEW s \in Scopes, NEW j \in Jobs, Kill(s, j) PROVE DestroyHandleCovers'
  BY <1>3 DEF Kill
<1>4. ASSUME NEW j \in Jobs, Launch(j) PROVE DestroyHandleCovers'
  BY <1>4 DEF Launch
<1>5. ASSUME NEW j \in Jobs, RunReturns(j) PROVE DestroyHandleCovers'
  BY <1>5 DEF RunReturns
<1>6. ASSUME NEW j \in Jobs, Settle(j) PROVE DestroyHandleCovers'
  BY <1>6 DEF Settle
<1>7. ASSUME NEW j \in Jobs, Record(j) PROVE DestroyHandleCovers'
  BY <1>7 DEF Record, Suppressed, FinishedNote
<1>8. ASSUME NEW j \in Jobs, Publish(j) PROVE DestroyHandleCovers'
  BY <1>8 DEF Publish
<1>9. ASSUME NEW j \in Jobs, CloseDone(j) PROVE DestroyHandleCovers'
  BY <1>9 DEF CloseDone
<1>10. ASSUME NEW j \in Jobs, MonitorFlags(j) PROVE DestroyHandleCovers'
  BY <1>10 DEF MonitorFlags
<1>11. ASSUME NEW j \in Jobs, MonitorExits(j) PROVE DestroyHandleCovers'
  BY <1>11 DEF MonitorExits
<1>12. ASSUME NEW j \in Jobs, RecordStalled(j) PROVE DestroyHandleCovers'
  BY <1>12 DEF RecordStalled, Suppressed, StalledNote
<1>13. ASSUME NEW j \in Jobs, CancelContext(j) PROVE DestroyHandleCovers'
  BY <1>13 DEF CancelContext
<1>14. ASSUME NEW s \in Sessions, SetActiveSessionPath(s) PROVE DestroyHandleCovers'
  BY <1>14 DEF SetActiveSessionPath
<1>15. ASSUME NEW s \in Sessions, BeginDestroySession(s) PROVE DestroyHandleCovers'
  BY <1>15 DEF BeginDestroySession
<1>16. ASSUME NEW s \in Sessions, FinishDestroySession(s) PROVE DestroyHandleCovers'
  BY <1>16 DEF FinishDestroySession
<1>17. ASSUME AdoptUnscopedJobs PROVE DestroyHandleCovers'
  BY <1>17 DEF AdoptUnscopedJobs
<1>18. ASSUME CancelRoot PROVE DestroyHandleCovers'
  BY <1>18 DEF CancelRoot
<1>19. ASSUME CloseTargets PROVE DestroyHandleCovers'
  BY <1>19 DEF CloseTargets
<1>20. ASSUME RemoveTempRoot PROVE DestroyHandleCovers'
  BY <1>20 DEF RemoveTempRoot
<1>21. CASE UNCHANGED vars
  BY <1>21 DEF vars
<1> QED
  BY <1>1, <1>2, <1>3, <1>4, <1>5, <1>6, <1>7, <1>8, <1>9, <1>10, <1>11,
     <1>12, <1>13, <1>14, <1>15, <1>16, <1>17, <1>18, <1>19, <1>20, <1>21
  DEF Next, GoroutineStep, MonitorStep

-----------------------------------------------------------------------------
(* The inductive invariants: Core needs nothing of the callers, IInv needs Apart.
   DestroyHandleCovers is not inductive alone: it needs
   to know that a job numbered after the destroy began is a new one, that an
   adoption never feeds a session under destruction (Window), and that a job
   showing Done or Failed has stopped writing (Lifecycle). *)

Core == TypeOK /\ Lifecycle

IInv == Core /\ Window /\ DestroyingIsQuiet /\ DestroyHandleCovers

LEMMA Cored == Spec => []Core
<1>1. Init => Core
  BY InitTypeOK DEF Init, Core, Lifecycle
<1>2. Core /\ [Next]_vars => Core'
  BY NextTypeOK, NextLifecycle DEF Core
<1> QED
  BY <1>1, <1>2, PTL DEF Spec

LEMMA InitIInv == Init => IInv
<1> SUFFICES ASSUME Init PROVE IInv
  OBVIOUS
<1>1. TypeOK
  BY InitTypeOK
<1>2. Lifecycle
  BY DEF Init, Lifecycle
<1>3. Window
  BY <1>1 DEF Init, Window, TypeOK
<1>4. DestroyingIsQuiet /\ DestroyHandleCovers
  BY DEF Init, DestroyingIsQuiet, DestroyHandleCovers
<1> QED
  BY <1>1, <1>2, <1>3, <1>4 DEF IInv, Core

LEMMA NextIInv == Apart /\ IInv /\ [Next]_vars => IInv'
  BY NextTypeOK, NextLifecycle, NextWindow, NextQuiet, NextCovers DEF IInv, Core

LEMMA Invariance == ASSUME Apart PROVE Spec => []IInv
<1>1. IInv /\ [Next]_vars => IInv'
  BY NextIInv
<1> QED
  BY <1>1, InitIInv, PTL DEF Spec

\* No note is queued for a session inside its destroy window, whatever the
\* number of jobs that end, stall or are adopted while it is open, as long as no
\* caller binds the session in that window or no job is unscoped.
THEOREM QuietWindow ==
  ASSUME Apart
  PROVE  Spec => []DestroyingIsQuiet
<1>1. IInv => DestroyingIsQuiet
  BY DEF IInv
<1> QED
  BY <1>1, Invariance, PTL

\* The handle a destroy waits on covers every job the session owned when the
\* destroy began and that may still write to the session's artifacts, as long as
\* no adoption gives it one later.
THEOREM HandleCovers ==
  ASSUME Apart
  PROVE  Spec => []DestroyHandleCovers
<1>1. IInv => DestroyHandleCovers
  BY DEF IInv
<1> QED
  BY <1>1, Invariance, PTL

-----------------------------------------------------------------------------
(* Terminal statuses are final *)

Final == \A j \in Jobs : status[j] \in Terminal => status'[j] = status[j]

LEMMA StepFinal == Core /\ [Next]_vars => Final
<1> SUFFICES ASSUME TypeOK, Lifecycle, [Next]_vars PROVE Final
  BY DEF Core
<1> USE DEF Final, TypeOK, Lifecycle, Terminal,
            managerVars, jobVars, ctxVars, callerVars, readerVars
<1>1. ASSUME NEW s \in StartScopes, Start(s) PROVE Final
  BY <1>1 DEF Start
<1>2. ASSUME NEW s \in Scopes, Drain(s) PROVE Final
  BY <1>2 DEF Drain, ToldUpdate
<1>3. ASSUME NEW s \in Scopes, NEW j \in Jobs, Kill(s, j) PROVE Final
  BY <1>3 DEF Kill
<1>4. ASSUME NEW j \in Jobs, Launch(j) PROVE Final
  BY <1>4 DEF Launch
<1>5. ASSUME NEW j \in Jobs, RunReturns(j) PROVE Final
  BY <1>5 DEF RunReturns
<1>6. ASSUME NEW j \in Jobs, Settle(j) PROVE Final
  BY <1>6 DEF Settle
<1>7. ASSUME NEW j \in Jobs, Record(j) PROVE Final
  BY <1>7 DEF Record, Suppressed, FinishedNote
<1>8. ASSUME NEW j \in Jobs, Publish(j) PROVE Final
  BY <1>8 DEF Publish
<1>9. ASSUME NEW j \in Jobs, CloseDone(j) PROVE Final
  BY <1>9 DEF CloseDone
<1>10. ASSUME NEW j \in Jobs, MonitorFlags(j) PROVE Final
  BY <1>10 DEF MonitorFlags
<1>11. ASSUME NEW j \in Jobs, MonitorExits(j) PROVE Final
  BY <1>11 DEF MonitorExits
<1>12. ASSUME NEW j \in Jobs, RecordStalled(j) PROVE Final
  BY <1>12 DEF RecordStalled, Suppressed, StalledNote
<1>13. ASSUME NEW j \in Jobs, CancelContext(j) PROVE Final
  BY <1>13 DEF CancelContext
<1>14. ASSUME NEW s \in Sessions, SetActiveSessionPath(s) PROVE Final
  BY <1>14 DEF SetActiveSessionPath
<1>15. ASSUME NEW s \in Sessions, BeginDestroySession(s) PROVE Final
  BY <1>15 DEF BeginDestroySession
<1>16. ASSUME NEW s \in Sessions, FinishDestroySession(s) PROVE Final
  BY <1>16 DEF FinishDestroySession
<1>17. ASSUME AdoptUnscopedJobs PROVE Final
  BY <1>17 DEF AdoptUnscopedJobs
<1>18. ASSUME CancelRoot PROVE Final
  BY <1>18 DEF CancelRoot
<1>19. ASSUME CloseTargets PROVE Final
  BY <1>19 DEF CloseTargets
<1>20. ASSUME RemoveTempRoot PROVE Final
  BY <1>20 DEF RemoveTempRoot
<1>21. CASE UNCHANGED vars
  BY <1>21 DEF vars, Final
<1> QED
  BY <1>1, <1>2, <1>3, <1>4, <1>5, <1>6, <1>7, <1>8, <1>9, <1>10, <1>11,
     <1>12, <1>13, <1>14, <1>15, <1>16, <1>17, <1>18, <1>19, <1>20, <1>21
  DEF Next, GoroutineStep, MonitorStep

\* A terminal status never changes: the kill that lands between the completion
\* bookkeeping and the publication wins, and every later writer keeps its value.
THEOREM TerminalFinal == Spec => TerminalIsFinal
<1>1. Core /\ [Next]_vars => [\A j \in Jobs : status[j] \in Terminal
                                  => status'[j] = status[j]]_vars
  BY StepFinal DEF Final
<1> QED
  BY <1>1, Cored, PTL DEF Spec, TerminalIsFinal

-----------------------------------------------------------------------------
(* Notes are neither lost nor repeated.  The count of NoteAccountedFor only
   says whether a finished note of the job is queued: that a drain or a
   destroy that takes one leaves none behind needs OneNote. *)

OneNote == \A n, m \in completed :
             n.what = "finished" /\ m.what = "finished" /\ n.job = m.job => n = m

Accounted == OneNote /\ NoteAccountedFor

\* What a step has to leave alone for the account to stay balanced.
LEMMA StillAccounted ==
  ASSUME Accounted, UNCHANGED <<completed, told, dropped>>,
         \A j \in Jobs : Recorded(j)' = Recorded(j)
  PROVE  Accounted'
<1>1. \A j \in Jobs : FinishedQueued(j)' = FinishedQueued(j)
  BY DEF FinishedQueued
<1> QED
  BY <1>1 DEF Accounted, OneNote, NoteAccountedFor

\* Notes of another kind do not count.
LEMMA FinishedAlone ==
  ASSUME Accounted, UNCHANGED <<told, dropped, pc>>,
         {n \in completed' : n.what = "finished"} = {n \in completed : n.what = "finished"}
  PROVE  Accounted'
<1>1. \A j \in Jobs : FinishedQueued(j)' = FinishedQueued(j)
  BY DEF FinishedQueued
<1>2. \A j \in Jobs : Recorded(j)' = Recorded(j)
  BY DEF Recorded
<1>3. OneNote'
  BY DEF Accounted, OneNote
<1> QED
  BY <1>1, <1>2, <1>3 DEF Accounted, NoteAccountedFor

\* The account before a note of the job was queued, and while one is.
LEMMA AccountCases ==
  ASSUME TypeOK, Accounted, NEW j \in Jobs
  PROVE  /\ ~Recorded(j) => told[j] = 0 /\ ~FinishedQueued(j) /\ j \notin dropped
         /\ FinishedQueued(j) => Recorded(j) /\ told[j] = 0 /\ j \notin dropped
<1>1. told[j] \in Nat
  BY DEF TypeOK
<1> QED
  BY <1>1 DEF Accounted, NoteAccountedFor

LEMMA RecordAccounted ==
  ASSUME TypeOK, Accounted, NEW j \in Jobs, Record(j)
  PROVE  Accounted'
<1>1. ~Recorded(j) /\ Recorded(j)'
  BY DEF Record, Recorded, TypeOK
<1>2. told[j] = 0 /\ ~FinishedQueued(j) /\ j \notin dropped
  BY <1>1, AccountCases
<1>3. \A i \in Jobs \ {j} : Recorded(i)' = Recorded(i)
  BY DEF Record, Recorded, TypeOK
<1>4. FinishedNote(j).what = "finished" /\ FinishedNote(j).job = j
  BY DEF FinishedNote
<1>5. CASE Suppressed(j)
  <2>1. completed' = completed /\ dropped' = dropped \cup {j} /\ told' = told
    BY <1>5 DEF Record
  <2>2. \A i \in Jobs : FinishedQueued(i)' = FinishedQueued(i)
    BY <2>1 DEF FinishedQueued
  <2> QED
    BY <1>1, <1>2, <1>3, <2>1, <2>2 DEF Accounted, OneNote, NoteAccountedFor
<1>6. CASE ~Suppressed(j)
  <2>1. /\ completed' = completed \cup {FinishedNote(j)}
        /\ dropped' = dropped /\ told' = told
    BY <1>6 DEF Record
  <2>2. \A i \in Jobs \ {j} : FinishedQueued(i)' = FinishedQueued(i)
    BY <1>4, <2>1 DEF FinishedQueued
  <2>3. FinishedQueued(j)'
    BY <1>4, <2>1 DEF FinishedQueued
  <2>4. OneNote'
    BY <1>2, <1>4, <2>1 DEF Accounted, OneNote, FinishedQueued
  <2> QED
    BY <1>1, <1>2, <1>3, <2>1, <2>2, <2>3, <2>4 DEF Accounted, NoteAccountedFor
<1> QED
  BY <1>5, <1>6

\* A job whose note a drain takes has no other note left in the queue.
LEMMA DrainAccounted ==
  ASSUME TypeOK, Accounted, NEW s \in Scopes, Drain(s)
  PROVE  Accounted'
<1> DEFINE mine == {n \in completed : Matches(s, n.session)}
           finished == {n.job : n \in {m \in mine : m.what = "finished"}}
<1>1. /\ completed' = completed \ mine
      /\ told' = [j \in Jobs |-> IF j \in finished THEN told[j] + 1 ELSE told[j]]
      /\ UNCHANGED <<dropped, pc>>
  BY DEF Drain, ToldUpdate, jobVars
<1>2. OneNote'
  BY <1>1 DEF Accounted, OneNote
<1>3. ASSUME NEW j \in finished, j \in Jobs
      PROVE  FinishedQueued(j) /\ ~FinishedQueued(j)'
  <2>1. PICK n \in mine : n.what = "finished" /\ n.job = j
    BY <1>3
  <2>2. \A m \in completed : m.what = "finished" /\ m.job = j => m = n
    BY <2>1 DEF Accounted, OneNote
  <2> QED
    BY <1>1, <2>1, <2>2 DEF FinishedQueued
<1>4. ASSUME NEW j \in Jobs, j \notin finished
      PROVE  FinishedQueued(j)' = FinishedQueued(j)
  BY <1>1, <1>4 DEF FinishedQueued
<1>5. \A j \in Jobs : Recorded(j)' = Recorded(j)
  BY <1>1 DEF Recorded
<1>6. ASSUME NEW j \in Jobs
      PROVE  told'[j] + (IF FinishedQueued(j)' THEN 1 ELSE 0)
                      + (IF j \in dropped' THEN 1 ELSE 0)
             = (IF Recorded(j)' THEN 1 ELSE 0)
  <2> HIDE DEF mine, finished
  <2>1. CASE j \in finished
    <3>1. FinishedQueued(j) /\ ~FinishedQueued(j)'
      BY <1>3, <2>1
    <3>2. told[j] = 0 /\ Recorded(j) /\ j \notin dropped
      BY <3>1, AccountCases
    <3> QED
      BY <1>1, <1>5, <2>1, <3>1, <3>2
  <2>2. CASE j \notin finished
    <3>1. FinishedQueued(j)' = FinishedQueued(j)
      BY <1>4, <2>2
    <3> QED
      BY <1>1, <1>5, <2>2, <3>1 DEF Accounted, NoteAccountedFor
  <2> QED
    BY <2>1, <2>2
<1> QED
  BY <1>2, <1>6 DEF Accounted, NoteAccountedFor

\* A destroy drops what it takes from the queue.
LEMMA DestroyAccounted ==
  ASSUME TypeOK, Accounted, NEW s \in Sessions, BeginDestroySession(s)
  PROVE  Accounted'
<1> DEFINE lost == {n.job : n \in {m \in completed : m.session = s /\ m.what = "finished"}}
<1>1. /\ completed' = {n \in completed : n.session # s}
      /\ dropped' = dropped \cup lost
      /\ UNCHANGED <<told, pc>>
  BY DEF BeginDestroySession
<1>2. OneNote'
  BY <1>1 DEF Accounted, OneNote
<1>3. ASSUME NEW j \in lost, j \in Jobs
      PROVE  FinishedQueued(j) /\ ~FinishedQueued(j)'
  <2>1. PICK n \in completed : n.session = s /\ n.what = "finished" /\ n.job = j
    BY <1>3
  <2>2. \A m \in completed : m.what = "finished" /\ m.job = j => m = n
    BY <2>1 DEF Accounted, OneNote
  <2> QED
    BY <1>1, <2>1, <2>2 DEF FinishedQueued
<1>4. ASSUME NEW j \in Jobs, j \notin lost
      PROVE  FinishedQueued(j)' = FinishedQueued(j)
  BY <1>1, <1>4 DEF FinishedQueued
<1>5. \A j \in Jobs : Recorded(j)' = Recorded(j)
  BY <1>1 DEF Recorded
<1>6. ASSUME NEW j \in Jobs
      PROVE  told'[j] + (IF FinishedQueued(j)' THEN 1 ELSE 0)
                      + (IF j \in dropped' THEN 1 ELSE 0)
             = (IF Recorded(j)' THEN 1 ELSE 0)
  <2> HIDE DEF lost
  <2>1. CASE j \in lost
    <3>1. FinishedQueued(j) /\ ~FinishedQueued(j)'
      BY <1>3, <2>1
    <3>2. told[j] = 0 /\ Recorded(j) /\ j \notin dropped
      BY <3>1, AccountCases
    <3> QED
      BY <1>1, <1>5, <2>1, <3>1, <3>2
  <2>2. CASE j \notin lost
    <3>1. FinishedQueued(j)' = FinishedQueued(j)
      BY <1>4, <2>2
    <3> QED
      BY <1>1, <1>5, <2>2, <3>1 DEF Accounted, NoteAccountedFor
  <2> QED
    BY <2>1, <2>2
<1> QED
  BY <1>2, <1>6 DEF Accounted, NoteAccountedFor

\* An adoption re-addresses notes: their jobs and kinds stay.
LEMMA AdoptAccounted ==
  ASSUME TypeOK, Accounted, AdoptUnscopedJobs
  PROVE  Accounted'
<1> DEFINE moved(n) == IF n.session = Unscoped
                       THEN [n EXCEPT !.session = adopting] ELSE n
<1>1. /\ completed' = {moved(n) : n \in completed}
      /\ UNCHANGED <<told, dropped, pc>>
  BY DEF AdoptUnscopedJobs, jobVars, readerVars
<1>2. \A n \in completed : moved(n).job = n.job /\ moved(n).what = n.what
  BY DEF TypeOK, Notes
<1> HIDE DEF moved
<1>3. \A j \in Jobs : FinishedQueued(j)' = FinishedQueued(j)
  BY <1>1, <1>2 DEF FinishedQueued
<1>4. OneNote'
  BY <1>1, <1>2 DEF Accounted, OneNote
<1>5. \A j \in Jobs : Recorded(j)' = Recorded(j)
  BY <1>1 DEF Recorded
<1> QED
  BY <1>1, <1>3, <1>4, <1>5 DEF Accounted, NoteAccountedFor

LEMMA NextAccounted == Core /\ Accounted /\ [Next]_vars => Accounted'
<1> SUFFICES ASSUME Core, Accounted, [Next]_vars PROVE Accounted'
  OBVIOUS
<1> USE DEF managerVars, jobVars, ctxVars, callerVars, readerVars
<1>a. TypeOK /\ Lifecycle
  BY DEF Core
<1>1. ASSUME NEW s \in StartScopes, Start(s) PROVE Accounted'
  <2>1. pc[seq + 1] = "absent"
    BY <1>1, <1>a DEF Start, Lifecycle, TypeOK, Jobs
  <2> QED BY <1>1, <1>a, <2>1, StillAccounted DEF Start, Recorded, TypeOK
<1>2. ASSUME NEW s \in Scopes, Drain(s) PROVE Accounted'
  BY <1>2, <1>a, DrainAccounted
<1>3. ASSUME NEW s \in Scopes, NEW j \in Jobs, Kill(s, j) PROVE Accounted'
  BY <1>3, StillAccounted DEF Kill, Recorded
<1>4. ASSUME NEW j \in Jobs, Launch(j) PROVE Accounted'
  BY <1>4, <1>a, StillAccounted DEF Launch, Recorded, TypeOK
<1>5. ASSUME NEW j \in Jobs, RunReturns(j) PROVE Accounted'
  BY <1>5, <1>a, StillAccounted DEF RunReturns, Recorded, TypeOK
<1>6. ASSUME NEW j \in Jobs, Settle(j) PROVE Accounted'
  BY <1>6, <1>a, StillAccounted DEF Settle, Recorded, TypeOK
<1>7. ASSUME NEW j \in Jobs, Record(j) PROVE Accounted'
  BY <1>7, <1>a, RecordAccounted
<1>8. ASSUME NEW j \in Jobs, Publish(j) PROVE Accounted'
  BY <1>8, <1>a, StillAccounted DEF Publish, Recorded, TypeOK
<1>9. ASSUME NEW j \in Jobs, CloseDone(j) PROVE Accounted'
  BY <1>9, <1>a, StillAccounted DEF CloseDone, Recorded, TypeOK
<1>10. ASSUME NEW j \in Jobs, MonitorFlags(j) PROVE Accounted'
  BY <1>10, StillAccounted DEF MonitorFlags, Recorded
<1>11. ASSUME NEW j \in Jobs, MonitorExits(j) PROVE Accounted'
  BY <1>11, StillAccounted DEF MonitorExits, Recorded
<1>12. ASSUME NEW j \in Jobs, RecordStalled(j) PROVE Accounted'
  <2>1. StalledNote(j).what # "finished"
    BY DEF StalledNote
  <2> QED BY <1>12, <2>1, FinishedAlone DEF RecordStalled
<1>13. ASSUME NEW j \in Jobs, CancelContext(j) PROVE Accounted'
  BY <1>13, StillAccounted DEF CancelContext, Recorded
<1>14. ASSUME NEW s \in Sessions, SetActiveSessionPath(s) PROVE Accounted'
  BY <1>14, StillAccounted DEF SetActiveSessionPath, Recorded
<1>15. ASSUME NEW s \in Sessions, BeginDestroySession(s) PROVE Accounted'
  BY <1>15, <1>a, DestroyAccounted
<1>16. ASSUME NEW s \in Sessions, FinishDestroySession(s) PROVE Accounted'
  BY <1>16, StillAccounted DEF FinishDestroySession, Recorded
<1>17. ASSUME AdoptUnscopedJobs PROVE Accounted'
  BY <1>17, <1>a, AdoptAccounted
<1>18. ASSUME CancelRoot PROVE Accounted'
  BY <1>18, StillAccounted DEF CancelRoot, Recorded
<1>19. ASSUME CloseTargets PROVE Accounted'
  BY <1>19, StillAccounted DEF CloseTargets, Recorded
<1>20. ASSUME RemoveTempRoot PROVE Accounted'
  BY <1>20, StillAccounted DEF RemoveTempRoot, Recorded
<1>21. CASE UNCHANGED vars
  BY <1>21, StillAccounted DEF vars, Recorded
<1> QED
  BY <1>1, <1>2, <1>3, <1>4, <1>5, <1>6, <1>7, <1>8, <1>9, <1>10, <1>11,
     <1>12, <1>13, <1>14, <1>15, <1>16, <1>17, <1>18, <1>19, <1>20, <1>21
  DEF Next, GoroutineStep, MonitorStep

\* The completion note of a job past recordCompletion is queued, was drained
\* once, or went with a destroyed session, for any number of jobs, readers,
\* adoptions and destroys.
THEOREM NotesAccounted == Spec => []NoteAccountedFor
<1>1. Init => Accounted
  BY DEF Init, Accounted, OneNote, NoteAccountedFor, FinishedQueued, Recorded
<1>2. Spec => []Accounted
  BY <1>1, NextAccounted, Cored, PTL DEF Spec
<1>3. Accounted => NoteAccountedFor
  BY DEF Accounted
<1> QED
  BY <1>2, <1>3, PTL
=============================================================================
