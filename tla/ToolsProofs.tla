----------------------------- MODULE ToolsProofs -----------------------------
(* Theorems about what runs inside a turn: one call of parallel_tasks, for   *)
(* any number of tasks and any depends_on lists, and the plugin host, for    *)
(* any number of tabs.                                                       *)
EXTENDS ParallelTasks, PluginHost, FiniteSetTheorems, SequenceTheorems, TLAPS

-----------------------------------------------------------------------------
(* parallel_tasks: the inductive invariant *)

\* Nothing was started before the lists were validated.
NothingYet ==
  phase = "called" =>
    running = {} /\ done = {} /\ doneCh = <<>> /\ report = "none"

\* The goroutines are those of the started tasks, and a card shows an outcome
\* exactly once the sub-agent has ended.
Workers ==
  \A i \in Task : /\ worker[i] = "none" <=> i \notin running
                  /\ shown[i] = "none" <=> worker[i] \in {"none", "works"}

\* While the loop runs, a result is in the channel once, or was processed, and
\* its goroutine is over.
Results ==
  phase = "looping" =>
    /\ report = "none"
    /\ \A k \in 1 .. Len(doneCh) : worker[doneCh[k]] = "gone" /\ doneCh[k] \notin done
    /\ \A k, l \in 1 .. Len(doneCh) : doneCh[k] = doneCh[l] => k = l
    /\ \A i \in Task : i \in done => worker[i] = "gone" /\ statuses[i] = shown[i]

\* The entries of the list of i whose result was not processed.
Left(i) == {e \in Entries(i) : e[1] \notin done}

\* What a task waits for is what its list holds and the loop has not processed.
Counted ==
  phase = "looping" =>
    \A i \in Task \ (running \cup done) : remaining[i] = Cardinality(Left(i))

\* The statuses once the loop is over, whatever the goroutines still do.
Settled ==
  phase \in {"waiting", "returned"} /\ report # "rejected" =>
    /\ report \in {"full", "partial"}
    /\ \A i \in Task :
         /\ statuses[i] # "pending"
         /\ (statuses[i] = "skipped") <=> (i \notin running)
         /\ statuses[i] \in {"completed", "failed"} =>
              worker[i] = "gone" /\ shown[i] = statuses[i]
    /\ report = "full" => \A i \in Task : statuses[i] \in {"completed", "failed"}

\* A call that came back has no goroutine left.
Joined ==
  phase = "returned" => \A i \in Task : worker[i] \in {"none", "gone"}

CallInv ==
  /\ CallTypeOK /\ NothingYet /\ Workers /\ Results /\ Counted /\ Settled /\ Joined /\ DepsFirst

-----------------------------------------------------------------------------
(* What a list still holds *)

LEMMA Upto ==
  ASSUME NEW n \in Nat
  PROVE  IsFiniteSet(1 .. n) /\ Cardinality(1 .. n) = n
<1>1. 1 \in Int /\ n \in Int
  OBVIOUS
<1>2. Cardinality(1 .. n) = IF 1 > n THEN 0 ELSE n - 1 + 1
  BY <1>1, FS_Interval
<1> QED
  BY <1>1, <1>2, FS_Interval

LEMMA SlotsFinite == IsFiniteSet(Task \X (1 .. MaxDup))
<1>1. IsFiniteSet(1 .. MaxDup)
  BY Upto, MaxDupAssumption DEF MaxDupAssumption
<1> QED
  BY <1>1, FS_Product, TaskAssumption DEF TaskAssumption

\* Before any result, the whole list is left.
LEMMA AllLeft ==
  ASSUME NEW i \in Task, done = {}
  PROVE  Left(i) = Entries(i)
BY DEF Left, Entries

\* The result of r takes the occurrences of r off the list of i.
LEMMA LeftDrops ==
  ASSUME CallTypeOK, NEW i \in Task, NEW r \in Task, r \notin done,
         done' = done \cup {r}, deps' = deps
  PROVE  Cardinality(Left(i)') = Cardinality(Left(i)) - deps[i][r]
<1> DEFINE D == {r} \X (1 .. deps[i][r])
<1>1. deps[i][r] \in 0 .. MaxDup
  BY DEF CallTypeOK
<1>2. IsFiniteSet(Left(i))
  <2>1. Left(i) \subseteq Task \X (1 .. MaxDup)
    BY DEF Left, Entries
  <2> QED BY <2>1, SlotsFinite, FS_Subset
<1>3. D \subseteq Left(i)
  BY <1>1, MaxDupAssumption DEF Left, Entries, MaxDupAssumption
<1>4. Left(i)' = Left(i) \ D
  BY <1>1, MaxDupAssumption DEF Left, Entries, MaxDupAssumption
<1>5. Cardinality(D) = deps[i][r]
  <2>1. IsFiniteSet({r}) /\ Cardinality({r}) = 1
    BY FS_Singleton
  <2>2. deps[i][r] \in Nat
    BY <1>1, MaxDupAssumption DEF MaxDupAssumption
  <2>3. IsFiniteSet(1 .. deps[i][r]) /\ Cardinality(1 .. deps[i][r]) = deps[i][r]
    BY <2>2, Upto
  <2>4. Cardinality(D) = Cardinality({r}) * Cardinality(1 .. deps[i][r])
    BY <2>1, <2>3, FS_Product
  <2> QED BY <2>1, <2>2, <2>3, <2>4
<1>6. Cardinality(Left(i) \ D) = Cardinality(Left(i)) - Cardinality(Left(i) \cap D)
  BY <1>2, FS_Difference
<1>7. Left(i) \cap D = D
  BY <1>3
<1> QED
  BY <1>4, <1>5, <1>6, <1>7

\* After a step, a task whose list has run out depends only on tasks that
\* were processed.
LEMMA NothingLeft ==
  ASSUME CallTypeOK', NEW i \in Task, Cardinality(Left(i)') = 0
  PROVE  DependsOn(i)' \subseteq done'
<1>1. IsFiniteSet(Left(i)')
  <2>1. Left(i)' \subseteq Task \X (1 .. MaxDup)
    BY DEF Left, Entries
  <2> QED BY <2>1, SlotsFinite, FS_Subset
<1>2. Left(i)' = {}
  BY <1>1, FS_EmptySet
<1>3. ASSUME NEW j \in DependsOn(i)' PROVE j \in done'
  <2>1. deps'[i][j] \in 0 .. MaxDup /\ deps'[i][j] > 0 /\ j \in Task
    BY DEF CallTypeOK, DependsOn
  <2>2. <<j, 1>> \in Entries(i)'
    BY <2>1, MaxDupAssumption DEF Entries, MaxDupAssumption
  <2> QED BY <1>2, <2>2 DEF Left
<1> QED
  BY <1>3

-----------------------------------------------------------------------------
(* parallel_tasks: the invariant is inductive *)

LEMMA InitCallInv == CallInit => CallInv
<1> SUFFICES ASSUME CallInit PROVE CallInv
  OBVIOUS
<1>1. CallTypeOK
  <2>1. doneCh \in Seq(Task)
    BY DEF CallInit
  <2>2. /\ statuses \in [Task -> Status] /\ remaining \in [Task -> Nat]
        /\ worker \in [Task -> {"none", "works", "sends", "gone"}]
        /\ shown \in [Task -> Outcome \cup {"none"}]
    BY DEF CallInit, Status
  <2> QED BY <2>1, <2>2 DEF CallInit, CallTypeOK
<1>2. NothingYet /\ Workers /\ Results /\ Counted /\ Settled /\ Joined /\ DepsFirst
  BY DEF CallInit, NothingYet, Workers, Results, Counted, Settled, Joined, DepsFirst
<1> QED
  BY <1>1, <1>2 DEF CallInv

\* startReady starts tasks whose dependencies have all left their result.
LEMMA StartReadyKeeps ==
  ASSUME CallTypeOK, CallTypeOK', Workers, DepsFirst, StartReady,
         UNCHANGED <<deps, shown>>,
         \A i \in Task : i \in done' => worker[i] = "gone",
         \A i \in Task \ (running \cup done') : remaining'[i] = Cardinality(Left(i)')
  PROVE  Workers' /\ DepsFirst'
<1> DEFINE ready == running' \ running
<1>1. ASSUME NEW i \in ready
      PROVE  /\ i \in Task \ (running \cup done') /\ remaining'[i] = 0
             /\ worker'[i] = "works"
  BY DEF StartReady, CallTypeOK
<1>2. \A i \in Task \ ready : worker'[i] = worker[i]
  BY DEF StartReady, CallTypeOK
<1>3. running' = running \cup ready
  BY DEF StartReady
<1> HIDE DEF ready
<1>4. Workers'
  <2> SUFFICES ASSUME NEW i \in Task
               PROVE  /\ worker'[i] = "none" <=> i \notin running'
                      /\ shown'[i] = "none" <=> worker'[i] \in {"none", "works"}
    BY DEF Workers
  <2>1. shown'[i] = shown[i]
    OBVIOUS
  <2>2. CASE i \in ready
    <3>1. worker[i] = "none" /\ shown[i] = "none"
      BY <1>1, <2>2 DEF Workers
    <3> QED BY <1>1, <1>3, <2>1, <2>2, <3>1
  <2>3. CASE i \notin ready
    <3>1. worker'[i] = worker[i] /\ (i \in running' <=> i \in running)
      BY <1>2, <1>3, <2>3
    <3> QED BY <2>1, <3>1 DEF Workers
  <2> QED BY <2>2, <2>3
<1>5. ASSUME NEW i \in ready, NEW j \in DependsOn(i)'
      PROVE  shown'[j] # "none" /\ worker'[j] = "gone"
  <2>1. Cardinality(Left(i)') = 0
    BY <1>1
  <2>2. j \in done' /\ j \in Task
    BY <1>1, <2>1, NothingLeft DEF DependsOn
  <2>3. worker[j] = "gone" /\ j \notin ready
    BY <1>1, <2>2
  <2> QED BY <1>2, <2>2, <2>3 DEF Workers
<1>6. ASSUME NEW i \in running, NEW j \in DependsOn(i)'
      PROVE  shown'[j] # "none" /\ worker'[j] = "gone"
  <2>1. j \in Task /\ shown[j] # "none" /\ worker[j] = "gone"
    BY <1>6 DEF DepsFirst, DependsOn
  <2>2. j \notin ready
    BY <2>1, <1>1 DEF Workers
  <2> QED BY <1>2, <2>1, <2>2
<1> QED
  BY <1>3, <1>4, <1>5, <1>6 DEF DepsFirst

\* What startReady does to the goroutines: it creates some and ends none.
LEMMA StartReadyTyped ==
  ASSUME CallTypeOK, Workers, StartReady
  PROVE  /\ running' \subseteq Task
         /\ worker' \in [Task -> {"none", "works", "sends", "gone"}]
         /\ \A i \in Task : worker[i] = "gone" => worker'[i] = "gone"
<1>1. running' \subseteq Task
  BY DEF StartReady, CallTypeOK
<1>2. worker' \in [Task -> {"none", "works", "sends", "gone"}]
  BY DEF StartReady, CallTypeOK
<1>3. \A i \in Task : worker[i] = "gone" => worker'[i] = "gone"
  BY DEF StartReady, CallTypeOK, Workers
<1> QED
  BY <1>1, <1>2, <1>3

LEMMA CallKeeps == CallInv /\ Call => CallInv'
<1> SUFFICES ASSUME CallInv, Call PROVE CallInv'
  OBVIOUS
<1> USE DEF CallInv
<1>0. /\ running = {} /\ done = {} /\ doneCh = <<>> /\ report = "none" /\ phase = "called"
      /\ deps' = deps /\ cancelled' = cancelled /\ shown' = shown /\ doneCh' = doneCh
  BY DEF Call, NothingYet
<1>1. CASE phase' = "returned" /\ report' = "rejected" /\ UNCHANGED <<book, worker>>
  <2>1. CallTypeOK'
    BY <1>0, <1>1 DEF CallTypeOK, book
  <2>2. Workers' /\ DepsFirst'
    BY <1>0, <1>1 DEF Workers, DepsFirst, DependsOn, book
  <2>3. Joined'
    BY <1>0, <1>1 DEF Workers, Joined, book
  <2> QED BY <1>1, <2>1, <2>2, <2>3 DEF NothingYet, Results, Counted, Settled
<1>2. CASE /\ phase' = "looping" /\ done' = done /\ StartReady
           /\ remaining' = [i \in Task |-> Cardinality(Entries(i))]
           /\ UNCHANGED <<statuses, report>>
  <2>1. \A i \in Task : Left(i)' = Entries(i)
    BY <1>0, <1>2 DEF Left, Entries
  <2>2. \A i \in Task : remaining'[i] = Cardinality(Left(i)') /\ remaining'[i] \in Nat
    <3>1. ASSUME NEW i \in Task PROVE Cardinality(Entries(i)) \in Nat
      <4>1. Entries(i) \subseteq Task \X (1 .. MaxDup)
        BY DEF Entries
      <4> QED BY <4>1, SlotsFinite, FS_Subset, FS_CardinalityType
    <3> QED BY <1>2, <2>1, <3>1
  <2>3. CallTypeOK'
    <3>1. remaining' \in [Task -> Nat]
      BY <1>2, <2>2
    <3> QED BY <1>0, <1>2, <3>1, StartReadyTyped DEF CallTypeOK
  <2>4. Workers' /\ DepsFirst'
    BY <1>0, <1>2, <2>2, <2>3, StartReadyKeeps
  <2>5. Results'
    BY <1>0, <1>2 DEF Results
  <2>6. Counted'
    BY <2>2 DEF Counted
  <2> QED BY <1>2, <2>3, <2>4, <2>5, <2>6 DEF NothingYet, Settled, Joined
<1> QED
  BY <1>1, <1>2 DEF Call

\* The first result in the channel, and what its processing counts down.
LEMMA ReceiveKeeps == CallInv /\ Receive => CallInv'
<1> SUFFICES ASSUME CallInv, Receive PROVE CallInv'
  OBVIOUS
<1> DEFINE r == Head(doneCh)
<1> USE DEF CallInv
<1>1. /\ doneCh \in Seq(Task) /\ doneCh # <<>> /\ phase = "looping" /\ phase' = "looping"
      /\ doneCh' = Tail(doneCh) /\ deps' = deps /\ shown' = shown /\ cancelled' = cancelled
      /\ report' = report /\ StartReady
  BY DEF Receive, Unprocessed, CallTypeOK
<1>2. /\ done' = done \cup {r} /\ statuses' = [statuses EXCEPT ![r] = shown[r]]
      /\ remaining' = [i \in Task |->
           IF i \in running \cup done' THEN remaining[i] ELSE remaining[i] - deps[i][r]]
  BY DEF Receive, Process
<1>3. r = doneCh[1] /\ 1 \in 1 .. Len(doneCh) /\ r \in Task
  BY <1>1
<1> HIDE DEF r
<1>4. worker[r] = "gone" /\ r \notin done /\ shown[r] \in Outcome
  <2>1. worker[r] = "gone" /\ r \notin done
    BY <1>1, <1>3 DEF Results
  <2>2. shown[r] # "none"
    BY <1>3, <2>1 DEF Workers
  <2> QED BY <1>3, <2>1, <2>2 DEF CallTypeOK
<1>5. \A k \in 1 .. Len(doneCh') : k + 1 \in 1 .. Len(doneCh) /\ doneCh'[k] = doneCh[k + 1]
  BY <1>1
<1>6. ASSUME NEW i \in Task \ (running \cup done')
      PROVE  remaining'[i] = Cardinality(Left(i)') /\ remaining'[i] \in Nat
  <2>1. Cardinality(Left(i)') = Cardinality(Left(i)) - deps[i][r]
    BY <1>1, <1>2, <1>3, <1>4, LeftDrops
  <2>2. remaining[i] = Cardinality(Left(i))
    BY <1>1, <1>2, <1>6 DEF Counted
  <2>3. Left(i)' \subseteq Task \X (1 .. MaxDup)
    BY DEF Left, Entries
  <2>4. Cardinality(Left(i)') \in Nat
    BY <2>3, SlotsFinite, FS_Subset, FS_CardinalityType
  <2> QED BY <1>2, <1>6, <2>1, <2>2, <2>4
<1>7. \A i \in Task : i \in done' => worker[i] = "gone" /\ statuses'[i] = shown'[i]
  BY <1>1, <1>2, <1>3, <1>4 DEF Results, CallTypeOK
<1>8. CallTypeOK'
  <2>1. remaining' \in [Task -> Nat]
    BY <1>2, <1>6 DEF CallTypeOK
  <2>2. statuses' \in [Task -> Status]
    BY <1>2, <1>4 DEF CallTypeOK, Status
  <2>3. doneCh' \in Seq(Task)
    BY <1>1
  <2>4. done' \subseteq Task
    BY <1>2, <1>3 DEF CallTypeOK
  <2> QED BY <1>1, <2>1, <2>2, <2>3, <2>4, StartReadyTyped DEF CallTypeOK
<1>9. Workers' /\ DepsFirst'
  BY <1>1, <1>6, <1>7, <1>8, StartReadyKeeps
<1>10. Results'
  <2>1. \A i \in Task : worker[i] = "gone" => worker'[i] = "gone"
    BY <1>1, StartReadyTyped
  <2>2. ASSUME NEW k \in 1 .. Len(doneCh')
        PROVE  worker'[doneCh'[k]] = "gone" /\ doneCh'[k] \notin done'
    <3>1. doneCh'[k] \in Task /\ worker[doneCh'[k]] = "gone" /\ doneCh'[k] \notin done
      BY <1>1, <1>5, <2>2 DEF Results
    <3>2. doneCh'[k] # r
      BY <1>1, <1>3, <1>5, <2>2 DEF Results
    <3> QED BY <1>2, <2>1, <3>1, <3>2
  <2>3. ASSUME NEW k \in 1 .. Len(doneCh'), NEW l \in 1 .. Len(doneCh'), doneCh'[k] = doneCh'[l]
        PROVE  k = l
    BY <1>1, <1>5, <2>3 DEF Results
  <2> QED BY <1>1, <1>7, <2>1, <2>2, <2>3 DEF Results
<1>11. Counted'
  <2>1. \A i \in Task \ (running' \cup done') : i \in Task \ (running \cup done')
    BY <1>1 DEF StartReady
  <2> QED BY <1>6, <2>1 DEF Counted
<1> QED
  BY <1>1, <1>8, <1>9, <1>10, <1>11 DEF NothingYet, Settled, Joined

\* A sub-agent that ends, and a goroutine that ends, are those of a started
\* task whose result was not processed.
LEMMA WorkerKeeps == CallInv /\ (\E i \in Task : Finish(i) \/ SendResult(i)) => CallInv'
<1> SUFFICES ASSUME CallInv, NEW i \in Task, Finish(i) \/ SendResult(i) PROVE CallInv'
  OBVIOUS
<1> USE DEF CallInv
<1>1. CASE Finish(i)
  <2>1. PICK o \in Outcome : shown' = [shown EXCEPT ![i] = o]
    BY <1>1 DEF Finish, Outcome
  <2>2. /\ worker[i] = "works" /\ worker' = [worker EXCEPT ![i] = "sends"]
        /\ UNCHANGED <<deps, phase, cancelled, remaining, running, done, statuses, doneCh, report>>
    BY <1>1 DEF Finish, book
  <2>3. CallTypeOK'
    BY <2>1, <2>2 DEF CallTypeOK
  <2>4. Workers'
    <3>1. o # "none" /\ shown'[i] = o /\ worker'[i] = "sends" /\ i \in running
      BY <2>1, <2>2 DEF Workers, CallTypeOK, Outcome
    <3>2. \A j \in Task \ {i} : shown'[j] = shown[j] /\ worker'[j] = worker[j]
      BY <2>1, <2>2 DEF CallTypeOK
    <3> QED BY <2>2, <3>1, <3>2 DEF Workers
  <2>5. Results'
    <3>1. ASSUME NEW j \in Task, worker[j] = "gone"
          PROVE  worker'[j] = "gone" /\ shown'[j] = shown[j]
      BY <2>1, <2>2, <3>1 DEF CallTypeOK
    <3>2. \A k \in 1 .. Len(doneCh) : doneCh[k] \in Task
      BY DEF CallTypeOK
    <3>3. CASE phase = "looping"
      <4>1. \A k \in 1 .. Len(doneCh) : worker'[doneCh[k]] = "gone" /\ doneCh[k] \notin done
        BY <3>1, <3>2, <3>3 DEF Results
      <4>2. \A j \in Task : j \in done => worker'[j] = "gone" /\ statuses[j] = shown'[j]
        BY <3>1, <3>3 DEF Results
      <4> QED BY <2>2, <3>3, <4>1, <4>2 DEF Results
    <3> QED BY <2>2, <3>3 DEF Results
  <2>6. Counted' /\ NothingYet'
    BY <2>2 DEF Counted, Left, Entries, NothingYet
  <2>7. Settled' /\ Joined'
    BY <2>1, <2>2 DEF Settled, Joined, CallTypeOK
  <2>8. DepsFirst'
    BY <2>1, <2>2 DEF DepsFirst, DependsOn, CallTypeOK
  <2> QED BY <2>3, <2>4, <2>5, <2>6, <2>7, <2>8
<1>2. CASE SendResult(i)
  <2>1. /\ worker[i] = "sends" /\ worker' = [worker EXCEPT ![i] = "gone"]
        /\ doneCh' = Append(doneCh, i) /\ doneCh \in Seq(Task)
        /\ UNCHANGED <<deps, phase, cancelled, remaining, running, done, statuses, shown, report>>
    BY <1>2 DEF SendResult, book, CallTypeOK
  <2>2. CallTypeOK'
    <3>1. doneCh' \in Seq(Task)
      BY <2>1
    <3> QED BY <2>1, <3>1 DEF CallTypeOK
  <2>3. Workers'
    BY <2>1 DEF Workers, CallTypeOK
  <2>4. /\ Len(doneCh') = Len(doneCh) + 1 /\ Len(doneCh) \in Nat /\ doneCh'[Len(doneCh) + 1] = i
        /\ \A k \in 1 .. Len(doneCh) : doneCh'[k] = doneCh[k] /\ doneCh[k] \in Task
    BY <2>1
  <2>5. ASSUME phase = "looping" PROVE Results'
    <3>1. i \notin done
      BY <2>1, <2>5 DEF Results
    <3>2. \A k \in 1 .. Len(doneCh) : doneCh[k] # i /\ worker'[doneCh[k]] = "gone"
      BY <2>1, <2>4, <2>5 DEF Results, CallTypeOK
    <3>3. worker'[i] = "gone"
      BY <2>1 DEF CallTypeOK
    <3>4. ASSUME NEW k \in 1 .. Len(doneCh')
          PROVE  worker'[doneCh'[k]] = "gone" /\ doneCh'[k] \notin done'
      BY <2>1, <2>4, <2>5, <3>1, <3>2, <3>3 DEF Results
    <3>5. ASSUME NEW k \in 1 .. Len(doneCh'), NEW l \in 1 .. Len(doneCh'), doneCh'[k] = doneCh'[l]
          PROVE  k = l
      BY <2>1, <2>4, <2>5, <3>2, <3>5 DEF Results
    <3>6. \A j \in Task : j \in done' => worker'[j] = "gone" /\ statuses'[j] = shown'[j]
      BY <2>1, <2>5 DEF Results, CallTypeOK
    <3> QED BY <2>1, <2>5, <3>4, <3>5, <3>6 DEF Results
  <2>6. Results'
    BY <2>1, <2>5 DEF Results
  <2>7. Counted'
    BY <2>1 DEF Counted, Left, Entries
  <2>8. NothingYet'
    BY <2>1 DEF NothingYet, Workers
  <2>9. Settled' /\ Joined'
    BY <2>1 DEF Settled, Joined, CallTypeOK
  <2>10. DepsFirst'
    BY <2>1 DEF DepsFirst, DependsOn, CallTypeOK
  <2> QED BY <2>2, <2>3, <2>6, <2>7, <2>8, <2>9, <2>10
<1> QED
  BY <1>1, <1>2

\* However the loop ends, the statuses it leaves are final.
LEMMA LoopEndKeeps == CallInv /\ (StopLoop \/ EndLoop) => CallInv'
<1> SUFFICES ASSUME CallInv, StopLoop \/ EndLoop PROVE CallInv'
  OBVIOUS
<1> USE DEF CallInv
<1>0. /\ phase = "looping" /\ phase' = "waiting" /\ doneCh \in Seq(Task)
      /\ UNCHANGED <<deps, cancelled, remaining, running, worker, shown>>
  BY DEF StopLoop, EndLoop, Unprocessed, book, CallTypeOK
<1>1. Workers' /\ NothingYet' /\ Results' /\ Counted' /\ Joined' /\ DepsFirst'
  BY <1>0 DEF Workers, NothingYet, Results, Counted, Joined, DepsFirst, DependsOn
<1>2. \A i \in Task : worker[i] = "gone" => shown[i] \in Outcome /\ i \in running
  BY DEF Workers, CallTypeOK
<1>3. CASE StopLoop
  <2> DEFINE drained == ToSet(doneCh)
             lost    == Task \ (done \cup drained)
  <2>1. \A i \in drained : i \in Task /\ worker[i] = "gone" /\ i \notin done
    BY <1>0 DEF ToSet, Results
  <2>2. /\ statuses' = [i \in Task |->
             IF i \in drained THEN shown[i]
             ELSE IF i \notin lost THEN statuses[i]
             ELSE IF i \in running THEN "cancelled" ELSE "skipped"]
        /\ report' = "partial" /\ doneCh' = <<>> /\ done' = Task
    BY <1>3 DEF StopLoop
  <2>3. \A i \in Task \ lost : worker[i] = "gone" /\ statuses'[i] = shown[i]
    <3>1. \A i \in done : i \in Task => worker[i] = "gone" /\ statuses[i] = shown[i]
      BY <1>0 DEF Results
    <3> QED BY <2>1, <2>2, <3>1
  <2>4. \A i \in lost : statuses'[i] = IF i \in running THEN "cancelled" ELSE "skipped"
    BY <2>2
  <2>5. \A i \in Task : statuses'[i] \in Status
    BY <1>2, <2>3, <2>4 DEF Status, Outcome
  <2>6. CallTypeOK'
    <3>1. statuses' \in [Task -> Status]
      BY <2>2, <2>5
    <3>2. doneCh' \in Seq(Task)
      BY <2>2
    <3> QED BY <1>0, <2>2, <3>1, <3>2 DEF CallTypeOK
  <2> HIDE DEF lost
  <2>7. ASSUME NEW i \in Task
        PROVE  /\ statuses'[i] # "pending"
               /\ (statuses'[i] = "skipped") <=> (i \notin running)
               /\ statuses'[i] \in {"completed", "failed"} =>
                    worker[i] = "gone" /\ shown[i] = statuses'[i]
    <3>1. CASE i \in lost
      BY <2>4, <3>1
    <3>2. CASE i \notin lost
      BY <1>2, <2>3, <3>2 DEF Outcome
    <3> QED BY <3>1, <3>2
  <2>8. Settled'
    BY <1>0, <2>2, <2>7 DEF Settled
  <2> QED BY <1>1, <2>6, <2>8
<1>4. CASE EndLoop
  <2>1. /\ done = Task /\ UNCHANGED <<done, statuses, doneCh>>
        /\ report' = IF \E i \in Task : statuses[i] \in {"cancelled", "skipped"}
                     THEN "partial" ELSE "full"
    BY <1>4 DEF EndLoop, book
  <2>2. CallTypeOK'
    BY <1>0, <2>1 DEF CallTypeOK
  <2>3. \A i \in Task : worker[i] = "gone" /\ statuses[i] = shown[i]
    BY <1>0, <2>1 DEF Results
  <2>4. ASSUME NEW i \in Task
        PROVE  /\ statuses[i] # "pending" /\ statuses[i] # "skipped" /\ i \in running
               /\ statuses[i] \in Outcome
    BY <1>2, <2>3 DEF Outcome
  <2>5. report' = "full" => \A i \in Task : statuses[i] \in {"completed", "failed"}
    BY <2>1, <2>4 DEF Outcome
  <2>6. Settled'
    BY <1>0, <2>1, <2>3, <2>4, <2>5 DEF Settled
  <2> QED BY <1>1, <2>2, <2>6
<1> QED
  BY <1>3, <1>4

LEMMA NextCallInv == CallInv /\ [CallNext]_callVars => CallInv'
<1> SUFFICES ASSUME CallInv, [CallNext]_callVars PROVE CallInv'
  OBVIOUS
<1>1. CASE Call
  BY <1>1, CallKeeps
<1>2. CASE Receive
  BY <1>2, ReceiveKeeps
<1>3. CASE StopLoop \/ EndLoop
  BY <1>3, LoopEndKeeps
<1>4. CASE \E i \in Task : Finish(i) \/ SendResult(i)
  BY <1>4, WorkerKeeps
<1>5. CASE Return
  <2>1. /\ phase = "waiting" /\ phase' = "returned" /\ \A i \in Task : worker[i] \in {"none", "gone"}
        /\ UNCHANGED <<deps, cancelled, remaining, running, done, statuses, worker, shown, doneCh, report>>
    BY <1>5 DEF Return, book
  <2>2. CallTypeOK' /\ NothingYet' /\ Workers' /\ Results' /\ Counted'
    BY <2>1 DEF CallInv, CallTypeOK, NothingYet, Workers, Results, Counted
  <2>3. Settled' /\ Joined' /\ DepsFirst'
    BY <2>1 DEF CallInv, Settled, Joined, DepsFirst, DependsOn
  <2> QED BY <2>2, <2>3 DEF CallInv
<1>6. CASE CancelTurn \/ Over \/ UNCHANGED callVars
  <2>1. /\ cancelled' \in BOOLEAN
        /\ UNCHANGED <<deps, phase, remaining, running, done, statuses, worker, shown, doneCh, report>>
    BY <1>6 DEF CancelTurn, Over, callVars, book, CallInv, CallTypeOK
  <2>2. CallTypeOK' /\ NothingYet' /\ Workers' /\ Results'
    BY <2>1 DEF CallInv, CallTypeOK, NothingYet, Workers, Results
  <2>3. Counted'
    BY <2>1 DEF CallInv, Counted, Left, Entries
  <2>4. Settled' /\ Joined' /\ DepsFirst'
    BY <2>1 DEF CallInv, Settled, Joined, DepsFirst, DependsOn
  <2> QED BY <2>2, <2>3, <2>4 DEF CallInv
<1> QED
  BY <1>1, <1>2, <1>3, <1>4, <1>5, <1>6 DEF CallNext, Loop

THEOREM CallInvariant == CallSpec => []CallInv
BY InitCallInv, NextCallInv, PTL DEF CallSpec

\* Every variable of the call keeps its type; what a task waits for never
\* runs below zero.
THEOREM CallTypes == CallSpec => []CallTypeOK
<1>1. CallInv => CallTypeOK
  BY DEF CallInv
<1> QED
  BY <1>1, CallInvariant, PTL

\* startParallelTask runs for a task only once every sub-agent it depends on
\* has put its result on its card and has ended, for any number of tasks and
\* any depends_on lists, entries listed twice included.
THEOREM DependenciesFirst == CallSpec => []DepsFirst
<1>1. CallInv => DepsFirst
  BY DEF CallInv
<1> QED
  BY <1>1, CallInvariant, PTL

\* What Execute hands back is final and agrees with the cards.
THEOREM ReportAgrees == CallSpec => []ReportIsTrue
<1>1. CallInv => ReportIsTrue
  <2> SUFFICES ASSUME CallInv, phase = "returned", report # "rejected"
               PROVE  /\ \A i \in Task :
                           /\ worker[i] \in {"none", "gone"}
                           /\ statuses[i] # "pending"
                           /\ (statuses[i] = "skipped") <=> (worker[i] = "none")
                           /\ statuses[i] \in {"completed", "failed"} => shown[i] = statuses[i]
                      /\ report = "full" => \A i \in Task : statuses[i] \in {"completed", "failed"}
    BY DEF ReportIsTrue
  <2> QED BY DEF CallInv, Joined, Settled, Workers
<1> QED
  BY <1>1, CallInvariant, PTL

-----------------------------------------------------------------------------
(* The plugin host: the inductive invariant *)

\* Host.spawning names the one actor that is starting the server, and while
\* its handshake is under way no child is listed.
OneAttempt ==
  \A a \in Actor : /\ pc[a] \in {"own", "handshake"} <=> attempt = a
                   /\ pc[a] = "handshake" => listed = None

\* On a shared host a server that is off is suspended in the tab's registry,
\* and no connect of the user is under way that could lift that.
Suspended ==
  Shared => \A t \in Tab : off[t] => suspended[t] /\ pc[User(t)] = "idle" /\ reg[t] = {}

\* Nothing was added for a tab that was never booted.
Fresh == \A t \in Tab : tabPh[t] \in {"new", "acquired"} => pc[Booting(t)] = "idle"

\* A tab that has its reference keeps the host open.
Referenced == hostUp # "open" => \A t \in Tab : tabPh[t] \in {"new", "gone"}

HostInv == HostTypeOK /\ OneAttempt /\ Fresh /\ Referenced /\ NoEscape /\ Suspended

-----------------------------------------------------------------------------
(* Actors, and the end of an attempt *)

Told == {"ok", "exists", "closed", "failed", "cancelled", "timeout"}

LEMMA Actors ==
  ASSUME NEW t \in Tab
  PROVE  /\ Booting(t) \in Actor /\ User(t) \in Actor
         /\ \A u \in Tab : Booting(u) # User(t) /\ (User(u) = User(t) => u = t)
                           /\ (Booting(u) = Booting(t) => u = t)
BY DEF Actor, Booting, User

LEMMA NoneIsNoActor == \A a \in Actor : a # None
BY HostAssumption DEF HostAssumption

LEMMA EndSpawnTyped ==
  ASSUME HostTypeOK, NEW a \in Actor, NEW r \in Told, EndSpawn(a, r)
  PROVE  /\ attempt' = None
         /\ pc' \in [Actor -> {"idle", "check", "claim", "own", "wait", "handshake", "answered"}]
         /\ res' \in [Actor -> {None} \cup Told]
BY DEF EndSpawn, HostTypeOK, Told

\* Only the owner and those who wait hear of the end of an attempt.
LEMMA EndSpawnTells ==
  ASSUME HostTypeOK, NEW a \in Actor, NEW r \in Told, EndSpawn(a, r), NEW b \in Actor
  PROVE  pc'[b] = IF b = a \/ pc[b] = "wait" THEN "answered" ELSE pc[b]
BY DEF EndSpawn, HostTypeOK

LEMMA RegisterTyped ==
  ASSUME HostTypeOK, NEW t \in Tab, NEW things \in SUBSET {"stub", "real"}, NEW gone,
         Register(t, things, gone)
  PROVE  /\ reg' \in [Tab -> SUBSET {"stub", "real"}]
         /\ \A u \in Tab : suspended'[u] /\ reg[u] = {} => reg'[u] = {}
BY DEF Register, HostTypeOK

-----------------------------------------------------------------------------
(* The plugin host: the invariant is inductive *)

LEMMA InitHostInv == HostInit => HostInv
<1> SUFFICES ASSUME HostInit PROVE HostInv
  OBVIOUS
<1>1. HostTypeOK
  BY HostAssumption DEF HostAssumption, HostInit, HostTypeOK
<1>2. OneAttempt
  BY NoneIsNoActor DEF HostInit, OneAttempt
<1>3. Fresh /\ Referenced /\ NoEscape /\ Suspended
  BY Actors DEF HostInit, Fresh, Referenced, NoEscape, Suspended
<1> QED
  BY <1>1, <1>2, <1>3 DEF HostInv

\* Every handler of a tab keeps the types.
LEMMA TabTyped ==
  ASSUME HostTypeOK, NEW t \in Tab,
         \/ Acquire(t) \/ Boot(t) \/ Place(t) \/ AbortBuild(t) \/ FailBuild(t) \/ CloseTab(t)
         \/ Publish(t) \/ EagerDone(t)
         \/ AskConnect(t) \/ Connected(t) \/ TurnOff(t) \/ Reconnect(t)
  PROVE  HostTypeOK'
<1> USE Actors DEF spawnVars, tabVars, lazyVars
<1>1. CASE Boot(t)
  <2>1. reg' \in [Tab -> SUBSET {"stub", "real"}]
    BY <1>1, RegisterTyped DEF Boot, HostTypeOK
  <2> QED BY <1>1, <2>1 DEF Boot, HostTypeOK
<1>2. CASE Place(t)
  <2>1. reg' \in [Tab -> SUBSET {"stub", "real"}]
    BY <1>2, RegisterTyped DEF Place
  <2> QED BY <1>2, <2>1 DEF Place, HostTypeOK
<1>3. CASE Acquire(t) \/ AbortBuild(t) \/ FailBuild(t) \/ CloseTab(t)
  <2>1. hostUp' \in {"open", "closing", "closed"}
    BY <1>3 DEF Acquire, AbortBuild, FailBuild, CloseTab, LetGo, Release, HostTypeOK
  <2>2. /\ tabPh' \in [Tab -> {"new", "acquired", "building", "ready", "gone"}]
        /\ aborted' \in [Tab -> BOOLEAN]
    BY <1>3 DEF Acquire, AbortBuild, FailBuild, CloseTab, LetGo, HostTypeOK
  <2>3. UNCHANGED <<listed, proc, attempt, pc, res, tier, cached, st, reg, suspended, off, connects>>
    BY <1>3 DEF Acquire, AbortBuild, FailBuild, CloseTab, LetGo
  <2> QED BY <2>1, <2>2, <2>3 DEF HostTypeOK
<1>4. CASE Publish(t)
  <2>1. reg' \in [Tab -> SUBSET {"stub", "real"}]
    BY <1>4, RegisterTyped DEF Publish, HostTypeOK
  <2>2. res' \in [Actor -> {None, "ok", "exists", "closed", "failed", "cancelled", "timeout"}]
    BY <1>4 DEF Publish, HostTypeOK
  <2> QED BY <1>4, <2>1, <2>2 DEF Publish, HostTypeOK
<1>5. CASE EagerDone(t)
  <2>1. reg' \in [Tab -> SUBSET {"stub", "real"}]
    BY <1>5, RegisterTyped DEF EagerDone, HostTypeOK
  <2> QED BY <1>5, <2>1 DEF EagerDone, HostTypeOK
<1>6. CASE AskConnect(t)
  BY <1>6, HostAssumption DEF HostAssumption, AskConnect, HostTypeOK
<1>7. CASE Connected(t)
  <2>1. reg' \in [Tab -> SUBSET {"stub", "real"}]
    BY <1>7, RegisterTyped DEF Connected, HostTypeOK
  <2> QED BY <1>7, <2>1 DEF Connected, HostTypeOK
<1>8. CASE TurnOff(t)
  BY <1>8, HostAssumption DEF HostAssumption, TurnOff, HostTypeOK
<1>9. CASE Reconnect(t)
  BY <1>9, HostAssumption DEF HostAssumption, Reconnect, Disconnect, HostTypeOK
<1> QED
  BY <1>1, <1>2, <1>3, <1>4, <1>5, <1>6, <1>7, <1>8, <1>9

\* So does every step of Host.Add, and the end of children and host.
LEMMA AddTyped ==
  ASSUME HostTypeOK, (\E a \in Actor : Add(a) \/ ChildDies(a)) \/ CloseHost
  PROVE  HostTypeOK'
<1> USE DEF spawnVars, tabVars, lazyVars
<1>1. ASSUME NEW a \in Actor, Check(a) \/ Claim(a) \/ StopWaiting(a) PROVE HostTypeOK'
  <2>1. CASE Check(a)
    BY <1>1, <2>1 DEF Check, Answer, HostTypeOK
  <2>2. CASE Claim(a)
    BY <1>1, <2>2 DEF Claim, HostTypeOK
  <2>3. CASE StopWaiting(a)
    BY <1>1, <2>3 DEF StopWaiting, Answer, HostTypeOK
  <2> QED BY <1>1, <2>1, <2>2, <2>3
<1>2. ASSUME NEW a \in Actor, Start(a) \/ Connect(a) \/ Fail(a) PROVE HostTypeOK'
  <2>1. CASE \E r \in Told : EndSpawn(a, r)
    <3>1. /\ attempt' = None
          /\ pc' \in [Actor -> {"idle", "check", "claim", "own", "wait", "handshake", "answered"}]
          /\ res' \in [Actor -> {None} \cup Told]
      BY <2>1, EndSpawnTyped
    <3>2. /\ hostUp' = hostUp /\ UNCHANGED <<tabVars, lazyVars, connects>>
          /\ listed' \in {listed, a} /\ proc' \subseteq proc \cup {a}
      BY <1>2 DEF Start, Connect, Fail
    <3> QED BY <3>1, <3>2 DEF HostTypeOK, Told
  <2>2. CASE ~\E r \in Told : EndSpawn(a, r)
    <3>1. Start(a) /\ proc' = proc \cup {a} /\ pc' = [pc EXCEPT ![a] = "handshake"]
          /\ UNCHANGED <<attempt, res>>
      BY <1>2, <2>2 DEF Start, Connect, Fail, Told
    <3> QED BY <3>1 DEF Start, HostTypeOK
  <2> QED BY <2>1, <2>2
<1>3. ASSUME NEW a \in Actor, ChildDies(a) PROVE HostTypeOK'
  BY <1>3 DEF ChildDies, HostTypeOK
<1>4. CASE CloseHost
  BY <1>4 DEF CloseHost, HostTypeOK
<1> QED
  BY <1>1, <1>2, <1>3, <1>4 DEF Add

\* Only Claim, Start, Connect and Fail touch the entry of Host.spawning; any
\* other step moves no actor into or out of the attempt, and lists no child.
LEMMA AttemptStep == HostInv /\ HostNext => OneAttempt'
<1> SUFFICES ASSUME HostInv, HostNext PROVE OneAttempt'
  OBVIOUS
<1> USE DEF HostInv
<1>0. /\ pc \in [Actor -> {"idle", "check", "claim", "own", "wait", "handshake", "answered"}]
      /\ HostTypeOK
  BY DEF HostTypeOK
<1>1. ASSUME attempt' = attempt, listed' \in {listed, None},
             \A b \in Actor : \/ pc'[b] = pc[b]
                              \/ /\ pc[b] \notin {"own", "handshake"}
                                 /\ pc'[b] \notin {"own", "handshake"}
      PROVE  OneAttempt'
  BY <1>1 DEF OneAttempt
<1>2. ASSUME NEW t \in Tab,
             \/ Acquire(t) \/ Boot(t) \/ Place(t) \/ AbortBuild(t) \/ FailBuild(t) \/ CloseTab(t)
         \/ Publish(t) \/ EagerDone(t)
             \/ AskConnect(t) \/ Connected(t) \/ TurnOff(t) \/ Reconnect(t)
      PROVE  OneAttempt'
  <2>1. attempt' = attempt /\ listed' \in {listed, None}
    BY <1>2 DEF Boot, Place, AbortBuild, CloseTab, Publish, EagerDone, AskConnect, Connected,
                TurnOff, Reconnect, Disconnect, Acquire, FailBuild, LetGo, spawnVars
  <2>2. \/ pc' = pc
        \/ \E p \in {"check", "idle"} :
             \/ pc[Booting(t)] \in {"idle", "answered"} /\ pc' = [pc EXCEPT ![Booting(t)] = p]
             \/ pc[User(t)] \in {"idle", "answered"} /\ pc' = [pc EXCEPT ![User(t)] = p]
    <3>1. CASE Boot(t)
      BY <3>1 DEF Boot, Fresh
    <3>2. CASE Acquire(t) \/ Place(t) \/ AbortBuild(t) \/ FailBuild(t) \/ CloseTab(t) \/ TurnOff(t)
      BY <3>2 DEF Acquire, Place, AbortBuild, FailBuild, CloseTab, LetGo, TurnOff
    <3>3. CASE Publish(t) \/ EagerDone(t)
      BY <3>3 DEF Publish, EagerDone
    <3>4. CASE AskConnect(t) \/ Connected(t) \/ Reconnect(t)
      BY <3>4 DEF AskConnect, Connected, Reconnect
    <3> QED BY <1>2, <3>1, <3>2, <3>3, <3>4
  <2> QED BY <1>0, <1>1, <2>1, <2>2, Actors
<1>3. ASSUME NEW a \in Actor, Check(a) \/ StopWaiting(a) \/ ChildDies(a)
      PROVE  OneAttempt'
  <2>1. attempt' = attempt /\ listed' = listed
    BY <1>3 DEF Check, StopWaiting, ChildDies, spawnVars
  <2>2. \/ pc' = pc
        \/ \E p \in {"claim", "answered"} :
             pc[a] \in {"check", "wait"} /\ pc' = [pc EXCEPT ![a] = p]
    BY <1>3 DEF Check, StopWaiting, ChildDies, Answer
  <2> QED BY <1>0, <1>1, <2>1, <2>2
<1>4. ASSUME NEW a \in Actor, Claim(a)
      PROVE  OneAttempt'
  <2>1. CASE attempt = None
    <3>1. attempt' = a /\ pc' = [pc EXCEPT ![a] = "own"] /\ listed' = listed
      BY <1>4, <2>1 DEF Claim
    <3>2. \A b \in Actor : pc[b] \notin {"own", "handshake"}
      BY <2>1, NoneIsNoActor DEF OneAttempt
    <3> QED BY <1>0, <3>1, <3>2 DEF OneAttempt
  <2>2. CASE attempt # None
    <3>1. attempt' = attempt /\ pc' = [pc EXCEPT ![a] = "wait"] /\ listed' = listed /\ pc[a] = "claim"
      BY <1>4, <2>2 DEF Claim
    <3> QED BY <1>0, <1>1, <3>1
  <2> QED BY <2>1, <2>2
<1>5. ASSUME NEW a \in Actor, Start(a) \/ Connect(a) \/ Fail(a)
      PROVE  OneAttempt'
  <2>1. pc[a] \in {"own", "handshake"} /\ attempt = a
    BY <1>5 DEF Start, Connect, Fail, OneAttempt
  <2>2. CASE \E r \in Told : EndSpawn(a, r)
    <3>1. attempt' = None
      BY <2>2, EndSpawnTyped
    <3>2. \A b \in Actor : pc'[b] = IF b = a \/ pc[b] = "wait" THEN "answered" ELSE pc[b]
      BY <2>2, EndSpawnTells
    <3>3. \A b \in Actor : pc'[b] \notin {"own", "handshake"}
      BY <2>1, <3>2 DEF OneAttempt
    <3> QED BY <3>1, <3>3, NoneIsNoActor DEF OneAttempt
  <2>3. CASE ~\E r \in Told : EndSpawn(a, r)
    <3>1. /\ listed = None /\ listed' = listed /\ attempt' = attempt
          /\ pc' = [pc EXCEPT ![a] = "handshake"]
      BY <1>5, <2>3 DEF Start, Connect, Fail, Told
    <3> QED BY <1>0, <2>1, <3>1 DEF OneAttempt
  <2> QED BY <2>2, <2>3
<1>6. CASE CloseHost
  BY <1>1, <1>6 DEF CloseHost
<1> QED
  BY <1>2, <1>3, <1>4, <1>5, <1>6 DEF HostNext, Add

\* Which steps take an actor out of its rest: the boot of its tab, and what
\* the user asks for.
LEMMA RestStep ==
  ASSUME HostInv, HostNext, NEW a \in Actor, pc[a] = "idle"
  PROVE  \/ pc'[a] = "idle"
         \/ \E t \in Tab : a = Booting(t) /\ Boot(t)
         \/ \E t \in Tab : a = User(t) /\ (AskConnect(t) \/ Reconnect(t))
<1>0. /\ pc \in [Actor -> {"idle", "check", "claim", "own", "wait", "handshake", "answered"}]
      /\ HostTypeOK
  BY DEF HostInv, HostTypeOK
<1>1. ASSUME NEW t \in Tab, Boot(t) PROVE a = Booting(t) \/ pc'[a] = "idle"
  BY <1>0, <1>1, Actors DEF Boot
<1>2. ASSUME NEW t \in Tab, AskConnect(t) \/ Reconnect(t) PROVE a = User(t) \/ pc'[a] = "idle"
  BY <1>0, <1>2, Actors DEF AskConnect, Reconnect
<1>3. ASSUME NEW t \in Tab, \/ Acquire(t) \/ Place(t) \/ AbortBuild(t) \/ FailBuild(t) \/ CloseTab(t)
                            \/ TurnOff(t) \/ Publish(t) \/ EagerDone(t) \/ Connected(t)
      PROVE  pc'[a] = "idle"
  <2>1. pc' = pc \/ pc' = [pc EXCEPT ![Booting(t)] = "idle"] \/ pc' = [pc EXCEPT ![User(t)] = "idle"]
    BY <1>3 DEF Acquire, Place, AbortBuild, FailBuild, CloseTab, LetGo, TurnOff, Publish,
                EagerDone, Connected
  <2> QED BY <1>0, <2>1
<1>4. ASSUME NEW b \in Actor, Check(b) \/ Claim(b) \/ StopWaiting(b) \/ ChildDies(b)
      PROVE  pc'[a] = "idle"
  <2>1. pc' = pc \/ (pc[b] # "idle" /\ \E p \in {"own", "claim", "wait", "answered"} : pc' = [pc EXCEPT ![b] = p])
    BY <1>4 DEF Check, Claim, StopWaiting, ChildDies, Answer
  <2> QED BY <1>0, <2>1
<1>5. ASSUME NEW b \in Actor, Start(b) \/ Connect(b) \/ Fail(b)
      PROVE  pc'[a] = "idle"
  <2>1. pc[b] # "idle"
    BY <1>5 DEF Start, Connect, Fail
  <2>2. CASE \E r \in Told : EndSpawn(b, r)
    BY <1>0, <2>1, <2>2, EndSpawnTells
  <2>3. CASE ~\E r \in Told : EndSpawn(b, r)
    <3>1. pc' = [pc EXCEPT ![b] = "handshake"]
      BY <1>5, <2>3 DEF Start, Connect, Fail, Told
    <3> QED BY <1>0, <2>1, <3>1
  <2> QED BY <2>2, <2>3
<1>6. ASSUME CloseHost PROVE pc'[a] = "idle"
  BY <1>6 DEF CloseHost
<1> QED
  BY <1>1, <1>2, <1>3, <1>4, <1>5, <1>6 DEF HostNext, Add

\* What follows for a tab that was never booted.
LEMMA FreshStep == HostInv /\ HostNext => Fresh'
<1> SUFFICES ASSUME HostInv, HostNext, NEW t \in Tab, tabPh'[t] \in {"new", "acquired"}
             PROVE  pc'[Booting(t)] = "idle"
  BY DEF Fresh
<1>0. tabPh \in [Tab -> {"new", "acquired", "building", "ready", "gone"}]
  BY DEF HostInv, HostTypeOK
<1>1. tabPh[t] \in {"new", "acquired"} /\ ~Boot(t)
  <2>1. ASSUME NEW u \in Tab, Boot(u) PROVE tabPh[t] \in {"new", "acquired"} /\ ~Boot(t)
    BY <1>0, <2>1 DEF Boot
  <2>2. ASSUME NEW u \in Tab, \/ Acquire(u) \/ Place(u) \/ FailBuild(u) \/ CloseTab(u) \/ EagerDone(u)
        PROVE tabPh[t] \in {"new", "acquired"} /\ ~Boot(t)
    BY <1>0, <2>2 DEF Acquire, Place, FailBuild, CloseTab, LetGo, EagerDone, Boot
  <2>3. CASE \/ \E u \in Tab : \/ AbortBuild(u) \/ Publish(u) \/ AskConnect(u) \/ Connected(u)
                             \/ TurnOff(u) \/ Reconnect(u)
             \/ \E a \in Actor : Add(a) \/ ChildDies(a)
             \/ CloseHost
    <3>1. tabPh' = tabPh
      BY <2>3 DEF AbortBuild, Publish, AskConnect, Connected, TurnOff, Reconnect, Add, Check, Claim,
                  Start, Connect, Fail, StopWaiting, ChildDies, CloseHost, tabVars
    <3> QED BY <1>0, <3>1 DEF Boot
  <2> QED BY <2>1, <2>2, <2>3 DEF HostNext
<1> QED
  BY <1>1, RestStep, Actors DEF HostInv, Fresh

\* A reference is only taken on an open host, and the last one to be let go
\* of starts the close.
LEMMA ReferenceStep == HostInv /\ HostNext => Referenced'
<1> SUFFICES ASSUME HostInv, HostNext, hostUp' # "open", NEW t \in Tab
             PROVE  tabPh'[t] \in {"new", "gone"}
  BY DEF Referenced
<1>0. tabPh \in [Tab -> {"new", "acquired", "building", "ready", "gone"}]
  BY DEF HostInv, HostTypeOK
<1>1. ASSUME NEW u \in Tab, FailBuild(u) \/ CloseTab(u)
      PROVE  tabPh'[t] \in {"new", "gone"}
  BY <1>0, <1>1 DEF FailBuild, CloseTab, LetGo, Release, HostInv, Referenced
<1>2. ASSUME NEW u \in Tab, Acquire(u) \/ Boot(u) \/ Place(u) \/ EagerDone(u)
      PROVE  tabPh'[t] \in {"new", "gone"}
  <2>1. hostUp # "open"
    BY <1>2 DEF Acquire, Boot, Place, EagerDone, spawnVars
  <2>2. tabPh[u] \in {"new", "gone"}
    BY <2>1 DEF HostInv, Referenced
  <2> QED BY <1>2, <2>1, <2>2 DEF Acquire, Boot, Place, EagerDone
<1>3. CASE \/ \E u \in Tab : \/ AbortBuild(u) \/ Publish(u) \/ AskConnect(u) \/ Connected(u)
                           \/ TurnOff(u) \/ Reconnect(u)
           \/ \E a \in Actor : Add(a) \/ ChildDies(a)
           \/ CloseHost
  <2>1. tabPh' = tabPh /\ (hostUp' # "open" => hostUp # "open")
    BY <1>3 DEF AbortBuild, Publish, AskConnect, Connected, TurnOff, Reconnect, Add, Check, Claim,
                Start, Connect, Fail, StopWaiting, ChildDies, CloseHost, tabVars, spawnVars
  <2> QED BY <2>1 DEF HostInv, Referenced
<1> QED
  BY <1>1, <1>2, <1>3 DEF HostNext

\* Once Host.Close has returned nothing is listed, started or booted.
LEMMA EscapeStep == HostInv /\ HostNext => NoEscape'
<1> SUFFICES ASSUME HostInv, HostNext, hostUp' = "closed"
             PROVE  /\ listed' \notin proc'
                    /\ \A t \in Tab : tier'[t] = "background" => pc'[Booting(t)] = "idle"
  BY DEF NoEscape
<1> USE DEF HostInv
<1>1. CASE CloseHost
  BY <1>1 DEF CloseHost, tabVars
<1>2. CASE ~CloseHost
  <2>1. hostUp = "closed"
    BY <1>2 DEF HostNext, Acquire, Boot, Place, AbortBuild, FailBuild, CloseTab, LetGo, Release, Publish,
                EagerDone, AskConnect, Connected, TurnOff, Reconnect, Add, Check, Claim, Start, Connect, Fail, StopWaiting,
                ChildDies, spawnVars, HostTypeOK
  <2>2. \A t \in Tab : ~Acquire(t) /\ ~Boot(t)
    BY <2>1 DEF Acquire, Boot, Referenced
  <2>3. tier' = tier
    BY <1>2, <2>2 DEF HostNext, Place, AbortBuild, FailBuild, CloseTab, LetGo, Publish, EagerDone, AskConnect, Connected,
                TurnOff, Reconnect, Add, Check, Claim, Start, Connect, Fail, StopWaiting, ChildDies, tabVars
  <2>4. \A t \in Tab : tier'[t] = "background" => pc'[Booting(t)] = "idle"
    <3> SUFFICES ASSUME NEW t \in Tab, tier[t] = "background" PROVE pc'[Booting(t)] = "idle"
      BY <2>3
    <3>1. pc[Booting(t)] = "idle"
      BY <2>1 DEF NoEscape
    <3> QED BY <2>2, <3>1, RestStep, Actors
  <2>5. listed' \in {listed, None} /\ proc' \subseteq proc
    BY <1>2, <2>1, <2>2 DEF HostNext, Place, AbortBuild, FailBuild, CloseTab, LetGo, Publish, EagerDone,
                AskConnect, Connected, TurnOff, Reconnect, Disconnect, Add, Check, Claim, Start, Connect, Fail, StopWaiting,
                ChildDies, spawnVars
  <2>6. listed \notin proc /\ None \notin proc
    BY <2>1, NoneIsNoActor DEF NoEscape, HostTypeOK
  <2> QED BY <2>4, <2>5, <2>6
<1> QED
  BY <1>1, <1>2

\* What a tab's registry takes while the server is off in it, whoever
\* brings it: the tab's own boot, a late handshake, or another tab.
LEMMA SuspendStep == HostInv /\ HostNext => Suspended'
<1> SUFFICES ASSUME HostInv, HostNext, Shared, NEW t \in Tab, off'[t]
             PROVE  suspended'[t] /\ pc'[User(t)] = "idle" /\ reg'[t] = {}
  BY DEF Suspended
<1>0. HostTypeOK
  BY DEF HostInv
<1>1. CASE TurnOff(t)
  BY <1>0, <1>1, Actors DEF TurnOff, HostTypeOK
<1>2. CASE ~TurnOff(t)
  <2>1. off[t] /\ ~AskConnect(t) /\ ~Reconnect(t)
    <3>1. ASSUME NEW u \in Tab, AskConnect(u) \/ Reconnect(u)
          PROVE  u # t /\ off[t] /\ ~AskConnect(t) /\ ~Reconnect(t)
      BY <1>0, <3>1 DEF AskConnect, Reconnect, HostTypeOK
    <3>2. ASSUME NEW u \in Tab, TurnOff(u) PROVE off[t] /\ ~AskConnect(t) /\ ~Reconnect(t)
      BY <1>0, <1>2, <3>2 DEF TurnOff, AskConnect, Reconnect, HostTypeOK
    <3>3. ASSUME off' = off PROVE off[t] /\ ~AskConnect(t) /\ ~Reconnect(t)
      BY <1>0, <3>3 DEF AskConnect, Reconnect, HostTypeOK
    <3>4. \/ off' = off
          \/ \E u \in Tab : AskConnect(u) \/ Reconnect(u) \/ TurnOff(u)
      BY DEF HostNext, Acquire, Boot, Place, AbortBuild, FailBuild, CloseTab, LetGo, Publish, EagerDone, Connected, Add, Check,
             Claim, Start, Connect, Fail, StopWaiting, ChildDies, CloseHost, lazyVars
    <3> QED BY <3>1, <3>2, <3>3, <3>4
  <2>2. suspended[t] /\ pc[User(t)] = "idle" /\ reg[t] = {}
    BY <2>1 DEF HostInv, Suspended
  <2>3. pc'[User(t)] = "idle"
    BY <2>1, <2>2, RestStep, Actors
  <2>4. ~Connected(t)
    BY <2>2 DEF Connected
  <2>5. suspended'[t]
    BY <1>0, <1>2, <2>2, <2>4 DEF HostNext, Acquire, Boot, Place, AbortBuild, FailBuild, CloseTab,
                LetGo, Publish, EagerDone,
                AskConnect, Connected, TurnOff, Reconnect, Add, Check, Claim, Start, Connect, Fail,
                StopWaiting, ChildDies, CloseHost, lazyVars, Register, HostTypeOK
  <2>6. ASSUME NEW u \in Tab, Boot(u) \/ Place(u) \/ Publish(u) \/ EagerDone(u) \/ Connected(u)
        PROVE  reg'[t] = {}
    <3>1. reg' = reg \/ \E things \in SUBSET {"stub", "real"}, gone \in SUBSET {"stub", "real"} :
                            Register(u, things, gone)
      <4>1. CASE Boot(u)
        BY <4>1 DEF Boot
      <4>2. CASE Place(u)
        BY <4>2 DEF Place
      <4>3. CASE Publish(u)
        BY <4>3 DEF Publish
      <4>4. CASE EagerDone(u)
        BY <4>4 DEF EagerDone
      <4>5. CASE Connected(u)
        BY <4>5 DEF Connected
      <4> QED BY <2>6, <4>1, <4>2, <4>3, <4>4, <4>5
    <3> QED BY <1>0, <2>2, <2>5, <3>1, RegisterTyped
  <2>7. ASSUME NEW u \in Tab, \/ Acquire(u) \/ AbortBuild(u) \/ FailBuild(u) \/ CloseTab(u)
                           \/ AskConnect(u) \/ TurnOff(u) \/ Reconnect(u)
        PROVE  reg'[t] = {}
    BY <1>0, <2>2, <2>7 DEF Acquire, AbortBuild, FailBuild, CloseTab, LetGo, AskConnect, TurnOff,
                            Reconnect, Disconnect, lazyVars, HostTypeOK
  <2>8. ASSUME CloseHost \/ \E a \in Actor : Add(a) \/ ChildDies(a)
        PROVE  reg'[t] = {}
    BY <2>2, <2>8 DEF Add, Check, Claim, Start, Connect, Fail, StopWaiting, ChildDies, CloseHost, lazyVars
  <2> QED BY <2>3, <2>5, <2>6, <2>7, <2>8 DEF HostNext
<1> QED
  BY <1>1, <1>2

LEMMA NextHostInv == HostInv /\ [HostNext]_hostVars => HostInv'
<1> SUFFICES ASSUME HostInv, [HostNext]_hostVars PROVE HostInv'
  OBVIOUS
<1>1. CASE HostNext
  <2>1. HostTypeOK'
    BY <1>1, TabTyped, AddTyped DEF HostInv, HostNext
  <2> QED BY <1>1, <2>1, AttemptStep, FreshStep, ReferenceStep, EscapeStep, SuspendStep
           DEF HostInv
<1>2. CASE UNCHANGED hostVars
  BY <1>2 DEF hostVars, spawnVars, tabVars, lazyVars, HostInv, HostTypeOK, OneAttempt, Fresh,
              Referenced, NoEscape, Suspended
<1> QED
  BY <1>1, <1>2

THEOREM HostInvariant == HostSpec => []HostInv
BY InitHostInv, NextHostInv, PTL DEF HostSpec

\* The server is spawned once: of the children that run, at most one is
\* starting or listed, for any number of tabs that boot, connect and reconnect.
THEOREM ServerIsOne == HostSpec => []OneServer
<1>1. HostInv => OneServer
  <2> SUFFICES ASSUME HostInv PROVE OneServer
    OBVIOUS
  <2> DEFINE live == {a \in proc : a = listed \/ pc[a] = "handshake"}
  <2>1. proc \subseteq Actor
    BY DEF HostInv, HostTypeOK
  <2>2. \A a, b \in live : a = b
    BY <2>1, NoneIsNoActor DEF HostInv, OneAttempt
  <2>3. \E x : live \subseteq {x}
    BY <2>2
  <2>4. PICK x : live \subseteq {x}
    BY <2>3
  <2>5. IsFiniteSet({x}) /\ Cardinality({x}) = 1
    BY FS_Singleton
  <2>6. Cardinality(live) <= 1
    BY <2>4, <2>5, FS_Subset
  <2> QED BY <2>6 DEF OneServer
<1> QED
  BY <1>1, HostInvariant, PTL

\* Once Host.Close has returned, no listed child runs and no deferred
\* goroutine of a boot is under way.
THEOREM NothingEscapes == HostSpec => []NoEscape
<1>1. HostInv => NoEscape
  BY DEF HostInv
<1> QED
  BY <1>1, HostInvariant, PTL

\* On a shared host a server turned off in a tab stays off in that tab,
\* whatever handshake comes back later.
THEOREM OffHolds ==
  ASSUME Shared = TRUE
  PROVE  HostSpec => []OffStaysOff
<1>1. HostInv => OffStaysOff
  BY DEF HostInv, Suspended, OffStaysOff
<1> QED
  BY <1>1, HostInvariant, PTL
=============================================================================
