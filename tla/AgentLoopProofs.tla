--------------------------- MODULE AgentLoopProofs ---------------------------
(* Theorems about the tool loop, for any batches, errors and bounds.         *)
EXTENDS AgentLoop, SequenceTheorems, WellFoundedInduction, TLAPS

-----------------------------------------------------------------------------
(* Segments *)

LEMMA MaxIs ==
  ASSUME NEW S \in SUBSET Nat, NEW x \in S, \A y \in S : y <= x
  PROVE  Max(S) = x
<1>1. Max(S) \in S /\ \A y \in S : Max(S) >= y
  BY DEF Max
<1>2. Max(S) \in Nat /\ x \in Nat /\ Max(S) >= x /\ Max(S) <= x
  BY <1>1
<1> QED
  BY <1>2

\* partitionToolCalls: a segment lies within the batch, and only known readers share one.
LEMMA SegmentIs ==
  ASSUME NEW c \in Seq(Kind), NEW i \in 1 .. Len(c)
  PROVE  /\ SegmentEnd(c, i) \in i .. Len(c)
         /\ SegmentEnd(c, i) > i => \A j \in i .. SegmentEnd(c, i) : c[j] = "reader"
<1> DEFINE S == {i} \cup {k \in i .. Len(c) : \A j \in i .. k : Parallelisable(c[j])}
           U == {k \in Nat : k > i /\ (k > Len(c) \/ ~Parallelisable(c[k]))}
<1>1. SegmentEnd(c, i) = Max(S) /\ S \in SUBSET Nat /\ i \in S /\ Len(c) \in Nat /\ i \in Nat
  BY DEF SegmentEnd
<1>2. CASE ~Parallelisable(c[i])
  <2>1. \A k \in S : k = i
    BY <1>1, <1>2
  <2>2. \A k \in S : k <= i
    BY <1>1, <2>1
  <2>3. Max(S) = i
    BY <1>1, <2>2, MaxIs
  <2> QED BY <1>1, <2>3
<1>3. CASE Parallelisable(c[i])
  <2>1. Len(c) + 1 \in U
    BY <1>1
  <2>2. PICK u \in U : \A v \in U : ~(<<v, u>> \in OpToRel(<, Nat))
    BY <2>1, NatLessThanWellFounded, WFMin
  <2>3. \A v \in U : ~(v < u)
    BY <2>2 DEF OpToRel
  <2>4. u - 1 \in i .. Len(c)
    <3>1. u \in Nat /\ u > i /\ ~(Len(c) + 1 < u)
      BY <2>1, <2>3
    <3> QED BY <1>1, <3>1
  <2>5. \A j \in i .. u - 1 : Parallelisable(c[j])
    <3> SUFFICES ASSUME NEW j \in i .. u - 1, j # i PROVE Parallelisable(c[j])
      BY <1>3
    <3>1. j \in Nat /\ j > i /\ j < u /\ j <= Len(c)
      BY <1>1, <2>4
    <3>2. j \notin U
      BY <2>3, <3>1
    <3> QED BY <3>1, <3>2
  <2>6. u - 1 \in S
    BY <2>4, <2>5
  <2>7. ASSUME NEW k \in S PROVE k <= u - 1
    <3>1. CASE k = i
      BY <2>4, <3>1
    <3>2. CASE k # i
      <4>1. k \in i .. Len(c) /\ \A j \in i .. k : Parallelisable(c[j])
        BY <3>2
      <4>2. ASSUME k >= u PROVE FALSE
        <5>1. u \in i .. k /\ u <= Len(c)
          BY <1>1, <2>4, <4>1, <4>2
        <5> QED BY <4>1, <5>1
      <4> QED BY <2>4, <4>1, <4>2
    <3> QED BY <3>1, <3>2
  <2>8. Max(S) = u - 1
    BY <1>1, <2>6, <2>7, MaxIs
  <2> QED BY <1>1, <2>4, <2>5, <2>8 DEF Parallelisable
<1> QED
  BY <1>2, <1>3

-----------------------------------------------------------------------------
(* The order of a batch *)

\* The calls before the segment are done, those of it launched or not yet, the others
\* still wait.
InSegments ==
  /\ calls \in Seq(Kind)
  /\ state \in [1 .. Len(calls) -> {"waiting", "running", "done"}]
  /\ from \in 1 .. Len(calls)
  /\ next \in from .. SegmentEnd(calls, from) + 1
  /\ \A i \in 1 .. from - 1 : state[i] = "done"
  /\ \A i \in from .. next - 1 : state[i] # "waiting"
  /\ \A i \in next .. Len(calls) : state[i] = "waiting"

Ordered == IF at = "batch" THEN InSegments ELSE DOMAIN state = {}

LEMMA NextOrdered ==
  ASSUME Ordered, [Next]_vars
  PROVE  Ordered'
<1>1. ASSUME UNCHANGED <<calls, state, from, next>>, at' # "batch", at # "batch" PROVE Ordered'
  BY <1>1 DEF Ordered
<1>2. ASSUME UNCHANGED <<at, calls, state, from, next>> PROVE Ordered'
  BY <1>2 DEF Ordered, InSegments
<1>3. CASE CallTools
  <2>1. at = "stream"
    BY <1>3 DEF CallTools
  <2>2. PICK c \in Batches :
          \/ at' = "out" /\ UNCHANGED <<calls, state, from, next>>
          \/ /\ at' = "batch" /\ calls' = c /\ state' = [i \in 1 .. Len(c) |-> "waiting"]
             /\ from' = 1 /\ next' = 1
    BY <1>3 DEF CallTools, Leave, batch
  <2>3. c \in Seq(Kind) /\ c # <<>> /\ Len(c) \in Nat /\ 1 \in 1 .. Len(c)
    BY AgentLoopAssumption DEF AgentLoopAssumption
  <2>4. CASE at' = "out"
    BY <1>1, <2>1, <2>2, <2>4
  <2>5. CASE at' = "batch"
    <3>1. SegmentEnd(c, 1) \in 1 .. Len(c)
      BY <2>3, SegmentIs
    <3>2. /\ calls' = c /\ state' = [i \in 1 .. Len(c) |-> "waiting"]
          /\ from' = 1 /\ next' = 1
      BY <2>2, <2>5
    <3> QED BY <2>3, <2>5, <3>1, <3>2 DEF Ordered, InSegments
  <2> QED BY <2>2, <2>4, <2>5
<1>4. CASE Launch
  <2>1. /\ at = "batch" /\ next <= SegmentEnd(calls, from)
        /\ state' = [state EXCEPT ![next] = "running"] /\ next' = next + 1
        /\ UNCHANGED <<at, calls, from>>
    BY <1>4 DEF Launch
  <2>2. InSegments
    BY <2>1 DEF Ordered
  <2>3. /\ SegmentEnd(calls, from) \in from .. Len(calls) /\ Len(calls) \in Nat
        /\ SegmentEnd(calls', from') = SegmentEnd(calls, from)
    BY <2>1, <2>2, SegmentIs DEF InSegments
  <2>4. next \in from .. Len(calls)
    BY <2>1, <2>2, <2>3 DEF InSegments
  <2> QED BY <2>1, <2>2, <2>3, <2>4 DEF Ordered, InSegments
<1>5. ASSUME NEW i \in DOMAIN calls, Finish(i) PROVE Ordered'
  <2>1. /\ at = "batch" /\ i \in Running
        /\ state' = [state EXCEPT ![i] = "done"]
        /\ UNCHANGED <<at, calls, from, next>>
    BY <1>5 DEF Finish
  <2>2. InSegments
    BY <2>1 DEF Ordered
  <2>3. i \in 1 .. Len(calls) /\ state[i] = "running" /\ Len(calls) \in Nat
    BY <2>1, <2>2 DEF InSegments, Running
  <2>4. SegmentEnd(calls', from') = SegmentEnd(calls, from)
    BY <2>1
  <2> QED BY <2>1, <2>2, <2>3, <2>4 DEF Ordered, InSegments
<1>6. CASE NextSegment
  <2>1. /\ at = "batch" /\ Running = {} /\ next > SegmentEnd(calls, from)
        /\ next <= Len(calls) /\ from' = next
        /\ UNCHANGED <<at, calls, state, next>>
    BY <1>6 DEF NextSegment, SegmentOver
  <2>2. InSegments
    BY <2>1 DEF Ordered
  <2>3. SegmentEnd(calls, from) \in from .. Len(calls) /\ Len(calls) \in Nat
    BY <2>2, SegmentIs DEF InSegments
  <2>4. next \in 1 .. Len(calls)
    BY <2>1, <2>2, <2>3 DEF InSegments
  <2>5. SegmentEnd(calls, next) \in next .. Len(calls)
    BY <2>2, <2>4, SegmentIs DEF InSegments
  <2>6. \A i \in from .. next - 1 : state[i] = "done"
    <3> SUFFICES ASSUME NEW i \in from .. next - 1 PROVE state[i] = "done"
      OBVIOUS
    <3>1. i \in 1 .. Len(calls) /\ i \notin Running
      BY <2>1, <2>2, <2>4 DEF InSegments
    <3> QED BY <2>2, <3>1 DEF InSegments, Running
  <2> QED BY <2>1, <2>2, <2>4, <2>5, <2>6 DEF Ordered, InSegments
<1>7. CASE StopBatch \/ EndBatch
  <2>1. at' = "stored" /\ state' = <<>>
    BY <1>7 DEF StopBatch, EndBatch, BatchOver
  <2> QED BY <2>1 DEF Ordered
<1>8. CASE StartTurn \/ EndTurn \/ Steer \/ Cancel \/ UNCHANGED vars
  BY <1>2, <1>8 DEF StartTurn, EndTurn, Steer, Cancel, vars, batch
<1>9. CASE Begin \/ NextRound \/ Return \/ EndRound \/ Interrupted \/ StreamFails \/ NotReady \/ Empty
           \/ Nudge \/ Answer
  <2>1. at # "batch" /\ at' # "batch" /\ UNCHANGED <<calls, state, from, next>>
    BY <1>9 DEF Begin, NextRound, Return, EndRound, Interrupted, StreamFails, NotReady, Empty, Nudge,
                Answer, Leave, Again, batch
  <2> QED BY <1>1, <2>1
<1> QED
  BY <1>3, <1>4, <1>5, <1>6, <1>7, <1>8, <1>9 DEF Next, Loop, Model, Finishes

\* executeBatch keeps the order of everything but reads: a writer, a reader of the
\* ledger and an unknown tool run with nothing beside them.
THEOREM WritersRunAlone == Spec => []OrderKept
<1>1. Init => Ordered
  BY DEF Init, Ordered
<1>2. Ordered /\ [Next]_vars => Ordered'
  BY NextOrdered
<1>3. Ordered => OrderKept
  <2> SUFFICES ASSUME Ordered, NEW i \in Running, calls[i] # "reader"
               PROVE  /\ Running = {i}
                      /\ \A j \in 1 .. i - 1 : state[j] = "done"
                      /\ \A j \in i + 1 .. Len(calls) : state[j] = "waiting"
    BY DEF OrderKept
  <2>1. InSegments
    BY DEF Ordered, Running
  <2>2. i \in 1 .. Len(calls) /\ state[i] = "running" /\ Len(calls) \in Nat
    BY <2>1 DEF InSegments, Running
  <2>3. /\ SegmentEnd(calls, from) \in from .. Len(calls)
        /\ SegmentEnd(calls, from) > from => \A j \in from .. SegmentEnd(calls, from) : calls[j] = "reader"
    BY <2>1, SegmentIs DEF InSegments
  <2>4. i \in from .. next - 1
    BY <2>1, <2>2 DEF InSegments
  <2>5. i = from /\ next = i + 1
    BY <2>1, <2>3, <2>4 DEF InSegments
  <2>6. ASSUME NEW j \in Running PROVE j = i
    <3>1. j \in 1 .. Len(calls) /\ state[j] = "running"
      BY <2>1, <2>6 DEF InSegments, Running
    <3> QED BY <2>1, <2>5, <3>1 DEF InSegments
  <2> QED BY <2>1, <2>5, <2>6 DEF InSegments
<1> QED
  BY <1>1, <1>2, <1>3, PTL DEF Spec

-----------------------------------------------------------------------------
(* The storm breaker *)

\* What the breaker knows of the last batches that ran to their end: storm.count is
\* how many of them, from the last one back, share the signature storm.sig.
Counted ==
  LET n == Len(history) IN
  /\ n \in 0 .. stormBreakThreshold
  /\ storm = [sig |-> storm.sig, count |-> storm.count] /\ storm.count \in Nat
  /\ storm.sig = IF n = 0 THEN None ELSE history[n]
  /\ (storm.sig = None) <=> (storm.count = 0)
  /\ storm.sig # None =>
       /\ storm.count <= n \/ n = stormBreakThreshold
       /\ \A k \in 1 .. n : k + storm.count > n => history[k] = storm.sig
       /\ storm.count < n => history[n - storm.count] # storm.sig

Stormy ==
  /\ \E S : history \in Seq(S)
  /\ Counted
  /\ ~running => at = "out"
  /\ at = "stored" /\ ~cancelled => (directive <=> storm.count >= stormBreakThreshold)

LEMMA LastIs ==
  ASSUME NEW S, NEW s \in Seq(S), s # <<>>
  PROVE  Last(s) = s[Len(s)]
BY DEF Last

LEMMA Shifted ==
  ASSUME NEW T, NEW s \in Seq(T), Len(s) = 3, NEW e \in T
  PROVE  /\ Append(Tail(s), e) \in Seq(T) /\ Len(Append(Tail(s), e)) = 3
         /\ Append(Tail(s), e)[1] = s[2] /\ Append(Tail(s), e)[2] = s[3]
         /\ Append(Tail(s), e)[3] = e
<1>1. s # <<>>
  <2>1. Len(<<>>) = 0 /\ 3 # 0
    BY EmptySeq
  <2> QED BY <2>1, Zenon
<1>2. /\ Tail(s) \in Seq(T) /\ Len(Tail(s)) = 2
      /\ \A i \in 1 .. 2 : Tail(s)[i] = s[i + 1]
  BY <1>1, HeadTailProperties
<1>3. PICK t \in Seq(T) : t = Tail(s)
  BY <1>2
<1>4. /\ Append(t, e) \in Seq(T) /\ Len(Append(t, e)) = Len(t) + 1
      /\ \A i \in 1 .. Len(t) : Append(t, e)[i] = t[i]
      /\ Append(t, e)[Len(t) + 1] = e
  BY AppendProperties
<1>5. /\ Len(t) = 2 /\ t[1] = s[2] /\ t[2] = s[3]
  BY <1>2, <1>3
<1>6. /\ Append(t, e) \in Seq(T) /\ Len(Append(t, e)) = 3
      /\ Append(t, e)[1] = s[2] /\ Append(t, e)[2] = s[3]
      /\ Append(t, e)[3] = e
  <2>1. PICK a : a = Append(t, e)
    OBVIOUS
  <2> QED BY <1>4, <1>5, <2>1
<1> QED
  BY <1>3, <1>6, Zenon

LEMMA CountedThen ==
  ASSUME NEW m \in 1 .. 3, Len(history') = m, NEW g, NEW k \in Nat, k # 0, g # None,
         storm' = [sig |-> g, count |-> k], history'[m] = g, k <= m \/ m = 3,
         \A i \in 1 .. m : i + k > m => history'[i] = g,
         k < m => history'[m - k] # g
  PROVE  Counted'
<1>1. storm'.sig = g /\ storm'.count = k
  OBVIOUS
<1> QED
  BY <1>1 DEF Counted, stormBreakThreshold

\* One more batch has ended with signature sig.
LEMMA CountOne ==
  ASSUME NEW sig, NEW S, history \in Seq(S), Counted, storm' = StormAfter(sig), Remember(sig)
  PROVE  (\E T : history' \in Seq(T)) /\ Counted'
<1> DEFINE T == S \cup {sig}
<1>0. PICK n \in 0 .. 3 : n = Len(history)
  BY DEF Counted, stormBreakThreshold
<1>1. history \in Seq(T) /\ n \in Nat /\ sig \in T
  OBVIOUS
<1>a. /\ storm.sig = IF n = 0 THEN None ELSE history[n]
      /\ storm.count \in Nat
      /\ (storm.sig = None) <=> (storm.count = 0)
      /\ storm.sig # None =>
           /\ (storm.count <= n) \/ (n = 3)
           /\ \A k \in 1 .. n : k + storm.count > n => history[k] = storm.sig
           /\ storm.count < n => history[n - storm.count] # storm.sig
  BY <1>0 DEF Counted, stormBreakThreshold
<1>2. ASSUME n < 3 PROVE history' \in Seq(T) /\ Counted'
  <2>1. history' = Append(history, sig)
    BY <1>0, <1>2 DEF Remember, stormBreakThreshold
  <2>2. /\ history' \in Seq(T) /\ Len(history') = n + 1 /\ history'[n + 1] = sig
        /\ \A k \in 1 .. n : history'[k] = history[k]
    BY <1>0, <1>1, <2>1
  <2>3. CASE sig = None
    BY <1>0, <1>1, <1>a, <1>2, <2>2, <2>3 DEF Counted, StormAfter, stormBreakThreshold
  <2>4. CASE sig # None /\ sig # storm.sig
    <3>1. storm' = [sig |-> sig, count |-> 1]
      BY <2>4 DEF StormAfter
    <3>2. n > 0 => history'[n] = storm.sig
      BY <1>a, <1>1, <2>2
    <3> QED BY <1>0, <1>1, <1>a, <1>2, <2>2, <2>4, <3>1, <3>2 DEF Counted, stormBreakThreshold
  <2>5. CASE sig # None /\ sig = storm.sig
    <3>1. storm' = [sig |-> sig, count |-> storm.count + 1]
      BY <2>5 DEF StormAfter
    <3>2. /\ storm.count \in Nat /\ storm.count > 0 /\ storm.count <= n
          /\ \A k \in 1 .. n : k + storm.count > n => history[k] = sig
          /\ storm.count < n => history[n - storm.count] # sig
      <4>1. storm.sig # None /\ sig = storm.sig
        BY <2>5
      <4>2. /\ storm.count \in Nat /\ storm.count # 0 /\ storm.count <= n
            /\ \A k \in 1 .. n : k + storm.count > n => history[k] = storm.sig
            /\ storm.count < n => history[n - storm.count] # storm.sig
        BY <1>a, <1>2, <4>1
      <4> QED BY <4>1, <4>2
    <3>3. ASSUME NEW k \in 1 .. n + 1, k + (storm.count + 1) > n + 1 PROVE history'[k] = sig
      <4>1. CASE k = n + 1
        BY <2>2, <4>1
      <4>2. CASE k # n + 1
        BY <1>1, <2>2, <3>2, <3>3, <4>2
      <4> QED BY <4>1, <4>2
    <3>4. ASSUME storm.count + 1 < n + 1 PROVE history'[(n + 1) - (storm.count + 1)] # sig
      <4>1. (n + 1) - (storm.count + 1) = n - storm.count /\ n - storm.count \in 1 .. n /\ storm.count < n
        BY <1>1, <3>2, <3>4
      <4> QED BY <2>2, <3>2, <4>1
    <3>5. storm.count + 1 \in Nat /\ storm.count + 1 # 0 /\ storm.count + 1 <= n + 1 /\ n + 1 \in 1 .. 3
      BY <1>2, <3>2
    <3>6. Counted'
      BY <2>2, <2>5, <3>1, <3>3, <3>4, <3>5, CountedThen
    <3> QED BY <2>2, <3>6
  <2> QED BY <2>3, <2>4, <2>5
<1>3. ASSUME n = 3 PROVE history' \in Seq(T) /\ Counted'
  <2>1. history' = Append(Tail(history), sig)
    BY <1>0, <1>3 DEF Remember, stormBreakThreshold
  <2>2. Len(history) = 3
    BY <1>0, <1>3
  <2>3. /\ history' \in Seq(T) /\ Len(history') = 3 /\ history'[3] = sig
        /\ history'[1] = history[2] /\ history'[2] = history[3]
    BY <1>1, <2>1, <2>2, Shifted
  <2>4. /\ storm.sig = history[3] /\ storm.count \in Nat /\ (storm.sig = None <=> storm.count = 0)
        /\ storm.sig # None => /\ \A k \in 1 .. 3 : k + storm.count > 3 => history[k] = storm.sig
                               /\ storm.count < 3 => history[3 - storm.count] # storm.sig
    BY <1>a, <1>3
  <2>5. CASE sig = None
    BY <2>3, <2>5 DEF Counted, StormAfter, stormBreakThreshold
  <2>6. CASE sig # None /\ sig # storm.sig
    <3>1. storm' = [sig |-> sig, count |-> 1]
      BY <2>6 DEF StormAfter
    <3>2. history'[2] # sig
      BY <2>3, <2>4, <2>6
    <3>3. (\A i \in 1 .. 3 : i + 1 > 3 => history'[i] = sig) /\ (1 < 3 => history'[3 - 1] # sig)
      BY <2>3, <3>2
    <3>4. Counted'
      BY <2>3, <2>6, <3>1, <3>3, CountedThen
    <3> QED BY <2>3, <3>4
  <2>7. CASE sig # None /\ sig = storm.sig
    <3>1. storm' = [sig |-> sig, count |-> storm.count + 1]
      BY <2>7 DEF StormAfter
    <3>2. \A k \in 1 .. 3 : k + (storm.count + 1) > 3 => history'[k] = sig
      BY <2>3, <2>4, <2>7
    <3>3. storm.count + 1 < 3 => history'[3 - (storm.count + 1)] # sig
      <4> SUFFICES ASSUME storm.count + 1 < 3 PROVE history'[3 - (storm.count + 1)] # sig
        OBVIOUS
      <4>1. storm.count = 1
        BY <2>4, <2>7
      <4>2. history[2] # sig
        BY <2>4, <2>7, <4>1
      <4> QED BY <2>3, <4>1, <4>2
    <3>4. storm.count + 1 \in Nat /\ storm.count + 1 # 0
      BY <2>4
    <3>5. Counted'
      BY <2>3, <2>7, <3>1, <3>2, <3>3, <3>4, CountedThen
    <3> QED BY <2>3, <3>5
  <2> QED BY <2>5, <2>6, <2>7
<1>4. n < 3 \/ n = 3
  OBVIOUS
<1> QED
  BY <1>2, <1>3, <1>4

LEMMA NextStormy ==
  ASSUME Stormy, [Next]_vars
  PROVE  Stormy'
<1>1. ASSUME UNCHANGED <<history, storm>> PROVE (\E S : history' \in Seq(S)) /\ Counted'
  BY <1>1 DEF Stormy, Counted
<1>2. CASE EndBatch
  <2>1. /\ storm' = StormAfter(Signature) /\ Remember(Signature)
        /\ directive' = (storm'.count >= stormBreakThreshold)
        /\ UNCHANGED <<running, cancelled>> /\ at' = "stored" /\ at = "batch"
    BY <1>2 DEF EndBatch, BatchOver, SegmentOver
  <2>2. PICK sig : sig = Signature
    OBVIOUS
  <2>3. (\E S : history' \in Seq(S)) /\ Counted'
    BY <2>1, <2>2, CountOne DEF Stormy
  <2>4. directive' <=> storm'.count >= stormBreakThreshold
    BY <2>1
  <2> QED BY <2>1, <2>3, <2>4 DEF Stormy
<1>3. CASE StopBatch
  <2>1. /\ cancelled' /\ running' = running /\ at = "batch" /\ UNCHANGED <<history, storm>>
    BY <1>3 DEF StopBatch, BatchOver, SegmentOver
  <2> QED BY <1>1, <2>1 DEF Stormy
<1>4. CASE EndTurn \/ StartTurn
  <2>1. UNCHANGED <<history, storm, at, directive>> /\ at = "out"
    BY <1>4 DEF EndTurn, StartTurn, guards, Stormy
  <2> QED BY <1>1, <2>1 DEF Stormy
<1>5. CASE Steer \/ Cancel \/ UNCHANGED vars
  <2>1. /\ UNCHANGED <<history, storm, at, directive, running>>
        /\ ~cancelled' => ~cancelled
    BY <1>5 DEF Steer, Cancel, guards, vars
  <2> QED BY <1>1, <2>1 DEF Stormy
<1>6. ASSUME NEW i \in DOMAIN calls, Finish(i) PROVE Stormy'
  <2>1. UNCHANGED <<history, storm, at, directive, running, cancelled>>
    BY <1>6 DEF Finish
  <2> QED BY <1>1, <2>1 DEF Stormy
<1>7. CASE Begin
  <2>1. UNCHANGED <<history, storm, running>> /\ running /\ at' = "head"
    BY <1>7 DEF Begin
  <2> QED BY <1>1, <2>1 DEF Stormy
<1>8. CASE NextRound \/ Return \/ EndRound \/ Model \/ Launch \/ NextSegment
  <2>1. UNCHANGED <<history, storm, running>>
    BY <1>8 DEF NextRound, Return, EndRound, Model, Launch, NextSegment, Interrupted, StreamFails,
                NotReady, Empty, Nudge, Answer, CallTools, guards
  <2>2. at # "out" /\ at' # "stored"
    BY <1>8 DEF NextRound, Return, EndRound, Model, Launch, NextSegment, SegmentOver, Interrupted,
                StreamFails, NotReady, Empty, Nudge, Answer, CallTools, Leave, Again
  <2> QED BY <1>1, <2>1, <2>2 DEF Stormy
<1> QED
  BY <1>2, <1>3, <1>4, <1>5, <1>6, <1>7, <1>8 DEF Next, Loop, Finishes

\* applyStormBreaker replaces a result exactly when the last three batches that ran to
\* their end failed alike.
THEOREM DirectiveIsRight == Spec => []DirectiveIsDue
<1>1. Init => Stormy
  <2> SUFFICES ASSUME Init PROVE Stormy
    OBVIOUS
  <2>1. history \in Seq({}) /\ Len(history) = 0 /\ storm = [sig |-> None, count |-> 0] /\ at = "out"
    BY DEF Init
  <2> QED BY <2>1 DEF Stormy, Counted, stormBreakThreshold
<1>2. Stormy /\ [Next]_vars => Stormy'
  BY NextStormy
<1>3. Stormy => DirectiveIsDue
  <2> SUFFICES ASSUME Stormy, at = "stored", ~cancelled
               PROVE  directive <=> /\ Len(history) = stormBreakThreshold
                                    /\ Last(history) # None
                                    /\ \A i \in DOMAIN history : history[i] = Last(history)
    BY DEF DirectiveIsDue
  <2>1. PICK S : history \in Seq(S)
    BY DEF Stormy
  <2>2. /\ Len(history) \in 0 .. 3 /\ DOMAIN history = 1 .. Len(history)
        /\ storm.count \in Nat /\ (directive <=> storm.count >= 3)
    BY <2>1 DEF Stormy, Counted, stormBreakThreshold
  <2>3. ASSUME storm.count >= 3
        PROVE  /\ Len(history) = 3 /\ history[3] # None
               /\ \A i \in 1 .. 3 : history[i] = history[3]
    <3>1. storm.sig # None /\ Len(history) = 3
      BY <2>2, <2>3 DEF Stormy, Counted, stormBreakThreshold
    <3>2. storm.sig = history[3] /\ \A k \in 1 .. 3 : k + storm.count > 3 => history[k] = storm.sig
      BY <3>1 DEF Stormy, Counted
    <3> QED BY <2>2, <2>3, <3>1, <3>2
  <2>4. ASSUME Len(history) = 3, history[3] # None, \A i \in 1 .. 3 : history[i] = history[3]
        PROVE  storm.count >= 3
    <3> SUFFICES ASSUME storm.count < 3 PROVE FALSE
      BY <2>2
    <3>1. storm.sig = history[3] /\ storm.count # 0 /\ history[3 - storm.count] # storm.sig
      BY <2>4 DEF Stormy, Counted
    <3>2. 3 - storm.count \in 1 .. 3
      BY <2>2, <3>1
    <3> QED BY <2>4, <3>1, <3>2
  <2>5. Len(history) = 3 => Last(history) = history[3]
    <3>1. Len(history) = 3 => history # <<>>
      OBVIOUS
    <3> QED BY <2>1, <3>1, LastIs
  <2> QED BY <2>2, <2>3, <2>4, <2>5 DEF stormBreakThreshold, None
<1> QED
  BY <1>1, <1>2, <1>3, PTL DEF Spec

-----------------------------------------------------------------------------
(* The budget *)

\* A batch is executed in a round of its own, and rounds are counted.
Spent ==
  /\ step \in Nat /\ executed \in Nat
  /\ at # "out" => executed <= step + (IF at \in {"batch", "stored"} THEN 1 ELSE 0)
  /\ MaxSteps > 0 => /\ at = "stream" => step < MaxSteps \/ grace
                     /\ at \in {"batch", "stored"} => step < MaxSteps
                     /\ executed <= MaxSteps

LEMMA NextSpent ==
  ASSUME Spent, [Next]_vars
  PROVE  Spent'
<1> USE AgentLoopAssumption DEF AgentLoopAssumption
<1>1. ASSUME UNCHANGED <<step, executed, at, grace>> PROVE Spent'
  BY <1>1 DEF Spent
<1>2. CASE Begin
  BY <1>2 DEF Begin, Spent
<1>3. CASE NextRound
  <2>1. at = "head" /\ executed' = executed
    BY <1>3 DEF NextRound, guards
  <2>2. CASE MaxSteps = 0 \/ step < MaxSteps \/ grace
    BY <1>3, <2>1, <2>2 DEF NextRound, Spent, budget
  <2>3. CASE ~(MaxSteps = 0 \/ step < MaxSteps \/ grace)
    <3>1. at' = "out" /\ step' = 0
      BY <1>3, <2>3 DEF NextRound, Leave
    <3> QED BY <2>1, <3>1 DEF Spent
  <2> QED BY <2>2, <2>3
<1>4. CASE CallTools
  <2>1. at = "stream"
    BY <1>4 DEF CallTools
  <2>2. CASE grace
    <3>1. at' = "out" /\ step' = 0 /\ executed' = executed
      BY <1>4, <2>2 DEF CallTools, Leave
    <3> QED BY <3>1 DEF Spent
  <2>3. CASE ~grace
    <3>1. at' = "batch" /\ step' = step /\ executed' = executed + 1
      BY <1>4, <2>3 DEF CallTools
    <3> QED BY <2>1, <2>3, <3>1 DEF Spent
  <2> QED BY <2>2, <2>3
<1>5. CASE Interrupted \/ StreamFails \/ NotReady \/ Empty \/ Nudge \/ Answer \/ Return
  <2>1. /\ at \in {"stream", "closing"} /\ executed' = executed
        /\ \/ at' = "out" /\ step' = 0
           \/ at' = "head" /\ step' \in {step, step + 1}
           \/ at' = "closing" /\ step' = step
    BY <1>5 DEF Interrupted, StreamFails, NotReady, Empty, Nudge, Answer, Return, Leave, Again, guards
  <2> QED BY <2>1 DEF Spent
<1>6. CASE StopBatch \/ EndBatch
  <2>1. at = "batch" /\ at' = "stored" /\ UNCHANGED <<step, executed>>
    BY <1>6 DEF StopBatch, EndBatch, BatchOver, SegmentOver, budget
  <2> QED BY <2>1 DEF Spent
<1>7. CASE EndRound
  <2>1. /\ at = "stored" /\ executed' = executed
        /\ \/ at' = "out" /\ step' = 0
           \/ at' = "head" /\ step' = step + 1
    BY <1>7 DEF EndRound, Leave, guards
  <2> QED BY <2>1 DEF Spent
<1>8. CASE StartTurn \/ EndTurn \/ Steer \/ Cancel \/ Launch \/ NextSegment \/ Finishes \/ UNCHANGED vars
  BY <1>1, <1>8 DEF StartTurn, EndTurn, Steer, Cancel, Launch, NextSegment, Finishes, Finish, vars, budget, guards
<1> QED
  BY <1>2, <1>3, <1>4, <1>5, <1>6, <1>7, <1>8 DEF Next, Loop, Model

\* With a budget a Run executes at most that many batches: recoveries and retries do not
\* stretch it, and the grace round does not run the tools it is answered with.
THEOREM BudgetHolds == Spec => []BudgetKept
<1>1. Init => Spent
  BY AgentLoopAssumption DEF Init, Spent, AgentLoopAssumption
<1>2. Spent /\ [Next]_vars => Spent'
  BY NextSpent
<1>3. Spent => BudgetKept
  BY DEF Spent, BudgetKept
<1> QED
  BY <1>1, <1>2, <1>3, PTL DEF Spec
=============================================================================
