-------------------------- MODULE CheckpointProofs --------------------------
(* Theorems about checkpoints and rewind, for any files, any number of       *)
(* turns, edits, folds, summaries, rewinds and reloads, and logs of any      *)
(* length.                                                                   *)
EXTENDS Checkpoint, FiniteSetTheorems, SequenceTheorems, WellFoundedInduction, TLAPS

-----------------------------------------------------------------------------
(* Smallest and largest numbers *)

LEMMA HasLeast ==
  ASSUME NEW S \in SUBSET Nat, S # {}
  PROVE  \E x \in S : \A y \in S : x <= y
<1>1. PICK x \in S : \A y \in S : ~(<<y, x>> \in OpToRel(<, Nat))
  BY NatLessThanWellFounded, WFMin
<1>2. ASSUME NEW y \in S PROVE x <= y
  <2>1. ~(y < x)
    BY <1>1 DEF OpToRel
  <2> QED BY <2>1
<1> QED
  BY <1>2

LEMMA HasGreatest ==
  ASSUME NEW S \in SUBSET Nat, S # {}, NEW n \in Nat, \A x \in S : x <= n
  PROVE  \E x \in S : \A y \in S : y <= x
<1> DEFINE U == {k \in Nat : \A x \in S : x <= k}
<1>1. PICK u \in U : \A k \in U : u <= k
  <2>1. n \in U
    OBVIOUS
  <2> QED BY <2>1, HasLeast
<1>2. u \in S
  <2> SUFFICES ASSUME u \notin S PROVE FALSE
    OBVIOUS
  <2>1. \A x \in S : x <= u - 1 /\ x # u
    BY <1>1
  <2>2. u - 1 \in Nat
    <3>1. PICK x \in S : TRUE
      OBVIOUS
    <3> QED BY <1>1, <2>1, <3>1
  <2>3. u - 1 \in U
    BY <2>1, <2>2
  <2> QED BY <1>1, <2>2, <2>3
<1> QED
  BY <1>1, <1>2

LEMMA MinIn ==
  ASSUME NEW S \in SUBSET Nat, S # {}
  PROVE  Min(S) \in S /\ \A y \in S : Min(S) <= y
BY HasLeast DEF Min

LEMMA MaxIn ==
  ASSUME NEW S \in SUBSET Nat, S # {}, NEW n \in Nat, \A x \in S : x <= n
  PROVE  Max(S) \in S /\ \A y \in S : y <= Max(S)
<1>1. \E x \in S : \A y \in S : x >= y
  BY HasGreatest
<1> QED
  BY <1>1 DEF Max

-----------------------------------------------------------------------------
(* Messages at the positions of a set *)

LEMMA RankGrows ==
  ASSUME NEW I, IsFiniteSet(I), I \subseteq Nat, NEW i \in I, NEW j \in I, i < j
  PROVE  Rank(I, i) # Rank(I, j)
<1> DEFINE A == {k \in I : k <= i}
           B == {k \in I : k <= j}
<1>1. A \subseteq B /\ j \in B /\ j \notin A
  <2>1. i \in Nat /\ j \in Nat /\ \A k \in I : k \in Nat
    OBVIOUS
  <2>2. \A k \in I : k <= i => k <= j
    BY <2>1
  <2>3. j <= j /\ ~(j <= i)
    BY <2>1
  <2> QED BY <2>2, <2>3
<1>2. IsFiniteSet(B)
  BY FS_Subset
<1>3. Cardinality(A) # Cardinality(B)
  BY <1>1, <1>2, FS_Subset
<1> QED
  BY <1>3 DEF Rank

\* Every rank up to the size of the set is that of one of its positions.
LEMMA RankOnto ==
  ASSUME NEW I, IsFiniteSet(I), I \subseteq Nat
  PROVE  /\ Cardinality(I) \in Nat
         /\ \A i \in I : Rank(I, i) \in 1..Cardinality(I)
         /\ \A k \in 1..Cardinality(I) : \E i \in I : Rank(I, i) = k
<1> DEFINE n == Cardinality(I)
           r == [i \in I |-> Rank(I, i)]
<1>1. n \in Nat
  BY FS_CardinalityType
<1>2. ASSUME NEW i \in I PROVE Rank(I, i) \in 1..n
  <2> DEFINE A == {k \in I : k <= i}
  <2>1. i \in A
    OBVIOUS
  <2>2. IsFiniteSet(A) /\ Cardinality(A) <= n /\ Cardinality(A) \in Nat
    BY FS_Subset, FS_CardinalityType
  <2>3. Cardinality(A) # 0
    BY <2>1, <2>2, FS_EmptySet
  <2> QED BY <1>1, <2>2, <2>3 DEF Rank
<1>3. r \in Injection(I, 1..n)
  <2>1. ASSUME NEW i \in I, NEW j \in I, Rank(I, i) = Rank(I, j) PROVE i = j
    <3>1. ~(i < j) /\ ~(j < i)
      BY <2>1, RankGrows
    <3>2. i \in Nat /\ j \in Nat
      OBVIOUS
    <3> QED BY <3>1, <3>2
  <2> QED BY <1>2, <2>1 DEF Injection, IsInjective
<1>4. r \in Surjection(I, 1..n)
  <2>1. IsFiniteSet(1..n) /\ Cardinality(1..n) = n
    BY <1>1, FS_Interval
  <2> QED BY <1>3, <2>1, FS_Injection
<1> QED
  BY <1>1, <1>2, <1>4 DEF Surjection

LEMMA FunIsSeq ==
  ASSUME NEW S, NEW n \in Nat, NEW f \in [1..n -> S]
  PROVE  f \in Seq(S) /\ Len(f) = n
OBVIOUS

\* At keeps the messages at the positions, and no others.
LEMMA AtKeeps ==
  ASSUME NEW S, NEW ms \in Seq(S), NEW I \in SUBSET (1..Len(ms))
  PROVE  /\ At(ms, I) \in Seq(S)
         /\ \A k \in 1..Len(At(ms, I)) : \E i \in I : At(ms, I)[k] = ms[i]
         /\ \A i \in I : \E k \in 1..Len(At(ms, I)) : At(ms, I)[k] = ms[i]
         /\ I # {} => Len(At(ms, I)) > 0
<1> DEFINE n == Cardinality(I)
           pos(k) == CHOOSE i \in I : Rank(I, i) = k
<1>1. IsFiniteSet(1..Len(ms)) /\ I \subseteq Nat
  BY FS_Interval
<1>2. IsFiniteSet(I)
  BY <1>1, FS_Subset
<1>3. /\ n \in Nat
      /\ \A i \in I : Rank(I, i) \in 1..n
      /\ \A k \in 1..n : \E i \in I : Rank(I, i) = k
  BY <1>1, <1>2, RankOnto
<1>4. \A k \in 1..n : pos(k) \in I /\ Rank(I, pos(k)) = k
  BY <1>3
<1>5. At(ms, I) = [k \in 1..n |-> ms[pos(k)]]
  BY DEF At
<1> HIDE DEF n, pos
<1>6. At(ms, I) \in Seq(S) /\ Len(At(ms, I)) = n
  <2>1. ASSUME NEW k \in 1..n PROVE ms[pos(k)] \in S
    <3>1. pos(k) \in I
      BY <1>4
    <3>2. pos(k) \in 1..Len(ms)
      BY <3>1
    <3>3. \A i \in 1..Len(ms) : ms[i] \in S
      OBVIOUS
    <3> QED BY <3>2, <3>3
  <2>2. At(ms, I) \in [1..n -> S]
    BY <1>5, <2>1
  <2> QED BY <1>3, <2>2, FunIsSeq
<1>7. ASSUME NEW i \in I PROVE \E k \in 1..n : At(ms, I)[k] = ms[i]
  <2> DEFINE k == Rank(I, i)
  <2>1. k \in 1..n
    BY <1>3
  <2>2. pos(k) = i
    <3>1. pos(k) \in I /\ Rank(I, pos(k)) = Rank(I, i) /\ i \in Nat /\ pos(k) \in Nat
      BY <1>1, <1>4, <2>1
    <3>2. ~(pos(k) < i) /\ ~(i < pos(k))
      BY <1>1, <1>2, <3>1, RankGrows
    <3> QED BY <3>1, <3>2
  <2> QED BY <1>5, <2>1, <2>2
<1>8. I # {} => n > 0
  <2> SUFFICES ASSUME NEW i \in I PROVE n > 0
    OBVIOUS
  <2> QED BY <1>3
<1> QED
  BY <1>4, <1>5, <1>6, <1>7, <1>8

-----------------------------------------------------------------------------
(* Logs *)

Msg == [first : Nat, last : Nat, what : {"prompt", "work", "digest"}]

\* A log whose messages belong to turns up to n.
Good(ms, n) ==
  ms \in Seq(Msg) /\ \A i \in 1..Len(ms) : ms[i].first <= ms[i].last /\ ms[i].last <= n

LEMMA GoodTyped ==
  ASSUME NEW ms, NEW n, Good(ms, n)
  PROVE  /\ ms \in Seq(Msg) /\ Len(ms) \in Nat /\ DOMAIN ms = 1..Len(ms)
         /\ \A i \in 1..Len(ms) : /\ ms[i].first \in Nat /\ ms[i].last \in Nat
                                  /\ ms[i].first <= ms[i].last /\ ms[i].last <= n
<1>1. ms \in Seq(Msg) /\ Len(ms) \in Nat /\ DOMAIN ms = 1..Len(ms)
  BY DEF Good
<1>2. ASSUME NEW i \in 1..Len(ms) PROVE ms[i].first \in Nat /\ ms[i].last \in Nat
  <2>1. ms[i] \in Msg
    BY <1>1
  <2> QED BY <2>1 DEF Msg
<1> QED
  BY <1>1, <1>2 DEF Good

LEMMA GoodLater ==
  ASSUME NEW ms, NEW n \in Nat, NEW m \in Nat, n <= m, Good(ms, n)
  PROVE  Good(ms, m)
<1>1. ms \in Seq(Msg)
      /\ \A i \in 1..Len(ms) : ms[i].last \in Nat /\ ms[i].first <= ms[i].last /\ ms[i].last <= n
  BY GoodTyped
<1>2. \A i \in 1..Len(ms) : ms[i].last <= m
  BY <1>1
<1> QED
  BY <1>1, <1>2 DEF Good

LEMMA GoodPart ==
  ASSUME NEW ms, NEW n \in Nat, Good(ms, n), NEW a \in 1..Len(ms) + 1, NEW b \in 0..Len(ms), a <= b + 1
  PROVE  /\ Good(SubSeq(ms, a, b), n)
         /\ Len(SubSeq(ms, a, b)) = b - a + 1
         /\ \A i \in 1..Len(SubSeq(ms, a, b)) : SubSeq(ms, a, b)[i] = ms[a + i - 1]
<1>1. ms \in Seq(Msg) /\ Len(ms) \in Nat /\ \A i \in a..b : ms[i] \in Msg /\ i \in 1..Len(ms)
  BY DEF Good
<1>2. /\ SubSeq(ms, a, b) \in Seq(Msg)
      /\ Len(SubSeq(ms, a, b)) = IF a <= b THEN b - a + 1 ELSE 0
      /\ \A i \in 1..b - a + 1 : SubSeq(ms, a, b)[i] = ms[a + i - 1]
  BY <1>1, SubSeqProperties
<1>3. Len(SubSeq(ms, a, b)) = b - a + 1
  BY <1>1, <1>2
<1>4. \A i \in 1..b - a + 1 : a + i - 1 \in a..b
  BY <1>1
<1> QED
  BY <1>1, <1>2, <1>3, <1>4 DEF Good

LEMMA GoodConcat ==
  ASSUME NEW n \in Nat, NEW ms, Good(ms, n), NEW more, Good(more, n)
  PROVE  /\ Good(ms \o more, n)
         /\ Len(ms \o more) = Len(ms) + Len(more)
         /\ \A i \in 1..Len(ms) : (ms \o more)[i] = ms[i]
         /\ \A i \in 1..Len(more) : (ms \o more)[Len(ms) + i] = more[i]
<1>1. ms \in Seq(Msg) /\ more \in Seq(Msg) /\ Len(ms) \in Nat /\ Len(more) \in Nat
  BY DEF Good
<1>2. /\ ms \o more \in Seq(Msg)
      /\ Len(ms \o more) = Len(ms) + Len(more)
      /\ \A i \in 1..Len(ms) + Len(more) :
            (ms \o more)[i] = IF i <= Len(ms) THEN ms[i] ELSE more[i - Len(ms)]
  BY <1>1, ConcatProperties
<1>3. ASSUME NEW i \in 1..Len(ms) PROVE (ms \o more)[i] = ms[i]
  BY <1>1, <1>2
<1>4. ASSUME NEW i \in 1..Len(more) PROVE (ms \o more)[Len(ms) + i] = more[i]
  <2>1. Len(ms) + i \in 1..Len(ms) + Len(more) /\ ~(Len(ms) + i <= Len(ms)) /\ Len(ms) + i - Len(ms) = i
    BY <1>1
  <2> QED BY <1>2, <2>1
<1>5. ASSUME NEW i \in 1..Len(ms \o more)
      PROVE  (ms \o more)[i].first <= (ms \o more)[i].last /\ (ms \o more)[i].last <= n
  <2>1. CASE i <= Len(ms)
    BY <1>1, <1>2, <2>1 DEF Good
  <2>2. CASE ~(i <= Len(ms))
    <3>1. i - Len(ms) \in 1..Len(more) /\ (ms \o more)[i] = more[i - Len(ms)]
      BY <1>1, <1>2, <2>2
    <3> QED BY <3>1 DEF Good
  <2> QED BY <2>1, <2>2
<1> QED
  BY <1>2, <1>3, <1>4, <1>5 DEF Good

LEMMA GoodOne ==
  ASSUME NEW n \in Nat, NEW m \in Msg, m.first <= m.last, m.last <= n
  PROVE  Good(<<m>>, n) /\ Len(<<m>>) = 1 /\ <<m>>[1] = m
BY DEF Good

LEMMA GoodAppend ==
  ASSUME NEW n \in Nat, NEW ms, Good(ms, n), NEW m \in Msg, m.first <= m.last, m.last <= n
  PROVE  /\ Good(Append(ms, m), n)
         /\ Len(Append(ms, m)) = Len(ms) + 1
         /\ \A i \in 1..Len(ms) : Append(ms, m)[i] = ms[i]
         /\ Append(ms, m)[Len(ms) + 1] = m
<1>1. ms \in Seq(Msg) /\ Len(ms) \in Nat
  BY DEF Good
<1>2. /\ Append(ms, m) \in Seq(Msg)
      /\ Len(Append(ms, m)) = Len(ms) + 1
      /\ \A i \in 1..Len(ms) : Append(ms, m)[i] = ms[i]
      /\ Append(ms, m)[Len(ms) + 1] = m
  BY <1>1, AppendProperties
<1>3. \A i \in 1..Len(ms) + 1 : i \in 1..Len(ms) \/ i = Len(ms) + 1
  BY <1>1
<1> QED
  BY <1>2, <1>3 DEF Good

LEMMA GoodDigest ==
  ASSUME NEW n \in Nat, NEW ms, Good(ms, n), Len(ms) > 0
  PROVE  Digest(ms) \in Msg /\ Digest(ms).first <= Digest(ms).last /\ Digest(ms).last <= n
<1> DEFINE F == {ms[i].first : i \in DOMAIN ms}
           L == {ms[i].last : i \in DOMAIN ms}
<1>1. /\ DOMAIN ms = 1..Len(ms) /\ 1 \in DOMAIN ms
      /\ \A i \in DOMAIN ms : ms[i].first \in Nat /\ ms[i].last \in Nat
                              /\ ms[i].first <= ms[i].last /\ ms[i].last <= n
  <2>1. Len(ms) \in Nat /\ 1 \in 1..Len(ms)
    BY GoodTyped
  <2> QED BY <2>1, GoodTyped
<1>2. F \subseteq Nat /\ L \subseteq Nat /\ ms[1].first \in F /\ ms[1].last \in L
  BY <1>1
<1>3. Min(F) \in F /\ \A y \in F : Min(F) <= y
  BY <1>2, MinIn
<1>4. Max(L) \in L /\ \A y \in L : y <= Max(L)
  <2>1. \A x \in L : x <= n
    BY <1>1
  <2> QED BY <1>2, <2>1, MaxIn
<1>5. Digest(ms) = [first |-> Min(F), last |-> Max(L), what |-> "digest"]
  BY DEF Digest
<1> HIDE DEF F, L
<1>6. Min(F) \in Nat /\ Max(L) \in Nat /\ Min(F) <= ms[1].first /\ ms[1].last <= Max(L)
  BY <1>2, <1>3, <1>4
<1>7. Max(L) <= n
  BY <1>1, <1>4 DEF L
<1>8. Min(F) <= Max(L)
  BY <1>1, <1>6
<1> QED
  BY <1>5, <1>6, <1>7, <1>8 DEF Msg

\* A fold keeps a log good; every prompt before the tail and in it stays.
LEMMA GoodCompacted ==
  ASSUME NEW n \in Nat, NEW ms, Good(ms, n), NEW s \in Foldable(ms)
  PROVE  Good(Compacted(ms, s), n) /\ Prompts(ms) \subseteq Prompts(Compacted(ms, s))
<1> DEFINE I == {i \in 1..s : ms[i].what = "work"}
           K == (1..s) \ I
           kept == At(ms, K)
           gone == At(ms, I)
           tail == SubSeq(ms, s + 1, Len(ms))
           new  == Compacted(ms, s)
<1>1. /\ ms \in Seq(Msg) /\ Len(ms) \in Nat /\ s \in 1..Len(ms) /\ s + 2 <= Len(ms)
      /\ I # {} /\ I \in SUBSET (1..Len(ms)) /\ K \in SUBSET (1..Len(ms))
  <2>1. ms \in Seq(Msg) /\ Len(ms) \in Nat
    BY DEF Good
  <2> QED BY <2>1 DEF Foldable
<1>2. \A i \in 1..Len(ms) : ms[i].first <= ms[i].last /\ ms[i].last <= n
  BY DEF Good
<1>3. Good(kept, n) /\ (\A i \in K : \E k \in 1..Len(kept) : kept[k] = ms[i])
  <2>1. /\ kept \in Seq(Msg) /\ \A k \in 1..Len(kept) : \E i \in K : kept[k] = ms[i]
        /\ \A i \in K : \E k \in 1..Len(kept) : kept[k] = ms[i]
    BY <1>1, AtKeeps
  <2> QED BY <1>1, <1>2, <2>1 DEF Good
<1>4. Good(gone, n) /\ Len(gone) > 0
  <2>1. /\ gone \in Seq(Msg) /\ \A k \in 1..Len(gone) : \E i \in I : gone[k] = ms[i]
        /\ Len(gone) > 0
    BY <1>1, AtKeeps
  <2> QED BY <1>1, <1>2, <2>1 DEF Good
<1>5. /\ Good(tail, n) /\ Len(tail) = Len(ms) - s
      /\ \A i \in 1..Len(tail) : tail[i] = ms[s + i]
  <2>1. s + 1 \in 1..Len(ms) + 1 /\ Len(ms) \in 0..Len(ms) /\ s + 1 <= Len(ms) + 1
    BY <1>1
  <2>2. /\ Good(tail, n) /\ Len(tail) = Len(ms) - (s + 1) + 1
        /\ \A i \in 1..Len(tail) : tail[i] = ms[(s + 1) + i - 1]
    BY <2>1, GoodPart
  <2>3. Len(ms) - (s + 1) + 1 = Len(ms) - s /\ \A i \in Nat : (s + 1) + i - 1 = s + i
    BY <1>1
  <2>4. \A i \in 1..Len(tail) : i \in Nat
    OBVIOUS
  <2> QED BY <2>2, <2>3, <2>4
<1>6. Good(<<Digest(gone)>>, n) /\ Len(<<Digest(gone)>>) = 1
  BY <1>4, GoodDigest, GoodOne
<1>7. new = (kept \o <<Digest(gone)>>) \o tail
  BY DEF Compacted
<1> HIDE DEF kept, gone, tail, new, I, K
<1>8. /\ Good(kept \o <<Digest(gone)>>, n) /\ Len(kept \o <<Digest(gone)>>) = Len(kept) + 1
      /\ \A k \in 1..Len(kept) : (kept \o <<Digest(gone)>>)[k] = kept[k]
  BY <1>3, <1>6, GoodConcat
<1>a. PICK pre : pre = kept \o <<Digest(gone)>>
  OBVIOUS
<1>9. /\ Good(new, n) /\ Len(new) = Len(kept) + 1 + Len(tail)
      /\ \A k \in 1..Len(kept) + 1 : new[k] = pre[k]
      /\ \A i \in 1..Len(tail) : new[Len(kept) + 1 + i] = tail[i]
  <2>1. Len(pre) = Len(kept) + 1 /\ new = pre \o tail
    BY <1>7, <1>8, <1>a
  <2>2. Good(pre, n) /\ Good(tail, n)
    BY <1>5, <1>8, <1>a
  <2>3. /\ Good(pre \o tail, n) /\ Len(pre \o tail) = Len(pre) + Len(tail)
        /\ \A i \in 1..Len(pre) : (pre \o tail)[i] = pre[i]
        /\ \A i \in 1..Len(tail) : (pre \o tail)[Len(pre) + i] = tail[i]
    BY <2>2, GoodConcat
  <2>4. /\ Good(new, n) /\ Len(new) = Len(pre) + Len(tail)
        /\ \A i \in 1..Len(pre) : new[i] = pre[i]
        /\ \A i \in 1..Len(tail) : new[Len(pre) + i] = tail[i]
    BY <2>1, <2>3, Zenon
  <2>5. Len(pre) = Len(kept) + 1
    BY <2>1
  <2> QED BY <2>4, <2>5
<1>10. Len(kept) \in Nat /\ Len(tail) \in Nat
  BY <1>3, <1>5 DEF Good
<1>11. ASSUME NEW i \in 1..Len(ms), ms[i].what = "prompt"
       PROVE  \E k \in 1..Len(new) : new[k] = ms[i]
  <2>1. CASE i <= s
    <3>1. i \in K
      BY <1>1, <1>11, <2>1 DEF K, I
    <3>2. PICK k \in 1..Len(kept) : kept[k] = ms[i]
      BY <1>3, <3>1
    <3>3. k \in 1..Len(new) /\ k \in 1..Len(kept) + 1 /\ new[k] = ms[i]
      BY <1>8, <1>9, <1>10, <1>a, <3>2
    <3> QED BY <3>3
  <2>2. CASE ~(i <= s)
    <3>1. i - s \in 1..Len(tail) /\ s + (i - s) = i
      BY <1>1, <1>5, <2>2
    <3>2. new[Len(kept) + 1 + (i - s)] = ms[i]
      BY <1>5, <1>9, <3>1
    <3>3. Len(kept) + 1 + (i - s) \in 1..Len(new)
      BY <1>9, <1>10, <3>1
    <3> QED BY <3>2, <3>3
  <2> QED BY <2>1, <2>2
<1>12. DOMAIN ms = 1..Len(ms) /\ DOMAIN new = 1..Len(new)
  BY <1>1, <1>9 DEF Good
<1>13. Prompts(ms) \subseteq Prompts(new)
  BY <1>11, <1>12 DEF Prompts
<1> QED
  BY <1>9, <1>13 DEF new

\* So does a summary.
LEMMA GoodSummarized ==
  ASSUME NEW n \in Nat, NEW ms, Good(ms, n), NEW i \in Nat, NEW from \in BOOLEAN,
         Summarizable(ms, i, from)
  PROVE  Good(Summarized(ms, i, from), n) /\ Len(Summarized(ms, i, from)) > 0
<1> DEFINE early == SubSeq(ms, 1, i)
           late  == SubSeq(ms, i + 1, Len(ms))
<1>1. ms \in Seq(Msg) /\ Len(ms) \in Nat /\ i <= Len(ms)
  BY DEF Good, Summarizable
<1>2. Good(early, n) /\ Len(early) = i
  <2>1. 1 \in 1..Len(ms) + 1 /\ i \in 0..Len(ms) /\ 1 <= i + 1 /\ i - 1 + 1 = i
    BY <1>1
  <2> QED BY <2>1, GoodPart
<1>3. Good(late, n) /\ Len(late) = Len(ms) - i
  <2>1. i + 1 \in 1..Len(ms) + 1 /\ Len(ms) \in 0..Len(ms) /\ i + 1 <= Len(ms) + 1
        /\ Len(ms) - (i + 1) + 1 = Len(ms) - i
    BY <1>1
  <2> QED BY <2>1, GoodPart
<1> HIDE DEF early, late
<1>4. CASE from
  <2>1. Len(late) > 0
    BY <1>1, <1>3, <1>4 DEF Summarizable
  <2>2. Good(Append(early, Digest(late)), n) /\ Len(Append(early, Digest(late))) = i + 1
    BY <1>2, <1>3, <2>1, GoodDigest, GoodAppend
  <2> QED BY <1>4, <2>2 DEF Summarized, early, late
<1>5. CASE ~from
  <2>1. Len(early) > 0
    BY <1>2, <1>5 DEF Summarizable
  <2>2. Good(<<Digest(early)>>, n) /\ Len(<<Digest(early)>>) = 1
    BY <1>2, <2>1, GoodDigest, GoodOne
  <2>3. Good(<<Digest(early)>> \o late, n) /\ Len(<<Digest(early)>> \o late) = 1 + Len(late)
    BY <1>3, <2>2, GoodConcat
  <2>4. Len(late) \in Nat
    BY <1>3 DEF Good
  <2> QED BY <1>5, <2>3, <2>4 DEF Summarized, early, late
<1> QED
  BY <1>4, <1>5

-----------------------------------------------------------------------------
(* The inductive invariant *)

Snaps == UNION {[S -> Nat] : S \in SUBSET Files}
Point == [turn : Nat, idx : Nat, snaps : Snaps, serial : Nat, epoch : Nat, at : [Files -> Nat]]
Boundary == [idx : Nat, serial : Nat, epoch : Nat]

Rewinding == {"restore", "cut", "forget", "drop"}
Target == [pc : Rewinding, turn : Nat, scope : Scopes, known : BOOLEAN, bound : Nat,
           epoch : Nat, plan : Snaps, want : [Files -> Nat]]

\* What the variables hold, unbounded.
Types ==
  /\ turnPC \in {"idle", "starting", "opening", "prompting", "running"}
  /\ start \in [len : Nat, epoch : Nat]
  /\ turnPC = "opening" => opening \in [turn : Nat, idx : Nat, epoch : Nat]
  /\ next \in Nat /\ serial \in Nat /\ epoch \in Nat /\ epochs \in Nat /\ edits \in Nat
  /\ DOMAIN bound \subseteq Nat /\ \A n \in DOMAIN bound : bound[n] \in Boundary
  /\ done \subseteq Point /\ cur \subseteq Point
  /\ DOMAIN disk \subseteq Nat /\ \A n \in DOMAIN disk : disk[n] \in Point /\ disk[n].turn = n
  /\ files \in [Files -> Nat]
  /\ saved.epoch \in Nat
  /\ op.pc \in Rewinding \cup {"idle", "delete", "save", "summarize"}
  /\ op.pc \in Rewinding => op \in Target
  /\ op.pc = "delete" => op = [pc |-> "delete", turns |-> op.turns] /\ op.turns \subseteq Nat
  /\ op.pc = "summarize" => op.bound \in Nat /\ op.from \in BOOLEAN

\* A command of the frontend and a turn exclude each other.
OneAtATime == op.pc # "idle" => turnPC = "idle"

\* Turn numbers grow, but for a rewind between its two truncations; a number is never
\* given out before its user turn began.
Numbers ==
  /\ next <= serial
  /\ turnPC = "starting" => next < serial
  /\ turnPC = "opening" => /\ opening.turn + 1 = next
                           /\ \A c \in All : c.turn < opening.turn
  /\ op.pc \in Rewinding => op.turn < serial
  /\ op.pc = "drop" => next = op.turn
  /\ op.pc # "drop" => \A c \in All : c.turn < next
  /\ \A n \in DOMAIN disk : n < serial

\* The open checkpoint is one, later than the finalized ones, which differ in number.
Distinct ==
  /\ \A c \in cur, d \in done : d.turn < c.turn
  /\ \A c \in cur, d \in cur : c = d
  /\ \A c \in done, d \in done : c.turn = d.turn => c = d

\* The files not yet to be removed are the checkpoints of the store.
Doomed == IF op.pc = "delete" THEN op.turns ELSE {}
Mirrored == {disk[n] : n \in DOMAIN disk \ Doomed} = All

StoreInv == Types /\ OneAtATime /\ Numbers /\ Distinct /\ Mirrored

\* Messages belong to the turns whose prompt went into the log.
Reach == IF turnPC \in {"starting", "opening", "prompting"} THEN serial - 1 ELSE serial
Logs ==
  /\ Good(log, Reach) /\ Good(saved.log, Reach)
  /\ compact.pc = "summarizing" => Good(compact.base, Reach)
  /\ op.pc = "summarize" => Good(op.base, Reach)

\* Epochs in use were given out.
EpochsGiven ==
  /\ epoch \in 1..epochs /\ saved.epoch \in 1..epochs /\ start.epoch <= epochs
  /\ turnPC = "opening" => opening.epoch <= epochs
  /\ \A n \in DOMAIN disk : disk[n].epoch <= epochs

\* Later checkpoints were opened by later user turns.
Serials ==
  /\ \A m \in DOMAIN disk, n \in DOMAIN disk : m < n => disk[m].serial < disk[n].serial
  /\ \A n \in DOMAIN disk : disk[n].serial <= serial
  /\ turnPC \in {"starting", "opening"} => \A n \in DOMAIN disk : disk[n].serial < serial
  /\ Running => serial > 0

\* A boundary in memory is that of the checkpoint in the directory, or of the one about
\* to be written.
Bd(c) == [idx |-> c.idx, serial |-> c.serial, epoch |-> c.epoch]
Recorded ==
  /\ \A n \in DOMAIN bound :
       /\ n < next
       /\ \/ n \in DOMAIN disk /\ bound[n] = Bd(disk[n])
          \/ turnPC = "opening" /\ n = opening.turn
             /\ bound[n] = [idx |-> opening.idx, serial |-> serial, epoch |-> opening.epoch]
  /\ op.pc \in {"restore", "cut"} =>
       /\ op.turn \in DOMAIN disk
       /\ op.known => op.bound = disk[op.turn].idx /\ op.epoch = disk[op.turn].epoch
  /\ op.pc = "delete" => \A n \in op.turns : n >= next

\* The log ms is cut at i between the turns before s and those from s on.
Splits(ms, i, s) ==
  /\ i <= Len(ms)
  /\ \A k \in 1..Len(ms) : IF k <= i THEN ms[k].last < s ELSE ms[k].first >= s

Condemned == IF op.pc \in {"forget", "drop"} THEN {n \in DOMAIN disk : n >= op.turn}
             ELSE Doomed

\* Fresh boundaries split the log.
FreshSplit ==
  /\ \A n \in DOMAIN disk \ Condemned :
        disk[n].epoch = epoch => Splits(log, disk[n].idx, disk[n].serial)
  /\ turnPC = "opening" /\ opening.epoch = epoch => Splits(log, opening.idx, serial)

\* Those of the file's epoch that lie within it split the file.
SavedSplit ==
  /\ \A n \in DOMAIN disk :
        disk[n].epoch = saved.epoch /\ disk[n].idx <= Len(saved.log)
          => Splits(saved.log, disk[n].idx, disk[n].serial)
  /\ turnPC = "opening" /\ opening.epoch = saved.epoch /\ opening.idx <= Len(saved.log)
       => Splits(saved.log, opening.idx, serial)

\* A file of the epoch of the log is no longer than the log.
SavedShorter ==
  saved.epoch = epoch /\ op.pc \notin {"forget", "drop", "delete", "save"}
    => Len(saved.log) <= Len(log)

\* Where a cancel cuts, no fresh boundary is cut off.
StartIsLast ==
  Running /\ start.epoch = epoch =>
    /\ start.len <= Len(log)
    /\ turnPC = "starting" => start.len = Len(log)
    /\ \A n \in DOMAIN disk : disk[n].epoch = epoch => disk[n].idx <= start.len
    /\ turnPC = "opening" /\ opening.epoch = epoch => opening.idx <= start.len

LogInv == Logs /\ EpochsGiven /\ Serials /\ Recorded /\ FreshSplit /\ SavedSplit
          /\ SavedShorter /\ StartIsLast

-----------------------------------------------------------------------------
(* Types *)

LEMMA NoSnaps == <<>> \in Snaps
<1>1. <<>> \in [{} -> Nat]
  OBVIOUS
<1> QED
  BY <1>1 DEF Snaps

LEMMA SnapsTyped ==
  ASSUME NEW s \in Snaps
  PROVE  DOMAIN s \subseteq Files /\ \A f \in DOMAIN s : s[f] \in Nat
BY DEF Snaps

LEMMA SnapsMade ==
  ASSUME NEW S \in SUBSET Files, NEW s \in [S -> Nat]
  PROVE  s \in Snaps
BY DEF Snaps

LEMMA PointTyped ==
  ASSUME NEW c \in Point
  PROVE  /\ c.turn \in Nat /\ c.idx \in Nat /\ c.snaps \in Snaps /\ c.serial \in Nat
         /\ c.epoch \in Nat /\ c.at \in [Files -> Nat]
BY DEF Point

\* The checkpoint that OpenCheckpoint writes.
Opened == [turn |-> opening.turn, idx |-> opening.idx, snaps |-> <<>>,
           serial |-> serial, epoch |-> opening.epoch, at |-> files]

LEMMA OpenedTyped ==
  ASSUME Types, turnPC = "opening"
  PROVE  /\ Opened \in Point /\ Opened.turn = opening.turn
         /\ Opened.idx = opening.idx /\ Opened.serial = serial /\ Opened.epoch = opening.epoch
BY NoSnaps DEF Types, Opened, Point

\* The checkpoint that PreEdit makes of the open one.
Touched(c, f) == [c EXCEPT !.snaps = [g \in DOMAIN @ \cup {f} |->
                                        IF g = f THEN files[f] ELSE @[g]]]

LEMMA TouchedTyped ==
  ASSUME Types, NEW c \in Point, NEW f \in Files
  PROVE  /\ Touched(c, f) \in Point /\ Touched(c, f).turn = c.turn
         /\ Touched(c, f).idx = c.idx /\ Touched(c, f).serial = c.serial
         /\ Touched(c, f).epoch = c.epoch
<1> DEFINE S == DOMAIN c.snaps \cup {f}
           s == [g \in S |-> IF g = f THEN files[f] ELSE c.snaps[g]]
<1>1. DOMAIN c.snaps \subseteq Files /\ \A g \in DOMAIN c.snaps : c.snaps[g] \in Nat
  BY PointTyped, SnapsTyped
<1>2. files[f] \in Nat
  BY DEF Types
<1>3. S \in SUBSET Files /\ s \in [S -> Nat]
  BY <1>1, <1>2
<1>4. s \in Snaps
  BY <1>3, SnapsMade
<1>5. Touched(c, f) = [c EXCEPT !.snaps = s]
  BY DEF Touched
<1> HIDE DEF s
<1> QED
  BY <1>4, <1>5 DEF Point

\* What a rewind plans to write is what some snapshot holds.
LEMMA PlanTyped ==
  ASSUME Types, NEW k \in Nat, NEW p \in RestorePlans(All, k)
  PROVE  p \in Snaps
<1> DEFINE late == {c \in All : c.turn >= k}
           touched == UNION {DOMAIN c.snaps : c \in late}
<1>1. touched \in SUBSET Files
  <2>1. \A c \in All : DOMAIN c.snaps \subseteq Files
    BY PointTyped, SnapsTyped DEF Types, All
  <2> QED BY <2>1
<1>2. p \in [touched -> 0..MaxEdits]
  BY DEF RestorePlans
<1>3. p \in [touched -> Nat]
  BY <1>2, BoundsAssumption
<1> QED
  BY <1>1, <1>3, SnapsMade

LEMMA InitTypes == Init => Types
<1> SUFFICES ASSUME Init PROVE Types
  OBVIOUS
<1>1. DOMAIN bound = {} /\ DOMAIN disk = {}
  BY DEF Init
<1>2. op.pc = "idle"
  BY DEF Init, Idle
<1>3. start \in [len : Nat, epoch : Nat]
  BY DEF Init, NoStart, Unknown
<1> QED
  BY <1>1, <1>2, <1>3 DEF Init, Types, Rewinding

LEMMA TargetMoves ==
  ASSUME NEW t \in Target, NEW pc \in Rewinding
  PROVE  [t EXCEPT !.pc = pc] \in Target /\ [t EXCEPT !.pc = pc].pc = pc
BY DEF Target

\* What a resume makes of the directory.
LEMMA Highest ==
  ASSUME NEW cps, NEW n \in Nat, \A c \in cps : c.turn \in Nat /\ c.turn < n
  PROVE  NextTurn(cps) \in Nat /\ NextTurn(cps) <= n /\ \A c \in cps : c.turn < NextTurn(cps)
<1> DEFINE T == {c.turn : c \in cps}
<1>1. CASE cps = {}
  BY <1>1 DEF NextTurn
<1>2. CASE cps # {}
  <2>1. T \in SUBSET Nat /\ T # {} /\ \A x \in T : x <= n
    BY <1>2
  <2>2. PICK x \in T : \A y \in T : y <= x
    BY <2>1, HasGreatest
  <2>3. \A c \in cps : c.turn <= x
    BY <2>2
  <2> DEFINE m == CHOOSE y \in T : \A c \in cps : c.turn <= y
  <2>4. m \in T /\ \A c \in cps : c.turn <= m
    BY <2>2, <2>3
  <2>5. NextTurn(cps) = 1 + m
    BY <1>2 DEF NextTurn
  <2> HIDE DEF m
  <2>6. m \in Nat /\ m < n
    BY <2>4
  <2> QED BY <2>4, <2>5, <2>6
<1> QED
  BY <1>1, <1>2

LEMMA RebindTyped ==
  ASSUME NEW N \in Nat, Rebind,
         \A n \in DOMAIN disk' : disk'[n] \in Point /\ disk'[n].turn = n /\ n \in Nat /\ n < N
  PROVE  /\ done' \subseteq Point /\ cur' = {} /\ next' \in Nat /\ next' <= N
         /\ \A n \in DOMAIN disk' : n < next'
         /\ DOMAIN bound' = DOMAIN disk'
         /\ \A n \in DOMAIN bound' : bound'[n] = Bd(disk'[n]) /\ bound'[n] \in Boundary
<1> DEFINE cps == {disk'[n] : n \in DOMAIN disk'}
<1>1. done' = cps /\ cur' = {} /\ next' = NextTurn(cps) /\ bound' = Bounds(cps)
  BY DEF Rebind
<1>2. \A c \in cps : c \in Point /\ c.turn \in Nat /\ c.turn < N
  OBVIOUS
<1>3. next' \in Nat /\ next' <= N /\ \A c \in cps : c.turn < next'
  BY <1>1, <1>2, Highest
<1>4. \A n \in DOMAIN disk' : n < next'
  BY <1>3
<1>5. {c.turn : c \in cps} = DOMAIN disk'
  OBVIOUS
<1>6. DOMAIN bound' = DOMAIN disk'
  BY <1>1, <1>5 DEF Bounds
<1>7. ASSUME NEW n \in DOMAIN disk' PROVE bound'[n] = Bd(disk'[n]) /\ bound'[n] \in Boundary
  <2> DEFINE c == CHOOSE d \in cps : d.turn = n
  <2>1. disk'[n] \in cps /\ disk'[n].turn = n
    OBVIOUS
  <2>2. c \in cps /\ c.turn = n
    BY <2>1
  <2>3. c = disk'[n]
    BY <2>2
  <2>4. bound'[n] = [idx |-> c.idx, serial |-> c.serial, epoch |-> c.epoch]
    BY <1>1, <1>5 DEF Bounds
  <2> QED BY <2>3, <2>4, PointTyped DEF Bd, Boundary
<1> QED
  BY <1>1, <1>2, <1>3, <1>4, <1>6, <1>7

LEMMA NextTypes ==
  ASSUME Types, OneAtATime, Numbers, Len(log) \in Nat, [Next]_vars
  PROVE  Types'
<1>1. CASE StartTurn
  BY <1>1 DEF Types, StartTurn, Running, logVars, managerVars, storeVars, counterVars
<1>2. CASE Begin
  <2>1. next \in Nat /\ opening' \in [turn : Nat, idx : Nat, epoch : Nat]
    BY <1>2 DEF Types, Begin
  <2>2. DOMAIN bound' \subseteq Nat /\ \A n \in DOMAIN bound' : bound'[n] \in Boundary
    BY <1>2 DEF Types, Begin, Boundary
  <2>3. turnPC' = "opening" /\ next' = next + 1 /\ UNCHANGED <<start, done, cur, disk, files, op, edits,
                                                            serial, epoch, epochs, saved>>
    BY <1>2 DEF Begin, logVars, storeVars, counterVars, historyVars
  <2> QED BY <2>1, <2>2, <2>3 DEF Types
<1>3. CASE OpenCheckpoint
  <2>1. Opened \in Point /\ Opened.turn = opening.turn /\ opening.turn \in Nat
    BY <1>3, OpenedTyped DEF OpenCheckpoint, Types
  <2>2. /\ done' = All /\ cur' = {Opened}
        /\ disk' = [m \in DOMAIN disk \cup {opening.turn} |->
                      IF m = opening.turn THEN Opened ELSE disk[m]]
    BY <1>3 DEF OpenCheckpoint, Opened
  <2>3. DOMAIN disk' \subseteq Nat /\ \A n \in DOMAIN disk' : disk'[n] \in Point /\ disk'[n].turn = n
    BY <2>1, <2>2 DEF Types
  <2> QED BY <1>3, <2>1, <2>2, <2>3
          DEF Types, OpenCheckpoint, All, logVars, managerVars, counterVars, historyVars
<1>4. CASE AddPrompt
  BY <1>4 DEF Types, AddPrompt, managerVars, storeVars, counterVars
<1>5. CASE AddWork
  BY <1>5 DEF Types, AddWork, turnVars, managerVars, storeVars, counterVars, historyVars
<1>6. ASSUME NEW f \in Files, PreEdit(f) PROVE Types'
  <2>1. CASE \E c \in cur : f \notin DOMAIN c.snaps
    <3> DEFINE c == CHOOSE d \in cur : TRUE
    <3>1. c \in cur /\ c \in Point
      BY <2>1 DEF Types
    <3>2. cur' = {Touched(c, f)}
          /\ disk' = [n \in DOMAIN disk \cup {c.turn} |->
                        IF n = c.turn THEN Touched(c, f) ELSE disk[n]]
      BY <1>6, <2>1 DEF PreEdit, Touched
    <3>3. Touched(c, f) \in Point /\ Touched(c, f).turn = c.turn /\ c.turn \in Nat
      BY <3>1, TouchedTyped, PointTyped
    <3> HIDE DEF c
    <3>4. DOMAIN disk' \subseteq Nat /\ \A n \in DOMAIN disk' : disk'[n] \in Point /\ disk'[n].turn = n
      BY <3>2, <3>3 DEF Types
    <3> QED BY <1>6, <3>2, <3>3, <3>4
            DEF Types, PreEdit, logVars, managerVars, counterVars, historyVars
  <2>2. CASE ~(\E c \in cur : f \notin DOMAIN c.snaps)
    BY <1>6, <2>2 DEF Types, PreEdit, logVars, managerVars, counterVars, historyVars
  <2> QED BY <2>1, <2>2
<1>7. ASSUME NEW f \in Files, SubagentWrite(f) PROVE Types'
  <2>1. edits' = edits + 1 /\ files' = [files EXCEPT ![f] = edits + 1]
        /\ UNCHANGED <<turnPC, start, opening, next, bound, done, cur, disk, op, serial, epoch, epochs, saved>>
    BY <1>7 DEF SubagentWrite, logVars, turnVars, managerVars, storeVars
  <2> QED BY <2>1 DEF Types
<1>8. CASE WriteFile
  <2>1. edits' = edits + 1 /\ files' = [files EXCEPT ![writing] = edits + 1]
        /\ UNCHANGED <<turnPC, start, opening, next, bound, done, cur, disk, op, serial, epoch, epochs, saved>>
    BY <1>8 DEF WriteFile, logVars, managerVars, storeVars, historyVars
  <2>2. edits' \in Nat /\ files' \in [Files -> Nat]
    <3>1. files \in [Files -> Nat] /\ edits + 1 \in Nat
      BY DEF Types
    <3>2. \A f \in Files : [files EXCEPT ![writing] = edits + 1][f] \in Nat
      BY <3>1
    <3> QED BY <2>1, <3>1, <3>2
  <2> QED BY <2>1, <2>2 DEF Types
<1>9. CASE EndTurn
  BY <1>9 DEF Types, EndTurn, TurnOver, SaveIfGrown, Saved, NoStart, Unknown, managerVars, storeVars,
              counterVars, historyVars
<1>10. CASE ContinueGoal
  BY <1>10 DEF Types, ContinueGoal, SaveIfGrown, Saved, managerVars, storeVars, counterVars, historyVars
<1>11. CASE CancelTurn
  <2>1. epoch' \in Nat /\ epochs' \in Nat /\ saved'.epoch \in Nat
    BY <1>11 DEF Types, CancelTurn, Cut, Rewrite
  <2> QED BY <1>11, <2>1 DEF Types, CancelTurn, TurnOver, NoStart, Unknown, managerVars, storeVars,
                             counterVars
<1>12. CASE AutoSave
  BY <1>12 DEF Types, AutoSave, Saved, turnVars, managerVars, storeVars, counterVars, historyVars
<1>13. CASE AutoCompact
  BY <1>13 DEF Types, AutoCompact, Rewrite, turnVars, managerVars, storeVars
<1>14. CASE CompactBegin
  BY <1>14 DEF Types, CompactBegin, logVars, turnVars, managerVars, storeVars, historyVars
<1>15. CASE CompactReplace
  BY <1>15 DEF Types, CompactReplace, Rewrite, turnVars, managerVars, storeVars, counterVars
<1>16. CASE CompactSave
  BY <1>16 DEF Types, CompactSave, Saved, turnVars, managerVars, storeVars, counterVars, historyVars
<1>17. ASSUME NEW k \in {c.turn : c \in All}, NEW scope \in Scopes, RewindBegin(k, scope) PROVE Types'
  <2>1. k \in Nat /\ \E c \in All : c.turn = k
    BY PointTyped DEF Types, All
  <2>2. (CHOOSE c \in All : c.turn = k).at \in [Files -> Nat]
    BY <2>1, PointTyped DEF Types, All
  <2>3. PICK p \in RestorePlans(All, k) :
          op' = [pc |-> IF scope = "conversation" THEN "cut" ELSE "restore",
                 turn |-> k, scope |-> scope,
                 known |-> k \in DOMAIN bound,
                 bound |-> IF k \in DOMAIN bound THEN bound[k].idx ELSE 0,
                 epoch |-> IF k \in DOMAIN bound THEN bound[k].epoch ELSE Unknown,
                 plan |-> IF scope = "conversation" THEN <<>> ELSE p,
                 want |-> (CHOOSE c \in All : c.turn = k).at]
    BY <1>17 DEF RewindBegin
  <2>4. p \in Snaps /\ <<>> \in Snaps
    BY <2>1, PlanTyped, NoSnaps
  <2>5. k \in DOMAIN bound => bound[k].idx \in Nat /\ bound[k].epoch \in Nat
    BY DEF Types, Boundary
  <2>6. op' \in Target /\ op'.pc \in Rewinding
    BY <2>1, <2>2, <2>3, <2>4, <2>5 DEF Target, Rewinding, Unknown
  <2> QED BY <1>17, <2>6 DEF Types, RewindBegin, Rewinding, logVars, turnVars, managerVars, storeVars,
                             historyVars
<1>18. ASSUME NEW f \in Files, RestoreFile(f) PROVE Types'
  <2>1. op \in Target /\ op.plan \in Snaps /\ op.pc = "restore"
    BY <1>18 DEF Types, RestoreFile, Rewinding, Target
  <2>2. DOMAIN op.plan \subseteq Files /\ \A g \in DOMAIN op.plan : op.plan[g] \in Nat
    BY <2>1, SnapsTyped
  <2>3. Restrict(op.plan, DOMAIN op.plan \ {f}) \in Snaps
    <3>1. Restrict(op.plan, DOMAIN op.plan \ {f}) \in [DOMAIN op.plan \ {f} -> Nat]
      BY <2>2 DEF Restrict
    <3> QED BY <2>2, <3>1, SnapsMade
  <2>4. op' \in Target /\ op'.pc = "restore"
    BY <1>18, <2>1, <2>3 DEF RestoreFile, Target
  <2>5. files' \in [Files -> Nat]
    BY <1>18, <2>2 DEF RestoreFile, Types
  <2> QED BY <1>18, <2>4, <2>5 DEF Types, RestoreFile, Rewinding, logVars, turnVars, managerVars, storeVars,
                                   counterVars
<1>19. CASE RestoreDone
  <2>1. op \in Target
    BY <1>19 DEF Types, RestoreDone, Rewinding
  <2>2. op' = Idle \/ (op' \in Target /\ op'.pc = "cut")
    <3>1. op.scope # "code" => op' = [op EXCEPT !.pc = "cut"]
      BY <1>19 DEF RestoreDone
    <3>2. op.scope = "code" => op' = Idle
      BY <1>19 DEF RestoreDone
    <3>3. "cut" \in Rewinding
      BY DEF Rewinding
    <3>4. [op EXCEPT !.pc = "cut"] \in Target /\ [op EXCEPT !.pc = "cut"].pc = "cut"
      BY <2>1, <3>3, TargetMoves
    <3> QED BY <3>1, <3>2, <3>4, Zenon
  <2> QED BY <1>19, <2>2 DEF Types, RestoreDone, Idle, Rewinding, logVars, turnVars, managerVars, storeVars,
                             counterVars, historyVars
<1>20. CASE CutLog
  <2>1. op \in Target
    BY <1>20 DEF Types, CutLog, Rewinding
  <2>2. op' = Idle \/ (op' \in Target /\ op'.pc = "forget")
    <3>1. op' = Idle \/ op' = [op EXCEPT !.pc = "forget"]
      BY <1>20 DEF CutLog
    <3>2. "forget" \in Rewinding
      BY DEF Rewinding
    <3>3. [op EXCEPT !.pc = "forget"] \in Target /\ [op EXCEPT !.pc = "forget"].pc = "forget"
      BY <2>1, <3>2, TargetMoves
    <3> QED BY <3>1, <3>3, Zenon
  <2>3. epoch' \in Nat /\ epochs' \in Nat
    BY <1>20 DEF CutLog, Cut, Rewrite, Types
  <2> QED BY <1>20, <2>2, <2>3 DEF Types, CutLog, Idle, Rewinding, turnVars, managerVars, storeVars,
                                   counterVars
<1>21. CASE ForgetTurns
  <2>1. op \in Target
    BY <1>21 DEF Types, ForgetTurns, Rewinding
  <2>2. op' \in Target /\ op'.pc = "drop" /\ next' \in Nat
    BY <1>21, <2>1 DEF ForgetTurns, Target, Rewinding
  <2>3. DOMAIN bound' \subseteq Nat /\ \A n \in DOMAIN bound' : bound'[n] \in Boundary
    BY <1>21 DEF Types, ForgetTurns, Restrict
  <2> QED BY <1>21, <2>2, <2>3 DEF Types, ForgetTurns, Rewinding, logVars, turnVars, storeVars,
                                   counterVars, historyVars
<1>22. CASE DropCheckpoints
  <2>1. op'.pc = "delete" /\ op' = [pc |-> "delete", turns |-> op'.turns] /\ op'.turns \subseteq Nat
    BY <1>22, PointTyped DEF DropCheckpoints, Types, All
  <2>2. done' \subseteq Point /\ cur' \subseteq Point
    BY <1>22 DEF DropCheckpoints, Types
  <2> QED BY <1>22, <2>1, <2>2 DEF Types, DropCheckpoints, Rewinding, logVars, turnVars, managerVars,
                                   counterVars
<1>23. ASSUME NEW n \in 0..MaxTurns, DeleteFile(n) PROVE Types'
  <2>1. op'.pc = "delete" /\ op' = [pc |-> "delete", turns |-> op'.turns] /\ op'.turns \subseteq Nat
    BY <1>23 DEF DeleteFile, Types
  <2>2. DOMAIN disk' \subseteq Nat /\ \A m \in DOMAIN disk' : disk'[m] \in Point /\ disk'[m].turn = m
    BY <1>23 DEF DeleteFile, Types, Restrict
  <2> QED BY <1>23, <2>1, <2>2 DEF Types, DeleteFile, Rewinding, logVars, turnVars, managerVars,
                                   counterVars
<1>24. CASE DeleteDone
  BY <1>24 DEF Types, DeleteDone, Rewinding, logVars, turnVars, managerVars, storeVars, counterVars,
               historyVars
<1>25. CASE SaveOp
  BY <1>25 DEF Types, SaveOp, Saved, Rewrite, Idle, Rewinding, turnVars, managerVars, storeVars, counterVars
<1>26. ASSUME NEW k \in DOMAIN bound, NEW from \in BOOLEAN, SummarizeBegin(k, from) PROVE Types'
  <2>1. op'.pc = "summarize" /\ op'.bound \in Nat /\ op'.from \in BOOLEAN
    BY <1>26 DEF SummarizeBegin, Types, Boundary
  <2> QED BY <1>26, <2>1 DEF Types, SummarizeBegin, Rewinding, logVars, turnVars, managerVars, storeVars,
                             historyVars
<1>27. CASE SummarizeEnd
  <2>1. epoch' \in Nat /\ epochs' \in Nat
    BY <1>27 DEF SummarizeEnd, Rewrite, Types
  <2>2. DOMAIN bound' = {}
    BY <1>27 DEF SummarizeEnd
  <2> QED BY <1>27, <2>1, <2>2 DEF Types, SummarizeEnd, Rewinding, turnVars, storeVars, counterVars
<1>28. CASE Rebuild
  <2>1. disk' = disk /\ Rebind
    BY <1>28 DEF Rebuild
  <2>2. \A n \in DOMAIN disk' : disk'[n] \in Point /\ disk'[n].turn = n
    BY <2>1 DEF Types
  <2>3. /\ done' \subseteq Point /\ cur' \subseteq Point /\ next' \in Nat
        /\ DOMAIN bound' \subseteq Nat /\ \A n \in DOMAIN bound' : bound'[n] \in Boundary
    <3>1. \A n \in DOMAIN disk' : n \in Nat /\ n < serial
      BY <2>1 DEF Types, Numbers
    <3>2. serial \in Nat
      BY DEF Types
    <3>3. Rebind
      BY <2>1
    <3> QED BY <2>2, <3>1, <3>2, <3>3, RebindTyped
  <2> QED BY <1>28, <2>1, <2>3 DEF Types, Rebuild, Saved, turnVars, historyVars
<1>29. CASE CrashAndResume
  <2>1. /\ Rebind /\ DOMAIN disk' = DOMAIN disk
        /\ \A n \in DOMAIN disk : disk'[n] = disk[n] \/ disk'[n] = [disk[n] EXCEPT !.epoch = Unknown]
    BY <1>29 DEF CrashAndResume
  <2>2. \A n \in DOMAIN disk' : disk'[n] \in Point /\ disk'[n].turn = n
    <3> SUFFICES ASSUME NEW n \in DOMAIN disk PROVE disk'[n] \in Point /\ disk'[n].turn = n
      BY <2>1
    <3>1. disk[n] \in Point /\ disk[n].turn = n
      BY DEF Types
    <3>2. [disk[n] EXCEPT !.epoch = Unknown] \in Point /\ [disk[n] EXCEPT !.epoch = Unknown].turn = n
      BY <3>1 DEF Point, Unknown
    <3> QED BY <2>1, <3>1, <3>2
  <2>3. /\ done' \subseteq Point /\ cur' \subseteq Point /\ next' \in Nat
        /\ DOMAIN bound' \subseteq Nat /\ \A n \in DOMAIN bound' : bound'[n] \in Boundary
    <3>1. \A n \in DOMAIN disk' : n \in Nat /\ n < serial
      BY <2>1 DEF Types, Numbers
    <3>2. serial \in Nat
      BY DEF Types
    <3> QED BY <2>1, <2>2, <3>1, <3>2, RebindTyped
  <2>4. op'.pc = "idle" /\ turnPC' = "idle" /\ start' \in [len : Nat, epoch : Nat]
    BY <1>29 DEF CrashAndResume, TurnOver, NoStart, Unknown, Idle
  <2>5. epoch' = saved.epoch /\ UNCHANGED <<saved, files, edits, serial, epochs>>
    BY <1>29 DEF CrashAndResume
  <2> QED BY <2>1, <2>2, <2>3, <2>4, <2>5 DEF Types, Rewinding
<1>30. CASE UNCHANGED vars
  BY <1>30 DEF Types, vars, logVars, turnVars, managerVars, storeVars, counterVars, historyVars
<1> QED
  BY <1>1, <1>2, <1>3, <1>4, <1>5, <1>6, <1>7, <1>8, <1>9, <1>10, <1>11, <1>12, <1>13, <1>14, <1>15, <1>16,
     <1>17, <1>18, <1>19, <1>20, <1>21, <1>22, <1>23, <1>24, <1>25, <1>26, <1>27, <1>28, <1>29, <1>30
  DEF Next, Turn, Compaction, Rewind, Summarize

-----------------------------------------------------------------------------
(* Turn numbers, and the checkpoints in memory and in the directory *)

LEMMA InitStore == Init => StoreInv
<1> SUFFICES ASSUME Init PROVE StoreInv
  OBVIOUS
<1>1. DOMAIN disk = {} /\ done = {} /\ cur = {} /\ op.pc = "idle" /\ turnPC = "idle"
      /\ next = 0 /\ serial = 0
  BY DEF Init, Idle
<1>2. OneAtATime /\ Numbers /\ Distinct
  BY <1>1 DEF OneAtATime, Numbers, Distinct, All, Rewinding
<1>3. Mirrored
  BY <1>1 DEF Mirrored, Doomed, All
<1> QED
  BY <1>2, <1>3, InitTypes DEF StoreInv

\* The store after a resume from a directory of checkpoints numbered by file.
LEMMA RebindStore ==
  ASSUME NEW N \in Nat, Rebind, op'.pc = "idle", turnPC' = "idle",
         serial' = N,
         \A n \in DOMAIN disk' : disk'[n] \in Point /\ disk'[n].turn = n /\ n \in Nat /\ n < N
  PROVE  OneAtATime' /\ Numbers' /\ Distinct' /\ Mirrored'
<1>1. /\ cur' = {} /\ next' \in Nat /\ next' <= N
      /\ \A n \in DOMAIN disk' : n < next'
  BY RebindTyped
<1>2. done' = {disk'[n] : n \in DOMAIN disk'}
  BY DEF Rebind
<1>3. Numbers'
  BY <1>1, <1>2 DEF Numbers, All, Rewinding
<1>4. Distinct'
  BY <1>1, <1>2 DEF Distinct
<1>5. Mirrored'
  BY <1>1, <1>2 DEF Mirrored, Doomed, All
<1> QED
  BY <1>3, <1>4, <1>5 DEF OneAtATime

\* With no file to be removed, a turn number names one checkpoint, in memory and in the
\* directory alike.
LEMMA OnDisk ==
  ASSUME StoreInv, op.pc # "delete"
  PROVE  /\ \A c \in All : c.turn \in DOMAIN disk /\ disk[c.turn] = c
         /\ \A n \in DOMAIN disk : disk[n] \in All
<1>1. {disk[n] : n \in DOMAIN disk} = All
  BY DEF StoreInv, Mirrored, Doomed
<1>2. \A n \in DOMAIN disk : disk[n].turn = n
  BY DEF StoreInv, Types
<1> QED
  BY <1>1, <1>2

StoreVars == <<turnPC, opening, next, done, cur, disk, serial, op>>

LEMMA StoreKept ==
  ASSUME OneAtATime, Numbers, Distinct, Mirrored, UNCHANGED StoreVars
  PROVE  OneAtATime' /\ Numbers' /\ Distinct' /\ Mirrored'
BY DEF StoreVars, OneAtATime, Numbers, Distinct, Mirrored, All, Doomed

\* Steps that change the phase of a turn only.
LEMMA StorePhase ==
  ASSUME OneAtATime, Numbers, Distinct, Mirrored,
         UNCHANGED <<next, done, cur, disk, serial, op>>,
         turnPC # "idle", turnPC' \in {"idle", "prompting", "running"}
  PROVE  OneAtATime' /\ Numbers' /\ Distinct' /\ Mirrored'
BY DEF OneAtATime, Numbers, Distinct, Mirrored, All, Doomed

LEMMA NextStore ==
  ASSUME Serialised = TRUE, StoreInv, Len(log) \in Nat, [Next]_vars
  PROVE  StoreInv'
<1> SUFFICES OneAtATime' /\ Numbers' /\ Distinct' /\ Mirrored'
  BY NextTypes DEF StoreInv
<1> USE DEF StoreInv
<1>1. CASE StartTurn
  <2>1. /\ op.pc = "idle" /\ turnPC' = "starting" /\ serial' = serial + 1
        /\ UNCHANGED <<opening, next, done, cur, disk, op>>
    BY <1>1 DEF StartTurn, managerVars, storeVars
  <2>2. serial \in Nat /\ next \in Nat /\ \A n \in DOMAIN disk : n \in Nat
    BY DEF Types
  <2> QED BY <2>1, <2>2 DEF OneAtATime, Numbers, Distinct, Mirrored, All, Doomed, Rewinding
<1>2. CASE Begin
  <2>1. /\ turnPC = "starting" /\ turnPC' = "opening" /\ next' = next + 1
        /\ opening' = [turn |-> next, idx |-> Len(log), epoch |-> epoch]
        /\ UNCHANGED <<done, cur, disk, op, serial>>
    BY <1>2 DEF Begin, storeVars, historyVars
  <2>2. serial \in Nat /\ next \in Nat /\ \A c \in All : c.turn \in Nat
    BY PointTyped DEF Types, All
  <2>3. op.pc = "idle" /\ opening'.turn = next
    BY <2>1 DEF OneAtATime
  <2> QED BY <2>1, <2>2, <2>3 DEF OneAtATime, Numbers, Distinct, Mirrored, All, Doomed, Rewinding
<1>3. CASE OpenCheckpoint
  <2>1. turnPC = "opening"
    BY <1>3 DEF OpenCheckpoint
  <2>2. Opened \in Point /\ Opened.turn = opening.turn /\ opening.turn \in Nat
    BY <2>1, OpenedTyped DEF Types
  <2>3. /\ done' = All /\ cur' = {Opened} /\ turnPC' = "prompting"
        /\ disk' = [m \in DOMAIN disk \cup {opening.turn} |->
                      IF m = opening.turn THEN Opened ELSE disk[m]]
        /\ UNCHANGED <<next, serial, op>>
    BY <1>3 DEF OpenCheckpoint, Opened, managerVars, historyVars
  <2>4. op.pc = "idle"
    BY <2>1 DEF OneAtATime
  <2>5. /\ \A c \in All : c.turn < opening.turn /\ c.turn \in Nat
        /\ opening.turn < next /\ next <= serial /\ next \in Nat /\ serial \in Nat
    BY <2>1, <2>2, PointTyped DEF Numbers, Types, All
  <2>6. opening.turn \notin DOMAIN disk
    <3> SUFFICES ASSUME opening.turn \in DOMAIN disk PROVE FALSE
      OBVIOUS
    <3>1. disk[opening.turn] \in All /\ disk[opening.turn].turn = opening.turn
      BY <2>4, OnDisk DEF Types
    <3> QED BY <2>5, <3>1
  <2>7. Numbers'
    <3>1. \A c \in All' : c.turn < next
      BY <2>2, <2>3, <2>5 DEF All
    <3>2. \A n \in DOMAIN disk' : n < serial
      BY <2>2, <2>3, <2>5 DEF Numbers
    <3> QED BY <2>3, <2>4, <2>5, <3>1, <3>2 DEF Numbers, Rewinding
  <2>8. Distinct'
    <3>1. \A c \in All, d \in All : c.turn = d.turn => c = d
      BY <2>4, OnDisk
    <3> QED BY <2>2, <2>3, <2>5, <3>1 DEF Distinct
  <2>9. Mirrored'
    <3>1. {disk'[n] : n \in DOMAIN disk'} = {disk[n] : n \in DOMAIN disk} \cup {Opened}
      BY <2>3, <2>6
    <3>2. {disk[n] : n \in DOMAIN disk} = All
      BY <2>4 DEF Mirrored, Doomed
    <3> QED BY <2>3, <2>4, <3>1, <3>2 DEF Mirrored, Doomed, All
  <2> QED BY <2>3, <2>4, <2>7, <2>8, <2>9 DEF OneAtATime
<1>4. CASE AddPrompt
  <2>1. turnPC = "prompting" /\ turnPC' = "running" /\ UNCHANGED <<next, done, cur, disk, serial, op>>
    BY <1>4 DEF AddPrompt, managerVars, storeVars
  <2> QED BY <2>1, StorePhase
<1>5. CASE AddWork
  BY <1>5, StoreKept DEF AddWork, StoreVars, turnVars, managerVars, storeVars, historyVars
<1>6. ASSUME NEW f \in Files, PreEdit(f)
      PROVE  OneAtATime' /\ Numbers' /\ Distinct' /\ Mirrored'
  <2>1. /\ turnPC = "running" /\ op.pc = "idle"
        /\ UNCHANGED <<turnPC, opening, next, done, serial, op>>
    BY <1>6 DEF PreEdit, OneAtATime, managerVars, historyVars
  <2>2. CASE \E c \in cur : f \notin DOMAIN c.snaps
    <3> DEFINE c == CHOOSE d \in cur : TRUE
               new == Touched(c, f)
    <3>1. c \in cur /\ c \in All /\ c \in Point
      BY <2>2 DEF Types, All
    <3>2. cur' = {new}
          /\ disk' = [n \in DOMAIN disk \cup {c.turn} |-> IF n = c.turn THEN new ELSE disk[n]]
      BY <1>6, <2>2 DEF PreEdit, Touched
    <3>3. new.turn = c.turn /\ c.turn \in Nat
      BY <3>1, TouchedTyped, PointTyped
    <3> HIDE DEF c, new
    <3>4. c.turn \in DOMAIN disk /\ disk[c.turn] = c
      BY <2>1, <3>1, OnDisk
    <3>5. cur = {c}
      BY <3>1 DEF Distinct
    <3>6. Numbers'
      BY <2>1, <3>1, <3>2, <3>3, <3>4, <3>5 DEF Numbers, All, Rewinding
    <3>7. Distinct'
      BY <2>1, <3>1, <3>2, <3>3, <3>5 DEF Distinct
    <3>8. Mirrored'
      <4>1. \A n \in DOMAIN disk : disk[n].turn = n /\ (n # c.turn => disk[n] # c)
        BY <3>3 DEF Types
      <4>2. {disk[n] : n \in DOMAIN disk} = done \cup {c}
        BY <2>1, <3>5 DEF Mirrored, Doomed, All
      <4>3. c \notin done
        BY <3>1, <3>3 DEF Distinct
      <4>4. {disk[n] : n \in DOMAIN disk \ {c.turn}} = done
        BY <3>4, <4>1, <4>2, <4>3
      <4>5. {disk'[n] : n \in DOMAIN disk'} = {disk[n] : n \in DOMAIN disk \ {c.turn}} \cup {new}
        BY <3>2, <3>4
      <4> QED BY <2>1, <3>2, <4>4, <4>5 DEF Mirrored, Doomed, All
    <3> QED BY <2>1, <3>6, <3>7, <3>8 DEF OneAtATime
  <2>3. CASE ~(\E c \in cur : f \notin DOMAIN c.snaps)
    <3>1. UNCHANGED StoreVars
      BY <1>6, <2>1, <2>3 DEF PreEdit, StoreVars
    <3> QED BY <3>1, StoreKept
  <2> QED BY <2>2, <2>3
<1>7. ASSUME NEW f \in Files, SubagentWrite(f) PROVE OneAtATime' /\ Numbers' /\ Distinct' /\ Mirrored'
  <2>1. UNCHANGED StoreVars
    BY <1>7 DEF SubagentWrite, StoreVars, turnVars, managerVars, storeVars
  <2> QED BY <2>1, StoreKept
<1>8. CASE WriteFile
  <2>1. UNCHANGED StoreVars
    BY <1>8 DEF WriteFile, StoreVars, managerVars, storeVars, historyVars
  <2> QED BY <2>1, StoreKept
<1>9. CASE EndTurn
  <2>1. turnPC = "running" /\ turnPC' = "idle" /\ UNCHANGED <<next, done, cur, disk, serial, op>>
    BY <1>9 DEF EndTurn, TurnOver, managerVars, storeVars, historyVars
  <2> QED BY <2>1, StorePhase
<1>10. CASE ContinueGoal
  BY <1>10, StoreKept DEF ContinueGoal, StoreVars, managerVars, storeVars, historyVars
<1>11. CASE CancelTurn
  <2>1. turnPC = "running" /\ turnPC' = "idle" /\ UNCHANGED <<next, done, cur, disk, serial, op>>
    BY <1>11 DEF CancelTurn, TurnOver, managerVars, storeVars
  <2> QED BY <2>1, StorePhase
<1>12. CASE AutoSave
  BY <1>12, StoreKept DEF AutoSave, StoreVars, turnVars, managerVars, storeVars, historyVars
<1>13. CASE AutoCompact
  <2>1. UNCHANGED StoreVars
    BY <1>13 DEF AutoCompact, StoreVars, turnVars, managerVars, storeVars
  <2> QED BY <2>1, StoreKept
<1>14. CASE CompactBegin
  BY <1>14, StoreKept DEF CompactBegin, StoreVars, turnVars, managerVars, storeVars, historyVars
<1>15. CASE CompactReplace
  <2>1. UNCHANGED StoreVars
    BY <1>15 DEF CompactReplace, StoreVars, turnVars, managerVars, storeVars
  <2> QED BY <2>1, StoreKept
<1>16. CASE CompactSave
  BY <1>16, StoreKept DEF CompactSave, StoreVars, turnVars, managerVars, storeVars, historyVars
<1>17. ASSUME NEW k \in {c.turn : c \in All}, NEW scope \in Scopes, RewindBegin(k, scope)
       PROVE  OneAtATime' /\ Numbers' /\ Distinct' /\ Mirrored'
  <2>1. /\ turnPC = "idle" /\ op.pc = "idle" /\ op'.pc \in {"cut", "restore"} /\ op'.turn = k
        /\ UNCHANGED <<turnPC, opening, next, done, cur, disk, serial>>
    BY <1>17 DEF RewindBegin, Running, turnVars, managerVars, storeVars, historyVars
  <2>2. k < serial /\ next <= serial
    <3>1. k \in Nat /\ k < next /\ next <= serial /\ next \in Nat /\ serial \in Nat
      BY <2>1, PointTyped DEF Numbers, Types, All
    <3> QED BY <3>1
  <2> QED BY <2>1, <2>2 DEF OneAtATime, Numbers, Distinct, Mirrored, All, Doomed, Rewinding
<1>18. ASSUME NEW f \in Files, RestoreFile(f) PROVE OneAtATime' /\ Numbers' /\ Distinct' /\ Mirrored'
  <2>1. op \in Target /\ op.pc = "restore"
    BY <1>18 DEF RestoreFile, Types, Rewinding
  <2>2. op'.pc = "restore" /\ op'.turn = op.turn
        /\ UNCHANGED <<turnPC, opening, next, done, cur, disk, serial>>
    BY <1>18, <2>1 DEF RestoreFile, Target, turnVars, managerVars, storeVars
  <2> QED BY <2>1, <2>2 DEF OneAtATime, Numbers, Distinct, Mirrored, All, Doomed, Rewinding
<1>19. CASE RestoreDone
  <2>1. op \in Target /\ op.pc = "restore"
    BY <1>19 DEF RestoreDone, Types, Rewinding
  <2>2. op'.pc = "idle" \/ (op'.pc = "cut" /\ op'.turn = op.turn)
    BY <1>19, <2>1 DEF RestoreDone, Target, Idle
  <2>3. UNCHANGED <<turnPC, opening, next, done, cur, disk, serial>>
    BY <1>19 DEF RestoreDone, turnVars, managerVars, storeVars, historyVars
  <2> QED BY <2>1, <2>2, <2>3 DEF OneAtATime, Numbers, Distinct, Mirrored, All, Doomed, Rewinding
<1>20. CASE CutLog
  <2>1. op \in Target /\ op.pc = "cut"
    BY <1>20 DEF CutLog, Types, Rewinding
  <2>2. op'.pc = "idle" \/ (op'.pc = "forget" /\ op'.turn = op.turn)
    BY <1>20, <2>1 DEF CutLog, Target, Idle
  <2>3. UNCHANGED <<turnPC, opening, next, done, cur, disk, serial>>
    BY <1>20 DEF CutLog, turnVars, managerVars, storeVars
  <2> QED BY <2>1, <2>2, <2>3 DEF OneAtATime, Numbers, Distinct, Mirrored, All, Doomed, Rewinding
<1>21. CASE ForgetTurns
  <2>1. op \in Target /\ op.pc = "forget" /\ op.turn \in Nat
    BY <1>21 DEF ForgetTurns, Types, Rewinding, Target
  <2>2. /\ op'.pc = "drop" /\ op'.turn = op.turn /\ next' = op.turn
        /\ UNCHANGED <<turnPC, opening, done, cur, disk, serial>>
    BY <1>21, <2>1 DEF ForgetTurns, Target, turnVars, storeVars, historyVars
  <2>3. op.turn < serial /\ serial \in Nat /\ turnPC = "idle"
    BY <2>1 DEF Numbers, Rewinding, Types, OneAtATime
  <2> QED BY <2>1, <2>2, <2>3 DEF OneAtATime, Numbers, Distinct, Mirrored, All, Doomed, Rewinding
<1>22. CASE DropCheckpoints
  <2> DEFINE gone == {c \in All : c.turn >= op.turn}
  <2>1. op.pc = "drop" /\ op \in Target /\ op.turn \in Nat /\ next = op.turn /\ turnPC = "idle"
    BY <1>22 DEF DropCheckpoints, Types, Rewinding, Target, Numbers, OneAtATime
  <2>2. /\ done' = done \ gone /\ cur' = cur \ gone
        /\ op'.pc = "delete" /\ op'.turns = {c.turn : c \in gone}
        /\ UNCHANGED <<turnPC, opening, next, disk, serial>>
    BY <1>22 DEF DropCheckpoints, turnVars, managerVars
  <2>3. All' = {c \in All : c.turn < op.turn}
    <3>1. \A c \in All : c.turn \in Nat
      BY PointTyped DEF Types, All
    <3> QED BY <2>1, <2>2, <3>1 DEF All
  <2>4. Mirrored'
    <3>1. /\ \A c \in All : c.turn \in DOMAIN disk /\ disk[c.turn] = c
          /\ \A n \in DOMAIN disk : disk[n] \in All /\ disk[n].turn = n /\ n \in Nat
      BY <2>1, OnDisk DEF Types
    <3>2. \A n \in DOMAIN disk : n \in op'.turns <=> n >= op.turn
      BY <2>2, <3>1
    <3>3. {disk[n] : n \in DOMAIN disk \ op'.turns} = {c \in All : c.turn < op.turn}
      BY <2>1, <3>1, <3>2
    <3> QED BY <2>2, <2>3, <3>3 DEF Mirrored, Doomed
  <2>5. Numbers'
    BY <2>1, <2>2, <2>3 DEF Numbers, Rewinding
  <2>6. Distinct'
    BY <2>2 DEF Distinct
  <2> QED BY <2>1, <2>2, <2>4, <2>5, <2>6 DEF OneAtATime
<1>23. ASSUME NEW n \in 0..MaxTurns, DeleteFile(n)
       PROVE  OneAtATime' /\ Numbers' /\ Distinct' /\ Mirrored'
  <2>1. /\ op.pc = "delete" /\ n \in op.turns /\ disk' = Restrict(disk, DOMAIN disk \ {n})
        /\ UNCHANGED <<turnPC, opening, next, done, cur, serial>>
    BY <1>23 DEF DeleteFile, turnVars, managerVars
  <2>2. op'.pc = "delete" /\ op'.turns = op.turns \ {n}
    BY <1>23, <2>1 DEF DeleteFile, Types
  <2>3. DOMAIN disk' = DOMAIN disk \ {n} /\ \A m \in DOMAIN disk' : disk'[m] = disk[m]
    BY <2>1 DEF Restrict
  <2>4. Mirrored'
    <3>1. DOMAIN disk' \ op'.turns = DOMAIN disk \ op.turns
      BY <2>1, <2>2, <2>3
    <3>2. {disk'[m] : m \in DOMAIN disk' \ op'.turns} = {disk[m] : m \in DOMAIN disk \ op.turns}
      BY <2>3, <3>1
    <3> QED BY <2>1, <2>2, <3>2 DEF Mirrored, Doomed, All
  <2> QED BY <2>1, <2>2, <2>3, <2>4 DEF OneAtATime, Numbers, Distinct, All, Rewinding
<1>24. CASE DeleteDone
  <2>1. op.pc = "delete" /\ op.turns = {} /\ op'.pc = "save"
        /\ UNCHANGED <<turnPC, opening, next, done, cur, disk, serial>>
    BY <1>24 DEF DeleteDone, turnVars, managerVars, storeVars, historyVars
  <2> QED BY <2>1 DEF OneAtATime, Numbers, Distinct, Mirrored, All, Doomed, Rewinding
<1>25. CASE SaveOp
  <2>1. op.pc = "save" /\ op'.pc = "idle" /\ UNCHANGED <<turnPC, opening, next, done, cur, disk, serial>>
    BY <1>25 DEF SaveOp, Idle, turnVars, managerVars, storeVars
  <2> QED BY <2>1 DEF OneAtATime, Numbers, Distinct, Mirrored, All, Doomed, Rewinding
<1>26. ASSUME NEW k \in DOMAIN bound, NEW from \in BOOLEAN, SummarizeBegin(k, from)
       PROVE  OneAtATime' /\ Numbers' /\ Distinct' /\ Mirrored'
  <2>1. /\ turnPC = "idle" /\ op.pc = "idle" /\ op'.pc = "summarize"
        /\ UNCHANGED <<turnPC, opening, next, done, cur, disk, serial>>
    BY <1>26 DEF SummarizeBegin, Running, turnVars, managerVars, storeVars, historyVars
  <2> QED BY <2>1 DEF OneAtATime, Numbers, Distinct, Mirrored, All, Doomed, Rewinding
<1>27. CASE SummarizeEnd
  <2>1. op.pc = "summarize" /\ op'.pc = "save" /\ UNCHANGED <<turnPC, opening, next, done, cur, disk, serial>>
    BY <1>27 DEF SummarizeEnd, turnVars, storeVars
  <2> QED BY <2>1 DEF OneAtATime, Numbers, Distinct, Mirrored, All, Doomed, Rewinding
<1>28. CASE Rebuild
  <2>1. Rebind /\ op'.pc = "idle" /\ turnPC' = "idle" /\ serial' = serial /\ disk' = disk
    BY <1>28 DEF Rebuild, Running, turnVars, historyVars
  <2>2. /\ serial \in Nat
        /\ \A n \in DOMAIN disk' : disk'[n] \in Point /\ disk'[n].turn = n /\ n \in Nat /\ n < serial
    BY <2>1 DEF Types, Numbers
  <2> QED BY <2>1, <2>2, RebindStore
<1>29. CASE CrashAndResume
  <2>1. Rebind /\ op'.pc = "idle" /\ turnPC' = "idle" /\ serial' = serial
        /\ DOMAIN disk' = DOMAIN disk
    BY <1>29 DEF CrashAndResume, TurnOver, Idle
  <2>2. /\ serial \in Nat
        /\ \A n \in DOMAIN disk' : disk'[n] \in Point /\ disk'[n].turn = n /\ n \in Nat /\ n < serial
    BY <2>1, NextTypes DEF Types, Numbers
  <2> QED BY <2>1, <2>2, RebindStore
<1>30. CASE UNCHANGED vars
  BY <1>30, StoreKept DEF vars, StoreVars, turnVars, managerVars, storeVars, historyVars
<1> QED
  BY <1>1, <1>2, <1>3, <1>4, <1>5, <1>6, <1>7, <1>8, <1>9, <1>10, <1>11, <1>12, <1>13, <1>14, <1>15, <1>16,
     <1>17, <1>18, <1>19, <1>20, <1>21, <1>22, <1>23, <1>24, <1>25, <1>26, <1>27, <1>28, <1>29, <1>30
  DEF Next, Turn, Compaction, Rewind, Summarize

-----------------------------------------------------------------------------
(* Where the log is split *)

LEMMA SplitsAll ==
  ASSUME NEW ms, NEW s \in Nat, Good(ms, s - 1)
  PROVE  Splits(ms, Len(ms), s)
BY GoodTyped DEF Splits

LEMMA SplitsAppend ==
  ASSUME NEW n \in Nat, NEW ms, Good(ms, n), NEW m \in Msg, m.first <= m.last, m.last <= n,
         NEW i \in Nat, NEW s \in Nat, s <= m.first, Splits(ms, i, s)
  PROVE  Splits(Append(ms, m), i, s)
<1>1. /\ Len(Append(ms, m)) = Len(ms) + 1 /\ Len(ms) \in Nat
      /\ \A k \in 1..Len(ms) : Append(ms, m)[k] = ms[k]
      /\ Append(ms, m)[Len(ms) + 1] = m
  BY GoodAppend, GoodTyped
<1>2. i <= Len(ms) /\ \A k \in 1..Len(ms) : IF k <= i THEN ms[k].last < s ELSE ms[k].first >= s
  BY DEF Splits
<1>3. m.first \in Nat
  BY DEF Msg
<1>4. ASSUME NEW k \in 1..Len(ms) + 1
      PROVE  IF k <= i THEN Append(ms, m)[k].last < s ELSE Append(ms, m)[k].first >= s
  <2>1. CASE k \in 1..Len(ms)
    BY <1>1, <1>2, <2>1
  <2>2. CASE k = Len(ms) + 1
    <3>1. ~(k <= i) /\ Append(ms, m)[k] = m
      BY <1>1, <1>2, <2>2
    <3> QED BY <1>3, <3>1
  <2> QED BY <1>1, <2>1, <2>2
<1> QED
  BY <1>1, <1>2, <1>4 DEF Splits

LEMMA SplitsPrefix ==
  ASSUME NEW n \in Nat, NEW ms, Good(ms, n), NEW i \in Nat, NEW s \in Nat, Splits(ms, i, s),
         NEW j \in Nat, i <= j, j <= Len(ms)
  PROVE  Splits(SubSeq(ms, 1, j), i, s)
<1>1. Len(ms) \in Nat
  BY GoodTyped
<1>2. /\ Len(SubSeq(ms, 1, j)) = j
      /\ \A k \in 1..j : SubSeq(ms, 1, j)[k] = ms[k]
  <2>1. 1 \in 1..Len(ms) + 1 /\ j \in 0..Len(ms) /\ 1 <= j + 1 /\ j - 1 + 1 = j
    BY <1>1
  <2>2. /\ Len(SubSeq(ms, 1, j)) = j - 1 + 1
        /\ \A k \in 1..Len(SubSeq(ms, 1, j)) : SubSeq(ms, 1, j)[k] = ms[1 + k - 1]
    BY <2>1, GoodPart
  <2>3. \A k \in 1..j : 1 + k - 1 = k
    OBVIOUS
  <2> QED BY <2>1, <2>2, <2>3
<1>3. \A k \in 1..j : k \in 1..Len(ms)
  BY <1>1
<1> QED
  BY <1>2, <1>3 DEF Splits

\* Of two split points, that of the earlier turn comes first.
LEMMA SplitsOrder ==
  ASSUME NEW n \in Nat, NEW ms, Good(ms, n), NEW i \in Nat, NEW s \in Nat, Splits(ms, i, s),
         NEW j \in Nat, NEW t \in Nat, Splits(ms, j, t), s < t
  PROVE  i <= j
<1> SUFFICES ASSUME j < i PROVE FALSE
  OBVIOUS
<1>1. Len(ms) \in Nat /\ i <= Len(ms)
  BY GoodTyped DEF Splits
<1>2. i \in 1..Len(ms)
  BY <1>1
<1>3. ms[i].last < s /\ ms[i].first >= t /\ ms[i].first \in Nat /\ ms[i].last \in Nat
      /\ ms[i].first <= ms[i].last
  BY <1>2, GoodTyped DEF Splits
<1> QED
  BY <1>3

-----------------------------------------------------------------------------
(* The log and its boundaries *)

Inv == StoreInv /\ LogInv

LEMMA ReachTyped ==
  ASSUME Inv
  PROVE  Reach \in Nat /\ Reach <= serial /\ serial \in Nat /\ Len(log) \in Nat
         /\ log \in Seq(Msg)
<1>1. serial \in Nat /\ (turnPC # "idle" => serial > 0)
  BY DEF Inv, StoreInv, Types, LogInv, Serials, Running
<1>2. Reach \in Nat /\ Reach <= serial
  BY <1>1 DEF Reach
<1>3. Good(log, Reach)
  BY DEF Inv, LogInv, Logs
<1> QED
  BY <1>1, <1>2, <1>3, GoodTyped

\* What a checkpoint in the directory records.
LEMMA MarkTyped ==
  ASSUME StoreInv, NEW n \in DOMAIN disk
  PROVE  /\ n \in Nat /\ disk[n] \in Point /\ disk[n].turn = n /\ disk[n].idx \in Nat
         /\ disk[n].serial \in Nat /\ disk[n].epoch \in Nat
BY PointTyped DEF StoreInv, Types

LEMMA InitLog == Init => LogInv
<1> SUFFICES ASSUME Init PROVE LogInv
  OBVIOUS
<1>1. /\ log = <<>> /\ saved.log = <<>> /\ saved.epoch = 1 /\ turnPC = "idle" /\ start.epoch = 0
      /\ DOMAIN bound = {} /\ DOMAIN disk = {} /\ op.pc = "idle" /\ compact.pc = "idle"
      /\ serial = 0 /\ epoch = 1 /\ epochs = 1
  BY DEF Init, Idle, NoStart, Unknown
<1>2. Good(<<>>, 0)
  BY DEF Good
<1>3. Logs /\ EpochsGiven
  BY <1>1, <1>2 DEF Logs, Reach, EpochsGiven
<1> QED
  BY <1>1, <1>3 DEF LogInv, Serials, Recorded, FreshSplit, SavedSplit, SavedShorter, StartIsLast, Running

\* Nothing but the snapshots of a checkpoint changes.
LEMMA MarksKept ==
  ASSUME LogInv, DOMAIN disk' = DOMAIN disk,
         \A n \in DOMAIN disk : /\ disk'[n].idx = disk[n].idx /\ disk'[n].serial = disk[n].serial
                                /\ disk'[n].epoch = disk[n].epoch,
         UNCHANGED <<log, saved, turnPC, start, opening, next, bound, op, compact, serial, epoch, epochs>>
  PROVE  LogInv'
<1>1. Logs' /\ EpochsGiven'
  BY DEF LogInv, Logs, Reach, EpochsGiven
<1>2. Serials'
  BY DEF LogInv, Serials, Running
<1>3. Recorded'
  BY DEF LogInv, Recorded, Bd
<1>4. FreshSplit'
  BY DEF LogInv, FreshSplit, Condemned, Doomed
<1>5. SavedSplit'
  BY DEF LogInv, SavedSplit
<1>6. SavedShorter' /\ StartIsLast'
  BY DEF LogInv, SavedShorter, StartIsLast, Running
<1> QED
  BY <1>1, <1>2, <1>3, <1>4, <1>5, <1>6 DEF LogInv

\* A turn starts, and opens its checkpoint.
LEMMA StartLog ==
  ASSUME Serialised = TRUE, Inv, StartTurn
  PROVE  LogInv'
<1> USE DEF Inv, StoreInv, LogInv
<1>1. /\ turnPC = "idle" /\ op.pc = "idle" /\ turnPC' = "starting" /\ serial' = serial + 1
      /\ start' = [len |-> Len(log), epoch |-> epoch]
      /\ UNCHANGED <<log, saved, opening, next, bound, disk, op, compact, epoch, epochs>>
  BY DEF StartTurn, Running, logVars, managerVars, storeVars
<1>2. serial \in Nat /\ Len(log) \in Nat /\ Reach = serial /\ Reach' = serial
  BY <1>1, ReachTyped DEF Reach
<1>3. Logs'
  BY <1>1, <1>2 DEF Logs
<1>4. EpochsGiven' /\ Recorded'
  BY <1>1 DEF EpochsGiven, Recorded, Bd
<1>5. Serials'
  BY <1>1, <1>2, MarkTyped DEF Serials, Running
<1>6. FreshSplit'
  BY <1>1 DEF FreshSplit, Condemned, Doomed
<1>7. SavedSplit' /\ SavedShorter'
  BY <1>1 DEF SavedSplit, SavedShorter
<1>8. StartIsLast'
  <2>1. \A n \in DOMAIN disk : disk[n].epoch = epoch => disk[n].idx <= Len(log)
    BY <1>1 DEF FreshSplit, Condemned, Doomed, Splits
  <2> QED BY <1>1, <1>2, <2>1 DEF StartIsLast, Running
<1> QED
  BY <1>3, <1>4, <1>5, <1>6, <1>7, <1>8

LEMMA BeginLog ==
  ASSUME Inv, Begin
  PROVE  LogInv'
<1> USE DEF Inv, StoreInv, LogInv
<1>1. /\ turnPC = "starting" /\ turnPC' = "opening" /\ next' = next + 1
      /\ opening' = [turn |-> next, idx |-> Len(log), epoch |-> epoch]
      /\ bound' = [n \in DOMAIN bound \cup {next} |->
                     IF n = next THEN [idx |-> Len(log), serial |-> serial, epoch |-> epoch]
                     ELSE bound[n]]
      /\ UNCHANGED <<log, saved, start, disk, op, compact, serial, epoch, epochs>>
  BY DEF Begin, logVars, storeVars, historyVars
<1>2. op.pc = "idle" /\ serial \in Nat /\ next \in Nat /\ \A n \in DOMAIN bound : n \in Nat
  BY <1>1 DEF OneAtATime, Types
<1>3. Reach = serial - 1 /\ Reach' = serial - 1 /\ Len(log) \in Nat /\ Len(saved.log) \in Nat
  BY <1>1, ReachTyped, GoodTyped DEF Reach, Logs
<1>4. Good(log, serial - 1) /\ Good(saved.log, serial - 1)
  BY <1>3 DEF Logs
<1>5. Logs'
  BY <1>1, <1>3 DEF Logs
<1>6. opening'.turn = next /\ opening'.idx = Len(log) /\ opening'.epoch = epoch
  BY <1>1
<1>7. EpochsGiven'
  BY <1>1, <1>6 DEF EpochsGiven
<1>8. Serials'
  BY <1>1 DEF Serials, Running
<1>9. Recorded'
  <2> SUFFICES ASSUME NEW n \in DOMAIN bound'
               PROVE  /\ n < next'
                      /\ \/ n \in DOMAIN disk' /\ bound'[n] = (Bd(disk[n]))'
                         \/ turnPC' = "opening" /\ n = opening'.turn
                            /\ bound'[n] = [idx |-> opening'.idx, serial |-> serial', epoch |-> opening'.epoch]
    BY <1>1, <1>2 DEF Recorded, Bd
  <2>1. CASE n = next
    BY <1>1, <1>2, <1>6, <2>1
  <2>2. CASE n # next
    <3>1. n \in DOMAIN bound /\ bound'[n] = bound[n]
      BY <1>1, <2>2
    <3>2. n < next /\ n \in DOMAIN disk /\ bound[n] = Bd(disk[n])
      BY <1>1, <3>1 DEF Recorded
    <3> QED BY <1>1, <1>2, <3>1, <3>2 DEF Bd
  <2> QED BY <2>1, <2>2
<1>10. FreshSplit'
  <2>1. Splits(log, Len(log), serial)
    BY <1>2, <1>4, SplitsAll
  <2> QED BY <1>1, <1>6, <2>1 DEF FreshSplit, Condemned, Doomed
<1>11. SavedSplit'
  <2>1. epoch = saved.epoch /\ Len(log) <= Len(saved.log) => Splits(saved.log, Len(log), serial)
    <3>1. epoch = saved.epoch => Len(saved.log) <= Len(log)
      BY <1>2 DEF SavedShorter
    <3>2. Splits(saved.log, Len(saved.log), serial)
      BY <1>2, <1>4, SplitsAll
    <3>3. Len(saved.log) <= Len(log) /\ Len(log) <= Len(saved.log) => Len(log) = Len(saved.log)
      BY <1>3
    <3> QED BY <3>1, <3>2, <3>3
  <2> QED BY <1>1, <1>6, <2>1 DEF SavedSplit
<1>12. SavedShorter' /\ StartIsLast'
  BY <1>1, <1>3, <1>6 DEF SavedShorter, StartIsLast, Running
<1> QED
  BY <1>5, <1>7, <1>8, <1>9, <1>10, <1>11, <1>12

LEMMA OpenLog ==
  ASSUME Inv, OpenCheckpoint
  PROVE  LogInv'
<1> USE DEF Inv, StoreInv, LogInv
<1> DEFINE k == opening.turn
<1>1. /\ turnPC = "opening" /\ turnPC' = "prompting"
      /\ disk' = [m \in DOMAIN disk \cup {k} |-> IF m = k THEN Opened ELSE disk[m]]
      /\ UNCHANGED <<log, saved, start, next, bound, op, compact, serial, epoch, epochs>>
  BY DEF OpenCheckpoint, Opened, logVars, managerVars, historyVars
<1>2. op.pc = "idle" /\ serial \in Nat /\ k \in Nat
  BY <1>1 DEF OneAtATime, Types
<1>3. Opened.idx = opening.idx /\ Opened.serial = serial /\ Opened.epoch = opening.epoch
  BY <1>1, OpenedTyped
<1>4. \A n \in DOMAIN disk : n < k /\ n # k /\ n \in Nat /\ disk[n].serial < serial /\ disk[n].serial \in Nat
  <2>1. \A n \in DOMAIN disk : n < k
    BY <1>1, <1>2, OnDisk, MarkTyped DEF Numbers
  <2> QED BY <1>1, <1>2, <2>1, MarkTyped DEF Serials
<1> HIDE DEF k
<1>5. /\ DOMAIN disk' = DOMAIN disk \cup {k} /\ disk'[k] = Opened
      /\ \A n \in DOMAIN disk : disk'[n] = disk[n]
  BY <1>1, <1>4
<1>6. Logs'
  BY <1>1 DEF Logs, Reach
<1>7. EpochsGiven'
  BY <1>1, <1>3, <1>5 DEF EpochsGiven
<1>8. Serials'
  BY <1>1, <1>2, <1>3, <1>4, <1>5 DEF Serials, Running
<1>9. Recorded'
  <2> SUFFICES ASSUME NEW n \in DOMAIN bound PROVE n \in DOMAIN disk' /\ bound[n] = (Bd(disk[n]))'
    BY <1>1, <1>2 DEF Recorded
  <2>1. CASE n \in DOMAIN disk /\ bound[n] = Bd(disk[n])
    BY <1>5, <2>1 DEF Bd
  <2>2. CASE n = opening.turn /\ bound[n] = [idx |-> opening.idx, serial |-> serial, epoch |-> opening.epoch]
    BY <1>3, <1>5, <2>2 DEF Bd, k
  <2> QED BY <2>1, <2>2 DEF Recorded
<1>10. FreshSplit'
  BY <1>1, <1>2, <1>3, <1>5 DEF FreshSplit, Condemned, Doomed
<1>11. SavedSplit'
  BY <1>1, <1>3, <1>5 DEF SavedSplit
<1>12. SavedShorter' /\ StartIsLast'
  BY <1>1, <1>3, <1>5 DEF SavedShorter, StartIsLast, Running
<1> QED
  BY <1>6, <1>7, <1>8, <1>9, <1>10, <1>11, <1>12

\* A message of the current turn is appended.
LEMMA AppendLog ==
  ASSUME Inv, turnPC \in {"prompting", "running"}, turnPC' = "running",
         NEW m \in Msg, m.first = serial, m.last = serial, log' = Append(log, m),
         \/ saved' = saved
         \/ saved'.log = log /\ saved'.epoch = epoch,
         start' = start \/ start' = [len |-> Len(log), epoch |-> epoch],
         UNCHANGED <<opening, next, bound, disk, op, compact, serial, epoch, epochs>>
  PROVE  LogInv'
<1> USE DEF Inv, StoreInv, LogInv
<1>1. Reach \in Nat /\ Reach <= serial /\ Reach' = serial /\ serial \in Nat /\ Len(log) \in Nat
      /\ op.pc = "idle"
  BY ReachTyped DEF Reach, OneAtATime
<1>2. Good(log, serial) /\ Good(saved.log, serial) /\ (compact.pc = "summarizing" => Good(compact.base, serial))
  BY <1>1, GoodLater DEF Logs
<1>3. Good(log', serial) /\ Len(log') = Len(log) + 1
  BY <1>1, <1>2, GoodAppend
<1>4. Logs'
  BY <1>1, <1>2, <1>3 DEF Logs
<1>5. EpochsGiven' /\ Serials' /\ Recorded'
  BY DEF EpochsGiven, Serials, Recorded, Bd, Running
<1>6. ASSUME NEW n \in DOMAIN disk, disk[n].epoch = epoch
      PROVE  Splits(log, disk[n].idx, disk[n].serial) /\ Splits(log', disk[n].idx, disk[n].serial)
             /\ disk[n].idx <= Len(log)
  <2>1. disk[n].idx \in Nat /\ disk[n].serial \in Nat /\ disk[n].serial <= serial
    BY MarkTyped DEF Serials
  <2>2. Splits(log, disk[n].idx, disk[n].serial)
    BY <1>1, <1>6 DEF FreshSplit, Condemned, Doomed
  <2>3. Splits(Append(log, m), disk[n].idx, disk[n].serial)
    BY <1>1, <1>2, <2>1, <2>2, SplitsAppend
  <2> QED BY <2>2, <2>3 DEF Splits
<1>7. FreshSplit'
  BY <1>6 DEF FreshSplit
<1>8. SavedSplit'
  BY <1>6 DEF SavedSplit
<1>9. SavedShorter'
  <2>1. Len(saved.log) \in Nat
    BY GoodTyped DEF Logs
  <2> QED BY <1>1, <1>3, <2>1 DEF SavedShorter
<1>10. StartIsLast'
  BY <1>1, <1>3, <1>6 DEF StartIsLast, Running, Types
<1> QED
  BY <1>4, <1>5, <1>7, <1>8, <1>9, <1>10

\* The log is saved.
LEMMA SaveLog ==
  ASSUME Inv, op.pc \in {"idle", "save"}, op'.pc = "idle", log' = log,
         saved'.log = log, saved'.epoch = epoch,
         turnPC' = turnPC \/ (turnPC = "running" /\ turnPC' = "idle"),
         start' = start \/ (turnPC' = "idle" /\ start'.epoch = 0),
         compact' = compact \/ compact'.pc # "summarizing",
         UNCHANGED <<opening, next, bound, disk, serial, epoch, epochs>>
  PROVE  LogInv'
<1> USE DEF Inv, StoreInv, LogInv
<1>1. Reach' = Reach
  BY DEF Reach
<1>2. Logs'
  BY <1>1 DEF Logs
<1>3. EpochsGiven' /\ Serials'
  BY DEF EpochsGiven, Serials, Running, Types
<1>4. Recorded'
  BY DEF Recorded, Bd, Types
<1>5. FreshSplit'
  BY DEF FreshSplit, Condemned, Doomed, Types
<1>6. SavedSplit'
  BY DEF SavedSplit, FreshSplit, Condemned, Doomed
<1>7. SavedShorter' /\ StartIsLast'
  BY ReachTyped DEF SavedShorter, StartIsLast, Running
<1> QED
  BY <1>2, <1>3, <1>4, <1>5, <1>6, <1>7

\* A compaction or a summary replaces the log, and with it the epoch.
LEMMA RewriteLog ==
  ASSUME Inv, Good(log', Reach), epochs' = epochs + 1, epoch' = epochs + 1,
         bound' = bound \/ DOMAIN bound' = {},
         compact' = compact \/ compact'.pc # "summarizing",
         op' = op \/ op'.pc \in {"idle", "save", "forget"},
         UNCHANGED <<saved, turnPC, start, opening, next, disk, serial>>
  PROVE  LogInv'
<1> USE DEF Inv, StoreInv, LogInv
<1>1. /\ epochs \in Nat /\ epoch \in 1..epochs /\ saved.epoch \in 1..epochs
      /\ start.epoch \in Nat /\ start.epoch <= epochs
      /\ \A n \in DOMAIN disk : disk[n].epoch \in Nat /\ disk[n].epoch <= epochs
      /\ turnPC = "opening" => opening.epoch \in Nat /\ opening.epoch <= epochs
  BY MarkTyped DEF EpochsGiven, Types
<1>2. /\ epoch' \in 1..epochs' /\ saved.epoch # epoch' /\ start.epoch # epoch'
      /\ \A n \in DOMAIN disk : disk[n].epoch # epoch'
      /\ turnPC = "opening" => opening.epoch # epoch'
  BY <1>1
<1>3. Logs'
  BY DEF Logs, Reach
<1>4. EpochsGiven'
  BY <1>1, <1>2 DEF EpochsGiven
<1>5. Serials'
  BY DEF Serials, Running
<1>6. Recorded'
  BY DEF Recorded, Bd
<1>7. FreshSplit' /\ SavedShorter' /\ StartIsLast'
  BY <1>2 DEF FreshSplit, SavedShorter, StartIsLast
<1>8. SavedSplit'
  BY DEF SavedSplit
<1> QED
  BY <1>3, <1>4, <1>5, <1>6, <1>7, <1>8

LEMMA AutoCompactLog ==
  ASSUME Inv, AutoCompact
  PROVE  LogInv'
<1>1. PICK s \in Foldable(log) : Rewrite(Compacted(log, s))
  BY DEF AutoCompact
<1>2. Good(log, Reach) /\ Reach \in Nat
  BY ReachTyped DEF Inv, LogInv, Logs
<1>3. Good(Compacted(log, s), Reach)
  BY <1>2, GoodCompacted
<1>4. UNCHANGED <<saved, turnPC, start, opening, next, bound, disk, op, compact, serial>>
  BY DEF AutoCompact, turnVars, managerVars, storeVars
<1> QED
  BY <1>1, <1>3, <1>4, RewriteLog DEF Rewrite

LEMMA CompactLog ==
  ASSUME Inv, CompactReplace
  PROVE  LogInv'
<1>1. PICK s \in Foldable(compact.base) : Rewrite(Compacted(compact.base, s))
  BY DEF CompactReplace
<1>2. Good(compact.base, Reach) /\ Reach \in Nat
  BY ReachTyped DEF CompactReplace, Inv, LogInv, Logs
<1>3. Good(Compacted(compact.base, s), Reach)
  BY <1>2, GoodCompacted
<1>4. UNCHANGED <<saved, turnPC, start, opening, next, bound, disk, op, serial>> /\ compact'.pc = "replaced"
  BY DEF CompactReplace, turnVars, managerVars, storeVars
<1> QED
  BY <1>1, <1>3, <1>4, RewriteLog DEF Rewrite

LEMMA CompactBeginLog ==
  ASSUME Inv, CompactBegin
  PROVE  LogInv'
<1> USE DEF Inv, StoreInv, LogInv
<1>1. /\ compact' = [pc |-> "summarizing", base |-> log]
      /\ UNCHANGED <<log, saved, turnPC, start, opening, next, bound, disk, op, serial, epoch, epochs>>
  BY DEF CompactBegin, logVars, turnVars, managerVars, storeVars, historyVars
<1>2. Logs' /\ EpochsGiven' /\ Serials' /\ Recorded'
  BY <1>1 DEF Logs, Reach, EpochsGiven, Serials, Recorded, Bd, Running
<1>3. FreshSplit' /\ SavedSplit' /\ SavedShorter' /\ StartIsLast'
  BY <1>1 DEF FreshSplit, Condemned, Doomed, SavedSplit, SavedShorter, StartIsLast, Running
<1> QED
  BY <1>2, <1>3

\* The turn is cancelled, and the log cut back to where it was.
LEMMA CancelLog ==
  ASSUME Inv, CancelTurn
  PROVE  LogInv'
<1> USE DEF Inv, StoreInv, LogInv
<1>1. /\ turnPC = "running" /\ turnPC' = "idle" /\ start'.epoch = 0
      /\ UNCHANGED <<opening, next, bound, disk, op, compact, serial>>
  BY DEF CancelTurn, TurnOver, NoStart, Unknown, managerVars, storeVars
<1>2. op.pc = "idle" /\ Reach' = Reach /\ Reach \in Nat /\ Good(log, Reach) /\ Len(log) \in Nat
      /\ start.len \in Nat /\ epochs \in Nat
  BY <1>1, ReachTyped DEF OneAtATime, Reach, Logs, Types
<1>3. CASE UNCHANGED <<log, saved, epoch, epochs>>
  <2>1. Logs' /\ EpochsGiven' /\ Serials' /\ Recorded'
    BY <1>1, <1>2, <1>3 DEF Logs, EpochsGiven, Serials, Recorded, Bd, Running
  <2>2. FreshSplit' /\ SavedSplit' /\ SavedShorter' /\ StartIsLast'
    BY <1>1, <1>2, <1>3 DEF FreshSplit, Condemned, Doomed, SavedSplit, SavedShorter, StartIsLast, Running
  <2> QED BY <2>1, <2>2
<1>4. CASE /\ Len(log) > start.len /\ Cut(start.len, start.epoch)
           /\ saved' = [log |-> log', epoch |-> epoch']
  <2>1. log' = SubSeq(log, 1, start.len) /\ Good(log', Reach)
    <3>1. 1 \in 1..Len(log) + 1 /\ start.len \in 0..Len(log) /\ 1 <= start.len + 1
      BY <1>2, <1>4
    <3>2. Good(SubSeq(log, 1, start.len), Reach)
      BY <1>2, <3>1, GoodPart
    <3>3. log' = SubSeq(log, 1, start.len)
      BY <1>4 DEF Cut, Rewrite
    <3> QED BY <3>2, <3>3
  <2>2. saved'.log = log' /\ saved'.epoch = epoch'
    BY <1>4
  <2>3. Logs'
    BY <1>1, <1>2, <2>1, <2>2 DEF Logs
  <2>4. Serials' /\ Recorded'
    BY <1>1 DEF Serials, Recorded, Bd, Running
  <2>5. SavedShorter' /\ StartIsLast'
    <3>1. Len(log') \in Nat
      BY <2>1, GoodTyped
    <3> QED BY <1>1, <2>2, <3>1 DEF SavedShorter, StartIsLast, Running
  <2>6. EpochsGiven'
    BY <1>1, <1>2, <1>4, <2>2, MarkTyped DEF EpochsGiven, Cut, Rewrite
  <2>7. ASSUME NEW n \in DOMAIN disk, disk[n].epoch = epoch'
        PROVE  Splits(log', disk[n].idx, disk[n].serial)
    <3>1. epoch = epoch' /\ start.epoch = epoch
      <4>1. disk[n].epoch <= epochs /\ disk[n].epoch \in Nat
        BY MarkTyped DEF EpochsGiven
      <4>2. epoch' # epochs + 1
        BY <1>2, <2>7, <4>1
      <4> QED BY <1>4, <4>2 DEF Cut, Rewrite
    <3>2. Splits(log, disk[n].idx, disk[n].serial)
      BY <1>2, <2>7, <3>1 DEF FreshSplit, Condemned, Doomed
    <3>3. disk[n].idx <= start.len
      BY <1>1, <2>7, <3>1 DEF StartIsLast, Running
    <3>4. disk[n].idx \in Nat /\ disk[n].serial \in Nat
      BY MarkTyped
    <3>5. start.len <= Len(log)
      BY <1>2, <1>4
    <3> QED BY <1>2, <2>1, <3>2, <3>3, <3>4, <3>5, SplitsPrefix
  <2>8. FreshSplit' /\ SavedSplit'
    BY <1>1, <2>2, <2>7 DEF FreshSplit, SavedSplit
  <2> QED BY <2>3, <2>4, <2>5, <2>6, <2>8
<1> QED
  BY <1>3, <1>4 DEF CancelTurn

\* A command begins, or goes on without touching the log or the checkpoints.
LEMMA CommandLog ==
  ASSUME Inv, op.pc \in {"idle", "restore", "cut"},
         op'.pc \in {"idle", "restore", "cut", "summarize"},
         op'.pc = "summarize" => op'.base = log,
         op'.pc \in {"restore", "cut"} =>
            /\ op'.turn \in DOMAIN disk
            /\ op'.known => op'.bound = disk[op'.turn].idx /\ op'.epoch = disk[op'.turn].epoch,
         UNCHANGED <<log, saved, turnPC, start, opening, next, bound, disk, compact, serial, epoch, epochs>>
  PROVE  LogInv'
<1> USE DEF Inv, StoreInv, LogInv
<1>1. Logs' /\ EpochsGiven' /\ Serials'
  BY DEF Logs, Reach, EpochsGiven, Serials, Running
<1>2. Recorded'
  BY DEF Recorded, Bd
<1>3. FreshSplit'
  BY DEF FreshSplit, Condemned, Doomed
<1>4. SavedSplit' /\ SavedShorter' /\ StartIsLast'
  BY DEF SavedSplit, SavedShorter, StartIsLast, Running
<1> QED
  BY <1>1, <1>2, <1>3, <1>4

LEMMA RewindLog ==
  ASSUME Inv, NEW k \in {c.turn : c \in All}, NEW scope \in Scopes, RewindBegin(k, scope)
  PROVE  LogInv'
<1>1. /\ op.pc = "idle" /\ turnPC = "idle" /\ op'.pc \in {"cut", "restore"} /\ op'.turn = k
      /\ op'.known = (k \in DOMAIN bound)
      /\ k \in DOMAIN bound => op'.bound = bound[k].idx /\ op'.epoch = bound[k].epoch
      /\ UNCHANGED <<log, saved, turnPC, start, opening, next, bound, disk, compact, serial, epoch, epochs>>
  BY DEF RewindBegin, Running, logVars, turnVars, managerVars, storeVars, historyVars
<1>2. k \in DOMAIN disk
  BY <1>1, OnDisk DEF Inv
<1>3. k \in DOMAIN bound => bound[k] = Bd(disk[k])
  BY <1>1 DEF Inv, LogInv, Recorded
<1>4. op'.known => k \in DOMAIN bound
  BY <1>1, Zenon
<1>5. op'.known => op'.bound = disk[op'.turn].idx /\ op'.epoch = disk[op'.turn].epoch
  BY <1>1, <1>3, <1>4 DEF Bd
<1> QED
  BY <1>1, <1>2, <1>5, CommandLog

LEMMA RestoreLog ==
  ASSUME Inv, (\E f \in Files : RestoreFile(f)) \/ RestoreDone
  PROVE  LogInv'
<1>1. op.pc = "restore" /\ op \in Target
  BY DEF RestoreFile, RestoreDone, Inv, StoreInv, Types, Rewinding
<1>2. \/ op'.pc = "idle"
      \/ /\ op'.pc \in {"restore", "cut"} /\ op'.turn = op.turn /\ op'.known = op.known
         /\ op'.bound = op.bound /\ op'.epoch = op.epoch
  <2>1. ASSUME NEW f \in Files, RestoreFile(f)
        PROVE  /\ op'.pc = "restore" /\ op'.turn = op.turn /\ op'.known = op.known
               /\ op'.bound = op.bound /\ op'.epoch = op.epoch
    BY <1>1, <2>1 DEF RestoreFile, Target
  <2>2. ASSUME RestoreDone
        PROVE  \/ op'.pc = "idle"
               \/ /\ op'.pc = "cut" /\ op'.turn = op.turn /\ op'.known = op.known
                  /\ op'.bound = op.bound /\ op'.epoch = op.epoch
    BY <1>1, <2>2 DEF RestoreDone, Target, Idle
  <2> QED BY <2>1, <2>2
<1>3. UNCHANGED <<log, saved, turnPC, start, opening, next, bound, disk, compact, serial, epoch, epochs>>
  BY DEF RestoreFile, RestoreDone, logVars, turnVars, managerVars, storeVars, historyVars
<1>4. op.turn \in DOMAIN disk
      /\ (op.known => op.bound = disk[op.turn].idx /\ op.epoch = disk[op.turn].epoch)
  BY <1>1 DEF Inv, LogInv, Recorded
<1> QED
  BY <1>1, <1>2, <1>3, <1>4, CommandLog

LEMMA CutLogLog ==
  ASSUME Inv, CutLog
  PROVE  LogInv'
<1> USE DEF Inv, StoreInv, LogInv
<1>1. /\ op.pc = "cut" /\ op \in Target /\ turnPC = "idle"
      /\ UNCHANGED <<saved, turnPC, start, opening, next, bound, disk, compact, serial>>
  BY DEF CutLog, turnVars, managerVars, storeVars, Types, Rewinding, OneAtATime
<1>2. op.turn \in DOMAIN disk
      /\ (op.known => op.bound = disk[op.turn].idx /\ op.epoch = disk[op.turn].epoch)
  BY <1>1 DEF Recorded
<1>3. Reach \in Nat /\ Reach' = Reach /\ Good(log, Reach) /\ Len(log) \in Nat /\ op.bound \in Nat
      /\ op.turn \in Nat
  BY <1>1, ReachTyped DEF Reach, Logs, Target
<1>4. CASE op' = Idle /\ UNCHANGED <<log, epoch, epochs>>
  <2>1. op'.pc = "idle"
    BY <1>4 DEF Idle
  <2> QED BY <1>1, <1>4, <2>1, CommandLog
<1>5. CASE /\ op.known /\ op.bound <= Len(log) /\ Cut(op.bound, op.epoch)
           /\ op' = [op EXCEPT !.pc = "forget"]
  <2>1. op'.pc = "forget" /\ op'.turn = op.turn
    BY <1>1, <1>5 DEF Target
  <2>2. log' = SubSeq(log, 1, op.bound) /\ Good(log', Reach)
    <3>1. 1 \in 1..Len(log) + 1 /\ op.bound \in 0..Len(log) /\ 1 <= op.bound + 1
      BY <1>3, <1>5
    <3>2. Good(SubSeq(log, 1, op.bound), Reach)
      BY <1>3, <3>1, GoodPart
    <3>3. log' = SubSeq(log, 1, op.bound)
      BY <1>5 DEF Cut, Rewrite
    <3> QED BY <3>2, <3>3
  <2>3. CASE op.epoch = epoch
    <3>1. UNCHANGED <<epoch, epochs>>
      BY <1>5, <2>3 DEF Cut
    <3>2. ASSUME NEW n \in DOMAIN disk, n < op.turn, disk[n].epoch = epoch
          PROVE  Splits(log', disk[n].idx, disk[n].serial)
      <4>1. Splits(log, disk[n].idx, disk[n].serial)
        BY <1>1, <3>2 DEF FreshSplit, Condemned, Doomed
      <4>2. Splits(log, op.bound, disk[op.turn].serial)
        BY <1>1, <1>2, <1>5, <2>3 DEF FreshSplit, Condemned, Doomed
      <4>3. disk[n].serial < disk[op.turn].serial
        BY <1>2, <3>2 DEF Serials
      <4>4. /\ disk[n].idx \in Nat /\ disk[n].serial \in Nat /\ disk[op.turn].serial \in Nat
        BY <1>2, MarkTyped
      <4>5. disk[n].idx <= op.bound
        BY <1>3, <4>1, <4>2, <4>3, <4>4, SplitsOrder
      <4> QED BY <1>3, <1>5, <2>2, <4>1, <4>4, <4>5, SplitsPrefix
    <3>3. FreshSplit'
      <4>1. Condemned' = {n \in DOMAIN disk : n >= op.turn}
        BY <1>1, <2>1 DEF Condemned
      <4>2. \A n \in DOMAIN disk \ Condemned' : n < op.turn
        BY <1>3, <4>1, MarkTyped
      <4> QED BY <1>1, <3>1, <3>2, <4>2 DEF FreshSplit
    <3>4. Logs' /\ EpochsGiven' /\ Serials'
      BY <1>1, <1>3, <2>1, <2>2, <3>1 DEF Logs, EpochsGiven, Serials, Running
    <3>5. Recorded' /\ SavedSplit'
      BY <1>1, <2>1 DEF Recorded, Bd, SavedSplit
    <3>6. SavedShorter' /\ StartIsLast'
      BY <1>1, <2>1 DEF SavedShorter, StartIsLast, Running
    <3> QED BY <3>3, <3>4, <3>5, <3>6
  <2>4. CASE op.epoch # epoch
    <3>1. epochs' = epochs + 1 /\ epoch' = epochs + 1
      BY <1>5, <2>4 DEF Cut, Rewrite
    <3> QED BY <1>1, <2>1, <2>2, <3>1, RewriteLog
  <2> QED BY <2>3, <2>4
<1> QED
  BY <1>1, <1>3, <1>4, <1>5 DEF CutLog

\* The boundaries, the checkpoints and the files of the turns cut off are removed.
LEMMA ForgetLog ==
  ASSUME Inv, ForgetTurns
  PROVE  LogInv'
<1> USE DEF Inv, StoreInv, LogInv
<1>1. /\ op.pc = "forget" /\ op \in Target /\ turnPC = "idle" /\ next' = op.turn
      /\ op' = [op EXCEPT !.pc = "drop"]
      /\ bound' = Restrict(bound, {n \in DOMAIN bound : n < op.turn})
      /\ UNCHANGED <<log, saved, turnPC, start, opening, disk, compact, serial, epoch, epochs>>
  BY DEF ForgetTurns, logVars, turnVars, storeVars, historyVars, Types, Rewinding, OneAtATime
<1>2. op'.pc = "drop" /\ op'.turn = op.turn
  BY <1>1 DEF Target
<1>3. DOMAIN bound' = {n \in DOMAIN bound : n < op.turn} /\ \A n \in DOMAIN bound' : bound'[n] = bound[n]
  BY <1>1 DEF Restrict
<1>4. Logs' /\ EpochsGiven' /\ Serials'
  BY <1>1, <1>2 DEF Logs, Reach, EpochsGiven, Serials, Running
<1>5. Recorded'
  BY <1>1, <1>2, <1>3 DEF Recorded, Bd
<1>6. FreshSplit'
  BY <1>1, <1>2 DEF FreshSplit, Condemned
<1>7. SavedSplit' /\ SavedShorter' /\ StartIsLast'
  BY <1>1, <1>2 DEF SavedSplit, SavedShorter, StartIsLast, Running
<1> QED
  BY <1>4, <1>5, <1>6, <1>7

LEMMA DropLog ==
  ASSUME Inv, DropCheckpoints
  PROVE  LogInv'
<1> USE DEF Inv, StoreInv, LogInv
<1> DEFINE gone == {c \in All : c.turn >= op.turn}
<1>1. /\ op.pc = "drop" /\ turnPC = "idle" /\ next = op.turn
      /\ op'.pc = "delete" /\ op'.turns = {c.turn : c \in gone}
      /\ UNCHANGED <<log, saved, turnPC, start, opening, next, bound, disk, compact, serial, epoch, epochs>>
  BY DEF DropCheckpoints, logVars, turnVars, managerVars, OneAtATime, Numbers
<1>2. op'.turns = {n \in DOMAIN disk : n >= op.turn}
  <2>1. /\ \A c \in All : c.turn \in DOMAIN disk /\ disk[c.turn] = c
        /\ \A n \in DOMAIN disk : disk[n] \in All /\ disk[n].turn = n
    BY <1>1, OnDisk DEF Types
  <2>2. \A n : n \in op'.turns <=> n \in DOMAIN disk /\ n >= op.turn
    BY <1>1, <2>1
  <2> QED BY <2>2
<1> HIDE DEF gone
<1>3. Logs' /\ EpochsGiven' /\ Serials'
  BY <1>1 DEF Logs, Reach, EpochsGiven, Serials, Running
<1>4. Recorded'
  BY <1>1, <1>2 DEF Recorded, Bd
<1>5. FreshSplit'
  BY <1>1, <1>2 DEF FreshSplit, Condemned, Doomed
<1>6. SavedSplit' /\ SavedShorter' /\ StartIsLast'
  BY <1>1 DEF SavedSplit, SavedShorter, StartIsLast, Running
<1> QED
  BY <1>3, <1>4, <1>5, <1>6

LEMMA DeleteLog ==
  ASSUME Inv, NEW n \in 0..MaxTurns, DeleteFile(n)
  PROVE  LogInv'
<1> USE DEF Inv, StoreInv, LogInv
<1>1. /\ op.pc = "delete" /\ turnPC = "idle" /\ n \in op.turns
      /\ op' = [op EXCEPT !.turns = op.turns \ {n}]
      /\ disk' = Restrict(disk, DOMAIN disk \ {n})
      /\ UNCHANGED <<log, saved, turnPC, start, opening, next, bound, compact, serial, epoch, epochs>>
  BY DEF DeleteFile, logVars, turnVars, managerVars, OneAtATime
<1>2. op'.pc = "delete" /\ op'.turns = op.turns \ {n}
  BY <1>1 DEF Types
<1>3. DOMAIN disk' = DOMAIN disk \ {n} /\ \A m \in DOMAIN disk' : disk'[m] = disk[m]
  BY <1>1 DEF Restrict
<1>4. Logs'
  BY <1>1, <1>2 DEF Logs, Reach
<1>5. EpochsGiven' /\ Serials'
  BY <1>1, <1>3 DEF EpochsGiven, Serials, Running
<1>6. Recorded'
  <2>1. \A m \in op.turns : m >= next
    BY <1>1 DEF Recorded
  <2>2. n \in Nat /\ next \in Nat /\ n >= next
    BY <1>1, <2>1 DEF Types
  <2>3. ASSUME NEW m \in DOMAIN bound PROVE m < next /\ m \in DOMAIN disk' /\ bound[m] = Bd(disk'[m])
    <3>1. m < next /\ m \in DOMAIN disk /\ bound[m] = Bd(disk[m]) /\ m \in Nat
      BY <1>1 DEF Recorded, Types
    <3>2. m # n
      BY <2>2, <3>1
    <3> QED BY <1>3, <3>1, <3>2
  <2> QED BY <1>1, <1>2, <2>1, <2>3 DEF Recorded, Bd
<1>7. FreshSplit'
  <2>1. \A m \in DOMAIN disk' \ op'.turns : m \in DOMAIN disk \ op.turns /\ disk'[m] = disk[m]
    BY <1>1, <1>2, <1>3
  <2> QED BY <1>1, <1>2, <2>1 DEF FreshSplit, Condemned, Doomed
<1>8. SavedSplit' /\ SavedShorter' /\ StartIsLast'
  BY <1>1, <1>2, <1>3 DEF SavedSplit, SavedShorter, StartIsLast, Running
<1> QED
  BY <1>4, <1>5, <1>6, <1>7, <1>8

LEMMA DeletedLog ==
  ASSUME Inv, DeleteDone
  PROVE  LogInv'
<1> USE DEF Inv, StoreInv, LogInv
<1>1. /\ op.pc = "delete" /\ op.turns = {} /\ op'.pc = "save"
      /\ UNCHANGED <<log, saved, turnPC, start, opening, next, bound, disk, compact, serial, epoch, epochs>>
  BY DEF DeleteDone, logVars, turnVars, managerVars, storeVars, historyVars
<1>2. Logs' /\ EpochsGiven' /\ Serials' /\ Recorded'
  BY <1>1 DEF Logs, Reach, EpochsGiven, Serials, Recorded, Bd, Running
<1>3. FreshSplit' /\ SavedSplit' /\ SavedShorter' /\ StartIsLast'
  BY <1>1 DEF FreshSplit, Condemned, Doomed, SavedSplit, SavedShorter, StartIsLast, Running
<1> QED
  BY <1>2, <1>3

LEMMA SaveOpLog ==
  ASSUME Inv, SaveOp
  PROVE  LogInv'
<1>1. /\ op.pc = "save" /\ op'.pc = "idle" /\ log' = log
      /\ UNCHANGED <<turnPC, start, opening, next, bound, disk, compact, serial>>
  BY DEF SaveOp, Idle, turnVars, managerVars, storeVars
<1>2. CASE log # <<>>
  <2>1. saved'.log = log /\ saved'.epoch = epoch /\ UNCHANGED <<epoch, epochs>>
    BY <1>2 DEF SaveOp, Saved
  <2> QED BY <1>1, <2>1, SaveLog
<1>3. CASE log = <<>>
  <2>1. saved' = saved /\ epochs' = epochs + 1 /\ epoch' = epochs + 1
    BY <1>3 DEF SaveOp, Rewrite
  <2>2. Good(log', Reach)
    BY <1>1 DEF Inv, LogInv, Logs
  <2> QED BY <1>1, <2>1, <2>2, RewriteLog
<1> QED
  BY <1>2, <1>3

\* A summary, "from here" or "up to here".
LEMMA SummarizeLog ==
  ASSUME Inv, NEW k \in DOMAIN bound, NEW from \in BOOLEAN, SummarizeBegin(k, from)
  PROVE  LogInv'
<1>1. /\ op.pc = "idle" /\ op'.pc = "summarize" /\ op'.base = log
      /\ UNCHANGED <<log, saved, turnPC, start, opening, next, bound, disk, compact, serial, epoch, epochs>>
  BY DEF SummarizeBegin, logVars, turnVars, managerVars, storeVars, historyVars
<1> QED
  BY <1>1, CommandLog

LEMMA SummarizedLog ==
  ASSUME Inv, SummarizeEnd
  PROVE  LogInv'
<1> USE DEF Inv, StoreInv, LogInv
<1>1. /\ op.pc = "summarize" /\ op'.pc = "save" /\ DOMAIN bound' = {} /\ turnPC = "idle"
      /\ op.bound \in Nat /\ op.from \in BOOLEAN
      /\ UNCHANGED <<saved, turnPC, start, opening, next, disk, compact, serial>>
  BY DEF SummarizeEnd, turnVars, storeVars, Types, OneAtATime
<1>2. CASE Summarizable(op.base, op.bound, op.from)
  <2>1. Rewrite(Summarized(op.base, op.bound, op.from))
    BY <1>2 DEF SummarizeEnd
  <2>2. Good(op.base, Reach) /\ Reach \in Nat
    BY <1>1, ReachTyped DEF Logs
  <2>3. Good(Summarized(op.base, op.bound, op.from), Reach)
    BY <1>1, <1>2, <2>2, GoodSummarized
  <2> QED BY <1>1, <2>1, <2>3, RewriteLog DEF Rewrite
<1>3. CASE ~Summarizable(op.base, op.bound, op.from)
  <2>1. UNCHANGED <<log, epoch, epochs>>
    BY <1>3 DEF SummarizeEnd
  <2>2. Logs' /\ EpochsGiven' /\ Serials' /\ Recorded'
    BY <1>1, <2>1 DEF Logs, Reach, EpochsGiven, Serials, Recorded, Running
  <2>3. FreshSplit' /\ SavedSplit' /\ SavedShorter' /\ StartIsLast'
    BY <1>1, <2>1 DEF FreshSplit, Condemned, Doomed, SavedSplit, SavedShorter, StartIsLast, Running
  <2> QED BY <2>2, <2>3
<1> QED
  BY <1>2, <1>3

\* The controller is rebuilt, or the process dies and a new one resumes.
LEMMA RebuildLog ==
  ASSUME Inv, Rebuild
  PROVE  LogInv'
<1> USE DEF Inv, StoreInv, LogInv
<1>1. /\ turnPC = "idle" /\ op.pc = "idle" /\ disk' = disk /\ Rebind
      /\ saved'.log = log /\ saved'.epoch = epoch
      /\ UNCHANGED <<log, turnPC, start, opening, op, compact, serial, epoch, epochs>>
  BY DEF Rebuild, Running, Saved, turnVars, historyVars
<1>2. /\ \A n \in DOMAIN disk : n < next'
      /\ DOMAIN bound' = DOMAIN disk
      /\ \A n \in DOMAIN disk : bound'[n] = Bd(disk[n])
  <2>1. serial \in Nat
        /\ \A n \in DOMAIN disk' : disk'[n] \in Point /\ disk'[n].turn = n /\ n \in Nat /\ n < serial
    BY <1>1 DEF Types, Numbers
  <2>2. Rebind
    BY <1>1
  <2>3. /\ \A n \in DOMAIN disk' : n < next'
        /\ DOMAIN bound' = DOMAIN disk'
        /\ \A n \in DOMAIN bound' : bound'[n] = Bd(disk'[n])
    BY <2>1, <2>2, RebindTyped
  <2> QED BY <1>1, <2>3
<1>3. Logs' /\ EpochsGiven' /\ Serials'
  BY <1>1 DEF Logs, Reach, EpochsGiven, Serials, Running
<1>4. Recorded'
  BY <1>1, <1>2 DEF Recorded, Bd
<1>5. FreshSplit' /\ SavedSplit'
  BY <1>1 DEF FreshSplit, SavedSplit, Condemned, Doomed
<1>6. SavedShorter' /\ StartIsLast'
  BY <1>1, ReachTyped DEF SavedShorter, StartIsLast, Running
<1> QED
  BY <1>3, <1>4, <1>5, <1>6

LEMMA CrashLog ==
  ASSUME Inv, CrashAndResume
  PROVE  LogInv'
<1> USE DEF Inv, StoreInv, LogInv
<1>1. /\ turnPC' = "idle" /\ op'.pc = "idle" /\ compact'.pc = "idle" /\ start'.epoch = 0 /\ Rebind
      /\ log' = saved.log /\ epoch' = saved.epoch /\ DOMAIN disk' = DOMAIN disk
      /\ \A n \in DOMAIN disk : disk'[n] = IF disk[n].epoch = saved.epoch /\ disk[n].idx > Len(saved.log)
                                         THEN [disk[n] EXCEPT !.epoch = Unknown] ELSE disk[n]
      /\ UNCHANGED <<saved, serial, epochs>>
  BY DEF CrashAndResume, TurnOver, NoStart, Unknown, Idle
<1>2. ASSUME NEW n \in DOMAIN disk
      PROVE  /\ disk'[n] \in Point /\ disk'[n].turn = n /\ n \in Nat /\ n < serial
             /\ disk'[n].idx = disk[n].idx /\ disk'[n].serial = disk[n].serial
             /\ disk'[n].epoch = (IF disk[n].epoch = saved.epoch /\ disk[n].idx > Len(saved.log)
                                  THEN 0 ELSE disk[n].epoch)
  <2>1. disk[n] \in Point /\ disk[n].turn = n /\ n \in Nat /\ n < serial
    BY MarkTyped DEF Numbers
  <2>2. LET d == [disk[n] EXCEPT !.epoch = Unknown] IN
        d \in Point /\ d.turn = n /\ d.idx = disk[n].idx /\ d.serial = disk[n].serial /\ d.epoch = 0
    BY <2>1 DEF Point, Unknown
  <2> QED BY <1>1, <2>1, <2>2
<1>3. /\ \A n \in DOMAIN disk' : n < next'
      /\ DOMAIN bound' = DOMAIN disk'
      /\ \A n \in DOMAIN bound' : bound'[n] = Bd(disk'[n])
  <2>1. serial \in Nat
        /\ \A n \in DOMAIN disk' : disk'[n] \in Point /\ disk'[n].turn = n /\ n \in Nat /\ n < serial
    BY <1>1, <1>2 DEF Types
  <2>2. Rebind
    BY <1>1
  <2> QED BY <2>1, <2>2, RebindTyped
<1>4. /\ Reach \in Nat /\ serial \in Nat /\ Reach <= serial /\ Reach' = serial
      /\ Good(saved.log, serial) /\ Len(saved.log) \in Nat
  <2>1. Reach \in Nat /\ serial \in Nat /\ Reach <= serial /\ Reach' = serial /\ Good(saved.log, Reach)
    BY <1>1, ReachTyped DEF Reach, Logs
  <2> QED BY <2>1, GoodLater, GoodTyped
<1>5. epochs \in Nat /\ saved.epoch \in 1..epochs
  BY DEF EpochsGiven, Types
<1>6. Logs'
  BY <1>1, <1>4 DEF Logs
<1>7. EpochsGiven'
  BY <1>1, <1>2, <1>5 DEF EpochsGiven
<1>8. Serials'
  BY <1>1, <1>2 DEF Serials, Running
<1>9. Recorded'
  BY <1>1, <1>3 DEF Recorded, Bd
<1>10. ASSUME NEW n \in DOMAIN disk, disk'[n].epoch = saved.epoch
       PROVE  Splits(saved.log, disk'[n].idx, disk'[n].serial)
  <2>1. disk[n].epoch = saved.epoch /\ ~(disk[n].idx > Len(saved.log)) /\ disk[n].idx \in Nat
    BY <1>2, <1>5, <1>10, MarkTyped
  <2>2. disk[n].idx <= Len(saved.log)
    BY <1>4, <2>1
  <2> QED BY <1>2, <2>1, <2>2 DEF SavedSplit
<1>11. FreshSplit' /\ SavedSplit'
  BY <1>1, <1>10 DEF FreshSplit, SavedSplit
<1>12. SavedShorter' /\ StartIsLast'
  BY <1>1, <1>4 DEF SavedShorter, StartIsLast, Running
<1> QED
  BY <1>6, <1>7, <1>8, <1>9, <1>11, <1>12

-----------------------------------------------------------------------------
(* The invariant, and what it says *)

LEMMA NextLog ==
  ASSUME Serialised = TRUE, Inv, [Next]_vars
  PROVE  LogInv'
<1>1. ASSUME NEW f \in Files, PreEdit(f) PROVE LogInv'
  <2>1. turnPC = "running" /\ op.pc = "idle"
        /\ UNCHANGED <<log, saved, turnPC, start, opening, next, bound, op, compact, serial, epoch, epochs>>
    BY <1>1 DEF PreEdit, logVars, managerVars, historyVars, Inv, StoreInv, OneAtATime
  <2>2. CASE \E c \in cur : f \notin DOMAIN c.snaps
    <3> DEFINE c == CHOOSE d \in cur : TRUE
    <3>1. c \in cur /\ c \in All /\ c \in Point
      BY <2>2 DEF All, Inv, StoreInv, Types
    <3>2. disk' = [n \in DOMAIN disk \cup {c.turn} |-> IF n = c.turn THEN Touched(c, f) ELSE disk[n]]
      BY <1>1, <2>2 DEF PreEdit, Touched
    <3>3. Touched(c, f).idx = c.idx /\ Touched(c, f).serial = c.serial /\ Touched(c, f).epoch = c.epoch
      BY <3>1, TouchedTyped DEF Inv, StoreInv
    <3> HIDE DEF c
    <3>4. c.turn \in DOMAIN disk /\ disk[c.turn] = c
      BY <2>1, <3>1, OnDisk DEF Inv
    <3>5. /\ DOMAIN disk' = DOMAIN disk
          /\ \A n \in DOMAIN disk : /\ disk'[n].idx = disk[n].idx /\ disk'[n].serial = disk[n].serial
                                    /\ disk'[n].epoch = disk[n].epoch
      BY <3>2, <3>3, <3>4
    <3> QED BY <2>1, <3>5, MarksKept DEF Inv
  <2>3. CASE ~(\E c \in cur : f \notin DOMAIN c.snaps)
    <3>1. disk' = disk
      BY <1>1, <2>3 DEF PreEdit
    <3> QED BY <2>1, <3>1, MarksKept DEF Inv
  <2> QED BY <2>2, <2>3
<1>2. ASSUME (\E f \in Files : SubagentWrite(f)) \/ WriteFile \/ UNCHANGED vars PROVE LogInv'
  <2>1. UNCHANGED <<log, saved, turnPC, start, opening, next, bound, disk, op, compact, serial, epoch, epochs>>
    BY <1>2 DEF SubagentWrite, WriteFile, vars, logVars, turnVars, managerVars, storeVars, historyVars
  <2> QED BY <2>1, MarksKept DEF Inv
<1>3. CASE AddPrompt
  <2>1. /\ Prompt(serial) \in Msg /\ Prompt(serial).first = serial /\ Prompt(serial).last = serial
    BY ReachTyped DEF Prompt, Msg
  <2>2. /\ turnPC = "prompting" /\ turnPC' = "running" /\ log' = Append(log, Prompt(serial))
        /\ UNCHANGED <<saved, start, opening, next, bound, disk, op, compact, serial, epoch, epochs>>
    BY <1>3 DEF AddPrompt, managerVars, storeVars
  <2> QED BY <2>1, <2>2, AppendLog
<1>4. CASE AddWork \/ ContinueGoal
  <2>1. /\ Work(serial) \in Msg /\ Work(serial).first = serial /\ Work(serial).last = serial
    BY ReachTyped DEF Work, Msg
  <2>2. /\ turnPC = "running" /\ turnPC' = "running" /\ log' = Append(log, Work(serial))
        /\ UNCHANGED <<opening, next, bound, disk, op, compact, serial, epoch, epochs>>
    BY <1>4 DEF AddWork, ContinueGoal, turnVars, managerVars, storeVars, historyVars
  <2>3. /\ saved' = saved \/ (saved'.log = log /\ saved'.epoch = epoch)
        /\ start' = start \/ start' = [len |-> Len(log), epoch |-> epoch]
    BY <1>4 DEF AddWork, ContinueGoal, turnVars, SaveIfGrown, Saved
  <2> QED BY <2>1, <2>2, <2>3, AppendLog
<1>5. CASE EndTurn
  <2>1. /\ turnPC = "running" /\ turnPC' = "idle" /\ start'.epoch = 0
        /\ UNCHANGED <<log, opening, next, bound, disk, op, compact, serial, epoch, epochs>>
    BY <1>5 DEF EndTurn, TurnOver, NoStart, Unknown, managerVars, storeVars, historyVars
  <2>2. op.pc = "idle"
    BY <2>1 DEF Inv, StoreInv, OneAtATime
  <2>3. CASE saved'.log = log /\ saved'.epoch = epoch
    BY <2>1, <2>2, <2>3, SaveLog
  <2>4. CASE saved' = saved
    <3> USE DEF Inv, LogInv
    <3>1. Logs' /\ EpochsGiven' /\ Serials' /\ Recorded'
      BY <2>1, <2>4, ReachTyped DEF Logs, Reach, EpochsGiven, Serials, Recorded, Bd, Running, StoreInv, Types
    <3>2. FreshSplit' /\ SavedSplit' /\ SavedShorter' /\ StartIsLast'
      BY <2>1, <2>4 DEF FreshSplit, Condemned, Doomed, SavedSplit, SavedShorter, StartIsLast, Running
    <3> QED BY <3>1, <3>2
  <2> QED BY <1>5, <2>3, <2>4 DEF EndTurn, SaveIfGrown, Saved
<1>6. CASE AutoSave
  <2>1. /\ turnPC = "running" /\ saved'.log = log /\ saved'.epoch = epoch
        /\ UNCHANGED <<log, turnPC, start, opening, next, bound, disk, op, compact, serial, epoch, epochs>>
    BY <1>6 DEF AutoSave, Saved, turnVars, managerVars, storeVars, historyVars
  <2>2. op.pc = "idle"
    BY <2>1 DEF Inv, StoreInv, OneAtATime
  <2> QED BY <2>1, <2>2, SaveLog
<1>7. CASE CompactSave
  <2>1. /\ op.pc = "idle" /\ saved'.log = log /\ saved'.epoch = epoch /\ compact'.pc # "summarizing"
        /\ UNCHANGED <<log, turnPC, start, opening, next, bound, disk, op, serial, epoch, epochs>>
    BY <1>7 DEF CompactSave, Saved, Idle, turnVars, managerVars, storeVars, historyVars
  <2> QED BY <2>1, SaveLog
<1> QED
  BY <1>1, <1>2, <1>3, <1>4, <1>5, <1>6, <1>7, StartLog, BeginLog, OpenLog, CancelLog, AutoCompactLog,
     CompactBeginLog, CompactLog, RewindLog, RestoreLog, CutLogLog, ForgetLog, DropLog, DeleteLog,
     DeletedLog, SaveOpLog, SummarizeLog, SummarizedLog, RebuildLog, CrashLog
  DEF Next, Turn, Compaction, Rewind, Summarize

\* With one command at a time, the invariant holds whatever the bounds: for any number
\* of turns, edits, folds, summaries, rewinds and crashes.
THEOREM CheckpointInvariant ==
  ASSUME Serialised = TRUE
  PROVE  Spec => []Inv
<1>1. Init => Inv
  BY InitStore, InitLog DEF Inv
<1>2. Inv /\ [Next]_vars => Inv'
  BY NextStore, NextLog, ReachTyped DEF Inv
<1> QED
  BY <1>1, <1>2, PTL DEF Spec

\* A turn number names one checkpoint, and the next turn gets a number no checkpoint
\* has: begin, truncateFrom, Store.TruncateFrom and rebind keep m.turn past the store.
THEOREM UniqueNumbers ==
  ASSUME Serialised = TRUE
  PROVE  Spec => []NumbersAreUnique
<1>1. Inv => NumbersAreUnique
  <2> SUFFICES ASSUME Inv PROVE NumbersAreUnique
    OBVIOUS
  <2>1. \A c \in All : c.turn \in Nat
    BY PointTyped DEF Inv, StoreInv, Types, All
  <2>2. \A c \in All, d \in All : c.turn = d.turn => c = d
    BY <2>1 DEF Inv, StoreInv, Distinct, All
  <2> QED BY <2>2 DEF Inv, StoreInv, Numbers, NumbersAreUnique
<1> QED
  BY <1>1, CheckpointInvariant, PTL

\* Between operations the checkpoint directory and the store agree: whatever was
\* written, truncated and deleted, a resume finds the checkpoints of the session.
THEOREM DirectoryIsStore ==
  ASSUME Serialised = TRUE
  PROVE  Spec => []DiskIsMemory
<1>1. Inv => DiskIsMemory
  BY DEF Inv, StoreInv, Mirrored, Doomed, DiskIsMemory
<1> QED
  BY <1>1, CheckpointInvariant, PTL

\* A boundary of the log's own epoch separates the messages of the turns before it
\* from those of its turn and later ones.
THEOREM FreshBoundaries ==
  ASSUME Serialised = TRUE
  PROVE  Spec => []FreshBoundaryIsExact
<1>1. Inv => FreshBoundaryIsExact
  <2> SUFFICES ASSUME Inv, op.pc # "forget", NEW n \in DOMAIN bound, bound[n].epoch = epoch
               PROVE  Exact(bound[n])
    BY DEF FreshBoundaryIsExact
  <2>1. Splits(log, bound[n].idx, bound[n].serial)
    <3>1. n < next /\ n \in Nat /\ next \in Nat
      BY DEF Inv, StoreInv, Types, LogInv, Recorded
    <3>2. CASE n \in DOMAIN disk /\ bound[n] = Bd(disk[n])
      <4>1. n \notin Condemned
        <5>1. op.pc = "drop" => ~(n >= op.turn)
          BY <3>1 DEF Inv, StoreInv, Numbers
        <5>2. op.pc = "delete" => n \notin op.turns
          BY <3>1 DEF Inv, LogInv, Recorded
        <5> QED BY <5>1, <5>2 DEF Condemned, Doomed
      <4>2. bound[n].idx = disk[n].idx /\ bound[n].serial = disk[n].serial /\ bound[n].epoch = disk[n].epoch
        BY <3>2 DEF Bd
      <4> QED BY <3>2, <4>1, <4>2 DEF Inv, LogInv, FreshSplit
    <3>3. CASE turnPC = "opening"
               /\ bound[n] = [idx |-> opening.idx, serial |-> serial, epoch |-> opening.epoch]
      <4>1. bound[n].idx = opening.idx /\ bound[n].serial = serial /\ bound[n].epoch = opening.epoch
        BY <3>3
      <4> QED BY <3>3, <4>1 DEF Inv, LogInv, FreshSplit
    <3> QED BY <3>2, <3>3 DEF Inv, LogInv, Recorded
  <2>2. DOMAIN log = 1..Len(log)
    BY ReachTyped
  <2> QED BY <2>1, <2>2 DEF Splits, Exact
<1> QED
  BY <1>1, CheckpointInvariant, PTL

-----------------------------------------------------------------------------
(* The user's messages *)

LEMMA PromptsGrow ==
  ASSUME NEW ms \in Seq(Msg), NEW m \in Msg
  PROVE  /\ Prompts(ms) \subseteq Prompts(Append(ms, m))
         /\ m.what = "prompt" => m.first \in Prompts(Append(ms, m))
<1>1. /\ Append(ms, m) \in Seq(Msg) /\ Len(ms) \in Nat
      /\ DOMAIN ms = 1..Len(ms) /\ DOMAIN Append(ms, m) = 1..Len(ms) + 1
      /\ \A i \in 1..Len(ms) : Append(ms, m)[i] = ms[i]
      /\ Append(ms, m)[Len(ms) + 1] = m
  BY AppendProperties
<1>2. DOMAIN ms \subseteq DOMAIN Append(ms, m) /\ Len(ms) + 1 \in DOMAIN Append(ms, m)
  BY <1>1
<1> QED
  BY <1>1, <1>2 DEF Prompts

\* Without /compact nothing replaces the log behind a command's back: a summary works
\* on the log it read.
Held ==
  /\ manuals \in Nat /\ compact.pc = "idle"
  /\ owed \subseteq Prompts(log)
  /\ op.pc = "summarize" => op.base = log

LEMMA NextHeld ==
  ASSUME Serialised = TRUE, MaxManual = 0, Inv, Held, [Next]_vars
  PROVE  Held'
<1> USE DEF Held
<1>1. log \in Seq(Msg) /\ Good(log, Reach) /\ Reach \in Nat /\ serial \in Nat
  BY ReachTyped DEF Inv, LogInv, Logs
<1>2. OneAtATime
  BY DEF Inv, StoreInv
<1>3. ASSUME UNCHANGED <<log, owed, op, compact, manuals>> PROVE Held'
  BY <1>3
<1>4. CASE StartTurn \/ Begin \/ OpenCheckpoint \/ EndTurn \/ AutoSave \/ WriteFile \/ UNCHANGED vars
  BY <1>3, <1>4 DEF StartTurn, Begin, OpenCheckpoint, EndTurn, AutoSave, WriteFile, vars, logVars, counterVars,
                    historyVars
<1>5. ASSUME NEW f \in Files, PreEdit(f) \/ SubagentWrite(f) PROVE Held'
  <2>1. UNCHANGED <<log, owed, op, compact, manuals>>
    BY <1>5 DEF PreEdit, SubagentWrite, logVars, counterVars, historyVars
  <2> QED BY <1>3, <2>1
<1>6. CASE AddPrompt
  <2>1. Prompt(serial) \in Msg /\ Prompt(serial).what = "prompt" /\ Prompt(serial).first = serial
    BY <1>1 DEF Prompt, Msg
  <2>2. /\ turnPC = "prompting" /\ log' = Append(log, Prompt(serial)) /\ owed' = owed \cup {serial}
        /\ UNCHANGED <<op, compact, manuals>>
    BY <1>6 DEF AddPrompt, counterVars
  <2>3. op.pc # "summarize"
    BY <1>2, <2>2 DEF OneAtATime
  <2> QED BY <1>1, <2>1, <2>2, <2>3, PromptsGrow
<1>7. CASE AddWork \/ ContinueGoal
  <2>1. Work(serial) \in Msg
    BY <1>1 DEF Work, Msg
  <2>2. /\ turnPC = "running" /\ log' = Append(log, Work(serial))
        /\ UNCHANGED <<owed, op, compact, manuals>>
    BY <1>7 DEF AddWork, ContinueGoal, counterVars, historyVars
  <2>3. op.pc # "summarize"
    BY <1>2, <2>2 DEF OneAtATime
  <2> QED BY <1>1, <2>1, <2>2, <2>3, PromptsGrow
<1>8. CASE CancelTurn
  <2>1. turnPC = "running" /\ UNCHANGED <<op, compact, manuals>>
    BY <1>8 DEF CancelTurn, counterVars
  <2>2. owed' \subseteq Prompts(log')
    BY <1>8 DEF CancelTurn
  <2>3. op.pc # "summarize"
    BY <1>2, <2>1 DEF OneAtATime
  <2> QED BY <2>1, <2>2, <2>3
<1>9. CASE AutoCompact
  <2>1. PICK s \in Foldable(log) : Rewrite(Compacted(log, s))
    BY <1>9 DEF AutoCompact
  <2>2. Prompts(log) \subseteq Prompts(log')
    BY <1>1, <2>1, GoodCompacted DEF Rewrite
  <2>3. turnPC = "running" /\ UNCHANGED <<owed, op, compact, manuals>>
    BY <1>9 DEF AutoCompact
  <2>4. op.pc # "summarize"
    BY <1>2, <2>3 DEF OneAtATime
  <2> QED BY <2>2, <2>3, <2>4
<1>10. CASE CompactBegin \/ CompactReplace \/ CompactSave
  BY <1>10 DEF CompactBegin, CompactReplace, CompactSave
<1>11. ASSUME NEW k \in {c.turn : c \in All}, NEW scope \in Scopes, RewindBegin(k, scope) PROVE Held'
  <2>1. op'.pc # "summarize" /\ UNCHANGED <<log, owed, compact, manuals>>
    BY <1>11 DEF RewindBegin, logVars, historyVars
  <2> QED BY <2>1
<1>12. CASE (\E f \in Files : RestoreFile(f)) \/ RestoreDone \/ ForgetTurns
  <2>1. op.pc \in {"restore", "forget"} /\ op \in Target
    BY <1>12 DEF RestoreFile, RestoreDone, ForgetTurns, Inv, StoreInv, Types, Rewinding
  <2>2. op'.pc # "summarize"
    <3>1. \A f \in Files : RestoreFile(f) => op'.pc = "restore"
      BY <2>1 DEF RestoreFile, Target
    <3>2. RestoreDone => op'.pc \in {"idle", "cut"}
      BY <2>1 DEF RestoreDone, Target, Idle
    <3>3. ForgetTurns => op'.pc = "drop"
      BY <2>1 DEF ForgetTurns, Target
    <3> QED BY <1>12, <3>1, <3>2, <3>3
  <2>3. UNCHANGED <<log, owed, compact, manuals>>
    BY <1>12 DEF RestoreFile, RestoreDone, ForgetTurns, logVars, counterVars, historyVars
  <2> QED BY <2>2, <2>3
<1>13. CASE CutLog
  <2>1. op \in Target
    BY <1>13 DEF CutLog, Inv, StoreInv, Types, Rewinding
  <2>2. op'.pc # "summarize"
    BY <1>13, <2>1 DEF CutLog, Target, Idle
  <2>3. owed' \subseteq Prompts(log') /\ UNCHANGED <<compact, manuals>>
    BY <1>13 DEF CutLog, counterVars
  <2> QED BY <2>2, <2>3
<1>14. CASE DropCheckpoints \/ (\E n \in 0..MaxTurns : DeleteFile(n)) \/ DeleteDone \/ SaveOp
  <2>1. op'.pc # "summarize"
    <3>1. \A n \in 0..MaxTurns : DeleteFile(n) => op'.pc = "delete"
      BY DEF DeleteFile, Inv, StoreInv, Types
    <3>2. DropCheckpoints \/ DeleteDone \/ SaveOp => op'.pc \in {"delete", "save", "idle"}
      BY DEF DropCheckpoints, DeleteDone, SaveOp, Idle
    <3> QED BY <1>14, <3>1, <3>2
  <2>2. UNCHANGED <<log, owed, compact, manuals>>
    BY <1>14 DEF DropCheckpoints, DeleteFile, DeleteDone, SaveOp, Rewrite, logVars, counterVars, historyVars
  <2> QED BY <2>1, <2>2
<1>15. ASSUME NEW k \in DOMAIN bound, NEW from \in BOOLEAN, SummarizeBegin(k, from) PROVE Held'
  <2>1. op'.base = log /\ UNCHANGED <<log, owed, compact, manuals>>
    BY <1>15 DEF SummarizeBegin, logVars, historyVars
  <2> QED BY <2>1
<1>16. CASE SummarizeEnd
  <2>1. op.base = log /\ op'.pc = "save" /\ UNCHANGED <<compact, manuals>>
    BY <1>16 DEF SummarizeEnd, counterVars
  <2>2. \/ owed' = owed \ (Prompts(op.base) \ Prompts(log'))
        \/ UNCHANGED <<log, owed>>
    BY <1>16 DEF SummarizeEnd
  <2> QED BY <2>1, <2>2
<1>17. CASE Rebuild
  <2>1. UNCHANGED <<log, owed, op, compact, manuals>>
    BY <1>17 DEF Rebuild, historyVars
  <2> QED BY <1>3, <2>1
<1>18. CASE CrashAndResume
  <2>1. owed' \subseteq Prompts(log') /\ op'.pc = "idle" /\ compact'.pc = "idle" /\ manuals' = manuals
    BY <1>18 DEF CrashAndResume, Idle
  <2> QED BY <2>1
<1> QED
  BY <1>4, <1>5, <1>6, <1>7, <1>8, <1>9, <1>10, <1>11, <1>12, <1>13, <1>14, <1>15, <1>16, <1>17, <1>18
  DEF Next, Turn, Compaction, Rewind, Summarize

\* Without /compact a user's message leaves the log only by a cancel, a rewind, a
\* summary or a crash: the fold of agent.compact keeps every prompt.  (With /compact,
\* which replaces the log by what it read, it does not hold.)
THEOREM PromptsStay ==
  ASSUME Serialised = TRUE, MaxManual = 0
  PROVE  Spec => []NoPromptLost
<1>1. Init => Inv /\ Held
  <2>1. Init => Held
    BY DEF Init, Idle, Held
  <2> QED BY <2>1, InitStore, InitLog DEF Inv
<1>2. Inv /\ Held /\ [Next]_vars => Inv' /\ Held'
  BY NextStore, NextLog, NextHeld, ReachTyped DEF Inv
<1>3. Held => NoPromptLost
  BY DEF Held, NoPromptLost
<1> QED
  BY <1>1, <1>2, <1>3, PTL DEF Spec

-----------------------------------------------------------------------------
(* What a code rewind brings back *)

\* d is the first checkpoint of cps, from turn k on, that holds file f.
Earliest(cps, k, f, d) ==
  /\ d \in cps /\ d.turn >= k /\ f \in DOMAIN d.snaps
  /\ \A e \in cps : e.turn >= k /\ f \in DOMAIN e.snaps => d.turn <= e.turn

\* From checkpoints cps, a code rewind to turn k leaves file f, all files, as in want.
BringsFile(cps, k, f, want) ==
  /\ \A d \in cps : Earliest(cps, k, f, d) => d.snaps[f] = want[f]
  /\ (\A d \in cps : d.turn >= k => f \notin DOMAIN d.snaps) => files[f] = want[f]

Brings(cps, k, want) == \A f \in Files : BringsFile(cps, k, f, want)

OnFile == {disk[n] : n \in DOMAIN disk}

\* Contents are numbers of edits; a snapshot is taken before the last edit there is room for.
Edited ==
  /\ \A f \in Files : files[f] <= edits
  /\ \A c \in All \cup OnFile : \A f \in DOMAIN c.snaps : c.snaps[f] <= edits /\ c.snaps[f] <= MaxEdits
  /\ op.pc = "restore" => \A f \in DOMAIN op.plan : op.plan[f] <= edits

\* A turn that runs has its checkpoint open, with the file its tool is about to write.
Recording ==
  /\ turnPC \in {"prompting", "running"} => cur # {}
  /\ writing # None => /\ turnPC = "running" /\ writing \in Files
                       /\ \E c \in cur : writing \in DOMAIN c.snaps

\* Rewinding to a checkpoint brings back the files it was opened on, unless tainted; so
\* it would after a crash.
StoreExact == \A c \in All : c.turn \notin tainted => Brings(All, c.turn, c.at)
DiskExact == op.pc = "delete" =>
               \A n \in DOMAIN disk : n \notin tainted => Brings(OnFile, n, disk[n].at)

\* A rewind under way has yet to write the files of its plan, which some checkpoint
\* holds, and is done with the others.
Restoring ==
  op.pc = "restore" =>
    /\ \A f \in DOMAIN op.plan : \E d \in All : d.turn >= op.turn /\ f \in DOMAIN d.snaps
    /\ op.turn \notin tainted =>
         \A f \in Files : IF f \in DOMAIN op.plan THEN op.plan[f] = op.want[f]
                          ELSE files[f] = op.want[f]

FilesInv == Edited /\ Recording /\ StoreExact /\ DiskExact /\ Restoring

LEMMA EarliestExists ==
  ASSUME NEW cps, \A c \in cps : c.turn \in Nat, NEW k, NEW f,
         NEW d \in cps, d.turn >= k, f \in DOMAIN d.snaps
  PROVE  \E e : Earliest(cps, k, f, e)
<1> DEFINE T == {c.turn : c \in {e \in cps : e.turn >= k /\ f \in DOMAIN e.snaps}}
<1>1. T \in SUBSET Nat /\ d.turn \in T
  OBVIOUS
<1>2. PICK t \in T : \A u \in T : t <= u
  BY <1>1, HasLeast
<1>3. PICK e \in cps : e.turn >= k /\ f \in DOMAIN e.snaps /\ e.turn = t
  BY <1>2
<1>4. \A c \in cps : c.turn >= k /\ f \in DOMAIN c.snaps => e.turn <= c.turn
  BY <1>2, <1>3
<1> QED
  BY <1>3, <1>4 DEF Earliest

\* What RestoreCode plans for a file is its first snapshot.
LEMMA PlanIs ==
  ASSUME NEW cps, NEW k, NEW p \in RestorePlans(cps, k)
  PROVE  /\ \A f : f \in DOMAIN p <=> \E d \in cps : d.turn >= k /\ f \in DOMAIN d.snaps
         /\ \A f \in DOMAIN p : \E c \in cps : Earliest(cps, k, f, c) /\ p[f] = c.snaps[f]
<1> DEFINE late == {c \in cps : c.turn >= k}
           touched == UNION {DOMAIN c.snaps : c \in late}
           firsts(f) == {c \in late : /\ f \in DOMAIN c.snaps
                                      /\ \A d \in late : f \in DOMAIN d.snaps => c.turn <= d.turn}
<1>1. /\ p \in [touched -> 0..MaxEdits]
      /\ \A f \in touched : \E c \in firsts(f) : p[f] = c.snaps[f]
  BY DEF RestorePlans
<1>2. DOMAIN p = touched
  BY <1>1
<1>3. \A f : f \in touched <=> \E d \in cps : d.turn >= k /\ f \in DOMAIN d.snaps
  OBVIOUS
<1>4. ASSUME NEW f \in touched PROVE \E c \in cps : Earliest(cps, k, f, c) /\ p[f] = c.snaps[f]
  <2>1. PICK c \in firsts(f) : p[f] = c.snaps[f]
    BY <1>1
  <2>2. c \in cps /\ Earliest(cps, k, f, c)
    BY <2>1 DEF Earliest
  <2> QED BY <2>1, <2>2
<1> HIDE DEF touched
<1> QED
  BY <1>2, <1>3, <1>4

LEMMA PlanExists ==
  ASSUME NEW cps \in SUBSET Point, NEW k,
         \A c \in cps : \A f \in DOMAIN c.snaps : c.snaps[f] <= MaxEdits
  PROVE  \E p : p \in RestorePlans(cps, k)
<1> DEFINE late == {c \in cps : c.turn >= k}
           touched == UNION {DOMAIN c.snaps : c \in late}
           firsts(f) == {c \in late : /\ f \in DOMAIN c.snaps
                                      /\ \A d \in late : f \in DOMAIN d.snaps => c.turn <= d.turn}
           first(f) == CHOOSE c : Earliest(cps, k, f, c)
           p == [f \in touched |-> first(f).snaps[f]]
<1>1. ASSUME NEW f \in touched
      PROVE  first(f) \in firsts(f) /\ first(f).snaps[f] \in 0..MaxEdits
  <2>1. PICK d \in cps : d.turn >= k /\ f \in DOMAIN d.snaps
    OBVIOUS
  <2>2. \A c \in cps : c.turn \in Nat
    BY PointTyped
  <2>3. Earliest(cps, k, f, first(f))
    BY <2>1, <2>2, EarliestExists
  <2>4. first(f) \in cps /\ f \in DOMAIN first(f).snaps /\ first(f) \in firsts(f)
    BY <2>3 DEF Earliest
  <2>5. first(f).snaps[f] \in Nat /\ first(f).snaps[f] <= MaxEdits
    BY <2>4, PointTyped, SnapsTyped
  <2> QED BY <2>4, <2>5, BoundsAssumption
<1> HIDE DEF first
<1>2. p \in [touched -> 0..MaxEdits] /\ \A f \in touched : \E c \in firsts(f) : p[f] = c.snaps[f]
  BY <1>1
<1>3. p \in RestorePlans(cps, k)
  BY <1>2 DEF RestorePlans
<1> QED
  BY <1>3

\* Outcome computes what a rewind brings.
LEMMA OutcomeIs ==
  ASSUME NEW cps \in SUBSET Point, NEW k, NEW want \in [Files -> Nat],
         \A c \in cps, d \in cps : c.turn = d.turn => c = d,
         \A c \in cps : \A f \in DOMAIN c.snaps : c.snaps[f] <= MaxEdits
  PROVE  Brings(cps, k, want) <=> Outcome(cps, k) = want
<1> DEFINE p == CHOOSE q \in RestorePlans(cps, k) : TRUE
<1>1. p \in RestorePlans(cps, k)
  BY PlanExists
<1>2. Outcome(cps, k) = [f \in Files |-> IF f \in DOMAIN p THEN p[f] ELSE files[f]]
  BY DEF Outcome
<1> HIDE DEF p
<1>3. /\ \A f : f \in DOMAIN p <=> \E d \in cps : d.turn >= k /\ f \in DOMAIN d.snaps
      /\ \A f \in DOMAIN p : \E c \in cps : Earliest(cps, k, f, c) /\ p[f] = c.snaps[f]
  BY <1>1, PlanIs
<1>4. ASSUME Brings(cps, k, want) PROVE Outcome(cps, k) = want
  <2>1. ASSUME NEW f \in Files PROVE (IF f \in DOMAIN p THEN p[f] ELSE files[f]) = want[f]
    BY <1>3, <1>4 DEF Brings, BringsFile
  <2> QED BY <1>2, <2>1
<1>5. ASSUME Outcome(cps, k) = want PROVE Brings(cps, k, want)
  <2> SUFFICES ASSUME NEW f \in Files
               PROVE  /\ \A d \in cps : Earliest(cps, k, f, d) => d.snaps[f] = want[f]
                      /\ (\A d \in cps : d.turn >= k => f \notin DOMAIN d.snaps) => files[f] = want[f]
    BY DEF Brings, BringsFile
  <2>1. want[f] = IF f \in DOMAIN p THEN p[f] ELSE files[f]
    BY <1>2, <1>5
  <2>2. ASSUME NEW d \in cps, Earliest(cps, k, f, d) PROVE d.snaps[f] = want[f]
    <3>1. f \in DOMAIN p
      BY <1>3, <2>2 DEF Earliest
    <3>2. PICK c \in cps : Earliest(cps, k, f, c) /\ p[f] = c.snaps[f]
      BY <1>3, <3>1
    <3>3. c.turn <= d.turn /\ d.turn <= c.turn /\ c.turn \in Nat /\ d.turn \in Nat
      BY <2>2, <3>2, PointTyped DEF Earliest
    <3>4. c = d
      BY <3>3
    <3> QED BY <2>1, <3>1, <3>2, <3>4
  <2>3. ASSUME \A d \in cps : d.turn >= k => f \notin DOMAIN d.snaps PROVE files[f] = want[f]
    <3>1. f \notin DOMAIN p
      BY <1>3, <2>3
    <3> QED BY <2>1, <3>1
  <2> QED BY <2>2, <2>3
<1> QED
  BY <1>4, <1>5

\* A loss that does not taint a turn leaves what a rewind to it brings.
LEMMA LossHarmless ==
  ASSUME NEW cps \in SUBSET Point, NEW gone, NEW c \in cps \ gone, c.turn \notin Tainted(cps, gone),
         \A d \in cps, e \in cps : d.turn = e.turn => d = e,
         \A d \in cps : \A f \in DOMAIN d.snaps : d.snaps[f] <= MaxEdits,
         Brings(cps, c.turn, c.at)
  PROVE  Brings(cps \ gone, c.turn, c.at)
<1>1. c.at \in [Files -> Nat]
  BY PointTyped
<1>2. Outcome(cps, c.turn) = Outcome(cps \ gone, c.turn)
  BY DEF Tainted
<1>3. Outcome(cps, c.turn) = c.at
  BY <1>1, OutcomeIs
<1>4. cps \ gone \in SUBSET Point
      /\ (\A d \in cps \ gone, e \in cps \ gone : d.turn = e.turn => d = e)
      /\ (\A d \in cps \ gone : \A f \in DOMAIN d.snaps : d.snaps[f] <= MaxEdits)
  OBVIOUS
<1> QED
  BY <1>1, <1>2, <1>3, <1>4, OutcomeIs

LEMMA InitFiles == Init => FilesInv
<1> SUFFICES ASSUME Init PROVE FilesInv
  OBVIOUS
<1>1. /\ DOMAIN disk = {} /\ All = {} /\ OnFile = {} /\ op.pc = "idle" /\ turnPC = "idle"
      /\ writing = None /\ edits = 0 /\ \A f \in Files : files[f] = 0
  BY DEF Init, Idle, All, OnFile
<1> QED
  BY <1>1 DEF FilesInv, Edited, Recording, StoreExact, DiskExact, Restoring

\* What the proofs below use of the store's invariant.
LEMMA StoreFacts ==
  ASSUME StoreInv
  PROVE  /\ All \in SUBSET Point /\ OnFile \in SUBSET Point
         /\ \A c \in All \cup OnFile : c.turn \in Nat
         /\ \A c \in All, d \in All : c.turn = d.turn => c = d
         /\ \A c \in OnFile, d \in OnFile : c.turn = d.turn => c = d
         /\ \A c \in cur, d \in All : d.turn <= c.turn
         /\ op.pc # "delete" => OnFile = All
         /\ files \in [Files -> Nat] /\ edits \in Nat
<1>1. All \in SUBSET Point /\ OnFile \in SUBSET Point
  BY DEF StoreInv, Types, All, OnFile
<1>2. \A c \in All \cup OnFile : c.turn \in Nat
  BY <1>1, PointTyped
<1>3. \A c \in All, d \in All : c.turn = d.turn => c = d
  BY <1>2 DEF StoreInv, Distinct, All
<1>4. \A c \in cur, d \in All : d.turn <= c.turn
  BY <1>2 DEF StoreInv, Distinct, All
<1>5. op.pc # "delete" => OnFile = All
  BY DEF StoreInv, Mirrored, Doomed, OnFile
<1>6. \A c \in OnFile, d \in OnFile : c.turn = d.turn => c = d
  BY DEF StoreInv, Types, OnFile
<1> QED
  BY <1>1, <1>2, <1>3, <1>4, <1>5, <1>6 DEF StoreInv, Types

LEMMA EditedFacts ==
  ASSUME StoreInv, Edited
  PROVE  /\ \A c \in All : \A f \in DOMAIN c.snaps : c.snaps[f] <= MaxEdits
         /\ \A c \in OnFile : \A f \in DOMAIN c.snaps : c.snaps[f] <= MaxEdits
BY DEF Edited

\* Steps that change neither files nor checkpoints.
LEMMA FilesKept ==
  ASSUME FilesInv, UNCHANGED <<files, done, cur, disk, edits, tainted>>, Recording',
         op'.pc \notin {"restore", "delete"} \/ op' = op
  PROVE  FilesInv'
<1>1. UNCHANGED All /\ UNCHANGED OnFile
  BY DEF All, OnFile
<1>3. StoreExact'
  BY <1>1 DEF StoreExact, FilesInv, Brings, BringsFile, Earliest
<1>4. Edited'
  BY <1>1 DEF Edited, FilesInv
<1>5. DiskExact'
  <2>1. CASE op' = op
    BY <1>1, <2>1 DEF DiskExact, FilesInv, Brings, BringsFile, Earliest
  <2>2. CASE op'.pc \notin {"restore", "delete"}
    BY <2>2 DEF DiskExact
  <2> QED BY <2>1, <2>2
<1>6. Restoring'
  BY <1>1 DEF Restoring, FilesInv
<1> QED
  BY <1>3, <1>4, <1>5, <1>6 DEF FilesInv

LEMMA OpenFiles ==
  ASSUME StoreInv, FilesInv, OpenCheckpoint
  PROVE  FilesInv'
<1>1. /\ turnPC = "opening" /\ turnPC' = "prompting"
      /\ done' = All /\ cur' = {Opened}
      /\ disk' = [m \in DOMAIN disk \cup {opening.turn} |-> IF m = opening.turn THEN Opened ELSE disk[m]]
      /\ UNCHANGED <<writing, files, op, edits, tainted>>
  BY DEF OpenCheckpoint, Opened, counterVars, historyVars
<1>2. op.pc = "idle"
  BY <1>1 DEF StoreInv, OneAtATime
<1>3. /\ Opened.turn = opening.turn /\ Opened.snaps = <<>> /\ Opened.at = files
      /\ opening.turn \in Nat /\ DOMAIN Opened.snaps = {}
  BY <1>1 DEF Opened, StoreInv, Types
<1>4. All' = All \cup {Opened} /\ OnFile' \subseteq OnFile \cup {Opened}
  BY <1>1 DEF All, OnFile
<1>5. \A c \in All : c.turn \in Nat /\ c.turn < Opened.turn
  BY <1>1, <1>3, StoreFacts DEF StoreInv, Numbers
<1>6. Edited'
  <2>1. \A c \in All' \cup OnFile' : c \in All \cup OnFile \/ c = Opened
    BY <1>4
  <2> QED BY <1>1, <1>2, <1>3, <2>1 DEF FilesInv, Edited
<1>7. Recording'
  BY <1>1 DEF FilesInv, Recording
<1>8. StoreExact'
  <2>1. ASSUME NEW c \in All, c.turn \notin tainted, NEW f \in Files
        PROVE  /\ \A d \in All' : Earliest(All', c.turn, f, d) => d.snaps[f] = c.at[f]
               /\ (\A d \in All' : d.turn >= c.turn => f \notin DOMAIN d.snaps) => files[f] = c.at[f]
    <3>1. Brings(All, c.turn, c.at)
      BY <2>1 DEF FilesInv, StoreExact
    <3>2. ASSUME NEW d \in All', Earliest(All', c.turn, f, d)
          PROVE  d \in All /\ Earliest(All, c.turn, f, d)
      BY <1>3, <1>4, <3>2 DEF Earliest
    <3> QED BY <1>4, <3>1, <3>2 DEF Brings, BringsFile
  <2>2. ASSUME NEW f \in Files
        PROVE  \A d \in All' : ~Earliest(All', Opened.turn, f, d)
    <3> SUFFICES ASSUME NEW d \in All', Earliest(All', Opened.turn, f, d) PROVE FALSE
      OBVIOUS
    <3>1. d.turn >= Opened.turn /\ f \in DOMAIN d.snaps
      BY DEF Earliest
    <3>2. d = Opened
      BY <1>3, <1>4, <1>5, <3>1
    <3> QED BY <1>3, <3>1, <3>2
  <2>3. ASSUME NEW c \in All', c.turn \notin tainted PROVE Brings(All, c.turn, c.at)'
    <3>1. CASE c \in All
      BY <1>1, <2>1, <2>3, <3>1 DEF Brings, BringsFile, Earliest
    <3>2. CASE c = Opened
      BY <1>1, <1>3, <2>2, <3>2 DEF Brings, BringsFile, Earliest
    <3> QED BY <1>4, <2>3, <3>1, <3>2
  <2> QED BY <1>1, <2>3 DEF StoreExact
<1>9. DiskExact' /\ Restoring'
  BY <1>1, <1>2 DEF DiskExact, Restoring
<1> QED
  BY <1>6, <1>7, <1>8, <1>9 DEF FilesInv

\* The first touch of a file in a turn: what the rewinds bring stays the same.
LEMMA TouchBrings ==
  ASSUME NEW c, NEW new, NEW rest, NEW f, NEW k, NEW want, NEW g \in Files,
         new.turn = c.turn, f \notin DOMAIN c.snaps, DOMAIN new.snaps = DOMAIN c.snaps \cup {f},
         new.snaps[f] = files[f], \A h \in DOMAIN c.snaps : new.snaps[h] = c.snaps[h],
         c.turn \in Nat, \A d \in rest : d.turn \in Nat /\ d.turn < c.turn,
         BringsFile(rest \cup {c}, k, g, want)
  PROVE  BringsFile(rest \cup {new}, k, g, want)
<1> USE DEF BringsFile
<1>1. ASSUME NEW d \in rest, Earliest(rest \cup {new}, k, g, d) PROVE d.snaps[g] = want[g]
  <2>1. Earliest(rest \cup {c}, k, g, d)
    BY <1>1 DEF Earliest
  <2> QED BY <2>1
<1>2. ASSUME Earliest(rest \cup {new}, k, g, new) PROVE new.snaps[g] = want[g]
  <2>1. new.turn >= k /\ g \in DOMAIN new.snaps
        /\ \A e \in rest : e.turn >= k /\ g \in DOMAIN e.snaps => new.turn <= e.turn
    BY <1>2 DEF Earliest
  <2>2. \A e \in rest : e.turn >= k => g \notin DOMAIN e.snaps
    BY <2>1
  <2>3. CASE g = f
    <3>1. files[g] = want[g]
      BY <2>2, <2>3
    <3> QED BY <2>3, <3>1
  <2>4. CASE g # f
    <3>1. g \in DOMAIN c.snaps /\ c.turn >= k /\ c.turn <= c.turn
      BY <2>1, <2>4
    <3>2. Earliest(rest \cup {c}, k, g, c)
      BY <2>2, <3>1 DEF Earliest
    <3> QED BY <3>1, <3>2
  <2> QED BY <2>3, <2>4
<1>3. ASSUME \A d \in rest \cup {new} : d.turn >= k => g \notin DOMAIN d.snaps
      PROVE  files[g] = want[g]
  <2>1. \A d \in rest \cup {c} : d.turn >= k => g \notin DOMAIN d.snaps
    BY <1>3
  <2> QED BY <2>1
<1> QED
  BY <1>1, <1>2, <1>3

LEMMA TouchedSnaps ==
  ASSUME NEW c \in Point, NEW f
  PROVE  /\ Touched(c, f).at = c.at /\ Touched(c, f).turn = c.turn
         /\ DOMAIN Touched(c, f).snaps = DOMAIN c.snaps \cup {f}
         /\ Touched(c, f).snaps[f] = files[f]
         /\ f \notin DOMAIN c.snaps => \A h \in DOMAIN c.snaps : Touched(c, f).snaps[h] = c.snaps[h]
BY DEF Touched, Point

LEMMA PreEditFiles ==
  ASSUME StoreInv, FilesInv, NEW f \in Files, PreEdit(f)
  PROVE  FilesInv'
<1>1. /\ turnPC = "running" /\ edits < MaxEdits /\ writing' = f /\ op.pc = "idle"
      /\ UNCHANGED <<turnPC, done, files, op, edits, tainted>>
  BY DEF PreEdit, StoreInv, OneAtATime, counterVars, historyVars
<1>2. cur # {}
  BY <1>1 DEF FilesInv, Recording
<1>3. CASE \A c \in cur : f \in DOMAIN c.snaps
  <2>1. UNCHANGED <<cur, disk>>
    BY <1>3 DEF PreEdit
  <2>2. Recording'
    BY <1>1, <1>2, <1>3, <2>1 DEF Recording
  <2> QED BY <1>1, <2>1, <2>2, FilesKept
<1>4. CASE \E c \in cur : f \notin DOMAIN c.snaps
  <2>1. PICK c \in cur : /\ cur' = {Touched(c, f)}
                         /\ disk' = [n \in DOMAIN disk \cup {c.turn} |->
                                       IF n = c.turn THEN Touched(c, f) ELSE disk[n]]
    <3> DEFINE c == CHOOSE d \in cur : TRUE
    <3>1. c \in cur
      BY <1>2
    <3>2. /\ cur' = {Touched(c, f)}
          /\ disk' = [n \in DOMAIN disk \cup {c.turn} |-> IF n = c.turn THEN Touched(c, f) ELSE disk[n]]
      BY <1>4 DEF PreEdit, Touched
    <3> HIDE DEF c
    <3> QED BY <3>1, <3>2
  <2>2. PICK new : new = Touched(c, f)
    OBVIOUS
  <2>3. /\ cur = {c} /\ c \in Point /\ c.turn \in Nat /\ f \notin DOMAIN c.snaps
        /\ \A d \in done : d.turn \in Nat /\ d.turn < c.turn
    BY <1>4, <2>1, PointTyped DEF StoreInv, Distinct, Types
  <2>4. /\ new.turn = c.turn /\ new.at = c.at
        /\ DOMAIN new.snaps = DOMAIN c.snaps \cup {f}
        /\ new.snaps[f] = files[f] /\ \A h \in DOMAIN c.snaps : new.snaps[h] = c.snaps[h]
    BY <2>2, <2>3, TouchedSnaps
  <2>5. All = done \cup {c} /\ All' = done \cup {new} /\ OnFile' \subseteq OnFile \cup {new}
    BY <1>1, <2>1, <2>2, <2>3 DEF All, OnFile
  <2>6. Edited'
    <3>1. files[f] <= edits /\ files[f] <= MaxEdits
      BY <1>1, BoundsAssumption DEF FilesInv, Edited, StoreInv, Types
    <3>2. \A h \in DOMAIN new.snaps : new.snaps[h] <= edits /\ new.snaps[h] <= MaxEdits
      BY <2>4, <2>5, <3>1 DEF FilesInv, Edited
    <3>3. \A d \in All' \cup OnFile' : d \in All \cup OnFile \/ d = new
      BY <2>5
    <3> QED BY <1>1, <3>2, <3>3 DEF FilesInv, Edited
  <2>7. Recording'
    BY <1>1, <2>1, <2>2, <2>4 DEF Recording
  <2>8. ASSUME NEW b \in All, b.turn \notin tainted, NEW g \in Files
        PROVE  BringsFile(All', b.turn, g, b.at)
    <3>1. Brings(All, b.turn, b.at)
      BY <2>8 DEF FilesInv, StoreExact
    <3>2. BringsFile(done \cup {c}, b.turn, g, b.at)
      BY <2>5, <3>1 DEF Brings
    <3>3. BringsFile(done \cup {new}, b.turn, g, b.at)
      BY <2>3, <2>4, <3>2, TouchBrings
    <3> QED BY <2>5, <3>3
  <2>9. StoreExact'
    <3>1. ASSUME NEW d \in All', d.turn \notin tainted PROVE Brings(All, d.turn, d.at)'
      <4>1. PICK b \in All : b.turn = d.turn /\ b.at = d.at
        BY <2>4, <2>5
      <4> QED BY <1>1, <2>8, <3>1, <4>1 DEF Brings, BringsFile, Earliest
    <3> QED BY <1>1, <3>1 DEF StoreExact
  <2>10. DiskExact' /\ Restoring'
    BY <1>1 DEF DiskExact, Restoring
  <2> QED BY <2>6, <2>7, <2>9, <2>10 DEF FilesInv
<1> QED
  BY <1>3, <1>4

\* A writer tool writes a file that the open checkpoint, the last, holds.
LEMMA WriteFiles ==
  ASSUME StoreInv, FilesInv, WriteFile
  PROVE  FilesInv'
<1>1. /\ writing # None /\ writing' = None
      /\ edits' = edits + 1 /\ files' = [files EXCEPT ![writing] = edits + 1]
      /\ UNCHANGED <<turnPC, done, cur, disk, op, tainted>>
  BY DEF WriteFile, storeVars, historyVars
<1>2. turnPC = "running" /\ writing \in Files
  BY <1>1 DEF FilesInv, Recording
<1>3. PICK c \in cur : writing \in DOMAIN c.snaps
  BY <1>1 DEF FilesInv, Recording
<1>4. op.pc = "idle" /\ cur # {}
  BY <1>2, <1>3 DEF StoreInv, OneAtATime
<1>5. UNCHANGED All /\ UNCHANGED OnFile /\ c \in All /\ edits \in Nat
      /\ files \in [Files -> Nat] /\ All \in SUBSET Point /\ OnFile \in SUBSET Point
  BY <1>1, StoreFacts DEF All, OnFile
<1>6. Edited'
  <2>1. \A d \in All \cup OnFile : \A f \in DOMAIN d.snaps : d.snaps[f] \in Nat
    BY <1>5, PointTyped, SnapsTyped
  <2>2. \A d \in All' \cup OnFile' : \A f \in DOMAIN d.snaps : d.snaps[f] <= edits' /\ d.snaps[f] <= MaxEdits
    BY <1>1, <1>5, <2>1 DEF FilesInv, Edited
  <2>3. \A f \in Files : files'[f] <= edits'
    BY <1>1, <1>5 DEF FilesInv, Edited
  <2> QED BY <1>1, <1>4, <2>2, <2>3 DEF Edited
<1>7. Recording'
  BY <1>1, <1>4 DEF Recording
<1>8. StoreExact'
  <2>1. ASSUME NEW b \in All, b.turn \notin tainted, NEW f \in Files,
               \A d \in All : d.turn >= b.turn => f \notin DOMAIN d.snaps
        PROVE  files'[f] = b.at[f]
    <3>1. c.turn >= b.turn
      BY <1>5, PointTyped, StoreFacts
    <3>2. f # writing
      BY <1>3, <1>5, <2>1, <3>1
    <3>3. files[f] = b.at[f]
      BY <2>1 DEF FilesInv, StoreExact, Brings, BringsFile
    <3> QED BY <1>1, <1>5, <3>2, <3>3
  <2>2. ASSUME NEW b \in All, b.turn \notin tainted, NEW f \in Files, NEW d \in All,
               Earliest(All, b.turn, f, d)
        PROVE  d.snaps[f] = b.at[f]
    BY <2>2 DEF FilesInv, StoreExact, Brings, BringsFile
  <2> QED BY <1>1, <1>5, <2>1, <2>2 DEF StoreExact, Brings, BringsFile, Earliest
<1>9. DiskExact' /\ Restoring'
  BY <1>1, <1>4 DEF DiskExact, Restoring
<1> QED
  BY <1>6, <1>7, <1>8, <1>9 DEF FilesInv

LEMMA SubagentFiles ==
  ASSUME StoreInv, FilesInv, NEW f \in Files, SubagentWrite(f)
  PROVE  FilesInv'
<1>1. /\ turnPC = "running" /\ op.pc = "idle"
      /\ edits' = edits + 1 /\ files' = [files EXCEPT ![f] = edits + 1]
      /\ tainted' = tainted \cup {c.turn : c \in All}
      /\ UNCHANGED <<turnPC, writing, done, cur, disk, op>>
  BY DEF SubagentWrite, StoreInv, OneAtATime, turnVars, storeVars
<1>2. UNCHANGED All /\ UNCHANGED OnFile /\ edits \in Nat
      /\ files \in [Files -> Nat] /\ All \in SUBSET Point /\ OnFile \in SUBSET Point
  BY <1>1, StoreFacts DEF All, OnFile
<1>3. Edited'
  <2>1. \A d \in All \cup OnFile : \A g \in DOMAIN d.snaps : d.snaps[g] \in Nat
    BY <1>2, PointTyped, SnapsTyped
  <2>2. \A d \in All' \cup OnFile' : \A g \in DOMAIN d.snaps : d.snaps[g] <= edits' /\ d.snaps[g] <= MaxEdits
    BY <1>1, <1>2, <2>1 DEF FilesInv, Edited
  <2>3. \A g \in Files : files'[g] <= edits'
    BY <1>1, <1>2 DEF FilesInv, Edited
  <2> QED BY <1>1, <2>2, <2>3 DEF Edited
<1>4. Recording'
  BY <1>1 DEF FilesInv, Recording
<1>5. StoreExact'
  BY <1>1, <1>2 DEF StoreExact
<1>6. DiskExact' /\ Restoring'
  BY <1>1 DEF DiskExact, Restoring
<1> QED
  BY <1>3, <1>4, <1>5, <1>6 DEF FilesInv

\* The plan of a rewind is what the target turn began with.
LEMMA RewindFiles ==
  ASSUME StoreInv, FilesInv, NEW k \in {c.turn : c \in All}, NEW scope \in Scopes, RewindBegin(k, scope)
  PROVE  FilesInv'
<1>1. turnPC = "idle" /\ UNCHANGED <<files, done, cur, disk, edits, tainted, turnPC, writing>>
  BY DEF RewindBegin, Running, turnVars, storeVars, historyVars
<1>2. Recording'
  BY <1>1 DEF FilesInv, Recording
<1>3. CASE scope = "conversation"
  <2>1. op'.pc = "cut"
    BY <1>3 DEF RewindBegin
  <2> QED BY <1>1, <1>2, <2>1, FilesKept
<1>4. CASE scope # "conversation"
  <2>1. PICK p \in RestorePlans(All, k) :
           op'.pc = "restore" /\ op'.turn = k /\ op'.plan = p /\ op'.want = (CHOOSE c \in All : c.turn = k).at
    BY <1>4 DEF RewindBegin
  <2>2. PICK c \in All : c.turn = k /\ op'.want = c.at
    <3> DEFINE c == CHOOSE d \in All : d.turn = k
    <3>1. c \in All /\ c.turn = k
      OBVIOUS
    <3> HIDE DEF c
    <3>2. op'.want = c.at
      BY <2>1 DEF c
    <3> QED BY <3>1, <3>2
  <2>3. UNCHANGED All /\ UNCHANGED OnFile
    BY <1>1 DEF All, OnFile
  <2>4. /\ \A f : f \in DOMAIN p <=> \E d \in All : d.turn >= k /\ f \in DOMAIN d.snaps
        /\ \A f \in DOMAIN p : \E d \in All : Earliest(All, k, f, d) /\ p[f] = d.snaps[f]
    BY <2>1, PlanIs
  <2>5. Edited'
    <3>1. \A f \in DOMAIN p : p[f] <= edits
      BY <2>4 DEF FilesInv, Edited, Earliest
    <3> QED BY <1>1, <2>1, <2>3, <3>1 DEF FilesInv, Edited
  <2>6. StoreExact'
    BY <1>1, <2>3 DEF FilesInv, StoreExact, Brings, BringsFile, Earliest
  <2>7. Restoring'
    <3>1. ASSUME k \notin tainted, NEW f \in Files
          PROVE  IF f \in DOMAIN p THEN p[f] = c.at[f] ELSE files[f] = c.at[f]
      <4>1. BringsFile(All, k, f, c.at)
        BY <2>2, <3>1 DEF FilesInv, StoreExact, Brings
      <4>2. CASE f \in DOMAIN p
        BY <2>4, <4>1, <4>2 DEF BringsFile
      <4>3. CASE f \notin DOMAIN p
        BY <2>4, <4>1, <4>3 DEF BringsFile
      <4> QED BY <4>2, <4>3
    <3>2. \A f \in DOMAIN p : \E d \in All : d.turn >= k /\ f \in DOMAIN d.snaps
      BY <2>4
    <3> QED BY <1>1, <2>1, <2>2, <2>3, <3>1, <3>2 DEF Restoring
  <2>8. DiskExact'
    BY <2>1 DEF DiskExact
  <2> QED BY <1>2, <2>5, <2>6, <2>7, <2>8 DEF FilesInv
<1> QED
  BY <1>3, <1>4

LEMMA RestrictIs ==
  ASSUME NEW g, NEW S
  PROVE  DOMAIN Restrict(g, S) = S /\ \A x \in S : Restrict(g, S)[x] = g[x]
BY DEF Restrict

\* The file written back is held by the target turn or a later one: what the turns up
\* to the target bring stays the same.
LEMMA RestoreFiles ==
  ASSUME StoreInv, FilesInv, NEW f \in Files, RestoreFile(f)
  PROVE  FilesInv'
<1>1. /\ op.pc = "restore" /\ f \in DOMAIN op.plan
      /\ files' = [files EXCEPT ![f] = op.plan[f]]
      /\ op' = [op EXCEPT !.plan = Restrict(@, DOMAIN @ \ {f})]
      /\ tainted' = tainted \cup {c.turn : c \in {d \in All : d.turn > op.turn}}
      /\ UNCHANGED <<turnPC, writing, done, cur, disk, edits>>
  BY DEF RestoreFile, turnVars, storeVars, counterVars
<1>2. op \in Target /\ turnPC = "idle"
  BY <1>1 DEF StoreInv, OneAtATime, Types, Rewinding
<1>3. PICK rest : /\ rest = op'.plan /\ DOMAIN rest = DOMAIN op.plan \ {f}
                  /\ \A g \in DOMAIN rest : rest[g] = op.plan[g]
  <2>1. op'.plan = Restrict(op.plan, DOMAIN op.plan \ {f})
    BY <1>1, <1>2 DEF Target
  <2> QED BY <2>1, RestrictIs
<1>4. op'.pc = "restore" /\ op'.turn = op.turn /\ op'.want = op.want
  BY <1>1, <1>2 DEF Target
<1>5. /\ UNCHANGED All /\ UNCHANGED OnFile
      /\ files \in [Files -> Nat] /\ op.turn \in Nat /\ \A c \in All : c.turn \in Nat
  BY <1>1, <1>2, StoreFacts DEF All, OnFile, Target
<1>6. PICK d \in All : d.turn >= op.turn /\ f \in DOMAIN d.snaps
  BY <1>1 DEF FilesInv, Restoring
<1>7. files'[f] = op.plan[f] /\ \A g \in Files : g # f => files'[g] = files[g]
  BY <1>1, <1>5
<1>8. Edited'
  <2>1. op.plan[f] <= edits /\ \A g \in DOMAIN rest : rest[g] <= edits
    BY <1>1, <1>3 DEF FilesInv, Edited
  <2>2. \A g \in Files : files'[g] <= edits
    BY <1>7, <2>1 DEF FilesInv, Edited
  <2> QED BY <1>1, <1>3, <1>5, <2>1, <2>2 DEF FilesInv, Edited
<1>9. Recording'
  BY <1>1, <1>2 DEF FilesInv, Recording
<1>10. StoreExact'
  <2>1. ASSUME NEW c \in All, c.turn \notin tainted', NEW g \in Files
        PROVE  BringsFile(All, c.turn, g, c.at)'
    <3>1. c.turn \notin tainted /\ c.turn <= op.turn
      BY <1>1, <1>5, <2>1
    <3>2. BringsFile(All, c.turn, g, c.at)
      BY <3>1 DEF FilesInv, StoreExact, Brings
    <3>3. CASE g = f
      <4>1. d.turn >= c.turn
        BY <1>5, <1>6, <3>1
      <4> QED BY <1>5, <1>6, <3>2, <3>3, <4>1 DEF BringsFile, Earliest
    <3>4. CASE g # f
      BY <1>5, <1>7, <3>2, <3>4 DEF BringsFile, Earliest
    <3> QED BY <3>3, <3>4
  <2> QED BY <1>5, <2>1 DEF StoreExact, Brings
<1>11. Restoring'
  <2>1. \A g \in DOMAIN rest : \E e \in All : e.turn >= op.turn /\ g \in DOMAIN e.snaps
    BY <1>1, <1>3 DEF FilesInv, Restoring
  <2>2. ASSUME op.turn \notin tainted', NEW g \in Files
        PROVE  IF g \in DOMAIN rest THEN rest[g] = op.want[g] ELSE files'[g] = op.want[g]
    <3>1. IF g \in DOMAIN op.plan THEN op.plan[g] = op.want[g] ELSE files[g] = op.want[g]
      BY <1>1, <2>2 DEF FilesInv, Restoring
    <3> QED BY <1>1, <1>3, <1>7, <3>1
  <2> QED BY <1>3, <1>4, <1>5, <2>1, <2>2 DEF Restoring
<1>12. DiskExact'
  BY <1>4 DEF DiskExact
<1> QED
  BY <1>8, <1>9, <1>10, <1>11, <1>12 DEF FilesInv

\* Before the first file is removed the directory brings what the store did; the store
\* lost only what taints.
LEMMA DropFiles ==
  ASSUME StoreInv, FilesInv, DropCheckpoints
  PROVE  FilesInv'
<1> DEFINE gone == {c \in All : c.turn >= op.turn}
<1>1. /\ op.pc = "drop" /\ op'.pc = "delete"
      /\ done' = done \ gone /\ cur' = cur \ gone
      /\ tainted' = tainted \cup Tainted(All, gone)
      /\ UNCHANGED <<turnPC, writing, disk, files, edits>>
  BY DEF DropCheckpoints, turnVars, counterVars
<1>2. turnPC = "idle"
  BY <1>1 DEF StoreInv, OneAtATime
<1>3. All' = All \ gone /\ OnFile' = OnFile /\ OnFile = All
  BY <1>1, StoreFacts DEF All, OnFile
<1>4. Edited'
  BY <1>1, <1>3 DEF FilesInv, Edited
<1>5. Recording'
  BY <1>1, <1>2 DEF FilesInv, Recording
<1>6. StoreExact'
  <2>1. ASSUME NEW c \in All \ gone, c.turn \notin tainted' PROVE Brings(All \ gone, c.turn, c.at)
    <3>1. Brings(All, c.turn, c.at) /\ c.turn \notin Tainted(All, gone)
      BY <1>1, <2>1 DEF FilesInv, StoreExact
    <3> HIDE DEF gone
    <3> QED BY <3>1, StoreFacts, EditedFacts, LossHarmless DEF FilesInv
  <2> HIDE DEF gone
  <2> QED BY <1>1, <1>3, <2>1 DEF StoreExact, Brings, BringsFile, Earliest
<1>7. DiskExact'
  <2>1. ASSUME NEW n \in DOMAIN disk, n \notin tainted' PROVE Brings(OnFile, n, disk[n].at)
    <3>1. disk[n] \in All /\ disk[n].turn = n /\ n \notin tainted
      BY <1>1, <1>3, <2>1 DEF OnFile, StoreInv, Types
    <3> QED BY <1>3, <3>1 DEF FilesInv, StoreExact
  <2> QED BY <1>1, <1>3, <2>1 DEF DiskExact, Brings, BringsFile, Earliest
<1>8. Restoring'
  BY <1>1 DEF Restoring
<1> QED
  BY <1>4, <1>5, <1>6, <1>7, <1>8 DEF FilesInv

\* The file removed is of no turn in the store.
LEMMA DeleteFiles ==
  ASSUME Inv, FilesInv, NEW n \in Nat, DeleteFile(n)
  PROVE  FilesInv'
<1> USE DEF Inv
<1> DEFINE gone == {disk[m] : m \in DOMAIN disk \cap {n}}
<1>1. /\ op.pc = "delete" /\ n \in op.turns
      /\ disk' = Restrict(disk, DOMAIN disk \ {n})
      /\ tainted' = (tainted \ {n}) \cup Tainted(OnFile, gone)
      /\ UNCHANGED <<turnPC, writing, done, cur, files, edits>>
  BY DEF DeleteFile, OnFile, turnVars, counterVars
<1>2. op'.pc = "delete" /\ turnPC = "idle"
  BY <1>1 DEF DeleteFile, StoreInv, OneAtATime, Types
<1>3. DOMAIN disk' = DOMAIN disk \ {n} /\ \A m \in DOMAIN disk \ {n} : disk'[m] = disk[m]
  BY <1>1, RestrictIs
<1>4. All' = All /\ OnFile' = OnFile \ gone
  <2>1. All' = All
    BY <1>1 DEF All
  <2>2. \A m \in DOMAIN disk : disk[m].turn = m
    BY DEF StoreInv, Types
  <2>3. OnFile' = {disk[m] : m \in DOMAIN disk \ {n}}
    BY <1>3 DEF OnFile
  <2>4. {disk[m] : m \in DOMAIN disk \ {n}} = OnFile \ gone
    BY <2>2 DEF OnFile
  <2> QED BY <2>1, <2>3, <2>4
<1>5. \A c \in All : c.turn # n
  <2>1. n >= next
    BY <1>1 DEF LogInv, Recorded
  <2>2. \A c \in All : c.turn < next /\ c.turn \in Nat
    BY <1>1, StoreFacts DEF StoreInv, Numbers
  <2> QED BY <2>1, <2>2 DEF StoreInv, Types
<1>6. Edited'
  <2>1. \A c \in All' \cup OnFile' : c \in All \cup OnFile
    BY <1>4
  <2> QED BY <1>1, <1>2, <2>1 DEF FilesInv, Edited
<1>7. Recording'
  BY <1>1, <1>2 DEF FilesInv, Recording
<1>8. StoreExact'
  <2>1. \A c \in All : c.turn \notin tainted' => c.turn \notin tainted
    BY <1>1, <1>5
  <2> QED BY <1>1, <1>4, <2>1 DEF FilesInv, StoreExact, Brings, BringsFile, Earliest
<1>9. DiskExact'
  <2>1. ASSUME NEW m \in DOMAIN disk \ {n}, m \notin tainted' PROVE Brings(OnFile \ gone, m, disk[m].at)
    <3>1. Brings(OnFile, m, disk[m].at) /\ m \notin Tainted(OnFile, gone)
      BY <1>1, <2>1 DEF FilesInv, DiskExact
    <3>2. disk[m] \in OnFile \ gone /\ disk[m].turn = m
      BY DEF StoreInv, Types, OnFile
    <3>3. PICK c \in OnFile \ gone : c = disk[m] /\ c.turn = m
      BY <3>2
    <3> HIDE DEF gone
    <3>4. Brings(OnFile, c.turn, c.at) /\ c.turn \notin Tainted(OnFile, gone)
      BY <3>1, <3>3
    <3>5. Brings(OnFile \ gone, c.turn, c.at)
      BY <3>4, StoreFacts, EditedFacts, LossHarmless DEF FilesInv
    <3> QED BY <3>3, <3>5
  <2> HIDE DEF gone
  <2>2. ASSUME NEW m \in DOMAIN disk', m \notin tainted' PROVE Brings(OnFile', m, disk'[m].at)
    BY <1>3, <1>4, <2>1, <2>2
  <2>3. ASSUME NEW m \in DOMAIN disk', m \notin tainted', NEW f \in Files
        PROVE  BringsFile(OnFile, m, f, disk[m].at)'
    BY <1>1, <2>2, <2>3 DEF Brings, BringsFile, Earliest
  <2> QED BY <2>3 DEF DiskExact, Brings
<1>10. Restoring'
  BY <1>2 DEF Restoring
<1> QED
  BY <1>6, <1>7, <1>8, <1>9, <1>10 DEF FilesInv

\* A resume reads the checkpoints that are on file.
LEMMA ResumeFiles ==
  ASSUME StoreInv, FilesInv, Rebind, UNCHANGED <<files, edits, tainted>>,
         turnPC' = "idle", writing' = None, op'.pc = "idle",
         DOMAIN disk' = DOMAIN disk,
         \A n \in DOMAIN disk : /\ disk'[n].turn = n /\ disk'[n].snaps = disk[n].snaps
                                /\ disk'[n].at = disk[n].at
  PROVE  FilesInv'
<1>1. done' = OnFile' /\ cur' = {} /\ All' = OnFile' /\ OnFile' = {disk'[n] : n \in DOMAIN disk}
  BY DEF Rebind, All, OnFile
<1>2. ASSUME NEW n \in DOMAIN disk, n \notin tainted PROVE Brings(OnFile, n, disk[n].at)
  <2>1. CASE op.pc = "delete"
    BY <1>2, <2>1 DEF FilesInv, DiskExact
  <2>2. CASE op.pc # "delete"
    <3>1. OnFile = All
      BY <2>2, StoreFacts
    <3>2. disk[n] \in All /\ disk[n].turn = n
      BY <3>1 DEF OnFile, StoreInv, Types
    <3> QED BY <1>2, <3>1, <3>2 DEF FilesInv, StoreExact
  <2> QED BY <2>1, <2>2
<1>3. \A n \in DOMAIN disk : disk[n].turn = n
  BY DEF StoreInv, Types
<1>4. Edited'
  <2>1. \A n \in DOMAIN disk : \A f \in DOMAIN disk'[n].snaps :
           disk'[n].snaps[f] <= edits /\ disk'[n].snaps[f] <= MaxEdits
    BY DEF FilesInv, Edited, OnFile
  <2> QED BY <1>1, <2>1 DEF FilesInv, Edited
<1>5. Recording'
  BY DEF Recording
<1>6. StoreExact'
  <2>1. ASSUME NEW n \in DOMAIN disk, n \notin tainted, NEW f \in Files
        PROVE  BringsFile(OnFile', n, f, disk[n].at)
    <3>1. BringsFile(OnFile, n, f, disk[n].at)
      BY <1>2, <2>1 DEF Brings
    <3>2. ASSUME NEW d \in OnFile', Earliest(OnFile', n, f, d) PROVE d.snaps[f] = disk[n].at[f]
      <4>1. PICK m \in DOMAIN disk : d = disk'[m]
        BY <1>1
      <4>2. Earliest(OnFile, n, f, disk[m])
        <5>1. disk[m] \in OnFile /\ disk[m].turn >= n /\ f \in DOMAIN disk[m].snaps
          BY <1>3, <3>2, <4>1 DEF Earliest, OnFile
        <5>2. ASSUME NEW j \in DOMAIN disk, disk[j].turn >= n, f \in DOMAIN disk[j].snaps
              PROVE  disk[m].turn <= disk[j].turn
          <6>1. disk'[j] \in OnFile' /\ disk'[j].turn >= n /\ f \in DOMAIN disk'[j].snaps
            BY <1>1, <1>3, <5>2
          <6>2. d.turn <= disk'[j].turn
            BY <3>2, <6>1 DEF Earliest
          <6> QED BY <1>3, <4>1, <6>2
        <5> QED BY <5>1, <5>2 DEF Earliest, OnFile
      <4>3. disk[m].snaps[f] = disk[n].at[f]
        BY <3>1, <4>2 DEF BringsFile, OnFile
      <4> QED BY <4>1, <4>3
    <3>3. ASSUME \A d \in OnFile' : d.turn >= n => f \notin DOMAIN d.snaps
          PROVE  files[f] = disk[n].at[f]
      <4>1. ASSUME NEW d \in OnFile, d.turn >= n PROVE f \notin DOMAIN d.snaps
        <5>1. PICK m \in DOMAIN disk : d = disk[m]
          BY DEF OnFile
        <5>2. disk'[m] \in OnFile' /\ disk'[m].turn >= n
          BY <1>1, <1>3, <4>1, <5>1
        <5> QED BY <3>3, <5>1, <5>2
      <4> QED BY <3>1, <4>1 DEF BringsFile
    <3> QED BY <3>2, <3>3 DEF BringsFile
  <2>2. ASSUME NEW c \in OnFile', c.turn \notin tainted, NEW f \in Files
        PROVE  BringsFile(OnFile', c.turn, f, c.at)
    <3>1. PICK n \in DOMAIN disk : c = disk'[n]
      BY <1>1
    <3>2. c.turn = n /\ c.at = disk[n].at
      BY <3>1
    <3> QED BY <2>1, <2>2, <3>2
  <2> QED BY <1>1, <2>2 DEF StoreExact, Brings, BringsFile, Earliest
<1>7. DiskExact' /\ Restoring'
  BY DEF DiskExact, Restoring
<1> QED
  BY <1>4, <1>5, <1>6, <1>7 DEF FilesInv

LEMMA NextFiles ==
  ASSUME Serialised = TRUE, Inv, FilesInv, [Next]_vars
  PROVE  FilesInv'
<1> USE DEF Inv
<1>1. /\ op.pc # "idle" => turnPC = "idle"
      /\ turnPC \in {"idle", "starting", "opening", "prompting", "running"}
      /\ op.pc \in Rewinding => op \in Target
  BY DEF StoreInv, OneAtATime, Types
<1>2. CASE StartTurn \/ Begin
  <2>1. /\ turnPC \in {"idle", "starting"} /\ op.pc = "idle" /\ turnPC' \in {"starting", "opening"}
        /\ UNCHANGED <<files, done, cur, disk, edits, tainted, writing, op>>
    BY <1>1, <1>2 DEF StartTurn, Begin, Running, storeVars, counterVars, historyVars
  <2>2. Recording'
    BY <2>1 DEF FilesInv, Recording
  <2> QED BY <2>1, <2>2, FilesKept
<1>3. CASE AddPrompt \/ AddWork \/ AutoSave \/ AutoCompact
  <2>1. /\ turnPC \in {"prompting", "running"} /\ turnPC' = "running"
        /\ UNCHANGED <<files, done, cur, disk, edits, tainted, writing, op>>
    BY <1>3 DEF AddPrompt, AddWork, AutoSave, AutoCompact, turnVars, storeVars, counterVars, historyVars
  <2>2. Recording'
    BY <2>1 DEF FilesInv, Recording
  <2> QED BY <2>1, <2>2, FilesKept
<1>4. CASE EndTurn \/ ContinueGoal \/ CancelTurn
  <2>1. /\ turnPC = "running" /\ turnPC' \in {"idle", "running"} /\ writing = None
        /\ UNCHANGED <<files, done, cur, disk, edits, tainted, writing, op>>
    BY <1>4 DEF EndTurn, ContinueGoal, CancelTurn, TurnOver, storeVars, counterVars, historyVars
  <2>2. Recording'
    BY <2>1 DEF FilesInv, Recording
  <2> QED BY <2>1, <2>2, FilesKept
<1>5. CASE CompactBegin \/ CompactReplace \/ CompactSave \/ UNCHANGED vars
  <2>1. UNCHANGED <<files, done, cur, disk, edits, tainted, turnPC, writing, op>>
    BY <1>5 DEF CompactBegin, CompactReplace, CompactSave, vars, turnVars, storeVars, counterVars, historyVars
  <2>2. Recording'
    BY <2>1 DEF FilesInv, Recording
  <2> QED BY <2>1, <2>2, FilesKept
<1>6. CASE RestoreDone \/ CutLog \/ ForgetTurns \/ DeleteDone \/ SaveOp \/ SummarizeEnd
  <2>1. /\ turnPC = "idle"
        /\ UNCHANGED <<files, done, cur, disk, edits, tainted, turnPC, writing>>
    BY <1>1, <1>6 DEF RestoreDone, CutLog, ForgetTurns, DeleteDone, SaveOp, SummarizeEnd, turnVars,
                      storeVars, counterVars, historyVars
  <2>2. op'.pc \notin {"restore", "delete"}
    <3>1. RestoreDone => op'.pc \in {"idle", "cut"}
      BY <1>1 DEF RestoreDone, Target, Idle, Rewinding
    <3>2. CutLog => op'.pc \in {"idle", "forget"}
      BY <1>1 DEF CutLog, Target, Idle, Rewinding
    <3>3. ForgetTurns => op'.pc = "drop"
      BY <1>1 DEF ForgetTurns, Target, Rewinding
    <3>4. DeleteDone \/ SaveOp \/ SummarizeEnd => op'.pc \in {"save", "idle"}
      BY DEF DeleteDone, SaveOp, SummarizeEnd, Idle
    <3> QED BY <1>6, <3>1, <3>2, <3>3, <3>4
  <2>3. Recording'
    BY <2>1 DEF FilesInv, Recording
  <2> QED BY <2>1, <2>2, <2>3, FilesKept
<1>7. ASSUME NEW k \in DOMAIN bound, NEW from \in BOOLEAN, SummarizeBegin(k, from) PROVE FilesInv'
  <2>1. /\ turnPC = "idle" /\ op'.pc = "summarize"
        /\ UNCHANGED <<files, done, cur, disk, edits, tainted, turnPC, writing>>
    BY <1>7 DEF SummarizeBegin, Running, turnVars, storeVars, historyVars
  <2>2. Recording'
    BY <2>1 DEF FilesInv, Recording
  <2> QED BY <2>1, <2>2, FilesKept
<1>8. CASE Rebuild
  <2>1. /\ turnPC' = "idle" /\ op'.pc = "idle" /\ disk' = disk /\ Rebind
        /\ turnPC = "idle" /\ UNCHANGED <<files, edits, tainted, writing>>
    BY <1>8 DEF Rebuild, Running, turnVars, historyVars
  <2>2. writing' = None
    BY <2>1 DEF FilesInv, Recording
  <2>3. \A n \in DOMAIN disk : disk'[n].turn = n /\ disk'[n].snaps = disk[n].snaps /\ disk'[n].at = disk[n].at
    BY <2>1 DEF StoreInv, Types
  <2> QED BY <2>1, <2>2, <2>3, ResumeFiles
<1>9. CASE CrashAndResume
  <2>1. /\ turnPC' = "idle" /\ op'.pc = "idle" /\ writing' = None /\ Rebind
        /\ UNCHANGED <<files, edits, tainted>>
        /\ disk' = [n \in DOMAIN disk |->
                      IF disk[n].epoch = saved.epoch /\ disk[n].idx > Len(saved.log)
                      THEN [disk[n] EXCEPT !.epoch = Unknown] ELSE disk[n]]
    BY <1>9 DEF CrashAndResume, TurnOver, Idle
  <2>2. \A c \in Point : /\ [c EXCEPT !.epoch = Unknown].turn = c.turn
                         /\ [c EXCEPT !.epoch = Unknown].snaps = c.snaps
                         /\ [c EXCEPT !.epoch = Unknown].at = c.at
    BY DEF Point
  <2>3. \A n \in DOMAIN disk : disk[n] \in Point /\ disk[n].turn = n
    BY DEF StoreInv, Types
  <2>4. \A n \in DOMAIN disk : disk'[n].turn = n /\ disk'[n].snaps = disk[n].snaps /\ disk'[n].at = disk[n].at
    BY <2>1, <2>2, <2>3
  <2> QED BY <2>1, <2>4, ResumeFiles
<1>10. ASSUME NEW f \in Files, PreEdit(f) \/ SubagentWrite(f) \/ RestoreFile(f) PROVE FilesInv'
  BY <1>10, PreEditFiles, SubagentFiles, RestoreFiles
<1>11. CASE OpenCheckpoint \/ WriteFile \/ DropCheckpoints
  BY <1>11, OpenFiles, WriteFiles, DropFiles
<1>12. ASSUME NEW k \in {c.turn : c \in All}, NEW scope \in Scopes, RewindBegin(k, scope) PROVE FilesInv'
  BY <1>12, RewindFiles
<1>13. ASSUME NEW n \in 0..MaxTurns, DeleteFile(n) PROVE FilesInv'
  BY <1>13, DeleteFiles
<1> QED
  BY <1>2, <1>3, <1>4, <1>5, <1>6, <1>7, <1>8, <1>9, <1>10, <1>11, <1>12, <1>13
  DEF Next, Turn, Compaction, Rewind, Summarize

\* RestoreCode, over what Snapshot kept and what truncations and crashes left, puts
\* every file back to what the target turn began with, unless a sub-agent's write, a
\* later code rewind or a lost checkpoint left the turn without what it needs.
THEOREM RewindExact ==
  ASSUME Serialised = TRUE
  PROVE  Spec => []RestoreIsExact
<1>1. Init => Inv /\ FilesInv
  BY InitStore, InitLog, InitFiles DEF Inv
<1>2. Inv /\ FilesInv /\ [Next]_vars => Inv' /\ FilesInv'
  BY NextStore, NextLog, NextFiles, ReachTyped DEF Inv
<1>3. Inv /\ FilesInv => RestoreIsExact
  <2> SUFFICES ASSUME Inv, FilesInv, op.pc = "restore", DOMAIN op.plan = {}, op.turn \notin tainted
               PROVE  files = op.want
    BY DEF RestoreIsExact
  <2>1. files \in [Files -> Nat] /\ op.want \in [Files -> Nat]
    BY DEF Inv, StoreInv, Types, Rewinding, Target
  <2>2. \A f \in Files : files[f] = op.want[f]
    BY DEF FilesInv, Restoring
  <2> QED BY <2>1, <2>2
<1> QED
  BY <1>1, <1>2, <1>3, PTL DEF Spec
=============================================================================
