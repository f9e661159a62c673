--------------------------- MODULE FrontEndsProofs ---------------------------
(***************************************************************************)
(* Theorems about the bot gateway, for any number of texts, prompts and    *)
(* commands, about the heartbeat engine, for any number of slots, topics,  *)
(* edits and turns, and about the ACP service, for any number of requests, *)
(* permission requests and background jobs.                                *)
(***************************************************************************)
EXTENDS MCFrontEnds, SequenceTheorems, FiniteSetTheorems, TLAPS

-----------------------------------------------------------------------------
(* Sequences of messages in order *)

LEMMA EmptySet == B!ToSet(<<>>) = {} /\ B!InOrder(<<>>)
BY DEF B!ToSet, B!InOrder

LEMMA OneSet ==
  ASSUME NEW m \in Nat
  PROVE  B!ToSet(<<m>>) = {m} /\ B!InOrder(<<m>>)
<1>1. DOMAIN <<m>> = {1} /\ <<m>>[1] = m
  OBVIOUS
<1>2. B!ToSet(<<m>>) = {m}
  BY <1>1 DEF B!ToSet
<1> QED
  BY <1>1, <1>2 DEF B!InOrder

\* What is put behind a sequence in order, and is greater than what it holds, leaves it in
\* order.
LEMMA Appended ==
  ASSUME NEW s \in Seq(Nat), NEW m \in Nat
  PROVE  /\ B!ToSet(Append(s, m)) = B!ToSet(s) \cup {m}
         /\ B!InOrder(s) /\ (\A n \in B!ToSet(s) : n < m) => B!InOrder(Append(s, m))
<1> DEFINE t == Append(s, m)
<1>1. t \in Seq(Nat) /\ Len(t) = Len(s) + 1 /\ t[Len(s) + 1] = m /\ \A k \in 1 .. Len(s) : t[k] = s[k]
  OBVIOUS
<1>2. DOMAIN t = 1 .. Len(s) + 1 /\ DOMAIN s = 1 .. Len(s) /\ Len(s) \in Nat
  BY <1>1
<1> HIDE DEF t
<1>3. B!ToSet(t) = B!ToSet(s) \cup {m}
  BY <1>1, <1>2 DEF B!ToSet
<1>4. ASSUME B!InOrder(s), \A n \in B!ToSet(s) : n < m
      PROVE  B!InOrder(t)
  <2> SUFFICES ASSUME NEW a \in DOMAIN t, NEW b \in DOMAIN t, a < b PROVE t[a] < t[b]
    BY DEF B!InOrder
  <2>1. a \in 1 .. Len(s) /\ t[a] = s[a]
    BY <1>1, <1>2
  <2>2. CASE b \in 1 .. Len(s)
    BY <1>1, <1>2, <1>4, <2>1, <2>2 DEF B!InOrder
  <2>3. CASE b = Len(s) + 1
    <3>1. s[a] \in B!ToSet(s)
      BY <1>2, <2>1 DEF B!ToSet
    <3> QED BY <1>1, <1>4, <2>1, <2>3, <3>1
  <2> QED BY <1>2, <2>2, <2>3
<1> QED
  BY <1>3, <1>4 DEF t

LEMMA Joined ==
  ASSUME NEW s \in Seq(Nat), NEW t \in Seq(Nat)
  PROVE  /\ B!ToSet(s \o t) = B!ToSet(s) \cup B!ToSet(t)
         /\ B!InOrder(s) /\ B!InOrder(t) /\ B!Before(s, t) => B!InOrder(s \o t)
<1> DEFINE u == s \o t
<1>1. u \in Seq(Nat) /\ Len(u) = Len(s) + Len(t)
      /\ \A k \in 1 .. Len(s) + Len(t) : u[k] = IF k <= Len(s) THEN s[k] ELSE t[k - Len(s)]
  OBVIOUS
<1>2. DOMAIN u = 1 .. Len(s) + Len(t) /\ DOMAIN s = 1 .. Len(s) /\ DOMAIN t = 1 .. Len(t)
      /\ Len(s) \in Nat /\ Len(t) \in Nat
  BY <1>1
<1>3. ASSUME NEW k \in 1 .. Len(t) PROVE k + Len(s) \in DOMAIN u /\ u[k + Len(s)] = t[k]
  BY <1>1, <1>2
<1>4. ASSUME NEW k \in DOMAIN u, k > Len(s)
      PROVE  k - Len(s) \in DOMAIN t /\ u[k] = t[k - Len(s)]
  <2>1. k \in 1 .. Len(s) + Len(t) /\ k - Len(s) \in 1 .. Len(t)
    BY <1>2, <1>4
  <2>2. ~(k <= Len(s))
    BY <1>2, <1>4, <2>1
  <2>3. u[k] = t[k - Len(s)]
    BY <1>1, <2>1, <2>2
  <2> QED BY <1>2, <2>1, <2>3
<1> HIDE DEF u
<1>5. B!ToSet(u) = B!ToSet(s) \cup B!ToSet(t)
  <2>1. ASSUME NEW k \in DOMAIN u PROVE u[k] \in B!ToSet(s) \cup B!ToSet(t)
    <3>1. CASE k <= Len(s)
      <4>1. k \in DOMAIN s /\ u[k] = s[k]
        BY <1>1, <1>2, <2>1, <3>1
      <4> QED BY <4>1 DEF B!ToSet
    <3>2. CASE k > Len(s)
      <4>1. k - Len(s) \in DOMAIN t /\ u[k] = t[k - Len(s)]
        BY <1>4, <3>2
      <4> QED BY <4>1 DEF B!ToSet
    <3> QED BY <1>2, <3>1, <3>2
  <2>2. ASSUME NEW k \in DOMAIN s PROVE s[k] \in B!ToSet(u)
    <3>1. k \in DOMAIN u /\ u[k] = s[k]
      BY <1>1, <1>2
    <3> QED BY <3>1 DEF B!ToSet
  <2>3. B!ToSet(t) \subseteq B!ToSet(u)
    BY <1>2, <1>3 DEF B!ToSet
  <2> QED BY <2>1, <2>2, <2>3 DEF B!ToSet
<1>6. ASSUME B!InOrder(s), B!InOrder(t), B!Before(s, t)
      PROVE  B!InOrder(u)
  <2> SUFFICES ASSUME NEW a \in DOMAIN u, NEW b \in DOMAIN u, a < b PROVE u[a] < u[b]
    BY DEF B!InOrder
  <2>1. CASE b <= Len(s)
    BY <1>1, <1>2, <1>6, <2>1 DEF B!InOrder
  <2>2. CASE a > Len(s)
    <3>1. a - Len(s) \in DOMAIN t /\ b - Len(s) \in DOMAIN t /\ a - Len(s) < b - Len(s)
      BY <1>2, <2>2
    <3>2. u[a] = t[a - Len(s)]
      BY <1>4, <2>2
    <3>3. b > Len(s)
      BY <1>2, <2>2
    <3>4. u[b] = t[b - Len(s)]
      BY <1>4, <3>3
    <3> QED BY <1>6, <3>1, <3>2, <3>4 DEF B!InOrder
  <2>3. CASE a <= Len(s) /\ b > Len(s)
    <3>1. u[a] \in B!ToSet(s)
      BY <1>1, <1>2, <2>3 DEF B!ToSet
    <3>2. u[b] \in B!ToSet(t)
      <4>1. b - Len(s) \in DOMAIN t /\ u[b] = t[b - Len(s)]
        BY <1>4, <2>3
      <4> QED BY <4>1 DEF B!ToSet
    <3> QED BY <1>6, <3>1, <3>2 DEF B!Before
  <2> QED BY <1>2, <2>1, <2>2, <2>3
<1> QED
  BY <1>5, <1>6 DEF u

-----------------------------------------------------------------------------
(* The bot gateway: types *)

LEMMA BotBounds == MaxTexts \in Nat /\ MaxPrompts \in Nat /\ MaxCommands \in Nat
BY BotAssumption DEF BotAssumption

LEMMA BotInit == B!Init => B!TypeOK
<1> SUFFICES ASSUME B!Init PROVE B!TypeOK
  OBVIOUS
<1>1. <<>> \in Seq(1 .. MaxTexts)
  OBVIOUS
<1>2. msgs \in [B!Goroutine -> Seq(1 .. MaxTexts)] /\ pending \in Seq(1 .. MaxTexts)
      /\ ran \in Seq(1 .. MaxTexts)
  BY <1>1 DEF B!Init
<1>3. at \in [B!Goroutine -> {"none"}] /\ \A i \in B!Goroutine : ~B!Live(i)
  BY DEF B!Init, B!Live
<1>4. at \in [B!Goroutine -> {"none", "look", "build", "bind", "arm", "start", "run", "ask",
                             "unbind", "release", "gone"}]
  BY <1>3
<1>5. /\ sent \in 0 .. MaxTexts /\ commanded \in 0 .. MaxCommands /\ asked \in 0 .. MaxPrompts
      /\ target \in 0 .. MaxTexts /\ canceller \in 0 .. MaxTexts /\ runner \in 0 .. MaxTexts
      /\ last \in 0 .. MaxPrompts /\ prompt \in 0 .. MaxPrompts /\ subject \in 0 .. MaxPrompts
  BY BotBounds DEF B!Init
<1>6. /\ active \in BOOLEAN /\ made \in BOOLEAN /\ forced \in BOOLEAN
      /\ known = {} /\ stopped = {} /\ refused = {} /\ told = {} /\ astray = {}
      /\ session = 0 /\ begunIn = 0 /\ desk = "idle"
  BY DEF B!Init
<1> QED
  BY <1>2, <1>3, <1>4, <1>5, <1>6 DEF B!TypeOK

\* The messages of a sequence are in its range.
LEMMA Ranged ==
  ASSUME NEW D, NEW s \in Seq(D)
  PROVE  B!ToSet(s) \subseteq D
BY DEF B!ToSet

LEMMA TurnTyped ==
  ASSUME B!TypeOK, NEW i \in B!Goroutine, B!Live(i)
  PROVE  msgs[i] \in Seq(1 .. MaxTexts) /\ B!Turn(i) \in 1 .. MaxTexts /\ B!Turn(i) # 0
<1>1. msgs[i] \in Seq(1 .. MaxTexts) /\ msgs[i] # <<>>
  BY DEF B!TypeOK
<1>2. Head(msgs[i]) \in 1 .. MaxTexts
  BY <1>1, HeadTailProperties
<1> QED
  BY <1>1, <1>2, BotBounds DEF B!Turn

Accepted ==
  /\ sent' \in 1 .. MaxTexts /\ sent' = sent + 1 /\ active' = TRUE
  /\ pending' \in Seq(1 .. MaxTexts)
  /\ at' \in [B!Goroutine -> {"none", "look", "build", "bind", "arm", "start", "run", "ask",
                              "unbind", "release", "gone"}]
  /\ msgs' \in [B!Goroutine -> Seq(1 .. MaxTexts)]
  /\ \A i \in B!Goroutine : B!Live(i)' => msgs'[i] # <<>>

LEMMA AcceptTypes ==
  ASSUME B!TypeOK, B!Accept
  PROVE  Accepted
<1>1. sent' \in 1 .. MaxTexts /\ sent' = sent + 1 /\ active' = TRUE
  BY BotBounds DEF B!Accept, B!TypeOK
<1>2. CASE active
  <2>1. pending' = Append(pending, sent') /\ UNCHANGED <<at, msgs>>
    BY <1>2 DEF B!Accept
  <2> QED BY <1>1, <2>1 DEF B!TypeOK, B!Live, Accepted
<1>3. CASE ~active
  <2>1. PICK i \in B!Goroutine : /\ at' = [at EXCEPT ![i] = "look"]
                                 /\ msgs' = [msgs EXCEPT ![i] = <<sent'>>]
                                 /\ UNCHANGED pending
    BY <1>3 DEF B!Accept
  <2>2. <<sent'>> \in Seq(1 .. MaxTexts) /\ <<sent'>> # <<>>
    BY <1>1
  <2> QED BY <1>1, <2>1, <2>2 DEF B!TypeOK, B!Live, Accepted
<1> QED
  BY <1>2, <1>3 DEF B!TypeOK

LEMMA BotTypes ==
  ASSUME B!TypeOK, [B!Next]_(B!vars)
  PROVE  B!TypeOK'
<1> USE BotBounds DEF B!lock, B!input, B!state, B!ctrl, B!notes
<1>1. CASE B!ReceiveText
  <2>1. B!Accept /\ UNCHANGED <<commanded, desk, subject, B!state, stopped, B!ctrl, B!notes>>
    BY <1>1, Zenon DEF B!ReceiveText
  <2>2. Accepted
    BY <2>1, AcceptTypes
  <2> QED BY <2>1, <2>2 DEF B!TypeOK, Accepted
<1>2. CASE B!ReceiveShortcut
  <2>1. commanded' \in 0 .. MaxCommands
    BY <1>2 DEF B!ReceiveShortcut, B!Sends, B!TypeOK
  <2>2. CASE UNCHANGED <<sent, active, pending, at, msgs>>
             /\ desk' \in {desk, "settling"} /\ subject' \in {subject} \cup known
    BY <1>2, <2>1, <2>2 DEF B!ReceiveShortcut, B!TypeOK, B!Live
  <2>3. CASE B!Accept /\ UNCHANGED <<desk, subject>>
    <3>1. UNCHANGED <<B!state, stopped, B!ctrl, B!notes>>
      BY <1>2, Zenon DEF B!ReceiveShortcut
    <3>2. Accepted
      BY <2>3, AcceptTypes
    <3> QED BY <2>1, <2>3, <3>1, <3>2 DEF B!TypeOK, Accepted
  <2>4. (UNCHANGED <<sent, active, pending, at, msgs>>
          /\ desk' \in {desk, "settling"} /\ subject' \in {subject} \cup known)
        \/ (B!Accept /\ UNCHANGED <<desk, subject>>)
    BY <1>2 DEF B!ReceiveShortcut
  <2> QED BY <2>2, <2>3, <2>4
<1>3. CASE B!Settle
  BY <1>3 DEF B!Settle, B!TypeOK, B!Live
<1>4. CASE B!Forget
  <2>1. known' \subseteq known /\ last' \in {last, 0} \cup known'
    BY <1>4 DEF B!Forget
  <2>2. desk' = "idle" /\ subject' = 0
        /\ UNCHANGED <<B!input, B!lock, at, msgs, made, target, canceller, stopped, B!ctrl, B!notes>>
    BY <1>4, Zenon DEF B!Forget
  <2>3. last' \in 0 .. MaxPrompts /\ known' \subseteq 1 .. MaxPrompts
    BY <2>1 DEF B!TypeOK
  <2> QED BY <2>2, <2>3 DEF B!TypeOK, B!Live
<1>5. CASE B!ReceiveStop \/ B!ReceiveNew
  <2>1. UNCHANGED <<sent, B!lock, subject, at, msgs, B!state, B!ctrl, B!notes>>
    BY <1>5, Zenon DEF B!ReceiveStop, B!ReceiveNew
  <2>2. commanded' \in 0 .. MaxCommands /\ desk' \in {"renewing", "releasing"}
        /\ stopped' \subseteq 1 .. MaxTexts
    <3>1. commanded' \in 0 .. MaxCommands
      BY <1>5 DEF B!ReceiveStop, B!ReceiveNew, B!Sends, B!TypeOK
    <3>2. desk' \in {"renewing", "releasing"} /\ B!CancelHeld
      BY <1>5 DEF B!ReceiveStop, B!ReceiveNew
    <3>3. stopped' \subseteq 1 .. MaxTexts
      BY <3>2 DEF B!CancelHeld, B!TypeOK
    <3> QED BY <3>1, <3>2, <3>3
  <2> QED BY <2>1, <2>2 DEF B!TypeOK, B!Live
<1>6. CASE B!Renew
  BY <1>6 DEF B!Renew, B!TypeOK, B!Live
<1>7. CASE B!ForceRelease
  <2>1. desk' = "idle" /\ active' = FALSE /\ pending' = <<>> /\ forced' \in BOOLEAN
        /\ UNCHANGED <<B!input, subject, at, msgs, B!state, stopped, B!ctrl, ran, refused, told,
                      astray>>
    BY <1>7, Zenon DEF B!ForceRelease
  <2>2. pending' \in Seq(1 .. MaxTexts)
    BY <2>1
  <2> QED BY <2>1, <2>2 DEF B!TypeOK, B!Live
<1>8. ASSUME NEW i \in B!Goroutine, B!RunTurn(i)
      PROVE  B!TypeOK'
  <2> USE DEF B!Go
  <2>0. B!Live(i) /\ msgs[i] \in Seq(1 .. MaxTexts) /\ B!Turn(i) \in 1 .. MaxTexts
    <3>1. B!Live(i)
      BY <1>8 DEF B!RunTurn, B!Look, B!Build, B!Bind, B!Arm, B!Start, B!Ask, B!Asked, B!Finish,
                  B!Unbind, B!Release, B!Live
    <3> QED BY <3>1, TurnTyped
  <2>m. B!ToSet(msgs[i]) \subseteq 1 .. MaxTexts
    BY <2>0, Ranged
  <2>1. CASE B!Look(i)
    BY <2>0, <2>1 DEF B!Look, B!TypeOK, B!Live
  <2>2. CASE B!Build(i)
    BY <2>0, <2>m, <2>2 DEF B!Build, B!TypeOK, B!Live
  <2>3. CASE B!Bind(i)
    BY <2>0, <2>3 DEF B!Bind, B!TypeOK, B!Live
  <2>4. CASE B!Arm(i)
    BY <2>0, <2>4 DEF B!Arm, B!TypeOK, B!Live
  <2>5. CASE B!Start(i)
    <3>1. ran' \in Seq(1 .. MaxTexts)
      BY <2>0, <2>5 DEF B!Start, B!TypeOK
    <3>2. refused' \subseteq 1 .. MaxTexts /\ runner' \in 0 .. MaxTexts /\ begunIn' \in Nat
      <4>1. refused' \in {refused, refused \cup B!ToSet(msgs[i])} /\ runner' \in {runner, B!Turn(i)}
            /\ begunIn' \in {begunIn, session}
        BY <2>5 DEF B!Start
      <4> QED BY <2>0, <2>m, <4>1 DEF B!TypeOK
    <3>3. \E p \in {"run", "unbind"} : at' = [at EXCEPT ![i] = p]
      BY <2>5 DEF B!Start
    <3>4. UNCHANGED <<B!input, B!lock, desk, subject, msgs, B!state, stopped, prompt, session, asked,
                      told, astray, forced, void>>
      BY <2>5, Zenon DEF B!Start
    <3> QED BY <2>0, <3>1, <3>2, <3>3, <3>4 DEF B!TypeOK, B!Live
  <2>6. CASE B!Ask(i)
    <3>1. asked' \in 1 .. MaxPrompts /\ prompt' = asked'
      BY <2>6 DEF B!Ask, B!TypeOK
    <3>2. known' \in {known, known \cup {asked'}} /\ last' \in {last, asked'}
          /\ at' = [at EXCEPT ![i] = "ask"]
      BY <2>6 DEF B!Ask
    <3>3. UNCHANGED <<B!input, B!lock, desk, subject, msgs, made, target, canceller, stopped, runner,
                      session, begunIn, B!notes>>
      BY <2>6, Zenon DEF B!Ask
    <3> QED BY <2>0, <3>1, <3>2, <3>3 DEF B!TypeOK, B!Live
  <2>7. CASE B!Asked(i)
    BY <2>0, <2>7 DEF B!Asked, B!TypeOK, B!Live
  <2>8. CASE B!Finish(i)
    <3>1. astray' \in {astray, astray \cup B!ToSet(msgs[i])} /\ runner' = 0
          /\ at' = [at EXCEPT ![i] = "unbind"]
      BY <2>8 DEF B!Finish
    <3>2. UNCHANGED <<B!input, B!lock, desk, subject, msgs, B!state, stopped, prompt, session,
                      begunIn, asked, ran, refused, told, forced, void>>
      BY <2>8, Zenon DEF B!Finish
    <3>3. astray' \subseteq 1 .. MaxTexts
      BY <2>m, <3>1 DEF B!TypeOK
    <3> QED BY <2>0, <3>1, <3>2, <3>3 DEF B!TypeOK, B!Live
  <2>9. CASE B!Unbind(i)
    <3>1. stopped' \subseteq 1 .. MaxTexts
      BY <2>0, <2>9 DEF B!Unbind, B!TypeOK
    <3> QED BY <2>0, <2>9, <3>1 DEF B!Unbind, B!TypeOK, B!Live
  <2>10. CASE B!Release(i)
    <3>0. pending' = <<>> /\ active' \in {active, FALSE}
      BY <2>10 DEF B!Release
    <3>1. pending' \in Seq(1 .. MaxTexts) /\ active' \in BOOLEAN
      <4>1. pending' \in Seq(1 .. MaxTexts)
        BY <3>0
      <4> QED BY <3>0, <4>1 DEF B!TypeOK
    <3>2. UNCHANGED <<B!input, desk, subject, B!state, stopped, B!ctrl, B!notes>>
      BY <2>10, Zenon DEF B!Release
    <3>3. CASE pending = <<>>
      <4>1. at' = [at EXCEPT ![i] = "gone"] /\ UNCHANGED msgs
        BY <2>10, <3>3 DEF B!Release
      <4> QED BY <3>1, <3>2, <4>1 DEF B!TypeOK, B!Live
    <3>4. CASE pending # <<>>
      <4>1. at' = [at EXCEPT ![i] = "look"] /\ msgs' = [msgs EXCEPT ![i] = pending]
        BY <2>10, <3>4 DEF B!Release
      <4> QED BY <3>1, <3>2, <3>4, <4>1 DEF B!TypeOK, B!Live
    <3> QED BY <3>3, <3>4
  <2> QED BY <1>8, <2>1, <2>2, <2>3, <2>4, <2>5, <2>6, <2>7, <2>8, <2>9, <2>10 DEF B!RunTurn
<1>9. CASE UNCHANGED B!vars
  BY <1>9 DEF B!vars, B!TypeOK, B!Live
<1> QED
  BY <1>1, <1>2, <1>3, <1>4, <1>5, <1>6, <1>7, <1>8, <1>9 DEF B!Next, B!Desk

\* The variables of a chat session keep their types.
THEOREM BotGatewayTypes == B!Spec => []B!TypeOK
BY BotInit, BotTypes, PTL DEF B!Spec

-----------------------------------------------------------------------------
(* The bot gateway: one turn at a time *)

\* Until a command forces the session away from a turn: the session is taken exactly while
\* one goroutine works for it, texts wait only then, the controller is in the hands of that
\* goroutine, and the sink is aimed at its turn from setTarget to the end of RunTurn.
Taken == active <=> \E i \in B!Goroutine : B!Live(i)
Waits == pending # <<>> => active
Held == runner # 0 => \E i \in B!Goroutine : at[i] \in {"run", "ask"}
Aimed == \A i \in B!Goroutine : at[i] \in {"arm", "start", "run", "ask"} => target = B!Turn(i)
TurnInv == ~forced => B!OneTaskAtATime /\ Taken /\ Waits /\ Held /\ Aimed

LEMMA StaysForced ==
  ASSUME B!TypeOK, [B!Next]_(B!vars), ~forced'
  PROVE  ~forced
<1> USE DEF B!lock, B!input, B!state, B!ctrl, B!notes
<1>1. CASE B!ForceRelease
  BY <1>1, Zenon DEF B!ForceRelease
<1>2. CASE B!ReceiveText \/ B!ReceiveShortcut \/ B!ReceiveStop \/ B!ReceiveNew \/ B!Settle \/ B!Forget
           \/ B!Renew
  BY <1>2, Zenon DEF B!ReceiveText, B!ReceiveShortcut, B!ReceiveStop, B!ReceiveNew, B!Settle,
                     B!Forget, B!Renew
<1>3. ASSUME NEW i \in B!Goroutine, B!RunTurn(i) PROVE ~forced
  BY <1>3, Zenon DEF B!RunTurn, B!Look, B!Build, B!Bind, B!Arm, B!Start, B!Ask, B!Asked, B!Finish,
                     B!Unbind, B!Release
<1>4. CASE UNCHANGED B!vars
  BY <1>4, Zenon DEF B!vars
<1> QED
  BY <1>1, <1>2, <1>3, <1>4, Zenon DEF B!Next, B!Desk

\* A goroutine that goes from one place of runTurn to another stays the one at work.
LEMMA MovesOn ==
  ASSUME B!TypeOK, NEW i \in B!Goroutine, NEW p, p \notin {"none", "gone"}, active,
         \A j \in B!Goroutine : j # i => ~B!Live(j),
         at' = [at EXCEPT ![i] = p], UNCHANGED active, pending' \in {pending, <<>>}
  PROVE  B!OneTaskAtATime' /\ Taken' /\ Waits'
<1>1. \A j \in B!Goroutine : at'[j] = IF j = i THEN p ELSE at[j]
  BY DEF B!TypeOK
<1>2. B!Live(i)' /\ \A j \in B!Goroutine : j # i => ~B!Live(j)'
  BY <1>1 DEF B!Live
<1> QED
  BY <1>2 DEF B!OneTaskAtATime, Taken, Waits

LEMMA NextTurnInv ==
  ASSUME B!TypeOK, TurnInv, [B!Next]_(B!vars)
  PROVE  TurnInv'
<1> USE DEF B!lock, B!input, B!state, B!ctrl, B!notes, B!Go
<1> SUFFICES ASSUME ~forced' PROVE B!OneTaskAtATime' /\ Taken' /\ Waits' /\ Held' /\ Aimed'
  BY Zenon DEF TurnInv
<1>0. ~forced /\ B!OneTaskAtATime /\ Taken /\ Waits /\ Held /\ Aimed
  BY StaysForced DEF TurnInv
<1>1. ASSUME UNCHANGED <<at, msgs, active, pending, runner, target>>
      PROVE  B!OneTaskAtATime' /\ Taken' /\ Waits' /\ Held' /\ Aimed'
  BY <1>0, <1>1 DEF B!OneTaskAtATime, B!Live, B!Turn, Taken, Waits, Held, Aimed
<1>2. ASSUME B!Accept, UNCHANGED <<runner, target>>
      PROVE  B!OneTaskAtATime' /\ Taken' /\ Waits' /\ Held' /\ Aimed'
  <2>1. CASE active
    <3>1. active' = TRUE /\ UNCHANGED <<at, msgs>>
      BY <1>2, <2>1 DEF B!Accept
    <3> QED BY <1>0, <1>2, <2>1, <3>1 DEF B!OneTaskAtATime, B!Live, B!Turn, Taken, Waits, Held, Aimed
  <2>2. CASE ~active
    <3>1. PICK i \in B!Goroutine : at' = [at EXCEPT ![i] = "look"]
      BY <1>2, <2>2 DEF B!Accept
    <3>2. active' = TRUE /\ runner = 0 /\ \A j \in B!Goroutine : ~B!Live(j)
      BY <1>0, <1>2, <2>2 DEF B!Accept, Taken, Held, B!Live
    <3>3. \A j \in B!Goroutine : at'[j] = IF j = i THEN "look" ELSE at[j]
      BY <3>1 DEF B!TypeOK
    <3>4. B!Live(i)' /\ \A j \in B!Goroutine : j # i => ~B!Live(j)'
      BY <3>2, <3>3 DEF B!Live
    <3>5. Aimed'
      BY <3>2, <3>3 DEF B!Live, Aimed
    <3> QED BY <1>2, <3>2, <3>4, <3>5 DEF B!OneTaskAtATime, Taken, Waits, Held
  <2> QED BY <2>1, <2>2
<1>3. CASE B!ReceiveText
  BY <1>2, <1>3, Zenon DEF B!ReceiveText
<1>4. CASE B!ReceiveShortcut
  BY <1>1, <1>2, <1>4, Zenon DEF B!ReceiveShortcut
<1>5. CASE B!ReceiveStop \/ B!ReceiveNew \/ B!Settle \/ B!Forget \/ B!Renew
  BY <1>1, <1>5, Zenon DEF B!ReceiveStop, B!ReceiveNew, B!Settle, B!Forget, B!Renew
<1>6. CASE B!ForceRelease
  <2>1. \A i \in B!Goroutine : ~B!Live(i)
    BY <1>6, Zenon DEF B!ForceRelease
  <2>2. active' = FALSE /\ pending' = <<>> /\ UNCHANGED <<at, msgs, runner, target>>
    BY <1>6, Zenon DEF B!ForceRelease
  <2> QED BY <1>0, <2>1, <2>2 DEF B!OneTaskAtATime, B!Live, B!Turn, Taken, Waits, Held, Aimed
<1>7. ASSUME NEW i \in B!Goroutine, B!RunTurn(i)
      PROVE  B!OneTaskAtATime' /\ Taken' /\ Waits' /\ Held' /\ Aimed'
  <2>0. B!Live(i)
    BY <1>7 DEF B!RunTurn, B!Look, B!Build, B!Bind, B!Arm, B!Start, B!Ask, B!Asked, B!Finish,
                B!Unbind, B!Release, B!Live
  <2>o. active /\ \A j \in B!Goroutine : j # i => ~B!Live(j)
    BY <1>0, <2>0 DEF B!OneTaskAtATime, Taken
  <2>m. ASSUME NEW p, at' = [at EXCEPT ![i] = p]
        PROVE  at'[i] = p /\ \A j \in B!Goroutine : j # i => at'[j] \in {"none", "gone"}
    BY <2>o, <2>m DEF B!TypeOK, B!Live
  <2>h. runner # 0 => at[i] \in {"run", "ask"}
    BY <1>0, <2>o DEF Held, B!Live
  <2>1. CASE B!Look(i) \/ B!Build(i)
    <3>1. PICK p \in {"bind", "build", "release"} : at' = [at EXCEPT ![i] = p]
      BY <2>1 DEF B!Look, B!Build
    <3>2. UNCHANGED <<active, pending, runner>> /\ runner = 0
      BY <2>1, <2>h DEF B!Look, B!Build
    <3> QED BY <2>o, <2>m, <3>1, <3>2, MovesOn DEF Held, Aimed
  <2>2. CASE B!Bind(i)
    <3>1. at' = [at EXCEPT ![i] = "arm"] /\ UNCHANGED <<active, pending, runner, msgs>>
          /\ target' = B!Turn(i) /\ runner = 0
      BY <2>2, <2>h DEF B!Bind
    <3> QED BY <2>o, <2>m, <3>1, MovesOn DEF Held, Aimed, B!Turn
  <2>3. CASE B!Arm(i)
    <3>1. at' = [at EXCEPT ![i] = "start"] /\ UNCHANGED <<active, pending, runner, msgs, target>>
          /\ target = B!Turn(i) /\ runner = 0
      BY <1>0, <2>3, <2>h DEF B!Arm, Aimed
    <3> QED BY <2>o, <2>m, <3>1, MovesOn DEF Held, Aimed, B!Turn
  <2>4. CASE B!Start(i)
    <3>1. runner = 0 /\ target = B!Turn(i)
      BY <1>0, <2>4, <2>h DEF B!Start, Aimed
    <3>2. at' = [at EXCEPT ![i] = "run"] /\ UNCHANGED <<active, pending, msgs, target>>
      BY <2>4, <3>1 DEF B!Start
    <3> QED BY <2>o, <2>m, <3>1, <3>2, MovesOn DEF Held, Aimed, B!Turn
  <2>5. CASE B!Ask(i) \/ B!Asked(i)
    <3>1. PICK p \in {"run", "ask"} : at' = [at EXCEPT ![i] = p]
      BY <2>5 DEF B!Ask, B!Asked
    <3>2. UNCHANGED <<active, pending, msgs, target>> /\ at[i] \in {"run", "ask"}
      BY <2>5 DEF B!Ask, B!Asked
    <3>3. target = B!Turn(i)
      BY <1>0, <3>2 DEF Aimed
    <3> QED BY <2>o, <2>m, <3>1, <3>2, <3>3, MovesOn DEF Held, Aimed, B!Turn
  <2>6. CASE B!Finish(i)
    <3>1. at' = [at EXCEPT ![i] = "unbind"] /\ UNCHANGED <<active, pending>> /\ runner' = 0
      BY <2>6 DEF B!Finish
    <3> QED BY <2>o, <2>m, <3>1, MovesOn DEF Held, Aimed
  <2>7. CASE B!Unbind(i)
    <3>1. at' = [at EXCEPT ![i] = "release"] /\ UNCHANGED <<active, pending, runner>> /\ runner = 0
      BY <2>7, <2>h DEF B!Unbind
    <3> QED BY <2>o, <2>m, <3>1, MovesOn DEF Held, Aimed
  <2>8. CASE B!Release(i) /\ pending # <<>>
    <3>1. at' = [at EXCEPT ![i] = "look"] /\ UNCHANGED <<active, runner>> /\ pending' = <<>>
          /\ runner = 0
      BY <2>8, <2>h DEF B!Release
    <3> QED BY <2>o, <2>m, <3>1, MovesOn DEF Held, Aimed
  <2>9. CASE B!Release(i) /\ pending = <<>>
    <3>1. at' = [at EXCEPT ![i] = "gone"] /\ active' = FALSE /\ UNCHANGED runner /\ pending' = <<>>
          /\ runner = 0
      BY <2>9, <2>h DEF B!Release
    <3>2. \A j \in B!Goroutine : at'[j] \in {"none", "gone"}
      BY <2>m, <3>1
    <3> QED BY <3>1, <3>2 DEF B!OneTaskAtATime, B!Live, Taken, Waits, Held, Aimed
  <2> QED BY <1>7, <2>1, <2>2, <2>3, <2>4, <2>5, <2>6, <2>7, <2>8, <2>9 DEF B!RunTurn
<1>8. CASE UNCHANGED B!vars
  BY <1>1, <1>8 DEF B!vars
<1> QED
  BY <1>3, <1>4, <1>5, <1>6, <1>7, <1>8 DEF B!Next, B!Desk

-----------------------------------------------------------------------------
(* The bot gateway: no text is lost, repeated or overtaken *)

\* What was run, what the goroutine at work carries, and what waits: one line of texts in
\* order, which lacks of what was sent only what the user was told is dropped.
Line(c) ==
  /\ B!InOrder(ran) /\ B!InOrder(c) /\ B!InOrder(pending)
  /\ B!Before(ran, c) /\ B!Before(c, pending) /\ B!Before(ran, pending)
  /\ B!ToSet(ran) \cup B!ToSet(c) \cup B!ToSet(pending) = (1 .. sent) \ told
Carrier(i, c) ==
  B!Carried(i) = c /\ \A j \in B!Goroutine : j # i => B!Carried(j) = <<>>
Informed == told \subseteq 1 .. sent

LEMMA TheLine ==
  ASSUME B!EachInTurn, ~forced, NEW i \in B!Goroutine, NEW c, Carrier(i, c)
  PROVE  Line(c)
<1>1. B!Underway = B!ToSet(c)
  BY EmptySet, Zenon DEF Carrier, B!Underway
<1>2. B!InOrder(c) /\ B!Before(ran, c) /\ B!Before(c, pending)
  BY Zenon DEF B!EachInTurn, Carrier
<1>3. B!InOrder(ran) /\ B!InOrder(pending) /\ B!Before(ran, pending)
      /\ B!ToSet(ran) \cup B!Underway \cup B!ToSet(pending) = (1 .. sent) \ told
  BY Zenon DEF B!EachInTurn
<1> QED
  BY <1>1, <1>2, <1>3 DEF Line

LEMMA LineIsTurns ==
  ASSUME NEW i \in B!Goroutine, NEW c, Carrier(i, c)', Line(c)', refused' = {}, astray' = {}
  PROVE  B!EachInTurn'
<1>1. B!Underway' = B!ToSet(c)
  BY EmptySet, Zenon DEF Carrier, B!Underway
<1>2. \A j \in B!Goroutine : B!Carried(j)' \in {c, <<>>}
  BY DEF Carrier
<1>3. \A s : B!Before(<<>>, s) /\ B!Before(s, <<>>)
  BY EmptySet DEF B!Before
<1>4. \A j \in B!Goroutine :
         (B!InOrder(B!Carried(j)) /\ B!Before(ran, B!Carried(j)) /\ B!Before(B!Carried(j), pending))'
  BY <1>2, <1>3, EmptySet DEF Line
<1>5. \A j, k \in B!Goroutine : (j = k \/ B!Carried(j) = <<>> \/ B!Carried(k) = <<>>)'
  BY DEF Carrier
<1>6. (B!ToSet(ran) \cup B!Underway \cup B!ToSet(pending) = (1 .. sent) \ told)'
  BY <1>1 DEF Line
<1> QED
  BY <1>4, <1>5, <1>6, Zenon DEF B!EachInTurn, Line

LEMMA NextEachInTurn ==
  ASSUME B!TypeOK, TurnInv, Informed, B!EachInTurn, [B!Next]_(B!vars), ~forced'
  PROVE  B!EachInTurn' /\ Informed'
<1> USE DEF B!lock, B!input, B!state, B!ctrl, B!notes, B!Go
<1>0. ~forced /\ B!OneTaskAtATime /\ Taken /\ Waits /\ Held /\ Aimed
  BY StaysForced DEF TurnInv
<1>e. refused = {} /\ astray = {}
  BY <1>0 DEF B!EachInTurn
<1>s. ran \in Seq(Nat) /\ pending \in Seq(Nat) /\ sent \in Nat
      /\ \A i \in B!Goroutine : msgs[i] \in Seq(Nat)
  BY BotBounds DEF B!TypeOK
<1>1. ASSUME UNCHANGED <<sent, at, msgs, pending, ran, refused, told, astray>>
      PROVE  B!EachInTurn' /\ Informed'
  BY <1>0, <1>1 DEF B!EachInTurn, B!Underway, B!Carried, Informed
<1>2. ASSUME B!Accept, UNCHANGED <<ran, refused, told, astray>>
      PROVE  B!EachInTurn' /\ Informed'
  <2>1. sent' = sent + 1 /\ Informed'
    BY <1>2, <1>s DEF B!Accept, Informed
  <2>2. CASE active
    <3>1. PICK i \in B!Goroutine : B!Live(i)
      BY <1>0, <2>2 DEF Taken
    <3>2. PICK c : c = B!Carried(i)
      OBVIOUS
    <3>3. Carrier(i, c)
      BY <1>0, <3>1, <3>2 DEF B!OneTaskAtATime, B!Live, B!Carried, Carrier
    <3>4. Line(c)
      BY <1>0, <3>3, TheLine
    <3>5. pending' = Append(pending, sent + 1) /\ UNCHANGED <<at, msgs>>
      BY <1>2, <2>1, <2>2 DEF B!Accept
    <3>6. Carrier(i, c)'
      BY <3>3, <3>5 DEF Carrier, B!Carried
    <3>7. \A n \in B!ToSet(ran) \cup B!ToSet(c) \cup B!ToSet(pending) : n \in 1 .. sent /\ n < sent + 1
      BY <1>s, <3>4 DEF Line
    <3>8. B!ToSet(pending') = B!ToSet(pending) \cup {sent + 1} /\ B!InOrder(pending')
      BY <1>s, <3>4, <3>5, <3>7, Appended DEF Line
    <3>9. Line(c)'
      <4>1. B!ToSet(ran) \cup B!ToSet(c) \cup B!ToSet(pending') = (1 .. sent') \ told
        BY <1>s, <2>1, <3>4, <3>8 DEF Line, Informed
      <4>2. B!Before(c, pending') /\ B!Before(ran, pending')
        BY <3>4, <3>7, <3>8 DEF Line, B!Before
      <4> QED BY <1>2, <3>4, <3>8, <4>1, <4>2 DEF Line
    <3> QED BY <1>2, <1>e, <2>1, <3>6, <3>9, LineIsTurns
  <2>3. CASE ~active
    <3>1. PICK i \in B!Goroutine : /\ at' = [at EXCEPT ![i] = "look"]
                                   /\ msgs' = [msgs EXCEPT ![i] = <<sent'>>]
                                   /\ UNCHANGED pending
      BY <1>2, <2>3 DEF B!Accept
    <3>2. pending = <<>> /\ \A j \in B!Goroutine : ~B!Live(j)
      BY <1>0, <2>3 DEF Waits, Taken
    <3>3. Carrier(i, <<>>)
      BY <3>2 DEF Carrier, B!Carried, B!Live
    <3>4. Line(<<>>)
      BY <1>0, <3>3, TheLine
    <3>5. PICK c : c = <<sent + 1>>
      OBVIOUS
    <3>6. Carrier(i, c)'
      <4>1. at'[i] = "look" /\ msgs'[i] = c
        BY <2>1, <3>1, <3>5 DEF B!TypeOK
      <4>2. \A j \in B!Goroutine : j # i => at'[j] = at[j]
        BY <3>1 DEF B!TypeOK
      <4> QED BY <3>2, <4>1, <4>2 DEF Carrier, B!Carried, B!Live
    <3>7. B!ToSet(c) = {sent + 1} /\ B!InOrder(c)
      BY <1>s, <3>5, OneSet
    <3>8. Line(c)'
      <4>1. B!ToSet(ran) = (1 .. sent) \ told /\ B!InOrder(ran) /\ B!ToSet(pending) = {}
            /\ B!InOrder(pending)
        BY <3>2, <3>4, EmptySet DEF Line
      <4>2. B!ToSet(ran) \cup B!ToSet(c) \cup B!ToSet(pending) = (1 .. sent') \ told
        BY <1>s, <2>1, <3>7, <4>1 DEF Informed
      <4>3. B!Before(ran, c) /\ B!Before(c, pending) /\ B!Before(ran, pending)
        BY <1>s, <3>7, <4>1 DEF B!Before
      <4> QED BY <1>2, <3>1, <3>7, <4>1, <4>2, <4>3 DEF Line
    <3> QED BY <1>2, <1>e, <2>1, <3>6, <3>8, LineIsTurns
  <2> QED BY <2>2, <2>3
<1>3. CASE B!ReceiveText
  BY <1>2, <1>3, Zenon DEF B!ReceiveText
<1>4. CASE B!ReceiveShortcut
  BY <1>1, <1>2, <1>4, Zenon DEF B!ReceiveShortcut
<1>5. CASE B!ReceiveStop \/ B!ReceiveNew \/ B!Settle \/ B!Forget \/ B!Renew
  BY <1>1, <1>5, Zenon DEF B!ReceiveStop, B!ReceiveNew, B!Settle, B!Forget, B!Renew
<1>6. CASE B!ForceRelease
  <2>1. \A i \in B!Goroutine : ~B!Live(i)
    BY <1>6, Zenon DEF B!ForceRelease
  <2>2. pending' = <<>> /\ UNCHANGED <<sent, at, msgs, ran, refused, told, astray>>
    BY <1>6, Zenon DEF B!ForceRelease
  <2>3. pending = <<>>
    BY <1>0, <2>1 DEF Taken, Waits
  <2> QED BY <1>1, <2>2, <2>3
<1>7. ASSUME NEW i \in B!Goroutine, B!RunTurn(i)
      PROVE  B!EachInTurn' /\ Informed'
  <2>0. B!Live(i)
    BY <1>7 DEF B!RunTurn, B!Look, B!Build, B!Bind, B!Arm, B!Start, B!Ask, B!Asked, B!Finish,
                B!Unbind, B!Release, B!Live
  <2>1. \A j \in B!Goroutine : j # i => ~B!Live(j)
    BY <1>0, <2>0 DEF B!OneTaskAtATime
  <2>2. runner # 0 => at[i] \in {"run", "ask"}
    BY <1>0, <2>1 DEF Held, B!Live
  <2>3. PICK c : c = B!Carried(i)
    OBVIOUS
  <2>4. Carrier(i, c)
    BY <2>1, <2>3 DEF Carrier, B!Carried, B!Live
  <2>5. Line(c)
    BY <1>0, <2>4, TheLine
  <2>6. \A j \in B!Goroutine : j # i => at'[j] = at[j]
    BY <1>7 DEF B!RunTurn, B!Look, B!Build, B!Bind, B!Arm, B!Start, B!Ask, B!Asked, B!Finish,
                B!Unbind, B!Release, B!TypeOK
  <2>7. ASSUME NEW d, B!Carried(i)' = d PROVE Carrier(i, d)'
    BY <2>1, <2>6, <2>7 DEF Carrier, B!Carried, B!Live
  <2>8. ASSUME B!Carried(i)' = c, UNCHANGED <<sent, pending, ran, refused, told, astray>>
        PROVE  B!EachInTurn' /\ Informed'
    <3>1. Line(c)' /\ Informed'
      BY <2>5, <2>8 DEF Line, Informed
    <3> QED BY <1>e, <2>7, <2>8, <3>1, LineIsTurns
  <2>9. CASE B!Look(i) \/ B!Bind(i) \/ B!Arm(i) \/ B!Ask(i) \/ B!Asked(i) \/ B!Unbind(i)
    <3>1. B!Carried(i)' = c
      BY <2>3, <2>9 DEF B!Look, B!Bind, B!Arm, B!Ask, B!Asked, B!Unbind, B!Carried, B!TypeOK
    <3>2. UNCHANGED <<sent, pending, ran, refused, told, astray>>
      BY <2>9, Zenon DEF B!Look, B!Bind, B!Arm, B!Ask, B!Asked, B!Unbind
    <3> QED BY <2>8, <3>1, <3>2
  <2>10. CASE B!Build(i)
    <3>1. c = msgs[i] /\ UNCHANGED <<sent, pending, ran, refused, astray>>
      BY <2>3, <2>10 DEF B!Build, B!Carried
    <3>2. CASE at' = [at EXCEPT ![i] = "bind"] /\ UNCHANGED told
      <4>1. B!Carried(i)' = c
        BY <2>10, <3>1, <3>2 DEF B!Build, B!Carried, B!TypeOK
      <4> QED BY <2>8, <3>1, <3>2, <4>1
    <3>3. CASE at' = [at EXCEPT ![i] = "release"] /\ told' = told \cup B!ToSet(c)
      <4>1. B!Carried(i)' = <<>>
        BY <3>3 DEF B!Carried, B!TypeOK
      <4>2. Informed'
        BY <2>5, <3>1, <3>3 DEF Informed, Line
      <4>3. B!ToSet(ran) \cap B!ToSet(c) = {} /\ B!ToSet(pending) \cap B!ToSet(c) = {}
        <5>1. B!ToSet(ran) \subseteq Nat /\ B!ToSet(c) \subseteq Nat /\ B!ToSet(pending) \subseteq Nat
          BY <1>s, <3>1, Ranged
        <5> QED BY <2>5, <5>1 DEF Line, B!Before
      <4>4. B!ToSet(ran) \cup B!ToSet(<<>>) \cup B!ToSet(pending) = (1 .. sent) \ told'
        BY <2>5, <3>3, <4>3, EmptySet DEF Line
      <4>5. B!Before(ran, <<>>) /\ B!Before(<<>>, pending)
        BY EmptySet DEF B!Before
      <4>6. Line(<<>>)'
        BY <2>5, <3>1, <4>4, <4>5, EmptySet DEF Line
      <4> QED BY <1>e, <2>7, <3>1, <4>1, <4>2, <4>6, LineIsTurns
    <3> QED BY <2>10, <3>1, <3>2, <3>3 DEF B!Build
  <2>11. CASE B!Start(i)
    <3>1. c = msgs[i] /\ ran' = ran \o c /\ runner = 0
      BY <2>2, <2>3, <2>11 DEF B!Start, B!Carried
    <3>2. UNCHANGED <<sent, pending, refused, told, astray>> /\ at' = [at EXCEPT ![i] = "run"]
      BY <2>11, <3>1 DEF B!Start
    <3>3. B!Carried(i)' = <<>>
      BY <3>2 DEF B!Carried, B!TypeOK
    <3>4. B!ToSet(ran') = B!ToSet(ran) \cup B!ToSet(c) /\ B!InOrder(ran')
      BY <1>s, <2>5, <3>1, Joined DEF Line
    <3>5. B!Before(ran', pending)
      BY <2>5, <3>4 DEF Line, B!Before
    <3>6. B!Before(ran', <<>>) /\ B!Before(<<>>, pending)
      BY EmptySet DEF B!Before
    <3>7. Line(<<>>)' /\ Informed'
      BY <2>5, <3>2, <3>4, <3>5, <3>6, EmptySet DEF Line, Informed
    <3> QED BY <1>e, <2>7, <3>2, <3>3, <3>7, LineIsTurns
  <2>12. CASE B!Finish(i)
    <3>1. target = B!Turn(i)
      BY <1>0, <2>12 DEF B!Finish, Aimed
    <3>2. UNCHANGED <<sent, pending, ran, refused, told, astray>>
      BY <2>12, <3>1 DEF B!Finish
    <3>3. B!Carried(i)' = c
      BY <2>3, <2>12 DEF B!Finish, B!Carried, B!TypeOK
    <3> QED BY <2>8, <3>2, <3>3
  <2>13. CASE B!Release(i)
    <3>1. c = <<>> /\ pending' = <<>> /\ UNCHANGED <<sent, ran, refused, told, astray>>
      BY <2>3, <2>13 DEF B!Release, B!Carried
    <3>2. CASE pending = <<>>
      <4>1. at' = [at EXCEPT ![i] = "gone"]
        BY <2>13, <3>2 DEF B!Release
      <4>2. B!Carried(i)' = c
        BY <3>1, <4>1 DEF B!Carried, B!TypeOK
      <4> QED BY <2>8, <3>1, <3>2, <4>2
    <3>3. CASE pending # <<>>
      <4>1. at' = [at EXCEPT ![i] = "look"] /\ msgs' = [msgs EXCEPT ![i] = pending]
        BY <2>13, <3>3 DEF B!Release
      <4>2. PICK d : d = pending
        OBVIOUS
      <4>3. B!Carried(i)' = d
        BY <4>1, <4>2 DEF B!Carried, B!TypeOK
      <4>4. B!Before(ran, <<>>) /\ B!Before(d, <<>>)
        BY EmptySet DEF B!Before
      <4>5. Line(d)' /\ Informed'
        BY <2>5, <3>1, <4>2, <4>4, EmptySet DEF Line, Informed
      <4> QED BY <1>e, <2>7, <3>1, <4>3, <4>5, LineIsTurns
    <3> QED BY <3>2, <3>3
  <2> QED BY <1>7, <2>9, <2>10, <2>11, <2>12, <2>13 DEF B!RunTurn
<1>8. CASE UNCHANGED B!vars
  BY <1>1, <1>8 DEF B!vars
<1> QED
  BY <1>3, <1>4, <1>5, <1>6, <1>7, <1>8 DEF B!Next, B!Desk

\* Until /stop or /new takes the session from a turn, every text is run once and in the
\* order of arrival by a controller that is free, or the user is told that it was dropped.
THEOREM TextsInTurn == B!Spec => []EachInTurn
<1> DEFINE Inv == B!TypeOK /\ TurnInv /\ (~forced => Informed) /\ B!EachInTurn
<1>1. B!Init => Inv
  <2> SUFFICES ASSUME B!Init PROVE Inv
    OBVIOUS
  <2>1. B!TypeOK
    BY BotInit
  <2>2. \A i \in B!Goroutine : ~B!Live(i) /\ B!Carried(i) = <<>>
    BY DEF B!Init, B!Live, B!Carried
  <2>3. TurnInv
    BY <2>2 DEF B!Init, B!Live, TurnInv, B!OneTaskAtATime, Taken, Waits, Held, Aimed
  <2>4. Informed /\ ran = <<>> /\ pending = <<>> /\ refused = {} /\ astray = {} /\ (1 .. sent) \ told = {}
    BY DEF B!Init, Informed
  <2>5. B!Underway = {}
    BY <2>2, EmptySet, Zenon DEF B!Underway
  <2>6. B!EachInTurn
    BY <2>2, <2>4, <2>5, EmptySet DEF B!EachInTurn, B!Before
  <2> QED BY <2>1, <2>3, <2>4, <2>6
<1>2. Inv /\ [B!Next]_(B!vars) => Inv'
  <2> SUFFICES ASSUME Inv, [B!Next]_(B!vars) PROVE Inv'
    OBVIOUS
  <2>1. B!TypeOK' /\ TurnInv'
    BY BotTypes, NextTurnInv
  <2>2. ~forced' => B!EachInTurn' /\ Informed'
    BY StaysForced, NextEachInTurn
  <2>3. forced' => B!EachInTurn'
    BY DEF B!EachInTurn
  <2> QED BY <2>1, <2>2, <2>3
<1>3. Inv => EachInTurn
  BY DEF EachInTurn
<1> QED
  BY <1>1, <1>2, <1>3, PTL DEF B!Spec

-----------------------------------------------------------------------------
(* The heartbeat engine: types *)

LEMMA BeatBounds ==
  /\ MaxSlots \in Nat /\ MaxTopics \in Nat /\ MaxEdits \in Nat /\ MaxFileEdits \in Nat
  /\ MaxTriggers \in Nat /\ MayToggle \in BOOLEAN
BY HeartbeatAssumption DEF HeartbeatAssumption

LEMMA BeatInit == E!Init => E!TypeOK
BY BeatBounds DEF E!Init, E!TypeOK, E!Task, E!Runner, E!Topic, E!NoTopic

LEMMA GoTyped ==
  ASSUME E!TypeOK, NEW r \in E!Runner,
         NEW p \in {"idle", "choose", "create", "open", "mode", "submit", "record", "merge"},
         E!Go(r, p)
  PROVE  /\ at2' \in [E!Runner -> {"idle", "choose", "create", "open", "mode", "submit",
                                   "record", "merge"}]
         /\ at2'[r] = p /\ \A q \in E!Runner : q # r => at2'[q] = at2[q]
BY DEF E!TypeOK, E!Go

LEMMA TaskTyped ==
  ASSUME NEW t \in E!Task
  PROVE  /\ t.there \in BOOLEAN /\ t.enabled \in BOOLEAN /\ t.fresh \in BOOLEAN
         /\ t.lastRun \in 0 .. MaxSlots
         /\ t.topic \in 0 .. MaxTopics /\ t.edit \in 0 .. MaxEdits + MaxFileEdits
BY DEF E!Task

LEMMA TaskMoves ==
  ASSUME NEW t \in E!Task
  PROVE  /\ \A n \in 0 .. MaxTopics : [t EXCEPT !.topic = n] \in E!Task
         /\ \A n \in 0 .. MaxSlots : [t EXCEPT !.lastRun = n] \in E!Task
         /\ \A n \in 0 .. MaxEdits + MaxFileEdits : [t EXCEPT !.edit = n] \in E!Task
         /\ \A n \in 0 .. MaxEdits + MaxFileEdits, b, c \in BOOLEAN :
               /\ [t EXCEPT !.edit = n, !.enabled = c, !.fresh = b] \in E!Task
               /\ [t EXCEPT !.edit = n, !.there = b] \in E!Task
         /\ \A n \in 0 .. MaxTopics, m \in 0 .. MaxSlots :
               [t EXCEPT !.topic = n, !.lastRun = m] \in E!Task
BY DEF E!Task

LEMMA PendingTyped ==
  ASSUME E!TypeOK
  PROVE  pendingTopic.topic \in 0 .. MaxTopics /\ pendingTopic.submitted \in BOOLEAN
BY DEF E!TypeOK

LEMMA BeatTypes == E!TypeOK /\ [E!Next]_(E!vars) => E!TypeOK'
<1> SUFFICES ASSUME E!TypeOK, [E!Next]_(E!vars) PROVE E!TypeOK'
  OBVIOUS
<1> USE DEF E!clock, E!lists, E!local, E!chats, E!counts, E!notes
<1>1. ASSUME NEW r \in E!Runner, E!Snapshot(r) PROVE E!TypeOK'
  BY <1>1, GoTyped DEF E!Snapshot, E!TypeOK
<1>2. ASSUME NEW r \in E!Runner, E!Choose(r) PROVE E!TypeOK'
  <2> DEFINE ready == IF copy[r].fresh THEN pendingTopic.topic ELSE copy[r].topic
  <2>1. ready \in 0 .. MaxTopics /\ (ready # 0 => ready \in E!Topic)
    <3>1. copy[r] \in E!Task
      BY DEF E!TypeOK
    <3> QED BY <3>1, TaskTyped, PendingTyped, BeatBounds DEF E!Topic
  <2>2. /\ E!Go(r, IF ready = 0 THEN "create" ELSE "open")
        /\ topicID' = [topicID EXCEPT ![r] = ready]
        /\ seen' = [seen EXCEPT ![r] = copy[r].fresh /\ pendingTopic.submitted]
        /\ UNCHANGED <<slot, tasks, file, panel, pendingTopic, copy, topics, turn, waits, edits,
                       fileEdits, runs>>
    BY <1>2 DEF E!Choose
  <2>3. (copy[r].fresh /\ pendingTopic.submitted) \in BOOLEAN
    <3>1. copy[r] \in E!Task
      BY DEF E!TypeOK
    <3> QED BY <3>1, TaskTyped, PendingTyped
  <2>4. at2' \in [E!Runner -> {"idle", "choose", "create", "open", "mode", "submit",
                               "record", "merge"}]
        /\ at2'[r] = (IF ready = 0 THEN "create" ELSE "open")
        /\ \A q \in E!Runner : q # r => at2'[q] = at2[q]
    BY <2>2, GoTyped
  <2> HIDE DEF ready
  <2> QED BY <2>1, <2>2, <2>3, <2>4 DEF E!TypeOK
<1>3. ASSUME NEW r \in E!Runner, E!Create(r) PROVE E!TypeOK'
  <2>1. topics' \in 0 .. MaxTopics /\ topics' \in E!Topic
    BY <1>3, BeatBounds DEF E!Create, E!TypeOK, E!Topic
  <2>2. [copy[r] EXCEPT !.topic = topics'] \in E!Task
    BY <2>1, TaskMoves DEF E!TypeOK
  <2>3. copy' = [copy EXCEPT ![r] = [copy[r] EXCEPT !.topic = topics']]
    BY <1>3 DEF E!Create, E!TypeOK
  <2>4. copy' \in [E!Runner -> E!Task] /\ topicID' \in [E!Runner -> 0 .. MaxTopics]
    BY <1>3, <2>1, <2>2, <2>3 DEF E!Create, E!TypeOK
  <2>5. pendingTopic' \in [topic : 0 .. MaxTopics, submitted : BOOLEAN]
    BY <1>3, <2>1 DEF E!Create, E!TypeOK
  <2>6. \A q \in E!Runner : at2'[q] \in {"open", "mode", "submit", "record"} => topicID'[q] \in E!Topic
    BY <1>3, <2>1, GoTyped DEF E!Create, E!TypeOK
  <2> QED BY <1>3, <2>1, <2>4, <2>5, <2>6, GoTyped DEF E!Create, E!TypeOK
<1>4. ASSUME NEW r \in E!Runner, E!Fail(r) \/ E!NotReady(r) \/ E!SubmitRefused(r) PROVE E!TypeOK'
  <2>1. [copy[r] EXCEPT !.lastRun = slot] \in E!Task
    BY TaskMoves DEF E!TypeOK
  <2>2. copy' \in [E!Runner -> E!Task]
    <3>1. CASE E!Fail(r)
      <4>1. copy' = [copy EXCEPT ![r] = [copy[r] EXCEPT !.lastRun = slot]]
        BY <3>1 DEF E!Fail, E!TypeOK
      <4> QED BY <2>1, <4>1 DEF E!TypeOK
    <3> QED BY <1>4, <3>1 DEF E!NotReady, E!SubmitRefused, E!TypeOK
  <2>3. E!Go(r, "merge")
        /\ UNCHANGED <<slot, tasks, file, panel, pendingTopic, topicID, seen, topics, turn, waits,
                       edits, fileEdits, runs>>
    BY <1>4 DEF E!Fail, E!NotReady, E!SubmitRefused
  <2> QED BY <2>2, <2>3, GoTyped DEF E!TypeOK
<1>5. ASSUME NEW r \in E!Runner, E!SkipBusy(r) \/ E!ForgetOver(r) \/ E!Idle(r) PROVE E!TypeOK'
  <2>1. PICK p \in {"merge", "choose", "mode"} : E!Go(r, p)
    BY <1>5 DEF E!SkipBusy, E!ForgetOver, E!Idle
  <2>2. at2[r] = "open" /\ topicID[r] \in E!Topic
    BY <1>5 DEF E!SkipBusy, E!ForgetOver, E!Idle, E!TypeOK
  <2>3. pendingTopic' \in [topic : 0 .. MaxTopics, submitted : BOOLEAN]
    <3>1. E!NoTopic \in [topic : 0 .. MaxTopics, submitted : BOOLEAN]
      BY BeatBounds DEF E!NoTopic
    <3>2. pendingTopic' = pendingTopic \/ pendingTopic' = E!NoTopic
      BY <1>5, Zenon DEF E!SkipBusy, E!ForgetOver, E!Idle
    <3> QED BY <3>1, <3>2 DEF E!TypeOK
  <2>4. UNCHANGED <<slot, tasks, file, panel, copy, topicID, seen, topics, turn, waits,
                    edits, fileEdits, runs>>
    BY <1>5 DEF E!SkipBusy, E!ForgetOver, E!Idle
  <2> QED BY <2>1, <2>2, <2>3, <2>4, GoTyped DEF E!TypeOK
<1>6. ASSUME NEW r \in E!Runner, E!SetMode(r) \/ E!Submit(r) PROVE E!TypeOK'
  <2>1. PICK p \in {"submit", "record"} : E!Go(r, p)
    BY <1>6 DEF E!SetMode, E!Submit
  <2>2. at2[r] \in {"mode", "submit"} /\ topicID[r] \in E!Topic
    BY <1>6 DEF E!SetMode, E!Submit, E!TypeOK
  <2>3. turn' \in [E!Topic -> {"none", "user", "task"}] /\ waits' \in [E!Topic -> BOOLEAN]
    BY <1>6, <2>2 DEF E!SetMode, E!Submit, E!TypeOK
  <2>4. runs' \in [0 .. MaxSlots -> Nat]
    BY <1>6 DEF E!SetMode, E!Submit, E!TypeOK
  <2>5. UNCHANGED <<slot, tasks, file, panel, pendingTopic, copy, topicID, seen, topics, edits,
                    fileEdits>>
    BY <1>6 DEF E!SetMode, E!Submit
  <2> QED BY <2>1, <2>2, <2>3, <2>4, <2>5, GoTyped DEF E!TypeOK
<1>7. ASSUME NEW r \in E!Runner, E!Record(r) PROVE E!TypeOK'
  <2>1. [copy[r] EXCEPT !.lastRun = slot] \in E!Task
    BY TaskMoves DEF E!TypeOK
  <2>2. copy' = [copy EXCEPT ![r] = [copy[r] EXCEPT !.lastRun = slot]]
    BY <1>7 DEF E!Record, E!TypeOK
  <2>3. pendingTopic' \in [topic : 0 .. MaxTopics, submitted : BOOLEAN]
    BY <1>7 DEF E!Record, E!TypeOK
  <2> QED BY <1>7, <2>1, <2>2, <2>3, GoTyped DEF E!Record, E!TypeOK
<1>8. ASSUME NEW r \in E!Runner, E!Merge(r) PROVE E!TypeOK'
  <2>1. E!Merged(r) \in E!Task
    <3>1. tasks \in E!Task /\ copy[r] \in E!Task
      BY DEF E!TypeOK
    <3> QED BY <3>1, TaskTyped, TaskMoves DEF E!Merged
  <2> QED BY <1>8, <2>1, GoTyped DEF E!Merge, E!TypeOK
<1>9. CASE E!PanelOpens
  <2>1. panel' \in E!Task /\ tasks' \in E!Task
    BY <1>9 DEF E!PanelOpens, E!TypeOK
  <2>2. pendingTopic' \in [topic : 0 .. MaxTopics, submitted : BOOLEAN]
    BY <1>9, BeatBounds DEF E!PanelOpens, E!Prune, E!NoTopic, E!TypeOK
  <2> QED BY <1>9, <2>1, <2>2 DEF E!PanelOpens, E!TypeOK
<1>10. CASE E!PanelSaves
  <2>1. edits' \in 0 .. MaxEdits /\ edits' \in 0 .. MaxEdits + MaxFileEdits
    <3>1. edits < MaxEdits /\ edits' = edits + 1
      BY <1>10, Zenon DEF E!PanelSaves
    <3> QED BY <3>1, BeatBounds DEF E!TypeOK
  <2>2. panel' \in E!Task
    <3>1. panel \in E!Task /\ panel.fresh \in BOOLEAN
      BY TaskTyped DEF E!TypeOK
    <3>2. (\E on \in BOOLEAN, f \in IF MayToggle THEN BOOLEAN ELSE {panel.fresh} :
             panel' = [panel EXCEPT !.edit = edits', !.enabled = on, !.fresh = f])
          \/ panel' = [panel EXCEPT !.edit = edits', !.there = FALSE]
      BY <1>10, Zenon DEF E!PanelSaves
    <3>3. CASE panel' = [panel EXCEPT !.edit = edits', !.there = FALSE]
      BY <2>1, <3>1, <3>3, TaskMoves
    <3>4. ASSUME NEW on \in BOOLEAN, NEW f \in IF MayToggle THEN BOOLEAN ELSE {panel.fresh},
                 panel' = [panel EXCEPT !.edit = edits', !.enabled = on, !.fresh = f]
          PROVE  panel' \in E!Task
      <4>1. f \in BOOLEAN
        BY <3>1
      <4> QED BY <2>1, <3>1, <3>4, <4>1, TaskMoves
    <3> QED BY <3>2, <3>3, <3>4
  <2>3. pendingTopic' \in [topic : 0 .. MaxTopics, submitted : BOOLEAN]
    <3>1. E!NoTopic \in [topic : 0 .. MaxTopics, submitted : BOOLEAN]
      BY BeatBounds DEF E!NoTopic
    <3>2. E!Prune(panel')
      BY <1>10, Zenon DEF E!PanelSaves
    <3> QED BY <3>1, <3>2 DEF E!TypeOK, E!Prune
  <2>4. tasks' = panel' /\ file' = panel'
        /\ UNCHANGED <<slot, at2, copy, topicID, seen, topics, turn, waits, fileEdits, runs>>
    BY <1>10 DEF E!PanelSaves
  <2> QED BY <2>1, <2>2, <2>3, <2>4 DEF E!TypeOK
<1>11. CASE E!EditFile
  <2>1. fileEdits' \in 0 .. MaxFileEdits /\ MaxEdits + fileEdits' \in 0 .. MaxEdits + MaxFileEdits
    BY <1>11, BeatBounds DEF E!EditFile, E!TypeOK
  <2>2. file' \in E!Task
    BY <1>11, <2>1, TaskMoves DEF E!EditFile, E!TypeOK
  <2> QED BY <1>11, <2>1, <2>2 DEF E!EditFile, E!TypeOK
<1>12. ASSUME NEW t \in E!Topic, E!UserTurn(t) \/ E!AskUser(t) \/ E!TurnEnds(t) PROVE E!TypeOK'
  BY <1>12 DEF E!UserTurn, E!AskUser, E!TurnEnds, E!TypeOK
<1>13. CASE E!SlotComes
  BY <1>13, BeatBounds DEF E!SlotComes, E!TypeOK
<1>14. CASE UNCHANGED E!vars
  BY <1>14 DEF E!vars, E!TypeOK
<1> QED
  BY <1>1, <1>2, <1>3, <1>4, <1>5, <1>6, <1>7, <1>8, <1>9, <1>10, <1>11, <1>12, <1>13, <1>14
  DEF E!Next, E!Execute

\* The tasks, the topics and the copies that the runners work on keep their types.
THEOREM HeartbeatTypes == E!Spec => []E!TypeOK
BY BeatInit, BeatTypes, PTL DEF E!Spec

-----------------------------------------------------------------------------
(* The heartbeat engine: edits *)

\* A run's end writes the topic and the last run only.
LEMMA MergedKeeps ==
  ASSUME E!TypeOK, NEW r \in E!Runner
  PROVE  /\ E!Merged(r).edit = tasks.edit /\ E!Merged(r).there = tasks.there
         /\ E!Merged(r).fresh = tasks.fresh
BY DEF E!Merged, E!TypeOK, E!Task

LEMMA NextEdits == E!TypeOK /\ EditsKept /\ [E!Next]_(E!vars) => EditsKept'
<1> SUFFICES ASSUME E!TypeOK, EditsKept, [E!Next]_(E!vars) PROVE EditsKept'
  OBVIOUS
<1> USE DEF E!clock, E!lists, E!local, E!chats, E!counts, E!notes
<1>1. ASSUME UNCHANGED <<tasks, file, saved, fileEdits>> PROVE EditsKept'
  BY <1>1 DEF EditsKept, E!EditsKept
<1>2. ASSUME NEW r \in E!Runner, E!Execute(r) PROVE EditsKept'
  <2>1. CASE E!Merge(r)
    BY <2>1, MergedKeeps DEF E!Merge, EditsKept, E!EditsKept
  <2>2. CASE E!Snapshot(r) \/ E!Choose(r) \/ E!Create(r) \/ E!Fail(r) \/ E!NotReady(r) \/ E!SkipBusy(r)
    BY <1>1, <2>2, Zenon DEF E!Snapshot, E!Choose, E!Create, E!Fail, E!NotReady, E!SkipBusy
  <2>3. CASE E!ForgetOver(r) \/ E!Idle(r) \/ E!SetMode(r) \/ E!Submit(r) \/ E!SubmitRefused(r)
             \/ E!Record(r)
    BY <1>1, <2>3, Zenon DEF E!ForgetOver, E!Idle, E!SetMode, E!Submit, E!SubmitRefused, E!Record
  <2> QED BY <1>2, <2>1, <2>2, <2>3 DEF E!Execute
<1>3. CASE E!PanelOpens
  BY <1>3 DEF E!PanelOpens, EditsKept, E!EditsKept
<1>4. CASE E!PanelSaves
  <2>1. panel \in E!Task
    BY DEF E!TypeOK
  <2>2. tasks' = panel' /\ file' = panel' /\ saved' = edits'
    BY <1>4, Zenon DEF E!PanelSaves
  <2>3. panel'.edit = edits'
    <3>1. (\E on, f : panel' = [panel EXCEPT !.edit = edits', !.enabled = on, !.fresh = f])
          \/ panel' = [panel EXCEPT !.edit = edits', !.there = FALSE]
      BY <1>4, Zenon DEF E!PanelSaves
    <3> QED BY <2>1, <3>1 DEF E!Task
  <2> QED BY <2>2, <2>3 DEF EditsKept, E!EditsKept
<1>5. CASE E!EditFile
  <2>1. fileEdits' # 0
    BY <1>5, BeatBounds DEF E!EditFile, E!TypeOK
  <2> QED BY <1>5, <2>1 DEF E!EditFile, EditsKept, E!EditsKept
<1>6. ASSUME NEW t \in E!Topic, E!UserTurn(t) \/ E!AskUser(t) \/ E!TurnEnds(t) PROVE EditsKept'
  BY <1>1, <1>6, Zenon DEF E!UserTurn, E!AskUser, E!TurnEnds
<1>7. CASE E!SlotComes
  BY <1>1, <1>7 DEF E!SlotComes
<1>8. CASE UNCHANGED E!vars
  BY <1>1, <1>8 DEF E!vars
<1> QED
  BY <1>2, <1>3, <1>4, <1>5, <1>6, <1>7, <1>8 DEF E!Next

\* Whatever run began before a save of the panel and ends after it, the task list holds
\* what the panel saved or loaded last, and so does the file while nobody else writes it;
\* mergeRunUpdatesLocked brings no deleted task back.
THEOREM EditsStay == E!Spec => []EditsKept
<1>1. E!Init => EditsKept
  BY DEF E!Init, EditsKept, E!EditsKept
<1> QED
  BY <1>1, BeatInit, BeatTypes, NextEdits, PTL DEF E!Spec

-----------------------------------------------------------------------------
(* The heartbeat engine: runs *)

\* There is one panel, and it holds the task as long as the engine does.
OneList ==
  /\ file.there = tasks.there /\ panel.there = tasks.there
  /\ file.fresh = tasks.fresh /\ panel.fresh = tasks.fresh

\* While the task is in the list, the ticker alone touches the pending topic: what it has
\* read of it in a run still holds, and a run of the task that is not over is recorded
\* in it or about to be.
Tracked ==
  tasks.there /\ tasks.fresh =>
    /\ pendingTopic.submitted => pendingTopic.topic # 0
    /\ at2["tick"] # "idle" => copy["tick"].fresh
    /\ at2["tick"] = "create" => pendingTopic.topic = 0 /\ ~seen["tick"]
    /\ at2["tick"] = "open" => pendingTopic.topic = topicID["tick"]
                               /\ pendingTopic.submitted = seen["tick"]
    /\ at2["tick"] \in {"mode", "submit"} => \A t \in E!Topic : turn[t] # "task"
    /\ \A t \in E!Topic : turn[t] = "task" =>
         IF at2["tick"] = "record" THEN t = topicID["tick"]
         ELSE pendingTopic.topic = t /\ pendingTopic.submitted

TickOnly == at2["trigger"] = "idle" /\ triggers = 0
RunInv == OneList /\ TickOnly /\ Tracked

\* The runner of a step is the ticker.
LEMMA TheTicker ==
  ASSUME MaxTriggers = 0, TickOnly, NEW r \in E!Runner, E!Execute(r)
  PROVE  r = "tick"
<1> SUFFICES ASSUME r = "trigger" PROVE FALSE
  BY DEF E!Runner
<1>1. at2[r] = "idle" /\ ~(triggers < MaxTriggers)
  BY DEF TickOnly
<1>2. ~E!Snapshot(r)
  BY <1>1 DEF E!Snapshot
<1> QED
  BY <1>1, <1>2 DEF E!Execute, E!Choose, E!Create, E!Fail, E!NotReady, E!SkipBusy, E!ForgetOver,
                    E!Idle, E!SetMode, E!Submit, E!SubmitRefused, E!Record,
                      E!Merge

LEMMA NextOneList ==
  ASSUME MayToggle = FALSE, E!TypeOK, OneList, [E!Next]_(E!vars)
  PROVE  OneList' /\ tasks'.there \in {tasks.there, FALSE} /\ tasks'.fresh = tasks.fresh
<1> USE DEF E!clock, E!lists, E!local, E!chats, E!counts, E!notes
<1>0. tasks.there \in BOOLEAN
  BY TaskTyped DEF E!TypeOK
<1>1. ASSUME UNCHANGED <<tasks, file, panel>>
      PROVE  OneList' /\ tasks'.there \in {tasks.there, FALSE} /\ tasks'.fresh = tasks.fresh
  BY <1>1 DEF OneList
<1>2. ASSUME NEW r \in E!Runner, E!Execute(r)
      PROVE  OneList' /\ tasks'.there \in {tasks.there, FALSE} /\ tasks'.fresh = tasks.fresh
  <2>1. CASE E!Merge(r)
    BY <2>1, MergedKeeps DEF E!Merge, OneList
  <2>2. CASE E!Snapshot(r) \/ E!Choose(r) \/ E!Create(r) \/ E!Fail(r) \/ E!NotReady(r) \/ E!SkipBusy(r)
    BY <1>1, <2>2, Zenon DEF E!Snapshot, E!Choose, E!Create, E!Fail, E!NotReady, E!SkipBusy
  <2>3. CASE E!ForgetOver(r) \/ E!Idle(r) \/ E!SetMode(r) \/ E!Submit(r) \/ E!SubmitRefused(r)
             \/ E!Record(r)
    BY <1>1, <2>3, Zenon DEF E!ForgetOver, E!Idle, E!SetMode, E!Submit, E!SubmitRefused, E!Record
  <2> QED BY <1>2, <2>1, <2>2, <2>3 DEF E!Execute
<1>3. CASE E!PanelOpens
  BY <1>3 DEF E!PanelOpens, OneList
<1>4. CASE E!PanelSaves
  <2>1. panel \in E!Task
    BY DEF E!TypeOK
  <2>2. tasks' = panel' /\ file' = panel' /\ panel.there
    BY <1>4, Zenon DEF E!PanelSaves
  <2>3. (\E on : panel' = [panel EXCEPT !.edit = edits', !.enabled = on, !.fresh = panel.fresh])
        \/ panel' = [panel EXCEPT !.edit = edits', !.there = FALSE]
    BY <1>4, Zenon DEF E!PanelSaves
  <2>4. panel'.fresh = panel.fresh /\ panel'.there \in {panel.there, FALSE}
    BY <2>1, <2>3 DEF E!Task
  <2> QED BY <2>2, <2>4 DEF OneList
<1>5. CASE E!EditFile
  <2>1. file'.there = file.there /\ file'.fresh = file.fresh /\ UNCHANGED <<tasks, panel>>
    BY <1>5 DEF E!EditFile, E!TypeOK, E!Task
  <2> QED BY <2>1 DEF OneList
<1>6. ASSUME NEW t \in E!Topic, E!UserTurn(t) \/ E!AskUser(t) \/ E!TurnEnds(t)
      PROVE  OneList' /\ tasks'.there \in {tasks.there, FALSE} /\ tasks'.fresh = tasks.fresh
  BY <1>1, <1>6, Zenon DEF E!UserTurn, E!AskUser, E!TurnEnds
<1>7. CASE E!SlotComes
  BY <1>1, <1>7 DEF E!SlotComes
<1>8. CASE UNCHANGED E!vars
  BY <1>1, <1>8 DEF E!vars
<1> QED
  BY <1>2, <1>3, <1>4, <1>5, <1>6, <1>7, <1>8 DEF E!Next

LEMMA NextTickOnly ==
  ASSUME MaxTriggers = 0, E!TypeOK, TickOnly, [E!Next]_(E!vars)
  PROVE  TickOnly'
<1> USE DEF E!clock, E!lists, E!local, E!chats, E!counts, E!notes
<1>1. ASSUME UNCHANGED <<at2, triggers>> PROVE TickOnly'
  BY <1>1 DEF TickOnly
<1>2. ASSUME NEW r \in E!Runner, E!Execute(r) PROVE TickOnly'
  <2>1. r = "tick"
    BY <1>2, TheTicker
  <2>2. UNCHANGED triggers
    BY <1>2, <2>1 DEF E!Execute, E!Snapshot, E!Choose, E!Create, E!Fail, E!NotReady, E!SkipBusy,
                      E!ForgetOver, E!Idle, E!SetMode, E!Submit, E!SubmitRefused, E!Record,
                      E!Merge
  <2>3. \E p : at2' = [at2 EXCEPT !["tick"] = p]
    BY <1>2, <2>1 DEF E!Execute, E!Snapshot, E!Choose, E!Create, E!Fail, E!NotReady, E!SkipBusy,
                      E!ForgetOver, E!Idle, E!SetMode, E!Submit, E!SubmitRefused, E!Record,
                      E!Merge, E!Go
  <2> QED BY <2>2, <2>3 DEF TickOnly, E!TypeOK, E!Runner
<1>3. CASE E!PanelOpens \/ E!PanelSaves \/ E!EditFile \/ E!SlotComes
  BY <1>1, <1>3, Zenon DEF E!PanelOpens, E!PanelSaves, E!EditFile, E!SlotComes
<1>4. ASSUME NEW t \in E!Topic, E!UserTurn(t) \/ E!AskUser(t) \/ E!TurnEnds(t) PROVE TickOnly'
  BY <1>1, <1>4, Zenon DEF E!UserTurn, E!AskUser, E!TurnEnds
<1>5. CASE UNCHANGED E!vars
  BY <1>1, <1>5 DEF E!vars
<1> QED
  BY <1>2, <1>3, <1>4, <1>5 DEF E!Next

LEMMA NextTracked ==
  ASSUME MaxTriggers = 0, MayToggle = FALSE, E!TypeOK, E!TypeOK', RunInv, [E!Next]_(E!vars)
  PROVE  Tracked'
<1> USE DEF E!clock, E!lists, E!local, E!chats, E!counts, E!notes
<1>1. SUFFICES ASSUME tasks'.there, tasks'.fresh PROVE Tracked'
  BY DEF Tracked
<1>2. tasks.there /\ tasks.fresh
  BY <1>1, NextOneList DEF RunInv
<1>3. ASSUME UNCHANGED <<pendingTopic, at2, copy, topicID, seen>>,
             \A t \in E!Topic : turn'[t] = "task" => turn[t] = "task"
      PROVE  Tracked'
  BY <1>2, <1>3 DEF RunInv, Tracked
<1>4. "tick" \in E!Runner
  BY DEF E!Runner
<1>5. ASSUME NEW p, E!Go("tick", p) PROVE at2'["tick"] = p
  BY <1>4, <1>5 DEF E!Go, E!TypeOK
<1>6. ASSUME NEW r \in E!Runner, E!Execute(r) PROVE Tracked'
  <2>0. r = "tick"
    BY <1>6, TheTicker DEF RunInv
  <2>1. CASE E!Snapshot("tick")
    BY <1>2, <1>4, <1>5, <2>1 DEF E!Snapshot, RunInv, Tracked, E!TypeOK
  <2>2. CASE E!Choose("tick")
    <3>1. copy["tick"].fresh /\ at2["tick"] = "choose"
      BY <1>2, <2>2 DEF E!Choose, RunInv, Tracked
    <3>2. topicID' = [topicID EXCEPT !["tick"] = pendingTopic.topic]
          /\ seen' = [seen EXCEPT !["tick"] = copy["tick"].fresh /\ pendingTopic.submitted]
          /\ UNCHANGED <<pendingTopic, copy, turn>>
          /\ E!Go("tick", IF pendingTopic.topic = 0 THEN "create" ELSE "open")
      BY <2>2, <3>1 DEF E!Choose
    <3>3. topicID'["tick"] = pendingTopic.topic /\ seen'["tick"] = pendingTopic.submitted
      BY <1>4, <3>1, <3>2, PendingTyped DEF E!TypeOK
    <3>4. at2'["tick"] = IF pendingTopic.topic = 0 THEN "create" ELSE "open"
      BY <1>5, <3>2
    <3> QED BY <1>2, <3>1, <3>2, <3>3, <3>4, PendingTyped DEF RunInv, Tracked
  <2>3. CASE E!Create("tick")
    <3>1. copy["tick"].fresh /\ pendingTopic.topic = 0 /\ at2["tick"] = "create"
      BY <1>2, <2>3 DEF E!Create, RunInv, Tracked
    <3>2. \A t \in E!Topic : turn[t] # "task"
      BY <1>2, <3>1 DEF RunInv, Tracked, E!Topic
    <3>3. at2'["tick"] = "open" /\ seen' = seen /\ turn' = turn
      BY <1>5, <2>3 DEF E!Create
    <3>4. copy'["tick"].fresh
      BY <1>4, <2>3, <3>1 DEF E!Create, E!TypeOK, E!Task
    <3>5. pendingTopic'.topic = topicID'["tick"] /\ pendingTopic'.submitted = FALSE
      BY <1>4, <2>3, <3>1 DEF E!Create, E!TypeOK
    <3>6. seen["tick"] = FALSE
      BY <2>3, <3>1, <1>2 DEF RunInv, Tracked
    <3> QED BY <3>2, <3>3, <3>4, <3>5, <3>6 DEF Tracked
  <2>4. CASE E!Fail("tick")
    BY <1>2, <1>4, <1>5, <2>4 DEF E!Fail, RunInv, Tracked, E!TypeOK
  <2>5. CASE E!NotReady("tick")
    BY <1>2, <1>4, <1>5, <2>5 DEF E!NotReady, RunInv, Tracked, E!TypeOK
  <2>6. CASE E!SkipBusy("tick")
    BY <1>2, <1>4, <1>5, <2>6 DEF E!SkipBusy, RunInv, Tracked, E!TypeOK
  <2>7. CASE E!ForgetOver("tick")
    <3>1. copy["tick"].fresh /\ at2["tick"] = "open" /\ topicID["tick"] \in E!Topic
          /\ turn[topicID["tick"]] = "none" /\ seen["tick"]
      BY <1>2, <1>4, <2>7 DEF E!ForgetOver, E!Busy, RunInv, Tracked, E!TypeOK
    <3>2. \A t \in E!Topic : turn[t] = "task" => t = topicID["tick"]
      BY <1>2, <3>1 DEF RunInv, Tracked
    <3>3. \A t \in E!Topic : turn[t] # "task"
      BY <3>1, <3>2
    <3>4. at2'["tick"] = "choose" /\ UNCHANGED <<copy, turn>>
      BY <1>5, <2>7 DEF E!ForgetOver
    <3>5. pendingTopic' \in {pendingTopic, E!NoTopic}
      BY <2>7 DEF E!ForgetOver
    <3>6. pendingTopic'.submitted => pendingTopic'.topic # 0
      BY <1>2, <3>1, <3>5 DEF E!NoTopic, RunInv, Tracked
    <3> QED BY <3>1, <3>3, <3>4, <3>6 DEF Tracked
  <2>8. CASE E!Idle("tick")
    BY <1>2, <1>4, <1>5, <2>8 DEF E!Idle, E!Busy, RunInv, Tracked, E!TypeOK
  <2>9. CASE E!SetMode("tick")
    BY <1>2, <1>4, <1>5, <2>9 DEF E!SetMode, RunInv, Tracked, E!TypeOK
  <2>10. CASE E!Submit("tick")
    BY <1>2, <1>4, <1>5, <2>10 DEF E!Submit, RunInv, Tracked, E!TypeOK
  <2>11. CASE E!Record("tick")
    <3>1. copy["tick"].fresh /\ \A t \in E!Topic : turn[t] = "task" => t = topicID["tick"]
      BY <1>2, <2>11 DEF E!Record, RunInv, Tracked
    <3>2. at2'["tick"] = "merge" /\ turn' = turn
      BY <1>5, <2>11 DEF E!Record
    <3>3. copy'["tick"].fresh
      BY <1>4, <2>11, <3>1 DEF E!Record, E!TypeOK, E!Task
    <3>4. pendingTopic'.topic = topicID["tick"] /\ pendingTopic'.submitted
      BY <2>11, <3>1 DEF E!Record
    <3>5. topicID["tick"] # 0
      BY <1>4, <2>11 DEF E!Record, E!TypeOK, E!Topic
    <3>6. UNCHANGED topicID
      BY <2>11 DEF E!Record
    <3> QED BY <3>1, <3>2, <3>3, <3>4, <3>5, <3>6 DEF Tracked
  <2>12. CASE E!Merge("tick")
    BY <1>2, <1>4, <1>5, <2>12 DEF E!Merge, RunInv, Tracked, E!TypeOK
  <2>13. CASE E!SubmitRefused("tick")
    BY <1>2, <1>4, <1>5, <2>13 DEF E!SubmitRefused, RunInv, Tracked, E!TypeOK
  <2> QED BY <1>6, <2>0, <2>1, <2>2, <2>3, <2>4, <2>5, <2>6, <2>7, <2>8, <2>9, <2>10, <2>11, <2>12,
          <2>13 DEF E!Execute
<1>7. CASE E!PanelOpens \/ E!PanelSaves
  <2>1. UNCHANGED <<at2, copy, topicID, seen, turn>> /\ E!Prune(tasks')
    BY <1>7, Zenon DEF E!PanelOpens, E!PanelSaves
  <2>2. UNCHANGED pendingTopic
    BY <1>1, <2>1 DEF E!Prune
  <2> QED BY <1>3, <2>1, <2>2
<1>8. CASE E!EditFile \/ E!SlotComes
  BY <1>3, <1>8 DEF E!EditFile, E!SlotComes
<1>9. ASSUME NEW t \in E!Topic, E!UserTurn(t) \/ E!AskUser(t) \/ E!TurnEnds(t) PROVE Tracked'
  <2>1. UNCHANGED <<pendingTopic, at2, copy, topicID, seen>>
    BY <1>9, Zenon DEF E!UserTurn, E!AskUser, E!TurnEnds
  <2>2. \A u \in E!Topic : turn'[u] = "task" => turn[u] = "task"
    BY <1>9 DEF E!UserTurn, E!AskUser, E!TurnEnds, E!TypeOK
  <2> QED BY <1>3, <2>1, <2>2
<1>10. CASE UNCHANGED E!vars
  BY <1>3, <1>10 DEF E!vars
<1> QED
  BY <1>6, <1>7, <1>8, <1>9, <1>10 DEF E!Next

\* With the ticker as the only caller of executeTask, and the kind of conversation left
\* alone, a submitted topic is asked again before the next one is created: two runs of a
\* task with fresh conversations do not work at the same time.
THEOREM RunsApart ==
  ASSUME MaxTriggers = 0, MayToggle = FALSE
  PROVE  E!Spec => []RunsDoNotOverlap
<1>1. E!Init => E!TypeOK /\ RunInv
  <2> SUFFICES ASSUME E!Init PROVE E!TypeOK /\ RunInv
    OBVIOUS
  <2>1. E!TypeOK
    BY BeatInit
  <2>2. OneList /\ TickOnly
    BY DEF E!Init, OneList, TickOnly, E!Runner
  <2>3. Tracked
    BY DEF E!Init, E!NoTopic, Tracked, E!Runner
  <2> QED BY <2>1, <2>2, <2>3 DEF RunInv
<1>2. E!TypeOK /\ RunInv /\ [E!Next]_(E!vars) => E!TypeOK' /\ RunInv'
  <2> SUFFICES ASSUME E!TypeOK, RunInv, [E!Next]_(E!vars) PROVE E!TypeOK' /\ RunInv'
    OBVIOUS
  <2>1. E!TypeOK'
    BY BeatTypes
  <2>2. OneList' /\ TickOnly'
    BY NextOneList, NextTickOnly DEF RunInv
  <2>3. Tracked'
    BY <2>1, NextTracked
  <2> QED BY <2>1, <2>2, <2>3 DEF RunInv
<1>3. RunInv => RunsDoNotOverlap
  BY DEF RunInv, Tracked, RunsDoNotOverlap, E!RunsDoNotOverlap
<1> QED
  BY <1>1, <1>2, <1>3, PTL DEF E!Spec

-----------------------------------------------------------------------------
(* The ACP service: types *)

LEMMA AcpBounds ==
  /\ MaxRequests \in Nat /\ MaxAsks \in Nat /\ MaxJobs \in Nat
  /\ Kinds \subseteq {"prompt", "cancel", "model", "effort", "close", "delete", "load"}
BY AcpAssumption DEF AcpAssumption

\* A handler is where its kind of request takes it.
AcpPlacedAt(r) ==
  /\ r <= requests <=> pc[r] # "none"
  /\ r <= requests <=> kind[r] # "none"
  /\ pc[r] \in {"open", "register"} => kind[r] = "load"
  /\ pc[r] \in {"stop", "wait", "release"} => kind[r] \in {"close", "delete"}
  /\ pc[r] \in {"remove", "later"} => kind[r] = "delete"
  /\ pc[r] = "compute" => kind[r] \in A!Switch

AcpPlaced == \A r \in A!Request : AcpPlacedAt(r)

\* A prompt or a switch that works on the session, and one that ends it.
Using == {"begin", "turn", "persist", "finish", "apply", "take", "compute", "rebuild", "restore"}
Ending == {"stop", "wait", "release"}

\* It has found the session it works on.
AcpFound == \A r \in A!Request :
  pc[r] \in Using \cup Ending \cup {"later", "register"} => obj[r] # 0

\* The requests that have had their chance to build a controller.
AcpSpent == {r \in A!Request : pc[r] \in {"answered", "register"}}
AcpCounted == built <= 1 + Cardinality(AcpSpent)

AcpTyped == A!TypeOK /\ AcpPlaced /\ AcpFound /\ AcpCounted

LEMMA AcpFlagsInit == A!Init => A!Flags
BY Zenon DEF A!Init, A!Flags

LEMMA AcpInit == A!Init => AcpTyped
<1> SUFFICES ASSUME A!Init PROVE AcpTyped
  OBVIOUS
<1>1. A!TypeOK
  BY AcpFlagsInit, AcpBounds DEF A!Init, A!TypeOK, A!HandlersTyped, A!ConfigsTyped, A!ObjectsTyped,
     A!TurnsTyped, A!Request, A!Built, A!Config, A!None, A!First, A!Place
<1>2. AcpPlaced /\ AcpFound
  BY AcpBounds DEF A!Init, AcpPlaced, AcpPlacedAt, AcpFound, A!Request, Using, Ending
<1>3. AcpSpent = {}
  BY DEF A!Init, AcpSpent
<1> QED
  BY <1>1, <1>2, <1>3, FS_EmptySet DEF A!Init, AcpTyped, AcpCounted

LEMMA AcpFlagsStep ==
  ASSUME A!Flags, [A!Next]_A!vars
  PROVE  A!Flags'
<1> USE DEF A!Flags, A!client, A!handler, A!object, A!turn, A!core, A!disk, A!notes
<1>1. ASSUME NEW k \in Kinds, A!Receive(k) PROVE A!Flags'
  BY <1>1, Zenon DEF A!Receive, A!Goes
<1>2. CASE A!HangUp
  BY <1>2, Zenon DEF A!HangUp
<1>3. CASE A!ServeReturns
  BY <1>3, Zenon DEF A!ServeReturns
<1>4. CASE A!JobEnds
  BY <1>4, Zenon DEF A!JobEnds
<1>5. ASSUME NEW r \in A!Request, A!Handler(r) \/ A!Ask(r) \/ A!Reply(r) PROVE A!Flags'
  <2>1. CASE A!LookPrompt(r)
    BY <2>1, Zenon DEF A!LookPrompt, A!Starts, A!Ends, A!Finds, A!Goes
  <2>2. CASE A!Begin(r)
    BY <2>2, Zenon DEF A!Begin, A!Goes
  <2>3. CASE A!Ask(r)
    BY <2>3, Zenon DEF A!Ask
  <2>4. CASE A!Reply(r)
    BY <2>4, Zenon DEF A!Reply
  <2>5. CASE A!StopAsking(r)
    BY <2>5, Zenon DEF A!StopAsking
  <2>6. CASE A!TurnEnds(r)
    BY <2>6, Zenon DEF A!TurnEnds, A!Goes, A!Ctrl, A!Written, A!Cancelled
  <2>7. CASE A!Persist(r)
    BY <2>7, Zenon DEF A!Persist, A!Goes, A!Written, A!Ctrl
  <2>8. CASE A!Finish(r)
    BY <2>8, Zenon DEF A!Finish, A!Goes, A!Ctrl
  <2>9. CASE A!Apply(r)
    BY <2>9, Zenon DEF A!Apply, A!Goes
  <2>10. CASE A!Restore(r)
    BY <2>10, Zenon DEF A!Restore, A!Goes
  <2>11. CASE A!CancelTurn(r)
    BY <2>11, Zenon DEF A!CancelTurn, A!Starts, A!Ends, A!Goes
  <2>12. CASE A!LookSwitch(r)
    BY <2>12, Zenon DEF A!LookSwitch, A!Ends, A!Finds, A!Goes
  <2>13. CASE A!Compute(r)
    BY <2>13, Zenon DEF A!Compute, A!Goes, A!At
  <2>14. CASE A!RefuseRebuild(r)
    BY <2>14, Zenon DEF A!RefuseRebuild, A!Goes
  <2>15. CASE A!QueueRebuild(r)
    BY <2>15, Zenon DEF A!QueueRebuild, A!Goes, A!Accepts
  <2>16. CASE A!Rebuild(r)
    BY <2>16, Zenon DEF A!Rebuild, A!Goes, A!Accepts, A!Written, A!Ctrl, A!Adopts, A!Releases
  <2>17. CASE A!RebuildFails(r)
    <3>1. failed' \subseteq {"build", "save", "mark"}
      BY <2>17 DEF A!RebuildFails
    <3>2. UNCHANGED <<eof, served, marked, erased>>
      BY <2>17, Zenon DEF A!RebuildFails
    <3> QED BY <3>1, <3>2, Zenon
  <2>18. CASE A!Take(r)
    BY <2>18, Zenon DEF A!Take, A!Finds, A!Goes, A!Ends
  <2>19. CASE A!Stop(r)
    BY <2>19, Zenon DEF A!Stop, A!Goes
  <2>20. CASE A!Stopped(r)
    BY <2>20, Zenon DEF A!Stopped, A!Goes
  <2>21. CASE A!CloseController(r)
    BY <2>21, Zenon DEF A!CloseController, A!Goes, A!Ctrl
  <2>22. CASE A!Destroy(r)
    <3>1. failed' \subseteq {"build", "save", "mark"}
      BY <2>22 DEF A!Destroy
    <3>2. UNCHANGED <<eof, served, erased>> /\ (marked' = TRUE \/ UNCHANGED marked)
      BY <2>22, Zenon DEF A!Destroy
    <3> QED BY <3>1, <3>2, Zenon
  <2>23. CASE A!Remove(r)
    BY <2>23, Zenon DEF A!Remove, A!Goes
  <2>24. CASE A!RemoveLater(r)
    BY <2>24, Zenon DEF A!RemoveLater, A!Goes
  <2>25. CASE A!LookLoad(r)
    BY <2>25, Zenon DEF A!LookLoad, A!Starts, A!Goes
  <2>26. CASE A!Open(r)
    BY <2>26, Zenon DEF A!Open, A!Goes, A!Ends, A!Finds
  <2>27. CASE A!Register(r)
    BY <2>27, Zenon DEF A!Register, A!Goes
  <2>28. CASE A!TakePending(r)
    BY <2>28, Zenon DEF A!TakePending, A!Goes
  <2>29. CASE A!OpenFails(r)
    BY <2>29, Zenon DEF A!OpenFails, A!Ends, A!Goes
  <2> HIDE DEF A!Flags, A!client, A!handler, A!object, A!turn, A!core, A!disk, A!notes
  <2> QED
    BY <1>5, <2>1, <2>2, <2>3, <2>4, <2>5, <2>6, <2>7, <2>8, <2>9, <2>10, <2>11, <2>12, <2>13,
            <2>14, <2>15, <2>16, <2>17, <2>18, <2>19, <2>20, <2>21, <2>22, <2>23, <2>24,
            <2>25, <2>26, <2>27, <2>28, <2>29
       DEF A!Handler, A!Prompt, A!Switches, A!Rebuilds, A!Closes, A!Loads
<1>6. CASE UNCHANGED A!vars
  BY <1>6, Zenon DEF A!vars
<1> HIDE DEF A!Flags, A!client, A!handler, A!object, A!turn, A!core, A!disk, A!notes
<1> QED
  BY <1>1, <1>2, <1>3, <1>4, <1>5, <1>6 DEF A!Next

LEMMA AcpRoom ==
  ASSUME AcpTyped, NEW r \in A!Request, r \notin AcpSpent
  PROVE  built + 1 \in A!Built /\ opened + 1 \in A!Built
<1>1. IsFiniteSet(A!Request) /\ Cardinality(A!Request) = MaxRequests
  BY AcpBounds, FS_Interval DEF A!Request
<1>2. AcpSpent \subseteq A!Request \ {r}
  BY DEF AcpSpent
<1>3. IsFiniteSet(A!Request \ {r}) /\ Cardinality(A!Request \ {r}) = MaxRequests - 1
  BY <1>1, FS_RemoveElement
<1>4. Cardinality(AcpSpent) <= MaxRequests - 1 /\ Cardinality(AcpSpent) \in Nat
  BY <1>2, <1>3, FS_Subset, FS_CardinalityType
<1> QED
  BY <1>4, AcpBounds DEF AcpTyped, AcpCounted, A!TypeOK, A!ObjectsTyped, A!Built

\* The session and the controller a handler works on are there.
LEMMA AcpCtrl ==
  ASSUME AcpTyped, NEW r \in A!Request,
         pc[r] \in Using \cup Ending \cup {"later", "register"}
  PROVE  /\ obj[r] \in 1 .. opened /\ obj[r] \in A!Built
         /\ A!Ctrl(r) \in 1 .. built /\ A!Ctrl(r) \in A!Built
         /\ history[A!Ctrl(r)] \subseteq A!Request /\ A!Written(history[A!Ctrl(r)]) \subseteq A!Request
<1> USE DEF AcpTyped, A!TypeOK
<1>1. obj[r] \in 1 .. opened /\ obj[r] \in A!Built /\ opened \in A!Built /\ built \in A!Built
  BY AcpBounds DEF AcpFound, A!HandlersTyped, A!ObjectsTyped, A!Built
<1>2. ctrl[obj[r]] \in 1 .. built
  BY <1>1, AcpBounds DEF A!ObjectsTyped, A!Built
<1>3. A!Ctrl(r) \in 1 .. built /\ A!Ctrl(r) \in A!Built
  BY <1>1, <1>2, AcpBounds DEF A!Ctrl, A!Built
<1>4. history[A!Ctrl(r)] \subseteq A!Request
  BY <1>3 DEF A!TurnsTyped
<1> QED
  BY <1>1, <1>3, <1>4 DEF A!Written, A!TurnsTyped

LEMMA AcpNone == A!None \in A!Config
BY AcpBounds DEF A!None, A!Config

LEMMA AcpLive ==
  ASSUME AcpTyped
  PROVE  /\ opened \in Nat \ {0} /\ built \in Nat \ {0} /\ 0 \in 0 .. opened
         /\ opened \in A!Built /\ built \in A!Built /\ 1 .. opened \subseteq 1 .. built
         /\ 1 .. built \subseteq A!Built
         /\ live # 0 => live \in 1 .. opened /\ ctrl[live] \in 1 .. built
<1> USE DEF AcpTyped, A!TypeOK
<1>1. opened \in A!Built /\ built \in A!Built /\ opened <= built /\ live \in 0 .. opened
  BY DEF A!ObjectsTyped
<1>2. 1 .. opened \subseteq 1 .. built /\ 1 .. built \subseteq A!Built
  BY <1>1, AcpBounds DEF A!Built
<1>3. live # 0 => live \in 1 .. opened
  BY <1>1, AcpBounds DEF A!Built
<1>4. live # 0 => ctrl[live] \in 1 .. built
  BY <1>1, <1>2, <1>3, AcpBounds DEF A!ObjectsTyped, A!Built
<1>5. opened \in Nat \ {0} /\ built \in Nat \ {0} /\ 0 \in 0 .. opened
  BY <1>1, AcpBounds DEF A!Built
<1> QED
  BY <1>1, <1>2, <1>3, <1>4, <1>5

\* A step of a handler moves no other one.
LEMMA AcpFrame ==
  ASSUME AcpTyped, NEW r \in A!Request, A!Handler(r) \/ A!Ask(r) \/ A!Reply(r)
  PROVE  /\ UNCHANGED <<requests, kind, eof, served>>
         /\ \A q \in A!Request \ {r} : pc'[q] = pc[q] /\ obj'[q] = obj[q] /\ owner'[q] = owner[q]
<1> USE DEF AcpTyped, A!TypeOK, A!HandlersTyped, A!client, A!handler, A!object, A!turn,
            A!core, A!disk, A!notes
<1>1. CASE A!LookPrompt(r)
  BY <1>1 DEF A!LookPrompt, A!Starts, A!Ends, A!Finds, A!Goes
<1>2. CASE A!Begin(r)
  BY <1>2 DEF A!Begin, A!Goes
<1>3. CASE A!Ask(r)
  BY <1>3 DEF A!Ask
<1>4. CASE A!Reply(r)
  BY <1>4 DEF A!Reply
<1>5. CASE A!StopAsking(r)
  BY <1>5 DEF A!StopAsking
<1>6. CASE A!TurnEnds(r)
  BY <1>6 DEF A!TurnEnds, A!Goes, A!Ctrl, A!Written, A!Cancelled
<1>7. CASE A!Persist(r)
  BY <1>7 DEF A!Persist, A!Goes, A!Written, A!Ctrl
<1>8. CASE A!Finish(r)
  BY <1>8 DEF A!Finish, A!Goes, A!Ctrl
<1>9. CASE A!Apply(r)
  BY <1>9 DEF A!Apply, A!Goes
<1>10. CASE A!Restore(r)
  BY <1>10 DEF A!Restore, A!Goes
<1>11. CASE A!CancelTurn(r)
  BY <1>11 DEF A!CancelTurn, A!Starts, A!Ends, A!Goes
<1>12. CASE A!LookSwitch(r)
  BY <1>12 DEF A!LookSwitch, A!Ends, A!Finds, A!Goes
<1>13. CASE A!Compute(r)
  BY <1>13 DEF A!Compute, A!Goes, A!At
<1>14. CASE A!RefuseRebuild(r)
  BY <1>14 DEF A!RefuseRebuild, A!Goes
<1>15. CASE A!QueueRebuild(r)
  BY <1>15 DEF A!QueueRebuild, A!Goes, A!Accepts
<1>16. CASE A!Rebuild(r)
  BY <1>16 DEF A!Rebuild, A!Goes, A!Accepts, A!Written, A!Ctrl, A!Adopts, A!Releases
<1>17. CASE A!RebuildFails(r)
  BY <1>17 DEF A!RebuildFails, A!Goes, A!Written, A!Ctrl
<1>18. CASE A!Take(r)
  BY <1>18 DEF A!Take, A!Finds, A!Goes, A!Ends
<1>19. CASE A!Stop(r)
  BY <1>19 DEF A!Stop, A!Goes
<1>20. CASE A!Stopped(r)
  BY <1>20 DEF A!Stopped, A!Goes
<1>21. CASE A!CloseController(r)
  BY <1>21 DEF A!CloseController, A!Goes, A!Ctrl
<1>22. CASE A!Destroy(r)
  BY <1>22 DEF A!Destroy, A!Goes, A!Ctrl
<1>23. CASE A!Remove(r)
  BY <1>23 DEF A!Remove, A!Goes
<1>24. CASE A!RemoveLater(r)
  BY <1>24 DEF A!RemoveLater, A!Goes
<1>25. CASE A!LookLoad(r)
  BY <1>25 DEF A!LookLoad, A!Starts, A!Goes
<1>26. CASE A!Open(r)
  BY <1>26 DEF A!Open, A!Goes, A!Ends, A!Finds
<1>27. CASE A!Register(r)
  BY <1>27 DEF A!Register, A!Goes
<1>28. CASE A!TakePending(r)
  BY <1>28 DEF A!TakePending, A!Goes
<1>29. CASE A!OpenFails(r)
  BY <1>29 DEF A!OpenFails, A!Ends, A!Goes
<1> HIDE DEF AcpTyped, A!TypeOK, A!HandlersTyped, A!client, A!handler, A!object, A!turn,
            A!core, A!disk, A!notes
<1> QED
  BY <1>1, <1>2, <1>3, <1>4, <1>5, <1>6, <1>7, <1>8, <1>9, <1>10, <1>11, <1>12, <1>13, <1>14,
          <1>15, <1>16, <1>17, <1>18, <1>19, <1>20, <1>21, <1>22, <1>23, <1>24, <1>25, <1>26,
          <1>27, <1>28, <1>29
     DEF A!Handler, A!Prompt, A!Switches, A!Rebuilds, A!Closes, A!Loads

LEMMA AcpPlacedAtStep ==
  ASSUME AcpTyped, NEW r \in A!Request, A!Handler(r) \/ A!Ask(r) \/ A!Reply(r)
  PROVE  AcpPlacedAt(r)'
<1> USE DEF AcpTyped, AcpPlaced, AcpPlacedAt, A!TypeOK, A!HandlersTyped, A!Switch, A!client,
            A!handler, A!object, A!turn, A!core, A!disk, A!notes
<1>1. CASE A!LookPrompt(r)
  BY <1>1 DEF A!LookPrompt, A!Starts, A!Ends, A!Finds, A!Goes
<1>2. CASE A!Begin(r)
  BY <1>2 DEF A!Begin, A!Goes
<1>3. CASE A!Ask(r)
  BY <1>3 DEF A!Ask
<1>4. CASE A!Reply(r)
  BY <1>4 DEF A!Reply
<1>5. CASE A!StopAsking(r)
  BY <1>5 DEF A!StopAsking
<1>6. CASE A!TurnEnds(r)
  BY <1>6 DEF A!TurnEnds, A!Goes, A!Ctrl, A!Written, A!Cancelled
<1>7. CASE A!Persist(r)
  BY <1>7 DEF A!Persist, A!Goes, A!Written, A!Ctrl
<1>8. CASE A!Finish(r)
  BY <1>8 DEF A!Finish, A!Goes, A!Ctrl
<1>9. CASE A!Apply(r)
  BY <1>9 DEF A!Apply, A!Goes
<1>10. CASE A!Restore(r)
  BY <1>10 DEF A!Restore, A!Goes
<1>11. CASE A!CancelTurn(r)
  BY <1>11 DEF A!CancelTurn, A!Starts, A!Ends, A!Goes
<1>12. CASE A!LookSwitch(r)
  BY <1>12 DEF A!LookSwitch, A!Ends, A!Finds, A!Goes
<1>13. CASE A!Compute(r)
  BY <1>13 DEF A!Compute, A!Goes, A!At
<1>14. CASE A!RefuseRebuild(r)
  BY <1>14 DEF A!RefuseRebuild, A!Goes
<1>15. CASE A!QueueRebuild(r)
  BY <1>15 DEF A!QueueRebuild, A!Goes, A!Accepts
<1>16. CASE A!Rebuild(r)
  BY <1>16 DEF A!Rebuild, A!Goes, A!Accepts, A!Written, A!Ctrl, A!Adopts, A!Releases
<1>17. CASE A!RebuildFails(r)
  BY <1>17 DEF A!RebuildFails, A!Goes, A!Written, A!Ctrl
<1>18. CASE A!Take(r)
  BY <1>18 DEF A!Take, A!Finds, A!Goes, A!Ends
<1>19. CASE A!Stop(r)
  BY <1>19 DEF A!Stop, A!Goes
<1>20. CASE A!Stopped(r)
  BY <1>20 DEF A!Stopped, A!Goes
<1>21. CASE A!CloseController(r)
  BY <1>21 DEF A!CloseController, A!Goes, A!Ctrl
<1>22. CASE A!Destroy(r)
  BY <1>22 DEF A!Destroy, A!Goes, A!Ctrl
<1>23. CASE A!Remove(r)
  BY <1>23 DEF A!Remove, A!Goes
<1>24. CASE A!RemoveLater(r)
  BY <1>24 DEF A!RemoveLater, A!Goes
<1>25. CASE A!LookLoad(r)
  BY <1>25 DEF A!LookLoad, A!Starts, A!Goes
<1>26. CASE A!Open(r)
  BY <1>26 DEF A!Open, A!Goes, A!Ends, A!Finds
<1>27. CASE A!Register(r)
  BY <1>27 DEF A!Register, A!Goes
<1>28. CASE A!TakePending(r)
  BY <1>28 DEF A!TakePending, A!Goes
<1>29. CASE A!OpenFails(r)
  BY <1>29 DEF A!OpenFails, A!Ends, A!Goes
<1> HIDE DEF AcpTyped, AcpPlaced, AcpPlacedAt, A!TypeOK, A!HandlersTyped, A!Switch, A!client,
            A!handler, A!object, A!turn, A!core, A!disk, A!notes
<1> QED
  BY <1>1, <1>2, <1>3, <1>4, <1>5, <1>6, <1>7, <1>8, <1>9, <1>10, <1>11, <1>12, <1>13, <1>14,
          <1>15, <1>16, <1>17, <1>18, <1>19, <1>20, <1>21, <1>22, <1>23, <1>24, <1>25, <1>26,
          <1>27, <1>28, <1>29
     DEF A!Handler, A!Prompt, A!Switches, A!Rebuilds, A!Closes, A!Loads

LEMMA AcpFoundAtStep ==
  ASSUME AcpTyped, NEW r \in A!Request, A!Handler(r) \/ A!Ask(r) \/ A!Reply(r)
  PROVE  pc'[r] \in Using \cup Ending \cup {"later", "register"} => obj'[r] # 0
<1> USE DEF AcpTyped, AcpFound, A!TypeOK, A!HandlersTyped, Using, Ending, A!client, A!handler,
            A!object, A!turn, A!core, A!disk, A!notes
<1>1. CASE A!LookPrompt(r)
  BY <1>1 DEF A!LookPrompt, A!Starts, A!Ends, A!Finds, A!Goes
<1>2. CASE A!Begin(r)
  BY <1>2 DEF A!Begin, A!Goes
<1>3. CASE A!Ask(r)
  BY <1>3 DEF A!Ask
<1>4. CASE A!Reply(r)
  BY <1>4 DEF A!Reply
<1>5. CASE A!StopAsking(r)
  BY <1>5 DEF A!StopAsking
<1>6. CASE A!TurnEnds(r)
  BY <1>6 DEF A!TurnEnds, A!Goes, A!Ctrl, A!Written, A!Cancelled
<1>7. CASE A!Persist(r)
  BY <1>7 DEF A!Persist, A!Goes, A!Written, A!Ctrl
<1>8. CASE A!Finish(r)
  BY <1>8 DEF A!Finish, A!Goes, A!Ctrl
<1>9. CASE A!Apply(r)
  BY <1>9 DEF A!Apply, A!Goes
<1>10. CASE A!Restore(r)
  BY <1>10 DEF A!Restore, A!Goes
<1>11. CASE A!CancelTurn(r)
  BY <1>11 DEF A!CancelTurn, A!Starts, A!Ends, A!Goes
<1>12. CASE A!LookSwitch(r)
  BY <1>12 DEF A!LookSwitch, A!Ends, A!Finds, A!Goes
<1>13. CASE A!Compute(r)
  BY <1>13 DEF A!Compute, A!Goes, A!At
<1>14. CASE A!RefuseRebuild(r)
  BY <1>14 DEF A!RefuseRebuild, A!Goes
<1>15. CASE A!QueueRebuild(r)
  BY <1>15 DEF A!QueueRebuild, A!Goes, A!Accepts
<1>16. CASE A!Rebuild(r)
  BY <1>16 DEF A!Rebuild, A!Goes, A!Accepts, A!Written, A!Ctrl, A!Adopts, A!Releases
<1>17. CASE A!RebuildFails(r)
  BY <1>17 DEF A!RebuildFails, A!Goes, A!Written, A!Ctrl
<1>18. CASE A!Take(r)
  BY <1>18 DEF A!Take, A!Finds, A!Goes, A!Ends
<1>19. CASE A!Stop(r)
  BY <1>19 DEF A!Stop, A!Goes
<1>20. CASE A!Stopped(r)
  BY <1>20 DEF A!Stopped, A!Goes
<1>21. CASE A!CloseController(r)
  BY <1>21 DEF A!CloseController, A!Goes, A!Ctrl
<1>22. CASE A!Destroy(r)
  BY <1>22 DEF A!Destroy, A!Goes, A!Ctrl
<1>23. CASE A!Remove(r)
  BY <1>23 DEF A!Remove, A!Goes
<1>24. CASE A!RemoveLater(r)
  BY <1>24 DEF A!RemoveLater, A!Goes
<1>25. CASE A!LookLoad(r)
  BY <1>25 DEF A!LookLoad, A!Starts, A!Goes
<1>26. CASE A!Open(r)
  BY <1>26, AcpLive DEF A!Open, A!Goes, A!Ends, A!Finds
<1>27. CASE A!Register(r)
  BY <1>27 DEF A!Register, A!Goes
<1>28. CASE A!TakePending(r)
  BY <1>28 DEF A!TakePending, A!Goes
<1>29. CASE A!OpenFails(r)
  BY <1>29 DEF A!OpenFails, A!Ends, A!Goes
<1> HIDE DEF AcpTyped, AcpFound, A!TypeOK, A!HandlersTyped, Using, Ending, A!client,
            A!handler, A!object, A!turn, A!core, A!disk, A!notes
<1> QED
  BY <1>1, <1>2, <1>3, <1>4, <1>5, <1>6, <1>7, <1>8, <1>9, <1>10, <1>11, <1>12, <1>13, <1>14,
          <1>15, <1>16, <1>17, <1>18, <1>19, <1>20, <1>21, <1>22, <1>23, <1>24, <1>25, <1>26,
          <1>27, <1>28, <1>29
     DEF A!Handler, A!Prompt, A!Switches, A!Rebuilds, A!Closes, A!Loads

LEMMA AcpHandlersStep ==
  ASSUME AcpTyped, NEW r \in A!Request, A!Handler(r) \/ A!Ask(r) \/ A!Reply(r)
  PROVE  A!HandlersTyped'
<1> USE DEF AcpTyped, A!TypeOK, A!HandlersTyped, A!Place, Using, Ending, A!client, A!handler,
            A!object, A!turn, A!core, A!disk, A!notes
<1>1. CASE A!Ask(r) \/ A!Reply(r) \/ A!StopAsking(r)
  BY <1>1, AcpBounds DEF A!Ask, A!Reply, A!StopAsking
<1>2. CASE A!LookPrompt(r)
  BY <1>2, AcpBounds, AcpLive DEF A!LookPrompt, A!Starts, A!Ends, A!Finds, A!Goes
<1>3. CASE A!Begin(r)
  BY <1>3, AcpBounds DEF A!Begin, A!Goes
<1>4. CASE A!TurnEnds(r)
  BY <1>4, AcpBounds DEF A!TurnEnds, A!Goes, A!Ctrl, A!Written, A!Cancelled
<1>5. CASE A!Persist(r)
  BY <1>5, AcpBounds DEF A!Persist, A!Goes, A!Written, A!Ctrl
<1>6. CASE A!Finish(r)
  BY <1>6, AcpBounds DEF A!Finish, A!Goes, A!Ctrl
<1>7. CASE A!Apply(r)
  BY <1>7, AcpBounds DEF A!Apply, A!Goes
<1>8. CASE A!Restore(r)
  BY <1>8, AcpBounds DEF A!Restore, A!Goes
<1>9. CASE A!CancelTurn(r)
  BY <1>9, AcpBounds DEF A!CancelTurn, A!Starts, A!Ends, A!Goes
<1>10. CASE A!LookSwitch(r)
  BY <1>10, AcpBounds, AcpLive DEF A!LookSwitch, A!Ends, A!Finds, A!Goes
<1>11. CASE A!Compute(r)
  BY <1>11, AcpBounds DEF A!Compute, A!Goes, A!At
<1>12. CASE A!RefuseRebuild(r)
  BY <1>12, AcpBounds DEF A!RefuseRebuild, A!Goes
<1>13. CASE A!QueueRebuild(r)
  BY <1>13, AcpBounds DEF A!QueueRebuild, A!Goes, A!Accepts
<1>14. CASE A!Rebuild(r)
  BY <1>14, AcpBounds DEF A!Rebuild, A!Goes, A!Accepts, A!Written, A!Ctrl, A!Adopts,
     A!Releases
<1>15. CASE A!RebuildFails(r)
  BY <1>15, AcpBounds DEF A!RebuildFails, A!Goes, A!Written, A!Ctrl
<1>16. CASE A!Take(r)
  <2>1. opened \in Nat /\ live \in 0 .. opened
    BY AcpLive DEF A!ObjectsTyped
  <2>2. obj' \in [A!Request -> 0 .. opened]
    BY <1>16, <2>1 DEF A!Take, A!Finds, A!Ends
  <2> QED BY <1>16, <2>2 DEF A!Take, A!Finds, A!Ends, A!Goes
<1>17. CASE A!Stop(r)
  <2>1. running[obj[r]] \in 0 .. MaxRequests
    BY <1>17, AcpCtrl DEF A!Stop, A!ObjectsTyped
  <2> QED BY <1>17, <2>1 DEF A!Stop, A!Goes
<1>18. CASE A!Stopped(r)
  BY <1>18, AcpBounds DEF A!Stopped, A!Goes
<1>19. CASE A!CloseController(r)
  BY <1>19, AcpBounds DEF A!CloseController, A!Goes, A!Ctrl
<1>20. CASE A!Destroy(r)
  BY <1>20, AcpBounds DEF A!Destroy, A!Goes, A!Ctrl
<1>21. CASE A!Remove(r)
  BY <1>21, AcpBounds DEF A!Remove, A!Goes
<1>22. CASE A!RemoveLater(r)
  BY <1>22, AcpBounds DEF A!RemoveLater, A!Goes
<1>23. CASE A!LookLoad(r)
  BY <1>23, AcpBounds DEF A!LookLoad, A!Starts, A!Goes
<1>24. CASE A!Open(r)
  <2>1. opened' \in 0 .. opened + 1 /\ opened' >= opened /\ opened \in Nat
        /\ (obj' = obj \/ obj' = [obj EXCEPT ![r] = opened'])
    BY <1>24, AcpLive DEF A!Open, A!Ends, A!Finds
  <2>2. obj' \in [A!Request -> 0 .. opened']
    BY <2>1
  <2> QED BY <1>24, <2>2 DEF A!Open, A!Ends, A!Finds, A!Goes
<1>25. CASE A!Register(r)
  BY <1>25, AcpBounds DEF A!Register, A!Goes
<1>26. CASE A!TakePending(r)
  BY <1>26, AcpBounds DEF A!TakePending, A!Goes
<1>27. CASE A!OpenFails(r)
  BY <1>27, AcpBounds DEF A!OpenFails, A!Ends, A!Goes
<1> HIDE DEF AcpTyped, A!TypeOK, A!HandlersTyped, A!Place, Using, Ending, A!client, A!handler,
            A!object, A!turn, A!core, A!disk, A!notes
<1> QED
  BY <1>1, <1>2, <1>3, <1>4, <1>5, <1>6, <1>7, <1>8, <1>9, <1>10, <1>11, <1>12, <1>13, <1>14,
          <1>15, <1>16, <1>17, <1>18, <1>19, <1>20, <1>21, <1>22, <1>23, <1>24, <1>25, <1>26,
          <1>27
     DEF A!Handler, A!Prompt, A!Switches, A!Rebuilds, A!Closes, A!Loads

LEMMA AcpConfigsStep ==
  ASSUME AcpTyped, NEW r \in A!Request, A!Handler(r) \/ A!Ask(r) \/ A!Reply(r)
  PROVE  A!ConfigsTyped'
<1> USE DEF AcpTyped, A!TypeOK, A!ConfigsTyped, A!client, A!handler, A!object, A!turn, A!core,
            A!disk, A!notes
<1>1. CASE A!LookPrompt(r) \/ A!Begin(r) \/ A!Ask(r) \/ A!Reply(r) \/ A!StopAsking(r) \/
           A!TurnEnds(r) \/ A!Persist(r) \/ A!Finish(r) \/ A!CancelTurn(r) \/
           A!LookSwitch(r) \/ A!RefuseRebuild(r) \/ A!Take(r) \/ A!Stop(r) \/ A!Stopped(r)
           \/ A!CloseController(r) \/ A!Destroy(r) \/ A!Remove(r) \/ A!RemoveLater(r) \/
           A!LookLoad(r) \/ A!OpenFails(r) \/ A!Open(r) \/ A!Register(r) \/ A!Apply(r)
  BY <1>1, AcpBounds DEF A!OpenFails, A!Apply, A!LookPrompt, A!Starts, A!Ends, A!Finds, A!Goes,
     A!Begin, A!Ask,
     A!Reply, A!StopAsking, A!TurnEnds, A!Ctrl, A!Written, A!Cancelled, A!Persist, A!Finish,
     A!CancelTurn, A!LookSwitch, A!RefuseRebuild, A!Take, A!Stop, A!Stopped,
     A!CloseController, A!Destroy, A!Remove, A!RemoveLater, A!LookLoad, A!Open, A!Register
<1>2. CASE A!TakePending(r)
  <2>1. A!None \in A!Config /\ queued[obj[r]] \in A!Config
    BY <1>2, AcpNone, AcpCtrl DEF A!TakePending, Using
  <2> QED BY <1>2, <2>1 DEF A!TakePending, A!Goes
<1>3. CASE A!Restore(r)
  BY <1>3, AcpBounds DEF A!Restore, A!Goes
<1>4. CASE A!Compute(r)
  <2>1. /\ config[obj[r]] \in A!Config /\ kind[r] \in {"model", "effort"}
        /\ A!At(r) \in 0 .. MaxRequests + 1
    BY <1>4, AcpBounds, AcpCtrl DEF A!Compute, Using, AcpPlaced, AcpPlacedAt, A!Switch,
       A!At, A!Request
  <2>2. [config[obj[r]] EXCEPT ![kind[r]] = A!At(r)] \in A!Config
    BY <2>1 DEF A!Config
  <2> QED BY <1>4, <2>2 DEF A!Compute
<1>5. CASE A!QueueRebuild(r)
  BY <1>5, AcpBounds DEF A!QueueRebuild, A!Goes, A!Accepts
<1>6. CASE A!Rebuild(r)
  BY <1>6, AcpBounds, AcpNone DEF A!Rebuild, A!Goes, A!Accepts, A!Written, A!Ctrl, A!Adopts,
     A!Releases
<1>7. CASE A!RebuildFails(r)
  BY <1>7, AcpBounds, AcpNone DEF A!RebuildFails, A!Goes, A!Written, A!Ctrl
<1> HIDE DEF AcpTyped, A!TypeOK, A!ConfigsTyped, A!client, A!handler, A!object, A!turn,
            A!core, A!disk, A!notes
<1> QED
  BY <1>1, <1>2, <1>3, <1>4, <1>5, <1>6, <1>7
     DEF A!Handler, A!Prompt, A!Switches, A!Rebuilds, A!Closes, A!Loads

\* The sessions, their controllers and whose turn runs keep their types.
LEMMA AcpObjectsStep ==
  ASSUME AcpTyped, NEW r \in A!Request, A!Handler(r) \/ A!Ask(r) \/ A!Reply(r)
  PROVE  A!ObjectsTyped'
<1> USE DEF AcpTyped, A!TypeOK, A!ObjectsTyped, Using, Ending, A!client, A!handler, A!object,
            A!turn, A!core, A!disk, A!notes
<1>1. CASE A!LookPrompt(r) \/ A!Ask(r) \/ A!Reply(r) \/ A!StopAsking(r) \/ A!Persist(r) \/
           A!Apply(r) \/ A!Restore(r) \/ A!CancelTurn(r) \/ A!LookSwitch(r) \/ A!Compute(r)
           \/ A!RefuseRebuild(r) \/ A!QueueRebuild(r) \/ A!RebuildFails(r) \/ A!Stopped(r)
           \/ A!Remove(r) \/ A!RemoveLater(r) \/ A!LookLoad(r) \/ A!TakePending(r)
           \/ A!OpenFails(r)
  BY <1>1, AcpBounds DEF A!TakePending, A!OpenFails, A!LookPrompt, A!Starts, A!Ends, A!Finds,
     A!Goes, A!Ask, A!Reply,
     A!StopAsking, A!Persist, A!Written, A!Ctrl, A!Apply, A!Restore, A!CancelTurn,
     A!LookSwitch, A!Compute, A!At, A!RefuseRebuild, A!QueueRebuild, A!Accepts,
     A!RebuildFails, A!Stopped, A!Remove, A!RemoveLater, A!LookLoad
<1>2. CASE A!Begin(r)
  <2>1. obj[r] \in A!Built /\ r \in 0 .. MaxRequests
    BY <1>2, AcpCtrl, AcpBounds DEF A!Begin, A!Request
  <2>2. running' \in [A!Built -> 0 .. MaxRequests]
    BY <1>2, <2>1 DEF A!Begin
  <2> QED BY <1>2, <2>2 DEF A!Begin
<1>3. CASE A!TurnEnds(r)
  BY <1>3, AcpBounds, AcpCtrl, AcpLive DEF A!TurnEnds, A!Goes, A!Ctrl, A!Written, A!Cancelled
<1>4. CASE A!Finish(r)
  <2>1. 0 \in 0 .. MaxRequests
    BY AcpBounds
  <2>2. running' \in [A!Built -> 0 .. MaxRequests]
    BY <1>4, <2>1 DEF A!Finish
  <2> QED BY <1>4, <2>2 DEF A!Finish
<1>5. CASE A!Rebuild(r)
  <2>1. obj[r] \in 1 .. opened /\ obj[r] \in A!Built /\ A!Ctrl(r) \in 1 .. built
    BY <1>5, AcpCtrl DEF A!Rebuild
  <2>2. built' = built + 1 /\ built' \in A!Built
    BY <1>5, AcpRoom DEF A!Rebuild, AcpSpent
  <2>3. opened <= built' /\ 1 .. built \subseteq 1 .. built' /\ built' # 0
        /\ 0 .. built \subseteq 0 .. built' /\ built' \in 0 .. built'
    BY <2>2, AcpLive
  <2>4. ctrl' = [ctrl EXCEPT ![obj[r]] = built'] /\ closed' = closed \cup {A!Ctrl(r)}
        /\ UNCHANGED <<live, running, deleted, opened, jobs>>
    BY <1>5 DEF A!Rebuild, A!Releases
  <2>5. ctrl' \in [A!Built -> 0 .. built'] /\ \A o \in 1 .. opened : ctrl'[o] # 0
    BY <2>1, <2>3, <2>4, AcpLive
  <2> QED BY <2>1, <2>2, <2>3, <2>4, <2>5
<1>6. CASE A!Take(r)
  BY <1>6, AcpLive DEF A!Take, A!Finds, A!Ends, A!Goes
<1>7. CASE A!Stop(r)
  BY <1>7, AcpBounds, AcpCtrl, AcpLive DEF A!Stop, A!Goes
<1>8. CASE A!CloseController(r)
  BY <1>8, AcpBounds, AcpCtrl, AcpLive DEF A!CloseController, A!Goes, A!Ctrl
<1>9. CASE A!Destroy(r)
  BY <1>9, AcpBounds, AcpCtrl, AcpLive DEF A!Destroy, A!Goes, A!Ctrl
<1>10. CASE A!Open(r)
  <2>1. built' = built + 1 /\ built' \in A!Built /\ opened + 1 \in A!Built
    BY <1>10, AcpRoom DEF A!Open, AcpSpent
  <2>2. /\ built' # 0 /\ opened <= built' /\ opened + 1 <= built'
        /\ 1 .. built \subseteq 1 .. built' /\ 0 .. built \subseteq 0 .. built' /\ built' \in 1 .. built'
        /\ 1 .. opened \subseteq 1 .. opened + 1 /\ 0 .. opened \subseteq 0 .. opened + 1
        /\ 1 .. opened + 1 = 1 .. opened \cup {opened + 1}
    BY <2>1, AcpLive
  <2>3. UNCHANGED <<live, running, deleted, jobs>>
    BY <1>10 DEF A!Open
  <2>4. CASE closed' = closed \cup {built'} /\ UNCHANGED <<ctrl, opened>>
    BY <2>1, <2>2, <2>3, <2>4
  <2>5. CASE UNCHANGED closed /\ opened' = opened + 1 /\ ctrl' = [ctrl EXCEPT ![opened'] = built']
    <3>1. ctrl' \in [A!Built -> 0 .. built'] /\ \A o \in 1 .. opened' : ctrl'[o] # 0
      BY <2>1, <2>2, <2>5, AcpLive
    <3> QED BY <2>1, <2>2, <2>3, <2>5, <3>1
  <2> QED BY <1>10, <2>4, <2>5 DEF A!Open
<1>11. CASE A!Register(r)
  BY <1>11, AcpLive DEF A!Register, A!HandlersTyped
<1> HIDE DEF AcpTyped, A!TypeOK, A!ObjectsTyped, Using, Ending, A!client, A!handler, A!object,
            A!turn, A!core, A!disk, A!notes
<1> QED
  BY <1>1, <1>2, <1>3, <1>4, <1>5, <1>6, <1>7, <1>8, <1>9, <1>10, <1>11
     DEF A!Handler, A!Prompt, A!Switches, A!Rebuilds, A!Closes, A!Loads

LEMMA AcpTurnsStep ==
  ASSUME AcpTyped, NEW r \in A!Request, A!Handler(r) \/ A!Ask(r) \/ A!Reply(r)
  PROVE  A!TurnsTyped'
<1> USE DEF AcpTyped, A!TypeOK, A!TurnsTyped, Using, Ending, A!client, A!handler, A!object,
            A!turn, A!core, A!disk, A!notes
<1>1. CASE A!LookPrompt(r) \/ A!Begin(r) \/ A!Apply(r) \/ A!Restore(r) \/ A!LookSwitch(r)
           \/ A!Compute(r) \/ A!RefuseRebuild(r) \/ A!Take(r) \/ A!Stopped(r) \/
           A!CloseController(r) \/ A!Destroy(r) \/ A!LookLoad(r) \/ A!Register(r)
           \/ A!TakePending(r) \/ A!OpenFails(r)
  BY <1>1, AcpBounds DEF A!TakePending, A!OpenFails, A!LookPrompt, A!Starts, A!Ends, A!Finds,
     A!Goes, A!Begin, A!Apply,
     A!Restore, A!LookSwitch, A!Compute, A!At, A!RefuseRebuild, A!Take, A!Stopped,
     A!CloseController, A!Ctrl, A!Destroy, A!LookLoad, A!Register
<1>2. CASE A!Ask(r)
  BY <1>2, AcpBounds DEF A!Ask
<1>3. CASE A!Reply(r)
  BY <1>3, AcpBounds DEF A!Reply
<1>4. CASE A!StopAsking(r)
  BY <1>4, AcpBounds DEF A!StopAsking
<1>5. CASE A!TurnEnds(r)
  <2>1. A!Ctrl(r) \in A!Built /\ history[A!Ctrl(r)] \subseteq A!Request
    BY <1>5, AcpCtrl DEF A!TurnEnds
  <2>2. history' \in [A!Built -> SUBSET A!Request] /\ history'[A!Ctrl(r)] \subseteq A!Request
    BY <1>5, <2>1 DEF A!TurnEnds
  <2> QED BY <1>5, <2>2, AcpBounds DEF A!TurnEnds, A!Written
<1>6. CASE A!Persist(r)
  BY <1>6, AcpBounds, AcpCtrl DEF A!Persist, A!Goes, A!Written, A!Ctrl
<1>7. CASE A!Finish(r)
  BY <1>7, AcpBounds, AcpCtrl DEF A!Finish, A!Goes, A!Ctrl
<1>8. CASE A!CancelTurn(r)
  <2>1. live # 0 => running[live] \in 0 .. MaxRequests
    BY AcpLive DEF A!ObjectsTyped
  <2>2. \A n \in 0 .. MaxRequests : {n} \ {0} \subseteq A!Request
    BY AcpBounds DEF A!Request
  <2>3. cancelled' \subseteq A!Request
    BY <1>8, <2>1, <2>2 DEF A!CancelTurn
  <2> QED BY <1>8, <2>3 DEF A!CancelTurn
<1>9. CASE A!QueueRebuild(r)
  BY <1>9, AcpBounds DEF A!QueueRebuild, A!Goes, A!Accepts
<1>10. CASE A!Rebuild(r)
  <2>1. history[A!Ctrl(r)] \subseteq A!Request /\ A!Written(history[A!Ctrl(r)]) \subseteq A!Request
    BY <1>10, AcpCtrl DEF A!Rebuild
  <2>2. history' = [history EXCEPT ![built'] = history[A!Ctrl(r)]]
        /\ transcript' = A!Written(history[A!Ctrl(r)])
    BY <1>10 DEF A!Rebuild, A!Adopts
  <2>3. history' \in [A!Built -> SUBSET A!Request]
    BY <2>1, <2>2
  <2> QED BY <1>10, <2>1, <2>2, <2>3 DEF A!Rebuild, A!Accepts
<1>11. CASE A!RebuildFails(r)
  BY <1>11, AcpBounds, AcpCtrl DEF A!RebuildFails, A!Goes, A!Written, A!Ctrl
<1>12. CASE A!Stop(r)
  <2>1. running[obj[r]] \in 0 .. MaxRequests
    BY <1>12, AcpCtrl DEF A!Stop, A!ObjectsTyped
  <2>2. \A n \in 0 .. MaxRequests : {n} \ {0} \subseteq A!Request
    BY AcpBounds DEF A!Request
  <2>3. cancelled' \subseteq A!Request
    BY <1>12, <2>1, <2>2 DEF A!Stop
  <2> QED BY <1>12, <2>3 DEF A!Stop
<1>13. CASE A!Remove(r)
  BY <1>13, AcpBounds DEF A!Remove, A!Goes
<1>14. CASE A!RemoveLater(r)
  BY <1>14, AcpBounds DEF A!RemoveLater, A!Goes
<1>15. CASE A!Open(r)
  BY <1>15, AcpBounds DEF A!Open, A!Goes, A!Ends, A!Finds
<1> HIDE DEF AcpTyped, A!TypeOK, A!TurnsTyped, Using, Ending, A!client, A!handler, A!object,
            A!turn, A!core, A!disk, A!notes
<1> QED
  BY <1>1, <1>2, <1>3, <1>4, <1>5, <1>6, <1>7, <1>8, <1>9, <1>10, <1>11, <1>12, <1>13, <1>14,
          <1>15
     DEF A!Handler, A!Prompt, A!Switches, A!Rebuilds, A!Closes, A!Loads

LEMMA AcpSpends ==
  ASSUME AcpTyped, NEW r \in A!Request, A!Handler(r) \/ A!Ask(r) \/ A!Reply(r)
  PROVE  /\ r \in AcpSpent => pc'[r] \in {"answered", "register"}
         /\ \/ built' = built
            \/ built' = built + 1 /\ r \notin AcpSpent /\ pc'[r] \in {"answered", "register"}
<1> USE DEF AcpTyped, A!TypeOK, A!HandlersTyped, AcpSpent, A!client, A!handler, A!object,
            A!turn, A!core, A!disk, A!notes
<1>1. CASE A!LookPrompt(r)
  BY <1>1 DEF A!LookPrompt, A!Starts, A!Ends, A!Finds, A!Goes
<1>2. CASE A!Begin(r)
  BY <1>2 DEF A!Begin, A!Goes
<1>3. CASE A!Ask(r)
  BY <1>3 DEF A!Ask
<1>4. CASE A!Reply(r)
  BY <1>4 DEF A!Reply
<1>5. CASE A!StopAsking(r)
  BY <1>5 DEF A!StopAsking
<1>6. CASE A!TurnEnds(r)
  BY <1>6 DEF A!TurnEnds, A!Goes, A!Ctrl, A!Written, A!Cancelled
<1>7. CASE A!Persist(r)
  BY <1>7 DEF A!Persist, A!Goes, A!Written, A!Ctrl
<1>8. CASE A!Finish(r)
  BY <1>8 DEF A!Finish, A!Goes, A!Ctrl
<1>9. CASE A!Apply(r)
  BY <1>9 DEF A!Apply, A!Goes
<1>10. CASE A!Restore(r)
  BY <1>10 DEF A!Restore, A!Goes
<1>11. CASE A!CancelTurn(r)
  BY <1>11 DEF A!CancelTurn, A!Starts, A!Ends, A!Goes
<1>12. CASE A!LookSwitch(r)
  BY <1>12 DEF A!LookSwitch, A!Ends, A!Finds, A!Goes
<1>13. CASE A!Compute(r)
  BY <1>13 DEF A!Compute, A!Goes, A!At
<1>14. CASE A!RefuseRebuild(r)
  BY <1>14 DEF A!RefuseRebuild, A!Goes
<1>15. CASE A!QueueRebuild(r)
  BY <1>15 DEF A!QueueRebuild, A!Goes, A!Accepts
<1>16. CASE A!Rebuild(r)
  BY <1>16 DEF A!Rebuild, A!Goes, A!Accepts, A!Written, A!Ctrl, A!Adopts, A!Releases
<1>17. CASE A!RebuildFails(r)
  BY <1>17 DEF A!RebuildFails, A!Goes, A!Written, A!Ctrl
<1>18. CASE A!Take(r)
  BY <1>18 DEF A!Take, A!Finds, A!Goes, A!Ends
<1>19. CASE A!Stop(r)
  BY <1>19 DEF A!Stop, A!Goes
<1>20. CASE A!Stopped(r)
  BY <1>20 DEF A!Stopped, A!Goes
<1>21. CASE A!CloseController(r)
  BY <1>21 DEF A!CloseController, A!Goes, A!Ctrl
<1>22. CASE A!Destroy(r)
  BY <1>22 DEF A!Destroy, A!Goes, A!Ctrl
<1>23. CASE A!Remove(r)
  BY <1>23 DEF A!Remove, A!Goes
<1>24. CASE A!RemoveLater(r)
  BY <1>24 DEF A!RemoveLater, A!Goes
<1>25. CASE A!LookLoad(r)
  BY <1>25 DEF A!LookLoad, A!Starts, A!Goes
<1>26. CASE A!Open(r)
  BY <1>26 DEF A!Open, A!Goes, A!Ends, A!Finds
<1>27. CASE A!Register(r)
  BY <1>27 DEF A!Register, A!Goes
<1>28. CASE A!TakePending(r)
  BY <1>28 DEF A!TakePending, A!Goes
<1>29. CASE A!OpenFails(r)
  BY <1>29 DEF A!OpenFails, A!Ends, A!Goes
<1> HIDE DEF AcpTyped, A!TypeOK, A!HandlersTyped, AcpSpent, A!client, A!handler, A!object,
            A!turn, A!core, A!disk, A!notes
<1> QED
  BY <1>1, <1>2, <1>3, <1>4, <1>5, <1>6, <1>7, <1>8, <1>9, <1>10, <1>11, <1>12, <1>13, <1>14,
          <1>15, <1>16, <1>17, <1>18, <1>19, <1>20, <1>21, <1>22, <1>23, <1>24, <1>25, <1>26,
          <1>27, <1>28, <1>29
     DEF A!Handler, A!Prompt, A!Switches, A!Rebuilds, A!Closes, A!Loads

\* A request that has built is not one that will.
LEMMA AcpCountedStep ==
  ASSUME AcpTyped, NEW r \in A!Request, A!Handler(r) \/ A!Ask(r) \/ A!Reply(r)
  PROVE  AcpCounted'
<1>1. IsFiniteSet(A!Request)
  BY AcpBounds, FS_Interval DEF A!Request
<1>2. IsFiniteSet(AcpSpent) /\ IsFiniteSet(AcpSpent') /\ Cardinality(AcpSpent) \in Nat
      /\ Cardinality(AcpSpent') \in Nat
  BY <1>1, FS_Subset, FS_CardinalityType DEF AcpSpent
<1>3. AcpSpent \subseteq AcpSpent'
  BY AcpFrame, AcpSpends DEF AcpSpent
<1>4. CASE built' = built
  <2>1. Cardinality(AcpSpent) <= Cardinality(AcpSpent')
    BY <1>2, <1>3, FS_Subset
  <2> QED BY <1>2, <1>4, <2>1, AcpLive DEF AcpTyped, AcpCounted
<1>5. CASE built' = built + 1 /\ r \notin AcpSpent /\ pc'[r] \in {"answered", "register"}
  <2>1. AcpSpent \cup {r} \subseteq AcpSpent'
    BY <1>3, <1>5 DEF AcpSpent
  <2>2. Cardinality(AcpSpent \cup {r}) = Cardinality(AcpSpent) + 1
    BY <1>2, <1>5, FS_AddElement
  <2>3. Cardinality(AcpSpent \cup {r}) <= Cardinality(AcpSpent')
    BY <1>2, <2>1, FS_Subset
  <2> QED BY <1>2, <1>5, <2>2, <2>3, AcpLive DEF AcpTyped, AcpCounted
<1> QED
  BY <1>4, <1>5, AcpSpends

LEMMA AcpTypedStep ==
  ASSUME AcpTyped, [A!Next]_A!vars
  PROVE  AcpTyped'
<1>0. A!Flags'
  BY AcpFlagsStep DEF AcpTyped, A!TypeOK
<1>1. ASSUME NEW k \in Kinds, A!Receive(k) PROVE AcpTyped'
  <2>1. requests' \in A!Request /\ requests' \in 0 .. MaxRequests /\ requests' = requests + 1
    BY <1>1, AcpBounds DEF A!Receive, A!Request, AcpTyped, A!TypeOK, A!HandlersTyped
  <2>2. kind' = [kind EXCEPT ![requests'] = k] /\ pc' = [pc EXCEPT ![requests'] = "start"]
        /\ UNCHANGED <<obj, want, owner, A!object, A!turn, A!core, A!disk, A!notes>>
    BY <1>1 DEF A!Receive, A!Goes
  <2>3. A!HandlersTyped'
    BY <2>1, <2>2 DEF AcpTyped, A!TypeOK, A!HandlersTyped, A!Place, A!object
  <2>4. A!ConfigsTyped' /\ A!ObjectsTyped' /\ A!TurnsTyped'
    BY <2>2 DEF AcpTyped, A!TypeOK, A!ConfigsTyped, A!ObjectsTyped, A!TurnsTyped, A!object,
     A!turn, A!core,
             A!disk, A!notes
  <2>5. pc[requests'] = "none"
    BY <2>1, AcpBounds DEF AcpTyped, AcpPlaced, AcpPlacedAt, A!TypeOK, A!HandlersTyped
  <2>6. AcpPlaced'
    BY <2>1, <2>2, AcpBounds DEF AcpTyped, AcpPlaced, AcpPlacedAt, A!TypeOK, A!HandlersTyped, A!Request
  <2>7. AcpFound'
    BY <2>1, <2>2 DEF AcpTyped, AcpFound, A!TypeOK, A!HandlersTyped, Using, Ending
  <2>8. AcpSpent' = AcpSpent /\ built' = built
    BY <2>1, <2>2, <2>5 DEF AcpTyped, AcpSpent, A!TypeOK, A!HandlersTyped, A!core
  <2> QED BY <1>0, <2>3, <2>4, <2>6, <2>7, <2>8 DEF AcpTyped, A!TypeOK, AcpCounted
<1>2. CASE A!HangUp \/ A!JobEnds \/ A!ServeReturns \/ UNCHANGED A!vars
  <2>1. UNCHANGED <<requests, kind, A!handler, ctrl, config, queued, running, deleted, opened, A!turn,
                    built, history, left, A!disk, A!notes>>
    BY <1>2, Zenon DEF A!HangUp, A!JobEnds, A!ServeReturns, A!vars, A!client, A!handler,
     A!object, A!core
  <2>2. UNCHANGED <<live, closed, jobs>> \/ A!JobEnds \/ A!ServeReturns
    BY <1>2 DEF A!HangUp, A!vars, A!object, A!core
  <2>3. A!ObjectsTyped'
    <3> USE DEF AcpTyped, A!TypeOK, A!ObjectsTyped
    <3>1. CASE UNCHANGED <<live, closed, jobs>>
      BY <2>1, <3>1
    <3>2. CASE A!JobEnds
      <4>1. UNCHANGED <<live, closed>> /\ jobs' \subseteq jobs
        BY <3>2 DEF A!JobEnds, A!object
      <4> QED BY <2>1, <4>1
    <3>3. CASE A!ServeReturns
      <4>1. live' = 0 /\ closed' \subseteq closed \cup (IF live = 0 THEN {} ELSE {ctrl[live]})
            /\ jobs' \subseteq jobs
        BY <3>3 DEF A!ServeReturns
      <4>2. closed' \subseteq 1 .. built
        BY <4>1, AcpLive
      <4> QED BY <2>1, <4>1, <4>2, AcpLive
    <3> QED BY <2>2, <3>1, <3>2, <3>3
  <2>4. A!HandlersTyped' /\ A!ConfigsTyped' /\ A!TurnsTyped'
    BY <2>1 DEF AcpTyped, A!TypeOK, A!HandlersTyped, A!ConfigsTyped, A!TurnsTyped, A!handler, A!turn,
             A!disk, A!notes
  <2>5. AcpPlaced' /\ AcpFound' /\ AcpSpent' = AcpSpent /\ built' = built
    BY <2>1 DEF AcpTyped, AcpPlaced, AcpPlacedAt, AcpFound, AcpSpent, A!handler
  <2> QED BY <1>0, <2>3, <2>4, <2>5 DEF AcpTyped, A!TypeOK, AcpCounted
<1>3. ASSUME NEW r \in A!Request, A!Handler(r) \/ A!Ask(r) \/ A!Reply(r) PROVE AcpTyped'
  <2>1. A!TypeOK'
    BY <1>0, <1>3, AcpHandlersStep, AcpConfigsStep, AcpObjectsStep, AcpTurnsStep DEF A!TypeOK
  <2>2. AcpPlaced'
    BY <1>3, AcpFrame, AcpPlacedAtStep DEF AcpTyped, AcpPlaced, AcpPlacedAt
  <2>3. AcpFound'
    BY <1>3, AcpFrame, AcpFoundAtStep DEF AcpTyped, AcpFound
  <2> QED BY <1>3, <2>1, <2>2, <2>3, AcpCountedStep DEF AcpTyped
<1> QED
  BY <1>1, <1>2, <1>3 DEF A!Next

\* Requests, sessions and controllers of the ACP service keep their types; there is room for
\* every controller that is built.
THEOREM AcpTypes == A!Spec => []A!TypeOK
<1>1. AcpTyped => A!TypeOK
  BY DEF AcpTyped
<1> QED
  BY AcpInit, AcpTypedStep, <1>1, PTL DEF A!Spec

LEMMA AcpTypedAlways == A!Spec => []AcpTyped
BY AcpInit, AcpTypedStep, PTL DEF A!Spec

-----------------------------------------------------------------------------
(* The ACP service: one session at a time *)

\* A client that closes and loads a session with nothing outstanding, and waits for the answer.
Patient == {"close", "load"} \subseteq Alone

Holds == {"turn", "persist", "finish"}

AcpAlone == \A r, q \in A!Request :
  kind[r] \in {"close", "load"} /\ ~A!Answered(r) /\ q # r => pc[q] \in {"none", "answered", "later"}

\* The handlers work on the session opened last.
AcpLatest ==
  /\ live \in {0, opened}
  /\ \A r \in A!Request : pc[r] \in Using \cup Ending \cup {"register"} => obj[r] = opened
  /\ \A o \in A!Built : o > opened => running[o] = 0 /\ queued[o] = A!None /\ o \notin deleted

\* The prompt whose turn it is is the one at work.
AcpHeld ==
  /\ running[opened] # 0 => pc[running[opened]] \in Holds
  /\ \A r \in A!Request : pc[r] \in Holds => running[opened] = r

\* No delete has failed to write its marker.
AcpMarks == "mark" \notin failed

\* What is deleted is not live, and what a load registers is neither.
AcpBarred ==
  /\ opened \in deleted => live = 0
  /\ \A r \in A!Request : pc[r] = "register" =>
       /\ live = 0 /\ opened \notin deleted /\ queued[opened] = A!None
       /\ AcpMarks => ~marked /\ ~erased
  /\ \A r \in A!Request : pc[r] = "open" => live = 0 /\ ~marked

\* What has been answered is in the conversation, and that in the transcript.
AcpKept ==
  ~erased => answered \subseteq history[ctrl[opened]] /\ history[ctrl[opened]] \subseteq transcript

Deletes(P) == \E r \in A!Request : kind[r] = "delete" /\ pc[r] \in P

\* A session being deleted is not live; once a handler leaves the files for later, the
\* marker is what keeps it so.
AcpDoomed ==
  /\ Deletes(Ending \cup {"remove"}) => live = 0
  /\ AcpMarks /\ (erased \/ marked \/ Deletes({"later"})) => live = 0
  /\ AcpMarks /\ (\E r \in A!Request : pc[r] = "later") => marked \/ erased

\* When it has been taken out, what still uses it is refused, or waited for.
AcpTaken ==
  /\ \A r \in A!Request : kind[r] = "delete" /\ pc[r] = "wait" =>
       opened \in deleted /\ running[opened] \in {0, owner[r]}
  /\ live = 0 => \/ \A r \in A!Request : pc[r] \notin Using
                 \/ opened \in deleted /\ running[opened] = 0
                 \/ Deletes({"stop", "wait"})

\* Who writes the files of a deleted session is followed by who removes them.
AcpErased ==
  AcpMarks /\ erased /\ ~marked /\ transcript # {} => Deletes(Ending \cup {"remove"})

\* No switch has failed.
AcpSwitched == failed \subseteq {"mark"}

\* A switch is queued behind a turn that has yet to look at the queue.
AcpQueued ==
  /\ AcpSwitched /\ live # 0 /\ queued[opened] # A!None =>
       \E r \in A!Request : pc[r] \in Holds \cup {"apply", "take"}
  /\ \A r \in A!Request : pc[r] = "restore" => ~AcpSwitched

\* One controller is open at most: that of the session, while someone will close it.
Attended == \A c \in 1 .. built :
  \/ c \in closed
  \/ /\ c = ctrl[opened]
     /\ live # 0 \/ \E r \in A!Request : pc[r] \in Ending \cup {"register"}
\* When Serve has returned nothing is under way.
AcpClosed ==
  /\ Attended
  /\ served => eof /\ live = 0 /\ \A r \in A!Request : pc[r] \in {"none", "answered", "later"}

AcpInv == /\ AcpTyped /\ AcpAlone /\ AcpLatest /\ AcpHeld /\ AcpBarred /\ AcpKept /\ AcpDoomed
          /\ AcpTaken /\ AcpErased /\ AcpQueued /\ AcpClosed

LEMMA AcpInvInit == A!Init => AcpInv
<1> SUFFICES ASSUME A!Init PROVE AcpInv
  OBVIOUS
<1>1. AcpTyped
  BY AcpInit
<1>2. AcpAlone /\ AcpLatest /\ AcpHeld /\ AcpBarred
  BY AcpLive, <1>1 DEF A!Init, AcpAlone, AcpLatest, AcpHeld, AcpBarred, AcpMarks, Using, Ending, Holds
<1>3. AcpKept /\ AcpDoomed /\ AcpTaken /\ AcpErased
  BY AcpLive, <1>1 DEF A!Init, AcpKept, AcpDoomed, AcpMarks, AcpTaken, AcpErased, Deletes, Using, Ending
<1>4. AcpQueued /\ AcpClosed
  BY AcpLive, <1>1 DEF A!Init, AcpQueued, AcpSwitched, AcpClosed, Attended, Ending, Holds
<1> QED
  BY <1>1, <1>2, <1>3, <1>4 DEF AcpInv

\* A request that arrives has the client's other ones behind it or none of its kind.
LEMMA AcpReceives ==
  ASSUME AcpInv, Patient, NEW k \in Kinds, A!Receive(k)
  PROVE  /\ requests' \in A!Request /\ requests' = requests + 1 /\ pc[requests'] = "none"
         /\ pc' = [pc EXCEPT ![requests'] = "start"] /\ kind' = [kind EXCEPT ![requests'] = k]
         /\ UNCHANGED <<eof, served, obj, owner, live, ctrl, queued, running, deleted, opened, built, closed,
                        history, transcript, marked, erased, answered, failed>>
         /\ ~eof
         /\ k \in {"close", "load"} => \A q \in A!Request : pc[q] \in {"none", "answered", "later"}
         /\ \A r \in A!Request : kind[r] \in {"close", "load"} => A!Answered(r)
<1>1. requests \in Nat /\ requests < MaxRequests /\ requests' = requests + 1 /\ requests' \in A!Request
  BY AcpBounds DEF A!Receive, A!Request, AcpInv, AcpTyped, A!TypeOK, A!HandlersTyped
<1>2. \A r \in A!Request : r <= requests <=> r \in 1 .. requests
  BY <1>1, AcpBounds DEF A!Request
<1>3. \A r \in A!Request : /\ r <= requests <=> pc[r] # "none"
                           /\ r <= requests <=> kind[r] # "none"
  BY DEF AcpInv, AcpTyped, AcpPlaced, AcpPlacedAt
<1>4. pc[requests'] = "none"
  BY <1>1, <1>3, AcpBounds
<1>5. k \in {"close", "load"} => \A q \in A!Request : pc[q] \in {"none", "answered", "later"}
  BY <1>2, <1>3 DEF A!Receive, A!Quiet, A!Answered, Patient
<1>6. \A r \in A!Request : kind[r] \in {"close", "load"} => A!Answered(r)
  BY <1>2, <1>3 DEF A!Receive, Patient
<1>7. UNCHANGED <<eof, served, obj, owner, live, ctrl, queued, running, deleted, opened, built, closed,
                  history, transcript, marked, erased, answered, failed>>
  BY Zenon DEF A!Receive, A!object, A!core, A!disk, A!notes
<1> QED
  BY <1>1, <1>4, <1>5, <1>6, <1>7 DEF A!Receive, A!Goes

LEMMA AcpIdles ==
  ASSUME A!HangUp \/ A!JobEnds \/ A!ServeReturns \/ UNCHANGED A!vars
  PROVE  /\ UNCHANGED <<requests, kind, pc, obj, owner, ctrl, queued, running, deleted, opened, built, history,
                        transcript, marked, erased, answered, failed>>
         /\ UNCHANGED <<live, closed>> \/ A!ServeReturns
<1> USE DEF A!client, A!handler, A!object, A!core, A!disk, A!notes
<1>1. CASE A!HangUp
  BY <1>1, Zenon DEF A!HangUp
<1>2. CASE A!JobEnds
  BY <1>2, Zenon DEF A!JobEnds
<1>3. CASE A!ServeReturns
  BY <1>3, Zenon DEF A!ServeReturns
<1>4. CASE UNCHANGED A!vars
  BY <1>4, Zenon DEF A!vars
<1> QED
  BY <1>1, <1>2, <1>3, <1>4

\* Serve returns when every request has been answered.
LEMMA AcpServes ==
  ASSUME AcpInv, A!ServeReturns
  PROVE  /\ \A r \in A!Request : pc[r] \in {"none", "answered", "later"}
         /\ live' = 0 /\ eof /\ UNCHANGED eof
         /\ closed' = IF live = 0 THEN closed ELSE closed \cup {ctrl[live]}
<1>1. \A r \in A!Request : r <= requests <=> pc[r] # "none"
  BY DEF AcpInv, AcpTyped, AcpPlaced, AcpPlacedAt
<1>2. \A r \in A!Request : r <= requests => r \in 1 .. requests
  BY AcpBounds DEF A!Request, AcpInv, AcpTyped, A!TypeOK, A!HandlersTyped
<1> QED
  BY <1>1, <1>2 DEF A!ServeReturns, A!Quiet, A!Answered, A!client

\* The session a handler works on is the one opened last.
LEMMA AcpAt ==
  ASSUME AcpInv, NEW r \in A!Request, pc[r] \in Using \cup Ending \cup {"register"}
  PROVE  /\ obj[r] = opened /\ opened \in A!Built /\ A!Ctrl(r) = ctrl[opened]
         /\ ctrl[opened] \in 1 .. built /\ ctrl[opened] \in A!Built
BY AcpCtrl DEF AcpInv, AcpLatest, A!Ctrl

\* A handler of a close or a load has the session to itself.
LEMMA AcpSole ==
  ASSUME AcpInv, NEW r \in A!Request, kind[r] \in {"close", "load"}, pc[r] \notin {"answered", "later"}
  PROVE  \A q \in A!Request \ {r} : pc[q] \in {"none", "answered", "later"}
BY DEF AcpInv, AcpAlone, A!Answered

LEMMA AcpStays ==
  ASSUME AcpInv, NEW r \in A!Request, A!Handler(r) \/ A!Ask(r) \/ A!Reply(r)
  PROVE  /\ pc[r] \in {"none", "answered", "later"} =>
              pc'[r] \in {"none", "answered", "later"} /\ UNCHANGED <<live, opened>>
         /\ A!Answered(r) => pc'[r] \in {"answered", "later"}
<1> USE DEF AcpInv, AcpTyped, AcpPlaced, AcpPlacedAt, A!Answered, A!TypeOK, A!HandlersTyped,
            A!client, A!handler, A!object, A!turn, A!core, A!disk, A!notes
<1>1. CASE A!LookPrompt(r)
  BY <1>1 DEF A!LookPrompt, A!Starts, A!Ends, A!Finds, A!Goes
<1>2. CASE A!Begin(r)
  BY <1>2 DEF A!Begin, A!Goes
<1>3. CASE A!Ask(r)
  BY <1>3 DEF A!Ask
<1>4. CASE A!Reply(r)
  BY <1>4 DEF A!Reply
<1>5. CASE A!StopAsking(r)
  BY <1>5 DEF A!StopAsking
<1>6. CASE A!TurnEnds(r)
  BY <1>6 DEF A!TurnEnds, A!Goes, A!Ctrl, A!Written, A!Cancelled
<1>7. CASE A!Persist(r)
  BY <1>7 DEF A!Persist, A!Goes, A!Written, A!Ctrl
<1>8. CASE A!Finish(r)
  BY <1>8 DEF A!Finish, A!Goes, A!Ctrl
<1>9. CASE A!Apply(r)
  BY <1>9 DEF A!Apply, A!Goes
<1>10. CASE A!Restore(r)
  BY <1>10 DEF A!Restore, A!Goes
<1>11. CASE A!CancelTurn(r)
  BY <1>11 DEF A!CancelTurn, A!Starts, A!Ends, A!Goes
<1>12. CASE A!LookSwitch(r)
  BY <1>12 DEF A!LookSwitch, A!Ends, A!Finds, A!Goes
<1>13. CASE A!Compute(r)
  BY <1>13 DEF A!Compute, A!Goes, A!At
<1>14. CASE A!RefuseRebuild(r)
  BY <1>14 DEF A!RefuseRebuild, A!Goes
<1>15. CASE A!QueueRebuild(r)
  BY <1>15 DEF A!QueueRebuild, A!Goes, A!Accepts
<1>16. CASE A!Rebuild(r)
  BY <1>16 DEF A!Rebuild, A!Goes, A!Accepts, A!Written, A!Ctrl, A!Adopts, A!Releases
<1>17. CASE A!RebuildFails(r)
  BY <1>17 DEF A!RebuildFails, A!Goes, A!Written, A!Ctrl
<1>18. CASE A!Take(r)
  BY <1>18 DEF A!Take, A!Finds, A!Goes, A!Ends
<1>19. CASE A!Stop(r)
  BY <1>19 DEF A!Stop, A!Goes
<1>20. CASE A!Stopped(r)
  BY <1>20 DEF A!Stopped, A!Goes
<1>21. CASE A!CloseController(r)
  BY <1>21 DEF A!CloseController, A!Goes, A!Ctrl
<1>22. CASE A!Destroy(r)
  BY <1>22 DEF A!Destroy, A!Goes, A!Ctrl
<1>23. CASE A!Remove(r)
  BY <1>23 DEF A!Remove, A!Goes
<1>24. CASE A!RemoveLater(r)
  BY <1>24 DEF A!RemoveLater, A!Goes
<1>25. CASE A!LookLoad(r)
  BY <1>25 DEF A!LookLoad, A!Starts, A!Goes
<1>26. CASE A!Open(r)
  BY <1>26 DEF A!Open, A!Goes, A!Ends, A!Finds
<1>27. CASE A!Register(r)
  BY <1>27 DEF A!Register, A!Goes
<1>28. CASE A!TakePending(r)
  BY <1>28 DEF A!TakePending, A!Goes
<1>29. CASE A!OpenFails(r)
  BY <1>29 DEF A!OpenFails, A!Ends, A!Goes
<1> HIDE DEF AcpInv, AcpTyped, AcpPlaced, AcpPlacedAt, A!Answered, A!TypeOK, A!HandlersTyped,
            A!client, A!handler, A!object, A!turn, A!core, A!disk, A!notes
<1> QED
  BY <1>1, <1>2, <1>3, <1>4, <1>5, <1>6, <1>7, <1>8, <1>9, <1>10, <1>11, <1>12, <1>13, <1>14,
          <1>15, <1>16, <1>17, <1>18, <1>19, <1>20, <1>21, <1>22, <1>23, <1>24, <1>25, <1>26,
          <1>27, <1>28, <1>29
     DEF A!Handler, A!Prompt, A!Switches, A!Rebuilds, A!Closes, A!Loads

LEMMA AcpAloneStep ==
  ASSUME AcpInv, Patient, [A!Next]_A!vars
  PROVE  AcpAlone'
<1>1. ASSUME NEW k \in Kinds, A!Receive(k) PROVE AcpAlone'
  BY <1>1, AcpReceives DEF AcpInv, AcpAlone, A!Answered, AcpTyped, A!TypeOK, A!HandlersTyped
<1>2. ASSUME NEW r \in A!Request, A!Handler(r) \/ A!Ask(r) \/ A!Reply(r) PROVE AcpAlone'
  BY <1>2, AcpFrame, AcpStays DEF AcpInv, AcpAlone, A!Answered
<1>3. CASE A!HangUp \/ A!JobEnds \/ A!ServeReturns \/ UNCHANGED A!vars
  BY <1>3, AcpIdles DEF AcpInv, AcpAlone, A!Answered
<1> QED
  BY <1>1, <1>2, <1>3 DEF A!Next

LEMMA AcpLatestBy ==
  ASSUME AcpInv, NEW r \in A!Request, A!Handler(r) \/ A!Ask(r) \/ A!Reply(r)
  PROVE  /\ live' \in {0, opened'}
         /\ pc'[r] \in Using \cup Ending \cup {"register"} => obj'[r] = opened'
         /\ \A o \in A!Built : o > opened' => running'[o] = 0 /\ queued'[o] = A!None /\ o \notin deleted'
         /\ opened' = opened \/ pc[r] = "open"
<1> USE DEF AcpInv, AcpLatest, AcpTyped, A!TypeOK, A!HandlersTyped, A!ObjectsTyped, Using,
            Ending, A!client, A!handler, A!object, A!turn, A!core, A!disk, A!notes
<1>1. CASE A!Ask(r) \/ A!Reply(r) \/ A!StopAsking(r) \/ A!TurnEnds(r) \/ A!Persist(r) \/
           A!CancelTurn(r) \/ A!Compute(r) \/ A!RefuseRebuild(r) \/ A!Stopped(r) \/
           A!CloseController(r) \/ A!Destroy(r) \/ A!Remove(r) \/ A!RemoveLater(r) \/
           A!LookLoad(r) \/ A!Apply(r) \/ A!OpenFails(r)
  BY <1>1, AcpLive DEF A!Apply, A!OpenFails, A!Ask, A!Reply, A!StopAsking, A!TurnEnds, A!Goes,
     A!Ctrl, A!Written,
     A!Cancelled, A!Persist, A!CancelTurn, A!Starts, A!Ends, A!Compute, A!At,
     A!RefuseRebuild, A!Stopped, A!CloseController, A!Destroy, A!Remove, A!RemoveLater,
     A!LookLoad
<1>2. CASE A!LookPrompt(r)
  BY <1>2, AcpLive DEF A!LookPrompt, A!Starts, A!Ends, A!Finds, A!Goes
<1>3. CASE A!Begin(r)
  BY <1>3, AcpLive DEF A!Begin, A!Goes
<1>4. CASE A!Finish(r)
  BY <1>4, AcpLive DEF A!Finish, A!Goes, A!Ctrl
<1>5. CASE A!TakePending(r)
  <2>1. obj[r] = opened /\ opened \in Nat /\ queued \in [A!Built -> A!Config]
    BY <1>5, AcpAt, AcpLive DEF A!TakePending, A!ConfigsTyped
  <2>2. queued' = queued \/ queued' = [queued EXCEPT ![opened] = A!None]
    BY <1>5, <2>1 DEF A!TakePending
  <2>3. \A o \in A!Built : o > opened => queued'[o] = A!None
    BY <2>1, <2>2, AcpBounds DEF A!Built
  <2> QED BY <1>5, <2>1, <2>3 DEF A!TakePending, A!Goes
<1>6. CASE A!Restore(r)
  BY <1>6, AcpLive DEF A!Restore, A!Goes
<1>7. CASE A!LookSwitch(r)
  BY <1>7, AcpLive DEF A!LookSwitch, A!Ends, A!Finds, A!Goes
<1>8. CASE A!QueueRebuild(r)
  BY <1>8, AcpLive DEF A!QueueRebuild, A!Goes, A!Accepts
<1>9. CASE A!Rebuild(r)
  BY <1>9, AcpLive DEF A!Rebuild, A!Goes, A!Accepts, A!Written, A!Ctrl, A!Adopts, A!Releases
<1>10. CASE A!RebuildFails(r)
  BY <1>10, AcpLive DEF A!RebuildFails, A!Goes, A!Written, A!Ctrl
<1>11. CASE A!Take(r)
  BY <1>11, AcpLive DEF A!Take, A!Finds, A!Goes, A!Ends
<1>12. CASE A!Stop(r)
  BY <1>12, AcpLive DEF A!Stop, A!Goes
<1>13. CASE A!Open(r)
  <2>1. /\ live = 0 \/ live = opened
        /\ \/ opened' = opened /\ pc'[r] = "answered"
           \/ opened' = opened + 1 /\ obj'[r] = opened' /\ live = 0
        /\ UNCHANGED <<live, running, queued, deleted>>
    BY <1>13 DEF A!Open, A!Ends, A!Finds, A!Goes, AcpBarred
  <2>2. opened \in Nat /\ A!Built \subseteq Nat
    BY AcpLive, AcpBounds DEF A!Built
  <2>3. opened' \in Nat /\ opened' >= opened
    BY <2>1, <2>2
  <2>4. \A o \in A!Built : o > opened' => o > opened
    BY ONLY <2>2, <2>3
  <2> QED BY <1>13, <2>1, <2>4 DEF A!Open
<1>14. CASE A!Register(r)
  BY <1>14, AcpLive DEF A!Register, A!Goes
<1> HIDE DEF AcpInv, AcpLatest, AcpTyped, A!TypeOK, A!HandlersTyped, A!ObjectsTyped, Using,
            Ending, A!client, A!handler, A!object, A!turn, A!core, A!disk, A!notes
<1> QED
  BY <1>1, <1>2, <1>3, <1>4, <1>5, <1>6, <1>7, <1>8, <1>9, <1>10, <1>11, <1>12, <1>13, <1>14
     DEF A!Handler, A!Prompt, A!Switches, A!Rebuilds, A!Closes, A!Loads

LEMMA AcpLatestStep ==
  ASSUME AcpInv, Patient, [A!Next]_A!vars
  PROVE  AcpLatest'
<1>1. ASSUME NEW k \in Kinds, A!Receive(k) PROVE AcpLatest'
  BY <1>1, AcpReceives DEF AcpInv, AcpLatest, AcpTyped, A!TypeOK, A!HandlersTyped, Using, Ending
<1>2. ASSUME NEW r \in A!Request, A!Handler(r) \/ A!Ask(r) \/ A!Reply(r) PROVE AcpLatest'
  <2>1. pc[r] = "open" => \A q \in A!Request \ {r} : pc[q] \in {"none", "answered", "later"}
    BY AcpSole DEF AcpInv, AcpTyped, AcpPlaced, AcpPlacedAt
  <2> QED BY <1>2, <2>1, AcpFrame, AcpLatestBy DEF AcpInv, AcpLatest, Using, Ending
<1>3. CASE A!HangUp \/ A!JobEnds \/ A!ServeReturns \/ UNCHANGED A!vars
  BY <1>3, AcpIdles, AcpServes DEF AcpInv, AcpLatest
<1> QED
  BY <1>1, <1>2, <1>3 DEF A!Next

LEMMA AcpRunner ==
  ASSUME AcpInv
  PROVE  /\ opened \in A!Built
         /\ running[opened] # 0 => running[opened] \in A!Request
BY AcpLive, AcpBounds DEF A!Request, AcpInv, AcpTyped, A!TypeOK, A!ObjectsTyped

LEMMA AcpHeldBy ==
  ASSUME AcpInv, NEW r \in A!Request, A!Handler(r) \/ A!Ask(r) \/ A!Reply(r)
  PROVE  AcpHeld'
<1> USE DEF AcpInv, AcpHeld, Holds, AcpLatest, AcpTyped, A!TypeOK, A!HandlersTyped,
            A!ObjectsTyped, A!client, A!handler, A!object, A!turn, A!core, A!disk, A!notes
<1>1. CASE A!LookPrompt(r) \/ A!Ask(r) \/ A!Reply(r) \/ A!StopAsking(r) \/ A!Apply(r) \/
           A!Restore(r) \/ A!CancelTurn(r) \/ A!LookSwitch(r) \/ A!Compute(r) \/
           A!RefuseRebuild(r) \/ A!QueueRebuild(r) \/ A!Rebuild(r) \/ A!RebuildFails(r) \/
           A!Stopped(r) \/ A!CloseController(r) \/ A!Destroy(r) \/ A!Remove(r) \/
           A!RemoveLater(r) \/ A!LookLoad(r) \/ A!TakePending(r) \/ A!OpenFails(r)
  BY <1>1, AcpFrame, AcpRunner DEF A!TakePending, A!OpenFails, A!LookPrompt, A!Starts, A!Ends,
     A!Finds, A!Goes, A!Ask,
     A!Reply, A!StopAsking, A!Apply, A!Restore, A!CancelTurn, A!LookSwitch, A!Compute, A!At,
     A!RefuseRebuild, A!QueueRebuild, A!Accepts, A!Rebuild, A!Written, A!Ctrl, A!Adopts,
     A!Releases, A!RebuildFails, A!Stopped, A!CloseController, A!Destroy, A!Remove,
     A!RemoveLater, A!LookLoad
<1>2. CASE A!Begin(r)
  <2>1. obj[r] = opened /\ opened \in A!Built
    BY <1>2, AcpAt DEF A!Begin, Using
  <2>2. CASE running[opened] = 0 /\ running' = [running EXCEPT ![opened] = r] /\ pc'[r] = "turn"
    <3>1. \A q \in A!Request : pc[q] \notin Holds
      BY <2>2, AcpBounds DEF A!Request
    <3>2. running'[opened'] = r /\ \A q \in A!Request \ {r} : pc'[q] \notin Holds
      BY <1>2, <2>1, <2>2, <3>1, AcpFrame DEF A!Begin
    <3> QED BY <2>2, <3>2
  <2>3. CASE UNCHANGED running /\ pc'[r] = "answered"
    BY <1>2, <2>3, AcpFrame, AcpRunner DEF A!Begin
  <2> QED BY <1>2, <2>1, <2>2, <2>3 DEF A!Begin, A!Goes
<1>3. CASE A!TurnEnds(r)
  BY <1>3, AcpFrame, AcpRunner DEF A!TurnEnds, A!Goes, A!Ctrl, A!Written, A!Cancelled
<1>4. CASE A!Persist(r)
  BY <1>4, AcpFrame, AcpRunner DEF A!Persist, A!Goes, A!Written, A!Ctrl
<1>5. CASE A!Finish(r)
  <2>1. obj[r] = opened /\ opened \in A!Built /\ opened' = opened
    BY <1>5, AcpAt DEF A!Finish, Using
  <2>2. running'[opened] = 0 /\ pc'[r] = "apply" /\ running[opened] = r
    BY <1>5, <2>1 DEF A!Finish, A!Goes
  <2> QED BY <2>1, <2>2, AcpFrame
<1>6. CASE A!Take(r)
  BY <1>6, AcpFrame, AcpRunner DEF A!Take, A!Finds, A!Goes, A!Ends
<1>7. CASE A!Stop(r)
  BY <1>7, AcpFrame, AcpRunner DEF A!Stop, A!Goes
<1>8. CASE A!Open(r)
  <2>1. \A q \in A!Request \ {r} : pc[q] \in {"none", "answered", "later"}
    BY <1>8, AcpSole DEF A!Open, AcpPlaced, AcpPlacedAt
  <2>2. pc'[r] \in {"answered", "register"} /\ UNCHANGED running /\ opened' \in {opened, opened + 1}
    BY <1>8 DEF A!Open, A!Ends, A!Finds, A!Goes
  <2>3. \A q \in A!Request : pc[q] \notin Holds /\ pc'[q] \notin Holds
    BY <1>8, <2>1, <2>2, AcpFrame DEF A!Open
  <2>4. running[opened] = 0
    BY <2>3, AcpRunner
  <2>5. opened + 1 \in A!Built /\ opened + 1 > opened
    BY <1>8, AcpRoom, AcpLive DEF A!Open, AcpSpent
  <2> QED BY <2>2, <2>3, <2>4, <2>5
<1>9. CASE A!Register(r)
  BY <1>9, AcpFrame, AcpRunner DEF A!Register, A!Goes
<1> HIDE DEF AcpInv, AcpHeld, Holds, AcpLatest, AcpTyped, A!TypeOK, A!HandlersTyped,
            A!ObjectsTyped, A!client, A!handler, A!object, A!turn, A!core, A!disk, A!notes
<1> QED
  BY <1>1, <1>2, <1>3, <1>4, <1>5, <1>6, <1>7, <1>8, <1>9
     DEF A!Handler, A!Prompt, A!Switches, A!Rebuilds, A!Closes, A!Loads

LEMMA AcpHeldStep ==
  ASSUME AcpInv, Patient, [A!Next]_A!vars
  PROVE  AcpHeld'
<1>1. ASSUME NEW k \in Kinds, A!Receive(k) PROVE AcpHeld'
  BY <1>1, AcpReceives, AcpRunner DEF AcpInv, AcpHeld, AcpTyped, A!TypeOK, A!HandlersTyped, Holds
<1>2. ASSUME NEW r \in A!Request, A!Handler(r) \/ A!Ask(r) \/ A!Reply(r) PROVE AcpHeld'
  BY <1>2, AcpHeldBy
<1>3. CASE A!HangUp \/ A!JobEnds \/ A!ServeReturns \/ UNCHANGED A!vars
  BY <1>3, AcpIdles, AcpServes DEF AcpInv, AcpHeld, Holds
<1> QED
  BY <1>1, <1>2, <1>3 DEF A!Next

LEMMA AcpBarredBy ==
  ASSUME AcpInv, NEW r \in A!Request, A!Handler(r) \/ A!Ask(r) \/ A!Reply(r)
  PROVE  AcpBarred'
<1> USE DEF AcpInv, AcpBarred, AcpMarks, AcpLatest, AcpDoomed, AcpTyped, AcpPlaced, AcpPlacedAt,
            A!TypeOK, A!HandlersTyped, A!ObjectsTyped, A!client, A!handler, A!object, A!turn,
            A!core, A!disk, A!notes
<1>1. CASE A!LookPrompt(r) \/ A!Begin(r) \/ A!Ask(r) \/ A!Reply(r) \/ A!StopAsking(r) \/
           A!TurnEnds(r) \/ A!Persist(r) \/ A!Finish(r) \/ A!CancelTurn(r) \/
           A!LookSwitch(r) \/ A!Compute(r) \/ A!RefuseRebuild(r) \/ A!Stopped(r) \/
           A!CloseController(r) \/ A!Apply(r) \/ A!OpenFails(r)
  BY <1>1, AcpFrame, AcpSole DEF A!Apply, A!OpenFails, A!LookPrompt, A!Starts, A!Ends, A!Finds,
     A!Goes, A!Begin,
     A!Ask, A!Reply, A!StopAsking, A!TurnEnds, A!Ctrl, A!Written, A!Cancelled, A!Persist,
     A!Finish, A!CancelTurn, A!LookSwitch, A!Compute, A!At, A!RefuseRebuild, A!Stopped,
     A!CloseController
<1>2. CASE A!TakePending(r)
  BY <1>2, AcpFrame, AcpSole DEF A!TakePending, A!Goes
<1>3. CASE A!Restore(r)
  BY <1>3, AcpFrame, AcpSole DEF A!Restore, A!Goes
<1>4. CASE A!QueueRebuild(r)
  BY <1>4, AcpFrame, AcpSole DEF A!QueueRebuild, A!Goes, A!Accepts
<1>5. CASE A!Rebuild(r)
  BY <1>5, AcpFrame, AcpSole DEF A!Rebuild, A!Goes, A!Accepts, A!Written, A!Ctrl, A!Adopts,
     A!Releases
<1>6. CASE A!RebuildFails(r)
  BY <1>6, AcpFrame, AcpSole DEF A!RebuildFails, A!Goes, A!Written, A!Ctrl
<1>7. CASE A!Take(r)
  BY <1>7, AcpFrame, AcpSole DEF A!Take, A!Finds, A!Goes, A!Ends
<1>8. CASE A!Stop(r)
  <2>1. obj[r] = opened /\ (kind[r] = "delete" => live = 0)
    BY <1>8, AcpAt DEF A!Stop, Ending, Deletes
  <2>2. \A q \in A!Request : pc[q] \notin {"register", "open"} /\ pc'[q] \notin {"register", "open"}
    BY <1>8, AcpFrame, AcpSole DEF A!Stop, A!Goes
  <2> QED BY <1>8, <2>1, <2>2 DEF A!Stop
<1>9. CASE A!Destroy(r)
  BY <1>9, AcpFrame, AcpSole DEF A!Destroy, A!Goes, A!Ctrl
<1>10. CASE A!Remove(r)
  BY <1>10, AcpFrame, AcpSole DEF A!Remove, A!Goes
<1>11. CASE A!RemoveLater(r)
  BY <1>11, AcpFrame, AcpSole DEF A!RemoveLater, A!Goes
<1>12. CASE A!LookLoad(r)
  BY <1>12, AcpFrame, AcpSole DEF A!LookLoad, A!Starts, A!Goes
<1>13. CASE A!Open(r)
  <2>1. \A q \in A!Request \ {r} : pc[q] \in {"none", "answered", "later"}
    BY <1>13, AcpSole DEF A!Open
  <2>2. live = 0 /\ ~marked /\ UNCHANGED <<live, marked, erased, deleted, queued, failed>>
    BY <1>13 DEF A!Open
  <2>3. CASE UNCHANGED opened /\ pc'[r] = "answered"
    BY <2>1, <2>2, <2>3, AcpFrame
  <2>4. CASE transcript # {} /\ opened' = opened + 1 /\ pc'[r] = "register"
    <3>1. opened + 1 \in A!Built /\ opened + 1 > opened
      BY <1>13, AcpRoom, AcpLive DEF A!Open, AcpSpent
    <3>2. AcpMarks => ~erased
      BY <1>13, <2>1, <2>2, <2>4 DEF A!Open, AcpErased, Deletes, Ending
    <3> QED BY <2>1, <2>2, <2>4, <3>1, <3>2, AcpFrame
  <2> QED BY <1>13, <2>3, <2>4 DEF A!Open, A!Ends, A!Finds, A!Goes
<1>14. CASE A!Register(r)
  BY <1>14, AcpFrame, AcpSole DEF A!Register, A!Goes
<1> HIDE DEF AcpInv, AcpBarred, AcpMarks, AcpLatest, AcpDoomed, AcpTyped, AcpPlaced, AcpPlacedAt,
            A!TypeOK, A!HandlersTyped, A!ObjectsTyped, A!client, A!handler, A!object, A!turn,
            A!core, A!disk, A!notes
<1> QED
  BY <1>1, <1>2, <1>3, <1>4, <1>5, <1>6, <1>7, <1>8, <1>9, <1>10, <1>11, <1>12, <1>13, <1>14
     DEF A!Handler, A!Prompt, A!Switches, A!Rebuilds, A!Closes, A!Loads

LEMMA AcpBarredStep ==
  ASSUME AcpInv, Patient, [A!Next]_A!vars
  PROVE  AcpBarred'
<1>1. ASSUME NEW k \in Kinds, A!Receive(k) PROVE AcpBarred'
  BY <1>1, AcpReceives, AcpLive, AcpBounds DEF AcpInv, AcpBarred, AcpMarks, AcpTyped, A!TypeOK,
     A!HandlersTyped
<1>2. ASSUME NEW r \in A!Request, A!Handler(r) \/ A!Ask(r) \/ A!Reply(r) PROVE AcpBarred'
  BY <1>2, AcpBarredBy
<1>3. CASE A!HangUp \/ A!JobEnds \/ A!ServeReturns \/ UNCHANGED A!vars
  BY <1>3, AcpIdles, AcpServes DEF AcpInv, AcpBarred, AcpMarks
<1> QED
  BY <1>1, <1>2, <1>3 DEF A!Next

LEMMA AcpKeptBy ==
  ASSUME AcpInv, NEW r \in A!Request, A!Handler(r) \/ A!Ask(r) \/ A!Reply(r)
  PROVE  AcpKept'
<1> USE DEF AcpInv, AcpKept, AcpLatest, AcpTyped, A!TypeOK, A!HandlersTyped, A!ObjectsTyped,
            A!TurnsTyped, A!client, A!handler, A!object, A!turn, A!core, A!disk, A!notes
<1>1. CASE A!LookPrompt(r) \/ A!Begin(r) \/ A!Ask(r) \/ A!Reply(r) \/ A!StopAsking(r) \/
           A!Apply(r) \/ A!Restore(r) \/ A!CancelTurn(r) \/ A!LookSwitch(r) \/ A!Compute(r)
           \/ A!RefuseRebuild(r) \/ A!QueueRebuild(r) \/ A!Take(r) \/ A!Stop(r) \/
           A!Stopped(r) \/ A!CloseController(r) \/ A!Destroy(r) \/ A!LookLoad(r) \/
           A!Register(r) \/ A!TakePending(r) \/ A!OpenFails(r)
  BY <1>1, AcpLive DEF A!TakePending, A!OpenFails, A!LookPrompt, A!Starts, A!Ends, A!Finds,
     A!Goes, A!Begin, A!Ask,
     A!Reply, A!StopAsking, A!Apply, A!Restore, A!CancelTurn, A!LookSwitch, A!Compute, A!At,
     A!RefuseRebuild, A!QueueRebuild, A!Accepts, A!Take, A!Stop, A!Stopped,
     A!CloseController, A!Ctrl, A!Destroy, A!LookLoad, A!Register
<1>2. CASE A!TurnEnds(r)
  <2>1. A!Ctrl(r) = ctrl[opened] /\ ctrl[opened] \in A!Built
    BY <1>2, AcpAt DEF A!TurnEnds, Using
  <2>2. history[ctrl[opened]] \subseteq history'[ctrl[opened]]
        /\ transcript' = A!Written(history'[ctrl[opened]])
    BY <1>2, <2>1 DEF A!TurnEnds
  <2>3. history' = history \/ r \in history'[ctrl[opened]]
    BY <1>2, <2>1 DEF A!TurnEnds
  <2> QED BY <1>2, <2>2, <2>3 DEF A!TurnEnds, A!Written
<1>3. CASE A!Persist(r)
  <2>1. A!Ctrl(r) = ctrl[opened] /\ ctrl[opened] \in A!Built
    BY <1>3, AcpAt DEF A!Persist, Using
  <2> QED BY <1>3, <2>1 DEF A!Persist, A!Written
<1>4. CASE A!Finish(r)
  <2>1. A!Ctrl(r) = ctrl[opened]
    BY <1>4, AcpAt DEF A!Finish, Using
  <2> QED BY <1>4, <2>1 DEF A!Finish
<1>5. CASE A!Rebuild(r)
  <2>1. A!Ctrl(r) = ctrl[opened] /\ obj[r] = opened /\ built' \in A!Built
    BY <1>5, AcpAt, AcpRoom DEF A!Rebuild, Using, AcpSpent
  <2>2. ctrl'[opened] = built' /\ history'[built'] = history[ctrl[opened]]
        /\ transcript' = A!Written(history[ctrl[opened]])
    BY <1>5, <2>1, AcpLive DEF A!Rebuild, A!Adopts
  <2> QED BY <1>5, <2>2 DEF A!Rebuild, A!Written
<1>6. CASE A!RebuildFails(r)
  <2>1. A!Ctrl(r) = ctrl[opened]
    BY <1>6, AcpAt DEF A!RebuildFails, Using
  <2> QED BY <1>6, <2>1 DEF A!RebuildFails, A!Written
<1>7. CASE A!Remove(r)
  BY <1>7, AcpLive DEF A!Remove, A!Goes
<1>8. CASE A!RemoveLater(r)
  BY <1>8, AcpLive DEF A!RemoveLater, A!Goes
<1>9. CASE A!Open(r)
  <2>1. opened + 1 \in A!Built /\ built + 1 \in A!Built
    BY <1>9, AcpRoom DEF A!Open, AcpSpent
  <2>2. CASE UNCHANGED <<ctrl, opened, history>>
    BY <1>9, <2>2 DEF A!Open
  <2>3. CASE opened' = opened + 1 /\ ctrl' = [ctrl EXCEPT ![opened'] = built']
             /\ history' = [history EXCEPT ![built'] = transcript]
    <3>1. history'[ctrl'[opened']] = transcript
      BY <1>9, <2>1, <2>3 DEF A!Open
    <3> QED BY <1>9, <3>1 DEF A!Open
  <2> QED BY <1>9, <2>2, <2>3 DEF A!Open
<1> HIDE DEF AcpInv, AcpKept, AcpLatest, AcpTyped, A!TypeOK, A!HandlersTyped, A!ObjectsTyped,
            A!TurnsTyped, A!client, A!handler, A!object, A!turn, A!core, A!disk, A!notes
<1> QED
  BY <1>1, <1>2, <1>3, <1>4, <1>5, <1>6, <1>7, <1>8, <1>9
     DEF A!Handler, A!Prompt, A!Switches, A!Rebuilds, A!Closes, A!Loads

LEMMA AcpKeptStep ==
  ASSUME AcpInv, Patient, [A!Next]_A!vars
  PROVE  AcpKept'
<1>1. ASSUME NEW k \in Kinds, A!Receive(k) PROVE AcpKept'
  BY <1>1, AcpReceives DEF AcpInv, AcpKept, AcpTyped, A!TypeOK, A!HandlersTyped
<1>2. ASSUME NEW r \in A!Request, A!Handler(r) \/ A!Ask(r) \/ A!Reply(r) PROVE AcpKept'
  BY <1>2, AcpKeptBy
<1>3. CASE A!HangUp \/ A!JobEnds \/ A!ServeReturns \/ UNCHANGED A!vars
  BY <1>3, AcpIdles, AcpServes DEF AcpInv, AcpKept
<1> QED
  BY <1>1, <1>2, <1>3 DEF A!Next

LEMMA AcpDoomedBy ==
  ASSUME AcpInv, NEW r \in A!Request, A!Handler(r) \/ A!Ask(r) \/ A!Reply(r)
  PROVE  AcpDoomed'
<1> USE DEF AcpInv, AcpDoomed, AcpMarks, Deletes, Ending, AcpTyped, A!TypeOK, A!HandlersTyped, A!client,
            A!handler, A!object, A!turn, A!core, A!disk, A!notes
<1>1. CASE A!LookPrompt(r) \/ A!Begin(r) \/ A!Ask(r) \/ A!Reply(r) \/ A!StopAsking(r) \/
           A!TurnEnds(r) \/ A!Persist(r) \/ A!Finish(r) \/ A!Apply(r) \/ A!Restore(r) \/
           A!CancelTurn(r) \/ A!LookSwitch(r) \/ A!Compute(r) \/ A!RefuseRebuild(r) \/
           A!QueueRebuild(r) \/ A!Rebuild(r) \/ A!RebuildFails(r) \/ A!CloseController(r) \/
           A!TakePending(r) \/ A!OpenFails(r)
  BY <1>1, AcpFrame DEF A!TakePending, A!OpenFails, A!LookPrompt, A!Starts, A!Ends, A!Finds,
     A!Goes, A!Begin, A!Ask,
     A!Reply, A!StopAsking, A!TurnEnds, A!Ctrl, A!Written, A!Cancelled, A!Persist, A!Finish,
     A!Apply, A!Restore, A!CancelTurn, A!LookSwitch, A!Compute, A!At, A!RefuseRebuild,
     A!QueueRebuild, A!Accepts, A!Rebuild, A!Adopts, A!Releases, A!RebuildFails,
     A!CloseController
<1>2. CASE A!Take(r)
  BY <1>2, AcpFrame DEF A!Take, A!Finds, A!Goes, A!Ends
<1>3. CASE A!Stop(r)
  BY <1>3, AcpFrame DEF A!Stop, A!Goes
<1>4. CASE A!Stopped(r)
  BY <1>4, AcpFrame DEF A!Stopped, A!Goes
<1>5. CASE A!Destroy(r)
  BY <1>5, AcpFrame DEF A!Destroy, A!Goes, A!Ctrl
<1>6. CASE A!Remove(r)
  <2>1. live = 0
    BY <1>6 DEF A!Remove, AcpPlaced, AcpPlacedAt
  <2> QED BY <1>6, <2>1 DEF A!Remove
<1>7. CASE A!RemoveLater(r)
  <2>1. AcpMarks => live = 0
    BY <1>7 DEF A!RemoveLater, AcpPlaced, AcpPlacedAt
  <2>2. pc'[r] = "answered" /\ UNCHANGED <<live, failed>> /\ erased'
    BY <1>7 DEF A!RemoveLater, A!Goes
  <2> QED BY <2>1, <2>2, AcpFrame
<1>8. CASE A!LookLoad(r)
  BY <1>8, AcpFrame DEF A!LookLoad, A!Starts, A!Goes
<1>9. CASE A!Open(r)
  BY <1>9, AcpFrame DEF A!Open, A!Goes, A!Ends, A!Finds
<1>10. CASE A!Register(r)
  <2>1. AcpMarks => ~erased /\ ~marked
    BY <1>10 DEF A!Register, AcpBarred
  <2>2. \A q \in A!Request : pc'[q] \notin {"stop", "wait", "release", "remove"}
    BY <1>10, AcpFrame, AcpSole DEF A!Register, A!Goes, AcpPlaced, AcpPlacedAt
  <2>3. AcpMarks => \A q \in A!Request : pc'[q] # "later"
    BY <1>10, <2>1, AcpFrame DEF A!Register, A!Goes
  <2> QED BY <1>10, <2>1, <2>2, <2>3 DEF A!Register
<1> HIDE DEF AcpInv, AcpDoomed, AcpMarks, Deletes, Ending, AcpTyped, A!TypeOK, A!HandlersTyped,
            A!client, A!handler, A!object, A!turn, A!core, A!disk, A!notes
<1> QED
  BY <1>1, <1>2, <1>3, <1>4, <1>5, <1>6, <1>7, <1>8, <1>9, <1>10
     DEF A!Handler, A!Prompt, A!Switches, A!Rebuilds, A!Closes, A!Loads

LEMMA AcpDoomedStep ==
  ASSUME AcpInv, Patient, [A!Next]_A!vars
  PROVE  AcpDoomed'
<1>1. ASSUME NEW k \in Kinds, A!Receive(k) PROVE AcpDoomed'
  BY <1>1, AcpReceives DEF AcpInv, AcpDoomed, AcpMarks, AcpTyped, A!TypeOK, A!HandlersTyped,
     Deletes, Ending
<1>2. ASSUME NEW r \in A!Request, A!Handler(r) \/ A!Ask(r) \/ A!Reply(r) PROVE AcpDoomed'
  BY <1>2, AcpDoomedBy
<1>3. CASE A!HangUp \/ A!JobEnds \/ A!ServeReturns \/ UNCHANGED A!vars
  BY <1>3, AcpIdles, AcpServes DEF AcpInv, AcpDoomed, AcpMarks, Deletes, Ending
<1> QED
  BY <1>1, <1>2, <1>3 DEF A!Next

LEMMA AcpTakenBy ==
  ASSUME AcpInv, NEW r \in A!Request, A!Handler(r) \/ A!Ask(r) \/ A!Reply(r)
  PROVE  AcpTaken'
<1> USE DEF AcpInv, AcpTaken, Deletes, Using, Ending, AcpTyped, A!TypeOK, A!HandlersTyped,
            A!client, A!handler, A!object, A!turn, A!core, A!disk, A!notes
<1>1. CASE A!Ask(r) \/ A!Reply(r) \/ A!StopAsking(r) \/ A!TurnEnds(r) \/ A!Persist(r) \/
           A!Apply(r) \/ A!Restore(r) \/ A!CancelTurn(r) \/ A!Compute(r) \/
           A!RefuseRebuild(r) \/ A!QueueRebuild(r) \/ A!Rebuild(r) \/ A!RebuildFails(r) \/
           A!CloseController(r) \/ A!Destroy(r) \/ A!Remove(r) \/ A!RemoveLater(r) \/
           A!LookLoad(r) \/ A!TakePending(r) \/ A!OpenFails(r)
  BY <1>1, AcpFrame DEF A!TakePending, A!OpenFails, A!Ask, A!Reply, A!StopAsking, A!TurnEnds,
     A!Goes, A!Ctrl, A!Written,
     A!Cancelled, A!Persist, A!Apply, A!Restore, A!CancelTurn, A!Starts, A!Ends, A!Compute,
     A!At, A!RefuseRebuild, A!QueueRebuild, A!Accepts, A!Rebuild, A!Adopts, A!Releases,
     A!RebuildFails, A!CloseController, A!Destroy, A!Remove, A!RemoveLater, A!LookLoad
<1>2. CASE A!LookPrompt(r)
  BY <1>2, AcpFrame DEF A!LookPrompt, A!Starts, A!Ends, A!Finds, A!Goes
<1>3. CASE A!Begin(r)
  <2>1. obj[r] = opened /\ opened \in A!Built
    BY <1>3, AcpAt DEF A!Begin
  <2>2. CASE opened \in deleted
    BY <1>3, <2>1, <2>2, AcpFrame DEF A!Begin, A!Goes
  <2>3. CASE opened \notin deleted
    <3>1. \A q \in A!Request : kind'[q] = "delete" => pc'[q] # "wait"
      BY <1>3, <2>3, AcpFrame DEF A!Begin, A!Goes
    <3>2. live' = 0 => Deletes({"stop", "wait"})'
      BY <1>3, <2>3, AcpFrame DEF A!Begin
    <3> QED BY <3>1, <3>2
  <2> QED BY <2>2, <2>3
<1>4. CASE A!Finish(r)
  <2>1. obj[r] = opened /\ opened \in A!Built /\ opened' = opened
    BY <1>4, AcpAt DEF A!Finish
  <2>2. running'[opened] = 0 /\ UNCHANGED <<live, deleted>> /\ pc'[r] = "apply"
    BY <1>4, <2>1 DEF A!Finish, A!Goes, A!ObjectsTyped
  <2>3. live' = 0 => opened \in deleted \/ Deletes({"stop", "wait"})'
    BY <1>4, <2>2, AcpFrame DEF A!Finish
  <2> QED BY <1>4, <2>1, <2>2, <2>3, AcpFrame
<1>5. CASE A!LookSwitch(r)
  BY <1>5, AcpFrame DEF A!LookSwitch, A!Ends, A!Finds, A!Goes
<1>6. CASE A!Take(r)
  <2>1. kind[r] = "close" => \A q \in A!Request \ {r} : pc[q] \in {"none", "answered", "later"}
    BY <1>6, AcpSole DEF A!Take
  <2>2. live' = 0 /\ UNCHANGED <<running, deleted, opened>> /\ pc'[r] \in {"stop", "remove", "answered"}
        /\ (live # 0 => pc'[r] = "stop")
    BY <1>6 DEF A!Take, A!Finds, A!Ends, A!Goes
  <2>3. CASE live = 0
    BY <1>6, <2>2, <2>3, AcpFrame DEF A!Take
  <2>4. CASE live # 0
    BY <1>6, <2>1, <2>2, <2>4, AcpFrame DEF A!Take
  <2> QED BY <2>3, <2>4
<1>7. CASE A!Stop(r)
  <2>1. obj[r] = opened
    BY <1>7, AcpAt DEF A!Stop
  <2>2. pc'[r] = "wait" /\ owner'[r] = running[opened] /\ UNCHANGED <<live, running, opened>>
        /\ deleted \subseteq deleted' /\ (kind[r] = "delete" => opened \in deleted')
    BY <1>7, <2>1 DEF A!Stop, A!Goes
  <2> QED BY <1>7, <2>2, AcpFrame DEF A!Stop
<1>8. CASE A!Stopped(r)
  <2>1. obj[r] = opened
    BY <1>8, AcpAt DEF A!Stopped
  <2>2. pc'[r] = "release" /\ UNCHANGED <<live, running, opened, deleted>>
        /\ (kind[r] = "delete" => opened \in deleted /\ running[opened] = 0)
    BY <1>8, <2>1 DEF A!Stopped, A!Goes
  <2> QED BY <1>8, <2>2, AcpFrame DEF A!Stopped
<1>9. CASE A!Open(r)
  <2>1. \A q \in A!Request \ {r} : pc[q] \in {"none", "answered", "later"}
    BY <1>9, AcpSole DEF A!Open, AcpPlaced, AcpPlacedAt
  <2>2. pc'[r] \in {"answered", "register"}
    BY <1>9 DEF A!Open, A!Ends, A!Finds, A!Goes
  <2> QED BY <2>1, <2>2, AcpFrame
<1>10. CASE A!Register(r)
  <2>1. \A q \in A!Request \ {r} : pc[q] \in {"none", "answered", "later"}
    BY <1>10, AcpSole DEF A!Register, AcpPlaced, AcpPlacedAt
  <2>2. pc'[r] = "answered"
    BY <1>10 DEF A!Register, A!Goes
  <2> QED BY <2>1, <2>2, AcpFrame
<1> HIDE DEF AcpInv, AcpTaken, Deletes, Using, Ending, AcpTyped, A!TypeOK, A!HandlersTyped,
            A!client, A!handler, A!object, A!turn, A!core, A!disk, A!notes
<1> QED
  BY <1>1, <1>2, <1>3, <1>4, <1>5, <1>6, <1>7, <1>8, <1>9, <1>10
     DEF A!Handler, A!Prompt, A!Switches, A!Rebuilds, A!Closes, A!Loads

LEMMA AcpTakenStep ==
  ASSUME AcpInv, Patient, [A!Next]_A!vars
  PROVE  AcpTaken'
<1>1. ASSUME NEW k \in Kinds, A!Receive(k) PROVE AcpTaken'
  BY <1>1, AcpReceives DEF AcpInv, AcpTaken, AcpTyped, A!TypeOK, A!HandlersTyped, Deletes, Using
<1>2. ASSUME NEW r \in A!Request, A!Handler(r) \/ A!Ask(r) \/ A!Reply(r) PROVE AcpTaken'
  BY <1>2, AcpTakenBy
<1>3. CASE A!HangUp \/ A!JobEnds \/ A!ServeReturns \/ UNCHANGED A!vars
  BY <1>3, AcpIdles, AcpServes DEF AcpInv, AcpTaken, Deletes, Using
<1> QED
  BY <1>1, <1>2, <1>3 DEF A!Next

\* What still uses a session that has been taken out is followed by a delete that waits.
LEMMA AcpFollowed ==
  ASSUME AcpInv, AcpMarks, erased, NEW r \in A!Request, pc[r] \in Using,
         pc[r] \in Holds \/ obj[r] \notin deleted
  PROVE  Deletes({"stop", "wait"})
<1>1. live = 0
  BY DEF AcpInv, AcpDoomed
<1>2. obj[r] = opened /\ (pc[r] \in Holds => running[opened] = r)
  BY AcpAt DEF AcpInv, AcpHeld
<1> QED
  BY <1>1, <1>2, AcpBounds DEF AcpInv, AcpTaken, A!Request

LEMMA AcpErasedBy ==
  ASSUME AcpInv, NEW r \in A!Request, A!Handler(r) \/ A!Ask(r) \/ A!Reply(r)
  PROVE  AcpErased'
<1> USE DEF AcpInv, AcpErased, AcpMarks, Deletes, Using, Ending, AcpTyped, A!TypeOK, A!HandlersTyped,
            A!client, A!handler, A!object, A!turn, A!core, A!disk, A!notes
<1>1. CASE A!LookPrompt(r) \/ A!Begin(r) \/ A!Ask(r) \/ A!Reply(r) \/ A!StopAsking(r) \/
           A!Finish(r) \/ A!Apply(r) \/ A!Restore(r) \/ A!CancelTurn(r) \/ A!LookSwitch(r)
           \/ A!Compute(r) \/ A!RefuseRebuild(r) \/ A!QueueRebuild(r) \/ A!Take(r) \/
           A!LookLoad(r) \/ A!Open(r) \/ A!Register(r) \/ A!TakePending(r) \/ A!OpenFails(r)
  BY <1>1, AcpFrame DEF A!TakePending, A!OpenFails, A!LookPrompt, A!Starts, A!Ends, A!Finds,
     A!Goes, A!Begin, A!Ask,
     A!Reply, A!StopAsking, A!Finish, A!Ctrl, A!Apply, A!Restore, A!CancelTurn,
     A!LookSwitch, A!Compute, A!At, A!RefuseRebuild, A!QueueRebuild, A!Accepts, A!Take,
     A!LookLoad, A!Open, A!Register
<1>2. CASE A!TurnEnds(r)
  <2>1. pc[r] \in Using /\ pc'[r] \in Using \cup {"answered"} /\ (pc[r] \in Holds \/ obj[r] \notin deleted)
    BY <1>2 DEF A!TurnEnds, A!Goes, A!Refused, Holds
  <2>2. AcpMarks /\ erased => Deletes({"stop", "wait"})
    BY <2>1, AcpFollowed
  <2>3. \A q \in A!Request : kind[q] = "delete" /\ pc[q] \in {"stop", "wait"} => pc'[q] = pc[q]
    BY <2>1, AcpFrame
  <2>4. UNCHANGED <<erased, kind>> /\ failed \subseteq failed'
    BY <1>2, AcpFrame DEF A!TurnEnds
  <2> QED BY <2>2, <2>3, <2>4
<1>3. CASE A!Persist(r)
  <2>1. pc[r] \in Using /\ pc'[r] \in Using \cup {"answered"} /\ (pc[r] \in Holds \/ obj[r] \notin deleted)
    BY <1>3 DEF A!Persist, A!Goes, A!Refused, Holds
  <2>2. AcpMarks /\ erased => Deletes({"stop", "wait"})
    BY <2>1, AcpFollowed
  <2>3. \A q \in A!Request : kind[q] = "delete" /\ pc[q] \in {"stop", "wait"} => pc'[q] = pc[q]
    BY <2>1, AcpFrame
  <2>4. UNCHANGED <<erased, kind>> /\ failed \subseteq failed'
    BY <1>3, AcpFrame DEF A!Persist
  <2> QED BY <2>2, <2>3, <2>4
<1>4. CASE A!Rebuild(r)
  <2>1. pc[r] \in Using /\ pc'[r] \in Using \cup {"answered"} /\ (pc[r] \in Holds \/ obj[r] \notin deleted)
    BY <1>4 DEF A!Rebuild, A!Goes, A!Refused, Holds
  <2>2. AcpMarks /\ erased => Deletes({"stop", "wait"})
    BY <2>1, AcpFollowed
  <2>3. \A q \in A!Request : kind[q] = "delete" /\ pc[q] \in {"stop", "wait"} => pc'[q] = pc[q]
    BY <2>1, AcpFrame
  <2>4. UNCHANGED <<erased, kind>> /\ failed \subseteq failed'
    BY <1>4, AcpFrame DEF A!Rebuild
  <2> QED BY <2>2, <2>3, <2>4
<1>5. CASE A!RebuildFails(r)
  <2>1. pc[r] \in Using /\ pc'[r] \in Using \cup {"answered"} /\ (pc[r] \in Holds \/ obj[r] \notin deleted)
    BY <1>5 DEF A!RebuildFails, A!Goes, A!Refused, Holds
  <2>2. AcpMarks /\ erased => Deletes({"stop", "wait"})
    BY <2>1, AcpFollowed
  <2>3. \A q \in A!Request : kind[q] = "delete" /\ pc[q] \in {"stop", "wait"} => pc'[q] = pc[q]
    BY <2>1, AcpFrame
  <2>4. UNCHANGED <<erased, kind>> /\ failed \subseteq failed'
    BY <1>5, AcpFrame DEF A!RebuildFails
  <2> QED BY <2>2, <2>3, <2>4
<1>6. CASE A!Stop(r)
  BY <1>6, AcpFrame DEF A!Stop, A!Goes
<1>7. CASE A!Stopped(r)
  BY <1>7, AcpFrame DEF A!Stopped, A!Goes
<1>8. CASE A!CloseController(r)
  BY <1>8, AcpFrame DEF A!CloseController, A!Goes, A!Ctrl
<1>9. CASE A!Destroy(r)
  BY <1>9, AcpFrame DEF A!Destroy, A!Goes, A!Ctrl
<1>10. CASE A!Remove(r)
  BY <1>10, AcpFrame DEF A!Remove, A!Goes
<1>11. CASE A!RemoveLater(r)
  BY <1>11, AcpFrame DEF A!RemoveLater, A!Goes
<1> HIDE DEF AcpInv, AcpErased, AcpMarks, Deletes, Using, Ending, AcpTyped, A!TypeOK, A!HandlersTyped,
            A!client, A!handler, A!object, A!turn, A!core, A!disk, A!notes
<1> QED
  BY <1>1, <1>2, <1>3, <1>4, <1>5, <1>6, <1>7, <1>8, <1>9, <1>10, <1>11
     DEF A!Handler, A!Prompt, A!Switches, A!Rebuilds, A!Closes, A!Loads

LEMMA AcpErasedStep ==
  ASSUME AcpInv, Patient, [A!Next]_A!vars
  PROVE  AcpErased'
<1>1. ASSUME NEW k \in Kinds, A!Receive(k) PROVE AcpErased'
  BY <1>1, AcpReceives DEF AcpInv, AcpErased, AcpMarks, AcpTyped, A!TypeOK, A!HandlersTyped,
     Deletes, Ending
<1>2. ASSUME NEW r \in A!Request, A!Handler(r) \/ A!Ask(r) \/ A!Reply(r) PROVE AcpErased'
  BY <1>2, AcpErasedBy
<1>3. CASE A!HangUp \/ A!JobEnds \/ A!ServeReturns \/ UNCHANGED A!vars
  BY <1>3, AcpIdles, AcpServes DEF AcpInv, AcpErased, AcpMarks, Deletes, Ending
<1> QED
  BY <1>1, <1>2, <1>3 DEF A!Next

LEMMA AcpQueuedBy ==
  ASSUME AcpInv, NEW r \in A!Request, A!Handler(r) \/ A!Ask(r) \/ A!Reply(r)
  PROVE  AcpQueued'
<1> USE DEF AcpInv, AcpQueued, AcpSwitched, Holds, AcpTyped, A!TypeOK, A!HandlersTyped, A!client,
            A!handler, A!object, A!turn, A!core, A!disk, A!notes
<1>1. CASE A!LookPrompt(r) \/ A!Ask(r) \/ A!Reply(r) \/ A!StopAsking(r) \/ A!CancelTurn(r)
           \/ A!LookSwitch(r) \/ A!Compute(r) \/ A!RefuseRebuild(r) \/ A!Stop(r) \/
           A!Stopped(r) \/ A!CloseController(r) \/ A!Destroy(r) \/ A!Remove(r) \/
           A!RemoveLater(r) \/ A!LookLoad(r) \/ A!OpenFails(r)
  BY <1>1, AcpFrame DEF A!OpenFails, A!LookPrompt, A!Starts, A!Ends, A!Finds, A!Goes, A!Ask, A!Reply,
     A!StopAsking, A!CancelTurn, A!LookSwitch, A!Compute, A!At, A!RefuseRebuild, A!Stop,
     A!Stopped, A!CloseController, A!Ctrl, A!Destroy, A!Remove, A!RemoveLater, A!LookLoad
<1>2. CASE A!Begin(r)
  BY <1>2, AcpFrame DEF A!Begin, A!Goes
<1>3. CASE A!TurnEnds(r)
  BY <1>3, AcpFrame DEF A!TurnEnds, A!Goes, A!Ctrl, A!Written, A!Cancelled
<1>4. CASE A!Persist(r)
  BY <1>4, AcpFrame DEF A!Persist, A!Goes, A!Written, A!Ctrl
<1>5. CASE A!Finish(r)
  BY <1>5, AcpFrame DEF A!Finish, A!Goes, A!Ctrl
<1>6. CASE A!TakePending(r)
  <2>1. obj[r] = opened /\ opened \in A!Built
    BY <1>6, AcpAt DEF A!TakePending, Using
  <2>2. live # 0 => live = opened /\ opened \notin deleted
    BY DEF AcpLatest, AcpBarred
  <2>3. live' # 0 => queued'[opened'] = A!None
    BY <1>6, <2>1, <2>2 DEF A!TakePending, A!ConfigsTyped
  <2>4. pc'[r] \in {"answered", "rebuild"} /\ UNCHANGED failed
    BY <1>6 DEF A!TakePending, A!Goes
  <2> QED BY <2>3, <2>4, AcpFrame
<1>7. CASE A!Restore(r)
  <2>1. ~AcpSwitched' /\ pc'[r] = "answered"
    BY <1>7 DEF A!Restore, A!Goes
  <2> QED BY <2>1, AcpFrame
<1>8. CASE A!QueueRebuild(r)
  <2>1. running[opened] # 0 /\ running[opened] \in A!Request
    BY <1>8, AcpAt, AcpRunner DEF A!QueueRebuild, Using
  <2>2. pc[running[opened]] \in Holds /\ running[opened] # r
    BY <1>8, <2>1 DEF AcpHeld, A!QueueRebuild
  <2>3. pc'[running[opened]] \in Holds
    BY <2>1, <2>2, AcpFrame
  <2>4. pc'[r] = "answered"
    BY <1>8 DEF A!QueueRebuild, A!Goes
  <2> QED BY <1>8, <2>1, <2>3, <2>4, AcpFrame DEF A!QueueRebuild
<1>9. CASE A!Rebuild(r)
  <2>1. queued'[opened'] = A!None
    BY <1>9, AcpAt DEF A!Rebuild, Using, A!ConfigsTyped
  <2>2. pc'[r] = "answered"
    BY <1>9 DEF A!Rebuild, A!Goes
  <2> QED BY <1>9, <2>1, <2>2, AcpFrame DEF A!Rebuild
<1>10. CASE A!RebuildFails(r)
  <2>1. ~AcpSwitched'
    BY <1>10 DEF A!RebuildFails
  <2> QED BY <2>1
<1>11. CASE A!Take(r)
  BY <1>11, AcpFrame DEF A!Take, A!Finds, A!Goes, A!Ends
<1>12. CASE A!Open(r)
  <2>1. live = 0 /\ UNCHANGED <<live, failed>> /\ pc'[r] \in {"answered", "register"}
    BY <1>12 DEF A!Open, A!Ends, A!Finds, A!Goes, AcpBarred
  <2> QED BY <2>1, AcpFrame
<1>13. CASE A!Register(r)
  <2>1. queued[opened] = A!None /\ UNCHANGED <<queued, opened, failed>> /\ pc'[r] = "answered"
    BY <1>13 DEF A!Register, A!Goes, AcpBarred
  <2> QED BY <2>1, AcpFrame
<1>14. CASE A!Apply(r)
  <2>1. obj[r] = opened /\ live \in {0, opened}
    BY <1>14, AcpAt DEF A!Apply, Using, AcpLatest
  <2>2. live # 0 => pc'[r] = "take"
    BY <1>14, <2>1 DEF A!Apply, A!Goes
  <2>3. pc'[r] \in {"take", "answered"} /\ UNCHANGED <<live, opened, queued, failed>>
    BY <1>14 DEF A!Apply, A!Goes
  <2> QED BY <2>2, <2>3, AcpFrame
<1> HIDE DEF AcpInv, AcpQueued, AcpSwitched, Holds, AcpTyped, A!TypeOK, A!HandlersTyped, A!client,
            A!handler, A!object, A!turn, A!core, A!disk, A!notes
<1> QED
  BY <1>1, <1>2, <1>3, <1>4, <1>5, <1>6, <1>7, <1>8, <1>9, <1>10, <1>11, <1>12, <1>13, <1>14
     DEF A!Handler, A!Prompt, A!Switches, A!Rebuilds, A!Closes, A!Loads

LEMMA AcpQueuedStep ==
  ASSUME AcpInv, Patient, [A!Next]_A!vars
  PROVE  AcpQueued'
<1>1. ASSUME NEW k \in Kinds, A!Receive(k) PROVE AcpQueued'
  BY <1>1, AcpReceives DEF AcpInv, AcpQueued, AcpSwitched, AcpTyped, A!TypeOK, A!HandlersTyped, Holds
<1>2. ASSUME NEW r \in A!Request, A!Handler(r) \/ A!Ask(r) \/ A!Reply(r) PROVE AcpQueued'
  BY <1>2, AcpQueuedBy
<1>3. CASE A!HangUp \/ A!JobEnds \/ A!ServeReturns \/ UNCHANGED A!vars
  BY <1>3, AcpIdles, AcpServes DEF AcpInv, AcpQueued, AcpSwitched, Holds
<1> QED
  BY <1>1, <1>2, <1>3 DEF A!Next

\* Once the session is not live and nobody closes it, its controllers are closed.
LEMMA AcpAllClosed ==
  ASSUME AcpInv, live = 0, \A q \in A!Request : pc[q] \notin Ending \cup {"register"}
  PROVE  \A c \in 1 .. built : c \in closed
BY DEF AcpInv, AcpClosed, Attended

LEMMA AcpServed ==
  ASSUME AcpInv, NEW r \in A!Request, A!Handler(r) \/ A!Ask(r) \/ A!Reply(r)
  PROVE  (served => eof /\ live = 0 /\ \A q \in A!Request : pc[q] \in {"none", "answered", "later"})'
BY AcpFrame, AcpStays DEF AcpInv, AcpClosed

LEMMA AcpAttendedBy ==
  ASSUME AcpInv, NEW r \in A!Request, A!Handler(r) \/ A!Ask(r) \/ A!Reply(r)
  PROVE  Attended'
<1> USE DEF AcpInv, AcpClosed, Attended, Ending, AcpTyped, A!TypeOK, A!HandlersTyped,
            A!client, A!handler, A!object, A!turn, A!core, A!disk, A!notes
<1>1. CASE A!LookPrompt(r) \/ A!Begin(r) \/ A!Ask(r) \/ A!Reply(r) \/ A!StopAsking(r) \/
           A!TurnEnds(r) \/ A!Persist(r) \/ A!Finish(r) \/ A!Apply(r) \/ A!Restore(r) \/
           A!CancelTurn(r) \/ A!LookSwitch(r) \/ A!Compute(r) \/ A!RefuseRebuild(r) \/
           A!QueueRebuild(r) \/ A!RebuildFails(r) \/ A!Remove(r) \/ A!RemoveLater(r) \/
           A!LookLoad(r) \/ A!TakePending(r) \/ A!OpenFails(r)
  BY <1>1, AcpFrame DEF A!TakePending, A!OpenFails, A!LookPrompt, A!Starts, A!Ends, A!Finds,
     A!Goes, A!Begin, A!Ask,
     A!Reply, A!StopAsking, A!TurnEnds, A!Ctrl, A!Written, A!Cancelled, A!Persist, A!Finish,
     A!Apply, A!Restore, A!CancelTurn, A!LookSwitch, A!Compute, A!At, A!RefuseRebuild,
     A!QueueRebuild, A!Accepts, A!RebuildFails, A!Remove, A!RemoveLater, A!LookLoad
<1>2. CASE A!Rebuild(r)
  <2>1. obj[r] = opened /\ opened \in A!Built /\ A!Ctrl(r) = ctrl[opened]
    BY <1>2, AcpAt DEF A!Rebuild, Using
  <2>2. built' = built + 1 /\ UNCHANGED <<live, opened>> /\ ctrl'[opened'] = built'
        /\ closed' = closed \cup {ctrl[opened]}
    BY <1>2, <2>1 DEF A!Rebuild, A!Releases, A!ObjectsTyped
  <2>3. live # 0 \/ Deletes({"stop", "wait"})
    BY <1>2, <2>1 DEF A!Rebuild, A!Refused, AcpTaken, Using
  <2>4. \A q \in A!Request : pc[q] \in {"stop", "wait"} => pc'[q] = pc[q]
    BY <1>2, AcpFrame DEF A!Rebuild
  <2>5. live' # 0 \/ \E q \in A!Request : pc'[q] \in {"stop", "wait"}
    BY <2>2, <2>3, <2>4 DEF Deletes
  <2>6. \A c \in 1 .. built' : c \in 1 .. built \/ c = built'
    BY <2>2, AcpLive
  <2> QED BY <2>2, <2>5, <2>6
<1>3. CASE A!Take(r)
  <2>1. UNCHANGED <<closed, ctrl, opened, built>> /\ (live # 0 => pc'[r] = "stop")
    BY <1>3 DEF A!Take, A!Finds, A!Goes
  <2>2. pc[r] = "start"
    BY <1>3 DEF A!Take
  <2> QED BY <2>1, <2>2, AcpFrame
<1>4. CASE A!Stop(r)
  BY <1>4, AcpFrame DEF A!Stop, A!Goes
<1>5. CASE A!Stopped(r)
  BY <1>5, AcpFrame DEF A!Stopped, A!Goes
<1>6. CASE A!CloseController(r)
  <2>1. A!Ctrl(r) = ctrl[opened]
    BY <1>6, AcpAt DEF A!CloseController
  <2>2. closed' = closed \cup {ctrl[opened]} /\ UNCHANGED built
    BY <1>6, <2>1 DEF A!CloseController
  <2>3. \A c \in 1 .. built : c \in closed'
    BY <2>2
  <2> QED BY <2>2, <2>3
<1>7. CASE A!Destroy(r)
  <2>1. A!Ctrl(r) = ctrl[opened]
    BY <1>7, AcpAt DEF A!Destroy
  <2>2. closed' = closed \cup {ctrl[opened]} /\ UNCHANGED built
    BY <1>7, <2>1 DEF A!Destroy
  <2>3. \A c \in 1 .. built : c \in closed'
    BY <2>2
  <2> QED BY <2>2, <2>3
<1>8. CASE A!Open(r)
  <2>1. \A q \in A!Request \ {r} : pc[q] \in {"none", "answered", "later"}
    BY <1>8, AcpSole DEF A!Open, AcpPlaced, AcpPlacedAt
  <2>2. live = 0
    BY <1>8 DEF A!Open, AcpBarred
  <2>3. \A c \in 1 .. built : c \in closed
    BY <1>8, <2>1, <2>2, AcpAllClosed DEF A!Open
  <2>4. \A c \in 1 .. built + 1 : c \in 1 .. built \/ c = built + 1
    BY AcpLive
  <2>5. built' = built + 1 /\ closed \subseteq closed'
    BY <1>8 DEF A!Open
  <2>6. \/ built' \in closed'
        \/ ctrl'[opened'] = built' /\ pc'[r] = "register"
    <3>1. opened + 1 \in A!Built
      BY <1>8, AcpRoom DEF A!Open, AcpSpent
    <3>2. CASE opened' = opened + 1 /\ ctrl' = [ctrl EXCEPT ![opened'] = built'] /\ pc'[r] = "register"
      BY <3>1, <3>2 DEF A!ObjectsTyped
    <3> QED BY <1>8, <3>2 DEF A!Open, A!Finds, A!Goes
  <2> QED BY <2>3, <2>4, <2>5, <2>6
<1>9. CASE A!Register(r)
  <2>1. live' # 0 /\ UNCHANGED <<closed, ctrl, opened, built>>
    BY <1>9, AcpAt, AcpLive DEF A!Register
  <2> QED BY <2>1
<1> HIDE DEF AcpInv, AcpClosed, Attended, Ending, AcpTyped, A!TypeOK, A!HandlersTyped,
            A!client, A!handler, A!object, A!turn, A!core, A!disk, A!notes
<1> QED
  BY <1>1, <1>2, <1>3, <1>4, <1>5, <1>6, <1>7, <1>8, <1>9
     DEF A!Handler, A!Prompt, A!Switches, A!Rebuilds, A!Closes, A!Loads

LEMMA AcpClosedStep ==
  ASSUME AcpInv, Patient, [A!Next]_A!vars
  PROVE  AcpClosed'
<1>1. ASSUME NEW k \in Kinds, A!Receive(k) PROVE AcpClosed'
  <2>1. Attended'
    BY <1>1, AcpReceives DEF AcpInv, AcpClosed, Attended, Ending, AcpTyped, A!TypeOK, A!HandlersTyped
  <2> QED BY <1>1, <2>1, AcpReceives DEF AcpInv, AcpClosed
<1>2. ASSUME NEW r \in A!Request, A!Handler(r) \/ A!Ask(r) \/ A!Reply(r) PROVE AcpClosed'
  BY <1>2, AcpAttendedBy, AcpServed DEF AcpClosed
<1>3. CASE A!ServeReturns
  <2>1. \A c \in 1 .. built : c \in closed'
    BY <1>3, AcpServes DEF AcpInv, AcpClosed, Attended, AcpLatest, Ending
  <2>2. built' = built /\ UNCHANGED pc /\ live' = 0 /\ eof'
    BY <1>3, AcpServes, AcpIdles
  <2>3. built' = built
    BY <2>2
  <2>5. Attended'
    BY <2>1, <2>3 DEF Attended
  <2>4. \A r \in A!Request : pc'[r] \in {"none", "answered", "later"}
    BY <1>3, <2>2, AcpServes
  <2> QED BY <2>2, <2>4, <2>5 DEF AcpClosed
<1>4. CASE UNCHANGED A!vars
  <2>1. UNCHANGED <<built, closed, ctrl, opened, live, pc, served, eof>>
    BY <1>4, Zenon DEF A!vars, A!client, A!handler, A!object, A!core
  <2> QED BY <2>1 DEF AcpInv, AcpClosed, Attended
<1>5. CASE A!HangUp \/ A!JobEnds
  <2>1. UNCHANGED <<built, closed, ctrl, opened, live, pc, served>>
    BY <1>5, Zenon DEF A!HangUp, A!JobEnds, A!client, A!handler, A!object, A!core
  <2>2. eof => eof'
    BY <1>5, Zenon DEF A!HangUp, A!JobEnds, A!client
  <2> QED BY <2>1, <2>2 DEF AcpInv, AcpClosed, Attended
<1> QED
  BY <1>1, <1>2, <1>3, <1>4, <1>5 DEF A!Next

LEMMA AcpInvStep ==
  ASSUME Patient, AcpInv, [A!Next]_A!vars
  PROVE  AcpInv'
<1>1. AcpTyped' /\ AcpAlone' /\ AcpLatest' /\ AcpHeld' /\ AcpBarred'
  BY AcpTypedStep, AcpAloneStep, AcpLatestStep, AcpHeldStep, AcpBarredStep DEF AcpInv
<1>2. AcpKept' /\ AcpDoomed' /\ AcpTaken' /\ AcpErased'
  BY AcpKeptStep, AcpDoomedStep, AcpTakenStep, AcpErasedStep
<1>3. AcpQueued' /\ AcpClosed'
  BY AcpQueuedStep, AcpClosedStep
<1> QED
  BY <1>1, <1>2, <1>3 DEF AcpInv

LEMMA AcpAlways ==
  ASSUME Patient
  PROVE  A!Spec => []AcpInv
BY Patient, AcpInvInit, AcpInvStep, PTL DEF A!Spec

\* When nothing is under way, no handler is anywhere but at its end.
LEMMA AcpQuiet ==
  ASSUME AcpInv, A!Quiet, NEW r \in A!Request
  PROVE  pc[r] \in {"none", "answered", "later"}
<1>1. r <= requests => r \in 1 .. requests
  BY AcpBounds DEF A!Request, AcpInv, AcpTyped, A!TypeOK, A!HandlersTyped
<1> QED
  BY <1>1 DEF AcpInv, AcpTyped, AcpPlaced, AcpPlacedAt, A!Quiet, A!Answered

\* The prompts that were answered stay in the conversation and in the transcript, over every
\* switch, close and load, until the session is deleted.
THEOREM AnsweredIsKept ==
  ASSUME Patient
  PROVE  A!Spec => []NothingForgotten
<1>1. AcpInv => NothingForgotten
  BY DEF AcpInv, AcpKept, AcpLatest, NothingForgotten, A!NothingForgotten
<1> QED
  BY <1>1, AcpAlways, PTL

\* A session that was deleted has no transcript when nothing is under way, and is not live,
\* as long as no delete failed to write its marker.
THEOREM DeletedIsGone ==
  ASSUME Patient
  PROVE  A!Spec => []DeletedStaysDeleted
<1>1. AcpInv => DeletedStaysDeleted
  <2> SUFFICES ASSUME AcpInv PROVE A!DeletedStaysDeleted
    BY DEF DeletedStaysDeleted
  <2>1. A!Quiet => ~Deletes(Ending \cup {"remove"})
    BY AcpQuiet DEF Deletes, Ending
  <2> QED BY <2>1 DEF AcpInv, AcpErased, AcpDoomed, AcpMarks, A!DeletedStaysDeleted
<1> QED
  BY <1>1, AcpAlways, PTL

\* A switch that came during a turn is not left in the queue, unless building its controller
\* or saving the conversation for it failed.
THEOREM QueueIsEmptied ==
  ASSUME Patient
  PROVE  A!Spec => []NoSwitchLeft
<1>1. AcpInv => NoSwitchLeft
  <2> SUFFICES ASSUME AcpInv, A!Quiet, live # 0, AcpSwitched PROVE queued[live] = A!None
    BY DEF NoSwitchLeft, A!NoSwitchLeft, AcpSwitched
  <2>1. live = opened
    BY DEF AcpInv, AcpLatest
  <2> QED BY <2>1, AcpQuiet DEF AcpInv, AcpQueued, Holds
<1> QED
  BY <1>1, AcpAlways, PTL

\* Serve leaves no controller open.
THEOREM ControllersAreClosed ==
  ASSUME Patient
  PROVE  A!Spec => []EverythingClosed
<1>1. AcpInv => EverythingClosed
  <2> SUFFICES ASSUME AcpInv, served PROVE closed = 1 .. built
    BY DEF EverythingClosed, A!EverythingClosed
  <2>1. \A c \in 1 .. built : c \in closed
    BY AcpAllClosed DEF AcpInv, AcpClosed, Ending
  <2>2. closed \subseteq 1 .. built
    BY DEF AcpInv, AcpTyped, A!TypeOK, A!ObjectsTyped
  <2> QED BY <2>1, <2>2
<1> QED
  BY <1>1, AcpAlways, PTL

\* Two prompts never run on one transcript.
THEOREM OneTurnAtATime ==
  ASSUME Patient
  PROVE  A!Spec => []A!OneTurn
<1>1. AcpInv => A!OneTurn
  <2> SUFFICES ASSUME AcpInv PROVE A!OneTurn
    OBVIOUS
  <2>1. {r \in A!Request : pc[r] \in {"turn", "persist"}} \subseteq {running[opened]}
    BY DEF AcpInv, AcpHeld, Holds
  <2>2. IsFiniteSet({running[opened]}) /\ Cardinality({running[opened]}) = 1
    BY FS_Singleton
  <2>3. Cardinality({r \in A!Request : pc[r] \in {"turn", "persist"}}) <= 1
    BY <2>1, <2>2, FS_Subset
  <2>4. A!Cardinality({r \in A!Request : pc[r] \in {"turn", "persist"}})
          = Cardinality({r \in A!Request : pc[r] \in {"turn", "persist"}})
    BY Zenon DEF A!Cardinality, Cardinality
  <2> QED BY <2>3, <2>4 DEF A!OneTurn
<1> QED
  BY <1>1, AcpAlways, PTL
==============================================================================
