----------------------------- MODULE BotGateway -----------------------------
(***************************************************************************)
(* One chat session of the bot gateway (internal/bot/gateway.go,           *)
(* internal/bot/session.go): the dispatch goroutine of its adapter, the    *)
(* goroutines that run turns, the session lock with its queue of pending   *)
(* messages, the prompts of the running turn, and the commands that go     *)
(* past the queue.                                                         *)
(*                                                                         *)
(* A text message is its number; a turn is named by the first message it   *)
(* runs.  The debounce window only decides whether a queued text is joined *)
(* to the one before it now or at the release, so a queue is the sequence  *)
(* of its messages.  /approve, /deny and /answer all settle a prompt.      *)
(***************************************************************************)
EXTENDS Naturals, Sequences, SequencesExt

CONSTANTS
    MaxTexts,       \* bound: text messages the user sends
    MaxPrompts,     \* bound: prompts a controller raises
    MaxCommands,    \* bound: commands and shortcuts the user sends
    Commands        \* of stop, new, yes (a shortcut reply), which are sent

Goroutine == 1 .. MaxTexts

VARIABLES
    sent, commanded, asked,     \* how many texts, commands, prompts so far
    active, pending,            \* SessionManager, for this session
    desk, subject,              \* what the dispatch goroutine is doing, with which prompt
    at, msgs,                   \* per goroutine: where in runTurn, with which messages
    made,                       \* the session is in gw.controllers
    target,                     \* the turn whose sink gets the controller's events, or 0
    canceller,                  \* the turn that sessionState.cancel cancels, or 0
    known, last,                \* pendingApprovals, lastApprovalID
    stopped,                    \* turns whose context is done
    runner,                     \* the turn inside Controller.RunTurn, or 0
    prompt,                     \* the prompt the controller waits for, or 0
    session, begunIn,           \* conversation of the controller; of the running turn
    \* history
    ran,                        \* messages given to RunTurn, in order
    refused,                    \* messages RunTurn turned away
    told,                       \* messages whose session could not be built
    astray,                     \* messages whose answer did not go to their turn's sink
    forced,                     \* ForceRelease was called with a turn under way
    void                        \* messages accepted before the last /stop

lock  == <<active, pending>>
input == <<sent, commanded>>
state == <<made, target, canceller, known, last>>
ctrl  == <<runner, prompt, session, begunIn, asked>>
notes == <<ran, refused, told, astray, forced, void>>
vars  == <<input, lock, desk, subject, at, msgs, state, stopped, ctrl, notes>>

Init ==
  /\ sent = 0 /\ commanded = 0 /\ asked = 0
  /\ active = FALSE /\ pending = <<>>
  /\ desk = "idle" /\ subject = 0
  /\ at = [i \in Goroutine |-> "none"]
  /\ msgs = [i \in Goroutine |-> <<>>]
  /\ made = FALSE /\ target = 0 /\ canceller = 0 /\ known = {} /\ last = 0
  /\ stopped = {}
  /\ runner = 0 /\ prompt = 0 /\ session = 0 /\ begunIn = 0
  /\ ran = <<>> /\ refused = {} /\ told = {} /\ astray = {} /\ forced = FALSE /\ void = {}

Turn(i) == Head(msgs[i])
Live(i) == at[i] \notin {"none", "gone"}
Listening == desk = "idle"

-----------------------------------------------------------------------------
(* The dispatch goroutine.                                                 *)

\* TryAcquire, and the goroutine of the turn when the session was free.
Accept ==
  /\ sent < MaxTexts
  /\ sent' = sent + 1
  /\ active' = TRUE
  /\ IF active
       THEN pending' = Append(pending, sent') /\ UNCHANGED <<at, msgs>>
       ELSE \E i \in Goroutine :
              /\ at[i] = "none" /\ \A j \in 1 .. i - 1 : at[j] # "none"
              /\ at' = [at EXCEPT ![i] = "look"]
              /\ msgs' = [msgs EXCEPT ![i] = <<sent'>>]
              /\ UNCHANGED pending

ReceiveText ==
  /\ Listening
  /\ Accept
  /\ UNCHANGED <<commanded, desk, subject, state, stopped, ctrl, notes>>

Sends(command) ==
  /\ Listening
  /\ command \in Commands /\ commanded < MaxCommands
  /\ commanded' = commanded + 1

\* A reply such as "1": it settles the latest prompt that is in
\* pendingApprovals, else any of them; with none and a turn under way the
\* user is told so; else it is a text like any other.
ReceiveShortcut ==
  /\ Sends("yes")
  /\ \/ /\ known # {}
        /\ desk' = "settling"
        /\ subject' \in IF last \in known THEN {last} ELSE known
        /\ UNCHANGED <<sent, lock, at, msgs>>
     \/ /\ known = {} /\ active
        /\ UNCHANGED <<desk, subject, sent, lock, at, msgs>>
     \/ /\ known = {} /\ ~active
        /\ Accept
        /\ UNCHANGED <<desk, subject>>
  /\ UNCHANGED <<state, stopped, ctrl, notes>>

\* Controller.Approve, a no-op for a prompt that is over.
Settle ==
  /\ desk = "settling"
  /\ prompt' = IF prompt = subject THEN 0 ELSE prompt
  /\ desk' = "forgetting"
  /\ UNCHANGED <<input, lock, subject, at, msgs, state, stopped, runner, session, begunIn, asked,
                 notes>>

\* forgetPendingApproval
Forget ==
  /\ desk = "forgetting"
  /\ known' = known \ {subject}
  /\ IF last # subject THEN UNCHANGED last
     ELSE last' \in IF known' = {} THEN {0} ELSE known'
  /\ desk' = "idle" /\ subject' = 0
  /\ UNCHANGED <<input, lock, at, msgs, made, target, canceller, stopped, ctrl, notes>>

\* /stop and /new cancel the turn whose cancel function the session holds.
CancelHeld == stopped' = IF made /\ canceller # 0 THEN stopped \cup {canceller} ELSE stopped

ReceiveStop ==
  /\ Sends("stop")
  /\ CancelHeld
  /\ desk' = "releasing"
  /\ UNCHANGED <<sent, lock, subject, at, msgs, state, ctrl, notes>>

ReceiveNew ==
  /\ Sends("new")
  /\ CancelHeld
  /\ desk' = IF made THEN "renewing" ELSE "releasing"
  /\ UNCHANGED <<sent, lock, subject, at, msgs, state, ctrl, notes>>

\* Controller.NewSession, which may fail to save and then leaves the old
\* conversation in place.
Renew ==
  /\ desk = "renewing"
  /\ desk' = "releasing"
  /\ session' \in {session, session + 1}
  /\ UNCHANGED <<input, lock, subject, at, msgs, state, stopped, runner, prompt, begunIn, asked,
                 notes>>

\* ForceRelease, and the reply that the task was stopped.
ForceRelease ==
  /\ desk = "releasing"
  /\ desk' = "idle"
  /\ active' = FALSE /\ pending' = <<>>
  /\ forced' = (forced \/ \E i \in Goroutine : Live(i))
  /\ void' = 1 .. sent
  /\ UNCHANGED <<input, subject, at, msgs, state, stopped, ctrl, ran, refused, told, astray>>

-----------------------------------------------------------------------------
(* runTurn                                                                 *)

Go(i, place) == at' = [at EXCEPT ![i] = place]

\* getOrCreateSession
Look(i) ==
  /\ at[i] = "look"
  /\ Go(i, IF made THEN "bind" ELSE "build")
  /\ UNCHANGED <<input, lock, desk, subject, msgs, state, stopped, ctrl, notes>>

\* boot.Build, and the second look under the lock: the first writer wins.
Build(i) ==
  /\ at[i] = "build"
  /\ \/ Go(i, "bind") /\ made' = TRUE /\ UNCHANGED told
     \/ Go(i, "release") /\ told' = told \cup ToSet(msgs[i]) /\ UNCHANGED made
  /\ UNCHANGED <<input, lock, desk, subject, msgs, target, canceller, known, last, stopped, ctrl,
                 ran, refused, astray, forced, void>>

\* state.sink.setTarget, then state.cancel.
Bind(i) ==
  /\ at[i] = "bind"
  /\ target' = Turn(i)
  /\ Go(i, "arm")
  /\ UNCHANGED <<input, lock, desk, subject, msgs, made, canceller, known, last, stopped, ctrl,
                 notes>>

Arm(i) ==
  /\ at[i] = "arm"
  /\ canceller' = Turn(i)
  /\ Go(i, "start")
  /\ UNCHANGED <<input, lock, desk, subject, msgs, made, target, known, last, stopped, ctrl,
                 notes>>

\* Controller.RunTurn: one turn at a time.
Start(i) ==
  /\ at[i] = "start"
  /\ ran' = ran \o msgs[i]
  /\ IF runner = 0
       THEN /\ runner' = Turn(i)
            /\ begunIn' = session
            /\ Go(i, "run")
            /\ UNCHANGED refused
       ELSE /\ refused' = refused \cup ToSet(msgs[i])
            /\ Go(i, "unbind")
            /\ UNCHANGED <<runner, begunIn>>
  /\ UNCHANGED <<input, lock, desk, subject, msgs, state, stopped, prompt, session, asked,
                 told, astray, forced, void>>

\* The turn needs the user: the request reaches the chat through the sink,
\* which records it first.  A turn that was cancelled asks all the same and
\* then does not wait.
Ask(i) ==
  /\ at[i] = "run"
  /\ asked < MaxPrompts
  /\ asked' = asked + 1
  /\ prompt' = asked'
  /\ Go(i, "ask")
  /\ IF target = 0 THEN UNCHANGED <<known, last>>
     ELSE known' = known \cup {asked'} /\ last' = asked'
  /\ UNCHANGED <<input, lock, desk, subject, msgs, made, target, canceller, stopped, runner,
                 session, begunIn, notes>>

\* It was settled, timed out, or the turn was cancelled.
Asked(i) ==
  /\ at[i] = "ask"
  /\ prompt' = 0
  /\ Go(i, "run")
  /\ UNCHANGED <<input, lock, desk, subject, msgs, state, stopped, runner, session, begunIn, asked,
                 notes>>

\* The answer goes to the sink's target; RunTurn returns.
Finish(i) ==
  /\ at[i] = "run"
  /\ runner' = 0
  /\ astray' = IF target = Turn(i) THEN astray ELSE astray \cup ToSet(msgs[i])
  /\ Go(i, "unbind")
  /\ UNCHANGED <<input, lock, desk, subject, msgs, state, stopped, prompt, session, begunIn, asked,
                 ran, refused, told, forced, void>>

\* The deferred cancel and setTarget(nil).
Unbind(i) ==
  /\ at[i] = "unbind"
  /\ stopped' = stopped \cup {Turn(i)}
  /\ target' = 0
  /\ Go(i, "release")
  /\ UNCHANGED <<input, lock, desk, subject, msgs, made, canceller, known, last, ctrl, notes>>

\* (mutant) Only the first of the queued messages is taken.
ReleaseOne(i) ==
  /\ at[i] = "release"
  /\ IF pending = <<>>
       THEN active' = FALSE /\ Go(i, "gone") /\ UNCHANGED msgs
       ELSE /\ msgs' = [msgs EXCEPT ![i] = <<Head(pending)>>]
            /\ Go(i, "look")
            /\ UNCHANGED active
  /\ pending' = <<>>
  /\ UNCHANGED <<input, desk, subject, state, stopped, ctrl, notes>>

\* (mutant) The session stays taken.
ReleaseFrees(i) ==
  /\ at[i] = "release"
  /\ IF pending = <<>>
       THEN Go(i, "gone") /\ UNCHANGED msgs
       ELSE /\ msgs' = [msgs EXCEPT ![i] = pending]
            /\ Go(i, "look")
  /\ pending' = <<>>
  /\ UNCHANGED <<input, active, desk, subject, state, stopped, ctrl, notes>>

\* The deferred Release: what waited is the next turn of this goroutine.
Release(i) ==
  /\ at[i] = "release"
  /\ IF pending = <<>>
       THEN active' = FALSE /\ Go(i, "gone") /\ UNCHANGED msgs
       ELSE /\ msgs' = [msgs EXCEPT ![i] = pending]
            /\ Go(i, "look")
            /\ UNCHANGED active
  /\ pending' = <<>>
  /\ UNCHANGED <<input, desk, subject, state, stopped, ctrl, notes>>

-----------------------------------------------------------------------------
Desk == Settle \/ Forget \/ Renew \/ ForceRelease
RunTurn(i) == \/ Look(i) \/ Build(i) \/ Bind(i) \/ Arm(i) \/ Start(i) \/ Ask(i) \/ Asked(i)
              \/ Finish(i) \/ Unbind(i) \/ Release(i)

Next ==
  \/ ReceiveText \/ ReceiveShortcut \/ ReceiveStop \/ ReceiveNew \/ Desk
  \/ \E i \in Goroutine : RunTurn(i)

\* The goroutines are scheduled; a turn ends, and a prompt nobody answers
\* times out.
Fairness == WF_vars(Desk) /\ \A i \in Goroutine : WF_vars(RunTurn(i))

Spec == Init /\ [][Next]_vars
FairSpec == Spec /\ Fairness

-----------------------------------------------------------------------------
TypeOK ==
  /\ sent \in 0 .. MaxTexts /\ commanded \in 0 .. MaxCommands /\ asked \in 0 .. MaxPrompts
  /\ active \in BOOLEAN /\ made \in BOOLEAN /\ forced \in BOOLEAN
  /\ pending \in Seq(1 .. MaxTexts)
  /\ desk \in {"idle", "settling", "forgetting", "renewing", "releasing"}
  /\ at \in [Goroutine -> {"none", "look", "build", "bind", "arm", "start", "run", "ask",
                           "unbind", "release", "gone"}]
  /\ msgs \in [Goroutine -> Seq(1 .. MaxTexts)]
  /\ target \in 0 .. MaxTexts /\ canceller \in 0 .. MaxTexts /\ runner \in 0 .. MaxTexts
  /\ known \subseteq 1 .. MaxPrompts
  /\ last \in 0 .. MaxPrompts /\ prompt \in 0 .. MaxPrompts /\ subject \in 0 .. MaxPrompts
  /\ stopped \subseteq 1 .. MaxTexts /\ session \in Nat /\ begunIn \in Nat
  /\ ran \in Seq(1 .. MaxTexts)
  /\ refused \subseteq 1 .. MaxTexts /\ told \subseteq 1 .. MaxTexts
  /\ astray \subseteq 1 .. MaxTexts
  /\ \A i \in Goroutine : Live(i) => msgs[i] # <<>>

\* Messages goroutine i has taken and not yet given to RunTurn.
Carried(i) == IF at[i] \in {"look", "build", "bind", "arm", "start"} THEN msgs[i] ELSE <<>>
Underway == UNION {ToSet(Carried(i)) : i \in Goroutine}

InOrder(s) == \A a, b \in DOMAIN s : a < b => s[a] < s[b]
Before(s, t) == \A m \in ToSet(s), n \in ToSet(t) : m < n

\* While no command forces the session away from a turn, every text the user sends is run
\* once and in the order of arrival, by a controller that is free for it, and
\* its answer goes to the chat message it belongs to.  Only a session that
\* could not be built drops its texts, and the user is told.
EachInTurn ==
  ~forced =>
    /\ InOrder(ran) /\ InOrder(pending) /\ Before(ran, pending)
    /\ \A i \in Goroutine :
         InOrder(Carried(i)) /\ Before(ran, Carried(i)) /\ Before(Carried(i), pending)
    /\ \A i, j \in Goroutine : i = j \/ Carried(i) = <<>> \/ Carried(j) = <<>>
    /\ ToSet(ran) \cup Underway \cup ToSet(pending) = (1 .. sent) \ told
    /\ refused = {} /\ astray = {}

\* A session that is taken comes free again: it cannot be wedged by a prompt,
\* by a turn that fails, or by a command that arrives at any moment.
SessionComesFree == active ~> ~active

\* What the session manager says of itself: one task at a time.
OneTaskAtATime ==
  \A i, j \in Goroutine : Live(i) /\ Live(j) => i = j

\* What the user is told of /stop: the current task has been stopped.
StopStops == [][\A i \in Goroutine : at[i] = "start" /\ at'[i] = "run" =>
                  ToSet(msgs[i]) \cap void = {} \/ Turn(i) \in stopped]_vars

\* What the user is told of /new: a new conversation has begun, and no turn of
\* the old one goes on in it.
NewIsFresh == runner # 0 /\ desk = "idle" => begunIn = session

\* What a test says of the shortcut: it stands for an approval only while
\* there is one to give.
ShortcutHasPrompt == [][desk = "idle" /\ desk' = "settling" => subject' = prompt]_vars
=============================================================================
