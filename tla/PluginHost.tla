----------------------------- MODULE PluginHost -----------------------------
(***************************************************************************)
(* One MCP server on a plugin host that several tabs share:                *)
(* internal/plugin/plugin.go (Host), internal/plugin/lazy.go (placeholder  *)
(* tools), the boot of a tab (internal/boot/boot.go), the connector toggle *)
(* and reconnect (internal/control/mcp.go), and the reference count of the *)
(* host (desktop/shared_host.go).                                          *)
(*                                                                         *)
(* Host.Add runs on behalf of an actor: the boot of a tab, whose add is a  *)
(* background goroutine or an eager call, or a connect the user asked for  *)
(* in a tab.  A child process is named by the actor that started it.  The  *)
(* host's maps are keyed by server name, so one server stands for any.     *)
(***************************************************************************)
EXTENDS Naturals, FiniteSets

CONSTANTS Tab,
          None,
          Shared,      \* TRUE: the desktop's shared host; FALSE: one session owns it
          Clicks,      \* bound: the tabs in which the user asks for a connect
          MaxConnect   \* bound: how often, per tab

Actor == Tab \X {"boot", "user"}

ASSUME HostAssumption == None \notin Actor /\ Shared \in BOOLEAN /\ MaxConnect \in Nat
TabOf(a) == a[1]
Booting(t) == <<t, "boot">>
User(t) == <<t, "user">>

VARIABLES
    hostUp,      \* open, closing (flag set, contexts cancelled, waiting), closed
    listed,      \* the child in Host.clients, or None
    proc,        \* children that are running
    attempt,     \* owner of the entry in Host.spawning, or None
    pc,          \* where an actor is in Host.Add
    res,         \* what Add is going to return to it
    tabPh,       \* new, acquired, building, ready, gone
    tier,        \* background or eager, per tab
    cached,      \* the tab found a cached schema for the server
    aborted,     \* the build context of the tab was cancelled
    st,          \* spawnState of the tab's lazySpawn
    reg,         \* what the tab's registry holds of the server: stub, real
    suspended,   \* the prefix is suspended in the tab's registry
    off,         \* the user turned the server off, and no connect was under way
    connects     \* connects the user asked for so far

spawnVars == <<hostUp, listed, proc, attempt>>
tabVars  == <<tabPh, tier, cached, aborted>>
lazyVars == <<st, reg, suspended, off>>
hostVars == <<spawnVars, pc, res, tabVars, lazyVars, connects>>

HostInit ==
  /\ hostUp = "open"
  /\ listed = None
  /\ proc = {}
  /\ attempt = None
  /\ pc = [a \in Actor |-> "idle"]
  /\ res = [a \in Actor |-> None]
  /\ tabPh = [t \in Tab |-> "new"]
  /\ tier = [t \in Tab |-> "background"]
  /\ cached = [t \in Tab |-> FALSE]
  /\ aborted = [t \in Tab |-> FALSE]
  /\ st = [t \in Tab |-> "idle"]
  /\ reg = [t \in Tab |-> {}]
  /\ suspended = [t \in Tab |-> FALSE]
  /\ off = [t \in Tab |-> FALSE]
  /\ connects = [t \in Tab |-> 0]


\* The context a child was started under is done: the one of the tab's
\* lazySpawn is cancelled with the build and by Host.Close, the one of an
\* eager add is cancelled as soon as the add has returned, the one of a
\* connect is the session's.
LifeDone(a) ==
  \/ aborted[TabOf(a)]
  \/ /\ a[2] = "boot"
     /\ IF tier[TabOf(a)] = "eager" THEN pc[a] = "idle" ELSE hostUp # "open"

\* (mutant) A suspended prefix takes tools all the same.
RegisterAnyway(t, things, gone) ==
  reg' = [reg EXCEPT ![t] = (@ \ gone) \cup things]

\* Registry.Add of things into tab t's registry, after dropping those in gone.
Register(t, things, gone) ==
  reg' = [reg EXCEPT ![t] = (@ \ gone) \cup IF suspended'[t] THEN {} ELSE things]

-----------------------------------------------------------------------------
(* Booting a tab.                                                          *)

\* buildTabController takes a reference on the host; a host that is closing
\* has left the map, and the next tab gets a new one.  A single session makes
\* its host once.
Acquire(t) ==
  /\ tabPh[t] = "new"
  /\ hostUp = "open"
  /\ Shared \/ \A u \in Tab : tabPh[u] = "new"
  /\ tabPh' = [tabPh EXCEPT ![t] = "acquired"]
  /\ UNCHANGED <<spawnVars, pc, res, tier, cached, aborted, lazyVars, connects>>

\* The plugin section of boot.Build: reuse a connected server, else start
\* the eager add or kick the tab's lazySpawn.  The tab's reference keeps the
\* host open.
Boot(t) ==
  /\ tabPh[t] = "acquired"
  /\ UNCHANGED suspended
  /\ \/ /\ listed # None
        /\ tabPh' = [tabPh EXCEPT ![t] = "ready"]
        /\ Register(t, {"real"}, {})
        /\ UNCHANGED <<pc, st, tier, cached>>
     \/ /\ listed = None
        /\ tabPh' = [tabPh EXCEPT ![t] = "building"]
        /\ pc' = [pc EXCEPT ![Booting(t)] = "check"]
        /\ \/ /\ tier' = [tier EXCEPT ![t] = "eager"]
              /\ UNCHANGED <<st, cached>>
           \/ /\ st' = [st EXCEPT ![t] = "inFlight"]
              /\ \E hit \in BOOLEAN : cached' = [cached EXCEPT ![t] = hit]
              /\ UNCHANGED tier
        /\ UNCHANGED reg
  /\ UNCHANGED <<spawnVars, res, aborted, off, connects>>

\* LazyToolset has returned; boot adds the placeholders to the registry.  A
\* placeholder for a cached schema has the name of the real tool and takes
\* its place.
Place(t) ==
  /\ tabPh[t] = "building"
  /\ tier[t] = "background"
  /\ UNCHANGED suspended
  /\ Register(t, {"stub"}, IF cached[t] THEN {"real"} ELSE {})
  /\ tabPh' = [tabPh EXCEPT ![t] = "ready"]
  /\ UNCHANGED <<spawnVars, pc, res, tier, cached, aborted, st, off, connects>>

\* releaseSharedHost, or the cleanup of the session that owns the host: the
\* last tab to go closes it.
Release(t) ==
  hostUp' = IF hostUp = "open" /\ \A u \in Tab \ {t} : tabPh[u] \in {"new", "gone"}
            THEN "closing" ELSE hostUp

LetGo(t) ==
  /\ tabPh' = [tabPh EXCEPT ![t] = "gone"]
  /\ Release(t)
  /\ UNCHANGED <<listed, proc, attempt, pc, res, tier, cached, aborted, lazyVars, connects>>

\* The tab is removed while it is being built: its context is cancelled, and
\* the build keeps the reference until boot.Build has returned.
AbortBuild(t) ==
  /\ Shared
  /\ tabPh[t] \in {"acquired", "building"}
  /\ ~aborted[t]
  /\ aborted' = [aborted EXCEPT ![t] = TRUE]
  /\ UNCHANGED <<spawnVars, pc, res, tabPh, tier, cached, lazyVars, connects>>

\* boot.Build returned an error before it came to the plugins.
FailBuild(t) ==
  /\ Shared
  /\ tabPh[t] = "acquired"
  /\ LetGo(t)

\* The tab is closed, or was removed while it was being built.
CloseTab(t) ==
  /\ tabPh[t] = "ready"
  /\ LetGo(t)

\* The tab has its controller, and the user can work with it.
Usable(t) == tabPh[t] = "ready" /\ ~aborted[t]

-----------------------------------------------------------------------------
(* Host.Add                                                                *)

\* The result r is on its way to actor a.
Answer(a, r) ==
  /\ pc' = [pc EXCEPT ![a] = "answered"]
  /\ res' = [res EXCEPT ![a] = r]

Check(a) ==
  /\ pc[a] = "check"
  /\ IF listed # None THEN Answer(a, "exists")
     ELSE pc' = [pc EXCEPT ![a] = "claim"] /\ UNCHANGED res
  /\ UNCHANGED <<spawnVars, tabVars, lazyVars, connects>>

\* (mutant) Whoever asks owns an attempt.
ClaimAlways(a) ==
  /\ pc[a] = "claim"
  /\ attempt' = a
  /\ pc' = [pc EXCEPT ![a] = "own"]
  /\ UNCHANGED <<hostUp, listed, proc, res, tabVars, lazyVars, connects>>

\* beginSpawn: own the attempt or wait for the one under way.
Claim(a) ==
  /\ pc[a] = "claim"
  /\ IF attempt = None
       THEN attempt' = a /\ pc' = [pc EXCEPT ![a] = "own"]
       ELSE pc' = [pc EXCEPT ![a] = "wait"] /\ UNCHANGED attempt
  /\ UNCHANGED <<hostUp, listed, proc, res, tabVars, lazyVars, connects>>

\* endSpawn: the owner and everyone waiting for the attempt get its result.
EndSpawn(a, r) ==
  LET all == {a} \cup {b \in Actor : pc[b] = "wait"}
  IN  /\ attempt' = None
      /\ pc' = [b \in Actor |-> IF b \in all THEN "answered" ELSE pc[b]]
      /\ res' = [b \in Actor |-> IF b \in all THEN r ELSE res[b]]

\* The owner looks again and starts the child.
Start(a) ==
  /\ pc[a] = "own"
  /\ \/ /\ listed # None
        /\ EndSpawn(a, "exists")
        /\ UNCHANGED proc
     \/ /\ listed = None
        /\ hostUp # "open"
        /\ EndSpawn(a, "closed")
        /\ UNCHANGED proc
     \/ /\ listed = None
        /\ hostUp = "open"
        /\ proc' = proc \cup {a}
        /\ pc' = [pc EXCEPT ![a] = "handshake"]
        /\ UNCHANGED <<attempt, res>>
  /\ UNCHANGED <<hostUp, listed, tabVars, lazyVars, connects>>

\* (mutant) A handshake that succeeds is listed on a host that closed meanwhile.
ConnectLate(a) ==
  /\ pc[a] = "handshake"
  /\ a \in proc
  /\ IF listed = None
       THEN listed' = a /\ EndSpawn(a, "ok") /\ UNCHANGED proc
       ELSE /\ proc' = proc \ {a}
            /\ EndSpawn(a, "exists")
            /\ UNCHANGED listed
  /\ UNCHANGED <<hostUp, tabVars, lazyVars, connects>>

\* initialize and tools/list succeeded: the child is listed unless the host
\* closed meanwhile.
Connect(a) ==
  /\ pc[a] = "handshake"
  /\ a \in proc
  /\ IF hostUp = "open" /\ listed = None
       THEN listed' = a /\ EndSpawn(a, "ok") /\ UNCHANGED proc
       ELSE /\ proc' = proc \ {a}
            /\ EndSpawn(a, IF hostUp = "open" THEN "exists" ELSE "closed")
            /\ UNCHANGED listed
  /\ UNCHANGED <<hostUp, tabVars, lazyVars, connects>>

\* The handshake failed by the server, by the deadline of an eager add, or
\* because the context of the attempt is done.
Fail(a) ==
  /\ pc[a] = "handshake"
  /\ \E r \in {"failed"}
        \cup IF LifeDone(a) THEN {"cancelled"} ELSE {}
        \cup IF tier[TabOf(a)] = "eager" /\ a[2] = "boot" THEN {"timeout"} ELSE {} :
       EndSpawn(a, r)
  /\ proc' = proc \ {a}
  /\ UNCHANGED <<hostUp, listed, tabVars, lazyVars, connects>>

\* A waiter whose own context is done, or whose eager deadline has passed.
StopWaiting(a) ==
  /\ pc[a] = "wait"
  /\ \/ LifeDone(a) /\ Answer(a, "cancelled")
     \/ tier[TabOf(a)] = "eager" /\ a[2] = "boot" /\ Answer(a, "timeout")
  /\ UNCHANGED <<spawnVars, tabVars, lazyVars, connects>>

\* ToolsFor, for a caller that was told the server is connected.
HasTools(a) == res[a] = "ok" \/ (res[a] = "exists" /\ hostUp = "open" /\ listed # None)

\* lazySpawn.run publishes what Add returned, and trySwap installs the real
\* tools; without a cached schema the whole prefix is dropped first.
Publish(t) ==
  LET a == Booting(t)
      swap == st'[t] = "ready"
  IN  /\ pc[a] = "answered"
      /\ tier[t] = "background"
      /\ pc' = [pc EXCEPT ![a] = "idle"]
      /\ st' = [st EXCEPT ![t] = IF HasTools(a) THEN "ready" ELSE "failed"]
      /\ UNCHANGED suspended
      /\ IF swap THEN Register(t, {"real"}, {"stub"} \cup IF cached[t] THEN {} ELSE {"real"})
                     /\ res' = [res EXCEPT ![a] = None]
         ELSE UNCHANGED <<reg, res>>
      /\ UNCHANGED <<spawnVars, tabVars, off, connects>>

\* An eager add has returned: boot registers what it got and goes on.
EagerDone(t) ==
  LET a == Booting(t)
  IN  /\ tabPh[t] = "building"
      /\ pc[a] = "answered"
      /\ tier[t] = "eager"
      /\ pc' = [pc EXCEPT ![a] = "idle"]
      /\ tabPh' = [tabPh EXCEPT ![t] = "ready"]
      /\ UNCHANGED suspended
      /\ IF HasTools(a) THEN Register(t, {"real"}, {}) ELSE UNCHANGED reg
      /\ res' = [res EXCEPT ![a] = None]
      /\ UNCHANGED <<spawnVars, tier, cached, aborted, st, off, connects>>

-----------------------------------------------------------------------------
(* The user's toggles.                                                     *)

\* connectSpec, up to Host.Add.
AskConnect(t) ==
  /\ Usable(t)
  /\ t \in Clicks /\ connects[t] < MaxConnect
  /\ pc[User(t)] = "idle"
  /\ connects' = [connects EXCEPT ![t] = @ + 1]
  /\ pc' = [pc EXCEPT ![User(t)] = "check"]
  /\ off' = [off EXCEPT ![t] = FALSE]
  /\ UNCHANGED <<spawnVars, res, tabVars, st, reg, suspended>>

\* connectSpec after Add: the tools replace whatever the prefix held.
Connected(t) ==
  LET a == User(t)
  IN  /\ pc[a] = "answered"
      /\ pc' = [pc EXCEPT ![a] = "idle"]
      /\ IF HasTools(a)
           THEN /\ suspended' = [suspended EXCEPT ![t] = FALSE]
                /\ Register(t, {"real"}, {"stub", "real"})
           ELSE UNCHANGED <<suspended, reg>>
      /\ res' = [res EXCEPT ![a] = None]
      /\ UNCHANGED <<spawnVars, tabVars, st, off, connects>>

\* The toggle's off.  On a shared host the prefix is suspended in this tab;
\* a session that owns its host disconnects the server, or drops the
\* placeholders when it is not connected.
TurnOff(t) ==
  /\ Usable(t)
  /\ off' = [off EXCEPT ![t] = pc[User(t)] = "idle"]
  /\ reg' = [reg EXCEPT ![t] = {}]
  /\ suspended' = [suspended EXCEPT ![t] = @ \/ Shared]
  /\ listed' = IF Shared THEN listed ELSE None
  /\ UNCHANGED <<hostUp, proc, attempt, pc, res, tabVars, st, connects>>

\* DisconnectMCPServer: Host.Remove unlinks the server for every tab and its
\* tools leave this tab's registry; of a server that was not listed the
\* placeholders do.
Disconnect(t) == listed' = None /\ reg' = [reg EXCEPT ![t] = {}]

\* Reconnect: DisconnectMCPServer, then connectSpec.
Reconnect(t) ==
  /\ Usable(t)
  /\ t \in Clicks /\ connects[t] < MaxConnect
  /\ pc[User(t)] = "idle"
  /\ Disconnect(t)
  /\ off' = [off EXCEPT ![t] = FALSE]
  /\ connects' = [connects EXCEPT ![t] = @ + 1]
  /\ pc' = [pc EXCEPT ![User(t)] = "check"]
  /\ UNCHANGED <<hostUp, proc, attempt, res, tabVars, st, suspended>>

-----------------------------------------------------------------------------
(* The end of children and of the host.                                    *)

\* A child dies with its context, or is closed after it was unlinked.
ChildDies(a) ==
  /\ a \in proc
  /\ \/ LifeDone(a)
     \/ listed # a /\ pc[a] # "handshake"
  /\ proc' = proc \ {a}
  /\ UNCHANGED <<hostUp, listed, attempt, pc, res, tabVars, lazyVars, connects>>

\* Host.Close: every deferred goroutine has ended, then the listed child is
\* closed.
CloseHost ==
  /\ hostUp = "closing"
  /\ \A t \in Tab : tier[t] = "background" => pc[Booting(t)] = "idle"
  /\ proc' = proc \ {listed}
  /\ hostUp' = "closed"
  /\ UNCHANGED <<listed, attempt, pc, res, tabVars, lazyVars, connects>>

Add(a) == Check(a) \/ Claim(a) \/ Start(a) \/ Connect(a) \/ Fail(a) \/ StopWaiting(a)

HostNext ==
  \/ \E t \in Tab : \/ Acquire(t) \/ Boot(t) \/ Place(t)
                    \/ AbortBuild(t) \/ FailBuild(t) \/ CloseTab(t)
                    \/ Publish(t) \/ EagerDone(t)
                    \/ AskConnect(t) \/ Connected(t) \/ TurnOff(t) \/ Reconnect(t)
  \/ \E a \in Actor : Add(a) \/ ChildDies(a)
  \/ CloseHost

\* Goroutines are scheduled.  A server may stay silent: a handshake is only
\* sure to end once its context is done.
HostFairness ==
  /\ WF_hostVars(CloseHost)
  /\ \A a \in Actor : WF_hostVars(Check(a) \/ Claim(a) \/ Start(a))
                      /\ WF_hostVars(LifeDone(a) /\ (Fail(a) \/ StopWaiting(a)))
  /\ \A t \in Tab : WF_hostVars(Publish(t) \/ EagerDone(t) \/ Connected(t))

HostSpec == HostInit /\ [][HostNext]_hostVars
HostFairSpec == HostSpec /\ HostFairness

-----------------------------------------------------------------------------
HostTypeOK ==
  /\ hostUp \in {"open", "closing", "closed"}
  /\ listed \in Actor \cup {None}
  /\ proc \subseteq Actor
  /\ attempt \in Actor \cup {None}
  /\ pc \in [Actor -> {"idle", "check", "claim", "own", "wait", "handshake", "answered"}]
  /\ res \in [Actor -> {None, "ok", "exists", "closed", "failed", "cancelled", "timeout"}]
  /\ tabPh \in [Tab -> {"new", "acquired", "building", "ready", "gone"}]
  /\ tier \in [Tab -> {"background", "eager"}]
  /\ cached \in [Tab -> BOOLEAN] /\ aborted \in [Tab -> BOOLEAN]
  /\ st \in [Tab -> {"idle", "inFlight", "ready", "failed"}]
  /\ suspended \in [Tab -> BOOLEAN]
  /\ reg \in [Tab -> SUBSET {"stub", "real"}]
  /\ off \in [Tab -> BOOLEAN]
  /\ connects \in [Tab -> 0 .. MaxConnect]

\* The server is spawned once: however many tabs boot, connect or reconnect
\* at the same time, at most one child is starting or listed.
OneServer ==
  Cardinality({a \in proc : a = listed \/ pc[a] = "handshake"}) <= 1

\* A child cannot escape Host.Close: once it has returned, no listed child
\* runs, and no spawn that the boot of a tab deferred is still inside
\* Host.Add, where it could start or list one.
NoEscape ==
  hostUp = "closed" =>
    /\ listed \notin proc
    /\ \A t \in Tab : tier[t] = "background" => pc[Booting(t)] = "idle"

\* A server the user turned off in a tab stays off in that tab, also when a
\* handshake that was under way comes back later.
OffStaysOff == \A t \in Tab : off[t] => reg[t] = {}

\* Host.Close returns, whatever the servers do and whoever waits for whom.
CloseReturns == hostUp = "closing" ~> hostUp = "closed"

\* What a comment of Host.Add asks of its callers: a listed server is one
\* whose child still runs.
ListedRuns == hostUp = "open" /\ listed # None => listed \in proc \/ aborted[TabOf(listed)]

\* A tab is only told that the server failed when it did, or when the host
\* closed or the server was removed under it.
FailedForCause ==
  \A t \in Tab : st[t] = "failed" /\ ~aborted[t] =>
    res[Booting(t)] \notin {"cancelled", "timeout"} \/ hostUp # "open"

\* Once the boot of a tab is over and its spawn is done, what the model is
\* offered are the real tools.
RealToolsShow ==
  \A t \in Tab : st[t] = "ready" /\ tabPh[t] = "ready" /\ ~off[t] => "stub" \notin reg[t]
=============================================================================
