------------------------------ MODULE MCTools ------------------------------
(***************************************************************************)
(* The scheduler of parallel_tasks and the plugin host, which share        *)
(* nothing, in one state graph: a behaviour is one of the scheduler while  *)
(* the host is closed and every tab gone, or one of the host while no call *)
(* of the tool is under way.                                               *)
(***************************************************************************)
EXTENDS ParallelTasks, PluginHost

\* The host has been closed: nothing of it is left to do.
Closed ==
  /\ hostUp = "closed" /\ listed = None /\ proc = {} /\ attempt = None
  /\ pc = [a \in Actor |-> "idle"] /\ res = [a \in Actor |-> None]
  /\ tabPh = [t \in Tab |-> "gone"]
  /\ tier = [t \in Tab |-> "background"]
  /\ cached = [t \in Tab |-> FALSE] /\ aborted = [t \in Tab |-> FALSE]
  /\ st = [t \in Tab |-> "idle"] /\ reg = [t \in Tab |-> {}]
  /\ suspended = [t \in Tab |-> FALSE] /\ off = [t \in Tab |-> FALSE]
  /\ connects = [t \in Tab |-> 0]

\* A call that was refused: nothing of it is left to do.
Refused ==
  /\ deps = [i \in Task |-> [j \in Task |-> 1]]
  /\ phase = "returned" /\ report = "rejected" /\ cancelled = FALSE
  /\ remaining = [i \in Task |-> 0] /\ running = {} /\ done = {}
  /\ statuses = [i \in Task |-> "pending"] /\ worker = [i \in Task |-> "none"]
  /\ shown = [i \in Task |-> "none"] /\ doneCh = <<>>

Init == (CallInit /\ Closed) \/ (Refused /\ HostInit)

Next == \/ CallNext /\ UNCHANGED hostVars
        \/ HostNext /\ UNCHANGED callVars

Spec == Init /\ [][Next]_<<callVars, hostVars>> /\ CallFairness /\ HostFairness

\* A call that was accepted returns and Host.Close returns: in each behaviour
\* one of the two can be under way.
UnderWay == phase = "looping" \/ hostUp = "closing"
=============================================================================
