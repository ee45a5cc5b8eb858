----------------------------- MODULE Controller -----------------------------
(***************************************************************************)
(* The ZooKeeper membership protocol: the controller process (main.cpp,    *)
(* CoordinatorClient) and the membership client of every worker            *)
(* (ZkWorkerClient).  A worker registers an ephemeral node under /alive,   *)
(* does its work, overwrites the node with "Dead" and waits for the        *)
(* controller to delete it.  The controller learns of workers from         *)
(* one-shot ZooKeeper watches, whose events run global_watcher on the      *)
(* client library's completion thread, concurrently with main.             *)
(*                                                                         *)
(* Every synchronous zoo_* call is one step, because between two of them   *)
(* any other process may run; any of them may also fail (a lost            *)
(* connection), which the code only logs.  The node tree, the watches and  *)
(* the event queue are ZooKeeper's own.                                    *)
(***************************************************************************)
EXTENDS Naturals, Sequences, FiniteSets

CONSTANTS Workers,      \* names of the workers
          Orderly,      \* the operator starts workers at the prompt and types
                        \* quit only once every worker started has registered
          MaxFaults,    \* bound: worker crashes, and calls that fail for lack
                        \* of a connection, together
          MaxRestarts   \* bound: controllers started again after an end of input

ASSUME ControllerAssumption ==
    /\ IsFiniteSet(Workers)
    /\ Orderly \in BOOLEAN
    /\ MaxFaults \in Nat /\ MaxRestarts \in Nat

VARIABLES
    \* ZooKeeper
    alive,           \* the node /alive exists
    barrier,         \* the node /barrier exists
    node,            \* node[w]: data of /alive/w, or "none"
    old,             \* workers whose node belongs to a crashed session
    child_watch,     \* the controller's child watch on /alive is set
    data_watch,      \* workers on whose node it has a data watch
    events,          \* watch events queued for its completion thread
    \* controller
    ctl,             \* what main does next
    num_of_workers,  \* the static count
    wpc,             \* what global_watcher does next
    todo,            \* workers it has still to zoo_wget, or to zoo_delete
    \* workers
    pc,              \* pc[w]: what the worker's client does next
    expected,        \* expected[w]: the client's own num_of_workers
    \* bounds
    errors, crashes, restarts

zkVars == <<alive, barrier, node, old, child_watch, data_watch, events>>
ctlVars == <<ctl, num_of_workers>>
watcherVars == <<wpc, todo>>
workerVars == <<pc, expected>>
bounds == <<errors, crashes, restarts>>
vars == <<zkVars, ctlVars, watcherVars, workerVars, bounds>>

CHILD == [type |-> "child", path |-> "alive"]
CHANGED(w) == [type |-> "changed", path |-> w]
Events == {CHILD} \cup {CHANGED(w) : w \in Workers}

Registered == {w \in Workers : node[w] # "none"}

TypeOK ==
    /\ alive \in BOOLEAN /\ barrier \in BOOLEAN
    /\ node \in [Workers -> {"none", "Alive", "Dead"}]
    /\ old \subseteq Registered
    /\ child_watch \in BOOLEAN /\ data_watch \subseteq Workers
    /\ events \in Seq(Events)
    /\ ctl \in {"barrier", "alive", "watch", "console", "drain",
                "delete_alive", "delete_barrier", "closed", "exited"}
    /\ num_of_workers \in 0..Cardinality(Workers)
    /\ wpc \in {"idle", "children", "get", "delete"}
    /\ todo \subseteq Workers
    /\ pc \in [Workers -> {"off", "exists", "get", "create", "wait", "working",
                           "set", "gone", "closed", "crashed"}]
    /\ expected \in [Workers -> 0..(Cardinality(Workers) + 1)]
    /\ errors \in 0..MaxFaults /\ crashes \in 0..MaxFaults
    /\ restarts \in 0..MaxRestarts

\* num_of_workers is 0 when the controller starts, and nothing sets it before
\* the first child event.
Init ==
    /\ alive = FALSE /\ barrier = FALSE
    /\ node = [w \in Workers |-> "none"]
    /\ old = {} /\ child_watch = FALSE /\ data_watch = {} /\ events = <<>>
    /\ ctl = "barrier" /\ num_of_workers = 0
    /\ wpc = "idle" /\ todo = {}
    /\ pc = [w \in Workers |-> "off"]
    /\ expected = [w \in Workers |-> 0]
    /\ errors = 0 /\ crashes = 0 /\ restarts = 0

(***************************************************************************)
(* ZooKeeper.  A change of the children of /alive fires the child watch    *)
(* and a change of a node its data watch; a watch that fired is gone.  A   *)
(* deletion also consumes the node's data watch; global_watcher ignores    *)
(* the event it sends, so none is queued.                                  *)
(***************************************************************************)
Notify(event, fires) == IF fires THEN Append(events, event) ELSE events

CreateNode(w) ==
    /\ node' = [node EXCEPT ![w] = "Alive"]
    /\ events' = Notify(CHILD, child_watch)
    /\ child_watch' = FALSE
    /\ UNCHANGED <<alive, barrier, old, data_watch>>

DeleteNode(w) ==
    /\ node' = [node EXCEPT ![w] = "none"]
    /\ old' = old \ {w}
    /\ data_watch' = data_watch \ {w}
    /\ events' = Notify(CHILD, child_watch)
    /\ child_watch' = FALSE
    /\ UNCHANGED <<alive, barrier>>

SetDead(w) ==
    /\ node' = [node EXCEPT ![w] = "Dead"]
    /\ events' = Notify(CHANGED(w), w \in data_watch)
    /\ data_watch' = data_watch \ {w}
    /\ UNCHANGED <<alive, barrier, old, child_watch>>

\* A call that fails changes nothing at the server.
Fails == errors + crashes < MaxFaults /\ errors' = errors + 1 /\ UNCHANGED zkVars
Succeeds == UNCHANGED errors

\* The session of a crashed worker expires, and its ephemeral node goes.
Expire(w) ==
    /\ w \in old
    /\ DeleteNode(w)
    /\ UNCHANGED <<ctlVars, watcherVars, workerVars, bounds>>

(***************************************************************************)
(* The controller's main thread.                                           *)
(***************************************************************************)
create_barrier_node ==
    /\ ctl = "barrier" /\ ctl' = "alive"
    /\ \/ Fails
       \/ Succeeds /\ barrier' = TRUE
          /\ UNCHANGED <<alive, node, old, child_watch, data_watch, events>>
    /\ UNCHANGED <<num_of_workers, watcherVars, workerVars, crashes, restarts>>

\* The data of /alive: num_of_workers as the controller starts with it.
AliveData == 0

create_alive_node ==
    /\ ctl = "alive" /\ ctl' = "watch"
    /\ \/ Fails
       \/ Succeeds /\ alive' = TRUE
          /\ UNCHANGED <<barrier, node, old, child_watch, data_watch, events>>
    /\ UNCHANGED <<num_of_workers, watcherVars, workerVars, crashes, restarts>>

\* The end of create_alive_node: wait for as many workers as expected, then set
\* the child watch; the list of children the call returns is not looked at.
\* The prompt appears.
watch_alive_node ==
    /\ ctl = "watch" /\ ctl' = "console"
    /\ num_of_workers > 0 => alive /\ Cardinality(Registered) >= num_of_workers
    /\ \/ Fails
       \/ Succeeds /\ child_watch' = alive
          /\ UNCHANGED <<alive, barrier, node, old, data_watch, events>>
    /\ UNCHANGED <<num_of_workers, watcherVars, workerVars, crashes, restarts>>

\* Mutant: quit does not wait for the workers.
quit_NoWait ==
    /\ ctl = "console"
    /\ Orderly =>
          \A w \in Workers : pc[w] \notin {"exists", "get", "create", "wait"}
    /\ ctl' = "delete_alive"
    /\ UNCHANGED <<zkVars, num_of_workers, watcherVars, workerVars, bounds>>

\* The operator types quit: delete_alive_node starts from the count the watcher
\* saw last, and waits only when it is positive.
quit ==
    /\ ctl = "console"
    /\ Orderly =>
          \A w \in Workers : pc[w] \notin {"exists", "get", "create", "wait"}
    /\ ctl' = IF num_of_workers > 0 THEN "drain" ELSE "delete_alive"
    /\ UNCHANGED <<zkVars, num_of_workers, watcherVars, workerVars, bounds>>

\* The loop of delete_alive_node; an error, or a child left, goes round again.
drain ==
    /\ ctl = "drain" /\ alive /\ Registered = {}
    /\ ctl' = "delete_alive"
    /\ UNCHANGED <<zkVars, num_of_workers, watcherVars, workerVars, bounds>>

\* A node that has children cannot be deleted; the error is only logged.
delete_alive_node ==
    /\ ctl = "delete_alive" /\ ctl' = "delete_barrier"
    /\ \/ Fails
       \/ /\ Succeeds
          /\ alive' = (alive /\ Registered # {})
          /\ child_watch' = (child_watch /\ Registered # {})
          /\ UNCHANGED <<barrier, node, old, data_watch, events>>
    /\ UNCHANGED <<num_of_workers, watcherVars, workerVars, crashes, restarts>>

\* The controller's watches, and the events and the handler of its completion
\* thread, end with its session.
EndSession ==
    /\ child_watch' = FALSE /\ data_watch' = {} /\ events' = <<>>
    /\ wpc' = "idle" /\ todo' = {}
    /\ UNCHANGED <<alive, node, old>>

\* delete_barrier_node and zookeeper_close.
delete_barrier_node ==
    /\ ctl = "delete_barrier" /\ ctl' = "closed"
    /\ EndSession
    /\ \/ errors + crashes < MaxFaults /\ errors' = errors + 1 /\ UNCHANGED barrier
       \/ Succeeds /\ barrier' = FALSE
    /\ UNCHANGED <<num_of_workers, workerVars, crashes, restarts>>

\* fgets finds the end of the input: main returns without calling finish.
end_of_input ==
    /\ ctl = "console" /\ ctl' = "exited"
    /\ restarts < MaxRestarts
    /\ EndSession
    /\ UNCHANGED <<barrier, num_of_workers, workerVars, bounds>>

\* A new controller process, on the node tree the last one left.
start_again ==
    /\ ctl = "exited" /\ ctl' = "barrier"
    /\ restarts < MaxRestarts
    /\ num_of_workers' = 0
    /\ restarts' = restarts + 1
    /\ UNCHANGED <<zkVars, watcherVars, workerVars, errors, crashes>>

(***************************************************************************)
(* global_watcher of the controller, on the completion thread.             *)
(***************************************************************************)
take_event ==
    /\ wpc = "idle" /\ events # <<>>
    /\ LET e == Head(events)
       IN IF e = CHILD
          THEN wpc' = "children" /\ todo' = {}
          ELSE wpc' = "delete" /\ todo' = {e.path}
    /\ events' = Tail(events)
    /\ UNCHANGED <<alive, barrier, node, old, child_watch, data_watch,
                   ctlVars, workerVars, bounds>>

\* ZOO_CHILD_EVENT: list the children and set the child watch again.
child_event ==
    /\ wpc = "children"
    /\ \/ /\ Succeeds /\ alive
          /\ child_watch' = TRUE
          /\ num_of_workers' = Cardinality(Registered)
          /\ wpc' = "get" /\ todo' = Registered
          /\ UNCHANGED <<alive, barrier, node, old, data_watch, events>>
       \/ /\ Fails \/ (~alive /\ Succeeds /\ UNCHANGED zkVars)
          /\ wpc' = "idle"
          /\ UNCHANGED <<num_of_workers, todo>>
    /\ UNCHANGED <<ctl, workerVars, crashes, restarts>>

\* Mutant: no data watch is set on the node.
child_get_NoWatch(w) ==
    /\ wpc = "get" /\ w \in todo
    /\ todo' = todo \ {w}
    /\ UNCHANGED <<zkVars, ctlVars, wpc, workerVars, bounds>>

\* zoo_wget of the next child: a data watch, unless the node is gone.
child_get(w) ==
    /\ wpc = "get" /\ w \in todo
    /\ todo' = todo \ {w}
    /\ \/ Fails
       \/ /\ Succeeds
          /\ data_watch' = data_watch \cup ({w} \cap Registered)
          /\ UNCHANGED <<alive, barrier, node, old, child_watch, events>>
    /\ UNCHANGED <<ctlVars, wpc, workerVars, crashes, restarts>>

child_done ==
    /\ wpc = "get" /\ todo = {}
    /\ wpc' = "idle"
    /\ UNCHANGED <<zkVars, ctlVars, todo, workerVars, bounds>>

\* ZOO_CHANGED_EVENT: the node is deleted whatever its data is.
changed_event(w) ==
    /\ wpc = "delete" /\ w \in todo
    /\ wpc' = "idle" /\ todo' = {}
    /\ \/ Fails
       \/ Succeeds /\ w \in Registered /\ DeleteNode(w)
       \/ Succeeds /\ w \notin Registered /\ UNCHANGED zkVars
    /\ UNCHANGED <<ctlVars, workerVars, crashes, restarts>>

(***************************************************************************)
(* ZkWorkerClient of worker w.                                             *)
(***************************************************************************)
Go(w, from, to) == pc[w] = from /\ pc' = [pc EXCEPT ![w] = to]

\* The worker process is started, or started again after a crash.
launch(w) ==
    /\ Orderly => ctl = "console"
    /\ Go(w, "off", "exists") \/ Go(w, "crashed", "exists")
    /\ UNCHANGED <<zkVars, ctlVars, watcherVars, expected, bounds>>

\* Wait for /alive.  rc is the comparison with ZNONODE, so a call that failed
\* for another reason ends the loop and is not seen by the test of rc.
wait_alive(w) ==
    /\ Go(w, "exists", "get")
    /\ Fails \/ (Succeeds /\ alive /\ UNCHANGED zkVars)
    /\ UNCHANGED <<ctlVars, watcherVars, expected, crashes, restarts>>

\* Read the number of workers; after an error tmp is uninitialised, and atoi of
\* it can be anything.
get_num_of_workers(w) ==
    /\ Go(w, "get", "create")
    /\ \/ /\ Succeeds /\ alive /\ UNCHANGED zkVars
          /\ expected' = [expected EXCEPT ![w] = AliveData]
       \/ /\ Fails \/ (Succeeds /\ ~alive /\ UNCHANGED zkVars)
          /\ \E n \in 0..(Cardinality(Workers) + 1) :
                expected' = [expected EXCEPT ![w] = n]
    /\ UNCHANGED <<ctlVars, watcherVars, crashes, restarts>>

\* Register.  Without /alive, or with the node of an earlier session still
\* there, the call fails and the worker goes on.
create_my_alive_node(w) ==
    /\ Go(w, "create", "wait")
    /\ \/ Fails
       \/ Succeeds /\ alive /\ w \notin Registered /\ CreateNode(w)
       \/ Succeeds /\ (~alive \/ w \in Registered) /\ UNCHANGED zkVars
    /\ UNCHANGED <<ctlVars, watcherVars, expected, crashes, restarts>>

\* Mutant: the worker writes to its node once it is ready.
wait_workers_ReportsReady(w) ==
    /\ Go(w, "wait", "working")
    /\ events' = Notify(CHANGED(w), w \in data_watch)
    /\ data_watch' = data_watch \ {w}
    /\ UNCHANGED <<alive, barrier, node, old, child_watch, ctlVars, watcherVars,
                   expected, bounds>>

\* Wait until as many workers as expected have registered; an error goes round
\* the loop again.
wait_workers(w) ==
    /\ Go(w, "wait", "working")
    /\ expected[w] > 0 => alive /\ Cardinality(Registered) >= expected[w]
    /\ UNCHANGED <<zkVars, ctlVars, watcherVars, expected, bounds>>

\* The worker's threads are done, and Worker::Run calls finish.
finish(w) ==
    /\ Go(w, "working", "set")
    /\ UNCHANGED <<zkVars, ctlVars, watcherVars, expected, bounds>>

delete_my_alive_node(w) ==
    /\ Go(w, "set", "gone")
    /\ \/ Fails
       \/ Succeeds /\ w \in Registered /\ SetDead(w)
       \/ Succeeds /\ w \notin Registered /\ UNCHANGED zkVars
    /\ UNCHANGED <<ctlVars, watcherVars, expected, crashes, restarts>>

\* Wait for the controller to delete the node, then close the session.  An
\* error ends the wait as well, and the session takes its own node along.
wait_deleted(w) ==
    /\ Go(w, "gone", "closed")
    /\ \/ Succeeds /\ w \notin Registered /\ UNCHANGED zkVars
       \/ /\ errors + crashes < MaxFaults /\ errors' = errors + 1
          /\ IF w \in Registered \ old THEN DeleteNode(w) ELSE UNCHANGED zkVars
    /\ UNCHANGED <<ctlVars, watcherVars, expected, crashes, restarts>>

\* A worker crashes; its session stays until it expires.
crash(w) ==
    /\ pc[w] \notin {"off", "closed", "crashed"}
    /\ errors + crashes < MaxFaults /\ crashes' = crashes + 1
    /\ pc' = [pc EXCEPT ![w] = "crashed"]
    /\ old' = old \cup ({w} \cap Registered)
    /\ UNCHANGED <<alive, barrier, node, child_watch, data_watch, events,
                   ctlVars, watcherVars, expected, errors, restarts>>

(***************************************************************************)
(* The system.                                                             *)
(***************************************************************************)
ControllerStep ==
    \/ create_barrier_node \/ create_alive_node \/ watch_alive_node
    \/ drain \/ delete_alive_node \/ delete_barrier_node

WatcherStep ==
    \/ take_event \/ child_event \/ child_done
    \/ \E w \in Workers : child_get(w) \/ changed_event(w)

WorkerStep(w) ==
    \/ wait_alive(w) \/ get_num_of_workers(w) \/ create_my_alive_node(w)
    \/ wait_workers(w) \/ finish(w) \/ delete_my_alive_node(w)
    \/ wait_deleted(w)

Environment ==
    \/ quit \/ end_of_input \/ start_again
    \/ \E w \in Workers : launch(w) \/ crash(w) \/ Expire(w)

Next ==
    \/ ControllerStep \/ WatcherStep \/ Environment
    \/ \E w \in Workers : WorkerStep(w)

Spec == Init /\ [][Next]_vars

\* Every running thread takes its steps: main, the completion thread and each
\* worker; a call that keeps being made succeeds in the end, so that no progress
\* is owed to a failure.  When the operator types, processes start, crash or lose
\* their session is left open.
FairSpec ==
    /\ Spec
    /\ WF_vars(Succeeds /\ ControllerStep) /\ WF_vars(Succeeds /\ WatcherStep)
    /\ \A w \in Workers : WF_vars(Succeeds /\ WorkerStep(w))

(***************************************************************************)
(* Properties.                                                             *)
(***************************************************************************)
\* Nothing is left for the watcher to do.
Quiet == wpc = "idle" /\ events = <<>>

\* No call has failed, no controller has been started again, and the operator
\* keeps to the order.
Faultless == Orderly /\ errors = 0 /\ restarts = 0

\* A one-shot watch that is not set again makes the controller blind.  Once the
\* prompt is shown and the watcher has caught up, the controller watches the
\* children of /alive and every worker that has registered and not finished,
\* and the count quit will start from is the number of nodes.
QuietWatches ==
    Faultless /\ ctl = "console" /\ Quiet =>
        /\ child_watch
        /\ \A w \in Workers : node[w] = "Alive" => w \in data_watch
        /\ num_of_workers = Cardinality(Registered)

\* The inductive strengthening: until the prompt nothing has happened that the
\* watches could miss; afterwards, while the child watch is down a child event
\* is on its way to the watcher, and a live node without a data watch is in the
\* list the watcher works through, or will be in the next one.
BeforePrompt ==
    ctl \in {"barrier", "alive", "watch"} =>
        /\ \A w \in Workers : pc[w] = "off" /\ node[w] = "none"
        /\ Quiet /\ num_of_workers = 0
        /\ ctl = "watch" => alive

ChildQueued == \E i \in 1..Len(events) : events[i] = CHILD
ChildPending == wpc = "children" \/ ChildQueued

CaughtUp ==
    /\ child_watch
    /\ \A w \in Workers : node[w] = "Alive" =>
            w \in data_watch \/ (wpc = "get" /\ w \in todo)
    /\ num_of_workers = Cardinality(Registered)

AfterPrompt ==
    ctl \in {"console", "drain"} => alive /\ (ChildPending \/ CaughtUp)

WatchInv == TypeOK /\ (Faultless => BeforePrompt /\ AfterPrompt)

\* A worker whose node is watched before the operator quits and before it
\* reports "Dead" is released: a quit typed meanwhile waits for it, the
\* controller deletes its node and finish returns, unless a call fails or a
\* process ends on the way.
WatchedWorkerReleased ==
    \A w \in Workers :
        Faultless /\ pc[w] = "set" /\ w \in data_watch /\ ctl = "console"
            ~> ~Faultless \/ pc[w] \in {"closed", "crashed"} \/ ctl = "exited"

\* The controller deletes only nodes of workers that reported "Dead", although
\* ZOO_CHANGED_EVENT does not look at the data it read, unless a worker has
\* crashed and its successor taken over its name.
DeletesOnlyDead ==
    [][\A w \in Workers :
          crashes = 0 /\ changed_event(w) /\ node'[w] # node[w] =>
              node[w] = "Dead"]_vars

\* "wait for controller to delete all dead workers" (zk_worker_client.hpp): a
\* worker that reports "Dead" is released.
DeadWorkerReleased ==
    \A w \in Workers : pc[w] = "gone" ~> pc[w] \in {"closed", "crashed"}

=============================================================================
