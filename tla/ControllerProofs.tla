-------------------------- MODULE ControllerProofs --------------------------
(***************************************************************************)
(* Proof that the controller is never blind (QuietWatches), for any finite *)
(* set of workers and any bounds, until a call fails or the controller is  *)
(* started again.                                                          *)
(***************************************************************************)
EXTENDS Controller, FiniteSetTheorems, TLAPS

\* The nodes under /alive are at most as many as the workers.
LEMMA RegisteredCount ==
    ASSUME TypeOK
    PROVE  Cardinality(Registered) \in 0..Cardinality(Workers)
<1>1. Registered \subseteq Workers
  BY DEF Registered
<1>2. IsFiniteSet(Workers)
  BY ControllerAssumption
<1>3. /\ IsFiniteSet(Registered)
      /\ Cardinality(Registered) <= Cardinality(Workers)
  BY <1>1, <1>2, FS_Subset
<1>4. Cardinality(Registered) \in Nat /\ Cardinality(Workers) \in Nat
  BY <1>2, <1>3, FS_CardinalityType
<1> QED
  BY <1>3, <1>4

\* The state in which the controller and the workers start satisfies the
\* invariant of the watches.
LEMMA WatchInvInit == Init => WatchInv
<1> SUFFICES ASSUME Init PROVE WatchInv
  OBVIOUS
<1>1. TypeOK
  <2>1. Cardinality(Workers) \in Nat
    BY ControllerAssumption, FS_CardinalityType
  <2>2. Registered = {}
    BY DEF Init, Registered
  <2>3. alive \in BOOLEAN /\ barrier \in BOOLEAN /\ child_watch \in BOOLEAN
    BY DEF Init
  <2>4. events \in Seq(Events)
    BY DEF Init
  <2>5. /\ node \in [Workers -> {"none", "Alive", "Dead"}]
        /\ expected \in [Workers -> 0..(Cardinality(Workers) + 1)]
        /\ num_of_workers \in 0..Cardinality(Workers)
        /\ errors \in 0..MaxFaults /\ crashes \in 0..MaxFaults
        /\ restarts \in 0..MaxRestarts
    BY <2>1, ControllerAssumption DEF Init
  <2> QED
    BY <2>2, <2>3, <2>4, <2>5 DEF Init, TypeOK
<1>2. BeforePrompt /\ AfterPrompt
  BY DEF Init, BeforePrompt, AfterPrompt, Quiet
<1> QED
  BY <1>1, <1>2 DEF WatchInv

\* A watch event queued for the completion thread keeps the queue a queue.
LEMMA NotifyType ==
    ASSUME TypeOK, NEW fires
    PROVE  /\ Notify(CHILD, fires) \in Seq(Events)
           /\ \A w \in Workers : Notify(CHANGED(w), fires) \in Seq(Events)
<1>1. CHILD \in Events /\ \A w \in Workers : CHANGED(w) \in Events
  BY DEF Events
<1> QED
  BY <1>1 DEF TypeOK, Notify

\* Every step keeps the types of the variables.
LEMMA ControllerTypeStep ==
    ASSUME TypeOK, Next
    PROVE  TypeOK'
<1> USE DEF zkVars, ctlVars, watcherVars, workerVars, bounds
<1>0. /\ Cardinality(Registered) \in 0..Cardinality(Workers)
      /\ Cardinality(Workers) \in Nat
  BY RegisteredCount, ControllerAssumption, FS_CardinalityType
<1>1. CASE create_barrier_node
  <2>1. alive' \in BOOLEAN /\ barrier' \in BOOLEAN /\ child_watch' \in BOOLEAN
    BY <1>1, Zenon DEF TypeOK, create_barrier_node, Fails, Succeeds
  <2>2. events' \in Seq(Events)
    BY <1>1 DEF TypeOK, create_barrier_node, Fails, Succeeds
  <2> QED
    BY <1>0, <1>1, <2>1, <2>2, ControllerAssumption DEF TypeOK, Registered,
       create_barrier_node, Fails, Succeeds
<1>2. CASE create_alive_node
  <2>1. alive' \in BOOLEAN /\ barrier' \in BOOLEAN /\ child_watch' \in BOOLEAN
    BY <1>2, Zenon DEF TypeOK, create_alive_node, Fails, Succeeds
  <2>2. events' \in Seq(Events)
    BY <1>2 DEF TypeOK, create_alive_node, Fails, Succeeds
  <2> QED
    BY <1>0, <1>2, <2>1, <2>2, ControllerAssumption DEF TypeOK, Registered,
       create_alive_node, Fails, Succeeds
<1>3. CASE watch_alive_node
  BY <1>0, <1>3, ControllerAssumption DEF TypeOK, Registered,
     watch_alive_node, Fails, Succeeds
<1>4. CASE quit
  BY <1>0, <1>4, ControllerAssumption DEF TypeOK, Registered, quit
<1>5. CASE drain
  BY <1>0, <1>5, ControllerAssumption DEF TypeOK, Registered, drain
<1>6. CASE delete_alive_node
  <2>1. alive' \in BOOLEAN /\ barrier' \in BOOLEAN /\ child_watch' \in BOOLEAN
    BY <1>6, Zenon DEF TypeOK, delete_alive_node, Fails, Succeeds
  <2>2. events' \in Seq(Events)
    BY <1>6 DEF TypeOK, delete_alive_node, Fails, Succeeds
  <2> QED
    BY <1>0, <1>6, <2>1, <2>2, ControllerAssumption DEF TypeOK, Registered,
       delete_alive_node, Fails, Succeeds
<1>7. CASE delete_barrier_node
  <2>1. alive' \in BOOLEAN /\ barrier' \in BOOLEAN /\ child_watch' \in BOOLEAN
    BY <1>7, Zenon DEF TypeOK, delete_barrier_node, EndSession, Succeeds
  <2>2. events' \in Seq(Events)
    BY <1>7 DEF TypeOK, delete_barrier_node, EndSession, Succeeds
  <2> QED
    BY <1>0, <1>7, <2>1, <2>2, ControllerAssumption DEF TypeOK, Registered,
       delete_barrier_node, EndSession, Succeeds
<1>8. CASE end_of_input
  <2>1. alive' \in BOOLEAN /\ barrier' \in BOOLEAN /\ child_watch' \in BOOLEAN
    BY <1>8, Zenon DEF TypeOK, end_of_input, EndSession
  <2>2. events' \in Seq(Events)
    BY <1>8 DEF TypeOK, end_of_input, EndSession
  <2> QED
    BY <1>0, <1>8, <2>1, <2>2, ControllerAssumption DEF TypeOK, Registered,
       end_of_input, EndSession
<1>9. CASE start_again
  <2>1. alive' \in BOOLEAN /\ barrier' \in BOOLEAN /\ child_watch' \in BOOLEAN
    BY <1>9, Zenon DEF TypeOK, start_again
  <2>2. events' \in Seq(Events)
    BY <1>9 DEF TypeOK, start_again
  <2> QED
    BY <1>0, <1>9, <2>1, <2>2, ControllerAssumption DEF TypeOK, Registered,
       start_again
<1>10. CASE take_event
  BY SMTT(60), <1>0, <1>10, ControllerAssumption DEF TypeOK, Registered, take_event,
     CHILD, CHANGED, Events
<1>11. CASE child_event
  <2>1. alive' \in BOOLEAN /\ barrier' \in BOOLEAN /\ child_watch' \in BOOLEAN
    BY <1>11, Zenon DEF TypeOK, child_event, Fails, Succeeds
  <2>2. events' \in Seq(Events)
    BY <1>11 DEF TypeOK, child_event, Fails, Succeeds
  <2> QED
    BY <1>0, <1>11, <2>1, <2>2, ControllerAssumption DEF TypeOK, Registered,
       child_event, Fails, Succeeds
<1>12. CASE child_done
  BY <1>0, <1>12, ControllerAssumption DEF TypeOK, Registered, child_done
<1>13. ASSUME NEW w \in Workers, child_get(w) PROVE TypeOK'
  BY <1>0, <1>13, ControllerAssumption DEF TypeOK, Registered, child_get,
     Fails, Succeeds
<1>14. ASSUME NEW w \in Workers, changed_event(w) PROVE TypeOK'
  <2>1. alive' \in BOOLEAN /\ barrier' \in BOOLEAN /\ child_watch' \in BOOLEAN
    BY <1>14, Zenon DEF TypeOK, changed_event, Fails, Succeeds, DeleteNode,
       Notify
  <2>2. events' \in Seq(Events)
    BY <1>14, NotifyType DEF TypeOK, changed_event, Fails, Succeeds,
       DeleteNode
  <2> QED
    BY SMTT(60), <1>0, <1>14, <2>1, <2>2, ControllerAssumption DEF TypeOK, Registered,
       changed_event, Fails, Succeeds, DeleteNode, Notify
<1>15. ASSUME NEW w \in Workers, launch(w) PROVE TypeOK'
  BY <1>0, <1>15, ControllerAssumption DEF TypeOK, Registered, launch, Go
<1>16. ASSUME NEW w \in Workers, wait_alive(w) PROVE TypeOK'
  <2>1. alive' \in BOOLEAN /\ barrier' \in BOOLEAN /\ child_watch' \in BOOLEAN
    BY <1>16, Zenon DEF TypeOK, wait_alive, Go, Fails, Succeeds
  <2>2. events' \in Seq(Events)
    BY <1>16 DEF TypeOK, wait_alive, Go, Fails, Succeeds
  <2> QED
    BY <1>0, <1>16, <2>1, <2>2, ControllerAssumption DEF TypeOK, Registered,
       wait_alive, Go, Fails, Succeeds
<1>17. ASSUME NEW w \in Workers, get_num_of_workers(w) PROVE TypeOK'
  <2>1. UNCHANGED zkVars
    BY <1>17 DEF get_num_of_workers, Fails
  <2>2. alive' \in BOOLEAN /\ barrier' \in BOOLEAN /\ child_watch' \in BOOLEAN
    BY <2>1, Zenon DEF TypeOK
  <2>3. expected' \in [Workers -> 0..(Cardinality(Workers) + 1)]
    <3>1. PICK n \in 0..(Cardinality(Workers) + 1) :
              expected' = [expected EXCEPT ![w] = n]
      BY <1>0, <1>17 DEF get_num_of_workers, AliveData
    <3> QED
      BY <3>1 DEF TypeOK
  <2>4. errors' \in 0..MaxFaults
    BY <1>17, ControllerAssumption
       DEF TypeOK, get_num_of_workers, Fails, Succeeds
  <2> QED
    BY <1>17, <2>1, <2>2, <2>3, <2>4
       DEF TypeOK, Registered, get_num_of_workers, Go
<1>18. ASSUME NEW w \in Workers, create_my_alive_node(w) PROVE TypeOK'
  <2>1. alive' \in BOOLEAN /\ barrier' \in BOOLEAN /\ child_watch' \in BOOLEAN
    BY <1>18, Zenon DEF TypeOK, create_my_alive_node, Go, Fails, Succeeds,
       CreateNode, Notify
  <2>2. events' \in Seq(Events)
    BY <1>18, NotifyType DEF TypeOK, create_my_alive_node, Go, Fails,
       Succeeds, CreateNode
  <2>3. errors' \in 0..MaxFaults
    BY <1>18, ControllerAssumption DEF TypeOK, create_my_alive_node, Fails, Succeeds
  <2>4. CASE CreateNode(w)
    BY <1>18, <2>1, <2>2, <2>3, <2>4
       DEF TypeOK, Registered, create_my_alive_node, Go, CreateNode
  <2>5. CASE UNCHANGED zkVars
    BY <1>18, <2>1, <2>2, <2>3, <2>5
       DEF TypeOK, Registered, create_my_alive_node, Go
  <2> QED
    BY <1>18, <2>4, <2>5 DEF create_my_alive_node, Fails
<1>19. ASSUME NEW w \in Workers, wait_workers(w) PROVE TypeOK'
  BY <1>0, <1>19, ControllerAssumption DEF TypeOK, Registered, wait_workers,
     Go
<1>20. ASSUME NEW w \in Workers, finish(w) PROVE TypeOK'
  BY <1>0, <1>20, ControllerAssumption DEF TypeOK, Registered, finish, Go
<1>21. ASSUME NEW w \in Workers, delete_my_alive_node(w) PROVE TypeOK'
  <2>1. alive' \in BOOLEAN /\ barrier' \in BOOLEAN /\ child_watch' \in BOOLEAN
    BY <1>21, Zenon
       DEF TypeOK, delete_my_alive_node, Go, Fails, Succeeds, SetDead, Notify
  <2>2. events' \in Seq(Events)
    <3>1. CASE SetDead(w)
      <4>1. Notify(CHANGED(w), w \in data_watch) \in Seq(Events)
        BY NotifyType
      <4> QED
        BY <3>1, <4>1 DEF SetDead
    <3>2. CASE UNCHANGED zkVars
      BY <3>2 DEF TypeOK
    <3> QED
      BY <1>21, <3>1, <3>2 DEF delete_my_alive_node, Fails
  <2>3. errors' \in 0..MaxFaults
    BY <1>21, ControllerAssumption DEF TypeOK, delete_my_alive_node, Fails, Succeeds
  <2>4. CASE SetDead(w)
    BY <1>21, <2>1, <2>2, <2>3, <2>4
       DEF TypeOK, Registered, delete_my_alive_node, Go, SetDead
  <2>5. CASE UNCHANGED zkVars
    BY <1>21, <2>1, <2>2, <2>3, <2>5
       DEF TypeOK, Registered, delete_my_alive_node, Go
  <2> QED
    BY <1>21, <2>4, <2>5 DEF delete_my_alive_node, Fails
<1>22. ASSUME NEW w \in Workers, wait_deleted(w) PROVE TypeOK'
  <2>1. alive' \in BOOLEAN /\ barrier' \in BOOLEAN /\ child_watch' \in BOOLEAN
    BY <1>22, Zenon DEF TypeOK, wait_deleted, Go, Succeeds, DeleteNode
  <2>2. events' \in Seq(Events)
    BY <1>22, NotifyType DEF TypeOK, wait_deleted, Go, Succeeds, DeleteNode
  <2>3. errors' \in 0..MaxFaults
    BY <1>22, ControllerAssumption DEF TypeOK, wait_deleted, Succeeds
  <2>4. CASE DeleteNode(w)
    BY <1>22, <2>1, <2>2, <2>3, <2>4
       DEF TypeOK, Registered, wait_deleted, Go, DeleteNode
  <2>5. CASE UNCHANGED zkVars
    BY <1>22, <2>1, <2>2, <2>3, <2>5 DEF TypeOK, Registered, wait_deleted, Go
  <2> QED
    BY <1>22, <2>4, <2>5 DEF wait_deleted
<1>23. ASSUME NEW w \in Workers, crash(w) PROVE TypeOK'
  BY <1>0, <1>23, ControllerAssumption DEF TypeOK, Registered, crash
<1>24. ASSUME NEW w \in Workers, Expire(w) PROVE TypeOK'
  <2>1. alive' \in BOOLEAN /\ barrier' \in BOOLEAN /\ child_watch' \in BOOLEAN
    BY <1>24, Zenon DEF TypeOK, Expire, DeleteNode, Notify
  <2>2. events' \in Seq(Events)
    BY <1>24, NotifyType DEF TypeOK, Expire, DeleteNode
  <2> QED
    BY <1>0, <1>24, <2>1, <2>2, ControllerAssumption DEF TypeOK, Registered,
       Expire, DeleteNode, Notify
<1> QED
  BY <1>1, <1>2, <1>3, <1>4, <1>5, <1>6, <1>7, <1>8, <1>9, <1>10, <1>11,
     <1>12, <1>13, <1>14, <1>15, <1>16, <1>17, <1>18, <1>19, <1>20, <1>21,
     <1>22, <1>23, <1>24 DEF Next, ControllerStep, WatcherStep, WorkerStep,
     Environment

\* A node created or deleted under /alive leaves a child event in the queue, if
\* the child watch was set or such an event was there already.
LEMMA NodeChangeQueues ==
    ASSUME TypeOK, NEW w \in Workers, CreateNode(w) \/ DeleteNode(w),
           child_watch \/ ChildQueued
    PROVE  ChildQueued'
<1>1. events \in Seq(Events) /\ Len(events) \in Nat
  BY DEF TypeOK
<1>2. CASE child_watch
  <2>1. events' = Append(events, CHILD)
    BY <1>2 DEF CreateNode, DeleteNode, Notify
  <2>2. Len(events') = Len(events) + 1 /\ events'[Len(events) + 1] = CHILD
    BY <1>1, <2>1
  <2> QED
    BY <1>1, <2>2 DEF ChildQueued
<1>3. CASE ~child_watch
  BY <1>3 DEF CreateNode, DeleteNode, Notify, ChildQueued
<1> QED
  BY <1>2, <1>3

\* A worker that reports "Dead" takes no child event out of the queue.
LEMMA SetDeadQueues ==
    ASSUME TypeOK, NEW w \in Workers, SetDead(w), ChildQueued
    PROVE  ChildQueued'
<1>1. events \in Seq(Events) /\ Len(events) \in Nat
  BY DEF TypeOK
<1>2. PICK i \in 1..Len(events) : events[i] = CHILD
  BY DEF ChildQueued
<1>3. CASE w \in data_watch
  <2>1. events' = Append(events, CHANGED(w))
    BY <1>3 DEF SetDead, Notify
  <2>2. Len(events') = Len(events) + 1 /\ events'[i] = events[i]
    BY <1>1, <1>2, <2>1
  <2> QED
    BY <1>1, <1>2, <2>2 DEF ChildQueued
<1>4. CASE w \notin data_watch
  BY <1>4 DEF SetDead, Notify, ChildQueued
<1> QED
  BY <1>3, <1>4

\* A system without a fault so far was without a fault before, and the step was
\* not one.
LEMMA FaultlessBefore ==
    ASSUME TypeOK, Next, Faultless'
    PROVE  Faultless /\ Orderly /\ errors' # errors + 1 /\ restarts' # restarts + 1
<1>1. errors \in Nat /\ restarts \in Nat
  BY ControllerAssumption DEF TypeOK
<1>2. Orderly /\ errors' = 0 /\ restarts' = 0
  BY DEF Faultless
<1>3. errors' = errors \/ errors' = errors + 1
  BY DEF Next, ControllerStep, WatcherStep, WorkerStep, Environment,
     create_barrier_node, create_alive_node, watch_alive_node, quit, drain,
     delete_alive_node, delete_barrier_node, end_of_input, start_again,
     take_event, child_event, child_done, child_get, changed_event, launch,
     wait_alive, get_num_of_workers, create_my_alive_node, wait_workers,
     finish, delete_my_alive_node, wait_deleted, crash, Expire, Fails,
     Succeeds, bounds
<1>4. restarts' = restarts \/ restarts' = restarts + 1
  BY DEF Next, ControllerStep, WatcherStep, WorkerStep, Environment,
     create_barrier_node, create_alive_node, watch_alive_node, quit, drain,
     delete_alive_node, delete_barrier_node, end_of_input, start_again,
     take_event, child_event, child_done, child_get, changed_event, launch,
     wait_alive, get_num_of_workers, create_my_alive_node, wait_workers,
     finish, delete_my_alive_node, wait_deleted, crash, Expire, bounds
<1>5. errors = 0 /\ errors' # errors + 1
  BY <1>1, <1>2, <1>3
<1>6. restarts = 0 /\ restarts' # restarts + 1
  BY <1>1, <1>2, <1>4
<1> QED
  BY <1>2, <1>5, <1>6 DEF Faultless

\* Until the prompt is shown nothing moves but the controller's own start.
LEMMA BeforePromptStep ==
    ASSUME WatchInv, Next, Faultless'
    PROVE  BeforePrompt'
<1> USE DEF zkVars, ctlVars, watcherVars, workerVars, bounds
<1>0. /\ TypeOK /\ BeforePrompt /\ AfterPrompt
      /\ Orderly /\ errors' # errors + 1 /\ restarts' # restarts + 1
  BY FaultlessBefore DEF WatchInv
<1> SUFFICES ASSUME ctl' \in {"barrier", "alive", "watch"}
             PROVE  BeforePrompt'
  BY DEF BeforePrompt
<1>1. ctl \in {"barrier", "alive", "watch"}
  BY <1>0 DEF Next, ControllerStep, WatcherStep, WorkerStep, Environment,
     create_barrier_node, create_alive_node, watch_alive_node, quit, drain,
     delete_alive_node, delete_barrier_node, end_of_input, start_again,
     take_event, child_event, child_done, child_get, changed_event, launch,
     wait_alive, get_num_of_workers, create_my_alive_node, wait_workers,
     finish, delete_my_alive_node, wait_deleted, crash, Expire
<1>2. /\ \A w \in Workers : pc[w] = "off" /\ node[w] = "none"
      /\ wpc = "idle" /\ events = <<>> /\ num_of_workers = 0
  BY <1>0, <1>1 DEF BeforePrompt, Quiet
<1>3. \/ create_barrier_node \/ create_alive_node \/ watch_alive_node
  <2>1. ~WatcherStep
    BY <1>2 DEF WatcherStep, take_event, child_event, child_done, child_get,
       changed_event
  <2>2. \A w \in Workers : ~WorkerStep(w)
    BY <1>2 DEF WorkerStep, wait_alive, get_num_of_workers,
       create_my_alive_node, wait_workers, finish, delete_my_alive_node,
       wait_deleted, Go
  <2>3. ~Environment
    BY <1>0, <1>1, <1>2 DEF Environment, quit, end_of_input, start_again,
       launch, crash, Expire, TypeOK, Registered
  <2> QED
    BY <1>1, <2>1, <2>2, <2>3 DEF Next, ControllerStep, drain,
       delete_alive_node, delete_barrier_node
<1>4. UNCHANGED <<pc, node, events, wpc, num_of_workers>>
  BY <1>3 DEF create_barrier_node, create_alive_node, watch_alive_node, Fails
<1>5. ctl' = "watch" => alive'
  BY <1>0, <1>3 DEF create_barrier_node, create_alive_node, watch_alive_node,
     Fails
<1> QED
  BY <1>2, <1>4, <1>5 DEF BeforePrompt, Quiet

\* Once the prompt is shown, every step leaves the watcher caught up or a child
\* event on its way to it.
LEMMA AfterPromptStep ==
    ASSUME WatchInv, Next, Faultless'
    PROVE  AfterPrompt'
<1> USE DEF zkVars, ctlVars, watcherVars, workerVars, bounds
<1>0. /\ TypeOK /\ BeforePrompt /\ AfterPrompt
      /\ Orderly /\ errors' # errors + 1 /\ restarts' # restarts + 1
  BY FaultlessBefore DEF WatchInv
<1> SUFFICES ASSUME ctl' \in {"console", "drain"}
             PROVE  alive' /\ (ChildPending' \/ CaughtUp')
  BY DEF AfterPrompt
<1>1. CASE watch_alive_node
  <2>1. /\ \A w \in Workers : node[w] = "none"
        /\ alive /\ num_of_workers = 0
    BY <1>0, <1>1 DEF watch_alive_node, BeforePrompt
  <2>2. alive' /\ child_watch' /\ node' = node /\ num_of_workers' = 0
    BY <1>0, <1>1, <2>1 DEF watch_alive_node, Fails
  <2>3. Registered' = {}
    BY <2>1, <2>2 DEF Registered
  <2>4. num_of_workers' = Cardinality(Registered')
    BY <2>2, <2>3, FS_EmptySet
  <2> QED
    BY <2>1, <2>2, <2>4 DEF CaughtUp
<1>2. ASSUME ~watch_alive_node
      PROVE  ctl \in {"console", "drain"} /\ alive /\ (ChildPending \/ CaughtUp)
  BY <1>0, <1>2 DEF Next, ControllerStep, WatcherStep, WorkerStep, Environment,
     create_barrier_node, create_alive_node, quit, drain, delete_alive_node,
     delete_barrier_node, end_of_input, start_again, take_event, child_event,
     child_done, child_get, changed_event, launch, wait_alive,
     get_num_of_workers, create_my_alive_node, wait_workers, finish,
     delete_my_alive_node, wait_deleted, crash, Expire, AfterPrompt
<1>3. ASSUME UNCHANGED <<zkVars, watcherVars, num_of_workers>>,
             ~watch_alive_node
      PROVE  alive' /\ (ChildPending' \/ CaughtUp')
  BY <1>2, <1>3 DEF ChildPending, ChildQueued, CaughtUp, Registered
<1>4. ASSUME NEW w \in Workers, CreateNode(w) \/ DeleteNode(w),
             wpc' = wpc \/ wpc = "delete", ~watch_alive_node
      PROVE  alive' /\ (ChildPending' \/ CaughtUp')
  <2>0. alive
    BY <1>2, <1>4
  <2>1. alive'
    BY <1>4, <2>0, Zenon DEF CreateNode, DeleteNode
  <2>2. CASE wpc = "children"
    BY <1>4, <2>1, <2>2 DEF ChildPending
  <2>3. CASE wpc # "children"
    <3>1. child_watch \/ ChildQueued
      BY <1>2, <1>4, <2>3 DEF ChildPending, CaughtUp
    <3> QED
      BY <1>0, <1>4, <2>1, <3>1, NodeChangeQueues DEF ChildPending
  <2> QED
    BY <2>2, <2>3
<1>5. CASE take_event
  <2>0. /\ ~watch_alive_node /\ wpc = "idle" /\ events # <<>>
        /\ events' = Tail(events)
        /\ UNCHANGED <<alive, child_watch, node, data_watch, num_of_workers>>
    BY <1>5 DEF take_event, watch_alive_node
  <2>1. alive /\ (ChildQueued \/ CaughtUp)
    BY <1>2, <2>0 DEF ChildPending
  <2>2. CASE Head(events) = CHILD
    BY <1>5, <2>0, <2>1, <2>2 DEF take_event, ChildPending
  <2>3. ASSUME Head(events) # CHILD, ChildQueued PROVE ChildQueued'
    <3>1. events \in Seq(Events) /\ Len(events) \in Nat
      BY <1>0 DEF TypeOK
    <3>2. PICK i \in 1..Len(events) : events[i] = CHILD
      BY <2>3 DEF ChildQueued
    <3>3. i # 1
      BY <2>3, <3>1, <3>2
    <3>4. /\ i - 1 \in 1..Len(events') /\ events'[i - 1] = CHILD
      BY <2>0, <3>1, <3>2, <3>3
    <3> QED
      BY <3>4 DEF ChildQueued
  <2>4. CASE Head(events) # CHILD /\ CaughtUp
    BY <1>5, <2>0, <2>1, <2>4 DEF take_event, CaughtUp, Registered
  <2> QED
    BY <2>0, <2>1, <2>2, <2>3, <2>4 DEF ChildPending
<1>6. CASE child_event
  <2>0. ~watch_alive_node
    BY <1>6 DEF child_event, watch_alive_node
  <2>1. /\ child_watch' /\ alive' /\ node' = node
        /\ wpc' = "get" /\ todo' = Registered
        /\ num_of_workers' = Cardinality(Registered)
    BY <1>0, <1>2, <1>6, <2>0 DEF child_event, Fails
  <2>2. Registered' = Registered
    BY <2>1 DEF Registered
  <2> QED
    BY <2>1, <2>2 DEF CaughtUp, Registered
<1>7. ASSUME NEW w \in Workers, child_get(w)
      PROVE  alive' /\ (ChildPending' \/ CaughtUp')
  <2>0. ~watch_alive_node
    BY <1>7 DEF child_get, watch_alive_node
  <2>1. /\ wpc' = wpc /\ todo' = todo \ {w} /\ wpc = "get"
        /\ data_watch' = data_watch \cup ({w} \cap Registered)
        /\ UNCHANGED <<alive, child_watch, node, events, num_of_workers>>
    BY <1>0, <1>7 DEF child_get, Fails
  <2>2. CASE ChildPending
    BY <1>2, <2>0, <2>1, <2>2 DEF ChildPending, ChildQueued
  <2>3. CASE CaughtUp
    BY <1>2, <2>0, <2>1, <2>3 DEF CaughtUp, Registered
  <2> QED
    BY <1>2, <2>0, <2>2, <2>3
<1>8. CASE child_done
  <2>0. ~watch_alive_node
    BY <1>8 DEF child_done, watch_alive_node
  <2>1. wpc = "get" /\ todo = {} /\ UNCHANGED <<zkVars, num_of_workers>>
    BY <1>8 DEF child_done
  <2> QED
    BY <1>2, <2>0, <2>1 DEF ChildPending, ChildQueued, CaughtUp, Registered
<1>9. ASSUME NEW w \in Workers, changed_event(w)
      PROVE  alive' /\ (ChildPending' \/ CaughtUp')
  <2>0. ~watch_alive_node /\ wpc = "delete" /\ UNCHANGED num_of_workers
    BY <1>9 DEF changed_event, watch_alive_node
  <2>1. CASE DeleteNode(w)
    BY <1>4, <2>0, <2>1
  <2>2. CASE UNCHANGED zkVars
    BY <1>2, <2>0, <2>2 DEF ChildPending, ChildQueued, CaughtUp, Registered
  <2> QED
    BY <1>0, <1>9, <2>1, <2>2 DEF changed_event, Fails
<1>10. ASSUME NEW w \in Workers, WorkerStep(w)
       PROVE  alive' /\ (ChildPending' \/ CaughtUp')
  <2>0. ~watch_alive_node /\ UNCHANGED <<ctl, num_of_workers, wpc, todo>>
    BY <1>10 DEF WorkerStep, wait_alive, get_num_of_workers,
       create_my_alive_node, wait_workers, finish, delete_my_alive_node,
       wait_deleted, watch_alive_node
  <2>1. CASE UNCHANGED zkVars
    BY <1>3, <2>0, <2>1
  <2>2. CASE CreateNode(w) \/ DeleteNode(w)
    BY <1>4, <2>0, <2>2
  <2>3. CASE w \in Registered /\ SetDead(w)
    <3>1. alive' /\ child_watch' = child_watch
      BY <1>2, <2>0, <2>3 DEF SetDead
    <3>2. CASE ChildPending
      BY <1>0, <2>0, <2>3, <3>1, <3>2, SetDeadQueues DEF ChildPending
    <3>3. CASE CaughtUp
      <4>1. Registered' = Registered
        BY <1>0, <2>3 DEF SetDead, Registered, TypeOK
      <4>2. \A v \in Workers : node'[v] = "Alive" =>
                node[v] = "Alive" /\ (v \in data_watch => v \in data_watch')
        BY <1>0, <2>3 DEF SetDead, TypeOK
      <4>3. child_watch'
        BY <3>1, <3>3 DEF CaughtUp
      <4> QED
        BY <2>0, <3>1, <3>3, <4>1, <4>2, <4>3 DEF CaughtUp
    <3> QED
      BY <1>2, <2>0, <3>2, <3>3
  <2> QED
    BY <1>0, <1>10, <2>1, <2>2, <2>3 DEF WorkerStep, wait_alive,
       get_num_of_workers, create_my_alive_node, wait_workers, finish,
       delete_my_alive_node, wait_deleted, Fails
<1>11. CASE ControllerStep \/ Environment
  <2>1. CASE quit
    BY <1>3, <2>1 DEF quit, watch_alive_node
  <2>2. ASSUME NEW w \in Workers, launch(w)
        PROVE  alive' /\ (ChildPending' \/ CaughtUp')
    BY <1>3, <2>2 DEF launch, watch_alive_node
  <2>3. ASSUME NEW w \in Workers, crash(w)
        PROVE  alive' /\ (ChildPending' \/ CaughtUp')
    <3>1. /\ ~watch_alive_node
          /\ UNCHANGED <<alive, node, child_watch, data_watch, events, wpc,
                         todo, num_of_workers>>
      BY <2>3 DEF crash, watch_alive_node
    <3> QED
      BY <1>2, <3>1 DEF ChildPending, ChildQueued, CaughtUp, Registered
  <2>4. ASSUME NEW w \in Workers, Expire(w)
        PROVE  alive' /\ (ChildPending' \/ CaughtUp')
    BY <1>4, <2>4 DEF Expire, watch_alive_node
  <2>5. CASE ControllerStep
    BY <1>1, <2>5 DEF ControllerStep, create_barrier_node, create_alive_node,
       drain, delete_alive_node, delete_barrier_node
  <2> QED
    BY <1>0, <1>11, <2>1, <2>2, <2>3, <2>4, <2>5
       DEF Environment, end_of_input, start_again
<1> QED
  BY <1>5, <1>6, <1>7, <1>8, <1>9, <1>10, <1>11 DEF Next, WatcherStep

\* WatchInv is an invariant of the membership protocol: a watch that fired is
\* never forgotten, however workers register, crash and leave.
THEOREM ControllerCorrect == Spec => []WatchInv
<1>1. WatchInv /\ [Next]_vars => WatchInv'
  <2> SUFFICES ASSUME WatchInv, [Next]_vars PROVE WatchInv'
    OBVIOUS
  <2>1. CASE Next
    BY <2>1, ControllerTypeStep, BeforePromptStep, AfterPromptStep DEF WatchInv
  <2>2. CASE UNCHANGED vars
    BY SMTT(60), <2>2 DEF vars, zkVars, ctlVars, watcherVars, workerVars, bounds,
       WatchInv, TypeOK, Faultless, BeforePrompt, AfterPrompt, Quiet,
       ChildPending, ChildQueued, CaughtUp, Registered
  <2> QED
    BY <2>1, <2>2
<1> QED
  BY WatchInvInit, <1>1, PTL DEF Spec

\* When global_watcher has caught up, the controller watches /alive and every
\* live worker, and quit starts from the right count.
THEOREM ControllerQuietWatches == Spec => []QuietWatches
<1>1. WatchInv => QuietWatches
  <2> SUFFICES ASSUME WatchInv, Faultless, ctl = "console", Quiet
               PROVE  CaughtUp /\ wpc = "idle"
    BY DEF QuietWatches, CaughtUp
  <2>1. ~ChildQueued
    <3>1. Len(events) = 0
      BY DEF Quiet
    <3> QED
      BY <3>1 DEF ChildQueued
  <2> QED
    BY <2>1 DEF WatchInv, AfterPrompt, ChildPending, Quiet
<1> QED
  BY ControllerCorrect, <1>1, PTL

=============================================================================
