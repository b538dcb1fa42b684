--------------------------- MODULE WorkersProofs ---------------------------
(***************************************************************************)
(* Proofs about Workers for every set of workers and every bound: the      *)
(* types, that no worker outlives the Context that spawned it, that no     *)
(* code is replaced or freed under a running worker, that each queue       *)
(* delivers what was posted to it once and in order, and that the failure  *)
(* of a worker reaches the worker that joins it.                           *)
(*                                                                         *)
(* reload looks only at the session's own workers.  That is enough because *)
(* the running workers form a tree: each has a running spawner, and the    *)
(* order of spawning (a rank that grows from spawner to worker) leads from *)
(* any of them to a direct worker of the session.                          *)
(*                                                                         *)
(* The invariant of delivery says where each record is: the queue holds    *)
(* the newest ones, the older ones were taken oldest first.  What it needs *)
(* of the threads is that a trapped worker never goes back to running      *)
(* script.                                                                 *)
(***************************************************************************)
EXTENDS Workers, TLAPS, WellFoundedInduction, FiniteSetTheorems

-----------------------------------------------------------------------------
(* Types. *)

Places == {"none", "host", "init", "run", "asleep", "joining", "dropInbox",
           "dropOutbox", "dropContext", "done"}
Records == Seq(1 .. MaxPosts)
Queues == [messages : Records, closed : BOOLEAN]

\* The part of TypeOK that the queues and their history satisfy.
QueueOK ==
  /\ queue \in [Workers -> [Directions -> Queues]]
  /\ notified \in [Workers -> BOOLEAN]
  /\ sent \in [Workers -> [Directions -> 0 .. MaxPosts]]
  /\ got \in [Workers -> [Directions -> Records]]
  /\ lost \in [Workers -> [Directions -> Records]]

\* The rest of it.
ControlOK ==
  /\ pc \in [Nodes -> Places]
  /\ spawner \in [Workers -> Nodes \cup {None}]
  /\ thread \in [Workers -> {"none", "live", "joined"}]
  /\ ended \in [Workers -> {"none", "clean", "trapped"}]
  /\ joins \in [Nodes -> Workers \cup {None}]
  /\ trapped \in [Nodes -> BOOLEAN]
  /\ table \in [Nodes -> 0 .. MaxReloads]
  /\ modules \subseteq 0 .. MaxReloads

\* Writing the entry of one queue.
LEMMA UpdateType ==
  ASSUME NEW S, NEW f \in [Workers -> [Directions -> S]],
         NEW w \in Workers, NEW d \in Directions, NEW v \in S
  PROVE  [f EXCEPT ![w][d] = v] \in [Workers -> [Directions -> S]]
<1>1. [f[w] EXCEPT ![d] = v] \in [Directions -> S]
  OBVIOUS
<1>2. [f EXCEPT ![w] = [f[w] EXCEPT ![d] = v]] \in [Workers -> [Directions -> S]]
  BY <1>1
<1>. QED BY <1>2

\* The parts of a non-empty sequence.
LEMMA SequenceParts ==
  ASSUME NEW S, NEW s \in Seq(S), s # <<>>
  PROVE  Head(s) \in S /\ Tail(s) \in Seq(S)
OBVIOUS

\* A receive moves the oldest record out of the queue.
LEMMA TakeType ==
  ASSUME QueueOK, NEW w \in Workers, NEW d \in Directions, NEW n, NEW fits \in BOOLEAN,
         Take(w, d, n, fits)
  PROVE  /\ queue' \in [Workers -> [Directions -> Queues]]
         /\ got' \in [Workers -> [Directions -> Records]]
         /\ lost' \in [Workers -> [Directions -> Records]]
<1>0. queue[w][d] \in Queues /\ queue[w][d].messages \in Records
  BY DEF QueueOK, Queues
<1>1. Tail(queue[w][d].messages) \in Records /\ Head(queue[w][d].messages) \in 1 .. MaxPosts
  <2>1. queue[w][d].messages # <<>>
    BY DEF Take
  <2>. QED BY Zenon, <1>0, <2>1, SequenceParts DEF Records
<1> DEFINE q == [queue[w][d] EXCEPT !.messages = Tail(@)]
           g == Append(got[w][d], Head(queue[w][d].messages))
           l == Append(lost[w][d], Head(queue[w][d].messages))
<1>2. q \in Queues
  BY Zenon, <1>0, <1>1 DEF Queues
<1>3. queue' = [queue EXCEPT ![w][d] = q]
  BY DEF Take
<1>4. got[w][d] \in Records /\ lost[w][d] \in Records
  BY DEF QueueOK
<1>5. g \in Records /\ l \in Records
  BY <1>1, <1>4 DEF Records
<1>6. \/ got' = [got EXCEPT ![w][d] = g] /\ lost' = lost
      \/ lost' = [lost EXCEPT ![w][d] = l] /\ got' = got
  BY DEF Take
<1>. HIDE DEF q, g, l
<1>7. queue' \in [Workers -> [Directions -> Queues]]
  BY <1>2, <1>3, UpdateType DEF QueueOK
<1>8. got' \in [Workers -> [Directions -> Records]]
      /\ lost' \in [Workers -> [Directions -> Records]]
  <2>1. /\ got \in [Workers -> [Directions -> Records]]
        /\ lost \in [Workers -> [Directions -> Records]]
    BY DEF QueueOK
  <2>2. /\ [got EXCEPT ![w][d] = g] \in [Workers -> [Directions -> Records]]
        /\ [lost EXCEPT ![w][d] = l] \in [Workers -> [Directions -> Records]]
    BY <1>5, <2>1, UpdateType
  <2>. QED BY Zenon, <1>6, <2>1, <2>2
<1>. QED BY <1>7, <1>8

\* A queue operation of Queue::post, poll, wait or close is well typed.
LEMMA QueueSteps ==
  ASSUME QueueOK, ControlOK, NEW w \in Workers, NEW d \in Directions
  PROVE  /\ sent[w][d] < MaxPosts /\ PostTo(w, d) /\ UNCHANGED <<got, lost>> => QueueOK'
         /\ \A n \in Nodes, fits \in BOOLEAN :
              Take(w, d, n, fits) /\ UNCHANGED <<sent, notified>> => QueueOK'
         /\ CloseQueue(w, d) /\ UNCHANGED <<sent, got, lost>> => QueueOK'
<1>0. /\ queue[w][d] \in Queues /\ queue[w][d].messages \in Records
      /\ sent[w][d] \in 0 .. MaxPosts /\ MaxPosts \in Nat
  BY BoundsAssumption DEF QueueOK, Queues
<1>1. ASSUME sent[w][d] < MaxPosts, PostTo(w, d), UNCHANGED <<got, lost>> PROVE QueueOK'
  <2>1. Append(queue[w][d].messages, sent[w][d] + 1) \in Records
    BY <1>0, <1>1 DEF Records
  <2>2. [queue[w][d] EXCEPT !.messages = Append(@, sent[w][d] + 1)] \in Queues
    BY Zenon, <1>0, <2>1 DEF Queues
  <2> DEFINE q == [queue[w][d] EXCEPT !.messages = Append(@, sent[w][d] + 1)]
  <2>3. queue' = [queue EXCEPT ![w][d] = q]
    BY <1>1 DEF PostTo
  <2>. HIDE DEF q
  <2>4. queue' \in [Workers -> [Directions -> Queues]]
    BY <2>2, <2>3, UpdateType DEF QueueOK, q
  <2>5. sent' \in [Workers -> [Directions -> 0 .. MaxPosts]]
    BY <1>0, <1>1 DEF PostTo, QueueOK
  <2>6. notified' \in [Workers -> BOOLEAN]
    BY <1>1 DEF PostTo, QueueOK
  <2>. QED BY <1>1, <2>4, <2>5, <2>6 DEF QueueOK
<1>2. ASSUME NEW n \in Nodes, NEW fits \in BOOLEAN, Take(w, d, n, fits),
             UNCHANGED <<sent, notified>>
      PROVE  QueueOK'
  BY <1>2, TakeType DEF QueueOK
<1>3. ASSUME CloseQueue(w, d), UNCHANGED <<sent, got, lost>> PROVE QueueOK'
  <2>1. [queue[w][d] EXCEPT !.closed = TRUE] \in Queues
    BY Zenon, <1>0 DEF Queues
  <2>2. queue' \in [Workers -> [Directions -> Queues]]
    BY <1>3, <2>1 DEF QueueOK, CloseQueue
  <2>3. notified' \in [Workers -> BOOLEAN]
    BY <1>3 DEF QueueOK, CloseQueue
  <2>. QED BY <1>3, <2>2, <2>3 DEF QueueOK
<1>. QED BY <1>1, <1>2, <1>3

\* Every step keeps the queues and their history well typed.
LEMMA QueueStep ==
  ASSUME QueueOK, ControlOK, Next
  PROVE  QueueOK'
<1>. USE DEF Directions, history
<1>1. ASSUME NEW n \in Nodes, NEW w \in Workers, Post(n, w) \/ Close(n, w) \/ ShutdownClose(n, w)
      PROVE  QueueOK'
  <2>1. CASE Post(n, w)
    BY <2>1, QueueSteps DEF Post, MayPost
  <2>2. CASE Close(n, w)
    BY <2>2, QueueSteps DEF Close
  <2>3. CASE ShutdownClose(n, w)
    BY <2>3, QueueSteps DEF ShutdownClose
  <2>. QED BY <1>1, <2>1, <2>2, <2>3
<1>2. ASSUME NEW n \in Nodes, NEW w \in Workers, NEW fits \in BOOLEAN, Poll(n, w, fits)
      PROVE  QueueOK'
  BY <1>2, QueueSteps DEF Poll
<1>3. ASSUME NEW w \in Workers, NEW fits \in BOOLEAN, Receive(w, fits) PROVE QueueOK'
  BY <1>3, QueueSteps DEF Receive, Nodes
<1>4. ASSUME NEW w \in Workers, NEW fits \in BOOLEAN, Wake(w, fits) PROVE QueueOK'
  <2>1. /\ notified' = [notified EXCEPT ![w] = FALSE] /\ UNCHANGED sent
        /\ Take(w, "input", w, fits) \/ UNCHANGED <<queue, got, lost>>
    BY <1>4 DEF Wake
  <2>2. notified' \in [Workers -> BOOLEAN]
    BY <2>1 DEF QueueOK
  <2>. QED BY <2>1, <2>2, TakeType DEF QueueOK, Nodes
<1>5. ASSUME NEW w \in Workers, Reply(w) PROVE QueueOK'
  BY <1>5, QueueSteps DEF MayPost, Reply
<1>6. ASSUME NEW w \in Workers, NEW at, NEW d \in Directions, NEW to, DropEndpoint(w, at, d, to)
      PROVE  QueueOK'
  BY <1>6, QueueSteps DEF DropEndpoint
<1>7. ASSUME UNCHANGED <<queue, notified, sent, got, lost>> PROVE QueueOK'
  BY <1>7 DEF QueueOK
<1>8. ASSUME NEW n \in Nodes, OwnerStep(n) PROVE QueueOK'
  BY <1>1, <1>2, <1>7, <1>8 DEF OwnerStep, Fault, Joined, ContextEnd, Spawn, Join, JoinAgain,
                               ShutdownJoin
<1>9. ASSUME NEW w \in Workers, WorkerStep(w) PROVE QueueOK'
  BY <1>3, <1>4, <1>5, <1>6, <1>7, <1>9 DEF WorkerStep, Sleep, EntryEnd, Initialize
<1>10. ASSUME Session PROVE QueueOK'
  BY <1>7, <1>10 DEF Session, HostEnter, HostReturn, Reload, SessionDrop, FreeModules
<1>. QED BY <1>8, <1>9, <1>10 DEF Next

-----------------------------------------------------------------------------
(* The tree of workers. *)

\* A worker that was spawned has a spawner, which was spawned before it.
Spawned ==
  /\ \A w \in Workers : thread[w] = "none" <=> spawner[w] = None
  /\ \A w \in Workers : spawner[w] \in Workers => thread[spawner[w]] # "none"

Ranked ==
  \E rank \in [Workers -> Nat] :
    \A w \in Workers : spawner[w] \in Workers => rank[spawner[w]] < rank[w]

\* A running worker has a thread to join, under a running spawner.
Attached == \A w \in Workers : Running(w) => thread[w] = "live" /\ Running(spawner[w])

\* A join waits for a worker that was spawned.
Joining ==
  \A n \in Nodes : pc[n] = "joining" => joins[n] \in Workers /\ thread[joins[n]] # "none"

\* The session's own code is loaded.
Loaded == pc[Root] # "done" => table[Root] \in modules

Tree == Spawned /\ Ranked /\ Attached /\ Joining /\ Loaded /\ CodeStays

WorkersInv == QueueOK /\ ControlOK /\ Tree

\* Any running worker leads to a running worker of the session: a running
\* worker of the lowest rank was spawned by Root.
LEMMA RunningRoot ==
  ASSUME ControlOK, Spawned, Ranked, Attached, NEW v \in Workers, Running(v)
  PROVE  \E w \in Live(Root) : Running(w)
<1>1. PICK rank \in [Workers -> Nat] :
        \A w \in Workers : spawner[w] \in Workers => rank[spawner[w]] < rank[w]
  BY DEF Ranked
<1> DEFINE ranks == {rank[w] : w \in {u \in Workers : Running(u)}}
           less == OpToRel(<, Nat)
<1>2. ranks \subseteq Nat /\ ranks # {}
  BY <1>1
<1>3. IsWellFoundedOn(less, Nat)
  BY Zenon, NatLessThanWellFounded
<1>4. PICK low \in ranks : \A y \in ranks : ~(<<y, low>> \in less)
  <2>. HIDE DEF ranks, less
  <2>. QED BY Zenon, <1>2, <1>3, WFMin
<1>5. PICK w \in Workers : Running(w) /\ rank[w] = low
  BY Zenon, <1>4
<1>6. spawner[w] = Root
  <2>1. spawner[w] \in Nodes /\ Running(spawner[w])
    BY <1>5 DEF Attached, Spawned, ControlOK
  <2>2. ASSUME spawner[w] \in Workers PROVE FALSE
    <3>1. rank[spawner[w]] \in ranks /\ rank[spawner[w]] < low
      BY <1>1, <1>5, <2>1, <2>2
    <3>2. rank[spawner[w]] \in Nat /\ low \in Nat
      BY Zenon, <1>1, <1>2, <1>4, <2>2
    <3>3. <<rank[spawner[w]], low>> \in less
      BY <3>1, <3>2 DEF OpToRel
    <3>. QED BY Zenon, <1>4, <3>1, <3>3
  <2>. QED BY <2>1, <2>2 DEF Nodes
<1>. QED BY <1>5, <1>6 DEF Live, Children, Attached

\* A step that spawns, loads and frees nothing: threads only go on or end,
\* no Context ends, and a thread is joined only when it is done.
Quiet ==
  /\ UNCHANGED <<spawner, table, modules>>
  /\ \A n \in Nodes : /\ pc'[n] = "none" <=> pc[n] = "none"
                      /\ pc'[n] = "done" <=> pc[n] = "done"
  /\ \A w \in Workers : thread'[w] # thread[w] => ~Running(w) /\ thread[w] # "none"
                                                  /\ thread'[w] # "none"
  /\ \A n \in Nodes : pc'[n] = "joining" =>
       \/ pc[n] = "joining" /\ joins'[n] = joins[n]
       \/ joins'[n] \in Workers /\ thread[joins'[n]] # "none"

\* A quiet step keeps the tree.
LEMMA QuietTree ==
  ASSUME ControlOK, ControlOK', Tree, Quiet
  PROVE  Tree'
<1>1. \A n \in Nodes : Running(n)' <=> Running(n)
  BY DEF Quiet, Running
<1>2. Spawned'
  BY DEF Quiet, Tree, Spawned
<1>3. Ranked'
  BY DEF Quiet, Tree, Ranked
<1>4. Attached'
  <2>1. ASSUME NEW w \in Workers, Running(w)
        PROVE  spawner[w] \in Nodes /\ thread'[w] = "live" /\ Running(spawner[w])
    BY <2>1 DEF Quiet, Tree, Attached, Spawned, ControlOK
  <2>. QED BY <1>1, <2>1 DEF Quiet, Attached, Nodes
<1>5. Loaded'
  BY DEF Quiet, Tree, Loaded, Nodes
<1>6. CodeStays'
  BY <1>1 DEF Quiet, Tree, CodeStays, Nodes
<1>7. Joining'
  BY DEF Quiet, Tree, Joining
<1>. QED BY <1>2, <1>3, <1>4, <1>5, <1>6, <1>7 DEF Tree

\* The threads' own steps are quiet and keep the control types.
LEMMA WorkerStepQuiet ==
  ASSUME ControlOK, NEW w \in Workers, WorkerStep(w)
  PROVE  ControlOK' /\ Quiet
<1>. USE DEF ControlOK, Quiet, Places, Nodes, lifetimes, code, history
<1>1. w \in Nodes /\ pc[w] \in Places
  OBVIOUS
<1>2. CASE Sleep(w)
  BY <1>2 DEF Sleep, Script
<1>3. CASE Reply(w)
  BY <1>3 DEF Reply
<1>4. CASE EntryEnd(w)
  BY <1>4 DEF EntryEnd
<1>5. CASE DropEndpoint(w, "dropInbox", "input", "dropOutbox")
  BY <1>5 DEF DropEndpoint
<1>6. CASE DropEndpoint(w, "dropOutbox", "output", "dropContext")
  BY <1>6 DEF DropEndpoint
<1>7. ASSUME NEW b \in BOOLEAN, Initialize(w, b) PROVE ControlOK' /\ Quiet
  BY <1>7 DEF Initialize
<1>8. ASSUME NEW b \in BOOLEAN, Receive(w, b) PROVE ControlOK' /\ Quiet
  BY <1>8 DEF Receive, Take
<1>9. ASSUME NEW b \in BOOLEAN, Wake(w, b) PROVE ControlOK' /\ Quiet
  <2>1. trapped' \in [Nodes -> BOOLEAN]
    BY Zenon, <1>9 DEF Wake, Take
  <2>. QED BY <1>9, <2>1 DEF Wake
<1>. QED BY <1>2, <1>3, <1>4, <1>5, <1>6, <1>7, <1>8, <1>9 DEF WorkerStep

\* What script does with its workers, other than spawning one, is quiet.
LEMMA OwnerStepQuiet ==
  ASSUME ControlOK, Tree, NEW n \in Nodes,
         \/ Fault(n) \/ Joined(n)
         \/ \E w \in Workers :
              \/ Post(n, w) \/ Close(n, w) \/ Join(n, w) \/ JoinAgain(n, w)
              \/ ShutdownClose(n, w) \/ ShutdownJoin(n, w)
              \/ \E fits \in BOOLEAN : Poll(n, w, fits)
  PROVE  ControlOK' /\ Quiet
<1>. USE DEF ControlOK, Quiet, Places, lifetimes, code, history
<1>0. Workers \subseteq Nodes
  BY DEF Nodes
<1>1. CASE Fault(n)
  BY <1>1 DEF Fault
<1>2. CASE Joined(n)
  <2>1. joins[n] \in Workers /\ pc[joins[n]] = "done" /\ thread[joins[n]] # "none"
    BY <1>2 DEF Joined, Tree, Joining
  <2>. QED BY <1>0, <1>2, <2>1 DEF Joined, Running
<1>3. ASSUME NEW w \in Workers, Post(n, w) \/ Close(n, w) \/ ShutdownClose(n, w)
      PROVE  ControlOK' /\ Quiet
  BY Zenon, <1>3 DEF Post, Close, ShutdownClose
<1>4. ASSUME NEW w \in Workers, Join(n, w) PROVE ControlOK' /\ Quiet
  BY <1>4 DEF Join, Script
<1>5. ASSUME NEW w \in Workers, JoinAgain(n, w) PROVE ControlOK' /\ Quiet
  BY <1>5 DEF JoinAgain
<1>6. ASSUME NEW w \in Workers, ShutdownJoin(n, w) PROVE ControlOK' /\ Quiet
  BY <1>0, <1>6 DEF ShutdownJoin, Live, Running
<1>7. ASSUME NEW w \in Workers, NEW fits \in BOOLEAN, Poll(n, w, fits)
      PROVE  ControlOK' /\ Quiet
  BY Zenon, <1>7 DEF Poll, Take
<1>. QED BY <1>1, <1>2, <1>3, <1>4, <1>5, <1>6, <1>7

\* worker_spawn hangs a new leaf under the spawner, on the spawner's code.
LEMMA SpawnTree ==
  ASSUME ControlOK, Tree, NEW n \in Nodes, NEW w \in Workers, Spawn(n, w)
  PROVE  ControlOK' /\ Tree'
<1>. USE DEF ControlOK, Nodes
<1>1. /\ pc[n] = "run" /\ thread[w] = "none" /\ spawner[w] = None /\ ~Running(w) /\ n # w
      /\ \A v \in Workers : spawner[v] # w
  BY DEF Spawn, Script, Tree, Spawned, Attached, Running
<1>2. /\ spawner' = [spawner EXCEPT ![w] = n]
      /\ thread' = [thread EXCEPT ![w] = "live"]
      /\ pc' = [pc EXCEPT ![w] = "init"]
      /\ table' = [table EXCEPT ![w] = table[n]]
      /\ UNCHANGED <<ended, joins, trapped, modules>>
  BY DEF Spawn
<1>3. ControlOK'
  BY <1>2 DEF Places
<1>4. w # Root /\ None \notin Nodes /\ Running(n)
  BY <1>1, RootAssumption DEF Running
<1>5. Spawned'
  BY <1>1, <1>2, <1>4 DEF Tree, Spawned, Attached, Running
<1>6. Ranked'
  <2>1. PICK rank \in [Workers -> Nat] :
          \A v \in Workers : spawner[v] \in Workers => rank[spawner[v]] < rank[v]
    BY DEF Tree, Ranked
  <2> DEFINE above == IF n \in Workers THEN rank[n] + 1 ELSE 0
             r == [rank EXCEPT ![w] = above]
  <2>2. above \in Nat /\ r \in [Workers -> Nat]
    BY <2>1
  <2>3. ASSUME NEW v \in Workers, spawner'[v] \in Workers PROVE r[spawner'[v]] < r[v]
    <3>1. CASE v = w
      BY <1>1, <1>2, <2>1, <2>2, <2>3, <3>1
    <3>2. CASE v # w
      <4>1. spawner'[v] = spawner[v] /\ spawner[v] # w
        BY <1>1, <1>2, <3>2
      <4>. QED BY <2>1, <2>2, <2>3, <3>2, <4>1
    <3>. QED BY <3>1, <3>2
  <2>. HIDE DEF r
  <2>. QED BY <2>2, <2>3 DEF Ranked
<1>7. \A v \in Nodes : Running(v)' <=> (v = w \/ Running(v))
  BY <1>2 DEF Running
<1>8. Attached'
  <2>1. ASSUME NEW v \in Workers, v # w, Running(v)
        PROVE  thread[v] = "live" /\ spawner[v] \in Nodes /\ Running(spawner[v])
    BY <2>1, <1>4 DEF Tree, Attached, Spawned
  <2>. QED BY <1>1, <1>2, <1>4, <1>7, <2>1 DEF Attached
<1>9. Joining'
  BY <1>2 DEF Tree, Joining
<1>10. Loaded'
  BY <1>2, <1>4 DEF Tree, Loaded
<1>11. CodeStays'
  <2>1. table[n] = table[Root] /\ table[n] \in modules
    BY <1>4 DEF Tree, CodeStays, Loaded, Running
  <2>. QED BY <1>2, <1>4, <1>7, <2>1 DEF Tree, CodeStays
<1>. QED BY <1>3, <1>5, <1>6, <1>8, <1>9, <1>10, <1>11 DEF Tree

\* A Context ends after WorkerSet::shutdown joined its workers.
LEMMA ContextEndTree ==
  ASSUME ControlOK, Tree, NEW n \in Nodes, ContextEnd(n)
  PROVE  ControlOK' /\ Tree'
<1>. USE DEF ControlOK, Nodes
<1>1. /\ pc[n] = "dropContext" /\ Live(n) = {} /\ pc' = [pc EXCEPT ![n] = "done"]
      /\ UNCHANGED <<spawner, thread, ended, joins, trapped, table, modules>>
  BY DEF ContextEnd, lifetimes, code
<1>2. ControlOK'
  BY <1>1 DEF Places
<1>3. \A v \in Nodes : Running(v)' <=> (v # n /\ Running(v))
  BY <1>1 DEF Running
<1>4. \A v \in Workers : Running(v) => spawner[v] # n /\ spawner[v] \in Nodes
  BY <1>1 DEF Tree, Attached, Spawned, Live, Children
<1>5. Attached'
  BY <1>1, <1>3, <1>4 DEF Tree, Attached
<1>6. Spawned' /\ Ranked' /\ Joining'
  BY <1>1 DEF Tree, Spawned, Ranked, Joining
<1>7. Loaded'
  BY <1>1 DEF Tree, Loaded
<1>8. CodeStays'
  BY <1>1, <1>3 DEF Tree, CodeStays
<1>. QED BY <1>2, <1>5, <1>6, <1>7, <1>8 DEF Tree

\* The session's steps: no worker runs when code is replaced or freed.
LEMMA SessionTree ==
  ASSUME ControlOK, Tree, Session
  PROVE  ControlOK' /\ Tree'
<1>. USE DEF ControlOK
<1>1. ASSUME HostEnter \/ HostReturn \/ SessionDrop PROVE ControlOK' /\ Tree'
  <2>1. ControlOK' /\ Quiet
    BY Zenon, <1>1 DEF HostEnter, HostReturn, SessionDrop, Quiet, Places, Nodes, lifetimes, code
  <2>. QED BY <2>1, QuietTree
<1>2. CASE Reload
  <2> DEFINE new == Cardinality(modules)
  <2>1. /\ Live(Root) = {} /\ new <= MaxReloads
        /\ modules' = modules \cup {new} /\ table' = [table EXCEPT ![Root] = new]
        /\ UNCHANGED <<pc, spawner, thread, ended, joins, trapped>>
    BY <1>2 DEF Reload, lifetimes
  <2>2. \A w \in Workers : ~Running(w)
    BY <2>1, RunningRoot DEF Tree
  <2>3. new \in 0 .. MaxReloads
    <3>1. IsFiniteSet(0 .. MaxReloads)
      BY BoundsAssumption, FS_Interval
    <3>2. new \in Nat
      BY Zenon, <3>1, FS_Subset, FS_CardinalityType
    <3>. QED BY <2>1, <3>2, BoundsAssumption
  <2>. HIDE DEF new
  <2>4. ControlOK'
    BY <2>1, <2>3 DEF Nodes
  <2>5. CodeStays' /\ Attached'
    BY <2>1, <2>2 DEF CodeStays, Attached, Running
  <2>6. Spawned' /\ Ranked' /\ Joining'
    BY <2>1 DEF Tree, Spawned, Ranked, Joining
  <2>7. Loaded'
    BY <2>1 DEF Loaded, Nodes
  <2>. QED BY <2>4, <2>5, <2>6, <2>7 DEF Tree
<1>3. CASE FreeModules
  <2>1. /\ pc[Root] = "done" /\ modules' = {}
        /\ UNCHANGED <<pc, spawner, thread, ended, joins, trapped, table>>
    BY <1>3 DEF FreeModules, lifetimes
  <2>2. ASSUME NEW v \in Workers, Running(v) PROVE FALSE
    <3>1. PICK w \in Live(Root) : Running(w)
      BY <2>2, RunningRoot DEF Tree
    <3>. QED BY <2>1, <3>1 DEF Tree, Attached, Live, Children, Running
  <2>3. CodeStays' /\ Attached'
    BY <2>1, <2>2 DEF CodeStays, Attached, Running
  <2>4. Spawned' /\ Ranked' /\ Joining' /\ Loaded'
    BY <2>1 DEF Tree, Spawned, Ranked, Joining, Loaded
  <2>. QED BY <2>1, <2>3, <2>4 DEF Tree
<1>. QED BY <1>1, <1>2, <1>3 DEF Session

\* The invariant holds at the start and every step keeps it.
LEMMA WorkersInvInductive ==
  /\ Init => WorkersInv
  /\ WorkersInv /\ [Next]_vars => WorkersInv'
<1>1. Init => WorkersInv
  <2>. SUFFICES ASSUME Init PROVE WorkersInv
    OBVIOUS
  <2>1. Empty \in Queues /\ <<>> \in Records
    BY DEF Empty, Queues, Records
  <2>2. QueueOK
    BY <2>1, BoundsAssumption DEF Init, QueueOK
  <2>3. ControlOK
    BY BoundsAssumption DEF Init, ControlOK, Places, Nodes
  <2>4. \A w \in Workers : ~Running(w) /\ spawner[w] = None /\ thread[w] = "none"
    BY RootAssumption DEF Init, Running, Nodes
  <2>5. Spawned /\ Attached
    BY <2>4, RootAssumption DEF Spawned, Attached
  <2>6. Ranked
    <3>1. [w \in Workers |-> 0] \in [Workers -> Nat]
      OBVIOUS
    <3>. QED BY Zenon, <2>4, <3>1, RootAssumption DEF Ranked
  <2>7. Joining /\ Loaded
    BY BoundsAssumption DEF Init, Joining, Loaded, Nodes
  <2>8. CodeStays
    BY <2>4 DEF CodeStays
  <2>. QED BY <2>2, <2>3, <2>5, <2>6, <2>7, <2>8 DEF WorkersInv, Tree
<1>2. ASSUME WorkersInv, [Next]_vars PROVE WorkersInv'
  <2>0. QueueOK /\ ControlOK /\ Tree
    BY <1>2 DEF WorkersInv
  <2>1. CASE UNCHANGED vars
    <3>1. QueueOK' /\ ControlOK'
      BY <2>0, <2>1 DEF vars, QueueOK, ControlOK
    <3>2. Quiet
      BY <2>1 DEF vars, Quiet
    <3>. QED BY <2>0, <3>1, <3>2, QuietTree DEF WorkersInv
  <2>2. CASE Next
    <3>1. QueueOK'
      BY <2>0, <2>2, QueueStep
    <3>2. ASSUME NEW n \in Nodes, OwnerStep(n) PROVE ControlOK' /\ Tree'
      <4>1. ASSUME NEW w \in Workers, Spawn(n, w) PROVE ControlOK' /\ Tree'
        BY <2>0, <4>1, SpawnTree
      <4>2. CASE ContextEnd(n)
        BY <2>0, <4>2, ContextEndTree
      <4>3. CASE /\ ~ContextEnd(n)
                 /\ \A w \in Workers : ~Spawn(n, w)
        <5>1. ControlOK' /\ Quiet
          BY <2>0, <3>2, <4>3, OwnerStepQuiet DEF OwnerStep
        <5>. QED BY <2>0, <5>1, QuietTree
      <4>. QED BY <4>1, <4>2, <4>3
    <3>3. ASSUME NEW w \in Workers, WorkerStep(w) PROVE ControlOK' /\ Tree'
      BY <2>0, <3>3, WorkerStepQuiet, QuietTree
    <3>4. ASSUME Session PROVE ControlOK' /\ Tree'
      BY <2>0, <3>4, SessionTree
    <3>. QED BY <2>2, <3>1, <3>2, <3>3, <3>4 DEF Next, WorkersInv
  <2>. QED BY <1>2, <2>1, <2>2
<1>. QED BY <1>1, <1>2

\* The variables keep their types (worker.rs, lifecycle.rs, reload.rs).
THEOREM WorkersTypeCorrect == Spec => []TypeOK
<1>1. WorkersInv => TypeOK
  BY DEF WorkersInv, QueueOK, ControlOK, TypeOK, Queues, Records, Places
<1>. QED BY <1>1, WorkersInvInductive, PTL DEF Spec

\* A worker never outlives the Context that spawned it (WorkerSet::shutdown
\* in the drop of a Context).
THEOREM NoWorkerIsOrphaned == Spec => []NoOrphan
<1>1. WorkersInv => NoOrphan
  BY DEF WorkersInv, Tree, Attached, NoOrphan, Running
<1>. QED BY <1>1, WorkersInvInductive, PTL DEF Spec

\* No code is replaced or freed under a running worker of any depth, although
\* ReloadSession::reload looks only at the workers of the session's Context.
THEOREM CodeStaysLoaded == Spec => []CodeStays
<1>1. WorkersInv => CodeStays
  BY DEF WorkersInv, Tree
<1>. QED BY <1>1, WorkersInvInductive, PTL DEF Spec

-----------------------------------------------------------------------------
(* Records. *)

\* A queue q of which s records were posted, g received and l dropped: the
\* queue holds the newest records in order, and each older one was taken once,
\* oldest first.
Ordered(q, g, l, s) ==
  /\ s - Len(q) \in Nat
  /\ \A i \in 1 .. Len(q) : q[i] = s - Len(q) + i
  /\ \A i \in 1 .. Len(g) : g[i] <= s - Len(q)
  /\ \A i \in 1 .. Len(l) : l[i] <= s - Len(q)
  /\ \A i, j \in 1 .. Len(g) : i < j => g[i] < g[j]
  /\ \A i, j \in 1 .. Len(l) : i < j => l[i] < l[j]
  /\ \A i \in 1 .. Len(g), j \in 1 .. Len(l) : g[i] # l[j]
  /\ \A m \in 1 .. s - Len(q) : \/ \E i \in 1 .. Len(g) : g[i] = m
                                \/ \E i \in 1 .. Len(l) : l[i] = m

\* Queue::post appends the next record.
LEMMA OrderedPost ==
  ASSUME NEW q \in Seq(Nat), NEW g \in Seq(Nat), NEW l \in Seq(Nat), NEW s \in Nat,
         Ordered(q, g, l, s)
  PROVE  Ordered(Append(q, s + 1), g, l, s + 1)
<1>1. /\ Len(Append(q, s + 1)) = Len(q) + 1 /\ Len(q) \in Nat
      /\ \A i \in 1 .. Len(q) : Append(q, s + 1)[i] = q[i]
      /\ Append(q, s + 1)[Len(q) + 1] = s + 1
  OBVIOUS
<1>2. (s + 1) - (Len(q) + 1) = s - Len(q)
  BY <1>1
<1>3. \A i \in 1 .. Len(q) + 1 : Append(q, s + 1)[i] = s - Len(q) + i
  BY <1>1 DEF Ordered
<1>. QED BY Zenon, <1>1, <1>2, <1>3 DEF Ordered

\* An increasing sequence t of records up to k has grown by record k + 1.
Grown(t, a, k) ==
  /\ \A i \in 1 .. Len(a) : a[i] <= k + 1
  /\ \A i, j \in 1 .. Len(a) : i < j => a[i] < a[j]
  /\ \A i \in 1 .. Len(a) : a[i] = k + 1 \/ \E j \in 1 .. Len(t) : a[i] = t[j]
  /\ \A j \in 1 .. Len(t) : \E i \in 1 .. Len(a) : a[i] = t[j]
  /\ \E i \in 1 .. Len(a) : a[i] = k + 1

\* Appending the next record grows a sequence of taken ones.
LEMMA GrownAppend ==
  ASSUME NEW t \in Seq(Nat), NEW k \in Nat, \A i \in 1 .. Len(t) : t[i] <= k,
         \A i, j \in 1 .. Len(t) : i < j => t[i] < t[j]
  PROVE  Grown(t, Append(t, k + 1), k)
<1> DEFINE a == Append(t, k + 1)
<1>1. /\ Len(a) = Len(t) + 1 /\ Len(t) \in Nat /\ a[Len(t) + 1] = k + 1
      /\ \A i \in 1 .. Len(t) : a[i] = t[i] /\ t[i] \in Nat
  OBVIOUS
<1>. HIDE DEF a
<1>2. \A i \in 1 .. Len(a) : i \in 1 .. Len(t) \/ i = Len(t) + 1
  BY <1>1
<1>3. \A i \in 1 .. Len(t) : i \in 1 .. Len(a) /\ Len(t) + 1 \in 1 .. Len(a)
  BY <1>1
<1>4. Len(t) + 1 \in 1 .. Len(a)
  BY <1>1
<1>5. \A i, j \in 1 .. Len(a) : i < j => a[i] < a[j]
  <2>1. TAKE i, j \in 1 .. Len(a)
  <2>2. HAVE i < j
  <2>3. i \in 1 .. Len(t)
    BY <1>1, <2>2
  <2>. QED BY <1>1, <1>2, <2>2, <2>3
<1>6. Grown(t, a, k)
  BY <1>1, <1>2, <1>3, <1>4, <1>5 DEF Grown
<1>. QED BY <1>6 DEF a

\* Queue::poll and Queue::wait take the oldest record, which is received or
\* dropped.
LEMMA OrderedTake ==
  ASSUME NEW q \in Seq(Nat), NEW g \in Seq(Nat), NEW l \in Seq(Nat), NEW s \in Nat,
         Ordered(q, g, l, s), q # <<>>
  PROVE  /\ Ordered(Tail(q), Append(g, Head(q)), l, s)
         /\ Ordered(Tail(q), g, Append(l, Head(q)), s)
         /\ \A i \in 1 .. Len(g) : g[i] < Head(q)
<1> DEFINE out == s - Len(q)
<1>1. /\ Len(Tail(q)) = Len(q) - 1 /\ Len(q) \in Nat \ {0} /\ Head(q) = q[1]
      /\ \A i \in 1 .. Len(q) - 1 : Tail(q)[i] = q[i + 1]
  OBVIOUS
<1>2. s - (Len(q) - 1) = out + 1 /\ out \in Nat /\ Head(q) = out + 1 /\ Head(q) \in Nat
  BY <1>1 DEF Ordered
<1>3. \A i \in 1 .. Len(Tail(q)) : Tail(q)[i] = out + 1 + i
  BY <1>1, <1>2 DEF Ordered
<1>4. /\ \A i \in 1 .. Len(g) : g[i] <= out
      /\ \A i \in 1 .. Len(l) : l[i] <= out
      /\ \A i, j \in 1 .. Len(g) : i < j => g[i] < g[j]
      /\ \A i, j \in 1 .. Len(l) : i < j => l[i] < l[j]
      /\ \A i \in 1 .. Len(g), j \in 1 .. Len(l) : g[i] # l[j]
      /\ \A m \in 1 .. out : \/ \E i \in 1 .. Len(g) : g[i] = m
                            \/ \E i \in 1 .. Len(l) : l[i] = m
  BY DEF Ordered
<1>5. \A t \in Seq(Nat) : Len(t) \in Nat /\ \A i \in 1 .. Len(t) : t[i] \in Nat
  OBVIOUS
<1>. HIDE DEF out
<1>6. Ordered(Tail(q), Append(g, Head(q)), l, s)
  <2> DEFINE a == Append(g, Head(q))
  <2>1. Grown(g, a, out)
    BY Zenon, <1>2, <1>4, GrownAppend
  <2>. HIDE DEF a
  <2>2. \A i \in 1 .. Len(a), j \in 1 .. Len(l) : a[i] # l[j]
    <3>1. TAKE i \in 1 .. Len(a), j \in 1 .. Len(l)
    <3>2. CASE a[i] = out + 1
      <4>1. l[j] \in Nat /\ l[j] <= out
        BY <1>4, <1>5
      <4>. QED BY <1>2, <3>2, <4>1
    <3>3. CASE \E h \in 1 .. Len(g) : a[i] = g[h]
      BY <1>4, <3>3
    <3>. QED BY <2>1, <3>2, <3>3 DEF Grown
  <2>3. \A m \in 1 .. out + 1 : \/ \E i \in 1 .. Len(a) : a[i] = m
                                \/ \E i \in 1 .. Len(l) : l[i] = m
    <3>1. TAKE m \in 1 .. out + 1
    <3>2. m = out + 1 \/ m \in 1 .. out
      BY <1>2
    <3>3. CASE m = out + 1
      BY Zenon, <2>1, <3>3 DEF Grown
    <3>4. CASE m \in 1 .. out
      <4>1. (\E i \in 1 .. Len(g) : g[i] = m) \/ \E i \in 1 .. Len(l) : l[i] = m
        BY Zenon, <1>4, <3>4
      <4>2. \A h \in 1 .. Len(g) : \E i \in 1 .. Len(a) : a[i] = g[h]
        BY Zenon, <2>1 DEF Grown
      <4>. QED BY Zenon, <4>1, <4>2
    <3>. QED BY <3>2, <3>3, <3>4
  <2>4. \A i \in 1 .. Len(l) : l[i] <= out + 1
    BY <1>2, <1>4, <1>5
  <2>5. /\ \A i \in 1 .. Len(a) : a[i] <= out + 1
        /\ \A i, j \in 1 .. Len(a) : i < j => a[i] < a[j]
    BY Zenon, <2>1 DEF Grown
  <2>6. s - Len(Tail(q)) = out + 1 /\ out + 1 \in Nat
    BY <1>1, <1>2
  <2>. QED BY Zenon, <1>3, <1>4, <2>2, <2>3, <2>4, <2>5, <2>6 DEF Ordered, a
<1>7. Ordered(Tail(q), g, Append(l, Head(q)), s)
  <2> DEFINE a == Append(l, Head(q))
  <2>1. Grown(l, a, out)
    BY Zenon, <1>2, <1>4, GrownAppend
  <2>. HIDE DEF a
  <2>2. \A i \in 1 .. Len(g), j \in 1 .. Len(a) : g[i] # a[j]
    <3>1. TAKE i \in 1 .. Len(g), j \in 1 .. Len(a)
    <3>2. CASE a[j] = out + 1
      <4>1. g[i] \in Nat /\ g[i] <= out
        BY <1>4, <1>5
      <4>. QED BY <1>2, <3>2, <4>1
    <3>3. CASE \E h \in 1 .. Len(l) : a[j] = l[h]
      BY <1>4, <3>3
    <3>. QED BY <2>1, <3>2, <3>3 DEF Grown
  <2>3. \A m \in 1 .. out + 1 : \/ \E i \in 1 .. Len(g) : g[i] = m
                                \/ \E i \in 1 .. Len(a) : a[i] = m
    <3>1. TAKE m \in 1 .. out + 1
    <3>2. m = out + 1 \/ m \in 1 .. out
      BY <1>2
    <3>3. CASE m = out + 1
      BY Zenon, <2>1, <3>3 DEF Grown
    <3>4. CASE m \in 1 .. out
      <4>1. (\E i \in 1 .. Len(l) : l[i] = m) \/ \E i \in 1 .. Len(g) : g[i] = m
        BY Zenon, <1>4, <3>4
      <4>2. \A h \in 1 .. Len(l) : \E i \in 1 .. Len(a) : a[i] = l[h]
        BY Zenon, <2>1 DEF Grown
      <4>. QED BY Zenon, <4>1, <4>2
    <3>. QED BY <3>2, <3>3, <3>4
  <2>4. \A i \in 1 .. Len(g) : g[i] <= out + 1
    BY <1>2, <1>4, <1>5
  <2>5. /\ \A i \in 1 .. Len(a) : a[i] <= out + 1
        /\ \A i, j \in 1 .. Len(a) : i < j => a[i] < a[j]
    BY Zenon, <2>1 DEF Grown
  <2>6. s - Len(Tail(q)) = out + 1 /\ out + 1 \in Nat
    BY <1>1, <1>2
  <2>. QED BY Zenon, <1>3, <1>4, <2>2, <2>3, <2>4, <2>5, <2>6 DEF Ordered, a
<1>8. \A i \in 1 .. Len(g) : g[i] < Head(q)
  BY <1>2, <1>4, <1>5
<1>. QED BY <1>6, <1>7, <1>8

\* A sequence without repetitions has a value in one place, or in none.
LEMMA CountOnce ==
  ASSUME NEW t \in Seq(Nat), NEW m,
         \A i, j \in 1 .. Len(t) : i < j => t[i] < t[j]
  PROVE  Cardinality({i \in DOMAIN t : t[i] = m})
           = IF \E i \in 1 .. Len(t) : t[i] = m THEN 1 ELSE 0
<1> DEFINE at == {i \in DOMAIN t : t[i] = m}
<1>1. DOMAIN t = 1 .. Len(t) /\ Len(t) \in Nat /\ \A i \in 1 .. Len(t) : t[i] \in Nat
  OBVIOUS
<1>2. CASE \E i \in 1 .. Len(t) : t[i] = m
  <2>1. PICK i \in 1 .. Len(t) : t[i] = m
    BY <1>2
  <2>2. at = {i}
    BY <1>1, <2>1
  <2>3. Cardinality(at) = 1
    BY Zenon, <2>2, FS_Singleton
  <2>. QED BY <1>2, <2>3
<1>3. CASE ~\E i \in 1 .. Len(t) : t[i] = m
  <2>1. at = {}
    BY <1>1, <1>3
  <2>2. Cardinality(at) = 0
    BY Zenon, <2>1, FS_EmptySet
  <2>. QED BY <1>3, <2>2
<1>. QED BY <1>2, <1>3

\* Each record is in one place: received, dropped or queued.
LEMMA OrderedCounts ==
  ASSUME NEW q \in Seq(Nat), NEW g \in Seq(Nat), NEW l \in Seq(Nat), NEW s \in Nat,
         Ordered(q, g, l, s), NEW m \in 1 .. s
  PROVE  Cardinality({i \in DOMAIN g : g[i] = m}) + Cardinality({i \in DOMAIN l : l[i] = m})
           + Cardinality({i \in DOMAIN q : q[i] = m}) = 1
<1>1. Len(q) \in Nat /\ s - Len(q) \in Nat /\ \A i \in 1 .. Len(q) : q[i] = s - Len(q) + i
  BY DEF Ordered
<1>2. \A i, j \in 1 .. Len(q) : i < j => q[i] < q[j]
  BY <1>1
<1>3. /\ \A i, j \in 1 .. Len(g) : i < j => g[i] < g[j]
      /\ \A i, j \in 1 .. Len(l) : i < j => l[i] < l[j]
  BY DEF Ordered
<1>4. (\E i \in 1 .. Len(q) : q[i] = m) <=> m > s - Len(q)
  <2>1. ASSUME m > s - Len(q) PROVE \E i \in 1 .. Len(q) : q[i] = m
    <3>1. m - (s - Len(q)) \in 1 .. Len(q)
      BY <1>1, <2>1
    <3>2. q[m - (s - Len(q))] = m
      BY <1>1, <3>1
    <3>. QED BY <3>1, <3>2
  <2>. QED BY <1>1, <2>1
<1>5. \A i \in 1 .. Len(g) : g[i] = m => m <= s - Len(q)
  BY DEF Ordered
<1>6. \A i \in 1 .. Len(l) : l[i] = m => m <= s - Len(q)
  BY DEF Ordered
<1>7. m <= s - Len(q) => (\E i \in 1 .. Len(g) : g[i] = m) \/ (\E i \in 1 .. Len(l) : l[i] = m)
  <2>1. HAVE m <= s - Len(q)
  <2>2. m \in 1 .. s - Len(q)
    BY <1>1, <2>1
  <2>. QED BY Zenon, <2>2 DEF Ordered
<1>8. ~((\E i \in 1 .. Len(g) : g[i] = m) /\ (\E i \in 1 .. Len(l) : l[i] = m))
  BY DEF Ordered
<1>9. Cardinality({i \in DOMAIN g : g[i] = m}) = IF \E i \in 1 .. Len(g) : g[i] = m THEN 1 ELSE 0
  BY Zenon, <1>3, CountOnce
<1>10. Cardinality({i \in DOMAIN l : l[i] = m}) = IF \E i \in 1 .. Len(l) : l[i] = m THEN 1 ELSE 0
  BY Zenon, <1>3, CountOnce
<1>11. Cardinality({i \in DOMAIN q : q[i] = m}) = IF \E i \in 1 .. Len(q) : q[i] = m THEN 1 ELSE 0
  BY Zenon, <1>2, CountOnce
<1>. QED BY <1>1, <1>4, <1>5, <1>6, <1>7, <1>8, <1>9, <1>10, <1>11


-----------------------------------------------------------------------------
(* Traps. *)

Ends == {"dropInbox", "dropOutbox", "dropContext", "done"}

\* A thread blocks untrapped, joins a worker of its own, has workers only once
\* its script runs, and has an outcome only once its entry returned.
Phases ==
  /\ \A n \in Nodes : pc[n] \in {"asleep", "joining"} => ~trapped[n]
  /\ \A n \in Nodes : pc[n] = "joining" => spawner[joins[n]] = n
  /\ \A w \in Workers : pc[w] = "none" <=> thread[w] = "none"
  /\ \A w, v \in Workers : pc[w] \in {"none", "init"} => spawner[v] # w
  /\ \A w \in Workers : ended[w] # "none" => pc[w] \in Ends

\* Nothing goes back: a worker's trap word is never cleared once its script
\* runs, a worker is spawned once, and it starts once.
Forward ==
  \A n \in Workers :
    /\ trapped[n] /\ pc[n] # "init" => trapped'[n]
    /\ spawner'[n] # spawner[n] => pc[n] = "none"
    /\ pc'[n] = "none" => pc[n] = "none"
    /\ pc'[n] = "init" => pc[n] \in {"none", "init"}

\* What script does with its workers.
LEMMA OwnerPhases ==
  ASSUME WorkersInv, Phases, NEW n \in Nodes, OwnerStep(n)
  PROVE  Phases' /\ Forward
<1>. USE DEF Phases, Forward, Nodes, lifetimes, code, history
<1>0. /\ ControlOK /\ Tree /\ Root \notin Workers /\ None \notin Nodes
      /\ pc \in [Nodes -> Places] /\ trapped \in [Nodes -> BOOLEAN]
      /\ thread \in [Workers -> {"none", "live", "joined"}]
      /\ joins \in [Nodes -> Workers \cup {None}]
      /\ spawner \in [Workers -> Nodes \cup {None}]
  BY RootAssumption DEF WorkersInv, ControlOK
<1>1. CASE Fault(n)
  BY <1>0, <1>1 DEF Fault, Script
<1>2. CASE Joined(n)
  <2>1. joins[n] \in Workers /\ thread[joins[n]] # "none"
    BY <1>0, <1>2 DEF Joined, Tree, Joining
  <2>. QED BY <1>0, <1>2, <2>1 DEF Joined, Ends
<1>3. CASE ContextEnd(n)
  BY <1>0, <1>3 DEF ContextEnd, Ends
<1>4. ASSUME NEW w \in Workers, Spawn(n, w) PROVE Phases' /\ Forward
  <2>1. /\ pc[n] = "run" /\ thread[w] = "none" /\ pc[w] = "none" /\ n # w
        /\ spawner[w] = None /\ ended[w] = "none"
    BY <1>0, <1>4 DEF Spawn, Script, Tree, Spawned, Ends
  <2>2. \A m \in Nodes : pc[m] = "joining" => joins[m] # w
    BY <1>0, <2>1 DEF Tree, Joining
  <2>3. /\ spawner' = [spawner EXCEPT ![w] = n] /\ thread' = [thread EXCEPT ![w] = "live"]
        /\ pc' = [pc EXCEPT ![w] = "init"] /\ UNCHANGED <<ended, joins, trapped>>
    BY <1>4 DEF Spawn
  <2>4. \A m \in Nodes : pc'[m] \in {"asleep", "joining"} => ~trapped'[m]
    BY <1>0, <2>3
  <2>5. \A m \in Nodes : pc'[m] = "joining" => spawner'[joins'[m]] = m
    BY <1>0, <2>1, <2>2, <2>3 DEF Tree, Joining
  <2>6. \A u \in Workers : pc'[u] = "none" <=> thread'[u] = "none"
    BY <1>0, <2>3
  <2>7. \A u, v \in Workers : pc'[u] \in {"none", "init"} => spawner'[v] # u
    BY <1>0, <2>1, <2>3
  <2>8. \A u \in Workers : ended'[u] # "none" => pc'[u] \in Ends
    BY <1>0, <2>1, <2>3
  <2>9. Forward
    BY <1>0, <2>1, <2>3
  <2>. QED BY Zenon, <2>4, <2>5, <2>6, <2>7, <2>8, <2>9
<1>5. ASSUME NEW w \in Workers, Post(n, w) \/ Close(n, w) \/ ShutdownClose(n, w)
      PROVE  Phases' /\ Forward
  <2>1. UNCHANGED <<pc, spawner, thread, ended, joins, trapped>>
    BY Zenon, <1>5 DEF Post, Close, ShutdownClose
  <2>. QED BY <2>1
<1>6. ASSUME NEW w \in Workers, Join(n, w) PROVE Phases' /\ Forward
  BY <1>0, <1>6 DEF Join, Script, Children, Ends
<1>7. ASSUME NEW w \in Workers, JoinAgain(n, w) PROVE Phases' /\ Forward
  BY Zenon, <1>0, <1>7 DEF JoinAgain, Script
<1>8. ASSUME NEW w \in Workers, ShutdownJoin(n, w) PROVE Phases' /\ Forward
  BY Zenon, <1>0, <1>8 DEF ShutdownJoin
<1>9. ASSUME NEW w \in Workers, NEW fits \in BOOLEAN, Poll(n, w, fits)
      PROVE  Phases' /\ Forward
  BY <1>0, <1>9 DEF Poll, Script, Take
<1>. QED BY Zenon, <1>1, <1>2, <1>3, <1>4, <1>5, <1>6, <1>7, <1>8, <1>9 DEF OwnerStep

\* What the worker's own thread does.
LEMMA WorkerPhases ==
  ASSUME WorkersInv, Phases, NEW w \in Workers, WorkerStep(w)
  PROVE  Phases' /\ Forward
<1>. USE DEF Phases, Forward, Nodes, lifetimes, code, history
<1>0. /\ Root \notin Workers /\ pc \in [Nodes -> Places] /\ trapped \in [Nodes -> BOOLEAN]
      /\ ended \in [Workers -> {"none", "clean", "trapped"}]
  BY RootAssumption DEF WorkersInv, ControlOK
<1>1. CASE Sleep(w)
  BY Zenon, <1>0, <1>1 DEF Sleep, Script, Ends
<1>2. CASE Reply(w)
  BY Zenon, <1>2 DEF Reply
<1>3. CASE EntryEnd(w)
  BY Zenon, <1>0, <1>3 DEF EntryEnd, Ends
<1>4. CASE DropEndpoint(w, "dropInbox", "input", "dropOutbox")
  BY <1>0, <1>4 DEF DropEndpoint, Ends
<1>5. CASE DropEndpoint(w, "dropOutbox", "output", "dropContext")
  BY <1>0, <1>5 DEF DropEndpoint, Ends
<1>6. ASSUME NEW b \in BOOLEAN, Initialize(w, b) PROVE Phases' /\ Forward
  BY <1>0, <1>6 DEF Initialize, Ends
<1>7. ASSUME NEW b \in BOOLEAN, Receive(w, b) PROVE Phases' /\ Forward
  BY <1>0, <1>7 DEF Receive, Script, Take
<1>8. ASSUME NEW b \in BOOLEAN, Wake(w, b) PROVE Phases' /\ Forward
  <2>1. /\ pc[w] = "asleep" /\ pc' = [pc EXCEPT ![w] = "run"]
        /\ UNCHANGED <<spawner, thread, ended, joins>>
        /\ trapped' = [trapped EXCEPT ![w] = @ \/ ~b] \/ trapped' = trapped
    BY <1>8 DEF Wake, Take
  <2>. QED BY <1>0, <2>1 DEF Ends
<1>. QED BY Zenon, <1>1, <1>2, <1>3, <1>4, <1>5, <1>6, <1>7, <1>8 DEF WorkerStep

\* What the session does.
LEMMA SessionPhases ==
  ASSUME WorkersInv, Phases, Session
  PROVE  Phases' /\ Forward
<1>. USE DEF Phases, Forward, Nodes, lifetimes, code, history
<1>0. Root \notin Workers /\ pc \in [Nodes -> Places] /\ trapped \in [Nodes -> BOOLEAN]
  BY RootAssumption DEF WorkersInv, ControlOK
<1>1. CASE HostEnter
  BY <1>0, <1>1 DEF HostEnter
<1>2. CASE HostReturn
  BY <1>0, <1>2 DEF HostReturn
<1>3. CASE Reload
  BY <1>3 DEF Reload
<1>4. CASE SessionDrop
  BY Zenon, <1>0, <1>4 DEF SessionDrop
<1>5. CASE FreeModules
  BY <1>5 DEF FreeModules
<1>. QED BY Zenon, <1>1, <1>2, <1>3, <1>4, <1>5 DEF Session

\* A step that leaves the outcomes alone, and in which no thread joins another:
\* the workers that run after it ran before it.
LEMMA LoudQuiet ==
  ASSUME ControlOK, Phases, Forward, FailureIsLoud, UNCHANGED <<spawner, ended>>,
         \A w \in Workers : thread'[w] = "joined" =>
           \/ thread[w] = "joined"
           \/ pc'[spawner[w]] \notin {"run", "asleep", "joining", "dropInbox"},
         \A n \in Workers : pc'[n] \in {"run", "asleep", "joining", "dropInbox"} =>
           pc[n] \in {"init", "run", "asleep", "joining", "dropInbox"}
  PROVE  FailureIsLoud'
<1>1. ASSUME NEW w \in Workers, thread'[w] = "joined", ended'[w] = "trapped",
             spawner'[w] \in Workers,
             pc'[spawner'[w]] \in {"run", "asleep", "joining", "dropInbox"}
      PROVE  trapped'[spawner'[w]] /\ ended'[spawner'[w]] # "clean"
  <2>1. pc[spawner[w]] \in {"run", "asleep", "joining", "dropInbox"}
    BY <1>1 DEF Phases
  <2>. QED BY <1>1, <2>1 DEF FailureIsLoud, Forward
<1>. QED BY Zenon, <1>1 DEF FailureIsLoud

\* A worker's failure stays loud.
LEMMA LoudStep ==
  ASSUME WorkersInv, Phases, Forward, FailureIsLoud, Next
  PROVE  FailureIsLoud'
<1>. USE DEF Nodes, lifetimes, code, history
<1>0. /\ ControlOK /\ Tree /\ Root \notin Workers /\ None \notin Nodes
      /\ pc \in [Nodes -> Places] /\ trapped \in [Nodes -> BOOLEAN]
      /\ thread \in [Workers -> {"none", "live", "joined"}]
      /\ ended \in [Workers -> {"none", "clean", "trapped"}]
      /\ spawner \in [Workers -> Nodes \cup {None}]
  BY RootAssumption DEF WorkersInv, ControlOK
<1>1. ASSUME NEW n \in Nodes, Joined(n) PROVE FailureIsLoud'
  <2>1. joins[n] \in Workers /\ spawner[joins[n]] = n /\ (n \in Workers => ended[n] = "none")
    BY <1>0, <1>1 DEF Joined, Tree, Joining, Phases, Ends
  <2>2. /\ thread' = [thread EXCEPT ![joins[n]] = "joined"]
        /\ trapped' = [trapped EXCEPT ![n] = ended[joins[n]] = "trapped"]
        /\ pc' = [pc EXCEPT ![n] = "run"] /\ pc[n] = "joining"
        /\ UNCHANGED <<spawner, ended>>
    BY <1>1 DEF Joined
  <2>3. ASSUME NEW w \in Workers, thread'[w] = "joined", ended'[w] = "trapped",
               spawner'[w] \in Workers,
               pc'[spawner'[w]] \in {"run", "asleep", "joining", "dropInbox"}
        PROVE  trapped'[spawner'[w]] /\ ended'[spawner'[w]] # "clean"
    <3>1. CASE w = joins[n]
      BY Zenon, <1>0, <2>1, <2>2, <2>3, <3>1
    <3>2. CASE w # joins[n]
      <4>1. thread[w] = "joined" /\ ended[w] = "trapped" /\ spawner[w] \in Workers
            /\ pc[spawner[w]] \in {"run", "asleep", "joining", "dropInbox"}
        BY <1>0, <2>1, <2>2, <2>3, <3>2
      <4>2. trapped[spawner[w]] /\ ended[spawner[w]] # "clean" /\ pc[spawner[w]] # "init"
        BY Zenon, <4>1 DEF FailureIsLoud
      <4>. QED BY <2>2, <4>1, <4>2 DEF Forward
    <3>. QED BY <3>1, <3>2
  <2>. QED BY Zenon, <2>3 DEF FailureIsLoud
<1>2. ASSUME NEW n \in Nodes, NEW w \in Workers, Spawn(n, w) PROVE FailureIsLoud'
  <2>1. /\ spawner' = [spawner EXCEPT ![w] = n] /\ thread' = [thread EXCEPT ![w] = "live"]
        /\ pc' = [pc EXCEPT ![w] = "init"] /\ UNCHANGED <<ended, trapped>>
    BY <1>2 DEF Spawn
  <2>2. \A v \in Workers : thread'[v] = "joined" => v # w /\ spawner'[v] = spawner[v]
    BY <1>0, <2>1
  <2>3. \A v \in Workers : thread'[v] = "joined" => thread[v] = "joined"
    BY <1>0, <2>1
  <2>4. \A v \in Workers : pc'[v] \in {"run", "asleep", "joining", "dropInbox"} => pc'[v] = pc[v]
    BY <1>0, <2>1
  <2>5. ASSUME NEW v \in Workers, thread'[v] = "joined", ended'[v] = "trapped",
               spawner'[v] \in Workers,
               pc'[spawner'[v]] \in {"run", "asleep", "joining", "dropInbox"}
        PROVE  trapped'[spawner'[v]] /\ ended'[spawner'[v]] # "clean"
    BY <2>1, <2>2, <2>3, <2>4, <2>5 DEF FailureIsLoud
  <2>. QED BY Zenon, <2>5 DEF FailureIsLoud
<1>3. ASSUME NEW n \in Nodes, NEW w \in Workers, ShutdownJoin(n, w) PROVE FailureIsLoud'
  BY <1>0, <1>3, LoudQuiet DEF ShutdownJoin, Live, Children
<1>4. ASSUME NEW w \in Workers, EntryEnd(w) PROVE FailureIsLoud'
  <2>1. /\ ended' = [ended EXCEPT ![w] = IF trapped[w] THEN "trapped" ELSE "clean"]
        /\ pc' = [pc EXCEPT ![w] = "dropInbox"] /\ pc[w] = "run"
        /\ UNCHANGED <<spawner, thread, trapped>>
    BY <1>4 DEF EntryEnd
  <2>2. thread[w] = "live"
    BY <1>0, <2>1 DEF Tree, Attached, Running
  <2>3. ASSUME NEW v \in Workers, thread'[v] = "joined", ended'[v] = "trapped",
               spawner'[v] \in Workers,
               pc'[spawner'[v]] \in {"run", "asleep", "joining", "dropInbox"}
        PROVE  trapped'[spawner'[v]] /\ ended'[spawner'[v]] # "clean"
    <3>1. /\ thread[v] = "joined" /\ ended[v] = "trapped" /\ spawner[v] \in Workers
          /\ pc[spawner[v]] \in {"run", "asleep", "joining", "dropInbox"}
      BY <1>0, <2>1, <2>2, <2>3
    <3>2. trapped[spawner[v]] /\ ended[spawner[v]] # "clean"
      BY Zenon, <3>1 DEF FailureIsLoud
    <3>. QED BY <1>0, <2>1, <3>1, <3>2
  <2>. QED BY Zenon, <2>3 DEF FailureIsLoud
<1>5. ASSUME UNCHANGED <<spawner, ended, thread>>,
             \A n \in Workers : pc'[n] \in {"run", "asleep", "joining", "dropInbox"} =>
               pc[n] \in {"init", "run", "asleep", "joining", "dropInbox"}
      PROVE  FailureIsLoud'
  BY Zenon, <1>0, <1>5, LoudQuiet
<1>6. ASSUME NEW n \in Nodes, OwnerStep(n) PROVE FailureIsLoud'
  <2>1. CASE Fault(n)
    BY <1>5, <2>1 DEF Fault
  <2>2. CASE ContextEnd(n)
    BY <1>0, <1>5, <2>2 DEF ContextEnd
  <2>3. ASSUME NEW w \in Workers, NEW fits \in BOOLEAN,
               \/ Post(n, w) \/ Close(n, w) \/ JoinAgain(n, w) \/ ShutdownClose(n, w)
               \/ Poll(n, w, fits)
        PROVE  FailureIsLoud'
    <3>1. UNCHANGED <<pc, spawner, ended, thread>>
      BY Zenon, <2>3 DEF Post, Close, JoinAgain, ShutdownClose, Poll
    <3>. QED BY <1>5, <3>1
  <2>4. ASSUME NEW w \in Workers, Join(n, w) PROVE FailureIsLoud'
    BY Zenon, <1>0, <1>5, <2>4 DEF Join, Script
  <2>. QED BY Zenon, <1>1, <1>2, <1>3, <1>6, <2>1, <2>2, <2>3, <2>4 DEF OwnerStep
<1>7. ASSUME NEW w \in Workers, WorkerStep(w) PROVE FailureIsLoud'
  <2>1. CASE Sleep(w)
    BY <1>0, <1>5, <2>1 DEF Sleep, Script
  <2>2. CASE Reply(w)
    BY <1>5, <2>2 DEF Reply
  <2>3. CASE \/ DropEndpoint(w, "dropInbox", "input", "dropOutbox")
             \/ DropEndpoint(w, "dropOutbox", "output", "dropContext")
    BY <1>0, <1>5, <2>3 DEF DropEndpoint
  <2>4. ASSUME NEW b \in BOOLEAN, Initialize(w, b) \/ Wake(w, b) PROVE FailureIsLoud'
    <3>1. /\ pc' = [pc EXCEPT ![w] = "run"] /\ pc[w] \in {"init", "asleep"}
          /\ UNCHANGED <<spawner, ended, thread>>
      BY <2>4 DEF Initialize, Wake
    <3>. QED BY <1>0, <1>5, <3>1
  <2>5. ASSUME NEW b \in BOOLEAN, Receive(w, b) PROVE FailureIsLoud'
    BY <1>5, <2>5 DEF Receive
  <2>. QED BY <1>4, <1>7, <2>1, <2>2, <2>3, <2>4, <2>5 DEF WorkerStep
<1>8. ASSUME Session PROVE FailureIsLoud'
  BY <1>0, <1>5, <1>8 DEF Session, HostEnter, HostReturn, Reload, SessionDrop, FreeModules
<1>. QED BY <1>6, <1>7, <1>8 DEF Next

-----------------------------------------------------------------------------
(* What a step does to one queue and its history. *)

Still(w, d) ==
  /\ queue'[w][d].messages = queue[w][d].messages /\ sent'[w][d] = sent[w][d]
  /\ got'[w][d] = got[w][d] /\ lost'[w][d] = lost[w][d]

Queued(w, d) ==
  /\ queue'[w][d].messages = Append(queue[w][d].messages, sent[w][d] + 1)
  /\ sent'[w][d] = sent[w][d] + 1
  /\ got'[w][d] = got[w][d] /\ lost'[w][d] = lost[w][d]

\* The receiver's script runs, or wakes, untrapped.
Taken(w, d) ==
  /\ queue[w][d].messages # <<>>
  /\ queue'[w][d].messages = Tail(queue[w][d].messages) /\ sent'[w][d] = sent[w][d]
  /\ Receiver(w, d) \in Nodes /\ ~trapped[Receiver(w, d)]
  /\ pc[Receiver(w, d)] \notin {"none", "init"} /\ spawner' = spawner

Received(w, d) ==
  /\ Taken(w, d)
  /\ got'[w][d] = Append(got[w][d], Head(queue[w][d].messages)) /\ lost'[w][d] = lost[w][d]

Dropped(w, d) ==
  /\ Taken(w, d)
  /\ lost'[w][d] = Append(lost[w][d], Head(queue[w][d].messages)) /\ got'[w][d] = got[w][d]
  /\ trapped'[Receiver(w, d)]

Moves(w, d) == Still(w, d) \/ Queued(w, d) \/ Received(w, d) \/ Dropped(w, d)

\* An update of one queue's entry leaves the other entries alone.
LEMMA UpdateOne ==
  ASSUME NEW S, NEW f \in [Workers -> [Directions -> S]], NEW e,
         NEW w \in Workers, NEW d \in Directions, NEW x, e = [f EXCEPT ![w][d] = x]
  PROVE  /\ e[w][d] = x
         /\ \A v \in Workers, c \in Directions : <<v, c>> # <<w, d>> => e[v][c] = f[v][c]
OBVIOUS

\* Queue::post, poll, wait and close move one queue.
LEMMA QueueMoves ==
  ASSUME QueueOK, ControlOK, NEW w \in Workers, NEW d \in Directions
  PROVE  /\ PostTo(w, d) /\ UNCHANGED <<got, lost>>
              => \A v \in Workers, c \in Directions : Moves(v, c)
         /\ CloseQueue(w, d) /\ UNCHANGED <<sent, got, lost>>
              => \A v \in Workers, c \in Directions : Moves(v, c)
         /\ \A fits \in BOOLEAN :
              /\ Take(w, d, Receiver(w, d), fits) /\ UNCHANGED <<sent, spawner>>
              /\ Receiver(w, d) \in Nodes /\ ~trapped[Receiver(w, d)]
              /\ pc[Receiver(w, d)] \notin {"none", "init"}
              => \A v \in Workers, c \in Directions : Moves(v, c)
<1>0. /\ queue \in [Workers -> [Directions -> Queues]]
      /\ sent \in [Workers -> [Directions -> 0 .. MaxPosts]]
      /\ got \in [Workers -> [Directions -> Records]]
      /\ lost \in [Workers -> [Directions -> Records]]
      /\ trapped \in [Nodes -> BOOLEAN] /\ queue[w][d] \in Queues
  BY DEF QueueOK, ControlOK
<1>1. ASSUME PostTo(w, d), UNCHANGED <<got, lost>>, NEW v \in Workers, NEW c \in Directions
      PROVE  Moves(v, c)
  <2> DEFINE q == [queue[w][d] EXCEPT !.messages = Append(@, sent[w][d] + 1)]
  <2>1. queue' = [queue EXCEPT ![w][d] = q] /\ sent' = [sent EXCEPT ![w][d] = sent[w][d] + 1]
    BY <1>1 DEF PostTo
  <2>2. q.messages = Append(queue[w][d].messages, sent[w][d] + 1)
    BY <1>0 DEF Queues
  <2>. HIDE DEF q
  <2>3. queue'[w][d] = q /\ sent'[w][d] = sent[w][d] + 1
    BY <1>0, <2>1, UpdateOne
  <2>4. <<v, c>> # <<w, d>> => queue'[v][c] = queue[v][c] /\ sent'[v][c] = sent[v][c]
    BY <1>0, <2>1, UpdateOne
  <2>. QED BY Zenon, <1>1, <2>2, <2>3, <2>4 DEF Moves, Queued, Still
<1>2. ASSUME CloseQueue(w, d), UNCHANGED <<sent, got, lost>>,
             NEW v \in Workers, NEW c \in Directions
      PROVE  Moves(v, c)
  <2> DEFINE q == [queue[w][d] EXCEPT !.closed = TRUE]
  <2>1. queue' = [queue EXCEPT ![w][d] = q]
    BY <1>2 DEF CloseQueue
  <2>2. q.messages = queue[w][d].messages
    BY <1>0 DEF Queues
  <2>. HIDE DEF q
  <2>3. queue'[w][d] = q /\ (<<v, c>> # <<w, d>> => queue'[v][c] = queue[v][c])
    BY <1>0, <2>1, UpdateOne
  <2>. QED BY <1>2, <2>2, <2>3 DEF Moves, Still
<1>3. ASSUME NEW fits \in BOOLEAN, Take(w, d, Receiver(w, d), fits), UNCHANGED <<sent, spawner>>,
             Receiver(w, d) \in Nodes, ~trapped[Receiver(w, d)],
             pc[Receiver(w, d)] \notin {"none", "init"},
             NEW v \in Workers, NEW c \in Directions
      PROVE  Moves(v, c)
  <2> DEFINE q == [queue[w][d] EXCEPT !.messages = Tail(@)]
             h == Head(queue[w][d].messages)
             g == Append(got[w][d], h)
             l == Append(lost[w][d], h)
  <2>1. /\ queue' = [queue EXCEPT ![w][d] = q] /\ queue[w][d].messages # <<>>
        /\ \/ fits /\ got' = [got EXCEPT ![w][d] = g] /\ lost' = lost
           \/ ~fits /\ lost' = [lost EXCEPT ![w][d] = l] /\ got' = got
        /\ ~fits => trapped'[Receiver(w, d)]
    BY Zenon, <1>0, <1>3 DEF Take
  <2>2. q.messages = Tail(queue[w][d].messages)
    BY <1>0 DEF Queues
  <2>. HIDE DEF q, g, l
  <2>3. queue'[w][d] = q /\ (<<v, c>> # <<w, d>> => queue'[v][c] = queue[v][c])
    BY <1>0, <2>1, UpdateOne
  <2>4. \/ /\ fits /\ lost' = lost /\ got'[w][d] = g
           /\ <<v, c>> # <<w, d>> => got'[v][c] = got[v][c]
        \/ /\ ~fits /\ got' = got /\ lost'[w][d] = l
           /\ <<v, c>> # <<w, d>> => lost'[v][c] = lost[v][c]
    <3>1. CASE fits /\ got' = [got EXCEPT ![w][d] = g] /\ lost' = lost
      <4>1. got'[w][d] = g /\ (<<v, c>> # <<w, d>> => got'[v][c] = got[v][c])
        BY <1>0, <3>1, UpdateOne
      <4>. QED BY Zenon, <3>1, <4>1
    <3>2. CASE ~fits /\ lost' = [lost EXCEPT ![w][d] = l] /\ got' = got
      <4>1. lost'[w][d] = l /\ (<<v, c>> # <<w, d>> => lost'[v][c] = lost[v][c])
        BY <1>0, <3>2, UpdateOne
      <4>. QED BY Zenon, <3>2, <4>1
    <3>. QED BY Zenon, <2>1, <3>1, <3>2
  <2>5. CASE <<v, c>> = <<w, d>>
    BY Zenon, <1>3, <2>1, <2>2, <2>3, <2>4, <2>5 DEF Moves, Received, Dropped, Taken, g, l
  <2>6. CASE <<v, c>> # <<w, d>>
    BY Zenon, <1>3, <2>3, <2>4, <2>6 DEF Moves, Still
  <2>. QED BY <2>5, <2>6
<1>. QED BY Zenon, <1>1, <1>2, <1>3

\* Every step moves each queue in one of these ways.
LEMMA StepMoves ==
  ASSUME WorkersInv, Phases, Next
  PROVE  \A v \in Workers, c \in Directions : Moves(v, c)
<1> DEFINE Goal == \A v \in Workers, c \in Directions : Moves(v, c)
<1>. USE DEF Nodes, lifetimes, code, history
<1>0. QueueOK /\ ControlOK /\ "input" \in Directions /\ "output" \in Directions
  BY DEF WorkersInv, Directions
<1>1. ASSUME UNCHANGED <<queue, sent, got, lost>> PROVE Goal
  BY <1>1 DEF Moves, Still
<1>2. ASSUME NEW n \in Nodes, NEW w \in Workers, NEW fits \in BOOLEAN, Poll(n, w, fits)
      PROVE  Goal
  <2>1. Receiver(w, "output") = n
    BY <1>2 DEF Receiver, Poll, Children
  <2>. QED BY <1>0, <1>2, <2>1, QueueMoves DEF Poll, Script
<1>3. ASSUME NEW w \in Workers, NEW fits \in BOOLEAN, Receive(w, fits) \/ Wake(w, fits)
      PROVE  Goal
  <2>1. Receiver(w, "input") = w
    BY DEF Receiver
  <2>2. /\ Take(w, "input", w, fits) \/ UNCHANGED <<queue, got, lost>>
        /\ UNCHANGED <<sent, spawner>> /\ pc[w] \in {"run", "asleep"} /\ ~trapped[w]
    BY Zenon, <1>3 DEF Receive, Wake, Script, Phases
  <2>. QED BY Zenon, <1>0, <1>1, <2>1, <2>2, QueueMoves
<1>. HIDE DEF Goal
<1>4. ASSUME NEW n \in Nodes, OwnerStep(n) PROVE Goal
  <2>1. CASE Fault(n) \/ Joined(n) \/ ContextEnd(n)
    BY <1>1, <2>1 DEF Fault, Joined, ContextEnd
  <2>2. ASSUME NEW w \in Workers, Spawn(n, w) \/ Join(n, w) \/ JoinAgain(n, w) \/ ShutdownJoin(n, w)
        PROVE  Goal
    BY <1>1, <2>2 DEF Spawn, Join, JoinAgain, ShutdownJoin
  <2>3. ASSUME NEW w \in Workers, Post(n, w) PROVE Goal
    BY Zenon, <1>0, <2>3, QueueMoves DEF Post, Goal
  <2>4. ASSUME NEW w \in Workers, Close(n, w) \/ ShutdownClose(n, w) PROVE Goal
    BY Zenon, <1>0, <2>4, QueueMoves DEF Close, ShutdownClose, Goal
  <2>. QED BY <1>2, <1>4, <2>1, <2>2, <2>3, <2>4 DEF OwnerStep
<1>5. ASSUME NEW w \in Workers, WorkerStep(w) PROVE Goal
  <2>1. CASE Sleep(w) \/ EntryEnd(w)
    BY <1>1, <2>1 DEF Sleep, EntryEnd
  <2>2. ASSUME NEW b \in BOOLEAN, Initialize(w, b) PROVE Goal
    BY <1>1, <2>2 DEF Initialize
  <2>3. CASE Reply(w)
    BY <1>0, <2>3, QueueMoves DEF Reply, Goal
  <2>4. ASSUME NEW at, NEW d \in Directions, NEW to, DropEndpoint(w, at, d, to) PROVE Goal
    BY <1>0, <2>4, QueueMoves DEF DropEndpoint, Goal
  <2>. QED BY <1>0, <1>3, <1>5, <2>1, <2>2, <2>3, <2>4 DEF WorkerStep
<1>6. ASSUME Session PROVE Goal
  BY <1>1, <1>6 DEF Session, HostEnter, HostReturn, Reload, SessionDrop, FreeModules
<1>. QED BY <1>4, <1>5, <1>6 DEF Next, Goal

-----------------------------------------------------------------------------
(* The delivery invariant. *)

\* A worker that has not started dropped nothing.
Fresh ==
  \A w \in Workers : /\ pc[w] \in {"none", "init"} => lost[w]["input"] = <<>>
                     /\ pc[w] = "none" => lost[w]["output"] = <<>>

\* A worker that dropped a record is trapped, and received nothing after it.
DropTraps(w, d) ==
  lost[w][d] # <<>> /\ Receiver(w, d) # Root =>
    /\ Receiver(w, d) \in Workers /\ trapped[Receiver(w, d)]
    /\ \A i \in 1 .. Len(got[w][d]) : got[w][d][i] < Head(lost[w][d])

InOrder(w, d) == Ordered(queue[w][d].messages, got[w][d], lost[w][d], sent[w][d])

DeliveryInv ==
  /\ WorkersInv /\ Phases /\ FailureIsLoud /\ Fresh
  /\ \A w \in Workers, d \in Directions : InOrder(w, d) /\ DropTraps(w, d)

\* Records are numbers, and posts are counted.
LEMMA RecordTypes ==
  ASSUME QueueOK, NEW w \in Workers, NEW d \in Directions
  PROVE  /\ queue[w][d].messages \in Seq(Nat) /\ got[w][d] \in Seq(Nat)
         /\ lost[w][d] \in Seq(Nat) /\ sent[w][d] \in Nat
<1>1. /\ queue[w][d].messages \in Seq(1 .. MaxPosts) /\ got[w][d] \in Seq(1 .. MaxPosts)
      /\ lost[w][d] \in Seq(1 .. MaxPosts) /\ sent[w][d] \in 0 .. MaxPosts
  BY DEF QueueOK, Queues, Records
<1>2. \A s \in Seq(1 .. MaxPosts) : s \in Seq(Nat)
  BY BoundsAssumption
<1>. QED BY <1>1, <1>2, BoundsAssumption

\* A move of a queue keeps its records in order, and drops only into a trap.
LEMMA MoveKeeps ==
  ASSUME WorkersInv, Phases, Forward, Fresh, NEW w \in Workers, NEW d \in Directions,
         Moves(w, d), InOrder(w, d), DropTraps(w, d)
  PROVE  InOrder(w, d)' /\ DropTraps(w, d)'
<1> DEFINE q == queue[w][d].messages
           g == got[w][d]
           l == lost[w][d]
           s == sent[w][d]
<1>1. q \in Seq(Nat) /\ g \in Seq(Nat) /\ l \in Seq(Nat) /\ s \in Nat
  BY RecordTypes DEF WorkersInv
<1>2. Ordered(q, g, l, s)
  BY DEF InOrder
<1>3. CASE Still(w, d) \/ Queued(w, d)
  <2>1. /\ got'[w][d] = g /\ lost'[w][d] = l
        /\ \/ queue'[w][d].messages = q /\ sent'[w][d] = s
           \/ queue'[w][d].messages = Append(q, s + 1) /\ sent'[w][d] = s + 1
    BY Zenon, <1>3 DEF Still, Queued
  <2>2. InOrder(w, d)'
    <3>. HIDE DEF q, g, l, s
    <3>1. Ordered(Append(q, s + 1), g, l, s + 1)
      BY <1>1, <1>2, OrderedPost
    <3>2. Ordered(queue'[w][d].messages, got'[w][d], lost'[w][d], sent'[w][d])
      BY Zenon, <1>2, <2>1, <3>1
    <3>. QED BY Zenon, <3>2 DEF InOrder
  <2>3. ASSUME l # <<>>, Receiver(w, d)' # Root
        PROVE  /\ Receiver(w, d)' \in Workers /\ trapped'[Receiver(w, d)']
               /\ \A i \in 1 .. Len(g) : g[i] < Head(l)
    <3>1. Receiver(w, d)' = Receiver(w, d)
      BY Zenon, <2>3 DEF Forward, Fresh, Receiver, Directions
    <3>2. /\ Receiver(w, d) \in Workers /\ trapped[Receiver(w, d)]
          /\ \A i \in 1 .. Len(g) : g[i] < Head(l)
      BY Zenon, <2>3, <3>1 DEF DropTraps
    <3>3. pc[Receiver(w, d)] # "init"
      BY <2>3, <3>2 DEF Phases, Fresh, Receiver, Directions
    <3>. QED BY Zenon, <3>1, <3>2, <3>3 DEF Forward
  <2>4. DropTraps(w, d)'
    BY Zenon, <2>1, <2>3 DEF DropTraps
  <2>. QED BY <2>2, <2>4
<1>4. CASE Received(w, d) \/ Dropped(w, d)
  <2>1. /\ q # <<>> /\ queue'[w][d].messages = Tail(q) /\ sent'[w][d] = s
        /\ Receiver(w, d)' = Receiver(w, d) /\ Receiver(w, d) \in Nodes
        /\ ~trapped[Receiver(w, d)]
        /\ \/ got'[w][d] = Append(g, Head(q)) /\ lost'[w][d] = l
           \/ /\ got'[w][d] = g /\ lost'[w][d] = Append(l, Head(q))
              /\ trapped'[Receiver(w, d)]
    BY Zenon, <1>4 DEF Received, Dropped, Taken, Receiver
  <2>2. l = <<>> \/ Receiver(w, d) = Root
    BY Zenon, <2>1 DEF DropTraps
  <2>3. /\ Ordered(Tail(q), Append(g, Head(q)), l, s)
        /\ Ordered(Tail(q), g, Append(l, Head(q)), s)
        /\ \A i \in 1 .. Len(g) : g[i] < Head(q)
    <3>. HIDE DEF q, g, l, s
    <3>. QED BY Zenon, <1>1, <1>2, <2>1, OrderedTake
  <2>4. InOrder(w, d)'
    <3>1. Ordered(queue'[w][d].messages, got'[w][d], lost'[w][d], sent'[w][d])
      BY Zenon, <2>1, <2>3
    <3>. QED BY Zenon, <3>1 DEF InOrder
  <2>5. l = <<>> => Head(Append(l, Head(q))) = Head(q)
    OBVIOUS
  <2>6. DropTraps(w, d)'
    BY Zenon, <2>1, <2>2, <2>3, <2>5 DEF DropTraps, Nodes
  <2>. QED BY <2>4, <2>6
<1>. QED BY <1>3, <1>4 DEF Moves

\* A step leaves the queues of a worker that has not started alone.
LEMMA FreshStep ==
  ASSUME WorkersInv, Phases, Forward, Fresh, \A w \in Workers, d \in Directions : Moves(w, d)
  PROVE  Fresh'
<1>1. ASSUME NEW w \in Workers, pc'[w] \in {"none", "init"} PROVE lost'[w]["input"] = <<>>
  <2>1. pc[w] \in {"none", "init"} /\ Receiver(w, "input") = w /\ Moves(w, "input")
    BY <1>1 DEF Forward, Receiver, Directions
  <2>2. lost'[w]["input"] = lost[w]["input"]
    BY Zenon, <2>1 DEF Moves, Still, Queued, Received, Dropped, Taken
  <2>. QED BY <2>1, <2>2 DEF Fresh
<1>2. ASSUME NEW w \in Workers, pc'[w] = "none" PROVE lost'[w]["output"] = <<>>
  <2>1. pc[w] = "none" /\ Receiver(w, "output") = spawner[w] /\ Moves(w, "output")
    BY <1>2 DEF Forward, Receiver, Directions
  <2>2. spawner[w] \notin Nodes
    BY <2>1, RootAssumption DEF Phases, WorkersInv, Tree, Spawned, Nodes
  <2>3. lost'[w]["output"] = lost[w]["output"]
    BY Zenon, <2>1, <2>2 DEF Moves, Still, Queued, Received, Dropped, Taken
  <2>. QED BY <2>1, <2>3 DEF Fresh
<1>. QED BY <1>1, <1>2 DEF Fresh

\* The delivery invariant holds at the start and every step keeps it.
LEMMA DeliveryInvInductive ==
  /\ Init => DeliveryInv
  /\ DeliveryInv /\ [Next]_vars => DeliveryInv'
<1>1. ASSUME Init PROVE DeliveryInv
  <2>1. WorkersInv
    BY <1>1, WorkersInvInductive
  <2>2. Phases /\ FailureIsLoud
    BY <1>1, RootAssumption DEF Init, Phases, FailureIsLoud, Nodes
  <2>3. ASSUME NEW w \in Workers, NEW d \in Directions
        PROVE  /\ lost[w][d] = <<>> /\ got[w][d] = <<>> /\ queue[w][d].messages = <<>>
               /\ sent[w][d] = 0
    BY <1>1 DEF Init, Empty
  <2>4. Fresh
    BY <2>3 DEF Fresh, Directions
  <2>5. Ordered(<<>>, <<>>, <<>>, 0)
    BY DEF Ordered
  <2>. QED BY <2>1, <2>2, <2>3, <2>4, <2>5 DEF DeliveryInv, InOrder, DropTraps
<1>2. ASSUME DeliveryInv, [Next]_vars PROVE DeliveryInv'
  <2>0. WorkersInv'
    BY <1>2, WorkersInvInductive DEF DeliveryInv
  <2>1. CASE UNCHANGED vars
    <3>1. Phases' /\ FailureIsLoud' /\ Fresh'
      BY <1>2, <2>1 DEF vars, DeliveryInv, Phases, FailureIsLoud, Fresh
    <3>2. \A w \in Workers, d \in Directions : InOrder(w, d)' /\ DropTraps(w, d)'
      BY Zenon, <1>2, <2>1 DEF vars, DeliveryInv, InOrder, DropTraps, Receiver
    <3>. QED BY <2>0, <3>1, <3>2 DEF DeliveryInv
  <2>2. CASE Next
    <3>1. Phases' /\ Forward
      BY <1>2, <2>2, OwnerPhases, WorkerPhases, SessionPhases DEF Next, DeliveryInv
    <3>2. FailureIsLoud'
      BY <1>2, <2>2, <3>1, LoudStep DEF DeliveryInv
    <3>3. \A w \in Workers, d \in Directions : Moves(w, d)
      BY <1>2, <2>2, StepMoves DEF DeliveryInv
    <3>4. Fresh'
      BY <1>2, <3>1, <3>3, FreshStep DEF DeliveryInv
    <3>5. \A w \in Workers, d \in Directions : InOrder(w, d)' /\ DropTraps(w, d)'
      BY <1>2, <3>1, <3>3, MoveKeeps DEF DeliveryInv
    <3>. QED BY <2>0, <3>1, <3>2, <3>4, <3>5 DEF DeliveryInv
  <2>. QED BY <1>2, <2>1, <2>2
<1>. QED BY <1>1, <1>2

\* Queue::post, poll and wait deliver each record once and in order, through
\* closes, exits and joins; only a receive that traps its Context drops one.
THEOREM QueuesDeliver == Spec => []Delivers
<1>1. DeliveryInv => Delivers
  <2>. SUFFICES ASSUME DeliveryInv, NEW w \in Workers, NEW d \in Directions
                PROVE
         /\ \A m \in 1 .. sent[w][d] :
              Cardinality({i \in DOMAIN got[w][d] : got[w][d][i] = m})
                + Cardinality({i \in DOMAIN lost[w][d] : lost[w][d][i] = m})
                + Cardinality({i \in DOMAIN queue[w][d].messages :
                                 queue[w][d].messages[i] = m}) = 1
         /\ \A i, j \in DOMAIN got[w][d] : i < j => got[w][d][i] < got[w][d][j]
         /\ (lost[w][d] # <<>> /\ Receiver(w, d) # Root) =>
              /\ trapped[Receiver(w, d)]
              /\ \A i \in DOMAIN got[w][d] : got[w][d][i] < Head(lost[w][d])
    BY Zenon DEF Delivers
  <2> DEFINE q == queue[w][d].messages
             g == got[w][d]
             l == lost[w][d]
             s == sent[w][d]
  <2>1. q \in Seq(Nat) /\ g \in Seq(Nat) /\ l \in Seq(Nat) /\ s \in Nat
    BY RecordTypes DEF DeliveryInv, WorkersInv
  <2>2. Ordered(q, g, l, s) /\ DropTraps(w, d)
    BY DEF DeliveryInv, InOrder
  <2>3. DOMAIN g = 1 .. Len(g)
    BY <2>1
  <2>4. \A m \in 1 .. s : Cardinality({i \in DOMAIN g : g[i] = m})
          + Cardinality({i \in DOMAIN l : l[i] = m}) + Cardinality({i \in DOMAIN q : q[i] = m}) = 1
    <3>. HIDE DEF q, g, l, s
    <3>. QED BY Zenon, <2>1, <2>2, OrderedCounts
  <2>5. \A i, j \in DOMAIN g : i < j => g[i] < g[j]
    <3>. HIDE DEF q, g, l, s
    <3>. QED BY Zenon, <2>2, <2>3 DEF Ordered
  <2>. QED BY Zenon, <2>2, <2>3, <2>4, <2>5 DEF DropTraps
<1>. QED BY <1>1, DeliveryInvInductive, PTL DEF Spec

\* A worker that joined a trapped worker in its script is trapped, and its own
\* outcome says so (worker_join, WorkerOutcome).
THEOREM JoinReportsFailure == Spec => []FailureIsLoud
<1>1. DeliveryInv => FailureIsLoud
  BY DEF DeliveryInv
<1>. QED BY <1>1, DeliveryInvInductive, PTL DEF Spec

=============================================================================
