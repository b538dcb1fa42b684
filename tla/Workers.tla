------------------------------ MODULE Workers ------------------------------
(***************************************************************************)
(* Worker threads, their two byte queues and their lifetime                *)
(* (runtime/src/worker.rs, the worker_* functions of lifecycle.rs), with   *)
(* the hot-reload session that must not replace code under a running       *)
(* worker (codegen/src/reload.rs).                                         *)
(*                                                                         *)
(* A node is a Context with the thread that drives it: the session's, or a *)
(* worker's.  Workers may spawn workers.  Each queue operation holds the   *)
(* queue's mutex and is one step; a blocked receive sleeps on its          *)
(* condition variable until it is notified.                                *)
(***************************************************************************)
EXTENDS Integers, Sequences, FiniteSets

CONSTANTS Workers,   \* handles of spawned workers
          Root,      \* the session's Context
          None,      \* no node
          MaxPosts,  \* bound: messages posted, over all queues
          MaxReloads,
          Orderly    \* TRUE when script closes a worker before it joins it

ASSUME RootAssumption == Root \notin Workers /\ None \notin Workers \cup {Root}
ASSUME BoundsAssumption == MaxPosts \in Nat /\ MaxReloads \in Nat /\ Orderly \in BOOLEAN

Nodes == Workers \cup {Root}
Directions == {"input", "output"}

VARIABLES
  pc,        \* where each thread is
  spawner,   \* the node whose Context owns the worker
  thread,    \* Worker::thread and Worker::outcome
  ended,     \* the WorkerOutcome that the thread returns
  joins,     \* the worker that a joining node waits for
  trapped,   \* the trap word of each Context
  queue,     \* the two queues of each worker
  notified,  \* a notification for the worker's sleep
  table,     \* the code generation each Context runs
  modules,   \* live code generations: the newest is the session's table
  sent, got, lost  \* history: messages posted, received, and dropped by a failed receive

vars == <<pc, spawner, thread, ended, joins, trapped, queue, notified, table, modules,
          sent, got, lost>>

Empty == [messages |-> <<>>, closed |-> FALSE]

Init ==
  /\ pc = [n \in Nodes |-> IF n = Root THEN "host" ELSE "none"]
  /\ spawner = [w \in Workers |-> None]
  /\ thread = [w \in Workers |-> "none"]
  /\ ended = [w \in Workers |-> "none"]
  /\ joins = [n \in Nodes |-> None]
  /\ trapped = [n \in Nodes |-> FALSE]
  /\ queue = [w \in Workers |-> [d \in Directions |-> Empty]]
  /\ notified = [w \in Workers |-> FALSE]
  /\ table = [n \in Nodes |-> 0]
  /\ modules = 0 .. 0
  /\ sent = [w \in Workers |-> [d \in Directions |-> 0]]
  /\ got = [w \in Workers |-> [d \in Directions |-> <<>>]]
  /\ lost = [w \in Workers |-> [d \in Directions |-> <<>>]]

Children(n) == {w \in Workers : spawner[w] = n}
Script(n) == pc[n] = "run" /\ ~trapped[n]

history == <<sent, got, lost>>
code == <<table, modules>>
lifetimes == <<spawner, thread, ended, joins>>

\* The bound on posts: every message posted so far, and room for one more.
Posted == {p \in Workers \X Directions \X (1 .. MaxPosts) : p[3] <= sent[p[1]][p[2]]}
MayPost(w, d) == sent[w][d] < MaxPosts /\ Cardinality(Posted) < MaxPosts

-----------------------------------------------------------------------------
(* Queue operations: the parameters are the worker and the direction. *)

\* Mutant: a message is queued and the sleeper is not notified.
PostToSilently(w, d) ==
  /\ ~queue[w][d].closed
  /\ queue' = [queue EXCEPT ![w][d].messages = Append(@, sent[w][d] + 1)]
  /\ sent' = [sent EXCEPT ![w][d] = @ + 1]
  /\ notified' = notified

\* Queue::post of an open queue; a post to a closed one changes nothing.
PostTo(w, d) ==
  /\ ~queue[w][d].closed
  /\ queue' = [queue EXCEPT ![w][d].messages = Append(@, sent[w][d] + 1)]
  /\ sent' = [sent EXCEPT ![w][d] = @ + 1]
  /\ notified' = [notified EXCEPT ![w] = @ \/ (d = "input" /\ pc[w] = "asleep")]

\* Mutant: the record stays queued until it is materialized.
TakeKeepsOnFailure(w, d, n, fits) ==
  /\ queue[w][d].messages # <<>>
  /\ queue' = IF fits THEN [queue EXCEPT ![w][d].messages = Tail(@)] ELSE queue
  /\ IF fits
     THEN got' = [got EXCEPT ![w][d] = Append(@, Head(queue[w][d].messages))] /\ UNCHANGED lost
     ELSE lost' = [lost EXCEPT ![w][d] = Append(@, Head(queue[w][d].messages))] /\ UNCHANGED got
  /\ trapped' = [trapped EXCEPT ![n] = @ \/ ~fits]

\* Queue::poll or the ready path of Queue::wait, then materialize in the
\* receiver's Context: an allocation that fails traps it, and the record,
\* which has left the queue, is dropped.
Take(w, d, n, fits) ==
  /\ queue[w][d].messages # <<>>
  /\ queue' = [queue EXCEPT ![w][d].messages = Tail(@)]
  /\ IF fits
     THEN got' = [got EXCEPT ![w][d] = Append(@, Head(queue[w][d].messages))] /\ UNCHANGED lost
     ELSE lost' = [lost EXCEPT ![w][d] = Append(@, Head(queue[w][d].messages))] /\ UNCHANGED got
  /\ trapped' = [trapped EXCEPT ![n] = @ \/ ~fits]

\* Mutant: closing the queue wakes nobody.
CloseQueueSilently(w, d) ==
  /\ queue' = [queue EXCEPT ![w][d].closed = TRUE]
  /\ notified' = notified

\* Queue::close is idempotent and wakes the sleeper.
CloseQueue(w, d) ==
  /\ queue' = [queue EXCEPT ![w][d].closed = TRUE]
  /\ notified' = [notified EXCEPT ![w] =
       @ \/ (d = "input" /\ pc[w] = "asleep" /\ ~queue[w][d].closed)]

-----------------------------------------------------------------------------
(* What script does with the workers of its Context. *)

\* worker_spawn: the worker runs the spawner's code table.
Spawn(n, w) ==
  /\ Script(n)
  /\ thread[w] = "none"
  /\ spawner' = [spawner EXCEPT ![w] = n]
  /\ thread' = [thread EXCEPT ![w] = "live"]
  /\ pc' = [pc EXCEPT ![w] = "init"]
  /\ table' = [table EXCEPT ![w] = table[n]]
  /\ UNCHANGED <<ended, joins, trapped, queue, notified, modules, history>>

\* A script fault, a thread that cannot be created, or a record that cannot
\* be allocated.
Fault(n) ==
  /\ Script(n)
  /\ trapped' = [trapped EXCEPT ![n] = TRUE]
  /\ UNCHANGED <<pc, lifetimes, queue, notified, code, history>>

Post(n, w) ==
  /\ Script(n) /\ w \in Children(n)
  /\ MayPost(w, "input")
  /\ PostTo(w, "input")
  /\ UNCHANGED <<pc, lifetimes, trapped, code, got, lost>>

Poll(n, w, fits) ==
  /\ Script(n) /\ w \in Children(n)
  /\ Take(w, "output", n, fits)
  /\ UNCHANGED <<pc, lifetimes, notified, code, sent>>

Close(n, w) ==
  /\ Script(n) /\ w \in Children(n)
  /\ CloseQueue(w, "input")
  /\ UNCHANGED <<pc, lifetimes, trapped, code, history>>

\* worker_join takes the thread and blocks until it ends.
Join(n, w) ==
  /\ Script(n) /\ w \in Children(n)
  /\ thread[w] = "live"
  /\ Orderly => queue[w]["input"].closed
  /\ pc' = [pc EXCEPT ![n] = "joining"]
  /\ joins' = [joins EXCEPT ![n] = w]
  /\ UNCHANGED <<spawner, thread, ended, trapped, queue, notified, code, history>>

\* A second join repeats the recorded outcome.
JoinAgain(n, w) ==
  /\ Script(n) /\ w \in Children(n)
  /\ thread[w] = "joined"
  /\ trapped' = [trapped EXCEPT ![n] = ended[w] = "trapped"]
  /\ UNCHANGED <<pc, lifetimes, queue, notified, code, history>>

\* Mutant: the joining Context reads the outcome and goes on.
JoinedQuietly(n) ==
  /\ pc[n] = "joining"
  /\ pc[joins[n]] = "done"
  /\ thread' = [thread EXCEPT ![joins[n]] = "joined"]
  /\ trapped' = trapped
  /\ pc' = [pc EXCEPT ![n] = "run"]
  /\ joins' = [joins EXCEPT ![n] = None]
  /\ UNCHANGED <<spawner, ended, queue, notified, code, history>>

\* The joined thread ended: its outcome is recorded, and a trapped worker
\* traps the joining Context.
Joined(n) ==
  /\ pc[n] = "joining"
  /\ pc[joins[n]] = "done"
  /\ thread' = [thread EXCEPT ![joins[n]] = "joined"]
  /\ trapped' = [trapped EXCEPT ![n] = ended[joins[n]] = "trapped"]
  /\ pc' = [pc EXCEPT ![n] = "run"]
  /\ joins' = [joins EXCEPT ![n] = None]
  /\ UNCHANGED <<spawner, ended, queue, notified, code, history>>

-----------------------------------------------------------------------------
(* The worker's side. *)

\* Context creation and the module initializer, which may trap.
Initialize(w, traps) ==
  /\ pc[w] = "init"
  /\ pc' = [pc EXCEPT ![w] = "run"]
  /\ trapped' = [trapped EXCEPT ![w] = traps]
  /\ UNCHANGED <<lifetimes, queue, notified, code, history>>

\* inbox_poll, and inbox_wait with a message: wait and poll return null on a
\* closed queue.
Receive(w, fits) ==
  /\ Script(w)
  /\ Take(w, "input", w, fits)
  /\ UNCHANGED <<pc, lifetimes, notified, code, sent>>

Sleep(w) ==
  /\ Script(w)
  /\ queue[w]["input"] = Empty
  /\ pc' = [pc EXCEPT ![w] = "asleep"]
  /\ UNCHANGED <<lifetimes, trapped, queue, notified, code, history>>

\* The condition variable wakes; the receive loop looks at the queue again.
Wake(w, fits) ==
  /\ pc[w] = "asleep"
  /\ notified[w]
  /\ notified' = [notified EXCEPT ![w] = FALSE]
  /\ pc' = [pc EXCEPT ![w] = "run"]
  /\ \/ Take(w, "input", w, fits)
     \/ queue[w]["input"].messages = <<>> /\ UNCHANGED <<queue, got, lost, trapped>>
  /\ UNCHANGED <<lifetimes, code, sent>>

Reply(w) ==
  /\ Script(w)
  /\ MayPost(w, "output")
  /\ PostTo(w, "output")
  /\ UNCHANGED <<pc, lifetimes, trapped, code, got, lost>>

\* The entry returns, by itself or because its Context trapped.
EntryEnd(w) ==
  /\ w \in Workers /\ pc[w] = "run"
  /\ ended' = [ended EXCEPT ![w] = IF trapped[w] THEN "trapped" ELSE "clean"]
  /\ pc' = [pc EXCEPT ![w] = "dropInbox"]
  /\ UNCHANGED <<spawner, thread, joins, trapped, queue, notified, code, history>>

DropEndpoint(w, at, d, next) ==
  /\ pc[w] = at
  /\ CloseQueue(w, d)
  /\ pc' = [pc EXCEPT ![w] = next]
  /\ UNCHANGED <<lifetimes, trapped, code, history>>

-----------------------------------------------------------------------------
(* The end of a Context: WorkerSet::shutdown. *)

Live(n) == {w \in Children(n) : thread[w] = "live"}

ShutdownClose(n, w) ==
  /\ pc[n] = "dropContext"
  /\ w \in Children(n) /\ ~queue[w]["input"].closed
  /\ CloseQueue(w, "input")
  /\ UNCHANGED <<pc, lifetimes, trapped, code, history>>

ShutdownJoin(n, w) ==
  /\ pc[n] = "dropContext"
  /\ \A v \in Children(n) : queue[v]["input"].closed
  /\ w \in Live(n) /\ pc[w] = "done"
  /\ thread' = [thread EXCEPT ![w] = "joined"]
  /\ UNCHANGED <<pc, spawner, ended, joins, trapped, queue, notified, code, history>>

\* Mutant: a Context ends without waiting for its workers.
ContextEndDetached(n) ==
  /\ pc[n] = "dropContext"
  /\ pc' = [pc EXCEPT ![n] = "done"]
  /\ UNCHANGED <<lifetimes, trapped, queue, notified, code, history>>

ContextEnd(n) ==
  /\ pc[n] = "dropContext"
  /\ \A w \in Children(n) : queue[w]["input"].closed
  /\ Live(n) = {}
  /\ pc' = [pc EXCEPT ![n] = "done"]
  /\ UNCHANGED <<lifetimes, trapped, queue, notified, code, history>>

-----------------------------------------------------------------------------
(* The session. *)

\* A host call enters script; it clears an earlier trap.
HostEnter ==
  /\ pc[Root] = "host"
  /\ pc' = [pc EXCEPT ![Root] = "run"]
  /\ trapped' = [trapped EXCEPT ![Root] = FALSE]
  /\ UNCHANGED <<lifetimes, queue, notified, code, history>>

HostReturn ==
  /\ pc[Root] = "run"
  /\ pc' = [pc EXCEPT ![Root] = "host"]
  /\ UNCHANGED <<lifetimes, trapped, queue, notified, code, history>>

\* Mutant: reload looks only at the script depth.
ReloadUnguarded ==
  /\ pc[Root] = "host"
  /\ Cardinality(modules) <= MaxReloads
  /\ modules' = modules \cup {Cardinality(modules)}
  /\ table' = [table EXCEPT ![Root] = Cardinality(modules)]
  /\ UNCHANGED <<pc, lifetimes, trapped, queue, notified, history>>

\* Mutant: the table's index is one past the module that was loaded.
ReloadPastEnd ==
  /\ pc[Root] = "host"
  /\ Live(Root) = {}
  /\ Cardinality(modules) <= MaxReloads
  /\ modules' = modules \cup {Cardinality(modules)}
  /\ table' = [table EXCEPT ![Root] = Cardinality(modules) + 1]
  /\ UNCHANGED <<pc, lifetimes, trapped, queue, notified, history>>

\* reload: refused with script on the stack or an unjoined worker; old code
\* stays loaded, and the table is replaced.
Reload ==
  /\ pc[Root] = "host"
  /\ Live(Root) = {}
  /\ Cardinality(modules) <= MaxReloads
  /\ modules' = modules \cup {Cardinality(modules)}
  /\ table' = [table EXCEPT ![Root] = Cardinality(modules)]
  /\ UNCHANGED <<pc, lifetimes, trapped, queue, notified, history>>

\* ReloadSession::drop: the Context first, the code after it.
SessionDrop ==
  /\ pc[Root] = "host"
  /\ pc' = [pc EXCEPT ![Root] = "dropContext"]
  /\ UNCHANGED <<lifetimes, trapped, queue, notified, code, history>>

FreeModules ==
  /\ pc[Root] = "done"
  /\ modules # {}
  /\ modules' = {}
  /\ UNCHANGED <<pc, lifetimes, trapped, queue, notified, table, history>>

-----------------------------------------------------------------------------
OwnerStep(n) ==
  \/ Fault(n) \/ Joined(n) \/ ContextEnd(n)
  \/ \E w \in Workers :
       \/ Spawn(n, w) \/ Post(n, w) \/ Close(n, w) \/ Join(n, w) \/ JoinAgain(n, w)
       \/ ShutdownClose(n, w) \/ ShutdownJoin(n, w)
       \/ \E fits \in BOOLEAN : Poll(n, w, fits)

WorkerStep(w) ==
  \/ Sleep(w) \/ Reply(w) \/ EntryEnd(w)
  \/ DropEndpoint(w, "dropInbox", "input", "dropOutbox")
  \/ DropEndpoint(w, "dropOutbox", "output", "dropContext")
  \/ \E b \in BOOLEAN : Initialize(w, b) \/ Receive(w, b) \/ Wake(w, b)

Session == HostEnter \/ HostReturn \/ Reload \/ SessionDrop \/ FreeModules

Next ==
  \/ \E n \in Nodes : OwnerStep(n)
  \/ \E w \in Workers : WorkerStep(w)
  \/ Session

Spec == Init /\ [][Next]_vars

\* Threads make progress, and an entry that does not block returns in the end.
Fairness ==
  /\ \A n \in Nodes :
       /\ WF_vars(Joined(n))
       /\ WF_vars(ContextEnd(n) \/ \E w \in Workers : ShutdownClose(n, w) \/ ShutdownJoin(n, w))
  /\ \A w \in Workers :
       /\ SF_vars(EntryEnd(w))
       /\ WF_vars(\E b \in BOOLEAN : Initialize(w, b) \/ Wake(w, b))
       /\ WF_vars(\/ DropEndpoint(w, "dropInbox", "input", "dropOutbox")
                  \/ DropEndpoint(w, "dropOutbox", "output", "dropContext"))

FairSpec == Spec /\ Fairness

-----------------------------------------------------------------------------
(* Properties. *)

\* Every variable has its type.
TypeOK ==
  /\ pc \in [Nodes -> {"none", "host", "init", "run", "asleep", "joining", "dropInbox",
                       "dropOutbox", "dropContext", "done"}]
  /\ spawner \in [Workers -> Nodes \cup {None}]
  /\ thread \in [Workers -> {"none", "live", "joined"}]
  /\ ended \in [Workers -> {"none", "clean", "trapped"}]
  /\ joins \in [Nodes -> Workers \cup {None}]
  /\ trapped \in [Nodes -> BOOLEAN]
  /\ queue \in [Workers -> [Directions ->
                  [messages : Seq(1 .. MaxPosts), closed : BOOLEAN]]]
  /\ notified \in [Workers -> BOOLEAN]
  /\ table \in [Nodes -> 0 .. MaxReloads]
  /\ modules \subseteq 0 .. MaxReloads
  /\ sent \in [Workers -> [Directions -> 0 .. MaxPosts]]
  /\ got \in [Workers -> [Directions -> Seq(1 .. MaxPosts)]]
  /\ lost \in [Workers -> [Directions -> Seq(1 .. MaxPosts)]]

Receiver(w, d) == IF d = "input" THEN w ELSE spawner[w]
Running(w) == pc[w] \notin {"none", "done"}

\* A queue delivers what was posted, once and in order, through closes, exits
\* and joins.  Only a receive that trapped its Context drops a record, and a
\* worker, which nobody clears, receives nothing after that.
Delivers ==
  \A w \in Workers, d \in Directions :
    /\ \A m \in 1 .. sent[w][d] :
         Cardinality({i \in DOMAIN got[w][d] : got[w][d][i] = m})
           + Cardinality({i \in DOMAIN lost[w][d] : lost[w][d][i] = m})
           + Cardinality({i \in DOMAIN queue[w][d].messages : queue[w][d].messages[i] = m}) = 1
    /\ \A i, j \in DOMAIN got[w][d] : i < j => got[w][d][i] < got[w][d][j]
    /\ (lost[w][d] # <<>> /\ Receiver(w, d) # Root) =>
         /\ trapped[Receiver(w, d)]
         /\ \A i \in DOMAIN got[w][d] : got[w][d][i] < Head(lost[w][d])

\* No code is replaced or freed under a worker: every thread of the tree runs
\* the session's current table, although reload looks only at the session's
\* own workers.
CodeStays ==
  \A w \in Workers : Running(w) => table[w] = table[Root] /\ table[w] \in modules

\* A worker never outlives the Context that spawned it.
NoOrphan ==
  \A w \in Workers : Running(w) => pc[spawner[w]] # "done"

\* A worker's failure is loud: a worker that joined a trapped worker in its
\* script is trapped, and its own outcome says so.
FailureIsLoud ==
  \A w \in Workers :
    LET n == spawner[w]
    IN  (thread[w] = "joined" /\ ended[w] = "trapped" /\ n \in Workers
           /\ pc[n] \in {"run", "asleep", "joining", "dropInbox"})
        => trapped[n] /\ ended[n] # "clean"

\* Releasing a Context ends: the close wakes every sleeping worker of the
\* tree, and each join returns.
ReleaseEnds == pc[Root] = "dropContext" ~> pc[Root] = "done"

\* A join of a closed worker returns.
JoinReturns ==
  \A n \in Nodes :
    (pc[n] = "joining" /\ queue[joins[n]]["input"].closed) ~> pc[n] # "joining"

\* A message to a sleeping worker wakes it.
PostWakes ==
  \A w \in Workers :
    (pc[w] = "asleep" /\ queue[w]["input"].messages # <<>>) ~> pc[w] # "asleep"
=============================================================================
