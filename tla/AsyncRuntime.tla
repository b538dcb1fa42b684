---------------------------- MODULE AsyncRuntime ----------------------------
(***************************************************************************)
(* The part of a Context that the async machinery owns, and the runtime    *)
(* functions that change it (runtime/src/context/async_scheduler.rs,       *)
(* task_group.rs, exception.rs, and the trap state of lifecycle.rs).       *)
(*                                                                         *)
(* The Context is one record, as it is one struct in the code, and every   *)
(* `&mut self` function is an operator from a Context to a Context: a      *)
(* handler that calls several of them is their composition.  The modules   *)
(* that extend this one declare the variables and the actions.             *)
(*                                                                         *)
(* A frame is an address.  A member of Frames that is registered again     *)
(* after it was freed is an allocation that reuses the address.            *)
(***************************************************************************)
EXTENDS Integers, Sequences, FiniteSets, Functions

CONSTANTS Frames,   \* addresses of coroutine, aggregate, join and source headers
          Groups,   \* addresses of task groups
          None      \* the null pointer

ASSUME FramesFinite == IsFiniteSet(Frames)
ASSUME NoneIsNoAddress == None \notin Frames \cup Groups

(***************************************************************************)
(* AsyncJob: a continuation of an invocation, or a reaction to one input   *)
(* of an aggregate or of a task group.                                     *)
(***************************************************************************)
Invocation(f) == [tag |-> "invocation", at |-> f, index |-> 0]
AggregateReaction(h, i) == [tag |-> "aggregate", at |-> h, index |-> i]
GroupReaction(g, i) == [tag |-> "group", at |-> g, index |-> i]

Job == [tag : {"invocation"}, at : Frames, index : {0}]
         \cup [tag : {"aggregate"}, at : Frames, index : Nat]
         \cup [tag : {"group"}, at : Groups, index : Nat]

JobList == Seq(Job)
FrameList == Seq(Frames)
Inputs == Seq(Frames \cup {None})   \* a reaction takes its input and leaves None

TrapKinds == {"UncaughtException", "Internal", "StaleCoroutine", "TaskGroup", "Fault"}

\* One AsyncFrameMeta, with the count word of the frame's header.  Kind
\* "none" is an address that async_frames does not hold.  `stale` is the
\* comparison of created_epoch with the reload epoch.
FrameMeta ==
  [kind       : {"none", "invocation", "aggregate", "join", "source"},
   count      : Nat,
   completion : {"none", "value", "exception"},
   observed   : BOOLEAN,
   waiters    : JobList,
   hostRoot   : BOOLEAN,
   stale      : BOOLEAN,
   inputs     : Inputs,             \* Aggregate::inputs
   remaining  : Nat,                \* Aggregate::remaining
   reported   : BOOLEAN,            \* Aggregate::reported
   group      : Groups \cup {None}, \* RuntimeTask::GroupJoin
   operation  : Nat,                \* HostOperation::operation_id
   producer   : BOOLEAN]            \* HostOperation::producer

Unregistered ==
  [kind |-> "none", count |-> 0, completion |-> "none", observed |-> FALSE,
   waiters |-> <<>>, hostRoot |-> FALSE, stale |-> FALSE, inputs |-> <<>>,
   remaining |-> 0, reported |-> FALSE, group |-> None, operation |-> 0,
   producer |-> FALSE]

\* One task_group::Group; live says that task_groups holds it.
GroupState ==
  [live : BOOLEAN, lexical : BOOLEAN, closed : BOOLEAN,
   inputs : Inputs, remaining : Nat, failed : Nat,
   join : Frames \cup {None}]

NoGroup == [live |-> FALSE, lexical |-> FALSE, closed |-> FALSE, inputs |-> <<>>,
            remaining |-> 0, failed |-> 0, join |-> None]

NoJob == [job |-> Invocation(None), kind |-> "none"]

Contexts ==
  [meta     : [Frames -> FrameMeta],
   ready    : JobList,
   parked   : FrameList,
   stopped  : SUBSET Frames,
   groups   : [Groups -> GroupState],
   word     : {"clear", "trap", "exception"},   \* the word at offset 0
   trap     : TrapKinds \cup {"none"},          \* the trap record
   trapping : [job : Job, kind : TrapKinds] \cup {NoJob}]

NewContext ==
  [meta     |-> [f \in Frames |-> Unregistered],
   ready    |-> <<>>, parked |-> <<>>, stopped |-> {},
   groups   |-> [g \in Groups |-> NoGroup],
   word     |-> "clear", trap |-> "none", trapping |-> NoJob]

\* async_frames[f] := m
SetMeta(c, f, m) == [c EXCEPT !.meta = [@ EXCEPT ![f] = m]]

Registered(c, f) == f \in Frames /\ c.meta[f].kind # "none"
Unfinished(c, f) == Registered(c, f) /\ c.meta[f].completion = "none"
Unobserved(m) == m.completion = "exception" /\ ~m.observed

-----------------------------------------------------------------------------
(* The trap word. *)

\* The word is read as one flag: a pending exception also stops generated code.
Trapped(c) == c.word # "clear"

\* Context::trap: the first trap keeps its record; every trap raises the word
\* and drops a pending exception.
Trap(c, kind) ==
  [c EXCEPT !.word = "trap", !.trap = IF @ = "none" THEN kind ELSE @]

\* raise_exception: a trap wins, and a second pending exception is a defect.
RaiseException(c) ==
  CASE c.word = "trap" -> c
    [] c.word = "exception" -> Trap(c, "Internal")
    [] c.word = "clear" -> [c EXCEPT !.word = "exception"]

SettleUncaughtException(c) ==
  IF c.word = "exception" THEN Trap(c, "UncaughtException") ELSE c

-----------------------------------------------------------------------------
(* Registration and counts. *)

\* async_register of a fresh allocation, with the kind its creator gives it.
Register(c, f, m) == SetMeta(c, f, [m EXCEPT !.count = 1])

Retain(c, f) ==
  IF Registered(c, f) THEN SetMeta(c, f, [c.meta[f] EXCEPT !.count = @ + 1]) ELSE c

\* Mutant: a continuation never waits.
EnqueueAlwaysReady(c, handle, job) == [c EXCEPT !.ready = Append(@, job)]

\* The rule that an await, Promise.all and TaskGroup.add share: an unfinished
\* handle keeps the job, any other handle makes it ready at the tail.
Enqueue(c, handle, job) ==
  IF Unfinished(c, handle)
  THEN SetMeta(c, handle, [c.meta[handle] EXCEPT !.waiters = Append(@, job)])
  ELSE [c EXCEPT !.ready = Append(@, job)]

\* Mutant: the second completion wins.
CompleteWithOverwrite(c, f, completion) ==
  IF Registered(c, f)
  THEN [SetMeta(c, f, [c.meta[f] EXCEPT !.completion = completion, !.waiters = <<>>])
          EXCEPT !.ready = @ \o c.meta[f].waiters]
  ELSE c

\* Caches a completion and moves the waiters to the tail of the ready queue.
\* A completion is immutable.
CompleteWith(c, f, completion) ==
  IF Unfinished(c, f)
  THEN [SetMeta(c, f, [c.meta[f] EXCEPT !.completion = completion, !.waiters = <<>>])
          EXCEPT !.ready = @ \o c.meta[f].waiters]
  ELSE c

Complete(c, f) == CompleteWith(c, f, "value")

\* async_complete_exception at the unwind exit of a resume function.
CompleteException(c, f) ==
  CASE c.word # "exception" -> c
    [] c.word = "exception" /\ Unfinished(c, f) /\ ~c.meta[f].hostRoot ->
         CompleteWith([c EXCEPT !.word = "clear"], f, "exception")
    [] OTHER -> SettleUncaughtException(c)

\* task_group_cleanup: the group ends with its scope, its join and its inputs.
TaskGroupCleanup(c, g) ==
  LET s == c.groups[g]
  IN  IF s.live /\ ~s.lexical /\ s.join = None /\ s.remaining = 0
      THEN [c EXCEPT !.groups[g] = NoGroup]
      ELSE c

\* Mutant: the group keeps the address of its freed join.
TaskGroupJoinReleasedKeeps(c, g) == TaskGroupCleanup(c, g)

TaskGroupJoinReleased(c, g) ==
  TaskGroupCleanup(IF c.groups[g].live THEN [c EXCEPT !.groups[g].join = None] ELSE c, g)

\* async_release_runtime keeps a task whose reactions have not all run.
KeptForReactions(c, f) ==
  LET m == c.meta[f]
  IN  \/ m.kind = "aggregate" /\ m.remaining # 0
      \/ m.kind = "join" /\ c.groups[m.group].live /\ c.groups[m.group].remaining # 0

Free(c, f) ==
  LET d == SetMeta(c, f, Unregistered)
  IN  IF c.meta[f].kind = "join" THEN TaskGroupJoinReleased(d, c.meta[f].group) ELSE d

\* Mutant: the last holder drops an exception that nobody observed.
ReleaseSilently(c, f) ==
  IF ~Registered(c, f) THEN c
  ELSE IF c.meta[f].count > 1 \/ c.meta[f].completion = "none"
       THEN SetMeta(c, f, [c.meta[f] EXCEPT !.count = @ - 1])
       ELSE Free(c, f)

\* async_release: the last holder of a completed task frees it, and an
\* exception that nobody observed becomes a trap.  An unfinished task stays.
Release(c, f) ==
  IF ~Registered(c, f) THEN c
  ELSE LET m == c.meta[f]
           n == IF m.count = 0 THEN 0 ELSE m.count - 1
           d == SetMeta(c, f, [m EXCEPT !.count = n])
       IN  IF n # 0 \/ m.completion = "none" THEN d
           ELSE LET e == IF KeptForReactions(d, f)
                         THEN SetMeta(d, f, [d.meta[f] EXCEPT !.reported =
                                               @ \/ (m.kind = "aggregate" /\ Unobserved(m))])
                         ELSE Free(d, f)
                IN  IF Unobserved(m) THEN Trap(e, "UncaughtException") ELSE e

\* async_result: a resumed await reads the cached completion; an exception
\* is observed and becomes pending again.
Result(c, f) ==
  IF c.meta[f].completion = "exception"
  THEN RaiseException(SetMeta(c, f, [c.meta[f] EXCEPT !.observed = TRUE]))
  ELSE c

-----------------------------------------------------------------------------
(* Host clearance and reload. *)

\* async_clear_trapping_job: an invocation stops for good; an aggregate whose
\* reactions have all run and that nobody holds is freed.
ClearTrappingJob(c, job) ==
  CASE job.tag = "invocation" -> [c EXCEPT !.stopped = @ \cup {job.at}]
    [] job.tag = "group" -> c
    [] job.tag = "aggregate" ->
         IF c.meta[job.at].kind = "aggregate" /\ c.meta[job.at].remaining = 0
              /\ c.meta[job.at].count = 0
         THEN SetMeta(c, job.at, Unregistered)
         ELSE c

\* The queue without a job; a job is never queued twice (OnePlace).
Dequeue(queue, job) ==
  IF \A i \in DOMAIN queue : queue[i] # job THEN queue
  ELSE LET at == CHOOSE i \in DOMAIN queue : queue[i] = job
       IN  [i \in 1 .. Len(queue) - 1 |-> IF i < at THEN queue[i] ELSE queue[i + 1]]

\* Mutant: clearance stops the frame and leaves its job queued.
ClearTrapKeepsJob(c) ==
  LET t == c.trapping
      d == IF t.kind \in {"none", "StaleCoroutine"} THEN c ELSE ClearTrappingJob(c, t.job)
  IN  [d EXCEPT !.trapping = NoJob, !.trap = "none", !.word = "clear"]

\* clear_trap: a trapping job leaves the queue unless its frame was stale.
ClearTrap(c) ==
  LET t == c.trapping
      d == IF t.kind \in {"none", "StaleCoroutine"} THEN c
           ELSE ClearTrappingJob([c EXCEPT !.ready = Dequeue(@, t.job)], t.job)
  IN  [d EXCEPT !.trapping = NoJob, !.trap = "none", !.word = "clear"]

\* bump_reload_epoch: every registered frame predates the new epoch.
BumpReloadEpoch(c) ==
  [c EXCEPT !.meta = [f \in Frames |->
     IF Registered(c, f) THEN [c.meta[f] EXCEPT !.stale = TRUE] ELSE c.meta[f]]]

\* async_is_stale: a host operation has no code and never goes stale.
IsStale(c, f) == Registered(c, f) /\ c.meta[f].stale /\ c.meta[f].kind # "source"
=============================================================================
