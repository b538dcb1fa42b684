----------------------------- MODULE AsyncSystem -----------------------------
(***************************************************************************)
(* The scheduler with the tasks that have no frame of their own: task      *)
(* groups and their joins (section 170), Promise.all aggregates (166) and  *)
(* host operations (178).  They share the ready queue, the waiter lists,   *)
(* the counts and the trap state of AsyncScheduler.                        *)
(*                                                                         *)
(* A program is the set of parts that it uses, chosen in the initial       *)
(* state, so that one run gives each part the state space it needs; a      *)
(* program with all of them is one value.                                  *)
(***************************************************************************)
EXTENDS AsyncScheduler
LOCAL INSTANCE SequencesExt

CONSTANTS Programs,      \* each a set of AllFeatures, the parts that it uses
          MaxInputs,     \* inputs of one group or aggregate
          MaxOperations  \* host operations that script starts

AllFeatures == {"group", "all", "operation", "raise", "fault", "copy",
                 "root", "export", "reload", "drain"}

ASSUME ProgramsAssumption == Programs \subseteq SUBSET AllFeatures
ASSUME InputsAssumption == MaxInputs \in Nat /\ MaxOperations \in Nat

VARIABLES
  program,         \* the parts that the program uses
  nextOperation,   \* Context::next_host_operation_id
  accepted         \* history: the operations whose completion returned Ok

tasks == <<program, nextOperation, accepted>>
sysVars == <<vars, tasks>>

-----------------------------------------------------------------------------
(* Task groups. *)

\* Mutant: a dropped join is freed without a report.
TaskGroupSettleSilently(c, g) ==
  LET s == c.groups[g]
      d == CompleteWith(c, s.join, IF s.failed > 0 THEN "exception" ELSE "value")
  IN  IF ~s.live \/ s.remaining # 0 \/ s.join = None \/ ~Unfinished(c, s.join) THEN c
      ELSE IF d.meta[s.join].count # 0 THEN d
      ELSE TaskGroupJoinReleased(SetMeta(d, s.join, Unregistered), g)

\* task_group_settle: the last reaction, or a join of no pending input,
\* completes the join; a join that nobody holds is freed, and its exception
\* is reported.
TaskGroupSettle(c, g) ==
  LET s == c.groups[g]
      h == s.join
      d == CompleteWith(c, h, IF s.failed > 0 THEN "exception" ELSE "value")
  IN  CASE ~s.live \/ s.remaining # 0 \/ h = None -> c
        [] OTHER ->
             IF ~Unfinished(c, h) THEN c
             ELSE IF d.meta[h].count # 0 THEN d
             ELSE LET e == TaskGroupJoinReleased(SetMeta(d, h, Unregistered), g)
                  IN  IF s.failed > 0 THEN Trap(e, "UncaughtException") ELSE e

\* Mutant: an add that traps keeps the count of its argument.
TaskGroupAddKeepsCount(c, g, input) ==
  LET s == c.groups[g]
      d == [c EXCEPT !.groups[g].inputs = Append(@, input), !.groups[g].remaining = @ + 1]
  IN  IF s.closed THEN Trap(c, "TaskGroup")
      ELSE Enqueue(d, input, GroupReaction(g, Len(s.inputs) + 1))

\* Mutant: a completed input gets no reaction.
TaskGroupAddOnlyWaits(c, g, input) ==
  LET s == c.groups[g]
      d == [c EXCEPT !.groups[g].inputs = Append(@, input), !.groups[g].remaining = @ + 1]
  IN  IF s.closed THEN Release(Trap(c, "TaskGroup"), input)
      ELSE IF Unfinished(c, input)
           THEN Enqueue(d, input, GroupReaction(g, Len(s.inputs) + 1)) ELSE d

\* task_group_add: the input's count moves to the group, or ends with a trap.
TaskGroupAdd(c, g, input) ==
  LET s == c.groups[g]
      d == [c EXCEPT !.groups[g].inputs = Append(@, input), !.groups[g].remaining = @ + 1]
  IN  CASE s.closed -> Release(Trap(c, "TaskGroup"), input)
        [] ~s.closed /\ Registered(c, input) ->
             Enqueue(d, input, GroupReaction(g, Len(s.inputs) + 1))
        [] ~s.closed /\ ~Registered(c, input) -> Trap(d, "Internal")

\* Mutant: a join after the last reaction waits for another one.
TaskGroupJoinUnsettled(c, g, h) ==
  LET d == Register(c, h, [Unregistered EXCEPT !.kind = "join", !.group = g])
  IN  [d EXCEPT !.groups[g].closed = TRUE, !.groups[g].join = h]

\* task_group_join of an open group.
TaskGroupJoin(c, g, h) ==
  LET d == Register(c, h, [Unregistered EXCEPT !.kind = "join", !.group = g])
  IN  TaskGroupSettle([d EXCEPT !.groups[g].closed = TRUE, !.groups[g].join = h], g)

\* task_group_release counts the inputs whose reaction has not run.
Pending(c, g) == {c.groups[g].inputs[i] : i \in DOMAIN c.groups[g].inputs} \ {None}
ScopeFails(c, g) ==
  \/ c.groups[g].failed # 0
  \/ \E f \in Pending(c, g) : c.meta[f].completion # "value"

TaskGroupRelease(c, g) ==
  LET d == [c EXCEPT !.groups[g].lexical = FALSE]
  IN  TaskGroupCleanup(IF ~c.groups[g].closed /\ ScopeFails(c, g)
                       THEN Trap(d, "TaskGroup") ELSE d, g)

\* A reaction reads a completion and marks its exception observed.
Observe(c, f) ==
  IF c.meta[f].completion = "exception"
  THEN SetMeta(c, f, [c.meta[f] EXCEPT !.observed = TRUE]) ELSE c

\* task_group_react takes the input, so a second reaction is a defect.
TaskGroupReact(c, g, i) ==
  LET s == c.groups[g]
      input == IF s.live /\ i \in DOMAIN s.inputs THEN s.inputs[i] ELSE None
      d == [c EXCEPT !.groups[g].inputs[i] = None]
  IN  CASE input = None -> Trap(c, "Internal")
        [] input # None /\ ~Completed(c, input) -> Trap(d, "Internal")
        [] input # None /\ Completed(c, input) ->
             LET failed == IF c.meta[input].completion = "exception" THEN 1 ELSE 0
                 e == [Observe(d, input) EXCEPT !.groups[g].remaining = @ - 1,
                                                !.groups[g].failed = @ + failed]
             IN  TaskGroupCleanup(TaskGroupSettle(Release(e, input), g), g)

-----------------------------------------------------------------------------
(* Promise.all. *)

\* Mutant: the snapshot borrows its inputs.
AsyncAllBorrows(c, h, inputs) ==
  LET m == [Unregistered EXCEPT !.kind = "aggregate", !.inputs = inputs,
                                !.remaining = Len(inputs)]
      d == FoldLeftDomain(LAMBDA e, i : Enqueue(e, inputs[i], AggregateReaction(h, i)),
                          Register(c, h, m), inputs)
  IN  IF inputs = <<>> THEN Complete(d, h) ELSE d

\* Mutant: a completed input gets no reaction.
AsyncAllOnlyWaits(c, h, inputs) ==
  LET m == [Unregistered EXCEPT !.kind = "aggregate", !.inputs = inputs,
                                !.remaining = Len(inputs)]
      retained == FoldLeft(Retain, Register(c, h, m), inputs)
      d == FoldLeftDomain(LAMBDA e, i : IF Completed(e, inputs[i]) THEN e
                                        ELSE Enqueue(e, inputs[i], AggregateReaction(h, i)),
                          retained, inputs)
  IN  IF inputs = <<>> THEN Complete(d, h) ELSE d

\* Mutant: an aggregate of no input waits for a reaction.
AsyncAllEmptyWaits(c, h, inputs) ==
  LET m == [Unregistered EXCEPT !.kind = "aggregate", !.inputs = inputs,
                                !.remaining = Len(inputs)]
      retained == FoldLeft(Retain, Register(c, h, m), inputs)
  IN  FoldLeftDomain(LAMBDA e, i : Enqueue(e, inputs[i], AggregateReaction(h, i)),
                     retained, inputs)

\* async_all: a snapshot of the handle array, one count and one reaction for
\* each element.
AsyncAll(c, h, inputs) ==
  LET m == [Unregistered EXCEPT !.kind = "aggregate", !.inputs = inputs,
                                !.remaining = Len(inputs)]
      retained == FoldLeft(Retain, Register(c, h, m), inputs)
      d == FoldLeftDomain(LAMBDA e, i : Enqueue(e, inputs[i], AggregateReaction(h, i)),
                          retained, inputs)
  IN  IF inputs = <<>> THEN Complete(d, h) ELSE d

\* Mutant: the last reaction frees a dropped aggregate without a report.
DroppedAggregateSilently(c, h, last) == IF last THEN SetMeta(c, h, Unregistered) ELSE c

\* The end of async_all_react for an aggregate that nobody holds: its
\* exception is reported once, and the last reaction frees it.
DroppedAggregate(c, h, last) ==
  LET m == c.meta[h]
      report == ~m.reported /\ Unobserved(m)
      d == IF report THEN Trap(SetMeta(c, h, [m EXCEPT !.reported = TRUE]), "UncaughtException")
           ELSE c
  IN  IF last /\ ~Trapped(d) THEN SetMeta(d, h, Unregistered) ELSE d

\* async_all_react: the first exception completes the aggregate at once, the
\* last value completes it otherwise, and every reaction ends one input count.
AsyncAllReact(c, h, i) ==
  LET m == c.meta[h]
      input == IF m.kind = "aggregate" /\ i \in DOMAIN m.inputs THEN m.inputs[i] ELSE None
      last == m.remaining = 1
      fulfilled == m.completion = "none"
      d == SetMeta(c, h, [m EXCEPT !.inputs = [@ EXCEPT ![i] = None], !.remaining = @ - 1])
  IN  CASE input = None -> Trap(c, "Internal")
        [] input # None /\ ~Completed(c, input) -> Trap(d, "Internal")
        [] input # None /\ Completed(c, input) ->
             LET o == Observe(d, input)
                 e == CASE c.meta[input].completion = "value" ->
                             IF last /\ fulfilled THEN Complete(o, h) ELSE o
                        [] c.meta[input].completion = "exception" ->
                             IF fulfilled THEN CompleteException(RaiseException(o), h) ELSE o
                 r == Release(e, input)
             IN  IF r.meta[h].count = 0 THEN DroppedAggregate(r, h, last) ELSE r

-----------------------------------------------------------------------------
(* Host operations. *)

\* host_operations: the live source of an operation id.
Source(c, op) == {f \in Frames : c.meta[f].kind = "source" /\ c.meta[f].operation = op}

\* Mutant: every source gets the first id.
HostOperationNewSameId(c, h) ==
  Retain(Register(c, h, [Unregistered EXCEPT !.kind = "source",
                           !.operation = 1, !.producer = TRUE]), h)

\* host_operation_new: one count for the script and one for the producer.
HostOperationNew(c, h) ==
  Retain(Register(c, h, [Unregistered EXCEPT !.kind = "source",
                           !.operation = nextOperation, !.producer = TRUE]), h)

\* host_operation_lookup, for an endpoint of this Context.
HostOperationLookup(c, op) ==
  CASE c.trap # "none" -> "Trapped"
    [] c.trap = "none" /\ Source(c, op) = {} -> "Stale"
    [] c.trap = "none" /\ Source(c, op) # {} ->
         IF \E f \in Source(c, op) : Completed(c, f) THEN "Duplicate" ELSE "Ok"

\* Mutant: the completion keeps the producer's count.
HostOperationFinishKeepsCount(c, f, completion) ==
  CompleteWith(SetMeta(c, f, [c.meta[f] EXCEPT !.producer = FALSE]), f, completion)

\* host_operation_finish: the completion, the waiters, and the producer count.
HostOperationFinish(c, f, completion) ==
  IF ~c.meta[f].producer THEN c
  ELSE Release(CompleteWith(SetMeta(c, f, [c.meta[f] EXCEPT !.producer = FALSE]),
                            f, completion), f)

-----------------------------------------------------------------------------
(* Actions. *)

SysInit ==
  /\ Init
  /\ program \in Programs
  /\ nextOperation = 1
  /\ accepted = {}

Uses(feature) == feature \in program

GroupCreate(g) ==
  /\ Uses("group") /\ Runs
  /\ ~ctx.groups[g].live
  /\ ctx' = [ctx EXCEPT !.groups[g] = [NoGroup EXCEPT !.live = TRUE, !.lexical = TRUE]]
  /\ UNCHANGED <<held, scriptUnchanged, tasks>>

\* Only a void task can be added; an aggregate has an array result.
GroupAdd(g, h) ==
  /\ Runs
  /\ ctx.groups[g].lexical
  /\ Len(ctx.groups[g].inputs) < MaxInputs
  /\ held[h] > 0 /\ ctx.meta[h].kind # "aggregate"
  /\ ctx' = TaskGroupAdd(ctx, g, h)
  /\ held' = [held EXCEPT ![h] = @ - 1]
  /\ UNCHANGED <<scriptUnchanged, tasks>>

GroupJoin(g, h) ==
  /\ Runs
  /\ ctx.groups[g].lexical /\ ~ctx.groups[g].closed
  /\ ~Registered(ctx, h)
  /\ ctx' = TaskGroupJoin(ctx, g, h)
  /\ held' = [held EXCEPT ![h] = 1]
  /\ UNCHANGED <<scriptUnchanged, tasks>>

GroupJoinAgain(g) ==
  /\ Runs
  /\ ctx.groups[g].lexical /\ ctx.groups[g].closed
  /\ ctx' = Trap(ctx, "TaskGroup")
  /\ UNCHANGED <<held, scriptUnchanged, tasks>>

\* The declaring scope ends, on the normal path or on an exception exit.
GroupRelease(g) ==
  /\ stack # <<>> /\ ctx.word # "trap"
  /\ ctx.groups[g].lexical
  /\ ctx' = TaskGroupRelease(ctx, g)
  /\ UNCHANGED <<held, scriptUnchanged, tasks>>

All(h, inputs) ==
  /\ Uses("all") /\ Runs
  /\ ~Registered(ctx, h)
  /\ \A i \in DOMAIN inputs : held[inputs[i]] > 0
  /\ ctx' = AsyncAll(ctx, h, inputs)
  /\ held' = [held EXCEPT ![h] = 1]
  /\ UNCHANGED <<scriptUnchanged, tasks>>

Operate(h) ==
  /\ Uses("operation") /\ Runs
  /\ nextOperation <= MaxOperations
  /\ ~Registered(ctx, h)
  /\ ctx' = HostOperationNew(ctx, h)
  /\ held' = [held EXCEPT ![h] = 1]
  /\ nextOperation' = nextOperation + 1
  /\ UNCHANGED <<scriptUnchanged, program, accepted>>

\* A completion call from the host, at a boundary or inside a host call that
\* script makes.  The endpoint is any that the host was given; every status
\* but Ok leaves the Context as it is.
HostComplete(op, completion) ==
  /\ AtBoundary \/ Runs
  /\ op < nextOperation
  /\ IF HostOperationLookup(ctx, op) = "Ok"
     THEN /\ accepted' = accepted \cup {op}
          /\ \E f \in Source(ctx, op) : ctx' = HostOperationFinish(ctx, f, completion)
     ELSE UNCHANGED <<accepted, ctx>>
  /\ UNCHANGED <<held, scriptUnchanged, program, nextOperation>>

\* The allocation for the completed value or for its Error fails.
HostCompleteTraps(op) ==
  /\ Uses("fault")
  /\ AtBoundary \/ Runs
  /\ op < nextOperation
  /\ HostOperationLookup(ctx, op) = "Ok"
  /\ ctx' = Trap(ctx, "Fault")
  /\ UNCHANGED <<held, scriptUnchanged, program, nextOperation, accepted>>

\* A value of another kind or size, or text that is not UTF-8.
HostCompleteRefused(op) ==
  /\ Uses("fault")
  /\ AtBoundary \/ Runs
  /\ op < nextOperation
  /\ HostOperationLookup(ctx, op) = "Ok"
  /\ UNCHANGED sysVars

\* Mutant: a reaction that the budget ends on is dropped.
DrainReactOverBudget ==
  /\ Draining /\ left # 0 /\ ctx.ready # <<>>
  /\ Head(ctx.ready).tag # "invocation"
  /\ LET job == Head(ctx.ready)
         c == [ctx EXCEPT !.ready = Tail(@)]
     IN  ctx' = IF left = 1 THEN c
                ELSE IF job.tag = "group" THEN TaskGroupReact(c, job.at, job.index)
                ELSE AsyncAllReact(c, job.at, job.index)
  /\ left' = NextLeft
  /\ UNCHANGED <<entry, stack, held, slot, state, dirty, tasks>>

\* The drain dispatches a reaction; a trap keeps the job at the head.
DrainReact ==
  /\ Draining /\ left # 0 /\ ctx.ready # <<>>
  /\ Head(ctx.ready).tag # "invocation"
  /\ LET job == Head(ctx.ready)
         c == [ctx EXCEPT !.ready = Tail(@)]
         d == IF job.tag = "group" THEN TaskGroupReact(c, job.at, job.index)
              ELSE AsyncAllReact(c, job.at, job.index)
     IN  IF Trapped(d)
         THEN /\ ctx' = [d EXCEPT !.trapping = [job |-> job, kind |-> d.trap],
                                  !.ready = <<job>> \o @]
              /\ entry' = "none"
              /\ left' = Unlimited
         ELSE /\ ctx' = d
              /\ left' = NextLeft
              /\ entry' = entry
  /\ UNCHANGED <<stack, held, slot, state, dirty, tasks>>

-----------------------------------------------------------------------------
\* A host that uses "drain" also steps without a budget.
Step == \E limit \in Limits : (limit = Unlimited => Uses("drain")) /\ HostStep(limit)

\* The steps of AsyncScheduler that the program and the host use.
SchedulerStep ==
  \/ \E f \in Frames : Call(f) \/ Drop(f)
  \/ \E h \in Frames, owned \in BOOLEAN : Await(h, owned)
  \/ Suspend \/ Return \/ Unwind \/ ExportReturn
  \/ Uses("copy") /\ \E f \in Frames : Copy(f)
  \/ Uses("raise") /\ (Raise \/ Catch)
  \/ Uses("fault") /\ Fault
  \/ Uses("export") /\ HostExport
  \/ Uses("root") /\ \E f \in Frames : HostKick(f)
  \/ HostClearTrap
  \/ Step
  \/ Uses("reload") /\ (Reload \/ \E h \in Frames : AwaitStale(h))
  \/ DrainResume \/ DrainRefuse \/ DrainEnd

GroupStep ==
  \E g \in Groups :
    \/ GroupCreate(g) \/ GroupJoinAgain(g) \/ GroupRelease(g)
    \/ \E h \in Frames : GroupAdd(g, h) \/ GroupJoin(g, h)

HandleLists == UNION {[1 .. n -> Frames] : n \in 0 .. MaxInputs}

OperationStep ==
  \/ \E h \in Frames : Operate(h)
  \/ \E op \in 1 .. MaxOperations :
       \/ HostCompleteTraps(op) \/ HostCompleteRefused(op)
       \/ \E completion \in {"value", "exception"} : HostComplete(op, completion)

SysNext ==
  \/ SchedulerStep /\ UNCHANGED tasks
  \/ GroupStep
  \/ \E h \in Frames, inputs \in HandleLists : All(h, inputs)
  \/ OperationStep
  \/ DrainReact

SysSpec == SysInit /\ [][SysNext]_sysVars

\* Between two reloads: every script body ends, a checkpoint runs on, and the
\* host keeps clearing traps and stepping.
SysFairness ==
  /\ \A f \in Frames : SF_sysVars(EndOf(f) /\ UNCHANGED tasks)
  /\ SF_sysVars(ExportReturn /\ UNCHANGED tasks)
  /\ WF_sysVars(DrainReact \/ (Drain /\ UNCHANGED tasks))
  /\ SF_sysVars(HostClearTrap /\ UNCHANGED tasks)
  /\ SF_sysVars(Step /\ UNCHANGED tasks)

FairSysSpec == SysSpec /\ SysFairness

-----------------------------------------------------------------------------
(* Properties. *)

\* Every variable has its type.
SysTypeOK ==
  /\ TypeOK
  /\ program \in Programs
  /\ nextOperation \in 1 .. MaxOperations + 1
  /\ accepted \subseteq 1 .. MaxOperations

\* The inputs that reactions still hold: of every aggregate and group.
Keepers(f) ==
  {<<h, i>> \in Frames \X (1 .. MaxInputs) :
     i \in DOMAIN ctx.meta[h].inputs /\ ctx.meta[h].inputs[i] = f}
  \cup {<<g, i>> \in Groups \X (1 .. MaxInputs) :
     i \in DOMAIN ctx.groups[g].inputs /\ ctx.groups[g].inputs[i] = f}

SysHolders(f) ==
  Holders(f) + Cardinality(Keepers(f)) + (IF ctx.meta[f].producer THEN 1 ELSE 0)

\* No task is freed under a holder: the count word of an invocation, an
\* aggregate, a join or a source covers the script variables, the awaits, the
\* group and aggregate inputs and the host's producer. While no body was
\* interrupted, every count is some holder's.
SysCountMatchesHolders ==
  \A f \in Frames :
    LET holders == SysHolders(f)
    IN  /\ IF Registered(ctx, f) THEN ctx.meta[f].count >= holders ELSE holders = 0
        /\ Uninterrupted /\ Registered(ctx, f) => ctx.meta[f].count = holders

\* Where a reaction is registered: in the ready queue or in a waiter list.
Reactions(job) ==
  Cardinality({i \in DOMAIN ctx.ready : ctx.ready[i] = job /\ ctx.trapping.job # job})
  + Cardinality(UNION {{h} \X {i \in DOMAIN ctx.meta[h].waiters : ctx.meta[h].waiters[i] = job} :
                       h \in Frames})

\* Every input of a group or of an aggregate has exactly one reaction until
\* that reaction took it, and `remaining` counts those inputs.
ReactsOnce ==
  LET Accounted(inputs, remaining, Reaction(_)) ==
        /\ remaining = Cardinality({i \in DOMAIN inputs : inputs[i] # None})
        /\ \A i \in DOMAIN inputs :
             Reactions(Reaction(i)) = IF inputs[i] = None THEN 0 ELSE 1
  IN  /\ \A g \in Groups :
           Accounted(ctx.groups[g].inputs, ctx.groups[g].remaining,
                     LAMBDA i : GroupReaction(g, i))
      /\ \A h \in Frames :
           Accounted(ctx.meta[h].inputs, ctx.meta[h].remaining,
                     LAMBDA i : AggregateReaction(h, i))

\* A join and its group name each other for as long as either is live, even
\* when the address of a freed group or join is used again.
JoinNamesGroup ==
  /\ \A h \in Frames :
       ctx.meta[h].kind = "join" => ctx.groups[ctx.meta[h].group].join = h
  /\ \A g \in Groups :
       ctx.groups[g].join # None => /\ ctx.meta[ctx.groups[g].join].kind = "join"
                                    /\ ctx.meta[ctx.groups[g].join].group = g

\* A join completes in the step that runs the last reaction, and an aggregate
\* has a value only after it: no awaiter of either is left behind or early.
SettlesWithLast ==
  \A h \in Frames :
    LET m == ctx.meta[h]
    IN  /\ m.kind = "join" =>
             (m.completion # "none" <=> ctx.groups[m.group].remaining = 0)
        /\ m.kind = "aggregate" =>
             /\ m.remaining = 0 => m.completion # "none"
             /\ m.completion = "value" => m.remaining = 0

\* A host operation can be completed exactly once: until the host's first
\* accepted call its source is live, whatever script does with the handle,
\* and the id never names a second source.
CompletesOnce ==
  \A op \in 1 .. nextOperation - 1 :
    /\ Cardinality(Source(ctx, op)) <= 1
    /\ op \notin accepted <=> \E f \in Source(ctx, op) : Unfinished(ctx, f)

\* A task that failed, or a join whose group did, with no await to tell.
Failing(g) ==
  \/ ctx.groups[g].failed > 0
  \/ \E f \in Pending(ctx, g) : ctx.meta[f].completion = "exception"
Failed(m) == Unobserved(m) \/ (m.kind = "join" /\ ~m.observed /\ Failing(m.group))

\* The failure of an input passes to the aggregate or the group that took it.
\* A group whose scope ended open was reported when its scope ended.
PassedOn(f) ==
  \/ \E h \in Frames :
       /\ \E i \in DOMAIN ctx.meta[h].inputs : ctx.meta[h].inputs[i] = f
       /\ "exception" \in {ctx.meta[h].completion, ctx'.meta[h].completion}
  \/ \E g \in Groups :
       /\ f \in Pending(ctx, g)
       /\ \/ ctx'.groups[g].failed > 0
          \/ ~ctx.groups[g].lexical /\ ~ctx.groups[g].closed

\* No failure is lost: the step that frees a failed task which no await
\* observed traps or passes the failure on, unless an earlier step did.
FailureReported ==
  [][\A f \in Frames :
       (Failed(ctx.meta[f]) /\ ~ctx.meta[f].reported /\ ~Registered(ctx', f))
         => Trapped(ctx') \/ PassedOn(f)]_sysVars

\* A joined group settles: once every input of a closed group has completed,
\* the join completes, however the reactions are spread over checkpoints.
JoinSettles ==
  \A h \in Frames :
    (/\ ctx.meta[h].kind = "join"
     /\ \A f \in Pending(ctx, ctx.meta[h].group) : Completed(ctx, f))
    ~> ~Unfinished(ctx, h)
=============================================================================
