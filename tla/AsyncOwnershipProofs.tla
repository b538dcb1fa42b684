------------------------ MODULE AsyncOwnershipProofs ------------------------
(***************************************************************************)
(* Who owns a frame: the steps of the host and of the drain, the inductive *)
(* invariant OwnInv, and the theorems for every set of frames and every    *)
(* bound: OnePlace, CountMatchesHolders, AwaitsAreServed, and that the     *)
(* scheduler implements TaskLifecycle.                                     *)
(***************************************************************************)
EXTENDS AsyncScriptProofs

\* An export begins or ends, or the host clears a trap, begins a checkpoint or
\* reloads.
LEMMA HostSteps ==
  ASSUME OwnInv, TypeOK',
         \/ ExportReturn \/ HostExport \/ HostClearTrap \/ Reload
         \/ \E limit \in Limits : HostStep(limit)
  PROVE  Owned' /\ Flows
<1>1. /\ Good(ctx) /\ ctx \in Contexts /\ held \in [Frames -> Nat] /\ stack \in Seq(Activation)
      /\ Rest(ctx, stack, slot, state, dirty) /\ Balance(ctx, stack, held, slot, state)
      /\ Trapping(ctx, entry) /\ (stack # <<>> => ctx.trapping = NoJob)
      /\ None \notin Frames /\ Settled(ctx, stack)
  BY OwnTypes, NoneIsNoAddress DEF OwnInv, Owned
<1>2. entry = "none" => stack = <<>>
  BY DEF OwnInv, ExceptionInv, Framed
<1>3. CASE ExportReturn
  <2> DEFINE d == ctx'
  <2>1. /\ stack # <<>> /\ Top.frame = None /\ d = SettleUncaughtException(ctx) /\ stack' = Pop
        /\ UNCHANGED <<held, slot, state, dirty>>
    BY <1>3 DEF ExportReturn
  <2>2. SameFields(ctx, d) /\ d.trapping = NoJob
    BY <1>1, <2>1 DEF SettleUncaughtException, Trap, Contexts, SameFields
  <2>. HIDE DEF d
  <2>3. Rest(d, stack, slot, state, dirty)
    BY <1>1, <2>2, SameRest
  <2>4. /\ Still(ctx, stack, slot, state, d, stack, slot, state) /\ SameCounts(ctx, d)
    BY <2>2 DEF Still, SameCounts, SameFields, Unfinished, Registered
  <2>5. Undisturbed(d) => Undisturbed(ctx)
    BY <2>2 DEF Undisturbed, SameFields, Unfinished, Registered
  <2>6. Balance(d, stack, held, slot, state)
    BY <1>1, <2>4, <2>5, SameBalance
  <2>7. SameFrames(stack, Pop)
    BY <1>1, <2>1, StackPop, PopOthers DEF SameFrames, Top, Pop
  <2>8. Rest(d, Pop, slot, state, dirty) /\ Balance(d, Pop, held, slot, state)
    BY <1>1, <2>3, <2>6, <2>7, NoFrameOwned
  <2>9. SameTasks(ctx, d) /\ \A g \in Frames : On(Pop, g) => On(stack, g)
    BY Zenon, <2>2, <2>7 DEF SameTasks, SameFields, SameFrames
  <2>10. Flow(ctx, stack, d, Pop)
    BY Zenon, <1>1, <2>2, <2>9, SameFlow DEF SameFields
  <2>. QED BY <2>1, <2>2, <2>8, <2>10 DEF Owned, Flows, Trapping, d
<1>4. ASSUME entry = "none"
      PROVE  /\ Rest(ClearTrap(ctx), <<>>, slot, state, dirty)
             /\ Balance(ClearTrap(ctx), <<>>, held, slot, state)
             /\ ClearTrap(ctx).trapping = NoJob
             /\ \A t : (\A g \in Frames : ~On(t, g)) => Flow(ctx, <<>>, ClearTrap(ctx), t)
  BY <1>1, <1>2, <1>4, ClearOwned, ClearFlow
<1>5. CASE HostExport
  <2> DEFINE c == ClearTrap(ctx)
             t == <<[frame |-> None, via |-> "export"]>>
  <2>1. /\ entry = "none" /\ ctx' = c /\ stack' = t /\ UNCHANGED <<held, slot, state, dirty>>
    BY <1>5 DEF HostExport, AtBoundary
  <2>2. SameFrames(<<>>, t)
    <3>1. ASSUME NEW f \in Frames PROVE ~On(t, f) /\ ~OnDrain(t, f) /\ OnOnce(t, f)
      BY <1>1 DEF On, OnDrain, OnOnce
    <3>. QED BY <3>1, StackSmall DEF SameFrames
  <2>3. /\ Rest(c, <<>>, slot, state, dirty) /\ Balance(c, <<>>, held, slot, state)
        /\ c.trapping = NoJob
        /\ (\A g \in Frames : ~On(t, g)) => Flow(ctx, <<>>, c, t)
    BY <1>4, <2>1
  <2>. HIDE DEF c, t
  <2>4. Rest(c, t, slot, state, dirty) /\ Balance(c, t, held, slot, state)
    BY <1>1, <2>2, <2>3, NoFrameOwned
  <2>5. Flow(ctx, <<>>, c, t)
    BY Zenon, <2>2, <2>3, StackSmall DEF SameFrames
  <2>. QED BY <1>2, <2>1, <2>3, <2>4, <2>5 DEF Owned, Flows, Trapping
<1>6. CASE HostClearTrap
  <2>1. /\ entry = "none" /\ ctx' = ClearTrap(ctx)
        /\ UNCHANGED <<stack, held, slot, state, dirty>>
    BY <1>6 DEF HostClearTrap, AtBoundary
  <2>2. Flow(ctx, <<>>, ClearTrap(ctx), <<>>)
    BY Zenon, <1>4, <2>1, StackSmall
  <2>. QED BY <1>2, <1>4, <2>1, <2>2 DEF Owned, Flows, Trapping
<1>7. CASE Reload
  <2> DEFINE d == ctx'
  <2>1. /\ entry = "none" /\ d = BumpReloadEpoch(ctx)
        /\ UNCHANGED <<stack, entry, held, slot, state, dirty>>
    BY <1>7 DEF Reload, AtBoundary
  <2>2. /\ d.stopped = ctx.stopped /\ d.ready = ctx.ready /\ d.trapping = ctx.trapping
        /\ d.word = ctx.word /\ SameCounts(ctx, d)
        /\ \A f \in Frames : Registered(d, f) => d.meta[f].stale
        /\ d.parked = ctx.parked /\ SameTasks(ctx, d)
    BY <1>1, <2>1 DEF BumpReloadEpoch, Contexts, FrameMeta, SameCounts, SameTasks, Registered
  <2>3. Rest(d, <<>>, slot, state, dirty)
    BY <1>1, <1>2, <2>1, ReloadRest
  <2>. HIDE DEF d
  <2>4. Still(ctx, <<>>, slot, state, d, <<>>, slot, state)
    BY <2>2 DEF Still, SameCounts, Unfinished, Registered
  <2>5. Undisturbed(d) => Undisturbed(ctx)
    BY <2>2 DEF Undisturbed, SameCounts, Unfinished, Registered
  <2>6. Balance(d, <<>>, held, slot, state)
    BY <1>1, <1>2, <2>1, <2>2, <2>4, <2>5, SameBalance
  <2>7. Trapping(d, entry)
    BY Zenon, <1>1, <2>2 DEF Trapping, Trapped
  <2>8. Flow(ctx, stack, d, stack)
    BY <1>1, <2>2, SameFlow
  <2>. QED BY <1>2, <2>1, <2>3, <2>6, <2>7, <2>8 DEF Owned, Flows, d
<1>8. ASSUME NEW limit, HostStep(limit) PROVE Owned' /\ Flows
  <2> DEFINE d == ctx'
  <2>1. /\ ~Trapped(ctx) /\ UNCHANGED <<stack, held, slot, state, dirty>>
        /\ d = [ctx EXCEPT !.ready = @ \o [i \in DOMAIN ctx.parked |-> Invocation(ctx.parked[i])],
                           !.parked = <<>>]
    BY <1>8 DEF HostStep
  <2>2. d.stopped = ctx.stopped /\ d.trapping = NoJob /\ d.meta = ctx.meta
    BY <1>1, <2>1 DEF Contexts, Trapping
  <2>3. Rest(d, stack, slot, state, dirty)
    BY Zenon, <1>1, <2>1, CheckpointRest
  <2>4. Flow(ctx, stack, d, stack)
    BY Zenon, <1>1, <2>1, CheckpointFlow
  <2>. HIDE DEF d
  <2>5. Still(ctx, stack, slot, state, d, stack, slot, state) /\ SameCounts(ctx, d)
    BY <2>2 DEF Still, SameCounts, Unfinished, Registered
  <2>6. Undisturbed(d) => Undisturbed(ctx)
    BY <2>2 DEF Undisturbed, Unfinished, Registered
  <2>7. Balance(d, stack, held, slot, state)
    BY <1>1, <2>5, <2>6, SameBalance
  <2>. QED BY <2>1, <2>2, <2>3, <2>4, <2>7 DEF Owned, Flows, Trapping, d
<1>. QED BY <1>3, <1>5, <1>6, <1>7, <1>8

\* The head of the queue, when it is the continuation of an invocation.
LEMMA HeadTypes ==
  ASSUME OwnInv, ctx.ready # <<>>, Head(ctx.ready).tag = "invocation", stack = <<>>
  PROVE  /\ Head(ctx.ready).at \in Frames
         /\ Head(ctx.ready) = Invocation(Head(ctx.ready).at)
         /\ Unfinished(ctx, Head(ctx.ready).at) /\ Registered(ctx, Head(ctx.ready).at)
<1>1. ctx \in Contexts /\ Rest(ctx, stack, slot, state, dirty)
  BY OwnTypes DEF OwnInv, Owned
<1>2. Head(ctx.ready) \in Job
  BY <1>1 DEF Contexts, JobList
<1>3. PICK f \in Frames : Head(ctx.ready) = Invocation(f)
  BY <1>2 DEF Job, Invocation
<1>4. Head(ctx.ready).at = f
  BY <1>3 DEF Invocation
<1>5. Unfinished(ctx, f)
  BY Zenon, <1>1, <1>3, LiftHead DEF Rest
<1>. QED BY <1>3, <1>4, <1>5 DEF Unfinished

\* A suspended await holds its handle.
LEMMA AwaitHolds ==
  ASSUME OwnInv, NEW f \in Frames, Unfinished(ctx, f), ~On(stack, f), state[f] = "await",
         slot[f] \in Frames
  PROVE  Owes[slot[f]] > 0 /\ Registered(ctx, slot[f])
<1> DEFINE h == slot[f]
<1>1. AwaitsIn(ctx, stack, slot, state, f, h)
  BY DEF AwaitsIn
<1>2. /\ held \in [Frames -> Nat] /\ Owes \in [Frames -> Nat]
      /\ Books(ctx, Owes, Undisturbed(ctx))
  BY OwnTypes
<1>3. h \in Frames
  OBVIOUS
<1>. HIDE DEF h
<1>4. Owes[h] = held[h] + Live(ctx, h) + Cardinality(Awaiters(ctx, stack, slot, state, h))
  BY <1>2, <1>3, NeedType DEF Owes
<1>5. /\ Cardinality(Awaiters(ctx, stack, slot, state, h)) \in Nat
      /\ Cardinality(Awaiters(ctx, stack, slot, state, h)) > 0
  BY <1>1, AwaitersFinite
<1>6. Owes[h] > 0
  BY <1>2, <1>3, <1>4, <1>5 DEF Live
<1>7. Registered(ctx, h)
  BY <1>2, <1>3, <1>6 DEF Books, Counted
<1>. QED BY <1>6, <1>7 DEF h

\* The drain resumes the head of the queue.
LEMMA ResumeOwned == ASSUME OwnInv, TypeOK', DrainResume PROVE Owned' /\ Flows
<1> DEFINE f == Head(ctx.ready).at
           h == slot[f]
           c == [ctx EXCEPT !.ready = Tail(@)]
           t == <<[frame |-> f, via |-> "drain"]>>
           d == ctx'
           sm == slot'
           n == IF state[f] = "await" THEN Minus(Owes, h) ELSE Owes
<1>0. /\ entry = "drain" /\ stack = <<>> /\ ctx.ready # <<>> /\ Head(ctx.ready).tag = "invocation"
      /\ ~StaleResume(f) /\ ~MissingCompletion(f)
      /\ d = IF state[f] = "await" THEN Release(Result(c, h), h) ELSE c
      /\ stack' = t /\ sm = [slot EXCEPT ![f] = None] /\ dirty' = dirty \cup {f}
      /\ UNCHANGED <<entry, held, state>>
  BY DEF DrainResume, Draining
<1>1. f \in Frames /\ Head(ctx.ready) = Invocation(f) /\ Unfinished(ctx, f) /\ Registered(ctx, f)
  BY <1>0, HeadTypes
<1>2. /\ Good(ctx) /\ ctx \in Contexts /\ held \in [Frames -> Nat] /\ Owes \in [Frames -> Nat]
      /\ Books(ctx, Owes, Undisturbed(ctx)) /\ ctx.trapping = NoJob
      /\ slot \in [Frames -> Frames \cup {None}]
      /\ Rest(ctx, <<>>, slot, state, dirty)
  <2>1. ctx.trapping = NoJob
    BY <1>0 DEF OwnInv, Owned, Trapping
  <2>. QED BY <1>0, <2>1, OwnTypes DEF OwnInv, Owned
<1>3. ~ctx.meta[f].stale
  BY Zenon, <1>0, <1>1, <1>2 DEF StaleResume, IsStale, Good, Invocations
<1>4. /\ c \in Contexts /\ c.meta = ctx.meta /\ c.stopped = ctx.stopped
      /\ c.word = ctx.word /\ c.trap = ctx.trap /\ c.trapping = NoJob
  <2>1. c \in Contexts
    BY Zenon, <1>0, <1>2, TailType
  <2>. QED BY Zenon, <1>2, <2>1 DEF Contexts
<1>5. Good(c) /\ Books(c, Owes, Undisturbed(ctx))
  <2> DEFINE x == Undisturbed(ctx)
  <2>1. Books(ctx, Owes, x)
    BY <1>2
  <2>. HIDE DEF c, x
  <2>2. Books(c, Owes, x)
    BY <1>4, <2>1, SameBooks
  <2>. QED BY <1>2, <1>4, <2>2 DEF x, Good, Invocations, TrapRecorded
<1>6. Off(f, slot, state, sm, state)
  BY <1>0, <1>1, <1>2 DEF Off
<1>7. Rest(c, t, sm, state, dirty \cup {f})
  <2>. HIDE DEF f, sm
  <2>. QED BY Zenon, <1>0, <1>1, <1>2, <1>3, <1>6, ResumeRest
<1>8. /\ Tame(c, d) /\ Books(d, n, Undisturbed(ctx))
      /\ state[f] = "await" => h \in Frames
  <2>1. CASE state[f] = "await"
    <3>1. h \in Frames
      BY Zenon, <1>0, <2>1 DEF MissingCompletion, Completed, Registered
    <3>2. Owes[h] > 0
      <4>1. ~On(stack, f)
        BY <1>0, StackSmall
      <4>. QED BY <1>1, <2>1, <3>1, <4>1, AwaitHolds
    <3>. HIDE DEF c, h, f
    <3>3. Tame(c, Result(c, h)) /\ Books(Result(c, h), Owes, Undisturbed(ctx))
      BY <1>5, <3>1, ResultBooks
    <3>4. Good(Result(c, h))
      BY <1>5, <3>1, GoodResult
    <3>5. /\ Tame(Result(c, h), Release(Result(c, h), h))
          /\ Books(Release(Result(c, h), h), Minus(Owes, h), Undisturbed(ctx))
      BY <1>2, <3>1, <3>2, <3>3, <3>4, ReleaseBooks
    <3>. QED BY <1>0, <2>1, <3>1, <3>3, <3>5, TameTrans
  <2>2. CASE state[f] # "await"
    <3>1. Tame(c, c)
      BY DEF Tame, Alike
    <3>. QED BY <1>0, <1>5, <2>2, <3>1
  <2>. QED BY <2>1, <2>2
<1>9. d.trapping = NoJob
  BY <1>4, <1>8 DEF Tame
<1>. HIDE DEF d, sm, c, t, f
<1>10. Rest(d, t, sm, state, dirty \cup {f})
  <2>1. \A g \in Frames : sm[g] = sm[g] \/ On(t, g)
    OBVIOUS
  <2>. QED BY Zenon, <1>7, <1>8, <2>1, RestTame
<1>11. \A g : On(t, g) <=> g = f
  BY StackSmall DEF t
<1>12. /\ \A g \in Frames : /\ Unfinished(d, g) <=> Unfinished(ctx, g)
                            /\ g \in d.stopped <=> g \in ctx.stopped
       /\ \A g : ~On(<<>>, g)
  BY Zenon, <1>4, <1>8, StackSmall DEF Tame, Alike, Unfinished, Registered
<1>13. Apart(f, ctx, <<>>, slot, state, d, t, sm, state)
  BY <1>6, <1>11, <1>12 DEF Apart, Off
<1>14. Live(d, f) = Live(ctx, f) /\ Live(ctx, f) \in Nat
  BY <1>1, <1>12 DEF Live
<1>15. \A x \in Frames : /\ ~AwaitsIn(d, t, sm, state, f, x)
                         /\ AwaitsIn(ctx, <<>>, slot, state, f, x) <=> state[f] = "await" /\ h = x
  BY <1>1, <1>11, <1>12 DEF AwaitsIn
<1>16. Balance(d, t, held, sm, state)
  <2> DEFINE o == Need(d, t, held, sm, state)
             x == Undisturbed(ctx)
             y == Undisturbed(d)
  <2>1. Shifts(o, Owes, held, held, f, ctx, <<>>, slot, state, d, t, sm, state)
    BY Zenon, <1>0, <1>1, <1>2, <1>13, NeedStep DEF Owes
  <2>2. Books(d, n, x)
    BY <1>8
  <2>3. y => x
    <3>1. Undisturbed(d) => Undisturbed(c)
      BY <1>8, UndisturbedTame
    <3>. QED BY <1>4, <3>1 DEF Undisturbed, Unfinished, Registered
  <2>. HIDE DEF o, x, y, h
  <2>4. ASSUME NEW g \in Frames PROVE o[g] = n[g]
    <3>1. o[g] = Owes[g] + (held[g] - held[g])
                   + (IF g = f THEN Live(d, f) - Live(ctx, f) ELSE 0)
                   + (IF AwaitsIn(d, t, sm, state, f, g) THEN 1 ELSE 0)
                   - (IF AwaitsIn(ctx, <<>>, slot, state, f, g) THEN 1 ELSE 0)
      BY Zenon, <2>1 DEF Shifts
    <3>2. /\ ~AwaitsIn(d, t, sm, state, f, g)
          /\ AwaitsIn(ctx, <<>>, slot, state, f, g) <=> state[f] = "await" /\ h = g
      BY <1>15
    <3>3. Owes[g] \in Nat /\ held[g] \in Nat
      BY <1>2
    <3>4. n[g] = Owes[g] - (IF state[f] = "await" /\ h = g THEN 1 ELSE 0)
      BY <1>2, <1>8 DEF Minus
    <3>. QED BY <1>14, <3>1, <3>2, <3>3, <3>4
  <2>. HIDE DEF n
  <2>5. Books(d, o, y)
    BY <2>2, <2>3, <2>4, BooksPointwise
  <2>. QED BY <2>5 DEF Balance, o, y
<1>17. Flow(ctx, <<>>, d, t)
  <2>1. Flow(ctx, <<>>, c, t)
    BY Zenon, <1>0, <1>1, <1>2, RestSettled, ResumeFlow DEF c, t
  <2>. QED BY <1>8, <2>1, FlowTame
<1>. QED BY <1>0, <1>9, <1>10, <1>16, <1>17 DEF Owned, Flows, Trapping, d, sm

\* The adapter refuses the head of the queue, which stays there.
LEMMA RefuseOwned == ASSUME OwnInv, TypeOK', DrainRefuse PROVE Owned' /\ Flows
<1> DEFINE f == Head(ctx.ready).at
           h == slot[f]
           c == [ctx EXCEPT !.ready = Tail(@)]
           e == Trap(c, IF StaleResume(f) THEN "StaleCoroutine" ELSE "Internal")
           d == ctx'
           sm == slot'
<1>0. /\ entry = "drain" /\ stack = <<>> /\ ctx.ready # <<>> /\ Head(ctx.ready).tag = "invocation"
      /\ StaleResume(f) \/ MissingCompletion(f)
      /\ d = AfterResume(e, [frame |-> f, via |-> "drain"], TRUE)
      /\ sm = [slot EXCEPT ![f] = None] /\ entry' = "none"
      /\ UNCHANGED <<stack, held, state, dirty>>
  BY DEF DrainRefuse, Draining
<1>1. f \in Frames /\ Head(ctx.ready) = Invocation(f) /\ Unfinished(ctx, f) /\ Registered(ctx, f)
  BY <1>0, HeadTypes
<1>2. /\ Good(ctx) /\ ctx \in Contexts /\ held \in [Frames -> Nat] /\ Owes \in [Frames -> Nat]
      /\ slot \in [Frames -> Frames \cup {None}] /\ None \notin Frames
      /\ Rest(ctx, <<>>, slot, state, dirty) /\ Balance(ctx, <<>>, held, slot, state)
  BY <1>0, OwnTypes, NoneIsNoAddress DEF OwnInv, Owned
<1>3. c \in Contexts /\ c.ready = Tail(ctx.ready)
  BY Zenon, <1>0, <1>2, TailType DEF Contexts
<1>4. /\ e.meta = ctx.meta /\ e.parked = ctx.parked /\ e.stopped = ctx.stopped
      /\ e.ready = Tail(ctx.ready) /\ Trapped(e) /\ e.word = "trap"
  BY <1>2, <1>3 DEF Trap, Contexts, Trapped
<1>5. d = [e EXCEPT !.trapping = [job |-> Invocation(f), kind |-> e.trap],
                    !.ready = <<Invocation(f)>> \o @]
  <2>. HIDE DEF e, d
  <2>. QED BY <1>0, <1>4 DEF AfterResume
<1>6. /\ d.meta = ctx.meta /\ d.parked = ctx.parked /\ d.stopped = ctx.stopped
      /\ d.ready = <<Invocation(f)>> \o Tail(ctx.ready) /\ Trapped(d)
      /\ d.trapping.job = Invocation(f)
  <2>1. e \in Contexts
    BY <1>3, TrapType DEF TrapKinds
  <2>. HIDE DEF e, d, f
  <2>. QED BY <1>4, <1>5, <2>1 DEF Contexts, Trapped
<1>7. Trapping(d, "none")
  <2>1. /\ d.ready # <<>> /\ Head(d.ready) = Invocation(f) /\ Invocation(f).tag = "invocation"
    <3>1. Tail(ctx.ready) \in Seq(Job) /\ Invocation(f) \in Job
      BY <1>0, <1>1, <1>2, InvocationType DEF Contexts, JobList
    <3>. HIDE DEF d, f
    <3>. QED BY <1>6, <3>1 DEF Invocation
  <2>. HIDE DEF d, f
  <2>. QED BY <1>6, <2>1 DEF Trapping
<1>8. f \in dirty \/ ctx.meta[f].stale
  <2>. SUFFICES ASSUME f \notin dirty, ~ctx.meta[f].stale PROVE FALSE
    OBVIOUS
  <2>1. state[f] = "await"
    BY Zenon, <1>0 DEF StaleResume, MissingCompletion, IsStale
  <2>2. IsReady(ctx, f)
    BY <1>0, <1>1, <1>2, ListTail DEF IsReady, Contexts, JobList
  <2>3. Done(ctx, h)
    BY Zenon, <1>1, <1>2, <2>1, <2>2 DEF Rest, Fine
  <2>4. ~On(stack, f)
    BY Zenon, <1>0, StackSmall
  <2>5. Registered(ctx, h)
    BY <1>1, <2>1, <2>3, <2>4, AwaitHolds DEF Done
  <2>. QED BY Zenon, <1>0, <2>3, <2>5 DEF Done, StaleResume, MissingCompletion, IsStale, Completed, Unfinished
<1>9. Off(f, slot, state, sm, state) /\ sm[f] = None
  BY <1>0, <1>1, <1>2 DEF Off
<1>. HIDE DEF d, sm, e, c, f
<1>10. Rest(d, <<>>, sm, state, dirty)
  BY Zenon, <1>0, <1>1, <1>2, <1>6, <1>8, <1>9, RefuseRest
<1>11. SameCounts(ctx, d)
  BY <1>6 DEF SameCounts
<1>12. Balance(d, <<>>, held, sm, state)
  <2>1. CASE f \in dirty
    <3>1. sm = slot
      <4>1. slot[f] = None
        BY Zenon, <1>1, <1>2, <2>1, StackSmall DEF Rest, Fine
      <4>. QED BY Zenon, <1>0, <1>2, <4>1
    <3>2. Still(ctx, <<>>, slot, state, d, <<>>, slot, state)
      BY <1>6 DEF Still, Unfinished, Registered
    <3>3. Undisturbed(d) => Undisturbed(ctx)
      BY <1>6 DEF Undisturbed, Unfinished, Registered
    <3>. QED BY <1>2, <1>11, <3>1, <3>2, <3>3, SameBalance
  <2>2. CASE f \notin dirty
    <3> DEFINE n == Need(ctx, <<>>, held, slot, state)
               o == Need(d, <<>>, held, sm, state)
    <3>1. ~Undisturbed(d)
      BY <1>1, <1>6, <1>8, <2>2 DEF Undisturbed, Unfinished, Registered
    <3>2. Apart(f, ctx, <<>>, slot, state, d, <<>>, sm, state)
      BY <1>6, <1>9 DEF Apart, Off, Unfinished, Registered
    <3>3. Shifts(o, n, held, held, f, ctx, <<>>, slot, state, d, <<>>, sm, state)
      BY <1>1, <1>2, <3>2, NeedStep
    <3>4. n \in [Frames -> Nat] /\ o \in [Frames -> Nat]
      BY <1>2, NeedType
    <3>5. Live(d, f) = Live(ctx, f) /\ Live(ctx, f) \in Nat
      BY <1>6 DEF Live, Unfinished, Registered
    <3>. HIDE DEF n, o
    <3>6. ASSUME NEW x \in Frames PROVE o[x] <= n[x]
      <4>1. o[x] = n[x] + (held[x] - held[x])
                     + (IF x = f THEN Live(d, f) - Live(ctx, f) ELSE 0)
                     + (IF AwaitsIn(d, <<>>, sm, state, f, x) THEN 1 ELSE 0)
                     - (IF AwaitsIn(ctx, <<>>, slot, state, f, x) THEN 1 ELSE 0)
        BY Zenon, <3>3 DEF Shifts
      <4>2. ~AwaitsIn(d, <<>>, sm, state, f, x)
        BY <1>2, <1>9 DEF AwaitsIn
      <4>3. held[x] \in Nat /\ n[x] \in Nat
        BY <1>2, <3>4
      <4>. QED BY <3>5, <4>1, <4>2, <4>3
    <3>7. \A x \in Frames : Need(d, <<>>, held, sm, state)[x] <= Need(ctx, <<>>, held, slot, state)[x]
      BY <3>6 DEF n, o
    <3>. QED BY <1>2, <1>11, <3>1, <3>7, LessBalance
  <2>. QED BY <2>1, <2>2
<1>13. Flow(ctx, <<>>, d, <<>>)
  BY Zenon, <1>0, <1>1, <1>2, <1>6, RestSettled, RefuseFlow
<1>. QED BY Zenon, <1>0, <1>7, <1>10, <1>12, <1>13 DEF Owned, Flows, d, sm

\* The inductive invariant of the owners.
LEMMA InitOwned == Init => Owned
<1>. SUFFICES ASSUME Init PROVE Owned
  OBVIOUS
<1>1. /\ stack = <<>> /\ ctx.ready = <<>> /\ ctx.parked = <<>> /\ ctx.stopped = {}
      /\ ctx.trapping = NoJob /\ dirty = {}
      /\ \A f \in Frames : /\ ctx.meta[f].kind = "none" /\ ctx.meta[f].waiters = <<>>
                           /\ ctx.meta[f].completion = "none" /\ held[f] = 0
  BY DEF Init, NewContext, Unregistered
<1>2. \A f : ~Unfinished(ctx, f) /\ ~Registered(ctx, f)
  BY <1>1 DEF Unfinished, Registered
<1>3. /\ \A x : ~Has(<<>>, x) /\ Single(<<>>, x)
      /\ \A f : ~On(<<>>, f) /\ OnOnce(<<>>, f) /\ ~OnDrain(<<>>, f)
  BY Zenon, ListSmall, StackSmall DEF OnDrain, On
<1>4. \A f \in Frames : Absent(ctx, stack, f)
  BY <1>1, <1>3 DEF Absent, IsReady, Waits, WaitsFor
<1>5. \A f \in Frames : Place(ctx, stack, f)
  BY Zenon, <1>2, <1>4, AbsentSingle DEF Place, Absent, OneOf
<1>6. Rest(ctx, stack, slot, state, dirty)
  BY Zenon, <1>1, <1>2, <1>3, <1>5 DEF Rest, Placed, Waiting, WaitsFor, Fine, IsReady
<1>7. Balance(ctx, stack, held, slot, state)
  <2>1. held \in [Frames -> Nat]
    BY DEF Init
  <2>2. ASSUME NEW f \in Frames PROVE Owes[f] = 0
    <3>1. Owes[f] = held[f] + Live(ctx, f) + Cardinality(Awaiters(ctx, stack, slot, state, f))
      BY <2>1, NeedType DEF Owes
    <3>2. Awaiters(ctx, stack, slot, state, f) = {}
      BY <1>2 DEF Awaiters, AwaitsIn
    <3>3. Cardinality(Awaiters(ctx, stack, slot, state, f)) = 0
      BY <3>2, FS_EmptySet
    <3>. QED BY <1>1, <1>2, <3>1, <3>3 DEF Live
  <2>. HIDE DEF Owes
  <2>3. Books(ctx, Owes, Undisturbed(ctx))
    BY <1>2, <2>2 DEF Books, Counted, Exact, Completed
  <2>. QED BY <2>3 DEF Balance, Owes
<1>. QED BY <1>1, <1>6, <1>7 DEF Owned, Trapping

\* Every step keeps the places and the books, and moves the frames in order.
LEMMA OwnInvInductive ==
  /\ Init => OwnInv
  /\ OwnInv /\ [Next]_vars => OwnInv' /\ Flows
<1>1. Init => OwnInv
  BY ExceptionInvInductive, InitOwned DEF OwnInv
<1>2. ASSUME OwnInv, [Next]_vars PROVE OwnInv' /\ Flows
  <2>1. ExceptionInv'
    BY <1>2, ExceptionInvInductive DEF OwnInv
  <2>2. TypeOK'
    BY <2>1 DEF ExceptionInv, TypeInv
  <2>. SUFFICES Owned' /\ Flows
    BY <2>1 DEF OwnInv
  <2>0. ASSUME UNCHANGED <<ctx, stack>> PROVE Flows
    <3>1. SameTasks(ctx, ctx) /\ Settled(ctx, stack)
      BY <1>2, OwnTypes DEF SameTasks
    <3>2. Flow(ctx, stack, ctx, stack)
      BY <3>1, SameFlow
    <3>. QED BY <2>0, <3>2 DEF Flows
  <2>3. CASE Script
    <3>1. CASE \E f \in Frames : Call(f)
      BY <1>2, <2>2, <3>1, StartSteps
    <3>2. CASE \/ \E h \in Frames : Copy(h) \/ Drop(h) \/ AwaitStale(h)
               \/ Raise \/ Catch \/ Fault
      BY <1>2, <2>2, <3>2, TameActions
    <3>3. CASE \E h \in Frames, owned \in BOOLEAN : Await(h, owned)
      BY <1>2, <2>2, <3>3, AwaitOwnedStep
    <3>4. CASE Suspend \/ Return
      BY <1>2, <2>2, <3>4, SuspendOwned, ReturnOwned
    <3>5. CASE Unwind
      BY <1>2, <2>2, <3>5, UnwindCompletes, UnwindTraps
    <3>6. CASE ExportReturn
      BY <1>2, <2>2, <3>6, HostSteps
    <3>. QED BY <2>3, <3>1, <3>2, <3>3, <3>4, <3>5, <3>6 DEF Script
  <2>4. CASE Host
    <3>1. CASE \E f \in Frames : HostKick(f)
      BY <1>2, <2>2, <3>1, StartSteps
    <3>2. CASE \/ HostExport \/ HostClearTrap \/ Reload
               \/ \E limit \in Limits : HostStep(limit)
      BY <1>2, <2>2, <3>2, HostSteps
    <3>. QED BY <2>4, <3>1, <3>2 DEF Host, HostCall
  <2>5. CASE Drain
    <3>1. CASE DrainResume \/ DrainRefuse
      BY <1>2, <2>2, <3>1, ResumeOwned, RefuseOwned
    <3>2. CASE DrainEnd
      BY <1>2, <2>0, <3>2 DEF DrainEnd, Draining, OwnInv, Owned, Trapping, NoJob
    <3>. QED BY <2>5, <3>1, <3>2 DEF Drain
  <2>6. CASE UNCHANGED vars
    BY <1>2, <2>0, <2>6 DEF vars, OwnInv, Owned
  <2>. QED BY <1>2, <2>3, <2>4, <2>5, <2>6 DEF Next
<1>. QED BY <1>1, <1>2

-----------------------------------------------------------------------------
(* From the invariant to the properties. *)

\* A set in which no two elements differ.
LEMMA AtMostOne ==
  ASSUME NEW S, \A x, y \in S : x = y
  PROVE  Cardinality(S) = IF S = {} THEN 0 ELSE 1
<1>1. CASE S = {}
  BY <1>1, FS_EmptySet
<1>2. CASE S # {}
  <2>1. PICK x \in S : TRUE
    BY <1>2
  <2>2. S = {x}
    BY <2>1
  <2>. QED BY <2>2, FS_Singleton
<1>. QED BY <1>1, <1>2

\* Where the frame f is registered, in the words of the invariant.
LEMMA PlaceCounts ==
  ASSUME OwnInv, NEW f \in Frames
  PROVE  /\ Cardinality(ReadyAt(f)) = IF IsReady(ctx, f) THEN 1 ELSE 0
         /\ Cardinality(ParkedAt(f)) = IF Has(ctx.parked, f) THEN 1 ELSE 0
         /\ Cardinality(WaitsOn(f)) = IF Waits(ctx, f) THEN 1 ELSE 0
         /\ Cardinality({i \in DOMAIN stack : stack[i].frame = f}) = IF On(stack, f) THEN 1 ELSE 0
         /\ ReadyAt(f) # {} <=> IsReady(ctx, f)
         /\ OnStack(f) <=> On(stack, f)
<1>1. /\ ctx \in Contexts /\ stack \in Seq(Activation)
      /\ Waiting(ctx, slot, state) /\ Place(ctx, stack, f)
  BY OwnTypes DEF OwnInv, Owned, Rest, Placed
<1>2. /\ DOMAIN ctx.ready = 1 .. Len(ctx.ready) /\ DOMAIN ctx.parked = 1 .. Len(ctx.parked)
      /\ DOMAIN stack = 1 .. Len(stack)
      /\ \A h \in Frames : DOMAIN ctx.meta[h].waiters = 1 .. Len(ctx.meta[h].waiters)
  BY <1>1 DEF Contexts, JobList, FrameList, FrameMeta
<1>3. /\ ReadyAt(f) # {} <=> IsReady(ctx, f)
      /\ \A i, j \in ReadyAt(f) : i = j
  BY Zenon, <1>1, <1>2 DEF ReadyAt, IsReady, Has, Place, Single
<1>4. /\ ParkedAt(f) # {} <=> Has(ctx.parked, f)
      /\ \A i, j \in ParkedAt(f) : i = j
  BY Zenon, <1>1, <1>2 DEF ParkedAt, Has, Place, Single
<1>5. /\ WaitsOn(f) # {} <=> Waits(ctx, f)
      /\ \A v, w \in WaitsOn(f) : v = w
  <2> DEFINE At(h) == {i \in DOMAIN ctx.meta[h].waiters : ctx.meta[h].waiters[i] = Invocation(f)}
  <2>1. \A w : w \in WaitsOn(f) <=> \E h \in Frames : \E i \in At(h) : w = <<h, i>>
    BY DEF WaitsOn
  <2>2. \A h \in Frames : At(h) # {} <=> WaitsFor(ctx, f, h)
    BY <1>2 DEF WaitsFor, Has
  <2>3. \A h \in Frames : \A i, j \in At(h) : i = j
    BY Zenon, <1>1, <1>2 DEF Place, Single
  <2>4. \A h, g \in Frames : At(h) # {} /\ At(g) # {} => g = h
    BY Zenon, <1>1, <2>2 DEF Waiting
  <2>. HIDE DEF At
  <2>5. WaitsOn(f) # {} <=> Waits(ctx, f)
    BY Zenon, <2>1, <2>2 DEF Waits
  <2>6. ASSUME NEW v \in WaitsOn(f), NEW w \in WaitsOn(f) PROVE v = w
    <3>1. PICK g \in Frames : \E i \in At(g) : v = <<g, i>>
      BY <2>1
    <3>2. PICK i \in At(g) : v = <<g, i>>
      BY <3>1
    <3>3. PICK h \in Frames : \E j \in At(h) : w = <<h, j>>
      BY <2>1
    <3>4. PICK j \in At(h) : w = <<h, j>>
      BY <3>3
    <3>5. g = h
      BY <2>4
    <3>6. i = j
      BY <2>3, <3>5
    <3>. QED BY <3>2, <3>4, <3>5, <3>6
  <2>. QED BY <2>5, <2>6
<1>6. /\ {i \in DOMAIN stack : stack[i].frame = f} # {} <=> On(stack, f)
      /\ \A i, j \in {i \in DOMAIN stack : stack[i].frame = f} : i = j
  BY Zenon, <1>1, <1>2 DEF On, Place, OnOnce
<1>7. OnStack(f) <=> On(stack, f)
  BY <1>2 DEF OnStack, On
<1>8. Cardinality(ReadyAt(f)) = IF IsReady(ctx, f) THEN 1 ELSE 0
  BY <1>3, AtMostOne
<1>9. Cardinality(ParkedAt(f)) = IF Has(ctx.parked, f) THEN 1 ELSE 0
  BY <1>4, AtMostOne
<1>10. Cardinality(WaitsOn(f)) = IF Waits(ctx, f) THEN 1 ELSE 0
  BY <1>5, AtMostOne
<1>11. Cardinality({i \in DOMAIN stack : stack[i].frame = f}) = IF On(stack, f) THEN 1 ELSE 0
  BY <1>6, AtMostOne
<1>. QED BY <1>3, <1>7, <1>8, <1>9, <1>10, <1>11

\* An unfinished frame is in one place.
LEMMA PlaceOnce ==
  ASSUME OwnInv, NEW f \in Frames
  PROVE  /\ OneOf(Unfinished(ctx, f), On(stack, f), IsReady(ctx, f), Has(ctx.parked, f),
                  Waits(ctx, f), f \in ctx.stopped)
         /\ Registrations(f) + (IF On(stack, f) THEN 1 ELSE 0) = Live(ctx, f)
         /\ Registrations(f) \in Nat
<1>1. OneOf(Unfinished(ctx, f), On(stack, f), IsReady(ctx, f), Has(ctx.parked, f),
            Waits(ctx, f), f \in ctx.stopped)
  BY Zenon DEF OwnInv, Owned, Rest, Placed, Place
<1>2. Registrations(f) = (IF IsReady(ctx, f) THEN 1 ELSE 0) + (IF Has(ctx.parked, f) THEN 1 ELSE 0)
                           + (IF Waits(ctx, f) THEN 1 ELSE 0)
  BY Zenon, PlaceCounts DEF Registrations
<1>3. Live(ctx, f) = IF \/ On(stack, f) \/ IsReady(ctx, f)
                        \/ Has(ctx.parked, f) \/ Waits(ctx, f) THEN 1 ELSE 0
  BY Zenon, <1>1 DEF OneOf, Live
<1>4. /\ On(stack, f) => ~IsReady(ctx, f) /\ ~Has(ctx.parked, f) /\ ~Waits(ctx, f)
      /\ IsReady(ctx, f) => ~Has(ctx.parked, f) /\ ~Waits(ctx, f)
      /\ Has(ctx.parked, f) => ~Waits(ctx, f)
  BY Zenon, <1>1 DEF OneOf
<1>. QED BY <1>1, <1>2, <1>3, <1>4

\* OnePlace follows from the invariant.
LEMMA OwnOnePlace == OwnInv => OnePlace
<1>. SUFFICES ASSUME OwnInv, NEW f \in Frames
              PROVE  Cardinality({i \in DOMAIN stack : stack[i].frame = f}) + Registrations(f)
                       + (IF f \in ctx.stopped THEN 1 ELSE 0) = IF Unfinished(ctx, f) THEN 1 ELSE 0
  BY DEF OnePlace
<1>1. Cardinality({i \in DOMAIN stack : stack[i].frame = f}) = IF On(stack, f) THEN 1 ELSE 0
  BY PlaceCounts
<1>2. /\ Registrations(f) + (IF On(stack, f) THEN 1 ELSE 0) = Live(ctx, f)
      /\ Registrations(f) \in Nat
      /\ f \in ctx.stopped => Unfinished(ctx, f)
  BY PlaceOnce DEF OneOf
<1>. QED BY <1>1, <1>2 DEF Live

\* The holders of the property are those of the invariant.
LEMMA HoldersOwed ==
  ASSUME OwnInv, NEW f \in Frames
  PROVE  Holders(f) = Owes[f] /\ Owes[f] \in Nat
<1>1. held \in [Frames -> Nat] /\ Owes \in [Frames -> Nat]
  BY OwnTypes
<1>2. Owes[f] = held[f] + Live(ctx, f) + Cardinality(Awaiters(ctx, stack, slot, state, f))
  BY <1>1, NeedType DEF Owes
<1>3. {g \in Frames : Unfinished(ctx, g) /\ Awaits(g, f)} = Awaiters(ctx, stack, slot, state, f)
  BY Zenon, PlaceCounts DEF Awaiters, AwaitsIn, Awaits
<1>4. /\ Registrations(f) + (IF On(stack, f) THEN 1 ELSE 0) = Live(ctx, f)
      /\ Registrations(f) \in Nat /\ (OnStack(f) <=> On(stack, f))
  BY Zenon, PlaceOnce, PlaceCounts
<1>5. Cardinality(Awaiters(ctx, stack, slot, state, f)) \in Nat
  BY AwaitersFinite
<1>6. Holders(f) = held[f] + Registrations(f) + (IF OnStack(f) THEN 1 ELSE 0)
                     + Cardinality(Awaiters(ctx, stack, slot, state, f))
  BY <1>3 DEF Holders
<1>. HIDE DEF Owes
<1>. QED BY <1>1, <1>2, <1>4, <1>5, <1>6

\* CountMatchesHolders follows from the invariant.
LEMMA OwnCounts == OwnInv => CountMatchesHolders
<1>. SUFFICES ASSUME OwnInv, NEW f \in Frames
              PROVE  /\ IF Registered(ctx, f) THEN ctx.meta[f].count >= Holders(f) ELSE Holders(f) = 0
                     /\ Uninterrupted => /\ Registered(ctx, f) => ctx.meta[f].count = Holders(f)
                                         /\ Completed(ctx, f) => Holders(f) > 0
  BY DEF CountMatchesHolders
<1>1. Books(ctx, Owes, Undisturbed(ctx))
  BY OwnTypes
<1>2. Uninterrupted => Undisturbed(ctx)
  BY DEF Uninterrupted, Undisturbed
<1>3. Holders(f) = Owes[f] /\ Owes[f] \in Nat
  BY HoldersOwed
<1>. HIDE DEF Owes
<1>. QED BY <1>1, <1>2, <1>3 DEF Books, Counted, Exact, Completed

\* AwaitsAreServed follows from the invariant.
LEMMA OwnServed == OwnInv => AwaitsAreServed
<1>. SUFFICES ASSUME OwnInv, NEW f \in Frames
              PROVE  /\ (ReadyAt(f) # {} /\ state[f] = "await" /\ f \notin dirty /\ ~IsStale(ctx, f))
                        => Completed(ctx, slot[f]) /\ ~IsStale(ctx, slot[f])
                     /\ \A w \in WaitsOn(f) : Unfinished(ctx, w[1]) /\ Awaits(f, w[1])
  BY DEF AwaitsAreServed
<1>1. /\ OneOf(Unfinished(ctx, f), On(stack, f), IsReady(ctx, f), Has(ctx.parked, f),
               Waits(ctx, f), f \in ctx.stopped)
      /\ Waiting(ctx, slot, state) /\ Fine(ctx, stack, slot, state, dirty, f)
      /\ Good(ctx) /\ ctx \in Contexts
  BY Zenon, PlaceOnce, OwnTypes DEF OwnInv, Owned, Rest, Placed
<1>2. (ReadyAt(f) # {} <=> IsReady(ctx, f)) /\ (OnStack(f) <=> On(stack, f))
  BY Zenon, PlaceCounts
<1>3. ASSUME ReadyAt(f) # {}, state[f] = "await", f \notin dirty, ~IsStale(ctx, f)
      PROVE  Completed(ctx, slot[f]) /\ ~IsStale(ctx, slot[f])
  <2>1. IsReady(ctx, f) /\ ~On(stack, f) /\ Unfinished(ctx, f)
    BY Zenon, <1>1, <1>2, <1>3 DEF OneOf
  <2>2. ~ctx.meta[f].stale
    BY Zenon, <1>1, <1>3, <2>1 DEF IsStale, Unfinished, Good, Invocations
  <2>3. Done(ctx, slot[f])
    BY Zenon, <1>1, <1>3, <2>1, <2>2 DEF Fine
  <2>4. Registered(ctx, slot[f])
    BY <1>3, <2>1, <2>3, AwaitHolds DEF Done
  <2>. QED BY <2>3, <2>4 DEF Done, Completed, IsStale, Unfinished
<1>4. ASSUME NEW w \in WaitsOn(f) PROVE Unfinished(ctx, w[1]) /\ Awaits(f, w[1])
  <2>0. PICK h \in Frames : \E i \in DOMAIN ctx.meta[h].waiters :
          w = <<h, i>> /\ ctx.meta[h].waiters[i] = Invocation(f)
    BY DEF WaitsOn
  <2>1. PICK i \in DOMAIN ctx.meta[h].waiters :
          w = <<h, i>> /\ ctx.meta[h].waiters[i] = Invocation(f)
    BY <2>0
  <2>2. w[1] = h
    BY <2>1
  <2>3. WaitsFor(ctx, f, h)
    BY <1>1, <2>1 DEF WaitsFor, Has, Contexts, FrameMeta, JobList
  <2>4. ~On(stack, f)
    BY Zenon, <1>1, <2>3 DEF OneOf, Waits
  <2>. QED BY Zenon, <1>1, <1>2, <2>2, <2>3, <2>4 DEF Waiting, Awaits
<1>. QED BY <1>3, <1>4

-----------------------------------------------------------------------------
(* The refinement of TaskLifecycle. *)

\* The inspection reports the place of a frame.
LEMMA OwnStatus == OwnInv => StatusAgrees
<1>. SUFFICES ASSUME OwnInv, NEW f \in Frames PROVE TaskState(f) = Status(ctx, stack, f)
  BY DEF StatusAgrees
<1>1. /\ ctx \in Contexts /\ Good(ctx) /\ Settled(ctx, stack) /\ stack \in Seq(Activation)
  BY OwnTypes, RestSettled DEF OwnInv, Owned
<1>2. OnStack(f) <=> On(stack, f)
  BY Zenon, PlaceCounts
<1>3. /\ ReadyAt(f) # {} <=> IsReady(ctx, f)
      /\ ParkedAt(f) # {} <=> Has(ctx.parked, f)
  BY <1>1 DEF ReadyAt, ParkedAt, IsReady, Has, Contexts, JobList, FrameList
<1>4. WaitsOn(f) # {} <=> Waits(ctx, f)
  <2>1. \A h \in Frames : DOMAIN ctx.meta[h].waiters = 1 .. Len(ctx.meta[h].waiters)
    BY <1>1 DEF Contexts, FrameMeta, JobList
  <2>2. ASSUME NEW h \in Frames, WaitsFor(ctx, f, h) PROVE WaitsOn(f) # {}
    <3>1. PICK i \in DOMAIN ctx.meta[h].waiters : ctx.meta[h].waiters[i] = Invocation(f)
      BY <2>1, <2>2 DEF WaitsFor, Has
    <3>2. <<h, i>> \in WaitsOn(f)
      BY <3>1 DEF WaitsOn
    <3>. QED BY <3>2
  <2>3. ASSUME NEW x \in WaitsOn(f) PROVE Waits(ctx, f)
    <3>1. PICK h \in Frames : \E i \in DOMAIN ctx.meta[h].waiters : ctx.meta[h].waiters[i] = Invocation(f)
      BY DEF WaitsOn
    <3>. QED BY <2>1, <3>1 DEF Waits, WaitsFor, Has
  <2>. QED BY <2>2, <2>3 DEF Waits
<1>5. /\ Unfinished(ctx, f) => ctx.meta[f].kind = "invocation" /\ Registered(ctx, f)
      /\ Completed(ctx, f) <=> Registered(ctx, f) /\ ~Unfinished(ctx, f)
  BY <1>1 DEF Good, Invocations, Unfinished, Completed, Registered
<1>6. Unfinished(ctx, f) => \/ On(stack, f) \/ IsReady(ctx, f) \/ Has(ctx.parked, f)
                            \/ Waits(ctx, f) \/ f \in ctx.stopped
  BY Zenon, <1>1 DEF Settled, Place, OneOf
<1>7. /\ On(stack, f) => ~IsReady(ctx, f) /\ ~Has(ctx.parked, f) /\ ~Waits(ctx, f) /\ f \notin ctx.stopped
      /\ IsReady(ctx, f) => ~Has(ctx.parked, f) /\ ~Waits(ctx, f) /\ f \notin ctx.stopped
      /\ Has(ctx.parked, f) => ~Waits(ctx, f) /\ f \notin ctx.stopped
      /\ f \in ctx.stopped => ~Waits(ctx, f)
  BY Zenon, <1>1 DEF Settled, Place, OneOf
<1>. QED BY <1>2, <1>3, <1>4, <1>5, <1>6, <1>7 DEF TaskState, Status

\* A step is a step of the lifecycle.
LEMMA LifecycleStep ==
  ASSUME OwnInv, OwnInv', StatusAgrees, StatusAgrees', [Next]_vars
  PROVE  Lifecycle!Next
<1> DEFINE c == ctx
           s == stack
           d == ctx'
           t == stack'
           p == [f \in Frames |-> TaskState(f)]
           q == [f \in Frames |-> TaskState(f)']
           sm == slot'
           su == state'
<1>1. Flow(c, s, d, t)
  BY OwnInvInductive DEF Flows
<1>2. Rest(c, s, slot, state, dirty) /\ Rest(d, t, sm, su, dirty')
  BY DEF OwnInv, Owned
<1>3. \A f \in Frames : p[f] = Status(c, s, f) /\ q[f] = Status(d, t, f)
  BY DEF StatusAgrees
<1>4. Lifecycle!Next <=>
        \A f \in Frames :
          /\ q[f] # p[f] =>
               /\ <<p[f], q[f]>> \in Lifecycle!Edges
               /\ q[f] = "ACTIVE" =>
                    \A g \in Frames \ {f} : ~(p[g] # "ACTIVE" /\ q[g] = "ACTIVE")
               /\ p[f] = "PARKED" => \A g \in Frames : q[g] # "PARKED"
          /\ p[f] = "WAITING" =>
               IF slot[f] \in Frames /\ p[slot[f]] = "ACTIVE"
                    /\ q[slot[f]] \in {"COMPLETE", "UNREGISTERED"}
               THEN q[f] = "READY"
               ELSE q[f] = "WAITING" /\ sm[f] = slot[f]
  BY DEF Lifecycle!Next, Lifecycle!Follows, Lifecycle!Wakes, Lifecycle!Ends, Lifecycle!Activates,
         Lifecycle!Checkpoint
<1>. HIDE DEF c, s, d, t, p, q, sm, su
<1>5. Settled(c, s) /\ Settled(d, t) /\ Waiting(c, slot, state) /\ Waiting(d, sm, su)
  BY <1>2, RestSettled DEF Rest, Placed
<1>6. ASSUME NEW f \in Frames, q[f] # p[f] PROVE <<p[f], q[f]>> \in Lifecycle!Edges
  <2>1. /\ p[f] = "UNREGISTERED" => q[f] \in {"UNREGISTERED", "ACTIVE"}
        /\ p[f] = "PARKED" => q[f] \in {"PARKED", "READY"}
        /\ p[f] = "WAITING" => q[f] \in {"WAITING", "READY"}
        /\ p[f] = "READY" => q[f] \in {"READY", "ACTIVE", "STOPPED"}
        /\ p[f] = "COMPLETE" => q[f] \in {"COMPLETE", "UNREGISTERED"}
        /\ p[f] = "STOPPED" => q[f] = "STOPPED"
    BY <1>1, <1>3, <1>5, StatusEdges
  <2>2. /\ p[f] \in {"UNREGISTERED", "COMPLETE", "ACTIVE", "READY", "PARKED", "STOPPED", "WAITING"}
        /\ q[f] \in {"UNREGISTERED", "COMPLETE", "ACTIVE", "READY", "PARKED", "STOPPED", "WAITING"}
    BY Zenon, <1>3, <1>5, StatusPlaces
  <2>. QED BY <1>6, <2>1, <2>2 DEF Lifecycle!Edges
<1>7. ASSUME NEW f \in Frames, p[f] = "WAITING"
      PROVE  IF slot[f] \in Frames /\ p[slot[f]] = "ACTIVE"
                  /\ q[slot[f]] \in {"COMPLETE", "UNREGISTERED"}
             THEN q[f] = "READY"
             ELSE q[f] = "WAITING" /\ sm[f] = slot[f]
  <2>1. /\ slot[f] \in Frames
        /\ IF Status(c, s, slot[f]) = "ACTIVE" /\ Status(d, t, slot[f]) \in {"COMPLETE", "UNREGISTERED"}
           THEN Status(d, t, f) = "READY"
           ELSE Status(d, t, f) = "WAITING" /\ sm[f] = slot[f]
    BY <1>1, <1>3, <1>5, <1>7, StatusWakes
  <2>. QED BY <1>3, <2>1
<1>8. /\ \A f, g \in Frames : (/\ p[f] # "ACTIVE" /\ q[f] = "ACTIVE"
                               /\ p[g] # "ACTIVE" /\ q[g] = "ACTIVE") => f = g
      /\ (\E f \in Frames : p[f] = "PARKED" /\ q[f] # "PARKED") => \A f \in Frames : q[f] # "PARKED"
  <2>1. /\ \A f, g \in Frames :
              /\ Status(c, s, f) # "ACTIVE" /\ Status(d, t, f) = "ACTIVE"
              /\ Status(c, s, g) # "ACTIVE" /\ Status(d, t, g) = "ACTIVE"
              => f = g
        /\ (\E f \in Frames : Status(c, s, f) = "PARKED" /\ Status(d, t, f) # "PARKED")
              => \A f \in Frames : Status(d, t, f) # "PARKED"
    BY <1>1, <1>5, StatusTogether
  <2>. QED BY <1>3, <2>1
<1>. QED BY Zenon, <1>4, <1>6, <1>7, <1>8

-----------------------------------------------------------------------------
(* The theorems. *)

\* Every reachable state satisfies the invariant.
LEMMA OwnInvHolds == Spec => []OwnInv
<1>1. Init => OwnInv
  BY OwnInvInductive
<1>2. OwnInv /\ [Next]_vars => OwnInv'
  BY OwnInvInductive
<1>. QED BY <1>1, <1>2, PTL DEF Spec

\* The inspection states are total and exclusive: whatever the script, the
\* traps, the reloads and the budgets, an unfinished invocation is on the
\* stack, registered for one resume, or stopped, and nowhere twice.
THEOREM PlacesAreExclusive == Spec => []OnePlace
BY OwnInvHolds, OwnOnePlace, PTL

\* The count word of a frame covers its holders, and equals their number
\* while no body was interrupted: no frame is freed early and none leaks.
THEOREM CountsAreExact == Spec => []CountMatchesHolders
BY OwnInvHolds, OwnCounts, PTL

\* An await is queued where its completion finds it, and a ready await finds
\* its handle registered and completed.
THEOREM AwaitsFindTheirHandle == Spec => []AwaitsAreServed
BY OwnInvHolds, OwnServed, PTL

\* The queues, counts and traps of the scheduler implement the lifecycle of
\* module TaskLifecycle: a waiter becomes ready in exactly the step that ends
\* its handle, a stopped frame never runs again, only a finished frame is
\* freed, one frame at a time starts to run, and a checkpoint takes the whole
\* parked list.
THEOREM FollowsTheLifecycle == Spec => FollowsLifecycle
<1>1. Init => Lifecycle!Init
  <2>. SUFFICES ASSUME Init PROVE Lifecycle!Init
    OBVIOUS
  <2>1. \A f \in Frames : TaskState(f) = "UNREGISTERED"
    <3>1. \A f : ~Registered(ctx, f)
      BY DEF Init, NewContext, Unregistered, Registered
    <3>. QED BY <3>1 DEF TaskState, Completed, Unfinished
  <2>. QED BY <2>1 DEF Lifecycle!Init
<1>2. OwnInv /\ StatusAgrees /\ OwnInv' /\ StatusAgrees' /\ [Next]_vars => Lifecycle!Next
  BY LifecycleStep
<1>. QED BY <1>1, <1>2, OwnInvHolds, OwnStatus, PTL DEF Spec, FollowsLifecycle, Lifecycle!Spec

=============================================================================
