------------------------- MODULE AsyncScriptProofs --------------------------
(***************************************************************************)
(* Who owns a frame while script runs: every step of a body and of its     *)
(* calls keeps every frame in one place and every count in balance (Owned),*)
(* and the frames that do not run follow the lifecycle (Flows).  A step    *)
(* is a chain of runtime functions; a function that moves no frame is      *)
(* Tame, and the one that moves a frame is a move of AsyncPlacesProofs.    *)
(***************************************************************************)
EXTENDS AsyncHoldersProofs

\* The running frame, and the stack below it.
LEMMA PopTypes ==
  ASSUME OwnInv, stack # <<>>, Top.frame # None
  PROVE  /\ Pops(stack, Pop, Top.frame) /\ Top \in Activation /\ Top.frame \in Frames
         /\ Unfinished(ctx, Top.frame) /\ Registered(ctx, Top.frame)
         /\ Top.frame \notin ctx.stopped /\ ~ctx.meta[Top.frame].stale
         /\ On(stack, Top.frame) /\ Live(ctx, Top.frame) = 1 /\ Owes[Top.frame] > 0
<1>1. Top \in Activation /\ Top.frame \in Frames
  BY StackType DEF OwnInv, ExceptionInv, TypeInv
<1>2. Pops(stack, Pop, Top.frame)
  BY <1>1, OwnTypes DEF Pops, Pop, Top
<1>3. Off(Top.frame, slot, state, slot, state) /\ Rest(ctx, stack, slot, state, dirty)
  BY DEF Off, OwnInv, Owned
<1>4. Lifted(ctx, stack, Pop, Top.frame)
  BY Zenon, <1>2, <1>3, LiftRest
<1>5. Live(ctx, Top.frame) = 1
  BY <1>4 DEF Lifted, Absent, Live
<1>6. /\ Owes[Top.frame] = held[Top.frame] + Live(ctx, Top.frame)
                             + Cardinality(Awaiters(ctx, stack, slot, state, Top.frame))
      /\ Cardinality(Awaiters(ctx, stack, slot, state, Top.frame)) \in Nat
      /\ held[Top.frame] \in Nat
  <2> DEFINE f == Top.frame
  <2>1. f \in Frames /\ held \in [Frames -> Nat]
    BY <1>1, OwnTypes
  <2>. HIDE DEF f
  <2>2. Owes[f] = held[f] + Live(ctx, f) + Cardinality(Awaiters(ctx, stack, slot, state, f))
    BY <2>1, NeedType DEF Owes
  <2>3. Cardinality(Awaiters(ctx, stack, slot, state, f)) \in Nat /\ held[f] \in Nat
    BY <2>1, AwaitersFinite
  <2>. QED BY <2>2, <2>3 DEF f
<1>. QED BY <1>1, <1>2, <1>4, <1>5, <1>6 DEF Lifted, Absent

\* The caller of a resume function that returned without a trap keeps its count
\* (a started call) or releases it.
LEMMA HandOver ==
  ASSUME NEW e, Good(e), e.word = "clear", NEW a \in Activation, a.frame \in Frames,
         NEW n \in [Frames -> Nat], NEW x, Books(e, n, x), n[a.frame] > 0
  PROVE  LET d == AfterResume(e, a, FALSE)
         IN  Tame(e, d) /\ Books(d, IF a.via = "start" THEN n ELSE Minus(n, a.frame), x)
<1>1. AfterResume(e, a, FALSE) = IF a.via = "start" THEN e ELSE Release(e, a.frame)
  BY DEF AfterResume, Trapped
<1>2. Tame(e, e)
  BY DEF Tame, Alike
<1>. QED BY Zenon, <1>1, <1>2, ReleaseBooks

\* An activation ends without a trap, in the Context e before its caller acts.
LEMMA HandStep ==
  ASSUME OwnInv, TypeOK', stack # <<>>, Top.frame # None,
         NEW e, Good(e), e.word = "clear", e.trapping = NoJob, Flow(ctx, stack, e, Pop),
         ctx' = AfterResume(e, Top, FALSE), stack' = Pop, Steady(ctx, e, Top.frame),
         Off(Top.frame, slot, state, slot', state'), Rest(e, Pop, slot', state', dirty'),
         NEW n \in [Frames -> Nat], Books(e, n, Undisturbed(ctx)), n[Top.frame] > 0,
         Settles(IF Top.via = "start" THEN n ELSE Minus(n, Top.frame), Owes, held, held',
                 e, slot', state', Top.frame)
  PROVE  Owned' /\ Flows
<1> DEFINE f == Top.frame
           o == IF Top.via = "start" THEN n ELSE Minus(n, Top.frame)
           d == ctx'
           sm == slot'
           su == state'
           dj == dirty'
           hf == held'
<1>1. /\ Pops(stack, Pop, f) /\ Top \in Activation /\ f \in Frames
      /\ f \notin ctx.stopped /\ ~ctx.meta[f].stale
  BY PopTypes
<1>2. Tame(e, d) /\ Books(d, o, Undisturbed(ctx))
  BY Zenon, <1>1, HandOver
<1>3. hf \in [Frames -> Nat] /\ held \in [Frames -> Nat] /\ ctx \in Contexts
  BY OwnTypes DEF TypeOK
<1>4. Settles(o, Owes, held, hf, e, sm, su, f) /\ Off(f, slot, state, sm, su)
  OBVIOUS
<1>5. Rest(e, Pop, sm, su, dj) /\ Rest(ctx, stack, slot, state, dirty) /\ Steady(ctx, e, f)
  BY DEF OwnInv, Owned
<1>6. \A g \in Frames : sm[g] = sm[g] \/ On(Pop, g)
  OBVIOUS
<1>7. d.trapping = NoJob
  BY Zenon, <1>2 DEF Tame
<1>. HIDE DEF f, o, d, sm, su, dj, hf
<1>8. Rest(d, Pop, sm, su, dj)
  BY <1>2, <1>5, <1>6, RestTame
<1>9. Steady(ctx, d, f)
  BY <1>2, <1>5, SteadyTame, SteadyTrans
<1>10. Undisturbed(d) => Undisturbed(ctx)
  <2>1. ctx.stopped \subseteq Frames
    BY <1>3 DEF Contexts
  <2>. QED BY <1>1, <1>9, <2>1, UndisturbedSteady
<1>11. Settles(o, Owes, held, hf, d, sm, su, f)
  <2>1. Unfinished(d, f) <=> Unfinished(e, f)
    BY <1>1, <1>2 DEF Tame, Alike
  <2>2. Live(d, f) = Live(e, f)
    BY <1>2, <2>1 DEF Live, Tame, Alike
  <2>. QED BY <1>4, <2>1, <2>2 DEF Settles
<1>12. Balance(d, Pop, hf, sm, su)
  BY <1>1, <1>2, <1>3, <1>4, <1>5, <1>9, <1>10, <1>11, PopBalance DEF Owes
<1>13. Flow(ctx, stack, d, Pop)
  BY <1>2, FlowTame
<1>. QED BY Zenon, <1>7, <1>8, <1>12, <1>13 DEF Owned, Flows, Trapping, d, sm, su, dj, hf

\* Context.suspend().
LEMMA SuspendOwned == ASSUME OwnInv, TypeOK', Suspend PROVE Owned' /\ Flows
<1> DEFINE f == Top.frame
           c == Retain(ctx, f)
           e == [c EXCEPT !.parked = Append(@, f)]
           n == Plus(Owes, f)
<1>0. /\ stack # <<>> /\ ctx.word = "clear" /\ f # None
      /\ ctx' = AfterResume(e, Top, FALSE) /\ stack' = Pop
      /\ held' = IF Top.via = "start" /\ ~Trapped(e) THEN [held EXCEPT ![f] = @ + 1] ELSE held
      /\ state' = [state EXCEPT ![f] = "suspend"] /\ dirty' = dirty \ {f} /\ slot' = slot
  BY DEF Suspend, RunsFrame, Runs, ReturnTo
<1>1. /\ Pops(stack, Pop, f) /\ Top \in Activation /\ f \in Frames
      /\ Registered(ctx, f) /\ Unfinished(ctx, f) /\ f \notin ctx.stopped /\ Owes[f] > 0
  BY <1>0, PopTypes
<1>2. /\ Good(ctx) /\ ctx \in Contexts /\ held \in [Frames -> Nat] /\ Owes \in [Frames -> Nat]
      /\ Books(ctx, Owes, Undisturbed(ctx)) /\ ctx.trapping = NoJob
      /\ state \in [Frames -> {"start", "suspend", "await"}]
  BY <1>0, OwnTypes
<1>3. Tame(ctx, c) /\ Books(c, n, Undisturbed(ctx)) /\ Good(c)
  BY Zenon, <1>1, <1>2, RetainBooks, GoodSteps
<1>4. c \in Contexts /\ c.word = "clear" /\ c.trapping = NoJob
  BY Zenon, <1>0, <1>1, <1>2, <1>3 DEF Good, Retain, SetMeta, Contexts
<1>5. /\ Good(e) /\ e.word = "clear" /\ e.trapping = NoJob /\ e.meta = c.meta
      /\ e.stopped = c.stopped
  <2>0. Append(c.parked, f) \in FrameList
    BY <1>1, <1>4 DEF Contexts, FrameList
  <2>. HIDE DEF c
  <2>1. e \in Contexts
    BY Zenon, <1>4, <2>0 DEF Contexts
  <2>2. e.meta = c.meta /\ e.word = c.word /\ e.trapping = c.trapping /\ e.stopped = c.stopped
    BY <1>4 DEF Contexts
  <2>. QED BY <1>3, <1>4, <2>1, <2>2 DEF Good, Invocations, TrapRecorded
<1>6. Rest(c, stack, slot, state, dirty)
  <2>1. Rest(ctx, stack, slot, state, dirty) /\ \A g \in Frames : slot[g] = slot[g] \/ On(stack, g)
    BY DEF OwnInv, Owned
  <2>. HIDE DEF c
  <2>. QED BY <1>3, <2>1, RestTame
<1>7. Off(f, slot, state, slot', state') /\ state'[f] = "suspend"
  BY <1>0, <1>1, <1>2 DEF Off
<1>8. Rest(e, Pop, slot', state', dirty')
  <2> DEFINE su == state'
  <2>1. Off(f, slot, state, slot, su) /\ su[f] = "suspend"
    BY <1>0, <1>7
  <2>. HIDE DEF su, c, f
  <2>2. Rest(e, Pop, slot, su, dirty \ {f})
    BY Zenon, <1>1, <1>4, <1>6, <2>1, ParkRest
  <2>. QED BY <1>0, <2>2 DEF su
<1>9. Steady(ctx, e, f)
  <2>1. Steady(ctx, c, f)
    BY <1>3, SteadyTame
  <2>. HIDE DEF c
  <2>. QED BY <1>5, <2>1 DEF Steady, Unfinished, Registered
<1>10. Books(e, n, Undisturbed(ctx))
  <2>. HIDE DEF c, n
  <2>. QED BY Zenon, <1>3, <1>5, SameBooks
<1>11. n \in [Frames -> Nat] /\ n[f] > 0
  BY <1>1, <1>2 DEF Plus
<1>12. Live(e, f) = 1
  BY <1>1, <1>3, <1>5 DEF Live, Tame, Alike, Unfinished, Registered
<1>13. Settles(IF Top.via = "start" THEN n ELSE Minus(n, f), Owes, held, held', e, slot', state', f)
  <2>1. held' = IF Top.via = "start" THEN [held EXCEPT ![f] = @ + 1] ELSE held
    BY <1>0, <1>5 DEF Trapped
  <2>. HIDE DEF e, f
  <2>. QED BY <1>1, <1>2, <1>7, <1>12, <2>1 DEF Settles, Plus, Minus
<1>14. Flow(ctx, stack, e, Pop)
  <2>1. /\ c.ready = ctx.ready /\ c.parked = ctx.parked /\ c.stopped = ctx.stopped
        /\ SameTasks(ctx, c) /\ Settled(ctx, stack)
    BY <1>1, <1>2, RetainTasks, OwnTypes
  <2>. HIDE DEF c, f
  <2>2. /\ e.ready = ctx.ready /\ e.stopped = ctx.stopped /\ SameTasks(ctx, e)
        /\ e.parked = Append(ctx.parked, f)
    BY <1>4, <2>1 DEF Contexts, SameTasks
  <2>. HIDE DEF e
  <2>. QED BY <1>1, <1>2, <2>1, <2>2, ParkFlow
<1>. HIDE DEF e, n, c
<1>. QED BY Zenon, <1>0, <1>5, <1>7, <1>8, <1>9, <1>10, <1>11, <1>13, <1>14, HandStep

\* The end of a body.
LEMMA ReturnOwned == ASSUME OwnInv, TypeOK', Return PROVE Owned' /\ Flows
<1> DEFINE f == Top.frame
           e == Complete(ctx, f)
<1>0. /\ stack # <<>> /\ ctx.word = "clear" /\ f # None
      /\ ctx' = AfterResume(ctx, Top, TRUE) /\ stack' = Pop
      /\ held' = IF Top.via = "start" THEN [held EXCEPT ![f] = @ + 1] ELSE held
      /\ state' = [state EXCEPT ![f] = "start"] /\ dirty' = dirty \ {f} /\ slot' = slot
  BY DEF Return, RunsFrame, Runs, ReturnTo, Trapped
<1>1. /\ Pops(stack, Pop, f) /\ Top \in Activation /\ f \in Frames
      /\ Registered(ctx, f) /\ Unfinished(ctx, f) /\ f \notin ctx.stopped /\ Owes[f] > 0
  BY <1>0, PopTypes
<1>2. /\ Good(ctx) /\ ctx \in Contexts /\ held \in [Frames -> Nat] /\ Owes \in [Frames -> Nat]
      /\ Books(ctx, Owes, Undisturbed(ctx)) /\ ctx.trapping = NoJob
      /\ state \in [Frames -> {"start", "suspend", "await"}]
  BY <1>0, OwnTypes
<1>3. Good(e) /\ Books(e, Owes, Undisturbed(ctx))
  BY Zenon, <1>1, <1>2, CompleteBooks, GoodSteps DEF Complete
<1>4. e.word = "clear" /\ e.trapping = NoJob
  BY <1>0, <1>1, <1>2 DEF Complete, CompleteWith, SetMeta, Contexts
<1>5. ctx' = AfterResume(e, Top, FALSE)
  BY <1>0, <1>4 DEF AfterResume, Trapped
<1>6. Off(f, slot, state, slot', state')
  BY <1>0, <1>1, <1>2 DEF Off
<1>7. Rest(e, Pop, slot', state', dirty') /\ ~Unfinished(e, f)
  <2> DEFINE su == state'
  <2>1. Off(f, slot, state, slot, su) /\ Rest(ctx, stack, slot, state, dirty)
    BY <1>0, <1>6 DEF OwnInv, Owned
  <2>. HIDE DEF su, f
  <2>2. Rest(e, Pop, slot, su, dirty \ {f}) /\ ~Unfinished(e, f)
    BY <1>1, <1>2, <2>1, FinishRest DEF Complete
  <2>. QED BY <1>0, <2>2 DEF su
<1>8. Steady(ctx, e, f)
  BY <1>1, <1>2 DEF Complete, CompleteWith, SetMeta, Contexts, Steady, Unfinished, Registered
<1>9. Live(e, f) = 0
  BY <1>7 DEF Live
<1>10. Settles(IF Top.via = "start" THEN Owes ELSE Minus(Owes, f), Owes, held, held',
               e, slot', state', f)
  <2>. HIDE DEF e, f
  <2>. QED BY <1>0, <1>1, <1>2, <1>7, <1>9 DEF Settles, Minus
<1>11. Flow(ctx, stack, e, Pop)
  <2>. HIDE DEF f
  <2>. QED BY <1>1, <1>2, OwnTypes, FinishFlow DEF Complete
<1>. HIDE DEF e
<1>. QED BY Zenon, <1>0, <1>1, <1>2, <1>3, <1>4, <1>5, <1>6, <1>7, <1>8, <1>10, <1>11, HandStep

\* An await: a borrowed handle is retained, the registration retains the frame.
LEMMA AwaitOwnedStep ==
  ASSUME OwnInv, TypeOK', NEW h \in Frames, NEW owned \in BOOLEAN, Await(h, owned)
  PROVE  Owned' /\ Flows
<1> DEFINE f == Top.frame
           b == IF owned THEN ctx ELSE Retain(ctx, h)
           c == Retain(b, f)
           e == Enqueue(c, h, Invocation(f))
           m == IF owned THEN Owes ELSE Plus(Owes, h)
           n == Plus(m, f)
<1>0. /\ stack # <<>> /\ ctx.word = "clear" /\ f # None /\ held[h] > 0 /\ ~IsStale(ctx, h)
      /\ ctx' = AfterResume(e, Top, FALSE) /\ stack' = Pop
      /\ held' = [x \in Frames |->
              held[x] + (IF x = f /\ Top.via = "start" THEN 1 ELSE 0)
                      - (IF x = h /\ owned THEN 1 ELSE 0)]
      /\ slot' = [slot EXCEPT ![f] = h]
      /\ state' = [state EXCEPT ![f] = "await"] /\ dirty' = dirty \ {f}
  BY DEF Await, RunsFrame, Runs, AwaitOwned
<1>1. /\ Pops(stack, Pop, f) /\ Top \in Activation /\ f \in Frames
      /\ Registered(ctx, f) /\ Unfinished(ctx, f) /\ f \notin ctx.stopped /\ Owes[f] > 0
  BY <1>0, PopTypes
<1>2. /\ Good(ctx) /\ ctx \in Contexts /\ held \in [Frames -> Nat] /\ Owes \in [Frames -> Nat]
      /\ Books(ctx, Owes, Undisturbed(ctx)) /\ ctx.trapping = NoJob
      /\ state \in [Frames -> {"start", "suspend", "await"}]
      /\ slot \in [Frames -> Frames \cup {None}]
  BY <1>0, OwnTypes
<1>3. /\ Tame(ctx, b) /\ Books(b, m, Undisturbed(ctx)) /\ Good(b) /\ b.word = "clear"
      /\ m \in [Frames -> Nat]
  <2>1. CASE owned
    BY <1>0, <1>2, <2>1 DEF Tame, Alike
  <2>2. CASE ~owned
    <3>1. Registered(ctx, h)
      BY <1>0, HeldRegistered
    <3>2. Tame(ctx, Retain(ctx, h)) /\ Books(Retain(ctx, h), Plus(Owes, h), Undisturbed(ctx))
      BY <1>2, <3>1, RetainBooks
    <3>3. Good(Retain(ctx, h)) /\ Retain(ctx, h).word = "clear"
      BY Zenon, <1>0, <1>2, GoodSteps DEF Retain, SetMeta, Contexts
    <3>. QED BY <1>2, <2>2, <3>2, <3>3, PlusType
  <2>. QED BY <2>1, <2>2
<1>4. /\ Tame(ctx, c) /\ Books(c, n, Undisturbed(ctx)) /\ Good(c) /\ c \in Contexts
      /\ c.word = "clear" /\ c.trapping = NoJob
  <2>1. Registered(b, f)
    BY <1>1, <1>3 DEF Tame, Alike, Unfinished
  <2>. HIDE DEF b, m, f
  <2>2. Tame(b, c) /\ Books(c, n, Undisturbed(ctx))
    BY <1>1, <1>3, <2>1, RetainBooks
  <2>3. Tame(ctx, c)
    BY <1>3, <2>2, TameTrans
  <2>4. Good(c) /\ c.word = "clear"
    BY Zenon, <1>1, <1>3, GoodSteps DEF Retain, SetMeta, Contexts, Good
  <2>. QED BY <1>2, <2>2, <2>3, <2>4 DEF Good, Tame
<1>5. Rest(c, stack, slot, state, dirty)
  <2>1. Rest(ctx, stack, slot, state, dirty) /\ \A g \in Frames : slot[g] = slot[g] \/ On(stack, g)
    BY DEF OwnInv, Owned
  <2>. HIDE DEF c
  <2>. QED BY <1>4, <2>1, RestTame
<1>6. /\ Off(f, slot, state, slot', state') /\ slot'[f] = h /\ state'[f] = "await"
  BY <1>0, <1>1, <1>2 DEF Off
<1>7. Rest(e, Pop, slot', state', dirty')
  <2>1. Registered(c, h) => ~c.meta[h].stale
    BY Zenon, <1>0, <1>2, <1>4 DEF IsStale, Good, Invocations, Tame
  <2> DEFINE su == state'
             sm == slot'
  <2>2. Off(f, slot, state, sm, su) /\ sm[f] = h /\ su[f] = "await"
    BY <1>6
  <2>. HIDE DEF su, sm, c, f
  <2>3. Rest(e, Pop, sm, su, dirty \ {f})
    BY <1>1, <1>4, <1>5, <2>1, <2>2, AwaitRest
  <2>. QED BY <1>0, <2>3 DEF su, sm
<1>8. /\ Good(e) /\ e.word = "clear" /\ e.trapping = NoJob /\ e.stopped = c.stopped
      /\ \A g \in Frames : /\ e.meta[g].kind = c.meta[g].kind
                           /\ e.meta[g].completion = c.meta[g].completion
                           /\ e.meta[g].count = c.meta[g].count
                           /\ e.meta[g].stale = c.meta[g].stale
  <2>. HIDE DEF c, f
  <2>1. Good(e)
    BY <1>1, <1>4, GoodSteps, InvocationType
  <2>2. /\ e.word = c.word /\ e.trapping = c.trapping /\ e.stopped = c.stopped
        /\ \A g \in Frames : /\ e.meta[g].kind = c.meta[g].kind
                             /\ e.meta[g].completion = c.meta[g].completion
                             /\ e.meta[g].count = c.meta[g].count
                             /\ e.meta[g].stale = c.meta[g].stale
    BY <1>4 DEF Enqueue, SetMeta, Contexts, FrameMeta
  <2>. QED BY <1>4, <2>1, <2>2
<1>9. Steady(ctx, e, f)
  <2>1. Steady(ctx, c, f)
    BY <1>4, SteadyTame
  <2>. HIDE DEF c, e, f
  <2>. QED BY <1>8, <2>1 DEF Steady, Unfinished, Registered
<1>10. Books(e, n, Undisturbed(ctx))
  <2>. HIDE DEF c, e, n
  <2>. QED BY <1>4, <1>8, SameBooks
<1>11. n \in [Frames -> Nat] /\ n[f] > 0
  BY <1>1, <1>2, <1>3 DEF Plus
<1>12. Live(e, f) = 1 /\ Unfinished(e, f)
  <2>. HIDE DEF c, e, f
  <2>. QED BY <1>1, <1>4, <1>8 DEF Live, Tame, Alike, Unfinished, Registered
<1>13. Settles(IF Top.via = "start" THEN n ELSE Minus(n, f), Owes, held, held', e, slot', state', f)
  <2>. HIDE DEF e, f
  <2>1. ASSUME NEW x \in Frames
        PROVE  (IF Top.via = "start" THEN n ELSE Minus(n, f))[x] =
                 Owes[x] + (held'[x] - held[x])
                   + (IF x = f THEN Live(e, f) - 1 ELSE 0)
                   + (IF Unfinished(e, f) /\ state'[f] = "await" /\ slot'[f] = x THEN 1 ELSE 0)
    <3>1. /\ n[x] = Owes[x] + (IF x = f THEN 1 ELSE 0) + (IF x = h /\ ~owned THEN 1 ELSE 0)
          /\ Owes[x] \in Nat /\ held[x] \in Nat
      BY <1>1, <1>2, <1>3 DEF Plus
    <3>2. (IF Top.via = "start" THEN n ELSE Minus(n, f))[x] =
            n[x] - (IF x = f /\ Top.via # "start" THEN 1 ELSE 0)
      BY <1>1, <1>11 DEF Minus
    <3>3. held'[x] = held[x] + (IF x = f /\ Top.via = "start" THEN 1 ELSE 0)
                       - (IF x = h /\ owned THEN 1 ELSE 0)
      BY <1>0
    <3>. QED BY <1>6, <1>12, <3>1, <3>2, <3>3
  <2>. QED BY <2>1 DEF Settles
<1>14. Flow(ctx, stack, e, Pop)
  <2>1. /\ b.ready = ctx.ready /\ b.parked = ctx.parked /\ b.stopped = ctx.stopped
        /\ SameTasks(ctx, b) /\ Settled(ctx, stack) /\ b \in Contexts
    <3>1. SameTasks(ctx, ctx)
      BY DEF SameTasks
    <3>. QED BY Zenon, <1>2, <1>3, <3>1, RetainTasks, OwnTypes DEF Good
  <2>. HIDE DEF b, f
  <2>2. c.ready = b.ready /\ c.parked = b.parked /\ c.stopped = b.stopped /\ SameTasks(b, c)
    BY Zenon, <1>1, <2>1, RetainTasks
  <2>. HIDE DEF c
  <2>3. SameTasks(ctx, c)
    BY Zenon, <2>1, <2>2 DEF SameTasks
  <2>. QED BY Zenon, <1>1, <1>2, <1>4, <2>1, <2>2, <2>3, AwaitFlow
<1>. HIDE DEF e, n, c
<1>. QED BY Zenon, <1>0, <1>6, <1>7, <1>8, <1>9, <1>10, <1>11, <1>13, <1>14, HandStep

\* The unwind of an exception that becomes the completion of its frame.
LEMMA UnwindCompletes ==
  ASSUME OwnInv, TypeOK', Unwind, ~Trapped(CompleteException(ctx, Top.frame))
  PROVE  Owned' /\ Flows
<1> DEFINE f == Top.frame
           c == [ctx EXCEPT !.word = "clear"]
           e == CompleteWith(c, f, "exception")
<1>0. /\ stack # <<>> /\ Trapped(ctx) /\ f # None /\ CompleteException(ctx, f) = e
      /\ slot' = [slot EXCEPT ![f] = None] /\ stack' = Pop
      /\ ctx' = AfterResume(e, Top, TRUE) /\ dirty' = dirty \ {f}
      /\ state' = [state EXCEPT ![f] = "start"]
      /\ held' = IF Top.via = "start" THEN [held EXCEPT ![f] = @ + 1] ELSE held
  <2>1. CompleteException(ctx, f) = e
    <3>1. SettleUncaughtException(ctx).word = "clear" => ctx.word = "clear"
      BY OwnTypes DEF SettleUncaughtException, Trap, Contexts
    <3>. QED BY <3>1 DEF Unwind, CompleteException, Trapped
  <2>. HIDE DEF e, f
  <2>. QED BY <2>1 DEF Unwind, ReturnTo, f
<1>1. /\ Pops(stack, Pop, f) /\ Top \in Activation /\ f \in Frames
      /\ Registered(ctx, f) /\ Unfinished(ctx, f) /\ f \notin ctx.stopped /\ Owes[f] > 0
  BY <1>0, PopTypes
<1>2. /\ Good(ctx) /\ ctx \in Contexts /\ held \in [Frames -> Nat] /\ Owes \in [Frames -> Nat]
      /\ Books(ctx, Owes, Undisturbed(ctx)) /\ ctx.trapping = NoJob
      /\ state \in [Frames -> {"start", "suspend", "await"}]
      /\ slot \in [Frames -> Frames \cup {None}]
  BY <1>0, OwnTypes
<1>3. /\ c.meta = ctx.meta /\ c.ready = ctx.ready /\ c.parked = ctx.parked
      /\ c.stopped = ctx.stopped /\ c.trapping = ctx.trapping /\ c.word = "clear"
      /\ Good(c) /\ c \in Contexts
  BY Zenon, <1>2, GoodTraps DEF Good, Contexts
<1>4. Tame(ctx, c) /\ Books(c, Owes, Undisturbed(ctx)) /\ Unfinished(c, f)
  <2> DEFINE o == Owes
             x == Undisturbed(ctx)
  <2>1. Books(ctx, o, x)
    BY <1>2
  <2>. HIDE DEF c, o, x
  <2>2. Tame(ctx, c) /\ Books(c, o, x)
    BY <1>2, <1>3, <2>1, TameTraps
  <2>. QED BY <1>1, <1>3, <2>2 DEF o, x, Unfinished, Registered
<1>5. Rest(c, stack, slot, state, dirty)
  <2>1. Rest(ctx, stack, slot, state, dirty) /\ \A g \in Frames : slot[g] = slot[g] \/ On(stack, g)
    BY DEF OwnInv, Owned
  <2>. HIDE DEF c
  <2>. QED BY <1>4, <2>1, RestTame
<1>6. Off(f, slot, state, slot', state')
  BY <1>0, <1>1, <1>2 DEF Off
<1>7. Rest(e, Pop, slot', state', dirty') /\ ~Unfinished(e, f)
  <2> DEFINE su == state'
             sm == slot'
  <2>1. Off(f, slot, state, sm, su)
    BY <1>6
  <2>. HIDE DEF su, sm, c, f
  <2>2. Rest(e, Pop, sm, su, dirty \ {f}) /\ ~Unfinished(e, f)
    BY <1>1, <1>3, <1>5, <2>1, FinishRest
  <2>. QED BY <1>0, <2>2 DEF su, sm
<1>8. /\ Good(e) /\ Books(e, Owes, Undisturbed(ctx)) /\ e.word = "clear" /\ e.trapping = NoJob
      /\ Steady(c, e, f)
  <2>. HIDE DEF c, f
  <2>1. Good(e) /\ Books(e, Owes, Undisturbed(ctx))
    BY Zenon, <1>1, <1>2, <1>3, <1>4, CompleteBooks, GoodSteps
  <2>2. e.word = c.word /\ e.trapping = c.trapping
    BY <1>3 DEF CompleteWith, SetMeta, Contexts
  <2>3. Steady(c, e, f)
    BY <1>1, <1>3 DEF CompleteWith, SetMeta, Contexts, Steady, Unfinished, Registered
  <2>. QED BY <1>2, <1>3, <2>1, <2>2, <2>3
<1>9. Steady(ctx, e, f)
  <2>. HIDE DEF c, e, f
  <2>. QED BY <1>4, <1>8, SteadyTame, SteadyTrans
<1>10. ctx' = AfterResume(e, Top, FALSE)
  <2>1. Complete(e, f) = e
    BY <1>7 DEF Complete, CompleteWith
  <2>. QED BY <1>0, <2>1 DEF AfterResume
<1>11. Settles(IF Top.via = "start" THEN Owes ELSE Minus(Owes, f), Owes, held, held',
               e, slot', state', f)
  <2>1. Live(e, f) = 0
    BY <1>7 DEF Live
  <2>. HIDE DEF e, f
  <2>. QED BY <1>0, <1>1, <1>2, <1>7, <2>1 DEF Settles, Minus
<1>12. Flow(ctx, stack, e, Pop)
  <2>. HIDE DEF c, f
  <2>1. Flow(c, stack, e, Pop)
    BY <1>1, <1>3, <1>5, RestSettled, FinishFlow
  <2>. HIDE DEF e
  <2>. QED BY <1>3, <2>1, FlowSame
<1>. HIDE DEF e
<1>. QED BY Zenon, <1>0, <1>1, <1>2, <1>6, <1>7, <1>8, <1>9, <1>10, <1>11, <1>12, HandStep

\* The unwind of a trap: the drain keeps the job at the head, a start or a kick
\* stops the frame.
LEMMA UnwindTraps ==
  ASSUME OwnInv, TypeOK', Unwind, Trapped(CompleteException(ctx, Top.frame))
  PROVE  Owned' /\ Flows
<1> DEFINE f == Top.frame
           c == CompleteException(ctx, f)
           d == ctx'
           sm == slot'
<1>0. /\ stack # <<>> /\ f # None /\ c = SettleUncaughtException(ctx)
      /\ sm = [slot EXCEPT ![f] = None] /\ stack' = Pop /\ d = AfterResume(c, Top, TRUE)
      /\ dirty' = dirty /\ state' = state /\ held' = held /\ entry' = EntryAfter(d, Top)
  <2>1. c = SettleUncaughtException(ctx)
    BY DEF CompleteException, CompleteWith, SetMeta, SettleUncaughtException, Trapped
  <2>. QED BY <2>1 DEF Unwind, ReturnTo
<1>1. /\ Pops(stack, Pop, f) /\ Top \in Activation /\ f \in Frames
      /\ Registered(ctx, f) /\ Unfinished(ctx, f) /\ f \notin ctx.stopped /\ Owes[f] > 0
      /\ ~ctx.meta[f].stale /\ Live(ctx, f) = 1
  BY <1>0, PopTypes
<1>2. /\ Good(ctx) /\ ctx \in Contexts /\ held \in [Frames -> Nat] /\ Owes \in [Frames -> Nat]
      /\ Books(ctx, Owes, Undisturbed(ctx)) /\ ctx.trapping = NoJob
      /\ slot \in [Frames -> Frames \cup {None}]
  BY <1>0, OwnTypes
<1>3. /\ c.meta = ctx.meta /\ c.ready = ctx.ready /\ c.parked = ctx.parked
      /\ c.stopped = ctx.stopped /\ c.trapping = ctx.trapping
      /\ Good(c) /\ c \in Contexts /\ Trapped(c)
  <2>1. Good(c) /\ c \in Contexts /\ Trapped(c)
    BY Zenon, <1>0, <1>2, GoodTraps DEF Good
  <2>. HIDE DEF c
  <2>. QED BY <1>0, <1>2, <2>1 DEF SettleUncaughtException, Trap, Contexts
<1>4. Off(f, slot, state, sm, state) /\ sm[f] = None /\ None \notin Frames
  BY <1>0, <1>1, <1>2, NoneIsNoAddress DEF Off
<1>5. Rest(c, stack, slot, state, dirty)
  <2>1. Tame(ctx, c)
    <3>. HIDE DEF c
    <3>. QED BY <1>2, <1>3, TameTraps
  <2>2. Rest(ctx, stack, slot, state, dirty) /\ \A g \in Frames : slot[g] = slot[g] \/ On(stack, g)
    BY DEF OwnInv, Owned
  <2>. HIDE DEF c
  <2>. QED BY <2>1, <2>2, RestTame
<1>6. ctx.stopped \subseteq Frames
  BY <1>2 DEF Contexts
<1>7. CASE Top.via = "drain"
  <2>1. d = [c EXCEPT !.trapping = [job |-> Invocation(f), kind |-> c.trap],
                      !.ready = <<Invocation(f)>> \o @]
    BY <1>0, <1>3, <1>7 DEF AfterResume
  <2>2. /\ d.parked = c.parked /\ d.stopped = c.stopped /\ d.meta = c.meta /\ d.word = c.word
        /\ d.ready = <<Invocation(f)>> \o c.ready /\ d.trapping.job = Invocation(f)
    <3>. HIDE DEF d, c
    <3>. QED BY <1>3, <2>1 DEF Contexts
  <2>3. f \in dirty
    <3>1. OnDrain(stack, f)
      BY <1>1, <1>7 DEF Pops, OnDrain, Top
    <3>. QED BY Zenon, <1>1, <1>5, <3>1 DEF Rest, Fine
  <2>. HIDE DEF c, d, f, sm
  <2>4. Rest(d, Pop, sm, state, dirty)
    BY Zenon, <1>1, <1>3, <1>4, <1>5, <2>2, <2>3, RequeueRest
  <2>5. Books(d, Owes, Undisturbed(ctx))
    <3> DEFINE x == Undisturbed(ctx)
    <3>1. Books(ctx, Owes, x) /\ d.meta = ctx.meta
      BY <1>2, <1>3, <2>2
    <3>. HIDE DEF x
    <3>2. Books(d, Owes, x)
      BY <3>1, SameBooks
    <3>. QED BY <3>2 DEF x
  <2>6. Live(d, f) = 1
    BY <1>1, <1>3, <2>2 DEF Live, Unfinished, Registered
  <2>7. Settles(Owes, Owes, held, held, d, sm, state, f)
    BY <1>2, <1>4, <2>6 DEF Settles
  <2>8. Balance(d, Pop, held, sm, state)
    <3>1. Rest(ctx, stack, slot, state, dirty) /\ Steady(ctx, d, f)
      BY Zenon, <1>1, <1>3, <2>2 DEF OwnInv, Owned, Steady, Unfinished, Registered
    <3>2. Undisturbed(d) => Undisturbed(ctx)
      BY <1>3, <2>2 DEF Undisturbed, Unfinished, Registered
    <3>. QED BY Zenon, <1>1, <1>2, <1>4, <2>5, <2>7, <3>1, <3>2, PopBalance DEF Owes
  <2>9. Trapping(d, entry')
    <3>1. Trapped(d)
      BY <1>3, <2>2 DEF Trapped
    <3>2. entry' = "none"
      BY <1>0, <1>7, <3>1 DEF EntryAfter
    <3>3. d.ready # <<>> /\ Head(d.ready) = Invocation(f) /\ Invocation(f).tag = "invocation"
      BY <1>3, <2>2 DEF Contexts, JobList, Invocation
    <3>. QED BY <2>2, <3>1, <3>2, <3>3 DEF Trapping
  <2>10. Flow(ctx, stack, d, Pop)
    BY Zenon, <1>1, <1>2, <1>3, <2>2, OwnTypes, RequeueFlow
  <2>. QED BY Zenon, <1>0, <2>4, <2>8, <2>9, <2>10 DEF Owned, Flows, d, sm
<1>8. CASE Top.via # "drain"
  <2>1. d = [c EXCEPT !.stopped = @ \cup {f}]
    BY <1>0, <1>3, <1>8 DEF AfterResume
  <2>2. /\ d.stopped = c.stopped \cup {f} /\ d.meta = c.meta /\ d.trapping = NoJob
    <3>. HIDE DEF d, c
    <3>. QED BY <1>2, <1>3, <2>1 DEF Contexts
  <2>. HIDE DEF c, d, f, sm
  <2>3. Rest(d, Pop, sm, state, dirty)
    BY <1>1, <1>3, <1>4, <1>5, <2>1, StopRest
  <2>4. Books(d, Minus(Owes, f), FALSE)
    <3> DEFINE x == Undisturbed(ctx)
               o == Minus(Owes, f)
    <3>1. o \in [Frames -> Nat] /\ \A g \in Frames : o[g] <= Owes[g]
      BY <1>1, <1>2 DEF Minus
    <3>2. Books(ctx, Owes, x) /\ d.meta = ctx.meta
      BY <1>2, <1>3, <2>2
    <3>. HIDE DEF x, o
    <3>3. Books(ctx, o, FALSE)
      BY Zenon, <1>2, <3>1, <3>2, LessBooks
    <3>4. Books(d, o, FALSE)
      BY Zenon, <3>2, <3>3, SameBooks
    <3>. QED BY Zenon, <3>4 DEF o
  <2>5. Live(d, f) = 0 /\ Steady(ctx, d, f)
    BY <1>3, <2>2 DEF Live, Steady, Unfinished, Registered
  <2>6. Settles(Minus(Owes, f), Owes, held, held, d, sm, state, f)
    BY <1>1, <1>2, <1>4, <2>5 DEF Settles, Minus
  <2>7. Undisturbed(d) => FALSE
    BY <2>2 DEF Undisturbed
  <2>8. Balance(d, Pop, held, sm, state)
    <3>1. Rest(ctx, stack, slot, state, dirty)
      BY DEF OwnInv, Owned
    <3>. QED BY Zenon, <1>1, <1>2, <1>4, <2>4, <2>5, <2>6, <2>7, <3>1, PopBalance DEF Owes
  <2>9. Flow(ctx, stack, d, Pop)
    <3>1. Flow(c, stack, d, Pop)
      BY <1>1, <1>3, <1>5, <2>1, RestSettled, StopFlow
    <3>. QED BY <1>3, <3>1, FlowSame
  <2>. QED BY Zenon, <1>0, <2>2, <2>3, <2>8, <2>9 DEF Owned, Flows, Trapping, d, sm
<1>. QED BY <1>7, <1>8

\* The entries that the creators register.
LEMMA FreshMeta ==
  ASSUME NEW m \in {[Unregistered EXCEPT !.kind = "invocation"],
                    [Unregistered EXCEPT !.kind = "invocation", !.hostRoot = TRUE]}
  PROVE  /\ m \in FrameMeta /\ m.kind # "none" /\ m.completion = "none" /\ m.waiters = <<>>
         /\ ~m.stale
<1>1. m.kind = "invocation" /\ m.completion = "none" /\ m.waiters = <<>> /\ ~m.stale
  BY Zenon DEF Unregistered
<1>2. m \in FrameMeta
  BY Zenon, UnregisteredType DEF FrameMeta
<1>. QED BY <1>1, <1>2

\* A call of an async function, on the stack or by the host.
LEMMA StartSteps ==
  ASSUME OwnInv, TypeOK', \E f \in Frames : Call(f) \/ HostKick(f)
  PROVE  Owned' /\ Flows
<1> DEFINE he == held
           su == state'
<1>1. /\ Good(ctx) /\ ctx \in Contexts /\ he \in [Frames -> Nat]
      /\ stack \in Seq(Activation) /\ state \in [Frames -> {"start", "suspend", "await"}]
      /\ Rest(ctx, stack, slot, state, dirty) /\ Balance(ctx, stack, he, slot, state)
      /\ Trapping(ctx, entry) /\ (stack # <<>> => ctx.trapping = NoJob)
  BY OwnTypes DEF OwnInv, Owned
<1>2. ASSUME NEW f \in Frames, Call(f) PROVE Owned' /\ Flows
  <2> DEFINE m == [Unregistered EXCEPT !.kind = "invocation"]
             a == [frame |-> f, via |-> "start"]
             d == Register(ctx, f, m)
  <2>1. /\ m \in FrameMeta /\ m.kind # "none" /\ m.completion = "none" /\ m.waiters = <<>>
        /\ ~m.stale /\ a \in Activation /\ a.frame = f /\ a.via # "drain"
    BY Zenon, UnregisteredType, FreshMeta DEF Activation
  <2>2. /\ stack # <<>> /\ ~Registered(ctx, f) /\ ctx' = d /\ stack' = Append(stack, a)
        /\ UNCHANGED <<entry, held, slot, dirty>> /\ su = [state EXCEPT ![f] = "start"]
    BY <1>2 DEF Call, Runs
  <2>3. Off(f, slot, state, slot, su)
    BY <1>1, <2>2 DEF Off
  <2>4. d.trapping = ctx.trapping
    BY <1>1 DEF Register, SetMeta, Contexts
  <2>. HIDE DEF m, a, su, he
  <2>5. Rest(d, Append(stack, a), slot, su, dirty) /\ Balance(d, Append(stack, a), he, slot, su)
    BY Zenon, <1>1, <2>1, <2>2, <2>3, StartOwned
  <2>6. \A g \in Frames : On(Append(stack, a), g) <=> On(stack, g) \/ g = f
    BY <1>1, <2>1, StackPush
  <2>7. Flow(ctx, stack, d, Append(stack, a))
    BY Zenon, <1>1, <2>1, <2>2, <2>6, OwnTypes, StartFlow
  <2>. QED BY <1>1, <2>2, <2>4, <2>5, <2>7 DEF Owned, Flows, Trapping, su, he
<1>3. ASSUME NEW f \in Frames, HostKick(f) PROVE Owned' /\ Flows
  <2> DEFINE m == [Unregistered EXCEPT !.kind = "invocation", !.hostRoot = TRUE]
             a == [frame |-> f, via |-> "kick"]
             c == ClearTrap(ctx)
             d == Register(c, f, m)
  <2>1. /\ m \in FrameMeta /\ m.kind # "none" /\ m.completion = "none" /\ m.waiters = <<>>
        /\ ~m.stale /\ a \in Activation /\ a.frame = f /\ a.via # "drain"
    BY Zenon, UnregisteredType, FreshMeta DEF Activation
  <2>2. /\ stack = <<>> /\ ~Registered(ctx, f) /\ ctx' = d /\ stack' = <<a>>
        /\ UNCHANGED <<held, slot, dirty>> /\ su = [state EXCEPT ![f] = "start"]
    BY <1>3 DEF HostKick, AtBoundary, OwnInv, ExceptionInv, Framed
  <2>3. Off(f, slot, state, slot, su) /\ stack' = Append(<<>>, a) /\ <<>> \in Seq(Activation)
    BY <1>1, <2>1, <2>2 DEF Off
  <2>4. Good(c) /\ c.meta = ctx.meta /\ ~Registered(c, f)
    BY <1>1, <2>2, GoodHost, ClearTrapMeta DEF Registered
  <2>5. /\ Rest(c, <<>>, slot, state, dirty) /\ Balance(c, <<>>, he, slot, state)
        /\ c.trapping = NoJob
    <3>. HIDE DEF he
    <3>. QED BY <1>1, <2>2, ClearOwned
  <2>6. d.trapping = NoJob
    BY <2>4, <2>5 DEF Register, SetMeta, Contexts, Good
  <2>. HIDE DEF m, a, su, he, c
  <2>7. Rest(d, Append(<<>>, a), slot, su, dirty) /\ Balance(d, Append(<<>>, a), he, slot, su)
    BY Zenon, <1>1, <2>1, <2>2, <2>3, <2>4, <2>5, StartOwned
  <2>8. /\ c.meta = ctx.meta /\ c.parked = ctx.parked /\ ctx.stopped \subseteq c.stopped
        /\ \A g \in Frames : IsReady(ctx, g) => IsReady(c, g) \/ g \in c.stopped
    BY Zenon, <1>1, <2>2, RestSettled, ClearReady DEF c
  <2>9. \A g \in Frames : On(<<a>>, g) <=> On(<<>>, g) \/ g = f
    BY <2>1, StackSmall
  <2>10. Flow(ctx, <<>>, d, <<a>>)
    BY Zenon, <1>1, <2>1, <2>2, <2>4, <2>8, <2>9, RestSettled, StartFlow DEF Good
  <2>. QED BY Zenon, <2>2, <2>3, <2>6, <2>7, <2>10 DEF Owned, Flows, Trapping, su, he
<1>. QED BY <1>2, <1>3

=============================================================================
