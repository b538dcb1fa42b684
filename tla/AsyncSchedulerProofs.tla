------------------------ MODULE AsyncSchedulerProofs ------------------------
(***************************************************************************)
(* Proofs about AsyncScheduler for every set of frames and every bound:    *)
(* type correctness, and that no exception is lost (NoPendingAtBoundary,   *)
(* UnobservedReported and ExceptionKept).                                  *)
(*                                                                         *)
(* The argument for exceptions has two halves.  Keeps relates a Context to *)
(* its successor under each runtime function: an exception that nobody     *)
(* observed stays cached unless the successor is trapped.  Framed is about *)
(* the stack: only its first activation was entered by the host, so an     *)
(* entry ends with an empty stack and with no exception pending.           *)
(***************************************************************************)
EXTENDS AsyncInvariants, TLAPS

-----------------------------------------------------------------------------
(* What the functions of the runtime return: a Context again, with nothing *)
(* registered but invocations. *)

\* Context::trap yields a Context.
LEMMA TrapType ==
  ASSUME NEW c \in Contexts, NEW k \in TrapKinds
  PROVE  Trap(c, k) \in Contexts
BY Zenon DEF Trap, Contexts

\* An address that async_frames does not hold has a well-typed entry.
LEMMA UnregisteredType == Unregistered \in FrameMeta
<1>1. <<>> \in JobList /\ <<>> \in Inputs
  BY DEF JobList, Inputs
<1>. QED BY <1>1 DEF Unregistered, FrameMeta

\* Writing one AsyncFrameMeta yields a Context.
LEMMA SetMetaType ==
  ASSUME NEW c \in Contexts, NEW f \in Frames, NEW m \in FrameMeta
  PROVE  SetMeta(c, f, m) \in Contexts
BY DEF SetMeta, Contexts

\* async_register yields a Context.
LEMMA RegisterType ==
  ASSUME NEW c \in Contexts, NEW f \in Frames, NEW m \in FrameMeta
  PROVE  Register(c, f, m) \in Contexts
<1>1. [m EXCEPT !.count = 1] \in FrameMeta
  BY DEF FrameMeta
<1>. QED BY <1>1, SetMetaType DEF Register

\* async_retain yields a Context.
LEMMA RetainType ==
  ASSUME NEW c \in Contexts, NEW f \in Frames
  PROVE  Retain(c, f) \in Contexts
<1>1. c.meta[f] \in FrameMeta
  BY DEF Contexts
<1>2. [c.meta[f] EXCEPT !.count = @ + 1] \in FrameMeta
  BY <1>1 DEF FrameMeta
<1>. QED BY <1>2, SetMetaType DEF Retain

\* Registering a continuation with a handle yields a Context.
LEMMA EnqueueType ==
  ASSUME NEW c \in Contexts, NEW h \in Frames, NEW j \in Job
  PROVE  Enqueue(c, h, j) \in Contexts
<1>1. c.meta[h] \in FrameMeta
  BY DEF Contexts
<1>a. c.meta[h].waiters \in JobList /\ c.ready \in JobList
  BY <1>1 DEF FrameMeta, Contexts
<1>b. Append(c.meta[h].waiters, j) \in JobList /\ Append(c.ready, j) \in JobList
  BY <1>a DEF JobList
<1>2. [c.meta[h] EXCEPT !.waiters = Append(@, j)] \in FrameMeta
  BY Zenon, <1>1, <1>b DEF FrameMeta
<1>3. [c EXCEPT !.ready = Append(@, j)] \in Contexts
  BY Zenon, <1>b DEF Contexts
<1>. QED BY <1>2, <1>3, SetMetaType DEF Enqueue

\* Caching a completion and moving the waiters yields a Context.
LEMMA CompleteWithType ==
  ASSUME NEW c \in Contexts, NEW f \in Frames, NEW k \in {"value", "exception"}
  PROVE  CompleteWith(c, f, k) \in Contexts
<1>1. c.meta[f] \in FrameMeta
  BY DEF Contexts
<1>2. [c.meta[f] EXCEPT !.completion = k, !.waiters = <<>>] \in FrameMeta
  <2>1. <<>> \in JobList
    BY DEF JobList
  <2>. QED BY Zenon, <1>1, <2>1 DEF FrameMeta
<1>3. SetMeta(c, f, [c.meta[f] EXCEPT !.completion = k, !.waiters = <<>>]) \in Contexts
  BY <1>2, SetMetaType
<1>4. c.ready \o c.meta[f].waiters \in JobList
  <2>1. c.ready \in JobList /\ c.meta[f].waiters \in JobList
    BY <1>1 DEF FrameMeta, Contexts
  <2>. QED BY <2>1 DEF JobList
<1>5. SetMeta(c, f, [c.meta[f] EXCEPT !.completion = k, !.waiters = <<>>]).ready = c.ready
  BY DEF SetMeta, Contexts
<1>. QED BY Zenon, <1>3, <1>4, <1>5 DEF CompleteWith, Contexts

\* raise_exception and settle_uncaught_exception yield a Context.
LEMMA RaiseExceptionType ==
  ASSUME NEW c \in Contexts
  PROVE  /\ RaiseException(c) \in Contexts
         /\ SettleUncaughtException(c) \in Contexts
<1>1. "Internal" \in TrapKinds /\ "UncaughtException" \in TrapKinds
  BY DEF TrapKinds
<1>2. [c EXCEPT !.word = "exception"] \in Contexts
  BY DEF Contexts
<1>3. c.word \in {"clear", "trap", "exception"}
  BY DEF Contexts
<1>. QED BY <1>1, <1>2, <1>3, TrapType DEF RaiseException, SettleUncaughtException

\* async_result yields a Context.
LEMMA ResultType ==
  ASSUME NEW c \in Contexts, NEW f \in Frames
  PROVE  Result(c, f) \in Contexts
<1>1. c.meta[f] \in FrameMeta
  BY DEF Contexts
<1>2. [c.meta[f] EXCEPT !.observed = TRUE] \in FrameMeta
  BY Zenon, <1>1 DEF FrameMeta
<1>3. SetMeta(c, f, [c.meta[f] EXCEPT !.observed = TRUE]) \in Contexts
  BY <1>2, SetMetaType
<1>. QED BY <1>3, RaiseExceptionType DEF Result

\* The continuation of a frame is a job.
LEMMA InvocationType ==
  ASSUME NEW f \in Frames
  PROVE  Invocation(f) \in Job
BY DEF Invocation, Job

\* Removing one job from a queue yields a queue of jobs.
LEMMA DequeueType ==
  ASSUME NEW s \in JobList, NEW j
  PROVE  Dequeue(s, j) \in JobList
<1>1. CASE \A i \in DOMAIN s : s[i] # j
  BY <1>1 DEF Dequeue
<1>2. CASE \E i \in DOMAIN s : s[i] = j
  <2> DEFINE at == CHOOSE i \in DOMAIN s : s[i] = j
             t == [i \in 1 .. Len(s) - 1 |-> IF i < at THEN s[i] ELSE s[i + 1]]
  <2>1. at \in 1 .. Len(s) /\ Len(s) \in Nat
    BY <1>2 DEF JobList
  <2> HIDE DEF at
  <2>2. \A i \in 1 .. Len(s) - 1 : t[i] \in Job
    BY <2>1 DEF JobList
  <2>3. Len(s) - 1 \in Nat
    BY <2>1
  <2>4. t \in [1 .. Len(s) - 1 -> Job]
    BY <2>2
  <2>5. t \in JobList
    BY <2>3, <2>4 DEF JobList
  <2>. QED BY <1>2, <2>5 DEF Dequeue, at
<1>. QED BY <1>1, <1>2

\* clear_trap yields a Context.
LEMMA ClearTrapType ==
  ASSUME NEW c \in Contexts
  PROVE  ClearTrap(c) \in Contexts
<1> DEFINE t == c.trapping
           q == [c EXCEPT !.ready = Dequeue(@, t.job)]
<1>1. ASSUME NEW d \in Contexts
      PROVE  [d EXCEPT !.trapping = NoJob, !.trap = "none", !.word = "clear"] \in Contexts
  BY Zenon DEF Contexts
<1>2. q \in Contexts
  <2>1. Dequeue(c.ready, t.job) \in JobList
    BY DequeueType DEF Contexts
  <2>. QED BY <2>1 DEF Contexts
<1>3. ASSUME t.kind \notin {"none", "StaleCoroutine"}
      PROVE  ClearTrappingJob(q, t.job) \in Contexts
  <2>1. t.job \in Job
    BY <1>3 DEF Contexts, NoJob
  <2>2. CASE t.job.tag = "invocation"
    <3>1. t.job.at \in Frames
      BY <2>1, <2>2 DEF Job
    <3>. QED BY Zenon, <3>1, <2>2, <1>2 DEF ClearTrappingJob, Contexts
  <2>3. CASE t.job.tag = "group"
    BY <2>3, <1>2 DEF ClearTrappingJob
  <2>4. CASE t.job.tag = "aggregate"
    <3>1. t.job.at \in Frames
      BY <2>1, <2>4 DEF Job
    <3>2. SetMeta(q, t.job.at, Unregistered) \in Contexts
      BY <3>1, <1>2, SetMetaType, UnregisteredType
    <3>. QED BY <3>2, <2>4, <1>2 DEF ClearTrappingJob
  <2>. QED BY <2>1, <2>2, <2>3, <2>4 DEF Job
<1>. QED BY Zenon, <1>1, <1>3 DEF ClearTrap

\* bump_reload_epoch yields a Context.
LEMMA BumpReloadEpochType ==
  ASSUME NEW c \in Contexts
  PROVE  BumpReloadEpoch(c) \in Contexts
<1>1. ASSUME NEW f \in Frames
      PROVE  [c.meta[f] EXCEPT !.stale = TRUE] \in FrameMeta /\ c.meta[f] \in FrameMeta
  <2>1. c.meta[f] \in FrameMeta
    BY DEF Contexts
  <2>. QED BY Zenon, <2>1 DEF FrameMeta
<1>. QED BY <1>1 DEF BumpReloadEpoch, Contexts

\* Writing an invocation or an empty entry keeps the frames invocations.
LEMMA SetMetaKind ==
  ASSUME NEW c \in Contexts, NEW f \in Frames, NEW m, Invocations(c),
         m.kind \in {"none", "invocation"}
  PROVE  Invocations(SetMeta(c, f, m))
BY DEF SetMeta, Invocations, Contexts

\* The functions that generated code calls register no other kind of task.
LEMMA InvocationsSteps ==
  ASSUME NEW c \in Contexts, NEW f \in Frames, Invocations(c)
  PROVE  /\ Invocations(Retain(c, f))
         /\ \A j \in Job : Invocations(Enqueue(c, f, j))
         /\ \A k \in {"value", "exception"} : Invocations(CompleteWith(c, f, k))
         /\ \A k \in TrapKinds : Invocations(Trap(c, k))
<1>1. c.meta[f] \in FrameMeta /\ c.meta[f].kind \in {"none", "invocation"}
  BY DEF Contexts, Invocations
<1>2. Invocations(Retain(c, f))
  <2>1. [c.meta[f] EXCEPT !.count = @ + 1].kind = c.meta[f].kind
    BY <1>1 DEF FrameMeta
  <2>. QED BY Zenon, <1>1, <2>1, SetMetaKind DEF Retain
<1>3. ASSUME NEW j \in Job
      PROVE  Invocations(Enqueue(c, f, j))
  <2>1. [c.meta[f] EXCEPT !.waiters = Append(@, j)].kind = c.meta[f].kind
    BY <1>1 DEF FrameMeta
  <2>2. Invocations([c EXCEPT !.ready = Append(@, j)])
    BY DEF Invocations, Contexts
  <2>. QED BY Zenon, <1>1, <2>1, <2>2, SetMetaKind DEF Enqueue
<1>4. ASSUME NEW k \in {"value", "exception"}
      PROVE  Invocations(CompleteWith(c, f, k))
  <2> DEFINE m == [c.meta[f] EXCEPT !.completion = k, !.waiters = <<>>]
  <2>1. m.kind = c.meta[f].kind
    BY <1>1 DEF FrameMeta
  <2>2. Invocations(SetMeta(c, f, m))
    BY Zenon, <1>1, <2>1, SetMetaKind
  <2>3. [SetMeta(c, f, m) EXCEPT !.ready = @ \o c.meta[f].waiters].meta = SetMeta(c, f, m).meta
    BY DEF SetMeta, Contexts
  <2>. QED BY <2>2, <2>3 DEF CompleteWith, Invocations
<1>5. ASSUME NEW k \in TrapKinds
      PROVE  Invocations(Trap(c, k))
  BY DEF Trap, Invocations, Contexts
<1>. QED BY <1>2, <1>3, <1>4, <1>5

\* Raising and settling an exception touch no frame.
LEMMA RaiseInvocations ==
  ASSUME NEW c \in Contexts, Invocations(c)
  PROVE  /\ Invocations(RaiseException(c))
         /\ Invocations(SettleUncaughtException(c))
         /\ Invocations([c EXCEPT !.word = "clear"])
BY DEF RaiseException, SettleUncaughtException, Trap, Invocations, Contexts

\* Without aggregates and joins a release decrements, frees or reports.
LEMMA ReleaseInvocation ==
  ASSUME NEW c \in Contexts, NEW f \in Frames, Invocations(c)
  PROVE  LET m == c.meta[f]
             n == IF m.count = 0 THEN 0 ELSE m.count - 1
             d == SetMeta(c, f, [m EXCEPT !.count = n])
             e == SetMeta(d, f, Unregistered)
         IN  Release(c, f) =
               IF ~Registered(c, f) THEN c
               ELSE IF n # 0 \/ m.completion = "none" THEN d
               ELSE IF Unobserved(m) THEN Trap(e, "UncaughtException") ELSE e
<1> DEFINE m == c.meta[f]
           n == IF m.count = 0 THEN 0 ELSE m.count - 1
           d == SetMeta(c, f, [m EXCEPT !.count = n])
<1>1. m \in FrameMeta /\ m.kind \in {"none", "invocation"}
  BY DEF Contexts, Invocations
<1>2. d.meta[f] = [m EXCEPT !.count = n]
  BY DEF SetMeta, Contexts
<1>3. d.meta[f].kind = m.kind
  BY <1>1, <1>2 DEF FrameMeta
<1>4. ~KeptForReactions(d, f)
  BY Zenon, <1>1, <1>3 DEF KeptForReactions
<1>5. Free(d, f) = SetMeta(d, f, Unregistered)
  BY <1>1, <1>3 DEF Free
<1>. QED BY <1>4, <1>5 DEF Release

\* async_release keeps a Context of invocations one.
LEMMA ReleaseInvocations ==
  ASSUME NEW c \in Contexts, NEW f \in Frames, Invocations(c)
  PROVE  Release(c, f) \in Contexts /\ Invocations(Release(c, f))
<1> DEFINE m == c.meta[f]
           n == IF m.count = 0 THEN 0 ELSE m.count - 1
           d == SetMeta(c, f, [m EXCEPT !.count = n])
           e == SetMeta(d, f, Unregistered)
<1>1. m \in FrameMeta /\ m.kind \in {"none", "invocation"}
  BY DEF Contexts, Invocations
<1>2. [m EXCEPT !.count = n] \in FrameMeta /\ [m EXCEPT !.count = n].kind = m.kind
  BY <1>1 DEF FrameMeta
<1>3. d \in Contexts /\ Invocations(d)
  BY Zenon, <1>1, <1>2, SetMetaType, SetMetaKind
<1>4. e \in Contexts /\ Invocations(e)
  <2>1. Unregistered.kind = "none"
    BY DEF Unregistered
  <2>. QED BY <1>3, <2>1, SetMetaType, SetMetaKind, UnregisteredType
<1>5. "UncaughtException" \in TrapKinds
  BY DEF TrapKinds
<1>6. Invocations(Trap(e, "UncaughtException")) /\ Trap(e, "UncaughtException") \in Contexts
  BY <1>4, <1>5, InvocationsSteps, TrapType
<1>. HIDE DEF d, e
<1>7. Release(c, f) \in {c, d, e, Trap(e, "UncaughtException")}
  BY ReleaseInvocation DEF d, e
<1>. QED BY <1>3, <1>4, <1>6, <1>7

\* async_result keeps the frames invocations.
LEMMA ResultInvocations ==
  ASSUME NEW c \in Contexts, NEW f \in Frames, Invocations(c)
  PROVE  Invocations(Result(c, f))
<1> DEFINE m == [c.meta[f] EXCEPT !.observed = TRUE]
<1>1. c.meta[f] \in FrameMeta /\ c.meta[f].kind \in {"none", "invocation"}
  BY DEF Contexts, Invocations
<1>2. m \in FrameMeta /\ m.kind = c.meta[f].kind
  BY Zenon, <1>1 DEF FrameMeta
<1>3. SetMeta(c, f, m) \in Contexts /\ Invocations(SetMeta(c, f, m))
  BY Zenon, <1>1, <1>2, SetMetaType, SetMetaKind
<1>. QED BY Zenon, <1>3, RaiseInvocations DEF Result

\* clear_trap keeps the frames invocations.
LEMMA ClearTrapInvocations ==
  ASSUME NEW c \in Contexts, Invocations(c)
  PROVE  /\ Invocations(ClearTrap(c))
         /\ ClearTrap(c).meta = c.meta
<1> DEFINE t == c.trapping
           q == [c EXCEPT !.ready = Dequeue(@, t.job)]
           r == ClearTrappingJob(q, t.job)
<1>1. q.meta = c.meta /\ q \in Contexts
  <2>1. Dequeue(c.ready, t.job) \in JobList
    BY DequeueType DEF Contexts
  <2>. QED BY <2>1 DEF Contexts
<1>2. ASSUME t.kind \notin {"none", "StaleCoroutine"}
      PROVE  r.meta = c.meta /\ r \in Contexts
  <2>1. t.job \in Job
    BY <1>2 DEF Contexts, NoJob
  <2>2. CASE t.job.tag = "invocation"
    <3>1. t.job.at \in Frames
      BY <2>1, <2>2 DEF Job
    <3>. QED BY Zenon, <3>1, <2>2, <1>1 DEF ClearTrappingJob, Contexts
  <2>3. CASE t.job.tag = "group"
    BY Zenon, <2>3, <1>1 DEF ClearTrappingJob
  <2>4. CASE t.job.tag = "aggregate"
    <3>1. t.job.at \in Frames
      BY <2>1, <2>4 DEF Job
    <3>2. c.meta[t.job.at].kind # "aggregate"
      BY <3>1 DEF Invocations
    <3>. QED BY <3>2, <2>4, <1>1 DEF ClearTrappingJob
  <2>. QED BY <2>1, <2>2, <2>3, <2>4 DEF Job
<1>3. ASSUME NEW d \in Contexts
      PROVE  [d EXCEPT !.trapping = NoJob, !.trap = "none", !.word = "clear"].meta = d.meta
  BY DEF Contexts
<1>4. ClearTrap(c).meta = c.meta
  BY <1>2, <1>3 DEF ClearTrap
<1>. QED BY <1>4 DEF Invocations

-----------------------------------------------------------------------------
(* Type correctness. *)

\* The callers of a resume function keep a Context of invocations one.
LEMMA AfterResumeType ==
  ASSUME NEW c \in Contexts, Invocations(c), NEW a \in Activation, a.frame # None,
         NEW done \in BOOLEAN, c.word # "clear" => c.trap # "none"
  PROVE  AfterResume(c, a, done) \in Contexts /\ Invocations(AfterResume(c, a, done))
<1> DEFINE f == a.frame
           completed == IF done THEN Complete(c, f) ELSE c
           requeued == [c EXCEPT !.trapping = [job |-> Invocation(f), kind |-> c.trap],
                                 !.ready = <<Invocation(f)>> \o @]
           stops == [c EXCEPT !.stopped = @ \cup {f}]
<1>1. f \in Frames
  BY DEF Activation
<1>2. completed \in Contexts /\ Invocations(completed)
  BY <1>1, CompleteWithType, InvocationsSteps DEF Complete
<1>3. Release(completed, f) \in Contexts /\ Invocations(Release(completed, f))
  BY <1>1, <1>2, ReleaseInvocations
<1>4. ASSUME Trapped(c)
      PROVE  requeued \in Contexts /\ Invocations(requeued)
  <2>1. Invocation(f) \in Job /\ c.ready \in JobList
    BY <1>1, InvocationType DEF Contexts
  <2>2. <<Invocation(f)>> \o c.ready \in JobList
    BY <2>1 DEF JobList
  <2>3. [job |-> Invocation(f), kind |-> c.trap] \in [job : Job, kind : TrapKinds]
    BY <2>1, <1>4 DEF Contexts, Trapped
  <2>. QED BY Zenon, <2>2, <2>3 DEF Contexts, Invocations
<1>5. stops \in Contexts /\ Invocations(stops)
  BY <1>1 DEF Contexts, Invocations
<1>. HIDE DEF completed, requeued, stops
<1>6. CASE ~Trapped(c)
  BY <1>6, <1>2, <1>3 DEF AfterResume, Activation, completed
<1>7. CASE Trapped(c)
  BY <1>7, <1>4, <1>5 DEF AfterResume, Activation, requeued, stops
<1>. QED BY <1>6, <1>7

\* The innermost activation and the rest of the stack are well typed.
LEMMA StackType ==
  ASSUME TypeOK, stack # <<>>
  PROVE  /\ Top \in Activation
         /\ Pop \in Seq(Activation)
         /\ Top.frame # None => Top.frame \in Frames /\ Top.via \in {"start", "kick", "drain"}
<1>1. stack \in Seq(Activation) /\ Len(stack) \in Nat /\ Len(stack) # 0
  BY DEF TypeOK
<1>2. Top \in Activation
  BY <1>1 DEF Top
<1>3. Pop \in Seq(Activation)
  BY <1>1 DEF Pop
<1>. QED BY <1>2, <1>3 DEF Activation

\* A raised trap keeps its record through every write of a frame.
LEMMA TrapRecordedSteps ==
  ASSUME NEW c \in Contexts, NEW f \in Frames, Invocations(c), TrapRecorded(c)
  PROVE  /\ \A m : TrapRecorded(SetMeta(c, f, m))
         /\ \A k \in TrapKinds : TrapRecorded(Trap(c, k))
         /\ TrapRecorded(RaiseException(c))
         /\ TrapRecorded(SettleUncaughtException(c))
<1>1. "none" \notin TrapKinds /\ "Internal" \in TrapKinds /\ "UncaughtException" \in TrapKinds
  BY DEF TrapKinds
<1>2. ASSUME NEW k \in TrapKinds PROVE TrapRecorded(Trap(c, k))
  BY <1>1 DEF TrapRecorded, Trap, Contexts
<1>3. ASSUME NEW m PROVE TrapRecorded(SetMeta(c, f, m))
  BY DEF TrapRecorded, SetMeta, Contexts
<1>4. TrapRecorded([c EXCEPT !.word = "exception"]) /\ c.word \in {"clear", "trap", "exception"}
  BY DEF TrapRecorded, Contexts
<1>5. TrapRecorded(RaiseException(c))
  BY <1>1, <1>2, <1>4 DEF RaiseException
<1>6. TrapRecorded(SettleUncaughtException(c))
  BY <1>1, <1>2 DEF SettleUncaughtException
<1>. QED BY <1>2, <1>3, <1>5, <1>6

\* async_release records the trap that it raises.
LEMMA TrapRecordedRelease ==
  ASSUME NEW c \in Contexts, NEW f \in Frames, Invocations(c), TrapRecorded(c)
  PROVE  TrapRecorded(Release(c, f))
<1> DEFINE m == c.meta[f]
           n == IF m.count = 0 THEN 0 ELSE m.count - 1
           d == SetMeta(c, f, [m EXCEPT !.count = n])
           e == SetMeta(d, f, Unregistered)
<1>1. d.word = c.word /\ e.word = c.word /\ d.trap = c.trap /\ e.trap = c.trap
      /\ Trap(e, "UncaughtException").trap # "none"
  BY DEF SetMeta, Contexts, Trap, TrapKinds
<1>. HIDE DEF d, e
<1>2. Release(c, f) \in {c, d, e, Trap(e, "UncaughtException")}
  BY ReleaseInvocation DEF d, e
<1>. QED BY <1>1, <1>2 DEF TrapRecorded

\* Every runtime function takes a good Context to a good one.
LEMMA GoodTraps ==
  ASSUME NEW c, Good(c)
  PROVE  /\ \A k \in TrapKinds : Good(Trap(c, k))
         /\ Good(RaiseException(c))
         /\ Good(SettleUncaughtException(c))
         /\ Good([c EXCEPT !.word = "clear"])
<1>. USE DEF Good
<1>1. "none" \notin TrapKinds /\ "Internal" \in TrapKinds /\ "UncaughtException" \in TrapKinds
  BY DEF TrapKinds
<1>2. ASSUME NEW k \in TrapKinds PROVE Good(Trap(c, k))
  <2>1. TrapRecorded(Trap(c, k)) /\ Invocations(Trap(c, k))
    BY <1>1 DEF TrapRecorded, Invocations, Trap, Contexts
  <2>. QED BY <2>1, TrapType
<1>3. Good([c EXCEPT !.word = "exception"]) /\ Good([c EXCEPT !.word = "clear"])
  BY DEF TrapRecorded, Invocations, Contexts
<1>4. c.word \in {"clear", "trap", "exception"}
  BY DEF Contexts
<1>5. Good(RaiseException(c))
  BY <1>1, <1>2, <1>3, <1>4 DEF RaiseException
<1>6. Good(SettleUncaughtException(c))
  BY <1>1, <1>2 DEF SettleUncaughtException
<1>. QED BY <1>2, <1>3, <1>5, <1>6

\* The functions on one frame keep a Context good.
LEMMA GoodSteps ==
  ASSUME NEW c, Good(c), NEW f \in Frames
  PROVE  /\ Good(Retain(c, f))
         /\ \A j \in Job : Good(Enqueue(c, f, j))
         /\ \A k \in {"value", "exception"} : Good(CompleteWith(c, f, k))
         /\ Good(Release(c, f))
<1>. USE DEF Good
<1>1. Good(Retain(c, f))
  BY RetainType, InvocationsSteps, TrapRecordedSteps DEF Retain
<1>2. ASSUME NEW j \in Job PROVE Good(Enqueue(c, f, j))
  <2>1. TrapRecorded([c EXCEPT !.ready = Append(@, j)])
    BY DEF TrapRecorded, Contexts
  <2>. QED BY <2>1, EnqueueType, InvocationsSteps, TrapRecordedSteps DEF Enqueue
<1>3. ASSUME NEW k \in {"value", "exception"} PROVE Good(CompleteWith(c, f, k))
  <2>1. TrapRecorded(CompleteWith(c, f, k))
    BY DEF TrapRecorded, Contexts, CompleteWith, SetMeta
  <2>. QED BY <2>1, CompleteWithType, InvocationsSteps
<1>4. Good(Release(c, f))
  BY ReleaseInvocations, TrapRecordedRelease
<1>. QED BY <1>1, <1>2, <1>3, <1>4

\* async_result keeps a Context good.
LEMMA GoodResult ==
  ASSUME NEW c, Good(c), NEW f \in Frames
  PROVE  Good(Result(c, f))
<1> DEFINE d == SetMeta(c, f, [c.meta[f] EXCEPT !.observed = TRUE])
<1>1. TrapRecorded(d)
  BY TrapRecordedSteps DEF Good
<1>2. TrapRecorded(RaiseException(d))
  BY <1>1 DEF TrapRecorded, RaiseException, Trap, SetMeta, Good, Contexts, TrapKinds
<1>. QED BY <1>2, ResultType, ResultInvocations DEF Good, Result

\* async_complete_exception keeps a Context good and leaves no exception pending.
LEMMA GoodCompleteException ==
  ASSUME NEW c, Good(c), NEW f \in Frames
  PROVE  /\ Good(CompleteException(c, f))
         /\ CompleteException(c, f).word # "exception"
<1>1. Good([c EXCEPT !.word = "clear"])
  BY GoodTraps
<1>2. Good(CompleteWith([c EXCEPT !.word = "clear"], f, "exception"))
  BY <1>1, GoodSteps
<1>3. CompleteWith([c EXCEPT !.word = "clear"], f, "exception").word = "clear"
  BY DEF CompleteWith, SetMeta, Good, Contexts
<1>4. Good(SettleUncaughtException(c))
  BY Zenon, GoodTraps
<1>5. SettleUncaughtException(c).word # "exception"
  BY DEF SettleUncaughtException, Trap, Good, Contexts
<1>. QED BY <1>2, <1>3, <1>4, <1>5 DEF CompleteException

\* Clearance and reload keep a Context good.
LEMMA GoodHost ==
  ASSUME NEW c, Good(c)
  PROVE  Good(ClearTrap(c)) /\ Good(BumpReloadEpoch(c))
<1>1. TrapRecorded(ClearTrap(c))
  <2>1. ASSUME NEW d \in Contexts
        PROVE  [d EXCEPT !.trapping = NoJob, !.trap = "none", !.word = "clear"].word = "clear"
    BY DEF Contexts
  <2>2. ClearTrap(c).word = "clear"
    BY DEF ClearTrap, ClearTrappingJob, SetMeta, Good, Contexts
  <2>. QED BY <2>2 DEF TrapRecorded
<1>2. TrapRecorded(BumpReloadEpoch(c)) /\ Invocations(BumpReloadEpoch(c))
  <2>1. ASSUME NEW f \in Frames
        PROVE  [c.meta[f] EXCEPT !.stale = TRUE].kind = c.meta[f].kind
    <3>1. c.meta[f] \in FrameMeta
      BY DEF Good, Contexts
    <3>. QED BY <3>1 DEF FrameMeta
  <2>. QED BY <2>1 DEF TrapRecorded, BumpReloadEpoch, Good, Contexts, Invocations
<1>. QED BY <1>1, <1>2, ClearTrapType, ClearTrapInvocations, BumpReloadEpochType DEF Good

\* async_register of an invocation keeps a Context good.
LEMMA GoodRegister ==
  ASSUME NEW c, Good(c), NEW f \in Frames
  PROVE  /\ Good(Register(c, f, [Unregistered EXCEPT !.kind = "invocation"]))
         /\ Good(Register(c, f, [Unregistered EXCEPT !.kind = "invocation", !.hostRoot = TRUE]))
<1>1. ASSUME NEW m \in FrameMeta, m.kind = "invocation"
      PROVE  Good(Register(c, f, m))
  <2>1. [m EXCEPT !.count = 1].kind = "invocation"
    BY <1>1 DEF FrameMeta
  <2>. QED BY Zenon, <1>1, <2>1, RegisterType, SetMetaKind, TrapRecordedSteps DEF Good, Register
<1>2. /\ [Unregistered EXCEPT !.kind = "invocation"] \in FrameMeta
      /\ [Unregistered EXCEPT !.kind = "invocation"].kind = "invocation"
  BY UnregisteredType DEF FrameMeta
<1>3. /\ [Unregistered EXCEPT !.kind = "invocation", !.hostRoot = TRUE] \in FrameMeta
      /\ [Unregistered EXCEPT !.kind = "invocation", !.hostRoot = TRUE].kind = "invocation"
  BY Zenon, UnregisteredType DEF FrameMeta
<1>. QED BY Zenon, <1>1, <1>2, <1>3

\* The callers of a resume function keep a Context good.
LEMMA GoodAfterResume ==
  ASSUME NEW c, Good(c), NEW a \in Activation, a.frame # None, NEW done \in BOOLEAN,
         c.word # "exception"
  PROVE  Good(AfterResume(c, a, done))
<1> DEFINE f == a.frame
           completed == IF done THEN Complete(c, f) ELSE c
<1>1. f \in Frames
  BY DEF Activation
<1>2. c.word # "clear" => c.trap # "none"
  BY DEF Good, TrapRecorded, Contexts
<1>3. AfterResume(c, a, done) \in Contexts /\ Invocations(AfterResume(c, a, done))
  BY <1>2, AfterResumeType DEF Good
<1>4. Good(completed) /\ Good(Release(completed, f))
  BY <1>1, GoodSteps DEF Complete
<1>5. /\ TrapRecorded([c EXCEPT !.stopped = @ \cup {f}])
      /\ TrapRecorded([c EXCEPT !.trapping = [job |-> Invocation(f), kind |-> c.trap],
                                !.ready = <<Invocation(f)>> \o @])
  BY DEF Good, TrapRecorded, Contexts
<1>. HIDE DEF completed
<1>6. CASE ~Trapped(c)
  BY <1>6, <1>4 DEF AfterResume, Activation, completed
<1>7. CASE Trapped(c)
  BY <1>7, <1>3, <1>5 DEF AfterResume, Activation, Good
<1>. QED BY <1>6, <1>7

\* The end of an activation leaves every variable it writes well typed.
LEMMA ReturnToType ==
  ASSUME TypeInv, stack # <<>>, Top.frame # None, NEW c, Good(c), c.word # "exception",
         NEW done \in BOOLEAN, ReturnTo(c, done)
  PROVE  /\ Good(ctx')
         /\ stack' \in Seq(Activation)
         /\ entry' \in {"none", "export", "kick", "drain"}
         /\ left' \in Nat \cup {Unlimited}
         /\ held' \in [Frames -> Nat]
<1>1. Top \in Activation /\ Pop \in Seq(Activation) /\ Top.frame \in Frames
      /\ Top.via \in {"start", "kick", "drain"}
  BY StackType DEF TypeInv
<1>2. Good(ctx')
  BY <1>1, GoodAfterResume DEF ReturnTo
<1>3. stack' \in Seq(Activation)
  BY <1>1 DEF ReturnTo
<1>4. entry' \in {"none", "export", "kick", "drain"}
  BY <1>1 DEF ReturnTo, EntryAfter, TypeInv, TypeOK
<1>5. left' \in Nat \cup {Unlimited}
  BY DEF ReturnTo, TypeInv, TypeOK
<1>6. held' \in [Frames -> Nat]
  BY <1>1 DEF ReturnTo, TypeInv, TypeOK
<1>. QED BY <1>2, <1>3, <1>4, <1>5, <1>6

\* The new session is well typed.
LEMMA InitType == Init => TypeInv
<1>. SUFFICES ASSUME Init PROVE TypeInv
  OBVIOUS
<1>1. NoGroup \in GroupState /\ <<>> \in JobList /\ <<>> \in FrameList
  <2>1. <<>> \in Inputs
    BY DEF Inputs
  <2>. QED BY <2>1 DEF NoGroup, GroupState, JobList, FrameList
<1>2. NewContext \in Contexts
  BY <1>1, UnregisteredType DEF NewContext, Contexts
<1>3. Invocations(NewContext) /\ TrapRecorded(NewContext)
  BY DEF Invocations, TrapRecorded, NewContext, Unregistered
<1>. QED BY <1>2, <1>3 DEF TypeInv, TypeOK, Good, Init

\* Every step of generated code keeps the types.
LEMMA ScriptType == TypeInv /\ Script => TypeInv'
<1>. SUFFICES ASSUME TypeInv, Script PROVE TypeInv'
  OBVIOUS
<1>. USE DEF TypeInv
<1>0. /\ ctx \in Contexts /\ Good(ctx) /\ held \in [Frames -> Nat]
      /\ ctx.word \in {"clear", "trap", "exception"}
  BY DEF TypeOK, Contexts
<1>1. ASSUME NEW f \in Frames, Call(f) PROVE TypeInv'
  <2>1. Good(ctx')
    BY Zenon, <1>0, <1>1, GoodRegister DEF Call
  <2>2. stack' \in Seq(Activation)
    BY <1>1 DEF Call, TypeOK, Activation
  <2>3. state' \in [Frames -> {"start", "suspend", "await"}]
    BY <1>1 DEF Call, TypeOK
  <2>4. UNCHANGED <<entry, left, held, slot, dirty>>
    BY <1>1 DEF Call
  <2>. QED BY <2>1, <2>2, <2>3, <2>4 DEF TypeOK, Good
<1>2. ASSUME NEW h \in Frames, Copy(h) \/ Drop(h) PROVE TypeInv'
  <2>1. Good(ctx')
    BY <1>0, <1>2, GoodSteps DEF Copy, Drop
  <2>2. held' \in [Frames -> Nat]
    BY <1>0, <1>2 DEF Copy, Drop
  <2>. QED BY <1>2, <2>1, <2>2 DEF Copy, Drop, scriptUnchanged, TypeOK, Good
<1>3. ASSUME NEW h \in Frames, AwaitStale(h) PROVE TypeInv'
  <2>1. Good(ctx')
    BY Zenon, <1>0, <1>3, GoodTraps DEF AwaitStale, TrapKinds
  <2>2. slot' \in [Frames -> Frames \cup {None}]
    BY Zenon, <1>3 DEF AwaitStale, TypeOK
  <2>. QED BY <1>3, <2>1, <2>2 DEF AwaitStale, TypeOK, Good
<1>4. ASSUME NEW h \in Frames, NEW owned \in BOOLEAN, Await(h, owned) PROVE TypeInv'
  <2> DEFINE f == Top.frame
             b == IF owned THEN ctx ELSE Retain(ctx, h)
             c == AwaitOwned(b, f, h)
  <2>1. stack # <<>> /\ Top.frame # None /\ ctx.word = "clear"
    BY <1>4 DEF Await, RunsFrame, Runs
  <2>2. Top \in Activation /\ Pop \in Seq(Activation) /\ f \in Frames
        /\ Top.via \in {"start", "kick", "drain"}
    BY <2>1, StackType
  <2>3. Good(b)
    BY <1>0, GoodSteps
  <2>4. Good(Retain(b, f)) /\ Invocation(f) \in Job
    BY Zenon, <2>2, <2>3, GoodSteps, InvocationType
  <2>5. Good(c)
    BY <2>4, GoodSteps DEF AwaitOwned
  <2>6. c.word = "clear"
    BY <1>0, <2>1 DEF AwaitOwned, Enqueue, Retain, SetMeta, Contexts
  <2>. HIDE DEF c, b
  <2>7. Good(ctx')
    BY Zenon, <1>4, <2>1, <2>2, <2>5, <2>6, GoodAfterResume DEF Await, c, b
  <2>8. stack' \in Seq(Activation) /\ entry' \in {"none", "export", "kick", "drain"}
        /\ left' \in Nat \cup {Unlimited}
    BY Zenon, <1>4, <2>2 DEF Await, TypeOK, EntryAfter
  <2>9. held' \in [Frames -> Nat]
    <3>1. /\ held' = [x \in Frames |-> held[x] + (IF x = f /\ Top.via = "start" THEN 1 ELSE 0)
                                              - (IF x = h /\ owned THEN 1 ELSE 0)]
          /\ held[h] > 0
      BY <1>4 DEF Await
    <3>2. ASSUME NEW x \in Frames
          PROVE  held[x] + (IF x = f /\ Top.via = "start" THEN 1 ELSE 0)
                   - (IF x = h /\ owned THEN 1 ELSE 0) \in Nat
      BY <1>0, <3>1
    <3>. QED BY <3>1, <3>2
  <2>10. slot' \in [Frames -> Frames \cup {None}]
         /\ state' \in [Frames -> {"start", "suspend", "await"}] /\ dirty' \subseteq Frames
    BY <1>4, <2>2 DEF Await, TypeOK
  <2>. QED BY <2>7, <2>8, <2>9, <2>10 DEF TypeOK, Good
<1>5. ASSUME Raise \/ Catch \/ Fault PROVE TypeInv'
  <2>1. Good(ctx')
    BY Zenon, <1>0, <1>5, GoodTraps DEF Raise, Catch, Fault, TrapKinds
  <2>2. UNCHANGED <<held, stack, entry, left, slot, state, dirty>>
    BY <1>5 DEF Raise, Catch, Fault, scriptUnchanged
  <2>. QED BY <2>1, <2>2 DEF TypeOK, Good
<1>6. CASE Suspend
  <2> DEFINE f == Top.frame
             c == [Retain(ctx, f) EXCEPT !.parked = Append(@, f)]
  <2>1. stack # <<>> /\ f # None /\ f \in Frames /\ ctx.word = "clear"
    BY <1>6, StackType DEF Suspend, RunsFrame, Runs
  <2>2. Good(Retain(ctx, f)) /\ Retain(ctx, f).word = "clear"
    BY <1>0, <2>1, GoodSteps DEF Retain, SetMeta, Contexts
  <2>3. Append(Retain(ctx, f).parked, f) \in FrameList
    BY <2>1, <2>2 DEF Good, Contexts, FrameList
  <2>4. Good(c) /\ c.word = "clear"
    BY Zenon, <2>2, <2>3 DEF Good, Contexts, TrapRecorded, Invocations
  <2>. HIDE DEF c
  <2>5. ReturnTo(c, FALSE)
    BY Zenon, <1>6 DEF Suspend, c
  <2>6. /\ Good(ctx') /\ stack' \in Seq(Activation)
        /\ entry' \in {"none", "export", "kick", "drain"}
        /\ left' \in Nat \cup {Unlimited} /\ held' \in [Frames -> Nat]
    BY Zenon, <2>1, <2>4, <2>5, ReturnToType
  <2>7. slot' \in [Frames -> Frames \cup {None}]
        /\ state' \in [Frames -> {"start", "suspend", "await"}] /\ dirty' \subseteq Frames
    BY <1>6, <2>1 DEF Suspend, TypeOK
  <2>. QED BY <2>6, <2>7 DEF TypeOK, Good
<1>7. CASE Return
  <2>1. stack # <<>> /\ Top.frame # None /\ Top.frame \in Frames /\ ctx.word = "clear"
    BY <1>7, StackType DEF Return, RunsFrame, Runs
  <2>2. /\ Good(ctx') /\ stack' \in Seq(Activation)
        /\ entry' \in {"none", "export", "kick", "drain"}
        /\ left' \in Nat \cup {Unlimited} /\ held' \in [Frames -> Nat]
    BY Zenon, <1>0, <1>7, <2>1, ReturnToType DEF Return
  <2>3. slot' \in [Frames -> Frames \cup {None}]
        /\ state' \in [Frames -> {"start", "suspend", "await"}] /\ dirty' \subseteq Frames
    BY <1>7, <2>1 DEF Return, TypeOK
  <2>. QED BY <2>2, <2>3 DEF TypeOK, Good
<1>8. CASE Unwind
  <2> DEFINE c == CompleteException(ctx, Top.frame)
  <2>1. stack # <<>> /\ Top.frame # None /\ Top.frame \in Frames
    BY <1>8, StackType DEF Unwind
  <2>2. Good(c) /\ c.word # "exception"
    BY <1>0, <2>1, GoodCompleteException
  <2>. HIDE DEF c
  <2>3. ReturnTo(c, TRUE)
    BY Zenon, <1>8 DEF Unwind, c
  <2>4. /\ Good(ctx') /\ stack' \in Seq(Activation)
        /\ entry' \in {"none", "export", "kick", "drain"}
        /\ left' \in Nat \cup {Unlimited} /\ held' \in [Frames -> Nat]
    BY Zenon, <2>1, <2>2, <2>3, ReturnToType
  <2>5. slot' \in [Frames -> Frames \cup {None}]
        /\ state' \in [Frames -> {"start", "suspend", "await"}] /\ dirty' \subseteq Frames
    BY <1>8, <2>1 DEF Unwind, TypeOK
  <2>. QED BY <2>4, <2>5 DEF TypeOK, Good
<1>9. CASE ExportReturn
  <2>1. Good(ctx')
    BY Zenon, <1>0, <1>9, GoodTraps DEF ExportReturn
  <2>2. stack' \in Seq(Activation)
    BY <1>9, StackType DEF ExportReturn
  <2>3. entry' = "none" /\ UNCHANGED <<left, held, slot, state, dirty>>
    BY <1>9 DEF ExportReturn
  <2>. QED BY <2>1, <2>2, <2>3 DEF TypeOK, Good
<1>. QED BY <1>1, <1>2, <1>3, <1>4, <1>5, <1>6, <1>7, <1>8, <1>9 DEF Script

\* Every host call and every reload keeps the types.
LEMMA HostType == TypeInv /\ Host => TypeInv'
<1>. SUFFICES ASSUME TypeInv, Host PROVE TypeInv'
  OBVIOUS
<1>. USE DEF TypeInv
<1>0. Good(ctx) /\ Good(ClearTrap(ctx)) /\ Good(BumpReloadEpoch(ctx))
  BY GoodHost
<1>1. CASE HostExport
  <2>1. Good(ctx') /\ stack' \in Seq(Activation) /\ entry' = "export"
        /\ UNCHANGED <<left, held, slot, state, dirty>>
    BY <1>0, <1>1 DEF HostExport, Activation
  <2>. QED BY <2>1 DEF TypeOK, Good
<1>2. CASE HostClearTrap \/ Reload
  <2>1. Good(ctx') /\ UNCHANGED <<stack, entry, left, held, slot, state, dirty>>
    BY <1>0, <1>2 DEF HostClearTrap, Reload
  <2>. QED BY <2>1 DEF TypeOK, Good
<1>3. ASSUME NEW f \in Frames, HostKick(f) PROVE TypeInv'
  <2>1. Good(ctx')
    BY <1>0, <1>3, GoodRegister DEF HostKick
  <2>2. stack' \in Seq(Activation) /\ entry' = "kick" /\ UNCHANGED <<left, held, slot, dirty>>
    BY <1>3 DEF HostKick, Activation
  <2>3. state' \in [Frames -> {"start", "suspend", "await"}]
    BY <1>3 DEF HostKick, TypeOK
  <2>. QED BY <2>1, <2>2, <2>3 DEF TypeOK, Good
<1>4. ASSUME NEW limit \in Limits, HostStep(limit) PROVE TypeInv'
  <2> DEFINE parked == [i \in DOMAIN ctx.parked |-> Invocation(ctx.parked[i])]
  <2>1. ctx \in Contexts /\ ctx.parked \in FrameList /\ ctx.ready \in JobList
    BY <1>0 DEF Good, Contexts
  <2>2. parked \in JobList
    <3>1. Len(ctx.parked) \in Nat /\ DOMAIN ctx.parked = 1 .. Len(ctx.parked)
          /\ \A i \in DOMAIN ctx.parked : ctx.parked[i] \in Frames
      BY <2>1 DEF FrameList
    <3>2. parked \in [1 .. Len(ctx.parked) -> Job]
      BY <3>1, InvocationType
    <3>. HIDE DEF parked
    <3>. QED BY <3>1, <3>2 DEF JobList
  <2>. HIDE DEF parked
  <2>3. ctx.ready \o parked \in JobList /\ <<>> \in FrameList
    BY <2>1, <2>2 DEF JobList, FrameList
  <2>4. ctx' = [ctx EXCEPT !.ready = @ \o parked, !.parked = <<>>]
    BY <1>4 DEF HostStep, parked
  <2>5. Good(ctx')
    BY Zenon, <1>0, <2>3, <2>4 DEF Good, Contexts, Invocations, TrapRecorded
  <2>6. left' \in Nat \cup {Unlimited} /\ entry' = "drain"
        /\ UNCHANGED <<stack, held, slot, state, dirty>>
    BY <1>4, LimitsAssumption DEF HostStep
  <2>. QED BY <2>5, <2>6 DEF TypeOK, Good
<1>. QED BY <1>1, <1>2, <1>3, <1>4 DEF Host, HostCall

\* Every step of the drain loop keeps the types.
LEMMA DrainType == TypeInv /\ Drain => TypeInv'
<1>. SUFFICES ASSUME TypeInv, Drain PROVE TypeInv'
  OBVIOUS
<1>. USE DEF TypeInv
<1> DEFINE f == Head(ctx.ready).at
           c == [ctx EXCEPT !.ready = Tail(@)]
<1>0. Good(ctx) /\ ctx \in Contexts /\ ctx.ready \in JobList
  BY DEF Good, Contexts
<1>1. ASSUME ctx.ready # <<>>, Head(ctx.ready).tag = "invocation"
      PROVE  f \in Frames /\ Good(c) /\ c.meta = ctx.meta /\ c.word = ctx.word
  <2>1. Head(ctx.ready) \in Job /\ Tail(ctx.ready) \in JobList
    BY <1>0, <1>1 DEF JobList
  <2>2. f \in Frames
    BY <1>1, <2>1 DEF Job
  <2>. QED BY Zenon, <1>0, <2>1, <2>2 DEF Good, Contexts, Invocations, TrapRecorded
<1>2. ASSUME left # 0 PROVE NextLeft \in Nat \cup {Unlimited}
  BY <1>2 DEF NextLeft, TypeOK, Unlimited
<1>. HIDE DEF c, f
<1>3. CASE DrainResume
  <2>1. ctx.ready # <<>> /\ Head(ctx.ready).tag = "invocation" /\ left # 0
    BY <1>3 DEF DrainResume
  <2>2. f \in Frames /\ Good(c) /\ c.meta = ctx.meta
    BY <1>1, <2>1
  <2>3. ctx' = IF state[f] = "await" THEN Release(Result(c, slot[f]), slot[f]) ELSE c
    BY <1>3 DEF DrainResume, c, f
  <2>4. ASSUME state[f] = "await" PROVE slot[f] \in Frames
    <3>1. ~MissingCompletion(f)
      BY <1>3 DEF DrainResume, f
    <3>. QED BY <2>4, <3>1 DEF MissingCompletion, Completed, Registered
  <2>5. Good(ctx')
    BY <2>2, <2>3, <2>4, GoodResult, GoodSteps
  <2>6. stack' \in Seq(Activation)
    BY <1>3, <2>2 DEF DrainResume, Activation, f
  <2>7. /\ slot' \in [Frames -> Frames \cup {None}] /\ dirty' \subseteq Frames
        /\ left' \in Nat \cup {Unlimited} /\ UNCHANGED <<entry, held, state>>
    BY <1>2, <1>3, <2>1, <2>2 DEF DrainResume, TypeOK, f
  <2>. QED BY <2>5, <2>6, <2>7 DEF TypeOK, Good
<1>4. CASE DrainRefuse
  <2> DEFINE k == IF StaleResume(f) THEN "StaleCoroutine" ELSE "Internal"
             a == [frame |-> f, via |-> "drain"]
  <2>1. ctx.ready # <<>> /\ Head(ctx.ready).tag = "invocation"
    BY <1>4 DEF DrainRefuse
  <2>2. f \in Frames /\ Good(c)
    BY <1>1, <2>1
  <2>3. Good(Trap(c, k))
    BY Zenon, <2>2, GoodTraps DEF TrapKinds
  <2>8. Trap(c, k).word = "trap"
    BY <2>2 DEF Trap, Good, Contexts
  <2>4. a \in Activation /\ a.frame # None
    BY <2>2, NoneIsNoAddress DEF Activation
  <2>. HIDE DEF k, a
  <2>5. ctx' = AfterResume(Trap(c, k), a, TRUE)
    BY <1>4 DEF DrainRefuse, c, f, k, a
  <2>6. Good(ctx')
    BY Zenon, <2>3, <2>4, <2>5, <2>8, GoodAfterResume
  <2>7. /\ slot' \in [Frames -> Frames \cup {None}] /\ left' = Unlimited
        /\ entry' = "none" /\ UNCHANGED <<stack, held, state, dirty>>
    BY <1>4, <2>2 DEF DrainRefuse, TypeOK, f
  <2>. QED BY <2>6, <2>7 DEF TypeOK, Good
<1>5. CASE DrainEnd
  BY <1>5 DEF DrainEnd, TypeOK, Good, Contexts
<1>. QED BY <1>3, <1>4, <1>5 DEF Drain

\* The variables keep their types in every reachable state of the scheduler,
\* only invocations are registered, and a raised trap always has a record
\* (async_scheduler.rs, exception.rs, Context::trap).
THEOREM TypeCorrect == Spec => [](TypeOK /\ Good(ctx))
<1>1. Init => TypeInv
  BY InitType
<1>2. TypeInv /\ [Next]_vars => TypeInv'
  <2>. SUFFICES ASSUME TypeInv, [Next]_vars PROVE TypeInv'
    OBVIOUS
  <2>1. CASE Next
    BY <2>1, ScriptType, HostType, DrainType DEF Next
  <2>2. CASE UNCHANGED vars
    BY <2>2 DEF vars, TypeInv, TypeOK, Good
  <2>. QED BY <2>1, <2>2
<1>. QED BY <1>1, <1>2, PTL DEF Spec, TypeInv

-----------------------------------------------------------------------------
(* Nobody's exception is dropped by a function of the runtime. *)

\* Calls compose.
LEMMA KeepsTrans ==
  ASSUME NEW c, NEW d, NEW e, Keeps(d, e)
  PROVE  /\ Keeps(c, d) => Keeps(c, e)
         /\ Cached(c, d) => Cached(c, e)
BY DEF Keeps, Cached

\* A function that leaves the frames and the word alone keeps everything.
LEMMA KeepsSame ==
  ASSUME NEW c, NEW d, d.meta = c.meta, d.word = c.word
  PROVE  Keeps(c, d)
BY DEF Keeps, Cached, Clean, Trapped

\* Writing one AsyncFrameMeta keeps everything when the write keeps its own
\* exception and does not leave a completion without a frame.
LEMMA KeepsSetMeta ==
  ASSUME NEW c \in Contexts, NEW f \in Frames, NEW m \in FrameMeta,
         CleanMeta(c.meta[f]) => CleanMeta(m),
         Unobserved(c.meta[f]) => Unobserved(m)
  PROVE  Keeps(c, SetMeta(c, f, m))
<1>1. /\ SetMeta(c, f, m).word = c.word
      /\ \A g \in Frames : SetMeta(c, f, m).meta[g] = IF g = f THEN m ELSE c.meta[g]
  BY DEF SetMeta, Contexts
<1>. QED BY <1>1 DEF Keeps, Cached, Clean, Trapped

\* Context::trap, raise_exception and settle_uncaught_exception keep the
\* frames and leave the word raised.
LEMMA KeepsTraps ==
  ASSUME NEW c \in Contexts
  PROVE  /\ \A k \in TrapKinds : Keeps(c, Trap(c, k)) /\ Trapped(Trap(c, k))
         /\ Keeps(c, RaiseException(c)) /\ Trapped(RaiseException(c))
         /\ Keeps(c, SettleUncaughtException(c))
<1>1. ASSUME NEW k \in TrapKinds PROVE Keeps(c, Trap(c, k)) /\ Trapped(Trap(c, k))
  <2>1. Trap(c, k).meta = c.meta /\ Trap(c, k).word = "trap"
    BY DEF Trap, Contexts
  <2>. QED BY <2>1 DEF Keeps, Cached, Clean, Trapped
<1>2. "Internal" \in TrapKinds /\ "UncaughtException" \in TrapKinds
  BY DEF TrapKinds
<1>3. Keeps(c, [c EXCEPT !.word = "exception"]) /\ Trapped([c EXCEPT !.word = "exception"])
  BY DEF Keeps, Cached, Clean, Trapped, Contexts
<1>4. Keeps(c, c)
  BY KeepsSame
<1>5. c.word \in {"clear", "trap", "exception"}
  BY DEF Contexts
<1>6. Keeps(c, RaiseException(c)) /\ Trapped(RaiseException(c))
  <2>1. CASE c.word = "trap"
    BY <2>1, <1>4 DEF RaiseException, Trapped
  <2>2. CASE c.word # "trap"
    BY <2>2, <1>1, <1>2, <1>3, <1>5 DEF RaiseException
  <2>. QED BY <2>1, <2>2
<1>7. Keeps(c, SettleUncaughtException(c))
  BY <1>1, <1>2, <1>4 DEF SettleUncaughtException
<1>. QED BY <1>1, <1>6, <1>7

\* async_retain, a continuation's registration and a completion keep
\* everything: only an unfinished frame completes.
LEMMA KeepsSteps ==
  ASSUME NEW c \in Contexts, NEW f \in Frames
  PROVE  /\ Keeps(c, Retain(c, f))
         /\ \A j \in Job : Keeps(c, Enqueue(c, f, j))
         /\ \A k \in {"value", "exception"} : Keeps(c, CompleteWith(c, f, k))
<1>0. c.meta[f] \in FrameMeta /\ Keeps(c, c)
  BY KeepsSame DEF Contexts
<1>1. Keeps(c, Retain(c, f))
  <2> DEFINE m == [c.meta[f] EXCEPT !.count = @ + 1]
  <2>1. m \in FrameMeta /\ m.kind = c.meta[f].kind /\ m.completion = c.meta[f].completion
        /\ m.observed = c.meta[f].observed
    BY <1>0 DEF FrameMeta
  <2>. HIDE DEF m
  <2>2. Keeps(c, SetMeta(c, f, m))
    BY <2>1, KeepsSetMeta DEF Unobserved, CleanMeta
  <2>. QED BY <1>0, <2>2 DEF Retain, m
<1>2. ASSUME NEW j \in Job PROVE Keeps(c, Enqueue(c, f, j))
  <2> DEFINE m == [c.meta[f] EXCEPT !.waiters = Append(@, j)]
             d == [c EXCEPT !.ready = Append(@, j)]
  <2>0. c.meta[f].waiters \in JobList
    BY <1>0 DEF FrameMeta
  <2>3. Append(c.meta[f].waiters, j) \in JobList
    BY <2>0 DEF JobList
  <2>1. m \in FrameMeta /\ m.kind = c.meta[f].kind /\ m.completion = c.meta[f].completion
        /\ m.observed = c.meta[f].observed
    BY Zenon, <1>0, <2>3 DEF FrameMeta
  <2>4. d.meta = c.meta /\ d.word = c.word
    BY DEF Contexts
  <2>. HIDE DEF m, d
  <2>2. Keeps(c, SetMeta(c, f, m)) /\ Keeps(c, d)
    BY <2>1, <2>4, KeepsSetMeta, KeepsSame DEF Unobserved, CleanMeta
  <2>. QED BY <2>2 DEF Enqueue, m, d
<1>3. ASSUME NEW k \in {"value", "exception"} PROVE Keeps(c, CompleteWith(c, f, k))
  <2> DEFINE m == [c.meta[f] EXCEPT !.completion = k, !.waiters = <<>>]
             e == SetMeta(c, f, m)
             d == [e EXCEPT !.ready = @ \o c.meta[f].waiters]
  <2>0. <<>> \in JobList
    BY DEF JobList
  <2>1. m \in FrameMeta /\ m.kind = c.meta[f].kind /\ m.completion # "none"
    BY Zenon, <1>0, <2>0 DEF FrameMeta
  <2>2. ASSUME Unfinished(c, f) PROVE Keeps(c, e)
    <3>. HIDE DEF m
    <3>1. m.kind # "none" /\ ~Unobserved(c.meta[f])
      BY <2>1, <2>2 DEF Unfinished, Registered, Unobserved
    <3>. QED BY <2>1, <3>1, KeepsSetMeta DEF CleanMeta
  <2>3. e \in Contexts
    BY <2>1, SetMetaType
  <2>. HIDE DEF e
  <2>4. d.meta = e.meta /\ d.word = e.word
    BY <2>3 DEF Contexts
  <2>. HIDE DEF d
  <2>5. ASSUME Unfinished(c, f) PROVE Keeps(c, d)
    BY <2>2, <2>4, <2>5, KeepsSame, KeepsTrans
  <2>. QED BY <1>0, <2>5 DEF CompleteWith, d, e, m
<1>. QED BY <1>1, <1>2, <1>3

\* async_release keeps everything: the last holder of an exception that
\* nobody observed traps.
LEMMA KeepsRelease ==
  ASSUME NEW c, Good(c), NEW f \in Frames
  PROVE  Keeps(c, Release(c, f))
<1> DEFINE m == c.meta[f]
           n == IF m.count = 0 THEN 0 ELSE m.count - 1
           w == [m EXCEPT !.count = n]
           d == SetMeta(c, f, w)
           e == SetMeta(d, f, Unregistered)
<1>1. c \in Contexts /\ Invocations(c) /\ m \in FrameMeta
  BY DEF Good, Contexts
<1>2. w \in FrameMeta /\ w.kind = m.kind /\ w.completion = m.completion
      /\ w.observed = m.observed
  BY <1>1 DEF FrameMeta
<1>3. Keeps(c, c)
  BY KeepsSame
<1>4. Keeps(c, d)
  <2>. HIDE DEF w
  <2>. QED BY <1>1, <1>2, KeepsSetMeta DEF Unobserved, CleanMeta
<1>5. d \in Contexts /\ d.meta[f] = w
  <2>. HIDE DEF w
  <2>. QED BY Zenon, <1>1, <1>2, SetMetaType DEF SetMeta, Contexts
<1>6. e \in Contexts
  BY <1>5, SetMetaType, UnregisteredType
<1>7. ASSUME ~Unobserved(m) PROVE Keeps(d, e)
  <2>1. ~Unobserved(d.meta[f])
    BY Zenon, <1>2, <1>5, <1>7 DEF Unobserved
  <2>2. CleanMeta(Unregistered)
    BY DEF Unregistered, CleanMeta
  <2>. HIDE DEF d
  <2>. QED BY <1>5, <2>1, <2>2, KeepsSetMeta, UnregisteredType
<1>8. ASSUME Unobserved(m) PROVE Keeps(c, Trap(e, "UncaughtException"))
  <2> DEFINE t == Trap(e, "UncaughtException")
  <2>1. t.meta = e.meta /\ t.word = "trap"
    BY <1>6 DEF Trap, Contexts
  <2>2. \A g \in Frames : e.meta[g] = IF g = f THEN Unregistered ELSE c.meta[g]
    BY <1>1 DEF SetMeta, Contexts
  <2>3. CleanMeta(Unregistered)
    BY DEF Unregistered, CleanMeta
  <2>. HIDE DEF t, e
  <2>. QED BY <2>1, <2>2, <2>3 DEF Keeps, Cached, Clean, Trapped, t
<1>9. Keeps(c, d) /\ (~Unobserved(m) => Keeps(c, e))
  <2>. HIDE DEF d, e
  <2>. QED BY <1>4, <1>7, KeepsTrans
<1>10. \/ Release(c, f) = c \/ Release(c, f) = d
       \/ ~Unobserved(m) /\ Release(c, f) = e
       \/ Unobserved(m) /\ Release(c, f) = Trap(e, "UncaughtException")
  <2>1. Release(c, f) =
          IF ~Registered(c, f) THEN c
          ELSE IF n # 0 \/ m.completion = "none" THEN d
          ELSE IF Unobserved(m) THEN Trap(e, "UncaughtException") ELSE e
    BY <1>1, ReleaseInvocation
  <2>. HIDE DEF d, e, m, n
  <2>. QED BY <2>1
<1>. HIDE DEF d, e, m, n
<1>. QED BY <1>3, <1>8, <1>9, <1>10

\* async_release leaves the word alone or traps.
LEMMA ReleaseWord ==
  ASSUME NEW c, Good(c), NEW f \in Frames
  PROVE  Release(c, f).word \in {c.word, "trap"}
<1> DEFINE m == c.meta[f]
           n == IF m.count = 0 THEN 0 ELSE m.count - 1
           d == SetMeta(c, f, [m EXCEPT !.count = n])
           e == SetMeta(d, f, Unregistered)
<1>1. c \in Contexts /\ Invocations(c)
  BY DEF Good
<1>2. d.word = c.word /\ e.word = c.word /\ Trap(e, "UncaughtException").word = "trap"
  BY <1>1 DEF SetMeta, Contexts, Trap
<1>. HIDE DEF d, e
<1>3. Release(c, f) \in {c, d, e, Trap(e, "UncaughtException")}
  BY <1>1, ReleaseInvocation DEF d, e
<1>. QED BY <1>2, <1>3

\* async_result keeps everything: an exception becomes observed and pending.
LEMMA KeepsResult ==
  ASSUME NEW c, Good(c), NEW f \in Frames
  PROVE  Keeps(c, Result(c, f))
<1> DEFINE m == [c.meta[f] EXCEPT !.observed = TRUE]
           d == SetMeta(c, f, m)
<1>0. c \in Contexts /\ c.meta[f] \in FrameMeta
  BY DEF Good, Contexts
<1>1. m \in FrameMeta /\ m.kind = c.meta[f].kind /\ m.completion = c.meta[f].completion
  BY Zenon, <1>0 DEF FrameMeta
<1>2. d \in Contexts
  BY <1>0, <1>1, SetMetaType
<1>3. \A g \in Frames : d.meta[g] = IF g = f THEN m ELSE c.meta[g]
  BY <1>0 DEF SetMeta, Contexts
<1>4. ASSUME c.meta[f].completion = "exception" PROVE Clean(c) => Clean(d)
  <2>. HIDE DEF m, d
  <2>. QED BY <1>1, <1>3, <1>4 DEF Clean, CleanMeta
<1>. HIDE DEF d
<1>5. RaiseException(d).meta = d.meta /\ Trapped(RaiseException(d))
  BY Zenon, <1>2, KeepsTraps DEF RaiseException, Trap, Contexts
<1>6. ASSUME c.meta[f].completion = "exception" PROVE Keeps(c, RaiseException(d))
  BY <1>4, <1>5, <1>6 DEF Keeps, Cached, Clean
<1>7. Keeps(c, c)
  BY KeepsSame
<1>. QED BY <1>6, <1>7 DEF Result, d

\* The callers of a resume function keep everything.
LEMMA KeepsAfterResume ==
  ASSUME NEW c, Good(c), NEW a \in Activation, a.frame # None, NEW done \in BOOLEAN
  PROVE  Keeps(c, AfterResume(c, a, done))
<1> DEFINE f == a.frame
           completed == IF done THEN Complete(c, f) ELSE c
           requeued == [c EXCEPT !.trapping = [job |-> Invocation(f), kind |-> c.trap],
                                 !.ready = <<Invocation(f)>> \o @]
           stops == [c EXCEPT !.stopped = @ \cup {f}]
<1>1. f \in Frames /\ c \in Contexts
  BY DEF Activation, Good
<1>2. Keeps(c, completed) /\ Good(completed)
  BY <1>1, KeepsSteps, KeepsSame, GoodSteps DEF Complete
<1>3. Keeps(completed, Release(completed, f))
  BY <1>1, <1>2, KeepsRelease
<1>4. Keeps(c, requeued) /\ Keeps(c, stops)
  <2>1. requeued.meta = c.meta /\ requeued.word = c.word
        /\ stops.meta = c.meta /\ stops.word = c.word
    BY <1>1 DEF Contexts
  <2>. HIDE DEF requeued, stops
  <2>. QED BY <2>1, KeepsSame
<1>. HIDE DEF completed, requeued, stops
<1>5. Keeps(c, Release(completed, f))
  BY <1>2, <1>3, KeepsTrans
<1>. QED BY <1>2, <1>4, <1>5 DEF AfterResume, Activation, completed, requeued, stops

\* async_complete_exception drops nobody's exception, and it clears the word
\* only when the exception became the completion of the frame.
LEMMA KeepsCompleteException ==
  ASSUME NEW c, Good(c), Clean(c), NEW f \in Frames
  PROVE  /\ Clean(CompleteException(c, f))
         /\ Cached(c, CompleteException(c, f))
         /\ (Trapped(c) /\ ~Trapped(CompleteException(c, f)))
              => Unobserved(CompleteException(c, f).meta[f])
<1> DEFINE e == [c EXCEPT !.word = "clear"]
           d == CompleteWith(e, f, "exception")
<1>1. c \in Contexts /\ e \in Contexts /\ e.meta = c.meta
  BY DEF Good, Contexts
<1>2. Clean(e) /\ Cached(c, e)
  BY <1>1 DEF Clean, Cached
<1>. HIDE DEF e
<1>3. Keeps(e, d)
  BY <1>1, KeepsSteps
<1>4. Clean(d) /\ Cached(c, d)
  BY <1>2, <1>3, KeepsTrans DEF Keeps
<1>5. ASSUME Unfinished(c, f)
      PROVE  Unobserved(d.meta[f])
  <2> DEFINE m == [e.meta[f] EXCEPT !.completion = "exception", !.waiters = <<>>]
  <2>1. Unfinished(e, f) /\ e.meta[f] \in FrameMeta /\ ~e.meta[f].observed
    BY <1>1, <1>5 DEF Unfinished, Registered, Contexts, Clean, CleanMeta
  <2>2. m.completion = "exception" /\ m.observed = e.meta[f].observed
    BY <2>1 DEF FrameMeta
  <2>. HIDE DEF m
  <2>3. [SetMeta(e, f, m) EXCEPT !.ready = @ \o e.meta[f].waiters].meta[f] = m
    BY <1>1 DEF SetMeta, Contexts
  <2>. QED BY Zenon, <2>1, <2>2, <2>3 DEF CompleteWith, Unobserved, m
<1>. HIDE DEF d
<1>6. Keeps(c, c) /\ Keeps(c, SettleUncaughtException(c))
  BY <1>1, KeepsSame, KeepsTraps
<1>7. \/ CompleteException(c, f) = c
      \/ Unfinished(c, f) /\ CompleteException(c, f) = d
      \/ CompleteException(c, f) = SettleUncaughtException(c)
  BY DEF CompleteException, d, e
<1>. QED BY <1>4, <1>5, <1>6, <1>7 DEF Keeps

\* clear_trap touches no frame when only invocations are registered.
LEMMA ClearTrapMeta ==
  ASSUME NEW c, Good(c)
  PROVE  ClearTrap(c).meta = c.meta /\ ClearTrap(c).word = "clear"
<1> DEFINE t == c.trapping
           q == [c EXCEPT !.ready = Dequeue(@, t.job)]
           d == IF t.kind \in {"none", "StaleCoroutine"} THEN c ELSE ClearTrappingJob(q, t.job)
<1>1. c \in Contexts /\ Invocations(c)
  BY DEF Good
<1>2. q.meta = c.meta /\ DOMAIN q = DOMAIN c
  BY <1>1 DEF Contexts
<1>3. t.job \in Job \/ t = NoJob
  BY <1>1 DEF Contexts
<1>4. ASSUME t.kind \notin {"none", "StaleCoroutine"}
      PROVE  /\ ClearTrappingJob(q, t.job).meta = c.meta
             /\ DOMAIN ClearTrappingJob(q, t.job) = DOMAIN c
  <2>1. t.job \in Job
    BY <1>3, <1>4 DEF NoJob
  <2>2. /\ [q EXCEPT !.stopped = @ \cup {t.job.at}].meta = c.meta
        /\ DOMAIN [q EXCEPT !.stopped = @ \cup {t.job.at}] = DOMAIN c
    <3>. HIDE DEF q
    <3>. QED BY <1>1, <1>2 DEF Contexts
  <2>3. CASE t.job.tag = "invocation"
    <3>. HIDE DEF q
    <3>. QED BY Zenon, <2>2, <2>3 DEF ClearTrappingJob
  <2>4. CASE t.job.tag = "group"
    <3>. HIDE DEF q
    <3>. QED BY <1>2, <2>4 DEF ClearTrappingJob
  <2>5. CASE t.job.tag = "aggregate"
    <3>. HIDE DEF q
    <3>1. t.job.at \in Frames
      BY <2>1, <2>5 DEF Job
    <3>2. q.meta[t.job.at].kind # "aggregate"
      BY <1>1, <1>2, <3>1 DEF Invocations
    <3>. QED BY <1>2, <2>5, <3>2 DEF ClearTrappingJob
  <2>. QED BY <2>1, <2>3, <2>4, <2>5 DEF Job
<1>5. d.meta = c.meta /\ DOMAIN d = DOMAIN c
  <2>. HIDE DEF q, t
  <2>. QED BY <1>4
<1>6. ClearTrap(c) = [d EXCEPT !.trapping = NoJob, !.trap = "none", !.word = "clear"]
  BY DEF ClearTrap
<1>7. "word" \in DOMAIN d
  BY <1>1, <1>5 DEF Contexts
<1>. HIDE DEF d
<1>. QED BY <1>5, <1>6, <1>7

\* bump_reload_epoch keeps every completion.
LEMMA KeepsBump ==
  ASSUME NEW c, Good(c)
  PROVE  Keeps(c, BumpReloadEpoch(c))
<1>1. ASSUME NEW f \in Frames
      PROVE  LET m == BumpReloadEpoch(c).meta[f]
             IN  /\ m.kind = c.meta[f].kind /\ m.completion = c.meta[f].completion
                 /\ m.observed = c.meta[f].observed
  <2>1. c.meta[f] \in FrameMeta
    BY DEF Good, Contexts
  <2>2. /\ [c.meta[f] EXCEPT !.stale = TRUE].kind = c.meta[f].kind
        /\ [c.meta[f] EXCEPT !.stale = TRUE].completion = c.meta[f].completion
        /\ [c.meta[f] EXCEPT !.stale = TRUE].observed = c.meta[f].observed
    BY <2>1 DEF FrameMeta
  <2>3. BumpReloadEpoch(c).meta[f] \in {c.meta[f], [c.meta[f] EXCEPT !.stale = TRUE]}
    BY DEF BumpReloadEpoch, Good, Contexts
  <2>. QED BY Zenon, <2>2, <2>3
<1>2. BumpReloadEpoch(c).word = c.word
  BY DEF BumpReloadEpoch, Good, Contexts
<1>. QED BY <1>1, <1>2 DEF Keeps, Cached, Clean, CleanMeta, Trapped, Unobserved

\* async_register takes an address that async_frames does not hold.
LEMMA KeepsRegister ==
  ASSUME NEW c, Good(c), Clean(c), NEW f \in Frames, c.meta[f].kind = "none"
  PROVE  /\ Keeps(c, Register(c, f, [Unregistered EXCEPT !.kind = "invocation"]))
         /\ Keeps(c, Register(c, f, [Unregistered EXCEPT !.kind = "invocation", !.hostRoot = TRUE]))
<1>1. ASSUME NEW m \in FrameMeta, m.kind = "invocation", ~m.observed
      PROVE  Keeps(c, Register(c, f, m))
  <2> DEFINE w == [m EXCEPT !.count = 1]
  <2>1. w \in FrameMeta /\ CleanMeta(w)
    BY <1>1 DEF FrameMeta, CleanMeta
  <2>2. ~Unobserved(c.meta[f]) /\ c \in Contexts
    BY DEF Clean, CleanMeta, Unobserved, Good
  <2>. HIDE DEF w
  <2>3. Keeps(c, SetMeta(c, f, w))
    BY <2>1, <2>2, KeepsSetMeta
  <2>. QED BY <2>3 DEF Register, w
<1>2. /\ [Unregistered EXCEPT !.kind = "invocation"] \in FrameMeta
      /\ [Unregistered EXCEPT !.kind = "invocation"].kind = "invocation"
      /\ ~[Unregistered EXCEPT !.kind = "invocation"].observed
  BY Zenon, UnregisteredType DEF FrameMeta, Unregistered
<1>3. /\ [Unregistered EXCEPT !.kind = "invocation", !.hostRoot = TRUE] \in FrameMeta
      /\ [Unregistered EXCEPT !.kind = "invocation", !.hostRoot = TRUE].kind = "invocation"
      /\ ~[Unregistered EXCEPT !.kind = "invocation", !.hostRoot = TRUE].observed
  BY Zenon, UnregisteredType DEF FrameMeta, Unregistered
<1>. QED BY Zenon, <1>1, <1>2, <1>3

-----------------------------------------------------------------------------
(* The stack of a host entry. *)

\* A cached exception is the completion of a registered frame.
LEMMA ReportedIfCached ==
  ASSUME Cached(ctx, ctx'), Clean(ctx')
  PROVE  Reported
BY DEF Cached, Clean, CleanMeta, Reported, Unobserved, Registered

\* The end of an activation: the host's own activation empties the stack.
LEMMA PopShape ==
  ASSUME TypeOK, Shape, stack # <<>>
  PROVE  /\ \A i \in DOMAIN Pop : Pop[i].via = "start" <=> i # 1
         /\ Top.via # "start" => Pop = <<>>
<1>1. stack \in Seq(Activation) /\ Len(stack) \in Nat \ {0} /\ DOMAIN stack = 1 .. Len(stack)
  BY DEF TypeOK
<1>2. /\ Pop \in Seq(Activation) /\ Len(Pop) = Len(stack) - 1
      /\ DOMAIN Pop = 1 .. Len(stack) - 1
      /\ \A i \in DOMAIN Pop : Pop[i] = stack[i]
  BY <1>1 DEF Pop
<1>3. Top.via # "start" => Len(stack) = 1
  BY <1>1 DEF Top, Shape
<1>4. Len(stack) = 1 => Pop = <<>>
  BY <1>2
<1>. QED BY <1>1, <1>2, <1>3, <1>4 DEF Shape

\* The word after an activation ended without a pending exception.
LEMMA AfterResumeWord ==
  ASSUME NEW c, Good(c), NEW a \in Activation, a.frame # None, NEW done \in BOOLEAN,
         c.word # "exception"
  PROVE  AfterResume(c, a, done).word # "exception"
<1> DEFINE f == a.frame
           completed == IF done THEN Complete(c, f) ELSE c
           requeued == [c EXCEPT !.trapping = [job |-> Invocation(f), kind |-> c.trap],
                                 !.ready = <<Invocation(f)>> \o @]
           stops == [c EXCEPT !.stopped = @ \cup {f}]
<1>1. f \in Frames /\ c \in Contexts
  BY DEF Activation, Good
<1>2. completed.word = c.word
  BY <1>1 DEF Complete, CompleteWith, SetMeta, Contexts
<1>3. Good(completed)
  BY <1>1, GoodSteps DEF Complete
<1>. HIDE DEF completed
<1>4. Release(completed, f).word \in {completed.word, "trap"}
  BY <1>1, <1>3, ReleaseWord
<1>5. requeued.word = c.word /\ stops.word = c.word
  BY <1>1 DEF Contexts
<1>. HIDE DEF requeued, stops
<1>. QED BY <1>2, <1>4, <1>5 DEF AfterResume, Activation, completed, requeued, stops

\* An activation of a frame ends with the Context c, which has no exception
\* pending: the frame's entry goes on or ends with an empty stack.
LEMMA FramedReturn ==
  ASSUME TypeInv, Framed, stack # <<>>, Top.frame # None,
         NEW c, Good(c), c.word # "exception", NEW done \in BOOLEAN,
         ctx' = AfterResume(c, Top, done), stack' = Pop, entry' = EntryAfter(ctx', Top)
  PROVE  Framed'
<1>1. Top \in Activation /\ Top.via \in {"start", "kick", "drain"}
  BY StackType DEF TypeInv
<1>2. NoPendingAtBoundary'
  BY <1>1, AfterResumeWord DEF NoPendingAtBoundary
<1>3. Shape' /\ (Top.via # "start" => stack' = <<>>)
  BY PopShape DEF Shape, Framed, TypeInv
<1>4. (entry = "none" => stack = <<>>)
  BY DEF Framed
<1>5. entry' = "none" => stack' = <<>>
  BY <1>1, <1>3, <1>4 DEF EntryAfter
<1>. QED BY <1>2, <1>3, <1>5 DEF Framed

\* The same for what the step claims, when the step went from the Context to
\* c by functions that keep everything.
LEMMA StepReturn ==
  ASSUME ExceptionInv, stack # <<>>, Top.frame # None, ctx.word = "clear",
         NEW c, Good(c), c.word # "exception", Keeps(ctx, c), NEW done \in BOOLEAN,
         ctx' = AfterResume(c, Top, done), stack' = Pop, entry' = EntryAfter(ctx', Top)
  PROVE  Clean(ctx') /\ Framed' /\ Reported /\ Kept
<1>1. Top \in Activation
  BY StackType DEF ExceptionInv, TypeInv
<1>2. Keeps(c, ctx')
  BY <1>1, KeepsAfterResume
<1>3. Keeps(ctx, ctx')
  <2> DEFINE d == ctx'
             e == ctx
  <2>1. Keeps(e, c) /\ Keeps(c, d)
    BY <1>2
  <2>. HIDE DEF d, e
  <2>2. Keeps(e, d)
    BY <2>1, KeepsTrans
  <2>. QED BY <2>2 DEF d, e
<1>4. Clean(ctx') /\ Reported
  BY <1>3, ReportedIfCached DEF Keeps, ExceptionInv
<1>. QED BY <1>4, FramedReturn DEF ExceptionInv, Kept

\* Every script step: what it frees is reported and what it pops is kept.
LEMMA ScriptClaims == ExceptionInv /\ Script => Claims
<1>. SUFFICES ASSUME ExceptionInv, Script PROVE Claims
  OBVIOUS
<1>0. /\ TypeInv /\ TypeOK /\ Good(ctx) /\ ctx \in Contexts /\ Clean(ctx) /\ Framed
      /\ ctx.word \in {"clear", "trap", "exception"}
  BY DEF ExceptionInv, TypeInv, TypeOK, Contexts
<1>1. ASSUME NEW f \in Frames, Call(f) PROVE Claims
  <2>1. Keeps(ctx, ctx') /\ ctx.word = "clear"
    BY <1>0, <1>1, KeepsRegister DEF Call, Runs, Registered
  <2>2. Clean(ctx') /\ Reported /\ Kept
    BY <1>0, <2>1, ReportedIfCached DEF Keeps, Kept
  <2>3. stack \in Seq(Activation) /\ stack # <<>> /\ entry # "none" /\ Shape
    BY <1>0, <1>1 DEF Call, Runs, Framed, TypeOK
  <2>4. stack' = Append(stack, [frame |-> f, via |-> "start"]) /\ entry' = entry
    BY <1>1 DEF Call
  <2>5. Shape' /\ stack' # <<>>
    BY <2>3, <2>4 DEF Shape
  <2>. QED BY <2>2, <2>3, <2>4, <2>5 DEF Claims, Framed, NoPendingAtBoundary
<1>2. ASSUME NEW h \in Frames, Copy(h) \/ Drop(h) PROVE Claims
  <2>1. Keeps(ctx, ctx')
    BY <1>0, <1>2, KeepsSteps, KeepsRelease DEF Copy, Drop
  <2>2. stack # <<>> /\ UNCHANGED <<stack, entry>>
    BY <1>2 DEF Copy, Drop, Runs, scriptUnchanged
  <2>. QED BY <1>0, <2>1, <2>2, ReportedIfCached
           DEF Claims, Keeps, Kept, Framed, Shape, NoPendingAtBoundary
<1>3. ASSUME NEW h \in Frames, AwaitStale(h) PROVE Claims
  <2>1. Keeps(ctx, ctx')
    BY <1>0, <1>3, KeepsTraps DEF AwaitStale, TrapKinds
  <2>2. stack # <<>> /\ UNCHANGED <<stack, entry>>
    BY <1>3 DEF AwaitStale, RunsFrame, Runs
  <2>. QED BY <1>0, <2>1, <2>2, ReportedIfCached
           DEF Claims, Keeps, Kept, Framed, Shape, NoPendingAtBoundary
<1>4. ASSUME NEW h \in Frames, NEW owned \in BOOLEAN, Await(h, owned) PROVE Claims
  <2> DEFINE f == Top.frame
             b == IF owned THEN ctx ELSE Retain(ctx, h)
             r == Retain(b, f)
             c == AwaitOwned(b, f, h)
  <2>1. stack # <<>> /\ Top.frame # None /\ ctx.word = "clear"
    BY <1>4 DEF Await, RunsFrame, Runs
  <2>2. f \in Frames
    BY <1>0, <2>1, StackType
  <2>3. Good(b) /\ Keeps(ctx, b)
    BY <1>0, GoodSteps, KeepsSteps, KeepsSame
  <2>4. Good(r) /\ Invocation(f) \in Job /\ Keeps(b, r)
    <3>. HIDE DEF b
    <3>. QED BY Zenon, <2>2, <2>3, GoodSteps, InvocationType, KeepsSteps DEF Good
  <2>5. Good(c) /\ Keeps(r, c)
    <3>. HIDE DEF r
    <3>1. Good(Enqueue(r, h, Invocation(f))) /\ Keeps(r, Enqueue(r, h, Invocation(f)))
      BY <2>4, GoodSteps, KeepsSteps DEF Good
    <3>. QED BY <3>1 DEF AwaitOwned, r
  <2>6. c.word = "clear"
    BY <1>0, <2>1 DEF AwaitOwned, Enqueue, Retain, SetMeta, Contexts
  <2>. HIDE DEF b, r, c
  <2>7. Keeps(ctx, c)
    <3>1. Keeps(b, c)
      BY <2>4, <2>5, KeepsTrans
    <3>. QED BY <2>3, <3>1, KeepsTrans
  <2>8. ctx' = AfterResume(c, Top, FALSE) /\ stack' = Pop /\ entry' = EntryAfter(ctx', Top)
    BY <1>4 DEF Await, b, c
  <2>. QED BY Zenon, <2>1, <2>5, <2>6, <2>7, <2>8, StepReturn DEF Claims
<1>5. ASSUME Raise \/ Catch \/ Fault PROVE Claims
  <2>1. stack # <<>> /\ UNCHANGED <<stack, entry>>
    BY <1>5 DEF Raise, Catch, Fault, Runs, scriptUnchanged
  <2>2. Clean(ctx') /\ Cached(ctx, ctx')
    <3>1. CASE Raise \/ Fault
      BY <1>0, <3>1, KeepsTraps DEF Raise, Fault, TrapKinds, Keeps
    <3>2. CASE Catch
      <4>1. ctx'.meta = ctx.meta
        BY <1>0, <3>2 DEF Catch, Contexts
      <4>. QED BY <1>0, <4>1 DEF Clean, Cached
    <3>. QED BY <1>5, <3>1, <3>2
  <2>. QED BY <1>0, <2>1, <2>2, ReportedIfCached
           DEF Claims, Kept, Framed, Shape, NoPendingAtBoundary
<1>6. CASE Suspend
  <2> DEFINE f == Top.frame
             r == Retain(ctx, f)
             c == [r EXCEPT !.parked = Append(@, f)]
  <2>1. stack # <<>> /\ f # None /\ f \in Frames /\ ctx.word = "clear"
    BY <1>0, <1>6, StackType DEF Suspend, RunsFrame, Runs
  <2>2. Good(r) /\ r.word = "clear" /\ Keeps(ctx, r)
    BY Zenon, <1>0, <2>1, GoodSteps, KeepsSteps DEF Retain, SetMeta, Contexts
  <2>3. Append(r.parked, f) \in FrameList
    BY <2>1, <2>2 DEF Good, Contexts, FrameList
  <2>4. Good(c) /\ c.word = "clear" /\ c.meta = r.meta
    <3>. HIDE DEF r
    <3>. QED BY Zenon, <2>2, <2>3 DEF Good, Contexts, TrapRecorded, Invocations
  <2>. HIDE DEF r, c
  <2>5. Keeps(ctx, c)
    <3>1. Keeps(r, c)
      BY <2>2, <2>4, KeepsSame
    <3>. QED BY <2>2, <3>1, KeepsTrans
  <2>6. ctx' = AfterResume(c, Top, FALSE) /\ stack' = Pop /\ entry' = EntryAfter(ctx', Top)
    BY <1>6 DEF Suspend, ReturnTo, c, r
  <2>. QED BY Zenon, <2>1, <2>4, <2>5, <2>6, StepReturn DEF Claims
<1>7. CASE Return
  <2>1. stack # <<>> /\ Top.frame # None /\ ctx.word = "clear"
    BY <1>7 DEF Return, RunsFrame, Runs
  <2>2. ctx' = AfterResume(ctx, Top, TRUE) /\ stack' = Pop /\ entry' = EntryAfter(ctx', Top)
    BY <1>7 DEF Return, ReturnTo
  <2>3. Keeps(ctx, ctx)
    BY KeepsSame
  <2>. QED BY Zenon, <1>0, <2>1, <2>2, <2>3, StepReturn DEF Claims
<1>8. CASE Unwind
  <2> DEFINE c == CompleteException(ctx, Top.frame)
  <2>1. stack # <<>> /\ Top.frame # None /\ Top.frame \in Frames /\ Top \in Activation
        /\ Trapped(ctx)
    BY <1>0, <1>8, StackType DEF Unwind
  <2>2. Good(c) /\ c.word # "exception"
    BY <1>0, <2>1, GoodCompleteException
  <2>3. /\ Clean(c) /\ Cached(ctx, c)
        /\ ~Trapped(c) => Unobserved(c.meta[Top.frame])
    BY <1>0, <2>1, KeepsCompleteException
  <2>4. ctx' = AfterResume(c, Top, TRUE) /\ stack' = Pop /\ entry' = EntryAfter(ctx', Top)
    BY <1>8 DEF Unwind, ReturnTo
  <2>. HIDE DEF c
  <2>5. Keeps(c, ctx')
    BY Zenon, <2>1, <2>2, <2>4, KeepsAfterResume
  <2>6. Clean(ctx') /\ Cached(ctx, ctx')
    BY <2>3, <2>5 DEF Keeps, Cached
  <2>7. Kept
    BY <2>1, <2>3, <2>5 DEF Kept, Keeps, Cached, Trapped, Unobserved
  <2>8. Framed'
    BY Zenon, <1>0, <2>1, <2>2, <2>4, FramedReturn
  <2>. QED BY <2>6, <2>7, <2>8, ReportedIfCached DEF Claims
<1>9. CASE ExportReturn
  <2>1. stack # <<>> /\ Top.frame = None /\ stack' = Pop /\ entry' = "none"
        /\ ctx' = SettleUncaughtException(ctx)
    BY <1>9 DEF ExportReturn
  <2>2. Keeps(ctx, ctx') /\ ctx'.word # "exception" /\ (ctx.word = "exception" => ctx'.word = "trap")
    BY Zenon, <1>0, <2>1, KeepsTraps DEF SettleUncaughtException, Trap, Contexts
  <2>3. Top \in Activation /\ Top.via # "start"
    BY <1>0, <2>1, StackType, NoneIsNoAddress DEF Activation
  <2>4. stack' = <<>>
    BY <1>0, <2>1, <2>3, PopShape DEF Framed
  <2>5. Framed'
    BY <2>1, <2>2, <2>4 DEF Framed, Shape, NoPendingAtBoundary
  <2>. QED BY <1>0, <2>2, <2>5, ReportedIfCached DEF Claims, Keeps, Kept
<1>. QED BY <1>1, <1>2, <1>3, <1>4, <1>5, <1>6, <1>7, <1>8, <1>9 DEF Script

\* Every host step: the boundary has no exception to lose.
LEMMA HostClaims == ExceptionInv /\ Host => Claims
<1>. SUFFICES ASSUME ExceptionInv, Host PROVE Claims
  OBVIOUS
<1>0. /\ TypeInv /\ TypeOK /\ Good(ctx) /\ ctx \in Contexts /\ Clean(ctx) /\ Framed
  BY DEF ExceptionInv, TypeInv, TypeOK
<1>1. AtBoundary /\ stack = <<>> /\ ctx.word # "exception"
  BY Zenon, <1>0 DEF Host, HostCall, HostExport, HostClearTrap, HostKick, HostStep, Reload,
              AtBoundary, Framed, NoPendingAtBoundary
<1>2. Kept
  BY <1>1 DEF Kept
<1>3. ClearTrap(ctx).meta = ctx.meta /\ ClearTrap(ctx).word = "clear" /\ Good(ClearTrap(ctx))
  BY <1>0, ClearTrapMeta, GoodHost
<1>4. Clean(ClearTrap(ctx)) /\ Cached(ctx, ClearTrap(ctx))
  BY <1>0, <1>3 DEF Clean, Cached
<1>5. CASE HostExport
  <2>1. ctx' = ClearTrap(ctx) /\ entry' = "export"
        /\ stack' = <<[frame |-> None, via |-> "export"]>>
    BY <1>5 DEF HostExport
  <2>2. Framed'
    BY <2>1 DEF Framed, Shape, NoPendingAtBoundary
  <2>. QED BY <1>2, <1>4, <2>1, <2>2, ReportedIfCached DEF Claims
<1>6. CASE HostClearTrap
  <2>1. ctx' = ClearTrap(ctx) /\ UNCHANGED <<stack, entry>>
    BY <1>6 DEF HostClearTrap
  <2>2. Framed'
    BY <1>0, <1>3, <2>1 DEF Framed, Shape, NoPendingAtBoundary
  <2>. QED BY <1>2, <1>4, <2>1, <2>2, ReportedIfCached DEF Claims
<1>7. ASSUME NEW f \in Frames, HostKick(f) PROVE Claims
  <2> DEFINE c == ClearTrap(ctx)
  <2>1. /\ ctx' = Register(c, f, [Unregistered EXCEPT !.kind = "invocation", !.hostRoot = TRUE])
        /\ stack' = <<[frame |-> f, via |-> "kick"]>> /\ entry' = "kick"
        /\ ctx.meta[f].kind = "none"
    BY <1>7 DEF HostKick, Registered
  <2>2. Good(c) /\ Clean(c) /\ c.meta[f].kind = "none" /\ Cached(ctx, c)
    BY <1>3, <1>4, <2>1
  <2>. HIDE DEF c
  <2>3. Keeps(c, ctx')
    BY <2>1, <2>2, KeepsRegister
  <2>4. Clean(ctx') /\ Cached(ctx, ctx')
    BY <2>2, <2>3 DEF Keeps, Cached
  <2>5. Framed'
    BY <2>1 DEF Framed, Shape, NoPendingAtBoundary
  <2>. QED BY <1>2, <2>4, <2>5, ReportedIfCached DEF Claims
<1>8. ASSUME NEW limit \in Limits, HostStep(limit) PROVE Claims
  <2>1. ctx'.meta = ctx.meta /\ ctx'.word = ctx.word /\ stack' = stack /\ entry' = "drain"
    BY <1>0, <1>8 DEF HostStep, Contexts
  <2>2. Clean(ctx') /\ Cached(ctx, ctx')
    BY <1>0, <2>1 DEF Clean, Cached
  <2>3. Framed'
    BY <1>0, <2>1 DEF Framed, Shape, NoPendingAtBoundary
  <2>. QED BY <1>2, <2>2, <2>3, ReportedIfCached DEF Claims
<1>9. CASE Reload
  <2>1. Keeps(ctx, ctx') /\ ctx'.word = ctx.word /\ UNCHANGED <<stack, entry>>
    BY <1>0, <1>9, KeepsBump DEF Reload, BumpReloadEpoch, Contexts
  <2>2. Framed'
    BY <1>0, <2>1 DEF Framed, Shape, NoPendingAtBoundary
  <2>. QED BY <1>0, <1>2, <2>1, <2>2, ReportedIfCached DEF Claims, Keeps
<1>. QED BY <1>5, <1>6, <1>7, <1>8, <1>9 DEF Host, HostCall

\* Every step of the drain loop: an await that reads an exception makes it
\* pending in the frame that it resumes.
LEMMA DrainClaims == ExceptionInv /\ Drain => Claims
<1>. SUFFICES ASSUME ExceptionInv, Drain PROVE Claims
  OBVIOUS
<1> DEFINE f == Head(ctx.ready).at
           c == [ctx EXCEPT !.ready = Tail(@)]
<1>0. /\ TypeInv /\ TypeOK /\ Good(ctx) /\ ctx \in Contexts /\ Clean(ctx) /\ Framed
      /\ ctx.ready \in JobList
  BY DEF ExceptionInv, TypeInv, TypeOK, Contexts
<1>1. stack = <<>> /\ ctx.word # "exception" /\ Kept
  BY Zenon, <1>0 DEF Drain, DrainResume, DrainRefuse, DrainEnd, Draining, Framed,
              NoPendingAtBoundary, Kept
<1>2. ASSUME ctx.ready # <<>>, Head(ctx.ready).tag = "invocation"
      PROVE  f \in Frames /\ Good(c) /\ c.meta = ctx.meta /\ c.word = ctx.word
  <2>1. Head(ctx.ready) \in Job /\ Tail(ctx.ready) \in JobList
    BY <1>0, <1>2 DEF JobList
  <2>2. f \in Frames
    BY <1>2, <2>1 DEF Job
  <2>. QED BY Zenon, <1>0, <2>1, <2>2 DEF Good, Contexts, Invocations, TrapRecorded
<1>. HIDE DEF c, f
<1>3. CASE DrainResume
  <2>1. ctx.ready # <<>> /\ Head(ctx.ready).tag = "invocation" /\ entry' = entry
        /\ entry = "drain" /\ stack' = <<[frame |-> f, via |-> "drain"]>>
    BY <1>3 DEF DrainResume, Draining, f
  <2>2. f \in Frames /\ Good(c) /\ c.meta = ctx.meta /\ c.word = ctx.word
    BY <1>2, <2>1
  <2>3. ctx' = IF state[f] = "await" THEN Release(Result(c, slot[f]), slot[f]) ELSE c
    BY <1>3 DEF DrainResume, c, f
  <2>4. ASSUME state[f] = "await" PROVE slot[f] \in Frames
    <3>1. ~MissingCompletion(f)
      BY <1>3 DEF DrainResume, f
    <3>. QED BY <2>4, <3>1 DEF MissingCompletion, Completed, Registered
  <2>5. Keeps(ctx, c)
    BY <2>2, KeepsSame
  <2>6. Keeps(c, ctx')
    <3>1. CASE state[f] = "await"
      <4> DEFINE r == Result(c, slot[f])
      <4>1. Keeps(c, r) /\ Good(r)
        BY <2>2, <2>4, <3>1, KeepsResult, GoodResult
      <4>2. ctx' = Release(r, slot[f])
        BY <2>3, <3>1
      <4>. HIDE DEF r
      <4>3. Keeps(r, ctx')
        BY <2>4, <3>1, <4>1, <4>2, KeepsRelease
      <4>. QED BY <4>1, <4>3 DEF Keeps, Cached
    <3>2. CASE state[f] # "await"
      BY <2>3, <3>2, KeepsSame
    <3>. QED BY <3>1, <3>2
  <2>7. Clean(ctx') /\ Cached(ctx, ctx')
    BY <1>0, <2>5, <2>6 DEF Keeps, Cached
  <2>8. Framed'
    BY <2>1 DEF Framed, Shape, NoPendingAtBoundary
  <2>. QED BY <1>1, <2>7, <2>8, ReportedIfCached DEF Claims
<1>4. CASE DrainRefuse
  <2> DEFINE k == IF StaleResume(f) THEN "StaleCoroutine" ELSE "Internal"
             a == [frame |-> f, via |-> "drain"]
             t == Trap(c, k)
  <2>1. ctx.ready # <<>> /\ Head(ctx.ready).tag = "invocation" /\ entry' = "none"
        /\ stack' = stack
    BY <1>4 DEF DrainRefuse
  <2>2. f \in Frames /\ Good(c) /\ c.meta = ctx.meta /\ c.word = ctx.word
    BY <1>2, <2>1
  <2>3. Good(t) /\ Keeps(c, t) /\ t.word = "trap"
    <3>1. k \in TrapKinds /\ c \in Contexts
      BY <2>2 DEF TrapKinds, Good
    <3>2. t.word = "trap"
      BY <3>1 DEF Trap, Contexts
    <3>. HIDE DEF k
    <3>. QED BY Zenon, <2>2, <3>1, <3>2, GoodTraps, KeepsTraps
  <2>4. a \in Activation /\ a.frame # None
    BY <2>2, NoneIsNoAddress DEF Activation
  <2>. HIDE DEF k, a, t
  <2>5. ctx' = AfterResume(t, a, TRUE)
    BY <1>4 DEF DrainRefuse, c, f, k, a, t
  <2>6. Keeps(t, ctx') /\ ctx'.word # "exception"
    BY Zenon, <2>3, <2>4, <2>5, KeepsAfterResume, AfterResumeWord
  <2>7. Keeps(ctx, c)
    BY <2>2, KeepsSame
  <2>8. Clean(ctx') /\ Cached(ctx, ctx')
    BY <1>0, <2>3, <2>6, <2>7 DEF Keeps, Cached
  <2>9. Framed'
    BY <1>1, <2>1, <2>6 DEF Framed, Shape, NoPendingAtBoundary
  <2>. QED BY <1>1, <2>8, <2>9, ReportedIfCached DEF Claims
<1>5. CASE DrainEnd
  <2>1. ctx' = ctx /\ stack' = stack /\ entry' = "none"
    BY <1>5 DEF DrainEnd
  <2>2. Clean(ctx') /\ Cached(ctx, ctx')
    BY <1>0, <2>1 DEF Clean, Cached
  <2>3. Framed'
    BY <1>0, <1>1, <2>1 DEF Framed, Shape, NoPendingAtBoundary
  <2>. QED BY <1>1, <2>2, <2>3, ReportedIfCached DEF Claims
<1>. QED BY <1>3, <1>4, <1>5 DEF Drain

-----------------------------------------------------------------------------
(* No exception is lost. *)

\* The invariant holds at the start and every step keeps it.
LEMMA ExceptionInvInductive ==
  /\ Init => ExceptionInv
  /\ ExceptionInv /\ [Next]_vars => ExceptionInv'
<1>1. Init => ExceptionInv
  <2>. SUFFICES ASSUME Init PROVE ExceptionInv
    OBVIOUS
  <2>1. TypeInv
    BY InitType
  <2>2. Clean(ctx)
    BY DEF Init, NewContext, Clean, CleanMeta, Unregistered
  <2>3. Framed
    BY DEF Init, NewContext, Framed, Shape, NoPendingAtBoundary
  <2>. QED BY <2>1, <2>2, <2>3 DEF ExceptionInv
<1>2. ASSUME ExceptionInv, [Next]_vars PROVE ExceptionInv'
  <2>1. CASE Next
    <3>1. TypeInv'
      BY <1>2, <2>1, ScriptType, HostType, DrainType DEF Next, ExceptionInv
    <3>2. Claims
      BY <1>2, <2>1, ScriptClaims, HostClaims, DrainClaims DEF Next
    <3>. QED BY <3>1, <3>2 DEF Claims, ExceptionInv, Clean
  <2>2. CASE UNCHANGED vars
    BY <1>2, <2>2 DEF vars, ExceptionInv, TypeInv, TypeOK, Good, Clean, Framed, Shape,
                      NoPendingAtBoundary
  <2>. QED BY <1>2, <2>1, <2>2
<1>. QED BY <1>1, <1>2

\* No exception crosses to the host: when the stack is empty none is pending
\* (exit_script, async_complete_exception, settle_uncaught_exception).
THEOREM BoundaryHasNoException == Spec => []NoPendingAtBoundary
<1>1. ExceptionInv => NoPendingAtBoundary
  BY DEF ExceptionInv, Framed
<1>. QED BY <1>1, ExceptionInvInductive, PTL DEF Spec

\* The step that frees a frame with an exception that no await observed
\* leaves the Context trapped (async_release, async_result).
THEOREM UnobservedIsReported == Spec => UnobservedReported
<1>1. ExceptionInv /\ [Next]_vars =>
        [\A f \in Frames :
           (Unobserved(ctx.meta[f]) /\ ~Registered(ctx', f)) => Trapped(ctx')]_vars
  BY ScriptClaims, HostClaims, DrainClaims DEF Next, Claims, Reported
<1>. QED BY <1>1, ExceptionInvInductive, PTL DEF Spec, UnobservedReported

\* The exception that ends an async body becomes the completion of its frame
\* (async_complete_exception before the caller's async_complete).
THEOREM ExceptionIsKept == Spec => ExceptionKept
<1>1. ExceptionInv /\ [Next]_vars =>
        [(ctx.word = "exception" /\ ctx'.word = "clear" /\ stack' # stack)
           => ctx'.meta[Top.frame].completion = "exception"]_vars
  BY ScriptClaims, HostClaims, DrainClaims DEF Next, Claims, Kept
<1>. QED BY <1>1, ExceptionInvInductive, PTL DEF Spec, ExceptionKept

=============================================================================
