--------------------------- MODULE AsyncScheduler ---------------------------
(***************************************************************************)
(* The single-threaded scheduler of one Context: host entries (an export,  *)
(* an async root, a checkpoint), generated coroutines that call, suspend,  *)
(* await, raise and return, traps and their clearance, and hot reload.     *)
(*                                                                         *)
(* A script body is any sequence of the script actions below; the host is  *)
(* any sequence of the host actions.  The stack holds the activations that *)
(* are running: the frame and who resumed it.                              *)
(***************************************************************************)
EXTENDS AsyncRuntime

CONSTANTS MaxHeld,    \* bound on the counts that script holds of one handle
          Limits      \* step budgets the host uses; Unlimited is async_step

ASSUME MaxHeldAssumption == MaxHeld \in Nat \ {0}

Unlimited == -1

ASSUME LimitsAssumption == Limits \subseteq (Nat \ {0}) \cup {Unlimited}

VARIABLES
  ctx,      \* the Context
  stack,    \* activations, innermost last
  entry,    \* the host entry that runs: "none", "export", "kick" or "drain"
  left,     \* dispatches the running checkpoint may still start
  held,     \* counts that script variables own, per handle
  slot,     \* the awaited handle saved in a frame's child slot
  state,    \* the state word of a frame: where its body last suspended
  dirty     \* history: frames whose body ran on from its last suspension

vars == <<ctx, stack, entry, left, held, slot, state, dirty>>

Activation == [frame : Frames, via : {"start", "kick", "drain"}]
                \cup [frame : {None}, via : {"export"}]

Top == stack[Len(stack)]
Pop == SubSeq(stack, 1, Len(stack) - 1)
OnStack(f) == \E i \in DOMAIN stack : stack[i].frame = f

Init ==
  /\ ctx = NewContext
  /\ stack = <<>>
  /\ entry = "none"
  /\ left = Unlimited
  /\ held = [f \in Frames |-> 0]
  /\ slot = [f \in Frames |-> None]
  /\ state = [f \in Frames |-> "start"]
  /\ dirty = {}

-----------------------------------------------------------------------------
(* The return of a resume function, in its three callers. *)

\* Mutant: the caller caches a completion before it looks for a trap.
AfterResumeCompletesTrapped(c, a, done) ==
  LET d == IF done THEN Complete(c, a.frame) ELSE c
  IN  IF a.via = "start" THEN d ELSE Release(d, a.frame)

\* async_drain, async_kick and async_start after `resume` returns `done` with
\* the Context c.
AfterResume(c, a, done) ==
  LET f == a.frame
      completed == IF done THEN Complete(c, f) ELSE c
  IN  CASE ~Trapped(c) /\ a.via = "start" -> completed
        [] ~Trapped(c) /\ a.via # "start" -> Release(completed, f)
        [] Trapped(c) /\ a.via = "drain" ->
             [c EXCEPT !.trapping = [job |-> Invocation(f), kind |-> c.trap],
                       !.ready = <<Invocation(f)>> \o @]
        [] Trapped(c) /\ a.via # "drain" -> [c EXCEPT !.stopped = @ \cup {f}]

\* The entry that remains when activation a ends with the Context c.
EntryAfter(c, a) ==
  CASE a.via = "start" -> entry
    [] a.via = "kick" -> "none"
    [] a.via = "drain" -> IF Trapped(c) THEN "none" ELSE "drain"

\* The innermost activation returns to its caller; a started call hands its
\* count to the calling script.
ReturnTo(c, done) ==
  LET d == AfterResume(c, Top, done)
  IN  /\ ctx' = d
      /\ stack' = Pop
      /\ entry' = EntryAfter(d, Top)
      /\ held' = IF Top.via = "start" /\ ~Trapped(c)
                 THEN [held EXCEPT ![Top.frame] = @ + 1] ELSE held
      /\ left' = IF EntryAfter(d, Top) = "none" THEN Unlimited ELSE left

-----------------------------------------------------------------------------
(* Script steps, taken by the innermost activation. *)

Runs == stack # <<>> /\ ctx.word = "clear"
RunsFrame == Runs /\ Top.frame # None

scriptUnchanged == <<stack, entry, left, slot, state, dirty>>

\* A call of an async function: the creator registers the frame and
\* async_start runs its prefix.
Call(f) ==
  /\ Runs
  /\ ~Registered(ctx, f)
  /\ ctx' = Register(ctx, f, [Unregistered EXCEPT !.kind = "invocation"])
  /\ stack' = Append(stack, [frame |-> f, via |-> "start"])
  /\ state' = [state EXCEPT ![f] = "start"]
  /\ UNCHANGED <<entry, left, held, slot, dirty>>

Copy(h) ==
  /\ Runs
  /\ held[h] \in 1 .. MaxHeld - 1
  /\ ctx' = Retain(ctx, h)
  /\ held' = [held EXCEPT ![h] = @ + 1]
  /\ UNCHANGED scriptUnchanged

\* A holder ends, on the normal path or in the hooks of an exception exit.
Drop(h) ==
  /\ stack # <<>>
  /\ ctx.word # "trap"
  /\ held[h] > 0
  /\ ctx' = Release(ctx, h)
  /\ held' = [held EXCEPT ![h] = @ - 1]
  /\ UNCHANGED scriptUnchanged

Raise ==
  /\ Runs
  /\ ctx' = RaiseException(ctx)
  /\ UNCHANGED <<held, scriptUnchanged>>

Catch ==
  /\ stack # <<>>
  /\ ctx.word = "exception"
  /\ ctx' = [ctx EXCEPT !.word = "clear"]
  /\ UNCHANGED <<held, scriptUnchanged>>

\* Any other trap that a script statement or a host function records.
Fault ==
  /\ Runs
  /\ ctx' = Trap(ctx, "Fault")
  /\ UNCHANGED <<held, scriptUnchanged>>

\* Context.suspend(): async_park, the state word, and a return without done.
Suspend ==
  /\ RunsFrame
  /\ LET f == Top.frame
     IN  /\ ReturnTo([Retain(ctx, f) EXCEPT !.parked = Append(@, f)], FALSE)
         /\ state' = [state EXCEPT ![f] = "suspend"]
         /\ dirty' = dirty \ {f}
  /\ slot' = slot

\* Mutant: the registration holds no count of the waiting frame.
AwaitOwnedUncounted(c, f, h) == Enqueue(c, h, Invocation(f))

\* async_await_owned, after async_await took a count when the await borrows.
AwaitOwned(c, f, h) ==
  Enqueue(Retain(c, f), h, Invocation(f))

\* `await` of a handle that script holds: the handle's staleness is checked
\* first, and an owned await moves the script's count to the registration.
Await(h, owned) ==
  /\ RunsFrame
  /\ held[h] > 0
  /\ ~IsStale(ctx, h)
  /\ LET f == Top.frame
         c == AwaitOwned(IF owned THEN ctx ELSE Retain(ctx, h), f, h)
         d == AfterResume(c, Top, FALSE)
     IN  /\ ctx' = d
         /\ stack' = Pop
         /\ entry' = EntryAfter(d, Top)
         /\ left' = IF EntryAfter(d, Top) = "none" THEN Unlimited ELSE left
         /\ held' = [x \in Frames |->
              held[x] + (IF x = f /\ Top.via = "start" THEN 1 ELSE 0)
                      - (IF x = h /\ owned THEN 1 ELSE 0)]
         /\ slot' = [slot EXCEPT ![f] = h]
         /\ state' = [state EXCEPT ![f] = "await"]
         /\ dirty' = dirty \ {f}

AwaitStale(h) ==
  /\ RunsFrame
  /\ held[h] > 0
  /\ IsStale(ctx, h)
  /\ ctx' = Trap(ctx, "StaleCoroutine")
  /\ slot' = [slot EXCEPT ![Top.frame] = h]
  /\ UNCHANGED <<held, stack, entry, left, state, dirty>>

\* The body ends; its state word is not read again.
Return ==
  /\ RunsFrame
  /\ ReturnTo(ctx, TRUE)
  /\ state' = [state EXCEPT ![Top.frame] = "start"]
  /\ dirty' = dirty \ {Top.frame}
  /\ slot' = slot

\* The unwind exit: the payload is cleared, and a pending exception becomes
\* the completion (or, for a host root, a trap).
Unwind ==
  /\ stack # <<>> /\ Trapped(ctx) /\ Top.frame # None
  /\ LET c == CompleteException(ctx, Top.frame)
     IN  /\ ReturnTo(c, TRUE)
         /\ dirty' = IF Trapped(c) THEN dirty ELSE dirty \ {Top.frame}
         /\ state' = IF Trapped(c) THEN state ELSE [state EXCEPT ![Top.frame] = "start"]
  /\ slot' = [slot EXCEPT ![Top.frame] = None]

\* Mutant: an exception that leaves an export stays pending.
ExportReturnPending ==
  /\ stack # <<>> /\ Top.frame = None
  /\ stack' = Pop
  /\ entry' = "none"
  /\ UNCHANGED <<ctx, left, held, slot, state, dirty>>

\* The outermost script function of an export returns or unwinds.
ExportReturn ==
  /\ stack # <<>> /\ Top.frame = None
  /\ ctx' = SettleUncaughtException(ctx)
  /\ stack' = Pop
  /\ entry' = "none"
  /\ UNCHANGED <<left, held, slot, state, dirty>>

-----------------------------------------------------------------------------
(* Host steps. *)

AtBoundary == entry = "none"

\* A synchronous export.  The session clears a trap on entry.
HostExport ==
  /\ AtBoundary
  /\ ctx' = ClearTrap(ctx)
  /\ stack' = <<[frame |-> None, via |-> "export"]>>
  /\ entry' = "export"
  /\ UNCHANGED <<left, held, slot, state, dirty>>

\* An async export: the creator, then async_kick.
HostKick(f) ==
  /\ AtBoundary
  /\ ~Registered(ctx, f)
  /\ ctx' = Register(ClearTrap(ctx), f,
              [Unregistered EXCEPT !.kind = "invocation", !.hostRoot = TRUE])
  /\ stack' = <<[frame |-> f, via |-> "kick"]>>
  /\ entry' = "kick"
  /\ state' = [state EXCEPT ![f] = "start"]
  /\ UNCHANGED <<left, held, slot, dirty>>

HostClearTrap ==
  /\ AtBoundary
  /\ Trapped(ctx)
  /\ ctx' = ClearTrap(ctx)
  /\ UNCHANGED <<stack, entry, left, held, slot, state, dirty>>

\* Mutant: a checkpoint looks for work in the ready queue only.
HostStepReadyOnly(limit) ==
  /\ AtBoundary
  /\ ~Trapped(ctx)
  /\ ctx.ready # <<>>
  /\ ctx' = [ctx EXCEPT !.ready = @ \o [i \in DOMAIN ctx.parked |-> Invocation(ctx.parked[i])],
                        !.parked = <<>>]
  /\ entry' = "drain"
  /\ left' = limit
  /\ UNCHANGED <<stack, held, slot, state, dirty>>

\* A checkpoint begins: the parked list is appended after the ready jobs.
HostStep(limit) ==
  /\ AtBoundary
  /\ ~Trapped(ctx)
  /\ ctx.ready # <<>> \/ ctx.parked # <<>>
  /\ ctx' = [ctx EXCEPT !.ready = @ \o [i \in DOMAIN ctx.parked |-> Invocation(ctx.parked[i])],
                        !.parked = <<>>]
  /\ entry' = "drain"
  /\ left' = limit
  /\ UNCHANGED <<stack, held, slot, state, dirty>>

Reload ==
  /\ AtBoundary
  /\ ctx' = BumpReloadEpoch(ctx)
  /\ UNCHANGED <<stack, entry, left, held, slot, state, dirty>>

-----------------------------------------------------------------------------
(* The drain loop. *)

Draining == entry = "drain" /\ stack = <<>>
NextLeftUnchecked == left - 1   \* Mutant: an unlimited drain counts down.
NextLeft == IF left = Unlimited THEN left ELSE left - 1

Completed(c, h) == Registered(c, h) /\ c.meta[h].completion # "none"

\* The checks of a resume adapter before the first body effect: the frame's
\* epoch, then the epoch and the cached completion of the awaited handle.
StaleResume(f) ==
  IsStale(ctx, f) \/ (state[f] = "await" /\ IsStale(ctx, slot[f]))
MissingCompletion(f) == state[f] = "await" /\ ~Completed(ctx, slot[f])

\* The job at the ready head resumes; an await reads its completion and
\* releases the registration's handle count.
DrainResume ==
  /\ Draining /\ left # 0 /\ ctx.ready # <<>>
  /\ Head(ctx.ready).tag = "invocation"
  /\ LET f == Head(ctx.ready).at
         c == [ctx EXCEPT !.ready = Tail(@)]
         h == slot[f]
     IN  /\ ~StaleResume(f)
         /\ ~MissingCompletion(f)
         /\ ctx' = IF state[f] = "await" THEN Release(Result(c, h), h) ELSE c
         /\ stack' = <<[frame |-> f, via |-> "drain"]>>
         /\ slot' = [slot EXCEPT ![f] = None]
         /\ dirty' = dirty \cup {f}
  /\ left' = NextLeft
  /\ UNCHANGED <<entry, held, state>>

\* The adapter refuses a stale frame or a missing completion.  The unwind
\* exit clears the payload and the drain keeps the job at the head.
DrainRefuse ==
  /\ Draining /\ left # 0 /\ ctx.ready # <<>>
  /\ Head(ctx.ready).tag = "invocation"
  /\ LET f == Head(ctx.ready).at
         c == [ctx EXCEPT !.ready = Tail(@)]
     IN  /\ StaleResume(f) \/ MissingCompletion(f)
         /\ ctx' = AfterResume(Trap(c, IF StaleResume(f) THEN "StaleCoroutine" ELSE "Internal"),
                               [frame |-> f, via |-> "drain"], TRUE)
         /\ slot' = [slot EXCEPT ![f] = None]
  /\ entry' = "none"
  /\ left' = Unlimited
  /\ UNCHANGED <<stack, held, state, dirty>>

DrainEnd ==
  /\ Draining
  /\ left = 0 \/ ctx.ready = <<>>
  /\ entry' = "none"
  /\ left' = Unlimited
  /\ UNCHANGED <<ctx, stack, held, slot, state, dirty>>

-----------------------------------------------------------------------------
Script ==
  \/ \E f \in Frames : Call(f) \/ Copy(f) \/ Drop(f) \/ AwaitStale(f)
  \/ \E h \in Frames, owned \in BOOLEAN : Await(h, owned)
  \/ Raise \/ Catch \/ Fault \/ Suspend \/ Return \/ Unwind \/ ExportReturn

HostCall ==
  \/ HostExport \/ HostClearTrap
  \/ \E f \in Frames : HostKick(f)
  \/ \E limit \in Limits : HostStep(limit)

Host == HostCall \/ Reload

Drain == DrainResume \/ DrainRefuse \/ DrainEnd

Next == Script \/ Host \/ Drain

Spec == Init /\ [][Next]_vars

\* The steps that end the body of f, for the fairness of AsyncSystem.
EndOf(f) == stack # <<>> /\ Top.frame = f /\ (Suspend \/ Return \/ Unwind)

-----------------------------------------------------------------------------
(* Properties. *)

\* Every variable has its type.
TypeOK ==
  /\ ctx \in Contexts
  /\ stack \in Seq(Activation)
  /\ entry \in {"none", "export", "kick", "drain"}
  /\ left \in Nat \cup {Unlimited}
  /\ held \in [Frames -> Nat]
  /\ slot \in [Frames -> Frames \cup {None}]
  /\ state \in [Frames -> {"start", "suspend", "await"}]
  /\ dirty \subseteq Frames

\* Where a continuation of f is registered: a position in the ready queue, in
\* the parked list, or in the waiter list of a handle.
ReadyAt(f) == {i \in DOMAIN ctx.ready : ctx.ready[i] = Invocation(f)}
ParkedAt(f) == {i \in DOMAIN ctx.parked : ctx.parked[i] = f}
WaitsOn(f) ==
  UNION {{h} \X {i \in DOMAIN ctx.meta[h].waiters : ctx.meta[h].waiters[i] = Invocation(f)} :
         h \in Frames}
Registrations(f) ==
  Cardinality(ReadyAt(f)) + Cardinality(ParkedAt(f)) + Cardinality(WaitsOn(f))

\* The state that visit_async_tasks reports (section 169).
TaskState(f) ==
  CASE ~Registered(ctx, f) -> "UNREGISTERED"
    [] Completed(ctx, f) -> "COMPLETE"
    [] Unfinished(ctx, f) /\ ctx.meta[f].kind # "invocation" -> "WAITING"
    [] OTHER -> IF OnStack(f) THEN "ACTIVE"
                ELSE IF ReadyAt(f) # {} THEN "READY"
                ELSE IF ParkedAt(f) # {} THEN "PARKED"
                ELSE IF f \in ctx.stopped THEN "STOPPED"
                ELSE IF WaitsOn(f) # {} THEN "WAITING"
                ELSE "UNCLASSIFIED"

\* The states are total and exclusive: an unfinished invocation is on the
\* stack, registered for one resume, or stopped, and only one of them once.
OnePlace ==
  \A f \in Frames :
    LET active == Cardinality({i \in DOMAIN stack : stack[i].frame = f})
        stops == IF f \in ctx.stopped THEN 1 ELSE 0
    IN  active + Registrations(f) + stops = IF Unfinished(ctx, f) THEN 1 ELSE 0

\* The handle that the suspended await of f registered with.
Awaits(f, h) == state[f] = "await" /\ slot[f] = h /\ ~OnStack(f)

\* The holders of f: script variables, its one registration or activation,
\* and the awaits that will read its completion.
Holders(f) ==
  held[f] + Registrations(f) + (IF OnStack(f) THEN 1 ELSE 0)
    + Cardinality({g \in Frames : Unfinished(ctx, g) /\ Awaits(g, f)})

\* Nothing interrupted a body so far: no frame was stopped, invalidated by a
\* reload or left by a trap, each of which abandons the counts it held.
Uninterrupted ==
  ctx.stopped = {} /\ \A f \in Frames : ~ctx.meta[f].stale /\ (f \in dirty => OnStack(f))

\* A frame is never freed while somebody holds it: the count word covers
\* every holder, so no await, variable or queue entry points to a dead frame.
\* And no count leaks: while no body was interrupted, each count is some
\* holder's, and a finished frame that nobody holds is gone.
CountMatchesHolders ==
  \A f \in Frames :
    /\ IF Registered(ctx, f) THEN ctx.meta[f].count >= Holders(f) ELSE Holders(f) = 0
    /\ Uninterrupted => /\ Registered(ctx, f) => ctx.meta[f].count = Holders(f)
                        /\ Completed(ctx, f) => Holders(f) > 0

\* An await is queued where its completion will find it. A ready continuation
\* of an await that was not interrupted has its handle live and completed, and
\* an entry of a waiter list is a suspended frame whose child slot names that
\* unfinished handle.
AwaitsAreServed ==
  \A f \in Frames :
    /\ (ReadyAt(f) # {} /\ state[f] = "await" /\ f \notin dirty /\ ~IsStale(ctx, f))
       => Completed(ctx, slot[f]) /\ ~IsStale(ctx, slot[f])
    /\ \A w \in WaitsOn(f) : Unfinished(ctx, w[1]) /\ Awaits(f, w[1])

\* Clearance stops the interrupted frame for good, except for reload
\* staleness: a body that ran on from its suspension is not resumed there.
NoReplay ==
  ~Trapped(ctx) =>
    \A f \in dirty : (~OnStack(f) /\ ReadyAt(f) # {}) => IsStale(ctx, f)

\* No exception crosses to the host: with no script on the stack, every one
\* was caught, became the completion of its frame, or became a trap.
NoPendingAtBoundary == stack = <<>> => ctx.word # "exception"

\* An exception that leaves an async body becomes the completion of its
\* frame: the caller's own completion of a finished frame does not replace it.
ExceptionKept ==
  [][(ctx.word = "exception" /\ ctx'.word = "clear" /\ stack' # stack)
       => ctx'.meta[Top.frame].completion = "exception"]_vars

\* An exception that no await observed is never lost: the step that frees
\* its frame makes it pending again or leaves the Context trapped.
UnobservedReported ==
  [][\A f \in Frames :
       (Unobserved(ctx.meta[f]) /\ ~Registered(ctx', f)) => Trapped(ctx')]_vars

\* Every task follows the lifecycle of the inspection states: it wakes in the
\* step that ends its handle, a checkpoint takes the whole parked list, and a
\* stopped task never runs again.
Lifecycle == INSTANCE TaskLifecycle WITH
  Tasks <- Frames,
  status <- [f \in Frames |-> TaskState(f)],
  awaited <- [f \in Frames |-> IF TaskState(f) = "WAITING" THEN slot[f] ELSE None]

FollowsLifecycle == Lifecycle!Spec

\* No job starves: a ready or parked frame is resumed, unless a trap of its
\* own stopped it, whatever the frames before it do and however small the
\* budgets are.
EventuallyResumed ==
  \A f \in Frames :
    TaskState(f) \in {"READY", "PARKED"} ~> TaskState(f) \in {"ACTIVE", "STOPPED"}
=============================================================================
