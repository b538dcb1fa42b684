-------------------------- MODULE AsyncInvariants ---------------------------
(***************************************************************************)
(* The invariants of AsyncScheduler that the proofs carry, and the         *)
(* relations between two Contexts that the lemmas about them use.          *)
(***************************************************************************)
EXTENDS AsyncScheduler

-----------------------------------------------------------------------------
(* Types.  Only invocations are registered here, and every queued job names *)
(* a frame. *)

Invocations(c) == \A f \in Frames : c.meta[f].kind \in {"none", "invocation"}

\* A raised trap has a record.
TrapRecorded(c) == c.word = "trap" => c.trap # "none"
Good(c) == c \in Contexts /\ Invocations(c) /\ TrapRecorded(c)
TypeInv == TypeOK /\ Good(ctx)

-----------------------------------------------------------------------------
(* Exceptions. *)

\* An address that async_frames does not hold has no completion, and nobody
\* observes a completion before it is cached.
CleanMeta(m) ==
  /\ m.kind = "none" => m.completion = "none"
  /\ m.completion = "none" => ~m.observed
Clean(c) == \A f \in Frames : CleanMeta(c.meta[f])

\* Nobody's exception is dropped between c and d.
Cached(c, d) ==
  \A f \in Frames : Unobserved(c.meta[f]) => Trapped(d) \/ Unobserved(d.meta[f])

\* What each runtime function called by generated code preserves.
Keeps(c, d) ==
  /\ Clean(c) => Clean(d)
  /\ Trapped(c) => Trapped(d)
  /\ Cached(c, d)

\* The host entered the first activation and generated code the others, and
\* between two entries the stack is empty.
Shape == \A i \in DOMAIN stack : stack[i].via = "start" <=> i # 1
Framed == Shape /\ (entry = "none" => stack = <<>>) /\ NoPendingAtBoundary

\* The three claims about one step.
Reported ==
  \A f \in Frames : (Unobserved(ctx.meta[f]) /\ ~Registered(ctx', f)) => Trapped(ctx')
Kept ==
  (ctx.word = "exception" /\ ctx'.word = "clear" /\ stack' # stack)
    => ctx'.meta[Top.frame].completion = "exception"

\* What a step must establish.
Claims == Clean(ctx') /\ Framed' /\ Reported /\ Kept

\* The invariant that no exception is lost.
ExceptionInv == TypeInv /\ Clean(ctx) /\ Framed

-----------------------------------------------------------------------------
(* Where a frame is. *)

\* x is in the list q, and it is there at most once.
Has(q, x) == \E i \in 1 .. Len(q) : q[i] = x
Single(q, x) == \A i, j \in 1 .. Len(q) : q[i] = x /\ q[j] = x => i = j

\* f has an activation on the stack s, and at most one.
On(s, f) == \E i \in 1 .. Len(s) : s[i].frame = f
OnOnce(s, f) == \A i, j \in 1 .. Len(s) : s[i].frame = f /\ s[j].frame = f => i = j

\* u is the case exactly if one of the five others is.
OneOf(u, s, r, p, w, x) ==
  /\ u <=> (s \/ r \/ p \/ w \/ x)
  /\ ~(s /\ r) /\ ~(s /\ p) /\ ~(s /\ w) /\ ~(s /\ x) /\ ~(r /\ p) /\ ~(r /\ w) /\ ~(r /\ x)
  /\ ~(p /\ w) /\ ~(p /\ x) /\ ~(w /\ x)

\* f is in the ready queue, f waits for h, f waits for a handle.
IsReady(c, f) == Has(c.ready, Invocation(f))
WaitsFor(c, f, h) == Has(c.meta[h].waiters, Invocation(f))
Waits(c, f) == \E h \in Frames : WaitsFor(c, f, h)

\* An unfinished frame is in one of five places, once.
Place(c, s, f) ==
  /\ OneOf(Unfinished(c, f), On(s, f), IsReady(c, f), Has(c.parked, f), Waits(c, f),
           f \in c.stopped)
  /\ OnOnce(s, f) /\ Single(c.ready, Invocation(f)) /\ Single(c.parked, f)
  /\ \A h \in Frames : Single(c.meta[h].waiters, Invocation(f))

\* A waiter waits for the unfinished handle that its child slot names.
Waiting(c, sl, st) ==
  \A f, h \in Frames : WaitsFor(c, f, h) => Unfinished(c, h) /\ st[f] = "await" /\ sl[f] = h

\* F is in none of them.
Absent(c, s, f) ==
  ~On(s, f) /\ ~IsReady(c, f) /\ ~Has(c.parked, f) /\ ~Waits(c, f) /\ f \notin c.stopped

\* Every frame but those of F is in its place.  Between two places a frame is
\* in F.
Placed(c, s, sl, st, F) ==
  /\ Waiting(c, sl, st)
  /\ \A f \in Frames \ F : Place(c, s, f)
  /\ \A f \in F : Absent(c, s, f)

\* From c to d no frame moves.
Alike(c, d) ==
  /\ d.ready = c.ready /\ d.parked = c.parked /\ d.stopped = c.stopped
  /\ \A h \in Frames :
       /\ Unfinished(d, h) <=> Unfinished(c, h)
       /\ \/ d.meta[h].waiters = c.meta[h].waiters
          \/ ~Unfinished(c, h) /\ d.meta[h].waiters = <<>>

-----------------------------------------------------------------------------
(* What a frame's place says of its slot, its epoch and its history. *)

\* The drain entered an activation of f.
OnDrain(s, f) == \E i \in 1 .. Len(s) : s[i].frame = f /\ s[i].via = "drain"

\* The handle h is done, and not of an older epoch if it is still there.
Done(c, h) == h \in Frames /\ ~Unfinished(c, h) /\ (Registered(c, h) => ~c.meta[h].stale)

\* A parked frame left through suspend; a dirty frame is unfinished and runs or
\* holds no child; a running frame is of this epoch; a frame that the drain
\* entered is dirty; and a frame that is ready again after an await finds its
\* handle done.
Fine(c, s, sl, st, di, f) ==
  /\ Has(c.parked, f) => st[f] = "suspend"
  /\ f \in di => Unfinished(c, f) /\ (On(s, f) \/ sl[f] = None)
  /\ On(s, f) => ~c.meta[f].stale
  /\ OnDrain(s, f) => f \in di
  /\ IsReady(c, f) /\ st[f] = "await" /\ f \notin di /\ ~c.meta[f].stale => Done(c, sl[f])

\* Every frame is in its place, and its place fits the rest of its state.
Rest(c, s, sl, st, di) ==
  Placed(c, s, sl, st, {}) /\ \A f \in Frames : Fine(c, s, sl, st, di, f)

\* The slots sl and sm and the states st and su agree but for f.
Off(f, sl, st, sm, su) == \A g \in Frames \ {f} : sm[g] = sl[g] /\ su[g] = st[g]

\* One frame f moves.  The others keep their slot, state and epoch; they become
\* ready only from the parked list or because f finished.
Moves(f, c, s, sl, st, di, d, t, sm, su, dj) ==
  /\ Off(f, sl, st, sm, su)
  /\ \A g \in Frames \ {f} :
       /\ g \in dj <=> g \in di
       /\ (On(t, g) <=> On(s, g)) /\ (OnDrain(t, g) => OnDrain(s, g))
       /\ Has(d.parked, g) => Has(c.parked, g)
       /\ IsReady(d, g) => \/ IsReady(c, g)
                           \/ Has(c.parked, g)
                           \/ WaitsFor(c, g, f) /\ ~Unfinished(d, f)
       /\ Unfinished(d, g) <=> Unfinished(c, g)
       /\ Registered(d, g) => Registered(c, g) /\ d.meta[g].stale = c.meta[g].stale
  /\ ~Unfinished(c, f) =>
       \A g \in Frames : ~(IsReady(c, g) /\ st[g] = "await" /\ sl[g] = f)
  /\ ~Unfinished(d, f) /\ Registered(d, f) => ~d.meta[f].stale

\* f runs on top of the stack s, and p is what remains below it.
Pops(s, p, f) ==
  /\ s \in Seq(Activation) /\ s # <<>> /\ f \in Frames /\ f = s[Len(s)].frame
  /\ p = SubSeq(s, 1, Len(s) - 1)

\* The running frame f left the stack s and is in no other place yet.
Lifted(c, s, p, f) ==
  /\ Absent(c, p, f) /\ Unfinished(c, f) /\ Registered(c, f) /\ ~c.meta[f].stale /\ On(s, f)
  /\ \A g \in Frames \ {f} : (On(p, g) <=> On(s, g)) /\ (OnDrain(p, g) => OnDrain(s, g))
  /\ ~On(p, f) /\ ~OnDrain(p, f)

\* The lists and the table of c are those of d.
SameFields(c, d) ==
  d.meta = c.meta /\ d.ready = c.ready /\ d.parked = c.parked /\ d.stopped = c.stopped

\* The stacks s and t differ in activations without a frame.
SameFrames(s, t) ==
  \A f \in Frames : /\ (On(t, f) <=> On(s, f)) /\ (OnOnce(s, f) => OnOnce(t, f))
                    /\ OnDrain(t, f) => OnDrain(s, f)

-----------------------------------------------------------------------------
(* Counts.  n says for each frame how many holders it has. *)

\* The count word covers the holders, and a finished frame is held.
Counted(c, n) ==
  \A f \in Frames :
    /\ IF Registered(c, f) THEN c.meta[f].count >= n[f] ELSE n[f] = 0
    /\ Completed(c, f) => c.meta[f].count > 0

\* The count word counts the holders.
Exact(c, n) == \A f \in Frames : Registered(c, f) => c.meta[f].count = n[f]

\* Both, the second when x holds.
Books(c, n, x) == Counted(c, n) /\ (x => Exact(c, n))

\* One more holder of f, and one less.
Plus(n, f) == [n EXCEPT ![f] = @ + 1]
Minus(n, f) == [n EXCEPT ![f] = @ - 1]

\* From c to d no frame moves, nor is one invalidated.
Tame(c, d) ==
  /\ Alike(c, d) /\ d.trapping = c.trapping
  /\ \A h \in Frames : Registered(d, h) => Registered(c, h) /\ d.meta[h].stale = c.meta[h].stale

-----------------------------------------------------------------------------
(* The holders. *)

\* g is suspended in an await of f.
AwaitsIn(c, s, sl, st, g, f) == Unfinished(c, g) /\ st[g] = "await" /\ ~On(s, g) /\ sl[g] = f
Awaiters(c, s, sl, st, f) == {g \in Frames : AwaitsIn(c, s, sl, st, g, f)}

\* A frame that will run holds itself.
Live(c, f) == IF Unfinished(c, f) /\ f \notin c.stopped THEN 1 ELSE 0

\* Script, the frame itself and the frames that await it hold a frame.
Need(c, s, he, sl, st) ==
  [f \in Frames |-> he[f] + Live(c, f) + Cardinality(Awaiters(c, s, sl, st, f))]

\* Nothing was stopped, and no unfinished frame is of an older epoch.
Undisturbed(c) == c.stopped = {} /\ \A f \in Frames : ~(Unfinished(c, f) /\ c.meta[f].stale)

\* The books of a Context whose holders are known.
Balance(c, s, he, sl, st) == Books(c, Need(c, s, he, sl, st), Undisturbed(c))

\* Every frame but f keeps what its awaits depend on.
Apart(f, c, s, sl, st, d, t, sm, su) ==
  \A g \in Frames \ {f} :
    /\ sm[g] = sl[g] /\ su[g] = st[g] /\ (On(t, g) <=> On(s, g))
    /\ Unfinished(d, g) <=> Unfinished(c, g)
    /\ g \in d.stopped <=> g \in c.stopped

\* Every frame does; only a running one may change its slot.
Still(c, s, sl, st, d, t, sm, su) ==
  \A g \in Frames :
    /\ sm[g] = sl[g] \/ On(s, g)
    /\ su[g] = st[g] /\ (On(t, g) <=> On(s, g))
    /\ Unfinished(d, g) <=> Unfinished(c, g)
    /\ g \in d.stopped <=> g \in c.stopped

\* The holders n are those of m, what script gains, what f holds of itself and
\* what its await holds.
Shifts(n, m, he, hf, f, c, s, sl, st, d, t, sm, su) ==
  \A x \in Frames :
    n[x] = m[x] + (hf[x] - he[x])
             + (IF x = f THEN Live(d, f) - Live(c, f) ELSE 0)
             + (IF AwaitsIn(d, t, sm, su, f, x) THEN 1 ELSE 0)
             - (IF AwaitsIn(c, s, sl, st, f, x) THEN 1 ELSE 0)

\* The holders n are those of m and what script gains.
Gains(n, m, he, hf) == \A x \in Frames : n[x] = m[x] + (hf[x] - he[x])

\* The frames but f keep their completion and their epoch, and none is stopped.
Steady(c, d, f) ==
  \A g \in Frames \ {f} :
    /\ Unfinished(d, g) <=> Unfinished(c, g)
    /\ Registered(d, g) => Registered(c, g) /\ d.meta[g].stale = c.meta[g].stale
    /\ g \in d.stopped <=> g \in c.stopped

\* An activation of f ends: what script gains, what f holds of itself and what
\* its await holds.
Settles(n, m, he, hf, d, sm, su, f) ==
  \A x \in Frames :
    n[x] = m[x] + (hf[x] - he[x])
             + (IF x = f THEN Live(d, f) - 1 ELSE 0)
             + (IF Unfinished(d, f) /\ su[f] = "await" /\ sm[f] = x THEN 1 ELSE 0)

\* The count word of every frame is the same in c and d.
SameCounts(c, d) ==
  \A f \in Frames : /\ d.meta[f].kind = c.meta[f].kind
                    /\ d.meta[f].completion = c.meta[f].completion
                    /\ d.meta[f].count = c.meta[f].count

-----------------------------------------------------------------------------
(* The invariant of the owners. *)

\* A trapping job is the head of the queue of a Context at its boundary.
Trapping(c, e) ==
  c.trapping # NoJob =>
    /\ e = "none" /\ Trapped(c) /\ c.ready # <<>>
    /\ c.trapping.job = Head(c.ready) /\ Head(c.ready).tag = "invocation"

\* Every frame in its place, every count in balance.
Owned ==
  /\ Rest(ctx, stack, slot, state, dirty)
  /\ Balance(ctx, stack, held, slot, state)
  /\ Trapping(ctx, entry)
OwnInv == ExceptionInv /\ Owned

\* How many holders each frame has now.
Owes == Need(ctx, stack, held, slot, state)

-----------------------------------------------------------------------------
(* The lifecycle. *)

\* TaskState of a frame that is in its place.
Status(c, s, f) ==
  CASE ~Registered(c, f) -> "UNREGISTERED"
    [] Registered(c, f) /\ ~Unfinished(c, f) -> "COMPLETE"
    [] Unfinished(c, f) /\ On(s, f) -> "ACTIVE"
    [] Unfinished(c, f) /\ IsReady(c, f) -> "READY"
    [] Unfinished(c, f) /\ Has(c.parked, f) -> "PARKED"
    [] Unfinished(c, f) /\ f \in c.stopped -> "STOPPED"
    [] Unfinished(c, f) /\ Waits(c, f) -> "WAITING"

\* Every frame is in one place, and a waiter waits for an unfinished handle.
Settled(c, s) ==
  /\ \A f \in Frames : Place(c, s, f)
  /\ \A f, h \in Frames : WaitsFor(c, f, h) => Unfinished(c, h)

\* What a step from the Context c with the stack s to d with t may do to a frame
\* that does not run.
FrameFlow(c, s, d, t, g) ==
  /\ Registered(c, g) /\ ~On(s, g) => (Unfinished(d, g) <=> Unfinished(c, g))
  /\ Registered(d, g) => Registered(c, g) \/ On(t, g)
  /\ g \in c.stopped => g \in d.stopped
  /\ Has(c.parked, g) => Has(d.parked, g) \/ IsReady(d, g)
  /\ IsReady(c, g) => IsReady(d, g) \/ On(t, g) \/ g \in d.stopped
  /\ \A h \in Frames :
       WaitsFor(c, g, h) => IF Unfinished(d, h) THEN WaitsFor(d, g, h) ELSE IsReady(d, g)

\* One frame at a time starts to run.
OneStarts(s, t) ==
  \A f, g \in Frames : On(t, f) /\ ~On(s, f) /\ On(t, g) /\ ~On(s, g) => f = g

\* The parked list leaves as a whole.
AllLeave(c, d) ==
  (\E f \in Frames : Has(c.parked, f) /\ ~Has(d.parked, f))
    => \A f \in Frames : ~Has(d.parked, f)

Flow(c, s, d, t) ==
  OneStarts(s, t) /\ AllLeave(c, d) /\ \A g \in Frames : FrameFlow(c, s, d, t, g)

\* The frames of c and d have the same kinds, completions and waiters.
SameTasks(c, d) ==
  \A h \in Frames : /\ d.meta[h].kind = c.meta[h].kind
                    /\ d.meta[h].completion = c.meta[h].completion
                    /\ d.meta[h].waiters = c.meta[h].waiters

\* What a step must show of the frames that do not run.
Flows == Flow(ctx, stack, ctx', stack')

\* The inspection reports the place of every frame.
StatusAgrees == \A f \in Frames : TaskState(f) = Status(ctx, stack, f)

=============================================================================
