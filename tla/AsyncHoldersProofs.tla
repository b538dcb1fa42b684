------------------------- MODULE AsyncHoldersProofs -------------------------
(***************************************************************************)
(* How often a frame is counted.  The holders of a frame are script, the   *)
(* frame itself and the frames that await it (Need).  Each move of a frame *)
(* keeps the count words in balance with them (Balance), and so do the     *)
(* steps that move no frame.                                               *)
(***************************************************************************)
EXTENDS AsyncPlacesProofs, FiniteSetTheorems

-----------------------------------------------------------------------------
(* Counts. *)

\* Tame changes compose.
LEMMA TameTrans ==
  ASSUME NEW c, NEW d, NEW e, Tame(c, d), Tame(d, e)
  PROVE  Tame(c, e)
BY Zenon DEF Tame, Alike

\* Holders are never fewer than none.
LEMMA PlusType ==
  ASSUME NEW n \in [Frames -> Nat], NEW f \in Frames
  PROVE  /\ Plus(n, f) \in [Frames -> Nat]
         /\ n[f] > 0 => Minus(n, f) \in [Frames -> Nat]
BY DEF Plus, Minus

\* Functions that change no frame's kind, completion or count.
LEMMA SameBooks ==
  ASSUME NEW c, NEW d, NEW n, NEW x, Books(c, n, x),
         \A f \in Frames : /\ d.meta[f].kind = c.meta[f].kind
                           /\ d.meta[f].completion = c.meta[f].completion
                           /\ d.meta[f].count = c.meta[f].count
  PROVE  Books(d, n, x)
<1>1. \A f \in Frames : (Registered(d, f) <=> Registered(c, f)) /\ (Completed(d, f) <=> Completed(c, f))
  BY DEF Registered, Completed
<1>. QED BY <1>1 DEF Books, Counted, Exact

\* The traps, the exception word and a cleared word.
LEMMA TameTraps ==
  ASSUME NEW c \in Contexts, NEW d, d.meta = c.meta, d.ready = c.ready, d.parked = c.parked,
         d.stopped = c.stopped, d.trapping = c.trapping
  PROVE  Tame(c, d) /\ \A n, x : Books(c, n, x) => Books(d, n, x)
<1>1. \A h \in Frames : (Registered(d, h) <=> Registered(c, h)) /\ (Unfinished(d, h) <=> Unfinished(c, h))
  BY DEF Registered, Unfinished
<1>2. Tame(c, d)
  BY <1>1 DEF Tame, Alike
<1>3. ASSUME NEW n, NEW x, Books(c, n, x) PROVE Books(d, n, x)
  BY <1>3, SameBooks
<1>. QED BY <1>2, <1>3

\* They are of that kind.
LEMMA TrapFields ==
  ASSUME NEW c \in Contexts, NEW k,
         NEW d \in {Trap(c, k), RaiseException(c), SettleUncaughtException(c),
                    [c EXCEPT !.word = "clear"]}
  PROVE  /\ d.meta = c.meta /\ d.ready = c.ready /\ d.parked = c.parked
         /\ d.stopped = c.stopped /\ d.trapping = c.trapping
BY Zenon DEF Trap, RaiseException, SettleUncaughtException, Contexts

\* async_retain: one more holder.
LEMMA RetainBooks ==
  ASSUME NEW c, Good(c), NEW f \in Frames, Registered(c, f), NEW n \in [Frames -> Nat], NEW x,
         Books(c, n, x)
  PROVE  Tame(c, Retain(c, f)) /\ Books(Retain(c, f), Plus(n, f), x)
<1> DEFINE d == Retain(c, f)
<1>1. /\ d.ready = c.ready /\ d.parked = c.parked /\ d.stopped = c.stopped
      /\ d.trapping = c.trapping
      /\ d.meta[f].count = c.meta[f].count + 1 /\ d.meta[f].kind = c.meta[f].kind
      /\ d.meta[f].completion = c.meta[f].completion /\ d.meta[f].stale = c.meta[f].stale
      /\ d.meta[f].waiters = c.meta[f].waiters
      /\ \A g \in Frames \ {f} : d.meta[g] = c.meta[g]
      /\ \A g \in Frames : c.meta[g].count \in Nat
  BY DEF Good, Contexts, FrameMeta, Retain, SetMeta
<1>. HIDE DEF d
<1>2. \A g \in Frames : /\ Registered(d, g) <=> Registered(c, g)
                        /\ Unfinished(d, g) <=> Unfinished(c, g)
                        /\ Completed(d, g) <=> Completed(c, g)
                        /\ d.meta[g].stale = c.meta[g].stale
                        /\ d.meta[g].waiters = c.meta[g].waiters
  BY Zenon, <1>1 DEF Registered, Unfinished, Completed
<1>3. Tame(c, d)
  BY Zenon, <1>1, <1>2 DEF Tame, Alike
<1>4. /\ Plus(n, f)[f] = n[f] + 1 /\ n[f] \in Nat
      /\ \A g \in Frames \ {f} : Plus(n, f)[g] = n[g]
  BY DEF Plus
<1>5. Counted(d, Plus(n, f)) /\ (x => Exact(d, Plus(n, f)))
  <2>1. ASSUME NEW g \in Frames
        PROVE  /\ IF Registered(d, g) THEN d.meta[g].count >= Plus(n, f)[g] ELSE Plus(n, f)[g] = 0
               /\ Completed(d, g) => d.meta[g].count > 0
    <3>1. CASE g = f
      BY <1>1, <1>2, <1>4, <3>1 DEF Books, Counted
    <3>2. CASE g # f
      BY Zenon, <1>1, <1>2, <1>4, <3>2 DEF Books, Counted
    <3>. QED BY <3>1, <3>2
  <2>2. ASSUME x, NEW g \in Frames, Registered(d, g) PROVE d.meta[g].count = Plus(n, f)[g]
    <3>1. c.meta[g].count = n[g]
      BY Zenon, <1>2, <2>2 DEF Books, Exact
    <3>. QED BY <1>1, <1>4, <3>1
  <2>. QED BY Zenon, <2>1, <2>2 DEF Counted, Exact
<1>. QED BY <1>3, <1>5 DEF Books, d

\* async_release: one holder less, and the last one's frame is freed.
LEMMA ReleaseBooks ==
  ASSUME NEW c, Good(c), NEW f \in Frames, NEW n \in [Frames -> Nat], NEW x,
         Books(c, n, x), n[f] > 0
  PROVE  Tame(c, Release(c, f)) /\ Books(Release(c, f), Minus(n, f), x)
<1> DEFINE d == Release(c, f)
           m == c.meta[f]
           e == SetMeta(c, f, [m EXCEPT !.count = m.count - 1])
           u == SetMeta(e, f, Unregistered)
<1>1. Registered(c, f) /\ m.count >= n[f] /\ m.count \in Nat /\ n[f] \in Nat
  BY DEF Books, Counted, Good, Contexts, FrameMeta
<1>2. d = IF m.count - 1 # 0 \/ m.completion = "none" THEN e
          ELSE IF Unobserved(m) THEN Trap(u, "UncaughtException") ELSE u
  <2>1. (IF m.count = 0 THEN 0 ELSE m.count - 1) = m.count - 1
    BY <1>1
  <2>. QED BY <1>1, <2>1, ReleaseInvocation DEF Good
<1>3. /\ e.ready = c.ready /\ e.parked = c.parked /\ e.stopped = c.stopped
      /\ e.trapping = c.trapping
      /\ e.meta[f].count = m.count - 1 /\ e.meta[f].kind = m.kind
      /\ e.meta[f].completion = m.completion /\ e.meta[f].stale = m.stale
      /\ e.meta[f].waiters = m.waiters
      /\ \A g \in Frames \ {f} : e.meta[g] = c.meta[g]
      /\ \A g \in Frames : c.meta[g].count \in Nat
  BY <1>1 DEF Good, Contexts, FrameMeta, SetMeta
<1>4. /\ u.ready = c.ready /\ u.parked = c.parked /\ u.stopped = c.stopped
      /\ u.trapping = c.trapping /\ u.meta[f].kind = "none" /\ u.meta[f].waiters = <<>>
      /\ \A g \in Frames \ {f} : u.meta[g] = c.meta[g]
      /\ Trap(u, "UncaughtException").meta = u.meta
      /\ Trap(u, "UncaughtException").ready = u.ready
      /\ Trap(u, "UncaughtException").parked = u.parked
      /\ Trap(u, "UncaughtException").stopped = u.stopped
      /\ Trap(u, "UncaughtException").trapping = u.trapping
  BY DEF Good, Contexts, SetMeta, Unregistered, Trap
<1>5. /\ Minus(n, f)[f] = n[f] - 1
      /\ \A g \in Frames \ {f} : Minus(n, f)[g] = n[g]
  BY DEF Minus
<1>. HIDE DEF d, m, e, u
<1>6. CASE d = e /\ (m.count - 1 # 0 \/ m.completion = "none")
  <2>1. \A g \in Frames : /\ Registered(d, g) <=> Registered(c, g)
                          /\ Unfinished(d, g) <=> Unfinished(c, g)
                          /\ Completed(d, g) <=> Completed(c, g)
                          /\ d.meta[g].stale = c.meta[g].stale
                          /\ d.meta[g].waiters = c.meta[g].waiters
    BY Zenon, <1>3, <1>6 DEF Registered, Unfinished, Completed, m
  <2>2. Tame(c, d)
    BY Zenon, <1>3, <1>6, <2>1 DEF Tame, Alike
  <2>3. Completed(d, f) => e.meta[f].count > 0
    BY <1>1, <1>3, <1>6 DEF Completed
  <2>4. Counted(d, Minus(n, f)) /\ (x => Exact(d, Minus(n, f)))
    <3>1. ASSUME NEW g \in Frames
          PROVE  /\ IF Registered(d, g) THEN d.meta[g].count >= Minus(n, f)[g] ELSE Minus(n, f)[g] = 0
                 /\ Completed(d, g) => d.meta[g].count > 0
      <4>1. CASE g = f
        BY <1>1, <1>3, <1>5, <1>6, <2>1, <2>3, <4>1
      <4>2. CASE g # f
        BY Zenon, <1>3, <1>5, <1>6, <2>1, <4>2 DEF Books, Counted
      <4>. QED BY <4>1, <4>2
    <3>2. ASSUME x, NEW g \in Frames, Registered(d, g) PROVE d.meta[g].count = Minus(n, f)[g]
      <4>1. c.meta[g].count = n[g]
        BY Zenon, <2>1, <3>2 DEF Books, Exact
      <4>. QED BY <1>3, <1>5, <1>6, <4>1 DEF m
    <3>. QED BY Zenon, <3>1, <3>2 DEF Counted, Exact
  <2>. QED BY <2>2, <2>4 DEF Books, d
<1>7. CASE d.meta = u.meta /\ d.ready = u.ready /\ d.parked = u.parked /\ d.stopped = u.stopped
           /\ d.trapping = u.trapping /\ m.count - 1 = 0 /\ m.completion # "none"
  <2>1. ~Registered(d, f) /\ ~Unfinished(d, f) /\ ~Completed(d, f) /\ ~Unfinished(c, f)
    BY <1>4, <1>7 DEF Registered, Unfinished, Completed, m
  <2>2. \A g \in Frames \ {f} : /\ Registered(d, g) <=> Registered(c, g)
                                /\ Unfinished(d, g) <=> Unfinished(c, g)
                                /\ Completed(d, g) <=> Completed(c, g)
                                /\ d.meta[g] = c.meta[g]
    BY Zenon, <1>4, <1>7 DEF Registered, Unfinished, Completed
  <2>3. Tame(c, d)
    <3>1. \A h \in Frames :
             /\ Unfinished(d, h) <=> Unfinished(c, h)
             /\ \/ d.meta[h].waiters = c.meta[h].waiters
                \/ ~Unfinished(c, h) /\ d.meta[h].waiters = <<>>
             /\ Registered(d, h) => Registered(c, h) /\ d.meta[h].stale = c.meta[h].stale
      BY <1>4, <1>7, <2>1, <2>2
    <3>. QED BY Zenon, <1>4, <1>7, <3>1 DEF Tame, Alike
  <2>4. Minus(n, f)[f] = 0
    BY <1>1, <1>5, <1>7
  <2>5. Counted(d, Minus(n, f)) /\ (x => Exact(d, Minus(n, f)))
    <3>1. ASSUME NEW g \in Frames
          PROVE  /\ IF Registered(d, g) THEN d.meta[g].count >= Minus(n, f)[g] ELSE Minus(n, f)[g] = 0
                 /\ Completed(d, g) => d.meta[g].count > 0
      <4>1. CASE g = f
        BY <2>1, <2>4, <4>1
      <4>2. CASE g # f
        BY Zenon, <1>5, <2>2, <4>2 DEF Books, Counted
      <4>. QED BY <4>1, <4>2
    <3>2. ASSUME x, NEW g \in Frames, Registered(d, g) PROVE d.meta[g].count = Minus(n, f)[g]
      <4>1. g # f /\ Registered(c, g)
        BY <2>1, <2>2, <3>2
      <4>2. c.meta[g].count = n[g]
        BY Zenon, <3>2, <4>1 DEF Books, Exact
      <4>. QED BY <1>5, <2>2, <4>1, <4>2
    <3>. QED BY Zenon, <3>1, <3>2 DEF Counted, Exact
  <2>. QED BY <2>3, <2>5 DEF Books, d
<1>. QED BY <1>2, <1>4, <1>6, <1>7

\* async_result: reading a completion changes no count.
LEMMA ResultBooks ==
  ASSUME NEW c, Good(c), NEW f \in Frames, NEW n, NEW x, Books(c, n, x)
  PROVE  Tame(c, Result(c, f)) /\ Books(Result(c, f), n, x)
<1> DEFINE e == SetMeta(c, f, [c.meta[f] EXCEPT !.observed = TRUE])
<1>1. /\ e.ready = c.ready /\ e.parked = c.parked /\ e.stopped = c.stopped
      /\ e.trapping = c.trapping /\ e \in Contexts
      /\ \A g \in Frames : /\ e.meta[g].count = c.meta[g].count
                           /\ e.meta[g].kind = c.meta[g].kind
                           /\ e.meta[g].completion = c.meta[g].completion
                           /\ e.meta[g].stale = c.meta[g].stale
                           /\ e.meta[g].waiters = c.meta[g].waiters
  <2>1. c.meta[f] \in FrameMeta
    BY DEF Good, Contexts
  <2>2. [c.meta[f] EXCEPT !.observed = TRUE] \in FrameMeta
    BY Zenon, <2>1 DEF FrameMeta
  <2>3. e \in Contexts
    BY <2>2, SetMetaType DEF Good
  <2>4. /\ e.ready = c.ready /\ e.parked = c.parked /\ e.stopped = c.stopped
        /\ e.trapping = c.trapping
        /\ \A g \in Frames \ {f} : e.meta[g] = c.meta[g]
    BY DEF Good, Contexts, SetMeta
  <2>5. /\ e.meta[f].count = c.meta[f].count /\ e.meta[f].kind = c.meta[f].kind
        /\ e.meta[f].completion = c.meta[f].completion /\ e.meta[f].stale = c.meta[f].stale
        /\ e.meta[f].waiters = c.meta[f].waiters
    BY <2>1 DEF Good, Contexts, FrameMeta, SetMeta
  <2>. QED BY Zenon, <2>3, <2>4, <2>5
<1>2. Result(c, f) = IF c.meta[f].completion = "exception" THEN RaiseException(e) ELSE c
  BY DEF Result
<1>. HIDE DEF e
<1>3. \A g \in Frames : (Registered(e, g) <=> Registered(c, g)) /\ (Unfinished(e, g) <=> Unfinished(c, g))
  BY Zenon, <1>1 DEF Registered, Unfinished
<1>4. Tame(c, e)
  BY Zenon, <1>1, <1>3 DEF Tame, Alike
<1>5. Books(e, n, x)
  BY <1>1, SameBooks
<1>6. Tame(e, RaiseException(e)) /\ Books(RaiseException(e), n, x)
  <2> DEFINE r == RaiseException(e)
  <2>1. /\ r.meta = e.meta /\ r.ready = e.ready /\ r.parked = e.parked
        /\ r.stopped = e.stopped /\ r.trapping = e.trapping
    BY <1>1, TrapFields
  <2>. HIDE DEF r
  <2>2. Tame(e, r) /\ Books(r, n, x)
    BY <1>1, <1>5, <2>1, TameTraps
  <2>. QED BY <2>2 DEF r
<1>7. Tame(c, RaiseException(e))
  BY Zenon, <1>4, <1>6, TameTrans
<1>8. Tame(c, c)
  BY TameTraps DEF Good
<1>. QED BY <1>2, <1>6, <1>7, <1>8

\* A completion changes no count.
LEMMA CompleteBooks ==
  ASSUME NEW c, Good(c), NEW f \in Frames, Unfinished(c, f), NEW k, NEW n \in [Frames -> Nat],
         NEW x, Books(c, n, x), n[f] > 0
  PROVE  Books(CompleteWith(c, f, k), n, x)
<1> DEFINE d == CompleteWith(c, f, k)
<1>1. /\ d.meta[f].count = c.meta[f].count /\ d.meta[f].kind = c.meta[f].kind
      /\ \A g \in Frames \ {f} : d.meta[g] = c.meta[g]
  BY DEF Good, Contexts, FrameMeta, CompleteWith, SetMeta
<1>2. c.meta[f].count \in Nat /\ n[f] \in Nat
  BY DEF Good, Contexts, FrameMeta
<1>. HIDE DEF d
<1>3. \A g \in Frames : /\ Registered(d, g) <=> Registered(c, g)
                        /\ g # f => (Completed(d, g) <=> Completed(c, g))
                        /\ d.meta[g].count = c.meta[g].count
  BY Zenon, <1>1 DEF Registered, Completed
<1>4. c.meta[f].count > 0
  <2>1. c.meta[f].count >= n[f]
    BY Zenon DEF Books, Counted, Unfinished
  <2>. QED BY <1>2, <2>1
<1>5. Counted(d, n)
  BY Zenon, <1>3, <1>4 DEF Books, Counted
<1>6. x => Exact(d, n)
  BY Zenon, <1>3 DEF Books, Exact
<1>. QED BY <1>5, <1>6 DEF Books, d

\* The creator holds the frame it registers.
LEMMA RegisterBooks ==
  ASSUME NEW c, Good(c), NEW f \in Frames, ~Registered(c, f), NEW m \in FrameMeta,
         m.kind # "none", m.completion = "none", NEW n \in [Frames -> Nat], NEW x, Books(c, n, x)
  PROVE  Books(Register(c, f, m), Plus(n, f), x) /\ n[f] = 0
<1> DEFINE d == Register(c, f, m)
<1>1. /\ d.meta[f].count = 1 /\ d.meta[f].kind # "none" /\ d.meta[f].completion = "none"
      /\ \A g \in Frames \ {f} : d.meta[g] = c.meta[g]
  BY DEF Good, Contexts, FrameMeta, Register, SetMeta
<1>2. n[f] = 0
  BY DEF Books, Counted
<1>3. Plus(n, f)[f] = 1 /\ \A g \in Frames \ {f} : Plus(n, f)[g] = n[g]
  BY <1>2 DEF Plus
<1>. HIDE DEF d
<1>4. \A g \in Frames \ {f} : /\ Registered(d, g) <=> Registered(c, g)
                              /\ Completed(d, g) <=> Completed(c, g)
                              /\ d.meta[g].count = c.meta[g].count
  BY Zenon, <1>1 DEF Registered, Completed
<1>5. Registered(d, f) /\ ~Completed(d, f)
  BY <1>1 DEF Registered, Completed
<1>6. Counted(d, Plus(n, f))
  <2>. SUFFICES ASSUME NEW g \in Frames
                PROVE  /\ IF Registered(d, g) THEN d.meta[g].count >= Plus(n, f)[g]
                          ELSE Plus(n, f)[g] = 0
                       /\ Completed(d, g) => d.meta[g].count > 0
    BY DEF Counted
  <2>1. CASE g = f
    BY <1>1, <1>3, <1>5, <2>1
  <2>2. CASE g # f
    BY Zenon, <1>3, <1>4, <2>2 DEF Books, Counted
  <2>. QED BY <2>1, <2>2
<1>7. ASSUME x PROVE Exact(d, Plus(n, f))
  <2>. SUFFICES ASSUME NEW g \in Frames, Registered(d, g)
                PROVE  d.meta[g].count = Plus(n, f)[g]
    BY DEF Exact
  <2>1. CASE g = f
    BY <1>1, <1>3, <2>1
  <2>2. CASE g # f
    BY Zenon, <1>3, <1>4, <1>7, <2>2 DEF Books, Exact
  <2>. QED BY <2>1, <2>2
<1>. QED BY <1>2, <1>6, <1>7 DEF Books, d

\* A holder may go without its count: the word still covers the others.
LEMMA LessBooks ==
  ASSUME NEW c, Good(c), NEW n \in [Frames -> Nat], NEW x, Books(c, n, x),
         NEW o \in [Frames -> Nat], \A f \in Frames : o[f] <= n[f]
  PROVE  Books(c, o, FALSE)
<1>1. \A f \in Frames : c.meta[f].count \in Nat /\ o[f] \in Nat /\ n[f] \in Nat
  BY DEF Good, Contexts, FrameMeta
<1>. QED BY <1>1 DEF Books, Counted

-----------------------------------------------------------------------------
(* The holders. *)

\* Only finitely many frames can await.
LEMMA AwaitersFinite ==
  ASSUME NEW c, NEW s, NEW sl, NEW st, NEW f
  PROVE  /\ IsFiniteSet(Awaiters(c, s, sl, st, f))
         /\ Cardinality(Awaiters(c, s, sl, st, f)) \in Nat
         /\ (\E g \in Frames : AwaitsIn(c, s, sl, st, g, f))
              => Cardinality(Awaiters(c, s, sl, st, f)) > 0
<1> DEFINE A == Awaiters(c, s, sl, st, f)
<1>1. A \in SUBSET Frames
  BY DEF Awaiters
<1>2. IsFiniteSet(A)
  BY <1>1, FramesFinite, FS_Subset
<1>3. Cardinality(A) \in Nat
  BY <1>2, FS_CardinalityType
<1>4. (\E g \in Frames : AwaitsIn(c, s, sl, st, g, f)) => A # {}
  BY DEF Awaiters
<1>. HIDE DEF A
<1>5. A # {} => Cardinality(A) # 0
  BY <1>2, FS_EmptySet
<1>. QED BY <1>2, <1>3, <1>4, <1>5 DEF A

\* The number of holders is a natural number, per frame.
LEMMA NeedType ==
  ASSUME NEW c, NEW s, NEW he \in [Frames -> Nat], NEW sl, NEW st
  PROVE  /\ Need(c, s, he, sl, st) \in [Frames -> Nat]
         /\ \A f \in Frames : Need(c, s, he, sl, st)[f] =
              he[f] + Live(c, f) + Cardinality(Awaiters(c, s, sl, st, f))
<1>1. \A f \in Frames : he[f] \in Nat /\ Live(c, f) \in Nat
                        /\ Cardinality(Awaiters(c, s, sl, st, f)) \in Nat
  BY AwaitersFinite DEF Live
<1>. QED BY <1>1 DEF Need

\* One frame f moves: only its own await can come or go.
LEMMA AwaitersStep ==
  ASSUME NEW c, NEW s, NEW sl, NEW st, NEW d, NEW t, NEW sm, NEW su, NEW f \in Frames,
         \A g \in Frames \ {f} :
           /\ sm[g] = sl[g] /\ su[g] = st[g] /\ (On(t, g) <=> On(s, g))
           /\ Unfinished(d, g) <=> Unfinished(c, g),
         NEW x
  PROVE  Cardinality(Awaiters(d, t, sm, su, x)) =
           Cardinality(Awaiters(c, s, sl, st, x))
             + (IF AwaitsIn(d, t, sm, su, f, x) THEN 1 ELSE 0)
             - (IF AwaitsIn(c, s, sl, st, f, x) THEN 1 ELSE 0)
<1> DEFINE A == Awaiters(c, s, sl, st, x)
           B == Awaiters(d, t, sm, su, x)
<1>1. \A g \in Frames \ {f} : AwaitsIn(d, t, sm, su, g, x) <=> AwaitsIn(c, s, sl, st, g, x)
  BY Zenon DEF AwaitsIn
<1>2. /\ \A g : g \in A <=> g \in Frames /\ AwaitsIn(c, s, sl, st, g, x)
      /\ \A g : g \in B <=> g \in Frames /\ AwaitsIn(d, t, sm, su, g, x)
  BY DEF Awaiters
<1>3. IsFiniteSet(A) /\ Cardinality(A) \in Nat
  BY AwaitersFinite
<1>. HIDE DEF A, B
<1>4. CASE AwaitsIn(d, t, sm, su, f, x) /\ AwaitsIn(c, s, sl, st, f, x)
  <2>1. B = A
    BY <1>1, <1>2, <1>4
  <2>. QED BY <1>3, <1>4, <2>1 DEF A, B
<1>5. CASE ~AwaitsIn(d, t, sm, su, f, x) /\ ~AwaitsIn(c, s, sl, st, f, x)
  <2>1. B = A
    BY <1>1, <1>2, <1>5
  <2>. QED BY <1>3, <1>5, <2>1 DEF A, B
<1>6. CASE AwaitsIn(d, t, sm, su, f, x) /\ ~AwaitsIn(c, s, sl, st, f, x)
  <2>1. B = A \cup {f} /\ f \notin A
    BY <1>1, <1>2, <1>6
  <2>2. Cardinality(B) = Cardinality(A) + 1
    BY <1>3, <2>1, FS_AddElement
  <2>. QED BY <1>3, <1>6, <2>2 DEF A, B
<1>7. CASE ~AwaitsIn(d, t, sm, su, f, x) /\ AwaitsIn(c, s, sl, st, f, x)
  <2>1. B = A \ {f} /\ f \in A
    BY <1>1, <1>2, <1>7
  <2>2. Cardinality(B) = Cardinality(A) - 1
    BY Zenon, <1>3, <2>1, FS_RemoveElement
  <2>. QED BY <1>3, <1>7, <2>2 DEF A, B
<1>. QED BY <1>4, <1>5, <1>6, <1>7

\* The holders after one frame moved.
LEMMA NeedStep ==
  ASSUME NEW c, NEW s, NEW he \in [Frames -> Nat], NEW sl, NEW st,
         NEW d, NEW t, NEW hf \in [Frames -> Nat], NEW sm, NEW su, NEW f \in Frames,
         Apart(f, c, s, sl, st, d, t, sm, su)
  PROVE  Shifts(Need(d, t, hf, sm, su), Need(c, s, he, sl, st), he, hf,
                f, c, s, sl, st, d, t, sm, su)
<1>. SUFFICES ASSUME NEW x \in Frames
              PROVE  Need(d, t, hf, sm, su)[x] =
                       Need(c, s, he, sl, st)[x] + (hf[x] - he[x])
                         + (IF x = f THEN Live(d, f) - Live(c, f) ELSE 0)
                         + (IF AwaitsIn(d, t, sm, su, f, x) THEN 1 ELSE 0)
                         - (IF AwaitsIn(c, s, sl, st, f, x) THEN 1 ELSE 0)
  BY Zenon DEF Shifts
<1> DEFINE A == Cardinality(Awaiters(c, s, sl, st, x))
           B == Cardinality(Awaiters(d, t, sm, su, x))
<1>1. B = A + (IF AwaitsIn(d, t, sm, su, f, x) THEN 1 ELSE 0)
            - (IF AwaitsIn(c, s, sl, st, f, x) THEN 1 ELSE 0)
  BY AwaitersStep DEF Apart
<1>2. A \in Nat /\ B \in Nat
  BY AwaitersFinite
<1>3. /\ Need(d, t, hf, sm, su)[x] = hf[x] + Live(d, x) + B
      /\ Need(c, s, he, sl, st)[x] = he[x] + Live(c, x) + A
  BY NeedType
<1>4. x # f => Live(d, x) = Live(c, x)
  BY DEF Live, Apart
<1>5. Live(d, x) \in Nat /\ Live(c, x) \in Nat /\ he[x] \in Nat /\ hf[x] \in Nat
  BY DEF Live
<1>. HIDE DEF A, B
<1>. QED BY <1>1, <1>2, <1>3, <1>4, <1>5

\* The holders when no frame moves.
LEMMA NeedSame ==
  ASSUME NEW c, NEW s, NEW he \in [Frames -> Nat], NEW sl, NEW st,
         NEW d, NEW t, NEW hf \in [Frames -> Nat], NEW sm, NEW su,
         Still(c, s, sl, st, d, t, sm, su)
  PROVE  Gains(Need(d, t, hf, sm, su), Need(c, s, he, sl, st), he, hf)
<1>. SUFFICES ASSUME NEW x \in Frames
              PROVE  Need(d, t, hf, sm, su)[x] = Need(c, s, he, sl, st)[x] + (hf[x] - he[x])
  BY DEF Gains
<1>1. \A g \in Frames : AwaitsIn(d, t, sm, su, g, x) <=> AwaitsIn(c, s, sl, st, g, x)
  BY Zenon DEF AwaitsIn, Still
<1>2. Awaiters(d, t, sm, su, x) = Awaiters(c, s, sl, st, x)
  BY <1>1 DEF Awaiters
<1>a. /\ Need(d, t, hf, sm, su)[x] = hf[x] + Live(d, x) + Cardinality(Awaiters(d, t, sm, su, x))
      /\ Need(c, s, he, sl, st)[x] = he[x] + Live(c, x) + Cardinality(Awaiters(c, s, sl, st, x))
  BY NeedType
<1>3. /\ Need(d, t, hf, sm, su)[x] = hf[x] + Live(d, x) + Cardinality(Awaiters(c, s, sl, st, x))
      /\ Need(c, s, he, sl, st)[x] = he[x] + Live(c, x) + Cardinality(Awaiters(c, s, sl, st, x))
  BY Zenon, <1>2, <1>a
<1>4. Cardinality(Awaiters(c, s, sl, st, x)) \in Nat
  BY AwaitersFinite
<1>5. Live(d, x) = Live(c, x) /\ Live(c, x) \in Nat /\ he[x] \in Nat /\ hf[x] \in Nat
  BY DEF Live, Still
<1>. QED BY <1>3, <1>4, <1>5

\* The books depend on the number of holders of each frame.
LEMMA BooksPointwise ==
  ASSUME NEW c, NEW n, NEW o, NEW x, NEW y, Books(c, n, x), y => x,
         \A f \in Frames : o[f] = n[f]
  PROVE  Books(c, o, y)
BY Zenon DEF Books, Counted, Exact

\* Steady composes.
LEMMA SteadyTrans ==
  ASSUME NEW c, NEW d, NEW e, NEW f, Steady(c, d, f), Steady(d, e, f)
  PROVE  Steady(c, e, f)
BY DEF Steady

\* A step that moves no frame is steady.
LEMMA SteadyTame ==
  ASSUME NEW c, NEW d, NEW f, Tame(c, d)
  PROVE  Steady(c, d, f)
BY Zenon DEF Steady, Tame, Alike

\* What was disturbed stays so.
LEMMA UndisturbedTame ==
  ASSUME NEW c, NEW d, Tame(c, d), Undisturbed(d)
  PROVE  Undisturbed(c)
BY DEF Tame, Alike, Undisturbed, Unfinished

\* So it does when one frame, neither stopped nor stale, takes a step.
LEMMA UndisturbedSteady ==
  ASSUME NEW c, NEW d, NEW f \in Frames, Steady(c, d, f), c.stopped \subseteq Frames,
         f \notin c.stopped, ~c.meta[f].stale, Undisturbed(d)
  PROVE  Undisturbed(c)
<1>1. c.stopped = {}
  BY DEF Steady, Undisturbed
<1>2. ASSUME NEW g \in Frames PROVE ~(Unfinished(c, g) /\ c.meta[g].stale)
  <2>1. CASE g = f
    BY <2>1
  <2>2. CASE g # f
    BY <2>2 DEF Steady, Undisturbed, Unfinished
  <2>. QED BY <2>1, <2>2
<1>. QED BY <1>1, <1>2 DEF Undisturbed

\* An activation of f ends (ReturnTo, Await): if the count words follow what
\* script gains, what f holds of itself and what its await holds, they are in
\* balance again.
LEMMA PopBalance ==
  ASSUME NEW c, NEW s, NEW p, NEW f, Pops(s, p, f), NEW sl, NEW st, NEW di,
         Rest(c, s, sl, st, di), NEW he \in [Frames -> Nat], NEW hf \in [Frames -> Nat],
         NEW d, Steady(c, d, f), NEW sm, NEW su, Off(f, sl, st, sm, su),
         NEW n, NEW y, Books(d, n, y), Undisturbed(d) => y,
         Settles(n, Need(c, s, he, sl, st), he, hf, d, sm, su, f)
  PROVE  Balance(d, p, hf, sm, su)
<1>0. f \in Frames
  BY DEF Pops
<1>1. Lifted(c, s, p, f)
  BY Zenon, LiftRest
<1>2. Live(c, f) = 1
  <2>1. Place(c, s, f) /\ On(s, f)
    BY <1>0, <1>1 DEF Lifted, Rest, Placed
  <2>2. Unfinished(c, f) /\ f \notin c.stopped
    BY Zenon, <2>1 DEF Place, OneOf
  <2>. QED BY <2>2 DEF Live
<1>3. ASSUME NEW x \in Frames PROVE Need(d, p, hf, sm, su)[x] = n[x]
  <2>1. Apart(f, c, s, sl, st, d, p, sm, su)
    BY <1>1 DEF Apart, Off, Lifted, Steady
  <2>0. Shifts(Need(d, p, hf, sm, su), Need(c, s, he, sl, st), he, hf,
               f, c, s, sl, st, d, p, sm, su)
    BY <1>0, <2>1, NeedStep
  <2>2. Need(d, p, hf, sm, su)[x] =
           Need(c, s, he, sl, st)[x] + (hf[x] - he[x])
             + (IF x = f THEN Live(d, f) - Live(c, f) ELSE 0)
             + (IF AwaitsIn(d, p, sm, su, f, x) THEN 1 ELSE 0)
             - (IF AwaitsIn(c, s, sl, st, f, x) THEN 1 ELSE 0)
    BY Zenon, <2>0 DEF Shifts
  <2>3. /\ ~AwaitsIn(c, s, sl, st, f, x)
        /\ AwaitsIn(d, p, sm, su, f, x) <=> Unfinished(d, f) /\ su[f] = "await" /\ sm[f] = x
    BY <1>1 DEF AwaitsIn, Lifted
  <2>4. Need(c, s, he, sl, st)[x] \in Nat /\ Live(d, f) \in Nat /\ hf[x] \in Nat /\ he[x] \in Nat
    BY NeedType DEF Live
  <2>5. n[x] = Need(c, s, he, sl, st)[x] + (hf[x] - he[x])
               + (IF x = f THEN Live(d, f) - 1 ELSE 0)
               + (IF Unfinished(d, f) /\ su[f] = "await" /\ sm[f] = x THEN 1 ELSE 0)
    BY Zenon DEF Settles
  <2>. QED BY <1>2, <2>2, <2>3, <2>4, <2>5
<1>. QED BY Zenon, <1>3, BooksPointwise DEF Balance

\* No frame moves.
LEMMA TameBalance ==
  ASSUME NEW c, NEW d, Tame(c, d), NEW s, NEW sl, NEW sm, NEW st,
         \A g \in Frames : sm[g] = sl[g] \/ On(s, g),
         NEW he \in [Frames -> Nat], NEW hf \in [Frames -> Nat],
         NEW n, Books(d, n, Undisturbed(c)), Gains(n, Need(c, s, he, sl, st), he, hf)
  PROVE  Balance(d, s, hf, sm, st)
<1>1. Still(c, s, sl, st, d, s, sm, st)
  BY Zenon DEF Still, Tame, Alike
<1>2. Gains(Need(d, s, hf, sm, st), Need(c, s, he, sl, st), he, hf)
  BY <1>1, NeedSame
<1>3. \A x \in Frames : Need(d, s, hf, sm, st)[x] = n[x]
  BY <1>2 DEF Gains
<1>4. Undisturbed(d) => Undisturbed(c)
  BY UndisturbedTame
<1>. QED BY Zenon, <1>3, <1>4, BooksPointwise DEF Balance

\* Neither a holder nor a count changes.
LEMMA SameBalance ==
  ASSUME NEW c, NEW s, NEW he \in [Frames -> Nat], NEW sl, NEW st, Balance(c, s, he, sl, st),
         NEW d, NEW t, Still(c, s, sl, st, d, t, sl, st), SameCounts(c, d),
         Undisturbed(d) => Undisturbed(c)
  PROVE  Balance(d, t, he, sl, st)
<1> DEFINE n == Need(c, s, he, sl, st)
           o == Need(d, t, he, sl, st)
           x == Undisturbed(c)
           y == Undisturbed(d)
<1>1. Books(c, n, x)
  BY DEF Balance
<1>2. Gains(o, n, he, he)
  BY NeedSame
<1>3. n \in [Frames -> Nat]
  BY NeedType
<1>. HIDE DEF n, o, x, y
<1>4. Books(d, n, x)
  BY <1>1, SameBooks DEF SameCounts
<1>5. \A f \in Frames : o[f] = n[f]
  BY <1>2, <1>3 DEF Gains
<1>6. y => x
  BY DEF x, y
<1>7. Books(d, o, y)
  BY <1>4, <1>5, <1>6, BooksPointwise
<1>. QED BY <1>7 DEF o, y, Balance

\* An export is called or returns.
LEMMA NoFrameOwned ==
  ASSUME NEW c, NEW s, NEW t, SameFrames(s, t), NEW sl, NEW st, NEW di, Rest(c, s, sl, st, di),
         NEW he \in [Frames -> Nat], Balance(c, s, he, sl, st)
  PROVE  Rest(c, t, sl, st, di) /\ Balance(c, t, he, sl, st)
<1>1. Rest(c, t, sl, st, di)
  BY NoFrameRest DEF SameFrames
<1>2. Still(c, s, sl, st, c, t, sl, st) /\ SameCounts(c, c)
  BY DEF Still, SameFrames, SameCounts
<1>. QED BY <1>1, <1>2, SameBalance

\* The creator registers a frame and its prefix begins.
LEMMA StartOwned ==
  ASSUME NEW c, Good(c), NEW s \in Seq(Activation), NEW sl, NEW st, NEW di,
         Rest(c, s, sl, st, di), NEW he \in [Frames -> Nat], Balance(c, s, he, sl, st),
         NEW f \in Frames, ~Registered(c, f), NEW m \in FrameMeta, m.kind # "none",
         m.completion = "none", m.waiters = <<>>, ~m.stale,
         NEW a \in Activation, a.frame = f, a.via # "drain", NEW su, Off(f, sl, st, sl, su)
  PROVE  /\ Rest(Register(c, f, m), Append(s, a), sl, su, di)
         /\ Balance(Register(c, f, m), Append(s, a), he, sl, su)
<1> DEFINE n == Need(c, s, he, sl, st)
           d == Register(c, f, m)
           t == Append(s, a)
           o == Need(d, t, he, sl, su)
<1>1. c \in Contexts /\ Books(c, n, Undisturbed(c)) /\ n \in [Frames -> Nat]
  BY NeedType DEF Good, Balance
<1>2. Books(d, Plus(n, f), Undisturbed(c)) /\ n[f] = 0
  <2>. HIDE DEF n
  <2>. QED BY <1>1, RegisterBooks
<1>3. \A g \in Frames : ~AwaitsIn(c, s, sl, st, g, f)
  <2>1. /\ n[f] = he[f] + Live(c, f) + Cardinality(Awaiters(c, s, sl, st, f))
        /\ Cardinality(Awaiters(c, s, sl, st, f)) \in Nat /\ he[f] \in Nat /\ Live(c, f) \in Nat
    <3>1. n[f] = he[f] + Live(c, f) + Cardinality(Awaiters(c, s, sl, st, f))
      BY NeedType
    <3>2. Cardinality(Awaiters(c, s, sl, st, f)) \in Nat
      BY AwaitersFinite
    <3>. QED BY <3>1, <3>2 DEF Live
  <2>2. Cardinality(Awaiters(c, s, sl, st, f)) = 0
    <3>. HIDE DEF n
    <3>. QED BY <1>2, <2>1
  <2>. QED BY <2>2, AwaitersFinite
<1>4. Rest(d, t, sl, su, di)
  BY <1>1, <1>3, StartRest
<1>5. \A g \in Frames : On(t, g) <=> On(s, g) \/ g = f
  BY StackPush
<1>6. d.stopped = c.stopped /\ d.meta = [c.meta EXCEPT ![f] = [m EXCEPT !.count = 1]]
  BY <1>1 DEF Register, SetMeta, Contexts
<1>7. \A g \in Frames \ {f} : d.meta[g] = c.meta[g]
  BY <1>1, <1>6 DEF Contexts
<1>8. Unfinished(d, f) /\ ~d.meta[f].stale
  BY <1>1, <1>6 DEF Contexts, Unfinished, Registered, FrameMeta
<1>. HIDE DEF d, t
<1>9. Apart(f, c, s, sl, st, d, t, sl, su)
  BY <1>5, <1>6, <1>7 DEF Apart, Off, Unfinished, Registered
<1>10. Live(c, f) = 0 /\ Live(d, f) = 1
  <2>1. Place(c, s, f)
    BY DEF Rest, Placed
  <2>2. f \notin c.stopped
    BY Zenon, <2>1 DEF Place, OneOf, Unfinished
  <2>. QED BY <1>6, <1>8, <2>2 DEF Live, Unfinished
<1>11. Shifts(o, n, he, he, f, c, s, sl, st, d, t, sl, su)
  BY <1>9, NeedStep
<1>12. \A x \in Frames : ~AwaitsIn(d, t, sl, su, f, x) /\ ~AwaitsIn(c, s, sl, st, f, x)
  BY <1>5 DEF AwaitsIn, Unfinished
<1>13. \A x \in Frames : o[x] = Plus(n, f)[x]
  <2>. HIDE DEF o, n
  <2>. QED BY <1>1, <1>10, <1>11, <1>12 DEF Shifts, Plus
<1>14. Undisturbed(d) => Undisturbed(c)
  <2>. SUFFICES ASSUME Undisturbed(d), NEW g \in Frames, Unfinished(c, g), c.meta[g].stale
                PROVE  FALSE
    BY <1>6 DEF Undisturbed
  <2>1. g # f
    BY DEF Unfinished
  <2>. QED BY <1>7, <2>1 DEF Undisturbed, Unfinished, Registered
<1>. HIDE DEF o, n
<1>15. Books(d, o, Undisturbed(d))
  BY <1>2, <1>13, <1>14, BooksPointwise
<1>. QED BY <1>4, <1>15 DEF Balance, d, o, t

\* Frames lose holders, and nothing promises that no count leaks.
LEMMA LessBalance ==
  ASSUME NEW c, Good(c), NEW s, NEW he \in [Frames -> Nat], NEW sl, NEW st,
         Balance(c, s, he, sl, st), NEW d, NEW t, NEW sm, SameCounts(c, d),
         ~Undisturbed(d),
         \A x \in Frames : Need(d, t, he, sm, st)[x] <= Need(c, s, he, sl, st)[x]
  PROVE  Balance(d, t, he, sm, st)
<1> DEFINE n == Need(c, s, he, sl, st)
           o == Need(d, t, he, sm, st)
           x == Undisturbed(c)
<1>1. Books(c, n, x) /\ n \in [Frames -> Nat] /\ o \in [Frames -> Nat]
  BY NeedType DEF Balance
<1>2. \A f \in Frames : o[f] <= n[f]
  OBVIOUS
<1>. HIDE DEF n, o, x
<1>3. Books(c, o, FALSE)
  BY Zenon, <1>1, <1>2, LessBooks
<1>4. Books(d, o, FALSE)
  BY Zenon, <1>3, SameBooks DEF SameCounts
<1>. QED BY <1>4 DEF Balance, Books, o

\* The host clears a trap: an interrupted frame leaves the queue for good.
LEMMA ClearOwned ==
  ASSUME NEW c, Good(c), NEW sl, NEW st, NEW di, Rest(c, <<>>, sl, st, di),
         NEW he \in [Frames -> Nat], Balance(c, <<>>, he, sl, st), NEW e, Trapping(c, e)
  PROVE  /\ Rest(ClearTrap(c), <<>>, sl, st, di) /\ Balance(ClearTrap(c), <<>>, he, sl, st)
         /\ ClearTrap(c).trapping = NoJob
<1> DEFINE d == ClearTrap(c)
<1>0. c \in Contexts /\ d \in Contexts /\ d.meta = c.meta
  BY ClearTrapType, ClearTrapInvocations DEF Good
<1>1. /\ d.parked = c.parked /\ d.trapping = NoJob
      /\ \/ d.ready = c.ready /\ d.stopped = c.stopped
         \/ \E f \in Frames : /\ c.ready # <<>> /\ Head(c.ready) = Invocation(f)
                              /\ d.ready = Tail(c.ready) /\ d.stopped = c.stopped \cup {f}
  BY Zenon, RestSettled, ClearFields
<1>2. CASE d.ready = c.ready /\ d.stopped = c.stopped
  <2>1. SameFields(c, d) /\ d.trapping = NoJob
    BY <1>0, <1>1, <1>2 DEF SameFields
  <2>. HIDE DEF d
  <2>2. Rest(d, <<>>, sl, st, di)
    BY <2>1, SameRest
  <2>3. Still(c, <<>>, sl, st, d, <<>>, sl, st) /\ SameCounts(c, d)
    BY <2>1 DEF Still, SameCounts, SameFields, Unfinished, Registered
  <2>4. Undisturbed(d) => Undisturbed(c)
    BY <2>1 DEF Undisturbed, SameFields, Unfinished, Registered
  <2>5. Balance(d, <<>>, he, sl, st)
    BY <2>3, <2>4, SameBalance
  <2>. QED BY <2>1, <2>2, <2>5 DEF d
<1>3. ASSUME NEW f \in Frames, c.ready # <<>>, Head(c.ready) = Invocation(f),
             d.ready = Tail(c.ready), d.stopped = c.stopped \cup {f}
      PROVE  /\ Rest(d, <<>>, sl, st, di) /\ Balance(d, <<>>, he, sl, st)
             /\ d.trapping = NoJob
  <2>1. /\ d.parked = c.parked /\ d.stopped = c.stopped \cup {f} /\ d.ready = Tail(c.ready)
        /\ d.trapping = NoJob
    BY <1>1, <1>3
  <2>. HIDE DEF d
  <2>2. Rest(d, <<>>, sl, st, di)
    BY <1>0, <1>3, <2>1, StopHeadRest
  <2>3. Apart(f, c, <<>>, sl, st, d, <<>>, sl, st) /\ SameCounts(c, d)
    BY <1>0, <2>1 DEF Apart, SameCounts, Unfinished, Registered
  <2>4. Shifts(Need(d, <<>>, he, sl, st), Need(c, <<>>, he, sl, st), he, he,
               f, c, <<>>, sl, st, d, <<>>, sl, st)
    BY <2>3, NeedStep
  <2>5. \A x \in Frames : AwaitsIn(d, <<>>, sl, st, f, x) <=> AwaitsIn(c, <<>>, sl, st, f, x)
    BY <1>0 DEF AwaitsIn, Unfinished, Registered
  <2>6. Live(d, f) = 0 /\ Live(c, f) \in Nat
    BY <2>1 DEF Live
  <2>7. \A x \in Frames : Need(d, <<>>, he, sl, st)[x] <= Need(c, <<>>, he, sl, st)[x]
    <3> DEFINE n == Need(c, <<>>, he, sl, st)
               o == Need(d, <<>>, he, sl, st)
    <3>1. n \in [Frames -> Nat] /\ o \in [Frames -> Nat]
      BY NeedType
    <3>2. Shifts(o, n, he, he, f, c, <<>>, sl, st, d, <<>>, sl, st)
      BY <2>4
    <3>. HIDE DEF n, o
    <3>3. ASSUME NEW x \in Frames PROVE o[x] <= n[x]
      <4>1. o[x] = n[x] + (he[x] - he[x])
                   + (IF x = f THEN Live(d, f) - Live(c, f) ELSE 0)
                   + (IF AwaitsIn(d, <<>>, sl, st, f, x) THEN 1 ELSE 0)
                   - (IF AwaitsIn(c, <<>>, sl, st, f, x) THEN 1 ELSE 0)
        BY Zenon, <3>2 DEF Shifts
      <4>2. AwaitsIn(d, <<>>, sl, st, f, x) <=> AwaitsIn(c, <<>>, sl, st, f, x)
        BY <2>5
      <4>3. he[x] \in Nat /\ n[x] \in Nat
        BY <3>1
      <4>. QED BY <2>6, <4>1, <4>2, <4>3
    <3>. QED BY <3>3 DEF n, o
  <2>8. ~Undisturbed(d)
    BY <2>1 DEF Undisturbed
  <2>9. Balance(d, <<>>, he, sl, st)
    BY <2>3, <2>7, <2>8, LessBalance
  <2>. QED BY <2>1, <2>2, <2>9
<1>. QED BY <1>1, <1>2, <1>3

-----------------------------------------------------------------------------
(* The steps in which holders come and go. *)

\* The types that the steps use.
LEMMA OwnTypes ==
  ASSUME OwnInv
  PROVE  /\ Good(ctx) /\ ctx \in Contexts /\ stack \in Seq(Activation)
         /\ held \in [Frames -> Nat] /\ Owes \in [Frames -> Nat]
         /\ Books(ctx, Owes, Undisturbed(ctx))
         /\ slot \in [Frames -> Frames \cup {None}]
         /\ state \in [Frames -> {"start", "suspend", "await"}]
         /\ stack # <<>> => ctx.trapping = NoJob
         /\ Settled(ctx, stack)
<1>1. TypeInv /\ Framed /\ Owned
  BY DEF OwnInv, ExceptionInv
<1>2. /\ Good(ctx) /\ ctx \in Contexts /\ stack \in Seq(Activation)
      /\ held \in [Frames -> Nat]
      /\ slot \in [Frames -> Frames \cup {None}]
      /\ state \in [Frames -> {"start", "suspend", "await"}]
  BY <1>1 DEF TypeInv, TypeOK
<1>3. stack # <<>> => ctx.trapping = NoJob
  BY <1>1 DEF Framed, Owned, Trapping
<1>4. Settled(ctx, stack)
  BY <1>1, RestSettled DEF Owned
<1>. QED BY Zenon, <1>1, <1>2, <1>3, <1>4, NeedType DEF Owned, Balance, Owes

\* A step in which no frame moves.
LEMMA TameStep ==
  ASSUME OwnInv, stack # <<>>, Tame(ctx, ctx'), UNCHANGED <<stack, entry, state, dirty>>,
         held' \in [Frames -> Nat], \A g \in Frames : slot'[g] = slot[g] \/ On(stack, g),
         NEW n, Books(ctx', n, Undisturbed(ctx)),
         Gains(n, Owes, held, held')
  PROVE  Owned' /\ Flows
<1> DEFINE c == ctx
           d == ctx'
           sm == slot'
           hf == held'
<1>1. /\ held \in [Frames -> Nat] /\ hf \in [Frames -> Nat] /\ c.trapping = NoJob
      /\ Rest(c, stack, slot, state, dirty) /\ Tame(c, d)
  BY OwnTypes DEF OwnInv, Owned
<1>2. /\ \A g \in Frames : sm[g] = slot[g] \/ On(stack, g)
      /\ Books(d, n, Undisturbed(c))
      /\ Gains(n, Need(c, stack, held, slot, state), held, hf)
  BY DEF Owes
<1>3. Owned' <=> /\ Rest(d, stack, sm, state, dirty)
                 /\ Balance(d, stack, hf, sm, state)
                 /\ Trapping(d, entry)
  BY DEF Owned
<1>. HIDE DEF c, d, sm, hf
<1>4. Rest(d, stack, sm, state, dirty)
  BY <1>1, <1>2, RestTame
<1>5. Balance(d, stack, hf, sm, state)
  BY <1>1, <1>2, TameBalance
<1>6. Trapping(d, entry)
  BY <1>1 DEF Tame, Trapping
<1>7. Flow(c, stack, d, stack)
  BY <1>1, RestSettled, TameFlow
<1>. QED BY <1>3, <1>4, <1>5, <1>6, <1>7 DEF Flows, c, d

\* What script holds is registered.
LEMMA HeldRegistered ==
  ASSUME OwnInv, NEW h \in Frames, held[h] > 0
  PROVE  Registered(ctx, h) /\ Owes[h] > 0
<1>1. /\ held \in [Frames -> Nat] /\ Owes \in [Frames -> Nat]
      /\ Books(ctx, Owes, Undisturbed(ctx))
  BY OwnTypes
<1>2. /\ Owes[h] = held[h] + Live(ctx, h) + Cardinality(Awaiters(ctx, stack, slot, state, h))
      /\ Cardinality(Awaiters(ctx, stack, slot, state, h)) \in Nat
  BY <1>1, NeedType, AwaitersFinite DEF Owes
<1>3. Owes[h] > 0
  BY <1>1, <1>2 DEF Live
<1>. QED BY <1>1, <1>3 DEF Books, Counted

\* Holders come and go, and the word of the Context changes.
LEMMA TameActions ==
  ASSUME OwnInv, TypeOK',
         \/ \E h \in Frames : Copy(h) \/ Drop(h) \/ AwaitStale(h)
         \/ Raise \/ Catch \/ Fault
  PROVE  Owned' /\ Flows
<1>1. /\ Good(ctx) /\ ctx \in Contexts /\ held \in [Frames -> Nat] /\ Owes \in [Frames -> Nat]
      /\ Books(ctx, Owes, Undisturbed(ctx)) /\ held' \in [Frames -> Nat]
  BY OwnTypes DEF TypeOK
<1>2. ASSUME NEW h \in Frames, Copy(h) PROVE Owned' /\ Flows
  <2>1. /\ stack # <<>> /\ held[h] > 0 /\ ctx' = Retain(ctx, h)
        /\ held' = [held EXCEPT ![h] = @ + 1] /\ UNCHANGED <<stack, entry, slot, state, dirty>>
    BY <1>2 DEF Copy, Runs, scriptUnchanged
  <2>2. Tame(ctx, ctx') /\ Books(ctx', Plus(Owes, h), Undisturbed(ctx))
    BY <1>1, <2>1, HeldRegistered, RetainBooks
  <2>3. Gains(Plus(Owes, h), Owes, held, held')
    BY <1>1, <2>1 DEF Gains, Plus
  <2>4. \A g \in Frames : slot'[g] = slot[g] \/ On(stack, g)
    BY <2>1
  <2>. QED BY Zenon, <1>1, <2>1, <2>2, <2>3, <2>4, TameStep
<1>3. ASSUME NEW h \in Frames, Drop(h) PROVE Owned' /\ Flows
  <2>1. /\ stack # <<>> /\ held[h] > 0 /\ ctx' = Release(ctx, h)
        /\ held' = [held EXCEPT ![h] = @ - 1] /\ UNCHANGED <<stack, entry, slot, state, dirty>>
    BY <1>3 DEF Drop, scriptUnchanged
  <2>2. Tame(ctx, ctx') /\ Books(ctx', Minus(Owes, h), Undisturbed(ctx))
    BY <1>1, <2>1, HeldRegistered, ReleaseBooks
  <2>3. Gains(Minus(Owes, h), Owes, held, held')
    BY <1>1, <2>1 DEF Gains, Minus
  <2>4. \A g \in Frames : slot'[g] = slot[g] \/ On(stack, g)
    BY <2>1
  <2>. QED BY Zenon, <1>1, <2>1, <2>2, <2>3, <2>4, TameStep
<1>4. ASSUME stack # <<>>, ctx'.meta = ctx.meta, ctx'.ready = ctx.ready,
             ctx'.parked = ctx.parked, ctx'.stopped = ctx.stopped, ctx'.trapping = ctx.trapping,
             UNCHANGED <<stack, entry, state, dirty, held>>,
             \A g \in Frames : slot'[g] = slot[g] \/ On(stack, g)
      PROVE  Owned' /\ Flows
  <2>1. Tame(ctx, ctx') /\ Books(ctx', Owes, Undisturbed(ctx))
    <3> DEFINE d == ctx'
               y == Undisturbed(ctx)
               n == Owes
    <3>1. /\ d.meta = ctx.meta /\ d.ready = ctx.ready /\ d.parked = ctx.parked
          /\ d.stopped = ctx.stopped /\ d.trapping = ctx.trapping /\ Books(ctx, n, y)
      BY <1>1, <1>4
    <3>. HIDE DEF d, y, n
    <3>2. Tame(ctx, d) /\ Books(d, n, y)
      BY <1>1, <3>1, TameTraps
    <3>. QED BY <3>2 DEF d, y, n
  <2>2. Gains(Owes, Owes, held, held')
    BY <1>1, <1>4 DEF Gains
  <2>. QED BY <1>1, <1>4, <2>1, <2>2, TameStep
<1>5. ASSUME NEW h \in Frames, AwaitStale(h) PROVE Owned' /\ Flows
  <2>1. /\ stack # <<>> /\ ctx' = Trap(ctx, "StaleCoroutine") /\ Top.frame # None
        /\ slot' = [slot EXCEPT ![Top.frame] = h]
        /\ UNCHANGED <<stack, entry, state, dirty, held>>
    BY <1>5 DEF AwaitStale, RunsFrame, Runs
  <2>2. /\ ctx'.meta = ctx.meta /\ ctx'.ready = ctx.ready
        /\ ctx'.parked = ctx.parked /\ ctx'.stopped = ctx.stopped /\ ctx'.trapping = ctx.trapping
    BY <1>1, <2>1, TrapFields
  <2>3. On(stack, Top.frame)
    BY <2>1, OwnTypes, StackPop DEF Top
  <2>4. \A g \in Frames : slot'[g] = slot[g] \/ On(stack, g)
    BY <2>1, <2>3, OwnTypes
  <2>. QED BY <1>4, <2>1, <2>2, <2>4
<1>6. CASE Raise \/ Catch \/ Fault
  <2>1. /\ stack # <<>> /\ UNCHANGED <<stack, entry, slot, state, dirty, held>>
        /\ ctx' \in {RaiseException(ctx), [ctx EXCEPT !.word = "clear"], Trap(ctx, "Fault")}
    BY <1>6 DEF Raise, Catch, Fault, Runs, scriptUnchanged
  <2>2. /\ ctx'.meta = ctx.meta /\ ctx'.ready = ctx.ready
        /\ ctx'.parked = ctx.parked /\ ctx'.stopped = ctx.stopped /\ ctx'.trapping = ctx.trapping
    BY Zenon, <1>1, <2>1 DEF Trap, RaiseException, Contexts
  <2>3. \A g \in Frames : slot'[g] = slot[g] \/ On(stack, g)
    BY <2>1
  <2>. QED BY <1>4, <2>1, <2>2, <2>3
<1>. QED BY <1>2, <1>3, <1>5, <1>6

=============================================================================
