------------------------- MODULE AsyncPlacesProofs --------------------------
(***************************************************************************)
(* Where a frame is: what the lists, the stack and the functions of the    *)
(* runtime do to the places of the frames, for one Context value at a time,*)
(* and the moves of one frame between its places.  Each move keeps every   *)
(* frame in one place (Rest), and takes the frames that do not run only    *)
(* along the edges of TaskLifecycle (Flow).                                *)
(***************************************************************************)
EXTENDS AsyncSchedulerProofs

-----------------------------------------------------------------------------
(* Lists. *)

\* Adding at the tail.
LEMMA ListAppend ==
  ASSUME NEW S, NEW q \in Seq(S), NEW y \in S, NEW x
  PROVE  /\ Has(Append(q, y), x) <=> Has(q, x) \/ x = y
         /\ Single(q, x) /\ (x = y => ~Has(q, x)) => Single(Append(q, y), x)
<1> DEFINE a == Append(q, y)
<1>1. /\ Len(a) = Len(q) + 1 /\ Len(q) \in Nat /\ a[Len(q) + 1] = y
      /\ \A i \in 1 .. Len(q) : a[i] = q[i]
  OBVIOUS
<1>2. \A i \in 1 .. Len(a) : i \in 1 .. Len(q) \/ i = Len(q) + 1
  BY <1>1
<1>3. \A i \in 1 .. Len(q) : i \in 1 .. Len(a)
  BY <1>1
<1>4. Len(q) + 1 \in 1 .. Len(a)
  BY <1>1
<1>. HIDE DEF a
<1>5. Has(a, x) <=> Has(q, x) \/ x = y
  BY Zenon, <1>1, <1>2, <1>3, <1>4 DEF Has
<1>6. ASSUME Single(q, x), x = y => ~Has(q, x) PROVE Single(a, x)
  BY Zenon, <1>1, <1>2, <1>6 DEF Has, Single
<1>. QED BY <1>5, <1>6 DEF a

\* Joining two lists.
LEMMA ListConcat ==
  ASSUME NEW S, NEW q \in Seq(S), NEW r \in Seq(S), NEW x
  PROVE  /\ Has(q \o r, x) <=> Has(q, x) \/ Has(r, x)
         /\ Single(q, x) /\ Single(r, x) /\ ~(Has(q, x) /\ Has(r, x)) => Single(q \o r, x)
<1> DEFINE a == q \o r
<1>1. /\ Len(a) = Len(q) + Len(r) /\ Len(q) \in Nat /\ Len(r) \in Nat
      /\ \A i \in 1 .. Len(q) : a[i] = q[i]
      /\ \A i \in 1 .. Len(r) : a[Len(q) + i] = r[i]
  OBVIOUS
<1>. HIDE DEF a
<1>2. \A i \in 1 .. Len(a) : \/ i \in 1 .. Len(q) /\ a[i] = q[i]
                             \/ i - Len(q) \in 1 .. Len(r) /\ a[i] = r[i - Len(q)]
  <2>1. TAKE i \in 1 .. Len(a)
  <2>2. i \in 1 .. Len(q) \/ i - Len(q) \in 1 .. Len(r)
    BY <1>1
  <2>3. i - Len(q) \in 1 .. Len(r) => a[Len(q) + (i - Len(q))] = r[i - Len(q)]
    BY Zenon, <1>1
  <2>4. Len(q) + (i - Len(q)) = i
    BY <1>1
  <2>. QED BY <1>1, <2>2, <2>3, <2>4
<1>3. \A i \in 1 .. Len(q) : i \in 1 .. Len(a)
  BY <1>1
<1>4. \A i \in 1 .. Len(r) : Len(q) + i \in 1 .. Len(a)
  BY <1>1
<1>5. Has(a, x) <=> Has(q, x) \/ Has(r, x)
  BY Zenon, <1>1, <1>2, <1>3, <1>4 DEF Has
<1>6. ASSUME Single(q, x), Single(r, x), ~(Has(q, x) /\ Has(r, x)) PROVE Single(a, x)
  <2>. SUFFICES ASSUME NEW i \in 1 .. Len(a), NEW j \in 1 .. Len(a), a[i] = x, a[j] = x
                PROVE  i = j
    BY Zenon DEF Single
  <2>1. i - Len(q) = j - Len(q) => i = j
    BY <1>1
  <2>. QED BY Zenon, <1>2, <1>6, <2>1 DEF Has, Single
<1>. QED BY <1>5, <1>6 DEF a

\* Taking the head.
LEMMA ListTail ==
  ASSUME NEW S, NEW q \in Seq(S), q # <<>>, NEW x
  PROVE  /\ Has(q, x) <=> Has(Tail(q), x) \/ x = Head(q)
         /\ Single(q, x) => Single(Tail(q), x) /\ (x = Head(q) => ~Has(Tail(q), x))
<1> DEFINE t == Tail(q)
<1>1. /\ Len(t) = Len(q) - 1 /\ Len(q) \in Nat \ {0} /\ Head(q) = q[1]
      /\ \A i \in 1 .. Len(t) : t[i] = q[i + 1] /\ i + 1 \in 1 .. Len(q)
  OBVIOUS
<1>. HIDE DEF t
<1>2. \A i \in 1 .. Len(q) : i = 1 \/ (i - 1 \in 1 .. Len(t) /\ t[i - 1] = q[i])
  <2>1. TAKE i \in 1 .. Len(q)
  <2>2. i = 1 \/ i - 1 \in 1 .. Len(t)
    BY <1>1
  <2>3. (i - 1) + 1 = i
    OBVIOUS
  <2>. QED BY <1>1, <2>2, <2>3
<1>3. 1 \in 1 .. Len(q)
  BY <1>1
<1>4. Has(q, x) <=> Has(t, x) \/ x = Head(q)
  BY Zenon, <1>1, <1>2, <1>3 DEF Has
<1>5. ASSUME Single(q, x) PROVE Single(t, x) /\ (x = Head(q) => ~Has(t, x))
  <2>1. \A i, j \in 1 .. Len(t) : i + 1 = j + 1 => i = j
    OBVIOUS
  <2>2. \A i \in 1 .. Len(t) : i + 1 # 1
    BY <1>1
  <2>3. ASSUME NEW i \in 1 .. Len(t), NEW j \in 1 .. Len(t), t[i] = x, t[j] = x PROVE i = j
    <3>1. /\ i + 1 \in 1 .. Len(q) /\ j + 1 \in 1 .. Len(q)
          /\ q[i + 1] = x /\ q[j + 1] = x
      BY <1>1, <2>3
    <3>2. i + 1 = j + 1
      BY Zenon, <1>5, <3>1 DEF Single
    <3>. QED BY <2>1, <3>2
  <2>4. x = Head(q) => ~Has(t, x)
    BY Zenon, <1>1, <1>3, <1>5, <2>2 DEF Has, Single
  <2>. QED BY Zenon, <2>3, <2>4 DEF Single
<1>. QED BY <1>4, <1>5 DEF t

\* The empty list, and a list of one element.
LEMMA ListSmall ==
  ASSUME NEW x, NEW y
  PROVE  /\ ~Has(<<>>, x) /\ Single(<<>>, x)
         /\ (Has(<<y>>, x) <=> x = y) /\ Single(<<y>>, x)
<1>1. /\ Len(<<>>) = 0 /\ 1 .. 0 = {} /\ Len(<<y>>) = 1 /\ <<y>>[1] = y /\ 1 .. 1 = {1}
  OBVIOUS
<1>. QED BY <1>1 DEF Has, Single

\* The continuations of the parked frames.
LEMMA ListParked ==
  ASSUME NEW p \in FrameList, NEW f \in Frames
  PROVE  LET q == [i \in DOMAIN p |-> Invocation(p[i])]
         IN  /\ q \in JobList
             /\ Has(q, Invocation(f)) <=> Has(p, f)
             /\ Single(p, f) => Single(q, Invocation(f))
<1> DEFINE q == [i \in DOMAIN p |-> Invocation(p[i])]
<1>1. /\ DOMAIN p = 1 .. Len(p) /\ Len(p) \in Nat /\ \A i \in 1 .. Len(p) : p[i] \in Frames
  BY DEF FrameList
<1>2. q \in [1 .. Len(p) -> Job]
  BY <1>1, InvocationType
<1>3. q \in JobList /\ Len(q) = Len(p)
  <2>. HIDE DEF q
  <2>. QED BY <1>1, <1>2 DEF JobList
<1>4. \A i \in 1 .. Len(p) : q[i] = Invocation(p[i])
  BY <1>1
<1>5. \A i \in 1 .. Len(p) : q[i] = Invocation(f) <=> p[i] = f
  BY <1>4 DEF Invocation
<1>. HIDE DEF q
<1>6. (Has(q, Invocation(f)) <=> Has(p, f)) /\ (Single(p, f) => Single(q, Invocation(f)))
  BY Zenon, <1>3, <1>5 DEF Has, Single
<1>. QED BY <1>3, <1>6 DEF q

\* Removing the job at the head of the queue.
LEMMA ListDequeue ==
  ASSUME NEW q \in JobList, q # <<>>, Single(q, Head(q))
  PROVE  Dequeue(q, Head(q)) = Tail(q)
<1> DEFINE j == Head(q)
           at == CHOOSE i \in DOMAIN q : q[i] = j
<1>1. DOMAIN q = 1 .. Len(q) /\ Len(q) \in Nat \ {0} /\ j = q[1] /\ 1 \in DOMAIN q
  BY DEF JobList
<1>2. at \in DOMAIN q /\ q[at] = j
  BY Zenon, <1>1
<1>3. at = 1
  BY Zenon, <1>1, <1>2 DEF Single
<1>. HIDE DEF at
<1>4. Dequeue(q, j) = [i \in 1 .. Len(q) - 1 |-> IF i < at THEN q[i] ELSE q[i + 1]]
  BY Zenon, <1>1 DEF Dequeue, at
<1>5. \A i \in 1 .. Len(q) - 1 : ~(i < at)
  BY <1>1, <1>3
<1>6. Dequeue(q, j) = [i \in 1 .. Len(q) - 1 |-> q[i + 1]]
  BY <1>4, <1>5
<1>7. Tail(q) = [i \in 1 .. Len(q) - 1 |-> q[i + 1]]
  <2>1. /\ Tail(q) \in Seq(Job) /\ DOMAIN Tail(q) = 1 .. Len(q) - 1
        /\ \A i \in 1 .. Len(q) - 1 : Tail(q)[i] = q[i + 1]
    BY <1>1 DEF JobList
  <2> DEFINE t == Tail(q)
  <2>2. t \in [1 .. Len(q) - 1 -> Job]
    <3>1. Len(t) = Len(q) - 1 /\ t \in Seq(Job)
      BY <1>1 DEF JobList
    <3>. HIDE DEF t
    <3>. QED BY <3>1
  <2>. HIDE DEF t
  <2>3. t = [i \in 1 .. Len(q) - 1 |-> t[i]]
    BY Zenon, <2>2
  <2>. QED BY <2>1, <2>3 DEF t
<1>. QED BY <1>6, <1>7

-----------------------------------------------------------------------------
(* The stack. *)

\* A call pushes an activation.
LEMMA StackPush ==
  ASSUME NEW s \in Seq(Activation), NEW a \in Activation, NEW f
  PROVE  /\ On(Append(s, a), f) <=> On(s, f) \/ f = a.frame
         /\ OnOnce(s, f) /\ (f = a.frame => ~On(s, f)) => OnOnce(Append(s, a), f)
<1> DEFINE t == Append(s, a)
<1>1. /\ Len(t) = Len(s) + 1 /\ Len(s) \in Nat /\ t[Len(s) + 1] = a
      /\ \A i \in 1 .. Len(s) : t[i] = s[i]
  OBVIOUS
<1>2. \A i \in 1 .. Len(t) : i \in 1 .. Len(s) \/ i = Len(s) + 1
  BY <1>1
<1>3. \A i \in 1 .. Len(s) : i \in 1 .. Len(t)
  BY <1>1
<1>4. Len(s) + 1 \in 1 .. Len(t)
  BY <1>1
<1>. HIDE DEF t
<1>5. On(t, f) <=> On(s, f) \/ f = a.frame
  BY Zenon, <1>1, <1>2, <1>3, <1>4 DEF On
<1>6. ASSUME OnOnce(s, f), f = a.frame => ~On(s, f) PROVE OnOnce(t, f)
  BY Zenon, <1>1, <1>2, <1>6 DEF On, OnOnce
<1>. QED BY <1>5, <1>6 DEF t

\* A return pops one.
LEMMA StackPop ==
  ASSUME NEW s \in Seq(Activation), s # <<>>, NEW f
  PROVE  LET p == SubSeq(s, 1, Len(s) - 1)
         IN  /\ On(s, f) <=> On(p, f) \/ f = s[Len(s)].frame
             /\ OnOnce(s, f) => OnOnce(p, f) /\ (f = s[Len(s)].frame => ~On(p, f))
<1> DEFINE p == SubSeq(s, 1, Len(s) - 1)
<1>0. Len(s) \in Nat \ {0} /\ DOMAIN s = 1 .. Len(s)
  OBVIOUS
<1>a. Len(p) = Len(s) - 1
  BY <1>0
<1>b. \A i \in 1 .. Len(s) - 1 : p[i] = s[i]
  BY <1>0
<1>1. /\ Len(p) = Len(s) - 1 /\ Len(s) \in Nat \ {0}
      /\ \A i \in 1 .. Len(p) : p[i] = s[i]
  BY Zenon, <1>0, <1>a, <1>b
<1>2. \A i \in 1 .. Len(s) : i \in 1 .. Len(p) \/ i = Len(s)
  BY <1>1
<1>3. \A i \in 1 .. Len(p) : i \in 1 .. Len(s) /\ i # Len(s)
  BY <1>1
<1>4. Len(s) \in 1 .. Len(s)
  BY <1>1
<1>. HIDE DEF p
<1>5. On(s, f) <=> On(p, f) \/ f = s[Len(s)].frame
  BY Zenon, <1>1, <1>2, <1>3, <1>4 DEF On
<1>6. ASSUME OnOnce(s, f) PROVE OnOnce(p, f) /\ (f = s[Len(s)].frame => ~On(p, f))
  BY Zenon, <1>1, <1>3, <1>4, <1>6 DEF On, OnOnce
<1>. QED BY <1>5, <1>6 DEF p

\* An empty stack, and the stack of a new host entry.
LEMMA StackSmall ==
  ASSUME NEW a, NEW f
  PROVE  /\ ~On(<<>>, f) /\ OnOnce(<<>>, f)
         /\ (On(<<a>>, f) <=> f = a.frame) /\ OnOnce(<<a>>, f)
<1>1. /\ Len(<<>>) = 0 /\ 1 .. 0 = {} /\ Len(<<a>>) = 1 /\ <<a>>[1] = a /\ 1 .. 1 = {1}
  OBVIOUS
<1>. QED BY <1>1 DEF On, OnOnce

-----------------------------------------------------------------------------
(* Where a frame is. *)

\* Then every frame stays where it was.
LEMMA AlikePlaced ==
  ASSUME NEW c, NEW d, NEW s, NEW sl, NEW st, NEW F \in SUBSET Frames,
         Placed(c, s, sl, st, F), Alike(c, d)
  PROVE  Placed(d, s, sl, st, F)
<1>1. \A f, h \in Frames : WaitsFor(d, f, h) <=> WaitsFor(c, f, h)
  <2>1. TAKE f, h \in Frames
  <2>2. CASE d.meta[h].waiters = c.meta[h].waiters
    BY Zenon, <2>2 DEF WaitsFor
  <2>3. CASE ~Unfinished(c, h) /\ d.meta[h].waiters = <<>>
    <3>1. ~Has(<<>>, Invocation(f))
      BY Zenon, ListSmall
    <3>2. ~WaitsFor(c, f, h)
      BY <2>3 DEF Placed, Waiting
    <3>. QED BY <2>3, <3>1, <3>2 DEF WaitsFor
  <2>. QED BY Zenon, <2>2, <2>3 DEF Alike
<1>2. Waiting(d, sl, st)
  BY <1>1 DEF Placed, Waiting, Alike
<1>3. ASSUME NEW f \in Frames
      PROVE  /\ Waits(d, f) <=> Waits(c, f)
             /\ IsReady(d, f) <=> IsReady(c, f)
             /\ Unfinished(d, f) <=> Unfinished(c, f)
  BY Zenon, <1>1 DEF Waits, IsReady, Alike
<1>4. ASSUME NEW f \in Frames \ F PROVE Place(d, s, f)
  <2>1. Place(c, s, f)
    BY DEF Placed
  <2>2. \A h \in Frames : Single(d.meta[h].waiters, Invocation(f))
    BY Zenon, <2>1, ListSmall DEF Place, Alike
  <2>. QED BY Zenon, <1>3, <2>1, <2>2 DEF Place, OneOf, Alike
<1>5. ASSUME NEW f \in F PROVE Absent(d, s, f)
  BY Zenon, <1>3 DEF Placed, Absent, Alike
<1>. QED BY <1>2, <1>4, <1>5 DEF Placed

\* The child slot and the state word of a frame that waits for nobody are its own.
LEMMA SlotPlaced ==
  ASSUME NEW c, NEW s, NEW sl, NEW st, NEW F, Placed(c, s, sl, st, F), NEW f, ~Waits(c, f),
         NEW sm, NEW su, \A g \in Frames \ {f} : sm[g] = sl[g] /\ su[g] = st[g]
  PROVE  Placed(c, s, sm, su, F)
BY DEF Placed, Waiting, Waits

\* Different frames have different jobs.
LEMMA InvocationOne == ASSUME NEW f, NEW g PROVE Invocation(f) = Invocation(g) <=> f = g
BY DEF Invocation

\* The innermost activation ends: its frame leaves the stack.
LEMMA LiftTop ==
  ASSUME NEW c, NEW s \in Seq(Activation), s # <<>>, NEW sl, NEW st, Placed(c, s, sl, st, {}),
         NEW f \in Frames, f = s[Len(s)].frame
  PROVE  Placed(c, SubSeq(s, 1, Len(s) - 1), sl, st, {f}) /\ Unfinished(c, f)
<1> DEFINE p == SubSeq(s, 1, Len(s) - 1)
<1>1. \A g \in Frames :
         /\ On(s, g) <=> On(p, g) \/ f = g
         /\ OnOnce(s, g) => OnOnce(p, g) /\ (f = g => ~On(p, g))
  BY StackPop
<1>. HIDE DEF p
<1>2. \A g \in Frames : Place(c, s, g)
  BY DEF Placed
<1>3. \A g \in Frames \ {f} : Place(c, p, g)
  BY Zenon, <1>1, <1>2 DEF Place, OneOf
<1>4. Absent(c, p, f) /\ Unfinished(c, f)
  BY Zenon, <1>1, <1>2 DEF Place, OneOf, Absent
<1>. QED BY <1>3, <1>4 DEF Placed, p

\* An activation of no frame comes and goes.
LEMMA NoFramePlaced ==
  ASSUME NEW c, NEW s, NEW t, NEW sl, NEW st, Placed(c, s, sl, st, {}),
         \A f \in Frames : (On(t, f) <=> On(s, f)) /\ (OnOnce(s, f) => OnOnce(t, f))
  PROVE  Placed(c, t, sl, st, {})
<1>1. ASSUME NEW f \in Frames PROVE Place(c, t, f)
  <2>1. Place(c, s, f)
    BY DEF Placed
  <2>. QED BY Zenon, <2>1 DEF Place, OneOf
<1>. QED BY <1>1 DEF Placed

\* The drain takes the head of the ready queue.
LEMMA LiftHead ==
  ASSUME NEW c \in Contexts, NEW s, NEW sl, NEW st, Placed(c, s, sl, st, {}),
         c.ready # <<>>, NEW f \in Frames, Head(c.ready) = Invocation(f)
  PROVE  Placed([c EXCEPT !.ready = Tail(@)], s, sl, st, {f}) /\ Unfinished(c, f)
<1> DEFINE d == [c EXCEPT !.ready = Tail(@)]
<1>1. /\ d.ready = Tail(c.ready) /\ d.parked = c.parked /\ d.stopped = c.stopped
      /\ d.meta = c.meta /\ c.ready \in Seq(Job)
  BY DEF Contexts, JobList
<1>. HIDE DEF d
<1>2. \A g \in Frames :
         /\ IsReady(c, g) <=> IsReady(d, g) \/ f = g
         /\ Single(c.ready, Invocation(g)) =>
              Single(d.ready, Invocation(g)) /\ (f = g => ~IsReady(d, g))
  BY <1>1, ListTail, InvocationOne DEF IsReady
<1>3. \A g, h \in Frames : (WaitsFor(d, g, h) <=> WaitsFor(c, g, h))
                             /\ (Waits(d, g) <=> Waits(c, g))
                             /\ (Unfinished(d, g) <=> Unfinished(c, g))
  BY Zenon, <1>1 DEF WaitsFor, Waits, Unfinished, Registered
<1>4. \A g \in Frames : Place(c, s, g)
  BY DEF Placed
<1>5. ASSUME NEW g \in Frames \ {f} PROVE Place(d, s, g)
  BY Zenon, <1>1, <1>2, <1>3, <1>4 DEF Place, OneOf
<1>6. Absent(d, s, f) /\ Unfinished(c, f)
  BY Zenon, <1>1, <1>2, <1>3, <1>4 DEF Place, OneOf, Absent
<1>7. Waiting(d, sl, st)
  BY Zenon, <1>3 DEF Placed, Waiting
<1>. QED BY Zenon, <1>5, <1>6, <1>7 DEF Placed, d

\* A frame that is not registered is nowhere.
LEMMA LiftNew ==
  ASSUME NEW c, NEW s, NEW sl, NEW st, Placed(c, s, sl, st, {}),
         NEW f \in Frames, ~Unfinished(c, f)
  PROVE  Placed(c, s, sl, st, {f})
<1>1. \A g \in Frames : Place(c, s, g)
  BY DEF Placed
<1>2. Absent(c, s, f)
  BY Zenon, <1>1 DEF Place, OneOf, Absent
<1>. QED BY <1>1, <1>2 DEF Placed

\* What is nowhere is nowhere twice.
LEMMA AbsentSingle ==
  ASSUME NEW c, NEW s, NEW f, Absent(c, s, f)
  PROVE  /\ OnOnce(s, f) /\ Single(c.ready, Invocation(f)) /\ Single(c.parked, f)
         /\ \A h \in Frames : Single(c.meta[h].waiters, Invocation(f))
BY Zenon DEF Absent, On, OnOnce, IsReady, Has, Single, Waits, WaitsFor

\* A frame that is nowhere and unfinished is put in one place.
LEMMA PutStack ==
  ASSUME NEW c, NEW s \in Seq(Activation), NEW sl, NEW st, NEW f \in Frames,
         Placed(c, s, sl, st, {f}), Unfinished(c, f), NEW a \in Activation, a.frame = f
  PROVE  Placed(c, Append(s, a), sl, st, {})
<1> DEFINE t == Append(s, a)
<1>1. \A g \in Frames :
         /\ On(t, g) <=> On(s, g) \/ g = f
         /\ OnOnce(s, g) /\ (g = f => ~On(s, g)) => OnOnce(t, g)
  BY StackPush
<1>. HIDE DEF t
<1>2. ASSUME NEW g \in Frames, g # f PROVE Place(c, t, g)
  <2>1. Place(c, s, g)
    BY <1>2 DEF Placed
  <2>. QED BY Zenon, <1>1, <1>2, <2>1 DEF Place, OneOf
<1>3. Place(c, t, f)
  <2>1. Absent(c, s, f)
    BY DEF Placed
  <2>. QED BY Zenon, <1>1, <2>1, AbsentSingle DEF Place, OneOf, Absent
<1>. QED BY Zenon, <1>2, <1>3 DEF Placed, t

\* The parked list.
LEMMA PutParked ==
  ASSUME NEW c \in Contexts, NEW s, NEW sl, NEW st, NEW f \in Frames,
         Placed(c, s, sl, st, {f}), Unfinished(c, f)
  PROVE  Placed([c EXCEPT !.parked = Append(@, f)], s, sl, st, {})
<1> DEFINE d == [c EXCEPT !.parked = Append(@, f)]
<1>1. /\ d.ready = c.ready /\ d.parked = Append(c.parked, f) /\ d.stopped = c.stopped
      /\ d.meta = c.meta /\ c.parked \in Seq(Frames)
  BY DEF Contexts, FrameList
<1>. HIDE DEF d
<1>2. \A g \in Frames :
         /\ Has(d.parked, g) <=> Has(c.parked, g) \/ g = f
         /\ Single(c.parked, g) /\ (g = f => ~Has(c.parked, g)) => Single(d.parked, g)
  BY <1>1, ListAppend
<1>3. \A g, h \in Frames : (WaitsFor(d, g, h) <=> WaitsFor(c, g, h))
                             /\ (Waits(d, g) <=> Waits(c, g))
                             /\ (IsReady(d, g) <=> IsReady(c, g))
                             /\ (Unfinished(d, g) <=> Unfinished(c, g))
  BY Zenon, <1>1 DEF WaitsFor, Waits, Unfinished, Registered, IsReady
<1>4. ASSUME NEW g \in Frames, g # f PROVE Place(d, s, g)
  <2>1. Place(c, s, g)
    BY <1>4 DEF Placed
  <2>. QED BY Zenon, <1>1, <1>2, <1>3, <1>4, <2>1 DEF Place, OneOf
<1>5. Place(d, s, f)
  <2>1. Absent(c, s, f)
    BY DEF Placed
  <2>. QED BY Zenon, <1>1, <1>2, <1>3, <2>1, AbsentSingle DEF Place, OneOf, Absent
<1>6. Waiting(d, sl, st)
  BY Zenon, <1>3 DEF Placed, Waiting
<1>. QED BY Zenon, <1>4, <1>5, <1>6 DEF Placed, d

\* The ready queue, at either end.
LEMMA PutReady ==
  ASSUME NEW c \in Contexts, NEW s, NEW sl, NEW st, NEW f \in Frames,
         Placed(c, s, sl, st, {f}), Unfinished(c, f), NEW d,
         d.parked = c.parked, d.stopped = c.stopped, d.meta = c.meta,
         d.ready \in {Append(c.ready, Invocation(f)), <<Invocation(f)>> \o c.ready}
  PROVE  Placed(d, s, sl, st, {})
<1>1. c.ready \in Seq(Job) /\ Invocation(f) \in Job /\ <<Invocation(f)>> \in Seq(Job)
  BY InvocationType DEF Contexts, JobList
<1>2. ASSUME NEW g \in Frames
      PROVE  /\ IsReady(d, g) <=> IsReady(c, g) \/ g = f
             /\ Single(c.ready, Invocation(g)) /\ (g = f => ~IsReady(c, g))
                  => Single(d.ready, Invocation(g))
  <2>0. Invocation(f) = Invocation(g) <=> f = g
    BY InvocationOne
  <2>1. CASE d.ready = Append(c.ready, Invocation(f))
    <3> DEFINE x == Invocation(g)
               y == Invocation(f)
    <3>1. /\ Has(Append(c.ready, y), x) <=> Has(c.ready, x) \/ x = y
          /\ Single(c.ready, x) /\ (x = y => ~Has(c.ready, x)) => Single(Append(c.ready, y), x)
      BY <1>1, ListAppend
    <3>. QED BY Zenon, <2>0, <2>1, <3>1 DEF IsReady
  <2>2. CASE d.ready = <<Invocation(f)>> \o c.ready
    <3> DEFINE x == Invocation(g)
               q == <<Invocation(f)>>
    <3>1. /\ Has(q \o c.ready, x) <=> Has(q, x) \/ Has(c.ready, x)
          /\ Single(q, x) /\ Single(c.ready, x) /\ ~(Has(q, x) /\ Has(c.ready, x))
               => Single(q \o c.ready, x)
      BY Zenon, <1>1, ListConcat
    <3>2. Single(q, x) /\ (Has(q, x) <=> f = g)
      BY Zenon, <2>0, ListSmall
    <3>. QED BY Zenon, <2>2, <3>1, <3>2 DEF IsReady
  <2>. QED BY <2>1, <2>2
<1>3. \A g, h \in Frames : (WaitsFor(d, g, h) <=> WaitsFor(c, g, h))
                             /\ (Waits(d, g) <=> Waits(c, g))
                             /\ (Unfinished(d, g) <=> Unfinished(c, g))
  BY Zenon DEF WaitsFor, Waits, Unfinished, Registered
<1>4. ASSUME NEW g \in Frames, g # f PROVE Place(d, s, g)
  <2>1. Place(c, s, g)
    BY <1>4 DEF Placed
  <2>. QED BY Zenon, <1>2, <1>3, <1>4, <2>1 DEF Place, OneOf
<1>5. Place(d, s, f)
  <2>1. Absent(c, s, f)
    BY DEF Placed
  <2>. QED BY Zenon, <1>2, <1>3, <2>1, AbsentSingle DEF Place, OneOf, Absent
<1>6. Waiting(d, sl, st)
  BY Zenon, <1>3 DEF Placed, Waiting
<1>. QED BY Zenon, <1>4, <1>5, <1>6 DEF Placed

\* The set of stopped frames.
LEMMA PutStopped ==
  ASSUME NEW c \in Contexts, NEW s, NEW sl, NEW st, NEW f \in Frames,
         Placed(c, s, sl, st, {f}), Unfinished(c, f)
  PROVE  Placed([c EXCEPT !.stopped = @ \cup {f}], s, sl, st, {})
<1> DEFINE d == [c EXCEPT !.stopped = @ \cup {f}]
<1>1. /\ d.ready = c.ready /\ d.parked = c.parked /\ d.stopped = c.stopped \cup {f}
      /\ d.meta = c.meta
  BY DEF Contexts
<1>. HIDE DEF d
<1>3. \A g, h \in Frames : (WaitsFor(d, g, h) <=> WaitsFor(c, g, h))
                             /\ (Waits(d, g) <=> Waits(c, g))
                             /\ (IsReady(d, g) <=> IsReady(c, g))
                             /\ (Unfinished(d, g) <=> Unfinished(c, g))
  BY Zenon, <1>1 DEF WaitsFor, Waits, Unfinished, Registered, IsReady
<1>4. ASSUME NEW g \in Frames, g # f PROVE Place(d, s, g)
  <2>1. Place(c, s, g)
    BY <1>4 DEF Placed
  <2>. QED BY Zenon, <1>1, <1>3, <1>4, <2>1 DEF Place, OneOf
<1>5. Place(d, s, f)
  <2>1. Absent(c, s, f)
    BY DEF Placed
  <2>. QED BY Zenon, <1>1, <1>3, <2>1, AbsentSingle DEF Place, OneOf, Absent
<1>6. Waiting(d, sl, st)
  BY Zenon, <1>3 DEF Placed, Waiting
<1>. QED BY Zenon, <1>4, <1>5, <1>6 DEF Placed, d

\* A completion: the frame is nowhere and stays there, and its waiters move to
\* the tail of the ready queue.  No waiter is there twice, since each waits for
\* the one handle that its child slot names.
LEMMA CompletePlaced ==
  ASSUME NEW c \in Contexts, NEW s, NEW sl, NEW st, NEW f \in Frames,
         Placed(c, s, sl, st, {f}), Unfinished(c, f), NEW k, k # "none"
  PROVE  /\ Placed(CompleteWith(c, f, k), s, sl, st, {})
         /\ ~Unfinished(CompleteWith(c, f, k), f)
<1> DEFINE d == CompleteWith(c, f, k)
<1>1. /\ d.ready = c.ready \o c.meta[f].waiters /\ d.parked = c.parked /\ d.stopped = c.stopped
      /\ d.meta[f].completion = k /\ d.meta[f].waiters = <<>>
      /\ \A g \in Frames \ {f} : d.meta[g] = c.meta[g]
      /\ c.ready \in Seq(Job) /\ c.meta[f].waiters \in Seq(Job)
  BY DEF Contexts, FrameMeta, JobList, CompleteWith, SetMeta
<1>. HIDE DEF d
<1>2. ~Unfinished(d, f) /\ \A g \in Frames \ {f} : Unfinished(d, g) <=> Unfinished(c, g)
  BY Zenon, <1>1 DEF Unfinished, Registered
<1>3. ASSUME NEW g \in Frames
      PROVE  /\ IsReady(d, g) <=> IsReady(c, g) \/ WaitsFor(c, g, f)
             /\ /\ Single(c.ready, Invocation(g)) /\ Single(c.meta[f].waiters, Invocation(g))
                /\ ~(IsReady(c, g) /\ WaitsFor(c, g, f))
                => Single(d.ready, Invocation(g))
  <2> DEFINE q == c.ready
             r == c.meta[f].waiters
             x == Invocation(g)
  <2>1. q \in Seq(Job) /\ r \in Seq(Job)
    BY <1>1
  <2>. HIDE DEF q, r, x
  <2>2. /\ Has(q \o r, x) <=> Has(q, x) \/ Has(r, x)
        /\ Single(q, x) /\ Single(r, x) /\ ~(Has(q, x) /\ Has(r, x)) => Single(q \o r, x)
    BY <2>1, ListConcat
  <2>. QED BY Zenon, <1>1, <2>2 DEF IsReady, WaitsFor, q, r, x
<1>4. ASSUME NEW g \in Frames
      PROVE  /\ ~WaitsFor(d, g, f) /\ Single(d.meta[f].waiters, Invocation(g))
             /\ \A h \in Frames \ {f} : WaitsFor(d, g, h) <=> WaitsFor(c, g, h)
  BY Zenon, <1>1, ListSmall DEF WaitsFor
<1>5. \A g \in Frames : WaitsFor(c, g, f) => \A h \in Frames : WaitsFor(c, g, h) => h = f
  <2>1. \A g, h \in Frames : WaitsFor(c, g, h) => sl[g] = h
    BY DEF Placed, Waiting
  <2>. QED BY <2>1
<1>6. Waiting(d, sl, st)
  <2>. SUFFICES ASSUME NEW g \in Frames, NEW h \in Frames, WaitsFor(d, g, h)
                PROVE  Unfinished(d, h) /\ st[g] = "await" /\ sl[g] = h
    BY DEF Waiting
  <2>1. h # f
    BY Zenon, <1>4
  <2>. QED BY Zenon, <1>2, <1>4, <2>1 DEF Placed, Waiting
<1>7. ASSUME NEW g \in Frames, g # f PROVE Place(d, s, g)
  <2>1. Place(c, s, g)
    BY <1>7 DEF Placed
  <2>2. CASE WaitsFor(c, g, f)
    <3>1. Waits(c, g) /\ ~Waits(d, g)
      BY Zenon, <1>4, <1>5, <2>2 DEF Waits
    <3>2. IsReady(d, g) /\ Single(d.ready, Invocation(g))
      BY Zenon, <1>3, <2>1, <2>2, <3>1 DEF Place, OneOf
    <3>3. \A h \in Frames : Single(d.meta[h].waiters, Invocation(g))
      BY Zenon, <1>1, <1>4, <2>1 DEF Place
    <3>. QED BY Zenon, <1>1, <1>2, <1>7, <2>1, <3>1, <3>2, <3>3 DEF Place, OneOf
  <2>3. CASE ~WaitsFor(c, g, f)
    <3>1. Waits(c, g) <=> Waits(d, g)
      BY Zenon, <1>4, <2>3 DEF Waits
    <3>2. (IsReady(d, g) <=> IsReady(c, g)) /\ Single(d.ready, Invocation(g))
      BY Zenon, <1>3, <2>1, <2>3 DEF Place
    <3>3. \A h \in Frames : Single(d.meta[h].waiters, Invocation(g))
      BY Zenon, <1>1, <1>4, <2>1 DEF Place
    <3>. QED BY Zenon, <1>1, <1>2, <1>7, <2>1, <3>1, <3>2, <3>3 DEF Place, OneOf
  <2>. QED BY <2>2, <2>3
<1>8. Place(d, s, f)
  <2>1. Absent(c, s, f)
    BY DEF Placed
  <2>2. ~IsReady(d, f) /\ Single(d.ready, Invocation(f))
    BY Zenon, <1>3, <2>1, AbsentSingle DEF Absent, Waits
  <2>3. ~Waits(d, f)
    BY Zenon, <1>4, <2>1 DEF Absent, Waits
  <2>4. \A h \in Frames : Single(d.meta[h].waiters, Invocation(f))
    BY Zenon, <1>1, <1>4, <2>1, AbsentSingle
  <2>. QED BY Zenon, <1>1, <1>2, <2>1, <2>2, <2>3, <2>4, AbsentSingle DEF Place, OneOf, Absent
<1>. QED BY Zenon, <1>2, <1>6, <1>7, <1>8 DEF Placed, d

\* A creator registers a frame.
LEMMA RegisterPlaced ==
  ASSUME NEW c \in Contexts, NEW s, NEW sl, NEW st, NEW f \in Frames,
         Placed(c, s, sl, st, {f}), ~Registered(c, f), NEW m \in FrameMeta,
         m.kind # "none", m.completion = "none", m.waiters = <<>>
  PROVE  /\ Placed(Register(c, f, m), s, sl, st, {f})
         /\ Unfinished(Register(c, f, m), f)
<1> DEFINE d == Register(c, f, m)
<1>1. /\ d.ready = c.ready /\ d.parked = c.parked /\ d.stopped = c.stopped
      /\ d.meta[f].completion = "none" /\ d.meta[f].waiters = <<>> /\ d.meta[f].kind # "none"
      /\ \A g \in Frames \ {f} : d.meta[g] = c.meta[g]
  BY DEF Contexts, FrameMeta, Register, SetMeta
<1>. HIDE DEF d
<1>2. Unfinished(d, f) /\ \A g \in Frames \ {f} : Unfinished(d, g) <=> Unfinished(c, g)
  BY Zenon, <1>1 DEF Unfinished, Registered
<1>3. \A g \in Frames : ~WaitsFor(c, g, f)
  BY DEF Placed, Waiting, Unfinished
<1>4. ASSUME NEW g \in Frames
      PROVE  /\ ~WaitsFor(d, g, f) /\ Single(d.meta[f].waiters, Invocation(g))
             /\ \A h \in Frames \ {f} : WaitsFor(d, g, h) <=> WaitsFor(c, g, h)
  BY Zenon, <1>1, ListSmall DEF WaitsFor
<1>5. Waiting(d, sl, st)
  <2>. SUFFICES ASSUME NEW g \in Frames, NEW h \in Frames, WaitsFor(d, g, h)
                PROVE  Unfinished(d, h) /\ st[g] = "await" /\ sl[g] = h
    BY DEF Waiting
  <2>1. h # f
    BY Zenon, <1>4
  <2>. QED BY Zenon, <1>2, <1>4, <2>1 DEF Placed, Waiting
<1>6. \A g \in Frames : (Waits(d, g) <=> Waits(c, g)) /\ (IsReady(d, g) <=> IsReady(c, g))
  BY Zenon, <1>1, <1>3, <1>4 DEF Waits, IsReady
<1>7. ASSUME NEW g \in Frames \ {f} PROVE Place(d, s, g)
  <2>1. Place(c, s, g)
    BY DEF Placed
  <2>2. \A h \in Frames : Single(d.meta[h].waiters, Invocation(g))
    BY Zenon, <1>1, <1>4, <2>1 DEF Place
  <2>. QED BY Zenon, <1>1, <1>2, <1>6, <2>1, <2>2 DEF Place, OneOf
<1>8. Absent(d, s, f)
  BY Zenon, <1>1, <1>6 DEF Placed, Absent
<1>. QED BY Zenon, <1>2, <1>5, <1>7, <1>8 DEF Placed, d

\* An await registers the frame with an unfinished handle, or makes it ready.
LEMMA EnqueuePlaced ==
  ASSUME NEW c \in Contexts, NEW s, NEW sl, NEW st, NEW f \in Frames,
         Placed(c, s, sl, st, {f}), Unfinished(c, f), NEW h \in Frames,
         sl[f] = h, st[f] = "await"
  PROVE  Placed(Enqueue(c, h, Invocation(f)), s, sl, st, {})
<1> DEFINE d == Enqueue(c, h, Invocation(f))
<1>1. CASE ~Unfinished(c, h)
  <2>1. /\ d.ready = Append(c.ready, Invocation(f)) /\ d.parked = c.parked
        /\ d.stopped = c.stopped /\ d.meta = c.meta
    BY <1>1 DEF Enqueue, Contexts
  <2>. HIDE DEF d
  <2>2. Placed(d, s, sl, st, {})
    BY Zenon, <2>1, PutReady
  <2>. QED BY <2>2 DEF d
<1>2. CASE Unfinished(c, h)
  <2>1. /\ d.ready = c.ready /\ d.parked = c.parked /\ d.stopped = c.stopped
        /\ d.meta[h].waiters = Append(c.meta[h].waiters, Invocation(f))
        /\ d.meta[h].kind = c.meta[h].kind /\ d.meta[h].completion = c.meta[h].completion
        /\ \A g \in Frames \ {h} : d.meta[g] = c.meta[g]
        /\ c.meta[h].waiters \in Seq(Job)
    BY <1>2 DEF Enqueue, SetMeta, Contexts, FrameMeta, JobList
  <2>. HIDE DEF d
  <2>2. \A g \in Frames : (Unfinished(d, g) <=> Unfinished(c, g)) /\ (IsReady(d, g) <=> IsReady(c, g))
    BY Zenon, <2>1 DEF Unfinished, Registered, IsReady
  <2>3. ASSUME NEW g \in Frames
        PROVE  /\ WaitsFor(d, g, h) <=> WaitsFor(c, g, h) \/ g = f
               /\ Single(c.meta[h].waiters, Invocation(g)) /\ (g = f => ~WaitsFor(c, g, h))
                    => Single(d.meta[h].waiters, Invocation(g))
               /\ \A i \in Frames \ {h} : WaitsFor(d, g, i) <=> WaitsFor(c, g, i)
    <3>1. Invocation(f) \in Job /\ (Invocation(g) = Invocation(f) <=> g = f)
      BY InvocationType, InvocationOne
    <3> DEFINE q == c.meta[h].waiters
               x == Invocation(g)
               y == Invocation(f)
    <3>2. q \in Seq(Job) /\ y \in Job
      BY <2>1, <3>1
    <3>. HIDE DEF q, x, y
    <3>3. /\ Has(Append(q, y), x) <=> Has(q, x) \/ x = y
          /\ Single(q, x) /\ (x = y => ~Has(q, x)) => Single(Append(q, y), x)
      BY <3>2, ListAppend
    <3>. QED BY Zenon, <2>1, <3>1, <3>3 DEF WaitsFor, q, x, y
  <2>4. Waiting(d, sl, st)
    <3>. SUFFICES ASSUME NEW g \in Frames, NEW i \in Frames, WaitsFor(d, g, i)
                  PROVE  Unfinished(d, i) /\ st[g] = "await" /\ sl[g] = i
      BY DEF Waiting
    <3>1. CASE WaitsFor(c, g, i)
      BY Zenon, <2>2, <3>1 DEF Placed, Waiting
    <3>2. CASE ~WaitsFor(c, g, i)
      <4>1. g = f /\ i = h
        BY Zenon, <2>3, <3>2
      <4>. QED BY <1>2, <2>2, <4>1
    <3>. QED BY <3>1, <3>2
  <2>5. ASSUME NEW g \in Frames, g # f PROVE Place(d, s, g)
    <3>1. Place(c, s, g)
      BY <2>5 DEF Placed
    <3>2. Waits(d, g) <=> Waits(c, g)
      BY Zenon, <2>3, <2>5 DEF Waits
    <3>3. \A i \in Frames : Single(d.meta[i].waiters, Invocation(g))
      BY Zenon, <2>1, <2>3, <2>5, <3>1 DEF Place
    <3>. QED BY Zenon, <2>1, <2>2, <3>1, <3>2, <3>3 DEF Place, OneOf
  <2>6. Place(d, s, f)
    <3>1. Absent(c, s, f)
      BY DEF Placed
    <3>2. Waits(d, f)
      BY Zenon, <2>3 DEF Waits
    <3>3. \A i \in Frames : Single(d.meta[i].waiters, Invocation(f))
      BY Zenon, <2>1, <2>3, <3>1, AbsentSingle DEF Absent, Waits
    <3>. QED BY Zenon, <2>1, <2>2, <3>1, <3>2, <3>3, AbsentSingle DEF Place, OneOf, Absent
  <2>. QED BY Zenon, <2>4, <2>5, <2>6 DEF Placed, d
<1>. QED BY <1>1, <1>2

\* A checkpoint moves the parked frames to the tail of the ready queue.
LEMMA CheckpointPlaced ==
  ASSUME NEW c \in Contexts, NEW s, NEW sl, NEW st, Placed(c, s, sl, st, {})
  PROVE  Placed([c EXCEPT !.ready = @ \o [i \in DOMAIN c.parked |-> Invocation(c.parked[i])],
                          !.parked = <<>>], s, sl, st, {})
<1> DEFINE p == [i \in DOMAIN c.parked |-> Invocation(c.parked[i])]
           d == [c EXCEPT !.ready = @ \o p, !.parked = <<>>]
<1>1. /\ d.ready = c.ready \o p /\ d.parked = <<>> /\ d.stopped = c.stopped
      /\ d.meta = c.meta /\ c.ready \in Seq(Job) /\ c.parked \in FrameList
  BY DEF Contexts, JobList
<1>2. ASSUME NEW f \in Frames
      PROVE  /\ p \in Seq(Job)
             /\ Has(p, Invocation(f)) <=> Has(c.parked, f)
             /\ Single(c.parked, f) => Single(p, Invocation(f))
  BY Zenon, <1>1, ListParked DEF JobList
<1>. HIDE DEF d, p
<1>3. ASSUME NEW f \in Frames
      PROVE  /\ IsReady(d, f) <=> IsReady(c, f) \/ Has(c.parked, f)
             /\ Single(c.ready, Invocation(f)) /\ Single(p, Invocation(f))
                  /\ ~(IsReady(c, f) /\ Has(c.parked, f)) => Single(d.ready, Invocation(f))
  <2> DEFINE q == c.ready
             x == Invocation(f)
  <2>1. q \in Seq(Job) /\ p \in Seq(Job)
    BY <1>1, <1>2
  <2>. HIDE DEF q, x
  <2>2. /\ Has(q \o p, x) <=> Has(q, x) \/ Has(p, x)
        /\ Single(q, x) /\ Single(p, x) /\ ~(Has(q, x) /\ Has(p, x)) => Single(q \o p, x)
    BY <2>1, ListConcat
  <2>. QED BY Zenon, <1>1, <1>2, <2>2 DEF IsReady, q, x
<1>4. \A g, h \in Frames : (WaitsFor(d, g, h) <=> WaitsFor(c, g, h))
                             /\ (Waits(d, g) <=> Waits(c, g))
                             /\ (Unfinished(d, g) <=> Unfinished(c, g))
  BY Zenon, <1>1 DEF WaitsFor, Waits, Unfinished, Registered
<1>5. ASSUME NEW f \in Frames PROVE Place(d, s, f)
  <2>1. Place(c, s, f)
    BY DEF Placed
  <2>2. ~Has(d.parked, f) /\ Single(d.parked, f)
    BY Zenon, <1>1, ListSmall
  <2>. QED BY Zenon, <1>1, <1>2, <1>3, <1>4, <2>1, <2>2 DEF Place, OneOf
<1>6. Waiting(d, sl, st)
  BY Zenon, <1>4 DEF Placed, Waiting
<1>. QED BY Zenon, <1>5, <1>6 DEF Placed, d, p

-----------------------------------------------------------------------------
(* The moves of one frame. *)

\* A step that moves only f, to a place that fits f, keeps every other frame in
\* a place that fits it.
LEMMA RestStep ==
  ASSUME NEW c, NEW s, NEW sl, NEW st, NEW di, Rest(c, s, sl, st, di),
         NEW d, NEW t, NEW sm, NEW su, NEW dj, Placed(d, t, sm, su, {}),
         NEW f \in Frames, Fine(d, t, sm, su, dj, f),
         Moves(f, c, s, sl, st, di, d, t, sm, su, dj)
  PROVE  Rest(d, t, sm, su, dj)
<1>. USE DEF Moves, Off
<1>. SUFFICES ASSUME NEW g \in Frames, g # f PROVE Fine(d, t, sm, su, dj, g)
  BY Zenon DEF Rest
<1>1. /\ Fine(c, s, sl, st, di, g) /\ Place(c, s, g) /\ Place(d, t, g)
      /\ sm[g] = sl[g] /\ su[g] = st[g] /\ (g \in dj <=> g \in di)
  BY DEF Rest, Placed
<1>2. Has(d.parked, g) => su[g] = "suspend"
  BY Zenon, <1>1 DEF Fine
<1>3. g \in dj => Unfinished(d, g) /\ (On(t, g) \/ sm[g] = None)
  BY Zenon, <1>1 DEF Fine
<1>4. /\ Unfinished(d, g) => Registered(d, g)
      /\ On(t, g) \/ IsReady(d, g) => Unfinished(d, g)
  BY Zenon, <1>1 DEF Unfinished, Place, OneOf
<1>5. On(t, g) => ~d.meta[g].stale
  BY Zenon, <1>1, <1>4 DEF Fine
<1>6. OnDrain(t, g) => g \in dj
  BY Zenon, <1>1 DEF Fine
<1>7. ASSUME IsReady(d, g), su[g] = "await", g \notin dj, ~d.meta[g].stale
      PROVE  Done(d, sm[g])
  <2>0. ~c.meta[g].stale
    BY Zenon, <1>4, <1>7
  <2>1. CASE IsReady(c, g)
    <3>1. Done(c, sl[g])
      BY Zenon, <1>1, <1>7, <2>0, <2>1 DEF Fine
    <3>2. CASE sl[g] = f
      BY Zenon, <1>1, <1>7, <2>1, <3>1, <3>2 DEF Done
    <3>3. CASE sl[g] # f
      <4> DEFINE h == sl[g]
      <4>1. h \in Frames \ {f} /\ ~Unfinished(c, h) /\ (Registered(c, h) => ~c.meta[h].stale)
        BY <3>1, <3>3 DEF Done
      <4>. HIDE DEF h
      <4>2. Done(d, h)
        BY Zenon, <4>1 DEF Done
      <4>. QED BY <1>1, <4>2 DEF h
    <3>. QED BY <3>2, <3>3
  <2>2. CASE Has(c.parked, g)
    BY <1>1, <1>7, <2>2 DEF Fine
  <2>3. CASE WaitsFor(c, g, f) /\ ~Unfinished(d, f)
    <3>1. sl[g] = f
      BY <2>3 DEF Rest, Placed, Waiting
    <3>. QED BY Zenon, <1>1, <2>3, <3>1 DEF Done
  <2>. QED BY Zenon, <1>7, <2>1, <2>2, <2>3
<1>. QED BY Zenon, <1>2, <1>3, <1>5, <1>6, <1>7 DEF Fine

\* No frame moves.
LEMMA RestTame ==
  ASSUME NEW c, NEW s, NEW sl, NEW st, NEW di, Rest(c, s, sl, st, di),
         NEW d, Tame(c, d), NEW sm, \A g \in Frames : sm[g] = sl[g] \/ On(s, g)
  PROVE  Rest(d, s, sm, st, di)
<1>0. Placed(c, s, sl, st, {}) /\ Alike(c, d)
  BY DEF Rest, Tame
<1>1. Placed(c, s, sm, st, {})
  <2>. SUFFICES ASSUME NEW f \in Frames, NEW h \in Frames, WaitsFor(c, f, h)
                PROVE  Unfinished(c, h) /\ st[f] = "await" /\ sm[f] = h
    BY <1>0 DEF Placed, Waiting
  <2>1. ~On(s, f)
    BY Zenon, <1>0 DEF Placed, Place, OneOf, Waits
  <2>. QED BY <1>0, <2>1 DEF Placed, Waiting
<1>2. Placed(d, s, sm, st, {})
  BY <1>0, <1>1, AlikePlaced
<1>. SUFFICES ASSUME NEW g \in Frames PROVE Fine(d, s, sm, st, di, g)
  BY <1>2 DEF Rest
<1>3. Fine(c, s, sl, st, di, g) /\ Place(c, s, g)
  BY DEF Rest, Placed
<1>4. /\ Unfinished(d, g) <=> Unfinished(c, g)
      /\ IsReady(d, g) <=> IsReady(c, g)
      /\ Has(d.parked, g) <=> Has(c.parked, g)
      /\ Unfinished(c, g) => d.meta[g].stale = c.meta[g].stale
  BY Zenon DEF Tame, Alike, IsReady, Unfinished
<1>5. /\ On(s, g) \/ IsReady(c, g) => Unfinished(c, g)
      /\ IsReady(c, g) => ~On(s, g)
  BY Zenon, <1>3 DEF Place, OneOf
<1>6. ASSUME IsReady(d, g), st[g] = "await", g \notin di, ~d.meta[g].stale
      PROVE  Done(d, sm[g])
  <2>1. Done(c, sl[g]) /\ sm[g] = sl[g]
    BY Zenon, <1>3, <1>4, <1>5, <1>6 DEF Fine
  <2>. QED BY Zenon, <2>1 DEF Done, Tame, Alike
<1>. QED BY Zenon, <1>3, <1>4, <1>5, <1>6 DEF Fine

\* An activation leaves or joins the stack: the others stay.
LEMMA PopOthers ==
  ASSUME NEW s \in Seq(Activation), s # <<>>, NEW g, g # s[Len(s)].frame
  PROVE  LET p == SubSeq(s, 1, Len(s) - 1)
         IN  (On(p, g) <=> On(s, g)) /\ (OnDrain(p, g) => OnDrain(s, g))
<1> DEFINE p == SubSeq(s, 1, Len(s) - 1)
<1>1. Len(s) \in Nat \ {0} /\ DOMAIN s = 1 .. Len(s)
  OBVIOUS
<1>2. Len(p) = Len(s) - 1
  BY <1>1
<1>3. \A i \in 1 .. Len(s) - 1 : p[i] = s[i]
  BY <1>1
<1>4. \A i \in 1 .. Len(s) - 1 : i \in 1 .. Len(s)
  BY <1>1
<1>5. On(p, g) <=> On(s, g)
  BY Zenon, StackPop
<1>. HIDE DEF p
<1>6. OnDrain(p, g) => OnDrain(s, g)
  BY Zenon, <1>2, <1>3, <1>4 DEF OnDrain
<1>. QED BY <1>5, <1>6 DEF p

\* A new activation is the only one that a push adds.
LEMMA PushOthers ==
  ASSUME NEW s \in Seq(Activation), NEW a \in Activation, NEW g
  PROVE  OnDrain(Append(s, a), g) => OnDrain(s, g) \/ (g = a.frame /\ a.via = "drain")
<1> DEFINE t == Append(s, a)
<1>1. /\ Len(t) = Len(s) + 1 /\ Len(s) \in Nat /\ t[Len(s) + 1] = a
      /\ \A i \in 1 .. Len(s) : t[i] = s[i]
  OBVIOUS
<1>2. \A i \in 1 .. Len(t) : i \in 1 .. Len(s) \/ i = Len(s) + 1
  BY <1>1
<1>. HIDE DEF t
<1>3. OnDrain(t, g) => OnDrain(s, g) \/ (g = a.frame /\ a.via = "drain")
  BY Zenon, <1>1, <1>2 DEF OnDrain
<1>. QED BY <1>3 DEF t

\* The top of the stack is popped: its frame is in no place, the others stay.
LEMMA LiftRest ==
  ASSUME NEW c, NEW s, NEW p, NEW f, Pops(s, p, f), NEW sl, NEW st, NEW di,
         Rest(c, s, sl, st, di), NEW sm, NEW su, Off(f, sl, st, sm, su)
  PROVE  Placed(c, p, sm, su, {f}) /\ Lifted(c, s, p, f)
<1>0. /\ Placed(c, s, sl, st, {}) /\ s \in Seq(Activation) /\ s # <<>> /\ f \in Frames
      /\ f = s[Len(s)].frame /\ p = SubSeq(s, 1, Len(s) - 1)
  BY DEF Rest, Pops
<1>1. Placed(c, p, sl, st, {f}) /\ Unfinished(c, f)
  BY Zenon, <1>0, LiftTop
<1>2. On(s, f)
  BY <1>0, StackPop
<1>3. \A g \in Frames \ {f} : (On(p, g) <=> On(s, g)) /\ (OnDrain(p, g) => OnDrain(s, g))
  BY <1>0, PopOthers
<1>4. Absent(c, p, f)
  BY <1>1 DEF Placed
<1>5. Placed(c, p, sm, su, {f})
  BY <1>1, <1>4, SlotPlaced DEF Absent, Off
<1>6. ~c.meta[f].stale
  BY <1>0, <1>2 DEF Rest, Fine
<1>7. ~On(p, f) /\ ~OnDrain(p, f)
  BY Zenon, <1>4 DEF Absent, On, OnDrain
<1>. QED BY <1>1, <1>2, <1>3, <1>4, <1>5, <1>6, <1>7 DEF Lifted, Unfinished

\* Context.suspend().
LEMMA ParkRest ==
  ASSUME NEW c \in Contexts, NEW s, NEW p, NEW f, Pops(s, p, f), NEW sl, NEW st, NEW di,
         Rest(c, s, sl, st, di), NEW su, Off(f, sl, st, sl, su), su[f] = "suspend"
  PROVE  Rest([c EXCEPT !.parked = Append(@, f)], p, sl, su, di \ {f})
<1> DEFINE d == [c EXCEPT !.parked = Append(@, f)]
<1>0. f \in Frames
  BY DEF Pops
<1>1. Placed(c, p, sl, su, {f}) /\ Lifted(c, s, p, f)
  BY LiftRest
<1>2. Placed(d, p, sl, su, {})
  BY <1>0, <1>1, PutParked DEF Lifted
<1>3. /\ d.ready = c.ready /\ d.parked = Append(c.parked, f) /\ d.meta = c.meta
      /\ c.parked \in Seq(Frames)
  BY DEF Contexts, FrameList
<1>4. \A g \in Frames \ {f} : Has(d.parked, g) => Has(c.parked, g)
  BY <1>0, <1>3, ListAppend
<1>. HIDE DEF d
<1>5. \A g \in Frames : /\ IsReady(d, g) <=> IsReady(c, g)
                        /\ Unfinished(d, g) <=> Unfinished(c, g)
                        /\ Registered(d, g) <=> Registered(c, g)
  BY Zenon, <1>3 DEF IsReady, Unfinished, Registered
<1>6. Fine(d, p, sl, su, di \ {f}, f)
  BY <1>0, <1>1, <1>5 DEF Fine, Absent, Lifted
<1>7. Moves(f, c, s, sl, st, di, d, p, sl, su, di \ {f})
  BY <1>0, <1>1, <1>3, <1>4, <1>5 DEF Moves, Lifted
<1>8. Rest(d, p, sl, su, di \ {f})
  BY <1>0, <1>2, <1>6, <1>7, RestStep
<1>. QED BY <1>8 DEF d

\* `await` of a handle of this epoch.
LEMMA AwaitRest ==
  ASSUME NEW c \in Contexts, NEW s, NEW p, NEW f, Pops(s, p, f), NEW sl, NEW st, NEW di,
         Rest(c, s, sl, st, di), NEW h \in Frames, Registered(c, h) => ~c.meta[h].stale,
         NEW sm, NEW su, Off(f, sl, st, sm, su), sm[f] = h, su[f] = "await"
  PROVE  Rest(Enqueue(c, h, Invocation(f)), p, sm, su, di \ {f})
<1> DEFINE d == Enqueue(c, h, Invocation(f))
<1>0. f \in Frames
  BY DEF Pops
<1>1. Placed(c, p, sm, su, {f}) /\ Lifted(c, s, p, f)
  BY LiftRest
<1>2. Placed(d, p, sm, su, {})
  BY <1>0, <1>1, EnqueuePlaced DEF Lifted
<1>3. /\ d.parked = c.parked
      /\ d.ready = IF Unfinished(c, h) THEN c.ready ELSE Append(c.ready, Invocation(f))
      /\ c.ready \in Seq(Job)
      /\ \A g \in Frames : /\ d.meta[g].kind = c.meta[g].kind
                           /\ d.meta[g].completion = c.meta[g].completion
                           /\ d.meta[g].stale = c.meta[g].stale
  BY DEF Contexts, FrameMeta, JobList, Enqueue, SetMeta
<1>4. ASSUME NEW g \in Frames \ {f} PROVE IsReady(d, g) => IsReady(c, g)
  <2>1. Invocation(g) # Invocation(f) /\ Invocation(f) \in Job
    BY <1>0, InvocationOne, InvocationType
  <2>. HIDE DEF d
  <2>2. Has(Append(c.ready, Invocation(f)), Invocation(g)) => Has(c.ready, Invocation(g))
    BY <1>3, <2>1, ListAppend
  <2>. QED BY <1>3, <2>2 DEF IsReady
<1>. HIDE DEF d
<1>5. \A g \in Frames : /\ Unfinished(d, g) <=> Unfinished(c, g)
                        /\ Registered(d, g) <=> Registered(c, g)
  BY Zenon, <1>3 DEF Unfinished, Registered
<1>6. Fine(d, p, sm, su, di \ {f}, f)
  <2>1. IsReady(d, f) => ~Unfinished(c, h)
    BY <1>1, <1>3 DEF IsReady, Absent, Lifted
  <2>2. ~Unfinished(c, h) => Done(d, h)
    BY Zenon, <1>3, <1>5 DEF Done
  <2>. QED BY <1>1, <1>3, <2>1, <2>2 DEF Fine, Absent, Lifted
<1>7. Moves(f, c, s, sl, st, di, d, p, sm, su, di \ {f})
  BY Zenon, <1>0, <1>1, <1>3, <1>4, <1>5 DEF Moves, Lifted
<1>8. Rest(d, p, sm, su, di \ {f})
  BY <1>0, <1>2, <1>6, <1>7, RestStep
<1>. QED BY <1>8 DEF d

\* The body ends.
LEMMA FinishRest ==
  ASSUME NEW c \in Contexts, NEW s, NEW p, NEW f, Pops(s, p, f), NEW sl, NEW st, NEW di,
         Rest(c, s, sl, st, di), NEW sm, NEW su, Off(f, sl, st, sm, su), NEW k, k # "none"
  PROVE  /\ Rest(CompleteWith(c, f, k), p, sm, su, di \ {f})
         /\ ~Unfinished(CompleteWith(c, f, k), f)
<1> DEFINE d == CompleteWith(c, f, k)
<1>0. f \in Frames
  BY DEF Pops
<1>1. Placed(c, p, sm, su, {f}) /\ Lifted(c, s, p, f)
  BY LiftRest
<1>a. Unfinished(c, f)
  BY <1>1 DEF Lifted
<1>2. Placed(d, p, sm, su, {}) /\ ~Unfinished(d, f)
  BY <1>0, <1>1, <1>a, CompletePlaced
<1>3. /\ d.parked = c.parked /\ d.ready = c.ready \o c.meta[f].waiters
      /\ c.ready \in Seq(Job) /\ c.meta[f].waiters \in Seq(Job)
      /\ \A g \in Frames \ {f} : d.meta[g] = c.meta[g]
      /\ d.meta[f].stale = c.meta[f].stale
  BY <1>0, <1>a DEF Contexts, FrameMeta, JobList, CompleteWith, SetMeta
<1>. HIDE DEF d
<1>4. ASSUME NEW g \in Frames \ {f} PROVE IsReady(d, g) => IsReady(c, g) \/ WaitsFor(c, g, f)
  <2> DEFINE q == c.ready
             r == c.meta[f].waiters
             x == Invocation(g)
  <2>1. q \in Seq(Job) /\ r \in Seq(Job)
    BY <1>3
  <2>. HIDE DEF q, r, x
  <2>2. Has(q \o r, x) => Has(q, x) \/ Has(r, x)
    BY <2>1, ListConcat
  <2>. QED BY Zenon, <1>3, <2>2 DEF IsReady, WaitsFor, q, r, x
<1>5. \A g \in Frames \ {f} : /\ Unfinished(d, g) <=> Unfinished(c, g)
                              /\ Registered(d, g) <=> Registered(c, g)
  BY Zenon, <1>3 DEF Unfinished, Registered
<1>6. Fine(d, p, sm, su, di \ {f}, f)
  <2>1. Place(d, p, f)
    BY <1>0, <1>2 DEF Placed
  <2>2. ~Has(d.parked, f) /\ ~IsReady(d, f)
    BY Zenon, <1>2, <2>1 DEF Place, OneOf
  <2>. QED BY <1>1, <2>2 DEF Fine, Lifted
<1>7. Moves(f, c, s, sl, st, di, d, p, sm, su, di \ {f})
  BY Zenon, <1>0, <1>1, <1>2, <1>3, <1>4, <1>5 DEF Moves, Lifted
<1>8. Rest(d, p, sm, su, di \ {f})
  BY <1>0, <1>2, <1>6, <1>7, RestStep
<1>. QED BY <1>2, <1>8 DEF d

\* A trap ends a resumed body: its job returns to the head of the queue.
LEMMA RequeueRest ==
  ASSUME NEW c \in Contexts, NEW s, NEW p, NEW f, Pops(s, p, f), NEW sl, NEW st, NEW di,
         Rest(c, s, sl, st, di), NEW sm, Off(f, sl, st, sm, st), sm[f] = None, f \in di,
         NEW d, d.parked = c.parked, d.stopped = c.stopped, d.meta = c.meta,
         d.ready = <<Invocation(f)>> \o c.ready
  PROVE  Rest(d, p, sm, st, di)
<1>0. f \in Frames
  BY DEF Pops
<1>1. Placed(c, p, sm, st, {f}) /\ Lifted(c, s, p, f)
  BY LiftRest
<1>2. Placed(d, p, sm, st, {})
  BY Zenon, <1>0, <1>1, PutReady DEF Lifted
<1>3. \A g \in Frames : /\ Unfinished(d, g) <=> Unfinished(c, g)
                        /\ Registered(d, g) <=> Registered(c, g)
  BY Zenon DEF Unfinished, Registered
<1>4. ASSUME NEW g \in Frames \ {f} PROVE IsReady(d, g) => IsReady(c, g)
  <2>1. /\ Invocation(g) # Invocation(f) /\ <<Invocation(f)>> \in Seq(Job)
        /\ c.ready \in Seq(Job)
    BY <1>0, InvocationOne, InvocationType DEF Contexts, JobList
  <2>2. ~Has(<<Invocation(f)>>, Invocation(g))
    BY <2>1, ListSmall
  <2> DEFINE q == <<Invocation(f)>>
             r == c.ready
             x == Invocation(g)
  <2>3. q \in Seq(Job) /\ r \in Seq(Job)
    BY <2>1
  <2>. HIDE DEF q, r, x
  <2>4. Has(q \o r, x) => Has(q, x) \/ Has(r, x)
    BY <2>3, ListConcat
  <2>. QED BY Zenon, <2>2, <2>4 DEF IsReady, q, r, x
<1>5. Fine(d, p, sm, st, di, f)
  BY Zenon, <1>0, <1>1, <1>3 DEF Fine, Lifted, Absent
<1>6. Moves(f, c, s, sl, st, di, d, p, sm, st, di)
  BY Zenon, <1>0, <1>1, <1>3, <1>4 DEF Moves, Lifted
<1>. QED BY <1>0, <1>2, <1>5, <1>6, RestStep

\* A trap ends a first run: the frame is stopped.
LEMMA StopRest ==
  ASSUME NEW c \in Contexts, NEW s, NEW p, NEW f, Pops(s, p, f), NEW sl, NEW st, NEW di,
         Rest(c, s, sl, st, di), NEW sm, Off(f, sl, st, sm, st), sm[f] = None
  PROVE  Rest([c EXCEPT !.stopped = @ \cup {f}], p, sm, st, di)
<1> DEFINE d == [c EXCEPT !.stopped = @ \cup {f}]
<1>0. f \in Frames
  BY DEF Pops
<1>1. Placed(c, p, sm, st, {f}) /\ Lifted(c, s, p, f)
  BY LiftRest
<1>2. Placed(d, p, sm, st, {})
  BY <1>0, <1>1, PutStopped DEF Lifted
<1>3. d.parked = c.parked /\ d.ready = c.ready /\ d.meta = c.meta
  BY DEF Contexts
<1>. HIDE DEF d
<1>4. \A g \in Frames : /\ Unfinished(d, g) <=> Unfinished(c, g)
                        /\ Registered(d, g) <=> Registered(c, g)
                        /\ IsReady(d, g) <=> IsReady(c, g)
  BY Zenon, <1>3 DEF Unfinished, Registered, IsReady
<1>5. Fine(d, p, sm, st, di, f)
  BY Zenon, <1>0, <1>1, <1>3, <1>4 DEF Fine, Lifted, Absent
<1>6. Moves(f, c, s, sl, st, di, d, p, sm, st, di)
  BY <1>0, <1>1, <1>3, <1>4 DEF Moves, Lifted
<1>7. Rest(d, p, sm, st, di)
  BY <1>0, <1>2, <1>5, <1>6, RestStep
<1>. QED BY <1>7 DEF d

\* A call or an async export starts a new frame, which nobody awaits yet.
LEMMA StartRest ==
  ASSUME NEW c \in Contexts, NEW s \in Seq(Activation), NEW sl, NEW st, NEW di,
         Rest(c, s, sl, st, di), NEW f \in Frames, ~Registered(c, f),
         NEW m \in FrameMeta, m.kind # "none", m.completion = "none", m.waiters = <<>>, ~m.stale,
         NEW a \in Activation, a.frame = f, a.via # "drain",
         NEW su, Off(f, sl, st, sl, su), \A g \in Frames : ~AwaitsIn(c, s, sl, st, g, f)
  PROVE  Rest(Register(c, f, m), Append(s, a), sl, su, di)
<1> DEFINE d == Register(c, f, m)
           t == Append(s, a)
<1>1. ~Unfinished(c, f) /\ Placed(c, s, sl, st, {})
  BY DEF Unfinished, Rest
<1>2. Placed(c, s, sl, st, {f})
  BY <1>1, LiftNew
<1>3. Absent(c, s, f)
  BY <1>2 DEF Placed
<1>4. Placed(c, s, sl, su, {f})
  BY <1>2, <1>3, SlotPlaced DEF Absent, Off
<1>5. Placed(d, s, sl, su, {f}) /\ Unfinished(d, f)
  BY <1>4, RegisterPlaced
<1>6. /\ d.ready = c.ready /\ d.parked = c.parked
      /\ \A g \in Frames \ {f} : d.meta[g] = c.meta[g]
  BY DEF Contexts, Register, SetMeta
<1>7. ~d.meta[f].stale
  BY DEF Contexts, Register, SetMeta, FrameMeta
<1>. HIDE DEF d
<1>8. Placed(d, t, sl, su, {})
  BY <1>5, PutStack
<1>9. \A g \in Frames : /\ On(t, g) <=> On(s, g) \/ g = f
                        /\ OnDrain(t, g) => OnDrain(s, g)
  BY StackPush, PushOthers
<1>10. ~OnDrain(s, f)
  BY Zenon, <1>3 DEF Absent, On, OnDrain
<1>. HIDE DEF t
<1>11. \A g \in Frames \ {f} : /\ Unfinished(d, g) <=> Unfinished(c, g)
                               /\ Registered(d, g) <=> Registered(c, g)
                               /\ IsReady(d, g) <=> IsReady(c, g)
  BY Zenon, <1>6 DEF Unfinished, Registered, IsReady
<1>12. f \notin di
  BY <1>1 DEF Rest, Fine
<1>13. Fine(d, t, sl, su, di, f)
  <2>1. ~IsReady(d, f) /\ ~Has(d.parked, f)
    BY <1>3, <1>6 DEF IsReady, Absent
  <2>. QED BY <1>7, <1>9, <1>10, <1>12, <2>1 DEF Fine
<1>14. ASSUME NEW g \in Frames PROVE ~(IsReady(c, g) /\ st[g] = "await" /\ sl[g] = f)
  <2>1. Place(c, s, g)
    BY <1>1 DEF Placed
  <2>2. IsReady(c, g) => Unfinished(c, g) /\ ~On(s, g)
    BY Zenon, <2>1 DEF Place, OneOf
  <2>. QED BY <2>2 DEF AwaitsIn
<1>15. Moves(f, c, s, sl, st, di, d, t, sl, su, di)
  BY Zenon, <1>5, <1>6, <1>9, <1>11, <1>14 DEF Moves
<1>16. Rest(d, t, sl, su, di)
  BY Zenon, <1>8, <1>13, <1>15, RestStep
<1>. QED BY <1>16 DEF d, t

\* The drain takes a job.
LEMMA TailType ==
  ASSUME NEW c \in Contexts, c.ready # <<>>
  PROVE  [c EXCEPT !.ready = Tail(@)] \in Contexts
<1>1. c.ready \in Seq(Job)
  BY DEF Contexts, JobList
<1>2. Tail(c.ready) \in Seq(Job)
  BY <1>1
<1>. QED BY Zenon, <1>2 DEF Contexts, JobList

\* The drain resumes the frame at the head of the queue.
LEMMA ResumeRest ==
  ASSUME NEW c \in Contexts, NEW sl, NEW st, NEW di, Rest(c, <<>>, sl, st, di),
         c.ready # <<>>, NEW f \in Frames, Head(c.ready) = Invocation(f), ~c.meta[f].stale,
         NEW sm, Off(f, sl, st, sm, st)
  PROVE  Rest([c EXCEPT !.ready = Tail(@)], <<[frame |-> f, via |-> "drain"]>>, sm, st,
              di \cup {f})
<1> DEFINE d == [c EXCEPT !.ready = Tail(@)]
           a == [frame |-> f, via |-> "drain"]
           t == Append(<<>>, a)
<1>0. a \in Activation /\ t = <<a>> /\ <<>> \in Seq(Activation) /\ a.frame = f /\ d \in Contexts
  <2>1. a \in Activation /\ a.frame = f
    BY DEF Activation
  <2>2. d \in Contexts
    BY TailType
  <2>. QED BY <2>1, <2>2
<1>1. Placed(d, <<>>, sl, st, {f}) /\ Unfinished(c, f)
  BY LiftHead DEF Rest
<1>2. /\ d.parked = c.parked /\ d.ready = Tail(c.ready) /\ d.meta = c.meta
      /\ c.ready \in Seq(Job)
  BY DEF Contexts, JobList
<1>. HIDE DEF d
<1>3. Absent(d, <<>>, f)
  BY <1>1 DEF Placed
<1>4. \A g \in Frames : /\ Unfinished(d, g) <=> Unfinished(c, g)
                        /\ Registered(d, g) <=> Registered(c, g)
                        /\ IsReady(d, g) => IsReady(c, g)
  <2>1. \A g \in Frames : Has(Tail(c.ready), Invocation(g)) => Has(c.ready, Invocation(g))
    BY <1>2, ListTail
  <2>. QED BY Zenon, <1>2, <2>1 DEF Unfinished, Registered, IsReady
<1>5. Placed(d, <<>>, sm, st, {f})
  BY <1>1, <1>3, SlotPlaced DEF Absent, Off
<1>6. Placed(d, t, sm, st, {})
  BY Zenon, <1>0, <1>1, <1>4, <1>5, PutStack
<1>7. \A g \in Frames \ {f} : (On(t, g) <=> On(<<>>, g)) /\ (OnDrain(t, g) => OnDrain(<<>>, g))
  BY Zenon, <1>0, StackPush, PushOthers
<1>8. On(t, f)
  BY Zenon, <1>0, StackPush
<1>. HIDE DEF t, a
<1>9. Fine(d, t, sm, st, di \cup {f}, f)
  BY <1>1, <1>2, <1>3, <1>4, <1>8 DEF Fine, Absent
<1>10. Moves(f, c, <<>>, sl, st, di, d, t, sm, st, di \cup {f})
  BY Zenon, <1>1, <1>2, <1>4, <1>7 DEF Moves
<1>11. Rest(d, t, sm, st, di \cup {f})
  BY <1>6, <1>9, <1>10, RestStep
<1>. QED BY <1>0, <1>11 DEF d, a

\* The drain refuses the frame at the head, which stays there.
LEMMA RefuseRest ==
  ASSUME NEW c \in Contexts, NEW s, NEW sl, NEW st, NEW di, Rest(c, s, sl, st, di),
         c.ready # <<>>, NEW f \in Frames, Head(c.ready) = Invocation(f),
         f \in di \/ c.meta[f].stale,
         NEW sm, Off(f, sl, st, sm, st), sm[f] = None,
         NEW d, d.parked = c.parked, d.stopped = c.stopped, d.meta = c.meta,
         d.ready = <<Invocation(f)>> \o Tail(c.ready)
  PROVE  Rest(d, s, sm, st, di)
<1> DEFINE b == [c EXCEPT !.ready = Tail(@)]
<1>0. b \in Contexts
  BY TailType
<1>1. Placed(b, s, sl, st, {f}) /\ Unfinished(c, f)
  BY LiftHead DEF Rest
<1>2. /\ b.parked = c.parked /\ b.ready = Tail(c.ready) /\ b.meta = c.meta
      /\ b.stopped = c.stopped
  BY DEF Contexts
<1>. HIDE DEF b
<1>3. Absent(b, s, f)
  BY <1>1 DEF Placed
<1>4. Placed(b, s, sm, st, {f})
  BY <1>1, <1>3, SlotPlaced DEF Absent, Off
<1>5. Unfinished(b, f)
  BY <1>1, <1>2 DEF Unfinished, Registered
<1>6. Placed(d, s, sm, st, {})
  BY Zenon, <1>0, <1>2, <1>4, <1>5, PutReady
<1>7. \A g \in Frames : /\ Unfinished(d, g) <=> Unfinished(c, g)
                        /\ Registered(d, g) <=> Registered(c, g)
                        /\ Waits(d, g) <=> Waits(c, g)
  BY Zenon DEF Unfinished, Registered, Waits, WaitsFor
<1>8. \A g \in Frames : IsReady(d, g) => IsReady(c, g)
  BY Zenon, <1>6, <1>7 DEF Rest, Placed, Place, OneOf
<1>9. Fine(d, s, sm, st, di, f)
  <2>1. ~On(s, f) /\ ~Has(d.parked, f) /\ ~OnDrain(s, f)
    BY Zenon, <1>2, <1>3 DEF Absent, On, OnDrain
  <2>. QED BY Zenon, <1>1, <1>7, <2>1 DEF Fine
<1>10. Moves(f, c, s, sl, st, di, d, s, sm, st, di)
  BY Zenon, <1>1, <1>7, <1>8 DEF Moves
<1>. QED BY <1>6, <1>9, <1>10, RestStep

\* Clearance stops the frame at the head.
LEMMA StopHeadRest ==
  ASSUME NEW c \in Contexts, NEW s, NEW sl, NEW st, NEW di, Rest(c, s, sl, st, di),
         c.ready # <<>>, NEW f \in Frames, Head(c.ready) = Invocation(f),
         NEW d, d.parked = c.parked, d.stopped = c.stopped \cup {f}, d.meta = c.meta,
         d.ready = Tail(c.ready)
  PROVE  Rest(d, s, sl, st, di)
<1> DEFINE b == [c EXCEPT !.ready = Tail(@)]
           e == [b EXCEPT !.stopped = @ \cup {f}]
<1>0. b \in Contexts
  BY TailType
<1>1. Placed(b, s, sl, st, {f}) /\ Unfinished(c, f)
  BY LiftHead DEF Rest
<1>2. /\ b.parked = c.parked /\ b.ready = Tail(c.ready) /\ b.meta = c.meta
      /\ b.stopped = c.stopped
      /\ e.parked = c.parked /\ e.ready = Tail(c.ready) /\ e.meta = c.meta
      /\ e.stopped = c.stopped \cup {f}
  BY DEF Contexts
<1>3. Absent(b, s, f)
  BY <1>1 DEF Placed
<1>4. Unfinished(b, f)
  BY <1>1, <1>2 DEF Unfinished, Registered
<1>5. Placed(e, s, sl, st, {})
  BY Zenon, <1>0, <1>1, <1>4, PutStopped
<1>. HIDE DEF b, e
<1>6. \A g \in Frames : /\ Unfinished(d, g) <=> Unfinished(c, g)
                        /\ Registered(d, g) <=> Registered(c, g)
                        /\ Unfinished(d, g) <=> Unfinished(e, g)
  BY Zenon, <1>2 DEF Unfinished, Registered
<1>7. Alike(e, d)
  BY <1>2, <1>6 DEF Alike
<1>8. Placed(d, s, sl, st, {})
  BY <1>5, <1>7, AlikePlaced
<1>9. ASSUME NEW g \in Frames PROVE IsReady(d, g) => IsReady(c, g)
  <2>1. c.ready \in Seq(Job)
    BY DEF Contexts, JobList
  <2>2. Has(Tail(c.ready), Invocation(g)) => Has(c.ready, Invocation(g))
    BY <2>1, ListTail
  <2>. QED BY <2>2 DEF IsReady
<1>10. Fine(d, s, sl, st, di, f)
  <2>1. ~On(s, f) /\ ~Has(d.parked, f) /\ ~OnDrain(s, f) /\ ~IsReady(d, f)
    BY Zenon, <1>2, <1>3 DEF Absent, On, OnDrain, IsReady
  <2>. QED BY Zenon, <1>1, <1>6, <2>1 DEF Fine, Rest
<1>11. Moves(f, c, s, sl, st, di, d, s, sl, st, di)
  BY Zenon, <1>1, <1>6, <1>9 DEF Moves, Off
<1>. QED BY <1>8, <1>10, <1>11, RestStep

\* A checkpoint begins.
LEMMA CheckpointRest ==
  ASSUME NEW c \in Contexts, NEW s, NEW sl, NEW st, NEW di, Rest(c, s, sl, st, di)
  PROVE  Rest([c EXCEPT !.ready = @ \o [i \in DOMAIN c.parked |-> Invocation(c.parked[i])],
                        !.parked = <<>>], s, sl, st, di)
<1> DEFINE p == [i \in DOMAIN c.parked |-> Invocation(c.parked[i])]
           d == [c EXCEPT !.ready = @ \o p, !.parked = <<>>]
<1>1. Placed(d, s, sl, st, {})
  BY Zenon, CheckpointPlaced DEF Rest
<1>2. d.parked = <<>> /\ d.stopped = c.stopped /\ d.meta = c.meta
  BY DEF Contexts
<1>. HIDE DEF d
<1>3. \A g \in Frames : /\ Unfinished(d, g) <=> Unfinished(c, g)
                        /\ Registered(d, g) <=> Registered(c, g)
                        /\ Waits(d, g) <=> Waits(c, g)
                        /\ ~Has(d.parked, g)
  BY Zenon, <1>2, ListSmall DEF Unfinished, Registered, Waits, WaitsFor
<1>4. \A g \in Frames : IsReady(d, g) => IsReady(c, g) \/ Has(c.parked, g)
  BY Zenon, <1>1, <1>2, <1>3 DEF Rest, Placed, Place, OneOf
<1>5. \A h : Done(c, h) => Done(d, h)
  BY Zenon, <1>2, <1>3 DEF Done
<1>6. ASSUME NEW g \in Frames PROVE Fine(d, s, sl, st, di, g)
  <2>1. Fine(c, s, sl, st, di, g)
    BY DEF Rest
  <2>2. Has(c.parked, g) => st[g] # "await"
    BY <2>1 DEF Fine
  <2>. QED BY Zenon, <1>2, <1>3, <1>4, <1>5, <2>1, <2>2 DEF Fine
<1>7. Rest(d, s, sl, st, di)
  BY <1>1, <1>6 DEF Rest
<1>. QED BY <1>7 DEF d

\* A reload invalidates every frame, with no frame running.
LEMMA ReloadRest ==
  ASSUME NEW c \in Contexts, NEW sl, NEW st, NEW di, Rest(c, <<>>, sl, st, di)
  PROVE  Rest(BumpReloadEpoch(c), <<>>, sl, st, di)
<1> DEFINE d == BumpReloadEpoch(c)
<1>1. /\ d.ready = c.ready /\ d.parked = c.parked /\ d.stopped = c.stopped
      /\ \A g \in Frames : /\ d.meta[g].kind = c.meta[g].kind
                           /\ d.meta[g].completion = c.meta[g].completion
                           /\ d.meta[g].waiters = c.meta[g].waiters
                           /\ Registered(c, g) => d.meta[g].stale
  BY DEF Contexts, FrameMeta, BumpReloadEpoch
<1>. HIDE DEF d
<1>2. \A g \in Frames : /\ Unfinished(d, g) <=> Unfinished(c, g)
                        /\ IsReady(d, g) <=> IsReady(c, g)
                        /\ Unfinished(c, g) => Registered(c, g)
  BY Zenon, <1>1 DEF Unfinished, Registered, IsReady
<1>3. Alike(c, d)
  BY Zenon, <1>1, <1>2 DEF Alike
<1>4. Placed(d, <<>>, sl, st, {})
  BY <1>3, AlikePlaced DEF Rest
<1>5. ASSUME NEW g \in Frames PROVE Fine(d, <<>>, sl, st, di, g)
  <2>1. Fine(c, <<>>, sl, st, di, g) /\ Place(c, <<>>, g)
    BY DEF Rest, Placed
  <2>2. IsReady(d, g) => d.meta[g].stale
    BY Zenon, <1>1, <1>2, <2>1 DEF Place, OneOf
  <2>3. ~On(<<>>, g)
    BY Zenon, StackSmall
  <2>. QED BY Zenon, <1>1, <1>2, <2>1, <2>2, <2>3 DEF Fine
<1>6. Rest(d, <<>>, sl, st, di)
  BY <1>4, <1>5 DEF Rest
<1>. QED BY <1>6 DEF d

\* An export has no frame.
LEMMA NoFrameRest ==
  ASSUME NEW c, NEW s, NEW t, NEW sl, NEW st, NEW di, Rest(c, s, sl, st, di),
         \A f \in Frames : /\ (On(t, f) <=> On(s, f)) /\ (OnOnce(s, f) => OnOnce(t, f))
                           /\ OnDrain(t, f) => OnDrain(s, f)
  PROVE  Rest(c, t, sl, st, di)
<1>1. Placed(c, t, sl, st, {})
  BY Zenon, NoFramePlaced DEF Rest
<1>2. ASSUME NEW g \in Frames PROVE Fine(c, t, sl, st, di, g)
  <2>1. Fine(c, s, sl, st, di, g)
    BY DEF Rest
  <2>. QED BY Zenon, <2>1 DEF Fine
<1>. QED BY <1>1, <1>2 DEF Rest

\* The places read nothing else.
LEMMA SameRest ==
  ASSUME NEW c, NEW d, SameFields(c, d), NEW s, NEW sl, NEW st, NEW di, Rest(c, s, sl, st, di)
  PROVE  Rest(d, s, sl, st, di)
<1>1. \A f : Unfinished(d, f) <=> Unfinished(c, f)
  BY DEF SameFields, Unfinished, Registered
<1>2. Waiting(d, sl, st)
  BY <1>1 DEF SameFields, Rest, Placed, Waiting, WaitsFor
<1>3. ASSUME NEW f \in Frames PROVE Place(d, s, f)
  <2>1. Place(c, s, f)
    BY DEF Rest, Placed
  <2>2. (IsReady(d, f) <=> IsReady(c, f)) /\ (Waits(d, f) <=> Waits(c, f))
    BY DEF SameFields, IsReady, Waits, WaitsFor
  <2>3. OneOf(Unfinished(d, f), On(s, f), IsReady(d, f), Has(d.parked, f), Waits(d, f),
              f \in d.stopped)
    BY Zenon, <1>1, <2>1, <2>2 DEF Place, OneOf, SameFields
  <2>. QED BY <2>1, <2>3 DEF Place, SameFields
<1>4. ASSUME NEW f \in Frames PROVE Fine(d, s, sl, st, di, f)
  <2>1. Fine(c, s, sl, st, di, f)
    BY DEF Rest
  <2>2. Done(c, sl[f]) => Done(d, sl[f])
    BY <1>1 DEF Done, SameFields, Registered
  <2>. QED BY Zenon, <1>1, <2>1, <2>2 DEF Fine, SameFields, IsReady
<1>. QED BY <1>2, <1>3, <1>4 DEF Rest, Placed
-----------------------------------------------------------------------------
(* What a step does to the frames that do not run. *)

\* Frames of the same kinds, completions and waiters are equally unfinished.
LEMMA SameTasksSame ==
  ASSUME NEW c, NEW d, SameTasks(c, d)
  PROVE  /\ \A g : (Registered(d, g) <=> Registered(c, g)) /\ (Unfinished(d, g) <=> Unfinished(c, g))
         /\ \A g, h \in Frames : WaitsFor(d, g, h) <=> WaitsFor(c, g, h)
BY DEF SameTasks, Registered, Unfinished, WaitsFor

\* A step that changes no frame's meta but its counts: what remains to be shown
\* of the lists.
LEMMA FlowLists ==
  ASSUME NEW c, NEW s, Settled(c, s), NEW d, NEW t, SameTasks(c, d),
         OneStarts(s, t), AllLeave(c, d), c.stopped \subseteq d.stopped,
         \A g \in Frames :
           /\ Has(c.parked, g) => Has(d.parked, g) \/ IsReady(d, g)
           /\ IsReady(c, g) => IsReady(d, g) \/ On(t, g) \/ g \in d.stopped
  PROVE  Flow(c, s, d, t)
<1>. SUFFICES ASSUME NEW g \in Frames PROVE FrameFlow(c, s, d, t, g)
  BY DEF Flow
<1>1. /\ (Registered(d, g) <=> Registered(c, g)) /\ (Unfinished(d, g) <=> Unfinished(c, g))
      /\ \A h \in Frames : /\ WaitsFor(d, g, h) <=> WaitsFor(c, g, h)
                           /\ Unfinished(d, h) <=> Unfinished(c, h)
  BY SameTasksSame
<1>2. \A h \in Frames : WaitsFor(c, g, h) => Unfinished(c, h)
  BY DEF Settled
<1>. QED BY Zenon, <1>1, <1>2 DEF FrameFlow

\* A change that moves no frame may follow.
LEMMA FlowTame ==
  ASSUME NEW c, NEW s, NEW e, NEW t, Flow(c, s, e, t), NEW d, Tame(e, d)
  PROVE  Flow(c, s, d, t)
<1>1. /\ d.ready = e.ready /\ d.parked = e.parked /\ d.stopped = e.stopped
      /\ \A h \in Frames :
           /\ Unfinished(d, h) <=> Unfinished(e, h)
           /\ Registered(d, h) => Registered(e, h)
           /\ Unfinished(e, h) => d.meta[h].waiters = e.meta[h].waiters
  BY Zenon DEF Tame, Alike
<1>2. \A g \in Frames : IsReady(d, g) <=> IsReady(e, g)
  BY <1>1 DEF IsReady
<1>3. \A g, h \in Frames : Unfinished(e, h) => (WaitsFor(d, g, h) <=> WaitsFor(e, g, h))
  BY <1>1 DEF WaitsFor
<1>4. ASSUME NEW g \in Frames PROVE FrameFlow(c, s, d, t, g)
  <2>1. FrameFlow(c, s, e, t, g)
    BY DEF Flow
  <2>. QED BY Zenon, <1>1, <1>2, <1>3, <2>1 DEF FrameFlow
<1>5. OneStarts(s, t) /\ AllLeave(c, d)
  BY <1>1 DEF Flow, AllLeave
<1>. QED BY <1>4, <1>5 DEF Flow

\* A change of the word or of the trap may come first.
LEMMA FlowSame ==
  ASSUME NEW c, NEW b, b.meta = c.meta, b.ready = c.ready, b.parked = c.parked,
         b.stopped = c.stopped, NEW s, NEW d, NEW t, Flow(b, s, d, t)
  PROVE  Flow(c, s, d, t)
BY Zenon DEF Flow, FrameFlow, AllLeave, IsReady, WaitsFor, Unfinished, Registered

\* No activation is new on a stack that ends.
LEMMA PopStarts ==
  ASSUME NEW s, NEW p, NEW f, Pops(s, p, f)
  PROVE  /\ OneStarts(s, p) /\ On(s, f)
         /\ \A g \in Frames \ {f} : On(p, g) <=> On(s, g)
<1>1. \A g \in Frames : On(s, g) <=> On(p, g) \/ g = f
  BY StackPop DEF Pops
<1>. QED BY Zenon, <1>1 DEF OneStarts, Pops

\* A frame that runs is in no other place, and no frame is parked twice.
LEMMA RunsOnly ==
  ASSUME NEW c, NEW s, Settled(c, s), NEW f \in Frames, On(s, f)
  PROVE  /\ Unfinished(c, f) /\ Registered(c, f) /\ ~IsReady(c, f) /\ ~Has(c.parked, f)
         /\ ~Waits(c, f) /\ f \notin c.stopped
<1>1. Place(c, s, f)
  BY DEF Settled
<1>. QED BY Zenon, <1>1 DEF Place, OneOf, Unfinished

\* Context.suspend().
LEMMA ParkFlow ==
  ASSUME NEW c \in Contexts, NEW s, Settled(c, s), NEW p, NEW f, Pops(s, p, f),
         NEW d, SameTasks(c, d), d.ready = c.ready, d.stopped = c.stopped,
         d.parked = Append(c.parked, f)
  PROVE  Flow(c, s, d, p)
<1>1. c.parked \in Seq(Frames) /\ f \in Frames
  BY DEF Contexts, FrameList, Pops
<1>2. \A g \in Frames : Has(d.parked, g) <=> Has(c.parked, g) \/ g = f
  BY <1>1, ListAppend
<1>3. AllLeave(c, d) /\ \A g \in Frames : IsReady(d, g) <=> IsReady(c, g)
  BY <1>2 DEF AllLeave, IsReady
<1>. QED BY Zenon, <1>2, <1>3, PopStarts, FlowLists

\* An await.
LEMMA AwaitFlow ==
  ASSUME NEW c \in Contexts, NEW s, Settled(c, s), NEW p, NEW f, Pops(s, p, f),
         NEW h \in Frames, NEW b \in Contexts, SameTasks(c, b), b.ready = c.ready,
         b.stopped = c.stopped, b.parked = c.parked
  PROVE  Flow(c, s, Enqueue(b, h, Invocation(f)), p)
<1> DEFINE d == Enqueue(b, h, Invocation(f))
<1>1. c.ready \in Seq(Job) /\ f \in Frames /\ Invocation(f) \in Job
  BY InvocationType DEF Contexts, JobList, Pops
<1>2. OneStarts(s, p)
  BY PopStarts
<1>3. CASE ~Unfinished(b, h)
  <2>1. /\ d.ready = Append(c.ready, Invocation(f)) /\ d.parked = c.parked
        /\ d.stopped = c.stopped /\ d.meta = b.meta
    BY <1>3 DEF Enqueue, Contexts
  <2>. HIDE DEF d
  <2>2. \A g \in Frames : IsReady(c, g) => IsReady(d, g)
    BY <1>1, <2>1, ListAppend DEF IsReady
  <2>3. SameTasks(c, d) /\ AllLeave(c, d)
    BY <2>1 DEF SameTasks, AllLeave
  <2>4. Flow(c, s, d, p)
    BY <1>2, <2>1, <2>2, <2>3, FlowLists
  <2>. QED BY <2>4 DEF d
<1>4. CASE Unfinished(b, h)
  <2>1. /\ d.ready = c.ready /\ d.parked = c.parked /\ d.stopped = c.stopped
        /\ d.meta[h].waiters = Append(c.meta[h].waiters, Invocation(f))
        /\ \A g \in Frames : /\ d.meta[g].kind = c.meta[g].kind
                             /\ d.meta[g].completion = c.meta[g].completion
                             /\ g # h => d.meta[g].waiters = c.meta[g].waiters
    <3> DEFINE w == Append(b.meta[h].waiters, Invocation(f))
               m == [b.meta[h] EXCEPT !.waiters = w]
    <3>1. /\ d.ready = b.ready /\ d.parked = b.parked /\ d.stopped = b.stopped
          /\ d.meta = [b.meta EXCEPT ![h] = m]
      BY <1>4 DEF Enqueue, SetMeta, Contexts
    <3>2. b.meta \in [Frames -> FrameMeta] /\ w = Append(c.meta[h].waiters, Invocation(f))
      BY DEF Contexts, SameTasks
    <3>. HIDE DEF d, w
    <3>3. m.waiters = w /\ m.kind = b.meta[h].kind /\ m.completion = b.meta[h].completion
      BY Zenon, <3>2 DEF FrameMeta
    <3>. HIDE DEF m
    <3>4. d.meta[h] = m /\ \A g \in Frames : g # h => d.meta[g] = b.meta[g]
      BY <3>1, <3>2
    <3>. QED BY <3>1, <3>2, <3>3, <3>4 DEF SameTasks
  <2>. HIDE DEF d
  <2>2. c.meta[h].waiters \in Seq(Job)
    BY DEF Contexts, FrameMeta, JobList
  <2>3. \A g, k \in Frames : WaitsFor(c, g, k) => WaitsFor(d, g, k)
    <3>1. ASSUME NEW x, Has(c.meta[h].waiters, x) PROVE Has(d.meta[h].waiters, x)
      <4> DEFINE w == c.meta[h].waiters
                 j == Invocation(f)
      <4>1. w \in Seq(Job) /\ j \in Job /\ Has(w, x) /\ d.meta[h].waiters = Append(w, j)
        BY <1>1, <2>1, <2>2, <3>1
      <4>. HIDE DEF w, j
      <4>2. Has(Append(w, j), x)
        BY <4>1, ListAppend
      <4>. QED BY <4>1, <4>2
    <3>. QED BY Zenon, <2>1, <3>1 DEF WaitsFor
  <2>4. \A g \in Frames : /\ Registered(d, g) <=> Registered(c, g)
                          /\ Unfinished(d, g) <=> Unfinished(c, g)
                          /\ IsReady(d, g) <=> IsReady(c, g)
    BY <2>1 DEF Registered, Unfinished, IsReady
  <2>5. ASSUME NEW g \in Frames PROVE FrameFlow(c, s, d, p, g)
    <3>1. \A k \in Frames : WaitsFor(c, g, k) => Unfinished(c, k)
      BY DEF Settled
    <3>. QED BY Zenon, <2>1, <2>3, <2>4, <3>1 DEF FrameFlow
  <2>6. AllLeave(c, d)
    BY <2>1 DEF AllLeave
  <2>7. Flow(c, s, d, p)
    BY <1>2, <2>5, <2>6 DEF Flow
  <2>. QED BY <2>7 DEF d
<1>. QED BY <1>3, <1>4

\* The end of a body.
LEMMA FinishFlow ==
  ASSUME NEW c \in Contexts, NEW s, Settled(c, s), NEW p, NEW f, Pops(s, p, f), NEW k, k # "none"
  PROVE  Flow(c, s, CompleteWith(c, f, k), p)
<1> DEFINE d == CompleteWith(c, f, k)
<1>. f \in Frames
  BY DEF Pops
<1>0. OneStarts(s, p) /\ On(s, f)
  BY PopStarts
<1>1. Unfinished(c, f)
  BY <1>0, RunsOnly
<1>2. /\ d.ready = c.ready \o c.meta[f].waiters /\ d.parked = c.parked /\ d.stopped = c.stopped
      /\ d.meta[f].completion = k
      /\ \A g \in Frames \ {f} : d.meta[g] = c.meta[g]
      /\ d.meta[f].kind = c.meta[f].kind
  BY <1>0, <1>1 DEF CompleteWith, SetMeta, Contexts, FrameMeta
<1>3. c.ready \in Seq(Job) /\ c.meta[f].waiters \in Seq(Job)
  BY <1>0 DEF Contexts, FrameMeta, JobList
<1>. HIDE DEF d
<1>4. \A g \in Frames : IsReady(d, g) <=> IsReady(c, g) \/ WaitsFor(c, g, f)
  BY <1>2, <1>3, ListConcat DEF IsReady, WaitsFor
<1>5. /\ ~Unfinished(d, f) /\ (Registered(d, f) <=> Registered(c, f))
      /\ \A g \in Frames \ {f} : /\ Registered(d, g) <=> Registered(c, g)
                                 /\ Unfinished(d, g) <=> Unfinished(c, g)
                                 /\ \A h \in Frames : WaitsFor(d, h, g) <=> WaitsFor(c, h, g)
  BY <1>2 DEF Registered, Unfinished, WaitsFor
<1>6. ASSUME NEW g \in Frames PROVE FrameFlow(c, s, d, p, g)
  <2>1. \A h \in Frames : WaitsFor(c, g, h) => Unfinished(c, h)
    BY DEF Settled
  <2>2. ASSUME NEW h \in Frames, WaitsFor(c, g, h)
        PROVE  IF Unfinished(d, h) THEN WaitsFor(d, g, h) ELSE IsReady(d, g)
    BY <1>4, <1>5, <2>1, <2>2
  <2>3. Registered(c, g) /\ ~On(s, g) => (Unfinished(d, g) <=> Unfinished(c, g))
    BY <1>0, <1>5
  <2>4. Registered(d, g) => Registered(c, g)
    BY <1>5
  <2>. QED BY Zenon, <1>2, <1>4, <2>2, <2>3, <2>4 DEF FrameFlow
<1>7. AllLeave(c, d)
  BY <1>2 DEF AllLeave
<1>8. Flow(c, s, d, p)
  BY <1>0, <1>6, <1>7 DEF Flow
<1>. QED BY <1>8 DEF d

\* A body that traps: the drain puts its job back at the head.
LEMMA RequeueFlow ==
  ASSUME NEW c \in Contexts, NEW s, Settled(c, s), NEW p, NEW f, Pops(s, p, f),
         NEW d, d.parked = c.parked, d.stopped = c.stopped, d.meta = c.meta,
         d.ready = <<Invocation(f)>> \o c.ready
  PROVE  Flow(c, s, d, p)
<1>1. c.ready \in Seq(Job) /\ <<Invocation(f)>> \in Seq(Job)
  BY InvocationType DEF Contexts, JobList, Pops
<1>2. ASSUME NEW g \in Frames, IsReady(c, g) PROVE IsReady(d, g)
  <2>1. Has(c.ready, Invocation(g))
    BY <1>2 DEF IsReady
  <2>2. Has(<<Invocation(f)>> \o c.ready, Invocation(g))
    BY Zenon, <1>1, <2>1, ListConcat
  <2>. QED BY <2>2 DEF IsReady
<1>3. SameTasks(c, d) /\ AllLeave(c, d)
  BY DEF SameTasks, AllLeave
<1>. QED BY <1>2, <1>3, PopStarts, FlowLists

\* A body that traps in its start: the frame is stopped.
LEMMA StopFlow ==
  ASSUME NEW c \in Contexts, NEW s, Settled(c, s), NEW p, NEW f, Pops(s, p, f)
  PROVE  Flow(c, s, [c EXCEPT !.stopped = @ \cup {f}], p)
<1> DEFINE d == [c EXCEPT !.stopped = @ \cup {f}]
<1>1. /\ d.ready = c.ready /\ d.parked = c.parked /\ d.stopped = c.stopped \cup {f}
      /\ d.meta = c.meta
  BY DEF Contexts
<1>. HIDE DEF d
<1>2. SameTasks(c, d) /\ AllLeave(c, d) /\ c.stopped \subseteq d.stopped
      /\ \A g \in Frames : IsReady(d, g) <=> IsReady(c, g)
  BY <1>1 DEF SameTasks, AllLeave, IsReady
<1>3. Flow(c, s, d, p)
  BY <1>1, <1>2, PopStarts, FlowLists
<1>. QED BY <1>3 DEF d

\* Nothing happens to the frames; an export may begin or end.
LEMMA SameFlow ==
  ASSUME NEW c, NEW s, Settled(c, s), NEW d, SameTasks(c, d), d.ready = c.ready,
         d.parked = c.parked, d.stopped = c.stopped, NEW t,
         \A g \in Frames : On(t, g) => On(s, g)
  PROVE  Flow(c, s, d, t)
<1>1. OneStarts(s, t) /\ AllLeave(c, d) /\ c.stopped \subseteq d.stopped
      /\ \A g \in Frames : IsReady(d, g) <=> IsReady(c, g)
  BY DEF OneStarts, AllLeave, IsReady
<1>. QED BY <1>1, FlowLists

\* A call of an async function registers a frame and runs it; a host call may
\* stop the frame of a trapping job first.
LEMMA StartFlow ==
  ASSUME NEW c \in Contexts, NEW s, Settled(c, s), NEW f \in Frames, ~Registered(c, f),
         NEW b \in Contexts, b.meta = c.meta, b.parked = c.parked, c.stopped \subseteq b.stopped,
         \A g \in Frames : IsReady(c, g) => IsReady(b, g) \/ g \in b.stopped,
         NEW m \in FrameMeta, m.kind # "none", m.completion = "none",
         NEW t, \A g \in Frames : On(t, g) <=> On(s, g) \/ g = f
  PROVE  Flow(c, s, Register(b, f, m), t)
<1> DEFINE d == Register(b, f, m)
<1>1. /\ d.ready = b.ready /\ d.parked = c.parked /\ d.stopped = b.stopped
      /\ \A g \in Frames \ {f} : d.meta[g] = c.meta[g]
  BY DEF Register, SetMeta, Contexts
<1>. HIDE DEF d
<1>2. /\ \A g \in Frames : IsReady(d, g) <=> IsReady(b, g)
      /\ \A g \in Frames \ {f} : /\ Registered(d, g) <=> Registered(c, g)
                                 /\ Unfinished(d, g) <=> Unfinished(c, g)
                                 /\ \A h \in Frames : WaitsFor(d, h, g) <=> WaitsFor(c, h, g)
  BY <1>1 DEF IsReady, Registered, Unfinished, WaitsFor
<1>3. \A g, h \in Frames : WaitsFor(c, g, h) => h # f /\ Unfinished(c, h)
  BY DEF Settled, Unfinished
<1>4. ASSUME NEW g \in Frames PROVE FrameFlow(c, s, d, t, g)
  <2>1. Registered(c, g) => (Unfinished(d, g) <=> Unfinished(c, g))
    BY <1>2
  <2>2. Registered(d, g) => Registered(c, g) \/ On(t, g)
    BY <1>2
  <2>3. ASSUME NEW h \in Frames, WaitsFor(c, g, h)
        PROVE  IF Unfinished(d, h) THEN WaitsFor(d, g, h) ELSE IsReady(d, g)
    BY <1>2, <1>3, <2>3
  <2>. QED BY Zenon, <1>1, <1>2, <2>1, <2>2, <2>3 DEF FrameFlow
<1>5. OneStarts(s, t) /\ AllLeave(c, d)
  BY <1>1 DEF OneStarts, AllLeave
<1>6. Flow(c, s, d, t)
  BY <1>4, <1>5 DEF Flow
<1>. QED BY <1>6 DEF d

\* The drain resumes the head of the queue.
LEMMA ResumeFlow ==
  ASSUME NEW c \in Contexts, Settled(c, <<>>), c.ready # <<>>,
         NEW f \in Frames, Head(c.ready) = Invocation(f)
  PROVE  Flow(c, <<>>, [c EXCEPT !.ready = Tail(@)], <<[frame |-> f, via |-> "drain"]>>)
<1> DEFINE d == [c EXCEPT !.ready = Tail(@)]
           t == <<[frame |-> f, via |-> "drain"]>>
<1>1. /\ d.ready = Tail(c.ready) /\ d.parked = c.parked /\ d.stopped = c.stopped
      /\ d.meta = c.meta /\ c.ready \in Seq(Job)
  BY DEF Contexts, JobList
<1>2. \A g : (On(t, g) <=> g = f) /\ ~On(<<>>, g)
  BY StackSmall
<1>. HIDE DEF d, t
<1>3. \A g \in Frames : IsReady(c, g) => IsReady(d, g) \/ g = f
  BY <1>1, ListTail, InvocationOne DEF IsReady
<1>4. SameTasks(c, d) /\ AllLeave(c, d) /\ OneStarts(<<>>, t)
  BY <1>1, <1>2 DEF SameTasks, AllLeave, OneStarts
<1>5. Flow(c, <<>>, d, t)
  BY <1>1, <1>2, <1>3, <1>4, FlowLists
<1>. QED BY <1>5 DEF d, t

\* The adapter refuses the head of the queue, which stays there.
LEMMA RefuseFlow ==
  ASSUME NEW c \in Contexts, NEW s, Settled(c, s), c.ready # <<>>,
         NEW d, d.parked = c.parked, d.stopped = c.stopped, d.meta = c.meta,
         d.ready = <<Head(c.ready)>> \o Tail(c.ready)
  PROVE  Flow(c, s, d, s)
<1>1. c.ready \in Seq(Job)
  BY DEF Contexts, JobList
<1>2. d.ready = c.ready
  BY <1>1
<1>3. SameTasks(c, d)
  BY DEF SameTasks
<1>. QED BY <1>2, <1>3, SameFlow

\* A checkpoint takes the parked list.
LEMMA CheckpointFlow ==
  ASSUME NEW c \in Contexts, NEW s, Settled(c, s)
  PROVE  Flow(c, s, [c EXCEPT !.ready = @ \o [i \in DOMAIN c.parked |-> Invocation(c.parked[i])],
                              !.parked = <<>>], s)
<1> DEFINE p == [i \in DOMAIN c.parked |-> Invocation(c.parked[i])]
           d == [c EXCEPT !.ready = @ \o p, !.parked = <<>>]
<1>1. /\ d.ready = c.ready \o p /\ d.parked = <<>> /\ d.stopped = c.stopped
      /\ d.meta = c.meta /\ c.ready \in Seq(Job) /\ c.parked \in FrameList
  BY DEF Contexts, JobList
<1>2. \A g \in Frames : p \in Seq(Job) /\ (Has(p, Invocation(g)) <=> Has(c.parked, g))
  BY Zenon, <1>1, ListParked DEF JobList
<1>. HIDE DEF p, d
<1>3. \A g \in Frames : IsReady(d, g) <=> IsReady(c, g) \/ Has(c.parked, g)
  BY <1>1, <1>2, ListConcat DEF IsReady
<1>4. SameTasks(c, d) /\ AllLeave(c, d) /\ OneStarts(s, s)
  BY Zenon, <1>1, ListSmall DEF SameTasks, AllLeave, OneStarts
<1>5. Flow(c, s, d, s)
  BY Zenon, <1>1, <1>3, <1>4, FlowLists
<1>. QED BY <1>5 DEF p, d

\* clear_trap changes nothing, or stops the frame of the trapping job.
LEMMA ClearFields ==
  ASSUME NEW c, Good(c), Settled(c, <<>>), NEW e, Trapping(c, e)
  PROVE  LET d == ClearTrap(c)
         IN  /\ d.meta = c.meta /\ d.parked = c.parked /\ d.trapping = NoJob
             /\ \/ d.ready = c.ready /\ d.stopped = c.stopped
                \/ \E f \in Frames : /\ c.ready # <<>> /\ Head(c.ready) = Invocation(f)
                                     /\ d.ready = Tail(c.ready) /\ d.stopped = c.stopped \cup {f}
<1> DEFINE d == ClearTrap(c)
           j == c.trapping.job
<1>0. c \in Contexts /\ d \in Contexts /\ d.meta = c.meta
  BY ClearTrapType, ClearTrapInvocations DEF Good
<1>1. CASE c.trapping.kind \in {"none", "StaleCoroutine"}
  BY <1>0, <1>1 DEF ClearTrap, Contexts
<1>2. CASE c.trapping.kind \notin {"none", "StaleCoroutine"}
  <2>1. /\ c.trapping # NoJob /\ c.ready # <<>> /\ j = Head(c.ready) /\ j.tag = "invocation"
    BY <1>2 DEF Trapping, NoJob
  <2>2. PICK f \in Frames : j = Invocation(f)
    <3>1. j \in Job
      BY <1>0, <2>1 DEF Contexts, JobList
    <3>. QED BY <2>1, <3>1 DEF Job, Invocation
  <2>3. Dequeue(c.ready, j) = Tail(c.ready)
    <3>1. Place(c, <<>>, f)
      BY DEF Settled
    <3>2. Single(c.ready, Head(c.ready))
      BY <2>1, <2>2, <3>1 DEF Place
    <3>. QED BY <1>0, <2>1, <3>2, ListDequeue DEF Contexts
  <2>4. /\ d.parked = c.parked /\ d.stopped = c.stopped \cup {f} /\ d.ready = Tail(c.ready)
        /\ d.trapping = NoJob
    <3>1. j.tag = "invocation" /\ j.at = f
      BY <2>2 DEF Invocation
    <3>2. ClearTrappingJob([c EXCEPT !.ready = Tail(c.ready)], j) =
            [c EXCEPT !.ready = Tail(c.ready), !.stopped = c.stopped \cup {f}]
      BY <1>0, <3>1 DEF ClearTrappingJob, Contexts
    <3>3. d = [[c EXCEPT !.ready = Tail(c.ready), !.stopped = c.stopped \cup {f}]
                 EXCEPT !.trapping = NoJob, !.trap = "none", !.word = "clear"]
      <4>1. [c EXCEPT !.ready = Dequeue(@, j)] = [c EXCEPT !.ready = Tail(c.ready)]
        BY Zenon, <2>3
      <4>. QED BY Zenon, <1>2, <3>2, <4>1 DEF ClearTrap
    <3>. HIDE DEF d, j
    <3>. QED BY <1>0, <3>3 DEF Contexts
  <2>. HIDE DEF d
  <2>. QED BY Zenon, <1>0, <2>1, <2>2, <2>4 DEF d
<1>. QED BY <1>1, <1>2

\* A ready frame stays ready or is stopped.
LEMMA ClearReady ==
  ASSUME NEW c, Good(c), Settled(c, <<>>), NEW e, Trapping(c, e)
  PROVE  LET d == ClearTrap(c)
         IN  /\ d.meta = c.meta /\ d.parked = c.parked /\ c.stopped \subseteq d.stopped
             /\ \A g \in Frames : IsReady(c, g) => IsReady(d, g) \/ g \in d.stopped
<1> DEFINE d == ClearTrap(c)
<1>1. /\ d.meta = c.meta /\ d.parked = c.parked
      /\ \/ d.ready = c.ready /\ d.stopped = c.stopped
         \/ \E f \in Frames : /\ c.ready # <<>> /\ Head(c.ready) = Invocation(f)
                              /\ d.ready = Tail(c.ready) /\ d.stopped = c.stopped \cup {f}
  BY Zenon, ClearFields
<1>2. c.ready \in Seq(Job)
  BY DEF Good, Contexts, JobList
<1>. HIDE DEF d
<1>3. CASE d.ready = c.ready /\ d.stopped = c.stopped
  BY <1>1, <1>3 DEF d, IsReady
<1>4. ASSUME NEW f \in Frames, c.ready # <<>>, Head(c.ready) = Invocation(f),
             d.ready = Tail(c.ready), d.stopped = c.stopped \cup {f}
      PROVE  /\ c.stopped \subseteq d.stopped
             /\ \A g \in Frames : IsReady(c, g) => IsReady(d, g) \/ g \in d.stopped
  BY <1>2, <1>4, ListTail, InvocationOne DEF IsReady
<1>. QED BY <1>1, <1>3, <1>4 DEF d

\* clear_trap.
LEMMA ClearFlow ==
  ASSUME NEW c, Good(c), Settled(c, <<>>), NEW e, Trapping(c, e),
         NEW t, \A g \in Frames : ~On(t, g)
  PROVE  Flow(c, <<>>, ClearTrap(c), t)
<1> DEFINE d == ClearTrap(c)
<1>1. /\ d.meta = c.meta /\ d.parked = c.parked /\ c.stopped \subseteq d.stopped
      /\ \A g \in Frames : IsReady(c, g) => IsReady(d, g) \/ g \in d.stopped
  BY Zenon, ClearReady
<1>. HIDE DEF d
<1>2. SameTasks(c, d) /\ AllLeave(c, d) /\ OneStarts(<<>>, t)
  BY <1>1 DEF SameTasks, AllLeave, OneStarts
<1>3. Flow(c, <<>>, d, t)
  BY <1>1, <1>2, FlowLists
<1>. QED BY <1>3 DEF d

\* The invariant of the places gives the hypothesis of these lemmas.
LEMMA RestSettled ==
  ASSUME NEW c, NEW s, NEW sl, NEW st, NEW di, Rest(c, s, sl, st, di)
  PROVE  Settled(c, s)
BY DEF Rest, Placed, Waiting, Settled

\* A count goes up.
LEMMA RetainTasks ==
  ASSUME NEW c \in Contexts, NEW f \in Frames
  PROVE  LET d == Retain(c, f)
         IN  /\ d.ready = c.ready /\ d.parked = c.parked /\ d.stopped = c.stopped
             /\ SameTasks(c, d)
BY DEF Contexts, FrameMeta, Retain, SetMeta, SameTasks

\* Holders come and go.
LEMMA TameFlow ==
  ASSUME NEW c, NEW s, Settled(c, s), NEW d, Tame(c, d)
  PROVE  Flow(c, s, d, s)
<1>1. SameTasks(c, c)
  BY DEF SameTasks
<1>2. Flow(c, s, c, s)
  BY <1>1, SameFlow
<1>. QED BY <1>2, FlowTame

\* A state of the inspection says in which place the frame is.
LEMMA StatusPlaces ==
  ASSUME NEW c, NEW s, Settled(c, s), NEW f \in Frames
  PROVE  /\ Status(c, s, f) = "UNREGISTERED" <=> ~Registered(c, f)
         /\ Status(c, s, f) = "COMPLETE" <=> Registered(c, f) /\ ~Unfinished(c, f)
         /\ Status(c, s, f) = "ACTIVE" <=> On(s, f)
         /\ Status(c, s, f) = "READY" <=> IsReady(c, f)
         /\ Status(c, s, f) = "PARKED" <=> Has(c.parked, f)
         /\ Status(c, s, f) = "STOPPED" <=> f \in c.stopped /\ Unfinished(c, f)
         /\ Status(c, s, f) = "WAITING" <=> Waits(c, f)
         /\ Status(c, s, f) \in {"UNREGISTERED", "COMPLETE", "ACTIVE", "READY", "PARKED",
                                 "STOPPED", "WAITING"}
         /\ Unfinished(c, f) => Registered(c, f)
         /\ On(s, f) \/ IsReady(c, f) \/ Has(c.parked, f) \/ Waits(c, f) => Unfinished(c, f)
<1>1. OneOf(Unfinished(c, f), On(s, f), IsReady(c, f), Has(c.parked, f), Waits(c, f),
            f \in c.stopped)
  BY DEF Settled, Place
<1>2. Unfinished(c, f) => Registered(c, f)
  BY DEF Unfinished
<1>. QED BY <1>1, <1>2 DEF OneOf, Status

\* The edges: only a frame that runs has a choice.
LEMMA StatusEdges ==
  ASSUME NEW c, NEW s, Settled(c, s), NEW d, NEW t, Settled(d, t), Flow(c, s, d, t),
         NEW f \in Frames
  PROVE  LET p == Status(c, s, f)
             q == Status(d, t, f)
         IN  /\ p = "UNREGISTERED" => q \in {"UNREGISTERED", "ACTIVE"}
             /\ p = "PARKED" => q \in {"PARKED", "READY"}
             /\ p = "WAITING" => q \in {"WAITING", "READY"}
             /\ p = "READY" => q \in {"READY", "ACTIVE", "STOPPED"}
             /\ p = "COMPLETE" => q \in {"COMPLETE", "UNREGISTERED"}
             /\ p = "STOPPED" => q = "STOPPED"
<1> DEFINE p == Status(c, s, f)
           q == Status(d, t, f)
<1>1. /\ p = "UNREGISTERED" <=> ~Registered(c, f)
      /\ p = "COMPLETE" <=> Registered(c, f) /\ ~Unfinished(c, f)
      /\ p = "ACTIVE" <=> On(s, f)
      /\ p = "READY" <=> IsReady(c, f)
      /\ p = "PARKED" <=> Has(c.parked, f)
      /\ p = "STOPPED" <=> f \in c.stopped /\ Unfinished(c, f)
      /\ p = "WAITING" <=> Waits(c, f)
      /\ Unfinished(c, f) => Registered(c, f)
      /\ On(s, f) \/ IsReady(c, f) \/ Has(c.parked, f) \/ Waits(c, f) => Unfinished(c, f)
  BY Zenon, StatusPlaces
<1>2. /\ q = "UNREGISTERED" <=> ~Registered(d, f)
      /\ q = "COMPLETE" <=> Registered(d, f) /\ ~Unfinished(d, f)
      /\ q = "ACTIVE" <=> On(t, f)
      /\ q = "READY" <=> IsReady(d, f)
      /\ q = "PARKED" <=> Has(d.parked, f)
      /\ q = "STOPPED" <=> f \in d.stopped /\ Unfinished(d, f)
      /\ q = "WAITING" <=> Waits(d, f)
      /\ Unfinished(d, f) => Registered(d, f)
  BY Zenon, StatusPlaces
<1>3. /\ Registered(c, f) /\ ~On(s, f) => (Unfinished(d, f) <=> Unfinished(c, f))
      /\ Registered(d, f) => Registered(c, f) \/ On(t, f)
      /\ f \in c.stopped => f \in d.stopped
      /\ Has(c.parked, f) => Has(d.parked, f) \/ IsReady(d, f)
      /\ IsReady(c, f) => IsReady(d, f) \/ On(t, f) \/ f \in d.stopped
      /\ Waits(c, f) => Waits(d, f) \/ IsReady(d, f)
  BY Zenon DEF Flow, FrameFlow, Waits
<1>. HIDE DEF p, q
<1>4. /\ p = "UNREGISTERED" => q \in {"UNREGISTERED", "ACTIVE"}
      /\ p = "PARKED" => q \in {"PARKED", "READY"}
      /\ p = "WAITING" => q \in {"WAITING", "READY"}
      /\ p = "READY" => q \in {"READY", "ACTIVE", "STOPPED"}
      /\ p = "COMPLETE" => q \in {"COMPLETE", "UNREGISTERED"}
      /\ p = "STOPPED" => q = "STOPPED"
  BY Zenon, <1>1, <1>2, <1>3
<1>. QED BY <1>4 DEF p, q

\* A waiter stays with the handle that its slot names until the handle ends.
LEMMA StatusWakes ==
  ASSUME NEW c, NEW s, Settled(c, s), NEW d, NEW t, Settled(d, t), Flow(c, s, d, t),
         NEW sl, NEW st, Waiting(c, sl, st), NEW sm, NEW su, Waiting(d, sm, su),
         NEW f \in Frames, Status(c, s, f) = "WAITING"
  PROVE  /\ sl[f] \in Frames
         /\ IF /\ Status(c, s, sl[f]) = "ACTIVE"
               /\ Status(d, t, sl[f]) \in {"COMPLETE", "UNREGISTERED"}
            THEN Status(d, t, f) = "READY"
            ELSE Status(d, t, f) = "WAITING" /\ sm[f] = sl[f]
<1>1. PICK h \in Frames : WaitsFor(c, f, h)
  BY Zenon, StatusPlaces DEF Waits
<1>2. sl[f] = h /\ Unfinished(c, h) /\ Registered(c, h)
  BY Zenon, <1>1 DEF Waiting, Unfinished
<1>3. /\ IF Unfinished(d, h) THEN WaitsFor(d, f, h) ELSE IsReady(d, f)
      /\ ~On(s, h) => Unfinished(d, h)
  BY Zenon, <1>1, <1>2 DEF Flow, FrameFlow
<1>4. /\ Status(c, s, h) = "ACTIVE" <=> On(s, h)
      /\ Status(d, t, h) = "UNREGISTERED" <=> ~Registered(d, h)
      /\ Status(d, t, h) = "COMPLETE" <=> Registered(d, h) /\ ~Unfinished(d, h)
      /\ Status(d, t, f) = "READY" <=> IsReady(d, f)
      /\ Status(d, t, f) = "WAITING" <=> Waits(d, f)
      /\ Unfinished(d, h) => Registered(d, h)
  BY Zenon, StatusPlaces
<1>5. WaitsFor(d, f, h) => Waits(d, f) /\ sm[f] = h
  BY DEF Waits, Waiting
<1>. QED BY Zenon, <1>2, <1>3, <1>4, <1>5

\* One frame at a time becomes active, and the parked frames leave together.
LEMMA StatusTogether ==
  ASSUME NEW c, NEW s, Settled(c, s), NEW d, NEW t, Settled(d, t), Flow(c, s, d, t)
  PROVE  /\ \A f, g \in Frames :
              /\ Status(c, s, f) # "ACTIVE" /\ Status(d, t, f) = "ACTIVE"
              /\ Status(c, s, g) # "ACTIVE" /\ Status(d, t, g) = "ACTIVE"
              => f = g
         /\ (\E f \in Frames : Status(c, s, f) = "PARKED" /\ Status(d, t, f) # "PARKED")
              => \A f \in Frames : Status(d, t, f) # "PARKED"
<1>1. \A f \in Frames : /\ Status(c, s, f) = "ACTIVE" <=> On(s, f)
                        /\ Status(d, t, f) = "ACTIVE" <=> On(t, f)
                        /\ Status(c, s, f) = "PARKED" <=> Has(c.parked, f)
                        /\ Status(d, t, f) = "PARKED" <=> Has(d.parked, f)
  BY Zenon, StatusPlaces
<1>2. OneStarts(s, t) /\ AllLeave(c, d)
  BY DEF Flow
<1>. QED BY Zenon, <1>1, <1>2 DEF OneStarts, AllLeave

=============================================================================
