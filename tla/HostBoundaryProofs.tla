------------------------- MODULE HostBoundaryProofs -------------------------
(***************************************************************************)
(* Proofs about HostBoundary for any records, userdata and stack bound:    *)
(* one host entry at a time, no exception in host code, a registration     *)
(* that outlives its calls, and userdata that only a free takes.           *)
(***************************************************************************)
EXTENDS HostBoundary, TLAPS, FiniteSetTheorems

Frames == Seq(Frame)

\* Script and foreign frames alternate from a script frame at the bottom.
Alternates ==
  /\ stack # <<>> => stack[1].kind # "foreign"
  /\ \A i \in 1 .. (Len(stack) - 1) :
       stack[i].kind = "foreign" <=> stack[i + 1].kind # "foreign"

\* A pending exception belongs to the script frame on top, which unwinds.
ExceptionUnwinds ==
  trap_flag = "exception" =>
    stack # <<>> /\ Last(stack).kind # "foreign" /\ Last(stack).unwinds

\* The script depth is that of the frame at the bottom: only an export or a step
\* is bracketed by enter_script.
DepthIsBottom ==
  script_depth = IF stack # <<>> /\ stack[1].kind \in {"export", "step"} THEN 1 ELSE 0

BoundaryInv ==
  TypeOK /\ OneHostEntry /\ Alternates /\ ExceptionUnwinds /\ DepthIsBottom

-----------------------------------------------------------------------------
(* The stack operations. *)

\* Appending a frame keeps the frames under it.
LEMMA AppendFrame ==
  ASSUME NEW s \in Frames, NEW f \in Frame
  PROVE  /\ Append(s, f) \in Frames
         /\ Len(Append(s, f)) = Len(s) + 1
         /\ Append(s, f) # <<>>
         /\ Append(s, f)[Len(s) + 1] = f
         /\ \A i \in 1 .. Len(s) : Append(s, f)[i] = s[i]
  BY DEF Frames

\* Front drops the last frame and keeps the others.
LEMMA FrontFrame ==
  ASSUME NEW s \in Frames, s # <<>>
  PROVE  /\ Front(s) \in Frames
         /\ Len(s) \in Nat /\ Len(s) > 0
         /\ Len(Front(s)) = Len(s) - 1
         /\ Front(s) = <<>> <=> Len(s) = 1
         /\ \A i \in 1 .. (Len(s) - 1) : Front(s)[i] = s[i]
         /\ Last(s) = s[Len(s)]
  <1>1. Len(s) \in Nat /\ Len(s) > 0
    BY DEF Frames
  <1>2. Front(s) \in Frames /\ Len(Front(s)) = Len(s) - 1
    <2>1. \A i \in 1 .. (Len(s) - 1) : s[i] \in Frame
      BY <1>1 DEF Frames
    <2>2. CASE Len(s) = 1
      <3>1. SubSeq(s, 1, 0) = <<>>
        OBVIOUS
      <3>2. Front(s) = <<>>
        BY <2>2, <3>1 DEF Front
      <3>3. QED
        BY <2>2, <3>2 DEF Frames
    <2>3. CASE Len(s) > 1
      <3> DEFINE n == Len(s) - 1
      <3>1. n \in Int /\ 1 <= n /\ n - 1 + 1 = n
        BY <1>1, <2>3
      <3>2. \A i \in 1 .. n : s[i] \in Frame
        BY <2>1
      <3> HIDE DEF n
      <3>3. SubSeq(s, 1, n) \in Frames /\ Len(SubSeq(s, 1, n)) = n
        BY <3>1, <3>2 DEF Frames
      <3>4. QED
        BY <3>3 DEF Front, n
    <2>4. Len(s) = 1 \/ Len(s) > 1
      <3>1. PICK n \in Nat : Len(s) = n
        BY <1>1
      <3>2. QED
        BY <1>1, <3>1
    <2>5. QED
      BY <2>2, <2>3, <2>4, Zenon
  <1>3. \A i \in 1 .. (Len(s) - 1) : Front(s)[i] = s[i]
    BY <1>1 DEF Front, Frames
  <1>4. Front(s) = <<>> <=> Len(s) = 1
    <2>1. CASE Len(s) = 1
      BY <2>1 DEF Front
    <2>2. CASE Len(s) # 1
      BY <2>2, <1>1, <1>2 DEF Frames
    <2>3. QED
      BY <2>1, <2>2
  <1>5. QED
    BY <1>1, <1>2, <1>3, <1>4 DEF Last

\* The frame on top with its flag replaced.
Marked(s, b) == [s EXCEPT ![Len(s)].unwinds = b]

\* Marking changes nothing but the flag of the top frame.
LEMMA MarkFrame ==
  ASSUME NEW s \in Frames, s # <<>>, NEW b \in BOOLEAN,
         NEW t, t = Marked(s, b)
  PROVE  /\ t \in Frames
         /\ Len(t) = Len(s)
         /\ t # <<>>
         /\ \A i \in 1 .. Len(s) :
              /\ t[i].kind = s[i].kind /\ t[i].entered = s[i].entered
              /\ t[i].record = s[i].record
              /\ t[i].unwinds = IF i = Len(s) THEN b ELSE s[i].unwinds
  <1>1. Len(s) \in Nat /\ Len(s) > 0 /\ DOMAIN s = 1 .. Len(s)
    BY DEF Frames
  <1>2. \A i \in 1 .. Len(s) : s[i] \in Frame
    BY <1>1 DEF Frames
  <1>3. t = [i \in 1 .. Len(s) |-> IF i = Len(s) THEN [s[i] EXCEPT !.unwinds = b] ELSE s[i]]
    BY Zenon, <1>1 DEF Marked
  <1>4. \A i \in 1 .. Len(s) : t[i] \in Frame
    BY <1>2, <1>3 DEF Frame
  <1>5. t \in Frames /\ Len(t) = Len(s)
    BY <1>1, <1>3, <1>4 DEF Frames
  <1>6. \A i \in 1 .. Len(s) :
          /\ t[i].kind = s[i].kind /\ t[i].entered = s[i].entered
          /\ t[i].record = s[i].record
          /\ t[i].unwinds = IF i = Len(s) THEN b ELSE s[i].unwinds
    BY <1>2, <1>3 DEF Frame
  <1>7. t # <<>>
    BY <1>1, <1>5, Len(<<>>) = 0
  <1>8. QED
    BY <1>5, <1>6, <1>7

-----------------------------------------------------------------------------
(* What a push, a pop and a mark keep of the shape of the stack. *)

\* The frames of a typed stack, and the one on top.
LEMMA StackFacts ==
  ASSUME BoundaryInv
  PROVE  /\ stack \in Frames /\ Len(stack) \in Nat
         /\ stack # <<>> <=> Len(stack) > 0
         /\ \A i \in Indices : stack[i] \in Frame
         /\ stack # <<>> => Last(stack) = stack[Len(stack)] /\ Last(stack) \in Frame
  BY DEF BoundaryInv, TypeOK, Indices, Last, Frames

\* A script frame over host code.
LEMMA PushScript ==
  ASSUME BoundaryInv, HostRuns,
         NEW kind \in {"export", "step", "callback"}, NEW r \in Records \cup {Null},
         kind # "callback" => stack = <<>>,
         host_entry_active' = TRUE,
         stack' = Append(stack, ScriptFrame(kind, ~host_entry_active, r))
  PROVE  /\ stack' \in Frames /\ stack' # <<>>
         /\ OneHostEntry' /\ Alternates'
         /\ Last(stack').kind = kind
         /\ stack'[1].kind = IF stack = <<>> THEN kind ELSE stack[1].kind
  <1> DEFINE f == ScriptFrame(kind, ~host_entry_active, r)
  <1>1. f \in Frame /\ f.kind = kind /\ f.entered = ~host_entry_active
    BY DEF BoundaryInv, TypeOK, ScriptFrame, Frame
  <1>2. /\ stack' \in Frames /\ Len(stack') = Len(stack) + 1 /\ stack' # <<>>
        /\ stack'[Len(stack) + 1] = f
        /\ \A i \in 1 .. Len(stack) : stack'[i] = stack[i]
    BY <1>1, StackFacts, AppendFrame
  <1> HIDE DEF f
  <1>3. OneHostEntry'
    <2>1. host_entry_active <=> Len(stack) > 0
      BY StackFacts DEF BoundaryInv, OneHostEntry
    <2>0. (Len(stack) > 0) <=> ~(Len(stack) + 1 = 1)
      BY StackFacts
    <2>2. f.entered <=> Len(stack) + 1 = 1
      BY <1>1, <2>0, <2>1, Zenon
    <2>3. \A i \in 1 .. Len(stack) : stack'[i].entered <=> i = 1
      BY <1>2, StackFacts DEF BoundaryInv, OneHostEntry, Indices
    <2>4. \A i \in 1 .. Len(stack') : stack'[i].entered <=> i = 1
      BY <1>2, <2>2, <2>3, StackFacts
    <2>5. \A i \in 1 .. Len(stack') : stack'[i].kind \in {"export", "step"} => i = 1
      BY <1>1, <1>2, StackFacts DEF BoundaryInv, OneHostEntry, Entries, Indices
    <2>6. QED
      BY <1>2, <2>4, <2>5 DEF OneHostEntry, Entries, Indices
  <1>4. Alternates'
    BY <1>1, <1>2, StackFacts DEF BoundaryInv, Alternates, HostRuns
  <1>5. QED
    BY <1>1, <1>2, <1>3, <1>4, StackFacts DEF Last

\* A foreign call over a script frame.
LEMMA PushForeign ==
  ASSUME BoundaryInv, ScriptRuns, UNCHANGED host_entry_active,
         stack' = Append(stack, Foreign)
  PROVE  /\ stack' \in Frames /\ stack' # <<>>
         /\ OneHostEntry' /\ Alternates'
         /\ Last(stack').kind = "foreign"
         /\ stack'[1] = stack[1]
  <1>1. Foreign \in Frame /\ Foreign.kind = "foreign" /\ Foreign.entered = FALSE
    BY DEF Foreign, Frame
  <1>2. /\ stack' \in Frames /\ Len(stack') = Len(stack) + 1 /\ stack' # <<>>
        /\ stack'[Len(stack) + 1] = Foreign
        /\ \A i \in 1 .. Len(stack) : stack'[i] = stack[i]
    BY <1>1, StackFacts, AppendFrame
  <1>3. OneHostEntry'
    BY <1>1, <1>2, StackFacts DEF BoundaryInv, OneHostEntry, Entries, Indices, ScriptRuns
  <1>4. Alternates'
    BY <1>1, <1>2, StackFacts DEF BoundaryInv, Alternates, ScriptRuns
  <1>5. QED
    BY <1>1, <1>2, <1>3, <1>4, StackFacts DEF Last, ScriptRuns

\* A script frame returns to host code, and lowers the flag if it raised it.
LEMMA PopScript ==
  ASSUME BoundaryInv, stack # <<>>, Last(stack).kind # "foreign",
         host_entry_active' = (host_entry_active /\ ~Last(stack).entered),
         stack' = Front(stack)
  PROVE  /\ stack' \in Frames
         /\ OneHostEntry' /\ Alternates' /\ HostRuns'
         /\ stack' # <<>> => stack'[1] = stack[1]
         /\ stack' = <<>> <=> Len(stack) = 1
  <1>1. /\ stack' \in Frames
        /\ Len(stack) \in Nat /\ Len(stack) > 0
        /\ Len(stack') = Len(stack) - 1
        /\ stack' = <<>> <=> Len(stack) = 1
        /\ \A i \in 1 .. (Len(stack) - 1) : stack'[i] = stack[i]
        /\ Last(stack) = stack[Len(stack)]
    BY StackFacts, FrontFrame
  <1>2. OneHostEntry'
    <2>1. \A i \in 1 .. Len(stack) : stack[i].entered <=> i = 1
      BY DEF BoundaryInv, OneHostEntry, Indices
    <2>0. host_entry_active
      BY DEF BoundaryInv, OneHostEntry
    <2>2. host_entry_active' <=> Len(stack) # 1
      <3>1. Len(stack) \in 1 .. Len(stack)
        BY <1>1
      <3>2. Last(stack).entered <=> Len(stack) = 1
        BY <1>1, <2>1, <3>1, Zenon
      <3>3. QED
        BY <2>0, <3>2, Zenon
    <2>3. \A i \in 1 .. Len(stack') : stack'[i].entered <=> i = 1
      <3>1. \A i \in 1 .. Len(stack') : i \in 1 .. Len(stack) /\ stack'[i] = stack[i]
        BY <1>1
      <3>2. QED
        BY <2>1, <3>1, Zenon
    <2>4. \A i \in 1 .. Len(stack') : stack'[i].kind \in {"export", "step"} => i = 1
      <3>1. \A i \in 1 .. Len(stack) : stack[i].kind \in {"export", "step"} => i = 1
        BY DEF BoundaryInv, OneHostEntry, Entries, Indices
      <3>2. QED
        BY <1>1, <3>1
    <2>5. QED
      BY <1>1, <2>2, <2>3, <2>4 DEF OneHostEntry, Entries, Indices
  <1>3. Alternates'
    BY <1>1, StackFacts DEF BoundaryInv, Alternates
  <1>4. HostRuns'
    BY <1>1, StackFacts DEF BoundaryInv, Alternates, HostRuns, Last
  <1>5. QED
    BY <1>1, <1>2, <1>3, <1>4

\* A foreign function returns; its caller unwinds if the word is raised.
LEMMA PopForeign ==
  ASSUME BoundaryInv, ForeignReturn
  PROVE  BoundaryInv'
  <1>1. /\ Front(stack) \in Frames
        /\ Len(stack) \in Nat /\ Len(stack) > 0
        /\ Len(Front(stack)) = Len(stack) - 1
        /\ \A i \in 1 .. (Len(stack) - 1) : Front(stack)[i] = stack[i]
        /\ Last(stack) = stack[Len(stack)]
    BY StackFacts, FrontFrame DEF ForeignReturn
  <1>2. Len(stack) > 1
    BY <1>1, StackFacts DEF BoundaryInv, Alternates, ForeignReturn
  <1> DEFINE b == trap_flag # "none"
             t == [Front(stack) EXCEPT ![Len(Front(stack))].unwinds = b]
  <1>3. Front(stack) # <<>>
    BY <1>1, <1>2
  <1>4. /\ t \in Frames /\ t # <<>>
        /\ Len(t) = Len(stack) - 1
        /\ \A i \in 1 .. (Len(stack) - 1) :
             /\ t[i].kind = stack[i].kind /\ t[i].entered = stack[i].entered
    <2> DEFINE s == Front(stack)
    <2>1. b \in BOOLEAN
      OBVIOUS
    <2>2. s \in Frames /\ s # <<>> /\ t = Marked(s, b)
      BY <1>1, <1>3 DEF Marked
    <2> HIDE DEF s, t, b
    <2>3. /\ t \in Frames /\ t # <<>> /\ Len(t) = Len(s)
          /\ \A i \in 1 .. Len(s) : t[i].kind = s[i].kind /\ t[i].entered = s[i].entered
      BY <2>1, <2>2, MarkFrame
    <2>4. QED
      BY <1>1, <2>3 DEF s
  <1>5. stack' = t
    BY <1>1 DEF ForeignReturn, Top
  <1> HIDE DEF t
  <1>6. OneHostEntry'
    <2>1. \A i \in 1 .. Len(stack) : stack[i].entered <=> i = 1
      BY DEF BoundaryInv, OneHostEntry, Indices
    <2>2. \A i \in 1 .. Len(t) : i \in 1 .. Len(stack) /\ t[i].entered = stack[i].entered
      BY <1>1, <1>4
    <2>3. \A i \in 1 .. Len(t) : t[i].entered <=> i = 1
      BY <2>1, <2>2, Zenon
    <2>4. \A i \in 1 .. Len(stack) : stack[i].kind \in {"export", "step"} => i = 1
      BY DEF BoundaryInv, OneHostEntry, Entries, Indices
    <2>5. \A i \in 1 .. Len(t) : t[i].kind \in {"export", "step"} => i = 1
      <3>1. \A i \in 1 .. Len(t) : i \in 1 .. Len(stack) /\ t[i].kind = stack[i].kind
        BY <1>1, <1>4
      <3>2. QED
        BY <2>4, <3>1, Zenon
    <2>6. host_entry_active' /\ stack' # <<>>
      BY <1>4, <1>5 DEF ForeignReturn, flags, BoundaryInv, OneHostEntry
    <2>7. QED
      BY <1>5, <2>3, <2>5, <2>6 DEF OneHostEntry, Entries, Indices
  <1>7. Alternates'
    <2>1. PICK n \in Nat : Len(stack) = n
      BY <1>1
    <2>2. /\ n > 1 /\ Len(stack') = n - 1 /\ stack' # <<>>
          /\ \A i \in 1 .. (n - 1) : stack'[i].kind = stack[i].kind
      BY <1>2, <1>4, <1>5, <2>1
    <2>3. /\ stack[1].kind # "foreign"
          /\ \A i \in 1 .. (n - 1) : stack[i].kind = "foreign" <=> stack[i + 1].kind # "foreign"
      BY <2>1, StackFacts DEF BoundaryInv, Alternates, ForeignReturn
    <2>4. stack'[1].kind # "foreign"
      BY <2>2, <2>3
    <2>5. ASSUME NEW i \in 1 .. (Len(stack') - 1)
          PROVE  stack'[i].kind = "foreign" <=> stack'[i + 1].kind # "foreign"
      <3>1. i \in 1 .. (n - 1) /\ i + 1 \in 1 .. (n - 1)
        BY <2>2
      <3>2. stack'[i].kind = stack[i].kind /\ stack'[i + 1].kind = stack[i + 1].kind
        BY <2>2, <3>1
      <3>3. QED
        BY <2>3, <3>1, <3>2
    <2>6. QED
      BY <2>4, <2>5 DEF Alternates
  <1>8. TypeOK'
    BY Zenon, <1>4, <1>5 DEF BoundaryInv, TypeOK, ForeignReturn, flags, heap, Frames
  <1>9. trap_flag # "exception"
    BY DEF BoundaryInv, ExceptionUnwinds, ForeignReturn
  <1>10. QED
    BY <1>1, <1>2, <1>4, <1>5, <1>6, <1>7, <1>8, <1>9, StackFacts
       DEF BoundaryInv, ExceptionUnwinds, DepthIsBottom, ForeignReturn, flags

\* A script frame reads the word after a call that can fault.
LEMMA MarkTop ==
  ASSUME BoundaryInv, stack # <<>>, Last(stack).kind # "foreign", Checked,
         UNCHANGED <<host_entry_active, script_depth>>,
         trap_flag' \in {"none", "trap", "exception"}
  PROVE  /\ stack' \in Frames
         /\ OneHostEntry' /\ Alternates' /\ ExceptionUnwinds' /\ DepthIsBottom'
  <1> DEFINE b == trap_flag' # "none"
  <1>1. /\ stack' \in Frames /\ stack' # <<>>
        /\ Len(stack') = Len(stack) /\ Len(stack) \in Nat /\ Len(stack) > 0
        /\ \A i \in 1 .. Len(stack) :
             /\ stack'[i].kind = stack[i].kind /\ stack'[i].entered = stack[i].entered
             /\ stack'[i].unwinds = IF i = Len(stack) THEN b ELSE stack[i].unwinds
    <2>1. b \in BOOLEAN
      OBVIOUS
    <2>2. stack \in Frames /\ stack' = Marked(stack, b)
      BY StackFacts DEF Checked, Top, Marked
    <2> HIDE DEF b
    <2>3. QED
      <3>1. /\ stack' \in Frames /\ stack' # <<>> /\ Len(stack') = Len(stack)
            /\ \A i \in 1 .. Len(stack) :
                 /\ stack'[i].kind = stack[i].kind /\ stack'[i].entered = stack[i].entered
                 /\ stack'[i].unwinds = IF i = Len(stack) THEN b ELSE stack[i].unwinds
        BY <2>1, <2>2, MarkFrame
      <3>2. QED
        BY <3>1, StackFacts
  <1>2. OneHostEntry'
    <2>1. \A i \in 1 .. Len(stack) : stack[i].entered <=> i = 1
      BY DEF BoundaryInv, OneHostEntry, Indices
    <2>2. \A i \in 1 .. Len(stack') : stack'[i].entered <=> i = 1
      BY <1>1, <2>1, Zenon
    <2>3. \A i \in 1 .. Len(stack) : stack[i].kind \in {"export", "step"} => i = 1
      BY DEF BoundaryInv, OneHostEntry, Entries, Indices
    <2>4. \A i \in 1 .. Len(stack') : stack'[i].kind \in {"export", "step"} => i = 1
      BY <1>1, <2>3
    <2>5. QED
      BY <1>1, <2>2, <2>4 DEF BoundaryInv, OneHostEntry, Entries, Indices
  <1>3. Alternates'
    BY <1>1 DEF BoundaryInv, Alternates
  <1>4. ExceptionUnwinds'
    <2>1. Len(stack) \in 1 .. Len(stack)
      BY <1>1
    <2>2. Last(stack').unwinds = b /\ Last(stack').kind = stack[Len(stack)].kind
      BY <1>1, <2>1 DEF Last
    <2>3. trap_flag' = "exception" => b
      OBVIOUS
    <2>4. stack[Len(stack)].kind # "foreign"
      BY DEF Last
    <2> HIDE DEF b
    <2>5. QED
      BY <1>1, <2>2, <2>3, <2>4, Zenon DEF ExceptionUnwinds
  <1>5. DepthIsBottom'
    BY <1>1 DEF BoundaryInv, DepthIsBottom
  <1>6. QED
    BY <1>1, <1>2, <1>3, <1>4, <1>5

-----------------------------------------------------------------------------
(* Every step keeps the invariant. *)

\* The type invariant, one fact per variable.
LEMMA TypeStep ==
  ASSUME TypeOK,
         trap_flag' \in {"none", "trap", "exception"}, host_entry_active' \in BOOLEAN,
         script_depth' \in Nat, registrations' \in [Records -> Registration \cup {Null}],
         callbacks' \subseteq Userdata, live' \subseteq Payloads, held' \subseteq Payloads,
         stack' \in Frames
  PROVE  TypeOK'
  BY DEF TypeOK, Frames

\* An entry starts on an empty stack: the guard found the flag down.
LEMMA HostEntryStep ==
  ASSUME BoundaryInv, NEW kind \in {"export", "step"}, HostEntry(kind)
  PROVE  BoundaryInv'
  <1>1. stack = <<>> /\ host_entry_active = FALSE /\ ~host_entry_active = TRUE
    BY DEF BoundaryInv, TypeOK, OneHostEntry, HostEntry
  <1>2. /\ stack' \in Frames /\ stack' # <<>> /\ OneHostEntry' /\ Alternates'
        /\ stack'[1].kind = kind
    BY Zenon, <1>1, PushScript DEF HostEntry
  <1>3. TypeOK'
    <2>1. script_depth' \in Nat /\ host_entry_active' \in BOOLEAN
      BY DEF BoundaryInv, TypeOK, HostEntry
    <2>2. QED
      BY Zenon, <1>2, <2>1, TypeStep DEF BoundaryInv, TypeOK, HostEntry, heap
  <1>4. trap_flag' # "exception"
    BY <1>1 DEF BoundaryInv, ExceptionUnwinds, HostEntry
  <1>5. DepthIsBottom'
    <2>1. script_depth = 0
      BY <1>1 DEF BoundaryInv, DepthIsBottom
    <2>2. script_depth' = 1
      BY <2>1 DEF HostEntry
    <2>3. stack' # <<>> /\ stack'[1].kind \in {"export", "step"}
      BY <1>2
    <2>4. QED
      BY <2>2, <2>3, Zenon DEF DepthIsBottom
  <1>6. QED
    BY <1>2, <1>3, <1>4, <1>5 DEF BoundaryInv, ExceptionUnwinds

\* The entry that returns is the bottom frame, and settles at depth 0.
LEMMA HostEntryReturnStep ==
  ASSUME BoundaryInv, HostEntryReturn
  PROVE  BoundaryInv'
  <1>1. stack # <<>> /\ Last(stack).kind \in {"export", "step"}
    BY DEF HostEntryReturn
  <1>2. Len(stack) = 1 /\ Last(stack) = stack[1]
    <2>1. PICK n \in Nat : Len(stack) = n
      BY StackFacts
    <2>2. n > 0 /\ Last(stack) = stack[n]
      BY <1>1, <2>1, StackFacts
    <2>3. n = 1
      BY <1>1, <2>1, <2>2 DEF BoundaryInv, OneHostEntry, Entries, Indices
    <2>4. QED
      BY <2>1, <2>2, <2>3
  <1>3. script_depth = 1
    BY <1>1, <1>2 DEF BoundaryInv, DepthIsBottom
  <1>4. Last(stack).entered
    BY <1>2 DEF BoundaryInv, OneHostEntry, Indices
  <1>5. host_entry_active' = (host_entry_active /\ ~Last(stack).entered)
    BY <1>4, Zenon DEF HostEntryReturn
  <1>6. /\ stack' \in Frames /\ OneHostEntry' /\ Alternates' /\ stack' = <<>>
    BY <1>1, <1>2, <1>5, PopScript DEF HostEntryReturn
  <1>7. trap_flag' \in {"none", "trap"}
    BY <1>3 DEF BoundaryInv, TypeOK, HostEntryReturn, Settled
  <1>8. TypeOK'
    <2>1. script_depth' \in Nat
      BY <1>3 DEF HostEntryReturn, Saturating
    <2>2. QED
      BY Zenon, <1>6, <1>7, <2>1, TypeStep DEF BoundaryInv, TypeOK, HostEntryReturn, heap
  <1>9. DepthIsBottom'
    BY <1>3, <1>6 DEF DepthIsBottom, HostEntryReturn, Saturating
  <1>10. QED
    BY <1>6, <1>7, <1>8, <1>9 DEF BoundaryInv, ExceptionUnwinds

\* Registrations keep their type.
LEMMA KeepType ==
  ASSUME NEW reg \in Registration
  PROVE  Keep(reg) \in Registration \cup {Null}
  BY DEF Keep

\* registration_exit keeps the type of the records.
LEMMA ExitType ==
  ASSUME registrations \in [Records -> Registration \cup {Null}],
         NEW r \in Records \cup {Null}
  PROVE  ExitRegistration(r) \in [Records -> Registration \cup {Null}]
  <1>1. CASE r = Null \/ registrations[r] = Null
    BY <1>1 DEF ExitRegistration
  <1>2. CASE ~(r = Null \/ registrations[r] = Null)
    <2> DEFINE reg == Exited(registrations[r])
    <2>1. r \in Records /\ registrations[r] \in Registration
      BY <1>2
    <2>2. reg \in Registration
      BY <1>2, <2>1 DEF Registration, Saturating, Exited
    <2>3. ExitRegistration(r) = [registrations EXCEPT ![r] = Keep(reg)]
      BY <1>2 DEF ExitRegistration
    <2> HIDE DEF reg
    <2>4. QED
      BY <2>1, <2>2, <2>3, KeepType
  <1>3. QED
    BY <1>1, <1>2

\* A step that leaves the stack and raises no exception.
LEMMA StackSame ==
  ASSUME BoundaryInv, UNCHANGED <<host_entry_active, script_depth, stack>>,
         trap_flag' = "exception" => trap_flag = "exception"
  PROVE  OneHostEntry' /\ Alternates' /\ ExceptionUnwinds' /\ DepthIsBottom'
  BY DEF BoundaryInv, OneHostEntry, Entries, Indices, Alternates, ExceptionUnwinds,
         DepthIsBottom, Last

\* Host calls that run no script.
LEMMA HostOnlyStep ==
  ASSUME BoundaryInv,
         \/ HostEntryReentry \/ ClearTrap
         \/ \E r \in Records : ReleaseRegistration(r) \/ FireReleased(r)
  PROVE  BoundaryInv'
  <1>1. /\ UNCHANGED <<host_entry_active, script_depth, stack, callbacks, live, held>>
        /\ trap_flag' \in {"none", "trap", "exception"}
        /\ trap_flag' = "exception" => trap_flag = "exception"
    BY DEF HostEntryReentry, ClearTrap, ReleaseRegistration, FireReleased, heap, flags,
           BoundaryInv, TypeOK
  <1>2. registrations' \in [Records -> Registration \cup {Null}]
    <2>1. ASSUME NEW r \in Records, ReleaseRegistration(r)
          PROVE  registrations' \in [Records -> Registration \cup {Null}]
      <3>1. registrations[r] \in Registration
        BY <2>1 DEF ReleaseRegistration, BoundaryInv, TypeOK
      <3>2. Closed(registrations[r]) \in Registration
        BY Zenon, <3>1 DEF Closed, Registration
      <3>3. Keep(Closed(registrations[r])) \in Registration \cup {Null}
        BY <3>2, KeepType
      <3>4. QED
        BY <2>1, <3>3 DEF ReleaseRegistration, BoundaryInv, TypeOK
    <2>2. QED
      BY <2>1 DEF HostEntryReentry, ClearTrap, FireReleased, BoundaryInv, TypeOK
  <1>3. TypeOK'
    <2>1. TypeOK /\ stack' \in Frames /\ host_entry_active' \in BOOLEAN /\ script_depth' \in Nat
      BY <1>1 DEF BoundaryInv, TypeOK, Frames
    <2>2. callbacks' \subseteq Userdata /\ live' \subseteq Payloads /\ held' \subseteq Payloads
      BY <1>1 DEF BoundaryInv, TypeOK
    <2>3. QED
      BY <1>1, <1>2, <2>1, <2>2, TypeStep
  <1>4. QED
    BY <1>1, <1>3, StackSame DEF BoundaryInv

\* A fire with freed userdata traps and runs no script.
LEMMA FireFreedStep ==
  ASSUME BoundaryInv, NEW d \in Userdata, FireFreed(d), UNCHANGED <<callbacks, heap>>
  PROVE  BoundaryInv'
  <1>1. TypeOK'
    <2>1. TypeOK /\ stack' \in Frames /\ host_entry_active' \in BOOLEAN /\ script_depth' \in Nat
      BY DEF FireFreed, BoundaryInv, TypeOK, Frames
    <2>2. callbacks' \subseteq Userdata /\ live' \subseteq Payloads /\ held' \subseteq Payloads
      BY DEF heap, BoundaryInv, TypeOK
    <2>3. registrations' \in [Records -> Registration \cup {Null}] /\ trap_flag' = "trap"
      BY DEF FireFreed, BoundaryInv, TypeOK
    <2>4. QED
      BY <2>1, <2>2, <2>3, TypeStep
  <1>2. QED
    BY <1>1, StackSame DEF BoundaryInv, FireFreed

\* A fire pushes a callback over host code.
LEMMA FireEntersStep ==
  ASSUME BoundaryInv, HostRuns, NEW d \in Userdata, NEW r \in Records \cup {Null},
         FireEnters(d, r), registrations' \in [Records -> Registration \cup {Null}],
         UNCHANGED <<callbacks, heap>>
  PROVE  BoundaryInv'
  <1>1. /\ stack' \in Frames /\ stack' # <<>> /\ OneHostEntry' /\ Alternates'
        /\ stack'[1].kind = IF stack = <<>> THEN "callback" ELSE stack[1].kind
    BY PushScript DEF FireEnters
  <1>2. TypeOK'
    <2>1. /\ TypeOK /\ host_entry_active' \in BOOLEAN /\ script_depth' \in Nat
          /\ trap_flag' \in {"none", "trap", "exception"}
      BY DEF FireEnters, BoundaryInv, TypeOK
    <2>2. callbacks' \subseteq Userdata /\ live' \subseteq Payloads /\ held' \subseteq Payloads
      BY DEF heap, BoundaryInv, TypeOK
    <2>3. QED
      BY <1>1, <2>1, <2>2, TypeStep
  <1>3. ExceptionUnwinds'
    BY DEF FireEnters, ExceptionUnwinds
  <1>4. DepthIsBottom'
    <2>1. script_depth' = script_depth
      BY DEF FireEnters
    <2>2. CASE stack = <<>>
      BY <1>1, <2>1, <2>2 DEF BoundaryInv, DepthIsBottom
    <2>3. CASE stack # <<>>
      BY <1>1, <2>1, <2>3 DEF BoundaryInv, DepthIsBottom
    <2>4. QED
      BY <2>2, <2>3
  <1>5. QED
    BY <1>1, <1>2, <1>3, <1>4 DEF BoundaryInv

\* The trampoline pops its callback and settles.
LEMMA CallbackReturnStep ==
  ASSUME BoundaryInv, CallbackReturn
  PROVE  BoundaryInv'
  <1>1. /\ stack' \in Frames /\ OneHostEntry' /\ Alternates'
        /\ stack' # <<>> => stack'[1] = stack[1]
        /\ stack' = <<>> <=> Len(stack) = 1
    BY PopScript DEF CallbackReturn
  <1>2. Last(stack).record \in Records \cup {Null}
    BY StackFacts DEF CallbackReturn, Frame
  <1>3. registrations' \in [Records -> Registration \cup {Null}]
    BY <1>2, ExitType DEF CallbackReturn, BoundaryInv, TypeOK
  <1>4. trap_flag' \in {"none", "trap"}
    BY DEF CallbackReturn, Settled, BoundaryInv, TypeOK
  <1>5. TypeOK'
    <2>1. TypeOK /\ host_entry_active' \in BOOLEAN /\ script_depth' \in Nat
      BY DEF CallbackReturn, BoundaryInv, TypeOK
    <2>2. callbacks' \subseteq Userdata /\ live' \subseteq Payloads /\ held' \subseteq Payloads
      BY DEF CallbackReturn, heap, BoundaryInv, TypeOK
    <2>3. QED
      BY <1>1, <1>3, <1>4, <2>1, <2>2, TypeStep
  <1>6. DepthIsBottom'
    <2>1. script_depth' = script_depth
      BY DEF CallbackReturn
    <2>2. CASE Len(stack) = 1
      <3>1. Last(stack) = stack[1]
        BY <2>2 DEF Last
      <3>2. QED
        BY <1>1, <2>1, <2>2, <3>1 DEF CallbackReturn, BoundaryInv, DepthIsBottom
    <2>3. CASE Len(stack) # 1
      BY <1>1, <2>1, <2>3 DEF CallbackReturn, BoundaryInv, DepthIsBottom
    <2>4. QED
      BY <2>2, <2>3
  <1>7. QED
    BY <1>1, <1>4, <1>5, <1>6 DEF BoundaryInv, ExceptionUnwinds

\* A foreign call is pushed over running script.
LEMMA CallForeignStep ==
  ASSUME BoundaryInv,
         \/ CallForeign
         \/ \E r \in Records, d \in Userdata : RegisterCallback(r, d)
         \/ \E d \in Userdata : BindCallback(d)
  PROVE  BoundaryInv'
  <1>1. /\ ScriptRuns /\ stack' = Append(stack, Foreign)
        /\ UNCHANGED <<trap_flag, host_entry_active, script_depth, live, held>>
    BY DEF CallForeign, RegisterCallback, BindCallback, flags, heap
  <1>2. /\ stack' \in Frames /\ stack' # <<>> /\ OneHostEntry' /\ Alternates'
        /\ stack'[1] = stack[1]
    BY <1>1, PushForeign
  <1>3. registrations' \in [Records -> Registration \cup {Null}]
    <2>1. ASSUME NEW r \in Records, NEW d \in Userdata, RegisterCallback(r, d)
          PROVE  registrations' \in [Records -> Registration \cup {Null}]
      <3>1. [open |-> TRUE, active_calls |-> 0, userdata |-> d] \in Registration
        BY DEF Registration
      <3>2. QED
        BY <2>1, <3>1 DEF RegisterCallback, BoundaryInv, TypeOK
    <2>2. QED
      BY <2>1 DEF CallForeign, BindCallback, BoundaryInv, TypeOK
  <1>4. callbacks' \subseteq Userdata
    BY DEF CallForeign, RegisterCallback, BindCallback, BoundaryInv, TypeOK
  <1>5. TypeOK'
    <2>1. /\ TypeOK /\ host_entry_active' \in BOOLEAN /\ script_depth' \in Nat
          /\ trap_flag' \in {"none", "trap", "exception"}
          /\ live' \subseteq Payloads /\ held' \subseteq Payloads
      BY <1>1 DEF BoundaryInv, TypeOK
    <2>2. QED
      BY <1>2, <1>3, <1>4, <2>1, TypeStep
  <1>6. ExceptionUnwinds'
    BY <1>1 DEF ScriptRuns, BoundaryInv, ExceptionUnwinds
  <1>7. DepthIsBottom'
    BY <1>1, <1>2 DEF ScriptRuns, BoundaryInv, DepthIsBottom
  <1>8. QED
    BY <1>2, <1>5, <1>6, <1>7 DEF BoundaryInv

\* A statement marks the frame that ran it.
LEMMA StatementStep ==
  ASSUME BoundaryInv,
         \/ Fault \/ Raise \/ Catch \/ Collect
         \/ \E d \in Payloads : Alloc(d) \/ Free(d)
  PROVE  BoundaryInv'
  <1>1. /\ UNCHANGED <<host_entry_active, script_depth, registrations, callbacks>>
        /\ stack # <<>> /\ Checked
        /\ trap_flag' \in {"none", "trap", "exception"}
    BY DEF Fault, Raise, Catch, Alloc, Free, Collect, ScriptRuns, BoundaryInv, TypeOK
  <1>2. Last(stack).kind # "foreign"
    BY DEF Fault, Raise, Catch, Alloc, Free, Collect, ScriptRuns, BoundaryInv, ExceptionUnwinds
  <1>3. live' \subseteq Payloads /\ held' \subseteq Payloads
    BY DEF Fault, Raise, Catch, Alloc, Free, Collect, heap, BoundaryInv, TypeOK
  <1>4. /\ stack' \in Frames /\ OneHostEntry' /\ Alternates'
        /\ ExceptionUnwinds' /\ DepthIsBottom'
    BY <1>1, <1>2, MarkTop
  <1>5. TypeOK'
    <2>1. /\ TypeOK /\ host_entry_active' \in BOOLEAN /\ script_depth' \in Nat
          /\ registrations' \in [Records -> Registration \cup {Null}]
          /\ callbacks' \subseteq Userdata
      BY <1>1 DEF BoundaryInv, TypeOK
    <2>2. QED
      BY <1>1, <1>3, <1>4, <2>1, TypeStep
  <1>6. QED
    BY <1>4, <1>5 DEF BoundaryInv

\* Dropping a reference touches only the heap.
LEMMA ForgetStep ==
  ASSUME BoundaryInv, NEW d \in Payloads, Forget(d)
  PROVE  BoundaryInv'
  <1>1. UNCHANGED <<trap_flag, host_entry_active, script_depth, stack>>
    BY DEF Forget, flags
  <1>2. TypeOK'
    BY DEF Forget, flags, BoundaryInv, TypeOK
  <1>3. QED
    BY <1>1, <1>2, StackSame DEF BoundaryInv

\* The invariant holds of a new Context.
LEMMA BoundaryInit == Init => BoundaryInv
  <1> SUFFICES ASSUME Init PROVE BoundaryInv
    OBVIOUS
  <1>1. stack = <<>> /\ Len(stack) = 0 /\ stack \in Seq(Frame)
    BY DEF Init
  <1>2. TypeOK
    BY Zenon, <1>1 DEF Init, TypeOK
  <1>3. OneHostEntry
    BY <1>1 DEF Init, OneHostEntry, Entries, Indices
  <1>4. Alternates
    BY <1>1 DEF Alternates
  <1>5. ExceptionUnwinds /\ DepthIsBottom
    BY <1>1 DEF Init, ExceptionUnwinds, DepthIsBottom
  <1>6. QED
    BY <1>2, <1>3, <1>4, <1>5 DEF BoundaryInv

\* Every step keeps the invariant.
LEMMA BoundaryInductive ==
  ASSUME BoundaryInv, [Next]_vars
  PROVE  BoundaryInv'
  <1>1. CASE \E kind \in {"export", "step"} : HostEntry(kind)
    BY <1>1, HostEntryStep
  <1>2. CASE HostEntryReentry \/ ClearTrap
    BY <1>2, HostOnlyStep
  <1>3. CASE \E r \in Records : ReleaseRegistration(r) \/ FireReleased(r)
    BY <1>3, HostOnlyStep
  <1>4. ASSUME NEW r \in Records, FireRegistration(r) PROVE BoundaryInv'
    <2>1. registrations[r] \in Registration
      BY <1>4 DEF FireRegistration, BoundaryInv, TypeOK
    <2>2. registrations[r].userdata \in Userdata
      BY <2>1 DEF Registration
    <2>3. Entered(registrations[r]) \in Registration
      BY <2>1 DEF Entered, Registration
    <2>4. CASE FireFreed(registrations[r].userdata)
      BY <1>4, <2>2, <2>4, FireFreedStep DEF FireRegistration
    <2>5. CASE FireEnters(registrations[r].userdata, r) /\ registrations' =
                 [registrations EXCEPT ![r] = Entered(@)]
      <3>1. registrations' \in [Records -> Registration \cup {Null}]
        BY <2>3, <2>5 DEF BoundaryInv, TypeOK
      <3>2. QED
        BY <1>4, <2>2, <2>5, <3>1, FireEntersStep DEF FireRegistration
    <2>6. QED
      BY <1>4, <2>4, <2>5 DEF FireRegistration
  <1>5. ASSUME NEW d \in Userdata, FireBinding(d) PROVE BoundaryInv'
    <2>1. CASE FireFreed(d)
      BY <1>5, <2>1, FireFreedStep DEF FireBinding
    <2>2. CASE FireEnters(d, Null) /\ UNCHANGED registrations
      <3>1. registrations' \in [Records -> Registration \cup {Null}]
        BY <2>2 DEF BoundaryInv, TypeOK
      <3>2. QED
        BY <1>5, <2>2, <3>1, FireEntersStep DEF FireBinding
    <2>3. QED
      BY <1>5, <2>1, <2>2 DEF FireBinding
  <1>6. CASE ForeignReturn
    BY <1>6, PopForeign
  <1>7. CASE HostEntryReturn \/ CallbackReturn
    BY <1>7, HostEntryReturnStep, CallbackReturnStep
  <1>8. CASE CallForeign
    BY <1>8, CallForeignStep
  <1>9. CASE \E r \in Records, d \in Userdata : RegisterCallback(r, d)
    BY <1>9, CallForeignStep
  <1>10. CASE \E d \in Userdata : BindCallback(d)
    BY <1>10, CallForeignStep
  <1>11. CASE Fault \/ Raise \/ Catch \/ Collect
    BY <1>11, StatementStep
  <1>12. CASE \E d \in Payloads : Alloc(d) \/ Forget(d) \/ Free(d)
    BY <1>12, StatementStep, ForgetStep
  <1>13. CASE UNCHANGED vars
    <2>1. UNCHANGED <<trap_flag, host_entry_active, script_depth, stack, registrations,
                      callbacks, live, held>>
      BY <1>13 DEF vars
    <2>2. TypeOK'
      BY <2>1 DEF BoundaryInv, TypeOK
    <2>3. QED
      BY <2>1, <2>2, StackSame DEF BoundaryInv
  <1>14. QED
    BY <1>1, <1>2, <1>3, <1>4, <1>5, <1>6, <1>7, <1>8, <1>9, <1>10, <1>11, <1>12, <1>13
       DEF Next, Host, Script

-----------------------------------------------------------------------------
(* What follows for the flag, the depth, the word and the trap. *)

\* The variables keep their types, for any host and any script (lifecycle.rs,
\* ffi/callbacks.rs, registration.rs).
THEOREM BoundaryTypeCorrect == Spec => []TypeOK
  <1>1. BoundaryInv /\ [Next]_vars => BoundaryInv'
    BY BoundaryInductive
  <1>2. BoundaryInv => TypeOK
    BY DEF BoundaryInv
  <1>3. QED
    BY BoundaryInit, <1>1, <1>2, PTL DEF Spec

\* One host entry runs at a time, the one that raised the flag
\* (begin_host_entry, begin_callback_entry, end_host_entry).
THEOREM OneEntryAtATime == Spec => []OneHostEntry
  <1>1. BoundaryInv /\ [Next]_vars => BoundaryInv'
    BY BoundaryInductive
  <1>2. BoundaryInv => OneHostEntry
    BY DEF BoundaryInv
  <1>3. QED
    BY BoundaryInit, <1>1, <1>2, PTL DEF Spec

\* The script depth counts the entries on the stack, at every depth of nesting
\* (enter_script, exit_script).
THEOREM DepthIsExact == Spec => []DepthCountsEntries
  <1>1. BoundaryInv /\ [Next]_vars => BoundaryInv'
    BY BoundaryInductive
  <1>2. ASSUME BoundaryInv PROVE DepthCountsEntries
    <2>1. CASE stack # <<>> /\ stack[1].kind \in {"export", "step"}
      <3>1. Entries = {1}
        BY <1>2, <2>1, StackFacts DEF BoundaryInv, OneHostEntry, Entries, Indices
      <3>2. Cardinality(Entries) = 1
        BY Zenon, <3>1, FS_Singleton
      <3>3. QED
        BY <1>2, <2>1, <3>2 DEF BoundaryInv, DepthIsBottom, DepthCountsEntries
    <2>2. CASE ~(stack # <<>> /\ stack[1].kind \in {"export", "step"})
      <3>1. Entries = {}
        BY <1>2, <2>2, StackFacts DEF BoundaryInv, OneHostEntry, Entries, Indices
      <3>2. Cardinality(Entries) = 0
        BY <3>1, FS_EmptySet
      <3>3. QED
        BY <1>2, <2>2, <3>2 DEF BoundaryInv, DepthIsBottom, DepthCountsEntries
    <2>3. QED
      BY <2>1, <2>2
  <1>3. QED
    BY BoundaryInit, <1>1, <1>2, PTL DEF Spec

\* No exception ever crosses a C frame (settle_uncaught_exception).
THEOREM HostSeesNoException == Spec => []NoExceptionInHost
  <1>1. BoundaryInv /\ [Next]_vars => BoundaryInv'
    BY BoundaryInductive
  <1>2. BoundaryInv => NoExceptionInHost
    BY DEF BoundaryInv, ExceptionUnwinds, NoExceptionInHost, HostRuns
  <1>3. QED
    BY BoundaryInit, <1>1, <1>2, PTL DEF Spec

\* A trap is cleared under no export and no step (can_clear_trap).
THEOREM TrapHoldsInEntries == Spec => ClearsOutsideEntries
  <1>1. BoundaryInv /\ [Next]_vars => BoundaryInv'
    BY BoundaryInductive
  <1>2. ASSUME BoundaryInv, [Next]_vars
        PROVE  [trap_flag = "trap" /\ trap_flag' = "none" => Entries = {}]_vars
    <2>1. SUFFICES ASSUME Next, trap_flag = "trap", trap_flag' = "none"
                   PROVE  Entries = {}
      BY <1>2
    <2>2. ClearTrap
      BY <2>1 DEF Next, Host, Script, HostEntry, HostEntryReentry, ReleaseRegistration,
         FireReleased, FireRegistration, FireFreed, FireEnters, FireBinding, ForeignReturn,
         HostEntryReturn, CallbackReturn, CallForeign, RegisterCallback, BindCallback, Fault,
         Raise, Catch, Alloc, Forget, Free, Collect, Settled, flags
    <2>3. stack # <<>> => stack[1].kind \notin {"export", "step"}
      BY <1>2, <2>2 DEF ClearTrap, BoundaryInv, DepthIsBottom
    <2>4. \A i \in Entries : i = 1 /\ stack[1].kind \in {"export", "step"} /\ stack # <<>>
      BY <1>2, StackFacts DEF BoundaryInv, OneHostEntry, Entries, Indices
    <2>5. QED
      BY <2>3, <2>4
  <1>3. QED
    BY BoundaryInit, <1>1, <1>2, PTL DEF Spec, ClearsOutsideEntries

-----------------------------------------------------------------------------
(* The calls that run through a registration. *)

Through(s, r) == {i \in 1 .. Len(s) : s[i].record = r}

\* A record counts its calls and has not ended; where there is none, no call runs.
Counts(reg, s, r) ==
  IF reg = Null THEN Through(s, r) = {}
  ELSE reg.active_calls = Cardinality(Through(s, r)) /\ ~Ended(reg)

\* Only callbacks run through records.
PlainFrames(s) == \A i \in 1 .. Len(s) : s[i].kind # "callback" => s[i].record = Null

CountInv ==
  /\ \A r \in Records : Counts(registrations[r], stack, r)
  /\ PlainFrames(stack)

\* The calls through a record are finitely many.
LEMMA ThroughFinite ==
  ASSUME NEW s \in Frames, NEW r
  PROVE  IsFiniteSet(Through(s, r)) /\ Cardinality(Through(s, r)) \in Nat
  <1>1. Len(s) \in Nat
    BY DEF Frames
  <1>2. IsFiniteSet(1 .. Len(s))
    BY <1>1, FS_Interval
  <1>3. Through(s, r) \in SUBSET (1 .. Len(s))
    BY DEF Through
  <1>4. QED
    BY <1>2, <1>3, FS_Subset, FS_CardinalityType

\* A push adds its own call, and no other.
LEMMA ThroughAppend ==
  ASSUME NEW s \in Frames, NEW f \in Frame, NEW r
  PROVE  /\ f.record = r => Cardinality(Through(Append(s, f), r)) = Cardinality(Through(s, r)) + 1
         /\ f.record # r => Through(Append(s, f), r) = Through(s, r)
  <1> DEFINE t == Append(s, f)
  <1>1. PICK n \in Nat : Len(s) = n
    BY DEF Frames
  <1>2. Len(t) = n + 1 /\ t[n + 1] = f /\ \A i \in 1 .. n : t[i] = s[i]
    BY <1>1, AppendFrame
  <1> HIDE DEF t
  <1>3. f.record = r => Through(t, r) = Through(s, r) \cup {n + 1}
    BY <1>1, <1>2 DEF Through
  <1>4. f.record # r => Through(t, r) = Through(s, r)
    BY <1>1, <1>2 DEF Through
  <1>5. n + 1 \notin Through(s, r)
    BY <1>1 DEF Through
  <1>6. Cardinality(Through(s, r) \cup {n + 1}) = Cardinality(Through(s, r)) + 1
    BY Zenon, <1>5, ThroughFinite, FS_AddElement
  <1>7. QED
    BY Zenon, <1>3, <1>4, <1>6 DEF t

\* A pop takes its own call, and no other.
LEMMA ThroughFront ==
  ASSUME NEW s \in Frames, s # <<>>, NEW r
  PROVE  /\ Last(s).record = r =>
              /\ Cardinality(Through(Front(s), r)) = Cardinality(Through(s, r)) - 1
              /\ Cardinality(Through(s, r)) > 0
         /\ Last(s).record # r => Through(Front(s), r) = Through(s, r)
  <1> DEFINE t == Front(s)
  <1>1. PICK n \in Nat : Len(s) = n
    BY DEF Frames
  <1>2. /\ n > 0 /\ Len(t) = n - 1 /\ Last(s) = s[n]
        /\ \A i \in 1 .. (n - 1) : t[i] = s[i]
    BY <1>1, FrontFrame
  <1> HIDE DEF t
  <1>3. s[n].record = r => Through(t, r) = Through(s, r) \ {n} /\ n \in Through(s, r)
    BY <1>1, <1>2 DEF Through
  <1>4. s[n].record # r => Through(t, r) = Through(s, r)
    BY <1>1, <1>2 DEF Through
  <1>5. ASSUME n \in Through(s, r)
        PROVE  /\ Cardinality(Through(s, r) \ {n}) = Cardinality(Through(s, r)) - 1
               /\ Cardinality(Through(s, r)) > 0
    <2>1. IsFiniteSet(Through(s, r)) /\ Cardinality(Through(s, r)) \in Nat
      BY ThroughFinite
    <2>2. Cardinality(Through(s, r) \ {n}) = Cardinality(Through(s, r)) - 1
      BY Zenon, <1>5, <2>1, FS_RemoveElement
    <2>3. Cardinality(Through(s, r)) # 0
      BY <1>5, <2>1, FS_EmptySet
    <2>4. PICK c \in Nat : Cardinality(Through(s, r)) = c
      BY <2>1
    <2>5. QED
      BY <2>2, <2>3, <2>4
  <1>6. QED
    BY Zenon, <1>2, <1>3, <1>4, <1>5 DEF t

\* Replacing the flag of the top frame changes no call.
LEMMA ThroughMarked ==
  ASSUME NEW s \in Frames, s # <<>>, NEW b \in BOOLEAN, NEW r
  PROVE  Through(Marked(s, b), r) = Through(s, r)
  <1> DEFINE t == Marked(s, b)
  <1>1. Len(t) = Len(s) /\ \A i \in 1 .. Len(s) : t[i].record = s[i].record
    BY MarkFrame
  <1> HIDE DEF t
  <1>2. QED
    BY <1>1 DEF Through, t

\* A record that may end here ends exactly when no call runs through it.
LEMMA KeepCounts ==
  ASSUME NEW s \in Frames, NEW r \in Records, NEW reg \in Registration,
         reg.active_calls = Cardinality(Through(s, r))
  PROVE  Counts(Keep(reg), s, r)
  <1>1. CASE Ended(reg)
    <2>1. Keep(reg) = Null /\ Cardinality(Through(s, r)) = 0
      BY <1>1 DEF Keep, Ended
    <2>2. Through(s, r) = {}
      BY <2>1, ThroughFinite, FS_EmptySet
    <2>3. QED
      BY <2>1, <2>2 DEF Counts
  <1>2. CASE ~Ended(reg)
    <2>1. Keep(reg) = reg
      BY <1>2 DEF Keep
    <2>2. QED
      BY <1>2, <2>1, RecordAssumption DEF Counts
  <1>3. QED
    BY <1>1, <1>2

\* A step that changes neither the records nor the calls through them.
LEMMA CountSame ==
  ASSUME CountInv, UNCHANGED registrations, PlainFrames(stack'),
         \A r \in Records : Through(stack', r) = Through(stack, r)
  PROVE  CountInv'
  BY DEF CountInv, Counts, PlainFrames

\* Pushing a frame that runs through no record.
LEMMA CountPush ==
  ASSUME BoundaryInv, CountInv, NEW f \in Frame, f.record = Null,
         stack' = Append(stack, f)
  PROVE  /\ PlainFrames(stack')
         /\ \A r \in Records : Through(stack', r) = Through(stack, r)
  <1>1. stack \in Frames
    BY StackFacts
  <1>2. \A r \in Records : r # Null
    BY NullAssumption
  <1>3. \A r \in Records : Through(stack', r) = Through(stack, r)
    BY <1>1, <1>2, ThroughAppend
  <1>4. PlainFrames(stack')
    BY <1>1, AppendFrame DEF CountInv, PlainFrames
  <1>5. QED
    BY <1>3, <1>4

\* Popping the top frame: the other records keep their calls.
LEMMA CountPop ==
  ASSUME BoundaryInv, CountInv, stack # <<>>
  PROVE  /\ PlainFrames(Front(stack))
         /\ \A r \in Records :
              Last(stack).record # r => Through(Front(stack), r) = Through(stack, r)
         /\ Last(stack).kind # "callback" => Last(stack).record = Null
  <1>1. stack \in Frames
    BY StackFacts
  <1>2. \A r \in Records :
          Last(stack).record # r => Through(Front(stack), r) = Through(stack, r)
    BY <1>1, ThroughFront
  <1>3. PICK n \in Nat : Len(stack) = n
    BY StackFacts
  <1>4. n > 0 /\ Last(stack) = stack[n] /\ Len(Front(stack)) = n - 1
    BY <1>1, <1>3, FrontFrame
  <1>5. \A i \in 1 .. (n - 1) : Front(stack)[i] = stack[i]
    BY <1>1, <1>3, FrontFrame
  <1>6. \A i \in 1 .. n : stack[i].kind # "callback" => stack[i].record = Null
    BY <1>3 DEF CountInv, PlainFrames
  <1>7. PlainFrames(Front(stack))
    BY <1>3, <1>4, <1>5, <1>6 DEF PlainFrames
  <1>8. QED
    BY <1>2, <1>4, <1>6, <1>7

\* Marking the top frame.
LEMMA CountMark ==
  ASSUME NEW s \in Frames, s # <<>>, NEW b \in BOOLEAN, PlainFrames(s),
         NEW t, t = Marked(s, b)
  PROVE  /\ PlainFrames(t)
         /\ \A r \in Records : Through(t, r) = Through(s, r)
  <1>1. \A r \in Records : Through(t, r) = Through(s, r)
    BY ThroughMarked
  <1>2. /\ Len(t) = Len(s)
        /\ \A i \in 1 .. Len(s) : t[i].kind = s[i].kind /\ t[i].record = s[i].record
    BY MarkFrame
  <1>3. PlainFrames(t)
    BY <1>2 DEF PlainFrames
  <1>4. QED
    BY <1>1, <1>3

\* release_callback_registration.
LEMMA CountRelease ==
  ASSUME BoundaryInv, CountInv, NEW r \in Records, ReleaseRegistration(r)
  PROVE  CountInv'
  <1> DEFINE reg == Closed(registrations[r])
  <1>1. registrations[r] \in Registration /\ registrations \in [Records -> Registration \cup {Null}]
    BY DEF ReleaseRegistration, BoundaryInv, TypeOK
  <1>2. reg \in Registration /\ reg.active_calls = registrations[r].active_calls
    BY Zenon, <1>1 DEF Closed, Registration
  <1>3. registrations[r].active_calls = Cardinality(Through(stack, r))
    BY <1>1, RecordAssumption DEF CountInv, Counts
  <1> HIDE DEF reg
  <1>4. Counts(Keep(reg), stack, r)
    BY <1>2, <1>3, KeepCounts, StackFacts
  <1>5. registrations' = [registrations EXCEPT ![r] = Keep(reg)] /\ stack' = stack
    BY DEF ReleaseRegistration, reg
  <1>6. \A q \in Records : Counts(registrations'[q], stack, q)
    BY <1>1, <1>4, <1>5 DEF CountInv
  <1>7. QED
    BY <1>5, <1>6 DEF CountInv

\* registration_enter: one more call on the stack, one more on the count.
LEMMA CountFire ==
  ASSUME BoundaryInv, CountInv, NEW r \in Records,
         registrations[r] # Null, registrations[r].open,
         NEW d, FireEnters(d, r), registrations' = [registrations EXCEPT ![r] = Entered(@)]
  PROVE  CountInv'
  <1> DEFINE f == ScriptFrame("callback", ~host_entry_active, r)
  <1>1. registrations[r] \in Registration /\ registrations \in [Records -> Registration \cup {Null}]
    BY DEF BoundaryInv, TypeOK
  <1>2. f \in Frame /\ f.record = r /\ f.kind = "callback"
    BY DEF BoundaryInv, TypeOK, ScriptFrame, Frame
  <1>3. stack' = Append(stack, f)
    BY DEF FireEnters
  <1> HIDE DEF f
  <1>4. stack \in Frames
    BY StackFacts
  <1>5. /\ Cardinality(Through(stack', r)) = Cardinality(Through(stack, r)) + 1
        /\ \A q \in Records \ {r} : Through(stack', q) = Through(stack, q)
    BY <1>2, <1>3, <1>4, ThroughAppend
  <1>6. PlainFrames(stack')
    BY <1>2, <1>3, <1>4, AppendFrame DEF CountInv, PlainFrames
  <1>7. /\ Entered(registrations[r]) \in Registration
        /\ Entered(registrations[r]).active_calls = registrations[r].active_calls + 1
        /\ Entered(registrations[r]).open
    BY <1>1 DEF Entered, Registration
  <1>8. registrations[r].active_calls = Cardinality(Through(stack, r))
    BY DEF CountInv, Counts
  <1>9. Counts(Entered(registrations[r]), stack', r)
    BY <1>5, <1>7, <1>8, RecordAssumption DEF Counts, Ended
  <1>10. registrations'[r] = Entered(registrations[r])
    BY <1>1
  <1>11. \A q \in Records \ {r} : registrations'[q] = registrations[q]
    BY <1>1
  <1>12. \A q \in Records \ {r} : Counts(registrations'[q], stack', q)
    BY <1>5, <1>11 DEF CountInv, Counts
  <1>13. \A q \in Records : Counts(registrations'[q], stack', q)
    BY <1>9, <1>10, <1>12
  <1>14. QED
    BY <1>6, <1>13 DEF CountInv

\* registration_exit: the record is there, and ends if this was its last call.
LEMMA CountReturn ==
  ASSUME BoundaryInv, CountInv, CallbackReturn
  PROVE  CountInv'
  <1> DEFINE r == Last(stack).record
  <1>1. stack # <<>> /\ stack \in Frames /\ stack' = Front(stack)
    BY StackFacts DEF CallbackReturn
  <1>2. r \in Records \cup {Null}
    BY <1>1, StackFacts DEF Frame
  <1>3. /\ PlainFrames(stack')
        /\ \A q \in Records : r # q => Through(stack', q) = Through(stack, q)
    BY <1>1, CountPop
  <1>4. registrations' = ExitRegistration(r)
    BY DEF CallbackReturn
  <1>5. registrations \in [Records -> Registration \cup {Null}]
    BY DEF BoundaryInv, TypeOK
  <1>6. CASE r = Null
    <2>1. registrations' = registrations
      BY <1>4, <1>6 DEF ExitRegistration
    <2>2. \A q \in Records : Through(stack', q) = Through(stack, q)
      BY <1>3, <1>6, NullAssumption
    <2>3. QED
      BY <1>3, <2>1, <2>2, CountSame
  <1>7. CASE r # Null
    <2>1. r \in Records
      BY <1>2, <1>7
    <2>2. /\ Cardinality(Through(stack', r)) = Cardinality(Through(stack, r)) - 1
          /\ Cardinality(Through(stack, r)) > 0
      BY <1>1, ThroughFront
    <2> HIDE DEF r
    <2>3. Through(stack, r) # {}
      BY <2>2, FS_EmptySet
    <2>4. /\ registrations[r] # Null /\ registrations[r] \in Registration
          /\ registrations[r].active_calls = Cardinality(Through(stack, r))
      BY <1>5, <2>1, <2>3 DEF CountInv, Counts
    <2>5. /\ Exited(registrations[r]) \in Registration
          /\ Exited(registrations[r]).active_calls = Cardinality(Through(stack', r))
      <3>1. PICK n \in Nat : registrations[r].active_calls = n
        BY <2>4 DEF Registration
      <3>2. n > 0 /\ Cardinality(Through(stack', r)) = n - 1
        BY <2>2, <2>4, <3>1
      <3>3. QED
        BY <2>4, <3>1, <3>2 DEF Exited, Saturating, Registration
    <2>6. stack' \in Frames
      BY <1>1, FrontFrame
    <2>7. Counts(Keep(Exited(registrations[r])), stack', r)
      BY <2>1, <2>5, <2>6, KeepCounts
    <2>8. registrations' = [registrations EXCEPT ![r] = Keep(Exited(registrations[r]))]
      BY <1>4, <1>7, <2>4 DEF ExitRegistration
    <2>9. \A q \in Records \ {r} : registrations'[q] = registrations[q]
      BY <1>5, <2>8
    <2>10. \A q \in Records \ {r} : Through(stack', q) = Through(stack, q)
      BY <1>3
    <2>11. \A q \in Records \ {r} : Counts(registrations'[q], stack', q)
      BY <2>9, <2>10 DEF CountInv, Counts
    <2>12. registrations'[r] = Keep(Exited(registrations[r]))
      BY <1>5, <2>1, <2>8
    <2>13. QED
      BY <1>3, <2>7, <2>11, <2>12 DEF CountInv
  <1>8. QED
    BY <1>6, <1>7

\* A foreign call, with what the marshaler records.
LEMMA CountForeign ==
  ASSUME BoundaryInv, CountInv,
         \/ CallForeign
         \/ \E r \in Records, d \in Userdata : RegisterCallback(r, d)
         \/ \E d \in Userdata : BindCallback(d)
  PROVE  CountInv'
  <1>1. stack' = Append(stack, Foreign) /\ Foreign \in Frame /\ Foreign.record = Null
    BY Zenon DEF CallForeign, RegisterCallback, BindCallback, Foreign, Frame
  <1>2. /\ PlainFrames(stack')
        /\ \A r \in Records : Through(stack', r) = Through(stack, r)
    BY <1>1, CountPush
  <1>3. ASSUME NEW r \in Records, NEW d \in Userdata, RegisterCallback(r, d)
        PROVE  CountInv'
    <2> DEFINE reg == [open |-> TRUE, active_calls |-> 0, userdata |-> d]
    <2>1. reg \in Registration /\ reg.active_calls = 0 /\ ~Ended(reg)
      BY DEF Registration, Ended
    <2>2. registrations' = [registrations EXCEPT ![r] = reg] /\ registrations[r] = Null
      BY <1>3 DEF RegisterCallback
    <2> HIDE DEF reg
    <2>3. Cardinality(Through(stack', r)) = 0
      BY <1>2, <2>2, FS_EmptySet DEF CountInv, Counts
    <2>4. Counts(reg, stack', r)
      BY <2>1, <2>3, RecordAssumption DEF Counts
    <2>5. registrations'[r] = reg /\ \A q \in Records \ {r} : registrations'[q] = registrations[q]
      BY <2>2 DEF BoundaryInv, TypeOK
    <2>6. \A q \in Records \ {r} : Counts(registrations'[q], stack', q)
      BY <1>2, <2>5 DEF CountInv, Counts
    <2>7. QED
      BY <1>2, <2>4, <2>5, <2>6 DEF CountInv
  <1>4. CASE CallForeign \/ \E d \in Userdata : BindCallback(d)
    BY <1>2, <1>4, CountSame DEF CallForeign, BindCallback
  <1>5. QED
    BY <1>3, <1>4

\* The foreign function returns to the script frame under it.
LEMMA CountForeignReturn ==
  ASSUME BoundaryInv, CountInv, ForeignReturn
  PROVE  CountInv'
  <1> DEFINE s == Front(stack)
             b == trap_flag # "none"
  <1>1. stack # <<>> /\ stack \in Frames /\ Last(stack).kind = "foreign"
    BY StackFacts DEF ForeignReturn
  <1>2. PICK n \in Nat : Len(stack) = n
    BY StackFacts
  <1>3. n > 1
    <2>1. n > 0 /\ Last(stack) = stack[n]
      BY <1>1, <1>2, StackFacts
    <2>2. stack[1].kind # "foreign"
      BY <1>1 DEF BoundaryInv, Alternates
    <2>3. QED
      BY <1>1, <2>1, <2>2
  <1>4. s \in Frames /\ Len(s) = n - 1 /\ (s = <<>> <=> n = 1)
    BY <1>1, <1>2, FrontFrame
  <1>5. stack' = Marked(s, b)
    BY <1>2, <1>4 DEF ForeignReturn, Top, Marked
  <1>6. /\ PlainFrames(s)
        /\ \A r \in Records : Through(s, r) = Through(stack, r)
    BY <1>1, CountPop, NullAssumption
  <1>7. b \in BOOLEAN /\ s # <<>>
    BY <1>3, <1>4
  <1> HIDE DEF s, b
  <1>8. /\ PlainFrames(stack')
        /\ \A r \in Records : Through(stack', r) = Through(s, r)
    BY <1>4, <1>5, <1>6, <1>7, CountMark
  <1>9. registrations' = registrations
    BY DEF ForeignReturn
  <1>10. QED
    BY <1>6, <1>8, <1>9, CountSame

\* The statements of a script change no call.
LEMMA CountStatement ==
  ASSUME BoundaryInv, CountInv,
         \/ Fault \/ Raise \/ Catch \/ Collect
         \/ \E d \in Payloads : Alloc(d) \/ Free(d)
  PROVE  CountInv'
  <1> DEFINE b == trap_flag' # "none"
  <1>1. UNCHANGED registrations /\ stack # <<>> /\ Checked
    BY DEF Fault, Raise, Catch, Alloc, Free, Collect, ScriptRuns
  <1>2. b \in BOOLEAN
    OBVIOUS
  <1>3. stack \in Frames /\ stack' = Marked(stack, b)
    BY <1>1, StackFacts DEF Checked, Top, Marked
  <1> HIDE DEF b
  <1>4. /\ PlainFrames(stack')
        /\ \A r \in Records : Through(stack', r) = Through(stack, r)
    BY <1>1, <1>2, <1>3, CountMark DEF CountInv
  <1>5. QED
    BY <1>1, <1>4, CountSame

\* Entering and leaving script without a record.
LEMMA CountEntry ==
  ASSUME BoundaryInv, CountInv,
         \/ \E kind \in {"export", "step"} : HostEntry(kind)
         \/ HostEntryReturn
         \/ \E d \in Userdata : FireEnters(d, Null) /\ UNCHANGED registrations
  PROVE  CountInv'
  <1>1. ASSUME NEW kind \in {"export", "step"}, HostEntry(kind) PROVE CountInv'
    <2>1. /\ ScriptFrame(kind, TRUE, Null) \in Frame
          /\ ScriptFrame(kind, TRUE, Null).record = Null
      BY DEF ScriptFrame, Frame
    <2>2. stack' = Append(stack, ScriptFrame(kind, TRUE, Null)) /\ registrations' = registrations
      BY <1>1 DEF HostEntry
    <2>3. QED
      BY Zenon, <2>1, <2>2, CountPush, CountSame
  <1>2. CASE HostEntryReturn
    <2>1. /\ stack # <<>> /\ Last(stack).kind # "callback"
          /\ stack' = Front(stack) /\ registrations' = registrations
      BY <1>2 DEF HostEntryReturn
    <2>2. /\ PlainFrames(stack')
          /\ \A r \in Records : Through(stack', r) = Through(stack, r)
      BY <2>1, CountPop, NullAssumption
    <2>3. QED
      BY <2>1, <2>2, CountSame
  <1>3. ASSUME NEW d \in Userdata, FireEnters(d, Null), UNCHANGED registrations
        PROVE  CountInv'
    <2> DEFINE f == ScriptFrame("callback", ~host_entry_active, Null)
    <2>1. f \in Frame /\ f.record = Null
      BY DEF ScriptFrame, Frame, BoundaryInv, TypeOK
    <2>2. stack' = Append(stack, f)
      BY <1>3 DEF FireEnters
    <2> HIDE DEF f
    <2>3. QED
      BY <1>3, <2>1, <2>2, CountPush, CountSame
  <1>4. QED
    BY <1>1, <1>2, <1>3

\* The steps that move neither the stack nor a record.
LEMMA CountStutter ==
  ASSUME CountInv, UNCHANGED <<stack, registrations>>
  PROVE  CountInv'
  BY Zenon DEF CountInv, Counts, PlainFrames, Through

\* Every step keeps the counts.
LEMMA CountInductive ==
  ASSUME BoundaryInv, CountInv, [Next]_vars
  PROVE  CountInv'
  <1>1. CASE \E kind \in {"export", "step"} : HostEntry(kind)
    BY <1>1, CountEntry
  <1>2. CASE HostEntryReentry \/ ClearTrap \/ UNCHANGED vars
    BY <1>2, CountStutter DEF HostEntryReentry, ClearTrap, vars
  <1>3. ASSUME NEW r \in Records, ReleaseRegistration(r) \/ FireReleased(r) \/ FireRegistration(r)
        PROVE  CountInv'
    <2>1. CASE ReleaseRegistration(r)
      BY <2>1, CountRelease
    <2>2. CASE FireReleased(r)
      BY <2>2, CountStutter DEF FireReleased
    <2>3. CASE FireRegistration(r)
      <3>1. CASE FireFreed(registrations[r].userdata)
        BY <3>1, CountStutter DEF FireFreed
      <3>2. CASE FireEnters(registrations[r].userdata, r) /\ registrations' =
                   [registrations EXCEPT ![r] = Entered(@)]
        BY Zenon, <2>3, <3>2, CountFire DEF FireRegistration
      <3>3. QED
        BY <2>3, <3>1, <3>2 DEF FireRegistration
    <2>4. QED
      BY <1>3, <2>1, <2>2, <2>3
  <1>4. ASSUME NEW d \in Userdata, FireBinding(d) PROVE CountInv'
    <2>1. CASE FireFreed(d)
      BY <2>1, CountStutter DEF FireFreed
    <2>2. CASE FireEnters(d, Null) /\ UNCHANGED registrations
      BY <2>2, CountEntry
    <2>3. QED
      BY <1>4, <2>1, <2>2 DEF FireBinding
  <1>5. CASE ForeignReturn
    BY <1>5, CountForeignReturn
  <1>6. CASE HostEntryReturn \/ CallbackReturn
    BY <1>6, CountEntry, CountReturn
  <1>7. CASE CallForeign \/ \E d \in Userdata : BindCallback(d)
    BY <1>7, CountForeign
  <1>8. CASE \E r \in Records, d \in Userdata : RegisterCallback(r, d)
    BY <1>8, CountForeign
  <1>9. CASE Fault \/ Raise \/ Catch \/ Collect
    BY <1>9, CountStatement
  <1>10. CASE \E d \in Payloads : Alloc(d) \/ Forget(d) \/ Free(d)
    BY <1>10, CountStatement, CountStutter DEF Forget
  <1>11. QED
    BY <1>1, <1>2, <1>3, <1>4, <1>5, <1>6, <1>7, <1>8, <1>9, <1>10 DEF Next, Host, Script

\* For any number of records and any nesting of calls: a record counts exactly
\* the calls on the stack that run through it, so a release never ends it under
\* a call, and the last return ends it (registration_enter, registration_exit,
\* release_callback_registration).
THEOREM RecordsCountTheirCalls == Spec => []CallsAreCounted
  <1>1. Init => CountInv
    <2> SUFFICES ASSUME Init PROVE CountInv
      OBVIOUS
    <2>1. stack = <<>> /\ Len(stack) = 0
      BY DEF Init
    <2>2. PlainFrames(stack) /\ \A r \in Records : Through(stack, r) = {}
      BY <2>1 DEF PlainFrames, Through
    <2>3. QED
      BY <2>2 DEF Init, CountInv, Counts
  <1>2. BoundaryInv /\ CountInv /\ [Next]_vars => BoundaryInv' /\ CountInv'
    BY BoundaryInductive, CountInductive
  <1>3. CountInv => CallsAreCounted
    BY Zenon DEF CountInv, Counts, CallsAreCounted, CallsThrough, Through,
           Indices, Registered
  <1>4. QED
    BY BoundaryInit, <1>1, <1>2, <1>3, PTL DEF Spec

\* While a record lives, only Context.free takes its userdata: a collection
\* reads the roots of released records that a call still runs through
\* (registration_roots).
THEOREM RecordsKeepUserdata == Spec => UserdataIsKept
  <1>1. ASSUME [Next]_vars, NEW r \in Registered,
               registrations[r].userdata \in live, registrations[r].userdata \notin live'
        PROVE  Free(registrations[r].userdata)
    <2> DEFINE u == registrations[r].userdata
    <2>1. live' # live
      BY <1>1
    <2>2. ~Collect
      BY <1>1 DEF Collect, RegistrationRoots
    <2>3. ~ \E d \in Payloads : Alloc(d)
      BY <1>1 DEF Alloc
    <2>4. \E d \in Payloads : Free(d)
      BY Zenon, <1>1, <2>1, <2>2, <2>3 DEF Next, Host, Script, HostEntry, HostEntryReentry,
         ReleaseRegistration, FireReleased, FireRegistration, FireBinding, ForeignReturn,
         HostEntryReturn, CallbackReturn, CallForeign, RegisterCallback, BindCallback, Fault,
         Raise, Catch, Forget, ClearTrap, heap, vars
    <2>5. PICK d \in Payloads : Free(d)
      BY <2>4
    <2>6. d = u
      BY <1>1, <2>5 DEF Free
    <2>7. QED
      BY <2>5, <2>6
  <1>2. [Next]_vars => [\A r \in Registered :
                          LET d == registrations[r].userdata
                          IN  d \in live /\ d \notin live' => Free(d)]_vars
    BY <1>1
  <1>3. QED
    BY <1>2, PTL DEF Spec, UserdataIsKept

=============================================================================
