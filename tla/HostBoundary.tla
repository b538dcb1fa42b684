---------------------------- MODULE HostBoundary ----------------------------
(***************************************************************************)
(* The boundary between a C host and the script of one Context: host       *)
(* entries and their re-entry guard (lifecycle.rs, ffi.rs,                 *)
(* cemit/emitter.rs), the two callback trampolines (ffi/callbacks.rs), the *)
(* callback registrations with an explicit end (registration.rs), and the  *)
(* trap word with the calls that clear it.                                 *)
(*                                                                         *)
(* The C stack is a sequence of frames.  Script runs while a script frame  *)
(* is on top; the host runs while the stack is empty or a foreign call is  *)
(* on top, and may then enter script again, fire a callback, release a     *)
(* registration or clear the trap.  The trap observer is not modelled: its *)
(* contract forbids it the Context.                                        *)
(***************************************************************************)
EXTENDS Integers, Sequences, FiniteSets

CONSTANTS Records,   \* addresses of callback registrations
          Payloads,  \* addresses of script allocations used as userdata
          Null,      \* no userdata, no record
          MaxStack   \* bound: frames on the C stack

ASSUME NullAssumption == Null \notin Records \cup Payloads
ASSUME StackAssumption == MaxStack \in Nat

VARIABLES
  trap_flag,          \* "none", "trap" or "exception"
  host_entry_active,  \* Context::host_entry_active
  script_depth,       \* Context::script_depth
  registrations,      \* Context::registrations, Null where no record lives
  callbacks,          \* Context::callbacks: the interned bindings, by userdata
  live,               \* live allocations
  held,               \* allocations that script reaches
  stack               \* the C stack, bottom first

vars == <<trap_flag, host_entry_active, script_depth, registrations, callbacks, live, held, stack>>
flags == <<trap_flag, host_entry_active, script_depth>>
heap == <<live, held>>

Userdata == Payloads \cup {Null}
Registration == [open : BOOLEAN, active_calls : Nat, userdata : Userdata]

ASSUME RecordAssumption == Null \notin Registration

\* A frame: an export, a scheduler step, a callback or a foreign call.  `entered`
\* frames lower the host-entry flag when they return; `record` is the
\* registration a callback was fired through; a script frame that has read a
\* raised flag `unwinds`.
Frame == [kind : {"export", "step", "callback", "foreign"}, entered : BOOLEAN,
          record : Records \cup {Null}, unwinds : BOOLEAN]

ScriptFrame(kind, entered, record) ==
  [kind |-> kind, entered |-> entered, record |-> record, unwinds |-> FALSE]
Foreign == [kind |-> "foreign", entered |-> FALSE, record |-> Null, unwinds |-> FALSE]

\* The frame on top of a stack, and the stack once that frame returns.
Last(s) == s[Len(s)]
Front(s) == SubSeq(s, 1, Len(s) - 1)

Init ==
  /\ trap_flag = "none"
  /\ host_entry_active = FALSE
  /\ script_depth = 0
  /\ registrations = [r \in Records |-> Null]
  /\ callbacks = {}
  /\ live = {} /\ held = {}
  /\ stack = <<>>

HostRuns == stack # <<>> => Last(stack).kind = "foreign"
ScriptRuns == stack # <<>> /\ Last(stack).kind # "foreign" /\ ~Last(stack).unwinds
Registered == {r \in Records : registrations[r] # Null}
Room == Len(stack) < MaxStack

\* saturating_sub(1).
Saturating(n) == IF n = 0 THEN 0 ELSE n - 1

\* What a settled word is: an uncaught exception becomes the trap
\* (settle_uncaught_exception).
Settled(word) == IF word = "exception" THEN "trap" ELSE word

-----------------------------------------------------------------------------
(* Host entries: exports through the ship tier's wrapper, bracketed by the *)
(* host's enter_script and exit_script, and the scheduler steps.           *)

\* emit_host_entry_guard and subscript_rt_ctx_async_step(_budget) when no host
\* entry runs.  An export enters script even on a trapped Context; a step on a
\* trapped Context, or with nothing ready, runs no script.
HostEntry(kind) ==
  /\ HostRuns
  /\ ~host_entry_active
  /\ kind = "step" => trap_flag = "none"
  /\ Room
  /\ host_entry_active' = TRUE
  /\ script_depth' = script_depth + 1
  /\ stack' = Append(stack, ScriptFrame(kind, TRUE, Null))
  /\ UNCHANGED <<trap_flag, registrations, callbacks, heap>>

\* trap_host_entry_reentry: the inner call traps and runs no script.
HostEntryReentry ==
  /\ HostRuns
  /\ host_entry_active
  /\ trap_flag' = "trap"
  /\ UNCHANGED <<host_entry_active, script_depth, registrations, callbacks, heap, stack>>

\* The wrapper lowers the flag, and exit_script settles at depth 0.  An
\* exception that leaves a task completes its handle or settles
\* (async_complete_exception), so a step returns with neither.
HostEntryReturn ==
  /\ stack # <<>> /\ Last(stack).kind \in {"export", "step"}
  /\ host_entry_active' = FALSE
  /\ script_depth' = Saturating(script_depth)
  /\ \/ trap_flag' = IF script_depth = 1 THEN Settled(trap_flag) ELSE trap_flag
     \/ Last(stack).kind = "step" /\ trap_flag = "exception" /\ trap_flag' = "none"
  /\ stack' = Front(stack)
  /\ UNCHANGED <<registrations, callbacks, heap>>

\* Mutant: the trap is cleared whatever is on the stack.
ClearTrapAnywhere ==
  /\ HostRuns
  /\ trap_flag = "trap"
  /\ trap_flag' = "none"
  /\ UNCHANGED <<host_entry_active, script_depth, registrations, callbacks, heap, stack>>

\* subscript_rt_ctx_clear_trap: refused unless can_clear_trap.
ClearTrap ==
  /\ HostRuns
  /\ script_depth = 0
  /\ trap_flag = "trap"
  /\ trap_flag' = "none"
  /\ UNCHANGED <<host_entry_active, script_depth, registrations, callbacks, heap, stack>>

-----------------------------------------------------------------------------
(* Registrations: each crossing creates one record, which ends when the    *)
(* host has released it and no call runs through it.                       *)

Ended(reg) == ~reg.open /\ reg.active_calls = 0

\* end_registration, or keep the record.
Keep(reg) == IF Ended(reg) THEN Null ELSE reg

Entered(reg) == [reg EXCEPT !.active_calls = @ + 1]
Exited(reg) == [reg EXCEPT !.active_calls = Saturating(@)]
Closed(reg) == [reg EXCEPT !.open = FALSE]

\* Mutant: a release closes the record and leaves its end to the last return.
ReleaseOnlyCloses(r) ==
  /\ HostRuns
  /\ registrations[r] # Null /\ registrations[r].open
  /\ registrations' = [registrations EXCEPT ![r] = Closed(@)]
  /\ UNCHANGED <<flags, callbacks, heap, stack>>

\* release_callback_registration of an open record; any other pointer changes
\* nothing.
ReleaseRegistration(r) ==
  /\ HostRuns
  /\ registrations[r] # Null /\ registrations[r].open
  /\ registrations' = [registrations EXCEPT ![r] = Keep(Closed(@))]
  /\ UNCHANGED <<flags, callbacks, heap, stack>>

\* registration_enter of a record that the host has released.  A fire through
\* a record that has ended reads freed storage and is the host's to avoid.
FireReleased(r) ==
  /\ HostRuns
  /\ registrations[r] # Null /\ ~registrations[r].open
  /\ trap_flag' = "trap"
  /\ UNCHANGED <<host_entry_active, script_depth, registrations, callbacks, heap, stack>>

-----------------------------------------------------------------------------
(* Firing a callback (fire_callback): on a trapped Context nothing runs,   *)
(* and a registration then counts its call up and down again.              *)

ValidUserdata(d) == d = Null \/ d \in live

\* validate_callback_userdata fails: trap, no script.
FireFreed(d) ==
  /\ trap_flag = "none"
  /\ ~ValidUserdata(d)
  /\ trap_flag' = "trap"
  /\ UNCHANGED <<host_entry_active, script_depth, registrations, stack>>

\* Script is entered.  The message string may fail to allocate: the Context is
\* then trapped and the callback entered all the same.  begin_callback_entry
\* raises the flag unless a host entry runs.
FireEnters(d, r) ==
  /\ trap_flag = "none"
  /\ ValidUserdata(d)
  /\ Room
  /\ trap_flag' \in {"none", "trap"}
  /\ host_entry_active' = TRUE
  /\ stack' = Append(stack, ScriptFrame("callback", ~host_entry_active, r))
  /\ UNCHANGED script_depth

\* The Context-lifetime trampoline.
FireBinding(d) ==
  /\ HostRuns
  /\ d \in callbacks
  /\ \/ FireFreed(d)
     \/ FireEnters(d, Null) /\ UNCHANGED registrations
  /\ UNCHANGED <<callbacks, heap>>

\* The registration trampoline up to the script.
FireRegistration(r) ==
  /\ HostRuns
  /\ registrations[r] # Null /\ registrations[r].open
  /\ \/ FireFreed(registrations[r].userdata)
     \/ /\ FireEnters(registrations[r].userdata, r)
        /\ registrations' = [registrations EXCEPT ![r] = Entered(@)]
  /\ UNCHANGED <<callbacks, heap>>

\* registration_exit.
ExitRegistration(r) ==
  IF r = Null \/ registrations[r] = Null THEN registrations
  ELSE [registrations EXCEPT ![r] = Keep(Exited(@))]

\* Mutant: the trampoline lowers the flag although an outer entry raised it.
CallbackReturnLowers ==
  /\ stack # <<>> /\ Last(stack).kind = "callback"
  /\ trap_flag' = Settled(trap_flag)
  /\ host_entry_active' = FALSE
  /\ registrations' = ExitRegistration(Last(stack).record)
  /\ stack' = Front(stack)
  /\ UNCHANGED <<script_depth, callbacks, heap>>

\* Mutant: a pending exception crosses the C frame.
CallbackReturnUnsettled ==
  /\ stack # <<>> /\ Last(stack).kind = "callback"
  /\ trap_flag' = trap_flag
  /\ host_entry_active' = (host_entry_active /\ ~Last(stack).entered)
  /\ registrations' = ExitRegistration(Last(stack).record)
  /\ stack' = Front(stack)
  /\ UNCHANGED <<script_depth, callbacks, heap>>

\* Mutant: the trampoline leaves a script depth that it never entered.
CallbackReturnExits ==
  /\ stack # <<>> /\ Last(stack).kind = "callback"
  /\ trap_flag' = Settled(trap_flag)
  /\ host_entry_active' = (host_entry_active /\ ~Last(stack).entered)
  /\ script_depth' = script_depth - 1
  /\ registrations' = ExitRegistration(Last(stack).record)
  /\ stack' = Front(stack)
  /\ UNCHANGED <<callbacks, heap>>

\* The callback returns to its trampoline: settle, end the entry if this
\* trampoline began it, and count the call down.
CallbackReturn ==
  /\ stack # <<>> /\ Last(stack).kind = "callback"
  /\ trap_flag' = Settled(trap_flag)
  /\ host_entry_active' = (host_entry_active /\ ~Last(stack).entered)
  /\ registrations' = ExitRegistration(Last(stack).record)
  /\ stack' = Front(stack)
  /\ UNCHANGED <<script_depth, callbacks, heap>>

-----------------------------------------------------------------------------
(* Script.  Generated code reads the word after every call that can fault, *)
(* and unwinds when it is raised.                                          *)

Top == Len(stack)
Checked == stack' = [stack EXCEPT ![Top].unwinds = trap_flag' # "none"]

\* A foreign call, with no callback among its arguments.
CallForeign ==
  /\ ScriptRuns /\ Room
  /\ stack' = Append(stack, Foreign)
  /\ UNCHANGED <<flags, registrations, callbacks, heap>>

\* register_callback by the marshaler of a foreign call.
RegisterCallback(r, d) ==
  /\ ScriptRuns /\ Room
  /\ registrations[r] = Null
  /\ d # Null => d \in held \cap live
  /\ registrations' = [registrations EXCEPT ![r] =
                         [open |-> TRUE, active_calls |-> 0, userdata |-> d]]
  /\ stack' = Append(stack, Foreign)
  /\ UNCHANGED <<flags, callbacks, heap>>

\* bind_callback by the marshaler of a foreign call: one record per identity.
BindCallback(d) ==
  /\ ScriptRuns /\ Room
  /\ d # Null => d \in held \cap live
  /\ callbacks' = callbacks \cup {d}
  /\ stack' = Append(stack, Foreign)
  /\ UNCHANGED <<flags, registrations, heap>>

\* The foreign function returns, and its caller reads the word.
ForeignReturn ==
  /\ stack # <<>> /\ Last(stack).kind = "foreign"
  /\ stack' = [Front(stack) EXCEPT ![Top - 1].unwinds = trap_flag # "none"]
  /\ UNCHANGED <<flags, registrations, callbacks, heap>>

\* A fault of the script itself.
Fault ==
  /\ ScriptRuns
  /\ trap_flag' = "trap"
  /\ Checked
  /\ UNCHANGED <<host_entry_active, script_depth, registrations, callbacks, heap>>

\* raise_exception: a trap wins over an exception.
Raise ==
  /\ ScriptRuns
  /\ trap_flag' = IF trap_flag = "none" THEN "exception" ELSE trap_flag
  /\ Checked
  /\ UNCHANGED <<host_entry_active, script_depth, registrations, callbacks, heap>>

\* catch_exception in the frame that raised it or that called the function that did.
Catch ==
  /\ stack # <<>> /\ Last(stack).unwinds
  /\ trap_flag = "exception"
  /\ trap_flag' = "none"
  /\ Checked
  /\ UNCHANGED <<host_entry_active, script_depth, registrations, callbacks, heap>>

\* A new userdata object.  The allocator may reuse a dead address.
Alloc(d) ==
  /\ ScriptRuns
  /\ d \notin live
  /\ live' = live \cup {d}
  /\ held' = held \cup {d}
  /\ trap_flag' = trap_flag
  /\ Checked
  /\ UNCHANGED <<host_entry_active, script_depth, registrations, callbacks>>

\* Script drops its last reference.
Forget(d) ==
  /\ ScriptRuns
  /\ d \in held
  /\ held' = held \ {d}
  /\ UNCHANGED <<flags, registrations, callbacks, live, stack>>

\* Context.free of an object, which a registration may still name.
Free(d) ==
  /\ ScriptRuns
  /\ d \in held \cap live
  /\ live' = live \ {d}
  /\ held' = held \ {d}
  /\ trap_flag' = trap_flag
  /\ Checked
  /\ UNCHANGED <<host_entry_active, script_depth, registrations, callbacks>>

\* Mutant: only the open registrations are roots.
RegistrationRootsOpen ==
  {registrations[r].userdata : r \in {s \in Registered : registrations[s].open}}

\* registration_roots: the userdata of every record, open or active.
RegistrationRoots == {registrations[r].userdata : r \in Registered}

\* collect: what neither script, a registration nor a binding reaches is freed.
Collect ==
  /\ ScriptRuns
  /\ live' = live \cap (held \cup RegistrationRoots \cup callbacks)
  /\ trap_flag' = trap_flag
  /\ Checked
  /\ UNCHANGED <<host_entry_active, script_depth, registrations, callbacks, held>>

-----------------------------------------------------------------------------
Host ==
  \/ \E kind \in {"export", "step"} : HostEntry(kind)
  \/ HostEntryReentry
  \/ ClearTrap
  \/ \E r \in Records : ReleaseRegistration(r) \/ FireReleased(r) \/ FireRegistration(r)
  \/ \E d \in Userdata : FireBinding(d)
  \/ ForeignReturn

Script ==
  \/ HostEntryReturn \/ CallbackReturn
  \/ CallForeign
  \/ \E r \in Records, d \in Userdata : RegisterCallback(r, d)
  \/ \E d \in Userdata : BindCallback(d)
  \/ Fault \/ Raise \/ Catch
  \/ \E d \in Payloads : Alloc(d) \/ Forget(d) \/ Free(d)
  \/ Collect

Next == Host \/ Script
Spec == Init /\ [][Next]_vars

-----------------------------------------------------------------------------
Indices == 1 .. Len(stack)
Entries == {i \in Indices : stack[i].kind \in {"export", "step"}}
CallsThrough(r) == {i \in Indices : stack[i].record = r}

\* Every variable has its type; the depth never goes below zero.
TypeOK ==
  /\ trap_flag \in {"none", "trap", "exception"}
  /\ host_entry_active \in BOOLEAN
  /\ script_depth \in Nat
  /\ registrations \in [Records -> Registration \cup {Null}]
  /\ callbacks \subseteq Userdata
  /\ live \subseteq Payloads /\ held \subseteq Payloads
  /\ stack \in Seq(Frame)

\* One host entry at a time (begin_host_entry, begin_callback_entry): the flag
\* is raised exactly while something is on the stack, the bottom frame is the
\* one that raised it, and an export or a step is never above another frame.
OneHostEntry ==
  /\ host_entry_active <=> stack # <<>>
  /\ \A i \in Indices : stack[i].entered <=> i = 1
  /\ Entries \subseteq {1}

\* The script depth that guards clear_trap counts the bracketed entries on the
\* stack (enter_script, exit_script).
DepthCountsEntries == script_depth = Cardinality(Entries)

\* A record counts exactly the calls on the stack that run through it, and a
\* released record lives as long as the last of them: it outlives none, and
\* nothing keeps its userdata after it (registration_enter, registration_exit,
\* release_callback_registration, end_registration).
CallsAreCounted ==
  \A r \in Records :
    IF registrations[r] = Null THEN CallsThrough(r) = {}
    ELSE /\ registrations[r].active_calls = Cardinality(CallsThrough(r))
         /\ ~Ended(registrations[r])

\* No exception crosses a C frame: host code never runs with one pending
\* (settle_uncaught_exception in fire_callback and exit_script).
NoExceptionInHost == HostRuns => trap_flag # "exception"

\* Only an explicit free takes the userdata of a record that is open or that
\* a call runs through: a collection never does, however deep the release was.
UserdataIsKept ==
  [][\A r \in Registered :
       LET d == registrations[r].userdata
       IN  d \in live /\ d \notin live' => Free(d)]_vars

\* A trap is not cleared under an export or a scheduler step (can_clear_trap).
ClearsOutsideEntries ==
  [][trap_flag = "trap" /\ trap_flag' = "none" => Entries = {}]_vars

\* What the C tutorial and the comments on clear_trap say: clearing is refused
\* while a script frame is live.
ClearsOutsideScript ==
  [][trap_flag = "trap" /\ trap_flag' = "none" => stack = <<>>]_vars
=============================================================================
