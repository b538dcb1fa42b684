---------------------------- MODULE TaskLifecycle ----------------------------
(***************************************************************************)
(* What the scheduler promises about one task and the tasks around it: the *)
(* states of the task inspection (section 169) and the steps between them  *)
(* that the await protocol allows (section 94.1).  No queue, count or trap *)
(* appears here.                                                           *)
(***************************************************************************)
CONSTANTS Tasks, None

VARIABLES status,    \* the state of each task
          awaited    \* the task that a WAITING task waits on

States == {"UNREGISTERED", "ACTIVE", "READY", "PARKED", "WAITING", "COMPLETE", "STOPPED"}

\* A STOPPED task never runs again; only a finished task is freed.
Edges ==
  {<<"UNREGISTERED", "ACTIVE">>,
   <<"ACTIVE", "PARKED">>, <<"ACTIVE", "WAITING">>, <<"ACTIVE", "READY">>,
   <<"ACTIVE", "COMPLETE">>, <<"ACTIVE", "UNREGISTERED">>, <<"ACTIVE", "STOPPED">>,
   <<"PARKED", "READY">>, <<"WAITING", "READY">>,
   <<"READY", "ACTIVE">>, <<"READY", "STOPPED">>,
   <<"COMPLETE", "UNREGISTERED">>}

Init ==
  /\ status = [t \in Tasks |-> "UNREGISTERED"]
  /\ awaited = [t \in Tasks |-> None]

\* The task ran to its end in this step; with no holder it is freed at once.
Ends(t) == status[t] = "ACTIVE" /\ status'[t] \in {"COMPLETE", "UNREGISTERED"}

Activates(t) == status[t] # "ACTIVE" /\ status'[t] = "ACTIVE"

\* A checkpoint took the whole parked list.
Checkpoint == \A t \in Tasks : status'[t] # "PARKED"

\* A task moves along an edge.  One task at a time starts to run, and only a
\* checkpoint ends a parking.
Follows(t) ==
  LET from == status[t]
      to == status'[t]
  IN  to # from =>
        /\ <<from, to>> \in Edges
        /\ to = "ACTIVE" => \A s \in Tasks \ {t} : ~Activates(s)
        /\ from = "PARKED" => Checkpoint

\* A waiting task stays with its handle until exactly the step that ends it.
Wakes(t) ==
  status[t] = "WAITING" =>
    LET h == awaited[t]
    IN  IF h \in Tasks /\ Ends(h)
        THEN status'[t] = "READY"
        ELSE status'[t] = "WAITING" /\ awaited'[t] = h

Next == \A t \in Tasks : Follows(t) /\ Wakes(t)

Spec == Init /\ [][Next]_<<status, awaited>>
=============================================================================
