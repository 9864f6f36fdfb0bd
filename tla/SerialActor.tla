----------------------------- MODULE SerialActor -----------------------------
(***************************************************************************)
(* What the mailbox of an actor promises to its callers, whatever requests, *)
(* responses and threads it is made of: the tasks submitted to one actor    *)
(* are served one at a time, in the order they were submitted, and a task   *)
(* that removes the actor is the last one the actor sees.  A task may be    *)
(* abandoned at any time before it is served (its arguments cannot be sent, *)
(* the actor is gone) or while it is being served (the thread ends).        *)
(***************************************************************************)
CONSTANTS Tasks, Actors, NoActor

VARIABLES
  status,   \* of a task: idle, waiting, serving, done
  actor,    \* the actor a task was submitted to
  before,   \* the tasks submitted to that actor earlier
  removals, \* the tasks that remove their actor
  served    \* the tasks that reached their actor

vars == <<status, actor, before, removals, served>>

Init ==
  /\ status = [t \in Tasks |-> "idle"]
  /\ actor = [t \in Tasks |-> NoActor]
  /\ before = [t \in Tasks |-> {}]
  /\ removals = {}
  /\ served = {}

Submit(t, o) ==
  /\ status[t] = "idle"
  /\ status' = [status EXCEPT ![t] = "waiting"]
  /\ actor' = [actor EXCEPT ![t] = o]
  /\ before' = [before EXCEPT ![t] = {s \in Tasks : actor[s] = o}]
  /\ removals' \in {removals, removals \cup {t}}
  /\ UNCHANGED served

\* a task is served when all earlier ones are done, at once or for a while
Serve(t) ==
  /\ status[t] = "waiting"
  /\ \A s \in before[t] : status[s] = "done"
  /\ before[t] \cap removals = {}
  /\ \E now \in {"serving", "done"} : status' = [status EXCEPT ![t] = now]
  /\ served' = served \cup {t}
  /\ UNCHANGED <<actor, before, removals>>

\* one task is finished, or several end together unfinished
End(T) ==
  /\ T # {} /\ \A t \in T : status[t] \in {"waiting", "serving"}
  /\ status' = [t \in Tasks |-> IF t \in T THEN "done" ELSE status[t]]
  /\ UNCHANGED <<actor, before, removals, served>>

Next ==
  \/ \E t \in Tasks, o \in Actors : Submit(t, o)
  \/ \E t \in Tasks : Serve(t)
  \/ \E T \in SUBSET Tasks : End(T)

Spec == Init /\ [][Next]_vars

\* An actor serves one task at a time.
OneAtATime ==
  \A s, t \in Tasks :
    status[s] = "serving" /\ status[t] = "serving" /\ actor[s] = actor[t] => s = t
=============================================================================
