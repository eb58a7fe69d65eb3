------------------------------- MODULE DbCall -------------------------------
(***************************************************************************)
(* What a caller of DbConnector may rely on, and what the grain modules    *)
(* assume of it: a result means the statement was applied, once; an        *)
(* exception means it was or was not; a call may also never be answered,   *)
(* and dies with the process.                                              *)
(***************************************************************************)
CONSTANT Works
VARIABLES
    task,       \* the caller's view of each call
    applied     \* the statements the database has applied

vars == <<task, applied>>

State == {"none", "pending", "result", "exception", "gone"}

Init == task = [w \in Works |-> "none"] /\ applied = {}

Submit(w) ==
    /\ task[w] = "none"
    /\ task' = [task EXCEPT ![w] = "pending"]
    /\ UNCHANGED applied

Apply(w) ==
    /\ task[w] = "pending" /\ w \notin applied
    /\ applied' = applied \cup {w}
    /\ UNCHANGED task

Answer(w) ==
    /\ task[w] = "pending" /\ w \in applied
    /\ task' = [task EXCEPT ![w] = "result"]
    /\ UNCHANGED applied

Throw(w) ==
    /\ task[w] = "pending"
    /\ task' = [task EXCEPT ![w] = "exception"]
    /\ UNCHANGED applied

\* The process dies: its calls die with it, at most one of them applied on
\* the way.
Die ==
    /\ task' = [w \in Works |-> IF task[w] = "pending" THEN "gone" ELSE task[w]]
    /\ \/ UNCHANGED applied
       \/ \E w \in Works : task[w] = "pending" /\ applied' = applied \cup {w}

Next == Die \/ \E w \in Works : Submit(w) \/ Apply(w) \/ Answer(w) \/ Throw(w)

Spec == Init /\ [][Next]_vars
=============================================================================
