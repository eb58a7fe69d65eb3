----------------------------- MODULE DbPipeline -----------------------------
(***************************************************************************)
(* DbConnector: every statement of the process goes through one unbounded  *)
(* channel with one reader.  The reader opens a connection, runs the work, *)
(* completes the caller's task, and only then takes the next.              *)
(***************************************************************************)
EXTENDS Naturals, Sequences

CONSTANTS
    Works,          \* the calls of PipelineAsync
    MaxOpenFails    \* how many OpenAsync calls fail

ASSUME PipelineAssumption == MaxOpenFails \in Nat

VARIABLES
    queue,          \* _queue
    reader,         \* what ProcessQueueAsync is doing, and with which work
    task,           \* CompletionSource.Task of each work
    applied,        \* the statements the database has applied
    submitted,      \* history: the works in the order they were written
    openFails       \* history: how many OpenAsync calls failed

vars == <<queue, reader, task, applied, submitted, openFails>>

-----------------------------------------------------------------------------
TaskState == {"none", "pending", "result", "exception", "gone"}

Reader == [pc : {"open", "run", "ok", "threw"}, work : Works]

Waiting == [pc |-> "waiting"]

Queued(w) == \E i \in DOMAIN queue : queue[i] = w

InHand(w) == reader # Waiting /\ reader.work = w

\* A work the reader dropped: its task is pending, and nobody holds it.
Abandoned(w) == task[w] = "pending" /\ ~Queued(w) /\ ~InHand(w)

Complete(w, res) == task' = [task EXCEPT ![w] = res]

-----------------------------------------------------------------------------
Init ==
    /\ queue = <<>>
    /\ reader = Waiting
    /\ task = [w \in Works |-> "none"]
    /\ applied = {}
    /\ submitted = <<>>
    /\ openFails = 0

\* Any thread may write; the channel is never completed, so TryWrite succeeds.
PipelineInFront(w) ==
    /\ task[w] = "none"
    /\ queue' = <<w>> \o queue
    /\ submitted' = Append(submitted, w)
    /\ Complete(w, "pending")
    /\ UNCHANGED <<reader, applied, openFails>>
Pipeline(w) ==
    /\ task[w] = "none"
    /\ queue' = Append(queue, w)
    /\ submitted' = Append(submitted, w)
    /\ Complete(w, "pending")
    /\ UNCHANGED <<reader, applied, openFails>>

Take ==
    /\ reader = Waiting /\ queue # <<>>
    /\ reader' = [pc |-> "open", work |-> Head(queue)]
    /\ queue' = Tail(queue)
    /\ UNCHANGED <<task, applied, submitted, openFails>>

Open ==
    /\ reader.pc = "open"
    /\ reader' = [reader EXCEPT !.pc = "run"]
    /\ UNCHANGED <<queue, task, applied, submitted, openFails>>

\* OpenAsync throws: logged, and the work's task is never completed.
OpenFailsEndsLoop ==
    /\ reader.pc = "open" /\ openFails < MaxOpenFails
    /\ reader' = [reader EXCEPT !.pc = "ended"]
    /\ openFails' = openFails + 1
    /\ UNCHANGED <<queue, task, applied, submitted>>
OpenFails ==
    /\ reader.pc = "open" /\ openFails < MaxOpenFails
    /\ reader' = Waiting
    /\ openFails' = openFails + 1
    /\ UNCHANGED <<queue, task, applied, submitted>>

Run ==
    /\ reader.pc = "run"
    /\ \/ applied' = applied \cup {reader.work} /\ reader' = [reader EXCEPT !.pc = "ok"]
       \/ applied' = applied \cup {reader.work} /\ reader' = [reader EXCEPT !.pc = "threw"]
       \/ UNCHANGED applied /\ reader' = [reader EXCEPT !.pc = "threw"]
    /\ UNCHANGED <<queue, task, submitted, openFails>>

\* SetResult or SetException, and on to the next work.
OutcomeUnchecked == "result"
OutcomeOfReader == reader.pc
Outcome == IF reader.pc = "ok" THEN "result" ELSE "exception"

Finish ==
    /\ reader.pc \in {"ok", "threw"}
    /\ Complete(reader.work, Outcome)
    /\ reader' = Waiting
    /\ UNCHANGED <<queue, applied, submitted, openFails>>

Crash ==
    /\ \/ UNCHANGED applied
       \/ reader.pc = "run" /\ applied' = applied \cup {reader.work}
    /\ task' = [w \in Works |-> IF task[w] = "pending" THEN "gone" ELSE task[w]]
    /\ queue' = <<>> /\ reader' = Waiting
    /\ UNCHANGED <<submitted, openFails>>

ReaderStep == Take \/ Open \/ OpenFails \/ Run \/ Finish

Next == (\E w \in Works : Pipeline(w)) \/ ReaderStep \/ Crash

Spec == Init /\ [][Next]_vars

\* ProcessQueueAsync is always scheduled; every open and statement returns.
FairSpec == Spec /\ WF_vars(ReaderStep)

-----------------------------------------------------------------------------
(* Every variable stays in its type. *)
TypeOK ==
    /\ queue \in Seq(Works)
    /\ reader \in Reader \cup {Waiting}
    /\ task \in [Works -> TaskState]
    /\ applied \subseteq Works
    /\ submitted \in Seq(Works)
    /\ openFails \in 0..MaxOpenFails

(* Statements are applied one at a time in the order they were written: when
   a work runs, no work written before it can still be applied, since it was
   answered, was dropped, or died.                                         *)
NoOvertaking ==
    \A i, j \in DOMAIN submitted :
        i < j /\ submitted[j] \in applied =>
            \/ task[submitted[i]] # "pending"
            \/ Abandoned(submitted[i])

(* A failed open costs only the work in hand: each work that was written is
   answered, unless its own open failed or the process died.               *)
EveryWorkSettles ==
    \A w \in Works : task[w] = "pending" ~> (task[w] # "pending" \/ Abandoned(w))

(* The pipeline is what the grain modules take a database call to be.      *)
D == INSTANCE DbCall
ImplementsDbCall == D!Spec
=============================================================================
