-------------------------- MODULE DbPipelineProofs --------------------------
(***************************************************************************)
(* DbPipeline, for every set of works and every number of failed opens.    *)
(* The queue is always the last part of what was written, and the work in  *)
(* hand is the one before it; so what may still be applied is what the     *)
(* reader has not gone past, and DbPipeline is DbCall step by step.        *)
(***************************************************************************)
EXTENDS DbPipeline, Integers, TLAPS, SequenceTheorems

\* How many of the written works the reader has gone past or has in hand.
Passed == Len(submitted) - Len(queue)

\* Each work is written once.
SubmittedOK ==
    /\ \A i, j \in 1..Len(submitted) : submitted[i] = submitted[j] => i = j
    /\ \A i \in 1..Len(submitted) : task[submitted[i]] # "none"
    /\ \A w \in applied : task[w] # "none"

\* What is queued was written last, and nobody has answered or applied it.
QueueOK ==
    /\ Len(queue) <= Len(submitted)
    /\ \A k \in 1..Len(queue) :
         /\ queue[k] = submitted[Passed + k]
         /\ task[queue[k]] = "pending" /\ queue[k] \notin applied

\* The work in hand was written just before what is queued.
ReaderOK ==
    reader # Waiting =>
        /\ Passed \in 1..Len(submitted) /\ reader.work = submitted[Passed]
        /\ task[reader.work] = "pending"
        /\ reader.pc \in {"open", "run"} => reader.work \notin applied
        /\ reader.pc = "ok" => reader.work \in applied

IInv == TypeOK /\ SubmittedOK /\ QueueOK /\ ReaderOK

-----------------------------------------------------------------------------
(* The lengths are numbers, and indices the domains. *)
LEMMA Lengths ==
    ASSUME TypeOK
    PROVE  /\ Len(queue) \in Nat /\ DOMAIN queue = 1..Len(queue)
           /\ Len(submitted) \in Nat /\ DOMAIN submitted = 1..Len(submitted)
           /\ \A k \in 1..Len(queue) : queue[k] \in Works
           /\ \A i \in 1..Len(submitted) : submitted[i] \in Works
  BY LenProperties, ElementOfSeq DEF TypeOK

(* The record of a work in hand. *)
LEMMA ReaderFields ==
    ASSUME TypeOK, reader # Waiting \/ reader.pc # "waiting"
    PROVE  /\ reader \in Reader /\ reader # Waiting /\ reader.work \in Works
           /\ reader.pc \in {"open", "run", "ok", "threw"}
  BY DEF TypeOK, Reader, Waiting

LEMMA InitInv == Init => IInv
  <1> SUFFICES ASSUME Init PROVE IInv
    OBVIOUS
  <1> USE DEF Init
  <1>1. TypeOK
    BY EmptySeq, PipelineAssumption DEF TypeOK, TaskState
  <1>2. Len(queue) = 0 /\ Len(submitted) = 0
    BY EmptySeq
  <1>3. SubmittedOK /\ QueueOK /\ ReaderOK
    BY <1>2 DEF SubmittedOK, QueueOK, ReaderOK
  <1> QED
    BY <1>1, <1>3 DEF IInv

(* A work is written once, behind all others. *)
LEMMA PipelineKeepsInv ==
    ASSUME IInv, NEW w \in Works, Pipeline(w) PROVE IInv'
  <1> USE DEF Pipeline, Complete
  <1>1. /\ TypeOK /\ task[w] = "none" /\ w \notin applied
        /\ \A i \in 1..Len(submitted) : submitted[i] # w
        /\ \A v \in Works : task'[v] = IF v = w THEN "pending" ELSE task[v]
        /\ task' \in [Works -> TaskState]
    BY DEF IInv, SubmittedOK, TypeOK, TaskState
  <1>2. /\ queue' \in Seq(Works) /\ Len(queue') = Len(queue) + 1
        /\ \A k \in 1..Len(queue) : queue'[k] = queue[k]
        /\ queue'[Len(queue) + 1] = w
    BY <1>1, AppendProperties DEF TypeOK
  <1>3. /\ submitted' \in Seq(Works) /\ Len(submitted') = Len(submitted) + 1
        /\ \A i \in 1..Len(submitted) : submitted'[i] = submitted[i]
        /\ submitted'[Len(submitted) + 1] = w
    BY <1>1, AppendProperties DEF TypeOK
  <1>4. /\ Passed' = Passed /\ Passed \in Nat /\ Passed + Len(queue) = Len(submitted)
        /\ Len(queue) \in Nat /\ Len(submitted) \in Nat
    BY <1>1, <1>2, <1>3, Lengths DEF Passed, IInv, QueueOK
  <1>5. TypeOK'
    BY <1>1, <1>2, <1>3 DEF TypeOK
  <1>6. SubmittedOK'
    <2>1. \A v \in applied' : task'[v] # "none"
      BY <1>1 DEF IInv, SubmittedOK, TypeOK
    <2>2. \A i \in 1..Len(submitted') : task'[submitted'[i]] # "none"
      BY <1>1, <1>3, Lengths DEF IInv, SubmittedOK
    <2>3. \A i, j \in 1..Len(submitted') : submitted'[i] = submitted'[j] => i = j
      BY <1>1, <1>3, Lengths DEF IInv, SubmittedOK
    <2> QED
      BY <2>1, <2>2, <2>3 DEF SubmittedOK
  <1>7. QueueOK'
    <2>1. Len(queue') <= Len(submitted')
      BY <1>2, <1>3, <1>4
    <2>2. ASSUME NEW k \in 1..Len(queue')
          PROVE  /\ queue'[k] = submitted'[Passed' + k]
                 /\ task'[queue'[k]] = "pending" /\ queue'[k] \notin applied'
      <3>1. CASE k = Len(queue) + 1
        BY <1>1, <1>2, <1>3, <1>4, <3>1
      <3>2. CASE k \in 1..Len(queue)
        <4>1. /\ queue[k] = submitted[Passed + k] /\ task[queue[k]] = "pending"
              /\ queue[k] \notin applied
          BY <3>2 DEF IInv, QueueOK
        <4>2. Passed + k \in 1..Len(submitted) /\ queue[k] \in Works
          BY <1>1, <1>4, <3>2, Lengths
        <4> QED
          BY <1>1, <1>2, <1>3, <1>4, <3>2, <4>1, <4>2
      <3> QED
        BY <1>2, <1>4, <3>1, <3>2
    <2> HIDE DEF Pipeline
    <2> QED
      BY <2>1, <2>2 DEF QueueOK
  <1>8. ReaderOK'
    BY <1>1, <1>3, <1>4, ReaderFields, Lengths DEF IInv, ReaderOK
  <1> QED
    BY <1>5, <1>6, <1>7, <1>8 DEF IInv

(* The reader takes the oldest work of the queue. *)
LEMMA TakeKeepsInv ==
    ASSUME IInv, Take PROVE IInv'
  <1> USE DEF Take
  <1>1. TypeOK /\ queue # <<>> /\ queue \in Seq(Works)
    BY DEF IInv, TypeOK
  <1>2. /\ queue' \in Seq(Works) /\ Len(queue') = Len(queue) - 1 /\ Len(queue) > 0
        /\ \A k \in 1..Len(queue') : queue'[k] = queue[k + 1]
        /\ Head(queue) = queue[1] /\ Head(queue) \in Works
    BY <1>1, HeadTailProperties, EmptySeq, Lengths
  <1>3. /\ reader'.work = queue[1] /\ reader'.pc = "open" /\ reader' \in Reader
    BY <1>2 DEF Reader
  <1>4. /\ Passed' = Passed + 1 /\ Passed \in Nat /\ Passed' \in 1..Len(submitted)
        /\ queue[1] = submitted[Passed'] /\ task[queue[1]] = "pending"
        /\ queue[1] \notin applied
    BY <1>1, <1>2, Lengths DEF Passed, IInv, QueueOK
  <1>5. TypeOK' /\ SubmittedOK'
    BY <1>2, <1>3 DEF IInv, TypeOK, SubmittedOK
  <1>6. QueueOK'
    <2> SUFFICES ASSUME NEW k \in 1..Len(queue')
                 PROVE  /\ queue'[k] = submitted[Passed' + k]
                        /\ task[queue'[k]] = "pending" /\ queue'[k] \notin applied
      BY <1>1, <1>2, Lengths DEF QueueOK, IInv
    <2>1. k + 1 \in 1..Len(queue) /\ Passed' + k = Passed + (k + 1)
      BY <1>1, <1>2, <1>4, Lengths
    <2> QED
      BY <1>2, <2>1 DEF IInv, QueueOK
  <1>7. ReaderOK'
    BY <1>3, <1>4 DEF ReaderOK
  <1> QED
    BY <1>5, <1>6, <1>7 DEF IInv

(* The work in hand is not one of the queued ones. *)
LEMMA InHandIsNotQueued ==
    ASSUME IInv, reader # Waiting, NEW k \in 1..Len(queue)
    PROVE  queue[k] # reader.work
  <1>1. /\ Passed \in 1..Len(submitted) /\ reader.work = submitted[Passed]
        /\ Passed + Len(queue) = Len(submitted)
        /\ Len(queue) \in Nat /\ Len(submitted) \in Nat
    BY Lengths DEF IInv, ReaderOK, Passed
  <1>2. queue[k] = submitted[Passed + k]
    BY DEF IInv, QueueOK
  <1>3. Passed + k \in 1..Len(submitted) /\ Passed + k # Passed
    BY <1>1
  <1> QED
    BY <1>1, <1>2, <1>3 DEF IInv, SubmittedOK

(* Opening and running move the work in hand and may apply it, no other. *)
LEMMA InHandKeepsInv ==
    ASSUME IInv, Open \/ OpenFails \/ Run PROVE IInv'
  <1>1. /\ TypeOK /\ UNCHANGED <<queue, task, submitted>>
        /\ reader \in Reader /\ reader # Waiting /\ reader.work \in Works
    BY ReaderFields DEF IInv, Open, OpenFails, Run
  <1>2. /\ Passed' = Passed /\ Passed \in 1..Len(submitted)
        /\ Passed + Len(queue) = Len(submitted)
        /\ Len(queue) \in Nat /\ Len(submitted) \in Nat
        /\ reader.work = submitted[Passed] /\ task[reader.work] = "pending"
        /\ reader.pc \in {"open", "run"} => reader.work \notin applied
    BY <1>1, Lengths DEF IInv, ReaderOK, Passed
  <1>3. /\ \/ applied' = applied
           \/ applied' = applied \cup {reader.work}
        /\ openFails' \in 0..MaxOpenFails
    BY <1>1, PipelineAssumption DEF Open, OpenFails, Run, TypeOK
  <1>4. \/ reader' = Waiting
        \/ /\ reader' \in Reader /\ reader'.work = reader.work
           /\ reader'.pc \in {"open", "run"} => reader.work \notin applied'
           /\ reader'.pc = "ok" => reader.work \in applied'
    BY <1>1, <1>2 DEF Open, OpenFails, Run, Reader
  <1>5. TypeOK'
    BY <1>1, <1>3, <1>4 DEF TypeOK
  <1>6. SubmittedOK'
    BY <1>1, <1>2, <1>3 DEF IInv, SubmittedOK
  <1>7. QueueOK'
    <2>1. ASSUME NEW k \in 1..Len(queue) PROVE queue[k] # reader.work
      BY <1>1, InHandIsNotQueued
    <2> QED
      BY <1>1, <1>2, <1>3, <2>1 DEF IInv, QueueOK
  <1>8. ReaderOK'
    BY <1>1, <1>2, <1>4 DEF ReaderOK
  <1> QED
    BY <1>5, <1>6, <1>7, <1>8 DEF IInv

LEMMA FinishKeepsInv ==
    ASSUME IInv, Finish PROVE IInv'
  <1>1. /\ TypeOK /\ reader' = Waiting /\ UNCHANGED <<queue, applied, submitted, openFails>>
        /\ reader # Waiting /\ reader.work \in Works
    BY ReaderFields DEF IInv, Finish
  <1>2. /\ task' \in [Works -> TaskState]
        /\ \A w \in Works : w # reader.work => task'[w] = task[w]
        /\ task'[reader.work] # "none"
    BY <1>1 DEF Finish, Complete, Outcome, TypeOK, TaskState
  <1>3. TypeOK'
    BY <1>1, <1>2 DEF TypeOK
  <1>4. SubmittedOK'
    <2>1. \A w \in Works : task[w] # "none" => task'[w] # "none"
      BY <1>2
    <2> QED
      BY <1>1, <2>1, Lengths DEF IInv, SubmittedOK, TypeOK
  <1>5. QueueOK'
    <2>1. ASSUME NEW k \in 1..Len(queue) PROVE task'[queue[k]] = "pending"
      BY <1>1, <1>2, InHandIsNotQueued, Lengths DEF IInv, QueueOK
    <2> QED
      BY <1>1, <2>1 DEF IInv, QueueOK, Passed
  <1>6. ReaderOK'
    BY <1>1 DEF ReaderOK
  <1> QED
    BY <1>3, <1>4, <1>5, <1>6 DEF IInv

(* A crash forgets the queue, and with it every pending call. *)
LEMMA CrashKeepsInv ==
    ASSUME IInv, Crash PROVE IInv'
  <1>1. /\ TypeOK /\ reader' = Waiting /\ queue' = <<>>
        /\ UNCHANGED <<submitted, openFails>>
        /\ task' = [w \in Works |-> IF task[w] = "pending" THEN "gone" ELSE task[w]]
    BY DEF IInv, Crash
  <1>2. /\ task' \in [Works -> TaskState]
        /\ \A w \in Works : task[w] # "none" => task'[w] # "none"
    BY <1>1 DEF TypeOK, TaskState
  <1>3. \A w \in applied' : w \in Works /\ task[w] # "none"
    <2>1. CASE applied' = applied
      BY <1>1, <2>1 DEF IInv, SubmittedOK, TypeOK
    <2>2. CASE reader.pc = "run" /\ applied' = applied \cup {reader.work}
      <3>1. reader.work \in Works /\ task[reader.work] = "pending"
        BY <1>1, <2>2, ReaderFields DEF IInv, ReaderOK
      <3> QED
        BY <1>1, <2>2, <3>1 DEF IInv, SubmittedOK, TypeOK
    <2> QED
      BY <2>1, <2>2 DEF Crash
  <1>4. Len(queue') = 0 /\ queue' \in Seq(Works) /\ Len(submitted) \in Nat
    BY <1>1, EmptySeq, Lengths
  <1>5. TypeOK'
    BY <1>1, <1>2, <1>3, <1>4 DEF TypeOK
  <1>6. SubmittedOK'
    BY <1>1, <1>2, <1>3, Lengths DEF IInv, SubmittedOK
  <1>7. QueueOK' /\ ReaderOK'
    BY <1>1, <1>4 DEF QueueOK, ReaderOK
  <1> QED
    BY <1>5, <1>6, <1>7 DEF IInv

LEMMA StepKeepsInv == IInv /\ [Next]_vars => IInv'
  <1> SUFFICES ASSUME IInv, [Next]_vars PROVE IInv'
    OBVIOUS
  <1>1. CASE UNCHANGED vars
    BY <1>1 DEF vars, IInv, TypeOK, SubmittedOK, QueueOK, ReaderOK, Passed
  <1> QED
    BY <1>1, PipelineKeepsInv, TakeKeepsInv, InHandKeepsInv, FinishKeepsInv, CrashKeepsInv
       DEF Next, ReaderStep

LEMMA AlwaysInv == Spec => []IInv
  BY InitInv, StepKeepsInv, PTL DEF Spec

(* DbConnector's queue, reader and tasks keep their types. *)
THEOREM DbPipelineTypeOK == Spec => []TypeOK
  <1>1. IInv => TypeOK
    BY DEF IInv
  <1> QED
    BY <1>1, AlwaysInv, PTL

-----------------------------------------------------------------------------
(* Nothing beyond the work in hand is applied. *)
AppliedOK ==
    \A j \in 1..Len(submitted) : submitted[j] \in applied => j <= Passed

LEMMA QueuedNotApplied == IInv => AppliedOK
  <1> SUFFICES ASSUME IInv, NEW j \in 1..Len(submitted), j > Passed
               PROVE  submitted[j] \notin applied
    BY Lengths DEF AppliedOK, IInv, Passed
  <1> DEFINE k == j - Passed
  <1>1. k \in 1..Len(queue) /\ Passed + k = j
    BY Lengths DEF IInv, Passed, QueueOK
  <1> QED
    BY <1>1 DEF IInv, QueueOK

(* ProcessQueueAsync: once a work is applied, each work written before it is
   answered, dropped or dead, so no statement is overtaken by a later one. *)
THEOREM DbPipelineNoOvertaking == Spec => []NoOvertaking
  <1>1. IInv => NoOvertaking
    <2> SUFFICES ASSUME IInv, NEW i \in 1..Len(submitted), NEW j \in 1..Len(submitted),
                        i < j, submitted[j] \in applied,
                        task[submitted[i]] = "pending"
                 PROVE  ~Queued(submitted[i]) /\ ~InHand(submitted[i])
      BY Lengths DEF NoOvertaking, Abandoned, IInv
    <2>1. i < Passed /\ Passed \in Int
      BY QueuedNotApplied, Lengths DEF AppliedOK, Passed, IInv
    <2>2. ASSUME NEW k \in 1..Len(queue) PROVE queue[k] # submitted[i]
      <3>1. queue[k] = submitted[Passed + k]
        BY DEF IInv, QueueOK
      <3>2. Passed + k \in 1..Len(submitted) /\ Passed + k # i
        BY <2>1, Lengths DEF IInv, QueueOK, Passed
      <3> QED
        BY <3>1, <3>2 DEF IInv, SubmittedOK
    <2>3. ~Queued(submitted[i])
      BY <2>2, Lengths DEF Queued, IInv
    <2>4. ~InHand(submitted[i])
      BY <2>1 DEF InHand, IInv, ReaderOK, SubmittedOK
    <2> QED
      BY <2>3, <2>4
  <1> QED
    BY <1>1, AlwaysInv, PTL

-----------------------------------------------------------------------------
(* Each step of the pipeline is a step of DbCall or none of its business. *)
LEMMA StepCalls ==
    ASSUME IInv, [Next]_vars
    PROVE  [D!Next]_(D!vars)
  <1> SUFFICES ASSUME D!vars' # D!vars PROVE D!Next
    OBVIOUS
  <1>1. ASSUME NEW w \in Works, Pipeline(w) PROVE D!Next
    BY <1>1 DEF Pipeline, Complete, D!Next, D!Submit
  <1>2. CASE Take \/ Open \/ OpenFails \/ UNCHANGED vars
    BY <1>2 DEF Take, Open, OpenFails, vars, D!vars
  <1>3. CASE Run
    <2>1. /\ reader.work \in Works /\ task[reader.work] = "pending"
          /\ reader.work \notin applied
      BY <1>3, ReaderFields DEF Run, IInv, ReaderOK
    <2>2. task' = task /\ applied' = applied \cup {reader.work}
      BY <1>3 DEF Run, D!vars
    <2> QED
      BY <2>1, <2>2 DEF D!Next, D!Apply
  <1>4. CASE Finish
    <2>1. /\ reader.work \in Works /\ task[reader.work] = "pending"
          /\ reader.pc = "ok" => reader.work \in applied
      BY <1>4, ReaderFields DEF Finish, IInv, ReaderOK
    <2>2. D!Answer(reader.work) \/ D!Throw(reader.work)
      BY <1>4, <2>1 DEF Finish, Complete, Outcome, D!Answer, D!Throw
    <2> QED
      BY <2>1, <2>2 DEF D!Next
  <1>5. CASE Crash
    <2>1. reader.pc = "run" => reader.work \in Works /\ task[reader.work] = "pending"
      BY ReaderFields DEF IInv, ReaderOK
    <2> QED
      BY <1>5, <2>1 DEF Crash, D!Next, D!Die
  <1> QED
    BY <1>1, <1>2, <1>3, <1>4, <1>5 DEF Next, ReaderStep

(* DbConnector implements the call the grain modules assume of it: a result
   means applied, once; an exception means applied or not; a crash takes the
   pending calls with it.                                                  *)
THEOREM DbPipelineIsDbCall == Spec => ImplementsDbCall
  <1>1. Init => D!Init
    BY DEF Init, D!Init
  <1>2. IInv /\ [Next]_vars => [D!Next]_(D!vars)
    BY StepCalls
  <1> QED
    BY <1>1, <1>2, AlwaysInv, PTL DEF Spec, ImplementsDbCall, D!Spec
=============================================================================
