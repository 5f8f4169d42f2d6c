----------------------------- MODULE FlowProofs -----------------------------
(***************************************************************************)
(* What FlowOrchestration promises however many requests race and wherever *)
(* they die, for every definition of a flow and any number of flows,       *)
(* workers, tasks and keys.                                                *)
(*                                                                         *)
(* Every fact a request relies on is of a kind that stays true (Grows): a  *)
(* flow exists, a step was promoted, a completion, a signal or a decision  *)
(* is on record.  So JobSound(l, j), which says that what a request was    *)
(* told is true, survives whatever other requests do; and each write,      *)
(* however stale, keeps the documents sound.                               *)
(***************************************************************************)
EXTENDS FlowOrchestration, NaturalsInduction, FiniteSetTheorems, TLAPS

(* The documents alone.                                                    *)
StoreTyped ==
  /\ flow    \in [Flows -> FlowRec]
  /\ step    \in [Flows -> [Steps -> StepRec]]
  /\ tasks   \in [Tasks -> TaskRec]
  /\ signals \in [Signal -> Nat]
  /\ ran     \in [Flows -> [Steps -> Nat]]
  /\ emitted \in [Flows -> [Steps -> Nat]]

StoreSound ==
  /\ StepsSound /\ AttemptsSound /\ TasksSound
  /\ DependencyOrder /\ ClosedAfterWork /\ EventGate /\ HumanGate

(* What no step takes back.                                                *)
Grows ==
  /\ \A f \in Flows :
       Exists(f) => Exists(f)' /\ flow'[f].level = flow[f].level
  /\ \A f \in Flows, s \in Steps :
       /\ LiveStep(f, s) => LiveStep(f, s)'
       /\ Done(f, s) => Done(f, s)'
       /\ Decided(f, s) => Decided(f, s)'
  /\ \A f \in Flows, e \in Events : Recorded(f, e) => Recorded(f, e)'
  /\ \A t \in Tasks :
       tasks[t].status # "none" => /\ tasks'[t].status # "none"
                                   /\ tasks'[t].f = tasks[t].f
                                   /\ tasks'[t].s = tasks[t].s

----------------------------------------------------------------------------
(* Types of the pieces.                                                    *)

(* An idle request carries a well-typed nothing.                           *)
LEMMA NoJobType == NoJob \in JobRec /\ Pending \in StepRec
<1>1. Pending \in StepRec
  BY DEF Pending, StepRec, StepStates
<1>2. [s \in Steps |-> Pending] \in [Steps -> StepRec]
  BY <1>1
<1>3. 1 \in 1..(NSteps + 1)
  BY DefinitionAssumption
<1>. QED BY <1>1, <1>2, <1>3 DEF NoJob, JobRec, FlowStates

(* A control step moves the worker that takes it, and no other.            *)
LEMMA GotoType ==
  ASSUME pc \in [Workers -> Labels], job \in [Workers -> JobRec],
         NEW w \in Workers, NEW l \in Labels, NEW j \in JobRec, Goto(w, l, j)
  PROVE  /\ pc' \in [Workers -> Labels] /\ pc'[w] = l
         /\ job' \in [Workers -> JobRec] /\ job'[w] = j
         /\ \A v \in Workers \ {w} : pc'[v] = pc[v] /\ job'[v] = job[v]
  BY DEF Goto

(* A step document is overwritten whole, and no other with it.             *)
LEMMA PutStepType ==
  ASSUME step \in [Flows -> [Steps -> StepRec]],
         NEW f \in Flows, NEW s \in Steps, NEW r \in StepRec, PutStep(f, s, r)
  PROVE  /\ step' \in [Flows -> [Steps -> StepRec]]
         /\ step'[f][s] = r
         /\ \A g \in Flows, t \in Steps :
              g # f \/ t # s => step'[g][t] = step[g][t]
  BY DEF PutStep

(* Writing the state of a flow leaves its assurance level alone.           *)
LEMMA PutStateType ==
  ASSUME flow \in [Flows -> FlowRec], NEW f \in Flows, NEW st \in FlowStates,
         PutState(f, st)
  PROVE  /\ flow' \in [Flows -> FlowRec]
         /\ flow'[f].state = st
         /\ \A g \in Flows : /\ flow'[g].level = flow[g].level
                             /\ g # f => flow'[g] = flow[g]
  BY DEF PutState, FlowRec

----------------------------------------------------------------------------
(* The request that takes the step, and the others.                        *)

(* What a request was told stays true while others work.                   *)
LEMMA JobGrows ==
  ASSUME StoreTyped, Grows, NEW l \in Labels, NEW j \in JobRec, JobSound(l, j)
  PROVE  JobSound(l, j)'
<1>1. l \in HoldsFlow => j.f \in Flows /\ Exists(j.f) /\ Exists(j.f)'
  BY DEF JobSound, FlowSound, Grows
<1>2. HoldsStep \subseteq HoldsFlow
  BY DEF HoldsStep, HoldsFlow, Labels
<1>3. l \in HoldsStep => j.s \in Steps
  BY DEF JobSound, StepSound
<1>4. \A s \in Steps : EventOf[s] \in Events
  BY DEF Events
<1>5. FlowSound(l, j)'
  BY <1>1 DEF FlowSound
<1>6. StepSound(l, j)'
  BY <1>1, <1>2 DEF JobSound, StepSound, Grows
<1>7. TodoSound(l, j)'
  <2>1. j.todo \subseteq Steps
    BY DEF JobRec
  <2>. QED BY <1>1, <1>4, <2>1 DEF JobSound, TodoSound, Grows
<1>8. SnapSound(l, j)'
  <2>1. l = "promote" => l \in HoldsFlow
    BY DEF HoldsFlow
  <2>. QED BY <1>1, <2>1 DEF JobSound, SnapSound, Grows
<1>9. RecordSound(l, j)'
  BY DEF JobSound, RecordSound
<1>10. CauseSound(l, j)'
  <2>1. l \in {"complete", "completeWrite"} => l \in HoldsStep
    BY DEF HoldsStep
  <2>. QED BY <1>1, <1>2, <1>3, <1>4, <2>1 DEF JobSound, CauseSound, Grows
<1>11. ArgsSound(l, j)'
  <2>1. l \in {"scan", "settle"} => l \in HoldsFlow
    BY DEF HoldsFlow
  <2>. QED BY <1>1, <2>1 DEF JobSound, ArgsSound, Grows
<1>. QED
  BY <1>5, <1>6, <1>7, <1>8, <1>9, <1>10, <1>11 DEF JobSound

(* A step of one request keeps the invariant if it keeps the documents     *)
(* sound, takes nothing back and leaves its own request well informed.     *)
LEMMA StepKeeps ==
  ASSUME IInv, NEW w \in Workers, NEW l \in Labels, NEW j \in JobRec,
         Goto(w, l, j), Grows, StoreTyped', StoreSound', JobSound(l, j)'
  PROVE  IInv' /\ Grows
<1>1. /\ pc' \in [Workers -> Labels] /\ pc'[w] = l
      /\ job' \in [Workers -> JobRec] /\ job'[w] = j
      /\ \A v \in Workers \ {w} : pc'[v] = pc[v] /\ job'[v] = job[v]
  BY GotoType DEF IInv, TypeOK
<1>2. TypeOK'
  BY <1>1 DEF TypeOK, StoreTyped
<1>3. ASSUME NEW v \in Workers PROVE JobSound(pc[v], job[v])'
  <2>1. CASE v = w
    BY <2>1, <1>1 DEF JobSound, FlowSound, StepSound, TodoSound, SnapSound,
                      RecordSound, CauseSound, ArgsSound
  <2>2. CASE v # w
    <3>1. pc'[v] = pc[v] /\ job'[v] = job[v]
      BY <1>1, <2>2
    <3>2. PICK k \in Labels, i \in JobRec : k = pc[v] /\ i = job[v]
      BY DEF IInv, TypeOK
    <3>3. JobSound(k, i)
      BY <3>2 DEF IInv
    <3>4. JobSound(k, i)'
      BY <3>3, JobGrows DEF IInv, TypeOK, StoreTyped
    <3>. QED
      BY <3>1, <3>2, <3>4 DEF JobSound, FlowSound, StepSound, TodoSound,
                      SnapSound, RecordSound, CauseSound, ArgsSound
  <2>. QED BY <2>1, <2>2
<1>. QED BY <1>2, <1>3 DEF IInv, StoreSound

(* A step that only reads keeps everything.                                *)
LEMMA ReadKeeps ==
  ASSUME IInv, NEW w \in Workers, NEW l \in Labels, NEW j \in JobRec,
         Goto(w, l, j), UNCHANGED store, JobSound(l, j)
  PROVE  IInv' /\ Grows
<1>1. Grows
  BY DEF Grows, store, Exists, LiveStep, Done, Decided, Recorded
<1>2. /\ flow' = flow /\ step' = step /\ tasks' = tasks
      /\ signals' = signals /\ ran' = ran /\ emitted' = emitted
  BY DEF store
<1>3. StoreTyped'
  BY <1>2 DEF IInv, TypeOK, StoreTyped
<1>4. StepsSound' /\ AttemptsSound' /\ TasksSound'
  BY <1>2 DEF IInv, StepsSound, AttemptsSound, TasksSound, LiveStep, Skips, Exists
<1>5. DependencyOrder' /\ ClosedAfterWork' /\ EventGate' /\ HumanGate'
  BY <1>2 DEF IInv, DependencyOrder, ClosedAfterWork, EventGate, HumanGate, Done
<1>6. JobSound(l, j)'
  BY <1>1, JobGrows DEF IInv, TypeOK, StoreTyped
<1>. QED BY <1>1, <1>3, <1>4, <1>5, <1>6, StepKeeps DEF StoreSound

(* A request that ends is told nothing.                                    *)
LEMMA FinishGoes ==
  ASSUME NEW w \in Workers, Finish(w)
  PROVE  \E l \in Labels, j \in JobRec : Goto(w, l, j) /\ JobSound(l, j)
<1>1. Goto(w, "idle", NoJob) /\ "idle" \in Labels
  BY DEF Finish, Labels
<1>2. JobSound("idle", NoJob)
  BY DEF JobSound, FlowSound, StepSound, TodoSound, SnapSound, RecordSound,
         CauseSound, ArgsSound, HoldsFlow, HoldsStep, NoJob
<1>. QED BY <1>1, <1>2, NoJobType

(* evaluate is called for a flow that exists, and takes over the steps     *)
(* that a signal has still to complete.                                    *)
LEMMA EvalJob ==
  ASSUME NEW i \in JobRec, NEW l \in HoldsFlow, JobSound(l, i),
         NEW j, j.f = i.f, j.todo = {} \/ j.todo = i.todo
  PROVE  "eval" \in Labels /\ JobSound("eval", j)
<1>1. i.f \in Flows /\ Exists(i.f) /\ "eval" \in HoldsFlow /\ "eval" \in Labels
  BY DEF JobSound, FlowSound, HoldsFlow, Labels
<1>2. FlowSound("eval", j) /\ StepSound("eval", j) /\ SnapSound("eval", j)
      /\ RecordSound("eval", j) /\ CauseSound("eval", j) /\ ArgsSound("eval", j)
  BY <1>1 DEF FlowSound, StepSound, SnapSound, RecordSound, CauseSound,
              ArgsSound, HoldsStep
<1>3. TodoSound("eval", j)
  BY <1>1 DEF JobSound, TodoSound
<1>. QED BY <1>1, <1>2, <1>3 DEF JobSound

(* The next step a signal completes was seen waiting for its event.        *)
LEMMA CompleteJob ==
  ASSUME NEW g \in Flows, Exists(g), NEW todo \in SUBSET Steps, NEW s \in todo,
         \A x \in todo : LiveStep(g, x) /\ Kind[x] = "event"
                         /\ Recorded(g, EventOf[x]),
         NEW e \in Events \cup {Nil},
         NEW j, j = [NoJob EXCEPT !.f = g, !.s = s, !.ev = e,
                                  !.todo = todo \ {s}, !.again = TRUE]
  PROVE  "complete" \in Labels /\ j \in JobRec /\ JobSound("complete", j)
<1>1. /\ j.f = g /\ j.s = s /\ j.todo = todo \ {s}
      /\ "complete" \in HoldsFlow /\ "complete" \in Labels
  BY DEF NoJob, HoldsFlow, Labels
<1>2. j \in JobRec
  BY NoJobType DEF JobRec
<1>3. FlowSound("complete", j) /\ StepSound("complete", j)
      /\ SnapSound("complete", j) /\ RecordSound("complete", j)
      /\ CauseSound("complete", j) /\ ArgsSound("complete", j)
  BY <1>1 DEF FlowSound, StepSound, SnapSound, RecordSound, CauseSound, ArgsSound
<1>4. TodoSound("complete", j)
  BY <1>1 DEF TodoSound
<1>. QED BY <1>1, <1>2, <1>3, <1>4 DEF JobSound

(* When evaluate returns, the request ends, or goes on with what its       *)
(* signal still owes.                                                      *)
LEMMA ReturnGoes ==
  ASSUME IInv, NEW w \in Workers, pc[w] \in HoldsFlow, Return(w)
  PROVE  \E l \in Labels, j \in JobRec : Goto(w, l, j) /\ JobSound(l, j)
<1>1. /\ pc[w] \in Labels /\ job[w] \in JobRec /\ JobSound(pc[w], job[w])
      /\ job[w].f \in Flows /\ Exists(job[w].f)
      /\ job[w].todo \in SUBSET Steps /\ job[w].ev \in Events \cup {Nil}
  BY DEF IInv, TypeOK, JobSound, FlowSound, JobRec
<1>2. CASE Finish(w)
  BY <1>2, FinishGoes
<1>3. CASE Goto(w, "eval", [NoJob EXCEPT !.f = job[w].f])
  <2>1. PICK i \in JobRec, l \in HoldsFlow : i = job[w] /\ l = pc[w]
    BY <1>1
  <2>2. PICK j : j = [NoJob EXCEPT !.f = job[w].f]
    OBVIOUS
  <2>3. j \in JobRec /\ j.f = i.f /\ j.todo = {}
    BY <1>1, <2>1, <2>2, NoJobType DEF NoJob, JobRec
  <2>4. "eval" \in Labels /\ JobSound("eval", j)
    BY <1>1, <2>1, <2>3, EvalJob
  <2>. QED BY <1>3, <2>2, <2>3, <2>4
<1>4. CASE \E s \in job[w].todo :
             Goto(w, "complete",
                  [NoJob EXCEPT !.f = job[w].f, !.s = s, !.ev = job[w].ev,
                                !.todo = job[w].todo \ {s}, !.again = TRUE])
  <2>1. PICK s \in job[w].todo :
             Goto(w, "complete",
                  [NoJob EXCEPT !.f = job[w].f, !.s = s, !.ev = job[w].ev,
                                !.todo = job[w].todo \ {s}, !.again = TRUE])
    BY <1>4
  <2>2. PICK j : j = [NoJob EXCEPT !.f = job[w].f, !.s = s, !.ev = job[w].ev,
                                !.todo = job[w].todo \ {s}, !.again = TRUE]
    OBVIOUS
  <2>3. \A x \in job[w].todo : LiveStep(job[w].f, x) /\ Kind[x] = "event"
                               /\ Recorded(job[w].f, EventOf[x])
    BY <1>1 DEF JobSound, TodoSound
  <2>4. "complete" \in Labels /\ j \in JobRec /\ JobSound("complete", j)
    <3>1. PICK g, todo, e : g = job[w].f /\ todo = job[w].todo /\ e = job[w].ev
      OBVIOUS
    <3>2. g \in Flows /\ Exists(g) /\ todo \in SUBSET Steps /\ s \in todo /\ e \in Events \cup {Nil}
      BY <1>1, <3>1 DEF JobRec
    <3>3. \A x \in todo : LiveStep(g, x) /\ Kind[x] = "event" /\ Recorded(g, EventOf[x])
      BY <2>3, <3>1
    <3>4. j = [NoJob EXCEPT !.f = g, !.s = s, !.ev = e, !.todo = todo \ {s}, !.again = TRUE]
      BY <2>2, <3>1
    <3>. QED BY <3>2, <3>3, <3>4, CompleteJob
  <2>. QED BY <2>1, <2>2, <2>4
<1>. QED BY <1>2, <1>3, <1>4 DEF Return

(* A request may call evaluate for the flow it holds.                      *)
LEMMA EvaluateGoes ==
  ASSUME IInv, NEW w \in Workers, pc[w] \in HoldsFlow, Evaluate(w, job[w].f)
  PROVE  \E l \in Labels, j \in JobRec : Goto(w, l, j) /\ JobSound(l, j)
<1>1. PICK i \in JobRec, l \in HoldsFlow : i = job[w] /\ l = pc[w]
  BY DEF IInv, TypeOK
<1>2. PICK j : j = [NoJob EXCEPT !.f = i.f, !.ev = i.ev, !.todo = i.todo,
                                 !.again = i.again]
  OBVIOUS
<1>3. JobSound(l, i) /\ i.f \in Flows
  BY <1>1 DEF IInv, JobSound, FlowSound
<1>4. j \in JobRec /\ j.f = i.f /\ j.todo = i.todo
  BY <1>2, <1>3, NoJobType DEF NoJob, JobRec
<1>5. "eval" \in Labels /\ JobSound("eval", j)
  BY <1>3, <1>4, EvalJob
<1>. QED BY <1>1, <1>2, <1>4, <1>5 DEF Evaluate

----------------------------------------------------------------------------
(* Requests, and steps that read: what they learn is true when they learn  *)
(* it.                                                                     *)

(* A request in flight holds a flow that exists, and its own facts.        *)
LEMMA InFlight ==
  ASSUME IInv, NEW w \in Workers
  PROVE  /\ pc[w] \in Labels /\ job[w] \in JobRec /\ JobSound(pc[w], job[w])
         /\ pc[w] \in HoldsFlow => job[w].f \in Flows /\ Exists(job[w].f)
         /\ pc[w] \in HoldsStep =>
              /\ job[w].s \in Steps
              /\ pc[w] # "dispatch" => LiveStep(job[w].f, job[w].s)
         /\ HoldsStep \subseteq HoldsFlow
  BY DEF IInv, TypeOK, JobSound, FlowSound, StepSound, HoldsStep, HoldsFlow, Labels

(* A new request has read only what its first guard needs.                 *)
LEMMA RequestKeeps ==
  ASSUME IInv, NEW w \in Workers, Request(w)
  PROVE  IInv' /\ Grows
<1>1. CASE Start(w)
  <2>1. PICK k \in StartKeys : Goto(w, "insert", [NoJob EXCEPT !.key = k])
    BY <1>1 DEF Start
  <2>2. PICK j : j = [NoJob EXCEPT !.key = k]
    OBVIOUS
  <2>3. j \in JobRec /\ j.key = k /\ j.todo = {} /\ "insert" \in Labels
    BY <2>2, NoJobType DEF NoJob, JobRec, Labels
  <2>4. JobSound("insert", j)
    BY <2>3 DEF JobSound, FlowSound, StepSound, TodoSound, SnapSound,
                RecordSound, CauseSound, ArgsSound, HoldsFlow, HoldsStep
  <2>. QED BY <1>1, <2>1, <2>2, <2>3, <2>4, ReadKeeps DEF Start
<1>2. CASE Dispatch(w)
  <2>1. PICK f \in Flows, s \in Steps :
          Executable(f) /\ Goto(w, "dispatch", [NoJob EXCEPT !.f = f, !.s = s])
    BY <1>2 DEF Dispatch
  <2>2. PICK j : j = [NoJob EXCEPT !.f = f, !.s = s]
    OBVIOUS
  <2>3. j \in JobRec /\ j.f = f /\ j.s = s /\ j.todo = {} /\ "dispatch" \in Labels
    BY <2>2, NoJobType DEF NoJob, JobRec, Labels
  <2>4. JobSound("dispatch", j)
    BY <2>1, <2>3 DEF JobSound, FlowSound, StepSound, TodoSound, SnapSound,
                RecordSound, CauseSound, ArgsSound, HoldsFlow, HoldsStep, Executable
  <2>. QED BY <1>2, <2>1, <2>2, <2>3, <2>4, ReadKeeps DEF Dispatch
<1>3. CASE SignalFlow(w)
  <2>1. PICK f \in Flows, e \in Events, k \in SignalKeys :
          Exists(f) /\ Goto(w, "record", [NoJob EXCEPT !.f = f, !.ev = e, !.key = k])
    BY <1>3 DEF SignalFlow
  <2>2. PICK j : j = [NoJob EXCEPT !.f = f, !.ev = e, !.key = k]
    OBVIOUS
  <2>3. /\ j \in JobRec /\ j.f = f /\ j.ev = e /\ j.key = k /\ j.todo = {}
        /\ "record" \in Labels
    BY <2>2, NoJobType DEF NoJob, JobRec, Labels
  <2>4. JobSound("record", j)
    BY <2>1, <2>3 DEF JobSound, FlowSound, StepSound, TodoSound, SnapSound,
                RecordSound, CauseSound, ArgsSound, HoldsFlow, HoldsStep
  <2>. QED BY <1>3, <2>1, <2>2, <2>3, <2>4, ReadKeeps DEF SignalFlow
<1>4. CASE Decide(w)
  <2>1. PICK t \in Tasks, verdict \in Verdicts :
          /\ Decidable(t)
          /\ Goto(w, "decide", [NoJob EXCEPT !.task = t, !.to = verdict,
                                          !.f = tasks[t].f, !.s = tasks[t].s])
    BY <1>4 DEF Decide
  <2>2. PICK j : j = [NoJob EXCEPT !.task = t, !.to = verdict,
                                          !.f = tasks[t].f, !.s = tasks[t].s]
    OBVIOUS
  <2>3. tasks[t].status # "none" /\ tasks[t] \in TaskRec
    BY <2>1 DEF Decidable, IInv, TypeOK
  <2>4. tasks[t].f \in Flows /\ tasks[t].s \in Steps /\ LiveStep(tasks[t].f, tasks[t].s)
    BY <2>3 DEF IInv, TasksSound
  <2>5. Exists(tasks[t].f)
    BY <2>4 DEF IInv, StepsSound, LiveStep
  <2>6. /\ j \in JobRec /\ j.f = tasks[t].f /\ j.s = tasks[t].s /\ j.task = t
        /\ j.to = verdict /\ j.todo = {} /\ "decide" \in Labels
    BY <2>2, <2>4, NoJobType DEF NoJob, JobRec, Labels
  <2>7. JobSound("decide", j)
    BY <2>3, <2>4, <2>5, <2>6 DEF JobSound, FlowSound, StepSound, TodoSound,
            SnapSound, RecordSound, CauseSound, ArgsSound, HoldsFlow, HoldsStep
  <2>. QED BY <1>4, <2>1, <2>2, <2>6, <2>7, ReadKeeps DEF Decide
<1>5. ASSUME NEW l \in {"suspend", "resume", "recover"}, NEW f \in Flows, Exists(f),
             l = "recover" => "recover" \in Requests,
             Goto(w, l, [NoJob EXCEPT !.f = f]), UNCHANGED store
      PROVE  IInv' /\ Grows
  <2>1. PICK j : j = [NoJob EXCEPT !.f = f]
    OBVIOUS
  <2>2. j \in JobRec /\ j.f = f /\ j.todo = {} /\ l \in Labels
    BY <2>1, NoJobType DEF NoJob, JobRec, Labels
  <2>3. JobSound(l, j)
    BY <1>5, <2>2 DEF JobSound, FlowSound, StepSound, TodoSound, SnapSound,
                RecordSound, CauseSound, ArgsSound, HoldsFlow, HoldsStep
  <2>. QED BY <1>5, <2>1, <2>2, <2>3, ReadKeeps
<1>6. CASE Suspend(w)
  BY <1>5, <1>6 DEF Suspend
<1>7. CASE Resume(w)
  BY <1>5, <1>7 DEF Resume, Exists
<1>8. CASE Recover(w)
  BY <1>5, <1>8 DEF Recover, Exists
<1>. QED BY <1>1, <1>2, <1>3, <1>4, <1>6, <1>7, <1>8 DEF Request

(* A crash leaves the documents as they are and forgets the request.       *)
LEMMA CrashKeeps ==
  ASSUME IInv, NEW w \in Workers, Crash(w)
  PROVE  IInv' /\ Grows
  BY FinishGoes, ReadKeeps DEF Crash

(* evaluate reads the flow, then its steps, and summarises steps that it   *)
(* has read afresh.                                                        *)
LEMMA EvalReadsKeep ==
  ASSUME IInv, NEW w \in Workers,
         EvalReadFlow(w) \/ EvalReadSteps(w) \/ Refresh(w)
  PROVE  IInv' /\ Grows
<1>0. {"eval", "evalSteps", "promote", "settle"} \subseteq HoldsFlow
      /\ {"evalSteps", "promote", "settle"} \subseteq Labels
  BY DEF HoldsFlow, Labels
<1>1. ASSUME pc[w] \in HoldsFlow, Return(w), UNCHANGED store PROVE IInv' /\ Grows
  BY <1>1, ReturnGoes, ReadKeeps
<1>2. CASE EvalReadFlow(w)
  <2>1. CASE Return(w)
    BY <1>0, <1>1, <1>2, <2>1 DEF EvalReadFlow
  <2>2. CASE Goto(w, "evalSteps", [job[w] EXCEPT !.seen = flow[job[w].f].state])
    <3>1. PICK j : j = [job[w] EXCEPT !.seen = flow[job[w].f].state]
      OBVIOUS
    <3>2. pc[w] = "eval" /\ job[w] \in JobRec /\ JobSound("eval", job[w])
      BY <1>2, InFlight DEF EvalReadFlow
    <3>3. job[w].f \in Flows /\ Exists(job[w].f) /\ flow[job[w].f].state \in FlowStates
      BY <1>0, <3>2, InFlight DEF IInv, TypeOK, FlowRec
    <3>4. j \in JobRec /\ j.f = job[w].f /\ j.todo = job[w].todo
      BY <3>1, <3>2, <3>3 DEF JobRec
    <3>5. JobSound("evalSteps", j)
      BY <1>0, <3>2, <3>3, <3>4 DEF JobSound, FlowSound, StepSound, TodoSound,
            SnapSound, RecordSound, CauseSound, ArgsSound, HoldsStep
    <3>. QED BY <1>0, <1>2, <2>2, <3>1, <3>4, <3>5, ReadKeeps DEF EvalReadFlow
  <2>. QED BY <1>2, <2>1, <2>2 DEF EvalReadFlow
<1>3. CASE EvalReadSteps(w)
  <2>1. PICK j : j = [job[w] EXCEPT !.snap = step[job[w].f]]
    OBVIOUS
  <2>2. pc[w] = "evalSteps" /\ job[w] \in JobRec /\ JobSound("evalSteps", job[w])
    BY <1>3, InFlight DEF EvalReadSteps
  <2>3. job[w].f \in Flows /\ Exists(job[w].f)
        /\ step[job[w].f] \in [Steps -> StepRec]
    BY <1>0, <2>2, InFlight DEF IInv, TypeOK
  <2>4. j \in JobRec /\ j.f = job[w].f /\ j.todo = job[w].todo
        /\ j.snap = step[job[w].f]
    BY <2>1, <2>2, <2>3 DEF JobRec
  <2>5. SnapSound("promote", j)
    BY <2>3, <2>4 DEF SnapSound, IInv, StepsSound, AttemptsSound, Done
  <2>6. JobSound("promote", j)
    BY <1>0, <2>2, <2>3, <2>4, <2>5 DEF JobSound, FlowSound, StepSound, TodoSound,
            RecordSound, CauseSound, ArgsSound, HoldsStep
  <2>. QED BY <1>0, <1>3, <2>1, <2>4, <2>6, ReadKeeps DEF EvalReadSteps
<1>4. CASE Refresh(w)
  <2>1. CASE Return(w)
    BY <1>0, <1>1, <1>4, <2>1 DEF Refresh
  <2>2. CASE Goto(w, "settle", [job[w] EXCEPT !.to = Summary(step[job[w].f]),
                            !.cur = 1, !.snap = NoJob.snap, !.seen = "none"])
    <3>0. PICK st : st = Summary(step[job[w].f])
      OBVIOUS
    <3>1. PICK j : j = [job[w] EXCEPT !.to = st,
                            !.cur = 1, !.snap = NoJob.snap, !.seen = "none"]
      OBVIOUS
    <3>2. pc[w] = "promote" /\ job[w] \in JobRec /\ JobSound("promote", job[w])
      BY <1>4, InFlight DEF Refresh
    <3>3. job[w].f \in Flows /\ Exists(job[w].f)
      BY <1>0, <3>2, InFlight
    <3>4. /\ st \in FlowStates \ {"none"}
          /\ st = "COMPLETED" => \A s \in Steps : Done(job[w].f, s)
      BY <3>0, <3>3 DEF Summary, FlowStates, Done, IInv, StepsSound
    <3>5. j \in JobRec /\ j.f = job[w].f /\ j.todo = job[w].todo /\ j.to = st
      <4>1. NoJob.snap \in [Steps -> StepRec] /\ 1 \in 1..(NSteps + 1)
        BY NoJobType DEF JobRec, NoJob
      <4>. QED BY <3>1, <3>2, <3>4, <4>1 DEF JobRec, FlowStates
    <3>6. ArgsSound("settle", j)
      BY <3>4, <3>5 DEF ArgsSound
    <3>7. JobSound("settle", j)
      BY <1>0, <3>2, <3>3, <3>5, <3>6 DEF JobSound, FlowSound, StepSound, TodoSound,
            SnapSound, RecordSound, CauseSound, HoldsStep
    <3>. QED BY <1>0, <1>4, <2>2, <3>0, <3>1, <3>5, <3>7, ReadKeeps DEF Refresh
  <2>. QED BY <1>4, <2>1, <2>2 DEF Refresh
<1>. QED BY <1>2, <1>3, <1>4

(* A request that has read the step it is about to overwrite: the step has *)
(* been promoted, and its attempts are within the budget.                  *)
LEMMA RecJob ==
  ASSUME IInv, NEW w \in Workers, NEW l \in Labels,
         \/ /\ pc[w] = "dispatch" /\ l = "begin"
            /\ step[job[w].f][job[w].s].state = "READY"
         \/ pc[w] = "complete" /\ l = "completeWrite"
         \/ pc[w] = "fail" /\ l = "failWrite",
         NEW j \in JobRec, j.f = job[w].f, j.s = job[w].s,
         j.todo = job[w].todo, j.rec = step[job[w].f][job[w].s]
  PROVE  JobSound(l, j)
<1>1. /\ pc[w] \in HoldsFlow /\ pc[w] \in HoldsStep
      /\ job[w] \in JobRec /\ JobSound(pc[w], job[w])
      /\ job[w].f \in Flows /\ job[w].s \in Steps /\ Exists(job[w].f)
      /\ step[job[w].f][job[w].s] \in StepRec
  <2>1. pc[w] \in HoldsStep
    BY DEF HoldsStep
  <2>. QED BY <2>1, InFlight DEF IInv, TypeOK
<1>2. LiveStep(job[w].f, job[w].s)
  BY <1>1, InFlight DEF LiveStep
<1>3. RecordSound(l, j)
  BY <1>1 DEF RecordSound, IInv, AttemptsSound
<1>4. CauseSound(l, j)
  BY <1>1 DEF JobSound, CauseSound
<1>5. l \in HoldsFlow
  BY DEF HoldsFlow, Labels
<1>6. FlowSound(l, j) /\ StepSound(l, j) /\ TodoSound(l, j)
  BY <1>1, <1>2, <1>5 DEF JobSound, FlowSound, StepSound, TodoSound
<1>7. SnapSound(l, j) /\ ArgsSound(l, j)
  BY DEF SnapSound, ArgsSound
<1>. QED BY <1>3, <1>4, <1>6, <1>7 DEF JobSound

(* The reads of dispatch, complete, fail, signal and recovery.             *)
LEMMA StepReadsKeep ==
  ASSUME IInv, NEW w \in Workers,
         \/ DispatchReadStep(w) \/ CompleteRead(w) \/ FailRead(w)
         \/ ScanWaiting(w) \/ RecoverRead(w)
  PROVE  IInv' /\ Grows
<1>0. /\ {"dispatch", "complete", "fail", "scan", "recover"} \subseteq HoldsFlow
      /\ {"dispatch", "complete", "fail"} \subseteq HoldsStep
      /\ {"begin", "completeWrite", "failWrite", "recoverWrite", "eval"} \subseteq Labels
  BY DEF HoldsFlow, HoldsStep, Labels
<1>1. ASSUME Finish(w), UNCHANGED store PROVE IInv' /\ Grows
  BY <1>1, FinishGoes, ReadKeeps
<1>2. ASSUME NEW l \in Labels,
             \/ /\ pc[w] = "dispatch" /\ l = "begin"
                /\ step[job[w].f][job[w].s].state = "READY"
             \/ pc[w] = "complete" /\ l = "completeWrite"
             \/ pc[w] = "fail" /\ l = "failWrite",
             Goto(w, l, [job[w] EXCEPT !.rec = step[job[w].f][job[w].s]]),
             UNCHANGED store
      PROVE  IInv' /\ Grows
  <2>1. pc[w] \in {"dispatch", "complete", "fail"}
    BY <1>2
  <2>2. job[w] \in JobRec /\ job[w].f \in Flows /\ job[w].s \in Steps
        /\ step[job[w].f][job[w].s] \in StepRec
    BY <1>0, <2>1, InFlight DEF IInv, TypeOK
  <2>3. PICK j : j = [job[w] EXCEPT !.rec = step[job[w].f][job[w].s]]
    OBVIOUS
  <2>4. /\ j \in JobRec /\ j.f = job[w].f /\ j.s = job[w].s
        /\ j.todo = job[w].todo /\ j.rec = step[job[w].f][job[w].s]
    BY <2>2, <2>3 DEF JobRec
  <2>5. JobSound(l, j)
    BY <1>2, <2>4, RecJob
  <2>6. Goto(w, l, j)
    BY <1>2, <2>3
  <2>. QED BY <1>2, <2>4, <2>5, <2>6, ReadKeeps
<1>4. CASE DispatchReadStep(w)
  <2>1. \/ Finish(w)
        \/ /\ step[job[w].f][job[w].s].state = "READY"
           /\ Goto(w, "begin", [job[w] EXCEPT !.rec = step[job[w].f][job[w].s]])
    BY <1>4, Zenon DEF DispatchReadStep
  <2>. QED BY <1>0, <1>1, <1>2, <1>4, <2>1 DEF DispatchReadStep
<1>5. CASE CompleteRead(w)
  <2>1. \/ Finish(w)
        \/ Goto(w, "completeWrite", [job[w] EXCEPT !.rec = step[job[w].f][job[w].s]])
    BY <1>5, Zenon DEF CompleteRead
  <2>. QED BY <1>0, <1>1, <1>2, <1>5, <2>1 DEF CompleteRead
<1>8. CASE FailRead(w)
  <2>1. pc[w] = "fail" /\ UNCHANGED store /\ "failWrite" \in Labels
        /\ Goto(w, "failWrite", [job[w] EXCEPT !.rec = step[job[w].f][job[w].s]])
    BY <1>0, <1>8 DEF FailRead
  <2>. QED BY <1>2, <2>1
<1>6. CASE ScanWaiting(w)
  <2> DEFINE g == job[w].f
             waiting == {s \in Steps : /\ step[g][s].state = "WAITING_EVENT"
                                       /\ Awaits(s, job[w].ev)}
  <2>1. /\ pc[w] = "scan" /\ g \in Flows /\ Exists(g) /\ UNCHANGED store
        /\ Recorded(g, job[w].ev) /\ job[w].ev \in Events
    BY <1>0, <1>6, InFlight DEF ScanWaiting, JobSound, ArgsSound
  <2>2. CASE Goto(w, "eval", [NoJob EXCEPT !.f = g])
    <3>1. PICK j : j = [NoJob EXCEPT !.f = g]
      OBVIOUS
    <3>2. j \in JobRec /\ j.f = g /\ j.todo = {}
      BY <2>1, <3>1, NoJobType DEF NoJob, JobRec
    <3>3. JobSound("eval", j)
      BY <1>0, <2>1, <3>2, InFlight, EvalJob
    <3>. QED BY <1>0, <2>1, <2>2, <3>1, <3>2, <3>3, ReadKeeps
  <2>3. ASSUME NEW s \in waiting,
               Goto(w, "complete", [NoJob EXCEPT !.f = g, !.s = s, !.ev = job[w].ev,
                                     !.todo = waiting \ {s}, !.again = TRUE])
        PROVE  IInv' /\ Grows
    <3>1. PICK todo : todo = waiting
      OBVIOUS
    <3>2. PICK j : j = [NoJob EXCEPT !.f = g, !.s = s, !.ev = job[w].ev,
                                     !.todo = todo \ {s}, !.again = TRUE]
      OBVIOUS
    <3>3. \A x \in todo : LiveStep(g, x) /\ Kind[x] = "event"
                          /\ Recorded(g, EventOf[x])
      BY <2>1, <3>1 DEF LiveStep, Awaits
    <3>4. todo \in SUBSET Steps /\ s \in todo
      BY <2>3, <3>1
    <3>5. "complete" \in Labels /\ j \in JobRec /\ JobSound("complete", j)
      BY <2>1, <3>2, <3>3, <3>4, CompleteJob
    <3>. QED BY <2>1, <2>3, <3>1, <3>2, <3>5, ReadKeeps
  <2>. QED BY <1>6, <2>2, <2>3 DEF ScanWaiting
<1>7. CASE RecoverRead(w)
  <2>1. CASE Finish(w)
    BY <1>1, <1>7, <2>1 DEF RecoverRead
  <2>2. ASSUME NEW s \in Steps, step[job[w].f][s].state \in {"FAILED", "READY"},
               Goto(w, "recoverWrite",
                    [NoJob EXCEPT !.f = job[w].f, !.s = s, !.rec = step[job[w].f][s]])
        PROVE  IInv' /\ Grows
    <3>1. PICK j :
            j = [NoJob EXCEPT !.f = job[w].f, !.s = s, !.rec = step[job[w].f][s]]
      OBVIOUS
    <3>2. /\ pc[w] = "recover" /\ job[w].f \in Flows /\ Exists(job[w].f)
          /\ step[job[w].f][s] \in StepRec /\ "recover" \in Requests
          /\ UNCHANGED store
      BY <1>0, <1>7, InFlight DEF RecoverRead, IInv, TypeOK, JobSound, RecordSound
    <3>3. j \in JobRec /\ j.f = job[w].f /\ j.s = s /\ j.todo = {}
      BY <3>1, <3>2, NoJobType DEF NoJob, JobRec
    <3>4. LiveStep(job[w].f, s)
      BY <2>2 DEF LiveStep
    <3>5. JobSound("recoverWrite", j)
      BY <3>2, <3>3, <3>4 DEF JobSound, FlowSound, StepSound, TodoSound, SnapSound,
            RecordSound, CauseSound, ArgsSound
    <3>. QED BY <1>0, <2>2, <3>1, <3>2, <3>3, <3>5, ReadKeeps
  <2>. QED BY <1>7, <2>1, <2>2 DEF RecoverRead
<1>. QED BY <1>4, <1>5, <1>6, <1>7, <1>8

----------------------------------------------------------------------------
(* Steps that write.                                                       *)

(* A write that takes nothing back keeps what the request still carries.   *)
LEMMA WriteKeeps ==
  ASSUME IInv, NEW w \in Workers,
         \E l \in Labels, j \in JobRec : Goto(w, l, j) /\ JobSound(l, j),
         Grows, StoreTyped', StoreSound'
  PROVE  IInv' /\ Grows
<1>1. PICK l \in Labels, j \in JobRec : Goto(w, l, j) /\ JobSound(l, j)
  OBVIOUS
<1>2. JobSound(l, j)'
  BY <1>1, JobGrows DEF IInv, TypeOK, StoreTyped
<1>. QED BY <1>1, <1>2, StepKeeps

(* A new state of a flow that exists is sound; if it is COMPLETED, every   *)
(* step has to be behind the flow.                                         *)
LEMMA StateWriteSound ==
  ASSUME IInv, NEW f \in Flows, Exists(f), NEW st \in FlowStates \ {"none"},
         st = "COMPLETED" => \A s \in Steps : Done(f, s),
         PutState(f, st), UNCHANGED <<step, tasks, signals, ran, emitted>>
  PROVE  Grows /\ StoreTyped' /\ StoreSound'
<1>1. /\ flow' \in [Flows -> FlowRec]
      /\ flow'[f].state = st
      /\ \A g \in Flows : /\ flow'[g].level = flow[g].level
                          /\ g # f => flow'[g] = flow[g]
  BY PutStateType DEF IInv, TypeOK
<1>2. /\ step' = step /\ tasks' = tasks /\ signals' = signals
      /\ ran' = ran /\ emitted' = emitted
  OBVIOUS
<1>3. \A g \in Flows : /\ Exists(g)' <=> Exists(g)
                       /\ \A s \in Steps : Skips(g, s)' <=> Skips(g, s)
  BY <1>1 DEF Exists, Skips
<1>4. Grows
  BY <1>1, <1>2, <1>3 DEF Grows, LiveStep, Done, Decided, Recorded
<1>5. StoreTyped'
  BY <1>1, <1>2 DEF StoreTyped, IInv, TypeOK
<1>6. StepsSound'
  BY <1>2, <1>3 DEF IInv, StepsSound, LiveStep
<1>7. AttemptsSound' /\ TasksSound' /\ DependencyOrder'
  BY <1>2 DEF IInv, AttemptsSound, TasksSound, DependencyOrder, LiveStep, Done
<1>8. ClosedAfterWork'
  BY <1>1, <1>2 DEF IInv, ClosedAfterWork, Done
<1>9. EventGate' /\ HumanGate'
  BY <1>2 DEF IInv, EventGate, HumanGate
<1>. QED BY <1>4, <1>5, <1>6, <1>7, <1>8, <1>9 DEF StoreSound

(* A new document r for one step is sound if the step has been promoted,   *)
(* r is SKIPPED exactly if the assurance level says so, its attempts are   *)
(* within the budget, and a completion has its event in the outbox and its *)
(* cause on record.                                                        *)
LEMMA StepWriteSound ==
  ASSUME IInv, StoreTyped', NEW f \in Flows, NEW s \in Steps, NEW r \in StepRec,
         Exists(f), \A d \in Deps[s] : Done(f, d),
         step'[f][s] = r,
         \A g \in Flows, t \in Steps : g # f \/ t # s => step'[g][t] = step[g][t],
         r.state # "PENDING",
         r.state = "SKIPPED" <=> Skips(f, s),
         r.state = "COMPLETED" => emitted'[f][s] > 0,
         "recover" \notin Requests =>
           /\ r.attempts <= Budget(s)
           /\ r.state = "READY" => r.attempts < Budget(s),
         \A g \in Flows : /\ flow'[g].level = flow[g].level
                          /\ Exists(g)' <=> Exists(g)
                          /\ flow'[g].state = "COMPLETED"
                               => flow[g].state = "COMPLETED",
         \A g \in Flows, t \in Steps :
           /\ emitted[g][t] > 0 => emitted'[g][t] > 0
           /\ emitted'[g][t] > 0 =>
                \/ emitted[g][t] > 0
                \/ /\ g = f /\ t = s
                   /\ Kind[s] = "event" => Recorded(f, EventOf[s])
                   /\ Kind[s] = "human" => Decided(f, s),
         \A t \in Tasks :
           \/ tasks'[t] = tasks[t]
           \/ /\ tasks[t].status = "none" /\ tasks'[t].status = "OPEN"
              /\ tasks'[t].f = f /\ tasks'[t].s = s
              /\ ~Skips(f, s) /\ Kind[s] = "human",
         UNCHANGED <<signals, ran>>
  PROVE  Grows /\ StoreSound'
<1>1. signals' = signals /\ ran' = ran
  OBVIOUS
<1>2. \A g \in Flows, t \in Steps : Skips(g, t)' <=> Skips(g, t)
  BY DEF Skips
<1>3. \A g \in Flows, t \in Steps : /\ LiveStep(g, t) => LiveStep(g, t)'
                                    /\ Done(g, t) => Done(g, t)'
  BY DEF LiveStep, Done, IInv, StepsSound
<1>4. \A g \in Flows, t \in Steps : Decided(g, t) => Decided(g, t)'
  BY DEF Decided, Verdicts
<1>5. \A g \in Flows, e \in Events : Recorded(g, e)' <=> Recorded(g, e)
  BY <1>1 DEF Recorded
<1>6. Grows
  BY <1>3, <1>4, <1>5 DEF Grows
<1>7. StepsSound'
  <2>1. ASSUME NEW g \in Flows, NEW t \in Steps
        PROVE  /\ step'[g][t].state = "COMPLETED" => emitted'[g][t] > 0
               /\ step'[g][t].state = "SKIPPED" => Skips(g, t)
               /\ LiveStep(g, t)' => ~Skips(g, t)
               /\ ran[g][t] > 0 => LiveStep(g, t)'
               /\ ~Exists(g) => step'[g][t].state = "PENDING"
    <3>1. CASE g = f /\ t = s
      BY <1>3, <3>1 DEF IInv, StepsSound, LiveStep
    <3>2. CASE g # f \/ t # s
      BY <1>3, <3>2 DEF IInv, StepsSound, LiveStep
    <3>. QED BY <3>1, <3>2
  <2>. QED BY <1>1, <1>2, <2>1 DEF StepsSound
<1>8. AttemptsSound'
  BY DEF IInv, AttemptsSound
<1>9. TasksSound'
  <2>1. ~Skips(f, s) => LiveStep(f, s)'
    BY DEF LiveStep
  <2>. QED BY <1>3, <2>1 DEF IInv, TasksSound
<1>10. DependencyOrder'
  <2>1. ASSUME NEW g \in Flows, NEW t \in Steps, step'[g][t].state # "PENDING",
               NEW d \in Deps[t]
        PROVE  Done(g, d)'
    <3>1. d \in Steps
      BY DefinitionAssumption
    <3>2. Done(g, d)
      BY <2>1 DEF IInv, DependencyOrder
    <3>. QED BY <1>3, <3>1, <3>2
  <2>. QED BY <2>1 DEF DependencyOrder
<1>11. ClosedAfterWork'
  BY <1>3 DEF IInv, ClosedAfterWork
<1>12. EventGate'
  <2>1. \A t \in Steps : EventOf[t] \in Events
    BY DEF Events
  <2>2. \A g \in Flows, t \in Steps :
          Kind[t] = "event" /\ emitted'[g][t] > 0 => Recorded(g, EventOf[t])'
    BY <1>5, <2>1 DEF IInv, EventGate, Recorded
  <2>. QED BY <2>2 DEF EventGate, Recorded
<1>13. HumanGate'
  <2>1. \A g \in Flows, t \in Steps :
          Kind[t] = "human" /\ emitted'[g][t] > 0 => Decided(g, t)'
    BY <1>4 DEF IInv, HumanGate, Decided
  <2>. QED BY <2>1 DEF HumanGate, Decided
<1>. QED
  BY <1>6, <1>7, <1>8, <1>9, <1>10, <1>11, <1>12, <1>13 DEF StoreSound

(* start inserts a flow whose steps are all PENDING.                       *)
LEMMA InsertFlowKeeps ==
  ASSUME IInv, NEW w \in Workers, InsertFlow(w)
  PROVE  IInv' /\ Grows
<1>1. PICK f \in Flows, l \in Levels :
        /\ pc[w] = "insert" /\ ~Exists(f)
        /\ flow' = [flow EXCEPT ![f] =
                      [state |-> "READY", key |-> job[w].key, level |-> l]]
        /\ Evaluate(w, f)
        /\ UNCHANGED <<step, tasks, signals, ran, emitted>>
  BY DEF InsertFlow
<1>2. /\ step' = step /\ tasks' = tasks /\ signals' = signals
      /\ ran' = ran /\ emitted' = emitted
  BY <1>1
<1>3. job[w] \in JobRec /\ job[w].key \in StartKeys /\ job[w].todo = {}
  BY <1>1, InFlight DEF JobSound, ArgsSound, TodoSound, HoldsFlow
<1>4. l \in Nat
  BY EnvironmentAssumption
<1>5. /\ flow' \in [Flows -> FlowRec]
      /\ flow'[f].state = "READY"
      /\ \A g \in Flows : g # f => flow'[g] = flow[g]
  BY <1>1, <1>3, <1>4 DEF IInv, TypeOK, FlowRec, FlowStates
<1>6. \A s \in Steps : step[f][s].state = "PENDING"
  BY <1>1 DEF IInv, StepsSound
<1>7. \A g \in Flows : Exists(g) => g # f
  BY <1>1
<1>8. Grows
  BY <1>2, <1>5, <1>7 DEF Grows, Exists, LiveStep, Done, Decided, Recorded
<1>9. StoreTyped'
  BY <1>2, <1>5 DEF StoreTyped, IInv, TypeOK
<1>10. StepsSound'
  <2>1. ASSUME NEW g \in Flows, NEW s \in Steps
        PROVE  /\ step[g][s].state = "COMPLETED" => emitted[g][s] > 0
               /\ step[g][s].state = "SKIPPED" => Skips(g, s)'
               /\ LiveStep(g, s) => ~Skips(g, s)'
               /\ ran[g][s] > 0 => LiveStep(g, s)
               /\ ~Exists(g)' => step[g][s].state = "PENDING"
    <3>1. CASE g = f
      BY <1>5, <1>6, <3>1 DEF IInv, StepsSound, LiveStep, Exists
    <3>2. CASE g # f
      BY <1>5, <3>2 DEF IInv, StepsSound, LiveStep, Exists, Skips
    <3>. QED BY <3>1, <3>2
  <2>. QED BY <1>2, <2>1 DEF StepsSound, LiveStep
<1>11. AttemptsSound' /\ TasksSound' /\ DependencyOrder' /\ EventGate' /\ HumanGate'
  BY <1>2 DEF IInv, AttemptsSound, TasksSound, DependencyOrder, LiveStep, Done,
              EventGate, HumanGate
<1>12. ClosedAfterWork'
  BY <1>2, <1>5 DEF IInv, ClosedAfterWork, Done
<1>13. PICK j : j = [NoJob EXCEPT !.f = f, !.ev = job[w].ev,
                                  !.todo = job[w].todo, !.again = job[w].again]
  OBVIOUS
<1>14. j \in JobRec /\ j.f = f /\ j.todo = {} /\ "eval" \in Labels
  BY <1>3, <1>13, NoJobType DEF NoJob, JobRec, Labels
<1>15. Goto(w, "eval", j)
  BY <1>1, <1>13 DEF Evaluate
<1>16. JobSound("eval", j)'
  BY <1>5, <1>14 DEF JobSound, FlowSound, StepSound, TodoSound, SnapSound,
           RecordSound, CauseSound, ArgsSound, HoldsFlow, HoldsStep, Exists
<1>17. StoreSound'
  BY <1>10, <1>11, <1>12 DEF StoreSound
<1>. QED BY <1>8, <1>9, <1>14, <1>15, <1>16, <1>17, StepKeeps

(* evaluate, suspend and resume write a state over the flow, whatever the  *)
(* flow has become since it was read.                                      *)
LEMMA StateWritesKeep ==
  ASSUME IInv, NEW w \in Workers, Settle(w) \/ SuspendWrite(w) \/ ResumeWrite(w)
  PROVE  IInv' /\ Grows
<1>1. pc[w] \in {"settle", "suspend", "resume"}
  BY DEF Settle, SuspendWrite, ResumeWrite
<1>2. pc[w] \in HoldsFlow /\ job[w].f \in Flows /\ Exists(job[w].f)
  BY <1>1, InFlight DEF HoldsFlow, Labels
<1>3. \E l \in Labels, j \in JobRec : Goto(w, l, j) /\ JobSound(l, j)
  BY <1>2, ReturnGoes, FinishGoes, EvaluateGoes DEF Settle, SuspendWrite, ResumeWrite
<1>4. PICK st \in FlowStates \ {"none"} :
        /\ PutState(job[w].f, st)
        /\ st = "COMPLETED" => \A s \in Steps : Done(job[w].f, s)
  <2>1. CASE Settle(w)
    <3>1. /\ job[w].to \in FlowStates \ {"none"}
          /\ job[w].to = "COMPLETED" => \A s \in Steps : Done(job[w].f, s)
      BY <2>1, InFlight DEF Settle, JobSound, ArgsSound
    <3>. QED BY <2>1, <3>1 DEF Settle
  <2>2. CASE SuspendWrite(w)
    BY <2>2 DEF SuspendWrite, FlowStates
  <2>3. CASE ResumeWrite(w)
    BY <2>3 DEF ResumeWrite, FlowStates
  <2>. QED BY <2>1, <2>2, <2>3
<1>5. UNCHANGED <<step, tasks, signals, ran, emitted>>
  BY DEF Settle, SuspendWrite, ResumeWrite
<1>6. Grows /\ StoreTyped' /\ StoreSound'
  BY <1>2, <1>4, <1>5, StateWriteSound
<1>. QED BY <1>3, <1>6, WriteKeeps

(* The handler of a step runs only for a step that has been promoted and   *)
(* is not skipped.                                                         *)
LEMMA RunHandlerKeeps ==
  ASSUME IInv, NEW w \in Workers, RunHandler(w)
  PROVE  IInv' /\ Grows
<1>1. /\ pc[w] = "handle" /\ job[w] \in JobRec /\ JobSound("handle", job[w])
      /\ job[w].f \in Flows /\ job[w].s \in Steps
      /\ LiveStep(job[w].f, job[w].s) /\ Kind[job[w].s] = "handler"
  BY InFlight DEF RunHandler, HoldsStep, JobSound, CauseSound
<1>2. /\ flow' = flow /\ step' = step /\ tasks' = tasks
      /\ signals' = signals /\ emitted' = emitted
      /\ ran' = [ran EXCEPT ![job[w].f][job[w].s] = @ + 1]
  BY DEF RunHandler
<1>3. /\ ran' \in [Flows -> [Steps -> Nat]]
      /\ \A g \in Flows, t \in Steps :
           g # job[w].f \/ t # job[w].s => ran'[g][t] = ran[g][t]
  BY <1>1, <1>2 DEF IInv, TypeOK
<1>4. Grows
  BY <1>2 DEF Grows, Exists, LiveStep, Done, Decided, Recorded
<1>5. StoreTyped'
  BY <1>2, <1>3 DEF StoreTyped, IInv, TypeOK
<1>6. StepsSound'
  BY <1>1, <1>2, <1>3 DEF IInv, StepsSound, LiveStep, Skips, Exists
<1>7. AttemptsSound' /\ TasksSound' /\ DependencyOrder' /\ ClosedAfterWork'
      /\ EventGate' /\ HumanGate'
  BY <1>2 DEF IInv, AttemptsSound, TasksSound, DependencyOrder, LiveStep, Done,
              ClosedAfterWork, EventGate, HumanGate
<1>8. ASSUME NEW l \in {"complete", "fail"} PROVE JobSound(l, job[w])
  <2>1. l \in HoldsFlow /\ l \in HoldsStep /\ "handle" \in HoldsFlow
        /\ "handle" \in HoldsStep
    BY DEF HoldsFlow, HoldsStep, Labels
  <2>2. FlowSound(l, job[w]) /\ StepSound(l, job[w]) /\ TodoSound(l, job[w])
    BY <1>1, <2>1 DEF JobSound, FlowSound, StepSound, TodoSound
  <2>3. SnapSound(l, job[w]) /\ ArgsSound(l, job[w]) /\ RecordSound(l, job[w])
    BY <1>8 DEF SnapSound, ArgsSound, RecordSound
  <2>4. CauseSound(l, job[w])
    BY <1>1 DEF CauseSound
  <2>. QED BY <2>2, <2>3, <2>4 DEF JobSound
<1>9. \E l \in Labels, j \in JobRec : Goto(w, l, j) /\ JobSound(l, j)
  <2>1. {"complete", "fail"} \subseteq Labels
    BY DEF Labels
  <2>. QED BY <1>1, <1>8, <2>1 DEF RunHandler
<1>. QED BY <1>4, <1>5, <1>6, <1>7, <1>9, WriteKeeps DEF StoreSound

(* A signal is recorded before the steps that wait for it are looked for.  *)
LEMMA RecordSignalKeeps ==
  ASSUME IInv, NEW w \in Workers, RecordSignal(w)
  PROVE  IInv' /\ Grows
<1>1. PICK f \in Flows, e \in Events, k \in SignalKeys :
        /\ pc[w] = "record" /\ job[w] \in JobRec /\ Exists(f)
        /\ f = job[w].f /\ e = job[w].ev /\ k = job[w].key
  <2>1. /\ pc[w] = "record" /\ job[w] \in JobRec
        /\ job[w].f \in Flows /\ Exists(job[w].f)
        /\ job[w].key \in SignalKeys /\ job[w].ev \in Events
    BY InFlight DEF RecordSignal, JobSound, ArgsSound, HoldsFlow, Labels
  <2>. QED BY <2>1
<1>2. /\ flow' = flow /\ step' = step /\ tasks' = tasks
      /\ ran' = ran /\ emitted' = emitted
      /\ signals' = [signals EXCEPT ![<<k, f, e>>] = @ + 1]
  BY <1>1 DEF RecordSignal
<1>3. <<k, f, e>> \in Signal
  BY <1>1 DEF Signal
<1>4. signals \in [Signal -> Nat]
  BY DEF IInv, TypeOK
<1>5. /\ signals' \in [Signal -> Nat]
      /\ signals'[<<k, f, e>>] > 0
      /\ \A r \in Signal : signals[r] > 0 => signals'[r] > 0
  BY <1>2, <1>3, <1>4
<1>6. \A g \in Flows, x \in Events : Recorded(g, x) => Recorded(g, x)'
  BY <1>5 DEF Recorded, Signal
<1>7. Grows
  BY <1>2, <1>6 DEF Grows, Exists, LiveStep, Done, Decided
<1>8. StoreTyped'
  BY <1>2, <1>5 DEF StoreTyped, IInv, TypeOK
<1>9. StepsSound' /\ AttemptsSound' /\ TasksSound' /\ DependencyOrder'
      /\ ClosedAfterWork' /\ HumanGate'
  BY <1>2 DEF IInv, StepsSound, Skips, Exists, AttemptsSound, TasksSound,
              DependencyOrder, LiveStep, Done, ClosedAfterWork, HumanGate
<1>10. EventGate'
  <2>1. \A t \in Steps : EventOf[t] \in Events
    BY DEF Events
  <2>. QED BY <1>2, <1>6, <2>1 DEF IInv, EventGate, Recorded
<1>11. PICK j : j = [NoJob EXCEPT !.f = f, !.ev = e]
  OBVIOUS
<1>12. j \in JobRec /\ j.f = f /\ j.ev = e /\ j.todo = {} /\ "scan" \in Labels
  <2>1. j \in JobRec
    BY <1>1, <1>11, NoJobType DEF JobRec
  <2>2. j.f = f /\ j.ev = e /\ j.todo = {}
    BY <1>11 DEF NoJob
  <2>3. "scan" \in Labels
    BY DEF Labels
  <2>. QED BY <2>1, <2>2, <2>3
<1>13. Goto(w, "scan", j)
  BY <1>1, <1>11 DEF RecordSignal
<1>14. Recorded(f, e)'
  BY <1>1, <1>5 DEF Recorded
<1>15. Exists(f)'
  BY <1>1, <1>2 DEF Exists
<1>16. JobSound("scan", j)'
  <2>1. Recorded(j.f, j.ev)'
    BY <1>12, <1>14 DEF Recorded
  <2>2. Exists(j.f)' /\ j.f \in Flows
    BY <1>1, <1>12, <1>15 DEF Exists
  <2>. QED BY <1>1, <1>12, <2>1, <2>2 DEF JobSound, FlowSound, StepSound,
           TodoSound, SnapSound, RecordSound, CauseSound, ArgsSound, HoldsStep
<1>17. StoreSound'
  BY <1>9, <1>10 DEF StoreSound
<1>. QED BY <1>7, <1>8, <1>12, <1>13, <1>16, <1>17, StepKeeps

(* The decision is on record before the step is completed or failed.       *)
LEMMA DecideWriteKeeps ==
  ASSUME IInv, NEW w \in Workers, DecideWrite(w)
  PROVE  IInv' /\ Grows
<1>1. PICK t \in Tasks :
        /\ t = job[w].task /\ pc[w] = "decide" /\ job[w] \in JobRec
        /\ job[w].f \in Flows /\ Exists(job[w].f)
        /\ job[w].s \in Steps /\ LiveStep(job[w].f, job[w].s)
        /\ job[w].to \in Verdicts
        /\ tasks[t].f = job[w].f /\ tasks[t].s = job[w].s
        /\ tasks[t].status # "none"
  BY InFlight DEF DecideWrite, JobSound, ArgsSound, HoldsStep
<1>2. /\ flow' = flow /\ step' = step /\ signals' = signals
      /\ ran' = ran /\ emitted' = emitted
      /\ tasks' = [tasks EXCEPT ![t].status = job[w].to]
  BY <1>1 DEF DecideWrite
<1>3. tasks \in [Tasks -> TaskRec]
  BY DEF IInv, TypeOK
<1>4. /\ tasks' \in [Tasks -> TaskRec]
      /\ tasks'[t].status = job[w].to
      /\ \A u \in Tasks : /\ tasks'[u].f = tasks[u].f /\ tasks'[u].s = tasks[u].s
                          /\ u # t => tasks'[u] = tasks[u]
  BY <1>1, <1>2, <1>3 DEF TaskRec
<1>5. \A g \in Flows, s \in Steps : Decided(g, s) => Decided(g, s)'
  BY <1>1, <1>4 DEF Decided
<1>6. Grows
  BY <1>1, <1>2, <1>4, <1>5 DEF Grows, Exists, LiveStep, Done, Recorded, Verdicts
<1>7. StoreTyped'
  BY <1>2, <1>4 DEF StoreTyped, IInv, TypeOK
<1>8. StepsSound' /\ AttemptsSound' /\ DependencyOrder' /\ ClosedAfterWork'
      /\ EventGate'
  BY <1>2 DEF IInv, StepsSound, Skips, Exists, AttemptsSound, DependencyOrder,
              LiveStep, Done, ClosedAfterWork, EventGate
<1>9. TasksSound' /\ Kind[job[w].s] = "human"
  <2>1. \A u \in Tasks :
          tasks[u].status # "none" => /\ tasks[u].f \in Flows /\ tasks[u].s \in Steps
                                      /\ LiveStep(tasks[u].f, tasks[u].s)
                                      /\ Kind[tasks[u].s] = "human"
    BY DEF IInv, TasksSound
  <2>2. Kind[job[w].s] = "human"
    BY <1>1, <2>1
  <2>3. ASSUME NEW u \in Tasks, tasks'[u].status # "none"
        PROVE  /\ tasks'[u].f \in Flows /\ tasks'[u].s \in Steps
               /\ step'[tasks'[u].f][tasks'[u].s].state \notin {"PENDING", "SKIPPED"}
               /\ Kind[tasks'[u].s] = "human"
    <3>1. tasks[u].status # "none" /\ tasks'[u].f = tasks[u].f /\ tasks'[u].s = tasks[u].s
      BY <1>1, <1>4, <2>3
    <3>2. step[tasks[u].f][tasks[u].s].state \notin {"PENDING", "SKIPPED"}
      BY <2>1, <3>1 DEF LiveStep
    <3>. QED BY <1>2, <2>1, <3>1, <3>2
  <2>. QED BY <2>2, <2>3 DEF TasksSound, LiveStep
<1>10. HumanGate'
  BY <1>2, <1>5 DEF IInv, HumanGate, Decided
<1>11. StoreSound'
  BY <1>8, <1>9, <1>10 DEF StoreSound
<1>12. PICK j : j = [NoJob EXCEPT !.f = job[w].f, !.s = job[w].s]
  OBVIOUS
<1>13. j \in JobRec /\ j.f = job[w].f /\ j.s = job[w].s /\ j.todo = {}
  BY <1>1, <1>12, NoJobType DEF NoJob, JobRec
<1>14. PICK l \in {"complete", "fail"} :
         Goto(w, l, j) /\ (l = "complete" => job[w].to = "APPROVED")
  BY <1>1, <1>12 DEF DecideWrite, AfterVerdict
<1>15. l \in Labels /\ l \in HoldsFlow /\ l \in HoldsStep
  BY <1>14 DEF Labels, HoldsFlow, HoldsStep
<1>16. JobSound(l, j)'
  <2>1. FlowSound(l, j)' /\ StepSound(l, j)' /\ TodoSound(l, j)'
    BY <1>1, <1>2, <1>13, <1>14, <1>15 DEF FlowSound, StepSound, TodoSound,
         Exists, LiveStep
  <2>2. SnapSound(l, j)' /\ RecordSound(l, j)' /\ ArgsSound(l, j)'
    BY <1>14 DEF SnapSound, RecordSound, ArgsSound
  <2>3. Decided(j.f, j.s)'
    BY <1>1, <1>4, <1>13 DEF Decided
  <2>4. CauseSound(l, j)'
    BY <1>9, <1>13, <1>14, <2>3 DEF CauseSound
  <2>. QED BY <2>1, <2>2, <2>4 DEF JobSound
<1>. QED BY <1>6, <1>7, <1>11, <1>13, <1>14, <1>15, <1>16, StepKeeps

(* A request that writes a step holds one that has been promoted: not      *)
(* skipped, and with all it depends on behind the flow.                    *)
LEMMA HeldStep ==
  ASSUME IInv, NEW w \in Workers, pc[w] \in HoldsStep, pc[w] # "dispatch"
  PROVE  /\ job[w] \in JobRec /\ JobSound(pc[w], job[w]) /\ pc[w] \in HoldsFlow
         /\ job[w].f \in Flows /\ job[w].s \in Steps /\ Exists(job[w].f)
         /\ job[w].rec \in StepRec
         /\ ~Skips(job[w].f, job[w].s)
         /\ \A d \in Deps[job[w].s] : Done(job[w].f, d)
<1>1. /\ job[w] \in JobRec /\ JobSound(pc[w], job[w]) /\ pc[w] \in HoldsFlow
      /\ job[w].f \in Flows /\ job[w].s \in Steps /\ Exists(job[w].f)
      /\ LiveStep(job[w].f, job[w].s)
  BY InFlight
<1>2. job[w].rec \in StepRec
  BY <1>1 DEF JobRec
<1>. QED BY <1>1, <1>2 DEF IInv, StepsSound, DependencyOrder, LiveStep

(* Such a request overwrites that one step only: with a document that has  *)
(* left PENDING and is not SKIPPED, and no completion of its own.          *)
LEMMA HeldStepWriteSound ==
  ASSUME IInv, NEW w \in Workers, pc[w] \in HoldsStep, pc[w] # "dispatch",
         NEW r \in StepRec, r.state \notin {"PENDING", "SKIPPED", "COMPLETED"},
         PutStep(job[w].f, job[w].s, r),
         "recover" \notin Requests =>
           /\ r.attempts <= Budget(job[w].s)
           /\ r.state = "READY" => r.attempts < Budget(job[w].s),
         flow' \in [Flows -> FlowRec],
         \A g \in Flows : /\ flow'[g].level = flow[g].level
                          /\ Exists(g)' <=> Exists(g)
                          /\ flow'[g].state = "COMPLETED"
                               => flow[g].state = "COMPLETED",
         tasks' \in [Tasks -> TaskRec],
         \A t \in Tasks :
           \/ tasks'[t] = tasks[t]
           \/ /\ tasks[t].status = "none" /\ tasks'[t].status = "OPEN"
              /\ tasks'[t].f = job[w].f /\ tasks'[t].s = job[w].s
              /\ Kind[job[w].s] = "human",
         UNCHANGED <<signals, ran, emitted>>
  PROVE  Grows /\ StoreTyped' /\ StoreSound'
<1>1. PICK f \in Flows, s \in Steps :
        /\ f = job[w].f /\ s = job[w].s /\ Exists(f) /\ ~Skips(f, s)
        /\ \A d \in Deps[s] : Done(f, d)
  BY HeldStep
<1>2. /\ step' \in [Flows -> [Steps -> StepRec]]
      /\ step'[f][s] = r
      /\ \A g \in Flows, t \in Steps : g # f \/ t # s => step'[g][t] = step[g][t]
  BY <1>1, PutStepType DEF IInv, TypeOK
<1>3. signals' = signals /\ ran' = ran /\ emitted' = emitted
  OBVIOUS
<1>4. StoreTyped'
  BY <1>2, <1>3 DEF StoreTyped, IInv, TypeOK
<1>. QED BY <1>1, <1>2, <1>3, <1>4, StepWriteSound

(* evaluate promotes a step that its list shows PENDING, with all it       *)
(* depends on completed or skipped in the same list.                       *)
LEMMA PromotedStep ==
  ASSUME IInv, NEW w \in Workers, Promote(w), NEW s \in NextPromotion(w)
  PROVE  /\ s \in Steps /\ Promotable(job[w].snap, s)
         /\ job[w].f \in Flows /\ Exists(job[w].f)
         /\ \A d \in Deps[s] : Done(job[w].f, d)
<1>1. /\ pc[w] = "promote" /\ job[w] \in JobRec /\ JobSound("promote", job[w])
      /\ job[w].f \in Flows /\ Exists(job[w].f)
  BY InFlight DEF Promote, HoldsFlow, Labels
<1>2. s \in Steps /\ Promotable(job[w].snap, s)
  BY DEF NextPromotion
<1>. QED BY <1>1, <1>2, DefinitionAssumption DEF JobSound, SnapSound, Promotable

(* The promotion writes the step the list showed, READY or SKIPPED.        *)
LEMMA PromoteKeeps ==
  ASSUME IInv, NEW w \in Workers, Promote(w)
  PROVE  IInv' /\ Grows
<1>1. /\ pc[w] = "promote" /\ job[w] \in JobRec /\ JobSound("promote", job[w])
      /\ job[w].f \in Flows /\ Exists(job[w].f)
  BY InFlight DEF Promote, HoldsFlow, Labels
<1>2. PICK f \in Flows, i \in JobRec : f = i.f /\ i = job[w]
  BY <1>1
<1>3. PICK s \in NextPromotion(w) :
        \E new : /\ new = [i.snap[s] EXCEPT !.state = Promoted(f, s)]
                 /\ PutStep(f, s, new)
                 /\ Goto(w, "promote", [i EXCEPT !.snap[s] = new, !.cur = s + 1])
                 /\ UNCHANGED <<flow, tasks, signals, ran, emitted>>
  BY <1>2 DEF Promote
<1>3a. PICK new :
         /\ new = [i.snap[s] EXCEPT !.state = Promoted(f, s)]
         /\ PutStep(f, s, new)
         /\ Goto(w, "promote", [i EXCEPT !.snap[s] = new, !.cur = s + 1])
         /\ UNCHANGED <<flow, tasks, signals, ran, emitted>>
  BY <1>3
<1>4. s \in Steps /\ Promotable(i.snap, s) /\ i.snap \in [Steps -> StepRec]
  BY <1>2, <1>3 DEF NextPromotion, JobRec
<1>5. /\ new \in StepRec /\ new.attempts = 0
      /\ new.state = IF Skips(f, s) THEN "SKIPPED" ELSE "READY"
  BY <1>1, <1>2, <1>3a, <1>4 DEF StepRec, StepStates, Promoted, Promotable, JobSound,
                              SnapSound
<1>6. \A d \in Deps[s] : Done(f, d)
  BY <1>2, PromotedStep
<1>7. /\ step' \in [Flows -> [Steps -> StepRec]]
      /\ step'[f][s] = new
      /\ \A g \in Flows, t \in Steps : g # f \/ t # s => step'[g][t] = step[g][t]
  BY <1>3a, <1>4, <1>5, PutStepType DEF IInv, TypeOK
<1>8. /\ flow' = flow /\ tasks' = tasks /\ signals' = signals
      /\ ran' = ran /\ emitted' = emitted
  BY <1>3a
<1>9. StoreTyped'
  BY <1>7, <1>8 DEF StoreTyped, IInv, TypeOK
<1>10. Budget(s) \in Nat /\ 0 < Budget(s)
  BY <1>4, DefinitionAssumption DEF Budget
<1>11. /\ new.state # "PENDING" /\ new.state # "COMPLETED"
       /\ new.state = "SKIPPED" <=> Skips(f, s)
       /\ new.attempts <= Budget(s) /\ new.attempts < Budget(s)
  BY <1>5, <1>10
<1>12. Exists(f)
  BY <1>1, <1>2
<1>13. \A g \in Flows : /\ flow'[g].level = flow[g].level
                        /\ Exists(g)' <=> Exists(g)
  BY <1>8 DEF Exists
<1>14. Grows /\ StoreSound'
  BY <1>4, <1>5, <1>6, <1>7, <1>8, <1>9, <1>11, <1>12, <1>13, StepWriteSound
<1>15. PICK j : j = [i EXCEPT !.snap[s] = new, !.cur = s + 1]
  OBVIOUS
<1>16. s + 1 \in 1..(NSteps + 1)
  BY <1>4, DefinitionAssumption DEF Steps
<1>17. /\ j \in JobRec /\ j.f = f /\ j.todo = i.todo
       /\ j.snap = [i.snap EXCEPT ![s] = new]
  BY <1>2, <1>4, <1>5, <1>15, <1>16 DEF JobRec
<1>18. Goto(w, "promote", j) /\ "promote" \in Labels /\ "promote" \in HoldsFlow
  BY <1>3a, <1>15 DEF Labels, HoldsFlow
<1>19. ASSUME NEW t \in Steps
       PROVE  /\ j.snap[t].state \in {"COMPLETED", "SKIPPED"} => Done(f, t)'
              /\ j.snap[t].state = "PENDING" => j.snap[t].attempts = 0
  <2>1. CASE t = s
    BY <1>4, <1>7, <1>11, <1>17, <2>1 DEF Done
  <2>2. CASE t # s
    <3>1. j.snap[t] = i.snap[t]
      BY <1>4, <1>17, <2>2
    <3>2. Done(f, t) => Done(f, t)'
      BY <1>14 DEF Grows
    <3>. QED BY <1>1, <1>2, <3>1, <3>2 DEF JobSound, SnapSound
  <2>. QED BY <2>1, <2>2
<1>20. SnapSound("promote", j)'
  BY <1>17, <1>19 DEF SnapSound, Done
<1>21. JobSound("promote", i)'
  BY <1>1, <1>2, <1>14, <1>18, JobGrows DEF IInv, TypeOK, StoreTyped
<1>22. /\ FlowSound("promote", j)' /\ StepSound("promote", j)'
       /\ TodoSound("promote", j)' /\ RecordSound("promote", j)'
       /\ CauseSound("promote", j)' /\ ArgsSound("promote", j)'
  BY <1>2, <1>17, <1>21 DEF JobSound, FlowSound, StepSound, TodoSound, RecordSound,
        CauseSound, ArgsSound, HoldsStep, Exists, LiveStep, Recorded
<1>23. JobSound("promote", j)'
  BY <1>20, <1>22 DEF JobSound
<1>. QED BY <1>9, <1>14, <1>17, <1>18, <1>23, StepKeeps

(* dispatch starts a step it has read READY, and uses up one attempt.      *)
LEMMA BeginStepKeeps ==
  ASSUME IInv, NEW w \in Workers, BeginStep(w)
  PROVE  IInv' /\ Grows
<1>1. /\ pc[w] = "begin" /\ pc[w] \in HoldsStep
      /\ job[w] \in JobRec /\ JobSound("begin", job[w])
      /\ job[w].f \in Flows /\ job[w].s \in Steps /\ Exists(job[w].f)
      /\ LiveStep(job[w].f, job[w].s) /\ job[w].rec \in StepRec
  BY HeldStep, InFlight DEF BeginStep, HoldsStep
<1>2. PICK f \in Flows, s \in Steps : f = job[w].f /\ s = job[w].s
  BY <1>1
<1>3. PICK new : new = Started(job[w].rec)
  OBVIOUS
<1>4. /\ new \in StepRec /\ new.state = "RUNNING"
      /\ new.attempts = job[w].rec.attempts + 1
  <2>1. PICK old \in StepRec : old = job[w].rec
    BY <1>1
  <2>2. old.attempts + 1 \in Nat
    BY DEF StepRec
  <2>3. new = [old EXCEPT !.state = "RUNNING", !.attempts = old.attempts + 1]
    BY <1>3, <2>1 DEF Started
  <2>. QED BY <2>1, <2>2, <2>3 DEF StepRec, StepStates
<1>5. PutStep(f, s, new) /\ UNCHANGED <<flow, tasks, signals, ran, emitted>>
  BY <1>2, <1>3 DEF BeginStep
<1>6. Budget(s) \in Nat /\ job[w].rec.attempts \in Nat
  BY <1>1, DefinitionAssumption DEF Budget, StepRec
<1>7. "recover" \notin Requests => new.attempts <= Budget(s)
  BY <1>1, <1>2, <1>4, <1>6 DEF JobSound, RecordSound
<1>8. Grows /\ StoreTyped' /\ StoreSound'
  <2>1. /\ flow' = flow /\ tasks' = tasks /\ flow' \in [Flows -> FlowRec]
        /\ tasks' \in [Tasks -> TaskRec]
    BY <1>5 DEF IInv, TypeOK
  <2>2. \A g \in Flows : /\ flow'[g].level = flow[g].level
                         /\ Exists(g)' <=> Exists(g)
    BY <2>1 DEF Exists
  <2>. QED BY <1>1, <1>2, <1>4, <1>5, <1>7, <2>1, <2>2, HeldStepWriteSound
<1>9. CASE Route(s) = "idle"
  <2>1. Finish(w)
    BY <1>2, <1>9 DEF BeginStep, Finish
  <2>. QED BY <1>8, <2>1, FinishGoes, WriteKeeps
<1>10. CASE Route(s) # "idle"
  <2>1. PICK rec \in StepRec : rec = IF Route(s) = "wait" THEN new ELSE NoJob.rec
    BY <1>4, NoJobType DEF NoJob
  <2>2. PICK j : j = [NoJob EXCEPT !.f = f, !.s = s, !.rec = rec]
    OBVIOUS
  <2>3. Goto(w, Route(s), j)
    BY <1>2, <1>3, <1>10, <2>1, <2>2 DEF BeginStep
  <2>4. j \in JobRec /\ j.f = f /\ j.s = s /\ j.rec = rec /\ j.todo = {}
    BY <2>2, NoJobType DEF NoJob, JobRec
  <2>5. \/ Route(s) = "wait"
        \/ Route(s) = "handle" /\ Kind[s] = "handler"
        \/ Route(s) = "complete" /\ Kind[s] = "plain"
    BY <1>10, DefinitionAssumption DEF Route, StepKinds
  <2>6. PICK l \in Labels : l = Route(s)
    BY <2>5 DEF Labels
  <2>7. l \in HoldsFlow /\ l \in HoldsStep
    BY <2>5, <2>6 DEF HoldsFlow, HoldsStep, Labels
  <2>8. FlowSound(l, j) /\ StepSound(l, j) /\ TodoSound(l, j)
    BY <1>1, <1>2, <2>4, <2>7 DEF FlowSound, StepSound, TodoSound
  <2>9. SnapSound(l, j) /\ CauseSound(l, j) /\ ArgsSound(l, j)
    BY <2>4, <2>5, <2>6 DEF SnapSound, CauseSound, ArgsSound
  <2>10. RecordSound(l, j)
    BY <1>7, <2>1, <2>4, <2>5, <2>6 DEF RecordSound
  <2>. QED BY <1>8, <2>3, <2>4, <2>6, <2>8, <2>9, <2>10, WriteKeeps DEF JobSound
<1>. QED BY <1>9, <1>10

(* dispatch leaves the step waiting, for an event or for a person.         *)
LEMMA AwaitKeeps ==
  ASSUME IInv, NEW w \in Workers, AwaitEvent(w) \/ AwaitHuman(w)
  PROVE  IInv' /\ Grows
<1>1. /\ pc[w] = "wait" /\ pc[w] \in HoldsStep /\ pc[w] \in HoldsFlow
      /\ job[w] \in JobRec /\ JobSound("wait", job[w])
      /\ job[w].f \in Flows /\ job[w].s \in Steps /\ job[w].rec \in StepRec
  BY HeldStep DEF AwaitEvent, AwaitHuman, HoldsStep
<1>2. PICK st \in {"WAITING_EVENT", "WAITING_HUMAN"} :
        PutStep(job[w].f, job[w].s, [job[w].rec EXCEPT !.state = st])
  BY DEF AwaitEvent, AwaitHuman
<1>3. PICK r : r = [job[w].rec EXCEPT !.state = st]
  OBVIOUS
<1>4. r \in StepRec /\ r.state = st /\ r.attempts = job[w].rec.attempts
  BY <1>1, <1>3 DEF StepRec, StepStates
<1>5. PutStep(job[w].f, job[w].s, r)
  BY <1>2, <1>3
<1>6. "recover" \notin Requests => r.attempts <= Budget(job[w].s)
  BY <1>1, <1>4 DEF JobSound, RecordSound
<1>7. /\ flow' = flow /\ UNCHANGED <<signals, ran, emitted>>
      /\ flow' \in [Flows -> FlowRec]
  BY DEF AwaitEvent, AwaitHuman, IInv, TypeOK
<1>8. \A g \in Flows : /\ flow'[g].level = flow[g].level
                       /\ Exists(g)' <=> Exists(g)
  BY <1>7 DEF Exists
<1>9. /\ tasks' \in [Tasks -> TaskRec]
      /\ \A t \in Tasks :
           \/ tasks'[t] = tasks[t]
           \/ /\ tasks[t].status = "none" /\ tasks'[t].status = "OPEN"
              /\ tasks'[t].f = job[w].f /\ tasks'[t].s = job[w].s
              /\ Kind[job[w].s] = "human"
  <2>1. tasks \in [Tasks -> TaskRec]
    BY DEF IInv, TypeOK
  <2>2. CASE AwaitEvent(w)
    BY <2>1, <2>2 DEF AwaitEvent
  <2>3. CASE AwaitHuman(w)
    BY <1>1, <2>1, <2>3 DEF AwaitHuman, TaskRec
  <2>. QED BY <2>2, <2>3
<1>10. Grows /\ StoreTyped' /\ StoreSound'
  BY <1>1, <1>2, <1>4, <1>5, <1>6, <1>7, <1>8, <1>9, HeldStepWriteSound
<1>11. Evaluate(w, job[w].f)
  BY DEF AwaitEvent, AwaitHuman
<1>. QED BY <1>1, <1>10, <1>11, EvaluateGoes, WriteKeeps

(* complete writes the step and its event in one transaction.              *)
LEMMA CompleteWriteKeeps ==
  ASSUME IInv, NEW w \in Workers, CompleteWrite(w)
  PROVE  IInv' /\ Grows
<1>1. /\ pc[w] = "completeWrite" /\ pc[w] \in HoldsStep
      /\ PutStep(job[w].f, job[w].s, [job[w].rec EXCEPT !.state = "COMPLETED"])
      /\ emitted' = [emitted EXCEPT ![job[w].f][job[w].s] = @ + 1]
      /\ Evaluate(w, job[w].f)
      /\ UNCHANGED <<flow, tasks, signals, ran>>
  BY DEF CompleteWrite, HoldsStep
<1>2. /\ job[w] \in JobRec /\ JobSound("completeWrite", job[w])
      /\ job[w].rec \in StepRec /\ pc[w] \in HoldsFlow
  BY <1>1, HeldStep
<1>3. PICK f \in Flows, s \in Steps :
        /\ f = job[w].f /\ s = job[w].s /\ Exists(f) /\ ~Skips(f, s)
        /\ \A d \in Deps[s] : Done(f, d)
  BY <1>1, HeldStep
<1>4. PICK r : r = [job[w].rec EXCEPT !.state = "COMPLETED"]
  OBVIOUS
<1>5. r \in StepRec /\ r.state = "COMPLETED" /\ r.attempts = job[w].rec.attempts
  BY <1>2, <1>4 DEF StepRec, StepStates
<1>6. PutStep(f, s, r)
  BY <1>1, <1>3, <1>4
<1>7. /\ step' \in [Flows -> [Steps -> StepRec]]
      /\ step'[f][s] = r
      /\ \A g \in Flows, t \in Steps : g # f \/ t # s => step'[g][t] = step[g][t]
  BY <1>5, <1>6, PutStepType DEF IInv, TypeOK
<1>8. /\ emitted' \in [Flows -> [Steps -> Nat]]
      /\ emitted'[f][s] > 0
      /\ \A g \in Flows, t \in Steps :
           /\ emitted[g][t] > 0 => emitted'[g][t] > 0
           /\ emitted'[g][t] > 0 => emitted[g][t] > 0 \/ (g = f /\ t = s)
  BY <1>1, <1>3 DEF IInv, TypeOK
<1>9. flow' = flow /\ tasks' = tasks /\ signals' = signals /\ ran' = ran
  BY <1>1
<1>10. StoreTyped'
  BY <1>7, <1>8, <1>9 DEF StoreTyped, IInv, TypeOK
<1>11. /\ Kind[s] = "event" => Recorded(f, EventOf[s])
       /\ Kind[s] = "human" => Decided(f, s)
       /\ "recover" \notin Requests => r.attempts <= Budget(s)
  BY <1>2, <1>3, <1>5 DEF JobSound, CauseSound, RecordSound
<1>12. \A g \in Flows : /\ flow'[g].level = flow[g].level
                        /\ Exists(g)' <=> Exists(g)
  BY <1>9 DEF Exists
<1>13. \A g \in Flows, t \in Steps :
         /\ emitted[g][t] > 0 => emitted'[g][t] > 0
         /\ emitted'[g][t] > 0 =>
              \/ emitted[g][t] > 0
              \/ /\ g = f /\ t = s
                 /\ Kind[s] = "event" => Recorded(f, EventOf[s])
                 /\ Kind[s] = "human" => Decided(f, s)
  BY <1>8, <1>11, Zenon
<1>14. Grows /\ StoreSound'
  <2>1. /\ r.state # "PENDING" /\ r.state # "READY"
        /\ r.state = "SKIPPED" <=> Skips(f, s)
        /\ r.state = "COMPLETED" => emitted'[f][s] > 0
    BY <1>3, <1>5, <1>8
  <2>. QED BY <1>3, <1>5, <1>7, <1>9, <1>10, <1>11, <1>12, <1>13, <2>1,
              StepWriteSound
<1>. QED BY <1>1, <1>2, <1>10, <1>14, EvaluateGoes, WriteKeeps

(* fail leaves the step READY only if an attempt is left; recovery is what *)
(* ignores the budget.                                                     *)
LEMMA FailAndRecoverKeep ==
  ASSUME IInv, NEW w \in Workers, FailWrite(w) \/ RecoverWrite(w)
  PROVE  IInv' /\ Grows
<1>1. /\ pc[w] \in {"failWrite", "recoverWrite"} /\ pc[w] \in HoldsStep
      /\ Finish(w) /\ UNCHANGED <<tasks, signals, ran, emitted>>
  BY DEF FailWrite, RecoverWrite, HoldsStep
<1>2. /\ job[w] \in JobRec /\ JobSound(pc[w], job[w])
      /\ job[w].f \in Flows /\ job[w].s \in Steps /\ Exists(job[w].f)
      /\ job[w].rec \in StepRec
  BY <1>1, HeldStep
<1>3. PICK r \in StepRec, st \in {"READY", "RETRY_PENDING", "FAILED"} :
        /\ PutStep(job[w].f, job[w].s, r) /\ PutState(job[w].f, st)
        /\ r.state \in {"READY", "FAILED"} /\ r.attempts = job[w].rec.attempts
        /\ r.state = "READY" =>
             pc[w] = "recoverWrite" \/ MayRetry(job[w].rec, job[w].s)
  <2>1. CASE FailWrite(w)
    <3>1. PICK retry \in BOOLEAN :
            /\ retry <=> MayRetry(job[w].rec, job[w].s)
            /\ PutStep(job[w].f, job[w].s,
                       [job[w].rec EXCEPT !.state = IF retry THEN "READY" ELSE "FAILED",
                                          !.error = TRUE])
            /\ PutState(job[w].f, IF retry THEN "RETRY_PENDING" ELSE "FAILED")
      BY <2>1 DEF FailWrite
    <3>2. PICK x \in {"READY", "FAILED"} : x = IF retry THEN "READY" ELSE "FAILED"
      OBVIOUS
    <3>3. PICK r : r = [job[w].rec EXCEPT !.state = x, !.error = TRUE]
      OBVIOUS
    <3>4. r \in StepRec /\ r.state = x /\ r.attempts = job[w].rec.attempts
      BY <1>2, <3>3 DEF StepRec, StepStates
    <3>5. PutStep(job[w].f, job[w].s, r)
      BY <3>1, <3>2, <3>3
    <3>. QED BY <3>1, <3>2, <3>4, <3>5
  <2>2. CASE RecoverWrite(w)
    <3>1. PICK r : r = [job[w].rec EXCEPT !.state = "READY"]
      OBVIOUS
    <3>2. r \in StepRec /\ r.state = "READY" /\ r.attempts = job[w].rec.attempts
      BY <1>2, <3>1 DEF StepRec, StepStates
    <3>3. PutStep(job[w].f, job[w].s, r)
      BY <2>2, <3>1 DEF RecoverWrite
    <3>. QED BY <2>2, <3>2, <3>3 DEF RecoverWrite
  <2>. QED BY <2>1, <2>2
<1>4. Budget(job[w].s) \in Nat /\ job[w].rec.attempts \in Nat
      /\ MaxAttempts[job[w].s] \in Nat
  BY <1>2, DefinitionAssumption DEF Budget, StepRec
<1>5. "recover" \notin Requests =>
        /\ r.attempts <= Budget(job[w].s)
        /\ r.state = "READY" => r.attempts < Budget(job[w].s)
  BY <1>1, <1>2, <1>3, <1>4 DEF JobSound, RecordSound, MayRetry, Budget
<1>6. /\ flow' \in [Flows -> FlowRec]
      /\ flow'[job[w].f].state = st
      /\ \A g \in Flows : /\ flow'[g].level = flow[g].level
                          /\ g # job[w].f => flow'[g] = flow[g]
  <2>1. st \in FlowStates /\ flow \in [Flows -> FlowRec]
    BY <1>3 DEF FlowStates, IInv, TypeOK
  <2>. QED BY <1>2, <1>3, <2>1, PutStateType
<1>7. \A g \in Flows : /\ Exists(g)' <=> Exists(g)
                       /\ flow'[g].state = "COMPLETED"
                            => flow[g].state = "COMPLETED"
  BY <1>2, <1>3, <1>6 DEF Exists
<1>8. Grows /\ StoreTyped' /\ StoreSound'
  <2>1. tasks' = tasks /\ tasks' \in [Tasks -> TaskRec]
    BY <1>1 DEF IInv, TypeOK
  <2>. QED BY <1>1, <1>2, <1>3, <1>5, <1>6, <1>7, <2>1, HeldStepWriteSound
<1>. QED BY <1>1, <1>8, FinishGoes, WriteKeeps

----------------------------------------------------------------------------
(* The theorems: IInv is inductive (from the lemmas above, one per write   *)
(* of a request), so the safety properties hold of every behaviour,        *)
(* nothing on record is taken back, and the documents implement FlowPlan.  *)

(* With no flow, no task and no request there is nothing to be wrong.      *)
LEMMA InitSound == Init => IInv
<1> SUFFICES ASSUME Init PROVE IInv
  OBVIOUS
<1>1. /\ flow = [f \in Flows |-> NoFlow]
      /\ step = [f \in Flows |-> [s \in Steps |-> Pending]]
      /\ tasks = [t \in Tasks |-> NoTask]
      /\ signals = [r \in Signal |-> 0]
      /\ ran = [f \in Flows |-> [s \in Steps |-> 0]]
      /\ emitted = [f \in Flows |-> [s \in Steps |-> 0]]
      /\ pc = [w \in Workers |-> "idle"]
      /\ job = [w \in Workers |-> NoJob]
  BY DEF Init
<1>2. TypeOK
  BY <1>1, NoJobType DEF TypeOK, NoFlow, FlowRec, FlowStates, NoTask, TaskRec, Labels
<1>3. \A f \in Flows, s \in Steps :
        /\ step[f][s].state = "PENDING" /\ step[f][s].attempts = 0
        /\ ran[f][s] = 0 /\ emitted[f][s] = 0
  BY <1>1 DEF Pending
<1>4. /\ \A f \in Flows : flow[f].state = "none"
      /\ \A t \in Tasks : tasks[t].status = "none"
  BY <1>1 DEF NoFlow, NoTask
<1>5. StepsSound /\ TasksSound
  BY <1>3, <1>4 DEF StepsSound, TasksSound, LiveStep
<1>6. AttemptsSound
  BY <1>3, DefinitionAssumption DEF AttemptsSound, Budget
<1>7. DependencyOrder /\ ClosedAfterWork /\ EventGate /\ HumanGate
  BY <1>3, <1>4 DEF DependencyOrder, ClosedAfterWork, EventGate, HumanGate
<1>8. \A w \in Workers : JobSound(pc[w], job[w])
  BY <1>1 DEF JobSound, FlowSound, StepSound, TodoSound, SnapSound, RecordSound,
              CauseSound, ArgsSound, HoldsFlow, HoldsStep, NoJob
<1>. QED BY <1>2, <1>5, <1>6, <1>7, <1>8 DEF IInv

(* Every step keeps the invariant and takes nothing back.                  *)
LEMMA NextKeeps ==
  ASSUME IInv, [Next]_vars
  PROVE  IInv' /\ Grows
<1>1. ASSUME NEW w \in Workers, Request(w) PROVE IInv' /\ Grows
  BY <1>1, RequestKeeps
<1>2. ASSUME NEW w \in Workers, Crash(w) PROVE IInv' /\ Grows
  BY <1>2, CrashKeeps
<1>3. ASSUME NEW w \in Workers, Advance(w) PROVE IInv' /\ Grows
  <2>1. CASE EvalReadFlow(w) \/ EvalReadSteps(w) \/ Refresh(w)
    BY <2>1, EvalReadsKeep
  <2>2. CASE \/ DispatchReadStep(w) \/ CompleteRead(w) \/ FailRead(w)
             \/ ScanWaiting(w) \/ RecoverRead(w)
    BY <2>2, StepReadsKeep
  <2>3. CASE InsertFlow(w)
    BY <2>3, InsertFlowKeeps
  <2>4. CASE Settle(w) \/ SuspendWrite(w) \/ ResumeWrite(w)
    BY <2>4, StateWritesKeep
  <2>5. CASE Promote(w)
    BY <2>5, PromoteKeeps
  <2>6. CASE BeginStep(w)
    BY <2>6, BeginStepKeeps
  <2>7. CASE AwaitEvent(w) \/ AwaitHuman(w)
    BY <2>7, AwaitKeeps
  <2>8. CASE RunHandler(w)
    BY <2>8, RunHandlerKeeps
  <2>9. CASE CompleteWrite(w)
    BY <2>9, CompleteWriteKeeps
  <2>10. CASE FailWrite(w) \/ RecoverWrite(w)
    BY <2>10, FailAndRecoverKeep
  <2>11. CASE RecordSignal(w)
    BY <2>11, RecordSignalKeeps
  <2>12. CASE DecideWrite(w)
    BY <2>12, DecideWriteKeeps
  <2>. QED BY <1>3, <2>1, <2>2, <2>3, <2>4, <2>5, <2>6, <2>7, <2>8, <2>9, <2>10,
              <2>11, <2>12 DEF Advance
<1>4. CASE UNCHANGED vars
  <2>1. /\ flow' = flow /\ step' = step /\ tasks' = tasks /\ signals' = signals
        /\ ran' = ran /\ emitted' = emitted /\ pc' = pc /\ job' = job
    BY <1>4 DEF vars
  <2>2. Grows
    BY <2>1 DEF Grows, Exists, LiveStep, Done, Decided, Recorded
  <2>3. TypeOK' /\ StepsSound' /\ AttemptsSound' /\ TasksSound'
    BY <2>1 DEF IInv, TypeOK, StepsSound, AttemptsSound, TasksSound, LiveStep,
                Skips, Exists
  <2>4. DependencyOrder' /\ ClosedAfterWork' /\ EventGate' /\ HumanGate'
    BY <2>1 DEF IInv, DependencyOrder, ClosedAfterWork, EventGate, HumanGate, Done
  <2>5. ASSUME NEW w \in Workers PROVE JobSound(pc[w], job[w])'
    <3>1. PICK l \in Labels, j \in JobRec : l = pc[w] /\ j = job[w]
      BY DEF IInv, TypeOK
    <3>2. JobSound(l, j)'
      BY <2>2, <3>1, JobGrows DEF IInv, TypeOK, StoreTyped
    <3>. QED
      BY <2>1, <3>1, <3>2 DEF JobSound, FlowSound, StepSound, TodoSound,
                      SnapSound, RecordSound, CauseSound, ArgsSound
  <2>. QED BY <2>2, <2>3, <2>4, <2>5 DEF IInv
<1>. QED BY <1>1, <1>2, <1>3, <1>4 DEF Next

(* The invariant holds in every reachable state.                           *)
THEOREM Invariance == Spec => []IInv
<1>1. IInv /\ [Next]_vars => IInv'
  BY NextKeeps
<1>. QED BY InitSound, <1>1, PTL DEF Spec

(* Every document and every variable of a request keeps its type.          *)
THEOREM TypeCorrect == Spec => []TypeOK
<1>1. IInv => TypeOK
  BY DEF IInv
<1>. QED BY Invariance, <1>1, PTL

(* evaluate promotes no step, however old its list of steps, before those  *)
(* it depends on are completed or skipped.                                 *)
THEOREM DependencyOrderHolds == Spec => []DependencyOrder
<1>1. IInv => DependencyOrder
  BY DEF IInv
<1>. QED BY Invariance, <1>1, PTL

(* No handler is called for a step before its dependencies are done, nor   *)
(* for a step that the assurance level skips.                              *)
THEOREM EffectsAfterDependenciesHold == Spec => []EffectsAfterDependencies
<1>1. IInv => EffectsAfterDependencies
  BY DEF IInv, EffectsAfterDependencies, StepsSound, DependencyOrder, LiveStep
<1>. QED BY Invariance, <1>1, PTL

(* evaluate closes a flow only when every step is behind it.               *)
THEOREM ClosedAfterWorkHolds == Spec => []ClosedAfterWork
<1>1. IInv => ClosedAfterWork
  BY DEF IInv
<1>. QED BY Invariance, <1>1, PTL

(* A step that waits for an event is completed only if the event was       *)
(* signalled for its flow.                                                 *)
THEOREM EventGateHolds == Spec => []EventGate
<1>1. IInv => EventGate
  BY DEF IInv
<1>. QED BY Invariance, <1>1, PTL

(* A step that needs a person is completed only if a task was decided.     *)
THEOREM HumanGateHolds == Spec => []HumanGate
<1>1. IInv => HumanGate
  BY DEF IInv
<1>. QED BY Invariance, <1>1, PTL

(* Without recovery by an operator, dispatch never exceeds the attempts    *)
(* that retry.maxAttempts allows.                                          *)
THEOREM RetryBudgetHolds == Spec => []RetryBudget
<1>1. IInv => RetryBudget
  BY DEF IInv, AttemptsSound, RetryBudget
<1>. QED BY Invariance, <1>1, PTL

(* A flow stays, its assurance level is fixed, a promoted step does not go *)
(* back to PENDING or become skipped, and completions, signals, tasks and  *)
(* decisions stay on record: what a request was told remains true.         *)
THEOREM NothingTakenBack == Spec => [][Grows]_vars
<1>1. IInv /\ [Next]_vars => [Grows]_vars
  BY NextKeeps
<1>. QED BY Invariance, <1>1, PTL DEF Spec

----------------------------------------------------------------------------
(* The refinement of FlowPlan.                                             *)

(* A step that puts nothing new behind a flow, and rewrites the state of   *)
(* one flow at most, closes it, reopens it or does nothing to the plan.    *)
LEMMA StateStep ==
  ASSUME IInv', NEW f \in Flows,
         \A g \in Flows, t \in Steps : Done(g, t)' <=> Done(g, t),
         \A g \in Flows \ {f} :
           flow'[g].state = "COMPLETED" <=> flow[g].state = "COMPLETED"
  PROVE  Plan!Next \/ UNCHANGED <<PlanDone, PlanClosed>>
<1>1. PlanDone' = PlanDone
  BY DEF PlanDone
<1>2. CASE flow'[f].state = "COMPLETED"
  <2>1. PlanClosed' = PlanClosed \cup {f}
    BY <1>2 DEF PlanClosed
  <2>2. \A t \in Steps : Done(f, t)
    BY <1>2 DEF IInv, ClosedAfterWork
  <2>3. PlanDone[f] = Steps
    BY <2>2 DEF PlanDone
  <2>. QED BY <1>1, <2>1, <2>3 DEF Plan!Next, Plan!Close
<1>3. CASE flow'[f].state # "COMPLETED"
  <2>1. PlanClosed' = PlanClosed \ {f}
    BY <1>3 DEF PlanClosed
  <2>. QED BY <1>1, <2>1 DEF Plan!Next, Plan!Reopen
<1>. QED BY <1>2, <1>3

(* A step that may put one step behind a flow, after all it depends on,    *)
(* passes that step or does nothing to the plan.                           *)
LEMMA PassStep ==
  ASSUME NEW f \in Flows, NEW s \in Steps, \A d \in Deps[s] : Done(f, d),
         \A g \in Flows, t \in Steps :
           /\ Done(g, t) => Done(g, t)'
           /\ Done(g, t)' => Done(g, t) \/ (g = f /\ t = s),
         flow' = flow
  PROVE  Plan!Next \/ UNCHANGED <<PlanDone, PlanClosed>>
<1>1. PlanClosed' = PlanClosed
  BY DEF PlanClosed
<1>2. Deps[s] \subseteq PlanDone[f]
  BY DefinitionAssumption DEF PlanDone
<1>3. CASE Done(f, s) \/ ~Done(f, s)'
  <2>1. \A g \in Flows, t \in Steps : Done(g, t)' <=> Done(g, t)
    BY <1>3
  <2>2. PlanDone' = PlanDone
    BY <2>1 DEF PlanDone
  <2>. QED BY <1>1, <2>2
<1>4. CASE ~Done(f, s) /\ Done(f, s)'
  <2>1. s \notin PlanDone[f]
    BY <1>4 DEF PlanDone
  <2>2. \A g \in Flows, t \in Steps :
          Done(g, t)' <=> Done(g, t) \/ (g = f /\ t = s)
    BY <1>4
  <2>3. PlanDone' = [PlanDone EXCEPT ![f] = PlanDone[f] \cup {s}]
    <3>1. \A g \in Flows : {t \in Steps : Done(g, t)'} =
            IF g = f THEN {t \in Steps : Done(g, t)} \cup {s}
                     ELSE {t \in Steps : Done(g, t)}
      BY <2>2
    <3>. QED BY <3>1 DEF PlanDone
  <2>. QED BY <1>1, <1>2, <2>1, <2>3 DEF Plan!Next, Plan!Pass
<1>. QED BY <1>3, <1>4

(* Every step of a request is one of the plan, or none.                    *)
LEMMA PlanStep ==
  ASSUME IInv, IInv', Grows, [Next]_vars
  PROVE  Plan!Next \/ UNCHANGED <<PlanDone, PlanClosed>>
<1>1. ASSUME flow' = flow, step' = step, emitted' = emitted
      PROVE  Plan!Next \/ UNCHANGED <<PlanDone, PlanClosed>>
  BY <1>1 DEF PlanDone, PlanClosed, Done
<1>2. CASE UNCHANGED vars
  BY <1>1, <1>2 DEF vars
<1>3. ASSUME NEW w \in Workers, Request(w) \/ Crash(w)
      PROVE  Plan!Next \/ UNCHANGED <<PlanDone, PlanClosed>>
  <2>1. UNCHANGED store
    BY <1>3 DEF Request, Start, Dispatch, SignalFlow, Decide, Suspend, Resume,
                Recover, Crash
  <2>. QED BY <1>1, <2>1 DEF store
<1>4. ASSUME NEW w \in Workers,
             \/ EvalReadFlow(w) \/ EvalReadSteps(w) \/ Refresh(w)
             \/ DispatchReadStep(w) \/ CompleteRead(w) \/ FailRead(w)
             \/ ScanWaiting(w) \/ RecoverRead(w) \/ RunHandler(w)
             \/ RecordSignal(w) \/ DecideWrite(w)
      PROVE  Plan!Next \/ UNCHANGED <<PlanDone, PlanClosed>>
  <2>1. flow' = flow /\ step' = step /\ emitted' = emitted
    BY <1>4 DEF EvalReadFlow, EvalReadSteps, Refresh, DispatchReadStep,
         CompleteRead, FailRead, ScanWaiting, RecoverRead, RunHandler,
         RecordSignal, DecideWrite, store
  <2>. QED BY <1>1, <2>1
<1>5. ASSUME NEW w \in Workers, InsertFlow(w)
      PROVE  Plan!Next \/ UNCHANGED <<PlanDone, PlanClosed>>
  <2>1. PICK f \in Flows :
          /\ \E rec : flow' = [flow EXCEPT ![f] = rec]
          /\ step' = step /\ emitted' = emitted
    BY <1>5 DEF InsertFlow
  <2>2. \A g \in Flows \ {f} : flow'[g] = flow[g]
    BY <2>1 DEF IInv, TypeOK
  <2>3. \A g \in Flows, t \in Steps : Done(g, t)' <=> Done(g, t)
    BY <2>1 DEF Done
  <2>. QED BY <2>2, <2>3, StateStep
<1>6. ASSUME NEW w \in Workers, Settle(w) \/ SuspendWrite(w) \/ ResumeWrite(w)
      PROVE  Plan!Next \/ UNCHANGED <<PlanDone, PlanClosed>>
  <2>1. PICK f \in Flows :
          (\E st : PutState(f, st)) /\ step' = step /\ emitted' = emitted
    <3>1. job[w].f \in Flows
      BY <1>6, InFlight DEF Settle, SuspendWrite, ResumeWrite, HoldsFlow, Labels
    <3>. QED BY <1>6, <3>1 DEF Settle, SuspendWrite, ResumeWrite
  <2>2. \A g \in Flows \ {f} : flow'[g] = flow[g]
    BY <2>1 DEF IInv, TypeOK, PutState
  <2>3. \A g \in Flows, t \in Steps : Done(g, t)' <=> Done(g, t)
    BY <2>1 DEF Done
  <2>. QED BY <2>2, <2>3, StateStep
<1>7. ASSUME NEW w \in Workers, Promote(w)
      PROVE  Plan!Next \/ UNCHANGED <<PlanDone, PlanClosed>>
  <2>1. PICK s \in NextPromotion(w) :
          /\ \E r : PutStep(job[w].f, s, r)
          /\ flow' = flow /\ emitted' = emitted
    BY <1>7 DEF Promote
  <2>2. PICK f \in Flows :
          f = job[w].f /\ s \in Steps /\ \A d \in Deps[s] : Done(f, d)
    BY <1>7, <2>1, PromotedStep
  <2>3. \A g \in Flows, t \in Steps : g # f \/ t # s => step'[g][t] = step[g][t]
    BY <2>1, <2>2 DEF PutStep, IInv, TypeOK
  <2>4. \A g \in Flows, t \in Steps :
          /\ Done(g, t) => Done(g, t)'
          /\ Done(g, t)' => Done(g, t) \/ (g = f /\ t = s)
    BY <2>1, <2>3 DEF Grows, Done
  <2>. QED BY <2>1, <2>2, <2>4, PassStep
<1>8. ASSUME NEW w \in Workers, CompleteWrite(w)
      PROVE  Plan!Next \/ UNCHANGED <<PlanDone, PlanClosed>>
  <2>1. PICK f \in Flows, s \in Steps :
          f = job[w].f /\ s = job[w].s /\ \A d \in Deps[s] : Done(f, d)
    BY <1>8, HeldStep DEF CompleteWrite, HoldsStep
  <2>2. PICK r :
          /\ PutStep(f, s, r) /\ flow' = flow
          /\ emitted' = [emitted EXCEPT ![f][s] = @ + 1]
    BY <1>8, <2>1 DEF CompleteWrite
  <2>3. \A g \in Flows, t \in Steps :
          g # f \/ t # s => /\ step'[g][t] = step[g][t]
                            /\ emitted'[g][t] = emitted[g][t]
    BY <2>2 DEF PutStep, IInv, TypeOK
  <2>4. \A g \in Flows, t \in Steps :
          /\ Done(g, t) => Done(g, t)'
          /\ Done(g, t)' => Done(g, t) \/ (g = f /\ t = s)
    BY <2>3 DEF Grows, Done
  <2>. QED BY <2>1, <2>2, <2>4, PassStep
<1>9. ASSUME NEW w \in Workers,
             \/ BeginStep(w) \/ AwaitEvent(w) \/ AwaitHuman(w)
             \/ FailWrite(w) \/ RecoverWrite(w)
      PROVE  Plan!Next \/ UNCHANGED <<PlanDone, PlanClosed>>
  <2>1. pc[w] \in HoldsStep /\ pc[w] # "dispatch"
    BY <1>9 DEF BeginStep, AwaitEvent, AwaitHuman, FailWrite, RecoverWrite, HoldsStep
  <2>2. PICK f \in Flows, s \in Steps :
          f = job[w].f /\ s = job[w].s /\ job[w].rec \in StepRec
    BY <2>1, HeldStep
  <2>3. PICK r : PutStep(f, s, r) /\ r.state # "SKIPPED"
    <3>1. PICK old \in StepRec : old = job[w].rec
      BY <2>2
    <3>2. CASE BeginStep(w)
      <4>1. PICK r : r = [old EXCEPT !.state = "RUNNING", !.attempts = @ + 1]
        OBVIOUS
      <4>2. r.state = "RUNNING"
        BY <4>1 DEF StepRec
      <4>3. PutStep(f, s, r)
        BY <2>2, <3>1, <3>2, <4>1 DEF BeginStep, Started
      <4>. QED BY <4>2, <4>3
    <3>3. CASE AwaitEvent(w)
      BY <2>2, <3>1, <3>3 DEF AwaitEvent, StepRec
    <3>4. CASE AwaitHuman(w)
      BY <2>2, <3>1, <3>4 DEF AwaitHuman, StepRec
    <3>5. CASE FailWrite(w)
      <4>1. PICK x \in {"READY", "FAILED"} :
              PutStep(f, s, [old EXCEPT !.state = x, !.error = TRUE])
        BY <2>2, <3>1, <3>5 DEF FailWrite
      <4>2. PICK r : r = [old EXCEPT !.state = x, !.error = TRUE]
        OBVIOUS
      <4>3. r.state = x /\ PutStep(f, s, r)
        BY <4>1, <4>2 DEF StepRec
      <4>. QED BY <4>3
    <3>6. CASE RecoverWrite(w)
      BY <2>2, <3>1, <3>6 DEF RecoverWrite, StepRec
    <3>. QED BY <1>9, <3>2, <3>3, <3>4, <3>5, <3>6
  <2>4. emitted' = emitted /\ (flow' = flow \/ \E st : PutState(f, st))
    <3>1. CASE FailWrite(w)
      BY <2>2, <3>1 DEF FailWrite
    <3>2. CASE RecoverWrite(w)
      BY <2>2, <3>2 DEF RecoverWrite
    <3>. QED BY <1>9, <3>1, <3>2 DEF BeginStep, AwaitEvent, AwaitHuman
  <2>5. /\ step'[f][s].state # "SKIPPED"
        /\ \A g \in Flows, t \in Steps : g # f \/ t # s => step'[g][t] = step[g][t]
    BY <2>3 DEF PutStep, IInv, TypeOK
  <2>6. \A g \in Flows, t \in Steps : Done(g, t)' <=> Done(g, t)
    BY <2>4, <2>5 DEF Grows, Done
  <2>7. \A g \in Flows \ {f} : flow'[g] = flow[g]
    BY <2>4 DEF IInv, TypeOK, PutState
  <2>. QED BY <2>6, <2>7, StateStep
<1>. QED
  BY <1>2, <1>3, <1>4, <1>5, <1>6, <1>7, <1>8, <1>9 DEF Next, Advance

(* At first nothing is behind any flow and none is closed.                 *)
LEMMA PlanInit == Init => Plan!Init
  BY DEF Init, Plan!Init, PlanDone, PlanClosed, Done, NoFlow, Pending

(* The documents implement the plan: steps are put behind a flow one at a  *)
(* time, after those they depend on and for good, and a flow is closed     *)
(* only when all are, whatever requests race and wherever they die.        *)
THEOREM ImplementsPlan == Spec => PlanSpec
<1>1. IInv /\ IInv' /\ [Next]_vars => [Plan!Next]_<<PlanDone, PlanClosed>>
  BY NextKeeps, PlanStep
<1>. QED BY Invariance, PlanInit, <1>1, PTL DEF Spec, PlanSpec, Plan!Spec

----------------------------------------------------------------------------
(* One request at a time, which may die half-way.                          *)

Documents == FlowsInTurn /\ StepsInTurn /\ TasksInTurn

(* What a step of the system may not do to what is settled.                *)
FinalKept ==
  \A f \in Flows, s \in Steps : step[f][s].state \in Final => step'[f][s] = step[f][s]

HaltKept ==
  \A f \in Flows :
    /\ flow[f].state = "COMPLETED" => flow'[f] = flow[f]
    /\ flow[f].state = "SUSPENDED" =>
         flow'[f].state \in {"SUSPENDED", "READY", "RETRY_PENDING", "FAILED"}

(* The request that takes a step is where it goes, with what it carries.   *)
LEMMA TurnOf ==
  ASSUME NEW w \in Workers, NEW l, NEW j, pc'[w] = l, job'[w] = j, JobInTurn(l, j)'
  PROVE  JobInTurn(pc[w], job[w])'
  BY DEF JobInTurn, FlowRead, StepRead, TaskRead, TodoRead, NoneOpen, Approved

LEMMA FinishTurn ==
  ASSUME IInv, NEW w \in Workers, Finish(w)
  PROVE  JobInTurn(pc[w], job[w])' /\ pc'[w] = "idle"
<1>1. pc'[w] = "idle" /\ job'[w] = NoJob
  BY DEF Finish, Goto, IInv, TypeOK
<1>2. JobInTurn("idle", NoJob)'
  BY DEF JobInTurn, FlowRead, StepRead, TaskRead, TodoRead, NoJob
<1>. QED BY <1>1, <1>2, TurnOf

LEMMA EvaluateTurn ==
  ASSUME IInv, NEW w \in Workers, NEW f \in Flows, Evaluate(w, f),
         \A s \in job[w].todo : step'[f][s].state = "WAITING_EVENT"
  PROVE  /\ JobInTurn(pc[w], job[w])'
         /\ pc'[w] = "eval" /\ job'[w].f = f /\ job'[w].cur = 1
<1>1. PICK j : j = [NoJob EXCEPT !.f = f, !.ev = job[w].ev,
                                 !.todo = job[w].todo, !.again = job[w].again]
  OBVIOUS
<1>2. pc'[w] = "eval" /\ job'[w] = j
  BY <1>1 DEF Evaluate, Goto, IInv, TypeOK
<1>3. j.f = f /\ j.todo = job[w].todo /\ j.cur = 1
  BY <1>1 DEF NoJob
<1>4. JobInTurn("eval", j)'
  BY <1>3 DEF JobInTurn, FlowRead, StepRead, TaskRead, TodoRead, Evaluating
<1>. QED BY <1>2, <1>3, <1>4, TurnOf

(* evaluate returns to signal, which completes a step that still waits.    *)
LEMMA ReturnTurn ==
  ASSUME IInv, StepsInTurn', NEW w \in Workers, pc[w] \in HoldsFlow, Return(w),
         \A s \in job[w].todo : step'[job[w].f][s].state = "WAITING_EVENT"
  PROVE  /\ JobInTurn(pc[w], job[w])'
         /\ \/ pc'[w] \notin Evaluating
            \/ pc'[w] = "eval" /\ job'[w].f = job[w].f /\ job'[w].cur = 1
<1>1. /\ job[w] \in JobRec /\ job[w].f \in Flows /\ job[w].todo \subseteq Steps
      /\ \A s \in job[w].todo : Kind[s] = "event"
  BY DEF IInv, TypeOK, JobSound, FlowSound, TodoSound, JobRec
<1>2. CASE Finish(w)
  BY <1>2, FinishTurn DEF Evaluating
<1>3. CASE Goto(w, "eval", [NoJob EXCEPT !.f = job[w].f])
  <2>1. PICK j : j = [NoJob EXCEPT !.f = job[w].f]
    OBVIOUS
  <2>2. pc'[w] = "eval" /\ job'[w] = j
    BY <1>3, <2>1 DEF Goto, IInv, TypeOK
  <2>3. j.f = job[w].f /\ j.todo = {} /\ j.cur = 1
    BY <2>1 DEF NoJob
  <2>4. JobInTurn("eval", j)'
    BY <2>3 DEF JobInTurn, FlowRead, StepRead, TaskRead, TodoRead, Evaluating
  <2>. QED BY <2>2, <2>3, <2>4, TurnOf
<1>4. CASE \E s \in job[w].todo :
             Goto(w, "complete",
                  [NoJob EXCEPT !.f = job[w].f, !.s = s, !.ev = job[w].ev,
                                !.todo = job[w].todo \ {s}, !.again = TRUE])
  <2>1. PICK s \in job[w].todo :
             Goto(w, "complete",
                  [NoJob EXCEPT !.f = job[w].f, !.s = s, !.ev = job[w].ev,
                                !.todo = job[w].todo \ {s}, !.again = TRUE])
    BY <1>4
  <2>2. PICK j : j = [NoJob EXCEPT !.f = job[w].f, !.s = s, !.ev = job[w].ev,
                                !.todo = job[w].todo \ {s}, !.again = TRUE]
    OBVIOUS
  <2>3. pc'[w] = "complete" /\ job'[w] = j
    BY <2>1, <2>2 DEF Goto, IInv, TypeOK
  <2>4. j.f = job[w].f /\ j.s = s /\ j.todo = job[w].todo \ {s}
    BY <2>2 DEF NoJob
  <2>5. NoneOpen(j.f, j.s)' /\ Kind[j.s] # "human" /\ step'[j.f][j.s].state = "WAITING_EVENT"
    BY <1>1, <2>4 DEF StepsInTurn
  <2>6. JobInTurn("complete", j)'
    BY <2>4, <2>5
       DEF JobInTurn, FlowRead, StepRead, TaskRead, TodoRead, Evaluating, Completable, NoneOpen
  <2>. QED BY <2>3, <2>6, TurnOf DEF Evaluating
<1>. QED BY <1>2, <1>3, <1>4 DEF Return

(* Steps that leave the documents alone.                                   *)
LEMMA ReadsTurn ==
  ASSUME TurnInv, UNCHANGED <<flow, step, tasks, ran>>
  PROVE  /\ Documents' /\ FinalKept /\ HaltKept
         /\ \A l, j : JobInTurn(l, j) => JobInTurn(l, j)'
<1>1. \A f, s : (NoneOpen(f, s)' <=> NoneOpen(f, s)) /\ (Approved(f, s)' <=> Approved(f, s))
  BY DEF NoneOpen, Approved
<1>2. Documents'
  BY <1>1 DEF TurnInv, Documents, FlowsInTurn, StepsInTurn, TasksInTurn
<1>3. FinalKept /\ HaltKept
  BY DEF FinalKept, HaltKept
<1>4. \A l, j : JobInTurn(l, j) => JobInTurn(l, j)'
  BY <1>1 DEF JobInTurn, FlowRead, StepRead, TaskRead, TodoRead
<1>. QED BY <1>2, <1>3, <1>4

LEMMA RequestTurn ==
  ASSUME IInv, TurnInv, NEW w \in Workers, Request(w)
  PROVE  JobInTurn(pc[w], job[w])'
<1>1. UNCHANGED <<flow, step, tasks, ran>>
  BY DEF Request, Start, Dispatch, SignalFlow, Decide, Suspend, Resume, Recover, store
<1>2. ASSUME NEW l, NEW j, Goto(w, l, j), JobInTurn(l, j) PROVE JobInTurn(pc[w], job[w])'
  BY <1>1, <1>2, ReadsTurn, TurnOf DEF Goto, IInv, TypeOK
<1> USE DEF JobInTurn, FlowRead, StepRead, TaskRead, TodoRead
<1>3. CASE Start(w)
  <2>1. PICK k \in StartKeys : Goto(w, "insert", [NoJob EXCEPT !.key = k])
    BY <1>3 DEF Start
  <2>2. JobInTurn("insert", [NoJob EXCEPT !.key = k])
    BY DEF NoJob
  <2>. QED BY <1>2, <2>1, <2>2
<1>4. CASE Dispatch(w)
  <2>1. PICK f \in Flows, s \in Steps : Goto(w, "dispatch", [NoJob EXCEPT !.f = f, !.s = s])
    BY <1>4 DEF Dispatch
  <2>2. JobInTurn("dispatch", [NoJob EXCEPT !.f = f, !.s = s])
    BY DEF NoJob
  <2>. QED BY <1>2, <2>1, <2>2
<1>5. CASE SignalFlow(w)
  <2>1. PICK f \in Flows, e \in Events, k \in SignalKeys :
          Goto(w, "record", [NoJob EXCEPT !.f = f, !.ev = e, !.key = k])
    BY <1>5 DEF SignalFlow
  <2>2. JobInTurn("record", [NoJob EXCEPT !.f = f, !.ev = e, !.key = k])
    BY DEF NoJob
  <2>. QED BY <1>2, <2>1, <2>2
<1>6. CASE Decide(w)
  <2>1. PICK t \in Tasks, verdict \in Verdicts :
          /\ tasks[t].status = "OPEN"
          /\ Goto(w, "decide", [NoJob EXCEPT !.task = t, !.to = verdict,
                                             !.f = tasks[t].f, !.s = tasks[t].s])
    BY <1>6 DEF Decide, Decidable
  <2>2. PICK j : j = [NoJob EXCEPT !.task = t, !.to = verdict,
                                   !.f = tasks[t].f, !.s = tasks[t].s]
    OBVIOUS
  <2>3. JobInTurn("decide", j)
    BY <2>1, <2>2 DEF NoJob
  <2>. QED BY <1>2, <2>1, <2>2, <2>3
<1>7. CASE Suspend(w) \/ Resume(w) \/ Recover(w)
  <2>1. PICK f \in Flows, l \in {"suspend", "resume", "recover"} :
          /\ l = "suspend" => flow[f].state \notin {"FAILED", "COMPLETED"}
          /\ l = "resume" => flow[f].state = "SUSPENDED"
          /\ l = "recover" => flow[f].state \in {"FAILED", "RETRY_PENDING"}
          /\ Goto(w, l, [NoJob EXCEPT !.f = f])
    BY <1>7 DEF Suspend, Resume, Recover
  <2>2. JobInTurn(l, [NoJob EXCEPT !.f = f])
    BY <2>1 DEF NoJob
  <2>. QED BY <1>2, <2>1, <2>2
<1>. QED BY <1>3, <1>4, <1>5, <1>6, <1>7 DEF Request

(* A request that goes on with what it carries, having read some more.     *)
LEMMA ReadingTurn ==
  ASSUME IInv, TurnInv, NEW w \in Workers,
         \/ EvalReadFlow(w) \/ EvalReadSteps(w) \/ Refresh(w)
         \/ DispatchReadStep(w) \/ CompleteRead(w) \/ FailRead(w)
         \/ ScanWaiting(w) \/ RecoverRead(w)
  PROVE  JobInTurn(pc[w], job[w])'
<1>0. PICK l \in Labels, i \in JobRec : l = pc[w] /\ i = job[w] /\ JobInTurn(l, i)
  BY DEF IInv, TypeOK, TurnInv
<1>1. UNCHANGED <<flow, step, tasks, ran>>
  BY DEF EvalReadFlow, EvalReadSteps, Refresh, DispatchReadStep, CompleteRead, FailRead,
         ScanWaiting, RecoverRead, store
<1>2. ASSUME NEW k, NEW j, Goto(w, k, j), JobInTurn(k, j) PROVE JobInTurn(pc[w], job[w])'
  BY <1>1, <1>2, ReadsTurn, TurnOf DEF Goto, IInv, TypeOK
<1>3. ASSUME Return(w), l \in {"eval", "promote"} PROVE JobInTurn(pc[w], job[w])'
  <2>1. \A s \in job[w].todo : step'[job[w].f][s].state = "WAITING_EVENT"
    BY <1>0, <1>1 DEF JobInTurn, TodoRead
  <2>2. StepsInTurn' /\ pc[w] \in HoldsFlow
    BY <1>0, <1>1, <1>3, ReadsTurn DEF Documents, HoldsFlow
  <2>. QED BY <1>3, <2>1, <2>2, ReturnTurn
<1>a. /\ l \in HoldsFlow => i.f \in Flows /\ step[i.f] \in [Steps -> StepRec]
                            /\ flow[i.f].state \in FlowStates
      /\ l \in HoldsStep => i.s \in Steps /\ i.f \in Flows /\ step[i.f][i.s] \in StepRec
  BY <1>0, InFlight DEF IInv, TypeOK, FlowRec
<1> USE DEF JobInTurn, FlowRead, StepRead, TaskRead, TodoRead, Evaluating
<1>4. CASE EvalReadFlow(w) \/ EvalReadSteps(w)
  <2>1. CASE EvalReadFlow(w) /\ flow[i.f].state \in Halted
    BY <1>0, <1>3, <2>1 DEF EvalReadFlow
  <2>2. CASE EvalReadFlow(w) /\ flow[i.f].state \notin Halted
    <3>1. PICK j : j = [i EXCEPT !.seen = flow[i.f].state]
      OBVIOUS
    <3>2. l = "eval" /\ Goto(w, "evalSteps", j)
      BY <1>0, <2>2, <3>1 DEF EvalReadFlow
    <3>3. j.f = i.f /\ j.todo = i.todo /\ j.seen = flow[i.f].state
      BY <3>1 DEF JobRec
    <3>4. JobInTurn("evalSteps", j)
      BY <1>0, <2>2, <3>2, <3>3
    <3>. QED BY <1>2, <3>2, <3>4
  <2>3. CASE EvalReadSteps(w)
    <3>1. PICK j : j = [i EXCEPT !.snap = step[i.f]]
      OBVIOUS
    <3>2. l = "evalSteps" /\ Goto(w, "promote", j)
      BY <1>0, <2>3, <3>1 DEF EvalReadSteps
    <3>3. j.f = i.f /\ j.todo = i.todo /\ j.seen = i.seen /\ j.snap = step[i.f]
      BY <3>1 DEF JobRec
    <3>4. JobInTurn("promote", j)
      BY <1>0, <3>2, <3>3
    <3>. QED BY <1>2, <3>2, <3>4
  <2>. QED BY <1>4, <2>1, <2>2, <2>3
<1>5. CASE Refresh(w)
  <2>1. CASE Summary(step[i.f]) = i.seen
    BY <1>0, <1>3, <1>5, <2>1 DEF Refresh
  <2>2. CASE Summary(step[i.f]) # i.seen
    <3>1. PICK j : j = [i EXCEPT !.to = Summary(step[i.f]), !.cur = 1,
                                 !.snap = NoJob.snap, !.seen = "none"]
      OBVIOUS
    <3>2. l = "promote" /\ Goto(w, "settle", j)
      BY <1>0, <1>5, <2>2, <3>1 DEF Refresh
    <3>3. j.f = i.f /\ j.todo = i.todo /\ j.to = Summary(step[i.f])
      BY <3>1 DEF JobRec
    <3>4. JobInTurn("settle", j)
      BY <1>0, <3>2, <3>3
    <3>. QED BY <1>2, <3>2, <3>4
  <2>. QED BY <2>1, <2>2
<1>6. CASE DispatchReadStep(w) \/ CompleteRead(w) \/ FailRead(w)
  <2>1. l \in HoldsStep
    BY <1>0, <1>6 DEF DispatchReadStep, CompleteRead, FailRead, HoldsStep
  <2>2. PICK r \in StepRec : r = step[i.f][i.s]
    BY <1>a, <2>1
  <2>3. CASE Finish(w)
    BY <2>3, FinishTurn
  <2>4. CASE ~Finish(w)
    <3>1. PICK j : j = [i EXCEPT !.rec = r]
      OBVIOUS
    <3>2. PICK k \in {"begin", "completeWrite", "failWrite"} :
            /\ Goto(w, k, j)
            /\ k = "begin" => l = "dispatch" /\ r.state = "READY"
            /\ k = "completeWrite" => l = "complete" /\ r.state \in Completable
            /\ k = "failWrite" => l = "fail"
      BY <1>0, <1>6, <2>2, <2>4, <3>1 DEF DispatchReadStep, CompleteRead, FailRead
    <3>3. j.f = i.f /\ j.s = i.s /\ j.todo = i.todo /\ j.rec = r
      BY <3>1 DEF JobRec
    <3>4. JobInTurn(k, j)
      BY <1>0, <2>2, <3>2, <3>3
    <3>. QED BY <1>2, <3>2, <3>4
  <2>. QED BY <2>3, <2>4
<1>7. CASE ScanWaiting(w)
  <2> DEFINE waiting == {s \in Steps : /\ step[i.f][s].state = "WAITING_EVENT"
                                       /\ Awaits(s, i.ev)}
  <2>1. CASE Goto(w, "eval", [NoJob EXCEPT !.f = i.f])
    <3>1. JobInTurn("eval", [NoJob EXCEPT !.f = i.f])
      BY DEF NoJob
    <3>. QED BY <1>2, <2>1, <3>1
  <2>2. CASE \E s \in waiting :
               Goto(w, "complete", [NoJob EXCEPT !.f = i.f, !.s = s, !.ev = i.ev,
                                                 !.todo = waiting \ {s}, !.again = TRUE])
    <3>0. PICK s \in waiting :
            Goto(w, "complete", [NoJob EXCEPT !.f = i.f, !.s = s, !.ev = i.ev,
                                              !.todo = waiting \ {s}, !.again = TRUE])
      BY <2>2
    <3>1. PICK j :
            /\ j = [NoJob EXCEPT !.f = i.f, !.s = s, !.ev = i.ev,
                                 !.todo = waiting \ {s}, !.again = TRUE]
            /\ Goto(w, "complete", j)
      BY <3>0
    <3>2. j.f = i.f /\ j.s = s /\ j.todo = waiting \ {s}
      BY <3>1 DEF NoJob
    <3>3. i.f \in Flows /\ Kind[s] # "human" /\ NoneOpen(i.f, s)
      BY <1>0, <1>7, <1>a DEF ScanWaiting, HoldsFlow, Labels, Awaits, TurnInv, StepsInTurn
    <3>4. JobInTurn("complete", j)
      BY <3>2, <3>3 DEF Completable
    <3>. QED BY <1>2, <3>1, <3>4
  <2>. QED BY <1>0, <1>7, <2>1, <2>2 DEF ScanWaiting
<1>8. CASE RecoverRead(w)
  <2>1. CASE Finish(w)
    BY <2>1, FinishTurn
  <2>2. CASE ~Finish(w)
    <3>1. PICK s \in Steps :
            /\ l = "recover" /\ step[i.f][s].state \in {"FAILED", "READY"}
            /\ Goto(w, "recoverWrite", [NoJob EXCEPT !.f = i.f, !.s = s, !.rec = step[i.f][s]])
      BY <1>0, <1>8, <2>2 DEF RecoverRead
    <3>2. PICK j : j = [NoJob EXCEPT !.f = i.f, !.s = s, !.rec = step[i.f][s]]
      OBVIOUS
    <3>3. j.f = i.f /\ j.s = s /\ j.rec = step[i.f][s] /\ j.todo = {}
      BY <3>2 DEF NoJob
    <3>4. JobInTurn("recoverWrite", j)
      BY <1>0, <3>1, <3>3
    <3>. QED BY <1>2, <3>1, <3>2, <3>4
  <2>. QED BY <2>1, <2>2
<1>. QED BY <1>4, <1>5, <1>6, <1>7, <1>8

(* A write of one step that is not final, by a request that has the step   *)
(* as it is.                                                               *)
LEMMA StepTurn ==
  ASSUME IInv, IInv', TurnInv, NEW f \in Flows, NEW s \in Steps, NEW r \in StepRec,
         PutStep(f, s, r), UNCHANGED <<tasks, ran>>,
         step[f][s].state \notin Final, step[f][s].attempts <= r.attempts,
         r.state # "WAITING_HUMAN", NoneOpen(f, s),
         Kind[s] = "human" /\ r.state = "COMPLETED" => Approved(f, s),
         \/ flow' = flow /\ step[f][s].state # "FAILED"
         \/ /\ \A g \in Flows \ {f} : flow'[g] = flow[g]
            /\ flow'[f].state \in {"READY", "RETRY_PENDING", "FAILED"}
            /\ flow'[f].state = "FAILED" => r.state = "FAILED"
  PROVE  Documents' /\ FinalKept /\ HaltKept
<1>1. /\ step'[f][s] = r
      /\ \A g \in Flows, t \in Steps : g # f \/ t # s => step'[g][t] = step[g][t]
  BY PutStepType DEF IInv, TypeOK
<1>2. \A g, t : (NoneOpen(g, t)' <=> NoneOpen(g, t)) /\ (Approved(g, t)' <=> Approved(g, t))
  BY DEF NoneOpen, Approved
<1>3. step[f][s].attempts \in Nat /\ r.attempts \in Nat /\ ran[f][s] \in Nat
  BY DEF IInv, TypeOK, StepRec
<1>4. FinalKept
  BY <1>1 DEF FinalKept
<1>5. flow[f].state # "COMPLETED"
  BY DEF TurnInv, FlowsInTurn
<1>6. HaltKept
  BY <1>5 DEF HaltKept
<1>7. TasksInTurn'
  BY DEF TurnInv, TasksInTurn
<1>8. StepsInTurn'
  BY <1>1, <1>2, <1>3 DEF TurnInv, StepsInTurn
<1>9. FlowsInTurn'
  <2>1. ASSUME NEW g \in Flows, flow'[g].state = "COMPLETED"
        PROVE  \A t \in Steps : step'[g][t].state \in Final
    BY <1>1, <1>5, <2>1 DEF TurnInv, FlowsInTurn
  <2>2. ASSUME NEW g \in Flows, flow'[g].state = "FAILED"
        PROVE  \E t \in Steps : step'[g][t].state = "FAILED"
    <3>1. CASE g = f /\ r.state = "FAILED"
      BY <1>1, <3>1
    <3>2. CASE g # f \/ (flow' = flow /\ step[f][s].state # "FAILED")
      <4>1. PICK t \in Steps : step[g][t].state = "FAILED"
        BY <2>2, <3>2 DEF TurnInv, FlowsInTurn
      <4>2. step'[g][t] = step[g][t]
        BY <1>1, <3>2, <4>1
      <4>. QED BY <4>1, <4>2
    <3>. QED BY <2>2, <3>1, <3>2
  <2>. QED BY <2>1, <2>2 DEF FlowsInTurn
<1>. QED BY <1>4, <1>6, <1>7, <1>8, <1>9 DEF Documents

(* A write of the state of a flow alone.                                   *)
LEMMA StateTurn ==
  ASSUME IInv, TurnInv, NEW f \in Flows, UNCHANGED <<step, tasks, ran>>,
         \A g \in Flows \ {f} : flow'[g] = flow[g],
         flow'[f].state \notin {"FAILED", "none"},
         flow'[f].state = "COMPLETED" => \A s \in Steps : step[f][s].state \in Final,
         flow[f].state # "COMPLETED",
         flow[f].state = "SUSPENDED" => flow'[f].state \in {"SUSPENDED", "READY"}
  PROVE  Documents' /\ FinalKept /\ HaltKept
<1>1. \A g, t : (NoneOpen(g, t)' <=> NoneOpen(g, t)) /\ (Approved(g, t)' <=> Approved(g, t))
  BY DEF NoneOpen, Approved
<1>2. StepsInTurn' /\ TasksInTurn'
  BY <1>1 DEF TurnInv, StepsInTurn, TasksInTurn
<1>3. FlowsInTurn'
  BY DEF TurnInv, FlowsInTurn
<1>. QED BY <1>2, <1>3 DEF Documents, FinalKept, HaltKept

(* What a flow is when all its steps are completed or skipped.             *)
LEMMA SummaryCompleted ==
  ASSUME NEW st \in [Steps -> StepRec]
  PROVE  /\ Summary(st) \in Summaries
         /\ Summary(st) = "COMPLETED" <=> \A s \in Steps : st[s].state \in Final
  BY DEF Summary, Summaries, Final

LEMMA FlowWritesTurn ==
  ASSUME IInv, TurnInv, NEW w \in Workers,
         InsertFlow(w) \/ Settle(w) \/ SuspendWrite(w) \/ ResumeWrite(w)
  PROVE  Documents' /\ FinalKept /\ HaltKept /\ JobInTurn(pc[w], job[w])'
<1>0. PICK l \in Labels, i \in JobRec : l = pc[w] /\ i = job[w] /\ JobInTurn(l, i)
  BY DEF IInv, TypeOK, TurnInv
<1>1. UNCHANGED <<step, tasks, ran>>
  BY DEF InsertFlow, Settle, SuspendWrite, ResumeWrite
<1>2. CASE InsertFlow(w)
  <2>1. PICK f \in Flows, lev \in Levels :
          /\ flow[f].state = "none" /\ l = "insert" /\ Evaluate(w, f)
          /\ flow' = [flow EXCEPT ![f] = [state |-> "READY", key |-> i.key, level |-> lev]]
    BY <1>0, <1>2 DEF InsertFlow, Exists
  <2>2. flow'[f].state = "READY" /\ \A g \in Flows \ {f} : flow'[g] = flow[g]
    BY <2>1 DEF IInv, TypeOK
  <2>3. i.todo = {}
    BY <1>0, <2>1 DEF JobInTurn, TodoRead, Evaluating
  <2>4. JobInTurn(pc[w], job[w])'
    BY <1>0, <2>1, <2>3, EvaluateTurn
  <2>. QED BY <1>1, <2>1, <2>2, <2>4, StateTurn
<1>3. CASE Settle(w)
  <2>1. l = "settle" /\ PutState(i.f, i.to) /\ Return(w) /\ i.f \in Flows
    BY <1>0, <1>3, InFlight DEF Settle, HoldsFlow, Labels
  <2>2. /\ step[i.f] \in [Steps -> StepRec]
        /\ i.to = Summary(step[i.f]) /\ flow[i.f].state \notin Halted
    BY <1>0, <2>1 DEF JobInTurn, FlowRead, IInv, TypeOK
  <2>3. /\ i.to \in Summaries
        /\ i.to = "COMPLETED" => \A s \in Steps : step[i.f][s].state \in Final
    BY <2>2, SummaryCompleted
  <2>4. flow'[i.f].state = i.to /\ \A g \in Flows \ {i.f} : flow'[g] = flow[g]
    BY <2>1, <2>3, PutStateType DEF IInv, TypeOK, Summaries, FlowStates
  <2>5. Documents' /\ FinalKept /\ HaltKept
    BY <1>1, <2>1, <2>2, <2>3, <2>4, StateTurn DEF Halted, Summaries
  <2>6. \A s \in i.todo : step'[i.f][s].state = "WAITING_EVENT"
    BY <1>0, <1>1 DEF JobInTurn, TodoRead
  <2>7. JobInTurn(pc[w], job[w])'
    BY <1>0, <2>1, <2>5, <2>6, ReturnTurn DEF Documents, HoldsFlow, Labels
  <2>. QED BY <2>5, <2>7
<1>4. CASE SuspendWrite(w) \/ ResumeWrite(w)
  <2>1. PICK st \in {"SUSPENDED", "READY"} :
          /\ PutState(i.f, st) /\ i.f \in Flows
          /\ \/ l = "suspend" /\ st = "SUSPENDED" /\ Finish(w)
             \/ l = "resume" /\ st = "READY" /\ Evaluate(w, i.f)
    BY <1>0, <1>4, InFlight DEF SuspendWrite, ResumeWrite, HoldsFlow, Labels
  <2>2. flow'[i.f].state = st /\ \A g \in Flows \ {i.f} : flow'[g] = flow[g]
    BY <2>1, PutStateType DEF IInv, TypeOK, FlowStates
  <2>3. flow[i.f].state # "COMPLETED" /\ i.todo = {}
    BY <1>0, <2>1 DEF JobInTurn, FlowRead, TodoRead, Evaluating
  <2>4. JobInTurn(pc[w], job[w])'
    BY <1>0, <2>1, <2>3, FinishTurn, EvaluateTurn
  <2>. QED BY <1>1, <2>1, <2>2, <2>3, <2>4, StateTurn
<1>. QED BY <1>2, <1>3, <1>4

(* evaluate promotes from a list of steps that is still as it read it.     *)
LEMMA PromoteTurn ==
  ASSUME IInv, IInv', TurnInv, NEW w \in Workers, Promote(w)
  PROVE  Documents' /\ FinalKept /\ HaltKept /\ JobInTurn(pc[w], job[w])'
<1>0. PICK i \in JobRec :
        i = job[w] /\ pc[w] = "promote" /\ JobInTurn("promote", i) /\ i.f \in Flows
  BY InFlight DEF IInv, TypeOK, TurnInv, Promote, HoldsFlow, Labels
<1>a. PICK s \in NextPromotion(w) : \E r :
        /\ r = [i.snap[s] EXCEPT !.state = Promoted(i.f, s)]
        /\ PutStep(i.f, s, r)
        /\ Goto(w, "promote", [i EXCEPT !.snap[s] = r, !.cur = s + 1])
        /\ UNCHANGED <<flow, tasks, signals, ran, emitted>>
  BY <1>0 DEF Promote
<1>1. PICK r :
        /\ r = [i.snap[s] EXCEPT !.state = Promoted(i.f, s)]
        /\ PutStep(i.f, s, r)
        /\ Goto(w, "promote", [i EXCEPT !.snap[s] = r, !.cur = s + 1])
        /\ UNCHANGED <<flow, tasks, signals, ran, emitted>>
  BY <1>a
<1>2. /\ s \in Steps /\ i.snap = step[i.f] /\ step[i.f] \in [Steps -> StepRec]
      /\ step[i.f][s].state = "PENDING" /\ i.snap[s] \in StepRec
  BY <1>0, <1>1 DEF NextPromotion, Promotable, JobInTurn, StepRead, IInv, TypeOK
<1>3. r.state \in {"READY", "SKIPPED"} /\ r.attempts = step[i.f][s].attempts /\ r \in StepRec
  BY <1>1, <1>2 DEF Promoted, StepRec, StepStates
<1>4. NoneOpen(i.f, s)
  BY <1>0, <1>2 DEF TurnInv, StepsInTurn
<1>5. r.attempts \in Nat
  BY <1>3 DEF StepRec
<1>6. Documents' /\ FinalKept /\ HaltKept
  <2>1. step[i.f][s].attempts <= r.attempts /\ step[i.f][s].state \notin Final
    BY <1>2, <1>3, <1>5 DEF Final
  <2>2. r.state # "WAITING_HUMAN" /\ r.state # "COMPLETED" /\ step[i.f][s].state # "FAILED"
    BY <1>2, <1>3
  <2>. QED BY <1>0, <1>1, <1>2, <1>3, <1>4, <2>1, <2>2, StepTurn
<1>7. PICK j : j = [i EXCEPT !.snap[s] = r, !.cur = s + 1]
  OBVIOUS
<1>8. /\ j.f = i.f /\ j.seen = i.seen /\ j.todo = i.todo
      /\ j.snap = [i.snap EXCEPT ![s] = r]
  BY <1>7 DEF JobRec
<1>9. step'[i.f] = [step[i.f] EXCEPT ![s] = r]
  BY <1>0, <1>1, <1>2 DEF PutStep, IInv, TypeOK
<1>10. \A t \in i.todo : step'[i.f][t].state = "WAITING_EVENT"
  <2>1. \A t \in i.todo : t \in Steps /\ t # s /\ step[i.f][t].state = "WAITING_EVENT"
    BY <1>0, <1>2 DEF JobInTurn, TodoRead, JobRec
  <2>. QED BY <1>2, <1>9, <2>1
<1>11. JobInTurn("promote", j)'
  <2>1. FlowRead("promote", j)'
    <3>1. flow' = flow /\ FlowRead("promote", i)
      BY <1>0, <1>1 DEF JobInTurn
    <3>. QED BY <1>8, <3>1 DEF FlowRead
  <2>2. StepRead("promote", j)'
    <3>1. j.snap = step'[j.f]
      BY <1>2, <1>8, <1>9
    <3>. QED BY <3>1 DEF StepRead
  <2>3. TaskRead("promote", j)'
    BY DEF TaskRead
  <2>4. TodoRead("promote", j)'
    BY <1>8, <1>10 DEF TodoRead, Evaluating
  <2>. QED BY <2>1, <2>2, <2>3, <2>4 DEF JobInTurn
<1>12. pc'[w] = "promote" /\ job'[w] = j
  BY <1>1, <1>7 DEF Goto, IInv, TypeOK
<1>. QED BY <1>6, <1>11, <1>12, TurnOf

(* dispatch makes a READY step RUNNING, which is one more attempt.         *)
LEMMA BeginTurn ==
  ASSUME IInv, IInv', TurnInv, NEW w \in Workers, BeginStep(w)
  PROVE  Documents' /\ FinalKept /\ HaltKept /\ JobInTurn(pc[w], job[w])'
<1>0. PICK i \in JobRec :
        /\ i = job[w] /\ pc[w] = "begin" /\ JobInTurn("begin", i)
        /\ i.f \in Flows /\ i.s \in Steps
  BY InFlight DEF IInv, TypeOK, TurnInv, BeginStep, HoldsFlow, HoldsStep, Labels
<1>1. PICK r : r = [i.rec EXCEPT !.state = "RUNNING", !.attempts = @ + 1]
  OBVIOUS
<1>2. /\ i.rec = step[i.f][i.s] /\ i.rec \in StepRec /\ i.rec.state = "READY"
  BY <1>0 DEF JobInTurn, StepRead, JobRec
<1>3. /\ r \in StepRec /\ r.state = "RUNNING" /\ r.attempts = step[i.f][i.s].attempts + 1
      /\ step[i.f][i.s].attempts \in Nat
  <2>1. PICK old \in StepRec : old = i.rec
    BY <1>2
  <2>2. old.attempts \in Nat /\ old.attempts + 1 \in Nat /\ old.error \in BOOLEAN
    BY DEF StepRec
  <2>3. r = [old EXCEPT !.state = "RUNNING", !.attempts = @ + 1]
    BY <1>1, <2>1
  <2>4. r.state = "RUNNING" /\ r.attempts = old.attempts + 1
    BY <2>3 DEF StepRec
  <2>5. r \in StepRec
    BY <2>2, <2>3 DEF StepRec, StepStates
  <2>. QED BY <1>2, <2>1, <2>2, <2>4, <2>5
<1>4. /\ PutStep(i.f, i.s, r) /\ UNCHANGED <<flow, tasks, signals, ran, emitted>>
      /\ Goto(w, Route(i.s),
              IF Route(i.s) = "idle" THEN NoJob
              ELSE [NoJob EXCEPT !.f = i.f, !.s = i.s,
                      !.rec = IF Route(i.s) = "wait" THEN r ELSE NoJob.rec])
  BY <1>0, <1>1 DEF BeginStep, Started
<1>5. NoneOpen(i.f, i.s)
  BY <1>0, <1>2 DEF TurnInv, StepsInTurn
<1>6. step[i.f][i.s].attempts <= r.attempts /\ ran[i.f][i.s] < r.attempts
  <2>1. ran[i.f][i.s] \in Nat /\ ran[i.f][i.s] <= step[i.f][i.s].attempts
    BY <1>0 DEF TurnInv, StepsInTurn, IInv, TypeOK
  <2>. QED BY <1>3, <2>1
<1>7. Documents' /\ FinalKept /\ HaltKept
  BY <1>0, <1>2, <1>3, <1>4, <1>5, <1>6, StepTurn DEF Final
<1>8. step'[i.f][i.s] = r
  BY <1>0, <1>3, <1>4, PutStepType DEF IInv, TypeOK
<1>9. CASE Route(i.s) = "idle"
  BY <1>4, <1>7, <1>9, FinishTurn DEF Finish
<1>10. CASE Route(i.s) # "idle"
  <2>1. PICK l \in {"wait", "handle", "complete"} : l = Route(i.s)
    BY <1>0, <1>10, DefinitionAssumption DEF Route, StepKinds
  <2>2. PICK j : j = [NoJob EXCEPT !.f = i.f, !.s = i.s,
                                   !.rec = IF Route(i.s) = "wait" THEN r ELSE NoJob.rec]
    OBVIOUS
  <2>3. j.f = i.f /\ j.s = i.s /\ j.todo = {} /\ (l = "wait" => j.rec = r)
    BY <2>1, <2>2 DEF NoJob
  <2>4. pc'[w] = l /\ job'[w] = j
    BY <1>4, <1>10, <2>1, <2>2 DEF Goto, IInv, TypeOK
  <2>5. NoneOpen(j.f, j.s)'
    BY <1>4, <1>5, <2>3 DEF NoneOpen
  <2>6. l = "complete" => Kind[j.s] # "human"
    BY <1>0, <2>1, <2>3 DEF Route
  <2>7. /\ step'[j.f][j.s] = r /\ ran'[j.f][j.s] < r.attempts
    BY <1>4, <1>6, <1>8, <2>3
  <2>8. FlowRead(l, j)' /\ TodoRead(l, j)'
    BY <2>1, <2>3 DEF FlowRead, TodoRead
  <2>9. StepRead(l, j)'
    BY <1>3, <2>1, <2>3, <2>7 DEF StepRead, Completable
  <2>10. TaskRead(l, j)'
    BY <2>1, <2>5, <2>6 DEF TaskRead, NoneOpen
  <2>11. JobInTurn(l, j)'
    BY <2>8, <2>9, <2>10 DEF JobInTurn
  <2>. QED BY <1>7, <2>4, <2>11, TurnOf
<1>. QED BY <1>7, <1>9, <1>10

(* A step that waits for an event.                                         *)
LEMMA AwaitEventTurn ==
  ASSUME IInv, IInv', TurnInv, NEW w \in Workers, AwaitEvent(w)
  PROVE  Documents' /\ FinalKept /\ HaltKept /\ JobInTurn(pc[w], job[w])'
<1>0. PICK i \in JobRec :
        /\ i = job[w] /\ pc[w] = "wait" /\ JobInTurn("wait", i)
        /\ i.f \in Flows /\ i.s \in Steps
  BY InFlight DEF IInv, TypeOK, TurnInv, AwaitEvent, HoldsFlow, HoldsStep, Labels
<1>1. PICK r : r = [i.rec EXCEPT !.state = "WAITING_EVENT"]
  OBVIOUS
<1>2. i.rec = step[i.f][i.s] /\ i.rec \in StepRec /\ i.rec.state = "RUNNING" /\ i.todo = {}
  BY <1>0 DEF JobInTurn, StepRead, TodoRead, Evaluating, JobRec
<1>3. /\ r \in StepRec /\ r.state = "WAITING_EVENT" /\ r.attempts = step[i.f][i.s].attempts
      /\ r.attempts \in Nat
  BY <1>1, <1>2 DEF StepRec, StepStates
<1>4. /\ PutStep(i.f, i.s, r) /\ UNCHANGED <<flow, tasks, ran>> /\ Evaluate(w, i.f)
  BY <1>0, <1>1 DEF AwaitEvent
<1>5. NoneOpen(i.f, i.s)
  BY <1>0, <1>2 DEF TurnInv, StepsInTurn
<1>6. Documents' /\ FinalKept /\ HaltKept
  BY <1>0, <1>2, <1>3, <1>4, <1>5, StepTurn DEF Final
<1>. QED BY <1>0, <1>2, <1>4, <1>6, EvaluateTurn

(* A step that waits for a person: the step had no open task, and gets one.*)
LEMMA AwaitHumanTurn ==
  ASSUME IInv, TurnInv, NEW w \in Workers, AwaitHuman(w)
  PROVE  Documents' /\ FinalKept /\ HaltKept /\ JobInTurn(pc[w], job[w])'
<1>0. PICK i \in JobRec :
        /\ i = job[w] /\ pc[w] = "wait" /\ JobInTurn("wait", i)
        /\ i.f \in Flows /\ i.s \in Steps
  BY InFlight DEF IInv, TypeOK, TurnInv, AwaitHuman, HoldsFlow, HoldsStep, Labels
<1>1. PICK r : r = [i.rec EXCEPT !.state = "WAITING_HUMAN"]
  OBVIOUS
<1>2. i.rec = step[i.f][i.s] /\ i.rec \in StepRec /\ i.rec.state = "RUNNING" /\ i.todo = {}
  BY <1>0 DEF JobInTurn, StepRead, TodoRead, Evaluating, JobRec
<1>3. /\ r \in StepRec /\ r.state = "WAITING_HUMAN" /\ r.attempts = step[i.f][i.s].attempts
  BY <1>1, <1>2 DEF StepRec, StepStates
<1>4. PICK t \in Tasks :
        /\ tasks[t].status = "none"
        /\ tasks' = [tasks EXCEPT ![t] = [status |-> "OPEN", f |-> i.f, s |-> i.s]]
        /\ PutStep(i.f, i.s, r) /\ UNCHANGED <<flow, ran>> /\ Evaluate(w, i.f)
  BY <1>0, <1>1 DEF AwaitHuman
<1>5. /\ step'[i.f][i.s] = r
      /\ \A g \in Flows, x \in Steps : g # i.f \/ x # i.s => step'[g][x] = step[g][x]
  BY <1>0, <1>3, <1>4, PutStepType DEF IInv, TypeOK
<1>6. /\ tasks'[t] = [status |-> "OPEN", f |-> i.f, s |-> i.s]
      /\ \A u \in Tasks \ {t} : tasks'[u] = tasks[u]
  BY <1>4 DEF IInv, TypeOK
<1>7. NoneOpen(i.f, i.s)
  BY <1>0, <1>2 DEF TurnInv, StepsInTurn
<1>8. FinalKept /\ HaltKept
  BY <1>2, <1>4, <1>5 DEF FinalKept, HaltKept, Final
<1>9. TasksInTurn'
  <2>1. ASSUME NEW u \in Tasks, NEW v \in Tasks, tasks'[u].status = "OPEN", tasks'[v] = tasks'[u]
        PROVE  u = v
    <3>1. \A x \in Tasks \ {t} : tasks'[x].status = "OPEN" => ~(tasks'[x].f = i.f /\ tasks'[x].s = i.s)
      BY <1>6, <1>7 DEF NoneOpen
    <3>2. CASE u = t \/ v = t
      BY <1>6, <2>1, <3>1, <3>2
    <3>3. CASE u # t /\ v # t
      BY <1>6, <2>1, <3>3 DEF TurnInv, TasksInTurn
    <3>. QED BY <3>2, <3>3
  <2>. QED BY <2>1 DEF TasksInTurn
<1>10. StepsInTurn'
  <2>1. ASSUME NEW g \in Flows, NEW x \in Steps
        PROVE  /\ ran'[g][x] <= step'[g][x].attempts
               /\ step'[g][x].state = "WAITING_HUMAN"
                    => \E u \in Tasks : /\ tasks'[u].f = g /\ tasks'[u].s = x
                                       /\ tasks'[u].status # "none"
               /\ step'[g][x].state # "WAITING_HUMAN" => NoneOpen(g, x)'
               /\ Kind[x] = "human" /\ step'[g][x].state = "COMPLETED" => Approved(g, x)'
    <3>1. CASE g = i.f /\ x = i.s
      BY <1>3, <1>4, <1>5, <1>6, <3>1 DEF TurnInv, StepsInTurn
    <3>2. CASE g # i.f \/ x # i.s
      <4>1. step'[g][x] = step[g][x] /\ ran'[g][x] = ran[g][x]
        BY <1>4, <1>5, <3>2
      <4>2. NoneOpen(g, x) => NoneOpen(g, x)'
        BY <1>6, <3>2 DEF NoneOpen
      <4>3. Approved(g, x) => Approved(g, x)'
        BY <1>4, <1>6 DEF Approved
      <4>4. (\E u \in Tasks : tasks[u].f = g /\ tasks[u].s = x /\ tasks[u].status # "none")
              => \E u \in Tasks : tasks'[u].f = g /\ tasks'[u].s = x /\ tasks'[u].status # "none"
        BY <1>4, <1>6
      <4>. QED BY <4>1, <4>2, <4>3, <4>4 DEF TurnInv, StepsInTurn
    <3>. QED BY <3>1, <3>2
  <2>. QED BY <2>1 DEF StepsInTurn
<1>11. FlowsInTurn'
  <2>1. ASSUME NEW g \in Flows, flow'[g].state = "COMPLETED"
        PROVE  \A x \in Steps : step'[g][x].state \in Final
    BY <1>0, <1>2, <1>4, <1>5, <2>1 DEF TurnInv, FlowsInTurn, Final
  <2>2. ASSUME NEW g \in Flows, flow'[g].state = "FAILED"
        PROVE  \E x \in Steps : step'[g][x].state = "FAILED"
    <3>1. PICK x \in Steps : step[g][x].state = "FAILED"
      BY <1>4, <2>2 DEF TurnInv, FlowsInTurn
    <3>2. step'[g][x] = step[g][x]
      BY <1>2, <1>5, <3>1
    <3>. QED BY <3>1, <3>2
  <2>. QED BY <2>1, <2>2 DEF FlowsInTurn
<1>12. JobInTurn(pc[w], job[w])'
  BY <1>0, <1>2, <1>4, EvaluateTurn
<1>. QED BY <1>8, <1>9, <1>10, <1>11, <1>12 DEF Documents

(* The handler of the step runs: its attempt is already on record.         *)
LEMMA HandlerTurn ==
  ASSUME IInv, IInv', TurnInv, NEW w \in Workers, RunHandler(w)
  PROVE  Documents' /\ FinalKept /\ HaltKept /\ JobInTurn(pc[w], job[w])'
<1>0. PICK i \in JobRec :
        /\ i = job[w] /\ pc[w] = "handle" /\ JobInTurn("handle", i)
        /\ i.f \in Flows /\ i.s \in Steps /\ Kind[i.s] = "handler"
  BY InFlight DEF IInv, TypeOK, TurnInv, RunHandler, HoldsFlow, HoldsStep, Labels,
                  JobSound, CauseSound
<1>1. /\ ran' = [ran EXCEPT ![i.f][i.s] = @ + 1]
      /\ UNCHANGED <<flow, step, tasks>>
  BY <1>0 DEF RunHandler
<1>2. PICK l \in {"complete", "fail"} : Goto(w, l, i)
  BY <1>0 DEF RunHandler
<1>3. /\ step[i.f][i.s].state = "RUNNING" /\ i.todo = {}
      /\ ran[i.f][i.s] < step[i.f][i.s].attempts
  BY <1>0 DEF JobInTurn, StepRead, TodoRead, Evaluating
<1>4. \A g, t : (NoneOpen(g, t)' <=> NoneOpen(g, t)) /\ (Approved(g, t)' <=> Approved(g, t))
  BY <1>1 DEF NoneOpen, Approved
<1>5. \A g \in Flows, t \in Steps : ran'[g][t] <= step[g][t].attempts
  <2>1. ASSUME NEW g \in Flows, NEW t \in Steps PROVE ran'[g][t] <= step[g][t].attempts
    <3>1. step[g][t].attempts \in Nat /\ ran[g][t] \in Nat /\ ran[g][t] <= step[g][t].attempts
      BY DEF IInv, TypeOK, StepRec, TurnInv, StepsInTurn
    <3>2. ran'[g][t] = IF g = i.f /\ t = i.s THEN ran[g][t] + 1 ELSE ran[g][t]
      BY <1>0, <1>1 DEF IInv, TypeOK
    <3>. QED BY <1>3, <3>1, <3>2
  <2>. QED BY <2>1
<1>6. Documents'
  BY <1>1, <1>4, <1>5 DEF Documents, TurnInv, FlowsInTurn, StepsInTurn, TasksInTurn
<1>7. FinalKept /\ HaltKept
  BY <1>1 DEF FinalKept, HaltKept
<1>8. NoneOpen(i.f, i.s)
  BY <1>0, <1>3 DEF TurnInv, StepsInTurn
<1>9. JobInTurn(l, i)'
  BY <1>0, <1>1, <1>3, <1>4, <1>8
     DEF JobInTurn, FlowRead, StepRead, TaskRead, TodoRead, Completable
<1>10. pc'[w] = l /\ job'[w] = i
  BY <1>2 DEF Goto, IInv, TypeOK
<1>. QED BY <1>6, <1>7, <1>9, <1>10, TurnOf

(* complete writes over the step it has just read.                         *)
LEMMA CompleteTurn ==
  ASSUME IInv, IInv', TurnInv, NEW w \in Workers, CompleteWrite(w)
  PROVE  Documents' /\ FinalKept /\ HaltKept /\ JobInTurn(pc[w], job[w])'
<1>0. PICK i \in JobRec :
        /\ i = job[w] /\ pc[w] = "completeWrite" /\ JobInTurn("completeWrite", i)
        /\ i.f \in Flows /\ i.s \in Steps
  BY InFlight DEF IInv, TypeOK, TurnInv, CompleteWrite, HoldsFlow, HoldsStep, Labels
<1>1. PICK r : r = [i.rec EXCEPT !.state = "COMPLETED"]
  OBVIOUS
<1>2. /\ i.rec = step[i.f][i.s] /\ i.rec \in StepRec /\ i.rec.state \in Completable
      /\ NoneOpen(i.f, i.s)
      /\ Kind[i.s] = "human" => Approved(i.f, i.s)
      /\ i.s \notin i.todo
  BY <1>0 DEF JobInTurn, StepRead, TaskRead, TodoRead, JobRec
<1>3. /\ r \in StepRec /\ r.state = "COMPLETED" /\ r.attempts = step[i.f][i.s].attempts
      /\ r.attempts \in Nat
  BY <1>1, <1>2 DEF StepRec, StepStates
<1>4. /\ PutStep(i.f, i.s, r) /\ UNCHANGED <<flow, tasks, ran>> /\ Evaluate(w, i.f)
  BY <1>0, <1>1 DEF CompleteWrite
<1>5. step[i.f][i.s].attempts <= r.attempts /\ step[i.f][i.s].state \notin Final \cup {"FAILED"}
  BY <1>2, <1>3 DEF Final, Completable
<1>6. Documents' /\ FinalKept /\ HaltKept
  BY <1>0, <1>2, <1>3, <1>4, <1>5, StepTurn
<1>7. \A t \in i.todo : step'[i.f][t].state = "WAITING_EVENT"
  <2>1. \A t \in i.todo : t \in Steps /\ t # i.s /\ step[i.f][t].state = "WAITING_EVENT"
    BY <1>0, <1>2 DEF JobInTurn, TodoRead, JobRec
  <2>2. \A t \in Steps \ {i.s} : step'[i.f][t] = step[i.f][t]
    BY <1>0, <1>3, <1>4, PutStepType DEF IInv, TypeOK
  <2>. QED BY <2>1, <2>2
<1>. QED BY <1>0, <1>4, <1>6, <1>7, EvaluateTurn

(* fail writes over the step it has read, and its flow; so does retry.     *)
LEMMA FailAndRecoverTurn ==
  ASSUME IInv, IInv', TurnInv, NEW w \in Workers, FailWrite(w) \/ RecoverWrite(w)
  PROVE  Documents' /\ FinalKept /\ HaltKept /\ JobInTurn(pc[w], job[w])'
<1>0. PICK i \in JobRec, l \in {"failWrite", "recoverWrite"} :
        /\ i = job[w] /\ pc[w] = l /\ JobInTurn(l, i)
        /\ i.f \in Flows /\ i.s \in Steps
  <2>1. PICK l \in {"failWrite", "recoverWrite"} : pc[w] = l
    BY DEF FailWrite, RecoverWrite
  <2>2. pc[w] \in HoldsStep
    BY <2>1 DEF HoldsStep
  <2>3. job[w] \in JobRec /\ job[w].f \in Flows /\ job[w].s \in Steps
    BY <2>2, InFlight
  <2>4. JobInTurn(pc[w], job[w])
    BY DEF TurnInv
  <2>. QED BY <2>1, <2>3, <2>4
<1>1. PICK old \in StepRec : old = i.rec
  BY DEF JobRec
<1>2. /\ old = step[i.f][i.s] /\ old.state \in {"READY", "FAILED", "RUNNING", "WAITING_HUMAN"}
      /\ NoneOpen(i.f, i.s)
  <2>1. i.rec = step[i.f][i.s]
    BY <1>0 DEF JobInTurn, StepRead
  <2>2. CASE l = "failWrite"
    BY <1>0, <1>1, <2>1, <2>2 DEF JobInTurn, StepRead, TaskRead
  <2>3. CASE l = "recoverWrite"
    BY <1>0, <1>1, <2>1, <2>3 DEF JobInTurn, StepRead, TurnInv, StepsInTurn
  <2>. QED BY <2>2, <2>3
<1>3. Finish(w) /\ UNCHANGED <<tasks, ran>>
  BY DEF FailWrite, RecoverWrite
<1>4. PICK r \in StepRec, st \in {"READY", "RETRY_PENDING", "FAILED"} :
        /\ PutStep(i.f, i.s, r) /\ PutState(i.f, st)
        /\ r.state \in {"READY", "FAILED"} /\ r.attempts = old.attempts
        /\ st = "FAILED" => r.state = "FAILED"
  <2>1. CASE FailWrite(w)
    <3>1. PICK x \in {"READY", "FAILED"}, st \in {"RETRY_PENDING", "FAILED"} :
            /\ PutStep(i.f, i.s, [old EXCEPT !.state = x, !.error = TRUE])
            /\ PutState(i.f, st)
            /\ st = "FAILED" => x = "FAILED"
      BY <1>0, <1>1, <2>1 DEF FailWrite
    <3>2. PICK r : r = [old EXCEPT !.state = x, !.error = TRUE]
      OBVIOUS
    <3>3. r.state = x /\ r.attempts = old.attempts
      BY <3>2 DEF StepRec
    <3>4. r \in StepRec
      BY <3>2 DEF StepRec, StepStates
    <3>. QED BY <3>1, <3>2, <3>3, <3>4
  <2>2. CASE RecoverWrite(w)
    <3>1. PICK r : r = [old EXCEPT !.state = "READY"]
      OBVIOUS
    <3>2. r.state = "READY" /\ r.attempts = old.attempts /\ r \in StepRec
      BY <3>1 DEF StepRec, StepStates
    <3>3. PutStep(i.f, i.s, r) /\ PutState(i.f, "READY")
      BY <1>0, <1>1, <2>2, <3>1 DEF RecoverWrite
    <3>. QED BY <3>2, <3>3
  <2>. QED BY <2>1, <2>2
<1>5. /\ flow'[i.f].state = st
      /\ \A g \in Flows \ {i.f} : flow'[g] = flow[g]
  BY <1>0, <1>4, PutStateType DEF IInv, TypeOK, FlowStates
<1>6. step[i.f][i.s].attempts <= r.attempts /\ step[i.f][i.s].state \notin Final
  BY <1>2, <1>4 DEF Final, StepRec
<1>7. Documents' /\ FinalKept /\ HaltKept
  BY <1>0, <1>2, <1>3, <1>4, <1>5, <1>6, StepTurn
<1>. QED BY <1>3, <1>7, FinishTurn

(* A decision is on the only open task of its step, which leaves none.     *)
LEMMA DecideTurn ==
  ASSUME IInv, TurnInv, NEW w \in Workers, DecideWrite(w)
  PROVE  Documents' /\ FinalKept /\ HaltKept /\ JobInTurn(pc[w], job[w])'
<1>0. PICK i \in JobRec :
        /\ i = job[w] /\ pc[w] = "decide" /\ JobInTurn("decide", i)
        /\ i.f \in Flows /\ i.s \in Steps /\ ArgsSound("decide", i)
  BY InFlight DEF IInv, TypeOK, TurnInv, DecideWrite, HoldsFlow, HoldsStep, Labels, JobSound
<1>1. PICK t \in Tasks, verdict \in Verdicts :
        /\ t = i.task /\ verdict = i.to /\ tasks[t].f = i.f /\ tasks[t].s = i.s
        /\ tasks[t].status = "OPEN"
  BY <1>0 DEF ArgsSound, JobInTurn, TaskRead
<1>a. PICK l \in {"complete", "fail"} : \E j :
        /\ l = AfterVerdict(verdict)
        /\ j = [NoJob EXCEPT !.f = i.f, !.s = i.s] /\ Goto(w, l, j)
        /\ tasks' = [tasks EXCEPT ![t].status = verdict]
        /\ UNCHANGED <<flow, step, ran>>
  BY <1>0, <1>1 DEF DecideWrite, AfterVerdict
<1>2. PICK j :
        /\ l = AfterVerdict(verdict)
        /\ j = [NoJob EXCEPT !.f = i.f, !.s = i.s] /\ Goto(w, l, j)
        /\ tasks' = [tasks EXCEPT ![t].status = verdict]
        /\ UNCHANGED <<flow, step, ran>>
  BY <1>a
<1>3. /\ tasks'[t].status = verdict /\ tasks'[t].f = i.f /\ tasks'[t].s = i.s
      /\ \A u \in Tasks \ {t} : tasks'[u] = tasks[u]
  BY <1>1, <1>2 DEF IInv, TypeOK, TaskRec
<1>4. verdict \in {"APPROVED", "REJECTED"}
  BY DEF Verdicts
<1>5. \A u \in Tasks : tasks[u].f = i.f /\ tasks[u].s = i.s /\ tasks[u].status = "OPEN" => u = t
  <2>1. ASSUME NEW u \in Tasks,
               tasks[u].f = i.f /\ tasks[u].s = i.s /\ tasks[u].status = "OPEN"
        PROVE  u = t
    <3>1. tasks[u] \in TaskRec /\ tasks[t] \in TaskRec
      BY DEF IInv, TypeOK
    <3>2. tasks[u] = tasks[t]
      BY <1>1, <2>1, <3>1 DEF TaskRec
    <3>. QED BY <1>1, <3>2 DEF TurnInv, TasksInTurn
  <2>. QED BY <2>1
<1>6. step[i.f][i.s].state = "WAITING_HUMAN"
  BY <1>0, <1>1 DEF TurnInv, StepsInTurn, NoneOpen
<1>7. /\ \A g, x : NoneOpen(g, x) => NoneOpen(g, x)'
      /\ \A g, x : Approved(g, x) => Approved(g, x)'
  BY <1>1, <1>3, <1>4 DEF NoneOpen, Approved
<1>8. NoneOpen(i.f, i.s)' /\ (verdict = "APPROVED" => Approved(i.f, i.s)')
  BY <1>3, <1>4, <1>5 DEF NoneOpen, Approved
<1>9. StepsInTurn'
  <2>1. \A g, x : (\E u \in Tasks : tasks[u].f = g /\ tasks[u].s = x /\ tasks[u].status # "none")
           => \E u \in Tasks : tasks'[u].f = g /\ tasks'[u].s = x /\ tasks'[u].status # "none"
    BY <1>1, <1>3, <1>4
  <2>. QED BY <1>2, <1>7, <2>1 DEF TurnInv, StepsInTurn
<1>10. TasksInTurn'
  <2>1. \A u \in Tasks : tasks'[u].status = "OPEN" => u # t
    BY <1>3, <1>4
  <2>. QED BY <1>3, <2>1 DEF TurnInv, TasksInTurn
<1>11. FlowsInTurn' /\ FinalKept /\ HaltKept
  BY <1>2 DEF TurnInv, FlowsInTurn, FinalKept, HaltKept
<1>12. j.f = i.f /\ j.s = i.s /\ j.todo = {}
  BY <1>2 DEF NoJob
<1>13. pc'[w] = l /\ job'[w] = j
  BY <1>2 DEF Goto, IInv, TypeOK
<1>14. l = "complete" => verdict = "APPROVED"
  BY <1>2, <1>4 DEF AfterVerdict
<1>15. JobInTurn(l, j)'
  <2>1. step'[j.f][j.s].state = "WAITING_HUMAN"
    BY <1>2, <1>6, <1>12
  <2>2. NoneOpen(j.f, j.s)' /\ (verdict = "APPROVED" => Approved(j.f, j.s)')
    BY <1>8, <1>12
  <2>. QED BY <1>12, <1>14, <2>1, <2>2
       DEF JobInTurn, FlowRead, StepRead, TaskRead, TodoRead, Completable
<1>. QED BY <1>9, <1>10, <1>11, <1>13, <1>15, TurnOf DEF Documents

LEMMA SignalTurn ==
  ASSUME IInv, TurnInv, NEW w \in Workers, RecordSignal(w)
  PROVE  Documents' /\ FinalKept /\ HaltKept /\ JobInTurn(pc[w], job[w])'
<1>1. PICK j : j = [NoJob EXCEPT !.f = job[w].f, !.ev = job[w].ev]
  OBVIOUS
<1>2. pc'[w] = "scan" /\ job'[w] = j /\ UNCHANGED <<flow, step, tasks, ran>>
  BY <1>1 DEF RecordSignal, Goto, IInv, TypeOK
<1>3. j.todo = {}
  BY <1>1 DEF NoJob
<1>4. JobInTurn("scan", j)'
  BY <1>3 DEF JobInTurn, FlowRead, StepRead, TaskRead, TodoRead
<1>. QED BY <1>2, <1>4, ReadsTurn, TurnOf

(* Every step of the only request, and its death, keeps the documents in   *)
(* order, and what is settled settled.                                     *)
LEMMA NextTurn ==
  ASSUME IInv, TurnInv, \A v, w \in Workers : v = w, [Next]_vars
  PROVE  TurnInv' /\ FinalKept /\ HaltKept
<1>1. IInv'
  BY NextKeeps
<1>2. ASSUME NEW w \in Workers,
             Documents' /\ FinalKept /\ HaltKept /\ JobInTurn(pc[w], job[w])'
      PROVE  TurnInv' /\ FinalKept /\ HaltKept
  <2>1. \A v \in Workers : JobInTurn(pc[v], job[v])'
    <3>1. ASSUME NEW v \in Workers PROVE JobInTurn(pc[v], job[v])'
      <4>1. pc[v]' = pc[w]' /\ job[v]' = job[w]'
        <5>1. v = w
          OBVIOUS
        <5>. QED BY <5>1
      <4>. QED BY <1>2, <4>1
           DEF JobInTurn, FlowRead, StepRead, TaskRead, TodoRead, NoneOpen, Approved
    <3>. QED BY <3>1
  <2>. QED BY <1>2, <2>1 DEF TurnInv, Documents
<1>3. ASSUME NEW w \in Workers, Request(w) PROVE TurnInv' /\ FinalKept /\ HaltKept
  <2>1. UNCHANGED <<flow, step, tasks, ran>>
    BY <1>3 DEF Request, Start, Dispatch, SignalFlow, Decide, Suspend, Resume, Recover, store
  <2>. QED BY <1>2, <1>3, <2>1, RequestTurn, ReadsTurn
<1>4. ASSUME NEW w \in Workers, Crash(w) PROVE TurnInv' /\ FinalKept /\ HaltKept
  <2>1. UNCHANGED <<flow, step, tasks, ran>> /\ Finish(w)
    BY <1>4 DEF Crash, store
  <2>. QED BY <1>2, <2>1, FinishTurn, ReadsTurn
<1>5. ASSUME NEW w \in Workers,
             \/ EvalReadFlow(w) \/ EvalReadSteps(w) \/ Refresh(w)
             \/ DispatchReadStep(w) \/ CompleteRead(w) \/ FailRead(w)
             \/ ScanWaiting(w) \/ RecoverRead(w)
      PROVE  TurnInv' /\ FinalKept /\ HaltKept
  <2>1. UNCHANGED <<flow, step, tasks, ran>>
    BY <1>5 DEF EvalReadFlow, EvalReadSteps, Refresh, DispatchReadStep, CompleteRead,
                FailRead, ScanWaiting, RecoverRead, store
  <2>. QED BY <1>2, <1>5, <2>1, ReadingTurn, ReadsTurn
<1>6. ASSUME NEW w \in Workers,
             InsertFlow(w) \/ Settle(w) \/ SuspendWrite(w) \/ ResumeWrite(w)
      PROVE  TurnInv' /\ FinalKept /\ HaltKept
  BY <1>2, <1>6, FlowWritesTurn
<1>7. ASSUME NEW w \in Workers,
             Promote(w) \/ BeginStep(w) \/ AwaitEvent(w) \/ AwaitHuman(w) \/ RunHandler(w)
      PROVE  TurnInv' /\ FinalKept /\ HaltKept
  BY <1>1, <1>2, <1>7, PromoteTurn, BeginTurn, AwaitEventTurn, AwaitHumanTurn, HandlerTurn
<1>8. ASSUME NEW w \in Workers,
             \/ CompleteWrite(w) \/ FailWrite(w) \/ RecoverWrite(w)
             \/ DecideWrite(w) \/ RecordSignal(w)
      PROVE  TurnInv' /\ FinalKept /\ HaltKept
  BY <1>1, <1>2, <1>8, CompleteTurn, FailAndRecoverTurn, DecideTurn, SignalTurn
<1>9. CASE UNCHANGED vars
  <2>1. UNCHANGED <<flow, step, tasks, ran>> /\ pc' = pc /\ job' = job
    BY <1>9 DEF vars
  <2>2. \A v \in Workers : JobInTurn(pc[v], job[v])'
    <3>1. ASSUME NEW v \in Workers PROVE JobInTurn(pc[v], job[v])'
      <4>1. PICK l, j : l = pc[v] /\ j = job[v] /\ JobInTurn(l, j)
        BY DEF TurnInv
      <4>2. JobInTurn(l, j)'
        BY <2>1, <4>1, ReadsTurn
      <4>. QED BY <2>1, <4>1, <4>2, TurnOf
    <3>. QED BY <3>1
  <2>3. Documents' /\ FinalKept /\ HaltKept
    BY <2>1, ReadsTurn
  <2>. QED BY <2>2, <2>3 DEF TurnInv, Documents
<1>. QED BY <1>3, <1>4, <1>5, <1>6, <1>7, <1>8, <1>9 DEF Next, Advance

LEMMA InitTurn == Init => TurnInv
<1> SUFFICES ASSUME Init PROVE TurnInv
  OBVIOUS
<1>1. /\ \A f \in Flows : flow[f].state = "none"
      /\ \A f \in Flows, s \in Steps :
           step[f][s].state = "PENDING" /\ step[f][s].attempts = 0 /\ ran[f][s] = 0
      /\ \A t \in Tasks : tasks[t].status = "none"
      /\ \A w \in Workers : pc[w] = "idle" /\ job[w] = NoJob
  BY DEF Init, NoFlow, Pending, NoTask
<1>2. FlowsInTurn /\ StepsInTurn /\ TasksInTurn
  BY <1>1 DEF FlowsInTurn, StepsInTurn, TasksInTurn, NoneOpen
<1>3. JobInTurn("idle", NoJob)
  BY DEF JobInTurn, FlowRead, StepRead, TaskRead, TodoRead, NoJob
<1>. QED BY <1>1, <1>2, <1>3 DEF TurnInv

(* Requests come one after another.                                        *)
OneAtATime == \E w : Workers = {w}

(* One after another, requests keep TurnInv, wherever they die.            *)
THEOREM InTurn ==
  ASSUME OneAtATime
  PROVE  Spec => []TurnInv
<1>1. IInv /\ TurnInv /\ [Next]_vars => TurnInv'
  BY NextTurn DEF OneAtATime
<1>. QED BY Invariance, InitTurn, <1>1, PTL DEF Spec

(* If requests come one after another, a handler is called at most once    *)
(* for each attempt on record, wherever the requests die.                  *)
THEOREM EffectPerAttemptInTurn ==
  ASSUME OneAtATime
  PROVE  Spec => []EffectPerAttempt
<1>1. TurnInv => EffectPerAttempt
  BY DEF TurnInv, StepsInTurn, EffectPerAttempt
<1>. QED BY InTurn, <1>1, PTL

(* If requests come one after another, a human step is completed only with *)
(* an approval on record, waits only if it has a task, and has one open    *)
(* task at most, wherever the requests die.                                *)
THEOREM ApprovalGateInTurn ==
  ASSUME OneAtATime
  PROVE  Spec => []ApprovalGate
<1>1. IInv /\ TurnInv => ApprovalGate
  <2> SUFFICES ASSUME IInv, TurnInv, NEW f \in Flows, NEW s \in Steps
               PROVE  LET of == {t \in Tasks : tasks[t].f = f /\ tasks[t].s = s}
                      IN /\ Kind[s] = "human" /\ step[f][s].state = "COMPLETED"
                              => \E t \in of : tasks[t].status = "APPROVED"
                         /\ step[f][s].state = "WAITING_HUMAN" => of # {}
                         /\ Cardinality({t \in of : tasks[t].status = "OPEN"}) <= 1
    BY DEF ApprovalGate
  <2> DEFINE of   == {t \in Tasks : tasks[t].f = f /\ tasks[t].s = s}
             open == {t \in of : tasks[t].status = "OPEN"}
  <2>1. Kind[s] = "human" /\ step[f][s].state = "COMPLETED"
          => \E t \in of : tasks[t].status = "APPROVED"
    BY DEF TurnInv, StepsInTurn, Approved
  <2>2. step[f][s].state = "WAITING_HUMAN" => of # {}
    BY DEF TurnInv, StepsInTurn
  <2>3. ASSUME NEW t \in open, NEW u \in open PROVE u = t
    <3>1. tasks[u] \in TaskRec /\ tasks[t] \in TaskRec
      BY DEF IInv, TypeOK
    <3>2. tasks[u] = tasks[t]
      BY <3>1 DEF TaskRec
    <3>. QED BY <3>2 DEF TurnInv, TasksInTurn
  <2>4. CASE open = {}
    <3>1. Cardinality(open) = 0
      BY <2>4, FS_EmptySet
    <3>. QED BY <2>1, <2>2, <3>1
  <2>5. CASE open # {}
    <3>1. PICK t : open = {t}
      BY <2>3, <2>5
    <3>2. Cardinality(open) = 1
      BY <3>1, FS_Singleton
    <3>. QED BY <2>1, <2>2, <3>2
  <2>. QED BY <2>4, <2>5
<1>. QED BY Invariance, InTurn, <1>1, PTL

(* If requests come one after another, a completed or skipped step is      *)
(* never touched again: no retry, signal or decision reopens it.           *)
THEOREM StepsFinalInTurn ==
  ASSUME OneAtATime
  PROVE  Spec => StepsFinal
<1>1. IInv /\ TurnInv /\ [Next]_vars
        => [\A f \in Flows, s \in Steps :
              step[f][s].state \in {"COMPLETED", "SKIPPED"}
                => step'[f][s] = step[f][s]]_step
  BY NextTurn DEF OneAtATime, FinalKept, Final
<1>. QED BY Invariance, InTurn, <1>1, PTL DEF Spec, StepsFinal

(* If requests come one after another, evaluate neither reopens a          *)
(* completed flow nor moves a suspended one.                               *)
THEOREM HaltedStaysInTurn ==
  ASSUME OneAtATime
  PROVE  Spec => HaltedStays
<1>1. IInv /\ TurnInv /\ [Next]_vars
        => [\A f \in Flows :
              /\ flow[f].state = "COMPLETED" => flow'[f] = flow[f]
              /\ flow[f].state = "SUSPENDED" =>
                   flow'[f].state \in {"SUSPENDED", "READY", "RETRY_PENDING", "FAILED"}]_flow
  BY NextTurn DEF OneAtATime, HaltKept
<1>. QED BY Invariance, InTurn, <1>1, PTL DEF Spec, HaltedStays

(* If requests come one after another, a failed flow has a failed step for *)
(* FlowRecovery.retry to find, wherever the requests die.                  *)
THEOREM FailureHasCauseInTurn ==
  ASSUME OneAtATime
  PROVE  Spec => []FailureHasCause
<1>1. TurnInv => FailureHasCause
  BY DEF TurnInv, FlowsInTurn, FailureHasCause
<1>. QED BY InTurn, <1>1, PTL

----------------------------------------------------------------------------
(* One request at a time, which ends.                                      *)

(* A set of numbers that has one has a least one.                          *)
LEMMA Least ==
  ASSUME NEW T, T \subseteq Nat, T # {}
  PROVE  \E x \in T : \A y \in T : x <= y
<1>1. PICK x \in T : \A y \in T : <<y, x>> \notin OpToRel(<, Nat)
  BY NatLessThanWellFounded, WFMin
<1>2. \A y \in T : ~(y < x)
  BY <1>1 DEF OpToRel
<1>. QED BY <1>2

(* What depends on the documents of one flow only.                         *)
LEMMA Elsewhere ==
  ASSUME NEW f, flow'[f] = flow[f], step'[f] = step[f]
  PROVE  /\ UpToDate(f)' <=> UpToDate(f)
         /\ \A s : Promotable(step'[f], s) <=> Promotable(step[f], s)
  BY DEF UpToDate, Summary, Some, Promotable

LEMMA QuietProgress ==
  ASSUME NEW w \in Workers, \A f \in Flows : UpToDate(f)',
         pc'[w] \notin {"evalSteps", "promote", "settle"},
         pc'[w] = "eval" => job'[w].cur = 1
  PROVE  Progress(pc[w], job[w])'
  BY DEF Progress

LEMMA EvalProgress ==
  ASSUME NEW w \in Workers, NEW g, \A f \in Flows \ {g} : UpToDate(f)',
         pc'[w] = "eval", job'[w].f = g, job'[w].cur = 1
  PROVE  Progress(pc[w], job[w])'
  BY DEF Progress, Evaluating

(* A request that does not evaluate and does not write, and has nothing to *)
(* evaluate but a flow that is up to date.                                 *)
LEMMA ReadsProgress ==
  ASSUME IInv, NEW w \in Workers, Progress(pc[w], job[w]),
         \/ Request(w) \/ DispatchReadStep(w) \/ CompleteRead(w) \/ FailRead(w)
         \/ ScanWaiting(w) \/ RecoverRead(w) \/ RunHandler(w) \/ RecordSignal(w)
         \/ DecideWrite(w)
  PROVE  Progress(pc[w], job[w])'
<1>1. flow' = flow /\ step' = step
  BY DEF Request, Start, Dispatch, SignalFlow, Decide, Suspend, Resume, Recover,
         DispatchReadStep, CompleteRead, FailRead, ScanWaiting, RecoverRead, RunHandler,
         RecordSignal, DecideWrite, store
<1>2. pc[w] \notin Evaluating
  BY DEF Request, Start, Dispatch, SignalFlow, Decide, Suspend, Resume, Recover,
         DispatchReadStep, CompleteRead, FailRead, ScanWaiting, RecoverRead, RunHandler,
         RecordSignal, DecideWrite, Evaluating
<1>3. \A f \in Flows : UpToDate(f)'
  BY <1>1, <1>2, Elsewhere DEF Progress
<1>4. ASSUME NEW l, NEW j, Goto(w, l, j), l \notin Evaluating
      PROVE  Progress(pc[w], job[w])'
  <2>1. pc'[w] = l
    BY <1>4 DEF Goto, IInv, TypeOK
  <2>. QED BY <1>3, <1>4, <2>1, QuietProgress DEF Evaluating
<1>5. CASE Request(w)
  <2>1. PICK l \in {"insert", "dispatch", "record", "decide", "suspend", "resume", "recover"} :
          \E j : Goto(w, l, j)
    <3>1. CASE Start(w) \/ Dispatch(w)
      BY <3>1 DEF Start, Dispatch
    <3>2. CASE SignalFlow(w)
      BY <3>2 DEF SignalFlow
    <3>3. CASE Decide(w)
      BY <3>3 DEF Decide
    <3>4. CASE Suspend(w) \/ Resume(w) \/ Recover(w)
      BY <3>4 DEF Suspend, Resume, Recover
    <3>. QED BY <1>5, <3>1, <3>2, <3>3, <3>4 DEF Request
  <2>. QED BY <1>4, <2>1 DEF Evaluating
<1>6. CASE \/ DispatchReadStep(w) \/ CompleteRead(w) \/ FailRead(w) \/ RecoverRead(w)
           \/ RunHandler(w) \/ RecordSignal(w)
  <2>1. PICK l \in {"idle", "begin", "completeWrite", "failWrite", "recoverWrite", "complete",
                    "fail", "scan"} :
          \E j : Goto(w, l, j)
    <3>1. CASE DispatchReadStep(w) \/ CompleteRead(w) \/ FailRead(w)
      BY <3>1 DEF DispatchReadStep, CompleteRead, FailRead, Finish
    <3>2. CASE RecoverRead(w)
      <4>1. Finish(w) \/ \E j : Goto(w, "recoverWrite", j)
        BY <3>2, Zenon DEF RecoverRead
      <4>. QED BY <4>1 DEF Finish
    <3>3. CASE RunHandler(w) \/ RecordSignal(w)
      BY <3>3 DEF RunHandler, RecordSignal
    <3>. QED BY <1>6, <3>1, <3>2, <3>3
  <2>. QED BY <1>4, <2>1 DEF Evaluating
<1>7. CASE DecideWrite(w)
  BY <1>4, <1>7 DEF DecideWrite, AfterVerdict, Evaluating
<1>8. CASE ScanWaiting(w)
  <2>1. CASE Goto(w, "eval", [NoJob EXCEPT !.f = job[w].f])
    <3>1. pc'[w] = "eval" /\ job'[w] = [NoJob EXCEPT !.f = job[w].f]
      BY <2>1 DEF Goto, IInv, TypeOK
    <3>2. job'[w].cur = 1
      BY <3>1 DEF NoJob
    <3>. QED BY <1>3, <3>1, <3>2, QuietProgress
  <2>2. CASE \E j : Goto(w, "complete", j)
    BY <1>4, <2>2 DEF Evaluating
  <2>. QED BY <1>8, <2>1, <2>2 DEF ScanWaiting
<1>. QED BY <1>5, <1>6, <1>7, <1>8

(* evaluate returns when the flow is up to date.                           *)
LEMMA ReturnProgress ==
  ASSUME IInv, TurnInv', NEW w \in Workers, pc[w] \in Evaluating, Return(w),
         \A f \in Flows : UpToDate(f)',
         \A s \in job[w].todo : step'[job[w].f][s].state = "WAITING_EVENT"
  PROVE  Progress(pc[w], job[w])'
<1>1. \/ pc'[w] \notin Evaluating
      \/ pc'[w] = "eval" /\ job'[w].cur = 1
  BY ReturnTurn DEF TurnInv, Evaluating, HoldsFlow, Labels
<1>. QED BY <1>1, QuietProgress DEF Evaluating

LEMMA EvalReadProgress ==
  ASSUME IInv, TurnInv, TurnInv', NEW w \in Workers, Progress(pc[w], job[w]),
         EvalReadFlow(w) \/ EvalReadSteps(w)
  PROVE  Progress(pc[w], job[w])'
<1>0. PICK l \in {"eval", "evalSteps"}, i \in JobRec :
        /\ l = pc[w] /\ i = job[w] /\ JobInTurn(l, i) /\ i.f \in Flows
        /\ \A f \in Flows \ {i.f} : UpToDate(f)
        /\ i.cur = 1
  BY InFlight DEF IInv, TypeOK, TurnInv, EvalReadFlow, EvalReadSteps, HoldsFlow, Labels,
                  Progress
<1>1. flow' = flow /\ step' = step
  BY DEF EvalReadFlow, EvalReadSteps, store
<1>2. \A f \in Flows : UpToDate(f) => UpToDate(f)'
  BY <1>1, Elsewhere
<1>3. CASE EvalReadFlow(w) /\ flow[i.f].state \in Halted
  <2>1. UpToDate(i.f)
    <3>1. CASE flow[i.f].state # "COMPLETED"
      BY <1>3, <3>1 DEF UpToDate, Halted, Summaries
    <3>2. CASE flow[i.f].state = "COMPLETED"
      <4>1. \A s \in Steps : step[i.f][s].state \in Final
        BY <1>0, <3>2 DEF TurnInv, FlowsInTurn
      <4>2. Summary(step[i.f]) = "COMPLETED"
        BY <4>1 DEF Summary, Final
      <4>3. \A s \in Steps : ~Promotable(step[i.f], s)
        BY <4>1 DEF Promotable, Final
      <4>. QED BY <3>2, <4>2, <4>3 DEF UpToDate
    <3>. QED BY <3>1, <3>2
  <2>2. \A f \in Flows : UpToDate(f)'
    BY <1>0, <1>2, <2>1
  <2>3. Return(w) /\ pc[w] \in Evaluating
    BY <1>0, <1>3 DEF EvalReadFlow, Evaluating
  <2>4. \A s \in i.todo : step'[i.f][s].state = "WAITING_EVENT"
    BY <1>0, <1>1 DEF JobInTurn, TodoRead
  <2>. QED BY <1>0, <2>2, <2>3, <2>4, ReturnProgress
<1>4. CASE EvalReadSteps(w) \/ (EvalReadFlow(w) /\ flow[i.f].state \notin Halted)
  <2>1. PICK k \in {"evalSteps", "promote"}, j \in {[i EXCEPT !.seen = flow[i.f].state],
                                                     [i EXCEPT !.snap = step[i.f]]} :
          Goto(w, k, j)
    BY <1>0, <1>4 DEF EvalReadFlow, EvalReadSteps
  <2>2. pc'[w] = k /\ job'[w] = j
    BY <2>1 DEF Goto, IInv, TypeOK
  <2>3. j.f = i.f /\ j.cur = 1
    BY <1>0, <2>1 DEF JobRec
  <2>4. \A s \in Steps : ~(s < j.cur)
    BY <2>3 DEF Steps
  <2>5. \A f \in Flows : f # job'[w].f => UpToDate(f)'
    BY <1>0, <1>2, <2>2, <2>3
  <2>6. /\ pc'[w] \in {"evalSteps", "promote"} /\ job'[w].cur = 1
        /\ \A s \in Steps : ~(s < job'[w].cur)
    BY <2>2, <2>3, <2>4
  <2>. QED BY <2>5, <2>6 DEF Progress, Evaluating
<1>. QED BY <1>3, <1>4

(* One pass promotes all there is to promote of the steps before cur, if   *)
(* no step is listed before those it depends on.                           *)
LEMMA PromoteProgress ==
  ASSUME IInv, IInv', TurnInv, NEW w \in Workers, Progress(pc[w], job[w]), Promote(w)
  PROVE  Progress(pc[w], job[w])'
<1>0. PICK i \in JobRec :
        /\ i = job[w] /\ pc[w] = "promote" /\ JobInTurn("promote", i) /\ i.f \in Flows
        /\ \A f \in Flows \ {i.f} : UpToDate(f)
        /\ Listed => \A t \in Steps : t < i.cur => ~Promotable(step[i.f], t)
  BY InFlight DEF IInv, TypeOK, TurnInv, Promote, HoldsFlow, Labels, Progress
<1>a. PICK s \in NextPromotion(w) : \E r :
        /\ r = [i.snap[s] EXCEPT !.state = Promoted(i.f, s)]
        /\ PutStep(i.f, s, r)
        /\ Goto(w, "promote", [i EXCEPT !.snap[s] = r, !.cur = s + 1])
        /\ flow' = flow
  BY <1>0 DEF Promote
<1>1. PICK r :
        /\ r = [i.snap[s] EXCEPT !.state = Promoted(i.f, s)]
        /\ PutStep(i.f, s, r)
        /\ Goto(w, "promote", [i EXCEPT !.snap[s] = r, !.cur = s + 1])
        /\ flow' = flow
  BY <1>a
<1>2. /\ s \in Steps /\ i.snap = step[i.f] /\ step[i.f] \in [Steps -> StepRec]
      /\ \A t \in i.cur..(s - 1) : ~Promotable(step[i.f], t)
  BY <1>0, <1>1 DEF NextPromotion, JobInTurn, StepRead, IInv, TypeOK
<1>3. r.state \in {"READY", "SKIPPED"}
  BY <1>1, <1>2 DEF Promoted, StepRec
<1>4. /\ step'[i.f] = [step[i.f] EXCEPT ![s] = r]
      /\ \A f \in Flows \ {i.f} : step'[f] = step[f]
  BY <1>0, <1>1, <1>2 DEF PutStep, IInv, TypeOK
<1>5. PICK j : j = [i EXCEPT !.snap[s] = r, !.cur = s + 1]
  OBVIOUS
<1>6. j.f = i.f /\ j.cur = s + 1
  BY <1>5 DEF JobRec
<1>7. pc'[w] = "promote" /\ job'[w] = j
  BY <1>1, <1>5 DEF Goto, IInv, TypeOK
<1>8. \A f \in Flows : f # j.f => UpToDate(f)'
  BY <1>0, <1>1, <1>4, <1>6, Elsewhere
<1>9. ASSUME Listed, NEW t \in Steps, t < s + 1 PROVE ~Promotable(step'[i.f], t)
  <2>1. CASE t = s
    BY <1>2, <1>3, <1>4, <2>1 DEF Promotable
  <2>2. CASE t # s
    <3>1. t \in Nat /\ s \in Nat /\ i.cur \in Nat
      BY <1>2 DEF Steps, JobRec
    <3>2. t < i.cur \/ t \in i.cur..(s - 1)
      BY <1>9, <2>2, <3>1
    <3>3. ~Promotable(step[i.f], t)
      BY <1>0, <1>2, <1>9, <3>2
    <3>4. \A d \in Deps[t] : d \in Steps /\ d # s
      <4>1. \A d \in Deps[t] : d \in Steps /\ d < t
        BY <1>9, DefinitionAssumption DEF Listed
      <4>. QED BY <1>9, <3>1, <4>1 DEF Steps
    <3>5. step'[i.f][t] = step[i.f][t] /\ \A d \in Deps[t] : step'[i.f][d] = step[i.f][d]
      BY <1>2, <1>4, <2>2, <3>4
    <3>. QED BY <3>3, <3>5 DEF Promotable
  <2>. QED BY <2>1, <2>2
<1>10. Listed => \A t \in Steps : t < job'[w].cur => ~Promotable(step'[job'[w].f], t)
  BY <1>6, <1>7, <1>9
<1>11. \A f \in Flows : f # job'[w].f => UpToDate(f)'
  BY <1>7, <1>8
<1>. QED BY <1>7, <1>10, <1>11 DEF Progress, Promotable, Evaluating

(* The steps that evaluate reads again are those it promoted, and nothing  *)
(* is left to promote.                                                     *)
LEMMA RefreshProgress ==
  ASSUME IInv, TurnInv, TurnInv', NEW w \in Workers, Progress(pc[w], job[w]), Refresh(w)
  PROVE  Progress(pc[w], job[w])'
<1>0. PICK i \in JobRec :
        /\ i = job[w] /\ pc[w] = "promote" /\ JobInTurn("promote", i) /\ i.f \in Flows
        /\ \A f \in Flows \ {i.f} : UpToDate(f)
        /\ Listed => \A t \in Steps : t < i.cur => ~Promotable(step[i.f], t)
  BY InFlight DEF IInv, TypeOK, TurnInv, Refresh, HoldsFlow, Labels, Progress
<1>1. flow' = flow /\ step' = step /\ NextPromotion(w) = {}
  BY DEF Refresh, store
<1>2. i.snap = step[i.f] /\ flow[i.f].state = i.seen
  BY <1>0 DEF JobInTurn, FlowRead, StepRead
<1>3. ASSUME Listed, NEW s \in Steps PROVE ~Promotable(step[i.f], s)
  <2> SUFFICES ASSUME Promotable(step[i.f], s) PROVE FALSE
    OBVIOUS
  <2> DEFINE T == {t \in Steps : i.cur <= t /\ Promotable(step[i.f], t)}
  <2>1. T \subseteq Nat /\ \A t \in T : t \in Steps
    BY DEF Steps
  <2>2. s \in T
    <3>1. s \in Nat /\ i.cur \in Nat
      BY DEF Steps, JobRec
    <3>2. ~(s < i.cur)
      BY <1>0, <1>3
    <3>. QED BY <3>1, <3>2
  <2>3. PICK t \in T : \A u \in T : t <= u
    BY <2>1, <2>2, Least
  <2>4. \A u \in i.cur..(t - 1) : ~Promotable(step[i.f], u)
    <3>1. ASSUME NEW u \in i.cur..(t - 1), Promotable(step[i.f], u) PROVE FALSE
      <4>1. t \in Nat /\ i.cur \in Nat /\ t \in Steps /\ i.cur >= 1
        BY <2>1 DEF JobRec
      <4>2. u \in Steps /\ i.cur <= u /\ u < t
        <5>1. u \in Int /\ i.cur <= u /\ u <= t - 1
          BY <4>1
        <5>. QED BY <4>1, <5>1, DefinitionAssumption DEF Steps
      <4>3. u \in T
        BY <3>1, <4>2
      <4>. QED BY <2>3, <4>1, <4>2, <4>3
    <3>. QED BY <3>1
  <2>5. t \in NextPromotion(w)
    BY <1>0, <1>2, <2>4 DEF NextPromotion
  <2>. QED BY <1>1, <2>5
<1>4. CASE Summary(step[i.f]) = i.seen
  <2>1. UpToDate(i.f)
    BY <1>2, <1>3, <1>4 DEF UpToDate
  <2>2. \A f \in Flows : UpToDate(f)'
    BY <1>0, <1>1, <2>1, Elsewhere
  <2>3. \A s \in i.todo : step'[i.f][s].state = "WAITING_EVENT"
    BY <1>0, <1>1 DEF JobInTurn, TodoRead
  <2>4. Return(w) /\ pc[w] \in Evaluating
    BY <1>0, <1>4 DEF Refresh, Evaluating
  <2>. QED BY <1>0, <2>2, <2>3, <2>4, ReturnProgress
<1>5. CASE Summary(step[i.f]) # i.seen
  <2>1. PICK j : j = [i EXCEPT !.to = Summary(step[i.f]), !.cur = 1,
                               !.snap = NoJob.snap, !.seen = "none"]
    OBVIOUS
  <2>2. pc'[w] = "settle" /\ job'[w] = j
    BY <1>0, <1>5, <2>1 DEF Refresh, Goto, IInv, TypeOK
  <2>3. j.f = i.f
    BY <2>1 DEF JobRec
  <2>4. \A f \in Flows : f # j.f => UpToDate(f)'
    BY <1>0, <1>1, <2>3, Elsewhere
  <2>5. Listed => \A s \in Steps : ~Promotable(step'[job'[w].f], s)
    BY <1>1, <1>3, <2>2, <2>3
  <2>6. \A f \in Flows : f # job'[w].f => UpToDate(f)'
    BY <2>2, <2>4
  <2>. QED BY <2>2, <2>5, <2>6 DEF Progress, Promotable, Evaluating
<1>. QED BY <1>4, <1>5

(* evaluate ends by making the flow the summary of its steps.              *)
LEMMA SettleProgress ==
  ASSUME IInv, TurnInv, TurnInv', NEW w \in Workers, Progress(pc[w], job[w]), Settle(w)
  PROVE  Progress(pc[w], job[w])'
<1>0. PICK i \in JobRec :
        /\ i = job[w] /\ pc[w] = "settle" /\ JobInTurn("settle", i) /\ i.f \in Flows
        /\ \A f \in Flows \ {i.f} : UpToDate(f)
        /\ Listed => \A s \in Steps : ~Promotable(step[i.f], s)
  BY InFlight DEF IInv, TypeOK, TurnInv, Settle, HoldsFlow, Labels, Progress
<1>1. /\ PutState(i.f, i.to) /\ Return(w) /\ step' = step
      /\ i.to = Summary(step[i.f]) /\ step[i.f] \in [Steps -> StepRec]
  BY <1>0 DEF Settle, JobInTurn, FlowRead, IInv, TypeOK
<1>2. i.to \in FlowStates
  BY <1>1, SummaryCompleted DEF Summaries, FlowStates
<1>3. flow'[i.f].state = i.to /\ \A f \in Flows \ {i.f} : flow'[f] = flow[f]
  BY <1>0, <1>1, <1>2, PutStateType DEF IInv, TypeOK
<1>4. UpToDate(i.f)'
  <2>1. flow'[i.f].state = Summary(step'[i.f])
    BY <1>1, <1>3
  <2>2. Listed => \A s \in Steps : ~Promotable(step'[i.f], s)
    BY <1>0, <1>1
  <2>. QED BY <2>1, <2>2 DEF UpToDate
<1>5. \A f \in Flows : UpToDate(f)'
  BY <1>0, <1>1, <1>3, <1>4, Elsewhere
<1>6. \A s \in i.todo : step'[i.f][s].state = "WAITING_EVENT"
  BY <1>0, <1>1 DEF JobInTurn, TodoRead
<1>. QED BY <1>0, <1>1, <1>5, <1>6, ReturnProgress DEF Evaluating

(* dispatch changes nothing that evaluate would see.                       *)
LEMMA BeginProgress ==
  ASSUME IInv, IInv', TurnInv, NEW w \in Workers, Progress(pc[w], job[w]), BeginStep(w)
  PROVE  Progress(pc[w], job[w])'
<1>0. PICK i \in JobRec :
        /\ i = job[w] /\ pc[w] = "begin" /\ JobInTurn("begin", i)
        /\ i.f \in Flows /\ i.s \in Steps
        /\ \A f \in Flows : UpToDate(f)
  BY InFlight DEF IInv, TypeOK, TurnInv, BeginStep, HoldsFlow, HoldsStep, Labels, Progress,
                  Evaluating
<1>1. PICK old \in StepRec : old = i.rec /\ old = step[i.f][i.s] /\ old.state = "READY"
  BY <1>0 DEF JobInTurn, StepRead, JobRec
<1>2. PICK r : r = [old EXCEPT !.state = "RUNNING", !.attempts = @ + 1]
  OBVIOUS
<1>3. r.state = "RUNNING"
  BY <1>2 DEF StepRec
<1>4. PutStep(i.f, i.s, r) /\ flow' = flow
  BY <1>0, <1>1, <1>2 DEF BeginStep, Started
<1>5. /\ \A f \in Flows \ {i.f} : step'[f] = step[f]
      /\ step'[i.f][i.s] = r
      /\ \A t \in Steps \ {i.s} : step'[i.f][t] = step[i.f][t]
  BY <1>0, <1>4 DEF PutStep, IInv, TypeOK
<1>6. /\ \A t \in Steps : step'[i.f][t].state \in Final <=> step[i.f][t].state \in Final
      /\ \A t \in Steps : step'[i.f][t].state = "PENDING" <=> step[i.f][t].state = "PENDING"
      /\ \A t \in Steps :
           /\ step'[i.f][t].state = "WAITING_HUMAN" <=> step[i.f][t].state = "WAITING_HUMAN"
           /\ step'[i.f][t].state = "WAITING_EVENT" <=> step[i.f][t].state = "WAITING_EVENT"
           /\ step'[i.f][t].state \in {"READY", "RUNNING"}
                <=> step[i.f][t].state \in {"READY", "RUNNING"}
  BY <1>1, <1>3, <1>5 DEF Final
<1>7. Summary(step'[i.f]) = Summary(step[i.f])
  <2> DEFINE old1 == step[i.f]
             new1 == step'[i.f]
  <2>1. Some(new1, {"WAITING_HUMAN"}) <=> Some(old1, {"WAITING_HUMAN"})
    BY <1>6 DEF Some
  <2>2. Some(new1, {"WAITING_EVENT"}) <=> Some(old1, {"WAITING_EVENT"})
    BY <1>6 DEF Some
  <2>3. Some(new1, {"READY", "RUNNING"}) <=> Some(old1, {"READY", "RUNNING"})
    BY <1>6 DEF Some
  <2>4. (\A s \in Steps : new1[s].state \in {"COMPLETED", "SKIPPED"})
           <=> \A s \in Steps : old1[s].state \in {"COMPLETED", "SKIPPED"}
    BY <1>6 DEF Final
  <2>. QED BY <2>1, <2>2, <2>3, <2>4 DEF Summary
<1>8. \A t \in Steps : Promotable(step'[i.f], t) <=> Promotable(step[i.f], t)
  <2>1. \A t \in Steps : \A d \in Deps[t] : d \in Steps
    BY DefinitionAssumption
  <2>. QED BY <1>6, <2>1 DEF Promotable, Final
<1>9. UpToDate(i.f)'
  <2>1. flow'[i.f].state \in Summaries =>
          /\ flow'[i.f].state = Summary(step'[i.f])
          /\ Listed => \A t \in Steps : ~Promotable(step'[i.f], t)
    BY <1>0, <1>4, <1>7, <1>8 DEF UpToDate
  <2>. QED BY <2>1 DEF UpToDate
<1>10. \A f \in Flows : UpToDate(f)'
  BY <1>0, <1>4, <1>5, <1>9, Elsewhere
<1>11. pc'[w] \in {"wait", "handle", "complete", "idle"}
  <2>1. Route(i.s) \in {"wait", "handle", "complete", "idle"}
    BY <1>0, DefinitionAssumption DEF Route, StepKinds
  <2>2. pc'[w] = Route(i.s)
    BY <1>0 DEF BeginStep, Goto, IInv, TypeOK
  <2>. QED BY <2>1, <2>2
<1>. QED BY <1>10, <1>11, QuietProgress

(* Every other write of a step or of a flow is followed by an evaluation   *)
(* of the flow, or leaves it halted or to be dispatched or retried.        *)
LEMMA WritesProgress ==
  ASSUME IInv, NEW w \in Workers, Progress(pc[w], job[w]),
         \/ InsertFlow(w) \/ SuspendWrite(w) \/ ResumeWrite(w) \/ AwaitEvent(w)
         \/ AwaitHuman(w) \/ CompleteWrite(w) \/ FailWrite(w) \/ RecoverWrite(w)
  PROVE  Progress(pc[w], job[w])'
<1>0. PICK i : i = job[w] /\ (InsertFlow(w) \/ i.f \in Flows)
  BY InFlight DEF SuspendWrite, ResumeWrite, AwaitEvent, AwaitHuman, CompleteWrite,
         FailWrite, RecoverWrite, HoldsFlow, Labels
<1>1. \A f \in Flows : UpToDate(f)
  BY DEF InsertFlow, SuspendWrite, ResumeWrite, AwaitEvent, AwaitHuman, CompleteWrite,
         FailWrite, RecoverWrite, Evaluating, Progress
<1>2. ASSUME NEW g \in Flows, Evaluate(w, g),
             \A f \in Flows \ {g} : flow'[f] = flow[f] /\ step'[f] = step[f]
      PROVE  Progress(pc[w], job[w])'
  <2>1. PICK j : j = [NoJob EXCEPT !.f = g, !.ev = i.ev, !.todo = i.todo, !.again = i.again]
    OBVIOUS
  <2>2. pc'[w] = "eval" /\ job'[w] = j
    BY <1>0, <1>2, <2>1 DEF Evaluate, Goto, IInv, TypeOK
  <2>3. j.f = g /\ j.cur = 1
    BY <2>1 DEF NoJob
  <2>4. \A f \in Flows \ {g} : UpToDate(f)'
    BY <1>1, <1>2, Elsewhere
  <2>. QED BY <2>2, <2>3, <2>4, EvalProgress
<1>3. ASSUME NEW g \in Flows, Finish(w), flow'[g].state \notin Summaries,
             \A f \in Flows \ {g} : flow'[f] = flow[f] /\ step'[f] = step[f]
      PROVE  Progress(pc[w], job[w])'
  <2>1. pc'[w] = "idle"
    BY <1>3 DEF Finish, Goto, IInv, TypeOK
  <2>2. \A f \in Flows : UpToDate(f)'
    <3>1. UpToDate(g)'
      BY <1>3 DEF UpToDate
    <3>. QED BY <1>1, <1>3, <3>1, Elsewhere
  <2>. QED BY <2>1, <2>2, QuietProgress
<1>4. CASE InsertFlow(w)
  <2>1. PICK g \in Flows :
          /\ \E r : flow' = [flow EXCEPT ![g] = r]
          /\ Evaluate(w, g) /\ step' = step
    BY <1>4 DEF InsertFlow
  <2>2. \A f \in Flows \ {g} : flow'[f] = flow[f] /\ step'[f] = step[f]
    BY <2>1 DEF IInv, TypeOK
  <2>. QED BY <1>2, <2>1, <2>2
<1>5. CASE ResumeWrite(w) \/ SuspendWrite(w)
  <2>1. PICK st \in {"READY", "SUSPENDED"} :
          /\ i.f \in Flows /\ PutState(i.f, st) /\ step' = step
          /\ Evaluate(w, i.f) \/ (Finish(w) /\ st = "SUSPENDED")
    <3>1. i.f \in Flows
      BY <1>0, <1>5, InFlight DEF SuspendWrite, ResumeWrite, HoldsFlow, Labels
    <3>. QED BY <1>0, <1>5, <3>1 DEF SuspendWrite, ResumeWrite
  <2>2. flow'[i.f].state = st /\ \A f \in Flows \ {i.f} : flow'[f] = flow[f] /\ step'[f] = step[f]
    BY <2>1, PutStateType DEF IInv, TypeOK, FlowStates
  <2>. QED BY <1>2, <1>3, <2>1, <2>2 DEF Summaries
<1>6. CASE AwaitEvent(w) \/ AwaitHuman(w) \/ CompleteWrite(w)
  <2>1. /\ i.f \in Flows /\ \E s, r : PutStep(i.f, s, r)
        /\ Evaluate(w, i.f) /\ flow' = flow
    <3>1. i.f \in Flows
      BY <1>0, <1>6, InFlight DEF AwaitEvent, AwaitHuman, CompleteWrite, HoldsFlow, Labels
    <3>. QED BY <1>0, <1>6, <3>1 DEF AwaitEvent, AwaitHuman, CompleteWrite
  <2>2. \A f \in Flows \ {i.f} : flow'[f] = flow[f] /\ step'[f] = step[f]
    BY <2>1 DEF PutStep, IInv, TypeOK
  <2>. QED BY <1>2, <2>1, <2>2
<1>7. CASE FailWrite(w) \/ RecoverWrite(w)
  <2>1. PICK st \in {"READY", "RETRY_PENDING", "FAILED"} :
          /\ i.f \in Flows /\ \E s, r : PutStep(i.f, s, r)
          /\ PutState(i.f, st) /\ Finish(w)
    <3>1. i.f \in Flows
      BY <1>0, <1>7, InFlight DEF FailWrite, RecoverWrite, HoldsFlow, Labels
    <3>. QED BY <1>0, <1>7, <3>1 DEF FailWrite, RecoverWrite
  <2>2. flow'[i.f].state = st /\ \A f \in Flows \ {i.f} : flow'[f] = flow[f] /\ step'[f] = step[f]
    <3>1. \A f \in Flows \ {i.f} : step'[f] = step[f]
      BY <2>1 DEF PutStep, IInv, TypeOK
    <3>2. flow'[i.f].state = st /\ \A f \in Flows \ {i.f} : flow'[f] = flow[f]
      BY <2>1, PutStateType DEF IInv, TypeOK, FlowStates
    <3>. QED BY <3>1, <3>2
  <2>. QED BY <1>3, <2>1, <2>2 DEF Summaries
<1>. QED BY <1>4, <1>5, <1>6, <1>7

(* Requests that come one after another and end.                           *)
UndisturbedNext == \E w \in Workers : Request(w) \/ Advance(w)
Undisturbed == Init /\ [][UndisturbedNext]_vars

LEMMA NextProgress ==
  ASSUME IInv, ProgressInv, OneAtATime, [UndisturbedNext]_vars
  PROVE  ProgressInv'
<1>0. [Next]_vars
  BY DEF UndisturbedNext, Next
<1>1. IInv' /\ TurnInv /\ TurnInv'
  BY <1>0, NextKeeps, NextTurn DEF ProgressInv, OneAtATime
<1>2. ASSUME NEW w \in Workers, Progress(pc[w], job[w])'
      PROVE  ProgressInv'
  <2>1. \A v \in Workers : Progress(pc[v], job[v])'
    <3>1. ASSUME NEW v \in Workers PROVE Progress(pc[v], job[v])'
      <4>1. pc'[v] = pc'[w] /\ job'[v] = job'[w]
        <5>1. v = w
          BY DEF OneAtATime
        <5>. QED BY <5>1
      <4>. QED BY <1>2, <4>1 DEF Progress, UpToDate, Promotable
    <3>. QED BY <3>1
  <2>. QED BY <1>1, <2>1 DEF ProgressInv
<1>3. ASSUME NEW w \in Workers, Request(w) \/ Advance(w) PROVE ProgressInv'
  <2>1. Progress(pc[w], job[w])
    BY DEF ProgressInv
  <2>2. CASE \/ Request(w) \/ DispatchReadStep(w) \/ CompleteRead(w) \/ FailRead(w)
             \/ ScanWaiting(w) \/ RecoverRead(w) \/ RunHandler(w) \/ RecordSignal(w)
             \/ DecideWrite(w)
    BY <1>2, <2>1, <2>2, ReadsProgress
  <2>3. CASE \/ EvalReadFlow(w) \/ EvalReadSteps(w) \/ Promote(w) \/ Refresh(w) \/ Settle(w)
    BY <1>1, <1>2, <2>1, <2>3, EvalReadProgress, PromoteProgress, RefreshProgress,
       SettleProgress
  <2>4. CASE BeginStep(w)
    BY <1>1, <1>2, <2>1, <2>4, BeginProgress
  <2>5. CASE \/ InsertFlow(w) \/ SuspendWrite(w) \/ ResumeWrite(w) \/ AwaitEvent(w)
             \/ AwaitHuman(w) \/ CompleteWrite(w) \/ FailWrite(w) \/ RecoverWrite(w)
    BY <1>2, <2>1, <2>5, WritesProgress
  <2>. QED BY <1>3, <2>2, <2>3, <2>4, <2>5 DEF Advance
<1>4. CASE UNCHANGED vars
  <2>1. flow' = flow /\ step' = step /\ pc' = pc /\ job' = job
    BY <1>4 DEF vars
  <2>2. \A f \in Flows : UpToDate(f)' <=> UpToDate(f)
    BY <2>1, Elsewhere
  <2>3. \A w \in Workers : Progress(pc[w], job[w])'
    BY <2>1, <2>2 DEF ProgressInv, Progress, Promotable
  <2>. QED BY <1>1, <2>3 DEF ProgressInv
<1>. QED BY <1>3, <1>4 DEF UndisturbedNext

LEMMA InitProgress == Init => ProgressInv
<1> SUFFICES ASSUME Init PROVE ProgressInv
  OBVIOUS
<1>1. \A f \in Flows : UpToDate(f)
  BY DEF Init, NoFlow, UpToDate, Summaries
<1>2. \A w \in Workers : pc[w] = "idle"
  BY DEF Init
<1>3. \A w \in Workers : Progress(pc[w], job[w])
  BY <1>1, <1>2 DEF Progress
<1>. QED BY <1>3, InitTurn DEF ProgressInv

(* One after another, requests that do not die keep ProgressInv.           *)
THEOREM NothingIsLeft ==
  ASSUME OneAtATime
  PROVE  LiveSpec => []ProgressInv
<1>1. IInv /\ ProgressInv /\ [UndisturbedNext]_vars => ProgressInv'
  BY NextProgress
<1>2. [UndisturbedNext]_vars => [Next]_vars
  BY DEF UndisturbedNext, Next
<1>3. LiveSpec => Undisturbed
  BY PTL DEF LiveSpec, Undisturbed, UndisturbedNext
<1>4. Undisturbed => Spec
  BY <1>2, PTL DEF Undisturbed, Spec
<1>5. Undisturbed => []ProgressInv
  BY Invariance, InitProgress, <1>1, <1>4, PTL DEF Undisturbed
<1>. QED BY <1>3, <1>5, PTL

(* If requests come one after another and none dies, between two of them   *)
(* the state of a flow that is not halted is the summary of its steps.     *)
THEOREM SummaryAgreesInTurn ==
  ASSUME OneAtATime
  PROVE  LiveSpec => []SummaryAgrees
<1>1. ProgressInv => SummaryAgrees
  <2> SUFFICES ASSUME ProgressInv, NEW f \in Flows, Settled(f)
               PROVE  flow[f].state = Summary(step[f])
    BY DEF SummaryAgrees
  <2>1. UpToDate(f)
    <3>1. PICK w \in Workers : pc[w] = "idle"
      BY DEF OneAtATime, Settled
    <3>. QED BY <3>1 DEF ProgressInv, Progress, Evaluating
  <2>. QED BY <2>1 DEF UpToDate, Settled
<1>. QED BY NothingIsLeft, <1>1, PTL

(* If requests come one after another and none dies, no step is left       *)
(* PENDING between two of them once its dependencies are done, in a flow   *)
(* whose definition lists steps after those they depend on.                *)
THEOREM NothingLeftBehindInTurn ==
  ASSUME OneAtATime
  PROVE  LiveSpec => []NothingLeftBehind
<1>1. ProgressInv => NothingLeftBehind
  <2> SUFFICES ASSUME ProgressInv, Listed, NEW f \in Flows, Settled(f), NEW s \in Steps
               PROVE  ~Promotable(step[f], s)
    BY DEF NothingLeftBehind
  <2>1. PICK w \in Workers : pc[w] = "idle"
    BY DEF OneAtATime, Settled
  <2>2. UpToDate(f)
    BY <2>1 DEF ProgressInv, Progress, Evaluating
  <2>. QED BY <2>2 DEF UpToDate, Settled
<1>. QED BY NothingIsLeft, <1>1, PTL
=============================================================================
