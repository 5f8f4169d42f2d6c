------------------------- MODULE FlowOrchestration -------------------------
(***************************************************************************)
(* Flow OS (packages/flow-orchestration): the orchestrator that carries a  *)
(* commercial flow through the steps of its definition.  FlowOrchestrator  *)
(* keeps nothing in memory: every request reads documents of the durable   *)
(* store, decides, and writes documents back.  A read is one database      *)
(* transaction and a write (with its audit record and outbox event) is     *)
(* another, the store overwrites a document without comparing versions,    *)
(* and nothing serialises two requests on one flow.  So a request is a     *)
(* worker with a control label, and each read and each write is one step;  *)
(* what a worker carries between them, in job, may be stale by the time it *)
(* is written.  A worker may die between any two steps (Crash), which is   *)
(* also what a failed store call looks like from outside.                  *)
(***************************************************************************)
EXTENDS Naturals, FiniteSets

CONSTANTS
  Workers,      \* requests in flight at once (any number of server processes)
  Flows,        \* identifiers of flow instances
  NSteps,       \* the definition has steps 1..NSteps, in the order of definition.steps
  Deps,         \* Deps[s]: the dependencies of s
  Kind,         \* Kind[s]: what dispatch does with s, one of StepKinds
  EventOf,      \* EventOf[s]: the event a step of kind "event" waits for
  Gate,         \* Gate[s]: index of minimumAssurance in assuranceOrder, 0 if absent
  MaxAttempts,  \* MaxAttempts[s]: retry.maxAttempts, 0 if the step has no retry
  Levels,       \* assurance levels (indices in assuranceOrder) a flow is started at
  StartKeys,    \* idempotency keys of start commands
  SignalKeys,   \* idempotency keys of signals
  Tasks,        \* identifiers of human tasks; bounds how many are ever created
  Requests,     \* the requests that callers make, a subset of RequestKinds
  MaxRuns,      \* bound: no step is dispatched again once it has run this often
  Nil           \* no value

StepKinds == {"plain", "handler", "missing", "event", "human"}
RequestKinds ==
  {"start", "dispatch", "signal", "decide", "suspend", "resume", "recover"}

Steps  == 1..NSteps
Events == {EventOf[s] : s \in Steps}

(* FlowRegistry.register refuses a dependency that is not a step.  Cycles  *)
(* are not refused, and none of what follows assumes there is none.        *)
ASSUME DefinitionAssumption ==
  /\ NSteps \in Nat \ {0}
  /\ Deps \in [Steps -> SUBSET Steps]
  /\ Kind \in [Steps -> StepKinds]
  /\ DOMAIN EventOf = Steps
  /\ Gate \in [Steps -> Nat]
  /\ MaxAttempts \in [Steps -> Nat]

ASSUME EnvironmentAssumption ==
  /\ Levels \subseteq Nat
  /\ Requests \subseteq RequestKinds
  /\ MaxRuns \in Nat \ {0}
  /\ Nil \notin Flows \cup Tasks \cup StartKeys \cup SignalKeys

VARIABLES
  flow,      \* flowInstances: state, idempotency key and assurance level
  step,      \* flowStepInstances: state, attempts and whether lastError is set
  tasks,     \* humanTasks
  signals,   \* flowSignals: how many rows hold a key, a flow and an event
  ran,       \* how often the handler of a step has been called (its effect)
  emitted,   \* STEP_COMPLETED events in the outbox
  pc,        \* the next database or handler call of each worker
  job        \* what the worker carries in memory

store == <<flow, step, tasks, signals, ran, emitted>>
vars  == <<flow, step, tasks, signals, ran, emitted, pc, job>>

(* No code writes CANCELLED, which the type of the source also lists.      *)
FlowStates ==
  {"none", "READY", "RUNNING", "WAITING_DEPENDENCY", "WAITING_EVENT",
   "WAITING_HUMAN", "RETRY_PENDING", "SUSPENDED", "FAILED", "COMPLETED"}
StepStates ==
  {"PENDING", "READY", "RUNNING", "WAITING_EVENT", "WAITING_HUMAN",
   "COMPLETED", "FAILED", "SKIPPED"}

HaltedButSuspended == {"FAILED", "COMPLETED"}
Halted      == {"FAILED", "COMPLETED", "SUSPENDED"}

CompletableButHuman == {"RUNNING", "WAITING_EVENT"}
Completable == {"RUNNING", "WAITING_EVENT", "WAITING_HUMAN"}
Verdicts    == {"APPROVED", "REJECTED"}

StepRec == [state : StepStates, attempts : Nat, error : BOOLEAN]
FlowRec == [state : FlowStates, key : StartKeys \cup {Nil}, level : Nat]
TaskRec == [status : {"none", "OPEN"} \cup Verdicts,
            f : Flows \cup {Nil}, s : Steps \cup {0}]
Signal  == SignalKeys \X Flows \X Events

Pending == [state |-> "PENDING", attempts |-> 0, error |-> FALSE]
NoFlow  == [state |-> "none", key |-> Nil, level |-> 0]
NoTask  == [status |-> "none", f |-> Nil, s |-> 0]

(* f, s: the flow and step worked on.  seen: the flow state read by        *)
(* evaluate.  snap, cur: its map byId and its place in definition.steps.   *)
(* rec: the step document to overwrite.  to: the state to write.  ev, key: *)
(* the request's arguments.  todo: the waiting steps a signal has still to *)
(* complete; again: whether it still owes its last evaluate.               *)
NoJob ==
  [f |-> Nil, s |-> 0, seen |-> "none", snap |-> [s \in Steps |-> Pending],
   cur |-> 1, rec |-> Pending, to |-> "none", ev |-> Nil, key |-> Nil,
   todo |-> {}, again |-> FALSE, task |-> Nil]

Init ==
  /\ flow    = [f \in Flows |-> NoFlow]
  /\ step    = [f \in Flows |-> [s \in Steps |-> Pending]]
  /\ tasks   = [t \in Tasks |-> NoTask]
  /\ signals = [r \in Signal |-> 0]
  /\ ran     = [f \in Flows |-> [s \in Steps |-> 0]]
  /\ emitted = [f \in Flows |-> [s \in Steps |-> 0]]
  /\ pc      = [w \in Workers |-> "idle"]
  /\ job     = [w \in Workers |-> NoJob]

----------------------------------------------------------------------------
(* Control.                                                                *)

Exists(f) == flow[f].state # "none"

Goto(w, label, j) ==
  /\ pc' = [pc EXCEPT ![w] = label]
  /\ job' = [job EXCEPT ![w] = j]

(* The request returns, or throws: nothing of it is left.                  *)
Finish(w) == Goto(w, "idle", NoJob)

(* evaluate(flowId), with what the caller of evaluate still has to do.     *)
Evaluate(w, f) ==
  Goto(w, "eval", [NoJob EXCEPT !.f = f, !.ev = job[w].ev,
                                !.todo = job[w].todo, !.again = job[w].again])

ReturnAgain(w) ==
  IF job[w].again
  THEN Goto(w, "eval", [NoJob EXCEPT !.f = job[w].f, !.again = TRUE])
  ELSE Finish(w)

(* evaluate returns.  Every caller but signal returns too; signal goes on  *)
(* with the steps it found waiting, in the order the store listed them,    *)
(* which is that of their random identifiers, and then evaluates once more.*)
Return(w) ==
  \/ /\ job[w].todo = {}
     /\ ~job[w].again
     /\ Finish(w)
  \/ /\ job[w].todo = {}
     /\ job[w].again
     /\ Goto(w, "eval", [NoJob EXCEPT !.f = job[w].f])
  \/ \E s \in job[w].todo :
       Goto(w, "complete",
            [NoJob EXCEPT !.f = job[w].f, !.s = s, !.ev = job[w].ev,
                          !.todo = job[w].todo \ {s}, !.again = TRUE])

PutStep(f, s, r)  == step' = [step EXCEPT ![f][s] = r]
PutState(f, st)   == flow' = [flow EXCEPT ![f].state = st]

(* A request is refused a new identifier when the requests in flight could *)
(* use up the bounded supply: no request is ever blocked half-way.         *)
Room(free, inFlight) == Cardinality(free) > Cardinality(inFlight)
FlowRoom == Room({f \in Flows : ~Exists(f)}, {w \in Workers : pc[w] = "insert"})
TaskRoom ==
  Room({t \in Tasks : tasks[t].status = "none"},
       {w \in Workers : /\ pc[w] \in {"dispatch", "begin", "wait"}
                        /\ Kind[job[w].s] = "human"})

----------------------------------------------------------------------------
(* start                                                                   *)

Start(w) ==
  /\ "start" \in Requests
  /\ pc[w] = "idle"
  /\ FlowRoom
  /\ \E k \in StartKeys :
       /\ \A f \in Flows : Exists(f) => flow[f].key # k
       /\ Goto(w, "insert", [NoJob EXCEPT !.key = k])
  /\ UNCHANGED store

(* One transaction inserts the flow and all its steps, PENDING: a flow     *)
(* that does not exist has exactly those steps here.                       *)
InsertFlow(w) ==
  /\ pc[w] = "insert"
  /\ \E f \in Flows, l \in Levels :
       /\ ~Exists(f)
       /\ flow' = [flow EXCEPT ![f] =
                     [state |-> "READY", key |-> job[w].key, level |-> l]]
       /\ Evaluate(w, f)
  /\ UNCHANGED <<step, tasks, signals, ran, emitted>>

----------------------------------------------------------------------------
(* evaluate: promote what has become ready, then summarise the flow.       *)

EvalReadFlow(w) ==
  /\ pc[w] = "eval"
  /\ LET f == job[w].f
     IN IF flow[f].state \in Halted
        THEN Return(w)
        ELSE Goto(w, "evalSteps", [job[w] EXCEPT !.seen = flow[f].state])
  /\ UNCHANGED store

EvalReadSteps(w) ==
  /\ pc[w] = "evalSteps"
  /\ Goto(w, "promote", [job[w] EXCEPT !.snap = step[job[w].f]])
  /\ UNCHANGED store

PromotableOnceStarted(snap, s) ==
  /\ snap[s].state = "PENDING"
  /\ \A d \in Deps[s] : snap[d].state # "PENDING"

PromotableAgain(snap, s) ==
  \A d \in Deps[s] : snap[d].state \in {"COMPLETED", "SKIPPED"}

Promotable(snap, s) ==
  /\ snap[s].state = "PENDING"
  /\ \A d \in Deps[s] : snap[d].state \in {"COMPLETED", "SKIPPED"}

FirstPromotion(w) ==
  {s \in Steps : /\ job[w].cur = 1
                 /\ Promotable(job[w].snap, s)
                 /\ \A t \in 1..(s - 1) : ~Promotable(job[w].snap, t)}

NextPromotion(w) ==
  {s \in Steps : /\ job[w].cur <= s
                 /\ Promotable(job[w].snap, s)
                 /\ \A t \in job[w].cur..(s - 1) : ~Promotable(job[w].snap, t)}

(* The rank of the flow's assurance level is below the step's minimum.     *)
Skips(f, s) == flow[f].level < Gate[s]

PromotedToFlowState(f, s) == IF Skips(f, s) THEN "SKIPPED" ELSE "WAITING_DEPENDENCY"
Promoted(f, s) == IF Skips(f, s) THEN "SKIPPED" ELSE "READY"

Promote(w) ==
  /\ pc[w] = "promote"
  /\ \E s \in NextPromotion(w) :
       LET f   == job[w].f
           new == [job[w].snap[s] EXCEPT !.state = Promoted(f, s)]
       IN /\ PutStep(f, s, new)
          /\ Goto(w, "promote", [job[w] EXCEPT !.snap[s] = new, !.cur = s + 1])
  /\ UNCHANGED <<flow, tasks, signals, ran, emitted>>

Some(steps, states) == \E s \in Steps : steps[s].state \in states

SummarySome(steps) ==
  IF Some(steps, {"COMPLETED", "SKIPPED"}) THEN "COMPLETED" ELSE "RUNNING"

Summary(steps) ==
  IF \A s \in Steps : steps[s].state \in {"COMPLETED", "SKIPPED"} THEN "COMPLETED"
  ELSE IF Some(steps, {"WAITING_HUMAN"})    THEN "WAITING_HUMAN"
  ELSE IF Some(steps, {"WAITING_EVENT"})    THEN "WAITING_EVENT"
  ELSE IF Some(steps, {"READY", "RUNNING"}) THEN "RUNNING"
  ELSE "WAITING_DEPENDENCY"

(* Steps are read again after the last promotion; the flow is not.         *)
Refresh(w) ==
  /\ pc[w] = "promote"
  /\ NextPromotion(w) = {}
  /\ LET to == Summary(step[job[w].f])
     IN IF to = job[w].seen
        THEN Return(w)
        ELSE Goto(w, "settle", [job[w] EXCEPT !.to = to, !.cur = 1,
                                   !.snap = NoJob.snap, !.seen = "none"])
  /\ UNCHANGED store

Settle(w) ==
  /\ pc[w] = "settle"
  /\ PutState(job[w].f, job[w].to)
  /\ Return(w)
  /\ UNCHANGED <<step, tasks, signals, ran, emitted>>

----------------------------------------------------------------------------
(* dispatch                                                                *)

Executable(f) == Exists(f) /\ flow[f].state \notin Halted

Dispatch(w) ==
  /\ "dispatch" \in Requests
  /\ pc[w] = "idle"
  /\ \E f \in Flows, s \in Steps :
       /\ Executable(f)
       /\ ran[f][s] < MaxRuns /\ emitted[f][s] < MaxRuns
       /\ Kind[s] = "human" => TaskRoom
       /\ Goto(w, "dispatch", [NoJob EXCEPT !.f = f, !.s = s])
  /\ UNCHANGED store

DispatchReadStep(w) ==
  /\ pc[w] = "dispatch"
  /\ LET r == step[job[w].f][job[w].s]
     IN IF r.state = "READY"
        THEN Goto(w, "begin", [job[w] EXCEPT !.rec = r])
        ELSE Finish(w)
  /\ UNCHANGED store

RouteIgnoringRole(s) ==
  CASE Kind[s] = "event"              -> "wait"
    [] Kind[s] = "handler"            -> "handle"
    [] Kind[s] \in {"plain", "human"} -> "complete"
    [] Kind[s] = "missing"            -> "idle"

(* Where dispatch goes once the step is RUNNING.  A step whose handler is  *)
(* not registered stays RUNNING: dispatch throws after its first write.    *)
Route(s) ==
  CASE Kind[s] \in {"event", "human"} -> "wait"
    [] Kind[s] = "handler"            -> "handle"
    [] Kind[s] = "plain"              -> "complete"
    [] Kind[s] = "missing"            -> "idle"

StartedUncounted(r) == [r EXCEPT !.state = "RUNNING"]
Started(r) == [r EXCEPT !.state = "RUNNING", !.attempts = @ + 1]

BeginStep(w) ==
  /\ pc[w] = "begin"
  /\ LET f   == job[w].f
         s   == job[w].s
         new == Started(job[w].rec)
     IN /\ PutStep(f, s, new)
        /\ Goto(w, Route(s),
                IF Route(s) = "idle" THEN NoJob
                ELSE [NoJob EXCEPT !.f = f, !.s = s,
                        !.rec = IF Route(s) = "wait" THEN new ELSE NoJob.rec])
  /\ UNCHANGED <<flow, tasks, signals, ran, emitted>>

AwaitEvent(w) ==
  /\ pc[w] = "wait"
  /\ Kind[job[w].s] = "event"
  /\ PutStep(job[w].f, job[w].s, [job[w].rec EXCEPT !.state = "WAITING_EVENT"])
  /\ Evaluate(w, job[w].f)
  /\ UNCHANGED <<flow, tasks, signals, ran, emitted>>

AwaitHuman(w) ==
  /\ pc[w] = "wait"
  /\ Kind[job[w].s] = "human"
  /\ \E t \in Tasks :
       /\ tasks[t].status = "none"
       /\ tasks' = [tasks EXCEPT ![t] =
                      [status |-> "OPEN", f |-> job[w].f, s |-> job[w].s]]
  /\ PutStep(job[w].f, job[w].s, [job[w].rec EXCEPT !.state = "WAITING_HUMAN"])
  /\ Evaluate(w, job[w].f)
  /\ UNCHANGED <<flow, signals, ran, emitted>>

(* The handler runs outside the store: it returns, and complete follows,   *)
(* or it throws, and fail does.                                            *)
RunHandler(w) ==
  /\ pc[w] = "handle"
  /\ ran' = [ran EXCEPT ![job[w].f][job[w].s] = @ + 1]
  /\ \E after \in {"complete", "fail"} : Goto(w, after, job[w])
  /\ UNCHANGED <<flow, step, tasks, signals, emitted>>

----------------------------------------------------------------------------
(* complete and fail, the two ways a step ends                             *)

CompleteRead(w) ==
  /\ pc[w] = "complete"
  /\ LET r == step[job[w].f][job[w].s]
     IN IF r.state \in Completable
        THEN Goto(w, "completeWrite", [job[w] EXCEPT !.rec = r])
        ELSE Finish(w)
  /\ UNCHANGED store

CompleteWriteOnly(w) ==
  /\ pc[w] = "completeWrite"
  /\ PutStep(job[w].f, job[w].s, [job[w].rec EXCEPT !.state = "COMPLETED"])
  /\ emitted' = [emitted EXCEPT ![job[w].f][job[w].s] = @ + 1]
  /\ Finish(w)
  /\ UNCHANGED <<flow, tasks, signals, ran>>

CompleteWrite(w) ==
  /\ pc[w] = "completeWrite"
  /\ PutStep(job[w].f, job[w].s, [job[w].rec EXCEPT !.state = "COMPLETED"])
  /\ emitted' = [emitted EXCEPT ![job[w].f][job[w].s] = @ + 1]
  /\ Evaluate(w, job[w].f)
  /\ UNCHANGED <<flow, tasks, signals, ran>>

(* fail reads the flow too, but writes back only what never changes of it. *)
FailRead(w) ==
  /\ pc[w] = "fail"
  /\ Goto(w, "failWrite", [job[w] EXCEPT !.rec = step[job[w].f][job[w].s]])
  /\ UNCHANGED store

MayRetryOnceMore(r, s) == r.attempts <= MaxAttempts[s]
MayRetry(r, s) == r.attempts < MaxAttempts[s]

FailWrite(w) ==
  /\ pc[w] = "failWrite"
  /\ LET retry == MayRetry(job[w].rec, job[w].s)
     IN /\ PutStep(job[w].f, job[w].s,
                   [job[w].rec EXCEPT !.state = IF retry THEN "READY" ELSE "FAILED",
                                      !.error = TRUE])
        /\ PutState(job[w].f, IF retry THEN "RETRY_PENDING" ELSE "FAILED")
  /\ Finish(w)
  /\ UNCHANGED <<tasks, signals, ran, emitted>>

----------------------------------------------------------------------------
(* signal                                                                  *)

(* The duplicate check looks for the key alone, whatever flow and event    *)
(* the recorded signal was for, and a duplicate returns at once.           *)
SignalFlow(w) ==
  /\ "signal" \in Requests
  /\ pc[w] = "idle"
  /\ \E f \in Flows, e \in Events, k \in SignalKeys :
       /\ Exists(f)
       /\ \A r \in Signal : r[1] = k => signals[r] = 0
       /\ Goto(w, "record", [NoJob EXCEPT !.f = f, !.ev = e, !.key = k])
  /\ UNCHANGED store

RecordSignal(w) ==
  /\ pc[w] = "record"
  /\ signals' = [signals EXCEPT ![<<job[w].key, job[w].f, job[w].ev>>] = @ + 1]
  /\ Goto(w, "scan", [NoJob EXCEPT !.f = job[w].f, !.ev = job[w].ev])
  /\ UNCHANGED <<flow, step, tasks, ran, emitted>>

AwaitsAny(s, e) == Kind[s] = "event"
Awaits(s, e) == Kind[s] = "event" /\ EventOf[s] = e

ScanWaiting(w) ==
  /\ pc[w] = "scan"
  /\ LET f       == job[w].f
         waiting == {s \in Steps : /\ step[f][s].state = "WAITING_EVENT"
                                   /\ Awaits(s, job[w].ev)}
     IN \/ /\ waiting = {}
           /\ Goto(w, "eval", [NoJob EXCEPT !.f = f])
        \/ \E s \in waiting :
             Goto(w, "complete",
                  [NoJob EXCEPT !.f = f, !.s = s, !.ev = job[w].ev,
                                !.todo = waiting \ {s}, !.again = TRUE])
  /\ UNCHANGED store

----------------------------------------------------------------------------
(* decide: an actor who holds the task's role approves or rejects it.      *)

Decidable(t) == tasks[t].status = "OPEN"

Decide(w) ==
  /\ "decide" \in Requests
  /\ pc[w] = "idle"
  /\ \E t \in Tasks, verdict \in Verdicts :
       /\ Decidable(t)
       /\ Goto(w, "decide", [NoJob EXCEPT !.task = t, !.to = verdict,
                                          !.f = tasks[t].f, !.s = tasks[t].s])
  /\ UNCHANGED store

AfterAnyVerdict(verdict) == "complete"
AfterVerdict(verdict) == IF verdict = "APPROVED" THEN "complete" ELSE "fail"

DecideWrite(w) ==
  /\ pc[w] = "decide"
  /\ tasks' = [tasks EXCEPT ![job[w].task].status = job[w].to]
  /\ Goto(w, AfterVerdict(job[w].to),
          [NoJob EXCEPT !.f = job[w].f, !.s = job[w].s])
  /\ UNCHANGED <<flow, step, signals, ran, emitted>>

----------------------------------------------------------------------------
(* suspend and resume                                                      *)

Suspend(w) ==
  /\ "suspend" \in Requests
  /\ pc[w] = "idle"
  /\ \E f \in Flows :
       /\ Exists(f)
       /\ flow[f].state \notin {"FAILED", "COMPLETED"}
       /\ Goto(w, "suspend", [NoJob EXCEPT !.f = f])
  /\ UNCHANGED store

SuspendWrite(w) ==
  /\ pc[w] = "suspend"
  /\ PutState(job[w].f, "SUSPENDED")
  /\ Finish(w)
  /\ UNCHANGED <<step, tasks, signals, ran, emitted>>

Resume(w) ==
  /\ "resume" \in Requests
  /\ pc[w] = "idle"
  /\ \E f \in Flows :
       /\ flow[f].state = "SUSPENDED"
       /\ Goto(w, "resume", [NoJob EXCEPT !.f = f])
  /\ UNCHANGED store

ResumeWrite(w) ==
  /\ pc[w] = "resume"
  /\ PutState(job[w].f, "READY")
  /\ Evaluate(w, job[w].f)
  /\ UNCHANGED <<step, tasks, signals, ran, emitted>>

----------------------------------------------------------------------------
(* FlowRecovery.retry: an operator makes a failed step READY again.        *)

Recover(w) ==
  /\ "recover" \in Requests
  /\ pc[w] = "idle"
  /\ \E f \in Flows :
       /\ flow[f].state \in {"FAILED", "RETRY_PENDING"}
       /\ Goto(w, "recover", [NoJob EXCEPT !.f = f])
  /\ UNCHANGED store

RecoverRead(w) ==
  /\ pc[w] = "recover"
  /\ LET f      == job[w].f
         failed == {s \in Steps : step[f][s].state = "FAILED"}
         retry  == {s \in Steps : step[f][s].state = "READY" /\ step[f][s].error}
         target == IF failed # {} THEN failed ELSE retry
     IN \/ /\ target = {}
           /\ Finish(w)
        \/ \E s \in target :
             Goto(w, "recoverWrite",
                  [NoJob EXCEPT !.f = f, !.s = s, !.rec = step[f][s]])
  /\ UNCHANGED store

RecoverStepOnly(w) ==
  /\ pc[w] = "recoverWrite"
  /\ PutStep(job[w].f, job[w].s, [job[w].rec EXCEPT !.state = "READY"])
  /\ Finish(w)
  /\ UNCHANGED <<flow, tasks, signals, ran, emitted>>

RecoverWrite(w) ==
  /\ pc[w] = "recoverWrite"
  /\ PutStep(job[w].f, job[w].s, [job[w].rec EXCEPT !.state = "READY"])
  /\ PutState(job[w].f, "READY")
  /\ Finish(w)
  /\ UNCHANGED <<tasks, signals, ran, emitted>>

----------------------------------------------------------------------------
Request(w) ==
  \/ Start(w) \/ Dispatch(w) \/ SignalFlow(w) \/ Decide(w)
  \/ Suspend(w) \/ Resume(w) \/ Recover(w)

Advance(w) ==
  \/ InsertFlow(w) \/ EvalReadFlow(w) \/ EvalReadSteps(w) \/ Promote(w)
  \/ Refresh(w) \/ Settle(w) \/ DispatchReadStep(w) \/ BeginStep(w)
  \/ AwaitEvent(w) \/ AwaitHuman(w) \/ RunHandler(w) \/ CompleteRead(w)
  \/ CompleteWrite(w) \/ FailRead(w) \/ FailWrite(w) \/ RecordSignal(w)
  \/ ScanWaiting(w) \/ DecideWrite(w) \/ SuspendWrite(w) \/ ResumeWrite(w)
  \/ RecoverRead(w) \/ RecoverWrite(w)

(* The process dies, or a store call fails: the request is abandoned with  *)
(* what it has committed so far, and nothing takes it up again.            *)
Crash(w) ==
  /\ pc[w] # "idle"
  /\ Finish(w)
  /\ UNCHANGED store

Next == \E w \in Workers : Request(w) \/ Advance(w) \/ Crash(w)

Spec == Init /\ [][Next]_vars

(* Without crashes: every store call and every handler call returns, so a  *)
(* request that is under way goes on.  Nothing obliges a caller to make a  *)
(* request.                                                                *)
LiveSpec ==
  /\ Init
  /\ [][\E w \in Workers : Request(w) \/ Advance(w)]_vars
  /\ \A w \in Workers : WF_vars(Advance(w))
----------------------------------------------------------------------------
(* What the durable documents promise, whatever requests race and die.     *)

JobRec ==
  [f : Flows \cup {Nil}, s : Steps \cup {0}, seen : FlowStates,
   snap : [Steps -> StepRec], cur : 1..(NSteps + 1), rec : StepRec,
   to : FlowStates \cup Verdicts, ev : Events \cup {Nil},
   key : StartKeys \cup SignalKeys \cup {Nil},
   todo : SUBSET Steps, again : BOOLEAN, task : Tasks \cup {Nil}]

Labels ==
  {"idle", "insert", "eval", "evalSteps", "promote", "settle", "dispatch",
   "begin", "wait", "handle", "complete", "completeWrite", "fail", "failWrite",
   "record", "scan", "decide", "suspend", "resume", "recover", "recoverWrite"}

(* Every document and every variable of a request has its type.            *)
TypeOK ==
  /\ flow    \in [Flows -> FlowRec]
  /\ step    \in [Flows -> [Steps -> StepRec]]
  /\ tasks   \in [Tasks -> TaskRec]
  /\ signals \in [Signal -> Nat]
  /\ ran     \in [Flows -> [Steps -> Nat]]
  /\ emitted \in [Flows -> [Steps -> Nat]]
  /\ pc      \in [Workers -> Labels]
  /\ job     \in [Workers -> JobRec]

(* The durable evidence that s is behind the flow.                         *)
Done(f, s) == emitted[f][s] > 0 \/ step[f][s].state = "SKIPPED"

(* A step leaves PENDING only when every step it depends on has been       *)
(* completed or skipped: evaluate promotes from a list of steps that may   *)
(* be long out of date, and a stale write may even turn a completed step   *)
(* back, but what it saw complete was complete.                            *)
DependencyOrder ==
  \A f \in Flows, s \in Steps :
    step[f][s].state # "PENDING" => \A d \in Deps[s] : Done(f, d)

(* No handler is called for a step before all the steps it depends on are  *)
(* done, nor for a step that the flow's assurance level skips.             *)
EffectsAfterDependencies ==
  \A f \in Flows, s \in Steps :
    ran[f][s] > 0 => /\ ~Skips(f, s)
                     /\ \A d \in Deps[s] : Done(f, d)

(* A flow is COMPLETED only after every step of it has been completed or   *)
(* skipped, though evaluate writes COMPLETED over whatever the flow has    *)
(* become since it was read.                                               *)
ClosedAfterWork ==
  \A f \in Flows :
    flow[f].state = "COMPLETED" => \A s \in Steps : Done(f, s)

(* A step that waits for a domain event is completed only if a signal with *)
(* that event was recorded for its flow.                                   *)
EventGate ==
  \A f \in Flows, s \in Steps :
    Kind[s] = "event" /\ emitted[f][s] > 0
      => \E k \in SignalKeys : signals[<<k, f, EventOf[s]>>] > 0

(* A step that needs a person is completed only if a person decided a task *)
(* that was created for it.                                                *)
HumanGate ==
  \A f \in Flows, s \in Steps :
    Kind[s] = "human" /\ emitted[f][s] > 0
      => \E t \in Tasks : /\ tasks[t].f = f /\ tasks[t].s = s
                          /\ tasks[t].status \in Verdicts

(* A step is attempted at most retry.maxAttempts times (once, without a    *)
(* retry) as long as no operator recovers a failed flow: dispatch itself   *)
(* never compares attempts with the limit.                                 *)
Budget(s) == IF MaxAttempts[s] > 1 THEN MaxAttempts[s] ELSE 1
RetryBudget ==
  "recover" \notin Requests =>
    \A f \in Flows, s \in Steps : step[f][s].attempts <= Budget(s)

----------------------------------------------------------------------------
(* Why they hold: facts that, once true of the documents, stay true, and   *)
(* the use each request makes of them.                                     *)

LiveStep(f, s) == step[f][s].state \notin {"PENDING", "SKIPPED"}
Recorded(f, e) == \E k \in SignalKeys : signals[<<k, f, e>>] > 0
Decided(f, s)  == \E t \in Tasks : /\ tasks[t].f = f /\ tasks[t].s = s
                                   /\ tasks[t].status \in Verdicts

(* Completion is on record; assurance decides alone which steps are        *)
(* skipped; a flow that does not exist has done nothing.                   *)
StepsSound ==
  \A f \in Flows, s \in Steps :
    /\ step[f][s].state = "COMPLETED" => emitted[f][s] > 0
    /\ step[f][s].state = "SKIPPED"   => Skips(f, s)
    /\ LiveStep(f, s) => ~Skips(f, s)
    /\ ran[f][s] > 0  => LiveStep(f, s)
    /\ ~Exists(f) => step[f][s].state = "PENDING"

(* A READY step has an attempt left.                                       *)
AttemptsSound ==
  \A f \in Flows, s \in Steps :
    LET r == step[f][s]
    IN /\ r.state = "PENDING" => r.attempts = 0
       /\ "recover" \notin Requests =>
            /\ r.attempts <= Budget(s)
            /\ r.state = "READY" => r.attempts < Budget(s)

TasksSound ==
  \A t \in Tasks :
    tasks[t].status # "none" => /\ tasks[t].f \in Flows /\ tasks[t].s \in Steps
                                /\ LiveStep(tasks[t].f, tasks[t].s)
                                /\ Kind[tasks[t].s] = "human"

HoldsFlow == Labels \ {"idle", "insert"}
HoldsStep == {"dispatch", "begin", "wait", "handle", "complete",
              "completeWrite", "fail", "failWrite", "decide", "recoverWrite"}

(* What each request was told before is still so: the flow exists, the     *)
(* step it writes has been promoted, what its list of steps shows as done  *)
(* is done, the signal or the decision it acts on is recorded.             *)
FlowSound(l, j) == l \in HoldsFlow => j.f \in Flows /\ Exists(j.f)
StepSound(l, j) ==
  l \in HoldsStep => /\ j.s \in Steps
                     /\ l # "dispatch" => LiveStep(j.f, j.s)
TodoSound(l, j) ==
  j.todo # {} =>
    /\ l \in HoldsFlow
    /\ \A s \in j.todo : /\ LiveStep(j.f, s) /\ Kind[s] = "event"
                         /\ Recorded(j.f, EventOf[s])
SnapSound(l, j) ==
  l = "promote" =>
    \A s \in Steps :
      /\ j.snap[s].state \in {"COMPLETED", "SKIPPED"} => Done(j.f, s)
      /\ j.snap[s].state = "PENDING" => j.snap[s].attempts = 0
RecordSound(l, j) ==
  "recover" \notin Requests =>
    /\ l = "begin" => j.rec.attempts < Budget(j.s)
    /\ l \in {"wait", "completeWrite", "failWrite"} =>
         j.rec.attempts <= Budget(j.s)
    /\ l \notin {"recover", "recoverWrite"}
CauseSound(l, j) ==
  /\ l = "handle" => Kind[j.s] = "handler"
  /\ l \in {"complete", "completeWrite"} =>
       /\ Kind[j.s] = "event" => Recorded(j.f, EventOf[j.s])
       /\ Kind[j.s] = "human" => Decided(j.f, j.s)
ArgsSound(l, j) ==
  /\ l = "insert" => j.key \in StartKeys
  /\ l = "record" => j.key \in SignalKeys /\ j.ev \in Events
  /\ l = "scan"   => j.ev \in Events /\ Recorded(j.f, j.ev)
  /\ l = "decide" => /\ j.task \in Tasks /\ j.to \in Verdicts
                     /\ tasks[j.task].f = j.f /\ tasks[j.task].s = j.s
                     /\ tasks[j.task].status # "none"
  /\ l = "settle" => /\ j.to \in FlowStates \ {"none"}
                     /\ j.to = "COMPLETED" => \A s \in Steps : Done(j.f, s)

JobSound(l, j) ==
  /\ FlowSound(l, j) /\ StepSound(l, j) /\ TodoSound(l, j) /\ SnapSound(l, j)
  /\ RecordSound(l, j) /\ CauseSound(l, j) /\ ArgsSound(l, j)

(* The inductive invariant behind the properties above.                    *)
IInv ==
  /\ TypeOK
  /\ StepsSound /\ AttemptsSound /\ TasksSound
  /\ DependencyOrder /\ ClosedAfterWork /\ EventGate /\ HumanGate
  /\ \A w \in Workers : JobSound(pc[w], job[w])

(* The documents implement FlowPlan: the outbox and the skipped steps say  *)
(* which steps are behind a flow.                                          *)
PlanDone   == [f \in Flows |-> {s \in Steps : Done(f, s)}]
PlanClosed == {f \in Flows : flow[f].state = "COMPLETED"}
Plan == INSTANCE FlowPlan WITH done <- PlanDone, closed <- PlanClosed
PlanSpec == Plan!Spec

----------------------------------------------------------------------------
(* What holds when a flow's requests come one after another (one worker),  *)
(* though each may die half-way.                                           *)

(* What is behind the flow stays behind it: a completed or skipped step is *)
(* never touched again.                                                    *)
StepsFinal ==
  [][\A f \in Flows, s \in Steps :
       step[f][s].state \in {"COMPLETED", "SKIPPED"}
         => step'[f][s] = step[f][s]]_step

(* A completed flow stays completed, and a suspended one is not moved by   *)
(* evaluate: only resume, or the rejection of a task, takes it out.        *)
HaltedStays ==
  [][\A f \in Flows :
       /\ flow[f].state = "COMPLETED" => flow'[f] = flow[f]
       /\ flow[f].state = "SUSPENDED" =>
            flow'[f].state \in {"SUSPENDED", "READY", "RETRY_PENDING", "FAILED"}]_flow

(* A handler is called at most once for each attempt on record, so that a  *)
(* crash after the call does not lead to a second one.                     *)
EffectPerAttempt ==
  \A f \in Flows, s \in Steps : ran[f][s] <= step[f][s].attempts

(* A failed flow has a failed step, so FlowRecovery.retry always finds the *)
(* step to retry, whatever else fails, is retried or is decided meanwhile. *)
FailureHasCause ==
  \A f \in Flows :
    flow[f].state = "FAILED" => \E s \in Steps : step[f][s].state = "FAILED"

(* A human step is completed only with an approval on record, and one that *)
(* waits has a task to be decided unless a decision died half-way.         *)
ApprovalGate ==
  \A f \in Flows, s \in Steps :
    LET of == {t \in Tasks : tasks[t].f = f /\ tasks[t].s = s}
    IN /\ Kind[s] = "human" /\ step[f][s].state = "COMPLETED"
            => \E t \in of : tasks[t].status = "APPROVED"
       /\ step[f][s].state = "WAITING_HUMAN" => of # {}
       /\ Cardinality({t \in of : tasks[t].status = "OPEN"}) <= 1

Summaries == {"RUNNING", "WAITING_DEPENDENCY", "WAITING_EVENT", "WAITING_HUMAN", "COMPLETED"}

Settled(f) == /\ \A w \in Workers : pc[w] = "idle"
              /\ flow[f].state \in Summaries

(* Without crashes, between requests the state of a flow that is neither   *)
(* halted nor waiting for a retry is the summary of its steps.             *)
SummaryAgrees ==
  \A f \in Flows : Settled(f) => flow[f].state = Summary(step[f])

Listed == \A s \in Steps : \A d \in Deps[s] : d < s

(* Nor is a step left behind whose dependencies are done: whichever branch *)
(* ends last, while the flow is suspended or after it failed and recovered,*)
(* someone promotes what waited for it.  One pass of evaluate is enough    *)
(* only if definition.steps lists a step after those it depends on.        *)
NothingLeftBehind ==
  Listed => \A f \in Flows, s \in Steps : Settled(f) => ~Promotable(step[f], s)

(* Why they hold.  What the documents say of each other:                   *)
Final == {"COMPLETED", "SKIPPED"}
NoneOpen(f, s) ==
  \A t \in Tasks : tasks[t].f = f /\ tasks[t].s = s => tasks[t].status # "OPEN"
Approved(f, s) ==
  \E t \in Tasks : tasks[t].f = f /\ tasks[t].s = s /\ tasks[t].status = "APPROVED"

FlowsInTurn ==
  \A f \in Flows :
    /\ flow[f].state = "COMPLETED" => \A s \in Steps : step[f][s].state \in Final
    /\ flow[f].state = "FAILED" => \E s \in Steps : step[f][s].state = "FAILED"

StepsInTurn ==
  \A f \in Flows, s \in Steps :
    /\ ran[f][s] <= step[f][s].attempts
    /\ step[f][s].state = "WAITING_HUMAN" =>
         \E t \in Tasks : tasks[t].f = f /\ tasks[t].s = s /\ tasks[t].status # "none"
    /\ step[f][s].state # "WAITING_HUMAN" => NoneOpen(f, s)
    /\ Kind[s] = "human" /\ step[f][s].state = "COMPLETED" => Approved(f, s)

TasksInTurn == \A t, u \in Tasks : tasks[t].status = "OPEN" /\ tasks[u] = tasks[t] => t = u

(* and what a request has read is still so when it writes.                 *)
FlowRead(l, j) ==
  LET st == flow[j.f].state
  IN /\ l \in {"evalSteps", "promote"} => st = j.seen /\ st \notin Halted
     /\ l = "settle" => st \notin Halted /\ j.to = Summary(step[j.f])
     /\ l = "suspend" => st \notin {"FAILED", "COMPLETED"}
     /\ l = "resume" => st = "SUSPENDED"
     /\ l \in {"recover", "recoverWrite"} => st \in {"FAILED", "RETRY_PENDING"}

StepRead(l, j) ==
  LET r == step[j.f][j.s]
  IN /\ l = "promote" => j.snap = step[j.f]
     /\ l \in {"begin", "wait", "completeWrite", "failWrite", "recoverWrite"} => j.rec = r
     /\ l = "begin" => r.state = "READY"
     /\ l \in {"wait", "handle"} => r.state = "RUNNING"
     /\ l = "handle" => ran[j.f][j.s] < r.attempts
     /\ l \in {"complete", "completeWrite"} => r.state \in Completable
     /\ l \in {"fail", "failWrite"} => r.state \in {"RUNNING", "WAITING_HUMAN"}
     /\ l = "recoverWrite" => r.state \in {"READY", "FAILED"}

TaskRead(l, j) ==
  /\ l = "decide" => tasks[j.task].status = "OPEN"
  /\ l \in {"complete", "completeWrite", "fail", "failWrite"} => NoneOpen(j.f, j.s)
  /\ l \in {"complete", "completeWrite"} /\ Kind[j.s] = "human" => Approved(j.f, j.s)

Evaluating == {"eval", "evalSteps", "promote", "settle"}
TodoRead(l, j) ==
  j.todo # {} =>
    /\ l \in Evaluating \cup {"complete", "completeWrite"}
    /\ \A s \in j.todo : step[j.f][s].state = "WAITING_EVENT"
    /\ l \in {"complete", "completeWrite"} => j.s \notin j.todo

JobInTurn(l, j) == FlowRead(l, j) /\ StepRead(l, j) /\ TaskRead(l, j) /\ TodoRead(l, j)

(* The inductive invariant of requests that come one after another, though *)
(* they may die.                                                           *)
TurnInv ==
  /\ FlowsInTurn /\ StepsInTurn /\ TasksInTurn
  /\ \A w \in Workers : JobInTurn(pc[w], job[w])

(* If none dies: only a flow that is being evaluated is behind its steps.  *)
UpToDate(f) ==
  flow[f].state \in Summaries =>
    /\ flow[f].state = Summary(step[f])
    /\ Listed => \A s \in Steps : ~Promotable(step[f], s)

Progress(l, j) ==
  /\ \A f \in Flows : f # j.f \/ l \notin Evaluating => UpToDate(f)
  /\ l \in {"eval", "evalSteps"} => j.cur = 1
  /\ l = "promote" /\ Listed => \A s \in Steps : s < j.cur => ~Promotable(step[j.f], s)
  /\ l = "settle" /\ Listed => \A s \in Steps : ~Promotable(step[j.f], s)

ProgressInv == TurnInv /\ \A w \in Workers : Progress(pc[w], job[w])

----------------------------------------------------------------------------
(* Liveness, under LiveSpec.                                               *)

(* evaluate, complete and signal call one another; every request ends.     *)
RequestsEnd == \A w \in Workers : pc[w] # "idle" ~> pc[w] = "idle"

(* An approved task completes its step.                                    *)
ApprovalTakesEffect ==
  \A t \in Tasks, f \in Flows, s \in Steps :
    tasks[t] = [status |-> "APPROVED", f |-> f, s |-> s]
      ~> step[f][s].state = "COMPLETED"

----------------------------------------------------------------------------
(* What tests and comments of the repository say, and two requests at once *)
(* refute.                                                                 *)

(* flow-orchestration.test.ts: start commands are deduplicated.            *)
OneFlowPerKey ==
  \A f, g \in Flows :
    Exists(f) /\ Exists(g) /\ flow[f].key = flow[g].key => f = g

(* domain-event-bridge.ts: a replayed event cannot advance the same        *)
(* waiting step twice.                                                     *)
AdvancedOnce ==
  \A f \in Flows, s \in Steps : Kind[s] = "event" => emitted[f][s] <= 1

(* restart-recovery.postgres.test.ts: one effect, exactly once.            *)
EffectOnce ==
  \A f \in Flows, s \in Steps : MaxAttempts[s] = 0 => ran[f][s] <= 1
=============================================================================
