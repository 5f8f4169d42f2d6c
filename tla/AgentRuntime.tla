---------------------------- MODULE AgentRuntime ----------------------------
(***************************************************************************)
(* Engines 61-70 (packages/agent-runtime), for one agent name and one      *)
(* prompt: the registries of capabilities, agent versions, prompt versions *)
(* and policies, human approvals, and the execution of an agent.  What is  *)
(* asked for is among what the lists of the agent and the policy allow; a  *)
(* model answers or does not.                                              *)
(***************************************************************************)
EXTENDS Documents, FiniteSetsExt

CONSTANTS
  People,       \* human actors
  Stamps,       \* bound: the milliseconds in which an approval is consumed
  MaxAttempts   \* bound: the attempts a caller allows an execution

Capability ==
  [active : BOOLEAN, mode : {"READ", "PROPOSE", "EXECUTE_DETERMINISTIC"},
   human : BOOLEAN, protected : BOOLEAN]
RegisteredAgent == [active : BOOLEAN, version : Nat \ {0}]
PromptVersion == [status : {"DRAFT", "PUBLISHED", "RETIRED"}, version : Nat \ {0}]
MemoryEntry == [execution : Nat, sequence : Nat \ {0}]
ApprovalRequest ==
  [status : {"PENDING", "APPROVED", "REJECTED"}, by : People \cup {"none"},
   consumed : Stamps \cup {0}]
TelemetryRecord == [execution : Nat, errors : Nat]
GovernancePolicy == [active : BOOLEAN, version : Nat \ {0}]
AgentExecution ==
  [status : {"QUEUED", "RUNNING", "SUCCEEDED", "FAILED", "CANCELLED"},
   capability : Nat, prompt : Nat]

(* Two are not tables: what deterministic capabilities were asked, and the *)
(* protected actions taken on a consumed approval.                         *)
RowType ==
  [agentCapabilities |-> Capability, registeredAgents |-> RegisteredAgent,
   promptVersions |-> PromptVersion, agentContextSnapshots |-> [checksum : {"sha256"}],
   agentMemory |-> MemoryEntry, agentApprovalRequests |-> ApprovalRequest,
   agentTelemetry |-> TelemetryRecord, agentGovernancePolicies |-> GovernancePolicy,
   agentExecutions |-> AgentExecution, capabilityCalls |-> [execution : Nat],
   protectedActions |-> [approval : Nat]]

AgentAssumption ==
  /\ Stamps \subseteq Nat \ {0} /\ MaxAttempts \in Nat \ {0} /\ "none" \notin People
  /\ Workers # {} /\ Mortals \subseteq Workers /\ MaxRows \in [DOMAIN RowType -> Nat]

TypeOK == \A c \in Collections : \A x \in Ids(c) : db[c][x] \in RowType[c]

----------------------------------------------------------------------------
(* The tables.                                                             *)
PutCapability(x, row) == Put("agentCapabilities", x, row)
PutAgent(x, active) ==
  Put("registeredAgents", x, [db.registeredAgents[x] EXCEPT !.active = active])
PutPrompt(x, to) == Set("promptVersions", x, to)
NewContext == New("agentContextSnapshots", [checksum |-> "sha256"])
NewMemory(row) == New("agentMemory", row)
PutApproval(x, row) == Put("agentApprovalRequests", x, row)
NewTelemetry(row) == New("agentTelemetry", row)
PutPolicy(x, active) ==
  Put("agentGovernancePolicies", x, [db.agentGovernancePolicies[x] EXCEPT !.active = active])
PutExecution(x, row) == Put("agentExecutions", x, row)

Active(c) ==
  {x \in Ids(c) : IF c = "promptVersions" THEN InStatus(c, x, {"PUBLISHED"}) ELSE db[c][x].active}

Registries == {"registeredAgents", "promptVersions", "agentGovernancePolicies"}

(* One active agent version and policy, one published prompt version.      *)
Incumbent(h) ==
  IF h.c = "promptVersions" THEN h.row.status = "PUBLISHED" ELSE h.row.active

OneActive(h) ==
  h.c \in Registries /\ Incumbent(h)
    => Active(h.c) \subseteq (IF h.op = "append" THEN {} ELSE {h.id})

KeyFree(h) ==
  /\ h.c \in Registries => \A x \in Ids(h.c) : db[h.c][x].version # h.row.version
  /\ h.c = "agentMemory" => \A x \in Ids(h.c) : db[h.c][x] # h.row

(* enforce_active_flag_is_monotonic.                                       *)
StaysOff(h) ==
  h.c \in {"agentCapabilities", "agentGovernancePolicies"} /\ h.row.active => db[h.c][h.id].active

(* enforce_agent_approval_finality: a write once may be repeated, with the *)
(* same value.                                                             *)
Final(h) ==
  LET old == db[h.c][h.id]
  IN h.c = "agentApprovalRequests" =>
       /\ old.status # "PENDING" => h.row.status = old.status
       /\ old.by # "none" => h.row.by = old.by
       /\ old.consumed # 0 => h.row.consumed = old.consumed

Admits(h) ==
  OneActive(h) /\ IF h.op = "append" THEN KeyFree(h) ELSE StaysOff(h) /\ Final(h)

----------------------------------------------------------------------------
(* Engine 62.                                                              *)
RegisterCapability(w) ==
  \E row \in Capability :
    /\ Room("agentCapabilities")
    /\ row.active
    /\ row.protected => row.mode = "PROPOSE"
    /\ Ask(w, <<New("agentCapabilities", row)>>)

Deactivate(w) ==
  \E x \in Ids("agentCapabilities") :
    /\ db.agentCapabilities[x].active
    /\ Ask(w, <<PutCapability(x, [db.agentCapabilities[x] EXCEPT !.active = FALSE])>>)

(* Engine 63.                                                              *)
LastVersion(c) == Max({0} \cup {db[c][x].version : x \in Ids(c)})

NextVersion(c) == Max({0} \cup {db[c][x].version : x \in Ids(c)}) + 1

RegisterAgent(w) ==
  /\ Room("registeredAgents")
  /\ Ask(w, <<New("registeredAgents",
                  [active |-> FALSE, version |-> NextVersion("registeredAgents")])>>)

Activate(w) ==
  \E x \in Ids("registeredAgents") : Look(w, [at |-> "activeAgents", id |-> x])

ReadActiveAgents(w) ==
  /\ At(w, "activeAgents")
  /\ \E q \in Listing(Active("registeredAgents")) :
       Decide(w, [n \in DOMAIN q |-> PutAgent(q[n], FALSE)] \o <<PutAgent(job[w].id, TRUE)>>)

(* Engine 64.  rollback finds the version and publishes it.                *)
CreatePrompt(w) ==
  /\ Room("promptVersions")
  /\ Ask(w, <<New("promptVersions",
                  [status |-> "DRAFT", version |-> NextVersion("promptVersions")])>>)

PublishPrompt(w) ==
  \E x \in Ids("promptVersions") : Look(w, [at |-> "published", id |-> x])

ReadPublished(w) ==
  /\ At(w, "published")
  /\ \E q \in Listing(Active("promptVersions")) :
       Decide(w, [n \in DOMAIN q |-> PutPrompt(q[n], "RETIRED")] \o <<PutPrompt(job[w].id, "PUBLISHED")>>)

(* Engine 66.                                                              *)
CreateContext(w) == Room("agentContextSnapshots") /\ Ask(w, <<NewContext>>)

(* Engine 67.                                                              *)
Own(x) == {m \in Ids("agentMemory") : db.agentMemory[m].execution = x}
Entry(x) == [execution |-> x, sequence |-> Cardinality(Own(x)) + 1]

Remember(w) ==
  \E x \in Ids("agentExecutions") :
    Room("agentMemory") /\ Ask(w, <<NewMemory(Entry(x))>>)

(* Engine 68.  The caller of consume then takes the protected action.      *)
RequestApproval(w) ==
  /\ Room("agentApprovalRequests")
  /\ Ask(w, <<New("agentApprovalRequests", [status |-> "PENDING", by |-> "none", consumed |-> 0])>>)

DecideApproval(w) ==
  \E x \in Ids("agentApprovalRequests"), u \in People, to \in {"APPROVED", "REJECTED"} :
    /\ InStatus("agentApprovalRequests", x, {"PENDING"})
    /\ Ask(w, <<PutApproval(x, [status |-> to, by |-> u, consumed |-> 0])>>)

Consume(w) ==
  \E x \in Ids("agentApprovalRequests"), t \in Stamps :
    /\ InStatus("agentApprovalRequests", x, {"APPROVED"})
    /\ db.agentApprovalRequests[x].consumed = 0
    /\ Ask(w, <<PutApproval(x, [db.agentApprovalRequests[x] EXCEPT !.consumed = t]),
                New("protectedActions", [approval |-> x])>>)

(* Engine 70.                                                              *)
PublishPolicy(w) ==
  /\ Room("agentGovernancePolicies")
  /\ \E q \in Listing(Active("agentGovernancePolicies")) :
       Ask(w, [n \in DOMAIN q |-> PutPolicy(q[n], FALSE)]
                \o <<New("agentGovernancePolicies",
                     [active |-> TRUE, version |-> NextVersion("agentGovernancePolicies")])>>)

----------------------------------------------------------------------------
(* Engine 61.                                                              *)
Cancel(w) ==
  \E x \in Ids("agentExecutions") :
    /\ InStatus("agentExecutions", x, {"QUEUED", "RUNNING"})
    /\ Ask(w, <<PutExecution(x, [db.agentExecutions[x] EXCEPT !.status = "CANCELLED"])>>)

Execute(w) ==
  \E x \in Ids("registeredAgents"), c \in Ids("agentCapabilities"), n \in 1..MaxAttempts :
    /\ db.registeredAgents[x].active
    /\ Ids("agentContextSnapshots") # {}
    /\ Look(w, [at |-> "capability", capability |-> c, left |-> n, errors |-> 0])

Step(w, label) == [job[w] EXCEPT !.at = label]

ReadCapability(w) ==
  /\ At(w, "capability")
  /\ IF db.agentCapabilities[job[w].capability].active
     THEN Then(w, Step(w, "policy"))
     ELSE GiveUp(w)

(* authorize.  It asks for an approval only where the capability does.     *)
Authorize(w) ==
  /\ At(w, "policy")
  /\ IF Active("agentGovernancePolicies") # {} THEN Then(w, Step(w, "render")) ELSE GiveUp(w)

Render(w) ==
  /\ At(w, "render")
  /\ IF Active("promptVersions") = {}
     THEN GiveUp(w)
     ELSE \E p \in Active("promptVersions") :
            Then(w, [at |-> "queue", capability |-> job[w].capability, prompt |-> p,
                     left |-> job[w].left, errors |-> 0])

Execution(w, status) ==
  [status |-> status, capability |-> job[w].capability, prompt |-> job[w].prompt]

(* A row written in the middle of a request.                               *)
Does(w, h, j) == db' = Written(h) /\ Carry(w, j)

Queue(w) ==
  /\ At(w, "queue")
  /\ IF Room("agentExecutions")
     THEN Does(w, New("agentExecutions", Execution(w, "QUEUED")),
               [at |-> "run", id |-> Len(db.agentExecutions) + 1,
                capability |-> job[w].capability, prompt |-> job[w].prompt,
                left |-> job[w].left, errors |-> 0])
     ELSE GiveUp(w)

Run(w) ==
  At(w, "run") /\ Does(w, PutExecution(job[w].id, Execution(w, "RUNNING")), Step(w, "user"))

(* Memory is counted, then appended: the user's entry before the attempts, *)
(* the result's after one that succeeded.                                  *)
Recall(w) ==
  /\ At(w, "user") \/ At(w, "result")
  /\ Then(w, [at |-> IF At(w, "user") THEN "userEntry" ELSE "resultEntry", id |-> job[w].id,
              capability |-> job[w].capability, prompt |-> job[w].prompt, left |-> job[w].left,
              errors |-> job[w].errors, entry |-> Entry(job[w].id)])

Begin(w) ==
  /\ At(w, "userEntry")
  /\ LET h == NewMemory(job[w].entry)
     IN IF Room("agentMemory") /\ Admits(h) THEN Does(w, h, Step(w, "invoke")) ELSE GiveUp(w)

(* The model's answer is a proposal, and the input of a deterministic      *)
(* capability that needs no approval.                                      *)
Deterministic(c) ==
  db.agentCapabilities[c].mode = "EXECUTE_DETERMINISTIC" /\ ~db.agentCapabilities[c].human

Answer(w) ==
  /\ At(w, "invoke")
  /\ Then(w, Step(w, IF Deterministic(job[w].capability) THEN "call" ELSE "succeed"))

Call(w) ==
  /\ At(w, "call")
  /\ Room("capabilityCalls")
  /\ Does(w, New("capabilityCalls", [execution |-> job[w].id]), Step(w, "succeed"))

Succeed(w) ==
  At(w, "succeed") /\ Does(w, PutExecution(job[w].id, Execution(w, "SUCCEEDED")), Step(w, "result"))

Conclude(w) ==
  /\ At(w, "resultEntry")
  /\ LET h == NewMemory(job[w].entry)
     IN Room("agentMemory") /\ Admits(h) /\ Does(w, h, Step(w, "measure"))

Measure(w) ==
  /\ At(w, "measure")
  /\ Does(w, NewTelemetry([execution |-> job[w].id, errors |-> job[w].errors]), Idle)

(* Whatever throws in an attempt is caught: the model, the capability, or  *)
(* the store once the execution is already SUCCEEDED.                      *)
Attempting == {"invoke", "call", "succeed", "result", "resultEntry", "measure"}

Throw(w) ==
  /\ job[w].at \in Attempting
  /\ LET rest == [job[w] EXCEPT !.left = @ - 1, !.errors = @ + 1]
     IN Then(w, IF job[w].left > 1
                THEN [rest EXCEPT !.at = "invoke"] ELSE [rest EXCEPT !.at = "fail"])

Fail(w) ==
  /\ At(w, "fail")
  /\ Decide(w, <<PutExecution(job[w].id, Execution(w, "FAILED")),
                 NewTelemetry([execution |-> job[w].id, errors |-> job[w].errors])>>)

----------------------------------------------------------------------------
Register(w) ==
  RegisterCapability(w) \/ Deactivate(w) \/ RegisterAgent(w) \/ Activate(w) \/ CreatePrompt(w)
    \/ PublishPrompt(w) \/ PublishPolicy(w)

Approve(w) == RequestApproval(w) \/ DecideApproval(w) \/ Consume(w)

Attempt(w) ==
  Answer(w) \/ Call(w) \/ Succeed(w) \/ Conclude(w) \/ Measure(w) \/ Throw(w) \/ Fail(w)

Handle(w) ==
  \/ Register(w) \/ Approve(w) \/ CreateContext(w) \/ Remember(w) \/ Cancel(w) \/ Execute(w)
  \/ ReadActiveAgents(w) \/ ReadPublished(w) \/ ReadCapability(w) \/ Authorize(w) \/ Render(w)
  \/ Queue(w) \/ Run(w) \/ Recall(w) \/ Begin(w) \/ Attempt(w) \/ Commit(w, Admits(Due(w)))

(* Every request is carried through to its end; and with processes that    *)
(* die at any moment in between.                                           *)
Proceed == \E w \in Workers : Handle(w)
Next == Proceed \/ \E w \in Mortals : Die(w)
Spec == Empty /\ [][Next]_vars

----------------------------------------------------------------------------
(* The executor calls deterministic capabilities by their mode alone and   *)
(* never looks at protectedState: that no protected state is changed on a  *)
(* model's answer rests on what registration refused, possibly long        *)
(* before, and on the tables keeping a capability as it was.               *)
ProtectedNeverInvoked ==
  \A x \in Ids("capabilityCalls") :
    ~db.agentCapabilities[db.agentExecutions[db.capabilityCalls[x].execution].capability].protected

(* Sequence numbers come from counting, and two writers count the same:    *)
(* memory still has one entry in each place, with none missing.            *)
MemorySequenced ==
  \A x \in Ids("agentExecutions") :
    {db.agentMemory[m].sequence : m \in Own(x)} = 1..Cardinality(Own(x))

(* While no request dies in between, changing the active policy or the     *)
(* published prompt never leaves a workspace that had one without one, nor *)
(* with two, however many change it at once; nor are two agent versions    *)
(* ever active.                                                            *)
IncumbentKept ==
  Quiet =>
    /\ Cardinality(Active("registeredAgents")) <= 1
    /\ Ids("agentGovernancePolicies") # {} => Cardinality(Active("agentGovernancePolicies")) = 1
    /\ Cardinality(Active("promptVersions")) = 1
         \/ \A x \in Ids("promptVersions") : InStatus("promptVersions", x, {"DRAFT"})

(* The versions of an agent do not tell which of them was active before,   *)
(* so that none of those is lost is said of a step: while no request dies, *)
(* there is an active version, or a request that took it back and is about *)
(* to activate its own, from the first activation on.                      *)
Activating(j) ==
  /\ j.at = "write" /\ j.todo[1].c = "registeredAgents" /\ j.todo[1].op = "replace"
  /\ j.todo[1].row.active

Attended == Active("registeredAgents") # {} \/ \E w \in Workers : Activating(job[w])

AgentKept == Attended => Attended'

(* A decided approval keeps its decision and its decider, whoever else had *)
(* read it while it was pending.                                           *)
DecisionsKept ==
  \A x \in Ids("agentApprovalRequests") :
    LET old == db.agentApprovalRequests[x]
    IN old.status # "PENDING" =>
         /\ db'.agentApprovalRequests[x].status = old.status
         /\ db'.agentApprovalRequests[x].by = old.by

(* However an execution ended, its attempts were measured, retries that    *)
(* follow a recorded success included, as long as there is room for it.    *)
OutcomesMeasured ==
  Quiet /\ Room("agentTelemetry") =>
    \A x \in Ids("agentExecutions") :
      InStatus("agentExecutions", x, {"SUCCEEDED", "FAILED"}) =>
        \E t \in Ids("agentTelemetry") : db.agentTelemetry[t].execution = x

----------------------------------------------------------------------------
(* Inductive invariant: what is registered as protected is proposed only,  *)
(* and capabilities, the versions of a registry and the capability of an   *)
(* execution stay what they were.  Versions are the numbers of the rows,   *)
(* because the key refuses the second of two that counted the same, and    *)
(* the only policy that can be active is the newest.                       *)
Unprotected(x) ==
  /\ x \in Ids("agentExecutions")
  /\ ~db.agentCapabilities[db.agentExecutions[x].capability].protected

Placed(e) == e.execution \in Ids("agentExecutions") /\ e.sequence <= Cardinality(Own(e.execution)) + 1

WriteSound(h) ==
  /\ WriteTyped(h, RowType)
  /\ h.c \in Registries =>
       IF h.op = "append" THEN h.row.version <= Len(db[h.c]) + 1 /\ h.row.version <= MaxRows[h.c]
       ELSE h.row.version = h.id
  /\ h.c = "agentGovernancePolicies" => h.row.active = (h.op = "append")
  /\ h.c = "promptVersions" =>
       IF h.op = "append" THEN h.row.status = "DRAFT"
       ELSE /\ h.row.status \in {"RETIRED", "PUBLISHED"}
            /\ h.row.status = "RETIRED" => ~InStatus(h.c, h.id, {"DRAFT"})
  /\ h.c = "agentCapabilities" =>
       /\ h.row.protected => h.row.mode = "PROPOSE"
       /\ h.op = "replace" => h.row.protected = db[h.c][h.id].protected
  /\ h.c = "agentExecutions" =>
       /\ h.row.capability \in Ids("agentCapabilities")
       /\ h.op = "replace" => h.row.capability = db[h.c][h.id].capability
  /\ h.c = "agentMemory" => h.op = "append" /\ Placed(h.row)
  /\ h.c = "agentApprovalRequests" /\ h.row.status # "PENDING" => h.row.by # "none"
  /\ h.c = "capabilityCalls" => h.op = "append" /\ Unprotected(h.row.execution)
  /\ h.c = "agentTelemetry" => h.op = "append"

(* A request writes once, or takes one thing back before it writes next.   *)
Alone(h) ==
  /\ WriteSound(h)
  /\ h.c = "agentGovernancePolicies" => h.op = "append"
  /\ h.c = "registeredAgents" /\ h.op = "replace" => h.row.active
  /\ h.c = "promptVersions" /\ h.op = "replace" => h.row.status = "PUBLISHED"
  /\ h.c = "agentExecutions" => h.op = "replace" /\ h.row.status = "CANCELLED"

Before(h, g) ==
  /\ WriteSound(h) /\ h.op = "replace" /\ Alone(g)
  /\ h.c = "agentGovernancePolicies" => g.c = h.c /\ g.op = "append" /\ g.row.version = h.id + 1
  /\ h.c \in {"registeredAgents", "promptVersions"} => g.c = h.c /\ g.op = "replace"
  /\ h.c = "agentExecutions" <=> g.c = "agentTelemetry"
  /\ h.c = "agentExecutions" => g.row.execution = h.id

Asked == {"capability", "policy", "render", "queue"}
Early == {"run", "user", "userEntry"}
Executing == Early \cup Attempting \cup {"fail"}

JobSound(j) ==
  /\ j.at \in {"idle", "activeAgents", "published", "write"} \cup Asked \cup Executing
  /\ j.at = "activeAgents" => j.id \in Ids("registeredAgents")
  /\ j.at = "published" => j.id \in Ids("promptVersions")
  /\ j.at \in Asked \cup Executing =>
       /\ {"at", "capability", "errors"} \subseteq DOMAIN j
       /\ j.capability \in Ids("agentCapabilities") /\ j.errors \in Nat
  /\ j.at \in Executing \cup {"queue"} => j.prompt \in Nat
  /\ j.at \in Executing =>
       /\ {"id", "prompt"} \subseteq DOMAIN j
       /\ j.id \in Ids("agentExecutions") /\ db.agentExecutions[j.id].capability = j.capability
  /\ j.at \in {"userEntry", "resultEntry"} => j.entry \in MemoryEntry /\ Placed(j.entry)
  /\ j.at = "call" => ~db.agentCapabilities[j.capability].protected
  /\ j.at = "write" =>
       \/ j.todo = <<j.todo[1]>> /\ Alone(j.todo[1])
       \/ j.todo = <<j.todo[1], j.todo[2]>> /\ Before(j.todo[1], j.todo[2])

RowsSound ==
  /\ \A x \in Ids("agentCapabilities") :
       db.agentCapabilities[x].protected => db.agentCapabilities[x].mode = "PROPOSE"
  /\ \A x \in Ids("agentExecutions") :
       db.agentExecutions[x].capability \in Ids("agentCapabilities")
  /\ \A x \in Ids("capabilityCalls") : Unprotected(db.capabilityCalls[x].execution)
  /\ \A x \in Ids("agentMemory") : db.agentMemory[x].execution \in Ids("agentExecutions")
  /\ \A x \in Ids("agentApprovalRequests") :
       ~InStatus("agentApprovalRequests", x, {"PENDING"}) => db.agentApprovalRequests[x].by # "none"
  /\ \A c \in Registries :
       /\ \A x \in Ids(c) : db[c][x].version = x
       /\ \A x, y \in Active(c) : x = y
  /\ Active("agentGovernancePolicies") \subseteq {Len(db.agentGovernancePolicies)}

IInv ==
  /\ TablesTyped(RowType) /\ RowsSound /\ MemorySequenced
  /\ job = [w \in Workers |-> job[w]]
  /\ \A w \in Workers : JobSound(job[w])

(* While none dies: where no policy is active, or no prompt published that *)
(* was before, a request is about to write one, and will not be refused.   *)
Following(j) ==
  /\ j.at = "write" /\ j.todo[1].c = "agentGovernancePolicies" /\ j.todo[1].op = "append"
  /\ j.todo[1].row.version = Len(db.agentGovernancePolicies) + 1

Publishing(j) ==
  /\ j.at = "write" /\ j.todo[1].c = "promptVersions" /\ j.todo[1].op = "replace"
  /\ j.todo[1].row.status = "PUBLISHED"

KeptInv ==
  Deathless =>
    /\ \/ Ids("agentGovernancePolicies") = {} \/ Active("agentGovernancePolicies") # {}
       \/ \E w \in Workers : Following(job[w])
    /\ \/ \A x \in Ids("promptVersions") : InStatus("promptVersions", x, {"DRAFT"})
       \/ Active("promptVersions") # {}
       \/ \E w \in Workers : Publishing(job[w])

(* While requests come in turn and none dies: an execution that has ended  *)
(* is measured, or the request that ended it is still to measure it.       *)
Owes(j, x) ==
  \/ j.at \in Attempting \cup {"fail"} /\ j.id = x
  \/ j.at = "write" /\ \E n \in DOMAIN j.todo :
       j.todo[n].c = "agentTelemetry" /\ j.todo[n].row.execution = x

Measured(x) == \E t \in Ids("agentTelemetry") : db.agentTelemetry[t].execution = x
Ended(x) == InStatus("agentExecutions", x, {"SUCCEEDED", "FAILED"})

MeasuredInv ==
  Reliable => \A w \in Workers :
    /\ job[w].at \in Early => ~Ended(job[w].id)
    /\ Room("agentTelemetry") =>
         \A x \in Ids("agentExecutions") : Ended(x) => Measured(x) \/ Owes(job[w], x)
=============================================================================
