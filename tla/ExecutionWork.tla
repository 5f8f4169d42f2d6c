---------------------------- MODULE ExecutionWork ----------------------------
(***************************************************************************)
(* Engines 31-35 (packages/execution-orchestration): execution workspaces  *)
(* and their work items, progress, evidence packages, validation tests,    *)
(* defects and the quality gate.                                           *)
(***************************************************************************)
EXTENDS Documents

CONSTANTS
  Milestones,   \* milestones that are executed
  MaxPercent    \* bound: steps of percentComplete; MaxPercent stands for 100

ExecutionWorkspace ==
  [status : {"DRAFT", "ACTIVE", "SUSPENDED", "SUBMITTED"}, milestone : Milestones]

WorkItem ==
  [status : {"ASSIGNED", "IN_PROGRESS", "SUBMITTED", "CANCELLED"}, space : Nat]

(* The stages by their index in PROGRESS_STAGE_ORDER.                      *)
Accepted == 4
FinanciallyEarned == 5
ProgressRecord == [item : Nat, stage : 1..5, percent : 0..MaxPercent, stamp : Nat]

EvidenceRequirement == [mandatory : BOOLEAN]
EvidencePackage ==
  [status : {"SUBMITTED", "VERIFIED", "REJECTED"}, files : SUBSET Nat,
   custody : Seq({"SUBMITTED", "VERIFIED", "REJECTED"})]

ValidationTest == [result : {"PASS", "FAIL", "CONDITIONAL_PASS", "WAIVED"}, retestOf : Nat]
QualityPlan == [space : Nat]
Defect ==
  [status : {"OPEN", "IN_REWORK", "RESOLVED", "CLOSED"}, critical : BOOLEAN, cause : BOOLEAN]

QualityGateResult == [passed : BOOLEAN, open : Nat]

RowType ==
  [executionWorkspaces |-> ExecutionWorkspace, workItems |-> WorkItem,
   progressRecords |-> ProgressRecord, evidenceRequirements |-> EvidenceRequirement,
   evidencePackages |-> EvidencePackage, validationTests |-> ValidationTest,
   qualityPlans |-> QualityPlan, defects |-> Defect, qualityGateResults |-> QualityGateResult]

WorkAssumption ==
  /\ MaxPercent \in Nat \ {0} /\ Workers # {} /\ Mortals \subseteq Workers
  /\ Collections = DOMAIN RowType

TypeOK == \A c \in Collections : \A x \in Ids(c) : db[c][x] \in RowType[c]

----------------------------------------------------------------------------
(* The tables: what an UPDATE or INSERT of each writes, and admits.        *)
PutWorkspace(x, to) == Set("executionWorkspaces", x, to)
PutWorkItem(x, to) == Set("workItems", x, to)
NewProgress(row) == New("progressRecords", row)
NewRequirement(row) == New("evidenceRequirements", row)
PutPackage(x, row) == Put("evidencePackages", x, row)
NewTest(row) == New("validationTests", row)
NewPlan(row) == New("qualityPlans", row)
PutDefect(x, row) == Put("defects", x, row)
NewGateResult(row) == New("qualityGateResults", row)

Terminal(c) ==
  CASE c = "executionWorkspaces" -> {"SUBMITTED"}
    [] c = "workItems" -> {"SUBMITTED", "CANCELLED"}
    [] c = "evidencePackages" -> {"VERIFIED", "REJECTED"}
    [] c = "defects" -> {"CLOSED"}

MilestoneFree(m) ==
  \A x \in Ids("executionWorkspaces") : db.executionWorkspaces[x].milestone # m

Admits(h) ==
  IF h.op = "replace" THEN ~InStatus(h.c, h.id, Terminal(h.c))
  ELSE h.c = "executionWorkspaces" => MilestoneFree(h.row.milestone)

----------------------------------------------------------------------------
(* Engine 31.                                                              *)
Open(w) ==
  \E m \in Milestones :
    /\ Room("executionWorkspaces")
    /\ \A x \in Ids("executionWorkspaces") : db.executionWorkspaces[x].milestone # m
    /\ Ask(w, <<New("executionWorkspaces", [status |-> "DRAFT", milestone |-> m])>>)

(* activate, suspend and resume.                                           *)
MoveWorkspace(w, from, to) ==
  \E x \in Ids("executionWorkspaces") :
    /\ InStatus("executionWorkspaces", x, {from})
    /\ Ask(w, <<PutWorkspace(x, to)>>)

Activate(w) == MoveWorkspace(w, "DRAFT", "ACTIVE")
Suspend(w) == MoveWorkspace(w, "ACTIVE", "SUSPENDED")
Resume(w) == MoveWorkspace(w, "SUSPENDED", "ACTIVE")

AssignWorkItem(w) ==
  \E x \in Ids("executionWorkspaces") :
    /\ Room("workItems")
    /\ InStatus("executionWorkspaces", x, {"ACTIVE"})
    /\ Ask(w, <<New("workItems", [status |-> "ASSIGNED", space |-> x])>>)

WorkItemTransitionsMore(from) ==
  IF from = "ASSIGNED" THEN {"IN_PROGRESS", "CANCELLED"} ELSE {"DONE"}

WorkItemTransitions(from) ==
  CASE from = "ASSIGNED" -> {"IN_PROGRESS", "CANCELLED"}
    [] from = "IN_PROGRESS" -> {"SUBMITTED", "CANCELLED"}
    [] OTHER -> {}

TransitionWorkItem(w) ==
  \E x \in Ids("workItems") : \E to \in WorkItemTransitions(db.workItems[x].status) :
    Ask(w, <<PutWorkItem(x, to)>>)

Submit(w) ==
  \E x \in Ids("executionWorkspaces") :
    /\ InStatus("executionWorkspaces", x, {"ACTIVE"})
    /\ Look(w, [at |-> "listItems", put |-> PutWorkspace(x, "SUBMITTED")])

OpenItems(x) ==
  {i \in Ids("workItems") : /\ db.workItems[i].space = x
                            /\ InStatus("workItems", i, {"ASSIGNED", "IN_PROGRESS"})}

ListItems(w) ==
  /\ At(w, "listItems")
  /\ IF OpenItems(job[w].put.id) = {} THEN Decide(w, <<job[w].put>>) ELSE GiveUp(w)

----------------------------------------------------------------------------
(* Engine 32.  list orders records by the time the engine stamped them;    *)
(* of two stamped between the same two appends either may be the latest.   *)
OfItem(i) == {x \in Ids("progressRecords") : db.progressRecords[x].item = i}
Latest(i) ==
  {x \in OfItem(i) : \A y \in OfItem(i) :
                       db.progressRecords[y].stamp <= db.progressRecords[x].stamp}

NoRegression(last, row) == last.stage <= row.stage /\ last.percent <= row.percent

Earnable(last, row) == last.stage = Accepted /\ row.percent = MaxPercent
RecordProgress(w) ==
  \E i \in Ids("workItems"), s \in 1..5, p \in 0..MaxPercent :
    LET row == [item |-> i, stage |-> s, percent |-> p, stamp |-> Len(db.progressRecords)]
    IN /\ Room("progressRecords")
       /\ \/ OfItem(i) = {} /\ s # FinanciallyEarned
          \/ \E x \in Latest(i) :
               /\ NoRegression(db.progressRecords[x], row)
               /\ s = FinanciallyEarned => Earnable(db.progressRecords[x], row)
       /\ Ask(w, <<NewProgress(row)>>)

----------------------------------------------------------------------------
(* Engine 33, for one deliverable.                                         *)
DefineRequirement(w) ==
  \E m \in BOOLEAN :
    /\ Room("evidenceRequirements")
    /\ Ask(w, <<NewRequirement([mandatory |-> m])>>)

Covered(files) ==
  \A r \in Ids("evidenceRequirements") : db.evidenceRequirements[r].mandatory => r \in files

SubmitPackage(w) ==
  \E files \in SUBSET Ids("evidenceRequirements") :
    /\ Room("evidencePackages")
    /\ files # {}
    /\ Covered(files)
    /\ Ask(w, <<New("evidencePackages",
                    [status |-> "SUBMITTED", files |-> files, custody |-> <<"SUBMITTED">>])>>)

Verify(w) ==
  \E x \in Ids("evidencePackages"), d \in {"VERIFIED", "REJECTED"} :
    LET pkg == db.evidencePackages[x]
    IN /\ pkg.status = "SUBMITTED"
       /\ Ask(w, <<PutPackage(x, [pkg EXCEPT !.status = d, !.custody = Append(@, d)])>>)

----------------------------------------------------------------------------
(* Engine 34, for one work item and criterion.  retestOf 0: not a retest.  *)
RecordTest(w) ==
  \E r \in {"PASS", "FAIL", "CONDITIONAL_PASS", "WAIVED"}, prior \in {0} \cup Ids("validationTests") :
    /\ Room("validationTests")
    /\ prior # 0 => db.validationTests[prior].result \in {"FAIL", "CONDITIONAL_PASS"}
    /\ Ask(w, <<NewTest([result |-> r, retestOf |-> prior])>>)

----------------------------------------------------------------------------
(* Engine 35, for one work item.                                           *)
DefinePlan(w) ==
  \E x \in Ids("executionWorkspaces") :
    /\ Room("qualityPlans")
    /\ Ask(w, <<NewPlan([space |-> x])>>)

RaiseDefect(w) ==
  \E critical \in BOOLEAN :
    /\ Room("defects")
    /\ Ask(w, <<New("defects", [status |-> "OPEN", critical |-> critical, cause |-> FALSE])>>)

AssignRootCause(w) ==
  \E x \in Ids("defects") :
    /\ InStatus("defects", x, {"OPEN", "IN_REWORK"})
    /\ Ask(w, <<PutDefect(x, [db.defects[x] EXCEPT !.status = "IN_REWORK", !.cause = TRUE])>>)

Resolve(w) ==
  \E x \in Ids("defects") :
    /\ InStatus("defects", x, {"IN_REWORK"})
    /\ db.defects[x].cause
    /\ Ask(w, <<PutDefect(x, [db.defects[x] EXCEPT !.status = "RESOLVED"])>>)

CloseDefect(w) ==
  \E x \in Ids("defects") :
    /\ InStatus("defects", x, {"RESOLVED"})
    /\ Ask(w, <<PutDefect(x, [db.defects[x] EXCEPT !.status = "CLOSED"])>>)

OpenDefects == {x \in Ids("defects") : InStatus("defects", x, {"OPEN", "IN_REWORK"})}

Critical(defects) == {x \in defects : db.defects[x].critical}
EvaluateGate(w) ==
  /\ Room("qualityGateResults")
  /\ Ask(w, <<NewGateResult([passed |-> Critical(OpenDefects) = {},
                             open |-> Cardinality(OpenDefects)])>>)

----------------------------------------------------------------------------
Handle(w) ==
  \/ Open(w) \/ Activate(w) \/ Suspend(w) \/ Resume(w)
  \/ AssignWorkItem(w) \/ TransitionWorkItem(w) \/ Submit(w) \/ ListItems(w)
  \/ RecordProgress(w)
  \/ DefineRequirement(w) \/ SubmitPackage(w) \/ Verify(w) \/ RecordTest(w)
  \/ DefinePlan(w) \/ RaiseDefect(w) \/ AssignRootCause(w) \/ Resolve(w) \/ CloseDefect(w)
  \/ EvaluateGate(w)

(* Every request is carried through to its end; and with processes that    *)
(* die at any moment in between.                                           *)
Proceed == \E w \in Workers : Handle(w) \/ Commit(w, Admits(Due(w)))
Next == Proceed \/ \E w \in Mortals : Die(w)
Spec == Empty /\ [][Next]_vars

----------------------------------------------------------------------------
(* One execution workspace per milestone, also when two are opened at once.*)
OneWorkspacePerMilestone ==
  \A x, y \in Ids("executionWorkspaces") :
    db.executionWorkspaces[x].milestone = db.executionWorkspaces[y].milestone => x = y

(* What is submitted stays submitted: a suspension, a cancellation or a    *)
(* second verdict decided on an older row does not undo it.                *)
FinalStays ==
  /\ \A x \in Ids("executionWorkspaces") :
       InStatus("executionWorkspaces", x, {"SUBMITTED"})
         => db'.executionWorkspaces[x].status = "SUBMITTED"
  /\ \A x \in Ids("workItems") :
       InStatus("workItems", x, {"SUBMITTED", "CANCELLED"})
         => db'.workItems[x].status = db.workItems[x].status

(* The chain of custody of an evidence package tells its whole story: it   *)
(* was submitted, and there is one verdict, which is its status.           *)
CustodyComplete ==
  \A x \in Ids("evidencePackages") :
    LET pkg == db.evidencePackages[x]
    IN pkg.custody = IF pkg.status = "SUBMITTED" THEN <<"SUBMITTED">>
                     ELSE <<"SUBMITTED", pkg.status>>

(* A resolved defect has a root cause, whichever of two requests that move *)
(* it writes last.                                                         *)
ResolvedHasCause ==
  \A x \in Ids("defects") :
    InStatus("defects", x, {"RESOLVED", "CLOSED"}) => db.defects[x].cause

(* Value is earned only on a work item that was accepted before.           *)
EarnedAfterAccepted ==
  \A x \in Ids("progressRecords") :
    db.progressRecords[x].stage = FinanciallyEarned =>
      \E y \in 1..(x - 1) : /\ db.progressRecords[y].item = db.progressRecords[x].item
                            /\ db.progressRecords[y].stage = Accepted

(* Requests one after another: a submitted workspace has no open item, and *)
(* gets none later.  EXECUTION_ORCHESTRATION_SECURITY.md:3: it "cannot     *)
(* submit while any work item remains open".                               *)
SubmittedIsDone ==
  \A x \in Ids("executionWorkspaces") :
    InStatus("executionWorkspaces", x, {"SUBMITTED"})
      => \A i \in Ids("workItems") :
           db.workItems[i].space = x
             => ~InStatus("workItems", i, {"ASSIGNED", "IN_PROGRESS"})

(* Requests one after another: progress never goes back.  Same doc:        *)
(* "Progress records reject any stage or completion-percent regression".   *)
ProgressGrows ==
  \A x, y \in Ids("progressRecords") :
    LET p == db.progressRecords[x]
        q == db.progressRecords[y]
    IN x < y /\ p.item = q.item => p.stage <= q.stage /\ p.percent <= q.percent

(* Requests one after another: the gate passes only while no critical      *)
(* defect is open, in rework or not.                                       *)
GatePassesClear ==
  Len(db'.qualityGateResults) > Len(db.qualityGateResults)
    /\ db'.qualityGateResults[Len(db'.qualityGateResults)].passed
  => \A x \in Ids("defects") :
       db.defects[x].critical => db.defects[x].status \in {"RESOLVED", "CLOSED"}

(* Requests one after another: a package covers what was mandatory when it *)
(* was submitted, though requirements are added later.                     *)
PackageCovers ==
  Len(db'.evidencePackages) > Len(db.evidencePackages)
  => LET pkg == db'.evidencePackages[Len(db'.evidencePackages)]
     IN \A r \in Ids("evidenceRequirements") :
          db.evidenceRequirements[r].mandatory => r \in pkg.files

----------------------------------------------------------------------------
(* Inductive invariant: what a request is about to write is still true,    *)
(* whatever others have written since it read.                             *)
WriteSound(h) ==
  /\ WriteTyped(h, RowType)
  /\ h.op = "replace" =>
       /\ h.c \in {"executionWorkspaces", "workItems", "evidencePackages", "defects"}
       /\ h.c = "executionWorkspaces" =>
            h.row.milestone = db.executionWorkspaces[h.id].milestone
       /\ h.c = "workItems" => h.row.space = db.workItems[h.id].space
       /\ h.c = "evidencePackages" =>
            h.row.status # "SUBMITTED" /\ h.row.custody = <<"SUBMITTED", h.row.status>>
       /\ h.c = "defects" /\ h.row.status \in {"RESOLVED", "CLOSED"} => h.row.cause
  /\ h.op = "append" =>
       /\ h.c = "executionWorkspaces" => h.row.status = "DRAFT"
       /\ h.c = "evidencePackages" =>
            h.row.status = "SUBMITTED" /\ h.row.custody = <<"SUBMITTED">>
       /\ h.c = "defects" => h.row.status = "OPEN"
       /\ h.c = "progressRecords" /\ h.row.stage = FinanciallyEarned =>
            \E y \in OfItem(h.row.item) : db.progressRecords[y].stage = Accepted

JobSound(j) ==
  /\ j.at \in {"idle", "listItems", "write"}
  /\ j.at = "listItems" =>
       /\ WriteSound(j.put)
       /\ j.put.op = "replace" /\ j.put.c = "executionWorkspaces"
  /\ j.at = "write" => Listed(j.todo) /\ \A n \in DOMAIN j.todo : WriteSound(j.todo[n])

TablesSound == OneWorkspacePerMilestone /\ CustodyComplete /\ ResolvedHasCause /\ EarnedAfterAccepted

IInv ==
  /\ TablesTyped(RowType) /\ TablesSound
  /\ job = [w \in Workers |-> job[w]]
  /\ \A w \in Workers : JobSound(job[w])

(* Requests one after another: what a request has read is still so.        *)
FreshWrite(h) ==
  /\ h.c = "executionWorkspaces" /\ h.row.status = "SUBMITTED" => OpenItems(h.id) = {}
  /\ h.op = "append" =>
       /\ h.c = "workItems" => InStatus("executionWorkspaces", h.row.space, {"ACTIVE"})
       /\ h.c = "progressRecords" =>
            /\ h.row.stamp = Len(db.progressRecords)
            /\ \A y \in OfItem(h.row.item) : NoRegression(db.progressRecords[y], h.row)
       /\ h.c = "evidencePackages" => Covered(h.row.files)
       /\ h.c = "qualityGateResults" /\ h.row.passed => Critical(OpenDefects) = {}

Fresh(j) == j.at = "write" => Len(j.todo) = 1 /\ FreshWrite(Head(j.todo))

StampsOrdered == \A x \in Ids("progressRecords") : db.progressRecords[x].stamp = x - 1

SerialInv ==
  InTurn => /\ SubmittedIsDone /\ ProgressGrows /\ StampsOrdered
            /\ \A w \in Workers : Fresh(job[w])
=============================================================================
