-------------------------- MODULE AgreementReading --------------------------
(***************************************************************************)
(* Engines 16-20 (packages/agreement-intelligence), for one contract: its  *)
(* executed versions, what was read out of them, what people said of it.   *)
(***************************************************************************)
EXTENDS Documents

CONSTANTS
  Items,       \* what a gateway extracts: findings of a run, items of a reading
  Hashes,      \* documents, by their digests
  Reviewers

Decisions == {"ACCEPTED", "REJECTED"}

ContractVersion == [number : Nat \ {0}, hash : Hashes, status : {"ACTIVE", "SUPERSEDED"}]
AnalysisRun == [findings : SUBSET Items]
AnalysisReview == [run : Nat, finding : Items, by : Reviewers, decision : Decisions]
RiskAssessment == [version : Nat \ {0}, status : {"DRAFT", "VALIDATED"}]
RepositoryDocument == [legalHold : BOOLEAN]
AgreementIntelligenceVersion ==
  [version : Nat \ {0}, status : {"DRAFT", "PUBLISHED", "SUPERSEDED"},
   items : [Items -> {"PENDING"} \cup Decisions]]

RowType ==
  [contractVersionsV2 |-> ContractVersion, contractAnalysisRuns |-> AnalysisRun,
   analysisReviews |-> AnalysisReview, contractRiskAssessments |-> RiskAssessment,
   repositoryDocuments |-> RepositoryDocument,
   agreementIntelligenceVersions |-> AgreementIntelligenceVersion]

ReadingAssumption ==
  Workers # {} /\ Mortals \subseteq Workers /\ Collections = DOMAIN RowType

TypeOK == \A c \in Collections : \A x \in Ids(c) : db[c][x] \in RowType[c]

----------------------------------------------------------------------------
(* The tables.                                                             *)
PutContract(x, to) == Set("contractVersionsV2", x, to)
NewRun(row) == New("contractAnalysisRuns", row)
NewReview(row) == New("analysisReviews", row)
PutRisk(x, to) == Set("contractRiskAssessments", x, to)
PutDocument(x, row) == Put("repositoryDocuments", x, row)
PutReading(x, row) == Put("agreementIntelligenceVersions", x, row)

InForce(c) ==
  {x \in Ids(c) : InStatus(c, x, IF c = "contractVersionsV2" THEN {"ACTIVE"} ELSE {"PUBLISHED"})}

(* One ACTIVE contract version, one PUBLISHED reading.                     *)
OneInForce(h) ==
  /\ h.c = "contractVersionsV2" /\ h.row.status = "ACTIVE"
       => InForce(h.c) \subseteq (IF h.op = "append" THEN {} ELSE {h.id})
  /\ h.c = "agreementIntelligenceVersions" /\ h.row.status = "PUBLISHED"
       => InForce(h.c) \subseteq (IF h.op = "append" THEN {} ELSE {h.id})

AnyKey(h) == TRUE

KeyFree(h) ==
  \A x \in Ids(h.c) :
    LET y == db[h.c][x]
    IN CASE h.c = "contractVersionsV2" -> y.number # h.row.number /\ y.hash # h.row.hash
         [] h.c \in {"contractRiskAssessments", "agreementIntelligenceVersions"} ->
              y.version # h.row.version
         [] h.c = "analysisReviews" ->
              <<y.run, y.finding, y.by>> # <<h.row.run, h.row.finding, h.row.by>>
         [] OTHER -> TRUE

SomeAccepted(items) == \E i \in Items : items[i] = "ACCEPTED"

Reviewed(items) ==
  (\A i \in Items : items[i] # "PENDING") /\ \E i \in Items : items[i] = "ACCEPTED"

Admits(h) ==
  /\ OneInForce(h)
  /\ h.op = "append" => KeyFree(h)
  /\ h.c = "agreementIntelligenceVersions" /\ h.row.status = "PUBLISHED" => Reviewed(h.row.items)

----------------------------------------------------------------------------
(* Engine 16.  A review is a row of its own.                               *)
Analyze(w) ==
  \E found \in SUBSET Items : Room("contractAnalysisRuns") /\ Ask(w, <<NewRun([findings |-> found])>>)

ReviewFinding(w) ==
  \E x \in Ids("contractAnalysisRuns"), u \in Reviewers, to \in Decisions :
    \E i \in db.contractAnalysisRuns[x].findings :
      /\ Room("analysisReviews")
      /\ Ask(w, <<NewReview([run |-> x, finding |-> i, by |-> u, decision |-> to])>>)

(* Engine 17.  Versions are numbered by counting.                          *)
Count(c) == Len(db[c]) + 1

Assess(w) ==
  /\ Room("contractRiskAssessments")
  /\ Ask(w, <<New("contractRiskAssessments",
                  [version |-> Count("contractRiskAssessments"), status |-> "DRAFT"])>>)

Validate(w) ==
  \E x \in Ids("contractRiskAssessments") :
    InStatus("contractRiskAssessments", x, {"DRAFT"}) /\ Ask(w, <<PutRisk(x, "VALIDATED")>>)

(* Engine 18.  A document registered before is returned; the version the   *)
(* caller names is superseded before its successor is stored.              *)
Successor(h) ==
  New("contractVersionsV2", [number |-> Count("contractVersionsV2"), hash |-> h, status |-> "ACTIVE"])

RegisterExecuted(w) ==
  \E h \in Hashes :
    /\ Room("contractVersionsV2")
    /\ \A x \in Ids("contractVersionsV2") : db.contractVersionsV2[x].hash # h
    /\ \/ Ask(w, <<Successor(h)>>)
       \/ \E x \in Ids("contractVersionsV2") :
            Ask(w, <<PutContract(x, "SUPERSEDED"), Successor(h)>>)

(* Engine 19.                                                              *)
Store(w) ==
  /\ Room("repositoryDocuments")
  /\ Ask(w, <<New("repositoryDocuments", [legalHold |-> FALSE])>>)

Hold(w) ==
  \E x \in Ids("repositoryDocuments") :
    Ask(w, <<PutDocument(x, [db.repositoryDocuments[x] EXCEPT !.legalHold = TRUE])>>)

(* Engine 20.                                                              *)
Propose(w) ==
  /\ Room("agreementIntelligenceVersions")
  /\ Ask(w, <<New("agreementIntelligenceVersions",
                  [version |-> Count("agreementIntelligenceVersions"), status |-> "DRAFT",
                   items |-> [i \in Items |-> "PENDING"]])>>)

Review(w) ==
  \E x \in Ids("agreementIntelligenceVersions"), i \in Items, to \in Decisions :
    /\ InStatus("agreementIntelligenceVersions", x, {"DRAFT"})
    /\ Ask(w, <<PutReading(x, [db.agreementIntelligenceVersions[x] EXCEPT !.items[i] = to])>>)

Publish(w) ==
  \E x \in Ids("agreementIntelligenceVersions") :
    LET v == db.agreementIntelligenceVersions[x]
    IN /\ v.status = "DRAFT"
       /\ Reviewed(v.items)
       /\ Look(w, [at |-> "published", id |-> x, row |-> [v EXCEPT !.status = "PUBLISHED"]])

ReadPublished(w) ==
  /\ At(w, "published")
  /\ LET mine == PutReading(job[w].id, job[w].row)
         old == InForce("agreementIntelligenceVersions")
     IN IF old = {}
        THEN Decide(w, <<mine>>)
        ELSE \E x \in old : Decide(w, <<Set("agreementIntelligenceVersions", x, "SUPERSEDED"), mine>>)

----------------------------------------------------------------------------
Handle(w) ==
  \/ Analyze(w) \/ ReviewFinding(w) \/ Assess(w) \/ Validate(w) \/ RegisterExecuted(w) \/ Store(w)
  \/ Hold(w) \/ Propose(w) \/ Review(w) \/ Publish(w) \/ ReadPublished(w) \/ Commit(w, Admits(Due(w)))

(* Every request is carried through to its end; and with processes that    *)
(* die at any moment in between.                                           *)
Proceed == \E w \in Workers : Handle(w)
Next == Proceed \/ \E w \in Mortals : Die(w)
Spec == Empty /\ [][Next]_vars

----------------------------------------------------------------------------
(* Registering supersedes a version in one write and stores its successor  *)
(* in another, and the constraints may refuse the second.  Unless a        *)
(* process dies in between, a contract that was ever executed still has    *)
(* exactly one version in force, however many register at once.            *)
ContractKept ==
  Quiet /\ Ids("contractVersionsV2") # {} => Cardinality(InForce("contractVersionsV2")) = 1

(* Two readings published at once, each superseding what it had found.     *)
OneReading == Cardinality(InForce("agreementIntelligenceVersions")) <= 1

(* Nothing a machine read of an agreement is in force before people have   *)
(* judged every item of it, whatever reviews are written meanwhile.        *)
PublishedReviewed ==
  \A x \in Ids("agreementIntelligenceVersions") :
    LET v == db.agreementIntelligenceVersions[x]
    IN v.status # "DRAFT" => \A i \in Items : v.items[i] # "PENDING"

(* A reviewer leaves one opinion of a finding, not two that contradict.    *)
OneOpinion ==
  \A x, y \in Ids("analysisReviews") :
    LET a == db.analysisReviews[x]
        b == db.analysisReviews[y]
    IN <<a.run, a.finding, a.by>> = <<b.run, b.finding, b.by>> => x = y

----------------------------------------------------------------------------
(* Inductive invariant: a reading that is superseded was judged; a version *)
(* of the contract is numbered by its place, and the last is the only one  *)
(* that may be in force, so one that still has the next number has also    *)
(* the room and the document nobody registered that its request found.     *)
Judged(items) == \A i \in Items : items[i] # "PENDING"

Succeeds(row) ==
  /\ row.status = "ACTIVE" /\ row.number <= Count("contractVersionsV2")
  /\ row.number = Count("contractVersionsV2") =>
       /\ Room("contractVersionsV2")
       /\ \A x \in Ids("contractVersionsV2") : db.contractVersionsV2[x].hash # row.hash

Retires(h) == h.c = "contractVersionsV2" /\ h.op = "replace"

WriteSound(h) ==
  /\ WriteTyped(h, RowType)
  /\ h.op = "replace" => h.c # "analysisReviews"
  /\ h.c = "agreementIntelligenceVersions" =>
       /\ h.op = "append" => h.row.status = "DRAFT"
       /\ h.row.status = "SUPERSEDED" => Judged(h.row.items)
  /\ h.c = "contractVersionsV2" /\ h.op = "append" => Succeeds(h.row)
  /\ Retires(h) => h.row = [db.contractVersionsV2[h.id] EXCEPT !.status = "SUPERSEDED"]

(* Who retires a version has its successor still to write.                 *)
JobSound(j) ==
  /\ j.at \in {"idle", "published", "write"}
  /\ j.at = "published" =>
       /\ j.id \in Ids("agreementIntelligenceVersions")
       /\ j.row \in AgreementIntelligenceVersion /\ j.row.status = "PUBLISHED"
  /\ j.at = "write" =>
       \/ j.todo = <<j.todo[1]>> /\ WriteSound(j.todo[1]) /\ ~Retires(j.todo[1])
       \/ /\ j.todo = <<j.todo[1], j.todo[2]>> /\ WriteSound(j.todo[1]) /\ WriteSound(j.todo[2])
          /\ ~Retires(j.todo[2])
          /\ Retires(j.todo[1]) =>
               j.todo[2].c = "contractVersionsV2" /\ j.todo[1].id < j.todo[2].row.number

InPlace ==
  /\ \A x \in Ids("contractVersionsV2") : db.contractVersionsV2[x].number = x
  /\ InForce("contractVersionsV2") \subseteq {Len(db.contractVersionsV2)}

IInv ==
  /\ TablesTyped(RowType) /\ OneReading /\ PublishedReviewed /\ OneOpinion /\ InPlace
  /\ job = [w \in Workers |-> job[w]]
  /\ \A w \in Workers : JobSound(job[w])

(* While no request dies: when the version in force was retired, somebody  *)
(* writes the next one and will not be refused.                            *)
Succeeding(j) ==
  /\ j.at = "write" /\ j.todo = <<j.todo[1]>>
  /\ j.todo[1].c = "contractVersionsV2" /\ j.todo[1].row.number = Count("contractVersionsV2")

KeptInv ==
  Deathless =>
    \/ Ids("contractVersionsV2") = {} \/ InForce("contractVersionsV2") # {}
    \/ \E w \in Workers : Succeeding(job[w])
=============================================================================
