-------------------------- MODULE AgreementDrafting --------------------------
(***************************************************************************)
(* Engines 11-13 (packages/agreement-creation): agreements, the versions   *)
(* of a template, drafts and their document versions, the clauses of a     *)
(* library, and negotiation rounds.                                        *)
(***************************************************************************)
EXTENDS Documents

CONSTANTS
  Numbers,   \* contract numbers
  Parties    \* who negotiates

Agreement == [number : Numbers]
TemplateVersion ==
  [status : {"DRAFT", "PUBLISHED", "SUPERSEDED"}, version : Nat \ {0}, required : BOOLEAN]

DocumentVersion == [key : Nat, draft : Nat, number : Nat]
ContractDraft ==
  [status : {"WORKING", "LOCKED", "SUBMITTED"}, key : Nat, template : Nat, document : Nat,
   filled : BOOLEAN]

ContractComment == [contract : Nat, visibility : {"INTERNAL", "SHARED"}]
ClauseVersion == [status : {"DRAFT", "PUBLISHED", "RETIRED"}, version : Nat]
ClauseInstance == [clause : Nat]
ClauseDeviation == [status : {"PENDING", "APPROVED"}, baseline : Nat]
NegotiationRound ==
  [status : {"SUBMITTED", "WITHDRAWN", "ACCEPTED"}, contract : Nat, number : Nat,
   by : Parties, open : BOOLEAN]

RowType ==
  [agreements |-> Agreement, templateVersions |-> TemplateVersion,
   documentVersions |-> DocumentVersion, contractDrafts |-> ContractDraft,
   contractComments |-> ContractComment, clauseVersions |-> ClauseVersion,
   clauseInstances |-> ClauseInstance, clauseDeviations |-> ClauseDeviation,
   negotiationRounds |-> NegotiationRound]

DraftingAssumption ==
  /\ Workers # {} /\ IsFiniteSet(Workers) /\ Mortals \subseteq Workers
  /\ MaxRows \in [DOMAIN RowType -> Nat]

TypeOK == \A c \in Collections : \A x \in Ids(c) : db[c][x] \in RowType[c]

----------------------------------------------------------------------------
(* The tables.                                                             *)
NewAgreement(row) == New("agreements", row)
PutTemplate(x, to) == Set("templateVersions", x, to)
NewDocument(row) == New("documentVersions", row)
PutDraft(x, row) == Put("contractDrafts", x, row)
NewComment(row) == New("contractComments", row)
PutClause(x, to) == Set("clauseVersions", x, to)
NewInstance(row) == New("clauseInstances", row)
PutDeviation(x, to) == Set("clauseDeviations", x, to)
PutRound(x, to) == Set("negotiationRounds", x, to)

Terminal(c) ==
  CASE c = "templateVersions" -> {"SUPERSEDED"}
    [] c = "negotiationRounds" -> {"WITHDRAWN", "ACCEPTED"}
    [] OTHER -> {}

(* The unique keys.                                                        *)
Key(c, row) ==
  CASE c = "agreements" -> row.number
    [] c \in {"templateVersions", "clauseVersions"} -> row.version
    [] c = "documentVersions" -> <<row.draft, row.number>>
    [] c = "negotiationRounds" -> <<row.contract, row.number>>

Keyed == {"agreements", "templateVersions", "clauseVersions", "documentVersions",
          "negotiationRounds"}

KeyFree(h) == h.c \in Keyed => \A x \in Ids(h.c) : Key(h.c, db[h.c][x]) # Key(h.c, h.row)

Admits(h) ==
  IF h.op = "append" THEN KeyFree(h)
  ELSE h.c \in {"templateVersions", "negotiationRounds"} => ~InStatus(h.c, h.id, Terminal(h.c))

----------------------------------------------------------------------------
(* Engine 11.                                                              *)
Create(w) ==
  \E n \in Numbers :
    /\ Room("agreements")
    /\ \A x \in Ids("agreements") : db.agreements[x].number # n
    /\ Ask(w, <<NewAgreement([number |-> n])>>)

CreateTemplateVersion(w) ==
  \E r \in BOOLEAN :
    /\ Room("templateVersions")
    /\ Ask(w, <<New("templateVersions",
         [status |-> "DRAFT", version |-> Len(db.templateVersions) + 1, required |-> r])>>)

PublishTemplate(w) ==
  \E x \in Ids("templateVersions") :
    InStatus("templateVersions", x, {"DRAFT"}) /\ Look(w, [at |-> "published", id |-> x])

Published == {x \in Ids("templateVersions") : InStatus("templateVersions", x, {"PUBLISHED"})}

ReadPublished(w) ==
  /\ At(w, "published")
  /\ \E q \in Listing(Published) :
       Decide(w, [n \in DOMAIN q |-> PutTemplate(q[n], "SUPERSEDED")]
                   \o <<PutTemplate(job[w].id, "PUBLISHED")>>)

(* The identity of a document is drawn before it is written; a draft is    *)
(* known by that of its first document.                                    *)
Drawn ==
  {db.documentVersions[x].key : x \in Ids("documentVersions")}
    \cup {job[w].todo[1].row.key : w \in {v \in Workers :
             At(v, "write") /\ job[v].todo[1].c \in {"documentVersions", "contractDrafts"}}}

(* The first identity not drawn yet: which one is drawn does not matter.   *)
Fresh ==
  {k \in 1..(MaxRows.documentVersions + Cardinality(Workers)) :
     k \notin Drawn /\ \A j \in 1..(k - 1) : j \in Drawn}

CreateDraft(w) ==
  \E t \in Published, k \in Fresh :
    /\ Ids("agreements") # {} /\ Room("documentVersions") /\ Room("contractDrafts")
    /\ Ask(w, <<NewDocument([key |-> k, draft |-> k, number |-> 1]),
                New("contractDrafts", [status |-> "WORKING", key |-> k, template |-> t,
                                       document |-> k, filled |-> FALSE])>>)

(* Any value may be written over any other, also an empty one.             *)
SetVariables(w) ==
  \E x \in Ids("contractDrafts"), f \in BOOLEAN :
    /\ InStatus("contractDrafts", x, {"WORKING"})
    /\ Ask(w, <<PutDraft(x, [db.contractDrafts[x] EXCEPT !.filled = f])>>)

Lock(w) ==
  \E x \in Ids("contractDrafts") :
    /\ InStatus("contractDrafts", x, {"WORKING"})
    /\ Ask(w, <<PutDraft(x, [db.contractDrafts[x] EXCEPT !.status = "LOCKED"])>>)

Complete(d) == db.templateVersions[d.template].required => d.filled

(* A template version never changes what it requires.                      *)
SubmitDraft(w) ==
  \E x \in Ids("contractDrafts") :
    LET d == db.contractDrafts[x]
    IN /\ d.status \in {"WORKING", "LOCKED"}
       /\ Complete(d)
       /\ Ask(w, <<PutDraft(x, [d EXCEPT !.status = "SUBMITTED"])>>)

Document(k) == {y \in Ids("documentVersions") : db.documentVersions[y].key = k}

Revise(w) ==
  \E x \in Ids("contractDrafts"), k \in Fresh :
    LET d == db.contractDrafts[x]
    IN /\ d.status # "LOCKED"
       /\ Room("documentVersions")
       /\ \E y \in Document(d.document) :
            Ask(w, <<NewDocument([key |-> k, draft |-> d.key,
                                  number |-> db.documentVersions[y].number + 1]),
                     PutDraft(x, [d EXCEPT !.document = k, !.status = "WORKING"])>>)

Comment(w) ==
  \E x \in Ids("agreements"), v \in {"INTERNAL", "SHARED"} :
    /\ Room("contractComments")
    /\ Ask(w, <<NewComment([contract |-> x, visibility |-> v])>>)

----------------------------------------------------------------------------
(* Engine 12.  Clause 0: a custom clause.                                  *)
CreateClause(w) ==
  /\ Room("clauseVersions")
  /\ Ask(w, <<New("clauseVersions",
                  [status |-> "DRAFT", version |-> Len(db.clauseVersions) + 1])>>)

PublishClause(w) ==
  \E x \in Ids("clauseVersions") :
    InStatus("clauseVersions", x, {"DRAFT"}) /\ Ask(w, <<PutClause(x, "PUBLISHED")>>)

Retire(w) == \E x \in Ids("clauseVersions") : Ask(w, <<PutClause(x, "RETIRED")>>)

Insertable(x) == x # 0 => InStatus("clauseVersions", x, {"PUBLISHED"})

Insert(w) ==
  \E x \in {0} \cup Ids("clauseVersions") :
    /\ Room("clauseInstances")
    /\ Insertable(x)
    /\ Ask(w, <<NewInstance([clause |-> x])>>)

Deviate(w) ==
  \E x \in Ids("clauseVersions") :
    /\ Room("clauseDeviations")
    /\ Ask(w, <<New("clauseDeviations", [status |-> "PENDING", baseline |-> x])>>)

ApproveDeviation(w) ==
  \E x \in Ids("clauseDeviations") : Ask(w, <<PutDeviation(x, "APPROVED")>>)

----------------------------------------------------------------------------
(* Engine 13.                                                              *)
SubmitRound(w) ==
  \E k \in Ids("agreements"), p \in Parties, o \in BOOLEAN :
    /\ Room("negotiationRounds")
    /\ Ask(w, <<New("negotiationRounds",
         [status |-> "SUBMITTED", contract |-> k, by |-> p, open |-> o,
          number |-> 1 + Cardinality({r \in Ids("negotiationRounds") :
                                        db.negotiationRounds[r].contract = k})])>>)

Withdraw(w) ==
  \E x \in Ids("negotiationRounds") :
    InStatus("negotiationRounds", x, {"SUBMITTED"}) /\ Ask(w, <<PutRound(x, "WITHDRAWN")>>)

Accept(w) ==
  \E x \in Ids("negotiationRounds") :
    /\ InStatus("negotiationRounds", x, {"SUBMITTED"})
    /\ ~db.negotiationRounds[x].open
    /\ Ask(w, <<PutRound(x, "ACCEPTED")>>)

----------------------------------------------------------------------------
Handle(w) ==
  \/ Create(w) \/ CreateTemplateVersion(w) \/ PublishTemplate(w) \/ CreateDraft(w)
  \/ SetVariables(w) \/ Lock(w) \/ SubmitDraft(w) \/ Revise(w) \/ Comment(w)
  \/ CreateClause(w) \/ PublishClause(w) \/ Retire(w) \/ Insert(w)
  \/ Deviate(w) \/ ApproveDeviation(w)
  \/ SubmitRound(w) \/ Withdraw(w) \/ Accept(w)

Continue(w) == ReadPublished(w) \/ Commit(w, Admits(Due(w)))

(* Every request is carried through to its end; and with processes that    *)
(* die at any moment in between.                                           *)
Proceed == \E w \in Workers : Handle(w) \/ Continue(w)
Next == Proceed \/ \E w \in Mortals : Die(w)
Spec == Empty /\ [][Next]_vars

----------------------------------------------------------------------------
(* A contract number is given to one agreement, and versions and rounds    *)
(* are counted without a repetition, though each is counted before it is   *)
(* appended.                                                               *)
NothingCountedTwice ==
  \A c \in Keyed : \A x, y \in Ids(c) : Key(c, db[c][x]) = Key(c, db[c][y]) => x = y

(* A closed round stays closed (index.ts:563): acceptance and withdrawal   *)
(* at once leave the round as the first of them wrote it.                  *)
ClosedRoundStays ==
  \A x \in Ids("negotiationRounds") :
    ~InStatus("negotiationRounds", x, {"SUBMITTED"})
      => db'.negotiationRounds[x] = db.negotiationRounds[x]

(* What is submitted has the variables its template requires, also when it *)
(* is locked, filled and revised meanwhile.                                *)
SubmittedFilled ==
  \A x \in Ids("contractDrafts") :
    LET d == db.contractDrafts[x]
    IN d.status = "SUBMITTED" /\ db.templateVersions[d.template].required => d.filled

(* Requests one after another, none of which dies: a draft names its own   *)
(* newest document, so that it can be revised again.                       *)
Newest(d) ==
  \A y \in Ids("documentVersions") :
    db.documentVersions[y].draft = d.key
      => \E z \in Document(d.document) :
           db.documentVersions[y].number <= db.documentVersions[z].number

DraftNamesNewest == Quiet => \A x \in Ids("contractDrafts") : Newest(db.contractDrafts[x])

(* The same: a template version is superseded only by another published.   *)
TemplateNeverLost ==
  Quiet /\ (\E x \in Ids("templateVersions") : InStatus("templateVersions", x, {"SUPERSEDED"}))
    => Cardinality(Published) = 1

(* Requests one after another: a clause of the library is inserted only    *)
(* while it is published, so never after it was retired.                   *)
InsertedPublished ==
  Len(db'.clauseInstances) > Len(db.clauseInstances)
  => LET x == db'.clauseInstances[Len(db'.clauseInstances)].clause
     IN x # 0 => InStatus("clauseVersions", x, {"PUBLISHED"})

----------------------------------------------------------------------------
(* Inductive invariant: what is written keeps its number, and what a       *)
(* template requires; a draft about to be submitted is filled.  A request  *)
(* makes one write, or writes a document and the draft that names it, or   *)
(* changes versions of the template.                                       *)
Filled(d) ==
  /\ d.template \in Ids("templateVersions")
  /\ d.status = "SUBMITTED" /\ db.templateVersions[d.template].required => d.filled

WriteSound(h) ==
  /\ WriteTyped(h, RowType)
  /\ h.c \in Keyed /\ h.op = "replace" => Key(h.c, h.row) = Key(h.c, db[h.c][h.id])
  /\ h.c = "templateVersions" =>
       IF h.op = "append" THEN h.row.status = "DRAFT" ELSE h.row.required = db[h.c][h.id].required
  /\ h.c = "contractDrafts" => Filled(h.row)
  /\ h.c \in {"clauseInstances", "documentVersions"} => h.op = "append"

Alone(j) == j.todo = <<j.todo[1]>>
Twofold(j) == j.todo = <<j.todo[1], j.todo[2]>>

JobSound(j) ==
  /\ j.at \in {"idle", "published", "write"}
  /\ j.at = "published" => j.id \in Ids("templateVersions")
  /\ j.at = "write" =>
       /\ Listed(j.todo)
       /\ \A n \in DOMAIN j.todo : WriteSound(j.todo[n])
       /\ \/ Alone(j) /\ j.todo[1].c # "documentVersions"
          \/ Twofold(j) /\ j.todo[1].c = "documentVersions" /\ j.todo[2].c = "contractDrafts"
          \/ \A n \in DOMAIN j.todo : j.todo[n].c = "templateVersions" /\ j.todo[n].op = "replace"

IInv ==
  /\ TablesTyped(RowType) /\ NothingCountedTwice
  /\ \A x \in Ids("contractDrafts") : Filled(db.contractDrafts[x])
  /\ job = [w \in Workers |-> job[w]]
  /\ \A w \in Workers : JobSound(job[w])

(* Requests come in turn: what is about to be inserted is published.  If   *)
(* none dies, every document belongs to a draft that has named it or will  *)
(* do so with its next write; and a request that takes a template version  *)
(* back puts the next in its place.                                        *)
Writes(j, c, op) == j.at = "write" /\ j.todo[1].c = c /\ j.todo[1].op = op

Documenting(h, g) ==
  /\ Room("documentVersions") /\ Document(h.row.key) = {}
  /\ \A y \in Ids("documentVersions") :
       db.documentVersions[y].draft = h.row.draft => db.documentVersions[y].number < h.row.number
  /\ g.c = "contractDrafts" /\ g.row.document = h.row.key /\ g.row.key = h.row.draft
  /\ IF g.op = "append"
     THEN Room("contractDrafts") /\ h.row.draft = h.row.key
     ELSE db.contractDrafts[g.id].key = g.row.key

Naming(g) ==
  /\ Newest(g.row) /\ Document(g.row.key) # {}
  /\ IF g.op = "append"
     THEN /\ Room("contractDrafts")
          /\ \A x \in Ids("contractDrafts") : db.contractDrafts[x].key # g.row.key
     ELSE db.contractDrafts[g.id].key = g.row.key

Numbered(j) ==
  /\ \A y, z \in Ids("documentVersions") :
       db.documentVersions[y].key = db.documentVersions[z].key => y = z
  /\ \A y \in Ids("documentVersions") : Document(db.documentVersions[y].draft) # {}
  /\ \A x \in Ids("contractDrafts") :
       /\ Document(db.contractDrafts[x].key) # {}
       /\ \A y \in Ids("contractDrafts") : db.contractDrafts[y].key = db.contractDrafts[x].key => x = y
       /\ Newest(db.contractDrafts[x])
            \/ (Writes(j, "contractDrafts", "replace") /\ j.todo[1].id = x)
  /\ j.at = "write" =>
       /\ j.todo[1].c = "documentVersions" => Documenting(j.todo[1], j.todo[2])
       /\ j.todo[1].c = "contractDrafts" => Naming(j.todo[1])

Draft(x) == x \in Ids("templateVersions") /\ InStatus("templateVersions", x, {"DRAFT"})
Publishes(h) == h.c = "templateVersions" /\ h.op = "replace" /\ h.row.status = "PUBLISHED" /\ Draft(h.id)

Replaced(j) ==
  /\ \A x, y \in Published : x = y
  /\ (\E x \in Ids("templateVersions") : InStatus("templateVersions", x, {"SUPERSEDED"}))
       => Published # {} \/ (j.at = "write" /\ Publishes(j.todo[1]))
  /\ j.at = "published" => Draft(j.id)
  /\ Writes(j, "templateVersions", "replace") =>
       \/ Alone(j) /\ Publishes(j.todo[1]) /\ Published = {}
       \/ /\ Twofold(j) /\ j.todo[1].row.status = "SUPERSEDED" /\ Published = {j.todo[1].id}
          /\ Publishes(j.todo[2])

SerialInv ==
  /\ InTurn => \A w \in Workers :
       Writes(job[w], "clauseInstances", "append") => Insertable(job[w].todo[1].row.clause)
  /\ Reliable => \A w \in Workers : Numbered(job[w]) /\ Replaced(job[w])
=============================================================================
