----------------------------- MODULE MCSettlement -----------------------------
(* Casts for Settlement: every scene is an instance of the whole, with     *)
(* records for what the scene is about and none for the rest.  Two workers *)
(* race and may die; the clerk takes one request after another.            *)
EXTENDS Settlement

CONSTANTS Pair, Clerk

Nothing ==
  [approvers |-> {}, payers |-> {}, releasers |-> {}, parties |-> {}, mortals |-> {},
   releases |-> {"q1"}, maxAmount |-> 1,
   instructions |-> {}, keys |-> {}, payloads |-> {}, releaseOf |-> <<>>,
   statements |-> {}, maxCalls |-> 1,
   eligibilities |-> {}, entitlements |-> {}, invoices |-> {}, commitments |-> {},
   reservations |-> {}, numbers |-> {},
   disputes |-> {}, milestone |-> [q \in {"q1"} |-> "m1"], accounts |-> {}, maxFilings |-> 0]

Mortal == [Nothing EXCEPT !.mortals = Pair]

(* One instruction, and two that compete for a key with other payloads.    *)
Paying(cast, ws) ==
  [cast EXCEPT !.payers = ws, !.instructions = {"i1"}, !.keys = {"k1"}, !.payloads = {"p1"},
               !.releaseOf = [p \in {"p1"} |-> "q1"]]
Competing(cast, ws) ==
  [Paying(cast, ws) EXCEPT !.instructions = {"i1", "i2"}, !.payloads = {"p1", "p2"},
                           !.releaseOf = [p \in {"p1", "p2"} |-> "q1"],
                           !.statements = {"s1"}, !.maxCalls = 2]

(* One of each record up to an invoice, and one of each to the release.    *)
Billing(cast, ws) ==
  [cast EXCEPT !.releasers = ws, !.eligibilities = {"g1"}, !.entitlements = {"e1"},
               !.invoices = {"v1"}, !.numbers = {"n1"}]
Funding(cast, ws) ==
  [Billing(cast, ws) EXCEPT !.commitments = {"c1"}, !.reservations = {"s1"}]

Disputing(cast, ws) == [cast EXCEPT !.parties = ws, !.disputes = {"d1"}]
Closing(cast, ws) ==
  [Disputing(cast, ws) EXCEPT !.accounts = {"a1"}, !.maxFilings = 1]

Casting ==
  [votes     |-> [Mortal EXCEPT !.approvers = Pair],
   authority |-> [Nothing EXCEPT !.approvers = {Clerk}],
   rivals    |-> Competing(Mortal, Pair),
   payments  |-> Competing(Nothing, {Clerk}),
   billing   |-> [Billing(Mortal, Pair) EXCEPT !.invoices = {"v1", "v2"}, !.maxAmount = 2],
   funding   |-> [Funding(Mortal, Pair) EXCEPT !.maxAmount = 2],
   shares    |-> [Funding(Nothing, {Clerk}) EXCEPT !.reservations = {"s1", "s2"},
                                                   !.maxAmount = 2],
   quarrels  |-> [Disputing(Mortal, Pair) EXCEPT !.disputes = {"d1", "d2"},
                    !.releases = {"q1", "q2"}, !.milestone = [q \in {"q1", "q2"} |-> "m1"]],
   closure   |-> Closing(Mortal, Pair),
   dispute   |-> Closing(Nothing, {Clerk}),
   frozenPayment |-> Disputing(Paying(Mortal, Pair), {Clerk}),
   frozenRelease |-> Disputing(Funding([Nothing EXCEPT !.mortals = {Clerk}], {CHOOSE w \in Pair : TRUE}), {Clerk})]

OnlyRivals == [rivals |-> Casting.rivals]
=============================================================================
