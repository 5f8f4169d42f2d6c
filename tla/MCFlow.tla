------------------------------- MODULE MCFlow -------------------------------
(* Values for the constants of FlowOrchestration, one definition of a flow *)
(* after another, for the .cfg files named after what they check.          *)
EXTENDS FlowOrchestration, TLC

(* flow-orchestration.test.ts: prepare, evidence, approval (from ENHANCED  *)
(* on), finish; here with the retry that other tests give to a handler.    *)
TestDeps  == <<{}, {1}, {2}, {3}>>
TestKind  == <<"handler", "event", "human", "handler">>
TestEvent == <<"none", "EVIDENCE_SUBMITTED", "none", "none">>
TestGate  == <<0, 0, 2, 0>>
TestRetry == <<2, 0, 0, 0>>
TestLevels == {1, 2}

(* An approval from ENHANCED on, then a handler that may be retried.       *)
ChainDeps   == <<{}, {1}>>
ChainKind   == <<"human", "handler">>
ChainEvent  == <<"none", "none">>
ChainGate   == <<2, 0>>
ChainRetry  == <<0, 2>>

(* Two events, the second waits for the first; then a step without handler.*)
RelayDeps   == <<{}, {1}, {2}>>
RelayKind   == <<"event", "event", "plain">>
RelayEvent  == <<"E", "F", "none">>
RelayGate   == <<0, 0, 0>>
RelayRetry  == <<0, 0, 0>>

(* restart-recovery.postgres.test.ts: wait, then an irreversible effect.   *)
RestartDeps   == <<{}, {1}>>
RestartKind   == <<"event", "handler">>
RestartEvent  == <<"AUTHORIZED_EVENT", "none">>
RestartGate   == <<0, 0>>
RestartRetry  == <<0, 0>>

(* Three branches at once, two of which may fail, then a join, and a step  *)
(* whose handler is not registered.                                        *)
ForkDeps   == <<{}, {}, {}, {1, 2, 3}, {4}>>
ForkKind   == <<"event", "human", "handler", "plain", "missing">>
ForkEvent  == <<"E", "none", "none", "none", "none">>
ForkGate   == <<0, 0, 0, 0, 2>>
ForkRetry  == <<0, 2, 0, 0, 0>>

StartRequests == {"start"}
ApprovalRequests == {"start", "dispatch", "decide", "suspend", "resume"}
RecoverRequests == {"start", "dispatch", "recover"}
EventRequests == {"start", "dispatch", "signal", "suspend", "resume"}
AllRequests == RequestKinds

(* Requests in flight are interchangeable, and so are identifiers.         *)
Symmetry == Permutations(Workers) \cup Permutations(Tasks) \cup Permutations(SignalKeys)
=============================================================================
