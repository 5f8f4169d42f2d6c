------------------------------ MODULE FlowPlan ------------------------------
(***************************************************************************)
(* What Flow OS promises about the steps of a flow, without requests,      *)
(* documents or retries: steps are put behind the flow (completed, or      *)
(* skipped for its assurance level) one at a time, never before the steps  *)
(* they depend on and never to be taken back, and the flow is closed only  *)
(* when all of them are behind it.  Closing is not promised to be final: a *)
(* request that read the flow before it was closed may write its own idea  *)
(* of the state over COMPLETED.                                            *)
(***************************************************************************)
CONSTANTS Flows, Steps, Deps

VARIABLES
  done,    \* done[f]: the steps behind flow f
  closed   \* the flows whose state is COMPLETED

Init == done = [f \in Flows |-> {}] /\ closed = {}

Pass(f, s) ==
  /\ s \notin done[f]
  /\ Deps[s] \subseteq done[f]
  /\ done' = [done EXCEPT ![f] = @ \cup {s}]
  /\ UNCHANGED closed

Close(f) ==
  /\ done[f] = Steps
  /\ closed' = closed \cup {f}
  /\ UNCHANGED done

Reopen(f) ==
  /\ f \in closed
  /\ closed' = closed \ {f}
  /\ UNCHANGED done

Next == \E f \in Flows : (\E s \in Steps : Pass(f, s)) \/ Close(f) \/ Reopen(f)

Spec == Init /\ [][Next]_<<done, closed>>
=============================================================================
