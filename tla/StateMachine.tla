---------------------------- MODULE StateMachine ----------------------------
(***************************************************************************)
(* The monitor state machine of services/scheduler/statemachine.go: a pure *)
(* function from the state a monitor had and one check result to the state *)
(* it gets, with the decision to open or to resolve an incident.           *)
(*                                                                         *)
(* The failure counter saturates at FailCap instead of growing for ever    *)
(* while a monitor is down.  Every threshold is at most FailCap and the    *)
(* counter is only ever compared with a threshold, so no transition can    *)
(* tell FailCap from a larger count.                                       *)
(***************************************************************************)
EXTENDS Integers

CONSTANTS
    Thresholds,  \* the failure_threshold values a monitor may be given (1..10 in the code)
    FailCap      \* where the consecutive_fails counter saturates

ASSUME CapAssumption ==
    /\ FailCap \in Nat
    /\ Thresholds \subseteq 1..FailCap

States == {"unknown", "up", "down"}
Fails == 0..FailCap

Transitions ==
    [state : States, fails : Fails, open : BOOLEAN, resolve : BOOLEAN]

\* Slip: a failure does not advance the counter.
countFailureLost(fails) == fails

countFailure(fails) == IF fails < FailCap THEN fails + 1 ELSE fails

\* Slips: crossing the threshold keeps the old state; the threshold is only
\* crossed at the very count, which a patch may have moved below it; a recovery
\* forgets the incident.
evaluateKeepsState(state, fails, threshold, ok) ==
    LET failed == countFailure(fails)
    IN  [state |-> IF ok THEN "up" ELSE state, fails |-> IF ok THEN 0 ELSE failed,
         open |-> ~ok /\ state # "down" /\ failed >= threshold,
         resolve |-> ok /\ state = "down"]
evaluateAtThreshold(state, fails, threshold, ok) ==
    LET failed == countFailure(fails)
        crossed == ~ok /\ state # "down" /\ failed = threshold
    IN  [state |-> IF ok THEN "up" ELSE IF crossed THEN "down" ELSE state,
         fails |-> IF ok THEN 0 ELSE failed, open |-> crossed,
         resolve |-> ok /\ state = "down"]
evaluateForgetsResolve(state, fails, threshold, ok) ==
    LET failed == countFailure(fails)
        crossed == ~ok /\ state # "down" /\ failed >= threshold
    IN  [state |-> IF ok THEN "up" ELSE IF crossed THEN "down" ELSE state,
         fails |-> IF ok THEN 0 ELSE failed, open |-> crossed, resolve |-> FALSE]

evaluate(state, fails, threshold, ok) ==
    LET failed == countFailure(fails)
        crossed == state # "down" /\ failed >= threshold
    IN  IF ok
        THEN [state |-> "up", fails |-> 0, open |-> FALSE, resolve |-> state = "down"]
        ELSE [state |-> IF crossed THEN "down" ELSE state, fails |-> failed,
              open |-> crossed, resolve |-> FALSE]
=============================================================================
