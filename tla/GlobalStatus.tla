---------------------------- MODULE GlobalStatus ----------------------------
(***************************************************************************)
(* The status rule of a test execution: computeGlobalStatus of             *)
(* packages/argos-sdk/src/test-execution-service.ts.  Comments, evidence   *)
(* and timestamps of a step result play no part in the rule, so a step     *)
(* result is represented by its status.                                    *)
(***************************************************************************)
EXTENDS Naturals, Sequences

GlobalStatuses == {"Pass", "Fail", "Blocked", "Unexecuted", "Skipped"}

(* The type of a step's status is that of the whole run. *)
StepStatuses == GlobalStatuses

(* Some step of the list has the given status. *)
SomeStep(results, status) == \E i \in DOMAIN results : results[i] = status

(* Every step of the list has the given status. *)
EveryStep(results, status) == \A i \in DOMAIN results : results[i] = status

(* Fail wins over Blocked, Skipped needs every step, an empty list was never
   executed, and whatever is left is Pass. *)
computeGlobalStatus(results) ==
    IF results = << >> THEN "Unexecuted"
    ELSE IF SomeStep(results, "Fail") THEN "Fail"
    ELSE IF SomeStep(results, "Blocked") THEN "Blocked"
    ELSE IF EveryStep(results, "Skipped") THEN "Skipped"
    ELSE "Pass"
=============================================================================
