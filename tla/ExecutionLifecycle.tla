------------------------- MODULE ExecutionLifecycle -------------------------
(***************************************************************************)
(* What the execution service promises its callers (spec US-2.1, plan      *)
(* section 3.5): a run is mutable while InProgress, is frozen once         *)
(* Completed except for its bug links, is frozen for good once Aborted,    *)
(* and its global status is the rule applied to its own steps unless the   *)
(* tester forced another one.  Every operation takes effect in one step,   *)
(* on the run as it is at that moment.                                     *)
(***************************************************************************)
EXTENDS GlobalStatus

CONSTANTS Runs,          \* work item ids a run may get
          EvidenceRefs,  \* references to uploaded evidence
          Bugs,          \* ids of bug work items
          NoOverride     \* finalizeRun called without a status

VARIABLE run             \* run[e]: the execution with id e, or Absent

ItemStates == {"Absent", "InProgress", "Completed", "Aborted"}

Items == [state: ItemStates,
          globalStatus: GlobalStatuses,
          overridden: BOOLEAN,
          stepResults: Seq(StepStatuses),
          evidence: Seq(EvidenceRefs),
          bugLinks: Seq(Bugs)]

EmptyItem(state) == [state |-> state,
                     globalStatus |-> "Unexecuted",
                     overridden |-> FALSE,
                     stepResults |-> << >>,
                     evidence |-> << >>,
                     bugLinks |-> << >>]

Absent == EmptyItem("Absent")

LInit == run = [e \in Runs |-> Absent]

Become(e, item) == run' = [run EXCEPT ![e] = item]

Start(e) ==
    /\ run[e].state = "Absent"
    /\ Become(e, EmptyItem("InProgress"))

RecordStep(e, r) ==
    /\ run[e].state = "InProgress"
    /\ Become(e, [run[e] EXCEPT !.stepResults = Append(@, r)])

RecordEvidence(e, x) ==
    /\ run[e].state = "InProgress"
    /\ Become(e, [run[e] EXCEPT !.evidence = Append(@, x)])

Complete(e, forced) ==
    /\ run[e].state = "InProgress"
    /\ Become(e, [run[e] EXCEPT
                    !.state = "Completed",
                    !.globalStatus = IF forced = NoOverride
                                     THEN computeGlobalStatus(run[e].stepResults)
                                     ELSE forced,
                    !.overridden = (forced # NoOverride)])

Abort(e) ==
    /\ run[e].state = "InProgress"
    /\ Become(e, [run[e] EXCEPT !.state = "Aborted"])

Link(e, b) ==
    /\ run[e].state = "Completed"
    /\ Become(e, [run[e] EXCEPT !.bugLinks = Append(@, b)])

LNext == \E e \in Runs :
            \/ Start(e)
            \/ \E r \in StepStatuses : RecordStep(e, r)
            \/ \E x \in EvidenceRefs : RecordEvidence(e, x)
            \/ \E forced \in GlobalStatuses \cup {NoOverride} : Complete(e, forced)
            \/ Abort(e)
            \/ \E b \in Bugs : Link(e, b)

LSpec == LInit /\ [][LNext]_run
=============================================================================
