----------------------------- MODULE RunScreen -----------------------------
(***************************************************************************)
(* The manual run screen of the hub: RunInterface.tsx with its evidence    *)
(* panel and bug form, over the execution, evidence upload and bug         *)
(* creation services of packages/argos-sdk.                                *)
(*                                                                         *)
(* "Save Run" is one handler with an await at every request: start the     *)
(* run, upload the files, report the steps one by one, finalise.  The      *)
(* screen stays alive in between: the user edits steps that the handler    *)
(* has already captured, or aborts the run under it.  A request is granted,*)
(* refused, or granted without its answer coming back.  A call of the      *)
(* execution service is one step here; how its two requests overlap with   *)
(* those of other clients is the subject of TestExecution.                 *)
(***************************************************************************)
EXTENDS GlobalStatus, FiniteSets

CONSTANTS
    NumSteps,     \* steps of the test case
    Marks,        \* the statuses the tester gives a step
    Overrides,    \* the global statuses the tester may force
    MaxFiles,     \* bound: evidence files picked
    MaxEdits,     \* bound: changes of the form
    MaxRuns,      \* bound: executions started
    MaxFailures,  \* bound: requests that do not succeed
    MaxBugs       \* bound: bugs created

ASSUME RunAssumption == NumSteps \in Nat /\ MaxRuns \in Nat

VARIABLES
    ui,     \* the state of RunInterface and CreateBugForm
    save,   \* the handler handleSave suspended at an await, or NotSaving
    execs,  \* the executions of the project that this screen started
    bugs,   \* the bugs created: is the relation to the execution set
    past    \* history: failures, and what was asked when each run was saved

runVars == << ui, save, execs, bugs, past >>

Steps == 1..NumSteps
RunIds == 1..MaxRuns
Unmarked == "none"
NoRun == 0
NoOverride == "none"

NotSaving == [at |-> "none"]
NoExec == [state |-> "Absent", results |-> << >>, evidence |-> 0,
           status |-> "Unexecuted", bugs |-> {}]

RunInit ==
    /\ ui = [mark |-> [i \in Steps |-> Unmarked], comment |-> {}, env |-> FALSE,
             override |-> NoOverride, files |-> 0, active |-> NoRun,
             aborted |-> NoRun, aborting |-> NoRun, saved |-> NoRun, bugForm |-> "closed"]
    /\ save = NotSaving
    /\ execs = [e \in RunIds |-> NoExec]
    /\ bugs = << >>
    /\ past = [failures |-> 0, saves |-> 0, bugForms |-> 0, edits |-> 0,
               asked |-> [e \in RunIds |-> [mark |-> [i \in Steps |-> Unmarked],
                                            override |-> NoOverride]]]

-----------------------------------------------------------------------------
(* The form *)

(* The form is shown unless the aborted or the saved page replaces it. *)
FormShown == ui.aborted = NoRun /\ ui.saved = NoRun

Change(u) == ui' = u /\ UNCHANGED << save, execs, bugs, past >>
Edited(u) ==
    /\ FormShown /\ past.edits < MaxEdits
    /\ ui' = u /\ past' = [past EXCEPT !.edits = @ + 1]
    /\ UNCHANGED << save, execs, bugs >>

setStepStatus(i, m) ==
    ui.mark[i] # m /\ Edited([ui EXCEPT !.mark[i] = m])

setStepComment(i) ==
    /\ ui.mark[i] = "Fail" /\ i \notin ui.comment
    /\ Edited([ui EXCEPT !.comment = @ \cup {i}])

setEnvironment == ~ui.env /\ Edited([ui EXCEPT !.env = TRUE])

setOverride(o) == ui.override # o /\ Edited([ui EXCEPT !.override = o])

(* The button of the panel is disabled while files are sent. *)
handleFileSelected ==
    /\ save.at # "upload" /\ ui.files < MaxFiles
    /\ Edited([ui EXCEPT !.files = @ + 1])

backFromAborted ==
    ui.aborted # NoRun /\ Change([ui EXCEPT !.aborted = NoRun])

-----------------------------------------------------------------------------
(* handleSave *)

failsWithoutComment == {i \in Steps : ui.mark[i] = "Fail"} \ ui.comment

(* The handler captures the statuses, the files and the override of the click. *)
handleSave ==
    /\ FormShown /\ save = NotSaving
    /\ ui.env /\ failsWithoutComment = {}
    /\ save' = [at |-> "start", run |-> NoRun, next |-> 0, mark |-> ui.mark,
                files |-> ui.files, override |-> ui.override]
    /\ UNCHANGED << ui, execs, bugs, past >>

(* The next marked step after position i, or NumSteps + 1. *)
NextMarked(s, i) ==
    LET left == {j \in Steps : j > i /\ s.mark[j] # Unmarked}
    IN  IF left = {} THEN NumSteps + 1 ELSE CHOOSE j \in left : \A k \in left : j <= k

(* Where the handler goes from the upload of file n, or from step i. *)
AfterUpload(s, n) ==
    IF n < s.files THEN [s EXCEPT !.at = "upload", !.next = n + 1]
    ELSE LET j == NextMarked(s, 0)
         IN  [s EXCEPT !.at = IF j > NumSteps THEN "finalize" ELSE "step", !.next = j]
AfterStep(s, i) ==
    LET j == NextMarked(s, i)
    IN  [s EXCEPT !.at = IF j > NumSteps THEN "finalize" ELSE "step", !.next = j]

(* The refusals of the execution service, and a network that fails. *)
isOpen(e) == execs[e].state = "InProgress"

(* Rejected in startRun, saveStepResult or finalizeRun: "finally" frees the
   button, the run stays as it is and its id stays with the abort button. *)
SaveFails == save' = NotSaving /\ past' = [past EXCEPT !.failures = @ + 1, !.saves = @ + 1]

StartAnswer ==
    /\ save.at = "start"
    /\ \/ \E e \in RunIds :
             /\ execs[e] = NoExec /\ \A d \in RunIds : d < e => execs[d] # NoExec
             /\ execs' = [execs EXCEPT ![e].state = "InProgress"]
             /\ \/ /\ ui' = [ui EXCEPT !.active = e]
                   /\ save' = AfterUpload([save EXCEPT !.run = e], 0)
                   /\ past' = [past EXCEPT !.asked[e] = [mark |-> save.mark,
                                                         override |-> save.override]]
                \/ past.failures < MaxFailures /\ SaveFails /\ UNCHANGED ui
       \/ past.failures < MaxFailures /\ SaveFails /\ UNCHANGED << ui, execs >>
    /\ UNCHANGED bugs

(* Mutant: a failed upload ends the handler without an error. *)
UploadAnswerReturns ==
    /\ save.at = "upload"
    /\ \/ /\ isOpen(save.run)
          /\ execs' = [execs EXCEPT ![save.run].evidence = @ + 1]
          /\ save' = AfterUpload(save, save.next)
          /\ UNCHANGED past
       \/ /\ past.failures < MaxFailures
          /\ save' = NotSaving
          /\ past' = [past EXCEPT !.failures = @ + 1]
          /\ UNCHANGED execs
    /\ UNCHANGED << ui, bugs >>

(* A file of a wrong type or size, or a failed request, ends the uploads with
   a message; the run goes on without the rest of the evidence. *)
UploadAnswer ==
    /\ save.at = "upload"
    /\ \/ /\ isOpen(save.run)
          /\ execs' = [execs EXCEPT ![save.run].evidence = @ + 1]
          /\ save' = AfterUpload(save, save.next)
          /\ UNCHANGED past
       \/ /\ past.failures < MaxFailures \/ ~isOpen(save.run)
          /\ save' = AfterUpload(save, save.files)
          /\ past' = [past EXCEPT !.failures = IF @ < MaxFailures THEN @ + 1 ELSE @]
          /\ UNCHANGED execs
    /\ UNCHANGED << ui, bugs >>

(* Mutant: a step that fails is skipped. *)
StepAnswerSkips ==
    /\ save.at = "step"
    /\ \/ /\ isOpen(save.run)
          /\ execs' = [execs EXCEPT ![save.run].results = Append(@, save.mark[save.next])]
          /\ UNCHANGED past
       \/ /\ past.failures < MaxFailures
          /\ past' = [past EXCEPT !.failures = @ + 1]
          /\ UNCHANGED execs
    /\ save' = AfterStep(save, save.next)
    /\ UNCHANGED << ui, bugs >>

StepAnswer ==
    /\ save.at = "step"
    /\ \/ /\ isOpen(save.run)
          /\ execs' = [execs EXCEPT ![save.run].results =
                          Append(@, save.mark[save.next])]
          /\ \/ save' = AfterStep(save, save.next) /\ UNCHANGED past
             \/ past.failures < MaxFailures /\ SaveFails
       \/ /\ past.failures < MaxFailures \/ ~isOpen(save.run)
          /\ SaveFails
          /\ UNCHANGED execs
    /\ UNCHANGED << ui, bugs >>

FinalizeAnswer ==
    /\ save.at = "finalize"
    /\ \/ /\ isOpen(save.run)
          /\ execs' = [execs EXCEPT
                ![save.run].state = "Completed",
                ![save.run].status = IF save.override # NoOverride THEN save.override
                                     ELSE computeGlobalStatus(execs[save.run].results)]
          /\ \/ /\ save' = NotSaving
                /\ ui' = [ui EXCEPT !.active = NoRun, !.saved = save.run]
                /\ UNCHANGED past
             \/ past.failures < MaxFailures /\ SaveFails /\ UNCHANGED ui
       \/ /\ past.failures < MaxFailures \/ ~isOpen(save.run)
          /\ SaveFails
          /\ UNCHANGED << execs, ui >>
    /\ UNCHANGED bugs

(* handleAbort captures the run of the click: the button is there as long as a
   run is active, also while the save goes on.  A second click adds nothing. *)
handleAbort ==
    /\ FormShown /\ ui.active # NoRun /\ ui.aborting = NoRun
    /\ Change([ui EXCEPT !.aborting = ui.active])

(* A failed abort is ignored; a granted one clears the active run, whichever
   it is by then, and its page covers that of a saved run. *)
AbortAnswer ==
    /\ ui.aborting # NoRun
    /\ \/ /\ isOpen(ui.aborting)
          /\ execs' = [execs EXCEPT ![ui.aborting].state = "Aborted"]
          /\ \/ ui' = [ui EXCEPT !.aborting = NoRun, !.aborted = ui.aborting,
                                  !.active = NoRun]
             \/ ui' = [ui EXCEPT !.aborting = NoRun]
       \/ ui' = [ui EXCEPT !.aborting = NoRun] /\ UNCHANGED execs
    /\ UNCHANGED << save, bugs, past >>

-----------------------------------------------------------------------------
(* CreateBugForm on a saved run that failed *)

openBugForm ==
    /\ ui.aborted = NoRun /\ ui.saved # NoRun
    /\ execs[ui.saved].status = "Fail" /\ ui.bugForm = "closed"
    /\ Change([ui EXCEPT !.bugForm = "open"])

cancelBugForm == ui.bugForm \in {"open", "error"} /\ Change([ui EXCEPT !.bugForm = "closed"])

(* The submit button is disabled while it runs; createBug is four requests:
   the bug, the execution, the relation, the id in the execution's list. *)
handleSubmitBug ==
    ui.bugForm \in {"open", "error"} /\ Change([ui EXCEPT !.bugForm = "create"])

BugFails ==
    /\ past.failures < MaxFailures
    /\ ui' = [ui EXCEPT !.bugForm = "error"]
    /\ past' = [past EXCEPT !.failures = @ + 1, !.bugForms = @ + 1]

(* The bug of the submit in progress is the last one created. *)
createBug ==
    /\ ui.bugForm = "create" /\ Len(bugs) < MaxBugs
    /\ \/ /\ bugs' = Append(bugs, [related |-> FALSE])
          /\ \/ ui' = [ui EXCEPT !.bugForm = "fetch"] /\ UNCHANGED past
             \/ BugFails
       \/ BugFails /\ UNCHANGED bugs
    /\ UNCHANGED << save, execs >>

fetchExecution ==
    /\ ui.bugForm = "fetch"
    /\ \/ ui' = [ui EXCEPT !.bugForm = "relate"] /\ UNCHANGED past
       \/ BugFails
    /\ UNCHANGED << save, execs, bugs >>

addRelation ==
    /\ ui.bugForm = "relate"
    /\ \/ /\ bugs' = [bugs EXCEPT ![Len(bugs)].related = TRUE]
          /\ \/ ui' = [ui EXCEPT !.bugForm = "link"] /\ UNCHANGED past
             \/ BugFails
       \/ BugFails /\ UNCHANGED bugs
    /\ UNCHANGED << save, execs >>

(* On success onCreated closes the form: the button that opens it is back. *)
linkBug ==
    /\ ui.bugForm = "link"
    /\ \/ /\ execs[ui.saved].state = "Completed"
          /\ execs' = [execs EXCEPT ![ui.saved].bugs = @ \cup {Len(bugs)}]
          /\ \/ ui' = [ui EXCEPT !.bugForm = "closed"] /\ UNCHANGED past
             \/ BugFails
       \/ BugFails /\ UNCHANGED execs
    /\ UNCHANGED << save, bugs >>

-----------------------------------------------------------------------------
SaveStep == StartAnswer \/ UploadAnswer \/ StepAnswer \/ FinalizeAnswer

RunNext ==
    \/ \E i \in Steps : setStepComment(i) \/ \E m \in Marks : setStepStatus(i, m)
    \/ setEnvironment \/ handleFileSelected \/ backFromAborted
    \/ \E o \in Overrides : setOverride(o)
    \/ handleSave \/ SaveStep
    \/ handleAbort \/ AbortAnswer
    \/ openBugForm \/ cancelBugForm \/ handleSubmitBug
    \/ createBug \/ fetchExecution \/ addRelation \/ linkBug

RunSpec == RunInit /\ [][RunNext]_runVars

-----------------------------------------------------------------------------
(* The results of the first n steps, as they were marked: one for every marked
   step, in the order of the steps. *)
HoldsMarks(results, mark, n) ==
    LET marked == {i \in 1..n : mark[i] # Unmarked}
        place(i) == Cardinality({j \in marked : j <= i})
    IN  /\ Len(results) = Cardinality(marked)
        /\ \A i \in marked : results[place(i)] = mark[i]

(* A completed run holds exactly what the form showed at the click: a result
   for every marked step, in the order of the steps and once each, under the
   forced status or the computed one, whatever was edited, aborted or lost
   while the handler ran. *)
CompletedRunIsWhatWasSaved ==
    \A e \in RunIds : execs[e].state = "Completed" =>
        LET asked == past.asked[e]
        IN  /\ HoldsMarks(execs[e].results, asked.mark, NumSteps)
            /\ execs[e].status = IF asked.override # NoOverride THEN asked.override
                                 ELSE computeGlobalStatus(execs[e].results)

(* What a failing sequence of requests leaves behind is bounded by the
   failures the user saw: every execution left in progress is the one the abort
   button holds or the save is working on, or was left by a save that failed,
   one by each; a bug in an execution's list has its relation, and a bug in no
   list is that of a submit still running or one the form reported as failed. *)
LeftoversComeFromFailures ==
    LET open == {e \in RunIds : isOpen(e)}
        held == {ui.active} \cup (IF save = NotSaving THEN {} ELSE {save.run})
        listed == UNION {execs[e].bugs : e \in RunIds}
        running == IF ui.bugForm \in {"fetch", "relate", "link"} THEN 1 ELSE 0
    IN  /\ Cardinality(open \ held) <= past.saves
        /\ \A b \in listed : bugs[b].related
        /\ Len(bugs) - Cardinality(listed) <= past.bugForms + running
=============================================================================
