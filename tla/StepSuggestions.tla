--------------------------- MODULE StepSuggestions ---------------------------
(***************************************************************************)
(* The steps of the test case form: the rows of StepsEditor, the dialog    *)
(* AiSuggestStepsModal that asks the language model for steps, and the     *)
(* SuggestStepsDrawer in which the user says what becomes of them.         *)
(*                                                                         *)
(* The dialog is not modal: the keyboard still reaches the form behind it. *)
(* The drawer is.  A generation goes on when its dialog is closed; the     *)
(* state of a closed dialog is gone, and with it what the answer would set.*)
(* A row is its text: the ids of the rows are keys of the screen only.     *)
(***************************************************************************)
EXTENDS Naturals, FiniteSets, Sequences, SequencesExt, Subsequence

CONSTANTS
    StoredSteps, \* how many steps the test case may have when the form opens
    Suggested,   \* steps in an answer of the language model
    MaxDialogs,  \* bound: dialogs opened, and generations asked for
    MaxChanges   \* bound: changes of the rows and of the suggestions

ASSUME StepAssumption == StoredSteps \subseteq Nat /\ Suggested \in Nat

VARIABLES
    rows,         \* the texts of the rows
    dialog,       \* AiSuggestStepsModal; its nr says which of the dialogs opened
    pendingSteps, \* the drawer: is it open, and the steps in it
    asking        \* history and bound: generations under way, asked for; changes

stepVars == << rows, dialog, pendingSteps, asking >>

Blank == << "blank", 0 >>
DrawerShut == [open |-> FALSE, steps |-> << >>]
Closed == [open |-> FALSE, nr |-> 0, phase |-> "select", suggestions |-> << >>]

Written(texts) == Kept(texts, {i \in DOMAIN texts : texts[i] # Blank})

(* An edit form shows the steps it reads; without any there is a blank row. *)
StepInit ==
    /\ \E n \in StoredSteps :
           rows = IF n = 0 THEN << Blank >> ELSE [i \in 1..n |-> << "stored", i >>]
    /\ dialog = Closed
    /\ pendingSteps = DrawerShut
    /\ asking = [calls |-> {}, dialogs |-> 0, generations |-> 0, changes |-> 0]

FormReachable == ~pendingSteps.open

Changes ==
    /\ asking.changes < MaxChanges
    /\ asking' = [asking EXCEPT !.changes = @ + 1]

addStep ==
    /\ FormReachable /\ Changes
    /\ rows' = Append(rows, Blank)
    /\ UNCHANGED << dialog, pendingSteps >>

updateField(i) ==
    /\ FormReachable /\ i \in DOMAIN rows /\ Changes
    /\ \E text \in {Blank, << "typed", asking'.changes >>} :
           rows' = [rows EXCEPT ![i] = text]
    /\ UNCHANGED << dialog, pendingSteps >>

removeStep(i) ==
    /\ FormReachable /\ i \in DOMAIN rows /\ Len(rows) > 1 /\ Changes
    /\ rows' = RemoveAt(rows, i)
    /\ UNCHANGED << dialog, pendingSteps >>

(* moveUp of a row is moveDown of the row above it. *)
moveDown(i) ==
    /\ FormReachable /\ i \in DOMAIN rows /\ i + 1 \in DOMAIN rows /\ Changes
    /\ rows' = [rows EXCEPT ![i] = rows[i + 1], ![i + 1] = rows[i]]
    /\ UNCHANGED << dialog, pendingSteps >>

openDialog ==
    /\ FormReachable /\ ~dialog.open /\ asking.dialogs < MaxDialogs
    /\ asking' = [asking EXCEPT !.dialogs = @ + 1]
    /\ dialog' = [Closed EXCEPT !.open = TRUE, !.nr = asking'.dialogs]
    /\ UNCHANGED << rows, pendingSteps >>

(* Cancel and the cross, while a generation is under way too. *)
closeDialog ==
    /\ dialog.open
    /\ dialog' = Closed
    /\ UNCHANGED << rows, pendingSteps, asking >>

(* Generate, and Regenerate in the preview. *)
handleGenerateSteps ==
    /\ dialog.open /\ dialog.phase \in {"select", "preview"}
    /\ asking.generations < MaxDialogs
    /\ asking' = [asking EXCEPT !.generations = @ + 1, !.calls = @ \cup {dialog.nr}]
    /\ dialog' = [dialog EXCEPT !.phase = "generating", !.suggestions = << >>]
    /\ UNCHANGED << rows, pendingSteps >>

ShownBy(c) == dialog.open /\ dialog.nr = c

(* A dialog has one generation under way at most. *)
generateSteps(c) ==
    /\ c \in asking.calls
    /\ asking' = [asking EXCEPT !.calls = @ \ {c}]
    /\ dialog' = IF ShownBy(c)
                 THEN [dialog EXCEPT !.phase = "preview",
                           !.suggestions = [i \in 1..Suggested |-> << "suggested", c, i >>]]
                 ELSE dialog
    /\ UNCHANGED << rows, pendingSteps >>

(* Refused, timed out, cut short, or nothing usable in it. *)
generationFails(c) ==
    /\ c \in asking.calls
    /\ asking' = [asking EXCEPT !.calls = @ \ {c}]
    /\ dialog' = IF ShownBy(c) THEN [dialog EXCEPT !.phase = "select"] ELSE dialog
    /\ UNCHANGED << rows, pendingSteps >>

updateSuggestion(i) ==
    /\ dialog.open /\ dialog.phase = "preview" /\ i \in DOMAIN dialog.suggestions
    /\ Changes
    /\ dialog' = [dialog EXCEPT !.suggestions[i] = Blank]
    /\ UNCHANGED << rows, pendingSteps >>

(* Both modes of applySteps: nothing is kept by "replace". *)
applySteps(texts, kept) ==
    rows' = IF texts = << >> THEN rows ELSE kept \o texts

(* Mutant: only the first row is looked at. *)
acceptOnFirstRow ==
    LET valid == Written(dialog.suggestions)
    IN  /\ dialog.open /\ dialog.phase = "preview"
        /\ IF rows[1] = Blank
           THEN applySteps(valid, << >>) /\ UNCHANGED pendingSteps
           ELSE pendingSteps' = [open |-> TRUE, steps |-> valid] /\ UNCHANGED rows
        /\ dialog' = Closed
        /\ UNCHANGED asking

(* Accept: into a form without a written row at once, else by the drawer. *)
handleAccept ==
    LET valid == Written(dialog.suggestions)
    IN  /\ dialog.open /\ dialog.phase = "preview"
        /\ IF Written(rows) = << >>
           THEN applySteps(valid, << >>) /\ UNCHANGED pendingSteps
           ELSE pendingSteps' = [open |-> TRUE, steps |-> valid] /\ UNCHANGED rows
        /\ dialog' = Closed
        /\ UNCHANGED asking

handleDrawerReplace ==
    /\ pendingSteps.open /\ pendingSteps.steps # << >>
    /\ applySteps(pendingSteps.steps, << >>)
    /\ pendingSteps' = DrawerShut
    /\ UNCHANGED << dialog, asking >>

handleDrawerComplete ==
    /\ pendingSteps.open /\ pendingSteps.steps # << >> /\ Written(rows) # << >>
    /\ applySteps(pendingSteps.steps, Written(rows))
    /\ pendingSteps' = DrawerShut
    /\ UNCHANGED << dialog, asking >>

handleDrawerCancel ==
    /\ pendingSteps.open
    /\ pendingSteps' = DrawerShut
    /\ UNCHANGED << rows, dialog, asking >>

StepNext ==
    \/ addStep
    \/ \E i \in DOMAIN rows : updateField(i) \/ removeStep(i) \/ moveDown(i)
    \/ openDialog \/ closeDialog \/ handleGenerateSteps \/ handleAccept
    \/ \E c \in 1..MaxDialogs : generateSteps(c) \/ generationFails(c)
    \/ \E i \in 1..Suggested : updateSuggestion(i)
    \/ handleDrawerReplace \/ handleDrawerComplete \/ handleDrawerCancel

StepSpec == StepInit /\ [][StepNext]_stepVars
-----------------------------------------------------------------------------
Texts(seq) == ToSet(seq) \ {Blank}

(* What a step takes from the rows, and what it adds of the suggestions. *)
Lost == Texts(rows) \ Texts(rows')
Added == {t \in Texts(rows') \ Texts(rows) : t[1] = "suggested"}
Handed == {t \in Added \cup Texts(pendingSteps'.steps) : dialog.open}

StepKeepsWritten ==
    /\ Cardinality(Lost) > 1 => pendingSteps.open /\ Lost = Texts(rows)
    /\ dialog.open /\ ~dialog'.open /\ Added # {} => Lost = {}
    /\ Added \subseteq ToSet(IF pendingSteps.open THEN pendingSteps.steps ELSE dialog.suggestions)
    /\ \A t \in Handed : t[2] = dialog.nr
    /\ Added # {} /\ Lost = {} => IsPrefix(Written(rows), rows')

(* Written steps go only one by one, by an edit of the user, or all together
   when the drawer is told to replace them: accepting suggestions never does
   it.  What stays keeps its order unless two neighbours are swapped.  What is
   added at once was shown, in the drawer or in the dialog accepted, and a
   dialog hands over what it asked for itself, never the late answer to one
   that was closed. *)
WrittenStepsAreKept == [][StepKeepsWritten]_stepVars
=============================================================================
