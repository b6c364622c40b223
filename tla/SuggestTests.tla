---------------------------- MODULE SuggestTests ----------------------------
(***************************************************************************)
(* The "Suggest Tests" drawer of the coverage panel: the flow component of *)
(* CoveragePanel.tsx, SuggestTestsDrawer.tsx and useAiGeneration, over the *)
(* provider's answers and the test case and link services.                 *)
(*                                                                         *)
(* Closing the drawer clears what it shows and stops nothing: a generation *)
(* or an acceptance in flight goes on, and sets the state of whatever the  *)
(* drawer shows when its answer arrives.  An acceptance creates its cases  *)
(* one by one, then links them one by one to the source work item.         *)
(***************************************************************************)
EXTENDS Naturals, FiniteSets, Sequences

CONSTANTS
    BatchSize,     \* suggestions in an answer of the provider
    MaxCalls,      \* bound: generations asked for
    MaxCreates,    \* bound: test cases created
    Acceptances,   \* bound: acceptances in progress at once
    MaxMisses      \* bound: requests to ADO that are refused or lose their answer

ASSUME SuggestAssumption == BatchSize \in Nat /\ IsFiniteSet(Acceptances)

VARIABLES
    drawer,    \* the state of the drawer and of useAiGeneration
    asked,     \* generations asked for, answered, and shown
    accepting, \* each acceptance: idle, or where its handler is suspended
    cases,     \* the test cases created: what they come from, are they linked
    missed     \* history: requests missed, acceptances failed, cases left unlinked

suggestVars == << drawer, asked, accepting, cases, missed >>

Items == 1..BatchSize
NoBatch == 0
Resting == [at |-> "idle"]
Shut == [open |-> FALSE, loading |-> FALSE, batch |-> NoBatch, busy |-> FALSE]

SuggestInit ==
    /\ drawer = Shut
    /\ asked = [calls |-> 0, answered |-> 0, batches |-> 0]
    /\ accepting = [a \in Acceptances |-> Resting]
    /\ cases = << >>
    /\ missed = [requests |-> 0, accepts |-> 0, cases |-> {}]

(* Mutant: a hidden drawer keeps its suggestions. *)
DismissedKeepsBatch(d) == IF d.open THEN [Shut EXCEPT !.batch = d.batch] ELSE d

(* onDismiss hides the drawer; the effect on isOpen resets the suggestions,
   and theirs the busy flag.  Nothing changes if it was hidden already. *)
Dismissed(d) == IF d.open THEN Shut ELSE d

(* The effect on [suggestions]: another batch frees the buttons. *)
Showing(d, b) == [d EXCEPT !.batch = b, !.loading = FALSE,
                           !.busy = IF d.batch = b THEN @ ELSE FALSE]

openDrawer ==
    /\ ~drawer.open
    /\ drawer' = [drawer EXCEPT !.open = TRUE]
    /\ UNCHANGED << asked, accepting, cases, missed >>

(* The Dismiss button waits for an acceptance, Escape and the backdrop do not. *)
onDismiss ==
    /\ drawer.open
    /\ drawer' = Dismissed(drawer)
    /\ UNCHANGED << asked, accepting, cases, missed >>

(* The button is that of the select phase: no batch and no generation shown. *)
handleGenerate ==
    /\ drawer.open /\ drawer.batch = NoBatch /\ ~drawer.loading
    /\ asked.calls < MaxCalls
    /\ drawer' = [drawer EXCEPT !.loading = TRUE]
    /\ asked' = [asked EXCEPT !.calls = @ + 1]
    /\ UNCHANGED << accepting, cases, missed >>

(* The provider's answer has at least one valid suggestion, or the call ends
   with an error: a status, a timeout, a truncated or unreadable answer. *)
generate ==
    /\ asked.answered < asked.calls
    /\ \/ /\ drawer' = Showing(drawer, asked.batches + 1)
          /\ asked' = [asked EXCEPT !.answered = @ + 1, !.batches = @ + 1]
       \/ /\ drawer' = [drawer EXCEPT !.loading = FALSE]
          /\ asked' = [asked EXCEPT !.answered = @ + 1]
    /\ UNCHANGED << accepting, cases, missed >>

(* Accept All or Accept Selected. *)
accept(a, chosen) ==
    /\ drawer.open /\ drawer.batch # NoBatch /\ ~drawer.loading /\ ~drawer.busy
    /\ chosen # {} /\ accepting[a] = Resting
    /\ drawer' = [drawer EXCEPT !.busy = TRUE]
    /\ accepting' = [accepting EXCEPT ![a] =
           [at |-> "create", batch |-> drawer.batch, todo |-> chosen, created |-> {}]]
    /\ UNCHANGED << asked, cases, missed >>

First(s) == CHOOSE i \in s : \A j \in s : i <= j
Missing == missed.requests < MaxMisses
Case(batch, item) == [batch |-> batch, item |-> item, linked |-> FALSE]

(* A create that is refused or not answered ends the acceptance: the error is
   shown, the drawer stays as it is and its buttons are free again.  What was
   created is neither linked nor taken off the list. *)
AcceptFails(a, left) ==
    /\ drawer' = [drawer EXCEPT !.busy = FALSE]
    /\ accepting' = [accepting EXCEPT ![a] = Resting]
    /\ missed' = [missed EXCEPT !.requests = @ + 1, !.accepts = @ + 1, !.cases = @ \cup left]

CreateAnswer(a) ==
    LET acc == accepting[a]
        item == First(acc.todo)
        id == Len(cases) + 1
        left == acc.todo \ {item}
    IN  /\ acc.at = "create" /\ Len(cases) < MaxCreates
        /\ \/ /\ cases' = Append(cases, Case(acc.batch, item))
              /\ \/ /\ accepting' = [accepting EXCEPT ![a].todo = IF left # {} THEN left
                                                                 ELSE acc.created \cup {id},
                                                      ![a].created = @ \cup {id},
                                                      ![a].at = IF left # {} THEN @ ELSE "link"]
                    /\ UNCHANGED << drawer, missed >>
                 \/ Missing /\ AcceptFails(a, acc.created \cup {id})
           \/ Missing /\ AcceptFails(a, acc.created) /\ UNCHANGED cases
        /\ UNCHANGED asked

(* A link that fails is skipped without a word.  After the last one the drawer
   is dismissed, whatever it shows by then, and the buttons are freed. *)
LinkAnswered(a) ==
    LET acc == accepting[a]
        id == First(acc.todo)
        left == acc.todo \ {id}
    IN  /\ acc.at = "link"
        /\ \/ cases' = [cases EXCEPT ![id].linked = TRUE] /\ UNCHANGED missed
           \/ /\ Missing
              /\ missed' = [missed EXCEPT !.requests = @ + 1, !.cases = @ \cup {id}]
              /\ UNCHANGED cases
        /\ IF left # {}
           THEN accepting' = [accepting EXCEPT ![a].todo = left] /\ UNCHANGED drawer
           ELSE /\ accepting' = [accepting EXCEPT ![a] = Resting]
                /\ drawer' = [Dismissed(drawer) EXCEPT !.busy = FALSE]
        /\ UNCHANGED asked

SuggestNext ==
    \/ openDrawer \/ onDismiss \/ handleGenerate \/ generate
    \/ \E a \in Acceptances :
          CreateAnswer(a) \/ LinkAnswered(a) \/ \E chosen \in SUBSET Items : accept(a, chosen)

SuggestSpec == SuggestInit /\ [][SuggestNext]_suggestVars

-----------------------------------------------------------------------------
(* Whatever is dismissed, reopened or generated while an acceptance runs, a
   suggestion becomes a second test case only after an acceptance that was
   reported as failed, and a test case is left without its link to the source
   work item only by a failed acceptance, a link request that failed, or an
   acceptance still running. *)
SuggestedCasesAreAccountedFor ==
    LET copies(b, i) == {c \in DOMAIN cases : cases[c].batch = b /\ cases[c].item = i}
        running == UNION {accepting[a].created :
                             a \in {d \in Acceptances : accepting[d] # Resting}}
    IN  /\ \A b \in 1..asked.batches, i \in Items :
              Cardinality(copies(b, i)) <= 1 + missed.accepts
        /\ \A c \in DOMAIN cases : cases[c].linked \/ c \in missed.cases \cup running
=============================================================================
