---------------------------- MODULE MCSideBySide ----------------------------
(* The panels of the hub, the command line upload and the functions of the  *)
(* backend for TLC.  They share no state, so one run explores them side by  *)
(* side: "part" says which of them a behaviour is about, and the others     *)
(* stay in one initial state.                                               *)
EXTENDS RunScreen, LinkPanel, SuggestTests, SettingsLists, SettingsDocuments,
        AiProxy, Licensing, BddSync, ResultUpload, StepSuggestions,
        ExecutionReports, SnapshotDiff, GherkinDocument

VARIABLE part

vars == << part, runVars, linkVars, suggestVars, listVars, docVars,
           proxyVars, licenceVars, bddVars, uploadVars, stepVars,
           reportVars, diffVars, gherkinVars >>

(* What the feature files may hold: a scenario, two, one title twice. *)
MCContents == {<< "A" >>, << "A", "B" >>, << "C", "C" >>}

(* Result files: a key twice, a result without a key, failures with and
   without a text, a file with errors and one of an unknown format. *)
Result(key, outcome) == [key |-> key, outcome |-> outcome]
MCReports == {
    [format |-> "junit",
     results |-> << Result("k1", "failed"), Result("k2", "passed"), Result("k2", "mute") >>],
    [format |-> "cucumber", results |-> << Result(NoKey, "failed"), Result("k1", "passed") >>],
    [format |-> "nunit2", results |-> << Result("k1", "failed") >>],
    [format |-> "xunit", results |-> << Result("k2", "skipped") >>],
    [format |-> "garbled", results |-> << >>],
    [format |-> "unsupported", results |-> << >>]}

(* The keys of the cases: none, one beyond what is listed, one key twice. *)
MCPortfolios == {<< >>, << "k1", NoKey, NoKey >>, << "k2", "k1", "k1" >>}

(* Executions by age: another status between two that count, two environments
   and two cases. *)
MCExecutions == [case : {"t1", "t2"}, env : {"qa", "dev"}, status : {"Pass", "Fail", "Blocked"}]
MCLedgers == {
    << ExecutionOf("t1", "qa", "Fail"), ExecutionOf("t1", "qa", "Blocked"),
       ExecutionOf("t2", "qa", "Fail"), ExecutionOf("t1", "qa", "Pass") >>,
    << ExecutionOf("t1", "qa", "Pass"), ExecutionOf("t1", "dev", "Fail"),
       ExecutionOf("t1", "qa", "Fail"), ExecutionOf("t1", "qa", "Pass") >>}

(* Case t9 is linked but not given to the matrix. *)
MCLinks == {<< "w1", "t1" >>, << "w2", "t1" >>, << "w2", "t9" >>, << "w1", "t2" >>}
MCFilters == {<< "any", "any" >>, << "qa", "any" >>, << "any", "Blocked" >>}

(* Steps that differ in one half only. *)
MCStepTexts == [action : {"open", "send"}, expected : {"page", "form"}]
                   \ {[action |-> "send", expected |-> "form"]}

(* Feature files: two scenarios, two tables, enough steps for two blocks.
   A row outside a table stands for every other line. *)
MCMaxOf ==
    [k \in {"feature", "background", "tags", "scenario", "outline",
               "examples", "row", "step"} |->
        IF k \in {"examples", "row", "step"} THEN 2 ELSE 1]

Parts == {"run", "links", "suggest", "lists", "documents", "proxy", "licence", "bdd",
          "upload", "steps", "reports", "diff", "gherkin"}

SomeVersion == [title |-> CHOOSE t \in Titles : TRUE, tags |-> {}, steps |-> << >>]

MCInit ==
    /\ part \in Parts
    /\ RunInit /\ LinkInit /\ SuggestInit /\ ListInit
    /\ DocInit /\ ProxyInit /\ LicenceInit /\ BddInit
    /\ UploadInit /\ StepInit /\ ReportInit /\ GherkinInit
    /\ part # "links" => \A i \in DOMAIN relations :
                            relations[i] = Relation(CHOOSE t \in Targets : TRUE, Native)
    /\ part # "documents" => kind = "ai" /\ document = Unset
    /\ part # "proxy" => mode = "hard"
    /\ part # "bdd" => \A f \in Files : head[f] = << "A" >>
    /\ part # "upload" => tests = << >>
    /\ part # "steps" => rows = << Blank >>
    /\ part # "reports" => ledger = CHOOSE l \in Ledgers : TRUE
    /\ IF part = "diff" THEN DiffInit ELSE before = SomeVersion /\ after = SomeVersion

MCNext ==
    \/ part = "run" /\ RunNext
       /\ UNCHANGED << part, linkVars, suggestVars, listVars, docVars,
                       proxyVars, licenceVars, bddVars, uploadVars,
                       stepVars, reportVars, diffVars, gherkinVars >>
    \/ part = "links" /\ LinkNext
       /\ UNCHANGED << part, runVars, suggestVars, listVars, docVars,
                       proxyVars, licenceVars, bddVars, uploadVars,
                       stepVars, reportVars, diffVars, gherkinVars >>
    \/ part = "suggest" /\ SuggestNext
       /\ UNCHANGED << part, runVars, linkVars, listVars, docVars,
                       proxyVars, licenceVars, bddVars, uploadVars,
                       stepVars, reportVars, diffVars, gherkinVars >>
    \/ part = "lists" /\ ListNext
       /\ UNCHANGED << part, runVars, linkVars, suggestVars, docVars,
                       proxyVars, licenceVars, bddVars, uploadVars,
                       stepVars, reportVars, diffVars, gherkinVars >>
    \/ part = "documents" /\ DocNext
       /\ UNCHANGED << part, runVars, linkVars, suggestVars, listVars,
                       proxyVars, licenceVars, bddVars, uploadVars,
                       stepVars, reportVars, diffVars, gherkinVars >>
    \/ part = "proxy" /\ ProxyNext
       /\ UNCHANGED << part, runVars, linkVars, suggestVars, listVars,
                       docVars, licenceVars, bddVars, uploadVars, stepVars,
                       reportVars, diffVars, gherkinVars >>
    \/ part = "licence" /\ LicenceNext
       /\ UNCHANGED << part, runVars, linkVars, suggestVars, listVars,
                       docVars, proxyVars, bddVars, uploadVars, stepVars,
                       reportVars, diffVars, gherkinVars >>
    \/ part = "bdd" /\ BddNext
       /\ UNCHANGED << part, runVars, linkVars, suggestVars, listVars,
                       docVars, proxyVars, licenceVars, uploadVars,
                       stepVars, reportVars, diffVars, gherkinVars >>
    \/ part = "upload" /\ UploadNext
       /\ UNCHANGED << part, runVars, linkVars, suggestVars, listVars,
                       docVars, proxyVars, licenceVars, bddVars, stepVars,
                       reportVars, diffVars, gherkinVars >>
    \/ part = "steps" /\ StepNext
       /\ UNCHANGED << part, runVars, linkVars, suggestVars, listVars,
                       docVars, proxyVars, licenceVars, bddVars,
                       uploadVars, reportVars, diffVars, gherkinVars >>
    \/ part = "reports" /\ ReportNext
       /\ UNCHANGED << part, runVars, linkVars, suggestVars, listVars,
                       docVars, proxyVars, licenceVars, bddVars,
                       uploadVars, stepVars, diffVars, gherkinVars >>
    \/ part = "gherkin" /\ GherkinNext
       /\ UNCHANGED << part, runVars, linkVars, suggestVars, listVars,
                       docVars, proxyVars, licenceVars, bddVars,
                       uploadVars, stepVars, reportVars, diffVars >>

MCSpec == MCInit /\ [][MCNext]_vars
=============================================================================
