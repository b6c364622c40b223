-------------------------- MODULE ExecutionReports --------------------------
(***************************************************************************)
(* What the hub tells about the executions of a test case: the panel       *)
(* ExecutionHistory with its filters, pages and "Flaky" badges, the        *)
(* coverage matrix, and the score of the flakiness detector.               *)
(*                                                                         *)
(* Every change of a filter or page is a request of its own, served when   *)
(* it reaches Azure DevOps and shown when its answer is back: the answers  *)
(* may come in any order, and one that fails leaves the panel as it was.   *)
(***************************************************************************)
EXTENDS Naturals, FiniteSets, Sequences, SequencesExt, Subsequence, FiniteSetsExt

CONSTANTS
    Environments, \* environments of the executions
    Verdicts,     \* statuses of the executions that are added
    Filters,      \* what the user selects: an environment and a status, or "any"
    Executions,   \* what an execution may be: case, environment, status
    Ledgers,      \* the executions there may be at the start, by age
    Links,        \* links of work items and test cases
    Columns,      \* test cases the matrix is given; links may name others
    PageSize,     \* 20 in the panel
    Window,       \* 5: the runs a badge is about
    RunLimit,     \* 50: the runs a score is about
    MaxNew,       \* bound: executions added while the panel is open
    MaxAsks       \* bound: requests of the panel

VARIABLES
    ledger,  \* the executions by age: case, environment, status
    panel,   \* the selects, the page number, and the data shown
    asks,    \* requests on their way: the query, and the answer once served
    seen     \* history: what was asked last, which answer is shown, was the
             \* page reached with other selects; bounds

reportVars == << ledger, panel, asks, seen >>

Here == "t1" \* the test case of the panel
All == "any"
ExecutionOf(t, env, status) == [case |-> t, env |-> env, status |-> status]

(* A badge and a score are about few enough runs for a single alternation to
   round to one percent, and a score is about a page of the panel at least. *)
ASSUME ReportAssumption ==
    /\ Ledgers \subseteq Seq(Executions)
    /\ \A env \in Environments, v \in Verdicts : ExecutionOf(Here, env, v) \in Executions
    /\ All \notin Environments /\ Here \in Columns
    /\ PageSize \in 1..RunLimit /\ Window \in 1..201 /\ RunLimit \in 1..201
ASSUME LinkAssumption == \A l \in Links : l = << l[1], l[2] >>

FirstPage == [env |-> All, status |-> All, page |-> 1]

Newest(runs) == Reverse(runs)
PageOf(s, n) == SubSeq(s, (n - 1) * PageSize + 1,
                       IF n * PageSize < Len(s) THEN n * PageSize ELSE Len(s))

Wanted(r, q) == /\ r.case = Here
                /\ q.env \in {All, r.env} /\ q.status \in {All, r.status}
Matches(q) == LET runs == Newest(ledger) IN Kept(runs, {n \in DOMAIN runs : Wanted(runs[n], q)})

listExecutions(q) == [query |-> q, items |-> PageOf(Matches(q), q.page), total |-> Len(Matches(q))]

NoData == [query |-> FirstPage, items |-> << >>, total |-> 0]

Ask(q, skewed) ==
    /\ seen.asks < MaxAsks
    /\ asks' = Append(asks, [nr |-> seen.asks + 1, query |-> q, served |-> FALSE, answer |-> NoData])
    /\ seen' = [seen EXCEPT !.asks = @ + 1, !.last = q, !.skewed = skewed]

(* The panel asks for the first page when it opens. *)
ReportInit ==
    /\ ledger \in Ledgers
    /\ panel = [env |-> All, status |-> All, page |-> 1, data |-> NoData]
    /\ asks = << [nr |-> 1, query |-> FirstPage, served |-> FALSE, answer |-> NoData] >>
    /\ seen = [asks |-> 1, new |-> 0, last |-> FirstPage, shown |-> 0, skewed |-> FALSE]

setFilter(env, status) ==
    /\ << panel.env, panel.status >> # << env, status >>
    /\ panel' = [panel EXCEPT !.env = env, !.status = status]
    /\ UNCHANGED << ledger, asks, seen >>

Selected(n) == [env |-> panel.env, status |-> panel.status, page |-> n]

(* Mutant: the page stays where it is. *)
applyOnThisPage ==
    /\ Ask(Selected(panel.page), FALSE)
    /\ UNCHANGED << ledger, panel >>

handleApplyFilters ==
    /\ panel' = [panel EXCEPT !.page = 1]
    /\ Ask(Selected(1), FALSE)
    /\ UNCHANGED ledger

(* The buttons follow the total of the data shown, and ask with the selects as
   they are now, applied or not. *)
TotalPages == (panel.data.total + PageSize - 1) \div PageSize

TurnTo(n, skewed) ==
    /\ TotalPages > 1
    /\ panel' = [panel EXCEPT !.page = n]
    /\ Ask(Selected(n), skewed)
    /\ UNCHANGED ledger

SelectedAs(q) == << panel.env, panel.status >> = << q.env, q.status >>

handleNextPage ==
    /\ panel.page < TotalPages
    /\ TurnTo(panel.page + 1, ~SelectedAs(panel.data.query))
handlePrevPage ==
    /\ panel.page # 1
    /\ TurnTo(panel.page - 1, panel.page # 2 /\ (seen.skewed \/ ~SelectedAs(seen.last)))

serve(i) ==
    /\ i \in DOMAIN asks /\ ~asks[i].served
    /\ asks' = [asks EXCEPT ![i].served = TRUE, ![i].answer = listExecutions(asks[i].query)]
    /\ UNCHANGED << ledger, panel, seen >>

setData(i) ==
    /\ i \in DOMAIN asks /\ asks[i].served
    /\ panel' = [panel EXCEPT !.data = asks[i].answer]
    /\ seen' = [seen EXCEPT !.shown = asks[i].nr]
    /\ asks' = RemoveAt(asks, i)
    /\ UNCHANGED ledger

answerLost(i) ==
    /\ i \in DOMAIN asks
    /\ asks' = RemoveAt(asks, i)
    /\ UNCHANGED << ledger, panel, seen >>

(* Another session runs the case. *)
execute(env, status) ==
    /\ seen.new < MaxNew
    /\ ledger' = Append(ledger, ExecutionOf(Here, env, status))
    /\ seen' = [seen EXCEPT !.new = @ + 1]
    /\ UNCHANGED << panel, asks >>

ReportNext ==
    \/ \E f \in Filters : setFilter(f[1], f[2])
    \/ handleApplyFilters \/ handleNextPage \/ handlePrevPage
    \/ \E i \in DOMAIN asks : serve(i) \/ setData(i) \/ answerLost(i)
    \/ \E env \in Environments, status \in Verdicts : execute(env, status)

ReportSpec == ReportInit /\ [][ReportNext]_reportVars
-----------------------------------------------------------------------------
(* The computations on the runs, newest first. *)

OfEnv(runs, env) == Kept(runs, {n \in DOMAIN runs : runs[n].env = env})
Significant(runs) == Kept(runs, {n \in DOMAIN runs : runs[n].status \in {"Pass", "Fail"}})
Transitions(runs) == Cardinality({i \in 2..Len(runs) : runs[i].status # runs[i - 1].status})
FirstRuns(runs, n) == SubSeq(runs, 1, IF n < Len(runs) THEN n ELSE Len(runs))

(* Mutant: the window is cut after the other statuses are dropped. *)
computeFlakyLate(runs) ==
    {env \in {r.env : r \in ToSet(runs)} :
        Transitions(FirstRuns(Significant(OfEnv(runs, env)), Window)) > 0}

(* The window is cut first: it may hold few runs that count. *)
computeFlaky(runs) ==
    {env \in {r.env : r \in ToSet(runs)} :
        Transitions(Significant(FirstRuns(OfEnv(runs, env), Window))) > 0}

(* Percent of the neighbours that differ, rounded. *)
computeFlakinessScore(runs) ==
    LET s == Significant(runs)
    IN  IF Len(s) < 2 THEN 0
        ELSE (200 * Transitions(s) + Len(s) - 1) \div (2 * (Len(s) - 1))

(* The badge column and the latest status of an environment, from the page. *)
flakyEnvs == computeFlaky(panel.data.items)
latestByEnv(env) == Head(OfEnv(panel.data.items, env)).status

NoStatus == "none"

(* The matrix of all executions, or those of an environment: a row for every
   work item with a link, a column for every given case with one. *)
buildCoverageMatrix(env) ==
    LET sorted == Newest(ledger)
        filtered == Kept(sorted, {n \in DOMAIN sorted : env \in {All, sorted[n].env}})
        latest(t) == LET ofCase == {n \in DOMAIN filtered : filtered[n].case = t}
                     IN  IF ofCase = {} THEN NoStatus ELSE filtered[Min(ofCase)].status
        columns == {t \in Columns : \E l \in Links : l[2] = t}
    IN  [w \in {l[1] : l \in Links} |->
            [t \in columns |-> [linked |-> << w, t >> \in Links,
                                status |-> IF << w, t >> \in Links THEN latest(t) ELSE NoStatus]]]
-----------------------------------------------------------------------------
(* The panel shows the answer to what was asked last, unless that answer is not
   back, or one to an earlier request came after it.  Then it shows no execution
   only if none matches, unless "Next" was clicked when the selects were not those
   of the data on the screen, or "Previous" when they were not those asked with
   before. *)
HistoryShowsWhatWasAsked ==
    seen.shown = seen.asks =>
        /\ panel.data.query = seen.last
        /\ panel.data.query.page = panel.page
        /\ panel.data.items = << >> /\ ~seen.skewed => panel.data.total = 0

(* A first page without filters that is not out of date agrees with the other
   reports: the latest status of an environment is that of the case's cells in
   the matrix of that environment; the badge says whether the newest runs of
   the environment alternate, if the page holds enough of them; and a badged
   case has a score in the detector's report. *)
ReportsAgree ==
    panel.data # NoData /\ panel.data = listExecutions(FirstPage) =>
        LET shown == panel.data.items
        IN  \A env \in Environments :
                LET every == OfEnv(Matches(FirstPage), env)
                    held == OfEnv(shown, env)
                    cells == buildCoverageMatrix(env)
                IN  /\ held # << >> =>
                           \A l \in Links : l[2] = Here => cells[l[1]][Here].status = latestByEnv(env)
                    /\ held = every \/ Len(held) >= Window =>
                           (env \in flakyEnvs <=>
                                computeFlakinessScore(FirstRuns(every, Window)) > 0)
                    /\ env \in flakyEnvs =>
                           computeFlakinessScore(FirstRuns(Matches(FirstPage), RunLimit)) > 0
=============================================================================
