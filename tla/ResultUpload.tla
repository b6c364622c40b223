---------------------------- MODULE ResultUpload ----------------------------
(***************************************************************************)
(* "argos tc upload-results" of packages/argos-cli: CI jobs that upload a  *)
(* result file, alone or at once, first or again after a failure.          *)
(*                                                                         *)
(* A job parses its file, lists the newest test cases, and then for every  *)
(* result in order finds the case with its automation key (or creates it,  *)
(* or stops) and records a run of one step: start, save, finalize.  Each   *)
(* request is a step; a request that fails, or whose answer is lost, ends  *)
(* the job with exit code 1.  The test cases are only ever added to.       *)
(***************************************************************************)
EXTENDS Naturals, FiniteSets, Sequences, SequencesExt, Subsequence

CONSTANTS
    Reports,    \* the result files: format, and results in order
    Portfolios, \* the keys of the test cases there may be at the start
    Jobs,       \* bound: jobs that run
    ListLimit,  \* how many cases a job lists: the "top" of its list request
    MaxMishaps  \* bound: requests that fail or lose their answer

VARIABLES
    tests,   \* the test cases by age: key, and the job that created it
    results, \* the runs recorded: case, job, result and state
    job,     \* each job: the options, and where it is suspended
    mishaps  \* bound

uploadVars == << tests, results, job, mishaps >>

ASSUME UploadAssumption ==
    /\ ListLimit \in Nat
    /\ "user" \notin Jobs
    /\ \A keys \in Portfolios : Len(keys) \in Nat /\ DOMAIN keys = 1..Len(keys)
    /\ \A r \in Reports : Len(r.results) \in Nat /\ DOMAIN r.results = 1..Len(r.results)

NoKey == "none"
UploadModes == {"match", "create", "strict"}

(* The results to which a parser gives a text: failures with a message in the
   file ("mute" ones have none).  JUnit's <error> is not read and counts as
   mute, the old NUnit format is read without results, and a skipped test of
   xUnit has its reason. *)
parseJUnit == {"failed"}
parseCucumber == {"failed"}
parseNUnit2 == {}
parseNUnit3 == {"failed"}
parseXUnit == {"failed", "skipped"}
parseTestNG == {"failed"}
WithText == [junit |-> parseJUnit, cucumber |-> parseCucumber, nunit2 |-> parseNUnit2,
             nunit3 |-> parseNUnit3, xunit |-> parseXUnit, testng |-> parseTestNG]

(* A file that is not well-formed has no results and one error; an unsupported
   one ends the job before its first request. *)
parseFile(r) == [i \in DOMAIN r.results |->
                    [key |-> r.results[i].key, outcome |-> r.results[i].outcome,
                     text |-> r.results[i].outcome \in WithText[r.format]]]

UploadInit ==
    /\ \E keys \in Portfolios : tests = [i \in DOMAIN keys |-> [key |-> keys[i], by |-> "user"]]
    /\ results = << >>
    /\ job = [j \in Jobs |-> [phase |-> "off"]]
    /\ mishaps = 0

JobGoes(j, to) == job' = [job EXCEPT ![j] = to]

(* The request took effect; without its answer the job ends. *)
Returns(j, answered, to) ==
    IF answered THEN JobGoes(j, to) /\ UNCHANGED mishaps
    ELSE /\ mishaps < MaxMishaps /\ mishaps' = mishaps + 1
         /\ JobGoes(j, [job[j] EXCEPT !.phase = "failed"])

upload(j, r, mode) ==
    /\ job[j].phase = "off"
    /\ JobGoes(j, [phase |-> IF r.format = "unsupported" THEN "failed" ELSE "list",
                   mode |-> mode, items |-> parseFile(r),
                   errors |-> IF r.format = "garbled" THEN 1 ELSE 0, at |-> 1,
                   autoKeyMap |-> << >>, listed |-> 0, case |-> 0, run |-> 0,
                   matched |-> 0, unmatched |-> 0])
    /\ UNCHANGED << tests, results, mishaps >>

(* The newest cases, the newest first: of several with a key the last one set
   in the map is the oldest one listed. *)
Listed == {i \in DOMAIN tests : i + ListLimit > Len(tests) /\ tests[i].key # NoKey}
KeyMap == [k \in {tests[i].key : i \in Listed} |->
              CHOOSE i \in Listed : tests[i].key = k /\ \A h \in Listed : tests[h].key = k => i <= h]

list(j) ==
    /\ job[j].phase = "list"
    /\ JobGoes(j, [job[j] EXCEPT !.phase = "next", !.autoKeyMap = KeyMap, !.listed = Len(tests)])
    /\ UNCHANGED << tests, results, mishaps >>

HasItem(j) == job[j].phase = "next" /\ job[j].at <= Len(job[j].items)
Item(j) == job[j].items[job[j].at]
Known(j) == Item(j).key \in DOMAIN job[j].autoKeyMap
NeedsCase(j) == HasItem(j) /\ ~Known(j) /\ Item(j).key # NoKey /\ job[j].mode = "create"

(* Mutant: a strict job skips what it does not find. *)
skipsAlways(j) ==
    /\ HasItem(j) /\ ~Known(j)
    /\ Item(j).key = NoKey \/ job[j].mode # "create"
    /\ JobGoes(j, [job[j] EXCEPT !.at = @ + 1, !.unmatched = @ + 1])
    /\ UNCHANGED << tests, results, mishaps >>

(* No key, or no case with it: counted as unmatched. *)
skip(j) ==
    /\ HasItem(j) /\ ~Known(j)
    /\ Item(j).key = NoKey \/ job[j].mode = "match"
    /\ JobGoes(j, [job[j] EXCEPT !.at = @ + 1, !.unmatched = @ + 1])
    /\ UNCHANGED << tests, results, mishaps >>

stopStrict(j) ==
    /\ HasItem(j) /\ ~Known(j) /\ Item(j).key # NoKey /\ job[j].mode = "strict"
    /\ JobGoes(j, [job[j] EXCEPT !.phase = "failed"])
    /\ UNCHANGED << tests, results, mishaps >>

(* Mutant: the new case is not put in the map. *)
createForgotten(j, answered) ==
    /\ NeedsCase(j)
    /\ tests' = Append(tests, [key |-> Item(j).key, by |-> j])
    /\ Returns(j, answered, [job[j] EXCEPT !.phase = "start", !.case = Len(tests')])
    /\ UNCHANGED results

createCase(j, answered) ==
    /\ NeedsCase(j)
    /\ tests' = Append(tests, [key |-> Item(j).key, by |-> j])
    /\ Returns(j, answered,
               [job[j] EXCEPT !.phase = "start", !.case = Len(tests'),
                              !.autoKeyMap = [k \in DOMAIN @ \cup {Item(j).key} |->
                                                 IF k = Item(j).key THEN Len(tests') ELSE @[k]]])
    /\ UNCHANGED results

findCase(j) ==
    /\ HasItem(j) /\ Known(j)
    /\ JobGoes(j, [job[j] EXCEPT !.phase = "start", !.case = job[j].autoKeyMap[Item(j).key]])
    /\ UNCHANGED << tests, results, mishaps >>

startRun(j, answered) ==
    /\ job[j].phase = "start"
    /\ results' = Append(results, [case |-> job[j].case, by |-> j, outcome |-> Item(j).outcome,
                                   status |-> "Unexecuted", state |-> "InProgress"])
    /\ Returns(j, answered, [job[j] EXCEPT !.phase = "save", !.run = Len(results')])
    /\ UNCHANGED tests

(* One step; with a text it failed. *)
saveStepResult(j, answered) ==
    /\ job[j].phase = "save"
    /\ results' = [results EXCEPT ![job[j].run].status = IF Item(j).text THEN "Fail" ELSE "Pass"]
    /\ Returns(j, answered, [job[j] EXCEPT !.phase = "finalize"])
    /\ UNCHANGED tests

finalizeRun(j, answered) ==
    /\ job[j].phase = "finalize"
    /\ results' = [results EXCEPT ![job[j].run].state = "Completed"]
    /\ Returns(j, answered, [job[j] EXCEPT !.phase = "next", !.at = @ + 1, !.matched = @ + 1])
    /\ UNCHANGED tests

(* A request is refused: nothing happened, and the job ends. *)
refuse(j) ==
    /\ job[j].phase \in {"list", "start", "save", "finalize"}
       \/ NeedsCase(j)
    /\ Returns(j, FALSE, job[j])
    /\ UNCHANGED << tests, results >>

(* The summary is printed; parse errors make the exit code 1. *)
end(j) ==
    /\ job[j].phase = "next" /\ job[j].at > Len(job[j].items)
    /\ JobGoes(j, [job[j] EXCEPT !.phase = IF job[j].errors > 0 THEN "failed" ELSE "done"])
    /\ UNCHANGED << tests, results, mishaps >>

UploadNext ==
    \E j \in Jobs :
        \/ \E r \in Reports, mode \in UploadModes : upload(j, r, mode)
        \/ list(j)
        \/ skip(j)
        \/ stopStrict(j)
        \/ findCase(j)
        \/ \E answered \in BOOLEAN : createCase(j, answered) \/ startRun(j, answered)
                                     \/ saveStepResult(j, answered) \/ finalizeRun(j, answered)
        \/ refuse(j)
        \/ end(j)

UploadSpec == UploadInit /\ [][UploadNext]_uploadVars
-----------------------------------------------------------------------------
(* Two cases have one key by the doing of a job only if the older one was not
   in what it listed: created by another job after it, or beyond the newest
   ListLimit cases.  A key that comes twice in a file makes one case. *)
TwinsNeedAStaleListing ==
    \A c, d \in DOMAIN tests :
        c < d /\ tests[c].key = tests[d].key /\ tests[d].by \in Jobs =>
            LET j == tests[d].by
            IN  tests[c].by # j /\ (c > job[j].listed \/ c + ListLimit <= job[j].listed)

RunsOf(j) == {n \in DOMAIN results : results[n].by = j}
ClosedRuns(j) == {n \in RunsOf(j) : results[n].state = "Completed"}
MatchedItems(j) == {i \in DOMAIN job[j].items : job[j].items[i].key \in DOMAIN job[j].autoKeyMap}

(* Run n is on a case with the key of item i, with the verdict of its text. *)
Records(n, item) == /\ tests[results[n].case].key = item.key
                    /\ results[n].status = IF item.text THEN "Fail" ELSE "Pass"

(* A job that ends well has recorded every result with a case, in order, on a
   case with its key, as failed exactly if it has a text; strict and
   auto-creating jobs leave out only results without a key.  A job leaves at
   most one run in progress, the one at which a request failed. *)
UploadsAreAccountedFor ==
    \A j \in Jobs : job[j].phase # "off" =>
        /\ Cardinality(RunsOf(j) \ ClosedRuns(j)) <=
               IF job[j].phase \in {"save", "finalize", "failed"} THEN 1 ELSE 0
        /\ job[j].phase = "done" =>
            /\ job[j].mode # "match" =>
                   \A i \in DOMAIN job[j].items : job[j].items[i].key # NoKey => i \in MatchedItems(j)
            /\ job[j].matched + job[j].unmatched = Len(job[j].items)
            /\ job[j].matched = Cardinality(ClosedRuns(j))
            /\ job[j].matched = Cardinality(MatchedItems(j))
            /\ \A n \in ClosedRuns(j), i \in MatchedItems(j) :
                  Place(n, ClosedRuns(j)) = Place(i, MatchedItems(j)) => Records(n, job[j].items[i])

(* Specs/spec.md says the runs get the corresponding status: a test that failed
   is not recorded as passed. *)
VerdictIsTheOutcome ==
    \A r \in ToSet(results) :
        r.state = "Completed" /\ r.outcome \in {"failed", "mute"} => r.status = "Fail"
=============================================================================
