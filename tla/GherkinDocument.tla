-------------------------- MODULE GherkinDocument --------------------------
(***************************************************************************)
(* The feature files of packages/argos-gherkin: parseFeature as the loop   *)
(* over the lines it is, validateGherkin beside it, and the three writers  *)
(* (featureToTestCases, generateFeature, testCasesToFeature), whose texts  *)
(* are parsed again.                                                       *)
(*                                                                         *)
(* A line is its kind and an identity that stands for its text (the title, *)
(* the tags, the step, the cells); a line a writer copies keeps it.  Blank *)
(* and comment lines are skipped by the parser and left out, and so is a   *)
(* Feature: keyword that follows tags on one line.                         *)
(***************************************************************************)
EXTENDS Naturals, FiniteSets, Sequences, Subsequence, FiniteSetsExt

CONSTANTS
    MaxOf,   \* bound: how many lines of each kind a text has
    MaxLines \* bound: how many lines it has

VARIABLES
    lines, \* the text read so far
    parser \* the local variables of parseFeature after it

gherkinVars == << lines, parser >>

LineKinds == DOMAIN MaxOf
ScenarioKinds == {"scenario", "outline"}
Line(kind, id) == [kind |-> kind, id |-> id]
NoTitle == 0

(* "current" is empty or holds the open scenario; a table is its rows, the *)
(* header first, and empty as long as there is no header.                  *)
EmptyParser ==
    [title |-> NoTitle, description |-> << >>, background |-> << >>, scenarios |-> << >>,
     pendingTags |-> << >>, current |-> << >>, table |-> << >>,
     inBackground |-> FALSE, inFeatureDesc |-> FALSE, inExamples |-> FALSE]

(* Mutant: the table is not emptied with the scenario it belongs to. *)
closeScenarioOnly(p) ==
    IF p.current = << >> THEN p
    ELSE [p EXCEPT !.scenarios = Append(@, [p.current[1] EXCEPT !.examples = p.table]),
                   !.current = << >>, !.inExamples = FALSE]
closeScenario(p) ==
    IF p.current = << >> THEN p
    ELSE [p EXCEPT !.scenarios = Append(@, [p.current[1] EXCEPT !.examples = p.table]),
                   !.current = << >>, !.inExamples = FALSE, !.table = << >>]

NewScenario(l, tags) ==
    << [title |-> l.id, tags |-> tags, steps |-> << >>,
        isOutline |-> l.kind = "outline", examples |-> << >>] >>

OpenScenario(p, l) ==
    [closeScenario(p) EXCEPT !.inFeatureDesc = FALSE, !.inBackground = FALSE,
                             !.current = NewScenario(l, p.pendingTags), !.pendingTags = << >>]

AddStep(p, l) ==
    LET q == [p EXCEPT !.inExamples = FALSE]
    IN  IF p.inBackground THEN [q EXCEPT !.background = Append(@, l.id)]
        ELSE IF p.current # << >> THEN [q EXCEPT !.current[1].steps = Append(@, l.id)]
        ELSE q

AddDescription(p, l) ==
    IF p.inFeatureDesc THEN [p EXCEPT !.description = Append(@, l.id)] ELSE p

(* One turn of the loop. *)
Read(p, l) ==
    CASE l.kind = "feature" ->
            [p EXCEPT !.title = l.id, !.inFeatureDesc = TRUE, !.inBackground = FALSE]
      [] l.kind = "background" ->
            closeScenario([p EXCEPT !.inFeatureDesc = FALSE, !.inBackground = TRUE])
      [] l.kind = "tags" -> [p EXCEPT !.inFeatureDesc = FALSE, !.pendingTags = << l.id >>]
      [] l.kind \in ScenarioKinds -> OpenScenario(p, l)
      [] l.kind = "examples" -> [p EXCEPT !.inExamples = TRUE]
      [] l.kind = "row" /\ p.inExamples -> [p EXCEPT !.table = Append(@, l.id)]
      [] l.kind = "step" -> AddStep(p, l)
      [] OTHER -> AddDescription(p, l)

Reads(p, text) ==
    LET after[n \in 0..Len(text)] == IF n = 0 THEN p ELSE Read(after[n - 1], text[n])
    IN  after[Len(text)]

parseFeature(text) == closeScenario(Reads(EmptyParser, text))

-----------------------------------------------------------------------------
(* The writers. *)

Joined(texts) ==
    LET upTo[k \in 0..Len(texts)] == IF k = 0 THEN << >> ELSE upTo[k - 1] \o texts[k]
    IN  upTo[Len(texts)]

LinesOf(kind, ids) == [i \in DOMAIN ids |-> Line(kind, ids[i])]

ScenarioText(s) ==
    LinesOf("tags", s.tags)
    \o << Line(IF s.isOutline THEN "outline" ELSE "scenario", s.title) >>
    \o LinesOf("step", s.steps)
    \o (IF s.examples = << >> THEN << >>
        ELSE << Line("examples", 0) >> \o LinesOf("row", s.examples))

generateFeature(title, scenarios, background) ==
    << Line("feature", title) >>
    \o (IF background = << >> THEN << >>
        ELSE << Line("background", 0) >> \o LinesOf("step", background))
    \o Joined([k \in DOMAIN scenarios |-> ScenarioText(scenarios[k])])

(* Mutant: the tags are not written. *)
DraftWithoutTags(title, s) ==
    [title |-> s.title, steps |-> s.steps,
     gherkin |-> << Line("feature", title) >> \o ScenarioText([s EXCEPT !.tags = << >>])]
Draft(title, s) ==
    [title |-> s.title, steps |-> s.steps,
     gherkin |-> << Line("feature", title) >> \o ScenarioText(s)]

featureToTestCases(text) ==
    LET feature == parseFeature(text)
    IN  [k \in DOMAIN feature.scenarios |-> Draft(feature.title, feature.scenarios[k])]

(* A test case without Gherkin has the empty text, and no scenario. *)
testCasesToFeature(title, testCases) ==
    LET written == Kept(testCases, {k \in DOMAIN testCases : testCases[k].gherkin # << >>})
    IN  generateFeature(
            title,
            Joined([k \in DOMAIN written |-> parseFeature(written[k].gherkin).scenarios]),
            << >>)

-----------------------------------------------------------------------------
(* validateGherkin: the blocks are those of scenarios only. *)

ScenarioStarts(text) == {i \in DOMAIN text : text[i].kind \in ScenarioKinds}

Block(text, start) ==
    LET later == {j \in ScenarioStarts(text) : j > start}
        end == IF later = {} THEN Len(text) ELSE Min(later) - 1
    IN  {text[i].kind : i \in (start + 1)..end}

validateGherkin(text) ==
    /\ \E i \in DOMAIN text : text[i].kind = "feature"
    /\ ScenarioStarts(text) # {}
    /\ \A s \in ScenarioStarts(text) :
          /\ "step" \in Block(text, s)
          /\ text[s].kind = "outline" => "examples" \in Block(text, s)

-----------------------------------------------------------------------------
GherkinInit == lines = << >> /\ parser = EmptyParser

ReadLine(kind) ==
    LET l == Line(kind, Len(lines) + 1)
    IN  /\ Len(lines) < MaxLines
        /\ Cardinality({i \in DOMAIN lines : lines[i].kind = kind}) < MaxOf[kind]
        /\ lines' = Append(lines, l)
        /\ parser' = Read(parser, l)

GherkinNext == \E kind \in LineKinds : ReadLine(kind)

GherkinSpec == GherkinInit /\ [][GherkinNext]_gherkinVars

-----------------------------------------------------------------------------
(* What the text says, by position instead of by the parser's flags. *)

Parsed == closeScenario(parser)
HeaderKinds == ScenarioKinds \cup {"background"}
LastLine(text, kinds, i) == Max({0} \cup {j \in 1..i : text[j].kind \in kinds})
Starts(text) == Kept(text, ScenarioStarts(text))
Ids(text, places) == Kept([i \in DOMAIN text |-> text[i].id], places)

IsStepUnder(text, n, i) == text[n].kind = "step" /\ LastLine(text, HeaderKinds, n) = i
IsInBackground(text, n) ==
    LET i == LastLine(text, HeaderKinds \cup {"feature"}, n)
    IN  i # 0 /\ text[i].kind = "background"
IsInTable(text, n) ==
    LET j == LastLine(text, HeaderKinds \cup {"examples", "step"}, n)
    IN  j # 0 /\ text[j].kind = "examples"

StepsUnder(text, i) == Ids(text, {n \in DOMAIN text : IsStepUnder(text, n, i)})
BackgroundSteps(text) ==
    Ids(text, {n \in DOMAIN text : text[n].kind = "step" /\ IsInBackground(text, n)})
RowsUnder(text, i) ==
    Ids(text, {n \in DOMAIN text : /\ text[n].kind = "row" /\ IsInTable(text, n)
                                   /\ LastLine(text, HeaderKinds, n) = i})

LastTags(text, first, last) ==
    LET found == {j \in first..last : text[j].kind = "tags"}
    IN  IF found = {} THEN << >> ELSE << Max(found) >>
TagsOf(text, k) ==
    LastTags(text, IF k = 1 THEN 1 ELSE Starts(text)[k - 1].id, Starts(text)[k].id)

IsAsWritten(text, s, k) ==
    /\ s.title = Starts(text)[k].id
    /\ s.isOutline = (Starts(text)[k].kind = "outline")
    /\ s.steps = StepsUnder(text, s.title)
    /\ s.tags = TagsOf(text, k)

BlocksAsWritten ==
    /\ Parsed.background = BackgroundSteps(lines)
    /\ Len(Parsed.scenarios) = Len(Starts(lines))
    /\ \A k \in DOMAIN Starts(lines) : IsAsWritten(lines, Parsed.scenarios[k], k)

ExamplesInScenarios(text) ==
    \A i \in DOMAIN text : text[i].kind = "examples" =>
        LET h == LastLine(text, HeaderKinds, i) IN h # 0 /\ text[h].kind \in ScenarioKinds

BackgroundFirst ==
    \A i \in DOMAIN lines, s \in ScenarioStarts(lines) :
        lines[i].kind = "background" => i < s

(* Every line is where it was written: a step with the last scenario or    *)
(* background above it, a scenario with the last tags since the scenario   *)
(* before, a table with its own scenario unless some Examples: line stands *)
(* outside of one, from where the flag and the rows go to the next         *)
(* (parser.ts, closeScenario's return).  And the validator cuts the file   *)
(* into the same blocks: in a valid file whose background comes first      *)
(* every scenario has steps.                                               *)
LinesStayInTheirBlock ==
    /\ BlocksAsWritten
    /\ ExamplesInScenarios(lines) =>
          \A s \in Range(Parsed.scenarios) : s.examples = RowsUnder(lines, s.title)
    /\ validateGherkin(lines) /\ BackgroundFirst =>
          \A s \in Range(Parsed.scenarios) : s.steps # << >>

(* A parsed file written again parses to the same title, background and    *)
(* scenarios, however odd it was (generateFeature); taken apart into test  *)
(* cases and put together again, a case without Gherkin among them, it has *)
(* the same scenarios (featureToTestCases, testCasesToFeature).            *)
RewritingKeepsScenarios ==
    LET again == parseFeature(generateFeature(Parsed.title, Parsed.scenarios, Parsed.background))
        manual == [title |-> NoTitle, steps |-> << >>, gherkin |-> << >>]
        testCases == << manual >> \o featureToTestCases(lines)
    IN  /\ << again.title, again.background >> = << Parsed.title, Parsed.background >>
        /\ again.scenarios = Parsed.scenarios
        /\ parseFeature(testCasesToFeature(NoTitle, testCases)).scenarios = Parsed.scenarios
=============================================================================
