---------------------------- MODULE SnapshotDiff ----------------------------
(***************************************************************************)
(* diffSnapshots of packages/argos-sdk, what SnapshotDiffPanel shows of    *)
(* two versions of a test case: which steps were added and removed, by a   *)
(* longest common subsequence, and what became of title and tags.          *)
(*                                                                         *)
(* It is a pure function: the state is its input, and it never changes.    *)
(***************************************************************************)
EXTENDS Naturals, FiniteSets, Sequences, SequencesExt, Subsequence, FiniteSetsExt

CONSTANTS
    Titles,      \* titles of a version
    TagNames,    \* tags it may have
    StepTexts,   \* steps it may have: an action and what is expected
    MaxStepCount \* bound: steps of a version

ASSUME DiffAssumption ==
    /\ \A s \in StepTexts : s = [action |-> s.action, expected |-> s.expected]
    /\ MaxStepCount \in Nat

VARIABLES before, after \* the two versions

diffVars == << before, after >>

Versions == [title : Titles, tags : SUBSET TagNames, steps : BoundedSeq(StepTexts, MaxStepCount)]

DiffInit == before \in Versions /\ after \in Versions

(* Mutant: only the action is compared. *)
sameAction(a, b) == a.action = b.action
stepsEqual(a, b) == a.action = b.action /\ a.expected = b.expected

(* The length table: dp[i, j] is about the first i and the first j steps. *)
LengthTable(left, right) ==
    LET dp[p \in (0..Len(left)) \X (0..Len(right))] ==
            LET i == p[1]
                j == p[2]
            IN  IF i = 0 \/ j = 0 THEN 0
                ELSE IF stepsEqual(left[i], right[j]) THEN dp[<< i - 1, j - 1 >>] + 1
                ELSE Max({dp[<< i - 1, j >>], dp[<< i, j - 1 >>]})
    IN  dp

Entry(type, l, r) == [type |-> type, left |-> l, right |-> r]
NoStep == << >>

(* The walk back from any place of the table, as the script of what it passes. *)
Scripts(left, right) ==
    LET dp == LengthTable(left, right)
        script[p \in (0..Len(left)) \X (0..Len(right))] ==
            LET i == p[1]
                j == p[2]
            IN  IF i = 0 /\ j = 0 THEN << >>
                ELSE IF i > 0 /\ j > 0 /\ stepsEqual(left[i], right[j])
                THEN Append(script[<< i - 1, j - 1 >>], Entry("equal", left[i], right[j]))
                ELSE IF j > 0 /\ (i = 0 \/ dp[<< i, j - 1 >>] >= dp[<< i - 1, j >>])
                THEN Append(script[<< i, j - 1 >>], Entry("added", NoStep, right[j]))
                ELSE Append(script[<< i - 1, j >>], Entry("removed", left[i], NoStep))
    IN  script

lcsStepDiff(left, right) == Scripts(left, right)[<< Len(left), Len(right) >>]

diffSnapshots(b, a) ==
    [titleChanged |-> b.title # a.title,
     added |-> a.tags \ b.tags, removed |-> b.tags \ a.tags,
     steps |-> lcsStepDiff(b.steps, a.steps)]

(* The panel says "No changes between these two versions." *)
hasAnyChange(d) ==
    \/ d.titleChanged \/ d.added # {} \/ d.removed # {}
    \/ \E e \in ToSet(d.steps) : e.type # "equal"
-----------------------------------------------------------------------------
Of(d, types) == Kept(d, {n \in DOMAIN d : d[n].type \in types})

(* Places of steps that both versions have in the same order. *)
Common(left, right) ==
    {s \in SUBSET DOMAIN left :
        \E t \in SUBSET DOMAIN right : Kept(left, s) = Kept(right, t)}

(* The script takes the one version to the other: read without what was added
   it is the old one, without what was removed the new one, a step is equal
   only to itself, and no script keeps more steps.  "No changes" is shown only
   of versions that are alike. *)
DiffIsAShortestScript ==
    LET d == diffSnapshots(before, after)
        old == Of(d.steps, {"equal", "removed"})
        new == Of(d.steps, {"equal", "added"})
        kept == Of(d.steps, {"equal"})
    IN  /\ [i \in DOMAIN old |-> old[i].left] = before.steps
        /\ [i \in DOMAIN new |-> new[i].right] = after.steps
        /\ \A e \in ToSet(kept) : e.left = e.right
        /\ \A s \in Common(before.steps, after.steps) : Cardinality(s) <= Len(kept)
        /\ (before.tags \ d.removed) \cup d.added = after.tags
        /\ hasAnyChange(d) <=> before # after
=============================================================================
