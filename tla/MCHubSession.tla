---------------------------- MODULE MCHubSession ----------------------------
(* The hub page for TLC: the sessions it explores. *)
EXTENDS HubForms

(* The pages a session visits; do the types exist at its start, and does a
   detection fail at times; bounds on mounts, edits, lost answers, and edits
   by other sessions. *)
Session(visits, installed, flaky, mounts, edits, lost, foreign) ==
    [visits |-> visits, installed |-> installed, flaky |-> flaky, mounts |-> mounts,
     edits |-> edits, lost |-> lost, foreign |-> foreign]

MCSessions == {
    Session({"case"}, TRUE, FALSE, 7, 2, 1, 0),
    Session({"plan"}, TRUE, FALSE, 4, 2, 0, 1),
    Session({"set"}, TRUE, FALSE, 4, 2, 0, 1),
    Session({"case", "exec"}, TRUE, FALSE, 5, 1, 0, 0),
    Session({"pre"}, FALSE, TRUE, 5, 1, 0, 0),
    Session({"exec", "versions"}, TRUE, FALSE, 3, 0, 0, 0)}
=============================================================================
