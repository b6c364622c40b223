--------------------------- MODULE MCWebhookIngest ---------------------------
(* An instance of WebhookIngest for TLC.  The report holds a result without a
   key, a passing one, one whose test case is not listed, and a failing one;
   two test cases share the key "a", test case 1 is beyond the limit. *)
EXTENDS WebhookIngest

MCReports == {"r1"}

MCResults ==
    [r \in MCReports |-> << [key |-> NoKey, fails |-> TRUE],
                            [key |-> "a", fails |-> FALSE],
                            [key |-> "old", fails |-> TRUE],
                            [key |-> "b", fails |-> TRUE] >>]

(* Ids 1..4, listed from 4 down to 2. *)
MCCaseKeys == << "old", "a", "b", "a" >>
=============================================================================
