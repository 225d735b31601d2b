--------------------------- MODULE AnswerWorkflowMC ---------------------------
(***************************************************************************)
(* An instance of AnswerWorkflow for TLC: two questions and two packages.  *)
(***************************************************************************)
EXTENDS AnswerWorkflow, TLC

CONSTANTS q1, q2, risky, refused, classified, unknown, t, rej, i1, i2, e1, p1, p2

(* Four wordings: one that translates to a query with a fingerprint field  *)
(* (an item to check, evidence needed), one the validator refuses, one the *)
(* classifier refuses before any report is made, one no rule covers.       *)
MCOutcome ==
  (risky      :> [kind |-> "query", text |-> t, report |-> "valid",
                  required |-> {i1}, evidence |-> TRUE]) @@
  (refused    :> [kind |-> "rejection", text |-> rej, report |-> "invalid",
                  required |-> {i2}, evidence |-> FALSE]) @@
  (classified :> [kind |-> "rejection", text |-> rej, report |-> "none",
                  required |-> {i2}, evidence |-> FALSE]) @@
  (unknown    :> [kind |-> "none", text |-> rej, report |-> "none",
                  required |-> {}, evidence |-> FALSE])

(* The second package rewords the first question and drops the second. *)
MCAsks == (p1 :> ((q1 :> risky) @@ (q2 :> classified))) @@ (p2 :> (q1 :> refused))

(* The second package rewords the first question so that no rule covers it *)
(* any more: the candidate drafted for the old wording stays.              *)
RewordedAsks == (p1 :> (q1 :> risky)) @@ (p2 :> (q1 :> unknown))

(* The first question is followed deeper than the second. *)
MCMaxRevision == (q1 :> 3) @@ (q2 :> 2)
MCMaxReviews  == (q1 :> 2) @@ (q2 :> 1)
===============================================================================
