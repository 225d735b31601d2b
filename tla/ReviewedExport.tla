---------------------------- MODULE ReviewedExport ----------------------------
(***************************************************************************)
(* What the workflow promises, with no files in it: every question of the  *)
(* package has at most one draft answer, a reviewer approves the draft as  *)
(* it stands, any new draft loses the approval, and a sheet is published   *)
(* all at once, only from approved drafts, never over an earlier sheet.    *)
(***************************************************************************)
CONSTANTS Questions, Packages, Asks, Texts, OutputPaths, None

VARIABLES
  package,     \* the package being answered
  draft,       \* the text a question is answered with for now
  approved,    \* the questions whose draft a reviewer approved
  published    \* the rows of the published sheets

Rows == [path : OutputPaths, package : Packages, question : Questions, text : Texts]

Init ==
  /\ package = None
  /\ draft = [q \in Questions |-> None]
  /\ approved = {}
  /\ published = {}

Receive ==
  /\ package' \in Packages
  /\ UNCHANGED <<draft, approved, published>>

(* New drafts for the questions of R, none of which stays approved. *)
Redraft(R) ==
  /\ \E text \in [R -> Texts] :
       draft' = [q \in Questions |-> IF q \in R THEN text[q] ELSE draft[q]]
  /\ approved' = approved \ R
  /\ UNCHANGED <<package, published>>

Approve(q) ==
  /\ draft[q] # None
  /\ approved' = approved \cup {q}
  /\ UNCHANGED <<package, draft, published>>

Withdraw(q) ==
  /\ approved' = approved \ {q}
  /\ UNCHANGED <<package, draft, published>>

Publish(path) ==
  /\ package # None
  /\ \A r \in published : r.path # path
  /\ DOMAIN Asks[package] = approved
  /\ published' = published \cup {[path |-> path, package |-> package, question |-> q,
                                   text |-> draft[q]] : q \in approved}
  /\ UNCHANGED <<package, draft, approved>>

Next ==
  \/ Receive
  \/ \E R \in SUBSET Questions : Redraft(R)
  \/ \E q \in Questions : Approve(q) \/ Withdraw(q)
  \/ \E path \in OutputPaths : Publish(path)

Spec == Init /\ [][Next]_<<package, draft, approved, published>>
===============================================================================
