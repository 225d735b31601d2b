--------------------------- MODULE WorkspaceRacesMC ---------------------------
(***************************************************************************)
(* Two processes on one question with two wordings.                        *)
(***************************************************************************)
EXTENDS WorkspaceRaces, TLC

CONSTANTS query, refused, t1, t2, rej, i1, i2, a, b

MCOutcome ==
  (query   :> [text |-> t1, report |-> "valid", required |-> {i1}]) @@
  (refused :> [text |-> rej, report |-> "none", required |-> {i2}])

(* Required items only keep confirmations and exports from passing, and no *)
(* property of the run with this outcome is about them.                    *)
NoItems ==
  (query   :> [text |-> t1, report |-> "valid", required |-> {}]) @@
  (refused :> [text |-> rej, report |-> "invalid", required |-> {}])

TwoQueries ==
  (query   :> [text |-> t1, report |-> "valid", required |-> {i1}]) @@
  (refused :> [text |-> t2, report |-> "valid", required |-> {i2}])

Symmetry == Permutations(Procs)
===============================================================================
