---------------------------- MODULE PackageRunsMC ----------------------------
(***************************************************************************)
(* Two processes, two questions and two packages that share one.   *)
(***************************************************************************)
EXTENDS PackageRuns, TLC

CONSTANTS a, b, q1, q2

(* Two sets of documents that pass (the second drops a question), and one  *)
(* for each finding.                                                       *)
MCDocuments == {
  [package |-> "P1", templatePackage |-> "P1", questions |-> <<q1, q2>>, template |-> <<q2, q1>>],
  [package |-> "P2", templatePackage |-> "P2", questions |-> <<q2>>, template |-> <<q2>>],
  [package |-> "P1", templatePackage |-> "P2", questions |-> <<q1>>, template |-> <<q1>>],
  [package |-> "P1", templatePackage |-> "P1", questions |-> <<>>, template |-> <<q1>>],
  [package |-> "P1", templatePackage |-> "P1", questions |-> <<q1>>, template |-> <<>>],
  [package |-> "P1", templatePackage |-> "P1", questions |-> <<q1, q1>>, template |-> <<q1>>],
  [package |-> "P1", templatePackage |-> "P1", questions |-> <<q1>>, template |-> <<q1, q1>>],
  [package |-> "P1", templatePackage |-> "P1", questions |-> <<q1, q2>>, template |-> <<q1>>],
  [package |-> "P1", templatePackage |-> "P1", questions |-> <<q1>>, template |-> <<q1, q2>>]}

Symmetry == Permutations(Procs)
===============================================================================
