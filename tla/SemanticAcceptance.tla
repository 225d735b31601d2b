-------------------------- MODULE SemanticAcceptance --------------------------
(***************************************************************************)
(* Reviewers judge a candidate of a benchmark question constraint by       *)
(* constraint, and resolve_acceptance says whether the candidate counts    *)
(* as correct.  An item is a question and a revision; its files are in a   *)
(* directory of their own, one judgement for each reviewer (its name is a  *)
(* digest of question, revision and reviewer) and one adjudication.        *)
(***************************************************************************)
EXTENDS Integers, FiniteSets

CONSTANTS
  Items,        \* questions and revisions
  Reviewers,    \* stripped names
  Blank,        \* a name of white space, none of Reviewers
  Constraints,  \* atomic constraints
  None          \* nothing yet

(* AtomicJudgement *)
Checks == [constraint : Constraints, passed : BOOLEAN]

(* A judgement has a check, and one at most of each constraint. *)
Judgements ==
  {j \in [reviewer : Reviewers, checks : SUBSET Checks, passed : BOOLEAN] :
     /\ j.checks # {}
     /\ \A c, d \in j.checks : c.constraint = d.constraint => c = d
     /\ j.passed <=> \A c \in j.checks : c.passed}

Adjudications == [passed : BOOLEAN, disagreements : SUBSET Constraints]
Results == [accepted : BOOLEAN, adjudicated : BOOLEAN, disagreements : SUBSET Constraints]

ASSUME NamesAssumption ==
  /\ Blank \notin Reviewers
  /\ None \notin Judgements \cup Adjudications \cup Results

VARIABLES
  judgements,    \* judgement-*.json of an item, by reviewer
  adjudication,  \* adjudication.json of an item
  result,        \* what resolve_acceptance returned last
  judged         \* history: the judgements it was returned for

vars == <<judgements, adjudication, result, judged>>

TypeOK ==
  /\ judgements \in [Items -> [Reviewers -> Judgements \cup {None}]]
  /\ adjudication \in [Items -> Adjudications \cup {None}]
  /\ result \in [Items -> Results \cup {None}]
  /\ judged \in [Items -> SUBSET Judgements]

Init ==
  /\ judgements = [i \in Items |-> [r \in Reviewers |-> None]]
  /\ adjudication = [i \in Items |-> None]
  /\ result = [i \in Items |-> None]
  /\ judged = [i \in Items |-> {}]

-------------------------------------------------------------------------------
(* Fault: a constraint may be judged twice in one judgement. *)
RecordRepeated(i, r, checks) ==
  /\ r # Blank
  /\ checks # {}
  /\ judgements' = [judgements EXCEPT ![i][r] =
       [reviewer |-> r, checks |-> checks, passed |-> \A c \in checks : c.passed]]
  /\ UNCHANGED <<adjudication, result, judged>>

(* record_judgement.  The same reviewer's second judgement replaces the    *)
(* first; earlier results and the adjudication are left.                   *)
RecordJudgement(i, r, checks) ==
  /\ r # Blank
  /\ checks # {}
  /\ \A c, d \in checks : c.constraint = d.constraint => c = d
  /\ judgements' = [judgements EXCEPT ![i][r] =
       [reviewer |-> r, checks |-> checks, passed |-> \A c \in checks : c.passed]]
  /\ UNCHANGED <<adjudication, result, judged>>

Records(i) == {judgements[i][r] : r \in Reviewers} \ {None}

Verdicts(records, c) == {k.passed : k \in {k \in UNION {j.checks : j \in records} :
                                              k.constraint = c}}

Disagreements(records) == {c \in Constraints : Cardinality(Verdicts(records, c)) > 1}

Returns(i, accepted, adjudicated, disagreements) ==
  /\ result' = [result EXCEPT ![i] = [accepted |-> accepted, adjudicated |-> adjudicated,
                                      disagreements |-> disagreements]]
  /\ judged' = [judged EXCEPT ![i] = Records(i)]
  /\ UNCHANGED judgements

TwoReviewers(i) == Cardinality({j.reviewer : j \in Records(i)}) >= 2

(* resolve_acceptance, by its returns. *)
ResolveTooFew(i) ==
  /\ ~ TwoReviewers(i)
  /\ Returns(i, FALSE, FALSE, {})
  /\ UNCHANGED adjudication

ResolveDisagreed(i) ==
  /\ TwoReviewers(i)
  /\ Disagreements(Records(i)) # {}
  /\ Returns(i, FALSE, FALSE, Disagreements(Records(i)))
  /\ UNCHANGED adjudication

(* Fault: the first adjudication is kept. *)
ResolveAdjudicatedOnce(i) ==
  /\ TwoReviewers(i)
  /\ Disagreements(Records(i)) # {}
  /\ \E passed \in BOOLEAN :
       /\ adjudication' = IF adjudication[i] # None THEN adjudication
            ELSE [adjudication EXCEPT ![i] =
                    [passed |-> passed, disagreements |-> Disagreements(Records(i))]]
       /\ Returns(i, passed, TRUE, {})

(* With an adjudicator, who may be anybody.  The verdict is on the item,   *)
(* also where another constraint was found failed by everyone; what        *)
(* adjudication.json says already is not looked at.                        *)
ResolveAdjudicated(i) ==
  /\ TwoReviewers(i)
  /\ Disagreements(Records(i)) # {}
  /\ \E passed \in BOOLEAN :
       /\ adjudication' = [adjudication EXCEPT ![i] =
            [passed |-> passed, disagreements |-> Disagreements(Records(i))]]
       /\ Returns(i, passed, TRUE, {})

(* Fault: one judgement that passed is enough. *)
ResolveAgreedAny(i) ==
  /\ TwoReviewers(i)
  /\ Disagreements(Records(i)) = {}
  /\ Returns(i, \E j \in Records(i) : j.passed, FALSE, {})
  /\ UNCHANGED adjudication

ResolveAgreed(i) ==
  /\ TwoReviewers(i)
  /\ Disagreements(Records(i)) = {}
  /\ Returns(i, \A j \in Records(i) : j.passed, FALSE, {})
  /\ UNCHANGED adjudication

Next ==
  \E i \in Items :
    \/ \E r \in Reviewers \cup {Blank}, checks \in SUBSET Checks : RecordJudgement(i, r, checks)
    \/ ResolveTooFew(i) \/ ResolveDisagreed(i) \/ ResolveAdjudicated(i) \/ ResolveAgreed(i)

Spec == Init /\ [][Next]_vars

-------------------------------------------------------------------------------
(* Reviewers may judge different constraints.  Whatever they judged, and   *)
(* whoever judged again since, an item accepted without an adjudicator was *)
(* judged by two, and nobody found any constraint failed.                  *)
AcceptedUnanimously ==
  \A i \in Items :
    result[i] # None /\ result[i].accepted /\ ~result[i].adjudicated =>
      /\ \E j, k \in judged[i] : j.reviewer # k.reviewer
      /\ \A j \in judged[i] : \A c \in j.checks : c.passed

(* A result an adjudicator decided is about judgements that contradict     *)
(* each other, and adjudication.json says that verdict and exactly the     *)
(* constraints that were disputed, also when there was a verdict before.   *)
AdjudicationRecorded ==
  \A i \in Items :
    result[i] # None /\ result[i].adjudicated =>
      /\ \E c \in Constraints : Verdicts(judged[i], c) = BOOLEAN
      /\ adjudication[i] # None
      /\ adjudication[i].passed = result[i].accepted
      /\ adjudication[i].disagreements =
           {c \in Constraints : Verdicts(judged[i], c) = BOOLEAN}
===============================================================================
