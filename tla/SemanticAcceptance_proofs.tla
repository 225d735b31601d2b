---------------------- MODULE SemanticAcceptance_proofs ----------------------
(***************************************************************************)
(* Theorems about SemanticAcceptance for all items, reviewers and          *)
(* constraints.                                                            *)
(***************************************************************************)
EXTENDS SemanticAcceptance, FiniteSetTheorems, TLAPS

LEMMA TwoAreDistinct ==
  ASSUME NEW S, Cardinality(S) > 1 \/ Cardinality(S) >= 2
  PROVE  \E x, y \in S : x # y
<1> SUFFICES ASSUME \A x, y \in S : x = y PROVE FALSE
  OBVIOUS
<1>1. CASE S = {}
  BY <1>1, FS_EmptySet
<1>2. CASE S # {}
  <2>1. PICK x \in S : S = {x}
    BY <1>2
  <2>2. Cardinality(S) = 1
    BY <2>1, FS_Singleton
  <2>3. QED BY <2>2
<1>3. QED BY <1>1, <1>2

LEMMA PairHasTwo ==
  ASSUME NEW x, NEW y, x # y
  PROVE  Cardinality({x, y}) = 2
<1>1. IsFiniteSet({x}) /\ Cardinality({x}) = 1 /\ y \notin {x}
  BY FS_Singleton
<1>2. Cardinality({x} \cup {y}) = 1 + 1
  BY <1>1, FS_AddElement
<1>3. {x, y} = {x} \cup {y}
  OBVIOUS
<1>4. QED BY <1>2, <1>3

(* A set of Boolean values has more than one exactly when it has both. *)
LEMMA BothVerdicts ==
  ASSUME NEW S \in SUBSET BOOLEAN
  PROVE  Cardinality(S) > 1 <=> S = BOOLEAN
<1>1. ASSUME Cardinality(S) > 1 PROVE S = BOOLEAN
  <2>1. PICK x \in S, y \in S : x # y
    BY <1>1, TwoAreDistinct
  <2>2. QED BY <2>1
<1>2. Cardinality(BOOLEAN) > 1
  <2>1. \A x, y : x # y => Cardinality({x, y}) = 2
    BY PairHasTwo
  <2>2. Cardinality({TRUE, FALSE}) = 2
    BY <2>1, Zenon
  <2>3. BOOLEAN = {TRUE, FALSE}
    OBVIOUS
  <2>4. Cardinality(BOOLEAN) = 2
    BY <2>2, <2>3, Zenon
  <2>5. QED BY <2>4
<1>3. QED BY <1>1, <1>2

LEMMA VerdictsType ==
  ASSUME NEW records \in SUBSET Judgements, NEW c
  PROVE  Verdicts(records, c) \in SUBSET BOOLEAN
<1>1. \A j \in records : j.checks \subseteq Checks
  BY DEF Judgements
<1>2. \A k \in Checks : k.passed \in BOOLEAN
  BY DEF Checks
<1>3. QED BY <1>1, <1>2 DEF Verdicts

(* The constraints on which the judgements contradict each other. *)
LEMMA DisputedConstraints ==
  ASSUME NEW records \in SUBSET Judgements
  PROVE  Disagreements(records) = {c \in Constraints : Verdicts(records, c) = BOOLEAN}
BY VerdictsType, BothVerdicts DEF Disagreements

LEMMA RecordsType ==
  ASSUME TypeOK, NEW i \in Items
  PROVE  Records(i) \in SUBSET Judgements
BY DEF TypeOK, Records

LEMMA TwoJudged ==
  ASSUME NEW i \in Items, TwoReviewers(i)
  PROVE  \E j, k \in Records(i) : j.reviewer # k.reviewer
<1> DEFINE S == {j.reviewer : j \in Records(i)}
<1>1. Cardinality(S) >= 2
  BY DEF TwoReviewers
<1> HIDE DEF S
<1>2. PICK x \in S, y \in S : x # y
  BY <1>1, TwoAreDistinct
<1>3. QED BY <1>2 DEF S

-------------------------------------------------------------------------------
(* What is returned is right of the judgements it is returned for. *)
Unanimous(r, records) ==
  r.accepted /\ ~r.adjudicated =>
    /\ \E j, k \in records : j.reviewer # k.reviewer
    /\ \A j \in records : \A c \in j.checks : c.passed

Recorded(r, records, verdict) ==
  r.adjudicated =>
    /\ \E c \in Constraints : Verdicts(records, c) = BOOLEAN
    /\ verdict # None
    /\ verdict.passed = r.accepted
    /\ verdict.disagreements = {c \in Constraints : Verdicts(records, c) = BOOLEAN}

IInv ==
  /\ TypeOK
  /\ \A i \in Items : result[i] # None =>
       Unanimous(result[i], judged[i]) /\ Recorded(result[i], judged[i], adjudication[i])

LEMMA RecordType ==
  ASSUME TypeOK, NEW i \in Items, NEW r \in Reviewers \cup {Blank}, NEW checks \in SUBSET Checks,
         RecordJudgement(i, r, checks)
  PROVE  TypeOK'
<1> DEFINE j == [reviewer |-> r, checks |-> checks, passed |-> \A c \in checks : c.passed]
<1>1. r \in Reviewers /\ checks # {} /\ \A c, d \in checks : c.constraint = d.constraint => c = d
  BY DEF RecordJudgement
<1>2. j \in [reviewer : Reviewers, checks : SUBSET Checks, passed : BOOLEAN]
  BY <1>1
<1>3. j.checks = checks /\ (j.passed <=> \A c \in checks : c.passed)
  OBVIOUS
<1> HIDE DEF j
<1>4. j \in Judgements
  BY <1>1, <1>2, <1>3 DEF Judgements
<1>5. judgements' = [judgements EXCEPT ![i][r] = j] /\ UNCHANGED <<adjudication, result, judged>>
  BY DEF RecordJudgement, j
<1>6. judgements' \in [Items -> [Reviewers -> Judgements \cup {None}]]
  BY <1>1, <1>4, <1>5 DEF TypeOK
<1>7. QED BY <1>5, <1>6 DEF TypeOK

(* One of the returns: the other items keep what they have. *)
LEMMA ReturnKeeps ==
  ASSUME IInv, NEW i \in Items, NEW accepted \in BOOLEAN, NEW adjudicated \in BOOLEAN,
         NEW D \in SUBSET Constraints, Returns(i, accepted, adjudicated, D),
         NEW verdict \in Adjudications \cup {None},
         adjudication' = [adjudication EXCEPT ![i] = verdict],
         NEW r, r = [accepted |-> accepted, adjudicated |-> adjudicated, disagreements |-> D],
         Unanimous(r, Records(i)), Recorded(r, Records(i), verdict)
  PROVE  IInv'
<1>1. TypeOK /\ Records(i) \in SUBSET Judgements
  BY RecordsType DEF IInv
<1>2. /\ result' = [result EXCEPT ![i] = r] /\ judged' = [judged EXCEPT ![i] = Records(i)]
      /\ judgements' = judgements
  BY DEF Returns
<1>3. r \in Results
  BY DEF Results
<1>4. TypeOK'
  BY <1>1, <1>2, <1>3 DEF TypeOK
<1>5. ASSUME NEW o \in Items, result'[o] # None
      PROVE  /\ Unanimous(result'[o], judged'[o])
             /\ Recorded(result'[o], judged'[o], adjudication'[o])
  <2>1. CASE o = i
    <3>1. result'[o] = r /\ judged'[o] = Records(i) /\ adjudication'[o] = verdict
      BY <1>1, <1>2, <2>1 DEF TypeOK
    <3>2. QED BY <3>1
  <2>2. CASE o # i
    <3>1. /\ result'[o] = result[o] /\ judged'[o] = judged[o]
          /\ adjudication'[o] = adjudication[o]
      BY <1>1, <1>2, <2>2 DEF TypeOK
    <3>2. QED BY <1>5, <3>1 DEF IInv
  <2>3. QED BY <2>1, <2>2
<1>6. QED BY <1>4, <1>5 DEF IInv, Unanimous, Recorded

LEMMA NextKeeps == IInv /\ [Next]_vars => IInv'
<1> SUFFICES ASSUME IInv, [Next]_vars PROVE IInv'
  OBVIOUS
<1>1. TypeOK
  BY DEF IInv
<1>2. ASSUME NEW i \in Items, NEW r \in Reviewers \cup {Blank}, NEW checks \in SUBSET Checks,
             RecordJudgement(i, r, checks)
      PROVE  IInv'
  <2>1. TypeOK'
    BY <1>1, <1>2, RecordType
  <2>2. UNCHANGED <<adjudication, result, judged>>
    BY <1>2 DEF RecordJudgement
  <2>3. QED BY <2>1, <2>2 DEF IInv, Unanimous, Recorded
<1>3. ASSUME NEW i \in Items, UNCHANGED adjudication
      PROVE  /\ adjudication[i] \in Adjudications \cup {None}
             /\ adjudication' = [adjudication EXCEPT ![i] = adjudication[i]]
  BY <1>1, <1>3 DEF TypeOK
<1>4. \A i \in Items : Disagreements(Records(i)) \in SUBSET Constraints
  BY DEF Disagreements
<1>5. ASSUME NEW i \in Items, ResolveTooFew(i) \/ ResolveDisagreed(i)
      PROVE  IInv'
  <2>1. PICK D \in SUBSET Constraints : Returns(i, FALSE, FALSE, D) /\ UNCHANGED adjudication
    <3>1. CASE ResolveTooFew(i)
      <4>1. {} \in SUBSET Constraints
        OBVIOUS
      <4>2. Returns(i, FALSE, FALSE, {}) /\ UNCHANGED adjudication
        BY <3>1 DEF ResolveTooFew
      <4>3. QED BY <4>1, <4>2
    <3>2. CASE ResolveDisagreed(i)
      <4>1. /\ Returns(i, FALSE, FALSE, Disagreements(Records(i)))
            /\ UNCHANGED adjudication
        BY <3>2 DEF ResolveDisagreed
      <4>2. QED BY <1>4, <4>1
    <3>3. QED BY <1>5, <3>1, <3>2
  <2> DEFINE r == [accepted |-> FALSE, adjudicated |-> FALSE, disagreements |-> D]
  <2>2. Unanimous(r, Records(i)) /\ Recorded(r, Records(i), adjudication[i])
    BY DEF Unanimous, Recorded
  <2> HIDE DEF r
  <2>3. QED BY <1>3, <2>1, <2>2, ReturnKeeps DEF r
<1>6. ASSUME NEW i \in Items, ResolveAdjudicated(i)
      PROVE  IInv'
  <2> DEFINE D == Disagreements(Records(i))
  <2>1. PICK passed \in BOOLEAN :
          /\ adjudication' = [adjudication EXCEPT ![i] = [passed |-> passed, disagreements |-> D]]
          /\ Returns(i, passed, TRUE, {})
    BY <1>6 DEF ResolveAdjudicated
  <2> DEFINE r == [accepted |-> passed, adjudicated |-> TRUE, disagreements |-> {}]
             verdict == [passed |-> passed, disagreements |-> D]
  <2>2. D = {c \in Constraints : Verdicts(Records(i), c) = BOOLEAN} /\ D # {}
    BY <1>1, <1>6, RecordsType, DisputedConstraints DEF ResolveAdjudicated
  <2> HIDE DEF D
  <2>3. D \in SUBSET Constraints
    BY <2>2
  <2>4. verdict \in Adjudications /\ verdict # None
    BY <2>3, NamesAssumption DEF Adjudications
  <2>5. Unanimous(r, Records(i)) /\ Recorded(r, Records(i), verdict)
    BY <2>2, <2>4 DEF Unanimous, Recorded
  <2> HIDE DEF r, verdict
  <2>6. adjudication' = [adjudication EXCEPT ![i] = verdict]
    BY <2>1 DEF verdict
  <2>7. r = [accepted |-> passed, adjudicated |-> TRUE, disagreements |-> {}]
    BY DEF r
  <2>8. QED BY <2>1, <2>4, <2>5, <2>6, <2>7, ReturnKeeps
<1>7. ASSUME NEW i \in Items, ResolveAgreed(i)
      PROVE  IInv'
  <2> DEFINE accepted == \A j \in Records(i) : j.passed
             r == [accepted |-> accepted, adjudicated |-> FALSE, disagreements |-> {}]
  <2>1. Returns(i, accepted, FALSE, {}) /\ UNCHANGED adjudication /\ TwoReviewers(i)
    BY <1>7 DEF ResolveAgreed
  <2>2. accepted \in BOOLEAN
    OBVIOUS
  <2>3. accepted => \A j \in Records(i) : \A c \in j.checks : c.passed
    BY <1>1, RecordsType DEF Judgements
  <2>4. \E j, k \in Records(i) : j.reviewer # k.reviewer
    BY <2>1, TwoJudged
  <2> HIDE DEF accepted
  <2>5. Unanimous(r, Records(i)) /\ Recorded(r, Records(i), adjudication[i])
    BY <2>3, <2>4 DEF Unanimous, Recorded
  <2>6. r = [accepted |-> accepted, adjudicated |-> FALSE, disagreements |-> {}]
    OBVIOUS
  <2> HIDE DEF r
  <2>7. QED BY <1>3, <2>1, <2>2, <2>5, <2>6, ReturnKeeps
<1>8. CASE UNCHANGED vars
  BY <1>8 DEF vars, IInv, TypeOK, Unanimous, Recorded
<1>9. QED BY <1>2, <1>5, <1>6, <1>7, <1>8 DEF Next

(* Every result that is returned is one that the judgements on file at     *)
(* that time give.                                                         *)
THEOREM ResultsFit == Spec => []IInv
<1>1. Init => IInv
  BY DEF Init, IInv, TypeOK
<1>2. IInv /\ [Next]_vars => IInv'
  BY NextKeeps
<1>3. QED BY <1>1, <1>2, PTL DEF Spec

(* Every judgement file has one check for each constraint it judges.       *)
THEOREM TypeCorrect == Spec => []TypeOK
<1>1. IInv => TypeOK
  BY DEF IInv
<1>2. QED BY <1>1, ResultsFit, PTL

(* No item is accepted without an adjudicator unless two reviewers judged  *)
(* it and none of them found any constraint failed.                        *)
THEOREM AcceptanceUnanimous == Spec => []AcceptedUnanimously
<1>1. IInv => AcceptedUnanimously
  BY DEF IInv, Unanimous, AcceptedUnanimously
<1>2. QED BY <1>1, ResultsFit, PTL

(* An adjudicated result is about contradicting judgements, and the last   *)
(* one is what adjudication.json says.                                     *)
THEOREM AdjudicationsRecorded == Spec => []AdjudicationRecorded
<1>1. IInv => AdjudicationRecorded
  BY DEF IInv, Recorded, AdjudicationRecorded
<1>2. QED BY <1>1, ResultsFit, PTL
===============================================================================
