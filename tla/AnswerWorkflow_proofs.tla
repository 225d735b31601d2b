------------------------ MODULE AnswerWorkflow_proofs ------------------------
(***************************************************************************)
(* Theorems about AnswerWorkflow for every set of questions, packages,     *)
(* wordings, texts, risk items and evidence ids, every Outcome of the      *)
(* rules and every bound.                                                  *)
(***************************************************************************)
EXTENDS AnswerWorkflow, TLAPS

(* What a question's new candidate, its id and its assessment are. *)
LEMMA CandidateIdType ==
  ASSUME NEW c \in Candidates
  PROVE  CandidateId(c) \in CandidateIds /\ ReportId(c) \in ReportIds
<1>1. CandidateId(c) \in CandidateIds
  <2>1. CASE c.by = "rule"
    BY <2>1 DEF CandidateId, CandidateIds, Candidates
  <2>2. CASE c.by # "rule"
    BY <2>2 DEF CandidateId, CandidateIds, Candidates
  <2>3. QED BY <2>1, <2>2
<1>2. QED BY <1>1 DEF ReportId, ReportIds, Candidates

LEMMA AssessRiskType ==
  ASSUME NEW c \in Candidates
  PROVE  AssessRisk(c) \in Risks
BY OutcomeAssumption DEF AssessRisk, Risks, Candidates, Results

LEMMA NextRevisionType ==
  ASSUME TypeOK, NEW q \in Questions
  PROVE  NextRevision(q) \in Revisions
BY DEF NextRevision, TypeOK, Candidates, Revisions

LEMMA DraftType ==
  ASSUME TypeOK, package # None, NEW q \in Asked, Redrafted(q)
  PROVE  /\ q \in Questions
         /\ Draft(q) \in Candidates
         /\ DraftReports(q) \in SUBSET Reports
<1>1. package \in Packages /\ Asked = DOMAIN Asks[package]
  BY DEF TypeOK, Asked
<1>2. q \in Questions /\ Asks[package][q] \in Sources
  BY <1>1, PackagesAssumption
<1>3. Draft(q) \in Candidates
  BY <1>2, NextRevisionType, OutcomeAssumption DEF Draft, Candidates, Results
<1>4. [id |-> ReportId(Draft(q)), valid |-> Outcome[Asks[package][q]].report = "valid"] \in Reports
  BY <1>3, CandidateIdType DEF Reports
<1>5. DraftReports(q) \in SUBSET Reports
  BY <1>2, <1>4 DEF DraftReports, SaveReport, TypeOK
<1>6. QED BY <1>2, <1>3, <1>5

-------------------------------------------------------------------------------
(* One step of each handler keeps every file well-formed. *)
LEMMA TypeInit == Init => TypeOK
BY DEF Init, TypeOK, Candidates, Reports, Risks, Reviews, Finals, Rows

LEMMA ImportType ==
  ASSUME TypeOK, NEW p \in Packages, Import(p)
  PROVE  TypeOK'
BY DEF TypeOK, Import

LEMMA GenerateType ==
  ASSUME TypeOK, NEW S \in SUBSET Questions, Generate(S)
  PROVE  TypeOK'
<1> DEFINE R == {q \in S : Redrafted(q)}
<1>1. /\ package # None
      /\ S \subseteq Asked
      /\ current' = [q \in Questions |-> IF q \in R THEN Draft(q) ELSE current[q]]
      /\ candidates' = [q \in Questions |->
           IF q \in R THEN SaveCandidate(candidates[q], Draft(q)) ELSE candidates[q]]
      /\ reports' = [q \in Questions |-> IF q \in R THEN DraftReports(q) ELSE reports[q]]
      /\ risks' = [q \in Questions |-> IF q \in R THEN AssessRisk(Draft(q)) ELSE risks[q]]
      /\ UNCHANGED <<package, reviews, final, evidence, exported>>
  BY DEF Generate
<1>2. \A q \in R : /\ Draft(q) \in Candidates
                   /\ DraftReports(q) \in SUBSET Reports
                   /\ AssessRisk(Draft(q)) \in Risks
  BY <1>1, DraftType, AssessRiskType
<1>3. \A q \in R : SaveCandidate(candidates[q], Draft(q)) \in SUBSET Candidates
  BY <1>2 DEF SaveCandidate, TypeOK
<1> HIDE DEF R
<1>4. current' \in [Questions -> Candidates \cup {None}]
  BY <1>1, <1>2 DEF TypeOK
<1>5. candidates' \in [Questions -> SUBSET Candidates]
  BY <1>1, <1>3 DEF TypeOK
<1>6. reports' \in [Questions -> SUBSET Reports]
  BY <1>1, <1>2 DEF TypeOK
<1>7. risks' \in [Questions -> Risks \cup {None}]
  BY <1>1, <1>2 DEF TypeOK
<1>8. QED BY <1>1, <1>4, <1>5, <1>6, <1>7 DEF TypeOK

(* The candidate amend_answer makes. *)
Amended(q, t) == [by |-> "reviewer", source |-> current[q].source,
                  text |-> t, revision |-> NextRevision(q)]

LEMMA AmendedType ==
  ASSUME TypeOK, NEW q \in Questions, NEW t \in Texts, current[q] # None
  PROVE  Amended(q, t) \in Candidates
BY NextRevisionType DEF Amended, TypeOK, Candidates

LEMMA AmendType ==
  ASSUME TypeOK, NEW q \in Questions, NEW t \in Texts, Amend(q, t)
  PROVE  TypeOK'
<1> DEFINE c == Amended(q, t)
<1>1. /\ current[q] # None
      /\ current' = [current EXCEPT ![q] = c]
      /\ candidates' = [candidates EXCEPT ![q] = SaveCandidate(@, c)]
      /\ reports' = [reports EXCEPT ![q] =
           SaveReport(@, [id |-> ReportId(c), valid |-> AmendmentValid(c)])]
      /\ risks' = [risks EXCEPT ![q] = AssessRisk(c)]
      /\ final' = [final EXCEPT ![q] = None]
      /\ UNCHANGED <<package, reviews, evidence, exported>>
  BY DEF Amend, Amended
<1>2. c \in Candidates
  BY <1>1, AmendedType
<1>3. [id |-> ReportId(c), valid |-> AmendmentValid(c)] \in Reports
  BY <1>2, CandidateIdType DEF Reports, AmendmentValid
<1>4. AssessRisk(c) \in Risks
  BY <1>2, AssessRiskType
<1>5. SaveCandidate(candidates[q], c) \in SUBSET Candidates
  BY <1>2 DEF SaveCandidate, TypeOK
<1>6. SaveReport(reports[q], [id |-> ReportId(c), valid |-> AmendmentValid(c)]) \in SUBSET Reports
  BY <1>3 DEF SaveReport, TypeOK
<1> HIDE DEF c
<1>7. QED BY <1>1, <1>2, <1>4, <1>5, <1>6 DEF TypeOK

LEMMA ConfirmType ==
  ASSUME TypeOK, NEW q \in Questions, NEW checked \in SUBSET RiskItems,
         NEW reviewed \in SUBSET EvidenceIds, Confirm(q, checked, reviewed)
  PROVE  TypeOK' /\ final'[q] \in Finals
<1> DEFINE review == [revision |-> current[q].revision, report |-> ReportId(current[q]),
                      checked |-> checked, evidence |-> reviewed]
           answer == [revision |-> current[q].revision, text |-> current[q].text,
                      report |-> ReportId(current[q]), review |-> review]
<1>1. /\ current[q] \in Candidates
      /\ risks[q] \in Risks
      /\ risks' = [risks EXCEPT ![q].resolved = @ \cup (risks[q].items \cap checked)]
      /\ reviews' = [reviews EXCEPT ![q] = @ \cup {review}]
      /\ final' = [final EXCEPT ![q] = answer]
      /\ UNCHANGED <<package, current, candidates, reports, evidence, exported>>
  BY DEF Confirm, TypeOK
<1>2. review \in Reviews
  BY <1>1, CandidateIdType DEF Reviews, Candidates
<1>3. answer \in Finals
  BY <1>1, <1>2, CandidateIdType DEF Finals, Candidates
<1>4. risks' \in [Questions -> Risks \cup {None}]
  BY <1>1 DEF TypeOK, Risks
<1> HIDE DEF review, answer
<1>5. QED BY <1>1, <1>2, <1>3, <1>4 DEF TypeOK

LEMMA DeleteConfirmationType ==
  ASSUME TypeOK, NEW q \in Questions, DeleteConfirmation(q)
  PROVE  TypeOK'
BY DEF TypeOK, DeleteConfirmation

LEMMA AddEvidenceType ==
  ASSUME TypeOK, NEW q \in Questions, NEW e \in EvidenceIds, NEW v \in BOOLEAN,
         AddEvidence(q, e, v)
  PROVE  TypeOK'
BY DEF TypeOK, AddEvidence

LEMMA ExportType ==
  ASSUME TypeOK, NEW path \in OutputPaths, Export(path)
  PROVE  TypeOK'
<1>1. package \in Packages /\ Asked \subseteq Questions
  BY PackagesAssumption DEF Export, TypeOK, Asked
<1>2. \A q \in Asked : final[q] \in Finals
  BY <1>1 DEF Export, Exportable, TypeOK
<1>3. exported' \subseteq Rows
  BY <1>1, <1>2 DEF Export, TypeOK, Rows
<1>4. QED BY <1>3 DEF Export, TypeOK

(* The files stay well-formed under every sequence of handlers. *)
THEOREM TypeCorrect == Spec => []TypeOK
<1>1. Init => TypeOK
  BY TypeInit
<1>2. TypeOK /\ [Next]_vars => TypeOK'
  <2> SUFFICES ASSUME TypeOK, [Next]_vars PROVE TypeOK'
    OBVIOUS
  <2>1. CASE Next
    BY <2>1, ImportType, GenerateType, AmendType, ConfirmType, DeleteConfirmationType,
       AddEvidenceType, ExportType DEF Next
  <2>2. CASE UNCHANGED vars
    BY <2>2 DEF vars, TypeOK
  <2>3. QED BY <2>1, <2>2
<1>3. QED BY <1>1, <1>2, PTL DEF Spec

-------------------------------------------------------------------------------
(* The records of a question, and those an answer rests on, only grow. *)
Grows(q) == /\ candidates[q] \subseteq candidates'[q]
            /\ reports[q] \subseteq reports'[q]
            /\ reviews[q] \subseteq reviews'[q]

LEMMA TraceableStable ==
  ASSUME NEW q \in Questions, NEW a, Traceable(q, a), Grows(q)
  PROVE  Traceable(q, a)'
BY DEF Traceable, Grows

(* A handler that does not touch a question's files leaves them fitting. *)
LEMMA FitsUntouched ==
  ASSUME NEW q \in Questions, QuestionFits(q),
         current'[q] = current[q], candidates'[q] = candidates[q],
         reports'[q] = reports[q], risks'[q] = risks[q], reviews'[q] = reviews[q],
         evidence'[q] = evidence[q], final'[q] \in {final[q], None}
  PROVE  QuestionFits(q)' /\ Grows(q)
<1> USE DEF QuestionFits
<1>1. Grows(q)
  BY DEF Grows
<1>2. CandidatesFit(q)'
  BY DEF CandidatesFit
<1>3. ReportsFit(q)' /\ ReviewsFit(q)'
  BY DEF ReportsFit, ReviewsFit
<1>4. RisksFit(q)' /\ EvidenceFits(q)'
  BY DEF RisksFit, EvidenceFits
<1>5. FinalFits(q)'
  BY DEF FinalFits, Traceable
<1>6. QED BY <1>1, <1>2, <1>3, <1>4, <1>5

(* The next revision of a question lands on no file that exists. *)
LEMMA NextRevisionIsNew ==
  ASSUME TypeOK, NEW q \in Questions, CandidatesFit(q), ReportsFit(q)
  PROVE  /\ \A d \in candidates[q] : d.revision < NextRevision(q)
         /\ \A r \in reports[q] : r.id.revision < NextRevision(q)
<1>1. \A d \in candidates[q] : d.revision < NextRevision(q)
  <2> SUFFICES ASSUME NEW d \in candidates[q] PROVE d.revision < NextRevision(q)
    OBVIOUS
  <2>1. current[q] # None /\ current[q] \in Candidates /\ d \in Candidates
    BY DEF CandidatesFit, TypeOK
  <2>2. d.revision \in Nat /\ current[q].revision \in Nat /\ d.revision <= current[q].revision
    BY <2>1 DEF CandidatesFit, Candidates, Revisions
  <2>3. QED BY <2>1, <2>2 DEF NextRevision
<1>2. ASSUME NEW r \in reports[q] PROVE r.id.revision < NextRevision(q)
  <2>1. PICK d \in candidates[q] : r.id = ReportId(d)
    BY DEF ReportsFit
  <2>2. QED BY <1>1, <2>1 DEF ReportId
<1>3. QED BY <1>1, <1>2

(* generate and amend: a new revision, its report if it has one, and its   *)
(* assessment; the final answer stays or goes.                             *)
LEMMA NewRevisionFits ==
  ASSUME TypeOK, NEW q \in Questions, NEW c \in Candidates, NEW v \in BOOLEAN,
         QuestionFits(q),
         c.revision = NextRevision(q),
         v => c.text = Outcome[c.source].text,
         current'[q] = c,
         candidates'[q] = SaveCandidate(candidates[q], c),
         reports'[q] = reports[q]
           \/ reports'[q] = SaveReport(reports[q], [id |-> ReportId(c), valid |-> v]),
         risks'[q] = AssessRisk(c),
         reviews'[q] = reviews[q],
         evidence'[q] = evidence[q],
         final'[q] = final[q] \/ final'[q] = None
  PROVE  QuestionFits(q)' /\ Grows(q)
<1> USE DEF QuestionFits
<1>1. /\ \A d \in candidates[q] : d \in Candidates /\ d.revision < c.revision
      /\ \A r \in reports[q] : r.id.revision < c.revision
      /\ c.revision \in Nat
  BY NextRevisionIsNew, NextRevisionType DEF TypeOK, Revisions
<1>2. candidates'[q] = candidates[q] \cup {c}
  <2>1. \A d \in candidates[q] : d.revision # c.revision
    <3> SUFFICES ASSUME NEW d \in candidates[q] PROVE d.revision # c.revision
      OBVIOUS
    <3>1. d.revision \in Nat
      BY <1>1 DEF Candidates, Revisions
    <3>2. QED BY <1>1, <3>1
  <2>2. QED BY <2>1 DEF SaveCandidate
<1>3. /\ reports[q] \subseteq reports'[q]
      /\ \A r \in reports'[q] : r \in reports[q] \/ r = [id |-> ReportId(c), valid |-> v]
  <2>1. ASSUME NEW r \in reports[q] PROVE r.id # ReportId(c)
    <3>1. r.id.revision < c.revision /\ r.id.revision \in Nat /\ ReportId(c).revision = c.revision
      BY <1>1 DEF ReportId, TypeOK, Reports, ReportIds, Revisions
    <3>2. QED BY <3>1, <1>1
  <2>2. QED BY <2>1 DEF SaveReport
<1>4. Grows(q)
  BY <1>2, <1>3 DEF Grows
<1>5. CandidatesFit(q)'
  <2>1. c # None
    BY NoneAssumption
  <2>2. ASSUME NEW d \in candidates'[q] PROVE d.revision <= c.revision
    <3>1. CASE d = c
      BY <3>1, <1>1
    <3>2. CASE d \in candidates[q]
      BY <3>2, <1>1 DEF Candidates, Revisions
    <3>3. QED BY <1>2, <3>1, <3>2
  <2>3. ASSUME NEW d \in candidates'[q], NEW e \in candidates'[q], d.revision = e.revision
        PROVE  d = e
    <3>1. CASE d \in candidates[q] /\ e \in candidates[q]
      <4>1. current[q] # None
        BY <3>1 DEF CandidatesFit
      <4>2. QED BY <4>1, <3>1, <2>3 DEF CandidatesFit
    <3>2. CASE d = c \/ e = c
      BY <3>2, <2>3, <1>1, <1>2 DEF Candidates, Revisions
    <3>3. QED BY <1>2, <3>1, <3>2
  <2>4. QED BY <1>2, <2>1, <2>2, <2>3 DEF CandidatesFit
<1>6. ReportsFit(q)'
  <2> SUFFICES ASSUME NEW r \in reports'[q]
               PROVE  \E d \in candidates'[q] : /\ r.id = ReportId(d)
                                                /\ r.valid => d.text = Outcome[d.source].text
    BY DEF ReportsFit
  <2>1. CASE r \in reports[q]
    BY <2>1, <1>2 DEF ReportsFit
  <2>2. CASE r = [id |-> ReportId(c), valid |-> v]
    BY <2>2, <1>2
  <2>3. QED BY <1>3, <2>1, <2>2
<1>7. RisksFit(q)'
  BY AssessRiskType, NoneAssumption DEF RisksFit, AssessRisk
<1>8. ReviewsFit(q)'
  BY <1>2 DEF ReviewsFit
<1>9. EvidenceFits(q)'
  BY DEF EvidenceFits
<1>10. FinalFits(q)'
  BY <1>4, TraceableStable DEF FinalFits, Traceable, Grows
<1>11. QED BY <1>4, <1>5, <1>6, <1>7, <1>8, <1>9, <1>10

-------------------------------------------------------------------------------
(* Every handler keeps every question's records fitting and loses none.    *)
AllFit == RecordsFit' /\ \A q \in Questions : Grows(q)

LEMMA FrameFits ==
  ASSUME RecordsFit,
         UNCHANGED <<current, candidates, reports, risks, reviews, evidence>>,
         \A q \in Questions : final'[q] \in {final[q], None}
  PROVE  AllFit
<1>1. ASSUME NEW q \in Questions PROVE QuestionFits(q)' /\ Grows(q)
  BY FitsUntouched DEF RecordsFit
<1>2. QED BY <1>1 DEF AllFit, RecordsFit

LEMMA GenerateFits ==
  ASSUME TypeOK, RecordsFit, NEW S \in SUBSET Questions, Generate(S)
  PROVE  AllFit
<1> DEFINE R == {q \in S : Redrafted(q)}
<1>1. /\ package # None
      /\ S \subseteq Asked
      /\ current' = [q \in Questions |-> IF q \in R THEN Draft(q) ELSE current[q]]
      /\ candidates' = [q \in Questions |->
           IF q \in R THEN SaveCandidate(candidates[q], Draft(q)) ELSE candidates[q]]
      /\ reports' = [q \in Questions |-> IF q \in R THEN DraftReports(q) ELSE reports[q]]
      /\ risks' = [q \in Questions |-> IF q \in R THEN AssessRisk(Draft(q)) ELSE risks[q]]
      /\ UNCHANGED <<package, reviews, final, evidence, exported>>
  BY DEF Generate
<1>2. \A q \in R : Redrafted(q) /\ q \in Asked /\ q \in Questions
  BY <1>1
<1> HIDE DEF R
<1>3. ASSUME NEW q \in Questions PROVE QuestionFits(q)' /\ Grows(q)
  <2>0. QuestionFits(q)
    BY DEF RecordsFit
  <2>1. CASE q \in R
    <3> DEFINE s == Asks[package][q]
               v == Outcome[s].report = "valid"
    <3>1. Draft(q) \in Candidates /\ s \in Sources
      BY <1>1, <1>2, <2>1, DraftType DEF Draft, Candidates
    <3>2. v => Draft(q).text = Outcome[Draft(q).source].text
      BY DEF Draft
    <3>3. \/ reports'[q] = reports[q]
          \/ reports'[q] = SaveReport(reports[q], [id |-> ReportId(Draft(q)), valid |-> v])
      BY <1>1, <2>1 DEF DraftReports
    <3>4. Draft(q).revision = NextRevision(q)
      BY DEF Draft
    <3>5. /\ current'[q] = Draft(q)
          /\ candidates'[q] = SaveCandidate(candidates[q], Draft(q))
          /\ risks'[q] = AssessRisk(Draft(q))
          /\ reviews'[q] = reviews[q]
          /\ evidence'[q] = evidence[q]
          /\ final'[q] = final[q]
      BY <1>1, <2>1
    <3>6. v \in BOOLEAN
      OBVIOUS
    <3> HIDE DEF v, s
    <3>7. QED BY <2>0, <3>1, <3>2, <3>3, <3>4, <3>5, <3>6, NewRevisionFits
  <2>2. CASE q \notin R
    BY <1>1, <2>0, <2>2, FitsUntouched
  <2>3. QED BY <2>1, <2>2
<1>4. QED BY <1>3 DEF AllFit, RecordsFit

LEMMA AmendFits ==
  ASSUME TypeOK, RecordsFit, NEW q \in Questions, NEW t \in Texts, Amend(q, t)
  PROVE  AllFit
<1> DEFINE c == Amended(q, t)
           v == AmendmentValid(c)
<1>1. /\ current[q] # None
      /\ current' = [current EXCEPT ![q] = c]
      /\ candidates' = [candidates EXCEPT ![q] = SaveCandidate(@, c)]
      /\ reports' = [reports EXCEPT ![q] = SaveReport(@, [id |-> ReportId(c), valid |-> v])]
      /\ risks' = [risks EXCEPT ![q] = AssessRisk(c)]
      /\ final' = [final EXCEPT ![q] = None]
      /\ UNCHANGED <<package, reviews, evidence, exported>>
  BY DEF Amend, Amended
<1>2. c \in Candidates /\ c.revision = NextRevision(q)
  BY <1>1, AmendedType DEF Amended
<1>3. v \in BOOLEAN /\ (v => c.text = Outcome[c.source].text)
  BY DEF AmendmentValid
<1> HIDE DEF c, v
<1>4. ASSUME NEW p \in Questions PROVE QuestionFits(p)' /\ Grows(p)
  <2>0. QuestionFits(p)
    BY DEF RecordsFit
  <2>1. CASE p = q
    <3>1. /\ current'[q] = c
          /\ candidates'[q] = SaveCandidate(candidates[q], c)
          /\ reports'[q] = SaveReport(reports[q], [id |-> ReportId(c), valid |-> v])
          /\ risks'[q] = AssessRisk(c)
          /\ reviews'[q] = reviews[q]
          /\ evidence'[q] = evidence[q]
          /\ final'[q] = None
      BY <1>1 DEF TypeOK
    <3>2. QED BY <2>0, <2>1, <3>1, <1>2, <1>3, NewRevisionFits
  <2>2. CASE p # q
    <3>1. /\ current'[p] = current[p]
          /\ candidates'[p] = candidates[p]
          /\ reports'[p] = reports[p]
          /\ risks'[p] = risks[p]
          /\ reviews'[p] = reviews[p]
          /\ evidence'[p] = evidence[p]
          /\ final'[p] = final[p]
      BY <1>1, <2>2 DEF TypeOK
    <3>2. QED BY <2>0, <3>1, FitsUntouched
  <2>3. QED BY <2>1, <2>2
<1>5. QED BY <1>4 DEF AllFit, RecordsFit

LEMMA ConfirmFits ==
  ASSUME TypeOK, RecordsFit, NEW q \in Questions, NEW checked \in SUBSET RiskItems,
         NEW reviewed \in SUBSET EvidenceIds, Confirm(q, checked, reviewed)
  PROVE  AllFit
<1> DEFINE review == [revision |-> current[q].revision, report |-> ReportId(current[q]),
                      checked |-> checked, evidence |-> reviewed]
           answer == [revision |-> current[q].revision, text |-> current[q].text,
                      report |-> ReportId(current[q]), review |-> review]
<1>1. /\ current[q] # None
      /\ risks[q] # None
      /\ Validated(q)
      /\ risks[q].items \subseteq checked
      /\ risks[q].evidence => EvidenceSuffices(q, reviewed)
      /\ risks' = [risks EXCEPT ![q].resolved = @ \cup (risks[q].items \cap checked)]
      /\ reviews' = [reviews EXCEPT ![q] = @ \cup {review}]
      /\ final' = [final EXCEPT ![q] = answer]
      /\ UNCHANGED <<package, current, candidates, reports, evidence, exported>>
  BY DEF Confirm
<1>2. ASSUME NEW p \in Questions PROVE QuestionFits(p)' /\ Grows(p)
  <2>0. QuestionFits(p) /\ current'[p] = current[p] /\ candidates'[p] = candidates[p]
        /\ reports'[p] = reports[p] /\ evidence'[p] = evidence[p]
    BY <1>1 DEF RecordsFit
  <2>1. CASE p # q
    <3>1. risks'[p] = risks[p] /\ reviews'[p] = reviews[p] /\ final'[p] = final[p]
      BY <1>1, <2>1 DEF TypeOK
    <3>2. QED BY <2>0, <3>1, FitsUntouched
  <2>2. CASE p = q
    <3>1. /\ reviews'[q] = reviews[q] \cup {review}
          /\ final'[q] = answer
          /\ risks'[q].items = risks[q].items
          /\ risks'[q].evidence = risks[q].evidence
          /\ risks'[q] \in Risks
      BY <1>1 DEF TypeOK, Risks
    <3>2. Grows(q)
      BY <2>0, <2>2, <3>1 DEF Grows
    <3>3. /\ current[q] \in candidates[q]
          /\ risks[q].items = Outcome[current[q].source].required
          /\ risks[q].evidence = Outcome[current[q].source].evidence
      BY <1>1, <2>0, <2>2 DEF QuestionFits, CandidatesFit, RisksFit
    <3>4. CandidatesFit(q)' /\ ReportsFit(q)' /\ EvidenceFits(q)'
      BY <2>0, <2>2 DEF QuestionFits, CandidatesFit, ReportsFit, EvidenceFits
    <3>5. RisksFit(q)'
      BY <2>0, <2>2, <3>1, <3>3, NoneAssumption DEF RisksFit
    <3>6. ReviewsFit(q)'
      <4>1. Outcome[current[q].source].evidence =>
              review.evidence # {} /\ review.evidence \subseteq Documented
        BY <1>1, <3>3, <2>0, <2>2 DEF EvidenceSuffices, QuestionFits, EvidenceFits
      <4>2. \A w \in reviews[q] : w \in reviews'[q]
        BY <3>1
      <4>3. SUFFICES ASSUME NEW w \in reviews'[q]
                     PROVE  \E c \in candidates[q] :
                              /\ w.report = ReportId(c)
                              /\ w.revision = c.revision
                              /\ Outcome[c.source].required \subseteq w.checked
                              /\ Outcome[c.source].evidence =>
                                   w.evidence # {} /\ w.evidence \subseteq Documented
        BY <2>0, <2>2 DEF ReviewsFit
      <4>4. CASE w \in reviews[q]
        BY <4>4, <2>0, <2>2 DEF QuestionFits, ReviewsFit
      <4>5. CASE w = review
        BY <4>5, <4>1, <3>3, <1>1
      <4>6. QED BY <3>1, <4>4, <4>5
    <3>7. FinalFits(q)'
      <4>1. /\ answer.review \in reviews'[q]
            /\ answer.review.revision = answer.revision
            /\ answer.review.report = answer.report
        BY <3>1
      <4>2. [id |-> answer.report, valid |-> TRUE] \in reports'[q]
        BY <1>1 DEF Validated
      <4>3. /\ current[q] \in candidates'[q]
            /\ current[q].text = answer.text
            /\ current[q].revision = answer.revision
            /\ ReportId(current[q]) = answer.report
        BY <1>1, <3>3
      <4>4. QED BY <3>1, <4>1, <4>2, <4>3 DEF FinalFits, Traceable
    <3>8. QED BY <2>2, <3>2, <3>4, <3>5, <3>6, <3>7 DEF QuestionFits
  <2>3. QED BY <2>1, <2>2
<1>3. QED BY <1>2 DEF AllFit, RecordsFit

LEMMA AddEvidenceFits ==
  ASSUME TypeOK, RecordsFit, NEW q \in Questions, NEW e \in EvidenceIds, NEW b \in BOOLEAN,
         AddEvidence(q, e, b)
  PROVE  AllFit
<1>1. /\ UNCHANGED <<current, candidates, reports, risks, reviews, final>>
      /\ evidence' = [evidence EXCEPT ![q][e] =
           IF b /\ e \in Documented THEN "sufficient" ELSE "insufficient"]
  BY DEF AddEvidence
<1>2. ASSUME NEW p \in Questions PROVE QuestionFits(p)' /\ Grows(p)
  <2>1. /\ QuestionFits(p)
        /\ current'[p] = current[p] /\ candidates'[p] = candidates[p]
        /\ reports'[p] = reports[p] /\ risks'[p] = risks[p]
        /\ reviews'[p] = reviews[p] /\ final'[p] = final[p]
    BY <1>1 DEF RecordsFit
  <2>2. EvidenceFits(p)'
    <3>1. ASSUME NEW d \in EvidenceIds, evidence'[p][d] = "sufficient"
          PROVE  d \in Documented
      <4>1. CASE p = q /\ d = e
        BY <4>1, <3>1, <1>1 DEF TypeOK
      <4>2. CASE ~ (p = q /\ d = e)
        BY <4>2, <3>1, <1>1, <2>1 DEF TypeOK, QuestionFits, EvidenceFits
      <4>3. QED BY <4>1, <4>2
    <3>2. QED BY <3>1 DEF EvidenceFits
  <2>3. Grows(p)
    BY <2>1 DEF Grows
  <2>4. CandidatesFit(p)' /\ RisksFit(p)'
    BY <2>1 DEF QuestionFits, CandidatesFit, RisksFit
  <2>5. ReportsFit(p)' /\ ReviewsFit(p)'
    BY <2>1 DEF QuestionFits, ReportsFit, ReviewsFit
  <2>6. FinalFits(p)'
    BY <2>1 DEF QuestionFits, FinalFits, Traceable
  <2>7. QED BY <2>2, <2>3, <2>4, <2>5, <2>6 DEF QuestionFits
<1>3. QED BY <1>2 DEF AllFit, RecordsFit

LEMMA NextFits ==
  ASSUME TypeOK, RecordsFit, [Next]_vars
  PROVE  AllFit
<1>1. CASE \E p \in Packages : Import(p)
  BY <1>1, FrameFits DEF Import
<1>2. CASE \E q \in Questions : DeleteConfirmation(q)
  <2>1. PICK q \in Questions : DeleteConfirmation(q)
    BY <1>2
  <2>2. \A p \in Questions : final'[p] \in {final[p], None}
    BY <2>1 DEF DeleteConfirmation, TypeOK
  <2>3. QED BY <2>1, <2>2, FrameFits DEF DeleteConfirmation
<1>3. CASE \E path \in OutputPaths : Export(path)
  BY <1>3, FrameFits DEF Export
<1>4. CASE UNCHANGED vars
  BY <1>4, FrameFits DEF vars
<1>5. QED BY <1>1, <1>2, <1>3, <1>4, GenerateFits, AmendFits, ConfirmFits, AddEvidenceFits
         DEF Next

-------------------------------------------------------------------------------
(* The records always fit together: the inductive invariant of the module. *)
THEOREM RecordsAlwaysFit == Spec => []RecordsFit
<1>1. Init => RecordsFit
  BY DEF Init, RecordsFit, QuestionFits, CandidatesFit, ReportsFit, RisksFit, ReviewsFit,
         EvidenceFits, FinalFits
<1>2. TypeOK /\ RecordsFit /\ [Next]_vars => RecordsFit'
  BY NextFits DEF AllFit
<1>3. QED BY <1>1, <1>2, TypeCorrect, PTL DEF Spec

(* No handler ever overwrites or removes a candidate record. *)
LEMMA NextGrows ==
  ASSUME TypeOK, RecordsFit, [Next]_vars
  PROVE  \A q \in Questions : Grows(q)
BY NextFits DEF AllFit

THEOREM CandidatesNeverChange == Spec => CandidatesImmutable
<1>1. TypeOK /\ RecordsFit /\ [Next]_vars =>
        [\A q \in Questions : candidates[q] \subseteq candidates'[q]]_vars
  BY NextGrows DEF Grows
<1>2. QED BY <1>1, TypeCorrect, RecordsAlwaysFit, PTL DEF Spec, CandidatesImmutable

(* The gate admits only traceable answers, and what they rest on stays. *)
LEMMA ExportTraceable ==
  ASSUME TypeOK, RecordsFit, NEW path \in OutputPaths, Export(path),
         NEW r \in exported' \ exported
  PROVE  r.question \in Questions /\ Traceable(r.question, r.answer)
<1>1. Asked \subseteq Questions
  BY PackagesAssumption DEF Export, TypeOK, Asked
<1>2. PICK q \in Asked : r.question = q /\ r.answer = final[q] /\ final[q] # None
  BY DEF Export, Exportable
<1>3. QED BY <1>1, <1>2 DEF RecordsFit, QuestionFits, FinalFits

LEMMA ExportedGrows ==
  ASSUME TypeOK, RecordsFit, [Next]_vars, NEW r \in exported' \ exported
  PROVE  r.question \in Questions /\ Traceable(r.question, r.answer)
<1>1. CASE \E path \in OutputPaths : Export(path)
  BY <1>1, ExportTraceable
<1>2. CASE ~ \E path \in OutputPaths : Export(path)
  <2>1. exported' = exported
    BY <1>2 DEF Next, vars, Import, Generate, Amend, Confirm, DeleteConfirmation, AddEvidence
  <2>2. QED BY <2>1
<1>3. QED BY <1>1, <1>2

(* Every exported row is traceable to records that are still there. *)
THEOREM ExportsTraceable == Spec => []ExportedRowsTraceable
<1>1. Init => ExportedRowsTraceable
  BY DEF Init, ExportedRowsTraceable
<1>2. TypeOK /\ RecordsFit /\ ExportedRowsTraceable /\ [Next]_vars => ExportedRowsTraceable'
  <2> SUFFICES ASSUME TypeOK, RecordsFit, ExportedRowsTraceable, [Next]_vars,
                      NEW r \in exported'
               PROVE  Traceable(r.question, r.answer)'
    BY DEF ExportedRowsTraceable, Traceable
  <2>1. r.question \in Questions /\ Traceable(r.question, r.answer)
    BY ExportedGrows DEF ExportedRowsTraceable, TypeOK, Rows
  <2>2. Grows(r.question)
    BY <2>1, NextGrows
  <2>3. QED BY <2>1, <2>2, TraceableStable
<1>3. QED BY <1>1, <1>2, TypeCorrect, RecordsAlwaysFit, PTL DEF Spec

(* A traceable row's candidate is the one of its revision. *)
LEMMA RowCandidateIs ==
  ASSUME RecordsFit, ExportedRowsTraceable, TypeOK, NEW r \in exported
  PROVE  /\ RowCandidate(r) \in candidates[r.question]
         /\ RowCandidate(r).text = r.answer.text
         /\ RowCandidate(r).revision = r.answer.revision
         /\ ReportId(RowCandidate(r)) = r.answer.report
         /\ \A d \in candidates[r.question] :
              d.revision = r.answer.revision => d = RowCandidate(r)
<1>1. PICK c \in candidates[r.question] : /\ c.text = r.answer.text
                                          /\ c.revision = r.answer.revision
                                          /\ ReportId(c) = r.answer.report
  BY DEF ExportedRowsTraceable, Traceable
<1>2. r.question \in Questions /\ current[r.question] # None
  BY <1>1 DEF TypeOK, Rows, RecordsFit, QuestionFits, CandidatesFit
<1>3. \A d \in candidates[r.question] : d.revision = r.answer.revision => d = c
  BY <1>1, <1>2 DEF RecordsFit, QuestionFits, CandidatesFit
<1>4. RowCandidate(r) = c
  BY <1>1, <1>3 DEF RowCandidate
<1>5. QED BY <1>1, <1>3, <1>4

(* Whoever confirmed an exported answer had checked that candidate's risks. *)
THEOREM ExportsRiskChecked == Spec => []ExportedRisksChecked
<1>1. TypeOK /\ RecordsFit /\ ExportedRowsTraceable => ExportedRisksChecked
  <2> SUFFICES ASSUME TypeOK, RecordsFit, ExportedRowsTraceable, NEW r \in exported
               PROVE  /\ Outcome[RowCandidate(r).source].required
                           \subseteq r.answer.review.checked
                      /\ Outcome[RowCandidate(r).source].evidence =>
                           /\ r.answer.review.evidence # {}
                           /\ r.answer.review.evidence \subseteq Documented
    BY DEF ExportedRisksChecked
  <2>1. r.question \in Questions
        /\ r.answer.review \in reviews[r.question]
        /\ r.answer.review.revision = r.answer.revision
    BY DEF TypeOK, Rows, ExportedRowsTraceable, Traceable
  <2>2. PICK d \in candidates[r.question] :
          /\ r.answer.review.revision = d.revision
          /\ Outcome[d.source].required \subseteq r.answer.review.checked
          /\ Outcome[d.source].evidence =>
               /\ r.answer.review.evidence # {}
               /\ r.answer.review.evidence \subseteq Documented
    BY <2>1 DEF RecordsFit, QuestionFits, ReviewsFit
  <2>3. d = RowCandidate(r)
    BY <2>1, <2>2, RowCandidateIs
  <2>4. QED BY <2>2, <2>3
<1>2. QED BY <1>1, TypeCorrect, RecordsAlwaysFit, ExportsTraceable, PTL

(* Exported text is rendered text: it passed the validator as it stands. *)
THEOREM ExportsRendered == Spec => []ExportedTextsRendered
<1>1. TypeOK /\ RecordsFit /\ ExportedRowsTraceable => ExportedTextsRendered
  <2> SUFFICES ASSUME TypeOK, RecordsFit, ExportedRowsTraceable, NEW r \in exported
               PROVE  r.answer.text = Outcome[RowCandidate(r).source].text
    BY DEF ExportedTextsRendered
  <2>1. r.question \in Questions
        /\ [id |-> r.answer.report, valid |-> TRUE] \in reports[r.question]
    BY DEF TypeOK, Rows, ExportedRowsTraceable, Traceable
  <2>2. PICK d \in candidates[r.question] :
          r.answer.report = ReportId(d) /\ d.text = Outcome[d.source].text
    BY <2>1 DEF RecordsFit, QuestionFits, ReportsFit
  <2>3. d.revision = r.answer.revision
    <3>1. ReportId(d) = ReportId(RowCandidate(r))
      BY <2>2, RowCandidateIs
    <3>2. ReportId(d).revision = d.revision
          /\ ReportId(RowCandidate(r)).revision = RowCandidate(r).revision
      BY DEF ReportId
    <3>3. QED BY <3>1, <3>2, RowCandidateIs
  <2>4. d = RowCandidate(r)
    BY <2>2, <2>3, RowCandidateIs
  <2>5. QED BY <2>2, <2>4, RowCandidateIs
<1>2. QED BY <1>1, TypeCorrect, RecordsAlwaysFit, ExportsTraceable, PTL

-------------------------------------------------------------------------------
(* A final answer is never of a later revision than the current candidate. *)
LEMMA FinalNotAhead ==
  ASSUME TypeOK, RecordsFit, NEW q \in Questions, final[q] # None
  PROVE  /\ current[q] # None
         /\ final[q].revision \in Nat
         /\ current[q].revision \in Nat
         /\ final[q].revision <= current[q].revision
<1>1. PICK c \in candidates[q] : c.revision = final[q].revision
  BY DEF RecordsFit, QuestionFits, FinalFits, Traceable
<1>2. current[q] # None /\ c.revision <= current[q].revision
  BY <1>1 DEF RecordsFit, QuestionFits, CandidatesFit
<1>3. current[q] \in Candidates /\ c \in Candidates
  BY <1>1, <1>2 DEF TypeOK
<1>4. QED BY <1>1, <1>2, <1>3 DEF Candidates, Revisions

LEMMA RevisionsDoNotFall ==
  ASSUME TypeOK, TypeOK', RecordsFit, [Next]_vars, NEW q \in Questions, current[q] # None
  PROVE  /\ current'[q] # None
         /\ current'[q].revision \in Nat
         /\ current[q].revision <= current'[q].revision
<1>1. current[q] \in candidates'[q]
  BY NextGrows DEF RecordsFit, QuestionFits, CandidatesFit, Grows
<1>2. CandidatesFit(q)'
  BY NextFits DEF AllFit, RecordsFit, QuestionFits
<1>3. current'[q] # None /\ current[q].revision <= current'[q].revision
  BY <1>1, <1>2 DEF CandidatesFit
<1>4. QED BY <1>3 DEF TypeOK, Candidates, Revisions

(* A stale confirmation is never revived by the workflow itself. *)
THEOREM StaleFinalsStayStale == Spec => StaleStaysStale
<1>1. TypeOK /\ TypeOK' /\ RecordsFit /\ [Next]_vars =>
        [\A q \in Questions :
           (StaleFinal(q) /\ final'[q] = final[q]) => StaleFinal(q)']_vars
  <2> SUFFICES ASSUME TypeOK, TypeOK', RecordsFit, [Next]_vars,
                      NEW q \in Questions, StaleFinal(q), final'[q] = final[q]
               PROVE  StaleFinal(q)'
    OBVIOUS
  <2>1. /\ final[q] # None
        /\ current[q] # None
        /\ final[q].revision \in Nat
        /\ current[q].revision \in Nat
        /\ final[q].revision < current[q].revision
    BY FinalNotAhead DEF StaleFinal
  <2>2. current'[q].revision \in Nat /\ current[q].revision <= current'[q].revision
    BY <2>1, RevisionsDoNotFall
  <2>3. final[q].revision # current'[q].revision
    BY <2>1, <2>2
  <2>4. QED BY <2>1, <2>3 DEF StaleFinal
<1>2. QED BY <1>1, TypeCorrect, RecordsAlwaysFit, PTL DEF Spec, StaleStaysStale

-------------------------------------------------------------------------------
(* The refinement of ReviewedExport, handler by handler.                   *)
DraftText == [q \in Questions |-> IF current[q] = None THEN None ELSE current[q].text]
Published == {[path |-> r.path, package |-> r.package, question |-> r.question,
               text |-> r.answer.text] : r \in exported}

LEMMA ImportRefines ==
  ASSUME NEW p \in Packages, Import(p)
  PROVE  Abstract!Receive
BY DEF Import, Abstract!Receive, Approved, StaleFinalAnswer

(* A question with a new candidate of a higher revision is not approved. *)
LEMMA RedraftRefines ==
  ASSUME TypeOK, TypeOK', RecordsFit, NEW R \in SUBSET Questions,
         UNCHANGED <<package, exported>>,
         \A q \in R : /\ current'[q] # None
                      /\ current'[q].revision = NextRevision(q)
                      /\ final'[q] \in {final[q], None},
         \A q \in Questions \ R : current'[q] = current[q] /\ final'[q] = final[q]
  PROVE  Abstract!Redraft(R)
<1> DEFINE text == [q \in R |-> current'[q].text]
<1>1. text \in [R -> Texts]
  BY DEF TypeOK, Candidates
<1>2. DraftText' = [q \in Questions |-> IF q \in R THEN text[q] ELSE DraftText[q]]
  BY DEF DraftText
<1>3. ASSUME NEW q \in R PROVE q \notin Approved'
  <2>1. CASE final'[q] = None
    BY <2>1 DEF Approved
  <2>2. CASE final'[q] # None
    <3>1. final[q] # None /\ final'[q] = final[q]
      BY <2>2
    <3>2. /\ current[q] # None
          /\ final[q].revision \in Nat
          /\ current[q].revision \in Nat
          /\ final[q].revision <= current[q].revision
      BY <3>1, FinalNotAhead
    <3>3. final'[q].revision # current'[q].revision
      BY <3>1, <3>2 DEF NextRevision
    <3>4. QED BY <3>3 DEF Approved, StaleFinalAnswer
  <2>3. QED BY <2>1, <2>2
<1>4. ASSUME NEW q \in Questions \ R PROVE q \in Approved' <=> q \in Approved
  BY DEF Approved, StaleFinalAnswer
<1>5. Approved' = Approved \ R
  BY <1>3, <1>4 DEF Approved
<1> HIDE DEF text
<1>6. \E f \in [R -> Texts] :
        DraftText' = [q \in Questions |-> IF q \in R THEN f[q] ELSE DraftText[q]]
  BY <1>1, <1>2
<1>7. QED BY <1>5, <1>6 DEF Abstract!Redraft, DraftText

LEMMA GenerateRefines ==
  ASSUME TypeOK, TypeOK', RecordsFit, NEW S \in SUBSET Questions, Generate(S)
  PROVE  \E R \in SUBSET Questions : Abstract!Redraft(R)
<1>1. PICK D \in SUBSET Questions :
        /\ D = {q \in S : Redrafted(q)}
        /\ package # None
        /\ S \subseteq Asked
        /\ current' = [q \in Questions |-> IF q \in D THEN Draft(q) ELSE current[q]]
        /\ UNCHANGED <<package, final, exported>>
  BY DEF Generate
<1>2. \A q \in D : Draft(q) # None /\ Draft(q).revision = NextRevision(q)
  BY <1>1, DraftType, NoneAssumption DEF Draft
<1>3. \A q \in D : /\ current'[q] # None
                   /\ current'[q].revision = NextRevision(q)
                   /\ final'[q] \in {final[q], None}
  BY <1>1, <1>2
<1>4. \A q \in Questions \ D : current'[q] = current[q] /\ final'[q] = final[q]
  BY <1>1
<1>5. Abstract!Redraft(D)
  BY <1>1, <1>3, <1>4, RedraftRefines
<1>6. QED BY <1>5

LEMMA AmendRefines ==
  ASSUME TypeOK, TypeOK', RecordsFit, NEW q \in Questions, NEW t \in Texts, Amend(q, t)
  PROVE  Abstract!Redraft({q})
<1>1. /\ current[q] # None
      /\ current' = [current EXCEPT ![q] = Amended(q, t)]
      /\ final' = [final EXCEPT ![q] = None]
      /\ UNCHANGED <<package, exported>>
  BY DEF Amend, Amended
<1>2. Amended(q, t) # None /\ Amended(q, t).revision = NextRevision(q)
  BY <1>1, AmendedType, NoneAssumption DEF Amended
<1>3. current'[q] = Amended(q, t) /\ final'[q] = None
  BY <1>1 DEF TypeOK
<1>4. \A p \in Questions \ {q} : current'[p] = current[p] /\ final'[p] = final[p]
  BY <1>1 DEF TypeOK
<1>5. QED BY <1>1, <1>2, <1>3, <1>4, RedraftRefines

LEMMA ConfirmRefines ==
  ASSUME TypeOK, TypeOK', NEW q \in Questions, NEW checked \in SUBSET RiskItems,
         NEW reviewed \in SUBSET EvidenceIds, Confirm(q, checked, reviewed)
  PROVE  Abstract!Approve(q)
<1>1. /\ current[q] \in Candidates
      /\ UNCHANGED <<package, current, exported>>
  BY DEF Confirm, TypeOK
<1>2. final'[q] # None
  BY NoneAssumption, ConfirmType
<1>3. final'[q].revision = current[q].revision /\ final'[q].text = current[q].text
  BY DEF Confirm, TypeOK
<1>4. \A p \in Questions \ {q} : final'[p] = final[p]
  BY DEF Confirm, TypeOK
<1>5. Approved' = Approved \cup {q}
  BY <1>1, <1>2, <1>3, <1>4 DEF Approved, StaleFinalAnswer
<1>6. DraftText[q] # None
  BY <1>1, NoneAssumption DEF DraftText, Candidates
<1>7. QED BY <1>1, <1>5, <1>6 DEF Abstract!Approve, DraftText

LEMMA DeleteConfirmationRefines ==
  ASSUME TypeOK, NEW q \in Questions, DeleteConfirmation(q)
  PROVE  Abstract!Withdraw(q)
<1>1. /\ final'[q] = None
      /\ \A p \in Questions \ {q} : final'[p] = final[p]
      /\ UNCHANGED <<package, current, exported>>
  BY DEF DeleteConfirmation, TypeOK
<1>2. Approved' = Approved \ {q}
  BY <1>1 DEF Approved, StaleFinalAnswer
<1>3. QED BY <1>1, <1>2 DEF Abstract!Withdraw

LEMMA ExportRefines ==
  ASSUME TypeOK, NEW path \in OutputPaths, Export(path)
  PROVE  Abstract!Publish(path)
<1>1. Asked = DOMAIN Asks[package] /\ Asked \subseteq Questions
  BY PackagesAssumption DEF Export, TypeOK, Asked
<1>2. Asked = Approved
  BY <1>1 DEF Export, Exportable, Approved, UnknownFinalAnswerIds
<1>3. \A q \in Asked : DraftText[q] = final[q].text
  BY <1>1 DEF Export, Exportable, StaleFinalAnswer, DraftText
<1>4. Published' = Published \cup {[path |-> path, package |-> package, question |-> q,
                                    text |-> DraftText[q]] : q \in Approved}
  <2> DEFINE new == {[path |-> path, package |-> package, question |-> q,
                      answer |-> final[q]] : q \in Asked}
  <2>1. exported' = exported \cup new
    BY DEF Export
  <2>2. {[path |-> r.path, package |-> r.package, question |-> r.question,
          text |-> r.answer.text] : r \in new}
          = {[path |-> path, package |-> package, question |-> q,
              text |-> DraftText[q]] : q \in Approved}
    <3> DEFINE row(r) == [path |-> r.path, package |-> r.package, question |-> r.question,
                          text |-> r.answer.text]
               draft(q) == [path |-> path, package |-> package, question |-> q,
                            text |-> DraftText[q]]
               entry(q) == [path |-> path, package |-> package, question |-> q,
                            answer |-> final[q]]
    <3>1. \A q \in Asked : row(entry(q)) = draft(q)
      BY <1>3
    <3>2. new = {entry(q) : q \in Asked}
      OBVIOUS
    <3> HIDE DEF row, draft, entry, new
    <3>3. {row(r) : r \in new} = {draft(q) : q \in Approved}
      BY <1>2, <3>1, <3>2
    <3>4. QED BY <3>3 DEF row, draft
  <2>3. QED BY <2>1, <2>2 DEF Published
<1>5. \A r \in Published : r.path # path
  BY DEF Export, Published
<1>6. QED BY <1>1, <1>2, <1>4, <1>5
         DEF Abstract!Publish, Published, DraftText, Export, Approved, StaleFinalAnswer

(* A question the list shows as open is never exportable. *)
THEOREM ExportablesListed == Spec => []ExportableIsListed
<1>1. TypeOK => ExportableIsListed
  <2> SUFFICES ASSUME TypeOK, NEW q \in Asked, Exportable(q), NEW k \in Listings(q)
               PROVE  k.confirmed /\ k.evidence # "blocked" /\ k.validation # "not_run"
    BY DEF ExportableIsListed
  <2>1. /\ k.confirmed = (final[q] # None)
        /\ k.evidence = ListedEvidence(q)
        /\ k.validation \in ListedValidations(q)
    BY DEF Listings
  <2>2. k.confirmed  BY <2>1 DEF Exportable
  <2>3. risks[q] # None /\ risks[q].evidence =>
          \E e \in EvidenceIds : evidence[q][e] = "sufficient"
    <3>1. SUFFICES ASSUME risks[q] # None, risks[q].evidence
                   PROVE  \E e \in EvidenceIds : evidence[q][e] = "sufficient"
      OBVIOUS
    <3>2. EvidenceSuffices(q, final[q].review.evidence)
      BY <3>1 DEF Exportable, InsufficientEvidence
    <3>3. final[q].review.evidence \subseteq EvidenceIds
      <4>1. q \in Questions  BY PackagesAssumption DEF TypeOK, Asked
      <4>2. final[q] \in Finals  BY <4>1 DEF TypeOK, Exportable
      <4>3. QED  BY <4>2 DEF Finals, Reviews
    <3>4. QED  BY <3>2, <3>3 DEF EvidenceSuffices
  <2>4. k.evidence # "blocked"  BY <2>1, <2>3 DEF ListedEvidence
  <2>5. reports[q] # {}  BY DEF Exportable, StaleOrFailedValidation
  <2>6. k.validation # "not_run"  BY <2>1, <2>5 DEF ListedValidations
  <2>7. QED  BY <2>2, <2>4, <2>6
<1>2. QED  BY <1>1, TypeCorrect, PTL

(* The workflow publishes only what a reviewer approved as it stands. *)
THEOREM RefinesReviewedExport == Spec => ImplementsReviewedExport
<1>1. Init => Abstract!Init
  BY DEF Init, Abstract!Init, Approved
<1>2. TypeOK /\ TypeOK' /\ RecordsFit /\ [Next]_vars =>
        [Abstract!Next]_<<package, DraftText, Approved, Published>>
  <2> SUFFICES ASSUME TypeOK, TypeOK', RecordsFit, [Next]_vars
               PROVE  Abstract!Next \/ UNCHANGED <<package, DraftText, Approved, Published>>
    OBVIOUS
  <2>1. CASE \E q \in Questions, e \in EvidenceIds, v \in BOOLEAN : AddEvidence(q, e, v)
    BY <2>1 DEF AddEvidence, DraftText, Approved, Published, StaleFinalAnswer
  <2>2. CASE UNCHANGED vars
    BY <2>2 DEF vars, DraftText, Approved, Published, StaleFinalAnswer
  <2>3. CASE \E S \in SUBSET Questions : Generate(S)
    BY <2>3, GenerateRefines DEF Abstract!Next
  <2>4. CASE \E q \in Questions, t \in Texts : Amend(q, t)
    BY <2>4, AmendRefines DEF Abstract!Next
  <2>5. CASE \E q \in Questions, checked \in SUBSET RiskItems, reviewed \in SUBSET EvidenceIds :
               Confirm(q, checked, reviewed)
    BY <2>5, ConfirmRefines DEF Abstract!Next
  <2>6. CASE \E q \in Questions : DeleteConfirmation(q)
    BY <2>6, DeleteConfirmationRefines DEF Abstract!Next
  <2>7. CASE \E path \in OutputPaths : Export(path)
    BY <2>7, ExportRefines DEF Abstract!Next
  <2>8. CASE \E p \in Packages : Import(p)
    BY <2>8, ImportRefines DEF Abstract!Next
  <2>9. QED BY <2>1, <2>2, <2>3, <2>4, <2>5, <2>6, <2>7, <2>8 DEF Next
<1>3. QED BY <1>1, <1>2, TypeCorrect, RecordsAlwaysFit, PTL
         DEF Spec, ImplementsReviewedExport, Abstract!Spec, DraftText, Published
==============================================================================
