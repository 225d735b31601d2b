---------------------------- MODULE AnswerWorkflow ----------------------------
(***************************************************************************)
(* The review workflow of one workspace, one handler at a time: a package  *)
(* is imported, rules draft candidate answers, a reviewer amends and       *)
(* confirms them, evidence is recorded, and the answer sheet is exported   *)
(* behind the gate of preflight_export.  Each action is one whole handler  *)
(* (one CLI command or one HTTP request that runs alone); WorkspaceRaces   *)
(* interleaves the file writes inside the handlers.                        *)
(*                                                                         *)
(* A SHA-256 fingerprint is the value that is hashed (no collisions).  A   *)
(* question's wording is a member of Sources; Outcome says what the rules  *)
(* make of it.  Files nothing reads back (audit log, archived finals,      *)
(* intent.json, generation-error.json, jobs) are left out.                 *)
(***************************************************************************)
EXTENDS Integers, FiniteSets

CONSTANTS
  Questions,       \* question ids
  Sources,         \* wordings a question can have (raw_text)
  Packages,        \* packages that pass import validation
  Asks,            \* Asks[p][q]: the wording of question q in package p
  Outcome,         \* Outcome[s]: what the translators and the validator make of s
  Texts,           \* answer texts
  RejectionText,   \* FIXED_REJECTION_TEXT
  RiskItems,       \* risk item ids
  EvidenceIds,     \* evidence record ids
  Documented,      \* those whose content and facts are present
  OutputPaths,     \* export targets
  MaxRevision,     \* bound: revisions of each question
  MaxReviews,      \* bound: review records of each question
  None             \* an absent file

Results == [kind : {"query", "rejection", "none"}, text : Texts,
            report : {"valid", "invalid", "none"},
            required : SUBSET RiskItems, evidence : BOOLEAN]

ASSUME OutcomeAssumption ==
  /\ Outcome \in [Sources -> Results]
  /\ RejectionText \in Texts
  /\ \A s \in Sources :
       /\ Outcome[s].kind = "query" => Outcome[s].report = "valid"
       /\ Outcome[s].kind = "rejection" =>
            /\ Outcome[s].text = RejectionText
            /\ Outcome[s].report # "valid"

ASSUME PackagesAssumption ==
  \A p \in Packages : /\ DOMAIN Asks[p] \subseteq Questions
                      /\ DOMAIN Asks[p] # {}
                      /\ \A q \in DOMAIN Asks[p] : Asks[p][q] \in Sources

ASSUME EvidenceAssumption == Documented \subseteq EvidenceIds

Revisions == Nat \ {0}

(* CandidateAnswer.  The payload's kind, intent and AST are those the rules *)
(* derive from the wording `source`; an amendment replaces the text only.  *)
Candidates == [by : {"rule", "reviewer"}, source : Sources,
               text : Texts, revision : Revisions]

(* candidate_id is a digest of the input fingerprint: an amendment hashes  *)
(* its revision into it, a rule candidate does not.                        *)
CandidateId(c) == IF c.by = "rule" THEN <<c.by, c.source>>
                  ELSE <<c.by, c.source, c.text, c.revision>>

CandidateIds == ({"rule"} \X Sources)
                  \cup ({"reviewer"} \X Sources \X Texts \X Revisions)

(* ValidationReport.  report_id is a digest of the candidate id and the    *)
(* revision, so a final or a review that names the report names that pair. *)
ReportIds == [candidate : CandidateIds, revision : Revisions]
Reports   == [id : ReportIds, valid : BOOLEAN]
ReportId(c) == [candidate |-> CandidateId(c), revision |-> c.revision]

(* RiskAssessment: the required items and the ones marked resolved.        *)
(* risk_level is HIGH exactly when there is an item.                       *)
Risks == [items : SUBSET RiskItems, resolved : SUBSET RiskItems, evidence : BOOLEAN]

(* ReviewRecord (decision CONFIRMED) and FinalAnswer.  review_id hashes the *)
(* confirmation's time, so a final answer names the very record.           *)
Reviews == [revision : Revisions, report : ReportIds,
            checked : SUBSET RiskItems, evidence : SUBSET EvidenceIds]
Finals  == [revision : Revisions, text : Texts, report : ReportIds, review : Reviews]

(* The rows of the exported sheets.  The file holds the answer's text only; *)
(* the rest of the answer is kept to say where the text came from.         *)
Rows == [path : OutputPaths, package : Packages, question : Questions, answer : Finals]

ASSUME NoneAssumption ==
  /\ None \notin Packages
  /\ None \notin Candidates
  /\ None \notin Risks
  /\ None \notin Finals
  /\ None \notin Texts

VARIABLES
  package,     \* package.json
  current,     \* items/q/current.json
  candidates,  \* items/q/candidates/*.json, a file per revision
  reports,     \* items/q/validations/*.json, a file per report id
  risks,       \* items/q/risks.json
  reviews,     \* items/q/reviews/*.json
  final,       \* items/q/final-answer.json
  evidence,    \* evidence/q/*.json
  exported     \* the rows of the exported files

vars == <<package, current, candidates, reports, risks, reviews, final, evidence, exported>>

TypeOK ==
  /\ package \in Packages \cup {None}
  /\ current \in [Questions -> Candidates \cup {None}]
  /\ candidates \in [Questions -> SUBSET Candidates]
  /\ reports \in [Questions -> SUBSET Reports]
  /\ risks \in [Questions -> Risks \cup {None}]
  /\ reviews \in [Questions -> SUBSET Reviews]
  /\ final \in [Questions -> Finals \cup {None}]
  /\ evidence \in [Questions -> [EvidenceIds -> {"absent", "insufficient", "sufficient"}]]
  /\ exported \subseteq Rows

Init ==
  /\ package = None
  /\ current = [q \in Questions |-> None]
  /\ candidates = [q \in Questions |-> {}]
  /\ reports = [q \in Questions |-> {}]
  /\ risks = [q \in Questions |-> None]
  /\ reviews = [q \in Questions |-> {}]
  /\ final = [q \in Questions |-> None]
  /\ evidence = [q \in Questions |-> [e \in EvidenceIds |-> "absent"]]
  /\ exported = {}

Asked == IF package = None THEN {} ELSE DOMAIN Asks[package]

-------------------------------------------------------------------------------
(* save_model of a candidate replaces the file of its revision, and of a   *)
(* report the file of its id.                                              *)
SaveCandidate(S, c) == {d \in S : d.revision # c.revision} \cup {c}
SaveReport(S, r)    == {d \in S : d.id # r.id} \cup {r}

(* Fault: an amendment is assessed as if the reviewer had cleared it. *)
AssessRiskOfRulesOnly(c) ==
  [items |-> IF c.by = "rule" THEN Outcome[c.source].required ELSE {},
   resolved |-> {}, evidence |-> Outcome[c.source].evidence]

(* assess_risk: a function of the payload, hence of the wording the        *)
(* payload was derived from; a rejection and an amendment alike.           *)
AssessRisk(c) == [items |-> Outcome[c.source].required, resolved |-> {},
                  evidence |-> Outcome[c.source].evidence]

(* Faults: revisions from zero; an amended candidate amended in place. *)
NextRevisionFromZero(q) == IF current[q] = None THEN 0 ELSE current[q].revision + 1
NextRevisionInPlace(q) ==
  IF current[q] = None THEN 1
  ELSE IF current[q].by = "rule" THEN current[q].revision + 1 ELSE current[q].revision

NextRevision(q) == IF current[q] = None THEN 1 ELSE current[q].revision + 1

(* import_package replaces package.json and leaves items/ as it is. *)
Import(p) ==
  /\ package' = p
  /\ UNCHANGED <<current, candidates, reports, risks, reviews, final, evidence, exported>>

(* generate_answers rewrites a question unless no rule covers it or the    *)
(* current candidate already has the fingerprint of the rules' result.     *)
Redrafted(q) ==
  LET s == Asks[package][q] IN
  /\ Outcome[s].kind # "none"
  /\ \/ current[q] = None
     \/ current[q].by # "rule"
     \/ current[q].source # s

(* Fault: a rule candidate that exists already gets its old revision back. *)
DraftReusing(q) ==
  LET s   == Asks[package][q]
      old == {c \in candidates[q] : c.by = "rule" /\ c.source = s}
  IN IF old # {} THEN CHOOSE c \in old : TRUE
     ELSE [by |-> "rule", source |-> s, text |-> Outcome[s].text,
           revision |-> NextRevision(q)]

Draft(q) == [by |-> "rule", source |-> Asks[package][q],
             text |-> Outcome[Asks[package][q]].text, revision |-> NextRevision(q)]

(* A rejection by classify_unsupported has no report; one made because the *)
(* validator refused the query keeps the validator's negative report.      *)
DraftReports(q) ==
  LET verdict == Outcome[Asks[package][q]].report IN
  IF verdict = "none" THEN reports[q]
  ELSE SaveReport(reports[q], [id |-> ReportId(Draft(q)), valid |-> verdict = "valid"])

(* One run of generate_answers, over the whole package or one question.    *)
(* The final answer of a redrafted question stays where it is.             *)
Generate(S) ==
  /\ package # None
  /\ S = Asked \/ \E q \in Asked : S = {q}
  /\ LET R == {q \in S : Redrafted(q)} IN
     /\ \A q \in R : NextRevision(q) <= MaxRevision[q]
     /\ current' = [q \in Questions |-> IF q \in R THEN Draft(q) ELSE current[q]]
     /\ candidates' = [q \in Questions |->
          IF q \in R THEN SaveCandidate(candidates[q], Draft(q)) ELSE candidates[q]]
     /\ reports' = [q \in Questions |-> IF q \in R THEN DraftReports(q) ELSE reports[q]]
     /\ risks' = [q \in Questions |-> IF q \in R THEN AssessRisk(Draft(q)) ELSE risks[q]]
  /\ UNCHANGED <<package, reviews, final, evidence, exported>>

(* Fault: an amended text is not compared with the rendered one. *)
AmendmentAlwaysValid(c) == TRUE

(* The validator judges the AST, which an amendment keeps; amend_answer    *)
(* adds MANUAL_QUERY_AST_MISMATCH when the text is not the rendered one.   *)
AmendmentValid(c) == c.text = Outcome[c.source].text

(* amend_answer: the text of a query may become anything, but the report   *)
(* is valid only for the text the AST renders to; a rejection keeps its    *)
(* fixed text and becomes valid by being re-entered.  _invalidate_final    *)
(* moves the final answer away.                                            *)
Amend(q, text) ==
  /\ q \in Asked
  /\ current[q] # None
  /\ Outcome[current[q].source].kind = "rejection" => text = RejectionText
  /\ NextRevision(q) <= MaxRevision[q]
  /\ LET c == [by |-> "reviewer", source |-> current[q].source,
               text |-> text, revision |-> NextRevision(q)]
     IN
     /\ current' = [current EXCEPT ![q] = c]
     /\ candidates' = [candidates EXCEPT ![q] = SaveCandidate(@, c)]
     /\ reports' = [reports EXCEPT ![q] = SaveReport(@, [id |-> ReportId(c), valid |-> AmendmentValid(c)])]
     /\ risks' = [risks EXCEPT ![q] = AssessRisk(c)]
     /\ final' = [final EXCEPT ![q] = None]
  /\ UNCHANGED <<package, reviews, evidence, exported>>

(* Fault: any report of the candidate will do, whatever it says. *)
ValidatedOnce(q) == \E r \in reports[q] : r.id.candidate = CandidateId(current[q])

(* _current_validation: the report of this candidate and this revision. *)
Validated(q) == [id |-> ReportId(current[q]), valid |-> TRUE] \in reports[q]

EvidenceSuffices(q, E) == E # {} /\ \A e \in E : evidence[q][e] = "sufficient"

(* confirm_answer, with the item ids and the evidence ids the reviewer     *)
(* passes: it marks the checked items resolved, records the review and     *)
(* writes the final answer.                                                *)
Confirm(q, checked, reviewed) ==
  /\ q \in Asked
  /\ current[q] # None
  /\ Validated(q)
  /\ risks[q] # None
  /\ risks[q].items \subseteq checked
  /\ \A e \in reviewed : evidence[q][e] # "absent"
  /\ risks[q].evidence => EvidenceSuffices(q, reviewed)
  /\ LET review == [revision |-> current[q].revision, report |-> ReportId(current[q]),
                    checked |-> checked, evidence |-> reviewed]
     IN
     /\ Cardinality(reviews[q] \cup {review}) <= MaxReviews[q]
     /\ risks' = [risks EXCEPT ![q].resolved = @ \cup (risks[q].items \cap checked)]
     /\ reviews' = [reviews EXCEPT ![q] = @ \cup {review}]
     /\ final' = [final EXCEPT ![q] = [revision |-> current[q].revision,
                    text |-> current[q].text, report |-> ReportId(current[q]),
                    review |-> review]]
  /\ UNCHANGED <<package, current, candidates, reports, evidence, exported>>

(* delete_confirmation moves the final answer away, of any question id. *)
DeleteConfirmation(q) ==
  /\ final[q] # None
  /\ final' = [final EXCEPT ![q] = None]
  /\ UNCHANGED <<package, current, candidates, reports, risks, reviews, evidence, exported>>

(* add_evidence: the record's id does not depend on who verified it or on  *)
(* whether the source was accessible (together: `verified`), so recording  *)
(* the same source and facts again replaces the record.                    *)
AddEvidence(q, e, verified) ==
  /\ q \in Asked
  /\ evidence' = [evidence EXCEPT ![q][e] =
       IF verified /\ e \in Documented THEN "sufficient" ELSE "insufficient"]
  /\ UNCHANGED <<package, current, candidates, reports, risks, reviews, final, exported>>

-------------------------------------------------------------------------------
(* preflight_export: the blockers of one question, by their codes. *)
StaleFinalAnswer(q) ==
  \/ final[q].revision # current[q].revision
  \/ final[q].text # current[q].text

StaleOrFailedValidation(q) ==
  \/ final[q].report # ReportId(current[q])
  \/ [id |-> final[q].report, valid |-> TRUE] \notin reports[q]

StaleOrInvalidConfirmation(q) ==
  \/ final[q].review \notin reviews[q]
  \/ final[q].review.revision # final[q].revision
  \/ final[q].review.report # final[q].report

IncompleteHighRiskChecks(q) ==
  \/ risks[q].items # risks[q].resolved
  \/ ~ risks[q].items \subseteq final[q].review.checked

InsufficientEvidence(q) ==
  \/ \E e \in final[q].review.evidence : evidence[q][e] = "absent"
  \/ risks[q].evidence /\ ~ EvidenceSuffices(q, final[q].review.evidence)

Exportable(q) ==
  /\ final[q] # None
  /\ current[q] # None
  /\ risks[q] # None
  /\ ~ StaleFinalAnswer(q)
  /\ ~ StaleOrFailedValidation(q)
  /\ ~ StaleOrInvalidConfirmation(q)
  /\ ~ IncompleteHighRiskChecks(q)
  /\ ~ InsufficientEvidence(q)

(* Fault: the questions of an earlier package are not looked at. *)
NoUnknownFinalAnswerIds == {}

UnknownFinalAnswerIds == {q \in Questions \ Asked : final[q] # None}

(* export_answers to a path where no file is yet. *)
Export(path) ==
  /\ package # None
  /\ \A r \in exported : r.path # path
  /\ UnknownFinalAnswerIds = {}
  /\ \A q \in Asked : Exportable(q)
  /\ exported' = exported \cup {[path |-> path, package |-> package,
                                 question |-> q, answer |-> final[q]] : q \in Asked}
  /\ UNCHANGED <<package, current, candidates, reports, risks, reviews, final, evidence>>

-------------------------------------------------------------------------------
(* _items, the web question list: what it shows of a question's files.     *)

(* Fault: evidence asked for whether or not the assessment requires it. *)
ListedEvidenceAlways(q) ==
  IF \E e \in EvidenceIds : evidence[q][e] = "sufficient" THEN "sufficient" ELSE "blocked"

ListedEvidence(q) ==
  IF risks[q] = None \/ ~ risks[q].evidence THEN "not_required"
  ELSE IF \E e \in EvidenceIds : evidence[q][e] = "sufficient" THEN "sufficient"
  ELSE "blocked"

(* The last report by file name, which is a digest: any of them. *)
ListedValidations(q) ==
  IF reports[q] = {} THEN {"not_run"}
  ELSE {IF r.valid THEN "passed" ELSE "failed" : r \in reports[q]}

Listings(q) == [confirmed : {final[q] # None}, evidence : {ListedEvidence(q)},
                validation : ListedValidations(q)]

-------------------------------------------------------------------------------
Next ==
  \/ \E p \in Packages : Import(p)
  \/ \E S \in SUBSET Questions : Generate(S)
  \/ \E q \in Questions, t \in Texts : Amend(q, t)
  \/ \E q \in Questions, checked \in SUBSET RiskItems, reviewed \in SUBSET EvidenceIds :
       Confirm(q, checked, reviewed)
  \/ \E q \in Questions : DeleteConfirmation(q)
  \/ \E q \in Questions, e \in EvidenceIds, v \in BOOLEAN : AddEvidence(q, e, v)
  \/ \E path \in OutputPaths : Export(path)

Spec == Init /\ [][Next]_vars

-------------------------------------------------------------------------------
(* An answer is traceable when its text is that of a stored candidate      *)
(* revision that has a passing report and a review of its own.             *)
Traceable(q, answer) ==
  /\ answer.review \in reviews[q]
  /\ answer.review.revision = answer.revision
  /\ answer.review.report = answer.report
  /\ [id |-> answer.report, valid |-> TRUE] \in reports[q]
  /\ \E c \in candidates[q] : /\ c.text = answer.text
                              /\ c.revision = answer.revision
                              /\ ReportId(c) = answer.report

(* Every exported row is traceable, for ever: nothing that amend, generate *)
(* or another confirmation does later replaces the records it rests on.    *)
ExportedRowsTraceable ==
  \A r \in exported : Traceable(r.question, r.answer)

(* The candidate an exported row was taken from. *)
RowCandidate(r) == CHOOSE c \in candidates[r.question] : c.revision = r.answer.revision

(* The reviewer who confirmed an exported answer checked every risk item   *)
(* of that very candidate (not of an earlier one whose assessment was left *)
(* in risks.json), and cited evidence when that candidate needs some.      *)
ExportedRisksChecked ==
  \A r \in exported :
    /\ Outcome[RowCandidate(r).source].required \subseteq r.answer.review.checked
    /\ Outcome[RowCandidate(r).source].evidence =>
         /\ r.answer.review.evidence # {}
         /\ r.answer.review.evidence \subseteq Documented

(* An exported query is what the renderer makes of the candidate's AST:    *)
(* manual text that departs from the AST never gets through validation,    *)
(* confirmation and the gate; an exported rejection is the fixed text.     *)
ExportedTextsRendered ==
  \A r \in exported : r.answer.text = Outcome[RowCandidate(r).source].text

(* A candidate record, once written, is never changed or lost: the next    *)
(* revision of generate or amend never lands on a file that exists.        *)
CandidatesImmutable ==
  [][\A q \in Questions : candidates[q] \subseteq candidates'[q]]_vars

(* An answer confirmed for one revision never becomes exportable again     *)
(* once the question has moved to another revision: only a new             *)
(* confirmation replaces it, since revisions do not come back.             *)
StaleFinal(q) == final[q] # None /\ final[q].revision # current[q].revision

StaleStaysStale ==
  [][\A q \in Questions :
       (StaleFinal(q) /\ final'[q] = final[q]) => StaleFinal(q)']_vars

(* The list and the gate judge by different files: one looks at all the    *)
(* evidence and at some report, the other at what the review cites.  Still *)
(* the list shows no question as open that export would let out: none that *)
(* is unconfirmed, has its evidence blocked or was never validated.  (It   *)
(* may show a stale confirmation as confirmed, and an old report's verdict.) *)
ExportableIsListed ==
  \A q \in Asked :
    Exportable(q) => \A k \in Listings(q) : /\ k.confirmed
                                           /\ k.evidence # "blocked"
                                           /\ k.validation # "not_run"

(* The records of one question fit together: candidate files have distinct *)
(* revisions up to the current one; a report belongs to a stored candidate *)
(* and passes only rendered text; the assessment is the current            *)
(* candidate's; a review checked its candidate's risk items.               *)
CandidatesFit(q) ==
  IF current[q] = None THEN candidates[q] = {}
  ELSE /\ current[q] \in candidates[q]
       /\ \A c \in candidates[q] : c.revision <= current[q].revision
       /\ \A c, d \in candidates[q] : c.revision = d.revision => c = d

ReportsFit(q) ==
  \A r \in reports[q] : \E c \in candidates[q] :
    /\ r.id = ReportId(c)
    /\ r.valid => c.text = Outcome[c.source].text

RisksFit(q) ==
  current[q] # None =>
    /\ risks[q] # None
    /\ risks[q].items = Outcome[current[q].source].required
    /\ risks[q].evidence = Outcome[current[q].source].evidence

ReviewsFit(q) ==
  \A v \in reviews[q] : \E c \in candidates[q] :
    /\ v.report = ReportId(c)
    /\ v.revision = c.revision
    /\ Outcome[c.source].required \subseteq v.checked
    /\ Outcome[c.source].evidence => v.evidence # {} /\ v.evidence \subseteq Documented

EvidenceFits(q) ==
  \A e \in EvidenceIds : evidence[q][e] = "sufficient" => e \in Documented

FinalFits(q) == final[q] # None => Traceable(q, final[q])

QuestionFits(q) ==
  /\ CandidatesFit(q)
  /\ ReportsFit(q)
  /\ RisksFit(q)
  /\ ReviewsFit(q)
  /\ EvidenceFits(q)
  /\ FinalFits(q)

RecordsFit == \A q \in Questions : QuestionFits(q)

(* The workflow implements ReviewedExport.  A question is approved when    *)
(* its final answer is the one of the current candidate.                   *)
Approved == {q \in Questions : final[q] # None /\ ~ StaleFinalAnswer(q)}

Abstract == INSTANCE ReviewedExport WITH
  draft     <- [q \in Questions |-> IF current[q] = None THEN None ELSE current[q].text],
  approved  <- Approved,
  published <- {[path |-> r.path, package |-> r.package, question |-> r.question,
                 text |-> r.answer.text] : r \in exported}

ImplementsReviewedExport == Abstract!Spec

-------------------------------------------------------------------------------
(* What the documents say and the code does not do.                        *)

(* specs/001-fofa-query-compiler/contracts/workspace.md: relevant source   *)
(* changes invalidate finalization and export readiness, so an exported    *)
(* answer was drafted for the wording its package asks.                    *)
ExportedForPackageWording ==
  \A r \in exported : RowCandidate(r).source = Asks[r.package][r.question]
===============================================================================
