---------------------------- MODULE WorkspaceRaces ----------------------------
(***************************************************************************)
(* The files of one question under handlers that run at the same time: CLI *)
(* processes, the web server's request handlers and its generation thread  *)
(* share the workspace directory and take no lock.  Each step is one load  *)
(* or one save of the handler (save_json replaces a file atomically), in   *)
(* the order of the code, and a process can die before any of them.        *)
(*                                                                         *)
(* The web's expected_revision check reads current.json once more before   *)
(* the handler does; a handler that starts in any state includes every     *)
(* start that check lets through.  Evidence is in AnswerWorkflow.          *)
(***************************************************************************)
EXTENDS Integers, Sequences, FiniteSets

CONSTANTS
  Procs,           \* processes and threads that run handlers
  Sources,         \* wordings of the question
  Outcome,         \* Outcome[s]: text, report and required items the rules give
  Texts, RejectionText, RiskItems,
  MaxRevision,     \* bound: no handler starts a later revision
  MaxReviews,      \* bound: review records
  None

Results == [text : Texts, report : {"valid", "invalid", "none"}, required : SUBSET RiskItems]

ASSUME OutcomeAssumption ==
  /\ Outcome \in [Sources -> Results]
  /\ RejectionText \in Texts
  /\ \A s \in Sources : Outcome[s].text = RejectionText => Outcome[s].report # "valid"
  /\ \A s \in Sources : Outcome[s].text # RejectionText => Outcome[s].report = "valid"

Revisions == Nat \ {0}

(* A candidate's fingerprint chains the edits made since the rules drafted *)
(* it: hash(previous fingerprint, revision, text).                         *)
Edits        == [revision : Revisions, text : Texts]
Fingerprints == [source : Sources, edits : Seq(Edits)]
Candidates   == [print : Fingerprints, revision : Revisions]

Text(f) == IF f.edits = <<>> THEN Outcome[f.source].text ELSE f.edits[Len(f.edits)].text

ReportIds == Candidates     \* report_id binds candidate id and revision
Reports   == [id : ReportIds, valid : BOOLEAN]
Risks     == [items : SUBSET RiskItems, resolved : SUBSET RiskItems]
Reviews   == [revision : Revisions, report : ReportIds, checked : SUBSET RiskItems]
Finals    == [revision : Revisions, text : Texts, report : ReportIds, review : Reviews]

ASSUME NoneAssumption ==
  /\ None \notin Sources
  /\ None \notin Candidates
  /\ None \notin Risks
  /\ None \notin Finals

VARIABLES
  package,     \* package.json: the wording it asks
  candidates,  \* candidates/*.json, by revision
  current,     \* current.json
  reports,     \* validations/*.json
  risks,       \* risks.json
  reviews,     \* reviews/*.json
  final,       \* final-answer.json
  exported,    \* the answers in the exported file
  pc,          \* the next step of each process
  wording,     \* the wording generate read
  cand,        \* the candidate a handler read or is making
  risk,        \* the assessment confirm read, or export read
  answer       \* the final answer confirm is making, or export read

files  == <<package, candidates, current, reports, risks, reviews, final, exported>>
locals == <<wording, cand, risk, answer>>
vars   == <<files, pc, locals>>

Steps == {"idle", "g_read", "g_candidate", "g_current", "g_risks", "g_report",
          "a_candidate", "a_current", "a_report", "a_risks", "a_final",
          "c_validation", "c_risk", "c_save_risk", "c_review", "c_final",
          "e_current", "e_risk", "e_write"}

TypeOK ==
  /\ package \in Sources \cup {None}
  /\ candidates \subseteq Candidates
  /\ current \in Candidates \cup {None}
  /\ reports \subseteq Reports
  /\ risks \in Risks \cup {None}
  /\ reviews \subseteq Reviews
  /\ final \in Finals \cup {None}
  /\ exported \subseteq Finals
  /\ pc \in [Procs -> Steps]
  /\ wording \in [Procs -> Sources \cup {None}]
  /\ cand \in [Procs -> Candidates \cup {None}]
  /\ risk \in [Procs -> Risks \cup {None}]
  /\ answer \in [Procs -> Finals \cup {None}]

Init ==
  /\ package = None /\ candidates = {} /\ current = None /\ reports = {}
  /\ risks = None /\ reviews = {} /\ final = None /\ exported = {}
  /\ pc = [p \in Procs |-> "idle"]
  /\ wording = [p \in Procs |-> None]
  /\ cand = [p \in Procs |-> None]
  /\ risk = [p \in Procs |-> None]
  /\ answer = [p \in Procs |-> None]

-------------------------------------------------------------------------------
Goto(p, a, b) == pc[p] = a /\ pc' = [pc EXCEPT ![p] = b]

(* A handler that ends forgets what it read. *)
Done(p, a) ==
  /\ Goto(p, a, "idle")
  /\ wording' = [wording EXCEPT ![p] = None]
  /\ cand' = [cand EXCEPT ![p] = None]
  /\ risk' = [risk EXCEPT ![p] = None]
  /\ answer' = [answer EXCEPT ![p] = None]

(* The process dies, or the handler raises: what it saved stays saved. *)
Crash(p) == pc[p] # "idle" /\ Done(p, pc[p]) /\ UNCHANGED files

(* Fault: a report file named by its revision alone. *)
SaveReportByRevision(S, r) == {d \in S : d.id.revision # r.id.revision} \cup {r}

SaveReport(S, r) == {d \in S : d.id # r.id} \cup {r}

AssessRisk(c) == [items |-> Outcome[c.print.source].required, resolved |-> {}]

(* Fault: an amended text is not compared with the rendered one. *)
ValidAst(c) == Outcome[c.print.source].report = "valid" \/ c.print.edits # <<>>

(* The validator judges the AST the rules made; an amended text must be    *)
(* the rendered one.  A rejection that is entered again passes.            *)
Valid(c) == Text(c.print) = Outcome[c.print.source].text
              /\ (c.print.edits = <<>> => Outcome[c.print.source].report = "valid")

Report(c) == [id |-> c, valid |-> Valid(c)]

(* Fault: the first revision is 0. *)
NextRevisionFromZero == IF current = None THEN 0 ELSE current.revision + 1

NextRevision == IF current = None THEN 1 ELSE current.revision + 1

-------------------------------------------------------------------------------
(* import_package: one save that the question's files do not notice. *)
Import ==
  /\ package' \in Sources
  /\ UNCHANGED <<candidates, current, reports, risks, reviews, final, exported, pc, locals>>

SaveCandidate(p) ==
  candidates' = {d \in candidates : d.revision # cand[p].revision} \cup {cand[p]}

(* generate_answers *)
GenerateStart(p) ==
  /\ package # None
  /\ Goto(p, "idle", "g_read")
  /\ wording' = [wording EXCEPT ![p] = package]
  /\ UNCHANGED <<files, cand, risk, answer>>

(* The current candidate has the fingerprint the rules would give now. *)
Unchanged(p) == current # None /\ current.print = [source |-> wording[p], edits |-> <<>>]

GenerateReuse(p) ==
  /\ Unchanged(p)
  /\ Done(p, "g_read")
  /\ UNCHANGED files

GenerateRead(p) ==
  /\ ~Unchanged(p)
  /\ NextRevision <= MaxRevision
  /\ Goto(p, "g_read", "g_candidate")
  /\ cand' = [cand EXCEPT ![p] = [print |-> [source |-> wording[p], edits |-> <<>>],
                                  revision |-> NextRevision]]
  /\ UNCHANGED <<files, wording, risk, answer>>

GenerateSaveCandidate(p) ==
  /\ Goto(p, "g_candidate", "g_current")
  /\ SaveCandidate(p)
  /\ UNCHANGED <<package, current, reports, risks, reviews, final, exported, locals>>

GenerateSaveCurrent(p) ==
  /\ Goto(p, "g_current", "g_risks")
  /\ current' = cand[p]
  /\ UNCHANGED <<package, candidates, reports, risks, reviews, final, exported, locals>>

GenerateSaveRisks(p) ==
  /\ Goto(p, "g_risks", "g_report")
  /\ risks' = AssessRisk(cand[p])
  /\ UNCHANGED <<package, candidates, current, reports, reviews, final, exported, locals>>

GenerateSaveReport(p) ==
  /\ Done(p, "g_report")
  /\ reports' = IF Outcome[cand[p].print.source].report = "none" THEN reports
                ELSE SaveReport(reports, Report(cand[p]))
  /\ UNCHANGED <<package, candidates, current, risks, reviews, final, exported>>

Generate(p) ==
  \/ GenerateStart(p) \/ GenerateReuse(p) \/ GenerateRead(p) \/ GenerateSaveCandidate(p)
  \/ GenerateSaveCurrent(p) \/ GenerateSaveRisks(p) \/ GenerateSaveReport(p)

(* amend_answer *)
AmendStart(p, t) ==
  /\ current # None
  /\ NextRevision <= MaxRevision
  /\ Outcome[current.print.source].text = RejectionText => t = RejectionText
  /\ Goto(p, "idle", "a_candidate")
  /\ cand' = [cand EXCEPT ![p] =
       [print |-> [current.print EXCEPT !.edits =
                     Append(@, [revision |-> NextRevision, text |-> t])],
        revision |-> NextRevision]]
  /\ UNCHANGED <<files, wording, risk, answer>>

AmendSaveCandidate(p) ==
  /\ Goto(p, "a_candidate", "a_current")
  /\ SaveCandidate(p)
  /\ UNCHANGED <<package, current, reports, risks, reviews, final, exported, locals>>

AmendSaveCurrent(p) ==
  /\ Goto(p, "a_current", "a_report")
  /\ current' = cand[p]
  /\ UNCHANGED <<package, candidates, reports, risks, reviews, final, exported, locals>>

AmendSaveReport(p) ==
  /\ Goto(p, "a_report", "a_risks")
  /\ reports' = SaveReport(reports, Report(cand[p]))
  /\ UNCHANGED <<package, candidates, current, risks, reviews, final, exported, locals>>

AmendSaveRisks(p) ==
  /\ Goto(p, "a_risks", "a_final")
  /\ risks' = AssessRisk(cand[p])
  /\ UNCHANGED <<package, candidates, current, reports, reviews, final, exported, locals>>

(* _invalidate_final *)
AmendInvalidateFinal(p) ==
  /\ Done(p, "a_final")
  /\ final' = None
  /\ UNCHANGED <<package, candidates, current, reports, risks, reviews, exported>>

Amend(p) ==
  \/ \E t \in Texts : AmendStart(p, t)
  \/ AmendSaveCandidate(p) \/ AmendSaveCurrent(p) \/ AmendSaveReport(p)
  \/ AmendSaveRisks(p) \/ AmendInvalidateFinal(p)

(* confirm_answer *)
ConfirmStart(p) ==
  /\ current # None
  /\ Goto(p, "idle", "c_validation")
  /\ cand' = [cand EXCEPT ![p] = current]
  /\ UNCHANGED <<files, wording, risk, answer>>

(* Fault: a valid report of the revision is enough. *)
ConfirmValidationOfRevision(p) ==
  /\ Goto(p, "c_validation", "c_risk")
  /\ \E d \in reports : d.valid /\ d.id.revision = cand[p].revision
  /\ UNCHANGED <<files, locals>>

(* _current_validation: the report of this candidate id and revision. *)
ConfirmValidation(p) ==
  /\ Goto(p, "c_validation", "c_risk")
  /\ [id |-> cand[p], valid |-> TRUE] \in reports
  /\ UNCHANGED <<files, locals>>

ConfirmRisk(p, checked) ==
  /\ Goto(p, "c_risk", "c_save_risk")
  /\ risks # None
  /\ risks.items \subseteq checked
  /\ LET review == [revision |-> cand[p].revision, report |-> cand[p], checked |-> checked] IN
     /\ Cardinality(reviews \cup {review}) <= MaxReviews
     /\ answer' = [answer EXCEPT ![p] =
          [revision |-> cand[p].revision, text |-> Text(cand[p].print),
           report |-> cand[p], review |-> review]]
  /\ risk' = [risk EXCEPT ![p] =
       [items |-> risks.items, resolved |-> risks.resolved \cup (risks.items \cap checked)]]
  /\ UNCHANGED <<files, wording, cand>>

ConfirmSaveRisk(p) ==
  /\ Goto(p, "c_save_risk", "c_review")
  /\ risks' = risk[p]
  /\ UNCHANGED <<package, candidates, current, reports, reviews, final, exported, locals>>

ConfirmSaveReview(p) ==
  /\ Goto(p, "c_review", "c_final")
  /\ reviews' = reviews \cup {answer[p].review}
  /\ UNCHANGED <<package, candidates, current, reports, risks, final, exported, locals>>

ConfirmSaveFinal(p) ==
  /\ Done(p, "c_final")
  /\ final' = answer[p]
  /\ UNCHANGED <<package, candidates, current, reports, risks, reviews, exported>>

Confirm(p) ==
  \/ ConfirmStart(p) \/ ConfirmValidation(p)
  \/ \E checked \in SUBSET RiskItems : ConfirmRisk(p, checked)
  \/ ConfirmSaveRisk(p) \/ ConfirmSaveReview(p) \/ ConfirmSaveFinal(p)

(* delete_confirmation *)
DeleteConfirmation ==
  /\ final # None
  /\ final' = None
  /\ UNCHANGED <<package, candidates, current, reports, risks, reviews, exported, pc, locals>>

-------------------------------------------------------------------------------
(* preflight_export loads the final answer, then the candidate, then the   *)
(* assessment, then the report and the review the final answer names; then *)
(* the sheet is written to a path where no file is yet.  The last step     *)
(* may read the report and the review: nothing replaces them once they are *)
(* stored (ReportsImmutable), and a check that fails only ends the export. *)
ExportStart(p) ==
  /\ package # None /\ exported = {}
  /\ final # None
  /\ Goto(p, "idle", "e_current")
  /\ answer' = [answer EXCEPT ![p] = final]
  /\ UNCHANGED <<files, wording, cand, risk>>

ExportCurrent(p) ==
  /\ current # None
  /\ Goto(p, "e_current", "e_risk")
  /\ cand' = [cand EXCEPT ![p] = current]
  /\ UNCHANGED <<files, wording, risk, answer>>

ExportRisk(p) ==
  /\ risks # None
  /\ Goto(p, "e_risk", "e_write")
  /\ risk' = [risk EXCEPT ![p] = risks]
  /\ UNCHANGED <<files, wording, cand, answer>>

(* Fault: the final answer is not compared with the candidate. *)
PassesUncompared(f, c, r) ==
  /\ [id |-> f.report, valid |-> TRUE] \in reports
  /\ f.review \in reviews
  /\ f.review.revision = f.revision
  /\ f.review.report = f.report
  /\ r.items = r.resolved
  /\ r.items \subseteq f.review.checked

Passes(f, c, r) ==
  /\ f.revision = c.revision
  /\ f.text = Text(c.print)
  /\ f.report = c
  /\ [id |-> f.report, valid |-> TRUE] \in reports
  /\ f.review \in reviews
  /\ f.review.revision = f.revision
  /\ f.review.report = f.report
  /\ r.items = r.resolved
  /\ r.items \subseteq f.review.checked

ExportWrite(p) ==
  /\ Done(p, "e_write")
  /\ Passes(answer[p], cand[p], risk[p])
  /\ exported = {}
  /\ exported' = {answer[p]}
  /\ UNCHANGED <<package, candidates, current, reports, risks, reviews, final>>

Export(p) == ExportStart(p) \/ ExportCurrent(p) \/ ExportRisk(p) \/ ExportWrite(p)

Next ==
  \/ Import
  \/ DeleteConfirmation
  \/ \E p \in Procs : Generate(p) \/ Amend(p) \/ Confirm(p) \/ Export(p) \/ Crash(p)

Spec == Init /\ [][Next]_vars

-------------------------------------------------------------------------------
(* Whatever the interleaving and wherever a process dies, the exported     *)
(* answer is the text of one candidate that a stored review confirmed      *)
(* after a stored, passing report of that same candidate and revision.     *)
Reviewed(f) ==
  /\ f.review \in reviews
  /\ f.review.revision = f.revision
  /\ f.review.report = f.report
  /\ f.text = Text(f.report.print)
  /\ f.revision = f.report.revision
  /\ [id |-> f.report, valid |-> TRUE] \in reports

ExportedWasReviewed == \A f \in exported : Reviewed(f)

(* The same of the final answer on disk: a half-done confirmation leaves   *)
(* none, and no other handler puts one together from mixed records.        *)
FinalWasReviewed == final # None => Reviewed(final)

(* A manual text that departs from the AST is never exported, races        *)
(* between amend, generate and confirm included.                           *)
ExportedIsRendered ==
  \A f \in exported : f.text = Outcome[f.report.print.source].text

(* Reports and reviews are named by what they say, so that two handlers    *)
(* that save at once never replace one by a different one.                 *)
ReportsImmutable == [][reports \subseteq reports' /\ reviews \subseteq reviews']_vars

(* The handlers implement CertifiedAnswers: reports and reviews come       *)
(* before the final answer in every interleaving, and although export      *)
(* loads the final answer, the candidate and the assessment at three       *)
(* moments, what it writes stood at the first and was the current          *)
(* candidate's at the second, and is still certified.                      *)
Certified ==
  {[revision |-> v.revision, text |-> Text(v.report.print), report |-> v.report, review |-> v] :
     v \in {v \in reviews : [id |-> v.report, valid |-> TRUE] \in reports}}

Taken(p) ==
  IF pc[p] \notin {"e_current", "e_risk", "e_write"} THEN [answer |-> None, agreed |-> FALSE]
  ELSE [answer |-> answer[p],
        agreed |-> pc[p] # "e_current" /\ answer[p].report = cand[p]]

Abstract == INSTANCE CertifiedAnswers WITH
  Exporters <- Procs,
  draft     <- current,
  certified <- Certified,
  standing  <- final,
  taken     <- [p \in Procs |-> Taken(p)],
  published <- exported

ImplementsCertifiedAnswers == Abstract!Spec

(* data-model.md: high-risk questions require completed risk checks.       *)
ExportedRisksChecked ==
  \A f \in exported : Outcome[f.report.print.source].required \subseteq f.review.checked

(* contracts/web.md: an interrupted process keeps completed items and is   *)
(* resumed safely: when generation finds a rule candidate to reuse and no  *)
(* other handler is at work, the candidate has its report and assessment.  *)
ResumedGenerationComplete ==
  \A p \in Procs :
    (/\ pc[p] = "g_read" /\ current # None
     /\ current.print = [source |-> wording[p], edits |-> <<>>]
     /\ \A o \in Procs \ {p} : pc[o] = "idle")
      => /\ Outcome[wording[p]].report # "none" => Report(current) \in reports
         /\ risks # None /\ risks.items = AssessRisk(current).items
===============================================================================
