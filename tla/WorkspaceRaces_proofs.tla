------------------------ MODULE WorkspaceRaces_proofs ------------------------
(***************************************************************************)
(* Theorems about WorkspaceRaces for every set of processes, wordings,     *)
(* texts and risk items, every Outcome of the rules and every bound.       *)
(***************************************************************************)
EXTENDS WorkspaceRaces, TLAPS

(* Where a handler has read or made its candidate, where a confirmation    *)
(* has found its report, where it has its answer, and where an export has. *)
WithCandidate == {"g_candidate", "g_current", "g_risks", "g_report",
                  "a_candidate", "a_current", "a_report", "a_risks", "a_final",
                  "c_validation", "c_risk", "c_save_risk", "c_review", "c_final",
                  "e_risk", "e_write"}
Confirming    == {"c_save_risk", "c_review"}
Exporting     == {"e_current", "e_risk", "e_write"}

(* What makes an answer a reviewed one, but for its review being stored. *)
Validated(f) ==
  /\ f \in Finals
  /\ f.review.revision = f.revision
  /\ f.review.report = f.report
  /\ f.text = Text(f.report.print)
  /\ f.revision = f.report.revision
  /\ [id |-> f.report, valid |-> TRUE] \in reports

Local(p) ==
  /\ pc[p] = "g_read" => wording[p] \in Sources
  /\ pc[p] \in WithCandidate => cand[p] \in Candidates
  /\ pc[p] = "c_risk" => [id |-> cand[p], valid |-> TRUE] \in reports
  /\ pc[p] \in Confirming => Validated(answer[p])
  /\ pc[p] \in Exporting \cup {"c_final"} =>
       Validated(answer[p]) /\ answer[p].review \in reviews

(* A report says what the validator says of the candidate it names. *)
Honest(S) == \A d \in S : d = Report(d.id)

IInv ==
  /\ TypeOK
  /\ Honest(reports)
  /\ \A p \in Procs : Local(p)
  /\ FinalWasReviewed
  /\ ExportedWasReviewed

-------------------------------------------------------------------------------
(* What the helpers return. *)
LEMMA TextType ==
  ASSUME NEW f \in Fingerprints
  PROVE  Text(f) \in Texts
<1>1. f.source \in Sources /\ f.edits \in Seq(Edits)
  BY DEF Fingerprints
<1>2. Outcome[f.source].text \in Texts
  BY <1>1, OutcomeAssumption DEF Results
<1>3. ASSUME f.edits # <<>> PROVE f.edits[Len(f.edits)].text \in Texts
  <2>1. Len(f.edits) \in 1 .. Len(f.edits)
    BY <1>1, <1>3
  <2>2. f.edits[Len(f.edits)] \in Edits
    BY <1>1, <2>1
  <2>3. QED BY <2>2 DEF Edits
<1>4. QED BY <1>2, <1>3 DEF Text

LEMMA ReportType ==
  ASSUME NEW c \in Candidates
  PROVE  Report(c) \in Reports /\ Report(c).id = c /\ AssessRisk(c) \in Risks
<1>1. c.print.source \in Sources
  BY DEF Candidates, Fingerprints
<1>2. AssessRisk(c) \in Risks
  BY <1>1, OutcomeAssumption DEF AssessRisk, Risks, Results
<1>3. Valid(c) \in BOOLEAN
  BY DEF Valid
<1>4. QED BY <1>2, <1>3 DEF Report, Reports, ReportIds

LEMMA NextRevisionType ==
  ASSUME current \in Candidates \cup {None}
  PROVE  NextRevision \in Revisions
BY DEF NextRevision, Candidates, Revisions

LEMMA DraftType ==
  ASSUME NEW s \in Sources, current \in Candidates \cup {None}
  PROVE  [print |-> [source |-> s, edits |-> <<>>], revision |-> NextRevision] \in Candidates
<1>1. <<>> \in Seq(Edits)
  OBVIOUS
<1>2. QED BY <1>1, NextRevisionType DEF Candidates, Fingerprints

LEMMA AmendedType ==
  ASSUME current \in Candidates, NEW t \in Texts
  PROVE  [print |-> [current.print EXCEPT !.edits =
                       Append(@, [revision |-> NextRevision, text |-> t])],
          revision |-> NextRevision] \in Candidates
<1> DEFINE e == [revision |-> NextRevision, text |-> t]
<1>1. NextRevision \in Revisions
  BY NextRevisionType
<1>2. e \in Edits
  BY <1>1 DEF Edits
<1>3. current.print \in [source : Sources, edits : Seq(Edits)]
  BY DEF Candidates, Fingerprints
<1> HIDE DEF e
<1>4. Append(current.print.edits, e) \in Seq(Edits)
  BY <1>2, <1>3
<1>5. [current.print EXCEPT !.edits = Append(@, e)] \in Fingerprints
  BY <1>3, <1>4 DEF Fingerprints
<1>6. QED BY <1>1, <1>5 DEF Candidates, e

LEMMA AnswerType ==
  ASSUME NEW c \in Candidates, NEW checked \in SUBSET RiskItems
  PROVE  [revision |-> c.revision, text |-> Text(c.print), report |-> c,
          review |-> [revision |-> c.revision, report |-> c, checked |-> checked]] \in Finals
<1>1. c.revision \in Revisions /\ c.print \in Fingerprints
  BY DEF Candidates
<1>2. Text(c.print) \in Texts
  BY <1>1, TextType
<1>3. [revision |-> c.revision, report |-> c, checked |-> checked] \in Reviews
  BY <1>1 DEF Reviews, ReportIds
<1>4. QED BY <1>1, <1>2, <1>3 DEF Finals, ReportIds

(* Saving a report of a candidate over honest reports only adds it. *)
LEMMA SaveReportGrows ==
  ASSUME NEW S \in SUBSET Reports, Honest(S), NEW c \in Candidates
  PROVE  /\ S \subseteq SaveReport(S, Report(c))
         /\ SaveReport(S, Report(c)) \subseteq Reports
         /\ Honest(SaveReport(S, Report(c)))
<1>1. Report(c) \in Reports /\ Report(c).id = c
  BY ReportType
<1>2. \A d \in S : d.id = c => d = Report(c)
  BY DEF Honest
<1>3. QED BY <1>1, <1>2 DEF SaveReport, Honest

-------------------------------------------------------------------------------
(* Every step keeps every file and every local well-formed. *)
LEMMA GenerateType ==
  ASSUME IInv, NEW p \in Procs, Generate(p)
  PROVE  TypeOK'
<1> USE DEF TypeOK, files, locals, Goto, Done, Steps
<1>1. Local(p)
  BY DEF IInv
<1>2. TypeOK
  BY DEF IInv
<1>3. CASE GenerateStart(p)
  BY <1>2, <1>3 DEF GenerateStart
<1>4. CASE GenerateReuse(p)
  BY <1>2, <1>4 DEF GenerateReuse
<1>5. CASE GenerateRead(p)
  <2>1. wording[p] \in Sources
    BY <1>1, <1>5 DEF GenerateRead, Local
  <2>2. [print |-> [source |-> wording[p], edits |-> <<>>], revision |-> NextRevision] \in Candidates
    BY <1>2, <2>1, DraftType
  <2>3. QED BY <1>2, <1>5, <2>2 DEF GenerateRead
<1>6. CASE GenerateSaveCandidate(p)
  <2>1. cand[p] \in Candidates
    BY <1>1, <1>6 DEF GenerateSaveCandidate, Local, WithCandidate
  <2>2. QED BY <1>2, <1>6, <2>1 DEF GenerateSaveCandidate, SaveCandidate
<1>7. CASE GenerateSaveCurrent(p)
  BY <1>2, <1>7 DEF GenerateSaveCurrent
<1>8. CASE GenerateSaveRisks(p)
  <2>1. cand[p] \in Candidates
    BY <1>1, <1>8 DEF GenerateSaveRisks, Local, WithCandidate
  <2>2. AssessRisk(cand[p]) \in Risks
    BY <2>1, ReportType
  <2>3. QED BY <1>2, <1>8, <2>2 DEF GenerateSaveRisks
<1>9. CASE GenerateSaveReport(p)
  <2>1. cand[p] \in Candidates
    BY <1>1, <1>9 DEF GenerateSaveReport, Local, WithCandidate
  <2>2. SaveReport(reports, Report(cand[p])) \subseteq Reports
    BY <1>2, <2>1, SaveReportGrows DEF IInv
  <2>3. reports' \subseteq Reports
    BY <1>2, <1>9, <2>2 DEF GenerateSaveReport
  <2>4. QED BY <1>2, <1>9, <2>3 DEF GenerateSaveReport
<1>10. QED BY <1>3, <1>4, <1>5, <1>6, <1>7, <1>8, <1>9 DEF Generate

LEMMA AmendType ==
  ASSUME IInv, NEW p \in Procs, Amend(p)
  PROVE  TypeOK'
<1> USE DEF TypeOK, files, locals, Goto, Done, Steps
<1>1. Local(p)
  BY DEF IInv
<1>2. TypeOK
  BY DEF IInv
<1>3. ASSUME NEW t \in Texts, AmendStart(p, t) PROVE TypeOK'
  <2> DEFINE c == [print |-> [current.print EXCEPT !.edits =
                       Append(@, [revision |-> NextRevision, text |-> t])],
                   revision |-> NextRevision]
  <2>1. current \in Candidates
    BY <1>2, <1>3 DEF AmendStart
  <2>2. c \in Candidates
    BY <2>1, AmendedType
  <2>3. /\ cand' = [cand EXCEPT ![p] = c]
        /\ pc' = [pc EXCEPT ![p] = "a_candidate"]
        /\ UNCHANGED <<files, wording, risk, answer>>
    BY <1>3 DEF AmendStart
  <2> HIDE DEF c
  <2>4. QED BY <1>2, <2>2, <2>3
<1>4. CASE AmendSaveCandidate(p)
  <2>1. cand[p] \in Candidates
    BY <1>1, <1>4 DEF AmendSaveCandidate, Local, WithCandidate
  <2>2. QED BY <1>2, <1>4, <2>1 DEF AmendSaveCandidate, SaveCandidate
<1>5. CASE AmendSaveCurrent(p)
  BY <1>2, <1>5 DEF AmendSaveCurrent
<1>6. CASE AmendSaveReport(p)
  <2>1. cand[p] \in Candidates
    BY <1>1, <1>6 DEF AmendSaveReport, Local, WithCandidate
  <2>2. SaveReport(reports, Report(cand[p])) \subseteq Reports
    BY <1>2, <2>1, SaveReportGrows DEF IInv
  <2>3. QED BY <1>2, <1>6, <2>2 DEF AmendSaveReport
<1>7. CASE AmendSaveRisks(p)
  <2>1. cand[p] \in Candidates
    BY <1>1, <1>7 DEF AmendSaveRisks, Local, WithCandidate
  <2>2. AssessRisk(cand[p]) \in Risks
    BY <2>1, ReportType
  <2>3. QED BY <1>2, <1>7, <2>2 DEF AmendSaveRisks
<1>8. CASE AmendInvalidateFinal(p)
  BY <1>2, <1>8 DEF AmendInvalidateFinal
<1>9. QED BY <1>3, <1>4, <1>5, <1>6, <1>7, <1>8 DEF Amend

LEMMA ConfirmType ==
  ASSUME IInv, NEW p \in Procs, Confirm(p)
  PROVE  TypeOK'
<1> USE DEF TypeOK, files, locals, Goto, Done, Steps
<1>1. Local(p)
  BY DEF IInv
<1>2. TypeOK
  BY DEF IInv
<1>3. CASE ConfirmStart(p)
  BY <1>2, <1>3 DEF ConfirmStart
<1>4. CASE ConfirmValidation(p)
  BY <1>2, <1>4 DEF ConfirmValidation
<1>5. ASSUME NEW checked \in SUBSET RiskItems, ConfirmRisk(p, checked) PROVE TypeOK'
  <2> DEFINE f == [revision |-> cand[p].revision, text |-> Text(cand[p].print),
                   report |-> cand[p],
                   review |-> [revision |-> cand[p].revision, report |-> cand[p],
                               checked |-> checked]]
             r == [items |-> risks.items,
                   resolved |-> risks.resolved \cup (risks.items \cap checked)]
  <2>1. cand[p] \in Candidates
    BY <1>1, <1>5 DEF ConfirmRisk, Local, WithCandidate
  <2>2. f \in Finals
    BY <2>1, AnswerType
  <2>3. r \in Risks
    BY <1>2, <1>5 DEF ConfirmRisk, Risks
  <2>4. /\ answer' = [answer EXCEPT ![p] = f]
        /\ risk' = [risk EXCEPT ![p] = r]
        /\ pc' = [pc EXCEPT ![p] = "c_save_risk"]
        /\ UNCHANGED <<files, wording, cand>>
    BY <1>5 DEF ConfirmRisk
  <2> HIDE DEF f, r
  <2>5. QED BY <1>2, <2>2, <2>3, <2>4
<1>6. CASE ConfirmSaveRisk(p)
  BY <1>2, <1>6 DEF ConfirmSaveRisk
<1>7. CASE ConfirmSaveReview(p)
  <2>1. answer[p] \in Finals
    BY <1>1, <1>7 DEF ConfirmSaveReview, Local, Confirming, Validated
  <2>2. answer[p].review \in Reviews
    BY <2>1 DEF Finals
  <2>3. QED BY <1>2, <1>7, <2>2 DEF ConfirmSaveReview
<1>8. CASE ConfirmSaveFinal(p)
  BY <1>2, <1>8 DEF ConfirmSaveFinal
<1>9. QED BY <1>3, <1>4, <1>5, <1>6, <1>7, <1>8 DEF Confirm

LEMMA ExportType ==
  ASSUME IInv, NEW p \in Procs, Export(p)
  PROVE  TypeOK'
<1> USE DEF TypeOK, files, locals, Goto, Done, Steps
<1>1. Local(p)
  BY DEF IInv
<1>2. TypeOK
  BY DEF IInv
<1>3. CASE ExportStart(p)
  BY <1>2, <1>3 DEF ExportStart
<1>4. CASE ExportCurrent(p)
  BY <1>2, <1>4 DEF ExportCurrent
<1>5. CASE ExportRisk(p)
  BY <1>2, <1>5 DEF ExportRisk
<1>6. CASE ExportWrite(p)
  <2>1. answer[p] \in Finals
    BY <1>1, <1>6 DEF ExportWrite, Local, Exporting, Validated
  <2>2. QED BY <1>2, <1>6, <2>1 DEF ExportWrite
<1>7. QED BY <1>3, <1>4, <1>5, <1>6 DEF Export

LEMMA StepType ==
  ASSUME IInv, [Next]_vars
  PROVE  TypeOK'
<1>1. TypeOK
  BY DEF IInv
<1>2. CASE Import
  BY <1>1, <1>2 DEF Import, TypeOK, locals
<1>3. CASE DeleteConfirmation
  BY <1>1, <1>3 DEF DeleteConfirmation, TypeOK, locals
<1>4. ASSUME NEW p \in Procs, Crash(p) PROVE TypeOK'
  BY <1>1, <1>4 DEF Crash, Done, Goto, TypeOK, files, Steps
<1>5. CASE UNCHANGED vars
  BY <1>1, <1>5 DEF TypeOK, vars, files, locals
<1>6. QED
  BY <1>2, <1>3, <1>4, <1>5, GenerateType, AmendType, ConfirmType, ExportType DEF Next

-------------------------------------------------------------------------------
(* Reports and reviews are only added, and every report stays honest. *)
LEMMA RecordsGrow ==
  ASSUME IInv, [Next]_vars
  PROVE  reports \subseteq reports' /\ reviews \subseteq reviews' /\ Honest(reports')
<1> DEFINE G == reports \subseteq reports' /\ reviews \subseteq reviews' /\ Honest(reports')
<1>1. reports \in SUBSET Reports /\ Honest(reports) /\ \A p \in Procs : Local(p)
  BY DEF IInv, TypeOK
<1>2. ASSUME NEW p \in Procs, Generate(p) PROVE G
  <2>1. CASE GenerateSaveReport(p)
    <3>1. cand[p] \in Candidates
      BY <1>1, <2>1 DEF GenerateSaveReport, Done, Goto, Local, WithCandidate
    <3>2. reviews' = reviews
      BY <2>1 DEF GenerateSaveReport
    <3>3. CASE reports' = reports
      BY <1>1, <3>2, <3>3
    <3>4. CASE reports' = SaveReport(reports, Report(cand[p]))
      BY <1>1, <3>1, <3>2, <3>4, SaveReportGrows
    <3>5. QED BY <2>1, <3>3, <3>4 DEF GenerateSaveReport
  <2>2. CASE ~GenerateSaveReport(p)
    BY <1>1, <1>2, <2>2 DEF Generate, GenerateStart, GenerateReuse, GenerateRead,
       GenerateSaveCandidate, GenerateSaveCurrent, GenerateSaveRisks, files
  <2>3. QED BY <2>1, <2>2
<1>3. ASSUME NEW p \in Procs, Amend(p) PROVE G
  <2>1. CASE AmendSaveReport(p)
    <3>1. cand[p] \in Candidates
      BY <1>1, <2>1 DEF AmendSaveReport, Goto, Local, WithCandidate
    <3>2. reviews' = reviews /\ reports' = SaveReport(reports, Report(cand[p]))
      BY <2>1 DEF AmendSaveReport
    <3>3. QED BY <1>1, <3>1, <3>2, SaveReportGrows
  <2>2. CASE ~AmendSaveReport(p)
    BY <1>1, <1>3, <2>2 DEF Amend, AmendStart, AmendSaveCandidate, AmendSaveCurrent,
       AmendSaveRisks, AmendInvalidateFinal, files
  <2>3. QED BY <2>1, <2>2
<1>4. ASSUME NEW p \in Procs, Confirm(p) PROVE G
  BY <1>1, <1>4 DEF Confirm, ConfirmStart, ConfirmValidation, ConfirmRisk, ConfirmSaveRisk,
     ConfirmSaveReview, ConfirmSaveFinal, files
<1>5. ASSUME NEW p \in Procs, Export(p) PROVE G
  BY <1>1, <1>5 DEF Export, ExportStart, ExportCurrent, ExportRisk, ExportWrite, files
<1>6. ASSUME Import \/ DeleteConfirmation \/ UNCHANGED vars PROVE G
  BY <1>1, <1>6 DEF Import, DeleteConfirmation, vars, files
<1>7. ASSUME NEW p \in Procs, Crash(p) PROVE G
  BY <1>1, <1>7 DEF Crash, files
<1>8. QED BY <1>2, <1>3, <1>4, <1>5, <1>6, <1>7 DEF Next

-------------------------------------------------------------------------------
(* What a process knows survives the steps of the others. *)
Stays(o) ==
  pc'[o] = pc[o] /\ wording'[o] = wording[o] /\ cand'[o] = cand[o] /\ answer'[o] = answer[o]

LEMMA KnowledgeSurvives ==
  ASSUME NEW o \in Procs, Local(o), Stays(o),
         reports \subseteq reports', reviews \subseteq reviews'
  PROVE  Local(o)'
BY DEF Local, Stays, Validated

LEMMA OthersStay ==
  ASSUME TypeOK, NEW p \in Procs, NEW o \in Procs \ {p},
         Generate(p) \/ Amend(p) \/ Confirm(p) \/ Export(p) \/ Crash(p)
  PROVE  Stays(o)
<1> USE DEF TypeOK, Stays, Goto, Done, locals
<1>1. CASE Generate(p)
  BY <1>1 DEF Generate, GenerateStart, GenerateReuse, GenerateRead,
     GenerateSaveCandidate, GenerateSaveCurrent, GenerateSaveRisks, GenerateSaveReport
<1>2. CASE Amend(p)
  BY <1>2 DEF Amend, AmendStart, AmendSaveCandidate, AmendSaveCurrent, AmendSaveReport,
     AmendSaveRisks, AmendInvalidateFinal
<1>3. CASE Confirm(p)
  BY <1>3 DEF Confirm, ConfirmStart, ConfirmValidation, ConfirmRisk, ConfirmSaveRisk,
     ConfirmSaveReview, ConfirmSaveFinal
<1>4. CASE Export(p)
  BY <1>4 DEF Export, ExportStart, ExportCurrent, ExportRisk, ExportWrite
<1>5. CASE Crash(p)
  BY <1>5 DEF Crash
<1>6. QED BY <1>1, <1>2, <1>3, <1>4, <1>5

(* What a process knows after its own step. *)
LEMMA IdleKnows ==
  ASSUME NEW p \in Procs, TypeOK, pc' = [pc EXCEPT ![p] = "idle"]
  PROVE  Local(p)'
<1>1. pc'[p] = "idle"
  BY DEF TypeOK
<1>2. QED BY <1>1 DEF Local, WithCandidate, Confirming, Exporting

LEMMA GenerateKnows ==
  ASSUME IInv, NEW p \in Procs, Generate(p)
  PROVE  Local(p)'
<1> USE DEF Goto, locals, files
<1>1. TypeOK /\ Local(p)
  BY DEF IInv
<1>2. CASE GenerateStart(p)
  BY <1>1, <1>2 DEF GenerateStart, TypeOK, Local, WithCandidate, Confirming, Exporting
<1>3. CASE GenerateReuse(p) \/ GenerateSaveReport(p)
  BY <1>1, <1>3, IdleKnows DEF GenerateReuse, GenerateSaveReport, Done
<1>4. CASE GenerateRead(p)
  <2>1. wording[p] \in Sources
    BY <1>1, <1>4 DEF GenerateRead, Local
  <2>2. [print |-> [source |-> wording[p], edits |-> <<>>], revision |-> NextRevision] \in Candidates
    BY <1>1, <2>1, DraftType DEF TypeOK
  <2>3. pc'[p] = "g_candidate" /\ cand'[p] \in Candidates
    BY <1>1, <1>4, <2>2 DEF GenerateRead, TypeOK
  <2>4. QED BY <2>3 DEF Local, WithCandidate, Confirming, Exporting
<1>5. CASE GenerateSaveCandidate(p) \/ GenerateSaveCurrent(p) \/ GenerateSaveRisks(p)
  <2>1. /\ pc[p] \in WithCandidate /\ cand'[p] = cand[p]
        /\ pc'[p] \in {"g_current", "g_risks", "g_report"}
    BY <1>1, <1>5 DEF GenerateSaveCandidate, GenerateSaveCurrent, GenerateSaveRisks,
       TypeOK, WithCandidate
  <2>2. QED BY <1>1, <2>1 DEF Local, WithCandidate, Confirming, Exporting
<1>6. QED BY <1>2, <1>3, <1>4, <1>5 DEF Generate

LEMMA AmendKnows ==
  ASSUME IInv, NEW p \in Procs, Amend(p)
  PROVE  Local(p)'
<1> USE DEF Goto, locals, files
<1>1. TypeOK /\ Local(p)
  BY DEF IInv
<1>2. ASSUME NEW t \in Texts, AmendStart(p, t) PROVE Local(p)'
  <2>1. current \in Candidates
    BY <1>1, <1>2 DEF AmendStart, TypeOK
  <2>2. [print |-> [current.print EXCEPT !.edits =
                      Append(@, [revision |-> NextRevision, text |-> t])],
         revision |-> NextRevision] \in Candidates
    BY <2>1, AmendedType
  <2>3. pc'[p] = "a_candidate" /\ cand'[p] \in Candidates
    BY <1>1, <1>2, <2>2 DEF AmendStart, TypeOK
  <2>4. QED BY <2>3 DEF Local, WithCandidate, Confirming, Exporting
<1>3. CASE AmendInvalidateFinal(p)
  BY <1>1, <1>3, IdleKnows DEF AmendInvalidateFinal, Done
<1>4. CASE AmendSaveCandidate(p) \/ AmendSaveCurrent(p) \/ AmendSaveReport(p) \/ AmendSaveRisks(p)
  <2>1. /\ pc[p] \in WithCandidate /\ cand'[p] = cand[p]
        /\ pc'[p] \in {"a_current", "a_report", "a_risks", "a_final"}
    BY <1>1, <1>4 DEF AmendSaveCandidate, AmendSaveCurrent, AmendSaveReport, AmendSaveRisks,
       TypeOK, WithCandidate
  <2>2. QED BY <1>1, <2>1 DEF Local, WithCandidate, Confirming, Exporting
<1>5. QED BY <1>2, <1>3, <1>4 DEF Amend

LEMMA ConfirmKnows ==
  ASSUME IInv, NEW p \in Procs, Confirm(p)
  PROVE  Local(p)'
<1> USE DEF Goto, locals, files
<1>1. TypeOK /\ Local(p)
  BY DEF IInv
<1>2. CASE ConfirmStart(p)
  BY <1>1, <1>2 DEF ConfirmStart, TypeOK, Local, WithCandidate, Confirming, Exporting
<1>3. CASE ConfirmValidation(p)
  <2>1. /\ pc[p] \in WithCandidate /\ cand'[p] = cand[p] /\ pc'[p] = "c_risk"
        /\ [id |-> cand[p], valid |-> TRUE] \in reports'
    BY <1>1, <1>3 DEF ConfirmValidation, TypeOK, WithCandidate
  <2>2. QED BY <1>1, <2>1 DEF Local, WithCandidate, Confirming, Exporting
<1>4. ASSUME NEW checked \in SUBSET RiskItems, ConfirmRisk(p, checked) PROVE Local(p)'
  <2> DEFINE f == [revision |-> cand[p].revision, text |-> Text(cand[p].print),
                   report |-> cand[p],
                   review |-> [revision |-> cand[p].revision, report |-> cand[p],
                               checked |-> checked]]
  <2>1. cand[p] \in Candidates /\ [id |-> cand[p], valid |-> TRUE] \in reports
    BY <1>1, <1>4 DEF ConfirmRisk, Local, WithCandidate
  <2>2. Validated(f)
    BY <2>1, AnswerType DEF Validated
  <2>3. /\ answer'[p] = f /\ cand'[p] = cand[p] /\ pc'[p] = "c_save_risk"
        /\ reports' = reports
    BY <1>1, <1>4 DEF ConfirmRisk, TypeOK
  <2> HIDE DEF f
  <2>4. QED BY <2>1, <2>2, <2>3 DEF Local, Validated, WithCandidate, Confirming, Exporting
<1>5. CASE ConfirmSaveRisk(p)
  <2>1. /\ pc[p] \in WithCandidate /\ pc[p] \in Confirming /\ pc'[p] = "c_review"
        /\ cand'[p] = cand[p] /\ answer'[p] = answer[p] /\ reports' = reports
    BY <1>1, <1>5 DEF ConfirmSaveRisk, TypeOK, WithCandidate, Confirming
  <2>2. QED BY <1>1, <2>1 DEF Local, Validated, WithCandidate, Confirming, Exporting
<1>6. CASE ConfirmSaveReview(p)
  <2>1. /\ pc[p] \in WithCandidate /\ pc[p] \in Confirming /\ pc'[p] = "c_final"
        /\ cand'[p] = cand[p] /\ answer'[p] = answer[p] /\ reports' = reports
        /\ answer[p].review \in reviews'
    BY <1>1, <1>6 DEF ConfirmSaveReview, TypeOK, WithCandidate, Confirming
  <2>2. QED BY <1>1, <2>1 DEF Local, Validated, WithCandidate, Confirming, Exporting
<1>7. CASE ConfirmSaveFinal(p)
  BY <1>1, <1>7, IdleKnows DEF ConfirmSaveFinal, Done
<1>8. QED BY <1>2, <1>3, <1>4, <1>5, <1>6, <1>7 DEF Confirm

LEMMA ExportKnows ==
  ASSUME IInv, NEW p \in Procs, Export(p)
  PROVE  Local(p)'
<1> USE DEF Goto, locals, files
<1>1. TypeOK /\ Local(p)
  BY DEF IInv
<1>2. CASE ExportStart(p)
  <2>1. final \in Finals /\ Reviewed(final)
    BY <1>1, <1>2 DEF ExportStart, IInv, TypeOK, FinalWasReviewed
  <2>2. Validated(final) /\ final.review \in reviews
    BY <2>1 DEF Validated, Reviewed
  <2>3. /\ answer'[p] = final /\ pc'[p] = "e_current"
        /\ reports' = reports /\ reviews' = reviews
    BY <1>1, <1>2 DEF ExportStart, TypeOK
  <2>4. QED BY <2>2, <2>3 DEF Local, Validated, WithCandidate, Confirming, Exporting
<1>3. CASE ExportCurrent(p) \/ ExportRisk(p)
  <2>1. /\ pc[p] \in Exporting /\ pc'[p] \in {"e_risk", "e_write"}
        /\ cand'[p] \in Candidates
        /\ answer'[p] = answer[p] /\ reports' = reports /\ reviews' = reviews
    BY <1>1, <1>3 DEF ExportCurrent, ExportRisk, TypeOK, Local, WithCandidate, Exporting
  <2>2. QED BY <1>1, <2>1 DEF Local, Validated, WithCandidate, Confirming, Exporting
<1>4. CASE ExportWrite(p)
  BY <1>1, <1>4, IdleKnows DEF ExportWrite, Done
<1>5. QED BY <1>2, <1>3, <1>4 DEF Export

LEMMA StepKnows ==
  ASSUME IInv, [Next]_vars, NEW o \in Procs
  PROVE  Local(o)'
<1>1. TypeOK /\ Local(o)
  BY DEF IInv
<1>2. reports \subseteq reports' /\ reviews \subseteq reviews'
  BY RecordsGrow
<1>3. CASE Import \/ DeleteConfirmation \/ UNCHANGED vars
  <2>1. Stays(o)
    BY <1>3 DEF Import, DeleteConfirmation, vars, locals, Stays
  <2>2. QED BY <1>1, <1>2, <2>1, KnowledgeSurvives
<1>4. ASSUME NEW p \in Procs, Generate(p) \/ Amend(p) \/ Confirm(p) \/ Export(p) \/ Crash(p)
      PROVE  Local(o)'
  <2>1. CASE o # p
    <3>1. Stays(o)
      BY <1>1, <1>4, <2>1, OthersStay
    <3>2. QED BY <1>1, <1>2, <3>1, KnowledgeSurvives
  <2>2. CASE o = p
    <3>1. CASE Crash(p)
      <4>1. Local(p)'
        BY <1>1, <3>1, IdleKnows DEF Crash, Done, Goto
      <4>2. QED BY <2>2, <4>1
    <3>2. CASE Generate(p) \/ Amend(p) \/ Confirm(p) \/ Export(p)
      <4>1. Local(p)'
        BY <3>2, GenerateKnows, AmendKnows, ConfirmKnows, ExportKnows
      <4>2. QED BY <2>2, <4>1
    <3>3. QED BY <1>4, <3>1, <3>2
  <2>3. QED BY <2>1, <2>2
<1>5. QED BY <1>3, <1>4 DEF Next

-------------------------------------------------------------------------------
(* A reviewed answer stays reviewed, and a step that saves a final answer  *)
(* or writes a sheet takes the answer of a process that knows it reviewed. *)
LEMMA ReviewedStays ==
  ASSUME reports \subseteq reports', reviews \subseteq reviews'
  PROVE  \A f : Reviewed(f) => Reviewed(f)'
BY DEF Reviewed

LEMMA AnswersComeFrom ==
  ASSUME TypeOK, [Next]_vars
  PROVE  /\ \/ final' \in {final, None}
            \/ \E p \in Procs : pc[p] = "c_final" /\ final' = answer[p]
         /\ \/ exported' = exported
            \/ \E p \in Procs : pc[p] = "e_write" /\ exported' = {answer[p]}
<1> USE DEF files, Goto, Done
<1>1. CASE Import \/ DeleteConfirmation \/ UNCHANGED vars
  BY <1>1 DEF Import, DeleteConfirmation, vars
<1>2. ASSUME NEW p \in Procs, Generate(p)
      PROVE  final' = final /\ exported' = exported
  BY <1>2 DEF Generate, GenerateStart, GenerateReuse, GenerateRead,
     GenerateSaveCandidate, GenerateSaveCurrent, GenerateSaveRisks, GenerateSaveReport
<1>3. ASSUME NEW p \in Procs, Amend(p)
      PROVE  final' \in {final, None} /\ exported' = exported
  BY <1>3 DEF Amend, AmendStart, AmendSaveCandidate, AmendSaveCurrent, AmendSaveReport,
     AmendSaveRisks, AmendInvalidateFinal
<1>4. ASSUME NEW p \in Procs, Confirm(p)
      PROVE  (final' = final \/ (pc[p] = "c_final" /\ final' = answer[p])) /\ exported' = exported
  BY <1>4 DEF Confirm, ConfirmStart, ConfirmValidation, ConfirmRisk, ConfirmSaveRisk,
     ConfirmSaveReview, ConfirmSaveFinal
<1>5. ASSUME NEW p \in Procs, Export(p)
      PROVE  /\ final' = final
             /\ exported' = exported \/ (pc[p] = "e_write" /\ exported' = {answer[p]})
  BY <1>5 DEF Export, ExportStart, ExportCurrent, ExportRisk, ExportWrite
<1>6. ASSUME NEW p \in Procs, Crash(p)
      PROVE  final' = final /\ exported' = exported
  BY <1>6 DEF Crash
<1>7. QED BY <1>1, <1>2, <1>3, <1>4, <1>5, <1>6 DEF Next

LEMMA StepReviewed ==
  ASSUME IInv, [Next]_vars
  PROVE  FinalWasReviewed' /\ ExportedWasReviewed'
<1>1. TypeOK /\ FinalWasReviewed /\ ExportedWasReviewed
  BY DEF IInv
<1>2. reports \subseteq reports' /\ reviews \subseteq reviews'
  BY RecordsGrow
<1>3. \A p \in Procs : pc[p] \in {"c_final", "e_write"} => Reviewed(answer[p])
  BY DEF IInv, Local, Exporting, Validated, Reviewed
<1>4. FinalWasReviewed'
  <2>1. CASE final' \in {final, None}
    BY <1>1, <1>2, <2>1 DEF FinalWasReviewed, Reviewed
  <2>2. ASSUME NEW p \in Procs, pc[p] = "c_final", final' = answer[p]
        PROVE  FinalWasReviewed'
    BY <1>2, <1>3, <2>2 DEF FinalWasReviewed, Reviewed
  <2>3. QED BY <1>1, <2>1, <2>2, AnswersComeFrom
<1>5. ExportedWasReviewed'
  <2>1. CASE exported' = exported
    BY <1>1, <1>2, <2>1, ReviewedStays DEF ExportedWasReviewed
  <2>2. ASSUME NEW p \in Procs, pc[p] = "e_write", exported' = {answer[p]}
        PROVE  ExportedWasReviewed'
    BY <1>2, <1>3, <2>2 DEF ExportedWasReviewed, Reviewed
  <2>3. QED BY <1>1, <2>1, <2>2, AnswersComeFrom
<1>6. QED BY <1>4, <1>5

-------------------------------------------------------------------------------
LEMMA InitInv == Init => IInv
BY DEF Init, IInv, TypeOK, Steps, Honest, Local, WithCandidate, Confirming, Exporting,
   FinalWasReviewed, ExportedWasReviewed

(* What every process knows of the answer it carries, with the honesty of  *)
(* the reports, is the inductive invariant of the steps in any order.      *)
THEOREM KnowledgeHolds == Spec => []IInv
<1>1. IInv /\ [Next]_vars => IInv'
  BY StepType, RecordsGrow, StepKnows, StepReviewed DEF IInv, Honest
<1>2. QED BY InitInv, <1>1, PTL DEF Spec

(* Every save of every handler, and every crash, leaves well-formed files. *)
THEOREM TypeCorrect == Spec => []TypeOK
<1>1. IInv => TypeOK
  BY DEF IInv
<1>2. QED BY KnowledgeHolds, <1>1, PTL

(* In any interleaving of any number of processes, the final answer on     *)
(* disk was confirmed by a stored review of the candidate it is the text   *)
(* of, after a stored passing report of that candidate.                    *)
THEOREM FinalsReviewed == Spec => []FinalWasReviewed
<1>1. IInv => FinalWasReviewed
  BY DEF IInv
<1>2. QED BY KnowledgeHolds, <1>1, PTL

(* The same of every exported answer, although export reads the records    *)
(* one by one while the others write them.                                 *)
THEOREM ExportsReviewed == Spec => []ExportedWasReviewed
<1>1. IInv => ExportedWasReviewed
  BY DEF IInv
<1>2. QED BY KnowledgeHolds, <1>1, PTL

(* The exported text is the one the rules render for the wording of its    *)
(* candidate: a stored passing report can only be of such a text.          *)
THEOREM ExportsRendered == Spec => []ExportedIsRendered
<1>1. IInv => ExportedIsRendered
  <2>1. ASSUME IInv, NEW f \in exported
        PROVE  f.text = Outcome[f.report.print.source].text
    <3>1. Reviewed(f) /\ Honest(reports)
      BY <2>1 DEF IInv, ExportedWasReviewed
    <3>2. [id |-> f.report, valid |-> TRUE] = Report(f.report)
      BY <3>1 DEF Reviewed, Honest
    <3>3. Valid(f.report)
      BY <3>2 DEF Report
    <3>4. QED BY <3>1, <3>3 DEF Valid, Reviewed
  <2>2. QED BY <2>1 DEF ExportedIsRendered
<1>2. QED BY KnowledgeHolds, <1>1, PTL

(* No interleaving replaces a stored report or review by another one.      *)
THEOREM ReportsNeverChange == Spec => ReportsImmutable
<1>1. IInv /\ [Next]_vars => [reports \subseteq reports' /\ reviews \subseteq reviews']_vars
  BY RecordsGrow
<1>2. QED BY KnowledgeHolds, <1>1, PTL DEF Spec, ReportsImmutable

-------------------------------------------------------------------------------
(* The handlers implement CertifiedAnswers. *)
TakenAll == [p \in Procs |-> Taken(p)]

Promised == <<current, Certified, final, TakenAll, exported>>

LEMMA CertifiedGrows ==
  ASSUME reports \subseteq reports', reviews \subseteq reviews'
  PROVE  Certified \subseteq Certified'
BY DEF Certified

LEMMA KnownIsCertified ==
  ASSUME NEW f, Validated(f), f.review \in reviews
  PROVE  f \in Certified
<1> DEFINE v == f.review
<1>1. f = [revision |-> f.revision, text |-> f.text, report |-> f.report, review |-> v]
  BY DEF Validated, Finals
<1>2. /\ f.revision = v.revision /\ f.report = v.report
      /\ f.text = Text(v.report.print) /\ [id |-> v.report, valid |-> TRUE] \in reports
  BY DEF Validated
<1> HIDE DEF v
<1>3. f = [revision |-> v.revision, text |-> Text(v.report.print), report |-> v.report, review |-> v]
  BY <1>1, <1>2
<1>4. v \in reviews
  BY DEF v
<1>5. QED BY <1>2, <1>3, <1>4 DEF Certified

(* A step of one process changes only what that process has taken. *)
LEMMA TakenByOne ==
  ASSUME NEW p \in Procs, \A o \in Procs \ {p} : Stays(o)
  PROVE  TakenAll' = [TakenAll EXCEPT ![p] = Taken(p)']
<1>1. \A o \in Procs \ {p} : Taken(o)' = Taken(o)
  BY DEF Stays, Taken
<1>2. QED BY <1>1 DEF TakenAll

LEMMA NothingTaken ==
  ASSUME NEW p \in Procs, pc[p] \notin Exporting, pc'[p] \notin Exporting,
         \A o \in Procs \ {p} : Stays(o)
  PROVE  TakenAll' = TakenAll
<1>1. Taken(p)' = Taken(p)
  BY DEF Taken, Exporting
<1>2. TakenAll' = [TakenAll EXCEPT ![p] = Taken(p)]
  BY <1>1, TakenByOne
<1>3. TakenAll = [o \in Procs |-> Taken(o)]
  BY DEF TakenAll
<1>4. QED BY <1>2, <1>3

(* Outside of exports a step saves at most one of the current candidate,   *)
(* the final answer, and a report or review.                               *)
LEMMA SavesOne ==
  ASSUME TypeOK, NEW p \in Procs, Generate(p) \/ Amend(p) \/ Confirm(p)
  PROVE  /\ pc[p] \notin Exporting /\ pc'[p] \notin Exporting /\ exported' = exported
         /\ \/ UNCHANGED <<current, final>>
            \/ UNCHANGED <<final, reports, reviews>>
            \/ UNCHANGED <<current, reports, reviews>> /\ final' = None
            \/ /\ UNCHANGED <<current, reports, reviews>>
               /\ pc[p] = "c_final" /\ final' = answer[p]
<1> USE DEF files, locals, Goto, Done, TypeOK, Exporting
<1>1. CASE Generate(p)
  BY <1>1 DEF Generate, GenerateStart, GenerateReuse, GenerateRead,
     GenerateSaveCandidate, GenerateSaveCurrent, GenerateSaveRisks, GenerateSaveReport
<1>2. CASE Amend(p)
  BY <1>2 DEF Amend, AmendStart, AmendSaveCandidate, AmendSaveCurrent, AmendSaveReport,
     AmendSaveRisks, AmendInvalidateFinal
<1>3. CASE Confirm(p)
  BY <1>3 DEF Confirm, ConfirmStart, ConfirmValidation, ConfirmRisk, ConfirmSaveRisk,
     ConfirmSaveReview, ConfirmSaveFinal
<1>4. QED BY <1>1, <1>2, <1>3

LEMMA WorkRefines ==
  ASSUME IInv, NEW p \in Procs, Generate(p) \/ Amend(p) \/ Confirm(p)
  PROVE  Abstract!Next \/ UNCHANGED Promised
<1>1. \A o \in Procs \ {p} : Stays(o)
  BY OthersStay DEF IInv
<1>2. TakenAll' = TakenAll /\ exported' = exported
  BY <1>1, SavesOne, NothingTaken DEF IInv
<1>3. reports \subseteq reports' /\ reviews \subseteq reviews'
  BY RecordsGrow DEF Next
<1>4. CASE UNCHANGED <<current, final>>
  <2>1. Abstract!Certify
    BY <1>2, <1>3, <1>4, CertifiedGrows DEF Abstract!Certify, TakenAll
  <2>2. QED BY <2>1 DEF Abstract!Next
<1>5. CASE UNCHANGED <<final, reports, reviews>>
  <2>1. Certified' = Certified
    BY <1>5 DEF Certified
  <2>2. CASE current' = current
    BY <1>2, <1>5, <2>1, <2>2 DEF Promised
  <2>3. CASE current' # current
    <3>1. Abstract!Redraft
      BY <1>2, <1>5, <2>1, <2>3 DEF Abstract!Redraft, TakenAll
    <3>2. QED BY <3>1 DEF Abstract!Next
  <2>4. QED BY <2>2, <2>3
<1>6. CASE UNCHANGED <<current, reports, reviews>> /\ final' = None
  <2>1. Certified' = Certified
    BY <1>6 DEF Certified
  <2>2. Abstract!Withdraw
    BY <1>2, <1>6, <2>1 DEF Abstract!Withdraw, TakenAll
  <2>3. QED BY <2>2 DEF Abstract!Next
<1>7. CASE UNCHANGED <<current, reports, reviews>> /\ pc[p] = "c_final" /\ final' = answer[p]
  <2>1. Certified' = Certified
    BY <1>7 DEF Certified
  <2>2. Validated(answer[p]) /\ answer[p].review \in reviews
    BY <1>7 DEF IInv, Local
  <2>3. final' \in Certified
    BY <1>7, <2>2, KnownIsCertified
  <2>4. Abstract!Declare
    BY <1>2, <1>7, <2>1, <2>3 DEF Abstract!Declare, TakenAll
  <2>5. QED BY <2>4 DEF Abstract!Next
<1>8. QED BY <1>4, <1>5, <1>6, <1>7, SavesOne DEF IInv

LEMMA ExportTakes ==
  ASSUME IInv, NEW p \in Procs, Export(p) \/ Crash(p)
  PROVE  Abstract!Next \/ UNCHANGED Promised
<1>1. \A o \in Procs \ {p} : Stays(o)
  BY OthersStay DEF IInv
<1>2. TakenAll' = [TakenAll EXCEPT ![p] = Taken(p)'] /\ TakenAll[p] = Taken(p)
  BY <1>1, TakenByOne DEF TakenAll
<1>3. TypeOK /\ Local(p)
  BY DEF IInv
<1>4. UNCHANGED <<current, reports, reviews, final>>
  BY DEF Export, ExportStart, ExportCurrent, ExportRisk, ExportWrite, Crash, files
<1>5. Certified' = Certified
  BY <1>4 DEF Certified
<1> USE DEF Abstract!Nothing
<1>6. CASE ExportStart(p)
  <2>1. /\ pc[p] = "idle" /\ pc'[p] = "e_current" /\ answer'[p] = final
        /\ final # None /\ exported = {} /\ exported' = exported
    BY <1>3, <1>6 DEF ExportStart, Goto, TypeOK, files
  <2>2. Taken(p) = Abstract!Nothing /\ Taken(p)' = [answer |-> final, agreed |-> FALSE]
    BY <2>1 DEF Taken
  <2>3. Abstract!Take(p)
    BY <1>2, <1>4, <1>5, <2>1, <2>2 DEF Abstract!Take, TakenAll
  <2>4. QED BY <2>3 DEF Abstract!Next
<1>7. CASE ExportCurrent(p)
  <2>1. /\ pc[p] = "e_current" /\ pc'[p] = "e_risk" /\ answer'[p] = answer[p]
        /\ cand'[p] = current /\ exported' = exported
    BY <1>3, <1>7 DEF ExportCurrent, Goto, TypeOK, files
  <2>2. answer[p] # None
    BY <1>3, <2>1, NoneAssumption DEF Local, Exporting, Validated
  <2>3. /\ Taken(p) = [answer |-> answer[p], agreed |-> FALSE]
        /\ Taken(p)' = [answer |-> answer[p], agreed |-> answer[p].report = current]
    BY <2>1 DEF Taken
  <2>4. TakenAll[p].answer = answer[p]
    BY <1>2, <2>3
  <2>5. /\ TakenAll[p].answer # None
        /\ TakenAll' = [TakenAll EXCEPT ![p] = [answer |-> TakenAll[p].answer,
                                               agreed |-> TakenAll[p].answer.report = current]]
        /\ UNCHANGED <<current, Certified, final, exported>>
    BY <1>2, <1>4, <1>5, <2>1, <2>2, <2>3, <2>4
  <2>6. Abstract!Compare(p)
    BY <2>5 DEF Abstract!Compare, TakenAll
  <2>7. QED BY <2>6 DEF Abstract!Next
<1>8. CASE ExportRisk(p)
  <2>1. /\ pc[p] = "e_risk" /\ pc'[p] = "e_write" /\ answer'[p] = answer[p]
        /\ cand'[p] = cand[p] /\ exported' = exported
    BY <1>3, <1>8 DEF ExportRisk, Goto, TypeOK, files
  <2>2. Taken(p)' = Taken(p)
    BY <2>1 DEF Taken
  <2>3. TakenAll' = TakenAll
    BY <1>2, <2>2 DEF TakenAll
  <2>4. QED BY <1>4, <1>5, <2>1, <2>3 DEF Promised
<1>9. CASE ExportWrite(p)
  <2>1. /\ pc[p] = "e_write" /\ pc'[p] = "idle" /\ exported = {} /\ exported' = {answer[p]}
        /\ answer[p].report = cand[p]
    BY <1>3, <1>9 DEF ExportWrite, Passes, Done, Goto, TypeOK
  <2>2. /\ Taken(p) = [answer |-> answer[p], agreed |-> TRUE]
        /\ Taken(p)' = Abstract!Nothing
    BY <2>1 DEF Taken
  <2>3. Abstract!Publish(p)
    BY <1>2, <1>4, <1>5, <2>1, <2>2 DEF Abstract!Publish, TakenAll
  <2>4. QED BY <2>3 DEF Abstract!Next
<1>10. CASE Crash(p)
  <2>1. pc'[p] = "idle" /\ exported' = exported
    BY <1>3, <1>10 DEF Crash, Done, Goto, TypeOK, files
  <2>2. Taken(p)' = Abstract!Nothing
    BY <2>1 DEF Taken
  <2>3. Abstract!Release(p)
    BY <1>2, <1>4, <1>5, <2>1, <2>2 DEF Abstract!Release, TakenAll
  <2>4. QED BY <2>3 DEF Abstract!Next
<1>11. QED BY <1>6, <1>7, <1>8, <1>9, <1>10 DEF Export

(* Any number of handlers, interleaved at every file and dying anywhere,   *)
(* implement CertifiedAnswers: the sheet has an answer that was certified  *)
(* and stood when its export began, and was the current candidate's at a   *)
(* moment of that export, whatever the others saved meanwhile.             *)
THEOREM RefinesCertifiedAnswers == Spec => ImplementsCertifiedAnswers
<1>1. Init => Abstract!Init
  <2> SUFFICES ASSUME Init PROVE Abstract!Init
    OBVIOUS
  <2>1. Certified = {}
    BY DEF Init, Certified
  <2>2. \A p \in Procs : Taken(p) = Abstract!Nothing
    BY DEF Init, Taken, Abstract!Nothing
  <2>3. QED BY <2>1, <2>2 DEF Init, Abstract!Init
<1>2. IInv /\ [Next]_vars => [Abstract!Next]_Promised
  <2> SUFFICES ASSUME IInv, [Next]_vars PROVE Abstract!Next \/ UNCHANGED Promised
    OBVIOUS
  <2>1. CASE Import \/ UNCHANGED vars
    <3>1. /\ UNCHANGED <<current, reports, reviews, final, exported>>
          /\ UNCHANGED <<pc, cand, answer>>
      BY <2>1 DEF Import, vars, files, locals
    <3>2. QED BY <3>1 DEF Promised, Certified, TakenAll, Taken
  <2>2. CASE DeleteConfirmation
    <3>1. /\ UNCHANGED <<current, reports, reviews, exported>> /\ final' = None
          /\ UNCHANGED <<pc, cand, answer>>
      BY <2>2 DEF DeleteConfirmation, locals
    <3>2. Abstract!Withdraw
      BY <3>1 DEF Abstract!Withdraw, Certified, Taken
    <3>3. QED BY <3>2 DEF Abstract!Next
  <2>3. ASSUME NEW p \in Procs, Generate(p) \/ Amend(p) \/ Confirm(p) \/ Export(p) \/ Crash(p)
        PROVE  Abstract!Next \/ UNCHANGED Promised
    BY <2>3, WorkRefines, ExportTakes
  <2>4. QED BY <2>1, <2>2, <2>3 DEF Next
<1>3. QED BY <1>1, <1>2, KnowledgeHolds, PTL
         DEF Spec, ImplementsCertifiedAnswers, Abstract!Spec, Promised, TakenAll
===============================================================================
