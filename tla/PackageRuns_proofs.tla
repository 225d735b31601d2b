-------------------------- MODULE PackageRuns_proofs --------------------------
(***************************************************************************)
(* PackageRuns keeps its promises for any number of processes, questions   *)
(* and packages.  The inductive invariant has four parts: what the files   *)
(* hold, what each process carries, that the sheets are complete, and, as  *)
(* long as nothing was mixed, who may be at work on which run.             *)
(***************************************************************************)
EXTENDS PackageRuns, TLAPS

Accepted(d)  == d \in Documents /\ ImportFindings(d) = {}
FromImport(k) == \E d \in Documents : Accepted(d) /\ k = Package(d)

FilesFit ==
  /\ package # None => FromImport(package)
  /\ state # None /\ state.job # None => state.job \in jobs
  /\ \A q \in Ids : final[q] # None => final[q].confirmation <= confirmed[q]

Generates(p) == pc[p] \in {"g_items", "g_load", "g_state"}
Exports(p)   == pc[p] \in {"e_unknown", "e_read", "e_reload", "e_write"}

(* What process p carries at its step. *)
ProcFits(p) ==
  /\ pc[p] = "i_state" => Accepted(doc[p])
  /\ Generates(p) => job[p] \in Jobs
  /\ pc[p] \in {"g_load", "g_state"} => job[p] \in jobs
  /\ pc[p] = "g_state" => held[p] \in States
  /\ Exports(p) => /\ path[p] \in OutputPaths
                   /\ FromImport(pkg[p])
                   /\ package # None
  /\ \A i \in DOMAIN read[p] :
       read[p][i].confirmation <= confirmed[read[p][i].question]

(* Nothing mixed: one import at work has written package.json and nobody   *)
(* else generates; without one, state.json and every generation are of the *)
(* run of package.json.                                                    *)
RunsFit ==
  ~ mixed =>
    /\ \A p, r \in Importing : p = r
    /\ \A p \in Importing : package = Package(doc[p])
    /\ Importing # {} => Generating = {}
    /\ Importing = {} /\ package # None =>
         /\ state # None
         /\ state.run = package.run
         /\ state.job # None => state.job.run = package.run
    /\ \A p \in Generating : /\ package # None
                             /\ job[p].run = package.run
                             /\ pc[p] = "g_state" => held[p].run = package.run

IInv ==
  /\ TypeOK
  /\ FilesFit
  /\ \A p \in Procs : ProcFits(p)
  /\ SheetsComplete
  /\ RunsFit

-------------------------------------------------------------------------------
(* What import_package lets through is what CompetitionPackage accepts,    *)
(* whatever the documents say.                                             *)
LEMMA AcceptedIsValid ==
  ASSUME NEW d \in Documents, Accepted(d)
  PROVE  ValidIdentity(Package(d))
<1>1. /\ d.questions \in Seq(Ids) /\ d.template \in Seq(Ids)
      /\ ImportFindings(d) = {}
  BY DocumentsAssumption DEF Accepted
<1>2. d.questions # <<>> /\ d.template # <<>>
  <2>1. /\ "EMPTY_QUESTIONS" \notin ImportFindings(d)
        /\ "EMPTY_TEMPLATE" \notin ImportFindings(d)
    BY <1>1
  <2>2. QED  BY <2>1 DEF ImportFindings
<1>3. Elements(d.questions) = Elements(d.template)
  <2>1. /\ "MISSING_TEMPLATE_IDS" \notin ImportFindings(d)
        /\ "UNKNOWN_TEMPLATE_IDS" \notin ImportFindings(d)
    BY <1>1
  <2>2. /\ Elements(d.questions) \ Elements(d.template) = {}
        /\ Elements(d.template) \ Elements(d.questions) = {}
    BY <2>1 DEF ImportFindings
  <2>3. QED  BY <2>2
<1>4. \A i, j \in DOMAIN d.questions : d.questions[i] = d.questions[j] => i = j
  <2>1. Duplicates(d.questions) = {}
    <3>1. "DUPLICATE_QUESTION_IDS" \notin ImportFindings(d)  BY <1>1
    <3>2. QED  BY <3>1 DEF ImportFindings
  <2>2. \A i, j \in DOMAIN d.questions : i < j => d.questions[i] # d.questions[j]
    BY <2>1 DEF Duplicates
  <2>3. \A i \in DOMAIN d.questions : i \in Nat  BY <1>1
  <2>4. QED  BY <2>2, <2>3
<1>5. QED  BY <1>2, <1>3, <1>4 DEF ValidIdentity, Package

LEMMA InitIInv == Init => IInv
<1> SUFFICES ASSUME Init PROVE IInv
  OBVIOUS
<1>1. TypeOK
  <2>1. <<>> \in Seq(Answers)  OBVIOUS
  <2>2. QED  BY <2>1 DEF Init, TypeOK, Steps
<1>2. FilesFit  BY DEF Init, FilesFit
<1>3. \A p \in Procs : ProcFits(p)
  <2>1. \A i : i \notin DOMAIN <<>>  OBVIOUS
  <2>2. QED  BY <2>1 DEF Init, ProcFits, Generates, Exports
<1>4. SheetsComplete  BY DEF Init, SheetsComplete
<1>5. RunsFit  BY DEF Init, RunsFit, Importing, Generating
<1>6. QED  BY <1>1, <1>2, <1>3, <1>4, <1>5 DEF IInv

-------------------------------------------------------------------------------
(* Every step keeps the types. *)
LEMMA DoneType ==
  ASSUME TypeOK, NEW p \in Procs, NEW a, Done(p, a)
  PROVE  /\ pc' \in [Procs -> Steps]
         /\ doc' \in [Procs -> Documents \cup {None}]
         /\ job' \in [Procs -> Jobs \cup {None}]
         /\ held' \in [Procs -> States \cup {None}]
         /\ pkg' \in [Procs -> PackageFiles \cup {None}]
         /\ read' \in [Procs -> Seq(Answers)]
         /\ path' \in [Procs -> OutputPaths \cup {None}]
<1>1. <<>> \in Seq(Answers)  OBVIOUS
<1>2. QED  BY <1>1 DEF TypeOK, Done, Goto, Steps

LEMMA AbortType ==
  ASSUME TypeOK, NEW p \in Procs, Abort(p)
  PROVE  TypeOK'
<1>1. mixed' \in BOOLEAN  BY DEF Abort
<1>2. QED  BY <1>1, DoneType DEF TypeOK, Abort, files

LEMMA ImportType ==
  ASSUME TypeOK, NEW p \in Procs, ProcFits(p), Import(p)
  PROVE  TypeOK'
<1>1. ASSUME NEW d \in Documents, ImportPackage(p, d) PROVE TypeOK'
  <2>1. mixed' \in BOOLEAN /\ Package(d) \in PackageFiles
    BY <1>1 DEF ImportPackage, PackageFiles
  <2>2. QED  BY <1>1, <2>1 DEF TypeOK, ImportPackage, Goto, Steps
<1>2. ASSUME ImportState(p) PROVE TypeOK'
  <2>1. mixed' \in BOOLEAN  BY <1>2 DEF ImportState
  <2>2. [run |-> doc[p], job |-> None] \in States
    BY <1>2 DEF ImportState, Done, Goto, ProcFits, Accepted, States
  <2>3. Done(p, "i_state")  BY <1>2 DEF ImportState
  <2>4. QED  BY <1>2, <2>1, <2>2, <2>3, DoneType DEF TypeOK, ImportState
<1>3. QED  BY <1>1, <1>2 DEF Import

LEMMA GenerateType ==
  ASSUME TypeOK, FilesFit, NEW p \in Procs, ProcFits(p), Generate(p)
  PROVE  TypeOK'
<1>1. ASSUME GenerateStart(p) PROVE TypeOK'
  <2>1. PICK s \in Selections(package) :
          job' = [job EXCEPT ![p] = [run |-> package.run, selection |-> s]]
    BY <1>1 DEF GenerateStart
  <2>2. PICK d \in Documents : package = Package(d)
    BY <1>1 DEF GenerateStart, FilesFit, FromImport
  <2>3. package.run = d /\ package.questions = d.questions /\ d.questions \in Seq(Ids)
    BY <2>2, DocumentsAssumption DEF Package
  <2>4. \A q \in Elements(d.questions) : q \in Ids  BY <2>3 DEF Elements
  <2>5. s \in Seq(Ids)
    <3>1. \A q \in Ids : <<q>> \in Seq(Ids)  OBVIOUS
    <3>2. s = d.questions \/ \E q \in Elements(d.questions) : s = <<q>>
      BY <2>1, <2>3 DEF Selections
    <3>3. QED  BY <2>3, <2>4, <3>1, <3>2
  <2>6. [run |-> package.run, selection |-> s] \in Jobs  BY <2>3, <2>5 DEF Jobs
  <2>7. mixed' \in BOOLEAN  BY <1>1 DEF GenerateStart
  <2>8. QED  BY <1>1, <2>1, <2>6, <2>7 DEF TypeOK, GenerateStart, Goto, Steps, files
<1>2. ASSUME GenerateItem(p) PROVE TypeOK'
  <2>1. PICK q \in Elements(job[p].selection) :
          /\ final[q] # None
          /\ final' = [final EXCEPT ![q] = [confirmation |-> final[q].confirmation, passing |-> FALSE]]
    BY <1>2 DEF GenerateItem
  <2>2. job[p] \in Jobs  BY <1>2 DEF GenerateItem, ProcFits, Generates
  <2>3. q \in Ids  BY <2>1, <2>2 DEF Jobs, Elements
  <2>4. final[q] \in Finals  BY <2>1, <2>3 DEF TypeOK
  <2>5. [confirmation |-> final[q].confirmation, passing |-> FALSE] \in Finals
    BY <2>4 DEF Finals
  <2>6. QED  BY <1>2, <2>1, <2>3, <2>5 DEF TypeOK, GenerateItem, locals
<1>3. ASSUME GenerateSaveJob(p) PROVE TypeOK'
  <2>1. job[p] \in Jobs  BY <1>3 DEF GenerateSaveJob, Goto, ProcFits, Generates
  <2>2. QED  BY <1>3, <2>1 DEF TypeOK, GenerateSaveJob, Goto, Steps, locals
<1>4. ASSUME GenerateLoadState(p) PROVE TypeOK'
  BY <1>4 DEF TypeOK, GenerateLoadState, Goto, Steps, files
<1>5. ASSUME GenerateSaveState(p) PROVE TypeOK'
  <2>1. job[p] \in Jobs /\ held[p] \in States
    BY <1>5 DEF GenerateSaveState, Done, Goto, ProcFits, Generates
  <2>2. [run |-> held[p].run, job |-> job[p]] \in States  BY <2>1 DEF States
  <2>3. Done(p, "g_state")  BY <1>5 DEF GenerateSaveState
  <2>4. QED  BY <1>5, <2>2, <2>3, DoneType DEF TypeOK, GenerateSaveState
<1>6. QED  BY <1>1, <1>2, <1>3, <1>4, <1>5 DEF Generate

LEMMA AnswerType ==
  ASSUME TypeOK, NEW q \in Ids, Confirm(q) \/ Invalidate(q)
  PROVE  TypeOK'
<1>1. CASE Confirm(q)
  <2>1. confirmed[q] \in Nat  BY DEF TypeOK
  <2>2. [confirmation |-> NextConfirmation(q), passing |-> TRUE] \in Finals
    BY <2>1 DEF Finals, NextConfirmation
  <2>3. confirmed[q] + 1 \in Nat  BY <2>1
  <2>4. QED  BY <1>1, <2>2, <2>3 DEF TypeOK, Confirm, locals
<1>2. CASE Invalidate(q)
  BY <1>2 DEF TypeOK, Invalidate, locals
<1>3. QED  BY <1>1, <1>2

(* The rows of a sheet: every id of the package has an answer of its own.  *)
LEMMA RowsType ==
  ASSUME TypeOK, NEW p \in Procs, NEW d \in Documents, pkg[p] = Package(d),
         \A q \in Elements(pkg[p].order) : \E a \in Elements(read[p]) : a.question = q
  PROVE  /\ SheetRows(p) \in Seq(Answers)
         /\ DOMAIN SheetRows(p) = DOMAIN d.questions
         /\ \A i \in DOMAIN d.questions :
              /\ SheetRows(p)[i] \in Elements(read[p])
              /\ SheetRows(p)[i].question = d.questions[i]
<1>1. pkg[p].order = d.questions /\ d.questions \in Seq(Ids)
  BY DocumentsAssumption DEF Package
<1>2. \A a \in Elements(read[p]) : a \in Answers
  <2>1. read[p] \in Seq(Answers)  BY DEF TypeOK
  <2>2. QED  BY <2>1 DEF Elements
<1>3. \A q \in Elements(d.questions) :
        AnswerOf(p, q) \in Elements(read[p]) /\ AnswerOf(p, q).question = q
  BY <1>1 DEF AnswerOf
<1>4. \A i \in DOMAIN d.questions : d.questions[i] \in Elements(d.questions)
  BY DEF Elements
<1>5. SheetRows(p) = [i \in DOMAIN d.questions |-> AnswerOf(p, d.questions[i])]
  BY <1>1 DEF SheetRows
<1>6. DOMAIN d.questions = 1..Len(d.questions) /\ Len(d.questions) \in Nat
  BY <1>1
<1>7. SheetRows(p) \in [1..Len(d.questions) -> Answers]
  BY <1>2, <1>3, <1>4, <1>5, <1>6
<1>8. SheetRows(p) \in Seq(Answers)  BY <1>6, <1>7
<1>9. QED  BY <1>3, <1>4, <1>5, <1>8

LEMMA ExportType ==
  ASSUME TypeOK, NEW p \in Procs, ProcFits(p), Export(p)
  PROVE  TypeOK'
<1>1. ASSUME ExportStart(p) PROVE TypeOK'
  BY <1>1 DEF TypeOK, ExportStart, Goto, Steps, files
<1>2. ASSUME ExportUnknown(p) \/ ExportPassed(p) PROVE TypeOK'
  BY <1>2 DEF TypeOK, ExportUnknown, ExportPassed, Goto, Steps, files, locals
<1>3. ASSUME ExportRead(p) PROVE TypeOK'
  <2> DEFINE q == pkg[p].questions[Len(read[p]) + 1]
             a == [question |-> q, confirmation |-> final[q].confirmation]
  <2>1. PICK d \in Documents : pkg[p] = Package(d)
    BY <1>3 DEF ExportRead, ProcFits, Exports, FromImport
  <2>2. q \in Ids
    <3>1. pkg[p].questions \in Seq(Ids)  BY <2>1, DocumentsAssumption DEF Package
    <3>2. Len(read[p]) + 1 \in DOMAIN pkg[p].questions  BY <1>3 DEF ExportRead
    <3>3. QED  BY <3>1, <3>2
  <2>3. final[q] \in Finals  BY <1>3, <2>2 DEF TypeOK, ExportRead
  <2>4. a \in Answers  BY <2>2, <2>3 DEF Answers, Finals
  <2>5. read' = [read EXCEPT ![p] = Append(read[p], a)]  BY <1>3 DEF ExportRead
  <2> HIDE DEF a
  <2>6. read' \in [Procs -> Seq(Answers)]
    <3>1. Append(read[p], a) \in Seq(Answers)  BY <2>4 DEF TypeOK
    <3>2. QED  BY <2>5, <3>1 DEF TypeOK
  <2>7. QED  BY <1>3, <2>6 DEF TypeOK, ExportRead, files
<1>4. ASSUME ExportReload(p) PROVE TypeOK'
  BY <1>4 DEF TypeOK, ExportReload, Goto, Steps, files
<1>5. ASSUME ExportWrite(p) PROVE TypeOK'
  <2>1. Done(p, "e_write") /\ Exports(p)
    BY <1>5 DEF ExportWrite, Done, Goto, Exports
  <2>2. PICK d \in Documents : pkg[p] = Package(d)
    BY <2>1 DEF ProcFits, FromImport
  <2>3. SheetRows(p) \in Seq(Answers)  BY <1>5, <2>2, RowsType DEF ExportWrite
  <2>4. path[p] \in OutputPaths /\ pkg[p].package \in PackageIds
    BY <2>1, <2>2, DocumentsAssumption DEF ProcFits, Package
  <2>5. [path |-> path[p], package |-> pkg[p].package, rows |-> SheetRows(p)] \in Sheets
    BY <2>3, <2>4 DEF Sheets
  <2>6. QED  BY <1>5, <2>1, <2>5, DoneType DEF TypeOK, ExportWrite
<1>6. QED  BY <1>1, <1>2, <1>3, <1>4, <1>5 DEF Export

LEMMA StepType ==
  ASSUME IInv, Next
  PROVE  TypeOK'
BY AbortType, ImportType, GenerateType, ExportType, AnswerType DEF IInv, Next

-------------------------------------------------------------------------------
(* No step loses a job file or a confirmation, or removes package.json. *)
LEMMA StepKeeps ==
  ASSUME IInv, Next
  PROVE  /\ jobs \subseteq jobs'
         /\ \A q \in Ids : confirmed[q] <= confirmed'[q]
         /\ package # None => package' # None
<1>0. \A q \in Ids : confirmed[q] \in Nat  BY DEF IInv, TypeOK
<1>1. ASSUME NEW p \in Procs, Import(p)
      PROVE  jobs' = jobs /\ confirmed' = confirmed /\ (package # None => package' # None)
  <2>1. \A d \in Documents : Package(d) # None  BY NoneAssumption DEF PackageFiles
  <2>2. QED  BY <1>1, <2>1 DEF Import, ImportPackage, ImportState
<1>2. ASSUME NEW p \in Procs, Generate(p)
      PROVE  jobs \subseteq jobs' /\ confirmed' = confirmed /\ package' = package
  BY <1>2 DEF Generate, GenerateStart, GenerateItem, GenerateSaveJob, GenerateLoadState,
              GenerateSaveState, files
<1>3. ASSUME NEW p \in Procs, Export(p) \/ Abort(p)
      PROVE  jobs' = jobs /\ confirmed' = confirmed /\ package' = package
  BY <1>3 DEF Export, ExportStart, ExportUnknown, ExportRead, ExportPassed, ExportReload,
              ExportWrite, Abort, files
<1>4. ASSUME NEW q \in Ids, Confirm(q) \/ Invalidate(q)
      PROVE  /\ jobs' = jobs /\ package' = package
             /\ \A r \in Ids : confirmed[r] <= confirmed'[r]
  BY <1>0, <1>4 DEF Confirm, Invalidate, IInv, TypeOK
<1>5. QED  BY <1>0, <1>1, <1>2, <1>3, <1>4 DEF Next

(* A process that did not move still carries what fits its step. *)
LEMMA Stays ==
  ASSUME IInv, Next, NEW r \in Procs,
         pc'[r] = pc[r], doc'[r] = doc[r], job'[r] = job[r], held'[r] = held[r],
         pkg'[r] = pkg[r], read'[r] = read[r], path'[r] = path[r]
  PROVE  ProcFits(r)'
<1>1. ProcFits(r) /\ read[r] \in Seq(Answers)  BY DEF IInv, TypeOK
<1>2. \A i \in DOMAIN read[r] : read[r][i] \in Answers  BY <1>1
<1>3. \A i \in DOMAIN read[r] :
        read'[r][i].confirmation <= confirmed'[read'[r][i].question]
  <2> TAKE i \in DOMAIN read[r]
  <2>1. read[r][i].question \in Ids /\ read[r][i].confirmation \in Nat
    BY <1>2 DEF Answers
  <2>2. read[r][i].confirmation <= confirmed[read[r][i].question]
    BY <1>1 DEF ProcFits
  <2>3. confirmed[read[r][i].question] <= confirmed'[read[r][i].question]
    BY <2>1, StepKeeps
  <2>4. /\ confirmed[read[r][i].question] \in Nat
        /\ confirmed'[read[r][i].question] \in Nat
    BY <2>1, StepType DEF IInv, TypeOK
  <2>5. QED  BY <2>1, <2>2, <2>3, <2>4
<1>4. jobs \subseteq jobs' /\ (package # None => package' # None)  BY StepKeeps
<1>5. Accepted(doc[r])' <=> Accepted(doc[r])  BY DEF Accepted
<1>6. FromImport(pkg[r])' <=> FromImport(pkg[r])  BY DEF FromImport
<1>7. QED  BY <1>1, <1>3, <1>4, <1>5, <1>6 DEF ProcFits, Generates, Exports

LEMMA OthersStay ==
  ASSUME IInv, Next, NEW p \in Procs, NEW r \in Procs, r # p,
         \/ Import(p)
         \/ Generate(p)
         \/ Export(p)
         \/ Abort(p)
  PROVE  /\ ProcFits(r)'
         /\ pc'[r] = pc[r] /\ doc'[r] = doc[r] /\ job'[r] = job[r] /\ held'[r] = held[r]
<1>1. /\ pc'[r] = pc[r] /\ doc'[r] = doc[r] /\ job'[r] = job[r] /\ held'[r] = held[r]
      /\ pkg'[r] = pkg[r] /\ read'[r] = read[r] /\ path'[r] = path[r]
  <2>0. TypeOK  BY DEF IInv
  <2>1. CASE Import(p)
    BY <2>0, <2>1 DEF TypeOK, Import, ImportPackage, ImportState, Done, Goto
  <2>2. CASE Generate(p)
    BY <2>0, <2>2 DEF TypeOK, Generate, GenerateStart, GenerateItem, GenerateSaveJob,
                      GenerateLoadState, GenerateSaveState, Done, Goto, locals
  <2>3. CASE Export(p)
    BY <2>0, <2>3 DEF TypeOK, Export, ExportStart, ExportUnknown, ExportRead, ExportPassed,
                      ExportReload, ExportWrite, Done, Goto, locals
  <2>4. CASE Abort(p)
    BY <2>0, <2>4 DEF TypeOK, Abort, Done, Goto
  <2>5. QED  BY <2>1, <2>2, <2>3, <2>4
<1>2. QED  BY <1>1, Stays

(* A handler that has ended carries nothing. *)
LEMMA DoneFits ==
  ASSUME IInv, NEW p \in Procs, NEW a, Done(p, a)
  PROVE  ProcFits(p)'
<1>1. pc'[p] = "idle" /\ read'[p] = <<>>  BY DEF Done, Goto, IInv, TypeOK
<1>2. \A i : i \notin DOMAIN <<>>  OBVIOUS
<1>3. QED  BY <1>1, <1>2 DEF ProcFits, Generates, Exports

LEMMA ImportFits ==
  ASSUME IInv, Next, NEW p \in Procs, Import(p)
  PROVE  ProcFits(p)'
<1>0. TypeOK /\ ProcFits(p)  BY DEF IInv
<1>1. ASSUME NEW d \in Documents, ImportPackage(p, d) PROVE ProcFits(p)'
  <2>1. pc'[p] = "i_state" /\ doc'[p] = d  BY <1>0, <1>1 DEF TypeOK, ImportPackage, Goto
  <2>2. Accepted(doc'[p])  BY <1>1, <2>1 DEF ImportPackage, Accepted
  <2>3. read' = read /\ confirmed' = confirmed  BY <1>1 DEF ImportPackage
  <2>4. QED  BY <1>0, <2>1, <2>2, <2>3 DEF ProcFits, Generates, Exports, Accepted
<1>2. ASSUME ImportState(p) PROVE ProcFits(p)'
  BY <1>2, DoneFits DEF ImportState
<1>3. QED  BY <1>1, <1>2 DEF Import

LEMMA GenerateFits ==
  ASSUME IInv, Next, NEW p \in Procs, Generate(p)
  PROVE  ProcFits(p)'
<1>0. TypeOK /\ TypeOK' /\ ProcFits(p)  BY StepType DEF IInv
<1>1. ASSUME GenerateStart(p) PROVE ProcFits(p)'
  <2>1. PICK s \in Selections(package) :
          job' = [job EXCEPT ![p] = [run |-> package.run, selection |-> s]]
    BY <1>1 DEF GenerateStart
  <2>2. job'[p] = [run |-> package.run, selection |-> s] /\ pc'[p] = "g_items"
    BY <1>0, <1>1, <2>1 DEF TypeOK, GenerateStart, Goto
  <2>3. PICK d \in Documents : package = Package(d)
    BY <1>1 DEF GenerateStart, IInv, FilesFit, FromImport
  <2>4. package.run = d /\ package.questions = d.questions /\ d.questions \in Seq(Ids)
    BY <2>3, DocumentsAssumption DEF Package
  <2>5. s \in Seq(Ids)
    <3>1. \A q \in Ids : <<q>> \in Seq(Ids)  OBVIOUS
    <3>2. s = d.questions \/ \E q \in Elements(d.questions) : s = <<q>>
      BY <2>1, <2>4 DEF Selections
    <3>3. \A q \in Elements(d.questions) : q \in Ids  BY <2>4 DEF Elements
    <3>4. QED  BY <2>4, <3>1, <3>2, <3>3
  <2>6. job'[p] \in Jobs  BY <2>2, <2>4, <2>5 DEF Jobs
  <2>7. read' = read /\ confirmed' = confirmed  BY <1>1 DEF GenerateStart, files
  <2>8. QED  BY <1>0, <2>2, <2>6, <2>7 DEF ProcFits, Generates, Exports
<1>2. ASSUME GenerateItem(p) PROVE ProcFits(p)'
  BY <1>2, Stays DEF GenerateItem, locals
<1>3. ASSUME GenerateSaveJob(p) PROVE ProcFits(p)'
  BY <1>0, <1>3 DEF TypeOK, GenerateSaveJob, Goto, locals, ProcFits, Generates, Exports
<1>4. ASSUME GenerateLoadState(p) PROVE ProcFits(p)'
  BY <1>0, <1>4 DEF TypeOK, GenerateLoadState, Goto, files, ProcFits, Generates, Exports
<1>5. ASSUME GenerateSaveState(p) PROVE ProcFits(p)'
  BY <1>5, DoneFits DEF IInv, GenerateSaveState
<1>6. QED  BY <1>1, <1>2, <1>3, <1>4, <1>5 DEF Generate

LEMMA ExportFits ==
  ASSUME IInv, Next, NEW p \in Procs, Export(p)
  PROVE  ProcFits(p)'
<1>0. TypeOK /\ TypeOK' /\ ProcFits(p) /\ FilesFit  BY StepType DEF IInv
<1>1. ASSUME ExportStart(p) PROVE ProcFits(p)'
  <2>1. pc'[p] = "e_unknown" /\ pkg'[p] = package /\ path'[p] \in OutputPaths
    BY <1>0, <1>1 DEF TypeOK, ExportStart, Goto
  <2>2. /\ package # None /\ package' = package
        /\ read' = read /\ confirmed' = confirmed
    BY <1>1 DEF ExportStart, files
  <2>3. FromImport(pkg'[p])  BY <1>0, <2>1, <2>2 DEF FilesFit
  <2>4. QED  BY <1>0, <2>1, <2>2, <2>3 DEF ProcFits, Generates, Exports, FromImport, Accepted
<1>2. ASSUME ExportUnknown(p) \/ ExportPassed(p) PROVE ProcFits(p)'
  BY <1>0, <1>2 DEF TypeOK, ExportUnknown, ExportPassed, Goto, files, locals, ProcFits,
                    Generates, Exports, FromImport, Accepted
<1>3. ASSUME ExportRead(p) PROVE ProcFits(p)'
  <2> DEFINE q == pkg[p].questions[Len(read[p]) + 1]
             a == [question |-> q, confirmation |-> final[q].confirmation]
  <2>1. PICK d \in Documents : pkg[p] = Package(d)
    BY <1>0, <1>3 DEF ExportRead, ProcFits, Exports, FromImport
  <2>2. q \in Ids
    <3>1. pkg[p].questions \in Seq(Ids)  BY <2>1, DocumentsAssumption DEF Package
    <3>2. Len(read[p]) + 1 \in DOMAIN pkg[p].questions  BY <1>3 DEF ExportRead
    <3>3. QED  BY <3>1, <3>2
  <2>3. a.question = q /\ a.confirmation = final[q].confirmation  OBVIOUS
  <2>4. a.confirmation <= confirmed[a.question]
    BY <1>0, <1>3, <2>2, <2>3 DEF ExportRead, FilesFit
  <2>5. read'[p] = Append(read[p], a)  BY <1>0, <1>3 DEF TypeOK, ExportRead
  <2> HIDE DEF a
  <2>6. read[p] \in Seq(Answers)  BY <1>0 DEF TypeOK
  <2>7. \A i \in DOMAIN read'[p] :
          read'[p][i].confirmation <= confirmed[read'[p][i].question]
    BY <1>0, <2>4, <2>5, <2>6 DEF ProcFits
  <2>8. /\ pc' = pc /\ doc' = doc /\ job' = job /\ held' = held /\ pkg' = pkg /\ path' = path
        /\ package' = package /\ jobs' = jobs /\ confirmed' = confirmed
    BY <1>3 DEF ExportRead, files
  <2>9. QED
    BY <1>0, <2>7, <2>8 DEF ProcFits, Generates, Exports, FromImport, Accepted
<1>4. ASSUME ExportReload(p) PROVE ProcFits(p)'
  <2>1. pc'[p] = "e_write" /\ pkg'[p] = package  BY <1>0, <1>4 DEF TypeOK, ExportReload, Goto
  <2>2. /\ package' = package /\ path' = path
        /\ read' = read /\ confirmed' = confirmed
    BY <1>4 DEF ExportReload, files
  <2>3. package # None /\ path[p] \in OutputPaths
    BY <1>0, <1>4 DEF ExportReload, Goto, ProcFits, Exports
  <2>4. FromImport(pkg'[p])  BY <1>0, <2>1, <2>3 DEF FilesFit
  <2>5. QED
    BY <1>0, <2>1, <2>2, <2>3, <2>4 DEF ProcFits, Generates, Exports, FromImport, Accepted
<1>5. ASSUME ExportWrite(p) PROVE ProcFits(p)'
  BY <1>5, DoneFits DEF ExportWrite
<1>6. QED  BY <1>1, <1>2, <1>3, <1>4, <1>5 DEF Export

LEMMA StepProcs ==
  ASSUME IInv, Next, NEW r \in Procs
  PROVE  ProcFits(r)'
<1>1. ASSUME NEW p \in Procs, Import(p) \/ Generate(p) \/ Export(p) \/ Abort(p)
      PROVE  ProcFits(r)'
  <2>1. CASE r # p  BY <1>1, <2>1, OthersStay
  <2>2. CASE r = p
    <3>1. ASSUME Abort(p) PROVE ProcFits(p)'  BY <3>1, DoneFits DEF Abort
    <3>2. QED  BY <1>1, <2>2, <3>1, ImportFits, GenerateFits, ExportFits
  <2>3. QED  BY <2>1, <2>2
<1>2. ASSUME NEW q \in Ids, Confirm(q) \/ Invalidate(q)
      PROVE  ProcFits(r)'
  BY <1>2, Stays DEF Confirm, Invalidate, locals
<1>3. QED  BY <1>1, <1>2 DEF Next

-------------------------------------------------------------------------------
LEMMA StepFiles ==
  ASSUME IInv, Next
  PROVE  FilesFit'
<1>0. TypeOK /\ FilesFit /\ \A q \in Ids : confirmed[q] \in Nat  BY DEF IInv, TypeOK
<1>1. ASSUME NEW p \in Procs, NEW d \in Documents, ImportPackage(p, d) PROVE FilesFit'
  <2>1. FromImport(package')  BY <1>1 DEF ImportPackage, FromImport, Accepted
  <2>2. QED  BY <1>0, <1>1, <2>1 DEF FilesFit, ImportPackage, FromImport, Accepted
<1>2. ASSUME NEW p \in Procs, ImportState(p) PROVE FilesFit'
  <2>1. state'.job = None  BY <1>2 DEF ImportState
  <2>2. QED  BY <1>0, <1>2, <2>1 DEF FilesFit, ImportState, FromImport, Accepted
<1>3. ASSUME NEW p \in Procs, GenerateItem(p) PROVE FilesFit'
  <2>1. PICK q \in Elements(job[p].selection) :
          /\ final[q] # None
          /\ final' = [final EXCEPT ![q] = [confirmation |-> final[q].confirmation, passing |-> FALSE]]
    BY <1>3 DEF GenerateItem
  <2>2. \A r \in Ids : final'[r] # None => final'[r].confirmation <= confirmed[r]
    <3> TAKE r \in Ids
    <3>1. CASE r = q
      BY <1>0, <2>1, <3>1 DEF TypeOK, FilesFit
    <3>2. CASE r # q
      BY <1>0, <2>1, <3>2 DEF TypeOK, FilesFit
    <3>3. QED  BY <3>1, <3>2
  <2>3. QED  BY <1>0, <1>3, <2>2 DEF FilesFit, GenerateItem, FromImport, Accepted
<1>4. ASSUME NEW p \in Procs, GenerateSaveState(p) PROVE FilesFit'
  <2>1. state'.job = job[p] /\ job[p] \in jobs
    BY <1>4 DEF GenerateSaveState, Done, Goto, IInv, ProcFits
  <2>2. QED  BY <1>0, <1>4, <2>1 DEF FilesFit, GenerateSaveState, FromImport, Accepted
<1>5. ASSUME NEW p \in Procs,
             \/ GenerateStart(p) \/ GenerateSaveJob(p) \/ GenerateLoadState(p)
             \/ Export(p) \/ Abort(p)
      PROVE  FilesFit'
  <2>1. /\ package' = package /\ state' = state /\ jobs \subseteq jobs'
        /\ final' = final /\ confirmed' = confirmed
    BY <1>5 DEF GenerateStart, GenerateSaveJob, GenerateLoadState, Export, ExportStart,
                ExportUnknown, ExportRead, ExportPassed, ExportReload, ExportWrite, Abort, files
  <2>2. QED  BY <1>0, <2>1 DEF FilesFit, FromImport, Accepted
<1>6. ASSUME NEW q \in Ids, Confirm(q) \/ Invalidate(q) PROVE FilesFit'
  <2>1. \A r \in Ids : final'[r] # None => final'[r].confirmation <= confirmed'[r]
    <3> TAKE r \in Ids
    <3>1. CASE Confirm(q)
      <4>1. final'[q].confirmation = confirmed[q] + 1 /\ confirmed'[q] = confirmed[q] + 1
        BY <1>0, <3>1 DEF TypeOK, Confirm, NextConfirmation
      <4>2. r # q => final'[r] = final[r] /\ confirmed'[r] = confirmed[r]
        BY <1>0, <3>1 DEF TypeOK, Confirm
      <4>3. QED  BY <1>0, <4>1, <4>2 DEF FilesFit
    <3>2. CASE Invalidate(q)
      BY <1>0, <3>2 DEF TypeOK, Invalidate, FilesFit
    <3>3. QED  BY <1>6, <3>1, <3>2
  <2>2. package' = package /\ state' = state /\ jobs' = jobs
    BY <1>6 DEF Confirm, Invalidate
  <2>3. QED  BY <1>0, <2>1, <2>2 DEF FilesFit, FromImport, Accepted
<1>7. QED  BY <1>1, <1>2, <1>3, <1>4, <1>5, <1>6 DEF Next, Import, Generate

-------------------------------------------------------------------------------
(* A sheet stays complete: confirmations are only added. *)
LEMMA SheetStays ==
  ASSUME IInv, Next, NEW s \in sheets
  PROVE  SheetComplete(s)'
<1>1. PICK d \in Documents :
        /\ ImportFindings(d) = {}
        /\ s.package = d.package
        /\ [i \in DOMAIN s.rows |-> s.rows[i].question] = d.questions
        /\ \A i, j \in DOMAIN s.rows : s.rows[i].question = s.rows[j].question => i = j
        /\ \A i \in DOMAIN s.rows :
             s.rows[i].confirmation \in 1..confirmed[s.rows[i].question]
  BY DEF IInv, SheetsComplete, SheetComplete
<1>2. ASSUME NEW i \in DOMAIN s.rows
      PROVE  s.rows[i].confirmation \in 1..confirmed'[s.rows[i].question]
  <2>1. s.rows \in Seq(Answers)  BY DEF IInv, TypeOK, Sheets
  <2>2. s.rows[i] \in Answers  BY <2>1
  <2>3. s.rows[i].question \in Ids  BY <2>2 DEF Answers
  <2>4. /\ confirmed[s.rows[i].question] <= confirmed'[s.rows[i].question]
        /\ confirmed[s.rows[i].question] \in Nat
        /\ confirmed'[s.rows[i].question] \in Nat
    BY <2>3, StepKeeps, StepType DEF IInv, TypeOK
  <2>5. QED  BY <1>1, <2>4
<1>3. QED  BY <1>1, <1>2 DEF SheetComplete

(* The sheet that is written: the package was accepted, and the answers    *)
(* that were read have the ids of its rows.                                *)
LEMMA SheetWritten ==
  ASSUME IInv, Next, NEW p \in Procs, ExportWrite(p),
         NEW s, s = [path |-> path[p], package |-> pkg[p].package, rows |-> SheetRows(p)]
  PROVE  SheetComplete(s)'
<1>1. PICK d \in Documents : Accepted(d) /\ pkg[p] = Package(d)
  BY DEF ExportWrite, Done, Goto, IInv, ProcFits, Exports, FromImport
<1>2. d.questions \in Seq(Ids) /\ pkg[p].package = d.package
  BY <1>1, DocumentsAssumption DEF Package
<1>3. /\ DOMAIN SheetRows(p) = DOMAIN d.questions
      /\ \A i \in DOMAIN d.questions :
           /\ SheetRows(p)[i] \in Elements(read[p])
           /\ SheetRows(p)[i].question = d.questions[i]
  BY <1>1, RowsType DEF ExportWrite, IInv
<1>4. s.rows = SheetRows(p) /\ s.package = d.package  BY <1>2
<1>5. [i \in DOMAIN s.rows |-> s.rows[i].question] = d.questions
  BY <1>2, <1>3, <1>4
<1>6. \A i, j \in DOMAIN s.rows : s.rows[i].question = s.rows[j].question => i = j
  <2>1. \A i, j \in DOMAIN d.questions : d.questions[i] = d.questions[j] => i = j
    BY <1>1, AcceptedIsValid DEF ValidIdentity, Package
  <2>2. QED  BY <1>3, <1>4, <2>1
<1>7. confirmed' = confirmed  BY DEF ExportWrite
<1>8. \A i \in DOMAIN s.rows : s.rows[i].confirmation \in 1..confirmed[s.rows[i].question]
  <2> TAKE i \in DOMAIN s.rows
  <2>1. PICK j \in DOMAIN read[p] : s.rows[i] = read[p][j]  BY <1>3, <1>4 DEF Elements
  <2>2. read[p] \in Seq(Answers) /\ ProcFits(p)  BY DEF IInv, TypeOK
  <2>3. read[p][j] \in Answers  BY <2>2
  <2>4. read[p][j].confirmation <= confirmed[read[p][j].question]  BY <2>2 DEF ProcFits
  <2>5. confirmed[read[p][j].question] \in Nat /\ read[p][j].confirmation \in Nat \ {0}
    BY <2>3 DEF Answers, IInv, TypeOK
  <2>6. QED  BY <2>1, <2>4, <2>5
<1>9. QED  BY <1>1, <1>4, <1>5, <1>6, <1>7, <1>8 DEF SheetComplete, Accepted

LEMMA StepSheets ==
  ASSUME IInv, Next
  PROVE  SheetsComplete'
<1>1. ASSUME NEW p \in Procs, ExportWrite(p) PROVE SheetsComplete'
  BY <1>1, SheetStays, SheetWritten DEF ExportWrite, SheetsComplete
<1>2. CASE ~ \E p \in Procs : ExportWrite(p)
  <2>1. sheets' = sheets
    BY <1>2 DEF Next, Import, ImportPackage, ImportState, Generate, GenerateStart,
                GenerateItem, GenerateSaveJob, GenerateLoadState, GenerateSaveState,
                Confirm, Invalidate, Export, ExportStart, ExportUnknown, ExportRead,
                ExportPassed, ExportReload, Abort, files
  <2>2. QED  BY <2>1, SheetStays DEF SheetsComplete
<1>3. QED  BY <1>1, <1>2

-------------------------------------------------------------------------------
(* An import that starts alone is the only one at work, and one that ends  *)
(* alone leaves both files about its run.                                  *)
LEMMA ImportRuns ==
  ASSUME IInv, Next, NEW p \in Procs, Import(p)
  PROVE  RunsFit'
<1>0. TypeOK /\ RunsFit  BY DEF IInv
<1>1. ASSUME NEW d \in Documents, ImportPackage(p, d), ~ mixed' PROVE RunsFit'
  <2>1. ~ mixed /\ Importing = {} /\ Generating = {}  BY <1>1 DEF ImportPackage
  <2>2. /\ pc'[p] = "i_state" /\ doc'[p] = d /\ package' = Package(d)
        /\ \A r \in Procs : r # p => pc'[r] = pc[r]
    BY <1>0, <1>1 DEF TypeOK, ImportPackage, Goto
  <2>3. Importing' = {p} /\ Generating' = {}
    BY <2>1, <2>2 DEF Importing, Generating
  <2>4. QED  BY <2>2, <2>3 DEF RunsFit
<1>2. ASSUME ImportState(p), ~ mixed' PROVE RunsFit'
  <2>1. /\ pc[p] = "i_state" /\ pc'[p] = "idle" /\ package' = package
        /\ \A r \in Procs : r # p => pc'[r] = pc[r]
        /\ state' = [run |-> doc[p], job |-> None]
    BY <1>0, <1>2 DEF TypeOK, ImportState, Done, Goto
  <2>2. Importing = {p} /\ Generating = {} /\ package = Package(doc[p])
    BY <1>0, <1>2, <2>1 DEF ImportState, RunsFit, Importing
  <2>3. Importing' = {} /\ Generating' = {}
    BY <2>1, <2>2 DEF Importing, Generating
  <2>4. state' \in States
    BY <2>1 DEF IInv, ProcFits, Accepted, States
  <2>5. state' # None /\ state'.run = package'.run /\ state'.job = None
    BY <2>1, <2>2, <2>4, NoneAssumption DEF Package
  <2>6. QED  BY <2>3, <2>5 DEF RunsFit
<1>3. CASE mixed'  BY <1>3 DEF RunsFit
<1>4. QED  BY <1>1, <1>2, <1>3 DEF Import

LEMMA GenerateRuns ==
  ASSUME IInv, Next, NEW p \in Procs, Generate(p)
  PROVE  RunsFit'
<1>0. TypeOK /\ RunsFit  BY DEF IInv
<1>1. ASSUME GenerateStart(p), ~ mixed' PROVE RunsFit'
  <2>1. ~ mixed /\ Importing = {}  BY <1>1 DEF GenerateStart
  <2>2. /\ pc'[p] = "g_items" /\ package # None /\ package' = package /\ state' = state
        /\ \A r \in Procs : r # p => pc'[r] = pc[r] /\ job'[r] = job[r]
        /\ held' = held /\ job'[p].run = package.run
    BY <1>0, <1>1 DEF TypeOK, GenerateStart, Goto, files
  <2>3. Importing' = {} /\ Generating' = Generating \cup {p}
    BY <2>1, <2>2 DEF Importing, Generating
  <2>4. \A r \in Generating : r \in Procs  BY DEF Generating
  <2>5. \A r \in Generating' : /\ job'[r].run = package'.run
                               /\ pc'[r] = "g_state" => held'[r].run = package'.run
    BY <1>0, <2>1, <2>2, <2>3, <2>4 DEF RunsFit
  <2>6. QED  BY <1>0, <2>1, <2>2, <2>3, <2>5 DEF RunsFit
<1>2. ASSUME GenerateItem(p), ~ mixed' PROVE RunsFit'
  BY <1>0, <1>2 DEF GenerateItem, locals, RunsFit, Importing, Generating
<1>3. ASSUME GenerateSaveJob(p), ~ mixed' PROVE RunsFit'
  <2>1. /\ pc[p] = "g_items" /\ pc'[p] = "g_load"
        /\ \A r \in Procs : r # p => pc'[r] = pc[r]
    BY <1>0, <1>3 DEF TypeOK, GenerateSaveJob, Goto
  <2>2. Importing' = Importing /\ Generating' = Generating
    BY <2>1 DEF Importing, Generating
  <2>3. /\ package' = package /\ state' = state /\ mixed' = mixed
        /\ doc' = doc /\ job' = job /\ held' = held
    BY <1>3 DEF GenerateSaveJob, locals
  <2>4. \A r \in Generating : r \in Procs  BY DEF Generating
  <2>5. \A r \in Generating : pc'[r] = "g_state" => pc[r] = "g_state"
    BY <2>1, <2>4
  <2>6. QED  BY <1>0, <1>3, <2>2, <2>3, <2>5 DEF RunsFit
<1>4. ASSUME GenerateLoadState(p), ~ mixed' PROVE RunsFit'
  <2>1. /\ pc[p] = "g_load" /\ pc'[p] = "g_state" /\ held'[p] = state
        /\ \A r \in Procs : r # p => pc'[r] = pc[r] /\ held'[r] = held[r]
    BY <1>0, <1>4 DEF TypeOK, GenerateLoadState, Goto
  <2>2. Importing' = Importing /\ Generating' = Generating /\ p \in Generating
    BY <2>1 DEF Importing, Generating
  <2>3. /\ package' = package /\ state' = state /\ mixed' = mixed
        /\ doc' = doc /\ job' = job
    BY <1>4 DEF GenerateLoadState, files
  <2>4. held'[p].run = package.run
    BY <1>0, <1>4, <2>1, <2>2, <2>3 DEF RunsFit
  <2>5. \A r \in Generating : r \in Procs  BY DEF Generating
  <2>6. \A r \in Generating : pc'[r] = "g_state" => held'[r].run = package.run
    BY <1>0, <1>4, <2>1, <2>3, <2>4, <2>5 DEF RunsFit
  <2>7. QED  BY <1>0, <1>4, <2>2, <2>3, <2>6 DEF RunsFit
<1>5. ASSUME GenerateSaveState(p), ~ mixed' PROVE RunsFit'
  <2>1. /\ pc[p] = "g_state" /\ pc'[p] = "idle" /\ package' = package /\ mixed' = mixed
        /\ state' = [run |-> held[p].run, job |-> job[p]]
        /\ \A r \in Procs : r # p =>
             pc'[r] = pc[r] /\ held'[r] = held[r] /\ job'[r] = job[r] /\ doc'[r] = doc[r]
    BY <1>0, <1>5 DEF TypeOK, GenerateSaveState, Done, Goto
  <2>2. p \in Generating /\ Importing = {}
    <3>1. p \in Generating  BY <2>1 DEF Generating
    <3>2. QED  BY <1>0, <1>5, <2>1, <3>1 DEF RunsFit
  <2>3. Importing' = {} /\ Generating' = Generating \ {p}
    BY <2>1, <2>2 DEF Importing, Generating
  <2>4. package # None /\ job[p].run = package.run /\ held[p].run = package.run
    BY <1>0, <1>5, <2>1, <2>2 DEF RunsFit
  <2>5. state' \in States
    <3>1. job[p] \in Jobs /\ held[p] \in States
      BY <2>1 DEF IInv, ProcFits, Generates
    <3>2. QED  BY <2>1, <3>1 DEF States
  <2>6. state' # None /\ state'.run = package.run /\ state'.job.run = package.run
    BY <2>1, <2>4, <2>5, NoneAssumption
  <2>7. \A r \in Generating' : /\ job'[r].run = package.run
                               /\ pc'[r] = "g_state" => held'[r].run = package.run
    <3>1. \A r \in Generating' : r \in Generating /\ r \in Procs /\ r # p
      BY <2>3 DEF Generating
    <3>2. QED  BY <1>0, <1>5, <2>1, <3>1 DEF RunsFit
  <2>8. QED  BY <2>1, <2>3, <2>4, <2>6, <2>7 DEF RunsFit
<1>6. CASE mixed'  BY <1>6 DEF RunsFit
<1>7. QED  BY <1>1, <1>2, <1>3, <1>4, <1>5, <1>6 DEF Generate

(* An export or a handler that dies outside import leaves the rest of the  *)
(* importing and generating processes as they were.                        *)
LEMMA OtherRuns ==
  ASSUME IInv, Next, NEW p \in Procs, Export(p) \/ Abort(p)
  PROVE  RunsFit'
<1>0. TypeOK /\ RunsFit  BY DEF IInv
<1>1. SUFFICES ASSUME ~ mixed' PROVE RunsFit'
  BY DEF RunsFit
<1>2. ~ mixed /\ package' = package /\ state' = state
  <2>1. CASE Abort(p)
    <3>1. package' = package /\ state' = state  BY <2>1 DEF Abort, files
    <3>2. mixed' = (mixed \/ p \in Importing)  BY <2>1 DEF Abort
    <3>3. ~ mixed  BY <1>1, <3>2
    <3>4. QED  BY <3>1, <3>3
  <2>2. CASE Export(p)
    <3>1. package' = package /\ state' = state /\ mixed' = mixed
      BY <2>2 DEF Export, ExportStart, ExportUnknown, ExportRead, ExportPassed,
                  ExportReload, ExportWrite, files
    <3>2. QED  BY <1>1, <3>1
  <2>3. QED  BY <2>1, <2>2
<1>3. pc[p] # "i_state" /\ pc'[p] \notin {"i_state", "g_items", "g_load", "g_state"}
  <2>1. CASE Abort(p)
    BY <1>0, <1>1, <2>1 DEF TypeOK, Abort, Done, Goto, Importing
  <2>2. CASE Export(p)
    BY <1>0, <2>2 DEF TypeOK, Export, ExportStart, ExportUnknown, ExportRead, ExportPassed,
                      ExportReload, ExportWrite, Done, Goto
  <2>3. QED  BY <2>1, <2>2
<1>4. \A r \in Procs : r # p =>
        pc'[r] = pc[r] /\ doc'[r] = doc[r] /\ job'[r] = job[r] /\ held'[r] = held[r]
  BY OthersStay
<1>5. Importing' = Importing /\ p \notin Importing  BY <1>3, <1>4 DEF Importing
<1>6. Generating' = Generating \ {p}  BY <1>3, <1>4 DEF Generating
<1>7. \A r \in Importing : r \in Procs /\ r # p  BY <1>5 DEF Importing
<1>8. \A r \in Generating' : r \in Procs /\ r # p /\ r \in Generating
  BY <1>6 DEF Generating
<1>9. QED
  BY <1>0, <1>2, <1>4, <1>5, <1>6, <1>7, <1>8 DEF RunsFit

LEMMA StepRuns ==
  ASSUME IInv, Next
  PROVE  RunsFit'
<1>1. ASSUME NEW q \in Ids, Confirm(q) \/ Invalidate(q) PROVE RunsFit'
  BY <1>1 DEF Confirm, Invalidate, locals, IInv, RunsFit, Importing, Generating
<1>2. QED  BY <1>1, ImportRuns, GenerateRuns, OtherRuns DEF Next

LEMMA StepIInv == IInv /\ [Next]_vars => IInv'
<1> SUFFICES ASSUME IInv, [Next]_vars PROVE IInv'
  OBVIOUS
<1>1. CASE Next
  BY <1>1, StepType, StepFiles, StepProcs, StepSheets, StepRuns DEF IInv
<1>2. CASE UNCHANGED vars
  <2>1. /\ TypeOK' /\ FilesFit' /\ RunsFit' /\ SheetsComplete'
    BY <1>2 DEF vars, files, locals, IInv, TypeOK, FilesFit, RunsFit, SheetsComplete,
                SheetComplete, FromImport, Accepted, Importing, Generating
  <2>2. \A p \in Procs : ProcFits(p)'
    BY <1>2 DEF vars, files, locals, IInv, ProcFits, Generates, Exports, FromImport, Accepted
  <2>3. QED  BY <2>1, <2>2 DEF IInv
<1>3. QED  BY <1>1, <1>2

-------------------------------------------------------------------------------
(* In every reachable state the files, the processes and the sheets fit.   *)
THEOREM RunsAlwaysFit == Spec => []IInv
<1>1. QED  BY InitIInv, StepIInv, PTL DEF Spec

(* No step of import, generation or export leaves a malformed file. *)
THEOREM TypeCorrect == Spec => []TypeOK
<1>1. IInv => TypeOK  BY DEF IInv
<1>2. QED  BY <1>1, RunsAlwaysFit, PTL

(* Whatever documents are imported, package.json passes the model's own    *)
(* validation when it is loaded.                                           *)
THEOREM PackagesLoad == Spec => []PackageLoads
<1>1. IInv => PackageLoads  BY AcceptedIsValid DEF IInv, FilesFit, FromImport, PackageLoads
<1>2. QED  BY <1>1, RunsAlwaysFit, PTL

(* Every sheet answers exactly one accepted package, in order. *)
THEOREM SheetsAlwaysComplete == Spec => []SheetsComplete
<1>1. IInv => SheetsComplete  BY DEF IInv
<1>2. QED  BY <1>1, RunsAlwaysFit, PTL

(* The job state.json reports has its file. *)
THEOREM StateJobsHaveFiles == Spec => []StateJobHasFile
<1>1. IInv => StateJobHasFile  BY DEF IInv, FilesFit, StateJobHasFile
<1>2. QED  BY <1>1, RunsAlwaysFit, PTL

(* state.json names the run of package.json unless an import was mixed     *)
(* with other work.                                                        *)
THEOREM StateAlwaysNamesRun == Spec => []StateNamesRun
<1>1. IInv => StateNamesRun  BY DEF IInv, RunsFit, StateNamesRun
<1>2. QED  BY <1>1, RunsAlwaysFit, PTL
===============================================================================
