------------------------------ MODULE PackageRuns ------------------------------
(***************************************************************************)
(* The files that belong to the workspace and not to one question: import  *)
(* writes package.json and state.json, generation adds its job to jobs/    *)
(* and to state.json, export reads the package twice with all the final    *)
(* answers in between.  CLI processes and the web server do this at the    *)
(* same time, without a lock; each step is one load or one save, and a     *)
(* process may raise or die before any of them.                            *)
(*                                                                         *)
(* What the handlers do to one question is in AnswerWorkflow and           *)
(* WorkspaceRaces; here a question has a final answer or none, and the     *)
(* gate passes that answer or not.  A digest is the value that is hashed.  *)
(***************************************************************************)
EXTENDS Integers, Sequences, FiniteSets

CONSTANTS
  Procs,             \* CLI processes, request handlers, the generation thread
  Ids,               \* question ids
  PackageIds,        \* package numbers
  Documents,         \* what the three input files of an import can say
  OutputPaths,       \* export targets
  MaxConfirmations,  \* bound: confirmations of each question
  MaxJobs,           \* bound: generation jobs
  None               \* an absent file

ASSUME DocumentsAssumption ==
  Documents \subseteq [package : PackageIds, templatePackage : PackageIds,
                       questions : Seq(Ids), template : Seq(Ids)]

Elements(s) == {s[i] : i \in DOMAIN s}

(* Fault: looked for in the set of the ids. *)
DuplicatesOfSet(s) == {}

Duplicates(s) == {s[i] : i \in {j \in DOMAIN s : \E k \in DOMAIN s : k < j /\ s[k] = s[j]}}

-------------------------------------------------------------------------------
(* What import_package finds wrong; the first two raise InputFormatError,  *)
(* the others are collected into one PackageIntegrityError.                *)
ImportFindings(d) ==
  {code \in {"EMPTY_QUESTIONS", "EMPTY_TEMPLATE", "DUPLICATE_QUESTION_IDS",
             "DUPLICATE_TEMPLATE_IDS", "MISSING_TEMPLATE_IDS", "UNKNOWN_TEMPLATE_IDS",
             "PACKAGE_ID_MISMATCH"} :
     \/ code = "EMPTY_QUESTIONS" /\ d.questions = <<>>
     \/ code = "EMPTY_TEMPLATE" /\ d.template = <<>>
     \/ code = "DUPLICATE_QUESTION_IDS" /\ Duplicates(d.questions) # {}
     \/ code = "DUPLICATE_TEMPLATE_IDS" /\ Duplicates(d.template) # {}
     \/ code = "MISSING_TEMPLATE_IDS" /\ Elements(d.questions) \ Elements(d.template) # {}
     \/ code = "UNKNOWN_TEMPLATE_IDS" /\ Elements(d.template) \ Elements(d.questions) # {}
     \/ code = "PACKAGE_ID_MISMATCH" /\ d.package # d.templatePackage}

(* CompetitionPackage.  run_id is a digest of the three documents. *)
Package(d) == [run |-> d, package |-> d.package, questions |-> d.questions,
               template |-> d.template, order |-> d.questions]

PackageFiles == {Package(d) : d \in Documents}

(* validate_question_identity, on construction and on every load. *)
ValidIdentity(k) ==
  /\ k.questions # <<>> /\ k.template # <<>>
  /\ \A i, j \in DOMAIN k.questions : k.questions[i] = k.questions[j] => i = j
  /\ Elements(k.questions) = Elements(k.template)
  /\ k.order = k.questions

(* A generation job, named by a digest of the run and the selected ids. *)
Jobs == [run : Documents, selection : Seq(Ids)]

(* state.json: the run, and the last generation job. *)
States == [run : Documents, job : Jobs \cup {None}]

(* FinalAnswer: which confirmation of its question it is, and whether the  *)
(* gate of export passes it (it is not stale).                             *)
Finals == [confirmation : Nat \ {0}, passing : BOOLEAN]

(* What export keeps of a final answer, and the sheet.  The query text is  *)
(* that of the confirmation.                                               *)
Answers == [question : Ids, confirmation : Nat \ {0}]
Sheets  == [path : OutputPaths, package : PackageIds, rows : Seq(Answers)]

ASSUME NoneAssumption ==
  /\ None \notin PackageFiles
  /\ None \notin States
  /\ None \notin Jobs
  /\ None \notin Finals

VARIABLES
  package,    \* package.json
  state,      \* state.json
  jobs,       \* jobs/*.json
  final,      \* items/q/final-answer.json
  confirmed,  \* history: the confirmations of q so far
  sheets,     \* the exported answer sheets
  pc,         \* the step each process has reached
  doc,        \* import: its documents
  job,        \* generation: its job
  held,       \* generation: the state.json it read
  pkg,        \* export: the package it loaded last
  read,       \* export: the final answers it read, in the package's order
  path,       \* export: where the sheet goes
  mixed       \* history: an import ran beside another or a generation, or died

files  == <<package, state, jobs, final, confirmed, sheets>>
locals == <<doc, job, held, pkg, read, path>>
vars   == <<files, pc, locals, mixed>>

Steps == {"idle", "i_state", "g_items", "g_load", "g_state",
          "e_unknown", "e_read", "e_reload", "e_write"}

TypeOK ==
  /\ package \in PackageFiles \cup {None}
  /\ state \in States \cup {None}
  /\ jobs \subseteq Jobs
  /\ final \in [Ids -> Finals \cup {None}]
  /\ confirmed \in [Ids -> Nat]
  /\ sheets \subseteq Sheets
  /\ pc \in [Procs -> Steps]
  /\ doc \in [Procs -> Documents \cup {None}]
  /\ job \in [Procs -> Jobs \cup {None}]
  /\ held \in [Procs -> States \cup {None}]
  /\ pkg \in [Procs -> PackageFiles \cup {None}]
  /\ read \in [Procs -> Seq(Answers)]
  /\ path \in [Procs -> OutputPaths \cup {None}]
  /\ mixed \in BOOLEAN

Init ==
  /\ package = None
  /\ state = None
  /\ jobs = {}
  /\ final = [q \in Ids |-> None]
  /\ confirmed = [q \in Ids |-> 0]
  /\ sheets = {}
  /\ pc = [p \in Procs |-> "idle"]
  /\ doc = [p \in Procs |-> None]
  /\ job = [p \in Procs |-> None]
  /\ held = [p \in Procs |-> None]
  /\ pkg = [p \in Procs |-> None]
  /\ read = [p \in Procs |-> <<>>]
  /\ path = [p \in Procs |-> None]
  /\ mixed = FALSE

Importing  == {p \in Procs : pc[p] = "i_state"}
Generating == {p \in Procs : pc[p] \in {"g_items", "g_load", "g_state"}}

Goto(p, a, b) == pc[p] = a /\ pc' = [pc EXCEPT ![p] = b]

(* A handler that ends forgets what it carried. *)
Done(p, a) ==
  /\ Goto(p, a, "idle")
  /\ doc' = [doc EXCEPT ![p] = None]
  /\ job' = [job EXCEPT ![p] = None]
  /\ held' = [held EXCEPT ![p] = None]
  /\ pkg' = [pkg EXCEPT ![p] = None]
  /\ read' = [read EXCEPT ![p] = <<>>]
  /\ path' = [path EXCEPT ![p] = None]

(* A handler raises (KeyError in export, a blocker of the gate, a failed   *)
(* save or load) or its process dies: what it saved stays saved.           *)
Abort(p) ==
  /\ pc[p] # "idle"
  /\ Done(p, pc[p])
  /\ mixed' = (mixed \/ p \in Importing)
  /\ UNCHANGED files

-------------------------------------------------------------------------------
(* import_package.  Nothing is saved before every check is done; the       *)
(* constructor's ValidIdentity adds nothing to them (PackageLoads).        *)
(* import-report.json, saved last, is read by nobody.                      *)
ImportPackage(p, d) ==
  /\ ImportFindings(d) = {}
  /\ Goto(p, "idle", "i_state")
  /\ package' = Package(d)
  /\ doc' = [doc EXCEPT ![p] = d]
  /\ mixed' = (mixed \/ Importing # {} \/ Generating # {})
  /\ UNCHANGED <<state, jobs, final, confirmed, sheets, job, held, pkg, read, path>>

(* Fault: state.json is updated, as generation does, and not written anew. *)
ImportStateKeepingJob(p) ==
  /\ Done(p, "i_state")
  /\ state' = [run |-> doc[p], job |-> IF state = None THEN None ELSE state.job]
  /\ mixed' = (mixed /\ ~ (Importing = {p} /\ Generating = {} /\ package = Package(doc[p])))
  /\ UNCHANGED <<package, jobs, final, confirmed, sheets>>

(* An import that has had the files to itself since its package.json puts  *)
(* them right, whatever was mixed before.                                  *)
ImportState(p) ==
  /\ Done(p, "i_state")
  /\ state' = [run |-> doc[p], job |-> None]
  /\ mixed' = (mixed /\ ~ (Importing = {p} /\ Generating = {} /\ package = Package(doc[p])))
  /\ UNCHANGED <<package, jobs, final, confirmed, sheets>>

Import(p) == (\E d \in Documents : ImportPackage(p, d)) \/ ImportState(p)

-------------------------------------------------------------------------------
(* generate_answers, of the package or of one of its questions. *)
Selections(k) == {k.questions} \cup {<<q>> : q \in Elements(k.questions)}

GenerateStart(p) ==
  /\ package # None
  /\ Goto(p, "idle", "g_items")
  /\ \E s \in Selections(package) :
       job' = [job EXCEPT ![p] = [run |-> package.run, selection |-> s]]
  /\ mixed' = (mixed \/ Importing # {})
  /\ UNCHANGED <<files, doc, held, pkg, read, path>>

(* A new candidate leaves the final answer where it is; the gate stops it. *)
GenerateItem(p) ==
  /\ pc[p] = "g_items"
  /\ \E q \in Elements(job[p].selection) :
       /\ final[q] # None
       /\ final' = [final EXCEPT ![q] =
            [confirmation |-> final[q].confirmation, passing |-> FALSE]]
  /\ UNCHANGED <<package, state, jobs, confirmed, sheets, pc, locals, mixed>>

(* Fault: the job's file left to the web server, which writes one too. *)
GenerateLeaveJob(p) ==
  /\ Goto(p, "g_items", "g_load")
  /\ UNCHANGED <<files, locals, mixed>>

GenerateSaveJob(p) ==
  /\ Goto(p, "g_items", "g_load")
  /\ Cardinality(jobs \cup {job[p]}) <= MaxJobs
  /\ jobs' = jobs \cup {job[p]}
  /\ UNCHANGED <<package, state, final, confirmed, sheets, locals, mixed>>

GenerateLoadState(p) ==
  /\ Goto(p, "g_load", "g_state")
  /\ state # None
  /\ held' = [held EXCEPT ![p] = state]
  /\ UNCHANGED <<files, doc, job, pkg, read, path, mixed>>

(* The state that was read, with this job. *)
GenerateSaveState(p) ==
  /\ Done(p, "g_state")
  /\ state' = [run |-> held[p].run, job |-> job[p]]
  /\ UNCHANGED <<package, jobs, final, confirmed, sheets, mixed>>

Generate(p) ==
  \/ GenerateStart(p) \/ GenerateItem(p) \/ GenerateSaveJob(p)
  \/ GenerateLoadState(p) \/ GenerateSaveState(p)

-------------------------------------------------------------------------------
(* Fault: confirmations counted from zero. *)
ConfirmationFromZero(q) == confirmed[q]

NextConfirmation(q) == confirmed[q] + 1

(* confirm_answer, as one step. *)
Confirm(q) ==
  /\ package # None
  /\ q \in Elements(package.questions)
  /\ confirmed[q] < MaxConfirmations
  /\ confirmed' = [confirmed EXCEPT ![q] = confirmed[q] + 1]
  /\ final' = [final EXCEPT ![q] = [confirmation |-> NextConfirmation(q), passing |-> TRUE]]
  /\ UNCHANGED <<package, state, jobs, sheets, pc, locals, mixed>>

(* amend_answer and delete_confirmation move the final answer away, also   *)
(* one of a question that the package no longer has.                       *)
Invalidate(q) ==
  /\ final[q] # None
  /\ final' = [final EXCEPT ![q] = None]
  /\ UNCHANGED <<package, state, jobs, confirmed, sheets, pc, locals, mixed>>

-------------------------------------------------------------------------------
(* export_answers.  preflight_export loads the package... *)
ExportStart(p) ==
  /\ package # None
  /\ Goto(p, "idle", "e_unknown")
  /\ \E o \in OutputPaths :
       /\ \A s \in sheets : s.path # o
       /\ path' = [path EXCEPT ![p] = o]
  /\ pkg' = [pkg EXCEPT ![p] = package]
  /\ UNCHANGED <<files, doc, job, held, read, mixed>>

(* ...looks for final answers of other questions... *)
ExportUnknown(p) ==
  /\ Goto(p, "e_unknown", "e_read")
  /\ \A q \in Ids \ Elements(pkg[p].questions) : final[q] = None
  /\ UNCHANGED <<files, locals, mixed>>

(* ...and reads the questions' final answers in turn; one that is missing  *)
(* or does not pass is a blocker.                                          *)
ExportRead(p) ==
  LET i == Len(read[p]) + 1
      q == pkg[p].questions[i]
  IN
  /\ pc[p] = "e_read"
  /\ i \in DOMAIN pkg[p].questions
  /\ final[q] # None
  /\ final[q].passing
  /\ read' = [read EXCEPT ![p] =
       Append(@, [question |-> q, confirmation |-> final[q].confirmation])]
  /\ UNCHANGED <<files, pc, doc, job, held, pkg, path, mixed>>

ExportPassed(p) ==
  /\ Goto(p, "e_read", "e_reload")
  /\ Len(read[p]) = Len(pkg[p].questions)
  /\ UNCHANGED <<files, locals, mixed>>

(* The package is loaded again for the sheet. *)
ExportReload(p) ==
  /\ Goto(p, "e_reload", "e_write")
  /\ pkg' = [pkg EXCEPT ![p] = package]
  /\ UNCHANGED <<files, doc, job, held, read, path, mixed>>

(* Fault: the answers as the preflight read them. *)
RowsAsRead(p) == read[p]

(* answers_by_id[qid] for qid in original_order. *)
AnswerOf(p, q) == CHOOSE a \in Elements(read[p]) : a.question = q

SheetRows(p) == [i \in DOMAIN pkg[p].order |-> AnswerOf(p, pkg[p].order[i])]

(* Without an answer for an id there is a KeyError; a sheet that has       *)
(* appeared at the path meanwhile makes _atomic_create raise.              *)
ExportWrite(p) ==
  /\ Done(p, "e_write")
  /\ \A q \in Elements(pkg[p].order) : \E a \in Elements(read[p]) : a.question = q
  /\ \A s \in sheets : s.path # path[p]
  /\ sheets' = sheets \cup
       {[path |-> path[p], package |-> pkg[p].package, rows |-> SheetRows(p)]}
  /\ UNCHANGED <<package, state, jobs, final, confirmed, mixed>>

Export(p) ==
  \/ ExportStart(p) \/ ExportUnknown(p) \/ ExportRead(p) \/ ExportPassed(p)
  \/ ExportReload(p) \/ ExportWrite(p)

Next ==
  \/ \E p \in Procs : Import(p) \/ Generate(p) \/ Export(p) \/ Abort(p)
  \/ \E q \in Ids : Confirm(q) \/ Invalidate(q)

Spec == Init /\ [][Next]_vars

-------------------------------------------------------------------------------
(* Every package.json that import lets through is accepted by the model    *)
(* that loads it: import's own checks and the model's agree, so no handler *)
(* is stopped by a workspace that import left unloadable.                  *)
PackageLoads == package # None => ValidIdentity(package)

(* A sheet answers one package that import accepted: exactly that          *)
(* package's questions, each once and in the source order, under that      *)
(* package's number, each with a confirmed answer of that very question.   *)
(* It holds although the answers were collected for the package.json of    *)
(* the preflight and another may have been imported since.                 *)
SheetComplete(s) ==
  \E d \in Documents :
    /\ ImportFindings(d) = {}
    /\ s.package = d.package
    /\ [i \in DOMAIN s.rows |-> s.rows[i].question] = d.questions
    /\ \A i, j \in DOMAIN s.rows : s.rows[i].question = s.rows[j].question => i = j
    /\ \A i \in DOMAIN s.rows : s.rows[i].confirmation \in 1..confirmed[s.rows[i].question]

SheetsComplete == \A s \in sheets : SheetComplete(s)

(* The generation that state.json reports has its file under jobs/,        *)
(* whichever handlers overwrite each other and wherever one dies.          *)
StateJobHasFile == state # None /\ state.job # None => state.job \in jobs

(* Once no import or generation is under way, state.json is about the run  *)
(* of package.json, unless an import overlapped a generation or another    *)
(* import, or died between its two files; after that, it is again as soon  *)
(* as one import has run by itself.  (Generations may overlap each other.) *)
StateNamesRun ==
  ~ mixed /\ Importing = {} /\ package # None =>
    /\ state # None
    /\ state.run = package.run
    /\ state.job # None => state.job.run = package.run
===============================================================================
