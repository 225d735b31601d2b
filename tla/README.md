# Verification of the FOFA query compiler

The program takes a competition package (questions in natural language), drafts
an answer for each question with offline rules (a FOFA query or a fixed
rejection), lets a reviewer amend and confirm the drafts, and exports a sheet of
confirmed answers. All state is a directory of JSON files, shared by the command
line, by the web server's request handlers and by its background generation
thread. This directory holds TLA+ models of that workflow, TLC configurations,
and proofs checked by TLAPS. `PROJECT.json` maps each definition to its lines.

## 1. Inventory

Paths are below `src/src/fofa_compiler/`.

| Part | State it keeps | Operations | Talks to |
|---|---|---|---|
| Package import (`application/import_package.py`, `infrastructure/package_reader.py`) | `package.json`, `state.json`, `import-report.json` | `import_package` | repository |
| Generation (`application/generate_answers.py`) | `items/q/candidates/N.json`, `current.json`, `risks.json`, `validations/*.json`, `intent.json`, `jobs/`, `state.json` | `generate_answers` for all questions or one | compiler, repository, audit log |
| Question compiler (`application/reject_unsupported.py`, `application/translators/`, `infrastructure/semantic_parser.py`, `domain/ir.py`, `query_validator.py`, `contradictions.py`, `value_validation.py`, `risk.py`, `rules/`) | none (registries read once) | `classify_unsupported`, `parse`, `normalize`, `validate_query`, `assess_risk` | called by generate and amend |
| Review (`application/review_answer.py`) | `reviews/*.json`, `final-answer.json`, and a new candidate, report and assessment for an amendment | `amend_answer`, `confirm_answer` | validator, risk rules, repository |
| Evidence (`application/evidence.py`) | `evidence/q/*.json` | `add_evidence` | read by confirm and export |
| Export (`application/export_gates.py`, `export_answers.py`) | the exported file | `preflight_export`, `export_answers` | reads every file of every question |
| Web generation jobs (`web/routes/generation.py`) | `app.state.generation_manager`, `active_job_id`, `jobs/J.json` | `POST generation-jobs`, the thread `_run`, `GET jobs/J` | `generate_answers` |
| Web review, list, export and import routes (`web/routes/`) | none, but `DELETE confirmation` moves the final answer away | wrappers of the handlers, an `expected_revision` check | all of the above |
| Repository (`infrastructure/workspace.py`) | the files | `save_json` (temporary file, fsync, replace, fsync of the directory), `load_model` | everything |
| Semantic acceptance (`application/semantic_acceptance.py`) | `benchmarks/q/N/*.json` | `record_judgement`, `resolve_acceptance` | repository |
| Renderer (`domain/renderer.py`), audit log, command line, web application | none that anything reads back | | |

What is hard about it:

* **No lock.** The contract speaks of a run-scoped lock; the code has none. CLI
  processes, the thread-pool handlers, the event-loop handlers and the generation
  thread interleave at every load and save.
* **Dependent records in separate files.** A final answer is good only together
  with a candidate, a report, a review, an assessment and evidence, each written
  by another handler at another time. Staleness is found by comparing
  identifiers at the gate, not by deleting what depends on a changed record.
* **Crashes.** A process can die between two saves, a save can raise after it
  replaced the file, the server can be restarted in the middle of a job, and the
  power can be lost between any two system calls of a save.
* **Files of the whole workspace.** `package.json` and `state.json` are two files that
  import writes one after the other; generation reads one and rewrites the other, and
  export reads the package twice, with every final answer read in between.
* **Edges in the compiler.** Two places (translators and registry) say which
  operators and types a field has; trees nest under two keys; ranges, ports and AS
  numbers have limits in three places.

What makes each part correct: import, generate and amend never replace a record
that something rests on; confirm binds one candidate, its own passing report and
all its risk items; export lets out only what is bound that way *now*, as a sheet of
exactly one package; a save changes its file in one step and is not undone once it
returned; a package that import accepts can be loaded, and `state.json` speaks of it; a
job's file adds up and the job ends; the compiler's outcome is one the workflow can
rely on and a query means what the sentence asks; a benchmark item with a failed
constraint is accepted by nobody but an adjudicator.

## 2. Modules

| Module | Models | Checked by |
|---|---|---|
| `AnswerWorkflow` | every handler over the records of all questions, one handler a step | `workflow*`, `AnswerWorkflow_proofs` |
| `ReviewedExport` | what the workflow promises, without files: draft, approve, withdraw, publish | refined by `AnswerWorkflow` |
| `PackageRuns` | import, generation and export on the files they share (`package.json`, `state.json`, `jobs/`, the final answers, the sheets), one load or save a step, in several processes that may raise or die | `package_runs`, `PackageRuns_proofs` |
| `SaveFiles` | `save_json` and `_atomic_create` call by call, with errors, kills and power losses | `save_files`, `SaveFiles_proofs` |
| `AtomicFile` | what the other modules take a save for: a file that changes in one step | refined by `SaveFiles` |
| `CertifiedAnswers` | what the files of one question promise under concurrent handlers: certify, declare, withdraw, take, compare, publish | refined by `WorkspaceRaces` |
| `SemanticAcceptance` | judgements of benchmark items and their resolution | `acceptance`, `SemanticAcceptance_proofs` |
| `AnswerWorkflow_proofs`, `WorkspaceRaces_proofs`, `GenerationJobs_proofs`, `PackageRuns_proofs`, `SaveFiles_proofs`, `SemanticAcceptance_proofs`, `QueryTree_proofs`, `QuestionCompiler_proofs` | theorems for every value of the constants | TLAPS |
| `WorkspaceRaces` | the same handlers on one question, one load or save a step, in several processes that may die | `races*`, `WorkspaceRaces_proofs` |
| `GenerationJobs` | requests, managers, threads and job files of the web server | `jobs*`, `GenerationJobs_proofs` |
| `QueryTree` | the AST, the field registry, the validator, contradictions, risk items, and what a query means | through the next two, `QueryTree_proofs` |
| `QueryRules` | the sentences the rules know and what they translate to | through `QuestionCompiler` |
| `QuestionCompiler` | what one pass of the loop in `generate_answers` makes of a sentence | `compiler*`, `QuestionCompiler_proofs` |

`AnswerWorkflowMC`, `WorkspaceRacesMC`, `PackageRunsMC` and `QuestionCompilerMC` give the
constants their values.

How they fit: the constant `Outcome` of `AnswerWorkflow` and `WorkspaceRaces` (what
the rules make of a wording) is what `QuestionCompiler` computes; its invariant
`OutcomeFits` is the assumption `OutcomeAssumption` of those modules.
`AnswerWorkflow` has whole handlers over several questions, which is the level of a
command that runs alone; `WorkspaceRaces` takes the handlers apart on one
question, since no handler but import and export touches two questions' files.
`PackageRuns` takes apart import, generation and export where they touch the whole
package, and keeps of a question only which confirmation its final answer is and
whether the gate passes it, because `WorkspaceRaces` has its inside; so does
`GenerationJobs`, where generating a question is one step that returns or raises. That a
save is one step in all of them (and may raise before or after it took effect) is what
`AtomicFile` says and `SaveFiles` is shown to implement.

### Files and variables

In `AnswerWorkflow`, `current[q]`, `candidates[q]`, `reports[q]`, `risks[q]`,
`reviews[q]`, `final[q]` and `evidence[q]` are the files under `items/q` and
`evidence/q`; `package` is `package.json`; `exported` holds the rows of the
exported sheets, each with the final answer it was taken from. A SHA-256 digest
is the value that is hashed. A candidate is who made it, the wording its AST was
derived from, its text and its revision: amending replaces the text only, so the
wording stands for kind, intent, AST and risk items. `candidate_id` does not
contain the revision for a rule candidate and does for an amendment, and
`CandidateId` says so; a report is named by that id and the revision.

In `WorkspaceRaces`, `pc[p]` is the next step of process `p`; `wording`, `cand`, `risk`
and `answer` are the Python locals it carries from a load to a later save. A
step that needs a record that is not there is not enabled, and `Crash` stands for
the exception as well as for the death of the process. The handlers for amending
and confirming run on the event loop and so exclude each other within one server;
a CLI process beside it does not, so any two handlers may interleave.

In `GenerationJobs`, a manager is named after the request that made it, `value[j]`
is the dict the thread counts in and `file[j]` the file; every save may instead
raise, having replaced the file or not.

In `PackageRuns`, `Documents` is what the three input files of an import say, and a run
is named by them (`run_id` is their digest). `ImportFindings` are the findings of
`import_package` by code, `ValidIdentity` is the validator that `CompetitionPackage` runs on
every load. `doc`, `job`, `held`, `pkg` and `read` are the locals of the three handlers.
`mixed` is a history variable: it is set when an import overlaps a generation or another
import or dies between its two files, and cleared by an import that had the files to
itself. `Abort` is any exception and any death of a process.

In `SaveFiles`, `entry[t]` is what every process sees under a name, `disk[t]` the set of
entries a power loss may leave there, `temp[w]` the state of the bytes of a writer's
temporary file. A directory sync leaves the current entry only. `Fresh` are the files
whose parent directory the same save created: that directory's own name is never synced,
so for them the code does not promise what `AckedSurvives` says. `acked` is a history
variable, the newest version whose save returned. A version stands for the content.

In `SemanticAcceptance`, a judgement is the set of its checks, `judgements[i][r]` is the
one file per item and reviewer, and `judged` remembers which judgements a result was
returned for.

`Listings` of `AnswerWorkflow` is what the web question list shows of a question. The
report it takes is the last by file name, and the name is a digest, so any report of the
question may be shown.

A tree of the compiler modules is a function from paths (sequences of child numbers, the
empty one being the root) to nodes. The code's recursive walks become sets of paths
(`Walk`): all of them for `_predicates`, those through `and`, `or` and `group` for the search of
contradictions, those through `and` and `group` for what an `And` requires. That these sets
are what the recursion computes is proved, not assumed (section 4). `LogicProblems` compares
values by their text, as the code does.

`Truth` is what a query means, with no counterpart in the code: the properties about queries
are stated with it. An asset is a set of facts, which operator finds which value in which
field: a text may contain several values, an address lies in many networks, and what `==`
finds `=` finds too (`IsAsset`). Only the fields of the constant `ExactFields` (FOFA's own
matter; the run takes the integer and boolean ones) have one value of which nothing but an
equal value is found.

In the compiler modules, a captured text is a word: `text`, `escaped` (it has a
quote, a backslash or a newline), `malformed` (its type refuses it), `colons` (a
serial made of colons); numbers are kept.

## 3. Runs

Passing runs (deadlock is not checked: a workspace that nobody touches, a job that
ended and a sentence that was compiled may stop):

| Run | Instance | Distinct states, about | Shows |
|---|---|---|---|
| `workflow` | 2 questions, 4 kinds of wording, 2 packages (the second rewords one question and drops the other), 3 and 2 revisions, 2 and 1 reviews, 1 evidence record | 216,041 | `RecordsFit`, exports traceable, risk-checked and rendered, candidates immutable, a stale confirmation stays stale, nothing exportable is listed as open, refinement of `ReviewedExport` |
| `races` | 2 processes, 2 wordings, 2 revisions, 1 review, no risk items, symmetric processes | 4.0 million | the final answer on disk and the exported one are always one reviewed candidate with its own passing report, rendered; reports and reviews are never replaced; refinement of `CertifiedAnswers` |
| `jobs` | 2 requests, 2 jobs, 2 questions, 1 restart | 977,020 | job files add up, ends stay, threads hold their manager, progress is kept, every job ends and frees its manager unless a save raised outside the `try`, no thread could be started or the server stopped |
| `package_runs` | 2 processes, 2 questions, 2 acceptable sets of documents (the second drops a question) and one for each of the 7 findings, 1 confirmation each, 2 jobs, 1 output path | 955,000 | a package that import lets through loads; a sheet answers exactly one accepted package in order; the job in `state.json` has its file; `state.json` names the run of `package.json` unless an import was mixed with other work |
| `save_files` | 2 writers, 3 files (one in a new directory, one a sheet), 3 versions each | 516,000 | nothing is ever read half-written, a save that returned survives, a sheet is never replaced, refinement of `AtomicFile` |
| `acceptance` | 1 item, 2 reviewers, 2 constraints | 34,082 | an item is accepted without an adjudicator only on two judgements without a failed constraint; an adjudicated result is what `adjudication.json` says, about a real dispute |
| `compiler` | every sentence pattern, 11 numbers at the edges, 5 ranges, every tree over 7 predicates (two ports, one of them also excluded, a title required and excluded, a network and an address) up to two connectives deep | 172,064 | outcomes fit the workflow's assumption, grouped queries match exactly the assets the sentence asks for, no rule leaves a constraint out or writes a contradiction, of a field compared whole only requirements that no asset meets are reported as exclusive, and nothing is required through an `Or` or a `Not`; nested queries get a grouping check |

Runs in which TLC finds what a document denies (each has an entry under
`findings`, with the quotation):

| Run | What happens |
|---|---|
| `workflow_reimport` | a package rewording a question is imported; the answer confirmed for the old wording passes the gate (it needs a wording no rule covers, or simply no generation after the import) |
| `races_risks` | the assessment of one candidate ends beside another candidate; the answer is confirmed and exported with its own required item unchecked |
| `races_resume` | generation dies after `current.json`; the next one finds the fingerprint unchanged and never writes the report or the assessment |
| `jobs_one` | two first requests each create a manager and start a thread on the same run |
| `compiler_tested` | sentences whose queries the translator tests give are refused by the program, because the registry does not allow what the rule writes |

The modules also show these differences between the contracts and the code, for which
there is no run, because one look at the action shows them:

* `generate_answers` makes a new candidate without calling `_invalidate_final`
  (`data-model.md:232` says that creating a candidate stales dependent records), so the
  list goes on showing the question as confirmed; the gate refuses it
  (`StaleStaysStale`).
* Handlers that read the same `current.json` write the same `candidates/N.json`, and one of
  the two is lost (`workspace.md:43` and `:45` speak of immutable revisions and a lock).
* After a restart the file of the job that was cut off says `running` for good
  (`web.md:90`: the job is marked interrupted).
* A save that raises after `os.replace` has changed the file (`cli.md:25`: a failed operation
  leaves the prior state intact); `Raise` in `SaveFiles` and `Fail` in `AtomicFile` say so.
* An adjudicator's verdict on one disputed constraint is the verdict on the item, also when
  every reviewer found another constraint failed (`quickstart.md:155`: any failed applicable
  constraint fails the whole item; disagreements require adjudication); `ResolveAdjudicated`
  says so, and `AcceptedUnanimously` speaks of items without an adjudicator.
* An address and a network that contains it, both required of `ip`, are reported as exclusive
  (`contradictions.py:62-64` compares texts), though assets match both. `TwoRequired` does as
  the code; `ContradictionsAreReal` speaks of the other cases, and `ReportedYetMatched`
  proves that it has to.
* When `Thread.start` raises, `active_job_id` is already set and stays (`StartsNoThread`): the
  server refuses every later generation, as after a first save that raises.
* Import beside a generation can leave `state.json` naming the old run for good; that is
  what `mixed` marks off in `StateNamesRun`.

### Bounds, and why they are enough

* `MaxRevision`, `MaxReviews`: three revisions of a question allow draft, amendment
  and a new draft of the first wording (same `candidate_id`, other revision), which is
  the longest chain of identifiers the gate compares; two reviews allow a
  confirmation that is withdrawn or repeated. One wording with a required item and
  evidence, one refused by the validator (a negative report exists), one refused by
  the classifier (no report) and one no rule covers are all the cases of `Outcome`.
  The theorems below remove these bounds for the properties they cover.
* `races`: two processes and two revisions are the smallest instance where two
  writers pick the same number and where a confirmation holds a candidate that
  somebody replaces; a third process only repeats one of the two. Required risk items only
  keep confirmations and exports from passing, so that without them more is confirmed and
  exported; the items themselves are the subject of `workflow` and `races_risks`.
* `jobs`: with two requests, both can be between reading and setting
  `app.state.generation_manager`; two questions separate first, middle and last item;
  one restart separates before and after.
* `package_runs`: with two processes, an import can come between any two steps of another
  import, of a generation or of an export; the two packages share a question, so an
  export that read one can succeed for the other (its questions are a subset) or fail.
  One output path makes two exports compete for it. One confirmation per question
  separates confirmed from not; the theorems have no bound.
* `save_files`: two writers of one file, one failing while the other succeeds; three
  versions give a save that returned, one in flight and one between them. Power losses
  are unbounded.
* `acceptance`: two reviewers and two constraints, the smallest item in which one
  constraint is disputed and another failed, and in which the two judge different ones.
* `MaxDepth` bounds the trees a semantic provider proposes (`ProposalsAssumption`, evaluated
  by TLC on the proposals of the run): two connectives deep are the smallest trees with a
  requirement, an alternative or a negation inside another. The predicates are of the three
  kinds the contradiction search tells apart: a single-valued field that is compared whole
  (`port`), one that is not (`ip`) and one with many values (`title`), each required and, but
  for `ip`, excluded. The theorems have no such bound and hold for any `ExactFields`.
* `MaxAsn` stands for 2^32 - 1; the numbers around each limit are enumerated.
* Ranges of 1, 3, 256 and 257 addresses and a reversed one are the edges of the
  distance test.

### Fairness

Only `GenerationJobs` has a liveness property. It assumes weak fairness of
each job's thread, and nothing else: the thread never waits for another job, for
a request or for a lock that is held over a blocking call, and the operating
system schedules it. No fairness is assumed of requests or restarts, nor that saves
succeed.

## 4. Theorems

`AnswerWorkflow_proofs`, for any number of questions, wordings, packages, risk items
and revisions:

* `TypeCorrect`: `Spec => []TypeOK`.
* `RecordsAlwaysFit`: `Spec => []RecordsFit`, the inductive invariant. The
  export properties are not inductive by themselves: that an exported row's review
  checked the items of *its* candidate depends on `risks.json` being the current
  candidate's when it was confirmed, on reviews and reports pointing to stored
  candidates, and on revisions being distinct and not above the current one.
  `RecordsFit` is these facts for each question.
* `CandidatesNeverChange`, `ExportsTraceable`, `ExportsRiskChecked`, `ExportsRendered`,
  `StaleFinalsStayStale`: from `RecordsFit`. The rows exported earlier stay good since
  candidates, passing reports and reviews only grow (lemmas about `Grows`).
* `ExportablesListed`: the gate's conditions imply what the list shows, from `TypeCorrect`.
* `RefinesReviewedExport`: every handler is a step of `ReviewedExport` or a stutter,
  with a question approved when its final answer is the current candidate's.

The assumptions are those named in `AnswerWorkflow`: a query outcome has a passing
report, a rejection has the fixed text and no passing one, packages ask known
wordings, evidence is documented or not. TLC evaluates them on the instance.

`WorkspaceRaces_proofs`, for any number of processes, wordings, texts, risk items and
revisions:

* `KnowledgeHolds`: `Spec => []IInv`. What makes an interleaving safe is what a
  process knows of the locals it carries: a confirmation past its check knows that a
  passing report of its candidate is stored, one past its review knows the review is,
  an export knows that the answer it loaded is reviewed (`Local`). The others cannot
  take this away because the reports say what the validator says of the candidate they
  name (`Honest`), so that saving one again writes the same record, and reviews are
  only added (`RecordsGrow`, `KnowledgeSurvives`).
* `TypeCorrect`, `FinalsReviewed`, `ExportsReviewed`, `ReportsNeverChange`: parts of the
  invariant or of its step.
* `ExportsRendered`: a passing report that is honest is of a rendered text.

* `RefinesCertifiedAnswers`: every load, save and crash is a step of `CertifiedAnswers` or a
  stutter. An answer is certified when its review and a passing report are stored; the
  process that saves a final answer knows that (`Local`), so it declares a certified one.
  What an export has taken is the answer it loaded, and whether it was the current
  candidate's when `current.json` was loaded; the gate compares the two before it writes.
  So a sheet may have an answer that was amended or withdrawn while the export ran, and
  none that was stale for the whole of it.

Nothing like it holds of the candidate files (two handlers write one) or of the risk
items, as the run `races_risks` shows; no theorem mentions `candidates` or `risks` beyond
their type.

`PackageRuns_proofs`, for any number of processes, questions, packages and documents of any
length:

* `RunsAlwaysFit`: `Spec => []IInv`. Its parts are what the files hold (`package.json` came from
  documents without findings), what each process carries at its step (`ProcFits`: an
  export's package was accepted, the confirmations it read exist), that the sheets are
  complete, and `RunsFit`: as long as nothing was mixed, at most one import is at work, no
  generation beside it, and every generation is of the run of `package.json` and read a
  `state.json` of that run. `StateNamesRun` alone is not inductive: a generation that holds an
  old `state.json` breaks it a step later.
* `PackagesLoad`: for every value of the documents, no finding implies that the model's
  validator accepts the package (`AcceptedIsValid`).
* `SheetsAlwaysComplete`, `StateJobsHaveFiles`, `StateAlwaysNamesRun`, `TypeCorrect`: from the
  invariant.

The assumptions are the types of the documents and that `None` is none of the records.

`SaveFiles_proofs`, for any number of writers and files:

* `SavesFit`: `Spec => []IInv`: each writer has done what its step says; what the disk may hold of
  a file is whole, no newer than what is seen and no older than what was acknowledged.
* `FilesNeverTorn`, `ReturnedSavesSurvive`, `SheetsNeverReplaced`, `TypeCorrect`: from the
  invariant and its step.
* `RefinesAtomicFile`: replace and link are the step that changes the abstract file, every
  other call stutters or ends a save, and a power loss goes back to a version no older
  than the acknowledged one.

`GenerationJobs_proofs`, for any number of request threads, jobs, questions and restarts:

* `JobsHold`: `Spec => []IInv`, by the step of each job's thread (`Job`): before its first
  item the file is the queued one; between items file and dict are equal; in the
  finally clause the file still says "running" while the dict says how the job ended; until
  it is released, the manager's active job is this one.
* `TypeCorrect`, `FilesAddUp`, `ManagersHeld`, `ProgressNeverLost`: from the invariant.
* `EndsStay`: the steps that write a job's file are those at which it does not yet
  say how the job ended.

`SemanticAcceptance_proofs`, for any items, reviewers and constraints (the set of reviewers
may be infinite; cardinalities come in only through "at least two" and "both verdicts"):

* `ResultsFit`: `Spec => []IInv`: each result is one that the judgements on file at its time give,
  and the last adjudicated one is the verdict on file.
* `TypeCorrect`, `AcceptanceUnanimous`, `AdjudicationsRecorded`: from the invariant.

`QueryTree_proofs`, for any tree of any depth and any children:

* `PredicatesOfJoin`, `AndScopeOfJoin`, `AndScopeBelow`, `VisitedOfJoin`, `DepthOfJoin`: the
  sets of paths obey the equations of the code's recursive functions, so that the model's
  walks are the program's.
* `Truth` is a recursive function, and a function so defined need not exist for an arbitrary
  graph of nodes. That it exists for a tree, is unique, and gives a connective the truth its
  children give it is proved by induction on the height of a node, as an induction on
  natural numbers over a set (the library's induction theorems take an operator and cannot
  be used).
* `ContradictionsHoldNowhere`: a node is false for every asset if its scope requires two values
  of an exact field, or requires a value and excludes it with `!=`. It needs that everything
  in the scope of a true node is true (`ScopeIsTrue`): that is what makes the search look
  through `And` and `Group` only.
* `ReportedYetMatched`: of a single-valued field that is not exact the same report may stand
  against an asset that matches, so the restriction cannot be dropped.
* `NestedIsDeep`: a connective below the outermost one gives depth 2 or more, whichever the
  connectives are.

`QuestionCompiler_proofs`, for any numbers, any ranges of addresses and any proposed trees:

* `CompilerInvariant`: `Spec => []IInv`. The properties of the result speak of the tree, the report
  and the candidate in the last state, and are not inductive: `IInv` says that the tree is
  the sentence's (or a proposal), that the report is of that tree and that the candidate
  comes of the report.
* `OutcomesFit`: the assumption `OutcomeAssumption` of the workflow modules holds of what the
  compiler returns. `TypesKept`: from the invariant.
* `ContradictionsReal`: whatever is reported of exact fields or of an excluded value comes from
  a part of the tree that is false for all assets. `GroupingChecked`: nested trees are deep.
  Both from the theorems about trees.
* `QueriesMatchEveryAsset`: a query of the rules that group matches an asset exactly when the
  sentence asks for it, for every asset and every range; the run compares only the assets
  made of values that the query names. `QueriesMatch` is the run's property.
* `RulesFailOnPredicates`: the tree of every rule represents all of its constraints and has no
  contradiction and no double negation, ranges of any length included. The scopes of the
  parts of each conjunction name different fields (`ScopeIn`), and nothing is required
  through an `Or`. So only an operator, a type or a value can turn a translated
  sentence into a refusal, which is what the finding of `compiler_tested` is about.

The assumptions are that numbers and ranges are naturals and that proposals are trees, of
bounded depth, whose `And` and `Or` have two children (the constructors of `ir.py` refuse
others). Nothing is assumed of `ExactFields`.

Model-checked only: liveness (`JobsEnd`), which is beyond the prover. Trees are built by the
rules and by the provider only, so nothing here quantifies over all trees by structural
induction; where a theorem needs induction it is over natural numbers.

## 5. Not modelled, and why

* Files nothing reads back: audit log, archived final answers, `intent.json`,
  `generation-error.json`, `import-report.json`, export metadata, the content of `state.json`
  beyond run and job.
* The package reader: decoding, duplicate JSON keys, the pattern of the package number and
  the time of issue. It has no state, and all it refuses ends the import before the first
  save. Likewise the 8 MB limits of upload and export.
* Corrupted files: a load returns a version or raises (`Abort`, `Crash`). Nothing in the code
  writes one, by `NeverTorn`.
* Moves of final answers in `SaveFiles`: `_invalidate_final` and `delete_confirmation` rename
  without syncing the directory, so a power loss may bring a withdrawn answer back; the
  contracts promise nothing about it. In the other modules they are one step.
* The `expected_revision` check of the amend and confirm routes: it restricts when the
  handlers start. As the handlers load `current.json` again, another process can still come
  in between; what the reviewer had on the screen is in no record.
* The question list's filters and its detail page, which select among what is listed.
* Text layout and escaping of rendered queries, the order `normalize` gives to children.
* A question id that is not safe as a file name never gets a candidate, like a wording
  no rule covers. `requires_external_evidence` is false for every imported question.
* `resolve_acceptance` and `record_judgement` are one step each: nothing but tests calls them.
* Middleware, templates, the container and argument parsing: wiring around the handlers.

## 6. Plan

1. `AnswerWorkflow` and its refinement, `WorkspaceRaces`, `GenerationJobs`, the proofs of
   the three; the compiler modules. Done.
2. `SaveFiles` as a refinement of `AtomicFile`; `PackageRuns` with the checks of import,
   `state.json` and the second load of the package; the proofs of both. Done.
3. `SemanticAcceptance` and the question list. Done.
4. The compiler without recursive operators and its proofs; `WorkspaceRaces` as a refinement of
   `CertifiedAnswers`; the proofs of `SemanticAcceptance`. Done.
5. Open: moves of final answers in `SaveFiles`; the `expected_revision` check of the web routes
   as a step of its own in `WorkspaceRaces`; that the trees `normalize` makes mean the same.
