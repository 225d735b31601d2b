---------------------------- MODULE GenerationJobs ----------------------------
(***************************************************************************)
(* The web server's background generation.  Request threads share          *)
(* app.state.generation_manager, which _manager creates without a lock; a  *)
(* manager runs one daemon thread at a time and keeps each job's progress  *)
(* in jobs/<job_id>.json.  A save may raise, after or before its file was  *)
(* replaced; the server may be restarted, which forgets managers and       *)
(* threads and keeps the files.                                            *)
(*                                                                         *)
(* What generate_answers does to the questions is in WorkspaceRaces.       *)
(***************************************************************************)
EXTENDS Naturals, FiniteSets

CONSTANTS
  Requests,      \* threads of the pool that answer POST /api/v1/generation-jobs
  Jobs,          \* bound: the job ids, one for each start
  Total,         \* questions of the package
  MaxRestarts,   \* bound: restarts of the server
  None

ASSUME TotalAssumption == Total \in Nat \ {0}
ASSUME RestartsAssumption == MaxRestarts \in Nat
ASSUME NoneAssumption  == None \notin Requests \cup Jobs

Managers == Requests     \* a manager is named after the request that made it

Terminal == {"completed", "completed_with_errors", "failed"}
Results  == {"generated", "refused", "failed"}
Values   == [status : {"queued", "running"} \cup Terminal,
             processed : 0..Total, counts : [Results -> 0..Total]]

VARIABLES
  manager,   \* app.state.generation_manager
  active,    \* active[m]: active_job_id of manager m
  request,   \* request[r]: the step a request is at
  using,     \* using[r]: the manager a request will start
  file,      \* file[j]: jobs/<j>.json
  value,     \* value[j]: the dict the thread of j counts in
  thread,    \* thread[j]: the step the thread of j is at
  owner,     \* owner[j]: the manager whose thread runs j
  restarts   \* restarts so far

vars == <<manager, active, request, using, file, value, thread, owner, restarts>>

Live == {"begin", "item", "progress", "finally", "release"}

TypeOK ==
  /\ manager \in Managers \cup {None}
  /\ active \in [Managers -> Jobs \cup {None}]
  /\ request \in [Requests -> {"idle", "create", "start"}]
  /\ using \in [Requests -> Managers \cup {None}]
  /\ file \in [Jobs -> Values \cup {None}]
  /\ value \in [Jobs -> Values \cup {None}]
  /\ thread \in [Jobs -> Live \cup {"none", "ended", "raised", "killed"}]
  /\ owner \in [Jobs -> Managers \cup {None}]
  /\ restarts \in 0..MaxRestarts

Init ==
  /\ manager = None
  /\ active = [m \in Managers |-> None]
  /\ request = [r \in Requests |-> "idle"]
  /\ using = [r \in Requests |-> None]
  /\ file = [j \in Jobs |-> None]
  /\ value = [j \in Jobs |-> None]
  /\ thread = [j \in Jobs |-> "none"]
  /\ owner = [j \in Jobs |-> None]
  /\ restarts = 0

-------------------------------------------------------------------------------
(* save_json either replaces the file and returns, or raises; the fsync of *)
(* the directory may raise when the file is already replaced.              *)
Saves(j, v) == file' = [file EXCEPT ![j] = v]
Raises(j, v) == UNCHANGED file \/ Saves(j, v)

(* _manager: app.state is read, and written later by a request that found  *)
(* no manager there.                                                       *)
FindManager(r) ==
  /\ request[r] = "idle"
  /\ using' = [using EXCEPT ![r] = IF manager = None THEN r ELSE manager]
  /\ request' = [request EXCEPT ![r] = IF manager = None THEN "create" ELSE "start"]
  /\ UNCHANGED <<manager, active, file, value, thread, owner, restarts>>

CreateManager(r) ==
  /\ request[r] = "create"
  /\ manager' = r
  /\ request' = [request EXCEPT ![r] = "start"]
  /\ UNCHANGED <<active, using, file, value, thread, owner, restarts>>

Answered(r) ==
  /\ request[r] = "start"
  /\ request' = [request EXCEPT ![r] = "idle"]
  /\ using' = [using EXCEPT ![r] = None]

(* Fault: start does not look at active_job_id. *)
NeverBusy(m) == FALSE

Busy(m) == active[m] # None

Queued == [status |-> "queued", processed |-> 0, counts |-> [k \in Results |-> 0]]

(* Fault: a job id that hashes the run and not the time. *)
Idle(j) == thread[j] \notin Live

(* The id hashes the time: every start has its own. *)
Fresh(j) == file[j] = None /\ thread[j] = "none"

(* GenerationManager.start, all of it under the manager's lock. *)
StartRefused(r) ==
  /\ Answered(r)
  /\ Busy(using[r])
  /\ UNCHANGED <<manager, active, file, value, thread, owner, restarts>>

StartRaises(r, j) ==
  /\ Answered(r)
  /\ ~Busy(using[r])
  /\ Fresh(j)
  /\ Raises(j, Queued)
  /\ UNCHANGED <<manager, active, value, thread, owner, restarts>>

Start(r, j) ==
  /\ Answered(r)
  /\ ~Busy(using[r])
  /\ Fresh(j)
  /\ Saves(j, Queued)
  /\ active' = [active EXCEPT ![using[r]] = j]
  /\ thread' = [thread EXCEPT ![j] = "begin"]
  /\ owner' = [owner EXCEPT ![j] = using[r]]
  /\ UNCHANGED <<manager, value, restarts>>

(* The system has no thread left: the job is saved and active_job_id says  *)
(* it runs, and nothing takes that back.                                   *)
StartsNoThread(r, j) ==
  /\ Answered(r)
  /\ ~Busy(using[r])
  /\ Fresh(j)
  /\ Saves(j, Queued)
  /\ active' = [active EXCEPT ![using[r]] = j]
  /\ UNCHANGED <<manager, value, thread, owner, restarts>>

-------------------------------------------------------------------------------
(* GenerationManager._run *)
EndThread(j) ==
  /\ value' = [value EXCEPT ![j] = None]
  /\ owner' = [owner EXCEPT ![j] = None]

At(j, a, b) == thread[j] = a /\ thread' = [thread EXCEPT ![j] = b]

(* Outside the try: if the first save raises, the thread ends there and    *)
(* active_job_id stays.                                                    *)
Begin(j) ==
  /\ At(j, "begin", "item")
  /\ value' = [value EXCEPT ![j] = [file[j] EXCEPT !.status = "running"]]
  /\ Saves(j, value'[j])
  /\ UNCHANGED <<manager, active, request, using, owner, restarts>>

BeginRaises(j) ==
  /\ At(j, "begin", "raised")
  /\ Raises(j, [file[j] EXCEPT !.status = "running"])
  /\ EndThread(j)
  /\ UNCHANGED <<manager, active, request, using, restarts>>

(* Fault: the loop runs once too often. *)
PendingOffByOne(j) == value[j].processed <= Total

Pending(j) == value[j].processed < Total

(* Fault: an item that failed is left out of the counts. *)
FailureUncounted(v, result) ==
  [v EXCEPT !.processed = @ + 1, !.counts[result] = IF result = "failed" THEN @ ELSE @ + 1]

Counted(v, result) ==
  [status |-> v.status, processed |-> v.processed + 1,
   counts |-> [v.counts EXCEPT ![result] = @ + 1]]

(* generate_answers of one question returns a summary of one item. *)
Item(j, result) ==
  /\ At(j, "item", "progress")
  /\ Pending(j)
  /\ value' = [value EXCEPT ![j] = Counted(@, result)]
  /\ UNCHANGED <<manager, active, request, using, file, owner, restarts>>

(* It raises when the package was re-imported without the question, or     *)
(* when it cannot save.                                                    *)
ItemRaises(j) ==
  /\ At(j, "item", "finally")
  /\ Pending(j)
  /\ value' = [value EXCEPT ![j].status = "failed"]
  /\ UNCHANGED <<manager, active, request, using, file, owner, restarts>>

(* Fault: the progress is kept in memory until the end. *)
ProgressInMemory(j) ==
  /\ At(j, "progress", "item")
  /\ UNCHANGED <<manager, active, request, using, file, value, owner, restarts>>

Progress(j) ==
  /\ At(j, "progress", "item")
  /\ Saves(j, value[j])
  /\ UNCHANGED <<manager, active, request, using, value, owner, restarts>>

ProgressRaises(j) ==
  /\ At(j, "progress", "finally")
  /\ Raises(j, value[j])
  /\ value' = [value EXCEPT ![j].status = "failed"]
  /\ UNCHANGED <<manager, active, request, using, owner, restarts>>

Complete(j) ==
  /\ At(j, "item", "finally")
  /\ ~Pending(j)
  /\ value' = [value EXCEPT ![j].status =
       IF value[j].counts["failed"] > 0 THEN "completed_with_errors" ELSE "completed"]
  /\ UNCHANGED <<manager, active, request, using, file, owner, restarts>>

Finally(j) ==
  /\ At(j, "finally", "release")
  /\ Saves(j, value[j])
  /\ UNCHANGED <<manager, active, request, using, value, owner, restarts>>

FinallyRaises(j) ==
  /\ At(j, "finally", "raised")
  /\ Raises(j, value[j])
  /\ EndThread(j)
  /\ UNCHANGED <<manager, active, request, using, restarts>>

(* Fault: active_job_id is not cleared. *)
ReleaseNothing(j) ==
  /\ At(j, "release", "ended")
  /\ EndThread(j)
  /\ UNCHANGED <<manager, active, request, using, file, restarts>>

Release(j) ==
  /\ At(j, "release", "ended")
  /\ active' = [active EXCEPT ![owner[j]] = None]
  /\ EndThread(j)
  /\ UNCHANGED <<manager, request, using, file, restarts>>

Run(j) ==
  \/ Begin(j) \/ BeginRaises(j)
  \/ (\E result \in Results : Item(j, result)) \/ ItemRaises(j)
  \/ Progress(j) \/ ProgressRaises(j) \/ Complete(j)
  \/ Finally(j) \/ FinallyRaises(j) \/ Release(j)

(* The process ends and is started again: the threads are daemons and the  *)
(* managers objects in memory; nothing looks at jobs/ at startup.          *)
Restart ==
  /\ restarts < MaxRestarts
  /\ restarts' = restarts + 1
  /\ manager' = None
  /\ active' = [m \in Managers |-> None]
  /\ request' = [r \in Requests |-> "idle"]
  /\ using' = [r \in Requests |-> None]
  /\ thread' = [j \in Jobs |-> IF thread[j] \in Live THEN "killed" ELSE thread[j]]
  /\ value' = [j \in Jobs |-> None]
  /\ owner' = [j \in Jobs |-> None]
  /\ UNCHANGED file

Next ==
  \/ \E r \in Requests :
       \/ FindManager(r) \/ CreateManager(r) \/ StartRefused(r)
       \/ \E j \in Jobs : Start(r, j) \/ StartRaises(r, j) \/ StartsNoThread(r, j)
  \/ \E j \in Jobs : Run(j)
  \/ Restart

(* A thread that is started gets to run: nothing it does waits for another *)
(* job.  Nobody has to ask for a generation or to restart the server.      *)
Spec == Init /\ [][Next]_vars /\ \A j \in Jobs : WF_vars(Run(j))

-------------------------------------------------------------------------------
(* What GET /api/v1/jobs/{id} returns adds up at every moment, and a job   *)
(* says it is complete only when every question was tried, without errors  *)
(* only when none failed.                                                  *)
JobFilesAddUp ==
  \A j \in Jobs : file[j] # None =>
    LET v == file[j] IN
    /\ v.processed = v.counts["generated"] + v.counts["refused"] + v.counts["failed"]
    /\ v.status = "queued" => v.processed = 0
    /\ v.status = "completed" => v.processed = Total /\ v.counts["failed"] = 0
    /\ v.status = "completed_with_errors" => v.processed = Total /\ v.counts["failed"] > 0

(* While a job's thread runs, its manager refuses every other start, and   *)
(* so a manager never runs two; the thread that clears active_job_id       *)
(* clears its own job.                                                     *)
ThreadHoldsManager ==
  \A j \in Jobs : thread[j] \in Live => active[owner[j]] = j

(* "An interrupted process keeps completed items": wherever a job might be *)
(* cut off, its file has every item that is done but the last one.         *)
ProgressKept ==
  \A j \in Jobs : value[j] # None => value[j].processed <= file[j].processed + 1

(* A job that said how it ended never says anything else. *)
EndStays ==
  [][\A j \in Jobs : file[j] # None /\ file[j].status \in Terminal => file'[j] = file[j]]_vars

(* Every job that was started ends and frees its manager, unless a save    *)
(* raised where nothing catches it or the server was stopped.              *)
JobsEnd ==
  \A j \in Jobs : thread[j] \in Live ~>
    \/ thread[j] \in {"raised", "killed"}
    \/ thread[j] = "ended" /\ file[j].status \in Terminal /\ \A m \in Managers : active[m] # j

(* contracts/web.md: one active write job is permitted per run. *)
OneJobPerRun == Cardinality({j \in Jobs : thread[j] \in Live}) <= 1
===============================================================================
