------------------------ MODULE GenerationJobs_proofs ------------------------
(***************************************************************************)
(* Theorems about GenerationJobs for every set of requests and jobs, every *)
(* number of questions and of restarts.  That jobs end (JobsEnd) is        *)
(* checked by TLC.                                                         *)
(***************************************************************************)
EXTENDS GenerationJobs, TLAPS

Counting == {"item", "progress", "finally", "release"}

Adds(v) ==
  v.processed = v.counts["generated"] + v.counts["refused"] + v.counts["failed"]

(* What JobFilesAddUp says of one file. *)
Fits(v) ==
  /\ Adds(v)
  /\ v.status = "queued" => v.processed = 0
  /\ v.status = "completed" => v.processed = Total /\ v.counts["failed"] = 0
  /\ v.status = "completed_with_errors" => v.processed = Total /\ v.counts["failed"] > 0

(* How a job's thread, its dict, its file and its manager agree. *)
Job(j) ==
  /\ file[j] # None => Fits(file[j])
  /\ thread[j] \notin Live => value[j] = None
  /\ thread[j] \in Live =>
       owner[j] \in Managers /\ active[owner[j]] = j /\ file[j] \in Values
  /\ thread[j] = "begin" => value[j] = None /\ file[j] = Queued
  /\ thread[j] \in Counting => value[j] \in Values /\ Adds(value[j])
  /\ thread[j] = "item" => value[j].status = "running" /\ file[j] = value[j]
  /\ thread[j] = "progress" => value[j].status = "running"
  /\ thread[j] \in {"progress", "finally"} =>
       file[j].status = "running" /\ value[j].processed <= file[j].processed + 1
  /\ thread[j] = "finally" => value[j].status \in Terminal /\ Fits(value[j])
  /\ thread[j] = "release" => file[j] = value[j]

(* A request that has looked for a manager has one to start. *)
Request(r) == request[r] \in {"create", "start"} => using[r] \in Managers

IInv ==
  /\ TypeOK
  /\ \A j \in Jobs : Job(j)
  /\ \A r \in Requests : Request(r)

-------------------------------------------------------------------------------
(* What the helpers return. *)
LEMMA QueuedType == Queued \in Values /\ Queued.status = "queued" /\ Fits(Queued)
<1>1. [k \in Results |-> 0] \in [Results -> 0..Total]
  BY TotalAssumption
<1>2. Queued \in Values
  BY <1>1, TotalAssumption DEF Queued, Values
<1>3. QED BY <1>2 DEF Queued, Fits, Adds, Results

LEMMA StatusType ==
  ASSUME NEW v \in Values, NEW s \in {"queued", "running"} \cup Terminal
  PROVE  LET w == [v EXCEPT !.status = s] IN
         /\ w \in Values /\ w.status = s /\ w.processed = v.processed /\ w.counts = v.counts
BY DEF Values

LEMMA CountedType ==
  ASSUME NEW v \in Values, Adds(v), v.processed < Total, NEW k \in Results
  PROVE  LET w == Counted(v, k) IN
         /\ w \in Values /\ Adds(w)
         /\ w.status = v.status /\ w.processed = v.processed + 1
<1>1. /\ v.counts \in [Results -> 0..Total] /\ v.processed \in 0..Total
      /\ v.status \in {"queued", "running"} \cup Terminal
  BY DEF Values
<1>2. /\ v.counts["generated"] \in 0..Total /\ v.counts["refused"] \in 0..Total
      /\ v.counts["failed"] \in 0..Total
  BY <1>1 DEF Results
<1>3. v.counts[k] < Total
  BY <1>2, TotalAssumption DEF Adds, Results
<1> DEFINE c == [v.counts EXCEPT ![k] = @ + 1]
<1>4. c \in [Results -> 0..Total]
  BY <1>1, <1>3, TotalAssumption
<1>5. c["generated"] + c["refused"] + c["failed"] = v.processed + 1
  <2>1. CASE k = "generated"
    BY <1>1, <1>2, <2>1, TotalAssumption DEF Adds, Results
  <2>2. CASE k = "refused"
    BY <1>1, <1>2, <2>2, TotalAssumption DEF Adds, Results
  <2>3. CASE k = "failed"
    BY <1>1, <1>2, <2>3, TotalAssumption DEF Adds, Results
  <2>4. QED BY <2>1, <2>2, <2>3 DEF Results
<1>6. Counted(v, k) = [status |-> v.status, processed |-> v.processed + 1, counts |-> c]
  BY DEF Counted
<1> HIDE DEF c
<1>7. v.processed + 1 \in 0..Total
  BY <1>1, TotalAssumption
<1>8. QED BY <1>1, <1>4, <1>5, <1>6, <1>7 DEF Values, Adds

-------------------------------------------------------------------------------
(* A job keeps what it has while others take their steps. *)
Stays(i) ==
  /\ thread'[i] = thread[i] /\ file'[i] = file[i]
  /\ value'[i] = value[i] /\ owner'[i] = owner[i]
  /\ thread[i] \in Live => active'[owner[i]] = active[owner[i]]

LEMMA JobSurvives ==
  ASSUME NEW i \in Jobs, Job(i), Stays(i)
  PROVE  Job(i)'
BY DEF Job, Stays, Fits, Adds

LEMMA OthersStay ==
  ASSUME IInv, NEW j \in Jobs, NEW i \in Jobs \ {j}, Run(j)
  PROVE  Stays(i)
<1> USE DEF TypeOK, At, Saves, Raises, EndThread, Live
<1>1. TypeOK /\ Job(i) /\ Job(j)
  BY DEF IInv
<1>2. thread'[i] = thread[i] /\ file'[i] = file[i] /\ value'[i] = value[i] /\ owner'[i] = owner[i]
  BY <1>1 DEF Run, Begin, BeginRaises, Item, ItemRaises, Progress, ProgressRaises, Complete,
     Finally, FinallyRaises, Release
<1>3. CASE Release(j)
  <2>1. active' = [active EXCEPT ![owner[j]] = None] /\ thread[j] = "release"
    BY <1>3 DEF Release
  <2>2. thread[i] \in Live => owner[i] # owner[j]
    BY <1>1, <2>1 DEF Job
  <2>3. QED BY <1>1, <1>2, <2>1, <2>2 DEF Stays
<1>4. CASE ~Release(j)
  <2>1. active' = active
    BY <1>4 DEF Run, Begin, BeginRaises, Item, ItemRaises, Progress, ProgressRaises, Complete,
       Finally, FinallyRaises
  <2>2. QED BY <1>2, <2>1 DEF Stays
<1>5. QED BY <1>3, <1>4

(* What a job has after a step of its own thread. *)
LEMMA BeginKnows ==
  ASSUME IInv, NEW j \in Jobs, Begin(j)
  PROVE  TypeOK' /\ Job(j)'
<1> DEFINE v == [file[j] EXCEPT !.status = "running"]
<1>1. TypeOK /\ Job(j) /\ thread[j] = "begin"
  BY DEF IInv, Begin, At
<1>2. file[j] = Queued /\ file[j] \in Values /\ owner[j] \in Managers /\ active[owner[j]] = j
  BY <1>1 DEF Job, Live
<1>3. /\ v \in Values /\ v.status = "running"
      /\ v.processed = file[j].processed /\ v.counts = file[j].counts
  BY <1>2, StatusType
<1>4. Adds(v) /\ Fits(v)
  BY <1>2, <1>3, QueuedType DEF Fits, Adds
<1>5. v.processed \in Nat
  BY <1>3, TotalAssumption DEF Values
<1>6. /\ thread' = [thread EXCEPT ![j] = "item"]
      /\ value' = [value EXCEPT ![j] = v]
      /\ file' = [file EXCEPT ![j] = value'[j]]
      /\ UNCHANGED <<manager, active, request, using, owner, restarts>>
  BY DEF Begin, At, Saves
<1> HIDE DEF v
<1>7. file' = [file EXCEPT ![j] = v]
  BY <1>1, <1>6 DEF TypeOK
<1>8. TypeOK'
  BY <1>1, <1>3, <1>6, <1>7 DEF TypeOK, Live
<1>9. thread'[j] = "item" /\ value'[j] = v /\ file'[j] = v /\ owner'[j] = owner[j] /\ active' = active
  BY <1>1, <1>6, <1>7 DEF TypeOK
<1>10. Job(j)'
  BY <1>2, <1>3, <1>4, <1>9 DEF Job, Live, Counting, Fits, Adds
<1>11. QED BY <1>8, <1>10

(* A thread that raised or has ended leaves a file that adds up. *)
LEMMA DeadKnows ==
  ASSUME TypeOK, NEW j \in Jobs, EndThread(j), thread'[j] \in {"raised", "ended"},
         file'[j] # None => Fits(file'[j])
  PROVE  Job(j)'
BY DEF EndThread, TypeOK, Job, Live, Counting, Fits, Adds

LEMMA BeginRaisesKnows ==
  ASSUME IInv, NEW j \in Jobs, BeginRaises(j)
  PROVE  TypeOK' /\ Job(j)'
<1> DEFINE v == [file[j] EXCEPT !.status = "running"]
<1>1. TypeOK /\ Job(j) /\ thread[j] = "begin"
  BY DEF IInv, BeginRaises, At
<1>2. file[j] = Queued /\ file[j] \in Values
  BY <1>1 DEF Job, Live
<1>3. /\ v \in Values /\ v.status = "running"
      /\ v.processed = file[j].processed /\ v.counts = file[j].counts
  BY <1>2, StatusType
<1>4. Fits(v) /\ Fits(file[j])
  BY <1>2, <1>3, QueuedType DEF Fits, Adds
<1>5. /\ thread' = [thread EXCEPT ![j] = "raised"]
      /\ file' = file \/ file' = [file EXCEPT ![j] = v]
      /\ EndThread(j)
      /\ UNCHANGED <<manager, active, request, using, restarts>>
  BY DEF BeginRaises, At, Raises, Saves
<1> HIDE DEF v
<1>6. TypeOK'
  BY <1>1, <1>3, <1>5 DEF TypeOK, EndThread
<1>7. thread'[j] = "raised" /\ file'[j] \in {file[j], v}
  BY <1>1, <1>5 DEF TypeOK
<1>8. Job(j)'
  BY <1>1, <1>4, <1>5, <1>7, DeadKnows
<1>9. QED BY <1>6, <1>8

LEMMA ItemKnows ==
  ASSUME IInv, NEW j \in Jobs, NEW k \in Results, Item(j, k)
  PROVE  TypeOK' /\ Job(j)'
<1> DEFINE v == Counted(value[j], k)
<1>1. TypeOK /\ Job(j) /\ thread[j] = "item" /\ value[j].processed < Total
  BY DEF IInv, Item, At, Pending
<1>2. /\ value[j] \in Values /\ Adds(value[j]) /\ value[j].status = "running"
      /\ file[j] = value[j] /\ file[j] \in Values
      /\ owner[j] \in Managers /\ active[owner[j]] = j
  BY <1>1 DEF Job, Live, Counting
<1>3. /\ v \in Values /\ Adds(v)
      /\ v.status = "running" /\ v.processed = value[j].processed + 1
  BY <1>1, <1>2, CountedType
<1>4. v.processed \in Nat /\ file[j].processed \in Nat
  BY <1>2, <1>3, TotalAssumption DEF Values
<1>5. /\ thread' = [thread EXCEPT ![j] = "progress"]
      /\ value' = [value EXCEPT ![j] = v]
      /\ UNCHANGED <<manager, active, request, using, file, owner, restarts>>
  BY DEF Item, At
<1> HIDE DEF v
<1>6. TypeOK'
  BY <1>1, <1>3, <1>5 DEF TypeOK, Live
<1>7. thread'[j] = "progress" /\ value'[j] = v
  BY <1>1, <1>5 DEF TypeOK
<1>8. Job(j)'
  BY <1>1, <1>2, <1>3, <1>4, <1>5, <1>7 DEF Job, Live, Counting, Fits, Adds
<1>9. QED BY <1>6, <1>8

LEMMA ProgressKnows ==
  ASSUME IInv, NEW j \in Jobs, Progress(j)
  PROVE  TypeOK' /\ Job(j)'
<1>1. TypeOK /\ Job(j) /\ thread[j] = "progress"
  BY DEF IInv, Progress, At
<1>2. /\ value[j] \in Values /\ Adds(value[j]) /\ value[j].status = "running"
      /\ owner[j] \in Managers /\ active[owner[j]] = j
  BY <1>1 DEF Job, Live, Counting
<1>3. /\ thread' = [thread EXCEPT ![j] = "item"]
      /\ file' = [file EXCEPT ![j] = value[j]]
      /\ UNCHANGED <<manager, active, request, using, value, owner, restarts>>
  BY DEF Progress, At, Saves
<1>4. TypeOK'
  BY <1>1, <1>2, <1>3 DEF TypeOK, Live
<1>5. thread'[j] = "item" /\ file'[j] = value[j]
  BY <1>1, <1>3 DEF TypeOK
<1>6. Job(j)'
  BY <1>2, <1>3, <1>5 DEF Job, Live, Counting, Fits, Adds
<1>7. QED BY <1>4, <1>6

(* The three ways to the finally clause give the dict its last status. *)
LEMMA LastStatusKnows ==
  ASSUME IInv, NEW j \in Jobs, NEW s \in Terminal,
         thread[j] \in {"item", "progress"},
         thread' = [thread EXCEPT ![j] = "finally"],
         value' = [value EXCEPT ![j].status = s],
         Raises(j, value[j]),
         UNCHANGED <<manager, active, request, using, owner, restarts>>,
         Fits([value[j] EXCEPT !.status = s])
  PROVE  TypeOK' /\ Job(j)'
<1> DEFINE v == [value[j] EXCEPT !.status = s]
<1>1. TypeOK /\ Job(j)
  BY DEF IInv
<1>2. /\ value[j] \in Values /\ Adds(value[j]) /\ value[j].status = "running"
      /\ owner[j] \in Managers /\ active[owner[j]] = j
      /\ file[j] \in Values
      /\ file[j] # None => Fits(file[j])
  BY <1>1 DEF Job, Live, Counting
<1>3. v \in Values /\ v.status = s /\ v.processed = value[j].processed
  BY <1>2, StatusType
<1>4. value[j].processed \in Nat /\ file[j].processed \in Nat
  BY <1>2, TotalAssumption DEF Values
<1>5. file[j].status = "running" /\ value[j].processed <= file[j].processed + 1
  BY <1>1, <1>4 DEF Job
<1>6. Fits(value[j]) /\ Fits(v)
  BY <1>2 DEF Fits
<1>7. value' = [value EXCEPT ![j] = v]
  OBVIOUS
<1>8. file' = file \/ file' = [file EXCEPT ![j] = value[j]]
  BY DEF Raises, Saves
<1> HIDE DEF v
<1>9. TypeOK'
  BY <1>1, <1>2, <1>3, <1>7, <1>8 DEF TypeOK, Live
<1>10. thread'[j] = "finally" /\ value'[j] = v /\ file'[j] \in {file[j], value[j]}
  BY <1>1, <1>7, <1>8 DEF TypeOK
<1>11. /\ file'[j] \in Values
       /\ file'[j] # None => Fits(file'[j])
       /\ file'[j].status = "running" /\ v.processed <= file'[j].processed + 1
  BY <1>2, <1>3, <1>4, <1>5, <1>6, <1>10
<1>12. Job(j)'
  BY <1>2, <1>3, <1>6, <1>10, <1>11 DEF Job, Live, Counting, Fits, Adds
<1>13. QED BY <1>9, <1>12

LEMMA FailedKnows ==
  ASSUME IInv, NEW j \in Jobs, ItemRaises(j) \/ ProgressRaises(j)
  PROVE  TypeOK' /\ Job(j)'
<1>1. /\ thread[j] \in {"item", "progress"}
      /\ thread' = [thread EXCEPT ![j] = "finally"]
      /\ value' = [value EXCEPT ![j].status = "failed"]
      /\ Raises(j, value[j])
      /\ UNCHANGED <<manager, active, request, using, owner, restarts>>
  BY DEF ItemRaises, ProgressRaises, At, Raises
<1>2. value[j] \in Values /\ Adds(value[j])
  BY <1>1 DEF IInv, Job, Counting
<1>3. Fits([value[j] EXCEPT !.status = "failed"])
  BY <1>2, StatusType DEF Fits, Adds, Terminal
<1>4. QED BY <1>1, <1>3, LastStatusKnows DEF Terminal

LEMMA CompleteKnows ==
  ASSUME IInv, NEW j \in Jobs, Complete(j)
  PROVE  TypeOK' /\ Job(j)'
<1> DEFINE s == IF value[j].counts["failed"] > 0 THEN "completed_with_errors" ELSE "completed"
           v == [value[j] EXCEPT !.status = s]
<1>1. /\ thread[j] = "item" /\ ~Pending(j)
      /\ thread' = [thread EXCEPT ![j] = "finally"]
      /\ value' = [value EXCEPT ![j].status = s]
      /\ Raises(j, value[j])
      /\ UNCHANGED <<manager, active, request, using, owner, restarts>>
  BY DEF Complete, At, Raises
<1>2. value[j] \in Values /\ Adds(value[j])
  BY <1>1 DEF IInv, Job, Counting
<1>3. value[j].processed = Total /\ value[j].counts["failed"] \in 0..Total
  BY <1>1, <1>2, TotalAssumption DEF Pending, Values, Results
<1>4. s \in Terminal
  BY DEF Terminal
<1>5. s = "completed" => value[j].counts["failed"] = 0
  BY <1>3, TotalAssumption
<1>6. s = "completed_with_errors" => value[j].counts["failed"] > 0
  OBVIOUS
<1> HIDE DEF s
<1>7. v.status = s /\ v.processed = value[j].processed /\ v.counts = value[j].counts
  BY <1>2, <1>4, StatusType
<1>8. Fits(v)
  BY <1>2, <1>3, <1>4, <1>5, <1>6, <1>7 DEF Fits, Adds, Terminal
<1>9. QED BY <1>1, <1>4, <1>8, LastStatusKnows

LEMMA FinallyKnows ==
  ASSUME IInv, NEW j \in Jobs, Finally(j) \/ FinallyRaises(j)
  PROVE  TypeOK' /\ Job(j)'
<1>1. TypeOK /\ Job(j) /\ thread[j] = "finally"
  BY DEF IInv, Finally, FinallyRaises, At
<1>2. /\ value[j] \in Values /\ Adds(value[j]) /\ Fits(value[j])
      /\ owner[j] \in Managers /\ active[owner[j]] = j
      /\ file[j] # None => Fits(file[j])
  BY <1>1 DEF Job, Live, Counting
<1>3. CASE Finally(j)
  <2>1. /\ thread' = [thread EXCEPT ![j] = "release"]
        /\ file' = [file EXCEPT ![j] = value[j]]
        /\ UNCHANGED <<manager, active, request, using, value, owner, restarts>>
    BY <1>3 DEF Finally, At, Saves
  <2>2. TypeOK'
    BY <1>1, <1>2, <2>1 DEF TypeOK, Live
  <2>3. thread'[j] = "release" /\ file'[j] = value[j]
    BY <1>1, <2>1 DEF TypeOK
  <2>4. Job(j)'
    BY <1>2, <2>1, <2>3 DEF Job, Live, Counting, Fits, Adds
  <2>5. QED BY <2>2, <2>4
<1>4. CASE FinallyRaises(j)
  <2>1. /\ thread' = [thread EXCEPT ![j] = "raised"]
        /\ file' = file \/ file' = [file EXCEPT ![j] = value[j]]
        /\ EndThread(j)
        /\ UNCHANGED <<manager, active, request, using, restarts>>
    BY <1>4 DEF FinallyRaises, At, Raises, Saves
  <2>2. TypeOK'
    BY <1>1, <1>2, <2>1 DEF TypeOK, EndThread
  <2>3. thread'[j] = "raised" /\ file'[j] \in {file[j], value[j]}
    BY <1>1, <2>1 DEF TypeOK
  <2>4. Job(j)'
    BY <1>1, <1>2, <2>1, <2>3, DeadKnows
  <2>5. QED BY <2>2, <2>4
<1>5. QED BY <1>3, <1>4

LEMMA ReleaseKnows ==
  ASSUME IInv, NEW j \in Jobs, Release(j)
  PROVE  TypeOK' /\ Job(j)'
<1>1. TypeOK /\ Job(j)
  BY DEF IInv
<1>2. /\ thread' = [thread EXCEPT ![j] = "ended"]
      /\ active' = [active EXCEPT ![owner[j]] = None]
      /\ EndThread(j)
      /\ UNCHANGED <<manager, request, using, file, restarts>>
  BY DEF Release, At
<1>3. TypeOK'
  BY <1>1, <1>2 DEF TypeOK, EndThread
<1>4. thread'[j] = "ended" /\ file' = file
  BY <1>1, <1>2 DEF TypeOK
<1>5. Job(j)'
  BY <1>1, <1>2, <1>4, DeadKnows DEF Job
<1>6. QED BY <1>3, <1>5

LEMMA RunKnows ==
  ASSUME IInv, NEW j \in Jobs, Run(j)
  PROVE  TypeOK' /\ Job(j)'
BY BeginKnows, BeginRaisesKnows, ItemKnows, ProgressKnows, FailedKnows, CompleteKnows,
   FinallyKnows, ReleaseKnows DEF Run

-------------------------------------------------------------------------------
(* Requests and restarts. *)
LEMMA RequestKnows ==
  ASSUME IInv, NEW r \in Requests,
         FindManager(r) \/ CreateManager(r) \/ StartRefused(r)
  PROVE  TypeOK' /\ \A j \in Jobs : Job(j)'
<1> USE DEF TypeOK, Answered, Managers
<1>1. TypeOK /\ \A j \in Jobs : Job(j)
  BY DEF IInv
<1>2. TypeOK'
  BY <1>1 DEF FindManager, CreateManager, StartRefused
<1>3. ASSUME NEW j \in Jobs PROVE Job(j)'
  <2>1. Stays(j)
    BY DEF FindManager, CreateManager, StartRefused, Stays
  <2>2. QED BY <1>1, <2>1, JobSurvives
<1>4. QED BY <1>2, <1>3

LEMMA StartKnows ==
  ASSUME IInv, NEW r \in Requests, NEW j \in Jobs, Start(r, j)
  PROVE  TypeOK' /\ \A i \in Jobs : Job(i)'
<1>1. TypeOK /\ \A i \in Jobs : Job(i)
  BY DEF IInv
<1>2. /\ request[r] = "start" /\ active[using[r]] = None /\ thread[j] = "none"
      /\ request' = [request EXCEPT ![r] = "idle"]
      /\ using' = [using EXCEPT ![r] = None]
      /\ file' = [file EXCEPT ![j] = Queued]
      /\ active' = [active EXCEPT ![using[r]] = j]
      /\ thread' = [thread EXCEPT ![j] = "begin"]
      /\ owner' = [owner EXCEPT ![j] = using[r]]
      /\ UNCHANGED <<manager, value, restarts>>
  BY DEF Start, Answered, Busy, Fresh, Saves
<1>3. using[r] \in Managers
  BY <1>2 DEF IInv, Request
<1>4. TypeOK'
  BY <1>1, <1>2, <1>3, QueuedType DEF TypeOK, Live
<1>5. Job(j)'
  <2>1. value[j] = None
    BY <1>1, <1>2 DEF Job, Live
  <2>2. /\ thread'[j] = "begin" /\ file'[j] = Queued /\ value'[j] = None
        /\ owner'[j] = using[r] /\ active'[using[r]] = j
    BY <1>1, <1>2, <1>3, <2>1 DEF TypeOK
  <2>3. Queued' = Queued
    BY DEF Queued
  <2>4. QED BY <1>3, <2>2, <2>3, QueuedType DEF Job, Live, Counting, Fits, Adds
<1>6. ASSUME NEW i \in Jobs \ {j} PROVE Job(i)'
  <2>1. thread[i] \in Live => owner[i] # using[r]
    BY <1>1, <1>2, NoneAssumption DEF Job
  <2>2. Stays(i)
    BY <1>1, <1>2, <2>1 DEF Stays, TypeOK, Job
  <2>3. QED BY <1>1, <2>2, JobSurvives
<1>7. QED BY <1>4, <1>5, <1>6

LEMMA StartRaisesKnows ==
  ASSUME IInv, NEW r \in Requests, NEW j \in Jobs, StartRaises(r, j)
  PROVE  TypeOK' /\ \A i \in Jobs : Job(i)'
<1>1. TypeOK /\ \A i \in Jobs : Job(i)
  BY DEF IInv
<1>2. /\ thread[j] = "none"
      /\ request' = [request EXCEPT ![r] = "idle"]
      /\ using' = [using EXCEPT ![r] = None]
      /\ file' = file \/ file' = [file EXCEPT ![j] = Queued]
      /\ UNCHANGED <<manager, active, value, thread, owner, restarts>>
  BY DEF StartRaises, Answered, Fresh, Raises, Saves
<1>3. TypeOK'
  BY <1>1, <1>2, QueuedType DEF TypeOK
<1>4. ASSUME NEW i \in Jobs PROVE Job(i)'
  <2>1. CASE file'[i] = file[i]
    <3>1. Stays(i)
      BY <1>2, <2>1 DEF Stays
    <3>2. QED BY <1>1, <3>1, JobSurvives
  <2>2. CASE file'[i] # file[i]
    <3>1. i = j /\ file'[j] = Queued
      BY <1>1, <1>2, <2>2 DEF TypeOK
    <3>2. thread'[j] = "none" /\ value'[j] = None
      BY <1>1, <1>2 DEF Job, Live
    <3>3. QED BY <3>1, <3>2, QueuedType DEF Job, Live, Counting, Fits, Adds
  <2>3. QED BY <2>1, <2>2
<1>5. QED BY <1>3, <1>4

LEMMA StartsNoThreadKnows ==
  ASSUME IInv, NEW r \in Requests, NEW j \in Jobs, StartsNoThread(r, j)
  PROVE  TypeOK' /\ \A i \in Jobs : Job(i)'
<1>1. TypeOK /\ \A i \in Jobs : Job(i)
  BY DEF IInv
<1>2. /\ request[r] = "start" /\ active[using[r]] = None /\ thread[j] = "none"
      /\ request' = [request EXCEPT ![r] = "idle"]
      /\ using' = [using EXCEPT ![r] = None]
      /\ file' = [file EXCEPT ![j] = Queued]
      /\ active' = [active EXCEPT ![using[r]] = j]
      /\ UNCHANGED <<manager, value, thread, owner, restarts>>
  BY DEF StartsNoThread, Answered, Busy, Fresh, Saves
<1>3. TypeOK'
  BY <1>1, <1>2, QueuedType DEF TypeOK
<1>4. Job(j)'
  <2>1. thread'[j] = "none" /\ value'[j] = None /\ file'[j] = Queued
    BY <1>1, <1>2 DEF TypeOK, Job, Live
  <2>2. QED BY <2>1, QueuedType DEF Job, Live, Counting, Fits, Adds
<1>5. ASSUME NEW i \in Jobs \ {j} PROVE Job(i)'
  <2>1. thread[i] \in Live => owner[i] # using[r]
    BY <1>1, <1>2, NoneAssumption DEF Job
  <2>2. Stays(i)
    BY <1>1, <1>2, <2>1 DEF Stays, TypeOK, Job
  <2>3. QED BY <1>1, <2>2, JobSurvives
<1>6. QED BY <1>3, <1>4, <1>5

LEMMA RestartKnows ==
  ASSUME IInv, Restart
  PROVE  TypeOK' /\ \A j \in Jobs : Job(j)'
<1>1. TypeOK /\ \A j \in Jobs : Job(j)
  BY DEF IInv
<1>2. TypeOK'
  BY <1>1, RestartsAssumption DEF Restart, TypeOK, Live
<1>3. ASSUME NEW j \in Jobs PROVE Job(j)'
  <2>1. thread'[j] \notin Live /\ value'[j] = None /\ file'[j] = file[j]
    BY <1>1 DEF Restart, TypeOK, Live
  <2>2. QED BY <1>1, <2>1 DEF Job, Live, Counting, Fits, Adds
<1>4. QED BY <1>2, <1>3

LEMMA UsingKnown ==
  ASSUME IInv, [Next]_vars, NEW r \in Requests
  PROVE  Request(r)'
<1>1. TypeOK /\ Request(r)
  BY DEF IInv
<1>2. ASSUME NEW q \in Requests,
             \/ FindManager(q) \/ CreateManager(q) \/ StartRefused(q)
             \/ \E j \in Jobs : Start(q, j) \/ StartRaises(q, j) \/ StartsNoThread(q, j)
      PROVE  Request(r)'
  <2>1. CASE FindManager(q)
    BY <1>1, <2>1 DEF FindManager, TypeOK, Request, Managers
  <2>2. CASE CreateManager(q)
    BY <1>1, <2>2 DEF CreateManager, TypeOK, Request, Managers
  <2>3. CASE StartRefused(q) \/ \E j \in Jobs : Start(q, j) \/ StartRaises(q, j) \/ StartsNoThread(q, j)
    BY <1>1, <2>3 DEF StartRefused, Start, StartRaises, StartsNoThread, Answered, TypeOK, Request
  <2>4. QED BY <1>2, <2>1, <2>2, <2>3
<1>3. ASSUME NEW j \in Jobs, Run(j) PROVE Request(r)'
  BY <1>1, <1>3 DEF Run, Begin, BeginRaises, Item, ItemRaises, Progress, ProgressRaises,
     Complete, Finally, FinallyRaises, Release, Request
<1>4. CASE Restart
  BY <1>4 DEF Restart, Request
<1>5. CASE UNCHANGED vars
  BY <1>1, <1>5 DEF vars, Request
<1>6. QED BY <1>2, <1>3, <1>4, <1>5 DEF Next

-------------------------------------------------------------------------------
LEMMA InitInv == Init => IInv
<1> SUFFICES ASSUME Init PROVE IInv
  OBVIOUS
<1>1. TypeOK
  BY RestartsAssumption DEF Init, TypeOK
<1>2. \A j \in Jobs : Job(j)
  BY DEF Init, Job, Live, Counting
<1>3. \A r \in Requests : Request(r)
  BY DEF Init, Request
<1>4. QED BY <1>1, <1>2, <1>3 DEF IInv

LEMMA StepInv ==
  ASSUME IInv, [Next]_vars
  PROVE  IInv'
<1>1. TypeOK' /\ \A j \in Jobs : Job(j)'
  <2>1. ASSUME NEW r \in Requests,
               \/ FindManager(r) \/ CreateManager(r) \/ StartRefused(r)
               \/ \E j \in Jobs : Start(r, j) \/ StartRaises(r, j) \/ StartsNoThread(r, j)
        PROVE  TypeOK' /\ \A j \in Jobs : Job(j)'
    BY <2>1, RequestKnows, StartKnows, StartRaisesKnows, StartsNoThreadKnows
  <2>2. ASSUME NEW j \in Jobs, Run(j)
        PROVE  TypeOK' /\ \A i \in Jobs : Job(i)'
    <3>1. TypeOK' /\ Job(j)'
      BY <2>2, RunKnows
    <3>2. ASSUME NEW i \in Jobs \ {j} PROVE Job(i)'
      BY <2>2, OthersStay, JobSurvives DEF IInv
    <3>3. QED BY <3>1, <3>2
  <2>3. CASE Restart
    BY <2>3, RestartKnows
  <2>4. CASE UNCHANGED vars
    <3>1. TypeOK'
      BY <2>4 DEF IInv, TypeOK, vars
    <3>2. \A j \in Jobs : Stays(j)
      BY <2>4 DEF Stays, vars
    <3>3. QED BY <3>1, <3>2, JobSurvives DEF IInv
  <2>5. QED BY <2>1, <2>2, <2>3, <2>4 DEF Next
<1>2. \A r \in Requests : Request(r)'
  BY UsingKnown
<1>3. QED BY <1>1, <1>2 DEF IInv

(* A file is written only while it says that the job is not over. *)
LEMMA FileKept ==
  ASSUME IInv, [Next]_vars, NEW j \in Jobs, file[j] # None, file[j].status \in Terminal
  PROVE  file'[j] = file[j]
<1>1. TypeOK /\ Job(j)
  BY DEF IInv
<1>2. thread[j] \notin {"begin", "progress", "finally"}
  BY <1>1, QueuedType DEF Job, Terminal
<1>3. ASSUME NEW i \in Jobs, Run(i) PROVE file'[j] = file[j]
  <2>1. \/ file' = file
        \/ thread[i] \in {"begin", "progress", "finally"}
           /\ \E v : file' = [file EXCEPT ![i] = v]
    BY <1>3 DEF Run, Begin, BeginRaises, Item, ItemRaises, Progress, ProgressRaises, Complete,
       Finally, FinallyRaises, Release, At, Saves, Raises
  <2>2. QED BY <1>1, <1>2, <2>1 DEF TypeOK
<1>4. ASSUME NEW r \in Requests, NEW i \in Jobs,
             Start(r, i) \/ StartRaises(r, i) \/ StartsNoThread(r, i)
      PROVE  file'[j] = file[j]
  BY <1>1, <1>4 DEF Start, StartRaises, StartsNoThread, Fresh, Saves, Raises, TypeOK
<1>5. ASSUME NEW r \in Requests, FindManager(r) \/ CreateManager(r) \/ StartRefused(r)
      PROVE  file'[j] = file[j]
  BY <1>5 DEF FindManager, CreateManager, StartRefused
<1>6. CASE Restart \/ UNCHANGED vars
  BY <1>6 DEF Restart, vars
<1>7. QED BY <1>3, <1>4, <1>5, <1>6 DEF Next

(* How thread, dict, file and manager of every job agree is inductive.     *)
THEOREM JobsHold == Spec => []IInv
<1>1. QED BY InitInv, StepInv, PTL DEF Spec

(* No request, thread, failing save or restart leaves a malformed record.  *)
THEOREM TypeCorrect == Spec => []TypeOK
<1>1. IInv => TypeOK
  BY DEF IInv
<1>2. QED BY JobsHold, <1>1, PTL

(* What a poll of a job returns adds up, failing saves included, and its   *)
(* status says no more than was done, for any number of questions.         *)
THEOREM FilesAddUp == Spec => []JobFilesAddUp
<1>1. IInv => JobFilesAddUp
  BY DEF IInv, Job, Fits, Adds, JobFilesAddUp
<1>2. QED BY JobsHold, <1>1, PTL

(* The manager of a live thread has that thread's job as its active one,   *)
(* so it starts no second one, for any number of managers.                 *)
THEOREM ManagersHeld == Spec => []ThreadHoldsManager
<1>1. IInv => ThreadHoldsManager
  BY DEF IInv, Job, ThreadHoldsManager
<1>2. QED BY JobsHold, <1>1, PTL

(* A job that is cut off anywhere has lost at most its last item.          *)
THEOREM ProgressNeverLost == Spec => []ProgressKept
<1>1. IInv => ProgressKept
  <2>1. ASSUME IInv, NEW j \in Jobs, value[j] # None
        PROVE  value[j].processed <= file[j].processed + 1
    <3>1. TypeOK /\ Job(j)
      BY <2>1 DEF IInv
    <3>2. thread[j] \in Counting
      BY <2>1, <3>1 DEF TypeOK, Job, Live, Counting
    <3>3. value[j] \in Values /\ value[j].processed \in Nat
      BY <3>1, <3>2, TotalAssumption DEF Job, Values
    <3>4. QED BY <3>1, <3>2, <3>3 DEF Job, Counting
  <2>2. QED BY <2>1 DEF ProgressKept
<1>2. QED BY JobsHold, <1>1, PTL

(* A job file that says how the job ended is never written again, neither  *)
(* by its thread nor by a later start or after a restart.                  *)
THEOREM EndsStay == Spec => EndStays
<1>1. IInv /\ [Next]_vars =>
        [\A j \in Jobs : file[j] # None /\ file[j].status \in Terminal => file'[j] = file[j]]_vars
  BY FileKept
<1>2. QED BY JobsHold, <1>1, PTL DEF Spec, EndStays
===============================================================================
