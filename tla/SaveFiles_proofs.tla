--------------------------- MODULE SaveFiles_proofs ---------------------------
(***************************************************************************)
(* SaveFiles keeps its promises for any number of writers and files.  The  *)
(* inductive invariant says what each step of a save may rely on (a writer *)
(* that is about to install has synced its bytes; a version that a writer  *)
(* has installed is not newer than the file) and that the entries a power  *)
(* loss may leave are whole and no newer than the one everybody sees.      *)
(***************************************************************************)
EXTENDS SaveFiles, TLAPS

(* What writer w has done of its save. *)
WriterFits(w) ==
  /\ pc[w] = "idle" <=> target[w] = None
  /\ pc[w] = "synced" => temp[w] = "synced"
  /\ pc[w] = "installed" => /\ mine[w] > 0
                            /\ mine[w] <= entry[target[w]].version
  /\ pc[w] # "installed" => mine[w] = 0

WholeEntry(e) == \/ e = Absent
                 \/ e.version > 0 /\ e.data = "synced"

(* What the disk may hold of target t. *)
TargetFits(t) ==
  /\ entry[t] \in disk[t]
  /\ \A e \in disk[t] : /\ WholeEntry(e)
                        /\ e.version <= entry[t].version
                        /\ t \notin Fresh => e.version >= acked[t]
                        /\ t \in Sheets => e \in {Absent, entry[t]}

IInv ==
  /\ TypeOK
  /\ \A w \in Writers : WriterFits(w)
  /\ \A t \in Targets : TargetFits(t)

(* A whole entry is what it was after a power loss. *)
LEMMA WholeAfterLoss ==
  ASSUME NEW e \in Entries, WholeEntry(e)
  PROVE  AfterLoss(e) = e
BY DEF WholeEntry, AfterLoss, Absent, Entries

LEMMA InitIInv == Init => IInv
BY TargetsAssumption
DEF Init, IInv, TypeOK, WriterFits, TargetFits, WholeEntry, Absent, Entries, Steps

-------------------------------------------------------------------------------
(* The steps of a save keep the types. *)
LEMMA OpenType ==
  ASSUME TypeOK, NEW w \in Writers, NEW t \in Targets, Open(w, t)
  PROVE  TypeOK'
BY DEF TypeOK, Open, Steps

LEMMA WriteType ==
  ASSUME TypeOK, NEW w \in Writers, Write(w)
  PROVE  TypeOK'
BY DEF TypeOK, Write, Steps

LEMMA SyncType ==
  ASSUME TypeOK, NEW w \in Writers, Sync(w)
  PROVE  TypeOK'
BY DEF TypeOK, Sync, Steps

(* What an install makes of the entry of its target. *)
LEMMA Installed ==
  ASSUME IInv, NEW w \in Writers, Installs(w)
  PROVE  /\ target[w] \in Targets
         /\ [version |-> entry[target[w]].version + 1, data |-> temp[w]] \in Entries
         /\ entry[target[w]].version \in Nat
         /\ temp[w] = "synced"
BY DEF IInv, TypeOK, WriterFits, Installs, Entries, Absent

LEMMA InstallsType ==
  ASSUME IInv, NEW w \in Writers, Installs(w)
  PROVE  TypeOK'
<1> DEFINE new == [version |-> entry[target[w]].version + 1, data |-> temp[w]]
<1>1. TypeOK  BY DEF IInv
<1>2. target[w] \in Targets /\ new \in Entries /\ new.version \in Nat
  BY Installed
<1>3. /\ entry' = [entry EXCEPT ![target[w]] = new]
      /\ disk' = [disk EXCEPT ![target[w]] = disk[target[w]] \cup {new}]
      /\ mine' = [mine EXCEPT ![w] = new.version]
  BY DEF Installs
<1> HIDE DEF new
<1>4. QED  BY <1>1, <1>2, <1>3 DEF TypeOK, Installs, Steps

LEMMA ReturnType ==
  ASSUME IInv, NEW w \in Writers, Return(w)
  PROVE  TypeOK'
<1>1. TypeOK /\ target[w] \in Targets  BY DEF IInv, TypeOK, WriterFits, Return
<1>2. Absent \in Entries  BY DEF Entries
<1>3. QED  BY <1>1, <1>2 DEF TypeOK, Return, Ends, Newest, Steps

LEMMA RaiseType ==
  ASSUME TypeOK, NEW w \in Writers, Raise(w)
  PROVE  TypeOK'
BY DEF TypeOK, Raise, Ends, Steps

(* A power loss leaves, of every target, an entry its disk may hold. *)
LEMMA LossLeaves ==
  ASSUME IInv, PowerLoss, NEW t \in Targets
  PROVE  /\ entry'[t] \in disk[t]
         /\ disk'[t] = {entry'[t]}
<1>1. PICK back \in [Targets -> UNION {disk[u] : u \in Targets}] :
        /\ \A u \in Targets : back[u] \in disk[u]
        /\ entry' = [u \in Targets |-> AfterLoss(back[u])]
        /\ disk' = [u \in Targets |-> {AfterLoss(back[u])}]
  BY DEF PowerLoss
<1>2. back[t] \in disk[t] /\ back[t] \in Entries  BY <1>1 DEF IInv, TypeOK
<1>3. WholeEntry(back[t])  BY <1>2 DEF IInv, TargetFits
<1>4. AfterLoss(back[t]) = back[t]  BY <1>2, <1>3, WholeAfterLoss
<1>5. QED  BY <1>1, <1>2, <1>4

LEMMA LossType ==
  ASSUME IInv, PowerLoss
  PROVE  TypeOK'
<1>1. TypeOK  BY DEF IInv
<1>2. \A t \in Targets : entry'[t] \in Entries /\ disk'[t] \in SUBSET Entries
  BY <1>1, LossLeaves DEF TypeOK
<1>3. entry' \in [Targets -> Entries]
  <2>1. entry' = [t \in Targets |-> entry'[t]]  BY DEF PowerLoss
  <2>2. QED  BY <1>2, <2>1
<1>4. disk' \in [Targets -> SUBSET Entries]
  <2>1. disk' = [t \in Targets |-> disk'[t]]  BY DEF PowerLoss
  <2>2. QED  BY <1>2, <2>1
<1>5. QED  BY <1>1, <1>3, <1>4 DEF TypeOK, PowerLoss, Steps

-------------------------------------------------------------------------------
(* A step of one writer leaves what the others have done valid: entries    *)
(* only get newer.                                                         *)
LEMMA OthersFit ==
  ASSUME IInv, NEW w \in Writers, NEW v \in Writers, v # w,
         \/ \E t \in Targets : Open(w, t)
         \/ Write(w) \/ Sync(w) \/ Installs(w) \/ Return(w) \/ Raise(w)
  PROVE  WriterFits(v)'
<1>1. TypeOK /\ WriterFits(v) /\ WriterFits(w)  BY DEF IInv
<1>2. /\ pc'[v] = pc[v] /\ target'[v] = target[v]
      /\ temp'[v] = temp[v] /\ mine'[v] = mine[v]
  BY <1>1 DEF TypeOK, Open, Write, Sync, Installs, Return, Raise, Ends
<1>3. \A t \in Targets : entry'[t].version >= entry[t].version
  <2>1. \A t \in Targets : entry[t].version \in Nat
    BY <1>1 DEF TypeOK, Entries, Absent
  <2>2. CASE Installs(w)
    BY <1>1, <2>1, <2>2, Installed DEF TypeOK, Installs
  <2>3. CASE ~ Installs(w)
    BY <2>1, <2>3 DEF Open, Write, Sync, Return, Raise
  <2>4. QED  BY <2>2, <2>3
<1>4. \A t \in Targets : entry[t].version \in Nat /\ entry'[t].version \in Nat
  <2>1. \A t \in Targets : entry[t].version \in Nat
    BY <1>1 DEF TypeOK, Entries, Absent
  <2>2. CASE Installs(w)
    BY <1>1, <2>1, <2>2, Installed DEF TypeOK, Installs
  <2>3. CASE ~ Installs(w)
    BY <2>1, <2>3 DEF Open, Write, Sync, Return, Raise
  <2>4. QED  BY <2>1, <2>2, <2>3
<1>5. target[v] \in Targets \cup {None} /\ mine[v] \in Nat  BY <1>1 DEF TypeOK
<1>6. pc[v] = "installed" => target[v] \in Targets  BY <1>1, <1>5 DEF WriterFits
<1>7. QED  BY <1>1, <1>2, <1>3, <1>4, <1>5, <1>6 DEF WriterFits

(* What a writer's own step establishes. *)
LEMMA OwnFits ==
  ASSUME IInv, NEW w \in Writers,
         \/ \E t \in Targets : Open(w, t)
         \/ Write(w) \/ Sync(w) \/ Installs(w) \/ Return(w) \/ Raise(w)
  PROVE  WriterFits(w)'
<1>1. TypeOK /\ WriterFits(w)  BY DEF IInv
<1>2. CASE \E t \in Targets : Open(w, t)
  BY <1>1, <1>2, TargetsAssumption DEF TypeOK, WriterFits, Open
<1>3. CASE Write(w)  BY <1>1, <1>3 DEF TypeOK, WriterFits, Write
<1>4. CASE Sync(w)  BY <1>1, <1>4 DEF TypeOK, WriterFits, Sync
<1>5. CASE Installs(w)
  <2>1. target[w] \in Targets /\ entry[target[w]].version \in Nat  BY <1>5, Installed
  <2>2. /\ pc'[w] = "installed" /\ target'[w] = target[w]
        /\ mine'[w] = entry[target[w]].version + 1
        /\ entry'[target[w]].version = entry[target[w]].version + 1
    BY <1>1, <1>5, <2>1 DEF TypeOK, Installs
  <2>3. QED  BY <2>1, <2>2, TargetsAssumption DEF WriterFits
<1>6. CASE Return(w)  BY <1>1, <1>6 DEF TypeOK, WriterFits, Return, Ends
<1>7. CASE Raise(w)  BY <1>1, <1>7 DEF TypeOK, WriterFits, Raise, Ends
<1>8. QED  BY <1>2, <1>3, <1>4, <1>5, <1>6, <1>7

(* An install adds one whole entry, newer than all the others; a link adds *)
(* it only beside Absent.                                                  *)
LEMMA InstallFits ==
  ASSUME IInv, NEW w \in Writers, Replace(w) \/ Link(w), NEW t \in Targets
  PROVE  TargetFits(t)'
<1>1. Installs(w) /\ TypeOK /\ TargetFits(t)  BY DEF Replace, Link, IInv
<1>2. CASE t # target[w]
  BY <1>1, <1>2 DEF TypeOK, Installs, TargetFits
<1>3. CASE t = target[w]
  <2> DEFINE new == [version |-> entry[t].version + 1, data |-> temp[w]]
  <2>1. /\ entry'[t] = new
        /\ disk'[t] = disk[t] \cup {new}
        /\ acked'[t] = acked[t]
    BY <1>1, <1>3 DEF TypeOK, Installs
  <2>2. entry[t].version \in Nat /\ temp[w] = "synced"  BY <1>1, <1>3, Installed
  <2>3. new.version = entry[t].version + 1 /\ new.data = "synced"  BY <2>2
  <2>4. WholeEntry(new)  BY <2>2, <2>3 DEF WholeEntry
  <2>5. \A e \in disk[t] : e.version \in Nat
    BY <1>1 DEF TypeOK, Entries, Absent
  <2>6. acked[t] \in Nat  BY <1>1 DEF TypeOK
  <2>7. t \in Sheets => \A e \in disk[t] : e = Absent
    BY <1>1, <1>3 DEF Replace, Link, TargetFits
  <2>8. entry[t] \in disk[t]  BY <1>1 DEF TargetFits
  <2> HIDE DEF new
  <2>9. \A e \in disk'[t] :
          /\ WholeEntry(e)
          /\ e.version <= entry'[t].version
          /\ t \notin Fresh => e.version >= acked'[t]
          /\ t \in Sheets => e \in {Absent, entry'[t]}
    <3> TAKE e \in disk'[t]
    <3>1. CASE e = new
      BY <2>1, <2>2, <2>3, <2>4, <2>5, <2>6, <2>8, <3>1, <1>1 DEF TargetFits
    <3>2. CASE e # new
      BY <2>1, <2>2, <2>3, <2>5, <2>6, <2>7, <3>2, <1>1 DEF TargetFits
    <3>3. QED  BY <3>1, <3>2
  <2>10. QED  BY <2>1, <2>9 DEF TargetFits
<1>4. QED  BY <1>2, <1>3

(* The directory sync leaves the newest entry only, so what this save      *)
(* acknowledges is on the disk, as is what any other writer installed.     *)
LEMMA ReturnFits ==
  ASSUME IInv, NEW w \in Writers, Return(w), NEW t \in Targets
  PROVE  TargetFits(t)'
<1>1. TypeOK /\ TargetFits(t) /\ WriterFits(w) /\ entry' = entry
  BY DEF IInv, Return
<1>2. CASE t # target[w]
  BY <1>1, <1>2 DEF TypeOK, Return, TargetFits
<1>3. CASE t = target[w]
  <2>1. /\ disk'[t] = {entry[t]} \cup (IF t \in Fresh THEN {Absent} ELSE {})
        /\ acked'[t] = Newest(acked[t], mine[w])
    BY <1>1, <1>3 DEF TypeOK, Return
  <2>2. mine[w] <= entry[t].version /\ mine[w] \in Nat /\ acked[t] \in Nat
    BY <1>1, <1>3 DEF TypeOK, WriterFits, Return
  <2>3. entry[t] \in disk[t] /\ entry[t].version \in Nat
    BY <1>1 DEF TypeOK, TargetFits, Entries, Absent
  <2>4. WholeEntry(entry[t]) /\ WholeEntry(Absent)
    BY <1>1, <2>3 DEF TargetFits, WholeEntry
  <2>5. t \notin Fresh => entry[t].version >= acked'[t]
    BY <1>1, <2>1, <2>2, <2>3 DEF TargetFits, Newest
  <2>6. Absent.version = 0  BY DEF Absent
  <2>7. QED  BY <1>1, <2>1, <2>3, <2>4, <2>5, <2>6 DEF TargetFits
<1>4. QED  BY <1>2, <1>3

LEMMA LossFits ==
  ASSUME IInv, PowerLoss, NEW t \in Targets
  PROVE  TargetFits(t)'
<1>1. TypeOK /\ TargetFits(t) /\ acked' = acked  BY DEF IInv, PowerLoss
<1>2. entry'[t] \in disk[t] /\ disk'[t] = {entry'[t]}  BY LossLeaves
<1>3. entry'[t].version \in Nat  BY <1>1, <1>2 DEF TypeOK, Entries, Absent
<1>4. QED  BY <1>1, <1>2, <1>3 DEF TargetFits

LEMMA StepIInv == IInv /\ [Next]_vars => IInv'
<1> SUFFICES ASSUME IInv, [Next]_vars PROVE IInv'
  OBVIOUS
<1>0. TypeOK  BY DEF IInv
<1>1. ASSUME NEW w \in Writers, NEW t \in Targets, Open(w, t) PROVE IInv'
  <2>1. TypeOK'  BY <1>0, <1>1, OpenType
  <2>2. \A v \in Writers : WriterFits(v)'  BY <1>1, OthersFit, OwnFits
  <2>3. \A u \in Targets : TargetFits(u)'  BY <1>1 DEF IInv, TargetFits, Open
  <2>4. QED  BY <2>1, <2>2, <2>3 DEF IInv
<1>2. ASSUME NEW w \in Writers, Write(w) PROVE IInv'
  <2>1. TypeOK'  BY <1>0, <1>2, WriteType
  <2>2. \A v \in Writers : WriterFits(v)'  BY <1>2, OthersFit, OwnFits
  <2>3. \A u \in Targets : TargetFits(u)'  BY <1>2 DEF IInv, TargetFits, Write
  <2>4. QED  BY <2>1, <2>2, <2>3 DEF IInv
<1>3. ASSUME NEW w \in Writers, Sync(w) PROVE IInv'
  <2>1. TypeOK'  BY <1>0, <1>3, SyncType
  <2>2. \A v \in Writers : WriterFits(v)'  BY <1>3, OthersFit, OwnFits
  <2>3. \A u \in Targets : TargetFits(u)'  BY <1>3 DEF IInv, TargetFits, Sync
  <2>4. QED  BY <2>1, <2>2, <2>3 DEF IInv
<1>4. ASSUME NEW w \in Writers, Replace(w) \/ Link(w) PROVE IInv'
  <2>0. Installs(w)  BY <1>4 DEF Replace, Link
  <2>1. TypeOK'  BY <2>0, InstallsType
  <2>2. \A v \in Writers : WriterFits(v)'  BY <2>0, OthersFit, OwnFits
  <2>3. \A u \in Targets : TargetFits(u)'  BY <1>4, InstallFits
  <2>4. QED  BY <2>1, <2>2, <2>3 DEF IInv
<1>5. ASSUME NEW w \in Writers, Return(w) PROVE IInv'
  <2>1. TypeOK'  BY <1>5, ReturnType
  <2>2. \A v \in Writers : WriterFits(v)'  BY <1>5, OthersFit, OwnFits
  <2>3. \A u \in Targets : TargetFits(u)'  BY <1>5, ReturnFits
  <2>4. QED  BY <2>1, <2>2, <2>3 DEF IInv
<1>6. ASSUME NEW w \in Writers, Raise(w) PROVE IInv'
  <2>1. TypeOK'  BY <1>0, <1>6, RaiseType
  <2>2. \A v \in Writers : WriterFits(v)'  BY <1>6, OthersFit, OwnFits
  <2>3. \A u \in Targets : TargetFits(u)'  BY <1>6 DEF IInv, TargetFits, Raise
  <2>4. QED  BY <2>1, <2>2, <2>3 DEF IInv
<1>7. ASSUME PowerLoss PROVE IInv'
  <2>1. TypeOK'  BY <1>7, LossType
  <2>2. \A v \in Writers : WriterFits(v)'  BY <1>7 DEF PowerLoss, WriterFits
  <2>3. \A u \in Targets : TargetFits(u)'  BY <1>7, LossFits
  <2>4. QED  BY <2>1, <2>2, <2>3 DEF IInv
<1>8. ASSUME UNCHANGED vars PROVE IInv'
  BY <1>8 DEF vars, IInv, TypeOK, WriterFits, TargetFits
<1>9. QED  BY <1>1, <1>2, <1>3, <1>4, <1>5, <1>6, <1>7, <1>8 DEF Next

-------------------------------------------------------------------------------
(* In every reachable state of any number of writers and files, each save  *)
(* has done what its step says and the disk holds only whole entries.      *)
THEOREM SavesFit == Spec => []IInv
<1>1. QED  BY InitIInv, StepIInv, PTL DEF Spec

(* No step of a save, raise, kill or power loss leaves a malformed entry. *)
THEOREM TypeCorrect == Spec => []TypeOK
<1>1. IInv => TypeOK  BY DEF IInv
<1>2. QED  BY <1>1, SavesFit, PTL

(* Half a file is never read. *)
THEOREM FilesNeverTorn == Spec => []NeverTorn
<1>1. IInv => NeverTorn
  <2> SUFFICES ASSUME IInv, NEW t \in Targets, NEW e \in disk[t], e # Absent
               PROVE  ~ Unreadable(e) /\ ~ Unreadable(AfterLoss(e))
    BY DEF IInv, NeverTorn, TargetFits
  <2>1. e \in Entries /\ WholeEntry(e)  BY DEF IInv, TypeOK, TargetFits
  <2>2. AfterLoss(e) = e  BY <2>1, WholeAfterLoss
  <2>3. QED  BY <2>1, <2>2 DEF WholeEntry, Unreadable
<1>2. QED  BY <1>1, SavesFit, PTL

(* What a returned save wrote survives every later failure and power loss. *)
THEOREM ReturnedSavesSurvive == Spec => []AckedSurvives
<1>1. IInv => AckedSurvives  BY DEF IInv, TargetFits, AckedSurvives
<1>2. QED  BY <1>1, SavesFit, PTL

(* A sheet is never replaced. *)
THEOREM SheetsNeverReplaced == Spec => SheetsKept
<1>1. ASSUME IInv, [Next]_vars, NEW t \in Sheets, entry[t] # Absent
      PROVE  \/ entry'[t] = entry[t]
             \/ entry'[t] = Absent /\ (acked[t] = 0 \/ t \in Fresh)
  <2>0. t \in Targets /\ TypeOK /\ TargetFits(t)  BY <1>1, TargetsAssumption DEF IInv
  <2>1. CASE \E w \in Writers : Replace(w) \/ Link(w)
    BY <2>0, <2>1, <1>1 DEF Replace, Link, Installs, TypeOK
  <2>2. CASE PowerLoss
    <3>1. entry'[t] \in disk[t]  BY <1>1, <2>0, <2>2, LossLeaves
    <3>2. entry'[t] \in {Absent, entry[t]}  BY <2>0, <3>1 DEF TargetFits
    <3>3. t \notin Fresh => entry'[t].version >= acked[t]
      BY <2>0, <3>1 DEF TargetFits
    <3>4. acked[t] \in Nat /\ Absent.version = 0  BY <2>0 DEF TypeOK, Absent
    <3>5. QED  BY <3>2, <3>3, <3>4
  <2>3. CASE /\ ~ \E w \in Writers : Replace(w) \/ Link(w)
             /\ ~ PowerLoss
    BY <1>1, <2>3 DEF Next, vars, Open, Write, Sync, Return, Raise
  <2>4. QED  BY <2>1, <2>2, <2>3
<1>2. IInv /\ [Next]_vars => [\A t \in Sheets :
         entry[t] # Absent =>
           \/ entry'[t] = entry[t]
           \/ entry'[t] = Absent /\ (acked[t] = 0 \/ t \in Fresh)]_vars
  BY <1>1
<1>3. QED  BY <1>2, SavesFit, PTL DEF Spec, SheetsKept

-------------------------------------------------------------------------------
(* Whole entries only: a reader gets the version of every entry. *)
EntriesRead ==
  /\ Files = [t \in Targets |-> entry[t].version]
  /\ \A t \in Targets : entry[t].version \in Nat

LEMMA FilesAreEntries == IInv => EntriesRead
<1> SUFFICES ASSUME IInv PROVE EntriesRead
  OBVIOUS
<1>1. \A t \in Targets : WholeEntry(entry[t]) /\ entry[t].version \in Nat
  BY DEF IInv, TypeOK, TargetFits, Entries, Absent
<1>2. \A t \in Targets : ~ (entry[t] # Absent /\ Unreadable(entry[t]))
  BY <1>1 DEF WholeEntry, Unreadable
<1>3. QED  BY <1>1, <1>2 DEF Files, EntriesRead

LEMMA FilesAreEntriesNext == IInv' => EntriesRead'
BY FilesAreEntries, PTL

LEMMA InitRefines == Init => AF!Init
BY DEF Init, AF!Init, Files, Absent

(* An install is the abstract one, and a link finds the file absent. *)
LEMMA InstallRefines ==
  ASSUME IInv, IInv', NEW w \in Writers, Replace(w) \/ Link(w)
  PROVE  AF!Install(w)
<1> DEFINE t == target[w]
<1>1. Installs(w) /\ TypeOK /\ t \in Targets /\ WriterFits(w)
  BY Installed DEF Replace, Link, IInv
<1>2. /\ Files = [u \in Targets |-> entry[u].version]
      /\ Files' = [u \in Targets |-> entry'[u].version]
  BY FilesAreEntries, FilesAreEntriesNext DEF EntriesRead
<1>3. Files' = [Files EXCEPT ![t] = Files[t] + 1]
  <2>1. entry'[t].version = entry[t].version + 1  BY <1>1 DEF Installs, TypeOK
  <2>2. \A u \in Targets : u # t => entry'[u] = entry[u]  BY <1>1 DEF Installs, TypeOK
  <2>3. QED  BY <1>1, <1>2, <2>1, <2>2
<1>4. mine' = [mine EXCEPT ![w] = Files[t] + 1]
  BY <1>1, <1>2 DEF Installs
<1>5. mine[w] = 0  BY <1>1 DEF WriterFits, Installs
<1>6. t \in Sheets => Files[t] = 0
  BY <1>1, <1>2 DEF Replace, Link, Absent
<1>7. t # None  BY <1>1, TargetsAssumption
<1>8. QED
  BY <1>1, <1>3, <1>4, <1>5, <1>6, <1>7 DEF Installs, AF!Install

LEMMA LossRefines ==
  ASSUME IInv, IInv', PowerLoss
  PROVE  AF!PowerLoss
<1>1. /\ Files = [u \in Targets |-> entry[u].version]
      /\ Files' = [u \in Targets |-> entry'[u].version]
      /\ \A u \in Targets : entry'[u].version \in Nat
  BY FilesAreEntries, FilesAreEntriesNext DEF EntriesRead
<1>2. \A t \in Targets : /\ entry'[t].version <= entry[t].version
                         /\ t \notin Fresh => entry'[t].version >= acked[t]
  BY LossLeaves DEF IInv, TargetFits
<1>3. QED  BY <1>1, <1>2 DEF PowerLoss, AF!PowerLoss

LEMMA StepRefines == IInv /\ IInv' /\ [Next]_vars => [AF!Next]_(AF!vars)
<1> SUFFICES ASSUME IInv, IInv', [Next]_vars PROVE [AF!Next]_(AF!vars)
  OBVIOUS
<1>0. /\ TypeOK
      /\ entry' = entry => Files' = Files
  BY DEF IInv, Files
<1>1. ASSUME NEW w \in Writers, NEW t \in Targets, Open(w, t) PROVE AF!Call(w, t)
  BY <1>0, <1>1 DEF IInv, WriterFits, Open, AF!Call
<1>2. ASSUME NEW w \in Writers, Write(w) \/ Sync(w) PROVE UNCHANGED AF!vars
  BY <1>0, <1>2 DEF Write, Sync, AF!vars
<1>3. ASSUME NEW w \in Writers, Replace(w) \/ Link(w) PROVE AF!Install(w)
  BY <1>3, InstallRefines
<1>4. ASSUME NEW w \in Writers, Return(w) PROVE AF!Return(w)
  <2>1. target[w] # None /\ mine[w] # 0
    BY <1>0, <1>4 DEF IInv, WriterFits, TypeOK, Return
  <2>2. QED  BY <1>0, <1>4, <2>1 DEF Return, Ends, Newest, AF!Return, AF!Ends
<1>5. ASSUME NEW w \in Writers, Raise(w) PROVE AF!Fail(w)
  BY <1>0, <1>5 DEF IInv, WriterFits, Raise, Ends, AF!Fail, AF!Ends
<1>6. ASSUME PowerLoss PROVE AF!PowerLoss
  BY <1>6, LossRefines
<1>7. ASSUME UNCHANGED vars PROVE UNCHANGED AF!vars
  BY <1>0, <1>7 DEF vars, AF!vars
<1>8. QED
  BY <1>1, <1>2, <1>3, <1>4, <1>5, <1>6, <1>7 DEF Next, AF!Next

(* Saving a file is as good as changing it in one step. *)
THEOREM RefinesAtomicFile == Spec => ImplementsAtomicFile
<1>1. QED  BY InitRefines, StepRefines, SavesFit, PTL DEF Spec, AF!Spec, ImplementsAtomicFile
===============================================================================
