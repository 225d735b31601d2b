------------------------------- MODULE SaveFiles -------------------------------
(***************************************************************************)
(* How files reach the disk.  JsonWorkspaceRepository.save_json writes a   *)
(* temporary sibling, syncs it, replaces the target with it and syncs the  *)
(* directory; _atomic_create of export_answers does the same for an answer *)
(* sheet, with a link, which never replaces.  Writers are threads of the   *)
(* web server and CLI processes; each system call may raise, a process may *)
(* be killed between two of them and the power may be lost.  What is in    *)
(* memory (the page cache) and what the disk may hold are kept apart.      *)
(***************************************************************************)
EXTENDS Integers

CONSTANTS
  Writers,     \* threads and processes that save
  Targets,     \* the files of the workspace, and answer sheets
  Sheets,      \* the answer sheets
  Fresh,       \* targets whose directory is made by the save (mkdir of the parents)
  MaxVersion,  \* bound: installs of one target
  None         \* no target

ASSUME TargetsAssumption ==
  /\ Sheets \subseteq Targets
  /\ Fresh \subseteq Targets
  /\ None \notin Targets

(* The content of a directory entry: its version (the installs of the      *)
(* target are counted) and the state of its bytes.  "dirty": whole in      *)
(* memory, not on the disk; "torn": what a power loss makes of that.       *)
Absent  == [version |-> 0, data |-> "none"]
Entries == {Absent} \cup [version : Nat \ {0}, data : {"empty", "dirty", "synced", "torn"}]

VARIABLES
  pc,      \* the last step of the save that w has done
  target,  \* what w is saving
  temp,    \* the bytes of w's temporary file (mkstemp: every save has its own)
  mine,    \* the version that w has installed
  entry,   \* the target's directory entry, as every process sees it
  disk,    \* the entries a power loss may leave
  acked    \* history: the newest version whose save returned

vars == <<pc, target, temp, mine, entry, disk, acked>>

Steps == {"idle", "opened", "written", "synced", "installed"}

TypeOK ==
  /\ pc \in [Writers -> Steps]
  /\ target \in [Writers -> Targets \cup {None}]
  /\ temp \in [Writers -> {"none", "empty", "dirty", "synced"}]
  /\ mine \in [Writers -> Nat]
  /\ entry \in [Targets -> Entries]
  /\ disk \in [Targets -> SUBSET Entries]
  /\ acked \in [Targets -> Nat]

Init ==
  /\ pc = [w \in Writers |-> "idle"]
  /\ target = [w \in Writers |-> None]
  /\ temp = [w \in Writers |-> "none"]
  /\ mine = [w \in Writers |-> 0]
  /\ entry = [t \in Targets |-> Absent]
  /\ disk = [t \in Targets |-> {Absent}]
  /\ acked = [t \in Targets |-> 0]

-------------------------------------------------------------------------------
(* mkstemp.  export_answers has seen no file at its output path before. *)
Open(w, t) ==
  /\ pc[w] = "idle"
  /\ t \in Sheets => entry[t] = Absent
  /\ pc' = [pc EXCEPT ![w] = "opened"]
  /\ target' = [target EXCEPT ![w] = t]
  /\ temp' = [temp EXCEPT ![w] = "empty"]
  /\ UNCHANGED <<mine, entry, disk, acked>>

(* write and flush: the bytes are in memory. *)
Write(w) ==
  /\ pc[w] = "opened"
  /\ pc' = [pc EXCEPT ![w] = "written"]
  /\ temp' = [temp EXCEPT ![w] = "dirty"]
  /\ UNCHANGED <<target, mine, entry, disk, acked>>

(* Fault: flush alone, taken for a sync. *)
FlushOnly(w) ==
  /\ pc[w] = "written"
  /\ pc' = [pc EXCEPT ![w] = "synced"]
  /\ UNCHANGED <<target, temp, mine, entry, disk, acked>>

(* fsync of the temporary file, and its close. *)
Sync(w) ==
  /\ pc[w] = "written"
  /\ pc' = [pc EXCEPT ![w] = "synced"]
  /\ temp' = [temp EXCEPT ![w] = "synced"]
  /\ UNCHANGED <<target, mine, entry, disk, acked>>

(* What installing w's temporary file makes of the target.  Until the      *)
(* directory is synced, a power loss may leave this entry or an older one. *)
Installs(w) ==
  LET t == target[w]
      e == [version |-> entry[t].version + 1, data |-> temp[w]]
  IN
  /\ pc[w] = "synced"
  /\ e.version <= MaxVersion
  /\ pc' = [pc EXCEPT ![w] = "installed"]
  /\ temp' = [temp EXCEPT ![w] = "none"]
  /\ mine' = [mine EXCEPT ![w] = e.version]
  /\ entry' = [entry EXCEPT ![t] = e]
  /\ disk' = [disk EXCEPT ![t] = @ \cup {e}]
  /\ UNCHANGED <<target, acked>>

Replace(w) == target[w] \notin Sheets /\ Installs(w)

(* Fault: a sheet moved into place like any other file. *)
LinkReplacing(w) == target[w] \in Sheets /\ Installs(w)

(* os.link makes the entry only if there is none, and the temporary name   *)
(* is unlinked.                                                            *)
Link(w) ==
  /\ target[w] \in Sheets
  /\ entry[target[w]] = Absent
  /\ Installs(w)

Ends(w) ==
  /\ pc' = [pc EXCEPT ![w] = "idle"]
  /\ target' = [target EXCEPT ![w] = None]
  /\ temp' = [temp EXCEPT ![w] = "none"]
  /\ mine' = [mine EXCEPT ![w] = 0]

Newest(m, n) == IF m > n THEN m ELSE n

(* Fault: the directory is not synced before the save returns. *)
ReturnUnsynced(w) ==
  LET t == target[w] IN
  /\ pc[w] = "installed"
  /\ acked' = [acked EXCEPT ![t] = Newest(@, mine[w])]
  /\ Ends(w)
  /\ UNCHANGED <<entry, disk>>

(* fsync of the directory and the return.  The directory's own name, when  *)
(* this save made it, is in a parent that is not synced.                   *)
Return(w) ==
  LET t == target[w] IN
  /\ pc[w] = "installed"
  /\ disk' = [disk EXCEPT ![t] = {entry[t]} \cup (IF t \in Fresh THEN {Absent} ELSE {})]
  /\ acked' = [acked EXCEPT ![t] = Newest(@, mine[w])]
  /\ Ends(w)
  /\ UNCHANGED entry

(* Fault: the install is tried again after the temporary file is gone. *)
RaiseRetrying(w) ==
  /\ pc[w] = "synced"
  /\ temp' = [temp EXCEPT ![w] = "none"]
  /\ UNCHANGED <<pc, target, mine, entry, disk, acked>>

(* Fault: a save that fails after the install takes its version away. *)
RaiseUndoing(w) ==
  /\ pc[w] # "idle"
  /\ entry' = IF pc[w] = "installed" THEN [entry EXCEPT ![target[w]] = Absent] ELSE entry
  /\ disk' = [t \in Targets |-> disk[t] \cup {entry'[t]}]
  /\ Ends(w)
  /\ UNCHANGED acked

(* A system call of the save raises (link also when the sheet exists), or  *)
(* the process is killed; either way the temporary name is never read.     *)
(* After the install the new version stays, although the caller is told    *)
(* that the file was not written.                                          *)
Raise(w) ==
  /\ pc[w] # "idle"
  /\ Ends(w)
  /\ UNCHANGED <<entry, disk, acked>>

AfterLoss(e) == IF e.data \in {"dirty", "empty"} THEN [e EXCEPT !.data = "torn"] ELSE e

(* Each target independently comes back as one of its entries on the disk. *)
PowerLoss ==
  /\ \E back \in [Targets -> UNION {disk[t] : t \in Targets}] :
       /\ \A t \in Targets : back[t] \in disk[t]
       /\ entry' = [t \in Targets |-> AfterLoss(back[t])]
       /\ disk' = [t \in Targets |-> {AfterLoss(back[t])}]
  /\ pc' = [w \in Writers |-> "idle"]
  /\ target' = [w \in Writers |-> None]
  /\ temp' = [w \in Writers |-> "none"]
  /\ mine' = [w \in Writers |-> 0]
  /\ UNCHANGED acked

Next ==
  \/ \E w \in Writers, t \in Targets : Open(w, t)
  \/ \E w \in Writers : Write(w) \/ Sync(w) \/ Replace(w) \/ Link(w) \/ Return(w) \/ Raise(w)
  \/ PowerLoss

Spec == Init /\ [][Next]_vars

-------------------------------------------------------------------------------
(* load_json reads the entry's version, or raises WorkspaceCorruptedError. *)
Unreadable(e) == e.data \notin {"dirty", "synced"}

(* Nobody ever reads half a file: at every moment, and after a power loss  *)
(* at every moment, a target is absent or loads (save_json syncs the bytes *)
(* before they get the target's name).                                     *)
NeverTorn ==
  \A t \in Targets :
    /\ entry[t] # Absent => ~ Unreadable(entry[t])
    /\ \A e \in disk[t] : e # Absent => ~ Unreadable(AfterLoss(e))

(* A save that returned is not undone: whatever is killed or raises in     *)
(* other writers of the same file, and whatever a power loss takes back,   *)
(* the version then found is at least as new as every version whose save   *)
(* returned.  Targets in a directory that the save made are excepted.      *)
AckedSurvives ==
  \A t \in Targets \ Fresh : \A e \in disk[t] \cup {entry[t]} : e.version >= acked[t]

(* An answer sheet is never replaced, by a second export to the same path  *)
(* in particular; only a power loss before its export returned undoes it.  *)
SheetsKept ==
  [][\A t \in Sheets :
       entry[t] # Absent =>
         \/ entry'[t] = entry[t]
         \/ entry'[t] = Absent /\ (acked[t] = 0 \/ t \in Fresh)]_vars

(* What a reader gets of each file. *)
Files == [t \in Targets |->
            IF entry[t] # Absent /\ Unreadable(entry[t]) THEN -1 ELSE entry[t].version]

(* Saving implements AtomicFile: whatever a save goes through, its file    *)
(* changes from one whole version to the next in one step, no later than   *)
(* the save returns.                                                       *)
AF == INSTANCE AtomicFile WITH Once <- Sheets, file <- Files, saving <- target

ImplementsAtomicFile == AF!Spec
===============================================================================
