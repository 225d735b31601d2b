------------------------------ MODULE AtomicFile ------------------------------
(***************************************************************************)
(* What the writers of a workspace rely on: a file changes from one whole  *)
(* version to the next in one step, somewhere between the call of a save   *)
(* and its end, and a version whose save returned is not lost, whatever    *)
(* fails.  A save that raises or is killed may or may not have installed   *)
(* its version, and a power loss may take back the versions nobody was     *)
(* told of.  SaveFiles implements this.                                    *)
(***************************************************************************)
EXTENDS Integers

CONSTANTS
  Writers,  \* threads and processes that save
  Targets,  \* the files
  Once,     \* files that are created and never replaced
  Fresh,    \* files whose directory the save itself had to make
  None      \* no file

VARIABLES
  file,    \* the version a reader of the file gets, 0 when there is none
  acked,   \* the newest version whose save returned
  saving,  \* the file a writer is saving
  mine     \* the version it has installed, 0 before that

vars == <<file, acked, saving, mine>>

Init ==
  /\ file = [t \in Targets |-> 0]
  /\ acked = [t \in Targets |-> 0]
  /\ saving = [w \in Writers |-> None]
  /\ mine = [w \in Writers |-> 0]

Call(w, t) ==
  /\ saving[w] = None
  /\ saving' = [saving EXCEPT ![w] = t]
  /\ UNCHANGED <<file, acked, mine>>

(* A file of Once is installed only when it is absent. *)
Install(w) ==
  LET t == saving[w] IN
  /\ t # None
  /\ mine[w] = 0
  /\ t \in Once => file[t] = 0
  /\ file' = [file EXCEPT ![t] = file[t] + 1]
  /\ mine' = [mine EXCEPT ![w] = file[t] + 1]
  /\ UNCHANGED <<acked, saving>>

Ends(w) ==
  /\ saving' = [saving EXCEPT ![w] = None]
  /\ mine' = [mine EXCEPT ![w] = 0]

Return(w) ==
  LET t == saving[w] IN
  /\ t # None
  /\ mine[w] # 0
  /\ acked' = [acked EXCEPT ![t] = IF acked[t] > mine[w] THEN acked[t] ELSE mine[w]]
  /\ Ends(w)
  /\ UNCHANGED file

(* It raises or its process is killed, before or after it took effect. *)
Fail(w) ==
  /\ saving[w] # None
  /\ Ends(w)
  /\ UNCHANGED <<file, acked>>

PowerLoss ==
  /\ file' \in [Targets -> Nat]
  /\ \A t \in Targets : /\ file'[t] <= file[t]
                        /\ t \notin Fresh => file'[t] >= acked[t]
  /\ saving' = [w \in Writers |-> None]
  /\ mine' = [w \in Writers |-> 0]
  /\ UNCHANGED acked

Next ==
  \/ \E w \in Writers, t \in Targets : Call(w, t)
  \/ \E w \in Writers : Install(w) \/ Return(w) \/ Fail(w)
  \/ PowerLoss

Spec == Init /\ [][Next]_vars
===============================================================================
