--------------------------- MODULE CertifiedAnswers ---------------------------
(***************************************************************************)
(* What the files of one question promise whoever writes them at the same  *)
(* time: an answer is certified before it stands as the final one, and     *)
(* stays certified; an exporter takes the answer that stands, and          *)
(* publishes it only if it answered the draft at one moment since, however *)
(* often the draft and the standing answer have changed meanwhile; nothing *)
(* is published over what is published.                                    *)
(***************************************************************************)
CONSTANTS Exporters, None

VARIABLES
  draft,      \* the candidate worked on
  certified,  \* the answers that a review and a passing report support
  standing,   \* the final answer; its report names the candidate it answers
  taken,      \* what each exporter took, and whether it answered the draft
  published   \* the answer in the sheet

Nothing == [answer |-> None, agreed |-> FALSE]

Init ==
  /\ draft = None /\ certified = {} /\ standing = None
  /\ taken = [e \in Exporters |-> Nothing]
  /\ published = {}

Redraft ==
  /\ draft' # draft
  /\ UNCHANGED <<certified, standing, taken, published>>

Certify ==
  /\ certified \subseteq certified'
  /\ UNCHANGED <<draft, standing, taken, published>>

Declare ==
  /\ standing' \in certified
  /\ UNCHANGED <<draft, certified, taken, published>>

Withdraw ==
  /\ standing' = None
  /\ UNCHANGED <<draft, certified, taken, published>>

Take(e) ==
  /\ standing # None /\ published = {}
  /\ taken[e] = Nothing
  /\ taken' = [taken EXCEPT ![e] = [answer |-> standing, agreed |-> FALSE]]
  /\ UNCHANGED <<draft, certified, standing, published>>

Compare(e) ==
  /\ taken[e].answer # None
  /\ taken' = [taken EXCEPT ![e] = [answer |-> taken[e].answer,
                                    agreed |-> taken[e].answer.report = draft]]
  /\ UNCHANGED <<draft, certified, standing, published>>

Release(e) ==
  /\ taken' = [taken EXCEPT ![e] = Nothing]
  /\ UNCHANGED <<draft, certified, standing, published>>

Publish(e) ==
  /\ taken[e].agreed /\ published = {}
  /\ published' = {taken[e].answer}
  /\ taken' = [taken EXCEPT ![e] = Nothing]
  /\ UNCHANGED <<draft, certified, standing>>

Next ==
  \/ Redraft \/ Certify \/ Declare \/ Withdraw
  \/ \E e \in Exporters : Take(e) \/ Compare(e) \/ Release(e) \/ Publish(e)

Spec == Init /\ [][Next]_<<draft, certified, standing, taken, published>>
===============================================================================
