--------------------------- MODULE QuestionCompiler ---------------------------
(***************************************************************************)
(* What generate_answers makes of one sentence: classify_unsupported, the  *)
(* translators or a semantic provider, validate_query, and assess_risk of  *)
(* the candidate.  AnswerWorkflow takes the result as its constant         *)
(* Outcome; OutcomeFits is what it assumes of it.                          *)
(*                                                                         *)
(* No provider is configured in the program; SemanticParser accepts one    *)
(* and its trees take the same way, and they reach what no rule writes.    *)
(***************************************************************************)
EXTENDS QueryRules

VARIABLES
  sentence,     \* the question
  stage,        \* what is done next
  translation,  \* what the parser returned: constraints and tree
  findings,     \* codes of the validation report, or "none"
  outcome       \* query, refused or failed, and the candidate's risk items

vars == <<sentence, stage, translation, findings, outcome>>

None  == [none |-> TRUE]
Codes == {"UNSUPPORTED", "INVALID_VALUE", "MISSING_REQUIRED_CONSTRAINT",
          "MUTUALLY_EXCLUSIVE_VALUES", "REQUIRED_AND_EXCLUDED", "REDUNDANT_DOUBLE_NEGATION"}
Items == {"SAFE_REJECTION", "REGEX", "COMPLEX_GROUPING", "ESCAPING", "FINGERPRINT",
          "CERTIFICATE_TLS"}

TypeOK ==
  /\ stage \in {"classify", "translate", "validate", "decide", "done"}
  /\ findings \in [reported : BOOLEAN, codes : SUBSET Codes]
  /\ outcome.status \in {"pending", "query", "refused", "failed"}
  /\ outcome.items \subseteq Items
  /\ stage = "done" <=> outcome.status # "pending"

Pending   == [status |-> "pending", items |-> {}]
NoReport  == [reported |-> FALSE, codes |-> {}]

(* A provider's intent may have a constraint its tree does not represent.  *)
Proposed == {[constraints |-> {p.ref : p \in Predicates(node)} \cup extra, node |-> node] :
               node \in Proposals, extra \in {{}, {99}}}

Init ==
  /\ sentence \in Sentences \cup {Sentence("provider", "text", <<>>)}
  /\ stage = "classify"
  /\ translation = None
  /\ findings = NoReport
  /\ outcome = Pending

-------------------------------------------------------------------------------
(* Fault: a result is set and the item goes on. *)
FallsThrough(status, items) ==
  /\ stage' = "decide"
  /\ outcome' = [status |-> status, items |-> items]

Ends(status, items) ==
  /\ stage' = "done"
  /\ outcome' = [status |-> status, items |-> items]

(* A candidate with the fixed text: assess_risk gives it one item. *)
Refuse == Ends("refused", {"SAFE_REJECTION"})
Fail   == Ends("failed", {})

ClassifyUnsupported ==
  /\ stage = "classify" /\ Unsupported(sentence)
  /\ Refuse
  /\ UNCHANGED <<sentence, translation, findings>>

ClassifySupported ==
  /\ stage = "classify" /\ ~Unsupported(sentence)
  /\ stage' = "translate"
  /\ UNCHANGED <<sentence, translation, findings, outcome>>

Translated(t) ==
  /\ translation' = t
  /\ stage' = "validate"
  /\ UNCHANGED <<sentence, findings, outcome>>

FromRules == sentence.form # "provider"

(* A rule matches, its captures can be read, and every And and Or it makes *)
(* has two children.                                                       *)
Translatable(s) ==
  ~Untranslated(s) /\ ~CaptureRaises(s) /\ WellFormed(Translation(s).node)

Translate ==
  /\ stage = "translate" /\ FromRules
  /\ Translatable(sentence)
  /\ Translated(Translation(sentence))

(* The item fails and no candidate is made. *)
TranslateFails ==
  /\ stage = "translate" /\ FromRules
  /\ ~Translatable(sentence)
  /\ Fail
  /\ UNCHANGED <<sentence, translation, findings>>

TranslateProposal ==
  /\ stage = "translate" /\ ~FromRules
  /\ \E t \in Proposed : Translated(t)

(* The provider answers with the text of a query, with what is no tree or  *)
(* for another question, or there is no provider: the item fails.          *)
ProposalRefused ==
  /\ stage = "translate" /\ ~FromRules
  /\ Fail
  /\ UNCHANGED <<sentence, translation, findings>>

Validate ==
  /\ stage = "validate"
  /\ findings' = [reported |-> TRUE, codes |-> Findings(translation.node, translation.constraints)]
  /\ stage' = "decide"
  /\ UNCHANGED <<sentence, translation, outcome>>

DecideInvalid ==
  /\ stage = "decide" /\ findings.codes # {}
  /\ Refuse
  /\ UNCHANGED <<sentence, translation, findings>>

(* Fault: only findings about values block. *)
DecideWellTyped ==
  /\ stage = "decide" /\ findings.codes \cap {"UNSUPPORTED", "INVALID_VALUE"} = {}
  /\ Ends("query", RiskCodes(translation.node))
  /\ UNCHANGED <<sentence, translation, findings>>

DecideValid ==
  /\ stage = "decide" /\ findings.codes = {}
  /\ Ends("query", RiskCodes(translation.node))
  /\ UNCHANGED <<sentence, translation, findings>>

Next ==
  \/ ClassifyUnsupported \/ ClassifySupported
  \/ Translate \/ TranslateFails \/ TranslateProposal \/ ProposalRefused
  \/ Validate \/ DecideInvalid \/ DecideValid

Spec == Init /\ [][Next]_vars

-------------------------------------------------------------------------------
(* What AnswerWorkflow assumes of an outcome: a query has a passing        *)
(* report, a rejection has a failing one or none, and a rejection always   *)
(* has an item to check.                                                   *)
Report == IF ~findings.reported THEN "none"
          ELSE IF findings.codes = {} THEN "valid" ELSE "invalid"

OutcomeFits ==
  /\ outcome.status = "query" => Report = "valid"
  /\ outcome.status = "refused" => Report # "valid" /\ outcome.items # {}

(* What the sentences with a tree of their own ask for, in words of what   *)
(* is found in an asset.                                                   *)
Asks(s, asset) ==
  LET Is(field, word) == Fact(field, "=", <<word, 0>>) \in asset
      At(field, number) == Fact(field, "=", <<"text", number>>) \in asset
  IN CASE s.form = "advanced.boolean.time" ->
            /\ Is("title", "Jenkins") \/ Is("body", "jenkins")
            /\ ~Is("country", "CN") /\ Is("after", "2026-08-01")
       [] s.form = "advanced.migration.urlscan" ->
            /\ Is("body", "login")
            /\ \E part \in {"bet", "casino", "kasino"} : Is("domain", part)
       [] s.form = "advanced.repair.fofa_precedence" ->
            /\ Is("app", "HFS")
            /\ At("port", 80) \/ (At("port", 8080) /\ At("status_code", 200))
       [] s.form = "advanced.ip.closed_range.ports" ->
            /\ \E address \in s.numbers[1]..s.numbers[2] : At("ip", address)
            /\ At("port", s.numbers[3]) \/ At("port", s.numbers[4])

Grouped == {"advanced.boolean.time", "advanced.migration.urlscan",
            "advanced.repair.fofa_precedence", "advanced.ip.closed_range.ports"}

(* The assets that tell a right tree from a wrong one: for a range, those  *)
(* just outside it and every address in it.                                *)
AssetsOf(s) ==
  IF s.form # "advanced.ip.closed_range.ports" THEN Assets(translation.node)
  ELSE LET n == s.numbers IN
       {{Fact("ip", "=", <<"text", a>>), Fact("port", "=", <<"text", p>>)} :
          a \in n[1] - 1 .. n[2] + 1, p \in {n[3], n[4], 0}}

(* A query made by a rule matches an asset exactly when the sentence asks  *)
(* for it: no alternative is lost between the pattern and the tree, and    *)
(* grouping is as the sentence has it.                                     *)
QueriesMatchSentences ==
  outcome.status = "query" /\ sentence.form \in Grouped =>
    \A asset \in AssetsOf(sentence) :
      Holds(translation.node, asset) <=> Asks(sentence, asset)

(* A sentence that a rule translates is refused only for what one of its   *)
(* predicates says, an operator or type the registry lacks or a value out  *)
(* of range: in the tree no constraint is left out, and its alternatives   *)
(* and numbers, a long range included, never count as contradictory.       *)
RulesFailOnPredicatesOnly ==
  FromRules => findings.codes \subseteq {"UNSUPPORTED", "INVALID_VALUE"}

(* What find_contradictions looks through: a requirement below an Or or a  *)
(* Not is none of the whole.  So when it reports two values of a field     *)
(* that has one, compared whole, or a value that is required and excluded, *)
(* there is a part of the tree, below no Not, that matches no asset.  Of   *)
(* the other fields nothing is claimed: an address and its network are     *)
(* reported too, and assets match both.                                    *)
ContradictionsAreReal ==
  findings.reported =>
    \A problem \in LogicProblems(translation.node) :
      Decided(translation.node, problem) =>
        \E path \in Visited(translation.node) :
          \A asset \in Assets(translation.node) : ~Truth(translation.node, asset)[path]

(* A query whose outermost connective has another one below it, a negated  *)
(* one included, is never confirmed without its grouping being checked.    *)
GroupingIsChecked ==
  /\ outcome.status = "query"
  /\ \E path \in DOMAIN translation.node :
       Len(path) = 1 /\ translation.node[path].kind # "predicate"
  => "COMPLEX_GROUPING" \in outcome.items

(* test_certificate_translation.py and test_advanced_translation.py give   *)
(* the query of these sentences.                                           *)
TestedSentencesGetQueries ==
  sentence.form \in {"certificate.tls_version.unexpired", "certificate.country.ja3s",
                     "advanced.domain.regex_two_single_labels"}
      /\ sentence.word = "text"
    => outcome.status # "refused"
===============================================================================
