------------------------------ MODULE QueryTree ------------------------------
(***************************************************************************)
(* The query AST and what the validator and the risk rules compute from    *)
(* it.  A tree maps each path from the root (the empty path) to the node   *)
(* found there: child i of a node is at the node's path followed by i.  A  *)
(* walk of the code is the set of paths it comes by.                       *)
(*                                                                         *)
(* A predicate carries its field, operator, value type, value and the      *)
(* constraint it represents; a value is a word that stands for the text    *)
(* and a number (0 where the value is a text).  Rendering and the order    *)
(* normalize gives to children are left out: no property reads them.       *)
(***************************************************************************)
EXTENDS Naturals, Sequences, FiniteSetsExt

CONSTANTS
  MaxAsn,       \* the greatest AS number, 2^32 - 1
  ExactFields   \* external: the fields FOFA knows one value of and compares whole

ASSUME MaxAsnAssumption == MaxAsn \in Nat

(* The words a captured text stands for: one that needs escaping, one that *)
(* its value type refuses (a malformed address, a zero serial).            *)
Words == {"text", "escaped", "malformed"}

Predicate(field, op, type, word, number) ==
  [kind |-> "predicate", field |-> field, op |-> op, type |-> type,
   word |-> word, number |-> number, ref |-> 0]

Contains(field, word) == Predicate(field, "=", "text", word, 0)
Exact(field, word)    == Predicate(field, "==", "text", word, 0)
Excludes(field, word) == Predicate(field, "!=", "text", word, 0)
IsFalse(field)        == Predicate(field, "=", "boolean", "text", 0)
Equals(field, number) == Predicate(field, "=", "integer", "text", number)
Typed(field, type, word) == Predicate(field, "=", type, word, 0)

Leaf(p) == [path \in {<<>>} |-> p]

Below(trees) == UNION {{<<i>> \o q : q \in DOMAIN trees[i]} : i \in DOMAIN trees}

(* A connective and the trees it joins. *)
Join(kind, trees) ==
  [path \in {<<>>} \cup Below(trees) |->
     IF path = <<>> THEN [kind |-> kind, arity |-> Len(trees)]
     ELSE trees[Head(path)][Tail(path)]]

And(trees)  == Join("and", trees)
Or(trees)   == Join("or", trees)
Not(tree)   == Join("not", <<tree>>)
Group(tree) == Join("group", <<tree>>)

Kinds == {"and", "or", "not", "group", "predicate"}

Arity(label) == IF label.kind = "predicate" THEN 0 ELSE label.arity

(* A tree at most depth connectives deep: the children of every node are   *)
(* there, and each path leads from the root over children.                 *)
IsTree(t, depth) ==
  /\ <<>> \in DOMAIN t
  /\ \A path \in DOMAIN t :
       /\ path \in Seq(Nat) /\ Len(path) <= depth
       /\ t[path].kind \in Kinds
       /\ t[path].kind # "predicate" => t[path].arity \in Nat \ {0}
       /\ t[path].kind \in {"not", "group"} => t[path].arity = 1
       /\ \A i \in 1..Arity(t[path]) : Append(path, i) \in DOMAIN t
       /\ \A k \in 1..Len(path) :
            /\ SubSeq(path, 1, k - 1) \in DOMAIN t
            /\ path[k] \in 1..Arity(t[SubSeq(path, 1, k - 1)])

(* And and Or need two children; the constructor raises otherwise. *)
WellFormed(t) ==
  \A path \in DOMAIN t : t[path].kind \in {"and", "or"} => t[path].arity >= 2

(* The paths a walk comes by that starts at path and enters the children   *)
(* of nodes of these kinds only.                                           *)
Walk(t, path, kinds) ==
  {q \in DOMAIN t :
     /\ Len(path) <= Len(q) /\ SubSeq(q, 1, Len(path)) = path
     /\ \A k \in Len(path)..Len(q) - 1 : t[SubSeq(q, 1, k)].kind \in kinds}

PredicatesAt(t, paths) == {t[q] : q \in {q \in paths : t[q].kind = "predicate"}}

Predicates(t) == PredicatesAt(t, DOMAIN t)

(* Fault: the child of a Not or a Group is not walked. *)
DepthOfLists(t) == Max({Len(path) : path \in Walk(t, <<>>, {"and", "or"})})

(* _walk_ast: the depth of the tree, a predicate alone having 0. *)
Depth(t) == Max({Len(path) : path \in DOMAIN t})

-------------------------------------------------------------------------------
(* The field registry: the operators and value types of each field. *)
Every  == {"=", "==", "!=", "*=", "!*="}
Strict == {"=", "==", "!="}
Plain  == {"=", "!="}

Registry ==
  ({"ip"} \X Strict \X {"ipv4", "ipv6", "cidr"})
  \cup ({"port", "asn", "status_code"} \X Plain \X {"integer"})
  \cup ({"domain", "host", "cert.subject.cn", "cert.subject.org", "cert.issuer.cn",
         "cert.issuer.org", "cert.domain", "server"} \X Every \X {"text"})
  \cup ({"title", "body", "header", "banner"} \X Every \X {"text", "regex"})
  \cup ({"protocol", "country", "region", "city", "app"} \X Strict \X {"text"})
  \cup ({"cert", "tls.version"} \X Plain \X {"text"})
  \cup ({"cert.is_equal", "cert.is_valid", "cert.is_match", "cert.is_expired"}
          \X {"="} \X {"boolean"})
  \cup ({"cert.sn"} \X Plain \X {"certificate_serial"})
  \cup ({"jarm"} \X Plain \X {"hash"})
  \cup ({"tls.ja3s"} \X Every \X {"hash"})
  \cup ({"cert.not_after.after", "cert.not_after.before", "after", "before"}
          \X {"="} \X {"timestamp"})

Registered(p) == <<p.field, p.op, p.type>> \in Registry

(* validate_predicate_value; a text of the rules is never empty. *)
ValidValue(p) ==
  /\ p.type \in {"ipv4", "ipv6", "cidr", "timestamp", "hash", "certificate_serial", "regex"}
       => p.word # "malformed"
  /\ p.field = "port" => p.type = "integer" /\ p.number \in 1..65535
  /\ p.field = "asn" => p.type = "integer" /\ p.number <= MaxAsn
  /\ p.field = "status_code" => p.type = "integer" /\ p.number \in 100..599

-------------------------------------------------------------------------------
SingleValueFields == {"asn", "cert.is_equal", "cert.is_expired", "cert.is_match",
  "cert.is_valid", "cert.sn", "city", "country", "ip", "port", "region",
  "status_code", "tls.version"}

Value(p) == <<p.word, p.number>>

(* Fault: the alternatives of an Or are taken for requirements. *)
AndScopeThroughOr(t, path) == PredicatesAt(t, Walk(t, path, {"and", "or", "group"}))

(* _and_scope_predicates: what every match of the node has to satisfy. *)
AndScope(t, path) == PredicatesAt(t, Walk(t, path, {"and", "group"}))

Excluding == {"!=", "!==", "!*="}

Required(t, path) == {p \in AndScope(t, path) : p.op \in {"=", "=="}}
Excluded(t, path) == {p \in AndScope(t, path) : p.op \in Excluding}

(* Values are compared by their text, in every field. *)
TwoRequired(t, path, field) ==
  /\ t[path].kind = "and" /\ field \in SingleValueFields
  /\ \E p, q \in Required(t, path) :
       p.field = field /\ q.field = field /\ Value(p) # Value(q)

RequiredAndExcluded(t, path, field) ==
  /\ t[path].kind = "and"
  /\ \E p \in Required(t, path), q \in Excluded(t, path) :
       p.field = field /\ q.field = field /\ Value(p) = Value(q)

(* The nodes that visit reaches: it does not look below a Not. *)
Visited(t) == Walk(t, <<>>, {"and", "or", "group"})

DoubleNegation(t, path) ==
  t[path].kind = "not" /\ t[Append(path, 1)].kind = "not"

Problem(code, field) == [code |-> code, field |-> field]

(* find_contradictions *)
LogicProblems(t) ==
  LET fields == {p.field : p \in Predicates(t)}
      exclusive == {f \in fields : \E path \in Visited(t) : TwoRequired(t, path, f)}
      excluded == {f \in fields : \E path \in Visited(t) : RequiredAndExcluded(t, path, f)}
  IN {Problem("MUTUALLY_EXCLUSIVE_VALUES", f) : f \in exclusive}
     \cup {Problem("REQUIRED_AND_EXCLUDED", f) : f \in excluded}
     \cup {Problem("REDUNDANT_DOUBLE_NEGATION", "") :
              path \in {path \in Visited(t) : DoubleNegation(t, path)}}

(* validate_query: the codes of the findings, every one of them blocking. *)
Findings(t, constraints) ==
  (IF \E p \in Predicates(t) : ~Registered(p) THEN {"UNSUPPORTED"} ELSE {})
  \cup (IF \E p \in Predicates(t) : ~ValidValue(p) THEN {"INVALID_VALUE"} ELSE {})
  \cup (IF constraints \subseteq {p.ref : p \in Predicates(t)} THEN {}
        ELSE {"MISSING_REQUIRED_CONSTRAINT"})
  \cup {problem.code : problem \in LogicProblems(t)}

(* The registered fields that start with "cert." or "tls.". *)
CertificateFields ==
  {"cert.subject.cn", "cert.subject.org", "cert.issuer.cn", "cert.issuer.org", "cert.domain",
   "cert.is_equal", "cert.is_valid", "cert.is_match", "cert.is_expired", "cert.sn",
   "cert.not_after.after", "cert.not_after.before", "tls.version", "tls.ja3s"}

(* assess_risk of a query whose intent carries no warnings. *)
RiskCodes(t) ==
  LET ps == Predicates(t)
      fields == {p.field : p \in ps}
      Code(condition, code) == IF condition THEN {code} ELSE {}
  IN Code(\E p \in ps : p.type = "regex", "REGEX")
     \cup Code(Depth(t) >= 2, "COMPLEX_GROUPING")
     \cup Code(\E p \in ps : p.word = "escaped", "ESCAPING")
     \cup Code("jarm" \in fields, "FINGERPRINT")
     \cup Code(fields \cap CertificateFields # {}, "CERTIFICATE_TLS")

-------------------------------------------------------------------------------
(* What a query means.  An asset is what can be said of it: which values   *)
(* which operator finds in which field.  A text may contain several, an    *)
(* address lies in many networks; only an exact field has one value.  What *)
(* is equal is also found.                                                 *)
Fact(field, op, value) == [field |-> field, op |-> op, value |-> value]

IsAsset(asset) ==
  /\ \A fact \in asset : fact.op = "==" => Fact(fact.field, "=", fact.value) \in asset
  /\ \A fact, other \in asset :
       /\ fact.field \in ExactFields /\ other.field = fact.field
       /\ fact.op = "=" /\ other.op = "="
       => fact.value = other.value

Found(op) == CASE op = "!=" -> "=" [] op = "!==" -> "==" [] op = "!*=" -> "*=" [] OTHER -> op

Says(p) == Fact(p.field, Found(p.op), Value(p))

Matches(p, asset) == IF p.op \in Excluding THEN Says(p) \notin asset ELSE Says(p) \in asset

(* Truth gives the truth of every node. *)
TruthAt(t, asset, truth, path) ==
  LET label == t[path]
      child(i) == truth[Append(path, i)]
  IN \/ label.kind = "and" /\ \A i \in 1..label.arity : child(i)
     \/ label.kind = "or" /\ \E i \in 1..label.arity : child(i)
     \/ label.kind = "not" /\ ~child(1)
     \/ label.kind = "group" /\ child(1)
     \/ label.kind = "predicate" /\ Matches(label, asset)

Truth(t, asset) ==
  LET truth[path \in DOMAIN t] == TruthAt(t, asset, truth, path) IN truth

Holds(t, asset) == Truth(t, asset)[<<>>]

(* The assets that differ in what the query asks about. *)
Assets(t) ==
  LET asked == UNION {{Says(p), Fact(p.field, "=", Value(p))} : p \in Predicates(t)}
  IN {asset \in SUBSET asked : IsAsset(asset)}

(* A problem whose requirements exclude each other by what the operators   *)
(* mean, and not only as texts: two values of an exact field, or a value   *)
(* found and not found.                                                    *)
Decided(t, problem) ==
  \/ problem.code = "MUTUALLY_EXCLUSIVE_VALUES" /\ problem.field \in ExactFields
  \/ /\ problem.code = "REQUIRED_AND_EXCLUDED"
     /\ \A p \in Predicates(t) : p.field = problem.field => p.op \notin {"!==", "!*="}
===============================================================================
