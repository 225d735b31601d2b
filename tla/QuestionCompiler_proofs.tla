----------------------- MODULE QuestionCompiler_proofs -----------------------
(***************************************************************************)
(* The invariants of QuestionCompiler are invariants of its specification, *)
(* for all numbers, ranges and proposed trees.                             *)
(***************************************************************************)
EXTENDS QuestionCompiler, QueryTree_proofs

(* What a rule makes of a capture, and a list of those. *)
IsPart(p) == p = Predicate(p.field, p.op, p.type, p.word, p.number)

IsParts(parts, m) ==
  /\ m \in Nat \ {0} /\ DOMAIN parts = 1..m /\ Len(parts) = m
  /\ \A i \in 1..m : IsPart(parts[i])

LEMMA PredicateIsPart ==
  ASSUME NEW field, NEW op, NEW type, NEW word, NEW number
  PROVE  /\ IsPart(Predicate(field, op, type, word, number))
         /\ Predicate(field, op, type, word, number).field = field
BY DEF IsPart, Predicate

Refs(t) == {p.ref : p \in Predicates(t)}

LEMMA RefsOfJoin ==
  ASSUME NEW J, NEW kind, NEW m, NEW trees, NEW n, IsJoin(J, kind, m, trees, n),
         kind # "predicate"
  PROVE  \A r : r \in Refs(J) <=> \E i \in 1..m : r \in Refs(trees[i])
<1>1. \A x : x \in Predicates(J) <=> \E i \in 1..m : x \in Predicates(trees[i])
  BY PredicatesOfJoin
<1>2. QED BY <1>1 DEF Refs

(* What a predicate asks of an asset, in the operators of the rules that   *)
(* group.                                                                  *)
LEMMA PredicateMatches ==
  ASSUME NEW field, NEW type, NEW word, NEW number, NEW asset
  PROVE  /\ Matches(Predicate(field, "=", type, word, number), asset)
              <=> Fact(field, "=", <<word, number>>) \in asset
         /\ Matches(Predicate(field, "!=", type, word, number), asset)
              <=> Fact(field, "=", <<word, number>>) \notin asset
BY DEF Matches, Excluding, Says, Found, Value, Predicate

(* The number of its constraint does not change what a predicate means. *)
LEMMA PartLeaf ==
  ASSUME NEW p, IsPart(p), NEW i
  PROVE  /\ IsTree(Leaf([p EXCEPT !.ref = i]), 0)
         /\ \A asset : Holds(Leaf([p EXCEPT !.ref = i]), asset) = Matches(p, asset)
         /\ LogicProblems(Leaf([p EXCEPT !.ref = i])) = {}
         /\ i \in Refs(Leaf([p EXCEPT !.ref = i]))
         /\ ScopeIn(Leaf([p EXCEPT !.ref = i]), {p.field})
<1> DEFINE l == [p EXCEPT !.ref = i]
<1>1. /\ l.kind = "predicate" /\ l.op = p.op /\ l.field = p.field
      /\ l.word = p.word /\ l.number = p.number /\ l.ref = i
  BY DEF IsPart, Predicate
<1> HIDE DEF l
<1>2. IsTree(Leaf(l), 0)
  BY <1>1, LeafIsTree
<1>3. ASSUME NEW asset PROVE Holds(Leaf(l), asset) = Matches(p, asset)
  <2>1. Holds(Leaf(l), asset) = Matches(l, asset)
    BY <1>1, LeafHolds
  <2>2. Matches(l, asset) = Matches(p, asset)
    BY <1>1 DEF Matches, Says, Value
  <2>3. QED BY <2>1, <2>2
<1>4. LogicProblems(Leaf(l)) = {} /\ Predicates(Leaf(l)) = {l} /\ ScopeIn(Leaf(l), {p.field})
  BY <1>1, LeafIsSound
<1>5. i \in Refs(Leaf(l))
  BY <1>1, <1>4 DEF Refs
<1>6. QED BY <1>2, <1>3, <1>4, <1>5 DEF l

LEMMA PartLeaves ==
  ASSUME NEW m, NEW parts, IsParts(parts, m)
  PROVE  /\ DOMAIN Leaves(parts) = 1..m /\ Len(Leaves(parts)) = m
         /\ \A i \in 1..m : IsTree(Leaves(parts)[i], 0)
         /\ \A i \in 1..m : \A asset : Holds(Leaves(parts)[i], asset) = Matches(parts[i], asset)
         /\ \A i \in 1..m : LogicProblems(Leaves(parts)[i]) = {}
         /\ \A i \in 1..m : i \in Refs(Leaves(parts)[i])
         /\ \A i \in 1..m : ScopeIn(Leaves(parts)[i], {parts[i].field})
<1>1. m \in Nat /\ DOMAIN parts = 1..m
  BY DEF IsParts
<1>2. Leaves(parts) = [i \in 1..m |-> Leaf([parts[i] EXCEPT !.ref = i])]
  BY <1>1 DEF Leaves
<1>3. DOMAIN Leaves(parts) = 1..m /\ Len(Leaves(parts)) = m
  BY <1>1, <1>2
<1>4. ASSUME NEW i \in 1..m
      PROVE  /\ IsTree(Leaves(parts)[i], 0)
             /\ \A asset : Holds(Leaves(parts)[i], asset) = Matches(parts[i], asset)
             /\ LogicProblems(Leaves(parts)[i]) = {} /\ i \in Refs(Leaves(parts)[i])
             /\ ScopeIn(Leaves(parts)[i], {parts[i].field})
  <2>1. IsPart(parts[i])
    BY DEF IsParts
  <2>2. Leaves(parts)[i] = Leaf([parts[i] EXCEPT !.ref = i])
    BY <1>2
  <2>3. QED BY <2>1, <2>2, PartLeaf
<1>5. QED BY <1>3, <1>4

LEMMA OnePart ==
  ASSUME NEW p, IsPart(p)
  PROVE  IsParts(<<p>>, 1)
BY DEF IsParts

LEMMA TwoParts ==
  ASSUME NEW p, NEW q, IsPart(p), IsPart(q)
  PROVE  IsParts(<<p, q>>, 2)
BY DEF IsParts

LEMMA ThreeParts ==
  ASSUME NEW p, NEW q, NEW r, IsPart(p), IsPart(q), IsPart(r)
  PROVE  IsParts(<<p, q, r>>, 3)
<1>1. DOMAIN <<p, q, r>> = 1..3 /\ Len(<<p, q, r>>) = 3 /\ 3 \in Nat \ {0}
  OBVIOUS
<1>2. \A i \in 1..3 : i = 1 \/ i = 2 \/ i = 3
  OBVIOUS
<1>3. QED BY <1>1, <1>2 DEF IsParts

LEMMA FourParts ==
  ASSUME NEW p, NEW q, NEW r, NEW s, IsPart(p), IsPart(q), IsPart(r), IsPart(s)
  PROVE  IsParts(<<p, q, r, s>>, 4)
<1>1. DOMAIN <<p, q, r, s>> = 1..4 /\ Len(<<p, q, r, s>>) = 4 /\ 4 \in Nat \ {0}
  OBVIOUS
<1>2. \A i \in 1..4 : i = 1 \/ i = 2 \/ i = 3 \/ i = 4
  OBVIOUS
<1>3. QED BY <1>1, <1>2 DEF IsParts

LEMMA FiveParts ==
  ASSUME NEW p, NEW q, NEW r, NEW s, NEW u,
         IsPart(p), IsPart(q), IsPart(r), IsPart(s), IsPart(u)
  PROVE  IsParts(<<p, q, r, s, u>>, 5)
<1>1. DOMAIN <<p, q, r, s, u>> = 1..5 /\ Len(<<p, q, r, s, u>>) = 5 /\ 5 \in Nat \ {0}
  OBVIOUS
<1>2. \A i \in 1..5 : i = 1 \/ i = 2 \/ i = 3 \/ i = 4 \/ i = 5
  OBVIOUS
<1>3. QED BY <1>1, <1>2 DEF IsParts

(* A translation whose tree has no logic problem and represents all of the *)
(* constraints.                                                            *)
Whole(t) == LogicProblems(t.node) = {} /\ t.constraints \subseteq Refs(t.node)

(* The parts of _result ask about each field once. *)
Distinct(parts, m) == \A i, j \in 1..m : i # j => parts[i].field # parts[j].field

LEMMA ResultIsTree ==
  ASSUME NEW m, NEW parts, IsParts(parts, m), Distinct(parts, m)
  PROVE  IsTree(Result(parts).node, 2) /\ Whole(Result(parts))
<1> DEFINE p == Leaves(parts)
<1>1. /\ DOMAIN p = 1..m /\ Len(p) = m
      /\ \A i \in 1..m : /\ IsTree(p[i], 0) /\ LogicProblems(p[i]) = {} /\ i \in Refs(p[i])
                         /\ ScopeIn(p[i], {parts[i].field})
      /\ m \in Nat \ {0} /\ Len(parts) = m /\ DOMAIN parts = 1..m
  BY PartLeaves DEF IsParts
<1>2. /\ Result(parts).node = IF m = 1 THEN p[1] ELSE And(p)
      /\ Result(parts).constraints = 1..m
  BY <1>1 DEF Result
<1> HIDE DEF p
<1>3. CASE m = 1
  <2>1. IsTree(p[1], 0) /\ LogicProblems(p[1]) = {} /\ 1 \in Refs(p[1])
    BY <1>1, <1>3
  <2>2. IsTree(p[1], 2)
    BY <2>1, DeeperBound
  <2>3. 1..m \subseteq Refs(p[1])
    BY <2>1, <1>3
  <2>4. QED BY <1>2, <1>3, <2>1, <2>2, <2>3 DEF Whole
<1>4. CASE m # 1
  <2>1. IsTree(And(p), 0 + 1)
    BY <1>1, AndOfTrees
  <2>2. IsTree(And(p), 2)
    BY <2>1, DeeperBound
  <2>3. IsJoin(And(p), "and", m, p, 0)
    BY <1>1, JoinIsJoin DEF And
  <2> DEFINE fields == [i \in 1..m |-> {parts[i].field}]
  <2>4. /\ \A i \in 1..m : ScopeIn(p[i], fields[i])
        /\ \A i, j \in 1..m : i # j => fields[i] \cap fields[j] = {}
    BY <1>1 DEF Distinct
  <2> HIDE DEF fields
  <2>5. LogicProblems(And(p)) = {}
    BY <1>1, <2>3, <2>4, AndIsSound
  <2>6. \A i \in 1..m : i \in Refs(And(p))
    <3>1. "and" # "predicate"
      OBVIOUS
    <3>2. QED BY <1>1, <2>3, <3>1, RefsOfJoin
  <2>7. QED BY <1>2, <1>4, <2>2, <2>5, <2>6 DEF Whole
<1>5. QED BY <1>3, <1>4

-------------------------------------------------------------------------------
Made(parts) == \E m : IsParts(parts, m) /\ Distinct(parts, m)

LEMMA OneMade ==
  ASSUME NEW p, IsPart(p)
  PROVE  Made(<<p>>)
<1>1. Distinct(<<p>>, 1)
  BY DEF Distinct
<1>2. QED BY <1>1, OnePart DEF Made

LEMMA TwoMade ==
  ASSUME NEW p, NEW q, IsPart(p), IsPart(q), p.field # q.field
  PROVE  Made(<<p, q>>)
<1>1. Distinct(<<p, q>>, 2)
  <2>1. \A i \in 1..2 : i = 1 \/ i = 2
    OBVIOUS
  <2>2. QED BY <2>1 DEF Distinct
<1>2. QED BY <1>1, TwoParts DEF Made

LEMMA ThreeMade ==
  ASSUME NEW p, NEW q, NEW r, IsPart(p), IsPart(q), IsPart(r),
         p.field # q.field, p.field # r.field, q.field # r.field
  PROVE  Made(<<p, q, r>>)
<1>1. Distinct(<<p, q, r>>, 3)
  <2>1. \A i \in 1..3 : i = 1 \/ i = 2 \/ i = 3
    OBVIOUS
  <2>2. QED BY <2>1 DEF Distinct
<1>2. QED BY <1>1, ThreeParts DEF Made

LEMMA CoreMade ==
  ASSUME NEW s \in CoreSentences
  PROVE  Made(CoreParts(s.form, s.word, s.numbers))
<1> DEFINE w == s.word
           n == s.numbers
<1>1. s.form \in {"core.ip.exact", "core.ip.cidr", "core.country.exact", "core.domain.contains",
                  "core.domain.exact", "core.host.exact", "core.protocol.exact",
                  "core.protocol.service", "core.country.protocol", "core.product.app",
                  "core.asn.exact", "core.port.exact", "core.protocol.port"}
  BY DEF CoreSentences, Of, OfNumber, Sentence
<1> DEFINE parts == CoreParts(s.form, w, n)
<1>2. CASE s.form \in {"core.protocol.port", "core.country.protocol"}
  <2>1. \E p, q : IsPart(p) /\ IsPart(q) /\ p.field # q.field /\ parts = <<p, q>>
    BY <1>2, PredicateIsPart DEF CoreParts, Contains, Equals
  <2>2. QED BY <2>1, TwoMade
<1>3. CASE s.form \notin {"core.protocol.port", "core.country.protocol"}
  <2>1. \E p : IsPart(p) /\ parts = <<p>>
    BY <1>1, <1>3, PredicateIsPart DEF CoreParts, Contains, Exact, Equals, Typed
  <2>2. QED BY <2>1, OneMade
<1>4. QED BY <1>2, <1>3

LEMMA WebMade ==
  ASSUME NEW s \in WebSentences
  PROVE  Made(WebParts(s.form, s.word, s.numbers))
<1> DEFINE parts == WebParts(s.form, s.word, s.numbers)
<1>1. s.form \in {"web.body.literal", "web.body.literal_escaped", "web.body.contains",
                  "web.body.resource_reference", "web.banner.contains", "web.header.contains",
                  "web.status_code.exact"}
  BY DEF WebSentences, Of, OfNumber, Sentence
<1>2. \E p : IsPart(p) /\ parts = <<p>>
  BY <1>1, PredicateIsPart DEF WebParts, Contains, Equals
<1>3. QED BY <1>2, OneMade

LEMMA CertificateMade ==
  ASSUME NEW s \in CertificateSentences
  PROVE  Made(CertificateParts(s.form, s.word, s.numbers))
<1> DEFINE parts == CertificateParts(s.form, s.word, s.numbers)
           single == {"certificate.content", "certificate.subject_org", "certificate.domain",
                      "certificate.issuer_subject_mismatch"}
           double == {"certificate.issuer_org.unexpired",
                      "certificate.subject_cn.domain_exclusion",
                      "certificate.content.domain_exclusion", "certificate.tls_version.unexpired",
                      "certificate.country.domain_mismatch", "certificate.country.ja3s",
                      "certificate.issuer_cn.serial"}
<1>1. s.form \in single \cup double \cup {"certificate.jarm.web_constraints"}
  BY DEF CertificateSentences, Of, OfNumber, Sentence
<1>2. CASE s.form \in single
  <2>1. \E p : IsPart(p) /\ parts = <<p>>
    BY <1>2, PredicateIsPart DEF CertificateParts, Contains, IsFalse
  <2>2. QED BY <2>1, OneMade
<1>3. CASE s.form \in double
  <2>1. \E p, q : IsPart(p) /\ IsPart(q) /\ p.field # q.field /\ parts = <<p, q>>
    BY <1>3, PredicateIsPart DEF CertificateParts, Contains, Exact, Excludes, IsFalse, Typed
  <2>2. QED BY <2>1, TwoMade
<1>4. CASE s.form = "certificate.jarm.web_constraints"
  <2>1. \E p, q, r : /\ IsPart(p) /\ IsPart(q) /\ IsPart(r) /\ parts = <<p, q, r>>
                    /\ p.field # q.field /\ p.field # r.field /\ q.field # r.field
    BY <1>4, PredicateIsPart DEF CertificateParts, Contains, Exact, Equals
  <2>2. QED BY <2>1, ThreeMade
<1>5. QED BY <1>1, <1>2, <1>3, <1>4

(* The sentences with a tree of their own are among the advanced ones. *)
LEMMA AdvancedMade ==
  ASSUME NEW s \in AdvancedSentences, s.form \notin Grouped
  PROVE  Made(AdvancedParts(s.form, s.word))
<1> DEFINE parts == AdvancedParts(s.form, s.word)
           single == {"advanced.domain.regex_two_single_labels", "advanced.ip.derived_16"}
           double == {"advanced.migration.shodan", "advanced.migration.google_dork"}
<1>1. s.form \in single \cup double \cup {"advanced.repair.fofa_quotes_order"}
  BY DEF AdvancedSentences, Of, Sentence, Grouped
<1>2. CASE s.form \in single
  <2>1. \E p : IsPart(p) /\ parts = <<p>>
    BY <1>2, PredicateIsPart DEF AdvancedParts, Typed
  <2>2. QED BY <2>1, OneMade
<1>3. CASE s.form \in double
  <2>1. \E p, q : IsPart(p) /\ IsPart(q) /\ p.field # q.field /\ parts = <<p, q>>
    BY <1>3, PredicateIsPart DEF AdvancedParts, Contains, Exact
  <2>2. QED BY <2>1, TwoMade
<1>4. CASE s.form = "advanced.repair.fofa_quotes_order"
  <2>1. \E p, q, r : /\ IsPart(p) /\ IsPart(q) /\ IsPart(r) /\ parts = <<p, q, r>>
                    /\ p.field # q.field /\ p.field # r.field /\ q.field # r.field
    BY <1>4, PredicateIsPart DEF AdvancedParts, Contains, Exact
  <2>2. QED BY <2>1, ThreeMade
<1>5. QED BY <1>1, <1>2, <1>3, <1>4

-------------------------------------------------------------------------------
(* The trees of the four rules that group: they are trees, and they match  *)
(* the assets that the sentence asks for.                                  *)
Fits(t, s) ==
  /\ IsTree(t.node, 2) /\ Whole(t)
  /\ \A asset : Holds(t.node, asset) <=> Asks(s, asset)

Clean(t) == LogicProblems(t) = {}

LEMMA OrOfClean ==
  ASSUME NEW n \in Nat, NEW m \in Nat \ {0}, NEW trees, DOMAIN trees = 1..m, Len(trees) = m,
         \A i \in 1..m : IsTree(trees[i], n) /\ Clean(trees[i])
  PROVE  /\ Clean(Or(trees)) /\ ScopeIn(Or(trees), {})
         /\ \A r : r \in Refs(Or(trees)) <=> \E i \in 1..m : r \in Refs(trees[i])
<1>1. IsJoin(Or(trees), "or", m, trees, n) /\ "or" # "predicate"
  BY JoinIsJoin DEF Or
<1>2. LogicProblems(Or(trees)) = {} /\ ScopeIn(Or(trees), {})
  BY <1>1, OrIsSound DEF Clean
<1>3. \A r : r \in Refs(Or(trees)) <=> \E i \in 1..m : r \in Refs(trees[i])
  BY <1>1, RefsOfJoin
<1>4. QED BY <1>2, <1>3 DEF Clean

LEMMA AndOfClean ==
  ASSUME NEW n \in Nat, NEW m \in Nat \ {0}, NEW trees, DOMAIN trees = 1..m, Len(trees) = m,
         NEW fields,
         \A i \in 1..m : IsTree(trees[i], n) /\ Clean(trees[i]) /\ ScopeIn(trees[i], fields[i]),
         \A i, j \in 1..m : i # j => fields[i] \cap fields[j] = {}
  PROVE  /\ Clean(And(trees))
         /\ \A r : r \in Refs(And(trees)) <=> \E i \in 1..m : r \in Refs(trees[i])
<1>1. IsJoin(And(trees), "and", m, trees, n) /\ "and" # "predicate"
  BY JoinIsJoin DEF And
<1>2. LogicProblems(And(trees)) = {}
  BY <1>1, AndIsSound DEF Clean
<1>3. \A r : r \in Refs(And(trees)) <=> \E i \in 1..m : r \in Refs(trees[i])
  BY <1>1, RefsOfJoin
<1>4. QED BY <1>2, <1>3 DEF Clean

LEMMA OrOfTwo ==
  ASSUME NEW n \in Nat, NEW a, NEW b, IsTree(a, n), IsTree(b, n), Clean(a), Clean(b)
  PROVE  /\ IsTree(Or(<<a, b>>), n + 1)
         /\ Clean(Or(<<a, b>>)) /\ ScopeIn(Or(<<a, b>>), {})
         /\ \A r : r \in Refs(Or(<<a, b>>)) <=> r \in Refs(a) \/ r \in Refs(b)
         /\ \A asset : Holds(Or(<<a, b>>), asset) <=> Holds(a, asset) \/ Holds(b, asset)
<1> DEFINE trees == <<a, b>>
<1>1. DOMAIN trees = 1..2 /\ Len(trees) = 2 /\ trees[1] = a /\ trees[2] = b
  OBVIOUS
<1>2. \A i \in 1..2 : i = 1 \/ i = 2
  OBVIOUS
<1>3. 2 \in Nat \ {0} /\ \A i \in 1..2 : IsTree(trees[i], n)
  BY <1>1, <1>2
<1> HIDE DEF trees
<1>4. /\ IsTree(Or(trees), n + 1)
      /\ \A asset : Holds(Or(trees), asset) <=> \E i \in 1..2 : Holds(trees[i], asset)
  BY <1>1, <1>3, OrOfTrees
<1>5. \A asset : Holds(Or(trees), asset) <=> Holds(a, asset) \/ Holds(b, asset)
  BY <1>1, <1>2, <1>4
<1>6. \A i \in 1..2 : Clean(trees[i])
  BY <1>1, <1>2
<1>7. /\ Clean(Or(trees)) /\ ScopeIn(Or(trees), {})
      /\ \A r : r \in Refs(Or(trees)) <=> \E i \in 1..2 : r \in Refs(trees[i])
  BY <1>1, <1>3, <1>6, OrOfClean
<1>8. \A r : r \in Refs(Or(trees)) <=> r \in Refs(a) \/ r \in Refs(b)
  BY <1>1, <1>2, <1>7
<1>9. QED BY <1>4, <1>5, <1>7, <1>8 DEF trees

LEMMA OrOfThree ==
  ASSUME NEW n \in Nat, NEW a, NEW b, NEW c, IsTree(a, n), IsTree(b, n), IsTree(c, n),
         Clean(a), Clean(b), Clean(c)
  PROVE  /\ IsTree(Or(<<a, b, c>>), n + 1)
         /\ Clean(Or(<<a, b, c>>)) /\ ScopeIn(Or(<<a, b, c>>), {})
         /\ \A r : r \in Refs(Or(<<a, b, c>>))
                     <=> r \in Refs(a) \/ r \in Refs(b) \/ r \in Refs(c)
         /\ \A asset : Holds(Or(<<a, b, c>>), asset)
                         <=> Holds(a, asset) \/ Holds(b, asset) \/ Holds(c, asset)
<1> DEFINE trees == <<a, b, c>>
<1>1. /\ DOMAIN trees = 1..3 /\ Len(trees) = 3
      /\ trees[1] = a /\ trees[2] = b /\ trees[3] = c
  OBVIOUS
<1>2. \A i \in 1..3 : i = 1 \/ i = 2 \/ i = 3
  OBVIOUS
<1>3. 3 \in Nat \ {0} /\ \A i \in 1..3 : IsTree(trees[i], n)
  BY <1>1, <1>2
<1> HIDE DEF trees
<1>4. /\ IsTree(Or(trees), n + 1)
      /\ \A asset : Holds(Or(trees), asset) <=> \E i \in 1..3 : Holds(trees[i], asset)
  BY <1>1, <1>3, OrOfTrees
<1>5. \A asset : Holds(Or(trees), asset)
                   <=> Holds(a, asset) \/ Holds(b, asset) \/ Holds(c, asset)
  BY <1>1, <1>2, <1>4
<1>6. \A i \in 1..3 : Clean(trees[i])
  BY <1>1, <1>2
<1>7. /\ Clean(Or(trees)) /\ ScopeIn(Or(trees), {})
      /\ \A r : r \in Refs(Or(trees)) <=> \E i \in 1..3 : r \in Refs(trees[i])
  BY <1>1, <1>3, <1>6, OrOfClean
<1>8. \A r : r \in Refs(Or(trees)) <=> r \in Refs(a) \/ r \in Refs(b) \/ r \in Refs(c)
  BY <1>1, <1>2, <1>7
<1>9. QED BY <1>4, <1>5, <1>7, <1>8 DEF trees

LEMMA AndOfTwo ==
  ASSUME NEW n \in Nat, NEW a, NEW b, IsTree(a, n), IsTree(b, n), Clean(a), Clean(b),
         NEW F, NEW G, ScopeIn(a, F), ScopeIn(b, G), F \cap G = {}
  PROVE  /\ IsTree(And(<<a, b>>), n + 1)
         /\ Clean(And(<<a, b>>))
         /\ \A r : r \in Refs(And(<<a, b>>)) <=> r \in Refs(a) \/ r \in Refs(b)
         /\ \A asset : Holds(And(<<a, b>>), asset) <=> Holds(a, asset) /\ Holds(b, asset)
<1> DEFINE trees == <<a, b>>
<1>1. DOMAIN trees = 1..2 /\ Len(trees) = 2 /\ trees[1] = a /\ trees[2] = b
  OBVIOUS
<1>2. \A i \in 1..2 : i = 1 \/ i = 2
  OBVIOUS
<1>3. 2 \in Nat \ {0} /\ \A i \in 1..2 : IsTree(trees[i], n)
  BY <1>1, <1>2
<1> HIDE DEF trees
<1>4. /\ IsTree(And(trees), n + 1)
      /\ \A asset : Holds(And(trees), asset) <=> \A i \in 1..2 : Holds(trees[i], asset)
  BY <1>1, <1>3, AndOfTrees
<1>5. \A asset : Holds(And(trees), asset) <=> Holds(a, asset) /\ Holds(b, asset)
  BY <1>1, <1>2, <1>4
<1> DEFINE fields == <<F, G>>
<1>6. /\ \A i \in 1..2 : Clean(trees[i]) /\ ScopeIn(trees[i], fields[i])
      /\ \A i, j \in 1..2 : i # j => fields[i] \cap fields[j] = {}
  BY <1>1, <1>2
<1> HIDE DEF fields
<1>7. /\ Clean(And(trees))
      /\ \A r : r \in Refs(And(trees)) <=> \E i \in 1..2 : r \in Refs(trees[i])
  BY <1>1, <1>3, <1>6, AndOfClean
<1>8. \A r : r \in Refs(And(trees)) <=> r \in Refs(a) \/ r \in Refs(b)
  BY <1>1, <1>2, <1>7
<1>9. QED BY <1>4, <1>5, <1>7, <1>8 DEF trees

LEMMA AndOfThree ==
  ASSUME NEW n \in Nat, NEW a, NEW b, NEW c, IsTree(a, n), IsTree(b, n), IsTree(c, n),
         Clean(a), Clean(b), Clean(c), NEW F, NEW G, NEW H, ScopeIn(a, F), ScopeIn(b, G),
         ScopeIn(c, H), F \cap G = {}, F \cap H = {}, G \cap H = {}
  PROVE  /\ IsTree(And(<<a, b, c>>), n + 1)
         /\ Clean(And(<<a, b, c>>))
         /\ \A r : r \in Refs(And(<<a, b, c>>))
                     <=> r \in Refs(a) \/ r \in Refs(b) \/ r \in Refs(c)
         /\ \A asset : Holds(And(<<a, b, c>>), asset)
                         <=> Holds(a, asset) /\ Holds(b, asset) /\ Holds(c, asset)
<1> DEFINE trees == <<a, b, c>>
<1>1. /\ DOMAIN trees = 1..3 /\ Len(trees) = 3
      /\ trees[1] = a /\ trees[2] = b /\ trees[3] = c
  OBVIOUS
<1>2. \A i \in 1..3 : i = 1 \/ i = 2 \/ i = 3
  OBVIOUS
<1>3. 3 \in Nat \ {0} /\ \A i \in 1..3 : IsTree(trees[i], n)
  BY <1>1, <1>2
<1> HIDE DEF trees
<1>4. /\ IsTree(And(trees), n + 1)
      /\ \A asset : Holds(And(trees), asset) <=> \A i \in 1..3 : Holds(trees[i], asset)
  BY <1>1, <1>3, AndOfTrees
<1>5. \A asset : Holds(And(trees), asset)
                   <=> Holds(a, asset) /\ Holds(b, asset) /\ Holds(c, asset)
  BY <1>1, <1>2, <1>4
<1> DEFINE fields == <<F, G, H>>
<1>6. /\ \A i \in 1..3 : Clean(trees[i]) /\ ScopeIn(trees[i], fields[i])
      /\ \A i, j \in 1..3 : i # j => fields[i] \cap fields[j] = {}
  BY <1>1, <1>2
<1> HIDE DEF fields
<1>7. /\ Clean(And(trees))
      /\ \A r : r \in Refs(And(trees)) <=> \E i \in 1..3 : r \in Refs(trees[i])
  BY <1>1, <1>3, <1>6, AndOfClean
<1>8. \A r : r \in Refs(And(trees)) <=> r \in Refs(a) \/ r \in Refs(b) \/ r \in Refs(c)
  BY <1>1, <1>2, <1>7
<1>9. QED BY <1>4, <1>5, <1>7, <1>8 DEF trees

LEMMA BooleanTimeFits ==
  ASSUME NEW s, s.form = "advanced.boolean.time"
  PROVE  Fits(BooleanTime, s)
<1> DEFINE parts == <<Contains("title", "Jenkins"), Contains("body", "jenkins"),
                      Excludes("country", "CN"), Typed("after", "timestamp", "2026-08-01")>>
           p == Leaves(parts)
<1>1. IsParts(parts, 4)
  <2>1. \A field, word, type : /\ IsPart(Contains(field, word)) /\ IsPart(Excludes(field, word))
                               /\ IsPart(Typed(field, type, word))
    BY PredicateIsPart DEF Contains, Excludes, Typed
  <2>2. QED BY <2>1, FourParts
<1>2. /\ \A i \in 1..4 : /\ IsTree(p[i], 0)
                         /\ \A asset : Holds(p[i], asset) = Matches(parts[i], asset)
      /\ \A i \in 1..4 : Clean(p[i]) /\ i \in Refs(p[i]) /\ ScopeIn(p[i], {parts[i].field})
      /\ DOMAIN p = 1..4
  <2> HIDE DEF parts
  <2>1. /\ DOMAIN p = 1..4 /\ \A i \in 1..4 : IsTree(p[i], 0)
        /\ \A i \in 1..4 : \A asset : Holds(p[i], asset) = Matches(parts[i], asset)
    BY <1>1, PartLeaves
  <2>2. /\ \A i \in 1..4 : LogicProblems(p[i]) = {}
        /\ \A i \in 1..4 : i \in Refs(p[i])
        /\ \A i \in 1..4 : ScopeIn(p[i], {parts[i].field})
    BY <1>1, PartLeaves
  <2> HIDE DEF p
  <2>3. QED BY <2>1, <2>2 DEF Clean
<1>3. BooleanTime.node = And(<<Or(<<p[1], p[2]>>), p[3], p[4]>>) /\ BooleanTime.constraints = 1..4
  BY <1>2 DEF BooleanTime
<1> DEFINE either == Or(<<p[1], p[2]>>)
<1>4. \A asset : /\ Matches(parts[1], asset) <=> Fact("title", "=", <<"Jenkins", 0>>) \in asset
                 /\ Matches(parts[2], asset) <=> Fact("body", "=", <<"jenkins", 0>>) \in asset
                 /\ Matches(parts[3], asset) <=> Fact("country", "=", <<"CN", 0>>) \notin asset
                 /\ Matches(parts[4], asset) <=> Fact("after", "=", <<"2026-08-01", 0>>) \in asset
  BY PredicateMatches DEF Contains, Excludes, Typed
<1>10. parts[3].field = "country" /\ parts[4].field = "after"
  BY PredicateIsPart DEF Excludes, Typed
<1> HIDE DEF p, parts
<1>5. /\ IsTree(either, 1) /\ Clean(either) /\ ScopeIn(either, {})
      /\ \A r : r \in Refs(either) <=> r \in Refs(p[1]) \/ r \in Refs(p[2])
      /\ \A asset : Holds(either, asset) <=> Holds(p[1], asset) \/ Holds(p[2], asset)
  BY <1>2, OrOfTwo
<1>6. /\ IsTree(p[3], 1) /\ IsTree(p[4], 1) /\ Clean(p[3]) /\ Clean(p[4])
      /\ ScopeIn(p[3], {"country"}) /\ ScopeIn(p[4], {"after"})
  BY <1>2, <1>10, DeeperBound
<1> HIDE DEF either
<1>7. /\ IsTree(And(<<either, p[3], p[4]>>), 2)
      /\ Clean(And(<<either, p[3], p[4]>>))
      /\ \A r : r \in Refs(And(<<either, p[3], p[4]>>))
                  <=> r \in Refs(either) \/ r \in Refs(p[3]) \/ r \in Refs(p[4])
      /\ \A asset : Holds(And(<<either, p[3], p[4]>>), asset)
                      <=> Holds(either, asset) /\ Holds(p[3], asset) /\ Holds(p[4], asset)
  <2>1. {"country"} \cap {"after"} = {} /\ {} \cap {"country"} = {} /\ {} \cap {"after"} = {}
    OBVIOUS
  <2>2. QED BY <1>5, <1>6, <2>1, AndOfThree
<1>8. \A asset : Asks(s, asset) <=>
                   /\ \/ Fact("title", "=", <<"Jenkins", 0>>) \in asset
                      \/ Fact("body", "=", <<"jenkins", 0>>) \in asset
                   /\ Fact("country", "=", <<"CN", 0>>) \notin asset
                   /\ Fact("after", "=", <<"2026-08-01", 0>>) \in asset
  BY DEF Asks
<1>9. Whole(BooleanTime)
  <2>1. \A i \in 1..4 : i = 1 \/ i = 2 \/ i = 3 \/ i = 4
    OBVIOUS
  <2>2. QED BY <2>1, <1>2, <1>3, <1>5, <1>7 DEF Whole, Clean, either
<1>11. \A asset : Holds(BooleanTime.node, asset) <=> Asks(s, asset)
  BY <1>2, <1>3, <1>4, <1>5, <1>7, <1>8 DEF either
<1>12. QED BY <1>3, <1>7, <1>9, <1>11 DEF Fits, either

LEMMA UrlscanFits ==
  ASSUME NEW s, s.form = "advanced.migration.urlscan"
  PROVE  Fits(Urlscan, s)
<1> DEFINE parts == <<Contains("body", "login"), Contains("domain", "bet"),
                      Contains("domain", "casino"), Contains("domain", "kasino")>>
           p == Leaves(parts)
<1>1. IsParts(parts, 4)
  <2>1. \A field, word : IsPart(Contains(field, word))
    BY PredicateIsPart DEF Contains
  <2>2. QED BY <2>1, FourParts
<1>2. /\ \A i \in 1..4 : /\ IsTree(p[i], 0)
                         /\ \A asset : Holds(p[i], asset) = Matches(parts[i], asset)
      /\ \A i \in 1..4 : Clean(p[i]) /\ i \in Refs(p[i]) /\ ScopeIn(p[i], {parts[i].field})
      /\ DOMAIN p = 1..4
  <2> HIDE DEF parts
  <2>1. /\ DOMAIN p = 1..4 /\ \A i \in 1..4 : IsTree(p[i], 0)
        /\ \A i \in 1..4 : \A asset : Holds(p[i], asset) = Matches(parts[i], asset)
    BY <1>1, PartLeaves
  <2>2. /\ \A i \in 1..4 : LogicProblems(p[i]) = {}
        /\ \A i \in 1..4 : i \in Refs(p[i])
        /\ \A i \in 1..4 : ScopeIn(p[i], {parts[i].field})
    BY <1>1, PartLeaves
  <2> HIDE DEF p
  <2>3. QED BY <2>1, <2>2 DEF Clean
<1> DEFINE names == Or(<<p[2], p[3], p[4]>>)
<1>3. Urlscan.node = And(<<p[1], names>>) /\ Urlscan.constraints = 1..4
  BY <1>2 DEF Urlscan
<1>4. \A asset : /\ Matches(parts[1], asset) <=> Fact("body", "=", <<"login", 0>>) \in asset
                 /\ Matches(parts[2], asset) <=> Fact("domain", "=", <<"bet", 0>>) \in asset
                 /\ Matches(parts[3], asset) <=> Fact("domain", "=", <<"casino", 0>>) \in asset
                 /\ Matches(parts[4], asset) <=> Fact("domain", "=", <<"kasino", 0>>) \in asset
  BY PredicateMatches DEF Contains
<1>9. parts[1].field = "body"
  BY PredicateIsPart DEF Contains
<1> HIDE DEF p, parts
<1>5. /\ IsTree(names, 1) /\ Clean(names) /\ ScopeIn(names, {})
      /\ \A r : r \in Refs(names) <=> r \in Refs(p[2]) \/ r \in Refs(p[3]) \/ r \in Refs(p[4])
      /\ \A asset : Holds(names, asset)
                      <=> Holds(p[2], asset) \/ Holds(p[3], asset) \/ Holds(p[4], asset)
  BY <1>2, OrOfThree
<1>6. IsTree(p[1], 1) /\ Clean(p[1]) /\ ScopeIn(p[1], {"body"})
  BY <1>2, <1>9, DeeperBound
<1> HIDE DEF names
<1>7. /\ IsTree(And(<<p[1], names>>), 2)
      /\ Clean(And(<<p[1], names>>))
      /\ \A r : r \in Refs(And(<<p[1], names>>)) <=> r \in Refs(p[1]) \/ r \in Refs(names)
      /\ \A asset : Holds(And(<<p[1], names>>), asset)
                      <=> Holds(p[1], asset) /\ Holds(names, asset)
  <2>1. {"body"} \cap {} = {}
    OBVIOUS
  <2>2. QED BY <1>5, <1>6, <2>1, AndOfTwo
<1>8. \A asset : Asks(s, asset) <=>
                   /\ Fact("body", "=", <<"login", 0>>) \in asset
                   /\ \/ Fact("domain", "=", <<"bet", 0>>) \in asset
                      \/ Fact("domain", "=", <<"casino", 0>>) \in asset
                      \/ Fact("domain", "=", <<"kasino", 0>>) \in asset
  BY DEF Asks
<1>10. Whole(Urlscan)
  <2>1. \A i \in 1..4 : i = 1 \/ i = 2 \/ i = 3 \/ i = 4
    OBVIOUS
  <2>2. QED BY <2>1, <1>2, <1>3, <1>5, <1>7 DEF Whole, Clean
<1>11. \A asset : Holds(Urlscan.node, asset) <=> Asks(s, asset)
  BY <1>2, <1>3, <1>4, <1>5, <1>7, <1>8
<1>12. QED BY <1>3, <1>7, <1>10, <1>11 DEF Fits

LEMMA PrecedenceFits ==
  ASSUME NEW s, s.form = "advanced.repair.fofa_precedence"
  PROVE  Fits(Precedence, s)
<1> DEFINE parts == <<Contains("app", "HFS"), Equals("port", 80), Contains("app", "HFS"),
                      Equals("port", 8080), Equals("status_code", 200)>>
           p == Leaves(parts)
<1>1. IsParts(parts, 5)
  <2>1. \A field, word, number : IsPart(Contains(field, word)) /\ IsPart(Equals(field, number))
    BY PredicateIsPart DEF Contains, Equals
  <2>2. QED BY <2>1, FiveParts
<1>2. /\ \A i \in 1..5 : /\ IsTree(p[i], 0)
                         /\ \A asset : Holds(p[i], asset) = Matches(parts[i], asset)
      /\ \A i \in 1..5 : Clean(p[i]) /\ i \in Refs(p[i]) /\ ScopeIn(p[i], {parts[i].field})
      /\ DOMAIN p = 1..5
  <2> HIDE DEF parts
  <2>1. /\ DOMAIN p = 1..5 /\ \A i \in 1..5 : IsTree(p[i], 0)
        /\ \A i \in 1..5 : \A asset : Holds(p[i], asset) = Matches(parts[i], asset)
    BY <1>1, PartLeaves
  <2>2. /\ \A i \in 1..5 : LogicProblems(p[i]) = {}
        /\ \A i \in 1..5 : i \in Refs(p[i])
        /\ \A i \in 1..5 : ScopeIn(p[i], {parts[i].field})
    BY <1>1, PartLeaves
  <2> HIDE DEF p
  <2>3. QED BY <2>1, <2>2 DEF Clean
<1> DEFINE left  == And(<<p[1], p[2]>>)
           right == And(<<p[3], p[4], p[5]>>)
<1>3. Precedence.node = Or(<<left, right>>) /\ Precedence.constraints = 1..5
  BY <1>2 DEF Precedence
<1>4. \A asset : /\ Matches(parts[1], asset) <=> Fact("app", "=", <<"HFS", 0>>) \in asset
                 /\ Matches(parts[2], asset) <=> Fact("port", "=", <<"text", 80>>) \in asset
                 /\ Matches(parts[3], asset) <=> Fact("app", "=", <<"HFS", 0>>) \in asset
                 /\ Matches(parts[4], asset) <=> Fact("port", "=", <<"text", 8080>>) \in asset
                 /\ Matches(parts[5], asset) <=> Fact("status_code", "=", <<"text", 200>>) \in asset
  BY PredicateMatches DEF Contains, Equals
<1>9. /\ parts[1].field = "app" /\ parts[2].field = "port" /\ parts[3].field = "app"
      /\ parts[4].field = "port" /\ parts[5].field = "status_code"
  BY PredicateIsPart DEF Contains, Equals
<1>10. /\ {"app"} \cap {"port"} = {} /\ {"app"} \cap {"status_code"} = {}
       /\ {"port"} \cap {"status_code"} = {}
  OBVIOUS
<1> HIDE DEF p, parts
<1>11. /\ ScopeIn(p[1], {"app"}) /\ ScopeIn(p[2], {"port"}) /\ ScopeIn(p[3], {"app"})
       /\ ScopeIn(p[4], {"port"}) /\ ScopeIn(p[5], {"status_code"})
  BY <1>2, <1>9
<1>5. /\ IsTree(left, 1) /\ Clean(left)
      /\ \A r : r \in Refs(left) <=> r \in Refs(p[1]) \/ r \in Refs(p[2])
      /\ \A asset : Holds(left, asset) <=> Holds(p[1], asset) /\ Holds(p[2], asset)
  BY <1>2, <1>10, <1>11, AndOfTwo
<1>6. /\ IsTree(right, 1) /\ Clean(right)
      /\ \A r : r \in Refs(right) <=> r \in Refs(p[3]) \/ r \in Refs(p[4]) \/ r \in Refs(p[5])
      /\ \A asset : Holds(right, asset)
                      <=> Holds(p[3], asset) /\ Holds(p[4], asset) /\ Holds(p[5], asset)
  BY <1>2, <1>10, <1>11, AndOfThree
<1> HIDE DEF left, right
<1>7. /\ IsTree(Or(<<left, right>>), 2) /\ Clean(Or(<<left, right>>))
      /\ \A r : r \in Refs(Or(<<left, right>>)) <=> r \in Refs(left) \/ r \in Refs(right)
      /\ \A asset : Holds(Or(<<left, right>>), asset)
                      <=> Holds(left, asset) \/ Holds(right, asset)
  BY <1>5, <1>6, OrOfTwo
<1>8. \A asset : Asks(s, asset) <=>
                   /\ Fact("app", "=", <<"HFS", 0>>) \in asset
                   /\ \/ Fact("port", "=", <<"text", 80>>) \in asset
                      \/ /\ Fact("port", "=", <<"text", 8080>>) \in asset
                         /\ Fact("status_code", "=", <<"text", 200>>) \in asset
  BY DEF Asks
<1>12. Whole(Precedence)
  <2>1. \A i \in 1..5 : i = 1 \/ i = 2 \/ i = 3 \/ i = 4 \/ i = 5
    OBVIOUS
  <2>2. QED BY <2>1, <1>2, <1>3, <1>5, <1>6, <1>7 DEF Whole, Clean
<1>13. \A asset : Holds(Precedence.node, asset) <=> Asks(s, asset)
  BY <1>2, <1>3, <1>4, <1>5, <1>6, <1>7, <1>8
<1>14. QED BY <1>3, <1>7, <1>12, <1>13 DEF Fits

(* A range is one predicate for each of its addresses, and two for ports. *)
LEMMA ClosedRangeFits ==
  ASSUME NEW s, s.form = "advanced.ip.closed_range.ports",
         NEW a \in Nat, NEW b \in Nat, a <= b, NEW x, NEW y, s.numbers = <<a, b, x, y>>
  PROVE  Fits(ClosedRange(s.numbers), s)
<1> DEFINE m     == b - a + 1
           ips   == [i \in 1..m |-> Predicate("ip", "=", "ipv4", "text", a + i - 1)]
           ports == <<Equals("port", x), Equals("port", y)>>
           parts == ips \o ports
           p     == Leaves(parts)
           left  == SubSeq(p, 1, m)
           right == SubSeq(p, m + 1, m + 2)
<1>1. m \in Nat \ {0} /\ m + 2 \in Nat \ {0} /\ m + 1 \in 1..m + 2 /\ m + 2 \in 1..m + 2
  OBVIOUS
<1>2. /\ s.numbers[1] = a /\ s.numbers[2] = b /\ s.numbers[3] = x /\ s.numbers[4] = y
  OBVIOUS
<1>3. /\ DOMAIN ips = 1..m /\ Len(ips) = m /\ ips = [i \in 1..m |-> ips[i]]
      /\ \A i \in 1..m : ips[i] = Predicate("ip", "=", "ipv4", "text", a + i - 1)
  BY <1>1
<1>4. ClosedRange(s.numbers).node = And(<<Or(left), Or(right)>>)
  <2>1. s.numbers[2] - s.numbers[1] + 1 = m
    BY <1>2
  <2>2. ClosedRange(s.numbers).node =
          And(<<Or(SubSeq(p, 1, Len(ips))), Or(SubSeq(p, Len(ips) + 1, Len(ips) + 2))>>)
    BY <1>2, <2>1 DEF ClosedRange
  <2>3. QED BY <2>2, <1>3
<1>18. ClosedRange(s.numbers).constraints = DOMAIN p
  BY <1>2 DEF ClosedRange
<1> HIDE DEF ips, m
<1>5. /\ DOMAIN parts = 1..m + 2 /\ Len(parts) = m + 2
      /\ \A i \in 1..m : parts[i] = ips[i]
      /\ parts[m + 1] = Equals("port", x) /\ parts[m + 2] = Equals("port", y)
  <2> DEFINE S == {ips[i] : i \in 1..m} \cup {Equals("port", x), Equals("port", y)}
  <2>1. ips \in Seq(S)
    <3>1. \A i \in 1..m : ips[i] \in S
      OBVIOUS
    <3> HIDE DEF S
    <3>2. ips \in [1..m -> S]
      BY <1>3, <3>1
    <3>3. QED BY <1>1, <3>2
  <2>2. ports \in Seq(S) /\ Len(ports) = 2
    OBVIOUS
  <2> HIDE DEF S, ports
  <2>3. /\ parts \in Seq(S) /\ Len(parts) = m + 2
        /\ \A i \in 1..m + 2 : parts[i] = IF i <= m THEN ips[i] ELSE ports[i - m]
    <3>1. /\ parts \in Seq(S) /\ Len(parts) = Len(ips) + Len(ports)
          /\ \A i \in 1..Len(ips) + Len(ports) :
               parts[i] = IF i <= Len(ips) THEN ips[i] ELSE ports[i - Len(ips)]
      BY <2>1, <2>2, ConcatProperties
    <3>2. QED BY <3>1, <2>2, <1>3
  <2> HIDE DEF parts
  <2>4. DOMAIN parts = 1..m + 2
    BY <2>3
  <2>5. \A i \in 1..m : i \in 1..m + 2 /\ i <= m
    BY <1>1
  <2>6. ~(m + 1 <= m) /\ ~(m + 2 <= m) /\ (m + 1) - m = 1 /\ (m + 2) - m = 2
    BY <1>1
  <2>7. parts[m + 1] = ports[1] /\ parts[m + 2] = ports[2]
    BY <1>1, <2>3, <2>6
  <2>8. QED BY <2>3, <2>4, <2>5, <2>7 DEF ports
<1> HIDE DEF parts
<1>6. IsParts(parts, m + 2)
  <2>1. \A i \in 1..m + 2 : i \in 1..m \/ i = m + 1 \/ i = m + 2
    BY <1>1
  <2>2. \A i \in 1..m + 2 : IsPart(parts[i])
    BY <2>1, <1>3, <1>5, PredicateIsPart DEF Equals
  <2>3. QED BY <1>1, <1>5, <2>2 DEF IsParts
<1>7. /\ DOMAIN p = 1..m + 2 /\ Len(p) = m + 2
      /\ \A i \in 1..m + 2 : /\ IsTree(p[i], 0) /\ Clean(p[i]) /\ i \in Refs(p[i])
                             /\ \A asset : Holds(p[i], asset) = Matches(parts[i], asset)
  BY <1>6, PartLeaves DEF Clean
<1>8. /\ \A i \in 1..m : \A asset :
           Matches(parts[i], asset) <=> Fact("ip", "=", <<"text", a + i - 1>>) \in asset
      /\ \A asset : Matches(parts[m + 1], asset) <=> Fact("port", "=", <<"text", x>>) \in asset
      /\ \A asset : Matches(parts[m + 2], asset) <=> Fact("port", "=", <<"text", y>>) \in asset
  <2>1. \A i \in 1..m : parts[i] = Predicate("ip", "=", "ipv4", "text", a + i - 1)
    BY <1>3, <1>5
  <2>2. /\ parts[m + 1] = Predicate("port", "=", "integer", "text", x)
        /\ parts[m + 2] = Predicate("port", "=", "integer", "text", y)
    BY <1>5 DEF Equals
  <2>3. ASSUME NEW i \in 1..m, NEW asset
        PROVE  Matches(parts[i], asset) <=> Fact("ip", "=", <<"text", a + i - 1>>) \in asset
    <3> DEFINE number == a + i - 1
    <3>1. parts[i] = Predicate("ip", "=", "ipv4", "text", number)
      BY <2>1
    <3> HIDE DEF number
    <3>2. Matches(parts[i], asset) <=> Fact("ip", "=", <<"text", number>>) \in asset
      BY <3>1, PredicateMatches
    <3>3. QED BY <3>2 DEF number
  <2>4. ASSUME NEW asset
        PROVE  /\ Matches(parts[m + 1], asset) <=> Fact("port", "=", <<"text", x>>) \in asset
               /\ Matches(parts[m + 2], asset) <=> Fact("port", "=", <<"text", y>>) \in asset
    BY <2>2, PredicateMatches
  <2>5. QED BY <2>3, <2>4
<1> HIDE DEF p
<1>9. /\ DOMAIN left = 1..m /\ Len(left) = m /\ \A i \in 1..m : left[i] = p[i]
      /\ DOMAIN right = 1..2 /\ Len(right) = 2 /\ right[1] = p[m + 1] /\ right[2] = p[m + 2]
  <2>1. /\ left = [i \in 1..m |-> p[i]]
    BY <1>1, <1>7
  <2>2. right = [i \in 1..2 |-> p[m + i]]
    BY <1>1, <1>7
  <2> HIDE DEF left, right
  <2>3. QED BY <1>1, <2>1, <2>2
<1> HIDE DEF left, right
<1>10. /\ IsTree(Or(left), 1) /\ Clean(Or(left)) /\ ScopeIn(Or(left), {})
       /\ \A i \in 1..m : i \in Refs(Or(left))
       /\ \A asset : Holds(Or(left), asset) <=> \E i \in 1..m : Holds(p[i], asset)
  <2>1. \A i \in 1..m : IsTree(left[i], 0)
    BY <1>1, <1>7, <1>9
  <2>2. /\ IsTree(Or(left), 0 + 1)
        /\ \A asset : Holds(Or(left), asset) <=> \E i \in 1..m : Holds(left[i], asset)
    BY <1>1, <1>9, <2>1, OrOfTrees
  <2>3. \A i \in 1..m : Clean(left[i]) /\ i \in Refs(left[i])
    BY <1>1, <1>7, <1>9
  <2>4. /\ Clean(Or(left)) /\ ScopeIn(Or(left), {})
        /\ \A r : r \in Refs(Or(left)) <=> \E i \in 1..m : r \in Refs(left[i])
    BY <1>1, <1>9, <2>1, <2>3, OrOfClean
  <2>5. \A i \in 1..m : i \in Refs(Or(left))
    BY <2>3, <2>4
  <2>6. /\ IsTree(Or(left), 1)
        /\ \A asset : Holds(Or(left), asset) <=> \E i \in 1..m : Holds(p[i], asset)
    BY <2>2, <1>9
  <2>7. QED BY <2>4, <2>5, <2>6
<1>11. /\ IsTree(Or(right), 1) /\ Clean(Or(right)) /\ ScopeIn(Or(right), {})
       /\ m + 1 \in Refs(Or(right)) /\ m + 2 \in Refs(Or(right))
       /\ \A asset : Holds(Or(right), asset) <=> Holds(p[m + 1], asset) \/ Holds(p[m + 2], asset)
  <2>1. \A i \in 1..2 : i = 1 \/ i = 2
    OBVIOUS
  <2>2. \A i \in 1..2 : IsTree(right[i], 0)
    BY <1>1, <1>7, <1>9, <2>1
  <2>3. /\ IsTree(Or(right), 0 + 1)
        /\ \A asset : Holds(Or(right), asset) <=> \E i \in 1..2 : Holds(right[i], asset)
    <3>1. 2 \in Nat \ {0} /\ 0 \in Nat
      OBVIOUS
    <3>2. QED BY <1>9, <2>2, <3>1, OrOfTrees
  <2>4. Clean(right[1]) /\ Clean(right[2]) /\ m + 1 \in Refs(right[1]) /\ m + 2 \in Refs(right[2])
    BY <1>1, <1>7, <1>9
  <2>5. \A i \in 1..2 : Clean(right[i])
    BY <2>1, <2>4
  <2>6. /\ Clean(Or(right)) /\ ScopeIn(Or(right), {})
        /\ \A r : r \in Refs(Or(right)) <=> \E i \in 1..2 : r \in Refs(right[i])
    <3>1. 2 \in Nat \ {0} /\ 0 \in Nat
      OBVIOUS
    <3>2. QED BY <1>9, <2>2, <2>5, <3>1, OrOfClean
  <2>7. m + 1 \in Refs(Or(right)) /\ m + 2 \in Refs(Or(right))
    <3>1. 1 \in 1..2 /\ 2 \in 1..2
      OBVIOUS
    <3>2. QED BY <2>4, <2>6, <3>1
  <2>8. QED BY <2>1, <2>3, <2>6, <2>7, <1>9
<1>12. /\ IsTree(And(<<Or(left), Or(right)>>), 2)
       /\ Clean(And(<<Or(left), Or(right)>>))
       /\ \A r : r \in Refs(And(<<Or(left), Or(right)>>))
                   <=> r \in Refs(Or(left)) \/ r \in Refs(Or(right))
       /\ \A asset : Holds(And(<<Or(left), Or(right)>>), asset)
                       <=> Holds(Or(left), asset) /\ Holds(Or(right), asset)
  <2> DEFINE alternatives == Or(left)
             either       == Or(right)
  <2>1. /\ IsTree(alternatives, 1) /\ Clean(alternatives) /\ ScopeIn(alternatives, {})
        /\ IsTree(either, 1) /\ Clean(either) /\ ScopeIn(either, {}) /\ {} \cap {} = {}
    BY <1>10, <1>11
  <2> HIDE DEF alternatives, either
  <2>2. /\ IsTree(And(<<alternatives, either>>), 1 + 1)
        /\ Clean(And(<<alternatives, either>>))
        /\ \A r : r \in Refs(And(<<alternatives, either>>))
                    <=> r \in Refs(alternatives) \/ r \in Refs(either)
        /\ \A asset : Holds(And(<<alternatives, either>>), asset)
                        <=> Holds(alternatives, asset) /\ Holds(either, asset)
    BY <2>1, AndOfTwo
  <2>3. QED BY <2>2 DEF alternatives, either
<1>13. \A asset : (\E i \in 1..m : Fact("ip", "=", <<"text", a + i - 1>>) \in asset)
                    <=> \E address \in a..b : Fact("ip", "=", <<"text", address>>) \in asset
  <2>1. ASSUME NEW i \in 1..m PROVE a + i - 1 \in a..b
    BY DEF m
  <2>2. ASSUME NEW address \in a..b
        PROVE  \E i \in 1..m : address = a + i - 1
    <3>1. address - a + 1 \in 1..m /\ address = a + (address - a + 1) - 1
      BY DEF m
    <3>2. QED BY <3>1
  <2>3. QED BY <2>1, <2>2
<1>14. \A asset : Asks(s, asset) <=>
                    /\ \E address \in a..b : Fact("ip", "=", <<"text", address>>) \in asset
                    /\ \/ Fact("port", "=", <<"text", x>>) \in asset
                       \/ Fact("port", "=", <<"text", y>>) \in asset
  BY <1>2 DEF Asks
<1>15. \A asset : Holds(Or(left), asset)
                    <=> \E address \in a..b : Fact("ip", "=", <<"text", address>>) \in asset
  <2>1. \A asset : \A i \in 1..m :
          Holds(p[i], asset) <=> Fact("ip", "=", <<"text", a + i - 1>>) \in asset
    BY <1>1, <1>7, <1>8
  <2>2. QED BY <2>1, <1>10, <1>13
<1>16. \A asset : Holds(Or(right), asset)
                    <=> \/ Fact("port", "=", <<"text", x>>) \in asset
                        \/ Fact("port", "=", <<"text", y>>) \in asset
  BY <1>1, <1>7, <1>8, <1>11
<1>17. Whole(ClosedRange(s.numbers))
  <2>1. \A i \in 1..m + 2 : i \in 1..m \/ i = m + 1 \/ i = m + 2
    BY <1>1
  <2>2. 1..m + 2 \subseteq Refs(ClosedRange(s.numbers).node)
    BY <2>1, <1>4, <1>10, <1>11, <1>12
  <2>3. QED BY <2>2, <1>4, <1>7, <1>12, <1>18 DEF Whole, Clean
<1>19. QED BY <1>4, <1>12, <1>14, <1>15, <1>16, <1>17 DEF Fits

-------------------------------------------------------------------------------
(* What the rules make of a sentence they translate. *)
LEMMA RangeOf ==
  ASSUME NEW s \in Sentences, s.form = "advanced.ip.closed_range.ports", Translatable(s)
  PROVE  \E a, b \in Nat : \E x, y : a <= b /\ s.numbers = <<a, b, x, y>>
<1>1. s \in AdvancedSentences /\ s.word \in {"text", "malformed"}
      /\ \E r \in Ranges, x \in {80}, y \in {443, 65536} : s.numbers = <<r[1], r[2], x, y>>
  BY DEF Sentences, CoreSentences, WebSentences, CertificateSentences, AdvancedSentences,
         UnsupportedSentences, Of, OfNumber, Sentence
<1>2. PICK r \in Ranges, x \in {80}, y \in {443, 65536} : s.numbers = <<r[1], r[2], x, y>>
  BY <1>1
<1>3. r[1] \in Nat /\ r[2] \in Nat
  BY NumbersAssumption
<1>4. ~Untranslated(s) /\ ~CaptureRaises(s)
  BY DEF Translatable
<1>5. s.word # "malformed"
  BY <1>4 DEF CaptureRaises, AddressRaises
<1>6. ~(r[2] < r[1])
  <2>1. s.numbers[1] = r[1] /\ s.numbers[2] = r[2]
    BY <1>2
  <2>2. QED BY <1>4, <1>5, <2>1 DEF Untranslated, RangeRefused
<1>7. QED BY <1>2, <1>3, <1>6

LEMMA GroupedFits ==
  ASSUME NEW s \in Sentences, s.form \in Grouped, Translatable(s)
  PROVE  Fits(Translation(s), s)
<1>1. s \notin CoreSentences /\ s \notin WebSentences /\ s \notin CertificateSentences
  BY DEF Grouped, CoreSentences, WebSentences, CertificateSentences, Of, OfNumber, Sentence
<1>2. CASE s.form = "advanced.boolean.time"
  <2>1. Translation(s) = BooleanTime
    BY <1>1, <1>2 DEF Translation
  <2>2. QED BY <1>2, <2>1, BooleanTimeFits
<1>3. CASE s.form = "advanced.migration.urlscan"
  <2>1. Translation(s) = Urlscan
    BY <1>1, <1>3 DEF Translation
  <2>2. QED BY <1>3, <2>1, UrlscanFits
<1>4. CASE s.form = "advanced.repair.fofa_precedence"
  <2>1. Translation(s) = Precedence
    BY <1>1, <1>4 DEF Translation
  <2>2. QED BY <1>4, <2>1, PrecedenceFits
<1>5. CASE s.form = "advanced.ip.closed_range.ports"
  <2>1. Translation(s) = ClosedRange(s.numbers)
    BY <1>1, <1>5 DEF Translation
  <2>2. PICK a \in Nat, b \in Nat : \E x, y : a <= b /\ s.numbers = <<a, b, x, y>>
    BY <1>5, RangeOf
  <2>3. PICK x, y : a <= b /\ s.numbers = <<a, b, x, y>>
    BY <2>2
  <2>4. Fits(ClosedRange(s.numbers), s)
    BY <1>5, <2>3, ClosedRangeFits
  <2>5. QED BY <2>1, <2>4
<1>6. QED BY <1>2, <1>3, <1>4, <1>5 DEF Grouped

LEMMA RuleTreesAreTrees ==
  ASSUME NEW s \in Sentences, Translatable(s)
  PROVE  IsTree(Translation(s).node, 2) /\ Whole(Translation(s))
<1>1. CASE s.form \in Grouped
  BY <1>1, GroupedFits DEF Fits
<1>2. CASE s.form \notin Grouped
  <2>1. s \notin UnsupportedSentences
    BY DEF Translatable, Untranslated
  <2>2. \A parts : Made(parts) => IsTree(Result(parts).node, 2) /\ Whole(Result(parts))
    BY ResultIsTree DEF Made
  <2>3. CASE s \in CoreSentences
    <3>1. Translation(s) = Result(CoreParts(s.form, s.word, s.numbers))
      <4>1. s \notin WebSentences /\ s \notin CertificateSentences
        BY <2>3 DEF CoreSentences, WebSentences, CertificateSentences, Of, OfNumber, Sentence
      <4>2. QED BY <1>2, <2>3, <4>1 DEF Translation, Grouped
    <3>2. QED BY <2>2, <2>3, <3>1, CoreMade
  <2>4. CASE s \in WebSentences
    <3>1. Translation(s) = Result(WebParts(s.form, s.word, s.numbers))
      <4>1. s \notin CoreSentences /\ s \notin CertificateSentences
        BY <2>4 DEF CoreSentences, WebSentences, CertificateSentences, Of, OfNumber, Sentence
      <4>2. QED BY <1>2, <2>4, <4>1 DEF Translation, Grouped
    <3>2. QED BY <2>2, <2>4, <3>1, WebMade
  <2>5. CASE s \in CertificateSentences
    <3>1. Translation(s) = Result(CertificateParts(s.form, s.word, s.numbers))
      <4>1. s \notin CoreSentences /\ s \notin WebSentences
        BY <2>5 DEF CoreSentences, WebSentences, CertificateSentences, Of, OfNumber, Sentence
      <4>2. QED BY <1>2, <2>5, <4>1 DEF Translation, Grouped
    <3>2. QED BY <2>2, <2>5, <3>1, CertificateMade
  <2>6. CASE s \notin CoreSentences /\ s \notin WebSentences /\ s \notin CertificateSentences
    <3>1. s \in AdvancedSentences
      BY <2>1, <2>6 DEF Sentences
    <3>2. Translation(s) = Result(AdvancedParts(s.form, s.word))
      BY <1>2, <2>6 DEF Translation, Grouped
    <3>3. QED BY <1>2, <2>2, <3>1, <3>2, AdvancedMade
  <2>7. QED BY <2>3, <2>4, <2>5, <2>6
<1>3. QED BY <1>1, <1>2

-------------------------------------------------------------------------------
(* The inductive invariant: what is validated and decided about is the     *)
(* tree of the sentence, the report is of that tree, and the candidate     *)
(* comes of the report.                                                    *)
Asked == sentence \in Sentences \cup {Sentence("provider", "text", <<>>)}

TreeKept ==
  stage \in {"validate", "decide"} \/ findings.reported =>
    /\ IsTree(translation.node, MaxDepth + 2)
    /\ FromRules =>
         /\ sentence \in Sentences /\ Translatable(sentence)
         /\ translation = Translation(sentence)

ReportKept ==
  /\ stage \in {"classify", "translate", "validate"} => ~findings.reported
  /\ stage = "decide" => findings.reported
  /\ findings.codes = IF findings.reported
                      THEN Findings(translation.node, translation.constraints) ELSE {}

OutcomeKept ==
  /\ outcome.status = "query" =>
       /\ findings.reported /\ findings.codes = {}
       /\ outcome.items = RiskCodes(translation.node)
  /\ outcome.status = "refused" =>
       /\ findings.reported => findings.codes # {}
       /\ outcome.items = {"SAFE_REJECTION"}

IInv == TypeOK /\ Asked /\ TreeKept /\ ReportKept /\ OutcomeKept

LEMMA FindingsAreCodes ==
  ASSUME NEW t, NEW constraints
  PROVE  Findings(t, constraints) \in SUBSET Codes
<1>1. \A problem \in LogicProblems(t) :
        problem.code \in {"MUTUALLY_EXCLUSIVE_VALUES", "REQUIRED_AND_EXCLUDED",
                         "REDUNDANT_DOUBLE_NEGATION"}
  BY ProblemFound
<1>2. QED BY <1>1 DEF Findings, Codes

LEMMA RiskCodesAreItems ==
  ASSUME NEW t
  PROVE  RiskCodes(t) \subseteq Items
BY DEF RiskCodes, Items

LEMMA InitIInv == Init => IInv
<1> SUFFICES ASSUME Init PROVE IInv
  OBVIOUS
<1>1. /\ stage = "classify" /\ ~findings.reported /\ findings.codes = {}
      /\ outcome.status = "pending"
  BY DEF Init, NoReport, Pending
<1>2. TypeOK
  BY DEF Init, TypeOK, NoReport, Pending, Codes, Items
<1>3. Asked
  BY DEF Init, Asked
<1>4. TreeKept /\ ReportKept /\ OutcomeKept
  BY <1>1 DEF TreeKept, ReportKept, OutcomeKept
<1>5. QED BY <1>2, <1>3, <1>4 DEF IInv

(* A step that ends the item with a candidate or without one. *)
LEMMA EndsKeeps ==
  ASSUME IInv, stage # "done", NEW status \in {"query", "refused", "failed"}, NEW items, items \subseteq Items,
         Ends(status, items), UNCHANGED <<sentence, translation, findings>>,
         status = "query" => /\ findings.reported /\ findings.codes = {}
                             /\ items = RiskCodes(translation.node),
         status = "refused" => /\ findings.reported => findings.codes # {}
                               /\ items = {"SAFE_REJECTION"}
  PROVE  IInv'
<1>1. stage' = "done" /\ outcome'.status = status /\ outcome'.items = items
  BY DEF Ends
<1>2. TypeOK'
  BY <1>1 DEF IInv, TypeOK, Items
<1>3. Asked'
  BY DEF IInv, Asked
<1>4. TreeKept'
  BY <1>1 DEF IInv, TreeKept, FromRules
<1>5. ReportKept'
  BY <1>1 DEF IInv, ReportKept
<1>6. OutcomeKept'
  BY <1>1 DEF OutcomeKept
<1>7. QED BY <1>2, <1>3, <1>4, <1>5, <1>6 DEF IInv

LEMMA TranslatedKeeps ==
  ASSUME IInv, stage = "translate", NEW t, Translated(t),
         IsTree(t.node, MaxDepth + 2),
         FromRules => sentence \in Sentences /\ Translatable(sentence) /\ t = Translation(sentence)
  PROVE  IInv'
<1>1. stage' = "validate" /\ translation' = t /\ UNCHANGED <<sentence, findings, outcome>>
  BY DEF Translated
<1>2. ~findings.reported /\ findings.codes = {} /\ outcome.status = "pending"
  BY DEF IInv, TypeOK, ReportKept
<1>3. TypeOK'
  BY <1>1, <1>2 DEF IInv, TypeOK
<1>4. Asked'
  BY <1>1 DEF IInv, Asked
<1>5. TreeKept'
  BY <1>1 DEF TreeKept, FromRules
<1>6. ReportKept' /\ OutcomeKept'
  BY <1>1, <1>2 DEF ReportKept, OutcomeKept
<1>7. QED BY <1>3, <1>4, <1>5, <1>6 DEF IInv

LEMMA NextKeeps == IInv /\ [Next]_vars => IInv'
<1> SUFFICES ASSUME IInv, [Next]_vars PROVE IInv'
  OBVIOUS
<1>1. CASE ClassifyUnsupported
  <2>1. ~findings.reported
    BY <1>1 DEF ClassifyUnsupported, IInv, ReportKept
  <2>2. stage # "done" /\ Ends("refused", {"SAFE_REJECTION"})
        /\ UNCHANGED <<sentence, translation, findings>>
    BY <1>1 DEF ClassifyUnsupported, Refuse
  <2>3. {"SAFE_REJECTION"} \subseteq Items
    BY DEF Items
  <2>4. QED BY <2>1, <2>2, <2>3, EndsKeeps
<1>2. CASE ClassifySupported
  <2>1. /\ stage = "classify" /\ stage' = "translate"
        /\ UNCHANGED <<sentence, translation, findings, outcome>>
    BY <1>2 DEF ClassifySupported
  <2>2. QED BY <2>1 DEF IInv, TypeOK, Asked, TreeKept, ReportKept, OutcomeKept
<1>3. CASE Translate
  <2>1. /\ stage = "translate" /\ FromRules /\ Translatable(sentence)
        /\ Translated(Translation(sentence))
    BY <1>3 DEF Translate
  <2>2. sentence \in Sentences
    BY <2>1 DEF IInv, Asked, FromRules, Sentence
  <2>3. IsTree(Translation(sentence).node, MaxDepth + 2)
    <3>1. IsTree(Translation(sentence).node, 2)
      BY <2>1, <2>2, RuleTreesAreTrees
    <3>2. MaxDepth + 2 \in Nat /\ 2 \in Nat /\ 2 <= MaxDepth + 2
      BY ProposalsAssumption
    <3>3. QED BY <3>1, <3>2, DeeperBound
  <2>4. QED BY <2>1, <2>2, <2>3, TranslatedKeeps
<1>4. CASE TranslateFails
  <2>1. stage # "done" /\ Ends("failed", {}) /\ UNCHANGED <<sentence, translation, findings>>
    BY <1>4 DEF TranslateFails, Fail
  <2>2. QED BY <2>1, EndsKeeps
<1>5. CASE TranslateProposal
  <2>1. PICK t \in Proposed : Translated(t)
    BY <1>5 DEF TranslateProposal
  <2>2. t.node \in Proposals
    BY DEF Proposed
  <2>3. MaxDepth + 2 \in Nat /\ MaxDepth \in Nat /\ MaxDepth <= MaxDepth + 2
    BY ProposalsAssumption
  <2>4. IsTree(t.node, MaxDepth + 2)
    BY <2>2, <2>3, ProposalsAssumption, DeeperBound
  <2>5. stage = "translate" /\ ~FromRules
    BY <1>5 DEF TranslateProposal
  <2>6. QED BY <2>1, <2>4, <2>5, TranslatedKeeps
<1>10. CASE ProposalRefused
  <2>1. stage # "done" /\ Ends("failed", {}) /\ UNCHANGED <<sentence, translation, findings>>
    BY <1>10 DEF ProposalRefused, Fail
  <2>2. QED BY <2>1, EndsKeeps
<1>6. CASE Validate
  <2> DEFINE codes == Findings(translation.node, translation.constraints)
  <2>1. /\ stage = "validate" /\ stage' = "decide"
        /\ UNCHANGED <<sentence, translation, outcome>>
        /\ findings' = [reported |-> TRUE, codes |-> codes]
    BY <1>6 DEF Validate
  <2>2. outcome.status = "pending"
    BY <2>1 DEF IInv, TypeOK
  <2>3. codes \in SUBSET Codes
    BY FindingsAreCodes
  <2>4. findings'.reported = TRUE /\ findings'.codes = codes
    BY <2>1
  <2>5. TypeOK'
    BY <2>1, <2>3 DEF IInv, TypeOK
  <2>6. Asked' /\ TreeKept'
    BY <2>1 DEF IInv, Asked, TreeKept, FromRules
  <2>7. ReportKept'
    BY <2>1, <2>4 DEF ReportKept
  <2>8. OutcomeKept'
    BY <2>1, <2>2 DEF OutcomeKept
  <2>9. QED BY <2>5, <2>6, <2>7, <2>8 DEF IInv
<1>7. CASE DecideInvalid
  <2>1. stage # "done" /\ findings.codes # {} /\ Ends("refused", {"SAFE_REJECTION"})
        /\ UNCHANGED <<sentence, translation, findings>>
    BY <1>7 DEF DecideInvalid, Refuse
  <2>2. {"SAFE_REJECTION"} \subseteq Items
    BY DEF Items
  <2>3. QED BY <2>1, <2>2, EndsKeeps
<1>8. CASE DecideValid
  <2>1. /\ stage = "decide" /\ findings.codes = {} /\ Ends("query", RiskCodes(translation.node))
        /\ UNCHANGED <<sentence, translation, findings>>
    BY <1>8 DEF DecideValid
  <2>2. findings.reported
    BY <2>1 DEF IInv, ReportKept
  <2>3. RiskCodes(translation.node) \subseteq Items
    BY RiskCodesAreItems
  <2>4. QED BY <2>1, <2>2, <2>3, EndsKeeps
<1>9. CASE UNCHANGED vars
  BY <1>9 DEF vars, IInv, TypeOK, Asked, TreeKept, ReportKept, OutcomeKept, FromRules
<1>11. QED BY <1>1, <1>2, <1>3, <1>4, <1>5, <1>6, <1>7, <1>8, <1>9, <1>10 DEF Next

(* Every reachable state satisfies the inductive invariant. *)
THEOREM CompilerInvariant == Spec => []IInv
<1>1. Init => IInv
  BY InitIInv
<1>2. IInv /\ [Next]_vars => IInv'
  BY NextKeeps
<1>3. QED BY <1>1, <1>2, PTL DEF Spec

(* Every variable keeps its type, and an item is done when it has a result. *)
THEOREM TypesKept == Spec => []TypeOK
<1>1. IInv => TypeOK
  BY DEF IInv
<1>2. QED BY <1>1, CompilerInvariant, PTL

(* A query has a passing report; a rejection has a failing one or none,    *)
(* and an item for the reviewer to check.                                  *)
THEOREM OutcomesFit == Spec => []OutcomeFits
<1>1. IInv => OutcomeFits
  BY DEF IInv, OutcomeKept, OutcomeFits, Report
<1>2. QED BY <1>1, CompilerInvariant, PTL

(* Whenever two values of an exact field, or a value both required and     *)
(* excluded, are reported, they are required of one part of the tree, with *)
(* no Not above it, and that part matches no asset, whatever the tree.     *)
THEOREM ContradictionsReal == Spec => []ContradictionsAreReal
<1>1. ASSUME IInv PROVE ContradictionsAreReal
  <2> DEFINE t == translation.node
  <2> SUFFICES ASSUME findings.reported,
                      NEW problem \in LogicProblems(t), Decided(t, problem)
               PROVE  \E path \in Visited(t) : \A asset \in Assets(t) : ~Truth(t, asset)[path]
    BY DEF ContradictionsAreReal
  <2>1. IsTree(t, MaxDepth + 2) /\ MaxDepth + 2 \in Nat
    BY <1>1, ProposalsAssumption DEF IInv, TreeKept
  <2> HIDE DEF t
  <2>2. Visited(t) \subseteq DOMAIN t /\ \A asset \in Assets(t) : IsAsset(asset)
    BY DEF Visited, Walk, Assets
  <2>3. CASE problem.code = "MUTUALLY_EXCLUSIVE_VALUES"
    <3>1. PICK path \in Visited(t) : TwoRequired(t, path, problem.field)
      BY <2>3, ProblemFound
    <3>2. problem.field \in ExactFields
      BY <2>3 DEF Decided
    <3>3. QED BY <2>1, <2>2, <3>1, <3>2, ContradictionsHoldNowhere
  <2>4. CASE problem.code = "REQUIRED_AND_EXCLUDED"
    <3>1. PICK path \in Visited(t) : RequiredAndExcluded(t, path, problem.field)
      BY <2>4, ProblemFound
    <3>2. \A p \in Predicates(t) : p.field = problem.field => p.op \notin {"!==", "!*="}
      BY <2>4 DEF Decided
    <3>3. QED BY <2>1, <2>2, <3>1, <3>2, ContradictionsHoldNowhere
  <2>5. QED BY <2>3, <2>4 DEF Decided
<1>2. QED BY <1>1, CompilerInvariant, PTL

(* Nested grouping in a query always gives its reviewer an item to check.  *)
THEOREM GroupingChecked == Spec => []GroupingIsChecked
<1>1. ASSUME IInv PROVE GroupingIsChecked
  <2> SUFFICES ASSUME outcome.status = "query",
                      NEW path \in DOMAIN translation.node,
                      Len(path) = 1, translation.node[path].kind # "predicate"
               PROVE  "COMPLEX_GROUPING" \in outcome.items
    BY DEF GroupingIsChecked
  <2>1. findings.reported /\ outcome.items = RiskCodes(translation.node)
    BY <1>1 DEF IInv, OutcomeKept
  <2>2. IsTree(translation.node, MaxDepth + 2) /\ MaxDepth + 2 \in Nat
    BY <1>1, <2>1, ProposalsAssumption DEF IInv, TreeKept
  <2>3. Depth(translation.node) >= 2
    BY <2>2, NestedIsDeep
  <2>4. QED BY <2>1, <2>3 DEF RiskCodes
<1>2. QED BY <1>1, CompilerInvariant, PTL

(* A query of the rules that group matches an asset, any asset, exactly    *)
(* when the sentence asks for it.                                          *)
MatchesEveryAsset ==
  outcome.status = "query" /\ sentence.form \in Grouped =>
    \A asset : Holds(translation.node, asset) <=> Asks(sentence, asset)

LEMMA MatchesFromIInv ==
  ASSUME IInv PROVE MatchesEveryAsset
<1> SUFFICES ASSUME outcome.status = "query", sentence.form \in Grouped
             PROVE  \A asset : Holds(translation.node, asset) <=> Asks(sentence, asset)
  BY DEF MatchesEveryAsset
<1>1. findings.reported
  BY DEF IInv, OutcomeKept
<1>2. FromRules
  BY DEF FromRules, Grouped
<1>3. sentence \in Sentences /\ Translatable(sentence) /\ translation = Translation(sentence)
  BY <1>1, <1>2 DEF IInv, TreeKept
<1>4. QED BY <1>3, GroupedFits DEF Fits

THEOREM QueriesMatchEveryAsset == Spec => []MatchesEveryAsset
<1>1. IInv => MatchesEveryAsset
  BY MatchesFromIInv
<1>2. QED BY <1>1, CompilerInvariant, PTL

(* The same for the assets that the runs enumerate. *)
THEOREM QueriesMatch == Spec => []QueriesMatchSentences
<1>1. IInv => QueriesMatchSentences
  BY MatchesFromIInv DEF MatchesEveryAsset, QueriesMatchSentences
<1>2. QED BY <1>1, CompilerInvariant, PTL

(* A sentence of the rules is refused only for the operators, types and    *)
(* values of its predicates: every tree a rule makes represents all of its *)
(* constraints and is free of contradictions and of double negations.      *)
THEOREM RulesFailOnPredicates == Spec => []RulesFailOnPredicatesOnly
<1>1. ASSUME IInv PROVE RulesFailOnPredicatesOnly
  <2> SUFFICES ASSUME FromRules
               PROVE  findings.codes \subseteq {"UNSUPPORTED", "INVALID_VALUE"}
    BY DEF RulesFailOnPredicatesOnly
  <2>1. CASE ~findings.reported
    BY <1>1, <2>1 DEF IInv, ReportKept
  <2>2. CASE findings.reported
    <3>1. /\ sentence \in Sentences /\ Translatable(sentence)
          /\ translation = Translation(sentence)
      BY <1>1, <2>2 DEF IInv, TreeKept
    <3>2. Whole(translation)
      BY <3>1, RuleTreesAreTrees
    <3>3. findings.codes = Findings(translation.node, translation.constraints)
      BY <1>1, <2>2 DEF IInv, ReportKept
    <3>4. QED BY <3>2, <3>3 DEF Findings, Whole, Refs
  <2>3. QED BY <2>1, <2>2
<1>2. QED BY <1>1, CompilerInvariant, PTL
===============================================================================
