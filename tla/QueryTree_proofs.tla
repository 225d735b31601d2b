--------------------------- MODULE QueryTree_proofs ---------------------------
(***************************************************************************)
(* Theorems about the operators of QueryTree for every tree.               *)
(***************************************************************************)
EXTENDS QueryTree, SequenceTheorems, WellFoundedInduction, TLAPS

(* Induction for sets of naturals: a natural that is missing has a least   *)
(* one below it that is.                                                   *)
LEMMA SetInduction ==
  ASSUME NEW S, S \subseteq Nat, 0 \in S, \A n \in S : n + 1 \in S
  PROVE  S = Nat
<1> DEFINE Less    == OpToRel(<, Nat)
           missing == Nat \ S
<1>1. IsWellFoundedOn(Less, Nat)
  BY NatLessThanWellFounded
<1>2. \A x, y \in Nat : <<x, y>> \in Less <=> x < y
  BY DEF OpToRel
<1> HIDE DEF Less
<1>3. CASE missing # {}
  <2>1. PICK x \in missing : \A y \in missing : ~(<<y, x>> \in Less)
    BY <1>1, <1>3, WFMin, missing \subseteq Nat
  <2>2. x \in Nat /\ x # 0
    OBVIOUS
  <2>3. x - 1 \in Nat /\ x - 1 < x /\ (x - 1) + 1 = x
    BY <2>2
  <2>4. <<x - 1, x>> \in Less
    BY <2>2, <2>3, <1>2
  <2>5. x - 1 \in S
    BY <2>1, <2>3, <2>4
  <2>6. QED BY <2>3, <2>5
<1>4. QED BY <1>3

-------------------------------------------------------------------------------
(* The truth of a node depends on that of its children only. *)
LEMMA SameChildrenSameTruth ==
  ASSUME NEW n, NEW t, IsTree(t, n), NEW asset, NEW path \in DOMAIN t, NEW f, NEW g,
         \A i \in 1..Arity(t[path]) : f[Append(path, i)] = g[Append(path, i)]
  PROVE  TruthAt(t, asset, f, path) = TruthAt(t, asset, g, path)
<1>1. CASE t[path].kind = "predicate"
  BY <1>1 DEF TruthAt
<1>2. CASE t[path].kind # "predicate"
  <2>1. Arity(t[path]) = t[path].arity /\ t[path].arity \in Nat \ {0}
    BY <1>2 DEF IsTree, Arity
  <2>2. 1 \in 1..t[path].arity
    BY <2>1
  <2>3. QED BY <1>2, <2>1, <2>2 DEF TruthAt
<1>3. QED BY <1>1, <1>2

LEMMA ChildIsDeeper ==
  ASSUME NEW n, NEW t, IsTree(t, n), NEW path \in DOMAIN t, NEW i \in 1..Arity(t[path])
  PROVE  /\ Append(path, i) \in DOMAIN t
         /\ Len(path) \in Nat
         /\ Len(Append(path, i)) = Len(path) + 1
<1>1. path \in Seq(Nat) /\ Append(path, i) \in DOMAIN t
  BY DEF IsTree
<1>2. Arity(t[path]) \in Nat
  BY DEF IsTree, Arity
<1>3. QED BY <1>1, <1>2

(* Truth can be given to the nodes from the deepest ones up. *)
LEMMA TruthExists ==
  ASSUME NEW n \in Nat, NEW t, IsTree(t, n), NEW asset
  PROVE  \E f : f = [path \in DOMAIN t |-> TruthAt(t, asset, f, path)]
<1> DEFINE Deep(f, j) == \A path \in DOMAIN t :
                           Len(path) + j > n => f[path] = TruthAt(t, asset, f, path)
           S == {j \in Nat : \E f \in [DOMAIN t -> BOOLEAN] : Deep(f, j)}
<1>0. \A path \in DOMAIN t : Len(path) \in Nat /\ Len(path) <= n
  BY DEF IsTree
<1>1. 0 \in S
  <2>1. [path \in DOMAIN t |-> TRUE] \in [DOMAIN t -> BOOLEAN]
    OBVIOUS
  <2>2. Deep([path \in DOMAIN t |-> TRUE], 0)
    BY <1>0
  <2>3. QED BY <2>1, <2>2
<1>2. ASSUME NEW j \in S PROVE j + 1 \in S
  <2>1. PICK f \in [DOMAIN t -> BOOLEAN] : Deep(f, j)
    OBVIOUS
  <2> DEFINE g == [path \in DOMAIN t |->
                     IF Len(path) + j = n THEN TruthAt(t, asset, f, path) ELSE f[path]]
  <2>2. g \in [DOMAIN t -> BOOLEAN]
    BY DEF TruthAt
  <2>3. ASSUME NEW path \in DOMAIN t, Len(path) + (j + 1) > n
        PROVE  g[path] = TruthAt(t, asset, g, path)
    <3>1. ASSUME NEW i \in 1..Arity(t[path])
          PROVE  g[Append(path, i)] = f[Append(path, i)]
      <4>1. /\ Append(path, i) \in DOMAIN t
            /\ Len(path) \in Nat
            /\ Len(Append(path, i)) = Len(path) + 1
        BY ChildIsDeeper
      <4>2. Len(Append(path, i)) + j # n
        BY <4>1, <2>3
      <4>3. QED BY <4>1, <4>2
    <3> HIDE DEF g
    <3>2. TruthAt(t, asset, g, path) = TruthAt(t, asset, f, path)
      BY <3>1, SameChildrenSameTruth
    <3> USE DEF g
    <3>3. CASE Len(path) + j = n
      BY <3>3, <3>2
    <3>4. CASE Len(path) + j # n
      <4>1. Len(path) + j > n
        BY <3>4, <1>0, <2>3
      <4>2. f[path] = TruthAt(t, asset, f, path)
        BY <4>1, <2>1
      <4>3. QED BY <4>2, <3>2, <3>4
    <3>5. QED BY <3>3, <3>4
  <2> HIDE DEF g
  <2>4. QED BY <2>2, <2>3
<1>3. S = Nat
  <2> HIDE DEF S
  <2>1. S \subseteq Nat BY DEF S
  <2>2. QED BY <1>1, <1>2, <2>1, SetInduction
<1> HIDE DEF S
<1>4. n + 1 \in S
  BY <1>3
<1> USE DEF S
<1>5. PICK f \in [DOMAIN t -> BOOLEAN] : Deep(f, n + 1)
  BY <1>4
<1>6. \A path \in DOMAIN t : f[path] = TruthAt(t, asset, f, path)
  BY <1>5, <1>0
<1>7. f = [path \in DOMAIN t |-> TruthAt(t, asset, f, path)]
  BY <1>6
<1>8. QED BY <1>7

(* The equation that the definition of Truth gives. *)
LEMMA TruthDef ==
  ASSUME NEW n \in Nat, NEW t, IsTree(t, n), NEW asset
  PROVE  Truth(t, asset) = [path \in DOMAIN t |-> TruthAt(t, asset, Truth(t, asset), path)]
BY TruthExists DEF Truth

(* Only one function satisfies it. *)
Evaluates(t, asset, f) == \A path \in DOMAIN t : f[path] = TruthAt(t, asset, f, path)

LEMMA TruthUnique ==
  ASSUME NEW n \in Nat, NEW t, IsTree(t, n), NEW asset, NEW f, NEW g,
         Evaluates(t, asset, f), Evaluates(t, asset, g)
  PROVE  \A path \in DOMAIN t : f[path] = g[path]
<1> DEFINE S == {j \in Nat : \A path \in DOMAIN t : Len(path) + j > n => f[path] = g[path]}
<1>0. \A path \in DOMAIN t : Len(path) \in Nat /\ Len(path) <= n
  BY DEF IsTree
<1>1. 0 \in S
  BY <1>0
<1>2. ASSUME NEW j \in S PROVE j + 1 \in S
  <2>1. ASSUME NEW path \in DOMAIN t, Len(path) + (j + 1) > n
        PROVE  f[path] = g[path]
    <3>1. ASSUME NEW i \in 1..Arity(t[path])
          PROVE  f[Append(path, i)] = g[Append(path, i)]
      <4>1. /\ Append(path, i) \in DOMAIN t
            /\ Len(path) \in Nat
            /\ Len(Append(path, i)) = Len(path) + 1
        BY ChildIsDeeper
      <4>2. Len(Append(path, i)) + j > n
        BY <4>1, <2>1
      <4>3. QED BY <4>1, <4>2
    <3>2. TruthAt(t, asset, f, path) = TruthAt(t, asset, g, path)
      BY <3>1, SameChildrenSameTruth
    <3>3. QED BY <3>2 DEF Evaluates
  <2>2. QED BY <2>1
<1>3. S = Nat
  <2>1. S \subseteq Nat
    OBVIOUS
  <2> HIDE DEF S
  <2>2. QED BY <1>1, <1>2, <2>1, SetInduction
<1> HIDE DEF S
<1>4. n + 1 \in S
  BY <1>3
<1> USE DEF S
<1>5. QED BY <1>4, <1>0

LEMMA HoldsDef ==
  ASSUME NEW n \in Nat, NEW t, IsTree(t, n), NEW asset
  PROVE  Holds(t, asset) = TruthAt(t, asset, Truth(t, asset), <<>>)
<1>1. <<>> \in DOMAIN t
  BY DEF IsTree
<1>2. QED BY <1>1, TruthDef DEF Holds

-------------------------------------------------------------------------------
(* Prefixes of a path. *)
LEMMA PrefixStep ==
  ASSUME NEW n, NEW t, IsTree(t, n), NEW q \in DOMAIN t, NEW k \in 0..Len(q) - 1
  PROVE  /\ SubSeq(q, 1, k) \in DOMAIN t
         /\ q[k + 1] \in 1..Arity(t[SubSeq(q, 1, k)])
         /\ SubSeq(q, 1, k + 1) = Append(SubSeq(q, 1, k), q[k + 1])
<1>1. q \in Seq(Nat) /\ Len(q) \in Nat /\ k + 1 \in 1..Len(q) /\ (k + 1) - 1 = k
  BY DEF IsTree
<1>2. SubSeq(q, 1, k) \in DOMAIN t /\ q[k + 1] \in 1..Arity(t[SubSeq(q, 1, k)])
  BY <1>1 DEF IsTree
<1>3. SubSeq(q, 1, k + 1) = SubSeq(q, 1, k) \o <<q[k + 1]>>
  BY <1>1, SubSeqRecursiveSecond
<1>4. SubSeq(q, 1, k) \in Seq(Nat) /\ q[k + 1] \in Nat
  <2>1. SubSeq(q, 1, k) \in Seq(Nat)
    BY <1>2 DEF IsTree
  <2>2. q[k + 1] \in Nat
    BY <1>1, ElementOfSeq
  <2>3. QED BY <2>1, <2>2
<1>5. Append(SubSeq(q, 1, k), q[k + 1]) = SubSeq(q, 1, k) \o <<q[k + 1]>>
  BY <1>4, AppendIsConcat
<1>6. QED BY <1>2, <1>3, <1>5

(* What a walk through And and Group comes by is true if its start is. *)
LEMMA ScopeIsTrue ==
  ASSUME NEW n \in Nat, NEW t, IsTree(t, n), NEW asset, NEW path \in DOMAIN t,
         Truth(t, asset)[path], NEW q \in Walk(t, path, {"and", "group"})
  PROVE  Truth(t, asset)[q]
<1> DEFINE v == Truth(t, asset)
           S == {j \in Nat : Len(path) + j <= Len(q) => v[SubSeq(q, 1, Len(path) + j)]}
<1>1. /\ q \in DOMAIN t /\ q \in Seq(Nat) /\ Len(q) \in Nat /\ Len(path) \in Nat
      /\ Len(path) <= Len(q) /\ SubSeq(q, 1, Len(path)) = path
      /\ \A k \in Len(path)..Len(q) - 1 : t[SubSeq(q, 1, k)].kind \in {"and", "group"}
  BY DEF Walk, IsTree
<1>2. \A p \in DOMAIN t : v[p] = TruthAt(t, asset, v, p)
  BY TruthDef
<1>2a. v[path]
  OBVIOUS
<1> HIDE DEF v
<1>3. 0 \in S
  <2>1. Len(path) + 0 = Len(path)
    BY <1>1
  <2>2. QED BY <1>1, <1>2a, <2>1
<1>4. ASSUME NEW j \in S PROVE j + 1 \in S
  <2> SUFFICES ASSUME Len(path) + (j + 1) <= Len(q)
               PROVE  v[SubSeq(q, 1, Len(path) + (j + 1))]
    OBVIOUS
  <2> DEFINE k == Len(path) + j
             p == SubSeq(q, 1, k)
  <2>1. k \in Len(path)..Len(q) - 1 /\ k \in 0..Len(q) - 1 /\ Len(path) + (j + 1) = k + 1
    BY <1>1
  <2>2. v[p]
    BY <2>1, <1>1
  <2> HIDE DEF k
  <2>3. /\ p \in DOMAIN t
        /\ q[k + 1] \in 1..Arity(t[p])
        /\ SubSeq(q, 1, k + 1) = Append(p, q[k + 1])
    BY <2>1, <1>1, PrefixStep
  <2>4. t[p].kind \in {"and", "group"}
    BY <2>1, <1>1
  <2> HIDE DEF p
  <2>5. TruthAt(t, asset, v, p)
    BY <2>2, <2>3, <1>2
  <2>6. Arity(t[p]) = t[p].arity /\ (t[p].kind = "group" => t[p].arity = 1)
    BY <2>3, <2>4 DEF IsTree, Arity
  <2>7. v[Append(p, q[k + 1])]
    BY <2>3, <2>4, <2>5, <2>6 DEF TruthAt
  <2>8. QED BY <2>1, <2>3, <2>7
<1>5. S = Nat
  <2>1. S \subseteq Nat
    OBVIOUS
  <2> HIDE DEF S
  <2>2. QED BY <1>3, <1>4, <2>1, SetInduction
<1>6. Len(q) - Len(path) \in Nat /\ Len(path) + (Len(q) - Len(path)) = Len(q)
  BY <1>1
<1>7. v[SubSeq(q, 1, Len(q))]
  <2> HIDE DEF S
  <2>1. Len(q) - Len(path) \in S
    BY <1>5, <1>6
  <2> USE DEF S
  <2>2. QED BY <2>1, <1>6, <1>1
<1>8. SubSeq(q, 1, Len(q)) = q
  BY <1>1, SubSeqFull
<1>9. QED BY <1>7, <1>8 DEF v

LEMMA ScopeMatches ==
  ASSUME NEW n \in Nat, NEW t, IsTree(t, n), NEW asset, NEW path \in DOMAIN t,
         Truth(t, asset)[path], NEW p \in AndScope(t, path)
  PROVE  Matches(p, asset) /\ p \in Predicates(t)
<1>1. PICK q \in Walk(t, path, {"and", "group"}) : t[q].kind = "predicate" /\ p = t[q]
  BY DEF AndScope, PredicatesAt
<1>2. q \in DOMAIN t
  BY DEF Walk
<1>3. Truth(t, asset)[q]
  BY ScopeIsTrue
<1>4. TruthAt(t, asset, Truth(t, asset), q)
  BY <1>2, <1>3, TruthDef
<1>5. Matches(p, asset)
  BY <1>1, <1>4 DEF TruthAt
<1>6. QED BY <1>1, <1>2, <1>5 DEF Predicates, PredicatesAt

(* What is required is found in an asset, what is excluded with "!=" is    *)
(* not.                                                                    *)
LEMMA OperatorsFind ==
  ASSUME NEW asset, IsAsset(asset), NEW p, Matches(p, asset)
  PROVE  /\ p.op \in {"=", "=="} => Fact(p.field, "=", Value(p)) \in asset
         /\ p.op = "!=" => Fact(p.field, "=", Value(p)) \notin asset
<1>1. CASE p.op = "="
  BY <1>1 DEF Matches, Excluding, Says, Found
<1>2. CASE p.op = "=="
  <2>1. Fact(p.field, "==", Value(p)) \in asset
    BY <1>2 DEF Matches, Excluding, Says, Found
  <2>2. QED BY <1>2, <2>1 DEF IsAsset, Fact
<1>3. CASE p.op = "!="
  BY <1>3 DEF Matches, Excluding, Says, Found
<1>4. QED BY <1>1, <1>2, <1>3

(* find_contradictions looks through And and Group only, so what it calls  *)
(* contradictory is required of every match of the node: two values of a   *)
(* field that has one and is compared whole, or a value that is found and, *)
(* by a plain "!=", not found, and then the node is true of no asset.  Of  *)
(* the other fields of SINGLE_VALUE_FIELDS it says nothing: there the code *)
(* compares texts, see ReportedYetMatched.                                 *)
THEOREM ContradictionsHoldNowhere ==
  ASSUME NEW n \in Nat, NEW t, IsTree(t, n), NEW asset, IsAsset(asset),
         NEW path \in DOMAIN t, NEW field,
         \/ field \in ExactFields /\ TwoRequired(t, path, field)
         \/ /\ RequiredAndExcluded(t, path, field)
            /\ \A p \in Predicates(t) : p.field = field => p.op \notin {"!==", "!*="}
  PROVE  ~Truth(t, asset)[path]
<1> SUFFICES ASSUME Truth(t, asset)[path]
             PROVE  FALSE
  OBVIOUS
<1>1. \A p \in AndScope(t, path) : Matches(p, asset) /\ p \in Predicates(t)
  BY ScopeMatches
<1>2. \A p \in Required(t, path) : Fact(p.field, "=", Value(p)) \in asset
  BY <1>1, OperatorsFind DEF Required
<1>3. CASE field \in ExactFields /\ TwoRequired(t, path, field)
  <2>1. PICK p, q \in Required(t, path) :
          p.field = field /\ q.field = field /\ Value(p) # Value(q)
    BY <1>3 DEF TwoRequired
  <2>2. Fact(field, "=", Value(p)) \in asset /\ Fact(field, "=", Value(q)) \in asset
    BY <1>2, <2>1
  <2>3. QED BY <1>3, <2>1, <2>2 DEF IsAsset, Fact
<1>4. CASE /\ RequiredAndExcluded(t, path, field)
           /\ \A p \in Predicates(t) : p.field = field => p.op \notin {"!==", "!*="}
  <2>1. PICK p \in Required(t, path), q \in Excluded(t, path) :
          p.field = field /\ q.field = field /\ Value(p) = Value(q)
    BY <1>4 DEF RequiredAndExcluded
  <2>2. q \in AndScope(t, path) /\ q.op = "!="
    BY <1>1, <1>4, <2>1 DEF Excluded, Excluding
  <2>3. Fact(field, "=", Value(q)) \notin asset
    BY <1>1, <2>1, <2>2, OperatorsFind
  <2>4. QED BY <1>2, <2>1, <2>3
<1>5. QED BY <1>3, <1>4

-------------------------------------------------------------------------------
(* Paths that start with a child of the root. *)
LEMMA PathBelow ==
  ASSUME NEW i \in Nat, NEW q \in Seq(Nat)
  PROVE  /\ <<i>> \o q \in Seq(Nat) /\ <<i>> \o q # <<>>
         /\ Len(<<i>> \o q) = Len(q) + 1
         /\ Head(<<i>> \o q) = i /\ Tail(<<i>> \o q) = q
         /\ (<<i>> \o q)[1] = i
         /\ \A k \in 1..Len(q) : (<<i>> \o q)[k + 1] = q[k]
<1> DEFINE p == <<i>> \o q
<1>1. <<i>> \in Seq(Nat) /\ Len(<<i>>) = 1 /\ <<i>>[1] = i /\ Len(q) \in Nat
  OBVIOUS
<1>2. /\ p \in Seq(Nat) /\ Len(p) = 1 + Len(q)
      /\ \A k \in 1..1 + Len(q) : p[k] = IF k <= 1 THEN <<i>>[k] ELSE q[k - 1]
  BY <1>1, ConcatProperties
<1> HIDE DEF p
<1>3. Len(p) = Len(q) + 1 /\ p # <<>> /\ p[1] = i
  BY <1>1, <1>2
<1>4. \A k \in 1..Len(q) : p[k + 1] = q[k]
  <2> TAKE k \in 1..Len(q)
  <2>1. k + 1 \in 1..1 + Len(q) /\ ~(k + 1 <= 1) /\ (k + 1) - 1 = k
    BY <1>1
  <2>2. QED BY <2>1, <1>2
<1>5. Head(p) = i
  BY <1>3
<1>6. Tail(p) = q
  <2>1. /\ Tail(p) \in Seq(Nat) /\ Len(Tail(p)) = Len(p) - 1
        /\ \A k \in 1..Len(Tail(p)) : Tail(p)[k] = p[k + 1]
    BY <1>2, <1>3, HeadTailProperties
  <2>2. Len(Tail(p)) = Len(q)
    BY <2>1, <1>3, <1>1
  <2>3. \A k \in 1..Len(Tail(p)) : Tail(p)[k] = q[k]
    BY <2>1, <2>2, <1>4
  <2>4. QED BY <2>1, <2>2, <2>3, SeqEqual
<1>7. QED BY <1>2, <1>3, <1>4, <1>5, <1>6 DEF p

LEMMA AppendBelow ==
  ASSUME NEW i \in Nat, NEW q \in Seq(Nat), NEW j \in Nat
  PROVE  Append(<<i>> \o q, j) = <<i>> \o Append(q, j)
<1>1. /\ <<i>> \in Seq(Nat) /\ <<j>> \in Seq(Nat) /\ <<i>> \o q \in Seq(Nat)
  BY PathBelow
<1>2. Append(<<i>> \o q, j) = (<<i>> \o q) \o <<j>>
  BY <1>1, AppendIsConcat
<1>3. Append(q, j) = q \o <<j>>
  BY AppendIsConcat
<1>4. (<<i>> \o q) \o <<j>> = <<i>> \o (q \o <<j>>)
  BY <1>1, ConcatAssociative
<1>5. QED BY <1>2, <1>3, <1>4

LEMMA PrefixBelow ==
  ASSUME NEW i \in Nat, NEW q \in Seq(Nat), NEW k \in 0..Len(q)
  PROVE  SubSeq(<<i>> \o q, 1, k + 1) = <<i>> \o SubSeq(q, 1, k)
<1> DEFINE p == <<i>> \o q
           s == SubSeq(p, 1, k + 1)
           r == SubSeq(q, 1, k)
<1>1. /\ p \in Seq(Nat) /\ Len(p) = Len(q) + 1 /\ Len(q) \in Nat
      /\ p[1] = i /\ \A m \in 1..Len(q) : p[m + 1] = q[m]
  BY PathBelow
<1>2. /\ \A m \in 1..k + 1 : p[m] \in Nat
      /\ \A m \in 1..k : q[m] \in Nat
  <2>1. ASSUME NEW m \in 1..k + 1 PROVE p[m] \in Nat
    <3>1. m \in 1..Len(p)
      BY <1>1
    <3> HIDE DEF p
    <3>2. QED BY <1>1, <3>1, ElementOfSeq
  <2>2. ASSUME NEW m \in 1..k PROVE q[m] \in Nat
    <3>1. m \in 1..Len(q)
      BY <1>1
    <3>2. QED BY <3>1, ElementOfSeq
  <2>3. QED BY <2>1, <2>2
<1> HIDE DEF p
<1>3. /\ s \in Seq(Nat) /\ Len(s) = k + 1 /\ \A m \in 1..k + 1 : s[m] = p[m]
  <2>1. k + 1 \in Int /\ 1 \in Int /\ 1 <= k + 1
    OBVIOUS
  <2>2. /\ s \in Seq(Nat) /\ Len(s) = IF 1 <= k + 1 THEN (k + 1) - 1 + 1 ELSE 0
        /\ \A m \in 1..(k + 1) - 1 + 1 : s[m] = p[1 + m - 1]
    BY <1>2, <2>1, SubSeqProperties
  <2>3. QED BY <2>1, <2>2
<1>4. /\ r \in Seq(Nat) /\ Len(r) = k /\ \A m \in 1..k : r[m] = q[m]
  <2>1. k \in Int /\ 1 \in Int
    OBVIOUS
  <2>2. /\ r \in Seq(Nat) /\ Len(r) = IF 1 <= k THEN k - 1 + 1 ELSE 0
        /\ \A m \in 1..k - 1 + 1 : r[m] = q[1 + m - 1]
    BY <1>2, <2>1, SubSeqProperties
  <2>3. QED BY <2>1, <2>2
<1> HIDE DEF s, r
<1>5. /\ <<i>> \o r \in Seq(Nat) /\ Len(<<i>> \o r) = k + 1 /\ (<<i>> \o r)[1] = i
      /\ \A m \in 1..k : (<<i>> \o r)[m + 1] = r[m]
  BY <1>4, PathBelow
<1>6. \A m \in 1..k + 1 : s[m] = (<<i>> \o r)[m]
  <2> TAKE m \in 1..k + 1
  <2>1. CASE m = 1
    BY <2>1, <1>1, <1>3, <1>5
  <2>2. CASE m # 1
    <3>1. m - 1 \in 1..k /\ (m - 1) + 1 = m /\ m - 1 \in 1..Len(q)
      BY <2>2
    <3>2. p[m] = q[m - 1]
      BY <3>1, <1>1
    <3>3. (<<i>> \o r)[m] = r[m - 1]
      BY <3>1, <1>5
    <3>4. QED BY <3>1, <3>2, <3>3, <1>3, <1>4
  <2>3. QED BY <2>1, <2>2
<1>7. s = <<i>> \o r
  BY <1>3, <1>5, <1>6, SeqEqual
<1>8. QED BY <1>7 DEF s, r, p

(* The paths of a connective: the root, and below child i those of its     *)
(* tree.                                                                   *)
Joins(J, kind, m, trees) ==
  /\ <<>> \in DOMAIN J
  /\ J[<<>>] = [kind |-> kind, arity |-> m]
  /\ \A i \in 1..m : \A q \in DOMAIN trees[i] :
       /\ <<i>> \o q \in DOMAIN J
       /\ J[<<i>> \o q] = trees[i][q]
  /\ \A path \in DOMAIN J :
       path = <<>> \/ \E i \in 1..m : \E q \in DOMAIN trees[i] : path = <<i>> \o q

LEMMA JoinPaths ==
  ASSUME NEW kind, NEW m \in Nat, NEW trees, DOMAIN trees = 1..m, Len(trees) = m,
         \A i \in 1..m : DOMAIN trees[i] \subseteq Seq(Nat)
  PROVE  Joins(Join(kind, trees), kind, m, trees)
<1>1. DOMAIN Join(kind, trees) = {<<>>} \cup Below(trees)
  BY DEF Join
<1>2. \A path : path \in Below(trees) <=>
        \E i \in 1..m : \E q \in DOMAIN trees[i] : path = <<i>> \o q
  <2> DEFINE under(i) == {<<i>> \o q : q \in DOMAIN trees[i]}
  <2>1. Below(trees) = UNION {under(i) : i \in 1..m}
    BY DEF Below
  <2>2. \A i, path : path \in under(i) <=> \E q \in DOMAIN trees[i] : path = <<i>> \o q
    OBVIOUS
  <2> HIDE DEF under
  <2>3. ASSUME NEW path \in Below(trees)
        PROVE  \E i \in 1..m : \E q \in DOMAIN trees[i] : path = <<i>> \o q
    <3>1. PICK i \in 1..m : path \in under(i)
      BY <2>1
    <3>2. QED BY <3>1, <2>2
  <2>4. ASSUME NEW path, NEW i \in 1..m, NEW q \in DOMAIN trees[i], path = <<i>> \o q
        PROVE  path \in Below(trees)
    <3>1. path \in under(i)
      BY <2>2, <2>4
    <3>2. QED BY <3>1, <2>1
  <2>5. QED BY <2>3, <2>4
<1>3. ASSUME NEW i \in 1..m, NEW q \in DOMAIN trees[i]
      PROVE  /\ <<i>> \o q \in DOMAIN Join(kind, trees)
             /\ Join(kind, trees)[<<i>> \o q] = trees[i][q]
  <2>1. i \in Nat /\ q \in Seq(Nat)
    OBVIOUS
  <2>2. <<i>> \o q # <<>> /\ Head(<<i>> \o q) = i /\ Tail(<<i>> \o q) = q
    BY <2>1, PathBelow
  <2>3. <<i>> \o q \in {<<>>} \cup Below(trees)
    BY <1>2
  <2>4. QED BY <1>1, <2>2, <2>3 DEF Join
<1>4. Join(kind, trees)[<<>>] = [kind |-> kind, arity |-> m]
  BY DEF Join
<1>5. QED BY <1>1, <1>2, <1>3, <1>4 DEF Joins

LEMMA JoinIsTree ==
  ASSUME NEW n \in Nat, NEW kind \in Kinds \ {"predicate"}, NEW m \in Nat \ {0},
         kind \in {"not", "group"} => m = 1,
         NEW trees, DOMAIN trees = 1..m, Len(trees) = m,
         \A i \in 1..m : IsTree(trees[i], n)
  PROVE  IsTree(Join(kind, trees), n + 1)
<1> DEFINE J == Join(kind, trees)
<1>1. \A i \in 1..m : DOMAIN trees[i] \subseteq Seq(Nat) /\ <<>> \in DOMAIN trees[i]
  BY DEF IsTree
<1>2. Joins(J, kind, m, trees)
  BY <1>1, JoinPaths
<1> HIDE DEF J
<1>3. Arity(J[<<>>]) = m
  BY <1>2 DEF Arity, Joins
<1> DEFINE Ok(path) ==
       /\ path \in Seq(Nat) /\ Len(path) <= n + 1
       /\ J[path].kind \in Kinds
       /\ J[path].kind # "predicate" => J[path].arity \in Nat \ {0}
       /\ J[path].kind \in {"not", "group"} => J[path].arity = 1
       /\ \A i \in 1..Arity(J[path]) : Append(path, i) \in DOMAIN J
       /\ \A k \in 1..Len(path) :
            /\ SubSeq(path, 1, k - 1) \in DOMAIN J
            /\ path[k] \in 1..Arity(J[SubSeq(path, 1, k - 1)])
<1>4. Ok(<<>>)
  <2>1. <<>> \in Seq(Nat) /\ Len(<<>>) = 0
    OBVIOUS
  <2>2. ASSUME NEW i \in 1..m PROVE Append(<<>>, i) \in DOMAIN J
    <3>1. <<i>> \o <<>> \in DOMAIN J
      BY <1>1, <1>2 DEF Joins
    <3>2. Append(<<>>, i) = <<i>> \o <<>>
      OBVIOUS
    <3>3. QED BY <3>1, <3>2
  <2>3. QED BY <2>1, <2>2, <1>2, <1>3 DEF Joins
<1>5. ASSUME NEW i \in 1..m, NEW q \in DOMAIN trees[i]
      PROVE  Ok(<<i>> \o q)
  <2> DEFINE p == <<i>> \o q
             t == trees[i]
  <2>1. /\ q \in Seq(Nat) /\ Len(q) \in Nat /\ Len(q) <= n
        /\ t[q].kind \in Kinds
        /\ t[q].kind # "predicate" => t[q].arity \in Nat \ {0}
        /\ t[q].kind \in {"not", "group"} => t[q].arity = 1
        /\ \A j \in 1..Arity(t[q]) : Append(q, j) \in DOMAIN t
        /\ \A k \in 1..Len(q) :
             /\ SubSeq(q, 1, k - 1) \in DOMAIN t
             /\ q[k] \in 1..Arity(t[SubSeq(q, 1, k - 1)])
    BY DEF IsTree
  <2>2. i \in Nat
    OBVIOUS
  <2>3. /\ p \in Seq(Nat) /\ Len(p) = Len(q) + 1 /\ p[1] = i
        /\ \A k \in 1..Len(q) : p[k + 1] = q[k]
    BY <2>1, <2>2, PathBelow
  <2>4. J[p] = t[q]
    BY <1>2 DEF Joins
  <2>5. ASSUME NEW j \in 1..Arity(J[p]) PROVE Append(p, j) \in DOMAIN J
    <3>1. Append(q, j) \in DOMAIN t
      BY <2>1, <2>4
    <3>2. <<i>> \o Append(q, j) \in DOMAIN J
      BY <3>1, <1>2 DEF Joins
    <3>3. Arity(t[q]) \in Nat /\ j \in Nat
      BY <2>1, <2>4 DEF Arity
    <3>4. Append(p, j) = <<i>> \o Append(q, j)
      BY <2>1, <2>2, <3>3, AppendBelow
    <3>5. QED BY <3>2, <3>4
  <2>6. ASSUME NEW k \in 1..Len(p)
        PROVE  /\ SubSeq(p, 1, k - 1) \in DOMAIN J
               /\ p[k] \in 1..Arity(J[SubSeq(p, 1, k - 1)])
    <3>1. CASE k = 1
      <4>1. SubSeq(p, 1, 0) = <<>>
        BY SubSeqEmpty
      <4>2. k - 1 = 0
        BY <3>1
      <4>3. QED BY <4>1, <4>2, <3>1, <2>3, <1>2, <1>3 DEF Joins
    <3>2. CASE k # 1
      <4> DEFINE h == k - 1
      <4>1. h \in 1..Len(q) /\ h - 1 \in 0..Len(q) /\ (h - 1) + 1 = h /\ h + 1 = k
        BY <3>2, <2>3, <2>1
      <4> HIDE DEF h
      <4>2. SubSeq(q, 1, h - 1) \in DOMAIN t /\ q[h] \in 1..Arity(t[SubSeq(q, 1, h - 1)])
        BY <4>1, <2>1
      <4>3. SubSeq(p, 1, (h - 1) + 1) = <<i>> \o SubSeq(q, 1, h - 1)
        BY <4>1, <2>1, <2>2, PrefixBelow
      <4>4. SubSeq(p, 1, h) = <<i>> \o SubSeq(q, 1, h - 1)
        BY <4>1, <4>3
      <4>5. /\ SubSeq(p, 1, h) \in DOMAIN J
            /\ J[SubSeq(p, 1, h)] = t[SubSeq(q, 1, h - 1)]
        BY <4>2, <4>4, <1>2 DEF Joins
      <4>6. p[k] = q[h]
        BY <4>1, <2>3
      <4>7. QED BY <4>2, <4>5, <4>6 DEF h
    <3>3. QED BY <3>1, <3>2
  <2>7. Len(p) <= n + 1
    BY <2>1, <2>3
  <2> HIDE DEF p
  <2>8. Ok(p)
    BY <2>1, <2>3, <2>4, <2>5, <2>6, <2>7
  <2>9. QED BY <2>8 DEF p
<1>6. \A path \in DOMAIN J : Ok(path)
  <2> HIDE DEF Ok
  <2>1. QED BY <1>2, <1>4, <1>5 DEF Joins
<1>7. IsTree(J, n + 1)
  BY <1>2, <1>6 DEF IsTree, Joins
<1>8. QED BY <1>7 DEF J

(* A connective is true as its trees are. *)
LEMMA JoinHolds ==
  ASSUME NEW n \in Nat, NEW kind \in Kinds \ {"predicate"}, NEW m \in Nat \ {0},
         kind \in {"not", "group"} => m = 1,
         NEW trees, DOMAIN trees = 1..m, Len(trees) = m,
         \A i \in 1..m : IsTree(trees[i], n),
         NEW asset
  PROVE  /\ kind = "and" =>
              (Holds(Join(kind, trees), asset) <=> \A i \in 1..m : Holds(trees[i], asset))
         /\ kind = "or" =>
              (Holds(Join(kind, trees), asset) <=> \E i \in 1..m : Holds(trees[i], asset))
<1> DEFINE J == Join(kind, trees)
           v == Truth(J, asset)
<1>1. \A i \in 1..m : DOMAIN trees[i] \subseteq Seq(Nat) /\ <<>> \in DOMAIN trees[i]
  BY DEF IsTree
<1>2. Joins(J, kind, m, trees)
  BY <1>1, JoinPaths
<1>3. IsTree(J, n + 1) /\ n + 1 \in Nat
  BY JoinIsTree
<1>4. \A path \in DOMAIN J : v[path] = TruthAt(J, asset, v, path)
  BY <1>3, TruthDef
<1>5. Holds(J, asset) = TruthAt(J, asset, v, <<>>)
  BY <1>3, HoldsDef
<1> HIDE DEF J, v
<1>6. ASSUME NEW i \in 1..m
      PROVE  v[Append(<<>>, i)] = Holds(trees[i], asset)
  <2> DEFINE t == trees[i]
             w == [q \in DOMAIN t |-> v[<<i>> \o q]]
             u == Truth(t, asset)
  <2>1. IsTree(t, n) /\ i \in Nat
    OBVIOUS
  <2>2. ASSUME NEW q \in DOMAIN t
        PROVE  w[q] = TruthAt(t, asset, w, q)
    <3> DEFINE p == <<i>> \o q
    <3>1. p \in DOMAIN J /\ J[p] = t[q]
      BY <1>2 DEF Joins
    <3>2. v[p] = TruthAt(J, asset, v, p)
      BY <3>1, <1>4
    <3>3. ASSUME NEW j \in 1..Arity(t[q])
          PROVE  v[Append(p, j)] = w[Append(q, j)]
      <4>1. Append(q, j) \in DOMAIN t /\ q \in Seq(Nat)
        BY <2>1 DEF IsTree
      <4>2. j \in Nat
        BY <2>1 DEF IsTree, Arity
      <4>3. Append(p, j) = <<i>> \o Append(q, j)
        BY <2>1, <4>1, <4>2, AppendBelow
      <4>4. QED BY <4>1, <4>3
    <3> HIDE DEF w, p
    <3>4. TruthAt(J, asset, v, p) = TruthAt(t, asset, w, q)
      <4>1. CASE t[q].kind = "predicate"
        BY <4>1, <3>1 DEF TruthAt
      <4>2. CASE t[q].kind # "predicate"
        <5>1. Arity(t[q]) = t[q].arity /\ t[q].arity \in Nat \ {0}
          BY <4>2, <2>1 DEF IsTree, Arity
        <5>2. 1 \in 1..t[q].arity
          BY <5>1
        <5> HIDE DEF t
        <5>3. QED BY <4>2, <5>1, <5>2, <3>1, <3>3 DEF TruthAt
      <4>3. QED BY <4>1, <4>2
    <3>5. w[q] = v[p]
      BY DEF w, p
    <3>6. QED BY <3>2, <3>4, <3>5
  <2>3. \A q \in DOMAIN t : u[q] = TruthAt(t, asset, u, q)
    BY <2>1, TruthDef
  <2>4. <<>> \in DOMAIN t
    BY <1>1
  <2> HIDE DEF w, u, t
  <2>5. \A q \in DOMAIN t : w[q] = u[q]
    <3>1. Evaluates(t, asset, w) /\ Evaluates(t, asset, u)
      BY <2>2, <2>3 DEF Evaluates
    <3>2. IsTree(t, n)
      BY <2>1
    <3>3. QED BY <3>1, <3>2, TruthUnique
  <2>6. w[<<>>] = Holds(t, asset)
    BY <2>4, <2>5 DEF Holds, u
  <2>7. <<i>> \o <<>> = Append(<<>>, i)
    OBVIOUS
  <2>8. QED BY <2>4, <2>6, <2>7 DEF w, t
<1>7. J[<<>>].kind = kind /\ J[<<>>].arity = m
  BY <1>2 DEF Joins
<1>8. CASE kind = "and"
  <2>1. TruthAt(J, asset, v, <<>>) <=> \A i \in 1..m : v[Append(<<>>, i)]
    BY <1>7, <1>8 DEF TruthAt
  <2>2. QED BY <2>1, <1>5, <1>6, <1>8 DEF J
<1>9. CASE kind = "or"
  <2>1. TruthAt(J, asset, v, <<>>) <=> \E i \in 1..m : v[Append(<<>>, i)]
    BY <1>7, <1>9 DEF TruthAt
  <2>2. QED BY <2>1, <1>5, <1>6, <1>9 DEF J
<1>10. QED BY <1>8, <1>9

-------------------------------------------------------------------------------
(* A predicate alone. *)
LEMMA LeafIsTree ==
  ASSUME NEW n \in Nat, NEW p, p.kind = "predicate"
  PROVE  /\ IsTree(Leaf(p), n)
         /\ DOMAIN Leaf(p) = {<<>>} /\ Leaf(p)[<<>>] = p
<1>1. DOMAIN Leaf(p) = {<<>>} /\ Leaf(p)[<<>>] = p
  BY DEF Leaf
<1>2. Arity(p) = 0 /\ p.kind \in Kinds
  BY DEF Arity, Kinds
<1>3. <<>> \in Seq(Nat) /\ Len(<<>>) = 0
  OBVIOUS
<1>4. IsTree(Leaf(p), n)
  BY <1>1, <1>2, <1>3 DEF IsTree
<1>5. QED BY <1>1, <1>4

LEMMA LeafHolds ==
  ASSUME NEW p, p.kind = "predicate", NEW asset
  PROVE  Holds(Leaf(p), asset) = Matches(p, asset)
<1>1. IsTree(Leaf(p), 0) /\ Leaf(p)[<<>>] = p
  BY LeafIsTree
<1>2. Holds(Leaf(p), asset) = TruthAt(Leaf(p), asset, Truth(Leaf(p), asset), <<>>)
  BY <1>1, HoldsDef
<1>3. Matches(p, asset) \in BOOLEAN
  <2>1. CASE p.op \in Excluding
    <3>1. Matches(p, asset) = (Says(p) \notin asset)
      BY <2>1 DEF Matches
    <3>2. QED BY <3>1
  <2>2. CASE p.op \notin Excluding
    <3>1. Matches(p, asset) = (Says(p) \in asset)
      BY <2>2 DEF Matches
    <3>2. QED BY <3>1
  <2>3. QED BY <2>1, <2>2
<1>4. QED BY <1>1, <1>2, <1>3 DEF TruthAt

(* A bounded set of naturals has a greatest element. *)
LEMMA MaxOfBounded ==
  ASSUME NEW S, S \subseteq Nat, S # {}, NEW n \in Nat, \A x \in S : x <= n
  PROVE  Max(S) \in S /\ \A x \in S : x <= Max(S)
<1> DEFINE P == {j \in Nat : \E x \in S : x >= j}
<1>1. CASE \A x \in S : \E y \in S : y > x
  <2>1. 0 \in P
    <3>1. PICK x \in S : TRUE
      OBVIOUS
    <3>2. x \in Nat /\ x >= 0
      OBVIOUS
    <3>3. QED BY <3>2
  <2>2. ASSUME NEW j \in P PROVE j + 1 \in P
    <3>1. PICK x \in S : x >= j
      OBVIOUS
    <3>2. PICK y \in S : y > x
      BY <1>1
    <3>3. y >= j + 1 /\ j + 1 \in Nat
      BY <3>1, <3>2
    <3>4. QED BY <3>3
  <2>3. P \subseteq Nat
    OBVIOUS
  <2> HIDE DEF P
  <2>4. P = Nat
    BY <2>1, <2>2, <2>3, SetInduction
  <2>5. n + 1 \in P
    BY <2>4
  <2> USE DEF P
  <2>6. PICK x \in S : x >= n + 1
    BY <2>5
  <2>7. QED BY <2>6
<1>2. CASE \E x \in S : \A y \in S : ~(y > x)
  <2>1. \E x \in S : \A y \in S : x >= y
    BY <1>2
  <2>2. Max(S) \in S /\ \A y \in S : Max(S) >= y
    BY <2>1 DEF Max
  <2>3. QED BY <2>2
<1>3. QED BY <1>1, <1>2

LEMMA DepthReaches ==
  ASSUME NEW n \in Nat, NEW t, IsTree(t, n), NEW path \in DOMAIN t
  PROVE  Depth(t) \in Nat /\ Len(path) <= Depth(t)
<1> DEFINE lengths == {Len(q) : q \in DOMAIN t}
<1>1. lengths \subseteq Nat /\ lengths # {} /\ \A x \in lengths : x <= n
  <2>1. \A q \in DOMAIN t : Len(q) \in Nat /\ Len(q) <= n
    BY DEF IsTree
  <2>2. QED BY <2>1
<1>2. Max(lengths) \in lengths /\ \A x \in lengths : x <= Max(lengths)
  <2> HIDE DEF lengths
  <2>1. QED BY <1>1, MaxOfBounded
<1>3. Len(path) \in lengths
  OBVIOUS
<1>4. QED BY <1>1, <1>2, <1>3 DEF Depth

(* A connective below the root makes the tree two deep. *)
THEOREM NestedIsDeep ==
  ASSUME NEW n \in Nat, NEW t, IsTree(t, n), NEW path \in DOMAIN t,
         Len(path) = 1, t[path].kind # "predicate"
  PROVE  Depth(t) >= 2
<1>1. 1 \in 1..Arity(t[path])
  BY DEF IsTree, Arity
<1>2. Append(path, 1) \in DOMAIN t /\ Len(Append(path, 1)) = Len(path) + 1
  BY <1>1, ChildIsDeeper
<1>3. Depth(t) \in Nat /\ Len(Append(path, 1)) <= Depth(t)
  BY <1>2, DepthReaches
<1>4. QED BY <1>2, <1>3

LEMMA DeeperBound ==
  ASSUME NEW n \in Nat, NEW m \in Nat, n <= m, NEW t, IsTree(t, n)
  PROVE  IsTree(t, m)
<1>1. \A path \in DOMAIN t : Len(path) \in Nat /\ Len(path) <= m
  BY DEF IsTree
<1>2. QED BY <1>1 DEF IsTree

LEMMA AndOfTrees ==
  ASSUME NEW n \in Nat, NEW m \in Nat \ {0}, NEW trees, DOMAIN trees = 1..m, Len(trees) = m,
         \A i \in 1..m : IsTree(trees[i], n)
  PROVE  /\ IsTree(And(trees), n + 1)
         /\ \A asset : Holds(And(trees), asset) <=> \A i \in 1..m : Holds(trees[i], asset)
<1>1. "and" \in Kinds \ {"predicate"} /\ "and" \notin {"not", "group"}
  BY DEF Kinds
<1>2. IsTree(Join("and", trees), n + 1)
  BY <1>1, JoinIsTree
<1>3. \A asset : Holds(Join("and", trees), asset) <=> \A i \in 1..m : Holds(trees[i], asset)
  BY <1>1, JoinHolds
<1>4. QED BY <1>2, <1>3 DEF And

LEMMA OrOfTrees ==
  ASSUME NEW n \in Nat, NEW m \in Nat \ {0}, NEW trees, DOMAIN trees = 1..m, Len(trees) = m,
         \A i \in 1..m : IsTree(trees[i], n)
  PROVE  /\ IsTree(Or(trees), n + 1)
         /\ \A asset : Holds(Or(trees), asset) <=> \E i \in 1..m : Holds(trees[i], asset)
<1>1. "or" \in Kinds \ {"predicate"} /\ "or" \notin {"not", "group"}
  BY DEF Kinds
<1>2. IsTree(Join("or", trees), n + 1)
  BY <1>1, JoinIsTree
<1>3. \A asset : Holds(Join("or", trees), asset) <=> \E i \in 1..m : Holds(trees[i], asset)
  BY <1>1, JoinHolds
<1>4. QED BY <1>2, <1>3 DEF Or

-------------------------------------------------------------------------------
(* The code computes what it asks of a tree by recursion over the nodes.   *)
(* The theorems below are the equations of that recursion: each operator   *)
(* of QueryTree is for a connective what the code makes of its children.   *)
IsJoin(J, kind, m, trees, n) ==
  /\ m \in Nat \ {0} /\ n \in Nat
  /\ Joins(J, kind, m, trees)
  /\ \A i \in 1..m : IsTree(trees[i], n)

LEMMA JoinIsJoin ==
  ASSUME NEW n \in Nat, NEW kind, NEW m \in Nat \ {0}, NEW trees, DOMAIN trees = 1..m,
         Len(trees) = m, \A i \in 1..m : IsTree(trees[i], n)
  PROVE  IsJoin(Join(kind, trees), kind, m, trees, n)
<1>1. \A i \in 1..m : DOMAIN trees[i] \subseteq Seq(Nat)
  BY DEF IsTree
<1>2. Joins(Join(kind, trees), kind, m, trees)
  BY <1>1, JoinPaths
<1>3. QED BY <1>2 DEF IsJoin

LEMMA PrefixIsThere ==
  ASSUME NEW n, NEW t, IsTree(t, n), NEW r \in DOMAIN t, NEW k \in 0..Len(r)
  PROVE  SubSeq(r, 1, k) \in DOMAIN t
<1>1. r \in Seq(Nat) /\ Len(r) \in Nat
  BY DEF IsTree
<1>2. CASE k = Len(r)
  <2>1. SubSeq(r, 1, Len(r)) = r
    BY <1>1, SubSeqFull
  <2>2. QED BY <1>2, <2>1
<1>3. CASE k # Len(r)
  <2>1. k \in 0..Len(r) - 1
    BY <1>1, <1>3
  <2>2. QED BY <2>1, PrefixStep
<1>4. QED BY <1>2, <1>3

(* A walk that starts below the root is one of the child's tree. *)
LEMMA WalkBelow ==
  ASSUME NEW J, NEW kind, NEW m, NEW trees, NEW n, IsJoin(J, kind, m, trees, n), NEW kinds,
         NEW i \in 1..m, NEW q \in DOMAIN trees[i], NEW r \in DOMAIN trees[i]
  PROVE  <<i>> \o r \in Walk(J, <<i>> \o q, kinds) <=> r \in Walk(trees[i], q, kinds)
<1> DEFINE t == trees[i]
           p == <<i>> \o q
           s == <<i>> \o r
<1>1. /\ IsTree(t, n) /\ i \in Nat /\ q \in Seq(Nat) /\ r \in Seq(Nat)
      /\ Len(q) \in Nat /\ Len(r) \in Nat /\ r \in DOMAIN t /\ q \in DOMAIN t
  BY DEF IsJoin, IsTree
<1>2. /\ Len(p) = Len(q) + 1 /\ Tail(p) = q
      /\ Len(s) = Len(r) + 1
  BY <1>1, PathBelow
<1>3. /\ s \in DOMAIN J
      /\ \A h \in DOMAIN t : J[<<i>> \o h] = t[h]
  BY DEF IsJoin, Joins
<1>4. \A k \in 0..Len(r) : SubSeq(s, 1, k + 1) = <<i>> \o SubSeq(r, 1, k)
  BY <1>1, PrefixBelow
<1>5. \A k \in 0..Len(r) : SubSeq(r, 1, k) \in DOMAIN t /\ SubSeq(r, 1, k) \in Seq(Nat)
  BY <1>1, PrefixIsThere DEF IsTree
<1> HIDE DEF t, p, s
<1>6. CASE Len(q) <= Len(r)
  <2>1. SubSeq(s, 1, Len(p)) = <<i>> \o SubSeq(r, 1, Len(q)) /\ Len(q) \in 0..Len(r)
    BY <1>1, <1>2, <1>4, <1>6
  <2>2. Tail(<<i>> \o SubSeq(r, 1, Len(q))) = SubSeq(r, 1, Len(q))
    BY <1>1, <1>5, <2>1, PathBelow
  <2>3. SubSeq(s, 1, Len(p)) = p <=> SubSeq(r, 1, Len(q)) = q
    BY <2>1, <2>2, <1>2 DEF p
  <2>4. ASSUME NEW k \in Len(q)..Len(r) - 1
        PROVE  J[SubSeq(s, 1, k + 1)] = t[SubSeq(r, 1, k)]
    <3>1. k \in 0..Len(r)
      BY <1>1
    <3>2. QED BY <3>1, <1>3, <1>4, <1>5
  <2>5. (\A k \in Len(p)..Len(s) - 1 : J[SubSeq(s, 1, k)].kind \in kinds)
          <=> \A k \in Len(q)..Len(r) - 1 : t[SubSeq(r, 1, k)].kind \in kinds
    <3>1. ASSUME \A k \in Len(p)..Len(s) - 1 : J[SubSeq(s, 1, k)].kind \in kinds,
                 NEW k \in Len(q)..Len(r) - 1
          PROVE  t[SubSeq(r, 1, k)].kind \in kinds
      <4>1. k + 1 \in Len(p)..Len(s) - 1
        BY <1>1, <1>2
      <4>2. QED BY <3>1, <4>1, <2>4
    <3>2. ASSUME \A k \in Len(q)..Len(r) - 1 : t[SubSeq(r, 1, k)].kind \in kinds,
                 NEW k \in Len(p)..Len(s) - 1
          PROVE  J[SubSeq(s, 1, k)].kind \in kinds
      <4>1. k - 1 \in Len(q)..Len(r) - 1 /\ (k - 1) + 1 = k
        BY <1>1, <1>2
      <4>2. J[SubSeq(s, 1, (k - 1) + 1)] = t[SubSeq(r, 1, k - 1)]
        BY <4>1, <2>4
      <4>3. QED BY <3>2, <4>1, <4>2
    <3>3. QED BY <3>1, <3>2
  <2>6. Len(p) <= Len(s)
    BY <1>1, <1>2, <1>6
  <2>7. s \in Walk(J, p, kinds) <=> r \in Walk(t, q, kinds)
    BY <1>1, <1>3, <1>6, <2>3, <2>5, <2>6 DEF Walk
  <2>8. QED BY <2>7 DEF s, p, t
<1>7. CASE ~(Len(q) <= Len(r))
  <2>1. ~(Len(p) <= Len(s))
    BY <1>1, <1>2, <1>7
  <2>2. s \notin Walk(J, p, kinds) /\ r \notin Walk(t, q, kinds)
    BY <1>7, <2>1 DEF Walk
  <2>3. QED BY <2>2 DEF s, p, t
<1>8. QED BY <1>6, <1>7

StaysBelow(J, t, i, q, kinds) ==
  \A path \in Walk(J, <<i>> \o q, kinds) : \E r \in DOMAIN t : path = <<i>> \o r

LEMMA WalkStaysBelow ==
  ASSUME NEW J, NEW kind, NEW m, NEW trees, NEW n, IsJoin(J, kind, m, trees, n), NEW kinds,
         NEW i \in 1..m, NEW q \in DOMAIN trees[i]
  PROVE  StaysBelow(J, trees[i], i, q, kinds)
<1> SUFFICES ASSUME NEW path \in Walk(J, <<i>> \o q, kinds)
             PROVE  \E r \in DOMAIN trees[i] : path = <<i>> \o r
  BY DEF StaysBelow
<1>1. i \in Nat /\ q \in Seq(Nat) /\ m \in Nat
  BY DEF IsJoin, IsTree
<1>2. /\ Len(<<i>> \o q) = Len(q) + 1 /\ (<<i>> \o q)[1] = i /\ Len(q) \in Nat
  BY <1>1, PathBelow
<1>3. /\ path \in DOMAIN J /\ Len(<<i>> \o q) <= Len(path)
      /\ SubSeq(path, 1, Len(<<i>> \o q)) = <<i>> \o q
  BY DEF Walk
<1>4. path # <<>>
  BY <1>2, <1>3
<1>5. PICK j \in 1..m : \E r \in DOMAIN trees[j] : path = <<j>> \o r
  BY <1>3, <1>4 DEF IsJoin, Joins
<1>5a. PICK r \in DOMAIN trees[j] : path = <<j>> \o r
  BY <1>5
<1>6. /\ j \in Nat /\ r \in Seq(Nat) /\ Len(path) \in Nat /\ path[1] = j
  BY <1>1, <1>5a, PathBelow DEF IsJoin, IsTree
<1>7. SubSeq(path, 1, Len(q) + 1)[1] = path[1]
  <2> DEFINE l == Len(q) + 1
  <2>1. l \in Int /\ 1 \in Int /\ 1 \in 1..l - 1 + 1 /\ l <= Len(path) /\ 1 + 1 - 1 = 1
    BY <1>2, <1>3
  <2>2. path \in Seq(Nat)
    BY <1>5a, <1>6, PathBelow
  <2>3. \A k \in 1..l : path[k] \in Nat
    BY <2>1, <2>2, <1>6
  <2> HIDE DEF l
  <2>4. SubSeq(path, 1, l)[1] = path[1 + 1 - 1]
    BY <2>1, <2>3, SubSeqProperties
  <2>5. QED BY <2>1, <2>4 DEF l
<1>8. j = i
  BY <1>2, <1>3, <1>6, <1>7
<1>9. QED BY <1>5a, <1>8

(* A walk from the root enters the children of a node of its kinds. *)
LEMMA WalkFromRoot ==
  ASSUME NEW J, NEW kind, NEW m, NEW trees, NEW n, IsJoin(J, kind, m, trees, n), NEW kinds
  PROVE  /\ <<>> \in Walk(J, <<>>, kinds)
         /\ \A i \in 1..m : \A r \in DOMAIN trees[i] :
              <<i>> \o r \in Walk(J, <<>>, kinds)
                <=> kind \in kinds /\ r \in Walk(trees[i], <<>>, kinds)
<1>1. <<>> \in DOMAIN J /\ J[<<>>].kind = kind
  BY DEF IsJoin, Joins
<1>2. Len(<<>>) = 0 /\ \A q : SubSeq(q, 1, 0) = <<>>
  BY SubSeqEmpty
<1>3. <<>> \in Walk(J, <<>>, kinds)
  BY <1>1, <1>2 DEF Walk
<1>4. ASSUME NEW i \in 1..m, NEW r \in DOMAIN trees[i]
      PROVE  <<i>> \o r \in Walk(J, <<>>, kinds)
               <=> kind \in kinds /\ r \in Walk(trees[i], <<>>, kinds)
  <2> DEFINE t == trees[i]
             s == <<i>> \o r
  <2>1. /\ IsTree(t, n) /\ i \in Nat /\ r \in Seq(Nat) /\ Len(r) \in Nat
        /\ <<>> \in DOMAIN t /\ r \in DOMAIN t
    BY DEF IsJoin, IsTree
  <2>2. Len(s) = Len(r) + 1
    BY <2>1, PathBelow
  <2>3. /\ s \in DOMAIN J
        /\ \A h \in DOMAIN t : J[<<i>> \o h] = t[h]
    BY DEF IsJoin, Joins
  <2>4. \A k \in 0..Len(r) : SubSeq(s, 1, k + 1) = <<i>> \o SubSeq(r, 1, k)
    BY <2>1, PrefixBelow
  <2>5. \A k \in 0..Len(r) : SubSeq(r, 1, k) \in DOMAIN t
    BY <2>1, PrefixIsThere
  <2> HIDE DEF t, s
  <2>6. \A k \in 0..Len(r) : J[SubSeq(s, 1, k + 1)] = t[SubSeq(r, 1, k)]
    BY <2>3, <2>4, <2>5
  <2>7. s \in Walk(J, <<>>, kinds)
          <=> \A k \in 0..Len(s) - 1 : J[SubSeq(s, 1, k)].kind \in kinds
    BY <2>1, <2>2, <2>3, <1>2 DEF Walk
  <2>8. r \in Walk(t, <<>>, kinds)
          <=> \A k \in 0..Len(r) - 1 : t[SubSeq(r, 1, k)].kind \in kinds
    BY <2>1, <1>2 DEF Walk
  <2>9. ASSUME \A k \in 0..Len(s) - 1 : J[SubSeq(s, 1, k)].kind \in kinds
        PROVE  kind \in kinds /\ \A k \in 0..Len(r) - 1 : t[SubSeq(r, 1, k)].kind \in kinds
    <3>1. 0 \in 0..Len(s) - 1
      BY <2>1, <2>2
    <3>2. kind \in kinds
      BY <2>9, <3>1, <1>1, <1>2
    <3>3. ASSUME NEW k \in 0..Len(r) - 1 PROVE t[SubSeq(r, 1, k)].kind \in kinds
      <4>1. k + 1 \in 0..Len(s) - 1 /\ k \in 0..Len(r)
        BY <2>1, <2>2
      <4>2. QED BY <4>1, <2>6, <2>9
    <3>4. QED BY <3>2, <3>3
  <2>10. ASSUME kind \in kinds, \A k \in 0..Len(r) - 1 : t[SubSeq(r, 1, k)].kind \in kinds,
                NEW k \in 0..Len(s) - 1
         PROVE  J[SubSeq(s, 1, k)].kind \in kinds
    <3>1. CASE k = 0
      BY <3>1, <2>10, <1>1, <1>2
    <3>2. CASE k # 0
      <4>1. k - 1 \in 0..Len(r) - 1 /\ k - 1 \in 0..Len(r) /\ (k - 1) + 1 = k
        BY <3>2, <2>1, <2>2
      <4>2. J[SubSeq(s, 1, (k - 1) + 1)] = t[SubSeq(r, 1, k - 1)]
        BY <4>1, <2>6
      <4>3. QED BY <4>1, <4>2, <2>10
    <3>3. QED BY <3>1, <3>2
  <2>11. QED BY <2>7, <2>8, <2>9, <2>10 DEF s, t
<1>5. QED BY <1>3, <1>4

LEMMA PredicatesAtMember ==
  ASSUME NEW t, NEW paths, NEW x
  PROVE  x \in PredicatesAt(t, paths) <=> \E q \in paths : t[q].kind = "predicate" /\ x = t[q]
BY DEF PredicatesAt

LEMMA PredicatesMember ==
  ASSUME NEW t, NEW x
  PROVE  x \in Predicates(t) <=> \E q \in DOMAIN t : t[q].kind = "predicate" /\ x = t[q]
BY PredicatesAtMember DEF Predicates

(* _predicates: the predicates of a connective are those of its children.  *)
THEOREM PredicatesOfJoin ==
  ASSUME NEW J, NEW kind, NEW m, NEW trees, NEW n, IsJoin(J, kind, m, trees, n),
         kind # "predicate"
  PROVE  \A x : x \in Predicates(J) <=> \E i \in 1..m : x \in Predicates(trees[i])
<1>1. J[<<>>].kind # "predicate"
  BY DEF IsJoin, Joins
<1>2. \A i \in 1..m : \A q \in DOMAIN trees[i] : <<i>> \o q \in DOMAIN J /\ J[<<i>> \o q] = trees[i][q]
  BY DEF IsJoin, Joins
<1>3. ASSUME NEW x \in Predicates(J)
      PROVE  \E i \in 1..m : x \in Predicates(trees[i])
  <2>1. PICK path \in DOMAIN J : J[path].kind = "predicate" /\ x = J[path]
    BY PredicatesMember
  <2>2. PICK i \in 1..m : \E q \in DOMAIN trees[i] : path = <<i>> \o q
    BY <1>1, <2>1 DEF IsJoin, Joins
  <2>3. PICK q \in DOMAIN trees[i] : path = <<i>> \o q
    BY <2>2
  <2>4. trees[i][q].kind = "predicate" /\ x = trees[i][q]
    BY <1>2, <2>1, <2>3
  <2>5. QED BY <2>4, PredicatesMember
<1>4. ASSUME NEW i \in 1..m, NEW x \in Predicates(trees[i])
      PROVE  x \in Predicates(J)
  <2>1. PICK q \in DOMAIN trees[i] : trees[i][q].kind = "predicate" /\ x = trees[i][q]
    BY PredicatesMember
  <2>2. <<i>> \o q \in DOMAIN J /\ J[<<i>> \o q] = trees[i][q]
    BY <1>2
  <2>3. QED BY <2>1, <2>2, PredicatesMember
<1>5. QED BY <1>3, <1>4

(* _and_scope_predicates of a connective: an And or a Group passes on what *)
(* its children require, an Or or a Not requires nothing of one child.     *)
THEOREM AndScopeOfJoin ==
  ASSUME NEW J, NEW kind, NEW m, NEW trees, NEW n, IsJoin(J, kind, m, trees, n),
         kind # "predicate"
  PROVE  \A x : x \in AndScope(J, <<>>)
                  <=> kind \in {"and", "group"} /\ \E i \in 1..m : x \in AndScope(trees[i], <<>>)
<1> DEFINE kinds == {"and", "group"}
<1>1. J[<<>>].kind # "predicate"
  BY DEF IsJoin, Joins
<1>2. \A i \in 1..m : \A q \in DOMAIN trees[i] : J[<<i>> \o q] = trees[i][q]
  BY DEF IsJoin, Joins
<1>3. \A i \in 1..m : \A r \in DOMAIN trees[i] :
        <<i>> \o r \in Walk(J, <<>>, kinds) <=> kind \in kinds /\ r \in Walk(trees[i], <<>>, kinds)
  BY WalkFromRoot
<1>4. \A t, path : Walk(t, path, kinds) \subseteq DOMAIN t
  BY DEF Walk
<1> HIDE DEF kinds
<1>5. \A t, x : x \in AndScope(t, <<>>)
                  <=> \E q \in Walk(t, <<>>, kinds) : t[q].kind = "predicate" /\ x = t[q]
  BY PredicatesAtMember DEF AndScope, kinds
<1>6. ASSUME NEW x \in AndScope(J, <<>>)
      PROVE  kind \in kinds /\ \E i \in 1..m : x \in AndScope(trees[i], <<>>)
  <2>1. PICK path \in Walk(J, <<>>, kinds) : J[path].kind = "predicate" /\ x = J[path]
    BY <1>5
  <2>2. PICK i \in 1..m : \E q \in DOMAIN trees[i] : path = <<i>> \o q
    BY <1>1, <1>4, <2>1 DEF IsJoin, Joins
  <2>3. PICK q \in DOMAIN trees[i] : path = <<i>> \o q
    BY <2>2
  <2>4. kind \in kinds /\ q \in Walk(trees[i], <<>>, kinds)
    BY <1>3, <2>3
  <2>5. trees[i][q].kind = "predicate" /\ x = trees[i][q]
    BY <1>2, <2>1, <2>3
  <2>6. QED BY <1>5, <2>4, <2>5
<1>7. ASSUME kind \in kinds, NEW i \in 1..m, NEW x \in AndScope(trees[i], <<>>)
      PROVE  x \in AndScope(J, <<>>)
  <2>1. PICK q \in Walk(trees[i], <<>>, kinds) : trees[i][q].kind = "predicate" /\ x = trees[i][q]
    BY <1>5
  <2>2. q \in DOMAIN trees[i]
    BY <1>4
  <2>3. <<i>> \o q \in Walk(J, <<>>, kinds) /\ J[<<i>> \o q] = trees[i][q]
    BY <1>2, <1>3, <1>7, <2>2
  <2>4. QED BY <1>5, <2>1, <2>3
<1>8. QED BY <1>6, <1>7 DEF kinds

(* ... and what it passes on for a node further down is that node's.       *)
THEOREM AndScopeBelow ==
  ASSUME NEW J, NEW kind, NEW m, NEW trees, NEW n, IsJoin(J, kind, m, trees, n),
         NEW i \in 1..m, NEW q \in DOMAIN trees[i]
  PROVE  AndScope(J, <<i>> \o q) = AndScope(trees[i], q)
<1> DEFINE kinds == {"and", "group"}
           p == <<i>> \o q
           t == trees[i]
<1> HIDE DEF kinds
<1>1. \A r \in DOMAIN t : J[<<i>> \o r] = t[r]
  BY DEF IsJoin, Joins
<1>2. \A r \in DOMAIN t : <<i>> \o r \in Walk(J, p, kinds) <=> r \in Walk(t, q, kinds)
  BY WalkBelow
<1>3. \A path \in Walk(J, p, kinds) : \E r \in DOMAIN t : path = <<i>> \o r
  <2>1. StaysBelow(J, trees[i], i, q, kinds)
    BY WalkStaysBelow
  <2>2. QED BY <2>1 DEF StaysBelow
<1>4. Walk(t, q, kinds) \subseteq DOMAIN t
  BY DEF Walk
<1>5. \A x : /\ x \in AndScope(J, p)
                  <=> \E r \in Walk(J, p, kinds) : J[r].kind = "predicate" /\ x = J[r]
             /\ x \in AndScope(t, q)
                  <=> \E r \in Walk(t, q, kinds) : t[r].kind = "predicate" /\ x = t[r]
  BY PredicatesAtMember DEF AndScope, kinds
<1> HIDE DEF p, t
<1>6. ASSUME NEW x \in AndScope(J, p) PROVE x \in AndScope(t, q)
  <2>1. PICK path \in Walk(J, p, kinds) : J[path].kind = "predicate" /\ x = J[path]
    BY <1>5
  <2>2. PICK r \in DOMAIN t : path = <<i>> \o r
    BY <1>3
  <2>3. r \in Walk(t, q, kinds) /\ J[path] = t[r]
    BY <1>1, <1>2, <2>2
  <2>4. QED BY <1>5, <2>1, <2>3
<1>7. ASSUME NEW x \in AndScope(t, q) PROVE x \in AndScope(J, p)
  <2>1. PICK r \in Walk(t, q, kinds) : t[r].kind = "predicate" /\ x = t[r]
    BY <1>5
  <2>2. <<i>> \o r \in Walk(J, p, kinds) /\ J[<<i>> \o r] = t[r]
    BY <1>1, <1>2, <1>4, <2>1
  <2>3. QED BY <1>5, <2>1, <2>2
<1>8. AndScope(J, p) = AndScope(t, q)
  BY <1>6, <1>7
<1>9. QED BY <1>8 DEF p, t

(* The nodes looked at are the root and those of the children. *)
VisitsBelow(J, kind, m, trees) ==
  \A path : path \in Visited(J) <=>
    \/ path = <<>>
    \/ /\ kind \in {"and", "or", "group"}
       /\ \E i \in 1..m : \E q \in Visited(trees[i]) : path = <<i>> \o q

(* visit: the nodes of a connective that are looked at are the connective  *)
(* and, unless it is a Not, those of its children.                         *)
THEOREM VisitedOfJoin ==
  ASSUME NEW J, NEW kind, NEW m, NEW trees, NEW n, IsJoin(J, kind, m, trees, n)
  PROVE  VisitsBelow(J, kind, m, trees)
<1> DEFINE kinds == {"and", "or", "group"}
<1> HIDE DEF kinds
<1>1. <<>> \in Walk(J, <<>>, kinds)
  BY WalkFromRoot
<1>2. \A i \in 1..m : \A r \in DOMAIN trees[i] :
        <<i>> \o r \in Walk(J, <<>>, kinds) <=> kind \in kinds /\ r \in Walk(trees[i], <<>>, kinds)
  BY WalkFromRoot
<1>3. \A t : Visited(t) = Walk(t, <<>>, kinds) /\ Walk(t, <<>>, kinds) \subseteq DOMAIN t
  BY DEF Visited, Walk, kinds
<1>4. ASSUME NEW path \in Visited(J), path # <<>>
      PROVE  kind \in kinds /\ \E i \in 1..m : \E q \in Visited(trees[i]) : path = <<i>> \o q
  <2>1. path \in DOMAIN J
    BY <1>3
  <2>2. PICK i \in 1..m : \E q \in DOMAIN trees[i] : path = <<i>> \o q
    BY <1>4, <2>1 DEF IsJoin, Joins
  <2>3. PICK q \in DOMAIN trees[i] : path = <<i>> \o q
    BY <2>2
  <2>4. kind \in kinds /\ q \in Walk(trees[i], <<>>, kinds)
    BY <1>2, <1>3, <2>3
  <2>5. q \in Visited(trees[i])
    BY <1>3, <2>4
  <2>6. QED BY <2>3, <2>4, <2>5
<1>5. ASSUME kind \in kinds, NEW i \in 1..m, NEW q \in Visited(trees[i])
      PROVE  <<i>> \o q \in Visited(J)
  BY <1>2, <1>3, <1>5
<1>6. QED BY <1>1, <1>3, <1>4, <1>5 DEF kinds, VisitsBelow

(* What visit looks for at an And. *)
Contradicts(t, path) ==
  \E field : TwoRequired(t, path, field) \/ RequiredAndExcluded(t, path, field)

LEMMA ContradictsBelow ==
  ASSUME NEW J, NEW kind, NEW m, NEW trees, NEW n, IsJoin(J, kind, m, trees, n),
         NEW i \in 1..m, NEW q \in DOMAIN trees[i]
  PROVE  Contradicts(J, <<i>> \o q) <=> Contradicts(trees[i], q)
<1>1. AndScope(J, <<i>> \o q) = AndScope(trees[i], q)
  BY AndScopeBelow
<1>2. J[<<i>> \o q] = trees[i][q]
  BY DEF IsJoin, Joins
<1>3. /\ Required(J, <<i>> \o q) = Required(trees[i], q)
      /\ Excluded(J, <<i>> \o q) = Excluded(trees[i], q)
  BY <1>1 DEF Required, Excluded
<1>4. \A field : /\ TwoRequired(J, <<i>> \o q, field) <=> TwoRequired(trees[i], q, field)
                 /\ RequiredAndExcluded(J, <<i>> \o q, field)
                      <=> RequiredAndExcluded(trees[i], q, field)
  BY <1>2, <1>3 DEF TwoRequired, RequiredAndExcluded
<1>5. QED BY <1>4 DEF Contradicts

(* _walk_ast: a connective is one deeper than its deepest child. *)
THEOREM DepthOfJoin ==
  ASSUME NEW J, NEW kind, NEW m, NEW trees, NEW n, IsJoin(J, kind, m, trees, n),
         IsTree(J, n + 1)
  PROVE  /\ \A i \in 1..m : Depth(trees[i]) + 1 <= Depth(J)
         /\ \E i \in 1..m : Depth(J) = Depth(trees[i]) + 1
<1>0. m \in Nat \ {0} /\ n \in Nat /\ \A i \in 1..m : IsTree(trees[i], n)
  BY DEF IsJoin
<1>1. ASSUME NEW t, NEW k \in Nat, IsTree(t, k)
      PROVE  \E path \in DOMAIN t : Depth(t) = Len(path)
  <2> DEFINE lengths == {Len(q) : q \in DOMAIN t}
  <2>1. lengths \subseteq Nat /\ lengths # {} /\ \A x \in lengths : x <= k
    <3>1. \A q \in DOMAIN t : Len(q) \in Nat /\ Len(q) <= k
      BY <1>1 DEF IsTree
    <3>2. <<>> \in DOMAIN t
      BY <1>1 DEF IsTree
    <3>3. QED BY <3>1, <3>2
  <2>2. Max(lengths) \in lengths
    <3> HIDE DEF lengths
    <3>1. QED BY <2>1, MaxOfBounded
  <2>3. Depth(t) \in lengths
    BY <2>2 DEF Depth
  <2>4. QED BY <2>3
<1>2. \A i \in 1..m : \A q \in DOMAIN trees[i] :
        /\ <<i>> \o q \in DOMAIN J /\ Len(<<i>> \o q) = Len(q) + 1
  <2>1. \A i \in 1..m : \A q \in DOMAIN trees[i] : i \in Nat /\ q \in Seq(Nat)
    BY <1>0 DEF IsTree
  <2>2. QED BY <2>1, PathBelow DEF IsJoin, Joins
<1>3. \A path \in DOMAIN J : Depth(J) \in Nat /\ Len(path) <= Depth(J)
  BY <1>0, DepthReaches
<1>4. \A i \in 1..m : \A q \in DOMAIN trees[i] : Depth(trees[i]) \in Nat /\ Len(q) <= Depth(trees[i])
  BY <1>0, DepthReaches
<1>5. ASSUME NEW i \in 1..m
      PROVE  Depth(trees[i]) + 1 <= Depth(J)
  <2>1. PICK q \in DOMAIN trees[i] : Depth(trees[i]) = Len(q)
    BY <1>0, <1>1
  <2>2. QED BY <2>1, <1>2, <1>3
<1>6. \E i \in 1..m : Depth(J) = Depth(trees[i]) + 1
  <2>1. PICK path \in DOMAIN J : Depth(J) = Len(path)
    BY <1>0, <1>1
  <2>2. \E i \in 1..m : \E q \in DOMAIN trees[i] : path = <<i>> \o q
    <3>1. CASE path = <<>>
      <4>1. Depth(J) = 0
        BY <2>1, <3>1
      <4>2. 1 \in 1..m /\ <<>> \in DOMAIN trees[1]
        BY <1>0 DEF IsTree
      <4>3. Depth(trees[1]) \in Nat
        BY <4>2, <1>4
      <4>4. Depth(trees[1]) + 1 <= Depth(J)
        BY <4>2, <1>5
      <4>5. QED BY <4>1, <4>3, <4>4
    <3>2. QED BY <3>1 DEF IsJoin, Joins
  <2>3. PICK i \in 1..m : \E q \in DOMAIN trees[i] : path = <<i>> \o q
    BY <2>2
  <2>4. PICK q \in DOMAIN trees[i] : path = <<i>> \o q
    BY <2>3
  <2>5. Len(path) = Len(q) + 1 /\ Len(q) <= Depth(trees[i]) /\ Depth(trees[i]) + 1 <= Depth(J)
    BY <1>2, <1>4, <1>5, <2>4
  <2>6. Len(q) \in Nat /\ Depth(trees[i]) \in Nat /\ Depth(J) \in Nat
    BY <1>0, <1>3, <1>4, <2>1 DEF IsTree
  <2>7. QED BY <2>1, <2>5, <2>6
<1>7. QED BY <1>5, <1>6

-------------------------------------------------------------------------------
(* Trees without logic problems, put together from such trees.             *)
LEMMA NoProblems ==
  ASSUME NEW t
  PROVE  LogicProblems(t) = {}
           <=> \A path \in Visited(t) : ~Contradicts(t, path) /\ ~DoubleNegation(t, path)
<1> DEFINE fields == {p.field : p \in Predicates(t)}
<1>1. \A path : \A p \in AndScope(t, path) : p.field \in fields
  BY DEF AndScope, Predicates, PredicatesAt, Walk
<1>2. \A path, field :
        TwoRequired(t, path, field) \/ RequiredAndExcluded(t, path, field) => field \in fields
  BY <1>1 DEF TwoRequired, RequiredAndExcluded, Required
<1> DEFINE exclusive == {f \in fields : \E path \in Visited(t) : TwoRequired(t, path, f)}
           excluded == {f \in fields : \E path \in Visited(t) : RequiredAndExcluded(t, path, f)}
           doubled == {path \in Visited(t) : DoubleNegation(t, path)}
<1>3. LogicProblems(t) = {Problem("MUTUALLY_EXCLUSIVE_VALUES", f) : f \in exclusive}
                         \cup {Problem("REQUIRED_AND_EXCLUDED", f) : f \in excluded}
                         \cup {Problem("REDUNDANT_DOUBLE_NEGATION", "") : path \in doubled}
  BY DEF LogicProblems
<1> HIDE DEF fields
<1>4. LogicProblems(t) = {} <=> exclusive = {} /\ excluded = {} /\ doubled = {}
  <2> HIDE DEF exclusive, excluded, doubled
  <2>1. QED BY <1>3
<1>5. QED BY <1>2, <1>4 DEF Contradicts

(* What a problem was found for. *)
LEMMA ProblemFound ==
  ASSUME NEW t, NEW problem \in LogicProblems(t)
  PROVE  \/ /\ problem.code = "MUTUALLY_EXCLUSIVE_VALUES"
            /\ \E path \in Visited(t) : TwoRequired(t, path, problem.field)
         \/ /\ problem.code = "REQUIRED_AND_EXCLUDED"
            /\ \E path \in Visited(t) : RequiredAndExcluded(t, path, problem.field)
         \/ problem.code = "REDUNDANT_DOUBLE_NEGATION"
<1> DEFINE fields == {p.field : p \in Predicates(t)}
           exclusive == {f \in fields : \E path \in Visited(t) : TwoRequired(t, path, f)}
           excluded == {f \in fields : \E path \in Visited(t) : RequiredAndExcluded(t, path, f)}
           doubled == {path \in Visited(t) : DoubleNegation(t, path)}
<1>1. LogicProblems(t) = {Problem("MUTUALLY_EXCLUSIVE_VALUES", f) : f \in exclusive}
                         \cup {Problem("REQUIRED_AND_EXCLUDED", f) : f \in excluded}
                         \cup {Problem("REDUNDANT_DOUBLE_NEGATION", "") : path \in doubled}
  BY DEF LogicProblems
<1>2. /\ \A f \in exclusive : \E path \in Visited(t) : TwoRequired(t, path, f)
      /\ \A f \in excluded : \E path \in Visited(t) : RequiredAndExcluded(t, path, f)
  OBVIOUS
<1>3. \A code, f : Problem(code, f).code = code /\ Problem(code, f).field = f
  BY DEF Problem
<1> HIDE DEF exclusive, excluded, doubled
<1>4. \/ \E f \in exclusive : problem = Problem("MUTUALLY_EXCLUSIVE_VALUES", f)
      \/ \E f \in excluded : problem = Problem("REQUIRED_AND_EXCLUDED", f)
      \/ problem = Problem("REDUNDANT_DOUBLE_NEGATION", "")
  BY <1>1
<1>5. CASE \E f \in exclusive : problem = Problem("MUTUALLY_EXCLUSIVE_VALUES", f)
  <2>1. PICK f \in exclusive : problem = Problem("MUTUALLY_EXCLUSIVE_VALUES", f)
    BY <1>5
  <2>2. problem.code = "MUTUALLY_EXCLUSIVE_VALUES" /\ problem.field = f
    BY <1>3, <2>1
  <2>3. QED BY <1>2, <2>2
<1>6. CASE \E f \in excluded : problem = Problem("REQUIRED_AND_EXCLUDED", f)
  <2>1. PICK f \in excluded : problem = Problem("REQUIRED_AND_EXCLUDED", f)
    BY <1>6
  <2>2. problem.code = "REQUIRED_AND_EXCLUDED" /\ problem.field = f
    BY <1>3, <2>1
  <2>3. QED BY <1>2, <2>2
<1>7. CASE problem = Problem("REDUNDANT_DOUBLE_NEGATION", "")
  BY <1>3, <1>7
<1>8. QED BY <1>4, <1>5, <1>6, <1>7

(* A scope in which a field is asked about once at most, and which fields. *)
ScopeIn(t, fields) ==
  /\ \A p \in AndScope(t, <<>>) : p.field \in fields
  /\ \A p, q \in AndScope(t, <<>>) : p.field = q.field => p = q

LEMMA ScopeAgrees ==
  ASSUME NEW t, NEW fields, ScopeIn(t, fields)
  PROVE  ~Contradicts(t, <<>>)
<1>1. \A p, q \in AndScope(t, <<>>) : p.field = q.field => p = q
  BY DEF ScopeIn
<1>2. \A p : p.op \in {"=", "=="} => p.op \notin Excluding
  BY DEF Excluding
<1>3. \A p \in Required(t, <<>>) : p \in AndScope(t, <<>>) /\ p.op \in {"=", "=="}
  BY DEF Required
<1>4. \A p \in Excluded(t, <<>>) : p \in AndScope(t, <<>>) /\ p.op \in Excluding
  BY DEF Excluded
<1>5. QED BY <1>1, <1>2, <1>3, <1>4 DEF Contradicts, TwoRequired, RequiredAndExcluded

LEMMA LeafIsSound ==
  ASSUME NEW p, p.kind = "predicate"
  PROVE  /\ LogicProblems(Leaf(p)) = {}
         /\ Predicates(Leaf(p)) = {p}
         /\ ScopeIn(Leaf(p), {p.field})
<1> DEFINE l == Leaf(p)
<1>1. DOMAIN l = {<<>>} /\ l[<<>>] = p
  BY LeafIsTree
<1> HIDE DEF l
<1>2. \A path \in Visited(l) : ~Contradicts(l, path) /\ ~DoubleNegation(l, path)
  BY <1>1 DEF Visited, Walk, Contradicts, TwoRequired, RequiredAndExcluded, DoubleNegation
<1>3. LogicProblems(l) = {}
  BY <1>2, NoProblems
<1>4. \A x : x \in Predicates(l) <=> x = p
  BY <1>1, PredicatesMember
<1>5. \A x \in AndScope(l, <<>>) : x = p
  <2>1. Walk(l, <<>>, {"and", "group"}) \subseteq {<<>>}
    BY <1>1 DEF Walk
  <2>2. QED BY <1>1, <2>1, PredicatesAtMember DEF AndScope
<1>6. ScopeIn(l, {p.field})
  BY <1>5 DEF ScopeIn
<1>7. Predicates(l) = {p}
  BY <1>4
<1>8. QED BY <1>3, <1>6, <1>7 DEF l

(* A list has a problem only if one of its trees has, or its own scope.    *)
LEMMA JoinIsSound ==
  ASSUME NEW J, NEW kind, NEW m, NEW trees, NEW n, IsJoin(J, kind, m, trees, n),
         kind \in {"and", "or"}, ~Contradicts(J, <<>>),
         \A i \in 1..m : LogicProblems(trees[i]) = {}
  PROVE  LogicProblems(J) = {}
<1>1. J[<<>>].kind = kind
  BY DEF IsJoin, Joins
<1>2. ~DoubleNegation(J, <<>>)
  BY <1>1 DEF DoubleNegation
<1>3. ASSUME NEW i \in 1..m, NEW q \in Visited(trees[i])
      PROVE  ~Contradicts(J, <<i>> \o q) /\ ~DoubleNegation(J, <<i>> \o q)
  <2> DEFINE t == trees[i]
  <2>1. ~Contradicts(t, q) /\ ~DoubleNegation(t, q)
    BY NoProblems
  <2>2. q \in DOMAIN t
    BY DEF Visited, Walk
  <2>3. ~Contradicts(J, <<i>> \o q)
    BY <2>1, <2>2, ContradictsBelow
  <2>4. J[<<i>> \o q] = t[q]
    BY <2>2 DEF IsJoin, Joins
  <2>5. CASE t[q].kind = "not"
    <3>1. /\ IsTree(t, n) /\ i \in Nat /\ q \in Seq(Nat) /\ 1 \in 1..Arity(t[q])
      BY <2>2, <2>5 DEF IsJoin, IsTree, Arity
    <3>2. Append(q, 1) \in DOMAIN t
      BY <2>2, <3>1 DEF IsTree
    <3>3. J[<<i>> \o Append(q, 1)] = t[Append(q, 1)]
      BY <3>2 DEF IsJoin, Joins
    <3>4. Append(<<i>> \o q, 1) = <<i>> \o Append(q, 1)
      BY <3>1, AppendBelow
    <3>5. QED BY <2>1, <2>3, <2>4, <2>5, <3>3, <3>4 DEF DoubleNegation
  <2>6. CASE t[q].kind # "not"
    BY <2>3, <2>4, <2>6 DEF DoubleNegation
  <2>7. QED BY <2>5, <2>6
<1>4. \A path \in Visited(J) :
        path = <<>> \/ \E i \in 1..m : \E q \in Visited(trees[i]) : path = <<i>> \o q
  <2>1. VisitsBelow(J, kind, m, trees)
    BY VisitedOfJoin
  <2>2. QED BY <2>1 DEF VisitsBelow
<1>5. \A path \in Visited(J) : ~Contradicts(J, path) /\ ~DoubleNegation(J, path)
  BY <1>2, <1>3, <1>4
<1>6. QED BY <1>5, NoProblems

LEMMA OrIsSound ==
  ASSUME NEW J, NEW m, NEW trees, NEW n, IsJoin(J, "or", m, trees, n),
         \A i \in 1..m : LogicProblems(trees[i]) = {}
  PROVE  LogicProblems(J) = {} /\ ScopeIn(J, {})
<1>1. ~Contradicts(J, <<>>)
  BY DEF Contradicts, TwoRequired, RequiredAndExcluded, IsJoin, Joins
<1>2. LogicProblems(J) = {}
  BY <1>1, JoinIsSound
<1>3. \A x : x \notin AndScope(J, <<>>)
  <2>1. "or" # "predicate" /\ "or" \notin {"and", "group"}
    OBVIOUS
  <2>2. QED BY <2>1, AndScopeOfJoin
<1>4. QED BY <1>2, <1>3 DEF ScopeIn

LEMMA AndIsSound ==
  ASSUME NEW J, NEW m, NEW trees, NEW n, IsJoin(J, "and", m, trees, n),
         \A i \in 1..m : LogicProblems(trees[i]) = {},
         NEW fields, \A i \in 1..m : ScopeIn(trees[i], fields[i]),
         \A i, j \in 1..m : i # j => fields[i] \cap fields[j] = {}
  PROVE  LogicProblems(J) = {}
<1>1. \A x : x \in AndScope(J, <<>>) => \E i \in 1..m : x \in AndScope(trees[i], <<>>)
  <2>1. "and" # "predicate"
    OBVIOUS
  <2>2. QED BY <2>1, AndScopeOfJoin
<1>2. ASSUME NEW p \in AndScope(J, <<>>), NEW q \in AndScope(J, <<>>), p.field = q.field
      PROVE  p = q
  <2>1. PICK i \in 1..m : p \in AndScope(trees[i], <<>>)
    BY <1>1
  <2>2. PICK j \in 1..m : q \in AndScope(trees[j], <<>>)
    BY <1>1
  <2>3. p.field \in fields[i] /\ q.field \in fields[j]
    BY <2>1, <2>2 DEF ScopeIn
  <2>4. i = j
    BY <1>2, <2>3
  <2>5. QED BY <1>2, <2>1, <2>2, <2>4 DEF ScopeIn
<1>3. ScopeIn(J, {p.field : p \in AndScope(J, <<>>)})
  BY <1>2 DEF ScopeIn
<1>4. ~Contradicts(J, <<>>)
  BY <1>3, ScopeAgrees
<1>5. QED BY <1>4, JoinIsSound

(* contradictions.py:62-64 compares texts: of a field that is not compared *)
(* whole, such as ip with its networks, two different values are reported  *)
(* as exclusive although there is an asset that both find.                 *)
THEOREM ReportedYetMatched ==
  ASSUME NEW field \in SingleValueFields \ ExactFields,
         NEW p, p.kind = "predicate", p.field = field, p.op = "=",
         NEW q, q.kind = "predicate", q.field = field, q.op = "=",
         Value(p) # Value(q)
  PROVE  /\ Problem("MUTUALLY_EXCLUSIVE_VALUES", field)
              \in LogicProblems(And(<<Leaf(p), Leaf(q)>>))
         /\ \E asset : IsAsset(asset) /\ Holds(And(<<Leaf(p), Leaf(q)>>), asset)
<1> DEFINE trees == <<Leaf(p), Leaf(q)>>
           J == And(trees)
           asset == {Fact(field, "=", Value(p)), Fact(field, "=", Value(q))}
<1>1. /\ DOMAIN trees = 1..2 /\ Len(trees) = 2 /\ 2 \in Nat \ {0} /\ 0 \in Nat
      /\ trees[1] = Leaf(p) /\ trees[2] = Leaf(q)
  OBVIOUS
<1>2. \A i \in 1..2 : IsTree(trees[i], 0)
  <2>1. IsTree(Leaf(p), 0) /\ IsTree(Leaf(q), 0)
    BY LeafIsTree
  <2>2. QED BY <2>1, <1>1
<1> HIDE DEF trees
<1>3. IsJoin(J, "and", 2, trees, 0)
  BY <1>1, <1>2, JoinIsJoin DEF And
<1>4. \A a : Holds(J, a) <=> \A i \in 1..2 : Holds(trees[i], a)
  BY <1>1, <1>2, AndOfTrees
<1> HIDE DEF J
<1>5. p \in AndScope(J, <<>>) /\ q \in AndScope(J, <<>>)
  <2>1. \A x : x \in AndScope(J, <<>>) <=> \E i \in 1..2 : x \in AndScope(trees[i], <<>>)
    BY <1>3, AndScopeOfJoin
  <2>2. \A x : x.kind = "predicate" => x \in AndScope(Leaf(x), <<>>)
    <3> SUFFICES ASSUME NEW x, x.kind = "predicate" PROVE x \in AndScope(Leaf(x), <<>>)
      OBVIOUS
    <3>1. DOMAIN Leaf(x) = {<<>>} /\ Leaf(x)[<<>>] = x
      BY LeafIsTree
    <3>2. <<>> \in Walk(Leaf(x), <<>>, {"and", "group"})
      BY <3>1 DEF Walk
    <3>3. QED BY <3>1, <3>2, PredicatesAtMember DEF AndScope
  <2>3. QED BY <1>1, <2>1, <2>2
<1>6. TwoRequired(J, <<>>, field)
  <2>1. p \in Required(J, <<>>) /\ q \in Required(J, <<>>)
    BY <1>5 DEF Required
  <2>2. J[<<>>].kind = "and"
    BY <1>3 DEF IsJoin, Joins
  <2>3. QED BY <2>1, <2>2 DEF TwoRequired
<1>7. <<>> \in Visited(J)
  <2>1. VisitsBelow(J, "and", 2, trees)
    BY <1>3, VisitedOfJoin
  <2>2. QED BY <2>1 DEF VisitsBelow
<1>8. field \in {x.field : x \in Predicates(J)}
  <2>1. p \in Predicates(J)
    BY <1>5 DEF AndScope, PredicatesAt, Predicates, Walk
  <2>2. QED BY <2>1
<1>9. Problem("MUTUALLY_EXCLUSIVE_VALUES", field) \in LogicProblems(J)
  BY <1>6, <1>7, <1>8 DEF LogicProblems
<1>10. IsAsset(asset)
  BY DEF IsAsset, Fact
<1>11. Matches(p, asset) /\ Matches(q, asset)
  BY DEF Matches, Excluding, Says, Found
<1>12. Holds(J, asset)
  <2> HIDE DEF asset
  <2>1. Holds(Leaf(p), asset) /\ Holds(Leaf(q), asset)
    BY <1>11, LeafHolds
  <2>2. QED BY <1>1, <1>4, <2>1
<1>13. QED BY <1>9, <1>10, <1>12 DEF J, trees
===============================================================================
