--------------------------- MODULE PlanDiffProofs ---------------------------
(***************************************************************************)
(* plan_diff for plans and snapshots of any size: its operations bring every *)
(* package that nobody touches to what the plan asks, a replan stays inside  *)
(* its boundary, nobody's move is undone, and the operations fit one after   *)
(* the other.                                                               *)
(*                                                                          *)
(* Facts about all sequences rest on the least-number principle, which       *)
(* stands for induction here (LeastNumber).                                  *)
(***************************************************************************)
EXTENDS PlanDiff, FiniteSetTheorems, TLAPS

-----------------------------------------------------------------------------
(* Induction.                                                              *)

Less == {ss \in Nat \X Nat : ss[1] < ss[2]}

\* A set of naturals that has an element has a least one.
LEMMA LeastNumber ==
    ASSUME NEW T, T \subseteq Nat, T # {}
    PROVE  \E x \in T : \A y \in T : x <= y
<1>1. IsWellFoundedOn(Less, Nat)
  BY NatLessThanWellFounded DEF OpToRel, Less
<1>2. PICK x \in T : \A y \in T : ~ (<<y, x>> \in Less)
  BY <1>1, WFMin
<1>3. ASSUME NEW y \in T
      PROVE  x <= y
  <2>1. x \in Nat /\ y \in Nat /\ ~ (<<y, x>> \in Less)
    BY <1>2
  <2> QED  BY <2>1 DEF Less
<1> QED  BY <1>3

-----------------------------------------------------------------------------
(* The order of keys.                                                      *)

Increasing(s, n) == \A i, j \in 1..n : i < j => s[i] < s[j]
Enumerable(S) == \E s \in [1..Cardinality(S) -> S] : Increasing(s, Cardinality(S))

\* A set in increasing order: its least element before the others.
LEMMA PrependLeast ==
    ASSUME NEW S, S \subseteq Nat, IsFiniteSet(S), NEW x \in S, \A y \in S : x <= y,
           Enumerable(S \ {x})
    PROVE  Enumerable(S)
<1> DEFINE n == Cardinality(S)
<1>1. n \in Nat /\ n # 0 /\ Cardinality(S \ {x}) = n - 1
  BY FS_CardinalityType, FS_EmptySet, FS_RemoveElement
<1>2. PICK g \in [1..n - 1 -> S \ {x}] : Increasing(g, n - 1)
  BY <1>1 DEF Enumerable
<1> DEFINE s == [i \in 1..n |-> IF i = 1 THEN x ELSE g[i - 1]]
<1> HIDE DEF n
<1>3. \A i \in 1..n : i # 1 => i - 1 \in 1..n - 1 /\ s[i] = g[i - 1] /\ g[i - 1] \in S \ {x}
  BY <1>1
<1>4. s \in [1..n -> S]
  BY <1>3
<1>5. ASSUME NEW i \in 1..n, NEW j \in 1..n, i < j
      PROVE  s[i] < s[j]
  <2>1. j # 1 /\ s[j] = g[j - 1] /\ g[j - 1] \in S \ {x} /\ j - 1 \in 1..n - 1
    BY <1>1, <1>3, <1>5
  <2>2. CASE i = 1
    <3>1. s[i] = x /\ x <= s[j] /\ s[j] # x
      BY <1>1, <2>1, <2>2
    <3>2. x \in Nat /\ s[j] \in Nat
      BY <2>1
    <3> HIDE DEF s
    <3> QED  BY <3>1, <3>2
  <2>3. CASE i # 1
    <3>1. i - 1 \in 1..n - 1 /\ s[i] = g[i - 1] /\ i - 1 < j - 1
      BY <1>1, <1>3, <1>5, <2>3
    <3> QED  BY <1>2, <2>1, <3>1 DEF Increasing
  <2> QED  BY <2>2, <2>3
<1>6. Increasing(s, n)
  BY <1>5 DEF Increasing
<1> QED  BY <1>4, <1>6 DEF Enumerable, n

\* Every finite set of keys can be enumerated in order.
LEMMA FiniteEnumerable ==
    ASSUME NEW S, S \subseteq Nat, IsFiniteSet(S)
    PROVE  Enumerable(S)
<1> DEFINE Bad == {n \in Nat : \E Z \in SUBSET Nat :
                       IsFiniteSet(Z) /\ Cardinality(Z) = n /\ ~Enumerable(Z)}
<1>1. SUFFICES ASSUME Bad # {}
               PROVE  FALSE
  BY FS_CardinalityType
<1>2. PICK m \in Bad : \A n \in Bad : m <= n
  BY <1>1, LeastNumber
<1>3. PICK Z \in SUBSET Nat : IsFiniteSet(Z) /\ Cardinality(Z) = m /\ ~Enumerable(Z)
  BY <1>2
<1>4. CASE Z = {}
  <2>1. Cardinality(Z) = 0
    BY <1>4, FS_EmptySet
  <2>2. [i \in 1..0 |-> 0] \in [1..0 -> Z] /\ Increasing([i \in 1..0 |-> 0], 0)
    BY <1>4 DEF Increasing
  <2> QED  BY <1>3, <2>1, <2>2 DEF Enumerable
<1>5. CASE Z # {}
  <2>1. PICK x \in Z : \A y \in Z : x <= y
    BY <1>3, <1>5, LeastNumber
  <2>2. IsFiniteSet(Z \ {x}) /\ Cardinality(Z \ {x}) = m - 1 /\ m # 0
    BY <1>3, <1>5, FS_RemoveElement, FS_EmptySet
  <2>3. m - 1 \notin Bad /\ m - 1 \in Nat
    BY <1>2, <2>2
  <2>4. Enumerable(Z \ {x})
    BY <2>2, <2>3
  <2> QED  BY <1>3, <2>1, <2>4, PrependLeast
<1> QED  BY <1>4, <1>5

\* InOrder lists the keys of a set, each of them once and nothing else.
LEMMA InOrderEnumerates ==
    ASSUME NEW S, S \subseteq Nat, IsFiniteSet(S)
    PROVE  /\ Cardinality(S) \in Nat
           /\ InOrder(S) \in [1..Cardinality(S) -> S]
           /\ \A k \in S : \E i \in 1..Cardinality(S) : InOrder(S)[i] = k
           /\ \A i, j \in 1..Cardinality(S) : InOrder(S)[i] = InOrder(S)[j] => i = j
<1> DEFINE n == Cardinality(S)
           s == InOrder(S)
<1>1. n \in Nat
  BY FS_CardinalityType
<1>2. s \in [1..n -> S] /\ Increasing(s, n)
  <2>1. \E z \in [1..n -> S] : \A i, j \in 1..n : i < j => z[i] < z[j]
    BY FiniteEnumerable DEF Enumerable, Increasing
  <2> HIDE DEF n
  <2>2. s = CHOOSE z \in [1..n -> S] : \A i, j \in 1..n : i < j => z[i] < z[j]
    BY DEF InOrder, n
  <2> HIDE DEF s
  <2> QED  BY <2>1, <2>2 DEF Increasing
<1> HIDE DEF n, s
<1>3. ASSUME NEW i \in 1..n, NEW j \in 1..n, s[i] = s[j]
      PROVE  i = j
  <2>1. s[i] \in Nat /\ s[j] \in Nat
    BY <1>2
  <2> QED  BY <1>1, <1>2, <1>3, <2>1 DEF Increasing
<1>4. s \in Injection(1..n, S)
  BY <1>2, <1>3 DEF Injection, IsInjective
<1>5. Cardinality(1..n) = n
  BY <1>1, FS_Interval
<1>6. s \in Surjection(1..n, S)
  BY <1>4, <1>5, FS_Injection DEF n
<1> QED  BY <1>1, <1>2, <1>3, <1>6 DEF Surjection, n, s

\* The same without the order, for those who only need the members.
LEMMA InOrderLists ==
    ASSUME NEW S, S \subseteq Nat, IsFiniteSet(S)
    PROVE  /\ Cardinality(S) \in Nat
           /\ InOrder(S) \in [1..Cardinality(S) -> S]
           /\ \A k \in S : \E i \in 1..Cardinality(S) : InOrder(S)[i] = k
BY InOrderEnumerates

\* SetToSeq lists a finite set.
LEMMA SetToSeqLists ==
    ASSUME NEW S, IsFiniteSet(S)
    PROVE  /\ SetToSeq(S) \in [1..Cardinality(S) -> S] /\ Cardinality(S) \in Nat
           /\ SetToSeq(S) \in Seq(S) /\ Len(SetToSeq(S)) = Cardinality(S)
           /\ \A x \in S : \E i \in 1..Cardinality(S) : SetToSeq(S)[i] = x
           /\ \A i, j \in 1..Cardinality(S) : SetToSeq(S)[i] = SetToSeq(S)[j] => i = j
<1> DEFINE n == Cardinality(S)
           s == SetToSeq(S)
<1>1. n \in Nat /\ \E f \in [1..n -> S] : IsInjective(f)
  BY FS_CardinalityType DEF ExistsBijection, Bijection, Injection
<1>2. s \in [1..n -> S] /\ IsInjective(s)
  <2> HIDE DEF n
  <2>1. s = CHOOSE f \in [1..n -> S] : IsInjective(f)
    BY DEF SetToSeq, n
  <2> HIDE DEF s
  <2> QED  BY <1>1, <2>1
<1> HIDE DEF n, s
<1>3. s \in Injection(1..n, S) /\ Cardinality(1..n) = n
  BY <1>1, <1>2, FS_Interval DEF Injection
<1>4. s \in Surjection(1..n, S)
  BY <1>3, FS_Injection DEF n
<1>5. s \in Seq(S) /\ Len(s) = n
  BY <1>1, <1>2
<1>6. \A i, j \in 1..n : s[i] = s[j] => i = j
  BY <1>2 DEF IsInjective
<1> QED  BY <1>1, <1>2, <1>4, <1>5, <1>6 DEF Surjection, n, s

-----------------------------------------------------------------------------
(* Sequences of operations.                                                *)

\* g[i] joins the first i sequences of s.
Joins(s, n, g) == g = [i \in 1..n |-> IF i = 1 THEN s[i] ELSE g[i - 1] \o s[i]]

\* The recursive function of FlattenSeq exists.
LEMMA JoinsExist ==
    ASSUME NEW s, NEW n \in Nat
    PROVE  \E g : Joins(s, n, g)
<1> DEFINE Bad == {k \in Nat : ~\E g : Joins(s, k, g)}
<1>1. SUFFICES ASSUME Bad # {}
               PROVE  FALSE
  OBVIOUS
<1>2. PICK m \in Bad : \A k \in Bad : m <= k
  BY <1>1, LeastNumber
<1>3. CASE m = 0
  <2>1. Joins(s, 0, [i \in 1..0 |-> 0])
    BY DEF Joins
  <2> QED  BY <1>2, <1>3, <2>1
<1>4. CASE m # 0
  <2>1. m - 1 \in Nat /\ m - 1 \notin Bad
    BY <1>2, <1>4
  <2>2. PICK g : Joins(s, m - 1, g)
    BY <2>1
  <2> DEFINE h == [i \in 1..m |-> IF i = m THEN (IF m = 1 THEN s[m] ELSE g[m - 1] \o s[m])
                                  ELSE g[i]]
  <2>3. ASSUME NEW i \in 1..m
        PROVE  h[i] = IF i = 1 THEN s[i] ELSE h[i - 1] \o s[i]
    <3>1. CASE i = m
      BY <1>2, <3>1
    <3>2. CASE i # m
      <4>1. i \in 1..m - 1 /\ (i # 1 => i - 1 \in 1..m - 1)
        BY <1>2, <3>2
      <4>2. g[i] = IF i = 1 THEN s[i] ELSE g[i - 1] \o s[i]
        BY <2>2, <4>1 DEF Joins
      <4> QED  BY <3>2, <4>1, <4>2
    <3> QED  BY <3>1, <3>2
  <2>4. Joins(s, m, h)
    BY <2>3 DEF Joins
  <2> QED  BY <1>2, <2>4
<1> QED  BY <1>3, <1>4

\* FlattenSeq is the last value of that function.
LEMMA FlattenJoins ==
    ASSUME NEW s, NEW n \in Nat, n = Len(s), n # 0
    PROVE  \E g : Joins(s, n, g) /\ FlattenSeq(s) = g[n]
<1> DEFINE g == CHOOSE h : h = [i \in 1..Len(s) |-> IF i = 1 THEN s[i] ELSE h[i - 1] \o s[i]]
<1>1. \E h : h = [i \in 1..Len(s) |-> IF i = 1 THEN s[i] ELSE h[i - 1] \o s[i]]
  BY JoinsExist DEF Joins
<1>2. g = [i \in 1..Len(s) |-> IF i = 1 THEN s[i] ELSE g[i - 1] \o s[i]]
  BY <1>1, Zenon
<1>3. FlattenSeq(s) = g[n]
  BY Zenon DEF FlattenSeq
<1> HIDE DEF g
<1> QED  BY <1>2, <1>3 DEF Joins

\* x occurs in the sequence s.
Occurs(x, s) == \E i \in 1..Len(s) : s[i] = x

\* What occurs in a concatenation occurs in one of its parts.
LEMMA OccursInConcat ==
    ASSUME NEW S, NEW s \in Seq(S), NEW t \in Seq(S)
    PROVE  /\ s \o t \in Seq(S)
           /\ \A x : Occurs(x, s \o t) <=> Occurs(x, s) \/ Occurs(x, t)
<1>1. /\ s \o t \in Seq(S) /\ Len(s \o t) = Len(s) + Len(t)
      /\ Len(s) \in Nat /\ Len(t) \in Nat
      /\ \A i \in 1..Len(s) : (s \o t)[i] = s[i]
      /\ \A i \in 1..Len(s) + Len(t) : i > Len(s) => (s \o t)[i] = t[i - Len(s)]
  OBVIOUS
<1> DEFINE c == s \o t
<1> HIDE DEF c
<1>2. ASSUME NEW x, Occurs(x, c)
      PROVE  Occurs(x, s) \/ Occurs(x, t)
  <2>1. PICK i \in 1..Len(s) + Len(t) : c[i] = x
    BY <1>1, <1>2 DEF Occurs, c
  <2>2. CASE i <= Len(s)
    BY <1>1, <2>1, <2>2 DEF Occurs, c
  <2>3. CASE i > Len(s)
    <3>1. i - Len(s) \in 1..Len(t) /\ t[i - Len(s)] = x
      BY <1>1, <2>1, <2>3 DEF c
    <3> QED  BY <3>1 DEF Occurs
  <2> QED  BY <1>1, <2>2, <2>3
<1>3. ASSUME NEW x, Occurs(x, s)
      PROVE  Occurs(x, c)
  <2>1. PICK i \in 1..Len(s) : s[i] = x
    BY <1>3 DEF Occurs
  <2>2. i \in 1..Len(c) /\ c[i] = x
    BY <1>1, <2>1 DEF c
  <2> QED  BY <2>2 DEF Occurs
<1>4. ASSUME NEW x, Occurs(x, t)
      PROVE  Occurs(x, c)
  <2>1. PICK i \in 1..Len(t) : t[i] = x
    BY <1>4 DEF Occurs
  <2>2. Len(s) + i \in 1..Len(c) /\ c[Len(s) + i] = t[Len(s) + i - Len(s)]
    BY <1>1, <2>1 DEF c
  <2>3. Len(s) + i - Len(s) = i
    BY <1>1
  <2> QED  BY <2>1, <2>2, <2>3 DEF Occurs
<1> QED  BY <1>1, <1>2, <1>3, <1>4 DEF c

\* What occurs in a flattened sequence of sequences occurs in one of them.
LEMMA FlattenOccurs ==
    ASSUME NEW S, NEW s \in Seq(Seq(S))
    PROVE  /\ FlattenSeq(s) \in Seq(S)
           /\ \A x : Occurs(x, FlattenSeq(s)) <=> \E i \in 1..Len(s) : Occurs(x, s[i])
<1> DEFINE n == Len(s)
<1>1. n \in Nat /\ \A i \in 1..n : s[i] \in Seq(S)
  OBVIOUS
<1>2. CASE n = 0
  <2>1. FlattenSeq(s) = s /\ s = <<>>
    BY <1>2 DEF FlattenSeq
  <2> QED  BY <1>2, <2>1 DEF Occurs
<1>3. CASE n # 0
  <2>1. PICK g : Joins(s, n, g) /\ FlattenSeq(s) = g[n]
    BY <1>1, <1>3, FlattenJoins
  <2> DEFINE Good(k) == /\ g[k] \in Seq(S)
                        /\ \A x : Occurs(x, g[k]) <=> \E i \in 1..k : Occurs(x, s[i])
             Bad == {k \in 1..n : ~Good(k)}
  <2> HIDE DEF n, Good
  <2>2. Bad \subseteq Nat /\ \A k : k \in Bad <=> k \in 1..n /\ ~Good(k)
    BY <1>1
  <2> HIDE DEF Bad
  <2>3. SUFFICES ASSUME Bad # {}
                 PROVE  FALSE
    <3>1. n \in 1..n
      BY <1>1, <1>3
    <3>2. Good(n)
      BY <2>2, <2>3, <3>1
    <3> QED  BY <2>1, <3>2 DEF n, Good
  <2>4. PICK m \in Bad : \A k \in Bad : m <= k
    BY <2>2, <2>3, LeastNumber
  <2>5. m \in 1..n /\ s[m] \in Seq(S) /\ ~Good(m)
    BY <1>1, <2>2
  <2>6. CASE m = 1
    <3>1. g[m] = s[m]
      BY <2>1, <2>5, <2>6 DEF Joins
    <3>2. \A i : i \in 1..m <=> i = m
      BY <2>6
    <3>3. ASSUME NEW x
          PROVE  Occurs(x, g[m]) <=> \E i \in 1..m : Occurs(x, s[i])
      <4>1. Occurs(x, g[m]) <=> Occurs(x, s[m])
        BY <3>1
      <4> QED  BY <3>2, <4>1
    <3>4. g[m] \in Seq(S)
      BY <2>5, <3>1
    <3> QED  BY <2>5, <3>3, <3>4, Zenon DEF Good
  <2>7. CASE m # 1
    <3>1. m - 1 \in 1..n /\ ~(m <= m - 1)
      BY <1>1, <2>5, <2>7
    <3>2. Good(m - 1)
      BY <2>2, <2>4, <3>1
    <3>3. g[m] = g[m - 1] \o s[m]
      BY <2>1, <2>5, <2>7 DEF Joins
    <3>4. g[m] \in Seq(S) /\ \A x : Occurs(x, g[m]) <=> Occurs(x, g[m - 1]) \/ Occurs(x, s[m])
      BY <2>5, <3>2, <3>3, OccursInConcat DEF Good
    <3>5. \A i : i \in 1..m <=> i \in 1..m - 1 \/ i = m
      BY <1>1, <2>5
    <3>6. Good(m)
      BY <3>2, <3>4, <3>5 DEF Good
    <3> QED  BY <2>5, <3>6
  <2> QED  BY <2>6, <2>7
<1> QED  BY <1>2, <1>3

-----------------------------------------------------------------------------
(* Types.                                                                  *)

Semantics == {Semantic(f) : f \in AllFields}
Relations == Semantics \X Keys
Parents == Keys \union {NoParent, Unmanaged}
Hashes == {<<>>} \union (Types \X Nat)
Packages == [hash : Hashes, parent : Parents, rel : SUBSET Relations,
             superseded : BOOLEAN, id : Nat]

Kinds == {"create_work_package", "reactivate_work_package", "update_managed_fields",
          "set_parent", "create_relation", "remove_managed_relation", "mark_superseded",
          "record_audit"}
Expectations == [hash : Hashes, parent : Parents, unmanaged : BOOLEAN, rel : SUBSET Relations]
Preconditions == {Nothing} \union Expectations
Arguments == {Nothing} \union Hashes \union Parents \union Relations
Operations == [kind : Kinds, key : Keys \union {0}, arg : Arguments, expect : Preconditions]

IsPlan(p) ==
    /\ Known(p) \subseteq Keys /\ p.items \in [Known(p) -> Items]
    /\ \A k \in Known(p) : effective_node_binding(p, k) \in Nat

\* There are finitely many relations.
LEMMA FiniteRelations ==
    ASSUME NEW R, R \subseteq Relations
    PROVE  IsFiniteSet(R)
<1>1. /\ IsFiniteSet({"blocked_by"}) /\ IsFiniteSet({"blocked_by"} \union {"sequence_after"})
      /\ IsFiniteSet({"related_to"}) /\ IsFiniteSet({"related_to"} \union {"decision_required"})
      /\ IsFiniteSet({"governed_by"})
  BY FS_Singleton, FS_AddElement
<1>2. IsFiniteSet(Semantics)
  <2>1. Semantics = (({"blocked_by"} \union {"sequence_after"})
                     \union ({"related_to"} \union {"decision_required"}))
                    \union {"governed_by"}
    BY DEF Semantics, Semantic, AllFields
  <2>2. IsFiniteSet(({"blocked_by"} \union {"sequence_after"})
                    \union ({"related_to"} \union {"decision_required"}))
    BY <1>1, FS_Union
  <2> QED  BY <2>1, <2>2, FS_AddElement
<1>3. IsFiniteSet(Relations)
  BY <1>2, FS_Product, PlanAssumption DEF Relations
<1> QED  BY <1>3, FS_Subset

\* What a plan asks of a package has its type.
LEMMA PlanTyped ==
    ASSUME NEW p, IsPlan(p), NEW k \in Known(p)
    PROVE  /\ k \in Keys /\ managed_hash(p, k) \in Hashes /\ p.items[k].type \in Types
           /\ p.items[k].parent \in Keys \union {NoParent} /\ p.items[k].parent # Unmanaged
           /\ _relations(p, k) \subseteq Relations
<1>1. /\ k \in Keys /\ p.items[k] \in Items /\ Known(p) \subseteq Keys
      /\ effective_node_binding(p, k) \in Nat
  BY DEF IsPlan
<1>2. /\ p.items[k].type \in Types /\ p.items[k].parent \in Keys \union {NoParent}
      /\ p.items[k].rel \subseteq Fields \X Keys
  BY <1>1 DEF Items
<1>3. managed_hash(p, k) \in Hashes
  BY <1>1, <1>2 DEF managed_hash, Hashes
<1>4. p.items[k].parent # Unmanaged
  BY <1>2, PlanAssumption DEF Unmanaged, NoParent
<1>5. ASSUME NEW r \in _relations(p, k)
      PROVE  r \in Relations
  <2>1. CASE \E u \in p.items[k].rel : r = <<Semantic(u[1]), u[2]>>
    BY <1>2, <2>1, PlanAssumption DEF Relations, Semantics
  <2>2. CASE \E t \in Known(p) : r = <<"related_to", t>>
    <3>1. "related_to" \in Semantics
      BY DEF Semantics, Semantic, AllFields
    <3> QED  BY <1>1, <2>2, <3>1 DEF Relations
  <2> QED  BY <2>1, <2>2 DEF _relations
<1> QED  BY <1>1, <1>2, <1>3, <1>4, <1>5

\* A package has a package's fields.
LEMMA PackageFields ==
    ASSUME NEW w \in Packages
    PROVE  /\ w.hash \in Hashes /\ w.parent \in Parents /\ w.rel \subseteq Relations
           /\ w.superseded \in BOOLEAN /\ parent_identity(w) \in Parents
           /\ w.id \in Nat
BY DEF Packages, parent_identity, Parents

\* What an operation expects, and an operation, have their types.
LEMMA ExpectTyped ==
    ASSUME NEW h \in Hashes, NEW w \in Packages, NEW q \in Parents,
           NEW R, R \subseteq Relations
    PROVE  /\ Expect(h, w, q, R) \in Expectations
           /\ _existing_preconditions(h, w) \in Expectations
           /\ Expect(h, w, q, R).parent = q /\ Expect(h, w, q, R).rel = R
           /\ _existing_preconditions(h, w).parent = parent_identity(w)
           /\ _existing_preconditions(h, w).unmanaged <=> w.parent = Unmanaged
BY PackageFields DEF Expect, _existing_preconditions, Expectations

\* An operation of typed parts.
LEMMA OperationTyped ==
    ASSUME NEW kind \in Kinds, NEW k \in Keys \union {0},
           NEW a \in Arguments, NEW e \in Preconditions
    PROVE  /\ Operation(kind, k, a, e) \in Operations
           /\ Operation(kind, k, a, e).kind = kind /\ Operation(kind, k, a, e).key = k
           /\ Operation(kind, k, a, e).arg = a /\ Operation(kind, k, a, e).expect = e
BY DEF Operation, Operations

-----------------------------------------------------------------------------
(* Which operations plan_diff lists, and that it lists all that are needed. *)

\* The operation x has its reason in the plan p and the snapshot s.
Reasoned(p, s, x) ==
    \/ /\ x.kind = "create_work_package"
       /\ x.key \in Known(p) \ Present(s) /\ x.arg = managed_hash(p, x.key)
    \/ /\ x.kind = "reactivate_work_package"
       /\ x.key \in Known(p) /\ s[x.key].superseded
    \/ /\ x.kind = "update_managed_fields"
       /\ x.key \in Known(p) /\ x.arg = managed_hash(p, x.key) /\ s[x.key].hash # x.arg
    \/ /\ x.kind = "set_parent"
       /\ x.key \in Known(p) /\ x.arg = p.items[x.key].parent /\ ParentChanged(s[x.key], x.arg)
       /\ x.expect.parent = parent_identity(s[x.key])
       /\ x.expect.unmanaged <=> s[x.key].parent = Unmanaged
    \/ /\ x.kind = "create_relation"
       /\ x.key \in Known(p) /\ x.arg \in _relations(p, x.key) \ s[x.key].rel
    \/ /\ x.kind = "remove_managed_relation"
       /\ x.key \in Known(p) /\ x.arg \in s[x.key].rel \ _relations(p, x.key)
    \/ x.kind = "mark_superseded" /\ x.key \in Gone(p, s)
    \/ x.kind = "record_audit" /\ x.key = 0

Has(q, kind, k) == \E x : Occurs(x, q) /\ x.kind = kind /\ x.key = k
HasRelation(q, kind, k, r) == \E x : Occurs(x, q) /\ x.kind = kind /\ x.key = k /\ x.arg = r

\* q holds what the item k needs.
Serves(p, s, k, q) ==
    /\ s[k] # Absent /\ s[k].superseded => Has(q, "reactivate_work_package", k)
    /\ s[k] # Absent /\ s[k].hash # managed_hash(p, k) => Has(q, "update_managed_fields", k)
    /\ ParentChanged(s[k], p.items[k].parent) => Has(q, "set_parent", k)
    /\ \A r \in _relations(p, k) \ s[k].rel : HasRelation(q, "create_relation", k, r)
    /\ \A r \in s[k].rel \ _relations(p, k) : HasRelation(q, "remove_managed_relation", k, r)

\* An optional operation occurs on its condition.
LEMMA OneOccurs ==
    ASSUME NEW S, NEW op \in S, NEW c \in BOOLEAN
    PROVE  One(c, op) \in Seq(S) /\ \A x : Occurs(x, One(c, op)) <=> c /\ x = op
<1>1. CASE c
  <2>1. One(c, op) = <<op>>
    BY <1>1 DEF One
  <2>2. <<op>> \in Seq(S) /\ Len(<<op>>) = 1 /\ <<op>>[1] = op
    OBVIOUS
  <2>3. \A i : i \in 1..1 <=> i = 1
    OBVIOUS
  <2> QED  BY <1>1, <2>1, <2>2, <2>3 DEF Occurs
<1>2. CASE ~c
  <2>1. One(c, op) = <<>>
    BY <1>2 DEF One
  <2>2. <<>> \in Seq(S) /\ Len(<<>>) = 0
    OBVIOUS
  <2>3. \A i : i \notin 1..0
    OBVIOUS
  <2> QED  BY <1>2, <2>1, <2>2, <2>3 DEF Occurs
<1> QED  BY <1>1, <1>2

\* RelationOps has one operation for each relation.
LEMMA RelationOpsOccur ==
    ASSUME NEW kind \in {"create_relation", "remove_managed_relation"}, NEW k \in Keys,
           NEW R, R \subseteq Relations, NEW e \in Expectations
    PROVE  /\ RelationOps(kind, k, R, e) \in Seq(Operations)
           /\ \A x : Occurs(x, RelationOps(kind, k, R, e)) =>
                        x.kind = kind /\ x.key = k /\ x.arg \in R
           /\ \A r \in R : HasRelation(RelationOps(kind, k, R, e), kind, k, r)
<1> DEFINE s == SetToSeq(R)
           n == Cardinality(R)
           done(i) == {s[j] : j \in 1..i - 1}
           E(i) == [e EXCEPT !.rel = IF kind = "create_relation" THEN e.rel \union done(i)
                                                                ELSE e.rel \ done(i)]
           q == RelationOps(kind, k, R, e)
<1>1. /\ s \in [1..n -> R] /\ n \in Nat /\ Len(s) = n
      /\ \A r \in R : \E i \in 1..n : s[i] = r
  BY FiniteRelations, SetToSeqLists
<1>2. q = [i \in 1..n |-> Operation(kind, k, s[i], E(i))]
  BY <1>1 DEF RelationOps
<1>3. e.rel \subseteq Relations
  BY DEF Expectations
<1> HIDE DEF n, q, s
<1>4. ASSUME NEW i \in 1..n
      PROVE  /\ q[i] \in Operations /\ q[i].kind = kind /\ q[i].key = k
             /\ q[i].arg = s[i] /\ s[i] \in R
  <2>1. done(i) \subseteq R
    <3>1. \A j \in 1..i - 1 : j \in 1..n
      BY <1>1
    <3> QED  BY <1>1, <3>1
  <2>2. s[i] \in R /\ s[i] \in Relations
    BY <1>1
  <2> HIDE DEF done
  <2>3. E(i) \in Expectations
    BY <1>3, <2>1 DEF Expectations
  <2> HIDE DEF E
  <2>4. q[i] = Operation(kind, k, s[i], E(i))
    BY <1>2
  <2>5. /\ kind \in Kinds /\ k \in Keys \union {0}
        /\ s[i] \in Arguments /\ E(i) \in Preconditions
    BY <2>2, <2>3 DEF Kinds, Arguments, Preconditions
  <2> QED  BY <2>2, <2>3, <2>4, <2>5, OperationTyped
<1>5. q \in Seq(Operations) /\ Len(q) = n
  <2>1. DOMAIN q = 1..n /\ q = [i \in 1..n |-> q[i]]
    BY <1>2
  <2> QED  BY <1>1, <1>4, <2>1
<1>6. ASSUME NEW x, Occurs(x, q)
      PROVE  x.kind = kind /\ x.key = k /\ x.arg \in R
  BY <1>4, <1>5, <1>6 DEF Occurs
<1>7. ASSUME NEW r \in R
      PROVE  HasRelation(q, kind, k, r)
  <2>1. PICK i \in 1..n : s[i] = r
    BY <1>1
  <2>2. Occurs(q[i], q)
    BY <1>5 DEF Occurs
  <2> QED  BY <1>4, <2>1, <2>2 DEF HasRelation
<1> QED  BY <1>5, <1>6, <1>7 DEF q

\* What occurs in five sequences one after the other.
LEMMA OccursInFive ==
    ASSUME NEW S, NEW a \in Seq(S), NEW b \in Seq(S), NEW c \in Seq(S), NEW d \in Seq(S),
           NEW e \in Seq(S)
    PROVE  /\ a \o b \o c \o d \o e \in Seq(S)
           /\ \A x : Occurs(x, a \o b \o c \o d \o e) <=>
                 Occurs(x, a) \/ Occurs(x, b) \/ Occurs(x, c) \/ Occurs(x, d) \/ Occurs(x, e)
<1> DEFINE ab == a \o b  abc == ab \o c  abcd == abc \o d
<1>1. ab \in Seq(S) /\ \A x : Occurs(x, ab) <=> Occurs(x, a) \/ Occurs(x, b)
  BY OccursInConcat
<1> HIDE DEF ab
<1>2. abc \in Seq(S) /\ \A x : Occurs(x, abc) <=> Occurs(x, ab) \/ Occurs(x, c)
  BY <1>1, OccursInConcat
<1> HIDE DEF abc
<1>3. abcd \in Seq(S) /\ \A x : Occurs(x, abcd) <=> Occurs(x, abc) \/ Occurs(x, d)
  BY <1>2, OccursInConcat
<1> HIDE DEF abcd
<1>4. abcd \o e \in Seq(S) /\ \A x : Occurs(x, abcd \o e) <=> Occurs(x, abcd) \/ Occurs(x, e)
  BY <1>3, OccursInConcat
<1> QED  BY <1>1, <1>2, <1>3, <1>4 DEF ab, abc, abcd

\* The operations of one item have their reasons and are all the item needs.
LEMMA ItemOpsOccur ==
    ASSUME NEW p, IsPlan(p), NEW s \in [Keys -> Packages], NEW k \in Known(p)
    PROVE  /\ ItemOps(p, s, k) \in Seq(Operations)
           /\ \A x : Occurs(x, ItemOps(p, s, k)) => x.key = k /\ Reasoned(p, s, x)
           /\ Serves(p, s, k, ItemOps(p, s, k))
<1> DEFINE w == s[k]
           after == managed_hash(p, k)
           parent == p.items[k].parent
           virtual == IF ParentChanged(w, parent) THEN parent ELSE parent_identity(w)
           wanted == _relations(p, k) \ w.rel
           unwanted == w.rel \ _relations(p, k)
           c1 == ~(w = Absent) /\ w.superseded
           c2 == ~(w = Absent) /\ w.hash # after
           o1 == Operation("reactivate_work_package", k, Nothing,
                           _existing_preconditions(w.hash, w))
           o2 == Operation("update_managed_fields", k, after, _existing_preconditions(w.hash, w))
           o3 == Operation("set_parent", k, parent, _existing_preconditions(after, w))
           q4 == RelationOps("create_relation", k, wanted, Expect(after, w, virtual, w.rel))
           q5 == RelationOps("remove_managed_relation", k, unwanted,
                             Expect(after, w, virtual, w.rel \union wanted))
           q == ItemOps(p, s, k)
<1>1. q = One(c1, o1) \o One(c2, o2) \o One(ParentChanged(w, parent), o3) \o q4 \o q5
  BY DEF ItemOps
<1>2. /\ k \in Keys /\ w \in Packages /\ after \in Hashes /\ parent \in Parents
      /\ _relations(p, k) \subseteq Relations
      /\ w.hash \in Hashes /\ w.parent \in Parents /\ w.rel \subseteq Relations
      /\ parent_identity(w) \in Parents /\ w.superseded \in BOOLEAN
  BY PlanTyped, PackageFields DEF Parents
<1>3. /\ virtual \in Parents /\ wanted \subseteq Relations /\ unwanted \subseteq Relations
      /\ w.rel \union wanted \subseteq Relations
  BY <1>2
<1>4. /\ Expect(after, w, virtual, w.rel) \in Expectations
      /\ Expect(after, w, virtual, w.rel \union wanted) \in Expectations
      /\ _existing_preconditions(w.hash, w) \in Expectations
      /\ _existing_preconditions(after, w) \in Expectations
      /\ _existing_preconditions(after, w).parent = parent_identity(w)
      /\ _existing_preconditions(after, w).unmanaged <=> w.parent = Unmanaged
  <2> HIDE DEF w, after, virtual, wanted
  <2> QED  BY <1>2, <1>3, ExpectTyped
<1>5. /\ o1 \in Operations /\ o1.kind = "reactivate_work_package" /\ o1.key = k
      /\ o2 \in Operations /\ o2.kind = "update_managed_fields" /\ o2.key = k /\ o2.arg = after
      /\ o3 \in Operations /\ o3.kind = "set_parent" /\ o3.key = k /\ o3.arg = parent
      /\ o3.expect = _existing_preconditions(after, w)
  <2>1. /\ {"reactivate_work_package", "update_managed_fields", "set_parent"} \subseteq Kinds
        /\ k \in Keys \union {0} /\ Nothing \in Arguments
        /\ after \in Arguments /\ parent \in Arguments
        /\ _existing_preconditions(w.hash, w) \in Preconditions
        /\ _existing_preconditions(after, w) \in Preconditions
    BY <1>2, <1>4 DEF Kinds, Arguments, Preconditions
  <2> HIDE DEF w, after, parent
  <2>2. o1 \in Operations /\ o1.kind = "reactivate_work_package" /\ o1.key = k
    BY <2>1 DEF Operation, Operations
  <2>3. o2 \in Operations /\ o2.kind = "update_managed_fields" /\ o2.key = k /\ o2.arg = after
    BY <2>1 DEF Operation, Operations
  <2>4. /\ o3 \in Operations /\ o3.kind = "set_parent" /\ o3.key = k /\ o3.arg = parent
        /\ o3.expect = _existing_preconditions(after, w)
    BY <2>1 DEF Operation, Operations
  <2> QED  BY <2>2, <2>3, <2>4
<1>6. /\ q4 \in Seq(Operations)
      /\ \A x : Occurs(x, q4) => x.kind = "create_relation" /\ x.key = k /\ x.arg \in wanted
      /\ \A r \in wanted : HasRelation(q4, "create_relation", k, r)
  <2> HIDE DEF w, after, virtual, wanted
  <2> QED  BY <1>2, <1>3, <1>4, RelationOpsOccur
<1>7. /\ q5 \in Seq(Operations)
      /\ \A x : Occurs(x, q5) =>
            x.kind = "remove_managed_relation" /\ x.key = k /\ x.arg \in unwanted
      /\ \A r \in unwanted : HasRelation(q5, "remove_managed_relation", k, r)
  <2> HIDE DEF w, after, virtual, wanted, unwanted
  <2> QED  BY <1>2, <1>3, <1>4, RelationOpsOccur
<1>8. c1 \in BOOLEAN /\ c2 \in BOOLEAN /\ ParentChanged(w, parent) \in BOOLEAN
  BY <1>2 DEF ParentChanged
<1> HIDE DEF c1, c2, o1, o2, o3, q4, q5, q, parent, after, wanted, unwanted, virtual
<1>9. /\ q \in Seq(Operations)
      /\ \A x : Occurs(x, q) <=> \/ c1 /\ x = o1
                                 \/ c2 /\ x = o2
                                 \/ ParentChanged(w, parent) /\ x = o3
                                 \/ Occurs(x, q4) \/ Occurs(x, q5)
  <2> DEFINE q1 == One(c1, o1)
             q2 == One(c2, o2)
             q3 == One(ParentChanged(w, parent), o3)
  <2>1. q1 \in Seq(Operations) /\ \A x : Occurs(x, q1) <=> c1 /\ x = o1
    BY <1>5, <1>8, OneOccurs
  <2>2. q2 \in Seq(Operations) /\ \A x : Occurs(x, q2) <=> c2 /\ x = o2
    BY <1>5, <1>8, OneOccurs
  <2>3. /\ q3 \in Seq(Operations)
        /\ \A x : Occurs(x, q3) <=> ParentChanged(w, parent) /\ x = o3
    BY <1>5, <1>8, OneOccurs
  <2>4. q = q1 \o q2 \o q3 \o q4 \o q5
    BY <1>1
  <2> HIDE DEF q1, q2, q3
  <2>5. /\ q \in Seq(Operations)
        /\ \A x : Occurs(x, q) <=> Occurs(x, q1) \/ Occurs(x, q2) \/ Occurs(x, q3)
                                   \/ Occurs(x, q4) \/ Occurs(x, q5)
    BY <1>6, <1>7, <2>1, <2>2, <2>3, <2>4, OccursInFive
  <2> QED  BY <2>1, <2>2, <2>3, <2>5
<1>10. ASSUME NEW x, Occurs(x, q)
       PROVE  x.key = k /\ Reasoned(p, s, x)
  <2>1. CASE c1 /\ x = o1
    BY <1>5, <2>1 DEF Reasoned, c1
  <2>2. CASE c2 /\ x = o2
    BY <1>5, <2>2 DEF Reasoned, c2, after
  <2>3. CASE ParentChanged(w, parent) /\ x = o3
    BY <1>4, <1>5, <2>3 DEF Reasoned, parent
  <2>4. CASE Occurs(x, q4)
    BY <1>6, <2>4 DEF Reasoned, wanted
  <2>5. CASE Occurs(x, q5)
    BY <1>7, <2>5 DEF Reasoned, unwanted
  <2> QED  BY <1>9, <1>10, <2>1, <2>2, <2>3, <2>4, <2>5
<1>11. Serves(p, s, k, q)
  <2>1. c1 => Has(q, "reactivate_work_package", k)
    BY <1>5, <1>9 DEF Has
  <2>2. c2 => Has(q, "update_managed_fields", k)
    BY <1>5, <1>9 DEF Has
  <2>3. ParentChanged(w, parent) => Has(q, "set_parent", k)
    BY <1>5, <1>9 DEF Has
  <2>4. \A r \in wanted : HasRelation(q, "create_relation", k, r)
    BY <1>6, <1>9 DEF HasRelation
  <2>5. \A r \in unwanted : HasRelation(q, "remove_managed_relation", k, r)
    BY <1>7, <1>9 DEF HasRelation
  <2> QED  BY <2>1, <2>2, <2>3, <2>4, <2>5 DEF Serves, c1, c2, after, parent, wanted, unwanted
<1> QED  BY <1>9, <1>10, <1>11 DEF q

\* More operations serve an item as well.
LEMMA ServesMore ==
    ASSUME NEW p, NEW s, NEW k, NEW q, NEW r, Serves(p, s, k, q),
           \A x : Occurs(x, q) => Occurs(x, r)
    PROVE  Serves(p, s, k, r)
BY Zenon DEF Serves, Has, HasRelation

\* The sets that plan_diff goes through are finite sets of keys.
LEMMA KeySets ==
    ASSUME NEW p, IsPlan(p), NEW S, S \subseteq Keys
    PROVE  S \subseteq Nat /\ IsFiniteSet(S)
BY PlanAssumption, FS_Subset

\* A mapped list of keys has the images of the keys.
LEMMA MappedOccurs ==
    ASSUME NEW S, S \subseteq Keys, NEW q, NEW T,
           q = [i \in DOMAIN InOrder(S) |-> q[i]],
           \A i \in DOMAIN InOrder(S) : q[i] \in T
    PROVE  /\ q \in Seq(T)
           /\ \A x : Occurs(x, q) =>
                 \E i \in DOMAIN InOrder(S) : x = q[i] /\ InOrder(S)[i] \in S
           /\ \A k \in S : \E i \in DOMAIN InOrder(S) : InOrder(S)[i] = k /\ Occurs(q[i], q)
<1> DEFINE n == Cardinality(S)
<1>1. S \subseteq Nat /\ IsFiniteSet(S)
  BY PlanAssumption, FS_Subset
<1>2. /\ n \in Nat /\ InOrder(S) \in [1..n -> S]
      /\ \A k \in S : \E i \in 1..n : InOrder(S)[i] = k
  BY <1>1, InOrderLists
<1> HIDE DEF n
<1>3. DOMAIN InOrder(S) = 1..n
  BY <1>2
<1>4. q \in Seq(T) /\ Len(q) = n
  BY <1>2, <1>3
<1>5. ASSUME NEW x, Occurs(x, q)
      PROVE  \E i \in DOMAIN InOrder(S) : x = q[i] /\ InOrder(S)[i] \in S
  BY <1>2, <1>3, <1>4, <1>5 DEF Occurs
<1>6. ASSUME NEW k \in S
      PROVE  \E i \in DOMAIN InOrder(S) : InOrder(S)[i] = k /\ Occurs(q[i], q)
  BY <1>2, <1>3, <1>4 DEF Occurs
<1> QED  BY <1>4, <1>5, <1>6

\* plan_diff lists the operations that have a reason, and all that are needed.
LEMMA DiffLists ==
    ASSUME NEW p, IsPlan(p), NEW s \in [Keys -> Packages]
    PROVE  /\ plan_diff(p, s) \in Seq(Operations)
           /\ \A x : Occurs(x, plan_diff(p, s)) => Reasoned(p, s, x)
           /\ \A k \in Known(p) \ Present(s) : Has(plan_diff(p, s), "create_work_package", k)
           /\ \A k \in Known(p) : Serves(p, s, k, plan_diff(p, s))
           /\ \A k \in Gone(p, s) : Has(plan_diff(p, s), "mark_superseded", k)
           /\ plan_diff(p, s) # <<>> => \E x : Occurs(x, plan_diff(p, s)) /\ x.key # 0
<1> DEFINE new == Known(p) \ Present(s)
           creates == InOrder(new)
           items == InOrder(Known(p))
           gone == InOrder(Gone(p, s))
           a == [i \in DOMAIN creates |->
                   Operation("create_work_package", creates[i], managed_hash(p, creates[i]),
                             Nothing)]
           f == [i \in DOMAIN items |-> ItemOps(p, s, items[i])]
           g == [i \in DOMAIN gone |->
                   Operation("mark_superseded", gone[i], Nothing,
                       _existing_preconditions(s[gone[i]].hash, s[gone[i]]))]
           all == a \o FlattenSeq(f) \o g
           audit == Operation("record_audit", 0, Nothing, Nothing)
           d == plan_diff(p, s)
<1>1. d = all \o One(all # <<>>, audit)
  BY DEF plan_diff
<1>2. new \subseteq Keys /\ Known(p) \subseteq Keys /\ Gone(p, s) \subseteq Keys
  BY DEF IsPlan, Gone, Present
<1>3. Nothing \in Arguments /\ Nothing \in Preconditions
  BY DEF Arguments, Preconditions
<1>4. /\ a \in Seq(Operations)
      /\ \A x : Occurs(x, a) => Reasoned(p, s, x) /\ x.key # 0
      /\ \A k \in new : Has(a, "create_work_package", k)
  <2>1. ASSUME NEW i \in DOMAIN creates, creates[i] \in new
        PROVE  /\ a[i] \in Operations /\ a[i].kind = "create_work_package"
               /\ a[i].key = creates[i] /\ a[i].arg = managed_hash(p, creates[i])
    <3>1. /\ a[i] = Operation("create_work_package", creates[i],
                              managed_hash(p, creates[i]), Nothing)
          /\ creates[i] \in Keys \union {0} /\ managed_hash(p, creates[i]) \in Arguments
          /\ "create_work_package" \in Kinds
      BY <1>2, <2>1, PlanTyped DEF Arguments, Kinds
    <3> HIDE DEF a, creates
    <3> QED  BY <1>3, <3>1 DEF Operation, Operations
  <2>2. \A i \in DOMAIN creates : creates[i] \in new
    BY <1>2, KeySets, InOrderLists
  <2>3. a = [i \in DOMAIN creates |-> a[i]] /\ \A i \in DOMAIN creates : a[i] \in Operations
    BY <2>1, <2>2
  <2> HIDE DEF a, new
  <2>4. /\ a \in Seq(Operations)
        /\ \A x : Occurs(x, a) => \E i \in DOMAIN creates : x = a[i] /\ creates[i] \in new
        /\ \A k \in new : \E i \in DOMAIN creates : creates[i] = k /\ Occurs(a[i], a)
    BY <1>2, <2>3, MappedOccurs
  <2> HIDE DEF creates
  <2>5. ASSUME NEW x, Occurs(x, a)
        PROVE  Reasoned(p, s, x)
    BY <2>1, <2>4, <2>5 DEF Reasoned, new
  <2>7. ASSUME NEW x, Occurs(x, a)
        PROVE  x.key # 0
    BY <1>2, <2>1, <2>4, <2>7, PlanAssumption
  <2>6. ASSUME NEW k \in new
        PROVE  Has(a, "create_work_package", k)
    BY <2>1, <2>4 DEF Has
  <2> QED  BY <2>4, <2>5, <2>6, <2>7
<1>5. /\ f \in Seq(Seq(Operations))
      /\ \A i \in 1..Len(f) : \A x : Occurs(x, f[i]) => Reasoned(p, s, x) /\ x.key # 0
      /\ \A k \in Known(p) : \E i \in 1..Len(f) : Serves(p, s, k, f[i])
  <2>1. /\ DOMAIN items = 1..Cardinality(Known(p)) /\ Cardinality(Known(p)) \in Nat
        /\ \A i \in DOMAIN items : items[i] \in Known(p)
        /\ \A k \in Known(p) : \E i \in DOMAIN items : items[i] = k
    BY <1>2, KeySets, InOrderLists
  <2> HIDE DEF items
  <2>2. ASSUME NEW i \in DOMAIN items
        PROVE  /\ f[i] \in Seq(Operations)
               /\ \A x : Occurs(x, f[i]) => Reasoned(p, s, x) /\ x.key # 0
               /\ Serves(p, s, items[i], f[i])
    <3>1. f[i] = ItemOps(p, s, items[i]) /\ items[i] \in Known(p) /\ items[i] # 0
      BY <1>2, <2>1, PlanAssumption
    <3> HIDE DEF f
    <3> QED  BY <3>1, ItemOpsOccur
  <2>3. DOMAIN f = DOMAIN items /\ f = [i \in DOMAIN items |-> f[i]]
    OBVIOUS
  <2> HIDE DEF f
  <2>4. f \in Seq(Seq(Operations)) /\ Len(f) = Cardinality(Known(p))
    BY <2>1, <2>2, <2>3
  <2> QED  BY <2>1, <2>2, <2>4
<1>6. /\ FlattenSeq(f) \in Seq(Operations)
      /\ \A x : Occurs(x, FlattenSeq(f)) => Reasoned(p, s, x) /\ x.key # 0
      /\ \A k \in Known(p) : Serves(p, s, k, FlattenSeq(f))
  <2> HIDE DEF f
  <2>1. /\ FlattenSeq(f) \in Seq(Operations)
        /\ \A x : Occurs(x, FlattenSeq(f)) <=> \E i \in 1..Len(f) : Occurs(x, f[i])
    BY <1>5, FlattenOccurs
  <2>2. ASSUME NEW k \in Known(p)
        PROVE  Serves(p, s, k, FlattenSeq(f))
    <3>1. PICK i \in 1..Len(f) : Serves(p, s, k, f[i])
      BY <1>5
    <3>2. \A x : Occurs(x, f[i]) => Occurs(x, FlattenSeq(f))
      BY <2>1
    <3> QED  BY <3>1, <3>2, ServesMore
  <2> QED  BY <1>5, <2>1, <2>2
<1>7. /\ g \in Seq(Operations)
      /\ \A x : Occurs(x, g) => Reasoned(p, s, x) /\ x.key # 0
      /\ \A k \in Gone(p, s) : Has(g, "mark_superseded", k)
  <2>1. ASSUME NEW i \in DOMAIN gone, gone[i] \in Gone(p, s)
        PROVE  g[i] \in Operations /\ g[i].kind = "mark_superseded" /\ g[i].key = gone[i]
    <3> DEFINE e == _existing_preconditions(s[gone[i]].hash, s[gone[i]])
    <3>1. gone[i] \in Keys /\ s[gone[i]] \in Packages
      BY <1>2, <2>1
    <3>2. e \in Preconditions
      <4>1. /\ s[gone[i]].hash \in Hashes /\ s[gone[i]].parent \in Parents
            /\ s[gone[i]].rel \subseteq Relations
        BY <3>1, PackageFields
      <4> QED  BY <3>1, <4>1, ExpectTyped DEF Preconditions
    <3>3. /\ g[i] = Operation("mark_superseded", gone[i], Nothing, e)
          /\ gone[i] \in Keys \union {0} /\ "mark_superseded" \in Kinds
      BY <2>1, <3>1 DEF Kinds
    <3> HIDE DEF g, gone, e
    <3> QED  BY <1>3, <3>2, <3>3 DEF Operation, Operations
  <2>2. \A i \in DOMAIN gone : gone[i] \in Gone(p, s)
    BY <1>2, KeySets, InOrderLists
  <2>3. g = [i \in DOMAIN gone |-> g[i]] /\ \A i \in DOMAIN gone : g[i] \in Operations
    BY <2>1, <2>2
  <2> HIDE DEF g
  <2>4. /\ g \in Seq(Operations)
        /\ \A x : Occurs(x, g) => \E i \in DOMAIN gone : x = g[i] /\ gone[i] \in Gone(p, s)
        /\ \A k \in Gone(p, s) : \E i \in DOMAIN gone : gone[i] = k /\ Occurs(g[i], g)
    BY <1>2, <2>3, MappedOccurs
  <2> HIDE DEF gone
  <2>5. ASSUME NEW x, Occurs(x, g)
        PROVE  Reasoned(p, s, x)
    BY <2>1, <2>4, <2>5 DEF Reasoned
  <2>7. ASSUME NEW x, Occurs(x, g)
        PROVE  x.key # 0
    BY <1>2, <2>1, <2>4, <2>7, PlanAssumption
  <2>6. ASSUME NEW k \in Gone(p, s)
        PROVE  Has(g, "mark_superseded", k)
    BY <2>1, <2>4 DEF Has
  <2> QED  BY <2>4, <2>5, <2>6, <2>7
<1> HIDE DEF a, f, g
<1>8. /\ all \in Seq(Operations)
      /\ \A x : Occurs(x, all) <=> Occurs(x, a) \/ Occurs(x, FlattenSeq(f)) \/ Occurs(x, g)
  <2> DEFINE af == a \o FlattenSeq(f)
  <2>1. af \in Seq(Operations) /\ \A x : Occurs(x, af) <=> Occurs(x, a) \/ Occurs(x, FlattenSeq(f))
    BY <1>4, <1>6, OccursInConcat
  <2> HIDE DEF af
  <2>2. af \o g \in Seq(Operations) /\ \A x : Occurs(x, af \o g) <=> Occurs(x, af) \/ Occurs(x, g)
    BY <1>7, <2>1, OccursInConcat
  <2> QED  BY <2>1, <2>2 DEF af
<1> HIDE DEF all
<1>9. audit \in Operations /\ Reasoned(p, s, audit)
  <2>1. "record_audit" \in Kinds
    BY DEF Kinds
  <2>2. audit \in Operations /\ audit.kind = "record_audit" /\ audit.key = 0
    BY <1>3, <2>1 DEF Operation, Operations
  <2> HIDE DEF audit
  <2> QED  BY <2>2 DEF Reasoned
<1> HIDE DEF audit
<1>10. /\ d \in Seq(Operations)
       /\ \A x : Occurs(x, d) <=> Occurs(x, all) \/ (all # <<>> /\ x = audit)
  <2> DEFINE c == all # <<>>
             o == One(c, audit)
  <2>1. c \in BOOLEAN
    OBVIOUS
  <2>2. d = all \o o
    BY <1>1
  <2> HIDE DEF c, d
  <2>3. o \in Seq(Operations) /\ \A x : Occurs(x, o) <=> c /\ x = audit
    BY <1>9, <2>1, OneOccurs
  <2> HIDE DEF o
  <2>4. d \in Seq(Operations) /\ \A x : Occurs(x, d) <=> Occurs(x, all) \/ Occurs(x, o)
    BY <1>8, <2>2, <2>3, OccursInConcat
  <2> QED  BY <2>3, <2>4 DEF c
<1> HIDE DEF d
<1>11. \A x : Occurs(x, d) => Reasoned(p, s, x)
  BY <1>4, <1>6, <1>7, <1>8, <1>9, <1>10
<1>12. \A k \in new : Has(d, "create_work_package", k)
  BY <1>4, <1>8, <1>10 DEF Has
<1>13. ASSUME NEW k \in Known(p)
       PROVE  Serves(p, s, k, d)
  <2>1. \A x : Occurs(x, FlattenSeq(f)) => Occurs(x, d)
    BY <1>8, <1>10
  <2> QED  BY <1>6, <2>1, ServesMore
<1>14. \A k \in Gone(p, s) : Has(d, "mark_superseded", k)
  BY <1>7, <1>8, <1>10 DEF Has
<1>15. ASSUME d # <<>>
       PROVE  \E x : Occurs(x, d) /\ x.key # 0
  <2>1. all # <<>>
    <3>1. all = <<>> => d = <<>> \o <<>>
      BY <1>1 DEF One, d
    <3> QED  BY <1>15, <3>1
  <2>2. Len(all) \in Nat /\ 1 \in 1..Len(all)
    BY <1>8, <2>1
  <2>3. Occurs(all[1], all)
    BY <2>2 DEF Occurs
  <2> QED  BY <1>4, <1>6, <1>7, <1>8, <1>10, <2>3
<1> QED  BY <1>10, <1>11, <1>12, <1>13, <1>14, <1>15 DEF d, new

-----------------------------------------------------------------------------
(* The invariant of a publication.                                         *)

\* The first n operations of q have one of this kind for k.
Did(q, n, kind, k) == \E i \in 1..n : q[i].kind = kind /\ q[i].key = k
DidRelation(q, n, kind, k, r) ==
    \E i \in 1..n : q[i].kind = kind /\ q[i].key = k /\ q[i].arg = r

\* How far the first n operations have brought the package w of a node of the
\* plan p from what the snapshot shows, b: every part of it is the snapshot's or
\* the plan's, and the plan's where an operation has been at it.
Reached(p, b, q, n, k, w) ==
    /\ w.hash \in {b.hash, managed_hash(p, k)}
    /\ Did(q, n, "create_work_package", k) \/ Did(q, n, "update_managed_fields", k) =>
          w.hash = managed_hash(p, k)
    /\ w.parent \in {b.parent, p.items[k].parent}
    /\ Did(q, n, "set_parent", k) => w.parent = p.items[k].parent
    /\ w.rel \subseteq b.rel \union _relations(p, k)
    /\ b.rel \intersect _relations(p, k) \subseteq w.rel
    /\ \A r \in Relations :
          /\ DidRelation(q, n, "create_relation", k, r) => r \in w.rel
          /\ DidRelation(q, n, "remove_managed_relation", k, r) => r \notin w.rel
    /\ ~b.superseded \/ Did(q, n, "reactivate_work_package", k) => ~w.superseded

\* The same of a node that the plan does not have.
Dropped(b, q, n, k, w) ==
    /\ b = Absent => w = Absent
    /\ b.superseded \/ Did(q, n, "mark_superseded", k) => w.superseded

Progress(k) ==
    IF k \in Known(plan) THEN Reached(plan, snapshot[k], ops, at, k, package[k])
                         ELSE Dropped(snapshot[k], ops, at, k, package[k])

Typed ==
    /\ base \in Priors \union {NoPlan}
    /\ package \in [Keys -> Packages] /\ snapshot \in [Keys -> Packages]
    /\ phase \in {"idle", "publishing", "completed", "blocked"}
    /\ at \in Nat /\ edits \in Nat /\ edited \subseteq Keys /\ moved \subseteq Keys
    /\ phase = "idle" => plan = NoPlan /\ ops = <<>> /\ at = 0
    /\ phase # "idle" => IsPlan(plan) /\ ops = plan_diff(plan, snapshot) /\ at <= Len(ops)
    /\ phase = "completed" => at = Len(ops)

\* Before anybody's change the packages are what the last publication left.
AsPublished ==
    phase = "idle" /\ edits = 0 =>
        \A k \in Known(base) :
            package[k] = Existing(managed_hash(base, k), base.items[k].parent,
                                  _relations(base, k), FALSE, k)

DiffInv ==
    /\ Typed
    /\ AsPublished
    /\ ReplanIsLocal
    /\ phase # "idle" => \A k \in Keys \ edited : Progress(k)

-----------------------------------------------------------------------------
(* One operation.                                                          *)

\* An operation with a reason is about a node, and its argument has the type of
\* what it changes.
LEMMA ReasonedTyped ==
    ASSUME NEW p, IsPlan(p), NEW s \in [Keys -> Packages], NEW x, Reasoned(p, s, x),
           x.kind # "record_audit"
    PROVE  /\ x.key \in Keys /\ x.kind \in Kinds
           /\ x.kind \in {"create_work_package", "update_managed_fields"} => x.arg \in Hashes
           /\ x.kind = "set_parent" => x.arg \in Parents
           /\ x.kind \in {"create_relation", "remove_managed_relation"} => x.arg \in Relations
<1>1. \/ x.kind = "mark_superseded" /\ x.key \in Gone(p, s)
      \/ x.key \in Known(p) /\ x.kind \in Kinds \ {"mark_superseded", "record_audit"}
  BY DEF Reasoned, Kinds
<1>2. CASE x.kind = "mark_superseded" /\ x.key \in Gone(p, s)
  BY <1>2 DEF Gone, Present, Kinds
<1>3. CASE x.key \in Known(p) /\ x.kind \in Kinds \ {"mark_superseded", "record_audit"}
  <2>1. /\ x.key \in Keys /\ managed_hash(p, x.key) \in Hashes
        /\ p.items[x.key].parent \in Parents /\ _relations(p, x.key) \subseteq Relations
    BY <1>3, PlanTyped DEF Parents
  <2>2. s[x.key].rel \subseteq Relations
    BY <2>1, PackageFields
  <2> QED  BY <1>3, <2>1, <2>2 DEF Reasoned
<1> QED  BY <1>1, <1>2, <1>3

\* What is not there has the type of a package.
LEMMA AbsentTyped == Absent \in Packages
BY DEF Absent, Packages, Hashes, Parents

\* v differs from w in what the operation x is about.
Rewritten(x, w, v) ==
    /\ v.hash = IF x.kind \in {"create_work_package", "update_managed_fields"}
                THEN x.arg ELSE w.hash
    /\ v.parent = IF x.kind = "set_parent" THEN x.arg ELSE w.parent
    /\ v.rel = IF x.kind = "create_relation" THEN w.rel \union {x.arg}
               ELSE IF x.kind = "remove_managed_relation" THEN w.rel \ {x.arg} ELSE w.rel
    /\ v.superseded = IF x.kind = "mark_superseded" THEN TRUE
                      ELSE IF x.kind = "reactivate_work_package" THEN FALSE ELSE w.superseded

\* What an operation writes differs from the package in its own part only.
LEMMA WrittenFacts ==
    ASSUME NEW p, IsPlan(p), NEW s \in [Keys -> Packages], package \in [Keys -> Packages],
           NEW x, Reasoned(p, s, x), x.kind # "record_audit", _assert_current(x)
    PROVE  /\ x.key \in Keys /\ package[x.key] \in Packages /\ Written(x) \in Packages
           /\ Rewritten(x, package[x.key], Written(x))
<1> DEFINE w == package[x.key]
           v == Written(x)
<1>1. /\ x.key \in Keys /\ w \in Packages /\ x.kind \in Kinds
      /\ x.kind \in {"create_work_package", "update_managed_fields"} => x.arg \in Hashes
      /\ x.kind = "set_parent" => x.arg \in Parents
      /\ x.kind \in {"create_relation", "remove_managed_relation"} => x.arg \in Relations
  BY ReasonedTyped
<1>2. CASE x.kind = "create_work_package"
  <2>1. w = Absent
    BY <1>2 DEF _assert_current
  <2>2. Cardinality(Keys) + x.key \in Nat
    <3>1. Cardinality(Keys) \in Nat
      BY PlanAssumption, FS_CardinalityType
    <3>2. x.key \in Nat
      BY <1>1, PlanAssumption
    <3> QED  BY <3>1, <3>2
  <2>3. v = [Absent EXCEPT !.hash = x.arg, !.id = Cardinality(Keys) + x.key]
    BY <1>2 DEF Written
  <2>4. /\ v \in Packages /\ v.hash = x.arg /\ v.parent = Absent.parent
        /\ v.rel = Absent.rel /\ v.superseded = Absent.superseded
    BY <1>1, <1>2, <2>2, <2>3, AbsentTyped DEF Packages
  <2> QED  BY <1>1, <1>2, <2>1, <2>4 DEF Rewritten
<1>3. CASE x.kind = "update_managed_fields"
  <2>1. v = [w EXCEPT !.hash = x.arg]
    BY <1>3 DEF Written
  <2> QED  BY <1>1, <1>3, <2>1 DEF Packages, Rewritten
<1>4. CASE x.kind = "set_parent"
  <2>1. v = [w EXCEPT !.parent = x.arg]
    BY <1>4 DEF Written
  <2> QED  BY <1>1, <1>4, <2>1 DEF Packages, Rewritten
<1>5. CASE x.kind = "create_relation"
  <2>1. v = [w EXCEPT !.rel = w.rel \union {x.arg}]
    BY <1>5 DEF Written
  <2> QED  BY <1>1, <1>5, <2>1 DEF Packages, Rewritten
<1>6. CASE x.kind = "remove_managed_relation"
  <2>1. v = [w EXCEPT !.rel = w.rel \ {x.arg}]
    BY <1>6 DEF Written
  <2> QED  BY <1>1, <1>6, <2>1 DEF Packages, Rewritten
<1>7. CASE x.kind = "mark_superseded"
  <2>1. v = [w EXCEPT !.superseded = TRUE]
    BY <1>7 DEF Written
  <2> QED  BY <1>1, <1>7, <2>1 DEF Packages, Rewritten
<1>8. CASE x.kind = "reactivate_work_package"
  <2>1. v = [w EXCEPT !.superseded = FALSE]
    BY <1>8 DEF Written
  <2> QED  BY <1>1, <1>8, <2>1 DEF Packages, Rewritten
<1> QED  BY <1>1, <1>2, <1>3, <1>4, <1>5, <1>6, <1>7, <1>8 DEF Kinds

\* One operation more.
LEMMA DidMore ==
    ASSUME NEW q, NEW n \in Nat, NEW kind, NEW k
    PROVE  /\ Did(q, n + 1, kind, k) <=>
                 Did(q, n, kind, k) \/ (q[n + 1].kind = kind /\ q[n + 1].key = k)
           /\ \A r : DidRelation(q, n + 1, kind, k, r) <=>
                 \/ DidRelation(q, n, kind, k, r)
                 \/ q[n + 1].kind = kind /\ q[n + 1].key = k /\ q[n + 1].arg = r
<1>1. \A i : i \in 1..n + 1 <=> i \in 1..n \/ i = n + 1
  OBVIOUS
<1> QED  BY <1>1, Zenon DEF Did, DidRelation

\* An operation on a node of the plan goes on towards the plan.
LEMMA ReachedStep ==
    ASSUME NEW p, IsPlan(p), NEW s \in [Keys -> Packages], package \in [Keys -> Packages],
           NEW q, NEW n \in Nat, \A i \in 1..n + 1 : Reasoned(p, s, q[i]),
           NEW x, x = q[n + 1], x.kind # "record_audit", _assert_current(x), x.key \in Known(p),
           Reached(p, s[x.key], q, n, x.key, package[x.key])
    PROVE  Reached(p, s[x.key], q, n + 1, x.key, Written(x))
<1> DEFINE k == x.key
           b == s[k]
           w == package[k]
           v == Written(x)
           R == _relations(p, k)
<1>0. n + 1 \in 1..n + 1 /\ Reasoned(p, s, x)
  OBVIOUS
<1>1. Rewritten(x, w, v)
  BY <1>0, WrittenFacts
<1>2. \A kind : Did(q, n + 1, kind, k) <=> Did(q, n, kind, k) \/ x.kind = kind
  BY DidMore
<1>3. \A kind, r : DidRelation(q, n + 1, kind, k, r) <=>
                       DidRelation(q, n, kind, k, r) \/ (x.kind = kind /\ x.arg = r)
  BY DidMore
<1>4. /\ x.kind \in {"create_work_package", "update_managed_fields"} =>
             x.arg = managed_hash(p, k)
      /\ x.kind = "set_parent" => x.arg = p.items[k].parent
      /\ x.kind = "create_relation" => x.arg \in R \ b.rel
      /\ x.kind = "remove_managed_relation" => x.arg \in b.rel \ R
      /\ x.kind # "mark_superseded"
  BY <1>0 DEF Reasoned, Gone
<1>5. Reached(p, b, q, n, k, w)
  OBVIOUS
<1>6. \A r : /\ DidRelation(q, n, "create_relation", k, r) => r \in R \ b.rel
             /\ DidRelation(q, n, "remove_managed_relation", k, r) => r \in b.rel \ R
  <2>1. \A i \in 1..n : Reasoned(p, s, q[i])
    OBVIOUS
  <2> QED  BY <2>1 DEF DidRelation, Reasoned
<1> HIDE DEF v, w, b, k, R
<1>7. /\ v.hash \in {b.hash, managed_hash(p, k)}
      /\ Did(q, n + 1, "create_work_package", k) \/ Did(q, n + 1, "update_managed_fields", k) =>
            v.hash = managed_hash(p, k)
  BY <1>1, <1>2, <1>4, <1>5 DEF Reached, Rewritten
<1>8. /\ v.parent \in {b.parent, p.items[k].parent}
      /\ Did(q, n + 1, "set_parent", k) => v.parent = p.items[k].parent
  BY <1>1, <1>2, <1>4, <1>5 DEF Reached, Rewritten
<1>9. /\ v.rel \subseteq b.rel \union R /\ b.rel \intersect R \subseteq v.rel
      /\ \A r \in Relations :
            /\ DidRelation(q, n + 1, "create_relation", k, r) => r \in v.rel
            /\ DidRelation(q, n + 1, "remove_managed_relation", k, r) => r \notin v.rel
  <2>1. /\ w.rel \subseteq b.rel \union R /\ b.rel \intersect R \subseteq w.rel
        /\ \A r \in Relations :
              /\ DidRelation(q, n, "create_relation", k, r) => r \in w.rel
              /\ DidRelation(q, n, "remove_managed_relation", k, r) => r \notin w.rel
    BY <1>5 DEF Reached, R
  <2>2. CASE x.kind = "create_relation"
    <3>1. v.rel = w.rel \union {x.arg} /\ x.arg \in R /\ x.arg \notin b.rel
      BY <1>1, <1>4, <2>2 DEF Rewritten
    <3>2. ASSUME NEW r
          PROVE  /\ DidRelation(q, n + 1, "create_relation", k, r) <=>
                       DidRelation(q, n, "create_relation", k, r) \/ x.arg = r
                 /\ DidRelation(q, n + 1, "remove_managed_relation", k, r) <=>
                       DidRelation(q, n, "remove_managed_relation", k, r)
      BY <1>3, <2>2
    <3>3. v.rel \subseteq b.rel \union R /\ b.rel \intersect R \subseteq v.rel
      BY <2>1, <3>1
    <3>4. ASSUME NEW r \in Relations
          PROVE  /\ DidRelation(q, n + 1, "create_relation", k, r) => r \in v.rel
                 /\ DidRelation(q, n + 1, "remove_managed_relation", k, r) => r \notin v.rel
      <4>1. /\ DidRelation(q, n, "create_relation", k, r) => r \in w.rel
            /\ DidRelation(q, n, "remove_managed_relation", k, r) => r \notin w.rel
        BY <2>1
      <4>2. /\ DidRelation(q, n, "create_relation", k, r) => r \in R \ b.rel
            /\ DidRelation(q, n, "remove_managed_relation", k, r) => r \in b.rel \ R
        BY <1>6
      <4> QED  BY <3>1, <3>2, <4>1, <4>2
    <3> QED  BY <3>3, <3>4
  <2>3. CASE x.kind = "remove_managed_relation"
    <3>1. v.rel = w.rel \ {x.arg} /\ x.arg \in b.rel /\ x.arg \notin R
      BY <1>1, <1>4, <2>3 DEF Rewritten
    <3>2. ASSUME NEW r
          PROVE  /\ DidRelation(q, n + 1, "create_relation", k, r) <=>
                       DidRelation(q, n, "create_relation", k, r)
                 /\ DidRelation(q, n + 1, "remove_managed_relation", k, r) <=>
                       DidRelation(q, n, "remove_managed_relation", k, r) \/ x.arg = r
      BY <1>3, <2>3
    <3>3. v.rel \subseteq b.rel \union R /\ b.rel \intersect R \subseteq v.rel
      BY <2>1, <3>1
    <3>4. ASSUME NEW r \in Relations
          PROVE  /\ DidRelation(q, n + 1, "create_relation", k, r) => r \in v.rel
                 /\ DidRelation(q, n + 1, "remove_managed_relation", k, r) => r \notin v.rel
      <4>1. /\ DidRelation(q, n, "create_relation", k, r) => r \in w.rel
            /\ DidRelation(q, n, "remove_managed_relation", k, r) => r \notin w.rel
        BY <2>1
      <4>2. /\ DidRelation(q, n, "create_relation", k, r) => r \in R \ b.rel
            /\ DidRelation(q, n, "remove_managed_relation", k, r) => r \in b.rel \ R
        BY <1>6
      <4> QED  BY <3>1, <3>2, <4>1, <4>2
    <3> QED  BY <3>3, <3>4
  <2>4. CASE x.kind \notin {"create_relation", "remove_managed_relation"}
    BY <1>1, <1>3, <2>1, <2>4 DEF Rewritten
  <2> QED  BY <2>2, <2>3, <2>4
<1>10. ~b.superseded \/ Did(q, n + 1, "reactivate_work_package", k) => ~v.superseded
  BY <1>1, <1>2, <1>4, <1>5 DEF Reached, Rewritten
<1> QED  BY <1>7, <1>8, <1>9, <1>10 DEF Reached, R, v, b, k

\* An operation on a node that the plan does not have marks it.
LEMMA DroppedStep ==
    ASSUME NEW p, IsPlan(p), NEW s \in [Keys -> Packages], package \in [Keys -> Packages],
           NEW q, NEW n \in Nat, NEW x, x = q[n + 1], Reasoned(p, s, x),
           x.kind # "record_audit", _assert_current(x), x.key \notin Known(p),
           Dropped(s[x.key], q, n, x.key, package[x.key])
    PROVE  Dropped(s[x.key], q, n + 1, x.key, Written(x))
<1>1. x.kind = "mark_superseded" /\ x.key \in Gone(p, s)
  BY DEF Reasoned
<1>2. s[x.key] # Absent
  BY <1>1 DEF Gone, Present
<1>3. Written(x).superseded = TRUE
  BY <1>1, WrittenFacts DEF Rewritten
<1> QED  BY <1>2, <1>3 DEF Dropped

\* What is applied leaves the other nodes where they are.
LEMMA OtherNodes ==
    ASSUME NEW p, NEW b, NEW q, NEW n \in Nat, NEW k, NEW w, q[n + 1].key # k
    PROVE  /\ Reached(p, b, q, n, k, w) => Reached(p, b, q, n + 1, k, w)
           /\ Dropped(b, q, n, k, w) => Dropped(b, q, n + 1, k, w)
<1>1. \A kind : Did(q, n + 1, kind, k) <=> Did(q, n, kind, k)
  BY DidMore
<1>2. \A kind, r : DidRelation(q, n + 1, kind, k, r) <=> DidRelation(q, n, kind, k, r)
  BY DidMore
<1>3. ASSUME Reached(p, b, q, n, k, w)
      PROVE  Reached(p, b, q, n + 1, k, w)
  BY <1>1, <1>2, <1>3 DEF Reached
<1>4. ASSUME Dropped(b, q, n, k, w)
      PROVE  Dropped(b, q, n + 1, k, w)
  BY <1>1, <1>4 DEF Dropped
<1> QED  BY <1>3, <1>4

-----------------------------------------------------------------------------
(* The boundary of a replan.                                               *)

\* The plans of the instance are plans.
LEMMA GivenPlans ==
    /\ IsPlan(NoPlan) /\ NoPlan.version \in Nat
    /\ \A p \in Priors \union Proposals :
          /\ IsPlan(p) /\ p.version \in Nat
          /\ p = [version |-> p.version, replan |-> p.replan, items |-> p.items]
<1>1. Known(NoPlan) = {} /\ NoPlan.items \in [{} -> Items] /\ NoPlan.version = 0
  BY DEF Known, NoPlan
<1>2. IsPlan(NoPlan)
  BY <1>1 DEF IsPlan
<1> QED  BY <1>1, <1>2, DiffAssumption DEF IsPlan

\* What the boundary makes of a proposal is a plan.
LEMMA BoundaryTyped ==
    ASSUME NEW prior, IsPlan(prior), prior.version \in Nat,
           NEW proposed, IsPlan(proposed), NEW roots, NEW affected, NEW n \in Nat,
           proposed = [version |-> proposed.version, replan |-> proposed.replan,
                       items |-> proposed.items],
           NEW p, p = apply_replan_boundary(prior, [proposed EXCEPT !.version = n], roots, affected)
    PROVE  IsPlan(p)
<1> DEFINE kept == Known(prior) \ affected
           b == [k \in kept |-> effective_node_binding(prior, k)]
           q == [proposed EXCEPT !.version = n]
<1>1. q.version = n /\ q.items = proposed.items /\ Known(q) = Known(proposed)
  BY DEF Known
<1>2. /\ p.version = n /\ p.replan.bindings = b
      /\ p.items = [k \in kept \union Known(proposed) |->
                      IF k \in kept THEN prior.items[k] ELSE proposed.items[k]]
  BY <1>1 DEF apply_replan_boundary, build_replan_scope
<1>3. Known(p) = kept \union Known(proposed)
  BY <1>2 DEF Known
<1>4. /\ \A k \in Known(prior) : k \in Keys /\ prior.items[k] \in Items
                                /\ effective_node_binding(prior, k) \in Nat
      /\ \A k \in Known(proposed) : k \in Keys /\ proposed.items[k] \in Items
  BY DEF IsPlan
<1>5. Known(p) \subseteq Keys /\ p.items \in [Known(p) -> Items]
  BY <1>2, <1>3, <1>4
<1>6. ASSUME NEW k \in Known(p)
      PROVE  effective_node_binding(p, k) \in Nat
  <2>1. effective_node_binding(p, k) = p.version \/ (k \in DOMAIN b /\ effective_node_binding(p, k) = b[k])
    BY <1>2 DEF effective_node_binding
  <2> QED  BY <1>2, <1>4, <2>1
<1> QED  BY <1>5, <1>6 DEF IsPlan

Symmetric(p, k, t) ==
    <<"related_to", t>> \in p.items[k].rel \/ <<"related_to", k>> \in p.items[t].rel

\* A symmetric relation across the boundary is one of its edges.
LEMMA SymmetricEdges ==
    ASSUME NEW p, IsPlan(p), NEW P, NEW k \in Keys, NEW t \in Keys, k \in P, t \notin P
    PROVE  <<"related_to", {k, t}>> \in _cross_boundary_edges(p, P) <=>
              k \in Known(p) /\ t \in Known(p) /\ Symmetric(p, k, t)
<1> DEFINE e == <<"related_to", {k, t}>>
           crossing(a, c) == c \in Known(p) /\ ((a \in P) # (c \in P))
           ends(u) == IF u[1] = "related_to" THEN {u[2], u[3]} ELSE <<u[2], u[3]>>
           X == {<<"parent", <<z[1], z[2]>>>> : z \in {z \in ParentEdges(p) : crossing(z[1], z[2])}}
           Y == {<<u[1], ends(u)>> : u \in {u \in Uses(p) : crossing(u[2], u[3])}}
<1>1. _cross_boundary_edges(p, P) = X \union Y
  BY DEF _cross_boundary_edges
<1>2. e \notin X
  OBVIOUS
<1>3. \A a \in Known(p) : p.items[a].rel \subseteq Fields \X Keys
  BY DEF IsPlan, Items
<1>4. ASSUME e \in Y
      PROVE  k \in Known(p) /\ t \in Known(p) /\ Symmetric(p, k, t)
  <2>1. PICK u \in Uses(p) : crossing(u[2], u[3]) /\ e = <<u[1], ends(u)>>
    BY <1>4
  <2>2. /\ u[2] \in Known(p) /\ u[3] \in Known(p) /\ <<u[1], u[3]>> \in p.items[u[2]].rel
        /\ u[1] = "related_to" /\ ends(u) = {k, t}
    BY <2>1 DEF Uses
  <2>3. {u[2], u[3]} = {k, t}
    BY <2>2
  <2>4. (u[2] = k /\ u[3] = t) \/ (u[2] = t /\ u[3] = k)
    BY <2>1, <2>3
  <2> QED  BY <2>2, <2>4 DEF Symmetric
<1>5. ASSUME k \in Known(p), t \in Known(p), Symmetric(p, k, t)
      PROVE  e \in Y
  <2>1. CASE <<"related_to", t>> \in p.items[k].rel
    <3> DEFINE u == <<"related_to", k, t>>
    <3>1. "related_to" \in Fields
      BY <1>3, <1>5, <2>1
    <3>2. u \in Uses(p)
      BY <1>5, <2>1, <3>1 DEF Uses
    <3>3. crossing(u[2], u[3]) /\ e = <<u[1], ends(u)>>
      BY <1>5
    <3> QED  BY <3>2, <3>3
  <2>2. CASE <<"related_to", k>> \in p.items[t].rel
    <3> DEFINE u == <<"related_to", t, k>>
    <3>1. "related_to" \in Fields
      BY <1>3, <1>5, <2>2
    <3>2. u \in Uses(p)
      BY <1>5, <2>2, <3>1 DEF Uses
    <3>3. crossing(u[2], u[3]) /\ e = <<u[1], ends(u)>>
      BY <1>5
    <3> QED  BY <3>2, <3>3
  <2> QED  BY <1>5, <2>1, <2>2 DEF Symmetric
<1> QED  BY <1>1, <1>2, <1>4, <1>5

\* A replan asks of a protected node what its prior plan asked.
LEMMA ProtectedAsks ==
    ASSUME NEW prior, IsPlan(prior), NEW p, IsPlan(p), NEW roots, NEW affected,
           validate_replan_candidate(prior, p, roots, affected), p.replan # NoScope,
           NEW k \in Known(prior) \ affected
    PROVE  /\ k \in Known(p) /\ p.items[k] = prior.items[k]
           /\ managed_hash(p, k) = managed_hash(prior, k)
           /\ _relations(p, k) = _relations(prior, k)
<1> DEFINE P == Known(prior) \ affected
<1>1. /\ \A t \in P : t \in Known(p) /\ p.items[t] = prior.items[t]
      /\ p.replan = build_replan_scope(prior, roots, affected)
      /\ _cross_boundary_edges(prior, P) = _cross_boundary_edges(p, P)
  BY DEF validate_replan_candidate
<1>2. managed_hash(p, k) = managed_hash(prior, k)
  <2>1. k \in DOMAIN p.replan.bindings
        /\ p.replan.bindings[k] = effective_node_binding(prior, k)
    BY <1>1 DEF build_replan_scope
  <2>2. effective_node_binding(p, k) = effective_node_binding(prior, k)
    BY <2>1 DEF effective_node_binding
  <2> QED  BY <1>1, <2>2 DEF managed_hash
<1>3. k \in Keys /\ Known(p) \subseteq Keys /\ Known(prior) \subseteq Keys
  BY DEF IsPlan
<1>4. ASSUME NEW t \in Keys
      PROVE  t \in Known(p) /\ Symmetric(p, k, t) <=> t \in Known(prior) /\ Symmetric(prior, k, t)
  <2>1. CASE t \in P
    BY <1>1, <2>1 DEF Symmetric
  <2>2. CASE t \notin P
    <3>1. <<"related_to", {k, t}>> \in _cross_boundary_edges(p, P) <=>
              k \in Known(p) /\ t \in Known(p) /\ Symmetric(p, k, t)
      BY <1>3, <2>2, SymmetricEdges
    <3>2. <<"related_to", {k, t}>> \in _cross_boundary_edges(prior, P) <=>
              k \in Known(prior) /\ t \in Known(prior) /\ Symmetric(prior, k, t)
      BY <1>3, <2>2, SymmetricEdges
    <3> QED  BY <1>1, <3>1, <3>2
  <2> QED  BY <2>1, <2>2
<1>5. {t \in Known(p) : k < t /\ Symmetric(p, k, t)} =
      {t \in Known(prior) : k < t /\ Symmetric(prior, k, t)}
  BY <1>3, <1>4
<1>6. _relations(p, k) = _relations(prior, k)
  <2>1. \A q : _relations(q, k) =
            {<<Semantic(r[1]), r[2]>> : r \in {r \in q.items[k].rel : r[1] # "related_to"}}
            \union {<<"related_to", t>> : t \in {t \in Known(q) : k < t /\ Symmetric(q, k, t)}}
    BY DEF _relations, Symmetric
  <2>2. p.items[k].rel = prior.items[k].rel
    BY <1>1
  <2> QED  BY <1>5, <2>1, <2>2
<1> QED  BY <1>1, <1>2, <1>6

\* Over packages as the last publication left them, the operations of a replan
\* are about affected and new nodes.
LEMMA LocalReasons ==
    ASSUME NEW prior, IsPlan(prior), NEW p, IsPlan(p), NEW roots, NEW affected,
           validate_replan_candidate(prior, p, roots, affected), p.replan # NoScope,
           NEW s \in [Keys -> Packages],
           \A k \in Known(prior) :
               s[k] = Existing(managed_hash(prior, k), prior.items[k].parent,
                               _relations(prior, k), FALSE, k),
           NEW x, Reasoned(p, s, x), x.key # 0
    PROVE  x.key \in affected \/ x.key \notin Known(prior)
<1> DEFINE k == x.key
<1>1. SUFFICES ASSUME k \in Known(prior) \ affected
               PROVE  FALSE
  OBVIOUS
<1>2. /\ k \in Known(p) /\ p.items[k] = prior.items[k] /\ k \in Keys
      /\ managed_hash(p, k) = managed_hash(prior, k) /\ _relations(p, k) = _relations(prior, k)
  BY <1>1, ProtectedAsks DEF IsPlan
<1>3. /\ s[k].hash = managed_hash(p, k) /\ s[k].parent = p.items[k].parent
      /\ s[k].rel = _relations(p, k) /\ s[k].superseded = FALSE /\ s[k].id = k
  <2>1. s[k] = Existing(managed_hash(p, k), p.items[k].parent, _relations(p, k), FALSE, k)
    BY <1>1, <1>2
  <2> HIDE DEF k
  <2> QED  BY <2>1 DEF Existing
<1>4. k \in Present(s)
  <2>1. k # 0 /\ Absent.id = 0
    BY <1>2, PlanAssumption DEF Absent
  <2> QED  BY <1>2, <1>3, <2>1 DEF Present
<1>5. ~ParentChanged(s[k], p.items[k].parent)
  <2>1. p.items[k].parent # Unmanaged
    BY <1>2, PlanTyped
  <2> QED  BY <1>3, <2>1 DEF ParentChanged, parent_identity
<1>6. k \notin Gone(p, s)
  BY <1>2 DEF Gone
<1> HIDE DEF k
<1>7. Reasoned(p, s, x) /\ x.key = k /\ k # 0
  BY DEF k
<1> QED  BY <1>3, <1>4, <1>5, <1>6, <1>7 DEF Reasoned

-----------------------------------------------------------------------------
(* The steps.                                                              *)

\* The operations under way have their reasons.
LEMMA OpsReasoned ==
    ASSUME Typed, phase # "idle"
    PROVE  /\ ops \in Seq(Operations) /\ Len(ops) \in Nat
           /\ \A i \in 1..Len(ops) : Reasoned(plan, snapshot, ops[i])
<1>1. IsPlan(plan) /\ snapshot \in [Keys -> Packages] /\ ops = plan_diff(plan, snapshot)
  BY DEF Typed
<1>2. ops \in Seq(Operations) /\ \A x : Occurs(x, ops) => Reasoned(plan, snapshot, x)
  BY <1>1, DiffLists
<1>3. Len(ops) \in Nat /\ \A i \in 1..Len(ops) : Occurs(ops[i], ops)
  BY <1>2 DEF Occurs
<1> QED  BY <1>2, <1>3

\* What a publication leaves of a node has a package's type.
LEMMA ExistingTyped ==
    ASSUME NEW h \in Hashes, NEW q \in Parents, NEW R, R \subseteq Relations,
           NEW b \in BOOLEAN, NEW k \in Keys
    PROVE  Existing(h, q, R, b, k) \in Packages
BY PlanAssumption DEF Existing, Packages

\* So has what the published plan made of a node.
LEMMA ImageTyped ==
    ASSUME NEW p, IsPlan(p), NEW k \in Known(p)
    PROVE  Existing(managed_hash(p, k), p.items[k].parent, _relations(p, k), FALSE, k)
               \in Packages
<1>1. /\ k \in Keys /\ managed_hash(p, k) \in Hashes /\ p.items[k].parent \in Parents
      /\ _relations(p, k) \subseteq Relations
  BY PlanTyped DEF Parents
<1> QED  BY <1>1, ExistingTyped

\* And what an earlier version left of one.
LEMMA LeftTyped ==
    ASSUME IsPlan(base), NEW k \in Keys, NEW w \in Left(k)
    PROVE  w \in Packages
<1> DEFINE h == <<CHOOSE t \in Types : TRUE, 1>>
           Q == Known(base) \union {NoParent}
           S == {{}} \union {{r} : r \in {r \in {Semantic(f) : f \in Fields} \X Known(base) :
                                           r[1] = "related_to" => k < r[2]}}
<1>1. h \in Hashes
  BY PlanAssumption DEF Hashes
<1>2. \A p \in Q : p \in Parents
  BY DEF IsPlan, Parents
<1>3. \A R \in S : R \subseteq Relations
  BY PlanAssumption DEF IsPlan, Relations, Semantics
<1>4. Left(k) = UNION {{Existing(h, p, R, TRUE, k) : R \in S} : p \in Q}
  BY DEF Left
<1> HIDE DEF h, Q, S
<1>5. \E p \in Q : \E R \in S : w = Existing(h, p, R, TRUE, k)
  BY <1>4
<1> QED  BY <1>1, <1>2, <1>3, <1>5, ExistingTyped

\* It holds at first.
LEMMA InitDiff ==
    ASSUME Init
    PROVE  DiffInv
<1> DEFINE image == [k \in Known(base) |->
                        Existing(managed_hash(base, k), base.items[k].parent,
                                 _relations(base, k), FALSE, k)]
<1>1. /\ base \in Priors \union {NoPlan} /\ IsPlan(base)
      /\ plan = NoPlan /\ ops = <<>> /\ at = 0 /\ phase = "idle" /\ edits = 0
      /\ snapshot = [k \in Keys |-> Absent] /\ edited = {} /\ moved = {}
  BY GivenPlans DEF Init
<1>2. \A k \in Known(base) : k \in Keys /\ image[k] \in Packages
  BY <1>1, ImageTyped DEF IsPlan
<1> HIDE DEF image
<1>3. /\ package \in [Keys -> Packages]
      /\ \A k \in Known(base) : package[k] = image[k]
  <2>1. CASE package = [k \in Keys |-> IF k \in Known(base) THEN image[k] ELSE Absent]
    BY <1>2, <2>1, AbsentTyped
  <2>2. CASE \E g \in Keys \ Known(base) : \E w \in Left(g) :
                package = [k \in Keys |-> IF k \in Known(base) THEN image[k]
                                          ELSE IF k = g THEN w ELSE Absent]
    <3>1. PICK g \in Keys \ Known(base) : \E w \in Left(g) :
                package = [k \in Keys |-> IF k \in Known(base) THEN image[k]
                                          ELSE IF k = g THEN w ELSE Absent]
      BY <2>2
    <3>2. PICK w \in Left(g) :
                package = [k \in Keys |-> IF k \in Known(base) THEN image[k]
                                          ELSE IF k = g THEN w ELSE Absent]
      BY <3>1
    <3>3. w \in Packages
      BY <1>1, LeftTyped
    <3> QED  BY <1>2, <3>2, <3>3, AbsentTyped
  <2> QED  BY <2>1, <2>2 DEF Init, image
<1>4. Typed
  BY <1>1, <1>3, AbsentTyped DEF Typed
<1>5. AsPublished /\ ReplanIsLocal
  BY <1>1, <1>3 DEF AsPublished, ReplanIsLocal, image
<1> QED  BY <1>1, <1>4, <1>5 DEF DiffInv

\* The published plan is a plan.
LEMMA BaseTyped ==
    ASSUME Typed
    PROVE  IsPlan(base) /\ base.version \in Nat
BY GivenPlans DEF Typed

\* A publication begins with the packages as its snapshot shows them.
LEMMA PublishStep ==
    ASSUME DiffInv, NEW p, IsPlan(p), publish(p), ReplanIsLocal'
    PROVE  DiffInv'
<1>1. /\ phase = "idle" /\ phase' = "publishing" /\ plan' = p /\ ops' = plan_diff(p, package)
      /\ snapshot' = package /\ package' = package /\ at' = at /\ edits' = edits /\ base' = base
      /\ edited' = {} /\ moved' = {}
  BY DEF publish
<1>2. /\ Typed /\ at = 0 /\ package \in [Keys -> Packages]
  BY <1>1 DEF DiffInv, Typed
<1>3. Len(ops') \in Nat
  BY <1>1, <1>2, DiffLists
<1>4. Typed'
  BY <1>1, <1>2, <1>3 DEF Typed
<1>5. AsPublished'
  BY <1>1 DEF AsPublished
<1>6. ASSUME NEW k \in Keys
      PROVE  Progress(k)'
  <2>1. /\ \A q, kind, j : ~Did(q, 0, kind, j)
        /\ \A q, kind, j, r : ~DidRelation(q, 0, kind, j, r)
    <3>1. \A i : i \notin 1..0
      OBVIOUS
    <3> QED  BY <3>1 DEF Did, DidRelation
  <2>2. Reached(p, package[k], ops', 0, k, package[k])
    BY <2>1 DEF Reached
  <2>3. Dropped(package[k], ops', 0, k, package[k])
    BY <2>1 DEF Dropped
  <2> QED  BY <1>1, <1>2, <2>2, <2>3 DEF Progress
<1> QED  BY <1>4, <1>5, <1>6 DEF DiffInv

\* A first publication has no node outside any boundary.
LEMMA PublishFirstStep ==
    ASSUME DiffInv, NEW p \in Proposals, PublishFirst(p)
    PROVE  DiffInv'
<1>1. IsPlan(p)
  BY GivenPlans
<1>2. publish(p) /\ base' = base /\ base = NoPlan
  BY DEF PublishFirst, publish
<1>3. Known(base') = {}
  BY <1>2 DEF Known, NoPlan
<1>4. ReplanIsLocal'
  BY <1>3 DEF ReplanIsLocal
<1> QED  BY <1>1, <1>2, <1>4, PublishStep

\* The operations of a replan are about affected and new nodes.
LEMMA PublishReplanStep ==
    ASSUME DiffInv, NEW roots, NEW proposed \in Proposals, PublishReplan(roots, proposed)
    PROVE  DiffInv'
<1> DEFINE affected == _prior_descendant_keys(base, roots)
           p == apply_replan_boundary(base, [proposed EXCEPT !.version = base.version + 1],
                                      roots, affected)
<1>1. validate_replan_candidate(base, p, roots, affected) /\ publish(p)
  BY DEF PublishReplan
<1>2. /\ IsPlan(base) /\ base.version + 1 \in Nat /\ IsPlan(proposed)
      /\ proposed = [version |-> proposed.version, replan |-> proposed.replan,
                     items |-> proposed.items]
      /\ package \in [Keys -> Packages]
  BY GivenPlans, BaseTyped DEF DiffInv, Typed
<1>3. base.version \in Nat
  BY BaseTyped DEF DiffInv
<1>4. p.replan.affected = affected
  BY DEF apply_replan_boundary, build_replan_scope
<1> HIDE DEF affected
<1>5. IsPlan(p)
  BY <1>2, <1>3, BoundaryTyped
<1> HIDE DEF p
<1>6. /\ plan' = p /\ ops' = plan_diff(p, package) /\ edits' = edits /\ base' = base
      /\ phase = "idle"
  BY <1>1 DEF publish
<1>7. ASSUME p.replan # NoScope, edits = 0, NEW i \in 1..Len(ops'), ops'[i].key # 0
      PROVE  ops'[i].key \in affected \/ ops'[i].key \notin Known(base)
  <2>1. \A k \in Known(base) :
            package[k] = Existing(managed_hash(base, k), base.items[k].parent,
                                  _relations(base, k), FALSE, k)
    BY <1>6, <1>7 DEF DiffInv, AsPublished
  <2>2. Reasoned(p, package, ops'[i])
    <3>1. Occurs(ops'[i], ops')
      BY <1>7 DEF Occurs
    <3> QED  BY <1>2, <1>5, <1>6, <3>1, DiffLists
  <2> QED  BY <1>1, <1>2, <1>5, <1>7, <2>1, <2>2, LocalReasons
<1>8. ReplanIsLocal'
  BY <1>4, <1>6, <1>7 DEF ReplanIsLocal
<1> QED  BY <1>1, <1>5, <1>8, PublishStep

\* An applied operation brings its node on, and leaves the others.
LEMMA ApplyStep ==
    ASSUME DiffInv, apply
    PROVE  DiffInv'
<1> DEFINE x == ops[at + 1]
<1>1. /\ phase = "publishing" /\ at < Len(ops) /\ _assert_current(x)
      /\ package' = IF x.kind = "record_audit" THEN package
                    ELSE [package EXCEPT ![x.key] = Written(x)]
      /\ at' = at + 1
      /\ base' = base /\ plan' = plan /\ ops' = ops /\ phase' = phase /\ snapshot' = snapshot
      /\ edited' = edited /\ moved' = moved /\ edits' = edits
  BY DEF apply
<1>2. /\ Typed /\ package \in [Keys -> Packages] /\ snapshot \in [Keys -> Packages]
      /\ at \in Nat /\ IsPlan(plan)
      /\ \A k \in Keys \ edited : Progress(k)
  BY <1>1 DEF DiffInv, Typed
<1>3. Len(ops) \in Nat /\ \A i \in 1..Len(ops) : Reasoned(plan, snapshot, ops[i])
  BY <1>1, <1>2, OpsReasoned
<1>4. (\A i \in 1..at + 1 : Reasoned(plan, snapshot, ops[i])) /\ Reasoned(plan, snapshot, x)
  BY <1>1, <1>2, <1>3
<1>5. x.kind # "record_audit" =>
        x.key \in Keys /\ Written(x) \in Packages
  BY <1>1, <1>2, <1>4, WrittenFacts
<1>6. x.kind = "record_audit" => x.key = 0
  BY <1>4 DEF Reasoned
<1> HIDE DEF x
<1>7. package' \in [Keys -> Packages]
  BY <1>1, <1>2, <1>5
<1>8. Typed'
  BY <1>1, <1>2, <1>3, <1>7 DEF Typed
<1>9. AsPublished' /\ ReplanIsLocal'
  BY <1>1 DEF DiffInv, AsPublished, ReplanIsLocal
<1>10. ASSUME NEW k \in Keys \ edited
       PROVE  Progress(k)'
  <2>1. CASE x.kind # "record_audit" /\ x.key = k
    <3>1. package'[k] = Written(x)
      BY <1>1, <1>2, <2>1
    <3>2. Progress(k)
      BY <1>2, <1>10
    <3>3. CASE k \in Known(plan)
      <4>1. Reached(plan, snapshot[k], ops, at, k, package[k])
        BY <3>2, <3>3 DEF Progress
      <4>2. Reached(plan, snapshot[k], ops, at + 1, k, Written(x))
        BY <1>1, <1>2, <1>4, <2>1, <3>3, <4>1, ReachedStep DEF x
      <4> QED  BY <1>1, <3>1, <3>3, <4>2 DEF Progress
    <3>4. CASE k \notin Known(plan)
      <4>1. Dropped(snapshot[k], ops, at, k, package[k])
        BY <3>2, <3>4 DEF Progress
      <4>2. Dropped(snapshot[k], ops, at + 1, k, Written(x))
        BY <1>1, <1>2, <1>4, <2>1, <3>4, <4>1, DroppedStep DEF x
      <4> QED  BY <1>1, <3>1, <3>4, <4>2 DEF Progress
    <3> QED  BY <3>3, <3>4
  <2>2. CASE x.kind = "record_audit" \/ x.key # k
    <3>1. package'[k] = package[k]
      BY <1>1, <1>2, <2>2
    <3>2. k # 0
      BY PlanAssumption
    <3>3. ops[at + 1].key # k
      BY <1>6, <2>2, <3>2 DEF x
    <3>4. /\ Reached(plan, snapshot[k], ops, at, k, package[k]) =>
                Reached(plan, snapshot[k], ops, at + 1, k, package[k])
          /\ Dropped(snapshot[k], ops, at, k, package[k]) =>
                Dropped(snapshot[k], ops, at + 1, k, package[k])
      BY <1>2, <3>3, OtherNodes
    <3>5. Progress(k)
      BY <1>2, <1>10
    <3> QED  BY <1>1, <3>1, <3>4, <3>5 DEF Progress
  <2> QED  BY <2>1, <2>2
<1> QED  BY <1>1, <1>8, <1>9, <1>10 DEF DiffInv

\* Refusing and completing change the phase only.
LEMMA EndStep ==
    ASSUME DiffInv, Refuse \/ Complete
    PROVE  DiffInv'
<1>1. /\ phase = "publishing" /\ phase' \in {"blocked", "completed"}
      /\ phase' = "completed" => at = Len(ops)
      /\ base' = base /\ package' = package /\ plan' = plan /\ ops' = ops /\ at' = at
      /\ snapshot' = snapshot /\ edited' = edited /\ moved' = moved /\ edits' = edits
  BY DEF Refuse, Complete
<1>2. Typed'
  BY <1>1 DEF DiffInv, Typed
<1>3. AsPublished' /\ ReplanIsLocal'
  BY <1>1 DEF DiffInv, AsPublished, ReplanIsLocal
<1>4. \A k \in Keys \ edited : Progress(k)'
  BY <1>1 DEF DiffInv, Progress
<1> QED  BY <1>1, <1>2, <1>3, <1>4 DEF DiffInv

\* A person changes one package, which counts as edited from then on.
LEMMA PersonStep ==
    ASSUME DiffInv, NEW k \in Keys,
           \/ \E q \in {NoParent, Unmanaged} : Move(k, q)
           \/ \E r \in package[k].rel : Unrelate(k, r)
    PROVE  DiffInv'
<1>1. Typed /\ package \in [Keys -> Packages] /\ package[k] \in Packages /\ edits \in Nat
  BY DEF DiffInv, Typed
<1>2. PICK w \in Packages : package' = [package EXCEPT ![k] = w]
  <2>1. CASE \E q \in {NoParent, Unmanaged} : Move(k, q)
    <3>1. PICK q \in {NoParent, Unmanaged} : Move(k, q)
      BY <2>1
    <3>2. [package[k] EXCEPT !.parent = q] \in Packages
      BY <1>1 DEF Packages, Parents
    <3>3. package' = [package EXCEPT ![k] = [package[k] EXCEPT !.parent = q]]
      BY <1>1, <3>1 DEF Move
    <3> QED  BY <3>2, <3>3
  <2>2. CASE \E r \in package[k].rel : Unrelate(k, r)
    <3>1. PICK r \in package[k].rel : Unrelate(k, r)
      BY <2>2
    <3>2. [package[k] EXCEPT !.rel = package[k].rel \ {r}] \in Packages
      BY <1>1 DEF Packages
    <3>3. package' = [package EXCEPT ![k] = [package[k] EXCEPT !.rel = package[k].rel \ {r}]]
      BY <1>1, <3>1 DEF Unrelate
    <3> QED  BY <3>2, <3>3
  <2> QED  BY <2>1, <2>2
<1>3. /\ phase \in {"idle", "publishing"} /\ edits' = edits + 1 /\ edited' = edited \union {k}
      /\ moved' \subseteq moved \union {k}
      /\ base' = base /\ plan' = plan /\ ops' = ops /\ at' = at /\ phase' = phase
      /\ snapshot' = snapshot
  BY DEF Move, Unrelate
<1>4. Typed'
  <2>1. package' \in [Keys -> Packages]
    BY <1>1, <1>2
  <2> QED  BY <1>1, <1>3, <2>1 DEF Typed
<1>5. edits' # 0
  BY <1>1, <1>3
<1>6. AsPublished' /\ ReplanIsLocal'
  BY <1>5 DEF AsPublished, ReplanIsLocal
<1>7. ASSUME phase # "idle", NEW j \in Keys \ edited'
      PROVE  Progress(j)'
  <2>1. j \in Keys \ edited /\ package'[j] = package[j]
    BY <1>1, <1>2, <1>3
  <2>2. Progress(j)
    BY <1>7, <2>1 DEF DiffInv
  <2> QED  BY <1>3, <2>1, <2>2 DEF Progress
<1> QED  BY <1>3, <1>4, <1>6, <1>7 DEF DiffInv

\* Every step keeps the invariant.
LEMMA NextDiff ==
    ASSUME DiffInv, [Next]_vars
    PROVE  DiffInv'
<1>1. CASE \E p \in Proposals : PublishFirst(p)
  BY <1>1, PublishFirstStep
<1>2. CASE \E p \in Proposals : \E R \in SUBSET (Known(base) \intersect Known(p)) \ {{}} :
              PublishReplan(R, p)
  BY <1>2, PublishReplanStep
<1>3. CASE apply
  BY <1>3, ApplyStep
<1>4. CASE Refuse \/ Complete
  BY <1>4, EndStep
<1>5. CASE \E k \in Keys : \/ \E p \in {NoParent, Unmanaged} : Move(k, p)
                           \/ \E r \in package[k].rel : Unrelate(k, r)
  BY <1>5, PersonStep
<1>6. CASE UNCHANGED vars
  <2>1. (\A k \in Keys : Progress(k)' <=> Progress(k))
    BY <1>6 DEF vars, Progress
  <2>2. Typed' /\ AsPublished' /\ ReplanIsLocal'
    BY <1>6 DEF DiffInv, vars, Typed, AsPublished, ReplanIsLocal
  <2> QED  BY <1>6, <2>1, <2>2 DEF DiffInv, vars
<1> QED  BY <1>1, <1>2, <1>3, <1>4, <1>5, <1>6 DEF Next

\* Throughout a publication every package that nobody touched is on its way from the
\* snapshot to the plan, as far as the operations applied so far have brought it.
THEOREM DiffInvAlways == Spec => []DiffInv
<1>1. Init => DiffInv
  BY InitDiff
<1>2. DiffInv /\ [Next]_vars => DiffInv'
  BY NextDiff
<1> QED  BY <1>1, <1>2, PTL DEF Spec

-----------------------------------------------------------------------------
(* The theorems.                                                           *)

\* A replan's operations stay inside its boundary, over packages that nobody has
\* changed since the last publication (_check_replan_boundary).
THEOREM ReplanIsLocalAlways == Spec => []ReplanIsLocal
<1>1. DiffInv => ReplanIsLocal
  BY DEF DiffInv
<1> QED  BY <1>1, DiffInvAlways, PTL

\* What occurs among the operations has been done when all are.
LEMMA AllDone ==
    ASSUME NEW q
    PROVE  /\ \A kind, k : Has(q, kind, k) => Did(q, Len(q), kind, k)
           /\ \A kind, k, r : HasRelation(q, kind, k, r) => DidRelation(q, Len(q), kind, k, r)
BY Zenon DEF Has, HasRelation, Did, DidRelation, Occurs

\* A node of the plan that all operations have brought on is as the plan has it.
LEMMA ReachedEnd ==
    ASSUME NEW p, IsPlan(p), NEW b \in Packages, NEW w \in Packages, NEW q, NEW k \in Known(p),
           b = Absent => Did(q, Len(q), "create_work_package", k),
           b # Absent /\ b.superseded => Did(q, Len(q), "reactivate_work_package", k),
           b # Absent /\ b.hash # managed_hash(p, k) =>
               Did(q, Len(q), "update_managed_fields", k),
           ParentChanged(b, p.items[k].parent) => Did(q, Len(q), "set_parent", k),
           \A r \in _relations(p, k) \ b.rel : DidRelation(q, Len(q), "create_relation", k, r),
           \A r \in b.rel \ _relations(p, k) :
               DidRelation(q, Len(q), "remove_managed_relation", k, r),
           Reached(p, b, q, Len(q), k, w)
    PROVE  Shows(w) = Published(p, k)
<1>1. w.hash = managed_hash(p, k)
  BY DEF Reached
<1>2. w.parent = p.items[k].parent
  <2>1. CASE ParentChanged(b, p.items[k].parent)
    BY <2>1 DEF Reached
  <2>2. CASE ~ParentChanged(b, p.items[k].parent)
    <3>1. b.parent = p.items[k].parent
      BY <2>2 DEF ParentChanged, parent_identity, NoParent, Unmanaged
    <3> QED  BY <3>1 DEF Reached
  <2> QED  BY <2>1, <2>2
<1>3. w.rel = _relations(p, k)
  <2> DEFINE R == _relations(p, k)
  <2>1. R \subseteq Relations /\ b.rel \subseteq Relations /\ w.rel \subseteq Relations
    BY PlanTyped, PackageFields
  <2>2. /\ w.rel \subseteq b.rel \union R /\ b.rel \intersect R \subseteq w.rel
        /\ \A r \in Relations :
              /\ DidRelation(q, Len(q), "create_relation", k, r) => r \in w.rel
              /\ DidRelation(q, Len(q), "remove_managed_relation", k, r) => r \notin w.rel
    BY DEF Reached
  <2>3. \A r \in R \ b.rel : r \in w.rel
    BY <2>1, <2>2
  <2>4. \A r \in b.rel \ R : r \notin w.rel
    BY <2>1, <2>2
  <2> HIDE DEF R
  <2>5. w.rel = R
    BY <2>2, <2>3, <2>4
  <2> QED  BY <2>5 DEF R
<1>4. w.superseded = FALSE
  <2>1. Absent.superseded = FALSE
    BY DEF Absent
  <2>2. ~w.superseded /\ w.superseded \in BOOLEAN
    BY <2>1, PackageFields DEF Reached
  <2> QED  BY <2>2
<1> QED  BY <1>1, <1>2, <1>3, <1>4 DEF Shows, Published

\* The invariant makes a completed publication converge.
LEMMA InvConverges ==
    ASSUME DiffInv
    PROVE  Converges
<1> SUFFICES ASSUME phase = "completed", NEW k \in Keys \ edited
             PROVE  IF k \in Known(plan) THEN Shows(package[k]) = Published(plan, k)
                    ELSE package[k] = Absent \/ package[k].superseded
  BY DEF Converges
<1>1. /\ IsPlan(plan) /\ snapshot \in [Keys -> Packages] /\ package \in [Keys -> Packages]
      /\ ops = plan_diff(plan, snapshot) /\ at = Len(ops) /\ Progress(k)
  BY DEF DiffInv, Typed
<1>2. /\ \A kind, j : Has(ops, kind, j) => Did(ops, Len(ops), kind, j)
      /\ \A kind, j, r : HasRelation(ops, kind, j, r) => DidRelation(ops, Len(ops), kind, j, r)
  BY AllDone
<1>3. CASE k \in Known(plan)
  <2>1. /\ Serves(plan, snapshot, k, ops)
        /\ snapshot[k] = Absent => Has(ops, "create_work_package", k)
    BY <1>1, <1>3, DiffLists DEF Present
  <2>2. Reached(plan, snapshot[k], ops, Len(ops), k, package[k])
    BY <1>1, <1>3 DEF Progress
  <2>3. /\ snapshot[k] = Absent => Did(ops, Len(ops), "create_work_package", k)
        /\ snapshot[k] # Absent /\ snapshot[k].superseded =>
              Did(ops, Len(ops), "reactivate_work_package", k)
        /\ snapshot[k] # Absent /\ snapshot[k].hash # managed_hash(plan, k) =>
              Did(ops, Len(ops), "update_managed_fields", k)
        /\ ParentChanged(snapshot[k], plan.items[k].parent) =>
              Did(ops, Len(ops), "set_parent", k)
        /\ \A r \in _relations(plan, k) \ snapshot[k].rel :
              DidRelation(ops, Len(ops), "create_relation", k, r)
        /\ \A r \in snapshot[k].rel \ _relations(plan, k) :
              DidRelation(ops, Len(ops), "remove_managed_relation", k, r)
    BY <1>2, <2>1 DEF Serves
  <2>4. snapshot[k] \in Packages /\ package[k] \in Packages
    BY <1>1
  <2>5. Shows(package[k]) = Published(plan, k)
    BY <1>1, <1>3, <2>2, <2>3, <2>4, ReachedEnd
  <2> QED  BY <1>3, <2>5
<1>4. CASE k \notin Known(plan)
  <2>1. Dropped(snapshot[k], ops, Len(ops), k, package[k])
    BY <1>1, <1>4 DEF Progress
  <2>2. k \in Gone(plan, snapshot) => Did(ops, Len(ops), "mark_superseded", k)
    BY <1>1, <1>2, DiffLists
  <2>3. snapshot[k] = Absent \/ snapshot[k].superseded \/ k \in Gone(plan, snapshot)
    BY <1>4 DEF Gone, Present
  <2>4. package[k] = Absent \/ package[k].superseded
    BY <2>1, <2>2, <2>3 DEF Dropped
  <2> QED  BY <1>4, <2>4
<1> QED  BY <1>3, <1>4

\* A publication that completes has brought every node that nobody touched
\* meanwhile to the plan, and superseded what the plan no longer has (plan_diff).
THEOREM ConvergesAlways == Spec => []Converges
<1>1. DiffInv => Converges
  BY InvConverges
<1> QED  BY <1>1, DiffInvAlways, PTL

\* Over packages that are as the plan has them there is nothing to do.
LEMMA NothingLeft ==
    ASSUME NEW p, IsPlan(p), NEW s \in [Keys -> Packages],
           \A k \in Keys : IF k \in Known(p) THEN Shows(s[k]) = Published(p, k)
                           ELSE s[k] = Absent \/ s[k].superseded
    PROVE  plan_diff(p, s) = <<>>
<1> SUFFICES ASSUME plan_diff(p, s) # <<>>
             PROVE  FALSE
  OBVIOUS
<1>1. PICK x : Reasoned(p, s, x) /\ x.key # 0
  BY DiffLists
<1>2. CASE x.key \in Known(p)
  <2> DEFINE k == x.key
  <2>1. /\ k \in Keys /\ managed_hash(p, k) \in Types \X Nat
        /\ p.items[k].parent # Unmanaged
    BY <1>2, PlanTyped DEF managed_hash, IsPlan
  <2>2. /\ s[k].hash = managed_hash(p, k) /\ s[k].parent = p.items[k].parent
        /\ s[k].rel = _relations(p, k) /\ s[k].superseded = FALSE
    <3>1. Shows(s[k]) = Published(p, k)
      BY <1>2, <2>1
    <3> QED  BY <3>1 DEF Shows, Published
  <2>3. k \in Present(s)
    <3>1. Absent.hash = <<>> /\ <<>> \notin Types \X Nat
      BY DEF Absent
    <3> QED  BY <2>1, <2>2, <3>1 DEF Present
  <2>4. ~ParentChanged(s[k], p.items[k].parent)
    BY <2>1, <2>2 DEF ParentChanged, parent_identity
  <2>5. k \notin Gone(p, s)
    BY <1>2 DEF Gone
  <2>6. Reasoned(p, s, x) /\ x.key = k /\ k # 0
    BY <1>1
  <2> HIDE DEF k
  <2> QED  BY <2>2, <2>3, <2>4, <2>5, <2>6 DEF Reasoned
<1>3. CASE x.key \notin Known(p)
  <2>1. x.key \in Gone(p, s)
    BY <1>1, <1>3 DEF Reasoned
  <2> QED  BY <2>1 DEF Gone, Present
<1> QED  BY <1>2, <1>3

\* Publishing a plan again, after a publication that nobody disturbed, has nothing
\* to do: not even the audit is recorded (plan_diff).
THEOREM ReapplyIsEmptyAlways == Spec => []ReapplyIsEmpty
<1>1. DiffInv => ReapplyIsEmpty
  <2> SUFFICES ASSUME DiffInv, phase = "completed", edited = {}
               PROVE  plan_diff(plan, package) = <<>>
    BY DEF ReapplyIsEmpty
  <2>1. IsPlan(plan) /\ package \in [Keys -> Packages]
    BY DEF DiffInv, Typed
  <2>2. \A k \in Keys : IF k \in Known(plan) THEN Shows(package[k]) = Published(plan, k)
                        ELSE package[k] = Absent \/ package[k].superseded
    BY InvConverges DEF Converges
  <2> QED  BY <2>1, <2>2, NothingLeft
<1> QED  BY <1>1, DiffInvAlways, PTL

\* A step that moves a package and is nobody's change is a set_parent, and finds
\* the package under the parent that the snapshot shows.
LEMMA MovesFound ==
    ASSUME DiffInv, [Next]_vars, NEW k \in moved, package'[k].parent # package[k].parent,
           edits' = edits
    PROVE  package[k].parent = snapshot[k].parent
<1>1. /\ Typed /\ k \in Keys /\ package \in [Keys -> Packages] /\ edits \in Nat
      /\ snapshot \in [Keys -> Packages]
  BY DEF DiffInv, Typed
<1>2. package' # package
  OBVIOUS
<1>3. apply
  <2>1. ~(\E p \in Proposals : PublishFirst(p))
    BY <1>2 DEF PublishFirst, publish
  <2>2. ~(\E p \in Proposals : \E R \in SUBSET (Known(base) \intersect Known(p)) \ {{}} :
             PublishReplan(R, p))
    BY <1>2 DEF PublishReplan, publish
  <2>3. ~Refuse /\ ~Complete /\ ~UNCHANGED vars
    BY <1>2 DEF Refuse, Complete, vars
  <2>4. edits' # edits + 1
    BY <1>1
  <2>5. ~(\E j \in Keys : \/ \E p \in {NoParent, Unmanaged} : Move(j, p)
                          \/ \E r \in package[j].rel : Unrelate(j, r))
    BY <2>4 DEF Move, Unrelate
  <2> QED  BY <2>1, <2>2, <2>3, <2>5 DEF Next
<1> DEFINE x == ops[at + 1]
<1>4. /\ phase = "publishing" /\ at < Len(ops) /\ _assert_current(x)
      /\ package' = IF x.kind = "record_audit" THEN package
                    ELSE [package EXCEPT ![x.key] = Written(x)]
  BY <1>3 DEF apply
<1>5. IsPlan(plan) /\ Reasoned(plan, snapshot, x)
  <2>1. Len(ops) \in Nat /\ \A i \in 1..Len(ops) : Reasoned(plan, snapshot, ops[i])
    BY <1>1, <1>4, OpsReasoned
  <2>2. at \in Nat /\ IsPlan(plan)
    BY <1>1, <1>4 DEF Typed
  <2> QED  BY <1>4, <2>1, <2>2
<1> HIDE DEF x
<1>6. x.kind # "record_audit"
  BY <1>2, <1>4
<1>7. x.key \in Keys /\ Rewritten(x, package[x.key], Written(x))
  BY <1>1, <1>4, <1>5, <1>6, WrittenFacts
<1>8. x.key = k /\ x.kind = "set_parent"
  <2>1. x.key = k
    BY <1>1, <1>4, <1>6
  <2>2. package'[k] = Written(x)
    BY <1>1, <1>4, <1>6, <2>1
  <2> QED  BY <1>7, <2>1, <2>2 DEF Rewritten
<1>9. /\ x.expect.parent = parent_identity(snapshot[k])
      /\ x.expect.unmanaged <=> snapshot[k].parent = Unmanaged
  BY <1>5, <1>8 DEF Reasoned
<1>10. /\ parent_identity(package[k]) = x.expect.parent
       /\ (package[k].parent = Unmanaged) = x.expect.unmanaged
  BY <1>4, <1>8 DEF _assert_current
<1>11. package[k].parent = Unmanaged <=> snapshot[k].parent = Unmanaged
  BY <1>9, <1>10
<1>12. parent_identity(package[k]) = parent_identity(snapshot[k])
  BY <1>9, <1>10
<1> QED  BY <1>11, <1>12 DEF parent_identity

\* No operation moves a package that somebody moved since the snapshot, unless it
\* is back where the snapshot shows it (_topology_preconditions, _assert_current).
THEOREM MovesKeptAlways == Spec => MovesKept
<1>1. DiffInv /\ [Next]_vars =>
        [\A k \in moved : package'[k].parent # package[k].parent /\ edits' = edits
                          => package[k].parent = snapshot[k].parent]_vars
  BY MovesFound
<1> QED  BY <1>1, DiffInvAlways, PTL DEF Spec, MovesKept

-----------------------------------------------------------------------------
(* The order of the operations.                                            *)

Rank(kind) ==
    CASE kind = "create_work_package" -> 0
      [] kind = "reactivate_work_package" -> 1
      [] kind = "update_managed_fields" -> 2
      [] kind = "set_parent" -> 3
      [] kind = "create_relation" -> 4
      [] kind = "remove_managed_relation" -> 5
      [] OTHER -> 6

\* x may come before y: nodes are created first, the operations of one node come by
\* their rank, and the later of two relations expects the earlier one done.
Before(x, y) ==
    /\ y.kind = "create_work_package" => x.kind = "create_work_package"
    /\ x.key = y.key =>
          \/ Rank(x.kind) < Rank(y.kind)
          \/ /\ x.kind = "create_relation" /\ y.kind = "create_relation"
             /\ x.arg \in y.expect.rel /\ y.arg \notin x.expect.rel
          \/ /\ x.kind = "remove_managed_relation" /\ y.kind = "remove_managed_relation"
             /\ x.arg \notin y.expect.rel /\ y.arg \in x.expect.rel

Ordered(q) == \A i, j \in 1..Len(q) : i < j => Before(q[i], q[j])

\* What the operation x expects of its package, by the snapshot s and the plan p.
Expected(p, s, x) ==
    LET k == x.key
        w == s[k]
        e == x.expect
        R == _relations(p, k)
        q == p.items[k].parent
        virtual == IF ParentChanged(w, q) THEN q ELSE parent_identity(w)
    IN  /\ x.kind \in {"reactivate_work_package", "update_managed_fields", "mark_superseded"} =>
              w # Absent /\ e.hash = w.hash /\ e.parent = parent_identity(w) /\ e.rel = w.rel
        /\ x.kind = "set_parent" =>
              e.hash = managed_hash(p, k) /\ e.parent = parent_identity(w) /\ e.rel = w.rel
        /\ x.kind = "create_relation" =>
              /\ e.hash = managed_hash(p, k) /\ e.parent = virtual
              /\ w.rel \subseteq e.rel /\ e.rel \subseteq w.rel \union R /\ x.arg \notin e.rel
        /\ x.kind = "remove_managed_relation" =>
              /\ e.hash = managed_hash(p, k) /\ e.parent = virtual
              /\ R \subseteq e.rel /\ e.rel \subseteq w.rel \union R /\ x.arg \in e.rel
        /\ x.kind \notin {"create_work_package", "record_audit"} =>
              e.unmanaged = (w.parent = Unmanaged)

\* A lower rank comes first.
LEMMA RankedBefore ==
    ASSUME NEW x, NEW y, Rank(x.kind) < Rank(y.kind)
    PROVE  Before(x, y)
<1>1. y.kind # "create_work_package"
  BY DEF Rank
<1> QED  BY <1>1 DEF Before

\* Two sequences in order, one after the other.
LEMMA OrderedConcat ==
    ASSUME NEW S, NEW a \in Seq(S), NEW b \in Seq(S), Ordered(a), Ordered(b),
           \A x, y : Occurs(x, a) /\ Occurs(y, b) => Before(x, y)
    PROVE  Ordered(a \o b)
<1>1. /\ Len(a \o b) = Len(a) + Len(b) /\ Len(a) \in Nat /\ Len(b) \in Nat
      /\ \A i \in 1..Len(a) : (a \o b)[i] = a[i]
      /\ \A i \in 1..Len(a) + Len(b) : i > Len(a) => (a \o b)[i] = b[i - Len(a)]
  OBVIOUS
<1> DEFINE c == a \o b
<1> HIDE DEF c
<1>2. ASSUME NEW i \in 1..Len(c), NEW j \in 1..Len(c), i < j
      PROVE  Before(c[i], c[j])
  <2>1. CASE j <= Len(a)
    <3>1. i \in 1..Len(a) /\ j \in 1..Len(a) /\ c[i] = a[i] /\ c[j] = a[j]
      BY <1>1, <1>2, <2>1 DEF c
    <3> QED  BY <1>2, <3>1 DEF Ordered
  <2>2. CASE i > Len(a)
    <3>1. /\ i - Len(a) \in 1..Len(b) /\ j - Len(a) \in 1..Len(b)
          /\ i - Len(a) < j - Len(a) /\ c[i] = b[i - Len(a)] /\ c[j] = b[j - Len(a)]
      BY <1>1, <1>2, <2>2 DEF c
    <3> QED  BY <3>1 DEF Ordered
  <2>3. CASE i <= Len(a) /\ j > Len(a)
    <3>1. /\ i \in 1..Len(a) /\ j - Len(a) \in 1..Len(b)
          /\ c[i] = a[i] /\ c[j] = b[j - Len(a)]
      BY <1>1, <1>2, <2>3 DEF c
    <3>2. Occurs(c[i], a) /\ Occurs(c[j], b)
      BY <3>1 DEF Occurs
    <3> QED  BY <3>2
  <2> QED  BY <1>1, <1>2, <2>1, <2>2, <2>3 DEF c
<1> QED  BY <1>2 DEF Ordered, c

\* Sequences in order, flattened.
LEMMA OrderedFlatten ==
    ASSUME NEW S, NEW s \in Seq(Seq(S)), \A i \in 1..Len(s) : Ordered(s[i]),
           \A i, j \in 1..Len(s) : i < j =>
               \A x, y : Occurs(x, s[i]) /\ Occurs(y, s[j]) => Before(x, y)
    PROVE  Ordered(FlattenSeq(s))
<1> DEFINE n == Len(s)
<1>1. n \in Nat /\ \A i \in 1..n : s[i] \in Seq(S)
  OBVIOUS
<1>2. CASE n = 0
  <2>1. FlattenSeq(s) = s /\ s = <<>> /\ Len(s) = 0
    BY <1>2 DEF FlattenSeq
  <2>2. \A i : i \notin 1..0
    OBVIOUS
  <2> QED  BY <2>1, <2>2 DEF Ordered
<1>3. CASE n # 0
  <2>1. PICK g : Joins(s, n, g) /\ FlattenSeq(s) = g[n]
    BY <1>1, <1>3, FlattenJoins
  <2> DEFINE Good(k) == /\ g[k] \in Seq(S) /\ Ordered(g[k])
                        /\ \A x : Occurs(x, g[k]) => \E i \in 1..k : Occurs(x, s[i])
             Bad == {k \in 1..n : ~Good(k)}
  <2> HIDE DEF Good
  <2>2. Bad \subseteq Nat /\ \A k : k \in Bad <=> k \in 1..n /\ ~Good(k)
    BY <1>1
  <2>0. \A i, j \in 1..n : i < j =>
            \A x, y : Occurs(x, s[i]) /\ Occurs(y, s[j]) => Before(x, y)
    OBVIOUS
  <2>10. \A i \in 1..n : Ordered(s[i])
    OBVIOUS
  <2> HIDE DEF Bad, n
  <2>3. SUFFICES ASSUME Bad # {}
                 PROVE  FALSE
    <3>1. n \in 1..n
      BY <1>1, <1>3
    <3>2. Good(n)
      BY <2>2, <2>3, <3>1
    <3> QED  BY <2>1, <3>2 DEF Good
  <2>4. PICK m \in Bad : \A k \in Bad : m <= k
    BY <2>2, <2>3, LeastNumber
  <2>5. m \in 1..n /\ s[m] \in Seq(S) /\ ~Good(m) /\ Ordered(s[m])
    BY <1>1, <2>2, <2>10
  <2>6. CASE m = 1
    <3>1. g[m] = s[m]
      BY <2>1, <2>5, <2>6 DEF Joins
    <3>2. m \in 1..m
      BY <2>6
    <3>3. \A x : Occurs(x, g[m]) => \E i \in 1..m : Occurs(x, s[i])
      BY <3>1, <3>2
    <3>4. g[m] \in Seq(S) /\ Ordered(g[m])
      BY <2>5, <3>1
    <3> QED  BY <2>5, <3>3, <3>4, Zenon DEF Good
  <2>7. CASE m # 1
    <3>1. m - 1 \in 1..n /\ ~(m <= m - 1)
      BY <1>1, <2>5, <2>7
    <3>2. Good(m - 1)
      BY <2>2, <2>4, <3>1
    <3>3. g[m] = g[m - 1] \o s[m]
      BY <2>1, <2>5, <2>7 DEF Joins
    <3>4. /\ g[m - 1] \in Seq(S) /\ Ordered(g[m - 1])
          /\ \A x : Occurs(x, g[m - 1]) => \E i \in 1..m - 1 : Occurs(x, s[i])
      BY <3>2 DEF Good
    <3>5. /\ g[m] \in Seq(S)
          /\ \A x : Occurs(x, g[m]) <=> Occurs(x, g[m - 1]) \/ Occurs(x, s[m])
      BY <2>5, <3>3, <3>4, OccursInConcat
    <3>6. ASSUME NEW x, NEW y, Occurs(x, g[m - 1]), Occurs(y, s[m])
          PROVE  Before(x, y)
      <4>1. PICK i \in 1..m - 1 : Occurs(x, s[i])
        BY <3>4, <3>6
      <4>2. i \in 1..n /\ i < m
        BY <1>1, <2>5
      <4> QED  BY <2>0, <2>5, <3>6, <4>1, <4>2
    <3>7. Ordered(g[m])
      BY <2>5, <3>3, <3>4, <3>6, OrderedConcat
    <3>8. \A i : i \in 1..m <=> i \in 1..m - 1 \/ i = m
      BY <1>1, <2>5
    <3>9. \A x : Occurs(x, g[m]) => \E i \in 1..m : Occurs(x, s[i])
      BY <3>4, <3>5, <3>8
    <3> QED  BY <2>5, <3>5, <3>7, <3>9 DEF Good
  <2> QED  BY <2>6, <2>7
<1> QED  BY <1>2, <1>3

\* At most one operation is in order.
LEMMA OneOrdered ==
    ASSUME NEW c \in BOOLEAN, NEW op
    PROVE  Ordered(One(c, op))
<1>1. Len(One(c, op)) \in {0, 1}
  BY DEF One
<1>2. \A i, j \in 1..0 : ~(i < j)
  OBVIOUS
<1>3. \A i, j \in 1..1 : ~(i < j)
  OBVIOUS
<1>4. CASE Len(One(c, op)) = 0
  BY <1>2, <1>4 DEF Ordered
<1>5. CASE Len(One(c, op)) = 1
  BY <1>3, <1>5 DEF Ordered
<1> QED  BY <1>1, <1>4, <1>5

\* The operation x on one of the relations R expects some of the others done.
Stacked(kind, k, R, e, x) ==
    /\ x.kind = kind /\ x.key = k
    /\ x.expect.hash = e.hash /\ x.expect.parent = e.parent
    /\ x.expect.unmanaged = e.unmanaged
    /\ kind = "create_relation" =>
         /\ e.rel \subseteq x.expect.rel /\ x.expect.rel \subseteq e.rel \union R
         /\ x.arg \notin x.expect.rel
    /\ kind = "remove_managed_relation" =>
         /\ e.rel \ R \subseteq x.expect.rel /\ x.expect.rel \subseteq e.rel
         /\ x.arg \in x.expect.rel

\* The relations of one item come in an order in which each expects the ones before.
LEMMA RelationOpsFit ==
    ASSUME NEW kind, kind \in {"create_relation", "remove_managed_relation"}, NEW k \in Keys,
           NEW R, R \subseteq Relations, NEW e \in Expectations,
           kind = "create_relation" => R \intersect e.rel = {},
           kind = "remove_managed_relation" => R \subseteq e.rel
    PROVE  /\ Ordered(RelationOps(kind, k, R, e))
           /\ \A x : Occurs(x, RelationOps(kind, k, R, e)) => Stacked(kind, k, R, e, x)
<1> DEFINE s == SetToSeq(R)
           n == Cardinality(R)
           done(i) == {s[j] : j \in 1..i - 1}
           E(i) == [e EXCEPT !.rel = IF kind = "create_relation" THEN e.rel \union done(i)
                                                                ELSE e.rel \ done(i)]
           q == RelationOps(kind, k, R, e)
<1>1. /\ s \in [1..n -> R] /\ n \in Nat /\ Len(s) = n
      /\ \A i, j \in 1..n : s[i] = s[j] => i = j
  BY FiniteRelations, SetToSeqLists
<1>2. q = [i \in 1..n |-> Operation(kind, k, s[i], E(i))]
  BY <1>1 DEF RelationOps
<1>3. Len(q) = n
  BY <1>1, <1>2
<1> HIDE DEF n, q, s
<1>4. ASSUME NEW i \in 1..n
      PROVE  /\ q[i].kind = kind /\ q[i].key = k /\ q[i].arg = s[i]
             /\ q[i].expect.hash = e.hash /\ q[i].expect.parent = e.parent
             /\ q[i].expect.unmanaged = e.unmanaged
             /\ q[i].expect.rel = IF kind = "create_relation" THEN e.rel \union done(i)
                                                             ELSE e.rel \ done(i)
  <2> HIDE DEF done
  <2>1. E(i).hash = e.hash /\ E(i).parent = e.parent /\ E(i).unmanaged = e.unmanaged
        /\ E(i).rel = IF kind = "create_relation" THEN e.rel \union done(i) ELSE e.rel \ done(i)
    BY DEF Expectations
  <2> HIDE DEF E
  <2>2. q[i] = Operation(kind, k, s[i], E(i))
    BY <1>2
  <2>3. /\ q[i].kind = kind /\ q[i].key = k /\ q[i].arg = s[i] /\ q[i].expect = E(i)
    BY <2>2 DEF Operation
  <2> QED  BY <2>1, <2>3
<1>5. ASSUME NEW i \in 1..n, NEW j \in 1..n
      PROVE  s[i] \in R /\ (s[i] \in done(j) <=> i < j)
  <2>1. s[i] \in R
    BY <1>1
  <2>2. \A l \in 1..j - 1 : l \in 1..n /\ l < j
    BY <1>1
  <2>3. i < j => i \in 1..j - 1
    BY <1>1
  <2> QED  BY <1>1, <2>1, <2>2, <2>3
<1>6. ASSUME NEW i \in 1..n
      PROVE  done(i) \subseteq R
  <2>1. \A l \in 1..i - 1 : l \in 1..n
    BY <1>1
  <2> QED  BY <1>1, <2>1
<1> HIDE DEF done, E
<1>7. ASSUME NEW i \in 1..n, NEW j \in 1..n, i < j
      PROVE  Before(q[i], q[j])
  <2>1. s[i] \in R /\ s[j] \in R /\ s[i] \in done(j) /\ s[j] \notin done(i)
    BY <1>1, <1>5, <1>7
  <2>2. CASE kind = "create_relation"
    BY <1>4, <2>1, <2>2 DEF Before
  <2>3. CASE kind = "remove_managed_relation"
    BY <1>4, <2>1, <2>3 DEF Before
  <2> QED  BY <2>2, <2>3
<1>8. Ordered(q)
  BY <1>3, <1>7 DEF Ordered
<1>9. ASSUME NEW x, Occurs(x, q)
      PROVE  Stacked(kind, k, R, e, x)
  <2>1. PICK i \in 1..n : q[i] = x
    BY <1>3, <1>9 DEF Occurs
  <2>2. s[i] \in R /\ s[i] \notin done(i) /\ done(i) \subseteq R
    BY <1>1, <1>5, <1>6
  <2> QED  BY <1>4, <2>1, <2>2 DEF Stacked
<1> QED  BY <1>8, <1>9 DEF q

\* Operations of a higher rank, appended.
LEMMA RankedConcat ==
    ASSUME NEW S, NEW a \in Seq(S), NEW b \in Seq(S), Ordered(a), Ordered(b), NEW r \in Nat,
           \A x : Occurs(x, a) => Rank(x.kind) < r,
           \A y : Occurs(y, b) => Rank(y.kind) = r
    PROVE  /\ a \o b \in Seq(S) /\ Ordered(a \o b)
           /\ \A x : Occurs(x, a \o b) => Rank(x.kind) < r + 1
<1>1. \A x, y : Occurs(x, a) /\ Occurs(y, b) => Before(x, y)
  BY RankedBefore
<1>2. Ordered(a \o b)
  BY <1>1, OrderedConcat
<1>3. a \o b \in Seq(S) /\ \A x : Occurs(x, a \o b) <=> Occurs(x, a) \/ Occurs(x, b)
  BY OccursInConcat
<1>4. \A x : Rank(x.kind) \in Nat
  BY DEF Rank
<1> HIDE DEF Rank
<1>5. ASSUME NEW x, Occurs(x, a \o b)
      PROVE  Rank(x.kind) < r + 1
  <2>1. Rank(x.kind) \in Nat /\ (Rank(x.kind) < r \/ Rank(x.kind) = r)
    BY <1>3, <1>4, <1>5
  <2> QED  BY <2>1
<1> QED  BY <1>2, <1>3, <1>5

\* The operations of one item come by their rank and expect what the ones before leave.
LEMMA ItemOpsFit ==
    ASSUME NEW p, IsPlan(p), NEW s \in [Keys -> Packages], NEW k \in Known(p)
    PROVE  /\ Ordered(ItemOps(p, s, k))
           /\ \A x : Occurs(x, ItemOps(p, s, k)) =>
                x.key = k /\ x.kind # "create_work_package" /\ Expected(p, s, x)
<1> DEFINE w == s[k]
           after == managed_hash(p, k)
           parent == p.items[k].parent
           virtual == IF ParentChanged(w, parent) THEN parent ELSE parent_identity(w)
           wanted == _relations(p, k) \ w.rel
           unwanted == w.rel \ _relations(p, k)
           c1 == ~(w = Absent) /\ w.superseded
           c2 == ~(w = Absent) /\ w.hash # after
           o1 == Operation("reactivate_work_package", k, Nothing,
                           _existing_preconditions(w.hash, w))
           o2 == Operation("update_managed_fields", k, after, _existing_preconditions(w.hash, w))
           o3 == Operation("set_parent", k, parent, _existing_preconditions(after, w))
           e4 == Expect(after, w, virtual, w.rel)
           e5 == Expect(after, w, virtual, w.rel \union wanted)
           q4 == RelationOps("create_relation", k, wanted, e4)
           q5 == RelationOps("remove_managed_relation", k, unwanted, e5)
           q == ItemOps(p, s, k)
<1>1. q = One(c1, o1) \o One(c2, o2) \o One(ParentChanged(w, parent), o3) \o q4 \o q5
  BY DEF ItemOps
<1>2. /\ k \in Keys /\ w \in Packages /\ after \in Hashes /\ parent \in Parents
      /\ _relations(p, k) \subseteq Relations
      /\ w.hash \in Hashes /\ w.parent \in Parents /\ w.rel \subseteq Relations
      /\ parent_identity(w) \in Parents /\ w.superseded \in BOOLEAN
  BY PlanTyped, PackageFields DEF Parents
<1>3. /\ virtual \in Parents /\ wanted \subseteq Relations /\ unwanted \subseteq Relations
      /\ w.rel \union wanted \subseteq Relations
  BY <1>2
<1>4. /\ e4 \in Expectations /\ e4.hash = after /\ e4.parent = virtual /\ e4.rel = w.rel
      /\ e4.unmanaged = (w.parent = Unmanaged)
      /\ e5 \in Expectations /\ e5.hash = after /\ e5.parent = virtual
      /\ e5.rel = w.rel \union wanted /\ e5.unmanaged = (w.parent = Unmanaged)
      /\ _existing_preconditions(w.hash, w) \in Expectations
      /\ _existing_preconditions(after, w) \in Expectations
  <2> HIDE DEF w, after, virtual, wanted
  <2>1. /\ e4 \in Expectations /\ e5 \in Expectations
        /\ _existing_preconditions(w.hash, w) \in Expectations
        /\ _existing_preconditions(after, w) \in Expectations
    BY <1>2, <1>3, ExpectTyped
  <2>2. /\ e4.hash = after /\ e4.parent = virtual /\ e4.rel = w.rel
        /\ e4.unmanaged = (w.parent = Unmanaged)
    BY DEF Expect
  <2>3. /\ e5.hash = after /\ e5.parent = virtual /\ e5.rel = w.rel \union wanted
        /\ e5.unmanaged = (w.parent = Unmanaged)
    BY DEF Expect
  <2> QED  BY <2>1, <2>2, <2>3
<1>5. /\ o1.kind = "reactivate_work_package" /\ o1.key = k
      /\ o1.expect = _existing_preconditions(w.hash, w)
      /\ o2.kind = "update_managed_fields" /\ o2.key = k
      /\ o2.expect = _existing_preconditions(w.hash, w)
      /\ o3.kind = "set_parent" /\ o3.key = k /\ o3.expect = _existing_preconditions(after, w)
  <2> HIDE DEF w, after, parent
  <2> QED  BY DEF Operation
<1>6. o1 \in Operations /\ o2 \in Operations /\ o3 \in Operations
  <2>1. /\ {"reactivate_work_package", "update_managed_fields", "set_parent"} \subseteq Kinds
        /\ k \in Keys \union {0} /\ Nothing \in Arguments
        /\ after \in Arguments /\ parent \in Arguments
        /\ _existing_preconditions(w.hash, w) \in Preconditions
        /\ _existing_preconditions(after, w) \in Preconditions
    BY <1>2, <1>4 DEF Kinds, Arguments, Preconditions
  <2> HIDE DEF w, after, parent
  <2> QED  BY <2>1, OperationTyped
<1>7. /\ q4 \in Seq(Operations) /\ Ordered(q4)
      /\ \A x : Occurs(x, q4) =>
            /\ x.kind = "create_relation" /\ x.key = k
            /\ x.expect.hash = after /\ x.expect.parent = virtual
            /\ x.expect.unmanaged = (w.parent = Unmanaged)
            /\ w.rel \subseteq x.expect.rel /\ x.expect.rel \subseteq w.rel \union wanted
            /\ x.arg \notin x.expect.rel
  <2>1. wanted \intersect e4.rel = {}
    BY <1>4
  <2> HIDE DEF w, after, virtual, wanted
  <2> DEFINE kind == "create_relation"
  <2>2. /\ k \in Keys /\ wanted \subseteq Relations /\ e4 \in Expectations
        /\ kind \in {"create_relation", "remove_managed_relation"}
        /\ kind = "create_relation" => wanted \intersect e4.rel = {}
        /\ kind = "remove_managed_relation" => wanted \subseteq e4.rel
    BY <1>2, <1>3, <1>4, <2>1
  <2>3. /\ q4 = RelationOps(kind, k, wanted, e4) /\ kind = "create_relation"
    OBVIOUS
  <2> HIDE DEF kind, q4, e4
  <2>4. q4 \in Seq(Operations)
    BY <2>2, <2>3, RelationOpsOccur, Zenon
  <2>5. /\ Ordered(q4)
        /\ \A x : Occurs(x, q4) => Stacked(kind, k, wanted, e4, x)
    BY <2>2, <2>3, RelationOpsFit, Zenon
  <2> QED  BY <1>4, <2>3, <2>4, <2>5 DEF Stacked
<1>8. /\ q5 \in Seq(Operations) /\ Ordered(q5)
      /\ \A x : Occurs(x, q5) =>
            /\ x.kind = "remove_managed_relation" /\ x.key = k
            /\ x.expect.hash = after /\ x.expect.parent = virtual
            /\ x.expect.unmanaged = (w.parent = Unmanaged)
            /\ (w.rel \union wanted) \ unwanted \subseteq x.expect.rel
            /\ x.expect.rel \subseteq w.rel \union wanted /\ x.arg \in x.expect.rel
  <2>1. unwanted \subseteq e5.rel
    BY <1>4
  <2> HIDE DEF w, after, virtual, wanted, unwanted
  <2> DEFINE kind == "remove_managed_relation"
  <2>2. /\ k \in Keys /\ unwanted \subseteq Relations /\ e5 \in Expectations
        /\ kind \in {"create_relation", "remove_managed_relation"}
        /\ kind = "create_relation" => unwanted \intersect e5.rel = {}
        /\ kind = "remove_managed_relation" => unwanted \subseteq e5.rel
    BY <1>2, <1>3, <1>4, <2>1
  <2>3. /\ q5 = RelationOps(kind, k, unwanted, e5) /\ kind = "remove_managed_relation"
    OBVIOUS
  <2> HIDE DEF kind, q5, e5
  <2>4. q5 \in Seq(Operations)
    BY <2>2, <2>3, RelationOpsOccur, Zenon
  <2>5. /\ Ordered(q5)
        /\ \A x : Occurs(x, q5) => Stacked(kind, k, unwanted, e5, x)
    BY <2>2, <2>3, RelationOpsFit, Zenon
  <2> QED  BY <1>4, <2>3, <2>4, <2>5 DEF Stacked
<1>9. c1 \in BOOLEAN /\ c2 \in BOOLEAN /\ ParentChanged(w, parent) \in BOOLEAN
  BY <1>2 DEF ParentChanged
<1>10. /\ \A h : LET e == _existing_preconditions(h, w)
                 IN  /\ e.hash = h /\ e.parent = parent_identity(w) /\ e.rel = w.rel
                     /\ e.unmanaged = (w.parent = Unmanaged)
  <2> HIDE DEF w
  <2> QED  BY DEF _existing_preconditions, Expect
<1> HIDE DEF c1, c2, o1, o2, o3, q4, q5, q
<1> DEFINE q1 == One(c1, o1)
           q2 == One(c2, o2)
           q3 == One(ParentChanged(w, parent), o3)
<1>11. q1 \in Seq(Operations) /\ Ordered(q1) /\ \A x : Occurs(x, q1) <=> c1 /\ x = o1
  BY <1>6, <1>9, OneOccurs, OneOrdered
<1>12. q2 \in Seq(Operations) /\ Ordered(q2) /\ \A x : Occurs(x, q2) <=> c2 /\ x = o2
  BY <1>6, <1>9, OneOccurs, OneOrdered
<1>13. /\ q3 \in Seq(Operations) /\ Ordered(q3)
       /\ \A x : Occurs(x, q3) <=> ParentChanged(w, parent) /\ x = o3
  BY <1>6, <1>9, OneOccurs, OneOrdered
<1>14. q = q1 \o q2 \o q3 \o q4 \o q5
  BY <1>1
<1> HIDE DEF q1, q2, q3
<1>15. Ordered(q)
  <2>1. /\ \A x : Occurs(x, q1) => Rank(x.kind) < 2
        /\ \A x : Occurs(x, q2) => Rank(x.kind) = 2
        /\ \A x : Occurs(x, q3) => Rank(x.kind) = 3
        /\ \A x : Occurs(x, q4) => Rank(x.kind) = 4
        /\ \A x : Occurs(x, q5) => Rank(x.kind) = 5
    <3>1. \A x : Occurs(x, q1) => Rank(x.kind) < 2
      BY <1>5, <1>11 DEF Rank
    <3>2. \A x : Occurs(x, q2) => Rank(x.kind) = 2
      BY <1>5, <1>12 DEF Rank
    <3>3. \A x : Occurs(x, q3) => Rank(x.kind) = 3
      BY <1>5, <1>13 DEF Rank
    <3>4. \A x : Occurs(x, q4) => Rank(x.kind) = 4
      BY <1>7 DEF Rank
    <3>5. \A x : Occurs(x, q5) => Rank(x.kind) = 5
      BY <1>8 DEF Rank
    <3> QED  BY <3>1, <3>2, <3>3, <3>4, <3>5
  <2> DEFINE a2 == q1 \o q2
             a3 == a2 \o q3
             a4 == a3 \o q4
  <2>2. a2 \in Seq(Operations) /\ Ordered(a2) /\ \A x : Occurs(x, a2) => Rank(x.kind) < 2 + 1
    BY <1>11, <1>12, <2>1, RankedConcat
  <2> HIDE DEF a2
  <2>3. a3 \in Seq(Operations) /\ Ordered(a3) /\ \A x : Occurs(x, a3) => Rank(x.kind) < 3 + 1
    BY <1>13, <2>1, <2>2, RankedConcat
  <2> HIDE DEF a3
  <2>4. a4 \in Seq(Operations) /\ Ordered(a4) /\ \A x : Occurs(x, a4) => Rank(x.kind) < 4 + 1
    BY <1>7, <2>1, <2>3, RankedConcat
  <2> HIDE DEF a4
  <2>5. Ordered(a4 \o q5)
    BY <1>8, <2>1, <2>4, RankedConcat
  <2> QED  BY <1>14, <2>5 DEF a2, a3, a4
<1>16. \A x : Occurs(x, q) <=> Occurs(x, q1) \/ Occurs(x, q2) \/ Occurs(x, q3)
                               \/ Occurs(x, q4) \/ Occurs(x, q5)
  BY <1>7, <1>8, <1>11, <1>12, <1>13, <1>14, OccursInFive
<1>17. ASSUME NEW x, Occurs(x, q)
       PROVE  x.key = k /\ x.kind # "create_work_package" /\ Expected(p, s, x)
  <2>1. CASE Occurs(x, q1)
    <3>1. c1 /\ x = o1
      BY <1>11, <2>1
    <3> QED  BY <1>5, <1>10, <3>1 DEF Expected, c1
  <2>2. CASE Occurs(x, q2)
    <3>1. c2 /\ x = o2
      BY <1>12, <2>2
    <3> QED  BY <1>5, <1>10, <3>1 DEF Expected, c2
  <2>3. CASE Occurs(x, q3)
    <3>1. x = o3
      BY <1>13, <2>3
    <3> QED  BY <1>5, <1>10, <3>1 DEF Expected
  <2>4. CASE Occurs(x, q4)
    <3>1. w.rel \union wanted \subseteq w.rel \union _relations(p, k)
      OBVIOUS
    <3> QED  BY <1>7, <2>4, <3>1 DEF Expected
  <2>5. CASE Occurs(x, q5)
    <3>1. /\ (w.rel \union wanted) \ unwanted = _relations(p, k)
          /\ w.rel \union wanted \subseteq w.rel \union _relations(p, k)
      OBVIOUS
    <3> QED  BY <1>8, <2>5, <3>1 DEF Expected
  <2> QED  BY <1>16, <1>17, <2>1, <2>2, <2>3, <2>4, <2>5
<1> QED  BY <1>15, <1>17 DEF q

\* One operation of the same kind for each key of a set.
LEMMA MappedOrdered ==
    ASSUME NEW S, S \subseteq Keys, NEW q, NEW kind,
           q = [i \in DOMAIN InOrder(S) |-> q[i]],
           \A i \in DOMAIN InOrder(S) : q[i].key = InOrder(S)[i] /\ q[i].kind = kind
    PROVE  Ordered(q)
<1> DEFINE n == Cardinality(S)
<1>1. S \subseteq Nat /\ IsFiniteSet(S)
  BY PlanAssumption, FS_Subset
<1>2. /\ n \in Nat /\ InOrder(S) \in [1..n -> S]
      /\ \A i, j \in 1..n : InOrder(S)[i] = InOrder(S)[j] => i = j
  BY <1>1, InOrderEnumerates
<1> HIDE DEF n
<1>3. DOMAIN InOrder(S) = 1..n
  BY <1>2
<1>4. Len(q) = n
  BY <1>2, <1>3
<1>5. ASSUME NEW i \in 1..n, NEW j \in 1..n, i < j
      PROVE  Before(q[i], q[j])
  <2>1. q[i].key # q[j].key /\ q[i].kind = q[j].kind
    BY <1>2, <1>3, <1>5
  <2> QED  BY <2>1 DEF Before
<1> QED  BY <1>4, <1>5 DEF Ordered

\* The operations of plan_diff come in order, and expect what the ones before leave.
LEMMA DiffFits ==
    ASSUME NEW p, IsPlan(p), NEW s \in [Keys -> Packages]
    PROVE  /\ Ordered(plan_diff(p, s))
           /\ \A x : Occurs(x, plan_diff(p, s)) => Expected(p, s, x)
<1> DEFINE new == Known(p) \ Present(s)
           creates == InOrder(new)
           items == InOrder(Known(p))
           gone == InOrder(Gone(p, s))
           a == [i \in DOMAIN creates |->
                   Operation("create_work_package", creates[i], managed_hash(p, creates[i]),
                             Nothing)]
           f == [i \in DOMAIN items |-> ItemOps(p, s, items[i])]
           g == [i \in DOMAIN gone |->
                   Operation("mark_superseded", gone[i], Nothing,
                       _existing_preconditions(s[gone[i]].hash, s[gone[i]]))]
           all == a \o FlattenSeq(f) \o g
           audit == Operation("record_audit", 0, Nothing, Nothing)
           d == plan_diff(p, s)
<1>1. d = all \o One(all # <<>>, audit)
  BY DEF plan_diff
<1>2. /\ new \subseteq Keys /\ Known(p) \subseteq Keys /\ Gone(p, s) \subseteq Keys
      /\ \A k \in new : k \in Known(p)
      /\ \A k \in Gone(p, s) : k \notin Known(p) /\ s[k] # Absent
  BY DEF IsPlan, Gone, Present
<1>3. Nothing \in Arguments /\ Nothing \in Preconditions /\ 0 \notin Keys
  BY PlanAssumption DEF Arguments, Preconditions
<1>4. /\ a \in Seq(Operations) /\ Ordered(a)
      /\ \A x : Occurs(x, a) =>
            x.kind = "create_work_package" /\ x.key \in Known(p) /\ Expected(p, s, x)
  <2>1. ASSUME NEW i \in DOMAIN creates, creates[i] \in new
        PROVE  /\ a[i] \in Operations /\ a[i].kind = "create_work_package"
               /\ a[i].key = creates[i]
    <3>1. /\ a[i] = Operation("create_work_package", creates[i],
                              managed_hash(p, creates[i]), Nothing)
          /\ creates[i] \in Keys \union {0} /\ managed_hash(p, creates[i]) \in Arguments
          /\ "create_work_package" \in Kinds
      BY <1>2, <2>1, PlanTyped DEF Arguments, Kinds
    <3> HIDE DEF a, creates
    <3> QED  BY <1>3, <3>1 DEF Operation, Operations
  <2>2. \A i \in DOMAIN creates : creates[i] \in new
    BY <1>2, KeySets, InOrderLists
  <2>3. a = [i \in DOMAIN creates |-> a[i]] /\ \A i \in DOMAIN creates : a[i] \in Operations
    BY <2>1, <2>2
  <2> HIDE DEF a, new
  <2>4. /\ a \in Seq(Operations)
        /\ \A x : Occurs(x, a) => \E i \in DOMAIN creates : x = a[i] /\ creates[i] \in new
    BY <1>2, <2>3, MappedOccurs
  <2>5. Ordered(a)
    BY <1>2, <2>1, <2>2, <2>3, MappedOrdered
  <2> HIDE DEF creates
  <2>6. ASSUME NEW x, Occurs(x, a)
        PROVE  x.kind = "create_work_package" /\ x.key \in Known(p) /\ Expected(p, s, x)
    <3>1. x.kind = "create_work_package" /\ x.key \in Known(p)
      BY <1>2, <2>1, <2>4, <2>6
    <3> QED  BY <3>1 DEF Expected
  <2> QED  BY <2>4, <2>5, <2>6
<1>5. /\ FlattenSeq(f) \in Seq(Operations) /\ Ordered(FlattenSeq(f))
      /\ \A x : Occurs(x, FlattenSeq(f)) =>
            x.kind # "create_work_package" /\ x.key \in Known(p) /\ Expected(p, s, x)
  <2>1. /\ DOMAIN items = 1..Cardinality(Known(p)) /\ Cardinality(Known(p)) \in Nat
        /\ \A i \in DOMAIN items : items[i] \in Known(p)
        /\ \A i, j \in DOMAIN items : items[i] = items[j] => i = j
    <3>1. Known(p) \subseteq Nat /\ IsFiniteSet(Known(p))
      BY <1>2, KeySets
    <3> DEFINE n == Cardinality(Known(p))
    <3>2. n \in Nat /\ items \in [1..n -> Known(p)]
          /\ \A i, j \in 1..n : items[i] = items[j] => i = j
      BY <3>1, InOrderEnumerates
    <3> HIDE DEF n, items
    <3>3. DOMAIN items = 1..n
      BY <3>2
    <3>4. \A i \in DOMAIN items : items[i] \in Known(p)
      BY <3>2
    <3> QED  BY <3>2, <3>3, <3>4 DEF n
  <2> HIDE DEF items
  <2>2. ASSUME NEW i \in DOMAIN items
        PROVE  /\ f[i] \in Seq(Operations) /\ Ordered(f[i])
               /\ \A x : Occurs(x, f[i]) => x.key = items[i]
               /\ \A x : Occurs(x, f[i]) => x.kind # "create_work_package" /\ Expected(p, s, x)
    <3>1. f[i] = ItemOps(p, s, items[i]) /\ items[i] \in Known(p)
      BY <2>1
    <3> HIDE DEF f
    <3>2. f[i] \in Seq(Operations)
      BY <3>1, ItemOpsOccur
    <3>3. Ordered(f[i])
      BY <3>1, ItemOpsFit
    <3>4. \A x : Occurs(x, f[i]) =>
              x.key = items[i] /\ x.kind # "create_work_package" /\ Expected(p, s, x)
      BY <3>1, ItemOpsFit
    <3> QED  BY <3>2, <3>3, <3>4
  <2>3. DOMAIN f = DOMAIN items /\ f = [i \in DOMAIN items |-> f[i]]
    OBVIOUS
  <2> HIDE DEF f
  <2>4. f \in Seq(Seq(Operations)) /\ Len(f) = Cardinality(Known(p)) /\ DOMAIN items = 1..Len(f)
    BY <2>1, <2>2, <2>3
  <2>5. /\ FlattenSeq(f) \in Seq(Operations)
        /\ \A x : Occurs(x, FlattenSeq(f)) <=> \E i \in 1..Len(f) : Occurs(x, f[i])
    BY <2>4, FlattenOccurs
  <2>6. ASSUME NEW i \in 1..Len(f), NEW j \in 1..Len(f), i < j,
               NEW x, NEW y, Occurs(x, f[i]), Occurs(y, f[j])
        PROVE  Before(x, y)
    <3>0. i \in DOMAIN items /\ j \in DOMAIN items /\ i # j
      BY <2>1, <2>4, <2>6
    <3>2. x.key = items[i] /\ y.key = items[j] /\ y.kind # "create_work_package"
      BY <2>2, <2>6, <3>0
    <3>1. x.key # y.key /\ y.kind # "create_work_package"
      BY <2>1, <3>0, <3>2
    <3> QED  BY <3>1 DEF Before
  <2>7. Ordered(FlattenSeq(f))
    <3>1. \A i \in 1..Len(f) : Ordered(f[i])
      BY <2>2, <2>4
    <3> QED  BY <2>4, <2>6, <3>1, OrderedFlatten
  <2>8. ASSUME NEW x, Occurs(x, FlattenSeq(f))
        PROVE  x.kind # "create_work_package" /\ x.key \in Known(p) /\ Expected(p, s, x)
    BY <2>1, <2>2, <2>4, <2>5, <2>8
  <2> QED  BY <2>5, <2>7, <2>8
<1>6. /\ g \in Seq(Operations) /\ Ordered(g)
      /\ \A x : Occurs(x, g) =>
            x.kind = "mark_superseded" /\ x.key \in Keys \ Known(p) /\ Expected(p, s, x)
  <2>1. ASSUME NEW i \in DOMAIN gone, gone[i] \in Gone(p, s)
        PROVE  /\ g[i] \in Operations /\ g[i].kind = "mark_superseded" /\ g[i].key = gone[i]
               /\ g[i].expect = _existing_preconditions(s[gone[i]].hash, s[gone[i]])
    <3> DEFINE e == _existing_preconditions(s[gone[i]].hash, s[gone[i]])
    <3>1. gone[i] \in Keys /\ s[gone[i]] \in Packages
      BY <1>2, <2>1
    <3>2. e \in Preconditions
      <4>1. /\ s[gone[i]].hash \in Hashes /\ s[gone[i]].parent \in Parents
            /\ s[gone[i]].rel \subseteq Relations
        BY <3>1, PackageFields
      <4> QED  BY <3>1, <4>1, ExpectTyped DEF Preconditions
    <3>3. /\ g[i] = Operation("mark_superseded", gone[i], Nothing, e)
          /\ gone[i] \in Keys \union {0} /\ "mark_superseded" \in Kinds
      BY <2>1, <3>1 DEF Kinds
    <3> HIDE DEF g, gone, e
    <3>4. g[i] \in Operations /\ g[i].kind = "mark_superseded" /\ g[i].key = gone[i]
          /\ g[i].expect = e
      BY <1>3, <3>2, <3>3 DEF Operation, Operations
    <3> QED  BY <3>4 DEF e
  <2>2. \A i \in DOMAIN gone : gone[i] \in Gone(p, s)
    BY <1>2, KeySets, InOrderLists
  <2>3. g = [i \in DOMAIN gone |-> g[i]] /\ \A i \in DOMAIN gone : g[i] \in Operations
    BY <2>1, <2>2
  <2> HIDE DEF g
  <2>4. /\ g \in Seq(Operations)
        /\ \A x : Occurs(x, g) => \E i \in DOMAIN gone : x = g[i] /\ gone[i] \in Gone(p, s)
    BY <1>2, <2>3, MappedOccurs
  <2>5. Ordered(g)
    <3>1. \A i \in DOMAIN gone : g[i].key = gone[i] /\ g[i].kind = "mark_superseded"
      BY <2>1, <2>2
    <3> QED  BY <1>2, <2>3, <3>1, MappedOrdered
  <2> HIDE DEF gone
  <2>6. ASSUME NEW x, Occurs(x, g)
        PROVE  x.kind = "mark_superseded" /\ x.key \in Keys \ Known(p) /\ Expected(p, s, x)
    <3>1. PICK i \in DOMAIN gone : x = g[i] /\ gone[i] \in Gone(p, s)
      BY <2>4, <2>6
    <3> DEFINE k == gone[i]
    <3>2. /\ x.kind = "mark_superseded" /\ x.key = k /\ k \in Keys /\ k \notin Known(p)
          /\ s[k] # Absent /\ x.expect = _existing_preconditions(s[k].hash, s[k])
      BY <1>2, <2>1, <3>1
    <3> HIDE DEF k
    <3>3. /\ x.expect.hash = s[k].hash /\ x.expect.parent = parent_identity(s[k])
          /\ x.expect.rel = s[k].rel /\ x.expect.unmanaged = (s[k].parent = Unmanaged)
      <4> DEFINE w == s[k]
                 e == _existing_preconditions(w.hash, w)
      <4> HIDE DEF w
      <4>1. /\ e.hash = w.hash /\ e.parent = parent_identity(w) /\ e.rel = w.rel
            /\ e.unmanaged = (w.parent = Unmanaged)
        BY DEF _existing_preconditions, Expect
      <4>2. x.expect = e
        BY <3>2 DEF w
      <4> HIDE DEF e
      <4> QED  BY <4>1, <4>2 DEF w
    <3>4. Expected(p, s, x)
      BY <3>2, <3>3 DEF Expected
    <3> QED  BY <3>2, <3>4
  <2> QED  BY <2>4, <2>5, <2>6
<1> HIDE DEF a, f, g
<1>7. /\ all \in Seq(Operations) /\ Ordered(all)
      /\ \A x : Occurs(x, all) => x.key # 0 /\ Expected(p, s, x)
  <2> DEFINE F == FlattenSeq(f)
             af == a \o F
  <2> HIDE DEF F
  <2>1. \A x, y : Occurs(x, a) /\ Occurs(y, F) => Before(x, y)
    <3>1. \A x, y : x.kind = "create_work_package" /\ y.kind # "create_work_package" =>
             Rank(x.kind) < Rank(y.kind)
      BY DEF Rank
    <3> QED  BY <1>4, <1>5, <3>1, RankedBefore DEF F
  <2>2. Ordered(af)
    BY <1>4, <1>5, <2>1, OrderedConcat DEF F
  <2>3. af \in Seq(Operations) /\ \A x : Occurs(x, af) <=> Occurs(x, a) \/ Occurs(x, F)
    BY <1>4, <1>5, OccursInConcat DEF F
  <2> HIDE DEF af
  <2>4. \A x : Occurs(x, af) => x.key \in Known(p) /\ Expected(p, s, x)
    BY <1>4, <1>5, <2>3 DEF F
  <2>5. \A x, y : Occurs(x, af) /\ Occurs(y, g) => Before(x, y)
    BY <1>6, <2>4 DEF Before
  <2>6. Ordered(af \o g)
    BY <1>6, <2>2, <2>3, <2>5, OrderedConcat
  <2>7. af \o g \in Seq(Operations) /\ \A x : Occurs(x, af \o g) <=> Occurs(x, af) \/ Occurs(x, g)
    BY <1>6, <2>3, OccursInConcat
  <2>8. \A x : Occurs(x, af \o g) => x.key # 0 /\ Expected(p, s, x)
    BY <1>2, <1>3, <1>6, <2>4, <2>7
  <2>9. all = af \o g
    BY DEF F, af
  <2> QED  BY <2>6, <2>7, <2>8, <2>9
<1> HIDE DEF all
<1>8. audit \in Operations /\ audit.kind = "record_audit" /\ audit.key = 0 /\ Expected(p, s, audit)
  <2>1. "record_audit" \in Kinds
    BY DEF Kinds
  <2>2. audit \in Operations /\ audit.kind = "record_audit" /\ audit.key = 0
    BY <1>3, <2>1 DEF Operation, Operations
  <2> HIDE DEF audit
  <2> QED  BY <2>2 DEF Expected
<1> HIDE DEF audit
<1> DEFINE c == all # <<>>
           o == One(c, audit)
<1>9. c \in BOOLEAN
  OBVIOUS
<1>10. d = all \o o
  BY <1>1
<1> HIDE DEF c, d
<1>11. o \in Seq(Operations) /\ Ordered(o) /\ \A x : Occurs(x, o) => x = audit
  BY <1>8, <1>9, OneOccurs, OneOrdered
<1> HIDE DEF o
<1>12. \A x, y : Occurs(x, all) /\ Occurs(y, o) => Before(x, y)
  BY <1>7, <1>8, <1>11 DEF Before
<1>13. Ordered(d)
  BY <1>7, <1>10, <1>11, <1>12, OrderedConcat
<1>14. \A x : Occurs(x, d) <=> Occurs(x, all) \/ Occurs(x, o)
  BY <1>7, <1>10, <1>11, OccursInConcat
<1>15. \A x : Occurs(x, d) => Expected(p, s, x)
  BY <1>7, <1>8, <1>11, <1>14
<1> QED  BY <1>13, <1>15 DEF d

-----------------------------------------------------------------------------
(* What the operations have made of a package, exactly.                    *)

\* What the first n operations of q have made of the package w of a node, which the
\* snapshot shows as b.
Exact(p, b, q, n, k, w) ==
    /\ (\A i \in 1..n : q[i].key # k) => w = b
    /\ k \in Known(p) =>
         /\ w.hash = IF Did(q, n, "create_work_package", k)
                        \/ Did(q, n, "update_managed_fields", k)
                     THEN managed_hash(p, k) ELSE b.hash
         /\ w.parent = IF Did(q, n, "set_parent", k) THEN p.items[k].parent ELSE b.parent
         /\ \A r \in Relations :
               r \in w.rel <=> /\ r \in b.rel \/ DidRelation(q, n, "create_relation", k, r)
                               /\ ~DidRelation(q, n, "remove_managed_relation", k, r)

\* A package that is there has a managed hash, and its relations lead to packages.
Sound(s) ==
    \A k \in Keys : /\ s[k] # Absent => s[k].hash # <<>>
                    /\ \A r \in s[k].rel : s[r[2]] # Absent

FitInv ==
    /\ phase = "idle" => Sound(package)
    /\ phase # "idle" =>
         /\ validate_plan(plan) /\ Sound(snapshot)
         /\ \A k \in Keys \ edited : Exact(plan, snapshot[k], ops, at, k, package[k])
    /\ OperationsFit

\* Before the first operation a package is the snapshot's.
LEMMA ExactFirst ==
    ASSUME NEW p, NEW b, NEW q, NEW k
    PROVE  Exact(p, b, q, 0, k, b)
<1>1. \A i : i \notin 1..0
  OBVIOUS
<1>2. \A kind : ~Did(q, 0, kind, k)
  BY <1>1 DEF Did
<1>3. \A kind, r : ~DidRelation(q, 0, kind, k, r)
  BY <1>1 DEF DidRelation
<1> QED  BY <1>2, <1>3 DEF Exact

\* The operations on a node change it by their own part.
LEMMA ExactStep ==
    ASSUME NEW p, IsPlan(p), NEW s \in [Keys -> Packages], package \in [Keys -> Packages],
           NEW q, NEW n \in Nat, \A i \in 1..n + 1 : Reasoned(p, s, q[i]),
           NEW x, x = q[n + 1], x.kind # "record_audit", _assert_current(x),
           Exact(p, s[x.key], q, n, x.key, package[x.key])
    PROVE  Exact(p, s[x.key], q, n + 1, x.key, Written(x))
<1> DEFINE k == x.key
           b == s[k]
           w == package[k]
           v == Written(x)
           R == _relations(p, k)
<1>0. n + 1 \in 1..n + 1 /\ Reasoned(p, s, x)
  OBVIOUS
<1>1. Rewritten(x, w, v)
  BY <1>0, WrittenFacts
<1>2. \A kind : Did(q, n + 1, kind, k) <=> Did(q, n, kind, k) \/ x.kind = kind
  BY DidMore
<1>3. \A kind, r : DidRelation(q, n + 1, kind, k, r) <=>
                       DidRelation(q, n, kind, k, r) \/ (x.kind = kind /\ x.arg = r)
  BY DidMore
<1>4. k \in Known(p) =>
      /\ x.kind \in {"create_work_package", "update_managed_fields"} =>
             x.arg = managed_hash(p, k)
      /\ x.kind = "set_parent" => x.arg = p.items[k].parent
      /\ x.kind = "create_relation" => x.arg \in R \ b.rel
      /\ x.kind = "remove_managed_relation" => x.arg \in b.rel \ R
  BY <1>0 DEF Reasoned
<1>5. Exact(p, b, q, n, k, w)
  OBVIOUS
<1>6. \A r : /\ DidRelation(q, n, "create_relation", k, r) => r \in R \ b.rel
             /\ DidRelation(q, n, "remove_managed_relation", k, r) => r \in b.rel \ R
  <2>1. \A i \in 1..n : Reasoned(p, s, q[i])
    OBVIOUS
  <2> QED  BY <2>1 DEF DidRelation, Reasoned
<1>7. ~\A i \in 1..n + 1 : q[i].key # k
  BY <1>0
<1> HIDE DEF v, w, b, k, R
<1>8. ASSUME k \in Known(p)
      PROVE  /\ v.hash = IF Did(q, n + 1, "create_work_package", k)
                            \/ Did(q, n + 1, "update_managed_fields", k)
                         THEN managed_hash(p, k) ELSE b.hash
             /\ v.parent = IF Did(q, n + 1, "set_parent", k) THEN p.items[k].parent
                           ELSE b.parent
             /\ \A r \in Relations :
                  r \in v.rel <=>
                     /\ r \in b.rel \/ DidRelation(q, n + 1, "create_relation", k, r)
                     /\ ~DidRelation(q, n + 1, "remove_managed_relation", k, r)
  <2>1. /\ w.hash = IF Did(q, n, "create_work_package", k)
                       \/ Did(q, n, "update_managed_fields", k)
                    THEN managed_hash(p, k) ELSE b.hash
        /\ w.parent = IF Did(q, n, "set_parent", k) THEN p.items[k].parent ELSE b.parent
        /\ \A r \in Relations :
              r \in w.rel <=> /\ r \in b.rel \/ DidRelation(q, n, "create_relation", k, r)
                              /\ ~DidRelation(q, n, "remove_managed_relation", k, r)
    BY <1>5, <1>8 DEF Exact
  <2>2. v.hash = IF Did(q, n + 1, "create_work_package", k)
                    \/ Did(q, n + 1, "update_managed_fields", k)
                 THEN managed_hash(p, k) ELSE b.hash
    BY <1>1, <1>2, <1>4, <1>8, <2>1 DEF Rewritten
  <2>3. v.parent = IF Did(q, n + 1, "set_parent", k) THEN p.items[k].parent ELSE b.parent
    BY <1>1, <1>2, <1>4, <1>8, <2>1 DEF Rewritten
  <2>4. ASSUME NEW r \in Relations
        PROVE  r \in v.rel <=>
                     /\ r \in b.rel \/ DidRelation(q, n + 1, "create_relation", k, r)
                     /\ ~DidRelation(q, n + 1, "remove_managed_relation", k, r)
    <3>1. r \in w.rel <=> /\ r \in b.rel \/ DidRelation(q, n, "create_relation", k, r)
                          /\ ~DidRelation(q, n, "remove_managed_relation", k, r)
      BY <2>1
    <3>2. /\ DidRelation(q, n, "create_relation", k, r) => r \in R \ b.rel
          /\ DidRelation(q, n, "remove_managed_relation", k, r) => r \in b.rel \ R
      BY <1>6
    <3>3. CASE x.kind = "create_relation"
      <4>1. v.rel = w.rel \union {x.arg} /\ x.arg \in R /\ x.arg \notin b.rel
        BY <1>1, <1>4, <1>8, <3>3 DEF Rewritten
      <4>2. /\ DidRelation(q, n + 1, "create_relation", k, r) <=>
                  DidRelation(q, n, "create_relation", k, r) \/ x.arg = r
            /\ DidRelation(q, n + 1, "remove_managed_relation", k, r) <=>
                  DidRelation(q, n, "remove_managed_relation", k, r)
        BY <1>3, <3>3
      <4> QED  BY <3>1, <3>2, <4>1, <4>2
    <3>4. CASE x.kind = "remove_managed_relation"
      <4>1. v.rel = w.rel \ {x.arg} /\ x.arg \in b.rel /\ x.arg \notin R
        BY <1>1, <1>4, <1>8, <3>4 DEF Rewritten
      <4>2. /\ DidRelation(q, n + 1, "create_relation", k, r) <=>
                  DidRelation(q, n, "create_relation", k, r)
            /\ DidRelation(q, n + 1, "remove_managed_relation", k, r) <=>
                  DidRelation(q, n, "remove_managed_relation", k, r) \/ x.arg = r
        BY <1>3, <3>4
      <4> QED  BY <3>1, <3>2, <4>1, <4>2
    <3>5. CASE x.kind \notin {"create_relation", "remove_managed_relation"}
      <4>1. v.rel = w.rel
        BY <1>1, <3>5 DEF Rewritten
      <4> QED  BY <1>3, <3>1, <3>5, <4>1
    <3> QED  BY <3>3, <3>4, <3>5
  <2> QED  BY <2>2, <2>3, <2>4
<1>9. Exact(p, b, q, n + 1, k, v)
  BY <1>7, <1>8 DEF Exact
<1> QED  BY <1>9 DEF b, k, v

\* An operation leaves the other nodes as they are.
LEMMA ExactOther ==
    ASSUME NEW p, NEW b, NEW q, NEW n \in Nat, NEW k, NEW w, q[n + 1].key # k,
           Exact(p, b, q, n, k, w)
    PROVE  Exact(p, b, q, n + 1, k, w)
<1>1. \A kind : Did(q, n + 1, kind, k) <=> Did(q, n, kind, k)
  BY DidMore
<1>2. \A kind, r : DidRelation(q, n + 1, kind, k, r) <=> DidRelation(q, n, kind, k, r)
  BY DidMore
<1>3. \A i \in 1..n : i \in 1..n + 1
  OBVIOUS
<1> QED  BY <1>1, <1>2, <1>3 DEF Exact

\* The relations of a valid plan lead to its nodes, and so do the parents.
LEMMA PlanTargets ==
    ASSUME NEW p, IsPlan(p), validate_plan(p), NEW k \in Known(p)
    PROVE  /\ \A r \in _relations(p, k) : r[2] \in Known(p)
           /\ p.items[k].parent # NoParent => p.items[k].parent \in Known(p)
<1>1. p.items[k].rel \subseteq Fields \X Keys
  BY DEF IsPlan, Items
<1>2. ASSUME NEW r \in _relations(p, k)
      PROVE  r[2] \in Known(p)
  <2>1. CASE \E u \in p.items[k].rel : r = <<Semantic(u[1]), u[2]>>
    <3>1. PICK u \in p.items[k].rel : r = <<Semantic(u[1]), u[2]>>
      BY <2>1
    <3>2. u \in Fields \X Keys /\ u = <<u[1], u[2]>> /\ u[1] \in Fields /\ u[2] \in Keys
      BY <1>1, <3>1
    <3> DEFINE z == <<u[1], k, u[2]>>
    <3>3. z \in Fields \X Known(p) \X Keys /\ z[1] = u[1] /\ z[2] = k /\ z[3] = u[2]
      BY <3>2
    <3>4. z \in Uses(p)
      BY <3>1, <3>2, <3>3 DEF Uses
    <3>5. z[3] \in Known(p)
      BY <3>4 DEF validate_plan
    <3> QED  BY <3>1, <3>3, <3>5
  <2>2. CASE \E t \in Known(p) : r = <<"related_to", t>>
    BY <2>2
  <2> QED  BY <2>1, <2>2 DEF _relations
<1> QED  BY <1>2 DEF validate_plan

\* A managed hash is no empty one.
LEMMA HashGiven ==
    ASSUME NEW p, NEW k
    PROVE  managed_hash(p, k) # <<>>
BY DEF managed_hash

\* What a publication left leads to what it left.
LEMMA InitSound ==
    ASSUME Init
    PROVE  Sound(package)
<1> DEFINE image == [k \in Known(base) |->
                        Existing(managed_hash(base, k), base.items[k].parent,
                                 _relations(base, k), FALSE, k)]
<1>1. base \in Priors \union {NoPlan} /\ IsPlan(base)
  BY GivenPlans DEF Init
<1>2. Absent.hash = <<>> /\ Absent.rel = {}
  BY DEF Absent
<1>3. ASSUME NEW k \in Known(base)
      PROVE  /\ image[k].hash # <<>> /\ image[k] # Absent /\ k \in Keys
             /\ \A r \in image[k].rel : r[2] \in Known(base)
  <2>1. image[k].hash = managed_hash(base, k) /\ image[k].rel = _relations(base, k)
    BY DEF Existing
  <2>2. image[k].hash # <<>>
    BY <2>1, HashGiven
  <2>3. validate_plan(base)
    <3>1. Known(NoPlan) = {}
      BY DEF Known, NoPlan
    <3> QED  BY <1>1, <1>3, <3>1, DiffAssumption
  <2>4. \A r \in image[k].rel : r[2] \in Known(base)
    BY <1>1, <2>1, <2>3, PlanTargets
  <2>5. k \in Keys
    BY <1>1 DEF IsPlan
  <2> HIDE DEF image
  <2> QED  BY <1>2, <2>2, <2>4, <2>5
<1> HIDE DEF image
<1>4. CASE package = [k \in Keys |-> IF k \in Known(base) THEN image[k] ELSE Absent]
  <2>1. \A k \in Known(base) : k \in Keys /\ package[k] = image[k] /\ package[k] # Absent
    BY <1>3, <1>4
  <2>2. \A k \in Keys : k \in Known(base) \/ package[k] = Absent
    BY <1>4
  <2> QED  BY <1>2, <1>3, <2>1, <2>2 DEF Sound
<1>5. ASSUME NEW g \in Keys \ Known(base), NEW w \in Left(g),
             package = [k \in Keys |-> IF k \in Known(base) THEN image[k]
                                       ELSE IF k = g THEN w ELSE Absent]
      PROVE  Sound(package)
  <2>1. \A k \in Known(base) : k \in Keys /\ package[k] = image[k] /\ package[k] # Absent
    BY <1>3, <1>5
  <2>2. \A k \in Keys : k \in Known(base) \/ package[k] = Absent \/ package[k] = w
    BY <1>5
  <2>3. w.hash # <<>> /\ \A r \in w.rel : r[2] \in Known(base)
    <3> DEFINE h == <<CHOOSE t \in Types : TRUE, 1>>
               Q == Known(base) \union {NoParent}
               S == {{}} \union {{r} : r \in {r \in {Semantic(f) : f \in Fields} \X Known(base) :
                                               r[1] = "related_to" => g < r[2]}}
    <3>1. Left(g) = UNION {{Existing(h, p, R, TRUE, g) : R \in S} : p \in Q}
      BY DEF Left
    <3>2. \A R \in S : \A r \in R : r[2] \in Known(base)
      OBVIOUS
    <3>3. h # <<>>
      OBVIOUS
    <3> HIDE DEF h, Q, S
    <3>4. PICK p \in Q, R \in S : w = Existing(h, p, R, TRUE, g)
      BY <3>1
    <3>5. w.hash = h /\ w.rel = R
      BY <3>4 DEF Existing
    <3> QED  BY <3>2, <3>3, <3>4, <3>5
  <2> QED  BY <1>2, <1>3, <2>1, <2>2, <2>3 DEF Sound
<1> QED  BY <1>4, <1>5 DEF Init, image

\* Whoever changes the parent or deletes a relation of a package leaves it sound.
LEMMA SoundKept ==
    ASSUME package \in [Keys -> Packages], Sound(package), NEW k \in Keys, package[k] # Absent,
           NEW w, package' = [package EXCEPT ![k] = w],
           w.hash = package[k].hash, w.rel \subseteq package[k].rel
    PROVE  Sound(package')
<1>1. Absent.hash = <<>>
  BY DEF Absent
<1>2. w # Absent /\ w.hash # <<>>
  BY <1>1 DEF Sound
<1>3. \A j \in Keys : package'[j] = IF j = k THEN w ELSE package[j]
  OBVIOUS
<1>4. \A j \in Keys : \A r \in package[j].rel : r[2] \in Keys
  BY PackageFields DEF Relations
<1>5. \A j \in Keys : package[j] # Absent => package'[j] # Absent /\ package'[j].hash # <<>>
  BY <1>2, <1>3 DEF Sound
<1>6. \A j \in Keys : package[j] = Absent => package'[j] = Absent
  BY <1>3
<1>7. \A j \in Keys : package'[j].rel \subseteq package[j].rel
  BY <1>3
<1> QED  BY <1>4, <1>5, <1>6, <1>7 DEF Sound

-----------------------------------------------------------------------------
(* The next operation fits.                                                *)

RelationKinds == {"create_relation", "remove_managed_relation"}

\* What has a lower rank than the next operation of its node is done.
LEMMA Earlier ==
    ASSUME NEW q, Ordered(q), NEW n \in Nat, Len(q) \in Nat, n < Len(q),
           NEW x, x = q[n + 1], NEW kind, Rank(kind) < Rank(x.kind)
    PROVE  /\ Has(q, kind, x.key) => Did(q, n, kind, x.key)
           /\ \A r : HasRelation(q, kind, x.key, r) => DidRelation(q, n, kind, x.key, r)
<1>1. Rank(kind) \in Nat /\ Rank(x.kind) \in Nat
  BY DEF Rank
<1> HIDE DEF Rank
<1>2. ASSUME NEW i \in 1..Len(q), q[i].kind = kind, q[i].key = x.key
      PROVE  i \in 1..n
  <2>1. i # n + 1
    BY <1>1, <1>2
  <2>2. ~(n + 1 < i)
    <3>1. SUFFICES ASSUME n + 1 < i
                   PROVE  FALSE
      OBVIOUS
    <3>2. n + 1 \in 1..Len(q)
      OBVIOUS
    <3>3. Before(x, q[i])
      BY <3>1, <3>2 DEF Ordered
    <3>4. Rank(x.kind) < Rank(kind) \/ x.kind = kind
      BY <1>2, <3>3 DEF Before
    <3> QED  BY <1>1, <3>4
  <2> QED  BY <2>1, <2>2
<1>3. ASSUME Has(q, kind, x.key)
      PROVE  Did(q, n, kind, x.key)
  <2>1. PICK i \in 1..Len(q) : q[i].kind = kind /\ q[i].key = x.key
    BY <1>3 DEF Has, Occurs
  <2>2. i \in 1..n
    BY <1>2, <2>1
  <2> QED  BY <2>1, <2>2 DEF Did
<1>4. ASSUME NEW r, HasRelation(q, kind, x.key, r)
      PROVE  DidRelation(q, n, kind, x.key, r)
  <2>1. PICK i \in 1..Len(q) : q[i].kind = kind /\ q[i].key = x.key /\ q[i].arg = r
    BY <1>4 DEF HasRelation, Occurs
  <2>2. i \in 1..n
    BY <1>2, <2>1
  <2> QED  BY <2>1, <2>2 DEF DidRelation
<1> QED  BY <1>3, <1>4

\* What has no lower rank is not, but for other relations.
LEMMA NotYet ==
    ASSUME NEW q, Ordered(q), NEW n \in Nat, Len(q) \in Nat, n < Len(q),
           NEW x, x = q[n + 1], NEW kind, Rank(x.kind) <= Rank(kind),
           kind # x.kind \/ kind \notin RelationKinds
    PROVE  /\ ~Did(q, n, kind, x.key)
           /\ \A r : ~DidRelation(q, n, kind, x.key, r)
<1>1. Rank(kind) \in Nat /\ Rank(x.kind) \in Nat
  BY DEF Rank
<1> HIDE DEF Rank
<1>2. ASSUME NEW i \in 1..n, q[i].kind = kind, q[i].key = x.key
      PROVE  FALSE
  <2>1. i \in 1..Len(q) /\ n + 1 \in 1..Len(q) /\ i < n + 1
    OBVIOUS
  <2>2. Before(q[i], x)
    BY <2>1 DEF Ordered
  <2>3. Rank(kind) < Rank(x.kind) \/ (kind = x.kind /\ kind \in RelationKinds)
    BY <1>2, <2>2 DEF Before, RelationKinds
  <2> QED  BY <1>1, <2>3
<1> QED  BY <1>2 DEF Did, DidRelation

\* Between two operations of a publication that nobody disturbed.
Undisturbed ==
    /\ DiffInv /\ phase = "publishing" /\ at < Len(ops)
    /\ validate_plan(plan) /\ Sound(snapshot)
    /\ \A k \in Keys : Exact(plan, snapshot[k], ops, at, k, package[k])
    /\ edited = {} /\ ~Retyped
    /\ \A k \in Keys : /\ snapshot[k].parent # Unmanaged
                       /\ k \notin Known(plan) => package[k].rel = {}

\* What is known of the operations then.
LEMMA UndisturbedFacts ==
    ASSUME Undisturbed
    PROVE  /\ IsPlan(plan) /\ snapshot \in [Keys -> Packages] /\ package \in [Keys -> Packages]
           /\ at \in Nat /\ Len(ops) \in Nat /\ at < Len(ops) /\ at + 1 \in 1..Len(ops)
           /\ Ordered(ops)
           /\ \A i \in 1..Len(ops) :
                 Reasoned(plan, snapshot, ops[i]) /\ Expected(plan, snapshot, ops[i])
           /\ \A k \in Known(plan) : Serves(plan, snapshot, k, ops)
           /\ \A k \in Known(plan) : snapshot[k] = Absent => Has(ops, "create_work_package", k)
<1>1. /\ IsPlan(plan) /\ snapshot \in [Keys -> Packages] /\ package \in [Keys -> Packages]
      /\ ops = plan_diff(plan, snapshot) /\ at \in Nat /\ Typed /\ at < Len(ops)
      /\ phase = "publishing"
  BY DEF Undisturbed, DiffInv, Typed
<1>2. /\ ops \in Seq(Operations) /\ Len(ops) \in Nat
      /\ \A i \in 1..Len(ops) : Reasoned(plan, snapshot, ops[i])
  BY <1>1, OpsReasoned
<1>3. \A i \in 1..Len(ops) : Occurs(ops[i], ops)
  BY DEF Occurs
<1>4. Ordered(ops) /\ \A i \in 1..Len(ops) : Expected(plan, snapshot, ops[i])
  BY <1>1, <1>3, DiffFits
<1>5. \A k \in Known(plan) : Serves(plan, snapshot, k, ops)
  BY <1>1, DiffLists
<1>6. \A k \in Known(plan) : snapshot[k] = Absent => Has(ops, "create_work_package", k)
  BY <1>1, DiffLists DEF Present
<1>7. at + 1 \in 1..Len(ops)
  BY <1>1, <1>2
<1> QED  BY <1>1, <1>2, <1>4, <1>5, <1>6, <1>7

\* The first operation on a node finds it as the snapshot shows it.
LEMMA FirstOfNode ==
    ASSUME Undisturbed, NEW x, x = ops[at + 1], x.key \in Keys,
           \/ x.kind \in {"create_work_package", "mark_superseded"}
           \/ x.kind = "reactivate_work_package"
    PROVE  package[x.key] = snapshot[x.key]
<1>1. /\ at \in Nat /\ Len(ops) \in Nat /\ at < Len(ops) /\ at + 1 \in 1..Len(ops)
      /\ Ordered(ops)
      /\ \A i \in 1..Len(ops) :
            Reasoned(plan, snapshot, ops[i]) /\ Expected(plan, snapshot, ops[i])
  BY UndisturbedFacts
<1>2. ASSUME NEW i \in 1..at, ops[i].key = x.key
      PROVE  FALSE
  <2>1. i \in 1..Len(ops) /\ i < at + 1
    BY <1>1
  <2>2. Before(ops[i], x)
    BY <1>1, <2>1 DEF Ordered
  <2>3. /\ Reasoned(plan, snapshot, x) /\ Reasoned(plan, snapshot, ops[i])
        /\ Expected(plan, snapshot, x)
    BY <1>1, <2>1
  <2>4. CASE x.kind = "create_work_package"
    <3>1. ops[i].kind = x.kind
      BY <2>2, <2>4 DEF Before
    <3> QED  BY <1>2, <2>2, <2>4, <3>1 DEF Before, Rank
  <2>5. CASE x.kind = "mark_superseded"
    <3>1. x.key \notin Known(plan) /\ x.key # 0
      BY <2>3, <2>5, PlanAssumption DEF Reasoned, Gone
    <3>2. ops[i].kind = x.kind
      BY <1>2, <2>3, <2>5, <3>1 DEF Reasoned
    <3> QED  BY <1>2, <2>2, <2>5, <3>2 DEF Before, Rank
  <2>6. CASE x.kind = "reactivate_work_package"
    <3>1. snapshot[x.key] # Absent
      BY <2>3, <2>6 DEF Expected
    <3>2. ops[i].kind = "create_work_package"
      BY <1>2, <2>2, <2>6 DEF Before, Rank
    <3> QED  BY <1>2, <2>3, <3>1, <3>2 DEF Reasoned, Present
  <2> QED  BY <2>4, <2>5, <2>6
<1>3. Exact(plan, snapshot[x.key], ops, at, x.key, package[x.key])
  BY DEF Undisturbed
<1> QED  BY <1>2, <1>3 DEF Exact

\* Before an operation on the parent or the relations of a node its text is the plan's.
LEMMA TextDone ==
    ASSUME Undisturbed, NEW x, x = ops[at + 1], x.key \in Known(plan),
           x.kind \in {"set_parent", "create_relation", "remove_managed_relation"}
    PROVE  package[x.key].hash = managed_hash(plan, x.key)
<1> DEFINE k == x.key
<1>1. /\ at \in Nat /\ Len(ops) \in Nat /\ at < Len(ops) /\ Ordered(ops) /\ IsPlan(plan)
      /\ Serves(plan, snapshot, k, ops)
      /\ snapshot[k] = Absent => Has(ops, "create_work_package", k)
  BY UndisturbedFacts
<1>2. /\ Rank("create_work_package") < Rank(x.kind)
      /\ Rank("update_managed_fields") < Rank(x.kind)
  BY DEF Rank
<1>3. /\ Has(ops, "create_work_package", k) => Did(ops, at, "create_work_package", k)
      /\ Has(ops, "update_managed_fields", k) => Did(ops, at, "update_managed_fields", k)
  BY <1>1, <1>2, Earlier
<1>4. k \in Keys
  BY <1>1 DEF IsPlan
<1>5. Exact(plan, snapshot[k], ops, at, k, package[k])
  BY <1>4 DEF Undisturbed
<1>6. snapshot[k] # Absent /\ snapshot[k].hash # managed_hash(plan, k) =>
         Has(ops, "update_managed_fields", k)
  BY <1>1 DEF Serves
<1> HIDE DEF k
<1>7. package[k].hash = IF Did(ops, at, "create_work_package", k)
                            \/ Did(ops, at, "update_managed_fields", k)
                         THEN managed_hash(plan, k) ELSE snapshot[k].hash
  BY <1>5 DEF Exact, k
<1> QED  BY <1>1, <1>3, <1>6, <1>7 DEF k

\* Before an operation on the relations of a node its parent is the plan's.
LEMMA ParentDone ==
    ASSUME Undisturbed, NEW x, x = ops[at + 1], x.key \in Known(plan), x.kind \in RelationKinds
    PROVE  /\ package[x.key].parent # Unmanaged
           /\ package[x.key].parent =
                IF ParentChanged(snapshot[x.key], plan.items[x.key].parent)
                THEN plan.items[x.key].parent ELSE parent_identity(snapshot[x.key])
<1> DEFINE k == x.key
           b == snapshot[k]
           w == package[k]
           parent == plan.items[k].parent
<1>1. /\ at \in Nat /\ Len(ops) \in Nat /\ at < Len(ops) /\ Ordered(ops) /\ IsPlan(plan)
      /\ Serves(plan, snapshot, k, ops)
      /\ \A i \in 1..Len(ops) : Reasoned(plan, snapshot, ops[i])
  BY UndisturbedFacts
<1>2. Rank("set_parent") < Rank(x.kind)
  BY DEF Rank, RelationKinds
<1>3. Has(ops, "set_parent", k) => Did(ops, at, "set_parent", k)
  BY <1>1, <1>2, Earlier
<1>4. k \in Keys /\ parent # Unmanaged
  BY <1>1, PlanTyped
<1>5. Exact(plan, b, ops, at, k, w) /\ b.parent # Unmanaged
  BY <1>4 DEF Undisturbed
<1>6. ParentChanged(b, parent) => Has(ops, "set_parent", k)
  BY <1>1 DEF Serves
<1>7. Did(ops, at, "set_parent", k) => ParentChanged(b, parent)
  <2>1. \A i \in 1..at : Reasoned(plan, snapshot, ops[i])
    BY <1>1
  <2> QED  BY <2>1 DEF Did, Reasoned
<1>8. w.parent = IF Did(ops, at, "set_parent", k) THEN parent ELSE b.parent
  BY <1>5 DEF Exact
<1>9. parent_identity(b) = b.parent
  BY <1>5 DEF parent_identity
<1> HIDE DEF k, b, w, parent
<1>10. /\ w.parent # Unmanaged
       /\ w.parent = IF ParentChanged(b, parent) THEN parent ELSE parent_identity(b)
  BY <1>3, <1>4, <1>5, <1>6, <1>7, <1>8, <1>9
<1> QED  BY <1>10 DEF k, b, w, parent

\* A relation operation finds the relations that the ones before it leave.
LEMMA RelationsDone ==
    ASSUME Undisturbed, NEW x, x = ops[at + 1], x.key \in Known(plan), x.kind \in RelationKinds
    PROVE  package[x.key].rel = x.expect.rel
<1> DEFINE k == x.key
           b == snapshot[k]
           w == package[k]
           R == _relations(plan, k)
           e == x.expect
           C(r) == DidRelation(ops, at, "create_relation", k, r)
           D(r) == DidRelation(ops, at, "remove_managed_relation", k, r)
<1>1. /\ at \in Nat /\ Len(ops) \in Nat /\ at < Len(ops) /\ Ordered(ops) /\ IsPlan(plan)
      /\ at + 1 \in 1..Len(ops) /\ snapshot \in [Keys -> Packages] /\ package \in [Keys -> Packages]
      /\ Serves(plan, snapshot, k, ops) /\ Expected(plan, snapshot, x)
  BY UndisturbedFacts
<1>2. k \in Keys /\ R \subseteq Relations /\ b.rel \subseteq Relations /\ w.rel \subseteq Relations
  BY <1>1, PlanTyped, PackageFields
<1>3. Exact(plan, b, ops, at, k, w)
  BY <1>2 DEF Undisturbed
<1>4. \A r \in Relations : r \in w.rel <=> (r \in b.rel \/ C(r)) /\ ~D(r)
  BY <1>3 DEF Exact
<1>5. /\ \A r \in R \ b.rel : HasRelation(ops, "create_relation", k, r)
      /\ \A r \in b.rel \ R : HasRelation(ops, "remove_managed_relation", k, r)
  BY <1>1 DEF Serves
<1>6. ASSUME NEW i \in 1..at, ops[i].key = k, ops[i].kind = x.kind
      PROVE  IF x.kind = "create_relation" THEN ops[i].arg \in e.rel ELSE ops[i].arg \notin e.rel
  <2>1. i \in 1..Len(ops) /\ i < at + 1
    BY <1>1
  <2>2. Before(ops[i], x)
    BY <1>1, <2>1 DEF Ordered
  <2> QED  BY <1>6, <2>2 DEF Before, Rank, RelationKinds
<1>7. ASSUME NEW i \in 1..Len(ops), i \notin 1..at, i # at + 1, ops[i].key = k, ops[i].kind = x.kind
      PROVE  IF x.kind = "create_relation" THEN ops[i].arg \notin e.rel ELSE ops[i].arg \in e.rel
  <2>1. at + 1 < i
    BY <1>1, <1>7
  <2>2. Before(x, ops[i])
    BY <1>1, <2>1 DEF Ordered
  <2> QED  BY <1>7, <2>2 DEF Before, Rank, RelationKinds
<1>8. CASE x.kind = "create_relation"
  <2>1. \A r : ~D(r)
    <3>1. Rank(x.kind) <= Rank("remove_managed_relation") /\ x.kind # "remove_managed_relation"
      BY <1>8 DEF Rank
    <3> QED  BY <1>1, <3>1, NotYet
  <2>2. b.rel \subseteq e.rel /\ e.rel \subseteq b.rel \union R /\ x.arg \notin e.rel
    BY <1>1, <1>8 DEF Expected
  <2>3. \A r : C(r) => r \in e.rel
    BY <1>6, <1>8 DEF DidRelation
  <2>4. ASSUME NEW r \in e.rel, r \notin b.rel
        PROVE  C(r)
    <3>1. HasRelation(ops, "create_relation", k, r)
      BY <1>5, <2>2, <2>4
    <3>2. PICK i \in 1..Len(ops) :
             ops[i].kind = "create_relation" /\ ops[i].key = k /\ ops[i].arg = r
      BY <3>1 DEF HasRelation, Occurs
    <3>3. i \in 1..at
      BY <1>7, <1>8, <2>2, <2>4, <3>2
    <3> QED  BY <3>2, <3>3 DEF DidRelation
  <2> HIDE DEF C, D, R, b, w, e
  <2>5. \A r \in Relations : r \in w.rel <=> r \in e.rel
    BY <1>4, <2>1, <2>2, <2>3, <2>4
  <2>6. e.rel \subseteq Relations
    BY <1>2, <2>2
  <2>7. w.rel = e.rel
    BY <1>2, <2>5, <2>6
  <2> QED  BY <2>7 DEF w, e
<1>9. CASE x.kind = "remove_managed_relation"
  <2>1. \A r \in R \ b.rel : C(r)
    <3>1. Rank("create_relation") < Rank(x.kind)
      BY <1>9 DEF Rank
    <3>2. \A r : HasRelation(ops, "create_relation", k, r) => C(r)
      BY <1>1, <3>1, Earlier
    <3> QED  BY <1>5, <3>2
  <2>2. R \subseteq e.rel /\ e.rel \subseteq b.rel \union R /\ x.arg \in e.rel
    BY <1>1, <1>9 DEF Expected
  <2>3. \A r : D(r) => r \notin e.rel
    BY <1>6, <1>9 DEF DidRelation
  <2>4. ASSUME NEW r \in b.rel, r \notin e.rel
        PROVE  D(r)
    <3>1. HasRelation(ops, "remove_managed_relation", k, r)
      BY <1>5, <2>2, <2>4
    <3>2. PICK i \in 1..Len(ops) :
             ops[i].kind = "remove_managed_relation" /\ ops[i].key = k /\ ops[i].arg = r
      BY <3>1 DEF HasRelation, Occurs
    <3>3. i \in 1..at
      BY <1>7, <1>9, <2>2, <2>4, <3>2
    <3> QED  BY <3>2, <3>3 DEF DidRelation
  <2>5. \A r : C(r) => r \in R
    <3>1. \A i \in 1..at : Reasoned(plan, snapshot, ops[i])
      BY <1>1, UndisturbedFacts
    <3> QED  BY <3>1 DEF DidRelation, Reasoned
  <2> HIDE DEF C, D, R, b, w, e
  <2>6. \A r \in Relations : r \in w.rel <=> r \in e.rel
    BY <1>4, <2>1, <2>2, <2>3, <2>4, <2>5
  <2>7. e.rel \subseteq Relations
    BY <1>2, <2>2
  <2>8. w.rel = e.rel
    BY <1>2, <2>6, <2>7
  <2> QED  BY <2>8 DEF w, e
<1> QED  BY <1>8, <1>9 DEF RelationKinds

\* No precondition of the next operation fails.
LEMMA CurrentHolds ==
    ASSUME Undisturbed, NEW x, x = ops[at + 1]
    PROVE  _assert_current(x)
<1> DEFINE k == x.key
           b == snapshot[k]
           w == package[k]
           e == x.expect
<1>1. /\ at \in Nat /\ Len(ops) \in Nat /\ at < Len(ops) /\ Ordered(ops) /\ IsPlan(plan)
      /\ at + 1 \in 1..Len(ops) /\ snapshot \in [Keys -> Packages] /\ package \in [Keys -> Packages]
      /\ Reasoned(plan, snapshot, x) /\ Expected(plan, snapshot, x)
      /\ \A i \in 1..Len(ops) : Reasoned(plan, snapshot, ops[i])
  BY UndisturbedFacts
<1>2. CASE x.kind = "record_audit"
  BY <1>2 DEF _assert_current
<1>3. SUFFICES ASSUME x.kind # "record_audit"
               PROVE  _assert_current(x)
  BY <1>2
<1>4. k \in Keys /\ x.kind \in Kinds /\ b \in Packages /\ w \in Packages
  BY <1>1, <1>3, ReasonedTyped
<1>5. Exact(plan, b, ops, at, k, w) /\ b.parent # Unmanaged /\ (b # Absent => b.hash # <<>>)
  BY <1>4 DEF Undisturbed, Sound
<1>6. parent_identity(b) = b.parent /\ Absent.hash = <<>>
  BY <1>5 DEF parent_identity, Absent
<1>7. CASE x.kind = "create_work_package"
  <2>1. w = b
    BY <1>4, <1>7, FirstOfNode
  <2>2. b = Absent
    BY <1>1, <1>4, <1>7 DEF Reasoned, Present
  <2> QED  BY <1>7, <2>1, <2>2 DEF _assert_current
<1>8. CASE x.kind \in {"mark_superseded", "reactivate_work_package"}
  <2>1. w = b
    BY <1>4, <1>8, FirstOfNode
  <2>2. /\ b # Absent /\ e.hash = b.hash /\ e.parent = parent_identity(b) /\ e.rel = b.rel
        /\ e.unmanaged = (b.parent = Unmanaged)
    BY <1>1, <1>8 DEF Expected
  <2> QED  BY <1>8, <2>1, <2>2 DEF _assert_current
<1>9. SUFFICES ASSUME x.kind \in {"update_managed_fields", "set_parent"} \union RelationKinds
               PROVE  _assert_current(x)
  BY <1>3, <1>4, <1>7, <1>8 DEF Kinds, RelationKinds
<1>10. k \in Known(plan)
  BY <1>1, <1>9 DEF Reasoned, RelationKinds
<1>11. SUFFICES /\ w.hash = e.hash /\ w.hash # <<>> /\ parent_identity(w) = e.parent
                /\ w.parent # Unmanaged /\ e.unmanaged = FALSE
                /\ w.rel = e.rel
  <2>1. w # Absent
    BY <1>6, <1>11
  <2>2. x.kind # "create_work_package"
    BY <1>9 DEF RelationKinds
  <2> QED  BY <1>3, <1>11, <2>1, <2>2 DEF _assert_current
<1>12. e.unmanaged = FALSE
  BY <1>1, <1>5, <1>9 DEF Expected, RelationKinds
<1>13. CASE x.kind \in {"update_managed_fields", "set_parent"}
  <2>1. /\ ~Did(ops, at, "set_parent", k)
        /\ \A r : ~DidRelation(ops, at, "create_relation", k, r)
        /\ \A r : ~DidRelation(ops, at, "remove_managed_relation", k, r)
    <3>1. /\ Rank(x.kind) <= Rank("set_parent") /\ Rank(x.kind) <= Rank("create_relation")
          /\ Rank(x.kind) <= Rank("remove_managed_relation") /\ x.kind \notin RelationKinds
          /\ "set_parent" \notin RelationKinds
      BY <1>13 DEF Rank, RelationKinds
    <3>2. x.kind # "create_relation" /\ x.kind # "remove_managed_relation"
      BY <1>13
    <3> QED  BY <1>1, <3>1, <3>2, NotYet
  <2>2. w.parent = b.parent
    BY <1>5, <1>10, <2>1 DEF Exact
  <2>3. w.rel = b.rel
    <3>1. \A r \in Relations : r \in w.rel <=> r \in b.rel
      BY <1>5, <1>10, <2>1 DEF Exact
    <3>2. w.rel \subseteq Relations /\ b.rel \subseteq Relations
      BY <1>4, PackageFields
    <3> QED  BY <3>1, <3>2
  <2>4. parent_identity(w) = b.parent
    BY <1>5, <2>2 DEF parent_identity
  <2>5. e.parent = parent_identity(b) /\ e.rel = b.rel
    BY <1>1, <1>13 DEF Expected
  <2>6. w.hash = e.hash /\ w.hash # <<>>
    <3>1. CASE x.kind = "update_managed_fields"
      <4>1. b # Absent /\ e.hash = b.hash
        BY <1>1, <3>1 DEF Expected
      <4>2. ~Did(ops, at, "update_managed_fields", k)
        <5>1. Rank(x.kind) <= Rank("update_managed_fields")
              /\ "update_managed_fields" \notin RelationKinds
          BY <3>1 DEF Rank, RelationKinds
        <5> QED  BY <1>1, <5>1, NotYet
      <4>3. ~Did(ops, at, "create_work_package", k)
        <5>1. \A i \in 1..at : Reasoned(plan, snapshot, ops[i])
          BY <1>1
        <5>2. k \in Present(snapshot)
          BY <1>4, <4>1 DEF Present
        <5> QED  BY <5>1, <5>2 DEF Did, Reasoned
      <4>4. w.hash = b.hash
        BY <1>5, <1>10, <4>2, <4>3 DEF Exact
      <4> QED  BY <1>5, <4>1, <4>4
    <3>2. CASE x.kind = "set_parent"
      <4>1. w.hash = managed_hash(plan, k)
        BY <1>10, <3>2, TextDone
      <4>2. e.hash = managed_hash(plan, k)
        BY <1>1, <3>2 DEF Expected
      <4> QED  BY <4>1, <4>2, HashGiven
    <3> QED  BY <1>13, <3>1, <3>2
  <2> QED  BY <1>5, <1>6, <1>12, <2>2, <2>3, <2>4, <2>5, <2>6
<1>14. CASE x.kind \in RelationKinds
  <2>1. w.rel = e.rel
    BY <1>10, <1>14, RelationsDone
  <2>2. w.hash = managed_hash(plan, k)
    BY <1>10, <1>14, TextDone DEF RelationKinds
  <2> DEFINE parent == plan.items[k].parent
             virtual == IF ParentChanged(b, parent) THEN parent ELSE parent_identity(b)
  <2>3. e.hash = managed_hash(plan, k) /\ e.parent = virtual
    BY <1>1, <1>14 DEF Expected, RelationKinds
  <2>4. w.parent # Unmanaged /\ w.parent = virtual
    BY <1>10, <1>14, ParentDone
  <2>5. parent_identity(w) = w.parent
    BY <2>4 DEF parent_identity
  <2> HIDE DEF virtual
  <2> QED  BY <1>12, <2>1, <2>2, <2>3, <2>4, <2>5, HashGiven
<1> QED  BY <1>9, <1>13, <1>14

\* Once the nodes are created, the plan's packages are there, and what the snapshot
\* shows stays there.
LEMMA StillThere ==
    ASSUME Undisturbed, ops[at + 1].kind # "create_work_package", NEW t \in Keys,
           t \in Known(plan) \/ snapshot[t] # Absent
    PROVE  package[t] # Absent
<1> DEFINE b == snapshot[t]
           w == package[t]
<1>1. /\ at \in Nat /\ Len(ops) \in Nat /\ at < Len(ops) /\ Ordered(ops) /\ IsPlan(plan)
      /\ at + 1 \in 1..Len(ops) /\ snapshot \in [Keys -> Packages] /\ package \in [Keys -> Packages]
      /\ \A i \in 1..Len(ops) : Reasoned(plan, snapshot, ops[i])
      /\ t \in Known(plan) /\ b = Absent => Has(ops, "create_work_package", t)
  BY UndisturbedFacts
<1>2. Exact(plan, b, ops, at, t, w) /\ (b # Absent => b.hash # <<>>)
  BY DEF Undisturbed, Sound
<1>3. Absent.hash = <<>> /\ Absent.superseded = FALSE
  BY DEF Absent
<1>4. CASE t \in Known(plan)
  <2>1. ASSUME b = Absent
        PROVE  Did(ops, at, "create_work_package", t)
    <3>1. PICK i \in 1..Len(ops) : ops[i].kind = "create_work_package" /\ ops[i].key = t
      BY <1>1, <1>4, <2>1 DEF Has, Occurs
    <3>2. ~(at + 1 < i)
      <4>1. at + 1 < i => Before(ops[at + 1], ops[i])
        BY <1>1 DEF Ordered
      <4> QED  BY <3>1, <4>1 DEF Before
    <3>3. i \in 1..at
      BY <1>1, <3>1, <3>2
    <3> QED  BY <3>1, <3>3 DEF Did
  <2>2. w.hash = managed_hash(plan, t) \/ (w.hash = b.hash /\ b # Absent)
    <3>1. w.hash = IF Did(ops, at, "create_work_package", t)
                      \/ Did(ops, at, "update_managed_fields", t)
                   THEN managed_hash(plan, t) ELSE b.hash
      BY <1>2, <1>4 DEF Exact
    <3> QED  BY <2>1, <3>1
  <2>3. w.hash # <<>>
    BY <1>2, <2>2, HashGiven
  <2> QED  BY <1>3, <2>3
<1>5. CASE t \notin Known(plan)
  <2>1. CASE \A i \in 1..at : ops[i].key # t
    BY <1>2, <1>5, <2>1 DEF Exact
  <2>2. CASE \E i \in 1..at : ops[i].key = t
    <3>1. PICK i \in 1..at : ops[i].key = t
      BY <2>2
    <3>2. Reasoned(plan, snapshot, ops[i]) /\ t # 0
      BY <1>1, PlanAssumption
    <3>3. ops[i].kind = "mark_superseded"
      BY <1>5, <3>1, <3>2 DEF Reasoned
    <3>4. Did(ops, at, "mark_superseded", t)
      BY <3>1, <3>3 DEF Did
    <3>5. Dropped(b, ops, at, t, w)
      BY <1>5 DEF Undisturbed, DiffInv, Progress
    <3>6. w.superseded
      BY <3>4, <3>5 DEF Dropped
    <3> QED  BY <1>3, <3>6
  <2> QED  BY <2>1, <2>2
<1> QED  BY <1>4, <1>5

\* Every relation of a plan is in use: a directed one at its own node, a symmetric
\* one at either end.
LEMMA UseOf ==
    ASSUME NEW p, IsPlan(p), NEW k \in Known(p), NEW r \in _relations(p, k)
    PROVE  \E u \in Uses(p) :
              /\ {u[2], u[3]} = {k, r[2]}
              /\ r[1] = "related_to" => u[1] = "related_to" /\ k < r[2]
              /\ r[1] # "related_to" =>
                    /\ u[1] # "related_to" /\ r[1] = Semantic(u[1])
                    /\ u[2] = k /\ u[3] = r[2]
<1>1. /\ \A j \in Known(p) : p.items[j].rel \subseteq Fields \X Keys
      /\ Known(p) \subseteq Keys
  BY DEF IsPlan, Items
<1>2. ASSUME NEW j \in Known(p), NEW f, NEW t, <<f, t>> \in p.items[j].rel
      PROVE  <<f, j, t>> \in Uses(p) /\ f \in Fields
  <2>1. f \in Fields /\ t \in Keys
    BY <1>1, <1>2
  <2> DEFINE z == <<f, j, t>>
  <2>2. z \in Fields \X Known(p) \X Keys /\ z[1] = f /\ z[2] = j /\ z[3] = t
    BY <2>1
  <2> QED  BY <1>2, <2>1, <2>2 DEF Uses
<1>3. CASE \E v \in p.items[k].rel : v[1] # "related_to" /\ r = <<Semantic(v[1]), v[2]>>
  <2>1. PICK v \in p.items[k].rel : v[1] # "related_to" /\ r = <<Semantic(v[1]), v[2]>>
    BY <1>3
  <2>2. v = <<v[1], v[2]>>
    BY <1>1, <2>1
  <2>3. <<v[1], k, v[2]>> \in Uses(p) /\ v[1] \in Fields
    BY <1>2, <2>1, <2>2
  <2>4. r[1] = Semantic(v[1]) /\ r[2] = v[2]
    BY <2>1
  <2>5. r[1] # "related_to"
    BY <2>1, <2>4 DEF Semantic
  <2> DEFINE u == <<v[1], k, v[2]>>
  <2>6. u \in Uses(p) /\ u[1] = v[1] /\ u[2] = k /\ u[3] = v[2]
    BY <2>3
  <2> HIDE DEF u
  <2> QED  BY <2>1, <2>4, <2>5, <2>6
<1>4. CASE \E t \in Known(p) : /\ r = <<"related_to", t>> /\ k < t
                               /\ \/ <<"related_to", t>> \in p.items[k].rel
                                  \/ <<"related_to", k>> \in p.items[t].rel
  <2>1. PICK t \in Known(p) : /\ r = <<"related_to", t>> /\ k < t
                              /\ \/ <<"related_to", t>> \in p.items[k].rel
                                 \/ <<"related_to", k>> \in p.items[t].rel
    BY <1>4
  <2>2. r[1] = "related_to" /\ r[2] = t
    BY <2>1
  <2>3. CASE <<"related_to", t>> \in p.items[k].rel
    <3>1. <<"related_to", k, t>> \in Uses(p)
      BY <1>2, <2>3
    <3> WITNESS <<"related_to", k, t>> \in Uses(p)
    <3> QED  BY <2>1, <2>2
  <2>4. CASE <<"related_to", k>> \in p.items[t].rel
    <3>1. <<"related_to", t, k>> \in Uses(p)
      BY <1>2, <2>4
    <3> WITNESS <<"related_to", t, k>> \in Uses(p)
    <3> QED  BY <2>1, <2>2
  <2> QED  BY <2>1, <2>3, <2>4
<1> QED  BY <1>3, <1>4 DEF _relations

\* Two relations of a valid plan that OpenProject would store on one pair are one.
LEMMA OnePair ==
    ASSUME NEW p, IsPlan(p), validate_plan(p), NEW k \in Known(p), NEW j \in Known(p),
           NEW r \in _relations(p, k), NEW z \in _relations(p, j),
           _project_relation(r[1], k, r[2]) = _project_relation(z[1], j, z[2])
    PROVE  k = j /\ r[1] = z[1] /\ r[2] = z[2]
<1>1. PICK u \in Uses(p) :
              /\ {u[2], u[3]} = {k, r[2]}
              /\ r[1] = "related_to" => u[1] = "related_to" /\ k < r[2]
              /\ r[1] # "related_to" =>
                    /\ u[1] # "related_to" /\ r[1] = Semantic(u[1])
                    /\ u[2] = k /\ u[3] = r[2]
  BY UseOf
<1>2. PICK v \in Uses(p) :
              /\ {v[2], v[3]} = {j, z[2]}
              /\ z[1] = "related_to" => v[1] = "related_to" /\ j < z[2]
              /\ z[1] # "related_to" =>
                    /\ v[1] # "related_to" /\ z[1] = Semantic(v[1])
                    /\ v[2] = j /\ v[3] = z[2]
  BY UseOf
<1>3. ~Collides(u, v)
  BY <1>1, <1>2 DEF validate_plan
<1>4. /\ k \in Nat /\ j \in Nat /\ r[2] \in Nat /\ z[2] \in Nat
      /\ u[1] \in AllFields /\ v[1] \in AllFields
  <2>1. r \in Relations /\ z \in Relations /\ k \in Keys /\ j \in Keys
    BY PlanTyped
  <2>2. u[1] \in Fields /\ v[1] \in Fields
    BY <1>1, <1>2 DEF Uses
  <2> QED  BY <2>1, <2>2, PlanAssumption DEF Relations
<1>5. /\ _project_relation(r[1], k, r[2]) \in {<<k, r[2]>>, <<r[2], k>>}
      /\ _project_relation(z[1], j, z[2]) \in {<<j, z[2]>>, <<z[2], j>>}
  BY DEF _project_relation
<1>6. {k, r[2]} = {j, z[2]}
  BY <1>5
<1>7. CASE r[1] = "related_to" /\ z[1] = "related_to"
  BY <1>1, <1>2, <1>4, <1>6, <1>7
<1>8. CASE (r[1] = "related_to") # (z[1] = "related_to")
  <2>1. /\ (u[1] = "related_to") # (v[1] = "related_to")
        /\ {u[2], u[3]} = {v[2], v[3]}
    BY <1>1, <1>2, <1>6, <1>8
  <2>2. Collides(u, v)
    BY <2>1 DEF Collides
  <2> QED  BY <1>3, <2>2
<1>9. CASE r[1] # "related_to" /\ z[1] # "related_to"
  <2>1. /\ u[1] # "related_to" /\ v[1] # "related_to"
        /\ r[1] = Semantic(u[1]) /\ z[1] = Semantic(v[1])
        /\ u[2] = k /\ u[3] = r[2] /\ v[2] = j /\ v[3] = z[2]
    BY <1>1, <1>2, <1>9
  <2>2. /\ r[1] = "blocked_by" <=> u[1] = "blocked_by"
        /\ z[1] = "blocked_by" <=> v[1] = "blocked_by"
    BY <2>1 DEF Semantic
  <2>3. /\ _project_relation(r[1], k, r[2]) = StoredPair(u[1], u[2], u[3])
        /\ _project_relation(z[1], j, z[2]) = StoredPair(v[1], v[2], v[3])
    <3>1. _project_relation(r[1], k, r[2]) = StoredPair(u[1], u[2], u[3])
      BY <1>9, <2>1, <2>2 DEF _project_relation, StoredPair
    <3>2. _project_relation(z[1], j, z[2]) = StoredPair(v[1], v[2], v[3])
      BY <1>9, <2>1, <2>2 DEF _project_relation, StoredPair
    <3> QED  BY <3>1, <3>2
  <2>4. u = v
    <3>1. "related_to" \notin {u[1], v[1]}
      BY <2>1
    <3>2. StoredPair(u[1], u[2], u[3]) = StoredPair(v[1], v[2], v[3])
      BY <2>3
    <3> QED  BY <1>3, <3>1, <3>2 DEF Collides
  <2> QED  BY <2>1, <2>4
<1> QED  BY <1>7, <1>8, <1>9

\* The pair of a relation to add is free.
LEMMA PairFree ==
    ASSUME Undisturbed, NEW x, x = ops[at + 1], x.kind = "create_relation"
    PROVE  ~PairTaken(x.arg[1], x.key, x.arg[2])
<1> DEFINE k == x.key
           a == x.arg
<1>1. /\ at \in Nat /\ Len(ops) \in Nat /\ IsPlan(plan) /\ at + 1 \in 1..Len(ops)
      /\ snapshot \in [Keys -> Packages] /\ package \in [Keys -> Packages]
      /\ \A i \in 1..Len(ops) : Reasoned(plan, snapshot, ops[i])
      /\ \A j \in Known(plan) : Serves(plan, snapshot, j, ops)
      /\ validate_plan(plan)
  BY UndisturbedFacts DEF Undisturbed
<1>2. k \in Known(plan) /\ a \in _relations(plan, k)
  BY <1>1 DEF Reasoned
<1>3. SUFFICES ASSUME NEW j \in Present(package), NEW r \in package[j].rel,
                      <<r[1], j, r[2]>> # <<a[1], k, a[2]>>,
                      _project_relation(r[1], j, r[2]) = _project_relation(a[1], k, a[2])
               PROVE  FALSE
  BY DEF PairTaken
<1>4. j \in Keys /\ j \in Known(plan)
  BY DEF Present, Undisturbed
<1>5. package[j].rel \subseteq Relations /\ r \in Relations
  BY <1>1, <1>4, PackageFields
<1>6. Exact(plan, snapshot[j], ops, at, j, package[j])
  BY <1>4 DEF Undisturbed
<1>7. r \in snapshot[j].rel \/ DidRelation(ops, at, "create_relation", j, r)
  BY <1>3, <1>4, <1>5, <1>6 DEF Exact
<1>8. DidRelation(ops, at, "create_relation", j, r) => r \in _relations(plan, j)
  <2>1. \A i \in 1..at : Reasoned(plan, snapshot, ops[i])
    BY <1>1
  <2> QED  BY <2>1 DEF DidRelation, Reasoned
<1>9. CASE r \in _relations(plan, j)
  <2>1. j = k /\ r[1] = a[1] /\ r[2] = a[2]
    BY <1>1, <1>2, <1>3, <1>4, <1>9, OnePair
  <2> QED  BY <1>3, <2>1
<1>10. CASE r \notin _relations(plan, j)
  <2>1. HasRelation(ops, "remove_managed_relation", j, r)
    BY <1>1, <1>4, <1>7, <1>8, <1>10 DEF Serves
  <2>2. PICK i \in 1..Len(ops) :
           ops[i].kind = "remove_managed_relation" /\ ops[i].key = j /\ ops[i].arg = r
    BY <2>1 DEF HasRelation, Occurs
  <2>3. /\ _project_relation(r[1], j, r[2]) \in {<<j, r[2]>>, <<r[2], j>>}
        /\ _project_relation(a[1], k, a[2]) \in {<<k, a[2]>>, <<a[2], k>>}
    BY DEF _project_relation
  <2>4. {k, a[2]} = {j, r[2]}
    BY <1>3, <2>3
  <2>5. Retyped
    <3>1. /\ ops[at + 1].kind = "create_relation"
          /\ {ops[at + 1].key, ops[at + 1].arg[2]} = {ops[i].key, ops[i].arg[2]}
      BY <2>2, <2>4
    <3> QED  BY <1>1, <2>2, <3>1 DEF Retyped
  <2> QED  BY <2>5 DEF Undisturbed
<1> QED  BY <1>9, <1>10

\* The next operation finds what it needs.
LEMMA ResolvesHolds ==
    ASSUME Undisturbed, NEW x, x = ops[at + 1]
    PROVE  Resolves(x)
<1>1. /\ IsPlan(plan) /\ validate_plan(plan) /\ snapshot \in [Keys -> Packages]
      /\ Known(plan) \subseteq Keys
      /\ Reasoned(plan, snapshot, x) /\ Sound(snapshot)
  BY UndisturbedFacts DEF Undisturbed, IsPlan
<1>2. ASSUME x.kind = "set_parent", x.arg # NoParent
      PROVE  package[x.arg] # Absent
  <2>1. x.key \in Known(plan) /\ x.arg = plan.items[x.key].parent
    BY <1>1, <1>2 DEF Reasoned
  <2>2. x.arg \in Known(plan)
    BY <1>1, <1>2, <2>1, PlanTargets
  <2> QED  BY <1>1, <1>2, <2>2, StillThere
<1>3. ASSUME x.kind = "create_relation"
      PROVE  package[x.arg[2]] # Absent
  <2>1. x.key \in Known(plan) /\ x.arg \in _relations(plan, x.key)
    BY <1>1, <1>3 DEF Reasoned
  <2>2. x.arg[2] \in Known(plan)
    BY <1>1, <2>1, PlanTargets
  <2> QED  BY <1>1, <1>3, <2>2, StillThere
<1>4. ASSUME x.kind = "remove_managed_relation"
      PROVE  package[x.arg[2]] # Absent
  <2>1. x.key \in Keys /\ x.arg \in snapshot[x.key].rel
    BY <1>1, <1>4 DEF Reasoned
  <2>2. x.arg \in Relations
    BY <1>1, <2>1, PackageFields
  <2>3. x.arg[2] \in Keys /\ snapshot[x.arg[2]] # Absent
    BY <1>1, <2>1, <2>2 DEF Sound, Relations
  <2> QED  BY <1>4, <2>3, StillThere
<1>5. x.kind = "create_relation" => ~PairTaken(x.arg[1], x.key, x.arg[2])
  BY PairFree
<1> QED  BY <1>2, <1>3, <1>4, <1>5 DEF Resolves

\* It holds at first.
LEMMA InitFit ==
    ASSUME Init
    PROVE  FitInv
<1>1. phase = "idle" /\ Sound(package)
  BY InitSound DEF Init
<1> QED  BY <1>1 DEF FitInv, OperationsFit

\* A publication begins with a valid plan and a sound snapshot.
LEMMA PublishFit ==
    ASSUME DiffInv, FitInv, NEW p, publish(p)
    PROVE  FitInv'
<1>1. /\ phase = "idle" /\ phase' = "publishing" /\ plan' = p /\ validate_plan(p)
      /\ snapshot' = package /\ package' = package /\ at' = at
  BY DEF publish
<1>2. at = 0 /\ Sound(package)
  BY <1>1 DEF DiffInv, Typed, FitInv
<1>3. \A k \in Keys : Exact(p, package[k], ops', 0, k, package[k])
  BY ExactFirst
<1>4. validate_plan(plan') /\ Sound(snapshot')
  BY <1>1, <1>2
<1>5. \A k \in Keys : Exact(plan', snapshot'[k], ops', at', k, package'[k])
  BY <1>1, <1>2, <1>3
<1> QED  BY <1>1, <1>4, <1>5 DEF FitInv, OperationsFit

\* An operation that is applied changes its node by its own part.
LEMMA ApplyFit ==
    ASSUME DiffInv, FitInv, apply
    PROVE  FitInv'
<1> DEFINE x == ops[at + 1]
<1>1. /\ phase = "publishing" /\ at < Len(ops) /\ _assert_current(x)
      /\ package' = IF x.kind = "record_audit" THEN package
                    ELSE [package EXCEPT ![x.key] = Written(x)]
      /\ at' = at + 1
      /\ plan' = plan /\ ops' = ops /\ phase' = phase /\ snapshot' = snapshot /\ edited' = edited
  BY DEF apply
<1>2. /\ Typed /\ package \in [Keys -> Packages] /\ snapshot \in [Keys -> Packages]
      /\ at \in Nat /\ IsPlan(plan)
  BY <1>1 DEF DiffInv, Typed
<1>3. /\ validate_plan(plan) /\ Sound(snapshot)
      /\ \A k \in Keys \ edited : Exact(plan, snapshot[k], ops, at, k, package[k])
  BY <1>1 DEF FitInv
<1>4. Len(ops) \in Nat /\ \A i \in 1..Len(ops) : Reasoned(plan, snapshot, ops[i])
  BY <1>1, <1>2, OpsReasoned
<1>5. (\A i \in 1..at + 1 : Reasoned(plan, snapshot, ops[i])) /\ Reasoned(plan, snapshot, x)
  BY <1>1, <1>2, <1>4
<1>6. x.kind = "record_audit" => x.key = 0
  BY <1>5 DEF Reasoned
<1> HIDE DEF x
<1>7. ASSUME NEW k \in Keys \ edited
      PROVE  Exact(plan, snapshot[k], ops, at + 1, k, package'[k])
  <2>1. CASE x.kind # "record_audit" /\ x.key = k
    <3>1. package'[k] = Written(x)
      BY <1>1, <1>2, <2>1
    <3>2. Exact(plan, snapshot[k], ops, at, k, package[k])
      BY <1>3
    <3>3. Exact(plan, snapshot[k], ops, at + 1, k, Written(x))
      BY <1>1, <1>2, <1>5, <2>1, <3>2, ExactStep DEF x
    <3> QED  BY <3>1, <3>3
  <2>2. CASE x.kind = "record_audit" \/ x.key # k
    <3>1. package'[k] = package[k]
      BY <1>1, <1>2, <2>2
    <3>2. k # 0
      BY PlanAssumption
    <3>3. ops[at + 1].key # k
      BY <1>6, <2>2, <3>2 DEF x
    <3> QED  BY <1>2, <1>3, <3>1, <3>3, ExactOther
  <2> QED  BY <2>1, <2>2
<1>8. validate_plan(plan') /\ Sound(snapshot')
  BY <1>1, <1>3
<1>9. \A k \in Keys \ edited' : Exact(plan', snapshot'[k], ops', at', k, package'[k])
  BY <1>1, <1>7
<1> QED  BY <1>1, <1>8, <1>9 DEF FitInv, OperationsFit

\* A publication that nobody disturbed is not refused.
LEMMA EndFit ==
    ASSUME DiffInv, FitInv, Refuse \/ Complete
    PROVE  FitInv'
<1>1. /\ phase = "publishing" /\ phase' \in {"blocked", "completed"}
      /\ package' = package /\ plan' = plan /\ ops' = ops /\ at' = at
      /\ snapshot' = snapshot /\ edited' = edited
  BY DEF Refuse, Complete
<1>2. /\ validate_plan(plan) /\ Sound(snapshot)
      /\ \A k \in Keys \ edited : Exact(plan, snapshot[k], ops, at, k, package[k])
  BY <1>1 DEF FitInv
<1>3. validate_plan(plan') /\ Sound(snapshot')
  BY <1>1, <1>2
<1>4. \A k \in Keys \ edited' : Exact(plan', snapshot'[k], ops', at', k, package'[k])
  BY <1>1, <1>2
<1>5. ASSUME phase' = "blocked", edited = {}, ~Retyped,
             \A k \in Keys : /\ snapshot[k].parent # Unmanaged
                             /\ k \notin Known(plan) => package[k].rel = {}
      PROVE  FALSE
  <2>1. at < Len(ops) /\ ~(_assert_current(ops[at + 1]) /\ Resolves(ops[at + 1]))
    BY <1>5 DEF Refuse, Complete
  <2>2. Undisturbed
    BY <1>1, <1>2, <1>5, <2>1 DEF Undisturbed
  <2> QED  BY <2>1, <2>2, CurrentHolds, ResolvesHolds
<1>6. OperationsFit'
  <2>1. Retyped' <=> Retyped
    BY <1>1 DEF Retyped
  <2> QED  BY <1>1, <1>5, <2>1 DEF OperationsFit
<1> QED  BY <1>1, <1>3, <1>4, <1>6 DEF FitInv

\* A person's change leaves sound packages, and the others as they are.
LEMMA PersonFit ==
    ASSUME DiffInv, FitInv, NEW k \in Keys,
           \/ \E q \in {NoParent, Unmanaged} : Move(k, q)
           \/ \E r \in package[k].rel : Unrelate(k, r)
    PROVE  FitInv'
<1>1. Typed /\ package \in [Keys -> Packages] /\ package[k] \in Packages
  BY DEF DiffInv, Typed
<1>2. PICK w : /\ package' = [package EXCEPT ![k] = w] /\ package[k] # Absent
               /\ w.hash = package[k].hash /\ w.rel \subseteq package[k].rel
  <2>1. CASE \E q \in {NoParent, Unmanaged} : Move(k, q)
    <3>1. PICK q \in {NoParent, Unmanaged} : Move(k, q)
      BY <2>1
    <3> DEFINE v == [package[k] EXCEPT !.parent = q]
    <3>2. v.hash = package[k].hash /\ v.rel = package[k].rel
      BY <1>1 DEF Packages
    <3>3. package' = [package EXCEPT ![k] = v] /\ package[k] # Absent
      BY <1>1, <3>1 DEF Move
    <3> HIDE DEF v
    <3> QED  BY <3>2, <3>3
  <2>2. CASE \E r \in package[k].rel : Unrelate(k, r)
    <3>1. PICK r \in package[k].rel : Unrelate(k, r)
      BY <2>2
    <3> DEFINE v == [package[k] EXCEPT !.rel = package[k].rel \ {r}]
    <3>2. v.hash = package[k].hash /\ v.rel = package[k].rel \ {r}
      BY <1>1 DEF Packages
    <3>3. package' = [package EXCEPT ![k] = v]
      BY <1>1, <3>1 DEF Unrelate
    <3>4. package[k] # Absent
      BY <3>1 DEF Absent
    <3> HIDE DEF v
    <3>5. v.rel \subseteq package[k].rel
      BY <3>2
    <3> QED  BY <3>2, <3>3, <3>4, <3>5
  <2> QED  BY <2>1, <2>2
<1>3. /\ phase \in {"idle", "publishing"} /\ edited' = edited \union {k}
      /\ plan' = plan /\ ops' = ops /\ at' = at /\ phase' = phase /\ snapshot' = snapshot
  BY DEF Move, Unrelate
<1>4. ASSUME phase = "idle"
      PROVE  Sound(package')
  <2>1. Sound(package)
    BY <1>4 DEF FitInv
  <2> QED  BY <1>1, <1>2, <2>1, SoundKept
<1>5. ASSUME phase # "idle"
      PROVE  /\ validate_plan(plan') /\ Sound(snapshot')
             /\ \A j \in Keys \ edited' : Exact(plan', snapshot'[j], ops', at', j, package'[j])
  <2>1. /\ validate_plan(plan) /\ Sound(snapshot)
        /\ \A j \in Keys \ edited : Exact(plan, snapshot[j], ops, at, j, package[j])
    BY <1>5 DEF FitInv
  <2>2. \A j \in Keys \ edited' : j \in Keys \ edited /\ package'[j] = package[j]
    BY <1>1, <1>2, <1>3
  <2>3. validate_plan(plan') /\ Sound(snapshot')
    BY <1>3, <2>1
  <2> QED  BY <1>3, <2>1, <2>2, <2>3
<1>6. OperationsFit'
  BY <1>3 DEF OperationsFit
<1> QED  BY <1>3, <1>4, <1>5, <1>6 DEF FitInv

\* Every step keeps it.
LEMMA NextFit ==
    ASSUME DiffInv, FitInv, [Next]_vars
    PROVE  FitInv'
<1>1. CASE \E p \in Proposals : PublishFirst(p)
  BY <1>1, PublishFit DEF PublishFirst
<1>2. CASE \E p \in Proposals : \E R \in SUBSET (Known(base) \intersect Known(p)) \ {{}} :
              PublishReplan(R, p)
  <2>1. PICK p, R : PublishReplan(R, p)
    BY <1>2
  <2>2. \E q : publish(q)
    BY <2>1 DEF PublishReplan
  <2> QED  BY <2>2, PublishFit
<1>3. CASE apply
  BY <1>3, ApplyFit
<1>4. CASE Refuse \/ Complete
  BY <1>4, EndFit
<1>5. CASE \E k \in Keys : \/ \E p \in {NoParent, Unmanaged} : Move(k, p)
                           \/ \E r \in package[k].rel : Unrelate(k, r)
  BY <1>5, PersonFit
<1>6. CASE UNCHANGED vars
  <2>1. /\ package' = package /\ plan' = plan /\ ops' = ops /\ at' = at /\ phase' = phase
        /\ snapshot' = snapshot /\ edited' = edited
    BY <1>6 DEF vars
  <2>2. OperationsFit'
    <3>1. OperationsFit /\ (Retyped' <=> Retyped)
      BY <2>1 DEF FitInv, Retyped
    <3> QED  BY <2>1, <3>1 DEF OperationsFit
  <2>3. phase = "idle" => Sound(package')
    BY <2>1 DEF FitInv
  <2>4. phase # "idle" => validate_plan(plan') /\ Sound(snapshot')
    BY <2>1 DEF FitInv
  <2>5. phase # "idle" =>
          \A k \in Keys \ edited' : Exact(plan', snapshot'[k], ops', at', k, package'[k])
    BY <2>1 DEF FitInv
  <2> QED  BY <2>1, <2>2, <2>3, <2>4, <2>5 DEF FitInv
<1> QED  BY <1>1, <1>2, <1>3, <1>4, <1>5, <1>6 DEF Next

\* The operations of one diff fit one after the other: a publication is refused only
\* when somebody changed a package since the snapshot, or it replaces somebody's own
\* parent, or retypes a relation, or a relation of a dropped node is in the way
\* (plan_diff, _assert_current and the adapter's lookups).
THEOREM OperationsFitAlways == Spec => []OperationsFit
<1>1. Init => DiffInv /\ FitInv
  BY InitDiff, InitFit
<1>2. DiffInv /\ FitInv /\ [Next]_vars => DiffInv' /\ FitInv'
  BY NextDiff, NextFit
<1>3. FitInv => OperationsFit
  BY DEF FitInv
<1> QED  BY <1>1, <1>2, <1>3, PTL DEF Spec
=============================================================================
