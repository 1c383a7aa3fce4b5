------------------------------ MODULE Counting ------------------------------
(***************************************************************************)
(* How many arguments of a function have a value in a given set, and how   *)
(* that number changes with the function's value at one of them: what the  *)
(* proofs about counters of workers and of files rest on.                  *)
(***************************************************************************)
EXTENDS Integers, FiniteSets, FiniteSetTheorems, TLAPS

\* The arguments in S at which f has a value in A.
At(S, f, A) == {x \in S : f[x] \in A}

One(b) == IF b THEN 1 ELSE 0

\* They are finitely many, and no more than S has elements.
LEMMA AtFinite ==
    ASSUME NEW S, IsFiniteSet(S), NEW f, NEW A
    PROVE  /\ IsFiniteSet(At(S, f, A))
           /\ Cardinality(At(S, f, A)) \in Nat
           /\ Cardinality(At(S, f, A)) <= Cardinality(S)
  <1>1. At(S, f, A) \in SUBSET S
    BY DEF At
  <1>2. QED
    BY <1>1, FS_Subset, FS_CardinalityType

\* When f and g agree but at x, the numbers differ by at most one.
LEMMA AtUpdate ==
    ASSUME NEW S, IsFiniteSet(S), NEW f, NEW g, NEW A, NEW x \in S,
           \A z \in S \ {x} : g[z] = f[z]
    PROVE  Cardinality(At(S, g, A))
             = Cardinality(At(S, f, A)) + One(g[x] \in A) - One(f[x] \in A)
  <1> DEFINE old == At(S, f, A)
             new == At(S, g, A)
  <1>1. IsFiniteSet(old) /\ IsFiniteSet(new) /\ Cardinality(old) \in Nat
    BY AtFinite
  <1>2. (x \in old <=> f[x] \in A) /\ (x \in new <=> g[x] \in A)
    BY DEF At
  <1>3. \A z \in S \ {x} : z \in old <=> z \in new
    BY DEF At
  <1>4. old \subseteq S /\ new \subseteq S
    BY DEF At
  <1> HIDE DEF old, new
  <1>5. ASSUME g[x] \in A, f[x] \notin A PROVE Cardinality(new) = Cardinality(old) + 1
    <2>1. new = old \cup {x} /\ x \notin old
      BY <1>2, <1>3, <1>4, <1>5
    <2>2. QED
      BY <1>1, <2>1, FS_AddElement
  <1>6. ASSUME g[x] \notin A, f[x] \in A PROVE Cardinality(new) = Cardinality(old) - 1
    <2>1. new = old \ {x} /\ x \in old
      BY <1>2, <1>3, <1>4, <1>6
    <2>2. QED
      BY <1>1, <2>1, FS_RemoveElement
  <1>7. ASSUME g[x] \in A <=> f[x] \in A PROVE new = old
    BY <1>2, <1>3, <1>4, <1>7
  <1>8. Cardinality(new) = Cardinality(old) + One(g[x] \in A) - One(f[x] \in A)
    BY <1>1, <1>5, <1>6, <1>7 DEF One
  <1>9. QED
    BY <1>8 DEF new, old

\* The same, for functions known to agree but at x.
SameBut(S, f, g, x) == \A z \in S \ {x} : g[z] = f[z]

LEMMA AtChange ==
    ASSUME NEW S, IsFiniteSet(S), NEW f, NEW g, NEW x \in S, SameBut(S, f, g, x), NEW A
    PROVE  Cardinality(At(S, g, A))
             = Cardinality(At(S, f, A)) + One(g[x] \in A) - One(f[x] \in A)
  BY AtUpdate DEF SameBut

\* When as many arguments have such a value as there are, they all have.
LEMMA AtAll ==
    ASSUME NEW S, IsFiniteSet(S), NEW f, NEW A,
           Cardinality(At(S, f, A)) >= Cardinality(S)
    PROVE  \A x \in S : f[x] \in A
  <1>1. At(S, f, A) \in SUBSET S
    BY DEF At
  <1>2. At(S, f, A) = S
    BY <1>1, FS_Subset, FS_CardinalityType
  <1>3. QED
    BY <1>2 DEF At

\* A one-to-one image has as many elements.
LEMMA InjectiveImage ==
    ASSUME NEW C, IsFiniteSet(C), NEW h, \A x, y \in C : h[x] = h[y] => x = y
    PROVE  IsFiniteSet({h[x] : x \in C}) /\ Cardinality({h[x] : x \in C}) = Cardinality(C)
  <1> DEFINE D == {h[x] : x \in C}
             k == [x \in C |-> h[x]]
  <1> HIDE DEF k, D
  <1>1. /\ k \in [C -> D] /\ \A x, y \in C : k[x] = k[y] => x = y
        /\ \A z \in D : \E x \in C : k[x] = z
    BY DEF k, D
  <1>2. ExistsBijection(C, D)
    <2>1. k \in Injection(C, D)
      BY <1>1 DEF Injection, IsInjective
    <2>2. k \in Surjection(C, D)
      BY <1>1 DEF Surjection
    <2>3. QED
      BY <2>1, <2>2 DEF ExistsBijection, Bijection
  <1>3. IsFiniteSet(D) /\ Cardinality(D) = Cardinality(C)
    BY <1>2, FS_Bijection
  <1>4. QED
    BY <1>3 DEF D

\* Disjoint parts of a set have together no more elements than it has.
LEMMA DisjointParts ==
    ASSUME NEW S, IsFiniteSet(S), NEW A \in SUBSET S, NEW B \in SUBSET S, NEW C \in SUBSET S,
           A \cap B = {}, (A \cup B) \cap C = {}
    PROVE  Cardinality(A) + Cardinality(B) + Cardinality(C) <= Cardinality(S)
  <1>1. IsFiniteSet(A) /\ IsFiniteSet(B) /\ IsFiniteSet(C)
    BY FS_Subset
  <1>2. Cardinality(A \cap B) = 0 /\ Cardinality((A \cup B) \cap C) = 0
    BY FS_EmptySet, Zenon
  <1>3. Cardinality(A) \in Nat /\ Cardinality(B) \in Nat /\ Cardinality(C) \in Nat
    BY <1>1, FS_CardinalityType
  <1>4. /\ IsFiniteSet(A \cup B)
        /\ Cardinality(A \cup B) = Cardinality(A) + Cardinality(B) - Cardinality(A \cap B)
    BY <1>1, FS_Union
  <1>5. Cardinality(A \cup B) = Cardinality(A) + Cardinality(B)
    BY <1>2, <1>3, <1>4
  <1>6. Cardinality((A \cup B) \cup C)
          = Cardinality(A \cup B) + Cardinality(C) - Cardinality((A \cup B) \cap C)
    BY <1>1, <1>4, FS_Union
  <1>7. Cardinality((A \cup B) \cup C) = Cardinality(A) + Cardinality(B) + Cardinality(C)
    BY <1>2, <1>3, <1>5, <1>6
  <1>8. (A \cup B) \cup C \in SUBSET S
    OBVIOUS
  <1>9. Cardinality((A \cup B) \cup C) <= Cardinality(S)
    BY <1>8, FS_Subset
  <1>10. QED
    BY <1>7, <1>9
=============================================================================
