-------------------------------- MODULE DataProofs --------------------------------
(***************************************************************************)
(* Theorems about what the control plane computes of data of any size: the *)
(* contract it publishes of a tool, the notes a listing meets, the edits   *)
(* of a document, and the compact index of Recall.                         *)
(*                                                                         *)
(* These computations go through a sequence step by step, and are written  *)
(* as recursive functions.  The first section has what is needed to reason *)
(* about them: induction up to a number, from the well-foundedness of the  *)
(* natural numbers, and the existence of the function that satisfies a     *)
(* recursive equation.  Each computation is then shown to be what its      *)
(* specification says (the merge of a set, a path that is normal, the      *)
(* lines outside of a section, the candidates in their order), and each    *)
(* component has its inductive invariant in terms of that.                 *)
(***************************************************************************)
EXTENDS ToolCatalog, NoteSearch, RecallEdits, ContextIndex, FiniteSetTheorems, FunctionTheorems,
        WellFoundedInduction, TLAPS

(* ---- Recursion and order ------------------------------------------------- *)

(* A set of natural numbers that is not empty has a least element.         *)
LEMMA LeastNatural ==
  ASSUME NEW S \in SUBSET Nat, S # {}
  PROVE  \E m \in S : \A n \in S : m <= n
PROOF
<1>1. PICK m \in S : \A n \in S : ~(<<n, m>> \in OpToRel(<, Nat))
  BY NatLessThanWellFounded, WFMin
<1>2. ASSUME NEW n \in S, n < m PROVE <<n, m>> \in OpToRel(<, Nat)
  <2>1. n \in Nat /\ m \in Nat
    OBVIOUS
  <2> QED
    BY <1>2, <2>1 DEF OpToRel
<1>3. \A n \in S : n \in Nat /\ m \in Nat /\ ~(n < m)
  BY <1>1, <1>2
<1> QED
  BY <1>3

(* What holds of 0, and of i if it holds of i - 1, holds up to n.          *)
LEMMA InductionUpTo ==
  ASSUME NEW n \in Nat, NEW S, 0 \in S, \A i \in 1..n : i - 1 \in S => i \in S
  PROVE  0..n \subseteq S
PROOF
<1> DEFINE Bad == {i \in 0..n : i \notin S}
<1>1. SUFFICES ASSUME Bad # {} PROVE FALSE
  OBVIOUS
<1>2. PICK m \in Bad : \A i \in Bad : m <= i
  BY <1>1, LeastNatural, Bad \in SUBSET Nat
<1>3. m # 0 /\ m - 1 \in 0..n /\ m - 1 \notin Bad
  BY <1>2
<1> QED
  BY <1>2, <1>3

(* The values of a recursion up to n, in a set A.                          *)
Run(n, A, base, step, f) ==
  /\ f \in [0..n -> A] /\ f[0] = base
  /\ \A i \in 1..n : f[i] = step[<<i, f[i - 1]>>]

(* A recursion whose steps stay in A has such values.  A recursive         *)
(* function, which is some function that satisfies its equation, is        *)
(* therefore the one the recursion computes.                               *)
LEMMA RecursionUpTo ==
  ASSUME NEW n \in Nat, NEW A, NEW base \in A, NEW step \in [(1..n) \X A -> A]
  PROVE  \E f : Run(n, A, base, step, f)
PROOF
<1> DEFINE S == {k \in 0..n : \E f : Run(k, A, base, step, f)}
<1>1. 0 \in S
  <2> DEFINE g == [i \in 0..0 |-> base]
  <2>1. g \in [0..0 -> A] /\ Run(0, A, base, step, g)
    BY DEF Run
  <2> HIDE DEF g
  <2> QED
    BY <2>1
<1>2. ASSUME NEW k \in 1..n, k - 1 \in S PROVE k \in S
  <2>1. PICK f : Run(k - 1, A, base, step, f)
    BY <1>2
  <2> DEFINE g == [i \in 0..k |-> IF i = k THEN step[<<k, f[k - 1]>>] ELSE f[i]]
  <2> USE DEF Run
  <2>2. f[k - 1] \in A /\ <<k, f[k - 1]>> \in (1..n) \X A
    BY <2>1
  <2>3. step[<<k, f[k - 1]>>] \in A
    BY <2>2
  <2>4. g \in [0..k -> A] /\ g[0] = base
    BY <2>1, <2>3
  <2>5. ASSUME NEW i \in 1..k PROVE g[i] = step[<<i, g[i - 1]>>]
    <3>1. CASE i = k
      <4>1. k \in 0..k /\ k - 1 \in 0..k /\ k - 1 # k
        OBVIOUS
      <4>2. g[k] = step[<<k, f[k - 1]>>] /\ g[k - 1] = f[k - 1]
        BY <4>1
      <4> QED
        BY <3>1, <4>2
    <3>2. CASE i # k
      <4>1. i \in 1..(k - 1) /\ i \in 0..k /\ i - 1 \in 0..k /\ i - 1 # k
        BY <3>2
      <4> QED
        BY <2>1, <3>2, <4>1
    <3> QED
      BY <3>1, <3>2
  <2>6. Run(k, A, base, step, g)
    BY <2>4, <2>5
  <2> HIDE DEF g, Run
  <2> QED
    BY <2>6
<1>3. 0..n \subseteq S
  <2> HIDE DEF S
  <2> QED
    BY <1>1, <1>2, InductionUpTo
<1>4. n \in S
  BY <1>3
<1> QED
  BY <1>4

(* How many elements of a set have a key that is not above that of i.      *)
Rank(K, key, i) == Cardinality({j \in K : key[j] <= key[i]})

(* Every element has a rank of its own, and every number up to the size is *)
(* the rank of one.                                                        *)
Ranked(K, key) ==
  /\ \A i \in K : Rank(K, key, i) \in 1..Cardinality(K)
  /\ \A i, j \in K : Rank(K, key, i) = Rank(K, key, j) => i = j
  /\ \A n \in 1..Cardinality(K) : \E i \in K : Rank(K, key, i) = n

(* In a finite set whose elements have distinct keys, every element has a  *)
(* rank of its own, and every number up to the size is the rank of one.    *)
LEMMA RanksAreOne ==
  ASSUME NEW K, IsFiniteSet(K), NEW key \in [K -> Int],
         \A i, j \in K : key[i] = key[j] => i = j
  PROVE  Ranked(K, key)
PROOF
<1> DEFINE UpTo(i) == {j \in K : key[j] <= key[i]}
<1>1. Cardinality(K) \in Nat
  BY FS_CardinalityType
<1>2. \A i \in K : /\ IsFiniteSet(UpTo(i)) /\ Cardinality(UpTo(i)) <= Cardinality(K)
                   /\ Cardinality(UpTo(i)) \in Nat
  <2>1. \A i \in K : UpTo(i) \in SUBSET K
    OBVIOUS
  <2> HIDE DEF UpTo
  <2> QED
    BY <2>1, FS_Subset, FS_CardinalityType
<1>3. \A i \in K : i \in UpTo(i) /\ UpTo(i) # {}
  OBVIOUS
<1>4. \A i \in K : Rank(K, key, i) = Cardinality(UpTo(i))
  BY DEF Rank
<1>5. ASSUME NEW i \in K PROVE Rank(K, key, i) \in 1..Cardinality(K)
  <2>1. Cardinality(UpTo(i)) # 0
    <3> HIDE DEF UpTo
    <3> QED
      BY <1>2, <1>3, FS_EmptySet
  <2> HIDE DEF UpTo
  <2> QED
    BY <1>1, <1>2, <1>4, <2>1
<1>6. ASSUME NEW i \in K, NEW j \in K, key[i] < key[j] PROVE Rank(K, key, i) # Rank(K, key, j)
  <2>0. \A k \in K : key[k] \in Int
    OBVIOUS
  <2>1. UpTo(i) \in SUBSET UpTo(j) /\ j \in UpTo(j) /\ j \notin UpTo(i)
    <3>1. key[i] \in Int /\ key[j] \in Int /\ key[i] < key[j] /\ ~(key[j] <= key[i])
      BY <1>6, <2>0
    <3>2. ASSUME NEW k \in UpTo(i) PROVE k \in UpTo(j)
      <4>1. k \in K /\ key[k] \in Int /\ key[k] <= key[i]
        BY <2>0
      <4>2. key[k] <= key[j]
        BY <3>1, <4>1
      <4> QED
        BY <4>1, <4>2
    <3>3. j \in UpTo(j) /\ j \notin UpTo(i)
      BY <3>1
    <3> QED
      BY <3>2, <3>3
  <2> HIDE DEF UpTo
  <2>2. Cardinality(UpTo(j)) # Cardinality(UpTo(i))
    BY <1>2, <2>1, FS_Subset
  <2> QED
    BY <1>4, <2>2
<1>7. \A i, j \in K : Rank(K, key, i) = Rank(K, key, j) => i = j
  <2>1. \A i, j \in K : key[i] < key[j] \/ key[j] < key[i] \/ i = j
    OBVIOUS
  <2> QED
    BY <1>6, <2>1
<1> DEFINE f == [i \in K |-> Rank(K, key, i)]  n == Cardinality(K)
<1>8. f \in [K -> 1..n] /\ \A i, j \in K : f[i] = f[j] => i = j
  BY <1>5, <1>7
<1>9. IsFiniteSet(1..n) /\ Cardinality(1..n) = n
  BY <1>1, FS_Interval
<1>10. f \in Injection(K, 1..n)
  <2> HIDE DEF f, n
  <2> QED
    BY <1>8, Fun_IsInj
<1>11. f \in Surjection(K, 1..n)
  <2>1. Cardinality(K) = Cardinality(1..n)
    BY <1>9
  <2> HIDE DEF f, n
  <2> QED
    BY <1>9, <1>10, <2>1, FS_Injection
<1>12. \A m \in 1..n : \E i \in K : f[i] = m
  <2> HIDE DEF f, n
  <2>1. ASSUME NEW D, f \in Surjection(K, D) PROVE \A m \in D : \E i \in K : f[i] = m
    BY <2>1, Fun_SurjectionProperties
  <2> QED
    BY <1>11, <2>1
<1> QED
  BY <1>5, <1>7, <1>12 DEF Ranked

(* The least element of a set of natural numbers is one of them.          *)
LEMMA LeastOf ==
  ASSUME NEW S \in SUBSET Nat, S # {}
  PROVE  Min(S) \in S /\ \A x \in S : Min(S) <= x
PROOF
<1>1. \E m \in S : \A x \in S : m <= x
  BY LeastNatural
<1> QED
  BY <1>1 DEF Min

(* ---- The tool catalog ---------------------------------------------------- *)
(* The catalog is right as soon as nothing is to do: the invariant ties    *)
(* what is published, stored and registered to the merge of what is live,  *)
(* and says who is behind.                                                 *)

(* What two contracts have to agree on, and what a set of them merges to.  *)
Agree(a, b) == a.vis = b.vis /\ a.meta = b.meta /\ SchemasAgree(a, b)
(* Contracts any two of which agree.                                       *)
Compatible(C) == \A a, b \in C : Agree(a, b)
(* Contracts with the same binding.                                        *)
SameBinding(C) == \A a, b \in C : a.binding = b.binding

(* What a contract is of the contracts that it was merged of.              *)
IsMerge(m, C) ==
  /\ m \in AnyContract
  /\ \A c \in C : m.required = c.required /\ m.other = c.other /\ m.vis = c.vis /\ m.meta = c.meta
  /\ \A x : x \in DOMAIN m.props <=> \E c \in C : x \in DOMAIN c.props
  /\ \A c \in C : \A x \in DOMAIN c.props : m.props[x] = c.props[x]
  /\ IF SameBinding(C) THEN \A c \in C : m.binding = c.binding ELSE m.binding = "none"
  /\ \A h : h \in m.safe <=> \A c \in C : h \in c.safe

(* A contract is the record of its fields.                                 *)
LEMMA ContractFields ==
  ASSUME NEW m \in AnyContract
  PROVE  /\ m = [required |-> m.required, props |-> m.props, other |-> m.other, vis |-> m.vis,
                 meta |-> m.meta, binding |-> m.binding, safe |-> m.safe]
         /\ DOMAIN m.props \subseteq PropertyNames
         /\ m.props = [x \in DOMAIN m.props |-> m.props[x]]
         /\ \A x \in DOMAIN m.props : m.props[x] \in PropertySchemas
         /\ m.safe \subseteq UNION {c.safe : c \in Contract}
PROOF
<1>1. PICK D \in SUBSET PropertyNames : m.props \in [D -> PropertySchemas]
  BY DEF AnyContract
<1>2. DOMAIN m.props = D
  BY <1>1
<1>3. \A x \in DOMAIN m.props : m.props[x] \in PropertySchemas
  BY <1>1, <1>2
<1>4. m.props = [x \in DOMAIN m.props |-> m.props[x]]
  BY <1>1, <1>2
<1> QED
  BY <1>1, <1>2, <1>3, <1>4 DEF AnyContract

(* There is one merge of a set of contracts at most.                       *)
LEMMA MergeIsOne ==
  ASSUME NEW C, C # {}, NEW m, NEW n, IsMerge(m, C), IsMerge(n, C)
  PROVE  m = n
PROOF
<1>1. PICK c \in C : TRUE
  OBVIOUS
<1>2. m.required = n.required /\ m.other = n.other /\ m.vis = n.vis /\ m.meta = n.meta
  BY <1>1 DEF IsMerge
<1>3. DOMAIN m.props = DOMAIN n.props
  BY DEF IsMerge
<1>4. \A x \in DOMAIN m.props : m.props[x] = n.props[x]
  BY DEF IsMerge
<1>5. m.props = n.props
  <2>1. /\ m.props = [x \in DOMAIN m.props |-> m.props[x]]
        /\ n.props = [x \in DOMAIN n.props |-> n.props[x]]
    BY ContractFields DEF IsMerge
  <2> QED
    BY <1>3, <1>4, <2>1
<1>6. m.binding = n.binding
  BY <1>1 DEF IsMerge
<1>7. m.safe = n.safe
  BY DEF IsMerge
<1>8. /\ m = [required |-> m.required, props |-> m.props, other |-> m.other, vis |-> m.vis,
              meta |-> m.meta, binding |-> m.binding, safe |-> m.safe]
      /\ n = [required |-> n.required, props |-> n.props, other |-> n.other, vis |-> n.vis,
              meta |-> n.meta, binding |-> n.binding, safe |-> n.safe]
  BY ContractFields DEF IsMerge
<1> QED
  BY <1>2, <1>5, <1>6, <1>7, <1>8

(* What two contracts have in common, field by field.                      *)
LEMMA CommonIs ==
  ASSUME NEW a \in AnyContract, NEW b \in AnyContract
  PROVE  Common(a, b) =
           [required |-> a.required,
            props |-> [x \in DOMAIN a.props \cup DOMAIN b.props |->
                         IF x \in DOMAIN a.props THEN a.props[x] ELSE b.props[x]],
            other |-> a.other, vis |-> a.vis, meta |-> a.meta,
            binding |-> IF a.binding = b.binding THEN a.binding ELSE "none",
            safe |-> a.safe \cap b.safe]
PROOF
<1>1. a = [required |-> a.required, props |-> a.props, other |-> a.other, vis |-> a.vis,
           meta |-> a.meta, binding |-> a.binding, safe |-> a.safe]
  BY ContractFields
<1> DEFINE P == [x \in DOMAIN a.props \cup DOMAIN b.props |->
                   IF x \in DOMAIN a.props THEN a.props[x] ELSE b.props[x]]
<1> HIDE DEF P
<1>2. [a EXCEPT !.props = P] =
        [required |-> a.required, props |-> P, other |-> a.other, vis |-> a.vis,
         meta |-> a.meta, binding |-> a.binding, safe |-> a.safe]
  BY <1>1
<1>3. MergeSchemas(a, b) = [a EXCEPT !.props = P]
  BY DEF MergeSchemas, P
<1>4. Common(a, b) = [required |-> a.required, props |-> P, other |-> a.other, vis |-> a.vis,
         meta |-> a.meta, binding |-> IF a.binding = b.binding THEN a.binding ELSE "none",
         safe |-> a.safe \cap b.safe]
  <2> DEFINE R == [required |-> a.required, props |-> P, other |-> a.other, vis |-> a.vis,
                   meta |-> a.meta, binding |-> a.binding, safe |-> a.safe]
  <2>1. MergeSchemas(a, b) = R
    BY <1>2, <1>3
  <2>2. Common(a, b) = [[R EXCEPT !.binding = IF a.binding = b.binding THEN R.binding ELSE "none"]
                          EXCEPT !.safe = a.safe \cap b.safe]
    BY <2>1 DEF Common
  <2> QED
    BY <2>2
<1> QED
  BY <1>4 DEF P

(* What two contracts have in common is a contract.                        *)
LEMMA CommonTyped ==
  ASSUME NEW a \in AnyContract, NEW b \in AnyContract
  PROVE  Common(a, b) \in AnyContract
PROOF
<1> DEFINE P == [x \in DOMAIN a.props \cup DOMAIN b.props |->
                   IF x \in DOMAIN a.props THEN a.props[x] ELSE b.props[x]]
           D == DOMAIN a.props \cup DOMAIN b.props
<1>1. D \in SUBSET PropertyNames /\ P \in [D -> PropertySchemas]
  BY ContractFields
<1>2. P \in UNION {[E -> PropertySchemas] : E \in SUBSET PropertyNames}
  BY <1>1
<1>3. a.safe \cap b.safe \in SUBSET UNION {c.safe : c \in Contract}
  BY ContractFields
<1> HIDE DEF P
<1>4. Common(a, b) = [required |-> a.required, props |-> P, other |-> a.other, vis |-> a.vis,
         meta |-> a.meta, binding |-> IF a.binding = b.binding THEN a.binding ELSE "none",
         safe |-> a.safe \cap b.safe]
  BY CommonIs DEF P
<1> QED
  BY <1>2, <1>3, <1>4 DEF AnyContract

(* One contract more.                                                      *)
LEMMA MergeOneMore ==
  ASSUME NEW C, C # {}, C \subseteq AnyContract, NEW d \in AnyContract, NEW m,
         Compatible(C) /\ IsMerge(m, C), NoContract \notin AnyContract
  PROVE  IF Compatible(C \cup {d}) THEN IsMerge(MergeTwo(m, d), C \cup {d})
         ELSE MergeTwo(m, d) = NoContract
PROOF
<1>1. m \in AnyContract /\ m # NoContract
  BY DEF IsMerge
<1>2. PICK c \in C : TRUE
  OBVIOUS
<1>3. Compatible(C \cup {d}) <=> \A a \in C : Agree(a, d)
  BY DEF Compatible, Agree, SchemasAgree
<1>4. SchemasAgree(m, d) <=> \A a \in C : SchemasAgree(a, d)
  <2>1. m.required = d.required /\ m.other = d.other
          <=> \A a \in C : a.required = d.required /\ a.other = d.other
    BY <1>2 DEF IsMerge
  <2>2. (\A x \in DOMAIN m.props \cap DOMAIN d.props : m.props[x] = d.props[x])
          <=> \A a \in C : \A x \in DOMAIN a.props \cap DOMAIN d.props : a.props[x] = d.props[x]
    BY DEF IsMerge
  <2>3. ASSUME NEW a \in C PROVE a.required = m.required
    BY DEF IsMerge
  <2>4. ASSUME NEW a \in C, NEW x \in m.required
        PROVE  x \in DOMAIN m.props <=> x \in DOMAIN a.props
    BY <2>3 DEF IsMerge, Compatible, Agree, SchemasAgree
  <2> QED
    BY <1>2, <2>1, <2>2, <2>3, <2>4 DEF SchemasAgree
<1>5. m.vis = d.vis /\ m.meta = d.meta /\ SchemasAgree(m, d) <=> \A a \in C : Agree(a, d)
  BY <1>2, <1>4 DEF IsMerge, Agree
<1>6. CASE ~Compatible(C \cup {d})
  BY <1>1, <1>3, <1>5, <1>6 DEF MergeTwo
<1>7. CASE Compatible(C \cup {d})
  <2>1. MergeTwo(m, d) = Common(m, d) /\ \A a \in C : Agree(a, d)
    BY <1>1, <1>3, <1>5, <1>7 DEF MergeTwo
  <2> DEFINE n == Common(m, d)  E == C \cup {d}
  <2>2. n \in AnyContract
    BY <1>1, CommonTyped
  <2>3. /\ n.required = m.required /\ n.other = m.other /\ n.vis = m.vis /\ n.meta = m.meta
        /\ DOMAIN n.props = DOMAIN m.props \cup DOMAIN d.props
        /\ \A x \in DOMAIN m.props : n.props[x] = m.props[x]
        /\ \A x \in DOMAIN d.props : x \notin DOMAIN m.props => n.props[x] = d.props[x]
        /\ n.binding = IF m.binding = d.binding THEN m.binding ELSE "none"
        /\ n.safe = m.safe \cap d.safe
    <3> DEFINE P == [x \in DOMAIN m.props \cup DOMAIN d.props |->
                       IF x \in DOMAIN m.props THEN m.props[x] ELSE d.props[x]]
    <3>1. n = [required |-> m.required, props |-> P, other |-> m.other, vis |-> m.vis,
               meta |-> m.meta, binding |-> IF m.binding = d.binding THEN m.binding ELSE "none",
               safe |-> m.safe \cap d.safe]
      BY <1>1, CommonIs
    <3>2. /\ DOMAIN P = DOMAIN m.props \cup DOMAIN d.props
          /\ \A x \in DOMAIN m.props : P[x] = m.props[x]
          /\ \A x \in DOMAIN d.props : x \notin DOMAIN m.props => P[x] = d.props[x]
      OBVIOUS
    <3> HIDE DEF P, n
    <3> QED
      BY <3>1, <3>2
  <2> HIDE DEF n
  <2>4. \A a \in E : n.required = a.required /\ n.other = a.other /\ n.vis = a.vis /\ n.meta = a.meta
    BY <1>2, <2>1, <2>3 DEF IsMerge, Agree, SchemasAgree
  <2>5. \A x : x \in DOMAIN n.props <=> \E a \in E : x \in DOMAIN a.props
    BY <2>3 DEF IsMerge
  <2>6. \A a \in E : \A x \in DOMAIN a.props : n.props[x] = a.props[x]
    BY <1>3, <1>5, <1>7, <2>3 DEF IsMerge, SchemasAgree
  <2>7. IF SameBinding(E) THEN \A a \in E : n.binding = a.binding ELSE n.binding = "none"
    <3>1. CASE SameBinding(C)
      BY <1>2, <2>3, <3>1 DEF IsMerge, SameBinding
    <3>2. CASE ~SameBinding(C)
      BY <2>3, <3>2 DEF IsMerge, SameBinding
    <3> QED
      BY <3>1, <3>2
  <2>8. \A h : h \in n.safe <=> \A a \in E : h \in a.safe
    BY <2>3 DEF IsMerge
  <2>9. IsMerge(n, E)
    BY <2>2, <2>4, <2>5, <2>6, <2>7, <2>8 DEF IsMerge
  <2> QED
    BY <1>7, <2>1, <2>9 DEF n
<1> QED
  BY <1>6, <1>7

(* The merge of a fleet is computed one contract after the other.          *)
LEMMA MergedRuns ==
  ASSUME NEW ds \in Seq(AnyContract), ds # <<>>, \A i \in 1..Len(ds) : ds[i].vis # {}
  PROVE  \E M \in [1..Len(ds) -> AnyContract \cup {NoContract}] :
           /\ M[1] = ds[1] /\ \A i \in 2..Len(ds) : M[i] = MergeTwo(M[i - 1], ds[i])
           /\ MergeFleet(ds) = M[Len(ds)]
PROOF
<1> DEFINE A == AnyContract \cup {NoContract}
           n == Len(ds) - 1
           step == [x \in (1..n) \X A |-> MergeTwo(x[2], ds[x[1] + 1])]
           Body(M) == [i \in 1..Len(ds) |-> IF i = 1 THEN ds[1] ELSE MergeTwo(M[i - 1], ds[i])]
<1>1. n \in Nat /\ Len(ds) = n + 1 /\ \A i \in 1..Len(ds) : ds[i] \in AnyContract
  OBVIOUS
<1>2. ASSUME NEW x \in A, NEW d \in AnyContract PROVE MergeTwo(x, d) \in A
  BY <1>2, CommonTyped DEF MergeTwo
<1>3. step \in [(1..n) \X A -> A]
  <2>1. ASSUME NEW x \in (1..n) \X A PROVE MergeTwo(x[2], ds[x[1] + 1]) \in A
    <3>1. x[2] \in A /\ ds[x[1] + 1] \in AnyContract
      BY <1>1
    <3> QED
      BY <1>2, <3>1
  <2> QED
    BY <2>1
<1>4. ds[1] \in A
  BY <1>1
<1>5. PICK f : Run(n, A, ds[1], step, f)
  <2> HIDE DEF step, A, n
  <2> QED
    BY <1>1, <1>3, <1>4, RecursionUpTo
<1> DEFINE F == [i \in 1..Len(ds) |-> f[i - 1]]
<1>6. F[1] = ds[1] /\ F \in [1..Len(ds) -> A]
  BY <1>1, <1>5 DEF Run
<1>7. ASSUME NEW i \in 2..Len(ds) PROVE F[i] = MergeTwo(F[i - 1], ds[i])
  <2>1. i - 1 \in 1..n /\ i \in 1..Len(ds) /\ i - 1 \in 1..Len(ds) /\ (i - 1) - 1 \in 0..n
    BY <1>1
  <2>2. F[i] = f[i - 1] /\ F[i - 1] = f[(i - 1) - 1]
    BY <2>1
  <2>3. <<i - 1, f[(i - 1) - 1]>> \in (1..n) \X A
    BY <1>5, <2>1 DEF Run
  <2>4. f[i - 1] = MergeTwo(f[(i - 1) - 1], ds[(i - 1) + 1])
    BY <1>5, <2>1, <2>3 DEF Run
  <2>5. (i - 1) + 1 = i
    BY <1>1
  <2> QED
    BY <2>2, <2>4, <2>5
<1>8. F = Body(F)
  <2>1. ASSUME NEW i \in 1..Len(ds) PROVE F[i] = IF i = 1 THEN ds[1] ELSE MergeTwo(F[i - 1], ds[i])
    <3>1. i # 1 => i \in 2..Len(ds)
      BY <1>1
    <3> HIDE DEF F
    <3> QED
      BY <1>6, <1>7, <3>1
  <2> HIDE DEF F
  <2> QED
    BY <1>6, <2>1
<1> DEFINE M == CHOOSE M : M = Body(M)
<1>9. M = Body(M)
  <2> HIDE DEF F, Body
  <2> QED
    BY <1>8
<1>10. MergeFleet(ds) = M[Len(ds)]
  <2>1. ~\E i \in DOMAIN ds : ds[i].vis = {}
    OBVIOUS
  <2> QED
    BY <2>1 DEF MergeFleet
<1>11. DOMAIN M = 1..Len(ds) /\ M[1] = ds[1] /\ \A i \in 2..Len(ds) : M[i] = MergeTwo(M[i - 1], ds[i])
  <2> HIDE DEF M
  <2>1. DOMAIN M = 1..Len(ds) /\ \A i \in 1..Len(ds) : M[i] = IF i = 1 THEN ds[1] ELSE MergeTwo(M[i - 1], ds[i])
    BY <1>9
  <2>2. 1 \in 1..Len(ds) /\ \A i \in 2..Len(ds) : i \in 1..Len(ds) /\ i # 1
    BY <1>1
  <2> QED
    BY <2>1, <2>2
<1>12. M = Body(M) /\ M \in [1..Len(ds) -> A]
  <2> DEFINE S == {i \in 0..n : M[i + 1] \in A}
  <2> HIDE DEF M, A
  <2>1. 0 \in S
    BY <1>1, <1>4, <1>11
  <2>2. ASSUME NEW i \in 1..n, i - 1 \in S PROVE i \in S
    <3>1. i + 1 \in 2..Len(ds) /\ (i + 1) - 1 = i /\ (i - 1) + 1 = i /\ i \in 0..n
      BY <1>1
    <3>2. M[i + 1] = MergeTwo(M[i], ds[i + 1]) /\ M[i] \in A /\ ds[i + 1] \in AnyContract
      BY <1>1, <1>11, <2>2, <3>1
    <3> QED
      BY <1>2, <3>1, <3>2
  <2>3. 0..n \subseteq S
    <3> HIDE DEF S
    <3> QED
      BY <1>1, <2>1, <2>2, InductionUpTo
  <2>4. ASSUME NEW i \in 1..Len(ds) PROVE M[i] \in A
    <3>1. i - 1 \in 0..n /\ (i - 1) + 1 = i
      BY <1>1
    <3> QED
      BY <2>3, <3>1
  <2>5. M = [i \in 1..Len(ds) |-> M[i]]
    BY <1>9
  <2> QED
    BY <1>9, <2>4, <2>5
<1> HIDE DEF M
<1> QED
  BY <1>10, <1>11, <1>12

(* The merge of a fleet is that of the set of its contracts, and there is  *)
(* none if two of them conflict.                                           *)
LEMMA MergeFleetIs ==
  ASSUME NEW ds \in Seq(AnyContract), ds # <<>>, \A i \in 1..Len(ds) : ds[i].vis # {},
         NoContract \notin AnyContract
  PROVE  IF Compatible(ToSet(ds)) THEN IsMerge(MergeFleet(ds), ToSet(ds))
         ELSE MergeFleet(ds) = NoContract
PROOF
<1>1. PICK M \in [1..Len(ds) -> AnyContract \cup {NoContract}] :
           /\ M[1] = ds[1] /\ \A i \in 2..Len(ds) : M[i] = MergeTwo(M[i - 1], ds[i])
           /\ MergeFleet(ds) = M[Len(ds)]
  BY MergedRuns
<1> DEFINE n == Len(ds) - 1
           First(i) == {ds[j] : j \in 1..i}
           S == {i \in 0..n : IF Compatible(First(i + 1)) THEN IsMerge(M[i + 1], First(i + 1))
                              ELSE M[i + 1] = NoContract}
<1>2. n \in Nat /\ Len(ds) = n + 1 /\ \A i \in 1..Len(ds) : ds[i] \in AnyContract
  OBVIOUS
<1>3. 0 \in S
  <2>1. First(1) = {ds[1]} /\ ds[1] \in AnyContract
    BY <1>2
  <2>2. Compatible({ds[1]}) /\ IsMerge(ds[1], {ds[1]})
    BY <2>1 DEF Compatible, Agree, SchemasAgree, IsMerge, SameBinding
  <2> HIDE DEF First
  <2>3. 0 + 1 = 1 /\ 0 \in 0..n
    BY <1>2
  <2>4. M[1] = ds[1]
    BY <1>1
  <2> QED
    BY <2>1, <2>2, <2>3, <2>4
<1>4. ASSUME NEW i \in 1..n, i - 1 \in S PROVE i \in S
  <2>1. i + 1 \in 2..Len(ds) /\ (i + 1) - 1 = i /\ (i - 1) + 1 = i /\ i \in 0..n
    BY <1>2
  <2>2. First(i + 1) = First(i) \cup {ds[i + 1]}
    <3>1. \A j : j \in 1..(i + 1) <=> j \in 1..i \/ j = i + 1
      OBVIOUS
    <3> QED
      BY <3>1
  <2>3. First(i) \subseteq AnyContract /\ First(i) # {} /\ ds[i + 1] \in AnyContract
    <3>1. 1 \in 1..i /\ 1..i \subseteq 1..Len(ds) /\ i + 1 \in 1..Len(ds)
      BY <1>2
    <3> QED
      BY <1>2, <3>1
  <2>4. M[i + 1] = MergeTwo(M[i], ds[i + 1])
    BY <1>1, <2>1
  <2>5. IF Compatible(First(i)) THEN IsMerge(M[i], First(i)) ELSE M[i] = NoContract
    BY <1>4, <2>1
  <2> HIDE DEF First
  <2>6. CASE Compatible(First(i))
    <3>1. IF Compatible(First(i) \cup {ds[i + 1]})
          THEN IsMerge(MergeTwo(M[i], ds[i + 1]), First(i) \cup {ds[i + 1]})
          ELSE MergeTwo(M[i], ds[i + 1]) = NoContract
      BY <2>3, <2>5, <2>6, MergeOneMore
    <3> QED
      BY <2>1, <2>2, <2>4, <3>1
  <2>7. CASE ~Compatible(First(i))
    <3>1. ~Compatible(First(i + 1))
      BY <2>2, <2>7 DEF Compatible
    <3>2. M[i + 1] = NoContract
      BY <2>4, <2>5, <2>7 DEF MergeTwo
    <3> QED
      BY <2>1, <3>1, <3>2
  <2> QED
    BY <2>6, <2>7
<1>5. 0..n \subseteq S
  <2> HIDE DEF S, n
  <2> QED
    BY <1>2, <1>3, <1>4, InductionUpTo
<1>6. First(Len(ds)) = ToSet(ds)
  BY <1>2 DEF ToSet
<1> HIDE DEF First
<1>7. n \in S /\ n + 1 = Len(ds)
  <2>1. n \in 0..n /\ n + 1 = Len(ds)
    BY <1>2
  <2> HIDE DEF S, n
  <2> QED
    BY <1>5, <2>1
<1> QED
  BY <1>1, <1>6, <1>7

(* Merges of the same contracts agree, whatever their order and number.    *)
LEMMA MergeOfSame ==
  ASSUME NEW ds \in Seq(AnyContract), NEW es \in Seq(AnyContract), ToSet(ds) = ToSet(es),
         NoContract \notin AnyContract
  PROVE  MergeFleet(ds) = MergeFleet(es)
PROOF
<1>1. /\ ToSet(ds) = {ds[i] : i \in 1..Len(ds)} /\ ToSet(es) = {es[i] : i \in 1..Len(es)}
      /\ DOMAIN ds = 1..Len(ds) /\ DOMAIN es = 1..Len(es)
      /\ Len(ds) \in Nat /\ Len(es) \in Nat
  BY DEF ToSet
<1>2. (ds = <<>> <=> ToSet(ds) = {}) /\ (es = <<>> <=> ToSet(es) = {})
  <2>1. ASSUME ds # <<>> PROVE 1 \in 1..Len(ds)
    BY <1>1, <2>1
  <2>2. ASSUME es # <<>> PROVE 1 \in 1..Len(es)
    BY <1>1, <2>2
  <2>3. ASSUME ds = <<>> PROVE ToSet(ds) = {}
    <3>1. 1..Len(ds) = {}
      BY <2>3
    <3> QED
      BY <1>1, <3>1
  <2>4. ASSUME es = <<>> PROVE ToSet(es) = {}
    <3>1. 1..Len(es) = {}
      BY <2>4
    <3> QED
      BY <1>1, <3>1
  <2> QED
    BY <1>1, <2>1, <2>2, <2>3, <2>4
<1>3. CASE ds = <<>> \/ \E c \in ToSet(ds) : c.vis = {}
  <2>1. ds = <<>> \/ \E i \in DOMAIN ds : ds[i].vis = {}
    BY <1>1, <1>3
  <2>2. es = <<>> \/ \E i \in DOMAIN es : es[i].vis = {}
    BY <1>1, <1>2, <1>3
  <2> QED
    BY <2>1, <2>2 DEF MergeFleet
<1>4. CASE ds # <<>> /\ \A c \in ToSet(ds) : c.vis # {}
  <2>1. ds # <<>> /\ es # <<>> /\ ToSet(ds) # {}
    BY <1>2, <1>4
  <2>2. (\A i \in 1..Len(ds) : ds[i].vis # {}) /\ (\A i \in 1..Len(es) : es[i].vis # {})
    BY <1>1, <1>4
  <2>3. IF Compatible(ToSet(ds)) THEN IsMerge(MergeFleet(ds), ToSet(ds)) ELSE MergeFleet(ds) = NoContract
    BY <2>1, <2>2, MergeFleetIs
  <2>4. IF Compatible(ToSet(es)) THEN IsMerge(MergeFleet(es), ToSet(es)) ELSE MergeFleet(es) = NoContract
    BY <2>1, <2>2, MergeFleetIs
  <2>5. CASE Compatible(ToSet(ds))
    BY <2>1, <2>3, <2>4, <2>5, MergeIsOne
  <2> QED
    BY <2>3, <2>4, <2>5
<1> QED
  BY <1>3, <1>4

(* An order of a finite set goes through all of it.                        *)
LEMMA OrderIsOfAll ==
  ASSUME NEW S, IsFiniteSet(S), NEW f \in SetToSeqs(S)
  PROVE  /\ Cardinality(S) \in Nat /\ f \in [1..Cardinality(S) -> S]
         /\ \A s \in S : \E i \in 1..Cardinality(S) : f[i] = s
PROOF
<1> DEFINE n == Cardinality(S)
<1>1. n \in Nat /\ Cardinality(1..n) = n
  BY FS_CardinalityType, FS_Interval
<1>2. f \in [1..n -> S] /\ \A a, b \in 1..n : f[a] = f[b] => a = b
  BY DEF SetToSeqs
<1>3. f \in Injection(1..n, S)
  <2> HIDE DEF n
  <2> QED
    BY <1>2, Fun_IsInj
<1>4. f \in Surjection(1..n, S)
  <2> HIDE DEF n
  <2>1. Cardinality(1..n) = Cardinality(S)
    BY <1>1 DEF n
  <2> QED
    BY <1>3, <2>1, FS_Injection
<1>5. \A s \in S : \E i \in 1..n : f[i] = s
  <2> HIDE DEF n
  <2>1. ASSUME NEW D, f \in Surjection(D, S) PROVE \A s \in S : \E i \in D : f[i] = s
    BY <2>1, Fun_SurjectionProperties
  <2> QED
    BY <1>4, <2>1
<1> QED
  BY <1>1, <1>2, <1>5

(* The order that is chosen of a finite set is one of its orders.          *)
LEMMA SomeOrder ==
  ASSUME NEW S, IsFiniteSet(S)
  PROVE  SetToSeq(S) \in SetToSeqs(S)
PROOF
<1> DEFINE n == Cardinality(S)
<1>1. ExistsBijection(1..n, S)
  BY FS_CardinalityType
<1>2. PICK f : f \in Bijection(1..n, S)
  BY <1>1 DEF ExistsBijection
<1>3. f \in [1..n -> S] /\ \A a, b \in 1..n : f[a] = f[b] => a = b
  <2> HIDE DEF n
  <2> QED
    BY <1>2, Fun_BijectionProperties
<1>4. IsInjective(f)
  <2> HIDE DEF n
  <2> QED
    BY <1>3 DEF IsInjective
<1>5. SetToSeq(S) \in [1..n -> S] /\ IsInjective(SetToSeq(S))
  <2> HIDE DEF n
  <2>1. SetToSeq(S) = CHOOSE g \in [1..n -> S] : IsInjective(g)
    BY DEF SetToSeq, n
  <2> QED
    BY <1>3, <1>4, <2>1
<1> QED
  BY <1>5 DEF SetToSeqs, IsInjective

(* The contracts that are merged for a tool, in any order of its nodes.    *)
Provided(t) == {live[p][t] : p \in ProvidersOf(t)}
(* The contracts in a given order of their nodes.                          *)
ProvidedBy(t, ps) == [i \in DOMAIN ps |-> live[ps[i]][t]]
(* The contracts of the connected nodes.                                   *)
LiveTyped == live \in [Provider -> [ToolName -> Contract \cup {NoContract}]]

(* In whatever order, they are the contracts that the nodes provide.       *)
LEMMA ProvidedInOrder ==
  ASSUME LiveTyped, NEW t \in ToolName, NEW ps \in SetToSeqs(ProvidersOf(t))
  PROVE  ProvidedBy(t, ps) \in Seq(AnyContract) /\ ToSet(ProvidedBy(t, ps)) = Provided(t)
PROOF
<1>1. IsFiniteSet(ProvidersOf(t)) /\ ProvidersOf(t) \subseteq Provider
  <2>1. ProvidersOf(t) \in SUBSET Provider
    BY DEF ProvidersOf
  <2> QED
    BY <2>1, FS_Subset, CatalogConstants
<1> DEFINE n == Cardinality(ProvidersOf(t))
<1>2. /\ n \in Nat /\ ps \in [1..n -> ProvidersOf(t)]
      /\ \A s \in ProvidersOf(t) : \E i \in 1..n : ps[i] = s
  BY <1>1, OrderIsOfAll
<1> HIDE DEF n
<1>3. \A p \in ProvidersOf(t) : live[p][t] \in AnyContract
  BY CatalogConstants DEF LiveTyped, ProvidersOf
<1>4. ProvidedBy(t, ps) \in [1..n -> AnyContract] /\ \A i \in 1..n : ProvidedBy(t, ps)[i] = live[ps[i]][t]
  BY <1>2, <1>3 DEF ProvidedBy
<1>5. ProvidedBy(t, ps) \in Seq(AnyContract) /\ DOMAIN ProvidedBy(t, ps) = 1..n
  BY <1>2, <1>4
<1>6. ToSet(ProvidedBy(t, ps)) = {ProvidedBy(t, ps)[i] : i \in 1..n}
  BY <1>5 DEF ToSet
<1>7. {live[ps[i]][t] : i \in 1..n} = Provided(t)
  BY <1>2 DEF Provided
<1> QED
  BY <1>4, <1>5, <1>6, <1>7

(* The merge the code makes is that of every order.                        *)
LEMMA AnyOrderMerges ==
  ASSUME LiveTyped, NEW t \in ToolName
  PROVE  /\ LiveContracts(t) \in Seq(AnyContract) /\ ToSet(LiveContracts(t)) = Provided(t)
         /\ \A ps \in SetToSeqs(ProvidersOf(t)) : MergeFleet(ProvidedBy(t, ps)) = MergeFleet(LiveContracts(t))
PROOF
<1>1. IsFiniteSet(ProvidersOf(t))
  <2>1. ProvidersOf(t) \in SUBSET Provider
    BY DEF ProvidersOf
  <2> QED
    BY <2>1, FS_Subset, CatalogConstants
<1> DEFINE qs == SetToSeq(ProvidersOf(t))
<1>2. qs \in SetToSeqs(ProvidersOf(t)) /\ LiveContracts(t) = ProvidedBy(t, qs)
  BY <1>1, SomeOrder DEF LiveContracts, ProvidedBy
<1> HIDE DEF qs
<1>3. LiveContracts(t) \in Seq(AnyContract) /\ ToSet(LiveContracts(t)) = Provided(t)
  BY <1>2, ProvidedInOrder
<1>4. ASSUME NEW ps \in SetToSeqs(ProvidersOf(t))
      PROVE  MergeFleet(ProvidedBy(t, ps)) = MergeFleet(LiveContracts(t))
  BY <1>3, ProvidedInOrder, MergeOfSame, CatalogConstants
<1> QED
  BY <1>3, <1>4

(* What is published of connected nodes is sound for each of them.         *)
LEMMA MergeIsSound ==
  ASSUME LiveTyped, NEW t \in ToolName, MergeFleet(LiveContracts(t)) # NoContract, NEW p \in ProvidersOf(t)
  PROVE  LET c == MergeFleet(LiveContracts(t))  d == live[p][t]
         IN /\ c.vis = d.vis /\ c.safe \subseteq d.safe /\ c.required = d.required
            /\ \A x \in DOMAIN d.props : x \in DOMAIN c.props /\ c.props[x] = d.props[x]
PROOF
<1> DEFINE ds == LiveContracts(t)
<1>1. ds \in Seq(AnyContract) /\ ToSet(ds) = Provided(t) /\ live[p][t] \in Provided(t)
  BY AnyOrderMerges DEF Provided
<1> HIDE DEF ds
<1>2. ds # <<>> /\ \A i \in 1..Len(ds) : ds[i].vis # {}
  <2>1. MergeFleet(ds) # NoContract
    BY DEF ds
  <2> QED
    BY <1>1, <2>1 DEF MergeFleet
<1>3. IsMerge(MergeFleet(ds), ToSet(ds))
  <2>1. MergeFleet(ds) # NoContract
    BY DEF ds
  <2> QED
    BY <1>1, <1>2, <2>1, MergeFleetIs, CatalogConstants
<1> QED
  BY <1>1, <1>3 DEF IsMerge, ds

(* A merge is a contract, or none.                                         *)
LEMMA MergeTyped ==
  ASSUME LiveTyped, NEW t \in ToolName
  PROVE  MergeFleet(LiveContracts(t)) \in AnyContract \cup {NoContract}
PROOF
<1> DEFINE ds == LiveContracts(t)
<1>1. ds \in Seq(AnyContract)
  BY AnyOrderMerges
<1> HIDE DEF ds
<1>2. CASE ds = <<>> \/ \E i \in DOMAIN ds : ds[i].vis = {}
  BY <1>2 DEF MergeFleet, ds
<1>3. CASE ds # <<>> /\ \A i \in DOMAIN ds : ds[i].vis # {}
  <2>1. \A i \in 1..Len(ds) : ds[i].vis # {}
    BY <1>1, <1>3
  <2> QED
    BY <1>1, <1>3, <2>1, MergeFleetIs, CatalogConstants DEF IsMerge, ds
<1> QED
  BY <1>2, <1>3

(* A tool that nobody provides has no contract.                            *)
LEMMA MergeOfNone ==
  ASSUME LiveTyped, NEW t \in ToolName, ProvidersOf(t) = {}
  PROVE  MergeFleet(LiveContracts(t)) = NoContract
PROOF
<1> DEFINE ds == LiveContracts(t)
<1>1. ds \in Seq(AnyContract) /\ ToSet(ds) = {}
  BY AnyOrderMerges DEF Provided
<1> HIDE DEF ds
<1>2. ds = <<>>
  <2>1. ASSUME ds # <<>> PROVE FALSE
    <3>1. 1 \in 1..Len(ds) /\ ds[1] \in ToSet(ds)
      BY <1>1, <2>1 DEF ToSet
    <3> QED
      BY <1>1, <3>1
  <2> QED
    BY <2>1
<1> QED
  BY <1>2 DEF MergeFleet, ds

(* What is to be published of a tool by the nodes that are connected now.  *)
Merge(t) == MergeFleet(LiveContracts(t))
(* A reconciliation of the tool is under way for a node.                   *)
Working(q, t) == reconciling[q].at # "none" /\ reconciling[q].tool = t
(* The tool is to do for a node, and nobody has begun.                     *)
Behind(t) == \E q \in Provider : t \in todo[q] /\ ~Working(q, t)

(* The values the variables take.                                          *)
CatalogTypes ==
  /\ LiveTyped /\ todo \in [Provider -> SUBSET ToolName]
  /\ reconciling \in [Provider -> [tool : ToolName, at : {"none", "merged", "published"},
                                   value : AnyContract \cup {NoContract}]]
  /\ publishedTools \in [ToolName -> AnyContract \cup {NoContract}]
  /\ contracts \in [ToolName -> AnyContract \cup {NoContract}]
  /\ DOMAIN registered = ToolName /\ registered = [t \in ToolName |-> registered[t]]
  /\ unsaved \subseteq ToolName /\ apps \in BOOLEAN /\ saved \in BOOLEAN
  /\ setter \in [Setter -> [at : {"none", "saved", "set"}, value : BOOLEAN]]

(* Who is at work holds the lock, and works on what is to do.              *)
OneReconciles ==
  \A q \in Provider : /\ reconciling[q].at # "none" <=> catalogLock = q
                      /\ reconciling[q].at # "none" => reconciling[q].tool \in todo[q]

(* Unless a tool is to do, who works on it has merged what is live, and    *)
(* without such work, or once it is published, it is published so.         *)
MergedNow ==
  \A t \in ToolName : ~Behind(t) =>
     /\ \A q \in Provider : Working(q, t) => reconciling[q].value = Merge(t)
     /\ (\A q \in Provider : Working(q, t) => reconciling[q].at = "published")
          => publishedTools[t] = Merge(t)

(* What is published is about to be stored, or is stored unless the write  *)
(* failed.                                                                 *)
StoredNow ==
  /\ \A q \in Provider : reconciling[q].at = "published"
                           => publishedTools[reconciling[q].tool] = reconciling[q].value
  /\ \A t \in ToolName : t \notin unsaved /\ (\A q \in Provider : Working(q, t) => reconciling[q].at = "merged")
                           => contracts[t] = publishedTools[t]

(* A tool is registered with the face it had when it was published, or one *)
(* of the other setting.                                                   *)
RegisteredNow == \A t \in ToolName : \E on \in BOOLEAN : registered[t] = Face(publishedTools[t], on)

(* The inductive invariant of the catalog.                                 *)
ToolsInv == CatalogTypes /\ OneReconciles /\ MergedNow /\ StoredNow /\ RegisteredNow

(* While the same nodes provide the same, the merge is the same.           *)
LEMMA MergeKept ==
  ASSUME live' = live, NEW t \in ToolName
  PROVE  Merge(t)' = Merge(t)
  BY DEF Merge, LiveContracts, ProvidersOf

(* A node that neither provided a tool nor does so now leaves the merge of *)
(* the tool alone.                                                         *)
LEMMA MergeKeptApart ==
  ASSUME LiveTyped, NEW p \in Provider, NEW s \in [ToolName -> Contract \cup {NoContract}],
         live' = [live EXCEPT ![p] = s], NEW t \in ToolName, live[p][t] = NoContract, s[t] = NoContract
  PROVE  Merge(t)' = Merge(t)
PROOF
<1>1. /\ \A q \in Provider : live'[q][t] = live[q][t]
      /\ DOMAIN live = Provider /\ DOMAIN live' = Provider
  BY DEF LiveTyped
<1>2. ProvidersOf(t)' = ProvidersOf(t)
  BY <1>1 DEF ProvidersOf
<1> DEFINE qs == SetToSeq(ProvidersOf(t))
<1>3. \A i \in DOMAIN qs : qs[i] \in Provider
  <2>1. ProvidersOf(t) \in SUBSET Provider
    BY DEF ProvidersOf
  <2>2. qs \in [1..Cardinality(ProvidersOf(t)) -> ProvidersOf(t)]
    BY <2>1, FS_Subset, CatalogConstants, SomeOrder, OrderIsOfAll
  <2> HIDE DEF qs
  <2> QED
    BY <2>1, <2>2
<1>4. /\ LiveContracts(t) = [i \in DOMAIN qs |-> live[qs[i]][t]]
      /\ LiveContracts(t)' = [i \in DOMAIN qs |-> live'[qs[i]][t]]
  BY <1>2 DEF LiveContracts
<1> HIDE DEF qs
<1>5. LiveContracts(t)' = LiveContracts(t)
  BY <1>1, <1>3, <1>4
<1> QED
  BY <1>5 DEF Merge

(* What nobody provides any more has no contract.                          *)
LEMMA NoneMerged ==
  ASSUME NEW t \in ToolName, ProvidersOf(t)' = {}
  PROVE  Merge(t)' = NoContract
PROOF
<1>1. DOMAIN SetToSeq({}) = {}
  <2>1. SetToSeq({}) \in [1..Cardinality({}) -> {}] /\ Cardinality({}) = 0
    BY FS_EmptySet, SomeOrder, OrderIsOfAll
  <2> QED
    BY <2>1
<1>2. LiveContracts(t)' = [i \in {} |-> live'[SetToSeq({})[i]][t]]
  BY <1>1 DEF LiveContracts
<1> DEFINE ds == [i \in {} |-> live'[SetToSeq({})[i]][t]]
<1>3. ds \in [1..0 -> {}]
  OBVIOUS
<1> HIDE DEF ds
<1>4. ds = <<>>
  BY <1>3
<1> QED
  BY <1>2, <1>4 DEF Merge, MergeFleet, ds

(* An empty catalog satisfies the invariant.                               *)
LEMMA CatalogStart ==
  ASSUME CatalogInit
  PROVE  ToolsInv
PROOF
<1>1. ASSUME NEW t \in ToolName PROVE Merge(t) = NoContract
  <2>1. LiveTyped /\ ProvidersOf(t) = {}
    BY DEF CatalogInit, NoTools, LiveTyped, ProvidersOf
  <2> QED
    BY <2>1, MergeOfNone DEF Merge
<1>2. NoWork.at = "none" /\ NoWork \in [tool : ToolName, at : {"none", "merged", "published"},
                                         value : AnyContract \cup {NoContract}]
  BY CatalogConstants DEF NoWork
<1> USE DEF CatalogInit
<1>3. CatalogTypes
  BY <1>2 DEF CatalogTypes, LiveTyped, NoTools
<1>4. \A q \in Provider : reconciling[q].at = "none"
  BY <1>2
<1>5. OneReconciles /\ StoredNow
  BY <1>4, CatalogConstants DEF OneReconciles, StoredNow, NoTools
<1>6. MergedNow
  BY <1>1, <1>4 DEF MergedNow, Working, NoTools
<1>7. RegisteredNow
  BY DEF RegisteredNow, NoTools, Face
<1> QED
  BY <1>3, <1>5, <1>6, <1>7 DEF ToolsInv

(* A node brings another snapshot, or none: every name it had or has is to do. *)
LEMMA SnapshotKeeps ==
  ASSUME ToolsInv, NEW p \in Provider, NEW s \in [ToolName -> Contract \cup {NoContract}],
         NEW N \in SUBSET ToolName, Names(live[p]) \cup Names(s) \subseteq N, todo[p] = {},
         live' = [live EXCEPT ![p] = s], todo' = [todo EXCEPT ![p] = N],
         UNCHANGED <<reconciling, catalogLock, publishedTools, registered, contracts, unsaved, apps,
                     saved, setter>>
  PROVE  ToolsInv'
PROOF
<1> USE DEF ToolsInv
<1>1. CatalogTypes' /\ RegisteredNow'
  BY DEF CatalogTypes, LiveTyped, RegisteredNow
<1>2. todo'[p] = N /\ \A q \in Provider : q # p => todo'[q] = todo[q]
  BY DEF CatalogTypes
<1>3. reconciling[p].at = "none"
  BY DEF OneReconciles
<1>4. OneReconciles' /\ StoredNow'
  <2>1. OneReconciles'
    BY <1>2, <1>3 DEF OneReconciles
  <2> QED
    BY <2>1 DEF StoredNow, Working
<1>5. \A q \in Provider, t \in ToolName : Working(q, t)' <=> Working(q, t)
  BY DEF Working
<1>6. ASSUME NEW t \in ToolName, ~Behind(t)' PROVE ~Behind(t) /\ Merge(t)' = Merge(t)
  <2>1. t \notin N
    BY <1>2, <1>3, <1>6 DEF Behind, Working
  <2>2. ~Behind(t)
    BY <1>2, <1>5, <1>6 DEF Behind
  <2>3. live[p][t] = NoContract /\ s[t] = NoContract
    BY <2>1 DEF Names
  <2>4. LiveTyped
    BY DEF CatalogTypes
  <2>5. Merge(t)' = Merge(t)
    BY <2>3, <2>4, MergeKeptApart
  <2> QED
    BY <2>2, <2>5
<1>7. MergedNow'
  BY <1>5, <1>6 DEF MergedNow
<1> QED
  BY <1>1, <1>4, <1>7

(* The tools of the store that nobody provides are to do after a start.    *)
LEMMA StoredToolsKeep ==
  ASSUME ToolsInv, NEW p \in Provider, NEW ts \in SUBSET ToolName, ReconcileStored(p, ts)
  PROVE  ToolsInv'
PROOF
<1> USE DEF ToolsInv, ReconcileStored
<1>1. CatalogTypes' /\ RegisteredNow'
  BY DEF CatalogTypes, LiveTyped, RegisteredNow
<1>2. \A q \in Provider : todo[q] \subseteq todo'[q]
  BY DEF CatalogTypes
<1>3. OneReconciles' /\ StoredNow'
  <2>1. OneReconciles'
    BY <1>2 DEF OneReconciles
  <2> QED
    BY <2>1 DEF StoredNow, Working
<1>4. \A q \in Provider, t \in ToolName : Working(q, t)' <=> Working(q, t)
  BY DEF Working
<1>5. \A t \in ToolName : (~Behind(t)' => ~Behind(t)) /\ Merge(t)' = Merge(t)
  BY <1>2, <1>4, MergeKept DEF Behind
<1>6. MergedNow'
  BY <1>4, <1>5 DEF MergedNow
<1> QED
  BY <1>1, <1>3, <1>6

(* A tool is merged of what is live, under the lock.                       *)
LEMMA ReconcileKeeps ==
  ASSUME ToolsInv, NEW p \in Provider, NEW t \in ToolName, Reconcile(p, t)
  PROVE  ToolsInv'
PROOF
<1> USE DEF ToolsInv
<1> DEFINE c == Merge(t)
<1>1. /\ t \in todo[p] /\ reconciling[p].at = "none" /\ catalogLock = Nobody /\ catalogLock' = p
      /\ reconciling' = [reconciling EXCEPT ![p] = [tool |-> t, at |-> "merged", value |-> c]]
      /\ UNCHANGED <<live, todo, publishedTools, registered, contracts, unsaved, apps, saved, setter>>
  BY DEF Reconcile, CatalogFree, Merge
<1>2. c \in AnyContract \cup {NoContract}
  BY MergeTyped DEF CatalogTypes, Merge
<1> HIDE DEF c
<1>3. CatalogTypes' /\ RegisteredNow'
  BY <1>1, <1>2 DEF CatalogTypes, LiveTyped, RegisteredNow
<1>4. /\ reconciling'[p] = [tool |-> t, at |-> "merged", value |-> c]
      /\ \A q \in Provider : q # p => reconciling'[q] = reconciling[q]
      /\ \A q \in Provider : reconciling[q].at = "none"
  BY <1>1, CatalogConstants DEF CatalogTypes, OneReconciles
<1>5. \A q \in Provider, u \in ToolName : (Working(q, u)' <=> q = p /\ u = t) /\ ~Working(q, u)
  BY <1>4 DEF Working
<1>6. OneReconciles'
  BY <1>1, <1>4 DEF OneReconciles
<1>7. StoredNow'
  BY <1>1, <1>4, <1>5 DEF StoredNow
<1>8. \A u \in ToolName : Merge(u)' = Merge(u)
  BY <1>1, MergeKept
<1>9. \A u \in ToolName : u # t /\ ~Behind(u)' => ~Behind(u)
  BY <1>1, <1>5 DEF Behind
<1>10. ASSUME NEW u \in ToolName, ~Behind(u)'
       PROVE  /\ \A q \in Provider : Working(q, u)' => reconciling'[q].value = Merge(u)'
              /\ (\A q \in Provider : Working(q, u)' => reconciling'[q].at = "published")
                    => publishedTools'[u] = Merge(u)'
  <2>1. CASE u = t
    BY <1>4, <1>5, <1>8, <2>1 DEF c
  <2>2. CASE u # t
    BY <1>1, <1>5, <1>8, <1>9, <1>10, <2>2 DEF MergedNow
  <2> QED
    BY <2>1, <2>2
<1>11. MergedNow'
  BY <1>10 DEF MergedNow
<1> QED
  BY <1>3, <1>6, <1>7, <1>11

(* The merge is published.                                                 *)
LEMMA PublishKeeps ==
  ASSUME ToolsInv, NEW p \in Provider, Publish(p)
  PROVE  ToolsInv'
PROOF
<1> USE DEF ToolsInv
<1> DEFINE t == reconciling[p].tool  c == reconciling[p].value
<1>1. /\ reconciling[p].at = "merged"
      /\ publishedTools' = [publishedTools EXCEPT ![t] = c]
      /\ registered' = IF c # NoContract /\ c = publishedTools[t] THEN registered
                       ELSE [registered EXCEPT ![t] = Face(c, apps)]
      /\ reconciling' = [reconciling EXCEPT ![p].at = "published"]
      /\ UNCHANGED <<live, todo, catalogLock, contracts, unsaved, apps, saved, setter>>
  BY DEF Publish
<1>2. t \in ToolName /\ c \in AnyContract \cup {NoContract}
  BY DEF CatalogTypes
<1>3. /\ reconciling'[p] = [tool |-> t, at |-> "published", value |-> c]
      /\ \A q \in Provider : q # p => reconciling'[q] = reconciling[q] /\ reconciling[q].at = "none"
  BY <1>1 DEF CatalogTypes, OneReconciles
<1>4. reconciling' \in [Provider -> [tool : ToolName, at : {"none", "merged", "published"},
                                     value : AnyContract \cup {NoContract}]]
  BY <1>1 DEF CatalogTypes
<1> HIDE DEF t, c
<1>5. /\ publishedTools'[t] = c /\ \A u \in ToolName : u # t => publishedTools'[u] = publishedTools[u]
      /\ publishedTools' \in [ToolName -> AnyContract \cup {NoContract}]
  BY <1>1, <1>2 DEF CatalogTypes
<1>6. /\ DOMAIN registered' = ToolName /\ registered' = [u \in ToolName |-> registered'[u]]
      /\ \A u \in ToolName : u # t => registered'[u] = registered[u]
      /\ IF c # NoContract /\ c = publishedTools[t] THEN registered'[t] = registered[t]
         ELSE registered'[t] = Face(c, apps)
  BY <1>1, <1>2 DEF CatalogTypes
<1>7. CatalogTypes'
  BY <1>1, <1>4, <1>5, <1>6 DEF CatalogTypes, LiveTyped
<1>8. RegisteredNow'
  <2>1. ASSUME NEW u \in ToolName PROVE \E on \in BOOLEAN : registered'[u] = Face(publishedTools'[u], on)
    <3>1. CASE u = t /\ ~(c # NoContract /\ c = publishedTools[t])
      BY <1>5, <1>6, <3>1 DEF CatalogTypes
    <3>2. CASE u # t \/ (c # NoContract /\ c = publishedTools[t])
      BY <1>5, <1>6, <3>2 DEF RegisteredNow
    <3> QED
      BY <3>1, <3>2
  <2> QED
    BY <2>1 DEF RegisteredNow
<1>9. /\ \A q \in Provider, u \in ToolName : Working(q, u)' <=> Working(q, u)
      /\ \A q \in Provider, u \in ToolName : Working(q, u) <=> q = p /\ u = t
  BY <1>1, <1>3 DEF Working, t
<1>10. OneReconciles'
  BY <1>1, <1>3 DEF OneReconciles, t
<1>11. StoredNow'
  <2>1. \A q \in Provider : reconciling'[q].at = "published"
                           => publishedTools'[reconciling'[q].tool] = reconciling'[q].value
    BY <1>3, <1>5
  <2>2. ASSUME NEW u \in ToolName, u \notin unsaved,
               \A q \in Provider : Working(q, u)' => reconciling'[q].at = "merged"
        PROVE  contracts[u] = publishedTools'[u]
    <3>1. u # t
      BY <1>3, <1>9, <2>2
    <3> QED
      BY <1>5, <1>9, <2>2, <3>1 DEF StoredNow
  <2> QED
    BY <1>1, <2>1, <2>2 DEF StoredNow
<1>12. \A u \in ToolName : Merge(u)' = Merge(u) /\ (~Behind(u)' => ~Behind(u))
  BY <1>1, <1>9, MergeKept DEF Behind
<1>13. ASSUME NEW u \in ToolName, ~Behind(u)'
       PROVE  /\ \A q \in Provider : Working(q, u)' => reconciling'[q].value = Merge(u)'
              /\ publishedTools'[u] = Merge(u)'
  <2>1. CASE u = t
    <3>1. Working(p, t) /\ c = Merge(t)
      BY <1>2, <1>9, <1>12, <1>13, <2>1 DEF MergedNow, c
    <3> QED
      BY <1>3, <1>5, <1>9, <1>12, <2>1, <3>1
  <2>2. CASE u # t
    BY <1>5, <1>9, <1>12, <1>13, <2>2 DEF MergedNow
  <2> QED
    BY <2>1, <2>2
<1>14. MergedNow'
  BY <1>13 DEF MergedNow
<1> QED
  BY <1>7, <1>8, <1>10, <1>11, <1>14

(* The merge is stored, or the write fails.                                *)
LEMMA PersistKeeps ==
  ASSUME ToolsInv, NEW p \in Provider, Persist(p)
  PROVE  ToolsInv'
PROOF
<1> USE DEF ToolsInv
<1> DEFINE t == reconciling[p].tool  c == reconciling[p].value
<1>1. /\ reconciling[p].at = "published"
      /\ \/ contracts' = [contracts EXCEPT ![t] = c] /\ unsaved' = unsaved \ {t}
         \/ unsaved' = unsaved \cup {t} /\ contracts' = contracts
      /\ catalogLock' = Nobody /\ todo' = [todo EXCEPT ![p] = @ \ {t}]
      /\ reconciling' = [reconciling EXCEPT ![p] = NoWork]
      /\ UNCHANGED <<live, publishedTools, registered, apps, saved, setter>>
  BY DEF Persist
<1>2. t \in ToolName /\ c \in AnyContract \cup {NoContract} /\ publishedTools[t] = c
  BY <1>1 DEF CatalogTypes, StoredNow
<1>3. NoWork.at = "none" /\ NoWork \in [tool : ToolName, at : {"none", "merged", "published"},
                                         value : AnyContract \cup {NoContract}]
  BY CatalogConstants DEF NoWork
<1>4. /\ reconciling'[p] = NoWork
      /\ \A q \in Provider : q # p => reconciling'[q] = reconciling[q] /\ reconciling[q].at = "none"
  BY <1>1 DEF CatalogTypes, OneReconciles
<1>5. \A q \in Provider, u \in ToolName : ~Working(q, u)' /\ (Working(q, u) <=> q = p /\ u = t)
  BY <1>1, <1>3, <1>4 DEF Working
<1>6. /\ reconciling' \in [Provider -> [tool : ToolName, at : {"none", "merged", "published"},
                                       value : AnyContract \cup {NoContract}]]
      /\ todo' \in [Provider -> SUBSET ToolName]
      /\ \A q \in Provider, u \in ToolName : u \in todo'[q] <=> u \in todo[q] /\ ~(q = p /\ u = t)
  BY <1>1, <1>3 DEF CatalogTypes
<1> HIDE DEF t, c
<1>7. CatalogTypes'
  <2>1. contracts' \in [ToolName -> AnyContract \cup {NoContract}] /\ unsaved' \subseteq ToolName
    BY <1>1, <1>2 DEF CatalogTypes
  <2> QED
    BY <1>1, <1>6, <2>1 DEF CatalogTypes, LiveTyped
<1>8. OneReconciles' /\ RegisteredNow'
  BY <1>1, <1>3, <1>4, CatalogConstants DEF OneReconciles, RegisteredNow
<1>9. StoredNow'
  <2>1. ASSUME NEW u \in ToolName, u \notin unsaved' PROVE contracts'[u] = publishedTools[u]
    <3>1. CASE u = t
      BY <1>1, <1>2, <2>1, <3>1 DEF CatalogTypes
    <3>2. CASE u # t
      <4>1. u \notin unsaved /\ contracts'[u] = contracts[u]
        BY <1>1, <2>1, <3>2 DEF CatalogTypes
      <4> QED
        BY <1>5, <3>2, <4>1 DEF StoredNow
    <3> QED
      BY <3>1, <3>2
  <2> QED
    BY <1>1, <1>3, <1>4, <2>1 DEF StoredNow
<1>10. \A u \in ToolName : Merge(u)' = Merge(u) /\ (~Behind(u)' => ~Behind(u))
  BY <1>1, <1>5, <1>6, MergeKept DEF Behind
<1>11. ASSUME NEW u \in ToolName, ~Behind(u)' PROVE publishedTools[u] = Merge(u)'
  BY <1>1, <1>5, <1>10, <1>11 DEF MergedNow
<1>12. MergedNow'
  BY <1>1, <1>5, <1>11 DEF MergedNow
<1> QED
  BY <1>7, <1>8, <1>9, <1>12

(* The switch of Apps changes faces only.                                  *)
LEMMA SettingsKeepCatalog ==
  ASSUME ToolsInv, NEW h \in Setter,
         SetApps(h) \/ ApplyApps(h) \/ \E v \in BOOLEAN : SaveSetting(h, v)
  PROVE  ToolsInv'
PROOF
<1> USE DEF ToolsInv
<1>1. UNCHANGED <<live, todo, reconciling, catalogLock, publishedTools, contracts, unsaved>>
  BY DEF SetApps, ApplyApps, SaveSetting
<1>2. /\ setter' \in [Setter -> [at : {"none", "saved", "set"}, value : BOOLEAN]]
      /\ apps' \in BOOLEAN /\ saved' \in BOOLEAN
  BY DEF SetApps, ApplyApps, SaveSetting, CatalogTypes
<1>3. /\ DOMAIN registered' = ToolName /\ registered' = [t \in ToolName |-> registered'[t]]
      /\ \A t \in ToolName : \/ registered'[t] = registered[t]
                             \/ registered'[t] = Face(publishedTools[t], setter[h].value)
  BY DEF SetApps, ApplyApps, SaveSetting, CatalogTypes
<1>4. CatalogTypes'
  BY <1>1, <1>2, <1>3 DEF CatalogTypes, LiveTyped
<1>5. RegisteredNow'
  BY <1>1, <1>3 DEF RegisteredNow, CatalogTypes
<1>6. OneReconciles' /\ StoredNow'
  BY <1>1 DEF OneReconciles, StoredNow, Working
<1>7. \A t \in ToolName : Merge(t)' = Merge(t) /\ (Behind(t)' <=> Behind(t))
  BY <1>1, MergeKept DEF Behind, Working
<1>8. MergedNow'
  BY <1>1, <1>7 DEF MergedNow, Working
<1> QED
  BY <1>4, <1>5, <1>6, <1>8

(* A restart begins with what was stored.                                  *)
LEMMA RestartKeepsCatalog ==
  ASSUME ToolsInv, ProcessRestart
  PROVE  ToolsInv'
PROOF
<1> USE DEF ToolsInv
<1>1. /\ live' = [q \in Provider |-> NoTools] /\ todo' = [q \in Provider |-> {}]
      /\ reconciling' = [q \in Provider |-> NoWork] /\ catalogLock' = Nobody
      /\ publishedTools' = NoTools /\ registered' = NoTools
      /\ \/ contracts' = NoTools /\ unsaved' = {}
         \/ unsaved' = Names(contracts) /\ contracts' = contracts
      /\ apps' = saved /\ saved' = saved
      /\ setter' = [h \in Setter |-> [at |-> "none", value |-> FALSE]]
  BY DEF ProcessRestart
<1>2. NoWork.at = "none" /\ NoWork \in [tool : ToolName, at : {"none", "merged", "published"},
                                         value : AnyContract \cup {NoContract}]
  BY CatalogConstants DEF NoWork
<1>3. \A q \in Provider : reconciling'[q].at = "none"
  BY <1>1, <1>2
<1>4. CatalogTypes'
  BY <1>1, <1>2 DEF CatalogTypes, LiveTyped, NoTools, Names
<1>5. OneReconciles'
  BY <1>1, <1>3, CatalogConstants DEF OneReconciles
<1>6. StoredNow'
  BY <1>1, <1>3 DEF StoredNow, NoTools, Names
<1>7. ASSUME NEW t \in ToolName PROVE Merge(t)' = NoContract
  <2>1. LiveTyped' /\ (ProvidersOf(t) = {})'
    BY <1>1 DEF LiveTyped, ProvidersOf, NoTools
  <2> QED
    BY <2>1, NoneMerged
<1>8. MergedNow'
  BY <1>1, <1>3, <1>7 DEF MergedNow, Working, NoTools
<1>9. RegisteredNow'
  BY <1>1 DEF RegisteredNow, NoTools, Face
<1> QED
  BY <1>4, <1>5, <1>6, <1>8, <1>9

(* Every step keeps the invariant.                                         *)
LEMMA CatalogSteps ==
  ASSUME ToolsInv, [CatalogNext]_catalogVars
  PROVE  ToolsInv'
PROOF
<1>1. ASSUME NEW p \in Provider, Forget(p) PROVE ToolsInv'
  <2> DEFINE N == Names(live[p])
  <2>1. /\ NoTools \in [ToolName -> Contract \cup {NoContract}] /\ Names(NoTools) = {}
        /\ N \in SUBSET ToolName
    BY DEF NoTools, Names
  <2>2. /\ N \cup Names(NoTools) \subseteq N /\ todo[p] = {}
        /\ live' = [live EXCEPT ![p] = NoTools] /\ todo' = [todo EXCEPT ![p] = N]
        /\ UNCHANGED <<reconciling, catalogLock, publishedTools, registered, contracts, unsaved,
                       apps, saved, setter>>
    BY <1>1, <2>1 DEF Forget
  <2> HIDE DEF N
  <2> QED
    BY <2>1, <2>2, SnapshotKeeps DEF N
<1>2. ASSUME NEW p \in Provider, NEW s \in [ToolName -> Contract \cup {NoContract}], Snapshot(p, s)
      PROVE  ToolsInv'
  <2> DEFINE N == Names(live[p]) \cup Names(s) \cup Names(publishedTools)
  <2>1. N \in SUBSET ToolName /\ Names(live[p]) \cup Names(s) \subseteq N
    BY DEF Names
  <2>2. /\ todo[p] = {} /\ live' = [live EXCEPT ![p] = s] /\ todo' = [todo EXCEPT ![p] = N]
        /\ UNCHANGED <<reconciling, catalogLock, publishedTools, registered, contracts, unsaved,
                       apps, saved, setter>>
    BY <1>2 DEF Snapshot
  <2> HIDE DEF N
  <2> QED
    BY <2>1, <2>2, SnapshotKeeps
<1>3. CASE UNCHANGED catalogVars
  <2>1. CatalogTypes' /\ OneReconciles' /\ StoredNow' /\ RegisteredNow'
    BY <1>3 DEF catalogVars, ToolsInv, CatalogTypes, LiveTyped, OneReconciles, StoredNow,
                RegisteredNow, Working
  <2>2. \A t \in ToolName : Merge(t)' = Merge(t) /\ (Behind(t)' <=> Behind(t))
    BY <1>3, MergeKept DEF catalogVars, Behind, Working
  <2>3. MergedNow'
    BY <1>3, <2>2 DEF catalogVars, ToolsInv, MergedNow, Working
  <2> QED
    BY <2>1, <2>3 DEF ToolsInv
<1>4. CASE CatalogNext
  BY <1>1, <1>2, <1>4, StoredToolsKeep, ReconcileKeeps, PublishKeeps, PersistKeeps,
     SettingsKeepCatalog, RestartKeepsCatalog DEF CatalogNext
<1> QED
  BY <1>3, <1>4

(* The invariant implies what the runs check.                              *)
LEMMA ToolsInvShow == ToolsInv => CatalogIsTrue /\ CatalogTypeOK
PROOF
<1> SUFFICES ASSUME ToolsInv PROVE CatalogIsTrue /\ CatalogTypeOK
  OBVIOUS
<1> USE DEF ToolsInv
<1>1. ASSUME NEW t \in ToolName, Quiet(t)
      PROVE  ~Behind(t) /\ \A q \in Provider : ~Working(q, t)
  BY <1>1 DEF Quiet, Behind, Working, OneReconciles
<1>2. \A t \in ToolName : Quiet(t) => publishedTools[t] = MergeFleet(LiveContracts(t))
  BY <1>1 DEF MergedNow, Merge
<1>3. CatalogConverges
  <2>1. ASSUME NEW t \in ToolName, Quiet(t), NEW ps \in SetToSeqs(ProvidersOf(t))
        PROVE  publishedTools[t] = MergeFleet([i \in DOMAIN ps |-> live[ps[i]][t]])
    <3>1. MergeFleet(ProvidedBy(t, ps)) = MergeFleet(LiveContracts(t))
      BY AnyOrderMerges DEF CatalogTypes
    <3> QED
      BY <1>2, <2>1, <3>1 DEF ProvidedBy
  <2>2. ASSUME NEW t \in ToolName, Quiet(t), t \notin unsaved PROVE contracts[t] = publishedTools[t]
    BY <1>1, <2>2 DEF StoredNow
  <2> QED
    BY <2>1, <2>2 DEF CatalogConverges, RegisteredNow
<1>4. OfferIsSound
  <2>1. ASSUME NEW t \in ToolName, Quiet(t), Offered(t), NEW p \in ProvidersOf(t)
        PROVE  LET c == publishedTools[t]  d == live[p][t]
               IN /\ c.vis = d.vis /\ c.safe \subseteq d.safe /\ c.required = d.required
                  /\ \A x \in DOMAIN d.props : x \in DOMAIN c.props /\ c.props[x] = d.props[x]
    <3>1. publishedTools[t] = MergeFleet(LiveContracts(t)) /\ publishedTools[t] # NoContract
      BY <1>2, <2>1 DEF Offered
    <3>2. LiveTyped /\ MergeFleet(LiveContracts(t)) # NoContract
      BY <3>1 DEF CatalogTypes
    <3>3. LET c == MergeFleet(LiveContracts(t))  d == live[p][t]
          IN /\ c.vis = d.vis /\ c.safe \subseteq d.safe /\ c.required = d.required
             /\ \A x \in DOMAIN d.props : x \in DOMAIN c.props /\ c.props[x] = d.props[x]
      BY <3>2, MergeIsSound
    <3> QED
      BY <3>1, <3>3
  <2> QED
    BY <2>1 DEF OfferIsSound
<1>5. CatalogTypeOK
  BY DEF CatalogTypeOK, CatalogTypes, LiveTyped, OneReconciles
<1> QED
  BY <1>3, <1>4, <1>5 DEF CatalogIsTrue

(* What is published is the merge of what the connected nodes provide,     *)
(* whoever comes and goes, and is sound for each of them                   *)
(* (mcp_tool_registry.go); for any number of nodes, tools and contracts.   *)
THEOREM CatalogStaysTrue == CatalogSpec => [](CatalogIsTrue /\ CatalogTypeOK)
PROOF
<1>1. CatalogSpec => []ToolsInv
  BY CatalogStart, CatalogSteps, PTL DEF CatalogSpec
<1> QED
  BY <1>1, ToolsInvShow, PTL

(* ---- Listing and searching notes ----------------------------------------- *)

(* A segment more, or one less for two dots.                               *)
LEMMA FollowTyped ==
  ASSUME NEW out \in Seq(Segment), NEW seg \in Segment
  PROVE  Follow(out, seg) \in Seq(Segment)
PROOF
<1>1. ASSUME out # <<>> PROVE Front(out) \in Seq(Segment)
  <2>1. Len(out) \in Nat /\ Len(out) # 0
    BY <1>1
  <2>2. SubSeq(out, 1, Len(out) - 1) \in Seq(Segment)
    BY <2>1
  <2> QED
    BY <2>2 DEF Front
<1>2. Append(out, seg) \in Seq(Segment)
  OBVIOUS
<1> QED
  BY <1>1, <1>2 DEF Follow

(* A path is cleaned segment by segment.                                   *)
LEMMA CleanRuns ==
  ASSUME NEW path \in Seq(Segment)
  PROVE  \E M : /\ M[0] = <<>> /\ \A i \in 1..Len(path) : M[i] = Follow(M[i - 1], path[i])
                /\ \A i \in 0..Len(path) : M[i] \in Seq(Segment)
                /\ Clean(path) = M[Len(path)]
PROOF
<1> DEFINE n == Len(path)  A == Seq(Segment)
           step == [x \in (1..n) \X A |-> Follow(x[2], path[x[1]])]
           Body(M) == [i \in 0..n |-> IF i = 0 THEN <<>> ELSE Follow(M[i - 1], path[i])]
<1>1. n \in Nat /\ \A i \in 1..n : path[i] \in Segment
  OBVIOUS
<1>2. step \in [(1..n) \X A -> A] /\ <<>> \in A
  <2>1. ASSUME NEW x \in (1..n) \X A PROVE Follow(x[2], path[x[1]]) \in A
    <3>1. x[2] \in A /\ path[x[1]] \in Segment
      BY <1>1
    <3> QED
      BY <3>1, FollowTyped
  <2> QED
    BY <2>1
<1>3. PICK f : Run(n, A, <<>>, step, f)
  <2> HIDE DEF n, A, step
  <2> QED
    BY <1>1, <1>2, RecursionUpTo
<1>4. f \in [0..n -> A] /\ f[0] = <<>> /\ \A i \in 1..n : f[i] = Follow(f[i - 1], path[i])
  <2>1. f \in [0..n -> A] /\ f[0] = <<>> /\ \A i \in 1..n : f[i] = step[<<i, f[i - 1]>>]
    BY <1>3 DEF Run
  <2>2. ASSUME NEW i \in 1..n PROVE step[<<i, f[i - 1]>>] = Follow(f[i - 1], path[i])
    <3>1. i - 1 \in 0..n
      BY <1>1
    <3>2. <<i, f[i - 1]>> \in (1..n) \X A
      BY <2>1, <3>1
    <3> QED
      BY <3>2
  <2> HIDE DEF step
  <2> QED
    BY <2>1, <2>2
<1>5. f = Body(f)
  <2>1. \A i \in 0..n : f[i] = IF i = 0 THEN <<>> ELSE Follow(f[i - 1], path[i])
    BY <1>1, <1>4
  <2> HIDE DEF n, A
  <2> QED
    BY <1>4, <2>1
<1> DEFINE M == CHOOSE M : M = Body(M)
<1>6. M = Body(M)
  <2> HIDE DEF Body
  <2> QED
    BY <1>5
<1>7. Clean(path) = M[n]
  BY DEF Clean
<1> HIDE DEF M
<1>8. M[0] = <<>> /\ \A i \in 1..n : M[i] = Follow(M[i - 1], path[i])
  <2>1. \A i \in 0..n : M[i] = IF i = 0 THEN <<>> ELSE Follow(M[i - 1], path[i])
    BY <1>6
  <2>2. 0 \in 0..n /\ \A i \in 1..n : i \in 0..n /\ i # 0
    BY <1>1
  <2> QED
    BY <2>1, <2>2
<1> DEFINE S == {i \in 0..n : M[i] \in A}
<1>9. 0 \in S
  <2> HIDE DEF A
  <2> QED
    BY <1>1, <1>2, <1>8
<1>10. ASSUME NEW i \in 1..n, i - 1 \in S PROVE i \in S
  <2>1. M[i - 1] \in A /\ i \in 0..n
    BY <1>1, <1>10
  <2>2. Follow(M[i - 1], path[i]) \in A
    BY <1>1, <2>1, FollowTyped
  <2> HIDE DEF A
  <2> QED
    BY <1>8, <2>1, <2>2
<1>11. 0..n \subseteq S
  <2> HIDE DEF S, n
  <2> QED
    BY <1>1, <1>9, <1>10, InductionUpTo
<1> QED
  BY <1>7, <1>8, <1>11

(* A cleaned path is a path.                                               *)
LEMMA CleanIsPath ==
  ASSUME NEW path \in Seq(Segment)
  PROVE  Clean(path) \in Seq(Segment)
PROOF
<1>1. Len(path) \in 0..Len(path)
  OBVIOUS
<1> QED
  BY <1>1, CleanRuns

(* A path without two dots is clean as it is.                              *)
LEMMA CleanPathIsKept ==
  ASSUME NEW path \in Seq(Segment), \A i \in 1..Len(path) : path[i] # ".."
  PROVE  Clean(path) = path
PROOF
<1> DEFINE n == Len(path)
<1>1. n \in Nat
  OBVIOUS
<1>2. PICK M : /\ M[0] = <<>> /\ \A i \in 1..n : M[i] = Follow(M[i - 1], path[i])
               /\ Clean(path) = M[n]
  BY CleanRuns
<1> DEFINE S == {i \in 0..n : M[i] = SubSeq(path, 1, i)}
<1>3. 0 \in S
  <2>1. SubSeq(path, 1, 0) = <<>>
    OBVIOUS
  <2>2. 0 \in 0..n /\ M[0] = SubSeq(path, 1, 0)
    BY <1>1, <1>2, <2>1
  <2> QED
    BY <2>2
<1>4. ASSUME NEW i \in 1..n, i - 1 \in S PROVE i \in S
  <2>1. M[i] = Append(SubSeq(path, 1, i - 1), path[i])
    BY <1>2, <1>4 DEF Follow
  <2>2. Append(SubSeq(path, 1, i - 1), path[i]) = SubSeq(path, 1, i)
    BY <1>1
  <2> QED
    BY <1>1, <2>1, <2>2
<1>5. 0..n \subseteq S
  <2> HIDE DEF S, n
  <2> QED
    BY <1>1, <1>3, <1>4, InductionUpTo
<1>6. M[n] = SubSeq(path, 1, n)
  BY <1>1, <1>5
<1> QED
  BY <1>2, <1>6

(* A path that was normalized and is that of a note stays as it is when it *)
(* is normalized again.                                                    *)
LEMMA NormalizedAgain ==
  ASSUME NEW raw \in RawPath, IsNotePath(raw)
  PROVE  LET q == Normalized(raw)
         IN  q \in Seq(Segment) /\ IsNotePath(q) /\ Normalized(q) = q
PROOF
<1> DEFINE q == Normalized(raw)
<1>1. raw \in Seq(Segment)
  BY SearchConstants DEF RawPath
<1>2. <<NotesDir>> \o raw \in Seq(Segment)
  BY <1>1 DEF Segment
<1>3. q \in Seq(Segment)
  BY <1>1, <1>2, CleanIsPath DEF Normalized
<1>4. BelowNotes(q) /\ Last(q) = MdFile /\ \A i \in 1..Len(q) : q[i] \notin {Hidden, ".."}
  BY DEF IsNotePath
<1> HIDE DEF q
<1>5. Clean(q) = q
  BY <1>3, <1>4, CleanPathIsKept
<1>6. Normalized(q) = q
  BY <1>4, <1>5 DEF Normalized
<1> QED
  BY <1>3, <1>4, <1>6 DEF IsNotePath, q

(* The best of the notes with a word, up to a limit.                       *)
BestHaving(notes, answer) ==
  LET having == {p \in DOMAIN notes : HasWord(notes[p], answer.word)}
  IN  /\ answer.hits \subseteq having /\ Cardinality(answer.hits) <= answer.limit
      /\ Cardinality(answer.hits) < answer.limit => answer.hits = having
      /\ \A p \in answer.hits, q \in having \ answer.hits :
           notes[q].title = answer.word => notes[p].title = answer.word

(* The inductive invariant: every stored path is a note's and normal,      *)
(* there are so many at most, and an answer is that of the notes that are  *)
(* there.                                                                  *)
SearchInv ==
  /\ vault = [p \in DOMAIN vault |-> vault[p]] /\ IsFiniteSet(DOMAIN vault)
  /\ \A p \in DOMAIN vault : /\ p \in Seq(Segment) /\ IsNotePath(p) /\ Normalized(p) = p
                             /\ vault[p] \in NoteFile
  /\ Cardinality(DOMAIN vault) <= MaxNotes
  /\ found.kind \in {"error", "list", "search", "read"}
  /\ found.kind = "list" => found.hits = DOMAIN vault
  /\ found.kind = "search" => BestHaving(vault, found)

(* An empty vault satisfies the invariant.                                 *)
LEMMA SearchStart == SearchInit => SearchInv
PROOF
<1> SUFFICES ASSUME SearchInit PROVE SearchInv
  OBVIOUS
<1>1. vault = <<>> /\ DOMAIN vault = {} /\ found.kind = "error"
  BY DEF SearchInit, NothingFound
<1> QED
  BY <1>1, FS_EmptySet, SearchConstants DEF SearchInv

(* The walk over the vault meets every note.                               *)
LEMMA AllAreWalked ==
  ASSUME SearchInv
  PROVE  Walked = DOMAIN vault
PROOF
<1>1. ASSUME NEW p \in DOMAIN vault, NEW i \in 2..(Len(p) - 1) PROVE p[i] # Hidden
  <2>1. p \in Seq(Segment) /\ \A j \in 1..Len(p) : p[j] \notin {Hidden, ".."}
    BY DEF SearchInv, IsNotePath
  <2>2. i \in 1..Len(p)
    BY <2>1
  <2> QED
    BY <2>1, <2>2
<1> QED
  BY <1>1 DEF Walked

(* A note scores a word if it has it in its title or its summary, and the  *)
(* title counts for more.                                                  *)
LEMMA ScoresShow ==
  ASSUME SearchInv, NEW w \in Word, NEW p \in DOMAIN vault
  PROVE  /\ Matches(p, w) <=> HasWord(vault[p], w)
         /\ Score(p, w) \in 0..13
         /\ HasWord(vault[p], w) => (Score(p, w) >= 8 <=> vault[p].title = w)
PROOF
<1>1. vault[p] \in NoteFile /\ w # NoWord
  BY SearchConstants DEF SearchInv
<1>2. TitleOf(vault[p]) = w <=> vault[p].block = "closed" /\ vault[p].title = w
  BY <1>1 DEF NoteFile, TitleOf, TitleField, ReadMetadata
<1>3. SummaryField(vault[p]) = w <=> vault[p].block = "closed" /\ vault[p].summary = w
  BY <1>1 DEF SummaryField
<1>4. HasWord(vault[p], w) <=> TitleOf(vault[p]) = w \/ SummaryField(vault[p]) = w
  BY <1>2, <1>3 DEF HasWord
<1> QED
  BY <1>2, <1>3, <1>4 DEF Matches, Score, HasWord

(* What is answered of the matches are the best of the notes that have the *)
(* word.                                                                   *)
LEMMA BestAreHaving ==
  ASSUME SearchInv, NEW w \in Word, NEW n \in Nat,
         NEW best \in Best({p \in DOMAIN vault : Matches(p, w)}, w, n)
  PROVE  BestHaving(vault, [kind |-> "search", word |-> w, limit |-> n, hits |-> best])
PROOF
<1> DEFINE having == {p \in DOMAIN vault : HasWord(vault[p], w)}
<1>1. {p \in DOMAIN vault : Matches(p, w)} = having
  BY ScoresShow
<1>2. /\ best \in SUBSET having
      /\ Cardinality(best) = IF Cardinality(having) > n THEN n ELSE Cardinality(having)
      /\ \A p \in best, q \in having \ best : Score(p, w) >= Score(q, w)
  BY <1>1 DEF Best
<1>3. IsFiniteSet(having) /\ Cardinality(having) \in Nat
  <2>1. having \in SUBSET DOMAIN vault /\ IsFiniteSet(DOMAIN vault)
    BY DEF SearchInv
  <2> HIDE DEF having
  <2> QED
    BY <2>1, FS_Subset, FS_CardinalityType
<1>4. ASSUME NEW p \in best, NEW q \in having \ best, vault[q].title = w PROVE vault[p].title = w
  <2>1. /\ p \in DOMAIN vault /\ q \in DOMAIN vault
        /\ HasWord(vault[p], w) /\ HasWord(vault[q], w)
    BY <1>2
  <2>2. Score(p, w) \in 0..13 /\ Score(q, w) \in 0..13 /\ Score(q, w) >= 8
    BY <1>4, <2>1, ScoresShow
  <2>3. Score(p, w) >= 8
    BY <1>2, <2>2
  <2> QED
    BY <2>1, <2>3, ScoresShow
<1> HIDE DEF having
<1>5. Cardinality(best) <= n /\ (Cardinality(best) < n => best = having)
  BY <1>2, <1>3, FS_Subset
<1> QED
  BY <1>2, <1>4, <1>5 DEF BestHaving, having

(* An answer that changes nothing in the vault.                            *)
LEMMA AnswersKeep ==
  ASSUME SearchInv, [SearchNext]_searchVars, vault' = vault
  PROVE  SearchInv'
PROOF
<1>1. SearchInv' <=> /\ found'.kind \in {"error", "list", "search", "read"}
                     /\ found'.kind = "list" => found'.hits = DOMAIN vault
                     /\ found'.kind = "search" => BestHaving(vault, found')
  BY DEF SearchInv
<1>2. ASSUME found' = found PROVE SearchInv'
  BY <1>1, <1>2 DEF SearchInv
<1>3. ASSUME found' = NothingFound PROVE SearchInv'
  BY <1>1, <1>3 DEF NothingFound
<1>4. ASSUME NEW kind \in {"list", "search", "read"}, NEW w, NEW n, NEW hits, AnswerNotes(kind, w, n, hits),
             kind = "list" => hits = DOMAIN vault,
             kind = "search" => BestHaving(vault, [kind |-> kind, word |-> w, limit |-> n, hits |-> hits])
      PROVE  SearchInv'
  BY <1>1, <1>3, <1>4 DEF AnswerNotes
<1>5. CASE StatusOfNotes
  BY <1>4, <1>5, AllAreWalked DEF StatusOfNotes
<1>6. ASSUME NEW w \in Word, NEW asked \in 0..(MaxSearchResults + 1), SearchNotes(w, asked) PROVE SearchInv'
  <2> DEFINE n == ResultLimit(asked)  hits == {p \in Walked : Matches(p, w)}
  <2>1. PICK best \in Best(hits, w, n) : AnswerNotes("search", w, n, best)
    BY <1>6 DEF SearchNotes
  <2>2. n \in Nat
    BY SearchConstants DEF ResultLimit
  <2> HIDE DEF n, hits
  <2>3. BestHaving(vault, [kind |-> "search", word |-> w, limit |-> n, hits |-> best])
    BY <2>1, <2>2, AllAreWalked, BestAreHaving DEF hits
  <2> QED
    BY <1>4, <2>1, <2>3
<1>7. ASSUME NEW raw \in RawPath, ReadNote(raw) PROVE SearchInv'
  BY <1>4, <1>7 DEF ReadNote
<1>8. ASSUME NEW raw \in RawPath, RemoveNote(raw) \/ \E note \in NoteFile : PutNote(raw, note)
      PROVE  SearchInv'
  BY <1>3, <1>8 DEF PutNote, RemoveNote
<1>9. CASE Link
  BY <1>3, <1>9 DEF Link
<1>10. CASE UNCHANGED searchVars
  BY <1>2, <1>10 DEF searchVars
<1> QED
  BY <1>5, <1>6, <1>7, <1>8, <1>9, <1>10 DEF SearchNext

(* Every step keeps the invariant.                                         *)
LEMMA SearchSteps ==
  ASSUME SearchInv, [SearchNext]_searchVars
  PROVE  SearchInv'
PROOF
<1>1. ASSUME NEW raw \in RawPath, NEW note \in NoteFile, PutNote(raw, note) PROVE SearchInv'
  <2> DEFINE q == Normalized(raw)
  <2>1. /\ IsNotePath(raw) /\ found' = NothingFound
        /\ q \in DOMAIN vault \/ Cardinality(DOMAIN vault) < MaxNotes
        /\ vault' = [p \in DOMAIN vault \cup {q} |-> IF p = q THEN note ELSE vault[p]]
    BY <1>1 DEF PutNote, Reachable
  <2>2. q \in Seq(Segment) /\ IsNotePath(q) /\ Normalized(q) = q
    BY <2>1, NormalizedAgain
  <2> HIDE DEF q
  <2>3. DOMAIN vault' = DOMAIN vault \cup {q} /\ vault' = [p \in DOMAIN vault' |-> vault'[p]]
    BY <2>1
  <2>4. IsFiniteSet(DOMAIN vault') /\ Cardinality(DOMAIN vault') <= MaxNotes
    <3>1. IsFiniteSet(DOMAIN vault) /\ Cardinality(DOMAIN vault) <= MaxNotes
      BY DEF SearchInv
    <3>2. Cardinality(DOMAIN vault) \in Nat
      BY <3>1, FS_CardinalityType
    <3>3. /\ IsFiniteSet(DOMAIN vault \cup {q})
          /\ Cardinality(DOMAIN vault \cup {q}) =
               IF q \in DOMAIN vault THEN Cardinality(DOMAIN vault) ELSE Cardinality(DOMAIN vault) + 1
      BY <3>1, FS_AddElement
    <3> QED
      BY <2>1, <2>3, <3>1, <3>2, <3>3, SearchConstants
  <2>5. \A p \in DOMAIN vault' : /\ p \in Seq(Segment) /\ IsNotePath(p) /\ Normalized(p) = p
                                 /\ vault'[p] \in NoteFile
    BY <2>1, <2>2, <2>3 DEF SearchInv
  <2> QED
    BY <2>1, <2>3, <2>4, <2>5 DEF SearchInv, NothingFound
<1>2. ASSUME NEW raw \in RawPath, RemoveNote(raw) PROVE SearchInv'
  <2> DEFINE q == Normalized(raw)
  <2>1. found' = NothingFound /\ vault' = [p \in DOMAIN vault \ {q} |-> vault[p]]
    BY <1>2 DEF RemoveNote
  <2> HIDE DEF q
  <2>2. DOMAIN vault' = DOMAIN vault \ {q} /\ vault' = [p \in DOMAIN vault' |-> vault'[p]]
    BY <2>1
  <2>3. IsFiniteSet(DOMAIN vault') /\ Cardinality(DOMAIN vault') <= MaxNotes
    <3>1. IsFiniteSet(DOMAIN vault) /\ Cardinality(DOMAIN vault) <= MaxNotes
      BY DEF SearchInv
    <3>2. /\ IsFiniteSet(DOMAIN vault \ {q})
          /\ Cardinality(DOMAIN vault \ {q}) <= Cardinality(DOMAIN vault)
      BY <3>1, FS_Subset
    <3>3. Cardinality(DOMAIN vault) \in Nat /\ Cardinality(DOMAIN vault \ {q}) \in Nat
      BY <3>1, <3>2, FS_CardinalityType
    <3> QED
      BY <2>2, <3>1, <3>2, <3>3, SearchConstants
  <2> QED
    BY <2>1, <2>2, <2>3 DEF SearchInv, NothingFound
<1>3. CASE vault' = vault
  BY <1>3, AnswersKeep
<1>4. CASE vault' # vault
  BY <1>1, <1>2, <1>4 DEF SearchNext, Link, StatusOfNotes, SearchNotes, ReadNote, AnswerNotes, searchVars
<1> QED
  BY <1>3, <1>4

(* Every note that may be written is met by the listing and by the search  *)
(* (privatenotes/store.go), for any segments, words and number of notes.   *)
THEOREM NotesStayFound == SearchSpec => [](NotesAreFound /\ SearchTypeOK)
PROOF
<1>1. SearchSpec => []SearchInv
  BY SearchStart, SearchSteps, PTL DEF SearchSpec
<1>2. SearchInv => NotesAreFound /\ SearchTypeOK
  BY DEF SearchInv, NotesAreFound, SearchTypeOK, BestHaving
<1> QED
  BY <1>1, <1>2, PTL

(* ---- Edits of a document ------------------------------------------------- *)
(* The lines outside of a section are followed through a splice: the lines *)
(* before and behind it keep their order and their section.                *)

(* The place an element has in the order of a finite set of numbers.       *)
Place(K, i) == Cardinality({j \in K : j <= i})
(* The lines of a set of places, in their order.                           *)
InPlaces(K, lines) == [n \in 1..Cardinality(K) |-> lines[CHOOSE i \in K : Place(K, i) = n]]

(* Every number up to the size of the set is the place of one element.     *)
LEMMA PlacesAreOne ==
  ASSUME NEW K \in SUBSET Int, IsFiniteSet(K)
  PROVE  /\ \A i \in K : Place(K, i) \in 1..Cardinality(K)
         /\ \A i, j \in K : Place(K, i) = Place(K, j) => i = j
         /\ \A n \in 1..Cardinality(K) : \E i \in K : Place(K, i) = n
PROOF
<1> DEFINE key == [i \in K |-> i]
<1>1. key \in [K -> Int]
  OBVIOUS
<1>4. \A i, j \in K : key[i] = key[j] => i = j
  OBVIOUS
<1>2. \A i \in K : Rank(K, key, i) = Place(K, i)
  <2>1. \A i \in K : {j \in K : key[j] <= key[i]} = {j \in K : j <= i}
    OBVIOUS
  <2> QED
    BY <2>1 DEF Rank, Place
<1> HIDE DEF key
<1>3. Ranked(K, key)
  BY <1>1, <1>4, RanksAreOne
<1> QED
  BY <1>2, <1>3 DEF Ranked

(* Sets whose elements correspond in order, with equal lines, give the     *)
(* same sequence.                                                          *)
LEMMA SameInPlaces ==
  ASSUME NEW K \in SUBSET Int, IsFiniteSet(K), NEW L \in SUBSET Int, NEW f \in [K -> L],
         \A i, j \in K : i < j => f[i] < f[j],
         \A l \in L : \E i \in K : f[i] = l,
         NEW was, NEW now, \A i \in K : now[f[i]] = was[i]
  PROVE  InPlaces(L, now) = InPlaces(K, was)
PROOF
<1>0. \A i \in K : i \in Int /\ f[i] \in L /\ f[i] \in Int
  OBVIOUS
<1>1. \A i, j \in K : (i <= j <=> f[i] <= f[j]) /\ (f[i] = f[j] => i = j)
  BY <1>0
<1>2. f \in Bijection(K, L)
  BY <1>1, Fun_IsBij
<1>3. IsFiniteSet(L) /\ Cardinality(L) = Cardinality(K)
  <2>1. ExistsBijection(K, L)
    BY <1>2 DEF ExistsBijection
  <2> QED
    BY <2>1, FS_Bijection
<1>4. ASSUME NEW i \in K PROVE Place(L, f[i]) = Place(K, i)
  <2> DEFINE A == {j \in K : j <= i}  B == {l \in L : l <= f[i]}
             g == [j \in A |-> f[j]]
  <2>1. A \in SUBSET K /\ IsFiniteSet(A)
    <3>1. A \in SUBSET K
      OBVIOUS
    <3> HIDE DEF A
    <3> QED
      BY <3>1, FS_Subset
  <2>2. g \in [A -> B]
    BY <1>0, <1>1
  <2>3. \A j, k \in A : g[j] = g[k] => j = k
    BY <1>1
  <2>4. \A l \in B : \E j \in A : g[j] = l
    <3>1. ASSUME NEW l \in B PROVE \E j \in A : g[j] = l
      <4>1. PICK j \in K : f[j] = l
        OBVIOUS
      <4>2. f[j] <= f[i]
        BY <4>1
      <4>3. j \in A
        BY <1>1, <4>2
      <4> QED
        BY <4>1, <4>3
    <3> QED
      BY <3>1
  <2>5. g \in Bijection(A, B)
    <3> HIDE DEF g, A, B
    <3> QED
      BY <2>2, <2>3, <2>4, Fun_IsBij
  <2>6. ExistsBijection(A, B)
    <3> HIDE DEF g, A, B
    <3> QED
      BY <2>5 DEF ExistsBijection
  <2>7. Cardinality(B) = Cardinality(A)
    <3> HIDE DEF g, A, B
    <3> QED
      BY <2>1, <2>6, FS_Bijection
  <2> QED
    BY <2>7 DEF Place
<1>5. ASSUME NEW n \in 1..Cardinality(K)
      PROVE  now[CHOOSE l \in L : Place(L, l) = n] = was[CHOOSE i \in K : Place(K, i) = n]
  <2> DEFINE i == CHOOSE i \in K : Place(K, i) = n
             l == CHOOSE l \in L : Place(L, l) = n
  <2>1. i \in K /\ Place(K, i) = n
    BY PlacesAreOne
  <2>2. l \in L /\ Place(L, l) = n
    BY <1>3, PlacesAreOne
  <2> HIDE DEF i, l
  <2>3. f[i] \in L /\ Place(L, f[i]) = n
    BY <1>4, <2>1
  <2>4. l = f[i]
    <3>1. \A a, b \in L : Place(L, a) = Place(L, b) => a = b
      BY <1>3, PlacesAreOne
    <3> QED
      BY <2>2, <2>3, <3>1
  <2>5. now[l] = was[i]
    BY <2>1, <2>4
  <2> QED
    BY <2>5 DEF i, l
<1> DEFINE F(n) == now[CHOOSE l \in L : Place(L, l) = n]
           G(n) == was[CHOOSE i \in K : Place(K, i) = n]
<1>6. InPlaces(L, now) = [n \in 1..Cardinality(K) |-> F(n)]
  BY <1>3 DEF InPlaces
<1>7. InPlaces(K, was) = [n \in 1..Cardinality(K) |-> G(n)]
  BY DEF InPlaces
<1>8. \A n \in 1..Cardinality(K) : F(n) = G(n)
  BY <1>5
<1> HIDE DEF F, G
<1> QED
  BY <1>6, <1>7, <1>8

(* The greatest element of a set of numbers up to n is one of them.        *)
LEMMA GreatestOf ==
  ASSUME NEW n \in Nat, NEW S \in SUBSET (1..n), S # {}
  PROVE  Max(S) \in S /\ \A x \in S : x <= Max(S)
PROOF
<1> DEFINE T == {n - x : x \in S}
<1>1. T \in SUBSET Nat /\ T # {}
  <2>1. T \in SUBSET Nat
    OBVIOUS
  <2>2. T # {}
    OBVIOUS
  <2> QED
    BY <2>1, <2>2
<1>2. PICK m \in T : \A t \in T : m <= t
  <2> HIDE DEF T
  <2> QED
    BY <1>1, LeastNatural
<1>3. PICK x \in S : m = n - x
  OBVIOUS
<1>4. \A y \in S : y <= x
  <2>1. ASSUME NEW y \in S PROVE y <= x
    <3>1. n - y \in T /\ n - x <= n - y
      BY <1>2, <1>3
    <3>2. x \in Int /\ y \in Int
      OBVIOUS
    <3> QED
      BY <3>1, <3>2
  <2> QED
    BY <2>1
<1>5. \A y \in S : x >= y
  BY <1>4
<1>6. Max(S) \in S /\ \A y \in S : Max(S) >= y
  BY <1>3, <1>5 DEF Max
<1> QED
  BY <1>6

(* A line is the record of its fields.                                     *)
LEMMA LineFields ==
  ASSUME NEW l \in Line
  PROVE  l.level \in Nat /\ l = [level |-> l.level, name |-> l.name, value |-> l.value]
  BY EditConstants DEF Line, HeadingLine, FactLine

(* The places that are not in the section.                                 *)
Apart(lines, s) == {i \in 1..Len(lines) : i \notin InSection(lines, s)}

(* What is outside of a section are the lines of those places.             *)
LEMMA OutsideInPlaces ==
  ASSUME NEW lines, NEW s
  PROVE  Outside(lines, s) = InPlaces(Apart(lines, s), lines)
  BY DEF Outside, InPlaces, Place, Apart

(* A text and another that has b other lines in the place of those between *)
(* start and end.                                                          *)
Spliced(was, now, start, end, b) ==
  /\ was \in Seq(Line) /\ now \in Seq(Line)
  /\ start \in 0..Len(was) /\ end \in (start + 1)..(Len(was) + 1) /\ b \in Nat
  /\ Len(now) = start + b + (Len(was) + 1 - end)
  /\ \A i \in 1..start : now[i] = was[i]
  /\ \A i \in end..Len(was) : now[i + (start + b + 1 - end)] = was[i]

(* The lines of two texts one after the other.                             *)
LEMMA JoinedLines ==
  ASSUME NEW a \in Seq(Line), NEW c \in Seq(Line)
  PROVE  /\ a \o c \in Seq(Line) /\ Len(a \o c) = Len(a) + Len(c)
         /\ \A i \in 1..Len(a) : (a \o c)[i] = a[i]
         /\ \A i \in 1..Len(c) : (a \o c)[Len(a) + i] = c[i]
PROOF
<1>1. a \o c \in Seq(Line) /\ Len(a \o c) = Len(a) + Len(c)
  OBVIOUS
<1>2. ASSUME NEW i \in 1..Len(a) PROVE (a \o c)[i] = a[i]
  OBVIOUS
<1>3. ASSUME NEW i \in 1..Len(c) PROVE (a \o c)[Len(a) + i] = c[i]
  OBVIOUS
<1> QED
  BY <1>1, <1>2, <1>3

(* A body in the place of what is between start and end.                   *)
LEMMA SplicedSequences ==
  ASSUME NEW was \in Seq(Line), NEW body \in Seq(Line), NEW start \in 0..Len(was),
         NEW end \in (start + 1)..(Len(was) + 1)
  PROVE  LET now == SubSeq(was, 1, start) \o body \o SubSeq(was, end, Len(was))
         IN  /\ Spliced(was, now, start, end, Len(body))
             /\ \A i \in 1..Len(body) : now[start + i] = body[i]
PROOF
<1> DEFINE p == SubSeq(was, 1, start)  q == SubSeq(was, end, Len(was))  pb == p \o body  now == pb \o q
           b == Len(body)
<1>1. Len(was) \in Nat /\ b \in Nat /\ start \in Nat /\ end \in Nat /\ start <= Len(was) /\ start < end
      /\ end <= Len(was) + 1
  OBVIOUS
<1>2. p \in Seq(Line) /\ Len(p) = start /\ \A i \in 1..start : p[i] = was[i]
  BY <1>1
<1>3. /\ q \in Seq(Line) /\ Len(q) = Len(was) + 1 - end
      /\ \A i \in 1..(Len(was) + 1 - end) : q[i] = was[end + i - 1]
  BY <1>1
<1> HIDE DEF p, q, pb, now
<1>4. /\ pb \in Seq(Line) /\ Len(pb) = start + b
      /\ \A i \in 1..start : pb[i] = was[i]
      /\ \A i \in 1..b : pb[start + i] = body[i]
  BY <1>1, <1>2, JoinedLines DEF pb
<1>5. /\ now \in Seq(Line) /\ Len(now) = start + b + (Len(was) + 1 - end)
      /\ \A i \in 1..(start + b) : now[i] = pb[i]
      /\ \A i \in 1..(Len(was) + 1 - end) : now[start + b + i] = q[i]
  <2>1. /\ now \in Seq(Line) /\ Len(now) = Len(pb) + Len(q)
        /\ \A i \in 1..Len(pb) : now[i] = pb[i]
        /\ \A i \in 1..Len(q) : now[Len(pb) + i] = q[i]
    BY <1>3, <1>4, JoinedLines DEF now
  <2> QED
    BY <1>3, <1>4, <2>1
<1>6. \A i \in 1..start : now[i] = was[i]
  BY <1>1, <1>4, <1>5
<1>7. \A i \in 1..b : now[start + i] = body[i]
  BY <1>1, <1>4, <1>5
<1>8. ASSUME NEW i \in end..Len(was) PROVE now[i + (start + b + 1 - end)] = was[i]
  <2> DEFINE k == i + 1 - end
  <2>1. k \in 1..(Len(was) + 1 - end) /\ start + b + k = i + (start + b + 1 - end) /\ end + k - 1 = i
    BY <1>1
  <2> HIDE DEF k
  <2>2. now[start + b + k] = was[end + k - 1]
    BY <1>3, <1>5, <2>1
  <2> QED
    BY <2>1, <2>2
<1> QED
  BY <1>1, <1>5, <1>6, <1>7, <1>8 DEF Spliced, now, pb, p, q

(* The headings of a name before and behind the splice are those there     *)
(* were.                                                                   *)
LEMMA SplicedNames ==
  ASSUME NEW was, NEW now, NEW start, NEW end, NEW b, NEW s, Spliced(was, now, start, end, b)
  PROVE  /\ \A h \in 1..start : h \in Named(now, s) <=> h \in Named(was, s)
         /\ \A h \in end..Len(was) : h + (start + b + 1 - end) \in Named(now, s) <=> h \in Named(was, s)
         /\ \A h \in Named(now, s) : \/ h <= start \/ h \in (start + 1)..(start + b)
                                      \/ \E k \in end..Len(was) : h = k + (start + b + 1 - end)
PROOF
<1> DEFINE d == start + b + 1 - end
<1>1. /\ Len(was) \in Nat /\ Len(now) \in Nat /\ start \in 0..Len(was) /\ end \in (start + 1)..(Len(was) + 1)
      /\ b \in Nat /\ Len(now) = start + b + (Len(was) + 1 - end) /\ d \in Int
  BY DEF Spliced
<1>2. \A h \in 1..start : h \in 1..Len(now) /\ h \in 1..Len(was)
  BY <1>1
<1>3. \A h \in end..Len(was) : h + d \in 1..Len(now) /\ h \in 1..Len(was)
  BY <1>1
<1>4. ASSUME NEW h \in Named(now, s), ~(h <= start), h \notin (start + 1)..(start + b)
      PROVE  \E k \in end..Len(was) : h = k + d
  <2>1. h \in 1..Len(now)
    BY DEF Named
  <2>3. h - d \in end..Len(was) /\ h = (h - d) + d
    BY <1>1, <1>4, <2>1
  <2> QED
    BY <2>3
<1>5. \A h \in 1..start : h \in Named(now, s) <=> h \in Named(was, s)
  BY <1>2 DEF Spliced, Named
<1>6. \A h \in end..Len(was) : h + d \in Named(now, s) <=> h \in Named(was, s)
  BY <1>3 DEF Spliced, Named
<1> QED
  BY <1>4, <1>5, <1>6

(* A line is in the section of a heading of that name that nothing         *)
(* separates from it.                                                      *)
LEMMA InSectionIs ==
  ASSUME NEW lines, NEW s, NEW i \in 1..Len(lines)
  PROVE  i \in InSection(lines, s) <=> \E h \in Named(lines, s) : Heads(lines, h, i)
  BY DEF InSection, Heads

(* A line before the splice is in the section if it was.                   *)
LEMMA SplicedBefore ==
  ASSUME NEW was, NEW now, NEW start, NEW end, NEW b, NEW s, Spliced(was, now, start, end, b),
         NEW i \in 1..start
  PROVE  i \in InSection(now, s) <=> i \in InSection(was, s)
PROOF
<1>1. i \in 1..Len(was) /\ i \in 1..Len(now) /\ start \in Nat
  BY DEF Spliced
<1>2. ASSUME NEW h \in 1..i PROVE Heads(now, h, i) <=> Heads(was, h, i)
  <2>1. \A j \in h..i : j \in 1..start
    BY <1>1
  <2>2. h \in h..i /\ \A j \in (h + 1)..i : j \in h..i
    BY <1>1
  <2> QED
    BY <2>1, <2>2 DEF Heads, Spliced
<1>3. \A h : Heads(now, h, i) \/ Heads(was, h, i) => h <= i
  BY DEF Heads
<1>4. \A h : h \in Named(now, s) \/ h \in Named(was, s) => h \in Nat /\ 1 <= h
  <2>1. Len(was) \in Nat /\ Len(now) \in Nat
    BY DEF Spliced
  <2> QED
    BY <2>1 DEF Named
<1>5. \A h : (h \in Named(now, s) /\ Heads(now, h, i)) <=> (h \in Named(was, s) /\ Heads(was, h, i))
  <2>1. ASSUME NEW h, h \in Named(now, s) \/ h \in Named(was, s), h <= i PROVE h \in 1..i /\ h \in 1..start
    BY <1>1, <1>4, <2>1
  <2> QED
    BY <1>2, <1>3, <2>1, SplicedNames
<1> QED
  BY <1>1, <1>5, InSectionIs

(* Behind the splice, headings have the lines they had.                    *)
LEMMA SplicedTail ==
  ASSUME NEW was, NEW now, NEW start, NEW end, NEW b, Spliced(was, now, start, end, b),
         NEW h \in end..Len(was), NEW i \in end..Len(was)
  PROVE  Heads(now, h + (start + b + 1 - end), i + (start + b + 1 - end)) <=> Heads(was, h, i)
PROOF
<1> DEFINE d == start + b + 1 - end
<1>1. d \in Int /\ Len(was) \in Nat /\ end \in Int /\ h \in Int /\ i \in Int
  BY DEF Spliced
<1>2. \A j \in end..Len(was) : now[j + d] = was[j]
  BY DEF Spliced
<1> HIDE DEF d
<1>3. h + d <= i + d <=> h <= i
  BY <1>1
<1>4. \A j \in (h + 1)..i : j \in end..Len(was) /\ j + d \in (h + d + 1)..(i + d)
  BY <1>1
<1>5. \A j \in (h + d + 1)..(i + d) : j - d \in (h + 1)..i /\ (j - d) + d = j
  BY <1>1
<1> QED
  BY <1>2, <1>3, <1>4, <1>5 DEF Heads, d

(* What was put in where the section of a heading is, with headings that   *)
(* belong to it only, is in the section.                                   *)
LEMMA SplicedBody ==
  ASSUME NEW was, NEW now, NEW start, NEW end, NEW b, NEW s, Spliced(was, now, start, end, b),
         NEW h \in Named(was, s), Heads(was, h, start),
         \A j \in (start + 1)..(start + b) : IsHeading(now[j]) => now[j].level > was[h].level,
         NEW i \in (start + 1)..(start + b)
  PROVE  i \in InSection(now, s)
PROOF
<1>1. /\ start \in Nat /\ b \in Nat /\ i \in Int /\ Len(was) \in Nat /\ Len(now) \in Nat
      /\ end \in (start + 1)..(Len(was) + 1) /\ Len(now) = start + b + (Len(was) + 1 - end)
  BY DEF Spliced
<1>2. h \in 1..start /\ h \in Int
  BY <1>1 DEF Named, Heads
<1>3. i \in 1..Len(now)
  BY <1>1
<1>4. h \in Named(now, s) /\ now[h] = was[h]
  <2>1. h \in Named(now, s)
    BY <1>2, SplicedNames
  <2> QED
    BY <1>2, <2>1 DEF Spliced
<1>5. ASSUME NEW j \in (h + 1)..i, IsHeading(now[j]) PROVE now[j].level > was[h].level
  <2>1. CASE j <= start
    <3>1. j \in 1..start /\ j \in (h + 1)..start
      BY <1>1, <1>2, <2>1
    <3>2. now[j] = was[j]
      BY <3>1 DEF Spliced
    <3> QED
      BY <1>5, <3>1, <3>2 DEF Heads
  <2>2. CASE ~(j <= start)
    <3>1. j \in (start + 1)..(start + b)
      BY <1>1, <1>2, <2>2
    <3> QED
      BY <1>5, <3>1
  <2> QED
    BY <2>1, <2>2
<1>6. Heads(now, h, i)
  BY <1>1, <1>2, <1>4, <1>5 DEF Heads
<1> QED
  BY <1>3, <1>4, <1>6, InSectionIs

(* Without headings among what was put in and what was taken out, a line   *)
(* behind is in the section if it was.                                     *)
LEMMA SplicedPlain ==
  ASSUME NEW was, NEW now, NEW start, NEW end, NEW b, NEW s, Spliced(was, now, start, end, b),
         \A j \in (start + 1)..(start + b) : ~IsHeading(now[j]),
         \A j \in (start + 1)..(end - 1) : ~IsHeading(was[j]),
         NEW i \in end..Len(was)
  PROVE  i + (start + b + 1 - end) \in InSection(now, s) <=> i \in InSection(was, s)
PROOF
<1> DEFINE d == start + b + 1 - end
<1>1. /\ Len(was) \in Nat /\ Len(now) \in Nat /\ start \in 0..Len(was) /\ end \in (start + 1)..(Len(was) + 1)
      /\ b \in Nat /\ Len(now) = start + b + (Len(was) + 1 - end) /\ d \in Int /\ end + d = start + b + 1
  BY DEF Spliced
<1>2. i \in 1..Len(was) /\ i + d \in 1..Len(now)
  BY <1>1
<1>3. /\ \A j \in 1..start : now[j] = was[j]
      /\ \A j \in end..Len(was) : now[j + d] = was[j]
  BY DEF Spliced
<1>4. /\ \A h \in 1..start : h \in Named(now, s) <=> h \in Named(was, s)
      /\ \A h \in end..Len(was) : h + d \in Named(now, s) <=> h \in Named(was, s)
      /\ \A h \in end..Len(was) : Heads(now, h + d, i + d) <=> Heads(was, h, i)
  BY SplicedNames, SplicedTail
<1>5. ASSUME NEW h \in Named(was, s) PROVE h \in 1..start \/ h \in end..Len(was)
  <2>1. h \in 1..Len(was) /\ h \notin (start + 1)..(end - 1)
    BY DEF Named
  <2> QED
    BY <1>1, <2>1
<1>6. ASSUME NEW h \in Named(now, s) PROVE h \in 1..start \/ \E k \in end..Len(was) : h = k + d
  <2>1. h \in 1..Len(now) /\ h \notin (start + 1)..(start + b)
    BY DEF Named
  <2>2. h <= start \/ \E k \in end..Len(was) : h = k + d
    BY <2>1, SplicedNames
  <2> QED
    BY <1>1, <2>1, <2>2
<1> HIDE DEF d
<1>7. ASSUME NEW h \in 1..start PROVE Heads(now, h, i + d) <=> Heads(was, h, i)
  <2>1. now[h] = was[h] /\ h <= i + d /\ h <= i
    BY <1>1, <1>2, <1>3
  <2>4. h \in Int /\ i \in Int /\ start < i /\ start < i + d /\ start \in Int /\ i + d \in Int
    <3>1. start \in Int /\ end \in Int /\ b \in Nat /\ d \in Int /\ h \in Int /\ i \in Int
      BY <1>1
    <3>2. start < end /\ end <= i /\ end + d = start + b + 1
      BY <1>1
    <3> QED
      BY <3>1, <3>2
  <2>2. ASSUME Heads(was, h, i), NEW j \in (h + 1)..(i + d), IsHeading(now[j]) PROVE now[j].level > now[h].level
    <3>1. j \notin (start + 1)..(start + b)
      BY <2>2
    <3>2. CASE j <= start
      <4>1. j \in 1..start /\ j \in (h + 1)..i
        BY <1>1, <1>2, <3>2
      <4> QED
        BY <1>3, <2>1, <2>2, <4>1 DEF Heads
    <3>3. CASE ~(j <= start)
      <4>1. j - d \in end..Len(was) /\ j - d \in (h + 1)..i /\ (j - d) + d = j
        BY <1>1, <1>2, <3>1, <3>3
      <4>2. now[j] = was[j - d]
        BY <1>3, <4>1
      <4> QED
        BY <2>1, <2>2, <4>1, <4>2 DEF Heads
    <3> QED
      BY <3>2, <3>3
  <2>3. ASSUME Heads(now, h, i + d), NEW j \in (h + 1)..i, IsHeading(was[j]) PROVE was[j].level > was[h].level
    <3>1. j \notin (start + 1)..(end - 1)
      BY <2>3
    <3>2. CASE j <= start
      <4>1. j \in 1..start /\ j \in (h + 1)..(i + d)
        BY <2>4, <3>2
      <4> QED
        BY <1>3, <2>1, <2>3, <4>1 DEF Heads
    <3>3. CASE ~(j <= start)
      <4>1. j \in end..Len(was) /\ j + d \in (h + 1)..(i + d)
        BY <1>1, <1>2, <3>1, <3>3
      <4>2. now[j + d] = was[j]
        BY <1>3, <4>1
      <4> QED
        BY <2>1, <2>3, <4>1, <4>2 DEF Heads
    <3> QED
      BY <3>2, <3>3
  <2> QED
    BY <2>1, <2>2, <2>3 DEF Heads
<1>8. (\E h \in Named(now, s) : Heads(now, h, i + d)) <=> \E h \in Named(was, s) : Heads(was, h, i)
  BY <1>4, <1>5, <1>6, <1>7
<1>9. i + d \in InSection(now, s) <=> \E h \in Named(now, s) : Heads(now, h, i + d)
  BY <1>2, InSectionIs
<1>10. i \in InSection(was, s) <=> \E h \in Named(was, s) : Heads(was, h, i)
  BY <1>2, InSectionIs
<1> QED
  BY <1>8, <1>9, <1>10 DEF d

(* The lines outside of the section are the same if those that were put in *)
(* are in it, those that were replaced were, and those behind are in it if *)
(* they were.                                                              *)
LEMMA SplicedOutside ==
  ASSUME NEW was, NEW now, NEW start, NEW end, NEW b, NEW s, Spliced(was, now, start, end, b),
         \A i \in (start + 1)..(start + b) : i \in InSection(now, s),
         \A i \in end..Len(was) : i + (start + b + 1 - end) \in InSection(now, s) <=> i \in InSection(was, s),
         \A i \in (start + 1)..(end - 1) : i \in InSection(was, s)
  PROVE  Outside(now, s) = Outside(was, s)
PROOF
<1> DEFINE d == start + b + 1 - end  K == Apart(was, s)  L == Apart(now, s)
           f == [i \in K |-> IF i <= start THEN i ELSE i + d]
<1>1. /\ Len(was) \in Nat /\ Len(now) \in Nat /\ start \in 0..Len(was) /\ end \in (start + 1)..(Len(was) + 1)
      /\ b \in Nat /\ Len(now) = start + b + (Len(was) + 1 - end) /\ d \in Int
  BY DEF Spliced
<1>2. K \subseteq 1..Len(was) /\ L \subseteq 1..Len(now) /\ IsFiniteSet(K)
  <2>1. K \subseteq 1..Len(was) /\ L \subseteq 1..Len(now)
    BY DEF Apart
  <2> HIDE DEF K, L
  <2>2. IsFiniteSet(1..Len(was))
    BY <1>1, FS_Interval
  <2>3. IsFiniteSet(K)
    BY <2>1, <2>2, FS_Subset
  <2> QED
    BY <2>1, <2>3
<1>3. ASSUME NEW i \in K, ~(i <= start) PROVE i \in end..Len(was) /\ i + d \in L
  <2>1. i \in 1..Len(was) /\ i \notin InSection(was, s)
    BY DEF Apart
  <2>2. i \notin (start + 1)..(end - 1)
    BY <2>1
  <2>3. i \in end..Len(was) /\ i + d \in 1..Len(now)
    BY <1>1, <1>3, <2>1, <2>2
  <2> QED
    BY <2>1, <2>3 DEF Apart
<1>4. ASSUME NEW i \in 1..start PROVE i \in K <=> i \in L
  <2>1. i \in 1..Len(was) /\ i \in 1..Len(now)
    BY <1>1
  <2> QED
    BY <2>1, SplicedBefore DEF Apart
<1>5. \A i \in K : i \in 1..Len(was)
  BY <1>2
<1> HIDE DEF K, L
<1>6. f \in [K -> L]
  <2>1. ASSUME NEW i \in K, i <= start PROVE i \in L
    <3>1. i \in 1..start
      BY <1>1, <1>5, <2>1
    <3> QED
      BY <1>4, <3>1
  <2> QED
    BY <1>3, <2>1
<1>7. ASSUME NEW i \in K, NEW j \in K, i < j PROVE f[i] < f[j]
  <2>1. i \in Int /\ j \in Int /\ start \in Int /\ d \in Int
    BY <1>1, <1>5
  <2>2. ~(j <= start) => j >= end /\ j + d > start
    <3>1. ASSUME ~(j <= start) PROVE j >= end
      BY <1>1, <1>3, <3>1
    <3> QED
      BY <1>1, <2>1, <3>1
  <2> HIDE DEF d
  <2> QED
    BY <1>7, <2>1, <2>2
<1>8. ASSUME NEW l \in L PROVE \E i \in K : f[i] = l
  <2>1. l \in 1..Len(now)
    BY <1>2
  <2>2. CASE l <= start
    <3>1. l \in 1..start
      BY <1>1, <2>1, <2>2
    <3> QED
      BY <1>4, <2>2, <3>1
  <2>3. CASE ~(l <= start)
    <3>1. l \notin (start + 1)..(start + b)
      BY DEF L, Apart
    <3>2. l - d \in end..Len(was) /\ (l - d) + d = l /\ ~(l - d <= start) /\ l - d \in 1..Len(was)
      BY <1>1, <2>1, <2>3, <3>1
    <3>3. l - d \notin InSection(was, s)
      <4>1. (l - d) + d \notin InSection(now, s)
        BY <3>2 DEF L, Apart
      <4> QED
        BY <3>2, <4>1
    <3>4. l - d \in K
      BY <3>2, <3>3 DEF K, Apart
    <3>5. f[l - d] = (l - d) + d
      BY <3>2, <3>4
    <3> QED
      BY <3>2, <3>4, <3>5
  <2> QED
    BY <2>2, <2>3
<1>9. ASSUME NEW i \in K PROVE now[f[i]] = was[i]
  <2>1. CASE i <= start
    <3>1. i \in 1..start
      BY <1>1, <1>5, <2>1
    <3> QED
      BY <2>1, <3>1 DEF Spliced
  <2>2. CASE ~(i <= start)
    <3>1. i \in end..Len(was) /\ f[i] = i + d
      BY <1>3, <2>2
    <3> QED
      BY <3>1 DEF Spliced
  <2> QED
    BY <2>1, <2>2
<1>10. K \in SUBSET Int /\ L \in SUBSET Int
  BY <1>1, <1>2
<1> HIDE DEF d
<1>11. InPlaces(L, now) = InPlaces(K, was)
  <2> HIDE DEF f
  <2>1. \A i, j \in K : i < j => f[i] < f[j]
    BY <1>7
  <2>2. (\A l \in L : \E i \in K : f[i] = l) /\ \A i \in K : now[f[i]] = was[i]
    BY <1>8, <1>9
  <2>3. K \in SUBSET Int /\ L \in SUBSET Int /\ IsFiniteSet(K)
    BY <1>2, <1>10
  <2>4. f \in [K -> L]
    BY <1>6
  <2> QED
    BY <2>3, <2>4, <2>1, <2>2, SameInPlaces, SMTT(60)
<1> QED
  BY <1>11, OutsideInPlaces DEF K, L

(* The section ends before the next heading of its level or above.         *)
LEMMA EndIs ==
  ASSUME NEW lines \in Seq(Line), NEW start \in 1..Len(lines)
  PROVE  LET e == EndOf(lines, start)
         IN  /\ e \in (start + 1)..(Len(lines) + 1)
             /\ e <= Len(lines) => IsHeading(lines[e]) /\ lines[e].level <= lines[start].level
             /\ \A j \in (start + 1)..(e - 1) : IsHeading(lines[j]) => lines[j].level > lines[start].level
PROOF
<1> DEFINE H == {i \in (start + 1)..Len(lines) : IsHeading(lines[i]) /\ lines[i].level <= lines[start].level}
           E == {Len(lines) + 1} \cup H
<1>1. Len(lines) \in Nat /\ start \in Nat /\ start <= Len(lines)
  OBVIOUS
<1>2. \A j \in 1..Len(lines) : lines[j].level \in Nat
  BY <1>1, LineFields
<1>3. E \in SUBSET Nat /\ E # {}
  BY <1>1
<1>4. Min(E) \in E /\ \A x \in E : Min(E) <= x
  <2> HIDE DEF E
  <2> QED
    BY <1>3, LeastOf
<1>5. EndOf(lines, start) = Min(E)
  BY DEF EndOf
<1> DEFINE e == Min(E)
<1> HIDE DEF e
<1>6. e \in E /\ \A x \in E : e <= x
  BY <1>4 DEF e
<1>7. e \in (start + 1)..(Len(lines) + 1)
  BY <1>1, <1>6
<1>8. e <= Len(lines) => IsHeading(lines[e]) /\ lines[e].level <= lines[start].level
  BY <1>1, <1>6
<1>9. ASSUME NEW j \in (start + 1)..(e - 1), IsHeading(lines[j]) PROVE lines[j].level > lines[start].level
  <2>1. j \in (start + 1)..Len(lines) /\ ~(e <= j) /\ j \in 1..Len(lines)
    BY <1>1, <1>7
  <2>2. j \notin H
    BY <1>6, <2>1
  <2>3. ~(lines[j].level <= lines[start].level)
    BY <1>9, <2>1, <2>2
  <2> QED
    BY <1>1, <1>2, <2>1, <2>3
<1> QED
  BY <1>5, <1>7, <1>8, <1>9 DEF e

(* The first and the last heading of a name.                               *)
LEMMA NamedFirst ==
  ASSUME NEW lines \in Seq(Line), NEW s, Named(lines, s) # {}
  PROVE  /\ Min(Named(lines, s)) \in Named(lines, s) /\ Max(Named(lines, s)) \in Named(lines, s)
         /\ Named(lines, s) \subseteq 1..Len(lines) /\ Len(lines) \in Nat
         /\ \A h \in Named(lines, s) : Min(Named(lines, s)) <= h /\ h <= Max(Named(lines, s))
PROOF
<1>1. Len(lines) \in Nat /\ Named(lines, s) \in SUBSET (1..Len(lines))
  BY DEF Named
<1>2. Named(lines, s) \in SUBSET Nat
  BY <1>1
<1> QED
  BY <1>1, <1>2, LeastOf, GreatestOf

(* The first heading of a name, its end, and the text with its section     *)
(* replaced.                                                               *)
LEMMA ReplacedIs ==
  ASSUME NEW was \in Seq(Line), NEW s, Named(was, s) # {}, NEW body \in Seq(Line)
  PROVE  LET h == Min(Named(was, s))
         IN  /\ ReplaceSection(was, s, body) \in Seq(Line)
             /\ EndOf(was, h) = h + Cardinality(Below(was, h)) + 1
PROOF
<1> DEFINE h == Min(Named(was, s))  end == EndOf(was, h)
<1>1. h \in 1..Len(was) /\ Len(was) \in Nat /\ h \in 0..Len(was)
  <2>1. h \in Named(was, s) /\ Named(was, s) \subseteq 1..Len(was) /\ Len(was) \in Nat
    BY NamedFirst
  <2> HIDE DEF h
  <2> QED
    BY <2>1
<1> HIDE DEF h
<1>2. /\ end \in (h + 1)..(Len(was) + 1)
      /\ end <= Len(was) => IsHeading(was[end]) /\ was[end].level <= was[h].level
      /\ \A j \in (h + 1)..(end - 1) : IsHeading(was[j]) => was[j].level > was[h].level
  BY <1>1, EndIs
<1>3. ReplaceSection(was, s, body) = SubSeq(was, 1, h) \o body \o SubSeq(was, end, Len(was))
  BY DEF ReplaceSection, h
<1> HIDE DEF end
<1>4. ReplaceSection(was, s, body) \in Seq(Line)
  <2> DEFINE now == SubSeq(was, 1, h) \o body \o SubSeq(was, end, Len(was))
  <2>1. Spliced(was, now, h, end, Len(body))
    BY <1>1, <1>2, SplicedSequences
  <2> HIDE DEF now
  <2>2. now \in Seq(Line)
    BY <2>1 DEF Spliced
  <2> QED
    BY <1>3, <2>2 DEF now
<1>5. Below(was, h) = (h + 1)..(end - 1)
  <2>1. ASSUME NEW i \in (h + 1)..(end - 1) PROVE i \in Below(was, h)
    <3>1. i \in (h + 1)..Len(was) /\ h <= i /\ \A j \in (h + 1)..i : j \in (h + 1)..(end - 1)
      BY <1>1, <1>2, <2>1
    <3> QED
      BY <1>2, <3>1 DEF Below, Heads
  <2>2. ASSUME NEW i \in Below(was, h), i >= end PROVE FALSE
    <3>1. i \in (h + 1)..Len(was) /\ Heads(was, h, i)
      BY DEF Below
    <3>2. end \in (h + 1)..i /\ end <= Len(was) /\ end \in 1..Len(was)
      BY <1>1, <1>2, <2>2, <3>1
    <3>3. was[end].level > was[h].level /\ was[end].level <= was[h].level
      BY <1>2, <3>1, <3>2 DEF Heads
    <3>4. was[end].level \in Nat /\ was[h].level \in Nat
      BY <1>1, <3>2, LineFields
    <3> QED
      BY <3>3, <3>4
  <2>3. ASSUME NEW i \in Below(was, h) PROVE i \in (h + 1)..(end - 1)
    <3>1. i \in (h + 1)..Len(was)
      BY DEF Below
    <3> QED
      BY <1>1, <1>2, <2>2, <3>1
  <2> QED
    BY <2>1, <2>3
<1>6. Cardinality((h + 1)..(end - 1)) = end - 1 - h
  <2>1. h + 1 \in Int /\ end - 1 \in Int
    BY <1>1, <1>2
  <2>2. Cardinality((h + 1)..(end - 1)) = IF h + 1 > end - 1 THEN 0 ELSE (end - 1) - (h + 1) + 1
    BY <2>1, FS_Interval
  <2> QED
    BY <1>1, <1>2, <2>2
<1>7. end = h + Cardinality(Below(was, h)) + 1
  BY <1>1, <1>2, <1>5, <1>6
<1> QED
  BY <1>4, <1>7 DEF h, end

(* A section that is replaced, by lines whose headings belong to it.       *)
LEMMA ReplacedOutside ==
  ASSUME NEW was \in Seq(Line), NEW s, Named(was, s) # {}, NEW body \in Seq(Line),
         Deeper(body, was[Min(Named(was, s))].level)
  PROVE  Outside(ReplaceSection(was, s, body), s) = Outside(was, s)
PROOF
<1> DEFINE start == Min(Named(was, s))  end == EndOf(was, start)  b == Len(body)
           now == ReplaceSection(was, s, body)  d == start + b + 1 - end
<1>1. /\ start \in Named(was, s) /\ start \in 1..Len(was) /\ Len(was) \in Nat
      /\ \A h \in Named(was, s) : start <= h /\ h \in 1..Len(was)
      /\ IsHeading(was[start])
  <2>1. /\ start \in Named(was, s) /\ start \in 1..Len(was) /\ Len(was) \in Nat
        /\ \A h \in Named(was, s) : start <= h /\ h \in 1..Len(was)
    BY NamedFirst
  <2> HIDE DEF start
  <2> QED
    BY <2>1 DEF Named
<1>10. \A i \in 1..b : IsHeading(body[i]) => body[i].level > was[start].level
  BY DEF Deeper
<1> HIDE DEF start
<1>2. /\ end \in (start + 1)..(Len(was) + 1)
      /\ end <= Len(was) => IsHeading(was[end]) /\ was[end].level <= was[start].level
      /\ \A j \in (start + 1)..(end - 1) : IsHeading(was[j]) => was[j].level > was[start].level
  BY <1>1, EndIs
<1>3. now = SubSeq(was, 1, start) \o body \o SubSeq(was, end, Len(was))
  BY DEF ReplaceSection, start
<1> HIDE DEF end, now
<1>4. Spliced(was, now, start, end, b) /\ \A i \in 1..b : now[start + i] = body[i]
  <2>1. start \in 0..Len(was)
    BY <1>1
  <2> QED
    BY <1>2, <1>3, <2>1, SplicedSequences
<1>5. /\ Len(now) \in Nat /\ b \in Nat /\ Len(now) = start + b + (Len(was) + 1 - end) /\ d \in Int
      /\ now[start] = was[start] /\ \A i \in end..Len(was) : now[i + d] = was[i]
      /\ now \in Seq(Line)
  BY <1>1, <1>4 DEF Spliced
<1>6. /\ \A j \in 1..Len(was) : was[j].level \in Nat
      /\ \A j \in 1..Len(now) : now[j].level \in Nat
  <2>1. was \in Seq(Line) /\ now \in Seq(Line)
    BY <1>5
  <2>2. \A j \in 1..Len(was) : was[j].level \in Nat
    BY <2>1, LineFields
  <2>3. \A j \in 1..Len(now) : now[j].level \in Nat
    BY <2>1, LineFields
  <2> QED
    BY <2>2, <2>3
<1>11. \A j \in (start + 1)..(start + b) : IsHeading(now[j]) => now[j].level > was[start].level
  <2>1. \A j \in (start + 1)..(start + b) : j - start \in 1..b /\ start + (j - start) = j
    BY <1>1, <1>5
  <2> QED
    BY <1>4, <1>10, <2>1
<1> HIDE DEF d, b
<1>12. \A i \in (start + 1)..(start + b) : i \in InSection(now, s)
  <2>1. Heads(was, start, start)
    BY <1>1 DEF Heads
  <2> QED
    BY <1>1, <1>4, <1>11, <2>1, SplicedBody
<1>7. ASSUME NEW i \in (start + 1)..(end - 1) PROVE i \in InSection(was, s)
  <2>1. i \in 1..Len(was) /\ \A j \in (start + 1)..i : j \in (start + 1)..(end - 1)
    BY <1>1, <1>2
  <2>2. Heads(was, start, i)
    BY <1>1, <1>2, <2>1 DEF Heads
  <2> QED
    BY <1>1, <2>1, <2>2, InSectionIs
<1>8. ASSUME NEW i \in end..Len(was) PROVE i + d \in InSection(now, s) <=> i \in InSection(was, s)
  <2>1. /\ i \in 1..Len(was) /\ i + d \in 1..Len(now) /\ end <= Len(was) /\ end \in end..Len(was)
        /\ end \in 1..Len(was) /\ start \in 1..start /\ end + d = start + b + 1
    BY <1>1, <1>2, <1>5 DEF d
  <2>2. ASSUME NEW h \in Named(was, s), Heads(was, h, i) PROVE h \in end..Len(was)
    <3>1. h \in 1..Len(was) /\ start <= h
      BY <1>1
    <3>2. CASE h < end
      <4>1. end \in (h + 1)..i
        BY <1>1, <1>2, <2>1, <3>1, <3>2
      <4>2. was[end].level > was[h].level
        BY <1>2, <2>1, <2>2, <4>1 DEF Heads
      <4>3. was[h].level >= was[start].level
        <5>1. CASE h = start
          BY <1>1, <1>6, <5>1
        <5>2. CASE h # start
          <6>1. h \in (start + 1)..(end - 1) /\ IsHeading(was[h])
            BY <1>1, <1>2, <3>1, <3>2, <5>2 DEF Named
          <6> QED
            BY <1>1, <1>2, <1>6, <3>1, <6>1
        <5> QED
          BY <5>1, <5>2
      <4>4. was[end].level \in Nat /\ was[h].level \in Nat /\ was[start].level \in Nat
        BY <1>1, <1>6, <2>1, <3>1
      <4>5. was[end].level <= was[start].level
        BY <1>2, <2>1
      <4> QED
        BY <4>2, <4>3, <4>4, <4>5
    <3> QED
      BY <1>1, <1>2, <3>1, <3>2
  <2>3. ASSUME NEW h \in Named(now, s), Heads(now, h, i + d)
        PROVE  \E k \in end..Len(was) : h = k + d
    <3>1. h <= start \/ h \in (start + 1)..(start + b) \/ \E k \in end..Len(was) : h = k + d
      BY <1>4, SplicedNames DEF d
    <3>3. CASE h \in (start + 1)..(start + b)
      <4>1. end + d \in (h + 1)..(i + d) /\ h \in 1..Len(now)
        BY <1>1, <1>2, <1>5, <2>1, <3>3
      <4>2. IsHeading(now[h])
        BY DEF Named
      <4>3. now[end + d].level > now[h].level /\ now[h].level > was[start].level
        BY <1>2, <1>5, <1>11, <2>1, <2>3, <3>3, <4>1, <4>2 DEF Heads
      <4>4. now[end + d] = was[end] /\ was[end].level <= was[start].level
        BY <1>2, <1>5, <2>1
      <4>5. was[end].level \in Nat /\ was[start].level \in Nat /\ now[h].level \in Nat
        BY <1>1, <1>6, <2>1, <4>1
      <4> QED
        BY <4>3, <4>4, <4>5
    <3>2. CASE h <= start
      <4>1. h \in 1..start
        BY <1>1, <1>5, <3>2 DEF Named
      <4>2. h = start
        BY <1>1, <1>4, <4>1, SplicedNames
      <4>3. end + d \in (h + 1)..(i + d)
        BY <1>1, <1>2, <1>5, <2>1, <4>2
      <4>4. now[end + d].level > now[h].level
        BY <1>2, <1>5, <2>1, <2>3, <4>3 DEF Heads
      <4>5. was[end].level > was[start].level
        BY <1>5, <2>1, <4>2, <4>4
      <4> QED
        BY <1>1, <1>2, <1>6, <2>1, <4>5
    <3> QED
      BY <3>1, <3>2, <3>3
  <2>4. \A h \in end..Len(was) : Heads(now, h + d, i + d) <=> Heads(was, h, i)
    BY <1>4, SplicedTail DEF d
  <2>5. \A h \in end..Len(was) : h + d \in Named(now, s) <=> h \in Named(was, s)
    BY <1>4, SplicedNames DEF d
  <2>6. (\E h \in Named(now, s) : Heads(now, h, i + d)) <=> \E h \in Named(was, s) : Heads(was, h, i)
    BY <2>2, <2>3, <2>4, <2>5
  <2>7. i + d \in InSection(now, s) <=> \E h \in Named(now, s) : Heads(now, h, i + d)
    BY <2>1, InSectionIs
  <2>8. i \in InSection(was, s) <=> \E h \in Named(was, s) : Heads(was, h, i)
    BY <2>1, InSectionIs
  <2> QED
    BY <2>6, <2>7, <2>8
<1>9. Outside(now, s) = Outside(was, s)
  BY <1>4, <1>7, <1>8, <1>12, SplicedOutside DEF d
<1> QED
  BY <1>9 DEF now

(* The level that is kept after a line.                                    *)
LevelAfter(level, line, s) ==
  IF IsHeading(line) /\ line.name = s THEN line.level
  ELSE IF IsHeading(line) /\ line.level <= level THEN 0 ELSE level

(* The levels are computed one line after the other.                       *)
LEMMA LevelsRun ==
  ASSUME NEW lines \in Seq(Line), NEW s
  PROVE  /\ LevelIn(lines, s) \in [0..Len(lines) -> Nat] /\ LevelIn(lines, s)[0] = 0
         /\ \A i \in 1..Len(lines) :
              LevelIn(lines, s)[i] = LevelAfter(LevelIn(lines, s)[i - 1], lines[i], s)
PROOF
<1> DEFINE n == Len(lines)
           step == [x \in (1..n) \X Nat |-> LevelAfter(x[2], lines[x[1]], s)]
           Body(M) == [i \in 0..n |-> IF i = 0 THEN 0
                                      ELSE IF IsHeading(lines[i]) /\ lines[i].name = s THEN lines[i].level
                                      ELSE IF IsHeading(lines[i]) /\ lines[i].level <= M[i - 1] THEN 0
                                      ELSE M[i - 1]]
<1>1. n \in Nat /\ \A i \in 1..n : lines[i] \in Line /\ lines[i].level \in Nat
  BY LineFields
<1>2. ASSUME NEW i \in 1..n, NEW k \in Nat PROVE LevelAfter(k, lines[i], s) \in Nat
  BY <1>1 DEF LevelAfter
<1>3. step \in [(1..n) \X Nat -> Nat]
  <2>1. ASSUME NEW x \in (1..n) \X Nat PROVE LevelAfter(x[2], lines[x[1]], s) \in Nat
    BY <1>2
  <2> QED
    BY <2>1
<1>4. PICK f : Run(n, Nat, 0, step, f)
  <2> HIDE DEF n, step
  <2> QED
    BY <1>1, <1>3, RecursionUpTo
<1>5. f \in [0..n -> Nat] /\ f[0] = 0 /\ \A i \in 1..n : f[i] = LevelAfter(f[i - 1], lines[i], s)
  <2>1. f \in [0..n -> Nat] /\ f[0] = 0 /\ \A i \in 1..n : f[i] = step[<<i, f[i - 1]>>]
    BY <1>4 DEF Run
  <2>2. ASSUME NEW i \in 1..n PROVE step[<<i, f[i - 1]>>] = LevelAfter(f[i - 1], lines[i], s)
    <3>1. i - 1 \in 0..n
      BY <1>1
    <3>2. <<i, f[i - 1]>> \in (1..n) \X Nat
      BY <2>1, <3>1
    <3> QED
      BY <3>2
  <2> HIDE DEF step
  <2> QED
    BY <2>1, <2>2
<1>6. f = Body(f)
  <2>1. \A i \in 0..n : f[i] = Body(f)[i]
    BY <1>1, <1>5 DEF LevelAfter
  <2>2. f = [i \in 0..n |-> f[i]] /\ Body(f) = [i \in 0..n |-> Body(f)[i]]
    BY <1>5
  <2> HIDE DEF n, Body
  <2> QED
    BY <2>1, <2>2
<1> DEFINE M == CHOOSE M : M = Body(M)
<1>7. M = Body(M)
  <2> HIDE DEF Body
  <2> QED
    BY <1>6
<1>8. LevelIn(lines, s) = M
  BY DEF LevelIn
<1> HIDE DEF M
<1>9. M[0] = 0 /\ \A i \in 1..n : M[i] = LevelAfter(M[i - 1], lines[i], s)
  <2>1. \A i \in 0..n : M[i] = IF i = 0 THEN 0 ELSE LevelAfter(M[i - 1], lines[i], s)
    BY <1>7 DEF LevelAfter
  <2>2. 0 \in 0..n /\ \A i \in 1..n : i \in 0..n /\ i # 0
    BY <1>1
  <2> QED
    BY <2>1, <2>2
<1> DEFINE S == {i \in 0..n : M[i] \in Nat}
<1>10. 0 \in S
  BY <1>1, <1>9
<1>11. ASSUME NEW i \in 1..n, i - 1 \in S PROVE i \in S
  <2>1. M[i - 1] \in Nat /\ i \in 0..n
    BY <1>1, <1>11
  <2>2. LevelAfter(M[i - 1], lines[i], s) \in Nat
    BY <1>2, <2>1
  <2>3. M[i] \in Nat
    BY <1>9, <2>2
  <2> QED
    BY <2>1, <2>3
<1>12. 0..n \subseteq S
  <2> HIDE DEF S, n
  <2> QED
    BY <1>1, <1>10, <1>11, InductionUpTo
<1>13. M \in [0..n -> Nat]
  <2>1. DOMAIN M = 0..n /\ M = [i \in 0..n |-> M[i]]
    BY <1>7
  <2>2. \A i \in 0..n : M[i] \in Nat
    BY <1>12
  <2> QED
    BY <2>1, <2>2
<1> QED
  BY <1>8, <1>9, <1>13

(* The level the code keeps is that of the section a line is in.           *)
LEMMA LevelShowsSection ==
  ASSUME NEW lines \in Seq(Line), NEW s, NEW k \in 1..Len(lines), LevelIn(lines, s)[k] > 0
  PROVE  k \in InSection(lines, s)
PROOF
<1> DEFINE n == Len(lines)  M == LevelIn(lines, s)
           S == {i \in 0..n : M[i] > 0 =>
                   \E h \in Named(lines, s) : lines[h].level = M[i] /\ Heads(lines, h, i)}
<1>1. n \in Nat /\ \A i \in 1..n : lines[i].level \in Nat
  BY LineFields
<1>2. M \in [0..n -> Nat] /\ M[0] = 0 /\ \A i \in 1..n : M[i] = LevelAfter(M[i - 1], lines[i], s)
  BY LevelsRun
<1> HIDE DEF M
<1>3. 0 \in S
  BY <1>1, <1>2
<1>4. ASSUME NEW i \in 1..n, i - 1 \in S PROVE i \in S
  <2>1. i \in 0..n /\ i - 1 \in 0..n /\ M[i - 1] \in Nat /\ i \in Nat
    BY <1>1, <1>2
  <2>2. M[i] = LevelAfter(M[i - 1], lines[i], s)
    BY <1>2
  <2>3. CASE IsHeading(lines[i]) /\ lines[i].name = s
    <3>1. i \in Named(lines, s) /\ Heads(lines, i, i) /\ M[i] = lines[i].level
      BY <2>1, <2>2, <2>3 DEF Named, Heads, LevelAfter
    <3> QED
      BY <2>1, <3>1
  <2>4. CASE ~(IsHeading(lines[i]) /\ lines[i].name = s)
    <3>1. ASSUME M[i] > 0
          PROVE  \E h \in Named(lines, s) : lines[h].level = M[i] /\ Heads(lines, h, i)
      <4>1. M[i] = M[i - 1] /\ (IsHeading(lines[i]) => lines[i].level > M[i - 1])
        BY <1>1, <2>1, <2>2, <2>4, <3>1 DEF LevelAfter
      <4>2. PICK h \in Named(lines, s) : lines[h].level = M[i - 1] /\ Heads(lines, h, i - 1)
        BY <1>4, <3>1, <4>1
      <4>3. h \in Int /\ h <= i - 1
        BY <4>2 DEF Named, Heads
      <4>4. \A j \in (h + 1)..i : j \in (h + 1)..(i - 1) \/ j = i
        BY <2>1, <4>3
      <4>5. Heads(lines, h, i)
        BY <2>1, <4>1, <4>2, <4>3, <4>4 DEF Heads
      <4> QED
        BY <4>1, <4>2, <4>5
    <3> QED
      BY <2>1, <3>1
  <2> QED
    BY <2>3, <2>4
<1>5. 0..n \subseteq S
  <2> HIDE DEF S, n
  <2> QED
    BY <1>1, <1>3, <1>4, InductionUpTo
<1>6. k \in 0..n
  BY <1>1
<1>7. \E h \in Named(lines, s) : Heads(lines, h, k)
  BY <1>5, <1>6 DEF M
<1> QED
  BY <1>7, InSectionIs

(* Where a fact goes: which lines stay before and behind it.               *)
FactHead(lines, s, k) ==
  IF FactsIn(lines, s, k) # {} THEN Min(FactsIn(lines, s, k)) - 1
  ELSE IF Named(lines, s) # {} THEN Max(Named(lines, s)) ELSE Len(lines)
FactRest(lines, s, k) ==
  IF FactsIn(lines, s, k) # {} THEN Min(FactsIn(lines, s, k)) + 1 ELSE FactHead(lines, s, k) + 1

(* Nothing but a fact of that key is taken out.                            *)
LEMMA FactPlace ==
  ASSUME NEW was \in Seq(Line), NEW s, NEW k
  PROVE  /\ FactHead(was, s, k) \in 0..Len(was)
         /\ FactRest(was, s, k) \in (FactHead(was, s, k) + 1)..(Len(was) + 1)
         /\ \A j \in (FactHead(was, s, k) + 1)..(FactRest(was, s, k) - 1) :
              j \in FactsIn(was, s, k) /\ LooksLikeFact(was[j], k)
PROOF
<1> DEFINE F == FactsIn(was, s, k)
<1>1. Len(was) \in Nat /\ F \in SUBSET (1..Len(was)) /\ \A j \in F : LooksLikeFact(was[j], k)
  BY DEF FactsIn
<1> HIDE DEF F
<1>2. CASE F # {}
  <2>1. F \in SUBSET Nat
    BY <1>1
  <2>2. Min(F) \in F
    BY <1>2, <2>1, LeastOf
  <2>3. FactHead(was, s, k) = Min(F) - 1 /\ FactRest(was, s, k) = Min(F) + 1
    BY <1>2 DEF FactHead, FactRest, F
  <2>4. Min(F) \in 1..Len(was)
    BY <1>1, <2>2
  <2>5. \A j \in (Min(F) - 1 + 1)..(Min(F) + 1 - 1) : j = Min(F)
    BY <2>4
  <2> QED
    BY <1>1, <2>2, <2>3, <2>4, <2>5 DEF F
<1>3. CASE F = {}
  <2>1. FactHead(was, s, k) \in 0..Len(was)
    <3>1. CASE Named(was, s) # {}
      <4>1. Max(Named(was, s)) \in 1..Len(was)
        BY <3>1, NamedFirst
      <4>2. FactHead(was, s, k) = Max(Named(was, s))
        BY <1>3, <3>1 DEF FactHead, F
      <4> QED
        BY <4>1, <4>2
    <3>2. CASE Named(was, s) = {}
      BY <1>1, <1>3, <3>2 DEF FactHead, F
    <3> QED
      BY <3>1, <3>2
  <2>2. FactRest(was, s, k) = FactHead(was, s, k) + 1
    BY <1>3 DEF FactRest, F
  <2> QED
    BY <1>1, <2>1, <2>2
<1> QED
  BY <1>2, <1>3

(* In a section that is there a fact goes below one of its headings, and   *)
(* what is taken out is in it.                                             *)
LEMMA FactPlaceIn ==
  ASSUME NEW was \in Seq(Line), NEW s \in Heading \cup {NoSection}, NEW k, Named(was, s) # {}
  PROVE  /\ \E h \in Named(was, s) : Heads(was, h, FactHead(was, s, k))
         /\ \A j \in FactsIn(was, s, k) : j \in InSection(was, s)
PROOF
<1> DEFINE F == FactsIn(was, s, k)
<1>1. Len(was) \in Nat /\ F \in SUBSET (1..Len(was)) /\ \A j \in F : LooksLikeFact(was[j], k)
  BY DEF FactsIn
<1>2. s # NoSection
  <2>1. PICK h \in Named(was, s) : TRUE
    OBVIOUS
  <2>2. h \in 1..Len(was) /\ was[h] \in Line /\ IsHeading(was[h]) /\ was[h].name = s
    BY DEF Named
  <2>3. was[h].name \in Heading
    BY <2>2 DEF Line, HeadingLine, FactLine, IsHeading
  <2> QED
    BY <2>2, <2>3, EditConstants
<1>3. \A j \in F : LevelIn(was, s)[j] > 0
  BY <1>2 DEF FactsIn
<1>4. \A j \in F : j \in InSection(was, s)
  BY <1>1, <1>3, LevelShowsSection
<1>5. CASE F # {}
  <2> DEFINE m == Min(F)
  <2>1. m \in F
    <3>1. F \in SUBSET Nat
      BY <1>1
    <3> HIDE DEF F
    <3> QED
      BY <1>5, <3>1, LeastOf
  <2>2. FactHead(was, s, k) = m - 1
    BY <1>5 DEF FactHead
  <2> HIDE DEF m, F
  <2>3. m \in 1..Len(was) /\ m \in InSection(was, s) /\ ~IsHeading(was[m])
    BY <1>1, <1>4, <2>1 DEF LooksLikeFact
  <2>4. PICK h \in Named(was, s) : Heads(was, h, m)
    BY <2>3, InSectionIs
  <2>5. h \in Int /\ h # m /\ h <= m /\ IsHeading(was[h])
    BY <2>3, <2>4 DEF Named, Heads
  <2>6. h <= m - 1 /\ \A j \in (h + 1)..(m - 1) : j \in (h + 1)..m
    BY <2>3, <2>5
  <2>7. Heads(was, h, m - 1)
    BY <2>4, <2>6 DEF Heads
  <2> QED
    BY <1>4, <2>2, <2>7 DEF F
<1>6. CASE F = {}
  <2> DEFINE h == Max(Named(was, s))
  <2>1. h \in Named(was, s) /\ FactHead(was, s, k) = h
    BY <1>6, NamedFirst DEF FactHead
  <2> HIDE DEF h
  <2>2. h \in Int
    BY <2>1 DEF Named
  <2>3. Heads(was, h, h)
    BY <2>2 DEF Heads
  <2> QED
    BY <1>4, <2>1, <2>3
<1> QED
  BY <1>5, <1>6

(* A fact that is replaced, inserted or appended is there, and no other    *)
(* line but one of its key is gone.                                        *)
LEMMA FactIsUpdated ==
  ASSUME NEW was \in Seq(Line), NEW s, NEW k \in FactKey, NEW new \in AnyValue
  PROVE  LET now == UpdateFactLine(was, s, k, new)
             head == FactHead(was, s, k)  rest == FactRest(was, s, k)  b == 1 + Len(new.more)
         IN  /\ Spliced(was, now, head, rest, b) /\ now[head + 1] = FactLine(k, new.value)
             /\ \A i \in (head + 2)..(head + b) : now[i] = new.more[i - head - 1]
PROOF
<1> DEFINE now == UpdateFactLine(was, s, k, new)
           head == FactHead(was, s, k)  rest == FactRest(was, s, k)
           x == FactLine(k, new.value)  body == <<x>> \o new.more
<1>1. new.more \in Seq(Line) /\ x \in Line /\ Len(new.more) \in Nat
  BY DEF AnyValue, Line
<1>2. now = SubSeq(was, 1, head) \o body \o SubSeq(was, rest, Len(was))
  BY DEF UpdateFactLine, FactHead, FactRest
<1>3. head \in 0..Len(was) /\ rest \in (head + 1)..(Len(was) + 1) /\ head \in Int
  BY FactPlace
<1> HIDE DEF now, head, rest, x
<1>4. /\ body \in Seq(Line) /\ Len(body) = 1 + Len(new.more) /\ body[1] = x
      /\ \A i \in 1..Len(new.more) : body[1 + i] = new.more[i]
  <2>1. <<x>> \in Seq(Line) /\ Len(<<x>>) = 1 /\ <<x>>[1] = x /\ 1 \in 1..1
    BY <1>1
  <2> QED
    BY <1>1, <2>1, JoinedLines
<1> HIDE DEF body
<1>5. Spliced(was, now, head, rest, Len(body)) /\ \A i \in 1..Len(body) : now[head + i] = body[i]
  BY <1>2, <1>3, <1>4, SplicedSequences
<1>6. now[head + 1] = x
  <2>1. 1 \in 1..Len(body)
    BY <1>1, <1>4
  <2> QED
    BY <1>4, <1>5, <2>1
<1>7. ASSUME NEW i \in (head + 2)..(head + Len(body)) PROVE now[i] = new.more[i - head - 1]
  <2> DEFINE j == i - head - 1
  <2>1. j \in 1..Len(new.more) /\ 1 + j \in 1..Len(body) /\ head + (1 + j) = i
    BY <1>1, <1>3, <1>4
  <2> HIDE DEF j
  <2>2. now[head + (1 + j)] = new.more[j]
    BY <1>4, <1>5, <2>1
  <2> QED
    BY <2>1, <2>2 DEF j
<1> QED
  BY <1>4, <1>5, <1>6, <1>7 DEF now, head, rest, x

(* What an update of a fact guarantees of the text: the fact is there, a   *)
(* line that is no fact of this key stays, and without headings in the     *)
(* value the section, if it was there, has the fact and the lines it had,  *)
(* and the text outside of it is as it was.                                *)
FactStep(was, now, s, k, new) ==
  /\ now \in Seq(Line) /\ FactLine(k, new.value) \in ToSet(now)
  /\ \A i \in 1..Len(was) : ~LooksLikeFact(was[i], k) => was[i] \in ToSet(now)
  /\ (Named(was, s) # {} /\ NoHeadings(new.more)) =>
       /\ Named(now, s) # {} /\ Outside(now, s) = Outside(was, s)
       /\ \E i \in InSection(now, s) : now[i] = FactLine(k, new.value)
       /\ \A i \in InSection(was, s) :
            ~LooksLikeFact(was[i], k) => \E j \in InSection(now, s) : now[j] = was[i]

(* One fact that is updated.                                               *)
LEMMA FactStepHolds ==
  ASSUME NEW was \in Seq(Line), NEW s \in Heading \cup {NoSection}, NEW k \in FactKey,
         NEW new \in AnyValue
  PROVE  FactStep(was, UpdateFactLine(was, s, k, new), s, k, new)
PROOF
<1> DEFINE now == UpdateFactLine(was, s, k, new)  x == FactLine(k, new.value)
           start == FactHead(was, s, k)  end == FactRest(was, s, k)  b == 1 + Len(new.more)
           d == start + b + 1 - end
<1>1. /\ Spliced(was, now, start, end, b) /\ now[start + 1] = x
      /\ \A i \in (start + 2)..(start + b) : now[i] = new.more[i - start - 1]
  BY FactIsUpdated
<1>2. \A j \in (start + 1)..(end - 1) : j \in FactsIn(was, s, k) /\ LooksLikeFact(was[j], k)
  BY FactPlace
<1>3. new.more \in Seq(Line) /\ Len(new.more) \in Nat /\ ~IsHeading(x)
  BY DEF AnyValue, FactLine, IsHeading
<1>13. Named(was, s) # {} =>
         /\ \E h \in Named(was, s) : Heads(was, h, start)
         /\ \A j \in FactsIn(was, s, k) : j \in InSection(was, s)
  BY FactPlaceIn
<1>14. b >= 1
  BY <1>3
<1> HIDE DEF now, x, start, end, b
<1>4. /\ now \in Seq(Line) /\ Len(was) \in Nat /\ Len(now) \in Nat /\ start \in 0..Len(was)
      /\ end \in (start + 1)..(Len(was) + 1) /\ b \in Nat /\ b >= 1
      /\ Len(now) = start + b + (Len(was) + 1 - end) /\ d \in Int
      /\ \A i \in 1..start : now[i] = was[i]
      /\ \A i \in end..Len(was) : now[i + d] = was[i]
  BY <1>1, <1>14 DEF Spliced
<1> HIDE DEF d
<1>5. DOMAIN now = 1..Len(now) /\ start + 1 \in 1..Len(now) /\ start + 1 \in (start + 1)..(start + b)
  BY <1>4
<1>6. x \in ToSet(now)
  BY <1>1, <1>5 DEF ToSet
<1>7. ASSUME NEW i \in 1..Len(was), ~LooksLikeFact(was[i], k)
      PROVE  i \in 1..start \/ i \in end..Len(was)
  <2>1. i \notin (start + 1)..(end - 1)
    BY <1>2, <1>7
  <2> QED
    BY <1>4, <2>1
<1>8. \A i \in end..Len(was) : i + d \in 1..Len(now)
  BY <1>4 DEF d
<1>9. \A i \in 1..start : i \in 1..Len(now)
  BY <1>4
<1>10. ASSUME NEW i \in 1..Len(was), ~LooksLikeFact(was[i], k) PROVE was[i] \in ToSet(now)
  BY <1>4, <1>5, <1>7, <1>8, <1>9, <1>10 DEF ToSet
<1>11. ASSUME Named(was, s) # {}, NoHeadings(new.more)
       PROVE  /\ Named(now, s) # {} /\ Outside(now, s) = Outside(was, s)
              /\ \E i \in InSection(now, s) : now[i] = x
              /\ \A i \in InSection(was, s) :
                   ~LooksLikeFact(was[i], k) => \E j \in InSection(now, s) : now[j] = was[i]
  <2>1. PICK h \in Named(was, s) : Heads(was, h, start)
    BY <1>11, <1>13
  <2>2. h \in 1..start
    <3>1. h \in 1..Len(was) /\ h <= start
      BY <2>1 DEF Named, Heads
    <3> QED
      BY <1>4, <3>1
  <2>3. h \in Named(now, s)
    BY <1>1, <2>2, SplicedNames
  <2>4. ASSUME NEW j \in (start + 1)..(start + b) PROVE ~IsHeading(now[j])
    <3>1. CASE j = start + 1
      BY <1>1, <1>3, <3>1
    <3>2. CASE j # start + 1
      <4>1. j \in (start + 2)..(start + b) /\ j - start - 1 \in 1..Len(new.more)
        BY <1>3, <1>4, <3>2 DEF b
      <4> QED
        BY <1>1, <1>11, <4>1 DEF NoHeadings
    <3> QED
      BY <3>1, <3>2
  <2>5. \A j \in (start + 1)..(end - 1) : ~IsHeading(was[j]) /\ j \in InSection(was, s)
    BY <1>2, <1>11, <1>13 DEF LooksLikeFact
  <2>6. \A j \in (start + 1)..(start + b) : j \in InSection(now, s)
    BY <1>1, <2>1, <2>4, SplicedBody
  <2>7. \A i \in end..Len(was) : i + d \in InSection(now, s) <=> i \in InSection(was, s)
    BY <1>1, <2>4, <2>5, SplicedPlain DEF d
  <2>8. Outside(now, s) = Outside(was, s)
    BY <1>1, <2>5, <2>6, <2>7, SplicedOutside DEF d
  <2>9. \E i \in InSection(now, s) : now[i] = x
    BY <1>1, <1>5, <2>6
  <2>10. ASSUME NEW i \in InSection(was, s), ~LooksLikeFact(was[i], k)
         PROVE  \E j \in InSection(now, s) : now[j] = was[i]
    <3>1. i \in 1..Len(was)
      BY DEF InSection
    <3>2. CASE i \in 1..start
      BY <1>1, <1>4, <3>2, SplicedBefore
    <3>3. CASE i \in end..Len(was)
      BY <1>4, <2>7, <3>3
    <3> QED
      BY <1>7, <2>10, <3>1, <3>2, <3>3
  <2> QED
    BY <2>3, <2>8, <2>9, <2>10
<1> QED
  BY <1>4, <1>6, <1>10, <1>11 DEF FactStep, now, x

(* The facts are updated one after the other.                              *)
OneFact(lines, s, facts, k) ==
  IF k \in DOMAIN facts THEN UpdateFactLine(lines, s, k, facts[k]) ELSE lines

LEMMA FactsRun ==
  ASSUME NEW lines \in Seq(Line), NEW s \in Heading \cup {NoSection},
         NEW keys \in SUBSET FactKey, NEW facts \in [keys -> AnyValue]
  PROVE  \E M \in [0..FactKeys -> Seq(Line)] :
           /\ M[0] = lines /\ M[FactKeys] = UpdateFactLines(lines, s, facts)
           /\ \A k \in 1..FactKeys : M[k] = OneFact(M[k - 1], s, facts, k)
PROOF
<1> DEFINE n == FactKeys  A == Seq(Line)
           step == [x \in (1..n) \X A |-> OneFact(x[2], s, facts, x[1])]
           Body(M) == [k \in 0..n |-> IF k = 0 THEN lines
                                      ELSE IF k \in DOMAIN facts THEN UpdateFactLine(M[k - 1], s, k, facts[k])
                                      ELSE M[k - 1]]
<1>1. n \in Nat /\ lines \in A
  BY EditConstants
<1>2. ASSUME NEW k \in 1..n, NEW l \in A PROVE OneFact(l, s, facts, k) \in A
  <2>1. CASE k \in DOMAIN facts
    <3>1. k \in FactKey /\ facts[k] \in AnyValue
      BY <2>1
    <3>2. UpdateFactLine(l, s, k, facts[k]) \in Seq(Line)
      BY <3>1, FactStepHolds DEF FactStep
    <3> QED
      BY <2>1, <3>2 DEF OneFact
  <2>2. CASE k \notin DOMAIN facts
    BY <2>2 DEF OneFact
  <2> QED
    BY <2>1, <2>2
<1> HIDE DEF A
<1>3. step \in [(1..n) \X A -> A]
  <2>1. ASSUME NEW x \in (1..n) \X A PROVE OneFact(x[2], s, facts, x[1]) \in A
    BY <1>2
  <2> QED
    BY <2>1
<1>4. PICK f : Run(n, A, lines, step, f)
  <2> HIDE DEF n, step
  <2> QED
    BY <1>1, <1>3, RecursionUpTo
<1>5. f \in [0..n -> A] /\ f[0] = lines /\ \A i \in 1..n : f[i] = OneFact(f[i - 1], s, facts, i)
  <2>1. f \in [0..n -> A] /\ f[0] = lines /\ \A i \in 1..n : f[i] = step[<<i, f[i - 1]>>]
    BY <1>4 DEF Run
  <2>2. ASSUME NEW i \in 1..n PROVE step[<<i, f[i - 1]>>] = OneFact(f[i - 1], s, facts, i)
    <3>1. i - 1 \in 0..n
      BY <1>1
    <3>2. <<i, f[i - 1]>> \in (1..n) \X A
      BY <2>1, <3>1
    <3> QED
      BY <3>2
  <2> HIDE DEF step
  <2> QED
    BY <2>1, <2>2
<1>6. f = Body(f)
  <2>1. \A i \in 0..n : f[i] = Body(f)[i]
    BY <1>1, <1>5 DEF OneFact
  <2>2. f = [i \in 0..n |-> f[i]] /\ Body(f) = [i \in 0..n |-> Body(f)[i]]
    BY <1>5
  <2> HIDE DEF n, Body
  <2> QED
    BY <2>1, <2>2
<1> DEFINE M == CHOOSE M : M = Body(M)
<1>7. M = Body(M)
  <2> HIDE DEF Body
  <2> QED
    BY <1>6
<1>8. UpdateFactLines(lines, s, facts) = M[n]
  BY DEF UpdateFactLines
<1> HIDE DEF M
<1>9. M[0] = lines /\ \A k \in 1..n : M[k] = OneFact(M[k - 1], s, facts, k)
  <2>1. \A k \in 0..n : M[k] = IF k = 0 THEN lines ELSE OneFact(M[k - 1], s, facts, k)
    BY <1>7 DEF OneFact
  <2>2. 0 \in 0..n /\ \A k \in 1..n : k \in 0..n /\ k # 0
    BY <1>1
  <2> QED
    BY <2>1, <2>2
<1> DEFINE S == {k \in 0..n : M[k] \in A}
<1>10. 0 \in S
  BY <1>1, <1>9
<1>11. ASSUME NEW k \in 1..n, k - 1 \in S PROVE k \in S
  <2>1. M[k - 1] \in A /\ k \in 0..n
    BY <1>1, <1>11
  <2> QED
    BY <1>2, <1>9, <2>1
<1>12. 0..n \subseteq S
  <2> HIDE DEF S, n
  <2> QED
    BY <1>1, <1>10, <1>11, InductionUpTo
<1>13. M \in [0..n -> A]
  <2>1. DOMAIN M = 0..n /\ M = [k \in 0..n |-> M[k]]
    BY <1>7
  <2>2. \A k \in 0..n : M[k] \in A
    BY <1>12
  <2> QED
    BY <2>1, <2>2
<1> QED
  BY <1>8, <1>9, <1>13 DEF A

(* All the facts are there in the end, in the section if it was there.     *)
LEMMA FactsAreUpdated ==
  ASSUME NEW was \in Seq(Line), NEW s \in Heading \cup {NoSection},
         NEW keys \in SUBSET FactKey, NEW facts \in [keys -> AnyValue]
  PROVE  /\ UpdateFactLines(was, s, facts) \in Seq(Line)
         /\ FactsAreSet(was, UpdateFactLines(was, s, facts), s, facts)
PROOF
<1> DEFINE n == FactKeys  x(j) == FactLine(j, facts[j].value)
           Plain == Named(was, s) # {} /\ \A k \in DOMAIN facts : NoHeadings(facts[k].more)
           SetTo(now, k) == \A j \in keys : j <= k => x(j) \in ToSet(now)
           SetIn(now, k) ==
             /\ Named(now, s) # {} /\ Outside(now, s) = Outside(was, s)
             /\ \A j \in keys : j <= k => \E i \in InSection(now, s) : now[i] = x(j)
<1>1. PICK M \in [0..n -> Seq(Line)] :
        /\ M[0] = was /\ M[n] = UpdateFactLines(was, s, facts)
        /\ \A k \in 1..n : M[k] = OneFact(M[k - 1], s, facts, k)
  BY FactsRun
<1>2. n \in Nat /\ keys \subseteq 1..n /\ DOMAIN facts = keys
  BY EditConstants DEF FactKey
<1>3. \A j \in keys, k \in Nat : j # k => ~LooksLikeFact(x(j), k)
  BY DEF LooksLikeFact, FactLine
<1> DEFINE S == {k \in 0..n : SetTo(M[k], k) /\ (Plain => SetIn(M[k], k))}
<1>4. 0 \in S
  <2>1. \A j \in keys : ~(j <= 0)
    BY <1>2
  <2> QED
    BY <1>1, <1>2, <2>1
<1>5. ASSUME NEW k \in 1..n, k - 1 \in S PROVE k \in S
  <2> DEFINE old == M[k - 1]  now == M[k]
  <2>1. k \in 0..n /\ k - 1 \in 0..n /\ k \in Nat /\ \A j \in keys : j <= k => j <= k - 1 \/ j = k
    BY <1>2
  <2>2. old \in Seq(Line) /\ now \in Seq(Line) /\ now = OneFact(old, s, facts, k)
    BY <1>1, <2>1
  <2>3. SetTo(old, k - 1) /\ (Plain => SetIn(old, k - 1))
    BY <1>5
  <2> HIDE DEF old, now, Plain
  <2>4. CASE k \notin keys
    <3>1. now = old /\ \A j \in keys : j <= k => j <= k - 1
      BY <1>2, <2>1, <2>2, <2>4 DEF OneFact
    <3>2. SetTo(now, k) /\ (Plain => SetIn(now, k))
      BY <2>3, <3>1
    <3> QED
      BY <2>1, <3>2 DEF now
  <2>5. CASE k \in keys
    <3>1. k \in FactKey /\ facts[k] \in AnyValue /\ now = UpdateFactLine(old, s, k, facts[k])
      BY <1>2, <2>2, <2>5 DEF OneFact
    <3>2. FactStep(old, now, s, k, facts[k])
      BY <2>2, <3>1, FactStepHolds
    <3>3. ASSUME NEW j \in keys, j <= k PROVE x(j) \in ToSet(now)
      <4>1. CASE j = k
        BY <3>2, <4>1 DEF FactStep
      <4>2. CASE j # k
        <5>1. x(j) \in ToSet(old) /\ ~LooksLikeFact(x(j), k)
          BY <1>3, <2>1, <2>3, <3>3, <4>2
        <5> HIDE DEF x
        <5>2. PICK i \in 1..Len(old) : old[i] = x(j)
          BY <2>2, <5>1 DEF ToSet
        <5> QED
          BY <3>2, <5>1, <5>2 DEF FactStep
      <4> QED
        BY <4>1, <4>2
    <3>4. ASSUME Plain PROVE SetIn(now, k)
      <4>1. SetIn(old, k - 1) /\ NoHeadings(facts[k].more)
        BY <1>2, <2>3, <2>5, <3>4 DEF Plain
      <4>2. /\ Named(now, s) # {} /\ Outside(now, s) = Outside(old, s)
            /\ \E i \in InSection(now, s) : now[i] = x(k)
            /\ \A i \in InSection(old, s) :
                 ~LooksLikeFact(old[i], k) => \E j \in InSection(now, s) : now[j] = old[i]
        BY <3>2, <4>1 DEF FactStep
      <4>3. ASSUME NEW j \in keys, j <= k PROVE \E i \in InSection(now, s) : now[i] = x(j)
        <5>1. CASE j = k
          BY <4>2, <5>1
        <5>2. CASE j # k
          <6>1. PICK i \in InSection(old, s) : old[i] = x(j)
            BY <2>1, <4>1, <4>3, <5>2
          <6>2. ~LooksLikeFact(old[i], k)
            BY <1>3, <2>1, <5>2, <6>1
          <6> HIDE DEF x
          <6> QED
            BY <4>2, <6>1, <6>2
        <5> QED
          BY <5>1, <5>2
      <4> HIDE DEF x
      <4> QED
        BY <4>1, <4>2, <4>3
    <3> HIDE DEF SetIn, x
    <3> QED
      BY <2>1, <3>3, <3>4 DEF now
  <2> QED
    BY <2>4, <2>5
<1>6. 0..n \subseteq S
  <2> HIDE DEF S, n
  <2> QED
    BY <1>2, <1>4, <1>5, InductionUpTo
<1> DEFINE now == UpdateFactLines(was, s, facts)
<1>7. M[n] = now /\ now \in Seq(Line) /\ n \in 0..n
  BY <1>1, <1>2
<1>8. SetTo(now, n) /\ (Plain => SetIn(now, n))
  <2> HIDE DEF now, SetTo, SetIn, Plain
  <2> QED
    BY <1>6, <1>7
<1> HIDE DEF now
<1>9. \A j \in keys : j <= n
  BY <1>2
<1>10. FactsAreSet(was, now, s, facts)
  BY <1>2, <1>8, <1>9 DEF FactsAreSet
<1> QED
  BY <1>7, <1>10 DEF now

(* A text in which every occurrence of a line gave way is a text.          *)
LEMMA ReplacedLineTyped ==
  ASSUME NEW lines \in Seq(Line), NEW old, NEW new \in Seq(Line)
  PROVE  ReplaceLine(lines, old, new) \in Seq(Line)
PROOF
<1> DEFINE n == Len(lines)  A == Seq(Line)
           Grown(l, i) == l \o (IF lines[i] = old THEN new ELSE <<lines[i]>>)
           step == [x \in (1..n) \X A |-> Grown(x[2], x[1])]
           Body(M) == [i \in 0..n |-> IF i = 0 THEN <<>>
                                      ELSE M[i - 1] \o (IF lines[i] = old THEN new ELSE <<lines[i]>>)]
<1>1. n \in Nat /\ <<>> \in A /\ \A i \in 1..n : lines[i] \in Line
  OBVIOUS
<1>2. ASSUME NEW l \in A, NEW i \in 1..n PROVE Grown(l, i) \in A
  <2>1. <<lines[i]>> \in Seq(Line)
    BY <1>1
  <2>2. (IF lines[i] = old THEN new ELSE <<lines[i]>>) \in Seq(Line)
    BY <2>1
  <2> QED
    BY <2>2, JoinedLines
<1>3. step \in [(1..n) \X A -> A]
  <2>1. ASSUME NEW x \in (1..n) \X A PROVE Grown(x[2], x[1]) \in A
    BY <1>2
  <2> HIDE DEF Grown, A
  <2> QED
    BY <2>1
<1> HIDE DEF A
<1>4. PICK f : Run(n, A, <<>>, step, f)
  <2> HIDE DEF n, step
  <2> QED
    BY <1>1, <1>3, RecursionUpTo
<1>5. f \in [0..n -> A] /\ f[0] = <<>> /\ \A i \in 1..n : f[i] = Grown(f[i - 1], i)
  <2>1. f \in [0..n -> A] /\ f[0] = <<>> /\ \A i \in 1..n : f[i] = step[<<i, f[i - 1]>>]
    BY <1>4 DEF Run
  <2>2. ASSUME NEW i \in 1..n PROVE step[<<i, f[i - 1]>>] = Grown(f[i - 1], i)
    <3>1. i - 1 \in 0..n
      BY <1>1
    <3>2. <<i, f[i - 1]>> \in (1..n) \X A
      BY <2>1, <3>1
    <3> HIDE DEF Grown
    <3> QED
      BY <3>2
  <2> HIDE DEF step, Grown
  <2> QED
    BY <2>1, <2>2
<1>6. f = Body(f)
  <2>1. \A i \in 0..n : f[i] = Body(f)[i]
    BY <1>1, <1>5
  <2>2. f = [i \in 0..n |-> f[i]] /\ Body(f) = [i \in 0..n |-> Body(f)[i]]
    BY <1>5
  <2> HIDE DEF n, Body
  <2> QED
    BY <2>1, <2>2
<1> DEFINE M == CHOOSE M : M = Body(M)
<1>7. M = Body(M)
  <2> HIDE DEF Body
  <2> QED
    BY <1>6
<1>8. ReplaceLine(lines, old, new) = M[n]
  BY DEF ReplaceLine
<1> HIDE DEF M
<1>9. M[0] = <<>> /\ \A i \in 1..n : M[i] = Grown(M[i - 1], i)
  <2>1. \A i \in 0..n : M[i] = IF i = 0 THEN <<>> ELSE Grown(M[i - 1], i)
    BY <1>7
  <2>2. 0 \in 0..n /\ \A i \in 1..n : i \in 0..n /\ i # 0
    BY <1>1
  <2> HIDE DEF Grown
  <2> QED
    BY <2>1, <2>2
<1> HIDE DEF Grown
<1> DEFINE S == {i \in 0..n : M[i] \in A}
<1>10. 0 \in S
  BY <1>1, <1>9
<1>11. ASSUME NEW i \in 1..n, i - 1 \in S PROVE i \in S
  <2>1. M[i - 1] \in A /\ i \in 0..n
    BY <1>1, <1>11
  <2> QED
    BY <1>2, <1>9, <2>1
<1>12. 0..n \subseteq S
  <2> HIDE DEF S, n
  <2> QED
    BY <1>1, <1>10, <1>11, InductionUpTo
<1> QED
  BY <1>1, <1>8, <1>12 DEF A

(* What an edit under way has read and proposes: a patch of the text that  *)
(* has its literal replacements,                                           *)
PatchJob(job) ==
  \E base \in Seq(Line), patch \in AnyPatch :
    /\ patch.section # NoSection => Named(base, patch.section) # {}
    /\ job = [kind |-> "patch", patch |-> patch, base |-> base,
              next |-> (IF patch.section = NoSection THEN base
                        ELSE ReplaceSection(base, patch.section, patch.body)) \o patch.tail]
(* or new values of some facts.                                            *)
FactJob(job) ==
  \E was \in Seq(Line), s \in Heading \cup {NoSection}, keys \in SUBSET FactKey :
    \E facts \in [keys -> AnyValue] :
      job = [kind |-> "fact", section |-> s, facts |-> facts, was |-> was,
             next |-> UpdateFactLines(was, s, facts)]

(* The inductive invariant: whatever is written meanwhile, a proposal was  *)
(* computed of a text that was read.                                       *)
EditsInv ==
  /\ text = NoLines \/ (text \in Seq(Line) /\ Len(text) \in 0..MaxLines)
  /\ edit = [e \in Rewriter |-> edit[e]]
  /\ \A e \in Rewriter : edit[e] = NoEdit \/ PatchJob(edit[e]) \/ FactJob(edit[e])

(* A document without edits satisfies the invariant.                       *)
LEMMA EditsStart == EditsInit => EditsInv
PROOF
<1> SUFFICES ASSUME EditsInit PROVE EditsInv
  OBVIOUS
<1>1. text \in Seq(Line) /\ Len(text) \in 0..MaxLines
  <2>1. PICK n \in 0..MaxLines : text \in [1..n -> Line]
    BY DEF EditsInit, Texts
  <2>2. n \in Nat
    BY EditConstants
  <2> QED
    BY <2>1, <2>2
<1> QED
  BY <1>1 DEF EditsInit, EditsInv

(* What is proposed is a text, and keeps to its section.                   *)
LEMMA PatchIsLocal ==
  ASSUME NEW base \in Seq(Line), NEW patch \in AnyPatch,
         patch.section # NoSection, Named(base, patch.section) # {}
  PROVE  LET next == ReplaceSection(base, patch.section, patch.body) \o patch.tail
         IN  next \in Seq(Line) /\ SectionIsReplaced(base, next, patch)
PROOF
<1> DEFINE s == patch.section  out == ReplaceSection(base, s, patch.body)  next == out \o patch.tail
           h == Min(Named(base, s))  edited == SubSeq(next, 1, Len(next) - Len(patch.tail))
<1>1. patch.body \in Seq(Line) /\ patch.tail \in Seq(Line)
  BY DEF AnyPatch
<1>2. out \in Seq(Line) /\ EndOf(base, h) = h + Cardinality(Below(base, h)) + 1
  BY <1>1, ReplacedIs
<1>3. out = SubSeq(base, 1, h) \o patch.body \o SubSeq(base, EndOf(base, h), Len(base))
  BY DEF ReplaceSection
<1>4. Deeper(patch.body, base[h].level) => Outside(out, s) = Outside(base, s)
  BY <1>1, ReplacedOutside
<1> HIDE DEF out, h
<1>5. next \in Seq(Line) /\ Len(next) - Len(patch.tail) = Len(out) /\ Len(out) \in Nat
      /\ \A i \in 1..Len(out) : next[i] = out[i]
  BY <1>1, <1>2, JoinedLines
<1> HIDE DEF next
<1>6. edited = out
  <2>1. edited = [i \in 1..Len(out) |-> next[i]]
    BY <1>5
  <2>2. out = [i \in 1..Len(out) |-> out[i]]
    BY <1>2
  <2> HIDE DEF edited
  <2> QED
    BY <1>5, <2>1, <2>2
<1> HIDE DEF edited
<1>7. SectionIsReplaced(base, next, patch)
  BY <1>2, <1>3, <1>4, <1>6 DEF SectionIsReplaced, s, h, edited
<1> QED
  BY <1>5, <1>7 DEF next, out

(* A patch under way.                                                      *)
LEMMA PatchProposes ==
  ASSUME NEW job, PatchJob(job)
  PROVE  /\ job.next \in Seq(Line) /\ job.kind = "patch"
         /\ job.patch.section # NoSection => SectionIsReplaced(job.base, job.next, job.patch)
PROOF
<1>1. PICK base \in Seq(Line), patch \in AnyPatch :
        /\ patch.section # NoSection => Named(base, patch.section) # {}
        /\ job = [kind |-> "patch", patch |-> patch, base |-> base,
                  next |-> (IF patch.section = NoSection THEN base
                            ELSE ReplaceSection(base, patch.section, patch.body)) \o patch.tail]
  BY DEF PatchJob
<1>2. CASE patch.section = NoSection
  <2>1. patch.tail \in Seq(Line)
    BY DEF AnyPatch
  <2>2. base \o patch.tail \in Seq(Line)
    BY <2>1, JoinedLines
  <2>3. job.next = base \o patch.tail /\ job.kind = "patch" /\ job.patch = patch
    BY <1>1, <1>2
  <2> QED
    BY <1>2, <2>2, <2>3
<1>3. CASE patch.section # NoSection
  <2> DEFINE next == ReplaceSection(base, patch.section, patch.body) \o patch.tail
  <2>1. next \in Seq(Line) /\ SectionIsReplaced(base, next, patch)
    BY <1>1, <1>3, PatchIsLocal
  <2>2. job.next = next /\ job.kind = "patch" /\ job.patch = patch /\ job.base = base
    BY <1>1, <1>3
  <2> HIDE DEF next
  <2> QED
    BY <2>1, <2>2
<1> QED
  BY <1>2, <1>3

(* An update of facts under way.                                           *)
LEMMA FactsPropose ==
  ASSUME NEW job, FactJob(job)
  PROVE  /\ job.next \in Seq(Line) /\ job.kind = "fact"
         /\ FactsAreSet(job.was, job.next, job.section, job.facts)
PROOF
<1>1. PICK was \in Seq(Line), s \in Heading \cup {NoSection}, keys \in SUBSET FactKey :
        \E facts \in [keys -> AnyValue] :
          job = [kind |-> "fact", section |-> s, facts |-> facts, was |-> was,
                 next |-> UpdateFactLines(was, s, facts)]
  BY DEF FactJob
<1>2. PICK facts \in [keys -> AnyValue] :
        job = [kind |-> "fact", section |-> s, facts |-> facts, was |-> was,
               next |-> UpdateFactLines(was, s, facts)]
  BY <1>1
<1> DEFINE next == UpdateFactLines(was, s, facts)
<1>3. next \in Seq(Line) /\ FactsAreSet(was, next, s, facts)
  BY FactsAreUpdated
<1> HIDE DEF next
<1>4. job.next = next /\ job.kind = "fact" /\ job.was = was /\ job.section = s /\ job.facts = facts
  BY <1>2 DEF next
<1> QED
  BY <1>3, <1>4

(* An edit that begins.                                                    *)
LEMMA BeginKeeps ==
  ASSUME EditsInv, NEW e \in Rewriter, NEW job, Begin(e, job), PatchJob(job) \/ FactJob(job)
  PROVE  EditsInv'
PROOF
<1>1. edit' = [edit EXCEPT ![e] = job] /\ text' = text
  BY DEF Begin
<1>2. edit'[e] = job /\ \A d \in Rewriter : d # e => edit'[d] = edit[d]
  BY <1>1 DEF EditsInv
<1>3. edit' = [d \in Rewriter |-> edit'[d]]
  BY <1>1 DEF EditsInv
<1> QED
  BY <1>1, <1>2, <1>3 DEF EditsInv

(* A patch of a text that was read.                                        *)
LEMMA PatchKeeps ==
  ASSUME EditsInv, NEW e \in Rewriter, NEW patch \in AnyPatch, PatchText(e, patch)
  PROVE  EditsInv'
PROOF
<1>1. text \in Seq(Line) /\ patch.new \in Seq(Line)
  BY DEF PatchText, Reads, EditsInv, AnyPatch
<1>2. BaseOf(text, patch) \in Seq(Line)
  BY <1>1, ReplacedLineTyped DEF BaseOf
<1>3. patch.section # NoSection => Named(BaseOf(text, patch), patch.section) # {}
  BY DEF PatchText, Applies
<1> DEFINE job == [kind |-> "patch", patch |-> patch, base |-> BaseOf(text, patch),
                   next |-> Patched(text, patch)]
<1>4. PatchJob(job)
  BY <1>2, <1>3 DEF PatchJob, Patched
<1>5. Begin(e, job)
  BY DEF PatchText
<1> HIDE DEF job
<1> QED
  BY <1>4, <1>5, BeginKeeps

(* Every step keeps the invariant.                                         *)
LEMMA EditsSteps ==
  ASSUME EditsInv, [EditsNext]_editVars
  PROVE  EditsInv'
PROOF
<1>1. ASSUME NEW e \in Rewriter, NEW patch \in Patch, PatchText(e, patch) PROVE EditsInv'
  <2>1. patch \in AnyPatch
    BY EditConstants
  <2> QED
    BY <1>1, <2>1, PatchKeeps
<1>2. ASSUME NEW e \in Rewriter, NEW patch \in Patch, AppendText(e, patch.tail) PROVE EditsInv'
  <2> DEFINE p == [old |-> NoLines, new |-> <<>>, section |-> NoSection, body |-> <<>>,
                   tail |-> patch.tail]
  <2>1. patch.tail \in Seq(Line) /\ <<>> \in Seq(Line)
    BY EditConstants DEF AnyPatch
  <2>2. p \in AnyPatch
    BY <2>1 DEF AnyPatch
  <2>3. PatchText(e, p)
    BY <1>2 DEF AppendText
  <2> HIDE DEF p
  <2> QED
    BY <2>2, <2>3, PatchKeeps
<1>3. ASSUME NEW e \in Rewriter, NEW s \in Heading \cup {NoSection},
             NEW keys \in (SUBSET FactKey) \ {{}}, NEW append \in BOOLEAN,
             NEW facts \in [keys -> NewValue], UpdateFacts(e, s, facts, append)
      PROVE  EditsInv'
  <2>1. text \in Seq(Line) /\ keys \in SUBSET FactKey
    BY <1>3 DEF UpdateFacts, Reads, EditsInv
  <2>2. facts \in [keys -> AnyValue]
    BY EditConstants
  <2> DEFINE job == [kind |-> "fact", section |-> s, facts |-> facts, was |-> text,
                     next |-> UpdateFactLines(text, s, facts)]
  <2>3. FactJob(job) /\ Begin(e, job)
    BY <1>3, <2>1, <2>2 DEF FactJob, UpdateFacts
  <2> HIDE DEF job
  <2> QED
    BY <2>3, BeginKeeps
<1>5. ASSUME NEW e \in Rewriter, Preview(e) \/ WriteText(e) PROVE EditsInv'
  <2>1. edit' = [edit EXCEPT ![e] = NoEdit]
    BY <1>5 DEF Preview, WriteText
  <2>2. /\ edit'[e] = NoEdit /\ \A d \in Rewriter : d # e => edit'[d] = edit[d]
        /\ edit' = [d \in Rewriter |-> edit'[d]]
    BY <2>1 DEF EditsInv
  <2>3. text' = NoLines \/ (text' \in Seq(Line) /\ Len(text') \in 0..MaxLines)
    <3>1. CASE Preview(e)
      BY <3>1 DEF Preview, EditsInv
    <3>2. CASE WriteText(e)
      <4>1. edit[e].next \in Seq(Line)
        BY <3>2, PatchProposes, FactsPropose DEF WriteText, EditsInv
      <4>2. text' = edit[e].next /\ Len(edit[e].next) \in 1..MaxLines
        BY <3>2 DEF WriteText
      <4> QED
        BY <4>1, <4>2, EditConstants
    <3> QED
      BY <1>5, <3>1, <3>2
  <2> QED
    BY <2>2, <2>3 DEF EditsInv
<1>6. ASSUME NEW patch \in Patch, NEW overwrite \in BOOLEAN, CreateText(patch.tail, overwrite)
      PROVE  EditsInv'
  <2>1. patch.tail \in Seq(Line)
    BY EditConstants DEF AnyPatch
  <2>2. text' = patch.tail /\ Len(patch.tail) \in 1..MaxLines /\ edit' = edit
    BY <1>6 DEF CreateText
  <2> QED
    BY <2>1, <2>2, EditConstants DEF EditsInv
<1>7. CASE DeleteText
  BY <1>7 DEF DeleteText, EditsInv
<1>8. CASE UNCHANGED editVars
  BY <1>8 DEF editVars, EditsInv
<1> QED
  BY <1>1, <1>2, <1>3, <1>5, <1>6, <1>7, <1>8 DEF EditsNext

(* The invariant implies what the runs check.                              *)
LEMMA EditsInvShows == EditsInv => EditsAreLocal /\ EditsTypeOK
PROOF
<1> SUFFICES ASSUME EditsInv PROVE EditsAreLocal /\ EditsTypeOK
  OBVIOUS
<1>1. ASSUME NEW e \in Rewriter
      PROVE  /\ edit[e].kind \in {"none", "patch", "fact"}
             /\ (edit[e].kind = "patch" /\ edit[e].patch.section # NoSection) =>
                  SectionIsReplaced(edit[e].base, edit[e].next, edit[e].patch)
             /\ edit[e].kind = "fact" =>
                  FactsAreSet(edit[e].was, edit[e].next, edit[e].section, edit[e].facts)
  <2>1. CASE edit[e] = NoEdit
    BY <2>1 DEF NoEdit
  <2>2. CASE PatchJob(edit[e])
    BY <2>2, PatchProposes
  <2>3. CASE FactJob(edit[e])
    BY <2>3, FactsPropose
  <2> QED
    BY <2>1, <2>2, <2>3 DEF EditsInv
<1>2. EditsTypeOK
  BY <1>1 DEF EditsInv, EditsTypeOK
<1> QED
  BY <1>1, <1>2 DEF EditsAreLocal

(* An edit of a section puts the new lines, whatever they are, in the      *)
(* place of the section's, and leaves the others as it read them and in    *)
(* their order; they stay outside of it if the new headings are its own;   *)
(* and all facts that were asked for are set, in their section if it was   *)
(* there (recall/edit.go): for any sections, keys, values and lengths.     *)
THEOREM EditsStayLocal == EditsSpec => [](EditsAreLocal /\ EditsTypeOK)
PROOF
<1>1. EditsSpec => []EditsInv
  BY EditsStart, EditsSteps, PTL DEF EditsSpec
<1> QED
  BY <1>1, EditsInvShows, PTL

(* ---- The compact index --------------------------------------------------- *)

(* The length of an encoded list is a number; an empty one has brackets.   *)
LEMMA LengthIsNumber ==
  ASSUME NEW sizes \in Seq(Nat)
  PROVE  EncodedLength(sizes) \in Nat /\ (sizes = <<>> => EncodedLength(sizes) = 2)
PROOF
<1> DEFINE n == Len(sizes)
           Plus(k, i) == k + sizes[i] + (IF i = 1 THEN 0 ELSE 1)
           step == [x \in (1..n) \X Nat |-> Plus(x[2], x[1])]
           Body(M) == [i \in 0..n |-> IF i = 0 THEN 2 ELSE M[i - 1] + sizes[i] + (IF i = 1 THEN 0 ELSE 1)]
<1>1. n \in Nat /\ \A i \in 1..n : sizes[i] \in Nat
  OBVIOUS
<1>2. ASSUME NEW i \in 1..n, NEW k \in Nat PROVE Plus(k, i) \in Nat
  BY <1>1
<1>3. step \in [(1..n) \X Nat -> Nat]
  <2>1. ASSUME NEW x \in (1..n) \X Nat PROVE Plus(x[2], x[1]) \in Nat
    BY <1>2
  <2> HIDE DEF Plus
  <2> QED
    BY <2>1
<1>4. PICK f : Run(n, Nat, 2, step, f)
  <2> HIDE DEF n, step
  <2> QED
    BY <1>1, <1>3, RecursionUpTo
<1>5. f \in [0..n -> Nat] /\ f[0] = 2 /\ \A i \in 1..n : f[i] = Plus(f[i - 1], i)
  <2>1. f \in [0..n -> Nat] /\ f[0] = 2 /\ \A i \in 1..n : f[i] = step[<<i, f[i - 1]>>]
    BY <1>4 DEF Run
  <2>2. ASSUME NEW i \in 1..n PROVE step[<<i, f[i - 1]>>] = Plus(f[i - 1], i)
    <3>1. i - 1 \in 0..n
      BY <1>1
    <3>2. <<i, f[i - 1]>> \in (1..n) \X Nat
      BY <2>1, <3>1
    <3> QED
      BY <3>2
  <2> HIDE DEF step, Plus
  <2> QED
    BY <2>1, <2>2
<1>6. f = Body(f)
  <2>1. \A i \in 0..n : f[i] = Body(f)[i]
    BY <1>1, <1>5
  <2>2. f = [i \in 0..n |-> f[i]] /\ Body(f) = [i \in 0..n |-> Body(f)[i]]
    BY <1>5
  <2> HIDE DEF n, Body
  <2> QED
    BY <2>1, <2>2
<1> DEFINE M == CHOOSE M : M = Body(M)
<1>7. M = Body(M)
  <2> HIDE DEF Body
  <2> QED
    BY <1>6
<1>8. EncodedLength(sizes) = M[n]
  BY DEF EncodedLength
<1> HIDE DEF M
<1>9. M[0] = 2 /\ \A i \in 1..n : M[i] = Plus(M[i - 1], i)
  <2>1. \A i \in 0..n : M[i] = IF i = 0 THEN 2 ELSE Plus(M[i - 1], i)
    BY <1>7
  <2>2. 0 \in 0..n /\ \A i \in 1..n : i \in 0..n /\ i # 0
    BY <1>1
  <2> HIDE DEF Plus
  <2> QED
    BY <2>1, <2>2
<1> DEFINE S == {i \in 0..n : M[i] \in Nat}
<1>10. 0 \in S
  BY <1>1, <1>9
<1>11. ASSUME NEW i \in 1..n, i - 1 \in S PROVE i \in S
  <2>1. M[i - 1] \in Nat /\ i \in 0..n
    BY <1>1, <1>11
  <2>2. Plus(M[i - 1], i) \in Nat
    BY <1>2, <2>1
  <2>3. M[i] \in Nat
    <3> HIDE DEF Plus
    <3> QED
      BY <1>9, <2>2
  <2> QED
    BY <2>1, <2>3
<1>12. 0..n \subseteq S
  <2> HIDE DEF S, n
  <2> QED
    BY <1>1, <1>10, <1>11, InductionUpTo
<1>13. M[n] \in Nat
  BY <1>1, <1>12
<1>14. ASSUME sizes = <<>> PROVE M[n] = 2
  BY <1>9, <1>14
<1> QED
  BY <1>8, <1>13, <1>14

(* The bytes of an index, and how many of its items are of a category.     *)
BytesOf(fs, items) == EncodedLength([i \in 1..Len(items) |-> fs[items[i]].size])
(* How many of the items are of a category.                                *)
CountOf(fs, items, c) == Cardinality({i \in DOMAIN items : fs[items[i]].category = c})

(* The values an index takes.                                              *)
IndexType ==
  [next : 1..(Len(Category) + 1), items : Seq(Documents), bytes : Nat, truncated : BOOLEAN,
   omitted : Nat]

(* What an index is at any moment: within its budget, naming no document   *)
(* twice, with its mark exactly if it left something out.                  *)
Within(fs, index) ==
  /\ index \in IndexType /\ IsInjective(index.items)
  /\ index.bytes = BytesOf(fs, index.items) /\ index.bytes <= MaxBytes
  /\ index.truncated <=> index.omitted > 0

(* An index has added, of the documents of a set of category c, n at most, *)
(* and without a mark all of them.                                         *)
Added(fs, was, now, c, n, docs) ==
  /\ now.next = was.next /\ ToSet(was.items) \subseteq ToSet(now.items)
  /\ ToSet(now.items) \subseteq ToSet(was.items) \cup docs
  /\ ~now.truncated => ~was.truncated /\ docs \subseteq ToSet(now.items)
  /\ CountOf(fs, now.items, c) <= CountOf(fs, was.items, c) + n
  /\ \A b : b # c => CountOf(fs, now.items, b) = CountOf(fs, was.items, b)

(* The bytes of an index are a number, and those of an empty one are two.  *)
LEMMA BytesAreNumber ==
  ASSUME NEW fs \in [Documents -> FileKinds], NEW items \in Seq(Documents)
  PROVE  BytesOf(fs, items) \in Nat /\ BytesOf(fs, <<>>) = 2
PROOF
<1> DEFINE sizes(s) == [i \in 1..Len(s) |-> fs[s[i]].size]
<1>1. \A d \in Documents : fs[d].size \in Nat
  BY DEF FileKinds
<1>2. ASSUME NEW s \in Seq(Documents) PROVE sizes(s) \in Seq(Nat)
  <2>1. \A i \in 1..Len(s) : fs[s[i]].size \in Nat
    BY <1>1
  <2>2. Len(s) \in Nat
    OBVIOUS
  <2> QED
    BY <2>1, <2>2
<1>3. sizes(<<>>) = <<>>
  OBVIOUS
<1>4. <<>> \in Seq(Documents)
  OBVIOUS
<1>5. BytesOf(fs, items) = EncodedLength(sizes(items)) /\ BytesOf(fs, <<>>) = EncodedLength(sizes(<<>>))
  BY DEF BytesOf
<1> HIDE DEF sizes
<1>6. EncodedLength(sizes(items)) \in Nat
  BY <1>2, LengthIsNumber
<1>7. EncodedLength(sizes(<<>>)) = 2
  BY <1>2, <1>3, <1>4, LengthIsNumber
<1> QED
  BY <1>5, <1>6, <1>7

(* An item more counts for its category.                                   *)
LEMMA CountAppended ==
  ASSUME NEW fs, NEW items \in Seq(Documents), NEW d \in Documents, NEW c
  PROVE  /\ CountOf(fs, items, c) \in Nat
         /\ CountOf(fs, Append(items, d), c) =
              CountOf(fs, items, c) + (IF fs[d].category = c THEN 1 ELSE 0)
PROOF
<1> DEFINE n == Len(items)  A == {i \in DOMAIN items : fs[items[i]].category = c}
           more == Append(items, d)  B == {i \in DOMAIN more : fs[more[i]].category = c}
<1>1. n \in Nat /\ DOMAIN items = 1..n /\ DOMAIN more = 1..(n + 1)
  OBVIOUS
<1>2. more[n + 1] = d /\ \A i \in 1..n : more[i] = items[i]
  OBVIOUS
<1>3. IsFiniteSet(A) /\ Cardinality(A) \in Nat
  <2>1. IsFiniteSet(1..n)
    BY <1>1, FS_Interval
  <2>2. A \in SUBSET (1..n)
    BY <1>1
  <2> HIDE DEF A, n
  <2> QED
    BY <2>1, <2>2, FS_Subset, FS_CardinalityType
<1> HIDE DEF more
<1>6. CountOf(fs, items, c) = Cardinality(A) /\ CountOf(fs, Append(items, d), c) = Cardinality(B)
  BY DEF CountOf, more
<1>4. CASE fs[d].category = c
  <2>1. B = A \cup {n + 1} /\ n + 1 \notin A
    BY <1>1, <1>2, <1>4
  <2> HIDE DEF A, B, n
  <2>2. Cardinality(B) = Cardinality(A) + 1
    BY <1>3, <2>1, FS_AddElement
  <2> QED
    BY <1>3, <1>4, <1>6, <2>2
<1>5. CASE fs[d].category # c
  <2>1. B = A
    BY <1>1, <1>2, <1>5
  <2> HIDE DEF A, B, n
  <2> QED
    BY <1>3, <1>5, <1>6, <2>1
<1> QED
  BY <1>4, <1>5

(* Omissions leave their mark, and nothing else.                           *)
LEMMA OmittedKeeps ==
  ASSUME NEW fs, NEW index, Within(fs, index), NEW n \in Nat
  PROVE  /\ Within(fs, Omit(index, n)) /\ Omit(index, n).items = index.items
         /\ Omit(index, n).next = index.next
         /\ ~Omit(index, n).truncated => ~index.truncated /\ n = 0
PROOF
<1>1. CASE n = 0
  BY <1>1 DEF Omit
<1>2. CASE n # 0
  <2> DEFINE now == [index EXCEPT !.truncated = TRUE, !.omitted = @ + n]
  <2>1. Omit(index, n) = now
    BY <1>2 DEF Omit
  <2>2. /\ now \in IndexType /\ now.items = index.items /\ now.next = index.next
        /\ now.bytes = index.bytes /\ now.truncated = TRUE /\ now.omitted > 0
    <3>1. index \in IndexType /\ index.omitted \in Nat /\ index.omitted + n \in Nat /\ index.omitted + n > 0
      BY <1>2 DEF Within, IndexType
    <3>2. now.omitted = index.omitted + n
      BY <3>1 DEF IndexType
    <3> QED
      BY <3>1, <3>2 DEF IndexType
  <2> HIDE DEF now
  <2>3. Within(fs, now)
    BY <2>2 DEF Within
  <2> QED
    BY <2>1, <2>2, <2>3
<1> QED
  BY <1>1, <1>2

(* One item that is appended, or that does not fit.                        *)
LEMMA AppendedOne ==
  ASSUME files \in [Documents -> FileKinds], NEW index, Within(files, index), NEW d \in Documents
  PROVE  /\ Within(files, AppendItem(index, d))
         /\ Added(files, index, AppendItem(index, d), files[d].category, 1, {d})
PROOF
<1> DEFINE now == AppendItem(index, d)  c == files[d].category  more == Append(index.items, d)
<1>1. index \in IndexType /\ index.items \in Seq(Documents)
  BY DEF Within, IndexType
<1>2. \A b : CountOf(files, index.items, b) \in Nat
  BY <1>1, CountAppended
<1>3. CASE d \in ToSet(index.items)
  <2>1. now = index
    BY <1>3 DEF AppendItem
  <2>2. Added(files, index, index, c, 1, {d})
    BY <1>2, <1>3 DEF Added
  <2> QED
    BY <2>1, <2>2
<1>4. CASE d \notin ToSet(index.items) /\ Bytes(more) > MaxBytes
  <2>1. now = [index EXCEPT !.truncated = TRUE, !.omitted = @ + 1]
    BY <1>4 DEF AppendItem
  <2>2. /\ now \in IndexType /\ now.items = index.items /\ now.next = index.next
        /\ now.bytes = index.bytes /\ now.truncated = TRUE /\ now.omitted > 0
    <3>1. index.omitted \in Nat /\ index.omitted + 1 \in Nat /\ index.omitted + 1 > 0
      BY <1>1 DEF IndexType
    <3>2. now.omitted = index.omitted + 1
      BY <1>1, <2>1 DEF IndexType
    <3> QED
      BY <1>1, <2>1, <3>1, <3>2 DEF IndexType
  <2> HIDE DEF now
  <2>3. Within(files, now)
    BY <2>2 DEF Within
  <2>4. Added(files, index, now, c, 1, {d})
    BY <1>2, <2>2 DEF Added
  <2> QED
    BY <2>3, <2>4 DEF now
<1>5. CASE d \notin ToSet(index.items) /\ ~(Bytes(more) > MaxBytes)
  <2>1. now = [index EXCEPT !.items = more, !.bytes = Bytes(more)]
    BY <1>5 DEF AppendItem
  <2>2. more \in Seq(Documents)
    BY <1>1
  <2>3. Bytes(more) = BytesOf(files, more) /\ Bytes(more) \in Nat /\ Bytes(more) <= MaxBytes
    <3>1. Bytes(more) = BytesOf(files, more)
      BY DEF Bytes, BytesOf
    <3>2. BytesOf(files, more) \in Nat
      BY <2>2, ContextConstants, BytesAreNumber
    <3> HIDE DEF more
    <3> QED
      BY <1>5, <3>1, <3>2, ContextConstants
  <2>4. ToSet(more) = ToSet(index.items) \cup {d}
    <3> DEFINE n == Len(index.items)
    <3>1. n \in Nat /\ DOMAIN index.items = 1..n /\ DOMAIN more = 1..(n + 1)
      BY <1>1
    <3>2. more[n + 1] = d /\ \A i \in 1..n : more[i] = index.items[i]
      BY <1>1
    <3>3. \A i \in 1..(n + 1) : i \in 1..n \/ i = n + 1
      BY <3>1
    <3>4. n + 1 \in 1..(n + 1) /\ \A i \in 1..n : i \in 1..(n + 1)
      BY <3>1
    <3> HIDE DEF n, more
    <3> QED
      BY <3>1, <3>2, <3>3, <3>4 DEF ToSet
  <2>5. IsInjective(more)
    <3> DEFINE n == Len(index.items)
    <3>1. n \in Nat /\ DOMAIN index.items = 1..n /\ DOMAIN more = 1..(n + 1)
      BY <1>1
    <3>2. more[n + 1] = d /\ \A i \in 1..n : more[i] = index.items[i]
      BY <1>1
    <3>3. \A i \in 1..n : index.items[i] # d
      BY <1>5, <3>1 DEF ToSet
    <3>4. \A i, j \in 1..n : index.items[i] = index.items[j] => i = j
      BY <3>1 DEF Within, IsInjective
    <3> HIDE DEF more, n
    <3>5. ASSUME NEW i \in 1..(n + 1), NEW j \in 1..(n + 1), more[i] = more[j] PROVE i = j
      BY <3>1, <3>2, <3>3, <3>4, <3>5
    <3> QED
      BY <3>1, <3>5 DEF IsInjective
  <2>6. \A b : CountOf(files, more, b) = CountOf(files, index.items, b) + (IF c = b THEN 1 ELSE 0)
    BY <1>1, CountAppended
  <2> HIDE DEF more
  <2>7. /\ now \in IndexType /\ now.items = more /\ now.next = index.next
        /\ now.bytes = BytesOf(files, more) /\ now.bytes <= MaxBytes
        /\ now.truncated = index.truncated /\ now.omitted = index.omitted
    BY <1>1, <2>1, <2>2, <2>3 DEF IndexType
  <2> HIDE DEF now
  <2>8. Within(files, now)
    BY <2>5, <2>7 DEF Within
  <2>9. Added(files, index, now, c, 1, {d})
    <3>1. CountOf(files, more, c) <= CountOf(files, index.items, c) + 1
      BY <1>2, <2>6
    <3>2. \A b : b # c => CountOf(files, more, b) = CountOf(files, index.items, b)
      BY <1>2, <2>6
    <3> QED
      BY <2>4, <2>7, <3>1, <3>2 DEF Added
  <2> QED
    BY <2>8, <2>9 DEF now
<1> QED
  BY <1>3, <1>4, <1>5

(* The items of a category, appended one after the other.                  *)
LEMMA AppendedAll ==
  ASSUME files \in [Documents -> FileKinds], NEW index, Within(files, index), NEW c,
         NEW items \in Seq(Documents), \A i \in 1..Len(items) : files[items[i]].category = c
  PROVE  /\ Within(files, AppendItems(index, items))
         /\ Added(files, index, AppendItems(index, items), c, Len(items), ToSet(items))
PROOF
<1> DEFINE n == Len(items)  A == {x \in IndexType : Within(files, x)}
           step == [x \in (1..n) \X A |-> AppendItem(x[2], items[x[1]])]
           Body(M) == [i \in 0..n |-> IF i = 0 THEN index ELSE AppendItem(M[i - 1], items[i])]
<1>1. n \in Nat /\ \A i \in 1..n : items[i] \in Documents
  OBVIOUS
<1>2. \A x : x \in A <=> Within(files, x)
  BY DEF Within
<1>3. ASSUME NEW x \in A, NEW i \in 1..n PROVE AppendItem(x, items[i]) \in A
  BY <1>1, <1>2, AppendedOne
<1>4. step \in [(1..n) \X A -> A] /\ index \in A
  <2>1. ASSUME NEW x \in (1..n) \X A PROVE AppendItem(x[2], items[x[1]]) \in A
    BY <1>3
  <2> HIDE DEF A
  <2> QED
    BY <1>2, <2>1
<1> HIDE DEF A
<1>5. PICK f : Run(n, A, index, step, f)
  <2> HIDE DEF n, step
  <2> QED
    BY <1>1, <1>4, RecursionUpTo
<1>6. f \in [0..n -> A] /\ f[0] = index /\ \A i \in 1..n : f[i] = AppendItem(f[i - 1], items[i])
  <2>1. f \in [0..n -> A] /\ f[0] = index /\ \A i \in 1..n : f[i] = step[<<i, f[i - 1]>>]
    BY <1>5 DEF Run
  <2>2. ASSUME NEW i \in 1..n PROVE step[<<i, f[i - 1]>>] = AppendItem(f[i - 1], items[i])
    <3>1. i - 1 \in 0..n
      BY <1>1
    <3>2. <<i, f[i - 1]>> \in (1..n) \X A
      BY <2>1, <3>1
    <3> QED
      BY <3>2
  <2> HIDE DEF step
  <2> QED
    BY <2>1, <2>2
<1>7. f = Body(f)
  <2>1. \A i \in 0..n : f[i] = Body(f)[i]
    BY <1>1, <1>6
  <2>2. f = [i \in 0..n |-> f[i]] /\ Body(f) = [i \in 0..n |-> Body(f)[i]]
    BY <1>6
  <2> HIDE DEF n, Body
  <2> QED
    BY <2>1, <2>2
<1> DEFINE M == CHOOSE M : M = Body(M)
<1>8. M = Body(M)
  <2> HIDE DEF Body
  <2> QED
    BY <1>7
<1>9. AppendItems(index, items) = M[n]
  BY DEF AppendItems
<1> HIDE DEF M
<1>10. M[0] = index /\ \A i \in 1..n : M[i] = AppendItem(M[i - 1], items[i])
  <2>1. \A i \in 0..n : M[i] = IF i = 0 THEN index ELSE AppendItem(M[i - 1], items[i])
    BY <1>8
  <2>2. 0 \in 0..n /\ \A i \in 1..n : i \in 0..n /\ i # 0
    BY <1>1
  <2> QED
    BY <2>1, <2>2
<1> DEFINE docs(i) == {items[j] : j \in 1..i}
           S == {i \in 0..n : Within(files, M[i]) /\ Added(files, index, M[i], c, i, docs(i))}
<1>11. \A b, x : Within(files, x) => CountOf(files, x.items, b) \in Nat /\ x.items \in Seq(Documents)
  <2>1. \A x : Within(files, x) => x.items \in Seq(Documents)
    BY DEF Within, IndexType
  <2>2. 0 \in Nat
    OBVIOUS
  <2>3. ASSUME NEW b, NEW x, Within(files, x) PROVE CountOf(files, x.items, b) \in Nat
    <3> DEFINE s == x.items  K == {i \in DOMAIN s : files[s[i]].category = b}
    <3>1. s \in Seq(Documents)
      BY <2>1, <2>3
    <3>2. DOMAIN s = 1..Len(s) /\ Len(s) \in Nat
      BY <3>1
    <3>3. IsFiniteSet(1..Len(s))
      BY <3>2, FS_Interval
    <3>4. K \in SUBSET (1..Len(s))
      BY <3>2
    <3>5. Cardinality(K) \in Nat
      <4> HIDE DEF K, s
      <4> QED
        BY <3>3, <3>4, FS_Subset, FS_CardinalityType
    <3> QED
      BY <3>5 DEF CountOf
  <2> QED
    BY <2>1, <2>3
<1>12. 0 \in S
  <2>1. docs(0) = {}
    OBVIOUS
  <2>2. Added(files, index, index, c, 0, {})
    <3>1. \A b : CountOf(files, index.items, b) \in Nat
      BY <1>11
    <3>2. CountOf(files, index.items, c) <= CountOf(files, index.items, c) + 0
      BY <3>1
    <3> QED
      BY <3>2 DEF Added
  <2>3. 0 \in 0..n /\ Within(files, M[0])
    BY <1>1, <1>10
  <2>4. Added(files, index, M[0], c, 0, docs(0))
    BY <1>10, <2>1, <2>2
  <2> QED
    BY <2>3, <2>4
<1>13. ASSUME NEW i \in 1..n, i - 1 \in S PROVE i \in S
  <2> DEFINE was == M[i - 1]  now == AppendItem(was, items[i])
  <2>1. i \in 0..n /\ i \in Nat /\ items[i] \in Documents /\ files[items[i]].category = c /\ M[i] = now
    BY <1>1, <1>10
  <2>2. Within(files, was) /\ Added(files, index, was, c, i - 1, docs(i - 1))
    BY <1>13
  <2> HIDE DEF was
  <2>3. Within(files, now) /\ Added(files, was, now, c, 1, {items[i]})
    BY <2>1, <2>2, AppendedOne
  <2> HIDE DEF now
  <2>4. docs(i) = docs(i - 1) \cup {items[i]}
    BY <2>1
  <2> HIDE DEF docs
  <2>5. Added(files, index, now, c, i, docs(i))
    <3>1. /\ now.next = index.next /\ ToSet(index.items) \subseteq ToSet(now.items)
          /\ ToSet(now.items) \subseteq ToSet(index.items) \cup docs(i)
      BY <2>2, <2>3, <2>4 DEF Added
    <3>2. ~now.truncated => ~index.truncated /\ docs(i) \subseteq ToSet(now.items)
      BY <2>2, <2>3, <2>4 DEF Added
    <3>3. CountOf(files, now.items, c) <= CountOf(files, index.items, c) + i
      <4>1. /\ CountOf(files, now.items, c) \in Nat /\ CountOf(files, was.items, c) \in Nat
            /\ CountOf(files, index.items, c) \in Nat
        BY <1>11, <2>2, <2>3
      <4>2. /\ CountOf(files, was.items, c) <= CountOf(files, index.items, c) + (i - 1)
            /\ CountOf(files, now.items, c) <= CountOf(files, was.items, c) + 1
        BY <2>2, <2>3 DEF Added
      <4> QED
        BY <2>1, <4>1, <4>2
    <3>4. \A b : b # c => CountOf(files, now.items, b) = CountOf(files, index.items, b)
      BY <2>2, <2>3 DEF Added
    <3> QED
      BY <3>1, <3>2, <3>3, <3>4 DEF Added
  <2> QED
    BY <2>1, <2>3, <2>5
<1>14. 0..n \subseteq S
  <2> HIDE DEF S, n
  <2> QED
    BY <1>1, <1>12, <1>13, InductionUpTo
<1>15. n \in S
  <2>1. n \in 0..n
    BY <1>1
  <2> HIDE DEF S
  <2> QED
    BY <1>14, <2>1
<1>16. docs(n) = ToSet(items)
  BY <1>1 DEF ToSet
<1> QED
  BY <1>9, <1>15, <1>16

(* The candidates in their order are the candidates, one after the other.  *)
LEMMA SortedAreAll ==
  ASSUME files \in [Documents -> FileKinds], NEW docs \in SUBSET Documents
  PROVE  /\ Cardinality(docs) \in Nat /\ Sorted(docs) \in [1..Cardinality(docs) -> docs]
         /\ \A d \in docs : \E n \in 1..Cardinality(docs) : Sorted(docs)[n] = d
PROOF
<1> DEFINE key == [d \in docs |-> SortKey(d)]  n == Cardinality(docs)
<1>1. IsFiniteSet(docs) /\ n \in Nat
  <2>1. IsFiniteSet(Documents)
    BY ContextConstants, FS_Interval DEF Documents
  <2> QED
    BY <2>1, FS_Subset, FS_CardinalityType
<1>2. \A d \in docs : d \in Int /\ d + Files \in Int /\ 1 <= d /\ d <= Files
  BY ContextConstants DEF Documents
<1>3. key \in [docs -> Int]
  BY <1>2 DEF SortKey
<1>4. \A d, e \in docs : key[d] = key[e] => d = e
  <2>1. \A d, e \in docs : SortKey(d) = SortKey(e) => d = e
    BY <1>2, ContextConstants DEF SortKey
  <2> QED
    BY <2>1
<1>5. \A d \in docs : Rank(docs, key, d) = Cardinality({e \in docs : SortKey(e) <= SortKey(d)})
  <2>1. \A d \in docs : {e \in docs : key[e] <= key[d]} = {e \in docs : SortKey(e) <= SortKey(d)}
    OBVIOUS
  <2> QED
    BY <2>1 DEF Rank
<1> HIDE DEF key
<1>6. Ranked(docs, key)
  BY <1>1, <1>3, <1>4, RanksAreOne
<1> DEFINE At(d) == Cardinality({e \in docs : SortKey(e) <= SortKey(d)})
<1>7. /\ \A d \in docs : At(d) \in 1..n
      /\ \A d, e \in docs : At(d) = At(e) => d = e
      /\ \A k \in 1..n : \E d \in docs : At(d) = k
  BY <1>5, <1>6 DEF Ranked
<1>8. Sorted(docs) = [k \in 1..n |-> CHOOSE d \in docs : At(d) = k]
  BY DEF Sorted
<1> HIDE DEF At
<1>9. ASSUME NEW k \in 1..n PROVE (CHOOSE d \in docs : At(d) = k) \in docs
  BY <1>7
<1>10. ASSUME NEW d \in docs PROVE (CHOOSE e \in docs : At(e) = At(d)) = d
  BY <1>7
<1> HIDE DEF n
<1>11. Sorted(docs) \in [1..n -> docs]
  BY <1>8, <1>9
<1>12. ASSUME NEW d \in docs PROVE \E k \in 1..n : Sorted(docs)[k] = d
  BY <1>7, <1>8, <1>10
<1> QED
  BY <1>1, <1>11, <1>12 DEF n

(* What every index under way satisfies: it has items of the categories    *)
(* that are done only, none above its quota, and without a mark all the    *)
(* documents of them that count, and that a listing reaches.               *)
DoneBefore(next) == {Category[i] : i \in 1..(next - 1)}
EarlierOf(fs, d) ==
  {e \in Documents : /\ fs[e].category = fs[d].category /\ fs[e].folder = fs[d].folder
                     /\ PathOrder[e] < PathOrder[d]}
GoodIndex(fs, index) ==
  /\ fs \in [Documents -> FileKinds] /\ Within(fs, index)
  /\ \A d \in ToSet(index.items) : fs[d].category \in DoneBefore(index.next)
  /\ \A c \in DoneBefore(index.next) : CountOf(fs, index.items, c) <= Quota[c]
  /\ ~index.truncated =>
       \A d \in Documents : /\ fs[d].category \in DoneBefore(index.next)
                            /\ fs[d].status \in {"verified", "active"}
                            /\ ~(Cardinality(EarlierOf(fs, d)) >= ListLimit)
                            => d \in ToSet(index.items)
(* The inductive invariant of the index under way.                         *)
ContextInv == GoodIndex(files, built)

(* An index begins empty.                                                  *)
LEMMA EmptyIsGood ==
  ASSUME NEW fs \in [Documents -> FileKinds]
  PROVE  GoodIndex(fs, EmptyIndex)
PROOF
<1>1. Len(Category) \in Nat /\ MaxBytes \in Nat /\ MaxBytes >= 2 /\ MaxSize \in Nat
  BY ContextConstants
<1>2. <<>> \in Seq(Documents)
  OBVIOUS
<1>3. BytesOf(fs, <<>>) = 2
  BY <1>1, <1>2, BytesAreNumber
<1>4. /\ EmptyIndex.items = <<>> /\ EmptyIndex.next = 1 /\ EmptyIndex.bytes = 2
      /\ EmptyIndex.truncated = FALSE /\ EmptyIndex.omitted = 0
  BY DEF EmptyIndex
<1>5. EmptyIndex \in IndexType
  BY <1>1, <1>2 DEF EmptyIndex, IndexType
<1>6. ToSet(<<>>) = {} /\ IsInjective(<<>>)
  BY DEF ToSet, IsInjective
<1>7. Within(fs, EmptyIndex)
  BY <1>1, <1>3, <1>4, <1>5, <1>6 DEF Within
<1>8. DoneBefore(1) = {}
  BY DEF DoneBefore
<1> QED
  BY <1>4, <1>6, <1>7, <1>8 DEF GoodIndex

(* The sequence of the documents taken: as many candidates as the quota    *)
(* has room for, in their order.                                           *)
LEMMA TakenOf ==
  ASSUME files \in [Documents -> FileKinds], NEW c \in ToSet(Category)
  PROVE  LET taken == SubSeq(Sorted(Candidates(c)), 1, Min({Quota[c], Cardinality(Candidates(c))}))
         IN  /\ taken \in Seq(Documents) /\ Len(taken) <= Quota[c] /\ Len(taken) \in Nat
             /\ \A i \in 1..Len(taken) : files[taken[i]].category = c
             /\ ToSet(taken) \subseteq Candidates(c)
             /\ OverQuota(c) \in Nat /\ Quota[c] \in Nat
             /\ OverQuota(c) = 0 => Candidates(c) \subseteq ToSet(taken)
PROOF
<1> DEFINE C == Candidates(c)  n == Cardinality(C)  q == Quota[c]  m == Min({q, n})
           taken == SubSeq(Sorted(C), 1, m)
<1>1. C \in SUBSET Documents /\ \A d \in C : files[d].category = c
  BY DEF Candidates, Readable, Fetched, FileEntries, Listed, Reached, Folder
<1>2. OverQuota(c) = IF n > q THEN n - q ELSE 0
  BY DEF OverQuota
<1> HIDE DEF C
<1>3. n \in Nat /\ Sorted(C) \in [1..n -> C] /\ \A d \in C : \E k \in 1..n : Sorted(C)[k] = d
  BY <1>1, SortedAreAll
<1>4. q \in Nat
  BY ContextConstants
<1> HIDE DEF n, q
<1>5. m \in Nat /\ m <= n /\ m <= q /\ (m = n \/ m = q)
  <2>1. {q, n} \in SUBSET Nat /\ {q, n} # {}
    BY <1>3, <1>4
  <2>2. Min({q, n}) \in {q, n} /\ \A x \in {q, n} : Min({q, n}) <= x
    BY <2>1, LeastOf
  <2> QED
    BY <1>3, <1>4, <2>2
<1> HIDE DEF m
<1> DEFINE all == Sorted(C)
<1> HIDE DEF all
<1>6. all \in [1..n -> C] /\ \A d \in C : \E k \in 1..n : all[k] = d
  BY <1>3 DEF all
<1>7. taken = [i \in 1..m |-> all[i]]
  <2>1. taken = [i \in 1..(m - 1 + 1) |-> all[i + 1 - 1]]
    BY <1>5, <1>6 DEF all
  <2>2. 1..(m - 1 + 1) = 1..m /\ \A i \in 1..m : i + 1 - 1 = i
    BY <1>5
  <2> QED
    BY <2>1, <2>2
<1> HIDE DEF taken
<1>8. \A i \in 1..m : i \in 1..n /\ all[i] \in C /\ all[i] \in Documents
  <2>1. \A i \in 1..m : i \in 1..n
    BY <1>3, <1>5
  <2>2. \A i \in 1..n : all[i] \in C
    BY <1>6
  <2> QED
    BY <1>1, <2>1, <2>2
<1>9. taken \in Seq(Documents) /\ Len(taken) = m /\ DOMAIN taken = 1..m
  BY <1>5, <1>7, <1>8
<1>10. \A i \in 1..m : taken[i] = all[i]
  BY <1>7
<1>11. (\A i \in 1..m : files[taken[i]].category = c) /\ ToSet(taken) \subseteq C
  BY <1>1, <1>8, <1>9, <1>10 DEF ToSet
<1>12. OverQuota(c) \in Nat
  BY <1>2, <1>3, <1>4 DEF n, q
<1>13. ASSUME OverQuota(c) = 0 PROVE C \subseteq ToSet(taken)
  <2>1. ~(n > q)
    BY <1>2, <1>3, <1>4, <1>13 DEF n, q
  <2>2. m = n
    BY <1>3, <1>4, <1>5, <2>1
  <2>3. ASSUME NEW d \in C PROVE d \in ToSet(taken)
    <3>1. PICK k \in 1..n : all[k] = d
      BY <1>6
    <3> QED
      BY <1>9, <1>10, <2>2, <3>1 DEF ToSet
  <2> QED
    BY <2>3
<1> QED
  BY <1>4, <1>5, <1>9, <1>11, <1>12, <1>13 DEF C, n, q, m, taken, all

(* Without files that were skipped all that are listed were read.          *)
LEMMA SkippedNone ==
  ASSUME NEW c
  PROVE  Skipped(c) \in Nat /\ (Skipped(c) = 0 => Readable(c) = Listed(c))
PROOF
<1>1. IsFiniteSet(Documents)
  BY ContextConstants, FS_Interval DEF Documents
<1>2. Listed(c) \in SUBSET Documents /\ Readable(c) \in SUBSET Listed(c)
  BY DEF Readable, Fetched, FileEntries, Listed, Reached, Folder
<1>3. IsFiniteSet(Listed(c)) /\ Cardinality(Listed(c)) \in Nat
  BY <1>1, <1>2, FS_Subset, FS_CardinalityType
<1>4. /\ Cardinality(Readable(c)) \in Nat /\ Cardinality(Readable(c)) <= Cardinality(Listed(c))
      /\ Cardinality(Listed(c)) = Cardinality(Readable(c)) => Listed(c) = Readable(c)
  BY <1>2, <1>3, FS_Subset, FS_CardinalityType
<1> QED
  BY <1>3, <1>4 DEF Skipped

(* A document with less than a listing's entries before it in its folder   *)
(* is listed.                                                              *)
LEMMA EarlyAreListed ==
  ASSUME files \in [Documents -> FileKinds], NEW d \in Documents, Eligible(d),
         ~(Cardinality(EarlierOf(files, d)) >= ListLimit)
  PROVE  d \in Listed(files[d].category)
PROOF
<1> DEFINE c == files[d].category  p == files[d].folder
           E == EarlierOf(files, d)
           U == {e \in Folder(c, p) : PathOrder[e] <= PathOrder[d]}
<1>1. p \in FoldersOf[c]
  BY DEF FileKinds
<1>2. IsFiniteSet(E) /\ Cardinality(E) \in Nat
  <2>1. IsFiniteSet(Documents)
    BY ContextConstants, FS_Interval DEF Documents
  <2>2. E \in SUBSET Documents
    BY DEF EarlierOf
  <2> QED
    BY <2>1, <2>2, FS_Subset, FS_CardinalityType
<1>3. U = E \cup {d} /\ d \notin E
  <2>1. \A e \in Documents : PathOrder[e] \in Nat /\ e \in DOMAIN PathOrder
    BY ContextConstants DEF Documents
  <2>2. \A e \in Documents : PathOrder[e] <= PathOrder[d] <=> PathOrder[e] < PathOrder[d] \/ e = d
    BY <2>1, ContextConstants DEF IsInjective
  <2>3. ~(PathOrder[d] < PathOrder[d])
    BY <2>1
  <2> QED
    BY <2>2, <2>3 DEF EarlierOf, Folder
<1> HIDE DEF E
<1>4. Cardinality(U) = Cardinality(E) + 1
  BY <1>2, <1>3, FS_AddElement
<1>5. Cardinality(U) <= ListLimit
  <2>1. ~(Cardinality(E) >= ListLimit) /\ ListLimit \in Nat
    BY ContextConstants DEF E
  <2> QED
    BY <1>2, <1>4, <2>1
<1>6. d \in Folder(c, p)
  BY DEF Folder
<1>7. d \in Reached(c, p)
  BY <1>5, <1>6 DEF Reached
<1> QED
  BY <1>1, <1>7 DEF Listed, Eligible

(* The next category is one that was not done before.                      *)
LEMMA DoneAfter ==
  ASSUME NEW k \in 1..Len(Category)
  PROVE  /\ DoneBefore(k + 1) = DoneBefore(k) \cup {Category[k]}
         /\ Category[k] \in ToSet(Category) /\ Category[k] \notin DoneBefore(k)
PROOF
<1>1. Len(Category) \in Nat /\ DOMAIN Category = 1..Len(Category) /\ k \in Nat
  BY ContextConstants
<1>2. \A i \in 1..(k + 1 - 1) : i \in 1..(k - 1) \/ i = k
  BY <1>1
<1>3. k \in 1..(k + 1 - 1) /\ \A i \in 1..(k - 1) : i \in 1..(k + 1 - 1)
  BY <1>1
<1>4. DoneBefore(k + 1) = DoneBefore(k) \cup {Category[k]}
  BY <1>2, <1>3 DEF DoneBefore
<1>5. Category[k] \in ToSet(Category)
  BY <1>1 DEF ToSet
<1>6. \A i \in 1..(k - 1) : i \in DOMAIN Category /\ k \in DOMAIN Category /\ i # k
  BY <1>1
<1>7. Category[k] \notin DoneBefore(k)
  BY <1>6, ContextConstants DEF DoneBefore, IsInjective
<1> QED
  BY <1>4, <1>5, <1>7

(* The next category is marked as done.                                    *)
LEMMA NextCategory ==
  ASSUME NEW fs, NEW index, Within(fs, index), index.next \in 1..Len(Category)
  PROVE  LET now == [index EXCEPT !.next = @ + 1]
         IN  /\ Within(fs, now) /\ now.items = index.items /\ now.next = index.next + 1
             /\ now.truncated = index.truncated
PROOF
<1> DEFINE now == [index EXCEPT !.next = @ + 1]
<1>1. Len(Category) \in Nat
  BY ContextConstants
<1>2. index.next + 1 \in 1..(Len(Category) + 1)
  BY <1>1
<1>3. /\ now \in IndexType /\ now.items = index.items /\ now.next = index.next + 1
      /\ now.bytes = index.bytes /\ now.truncated = index.truncated /\ now.omitted = index.omitted
  BY <1>2 DEF Within, IndexType
<1> HIDE DEF now
<1>4. Within(fs, now)
  BY <1>3 DEF Within
<1> QED
  BY <1>3, <1>4 DEF now

(* A category that is read, sorted, cut to its quota and appended.         *)
LEMMA AddedKeepsGood ==
  ASSUME ContextInv, AddCategory
  PROVE  ContextInv'
PROOF
<1> DEFINE k == built.next  c == Category[k]
           noted == Omit(Omit(built, Skipped(c)), OverQuota(c))
           taken == SubSeq(Sorted(Candidates(c)), 1, Min({Quota[c], Cardinality(Candidates(c))}))
           all == AppendItems(noted, taken)
           now == [all EXCEPT !.next = @ + 1]
<1>1. built' = now /\ files' = files /\ built.next <= Len(Category)
  BY DEF AddCategory
<1>2. files \in [Documents -> FileKinds] /\ Within(files, built)
  BY DEF ContextInv, GoodIndex
<1>3. k \in 1..Len(Category)
  <2>1. k \in 1..(Len(Category) + 1) /\ Len(Category) \in Nat
    BY <1>2, ContextConstants DEF Within, IndexType
  <2> QED
    BY <1>1, <2>1
<1>4. /\ DoneBefore(k + 1) = DoneBefore(k) \cup {c} /\ c \in ToSet(Category)
      /\ c \notin DoneBefore(k)
  BY <1>3, DoneAfter
<1> HIDE DEF c
<1>5. /\ taken \in Seq(Documents) /\ Len(taken) <= Quota[c] /\ Len(taken) \in Nat
      /\ \A i \in 1..Len(taken) : files[taken[i]].category = c
      /\ ToSet(taken) \subseteq Candidates(c)
      /\ OverQuota(c) \in Nat /\ Quota[c] \in Nat
      /\ OverQuota(c) = 0 => Candidates(c) \subseteq ToSet(taken)
  BY <1>2, <1>4, TakenOf
<1> HIDE DEF taken
<1>6. Skipped(c) \in Nat /\ (Skipped(c) = 0 => Readable(c) = Listed(c))
  BY SkippedNone
<1>7. /\ Within(files, noted) /\ noted.items = built.items /\ noted.next = built.next
      /\ ~noted.truncated => ~built.truncated /\ Skipped(c) = 0 /\ OverQuota(c) = 0
  <2> DEFINE first == Omit(built, Skipped(c))
  <2>1. /\ Within(files, first) /\ first.items = built.items /\ first.next = built.next
        /\ ~first.truncated => ~built.truncated /\ Skipped(c) = 0
    BY <1>2, <1>6, OmittedKeeps
  <2> HIDE DEF first
  <2>2. /\ Within(files, Omit(first, OverQuota(c))) /\ Omit(first, OverQuota(c)).items = first.items
        /\ Omit(first, OverQuota(c)).next = first.next
        /\ ~Omit(first, OverQuota(c)).truncated => ~first.truncated /\ OverQuota(c) = 0
    <3> DEFINE n == OverQuota(c)
    <3>1. n \in Nat
      BY <1>5
    <3>2. Within(files, first)
      BY <2>1
    <3> HIDE DEF n
    <3>3. /\ Within(files, Omit(first, n)) /\ Omit(first, n).items = first.items
          /\ Omit(first, n).next = first.next
          /\ ~Omit(first, n).truncated => ~first.truncated /\ n = 0
      BY <3>1, <3>2, OmittedKeeps
    <3> QED
      BY <3>3 DEF n
  <2> QED
    BY <2>1, <2>2 DEF first
<1> HIDE DEF noted
<1>8. Within(files, all) /\ Added(files, noted, all, c, Len(taken), ToSet(taken))
  BY <1>2, <1>5, <1>7, AppendedAll
<1> HIDE DEF all
<1>9. /\ Within(files, now) /\ now.items = all.items /\ now.next = k + 1
      /\ now.truncated = all.truncated
  <2>1. all.next = k
    BY <1>7, <1>8 DEF Added
  <2> QED
    BY <1>3, <1>8, <2>1, NextCategory
<1> HIDE DEF now, k
<1>10. ToSet(now.items) \subseteq ToSet(built.items) \cup ToSet(taken)
  BY <1>7, <1>8, <1>9 DEF Added
<1>11. \A d \in ToSet(taken) : files[d].category = c
  BY <1>5 DEF ToSet
<1>12. \A d \in ToSet(built.items) : files[d].category \in DoneBefore(k)
  BY DEF ContextInv, GoodIndex, k
<1>13. \A d \in ToSet(now.items) : files[d].category \in DoneBefore(k + 1)
  BY <1>4, <1>10, <1>11, <1>12
<1>14. CountOf(files, now.items, c) <= Quota[c]
  <2>1. CountOf(files, built.items, c) = 0
    <3>1. {i \in DOMAIN built.items : files[built.items[i]].category = c} = {}
      BY <1>4, <1>12 DEF ToSet
    <3> QED
      BY <3>1, FS_EmptySet DEF CountOf
  <2>2. CountOf(files, now.items, c) <= 0 + Len(taken)
    BY <1>7, <1>8, <1>9, <2>1 DEF Added
  <2>3. CountOf(files, now.items, c) \in Nat
    <3>1. now.items \in Seq(Documents)
      BY <1>9 DEF Within, IndexType
    <3>2. \A i \in DOMAIN now.items : i \in 1..Len(now.items)
      BY <3>1
    <3>3. {i \in DOMAIN now.items : files[now.items[i]].category = c} \in SUBSET (1..Len(now.items))
      BY <3>2
    <3>4. IsFiniteSet(1..Len(now.items))
      BY <3>1, FS_Interval
    <3> QED
      BY <3>3, <3>4, FS_Subset, FS_CardinalityType DEF CountOf
  <2> QED
    BY <1>5, <2>2, <2>3
<1>15. ASSUME NEW b \in DoneBefore(k) PROVE CountOf(files, now.items, b) <= Quota[b]
  <2>1. b # c
    BY <1>4
  <2>2. CountOf(files, now.items, b) = CountOf(files, built.items, b)
    BY <1>7, <1>8, <1>9, <2>1 DEF Added
  <2>3. CountOf(files, built.items, b) <= Quota[b]
    BY DEF ContextInv, GoodIndex, k
  <2> QED
    BY <2>2, <2>3
<1>16. ASSUME ~now.truncated, NEW d \in Documents, files[d].category \in DoneBefore(k + 1),
              files[d].status \in {"verified", "active"},
              ~(Cardinality(EarlierOf(files, d)) >= ListLimit)
       PROVE  d \in ToSet(now.items)
  <2>1. /\ ~built.truncated /\ Skipped(c) = 0 /\ OverQuota(c) = 0
        /\ ToSet(taken) \subseteq ToSet(now.items) /\ ToSet(built.items) \subseteq ToSet(now.items)
    BY <1>7, <1>8, <1>9, <1>16 DEF Added
  <2>2. CASE files[d].category \in DoneBefore(k)
    <3>1. d \in ToSet(built.items)
      BY <1>16, <2>1, <2>2 DEF ContextInv, GoodIndex, k
    <3> QED
      BY <2>1, <3>1
  <2>3. CASE files[d].category = c
    <3>1. d \in Listed(c)
      BY <1>2, <1>16, <2>3, EarlyAreListed DEF Eligible
    <3>2. d \in Candidates(c)
      BY <1>6, <1>16, <2>1, <3>1 DEF Candidates, Eligible
    <3> QED
      BY <1>5, <2>1, <3>2
  <2> QED
    BY <1>4, <1>16, <2>2, <2>3
<1>17. GoodIndex(files, now)
  BY <1>2, <1>4, <1>9, <1>13, <1>14, <1>15, <1>16 DEF GoodIndex
<1> QED
  BY <1>1, <1>17 DEF ContextInv

(* A folder that cannot be listed leaves its mark.                         *)
LEMMA UnavailableKeepsGood ==
  ASSUME ContextInv, Unavailable
  PROVE  ContextInv'
PROOF
<1> DEFINE k == built.next  noted == Omit(built, 1)  now == [noted EXCEPT !.next = @ + 1]
<1>1. built' = now /\ files' = files /\ built.next <= Len(Category)
  BY DEF Unavailable
<1>2. files \in [Documents -> FileKinds] /\ Within(files, built)
  BY DEF ContextInv, GoodIndex
<1>3. k \in 1..Len(Category)
  <2>1. k \in 1..(Len(Category) + 1) /\ Len(Category) \in Nat
    BY <1>2, ContextConstants DEF Within, IndexType
  <2> QED
    BY <1>1, <2>1
<1>4. /\ DoneBefore(k + 1) = DoneBefore(k) \cup {Category[k]} /\ Category[k] \in ToSet(Category)
      /\ Category[k] \notin DoneBefore(k)
  BY <1>3, DoneAfter
<1>5. /\ Within(files, noted) /\ noted.items = built.items /\ noted.next = built.next
      /\ noted.truncated
  <2>1. /\ Within(files, noted) /\ noted.items = built.items /\ noted.next = built.next
        /\ ~noted.truncated => ~built.truncated /\ 1 = 0
    BY <1>2, OmittedKeeps
  <2> QED
    BY <2>1 DEF Within, IndexType
<1> HIDE DEF noted
<1>6. /\ Within(files, now) /\ now.items = built.items /\ now.next = k + 1 /\ now.truncated
  BY <1>3, <1>5, NextCategory
<1> HIDE DEF now, k
<1>7. \A d \in ToSet(now.items) : files[d].category \in DoneBefore(k + 1)
  BY <1>4, <1>6 DEF ContextInv, GoodIndex, k
<1>8. \A d \in ToSet(built.items) : files[d].category # Category[k]
  BY <1>4 DEF ContextInv, GoodIndex, k
<1>9. CountOf(files, now.items, Category[k]) <= Quota[Category[k]]
  <2>1. {i \in DOMAIN built.items : files[built.items[i]].category = Category[k]} = {}
    BY <1>8 DEF ToSet
  <2>2. CountOf(files, now.items, Category[k]) = 0
    BY <1>6, <2>1, FS_EmptySet DEF CountOf
  <2>3. Quota[Category[k]] \in Nat
    BY <1>4, ContextConstants
  <2> QED
    BY <2>2, <2>3
<1>10. ASSUME NEW b \in DoneBefore(k) PROVE CountOf(files, now.items, b) <= Quota[b]
  BY <1>6 DEF ContextInv, GoodIndex, k
<1>11. GoodIndex(files, now)
  BY <1>2, <1>4, <1>6, <1>7, <1>9, <1>10 DEF GoodIndex
<1> QED
  BY <1>1, <1>11 DEF ContextInv

(* An index begins empty.                                                  *)
LEMMA ContextStart == ContextInit => ContextInv
PROOF
  BY EmptyIsGood DEF ContextInit, ContextInv

(* Every step keeps the invariant.                                         *)
LEMMA ContextSteps ==
  ASSUME ContextInv, [ContextNext]_contextVars
  PROVE  ContextInv'
PROOF
<1>1. CASE AddCategory
  BY <1>1, AddedKeepsGood
<1>2. CASE Unavailable
  BY <1>2, UnavailableKeepsGood
<1>3. CASE BuildAgain
  <2>1. files \in [Documents -> FileKinds]
    BY DEF ContextInv, GoodIndex
  <2>2. GoodIndex(files, EmptyIndex)
    BY <2>1, EmptyIsGood
  <2> QED
    BY <1>3, <2>2 DEF BuildAgain, ContextInv
<1>4. CASE UNCHANGED contextVars
  BY <1>4 DEF contextVars, ContextInv
<1> QED
  BY <1>1, <1>2, <1>3, <1>4 DEF ContextNext

(* The invariant implies what the runs check.                              *)
LEMMA ContextInvShows == ContextInv => OmissionsShow /\ ContextTypeOK
PROOF
<1> SUFFICES ASSUME ContextInv PROVE OmissionsShow /\ ContextTypeOK
  OBVIOUS
<1>1. Within(files, built) /\ files \in [Documents -> FileKinds]
  BY DEF ContextInv, GoodIndex
<1>2. built \in IndexType /\ built.items \in Seq(Documents)
  BY <1>1 DEF Within, IndexType
<1>3. ContextTypeOK
  <2>1. ToSet(built.items) \subseteq Documents
    BY <1>2 DEF ToSet
  <2> QED
    BY <1>1, <1>2, <2>1 DEF ContextTypeOK, IndexType
<1>4. built.bytes = Bytes(built.items) /\ built.bytes <= MaxBytes /\ IsInjective(built.items)
  BY <1>1 DEF Within, Bytes, BytesOf
<1>5. built.truncated <=> built.omitted > 0
  BY <1>1 DEF Within
<1>6. \A c \in DoneBefore(built.next) :
        Cardinality({i \in DOMAIN built.items : files[built.items[i]].category = c}) <= Quota[c]
  BY DEF ContextInv, GoodIndex, CountOf
<1> DEFINE before(d) == {e \in Folder(files[d].category, files[d].folder) : PathOrder[e] < PathOrder[d]}
<1>7. \A d \in Documents : before(d) = EarlierOf(files, d)
  BY DEF Folder, EarlierOf
<1>9. ~built.truncated =>
        \A d \in {d \in Documents : /\ files[d].category \in DoneBefore(built.next) /\ Eligible(d)
                                     /\ d \notin ToSet(built.items)} :
          Cardinality(before(d)) >= ListLimit
  <2> HIDE DEF before
  <2> QED
    BY <1>7 DEF ContextInv, GoodIndex, Eligible
<1>8. OmissionsShow
  BY <1>4, <1>5, <1>6, <1>9 DEF OmissionsShow, DoneBefore
<1> QED
  BY <1>3, <1>8

(* An index keeps its budget and its quotas, and what it passes over shows *)
(* unless the listing of its folder stopped before it, which leaves no     *)
(* mark (context_index.go, BuildContextIndex; store.go, List): for any     *)
(* number of documents, folders and categories, and any limits.            *)
THEOREM OmissionsAlwaysShow == ContextSpec => [](OmissionsShow /\ ContextTypeOK)
PROOF
<1>1. ContextSpec => []ContextInv
  BY ContextStart, ContextSteps, PTL DEF ContextSpec
<1> QED
  BY <1>1, ContextInvShows, PTL
===================================================================================
