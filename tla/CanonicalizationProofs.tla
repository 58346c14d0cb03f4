------------------------ MODULE CanonicalizationProofs ------------------------
(***************************************************************************)
(* For any texts, NFC tables, integers and documents of any size: the      *)
(* portable canonicalizers reject one set of documents, programs that      *)
(* accept a document write the same bytes, and the bytes name its meaning. *)
(*                                                                         *)
(* Values nest, so every argument is by induction on their depth: of the   *)
(* naturals that violate a claim there would be a least one.  The same     *)
(* argument shows that each recursive definition has a solution.           *)
(*                                                                         *)
(* One domain: in UTF-8 a surrogate is a byte 237 before one of 160 and    *)
(* above, in UTF-16 a unit alone, so each runtime finds it in its own form *)
(* of a text.  One encoding: code points, UTF-8 strings and bytes have the *)
(* same strict total order, in which a finite set of keys has one          *)
(* arrangement.  Digests: a reader at one place of the bytes finds one     *)
(* value there, and it has one meaning.                                    *)
(***************************************************************************)
EXTENDS Canonicalization, SequenceTheorems, FiniteSetTheorems, TLAPS

LEMMA Least ==
    ASSUME NEW S \in SUBSET Nat, S # {}
    PROVE  \E n \in S : \A m \in S : n <= m
  <1>1. PICK b \in S : TRUE
    OBVIOUS
  <1> DEFINE D == 0 .. b
             T == {0 .. m : m \in {k \in S : k <= b}}
  <1>2. /\ IsFiniteSet(D)
        /\ T \in SUBSET (SUBSET D)
        /\ T # {}
    <2>1. IsFiniteSet(D)
      BY <1>1, FS_Interval
    <2>2. \A m \in {k \in S : k <= b} : 0 .. m \in SUBSET D
      BY <1>1
    <2>3. b \in {k \in S : k <= b}
      BY <1>1
    <2> HIDE DEF D
    <2> QED
      BY <2>1, <2>2, <2>3
  <1>3. T \subseteq FiniteSubsetsOf(D)
    BY <1>2, FS_FiniteSubsetsOfFinite
  <1>4. PICK u \in T : \A v \in T : ~ (<<v, u>> \in StrictSubsetOrdering(D))
    BY <1>2, <1>3, FS_StrictSubsetOrderingWellFounded, WFMin
  <1>5. PICK n \in S : n <= b /\ u = 0 .. n
    BY <1>4
  <1>6. ASSUME NEW m \in S, m < n PROVE FALSE
    <2>1. 0 .. m \in T /\ 0 .. m \in SUBSET D /\ u \in SUBSET D
      BY <1>5, <1>6
    <2>2. 0 .. m \subseteq u /\ n \in u /\ n \notin 0 .. m
      BY <1>5, <1>6
    <2>3. <<0 .. m, u>> \in StrictSubsetOrdering(D)
      BY <2>1, <2>2 DEF StrictSubsetOrdering
    <2> QED
      BY <1>4, <2>1, <2>3
  <1> QED
    BY <1>5, <1>6

-----------------------------------------------------------------------------
(* Values nest to any depth: the recursive definition has a solution.      *)
Stage(n, f) == IF n = 0 THEN Leaves ELSE Leaves \cup Containers(f[n - 1])

Stages(n, f) == f = [i \in 0 .. n |-> Stage(i, f)]

LEMMA StageAt ==
    ASSUME NEW n \in Nat, NEW f, Stages(n, f)
    PROVE  \A i \in 0 .. n : f[i] = Stage(i, f)
  <1> DEFINE e == [i \in 0 .. n |-> Stage(i, f)]
  <1>1. \A i \in 0 .. n : e[i] = Stage(i, f)
    OBVIOUS
  <1>2. f = e
    BY DEF Stages
  <1> HIDE DEF e
  <1> QED
    BY <1>1, <1>2

LEMMA StagesAgree ==
    ASSUME NEW n \in Nat, NEW m \in Nat, NEW f, NEW g, Stages(n, f), Stages(m, g),
           NEW i \in Nat, i <= n, i <= m
    PROVE  f[i] = g[i]
  <1> DEFINE Bad == {j \in Nat : j <= n /\ j <= m /\ f[j] # g[j]}
  <1> SUFFICES ASSUME Bad # {} PROVE FALSE
    OBVIOUS
  <1>1. PICK j \in Bad : \A k \in Bad : j <= k
    BY Least
  <1>2. f[j] = Stage(j, f) /\ g[j] = Stage(j, g)
    BY <1>1, StageAt
  <1>3. CASE j = 0
    BY <1>1, <1>2, <1>3 DEF Stage
  <1>4. CASE j # 0
    <2>1. j - 1 \in Nat /\ j - 1 \notin Bad
      BY <1>1, <1>4
    <2>2. f[j - 1] = g[j - 1]
      BY <1>1, <2>1
    <2> QED
      BY <1>1, <1>2, <1>4, <2>2 DEF Stage
  <1> QED
    BY <1>3, <1>4

LEMMA StagesExist ==
    ASSUME NEW n \in Nat
    PROVE  \E f : Stages(n, f)
  <1> DEFINE Bad == {j \in Nat : ~ \E f : Stages(j, f)}
  <1> SUFFICES ASSUME Bad # {} PROVE FALSE
    OBVIOUS
  <1>1. PICK j \in Bad : \A k \in Bad : j <= k
    BY Least
  <1>2. CASE j = 0
    <2> DEFINE f == [i \in 0 .. 0 |-> Leaves]
    <2>1. Stages(0, f)
      BY DEF Stages, Stage
    <2> QED
      BY <1>1, <1>2, <2>1
  <1>3. CASE j # 0
    <2>1. PICK g : Stages(j - 1, g)
      BY <1>1, <1>3
    <2> DEFINE f == [i \in 0 .. j |-> Stage(i, g)]
    <2>2. \A i \in 0 .. j - 1 : f[i] = g[i]
      BY <2>1, <1>1, <1>3, StageAt
    <2>3. \A i \in 0 .. j : Stage(i, f) = Stage(i, g)
      <3> SUFFICES ASSUME NEW i \in 0 .. j PROVE Stage(i, f) = Stage(i, g)
        OBVIOUS
      <3>1. CASE i = 0
        BY <3>1 DEF Stage
      <3>2. CASE i # 0
        <4>1. f[i - 1] = g[i - 1]
          <5>1. i - 1 \in 0 .. j - 1
            BY <1>1, <3>2
          <5> HIDE DEF f
          <5> QED
            BY <2>2, <5>1
        <4> HIDE DEF f
        <4> QED
          BY <4>1 DEF Stage
      <3> QED
        BY <3>1, <3>2
    <2>4. f = [i \in 0 .. j |-> Stage(i, f)]
      <3>1. f = [i \in 0 .. j |-> Stage(i, g)]
        OBVIOUS
      <3> HIDE DEF f
      <3> QED
        BY <2>3, <3>1
    <2> QED
      BY <1>1, <2>4 DEF Stages
  <1> QED
    BY <1>2, <1>3

LEMMA ValuesDef ==
    ASSUME NEW n \in Nat
    PROVE  Values[n] = IF n = 0 THEN Leaves ELSE Leaves \cup Containers(Values[n - 1])
  <1> DEFINE Solves(F) == F = [k \in Nat |-> IF k = 0 THEN Leaves
                                             ELSE Leaves \cup Containers(F[k - 1])]
             St(k) == CHOOSE f : Stages(k, f)
             V == [k \in Nat |-> St(k)[k]]
  <1>1. \A k \in Nat : Stages(k, St(k))
    BY StagesExist
  <1>2. \A k \in Nat : V[k] = Stage(k, V)
    <2> SUFFICES ASSUME NEW k \in Nat PROVE V[k] = Stage(k, V)
      OBVIOUS
    <2>1. V[k] = Stage(k, St(k))
      BY <1>1, StageAt
    <2>2. CASE k = 0
      BY <2>1, <2>2 DEF Stage
    <2>3. CASE k # 0
      <3>1. k - 1 \in Nat /\ k - 1 <= k
        BY <2>3
      <3>2. Stages(k, St(k)) /\ Stages(k - 1, St(k - 1))
        BY <1>1, <3>1
      <3>3. V[k - 1] = St(k - 1)[k - 1]
        BY <3>1
      <3> HIDE DEF St, V
      <3>4. St(k)[k - 1] = St(k - 1)[k - 1]
        BY <3>1, <3>2, StagesAgree
      <3> QED
        BY <2>1, <2>3, <3>3, <3>4 DEF Stage
    <2> QED
      BY <2>2, <2>3
  <1>3. Solves(V)
    <2>1. V = [k \in Nat |-> V[k]]
      OBVIOUS
    <2> HIDE DEF V
    <2> QED
      BY <1>2, <2>1 DEF Stage
  <1>4. Values = CHOOSE F : Solves(F)
    BY DEF Values
  <1> HIDE DEF V, Solves
  <1>5. Solves(Values)
    BY <1>3, <1>4
  <1> QED
    BY <1>5 DEF Solves

LEMMA ValuesStep ==
    ASSUME NEW n \in Nat
    PROVE  Values[0] = Leaves /\ Values[n + 1] = Leaves \cup Containers(Values[n])
  <1>1. Values[0] = Leaves
    BY ValuesDef
  <1>2. n + 1 \in Nat /\ n + 1 # 0 /\ (n + 1) - 1 = n
    OBVIOUS
  <1>3. Values[n + 1] = Leaves \cup Containers(Values[(n + 1) - 1])
    BY ONLY <1>2, ValuesDef
  <1> QED
    BY <1>1, <1>2, <1>3

(* A value of depth n is a scalar, or holds values of depth n - 1.         *)
Lists(S) == [t : {"list", "tuple"}, items : Seq(S)]
Maps(S) == [t : {"map"}, entries : Seq(Leaves \X S)]

LEMMA Kinds ==
    ASSUME NEW n \in Nat, NEW v \in Values[n]
    PROVE  \/ v \in Leaves
           \/ n - 1 \in Nat /\ v \in Lists(Values[n - 1])
           \/ n - 1 \in Nat /\ v \in Maps(Values[n - 1])
  <1>1. CASE n = 0
    BY <1>1, ValuesDef
  <1>2. CASE n # 0
    <2>1. n - 1 \in Nat
      BY <1>2
    <2>2. Values[n] = Leaves \cup Containers(Values[n - 1])
      BY <1>2, ValuesDef
    <2> QED
      BY <2>1, <2>2 DEF Containers, Lists, Maps
  <1> QED
    BY <1>1, <1>2

LEMMA LeafKinds ==
    ASSUME NEW v \in Leaves
    PROVE  \/ v.t = "null"
           \/ v.t = "float"
           \/ v.t = "int" /\ v.n \in Int
           \/ v.t = "str" /\ v.s \in Texts
           \/ v.t = "bytes" /\ v.b \in DOMAIN Hex
  BY DEF Leaves

LEMMA LeafHasNoChildren ==
    ASSUME NEW v \in Leaves
    PROVE  Children(v) = {}
  BY LeafKinds DEF Children

LEMMA ListKinds ==
    ASSUME NEW S, NEW v \in Lists(S)
    PROVE  /\ v.t \in {"list", "tuple"}
           /\ v.items \in Seq(S)
           /\ Children(v) = ToSet(v.items)
           /\ \A i \in DOMAIN v.items : v.items[i] \in S /\ v.items[i] \in Children(v)
  BY DEF Lists, Children, ToSet

LEMMA MapKinds ==
    ASSUME NEW S, NEW v \in Maps(S)
    PROVE  /\ v.t = "map"
           /\ v.entries \in Seq(Leaves \X S)
           /\ Children(v) = {e[2] : e \in ToSet(v.entries)}
           /\ \A e \in ToSet(v.entries) : e[1] \in Leaves /\ e[2] \in S /\ e[2] \in Children(v)
           /\ \A i \in DOMAIN v.entries : v.entries[i] \in ToSet(v.entries)
  <1>1. v.t = "map" /\ v.entries \in Seq(Leaves \X S)
    BY DEF Maps
  <1>2. Children(v) = {e[2] : e \in ToSet(v.entries)}
    BY <1>1 DEF Children
  <1>3. ToSet(v.entries) \subseteq Leaves \X S
    BY <1>1 DEF ToSet
  <1>4. \A i \in DOMAIN v.entries : v.entries[i] \in ToSet(v.entries)
    BY DEF ToSet
  <1> QED
    BY <1>1, <1>2, <1>3, <1>4

LEMMA ChildrenBelow ==
    ASSUME NEW n \in Nat, NEW v \in Values[n], NEW c \in Children(v)
    PROVE  n - 1 \in Nat /\ c \in Values[n - 1]
  <1>1. CASE v \in Leaves
    BY <1>1, LeafHasNoChildren
  <1>2. CASE n - 1 \in Nat /\ v \in Lists(Values[n - 1])
    <2>1. v \in Lists(Values[n - 1])
      BY <1>2
    <2>2. v.items \in Seq(Values[n - 1]) /\ c \in ToSet(v.items)
      BY <2>1, ListKinds
    <2> QED
      BY <1>2, <2>2 DEF ToSet
  <1>3. CASE n - 1 \in Nat /\ v \in Maps(Values[n - 1])
    <2>1. v \in Maps(Values[n - 1])
      BY <1>3
    <2>2. Children(v) = {e[2] : e \in ToSet(v.entries)}
      BY <2>1, MapKinds
    <2>3. \A e \in ToSet(v.entries) : e[2] \in Values[n - 1]
      BY <2>1, MapKinds
    <2> QED
      BY <1>3, <2>2, <2>3
  <1> QED
    BY <1>1, <1>2, <1>3, Kinds

LEMMA ContainersGrow ==
    ASSUME NEW S, NEW T, S \subseteq T
    PROVE  Containers(S) \subseteq Containers(T)
  <1>1. Seq(S) \subseteq Seq(T)
    BY SeqMonotonic
  <1>2. Leaves \X S \subseteq Leaves \X T
    OBVIOUS
  <1>3. Seq(Leaves \X S) \subseteq Seq(Leaves \X T)
    BY <1>2, SeqMonotonic
  <1> QED
    BY <1>1, <1>3 DEF Containers

LEMMA ValuesGrow ==
    ASSUME NEW n \in Nat
    PROVE  Values[n] \subseteq Values[n + 1]
  <1> DEFINE Bad == {j \in Nat : ~ Values[j] \subseteq Values[j + 1]}
  <1> SUFFICES ASSUME Bad # {} PROVE FALSE
    OBVIOUS
  <1>1. PICK j \in Bad : \A k \in Bad : j <= k
    BY Least
  <1>2. CASE j = 0
    BY <1>1, <1>2, ValuesStep
  <1>3. CASE j # 0
    <2>1. j - 1 \in Nat /\ j - 1 \notin Bad /\ (j - 1) + 1 = j
      BY <1>1, <1>3
    <2>2. Values[j - 1] \subseteq Values[j]
      BY <2>1
    <2>3. Containers(Values[j - 1]) \subseteq Containers(Values[j])
      BY <2>2, ContainersGrow
    <2>4. Values[j] = Leaves \cup Containers(Values[j - 1])
      BY <1>3, ValuesDef
    <2>5. Values[j + 1] = Leaves \cup Containers(Values[j])
      BY <1>1, ValuesStep
    <2> QED
      BY <1>1, <2>3, <2>4, <2>5
  <1> QED
    BY <1>2, <1>3

LEMMA ValuesGrowTo ==
    ASSUME NEW n \in Nat, NEW m \in Nat, n <= m
    PROVE  Values[n] \subseteq Values[m]
  <1> DEFINE Bad == {j \in Nat : n <= j /\ ~ Values[n] \subseteq Values[j]}
  <1> SUFFICES ASSUME Bad # {} PROVE FALSE
    OBVIOUS
  <1>1. PICK j \in Bad : \A k \in Bad : j <= k
    BY Least
  <1>2. j - 1 \in Nat /\ n <= j - 1 /\ (j - 1) + 1 = j
    BY <1>1
  <1>3. Values[n] \subseteq Values[j - 1]
    BY <1>1, <1>2
  <1>4. Values[j - 1] \subseteq Values[j]
    BY <1>2, ValuesGrow
  <1> QED
    BY <1>1, <1>3, <1>4

LEMMA DocumentsClosed ==
    /\ MaxSize \in Nat /\ MaxSize - 1 \in Nat
    /\ Leaves \subseteq Documents
    /\ \A v \in Documents : Children(v) \subseteq Documents
  <1>1. MaxSize \in Nat /\ MaxSize - 1 \in Nat
    BY ConstantAssumption
  <1>2. Leaves \subseteq Documents
    BY <1>1, ValuesDef DEF Documents
  <1>3. ASSUME NEW v \in Documents, NEW c \in Children(v) PROVE c \in Documents
    BY <1>1, ChildrenBelow, ValuesGrowTo DEF Documents
  <1> QED
    BY <1>1, <1>2, <1>3

-----------------------------------------------------------------------------
(* The parts of a value.                                                   *)
PartsOf(f, v) == {v} \cup UNION {f[c] : c \in Children(v)}

LEMMA PartsExist ==
    ASSUME NEW n \in Nat
    PROVE  \E f : f = [v \in Values[n] |-> PartsOf(f, v)]
  <1> DEFINE Bad == {j \in Nat : ~ \E f : f = [v \in Values[j] |-> PartsOf(f, v)]}
  <1> SUFFICES ASSUME Bad # {} PROVE FALSE
    OBVIOUS
  <1>1. PICK j \in Bad : \A k \in Bad : j <= k
    BY Least
  <1>2. \E g : \A v \in Values[j] : \A c \in Children(v) : g[c] = PartsOf(g, c)
    <2>1. CASE j = 0
      <3>1. \A v \in Values[j] : Children(v) = {}
        BY <2>1, ValuesStep, LeafHasNoChildren
      <3> QED
        BY <3>1
    <2>2. CASE j # 0
      <3>1. j - 1 \in Nat
        BY <2>2
      <3>2. PICK g : g = [v \in Values[j - 1] |-> PartsOf(g, v)]
        BY <1>1, <3>1
      <3> DEFINE e == [v \in Values[j - 1] |-> PartsOf(g, v)]
      <3>3. \A c \in Values[j - 1] : e[c] = PartsOf(g, c)
        OBVIOUS
      <3>4. g = e
        BY <3>2
      <3> HIDE DEF e
      <3> QED
        BY <3>1, <3>3, <3>4, ChildrenBelow
    <2> QED
      BY <2>1, <2>2
  <1>3. PICK g : \A v \in Values[j] : \A c \in Children(v) : g[c] = PartsOf(g, c)
    BY <1>2
  <1> DEFINE f == [v \in Values[j] |-> PartsOf(g, v)]
  <1>4. \A v \in Values[j] : \A c \in Children(v) : f[c] = g[c]
    <2> SUFFICES ASSUME NEW v \in Values[j], NEW c \in Children(v) PROVE f[c] = g[c]
      OBVIOUS
    <2>1. c \in Values[j]
      BY ChildrenBelow, ValuesGrowTo
    <2> QED
      BY <1>3, <2>1
  <1>5. f = [v \in Values[j] |-> PartsOf(g, v)]
    OBVIOUS
  <1> HIDE DEF f
  <1>6. \A v \in Values[j] : PartsOf(f, v) = PartsOf(g, v)
    BY <1>4 DEF PartsOf
  <1>7. f = [v \in Values[j] |-> PartsOf(f, v)]
    BY <1>5, <1>6
  <1> QED
    BY <1>1, <1>7

LEMMA PartsDef ==
    ASSUME NEW v \in Documents
    PROVE  Parts[v] = PartsOf(Parts, v)
  <1> DEFINE Solves(f) == f = [w \in Documents |-> PartsOf(f, w)]
  <1>1. \E f : Solves(f)
    BY PartsExist, DocumentsClosed DEF Documents
  <1>2. Parts = CHOOSE f : Solves(f)
    BY DEF Parts, PartsOf
  <1>3. Solves(Parts)
    <2> HIDE DEF Solves
    <2> QED
      BY <1>1, <1>2
  <1> DEFINE e == [w \in Documents |-> PartsOf(Parts, w)]
  <1>4. e[v] = PartsOf(Parts, v) /\ Parts = e
    BY <1>3
  <1> HIDE DEF e
  <1> QED
    BY <1>4

LEMMA PartsBelow ==
    ASSUME NEW n \in Nat, n <= MaxSize, NEW v \in Values[n]
    PROVE  Parts[v] \subseteq Values[n]
  <1> DEFINE Bad == {j \in Nat : j <= MaxSize /\ \E w \in Values[j] : ~ Parts[w] \subseteq Values[j]}
  <1> SUFFICES ASSUME Bad # {} PROVE FALSE
    OBVIOUS
  <1>1. PICK j \in Bad : \A k \in Bad : j <= k
    BY Least
  <1>2. PICK w \in Values[j] : ~ Parts[w] \subseteq Values[j]
    BY <1>1
  <1>3. Values[j] \subseteq Documents
    BY <1>1, ValuesGrowTo, DocumentsClosed DEF Documents
  <1>4. ASSUME NEW c \in Children(w) PROVE Parts[c] \subseteq Values[j]
    <2>1. j - 1 \in Nat /\ c \in Values[j - 1]
      BY ChildrenBelow
    <2>2. j - 1 \notin Bad /\ j - 1 <= MaxSize
      BY <1>1, <2>1, DocumentsClosed
    <2>3. Parts[c] \subseteq Values[j - 1]
      BY <2>1, <2>2
    <2> QED
      BY <2>1, <2>3, ValuesGrowTo
  <1>5. Parts[w] = {w} \cup UNION {Parts[c] : c \in Children(w)}
    BY <1>3, PartsDef DEF PartsOf
  <1> QED
    BY <1>2, <1>4, <1>5

LEMMA PartsNest ==
    ASSUME NEW v \in Documents
    PROVE  /\ v \in Parts[v]
           /\ Parts[v] \subseteq Documents
           /\ \A c \in Children(v) : Parts[c] \subseteq Parts[v]
  <1>1. Parts[v] \subseteq Documents
    BY PartsBelow, DocumentsClosed DEF Documents
  <1> QED
    BY <1>1, PartsDef DEF PartsOf

LEMMA DocumentKinds ==
    ASSUME NEW v \in Documents
    PROVE  v \in Leaves \/ v \in Lists(Documents) \/ v \in Maps(Documents)
  <1>1. Documents \subseteq Leaves \cup Containers(Documents)
    <2>1. Values[MaxSize] \subseteq Values[MaxSize + 1]
      BY DocumentsClosed, ValuesGrow
    <2>2. Values[MaxSize + 1] = Leaves \cup Containers(Values[MaxSize])
      BY DocumentsClosed, ValuesStep
    <2> QED
      BY <2>1, <2>2 DEF Documents
  <1> QED
    BY <1>1 DEF Containers, Lists, Maps

-----------------------------------------------------------------------------
(* FlattenSeq appends block to block, and where it puts each.              *)
Joined(f, s, i) == IF i = 1 THEN s[i] ELSE f[i - 1] \o s[i]

Joins(f, s, n) == f = [i \in 1 .. n |-> Joined(f, s, i)]

LEMMA JoinsAt ==
    ASSUME NEW n \in Nat, NEW s, NEW f, Joins(f, s, n)
    PROVE  \A i \in 1 .. n : f[i] = Joined(f, s, i)
  <1> DEFINE e == [i \in 1 .. n |-> Joined(f, s, i)]
  <1>1. \A i \in 1 .. n : e[i] = Joined(f, s, i)
    OBVIOUS
  <1>2. f = e
    BY DEF Joins
  <1> HIDE DEF e
  <1> QED
    BY <1>1, <1>2

Agree(s, t, k) == \A i \in 1 .. k : s[i] = t[i]

LEMMA JoinsAgree ==
    ASSUME NEW n \in Nat, NEW m \in Nat, NEW s, NEW t, NEW f, NEW g,
           Joins(f, s, n), Joins(g, t, m),
           NEW k \in Nat, k <= n, k <= m, Agree(s, t, k),
           NEW i \in 1 .. k
    PROVE  f[i] = g[i]
  <1> DEFINE Bad == {j \in Nat : j \in 1 .. k /\ f[j] # g[j]}
  <1> SUFFICES ASSUME Bad # {} PROVE FALSE
    OBVIOUS
  <1>1. PICK j \in Bad : \A l \in Bad : j <= l
    BY Least
  <1>2. f[j] = Joined(f, s, j) /\ g[j] = Joined(g, t, j)
    BY <1>1, JoinsAt
  <1>3. CASE j = 1
    BY <1>1, <1>2, <1>3 DEF Joined, Agree
  <1>4. CASE j # 1
    <2>1. j - 1 \in 1 .. k /\ j - 1 \notin Bad
      BY <1>1, <1>4
    <2>2. f[j - 1] = g[j - 1]
      BY <2>1
    <2> QED
      BY <1>1, <1>2, <1>4, <2>2 DEF Joined, Agree
  <1> QED
    BY <1>3, <1>4

LEMMA JoinsExist ==
    ASSUME NEW n \in Nat, NEW s
    PROVE  \E f : Joins(f, s, n)
  <1> DEFINE Bad == {j \in Nat : ~ \E f : Joins(f, s, j)}
  <1> SUFFICES ASSUME Bad # {} PROVE FALSE
    OBVIOUS
  <1>1. PICK j \in Bad : \A k \in Bad : j <= k
    BY Least
  <1>2. \E g : \A i \in 1 .. j - 1 : g[i] = Joined(g, s, i)
    <2>1. CASE j = 0
      BY <2>1
    <2>2. CASE j # 0
      BY <1>1, <2>2, JoinsAt
    <2> QED
      BY <2>1, <2>2
  <1>3. PICK g : \A i \in 1 .. j - 1 : g[i] = Joined(g, s, i)
    BY <1>2
  <1> DEFINE f == [i \in 1 .. j |-> Joined(g, s, i)]
  <1>4. \A i \in 1 .. j - 1 : f[i] = g[i]
    BY <1>3
  <1>5. f = [i \in 1 .. j |-> Joined(g, s, i)]
    OBVIOUS
  <1> HIDE DEF f
  <1>6. ASSUME NEW i \in 1 .. j PROVE Joined(f, s, i) = Joined(g, s, i)
    <2>1. CASE i = 1
      BY <2>1 DEF Joined
    <2>2. CASE i # 1
      <3>1. i - 1 \in 1 .. j - 1
        BY <2>2
      <3> QED
        BY <1>4, <3>1 DEF Joined
    <2> QED
      BY <2>1, <2>2
  <1>7. f = [i \in 1 .. j |-> Joined(f, s, i)]
    BY <1>5, <1>6
  <1> QED
    BY <1>1, <1>7 DEF Joins

LEMMA FlattenIs ==
    ASSUME NEW s, Len(s) \in Nat
    PROVE  /\ Len(s) = 0 => FlattenSeq(s) = s
           /\ Len(s) # 0 => \E f : Joins(f, s, Len(s)) /\ FlattenSeq(s) = f[Len(s)]
  <1> DEFINE Solves(f) == f = [i \in 1 .. Len(s) |-> IF i = 1 THEN s[i] ELSE f[i - 1] \o s[i]]
             flatten == CHOOSE f : Solves(f)
  <1>1. FlattenSeq(s) = IF Len(s) = 0 THEN s ELSE flatten[Len(s)]
    BY DEF FlattenSeq
  <1>2. \E f : Solves(f)
    BY JoinsExist DEF Joins, Joined
  <1>3. Solves(flatten)
    <2> HIDE DEF Solves
    <2> QED
      BY <1>2
  <1>4. Joins(flatten, s, Len(s))
    BY <1>3 DEF Joins, Joined
  <1> HIDE DEF flatten
  <1> QED
    BY <1>1, <1>4

LEMMA FlattenEmpty == FlattenSeq(<<>>) = <<>>
  BY FlattenIs

LEMMA FlattenAppend ==
    ASSUME NEW S, NEW s \in Seq(Seq(S)), NEW x \in Seq(S)
    PROVE  FlattenSeq(Append(s, x)) = FlattenSeq(s) \o x
  <1> DEFINE t == Append(s, x)
             n == Len(s)
  <1>1. n \in Nat /\ Len(t) = n + 1 /\ t[n + 1] = x /\ \A i \in 1 .. n : t[i] = s[i]
    OBVIOUS
  <1>2. FlattenSeq(<<>>) = <<>>
    BY FlattenEmpty
  <1> HIDE DEF t, n
  <1>3. PICK g : Joins(g, t, n + 1) /\ FlattenSeq(t) = g[n + 1]
    BY <1>1, FlattenIs
  <1>4. g[n + 1] = Joined(g, t, n + 1)
    BY <1>1, <1>3, JoinsAt
  <1>5. CASE n = 0
    <2>1. s = <<>>
      BY <1>5 DEF n
    <2>2. FlattenSeq(t) = x
      BY <1>1, <1>3, <1>4, <1>5 DEF Joined
    <2> QED
      BY <1>2, <2>1, <2>2 DEF t
  <1>6. CASE n # 0
    <2>1. PICK f : Joins(f, s, n) /\ FlattenSeq(s) = f[n]
      BY <1>1, <1>6, FlattenIs DEF n
    <2>2. f[n] = g[n]
      <3>1. n \in 1 .. n /\ n <= n /\ n <= n + 1 /\ n + 1 \in Nat /\ \A i \in 1 .. n : s[i] = t[i]
        BY <1>1, <1>6
      <3>2. Agree(s, t, n)
        BY <3>1 DEF Agree
      <3> QED
        BY ONLY <1>1, <1>3, <2>1, <3>1, <3>2, JoinsAgree
    <2>3. g[n + 1] = g[n] \o x
      BY <1>1, <1>4, <1>6 DEF Joined
    <2> QED
      BY <1>2, <1>3, <2>1, <2>2, <2>3 DEF t
  <1> QED
    BY <1>5, <1>6

(* The first n blocks, and where block k starts.                           *)
First(s, n) == FlattenSeq(SubSeq(s, 1, n))

Start(s, k) == Len(First(s, k - 1))

LEMMA SubSeqIs ==
    ASSUME NEW S, NEW s \in Seq(S), NEW n \in Nat, n <= Len(s)
    PROVE  /\ SubSeq(s, 1, n) \in Seq(S) /\ Len(SubSeq(s, 1, n)) = n
           /\ \A i \in 1 .. n : SubSeq(s, 1, n)[i] = s[i]
  OBVIOUS

LEMMA FirstNone ==
    ASSUME NEW S, NEW s \in Seq(S)
    PROVE  First(s, 0) = <<>>
  <1>1. SubSeq(s, 1, 0) = <<>>
    OBVIOUS
  <1> QED
    BY <1>1, FlattenEmpty DEF First

LEMMA FirstStep ==
    ASSUME NEW S, NEW s \in Seq(Seq(S)), NEW n \in 1 .. Len(s)
    PROVE  First(s, n) = First(s, n - 1) \o s[n]
  <1>1. SubSeq(s, 1, n - 1) \in Seq(Seq(S)) /\ s[n] \in Seq(S)
    OBVIOUS
  <1>2. SubSeq(s, 1, n) = Append(SubSeq(s, 1, n - 1), s[n])
    OBVIOUS
  <1> QED
    BY <1>1, <1>2, FlattenAppend DEF First

LEMMA FirstType ==
    ASSUME NEW S, NEW s \in Seq(Seq(S)), NEW n \in 0 .. Len(s)
    PROVE  First(s, n) \in Seq(S)
  <1> DEFINE Bad == {j \in Nat : j <= Len(s) /\ First(s, j) \notin Seq(S)}
  <1> SUFFICES ASSUME Bad # {} PROVE FALSE
    OBVIOUS
  <1>1. PICK j \in Bad : \A k \in Bad : j <= k
    BY Least
  <1>2. CASE j = 0
    BY <1>1, <1>2, FirstNone, EmptySeq
  <1>3. CASE j # 0
    <2>1. j \in 1 .. Len(s) /\ j - 1 \in Nat /\ j - 1 \notin Bad
      BY <1>1, <1>3
    <2>2. First(s, j - 1) \in Seq(S) /\ s[j] \in Seq(S)
      BY <2>1
    <2>3. First(s, j) = First(s, j - 1) \o s[j]
      BY <2>1, FirstStep
    <2>4. First(s, j) \in Seq(S)
      BY ONLY <2>2, <2>3, ConcatProperties
    <2> QED
      BY <1>1, <2>4
  <1> QED
    BY <1>2, <1>3

LEMMA FlattenType ==
    ASSUME NEW S, NEW s \in Seq(Seq(S))
    PROVE  FlattenSeq(s) \in Seq(S) /\ FlattenSeq(s) = First(s, Len(s))
  <1>1. SubSeq(s, 1, Len(s)) = s
    OBVIOUS
  <1>2. FlattenSeq(s) = First(s, Len(s))
    BY <1>1 DEF First
  <1>3. First(s, Len(s)) \in Seq(S)
    BY FirstType, LenProperties
  <1> QED
    BY <1>2, <1>3

LEMMA StartStep ==
    ASSUME NEW S, NEW s \in Seq(Seq(S))
    PROVE  /\ Start(s, 1) = 0
           /\ \A k \in 1 .. Len(s) : /\ Start(s, k) \in Nat
                                     /\ Start(s, k + 1) = Start(s, k) + Len(s[k])
           /\ Start(s, Len(s) + 1) = Len(FlattenSeq(s))
  <1>1. Start(s, 1) = 0
    BY FirstNone DEF Start
  <1>2. ASSUME NEW k \in 1 .. Len(s)
        PROVE  Start(s, k) \in Nat /\ Start(s, k + 1) = Start(s, k) + Len(s[k])
    <2>1. First(s, k - 1) \in Seq(S) /\ s[k] \in Seq(S)
      BY FirstType
    <2>2. First(s, k) = First(s, k - 1) \o s[k]
      BY FirstStep
    <2>3. (k + 1) - 1 = k
      OBVIOUS
    <2> QED
      <3>1. Len(First(s, k)) = Len(First(s, k - 1)) + Len(s[k]) /\ Len(First(s, k - 1)) \in Nat
        BY ONLY <2>1, <2>2, ConcatProperties, LenProperties
      <3> QED
        BY <2>3, <3>1 DEF Start
  <1>3. Start(s, Len(s) + 1) = Len(FlattenSeq(s))
    <2>1. (Len(s) + 1) - 1 = Len(s)
      OBVIOUS
    <2> QED
      BY <2>1, FlattenType DEF Start
  <1> QED
    BY <1>1, <1>2, <1>3

(* More blocks begin with fewer of them.                               *)
LEMMA FirstExtends ==
    ASSUME NEW S, NEW s \in Seq(Seq(S)), NEW k \in 0 .. Len(s), NEW n \in k .. Len(s)
    PROVE  /\ Len(First(s, k)) <= Len(First(s, n))
           /\ \A i \in 1 .. Len(First(s, k)) : First(s, n)[i] = First(s, k)[i]
  <1> DEFINE Begins(j) == /\ Len(First(s, k)) <= Len(First(s, j))
                          /\ \A i \in 1 .. Len(First(s, k)) : First(s, j)[i] = First(s, k)[i]
             Bad == {j \in Nat : j \in k .. Len(s) /\ ~ Begins(j)}
  <1> SUFFICES ASSUME Bad # {} PROVE FALSE
    OBVIOUS
  <1>1. PICK j \in Bad : \A l \in Bad : j <= l
    BY Least
  <1>2. CASE j = k
    BY <1>1, <1>2, FirstType
  <1>3. CASE j # k
    <2>1. j - 1 \in Nat /\ j - 1 \in k .. Len(s) /\ j - 1 \notin Bad /\ j \in 1 .. Len(s)
      <3>1. j \in k .. Len(s) /\ Len(s) \in Nat
        BY <1>1
      <3>2. j - 1 \in Nat /\ j - 1 \in k .. Len(s) /\ j \in 1 .. Len(s)
        BY <1>3, <3>1
      <3> HIDE DEF Bad
      <3> QED
        BY <1>1, <3>2
    <2>2. Begins(j - 1)
      BY <2>1
    <2>3. First(s, j) = First(s, j - 1) \o s[j]
      BY <2>1, FirstStep
    <2>4. First(s, j - 1) \in Seq(S) /\ First(s, k) \in Seq(S) /\ s[j] \in Seq(S)
      BY <2>1, FirstType
    <2> DEFINE c == Len(First(s, j))
               d == Len(First(s, j - 1))
               b == Len(s[j])
               a == Len(First(s, k))
    <2>5. c = d + b /\ a \in Nat /\ d \in Nat /\ b \in Nat
      BY ONLY <2>3, <2>4, ConcatProperties, LenProperties
    <2>6. \A i \in 1 .. d : First(s, j)[i] = First(s, j - 1)[i]
      BY ONLY <2>3, <2>4, ConcatProperties, LenProperties
    <2>7. a <= c
      <3>1. a <= d
        BY <2>2
      <3> HIDE DEF a, b, c, d
      <3> QED
        BY ONLY <2>5, <3>1
    <2>8. ASSUME NEW i \in 1 .. Len(First(s, k)) PROVE First(s, j)[i] = First(s, k)[i]
      <3>1. i \in 1 .. Len(First(s, j - 1)) /\ First(s, j - 1)[i] = First(s, k)[i]
        BY <2>2, <2>5
      <3> QED
        BY <2>6, <3>1
    <2> QED
      BY <1>1, <2>7, <2>8
  <1> QED
    BY <1>2, <1>3

(* What stands where: element j of block k.                                *)
LEMMA Places ==
    ASSUME NEW S, NEW s \in Seq(Seq(S)), NEW k \in 1 .. Len(s), NEW j \in 1 .. Len(s[k])
    PROVE  /\ Start(s, k) \in Nat
           /\ Start(s, k) + j \in 1 .. Len(FlattenSeq(s))
           /\ FlattenSeq(s)[Start(s, k) + j] = s[k][j]
  <1>1. First(s, k) = First(s, k - 1) \o s[k]
    BY FirstStep
  <1>2. First(s, k - 1) \in Seq(S) /\ First(s, k) \in Seq(S) /\ s[k] \in Seq(S)
    BY FirstType
  <1>3. /\ Len(First(s, k)) <= Len(First(s, Len(s)))
        /\ \A i \in 1 .. Len(First(s, k)) : First(s, Len(s))[i] = First(s, k)[i]
    BY FirstExtends
  <1>4. FlattenSeq(s) = First(s, Len(s)) /\ FlattenSeq(s) \in Seq(S)
    BY FlattenType
  <1>5. Start(s, k) \in Nat /\ Start(s, k) = Len(First(s, k - 1))
    BY <1>2 DEF Start
  <1>6. Start(s, k) + j \in 1 .. Len(First(s, k)) /\ First(s, k)[Start(s, k) + j] = s[k][j]
    BY <1>1, <1>2, <1>5
  <1> QED
    BY <1>3, <1>4, <1>5, <1>6

LEMMA PlaceOf ==
    ASSUME NEW S, NEW s \in Seq(Seq(S)), NEW i \in 1 .. Len(FlattenSeq(s))
    PROVE  \E k \in 1 .. Len(s) : \E j \in 1 .. Len(s[k]) : i = Start(s, k) + j
  <1> DEFINE Covers == {n \in Nat : n <= Len(s) /\ i <= Len(First(s, n))}
  <1>1. Len(s) \in Covers
    BY FlattenType
  <1>2. PICK n \in Covers : \A m \in Covers : n <= m
    BY <1>1, Least
  <1>3. n # 0
    <2>1. First(s, 0) = <<>>
      BY FirstNone
    <2> QED
      BY <1>2, <2>1
  <1>4. n \in 1 .. Len(s) /\ n - 1 \notin Covers /\ n - 1 \in Nat
    BY <1>2, <1>3
  <1>5. First(s, n - 1) \in Seq(S) /\ s[n] \in Seq(S)
    BY <1>4, FirstType
  <1>6. First(s, n) = First(s, n - 1) \o s[n]
    BY <1>4, FirstStep
  <1>7. Start(s, n) = Len(First(s, n - 1)) /\ Start(s, n) \in Nat /\ Start(s, n) < i
    BY <1>4, <1>5 DEF Start
  <1>8. i <= Start(s, n) + Len(s[n])
    <2>1. Len(First(s, n)) = Len(First(s, n - 1)) + Len(s[n])
      BY <1>5, <1>6, ConcatProperties
    <2> QED
      BY <1>2, <1>7, <2>1
  <1>9. i - Start(s, n) \in 1 .. Len(s[n]) /\ i = Start(s, n) + (i - Start(s, n))
    <2>1. Len(s[n]) \in Nat
      BY <1>5, LenProperties
    <2>2. i \in Nat /\ Start(s, n) \in Nat /\ Start(s, n) < i
      BY <1>7, FlattenType, LenProperties
    <2> QED
      BY ONLY <1>8, <2>1, <2>2
  <1> QED
    BY <1>4, <1>9

-----------------------------------------------------------------------------
(* UTF-8 and UTF-16, one code point at a time.                             *)
Within(n, a, b) == n \in Int /\ a <= n /\ n <= b

LEMMA CodePointBounds ==
    ASSUME NEW p \in CodePoint
    PROVE  Within(p, 0, 1114111)
  <1>1. MaxRune \in Int
    BY SMT DEF MaxRune
  <1>2. p \in Int /\ 0 <= p /\ p <= MaxRune
    BY <1>1 DEF CodePoint
  <1> QED
    BY SMT, <1>2 DEF Within, MaxRune

LEMMA SurrogateBounds ==
    ASSUME NEW p \in Int
    PROVE  /\ p \in HighSurrogates <=> 55296 <= p /\ p < 56320
           /\ p \in LowSurrogates <=> 56320 <= p /\ p < 57344
           /\ p \in Surrogate1 .. Surrogate3 - 1 <=> 55296 <= p /\ p < 57344
  <1>1. Surrogate1 \in Int /\ Surrogate2 \in Int /\ Surrogate3 \in Int
    BY SMT DEF Surrogate1, Surrogate2, Surrogate3
  <1>2. /\ p \in HighSurrogates <=> Surrogate1 <= p /\ p < Surrogate2
        /\ p \in LowSurrogates <=> Surrogate2 <= p /\ p < Surrogate3
        /\ p \in Surrogate1 .. Surrogate3 - 1 <=> Surrogate1 <= p /\ p < Surrogate3
    BY <1>1 DEF HighSurrogates, LowSurrogates
  <1> QED
    BY SMT, <1>2 DEF Surrogate1, Surrogate2, Surrogate3

(* The first byte tells how many there are; the others hold six bits each. *)
One(u, p) == \E a \in Int : u = <<a>> /\ Within(a, 0, 127) /\ p = a

Two(u, p) ==
    \E a, b \in Int :
        /\ u = <<a, b>>
        /\ Within(a, 192, 223) /\ Within(b, 128, 191)
        /\ p = 64 * (a - 192) + (b - 128)
        /\ 128 <= p /\ p < 2048

Three(u, p) ==
    \E a, b, c \in Int :
        /\ u = <<a, b, c>>
        /\ Within(a, 224, 239) /\ Within(b, 128, 191) /\ Within(c, 128, 191)
        /\ p = 4096 * (a - 224) + 64 * (b - 128) + (c - 128)
        /\ 2048 <= p /\ p < 65536

IsFour(u, p, a, b, c, d) ==
    /\ u = <<a, b, c, d>>
    /\ Within(a, 240, 247) /\ Within(b, 128, 191) /\ Within(c, 128, 191)
    /\ Within(d, 128, 191)
    /\ p = 262144 * (a - 240) + 4096 * (b - 128) + 64 * (c - 128) + (d - 128)
    /\ 65536 <= p

Four(u, p) == \E a, b, c, d \in Int : IsFour(u, p, a, b, c, d)

Encodes(u, p) == One(u, p) \/ Two(u, p) \/ Three(u, p) \/ Four(u, p)

LEMMA Utf8Encodes ==
    ASSUME NEW p \in Int, Within(p, 0, 1114111)
    PROVE  Encodes(Utf8(p), p)
  <1>1. CASE p < 128
    <2>1. Utf8(p) = <<p>>
      BY <1>1 DEF Utf8
    <2> QED
      BY SMT, <1>1, <2>1 DEF Encodes, One, Within
  <1>2. CASE ~ p < 128 /\ p < 2048
    <2>1. Utf8(p) = <<192 + p \div 64, 128 + (p % 64)>>
      BY SMT, <1>2 DEF Utf8
    <2>2. /\ p = 64 * (p \div 64) + (p % 64)
          /\ Within(p % 64, 0, 63) /\ Within(p \div 64, 0, 31)
      BY SMT, <1>2 DEF Within
    <2> QED
      BY SMT, <1>2, <2>1, <2>2 DEF Encodes, Two, Within
  <1>3. CASE ~ p < 2048 /\ p < 65536
    <2>1. Utf8(p) = <<224 + p \div 4096, 128 + ((p \div 64) % 64), 128 + (p % 64)>>
      BY SMT, <1>3 DEF Utf8
    <2>2. /\ p = 4096 * (p \div 4096) + 64 * ((p \div 64) % 64) + (p % 64)
          /\ Within(p \div 4096, 0, 15) /\ Within((p \div 64) % 64, 0, 63)
          /\ Within(p % 64, 0, 63)
      BY SMT, <1>3 DEF Within
    <2> QED
      BY SMT, <1>3, <2>1, <2>2 DEF Encodes, Three, Within
  <1>4. CASE ~ p < 65536
    <2>1. Utf8(p) = <<240 + p \div 262144, 128 + ((p \div 4096) % 64),
                      128 + ((p \div 64) % 64), 128 + (p % 64)>>
      BY SMT, <1>4 DEF Utf8
    <2>2. /\ p = 262144 * (p \div 262144) + 4096 * ((p \div 4096) % 64)
                 + 64 * ((p \div 64) % 64) + (p % 64)
          /\ Within(p \div 262144, 0, 7) /\ Within((p \div 4096) % 64, 0, 63)
          /\ Within((p \div 64) % 64, 0, 63) /\ Within(p % 64, 0, 63)
      BY SMT, <1>4 DEF Within
    <2> QED
      BY SMT, <1>4, <2>1, <2>2 DEF Encodes, Four, IsFour, Within
  <1> QED
    BY SMT, <1>1, <1>2, <1>3, <1>4

LEMMA Utf8Type ==
    ASSUME NEW p \in CodePoint
    PROVE  /\ Utf8(p) \in Seq(Int) /\ Len(Utf8(p)) \in 1 .. 4
           /\ Encodes(Utf8(p), p) /\ p \in Int /\ p >= 0
  <1>1. Within(p, 0, 1114111) /\ p \in Int /\ p >= 0 /\ Encodes(Utf8(p), p)
    BY SMT, CodePointBounds, Utf8Encodes DEF Within
  <1>2. Utf8(p) \in Seq(Int)
    <2>1. /\ p \div 64 \in Int /\ p % 64 \in Int /\ p \div 4096 \in Int /\ (p \div 64) % 64 \in Int
          /\ p \div 262144 \in Int /\ (p \div 4096) % 64 \in Int
      BY SMT, <1>1
    <2> QED
      BY SMT, <1>1, <2>1 DEF Utf8
  <1>3. Len(Utf8(p)) \in 1 .. 4
    BY SMT, <1>1 DEF Encodes, One, Two, Three, Four, IsFour
  <1> QED
    BY <1>1, <1>2, <1>3

(* Byte order is code point order.                                         *)
SmallerAt(a, b, j) ==
    /\ j \in 1 .. Len(a) /\ j \in 1 .. Len(b)
    /\ a[j] < b[j]
    /\ \A i \in 1 .. j - 1 : a[i] = b[i]

LEMMA Lead ==
    ASSUME NEW u, NEW p \in Int
    PROVE  /\ One(u, p) => Within(u[1], 0, 127) /\ Within(p, 0, 127) /\ u[1] = p
           /\ Two(u, p) => Within(u[1], 192, 223) /\ Within(p, 128, 2047)
           /\ Three(u, p) => Within(u[1], 224, 239) /\ Within(p, 2048, 65535)
           /\ Four(u, p) => Within(u[1], 240, 247) /\ p >= 65536
  <1>1. ASSUME One(u, p) PROVE Within(u[1], 0, 127) /\ Within(p, 0, 127) /\ u[1] = p
    BY <1>1 DEF One, Within
  <1>2. ASSUME Two(u, p) PROVE Within(u[1], 192, 223) /\ Within(p, 128, 2047)
    BY SMT, <1>2 DEF Two, Within
  <1>3. ASSUME Three(u, p) PROVE Within(u[1], 224, 239) /\ Within(p, 2048, 65535)
    BY SMT, <1>3 DEF Three, Within
  <1>4. ASSUME Four(u, p) PROVE Within(u[1], 240, 247) /\ p >= 65536
    BY SMT, <1>4 DEF Four, IsFour, Within
  <1> QED
    BY SMT, <1>1, <1>2, <1>3, <1>4

LEMMA Utf8Order ==
    ASSUME NEW p \in CodePoint, NEW q \in CodePoint, p < q
    PROVE  \E j \in Nat : SmallerAt(Utf8(p), Utf8(q), j)
  <1> DEFINE u == Utf8(p)
             v == Utf8(q)
  <1>1. /\ u \in Seq(Int) /\ Len(u) \in 1 .. 4 /\ Encodes(u, p)
        /\ v \in Seq(Int) /\ Len(v) \in 1 .. 4 /\ Encodes(v, q)
        /\ p \in Int /\ q \in Int /\ p >= 0 /\ q >= 0
    BY Utf8Type
  <1> HIDE DEF u, v
  <1>2. CASE u[1] < v[1]
    <2>1. SmallerAt(u, v, 1)
      BY <1>1, <1>2 DEF SmallerAt
    <2> QED
      BY <2>1 DEF u, v
  <1>3. CASE Two(u, p) /\ Two(v, q)
    <2>1. PICK a, b \in Int : /\ u = <<a, b>> /\ Within(b, 128, 191)
                              /\ p = 64 * (a - 192) + (b - 128)
      BY SMT, <1>3 DEF Two
    <2>2. PICK c, d \in Int : /\ v = <<c, d>> /\ Within(d, 128, 191)
                              /\ q = 64 * (c - 192) + (d - 128)
      BY SMT, <1>3 DEF Two
    <2>3. a < c \/ (a = c /\ b < d)
      BY SMT, <2>1, <2>2 DEF Within
    <2>4. SmallerAt(u, v, 1) \/ SmallerAt(u, v, 2)
      BY <2>1, <2>2, <2>3 DEF SmallerAt
    <2> QED
      BY <2>4 DEF u, v
  <1>4. CASE Three(u, p) /\ Three(v, q)
    <2>1. PICK a, b, c \in Int : /\ u = <<a, b, c>> /\ Within(b, 128, 191) /\ Within(c, 128, 191)
                                 /\ p = 4096 * (a - 224) + 64 * (b - 128) + (c - 128)
      BY SMT, <1>4 DEF Three
    <2>2. PICK d, e, f \in Int : /\ v = <<d, e, f>> /\ Within(e, 128, 191) /\ Within(f, 128, 191)
                                 /\ q = 4096 * (d - 224) + 64 * (e - 128) + (f - 128)
      BY SMT, <1>4 DEF Three
    <2>3. a < d \/ (a = d /\ b < e) \/ (a = d /\ b = e /\ c < f)
      BY SMT, <2>1, <2>2 DEF Within
    <2>4. SmallerAt(u, v, 1) \/ SmallerAt(u, v, 2) \/ SmallerAt(u, v, 3)
      BY <2>1, <2>2, <2>3 DEF SmallerAt
    <2> QED
      BY <2>4 DEF u, v
  <1>5. CASE Four(u, p) /\ Four(v, q)
    <2>1. PICK a, b, c, d \in Int : IsFour(u, p, a, b, c, d)
      BY <1>5 DEF Four
    <2>2. PICK e, f, g, h \in Int : IsFour(v, q, e, f, g, h)
      BY <1>5 DEF Four
    <2>3. \/ a < e
          \/ a = e /\ b < f
          \/ a = e /\ b = f /\ c < g
          \/ a = e /\ b = f /\ c = g /\ d < h
      BY SMT, <2>1, <2>2 DEF IsFour, Within
    <2>4. u = <<a, b, c, d>> /\ v = <<e, f, g, h>>
      BY <2>1, <2>2 DEF IsFour
    <2>5. SmallerAt(u, v, 1) \/ SmallerAt(u, v, 2) \/ SmallerAt(u, v, 3) \/ SmallerAt(u, v, 4)
      BY <2>3, <2>4 DEF SmallerAt
    <2> QED
      BY <2>5 DEF u, v
  <1>6. CASE One(u, p) /\ One(v, q)
    <2>1. PICK a \in Int : u = <<a>> /\ p = a
      BY <1>6 DEF One
    <2>2. PICK b \in Int : v = <<b>> /\ q = b
      BY <1>6 DEF One
    <2>3. u[1] < v[1]
      BY <2>1, <2>2
    <2> QED
      BY <1>2, <2>3
  <1>7. CASE /\ ~ (One(u, p) /\ One(v, q))
             /\ ~ (Two(u, p) /\ Two(v, q))
             /\ ~ (Three(u, p) /\ Three(v, q))
             /\ ~ (Four(u, p) /\ Four(v, q))
    <2>1. /\ One(u, p) => Within(u[1], 0, 127) /\ Within(p, 0, 127)
          /\ Two(u, p) => Within(u[1], 192, 223) /\ Within(p, 128, 2047)
          /\ Three(u, p) => Within(u[1], 224, 239) /\ Within(p, 2048, 65535)
          /\ Four(u, p) => Within(u[1], 240, 247) /\ p >= 65536
      BY ONLY Lead, <1>1
    <2>2. /\ One(v, q) => Within(v[1], 0, 127) /\ Within(q, 0, 127)
          /\ Two(v, q) => Within(v[1], 192, 223) /\ Within(q, 128, 2047)
          /\ Three(v, q) => Within(v[1], 224, 239) /\ Within(q, 2048, 65535)
          /\ Four(v, q) => Within(v[1], 240, 247) /\ q >= 65536
      BY ONLY Lead, <1>1
    <2>3. Encodes(u, p) /\ Encodes(v, q) /\ p < q /\ p \in Int /\ q \in Int
      BY <1>1
    <2> DEFINE x == u[1]
               y == v[1]
    <2> HIDE DEF x, y
    <2>4. x < y
      BY ONLY SMT, <1>7, <2>1, <2>2, <2>3 DEF Encodes, Within, x, y
    <2> QED
      BY <1>2, <2>4 DEF x, y
  <1> QED
    BY <1>3, <1>4, <1>5, <1>6, <1>7

(* Byte 237 is the lead of U+D000 .. U+DFFF, and the next byte tells the   *)
(* surrogates among them.                                                  *)
LEMMA Utf8Surrogates ==
    ASSUME NEW p \in CodePoint, NEW j \in 1 .. Len(Utf8(p)), Utf8(p)[j] = 237
    PROVE  /\ j + 1 \in 1 .. Len(Utf8(p))
           /\ Utf8(p)[j + 1] < 160 <=> p \notin HighSurrogates \cup LowSurrogates
  <1> DEFINE u == Utf8(p)
  <1>1. Encodes(u, p) /\ p \in Int /\ u[j] = 237 /\ j \in Int /\ 1 <= j /\ j <= Len(u)
    BY Utf8Type
  <1>2. /\ p \in HighSurrogates <=> 55296 <= p /\ p < 56320
        /\ p \in LowSurrogates <=> 56320 <= p /\ p < 57344
    BY <1>1, SurrogateBounds
  <1> HIDE DEF u
  <1>3. j = 1 /\ Len(u) = 3
    BY SMT, <1>1 DEF Encodes, One, Two, Three, Four, IsFour, Within
  <1>4. u[2] < 160 <=> p < 55296
    BY SMT, <1>1, <1>3 DEF Encodes, One, Two, Three, Four, IsFour, Within
  <1>5. p < 57344
    BY SMT, <1>1, <1>3 DEF Encodes, One, Two, Three, Four, IsFour, Within
  <1> QED
    BY SMT, <1>1, <1>2, <1>3, <1>4, <1>5 DEF u

LEMMA Utf8OfSurrogate ==
    ASSUME NEW p \in CodePoint, p \in HighSurrogates \cup LowSurrogates
    PROVE  1 \in 1 .. Len(Utf8(p)) /\ Utf8(p)[1] = 237
  <1>1. Encodes(Utf8(p), p) /\ p \in Int
    BY Utf8Type
  <1>2. 55296 <= p /\ p < 57344
    BY SMT, <1>1, SurrogateBounds
  <1> QED
    BY SMT, <1>1, <1>2 DEF Encodes, One, Two, Three, Four, IsFour, Within

LEMMA Utf16Type ==
    ASSUME NEW p \in CodePoint
    PROVE  /\ Utf16(p) \in Seq(Int)
           /\ \/ Utf16(p) = <<p>>
              \/ /\ p \notin HighSurrogates \cup LowSurrogates
                 /\ Len(Utf16(p)) = 2
                 /\ Utf16(p)[1] \in HighSurrogates
                 /\ Utf16(p)[2] \in LowSurrogates
  <1>1. Within(p, 0, 1114111) /\ p \in Int
    BY SMT, CodePointBounds DEF Within
  <1>2. CASE p < 65536
    BY SMT, <1>1, <1>2 DEF Utf16
  <1>3. CASE ~ p < 65536
    <2> DEFINE h == 55296 + (p - 65536) \div 1024
               l == 56320 + ((p - 65536) % 1024)
    <2>1. Within(h, 55296, 56319) /\ Within(l, 56320, 57343)
      BY SMT, <1>1, <1>3 DEF Within
    <2>2. Utf16(p) = <<h, l>>
      BY SMT, <1>3 DEF Utf16
    <2> HIDE DEF h, l
    <2>3. h \in HighSurrogates /\ l \in LowSurrogates
      BY SMT, <2>1, SurrogateBounds DEF Within
    <2>4. p \notin HighSurrogates \cup LowSurrogates
      BY SMT, <1>1, <1>3, SurrogateBounds
    <2>5. h \in Int /\ l \in Int
      BY <2>1 DEF Within
    <2> QED
      BY SMT, <2>2, <2>3, <2>4, <2>5
  <1> QED
    BY SMT, <1>2, <1>3
-----------------------------------------------------------------------------
(* The lexical order is a strict total order.                              *)
LEMMA PrecedesIs ==
    ASSUME NEW a \in Seq(Int), NEW b \in Seq(Int)
    PROVE  Precedes(a, b) <=> \/ Len(a) < Len(b) /\ Agree(a, b, Len(a))
                              \/ \E j \in Nat : SmallerAt(a, b, j)
  <1>1. IsStrictPrefix(a, b) <=> Len(a) < Len(b) /\ Agree(a, b, Len(a))
    <2>1. ASSUME IsStrictPrefix(a, b) PROVE Len(a) < Len(b) /\ Agree(a, b, Len(a))
      <3>1. Len(a) <= Len(b) /\ SubSeq(a, 1, Len(a)) = SubSeq(b, 1, Len(a)) /\ a # b
        BY <2>1 DEF IsStrictPrefix, IsPrefix
      <3>2. Len(a) # Len(b)
        <4>1. SubSeq(a, 1, Len(a)) = a /\ SubSeq(b, 1, Len(b)) = b
          OBVIOUS
        <4> QED
          BY <3>1, <4>1
      <3>3. \A i \in 1 .. Len(a) : a[i] = b[i]
        <4>1. ASSUME NEW i \in 1 .. Len(a) PROVE a[i] = b[i]
          <5>1. SubSeq(a, 1, Len(a))[i] = a[i] /\ SubSeq(b, 1, Len(a))[i] = b[i]
            BY <3>1
          <5> QED
            BY <3>1, <5>1
        <4> QED
          BY <4>1
      <3> QED
        BY <3>1, <3>2, <3>3 DEF Agree
    <2>2. ASSUME Len(a) < Len(b), Agree(a, b, Len(a)) PROVE IsStrictPrefix(a, b)
      <3>1. SubSeq(a, 1, Len(a)) = SubSeq(b, 1, Len(a))
        BY <2>2 DEF Agree
      <3> QED
        BY <2>2, <3>1 DEF IsStrictPrefix, IsPrefix
    <2> QED
      BY <2>1, <2>2
  <1>2. DOMAIN a = 1 .. Len(a) /\ DOMAIN b = 1 .. Len(b)
    OBVIOUS
  <1>3. ASSUME NEW j \in DOMAIN a \cap DOMAIN b, a[j] < b[j], \A i \in 1 .. j - 1 : a[i] = b[i]
        PROVE  \E i \in Nat : SmallerAt(a, b, i)
    <2>1. SmallerAt(a, b, j) /\ j \in Nat
      BY <1>2, <1>3 DEF SmallerAt
    <2> QED
      BY <2>1
  <1>4. ASSUME NEW j \in Nat, SmallerAt(a, b, j)
        PROVE  /\ j \in DOMAIN a \cap DOMAIN b
               /\ a[j] < b[j] /\ \A i \in 1 .. j - 1 : a[i] = b[i]
    BY <1>2, <1>4 DEF SmallerAt
  <1> QED
    BY <1>1, <1>3, <1>4 DEF Precedes

LEMMA PrecedesIrreflexive ==
    ASSUME NEW a \in Seq(Int)
    PROVE  ~ Precedes(a, a)
  BY PrecedesIs DEF SmallerAt

LEMMA PrecedesTransitive ==
    ASSUME NEW a \in Seq(Int), NEW b \in Seq(Int), NEW c \in Seq(Int),
           Precedes(a, b), Precedes(b, c)
    PROVE  Precedes(a, c)
  <1>1. CASE Len(a) < Len(b) /\ Agree(a, b, Len(a))
    <2>1. CASE Len(b) < Len(c) /\ Agree(b, c, Len(b))
      <3>1. Len(a) < Len(c) /\ Agree(a, c, Len(a))
        BY <1>1, <2>1 DEF Agree
      <3> QED
        BY <3>1, PrecedesIs
    <2>2. ASSUME NEW j \in Nat, SmallerAt(b, c, j) PROVE Precedes(a, c)
      <3>1. CASE j <= Len(a)
        <4>1. SmallerAt(a, c, j)
          BY <1>1, <2>2, <3>1 DEF Agree, SmallerAt
        <4> QED
          BY <4>1, PrecedesIs
      <3>2. CASE j > Len(a)
        <4>1. Len(a) < Len(c) /\ Agree(a, c, Len(a))
          BY <1>1, <2>2, <3>2 DEF Agree, SmallerAt
        <4> QED
          BY <4>1, PrecedesIs
      <3> QED
        BY <3>1, <3>2
    <2> QED
      BY <2>1, <2>2, PrecedesIs
  <1>2. ASSUME NEW i \in Nat, SmallerAt(a, b, i) PROVE Precedes(a, c)
    <2>1. CASE Len(b) < Len(c) /\ Agree(b, c, Len(b))
      <3>1. /\ i \in 1 .. Len(a) /\ i \in 1 .. Len(b) /\ a[i] < b[i]
            /\ \A k \in 1 .. i - 1 : a[k] = b[k]
            /\ \A k \in 1 .. Len(b) : b[k] = c[k]
        BY <1>2, <2>1 DEF Agree, SmallerAt
      <3>2. i \in 1 .. Len(c) /\ \A k \in 1 .. i - 1 : k \in 1 .. Len(b)
        <4>1. Len(b) \in Nat /\ Len(c) \in Nat
          BY LenProperties
        <4>2. Len(b) < Len(c) /\ i \in 1 .. Len(b)
          BY <2>1, <3>1
        <4> DEFINE m == Len(b)
                   n == Len(c)
        <4> HIDE DEF m, n
        <4>3. m \in Nat /\ n \in Nat /\ m < n /\ i \in 1 .. m
          BY <4>1, <4>2 DEF m, n
        <4>4. i \in 1 .. n /\ \A k \in 1 .. i - 1 : k \in 1 .. m
          BY <4>3
        <4> QED
          BY <4>4 DEF m, n
      <3>3. a[i] < c[i] /\ \A k \in 1 .. i - 1 : a[k] = c[k]
        BY <3>1, <3>2
      <3>4. SmallerAt(a, c, i)
        BY <3>1, <3>2, <3>3 DEF SmallerAt
      <3> QED
        BY <3>4, PrecedesIs
    <2>2. ASSUME NEW j \in Nat, SmallerAt(b, c, j) PROVE Precedes(a, c)
      <3>1. CASE i < j
        <4>1. /\ i \in 1 .. Len(a) /\ a[i] < b[i] /\ \A k \in 1 .. i - 1 : a[k] = b[k]
              /\ j \in 1 .. Len(c) /\ \A k \in 1 .. j - 1 : b[k] = c[k]
          BY <1>2, <2>2 DEF SmallerAt
        <4>2. i \in 1 .. j - 1 /\ \A k \in 1 .. i - 1 : k \in 1 .. j - 1
          BY <3>1, <4>1
        <4>3. i \in 1 .. Len(c)
          BY <3>1, <4>1
        <4>4. a[i] < c[i] /\ \A k \in 1 .. i - 1 : a[k] = c[k]
          BY <4>1, <4>2
        <4>5. SmallerAt(a, c, i)
          BY <4>1, <4>3, <4>4 DEF SmallerAt
        <4> QED
          BY <4>5, PrecedesIs
      <3>2. CASE j < i
        <4>1. /\ i \in 1 .. Len(a) /\ \A k \in 1 .. i - 1 : a[k] = b[k]
              /\ j \in 1 .. Len(c) /\ b[j] < c[j] /\ \A k \in 1 .. j - 1 : b[k] = c[k]
          BY <1>2, <2>2 DEF SmallerAt
        <4>2. j \in 1 .. i - 1 /\ \A k \in 1 .. j - 1 : k \in 1 .. i - 1
          BY <3>2, <4>1
        <4>3. j \in 1 .. Len(a)
          BY <3>2, <4>1
        <4>4. a[j] < c[j] /\ \A k \in 1 .. j - 1 : a[k] = c[k]
          BY <4>1, <4>2
        <4>5. SmallerAt(a, c, j)
          BY <4>1, <4>3, <4>4 DEF SmallerAt
        <4> QED
          BY <4>5, PrecedesIs
      <3>3. CASE j = i
        <4>1. j \in 1 .. Len(a) /\ j \in 1 .. Len(b) /\ j \in 1 .. Len(c)
              /\ a[j] < b[j] /\ b[j] < c[j]
          BY <1>2, <2>2, <3>3 DEF SmallerAt
        <4>2. a[j] \in Int /\ b[j] \in Int /\ c[j] \in Int
          BY <4>1
        <4>3. a[j] < c[j]
          BY <4>1, <4>2
        <4>4. SmallerAt(a, c, j)
          BY <1>2, <2>2, <3>3, <4>1, <4>3 DEF SmallerAt
        <4> QED
          BY <4>4, PrecedesIs
      <3> QED
        BY <3>1, <3>2, <3>3
    <2> QED
      BY <2>1, <2>2, PrecedesIs
  <1> QED
    BY <1>1, <1>2, PrecedesIs

LEMMA PrecedesTotal ==
    ASSUME NEW a \in Seq(Int), NEW b \in Seq(Int), a # b
    PROVE  Precedes(a, b) \/ Precedes(b, a)
  <1> DEFINE Differ == {j \in Nat : j \in 1 .. Len(a) /\ j \in 1 .. Len(b) /\ a[j] # b[j]}
  <1>1. CASE Differ # {}
    <2>1. PICK j \in Differ : \A l \in Differ : j <= l
      BY <1>1, Least
    <2>2. a[j] \in Int /\ b[j] \in Int /\ a[j] # b[j]
      BY <2>1
    <2>3. \A i \in 1 .. j - 1 : a[i] = b[i]
      <3>1. ASSUME NEW i \in 1 .. j - 1, a[i] # b[i] PROVE FALSE
        <4>1. i \in Differ
          BY <2>1, <3>1
        <4> QED
          BY <2>1, <4>1
      <3> QED
        BY <3>1
    <2>4. SmallerAt(a, b, j) \/ SmallerAt(b, a, j)
      BY <2>1, <2>2, <2>3 DEF SmallerAt
    <2> QED
      BY <2>1, <2>4, PrecedesIs
  <1>2. CASE Differ = {}
    <2> DEFINE Same == \A i \in 1 .. Len(a) : i \in 1 .. Len(b) => a[i] = b[i]
    <2>1. Same
      <3> SUFFICES ASSUME NEW i \in 1 .. Len(a), i \in 1 .. Len(b), a[i] # b[i] PROVE FALSE
        OBVIOUS
      <3>1. i \in Differ
        OBVIOUS
      <3> QED
        BY <1>2, <3>1
    <2> HIDE DEF Differ
    <2>2. Len(a) = Len(b) => a = b
      BY <2>1, SeqEqual
    <2>3. Len(a) < Len(b) => Agree(a, b, Len(a))
      BY <2>1 DEF Agree
    <2>4. Len(b) < Len(a) => Agree(b, a, Len(b))
      BY <2>1 DEF Agree
    <2>5. Len(a) \in Nat /\ Len(b) \in Nat
      OBVIOUS
    <2> QED
      BY <2>2, <2>3, <2>4, <2>5, PrecedesIs
  <1> QED
    BY <1>1, <1>2

-----------------------------------------------------------------------------
(* Texts as UTF-8: their bytes are ordered as their code points are.       *)
Blocks(s) == [i \in DOMAIN s |-> Utf8(s[i])]

LEMMA BlocksType ==
    ASSUME NEW s \in Seq(CodePoint)
    PROVE  /\ Blocks(s) \in Seq(Seq(Int)) /\ Len(Blocks(s)) = Len(s)
           /\ \A i \in 1 .. Len(s) : Blocks(s)[i] = Utf8(s[i]) /\ s[i] \in CodePoint
  <1>1. \A i \in 1 .. Len(s) : s[i] \in CodePoint /\ Utf8(s[i]) \in Seq(Int)
    BY Utf8Type
  <1> QED
    BY <1>1 DEF Blocks

LEMMA SamePrefix ==
    ASSUME NEW s \in Seq(CodePoint), NEW t \in Seq(CodePoint), NEW n \in Nat,
           n <= Len(s), n <= Len(t), Agree(s, t, n)
    PROVE  First(Blocks(s), n) = First(Blocks(t), n)
  <1> DEFINE c == Blocks(s)
             d == Blocks(t)
  <1>1. /\ c \in Seq(Seq(Int)) /\ Len(c) = Len(s) /\ \A i \in 1 .. Len(s) : c[i] = Utf8(s[i])
        /\ d \in Seq(Seq(Int)) /\ Len(d) = Len(t) /\ \A i \in 1 .. Len(t) : d[i] = Utf8(t[i])
    BY BlocksType
  <1> HIDE DEF c, d
  <1>2. /\ c \in Seq(Seq(Int)) /\ d \in Seq(Seq(Int))
        /\ n <= Len(c) /\ n <= Len(d) /\ \A i \in 1 .. n : c[i] = d[i]
    <2>1. ASSUME NEW i \in 1 .. n PROVE c[i] = d[i]
      <3>1. i \in 1 .. Len(s) /\ i \in 1 .. Len(t) /\ s[i] = t[i]
        BY DEF Agree
      <3> QED
        BY <1>1, <3>1
    <2> QED
      BY <1>1, <2>1
  <1>3. /\ SubSeq(c, 1, n) \in Seq(Seq(Int)) /\ Len(SubSeq(c, 1, n)) = n
        /\ SubSeq(d, 1, n) \in Seq(Seq(Int)) /\ Len(SubSeq(d, 1, n)) = n
        /\ \A i \in 1 .. n : SubSeq(c, 1, n)[i] = c[i] /\ SubSeq(d, 1, n)[i] = d[i]
    BY <1>2, SubSeqIs
  <1>4. SubSeq(c, 1, n) = SubSeq(d, 1, n)
    BY <1>2, <1>3, SeqEqual
  <1> QED
    BY <1>4 DEF First, c, d

LEMMA MoreBlocks ==
    ASSUME NEW c \in Seq(Seq(Int)), NEW d \in Seq(Seq(Int)), NEW n \in Nat,
           n = Len(c), n + 1 \in 1 .. Len(d), First(c, n) = First(d, n), Len(d[n + 1]) > 0
    PROVE  Precedes(FlattenSeq(c), FlattenSeq(d))
  <1> DEFINE a == FlattenSeq(c)
             b == FlattenSeq(d)
             e == First(d, n + 1)
  <1>1. /\ a \in Seq(Int) /\ a = First(d, n)
        /\ b \in Seq(Int) /\ b = First(d, Len(d))
    BY FlattenType
  <1>2. n \in 0 .. Len(d) /\ Len(d) \in n .. Len(d) /\ n + 1 \in 0 .. Len(d)
        /\ Len(d) \in n + 1 .. Len(d) /\ (n + 1) - 1 = n
    OBVIOUS
  <1>3. e = a \o d[n + 1] /\ d[n + 1] \in Seq(Int)
    <2>1. First(d, n + 1) = First(d, (n + 1) - 1) \o d[n + 1]
      BY FirstStep
    <2>2. d[n + 1] \in Seq(Int)
      OBVIOUS
    <2> QED
      BY <1>1, <1>2, <2>1, <2>2
  <1>4. Len(e) <= Len(b)
    <2>1. Len(First(d, n + 1)) <= Len(First(d, Len(d)))
      BY <1>2, FirstExtends
    <2> QED
      BY <1>1, <2>1
  <1>5. \A i \in 1 .. Len(a) : b[i] = a[i]
    <2>1. \A i \in 1 .. Len(First(d, n)) : First(d, Len(d))[i] = First(d, n)[i]
      BY <1>2, FirstExtends
    <2> HIDE DEF a, b
    <2> QED
      BY <1>1, <2>1
  <1> HIDE DEF a, b, e
  <1>6. Len(e) = Len(a) + Len(d[n + 1]) /\ Len(d[n + 1]) \in Nat
    BY <1>1, <1>3, ConcatProperties, LenProperties
  <1>7. Len(a) < Len(b)
    <2>1. Len(a) \in Nat /\ Len(b) \in Nat
      BY <1>1, LenProperties
    <2> QED
      BY <1>4, <1>6, <2>1
  <1> QED
    BY <1>1, <1>5, <1>7, PrecedesIs DEF Agree, a, b

LEMMA SmallerBlock ==
    ASSUME NEW c \in Seq(Seq(Int)), NEW d \in Seq(Seq(Int)),
           NEW k \in 1 .. Len(c), k \in 1 .. Len(d), First(c, k - 1) = First(d, k - 1),
           NEW j \in Nat, SmallerAt(c[k], d[k], j)
    PROVE  Precedes(FlattenSeq(c), FlattenSeq(d))
  <1> DEFINE a == FlattenSeq(c)
             b == FlattenSeq(d)
             m == Start(c, k)
  <1>1. /\ a \in Seq(Int) /\ a = First(c, Len(c))
        /\ b \in Seq(Int) /\ b = First(d, Len(d))
        /\ c[k] \in Seq(Int) /\ d[k] \in Seq(Int)
    BY FlattenType
  <1>2. /\ k - 1 \in 0 .. Len(c) /\ k - 1 \in 0 .. Len(d)
        /\ Len(c) \in k - 1 .. Len(c) /\ Len(d) \in k - 1 .. Len(d)
    OBVIOUS
  <1>3. m = Start(d, k) /\ m = Len(First(c, k - 1)) /\ m \in Nat
    <2>1. First(c, k - 1) \in Seq(Int)
      BY <1>2, FirstType
    <2> QED
      BY <2>1, LenProperties DEF Start
  <1>4. \A i \in 1 .. m : a[i] = b[i]
    <2>1. \A i \in 1 .. Len(First(c, k - 1)) : First(c, Len(c))[i] = First(c, k - 1)[i]
      BY <1>2, FirstExtends
    <2>2. \A i \in 1 .. Len(First(d, k - 1)) : First(d, Len(d))[i] = First(d, k - 1)[i]
      BY <1>2, FirstExtends
    <2>3. First(c, k - 1) = First(d, k - 1)
      OBVIOUS
    <2> HIDE DEF a, b, m
    <2> QED
      BY <1>1, <1>3, <2>1, <2>2, <2>3
  <1>5. ASSUME NEW i \in 1 .. Len(c[k]) PROVE m + i \in 1 .. Len(a) /\ a[m + i] = c[k][i]
    BY Places
  <1>6. ASSUME NEW i \in 1 .. Len(d[k]) PROVE m + i \in 1 .. Len(b) /\ b[m + i] = d[k][i]
    <2>1. Start(d, k) + i \in 1 .. Len(b) /\ b[Start(d, k) + i] = d[k][i]
      BY Places
    <2> QED
      BY <1>3, <2>1
  <1> HIDE DEF a, b, m
  <1>7. SmallerAt(a, b, m + j)
    <2>1. ASSUME NEW i \in 1 .. (m + j) - 1 PROVE a[i] = b[i]
      <3>1. CASE i <= m
        <4>1. i \in 1 .. m
          BY <1>3, <3>1
        <4> QED
          BY <1>4, <4>1
      <3>2. CASE i > m
        <4>1. i - m \in 1 .. j - 1 /\ m + (i - m) = i
          BY <1>3, <3>2
        <4>2. j \in 1 .. Len(c[k]) /\ j \in 1 .. Len(d[k]) /\ c[k][i - m] = d[k][i - m]
          BY <4>1 DEF SmallerAt
        <4>3. i - m \in 1 .. Len(c[k]) /\ i - m \in 1 .. Len(d[k])
          <5> DEFINE x == Len(c[k])
                     y == Len(d[k])
                     z == i - m
          <5>1. x \in Nat /\ y \in Nat
            BY <1>1, LenProperties
          <5>2. z \in 1 .. j - 1 /\ j \in 1 .. x /\ j \in 1 .. y
            BY <4>1, <4>2
          <5> HIDE DEF x, y, z
          <5>3. z \in 1 .. x /\ z \in 1 .. y
            BY <5>1, <5>2
          <5> QED
            BY <5>3 DEF x, y, z
        <4> QED
          BY <1>5, <1>6, <4>1, <4>2, <4>3
      <3> QED
        BY <1>3, <3>1, <3>2
    <2>2. j \in 1 .. Len(c[k]) /\ j \in 1 .. Len(d[k]) /\ c[k][j] < d[k][j]
      BY DEF SmallerAt
    <2>3. m + j \in 1 .. Len(a) /\ m + j \in 1 .. Len(b) /\ a[m + j] < b[m + j]
      BY <1>5, <1>6, <2>2
    <2> QED
      BY <2>1, <2>3 DEF SmallerAt
  <1>8. m + j \in Nat
    BY <1>3
  <1> QED
    BY <1>1, <1>7, <1>8, PrecedesIs DEF a, b

LEMMA CodePointSeq == ASSUME NEW s \in Seq(CodePoint) PROVE s \in Seq(Int)
  <1>1. \A i \in 1 .. Len(s) : s[i] \in Int
    BY Utf8Type
  <1> QED
    BY <1>1

LEMMA EncodingPrecedes ==
    ASSUME NEW s \in Seq(CodePoint), NEW t \in Seq(CodePoint), Precedes(s, t)
    PROVE  Precedes(FlattenSeq(Blocks(s)), FlattenSeq(Blocks(t)))
  <1> DEFINE c == Blocks(s)
             d == Blocks(t)
  <1>1. /\ c \in Seq(Seq(Int)) /\ Len(c) = Len(s)
        /\ d \in Seq(Seq(Int)) /\ Len(d) = Len(t)
    BY BlocksType
  <1>2. /\ \A i \in 1 .. Len(s) : c[i] = Utf8(s[i]) /\ s[i] \in CodePoint
        /\ \A i \in 1 .. Len(t) : d[i] = Utf8(t[i]) /\ t[i] \in CodePoint
    BY BlocksType
  <1> HIDE DEF c, d
  <1>3. CASE Len(s) < Len(t) /\ Agree(s, t, Len(s))
    <2>1. Len(s) \in Nat /\ Len(s) <= Len(t) /\ Len(s) + 1 \in 1 .. Len(t)
      BY <1>3
    <2>2. First(c, Len(s)) = First(d, Len(s))
      BY <1>3, <2>1, SamePrefix DEF c, d
    <2>3. Len(d[Len(s) + 1]) \in 1 .. 4
      BY <1>2, <2>1, Utf8Type
    <2>4. Len(d[Len(s) + 1]) > 0
      <3> DEFINE x == Len(d[Len(s) + 1])
      <3>1. x \in 1 .. 4
        BY <2>3
      <3> HIDE DEF x
      <3>2. x > 0
        BY <3>1
      <3> QED
        BY <3>2 DEF x
    <2> QED
      BY <1>1, <2>1, <2>2, <2>4, MoreBlocks DEF c, d
  <1>4. ASSUME NEW k \in Nat, SmallerAt(s, t, k) PROVE Precedes(FlattenSeq(c), FlattenSeq(d))
    <2>1. /\ k \in 1 .. Len(s) /\ k \in 1 .. Len(t) /\ s[k] < t[k]
          /\ k - 1 \in Nat /\ k - 1 <= Len(s) /\ k - 1 <= Len(t)
          /\ Agree(s, t, k - 1)
      BY <1>4 DEF SmallerAt, Agree
    <2>2. First(c, k - 1) = First(d, k - 1)
      BY <2>1, SamePrefix DEF c, d
    <2>3. PICK j \in Nat : SmallerAt(c[k], d[k], j)
      BY <1>2, <2>1, Utf8Order
    <2> QED
      BY <1>1, <2>1, <2>2, <2>3, SmallerBlock
  <1>5. s \in Seq(Int) /\ t \in Seq(Int)
    BY CodePointSeq
  <1> QED
    BY <1>3, <1>4, <1>5, PrecedesIs DEF c, d

(* Whatever a runtime sorts by, the order is that of the code points.      *)
LEMMA KeyBeforeIs ==
    ASSUME NEW r \in Runtimes, NEW k \in Texts, NEW l \in Texts
    PROVE  KeyBefore(r, k, l) <=> Precedes(CodePoints[k], CodePoints[l])
  <1> DEFINE s == CodePoints[k]
             t == CodePoints[l]
             a == FlattenSeq(Blocks(s))
             b == FlattenSeq(Blocks(t))
  <1>1. s \in Seq(CodePoint) /\ t \in Seq(CodePoint)
    BY TextAssumption
  <1>2. Utf8Bytes(k) = a /\ Utf8Bytes(l) = b
    BY DEF Utf8Bytes, Blocks
  <1>3. a \in Seq(Int) /\ b \in Seq(Int)
    BY <1>1, BlocksType, FlattenType
  <1>4. s \in Seq(Int) /\ t \in Seq(Int)
    BY <1>1, CodePointSeq
  <1>5. Precedes(s, t) => Precedes(a, b)
    BY <1>1, EncodingPrecedes
  <1>6. Precedes(t, s) => Precedes(b, a)
    BY <1>1, EncodingPrecedes
  <1>7. s = t => a = b
    OBVIOUS
  <1> HIDE DEF s, t, a, b
  <1>8. Precedes(a, b) <=> Precedes(s, t)
    BY <1>3, <1>4, <1>5, <1>6, <1>7, PrecedesIrreflexive, PrecedesTransitive, PrecedesTotal
  <1> QED
    BY <1>2, <1>8 DEF KeyBefore, s, t
-----------------------------------------------------------------------------
(* Each runtime finds the surrogates of a text in its own form of it.      *)
Surrogates == HighSurrogates \cup LowSurrogates

NoSurrogates(c) == \A i \in 1 .. Len(c) : c[i] \notin Surrogates

LEMMA SurrogatesAre ==
    ASSUME NEW p \in CodePoint
    PROVE  /\ p \in Surrogates <=> p \in Surrogate1 .. Surrogate3 - 1
           /\ ~ (p \in HighSurrogates /\ p \in LowSurrogates)
  <1>1. p \in Int
    BY Utf8Type
  <1>2. /\ p \in HighSurrogates \cup LowSurrogates <=> p \in Surrogate1 .. Surrogate3 - 1
        /\ ~ (p \in HighSurrogates /\ p \in LowSurrogates)
    BY SMT, <1>1, SurrogateBounds
  <1> QED
    BY <1>2 DEF Surrogates

LEMMA PythonTextIs ==
    ASSUME NEW s \in Texts
    PROVE  /\ PythonText(s) <=> NoSurrogates(CodePoints[s])
           /\ ScalarText(s) <=> NoSurrogates(CodePoints[s])
  <1>1. CodePoints[s] \in Seq(CodePoint)
    BY TextAssumption
  <1>2. DOMAIN CodePoints[s] = 1 .. Len(CodePoints[s])
    BY <1>1
  <1>3. PythonText(s) <=> NoSurrogates(CodePoints[s])
    BY <1>2 DEF PythonText, NoSurrogates, Surrogates, ToSet
  <1> DEFINE I == Surrogate1 .. Surrogate3 - 1
  <1>4. \A i \in 1 .. Len(CodePoints[s]) : CodePoints[s][i] \in Surrogates <=> CodePoints[s][i] \in I
    BY <1>1, SurrogatesAre
  <1>5. ScalarText(s) <=> \A i \in 1 .. Len(CodePoints[s]) : CodePoints[s][i] \notin I
    BY <1>2 DEF ScalarText
  <1> HIDE DEF I
  <1> QED
    BY <1>3, <1>4, <1>5 DEF NoSurrogates

Utf8Valid(b) == \A i \in DOMAIN b : b[i] = 237 => b[i + 1] < 160

LEMMA GoTextIs ==
    ASSUME NEW s \in Texts
    PROVE  GoText(s) <=> NoSurrogates(CodePoints[s])
  <1> DEFINE t == CodePoints[s]
             c == Blocks(t)
             b == FlattenSeq(c)
  <1>1. t \in Seq(CodePoint)
    BY TextAssumption
  <1>2. /\ c \in Seq(Seq(Int)) /\ Len(c) = Len(t)
        /\ \A k \in 1 .. Len(t) : c[k] = Utf8(t[k]) /\ t[k] \in CodePoint
    BY <1>1, BlocksType
  <1>3. b \in Seq(Int)
    BY <1>2, FlattenType
  <1>4. DOMAIN b = 1 .. Len(b)
    BY <1>3
  <1>5. Utf8Bytes(s) = b
    BY DEF Utf8Bytes, Blocks
  <1> HIDE DEF b, c, t
  <1>6. ASSUME NoSurrogates(t), NEW i \in 1 .. Len(b), b[i] = 237 PROVE b[i + 1] < 160
    <2>1. PICK k \in 1 .. Len(c) : \E j \in 1 .. Len(c[k]) : i = Start(c, k) + j
      BY <1>2, PlaceOf DEF b
    <2>2. PICK j \in 1 .. Len(c[k]) : i = Start(c, k) + j
      BY <2>1
    <2>3. Start(c, k) \in Nat /\ b[i] = c[k][j]
      BY <1>2, <2>2, Places DEF b
    <2>4. t[k] \in CodePoint /\ c[k] = Utf8(t[k]) /\ k \in 1 .. Len(t)
      BY <1>2
    <2>5. /\ j + 1 \in 1 .. Len(c[k])
          /\ c[k][j + 1] < 160 <=> t[k] \notin HighSurrogates \cup LowSurrogates
      <3>1. j \in 1 .. Len(Utf8(t[k])) /\ Utf8(t[k])[j] = 237
        BY <1>6, <2>4, <2>2, <2>3
      <3>2. /\ j + 1 \in 1 .. Len(Utf8(t[k]))
            /\ Utf8(t[k])[j + 1] < 160 <=> t[k] \notin HighSurrogates \cup LowSurrogates
        BY <2>4, <3>1, Utf8Surrogates
      <3> QED
        BY <2>4, <3>2
    <2>6. b[Start(c, k) + (j + 1)] = c[k][j + 1]
      BY <1>2, <2>5, Places DEF b
    <2>7. Start(c, k) + (j + 1) = i + 1
      BY <2>2, <2>3
    <2>8. t[k] \notin HighSurrogates \cup LowSurrogates
      BY <1>6, <2>4 DEF NoSurrogates, Surrogates
    <2> QED
      BY <2>5, <2>6, <2>7, <2>8
  <1>7. ASSUME NEW k \in 1 .. Len(t), t[k] \in Surrogates, Utf8Valid(b)
        PROVE  FALSE
    <2>1. 1 \in 1 .. Len(c[k]) /\ c[k][1] = 237
      BY <1>2, <1>7, Utf8OfSurrogate DEF Surrogates
    <2>2. /\ 1 + 1 \in 1 .. Len(c[k])
          /\ ~ c[k][1 + 1] < 160
      BY <1>2, <1>7, <2>1, Utf8Surrogates DEF Surrogates
    <2> DEFINE m == Start(c, k)
    <2>3. k \in 1 .. Len(c)
      BY <1>2
    <2>4. m \in Nat /\ m + 1 \in 1 .. Len(b) /\ b[m + 1] = c[k][1]
      BY <1>2, <2>1, <2>3, Places DEF b
    <2>5. b[m + (1 + 1)] = c[k][1 + 1]
      <3>1. c \in Seq(Seq(Int)) /\ 1 + 1 \in 1 .. Len(c[k])
        BY <1>2, <2>2
      <3> QED
        BY <2>3, <3>1, Places DEF b
    <2> HIDE DEF m
    <2>6. m + (1 + 1) = (m + 1) + 1
      BY <2>4
    <2>7. b[(m + 1) + 1] < 160
      BY <1>4, <1>7, <2>1, <2>4 DEF Utf8Valid
    <2> QED
      BY <2>2, <2>5, <2>6, <2>7
  <1>8. NoSurrogates(t) => Utf8Valid(b)
    BY <1>4, <1>6 DEF Utf8Valid
  <1>9. Utf8Valid(b) => NoSurrogates(t)
    BY <1>7 DEF NoSurrogates
  <1>10. GoText(s) <=> Utf8Valid(b)
    <2>1. Utf8Valid(Utf8Bytes(s)) <=> GoText(s)
      BY DEF GoText, Utf8Valid
    <2> QED
      BY <1>5, <2>1
  <1> QED
    BY <1>8, <1>9, <1>10 DEF t

Units(s) == [i \in DOMAIN s |-> Utf16(s[i])]

LEMMA UnitsType ==
    ASSUME NEW s \in Seq(CodePoint)
    PROVE  /\ Units(s) \in Seq(Seq(Int)) /\ Len(Units(s)) = Len(s)
           /\ \A i \in 1 .. Len(s) : Units(s)[i] = Utf16(s[i]) /\ s[i] \in CodePoint
  <1>1. \A i \in 1 .. Len(s) : s[i] \in CodePoint /\ Utf16(s[i]) \in Seq(Int)
    BY Utf16Type
  <1> QED
    BY <1>1 DEF Units

(* A block is one unit, the code point, or a high and a low surrogate.     *)
Single(u, p) == Len(u) = 1 /\ u[1] = p

Pair(u, p) ==
    /\ p \notin Surrogates
    /\ Len(u) = 2 /\ u[1] \in HighSurrogates /\ u[2] \in LowSurrogates

LEMMA UnitKinds ==
    ASSUME NEW p \in CodePoint
    PROVE  Single(Utf16(p), p) \/ Pair(Utf16(p), p)
  BY Utf16Type DEF Single, Pair, Surrogates

LEMMA KindLength ==
    ASSUME NEW u, NEW p, Single(u, p) \/ Pair(u, p)
    PROVE  1 \in 1 .. Len(u) /\ Len(u) \in 1 .. Len(u)
  BY DEF Single, Pair

LEMMA UnitsDisjoint ==
    ASSUME NEW p \in Int
    PROVE  ~ (p \in HighSurrogates /\ p \in LowSurrogates)
  BY SMT, SurrogateBounds

WellPaired(u) ==
    \A i \in 1 .. Len(u) :
        /\ u[i] \in HighSurrogates => i < Len(u) /\ u[i + 1] \in LowSurrogates
        /\ u[i] \in LowSurrogates => i > 1 /\ u[i - 1] \in HighSurrogates

LEMMA PairsAreWell ==
    ASSUME NEW t \in Seq(CodePoint), NoSurrogates(t)
    PROVE  WellPaired(FlattenSeq(Units(t)))
  <1> DEFINE c == Units(t)
             b == FlattenSeq(c)
  <1>1. /\ c \in Seq(Seq(Int)) /\ Len(c) = Len(t)
        /\ \A k \in 1 .. Len(t) : c[k] = Utf16(t[k]) /\ t[k] \in CodePoint
    BY UnitsType
  <1>2. b \in Seq(Int)
    BY <1>1, FlattenType
  <1> HIDE DEF b, c
  <1>3. ASSUME NEW i \in 1 .. Len(b)
        PROVE  /\ b[i] \in HighSurrogates => i < Len(b) /\ b[i + 1] \in LowSurrogates
               /\ b[i] \in LowSurrogates => i > 1 /\ b[i - 1] \in HighSurrogates
    <2>1. PICK k \in 1 .. Len(c) : \E j \in 1 .. Len(c[k]) : i = Start(c, k) + j
      BY <1>1, PlaceOf DEF b
    <2>2. PICK j \in 1 .. Len(c[k]) : i = Start(c, k) + j
      BY <2>1
    <2> DEFINE m == Start(c, k)
    <2>3. m \in Nat /\ \A l \in 1 .. Len(c[k]) : m + l \in 1 .. Len(b) /\ b[m + l] = c[k][l]
      BY <1>1, <2>2, Places DEF b
    <2>4. i = m + j
      BY <2>2
    <2>5. m \in Nat /\ b[i] = c[k][j] /\ Len(b) \in Nat /\ b[i] \in Int
      BY <1>2, <2>3, <2>4
    <2> HIDE DEF m
    <2>6. CASE Single(c[k], t[k])
      <3>1. j = 1
        BY <2>2, <2>6 DEF Single
      <3>2. b[i] \notin Surrogates
        BY <1>1, <2>5, <2>6, <3>1 DEF Single, NoSurrogates
      <3> QED
        BY <3>2 DEF Surrogates
    <2>7. CASE Pair(c[k], t[k])
      <3>1. 1 \in 1 .. Len(c[k]) /\ 2 \in 1 .. Len(c[k]) /\ (j = 1 \/ j = 2)
        BY <2>7 DEF Pair
      <3>2. /\ m + 1 \in 1 .. Len(b) /\ b[m + 1] \in HighSurrogates
            /\ m + 2 \in 1 .. Len(b) /\ b[m + 2] \in LowSurrogates
        BY <2>3, <2>7, <3>1 DEF Pair
      <3>3. CASE j = 1
        <4>1. i < Len(b) /\ i + 1 = m + 2
          BY <2>5, <2>4, <3>2, <3>3
        <4>2. b[i] \notin LowSurrogates
          BY <2>5, <2>4, <3>2, <3>3, UnitsDisjoint
        <4> QED
          BY <3>2, <4>1, <4>2
      <3>4. CASE j = 2
        <4>1. i > 1 /\ i - 1 = m + 1
          BY <2>5, <2>4, <3>2, <3>4
        <4>2. b[i] \notin HighSurrogates
          BY <2>5, <2>4, <3>2, <3>4, UnitsDisjoint
        <4> QED
          BY <3>2, <4>1, <4>2
      <3> QED
        BY <3>1, <3>3, <3>4
    <2> QED
      BY <1>1, <2>6, <2>7, UnitKinds
  <1> QED
    BY <1>3 DEF WellPaired, b, c

LEMMA WellAreSplit ==
    ASSUME NEW t \in Seq(CodePoint), WellPaired(FlattenSeq(Units(t))), ~ NoSurrogates(t)
    PROVE  \E i \in 2 .. Len(t) : t[i - 1] \in HighSurrogates /\ t[i] \in LowSurrogates
  <1> DEFINE c == Units(t)
             b == FlattenSeq(c)
  <1>1. /\ c \in Seq(Seq(Int)) /\ Len(c) = Len(t)
        /\ \A k \in 1 .. Len(t) : c[k] = Utf16(t[k]) /\ t[k] \in CodePoint
    BY UnitsType
  <1>2. b \in Seq(Int) /\ WellPaired(b)
    BY <1>1, FlattenType
  <1>3. PICK k \in 1 .. Len(t) : t[k] \in Surrogates
    BY DEF NoSurrogates
  <1> HIDE DEF b, c
  <1>4. Single(c[k], t[k])
    BY <1>1, <1>3, UnitKinds DEF Pair
  <1> DEFINE m == Start(c, k)
  <1>5. /\ m \in Nat /\ m + 1 \in 1 .. Len(b) /\ b[m + 1] = t[k]
    <2>1. 1 \in 1 .. Len(c[k]) /\ c[k][1] = t[k]
      BY <1>4 DEF Single
    <2> QED
      BY <1>1, <2>1, Places DEF b
  <1>6. Start(c, 1) = 0 /\ Start(c, k + 1) = m + 1 /\ Start(c, Len(c) + 1) = Len(b)
    <2>1. Start(c, k + 1) = Start(c, k) + Len(c[k])
      BY <1>1, StartStep
    <2>2. Start(c, 1) = 0 /\ Start(c, Len(c) + 1) = Len(b)
      BY <1>1, StartStep DEF b
    <2> QED
      BY <1>4, <2>1, <2>2 DEF Single
  <1>7. CASE t[k] \in HighSurrogates
    <2>1. m + 1 < Len(b) /\ b[(m + 1) + 1] \in LowSurrogates
      BY <1>2, <1>5, <1>7 DEF WellPaired
    <2>2. k # Len(t)
      BY <1>1, <1>2, <1>5, <1>6, <2>1
    <2>3. k + 1 \in 1 .. Len(t) /\ k + 1 \in 2 .. Len(t) /\ (k + 1) - 1 = k
      BY <2>2
    <2>4. 1 \in 1 .. Len(c[k + 1])
      BY <1>1, <2>3, UnitKinds, KindLength
    <2>5. b[Start(c, k + 1) + 1] = c[k + 1][1]
      BY <1>1, <2>3, <2>4, Places DEF b
    <2>6. c[k + 1][1] \in LowSurrogates
      BY <1>6, <2>1, <2>5
    <2>7. ~ Pair(c[k + 1], t[k + 1])
      <3>1. c[k + 1][1] \in Int
        BY <1>1, <2>3, <2>4
      <3> QED
        BY <2>6, <3>1, UnitsDisjoint DEF Pair
    <2>8. t[k + 1] \in LowSurrogates
      BY <1>1, <2>3, <2>6, <2>7, UnitKinds DEF Single
    <2> QED
      BY <1>7, <2>3, <2>8
  <1>8. CASE t[k] \in LowSurrogates
    <2>1. m + 1 > 1 /\ b[(m + 1) - 1] \in HighSurrogates
      BY <1>2, <1>5, <1>8 DEF WellPaired
    <2>2. k # 1
      BY <1>5, <1>6, <2>1
    <2>3. k - 1 \in 1 .. Len(t) /\ k \in 2 .. Len(t) /\ (k - 1) + 1 = k
      BY <2>2
    <2> DEFINE d == c[k - 1]
    <2>4. Start(c, k - 1) \in Nat /\ m = Start(c, k - 1) + Len(d)
      BY <1>1, <2>3, StartStep
    <2>5. Len(d) \in 1 .. Len(d)
      BY <1>1, <2>3, UnitKinds, KindLength
    <2>6. b[Start(c, k - 1) + Len(d)] = d[Len(d)]
      <3>1. c \in Seq(Seq(Int)) /\ k - 1 \in 1 .. Len(c) /\ Len(c[k - 1]) \in 1 .. Len(c[k - 1])
        BY <1>1, <2>3, <2>5
      <3> QED
        BY <3>1, Places DEF b
    <2>7. (m + 1) - 1 = m
      BY <1>5
    <2>8. d[Len(d)] \in HighSurrogates
      BY <2>1, <2>4, <2>6, <2>7
    <2>9. ~ Pair(d, t[k - 1])
      <3>1. d[Len(d)] \in Int
        BY <1>1, <2>3, <2>5
      <3> QED
        BY <2>8, <3>1, UnitsDisjoint DEF Pair
    <2>10. t[k - 1] \in HighSurrogates
      BY <1>1, <2>3, <2>8, <2>9, UnitKinds DEF Single
    <2> QED
      BY <1>8, <2>3, <2>10
  <1> QED
    BY <1>3, <1>7, <1>8 DEF Surrogates

LEMMA NodeTextIs ==
    ASSUME NEW s \in Texts, ~ SplitPair(s)
    PROVE  NodeText(s) <=> NoSurrogates(CodePoints[s])
  <1> DEFINE t == CodePoints[s]
             b == FlattenSeq(Units(t))
  <1>1. t \in Seq(CodePoint)
    BY TextAssumption
  <1>2. Utf16Units(s) = b
    BY DEF Utf16Units, Units
  <1>3. DOMAIN b = 1 .. Len(b)
    BY <1>1, UnitsType, FlattenType, LenProperties
  <1>4. NoSurrogates(t) => WellPaired(b)
    BY <1>1, PairsAreWell
  <1>5. WellPaired(b) => NoSurrogates(t)
    BY <1>1, WellAreSplit DEF SplitPair
  <1>6. NodeText(s) <=> WellPaired(b)
    BY <1>2, <1>3 DEF NodeText, WellPaired
  <1> QED
    BY <1>4, <1>5, <1>6

(* What a runtime calls a valid text, when it can hold the text at all.    *)
LEMMA ValidTextIs ==
    ASSUME NEW r \in Runtimes, NEW s \in Texts, r = "node" => ~ SplitPair(s)
    PROVE  ValidText(r, s) <=> ScalarText(s)
  <1>1. CASE r = "go"
    BY <1>1, GoTextIs, PythonTextIs DEF ValidText
  <1>2. CASE r = "node"
    BY <1>2, NodeTextIs, PythonTextIs DEF ValidText
  <1>3. CASE r # "go" /\ r # "node"
    BY <1>3, PythonTextIs DEF ValidText
  <1> QED
    BY <1>1, <1>2, <1>3
-----------------------------------------------------------------------------
(* One domain.                                                             *)
LEMMA ImageSize ==
    ASSUME NEW n \in Nat, NEW T, NEW f \in [1 .. n -> T], \A t \in T : \E i \in 1 .. n : f[i] = t
    PROVE  /\ IsFiniteSet(T)
           /\ Cardinality(T) = n <=> \A i, j \in 1 .. n : f[i] = f[j] => i = j
  <1>1. f \in Surjection(1 .. n, T)
    BY DEF Surjection
  <1>2. IsFiniteSet(1 .. n) /\ Cardinality(1 .. n) = n
    BY FS_Interval
  <1>3. IsFiniteSet(T) /\ (Cardinality(T) = Cardinality(1 .. n) <=> f \in Injection(1 .. n, T))
    BY ONLY <1>1, <1>2, FS_Surjection
  <1>4. f \in Injection(1 .. n, T) <=> \A i, j \in 1 .. n : f[i] = f[j] => i = j
    BY DEF Injection, IsInjective
  <1> QED
    BY <1>2, <1>3, <1>4

StringKeys(entries) == \A i \in DOMAIN entries : entries[i][1].t = "str"

Distinct(entries) ==
    \A i, j \in DOMAIN entries : Nfc[Key(entries[i])] = Nfc[Key(entries[j])] => i = j

LEMMA MapKeys ==
    ASSUME NEW w \in Maps(Documents)
    PROVE  /\ StringKeys(w.entries) <=> \A e \in ToSet(w.entries) : e[1].t = "str"
           /\ StringKeys(w.entries) =>
                 /\ TextsOf(w) = {Key(w.entries[i]) : i \in DOMAIN w.entries}
                 /\ \A i \in DOMAIN w.entries : Key(w.entries[i]) \in Texts
  <1>1. StringKeys(w.entries) <=> \A e \in ToSet(w.entries) : e[1].t = "str"
    BY DEF StringKeys, ToSet
  <1>2. ASSUME StringKeys(w.entries)
        PROVE  TextsOf(w) = {Key(w.entries[i]) : i \in DOMAIN w.entries}
    <2>1. TextsOf(w) = {Key(e) : e \in {f \in ToSet(w.entries) : f[1].t = "str"}}
      BY MapKinds DEF TextsOf
    <2>2. {f \in ToSet(w.entries) : f[1].t = "str"} = {w.entries[i] : i \in DOMAIN w.entries}
      BY <1>1, <1>2 DEF ToSet
    <2> QED
      BY <2>1, <2>2
  <1>3. ASSUME StringKeys(w.entries), NEW i \in DOMAIN w.entries
        PROVE  Key(w.entries[i]) \in Texts
    <2>1. w.entries[i][1] \in Leaves /\ w.entries[i][1].t = "str"
      BY <1>3, MapKinds DEF StringKeys
    <2> QED
      BY <2>1, LeafKinds DEF Key
  <1> QED
    BY <1>1, <1>2, <1>3

LEMMA DistinctIs ==
    ASSUME NEW w \in Maps(Documents), StringKeys(w.entries)
    PROVE  Cardinality({Nfc[s] : s \in TextsOf(w)}) = Len(w.entries) <=> Distinct(w.entries)
  <1> DEFINE n == Len(w.entries)
             f == [i \in 1 .. n |-> Nfc[Key(w.entries[i])]]
             T == {Nfc[s] : s \in TextsOf(w)}
  <1>1. n \in Nat /\ DOMAIN w.entries = 1 .. n
    BY MapKinds
  <1>2. T = {f[i] : i \in 1 .. n}
    BY <1>1, MapKeys
  <1>3. f \in [1 .. n -> T] /\ \A t \in T : \E i \in 1 .. n : f[i] = t
    BY <1>2
  <1>4. Distinct(w.entries) <=> \A i, j \in 1 .. n : f[i] = f[j] => i = j
    BY <1>1 DEF Distinct
  <1> HIDE DEF n, f, T
  <1>5. Cardinality(T) = n <=> \A i, j \in 1 .. n : f[i] = f[j] => i = j
    BY <1>1, <1>3, ImageSize
  <1> QED
    BY <1>4, <1>5 DEF n, T

(* What Accepts and InPortableDomain ask of one value.                     *)
AcceptsOne(r, w) ==
    CASE w.t = "int"   -> ValidInteger(r, w.n)
      [] w.t = "float" -> FALSE
      [] w.t = "str"   -> ValidText(r, w.s)
      [] w.t = "bytes" -> r = "python-local"
      [] w.t = "map"   -> KeysAccepted(r, w.entries)
      [] OTHER         -> TRUE

PortableOne(w) ==
    /\ w.t \notin {"float", "bytes"}
    /\ w.t = "int" => w.n \in -MaxSafe .. MaxSafe
    /\ \A s \in TextsOf(w) : ScalarText(s)
    /\ w.t = "map" => /\ \A e \in ToSet(w.entries) : e[1].t = "str"
                     /\ Cardinality({Nfc[s] : s \in TextsOf(w)}) = Len(w.entries)

Holdable(r, w) == r = "node" => \A s \in TextsOf(w) : ~ SplitPair(s)

LEMMA KeysAcceptedIs ==
    ASSUME NEW r \in Runtimes, NEW w \in Maps(Documents), Holdable(r, w)
    PROVE  KeysAccepted(r, w.entries) <=>
              /\ StringKeys(w.entries)
              /\ \A s \in TextsOf(w) : ScalarText(s)
              /\ Distinct(w.entries)
  <1>1. KeysAccepted(r, w.entries) <=>
           /\ StringKeys(w.entries)
           /\ \A i \in DOMAIN w.entries : ValidText(r, Key(w.entries[i]))
           /\ Distinct(w.entries)
    BY DEF KeysAccepted, StringKeys, Distinct
  <1>2. ASSUME StringKeys(w.entries)
        PROVE  (\A i \in DOMAIN w.entries : ValidText(r, Key(w.entries[i])))
               <=> \A s \in TextsOf(w) : ScalarText(s)
    <2>1. \A i \in DOMAIN w.entries :
             Key(w.entries[i]) \in Texts /\ Key(w.entries[i]) \in TextsOf(w)
      BY <1>2, MapKeys
    <2>2. \A i \in DOMAIN w.entries :
             ValidText(r, Key(w.entries[i])) <=> ScalarText(Key(w.entries[i]))
      BY <2>1, ValidTextIs DEF Holdable
    <2> QED
      BY <1>2, <2>2, MapKeys
  <1> QED
    BY <1>1, <1>2

LEMMA AcceptsOneIs ==
    ASSUME NEW r \in Portable, NEW w \in Documents, Holdable(r, w)
    PROVE  AcceptsOne(r, w) <=> PortableOne(w)
  <1>1. r \in Runtimes /\ r # "python-local"
    BY DEF Portable
  <1>2. CASE w \in Leaves
    <2>1. CASE w.t = "int" /\ w.n \in Int
      <3>1. ValidInteger(r, w.n) <=> w.n \in -MaxSafe .. MaxSafe
        BY <1>1, <2>1, ConstantAssumption DEF ValidInteger
      <3>2. TextsOf(w) = {}
        BY <2>1 DEF TextsOf
      <3> QED
        BY <2>1, <3>1, <3>2 DEF AcceptsOne, PortableOne
    <2>2. CASE w.t = "str" /\ w.s \in Texts
      <3>1. TextsOf(w) = {w.s}
        BY <2>2 DEF TextsOf
      <3>2. ValidText(r, w.s) <=> ScalarText(w.s)
        BY <1>1, <2>2, <3>1, ValidTextIs DEF Holdable
      <3> QED
        BY <2>2, <3>1, <3>2 DEF AcceptsOne, PortableOne
    <2>3. CASE w.t \in {"null", "float", "bytes"}
      <3>1. TextsOf(w) = {}
        BY <2>3 DEF TextsOf
      <3> QED
        BY <1>1, <2>3, <3>1 DEF AcceptsOne, PortableOne
    <2> QED
      BY <1>2, <2>1, <2>2, <2>3, LeafKinds
  <1>3. CASE w \in Lists(Documents)
    <2>1. w.t \in {"list", "tuple"}
      BY <1>3, ListKinds
    <2>2. TextsOf(w) = {}
      BY <2>1 DEF TextsOf
    <2> QED
      BY <2>1, <2>2 DEF AcceptsOne, PortableOne
  <1>4. CASE w \in Maps(Documents)
    <2>1. w.t = "map"
      BY <1>4, MapKinds
    <2>2. KeysAccepted(r, w.entries) <=>
             /\ \A e \in ToSet(w.entries) : e[1].t = "str"
             /\ \A s \in TextsOf(w) : ScalarText(s)
             /\ Cardinality({Nfc[s] : s \in TextsOf(w)}) = Len(w.entries)
      BY <1>1, <1>4, KeysAcceptedIs, DistinctIs, MapKeys
    <2> QED
      BY <2>1, <2>2 DEF AcceptsOne, PortableOne
  <1> QED
    BY <1>2, <1>3, <1>4, DocumentKinds

(* A document is one of Documents: each edit is checked against the bound, *)
(* and whatever it builds out of a document and the keys and values of the *)
(* configuration stays one (canonical.py:17-63 walks any such value).      *)
LEMMA DocumentsOnly == DocSpec => [](doc \in Documents)
  <1>1. DocInit => doc \in Documents
    <2>1. <<>> \in Seq(Leaves \X Values[MaxSize - 1])
      BY EmptySeq
    <2>2. [t |-> "map", entries |-> <<>>] \in Documents
      <3> DEFINE S == Values[MaxSize - 1]
      <3>1. Values[MaxSize] = Leaves \cup Containers(S)
        BY ConstantAssumption, ValuesDef
      <3>2. <<>> \in Seq(Leaves \X S)
        BY <2>1
      <3> HIDE DEF S
      <3>3. [t |-> "map", entries |-> <<>>] \in Containers(S)
        BY <3>2 DEF Containers
      <3> QED
        BY <3>1, <3>3 DEF Documents
    <2> QED
      BY <2>2 DEF DocInit
  <1>2. DocNext => doc' \in Documents
    BY DEF DocNext, Put, Rename, MoveToEnd, Delete, Nest, Retype, Become
  <1>3. doc \in Documents /\ [DocNext]_doc => (doc \in Documents)'
    BY <1>2
  <1> QED
    BY <1>1, <1>3, PTL DEF DocSpec

(* Whatever the texts, the normalization and the limit of integers are,    *)
(* the Python portable profile, Go and Node reject the same documents, the *)
(* ones outside the documented data domain (canonical.py:22-52,            *)
(* canonical.go:28-128, canonical.mjs:5-40).                               *)
THEOREM OneDomainCorrect == DocSpec => []OneDomain
  <1>1. ASSUME doc \in Documents, NEW r \in Portable, CanHold(r)
        PROVE  Accepts(r, doc) <=> InPortableDomain(doc)
    <2>1. \A w \in Parts[doc] : w \in Documents
      BY <1>1, PartsNest
    <2>2. \A w \in Parts[doc] : Holdable(r, w)
      BY <1>1 DEF CanHold, Holdable
    <2>3. \A w \in Parts[doc] : AcceptsOne(r, w) <=> PortableOne(w)
      BY <2>1, <2>2, AcceptsOneIs
    <2>4. Accepts(r, doc) <=> \A w \in Parts[doc] : AcceptsOne(r, w)
      BY DEF Accepts, AcceptsOne
    <2>5. InPortableDomain(doc) <=> \A w \in Parts[doc] : PortableOne(w)
      BY DEF InPortableDomain, PortableOne
    <2> QED
      BY <2>3, <2>4, <2>5
  <1>2. doc \in Documents => OneDomain
    BY <1>1 DEF OneDomain
  <1> QED
    BY <1>2, DocumentsOnly, PTL
-----------------------------------------------------------------------------
(* Sorting: the rank of a key among the keys of a map is its place.        *)
Before(k, l) == Precedes(CodePoints[k], CodePoints[l])

LEMMA BeforeOrder ==
    /\ \A k \in Texts : ~ Before(k, k)
    /\ \A k, l, m \in Texts : Before(k, l) /\ Before(l, m) => Before(k, m)
    /\ \A k, l \in Texts : k # l => Before(k, l) \/ Before(l, k)
  <1>1. \A k \in Texts : CodePoints[k] \in Seq(Int)
    BY TextAssumption, CodePointSeq
  <1>2. \A k, l \in Texts : k # l => CodePoints[k] # CodePoints[l]
    BY TextAssumption
  <1>3. \A k \in Texts : ~ Before(k, k)
    BY <1>1, PrecedesIrreflexive DEF Before
  <1>4. \A k, l, m \in Texts : Before(k, l) /\ Before(l, m) => Before(k, m)
    BY <1>1, PrecedesTransitive DEF Before
  <1>5. \A k, l \in Texts : k # l => Before(k, l) \/ Before(l, k)
    BY <1>1, <1>2, PrecedesTotal DEF Before
  <1> QED
    BY <1>3, <1>4, <1>5

Smaller(K, k) == {l \in K : Before(l, k)}

Rank(K, k) == 1 + Cardinality(Smaller(K, k))

LEMMA RankType ==
    ASSUME NEW K \in SUBSET Texts, IsFiniteSet(K), NEW k \in K
    PROVE  Rank(K, k) \in 1 .. Cardinality(K)
  <1>1. Smaller(K, k) \subseteq K \ {k}
    BY BeforeOrder DEF Smaller
  <1>2. IsFiniteSet(K \ {k}) /\ Cardinality(K \ {k}) = Cardinality(K) - 1
    BY FS_RemoveElement
  <1>3. IsFiniteSet(Smaller(K, k)) /\ Cardinality(Smaller(K, k)) <= Cardinality(K \ {k})
    BY <1>1, <1>2, FS_Subset
  <1>4. Cardinality(Smaller(K, k)) \in Nat /\ Cardinality(K) \in Nat
    BY <1>3, FS_CardinalityType
  <1> QED
    BY <1>2, <1>3, <1>4 DEF Rank

LEMMA RankGrows ==
    ASSUME NEW K \in SUBSET Texts, IsFiniteSet(K), NEW k \in K, NEW l \in K, Before(k, l)
    PROVE  Rank(K, k) # Rank(K, l)
  <1>1. Smaller(K, k) \subseteq Smaller(K, l)
    BY BeforeOrder DEF Smaller
  <1>2. k \in Smaller(K, l) /\ k \notin Smaller(K, k)
    BY BeforeOrder DEF Smaller
  <1>3. Smaller(K, k) # Smaller(K, l)
    BY <1>2
  <1>4. IsFiniteSet(Smaller(K, k)) /\ IsFiniteSet(Smaller(K, l))
    <2>1. Smaller(K, k) \in SUBSET K /\ Smaller(K, l) \in SUBSET K
      BY DEF Smaller
    <2> QED
      BY <2>1, FS_Subset
  <1>5. Cardinality(Smaller(K, l)) # Cardinality(Smaller(K, k))
    BY <1>1, <1>3, <1>4, FS_Subset
  <1>6. Cardinality(Smaller(K, k)) \in Nat /\ Cardinality(Smaller(K, l)) \in Nat
    BY <1>4, FS_CardinalityType
  <1> QED
    BY <1>5, <1>6 DEF Rank

LEMMA Ranks ==
    ASSUME NEW K \in SUBSET Texts, IsFiniteSet(K)
    PROVE  /\ \A k \in K : Rank(K, k) \in 1 .. Cardinality(K)
           /\ \A k, l \in K : Rank(K, k) = Rank(K, l) => k = l
           /\ \A i \in 1 .. Cardinality(K) : \E k \in K : Rank(K, k) = i
  <1>1. \A k \in K : Rank(K, k) \in 1 .. Cardinality(K)
    BY RankType
  <1>2. \A k, l \in K : Rank(K, k) = Rank(K, l) => k = l
    BY BeforeOrder, RankGrows
  <1> DEFINE n == Cardinality(K)
             f == [k \in K |-> Rank(K, k)]
  <1>3. n \in Nat
    BY FS_CardinalityType
  <1>4. IsFiniteSet(1 .. n) /\ Cardinality(1 .. n) = n
    BY <1>3, FS_Interval
  <1>5. f \in Injection(K, 1 .. n)
    BY <1>1, <1>2 DEF Injection, IsInjective
  <1>6. Cardinality(K) = Cardinality(1 .. n)
    BY <1>4
  <1>7. \A i \in 1 .. n : \E k \in K : f[k] = i
    <2> HIDE DEF f, n
    <2>1. f \in Surjection(K, 1 .. n)
      BY <1>4, <1>5, <1>6, FS_Injection
    <2> QED
      BY <2>1 DEF Surjection
  <1> QED
    BY <1>1, <1>2, <1>7

(* The keys of an accepted map, and its entries by their rank.             *)
KeysOf(entries) == {Nfc[Key(e)] : e \in ToSet(entries)}

LEMMA AcceptedKeys ==
    ASSUME NEW r \in Runtimes, NEW w \in Maps(Documents), KeysAccepted(r, w.entries)
    PROVE  /\ KeysOf(w.entries) \in SUBSET Texts /\ IsFiniteSet(KeysOf(w.entries))
           /\ Len(w.entries) \in Nat /\ DOMAIN w.entries = 1 .. Len(w.entries)
           /\ Cardinality(KeysOf(w.entries)) = Len(w.entries)
           /\ \A e \in ToSet(w.entries) : Nfc[Key(e)] \in KeysOf(w.entries)
           /\ \A e, f \in ToSet(w.entries) : Nfc[Key(e)] = Nfc[Key(f)] => e = f
  <1> DEFINE n == Len(w.entries)
             g == [i \in 1 .. n |-> Nfc[Key(w.entries[i])]]
             K == KeysOf(w.entries)
  <1>1. n \in Nat /\ DOMAIN w.entries = 1 .. n
    BY MapKinds
  <1>2. StringKeys(w.entries) /\ Distinct(w.entries)
    BY DEF KeysAccepted, StringKeys, Distinct
  <1>3. \A i \in 1 .. n : Key(w.entries[i]) \in Texts
    BY <1>1, <1>2, MapKeys
  <1>4. K = {g[i] : i \in 1 .. n}
    BY <1>1 DEF KeysOf, ToSet
  <1>5. K \in SUBSET Texts
    <2>1. \A t \in Texts : Nfc[t] \in Texts
      BY TextAssumption
    <2>2. \A i \in 1 .. n : g[i] \in Texts
      BY <1>3, <2>1
    <2> HIDE DEF g, K
    <2> QED
      BY <1>4, <2>2
  <1>6. g \in [1 .. n -> K] /\ \A t \in K : \E i \in 1 .. n : g[i] = t
    BY <1>4
  <1>7. \A i, j \in 1 .. n : g[i] = g[j] => i = j
    BY <1>1, <1>2 DEF Distinct
  <1>8. \A e \in ToSet(w.entries) : Nfc[Key(e)] \in K
    BY DEF KeysOf
  <1>9. \A e, f \in ToSet(w.entries) : Nfc[Key(e)] = Nfc[Key(f)] => e = f
    BY <1>2 DEF Distinct, ToSet
  <1> HIDE DEF n, g, K
  <1>10. IsFiniteSet(K) /\ Cardinality(K) = n
    BY <1>1, <1>6, <1>7, ImageSize
  <1> QED
    BY <1>1, <1>5, <1>8, <1>9, <1>10 DEF n, K

(* An order of the entries by rank, the only one there is.                 *)
Sorted(entries, es) ==
    /\ DOMAIN es = DOMAIN entries
    /\ \A i \in DOMAIN entries :
          es[i] \in ToSet(entries) /\ Rank(KeysOf(entries), Nfc[Key(es[i])]) = i

LEMMA KeyOrderSorts ==
    ASSUME NEW r \in Runtimes, NEW w \in Maps(Documents), KeysAccepted(r, w.entries)
    PROVE  /\ Sorted(w.entries, KeyOrder(r, w.entries))
           /\ KeyOrder(r, w.entries) = [i \in DOMAIN w.entries |-> KeyOrder(r, w.entries)[i]]
  <1> DEFINE K == KeysOf(w.entries)
             Place(k) == 1 + Cardinality({l \in K : KeyBefore(r, l, k)})
             es == KeyOrder(r, w.entries)
  <1>1. \A k \in K : Place(k) = Rank(K, k)
    <2> SUFFICES ASSUME NEW k \in K PROVE Place(k) = Rank(K, k)
      OBVIOUS
    <2>1. {l \in K : KeyBefore(r, l, k)} = Smaller(K, k)
      BY AcceptedKeys, KeyBeforeIs DEF Smaller, Before
    <2> QED
      BY <2>1 DEF Rank
  <1>2. es = [i \in DOMAIN w.entries |-> CHOOSE e \in ToSet(w.entries) : Place(Nfc[Key(e)]) = i]
    BY DEF KeyOrder, KeysOf
  <1>3. ASSUME NEW i \in DOMAIN w.entries
        PROVE  es[i] \in ToSet(w.entries) /\ Rank(K, Nfc[Key(es[i])]) = i
    <2>1. i \in 1 .. Cardinality(K)
      BY AcceptedKeys
    <2>2. PICK k \in K : Rank(K, k) = i
      BY <2>1, AcceptedKeys, Ranks
    <2>3. \E e \in ToSet(w.entries) : Place(Nfc[Key(e)]) = i
      BY <1>1, <2>2 DEF KeysOf
    <2>4. es[i] = CHOOSE e \in ToSet(w.entries) : Place(Nfc[Key(e)]) = i
      BY <1>2
    <2> HIDE DEF Place, es
    <2>5. es[i] \in ToSet(w.entries) /\ Place(Nfc[Key(es[i])]) = i
      BY <2>3, <2>4
    <2>6. Nfc[Key(es[i])] \in K
      BY <2>5, AcceptedKeys
    <2> QED
      BY <1>1, <2>5, <2>6
  <1>4. DOMAIN es = DOMAIN w.entries /\ es = [i \in DOMAIN w.entries |-> es[i]]
    BY <1>2
  <1> QED
    BY <1>3, <1>4 DEF Sorted

LEMMA SortedUnique ==
    ASSUME NEW r \in Runtimes, NEW v \in Maps(Documents), KeysAccepted(r, v.entries),
           NEW q \in Runtimes, NEW w \in Maps(Documents), KeysAccepted(q, w.entries),
           KeysOf(v.entries) = KeysOf(w.entries)
    PROVE  /\ DOMAIN v.entries = DOMAIN w.entries
           /\ \A i \in DOMAIN v.entries :
                 Nfc[Key(KeyOrder(r, v.entries)[i])] = Nfc[Key(KeyOrder(q, w.entries)[i])]
  <1> DEFINE K == KeysOf(v.entries)
             es == KeyOrder(r, v.entries)
             fs == KeyOrder(q, w.entries)
  <1>1. DOMAIN v.entries = DOMAIN w.entries
    BY AcceptedKeys
  <1>2. Sorted(v.entries, es) /\ Sorted(w.entries, fs)
    BY KeyOrderSorts
  <1> HIDE DEF es, fs
  <1>3. ASSUME NEW i \in DOMAIN v.entries PROVE Nfc[Key(es[i])] = Nfc[Key(fs[i])]
    <2>1. /\ es[i] \in ToSet(v.entries) /\ Rank(K, Nfc[Key(es[i])]) = i
          /\ fs[i] \in ToSet(w.entries) /\ Rank(K, Nfc[Key(fs[i])]) = i
      BY <1>1, <1>2 DEF Sorted
    <2>2. Nfc[Key(es[i])] \in K /\ Nfc[Key(fs[i])] \in K
      BY <2>1, AcceptedKeys
    <2>3. K \in SUBSET Texts /\ IsFiniteSet(K)
      BY AcceptedKeys
    <2> HIDE DEF K
    <2> QED
      BY <2>1, <2>2, <2>3, Ranks
  <1> QED
    BY <1>1, <1>3 DEF es, fs

LEMMA SortedAll ==
    ASSUME NEW r \in Runtimes, NEW w \in Maps(Documents), KeysAccepted(r, w.entries),
           NEW e \in ToSet(w.entries)
    PROVE  \E i \in DOMAIN w.entries : KeyOrder(r, w.entries)[i] = e
  <1> DEFINE K == KeysOf(w.entries)
             es == KeyOrder(r, w.entries)
             k == Nfc[Key(e)]
             i == Rank(K, k)
  <1>1. k \in K /\ K \in SUBSET Texts /\ IsFiniteSet(K) /\ Cardinality(K) = Len(w.entries)
        /\ DOMAIN w.entries = 1 .. Len(w.entries)
    BY AcceptedKeys
  <1>2. i \in DOMAIN w.entries
    BY <1>1, RankType
  <1>3. es[i] \in ToSet(w.entries) /\ Rank(K, Nfc[Key(es[i])]) = i
    BY <1>2, KeyOrderSorts DEF Sorted
  <1>4. Nfc[Key(es[i])] \in K
    BY <1>3, AcceptedKeys
  <1>5. Nfc[Key(es[i])] = k
    <2> HIDE DEF K, k, es
    <2> QED
      BY <1>1, <1>3, <1>4, Ranks
  <1>6. es[i] = e
    BY <1>3, <1>5, AcceptedKeys
  <1> QED
    BY <1>2, <1>6

(* All programs write the entries of a map in one order.                   *)
LEMMA OneOrder ==
    ASSUME NEW r \in Runtimes, NEW q \in Runtimes, NEW w \in Maps(Documents),
           KeysAccepted(r, w.entries), KeysAccepted(q, w.entries)
    PROVE  KeyOrder(r, w.entries) = KeyOrder(q, w.entries)
  <1> DEFINE es == KeyOrder(r, w.entries)
             fs == KeyOrder(q, w.entries)
  <1>1. Sorted(w.entries, es) /\ Sorted(w.entries, fs)
    BY KeyOrderSorts
  <1>2. /\ es = [i \in DOMAIN w.entries |-> es[i]]
        /\ fs = [i \in DOMAIN w.entries |-> fs[i]]
    BY KeyOrderSorts
  <1>3. \A i \in DOMAIN w.entries : Nfc[Key(es[i])] = Nfc[Key(fs[i])]
    BY SortedUnique
  <1> HIDE DEF es, fs
  <1>4. \A i \in DOMAIN w.entries : es[i] = fs[i]
    BY <1>1, <1>3, AcceptedKeys DEF Sorted
  <1> QED
    BY <1>2, <1>4 DEF es, fs
-----------------------------------------------------------------------------
(* The bytes of a value, from the bytes of its children.                   *)
BytesOf(r, f, w) == Written(r, w, [c \in Children(w) |-> f[c]])

LEMMA SortedChildren ==
    ASSUME NEW r \in Runtimes, NEW w \in Maps(Documents), KeysAccepted(r, w.entries),
           NEW i \in DOMAIN KeyOrder(r, w.entries)
    PROVE  /\ KeyOrder(r, w.entries)[i] \in ToSet(w.entries)
           /\ KeyOrder(r, w.entries)[i][2] \in Children(w)
           /\ KeyOrder(r, w.entries)[i][2] \in Documents
  BY KeyOrderSorts, MapKinds DEF Sorted

LEMMA BytesExist ==
    ASSUME NEW r, NEW n \in Nat
    PROVE  \E f : f = [w \in Values[n] |-> BytesOf(r, f, w)]
  <1> DEFINE Bad == {j \in Nat : ~ \E f : f = [w \in Values[j] |-> BytesOf(r, f, w)]}
  <1> SUFFICES ASSUME Bad # {} PROVE FALSE
    OBVIOUS
  <1>1. PICK j \in Bad : \A k \in Bad : j <= k
    BY Least
  <1>2. \E g : \A v \in Values[j] : \A c \in Children(v) : g[c] = BytesOf(r, g, c)
    <2>1. CASE j = 0
      <3>1. \A v \in Values[j] : Children(v) = {}
        BY <2>1, ValuesStep, LeafHasNoChildren
      <3> QED
        BY <3>1
    <2>2. CASE j # 0
      <3>1. j - 1 \in Nat
        BY <2>2
      <3>2. PICK g : g = [v \in Values[j - 1] |-> BytesOf(r, g, v)]
        BY <1>1, <3>1
      <3> DEFINE e == [v \in Values[j - 1] |-> BytesOf(r, g, v)]
      <3>3. \A c \in Values[j - 1] : e[c] = BytesOf(r, g, c)
        OBVIOUS
      <3>4. g = e
        BY <3>2
      <3> HIDE DEF e
      <3> QED
        BY <3>1, <3>3, <3>4, ChildrenBelow
    <2> QED
      BY <2>1, <2>2
  <1>3. PICK g : \A v \in Values[j] : \A c \in Children(v) : g[c] = BytesOf(r, g, c)
    BY <1>2
  <1> DEFINE f == [v \in Values[j] |-> BytesOf(r, g, v)]
  <1>4. \A v \in Values[j] : \A c \in Children(v) : f[c] = g[c]
    <2> SUFFICES ASSUME NEW v \in Values[j], NEW c \in Children(v) PROVE f[c] = g[c]
      OBVIOUS
    <2>1. c \in Values[j]
      BY ChildrenBelow, ValuesGrowTo
    <2> QED
      BY <1>3, <2>1
  <1>5. f = [v \in Values[j] |-> BytesOf(r, g, v)]
    OBVIOUS
  <1> HIDE DEF f
  <1>6. \A v \in Values[j] : BytesOf(r, f, v) = BytesOf(r, g, v)
    <2> SUFFICES ASSUME NEW v \in Values[j] PROVE BytesOf(r, f, v) = BytesOf(r, g, v)
      OBVIOUS
    <2>1. [c \in Children(v) |-> f[c]] = [c \in Children(v) |-> g[c]]
      BY <1>4
    <2> QED
      BY <2>1 DEF BytesOf
  <1>7. f = [v \in Values[j] |-> BytesOf(r, f, v)]
    BY <1>5, <1>6
  <1> QED
    BY <1>1, <1>7

LEMMA BytesDef ==
    ASSUME NEW r, NEW v \in Documents
    PROVE  Bytes(r, v) = Written(r, v, [c \in Children(v) |-> Bytes(r, c)])
  <1> DEFINE Solves(f) == f = [w \in Documents |-> BytesOf(r, f, w)]
             b == CHOOSE f : Solves(f)
  <1>1. \E f : Solves(f)
    BY BytesExist, DocumentsClosed DEF Documents
  <1>2. \A w : Bytes(r, w) = b[w]
    BY DEF Bytes, BytesOf
  <1>3. Solves(b)
    <2> HIDE DEF Solves
    <2> QED
      BY <1>1
  <1> HIDE DEF b
  <1> DEFINE e == [w \in Documents |-> BytesOf(r, b, w)]
  <1>4. e[v] = BytesOf(r, b, v) /\ b = e
    BY <1>3
  <1> HIDE DEF e
  <1>5. [c \in Children(v) |-> Bytes(r, c)] = [c \in Children(v) |-> b[c]]
    BY <1>2
  <1> QED
    BY <1>2, <1>4, <1>5 DEF BytesOf

(* A value is accepted with all that is in it.                             *)
LEMMA AcceptsChild ==
    ASSUME NEW r, NEW v \in Documents, Accepts(r, v)
    PROVE  /\ AcceptsOne(r, v)
           /\ \A c \in Children(v) : c \in Documents /\ Accepts(r, c)
  <1>1. \A w \in Parts[v] : AcceptsOne(r, w)
    BY DEF Accepts, AcceptsOne
  <1>2. ASSUME NEW c \in Children(v) PROVE c \in Documents /\ Accepts(r, c)
    <2>1. c \in Documents /\ Parts[c] \subseteq Parts[v]
      BY DocumentsClosed, PartsNest
    <2> QED
      BY <1>1, <2>1 DEF Accepts, AcceptsOne
  <1> QED
    BY <1>1, <1>2, PartsNest

LEMMA SameBytes ==
    ASSUME NEW r \in Runtimes, NEW q \in Runtimes, NEW n \in Nat, n <= MaxSize,
           NEW v \in Values[n], Accepts(r, v), Accepts(q, v)
    PROVE  Bytes(r, v) = Bytes(q, v)
  <1> DEFINE Bad == {j \in Nat : j <= MaxSize /\ \E w \in Values[j] :
                        Accepts(r, w) /\ Accepts(q, w) /\ Bytes(r, w) # Bytes(q, w)}
  <1> SUFFICES ASSUME Bad # {} PROVE FALSE
    OBVIOUS
  <1>1. PICK j \in Bad : \A k \in Bad : j <= k
    BY Least
  <1>2. PICK w \in Values[j] : Accepts(r, w) /\ Accepts(q, w) /\ Bytes(r, w) # Bytes(q, w)
    BY <1>1
  <1>3. w \in Documents
    BY <1>1, ValuesGrowTo, DocumentsClosed DEF Documents
  <1>4. ASSUME NEW c \in Children(w) PROVE Bytes(r, c) = Bytes(q, c)
    <2>1. j - 1 \in Nat /\ c \in Values[j - 1] /\ j - 1 <= MaxSize
      BY <1>1, ChildrenBelow, DocumentsClosed
    <2>2. j - 1 \notin Bad
      BY <1>1, <2>1
    <2>3. Accepts(r, c) /\ Accepts(q, c)
      BY <1>2, <1>3, AcceptsChild
    <2> QED
      BY <2>1, <2>2, <2>3
  <1>5. [c \in Children(w) |-> Bytes(r, c)] = [c \in Children(w) |-> Bytes(q, c)]
    BY <1>4
  <1>6. ASSUME NEW f PROVE Written(r, w, f) = Written(q, w, f)
    <2>1. CASE w.t # "map"
      BY <2>1 DEF Written
    <2>2. CASE w.t = "map"
      <3>1. w \in Maps(Documents)
        BY <1>3, <2>2, DocumentKinds, LeafKinds, ListKinds
      <3>2. KeysAccepted(r, w.entries) /\ KeysAccepted(q, w.entries)
        BY <1>2, <1>3, <2>2, AcceptsChild DEF AcceptsOne
      <3>3. KeyOrder(r, w.entries) = KeyOrder(q, w.entries)
        BY <3>1, <3>2, OneOrder
      <3> QED
        BY <2>2, <3>2, <3>3 DEF Written
    <2> QED
      BY <2>1, <2>2
  <1> QED
    BY <1>2, <1>3, <1>5, <1>6, BytesDef

(* Whatever the texts of a document, programs that accept it encode it as  *)
(* the same bytes: the orders of code points, of UTF-8 strings and of      *)
(* bytes are one order, and a map has one arrangement in it                *)
(* (canonical.py:52-63, canonical.go:130-147, canonical.mjs:19-55).        *)
THEOREM OneEncodingCorrect == DocSpec => []OneEncoding
  <1>1. doc \in Documents => OneEncoding
    BY SameBytes, DocumentsClosed DEF OneEncoding, Documents
  <1> QED
    BY <1>1, DocumentsOnly, PTL
-----------------------------------------------------------------------------
(* Reading bytes back.  A reader at place p of t finds b there; two        *)
(* encodings are separate when no reader can find both at one place.       *)
At(t, p, b) == \A i \in 1 .. Len(b) : t[p + i] = b[i]

Separate(b, c) == \A t : \A p \in Nat : At(t, p, b) /\ At(t, p, c) => b = c

LEMMA SeparateSymmetric ==
    ASSUME NEW b, NEW c, Separate(b, c)
    PROVE  Separate(c, b)
  BY DEF Separate

Group(open, x, close) == <<open>> \o FlattenSeq(x) \o <<close>>

LEMMA GroupIs ==
    ASSUME NEW T, NEW open \in T, NEW close \in T, NEW x \in Seq(Seq(T))
    PROVE  /\ FlattenSeq(x) \in Seq(T) /\ Len(FlattenSeq(x)) \in Nat
           /\ Group(open, x, close) \in Seq(T)
           /\ Len(Group(open, x, close)) = Len(FlattenSeq(x)) + 2
           /\ Group(open, x, close)[1] = open
           /\ \A i \in 1 .. Len(FlattenSeq(x)) : Group(open, x, close)[1 + i] = FlattenSeq(x)[i]
           /\ Group(open, x, close)[Len(FlattenSeq(x)) + 2] = close
  <1> DEFINE f == FlattenSeq(x)
             n == Len(f)
             g == Group(open, x, close)
  <1>1. f \in Seq(T) /\ n \in Nat
    BY FlattenType, LenProperties
  <1>2. g = (<<open>> \o f) \o <<close>>
    BY DEF Group
  <1> HIDE DEF f, g
  <1>3. <<open>> \o f \in Seq(T) /\ Len(<<open>> \o f) = n + 1 /\ (<<open>> \o f)[1] = open
        /\ \A i \in 1 .. n : (<<open>> \o f)[1 + i] = f[i]
    BY <1>1
  <1> DEFINE h == <<open>> \o f
  <1>4. h \in Seq(T) /\ Len(h) = n + 1 /\ h[1] = open /\ \A i \in 1 .. n : h[1 + i] = f[i]
    BY <1>3
  <1> HIDE DEF h, n
  <1>5. g = h \o <<close>>
    BY <1>2 DEF h
  <1>6. g \in Seq(T) /\ Len(g) = n + 2 /\ g[n + 2] = close /\ \A i \in 1 .. n + 1 : g[i] = h[i]
    BY <1>1, <1>4, <1>5
  <1>7. g[1] = open /\ \A i \in 1 .. n : g[1 + i] = f[i]
    BY <1>1, <1>4, <1>6
  <1> QED
    BY <1>1, <1>6, <1>7 DEF f, g, n

LEMMA AtGroup ==
    ASSUME NEW T, NEW open \in T, NEW close \in T, NEW x \in Seq(Seq(T)),
           NEW t, NEW p \in Nat, At(t, p, Group(open, x, close))
    PROVE  /\ t[p + 1] = open
           /\ \A k \in 1 .. Len(x) : /\ Start(x, k) \in Nat
                                     /\ At(t, p + 1 + Start(x, k), x[k])
           /\ t[p + (Len(FlattenSeq(x)) + 2)] = close
  <1> DEFINE f == FlattenSeq(x)
             n == Len(f)
             g == Group(open, x, close)
  <1>1. /\ n \in Nat /\ Len(g) = n + 2 /\ g[1] = open /\ g[n + 2] = close
        /\ \A i \in 1 .. n : g[1 + i] = f[i]
    BY GroupIs
  <1>2. \A i \in 1 .. n + 2 : t[p + i] = g[i]
    BY <1>1 DEF At
  <1>3. ASSUME NEW k \in 1 .. Len(x)
        PROVE  Start(x, k) \in Nat /\ At(t, p + 1 + Start(x, k), x[k])
    <2>1. Start(x, k) \in Nat
      BY StartStep
    <2> DEFINE m == Start(x, k)
    <2>2. ASSUME NEW j \in 1 .. Len(x[k]) PROVE t[(p + 1 + m) + j] = x[k][j]
      <3>1. m + j \in 1 .. n /\ f[m + j] = x[k][j]
        BY Places
      <3>2. j \in Nat /\ m \in Nat
        BY <2>1
      <3> HIDE DEF m, f, g, n
      <3>3. (p + 1 + m) + j = p + (1 + (m + j)) /\ 1 + (m + j) \in 1 .. n + 2
        BY <1>1, <3>1, <3>2
      <3> QED
        BY <1>1, <1>2, <3>1, <3>3
    <2> QED
      BY <2>1, <2>2 DEF At
  <1> HIDE DEF f, g
  <1>4. t[p + 1] = open /\ t[p + (n + 2)] = close
    BY <1>1, <1>2
  <1> QED
    BY <1>3, <1>4 DEF f

(* No block looks like the end of the group.                               *)
Proper(x, close) == \A i \in 1 .. Len(x) : Len(x[i]) >= 1 /\ x[i][1] # close

LEMMA SameBlocks ==
    ASSUME NEW T, NEW x \in Seq(Seq(T)), NEW y \in Seq(Seq(T)), NEW n \in Nat,
           n <= Len(x), n <= Len(y), Agree(x, y, n)
    PROVE  First(x, n) = First(y, n)
  <1>1. /\ SubSeq(x, 1, n) \in Seq(Seq(T)) /\ Len(SubSeq(x, 1, n)) = n
        /\ SubSeq(y, 1, n) \in Seq(Seq(T)) /\ Len(SubSeq(y, 1, n)) = n
        /\ \A i \in 1 .. n : SubSeq(x, 1, n)[i] = x[i] /\ SubSeq(y, 1, n)[i] = y[i]
    BY SubSeqIs
  <1>2. SubSeq(x, 1, n) = SubSeq(y, 1, n)
    BY <1>1, SeqEqual DEF Agree
  <1> QED
    BY <1>2 DEF First

LEMMA NoShorter ==
    ASSUME NEW T, NEW open \in T, NEW close \in T, NEW x \in Seq(Seq(T)), NEW y \in Seq(Seq(T)),
           NEW t, NEW p \in Nat, At(t, p, Group(open, x, close)), At(t, p, Group(open, y, close)),
           Proper(y, close), Agree(x, y, Len(x))
    PROVE  ~ Len(x) < Len(y)
  <1> SUFFICES ASSUME Len(x) < Len(y) PROVE FALSE
    OBVIOUS
  <1> DEFINE n == Len(x)
             m == Len(FlattenSeq(x))
  <1>1. n \in Nat /\ n + 1 \in 1 .. Len(y) /\ n <= Len(y) /\ (n + 1) - 1 = n /\ m \in Nat
    <2>1. Len(x) \in Nat /\ Len(y) \in Nat
      OBVIOUS
    <2>2. m \in Nat
      BY FlattenType, LenProperties
    <2> HIDE DEF m
    <2> QED
      BY <2>1, <2>2
  <1>2. First(x, n) = First(y, n) /\ FlattenSeq(x) = First(x, n)
    BY <1>1, SameBlocks, FlattenType
  <1>3. Start(y, n + 1) = m
    BY <1>1, <1>2 DEF Start
  <1>4. t[p + (m + 2)] = close
    BY AtGroup
  <1>5. At(t, p + 1 + m, y[n + 1])
    BY <1>1, <1>3, AtGroup
  <1>6. Len(y[n + 1]) >= 1 /\ y[n + 1][1] # close /\ Len(y[n + 1]) \in Nat
    BY <1>1, LenProperties DEF Proper
  <1> HIDE DEF m
  <1>7. t[(p + 1 + m) + 1] = y[n + 1][1]
    BY <1>5, <1>6 DEF At
  <1>8. (p + 1 + m) + 1 = p + (m + 2)
    BY <1>1
  <1> QED
    BY <1>4, <1>6, <1>7, <1>8

LEMMA GroupDecode ==
    ASSUME NEW T, NEW open \in T, NEW close \in T, NEW x \in Seq(Seq(T)), NEW y \in Seq(Seq(T)),
           NEW t, NEW p \in Nat, At(t, p, Group(open, x, close)), At(t, p, Group(open, y, close)),
           Proper(x, close), Proper(y, close),
           \A i \in Nat : i \in 1 .. Len(x) /\ i \in 1 .. Len(y) => Separate(x[i], y[i])
    PROVE  x = y
  <1>1. Len(x) \in Nat /\ Len(y) \in Nat
    OBVIOUS
  <1> DEFINE Bad == {i \in Nat : i \in 1 .. Len(x) /\ i \in 1 .. Len(y) /\ x[i] # y[i]}
  <1>2. Bad = {}
    <2> SUFFICES ASSUME Bad # {} PROVE FALSE
      OBVIOUS
    <2>1. PICK i \in Bad : \A j \in Bad : i <= j
      BY Least
    <2>2. /\ i - 1 \in Nat /\ i - 1 <= Len(x) /\ i - 1 <= Len(y)
          /\ i \in 1 .. Len(x) /\ i \in 1 .. Len(y)
      <3>1. i \in Nat /\ i \in 1 .. Len(x) /\ i \in 1 .. Len(y)
        BY <2>1
      <3> HIDE DEF Bad
      <3> QED
        BY <1>1, <3>1
    <2>3. Agree(x, y, i - 1)
      <3>1. ASSUME NEW j \in 1 .. i - 1, x[j] # y[j] PROVE FALSE
        <4>1. j \in Nat /\ j \in 1 .. Len(x) /\ j \in 1 .. Len(y)
          <5> HIDE DEF Bad
          <5> QED
            BY <1>1, <2>2
        <4>2. j \in Bad
          BY <3>1, <4>1
        <4> QED
          BY <2>1, <2>2, <4>1, <4>2
      <3> QED
        BY <3>1 DEF Agree
    <2>4. Start(x, i) = Start(y, i)
      BY <2>2, <2>3, SameBlocks DEF Start
    <2>5. /\ Start(x, i) \in Nat
          /\ At(t, p + 1 + Start(x, i), x[i]) /\ At(t, p + 1 + Start(x, i), y[i])
      <3>1. Start(x, i) \in Nat /\ At(t, p + 1 + Start(x, i), x[i])
        BY <2>2, AtGroup
      <3>2. At(t, p + 1 + Start(y, i), y[i])
        BY <2>2, AtGroup
      <3> QED
        BY <2>4, <3>1, <3>2
    <2>6. p + 1 + Start(x, i) \in Nat
      <3> DEFINE m == Start(x, i)
      <3>1. m \in Nat
        BY <2>5
      <3> HIDE DEF m, Bad
      <3>2. p + 1 + m \in Nat
        BY <3>1
      <3> QED
        BY <3>2 DEF m
    <2>7. x[i] = y[i]
      BY <2>1, <2>2, <2>5, <2>6 DEF Separate
    <2> QED
      BY <2>1, <2>7
  <1>3. \A i \in 1 .. Len(x) : i \in 1 .. Len(y) => x[i] = y[i]
    <2> SUFFICES ASSUME NEW i \in 1 .. Len(x), i \in 1 .. Len(y), x[i] # y[i] PROVE FALSE
      OBVIOUS
    <2>1. i \in Bad
      OBVIOUS
    <2> QED
      BY <1>2, <2>1
  <1> HIDE DEF Bad
  <1>4. ~ Len(x) < Len(y)
    <2> SUFFICES ASSUME Len(x) < Len(y) PROVE FALSE
      OBVIOUS
    <2>1. Agree(x, y, Len(x))
      BY <1>1, <1>3 DEF Agree
    <2> QED
      BY <2>1, NoShorter
  <1>5. ~ Len(y) < Len(x)
    <2> SUFFICES ASSUME Len(y) < Len(x) PROVE FALSE
      OBVIOUS
    <2>1. Agree(y, x, Len(y))
      BY <1>1, <1>3 DEF Agree
    <2> QED
      BY <2>1, NoShorter
  <1>6. Len(x) = Len(y)
    BY <1>1, <1>4, <1>5
  <1> QED
    BY <1>3, <1>6, SeqEqual
-----------------------------------------------------------------------------
(* The three shapes of a value's bytes, each with its meaning: one token,  *)
(* a list, a map whose keys stand in the order of their ranks.             *)
Tokens ==
    {<<"null">>, <<"[">>, <<"]">>, <<"{">>, <<"}">>}
    \cup {<<"number", n>> : n \in Int} \cup {<<"text", s>> : s \in Texts}

IsAtom(b, m) ==
    \/ b = <<<<"null">>>> /\ m = <<"null">>
    \/ \E n \in Int : b = <<<<"number", n>>>> /\ m = <<"int", n>>
    \/ \E s \in Texts : b = <<<<"text", s>>>> /\ m = <<"str", s>>

IsList(b, m, x, ms) ==
    /\ x \in Seq(Seq(Tokens)) /\ Proper(x, <<"]">>)
    /\ b = Group(<<"[">>, x, <<"]">>)
    /\ ms = [i \in 1 .. Len(x) |-> ms[i]]
    /\ m = <<"list", ms>>

KeySet(ks, n) == {ks[i] : i \in 1 .. n}

Ranked(ks, n) == \A i \in 1 .. n : ks[i] \in Texts /\ Rank(KeySet(ks, n), ks[i]) = i

Member(s, b) == <<<<"text", s>>>> \o b

Members(ks, x) == [i \in 1 .. Len(x) |-> Member(ks[i], x[i])]

IsMap(b, m, ks, x, ms) ==
    /\ x \in Seq(Seq(Tokens)) /\ Ranked(ks, Len(x))
    /\ b = Group(<<"{">>, Members(ks, x), <<"}">>)
    /\ m = <<"map", {<<ks[i], ms[i]>> : i \in 1 .. Len(x)}>>

(* Bytes and meanings go together.                                         *)
Matches(b, m, c, k) == Separate(b, c) /\ (b = c <=> m = k)

LEMMA MatchesSymmetric ==
    ASSUME NEW b, NEW m, NEW c, NEW k, Matches(b, m, c, k)
    PROVE  Matches(c, k, b, m)
  BY SeparateSymmetric DEF Matches

LEMMA AtSelf == ASSUME NEW b PROVE At(b, 0, b)
  BY DEF At

LEMMA ListMatches ==
    ASSUME NEW b, NEW m, NEW x, NEW ms, IsList(b, m, x, ms),
           NEW c, NEW k, NEW y, NEW ns, IsList(c, k, y, ns),
           \A i \in Nat : i \in 1 .. Len(x) /\ i \in 1 .. Len(y) =>
              Matches(x[i], ms[i], y[i], ns[i])
    PROVE  Matches(b, m, c, k)
  <1>1. <<"[">> \in Tokens /\ <<"]">> \in Tokens
    BY DEF Tokens
  <1>2. ASSUME NEW t, NEW p \in Nat, At(t, p, b), At(t, p, c) PROVE x = y
    <2>1. \A i \in Nat : i \in 1 .. Len(x) /\ i \in 1 .. Len(y) => Separate(x[i], y[i])
      BY DEF Matches
    <2> QED
      BY <1>1, <1>2, <2>1, GroupDecode DEF IsList
  <1>3. x = y => b = c
    BY DEF IsList
  <1>4. Separate(b, c)
    BY <1>2, <1>3 DEF Separate
  <1>5. ASSUME b = c PROVE m = k
    <2>1. x = y
      BY <1>2, <1>5, AtSelf
    <2>2. Len(x) \in Nat
      BY DEF IsList
    <2>3. \A i \in 1 .. Len(x) : ms[i] = ns[i]
      BY <2>1, <2>2 DEF Matches
    <2>4. [i \in 1 .. Len(x) |-> ms[i]] = [i \in 1 .. Len(y) |-> ns[i]]
      BY <2>1, <2>3
    <2> QED
      BY <2>4 DEF IsList
  <1>6. ASSUME m = k PROVE b = c
    <2>1. ms = ns
      BY <1>6 DEF IsList
    <2>2. /\ x \in Seq(Seq(Tokens)) /\ y \in Seq(Seq(Tokens))
          /\ DOMAIN ms = 1 .. Len(x) /\ DOMAIN ns = 1 .. Len(y)
      BY DEF IsList
    <2>3. Len(x) \in Nat /\ Len(y) \in Nat /\ 1 .. Len(x) = 1 .. Len(y)
      BY <2>1, <2>2
    <2>4. Len(x) = Len(y)
      BY <2>3
    <2>5. \A i \in 1 .. Len(x) : x[i] = y[i]
      BY <2>1, <2>4 DEF Matches
    <2>6. x = y
      BY <2>2, <2>4, <2>5, SeqEqual
    <2> QED
      BY <1>3, <2>6
  <1> QED
    BY <1>4, <1>5, <1>6 DEF Matches

LEMMA Prefixed ==
    ASSUME NEW T, NEW a \in T, NEW z \in Seq(T)
    PROVE  /\ <<a>> \o z \in Seq(T) /\ Len(<<a>> \o z) = Len(z) + 1 /\ Len(z) \in Nat
           /\ (<<a>> \o z)[1] = a /\ \A i \in 1 .. Len(z) : (<<a>> \o z)[1 + i] = z[i]
  OBVIOUS

LEMMA MemberIs ==
    ASSUME NEW s \in Texts, NEW x \in Seq(Tokens)
    PROVE  /\ Member(s, x) \in Seq(Tokens) /\ Len(Member(s, x)) = Len(x) + 1 /\ Len(x) \in Nat
           /\ Member(s, x)[1] = <<"text", s>> /\ \A i \in 1 .. Len(x) : Member(s, x)[1 + i] = x[i]
  <1> DEFINE a == <<"text", s>>
             T == Tokens
             g == Member(s, x)
  <1>1. a \in T /\ x \in Seq(T) /\ g = <<a>> \o x
    BY DEF Member, Tokens
  <1> HIDE DEF a, T, g
  <1>2. /\ g \in Seq(T) /\ Len(g) = Len(x) + 1 /\ Len(x) \in Nat
        /\ g[1] = a /\ \A i \in 1 .. Len(x) : g[1 + i] = x[i]
    BY <1>1, Prefixed
  <1> QED
    BY <1>2 DEF a, T, g

LEMMA MemberSeparate ==
    ASSUME NEW s \in Texts, NEW x \in Seq(Tokens), NEW l \in Texts, NEW y \in Seq(Tokens),
           Separate(x, y)
    PROVE  /\ Separate(Member(s, x), Member(l, y))
           /\ Member(s, x) = Member(l, y) => s = l /\ x = y
  <1>1. ASSUME NEW a \in Texts, NEW z \in Seq(Tokens)
        PROVE  /\ Len(Member(a, z)) = Len(z) + 1 /\ Len(z) \in Nat /\ Member(a, z)[1] = <<"text", a>>
               /\ \A i \in 1 .. Len(z) : Member(a, z)[1 + i] = z[i]
    BY MemberIs
  <1>2. ASSUME NEW t, NEW p \in Nat, At(t, p, Member(s, x)), At(t, p, Member(l, y))
        PROVE  s = l /\ x = y
    <2>1. t[p + 1] = <<"text", s>> /\ t[p + 1] = <<"text", l>>
      <3>1. 1 \in 1 .. Len(Member(s, x)) /\ 1 \in 1 .. Len(Member(l, y))
        BY <1>1
      <3> QED
        BY <1>1, <1>2, <3>1 DEF At
    <2>2. \A i \in 1 .. Len(x) : t[(p + 1) + i] = x[i]
      <3> SUFFICES ASSUME NEW i \in 1 .. Len(x) PROVE t[(p + 1) + i] = x[i]
        OBVIOUS
      <3>1. 1 + i \in 1 .. Len(Member(s, x)) /\ Member(s, x)[1 + i] = x[i]
        BY <1>1
      <3>2. (p + 1) + i = p + (1 + i)
        BY <1>1
      <3> QED
        BY <1>2, <3>1, <3>2 DEF At
    <2>3. \A i \in 1 .. Len(y) : t[(p + 1) + i] = y[i]
      <3> SUFFICES ASSUME NEW i \in 1 .. Len(y) PROVE t[(p + 1) + i] = y[i]
        OBVIOUS
      <3>1. 1 + i \in 1 .. Len(Member(l, y)) /\ Member(l, y)[1 + i] = y[i]
        BY <1>1
      <3>2. (p + 1) + i = p + (1 + i)
        BY <1>1
      <3> QED
        BY <1>2, <3>1, <3>2 DEF At
    <2>4. At(t, p + 1, x) /\ At(t, p + 1, y) /\ p + 1 \in Nat
      BY <2>2, <2>3 DEF At
    <2> QED
      BY <2>1, <2>4 DEF Separate
  <1>3. Separate(Member(s, x), Member(l, y))
    BY <1>2 DEF Separate
  <1>4. Member(s, x) = Member(l, y) => s = l /\ x = y
    BY <1>2, AtSelf
  <1> QED
    BY <1>3, <1>4

LEMMA MembersType ==
    ASSUME NEW x \in Seq(Seq(Tokens)), NEW ks, \A i \in 1 .. Len(x) : ks[i] \in Texts
    PROVE  /\ Members(ks, x) \in Seq(Seq(Tokens)) /\ Len(Members(ks, x)) = Len(x)
           /\ Proper(Members(ks, x), <<"}">>)
           /\ \A i \in 1 .. Len(x) : Members(ks, x)[i] = Member(ks[i], x[i])
  <1>1. ASSUME NEW i \in 1 .. Len(x)
        PROVE  /\ Member(ks[i], x[i]) \in Seq(Tokens) /\ Len(Member(ks[i], x[i])) >= 1
               /\ Member(ks[i], x[i])[1] # <<"}">>
    <2>1. x[i] \in Seq(Tokens)
      <3> DEFINE S == Seq(Tokens)
      <3> HIDE DEF S
      <3>1. x \in Seq(S)
        BY DEF S
      <3>2. x[i] \in S
        BY <3>1
      <3> QED
        BY <3>2 DEF S
    <2> DEFINE g == Member(ks[i], x[i])
               z == x[i]
    <2>2. g \in Seq(Tokens) /\ Len(g) = Len(z) + 1 /\ Len(z) \in Nat /\ g[1] = <<"text", ks[i]>>
      BY <2>1, MemberIs
    <2> HIDE DEF g, z
    <2>3. <<"text", ks[i]>> # <<"}">>
      OBVIOUS
    <2>4. g \in Seq(Tokens) /\ Len(g) >= 1 /\ g[1] # <<"}">>
      BY <2>2, <2>3
    <2> QED
      BY <2>4 DEF g
  <1> DEFINE e == Members(ks, x)
  <1>2. e = [i \in 1 .. Len(x) |-> Member(ks[i], x[i])] /\ Len(x) \in Nat
    BY DEF Members
  <1> HIDE DEF e
  <1>3. e \in Seq(Seq(Tokens)) /\ Len(e) = Len(x) /\ \A i \in 1 .. Len(x) : e[i] = Member(ks[i], x[i])
    <2> DEFINE S == Seq(Tokens)
    <2>1. \A i \in 1 .. Len(x) : Member(ks[i], x[i]) \in S
      BY <1>1
    <2> HIDE DEF S
    <2>2. e \in Seq(S) /\ Len(e) = Len(x) /\ \A i \in 1 .. Len(x) : e[i] = Member(ks[i], x[i])
      BY <1>2, <2>1
    <2> QED
      BY <2>2 DEF S
  <1>4. Proper(e, <<"}">>)
    BY <1>1, <1>3 DEF Proper
  <1> QED
    BY <1>3, <1>4 DEF e

LEMMA RankedKeys ==
    ASSUME NEW n \in Nat, NEW ks, Ranked(ks, n)
    PROVE  /\ KeySet(ks, n) \in SUBSET Texts /\ IsFiniteSet(KeySet(ks, n))
           /\ Cardinality(KeySet(ks, n)) = n
           /\ \A i, j \in 1 .. n : ks[i] = ks[j] => i = j
  <1> DEFINE K == KeySet(ks, n)
             f == [i \in 1 .. n |-> ks[i]]
  <1>1. K \in SUBSET Texts
    BY DEF KeySet, Ranked
  <1>2. \A i, j \in 1 .. n : ks[i] = ks[j] => i = j
    BY DEF Ranked
  <1>3. f \in [1 .. n -> K] /\ \A t \in K : \E i \in 1 .. n : f[i] = t
    BY DEF KeySet
  <1>4. \A i, j \in 1 .. n : f[i] = f[j] => i = j
    BY <1>2
  <1> HIDE DEF f, K
  <1>5. IsFiniteSet(K) /\ Cardinality(K) = n
    BY <1>3, <1>4, ImageSize
  <1> QED
    BY <1>1, <1>2, <1>5 DEF K

LEMMA MapMatches ==
    ASSUME NEW b, NEW m, NEW ks, NEW x, NEW ms, IsMap(b, m, ks, x, ms),
           NEW c, NEW k, NEW ls, NEW y, NEW ns, IsMap(c, k, ls, y, ns),
           \A i \in Nat : i \in 1 .. Len(x) /\ i \in 1 .. Len(y) =>
              Matches(x[i], ms[i], y[i], ns[i])
    PROVE  Matches(b, m, c, k)
  <1> DEFINE u == Members(ks, x)
             v == Members(ls, y)
  <1>1. <<"{">> \in Tokens /\ <<"}">> \in Tokens
    BY DEF Tokens
  <1>2. /\ x \in Seq(Seq(Tokens)) /\ Len(x) \in Nat /\ \A i \in 1 .. Len(x) : x[i] \in Seq(Tokens)
        /\ y \in Seq(Seq(Tokens)) /\ Len(y) \in Nat /\ \A i \in 1 .. Len(y) : y[i] \in Seq(Tokens)
    <2> DEFINE S == Seq(Tokens)
    <2>1. x \in Seq(S) /\ y \in Seq(S)
      BY DEF IsMap
    <2> HIDE DEF S
    <2>2. /\ Len(x) \in Nat /\ \A i \in 1 .. Len(x) : x[i] \in S
          /\ Len(y) \in Nat /\ \A i \in 1 .. Len(y) : y[i] \in S
      BY <2>1
    <2> QED
      BY <2>1, <2>2 DEF S
  <1>3. /\ Ranked(ks, Len(x)) /\ Ranked(ls, Len(y))
        /\ \A i \in 1 .. Len(x) : ks[i] \in Texts
        /\ \A i \in 1 .. Len(y) : ls[i] \in Texts
    BY DEF IsMap, Ranked
  <1>4. /\ u \in Seq(Seq(Tokens)) /\ Len(u) = Len(x) /\ Proper(u, <<"}">>)
        /\ \A i \in 1 .. Len(x) : u[i] = Member(ks[i], x[i])
    BY <1>2, <1>3, MembersType
  <1>5. /\ v \in Seq(Seq(Tokens)) /\ Len(v) = Len(y) /\ Proper(v, <<"}">>)
        /\ \A i \in 1 .. Len(y) : v[i] = Member(ls[i], y[i])
    BY <1>2, <1>3, MembersType
  <1>6. b = Group(<<"{">>, u, <<"}">>) /\ c = Group(<<"{">>, v, <<"}">>)
    BY DEF IsMap
  <1>7. /\ m = <<"map", {<<ks[i], ms[i]>> : i \in 1 .. Len(x)}>>
        /\ k = <<"map", {<<ls[i], ns[i]>> : i \in 1 .. Len(y)}>>
    BY DEF IsMap
  <1> HIDE DEF u, v
  <1>8. ASSUME NEW i \in 1 .. Len(x), i \in 1 .. Len(y)
        PROVE  Separate(u[i], v[i]) /\ (u[i] = v[i] => ks[i] = ls[i] /\ x[i] = y[i])
    <2>1. Separate(x[i], y[i])
      BY <1>2, <1>8 DEF Matches
    <2>2. /\ ks[i] \in Texts /\ x[i] \in Seq(Tokens) /\ u[i] = Member(ks[i], x[i])
          /\ ls[i] \in Texts /\ y[i] \in Seq(Tokens) /\ v[i] = Member(ls[i], y[i])
      BY <1>2, <1>3, <1>4, <1>5, <1>8
    <2> QED
      BY <2>1, <2>2, MemberSeparate
  <1>9. ASSUME NEW t, NEW p \in Nat, At(t, p, b), At(t, p, c) PROVE u = v
    <2>1. \A i \in Nat : i \in 1 .. Len(u) /\ i \in 1 .. Len(v) => Separate(u[i], v[i])
      BY <1>4, <1>5, <1>8
    <2>2. At(t, p, Group(<<"{">>, u, <<"}">>)) /\ At(t, p, Group(<<"{">>, v, <<"}">>))
      BY <1>6, <1>9
    <2>3. u \in Seq(Seq(Tokens)) /\ v \in Seq(Seq(Tokens)) /\ Proper(u, <<"}">>) /\ Proper(v, <<"}">>)
      BY <1>4, <1>5
    <2> DEFINE open == <<"{">>
               close == <<"}">>
               T == Tokens
    <2>4. /\ open \in T /\ close \in T /\ u \in Seq(Seq(T)) /\ v \in Seq(Seq(T))
          /\ At(t, p, Group(open, u, close)) /\ At(t, p, Group(open, v, close))
          /\ Proper(u, close) /\ Proper(v, close)
      BY <1>1, <2>2, <2>3
    <2> HIDE DEF open, close, T
    <2> QED
      BY <2>1, <2>4, GroupDecode
  <1>10. Separate(b, c)
    BY <1>6, <1>9 DEF Separate
  <1>11. ASSUME b = c PROVE m = k
    <2>1. u = v
      BY <1>9, <1>11, AtSelf
    <2>2. Len(x) = Len(y)
      BY <1>4, <1>5, <2>1
    <2>3. \A i \in 1 .. Len(x) : ks[i] = ls[i] /\ x[i] = y[i]
      BY <1>8, <2>1, <2>2
    <2>4. \A i \in 1 .. Len(x) : ms[i] = ns[i]
      BY <1>2, <2>2, <2>3 DEF Matches
    <2> QED
      BY <1>7, <2>2, <2>3, <2>4
  <1>12. ASSUME m = k PROVE b = c
    <2>1. {<<ks[i], ms[i]>> : i \in 1 .. Len(x)} = {<<ls[i], ns[i]>> : i \in 1 .. Len(y)}
      BY <1>7, <1>12
    <2>2. KeySet(ks, Len(x)) = KeySet(ls, Len(y))
      <3>1. ASSUME NEW i \in 1 .. Len(x) PROVE ks[i] \in KeySet(ls, Len(y))
        <4>1. PICK j \in 1 .. Len(y) : <<ks[i], ms[i]>> = <<ls[j], ns[j]>>
          BY <2>1
        <4> QED
          BY <4>1 DEF KeySet
      <3>2. ASSUME NEW i \in 1 .. Len(y) PROVE ls[i] \in KeySet(ks, Len(x))
        <4>1. PICK j \in 1 .. Len(x) : <<ls[i], ns[i]>> = <<ks[j], ms[j]>>
          BY <2>1
        <4> QED
          BY <4>1 DEF KeySet
      <3> QED
        BY <3>1, <3>2 DEF KeySet
    <2> DEFINE K == KeySet(ks, Len(x))
    <2>3. K \in SUBSET Texts /\ IsFiniteSet(K) /\ Len(x) = Len(y)
      BY <1>2, <1>3, <2>2, RankedKeys
    <2>4. ASSUME NEW i \in 1 .. Len(x) PROVE ks[i] = ls[i]
      <3>1. ks[i] \in K /\ Rank(K, ks[i]) = i
        BY <1>3 DEF Ranked, KeySet
      <3>2. ls[i] \in K /\ Rank(K, ls[i]) = i
        BY <1>3, <2>2, <2>3 DEF Ranked, KeySet
      <3> HIDE DEF K
      <3> QED
        BY <2>3, <3>1, <3>2, Ranks
    <2>5. ASSUME NEW i \in 1 .. Len(x) PROVE x[i] = y[i]
      <3>1. PICK j \in 1 .. Len(y) : <<ks[i], ms[i]>> = <<ls[j], ns[j]>>
        BY <2>1
      <3>2. ls[j] = ls[i] /\ i \in 1 .. Len(y)
        BY <2>3, <2>4, <3>1
      <3>3. j = i
        BY <1>2, <1>3, <3>2, RankedKeys
      <3>4. ms[i] = ns[i]
        BY <3>1, <3>3
      <3> QED
        BY <1>2, <2>3, <3>4 DEF Matches
    <2>6. \A i \in 1 .. Len(x) : u[i] = v[i]
      BY <1>4, <1>5, <2>3, <2>4, <2>5
    <2>7. u = v
      BY <1>4, <1>5, <2>3, <2>6, SeqEqual
    <2> QED
      BY <1>6, <2>7
  <1> QED
    BY <1>10, <1>11, <1>12 DEF Matches

(* Values of two shapes differ in the first token.                         *)
LEMMA Differ ==
    ASSUME NEW b, NEW m, NEW c, NEW k, 1 \in 1 .. Len(b), 1 \in 1 .. Len(c),
           b[1] # c[1], m[1] # k[1]
    PROVE  Matches(b, m, c, k)
  BY DEF Matches, Separate, At

Leads(b, m) ==
    \/ b[1] = <<"null">> /\ m[1] = "null"
    \/ (\E n : b[1] = <<"number", n>>) /\ m[1] = "int"
    \/ (\E s : b[1] = <<"text", s>>) /\ m[1] = "str"

LEMMA AtomLeads ==
    ASSUME NEW b, NEW m, IsAtom(b, m)
    PROVE  Len(b) = 1 /\ 1 \in 1 .. Len(b) /\ Leads(b, m) /\ b \in Seq(Tokens)
  <1> DEFINE a == b[1]
             T == Tokens
  <1>1. b = <<a>> /\ Leads(b, m)
    <2>1. CASE b = <<<<"null">>>> /\ m = <<"null">>
      BY <2>1 DEF Leads
    <2>2. CASE \E n \in Int : b = <<<<"number", n>>>> /\ m = <<"int", n>>
      <3>1. PICK n \in Int : b = <<<<"number", n>>>> /\ m = <<"int", n>>
        BY <2>2
      <3> QED
        BY <3>1 DEF Leads
    <2>3. CASE \E s \in Texts : b = <<<<"text", s>>>> /\ m = <<"str", s>>
      <3>1. PICK s \in Texts : b = <<<<"text", s>>>> /\ m = <<"str", s>>
        BY <2>3
      <3> QED
        BY <3>1 DEF Leads
    <2> QED
      BY <2>1, <2>2, <2>3 DEF IsAtom
  <1>2. a \in T
    <2>1. CASE b = <<<<"null">>>> /\ m = <<"null">>
      BY <2>1 DEF Tokens
    <2>2. CASE \E n \in Int : b = <<<<"number", n>>>> /\ m = <<"int", n>>
      <3>1. PICK n \in Int : b = <<<<"number", n>>>> /\ m = <<"int", n>>
        BY <2>2
      <3>2. a = <<"number", n>>
        BY <3>1
      <3> HIDE DEF a
      <3> QED
        BY <3>2 DEF Tokens
    <2>3. CASE \E s \in Texts : b = <<<<"text", s>>>> /\ m = <<"str", s>>
      <3>1. PICK s \in Texts : b = <<<<"text", s>>>> /\ m = <<"str", s>>
        BY <2>3
      <3>2. a = <<"text", s>>
        BY <3>1
      <3> HIDE DEF a
      <3> QED
        BY <3>2 DEF Tokens
    <2> QED
      BY <2>1, <2>2, <2>3 DEF IsAtom
  <1> HIDE DEF a, T
  <1>3. Len(b) = 1 /\ 1 \in 1 .. Len(b) /\ b \in Seq(T)
    BY <1>1, <1>2
  <1> QED
    BY <1>1, <1>3 DEF T

LEMMA ListLeads ==
    ASSUME NEW b, NEW m, NEW x, NEW ms, IsList(b, m, x, ms)
    PROVE  1 \in 1 .. Len(b) /\ b[1] = <<"[">> /\ m[1] = "list" /\ b \in Seq(Tokens)
  <1>1. <<"[">> \in Tokens /\ <<"]">> \in Tokens
    BY DEF Tokens
  <1> DEFINE n == Len(FlattenSeq(x))
             g == Group(<<"[">>, x, <<"]">>)
  <1>2. x \in Seq(Seq(Tokens)) /\ b = g /\ m[1] = "list"
    BY DEF IsList
  <1>3. g \in Seq(Tokens) /\ Len(g) = n + 2 /\ n \in Nat /\ g[1] = <<"[">>
    <2> DEFINE open == <<"[">>
               close == <<"]">>
               T == Tokens
    <2>1. open \in T /\ close \in T /\ x \in Seq(Seq(T))
      BY <1>1, <1>2
    <2> HIDE DEF open, close, T
    <2>2. /\ Group(open, x, close) \in Seq(T) /\ Len(Group(open, x, close)) = n + 2
          /\ n \in Nat /\ Group(open, x, close)[1] = open
      BY <2>1, GroupIs
    <2> QED
      BY <2>2 DEF open, close, T
  <1> HIDE DEF g, n
  <1>4. 1 \in 1 .. Len(b)
    BY <1>2, <1>3
  <1> QED
    BY <1>2, <1>3, <1>4

LEMMA MapLeads ==
    ASSUME NEW b, NEW m, NEW ks, NEW x, NEW ms, IsMap(b, m, ks, x, ms)
    PROVE  1 \in 1 .. Len(b) /\ b[1] = <<"{">> /\ m[1] = "map" /\ b \in Seq(Tokens)
  <1>1. <<"{">> \in Tokens /\ <<"}">> \in Tokens
    BY DEF Tokens
  <1> DEFINE e == Members(ks, x)
             n == Len(FlattenSeq(e))
             g == Group(<<"{">>, e, <<"}">>)
  <1>2. x \in Seq(Seq(Tokens)) /\ Ranked(ks, Len(x)) /\ m[1] = "map"
    BY DEF IsMap
  <1>3. e \in Seq(Seq(Tokens))
    BY <1>2, MembersType DEF Ranked
  <1> HIDE DEF e
  <1>4. g \in Seq(Tokens) /\ Len(g) = n + 2 /\ n \in Nat /\ g[1] = <<"{">>
    <2> DEFINE open == <<"{">>
               close == <<"}">>
               T == Tokens
    <2>1. open \in T /\ close \in T /\ e \in Seq(Seq(T))
      BY <1>1, <1>3
    <2> HIDE DEF open, close, T
    <2>2. /\ Group(open, e, close) \in Seq(T) /\ Len(Group(open, e, close)) = n + 2
          /\ n \in Nat /\ Group(open, e, close)[1] = open
      BY <2>1, GroupIs
    <2> QED
      BY <2>2 DEF open, close, T
  <1> HIDE DEF g, n
  <1>5. 1 \in 1 .. Len(g)
    <2>1. n \in Nat /\ Len(g) = n + 2
      BY <1>4
    <2> QED
      BY <2>1
  <1>6. b = g
    BY DEF IsMap, g, e
  <1> QED
    BY <1>2, <1>4, <1>5, <1>6

LEMMA AtomsMatch ==
    ASSUME NEW b, NEW m, IsAtom(b, m), NEW c, NEW k, IsAtom(c, k)
    PROVE  Matches(b, m, c, k)
  <1>1. b = c <=> m = k
    BY DEF IsAtom
  <1>2. Separate(b, c)
    <2>1. \E s : b = <<s>>
      BY DEF IsAtom
    <2>2. \E s : c = <<s>>
      BY DEF IsAtom
    <2> QED
      BY <2>1, <2>2 DEF Separate, At
  <1> QED
    BY <1>1, <1>2 DEF Matches
-----------------------------------------------------------------------------
(* The meaning of a value, from the meanings of its children.              *)
MeantOf(f, w) == Meant(w, [c \in Children(w) |-> f[c]])

LEMMA MeaningExist ==
    ASSUME NEW n \in Nat
    PROVE  \E f : f = [w \in Values[n] |-> MeantOf(f, w)]
  <1> DEFINE Bad == {j \in Nat : ~ \E f : f = [w \in Values[j] |-> MeantOf(f, w)]}
  <1> SUFFICES ASSUME Bad # {} PROVE FALSE
    OBVIOUS
  <1>1. PICK j \in Bad : \A k \in Bad : j <= k
    BY Least
  <1>2. \E g : \A v \in Values[j] : \A c \in Children(v) : g[c] = MeantOf(g, c)
    <2>1. CASE j = 0
      <3>1. \A v \in Values[j] : Children(v) = {}
        BY <2>1, ValuesStep, LeafHasNoChildren
      <3> QED
        BY <3>1
    <2>2. CASE j # 0
      <3>1. j - 1 \in Nat
        BY <2>2
      <3>2. PICK g : g = [v \in Values[j - 1] |-> MeantOf(g, v)]
        BY <1>1, <3>1
      <3> DEFINE e == [v \in Values[j - 1] |-> MeantOf(g, v)]
      <3>3. \A c \in Values[j - 1] : e[c] = MeantOf(g, c)
        OBVIOUS
      <3>4. g = e
        BY <3>2
      <3> HIDE DEF e
      <3> QED
        BY <3>1, <3>3, <3>4, ChildrenBelow
    <2> QED
      BY <2>1, <2>2
  <1>3. PICK g : \A v \in Values[j] : \A c \in Children(v) : g[c] = MeantOf(g, c)
    BY <1>2
  <1> DEFINE f == [v \in Values[j] |-> MeantOf(g, v)]
  <1>4. \A v \in Values[j] : \A c \in Children(v) : f[c] = g[c]
    <2> SUFFICES ASSUME NEW v \in Values[j], NEW c \in Children(v) PROVE f[c] = g[c]
      OBVIOUS
    <2>1. c \in Values[j]
      BY ChildrenBelow, ValuesGrowTo
    <2> QED
      BY <1>3, <2>1
  <1>5. f = [v \in Values[j] |-> MeantOf(g, v)]
    OBVIOUS
  <1> HIDE DEF f
  <1>6. \A v \in Values[j] : MeantOf(f, v) = MeantOf(g, v)
    <2> SUFFICES ASSUME NEW v \in Values[j] PROVE MeantOf(f, v) = MeantOf(g, v)
      OBVIOUS
    <2>1. [c \in Children(v) |-> f[c]] = [c \in Children(v) |-> g[c]]
      BY <1>4
    <2> QED
      BY <2>1 DEF MeantOf
  <1>7. f = [v \in Values[j] |-> MeantOf(f, v)]
    BY <1>5, <1>6
  <1> QED
    BY <1>1, <1>7

LEMMA MeaningDef ==
    ASSUME NEW v \in Documents
    PROVE  Meaning[v] = Meant(v, [c \in Children(v) |-> Meaning[c]])
  <1> DEFINE Solves(f) == f = [w \in Documents |-> MeantOf(f, w)]
  <1>1. \E f : Solves(f)
    BY MeaningExist, DocumentsClosed DEF Documents
  <1>2. Meaning = CHOOSE f : Solves(f)
    BY DEF Meaning, MeantOf
  <1>3. Solves(Meaning)
    <2> HIDE DEF Solves
    <2> QED
      BY <1>1, <1>2
  <1> DEFINE e == [w \in Documents |-> MeantOf(Meaning, w)]
  <1>4. e[v] = MeantOf(Meaning, v) /\ Meaning = e
    BY <1>3
  <1> HIDE DEF e
  <1> QED
    BY <1>4 DEF MeantOf
(* What stands in a value: a child of it, or, in bytes, the hex text.      *)
Inner(r, v, b, m) ==
    IsAtom(b, m) \/ \E c \in Children(v) : b = Bytes(r, c) /\ m = Meaning[c]

ListOf(r, v, x, ms) ==
    /\ IsList(Bytes(r, v), Meaning[v], x, ms)
    /\ \A i \in Nat : i \in 1 .. Len(x) => Inner(r, v, x[i], ms[i])

MapOf(r, v, ks, x, ms) ==
    /\ IsMap(Bytes(r, v), Meaning[v], ks, x, ms)
    /\ \A i \in Nat : i \in 1 .. Len(x) => Inner(r, v, x[i], ms[i])

(* Bytes that can follow others in a list or a map.                        *)
Opens(b) == b \in Seq(Tokens) /\ 1 \in 1 .. Len(b) /\ b[1] # <<"]">> /\ b[1] # <<"}">>

LEMMA AtomShape ==
    ASSUME NEW r \in Runtimes, NEW v \in Leaves, Accepts(r, v), v.t # "bytes"
    PROVE  IsAtom(Bytes(r, v), Meaning[v])
  <1> DEFINE f == [c \in Children(v) |-> Bytes(r, c)]
             g == [c \in Children(v) |-> Meaning[c]]
  <1>1. v \in Documents
    BY DocumentsClosed
  <1>2. Bytes(r, v) = Written(r, v, f) /\ Meaning[v] = Meant(v, g)
    BY <1>1, BytesDef, MeaningDef
  <1>3. v.t # "float"
    BY <1>1, AcceptsChild DEF AcceptsOne
  <1> HIDE DEF f, g
  <1>4. CASE v.t = "null"
    <2>1. Written(r, v, f) = <<<<"null">>>>
      BY <1>4 DEF Written
    <2>2. Meant(v, g) = <<"null">>
      BY <1>4 DEF Meant
    <2> QED
      BY <1>2, <2>1, <2>2 DEF IsAtom
  <1>5. CASE v.t = "int" /\ v.n \in Int
    <2>1. Written(r, v, f) = <<<<"number", v.n>>>>
      BY <1>5 DEF Written
    <2>2. Meant(v, g) = <<"int", v.n>>
      BY <1>5 DEF Meant
    <2> QED
      BY <1>2, <1>5, <2>1, <2>2 DEF IsAtom
  <1>6. CASE v.t = "str" /\ v.s \in Texts
    <2>1. Written(r, v, f) = <<<<"text", Nfc[v.s]>>>>
      BY <1>6 DEF Written
    <2>2. Meant(v, g) = <<"str", Nfc[v.s]>>
      BY <1>6 DEF Meant
    <2>3. Nfc[v.s] \in Texts
      BY <1>6, TextAssumption
    <2> QED
      BY <1>2, <2>1, <2>2, <2>3 DEF IsAtom
  <1> QED
    BY <1>3, <1>4, <1>5, <1>6, LeafKinds

LEMMA ListShape ==
    ASSUME NEW r \in Runtimes, NEW v \in Lists(Documents),
           \A c \in Children(v) : Opens(Bytes(r, c))
    PROVE  \E x, ms : v \in Documents => ListOf(r, v, x, ms)
  <1> DEFINE x == [i \in DOMAIN v.items |-> Bytes(r, v.items[i])]
             ms == [i \in DOMAIN v.items |-> Meaning[v.items[i]]]
             n == Len(v.items)
             f == [c \in Children(v) |-> Bytes(r, c)]
             g == [c \in Children(v) |-> Meaning[c]]
             y == [i \in DOMAIN v.items |-> f[v.items[i]]]
             ns == [i \in DOMAIN v.items |-> g[v.items[i]]]
  <1>1. /\ v.t \in {"list", "tuple"} /\ n \in Nat /\ DOMAIN v.items = 1 .. n
        /\ \A i \in DOMAIN v.items : v.items[i] \in Children(v)
    BY ListKinds
  <1>2. y = x /\ ns = ms
    BY <1>1
  <1>3. ASSUME v \in Documents
        PROVE  Bytes(r, v) = Written(r, v, f) /\ Meaning[v] = Meant(v, g)
    BY <1>3, BytesDef, MeaningDef
  <1>4. x = [i \in 1 .. n |-> x[i]] /\ ms = [i \in 1 .. n |-> ms[i]]
    BY <1>1
  <1>5. \A i \in 1 .. n : x[i] = Bytes(r, v.items[i]) /\ ms[i] = Meaning[v.items[i]]
    BY <1>1
  <1>6. \A i \in 1 .. n : Opens(x[i])
    BY <1>1, <1>5
  <1> HIDE DEF n, f, g
  <1>7. Written(r, v, f) = Group(<<"[">>, y, <<"]">>)
    BY <1>1 DEF Written, Group
  <1>8. Meant(v, g) = <<"list", ns>>
    BY <1>1 DEF Meant
  <1> HIDE DEF x, ms, y, ns
  <1>9. x \in Seq(Seq(Tokens)) /\ Len(x) = n
    <2> DEFINE S == Seq(Tokens)
    <2>1. \A i \in 1 .. n : x[i] \in S
      BY <1>6 DEF Opens
    <2> HIDE DEF S
    <2>2. x \in Seq(S) /\ Len(x) = n
      BY <1>1, <1>4, <2>1
    <2> QED
      BY <2>2 DEF S
  <1>10. Proper(x, <<"]">>)
    <2> SUFFICES ASSUME NEW i \in 1 .. n PROVE Len(x[i]) >= 1 /\ x[i][1] # <<"]">>
      BY <1>9 DEF Proper
    <2> DEFINE b == x[i]
    <2>1. b \in Seq(Tokens) /\ 1 \in 1 .. Len(b) /\ b[1] # <<"]">>
      BY <1>6 DEF Opens
    <2> HIDE DEF b
    <2>2. Len(b) >= 1 /\ b[1] # <<"]">>
      BY <2>1
    <2> QED
      BY <2>2 DEF b
  <1>11. \A i \in Nat : i \in 1 .. Len(x) => Inner(r, v, x[i], ms[i])
    BY <1>1, <1>5, <1>9 DEF Inner
  <1>12. ASSUME v \in Documents PROVE ListOf(r, v, x, ms)
    <2>1. /\ Bytes(r, v) = Group(<<"[">>, x, <<"]">>)
          /\ Meaning[v] = <<"list", ms>>
      BY <1>2, <1>3, <1>7, <1>8, <1>12
    <2>2. ms = [i \in 1 .. Len(x) |-> ms[i]]
      BY <1>4, <1>9
    <2> QED
      BY <1>9, <1>10, <1>11, <2>1, <2>2 DEF ListOf, IsList
  <1> QED
    BY <1>12

LEMMA MapShape ==
    ASSUME NEW r \in Runtimes, NEW v \in Maps(Documents), KeysAccepted(r, v.entries),
           \A c \in Children(v) : Bytes(r, c) \in Seq(Tokens)
    PROVE  \E ks, x, ms : v \in Documents => MapOf(r, v, ks, x, ms)
  <1> DEFINE es == KeyOrder(r, v.entries)
             n == Len(v.entries)
             f == [c \in Children(v) |-> Bytes(r, c)]
             g == [c \in Children(v) |-> Meaning[c]]
             ks == [i \in 1 .. n |-> Nfc[Key(es[i])]]
             x == [i \in 1 .. n |-> Bytes(r, es[i][2])]
             ms == [i \in 1 .. n |-> Meaning[es[i][2]]]
             e == [i \in DOMAIN es |-> <<<<"text", Nfc[Key(es[i])]>>>> \o f[es[i][2]]]
  <1>1. v.t = "map" /\ n \in Nat /\ DOMAIN v.entries = 1 .. n
    BY MapKinds, AcceptedKeys
  <1>2. Sorted(v.entries, es) /\ DOMAIN es = 1 .. n
    BY <1>1, KeyOrderSorts DEF Sorted
  <1>3. \A i \in 1 .. n : es[i] \in ToSet(v.entries) /\ es[i][2] \in Children(v)
    BY <1>1, SortedChildren, KeyOrderSorts DEF Sorted
  <1>4. ASSUME NEW d \in ToSet(v.entries) PROVE \E i \in 1 .. n : es[i] = d
    <2>1. \E i \in DOMAIN v.entries : es[i] = d
      BY SortedAll
    <2> HIDE DEF es, n
    <2> QED
      BY <1>1, <2>1
  <1>5. ASSUME v \in Documents
        PROVE  Bytes(r, v) = Written(r, v, f) /\ Meaning[v] = Meant(v, g)
    BY <1>5, BytesDef, MeaningDef
  <1>6. Written(r, v, f) = Group(<<"{">>, e, <<"}">>)
    <2> HIDE DEF f
    <2> QED
      BY <1>1 DEF Written, Group
  <1>7. Meant(v, g) = <<"map", {<<Nfc[Key(d)], g[d[2]]>> : d \in ToSet(v.entries)}>>
    <2> HIDE DEF g
    <2> QED
      BY <1>1 DEF Meant
  <1> HIDE DEF es, n
  <1>8. /\ Len(x) = n
        /\ \A i \in 1 .. n : /\ ks[i] = Nfc[Key(es[i])] /\ x[i] = Bytes(r, es[i][2])
                             /\ ms[i] = Meaning[es[i][2]]
    BY <1>1
  <1>9. e = Members(ks, x)
    <2>1. \A i \in 1 .. n : <<<<"text", Nfc[Key(es[i])]>>>> \o f[es[i][2]] = Member(ks[i], x[i])
      BY <1>3 DEF Member
    <2> HIDE DEF f, ks, x
    <2> QED
      BY <1>2, <1>8, <2>1 DEF Members
  <1>10. {<<Nfc[Key(d)], g[d[2]]>> : d \in ToSet(v.entries)} = {<<ks[i], ms[i]>> : i \in 1 .. n}
    <2>1. ASSUME NEW d \in ToSet(v.entries)
          PROVE  \E i \in 1 .. n : <<Nfc[Key(d)], g[d[2]]>> = <<ks[i], ms[i]>>
      <3>1. PICK i \in 1 .. n : es[i] = d
        BY <1>4
      <3> QED
        BY <1>3, <3>1
    <2>2. ASSUME NEW i \in 1 .. n
          PROVE  es[i] \in ToSet(v.entries) /\ <<ks[i], ms[i]>> = <<Nfc[Key(es[i])], g[es[i][2]]>>
      BY <1>3
    <2> HIDE DEF ks, ms, g
    <2> QED
      BY <2>1, <2>2
  <1>11. Ranked(ks, n)
    <2>1. KeySet(ks, n) = KeysOf(v.entries)
      <3>1. \A i \in 1 .. n : ks[i] \in KeysOf(v.entries)
        BY <1>3 DEF KeysOf
      <3>2. \A d \in ToSet(v.entries) : \E i \in 1 .. n : ks[i] = Nfc[Key(d)]
        BY <1>4
      <3> HIDE DEF ks
      <3> QED
        BY <3>1, <3>2 DEF KeySet, KeysOf
    <2>2. \A i \in 1 .. n : ks[i] \in Texts /\ Rank(KeysOf(v.entries), ks[i]) = i
      BY <1>1, <1>2, <1>3, AcceptedKeys DEF Sorted
    <2> HIDE DEF ks
    <2> QED
      BY <2>1, <2>2 DEF Ranked
  <1>12. x \in Seq(Seq(Tokens))
    <2> DEFINE S == Seq(Tokens)
    <2>1. \A i \in 1 .. n : x[i] \in S
      BY <1>3
    <2>2. x = [i \in 1 .. n |-> x[i]]
      OBVIOUS
    <2> HIDE DEF S, x
    <2>3. x \in Seq(S)
      BY <1>1, <2>1, <2>2
    <2> QED
      BY <2>3 DEF S
  <1>13. \A i \in 1 .. n : Inner(r, v, x[i], ms[i])
    BY <1>3 DEF Inner
  <1> HIDE DEF ks, x, ms, e, f, g
  <1>14. ASSUME v \in Documents PROVE MapOf(r, v, ks, x, ms)
    <2>1. /\ Bytes(r, v) = Group(<<"{">>, Members(ks, x), <<"}">>)
          /\ Meaning[v] = <<"map", {<<ks[i], ms[i]>> : i \in 1 .. Len(x)}>>
      BY <1>5, <1>6, <1>7, <1>8, <1>9, <1>10, <1>14
    <2> QED
      BY <1>8, <1>11, <1>12, <1>13, <2>1 DEF MapOf, IsMap
  <1> QED
    BY <1>14

LEMMA FlattenOne ==
    ASSUME NEW S, NEW x \in Seq(S)
    PROVE  FlattenSeq(<<x>>) = x
  <1> DEFINE T == Seq(S)
  <1>1. <<>> \in Seq(T) /\ Append(<<>>, x) = <<x>>
    OBVIOUS
  <1>2. FlattenSeq(Append(<<>>, x)) = <<>> \o x
    BY <1>1, FlattenEmpty, FlattenAppend
  <1>3. <<>> \o x = x
    OBVIOUS
  <1> QED
    BY <1>1, <1>2, <1>3

(* Bytes are written as the map of their tag to their digits.              *)
LEMMA BytesShape ==
    ASSUME NEW r \in Runtimes, NEW v \in Leaves, v.t = "bytes", v \in Documents
    PROVE  \E ks, x, ms : MapOf(r, v, ks, x, ms)
  <1> DEFINE h == Hex[v.b]
             ks == <<Tag>>
             x == <<<<<<"text", h>>>>>>
             ms == <<<<"str", h>>>>
             f == [c \in Children(v) |-> Bytes(r, c)]
             g == [c \in Children(v) |-> Meaning[c]]
  <1>1. h \in Texts /\ Tag \in Texts
    BY LeafKinds, ConstantAssumption
  <1>2. Bytes(r, v) = Written(r, v, f) /\ Meaning[v] = Meant(v, g)
    BY BytesDef, MeaningDef
  <1> HIDE DEF f, g
  <1>3. /\ Written(r, v, f) = <<<<"{">>, <<"text", Tag>>, <<"text", h>>, <<"}">>>>
        /\ Meant(v, g) = <<"map", {<<Tag, <<"str", h>>>>}>>
    <2>1. Written(r, v, f) = <<<<"{">>, <<"text", Tag>>, <<"text", h>>, <<"}">>>>
      BY DEF Written
    <2>2. Meant(v, g) = <<"map", {<<Tag, <<"str", h>>>>}>>
      BY DEF Meant
    <2> QED
      BY <2>1, <2>2
  <1> HIDE DEF h
  <1>4. IsAtom(x[1], ms[1]) /\ Len(x) = 1 /\ ks[1] = Tag
    BY <1>1 DEF IsAtom
  <1>5. x \in Seq(Seq(Tokens))
    <2>1. x[1] \in Seq(Tokens)
      BY <1>4, AtomLeads
    <2> DEFINE S == Seq(Tokens)
               a == x[1]
    <2>2. x = <<a>> /\ a \in S
      BY <2>1
    <2> HIDE DEF S, a
    <2>3. <<a>> \in Seq(S)
      BY <2>2
    <2> QED
      BY <2>2, <2>3 DEF S
  <1>6. Ranked(ks, 1)
    <2>1. KeySet(ks, 1) = {Tag}
      BY DEF KeySet
    <2>2. Rank({Tag}, Tag) = 1
      <3>1. Rank({Tag}, Tag) \in 1 .. Cardinality({Tag})
        BY <1>1, FS_Singleton, RankType
      <3>2. Cardinality({Tag}) = 1
        BY FS_Singleton
      <3> QED
        BY <3>1, <3>2
    <2>3. \A i \in 1 .. 1 : i = 1
      OBVIOUS
    <2> QED
      BY <1>1, <1>4, <2>1, <2>2, <2>3 DEF Ranked
  <1>7. Bytes(r, v) = Group(<<"{">>, Members(ks, x), <<"}">>)
    <2> DEFINE T == Tokens
               o == <<"{">>
               k == <<"text", Tag>>
               d == <<"text", h>>
               c == <<"}">>
    <2>1. o \in T /\ k \in T /\ d \in T /\ c \in T
      BY <1>1 DEF Tokens
    <2> DEFINE q == <<k>> \o <<d>>
    <2>2. Members(ks, x) = <<q>>
      <3>1. Member(ks[1], x[1]) = q
        BY <1>4 DEF Member
      <3> HIDE DEF q, ks, x
      <3> QED
        BY <1>4, <3>1 DEF Members
    <2> HIDE DEF T, o, k, d, c
    <2>3. q \in Seq(T) /\ Len(q) = 2 /\ q[1] = k /\ q[2] = d
      BY <2>1
    <2> HIDE DEF q
    <2>4. FlattenSeq(<<q>>) = q
      BY <2>3, FlattenOne
    <2>5. <<q>> \in Seq(Seq(T))
      <3> DEFINE S == Seq(T)
      <3>1. q \in S
        BY <2>3
      <3> HIDE DEF S
      <3>2. <<q>> \in Seq(S)
        BY <3>1
      <3> QED
        BY <3>2 DEF S
    <2> DEFINE s == <<q>>
               a == Group(o, s, c)
               b == <<o, k, d, c>>
    <2>6. FlattenSeq(s) = q /\ s \in Seq(Seq(T))
      BY <2>4, <2>5
    <2> HIDE DEF s
    <2>7. /\ a \in Seq(T) /\ Len(a) = Len(q) + 2 /\ a[1] = o
          /\ \A i \in 1 .. Len(q) : a[1 + i] = q[i]
          /\ a[Len(q) + 2] = c
      <3>1. o \in T /\ c \in T /\ s \in Seq(Seq(T))
        BY <2>1, <2>6
      <3>2. /\ Group(o, s, c) \in Seq(T) /\ Len(Group(o, s, c)) = Len(FlattenSeq(s)) + 2
            /\ Group(o, s, c)[1] = o
            /\ \A i \in 1 .. Len(FlattenSeq(s)) : Group(o, s, c)[1 + i] = FlattenSeq(s)[i]
            /\ Group(o, s, c)[Len(FlattenSeq(s)) + 2] = c
        BY <3>1, GroupIs
      <3> QED
        BY <2>6, <3>2
    <2>8. b \in Seq(T) /\ Len(b) = 4 /\ b[1] = o /\ b[2] = k /\ b[3] = d /\ b[4] = c
      BY <2>1
    <2> HIDE DEF a, b
    <2>9. Len(a) = 4 /\ a[2] = k /\ a[3] = d /\ a[4] = c
      <3>1. Len(q) = 2 /\ q[1] = k /\ q[2] = d
        BY <2>3
      <3>2. Len(a) = 4 /\ a[4] = c
        BY <2>7, <3>1
      <3>3. 1 \in 1 .. Len(q) /\ 2 \in 1 .. Len(q)
        BY <3>1
      <3>4. a[1 + 1] = q[1] /\ a[1 + 2] = q[2]
        BY <2>7, <3>3
      <3>5. 1 + 1 = 2 /\ 1 + 2 = 3
        OBVIOUS
      <3> QED
        BY <3>1, <3>2, <3>4, <3>5
    <2>10. ASSUME NEW i \in 1 .. Len(a) PROVE a[i] = b[i]
      <3>1. i = 1 \/ i = 2 \/ i = 3 \/ i = 4
        BY <2>9
      <3>2. a[1] = b[1] /\ a[2] = b[2] /\ a[3] = b[3] /\ a[4] = b[4]
        BY <2>7, <2>8, <2>9
      <3> QED
        BY <3>1, <3>2
    <2>11. a = b
      BY <2>7, <2>8, <2>9, <2>10, SeqEqual
    <2> QED
      BY <1>2, <1>3, <2>2, <2>11 DEF o, k, d, c, s, a, b
  <1>8. Meaning[v] = <<"map", {<<ks[i], ms[i]>> : i \in 1 .. Len(x)}>>
    <2>1. \A i \in 1 .. Len(x) : i = 1
      BY <1>4
    <2>2. {<<ks[i], ms[i]>> : i \in 1 .. Len(x)} = {<<Tag, <<"str", h>>>>}
      BY <1>4, <2>1
    <2> QED
      BY <1>2, <1>3, <2>2
  <1>9. \A i \in Nat : i \in 1 .. Len(x) => Inner(r, v, x[i], ms[i])
    <2>1. \A i \in Nat : i \in 1 .. Len(x) => i = 1
      BY <1>4
    <2> QED
      BY <1>4, <2>1 DEF Inner
  <1>10. Ranked(ks, Len(x))
    BY <1>4, <1>6
  <1> HIDE DEF ks, x, ms
  <1>11. IsMap(Bytes(r, v), Meaning[v], ks, x, ms)
    BY <1>5, <1>7, <1>8, <1>10 DEF IsMap
  <1> QED
    BY <1>9, <1>11 DEF MapOf
AtomOf(r, v) == IsAtom(Bytes(r, v), Meaning[v])

(* Every accepted value has one of the shapes, if what is in it can follow *)
(* others.                                                                 *)
LEMMA Shapes ==
    ASSUME NEW r \in Runtimes, NEW v \in Documents, Accepts(r, v),
           \A c \in Children(v) : Opens(Bytes(r, c))
    PROVE  \/ AtomOf(r, v)
           \/ \E x, ms : ListOf(r, v, x, ms)
           \/ \E ks, x, ms : MapOf(r, v, ks, x, ms)
  <1>1. CASE v \in Leaves
    BY <1>1, AtomShape, BytesShape DEF AtomOf
  <1>2. CASE v \in Lists(Documents)
    BY <1>2, ListShape
  <1>3. CASE v \in Maps(Documents)
    <2>1. v.t = "map"
      BY <1>3, MapKinds
    <2>2. KeysAccepted(r, v.entries)
      BY <2>1, AcceptsChild DEF AcceptsOne
    <2>3. \A c \in Children(v) : Bytes(r, c) \in Seq(Tokens)
      BY DEF Opens
    <2> QED
      BY <1>3, <2>2, <2>3, MapShape
  <1> QED
    BY <1>1, <1>2, <1>3, DocumentKinds

LEMMA Brackets ==
    /\ <<"[">> # <<"]">> /\ <<"[">> # <<"}">> /\ <<"[">> # <<"{">>
    /\ <<"{">> # <<"]">> /\ <<"{">> # <<"}">>
    /\ \A b, m : Leads(b, m) =>
          /\ b[1] # <<"[">> /\ b[1] # <<"]">> /\ b[1] # <<"{">> /\ b[1] # <<"}">>
          /\ m[1] # "list" /\ m[1] # "map"
  <1>1. ASSUME NEW b, NEW m, Leads(b, m), NEW x \in {"[", "]", "{", "}"}
        PROVE  b[1] # <<x>>
    <2>1. \A k, n : <<k, n>> # <<x>>
      OBVIOUS
    <2>2. <<"null">> # <<x>>
      OBVIOUS
    <2>3. b[1] = <<"null">> \/ \E k, n : b[1] = <<k, n>>
      BY <1>1 DEF Leads
    <2> DEFINE c == <<x>>
    <2> HIDE DEF c
    <2> QED
      <3>1. c # <<"null">> /\ \A k, n : <<k, n>> # c
        BY <2>1, <2>2 DEF c
      <3>2. b[1] # c
        BY <2>3, <3>1
      <3> QED
        BY <3>2 DEF c
  <1>2. ASSUME NEW b, NEW m, Leads(b, m) PROVE m[1] # "list" /\ m[1] # "map"
    BY <1>2 DEF Leads
  <1>3. \A x, y : <<x>> = <<y>> => x = y
    OBVIOUS
  <1>4. /\ <<"[">> # <<"]">> /\ <<"[">> # <<"}">> /\ <<"[">> # <<"{">>
        /\ <<"{">> # <<"]">> /\ <<"{">> # <<"}">>
    BY <1>3
  <1> QED
    BY <1>1, <1>2, <1>4

LEMMA ShapesOpen ==
    ASSUME NEW r, NEW v,
           \/ AtomOf(r, v)
           \/ \E x, ms : ListOf(r, v, x, ms)
           \/ \E ks, x, ms : MapOf(r, v, ks, x, ms)
    PROVE  Opens(Bytes(r, v))
  <1>1. CASE AtomOf(r, v)
    <2>1. /\ Bytes(r, v) \in Seq(Tokens) /\ 1 \in 1 .. Len(Bytes(r, v))
          /\ Leads(Bytes(r, v), Meaning[v])
      BY <1>1, AtomLeads DEF AtomOf
    <2> QED
      BY <2>1, Brackets DEF Opens
  <1>2. CASE \E x, ms : ListOf(r, v, x, ms)
    <2>1. PICK x, ms : ListOf(r, v, x, ms)
      BY <1>2
    <2>2. IsList(Bytes(r, v), Meaning[v], x, ms)
      BY <2>1 DEF ListOf
    <2>3. /\ Bytes(r, v) \in Seq(Tokens) /\ 1 \in 1 .. Len(Bytes(r, v))
          /\ Bytes(r, v)[1] = <<"[">>
      BY <2>2, ListLeads
    <2> QED
      BY <2>3, Brackets DEF Opens
  <1>3. CASE \E ks, x, ms : MapOf(r, v, ks, x, ms)
    <2>1. PICK ks, x, ms : MapOf(r, v, ks, x, ms)
      BY <1>3
    <2>2. IsMap(Bytes(r, v), Meaning[v], ks, x, ms)
      BY <2>1 DEF MapOf
    <2>3. /\ Bytes(r, v) \in Seq(Tokens) /\ 1 \in 1 .. Len(Bytes(r, v))
          /\ Bytes(r, v)[1] = <<"{">>
      BY <2>2, MapLeads
    <2> QED
      BY <2>3, Brackets DEF Opens
  <1> QED
    BY <1>1, <1>2, <1>3

LEMMA AllOpen ==
    ASSUME NEW r \in Runtimes, NEW n \in Nat, n <= MaxSize, NEW v \in Values[n], Accepts(r, v)
    PROVE  Opens(Bytes(r, v))
  <1> DEFINE Bad == {j \in Nat : j <= MaxSize /\ \E w \in Values[j] :
                        Accepts(r, w) /\ ~ Opens(Bytes(r, w))}
  <1> SUFFICES ASSUME Bad # {} PROVE FALSE
    OBVIOUS
  <1>1. PICK j \in Bad : \A k \in Bad : j <= k
    BY Least
  <1>2. PICK w \in Values[j] : Accepts(r, w) /\ ~ Opens(Bytes(r, w))
    BY <1>1
  <1>3. w \in Documents
    BY <1>1, ValuesGrowTo, DocumentsClosed DEF Documents
  <1>4. ASSUME NEW c \in Children(w) PROVE Opens(Bytes(r, c))
    <2>1. j - 1 \in Nat /\ c \in Values[j - 1] /\ j - 1 <= MaxSize
      BY <1>1, ChildrenBelow, DocumentsClosed
    <2>2. j - 1 \notin Bad
      BY <1>1, <2>1
    <2>3. Accepts(r, c)
      BY <1>2, <1>3, AcceptsChild
    <2> QED
      BY <2>1, <2>2, <2>3
  <1> HIDE DEF Bad
  <1> QED
    BY <1>2, <1>3, <1>4, Shapes, ShapesOpen

LEMMA AllShapes ==
    ASSUME NEW r \in Runtimes, NEW v \in Documents, Accepts(r, v)
    PROVE  \/ AtomOf(r, v)
           \/ \E x, ms : ListOf(r, v, x, ms)
           \/ \E ks, x, ms : MapOf(r, v, ks, x, ms)
  <1>1. ASSUME NEW c \in Children(v) PROVE Opens(Bytes(r, c))
    <2>1. c \in Values[MaxSize] /\ Accepts(r, c) /\ MaxSize \in Nat /\ MaxSize <= MaxSize
      BY AcceptsChild, DocumentsClosed DEF Documents
    <2> QED
      BY <2>1, AllOpen
  <1> QED
    BY <1>1, Shapes

(* Values of two shapes go together in neither bytes nor meaning.          *)
LEMMA ListAgainstMap ==
    ASSUME NEW b, NEW m, NEW x, NEW ms, IsList(b, m, x, ms),
           NEW c, NEW k, NEW ls, NEW y, NEW ns, IsMap(c, k, ls, y, ns)
    PROVE  Matches(b, m, c, k)
  <1>1. 1 \in 1 .. Len(b) /\ b[1] = <<"[">> /\ m[1] = "list"
    BY ListLeads
  <1>2. 1 \in 1 .. Len(c) /\ c[1] = <<"{">> /\ k[1] = "map"
    BY MapLeads
  <1> QED
    <2>1. b[1] # c[1] /\ m[1] # k[1]
      BY <1>1, <1>2, Brackets
    <2> QED
      BY <1>1, <1>2, <2>1, Differ

LEMMA AtomAgainst ==
    ASSUME NEW b, NEW m, IsAtom(b, m), NEW r \in Runtimes, NEW w \in Documents, Accepts(r, w)
    PROVE  Matches(b, m, Bytes(r, w), Meaning[w])
  <1> DEFINE c == Bytes(r, w)
             k == Meaning[w]
  <1>1. 1 \in 1 .. Len(b) /\ Leads(b, m)
    BY AtomLeads
  <1>2. ASSUME 1 \in 1 .. Len(c), c[1] \in {<<"[">>, <<"{">>}, k[1] \in {"list", "map"}
        PROVE  Matches(b, m, c, k)
    <2> HIDE DEF c, k
    <2>1. b[1] # c[1] /\ m[1] # k[1]
      BY <1>1, <1>2, Brackets
    <2> QED
      BY <1>1, <1>2, <2>1, Differ
  <1>3. CASE AtomOf(r, w)
    BY <1>3, AtomsMatch DEF AtomOf
  <1>4. CASE \E x, ms : ListOf(r, w, x, ms)
    <2>1. PICK x, ms : ListOf(r, w, x, ms)
      BY <1>4
    <2>2. IsList(c, k, x, ms)
      BY <2>1 DEF ListOf
    <2> HIDE DEF c, k
    <2>3. 1 \in 1 .. Len(c) /\ c[1] = <<"[">> /\ k[1] = "list"
      BY <2>2, ListLeads
    <2>4. Matches(b, m, c, k)
      BY <1>2, <2>3
    <2> QED
      BY <2>4 DEF c, k
  <1>5. CASE \E ks, x, ms : MapOf(r, w, ks, x, ms)
    <2>1. PICK ks, x, ms : MapOf(r, w, ks, x, ms)
      BY <1>5
    <2>2. IsMap(c, k, ks, x, ms)
      BY <2>1 DEF MapOf
    <2> HIDE DEF c, k
    <2>3. 1 \in 1 .. Len(c) /\ c[1] = <<"{">> /\ k[1] = "map"
      BY <2>2, MapLeads
    <2>4. Matches(b, m, c, k)
      BY <1>2, <2>3
    <2> QED
      BY <2>4 DEF c, k
  <1> QED
    BY <1>3, <1>4, <1>5, AllShapes

LEMMA InnerMatch ==
    ASSUME NEW r \in Runtimes, NEW v \in Documents, Accepts(r, v),
           NEW w \in Documents, Accepts(r, w),
           \A c \in Children(v) : \A d \in Children(w) :
              Matches(Bytes(r, c), Meaning[c], Bytes(r, d), Meaning[d]),
           NEW b, NEW m, Inner(r, v, b, m), NEW c, NEW k, Inner(r, w, c, k)
    PROVE  Matches(b, m, c, k)
  <1>1. CASE IsAtom(b, m) /\ IsAtom(c, k)
    BY <1>1, AtomsMatch
  <1>2. ASSUME IsAtom(b, m), NEW d \in Children(w), c = Bytes(r, d), k = Meaning[d]
        PROVE  Matches(b, m, c, k)
    BY <1>2, AcceptsChild, AtomAgainst
  <1>3. ASSUME IsAtom(c, k), NEW d \in Children(v), b = Bytes(r, d), m = Meaning[d]
        PROVE  Matches(b, m, c, k)
    <2>1. Matches(c, k, b, m)
      BY <1>3, AcceptsChild, AtomAgainst
    <2> QED
      BY <2>1, MatchesSymmetric
  <1> QED
    BY <1>1, <1>2, <1>3 DEF Inner

LEMMA OneStep ==
    ASSUME NEW r \in Runtimes, NEW v \in Documents, Accepts(r, v),
           NEW w \in Documents, Accepts(r, w),
           \A c \in Children(v) : \A d \in Children(w) :
              Matches(Bytes(r, c), Meaning[c], Bytes(r, d), Meaning[d])
    PROVE  Matches(Bytes(r, v), Meaning[v], Bytes(r, w), Meaning[w])
  <1> DEFINE Goal == Matches(Bytes(r, v), Meaning[v], Bytes(r, w), Meaning[w])
  <1>1. CASE AtomOf(r, v)
    BY <1>1, AtomAgainst DEF AtomOf
  <1>2. CASE AtomOf(r, w)
    <2>1. Matches(Bytes(r, w), Meaning[w], Bytes(r, v), Meaning[v])
      BY <1>2, AtomAgainst DEF AtomOf
    <2> QED
      BY <2>1, MatchesSymmetric
  <1>3. ASSUME NEW x, NEW ms, ListOf(r, v, x, ms), NEW y, NEW ns, ListOf(r, w, y, ns)
        PROVE  Goal
    <2>1. IsList(Bytes(r, v), Meaning[v], x, ms) /\ IsList(Bytes(r, w), Meaning[w], y, ns)
      BY <1>3 DEF ListOf
    <2>2. ASSUME NEW i \in Nat, i \in 1 .. Len(x), i \in 1 .. Len(y)
          PROVE  Matches(x[i], ms[i], y[i], ns[i])
      <3>1. Inner(r, v, x[i], ms[i]) /\ Inner(r, w, y[i], ns[i])
        BY <1>3, <2>2 DEF ListOf
      <3> QED
        BY <3>1, InnerMatch
    <2> QED
      BY <2>1, <2>2, ListMatches
  <1>4. ASSUME NEW ks, NEW x, NEW ms, MapOf(r, v, ks, x, ms),
               NEW ls, NEW y, NEW ns, MapOf(r, w, ls, y, ns)
        PROVE  Goal
    <2>1. IsMap(Bytes(r, v), Meaning[v], ks, x, ms) /\ IsMap(Bytes(r, w), Meaning[w], ls, y, ns)
      BY <1>4 DEF MapOf
    <2>2. ASSUME NEW i \in Nat, i \in 1 .. Len(x), i \in 1 .. Len(y)
          PROVE  Matches(x[i], ms[i], y[i], ns[i])
      <3>1. Inner(r, v, x[i], ms[i]) /\ Inner(r, w, y[i], ns[i])
        BY <1>4, <2>2 DEF MapOf
      <3> QED
        BY <3>1, InnerMatch
    <2> QED
      BY <2>1, <2>2, MapMatches
  <1>5. ASSUME NEW x, NEW ms, ListOf(r, v, x, ms), NEW ls, NEW y, NEW ns, MapOf(r, w, ls, y, ns)
        PROVE  Goal
    <2>1. IsList(Bytes(r, v), Meaning[v], x, ms) /\ IsMap(Bytes(r, w), Meaning[w], ls, y, ns)
      BY <1>5 DEF ListOf, MapOf
    <2> QED
      BY <2>1, ListAgainstMap
  <1>6. ASSUME NEW x, NEW ms, ListOf(r, w, x, ms), NEW ls, NEW y, NEW ns, MapOf(r, v, ls, y, ns)
        PROVE  Goal
    <2>1. IsList(Bytes(r, w), Meaning[w], x, ms) /\ IsMap(Bytes(r, v), Meaning[v], ls, y, ns)
      BY <1>6 DEF ListOf, MapOf
    <2>2. Matches(Bytes(r, w), Meaning[w], Bytes(r, v), Meaning[v])
      BY <2>1, ListAgainstMap
    <2> QED
      BY <2>2, MatchesSymmetric
  <1> HIDE DEF Goal
  <1>7. Goal
    <2>1. /\ AtomOf(r, v) \/ (\E x, ms : ListOf(r, v, x, ms)) \/ (\E ks, x, ms : MapOf(r, v, ks, x, ms))
          /\ AtomOf(r, w) \/ (\E x, ms : ListOf(r, w, x, ms)) \/ (\E ks, x, ms : MapOf(r, w, ks, x, ms))
      BY AllShapes
    <2>2. AtomOf(r, v) => Goal
      BY <1>1 DEF Goal
    <2>3. AtomOf(r, w) => Goal
      BY <1>2 DEF Goal
    <2> QED
      BY <1>3, <1>4, <1>5, <1>6, <2>1, <2>2, <2>3
  <1> QED
    BY <1>7 DEF Goal

LEMMA AllMatch ==
    ASSUME NEW r \in Runtimes, NEW n \in Nat, n <= MaxSize,
           NEW v \in Values[n], Accepts(r, v), NEW w \in Documents, Accepts(r, w)
    PROVE  Matches(Bytes(r, v), Meaning[v], Bytes(r, w), Meaning[w])
  <1> DEFINE Fails(c, d) == /\ Accepts(r, c) /\ Accepts(r, d)
                            /\ ~ Matches(Bytes(r, c), Meaning[c], Bytes(r, d), Meaning[d])
             Bad == {j \in Nat : j <= MaxSize /\ \E c \in Values[j] : \E d \in Documents : Fails(c, d)}
  <1> SUFFICES ASSUME Bad # {} PROVE FALSE
    <2>1. CASE Bad = {}
      <3>1. n \notin Bad
        BY <2>1
      <3> QED
        BY <3>1
    <2> QED
      BY <2>1
  <1>1. PICK j \in Bad : \A k \in Bad : j <= k
    BY Least
  <1>2. PICK c \in Values[j] : \E d \in Documents : Fails(c, d)
    BY <1>1
  <1>3. PICK d \in Documents : Fails(c, d)
    BY <1>2
  <1>4. c \in Documents
    BY <1>1, ValuesGrowTo, DocumentsClosed DEF Documents
  <1>5. ASSUME NEW a \in Children(c), NEW b \in Children(d)
        PROVE  Matches(Bytes(r, a), Meaning[a], Bytes(r, b), Meaning[b])
    <2>1. j - 1 \in Nat /\ a \in Values[j - 1] /\ j - 1 <= MaxSize
      BY <1>1, ChildrenBelow, DocumentsClosed
    <2>2. j - 1 \notin Bad
      BY <1>1, <2>1
    <2>3. Accepts(r, a) /\ Accepts(r, b) /\ b \in Documents
      BY <1>3, <1>4, AcceptsChild
    <2>4. ~ Fails(a, b)
      <3> HIDE DEF Fails
      <3> QED
        BY <2>1, <2>2, <2>3
    <2> QED
      BY <2>3, <2>4
  <1> HIDE DEF Bad
  <1> QED
    BY <1>3, <1>4, <1>5, OneStep

(* Whatever an edit does to a document, however large it is, a program     *)
(* writes other bytes exactly when the document says something else: the   *)
(* bytes can be read back, token by token, in one way only                 *)
(* (canonical.py:31-63).                                                   *)
THEOREM DigestsSeparateCorrect == DocSpec => DigestsSeparate
  <1> DEFINE Step == \A r \in Runtimes :
                 CanHold(r) /\ Accepts(r, doc) /\ CanHold(r)' /\ Accepts(r, doc')
                 => (Bytes(r, doc) = Bytes(r, doc') <=> Meaning[doc] = Meaning[doc'])
  <1>1. ASSUME doc \in Documents, DocNext PROVE doc' \in Documents
    BY <1>1 DEF DocNext, Put, MoveToEnd, Delete, Nest, Retype, Rename, Become
  <1>2. doc \in Documents /\ [DocNext]_doc => [Step]_doc
    <2>1. ASSUME doc \in Documents, DocNext, NEW r \in Runtimes, Accepts(r, doc), Accepts(r, doc')
          PROVE  Bytes(r, doc) = Bytes(r, doc') <=> Meaning[doc] = Meaning[doc']
      <3>1. doc' \in Documents
        BY <1>1, <2>1
      <3>2. doc \in Values[MaxSize] /\ MaxSize \in Nat /\ MaxSize <= MaxSize
        BY <2>1, DocumentsClosed DEF Documents
      <3> QED
        BY <2>1, <3>1, <3>2, AllMatch DEF Matches
    <2> QED
      BY <2>1
  <1> QED
    BY <1>2, DocumentsOnly, PTL DEF DocSpec, DigestsSeparate
=============================================================================
