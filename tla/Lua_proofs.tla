------------------------------ MODULE Lua_proofs ------------------------------
(***************************************************************************)
(* What holds of the tables of the Lua interpreter for every size of their *)
(* parts, every hash function, program and seed, and of the manager of the *)
(* VM for any stoppers, readers, kinds of scripts and number of VMs.       *)
(*                                                                         *)
(* Tables: every used node is on the chain from its main position, a key   *)
(* is alive in one node at most, and a rank grows along every chain, so    *)
(* that a search ends.  An insertion, a move of a node, a rehash and a     *)
(* collection keep this, and the key that is read is then the one node, or *)
(* the one element of the array part, that has it.                         *)
(*                                                                         *)
(* Manager: the lock is held from the first look at L to the last, and a   *)
(* stop that has begun keeps its mark on every job that clears the flag    *)
(* before the stop is over.                                                *)
(***************************************************************************)
EXTENDS LuaManager, LuaTable, FunctionTheorems, FiniteSetTheorems, WellFoundedInduction, TLAPS

-------------------------------------------------------------------------------
(* Tables: induction. *)

\* Induction over the natural numbers, for a set.
Hereditary(S) == 0 \in S /\ \A n \in Nat : n \in S => n + 1 \in S
\* A hereditary set has every natural number.
LEMMA StepByStep == ASSUME NEW S, Hereditary(S) PROVE \A n \in Nat : n \in S
<1> DEFINE Below == OpToRel(<, Nat)
<1> SUFFICES ASSUME Nat \ S # {} PROVE FALSE
  OBVIOUS
<1>1. PICK c \in Nat \ S : \A d \in Nat : <<d, c>> \in Below => d \notin Nat \ S
  BY NatLessThanWellFounded, WFMin, Zenon
<1>2. c # 0 /\ c - 1 \in Nat /\ c - 1 < c
  BY DEF Hereditary
<1>3. <<c - 1, c>> \in Nat \X Nat /\ <<c - 1, c>>[1] = c - 1 /\ <<c - 1, c>>[2] = c
  BY <1>2
<1>4. <<c - 1, c>> \in Below
  BY <1>2, <1>3, Zenon DEF OpToRel
<1>5. c - 1 \in S
  BY <1>1, <1>2, <1>4
<1> QED BY <1>2, <1>5 DEF Hereditary

\* What is less than a number, for a number, has a least member.
LEMMA LeastExists ==
    ASSUME NEW S, S # {}, S \subseteq Nat
    PROVE  \E c \in S : \A d \in S : c <= d
<1> DEFINE Q == {n \in Nat : \A d \in S : n <= d}
<1>1. SUFFICES ASSUME \A c \in S : \E d \in S : ~(c <= d) PROVE FALSE
  OBVIOUS
<1>2. 0 \in Q
  OBVIOUS
<1>3. ASSUME NEW n \in Nat, n \in Q PROVE n + 1 \in Q
  <2>1. n \notin S
    BY <1>1, <1>3
  <2>2. \A d \in S : n <= d /\ d # n /\ d \in Nat
    BY <1>3, <2>1
  <2>3. \A d \in S : n + 1 <= d
    BY <2>2
  <2> QED BY <2>3
<1>4. \A n \in Nat : n \in Q
  <2>1. Hereditary(Q)
    BY <1>2, <1>3 DEF Hereditary
  <2> HIDE DEF Q
  <2> QED BY <2>1, StepByStep
<1>5. PICK d \in S : TRUE
  OBVIOUS
<1>6. d + 1 \in Q
  BY <1>4, <1>5
<1> QED BY <1>5, <1>6

\* What Min gives.
LEMMA MinIs ==
    ASSUME NEW S, S # {}, S \subseteq Nat
    PROVE  Min(S) \in S /\ \A d \in S : Min(S) <= d
BY LeastExists DEF Min

\* What Max gives, of a set with an upper bound.
LEMMA MaxIs ==
    ASSUME NEW S, S # {}, NEW b \in Nat, S \subseteq 0 .. b
    PROVE  Max(S) \in S /\ \A d \in S : Max(S) >= d
<1> DEFINE R == {b - d : d \in S}
<1>1. R # {} /\ R \subseteq Nat
  <2>1. \A d \in S : d \in 0 .. b /\ b - d \in Nat
    OBVIOUS
  <2>2. R \subseteq Nat
    BY <2>1
  <2>3. \A d \in S : b - d \in R
    OBVIOUS
  <2> HIDE DEF R
  <2> QED BY <2>2, <2>3
<1>2. PICK c \in R : \A d \in R : c <= d
  <2> HIDE DEF R
  <2> QED BY <1>1, LeastExists
<1>3. PICK e \in S : c = b - e
  OBVIOUS
<1>4. \A d \in S : d \in Int /\ b - d \in R /\ b - e <= b - d
  BY <1>2, <1>3
<1>5. e \in Int /\ b \in Int
  BY <1>3, <1>4
<1>6. \A d \in S : e >= d
  BY ONLY <1>4, <1>5
<1> QED BY <1>3, <1>6 DEF Max

-------------------------------------------------------------------------------
(* Recursive functions. *)

\* A function that is given by its first value and by a step has such values.
LEMMA ChainIs ==
    ASSUME NEW T, T.size \in Nat, NEW n
    PROVE  /\ Chain(T, n)[0] = n
           /\ \A k \in 1 .. T.size : Chain(T, n)[k] = Link(T, Chain(T, n)[k - 1])
<1> DEFINE Is(f, m) == f = [k \in 0 .. m |-> IF k = 0 THEN n ELSE Link(T, f[k - 1])]
           Q == {m \in Nat : \E f : Is(f, m)}
<1>1. 0 \in Q
  <2>1. Is([k \in 0 .. 0 |-> n], 0)
    OBVIOUS
  <2> QED BY <2>1
<1>2. \A m \in Nat : m \in Q => m + 1 \in Q
  <2> SUFFICES ASSUME NEW m \in Nat, NEW f, Is(f, m) PROVE m + 1 \in Q
    OBVIOUS
  <2> DEFINE h == [k \in 0 .. m + 1 |-> IF k = m + 1 THEN Link(T, f[m]) ELSE f[k]]
  <2>1. \A k \in 0 .. m : h[k] = f[k]
    OBVIOUS
  <2>2. \A k \in 0 .. m : f[k] = IF k = 0 THEN n ELSE Link(T, f[k - 1])
    BY Zenon
  <2>3. \A k \in 0 .. m + 1 : h[k] = IF k = 0 THEN n ELSE Link(T, h[k - 1])
    BY <2>1, <2>2
  <2>4. h = [k \in 0 .. m + 1 |-> IF k = 0 THEN n ELSE Link(T, h[k - 1])]
    BY <2>3
  <2> HIDE DEF h
  <2> QED BY <2>4
<1>3. PICK f : Is(f, T.size)
  <2>1. Hereditary(Q)
    BY <1>1, <1>2 DEF Hereditary
  <2>2. T.size \in Q
    <3> HIDE DEF Q
    <3> QED BY <2>1, StepByStep
  <2> QED BY <2>2
<1>4. Is(Chain(T, n), T.size)
  BY <1>3 DEF Chain
<1> QED BY <1>4

\* The powers of two.
LEMMA TwoToIs ==
    /\ twoto[0] = 1
    /\ \A i \in Nat : twoto[i] \in Nat /\ twoto[i + 1] = 2 * twoto[i] /\ twoto[i] > i
<1> DEFINE Is(f, m) == f = [i \in 0 .. m |-> IF i = 0 THEN 1 ELSE 2 * f[i - 1]]
           Q == {m \in Nat : \E f : Is(f, m)}
<1>1. 0 \in Q
  <2>1. Is([k \in 0 .. 0 |-> 1], 0)
    OBVIOUS
  <2> QED BY <2>1
<1>2. \A m \in Nat : m \in Q => m + 1 \in Q
  <2> SUFFICES ASSUME NEW m \in Nat, NEW f, Is(f, m) PROVE m + 1 \in Q
    OBVIOUS
  <2> DEFINE h == [k \in 0 .. m + 1 |-> IF k = m + 1 THEN 2 * f[m] ELSE f[k]]
  <2>1. \A k \in 0 .. m : h[k] = f[k]
    OBVIOUS
  <2>2. \A k \in 0 .. m : f[k] = IF k = 0 THEN 1 ELSE 2 * f[k - 1]
    BY Zenon
  <2>3. \A k \in 0 .. m + 1 : h[k] = IF k = 0 THEN 1 ELSE 2 * h[k - 1]
    BY <2>1, <2>2
  <2>4. h = [k \in 0 .. m + 1 |-> IF k = 0 THEN 1 ELSE 2 * h[k - 1]]
    BY <2>3
  <2> HIDE DEF h
  <2> QED BY <2>4
<1>3. \A m \in Nat : \E f : Is(f, m)
  <2>1. Hereditary(Q)
    BY <1>1, <1>2 DEF Hereditary
  <2>2. \A m \in Nat : m \in Q
    <3> HIDE DEF Q
    <3> QED BY <2>1, StepByStep
  <2> QED BY <2>2
<1> DEFINE F(m) == CHOOSE f : Is(f, m)
<1>4. \A m \in Nat : \A k \in 0 .. m : F(m)[k] = IF k = 0 THEN 1 ELSE 2 * F(m)[k - 1]
  <2> TAKE m \in Nat
  <2>1. Is(F(m), m)
    BY <1>3, Zenon
  <2> QED BY <2>1, Zenon
<1> DEFINE Same == {k \in Nat : \A m \in Nat : k <= m => F(m)[k] = F(k)[k]}
<1>5. \A k \in Nat : k \in Same
  <2> HIDE DEF F
  <2>1. 0 \in Same
    BY <1>4
  <2>2. ASSUME NEW k \in Nat, k \in Same PROVE k + 1 \in Same
    <3>1. \A m \in Nat : k + 1 <= m => F(m)[k + 1] = 2 * F(k)[k]
      BY <1>4, <2>2
    <3> QED BY <3>1
  <2>3. Hereditary(Same)
    BY <2>1, <2>2 DEF Hereditary
  <2> HIDE DEF Same
  <2> QED BY <2>3, StepByStep
<1> DEFINE g == [i \in Nat |-> F(i)[i]]
<1>6. g = [i \in Nat |-> IF i = 0 THEN 1 ELSE 2 * g[i - 1]]
  <2> HIDE DEF F
  <2>1. \A i \in Nat : F(i)[i] = IF i = 0 THEN 1 ELSE 2 * F(i - 1)[i - 1]
    BY <1>4, <1>5
  <2>2. \A i \in Nat : g[i] = IF i = 0 THEN 1 ELSE 2 * g[i - 1]
    BY <2>1
  <2> QED BY <2>2
<1>7. twoto = [i \in Nat |-> IF i = 0 THEN 1 ELSE 2 * twoto[i - 1]]
  <2> HIDE DEF g
  <2> QED BY <1>6 DEF twoto
<1>8. \A i \in Nat : twoto[i] = IF i = 0 THEN 1 ELSE 2 * twoto[i - 1]
  BY <1>7, Zenon
<1> DEFINE P == {i \in Nat : twoto[i] \in Nat /\ twoto[i] > i}
<1>9. \A i \in Nat : i \in P
  <2>1. Hereditary(P)
    BY <1>8 DEF Hereditary
  <2> HIDE DEF P
  <2> QED BY <2>1, StepByStep
<1> QED BY <1>8, <1>9

\* luaO_ceillog2: a power of two that is large enough.
LEMMA CeilLog2Is ==
    ASSUME NEW k \in Nat
    PROVE  CeilLog2(k) \in Nat /\ twoto[CeilLog2(k)] >= k
<1> DEFINE S == {i \in Nat : twoto[i] >= k}
<1>1. k \in S
  BY TwoToIs
<1>2. PICK i \in S : \A d \in S : i <= d
  <2>1. S # {} /\ S \subseteq Nat
    BY <1>1
  <2> HIDE DEF S
  <2> QED BY <2>1, LeastExists
<1>3. i \in 0 .. k /\ twoto[i] >= k /\ \A j \in 0 .. i - 1 : twoto[j] < k
  BY <1>1, <1>2, TwoToIs
<1> QED BY <1>3 DEF CeilLog2

-------------------------------------------------------------------------------
(* Keys. *)

\* The keys there may be: every integer, and the keys of the programs as they
\* are stored, but for those that are refused.
AllKeys == ({<<"int", i>> : i \in Integer} \cup {NormKey(k) : k \in UNION {p.keys : p \in Programs}}) \ {Nil, NaN}

\* A stored key is an integer in range, a Boolean, or has a hash.
LEMMA KeyShape ==
    ASSUME NEW k \in AllKeys
    PROVE  /\ k # Nil /\ k # NaN /\ k[1] # "dead" /\ k[1] # "nil" /\ k[1] # "nan"
           /\ \/ k[1] = "int" /\ k[2] \in Integer /\ k = <<"int", k[2]>>
              \/ k[1] = "bool"
              \/ k[1] \in {"str", "obj", "flt"} /\ HashOf(k) \in Nat
<1>1. CASE \E i \in Integer : k = <<"int", i>>
  BY <1>1 DEF AllKeys, Nil, NaN
<1>2. CASE \E p \in Programs : \E q \in p.keys : k = NormKey(q)
  <2>1. PICK p \in Programs : \E q \in p.keys : k = NormKey(q)
    BY <1>2
  <2>a. PICK q \in p.keys : k = NormKey(q)
    BY <2>1
  <2>2. k # Nil /\ k # NaN
    BY DEF AllKeys
  <2>3. CASE q[1] = "flt" /\ q[2] % 2 = 0
    <3>1. k = <<"int", q[2] \div 2>>
      BY <2>a, <2>3 DEF NormKey
    <3>2. q # NaN /\ q # Nil
      BY <2>3 DEF NaN, Nil
    <3>3. q[2] \div 2 \in Integer
      BY <2>1, <2>3, <3>2, ProgramsAssumption
    <3> QED BY <2>2, <3>1, <3>3 DEF Nil, NaN
  <2>4. CASE ~(q[1] = "flt" /\ q[2] % 2 = 0)
    <3>1. k = q
      BY <2>a, <2>4 DEF NormKey
    <3> QED BY <2>1, <2>2, <3>1, ProgramsAssumption
  <2> QED BY <2>3, <2>4
<1> QED BY <1>1, <1>2 DEF AllKeys

\* No key is a dead one.
LEMMA DeadShape ==
    /\ \A k \in AllKeys : \A x : k # <<"dead", x>>
    /\ \A x : <<"dead", x>> # Nil /\ <<"dead", x>>[1] = "dead" /\ <<"dead", x>>[2] = x
<1>1. ASSUME NEW k \in AllKeys, NEW x PROVE k # <<"dead", x>>
  BY KeyShape
<1> QED BY <1>1 DEF Nil

\* A remainder is below its modulus.
LEMMA Remainder == ASSUME NEW h \in Int, NEW n \in Nat \ {0} PROVE h % n \in 0 .. n - 1
OBVIOUS

\* The main position of a key is a node.
LEMMA HomeIn ==
    ASSUME NEW T, T.size \in Nat \ {0}, NEW k, k \in AllKeys \/ (k = NaN /\ HashOf(k) \in Nat)
    PROVE  mainpositionTV(T, k) \in Nodes(T)
<1> DEFINE n == IF T.size = 1 THEN 1 ELSE T.size - 1
<1>1. n \in Nat \ {0} /\ n <= T.size /\ MaxInteger \in Nat
  BY SizesAssumption
<1>2. 2 * (MaxInteger + 1) \in Nat \ {0}
  BY <1>1
<1>3. CASE k[1] = "int"
  <2>1. k[2] \in Int /\ k \in AllKeys
    BY <1>1, <1>3, KeyShape DEF Integer, NaN
  <2> DEFINE w == 2 * (MaxInteger + 1)
  <2>4. k[2] % w \in 0 .. w - 1
    <3> HIDE DEF w
    <3> QED BY <1>2, <2>1, Remainder DEF w
  <2>2. Unsigned(k[2]) \in Int
    BY <2>4 DEF Unsigned
  <2>3. Unsigned(k[2]) % n \in 0 .. n - 1
    BY <1>1, <2>2, Remainder
  <2> QED BY <1>1, <1>3, <2>3 DEF mainpositionTV, hashmod, Nodes
<1>4. CASE k[1] = "bool"
  <2> DEFINE h == IF k[2] THEN 1 ELSE 0
  <2>2. h \in Int
    OBVIOUS
  <2>1. h % T.size \in 0 .. T.size - 1
    <3> HIDE DEF h
    <3> QED BY <2>2, Remainder
  <2> QED BY <1>4, <2>1 DEF mainpositionTV, hashpow2, Nodes
<1>5. CASE k[1] # "int" /\ k[1] # "bool"
  <2>1. HashOf(k) \in Int
    BY <1>5, KeyShape DEF NaN
  <2>2. HashOf(k) % T.size \in 0 .. T.size - 1 /\ HashOf(k) % n \in 0 .. n - 1
    BY <1>1, <2>1, Remainder
  <2> HIDE DEF n
  <2>3. CASE k[1] = "str"
    BY <2>2, <2>3 DEF mainpositionTV, hashpow2, Nodes
  <2>4. CASE k[1] # "str"
    BY <1>1, <1>5, <2>2, <2>4 DEF mainpositionTV, hashmod, Nodes, n
  <2> QED BY <2>3, <2>4
<1> QED BY <1>3, <1>4, <1>5

-------------------------------------------------------------------------------
(* The chains of the hash part. *)

Used(T, n) == Node(T, n).key # Nil
Full(T, n) == Node(T, n).val # Empty
Bare(k) == IF k[1] = "dead" THEN k[2] ELSE k
Home(T, n) == mainpositionTV(T, Bare(Node(T, n).key))

NodeKeys == AllKeys \cup {Nil} \cup {<<"dead", k>> : k \in AllKeys}
NodeType == [key : NodeKeys, val : Values \cup {Empty}, next : Int]
HashType(T) == T.size \in Nat \ {0} /\ T.node \in [Nodes(T) -> NodeType]

\* What a set of nodes closed under the links has, if it has a, has b.
Closed(T, S) == \A n \in S : Link(T, n) # Absent => Link(T, n) \in S
Reaches(T, a, b) == \A S \in SUBSET Nodes(T) : a \in S /\ Closed(T, S) => b \in S

\* Links lead from used nodes to used nodes, no two to the same; a free node is
\* empty, and what has a value has a key that is not dead.
Linked(T) ==
    /\ \A n \in Nodes(T) :
          /\ Link(T, n) # Absent => Link(T, n) \in Nodes(T) /\ Used(T, n) /\ Used(T, Link(T, n))
          /\ Full(T, n) => Node(T, n).key \in AllKeys
    /\ \A n, m \in Nodes(T) : Link(T, n) # Absent /\ Link(T, n) = Link(T, m) => n = m
\* A node is on the chain that starts in its main position, and the node there
\* is in its own main position.
Headed(T) ==
    \A n \in Nodes(T) : Used(T, n) =>
        /\ Used(T, Home(T, n)) /\ Home(T, Home(T, n)) = Home(T, n)
        /\ Reaches(T, Home(T, n), n)
\* A key is in one node, but for nodes where it is dead.
Single(T) == \A n, m \in Nodes(T) : Node(T, n).key \in AllKeys /\ Node(T, n).key = Node(T, m).key => n = m
\* r grows along the chains, and from a key to the nodes where it is dead.
Ordered(T, r) ==
    /\ r \in [Nodes(T) -> Nat]
    /\ \A n \in Nodes(T) : Link(T, n) # Absent => r[n] < r[Link(T, n)]
    /\ \A n, m \in Nodes(T) : Node(T, n).key \in AllKeys /\ Node(T, m).key = <<"dead", Node(T, n).key>> => r[n] < r[m]
Chained(T, r) == HashType(T) /\ Linked(T) /\ Headed(T) /\ Single(T) /\ Ordered(T, r)

\* A hash part has as many nodes as its size says.
LEMMA NodesFinite ==
    ASSUME NEW T, T.size \in Nat
    PROVE  IsFiniteSet(Nodes(T)) /\ Cardinality(Nodes(T)) = T.size
<1>1. 0 \in Int /\ T.size - 1 \in Int
  OBVIOUS
<1>2. IsFiniteSet(0 .. T.size - 1) /\ Cardinality(0 .. T.size - 1) = IF 0 > T.size - 1 THEN 0 ELSE T.size - 1 - 0 + 1
  BY <1>1, FS_Interval
<1> QED BY <1>2 DEF Nodes

\* The chain from a node grows in r, ends, and has every node that is reached.
LEMMA Positions ==
    ASSUME NEW T, NEW r, HashType(T), Linked(T), Ordered(T, r), NEW a \in Nodes(T)
    PROVE  /\ \A k \in 0 .. T.size : Chain(T, a)[k] \in Nodes(T) \cup {Absent}
           /\ \A j, k \in 0 .. T.size : j < k /\ Chain(T, a)[k] # Absent =>
                 Chain(T, a)[j] # Absent /\ r[Chain(T, a)[j]] < r[Chain(T, a)[k]]
           /\ Chain(T, a)[T.size] = Absent
           /\ \A b \in Nodes(T) : Reaches(T, a, b) => \E k \in Nodes(T) : Chain(T, a)[k] = b
<1> DEFINE c == Chain(T, a)
           N == T.size
           Q == {k \in Nat : k <= N => c[k] \in Nodes(T) \cup {Absent}}
<1>1. N \in Nat \ {0} /\ r \in [Nodes(T) -> Nat] /\ Absent \notin Nodes(T) /\ Nodes(T) = 0 .. N - 1
  BY DEF HashType, Ordered, Nodes, Absent
<1>2. c[0] = a /\ \A k \in 1 .. N : c[k] = Link(T, c[k - 1])
  BY <1>1, ChainIs
<1> HIDE DEF c
<1>3. \A k \in Nat : k \in Q
  <2>1. 0 \in Q
    BY <1>2
  <2>2. ASSUME NEW k \in Nat, k \in Q, k + 1 <= N PROVE c[k + 1] \in Nodes(T) \cup {Absent}
    <3>1. c[k + 1] = Link(T, c[k]) /\ c[k] \in Nodes(T) \cup {Absent}
      BY <1>1, <1>2, <2>2
    <3> QED BY <3>1 DEF Linked, Link
  <2>3. Hereditary(Q)
    BY <2>1, <2>2, <1>1 DEF Hereditary
  <2> HIDE DEF Q
  <2> QED BY <2>3, StepByStep
<1>4. \A k \in 0 .. N : c[k] \in Nodes(T) \cup {Absent}
  BY <1>1, <1>3
<1>5. ASSUME NEW k \in 1 .. N, c[k] # Absent
      PROVE  c[k - 1] \in Nodes(T) /\ r[c[k - 1]] < r[c[k]]
  <2>1. c[k] = Link(T, c[k - 1]) /\ k - 1 \in 0 .. N
    BY <1>1, <1>2
  <2>2. c[k - 1] \in Nodes(T)
    BY <1>4, <1>5, <2>1 DEF Link
  <2> QED BY <1>5, <2>1, <2>2 DEF Ordered
<1> DEFINE Up == {k \in Nat : k <= N /\ c[k] # Absent => \A j \in 0 .. k - 1 : c[j] # Absent /\ r[c[j]] < r[c[k]]}
<1>6. \A k \in Nat : k \in Up
  <2>1. 0 \in Up
    OBVIOUS
  <2>2. ASSUME NEW k \in Nat, k \in Up, k + 1 <= N, c[k + 1] # Absent, NEW j \in 0 .. k
        PROVE  c[j] # Absent /\ r[c[j]] < r[c[k + 1]]
    <3>1. c[k] \in Nodes(T) /\ r[c[k]] < r[c[k + 1]] /\ c[k] # Absent
      BY <1>1, <1>5, <2>2
    <3>2. CASE j = k
      BY <3>1, <3>2
    <3>3. CASE j # k
      <4>1. c[j] # Absent /\ r[c[j]] < r[c[k]] /\ k + 1 \in 0 .. N /\ j \in 0 .. N
        BY <1>1, <2>2, <3>1, <3>3
      <4>2. r[c[j]] \in Nat /\ r[c[k]] \in Nat /\ r[c[k + 1]] \in Nat
        BY <1>1, <1>4, <2>2, <3>1, <4>1
      <4> QED BY <3>1, <4>1, <4>2
    <3> QED BY <3>2, <3>3
  <2>4. ASSUME NEW k \in Nat, k \in Up PROVE k + 1 \in Up
    <3>1. k + 1 \in Nat /\ (k + 1) - 1 = k
      OBVIOUS
    <3> QED BY <2>2, <2>4, <3>1
  <2>3. Hereditary(Up)
    BY <2>1, <2>4 DEF Hereditary
  <2> HIDE DEF Up
  <2> QED BY <2>3, StepByStep
<1>7. ASSUME NEW j \in 0 .. N, NEW k \in 0 .. N, j < k, c[k] # Absent
      PROVE  c[j] # Absent /\ r[c[j]] < r[c[k]]
  BY <1>1, <1>6, <1>7
<1>8. c[N] = Absent
  <2> SUFFICES ASSUME c[N] # Absent PROVE FALSE
    OBVIOUS
  <2> DEFINE f == [k \in 0 .. N |-> c[k]]
  <2>1. f \in [0 .. N -> Nodes(T)]
    BY <1>1, <1>4, <1>7
  <2>2. IsFiniteSet(0 .. N) /\ Cardinality(0 .. N) = N + 1
    <3>1. 0 \in Int /\ N \in Int
      BY <1>1
    <3>2. IsFiniteSet(0 .. N) /\ Cardinality(0 .. N) = IF 0 > N THEN 0 ELSE N - 0 + 1
      BY <3>1, FS_Interval
    <3> QED BY <1>1, <3>2
  <2>3. IsFiniteSet(Nodes(T)) /\ Cardinality(Nodes(T)) < Cardinality(0 .. N)
    BY <1>1, <2>2, NodesFinite
  <2> HIDE DEF f
  <2>4. PICK j, k \in 0 .. N : j # k /\ f[j] = f[k]
    BY <2>1, <2>2, <2>3, FS_PigeonHole
  <2>5. r[c[j]] \in Nat /\ c[j] = c[k] /\ c[j] # Absent
    BY <1>1, <2>1, <2>4 DEF f
  <2> QED BY <1>1, <1>7, <2>4, <2>5
<1>9. ASSUME NEW b \in Nodes(T), Reaches(T, a, b)
      PROVE  \E k \in Nodes(T) : c[k] = b
  <2> DEFINE S == {n \in Nodes(T) : \E k \in Nodes(T) : c[k] = n}
  <2>1. a \in S
    BY <1>1, <1>2
  <2>2. ASSUME NEW n \in S, Link(T, n) # Absent PROVE Link(T, n) \in S
    <3>1. PICK k \in Nodes(T) : c[k] = n
      OBVIOUS
    <3>2. c[k + 1] = Link(T, n) /\ k + 1 \in 1 .. N
      BY <1>1, <1>2, <3>1, SMTT(30)
    <3>3. k + 1 # N
      BY <1>8, <2>2, <3>2
    <3> QED BY <1>1, <1>4, <2>2, <3>2, <3>3
  <2>3. Closed(T, S) /\ S \in SUBSET Nodes(T)
    BY <2>2 DEF Closed
  <2>4. b \in S
    <3> HIDE DEF S
    <3> QED BY <1>9, <2>1, <2>3 DEF Reaches
  <2> QED BY <2>4
<1> QED BY <1>4, <1>7, <1>8, <1>9 DEF c

\* getgeneric finds the first of the nodes that have the key.
Finds(T, r, key, deadok, g) ==
    /\ g = Absent => \A n \in Nodes(T) : Reaches(T, mainpositionTV(T, key), n) => ~equalkey(key, Node(T, n), deadok)
    /\ g # Absent =>
          /\ g \in Nodes(T) /\ equalkey(key, Node(T, g), deadok)
          /\ \A n \in Nodes(T) : Reaches(T, mainpositionTV(T, key), n) /\ equalkey(key, Node(T, n), deadok) => r[g] <= r[n]
\* getgeneric walks the chain from the main position and stops at the first hit.
LEMMA GetGenericFinds ==
    ASSUME NEW T, NEW r, HashType(T), Linked(T), Ordered(T, r), NEW key, NEW deadok,
           mainpositionTV(T, key) \in Nodes(T)
    PROVE  Finds(T, r, key, deadok, getgeneric(T, key, deadok))
<1> DEFINE a == mainpositionTV(T, key)
           c == Chain(T, a)
           Hit(n) == n # Absent /\ equalkey(key, Node(T, n), deadok)
           hits == {k \in Nodes(T) : Hit(c[k])}
           g == IF hits = {} THEN Absent ELSE c[Min(hits)]
<1>1. Nodes(T) \subseteq Nat /\ Nodes(T) \subseteq 0 .. T.size /\ Absent \notin Nodes(T) /\ r \in [Nodes(T) -> Nat]
  BY DEF HashType, Nodes, Ordered, Absent
<1>2. getgeneric(T, key, deadok) = g
  BY DEF getgeneric
<1>3. /\ \A k \in Nodes(T) : c[k] \in Nodes(T) \cup {Absent}
      /\ \A j, k \in Nodes(T) : j < k /\ c[k] # Absent => c[j] # Absent /\ r[c[j]] < r[c[k]]
      /\ \A b \in Nodes(T) : Reaches(T, a, b) => \E k \in Nodes(T) : c[k] = b
  <2> HIDE DEF a
  <2>1. a \in Nodes(T)
    BY DEF a
  <2> QED BY <1>1, <2>1, Positions
<1> HIDE DEF a, c
<1>4. hits # {} => Min(hits) \in hits /\ \A k \in hits : Min(hits) <= k
  <2>1. hits \subseteq Nat
    BY <1>1
  <2> HIDE DEF hits
  <2> QED BY <2>1, MinIs
<1>5. ASSUME NEW n \in Nodes(T), Reaches(T, a, n), equalkey(key, Node(T, n), deadok)
      PROVE  \E k \in hits : c[k] = n
  BY <1>1, <1>3, <1>5
<1>6. CASE hits = {}
  BY <1>2, <1>5, <1>6 DEF Finds, a, Absent
<1>7. CASE hits # {}
  <2> DEFINE k0 == Min(hits)
  <2>1. k0 \in hits /\ \A k \in hits : k0 <= k
    BY <1>4, <1>7
  <2>2. g = c[k0] /\ c[k0] \in Nodes(T) /\ equalkey(key, Node(T, c[k0]), deadok) /\ k0 \in Nodes(T)
    BY <1>3, <1>7, <2>1
  <2> HIDE DEF k0
  <2>3. ASSUME NEW n \in Nodes(T), Reaches(T, a, n), equalkey(key, Node(T, n), deadok)
        PROVE  r[c[k0]] <= r[n]
    <3>1. PICK k \in hits : c[k] = n
      BY <1>5, <2>3
    <3>2. k0 <= k /\ k \in Nodes(T) /\ r[n] \in Nat
      BY <1>1, <2>1
    <3>3. CASE k = k0
      BY <3>1, <3>2, <3>3
    <3>4. CASE k # k0
      <4>1. k0 < k
        BY <1>1, <2>2, <3>2, <3>4
      <4>2. r[c[k0]] < r[n]
        BY <1>1, <1>3, <2>2, <3>1, <3>2, <4>1
      <4> QED BY <1>1, <2>2, <3>2, <4>2
    <3> QED BY <3>3, <3>4
  <2> HIDE DEF hits
  <2> QED BY <1>1, <1>2, <2>2, <2>3 DEF Finds, a
<1> QED BY <1>6, <1>7

-------------------------------------------------------------------------------
(* Insertion into the hash part. *)

\* Links that stay keep what is reached.
LEMMA ReachesUp ==
    ASSUME NEW T, NEW r, HashType(T), Linked(T), Ordered(T, r), NEW a \in Nodes(T), NEW b \in Nodes(T), Reaches(T, a, b)
    PROVE  b = a \/ r[a] < r[b]
<1> DEFINE S == {n \in Nodes(T) : n = a \/ r[a] < r[n]}
<1>1. ASSUME NEW n \in S, Link(T, n) # Absent PROVE Link(T, n) \in S
  <2>1. Link(T, n) \in Nodes(T) /\ r[n] < r[Link(T, n)]
    BY <1>1 DEF Linked, Ordered
  <2>2. r[a] \in Nat /\ r[n] \in Nat /\ r[Link(T, n)] \in Nat
    BY <2>1 DEF Ordered
  <2> QED BY <2>1, <2>2
<1>2. S \in SUBSET Nodes(T) /\ a \in S /\ Closed(T, S)
  BY <1>1 DEF Closed
<1>3. b \in S
  <2> HIDE DEF S
  <2> QED BY <1>2 DEF Reaches
<1> QED BY <1>3

\* The main position depends on the size alone.
LEMMA SameMain == ASSUME NEW T, NEW T2, T2.size = T.size, NEW k PROVE mainpositionTV(T2, k) = mainpositionTV(T, k)
BY DEF mainpositionTV, hashpow2, hashmod

\* A used node has a key, alive or dead, and a main position.
LEMMA UsedIs ==
    ASSUME NEW T, HashType(T), NEW n \in Nodes(T)
    PROVE  /\ Node(T, n) \in NodeType
           /\ Used(T, n) => Bare(Node(T, n).key) \in AllKeys /\ Home(T, n) \in Nodes(T)
           /\ Node(T, n).key \in AllKeys => Bare(Node(T, n).key) = Node(T, n).key
           /\ \A k \in AllKeys : Node(T, n).key = <<"dead", k>> => Bare(Node(T, n).key) = k
<1>1. Node(T, n) \in NodeType /\ T.size \in Nat \ {0}
  BY DEF HashType, Node
<1>2. ASSUME NEW k \in AllKeys PROVE Bare(k) = k /\ Bare(<<"dead", k>>) = k
  BY KeyShape, DeadShape DEF Bare
<1>3. Used(T, n) => Bare(Node(T, n).key) \in AllKeys
  BY <1>1, <1>2 DEF NodeType, NodeKeys, Used
<1>4. Used(T, n) => Home(T, n) \in Nodes(T)
  BY <1>1, <1>3, HomeIn DEF Home
<1> QED BY <1>1, <1>2, <1>3, <1>4

\* The type of a hash part, node by node.
LEMMA HashTypeIs ==
    ASSUME NEW T, HashType(T), NEW T2, T2.size = T.size, T2.node = [n \in Nodes(T) |-> Node(T2, n)],
           \A n \in Nodes(T) : Node(T2, n) \in NodeType
    PROVE  HashType(T2)
<1>1. Nodes(T2) = Nodes(T) /\ T2.size \in Nat \ {0}
  BY DEF HashType, Nodes
<1>2. [n \in Nodes(T) |-> Node(T2, n)] \in [Nodes(T) -> NodeType]
  OBVIOUS
<1> QED BY <1>1, <1>2 DEF HashType

\* What is in the nodes of T2 is what is in those of T, and the new key.
Same(T, n, T2, m) == Node(T2, m).key = Node(T, n).key /\ Node(T2, m).val = Node(T, n).val
IsAt(T, n, key, v) == Node(T, n).key = key /\ Node(T, n).val = v
Puts(T, T2, key, v) ==
    /\ T2.size = T.size
    /\ \A m \in Nodes(T2) : IsAt(T2, m, key, v) \/ \E n \in Nodes(T) : Same(T, n, T2, m)
    /\ \A n \in Nodes(T) : Full(T, n) => \E m \in Nodes(T2) : Same(T, n, T2, m)
    /\ \E m \in Nodes(T2) : IsAt(T2, m, key, v)
    /\ \A n \in Nodes(T) : Used(T, n) => Used(T2, n)

IsTable(T) == DOMAIN T = {"asize", "array", "hint", "size", "node", "dummy", "lastfree"}

\* The new key takes its main position.
InMain(T, mp, key, v) == [T EXCEPT !.node[mp] = NewNode(key, v, @.next)]
\* insertkey, where the main position is empty: the chains stay.
LEMMA InMainOK ==
    ASSUME NEW T, IsTable(T), NEW r, Chained(T, r), NEW key \in AllKeys, NEW v \in Values,
           NEW mp, mp = mainpositionTV(T, key), \A n \in Nodes(T) : Node(T, n).key # key, ~Full(T, mp)
    PROVE  Chained(InMain(T, mp, key, v), r) /\ Puts(T, InMain(T, mp, key, v), key, v)
<1> DEFINE T2 == InMain(T, mp, key, v)
<1>1. HashType(T) /\ Linked(T) /\ Headed(T) /\ Single(T) /\ Ordered(T, r)
  BY DEF Chained
<1>2. mp \in Nodes(T) /\ Absent \notin Nodes(T)
  BY <1>1, HomeIn DEF HashType, Absent, Nodes
<1>3. T2.size = T.size /\ T2.node = [T.node EXCEPT ![mp] = NewNode(key, v, @.next)] /\ Nodes(T2) = Nodes(T)
  BY DEF IsTable, InMain, Nodes
<1>4. /\ Node(T2, mp) = NewNode(key, v, Node(T, mp).next)
      /\ \A n \in Nodes(T) : n # mp => Node(T2, n) = Node(T, n)
  BY <1>1, <1>2, <1>3 DEF Node, HashType
<1>5. \A n \in Nodes(T) : Node(T2, n) \in NodeType
  BY <1>1, <1>2, <1>4, UsedIs DEF NewNode, NodeType, NodeKeys
<1>6. HashType(T2)
  <2>1. T2.node = [n \in Nodes(T) |-> Node(T2, n)]
    BY <1>1, <1>3 DEF Node, HashType
  <2> HIDE DEF T2
  <2> QED BY <1>1, <1>3, <1>5, <2>1, HashTypeIs
<1>7. Node(T2, mp).key = key /\ Node(T2, mp).val = v /\ Node(T2, mp).next = Node(T, mp).next
  BY <1>4 DEF NewNode
<1>8. \A n \in Nodes(T) : Link(T2, n) = Link(T, n)
  BY <1>4, <1>7 DEF Link
<1>9. key # Nil /\ v # Empty
  BY KeyShape, ProgramsAssumption
<1>10. \A n \in Nodes(T) : Used(T, n) => Used(T2, n)
  BY <1>4, <1>7, <1>9 DEF Used
<1>11. Home(T2, mp) = mp /\ \A n \in Nodes(T) : n # mp => Home(T2, n) = Home(T, n) /\ Used(T2, n) = Used(T, n) /\ Full(T2, n) = Full(T, n)
  <2>1. Bare(key) = key
    BY KeyShape DEF Bare
  <2> QED BY <1>3, <1>4, <1>7, <2>1, SameMain DEF Home, Used, Full
<1>12. \A a, b : Reaches(T, a, b) => Reaches(T2, a, b)
  BY <1>3, <1>8 DEF Reaches, Closed
<1> HIDE DEF T2
<1>13. Linked(T2)
  BY <1>1, <1>3, <1>4, <1>7, <1>8, <1>10, <1>11 DEF Linked
<1>14. Headed(T2)
  <2> SUFFICES ASSUME NEW n \in Nodes(T), Used(T2, n)
               PROVE  /\ Used(T2, Home(T2, n)) /\ Home(T2, Home(T2, n)) = Home(T2, n)
                      /\ Reaches(T2, Home(T2, n), n)
    BY <1>3 DEF Headed
  <2>1. CASE n = mp
    BY <1>9, <1>11, <1>7, <2>1 DEF Used, Reaches
  <2>2. CASE n # mp
    <3>1. Used(T, n) /\ Home(T2, n) = Home(T, n) /\ Home(T, n) \in Nodes(T)
      BY <1>1, <1>11, <2>2, UsedIs
    <3>2. Used(T, Home(T, n)) /\ Home(T, Home(T, n)) = Home(T, n) /\ Reaches(T, Home(T, n), n)
      BY <1>1, <3>1 DEF Headed
    <3> QED BY <1>10, <1>11, <1>12, <3>1, <3>2
  <2> QED BY <2>1, <2>2
<1>15. Single(T2)
  BY <1>1, <1>3, <1>4, <1>7 DEF Single
<1>16. Ordered(T2, r)
  <2>1. ASSUME NEW n \in Nodes(T), NEW m \in Nodes(T), Node(T2, n).key \in AllKeys, Node(T2, m).key = <<"dead", Node(T2, n).key>>
        PROVE  r[n] < r[m]
    <3>1. m # mp /\ Node(T, m).key = <<"dead", Node(T2, n).key>>
      BY <1>4, <1>7, <2>1, DeadShape
    <3>2. CASE n # mp
      BY <1>1, <1>4, <2>1, <3>1, <3>2 DEF Ordered
    <3>3. CASE n = mp
      <4>1. Used(T, m) /\ Bare(Node(T, m).key) = key
        BY <1>1, <1>7, <3>1, <3>3, UsedIs, DeadShape DEF Used
      <4>2. Reaches(T, mp, m)
        BY <1>1, <4>1 DEF Headed, Home
      <4> QED BY <1>1, <1>2, <3>1, <3>3, <4>2, ReachesUp
    <3> QED BY <3>2, <3>3
  <2> QED BY <1>1, <1>3, <1>8, <2>1 DEF Ordered
<1>17. Puts(T, T2, key, v)
  BY <1>2, <1>3, <1>4, <1>7, <1>10 DEF Puts, Same, IsAt, Full
<1> QED BY <1>6, <1>13, <1>14, <1>15, <1>16, <1>17 DEF Chained, T2

\* The new key goes to a free node that is linked behind the one in its main
\* position.
LEMMA ChainFreeOK ==
    ASSUME NEW T, IsTable(T), NEW r, Chained(T, r), NEW key \in AllKeys, NEW v \in Values,
           NEW mp, mp = mainpositionTV(T, key), \A n \in Nodes(T) : Node(T, n).key # key, Full(T, mp),
           mainpositionTV(T, Node(T, mp).key) = mp,
           NEW f \in Nodes(T), ~Used(T, f)
    PROVE  \E r2 :
                 /\ Chained(ChainFree(T, mp, f, key, v), r2)
                 /\ Puts(T, ChainFree(T, mp, f, key, v), key, v)
                 /\ Used(ChainFree(T, mp, f, key, v), f)
<1> DEFINE T2 == ChainFree(T, mp, f, key, v)
           r2 == [n \in Nodes(T) |-> IF n = f THEN 2 * r[mp] + 1 ELSE 2 * r[n]]
           new == IF Link(T, mp) = Absent THEN 0 ELSE Link(T, mp) - f
<1>1. HashType(T) /\ Linked(T) /\ Headed(T) /\ Single(T) /\ Ordered(T, r) /\ r \in [Nodes(T) -> Nat]
  BY DEF Chained, Ordered
<1>2. mp \in Nodes(T) /\ Absent \notin Nodes(T) /\ Nodes(T) \subseteq Int /\ Absent \in Int
  BY <1>1, HomeIn DEF HashType, Absent, Nodes
<1>3. key # Nil /\ v # Empty /\ Bare(key) = key
  BY KeyShape, ProgramsAssumption DEF Bare
<1>4. Node(T, mp).key \in AllKeys /\ Used(T, mp) /\ Home(T, mp) = mp /\ mp # f
  <2>1. Node(T, mp).key \in AllKeys
    BY <1>1, <1>2 DEF Linked
  <2> QED BY <1>1, <1>2, <2>1, UsedIs, KeyShape DEF Used, Home
<1>5. Link(T, f) = Absent /\ \A n \in Nodes(T) : Link(T, n) # f
  BY <1>1, <1>2 DEF Linked
<1>6. /\ T2.size = T.size /\ Nodes(T2) = Nodes(T)
      /\ T2.node = [[T.node EXCEPT ![f] = NewNode(key, v, new)] EXCEPT ![mp].next = f - mp]
  BY DEF IsTable, ChainFree, Nodes
<1>7. /\ Node(T2, f) = NewNode(key, v, new)
      /\ Node(T2, mp) = [Node(T, mp) EXCEPT !.next = f - mp]
      /\ \A n \in Nodes(T) : n # mp /\ n # f => Node(T2, n) = Node(T, n)
  BY <1>1, <1>2, <1>4, <1>6 DEF Node, HashType
<1>8. new \in Int /\ f - mp \in Int /\ f - mp # 0 /\ mp + (f - mp) = f /\ (Link(T, mp) # Absent => f + new = Link(T, mp) /\ new # 0)
  <2>1. Link(T, mp) # Absent => Link(T, mp) \in Int /\ Link(T, mp) # f
    BY <1>1, <1>2, <1>5 DEF Linked
  <2>2. f \in Int /\ mp \in Int /\ f # mp
    BY <1>2, <1>4
  <2> QED BY <2>1, <2>2
<1>9. /\ Node(T2, f).key = key /\ Node(T2, f).val = v /\ Node(T2, f).next = new
      /\ Node(T2, mp).key = Node(T, mp).key /\ Node(T2, mp).val = Node(T, mp).val /\ Node(T2, mp).next = f - mp
  BY <1>1, <1>2, <1>7, UsedIs DEF NewNode, NodeType
<1>21. \A n \in Nodes(T) : n # f => Node(T2, n).key = Node(T, n).key /\ Node(T2, n).val = Node(T, n).val
  BY <1>7, <1>9
<1>10. HashType(T2)
  <2>1. \A n \in Nodes(T) : Node(T2, n) \in NodeType
    BY <1>1, <1>2, <1>7, <1>8, UsedIs DEF NewNode, NodeType, NodeKeys
  <2>2. T2.node = [n \in Nodes(T) |-> Node(T2, n)]
    BY <1>1, <1>6 DEF Node, HashType
  <2> HIDE DEF T2
  <2> QED BY <1>1, <1>6, <2>1, <2>2, HashTypeIs
<1> HIDE DEF T2
<1>11. Link(T2, f) = Link(T, mp) /\ Link(T2, mp) = f /\ \A n \in Nodes(T) : n # mp /\ n # f => Link(T2, n) = Link(T, n)
  <2>1. Link(T2, f) = Link(T, mp)
    BY <1>2, <1>8, <1>9 DEF Link
  <2>2. Link(T2, mp) = f
    BY <1>2, <1>8, <1>9 DEF Link
  <2> QED BY <1>7, <2>1, <2>2 DEF Link
<1> HIDE DEF new
<1>12. /\ Used(T2, f) /\ \A n \in Nodes(T) : n # f => (Used(T2, n) <=> Used(T, n)) /\ (Full(T2, n) <=> Full(T, n))
       /\ \A n \in Nodes(T) : Used(T, n) => Used(T2, n)
  BY <1>3, <1>7, <1>9 DEF Used, Full
<1>13. Home(T2, f) = mp /\ \A n \in Nodes(T) : n # f => Home(T2, n) = Home(T, n)
  <2>1. Home(T2, f) = mp
    BY <1>3, <1>6, <1>9, SameMain DEF Home
  <2>2. \A n \in Nodes(T) : n # f => Home(T2, n) = Home(T, n)
    BY <1>6, <1>21, SameMain DEF Home
  <2> QED BY <2>1, <2>2
<1>14. ASSUME NEW a \in Nodes(T), NEW b \in Nodes(T), Reaches(T, a, b) PROVE Reaches(T2, a, b)
  <2> SUFFICES ASSUME NEW S \in SUBSET Nodes(T), a \in S, Closed(T2, S) PROVE b \in S
    BY <1>6 DEF Reaches
  <2>1. ASSUME NEW n \in S, Link(T, n) # Absent PROVE Link(T, n) \in S
    <3>1. CASE n = mp
      <4>1. f \in S
        BY <1>2, <1>11, <3>1 DEF Closed
      <4> QED BY <1>11, <2>1, <3>1, <4>1 DEF Closed
    <3>2. CASE n # mp
      BY <1>5, <1>11, <2>1, <3>2 DEF Closed
    <3> QED BY <3>1, <3>2
  <2> QED BY <1>14, <2>1 DEF Reaches, Closed
<1>15. Linked(T2)
  <2>1. ASSUME NEW n \in Nodes(T)
        PROVE  /\ Link(T2, n) # Absent => Link(T2, n) \in Nodes(T2) /\ Used(T2, n) /\ Used(T2, Link(T2, n))
               /\ Full(T2, n) => Node(T2, n).key \in AllKeys
    <3>1. CASE n = f
      BY <1>1, <1>2, <1>4, <1>6, <1>9, <1>11, <1>12, <3>1 DEF Linked
    <3>2. CASE n = mp
      BY <1>4, <1>6, <1>9, <1>11, <1>12, <3>2
    <3>3. CASE n # f /\ n # mp
      BY <1>1, <1>5, <1>6, <1>11, <1>12, <1>21, <3>3 DEF Linked
    <3> QED BY <3>1, <3>2, <3>3
  <2>2. ASSUME NEW n \in Nodes(T), NEW m \in Nodes(T), Link(T2, n) # Absent, Link(T2, n) = Link(T2, m) PROVE n = m
    BY <1>1, <1>2, <1>5, <1>11, <2>2 DEF Linked
  <2> QED BY <1>6, <2>1, <2>2 DEF Linked
<1>16. Headed(T2)
  <2> SUFFICES ASSUME NEW n \in Nodes(T), Used(T2, n)
               PROVE  /\ Used(T2, Home(T2, n)) /\ Home(T2, Home(T2, n)) = Home(T2, n)
                      /\ Reaches(T2, Home(T2, n), n)
    BY <1>6 DEF Headed
  <2>1. CASE n = f
    BY <1>2, <1>4, <1>11, <1>12, <1>13, <2>1 DEF Reaches, Closed
  <2>2. CASE n # f
    <3>1. Used(T, n) /\ Home(T2, n) = Home(T, n) /\ Home(T, n) \in Nodes(T)
      BY <1>1, <1>12, <1>13, <2>2, UsedIs
    <3>2. Used(T, Home(T, n)) /\ Home(T, Home(T, n)) = Home(T, n) /\ Reaches(T, Home(T, n), n)
      BY <1>1, <3>1 DEF Headed
    <3> QED BY <1>12, <1>13, <1>14, <3>1, <3>2
  <2> QED BY <2>1, <2>2
<1>17. Single(T2)
  BY <1>1, <1>6, <1>9, <1>21 DEF Single
<1>18. Ordered(T2, r2)
  <2>1. r2 \in [Nodes(T) -> Nat]
    BY <1>1, <1>2
  <2>2. ASSUME NEW n \in Nodes(T), NEW m \in Nodes(T), n # f, m # f, r[n] < r[m] PROVE r2[n] < r2[m]
    BY <1>1, <2>2
  <2>3. ASSUME NEW m \in Nodes(T), m # f, r[mp] < r[m] PROVE r2[f] < r2[m]
    BY <1>1, <1>2, <2>3
  <2>4. r2[mp] < r2[f]
    BY <1>1, <1>2, <1>4
  <2> HIDE DEF r2
  <2>5. ASSUME NEW n \in Nodes(T), Link(T2, n) # Absent PROVE r2[n] < r2[Link(T2, n)]
    <3>1. CASE n = mp
      BY <1>11, <2>4, <3>1
    <3>2. CASE n = f
      BY <1>1, <1>2, <1>5, <1>11, <2>3, <2>5, <3>2 DEF Linked, Ordered
    <3>3. CASE n # mp /\ n # f
      BY <1>1, <1>5, <1>11, <2>2, <2>5, <3>3 DEF Linked, Ordered
    <3> QED BY <3>1, <3>2, <3>3
  <2>6. ASSUME NEW n \in Nodes(T), NEW m \in Nodes(T), Node(T2, n).key \in AllKeys, Node(T2, m).key = <<"dead", Node(T2, n).key>>
        PROVE  r2[n] < r2[m]
    <3>1. m # f /\ Node(T, m).key = <<"dead", Node(T2, n).key>>
      BY <1>7, <1>9, <2>6, DeadShape, ZenonT(60)
    <3>2. CASE n # f
      <4>1. Node(T, n).key = Node(T2, n).key
        BY <1>7, <1>9, <3>2
      <4> QED BY <1>1, <2>2, <2>6, <3>1, <3>2, <4>1 DEF Ordered
    <3>3. CASE n = f
      <4>1. Used(T, m) /\ Bare(Node(T, m).key) = key
        BY <1>1, <1>9, <3>1, <3>3, UsedIs, DeadShape DEF Used
      <4>2. Reaches(T, mp, m) /\ m # mp
        BY <1>1, <1>4, <3>1, <4>1, DeadShape DEF Headed, Home
      <4> QED BY <1>1, <1>2, <2>3, <3>1, <3>3, <4>2, ReachesUp
    <3> QED BY <3>2, <3>3
  <2> QED BY <1>6, <2>1, <2>5, <2>6 DEF Ordered
<1>19. Puts(T, T2, key, v)
  <2>1. \A n \in Nodes(T) : n # f => Same(T, n, T2, n)
    BY <1>7, <1>9 DEF Same
  <2>2. IsAt(T2, f, key, v)
    BY <1>9 DEF IsAt
  <2>3. ~Full(T, f)
    BY <1>1, KeyShape DEF Linked, Used
  <2> QED BY <1>6, <1>12, <2>1, <2>2, <2>3 DEF Puts
<1> HIDE DEF r2
<1>20. Chained(T2, r2)
  BY <1>10, <1>15, <1>16, <1>17, <1>18 DEF Chained
<1> QED BY <1>12, <1>19, <1>20 DEF T2

\* The node before one that is not in its main position is found along the chain.
LEMMA PreviousIs ==
    ASSUME NEW T, NEW r, Chained(T, r), NEW mp \in Nodes(T), Node(T, mp).key \in AllKeys,
           mainpositionTV(T, Node(T, mp).key) # mp
    PROVE  Previous(T, mp) \in Nodes(T) /\ Link(T, Previous(T, mp)) = mp
<1> DEFINE a == mainpositionTV(T, Node(T, mp).key)
           c == Chain(T, a)
           S == {k \in Nodes(T) : c[k] # Absent /\ Link(T, c[k]) = mp}
<1>1. HashType(T) /\ Linked(T) /\ Headed(T) /\ Ordered(T, r) /\ T.size \in Nat \ {0} /\ Nodes(T) = 0 .. T.size - 1
  BY DEF Chained, HashType, Nodes
<1>2. a \in Nodes(T)
  BY <1>1, HomeIn DEF HashType
<1>3. Used(T, mp) /\ Home(T, mp) = a
  BY <1>1, UsedIs, KeyShape DEF Used, Home
<1>4. Reaches(T, a, mp)
  BY <1>1, <1>3 DEF Headed
<1> HIDE DEF a
<1>5. /\ \A k \in 0 .. T.size : c[k] \in Nodes(T) \cup {Absent}
      /\ \E k \in Nodes(T) : c[k] = mp
  <2>1. /\ \A k \in 0 .. T.size : c[k] \in Nodes(T) \cup {Absent}
        /\ \A b \in Nodes(T) : Reaches(T, a, b) => \E k \in Nodes(T) : c[k] = b
    BY <1>1, <1>2, Positions
  <2> QED BY <1>4, <2>1
<1>6. c[0] = a /\ \A k \in 1 .. T.size : c[k] = Link(T, c[k - 1])
  BY <1>1, ChainIs
<1> HIDE DEF c
<1>7. PICK k \in Nodes(T) : c[k] = mp
  BY <1>5
<1>8. k # 0
  BY <1>6, <1>7 DEF a
<1>9. k \in 1 .. T.size /\ k - 1 \in Nodes(T) /\ k - 1 \in 0 .. T.size /\ Absent \notin Nodes(T)
  BY <1>1, <1>7, <1>8 DEF Absent
<1>10. Link(T, c[k - 1]) = mp /\ c[k - 1] # Absent
  BY <1>6, <1>7, <1>9 DEF Link
<1>11. S # {} /\ S \subseteq Nat
  BY <1>1, <1>9, <1>10
<1>12. Min(S) \in S
  <2> HIDE DEF S
  <2> QED BY <1>11, MinIs
<1>13. c[Min(S)] \in Nodes(T) /\ Link(T, c[Min(S)]) = mp
  <2> DEFINE m == Min(S)
  <2>1. m \in Nodes(T) /\ c[m] # Absent /\ Link(T, c[m]) = mp
    BY <1>12
  <2> HIDE DEF m
  <2>2. m \in 0 .. T.size
    BY <1>1, <2>1
  <2>3. c[m] \in Nodes(T)
    BY <1>5, <2>1, <2>2
  <2> QED BY <2>1, <2>3 DEF m
<1> QED BY <1>13 DEF Previous, c, a

\* The node in the way moves to the free one, and the new key takes its place.
LEMMA MoveCollidingOK ==
    ASSUME NEW T, IsTable(T), NEW r, Chained(T, r), NEW key \in AllKeys, NEW v \in Values,
           NEW mp, mp = mainpositionTV(T, key), \A n \in Nodes(T) : Node(T, n).key # key, Full(T, mp),
           mainpositionTV(T, Node(T, mp).key) # mp,
           NEW f \in Nodes(T), ~Used(T, f)
    PROVE  \E r2 :
                 /\ Chained(MoveColliding(T, mp, f, key, v), r2)
                 /\ Puts(T, MoveColliding(T, mp, f, key, v), key, v)
                 /\ Used(MoveColliding(T, mp, f, key, v), f)
<1> DEFINE T2 == MoveColliding(T, mp, f, key, v)
           r2 == [n \in Nodes(T) |-> IF n = f THEN r[mp] ELSE r[n]]
           new == IF Link(T, mp) = Absent THEN 0 ELSE Link(T, mp) - f
           p == Previous(T, mp)
           To(n) == IF n = mp THEN f ELSE n
<1>1. HashType(T) /\ Linked(T) /\ Headed(T) /\ Single(T) /\ Ordered(T, r) /\ r \in [Nodes(T) -> Nat]
  BY DEF Chained, Ordered
<1>2. mp \in Nodes(T) /\ Absent \notin Nodes(T) /\ Nodes(T) \subseteq Int /\ Absent \in Int
  BY <1>1, HomeIn DEF HashType, Absent, Nodes
<1>3. key # Nil /\ v # Empty /\ Bare(key) = key
  BY KeyShape, ProgramsAssumption DEF Bare
<1>4. Node(T, mp).key \in AllKeys /\ Used(T, mp) /\ Home(T, mp) # mp /\ mp # f
  <2>1. Node(T, mp).key \in AllKeys
    BY <1>1, <1>2 DEF Linked
  <2> QED BY <1>1, <1>2, <2>1, UsedIs, KeyShape DEF Used, Home
<1>5. Link(T, f) = Absent /\ \A n \in Nodes(T) : Link(T, n) # f
  BY <1>1, <1>2 DEF Linked
<1>6. p \in Nodes(T) /\ Link(T, p) = mp
  BY <1>2, <1>4, PreviousIs
<1> HIDE DEF p
<1>7. p # f /\ p # mp /\ Link(T, mp) # mp
  <2>1. r[p] < r[mp] /\ r[mp] \in Nat /\ r[p] \in Nat
    BY <1>1, <1>2, <1>6 DEF Ordered
  <2>2. Link(T, mp) # mp
    BY <1>1, <1>2, <2>1 DEF Ordered
  <2> QED BY <1>2, <1>5, <1>6, <2>1, <2>2
<1>8. /\ T2.size = T.size /\ Nodes(T2) = Nodes(T)
      /\ T2.node = [[[T.node EXCEPT ![p].next = f - p] EXCEPT ![f] = Moved(T, mp, f)] EXCEPT ![mp] = NewNode(key, v, 0)]
  BY DEF IsTable, MoveColliding, Nodes, p
<1>9. /\ Node(T2, mp) = NewNode(key, v, 0)
      /\ Node(T2, f) = NewNode(Node(T, mp).key, Node(T, mp).val, new)
      /\ Node(T2, p) = [Node(T, p) EXCEPT !.next = f - p]
      /\ \A n \in Nodes(T) : n # mp /\ n # f /\ n # p => Node(T2, n) = Node(T, n)
  BY <1>1, <1>2, <1>4, <1>6, <1>7, <1>8 DEF Node, HashType, Moved
<1>10. new \in Int /\ f - p \in Int /\ f - p # 0 /\ p + (f - p) = f /\ (Link(T, mp) # Absent => f + new = Link(T, mp) /\ new # 0)
  <2>1. Link(T, mp) # Absent => Link(T, mp) \in Int /\ Link(T, mp) # f
    BY <1>1, <1>2, <1>5 DEF Linked
  <2>2. f \in Int /\ p \in Int /\ f # p
    BY <1>2, <1>6, <1>7
  <2> QED BY <2>1, <2>2
<1>11. /\ Node(T2, mp).key = key /\ Node(T2, mp).val = v /\ Node(T2, mp).next = 0
       /\ Node(T2, f).key = Node(T, mp).key /\ Node(T2, f).val = Node(T, mp).val /\ Node(T2, f).next = new
       /\ Node(T2, p).key = Node(T, p).key /\ Node(T2, p).val = Node(T, p).val /\ Node(T2, p).next = f - p
  BY <1>1, <1>6, <1>9, UsedIs DEF NewNode, NodeType
<1>12. \A n \in Nodes(T) : n # f /\ n # mp => Node(T2, n).key = Node(T, n).key /\ Node(T2, n).val = Node(T, n).val
  BY <1>9, <1>11
<1>13. HashType(T2)
  <2>1. \A n \in Nodes(T) : Node(T2, n) \in NodeType
    <3>1. Node(T2, mp) \in NodeType /\ Node(T2, f) \in NodeType
      BY <1>1, <1>2, <1>9, <1>10, UsedIs DEF NewNode, NodeType, NodeKeys
    <3>2. Node(T2, p) \in NodeType
      BY <1>1, <1>6, <1>9, <1>10, UsedIs DEF NodeType
    <3>3. \A n \in Nodes(T) : n # mp /\ n # f /\ n # p => Node(T2, n) \in NodeType
      BY <1>1, <1>9, UsedIs
    <3> QED BY <3>1, <3>2, <3>3
  <2>2. T2.node = [n \in Nodes(T) |-> Node(T2, n)]
    BY <1>1, <1>8 DEF Node, HashType
  <2> HIDE DEF T2
  <2> QED BY <1>1, <1>8, <2>1, <2>2, HashTypeIs
<1> HIDE DEF T2
<1>14. /\ Link(T2, mp) = Absent /\ Link(T2, f) = Link(T, mp) /\ Link(T2, p) = f
       /\ \A n \in Nodes(T) : n # mp /\ n # f /\ n # p => Link(T2, n) = Link(T, n)
  <2>1. Link(T2, f) = Link(T, mp)
    BY <1>2, <1>10, <1>11 DEF Link
  <2>2. Link(T2, p) = f
    BY <1>2, <1>6, <1>10, <1>11 DEF Link
  <2>3. Link(T2, mp) = Absent
    BY <1>11 DEF Link
  <2> QED BY <1>9, <2>1, <2>2, <2>3 DEF Link
<1> HIDE DEF new
<1>15. \A n \in Nodes(T) : n # p => Link(T, n) # mp
  BY <1>1, <1>2, <1>6 DEF Linked
<1>16. /\ Used(T2, mp) /\ Used(T2, f) /\ \A n \in Nodes(T) : n # f /\ n # mp => (Used(T2, n) <=> Used(T, n)) /\ (Full(T2, n) <=> Full(T, n))
       /\ \A n \in Nodes(T) : Used(T, n) => Used(T2, n)
  BY <1>3, <1>4, <1>11, <1>12 DEF Used, Full
<1>17. Home(T2, mp) = mp /\ Home(T2, f) = Home(T, mp) /\ \A n \in Nodes(T) : n # f /\ n # mp => Home(T2, n) = Home(T, n)
  <2>1. Home(T2, mp) = mp
    BY <1>3, <1>8, <1>11, SameMain DEF Home
  <2>2. Home(T2, f) = Home(T, mp)
    BY <1>8, <1>11, SameMain DEF Home
  <2>3. \A n \in Nodes(T) : n # f /\ n # mp => Home(T2, n) = Home(T, n)
    BY <1>8, <1>12, SameMain DEF Home
  <2> QED BY <2>1, <2>2, <2>3
<1>18. ASSUME NEW n \in Nodes(T), Used(T, n)
       PROVE  /\ Home(T, n) \in Nodes(T) /\ Home(T, n) # mp /\ Home(T, n) # f
              /\ Used(T, Home(T, n)) /\ Home(T, Home(T, n)) = Home(T, n) /\ Reaches(T, Home(T, n), n)
  <2>1. Home(T, n) \in Nodes(T)
    BY <1>1, <1>18, UsedIs
  <2> QED BY <1>1, <1>4, <1>18, <2>1 DEF Headed
<1>19. ASSUME NEW a \in Nodes(T), a # mp, NEW b \in Nodes(T), Reaches(T, a, b) PROVE Reaches(T2, a, To(b))
  <2> SUFFICES ASSUME NEW S2 \in SUBSET Nodes(T), a \in S2, Closed(T2, S2) PROVE To(b) \in S2
    BY <1>8 DEF Reaches
  <2> DEFINE S == {n \in Nodes(T) : To(n) \in S2}
  <2>1. ASSUME NEW n \in S, Link(T, n) # Absent PROVE Link(T, n) \in S
    <3>1. Link(T, n) \in Nodes(T) /\ n # f
      BY <1>1, <1>5, <2>1 DEF Linked
    <3>2. CASE n = mp
      BY <1>5, <1>7, <1>14, <2>1, <3>1, <3>2 DEF Closed
    <3>3. CASE n = p
      <4>1. f \in S2
        BY <1>2, <1>7, <1>14, <3>3 DEF Closed
      <4> QED BY <1>2, <1>6, <3>3, <4>1
    <3>4. CASE n # mp /\ n # p
      <4>1. n \in S2 /\ Link(T2, n) = Link(T, n)
        BY <1>14, <3>1, <3>4
      <4>2. Link(T, n) \in S2 /\ Link(T, n) # mp
        BY <1>15, <2>1, <3>4, <4>1 DEF Closed
      <4> QED BY <3>1, <4>2
    <3> QED BY <3>2, <3>3, <3>4
  <2>2. S \in SUBSET Nodes(T) /\ Closed(T, S) /\ a \in S
    BY <1>19, <2>1 DEF Closed
  <2>3. b \in S
    <3> HIDE DEF S
    <3> QED BY <1>19, <2>2 DEF Reaches
  <2> QED BY <2>3
<1>20. Linked(T2)
  <2>1. ASSUME NEW n \in Nodes(T)
        PROVE  /\ Link(T2, n) # Absent => Link(T2, n) \in Nodes(T2) /\ Used(T2, n) /\ Used(T2, Link(T2, n))
               /\ Full(T2, n) => Node(T2, n).key \in AllKeys
    <3>1. CASE n = f
      BY <1>1, <1>2, <1>4, <1>8, <1>11, <1>14, <1>16, <3>1 DEF Linked
    <3>2. CASE n = mp
      BY <1>8, <1>11, <1>14, <1>16, <3>2
    <3>3. CASE n = p
      BY <1>1, <1>6, <1>7, <1>8, <1>12, <1>14, <1>16, <3>3, <1>2 DEF Linked
    <3>4. CASE n # f /\ n # mp /\ n # p
      BY <1>1, <1>5, <1>8, <1>12, <1>14, <1>15, <1>16, <3>4 DEF Linked
    <3> QED BY <3>1, <3>2, <3>3, <3>4
  <2>2. ASSUME NEW n \in Nodes(T), NEW m \in Nodes(T), Link(T2, n) # Absent, Link(T2, n) = Link(T2, m) PROVE n = m
    BY <1>1, <1>2, <1>5, <1>6, <1>14, <2>2 DEF Linked
  <2> QED BY <1>8, <2>1, <2>2 DEF Linked
<1>21. Headed(T2)
  <2> SUFFICES ASSUME NEW n \in Nodes(T), Used(T2, n)
               PROVE  /\ Used(T2, Home(T2, n)) /\ Home(T2, Home(T2, n)) = Home(T2, n)
                      /\ Reaches(T2, Home(T2, n), n)
    BY <1>8 DEF Headed
  <2>1. CASE n = mp
    BY <1>16, <1>17, <2>1 DEF Reaches
  <2>2. CASE n # mp
    <3> DEFINE o == IF n = f THEN mp ELSE n
    <3>1. o \in Nodes(T) /\ Used(T, o) /\ To(o) = n /\ Home(T2, n) = Home(T, o)
      BY <1>2, <1>4, <1>16, <1>17, <2>2
    <3> HIDE DEF o
    <3>2. Reaches(T2, Home(T, o), n)
      BY <1>18, <1>19, <3>1
    <3> QED BY <1>16, <1>17, <1>18, <3>1, <3>2
  <2> QED BY <2>1, <2>2
<1>22. Single(T2)
  BY <1>1, <1>2, <1>8, <1>11, <1>12 DEF Single
<1>23. Ordered(T2, r2)
  <2>1. r2 \in [Nodes(T) -> Nat] /\ r2[f] = r[mp] /\ \A n \in Nodes(T) : n # f => r2[n] = r[n]
    BY <1>1, <1>2
  <2> HIDE DEF r2
  <2>2. ASSUME NEW n \in Nodes(T), Link(T2, n) # Absent PROVE r2[n] < r2[Link(T2, n)]
    <3>1. CASE n = p
      <4>1. r[p] < r[mp]
        BY <1>1, <1>2, <1>6 DEF Ordered
      <4> QED BY <1>6, <1>7, <1>14, <2>1, <3>1, <4>1
    <3>2. CASE n = f
      BY <1>1, <1>2, <1>5, <1>14, <2>1, <2>2, <3>2 DEF Linked, Ordered
    <3>3. CASE n # p /\ n # f
      BY <1>1, <1>5, <1>14, <2>1, <2>2, <3>3 DEF Linked, Ordered
    <3> QED BY <3>1, <3>2, <3>3
  <2>3. ASSUME NEW n \in Nodes(T), NEW m \in Nodes(T), Node(T2, n).key \in AllKeys, Node(T2, m).key = <<"dead", Node(T2, n).key>>
        PROVE  r2[n] < r2[m]
    <3>1. m # f /\ m # mp
      BY <1>4, <1>11, <2>3, DeadShape
    <3>2. Node(T, m).key = <<"dead", Node(T2, n).key>>
      BY <1>12, <2>3, <3>1
    <3>3. CASE n = mp
      <4>1. Used(T, m) /\ Bare(Node(T, m).key) = key
        BY <1>1, <1>11, <3>2, <3>3, UsedIs, DeadShape DEF Used
      <4> QED BY <1>18, <4>1 DEF Home
    <3>4. CASE n # mp
      <4> DEFINE o == IF n = f THEN mp ELSE n
      <4>1. o \in Nodes(T) /\ Node(T2, n).key = Node(T, o).key /\ r2[n] = r[o] /\ r2[m] = r[m]
        BY <1>2, <1>11, <1>12, <2>1, <3>1, <3>4
      <4> HIDE DEF o
      <4> QED BY <1>1, <2>3, <3>2, <4>1 DEF Ordered
    <3> QED BY <3>3, <3>4
  <2> QED BY <1>8, <2>1, <2>2, <2>3 DEF Ordered
<1>24. Puts(T, T2, key, v)
  <2>1. \A n \in Nodes(T) : n # f /\ n # mp => Same(T, n, T2, n)
    BY <1>12 DEF Same
  <2>2. IsAt(T2, mp, key, v) /\ Same(T, mp, T2, f)
    BY <1>11 DEF IsAt, Same
  <2>3. ~Full(T, f)
    BY <1>1, KeyShape DEF Linked, Used
  <2> QED BY <1>2, <1>8, <1>16, <2>1, <2>2, <2>3 DEF Puts
<1> HIDE DEF r2
<1>25. Chained(T2, r2)
  BY <1>13, <1>20, <1>21, <1>22, <1>23 DEF Chained
<1> QED BY <1>16, <1>24, <1>25 DEF T2

\* Chains depend on size and nodes alone.
LEMMA SameHash ==
    ASSUME NEW T, NEW T1, T1.size = T.size, T1.node = T.node, NEW r, Chained(T, r)
    PROVE  Chained(T1, r)
<1>1. HashType(T) /\ Linked(T) /\ Headed(T) /\ Single(T) /\ Ordered(T, r)
  BY DEF Chained
<1>2. Nodes(T1) = Nodes(T) /\ \A n : Node(T1, n) = Node(T, n)
  BY DEF Nodes, Node
<1>3. \A n : Link(T1, n) = Link(T, n) /\ Used(T1, n) = Used(T, n) /\ Full(T1, n) = Full(T, n) /\ Home(T1, n) = Home(T, n)
  BY <1>2, SameMain DEF Link, Used, Full, Home
<1>4. \A a, b : Reaches(T, a, b) => Reaches(T1, a, b)
  BY <1>2, <1>3 DEF Reaches, Closed
<1>5. HashType(T1)
  BY <1>1, <1>2 DEF HashType
<1>6. Linked(T1)
  BY <1>1, <1>2, <1>3 DEF Linked
<1>7. Headed(T1)
  BY <1>1, <1>2, <1>3, <1>4 DEF Headed
<1>8. Single(T1) /\ Ordered(T1, r)
  BY <1>1, <1>2, <1>3 DEF Single, Ordered
<1> QED BY <1>5, <1>6, <1>7, <1>8 DEF Chained

\* No node from lastfree on is free, where it is kept.
LastFree(T) == haslastfree(T) => T.lastfree \in 0 .. T.size /\ \A n \in Nodes(T) : n >= T.lastfree => Used(T, n)
HashOK(T) ==
    /\ IsTable(T)
    /\ T.dummy => T.size = 1 /\ T.node = [n \in 0 .. 0 |-> DummyNode]
    /\ ~T.dummy => LastFree(T) /\ \E r : Chained(T, r)

SameArray(T, T2) == T2.asize = T.asize /\ T2.array = T.array /\ T2.hint = T.hint /\ T2.dummy = T.dummy

\* The dummy node has no key and no value, and no room.
LEMMA DummyIs ==
    ASSUME NEW T, HashOK(T), T.dummy
    PROVE  /\ Nodes(T) = {0} /\ FreeNodes(T) = {} /\ getfreepos(T) = Absent /\ ~Full(T, 0) /\ T.size \in Nat \ {0}
           /\ \A k \in AllKeys : Node(T, 0).key # k
           /\ Node(T, 0).key # Nil
<1>1. T.size = 1 /\ Node(T, 0) = DummyNode /\ Nodes(T) = {0}
  BY DEF HashOK, Node, Nodes
<1>2. Node(T, 0).key = <<"dead", Nil>> /\ Node(T, 0).val = Empty
  BY <1>1 DEF DummyNode, NewNode
<1> QED BY <1>1, <1>2, DeadShape DEF FreeNodes, getfreepos, Full

\* getfreepos gives a free node, or Absent where there is none.
LEMMA FreePosIs ==
    ASSUME NEW T, T.size \in Nat \ {0}
    PROVE  /\ getfreepos(T) = Absent => FreeNodes(T) = {}
           /\ getfreepos(T) # Absent =>
                 /\ getfreepos(T) \in Nodes(T) /\ ~Used(T, getfreepos(T))
                 /\ haslastfree(T) => getfreepos(T) < T.lastfree
                 /\ \A n \in FreeNodes(T) : n <= getfreepos(T)
<1> DEFINE S == FreeNodes(T)
<1>1. S \subseteq Nodes(T) /\ S \subseteq 0 .. T.size /\ T.size \in Nat /\ S \subseteq Int /\ Absent \notin S
  BY DEF FreeNodes, Nodes, Absent
<1>2. S # {} => Max(S) \in S /\ \A d \in S : Max(S) >= d
  <2> HIDE DEF S
  <2> QED BY <1>1, MaxIs
<1>3. S # {} => getfreepos(T) = Max(S)
  BY DEF getfreepos
<1>4. CASE S = {}
  BY <1>4 DEF getfreepos
<1>5. CASE S # {}
  <2>1. getfreepos(T) \in S /\ (\A n \in S : n <= getfreepos(T)) /\ getfreepos(T) # Absent
    <3> HIDE DEF S
    <3> QED BY <1>1, <1>2, <1>3, <1>5
  <2> QED BY <1>1, <2>1 DEF FreeNodes, Used
<1> QED BY <1>4, <1>5

\* lastfree moves, and nothing else.
LEMMA MoveLastFreeIs ==
    ASSUME NEW T, IsTable(T)
    PROVE  /\ IsTable(MoveLastFree(T)) /\ SameArray(T, MoveLastFree(T))
           /\ MoveLastFree(T).size = T.size /\ MoveLastFree(T).node = T.node
           /\ haslastfree(T) =>
                 /\ FreeNodes(T) = {} => MoveLastFree(T).lastfree = 0
                 /\ FreeNodes(T) # {} => MoveLastFree(T).lastfree = getfreepos(T)
BY DEF MoveLastFree, IsTable, SameArray

\* Where an insertion finds a place, the table is in order after it.
LEMMA InsertKeyOK ==
    ASSUME NEW T, HashOK(T), NEW key \in AllKeys, NEW v \in Values,
           \A n \in Nodes(T) : Node(T, n).key # key, CanInsert(T, key)
    PROVE  HashOK(insertkey(T, key, v)) /\ Puts(T, insertkey(T, key, v), key, v) /\ SameArray(T, insertkey(T, key, v))
<1> DEFINE mp == mainpositionTV(T, key)
           f == getfreepos(T)
           T1 == MoveLastFree(T)
           T2 == insertkey(T, key, v)
<1>1. ~T.dummy
  BY DummyIs DEF CanInsert, TakesMain
<1>2. PICK r : Chained(T, r)
  BY <1>1 DEF HashOK
<1>3. IsTable(T) /\ LastFree(T) /\ T.size \in Nat \ {0} /\ mp \in Nodes(T) /\ Nodes(T) \subseteq Int
  BY <1>1, <1>2, HomeIn DEF HashOK, Chained, HashType, Nodes
<1>4. T2 = InsertMain(T, mp, key, v)
  BY DEF insertkey
<1> HIDE DEF mp
<1>5. CASE TakesMain(T, mp)
  <2>1. T2 = InMain(T, mp, key, v)
    BY <1>4, <1>5 DEF InsertMain, InMain
  <2>2. Chained(T2, r) /\ Puts(T, T2, key, v)
    BY <1>2, <1>3, <1>5, <2>1, InMainOK DEF mp, TakesMain, Full
  <2>3. IsTable(T2) /\ SameArray(T, T2) /\ T2.lastfree = T.lastfree /\ T2.size = T.size
    BY <1>3, <2>1 DEF InMain, IsTable, SameArray
  <2> HIDE DEF T2
  <2>4. LastFree(T2)
    BY <1>3, <2>2, <2>3 DEF LastFree, haslastfree, Puts, Nodes
  <2> QED BY <1>1, <2>2, <2>3, <2>4 DEF HashOK, SameArray, T2
<1>6. CASE ~TakesMain(T, mp)
  <2>1. f # Absent /\ Full(T, mp)
    BY <1>1, <1>6 DEF CanInsert, mp, TakesMain, Full
  <2>2. f \in Nodes(T) /\ ~Used(T, f) /\ \A n \in FreeNodes(T) : n <= f
    BY <1>3, <2>1, FreePosIs
  <2>3. IsTable(T1) /\ SameArray(T, T1) /\ T1.size = T.size /\ T1.node = T.node /\ (haslastfree(T) => T1.lastfree = f)
    <3>1. FreeNodes(T) # {}
      BY <2>1 DEF getfreepos
    <3> QED BY <1>3, <3>1, MoveLastFreeIs
  <2>4. ASSUME NEW n \in Nodes(T), n >= f, haslastfree(T) PROVE Used(T, n) \/ n = f
    <3>1. ~Used(T, n) => n \in FreeNodes(T)
      BY <1>3, <2>4 DEF LastFree, FreeNodes, Used, Nodes
    <3> QED BY <1>3, <2>2, <2>4, <3>1
  <2>5. T2 = IF mainpositionTV(T, Node(T, mp).key) # mp THEN MoveColliding(T1, mp, f, key, v) ELSE ChainFree(T1, mp, f, key, v)
    BY <1>4, <1>6, <2>1 DEF InsertMain
  <2> HIDE DEF f, T1, T2
  <2>6. Chained(T1, r) /\ Nodes(T1) = Nodes(T) /\ mp = mainpositionTV(T1, key) /\ (\A n : Node(T1, n) = Node(T, n))
    BY <1>2, <2>3, SameHash, SameMain DEF Nodes, Node, mp
  <2>7. Full(T1, mp) /\ ~Used(T1, f) /\ mainpositionTV(T1, Node(T1, mp).key) = mainpositionTV(T, Node(T, mp).key)
    BY <2>1, <2>2, <2>3, <2>6, SameMain DEF Full, Used
  <2>8. \E r2 : Chained(T2, r2) /\ Puts(T1, T2, key, v) /\ Used(T2, f)
    <3>1. CASE mainpositionTV(T, Node(T, mp).key) # mp
      <4>1. \E r2 : /\ Chained(MoveColliding(T1, mp, f, key, v), r2)
                    /\ Puts(T1, MoveColliding(T1, mp, f, key, v), key, v)
                    /\ Used(MoveColliding(T1, mp, f, key, v), f)
        BY <2>2, <2>3, <2>6, <2>7, <3>1, MoveCollidingOK
      <4> QED BY <2>5, <3>1, <4>1
    <3>2. CASE mainpositionTV(T, Node(T, mp).key) = mp
      <4>1. \E r2 : /\ Chained(ChainFree(T1, mp, f, key, v), r2)
                    /\ Puts(T1, ChainFree(T1, mp, f, key, v), key, v)
                    /\ Used(ChainFree(T1, mp, f, key, v), f)
        BY <2>2, <2>3, <2>6, <2>7, <3>2, ChainFreeOK
      <4> QED BY <2>5, <3>2, <4>1
    <3> QED BY <3>1, <3>2
  <2>9. IsTable(T2) /\ SameArray(T, T2) /\ T2.lastfree = T1.lastfree /\ T2.size = T.size
    BY <2>3, <2>5 DEF MoveColliding, ChainFree, IsTable, SameArray
  <2>10. Puts(T, T2, key, v)
    BY <2>3, <2>6, <2>8 DEF Puts, Same, Full, Used
  <2>11. LastFree(T2)
    BY <1>3, <2>2, <2>3, <2>4, <2>8, <2>9, <2>10 DEF LastFree, haslastfree, Puts, Nodes
  <2> QED BY <1>1, <2>8, <2>9, <2>10, <2>11 DEF HashOK, SameArray, T2
<1> QED BY <1>5, <1>6

-------------------------------------------------------------------------------
(* What a read finds. *)

Looks(T, key, deadok, g) ==
    /\ g # Absent => g \in Nodes(T) /\ equalkey(key, Node(T, g), deadok)
    /\ key \in AllKeys =>
          /\ g = Absent => \A n \in Nodes(T) : ~equalkey(key, Node(T, n), deadok)
          /\ \A n \in Nodes(T) : Node(T, n).key = key => g = n
\* A search for a key gives the one node that has it, alive, or tells that none has.
LEMMA LookupIs ==
    ASSUME NEW T, HashOK(T), NEW key, key \in AllKeys \/ (key = NaN /\ HashOf(key) \in Nat), NEW deadok \in BOOLEAN
    PROVE  Looks(T, key, deadok, getgeneric(T, key, deadok))
<1> DEFINE g == getgeneric(T, key, deadok)
           a == mainpositionTV(T, key)
<1>1. T.size \in Nat \ {0} /\ Absent \notin Nodes(T) /\ Nodes(T) = 0 .. T.size - 1
  BY DummyIs DEF HashOK, Chained, HashType, Absent, Nodes
<1>2. a \in Nodes(T)
  BY <1>1, HomeIn
<1>3. CASE T.dummy
  <2> DEFINE c == Chain(T, a)
             hits == {k \in Nodes(T) : c[k] # Absent /\ equalkey(key, Node(T, c[k]), deadok)}
  <2>1. Nodes(T) = {0} /\ a = 0 /\ Node(T, 0) = DummyNode
    BY <1>2, <1>3, DummyIs DEF HashOK, Node
  <2>2. c[0] = a
    BY <1>1, ChainIs
  <2>3. ~equalkey(key, DummyNode, deadok)
    <3>1. key # <<"dead", Nil>> /\ key # Nil
      BY KeyShape, DeadShape DEF NaN, Nil
    <3>2. <<"dead", key>>[2] # <<"dead", Nil>>[2]
      BY <3>1
    <3> QED BY <3>1, <3>2 DEF DummyNode, NewNode, equalkey
  <2>4. hits = {}
    BY <2>1, <2>2, <2>3
  <2>5. g = Absent
    BY <2>4 DEF getgeneric
  <2> QED BY <2>1, <2>3, <2>5, <1>3, DummyIs DEF Looks
<1>4. CASE ~T.dummy
  <2>1. PICK r : Chained(T, r)
    BY <1>4 DEF HashOK
  <2>2. HashType(T) /\ Linked(T) /\ Headed(T) /\ Single(T) /\ Ordered(T, r) /\ r \in [Nodes(T) -> Nat]
    BY <2>1 DEF Chained, Ordered
  <2>3. Finds(T, r, key, deadok, g)
    BY <1>2, <2>2, GetGenericFinds
  <2> HIDE DEF g
  <2>4. ASSUME key \in AllKeys, NEW n \in Nodes(T), equalkey(key, Node(T, n), deadok)
        PROVE  Reaches(T, a, n)
    <3>1. Used(T, n) /\ Bare(Node(T, n).key) = key
      BY <2>2, <2>4, UsedIs, KeyShape, DeadShape DEF Used, equalkey
    <3> QED BY <2>2, <3>1 DEF Headed, Home
  <2>5. ASSUME key \in AllKeys, NEW n \in Nodes(T), Node(T, n).key = key PROVE g = n
    <3>1. equalkey(key, Node(T, n), deadok)
      BY <2>5 DEF equalkey
    <3>2. g # Absent /\ g \in Nodes(T) /\ equalkey(key, Node(T, g), deadok) /\ r[g] <= r[n]
      BY <2>3, <2>4, <2>5, <3>1 DEF Finds
    <3>3. CASE Node(T, g).key = key
      BY <2>2, <2>5, <3>2, <3>3 DEF Single
    <3>4. CASE Node(T, g).key = <<"dead", key>>
      <4>1. r[n] < r[g] /\ r[n] \in Nat /\ r[g] \in Nat
        BY <2>2, <2>5, <3>2, <3>4 DEF Ordered
      <4> QED BY <3>2, <4>1
    <3> QED BY <3>2, <3>3, <3>4 DEF equalkey
  <2> QED BY <2>3, <2>4, <2>5 DEF Looks, Finds, g
<1> QED BY <1>3, <1>4

\* A read of the hash part gives the value of the node with the key.
LEMMA HashGetIs ==
    ASSUME NEW T, HashOK(T), NEW k \in AllKeys
    PROVE  /\ \A n \in Nodes(T) : Node(T, n).key = k => HashGet(T, k) = Node(T, n).val
           /\ (\A n \in Nodes(T) : Node(T, n).key # k) => HashGet(T, k) = Empty
<1>1. Looks(T, k, FALSE, getgeneric(T, k, FALSE))
  BY LookupIs
<1>2. Absent \notin Nodes(T)
  BY DEF Nodes, Absent
<1> QED BY <1>1, <1>2 DEF Looks, HashGet, equalkey

\* An insertion changes what is read of its key alone.
LEMMA PutsGet ==
    ASSUME NEW T, HashOK(T), NEW T2, HashOK(T2), NEW key \in AllKeys, NEW v, Puts(T, T2, key, v), NEW k \in AllKeys
    PROVE  HashGet(T2, k) = IF k = key THEN v ELSE HashGet(T, k)
<1>1. CASE k = key
  BY <1>1, HashGetIs DEF Puts, IsAt
<1>2. CASE k # key
  <2>1. CASE \E m \in Nodes(T2) : Node(T2, m).key = k
    <3>1. PICK m \in Nodes(T2) : Node(T2, m).key = k
      BY <2>1
    <3>2. PICK n \in Nodes(T) : Same(T, n, T2, m)
      BY <1>2, <3>1 DEF Puts, IsAt
    <3> QED BY <1>2, <3>1, <3>2, HashGetIs DEF Same
  <2>2. CASE \A m \in Nodes(T2) : Node(T2, m).key # k
    <3>1. \A n \in Nodes(T) : Node(T, n).key = k => Node(T, n).val = Empty
      BY <2>2 DEF Puts, Same, Full
    <3> QED BY <1>2, <2>2, <3>1, HashGetIs
  <2> QED BY <2>1, <2>2
<1> QED BY <1>1, <1>2

-------------------------------------------------------------------------------
(* A new hash part has room for what is moved to it. *)

\* What is in the hash part are keys of P, of which there are no more than nodes.
Fresh(T, P) ==
    /\ IsFiniteSet(P) /\ P \subseteq AllKeys /\ Cardinality(P) <= T.size
    /\ T.dummy => P = {}
    /\ ~T.dummy => \A n \in Nodes(T) : Used(T, n) => Full(T, n) /\ Node(T, n).key \in P

\* As many nodes as keys to come: there is a free one for a key not yet there.
LEMMA Room ==
    ASSUME NEW T, HashOK(T), NEW P, Fresh(T, P), NEW key \in P, \A n \in Nodes(T) : Node(T, n).key # key
    PROVE  CanInsert(T, key)
<1> SUFFICES ASSUME ~CanInsert(T, key) PROVE FALSE
  OBVIOUS
<1>1. ~T.dummy /\ IsFiniteSet(P) /\ Cardinality(P) <= T.size
  BY DEF Fresh
<1>2. PICK r : Chained(T, r)
  BY <1>1 DEF HashOK
<1>3. T.size \in Nat \ {0} /\ HashType(T) /\ Single(T) /\ LastFree(T) /\ Nodes(T) \subseteq Int
  BY <1>1, <1>2 DEF Chained, HashType, HashOK, Nodes
<1>4. FreeNodes(T) = {}
  BY <1>3, FreePosIs DEF CanInsert
<1>5. \A n \in Nodes(T) : Used(T, n)
  <2> SUFFICES ASSUME NEW n \in Nodes(T), ~Used(T, n) PROVE FALSE
    OBVIOUS
  <2>1. haslastfree(T) => n < T.lastfree
    BY <1>3 DEF LastFree, Nodes
  <2> QED BY <1>4, <2>1 DEF FreeNodes, Used
<1> DEFINE R == P \ {key}
           h == [n \in Nodes(T) |-> Node(T, n).key]
<1>6. h \in [Nodes(T) -> R]
  BY <1>1, <1>5 DEF Fresh
<1>7. IsFiniteSet(R) /\ Cardinality(R) = Cardinality(P) - 1 /\ Cardinality(P) \in Nat
  <2>1. IsFiniteSet(P \ {key}) /\ Cardinality(P \ {key}) = IF key \in P THEN Cardinality(P) - 1 ELSE Cardinality(P)
    BY <1>1, FS_RemoveElement
  <2>2. Cardinality(P) \in Nat
    BY <1>1, FS_CardinalityType
  <2> QED BY <2>1, <2>2
<1>8. IsFiniteSet(Nodes(T)) /\ Cardinality(Nodes(T)) = T.size
  BY <1>3, NodesFinite
<1>9. \E x, y \in Nodes(T) : x # y /\ h[x] = h[y]
  <2> HIDE DEF R, h
  <2>1. Cardinality(R) < Cardinality(Nodes(T))
    BY <1>1, <1>3, <1>7, <1>8
  <2> QED BY <1>6, <1>7, <1>8, <2>1, FS_PigeonHole
<1>10. \A n \in Nodes(T) : Node(T, n).key \in AllKeys
  BY <1>1, <1>5 DEF Fresh
<1> QED BY <1>3, <1>9, <1>10 DEF Single

\* A key is put in a new hash part.
Put(T, T2, P, key, v) ==
    /\ HashOK(T2) /\ Fresh(T2, P) /\ SameArray(T, T2) /\ T2.size = T.size
    /\ \A m \in Nodes(T2) : Node(T2, m).key \in AllKeys => Node(T2, m).key = key \/ \E n \in Nodes(T) : Node(T2, m).key = Node(T, n).key
    /\ \A k \in AllKeys : HashGet(T2, k) = IF k = key THEN v ELSE HashGet(T, k)
\* So a key that is moved to a new hash part is inserted there.
LEMMA PutFresh ==
    ASSUME NEW T, HashOK(T), NEW P, Fresh(T, P), NEW key \in P, NEW v \in Values, \A n \in Nodes(T) : Node(T, n).key # key
    PROVE  Put(T, insertkey(T, key, v), P, key, v)
<1> DEFINE T2 == insertkey(T, key, v)
<1>1. key \in AllKeys /\ v # Empty
  BY ProgramsAssumption DEF Fresh
<1>2. HashOK(T2) /\ Puts(T, T2, key, v) /\ SameArray(T, T2)
  BY <1>1, Room, InsertKeyOK
<1> HIDE DEF T2
<1>3. T2.size = T.size /\ T2.dummy = T.dummy
  BY <1>2 DEF Puts, SameArray
<1>4. Fresh(T2, P)
  <2>1. ASSUME NEW m \in Nodes(T2), Used(T2, m), ~T.dummy PROVE Full(T2, m) /\ Node(T2, m).key \in P
    BY <1>1, <1>2, <2>1 DEF Puts, IsAt, Same, Fresh, Used, Full
  <2> QED BY <1>3, <2>1 DEF Fresh
<1>5. \A m \in Nodes(T2) : Node(T2, m).key = key \/ \E n \in Nodes(T) : Node(T2, m).key = Node(T, n).key
  BY <1>2 DEF Puts, IsAt, Same
<1>6. \A k \in AllKeys : HashGet(T2, k) = IF k = key THEN v ELSE HashGet(T, k)
  BY <1>1, <1>2, PutsGet
<1> QED BY <1>2, <1>3, <1>4, <1>5, <1>6 DEF Put, T2

ArrayOK(T) == T.asize \in Nat /\ T.array \in [1 .. T.asize -> Values \cup {Empty}]
\* No key of the hash part belongs to the array.
Apart(T) == \A n \in Nodes(T) : Node(T, n).key \in AllKeys => keyinarray(T, Node(T, n).key) = 0
TableOK(T) == HashOK(T) /\ ArrayOK(T) /\ Apart(T)

\* A key is in the array part exactly if it is one of its indices.
LEMMA KeyInArrayIs ==
    ASSUME NEW T, T.asize \in Nat, NEW k \in AllKeys
    PROVE  \/ keyinarray(T, k) \in 1 .. T.asize /\ k = <<"int", keyinarray(T, k)>> /\ keyinarray(T, k) > 0
           \/ keyinarray(T, k) = 0 /\ \A i \in 1 .. T.asize : k # <<"int", i>>
BY KeyShape DEF keyinarray, checkrange

\* What the array part does is no matter to the hash part.
LEMMA SameHashOK ==
    ASSUME NEW T, HashOK(T), NEW T1, IsTable(T1), T1.size = T.size, T1.node = T.node, T1.dummy = T.dummy, T1.lastfree = T.lastfree
    PROVE  /\ HashOK(T1)
           /\ \A P : Fresh(T, P) => Fresh(T1, P)
           /\ \A k \in AllKeys : HashGet(T1, k) = HashGet(T, k)
<1>1. Nodes(T1) = Nodes(T) /\ \A n : Node(T1, n) = Node(T, n)
  BY DEF Nodes, Node
<1>2. HashOK(T1)
  <2>1. LastFree(T) => LastFree(T1)
    BY <1>1 DEF LastFree, haslastfree, Used
  <2>2. \A r : Chained(T, r) => Chained(T1, r)
    BY SameHash
  <2> QED BY <2>1, <2>2 DEF HashOK
<1>3. \A P : Fresh(T, P) => Fresh(T1, P)
  BY <1>1 DEF Fresh, Used, Full
<1>4. \A k \in AllKeys : HashGet(T1, k) = HashGet(T, k)
  BY <1>1, <1>2, HashGetIs
<1> QED BY <1>2, <1>3, <1>4

\* A key of which nothing is read has no node in a new hash part.
LEMMA NotIn ==
    ASSUME NEW T, HashOK(T), NEW P, Fresh(T, P), NEW k \in AllKeys, HashGet(T, k) = Empty
    PROVE  \A n \in Nodes(T) : Node(T, n).key # k
<1> SUFFICES ASSUME NEW n \in Nodes(T), Node(T, n).key = k PROVE FALSE
  OBVIOUS
<1>1. ~T.dummy
  BY DummyIs
<1>2. Node(T, n).val = Empty
  BY HashGetIs
<1> QED BY <1>1, <1>2, KeyShape DEF Fresh, Used, Full

\* setnodevector gives an empty hash part with room for as many keys.
LEMMA NewHash ==
    ASSUME NEW T, IsTable(T), NEW size \in Nat, NEW P, IsFiniteSet(P), P \subseteq AllKeys, Cardinality(P) <= size
    PROVE  /\ HashOK(setnodevector(T, size)) /\ Fresh(setnodevector(T, size), P)
           /\ setnodevector(T, size).asize = T.asize /\ setnodevector(T, size).array = T.array
           /\ \A k \in AllKeys : HashGet(setnodevector(T, size), k) = Empty
<1> DEFINE T2 == setnodevector(T, size)
<1>1. IsTable(T2) /\ T2.asize = T.asize /\ T2.array = T.array
  BY DEF setnodevector, HashPart, IsTable
<1>2. Cardinality(P) \in Nat
  BY FS_CardinalityType
<1>3. CASE size = 0
  <2>1. T2.size = 1 /\ T2.node = [n \in 0 .. 0 |-> DummyNode] /\ T2.dummy
    BY <1>3 DEF setnodevector, HashPart, IsTable
  <2>2. P = {}
    BY <1>2, <1>3, FS_EmptySet
  <2> HIDE DEF T2
  <2>3. HashOK(T2)
    BY <1>1, <2>1 DEF HashOK
  <2>4. Fresh(T2, P)
    BY <1>2, <1>3, <2>1, <2>2 DEF Fresh
  <2>5. \A k \in AllKeys : HashGet(T2, k) = Empty
    BY <2>1, <2>3, DummyIs, HashGetIs
  <2> QED BY <1>1, <2>3, <2>4, <2>5 DEF T2
<1>4. CASE size # 0
  <2> DEFINE N == twoto[CeilLog2(size)]
  <2>1. N \in Nat \ {0} /\ N >= size
    BY <1>4, CeilLog2Is, TwoToIs
  <2>2. T2.size = N /\ T2.node = [n \in 0 .. N - 1 |-> FreeNode] /\ ~T2.dummy /\ T2.lastfree = N
    BY <1>4 DEF setnodevector, HashPart, IsTable
  <2> HIDE DEF T2, N
  <2>3. Nodes(T2) = 0 .. N - 1
    BY <2>2 DEF Nodes
  <2>4. \A n \in Nodes(T2) : Node(T2, n).key = Nil /\ Node(T2, n).val = Empty /\ Node(T2, n).next = 0 /\ Node(T2, n) = FreeNode
    BY <2>2, <2>3 DEF Node, FreeNode, NewNode
  <2>5. Nil \notin AllKeys /\ \A x : <<"dead", x>> # Nil
    BY DeadShape DEF AllKeys
  <2>6. HashType(T2)
    <3>1. FreeNode \in NodeType
      BY DEF FreeNode, NewNode, NodeType, NodeKeys
    <3> QED BY <2>1, <2>2, <2>3, <3>1 DEF HashType
  <2>7. Linked(T2) /\ Headed(T2) /\ Single(T2)
    BY <2>4, <2>5 DEF Linked, Headed, Single, Link, Used, Full
  <2>8. Ordered(T2, [n \in Nodes(T2) |-> 0])
    BY <2>4, <2>5 DEF Ordered, Link
  <2>9. LastFree(T2)
    BY <2>1, <2>2, <2>3 DEF LastFree
  <2>10. HashOK(T2)
    BY <1>1, <2>2, <2>6, <2>7, <2>8, <2>9 DEF HashOK, Chained
  <2>11. Fresh(T2, P)
    BY <1>2, <2>1, <2>2, <2>4 DEF Fresh, Used
  <2>12. \A k \in AllKeys : HashGet(T2, k) = Empty
    BY <2>4, <2>5, <2>10, HashGetIs
  <2> QED BY <1>1, <2>10, <2>11, <2>12 DEF T2
<1> QED BY <1>3, <1>4

\* An assignment to an absent key finds room.
Gives(T, T2, key, v) == \A k \in AllKeys : GetNorm(T2, k) = IF k = key THEN v ELSE GetNorm(T, k)
SetsFresh(T, T2, P, key, v) ==
    TableOK(T2) /\ Fresh(T2, P) /\ T2.asize = T.asize /\ T2.hint = T.hint /\ Gives(T, T2, key, v)
\* newcheckedkey, after a rehash that made room for the key.
LEMMA SetFresh ==
    ASSUME NEW T, TableOK(T), NEW P, Fresh(T, P), NEW key \in AllKeys, keyinarray(T, key) = 0 => key \in P,
           NEW v \in Values, GetNorm(T, key) = Empty
    PROVE  SetsFresh(T, newcheckedkey(T, key, v), P, key, v)
<1> DEFINE i == keyinarray(T, key)
           T2 == newcheckedkey(T, key, v)
<1>1. HashOK(T) /\ IsTable(T) /\ ArrayOK(T) /\ Apart(T) /\ T.asize \in Nat
  BY DEF TableOK, HashOK, ArrayOK
<1>2. \/ i \in 1 .. T.asize /\ key = <<"int", i>> /\ i > 0
      \/ i = 0 /\ \A j \in 1 .. T.asize : key # <<"int", j>>
  BY <1>1, KeyInArrayIs
<1>3. \A k \in AllKeys : k # Nil
  BY KeyShape
<1>4. CASE i > 0
  <2>1. T2 = [T EXCEPT !.array[i] = v]
    BY <1>4 DEF newcheckedkey
  <2>2. IsTable(T2) /\ T2.size = T.size /\ T2.node = T.node /\ T2.dummy = T.dummy /\ T2.lastfree = T.lastfree
        /\ T2.asize = T.asize /\ T2.hint = T.hint /\ T2.array = [T.array EXCEPT ![i] = v]
    BY <1>1, <2>1 DEF IsTable
  <2> HIDE DEF T2
  <2>3. HashOK(T2) /\ Fresh(T2, P) /\ \A k \in AllKeys : HashGet(T2, k) = HashGet(T, k)
    BY <1>1, <2>2, SameHashOK
  <2>4. ArrayOK(T2)
    BY <1>1, <1>2, <2>2 DEF ArrayOK
  <2>5. \A k : keyinarray(T2, k) = keyinarray(T, k)
    BY <2>2 DEF keyinarray
  <2>6. Apart(T2)
    BY <1>1, <2>2, <2>5 DEF Apart, Nodes, Node
  <2>7. ASSUME NEW k \in AllKeys PROVE GetNorm(T2, k) = IF k = key THEN v ELSE GetNorm(T, k)
    <3>1. \/ keyinarray(T, k) \in 1 .. T.asize /\ k = <<"int", keyinarray(T, k)>> /\ keyinarray(T, k) > 0
          \/ keyinarray(T, k) = 0
      BY <1>1, KeyInArrayIs
    <3>2. CASE keyinarray(T, k) = 0
      BY <1>3, <1>4, <2>3, <2>5, <3>2 DEF GetNorm
    <3>3. CASE keyinarray(T, k) # 0
      <4>1. GetNorm(T2, k) = T2.array[keyinarray(T, k)] /\ GetNorm(T, k) = T.array[keyinarray(T, k)]
        BY <1>3, <2>5, <3>1, <3>3 DEF GetNorm
      <4>2. k = key <=> keyinarray(T, k) = i
        BY <1>2, <1>4, <3>1, <3>3
      <4> QED BY <1>1, <1>2, <1>4, <2>2, <3>1, <3>3, <4>1, <4>2 DEF ArrayOK
    <3> QED BY <3>2, <3>3
  <2> QED BY <2>2, <2>3, <2>4, <2>6, <2>7 DEF SetsFresh, Gives, TableOK, T2
<1>5. CASE i = 0
  <2>1. T2 = insertkey(T, key, v) /\ key \in P
    BY <1>5 DEF newcheckedkey
  <2>2. HashGet(T, key) = Empty
    BY <1>3, <1>5 DEF GetNorm
  <2>3. \A n \in Nodes(T) : Node(T, n).key # key
    BY <1>1, <2>2, NotIn
  <2>4. Put(T, T2, P, key, v)
    BY <1>1, <2>1, <2>3, PutFresh
  <2> HIDE DEF T2
  <2>5. \A k : keyinarray(T2, k) = keyinarray(T, k)
    BY <2>4 DEF keyinarray, Put, SameArray
  <2>6. Apart(T2)
    BY <1>1, <1>5, <2>4, <2>5 DEF Apart, Put
  <2>7. ASSUME NEW k \in AllKeys PROVE GetNorm(T2, k) = IF k = key THEN v ELSE GetNorm(T, k)
    <3>1. HashGet(T2, k) = IF k = key THEN v ELSE HashGet(T, k)
      BY <2>4 DEF Put
    <3>2. T2.array = T.array
      BY <2>4 DEF Put, SameArray
    <3> QED BY <1>3, <1>5, <2>5, <3>1, <3>2 DEF GetNorm
  <2> QED BY <1>1, <2>4, <2>6, <2>7 DEF SetsFresh, Gives, TableOK, Put, SameArray, ArrayOK, T2
<1> QED BY <1>2, <1>4, <1>5

-------------------------------------------------------------------------------
(* A table that is resized has what it had. *)

\* The loop of reinsertOldSlice, turn by turn.
LEMMA ReinsertOldSliceIs ==
    ASSUME NEW T, T.asize \in Nat, NEW newasize
    PROVE  \E t : /\ t[0] = T /\ reinsertOldSlice(T, newasize) = t[T.asize]
                  /\ \A i \in 1 .. T.asize :
                        t[i] = IF i <= newasize \/ T.array[i] = Empty THEN t[i - 1]
                               ELSE insertkey(t[i - 1], <<"int", i>>, T.array[i])
<1> DEFINE Step(i, x) == IF i <= newasize \/ T.array[i] = Empty THEN x ELSE insertkey(x, <<"int", i>>, T.array[i])
           Is(f, m) == f = [i \in 0 .. m |-> IF i = 0 THEN T
                                ELSE IF i <= newasize \/ T.array[i] = Empty THEN f[i - 1]
                                ELSE insertkey(f[i - 1], <<"int", i>>, T.array[i])]
           Q == {m \in Nat : \E f : Is(f, m)}
<1>1. 0 \in Q
  <2>1. Is([k \in 0 .. 0 |-> T], 0)
    OBVIOUS
  <2> QED BY <2>1
<1>2. \A m \in Nat : m \in Q => m + 1 \in Q
  <2> SUFFICES ASSUME NEW m \in Nat, NEW f, Is(f, m) PROVE m + 1 \in Q
    OBVIOUS
  <2> DEFINE h == [k \in 0 .. m + 1 |-> IF k = m + 1 THEN Step(m + 1, f[m]) ELSE f[k]]
  <2>2. \A k \in 0 .. m : f[k] = IF k = 0 THEN T ELSE Step(k, f[k - 1])
    BY Zenon
  <2> HIDE DEF Step, Is
  <2>1. (\A k \in 0 .. m : h[k] = f[k]) /\ h[m + 1] = Step(m + 1, f[m])
    OBVIOUS
  <2>3. \A k \in 0 .. m + 1 : h[k] = IF k = 0 THEN T ELSE Step(k, h[k - 1])
    BY ONLY <2>1, <2>2, m \in Nat
  <2>4. h = [k \in 0 .. m + 1 |-> IF k = 0 THEN T ELSE Step(k, h[k - 1])]
    BY <2>3
  <2> HIDE DEF h
  <2> QED BY <2>4 DEF Step, Is
<1>3. PICK f : Is(f, T.asize)
  <2>1. Hereditary(Q)
    BY <1>1, <1>2 DEF Hereditary
  <2>2. T.asize \in Q
    <3> HIDE DEF Q
    <3> QED BY <2>1, StepByStep
  <2> QED BY <2>2
<1> DEFINE t == CHOOSE g : Is(g, T.asize)
<1>4. Is(t, T.asize)
  BY <1>3
<1>5. reinsertOldSlice(T, newasize) = t[T.asize]
  BY DEF reinsertOldSlice
<1> HIDE DEF t
<1>6. t[0] = T /\ \A i \in 1 .. T.asize : t[i] = Step(i, t[i - 1])
  BY <1>4
<1> QED BY <1>5, <1>6

\* The loop of reinserthash, turn by turn.
LEMMA ReinserthashIs ==
    ASSUME NEW T, NEW old, old.size \in Nat
    PROVE  \E t : /\ t[0] = T /\ reinserthash(T, old) = t[old.size]
                  /\ \A j \in 1 .. old.size :
                        t[j] = IF Node(old, j - 1).val = Empty THEN t[j - 1]
                               ELSE newcheckedkey(t[j - 1], Node(old, j - 1).key, Node(old, j - 1).val)
<1> DEFINE Step(j, x) == IF Node(old, j - 1).val = Empty THEN x ELSE newcheckedkey(x, Node(old, j - 1).key, Node(old, j - 1).val)
           Is(f, m) == f = [j \in 0 .. m |-> IF j = 0 THEN T
                                ELSE IF Node(old, j - 1).val = Empty THEN f[j - 1]
                                ELSE newcheckedkey(f[j - 1], Node(old, j - 1).key, Node(old, j - 1).val)]
           Q == {m \in Nat : \E f : Is(f, m)}
<1>1. 0 \in Q
  <2>1. Is([k \in 0 .. 0 |-> T], 0)
    OBVIOUS
  <2> QED BY <2>1
<1>2. \A m \in Nat : m \in Q => m + 1 \in Q
  <2> SUFFICES ASSUME NEW m \in Nat, NEW f, Is(f, m) PROVE m + 1 \in Q
    OBVIOUS
  <2> DEFINE h == [k \in 0 .. m + 1 |-> IF k = m + 1 THEN Step(m + 1, f[m]) ELSE f[k]]
  <2>2. \A k \in 0 .. m : f[k] = IF k = 0 THEN T ELSE Step(k, f[k - 1])
    BY Zenon
  <2> HIDE DEF Step, Is
  <2>1. (\A k \in 0 .. m : h[k] = f[k]) /\ h[m + 1] = Step(m + 1, f[m])
    OBVIOUS
  <2>3. \A k \in 0 .. m + 1 : h[k] = IF k = 0 THEN T ELSE Step(k, h[k - 1])
    BY ONLY <2>1, <2>2, m \in Nat
  <2>4. h = [k \in 0 .. m + 1 |-> IF k = 0 THEN T ELSE Step(k, h[k - 1])]
    BY <2>3
  <2> HIDE DEF h
  <2> QED BY <2>4 DEF Step, Is
<1>3. PICK f : Is(f, old.size)
  <2>1. Hereditary(Q)
    BY <1>1, <1>2 DEF Hereditary
  <2>2. old.size \in Q
    <3> HIDE DEF Q
    <3> QED BY <2>1, StepByStep
  <2> QED BY <2>2
<1> DEFINE t == CHOOSE g : Is(g, old.size)
<1>4. Is(t, old.size)
  BY <1>3
<1>5. reinserthash(T, old) = t[old.size]
  BY DEF reinserthash
<1> HIDE DEF t
<1>6. t[0] = T /\ \A i \in 1 .. old.size : t[i] = Step(i, t[i - 1])
  BY <1>4
<1> QED BY <1>5, <1>6

\* P has the keys of a table that do not go to an array of newasize elements.
Moves(T, newasize, P) ==
    /\ \A i \in newasize + 1 .. T.asize : T.array[i] # Empty => <<"int", i>> \in P
    /\ \A n \in Nodes(T) : Full(T, n) /\ (\A i \in 1 .. newasize : Node(T, n).key # <<"int", i>>) => Node(T, n).key \in P

\* The slice of the array that goes is in the hash part.
Sliced(T, T2, newasize, P) ==
    /\ HashOK(T2) /\ Fresh(T2, P) /\ T2.asize = T.asize /\ T2.array = T.array
    /\ \A k \in AllKeys : HashGet(T2, k) = IF \E i \in newasize + 1 .. T.asize : k = <<"int", i>> THEN T.array[k[2]] ELSE Empty
\* reinsertOldSlice moves the vanishing slice of the array to the hash part.
LEMMA SliceMoves ==
    ASSUME NEW T, HashOK(T), ArrayOK(T), T.asize <= MaxASize, NEW newasize \in Nat, NEW P, Fresh(T, P),
           \A k \in AllKeys : HashGet(T, k) = Empty,
           \A i \in newasize + 1 .. T.asize : T.array[i] # Empty => <<"int", i>> \in P
    PROVE  Sliced(T, reinsertOldSlice(T, newasize), newasize, P)
<1>1. T.asize \in Nat /\ T.array \in [1 .. T.asize -> Values \cup {Empty}] /\ Empty \notin Values
  BY ProgramsAssumption DEF ArrayOK
<1>2. \A i \in 1 .. T.asize : <<"int", i>> \in AllKeys
  <2>1. MaxASize \in Nat /\ MaxInteger \in Nat /\ MaxASize + 1 < MaxInteger
    BY SizesAssumption
  <2>2. 1 .. T.asize \subseteq Integer
    BY <1>1, <2>1 DEF Integer
  <2> QED BY <2>2 DEF AllKeys, Nil, NaN
<1>3. PICK t : /\ t[0] = T /\ reinsertOldSlice(T, newasize) = t[T.asize]
               /\ \A i \in 1 .. T.asize :
                     t[i] = IF i <= newasize \/ T.array[i] = Empty THEN t[i - 1]
                            ELSE insertkey(t[i - 1], <<"int", i>>, T.array[i])
  BY <1>1, ReinsertOldSliceIs
<1> DEFINE UpTo(i, k) == IF \E j \in newasize + 1 .. i : k = <<"int", j>> THEN T.array[k[2]] ELSE Empty
           Good(i) == /\ HashOK(t[i]) /\ Fresh(t[i], P) /\ t[i].asize = T.asize /\ t[i].array = T.array
                      /\ \A k \in AllKeys : HashGet(t[i], k) = UpTo(i, k)
           Q == {i \in Nat : i <= T.asize => Good(i)}
<1>4. 0 \in Q
  <2>1. \A k \in AllKeys : UpTo(0, k) = Empty
    OBVIOUS
  <2> HIDE DEF UpTo
  <2> QED BY <1>3, <2>1
<1>5. ASSUME NEW m \in Nat, m \in Q PROVE m + 1 \in Q
  <2> SUFFICES ASSUME m + 1 <= T.asize PROVE Good(m + 1)
    OBVIOUS
  <2> DEFINE i == m + 1
             key == <<"int", i>>
  <2>1. Good(m) /\ i \in 1 .. T.asize /\ i - 1 = m /\ key \in AllKeys
    BY <1>1, <1>2, <1>5
  <2>2. t[i] = IF i <= newasize \/ T.array[i] = Empty THEN t[m] ELSE insertkey(t[m], key, T.array[i])
    BY <1>3, <2>1
  <2>3. ASSUME NEW k \in AllKeys
        PROVE  UpTo(i, k) = IF k = key /\ i > newasize THEN T.array[i] ELSE UpTo(m, k)
    <3>1. key[2] = i /\ \A j : j # i => <<"int", j>> # key
      OBVIOUS
    <3>2. \A j : j \in newasize + 1 .. i <=> j \in newasize + 1 .. m \/ (j = i /\ i > newasize)
      OBVIOUS
    <3> HIDE DEF i
    <3> QED BY <3>1, <3>2
  <2>4. CASE i <= newasize \/ T.array[i] = Empty
    <3>1. \A k \in AllKeys : UpTo(i, k) = UpTo(m, k)
      <4>1. UpTo(m, key) = Empty
        OBVIOUS
      <4> HIDE DEF UpTo, key
      <4> QED BY <2>3, <2>4, <4>1
    <3> HIDE DEF UpTo, i, key
    <3> QED BY <2>1, <2>2, <2>4, <3>1 DEF i
  <2>5. CASE ~(i <= newasize \/ T.array[i] = Empty)
    <3>1. T.array[i] \in Values /\ i > newasize
      BY <1>1, <2>1, <2>5
    <3>2. key \in P
      BY <1>1, <2>1, <2>5
    <3>3. UpTo(m, key) = Empty
      OBVIOUS
    <3> HIDE DEF UpTo, i, key
    <3>4. \A n \in Nodes(t[m]) : Node(t[m], n).key # key
      BY <2>1, <3>3, NotIn
    <3>5. Put(t[m], t[i], P, key, T.array[i])
      BY <2>1, <2>2, <2>5, <3>1, <3>2, <3>4, PutFresh
    <3>6. \A k \in AllKeys : HashGet(t[i], k) = UpTo(i, k)
      BY <2>1, <2>3, <3>1, <3>5 DEF Put
    <3>7. Good(i)
      BY <2>1, <3>5, <3>6 DEF Put, SameArray
    <3> QED BY <3>7 DEF i
  <2> QED BY <2>4, <2>5
<1>6. T.asize \in Q
  <2>1. Hereditary(Q)
    BY <1>4, <1>5 DEF Hereditary
  <2> HIDE DEF Q
  <2> QED BY <1>1, <2>1, StepByStep
<1>7. Good(T.asize)
  BY <1>1, <1>6
<1> QED BY <1>3, <1>7 DEF Sliced

\* What the reads of the first j nodes and of the array of T give.
ReadUpTo(T, k, j) ==
    IF keyinarray(T, k) > 0 THEN T.array[keyinarray(T, k)]
    ELSE IF \E n \in Nodes(T) : n < j /\ Node(T, n).key = k THEN HashGet(T, k) ELSE Empty
Partly(T, T2, newasize, P, j) ==
    /\ TableOK(T2) /\ Fresh(T2, P) /\ T2.asize = newasize /\ T2.hint = newasize \div 2
    /\ \A k \in AllKeys : GetNorm(T2, k) = ReadUpTo(T, k, j)

\* resizearray cuts or extends the array part once the slice has been moved.
LEMMA ResizeArrayOK ==
    ASSUME NEW T, TableOK(T), NEW newasize \in Nat, NEW P, NEW S, Sliced(T, S, newasize, P)
    PROVE  Partly(T, resizearray(S, newasize), newasize, P, 0)
<1> DEFINE U == resizearray(S, newasize)
<1>1. HashOK(S) /\ IsTable(S) /\ S.asize = T.asize /\ S.array = T.array /\ T.asize \in Nat
      /\ T.array \in [1 .. T.asize -> Values \cup {Empty}] /\ Fresh(S, P)
  BY DEF Sliced, HashOK, TableOK, ArrayOK
<1>2. /\ IsTable(U) /\ U.size = S.size /\ U.node = S.node /\ U.dummy = S.dummy /\ U.lastfree = S.lastfree
      /\ U.asize = newasize /\ U.hint = newasize \div 2
      /\ U.array = [i \in 1 .. newasize |-> IF i <= S.asize THEN S.array[i] ELSE Empty]
  BY <1>1 DEF resizearray, IsTable
<1> HIDE DEF U
<1>3. HashOK(U) /\ Fresh(U, P) /\ \A k \in AllKeys : HashGet(U, k) = HashGet(S, k)
  BY <1>1, <1>2, SameHashOK
<1>4. ArrayOK(U)
  BY <1>1, <1>2 DEF ArrayOK
<1>5. Apart(U)
  <2> SUFFICES ASSUME NEW n \in Nodes(U), Node(U, n).key \in AllKeys, keyinarray(U, Node(U, n).key) # 0 PROVE FALSE
    BY DEF Apart
  <2> DEFINE k == Node(U, n).key
             i == keyinarray(U, k)
  <2>1. i \in 1 .. newasize /\ k = <<"int", i>>
    BY <1>2, KeyInArrayIs
  <2>2. ~\E j \in newasize + 1 .. T.asize : k = <<"int", j>>
    BY <2>1
  <2> HIDE DEF k
  <2>3. HashGet(U, k) = Empty
    BY <1>3, <2>2 DEF Sliced, k
  <2> QED BY <1>3, <2>3, NotIn DEF k
<1>6. ASSUME NEW k \in AllKeys PROVE GetNorm(U, k) = ReadUpTo(T, k, 0)
  <2>1. k # Nil
    BY KeyShape
  <2>2. ReadUpTo(T, k, 0) = IF keyinarray(T, k) > 0 THEN T.array[keyinarray(T, k)] ELSE Empty
    <3>1. ~\E n \in Nodes(T) : n < 0 /\ Node(T, n).key = k
      BY DEF Nodes
    <3> QED BY <3>1 DEF ReadUpTo
  <2>3. \/ keyinarray(T, k) \in 1 .. T.asize /\ k = <<"int", keyinarray(T, k)>> /\ keyinarray(T, k) > 0
        \/ keyinarray(T, k) = 0 /\ \A i \in 1 .. T.asize : k # <<"int", i>>
    BY <1>1, KeyInArrayIs
  <2>4. \/ keyinarray(U, k) \in 1 .. newasize /\ k = <<"int", keyinarray(U, k)>> /\ keyinarray(U, k) > 0
        \/ keyinarray(U, k) = 0 /\ \A i \in 1 .. newasize : k # <<"int", i>>
    BY <1>2, KeyInArrayIs
  <2>5. CASE keyinarray(U, k) > 0
    <3> DEFINE i == keyinarray(U, k)
    <3>1. GetNorm(U, k) = IF i <= T.asize THEN T.array[i] ELSE Empty
      BY <1>1, <1>2, <2>1, <2>4, <2>5 DEF GetNorm
    <3>2. i <= T.asize => keyinarray(T, k) = i
      BY <1>1, <2>3, <2>4, <2>5
    <3>3. i > T.asize => keyinarray(T, k) = 0
      BY <1>1, <2>3, <2>4, <2>5
    <3> HIDE DEF i
    <3>4. i \in 1 .. newasize
      BY <2>4, <2>5 DEF i
    <3> QED BY <1>1, <2>2, <3>1, <3>2, <3>3, <3>4
  <2>6. CASE keyinarray(U, k) = 0
    <3>1. GetNorm(U, k) = IF \E i \in newasize + 1 .. T.asize : k = <<"int", i>> THEN T.array[k[2]] ELSE Empty
      BY <1>3, <2>1, <2>6 DEF GetNorm, Sliced
    <3>2. CASE keyinarray(T, k) = 0
      <4>1. ~\E i \in newasize + 1 .. T.asize : k = <<"int", i>>
        BY <1>1, <2>3, <3>2
      <4> QED BY <2>2, <3>1, <3>2, <4>1
    <3>3. CASE keyinarray(T, k) # 0
      <4> DEFINE i == keyinarray(T, k)
      <4>1. i \in 1 .. T.asize /\ k = <<"int", i>> /\ i > 0 /\ i \notin 1 .. newasize
        BY <2>3, <2>4, <2>6, <3>3
      <4> HIDE DEF i
      <4>2. i \in newasize + 1 .. T.asize /\ k[2] = i
        BY <4>1, <1>1
      <4> QED BY <2>2, <3>1, <4>1, <4>2 DEF i
    <3> QED BY <3>2, <3>3
  <2> QED BY <2>4, <2>5, <2>6
<1> QED BY <1>2, <1>3, <1>4, <1>5, <1>6 DEF Partly, TableOK, U

\* In order to reinsert: the nodes that have a value have keys of their own.
LEMMA FullIs ==
    ASSUME NEW T, HashOK(T), NEW n \in Nodes(T), Full(T, n)
    PROVE  /\ Node(T, n).key \in AllKeys /\ Node(T, n).val \in Values
           /\ \A m \in Nodes(T) : Node(T, m).key = Node(T, n).key => m = n
<1>1. ~T.dummy
  BY DummyIs
<1>2. PICK r : Chained(T, r)
  BY <1>1 DEF HashOK
<1>3. Node(T, n).key \in AllKeys /\ Single(T) /\ HashType(T)
  BY <1>2 DEF Chained, Linked
<1>4. Node(T, n).val \in Values
  BY <1>3, UsedIs DEF NodeType, Full
<1> QED BY <1>3, <1>4 DEF Single

\* reinserthash moves every value of the old hash part to either part.
LEMMA ReinsertOK ==
    ASSUME NEW T, TableOK(T), NEW newasize \in Nat, NEW P, Moves(T, newasize, P), NEW U, Partly(T, U, newasize, P, 0)
    PROVE  Partly(T, reinserthash(U, T), newasize, P, T.size)
<1>1. HashOK(T) /\ T.size \in Nat \ {0} /\ Nodes(T) = 0 .. T.size - 1 /\ T.asize \in Nat
  BY DummyIs DEF TableOK, HashOK, Chained, HashType, Nodes, ArrayOK
<1>2. PICK t : /\ t[0] = U /\ reinserthash(U, T) = t[T.size]
               /\ \A j \in 1 .. T.size :
                     t[j] = IF Node(T, j - 1).val = Empty THEN t[j - 1]
                            ELSE newcheckedkey(t[j - 1], Node(T, j - 1).key, Node(T, j - 1).val)
  <2>1. T.size \in Nat
    BY <1>1
  <2> QED BY <2>1, ReinserthashIs
<1> DEFINE Q == {j \in Nat : j <= T.size => Partly(T, t[j], newasize, P, j)}
<1>3. 0 \in Q
  BY <1>2
<1>4. ASSUME NEW n \in Nat, n \in Q PROVE n + 1 \in Q
  <2> SUFFICES ASSUME n + 1 <= T.size PROVE Partly(T, t[n + 1], newasize, P, n + 1)
    OBVIOUS
  <2> DEFINE key == Node(T, n).key
             v == Node(T, n).val
             j == n + 1
  <2>1. Partly(T, t[n], newasize, P, n) /\ n \in Nodes(T) /\ j \in 1 .. T.size /\ j - 1 = n
    BY <1>1, <1>4
  <2>2. t[j] = IF v = Empty THEN t[n] ELSE newcheckedkey(t[n], key, v)
    BY <1>2, <2>1
  <2>3. \A m \in Nodes(T) : m < j <=> m < n \/ m = n
    BY <1>1
  <2>4. HashGet(T, key) = v \/ key \notin AllKeys
    BY <1>1, <2>1, HashGetIs
  <2>5. ASSUME NEW k \in AllKeys, k # key PROVE ReadUpTo(T, k, j) = ReadUpTo(T, k, n)
    BY <2>3, <2>5 DEF ReadUpTo
  <2>6. CASE v = Empty
    <3>1. ASSUME NEW k \in AllKeys PROVE ReadUpTo(T, k, j) = ReadUpTo(T, k, n)
      <4>1. CASE k = key
        BY <2>4, <2>6, <4>1 DEF ReadUpTo
      <4> QED BY <2>5, <4>1
    <3> HIDE DEF j
    <3> QED BY <2>1, <2>2, <2>6, <3>1 DEF Partly, j
  <2>7. CASE v # Empty
    <3>1. key \in AllKeys /\ v \in Values /\ (\A m \in Nodes(T) : Node(T, m).key = key => m = n) /\ Full(T, n)
      BY <1>1, <2>1, <2>7, FullIs DEF Full
    <3>2. keyinarray(T, key) = 0
      BY <2>1, <3>1 DEF TableOK, Apart
    <3>3. ReadUpTo(T, key, n) = Empty /\ ReadUpTo(T, key, j) = v
      <4>1. ~\E m \in Nodes(T) : m < n /\ Node(T, m).key = key
        BY <1>1, <3>1
      <4>2. n < j
        OBVIOUS
      <4> HIDE DEF key, v, j
      <4> QED BY <2>1, <2>4, <3>1, <3>2, <4>1, <4>2 DEF ReadUpTo, key
    <3>4. t[n].asize = newasize /\ TableOK(t[n]) /\ Fresh(t[n], P) /\ GetNorm(t[n], key) = Empty
      BY <2>1, <3>1, <3>3 DEF Partly
    <3>5. keyinarray(t[n], key) = 0 => key \in P
      <4>1. key \in P \/ \E i \in 1 .. newasize : key = <<"int", i>>
        BY <2>1, <3>1 DEF Moves
      <4> HIDE DEF key
      <4>2. keyinarray(t[n], key) = 0 => \A i \in 1 .. newasize : key # <<"int", i>>
        BY <3>1, <3>4, KeyInArrayIs
      <4> QED BY <4>1, <4>2
    <3> HIDE DEF key, v, j
    <3>6. SetsFresh(t[n], t[j], P, key, v)
      BY <2>2, <2>7, <3>1, <3>4, <3>5, SetFresh
    <3>7. \A k \in AllKeys : GetNorm(t[j], k) = ReadUpTo(T, k, j)
      BY <2>1, <2>5, <3>3, <3>6 DEF SetsFresh, Gives, Partly
    <3> QED BY <2>1, <3>6, <3>7 DEF SetsFresh, Partly, j
  <2> QED BY <2>6, <2>7
<1>5. T.size \in Q
  <2>1. Hereditary(Q)
    BY <1>3, <1>4 DEF Hereditary
  <2> HIDE DEF Q
  <2> QED BY <1>1, <2>1, StepByStep
<1> QED BY <1>1, <1>2, <1>5

\* A table that is resized with room for what moves has what it had.
Resized(T, T2, newasize, P) ==
    /\ TableOK(T2) /\ Fresh(T2, P) /\ T2.asize = newasize /\ T2.hint = newasize \div 2
    /\ \A k \in AllKeys : GetNorm(T2, k) = GetNorm(T, k)
\* luaH_resize loses nothing and leaves room, if it is given a size for the keys.
LEMMA ResizeOK ==
    ASSUME NEW T, TableOK(T), T.asize <= MaxASize, NEW newasize \in Nat, NEW nhsize \in Nat, NEW P,
           IsFiniteSet(P), P \subseteq AllKeys, Cardinality(P) <= nhsize, Moves(T, newasize, P)
    PROVE  Resized(T, luaH_resize(T, newasize, nhsize), newasize, P)
<1> DEFINE H == setnodevector(T, nhsize)
           S == reinsertOldSlice(H, newasize)
           U == resizearray(S, newasize)
           R == reinserthash(U, T)
<1>1. HashOK(T) /\ IsTable(T) /\ ArrayOK(T)
  BY DEF TableOK, HashOK
<1>2. HashOK(H) /\ Fresh(H, P) /\ H.asize = T.asize /\ H.array = T.array /\ \A k \in AllKeys : HashGet(H, k) = Empty
  BY <1>1, NewHash
<1> HIDE DEF H
<1>3. ArrayOK(H) /\ H.asize <= MaxASize /\ \A i \in newasize + 1 .. H.asize : H.array[i] # Empty => <<"int", i>> \in P
  BY <1>1, <1>2 DEF ArrayOK, Moves
<1>4. Sliced(H, S, newasize, P)
  BY <1>2, <1>3, SliceMoves
<1>5. Sliced(T, S, newasize, P)
  BY <1>2, <1>4 DEF Sliced
<1> HIDE DEF S
<1>6. Partly(T, U, newasize, P, 0)
  BY <1>5, ResizeArrayOK
<1> HIDE DEF U
<1>7. Partly(T, R, newasize, P, T.size)
  BY <1>6, ReinsertOK
<1> HIDE DEF R
<1>8. ASSUME NEW k \in AllKeys PROVE ReadUpTo(T, k, T.size) = GetNorm(T, k)
  <2>1. \/ keyinarray(T, k) > 0
        \/ keyinarray(T, k) = 0
    BY <1>1, KeyInArrayIs DEF ArrayOK
  <2>2. \A n \in Nodes(T) : n < T.size
    BY <1>1, DummyIs DEF HashOK, Chained, HashType, Nodes
  <2> QED BY <1>1, <2>1, <2>2, HashGetIs, KeyShape DEF ReadUpTo, GetNorm
<1>9. luaH_resize(T, newasize, nhsize) = R
  BY DEF luaH_resize, H, S, U, R
<1> QED BY <1>7, <1>8, <1>9 DEF Partly, Resized

-------------------------------------------------------------------------------
(* A rehash counts what there is. *)

\* An image has no more members than the set.
LEMMA ImageFinite ==
    ASSUME NEW S, IsFiniteSet(S), NEW f
    PROVE  IsFiniteSet({f[x] : x \in S}) /\ Cardinality({f[x] : x \in S}) <= Cardinality(S)
<1> DEFINE R == {f[x] : x \in S}
           g == [x \in S |-> f[x]]
<1>1. g \in Surjection(S, R)
  <2>1. g \in [S -> R] /\ \A y \in R : \E x \in S : g[x] = y
    OBVIOUS
  <2> HIDE DEF g, R
  <2> QED BY <2>1, Fun_IsSurj
<1> HIDE DEF g
<1>2. IsFiniteSet(R) /\ Cardinality(R) <= Cardinality(S)
  <2> HIDE DEF R
  <2> QED BY <1>1, FS_Surjection
<1> QED BY <1>2

\* computesizes gives a size that an array part may have.
LEMMA NewASizeIs ==
    ASSUME NEW T, T.asize \in Nat, NEW key
    PROVE  NewASize(T, key) \in Nat
<1> DEFINE sizes == computesizes(Indices(T, key) \cup ArrayIndices(T))
<1>1. MaxASize \in Nat /\ CeilLog2(MaxASize) \in Nat
  BY SizesAssumption, CeilLog2Is
<1>2. sizes \subseteq 0 .. CeilLog2(MaxASize)
  BY DEF computesizes
<1> HIDE DEF sizes
<1>3. sizes # {} => Max(sizes) \in Nat
  <2> SUFFICES ASSUME sizes # {} PROVE Max(sizes) \in Nat
    OBVIOUS
  <2>1. PICK b \in Nat : sizes \subseteq 0 .. b
    BY <1>1, <1>2
  <2>2. Max(sizes) \in sizes
    BY <2>1, MaxIs
  <2>3. 0 .. b \subseteq Nat
    OBVIOUS
  <2> QED BY <2>1, <2>2, <2>3, Zenon
<1>4. sizes # {} => twoto[Max(sizes)] \in Nat
  BY <1>3, TwoToIs
<1> QED BY <1>4 DEF NewASize, sizes

\* What moves in a rehash, with the new key, has room.
HasRoom(T, key, newasize, nhsize, P) ==
    /\ IsFiniteSet(P) /\ P \subseteq AllKeys /\ Cardinality(P) <= nhsize /\ Moves(T, newasize, P)
    /\ key \in P \/ \E i \in 1 .. newasize : key = <<"int", i>>
\* rehash counts enough: its hash part has room for what goes there and for the new key.
LEMMA RehashCounts ==
    ASSUME NEW T, TableOK(T), T.asize <= MaxASize, NEW key \in AllKeys, NewASize(T, key) <= MaxASize
    PROVE  /\ NewHSize(T, key) \in Nat
           /\ \E P : HasRoom(T, key, NewASize(T, key), NewHSize(T, key), P)
<1> DEFINE na == NewASize(T, key)
           hk == HashKeys(T, key)
           inkeys == {Node(T, n).key : n \in InUse(T)}
           K == inkeys \cup {key}
           A == {<<"int", i>> : i \in ArrayIndices(T)}
           Q == K \cup A
<1>1. /\ HashOK(T) /\ T.asize \in Nat /\ T.size \in Nat \ {0} /\ T.array \in [1 .. T.asize -> Values \cup {Empty}]
      /\ MaxASize \in Nat /\ na \in Nat /\ na <= MaxASize
  BY DummyIs, NewASizeIs, SizesAssumption DEF TableOK, ArrayOK, HashOK, Chained, HashType
<1>2. IsFiniteSet(InUse(T)) /\ Cardinality(InUse(T)) \in Nat
  <2>1. IsFiniteSet(Nodes(T)) /\ InUse(T) \in SUBSET Nodes(T)
    BY <1>1, NodesFinite DEF InUse
  <2> QED BY <2>1, FS_Subset, FS_CardinalityType
<1>3. IsFiniteSet(ArrayIndices(T)) /\ Cardinality(ArrayIndices(T)) \in Nat /\ ArrayIndices(T) \subseteq 1 .. T.asize
  <2>1. IsFiniteSet(1 .. T.asize) /\ ArrayIndices(T) \in SUBSET (1 .. T.asize)
    <3>1. 1 \in Int /\ T.asize \in Int
      BY <1>1
    <3> QED BY <3>1, FS_Interval DEF ArrayIndices
  <2> QED BY <2>1, FS_Subset, FS_CardinalityType
<1>4. IsFiniteSet(K) /\ Cardinality(K) \in Nat /\ Cardinality(K) <= Cardinality(InUse(T)) + 1
  <2> DEFINE f == [n \in InUse(T) |-> Node(T, n).key]
  <2>1. inkeys = {f[n] : n \in InUse(T)}
    OBVIOUS
  <2>2. IsFiniteSet(inkeys) /\ Cardinality(inkeys) <= Cardinality(InUse(T))
    <3> HIDE DEF f
    <3>1. IsFiniteSet({f[n] : n \in InUse(T)}) /\ Cardinality({f[n] : n \in InUse(T)}) <= Cardinality(InUse(T))
      BY <1>2, ImageFinite
    <3> QED BY <2>1, <3>1
  <2> HIDE DEF inkeys
  <2>3. IsFiniteSet(K) /\ Cardinality(K) = IF key \in inkeys THEN Cardinality(inkeys) ELSE Cardinality(inkeys) + 1
    BY <2>2, FS_AddElement
  <2>4. Cardinality(inkeys) \in Nat
    BY <2>2, FS_CardinalityType
  <2> QED BY <1>2, <2>2, <2>3, <2>4
<1>5. IsFiniteSet(A) /\ Cardinality(A) \in Nat /\ Cardinality(A) <= Cardinality(ArrayIndices(T))
  <2> DEFINE f == [i \in ArrayIndices(T) |-> <<"int", i>>]
  <2>1. A = {f[i] : i \in ArrayIndices(T)}
    OBVIOUS
  <2>2. IsFiniteSet({f[i] : i \in ArrayIndices(T)}) /\ Cardinality({f[i] : i \in ArrayIndices(T)}) <= Cardinality(ArrayIndices(T))
    <3> HIDE DEF f
    <3> QED BY <1>3, ImageFinite
  <2> QED BY <2>1, <2>2, FS_CardinalityType
<1>6. K \subseteq AllKeys /\ A \subseteq AllKeys
  <2>1. inkeys \subseteq AllKeys
    BY <1>1, FullIs DEF InUse, Full
  <2>2. MaxInteger \in Nat /\ MaxASize + 1 < MaxInteger
    BY SizesAssumption
  <2>3. 1 .. T.asize \subseteq Integer
    BY <1>1, <2>2 DEF Integer
  <2> QED BY <1>3, <2>1, <2>3 DEF AllKeys, Nil, NaN
<1>7. /\ \A i \in 1 .. T.asize : T.array[i] # Empty => <<"int", i>> \in A
      /\ \A n \in Nodes(T) : Full(T, n) => Node(T, n).key \in K
  BY DEF ArrayIndices, InUse, Full
<1>8. hk \in Nat => NewHSize(T, key) \in Nat /\ NewHSize(T, key) >= hk
  <2> HIDE DEF hk
  <2>1. hk \in Nat => hk + hk \div 4 \in Nat /\ hk + hk \div 4 >= hk
    OBVIOUS
  <2> QED BY <2>1 DEF NewHSize, hk
<1>9. CASE Indices(T, key) = {}
  <2>1. na = T.asize /\ hk = Cardinality(InUse(T)) + 1
    BY <1>9 DEF NewASize, HashKeys
  <2> HIDE DEF na, hk, K, A
  <2>2. Moves(T, na, K)
    BY <1>1, <1>7, <2>1 DEF Moves
  <2>3. key \in K
    BY DEF K
  <2>4. hk \in Nat /\ Cardinality(K) <= NewHSize(T, key) /\ NewHSize(T, key) \in Nat
    BY <1>2, <1>4, <1>8, <2>1
  <2> QED BY <1>4, <1>6, <2>2, <2>3, <2>4 DEF HasRoom, na
<1>10. CASE Indices(T, key) # {}
  <2> DEFINE all == Indices(T, key) \cup ArrayIndices(T)
             S == {i \in all : i <= na}
             G == {<<"int", i>> : i \in S}
             P == Q \ G
  <2>1. hk = Cardinality(InUse(T)) + 1 + Cardinality(ArrayIndices(T)) - Cardinality(S)
    BY <1>10 DEF HashKeys, InSlices
  <2>2. \A i \in Indices(T, key) : i \in Int /\ <<"int", i>> \in K
    <3> SUFFICES ASSUME NEW i \in Indices(T, key) PROVE i \in Int /\ <<"int", i>> \in K
      OBVIOUS
    <3>1. PICK k \in K : i = arrayindex(k) /\ i # 0
      BY DEF Indices
    <3>2. k[1] = "int" /\ i = k[2] /\ k[2] \in 1 .. MaxASize
      BY <3>1 DEF arrayindex, checkrange
    <3>3. k = <<"int", k[2]>>
      BY <1>6, <3>2, KeyShape
    <3> QED BY <3>1, <3>2, <3>3
  <2> HIDE DEF na, K
  <2>3. G \subseteq Q
    BY <1>3, <2>2
  <2>4. IsFiniteSet(Q) /\ Cardinality(Q) \in Nat /\ Cardinality(Q) <= Cardinality(K) + Cardinality(A)
    <3> HIDE DEF A
    <3>1. IsFiniteSet(K \cup A) /\ Cardinality(K \cup A) = Cardinality(K) + Cardinality(A) - Cardinality(K \cap A)
      BY <1>4, <1>5, FS_Union
    <3>2. IsFiniteSet(K \cap A) /\ Cardinality(K \cap A) \in Nat
      <4>1. K \cap A \in SUBSET K
        OBVIOUS
      <4> QED BY <1>4, <4>1, FS_Subset, FS_CardinalityType
    <3>3. Cardinality(K \cup A) \in Nat
      BY <3>1, FS_CardinalityType
    <3> QED BY <1>4, <1>5, <3>1, <3>2, <3>3
  <2>5. IsFiniteSet(G) /\ Cardinality(G) \in Nat /\ Cardinality(S) \in Nat /\ Cardinality(S) <= Cardinality(G)
    <3>1. IsFiniteSet(G) /\ Cardinality(G) \in Nat
      <4> HIDE DEF G, Q
      <4> QED BY <2>3, <2>4, FS_Subset, FS_CardinalityType
    <3> DEFINE f == [i \in S |-> <<"int", i>>]
    <3>2. f \in [S -> G] /\ \A i, j \in S : f[i] = f[j] => i = j
      <4> HIDE DEF S
      <4>1. \A i \in S : f[i] = <<"int", i>> /\ f[i][2] = i
        OBVIOUS
      <4> QED BY <4>1
    <3> HIDE DEF f, G, S
    <3>3. f \in Injection(S, G)
      BY <3>2, Fun_IsInj
    <3>4. IsFiniteSet(S) /\ Cardinality(S) <= Cardinality(G)
      BY <3>1, <3>3, FS_Injection
    <3> QED BY <3>1, <3>4, FS_CardinalityType
  <2>6. IsFiniteSet(P) /\ Cardinality(P) \in Nat /\ Cardinality(P) = Cardinality(Q) - Cardinality(G)
    <3> HIDE DEF Q, G
    <3>1. IsFiniteSet(Q \ G) /\ Cardinality(Q \ G) = Cardinality(Q) - Cardinality(Q \cap G)
      BY <2>4, FS_Difference
    <3>2. Q \cap G = G
      BY <2>3
    <3> QED BY <3>1, <3>2, FS_CardinalityType
  <2>7. P \subseteq AllKeys
    BY <1>6
  <2>8. \A i : <<"int", i>> \in Q /\ i > na /\ i \in Int => <<"int", i>> \in P
    <3> SUFFICES ASSUME NEW i \in Int, i > na, <<"int", i>> \in G PROVE FALSE
      OBVIOUS
    <3>1. PICK j \in S : <<"int", i>> = <<"int", j>>
      OBVIOUS
    <3>2. i = j
      BY <3>1
    <3> QED BY <1>1, <3>2
  <2>9. \A k \in Q : (\A i \in 1 .. na : k # <<"int", i>>) => k \in P
    <3> SUFFICES ASSUME NEW k \in G PROVE \E i \in 1 .. na : k = <<"int", i>>
      OBVIOUS
    <3>1. PICK i \in S : k = <<"int", i>>
      OBVIOUS
    <3>2. i \in 1 .. na
      <4>1. i \in ArrayIndices(T) => i \in 1 .. T.asize
        BY <1>3
      <4>2. i \in Indices(T, key) => i \in 1 .. MaxASize
        <5> SUFFICES ASSUME i \in Indices(T, key) PROVE i \in 1 .. MaxASize
          OBVIOUS
        <5>1. PICK q : i = arrayindex(q) /\ i # 0
          BY DEF Indices
        <5> QED BY <5>1 DEF arrayindex, checkrange
      <4> QED BY <1>1, <4>1, <4>2
    <3> QED BY <3>1, <3>2
  <2> HIDE DEF P
  <2>10. Moves(T, na, P)
    <3>1. \A i \in na + 1 .. T.asize : i \in Int /\ i > na /\ i \in 1 .. T.asize
      BY <1>1
    <3> QED BY <1>7, <2>8, <2>9, <3>1 DEF Moves
  <2>11. key \in Q
    BY DEF K
  <2> HIDE DEF Q, G, S, A
  <2>12. hk \in Nat /\ Cardinality(P) <= hk
    BY <1>2, <1>3, <1>4, <1>5, <2>1, <2>4, <2>5, <2>6
  <2> HIDE DEF hk
  <2>13. NewHSize(T, key) \in Nat /\ Cardinality(P) <= NewHSize(T, key)
    BY <1>8, <2>6, <2>12
  <2> QED BY <2>6, <2>7, <2>9, <2>10, <2>11, <2>13 DEF HasRoom, na
<1> QED BY <1>9, <1>10

-------------------------------------------------------------------------------
(* The operations. *)

GoodTable(T) == TableOK(T) /\ T.asize <= MaxASize /\ T.hint \in 0 .. T.asize

\* A read takes the array part or the hash part, by the key.
LEMMA GetNormIs ==
    ASSUME NEW T, TableOK(T), NEW k \in AllKeys
    PROVE  /\ keyinarray(T, k) = 0 => GetNorm(T, k) = HashGet(T, k)
           /\ keyinarray(T, k) # 0 =>
                 /\ keyinarray(T, k) \in 1 .. T.asize /\ k = <<"int", keyinarray(T, k)>>
                 /\ GetNorm(T, k) = T.array[keyinarray(T, k)]
<1>1. T.asize \in Nat /\ k # Nil
  BY KeyShape DEF TableOK, ArrayOK
<1>2. \/ keyinarray(T, k) \in 1 .. T.asize /\ k = <<"int", keyinarray(T, k)>> /\ keyinarray(T, k) > 0
      \/ keyinarray(T, k) = 0
  BY <1>1, KeyInArrayIs
<1> QED BY <1>1, <1>2 DEF GetNorm

\* A key is assigned that the table does not have.
LEMMA NewKeyOK ==
    ASSUME NEW T, GoodTable(T), NEW key \in AllKeys, NEW v \in Values, keyinarray(T, key) = 0,
           getgeneric(T, key, FALSE) = Absent, CanInsert(T, key) \/ NewASize(T, key) <= MaxASize
    PROVE  GoodTable(luaH_newkey(T, key, v)) /\ Gives(T, luaH_newkey(T, key, v), key, v)
<1> DEFINE T2 == luaH_newkey(T, key, v)
<1>1. HashOK(T) /\ ArrayOK(T) /\ Apart(T) /\ TableOK(T) /\ v # Empty /\ T.asize <= MaxASize /\ T.hint \in 0 .. T.asize /\ T.asize \in Nat
  BY ProgramsAssumption DEF GoodTable, TableOK, ArrayOK
<1>2. \A n \in Nodes(T) : Node(T, n).key # key
  BY <1>1, LookupIs DEF Looks, equalkey
<1>3. GetNorm(T, key) = Empty
  BY <1>1, <1>2, GetNormIs, HashGetIs
<1>4. CASE CanInsert(T, key)
  <2>1. T2 = insertkey(T, key, v)
    BY <1>1, <1>4 DEF luaH_newkey
  <2>2. HashOK(T2) /\ Puts(T, T2, key, v) /\ SameArray(T, T2)
    BY <1>1, <1>2, <1>4, <2>1, InsertKeyOK
  <2> HIDE DEF T2
  <2>3. \A k : keyinarray(T2, k) = keyinarray(T, k)
    BY <2>2 DEF keyinarray, SameArray
  <2>4. Apart(T2)
    BY <1>1, <2>2, <2>3 DEF Apart, Puts, Same, IsAt
  <2>5. TableOK(T2)
    BY <1>1, <2>2, <2>4 DEF TableOK, ArrayOK, SameArray
  <2>6. Gives(T, T2, key, v)
    <3> SUFFICES ASSUME NEW k \in AllKeys PROVE GetNorm(T2, k) = IF k = key THEN v ELSE GetNorm(T, k)
      BY DEF Gives
    <3>1. HashGet(T2, k) = IF k = key THEN v ELSE HashGet(T, k)
      BY <1>1, <2>2, PutsGet
    <3> QED BY <1>1, <2>2, <2>3, <2>5, <3>1, GetNormIs DEF SameArray
  <2> QED BY <1>1, <2>2, <2>5, <2>6 DEF GoodTable, SameArray, T2
<1>5. CASE ~CanInsert(T, key)
  <2> DEFINE na == NewASize(T, key)
             nh == NewHSize(T, key)
             R == rehash(T, key)
  <2>1. na <= MaxASize /\ na \in Nat /\ nh \in Nat /\ \E P : HasRoom(T, key, na, nh, P)
    BY <1>1, <1>5, RehashCounts, NewASizeIs
  <2>2. R = luaH_resize(T, na, nh)
    BY DEF rehash
  <2>3. T2 = newcheckedkey(R, key, v)
    BY <1>1, <1>5 DEF luaH_newkey
  <2> HIDE DEF na, nh, R, T2
  <2>4. PICK P : HasRoom(T, key, na, nh, P)
    BY <2>1
  <2>5. Resized(T, R, na, P)
    BY <1>1, <2>1, <2>2, <2>4, ResizeOK DEF HasRoom
  <2>6. TableOK(R) /\ Fresh(R, P) /\ R.asize = na /\ R.hint = na \div 2 /\ GetNorm(R, key) = Empty
    BY <1>3, <2>5 DEF Resized
  <2>7. keyinarray(R, key) = 0 => key \in P
    BY <2>1, <2>4, <2>6, KeyInArrayIs DEF HasRoom
  <2>8. SetsFresh(R, T2, P, key, v)
    BY <2>3, <2>6, <2>7, SetFresh
  <2>9. Gives(T, T2, key, v)
    BY <2>5, <2>8 DEF SetsFresh, Gives, Resized
  <2>10. T2.hint \in 0 .. T2.asize
    BY <2>1, <2>6, <2>8 DEF SetsFresh
  <2> QED BY <2>1, <2>6, <2>8, <2>9, <2>10 DEF SetsFresh, GoodTable, T2
<1> QED BY <1>4, <1>5

\* The keys of some nodes die, and values change.
Changes(T, T2) ==
    /\ IsTable(T2) /\ T2.size = T.size /\ T2.dummy = T.dummy /\ T2.lastfree = T.lastfree /\ T2.asize = T.asize
    /\ T.dummy => T2.node = T.node
    /\ ~T.dummy => T2.node = [n \in Nodes(T) |-> T2.node[n]]
    /\ ~T.dummy => \A n \in Nodes(T) :
          /\ T2.node[n] \in NodeType /\ T2.node[n].next = T.node[n].next
          /\ \/ T2.node[n].key = T.node[n].key /\ (T2.node[n].val # Empty => T.node[n].key \in AllKeys)
             \/ T2.node[n].val = Empty /\ T.node[n].key \in AllKeys /\ T2.node[n].key = <<"dead", T.node[n].key>>
\* Neither keys that die nor values that change disturb the chains or a search that takes dead keys.
LEMMA ChangesOK ==
    ASSUME NEW T, HashOK(T), NEW T2, Changes(T, T2)
    PROVE  /\ HashOK(T2)
           /\ \A k \in AllKeys : getgeneric(T2, k, TRUE) = getgeneric(T, k, TRUE)
<1>1. Nodes(T2) = Nodes(T) /\ T2.size = T.size /\ IsTable(T2) /\ T2.dummy = T.dummy /\ T2.lastfree = T.lastfree
  BY DEF Changes, Nodes
<1>2. CASE T.dummy
  <2>1. T2.node = T.node
    BY <1>2 DEF Changes
  <2>2. HashOK(T2)
    BY <1>1, <1>2, <2>1 DEF HashOK
  <2>3. ASSUME NEW k \in AllKeys PROVE getgeneric(T2, k, TRUE) = Absent /\ getgeneric(T, k, TRUE) = Absent
    <3>1. \A n \in Nodes(T) : Node(T, n) = DummyNode /\ Node(T2, n) = DummyNode
      BY <1>2, <2>1, DummyIs DEF HashOK, Node
    <3>2. ~equalkey(k, DummyNode, TRUE)
      <4>1. k # <<"dead", Nil>> /\ k # Nil
        BY KeyShape, DeadShape
      <4>2. <<"dead", k>>[2] # <<"dead", Nil>>[2]
        BY <4>1
      <4> QED BY <4>1, <4>2 DEF DummyNode, NewNode, equalkey
    <3> QED BY <1>1, <2>2, <3>1, <3>2, LookupIs DEF Looks
  <2> QED BY <2>2, <2>3
<1>3. CASE ~T.dummy
  <2>1. PICK r : Chained(T, r)
    BY <1>3 DEF HashOK
  <2>2. HashType(T) /\ Linked(T) /\ Headed(T) /\ Single(T) /\ Ordered(T, r) /\ LastFree(T) /\ T.size \in Nat \ {0}
    BY <1>3, <2>1 DEF Chained, HashOK, HashType
  <2>3. \A n \in Nodes(T) :
           /\ Node(T2, n) \in NodeType /\ Node(T2, n).next = Node(T, n).next
           /\ \/ Node(T2, n).key = Node(T, n).key /\ (Node(T2, n).val # Empty => Node(T, n).key \in AllKeys)
              \/ Node(T2, n).val = Empty /\ Node(T, n).key \in AllKeys /\ Node(T2, n).key = <<"dead", Node(T, n).key>>
    BY <1>3 DEF Changes, Node
  <2>4. T2.node = [n \in Nodes(T) |-> Node(T2, n)]
    BY <1>3 DEF Changes, Node
  <2>5. HashType(T2)
    BY <1>1, <2>2, <2>3, <2>4, HashTypeIs
  <2>6. \A n \in Nodes(T) \cup {Absent} : Link(T2, n) = Link(T, n)
    BY <2>3 DEF Link
  <2>7. \A n \in Nodes(T) : Used(T2, n) <=> Used(T, n)
    <3> SUFFICES ASSUME NEW n \in Nodes(T) PROVE Used(T2, n) <=> Used(T, n)
      OBVIOUS
    <3>1. CASE Node(T2, n).key = Node(T, n).key
      BY <3>1 DEF Used
    <3>2. CASE Node(T, n).key \in AllKeys /\ Node(T2, n).key = <<"dead", Node(T, n).key>>
      <4>1. Node(T, n).key # Nil /\ <<"dead", Node(T, n).key>> # Nil
        BY <3>2, KeyShape, DeadShape
      <4> QED BY <3>2, <4>1 DEF Used
    <3> QED BY <2>3, <3>1, <3>2
  <2>8. ASSUME NEW n \in Nodes(T), Used(T, n) PROVE Bare(Node(T2, n).key) = Bare(Node(T, n).key)
    <3>1. CASE Node(T2, n).key = Node(T, n).key
      BY <3>1
    <3>2. CASE Node(T, n).key \in AllKeys /\ Node(T2, n).key = <<"dead", Node(T, n).key>>
      BY <2>2, <3>2, UsedIs, DeadShape DEF Bare
    <3> QED BY <2>3, <3>1, <3>2
  <2>9. \A n \in Nodes(T) : Used(T, n) => Home(T2, n) = Home(T, n)
    BY <1>1, <2>8, SameMain DEF Home
  <2>10. \A a, b : Reaches(T, a, b) => Reaches(T2, a, b)
    BY <1>1, <2>6 DEF Reaches, Closed
  <2>11. Linked(T2)
    <3>1. \A n \in Nodes(T) : Full(T2, n) => Node(T2, n).key \in AllKeys
      BY <2>3 DEF Full
    <3> QED BY <1>1, <2>2, <2>6, <2>7, <3>1 DEF Linked
  <2>12. Headed(T2)
    <3> SUFFICES ASSUME NEW n \in Nodes(T), Used(T, n)
                 PROVE  /\ Used(T2, Home(T2, n)) /\ Home(T2, Home(T2, n)) = Home(T2, n)
                        /\ Reaches(T2, Home(T2, n), n)
      BY <1>1, <2>7 DEF Headed
    <3>1. Home(T, n) \in Nodes(T) /\ Used(T, Home(T, n)) /\ Home(T, Home(T, n)) = Home(T, n) /\ Reaches(T, Home(T, n), n)
      BY <2>2, UsedIs DEF Headed
    <3> QED BY <2>7, <2>9, <2>10, <3>1
  <2>13. \A n \in Nodes(T) : Node(T2, n).key \in AllKeys => Node(T, n).key = Node(T2, n).key
    BY <2>3, DeadShape
  <2>14. Single(T2)
    BY <1>1, <2>2, <2>13 DEF Single
  <2>15. Ordered(T2, r)
    <3>1. ASSUME NEW n \in Nodes(T), NEW m \in Nodes(T), Node(T2, n).key \in AllKeys, Node(T2, m).key = <<"dead", Node(T2, n).key>>
          PROVE  r[n] < r[m]
      <4>1. Node(T, n).key = Node(T2, n).key /\ n # m
        BY <2>13, <3>1, DeadShape
      <4>2. CASE Node(T, m).key = <<"dead", Node(T, n).key>>
        BY <2>2, <3>1, <4>1, <4>2 DEF Ordered
      <4>3. CASE Node(T, m).key # <<"dead", Node(T, n).key>>
        <5>1. Node(T, m).key \in AllKeys /\ Node(T2, m).key = <<"dead", Node(T, m).key>>
          BY <2>3, <3>1, <4>1, <4>3
        <5>2. <<"dead", Node(T, m).key>>[2] = <<"dead", Node(T, n).key>>[2]
          BY <3>1, <4>1, <5>1
        <5>3. Node(T, m).key = Node(T, n).key
          BY <5>2
        <5> QED BY <2>2, <4>1, <5>1, <5>3 DEF Single
      <4> QED BY <4>2, <4>3
    <3> QED BY <1>1, <2>2, <2>6, <3>1 DEF Ordered
  <2>16. HashOK(T2)
    <3>1. LastFree(T2)
      BY <1>1, <2>2, <2>7 DEF LastFree, haslastfree
    <3> QED BY <1>1, <1>3, <2>5, <2>11, <2>12, <2>14, <2>15, <3>1 DEF HashOK, Chained
  <2>17. ASSUME NEW k \in AllKeys PROVE getgeneric(T2, k, TRUE) = getgeneric(T, k, TRUE)
    <3> DEFINE a == mainpositionTV(T, k)
               c == Chain(T, a)
               c2 == Chain(T2, a)
               Q == {i \in Nat : i <= T.size => c2[i] = c[i] /\ c[i] \in Nodes(T) \cup {Absent}}
    <3>1. a \in Nodes(T) /\ mainpositionTV(T2, k) = a
      BY <1>1, <2>2, HomeIn, SameMain
    <3>2. c[0] = a /\ c2[0] = a /\ \A i \in 1 .. T.size : c[i] = Link(T, c[i - 1]) /\ c2[i] = Link(T2, c2[i - 1])
      BY <1>1, <2>2, ChainIs
    <3> HIDE DEF a
    <3>3. \A i \in 0 .. T.size : c[i] \in Nodes(T) \cup {Absent}
      BY <2>2, <3>1, Positions
    <3> HIDE DEF c, c2
    <3>4. \A i \in Nat : i \in Q
      <4>1. 0 \in Q
        BY <2>2, <3>2, <3>3
      <4>2. ASSUME NEW i \in Nat, i \in Q PROVE i + 1 \in Q
        <5> SUFFICES ASSUME i + 1 <= T.size PROVE c2[i + 1] = c[i + 1] /\ c[i + 1] \in Nodes(T) \cup {Absent}
          OBVIOUS
        <5>1. c2[i] = c[i] /\ c[i] \in Nodes(T) \cup {Absent} /\ i + 1 \in 1 .. T.size /\ (i + 1) - 1 = i
          BY <2>2, <4>2
        <5>2. c[i + 1] = Link(T, c[i]) /\ c2[i + 1] = Link(T2, c2[i])
          BY <3>2, <5>1
        <5> QED BY <2>2, <2>6, <3>3, <5>1, <5>2
      <4>3. Hereditary(Q)
        BY <4>1, <4>2 DEF Hereditary
      <4> HIDE DEF Q
      <4> QED BY <4>3, StepByStep
    <3>5. \A i \in Nodes(T) : c2[i] = c[i] /\ c[i] \in Nodes(T) \cup {Absent}
      BY <2>2, <3>4 DEF Nodes
    <3>6. \A n \in Nodes(T) : equalkey(k, Node(T2, n), TRUE) <=> equalkey(k, Node(T, n), TRUE)
      <4> SUFFICES ASSUME NEW n \in Nodes(T) PROVE equalkey(k, Node(T2, n), TRUE) <=> equalkey(k, Node(T, n), TRUE)
        OBVIOUS
      <4>1. CASE Node(T2, n).key = Node(T, n).key
        BY <4>1 DEF equalkey
      <4>2. CASE Node(T, n).key \in AllKeys /\ Node(T2, n).key = <<"dead", Node(T, n).key>>
        <5>1. <<"dead", Node(T, n).key>>[2] = Node(T, n).key /\ <<"dead", k>>[2] = k
          OBVIOUS
        <5>2. k # <<"dead", Node(T, n).key>> /\ Node(T, n).key # <<"dead", k>>
          BY <4>2, DeadShape
        <5> QED BY <4>2, <5>1, <5>2 DEF equalkey
      <4> QED BY <2>3, <4>1, <4>2
    <3> DEFINE hits == {i \in Nodes(T) : c[i] # Absent /\ equalkey(k, Node(T, c[i]), TRUE)}
               hits2 == {i \in Nodes(T2) : c2[i] # Absent /\ equalkey(k, Node(T2, c2[i]), TRUE)}
    <3>7. hits2 = hits
      BY <1>1, <3>5, <3>6
    <3>8. getgeneric(T, k, TRUE) = IF hits = {} THEN Absent ELSE c[Min(hits)]
      BY DEF getgeneric, c, a
    <3>9. getgeneric(T2, k, TRUE) = IF hits2 = {} THEN Absent ELSE c2[Min(hits2)]
      BY <3>1 DEF getgeneric, c2
    <3>10. hits # {} => Min(hits) \in Nodes(T)
      <4>1. hits \subseteq Nodes(T)
        OBVIOUS
      <4>2. Nodes(T) \subseteq Nat
        BY <2>2 DEF Nodes
      <4> HIDE DEF hits
      <4> QED BY <4>1, <4>2, MinIs
    <3> HIDE DEF hits, hits2
    <3>11. CASE hits = {}
      BY <3>7, <3>8, <3>9, <3>11
    <3>12. CASE hits # {}
      <4>1. c2[Min(hits)] = c[Min(hits)]
        BY <3>5, <3>10, <3>12
      <4> QED BY <3>7, <3>8, <3>9, <3>12, <4>1
    <3> QED BY <3>11, <3>12
  <2> QED BY <2>16, <2>17
<1> QED BY <1>2, <1>3

\* No change of a node is such a change.
LEMMA SameNodes ==
    ASSUME NEW T, HashOK(T), NEW T2, IsTable(T2), T2.size = T.size, T2.dummy = T.dummy, T2.lastfree = T.lastfree,
           T2.asize = T.asize, T2.node = T.node
    PROVE  Changes(T, T2)
<1>1. CASE T.dummy
  BY <1>1 DEF Changes
<1>2. CASE ~T.dummy
  <2>1. PICK r : Chained(T, r)
    BY <1>2 DEF HashOK
  <2>2. T.node \in [Nodes(T) -> NodeType] /\ \A n \in Nodes(T) : T.node[n].val # Empty => T.node[n].key \in AllKeys
    BY <2>1 DEF Chained, HashType, Linked, Full, Node
  <2> QED BY <1>2, <2>2 DEF Changes
<1> QED BY <1>1, <1>2

SetsTo(T, T2, key, v) ==
    /\ GoodTable(T2) /\ Gives(T, T2, key, v)
    /\ GetNorm(T, key) # Empty => Changes(T, T2)
\* luaH_set gives the key its value and every other key the one it had.
LEMMA SetNormOK ==
    ASSUME NEW T, GoodTable(T), NEW key \in AllKeys, NEW v \in Values \cup {Empty},
           Grows(T, key, v) => NewASize(T, key) <= MaxASize
    PROVE  SetsTo(T, SetNorm(T, key, v), key, v)
<1> DEFINE i == keyinarray(T, key)
           g == getgeneric(T, key, FALSE)
           T2 == SetNorm(T, key, v)
<1>1. /\ TableOK(T) /\ HashOK(T) /\ ArrayOK(T) /\ Apart(T) /\ IsTable(T) /\ T.asize \in Nat /\ T.array \in [1 .. T.asize -> Values \cup {Empty}]
      /\ T.asize <= MaxASize /\ T.hint \in 0 .. T.asize
  BY DEF GoodTable, TableOK, ArrayOK, HashOK
<1>2. ~Refused(key)
  BY DEF Refused, AllKeys
<1>3. \/ i \in 1 .. T.asize /\ key = <<"int", i>> /\ i > 0
      \/ i = 0
  BY <1>1, KeyInArrayIs
<1>4. CASE i > 0
  <2>1. T2 = [T EXCEPT !.array[i] = v]
    <3>1. i # 0
      BY <1>3, <1>4
    <3> HIDE DEF i
    <3> QED BY <1>2, <1>4, <3>1 DEF SetNorm, i
  <2>2. IsTable(T2) /\ T2.size = T.size /\ T2.node = T.node /\ T2.dummy = T.dummy /\ T2.lastfree = T.lastfree
        /\ T2.asize = T.asize /\ T2.hint = T.hint /\ T2.array = [T.array EXCEPT ![i] = v]
    BY <1>1, <2>1 DEF IsTable
  <2> HIDE DEF T2
  <2>3. HashOK(T2) /\ \A k \in AllKeys : HashGet(T2, k) = HashGet(T, k)
    BY <1>1, <2>2, SameHashOK
  <2>4. ArrayOK(T2)
    BY <1>1, <1>3, <2>2 DEF ArrayOK
  <2>5. \A k : keyinarray(T2, k) = keyinarray(T, k)
    BY <2>2 DEF keyinarray
  <2>6. TableOK(T2)
    <3>1. Apart(T2)
      BY <1>1, <2>2, <2>5 DEF Apart, Nodes, Node
    <3> QED BY <2>3, <2>4, <3>1 DEF TableOK
  <2>7. Gives(T, T2, key, v)
    <3> SUFFICES ASSUME NEW k \in AllKeys PROVE GetNorm(T2, k) = IF k = key THEN v ELSE GetNorm(T, k)
      BY DEF Gives
    <3>1. CASE keyinarray(T, k) = 0
      BY <1>1, <1>4, <2>3, <2>5, <2>6, <3>1, GetNormIs
    <3>2. CASE keyinarray(T, k) # 0
      <4>1. keyinarray(T, k) \in 1 .. T.asize /\ k = <<"int", keyinarray(T, k)>> /\ GetNorm(T, k) = T.array[keyinarray(T, k)]
        BY <1>1, <3>2, GetNormIs
      <4>2. GetNorm(T2, k) = T2.array[keyinarray(T, k)]
        BY <2>5, <2>6, <3>2, GetNormIs
      <4>3. k = key <=> keyinarray(T, k) = i
        BY <1>3, <1>4, <4>1
      <4> QED BY <1>1, <2>2, <4>1, <4>2, <4>3
    <3> QED BY <3>1, <3>2
  <2>8. Changes(T, T2)
    BY <1>1, <2>2, SameNodes
  <2> QED BY <1>1, <2>2, <2>6, <2>7, <2>8 DEF SetsTo, GoodTable, T2
<1>5. CASE i = 0 /\ g # Absent
  <2>1. g \in Nodes(T) /\ Node(T, g).key = key
    BY <1>1, <1>5, LookupIs DEF Looks, equalkey
  <2>2. T2 = [T EXCEPT !.node[g].val = v]
    BY <1>2, <1>5 DEF SetNorm
  <2> HIDE DEF g
  <2>3. ~T.dummy
    BY <1>1, <2>1, DummyIs
  <2>4. PICK r : Chained(T, r)
    BY <1>1, <2>3 DEF HashOK
  <2>5. T.node \in [Nodes(T) -> NodeType] /\ \A n \in Nodes(T) : T.node[n].val # Empty => T.node[n].key \in AllKeys
    BY <2>4 DEF Chained, HashType, Linked, Full, Node
  <2>6. /\ IsTable(T2) /\ T2.size = T.size /\ T2.dummy = T.dummy /\ T2.lastfree = T.lastfree /\ T2.asize = T.asize
        /\ T2.hint = T.hint /\ T2.array = T.array /\ T2.node = [T.node EXCEPT ![g].val = v]
    BY <1>1, <2>2 DEF IsTable
  <2> HIDE DEF T2
  <2>7. T2.node[g] = [T.node[g] EXCEPT !.val = v] /\ \A n \in Nodes(T) : n # g => T2.node[n] = T.node[n]
    BY <2>1, <2>5, <2>6
  <2>8. T2.node[g].key = key /\ T2.node[g].val = v /\ T2.node[g].next = T.node[g].next /\ T2.node[g] \in NodeType
    BY <2>1, <2>5, <2>7 DEF NodeType, Node
  <2>9. Changes(T, T2)
    BY <2>1, <2>3, <2>5, <2>6, <2>7, <2>8 DEF Changes, Node
  <2>10. HashOK(T2) /\ Nodes(T2) = Nodes(T)
    BY <1>1, <2>6, <2>9, ChangesOK DEF Nodes
  <2>11. \A n \in Nodes(T) : Node(T2, n).key = Node(T, n).key /\ Node(T2, n).val = IF n = g THEN v ELSE Node(T, n).val
    BY <2>1, <2>7, <2>8 DEF Node
  <2>12. \A k : keyinarray(T2, k) = keyinarray(T, k)
    BY <2>6 DEF keyinarray
  <2>13. TableOK(T2)
    BY <1>1, <2>6, <2>10, <2>11, <2>12 DEF TableOK, ArrayOK, Apart
  <2>14. Gives(T, T2, key, v)
    <3> SUFFICES ASSUME NEW k \in AllKeys PROVE GetNorm(T2, k) = IF k = key THEN v ELSE GetNorm(T, k)
      BY DEF Gives
    <3>1. HashGet(T2, k) = IF k = key THEN v ELSE HashGet(T, k)
      <4>1. CASE k = key
        BY <2>1, <2>10, <2>11, <4>1, HashGetIs
      <4>2. CASE k # key /\ \E n \in Nodes(T) : Node(T, n).key = k
        BY <1>1, <2>1, <2>10, <2>11, <4>2, HashGetIs
      <4>3. CASE k # key /\ \A n \in Nodes(T) : Node(T, n).key # k
        BY <1>1, <2>10, <2>11, <4>3, HashGetIs
      <4> QED BY <4>1, <4>2, <4>3
    <3>2. CASE keyinarray(T, k) = 0
      BY <1>1, <2>12, <2>13, <3>1, <3>2, GetNormIs
    <3>3. CASE keyinarray(T, k) # 0
      BY <1>1, <1>5, <2>6, <2>12, <2>13, <3>3, GetNormIs
    <3> QED BY <3>2, <3>3
  <2> QED BY <1>1, <2>6, <2>9, <2>13, <2>14 DEF SetsTo, GoodTable, T2
<1>6. CASE i = 0 /\ g = Absent
  <2>1. T2 = luaH_newkey(T, key, v)
    BY <1>2, <1>6 DEF SetNorm
  <2>2. GetNorm(T, key) = Empty
    BY <1>1, <1>6, GetNormIs DEF HashGet
  <2>3. CASE v = Empty
    <3>1. T2 = T
      BY <2>1, <2>3 DEF luaH_newkey
    <3> QED BY <2>2, <2>3, <3>1 DEF SetsTo, Gives
  <2>4. CASE v # Empty
    <3>1. CanInsert(T, key) \/ NewASize(T, key) <= MaxASize
      BY <1>2, <1>6, <2>4 DEF Grows
    <3>2. GoodTable(T2) /\ Gives(T, T2, key, v)
      BY <1>6, <2>1, <2>4, <3>1, NewKeyOK
    <3> QED BY <2>2, <3>2 DEF SetsTo
  <2> QED BY <2>3, <2>4
<1> QED BY <1>3, <1>4, <1>5, <1>6

\* What does not change what a read gives.
SameReads(T, T2) == \A k \in AllKeys : GetNorm(T2, k) = GetNorm(T, k)

\* The collector kills keys.
Collected(T) == [T EXCEPT !.node = [n \in DOMAIN @ |-> clearkey(@[n])]]
\* Collect: what is read stays.
LEMMA CollectOK ==
    ASSUME NEW T, GoodTable(T)
    PROVE  GoodTable(Collected(T)) /\ SameReads(T, Collected(T)) /\ Changes(T, Collected(T))
<1> DEFINE T2 == Collected(T)
<1>1. /\ TableOK(T) /\ HashOK(T) /\ ArrayOK(T) /\ Apart(T) /\ IsTable(T)
      /\ T.asize <= MaxASize /\ T.hint \in 0 .. T.asize
  BY DEF GoodTable, TableOK, HashOK
<1>2. /\ IsTable(T2) /\ T2.size = T.size /\ T2.dummy = T.dummy /\ T2.lastfree = T.lastfree /\ T2.asize = T.asize
      /\ T2.hint = T.hint /\ T2.array = T.array /\ T2.node = [n \in DOMAIN T.node |-> clearkey(T.node[n])]
  BY <1>1 DEF IsTable, Collected
<1> HIDE DEF T2
<1>3. Changes(T, T2)
  <2>1. CASE T.dummy
    <3>1. T.node = [n \in 0 .. 0 |-> DummyNode]
      BY <1>1, <2>1 DEF HashOK
    <3>2. clearkey(DummyNode) = DummyNode
      BY DEF clearkey, DummyNode, NewNode
    <3>3. T2.node = T.node
      BY <1>2, <3>1, <3>2
    <3> QED BY <1>2, <2>1, <3>3 DEF Changes
  <2>2. CASE ~T.dummy
    <3>1. PICK r : Chained(T, r)
      BY <1>1, <2>2 DEF HashOK
    <3>2. T.node \in [Nodes(T) -> NodeType] /\ \A n \in Nodes(T) : T.node[n].val # Empty => T.node[n].key \in AllKeys
      BY <3>1 DEF Chained, HashType, Linked, Full, Node
    <3>3. T2.node = [n \in Nodes(T) |-> clearkey(T.node[n])]
      BY <1>2, <3>2
    <3>4. ASSUME NEW n \in Nodes(T)
          PROVE  /\ clearkey(T.node[n]) \in NodeType /\ clearkey(T.node[n]).next = T.node[n].next
                 /\ \/ clearkey(T.node[n]).key = T.node[n].key /\ (clearkey(T.node[n]).val # Empty => T.node[n].key \in AllKeys)
                    \/ /\ clearkey(T.node[n]).val = Empty /\ T.node[n].key \in AllKeys
                       /\ clearkey(T.node[n]).key = <<"dead", T.node[n].key>>
      <4> DEFINE x == T.node[n]
      <4>1. x \in NodeType /\ (x.val # Empty => x.key \in AllKeys)
        BY <3>2
      <4> HIDE DEF x
      <4>2. CASE x.val = Empty /\ x.key[1] \in {"str", "obj"}
        <5>1. x.key \in AllKeys
          BY <4>1, <4>2 DEF NodeType, NodeKeys, Nil
        <5>2. clearkey(x) = [x EXCEPT !.key = <<"dead", @>>]
          BY <4>2 DEF clearkey
        <5> QED BY <4>1, <4>2, <5>1, <5>2 DEF NodeType, NodeKeys, x
      <4>3. CASE ~(x.val = Empty /\ x.key[1] \in {"str", "obj"})
        <5>1. clearkey(x) = x
          BY <4>3 DEF clearkey
        <5> QED BY <4>1, <5>1 DEF x
      <4> QED BY <4>2, <4>3
    <3>5. \A n \in Nodes(T) : T2.node[n] = clearkey(T.node[n])
      BY <3>3
    <3>6. T2.node = [n \in Nodes(T) |-> T2.node[n]]
      BY <3>3
    <3> QED BY <1>2, <2>2, <3>4, <3>5, <3>6 DEF Changes
  <2> QED BY <2>1, <2>2
<1>4. HashOK(T2) /\ Nodes(T2) = Nodes(T)
  BY <1>1, <1>2, <1>3, ChangesOK DEF Nodes
<1>5. \A k : keyinarray(T2, k) = keyinarray(T, k)
  BY <1>2 DEF keyinarray
<1>6. \A n \in Nodes(T) : /\ Node(T2, n).key \in AllKeys => Node(T2, n).key = Node(T, n).key
                          /\ Node(T2, n).key = Node(T, n).key \/ (Node(T, n).val = Empty /\ Node(T2, n).val = Empty)
                          /\ Node(T2, n).val = Node(T, n).val
  <2>1. CASE T.dummy
    BY <1>3, <2>1 DEF Changes, Node
  <2>2. CASE ~T.dummy
    <3>1. ASSUME NEW n \in Nodes(T) PROVE T2.node[n].val = T.node[n].val
      <4>1. PICK r : Chained(T, r)
        BY <1>1, <2>2 DEF HashOK
      <4>2. T.node[n] \in NodeType /\ DOMAIN T.node = Nodes(T)
        BY <4>1 DEF Chained, HashType
      <4>3. T2.node[n] = clearkey(T.node[n])
        BY <1>2, <4>2
      <4> QED BY <4>2, <4>3 DEF clearkey, NodeType
    <3> QED BY <1>3, <2>2, <3>1, DeadShape DEF Changes, Node
  <2> QED BY <2>1, <2>2
<1>7. TableOK(T2)
  BY <1>1, <1>2, <1>4, <1>5, <1>6 DEF TableOK, ArrayOK, Apart
<1>8. ASSUME NEW k \in AllKeys PROVE GetNorm(T2, k) = GetNorm(T, k)
  <2>1. HashGet(T2, k) = HashGet(T, k)
    <3>1. CASE \E n \in Nodes(T) : Node(T, n).key = k
      <4>1. PICK n \in Nodes(T) : Node(T, n).key = k
        BY <3>1
      <4>2. CASE Node(T2, n).key = k
        BY <1>1, <1>4, <1>6, <4>1, <4>2, HashGetIs
      <4>3. CASE Node(T2, n).key # k
        <5>1. HashGet(T, k) = Empty
          BY <1>1, <1>6, <4>1, <4>3, HashGetIs
        <5>2. \A m \in Nodes(T2) : Node(T2, m).key = k => Node(T2, m).val = Empty
          BY <1>1, <1>4, <1>6, <5>1, HashGetIs
        <5> QED BY <1>4, <5>1, <5>2, HashGetIs
      <4> QED BY <4>2, <4>3
    <3>2. CASE \A n \in Nodes(T) : Node(T, n).key # k
      BY <1>1, <1>4, <1>6, <3>2, HashGetIs
    <3> QED BY <3>1, <3>2
  <2> QED BY <1>1, <1>2, <1>5, <1>7, <2>1, GetNormIs
<1> QED BY <1>1, <1>2, <1>3, <1>7, <1>8 DEF GoodTable, SameReads, T2

\* lua_createtable: a table of any sizes is good and empty.
LEMMA NewTableOK ==
    ASSUME NEW na \in 0 .. MaxASize, NEW nh \in Nat
    PROVE  /\ GoodTable(luaH_resize(luaH_new, na, nh))
           /\ \A k \in AllKeys : GetNorm(luaH_resize(luaH_new, na, nh), k) = Empty
<1>1. MaxASize \in Nat
  BY SizesAssumption
<1>2. IsTable(luaH_new) /\ luaH_new.asize = 0 /\ luaH_new.array = << >> /\ luaH_new.size = 1 /\ luaH_new.dummy
      /\ luaH_new.node = [n \in 0 .. 0 |-> DummyNode]
  BY DEF luaH_new, IsTable
<1>3. HashOK(luaH_new)
  BY <1>2 DEF HashOK
<1>4. ArrayOK(luaH_new)
  BY <1>2 DEF ArrayOK
<1>5. Apart(luaH_new)
  BY <1>2, <1>3, DummyIs DEF Apart
<1>6. Moves(luaH_new, na, {})
  <2>1. \A i \in na + 1 .. 0 : FALSE
    BY <1>1
  <2>2. \A n \in Nodes(luaH_new) : ~Full(luaH_new, n)
    BY <1>2, <1>3, DummyIs
  <2> QED BY <1>2, <2>1, <2>2 DEF Moves
<1>7. IsFiniteSet({}) /\ Cardinality({}) <= nh
  BY FS_EmptySet
<1>8. TableOK(luaH_new) /\ luaH_new.asize <= MaxASize
  BY <1>1, <1>2, <1>3, <1>4, <1>5 DEF TableOK
<1> DEFINE R == luaH_resize(luaH_new, na, nh)
<1>9. Resized(luaH_new, R, na, {})
  BY <1>1, <1>6, <1>7, <1>8, ResizeOK
<1>10. \A k \in AllKeys : GetNorm(luaH_new, k) = Empty
  <2>1. \A k \in AllKeys : keyinarray(luaH_new, k) = 0
    BY <1>2, KeyInArrayIs
  <2> QED BY <1>2, <1>3, <1>8, <2>1, GetNormIs, HashGetIs, DummyIs
<1> HIDE DEF R
<1>11. R.asize \in 0 .. MaxASize /\ R.hint \in 0 .. R.asize
  BY <1>1, <1>9 DEF Resized
<1> QED BY <1>1, <1>9, <1>10, <1>11 DEF Resized, GoodTable, R

\* OP_SETLIST: a larger array part, and what is read stays.
LEMMA SetListOK ==
    ASSUME NEW T, GoodTable(T), NEW n \in Nat, n > T.asize, n <= MaxASize
    PROVE  GoodTable(luaH_resizearray(T, n)) /\ SameReads(T, luaH_resizearray(T, n))
<1> DEFINE P == {Node(T, m).key : m \in InUse(T)}
           nh == IF T.dummy THEN 0 ELSE T.size
           R == luaH_resizearray(T, n)
<1>1. TableOK(T) /\ HashOK(T) /\ T.asize \in Nat /\ T.asize <= MaxASize /\ T.size \in Nat \ {0} /\ MaxASize \in Nat
  BY DummyIs, SizesAssumption DEF GoodTable, TableOK, ArrayOK, HashOK, Chained, HashType
<1>2. IsFiniteSet(InUse(T)) /\ Cardinality(InUse(T)) \in Nat /\ Cardinality(InUse(T)) <= T.size
  <2>1. IsFiniteSet(Nodes(T)) /\ Cardinality(Nodes(T)) = T.size /\ InUse(T) \in SUBSET Nodes(T)
    BY <1>1, NodesFinite DEF InUse
  <2> QED BY <2>1, FS_Subset, FS_CardinalityType
<1>3. IsFiniteSet(P) /\ Cardinality(P) <= Cardinality(InUse(T)) /\ Cardinality(P) \in Nat
  <2> DEFINE f == [m \in InUse(T) |-> Node(T, m).key]
  <2>1. P = {f[m] : m \in InUse(T)}
    OBVIOUS
  <2>2. IsFiniteSet({f[m] : m \in InUse(T)}) /\ Cardinality({f[m] : m \in InUse(T)}) <= Cardinality(InUse(T))
    <3> HIDE DEF f
    <3> QED BY <1>2, ImageFinite
  <2> QED BY <2>1, <2>2, FS_CardinalityType
<1>4. Cardinality(P) <= nh /\ nh \in Nat
  <2>1. CASE T.dummy
    <3>1. P = {}
      BY <1>1, <2>1, DummyIs DEF InUse, Full
    <3> HIDE DEF P
    <3> QED BY <2>1, <3>1, FS_EmptySet
  <2>2. CASE ~T.dummy
    <3> HIDE DEF P
    <3> QED BY <1>1, <1>2, <1>3, <2>2
  <2> QED BY <2>1, <2>2
<1>5. P \subseteq AllKeys
  BY <1>1, FullIs DEF InUse, Full
<1>6. Moves(T, n, P)
  <2>1. \A i \in n + 1 .. T.asize : FALSE
    BY <1>1
  <2>2. \A m \in Nodes(T) : Full(T, m) => Node(T, m).key \in P
    BY DEF InUse, Full
  <2> QED BY <2>1, <2>2 DEF Moves
<1> HIDE DEF P
<1>7. R = luaH_resize(T, n, nh)
  BY DEF luaH_resizearray
<1> HIDE DEF R, nh
<1>8. Resized(T, R, n, P)
  BY <1>1, <1>3, <1>4, <1>5, <1>6, <1>7, ResizeOK
<1>9. n \div 2 \in 0 .. n
  OBVIOUS
<1> QED BY <1>8, <1>9 DEF Resized, GoodTable, SameReads, R

\* Without a free node, all are used.
LEMMA NoneFree ==
    ASSUME NEW T, HashOK(T), ~T.dummy, getfreepos(T) = Absent
    PROVE  FreeNodes(T) = {} /\ \A n \in Nodes(T) : Used(T, n)
<1>1. T.size \in Nat \ {0} /\ LastFree(T) /\ Nodes(T) \subseteq Int
  BY DEF HashOK, Chained, HashType, Nodes
<1>2. FreeNodes(T) = {}
  BY <1>1, FreePosIs
<1>3. ASSUME NEW n \in Nodes(T), ~Used(T, n) PROVE FALSE
  <2>1. haslastfree(T) => n < T.lastfree
    BY <1>1, <1>3 DEF LastFree, Nodes
  <2> QED BY <1>2, <1>3, <2>1 DEF FreeNodes, Used
<1> QED BY <1>2, <1>3

\* An assignment that fails for want of memory changes no read.
LEMMA SetFailsOK ==
    ASSUME NEW T, GoodTable(T), NEW key, ~CanInsert(T, key)
    PROVE  GoodTable(MoveLastFree(T)) /\ SameReads(T, MoveLastFree(T))
<1> DEFINE R == MoveLastFree(T)
<1>1. TableOK(T) /\ HashOK(T) /\ ArrayOK(T) /\ Apart(T) /\ IsTable(T)
  BY DEF GoodTable, TableOK, HashOK
<1>2. /\ IsTable(R) /\ SameArray(T, R) /\ R.size = T.size /\ R.node = T.node
      /\ haslastfree(T) => (FreeNodes(T) = {} => R.lastfree = 0)
  BY <1>1, MoveLastFreeIs
<1>3. getfreepos(T) = Absent
  BY DEF CanInsert
<1> HIDE DEF R
<1>4. HashOK(R)
  <2>1. CASE T.dummy
    BY <1>1, <1>2, <2>1 DEF HashOK, SameArray
  <2>2. CASE ~T.dummy
    <3>1. PICK r : Chained(T, r)
      BY <1>1, <2>2 DEF HashOK
    <3>2. Chained(R, r)
      BY <1>2, <3>1, SameHash
    <3>3. FreeNodes(T) = {} /\ (\A n \in Nodes(T) : Used(T, n)) /\ T.size \in Nat
      BY <1>1, <1>3, <2>2, <3>1, NoneFree DEF Chained, HashType
    <3>4. LastFree(R)
      BY <1>2, <3>3 DEF LastFree, haslastfree, Nodes, Used, Node
    <3> QED BY <1>2, <2>2, <3>2, <3>4 DEF HashOK, SameArray
  <2> QED BY <2>1, <2>2
<1>5. Nodes(R) = Nodes(T) /\ (\A n : Node(R, n) = Node(T, n)) /\ \A k : keyinarray(R, k) = keyinarray(T, k)
  BY <1>2 DEF Nodes, Node, keyinarray, SameArray
<1>6. TableOK(R)
  BY <1>1, <1>2, <1>4, <1>5 DEF TableOK, ArrayOK, Apart, SameArray
<1>7. \A k \in AllKeys : HashGet(R, k) = HashGet(T, k)
  BY <1>1, <1>4, <1>5, HashGetIs
<1>8. SameReads(T, R)
  BY <1>1, <1>2, <1>5, <1>6, <1>7, GetNormIs DEF SameReads, SameArray
<1> QED BY <1>2, <1>6, <1>8 DEF GoodTable, SameArray, R

-------------------------------------------------------------------------------
(* The length. *)

\* The loop of the binary search, turn by turn.
LEMMA BisectIs ==
    ASSUME NEW T, NEW part, NEW lo \in Int, NEW up \in Int, lo < up
    PROVE  \E s : /\ s[0] = [i |-> lo, j |-> up] /\ Bisect(T, part, lo, up) = s[up - lo].i
                  /\ \A k \in 1 .. up - lo : s[k] = Halve(T, part, s[k - 1])
<1> DEFINE start == [i |-> lo, j |-> up]
           Is(f, m) == f = [k \in 0 .. m |-> IF k = 0 THEN [i |-> lo, j |-> up] ELSE Halve(T, part, f[k - 1])]
           Q == {m \in Nat : \E f : Is(f, m)}
<1>1. 0 \in Q
  <2>1. Is([k \in 0 .. 0 |-> start], 0)
    OBVIOUS
  <2> QED BY <2>1
<1>2. \A m \in Nat : m \in Q => m + 1 \in Q
  <2> SUFFICES ASSUME NEW m \in Nat, NEW f, Is(f, m) PROVE m + 1 \in Q
    OBVIOUS
  <2> DEFINE h == [k \in 0 .. m + 1 |-> IF k = m + 1 THEN Halve(T, part, f[m]) ELSE f[k]]
  <2>2. \A k \in 0 .. m : f[k] = IF k = 0 THEN start ELSE Halve(T, part, f[k - 1])
    BY Zenon
  <2> HIDE DEF Is, start
  <2>1. (\A k \in 0 .. m : h[k] = f[k]) /\ h[m + 1] = Halve(T, part, f[m])
    OBVIOUS
  <2>3. \A k \in 0 .. m + 1 : h[k] = IF k = 0 THEN start ELSE Halve(T, part, h[k - 1])
    BY ONLY <2>1, <2>2, m \in Nat
  <2>4. h = [k \in 0 .. m + 1 |-> IF k = 0 THEN start ELSE Halve(T, part, h[k - 1])]
    BY <2>3
  <2> HIDE DEF h
  <2> QED BY <2>4 DEF Is, start
<1>3. PICK f : Is(f, up - lo)
  <2>1. Hereditary(Q)
    BY <1>1, <1>2 DEF Hereditary
  <2>2. up - lo \in Q
    <3> HIDE DEF Q
    <3> QED BY <2>1, StepByStep
  <2> QED BY <2>2
<1> DEFINE s == CHOOSE g : Is(g, up - lo)
<1>4. Is(s, up - lo)
  BY <1>3
<1>5. Bisect(T, part, lo, up) = s[up - lo].i
  BY DEF Bisect
<1> HIDE DEF s
<1>6. s[0] = start /\ \A k \in 1 .. up - lo : s[k] = Halve(T, part, s[k - 1])
  BY <1>4
<1> QED BY <1>5, <1>6

\* b is the last present index before an absent one, between a present lo, or
\* the start of the table, and an absent up.
Between(T, part, lo, up, b) ==
    /\ b \in lo .. up - 1
    /\ b = lo \/ ~EmptyIn(T, part, b)
    /\ EmptyIn(T, part, b + 1)
\* The binary search ends at a border.
LEMMA BisectOK ==
    ASSUME NEW T, NEW part, NEW lo \in Int, NEW up \in Int, lo < up, EmptyIn(T, part, up)
    PROVE  Between(T, part, lo, up, Bisect(T, part, lo, up))
<1>1. PICK s : /\ s[0] = [i |-> lo, j |-> up] /\ Bisect(T, part, lo, up) = s[up - lo].i
               /\ \A k \in 1 .. up - lo : s[k] = Halve(T, part, s[k - 1])
  BY BisectIs
<1> DEFINE Good(x, k) == /\ x \in [i : Int, j : Int] /\ lo <= x.i /\ x.i < x.j /\ x.j <= up
                         /\ x.i = lo \/ ~EmptyIn(T, part, x.i)
                         /\ EmptyIn(T, part, x.j)
                         /\ x.j - x.i <= 1 \/ x.j - x.i <= (up - lo) - k
           Q == {k \in Nat : k <= up - lo => Good(s[k], k)}
<1>2. 0 \in Q
  BY <1>1
<1>3. ASSUME NEW k \in Nat, k \in Q PROVE k + 1 \in Q
  <2> SUFFICES ASSUME k + 1 <= up - lo PROVE Good(s[k + 1], k + 1)
    OBVIOUS
  <2> DEFINE x == s[k]
             m == (x.i + x.j) \div 2
  <2>1. Good(x, k) /\ s[k + 1] = Halve(T, part, x)
    BY <1>1, <1>3
  <2> HIDE DEF x
  <2>2. CASE x.j - x.i <= 1
    <3>1. s[k + 1] = x
      BY <2>1, <2>2 DEF Halve
    <3> QED BY <2>1, <2>2, <3>1
  <2>3. CASE ~(x.j - x.i <= 1)
    <3>1. x.i \in Int /\ x.j \in Int /\ x.i + 1 < x.j
      BY <2>1, <2>3
    <3>2. m \in Int /\ x.i < m /\ m < x.j
      BY ONLY <3>1
    <3>3. s[k + 1] = IF EmptyIn(T, part, m) THEN [x EXCEPT !.j = m] ELSE [x EXCEPT !.i = m]
      BY <2>1, <2>3 DEF Halve
    <3> HIDE DEF m
    <3>4. CASE EmptyIn(T, part, m)
      BY <2>1, <2>3, <3>1, <3>2, <3>3, <3>4
    <3>5. CASE ~EmptyIn(T, part, m)
      BY <2>1, <2>3, <3>1, <3>2, <3>3, <3>5
    <3> QED BY <3>4, <3>5
  <2> QED BY <2>2, <2>3
<1>4. up - lo \in Q
  <2>1. Hereditary(Q)
    BY <1>2, <1>3 DEF Hereditary
  <2> HIDE DEF Q
  <2> QED BY <2>1, StepByStep
<1>5. Good(s[up - lo], up - lo)
  BY <1>4
<1>6. s[up - lo].j = s[up - lo].i + 1
  BY <1>5
<1> QED BY <1>1, <1>5, <1>6 DEF Between

\* What the array part tells of the length: a border in it, or that it has none.
InArray(T, b) ==
    /\ b # Absent => /\ b \in 0 .. T.asize - 1 /\ (b = 0 \/ ~ArrayEmpty(T, b)) /\ ArrayEmpty(T, b + 1)
    /\ b = Absent => T.asize = 0 \/ ~ArrayEmpty(T, T.asize)
\* luaH_getn below an empty hint.
LEMMA BeforeHintOK ==
    ASSUME NEW T, T.asize \in Nat, NEW limit \in 1 .. T.asize, ArrayEmpty(T, limit)
    PROVE  InArray(T, BeforeHint(T, limit))
<1> DEFINE near == {i \in limit - MaxVicinity .. limit - 1 : i >= 1 /\ ~ArrayEmpty(T, i)}
           first == IF limit - MaxVicinity > 1 THEN limit - MaxVicinity ELSE 1
<1>1. MaxVicinity \in Nat
  BY SizesAssumption
<1>2. BeforeHint(T, limit) = IF near # {} THEN Max(near) ELSE binsearch(T, 0, first)
  BY DEF BeforeHint
<1>3. CASE near # {}
  <2>1. near \subseteq 0 .. limit /\ limit \in Nat
    BY <1>1
  <2> DEFINE b == Max(near)
  <2>2. b \in near /\ \A d \in near : b >= d
    <3> HIDE DEF near
    <3> QED BY <1>3, <2>1, MaxIs
  <2> HIDE DEF b
  <2>3. b \in 1 .. limit - 1 /\ b >= limit - MaxVicinity /\ ~ArrayEmpty(T, b)
    BY <1>1, <2>2
  <2>4. ArrayEmpty(T, b + 1)
    BY <1>1, <2>2, <2>3
  <2>5. BeforeHint(T, limit) = b
    BY <1>2, <1>3 DEF b
  <2> QED BY <2>3, <2>4, <2>5 DEF InArray, Absent
<1>4. CASE near = {}
  <2>1. first \in Int /\ 0 < first /\ first <= limit
    BY <1>1
  <2>2. ArrayEmpty(T, first)
    BY <1>1, <1>4
  <2> HIDE DEF first
  <2>3. Between(T, "array", 0, first, binsearch(T, 0, first))
    BY <2>1, <2>2, BisectOK DEF binsearch, EmptyIn
  <2>4. BeforeHint(T, limit) = binsearch(T, 0, first)
    BY <1>2, <1>4
  <2> QED BY <2>1, <2>3, <2>4 DEF Between, InArray, Absent, EmptyIn
<1> QED BY <1>3, <1>4

\* luaH_getn above a present hint.
LEMMA BehindHintOK ==
    ASSUME NEW T, T.asize \in Nat, NEW limit \in 1 .. T.asize, ~ArrayEmpty(T, limit)
    PROVE  InArray(T, BehindHint(T, limit))
<1> DEFINE near == {i \in limit + 1 .. limit + MaxVicinity : i <= T.asize /\ ArrayEmpty(T, i)}
           last == IF limit + MaxVicinity < T.asize THEN limit + MaxVicinity ELSE T.asize
<1>1. MaxVicinity \in Nat
  BY SizesAssumption
<1>2. BehindHint(T, limit) = IF near # {} THEN Min(near) - 1
                             ELSE IF ArrayEmpty(T, T.asize) THEN binsearch(T, last, T.asize) ELSE Absent
  BY DEF BehindHint
<1>3. CASE near # {}
  <2>1. near \subseteq Nat
    BY <1>1
  <2> DEFINE b == Min(near)
  <2>2. b \in near /\ \A d \in near : b <= d
    <3> HIDE DEF near
    <3> QED BY <1>3, <2>1, MinIs
  <2>3. BehindHint(T, limit) = b - 1
    BY <1>2, <1>3
  <2> HIDE DEF b
  <2>4. b \in limit + 1 .. limit + MaxVicinity /\ b <= T.asize /\ ArrayEmpty(T, b)
    BY <1>1, <2>2
  <2>5. ~ArrayEmpty(T, b - 1)
    BY <1>1, <2>2, <2>4
  <2>6. b - 1 \in 0 .. T.asize - 1 /\ (b - 1) + 1 = b
    BY <1>1, <2>4
  <2> QED BY <2>3, <2>4, <2>5, <2>6 DEF InArray, Absent
<1>4. CASE near = {} /\ ArrayEmpty(T, T.asize)
  <2>1. last \in Int /\ 0 < last /\ last <= T.asize
    BY <1>1
  <2>2. ~ArrayEmpty(T, last)
    BY <1>1, <1>4
  <2>3. last < T.asize
    BY <1>4, <2>1, <2>2
  <2> HIDE DEF last
  <2>4. Between(T, "array", last, T.asize, binsearch(T, last, T.asize))
    BY <1>4, <2>1, <2>3, BisectOK DEF binsearch, EmptyIn
  <2>5. BehindHint(T, limit) = binsearch(T, last, T.asize)
    BY <1>2, <1>4
  <2> QED BY <2>1, <2>2, <2>4, <2>5 DEF Between, InArray, Absent, EmptyIn
<1>5. CASE near = {} /\ ~ArrayEmpty(T, T.asize)
  BY <1>2, <1>5 DEF InArray
<1> QED BY <1>3, <1>4, <1>5

\* luaH_getn in the array part, from any hint.
LEMMA ArrayBorderOK ==
    ASSUME NEW T, T.asize \in Nat, T.hint \in 0 .. T.asize
    PROVE  InArray(T, ArrayBorder(T))
<1> DEFINE limit == IF T.hint = 0 THEN 1 ELSE T.hint
<1>1. CASE T.asize = 0
  BY <1>1 DEF ArrayBorder, InArray, Absent
<1>2. CASE T.asize # 0
  <2>1. limit \in 1 .. T.asize
    BY <1>2
  <2>2. ArrayBorder(T) = IF ArrayEmpty(T, limit) THEN BeforeHint(T, limit) ELSE BehindHint(T, limit)
    BY <1>2 DEF ArrayBorder
  <2> HIDE DEF limit
  <2> QED BY <2>1, <2>2, BeforeHintOK, BehindHintOK
<1> QED BY <1>1, <1>2

\* The hint moves, and nothing else.
LEMMA NewHintOK ==
    ASSUME NEW T, GoodTable(T)
    PROVE  GoodTable(newhint(T)) /\ SameReads(T, newhint(T)) /\ Changes(T, newhint(T))
<1> DEFINE R == newhint(T)
           new == IF T.asize = 0 THEN T.hint ELSE IF ArrayBorder(T) # Absent THEN ArrayBorder(T) ELSE T.asize
<1>1. /\ TableOK(T) /\ HashOK(T) /\ ArrayOK(T) /\ Apart(T) /\ IsTable(T) /\ T.asize \in Nat
      /\ T.asize <= MaxASize /\ T.hint \in 0 .. T.asize
  BY DEF GoodTable, TableOK, HashOK, ArrayOK
<1>2. new \in 0 .. T.asize
  <2>1. InArray(T, ArrayBorder(T))
    BY <1>1, ArrayBorderOK
  <2> QED BY <1>1, <2>1 DEF InArray
<1>3. R = [T EXCEPT !.hint = new]
  BY DEF newhint
<1> HIDE DEF R, new
<1>4. /\ IsTable(R) /\ R.size = T.size /\ R.node = T.node /\ R.dummy = T.dummy /\ R.lastfree = T.lastfree
      /\ R.asize = T.asize /\ R.array = T.array /\ R.hint = new
  BY <1>1, <1>3 DEF IsTable
<1>5. Changes(T, R)
  BY <1>1, <1>4, SameNodes
<1>6. HashOK(R) /\ \A k \in AllKeys : HashGet(R, k) = HashGet(T, k)
  BY <1>1, <1>4, SameHashOK
<1>7. Nodes(R) = Nodes(T) /\ (\A n : Node(R, n) = Node(T, n)) /\ \A k : keyinarray(R, k) = keyinarray(T, k)
  BY <1>4 DEF Nodes, Node, keyinarray
<1>8. TableOK(R)
  BY <1>1, <1>4, <1>6, <1>7 DEF TableOK, ArrayOK, Apart
<1>9. SameReads(T, R)
  BY <1>1, <1>4, <1>6, <1>7, <1>8, GetNormIs DEF SameReads
<1> QED BY <1>1, <1>2, <1>4, <1>5, <1>8, <1>9 DEF GoodTable, R

\* The loop of hash_search that doubles the index, turn by turn.
LEMMA ProbesIs ==
    ASSUME NEW start \in Int, NEW rnd
    PROVE  /\ Probes(start, rnd)[0] = start /\ DOMAIN Probes(start, rnd) = 0 .. CeilLog2(MaxInteger)
           /\ \A k \in 1 .. CeilLog2(MaxInteger) :
                 Probes(start, rnd)[k] = 2 * Probes(start, rnd)[k - 1] + ((rnd \div twoto[k - 1]) % 2)
<1> DEFINE N == CeilLog2(MaxInteger)
           Step(k, x) == 2 * x + ((rnd \div twoto[k - 1]) % 2)
           Is(f, m) == f = [k \in 0 .. m |-> IF k = 0 THEN start ELSE 2 * f[k - 1] + ((rnd \div twoto[k - 1]) % 2)]
           Q == {m \in Nat : \E f : Is(f, m)}
<1>1. 0 \in Q
  <2>1. Is([k \in 0 .. 0 |-> start], 0)
    OBVIOUS
  <2> QED BY <2>1
<1>2. \A m \in Nat : m \in Q => m + 1 \in Q
  <2> SUFFICES ASSUME NEW m \in Nat, NEW f, Is(f, m) PROVE m + 1 \in Q
    OBVIOUS
  <2> DEFINE h == [k \in 0 .. m + 1 |-> IF k = m + 1 THEN Step(m + 1, f[m]) ELSE f[k]]
  <2>2. \A k \in 0 .. m : f[k] = IF k = 0 THEN start ELSE Step(k, f[k - 1])
    BY Zenon
  <2> HIDE DEF Step, Is
  <2>1. (\A k \in 0 .. m : h[k] = f[k]) /\ h[m + 1] = Step(m + 1, f[m])
    OBVIOUS
  <2>3. \A k \in 0 .. m + 1 : h[k] = IF k = 0 THEN start ELSE Step(k, h[k - 1])
    BY ONLY <2>1, <2>2, m \in Nat
  <2>4. h = [k \in 0 .. m + 1 |-> IF k = 0 THEN start ELSE Step(k, h[k - 1])]
    BY <2>3
  <2> HIDE DEF h
  <2> QED BY <2>4 DEF Step, Is
<1>3. N \in Nat
  BY SizesAssumption, CeilLog2Is
<1>4. PICK f : Is(f, N)
  <2>1. Hereditary(Q)
    BY <1>1, <1>2 DEF Hereditary
  <2>2. N \in Q
    <3> HIDE DEF Q, N
    <3> QED BY <1>3, <2>1, StepByStep
  <2> QED BY <2>2
<1>5. Is(Probes(start, rnd), N)
  BY <1>4 DEF Probes
<1> HIDE DEF N
<1> QED BY <1>3, <1>5 DEF N

\* b is a border above the array part, in the hash part.
Above(T, b) ==
    /\ b \in T.asize + 1 .. MaxInteger /\ ~hashkeyisempty(T, b)
    /\ b = MaxInteger \/ hashkeyisempty(T, b + 1)
\* hash_search doubles within the integers, and ends at a border.
LEMMA SearchFromOK ==
    ASSUME NEW T, T.asize \in Nat, NEW start \in Int, T.asize + 1 < start, start <= MaxInteger, NEW rnd \in Nat,
           ~hashkeyisempty(T, T.asize + 1)
    PROVE  Above(T, SearchFrom(T, start, rnd))
<1> DEFINE N == CeilLog2(MaxInteger)
           p == Probes(start, rnd)
           stops == {k \in DOMAIN p : p[k] > MaxInteger \div 2 - 1 \/ hashkeyisempty(T, p[k])}
           last == Min(stops)
<1>1. MaxInteger \in Nat /\ N \in Nat /\ twoto[N] >= MaxInteger
  BY SizesAssumption, CeilLog2Is
<1>2. SearchFrom(T, start, rnd) =
        CASE hashkeyisempty(T, p[last]) -> Bisect(T, "hash", IF last = 0 THEN T.asize + 1 ELSE p[last - 1], p[last])
          [] ~hashkeyisempty(T, p[last]) /\ hashkeyisempty(T, MaxInteger) -> Bisect(T, "hash", p[last], MaxInteger)
          [] OTHER -> MaxInteger
  BY DEF SearchFrom
<1>3. p[0] = start /\ DOMAIN p = 0 .. N /\ \A k \in 1 .. N : p[k] = 2 * p[k - 1] + ((rnd \div twoto[k - 1]) % 2)
  BY ProbesIs
<1> HIDE DEF N, p
<1>4. \A k \in Nat : k <= N => p[k] \in Int /\ p[k] >= twoto[k] /\ (k # 0 => p[k] > p[k - 1] /\ p[k] <= 2 * p[k - 1] + 1)
  <2> DEFINE Q == {k \in Nat : k <= N => p[k] \in Int /\ p[k] >= twoto[k] /\ (k # 0 => p[k] > p[k - 1] /\ p[k] <= 2 * p[k - 1] + 1)}
  <2>1. 0 \in Q
    <3>1. p[0] \in Int /\ p[0] >= twoto[0]
      <4>1. start >= 1
        OBVIOUS
      <4> QED BY <1>3, <4>1, TwoToIs
    <3> QED BY <3>1
  <2>2. ASSUME NEW k \in Nat, k \in Q PROVE k + 1 \in Q
    <3> SUFFICES ASSUME k + 1 <= N
                 PROVE  /\ p[k + 1] \in Int /\ p[k + 1] >= twoto[k + 1]
                        /\ k + 1 # 0 => p[k + 1] > p[(k + 1) - 1] /\ p[k + 1] <= 2 * p[(k + 1) - 1] + 1
      OBVIOUS
    <3> DEFINE w == twoto[k]
               x == p[k]
               q == rnd \div w
    <3>1. w \in Nat \ {0} /\ twoto[k + 1] = 2 * w /\ x \in Int /\ x >= w /\ (k + 1) - 1 = k
      BY <1>1, <2>2, TwoToIs
    <3>2. p[k + 1] = 2 * x + (q % 2)
      BY <1>1, <1>3, <3>1
    <3> HIDE DEF w, x
    <3>3. q \in Int
      BY <3>1
    <3> HIDE DEF q
    <3>4. q % 2 \in 0 .. 1
      BY <3>3
    <3> QED BY <3>1, <3>2, <3>4 DEF x
  <2>3. Hereditary(Q)
    BY <2>1, <2>2 DEF Hereditary
  <2>4. \A k \in Nat : k \in Q
    <3> HIDE DEF Q
    <3> QED BY <2>3, StepByStep
  <2> QED BY <2>4
<1>5. N \in stops
  <2>1. p[N] >= MaxInteger /\ p[N] \in Int
    BY <1>1, <1>4, TwoToIs
  <2>2. p[N] > MaxInteger \div 2 - 1
    BY <1>1, <2>1
  <2> QED BY <1>1, <1>3, <2>2
<1>6. last \in stops /\ \A k \in stops : last <= k
  <2>1. stops # {} /\ stops \subseteq Nat
    <3>1. stops \subseteq DOMAIN p
      OBVIOUS
    <3> HIDE DEF stops
    <3> QED BY <1>1, <1>3, <1>5, <3>1
  <2> HIDE DEF stops
  <2> QED BY <2>1, MinIs
<1>7. last \in 0 .. N /\ last \in Nat /\ (p[last] > MaxInteger \div 2 - 1 \/ hashkeyisempty(T, p[last]))
  BY <1>3, <1>6
<1> DEFINE lo == IF last = 0 THEN T.asize + 1 ELSE p[last - 1]
<1>8. /\ lo \in Int /\ p[last] \in Int /\ T.asize + 1 <= lo /\ lo < p[last] /\ p[last] <= MaxInteger
      /\ ~hashkeyisempty(T, lo)
  <2>1. CASE last = 0
    BY <1>3, <2>1
  <2>2. CASE last # 0
    <3> HIDE DEF last
    <3>1. last - 1 \in 0 .. N /\ last - 1 \in Nat /\ ~(last <= last - 1)
      BY <1>1, <1>7, <2>2
    <3>2. last - 1 \notin stops
      BY <1>6, <3>1
    <3>3. ~(p[last - 1] > MaxInteger \div 2 - 1) /\ ~hashkeyisempty(T, p[last - 1])
      BY <1>3, <3>1, <3>2
    <3> DEFINE x == p[last - 1]
               y == p[last]
    <3>4. x \in Int /\ y \in Int /\ y > x /\ y <= 2 * x + 1
      BY <1>1, <1>4, <1>7, <2>2, <3>1
    <3>5. y <= MaxInteger
      <4> HIDE DEF x, y
      <4>1. ~(x > MaxInteger \div 2 - 1)
        BY <3>3 DEF x
      <4> QED BY ONLY <1>1, <3>4, <4>1
    <3>6. \A k \in Nat : k <= N => p[k] >= start
      <4> DEFINE Q == {k \in Nat : k <= N => p[k] >= start}
      <4>1. 0 \in Q
        BY <1>3
      <4>2. ASSUME NEW k \in Nat, k \in Q PROVE k + 1 \in Q
        <5> SUFFICES ASSUME k + 1 <= N PROVE p[k + 1] >= start
          OBVIOUS
        <5>1. k <= N /\ p[k] >= start /\ p[k] \in Int /\ (k + 1) - 1 = k /\ k + 1 # 0
          BY <1>1, <1>4, <4>2
        <5>2. p[k + 1] \in Int /\ p[k + 1] > p[k]
          BY <1>4, <5>1
        <5> QED BY <5>1, <5>2
      <4>3. Hereditary(Q)
        BY <4>1, <4>2 DEF Hereditary
      <4>4. \A k \in Nat : k \in Q
        <5> HIDE DEF Q
        <5> QED BY <4>3, StepByStep
      <4> QED BY <4>4
    <3>7. x >= start
      BY <1>1, <3>1, <3>6
    <3>8. lo = x
      BY <2>2 
    <3> HIDE DEF x, y, lo
    <3> QED BY <3>3, <3>4, <3>5, <3>7, <3>8 DEF x, y
  <2> QED BY <2>1, <2>2
<1> HIDE DEF last, lo
<1>9. CASE hashkeyisempty(T, p[last])
  <2>1. SearchFrom(T, start, rnd) = Bisect(T, "hash", lo, p[last])
    BY <1>2, <1>9 DEF lo
  <2>2. Between(T, "hash", lo, p[last], Bisect(T, "hash", lo, p[last]))
    BY <1>8, <1>9, BisectOK DEF EmptyIn
  <2> QED BY <1>1, <1>8, <2>1, <2>2 DEF Between, Above, EmptyIn
<1>10. CASE ~hashkeyisempty(T, p[last]) /\ hashkeyisempty(T, MaxInteger)
  <2>1. SearchFrom(T, start, rnd) = Bisect(T, "hash", p[last], MaxInteger)
    BY <1>2, <1>10
  <2>2. p[last] < MaxInteger
    BY <1>1, <1>8, <1>10
  <2>3. Between(T, "hash", p[last], MaxInteger, Bisect(T, "hash", p[last], MaxInteger))
    BY <1>1, <1>8, <1>10, <2>2, BisectOK DEF EmptyIn
  <2> QED BY <1>1, <1>8, <1>10, <2>1, <2>3 DEF Between, Above, EmptyIn
<1>11. CASE ~hashkeyisempty(T, p[last]) /\ ~hashkeyisempty(T, MaxInteger)
  BY <1>1, <1>2, <1>8, <1>11 DEF Above
<1> QED BY <1>9, <1>10, <1>11

\* So it does from any start that a seed gives.
LEMMA HashSearchOK ==
    ASSUME NEW T, T.asize \in Nat, T.asize <= MaxASize, NEW rnd \in Nat, ~hashkeyisempty(T, T.asize + 1)
    PROVE  Above(T, hash_search(T, rnd))
<1> DEFINE first == T.asize + 1
           width == twoto[IF T.asize > 0 THEN CeilLog2(T.asize) ELSE 0]
           incr == (rnd % width) + 1
           start == IF incr <= MaxInteger - first THEN first + incr ELSE first + 1
           rest == rnd \div width
<1>1. MaxInteger \in Nat /\ MaxASize \in Nat /\ MaxASize + 1 < MaxInteger
  BY SizesAssumption
<1>2. hash_search(T, rnd) = SearchFrom(T, start, rest)
  BY DEF hash_search
<1>3. width \in Nat \ {0}
  <2>1. CASE T.asize > 0
    BY <2>1, CeilLog2Is, TwoToIs
  <2>2. CASE ~(T.asize > 0)
    BY <2>2, TwoToIs
  <2> QED BY <2>1, <2>2
<1> HIDE DEF width
<1>4. rest \in Nat /\ rnd % width \in 0 .. width - 1
  BY <1>3
<1>5. incr \in Int /\ incr >= 1
  BY <1>3, <1>4
<1> HIDE DEF incr, rest
<1>6. start \in Int /\ T.asize + 1 < start /\ start <= MaxInteger
  BY <1>1, <1>5
<1> HIDE DEF start
<1> QED BY <1>2, <1>4, <1>6, SearchFromOK

\* b is a border of the table.
Border(T, b) ==
    /\ b \in 0 .. MaxInteger
    /\ b = 0 \/ GetNorm(T, <<"int", b>>) # Empty
    /\ b = MaxInteger \/ GetNorm(T, <<"int", b + 1>>) = Empty
\* luaH_getn gives a border of every table.
LEMMA LengthOK ==
    ASSUME NEW T, GoodTable(T), NEW rnd \in Nat
    PROVE  Border(T, luaH_getn(T, rnd))
<1> DEFINE a == ArrayBorder(T)
<1>1. /\ TableOK(T) /\ HashOK(T) /\ ArrayOK(T) /\ T.asize \in Nat /\ T.asize <= MaxASize /\ T.hint \in 0 .. T.asize
      /\ MaxASize \in Nat /\ MaxInteger \in Nat /\ MaxASize + 1 < MaxInteger
  BY SizesAssumption DEF GoodTable, TableOK, ArrayOK
<1>2. ASSUME NEW n \in 1 .. MaxInteger
      PROVE  GetNorm(T, <<"int", n>>) = Empty <=> IF n <= T.asize THEN ArrayEmpty(T, n) ELSE hashkeyisempty(T, n)
  <2> DEFINE k == <<"int", n>>
  <2>1. k # Nil /\ k[1] = "int" /\ k[2] = n
    BY DEF Nil
  <2>2. keyinarray(T, k) = IF n <= T.asize THEN n ELSE 0
    BY <1>1, <2>1 DEF keyinarray, checkrange
  <2> HIDE DEF k
  <2>3. GetNorm(T, k) = IF n <= T.asize THEN T.array[n] ELSE HashGet(T, k)
    BY <1>1, <2>1, <2>2 DEF GetNorm
  <2> QED BY <2>3 DEF k, ArrayEmpty, hashkeyisempty
<1>3. InArray(T, a)
  BY <1>1, ArrayBorderOK
<1>4. luaH_getn(T, rnd) = IF a # Absent THEN a ELSE InHash(T, rnd)
  BY DEF luaH_getn
<1> HIDE DEF a
<1>5. CASE a # Absent
  <2>1. a \in 0 .. T.asize - 1 /\ (a = 0 \/ ~ArrayEmpty(T, a)) /\ ArrayEmpty(T, a + 1)
    BY <1>3, <1>5 DEF InArray
  <2>2. a + 1 \in 1 .. MaxInteger /\ a + 1 <= T.asize /\ a \in 0 .. MaxInteger
    BY <1>1, <2>1
  <2>3. GetNorm(T, <<"int", a + 1>>) = Empty
    BY <1>2, <2>1, <2>2
  <2>4. a = 0 \/ GetNorm(T, <<"int", a>>) # Empty
    <3> SUFFICES ASSUME a # 0 PROVE GetNorm(T, <<"int", a>>) # Empty
      OBVIOUS
    <3>1. a \in 1 .. MaxInteger /\ a <= T.asize /\ ~ArrayEmpty(T, a)
      BY <1>1, <2>1
    <3> QED BY <1>2, <3>1
  <2> QED BY <1>4, <1>5, <2>2, <2>3, <2>4 DEF Border
<1>6. CASE a = Absent
  <2>1. T.asize = 0 \/ ~ArrayEmpty(T, T.asize)
    BY <1>3, <1>6 DEF InArray
  <2>2. T.asize + 1 \in 1 .. MaxInteger /\ ~(T.asize + 1 <= T.asize)
    BY <1>1
  <2>3. CASE T.dummy \/ hashkeyisempty(T, T.asize + 1)
    <3>1. hashkeyisempty(T, T.asize + 1)
      <4> SUFFICES ASSUME T.dummy PROVE HashGet(T, <<"int", T.asize + 1>>) = Empty
        BY <2>3 DEF hashkeyisempty
      <4>1. T.asize + 1 \in Integer
        BY <1>1 DEF Integer
      <4>2. <<"int", T.asize + 1>> \in AllKeys
        BY <4>1 DEF AllKeys, Nil, NaN
      <4> QED BY <1>1, <4>2, HashGetIs, DummyIs
    <3>2. luaH_getn(T, rnd) = T.asize
      BY <1>4, <1>6, <2>3 DEF InHash
    <3>3. GetNorm(T, <<"int", T.asize + 1>>) = Empty
      BY <1>2, <2>2, <3>1
    <3>4. T.asize = 0 \/ GetNorm(T, <<"int", T.asize>>) # Empty
      BY <1>1, <1>2, <2>1
    <3> QED BY <1>1, <3>2, <3>3, <3>4 DEF Border
  <2>4. CASE ~(T.dummy \/ hashkeyisempty(T, T.asize + 1))
    <3> DEFINE b == hash_search(T, rnd)
    <3>1. luaH_getn(T, rnd) = b
      BY <1>4, <1>6, <2>4 DEF InHash
    <3>2. Above(T, b)
      BY <1>1, <2>4, HashSearchOK
    <3> HIDE DEF b
    <3>3. b \in T.asize + 1 .. MaxInteger /\ ~hashkeyisempty(T, b) /\ (b = MaxInteger \/ hashkeyisempty(T, b + 1))
      BY <3>2 DEF Above
    <3>4. b \in 1 .. MaxInteger /\ ~(b <= T.asize)
      BY <1>1, <3>3
    <3>5. GetNorm(T, <<"int", b>>) # Empty
      BY <1>2, <3>3, <3>4
    <3>6. b = MaxInteger \/ GetNorm(T, <<"int", b + 1>>) = Empty
      <4> SUFFICES ASSUME b # MaxInteger PROVE GetNorm(T, <<"int", b + 1>>) = Empty
        OBVIOUS
      <4>1. b + 1 \in 1 .. MaxInteger /\ ~(b + 1 <= T.asize)
        BY <1>1, <3>3, <3>4
      <4> QED BY <1>2, <3>3, <4>1
    <3> QED BY <1>1, <3>1, <3>4, <3>5, <3>6 DEF Border
  <2> QED BY <2>3, <2>4
<1> QED BY <1>5, <1>6

-------------------------------------------------------------------------------
(* The traversal. *)

\* The keys that have a value.
Filled(T) == {k \in AllKeys : GetNorm(T, k) # Empty}

\* Where a key with a value is: in the array part or in a node.
Placed(T, k, i) ==
    \/ i \in 1 .. T.asize /\ k = <<"int", i>> /\ T.array[i] # Empty
    \/ \E n \in Nodes(T) : i = n + 1 + T.asize /\ Node(T, n).key = k /\ Node(T, n).val # Empty
\* findindex gives a key with a value the place where it is.
LEMMA FindIndexIs ==
    ASSUME NEW T, GoodTable(T), NEW k \in AllKeys \cup {Nil}
    PROVE  /\ findindex(T, k) \in Nat \cup {Absent}
           /\ k = Nil => findindex(T, k) = 0
           /\ k \in Filled(T) => Placed(T, k, findindex(T, k))
<1>1. TableOK(T) /\ HashOK(T) /\ T.asize \in Nat
  BY DEF GoodTable, TableOK, ArrayOK
<1>2. CASE k = Nil
  <2>1. Nil \notin AllKeys
    BY DEF AllKeys
  <2> QED BY <1>2, <2>1 DEF findindex, Filled
<1>3. CASE k \in AllKeys
  <2>1. k # Nil
    BY <1>3 DEF AllKeys
  <2>2. \/ keyinarray(T, k) \in 1 .. T.asize /\ k = <<"int", keyinarray(T, k)>> /\ keyinarray(T, k) > 0
        \/ keyinarray(T, k) = 0
    BY <1>1, <1>3, KeyInArrayIs
  <2>3. CASE keyinarray(T, k) > 0
    <3>1. findindex(T, k) = keyinarray(T, k)
      BY <2>1, <2>3 DEF findindex
    <3>2. GetNorm(T, k) = T.array[keyinarray(T, k)]
      BY <1>1, <1>3, <2>2, <2>3, GetNormIs
    <3> QED BY <1>1, <2>1, <2>2, <2>3, <3>1, <3>2 DEF Placed, Filled
  <2>4. CASE keyinarray(T, k) = 0
    <3> DEFINE g == getgeneric(T, k, TRUE)
    <3>1. findindex(T, k) = IF g = Absent THEN Absent ELSE g + 1 + T.asize
      BY <2>1, <2>4 DEF findindex
    <3>2. Looks(T, k, TRUE, g)
      BY <1>1, <1>3, LookupIs
    <3> HIDE DEF g
    <3>3. findindex(T, k) \in Nat \cup {Absent}
      <4>1. Nodes(T) \subseteq Nat
        BY <1>1, DummyIs DEF HashOK, Chained, HashType, Nodes
      <4>2. g \in Nodes(T) \/ g = Absent
        BY <3>2 DEF Looks
      <4>3. CASE g = Absent
        BY <3>1, <4>3
      <4>4. CASE g # Absent
        <5>1. g \in Nat
          BY <4>1, <4>2, <4>4
        <5> QED BY <1>1, <3>1, <4>4, <5>1
      <4> QED BY <4>3, <4>4
    <3>4. ASSUME k \in Filled(T) PROVE Placed(T, k, findindex(T, k))
      <4>1. HashGet(T, k) # Empty
        BY <1>1, <1>3, <2>4, <3>4, GetNormIs DEF Filled
      <4>2. PICK n \in Nodes(T) : Node(T, n).key = k
        BY <1>1, <1>3, <4>1, HashGetIs
      <4>3. HashGet(T, k) = Node(T, n).val
        BY <1>1, <1>3, <4>2, HashGetIs
      <4>4. g = n /\ n # Absent
        BY <1>3, <3>2, <4>2 DEF Looks, Nodes, Absent
      <4> QED BY <3>1, <4>1, <4>2, <4>3, <4>4 DEF Placed
    <3> QED BY <2>1, <3>3, <3>4
  <2> QED BY <2>2, <2>3, <2>4
<1> QED BY <1>2, <1>3

\* And what is there is found there.
LEMMA PlacedIs ==
    ASSUME NEW T, GoodTable(T)
    PROVE  /\ \A i \in 1 .. T.asize : T.array[i] # Empty => <<"int", i>> \in Filled(T) /\ findindex(T, <<"int", i>>) = i
           /\ \A n \in Nodes(T) : Node(T, n).val # Empty =>
                 Node(T, n).key \in Filled(T) /\ findindex(T, Node(T, n).key) = n + 1 + T.asize
<1>1. TableOK(T) /\ HashOK(T) /\ T.asize \in Nat /\ T.asize <= MaxASize /\ Apart(T)
  BY DEF GoodTable, TableOK, ArrayOK
<1>2. ASSUME NEW i \in 1 .. T.asize, T.array[i] # Empty
      PROVE  <<"int", i>> \in Filled(T) /\ findindex(T, <<"int", i>>) = i
  <2> DEFINE k == <<"int", i>>
  <2>1. i \in Integer
    BY <1>1, SizesAssumption DEF Integer
  <2>2. k \in AllKeys /\ k # Nil
    BY <2>1 DEF AllKeys, Nil, NaN
  <2>3. k[1] = "int" /\ k[2] = i
    OBVIOUS
  <2> HIDE DEF k
  <2>4. keyinarray(T, k) = i /\ i > 0 /\ i # 0
    BY <1>1, <2>3 DEF keyinarray, checkrange
  <2>5. GetNorm(T, k) = T.array[i]
    BY <1>1, <2>2, <2>4, GetNormIs
  <2>6. findindex(T, k) = i
    BY <2>2, <2>4 DEF findindex
  <2> QED BY <1>2, <2>2, <2>5, <2>6 DEF Filled, k
<1>3. ASSUME NEW n \in Nodes(T), Node(T, n).val # Empty
      PROVE  Node(T, n).key \in Filled(T) /\ findindex(T, Node(T, n).key) = n + 1 + T.asize
  <2> DEFINE k == Node(T, n).key
  <2>1. k \in AllKeys
    BY <1>1, <1>3, FullIs DEF Full
  <2>2. k # Nil
    BY <2>1 DEF AllKeys
  <2>3. keyinarray(T, k) = 0
    BY <1>1, <2>1 DEF Apart
  <2>4. Looks(T, k, TRUE, getgeneric(T, k, TRUE))
    BY <1>1, <2>1, LookupIs
  <2>5. getgeneric(T, k, TRUE) = n /\ n # Absent /\ n \in Int
    <3>1. n # Absent /\ n \in Int
      BY DEF Nodes, Absent
    <3> QED BY <2>1, <2>4, <3>1 DEF Looks
  <2>6. HashGet(T, k) = Node(T, n).val
    BY <1>1, <2>1, HashGetIs
  <2>7. GetNorm(T, k) = Node(T, n).val
    BY <1>1, <2>1, <2>3, <2>6, GetNormIs
  <2>8. findindex(T, k) = n + 1 + T.asize
    <3> HIDE DEF k
    <3>1. ~(keyinarray(T, k) > 0)
      BY <2>3
    <3> QED BY <2>2, <2>5, <3>1 DEF findindex
  <2> QED BY <1>3, <2>1, <2>7, <2>8 DEF Filled
<1> QED BY <1>2, <1>3

\* The key behind an index is the next one of those with a value.
Follows(T, i, b) ==
    /\ b = Nil => \A k \in Filled(T) : findindex(T, k) <= i
    /\ b # Nil => /\ b \in Filled(T) /\ findindex(T, b) > i
                  /\ \A k \in Filled(T) : findindex(T, k) <= i \/ k = b \/ findindex(T, k) > findindex(T, b)
\* luaH_next goes to the next place with a value, and tells when there is none.
LEMMA BehindOK ==
    ASSUME NEW T, GoodTable(T), NEW i \in Nat
    PROVE  Follows(T, i, Behind(T, i))
<1> DEFINE inarray == {j \in i + 1 .. T.asize : T.array[j] # Empty}
           inhash == {j \in (IF i > T.asize THEN i - T.asize ELSE 0) .. T.size - 1 : Node(T, j).val # Empty}
           b == Behind(T, i)
<1>1. T.asize \in Nat /\ T.size \in Nat /\ Nodes(T) = 0 .. T.size - 1
  BY DummyIs DEF GoodTable, TableOK, ArrayOK, HashOK, Chained, HashType, Nodes
<1>2. b = IF inarray # {} THEN <<"int", Min(inarray)>> ELSE IF inhash # {} THEN Node(T, Min(inhash)).key ELSE Nil
  BY DEF Behind
<1>3. \A k \in Filled(T) : Placed(T, k, findindex(T, k)) /\ k \in AllKeys /\ k # Nil
  BY FindIndexIs DEF Filled, AllKeys
<1> HIDE DEF b
<1>4. ASSUME NEW k \in Filled(T)
      PROVE  \/ findindex(T, k) \in Int /\ findindex(T, k) <= i
             \/ findindex(T, k) \in inarray /\ k = <<"int", findindex(T, k)>>
             \/ \E n \in inhash : n \in Nodes(T) /\ findindex(T, k) = n + 1 + T.asize /\ Node(T, n).key = k
  <2> DEFINE f == findindex(T, k)
  <2>1. Placed(T, k, f)
    BY <1>3
  <2> HIDE DEF f
  <2>2. CASE f \in 1 .. T.asize /\ k = <<"int", f>> /\ T.array[f] # Empty
    BY <1>1, <2>2 DEF f
  <2>3. CASE \E n \in Nodes(T) : f = n + 1 + T.asize /\ Node(T, n).key = k /\ Node(T, n).val # Empty
    <3>1. PICK n \in Nodes(T) : f = n + 1 + T.asize /\ Node(T, n).key = k /\ Node(T, n).val # Empty
      BY <2>3
    <3>2. f <= i \/ n \in inhash
      BY <1>1, <3>1
    <3>3. f \in Int
      BY <1>1, <3>1
    <3> HIDE DEF inhash
    <3> QED BY <3>1, <3>2, <3>3 DEF f
  <2> QED BY <2>1, <2>2, <2>3 DEF Placed
<1>5. CASE inarray # {}
  <2> DEFINE m == Min(inarray)
  <2>1. m \in inarray /\ \A j \in inarray : m <= j
    <3>1. inarray \subseteq Nat
      BY <1>1
    <3> HIDE DEF inarray
    <3> QED BY <1>5, <3>1, MinIs
  <2>2. b = <<"int", m>>
    BY <1>2, <1>5
  <2> HIDE DEF m
  <2>3. m \in 1 .. T.asize /\ m > i /\ T.array[m] # Empty
    BY <1>1, <2>1
  <2>4. b \in Filled(T) /\ findindex(T, b) = m
    BY <2>2, <2>3, PlacedIs
  <2>5. ASSUME NEW k \in Filled(T) PROVE findindex(T, k) <= i \/ k = b \/ findindex(T, k) > m
    <3>1. CASE findindex(T, k) \in inarray /\ k = <<"int", findindex(T, k)>>
      <4>1. findindex(T, k) \in Int /\ m <= findindex(T, k)
        BY <2>1, <3>1
      <4> QED BY <2>2, <2>3, <3>1, <4>1
    <3>2. CASE \E n \in Nodes(T) : findindex(T, k) = n + 1 + T.asize
      BY <1>1, <2>3, <3>2
    <3> HIDE DEF inarray, inhash
    <3> QED BY <1>4, <3>1, <3>2
  <2>6. b # Nil
    BY <1>3, <2>4
  <2> QED BY <2>3, <2>4, <2>5, <2>6 DEF Follows, b
<1>6. CASE inarray = {} /\ inhash # {}
  <2> DEFINE m == Min(inhash)
  <2>1. m \in inhash /\ \A j \in inhash : m <= j
    <3>1. inhash \subseteq Nat
      BY <1>1
    <3> HIDE DEF inhash
    <3> QED BY <1>6, <3>1, MinIs
  <2>2. b = Node(T, m).key
    BY <1>2, <1>6
  <2> HIDE DEF m
  <2>3. m \in Nodes(T) /\ m + 1 + T.asize > i /\ Node(T, m).val # Empty
    BY <1>1, <2>1
  <2>4. b \in Filled(T) /\ findindex(T, b) = m + 1 + T.asize
    BY <2>2, <2>3, PlacedIs
  <2>5. ASSUME NEW k \in Filled(T) PROVE findindex(T, k) <= i \/ k = b \/ findindex(T, k) > m + 1 + T.asize
    <3> SUFFICES ASSUME ~(findindex(T, k) <= i) PROVE k = b \/ findindex(T, k) > m + 1 + T.asize
      OBVIOUS
    <3>1. PICK n \in inhash : n \in Nodes(T) /\ findindex(T, k) = n + 1 + T.asize /\ Node(T, n).key = k
      <4> HIDE DEF inarray, inhash
      <4> QED BY <1>4, <1>6
    <3>2. m <= n /\ m \in Int /\ n \in Int
      BY <1>1, <2>1, <2>3, <3>1
    <3>3. n = m \/ n + 1 + T.asize > m + 1 + T.asize
      BY ONLY <1>1, <3>2
    <3> HIDE DEF inhash
    <3> QED BY <2>2, <3>1, <3>3
  <2>6. b # Nil
    BY <1>3, <2>4
  <2> QED BY <2>3, <2>4, <2>5, <2>6 DEF Follows, b
<1>7. CASE inarray = {} /\ inhash = {}
  <2>1. b = Nil
    BY <1>2, <1>7
  <2>2. \A k \in Filled(T) : findindex(T, k) <= i
    <3> HIDE DEF inarray, inhash
    <3> QED BY <1>4, <1>7
  <2> QED BY <2>1, <2>2 DEF Follows, b
<1> QED BY <1>5, <1>6, <1>7

\* A dead key keeps its place.
LEMMA FindIndexStays ==
    ASSUME NEW T, HashOK(T), NEW T2, Changes(T, T2), NEW k \in AllKeys \cup {Nil}
    PROVE  findindex(T2, k) = findindex(T, k)
<1>1. T2.asize = T.asize /\ keyinarray(T2, k) = keyinarray(T, k)
  BY DEF Changes, keyinarray
<1>2. CASE k = Nil
  BY <1>2 DEF findindex
<1>3. CASE k \in AllKeys
  <2>1. getgeneric(T2, k, TRUE) = getgeneric(T, k, TRUE)
    BY <1>3, ChangesOK
  <2> QED BY <1>1, <2>1 DEF findindex
<1> QED BY <1>2, <1>3

\* What a traversal has given are the keys with a value up to where it is.
Travels(T, t) ==
    /\ t \in [on : {"no", "yes", "end"}, key : AllKeys \cup {Nil}, seen : SUBSET AllKeys]
    /\ t.on = "yes" => /\ findindex(T, t.key) # Absent
                       /\ t.seen = {k \in Filled(T) : findindex(T, k) <= findindex(T, t.key)}
    /\ t.on = "end" => t.seen = Filled(T)
\* A traversal is not disturbed by values that change and keys that die.
LEMMA TravelsStays ==
    ASSUME NEW T, GoodTable(T), NEW T2, Changes(T, T2), NEW t, Travels(T, t),
           NEW gone \in SUBSET AllKeys, Filled(T2) = Filled(T) \ gone
    PROVE  Travels(T2, [t EXCEPT !.seen = @ \ gone])
<1> DEFINE u == [t EXCEPT !.seen = @ \ gone]
<1>1. u \in [on : {"no", "yes", "end"}, key : AllKeys \cup {Nil}, seen : SUBSET AllKeys]
      /\ u.on = t.on /\ u.key = t.key /\ u.seen = t.seen \ gone /\ t.key \in AllKeys \cup {Nil}
  BY DEF Travels
<1> HIDE DEF u
<1>2. HashOK(T) /\ Filled(T) \subseteq AllKeys
  BY DEF GoodTable, TableOK, Filled
<1>3. \A k \in AllKeys \cup {Nil} : findindex(T2, k) = findindex(T, k)
  BY <1>2, FindIndexStays
<1>4. CASE u.on = "yes"
  <2>1. t.seen = {k \in Filled(T) : findindex(T, k) <= findindex(T, t.key)} /\ findindex(T, t.key) # Absent
    BY <1>1, <1>4 DEF Travels
  <2>2. \A k \in Filled(T) : findindex(T2, k) = findindex(T, k)
    BY <1>2, <1>3
  <2>3. findindex(T2, u.key) = findindex(T, t.key)
    BY <1>1, <1>3
  <2>4. u.seen = {k \in Filled(T2) : findindex(T2, k) <= findindex(T2, u.key)}
    BY <1>1, <2>1, <2>2, <2>3
  <2> QED BY <1>1, <1>4, <2>1, <2>3, <2>4 DEF Travels, u
<1>5. CASE u.on = "end"
  BY <1>1, <1>5 DEF Travels, u
<1>6. CASE u.on = "no"
  BY <1>1, <1>6 DEF Travels, u
<1> QED BY <1>1, <1>4, <1>5, <1>6

\* A step of a traversal.
LEMMA TravelsOn ==
    ASSUME NEW T, GoodTable(T), NEW t, Travels(T, t), t.on = "yes"
    PROVE  LET i == findindex(T, t.key)
               b == Behind(T, i)
           IN /\ i # Absent
              /\ b = Nil => Travels(T, [t EXCEPT !.on = "end", !.key = Nil])
              /\ b # Nil => b \notin t.seen /\ Travels(T, [t EXCEPT !.key = b, !.seen = @ \cup {b}])
<1> DEFINE i == findindex(T, t.key)
           b == Behind(T, i)
           Type == [on : {"no", "yes", "end"}, key : AllKeys \cup {Nil}, seen : SUBSET AllKeys]
<1>1. t \in Type /\ i # Absent /\ t.seen = {k \in Filled(T) : findindex(T, k) <= i}
  BY DEF Travels
<1>2. i \in Nat
  BY <1>1, FindIndexIs
<1>3. Follows(T, i, b)
  BY <1>2, BehindOK
<1>4. \A k \in Filled(T) : findindex(T, k) \in Nat \cup {Absent} /\ k \in AllKeys
  BY FindIndexIs DEF Filled
<1> HIDE DEF i, b
<1>5. ASSUME b = Nil PROVE Travels(T, [t EXCEPT !.on = "end", !.key = Nil])
  <2>1. t.seen = Filled(T)
    BY <1>1, <1>3, <1>5 DEF Follows
  <2> DEFINE u == [t EXCEPT !.on = "end", !.key = Nil]
  <2>2. u \in Type /\ u.on = "end" /\ u.seen = t.seen
    BY <1>1
  <2> HIDE DEF u
  <2> QED BY <2>1, <2>2 DEF Travels, u
<1>6. ASSUME b # Nil PROVE b \notin t.seen /\ Travels(T, [t EXCEPT !.key = b, !.seen = @ \cup {b}])
  <2> DEFINE u == [t EXCEPT !.key = b, !.seen = @ \cup {b}]
  <2>1. /\ b \in Filled(T) /\ findindex(T, b) > i
        /\ \A k \in Filled(T) : findindex(T, k) <= i \/ k = b \/ findindex(T, k) > findindex(T, b)
    BY <1>3, <1>6 DEF Follows
  <2>2. findindex(T, b) \in Int /\ \A k \in Filled(T) : findindex(T, k) \in Int
    BY <1>4, <2>1 DEF Absent
  <2>3. b \notin t.seen
    BY <1>1, <1>2, <2>1, <2>2
  <2>4. u \in Type /\ u.on = "yes" /\ u.key = b /\ u.seen = t.seen \cup {b}
    BY <1>1, <1>4, <2>1
  <2> HIDE DEF u
  <2>5. \A k \in Filled(T) : k \in u.seen <=> findindex(T, k) <= findindex(T, b)
    <3> SUFFICES ASSUME NEW k \in Filled(T) PROVE k \in u.seen <=> findindex(T, k) <= findindex(T, b)
      OBVIOUS
    <3>1. k \in u.seen <=> findindex(T, k) <= i \/ k = b
      BY <1>1, <2>4
    <3> QED BY <1>2, <2>1, <2>2, <3>1
  <2>6. u.seen = {k \in Filled(T) : findindex(T, k) <= findindex(T, b)}
    BY <1>1, <2>1, <2>4, <2>5
  <2>7. findindex(T, b) # Absent
    BY <1>2, <2>1, <2>2 DEF Absent
  <2> QED BY <2>3, <2>4, <2>6, <2>7 DEF Travels, u
<1> QED BY <1>1, <1>5, <1>6 DEF i, b

-------------------------------------------------------------------------------
(* The table, the map it stands for and the traversal, at every step. *)

StoredKeys(ks) == {NormKey(k) : k \in ks}
Agrees(T, m, ks) ==
    /\ m \in [StoredKeys(ks) -> Values \cup {Empty}]
    /\ \A k \in DOMAIN m : Refused(k) => m[k] = Empty
    /\ \A k \in AllKeys : GetNorm(T, k) = IF k \in DOMAIN m THEN m[k] ELSE Empty

\* The keys of a program, as they are stored.
LEMMA StoredKeyIs ==
    ASSUME NEW p \in Programs, NEW k \in p.keys
    PROVE  /\ NormKey(k) \in AllKeys \/ Refused(NormKey(k))
           /\ Refused(NormKey(k)) <=> Refused(k)
           /\ Refused(k) => NormKey(k) = k
<1>1. NormKey(k) \in {NormKey(q) : q \in UNION {r.keys : r \in Programs}}
  OBVIOUS
<1>2. Refused(k) => NormKey(k) = k
  BY DEF Refused, NormKey, Nil, NaN
<1>3. ~Refused(k) => ~Refused(NormKey(k))
  BY DEF Refused, NormKey, Nil, NaN
<1> QED BY <1>1, <1>2, <1>3 DEF AllKeys, Refused

\* The fields of the map are the keys with a value.
LEMMA PresentIs ==
    ASSUME NEW T, NEW m, NEW p \in Programs, Agrees(T, m, p.keys)
    PROVE  {k \in DOMAIN m : m[k] # Empty} = Filled(T)
<1>1. \A k \in DOMAIN m : m[k] # Empty => k \in AllKeys
  BY StoredKeyIs DEF Agrees, StoredKeys
<1> QED BY <1>1 DEF Agrees, Filled

\* Where there is no traversal, the table may change at will.
LEMMA NotTravels ==
    ASSUME NEW T, NEW t, Travels(T, t), t.on = "no", NEW T2, NEW gone
    PROVE  Travels(T2, t) /\ Travels(T2, [t EXCEPT !.seen = @ \ gone])
BY DEF Travels

\* The inductive invariant: the table is sound, every read gives what the map
\* has, and a traversal has given what has a value up to the place it is at.
TableInv ==
    /\ \E p \in Programs : keys = p.keys
    /\ GoodTable(table)
    /\ Agrees(table, map, keys)
    /\ Travels(table, trav)

\* It holds of every new table.
LEMMA TableInvInit == TableInit => TableInv
<1> SUFFICES ASSUME NEW p \in Programs, keys = p.keys, map = [k \in {NormKey(key) : key \in p.keys} |-> Empty],
                    trav = NotTraversing, table = luaH_resize(luaH_new, p.na, p.nh)
             PROVE  TableInv
  BY DEF TableInit
<1>1. p.na \in 0 .. MaxASize /\ p.nh \in Nat
  BY ProgramsAssumption
<1>2. GoodTable(table) /\ \A k \in AllKeys : GetNorm(table, k) = Empty
  BY <1>1, NewTableOK
<1>3. Agrees(table, map, keys)
  BY <1>2 DEF Agrees, StoredKeys
<1>4. Travels(table, trav)
  BY DEF Travels, NotTraversing
<1> QED BY <1>2, <1>3, <1>4 DEF TableInv

\* What only moves keys and changes no read keeps the agreement.
LEMMA AgreesStays ==
    ASSUME NEW T, NEW T2, SameReads(T, T2), NEW m, NEW ks, Agrees(T, m, ks)
    PROVE  Agrees(T2, m, ks) /\ Filled(T2) = Filled(T)
BY DEF Agrees, SameReads, Filled

\* An assignment changes the map and the table alike.
LEMMA AgreesSet ==
    ASSUME NEW T, NEW T2, NEW p \in Programs, NEW m, Agrees(T, m, p.keys), NEW key \in p.keys, ~Refused(key),
           NEW v \in Values \cup {Empty}, Gives(T, T2, NormKey(key), v)
    PROVE  /\ Agrees(T2, [m EXCEPT ![NormKey(key)] = v], p.keys)
           /\ v = Empty => Filled(T2) = Filled(T) \ {NormKey(key)}
           /\ v # Empty /\ NormKey(key) \in Filled(T) => Filled(T2) = Filled(T)
<1> DEFINE q == NormKey(key)
           m2 == [m EXCEPT ![q] = v]
<1>1. q \in AllKeys /\ q \in StoredKeys(p.keys) /\ ~Refused(q)
  BY StoredKeyIs DEF StoredKeys
<1> HIDE DEF q
<1>2. /\ m2 \in [StoredKeys(p.keys) -> Values \cup {Empty}]
      /\ \A k \in StoredKeys(p.keys) : m2[k] = IF k = q THEN v ELSE m[k]
      /\ DOMAIN m2 = StoredKeys(p.keys) /\ DOMAIN m = StoredKeys(p.keys)
  BY <1>1 DEF Agrees
<1> HIDE DEF m2
<1>3. \A k \in AllKeys : GetNorm(T2, k) = IF k = q THEN v ELSE GetNorm(T, k)
  BY DEF Gives, q
<1>4. Agrees(T2, m2, p.keys)
  BY <1>1, <1>2, <1>3 DEF Agrees
<1> QED BY <1>1, <1>3, <1>4 DEF Filled, q, m2

\* An assignment keeps the invariant, in a traversal too.
LEMMA SetKeeps ==
    ASSUME TableInv, NEW key \in keys, NEW v \in Values \cup {Empty}, Set(key, v)
    PROVE  TableInv'
<1> DEFINE q == NormKey(key)
<1>1. PICK p \in Programs : keys = p.keys
  BY DEF TableInv
<1>2. GoodTable(table) /\ Agrees(table, map, p.keys) /\ Travels(table, trav) /\ keys' = keys
  BY <1>1 DEF TableInv, Set
<1>3. Present = Filled(table)
  BY <1>2, PresentIs DEF Present
<1>4. /\ trav.on # "no" => q \in Present
      /\ Grows(table, q, v) => NewASize(table, q) <= MaxASize
      /\ table' = SetNorm(table, q, v)
      /\ map' = IF Refused(key) THEN map ELSE [map EXCEPT ![q] = v]
      /\ trav' = IF v = Empty THEN [trav EXCEPT !.seen = @ \ {q}] ELSE trav
  BY DEF Set, luaH_set
<1>5. CASE Refused(key)
  <2>1. q = key /\ q \notin AllKeys /\ Refused(q)
    BY <1>1, <1>5, StoredKeyIs DEF Refused, AllKeys
  <2>2. table' = table /\ map' = map
    BY <1>4, <1>5, <2>1 DEF SetNorm
  <2>3. q \notin Filled(table)
    BY <2>1 DEF Filled
  <2>4. trav.on = "no"
    BY <1>3, <1>4, <2>3
  <2>5. Travels(table', trav')
    BY <1>2, <1>4, <2>4, NotTravels
  <2> QED BY <1>1, <1>2, <2>2, <2>5 DEF TableInv
<1>6. CASE ~Refused(key)
  <2>1. q \in AllKeys
    BY <1>1, <1>6, StoredKeyIs
  <2>2. SetsTo(table, table', q, v)
    BY <1>2, <1>4, <2>1, SetNormOK
  <2>3. GoodTable(table') /\ Gives(table, table', q, v)
    BY <2>2 DEF SetsTo
  <2>4. /\ Agrees(table', map', p.keys)
        /\ v = Empty => Filled(table') = Filled(table) \ {q}
        /\ v # Empty /\ q \in Filled(table) => Filled(table') = Filled(table)
    <3>1. map' = [map EXCEPT ![q] = v] /\ key \in p.keys
      BY <1>1, <1>4, <1>6
    <3>2. /\ Agrees(table', [map EXCEPT ![q] = v], p.keys)
          /\ v = Empty => Filled(table') = Filled(table) \ {q}
          /\ v # Empty /\ q \in Filled(table) => Filled(table') = Filled(table)
      BY ONLY <1>2, <1>6, <2>3, <3>1, p \in Programs, v \in Values \cup {Empty}, AgreesSet
    <3> QED BY <3>1, <3>2
  <2>5. CASE trav.on = "no"
    BY <1>1, <1>2, <1>4, <2>3, <2>4, <2>5, NotTravels DEF TableInv
  <2>6. CASE trav.on # "no"
    <3>1. q \in Filled(table)
      BY <1>3, <1>4, <2>6
    <3>2. Changes(table, table')
      BY <2>2, <3>1 DEF SetsTo, Filled
    <3>3. CASE v = Empty
      <4>1. Travels(table', [trav EXCEPT !.seen = @ \ {q}])
        BY <1>2, <2>1, <2>4, <3>2, <3>3, TravelsStays
      <4> QED BY <1>1, <1>2, <1>4, <2>3, <2>4, <3>3, <4>1 DEF TableInv
    <3>4. CASE v # Empty
      <4>1. Filled(table') = Filled(table) \ {}
        BY <2>4, <3>1, <3>4
      <4>2. Travels(table', [trav EXCEPT !.seen = @ \ {}])
        BY <1>2, <3>2, <4>1, TravelsStays
      <4>3. [trav EXCEPT !.seen = @ \ {}] = trav
        BY <1>2 DEF Travels
      <4> QED BY <1>1, <1>2, <1>4, <2>3, <2>4, <3>4, <4>2, <4>3 DEF TableInv
    <3> QED BY <3>3, <3>4
  <2> QED BY <2>5, <2>6
<1> QED BY <1>5, <1>6

\* A change that no read shows, in a traversal or before one.
LEMMA QuietlyKeeps ==
    ASSUME TableInv, GoodTable(table'), SameReads(table, table'), Changes(table, table') \/ trav.on = "no",
           UNCHANGED <<map, trav, keys>>
    PROVE  TableInv'
<1>1. GoodTable(table) /\ Agrees(table, map, keys) /\ Travels(table, trav)
  BY DEF TableInv
<1>2. Agrees(table', map, keys) /\ Filled(table') = Filled(table) \ {}
  BY <1>1, AgreesStays
<1>3. Travels(table', trav)
  <2>1. CASE trav.on = "no"
    BY <1>1, <2>1, NotTravels
  <2>2. CASE trav.on # "no"
    <3>1. Travels(table', [trav EXCEPT !.seen = @ \ {}])
      BY <1>1, <1>2, <2>2, TravelsStays
    <3>2. [trav EXCEPT !.seen = @ \ {}] = trav
      BY <1>1 DEF Travels
    <3> QED BY <3>1, <3>2
  <2> QED BY <2>1, <2>2
<1> QED BY <1>2, <1>3 DEF TableInv

\* Every step keeps it.
LEMMA TableInvNext == TableInv /\ [TableNext]_tvars => TableInv'
<1> SUFFICES ASSUME TableInv, [TableNext]_tvars PROVE TableInv'
  OBVIOUS
<1>1. GoodTable(table) /\ Travels(table, trav)
  BY DEF TableInv
<1>2. ASSUME NEW key \in keys, NEW v \in Values \cup {Empty}, Set(key, v) PROVE TableInv'
  BY <1>2, SetKeeps
<1>3. ASSUME NEW key \in keys, NEW v \in Values, SetFails(key, v) PROVE TableInv'
  <2>1. ~CanInsert(table, NormKey(key)) /\ table' = MoveLastFree(table) /\ trav.on = "no"
    BY <1>3 DEF SetFails, Grows
  <2>2. GoodTable(table') /\ SameReads(table, table')
    BY <1>1, <2>1, SetFailsOK
  <2> QED BY <1>3, <2>1, <2>2, QuietlyKeeps DEF SetFails
<1>4. ASSUME NEW n \in ListSizes, SetList(n) PROVE TableInv'
  <2>1. n \in Nat /\ n > table.asize /\ n <= MaxASize /\ table' = luaH_resizearray(table, n) /\ trav.on = "no"
    BY <1>4, SizesAssumption DEF SetList
  <2>2. GoodTable(table') /\ SameReads(table, table')
    BY <1>1, <2>1, SetListOK
  <2> QED BY <1>4, <2>1, <2>2, QuietlyKeeps DEF SetList
<1>5. ASSUME NEW rnd \in Seeds, Length(rnd) PROVE TableInv'
  BY <1>1, <1>5, NewHintOK, QuietlyKeeps DEF Length
<1>6. ASSUME Collect PROVE TableInv'
  <2>1. table' = Collected(table)
    BY <1>6 DEF Collect, Collected
  <2> QED BY <1>1, <1>6, <2>1, CollectOK, QuietlyKeeps DEF Collect
<1>7. ASSUME BeginTraversal PROVE TableInv'
  <2>1. trav' = [on |-> "yes", key |-> Nil, seen |-> {}] /\ UNCHANGED <<table, map, keys>>
    BY <1>7 DEF BeginTraversal
  <2>2. findindex(table, Nil) = 0
    BY DEF findindex
  <2>3. {k \in Filled(table) : findindex(table, k) <= 0} = {}
    <3> SUFFICES ASSUME NEW k \in Filled(table), findindex(table, k) <= 0 PROVE FALSE
      OBVIOUS
    <3>1. Placed(table, k, findindex(table, k))
      BY <1>1, FindIndexIs DEF Filled
    <3>2. table.asize \in Nat /\ Nodes(table) \subseteq Nat
      BY <1>1, DummyIs DEF GoodTable, TableOK, ArrayOK, HashOK, Chained, HashType, Nodes
    <3>3. findindex(table, k) \in Nat \ {0}
      BY <3>1, <3>2 DEF Placed
    <3> QED BY <3>3
  <2>4. Travels(table, trav')
    <3>1. trav' \in [on : {"no", "yes", "end"}, key : AllKeys \cup {Nil}, seen : SUBSET AllKeys]
      BY <2>1
    <3> QED BY <2>1, <2>2, <2>3, <3>1 DEF Travels, Absent
  <2> QED BY <2>1, <2>4 DEF TableInv
<1>8. ASSUME luaH_next PROVE TableInv'
  <2> DEFINE i == findindex(table, trav.key)
             b == Behind(table, i)
  <2>1. /\ trav.on = "yes" /\ UNCHANGED <<table, map, keys>>
        /\ trav' = CASE i = Absent -> [trav EXCEPT !.on = "error"]
                     [] i # Absent /\ b = Nil -> [trav EXCEPT !.on = "end", !.key = Nil]
                     [] b \in trav.seen -> [trav EXCEPT !.on = "twice"]
                     [] OTHER -> [trav EXCEPT !.key = b, !.seen = @ \cup {b}]
    BY <1>8 DEF luaH_next
  <2>2. /\ i # Absent
        /\ b = Nil => Travels(table, [trav EXCEPT !.on = "end", !.key = Nil])
        /\ b # Nil => b \notin trav.seen /\ Travels(table, [trav EXCEPT !.key = b, !.seen = @ \cup {b}])
    BY <1>1, <2>1, TravelsOn
  <2> HIDE DEF i, b
  <2>3. Travels(table, trav')
    <3>1. CASE b = Nil
      <4>1. b \notin trav.seen
        BY <1>1, <3>1 DEF Travels, AllKeys
      <4>2. trav' = [trav EXCEPT !.on = "end", !.key = Nil]
        BY <2>1, <2>2, <3>1, <4>1
      <4> QED BY <2>2, <3>1, <4>2
    <3>2. CASE b # Nil
      <4>1. trav' = [trav EXCEPT !.key = b, !.seen = @ \cup {b}]
        BY <2>1, <2>2, <3>2
      <4> QED BY <2>2, <3>2, <4>1
    <3> QED BY <3>1, <3>2
  <2> QED BY <2>1, <2>3 DEF TableInv
<1>9. ASSUME EndTraversal PROVE TableInv'
  <2>1. trav' = NotTraversing /\ UNCHANGED <<table, map, keys>>
    BY <1>9 DEF EndTraversal
  <2>2. Travels(table, trav')
    BY <2>1 DEF Travels, NotTraversing
  <2> QED BY <2>1, <2>2 DEF TableInv
<1>10. ASSUME UNCHANGED tvars PROVE TableInv'
  BY <1>10 DEF TableInv, tvars
<1> QED BY <1>2, <1>3, <1>4, <1>5, <1>6, <1>7, <1>8, <1>9, <1>10 DEF TableNext

\* Every state a program can bring a table to has its array part, its hash part
\* with its chains, the map that was assigned and its traversal in agreement.
THEOREM TableInductive == TableSpec => []TableInv
<1>1. TableInit => TableInv
  BY TableInvInit
<1>2. TableInv /\ [TableNext]_tvars => TableInv'
  BY TableInvNext
<1> QED BY <1>1, <1>2, PTL DEF TableSpec

\* A read of a table (luaH_get) gives what was assigned last to its key, for
\* every size of the parts, every hash function and every history of inserts
\* that move nodes, of rehashes, collections and failed allocations.
THEOREM TableHoldsMap == TableSpec => []TableIsMap
<1>1. TableInv => TableIsMap
  <2> SUFFICES ASSUME TableInv, NEW key \in keys
               PROVE  luaH_get(table, key) = IF Refused(key) THEN Empty ELSE map[NormKey(key)]
    BY DEF TableIsMap
  <2>1. PICK p \in Programs : keys = p.keys
    BY DEF TableInv
  <2>2. GoodTable(table) /\ Agrees(table, map, p.keys) /\ HashOK(table)
    BY <2>1 DEF TableInv, GoodTable, TableOK
  <2>3. CASE ~Refused(key)
    <3>1. NormKey(key) \in AllKeys /\ NormKey(key) \in StoredKeys(p.keys)
      BY <2>1, <2>3, StoredKeyIs DEF StoredKeys
    <3> QED BY <2>2, <2>3, <3>1 DEF Agrees, luaH_get
  <2>4. CASE key = Nil
    <3>1. NormKey(key) = Nil /\ Refused(key)
      BY <2>4 DEF NormKey, Nil, Refused
    <3> QED BY <3>1 DEF luaH_get, GetNorm
  <2>5. CASE key = NaN
    <3>1. NormKey(key) = NaN /\ Refused(key) /\ NaN # Nil /\ NaN[1] = "nan"
      BY <2>5 DEF NormKey, Nil, NaN, Refused
    <3>2. HashOf(NaN) \in Nat
      BY <2>1, <2>5, <3>1, ProgramsAssumption
    <3>3. keyinarray(table, NaN) = 0
      BY <3>1 DEF keyinarray
    <3>4. Looks(table, NaN, FALSE, getgeneric(table, NaN, FALSE))
      BY <2>2, <3>2, LookupIs
    <3>5. \A n \in Nodes(table) : Node(table, n).key # NaN
      <4>1. CASE table.dummy
        BY <2>2, <4>1 DEF HashOK, Nodes, Node, DummyNode, NewNode, NaN
      <4>2. CASE ~table.dummy
        <5>1. PICK r : Chained(table, r)
          BY <2>2, <4>2 DEF HashOK
        <5>2. \A n \in Nodes(table) : Node(table, n).key \in NodeKeys
          BY <5>1 DEF Chained, HashType, NodeType, Node
        <5>3. NaN \notin NodeKeys
          BY DEF NodeKeys, AllKeys, Nil, NaN
        <5> QED BY <5>2, <5>3
      <4> QED BY <4>1, <4>2
    <3>6. HashGet(table, NaN) = Empty
      BY <3>4, <3>5 DEF Looks, equalkey, HashGet
    <3> QED BY <3>1, <3>3, <3>6 DEF luaH_get, GetNorm
  <2> QED BY <2>3, <2>4, <2>5 DEF Refused
<1> QED BY <1>1, TableInductive, PTL

\* A traversal (luaH_next) with assignments to the fields it meets and with
\* collections between its steps gives every field that stays, none twice, and
\* always finds the key it stands at, a dead one too.
THEOREM TraversalGivesAll == TableSpec => []TraversalComplete
<1>1. TableInv => TraversalComplete
  <2> SUFFICES ASSUME TableInv PROVE TraversalComplete
    OBVIOUS
  <2>1. PICK p \in Programs : keys = p.keys
    BY DEF TableInv
  <2>2. Present = Filled(table)
    BY <2>1, PresentIs DEF TableInv, Present
  <2> QED BY <2>2 DEF TableInv, Travels, TraversalComplete
<1> QED BY <1>1, TableInductive, PTL

\* Whatever the hint and the seed, the length (luaH_getn) is 0 or a present
\* index, and the index behind it is absent or beyond the integers.
THEOREM LengthAlwaysBorder == TableSpec => []LengthIsBorder
<1>1. TableInv => LengthIsBorder
  <2> SUFFICES ASSUME TableInv, NEW rnd \in Seeds
               PROVE  LET b == luaH_getn(table, rnd)
                      IN /\ b = 0 \/ <<"int", b>> \in Present
                         /\ b = MaxInteger \/ ~(<<"int", b + 1>> \in Present)
    BY DEF LengthIsBorder
  <2> DEFINE b == luaH_getn(table, rnd)
  <2>1. PICK p \in Programs : keys = p.keys
    BY DEF TableInv
  <2>2. Present = Filled(table)
    BY <2>1, PresentIs DEF TableInv, Present
  <2>3. Border(table, b) /\ MaxInteger \in Nat
    BY LengthOK, SizesAssumption DEF TableInv
  <2> HIDE DEF b
  <2>4. b \in Integer
    BY <2>3 DEF Border, Integer
  <2>5. <<"int", b>> \in AllKeys
    BY <2>4 DEF AllKeys, Nil, NaN
  <2> QED BY <2>2, <2>3, <2>5 DEF Border, Filled, b
<1> QED BY <1>1, TableInductive, PTL

-------------------------------------------------------------------------------
(* The manager. *)

USE KindAssumption, MaxGenAssumption, ReaderAssumption

\* No step breaks a type.
LEMMA TypeStep == ASSUME TypeOK, [Next]_vars PROVE TypeOK'
<1>1. ASSUME NEW o \in {"eval", "reset"}, Call(o) PROVE TypeOK'
  BY <1>1 DEF Call, At, vm_state, Touching, Closing, TypeOK, NoVM, Executor, Free
<1>2. CASE Lock
  BY <1>2 DEF Lock, At, vm_state, Touching, Closing, TypeOK, NoVM, Executor, Free
<1>3. CASE Look
  BY <1>3 DEF Look, At, vm_state, Touching, Closing, TypeOK, NoVM, Executor, Free
<1>4. CASE ClearFlag
  BY <1>4 DEF ClearFlag, At, vm_state, Touching, Closing, TypeOK, NoVM, Executor, Free
<1>5. CASE ClearHook
  BY <1>5 DEF ClearHook, At, vm_state, Touching, Closing, TypeOK, NoVM, Executor, Free
<1>6. CASE StopHook
  BY <1>6 DEF StopHook, At, vm_state, Raise, Finish, HookFires, Touching, Closing, TypeOK, NoVM, Executor, Free
<1>7. CASE Chunk
  BY <1>7, ZenonT(60) DEF Chunk, At, vm_state, Raise, Finish, Touching, Closing, TypeOK, NoVM, Executor, Free
<1>8. CASE ChunkEnds
  BY <1>8, ZenonT(60) DEF ChunkEnds, At, vm_state, Raise, Finish, Touching, Closing, TypeOK, NoVM, Executor, Free
<1>9. CASE SleepCut
  BY <1>9, ZenonT(60) DEF SleepCut, At, vm_state, Raise, Finish, Touching, Closing, TypeOK, NoVM, Executor, Free
<1>10. CASE SleepEnds
  BY <1>10 DEF SleepEnds, At, vm_state, Touching, Closing, TypeOK, NoVM, Executor, Free
<1>11. CASE Unhook
  BY <1>11 DEF Unhook, At, vm_state, Touching, Closing, TypeOK, NoVM, Executor, Free
<1>12. CASE Report
  BY <1>12 DEF Report, At, vm_state, Touching, Closing, TypeOK, NoVM, Executor, Free
<1>13. CASE CloseBegins
  BY <1>13 DEF CloseBegins, At, vm_state, Touching, Closing, TypeOK, NoVM, Executor, Free
<1>14. CASE CloseEnds
  BY <1>14 DEF CloseEnds, At, vm_state, Touching, Closing, TypeOK, NoVM, Executor, Free
<1>15. CASE NewVM
  <2>1. vm' \in 0 .. MaxGen /\ gen' \in 0 .. MaxGen /\ live' \subseteq 1 .. MaxGen
    <3>1. CASE gen < MaxGen /\ gen' = gen + 1 /\ vm' = gen + 1 /\ live' = live \cup {gen + 1}
      <4>1. gen + 1 \in 1 .. MaxGen
        BY <3>1 DEF TypeOK
      <4> QED BY <3>1, <4>1 DEF TypeOK
    <3>2. CASE UNCHANGED vm_state
      BY <3>2 DEF vm_state, TypeOK
    <3> QED BY <1>15, <3>1, <3>2 DEF NewVM
  <2>2. hook' \in BOOLEAN /\ ret' \in {"0", "-ENOMEM", "-EFAULT", "-EINTR", "-ENODEV"}
    BY <1>15 DEF NewVM, TypeOK
  <2>3. mpc' = "leave" /\ UNCHANGED <<flag, owner, op, kind, status, spc, ptr, reached, cut>>
    BY <1>15 DEF NewVM, At
  <2> QED BY <2>1, <2>2, <2>3 DEF TypeOK
<1>16. CASE Leave
  BY <1>16 DEF Leave, At, vm_state, Touching, Closing, TypeOK, NoVM, Executor, Free
<1>17. CASE ScriptEnds
  BY <1>17 DEF ScriptEnds, At, vm_state, Finish, Touching, Closing, TypeOK, NoVM, Executor, Free
<1>18. CASE Sleep
  BY <1>18 DEF Sleep, At, vm_state, Touching, Closing, TypeOK, NoVM, Executor, Free
<1>19. CASE Return
  BY <1>19 DEF Return, At, vm_state, Touching, Closing, TypeOK, NoVM, Executor, Free
<1>20. ASSUME NEW s \in Stoppers, StopFlag(s) PROVE TypeOK'
  BY <1>20 DEF StopFlag, ReachesNow, executor_state, vm_state, Touching, Closing, TypeOK, NoVM, Executor, Free
<1>21. ASSUME NEW s \in Stoppers, StopRead(s) PROVE TypeOK'
  BY <1>21 DEF StopRead, ReachesNow, executor_state, vm_state, Touching, Closing, TypeOK, NoVM, Executor, Free
<1>22. ASSUME NEW s \in Stoppers, StopArm(s) PROVE TypeOK'
  BY <1>22 DEF StopArm, ReachesNow, executor_state, vm_state, Touching, Closing, TypeOK, NoVM, Executor, Free
<1>23. ASSUME NEW s \in Stoppers, StopWake(s) PROVE TypeOK'
  BY <1>23 DEF StopWake, ReachesNow, executor_state, vm_state, Touching, Closing, TypeOK, NoVM, Executor, Free
<1>24. ASSUME NEW r \in Readers, ReadLock(r) PROVE TypeOK'
  BY <1>24 DEF ReadLock, reader_unchanged, vm_state, Touching, Closing, TypeOK, NoVM, Executor, Free
<1>25. ASSUME NEW r \in Readers, ReadDone(r) PROVE TypeOK'
  BY <1>25 DEF ReadDone, reader_unchanged, vm_state, Touching, Closing, TypeOK, NoVM, Executor, Free
<1>26. CASE UNCHANGED vars
  BY <1>26 DEF vars, vm_state, Touching, Closing, TypeOK, NoVM, Executor, Free
<1> QED
  BY <1>1, <1>2, <1>3, <1>4, <1>5, <1>6, <1>7, <1>8, <1>9, <1>10, <1>11, <1>12, <1>13, <1>14, <1>15, <1>16, <1>17, <1>18, <1>19, <1>20, <1>21, <1>22, <1>23, <1>24, <1>25, <1>26
     DEF Next, Exec, Forced, Stop

\* The executor's steps under the lock go together with holding it.
LEMMA LockStep == ASSUME TypeOK, LockHeld, [Next]_vars PROVE LockHeld'
<1>1. ASSUME NEW o \in {"eval", "reset"}, Call(o) PROVE LockHeld'
  BY <1>1 DEF Call, At, vm_state, Touching, Closing, TypeOK, LockHeld, Locked, Executor, Free
<1>2. CASE Lock
  BY <1>2 DEF Lock, At, vm_state, Touching, Closing, TypeOK, LockHeld, Locked, Executor, Free
<1>3. CASE Look
  BY <1>3 DEF Look, At, vm_state, Touching, Closing, TypeOK, LockHeld, Locked, Executor, Free
<1>4. CASE ClearFlag
  BY <1>4 DEF ClearFlag, At, vm_state, Touching, Closing, TypeOK, LockHeld, Locked, Executor, Free
<1>5. CASE ClearHook
  BY <1>5 DEF ClearHook, At, vm_state, Touching, Closing, TypeOK, LockHeld, Locked, Executor, Free
<1>6. CASE StopHook
  BY <1>6 DEF StopHook, At, vm_state, Raise, Finish, HookFires, Touching, Closing, TypeOK, LockHeld, Locked, Executor, Free
<1>7. CASE Chunk
  BY <1>7 DEF Chunk, At, vm_state, Raise, Finish, Touching, Closing, TypeOK, LockHeld, Locked, Executor, Free
<1>8. CASE ChunkEnds
  BY <1>8 DEF ChunkEnds, At, vm_state, Raise, Finish, Touching, Closing, TypeOK, LockHeld, Locked, Executor, Free
<1>9. CASE SleepCut
  BY <1>9 DEF SleepCut, At, vm_state, Raise, Finish, Touching, Closing, TypeOK, LockHeld, Locked, Executor, Free
<1>10. CASE SleepEnds
  BY <1>10 DEF SleepEnds, At, vm_state, Touching, Closing, TypeOK, LockHeld, Locked, Executor, Free
<1>11. CASE Unhook
  BY <1>11 DEF Unhook, At, vm_state, Touching, Closing, TypeOK, LockHeld, Locked, Executor, Free
<1>12. CASE Report
  BY <1>12 DEF Report, At, vm_state, Touching, Closing, TypeOK, LockHeld, Locked, Executor, Free
<1>13. CASE CloseBegins
  BY <1>13 DEF CloseBegins, At, vm_state, Touching, Closing, TypeOK, LockHeld, Locked, Executor, Free
<1>14. CASE CloseEnds
  BY <1>14 DEF CloseEnds, At, vm_state, Touching, Closing, TypeOK, LockHeld, Locked, Executor, Free
<1>15. CASE NewVM
  BY <1>15 DEF NewVM, At, vm_state, Touching, Closing, TypeOK, LockHeld, Locked, Executor, Free
<1>16. CASE Leave
  BY <1>16 DEF Leave, At, vm_state, Touching, Closing, TypeOK, LockHeld, Locked, Executor, Free
<1>17. CASE ScriptEnds
  BY <1>17 DEF ScriptEnds, At, vm_state, Finish, Touching, Closing, TypeOK, LockHeld, Locked, Executor, Free
<1>18. CASE Sleep
  BY <1>18 DEF Sleep, At, vm_state, Touching, Closing, TypeOK, LockHeld, Locked, Executor, Free
<1>19. CASE Return
  BY <1>19 DEF Return, At, vm_state, Touching, Closing, TypeOK, LockHeld, Locked, Executor, Free
<1>20. ASSUME NEW s \in Stoppers, StopFlag(s) PROVE LockHeld'
  BY <1>20 DEF StopFlag, ReachesNow, executor_state, vm_state, Touching, Closing, TypeOK, LockHeld, Locked, Executor, Free
<1>21. ASSUME NEW s \in Stoppers, StopRead(s) PROVE LockHeld'
  BY <1>21 DEF StopRead, ReachesNow, executor_state, vm_state, Touching, Closing, TypeOK, LockHeld, Locked, Executor, Free
<1>22. ASSUME NEW s \in Stoppers, StopArm(s) PROVE LockHeld'
  BY <1>22 DEF StopArm, ReachesNow, executor_state, vm_state, Touching, Closing, TypeOK, LockHeld, Locked, Executor, Free
<1>23. ASSUME NEW s \in Stoppers, StopWake(s) PROVE LockHeld'
  BY <1>23 DEF StopWake, ReachesNow, executor_state, vm_state, Touching, Closing, TypeOK, LockHeld, Locked, Executor, Free
<1>24. ASSUME NEW r \in Readers, ReadLock(r) PROVE LockHeld'
  BY <1>24 DEF ReadLock, reader_unchanged, vm_state, Touching, Closing, TypeOK, LockHeld, Locked, Executor, Free
<1>25. ASSUME NEW r \in Readers, ReadDone(r) PROVE LockHeld'
  BY <1>25 DEF ReadDone, reader_unchanged, vm_state, Touching, Closing, TypeOK, LockHeld, Locked, Executor, Free
<1>26. CASE UNCHANGED vars
  BY <1>26 DEF vars, vm_state, Touching, Closing, TypeOK, LockHeld, Locked, Executor, Free
<1> QED
  BY <1>1, <1>2, <1>3, <1>4, <1>5, <1>6, <1>7, <1>8, <1>9, <1>10, <1>11, <1>12, <1>13, <1>14, <1>15, <1>16, <1>17, <1>18, <1>19, <1>20, <1>21, <1>22, <1>23, <1>24, <1>25, <1>26
     DEF Next, Exec, Forced, Stop

\* L is looked at and changed under the lock only, so it stays known.
LEMMA VMStep == ASSUME TypeOK, VMKnown, [Next]_vars PROVE VMKnown'
<1>1. ASSUME NEW o \in {"eval", "reset"}, Call(o) PROVE VMKnown'
  BY <1>1 DEF Call, At, vm_state, Touching, Closing, TypeOK, VMKnown, NoVM
<1>2. CASE Lock
  BY <1>2 DEF Lock, At, vm_state, Touching, Closing, TypeOK, VMKnown, NoVM
<1>3. CASE Look
  BY <1>3 DEF Look, At, vm_state, Touching, Closing, TypeOK, VMKnown, NoVM
<1>4. CASE ClearFlag
  BY <1>4 DEF ClearFlag, At, vm_state, Touching, Closing, TypeOK, VMKnown, NoVM
<1>5. CASE ClearHook
  BY <1>5 DEF ClearHook, At, vm_state, Touching, Closing, TypeOK, VMKnown, NoVM
<1>6. CASE StopHook
  BY <1>6 DEF StopHook, At, vm_state, Raise, Finish, HookFires, Touching, Closing, TypeOK, VMKnown, NoVM
<1>7. CASE Chunk
  BY <1>7 DEF Chunk, At, vm_state, Raise, Finish, Touching, Closing, TypeOK, VMKnown, NoVM
<1>8. CASE ChunkEnds
  BY <1>8 DEF ChunkEnds, At, vm_state, Raise, Finish, Touching, Closing, TypeOK, VMKnown, NoVM
<1>9. CASE SleepCut
  BY <1>9 DEF SleepCut, At, vm_state, Raise, Finish, Touching, Closing, TypeOK, VMKnown, NoVM
<1>10. CASE SleepEnds
  BY <1>10 DEF SleepEnds, At, vm_state, Touching, Closing, TypeOK, VMKnown, NoVM
<1>11. CASE Unhook
  BY <1>11 DEF Unhook, At, vm_state, Touching, Closing, TypeOK, VMKnown, NoVM
<1>12. CASE Report
  BY <1>12 DEF Report, At, vm_state, Touching, Closing, TypeOK, VMKnown, NoVM
<1>13. CASE CloseBegins
  BY <1>13 DEF CloseBegins, At, vm_state, Touching, Closing, TypeOK, VMKnown, NoVM
<1>14. CASE CloseEnds
  BY <1>14 DEF CloseEnds, At, vm_state, Touching, Closing, TypeOK, VMKnown, NoVM
<1>15. CASE NewVM
  BY <1>15 DEF NewVM, At, vm_state, Touching, Closing, TypeOK, VMKnown, NoVM
<1>16. CASE Leave
  BY <1>16 DEF Leave, At, vm_state, Touching, Closing, TypeOK, VMKnown, NoVM
<1>17. CASE ScriptEnds
  BY <1>17 DEF ScriptEnds, At, vm_state, Finish, Touching, Closing, TypeOK, VMKnown, NoVM
<1>18. CASE Sleep
  BY <1>18 DEF Sleep, At, vm_state, Touching, Closing, TypeOK, VMKnown, NoVM
<1>19. CASE Return
  BY <1>19 DEF Return, At, vm_state, Touching, Closing, TypeOK, VMKnown, NoVM
<1>20. ASSUME NEW s \in Stoppers, StopFlag(s) PROVE VMKnown'
  BY <1>20 DEF StopFlag, ReachesNow, executor_state, vm_state, Touching, Closing, TypeOK, VMKnown, NoVM
<1>21. ASSUME NEW s \in Stoppers, StopRead(s) PROVE VMKnown'
  BY <1>21 DEF StopRead, ReachesNow, executor_state, vm_state, Touching, Closing, TypeOK, VMKnown, NoVM
<1>22. ASSUME NEW s \in Stoppers, StopArm(s) PROVE VMKnown'
  BY <1>22 DEF StopArm, ReachesNow, executor_state, vm_state, Touching, Closing, TypeOK, VMKnown, NoVM
<1>23. ASSUME NEW s \in Stoppers, StopWake(s) PROVE VMKnown'
  BY <1>23 DEF StopWake, ReachesNow, executor_state, vm_state, Touching, Closing, TypeOK, VMKnown, NoVM
<1>24. ASSUME NEW r \in Readers, ReadLock(r) PROVE VMKnown'
  BY <1>24 DEF ReadLock, reader_unchanged, vm_state, Touching, Closing, TypeOK, VMKnown, NoVM
<1>25. ASSUME NEW r \in Readers, ReadDone(r) PROVE VMKnown'
  BY <1>25 DEF ReadDone, reader_unchanged, vm_state, Touching, Closing, TypeOK, VMKnown, NoVM
<1>26. CASE UNCHANGED vars
  BY <1>26 DEF vars, vm_state, Touching, Closing, TypeOK, VMKnown, NoVM
<1> QED
  BY <1>1, <1>2, <1>3, <1>4, <1>5, <1>6, <1>7, <1>8, <1>9, <1>10, <1>11, <1>12, <1>13, <1>14, <1>15, <1>16, <1>17, <1>18, <1>19, <1>20, <1>21, <1>22, <1>23, <1>24, <1>25, <1>26
     DEF Next, Exec, Forced, Stop

\* A stop leaves nothing behind that a later job would not have cleared.
LEMMA StopsStep == ASSUME TypeOK, StopsCount, [Next]_vars PROVE StopsCount'
<1>1. ASSUME NEW o \in {"eval", "reset"}, Call(o) PROVE StopsCount'
  BY <1>1 DEF Call, At, vm_state, Touching, Closing, TypeOK, StopsCount, NoStaleStop
<1>2. CASE Lock
  BY <1>2 DEF Lock, At, vm_state, Touching, Closing, TypeOK, StopsCount, NoStaleStop
<1>3. CASE Look
  BY <1>3 DEF Look, At, vm_state, Touching, Closing, TypeOK, StopsCount, NoStaleStop
<1>4. CASE ClearFlag
  BY <1>4 DEF ClearFlag, At, vm_state, Touching, Closing, TypeOK, StopsCount, NoStaleStop
<1>5. CASE ClearHook
  BY <1>5 DEF ClearHook, At, vm_state, Touching, Closing, TypeOK, StopsCount, NoStaleStop
<1>6. CASE StopHook
  BY <1>6 DEF StopHook, At, vm_state, Raise, Finish, HookFires, Touching, Closing, TypeOK, StopsCount, NoStaleStop
<1>7. CASE Chunk
  BY <1>7 DEF Chunk, At, vm_state, Raise, Finish, Touching, Closing, TypeOK, StopsCount, NoStaleStop
<1>8. CASE ChunkEnds
  BY <1>8 DEF ChunkEnds, At, vm_state, Raise, Finish, Touching, Closing, TypeOK, StopsCount, NoStaleStop
<1>9. CASE SleepCut
  BY <1>9 DEF SleepCut, At, vm_state, Raise, Finish, Touching, Closing, TypeOK, StopsCount, NoStaleStop
<1>10. CASE SleepEnds
  BY <1>10 DEF SleepEnds, At, vm_state, Touching, Closing, TypeOK, StopsCount, NoStaleStop
<1>11. CASE Unhook
  BY <1>11 DEF Unhook, At, vm_state, Touching, Closing, TypeOK, StopsCount, NoStaleStop
<1>12. CASE Report
  BY <1>12 DEF Report, At, vm_state, Touching, Closing, TypeOK, StopsCount, NoStaleStop
<1>13. CASE CloseBegins
  BY <1>13 DEF CloseBegins, At, vm_state, Touching, Closing, TypeOK, StopsCount, NoStaleStop
<1>14. CASE CloseEnds
  BY <1>14 DEF CloseEnds, At, vm_state, Touching, Closing, TypeOK, StopsCount, NoStaleStop
<1>15. CASE NewVM
  BY <1>15 DEF NewVM, At, vm_state, Touching, Closing, TypeOK, StopsCount, NoStaleStop
<1>16. CASE Leave
  BY <1>16 DEF Leave, At, vm_state, Touching, Closing, TypeOK, StopsCount, NoStaleStop
<1>17. CASE ScriptEnds
  BY <1>17 DEF ScriptEnds, At, vm_state, Finish, Touching, Closing, TypeOK, StopsCount, NoStaleStop
<1>18. CASE Sleep
  BY <1>18 DEF Sleep, At, vm_state, Touching, Closing, TypeOK, StopsCount, NoStaleStop
<1>19. CASE Return
  BY <1>19 DEF Return, At, vm_state, Touching, Closing, TypeOK, StopsCount, NoStaleStop
<1>20. ASSUME NEW s \in Stoppers, StopFlag(s) PROVE StopsCount'
  BY <1>20 DEF StopFlag, ReachesNow, executor_state, vm_state, Touching, Closing, TypeOK, StopsCount, NoStaleStop
<1>21. ASSUME NEW s \in Stoppers, StopRead(s) PROVE StopsCount'
  BY <1>21 DEF StopRead, ReachesNow, executor_state, vm_state, Touching, Closing, TypeOK, StopsCount, NoStaleStop
<1>22. ASSUME NEW s \in Stoppers, StopArm(s) PROVE StopsCount'
  BY <1>22 DEF StopArm, ReachesNow, executor_state, vm_state, Touching, Closing, TypeOK, StopsCount, NoStaleStop
<1>23. ASSUME NEW s \in Stoppers, StopWake(s) PROVE StopsCount'
  BY <1>23 DEF StopWake, ReachesNow, executor_state, vm_state, Touching, Closing, TypeOK, StopsCount, NoStaleStop
<1>24. ASSUME NEW r \in Readers, ReadLock(r) PROVE StopsCount'
  BY <1>24 DEF ReadLock, reader_unchanged, vm_state, Touching, Closing, TypeOK, StopsCount, NoStaleStop
<1>25. ASSUME NEW r \in Readers, ReadDone(r) PROVE StopsCount'
  BY <1>25 DEF ReadDone, reader_unchanged, vm_state, Touching, Closing, TypeOK, StopsCount, NoStaleStop
<1>26. CASE UNCHANGED vars
  BY <1>26 DEF vars, vm_state, Touching, Closing, TypeOK, StopsCount, NoStaleStop
<1> QED
  BY <1>1, <1>2, <1>3, <1>4, <1>5, <1>6, <1>7, <1>8, <1>9, <1>10, <1>11, <1>12, <1>13, <1>14, <1>15, <1>16, <1>17, <1>18, <1>19, <1>20, <1>21, <1>22, <1>23, <1>24, <1>25, <1>26
     DEF Next, Exec, Forced, Stop

\* Only a job whose flag is set after it was cleared is reported as interrupted.
LEMMA ToldStep == ASSUME TypeOK, StopsCount, ToldLast, [Next]_vars PROVE ToldLast'
<1>1. ASSUME NEW o \in {"eval", "reset"}, Call(o) PROVE ToldLast'
  BY <1>1 DEF Call, At, vm_state, Touching, Closing, TypeOK, StopsCount, ToldLast
<1>2. CASE Lock
  BY <1>2 DEF Lock, At, vm_state, Touching, Closing, TypeOK, StopsCount, ToldLast
<1>3. CASE Look
  BY <1>3 DEF Look, At, vm_state, Touching, Closing, TypeOK, StopsCount, ToldLast
<1>4. CASE ClearFlag
  BY <1>4 DEF ClearFlag, At, vm_state, Touching, Closing, TypeOK, StopsCount, ToldLast
<1>5. CASE ClearHook
  BY <1>5 DEF ClearHook, At, vm_state, Touching, Closing, TypeOK, StopsCount, ToldLast
<1>6. CASE StopHook
  BY <1>6 DEF StopHook, At, vm_state, Raise, Finish, HookFires, Touching, Closing, TypeOK, StopsCount, ToldLast
<1>7. CASE Chunk
  BY <1>7 DEF Chunk, At, vm_state, Raise, Finish, Touching, Closing, TypeOK, StopsCount, ToldLast
<1>8. CASE ChunkEnds
  BY <1>8 DEF ChunkEnds, At, vm_state, Raise, Finish, Touching, Closing, TypeOK, StopsCount, ToldLast
<1>9. CASE SleepCut
  BY <1>9 DEF SleepCut, At, vm_state, Raise, Finish, Touching, Closing, TypeOK, StopsCount, ToldLast
<1>10. CASE SleepEnds
  BY <1>10 DEF SleepEnds, At, vm_state, Touching, Closing, TypeOK, StopsCount, ToldLast
<1>11. CASE Unhook
  BY <1>11 DEF Unhook, At, vm_state, Touching, Closing, TypeOK, StopsCount, ToldLast
<1>12. CASE Report
  BY <1>12 DEF Report, At, vm_state, Touching, Closing, TypeOK, StopsCount, ToldLast
<1>13. CASE CloseBegins
  BY <1>13 DEF CloseBegins, At, vm_state, Touching, Closing, TypeOK, StopsCount, ToldLast
<1>14. CASE CloseEnds
  BY <1>14 DEF CloseEnds, At, vm_state, Touching, Closing, TypeOK, StopsCount, ToldLast
<1>15. CASE NewVM
  BY <1>15 DEF NewVM, At, vm_state, Touching, Closing, TypeOK, StopsCount, ToldLast
<1>16. CASE Leave
  BY <1>16 DEF Leave, At, vm_state, Touching, Closing, TypeOK, StopsCount, ToldLast
<1>17. CASE ScriptEnds
  BY <1>17 DEF ScriptEnds, At, vm_state, Finish, Touching, Closing, TypeOK, StopsCount, ToldLast
<1>18. CASE Sleep
  BY <1>18 DEF Sleep, At, vm_state, Touching, Closing, TypeOK, StopsCount, ToldLast
<1>19. CASE Return
  BY <1>19 DEF Return, At, vm_state, Touching, Closing, TypeOK, StopsCount, ToldLast
<1>20. ASSUME NEW s \in Stoppers, StopFlag(s) PROVE ToldLast'
  BY <1>20 DEF StopFlag, ReachesNow, executor_state, vm_state, Touching, Closing, TypeOK, StopsCount, ToldLast
<1>21. ASSUME NEW s \in Stoppers, StopRead(s) PROVE ToldLast'
  BY <1>21 DEF StopRead, ReachesNow, executor_state, vm_state, Touching, Closing, TypeOK, StopsCount, ToldLast
<1>22. ASSUME NEW s \in Stoppers, StopArm(s) PROVE ToldLast'
  BY <1>22 DEF StopArm, ReachesNow, executor_state, vm_state, Touching, Closing, TypeOK, StopsCount, ToldLast
<1>23. ASSUME NEW s \in Stoppers, StopWake(s) PROVE ToldLast'
  BY <1>23 DEF StopWake, ReachesNow, executor_state, vm_state, Touching, Closing, TypeOK, StopsCount, ToldLast
<1>24. ASSUME NEW r \in Readers, ReadLock(r) PROVE ToldLast'
  BY <1>24 DEF ReadLock, reader_unchanged, vm_state, Touching, Closing, TypeOK, StopsCount, ToldLast
<1>25. ASSUME NEW r \in Readers, ReadDone(r) PROVE ToldLast'
  BY <1>25 DEF ReadDone, reader_unchanged, vm_state, Touching, Closing, TypeOK, StopsCount, ToldLast
<1>26. CASE UNCHANGED vars
  BY <1>26 DEF vars, vm_state, Touching, Closing, TypeOK, StopsCount, ToldLast
<1> QED
  BY <1>1, <1>2, <1>3, <1>4, <1>5, <1>6, <1>7, <1>8, <1>9, <1>10, <1>11, <1>12, <1>13, <1>14, <1>15, <1>16, <1>17, <1>18, <1>19, <1>20, <1>21, <1>22, <1>23, <1>24, <1>25, <1>26
     DEF Next, Exec, Forced, Stop

-------------------------------------------------------------------------------

\* The invariant holds at first and is kept by every step.
THEOREM Inductive == Spec => []IInv
<1>1. Init => IInv
  <2> SUFFICES ASSUME Init PROVE IInv
    OBVIOUS
  <2>1. vm \in 0 .. MaxGen /\ gen \in 0 .. MaxGen /\ live \subseteq 1 .. MaxGen
    BY DEF Init, NoVM
  <2>2. spc \in [Stoppers -> {"idle", "read", "arm", "wake"}] /\ ptr \in [Stoppers -> 0 .. MaxGen]
    <3>1. 0 \in 0 .. MaxGen
      OBVIOUS
    <3> QED BY <3>1 DEF Init, NoVM
  <2>3. TypeOK
    BY <2>1, <2>2 DEF Init, TypeOK, Executor, Free
  <2>4. LockHeld
    BY DEF Init, LockHeld, Locked, Touching, Closing, Executor, Free
  <2>5. VMKnown
    BY DEF Init, VMKnown, Touching, NoVM
  <2>6. StopsCount /\ ToldLast
    BY DEF Init, StopsCount, NoStaleStop, ToldLast, Touching
  <2> QED BY <2>3, <2>4, <2>5, <2>6 DEF IInv
<1>2. IInv /\ [Next]_vars => IInv'
  BY TypeStep, LockStep, VMStep, StopsStep, ToldStep DEF IInv
<1> QED BY <1>1, <1>2, PTL DEF Spec

\* Every variable keeps to its type, whatever the interleaving.
THEOREM TypeCorrect == Spec => []TypeOK
<1>1. IInv => TypeOK
  BY DEF IInv
<1> QED BY <1>1, Inductive, PTL

\* The VM is run, closed, made and measured by the holder of lua_lock alone.
THEOREM LockGuardsVM == Spec => []VMExclusive
<1>1. IInv => VMExclusive
  BY DEF IInv, LockHeld, Locked, VMKnown, VMExclusive, Touching, Closing
<1> QED BY <1>1, Inductive, PTL

\* A stop that was over before a job began never ends that job.
THEOREM StopsNotStale == Spec => []NoStaleStop
<1>1. IInv => NoStaleStop
  BY DEF IInv, StopsCount
<1> QED BY <1>1, Inductive, PTL

\* A caller is told of an interruption only if there was one.
THEOREM InterruptionsReal == Spec => []InterruptedMeansStopped
<1>1. IInv => InterruptedMeansStopped
  BY DEF IInv, ToldLast, InterruptedMeansStopped
<1> QED BY <1>1, Inductive, PTL

=============================================================================
