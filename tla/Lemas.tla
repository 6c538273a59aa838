------------------------------- MODULE Lemas --------------------------------
(***************************************************************************)
(* Facts about sequences, finite sets and sums that the proofs of the      *)
(* other modules cite.  They say nothing of the kernel.                    *)
(***************************************************************************)
EXTENDS Integers, Sequences, FiniteSets, SequencesExt, TLAPS, FiniteSetTheorems,
        SequenceTheorems, WellFoundedInduction

-----------------------------------------------------------------------------
(* Induction *)

\* A set of natural numbers has a least element.
LEMMA MinimoNat ==
  ASSUME NEW T, T \subseteq Nat, T # {}
  PROVE  \E x \in T : \A y \in T : x <= y
<1> DEFINE R == OpToRel(<, Nat)
<1>1. IsWellFoundedOn(R, Nat)
  BY NatLessThanWellFounded
<1>2. \A x, y \in Nat : y < x => <<y, x>> \in R
  BY DEF OpToRel
<1> HIDE DEF R
<1>3. PICK x \in T : \A y \in T : ~ (<<y, x>> \in R)
  BY <1>1, WFMin
<1>4. ASSUME NEW y \in T PROVE x <= y
  <2>1. x \in Nat /\ y \in Nat
    OBVIOUS
  <2>2. ~ (y < x)
    BY <1>2, <1>3, <2>1
  <2> QED
    BY <2>1, <2>2
<1> QED
  BY <1>4

\* Min of the community modules, of a set that has elements.
LEMMA MinEs ==
  ASSUME NEW s, s \subseteq Nat, s # {}
  PROVE  Min(s) \in s
<1>1. \E x \in s : \A y \in s : x <= y
  BY MinimoNat
<1> QED
  BY <1>1 DEF Min

LEMMA MinMenor ==
  ASSUME NEW s, s \subseteq Nat, s # {}
  PROVE  \A y \in s : Min(s) <= y
<1>1. \E x \in s : \A y \in s : x <= y
  BY MinimoNat
<1> QED
  BY <1>1 DEF Min

\* Induction on the subsets of a finite set, for a family B of them: the empty set is in B,
\* and so is every set that is in B without the element CHOOSE picks from it.
Escogido(s) == CHOOSE x \in s : TRUE

LEMMA InduccionFinita ==
  ASSUME NEW S, IsFiniteSet(S), NEW B, {} \in B,
         \A s \in SUBSET S : s # {} /\ s \ {Escogido(s)} \in B => s \in B
  PROVE  \A s \in SUBSET S : s \in B
<1> DEFINE T == {n \in Nat : \E s \in SUBSET S : Cardinality(s) = n /\ s \notin B}
<1>1. ASSUME T # {} PROVE FALSE
  <2>1. PICK n \in T : \A k \in T : n <= k
    BY <1>1, MinimoNat
  <2>2. PICK s \in SUBSET S : Cardinality(s) = n /\ s \notin B
    OBVIOUS
  <2>3. s # {} /\ Escogido(s) \in s
    BY <2>2 DEF Escogido
  <2>4. IsFiniteSet(s)
    BY FS_Subset
  <2>5. Cardinality(s \ {Escogido(s)}) = n - 1 /\ n - 1 \in Nat
    <3>1. Cardinality(s \ {Escogido(s)}) = Cardinality(s) - 1
      BY <2>3, <2>4, FS_RemoveElement
    <3>2. IsFiniteSet(s \ {Escogido(s)})
      BY <2>4, FS_Subset
    <3>3. Cardinality(s \ {Escogido(s)}) \in Nat
      BY <3>2, FS_CardinalityType
    <3> QED
      BY <2>2, <3>1, <3>3
  <2>6. s \ {Escogido(s)} \notin B
    BY <2>2, <2>3
  <2>7. n - 1 \in T
    BY <2>5, <2>6
  <2> QED
    BY <2>1, <2>7
<1>2. ASSUME NEW s \in SUBSET S PROVE s \in B
  <2>1. Cardinality(s) \in Nat
    BY FS_Subset, FS_CardinalityType
  <2> QED
    BY <1>1, <2>1
<1> QED
  BY <1>2

-----------------------------------------------------------------------------
(* Sequences *)

LEMMA EnAgregado ==
  ASSUME NEW S, NEW s \in Seq(S), NEW e \in S
  PROVE  /\ Append(s, e) \in Seq(S) /\ Len(Append(s, e)) = Len(s) + 1
         /\ ToSet(Append(s, e)) = ToSet(s) \cup {e}
         /\ IsInjective(s) /\ e \notin ToSet(s) => IsInjective(Append(s, e))
<1>1. DOMAIN s = 1 .. Len(s) /\ DOMAIN Append(s, e) = 1 .. Len(s) + 1
  OBVIOUS
<1>2. /\ \A i \in 1 .. Len(s) : Append(s, e)[i] = s[i]
      /\ Append(s, e)[Len(s) + 1] = e
  OBVIOUS
<1>3. ToSet(Append(s, e)) = ToSet(s) \cup {e}
  BY <1>1, <1>2 DEF ToSet
<1>4. ASSUME IsInjective(s), e \notin ToSet(s) PROVE IsInjective(Append(s, e))
  BY <1>1, <1>2, <1>4 DEF IsInjective, ToSet
<1> QED
  BY <1>3, <1>4

LEMMA EnCabeza ==
  ASSUME NEW S, NEW s \in Seq(S), s # <<>>
  PROVE  /\ Tail(s) \in Seq(S) /\ Head(s) \in S /\ Len(Tail(s)) = Len(s) - 1
         /\ Head(s) \in ToSet(s)
         /\ ToSet(s) = ToSet(Tail(s)) \cup {Head(s)}
         /\ IsInjective(s) => IsInjective(Tail(s)) /\ Head(s) \notin ToSet(Tail(s))
<1>1. /\ DOMAIN s = 1 .. Len(s) /\ DOMAIN Tail(s) = 1 .. Len(s) - 1 /\ Len(s) \in Nat \ {0}
      /\ \A i \in 1 .. Len(s) - 1 : Tail(s)[i] = s[i + 1]
      /\ Head(s) = s[1]
  OBVIOUS
<1>2. ToSet(s) = ToSet(Tail(s)) \cup {Head(s)}
  <2>1. ASSUME NEW x \in ToSet(s) PROVE x \in ToSet(Tail(s)) \cup {Head(s)}
    <3>1. PICK i \in 1 .. Len(s) : x = s[i]
      BY <1>1 DEF ToSet
    <3>2. CASE i = 1
      BY <1>1, <3>1, <3>2
    <3>3. CASE i # 1
      <4>1. i - 1 \in 1 .. Len(s) - 1 /\ Tail(s)[i - 1] = s[i]
        BY <1>1, <3>3
      <4> QED
        BY <1>1, <3>1, <4>1 DEF ToSet
    <3> QED
      BY <3>2, <3>3
  <2>2. ASSUME NEW x \in ToSet(Tail(s)) PROVE x \in ToSet(s)
    BY <1>1 DEF ToSet
  <2>3. Head(s) \in ToSet(s)
    BY <1>1 DEF ToSet
  <2> QED
    BY <2>1, <2>2, <2>3
<1>3. ASSUME IsInjective(s) PROVE IsInjective(Tail(s)) /\ Head(s) \notin ToSet(Tail(s))
  BY <1>1, <1>3 DEF IsInjective, ToSet
<1> QED
  BY <1>1, <1>2, <1>3

LEMMA AlQuitar ==
  ASSUME NEW S, NEW s \in Seq(S), NEW i \in DOMAIN s
  PROVE  /\ RemoveAt(s, i) \in Seq(S) /\ Len(RemoveAt(s, i)) = Len(s) - 1
         /\ s[i] \in S /\ s[i] \in ToSet(s)
         /\ ToSet(s) = ToSet(RemoveAt(s, i)) \cup {s[i]}
         /\ IsInjective(s) => /\ IsInjective(RemoveAt(s, i))
                              /\ s[i] \notin ToSet(RemoveAt(s, i))
<1> DEFINE r == RemoveAt(s, i)
<1>1. DOMAIN s = 1 .. Len(s) /\ Len(s) \in Nat /\ i \in 1 .. Len(s)
  OBVIOUS
<1>2. /\ r \in Seq(S) /\ Len(r) = Len(s) - 1 /\ DOMAIN r = 1 .. Len(s) - 1
      /\ \A j \in 1 .. Len(s) - 1 : r[j] = IF j < i THEN s[j] ELSE s[j + 1]
  <2> DEFINE a == SubSeq(s, 1, i - 1)
             b == SubSeq(s, i + 1, Len(s))
  <2>1. a \in Seq(S) /\ Len(a) = i - 1 /\ \A j \in 1 .. i - 1 : a[j] = s[j]
    BY <1>1
  <2>2. b \in Seq(S) /\ Len(b) = Len(s) - i /\ \A j \in 1 .. Len(s) - i : b[j] = s[i + j]
    BY <1>1
  <2>3. r = a \o b
    BY DEF RemoveAt
  <2> HIDE DEF a, b, r
  <2>4. /\ a \o b \in Seq(S) /\ Len(a \o b) = Len(a) + Len(b)
        /\ \A j \in 1 .. Len(a) + Len(b) :
             (a \o b)[j] = IF j <= Len(a) THEN a[j] ELSE b[j - Len(a)]
    BY <2>1, <2>2
  <2>5. /\ r \in Seq(S) /\ Len(r) = Len(a) + Len(b)
        /\ \A j \in 1 .. Len(a) + Len(b) :
             r[j] = IF j <= Len(a) THEN a[j] ELSE b[j - Len(a)]
    BY <2>3, <2>4, Zenon
  <2>6. Len(a) = i - 1 /\ Len(b) = Len(s) - i /\ Len(a) + Len(b) = Len(s) - 1
    BY <1>1, <2>1, <2>2
  <2>7. ASSUME NEW j \in 1 .. Len(s) - 1 PROVE r[j] = IF j < i THEN s[j] ELSE s[j + 1]
    <3>1. CASE j < i
      <4>1. j <= Len(a) /\ j \in 1 .. i - 1
        BY <1>1, <2>6, <3>1
      <4> QED
        BY <2>1, <2>5, <2>6, <3>1, <4>1
    <3>2. CASE j >= i
      <4>1. j - Len(a) \in 1 .. Len(s) - i /\ i + (j - Len(a)) = j + 1 /\ ~(j <= Len(a))
        BY <1>1, <2>6, <3>2
      <4>2. b[j - Len(a)] = s[j + 1]
        BY <2>2, <4>1
      <4> QED
        BY <1>1, <2>5, <2>6, <3>2, <4>1, <4>2
    <3> QED
      BY <1>1, <3>1, <3>2
  <2>8. DOMAIN r = 1 .. Len(s) - 1
    BY <2>5, <2>6
  <2> QED
    BY <2>5, <2>6, <2>7, <2>8
<1> HIDE DEF r
<1>3. ToSet(s) = ToSet(r) \cup {s[i]}
  <2>1. ASSUME NEW x \in ToSet(s), x # s[i] PROVE x \in ToSet(r)
    <3>1. PICK j \in 1 .. Len(s) : x = s[j]
      BY <1>1 DEF ToSet
    <3>2. CASE j < i
      <4>1. j \in DOMAIN r /\ r[j] = x
        BY <1>1, <1>2, <3>1, <3>2
      <4> QED
        BY <4>1 DEF ToSet
    <3>3. CASE j > i
      <4>1. j - 1 \in DOMAIN r /\ r[j - 1] = x
        BY <1>1, <1>2, <3>1, <3>3
      <4> QED
        BY <4>1 DEF ToSet
    <3> QED
      BY <1>1, <2>1, <3>1, <3>2, <3>3
  <2>2. ASSUME NEW x \in ToSet(r) PROVE x \in ToSet(s)
    <3>1. PICK j \in 1 .. Len(s) - 1 : x = r[j]
      BY <1>2 DEF ToSet
    <3> QED
      BY <1>1, <1>2, <3>1 DEF ToSet
  <2>3. s[i] \in ToSet(s)
    BY <1>1 DEF ToSet
  <2> QED
    BY <2>1, <2>2, <2>3
<1>4. ASSUME IsInjective(s) PROVE IsInjective(r) /\ s[i] \notin ToSet(r)
  <2>1. ASSUME NEW j \in DOMAIN r
        PROVE  \E k \in DOMAIN s : k # i /\ r[j] = s[k] /\ k = IF j < i THEN j ELSE j + 1
    BY <1>1, <1>2
  <2>2. ASSUME NEW j \in DOMAIN r, NEW k \in DOMAIN r, r[j] = r[k] PROVE j = k
    BY <1>1, <1>2, <1>4, <2>1, <2>2 DEF IsInjective
  <2>3. \A j \in DOMAIN r : r[j] # s[i]
    BY <1>1, <1>4, <2>1 DEF IsInjective
  <2> QED
    BY <2>2, <2>3 DEF IsInjective, ToSet
<1>5. s[i] \in S /\ s[i] \in ToSet(s)
  BY <1>1 DEF ToSet
<1> QED
  BY <1>2, <1>3, <1>4, <1>5 DEF r

LEMMA AlQuitarPrimero ==
  ASSUME NEW S, NEW s \in Seq(S), NEW e
  PROVE  /\ RemoveFirst(s, e) \in Seq(S)
         /\ e \notin ToSet(s) => RemoveFirst(s, e) = s
         /\ ToSet(RemoveFirst(s, e)) \subseteq ToSet(s)
         /\ ToSet(s) \subseteq ToSet(RemoveFirst(s, e)) \cup {e}
         /\ IsInjective(s) => /\ IsInjective(RemoveFirst(s, e))
                              /\ e \notin ToSet(RemoveFirst(s, e))
<1>1. DOMAIN s = 1 .. Len(s) /\ Len(s) \in Nat
  OBVIOUS
<1>2. CASE e \notin ToSet(s)
  <2>1. RemoveFirst(s, e) = s
    BY <1>1, <1>2 DEF RemoveFirst, ToSet
  <2> QED
    BY <1>2, <2>1
<1>3. CASE e \in ToSet(s)
  <2> DEFINE I == {i \in 1 .. Len(s) : s[i] = e}
             m == SelectInSeq(s, LAMBDA v : v = e)
  <2>1. I # {} /\ I \subseteq Nat
    BY <1>1, <1>3 DEF ToSet
  <2>2. \E x \in I : \A y \in I : x <= y
    BY <2>1, MinimoNat
  <2>3. m = CHOOSE x \in I : \A y \in I : x <= y
    BY <2>1 DEF SelectInSeq, Min
  <2>4. m \in I
    BY <2>2, <2>3
  <2>5. RemoveFirst(s, e) = RemoveAt(s, m)
    BY <1>1, <2>1 DEF RemoveFirst
  <2> HIDE DEF m
  <2>6. m \in DOMAIN s /\ s[m] = e
    BY <1>1, <2>4
  <2> QED
    BY <1>3, <2>5, <2>6, AlQuitar
<1> QED
  BY <1>2, <1>3

LEMMA AlSacarUltimo ==
  ASSUME NEW S, NEW s \in Seq(S), s # <<>>
  PROVE  /\ Front(s) \in Seq(S) /\ Last(s) \in S /\ Last(s) \in ToSet(s)
         /\ ToSet(s) = ToSet(Front(s)) \cup {Last(s)}
         /\ IsInjective(s) => IsInjective(Front(s)) /\ Last(s) \notin ToSet(Front(s))
<1>1. /\ DOMAIN s = 1 .. Len(s) /\ Len(s) \in Nat \ {0} /\ Front(s) \in Seq(S)
      /\ Len(Front(s)) = Len(s) - 1 /\ DOMAIN Front(s) = 1 .. Len(s) - 1
      /\ \A i \in 1 .. Len(s) - 1 : Front(s)[i] = s[i]
  <2>1. DOMAIN s = 1 .. Len(s) /\ Len(s) \in Nat \ {0}
    OBVIOUS
  <2> DEFINE n == Len(s) - 1
  <2>2. n \in 0 .. Len(s)
    BY <2>1
  <2> HIDE DEF n
  <2>3. /\ SubSeq(s, 1, n) \in Seq(S) /\ Len(SubSeq(s, 1, n)) = n
        /\ \A i \in 1 .. n : SubSeq(s, 1, n)[i] = s[i]
    BY <2>1, <2>2
  <2>4. DOMAIN SubSeq(s, 1, n) = 1 .. n
    BY <2>3
  <2>5. Front(s) = SubSeq(s, 1, n)
    BY DEF Front, n
  <2> QED
    BY <2>1, <2>3, <2>4, <2>5 DEF n
<1>2. Last(s) = s[Len(s)] /\ Last(s) \in S
  BY <1>1 DEF Last
<1>3. ToSet(s) = ToSet(Front(s)) \cup {Last(s)}
  <2>1. \A i \in DOMAIN s : i \in DOMAIN Front(s) \/ i = Len(s)
    BY <1>1
  <2> QED
    BY <1>1, <1>2, <2>1 DEF ToSet
<1>4. ASSUME IsInjective(s) PROVE IsInjective(Front(s)) /\ Last(s) \notin ToSet(Front(s))
  BY <1>1, <1>2, <1>4 DEF IsInjective, ToSet
<1> QED
  BY <1>1, <1>2, <1>3, <1>4 DEF ToSet

-----------------------------------------------------------------------------
(* Sums *)

\* g is the function by which Folds adds up f over the subsets of S.
EsSuma(g, f, S) ==
  g = [s \in SUBSET S |-> IF s = {} THEN 0 ELSE f[Escogido(s)] + g[s \ {Escogido(s)}]]

LEMMA SumaEscogida ==
  ASSUME NEW f, NEW S
  PROVE  SumFunctionOnSet(f, S) = (CHOOSE g : EsSuma(g, f, S))[S]
BY Zenon DEF SumFunctionOnSet, FoldFunctionOnSet, MapThenFoldSet, EsSuma, Escogido

LEMMA SumaExiste ==
  ASSUME NEW S, IsFiniteSet(S), NEW f
  PROVE  \E g : EsSuma(g, f, S)
<1> DEFINE Paso(g, s) == IF s = {} THEN 0 ELSE f[Escogido(s)] + g[s \ {Escogido(s)}]
           Hasta(g, n) == \A s \in SUBSET S : Cardinality(s) <= n => g[s] = Paso(g, s)
           T == {n \in Nat : ~ \E g : Hasta(g, n)}
<1>1. \A s \in SUBSET S : IsFiniteSet(s) /\ Cardinality(s) \in Nat
  BY FS_Subset, FS_CardinalityType
<1>2. \A s \in SUBSET S : s # {} =>
        /\ Escogido(s) \in s /\ s \ {Escogido(s)} \in SUBSET S
        /\ Cardinality(s \ {Escogido(s)}) = Cardinality(s) - 1
  BY <1>1, FS_RemoveElement DEF Escogido
<1>3. Hasta([s \in SUBSET S |-> 0], 0)
  <2>1. \A s \in SUBSET S : Cardinality(s) <= 0 => s = {}
    BY <1>1, FS_EmptySet
  <2> QED
    BY <2>1
<1>4. ASSUME NEW n \in Nat, NEW g, Hasta(g, n)
      PROVE  \E h : Hasta(h, n + 1)
  <2> DEFINE h == [s \in SUBSET S |-> Paso(g, s)]
  <2>1. ASSUME NEW s \in SUBSET S, Cardinality(s) <= n + 1 PROVE h[s] = Paso(h, s)
    <3>1. CASE s = {}
      BY <3>1
    <3>2. CASE s # {}
      <4> DEFINE t == s \ {Escogido(s)}
      <4>1. t \in SUBSET S /\ Cardinality(t) <= n
        BY <1>1, <1>2, <2>1, <3>2
      <4>2. g[t] = Paso(g, t)
        BY <1>4, <4>1
      <4>3. h[t] = Paso(g, t)
        BY <4>1
      <4> HIDE DEF t
      <4>4. h[t] = g[t]
        BY <4>2, <4>3
      <4>5. h[s] = f[Escogido(s)] + g[t]
        BY <3>2 DEF t
      <4> HIDE DEF h
      <4> QED
        BY <3>2, <4>4, <4>5 DEF t
    <3> QED
      BY <3>1, <3>2
  <2> HIDE DEF h
  <2> QED
    BY <2>1
<1> HIDE DEF Hasta
<1>5. T = {}
  <2> SUFFICES ASSUME T # {} PROVE FALSE
    OBVIOUS
  <2>1. PICK n \in T : \A k \in T : n <= k
    BY MinimoNat
  <2>2. n # 0
    BY <1>3
  <2>3. n - 1 \in Nat /\ n - 1 \notin T /\ (n - 1) + 1 = n
    BY <2>1, <2>2
  <2> QED
    BY <1>4, <2>3
<1>6. PICK g : Hasta(g, Cardinality(S))
  BY <1>1, <1>5
<1> DEFINE h == [s \in SUBSET S |-> g[s]]
<1>7. \A s \in SUBSET S : g[s] = Paso(g, s)
  <2>1. \A s \in SUBSET S : Cardinality(s) <= Cardinality(S)
    BY FS_Subset
  <2> QED
    BY <1>6, <2>1 DEF Hasta
<1>8. \A s \in SUBSET S : h[s] = Paso(h, s)
  <2> SUFFICES ASSUME NEW s \in SUBSET S PROVE h[s] = Paso(h, s)
    OBVIOUS
  <2>1. s # {} => h[s \ {Escogido(s)}] = g[s \ {Escogido(s)}]
    OBVIOUS
  <2> QED
    BY <1>7, <2>1
<1>9. h = [s \in SUBSET S |-> h[s]]
  OBVIOUS
<1> HIDE DEF h
<1>10. h = [s \in SUBSET S |-> Paso(h, s)]
  BY <1>8, <1>9
<1> QED
  BY <1>10 DEF EsSuma

\* What the other lemmas use of it.
Acumula(g, f, S) ==
  /\ SumFunctionOnSet(f, S) = g[S] /\ g[{}] = 0
  /\ \A s \in SUBSET S : s # {} => g[s] = f[Escogido(s)] + g[s \ {Escogido(s)}]

LEMMA SumaEs ==
  ASSUME NEW S, IsFiniteSet(S), NEW f
  PROVE  \E g : Acumula(g, f, S)
<1> DEFINE g == CHOOSE x : EsSuma(x, f, S)
<1>1. EsSuma(g, f, S)
  BY SumaExiste
<1>2. SumFunctionOnSet(f, S) = g[S]
  BY SumaEscogida
<1> HIDE DEF g
<1> QED
  BY <1>1, <1>2 DEF EsSuma, Acumula

\* A sum of integers is an integer; of zeros, zero.
LEMMA SumaTipo ==
  ASSUME NEW S, IsFiniteSet(S), NEW f, \A q \in S : f[q] \in Int
  PROVE  /\ SumFunctionOnSet(f, S) \in Int
         /\ (\A q \in S : f[q] = 0) => SumFunctionOnSet(f, S) = 0
<1>1. PICK g : Acumula(g, f, S)
  BY SumaEs
<1> DEFINE B == {s \in SUBSET S : /\ g[s] \in Int
                                  /\ (\A q \in S : f[q] = 0) => g[s] = 0}
<1>2. {} \in B
  BY <1>1 DEF Acumula
<1>3. ASSUME NEW s \in SUBSET S, s # {}, s \ {Escogido(s)} \in B PROVE s \in B
  <2>1. Escogido(s) \in S /\ f[Escogido(s)] \in Int
    BY <1>3 DEF Escogido
  <2> QED
    BY <1>1, <1>3, <2>1 DEF Acumula
<1> HIDE DEF B
<1>4. S \in B
  BY <1>2, <1>3, InduccionFinita
<1> QED
  BY <1>1, <1>4 DEF B, Acumula

\* When f changes at p only, its sum changes by as much.
LEMMA SumaCambia ==
  ASSUME NEW S, IsFiniteSet(S), NEW f, NEW h, \A q \in S : f[q] \in Int /\ h[q] \in Int,
         NEW p \in S, \A q \in S : q # p => h[q] = f[q]
  PROVE  SumFunctionOnSet(h, S) = SumFunctionOnSet(f, S) + (h[p] - f[p])
<1>1. PICK g : Acumula(g, f, S)
  BY SumaEs
<1>2. PICK k : Acumula(k, h, S)
  BY SumaEs
<1> DEFINE Dif(s) == IF p \in s THEN h[p] - f[p] ELSE 0
           B == {s \in SUBSET S : g[s] \in Int /\ k[s] = g[s] + Dif(s)}
<1>3. {} \in B
  BY <1>1, <1>2 DEF Acumula
<1>4. ASSUME NEW s \in SUBSET S, s # {}, s \ {Escogido(s)} \in B PROVE s \in B
  <2> DEFINE x == Escogido(s)
             t == s \ {x}
  <2>1. x \in s
    BY <1>4 DEF Escogido
  <2>2. x \in S /\ f[x] \in Int /\ h[x] \in Int /\ h[p] \in Int /\ f[p] \in Int
    BY <2>1
  <2>3. g[s] = f[x] + g[t] /\ k[s] = h[x] + k[t]
    BY <1>1, <1>2, <1>4 DEF Acumula
  <2>4. g[t] \in Int /\ k[t] = g[t] + Dif(t)
    BY <1>4
  <2>5. Dif(s) = Dif(t) + (h[x] - f[x]) /\ Dif(t) \in Int
    <3>1. CASE x = p
      BY <2>1, <2>2, <3>1
    <3>2. CASE x # p
      BY <2>1, <2>2, <3>2
    <3> QED
      BY <3>1, <3>2
  <2> HIDE DEF x, t, Dif
  <2>6. g[s] \in Int /\ k[s] = g[s] + Dif(s)
    BY <2>2, <2>3, <2>4, <2>5
  <2> QED
    BY <2>6
<1> HIDE DEF B
<1>5. S \in B
  BY <1>3, <1>4, InduccionFinita
<1> QED
  BY <1>1, <1>2, <1>5 DEF B, Acumula

\* The order in which the elements are added up does not matter: any of them can be the last.
LEMMA AcumulaQuita ==
  ASSUME NEW S, IsFiniteSet(S), NEW f, \A q \in S : f[q] \in Int, NEW g, Acumula(g, f, S)
  PROVE  \A t \in SUBSET S : g[t] \in Int /\ \A x \in t : g[t] = f[x] + g[t \ {x}]
<1> DEFINE B == {s \in SUBSET S : g[s] \in Int}
           Vale(t) == \A x \in t : g[t] = f[x] + g[t \ {x}]
           T == {n \in Nat : \E t \in SUBSET S : Cardinality(t) = n /\ ~Vale(t)}
<1>1. \A t \in SUBSET S : g[t] \in Int
  <2>1. {} \in B
    BY DEF Acumula
  <2>2. ASSUME NEW s \in SUBSET S, s # {}, s \ {Escogido(s)} \in B PROVE s \in B
    <3>1. Escogido(s) \in S
      BY <2>2 DEF Escogido
    <3>2. g[s] = f[Escogido(s)] + g[s \ {Escogido(s)}]
      BY <2>2 DEF Acumula
    <3>3. g[s \ {Escogido(s)}] \in Int /\ f[Escogido(s)] \in Int
      BY <2>2, <3>1
    <3> QED
      BY <3>2, <3>3
  <2> HIDE DEF B
  <2>3. \A s \in SUBSET S : s \in B
    BY <2>1, <2>2, InduccionFinita
  <2> QED
    BY <2>3 DEF B
<1>2. \A t \in SUBSET S : IsFiniteSet(t) /\ Cardinality(t) \in Nat
  BY FS_Subset, FS_CardinalityType
<1>3. ASSUME T # {} PROVE FALSE
  <2>1. PICK n \in T : \A k \in T : n <= k
    BY <1>3, MinimoNat
  <2>2. PICK t \in SUBSET S : Cardinality(t) = n /\ ~Vale(t)
    OBVIOUS
  <2>3. PICK x \in t : g[t] # f[x] + g[t \ {x}]
    BY <2>2
  <2> DEFINE e == Escogido(t)
  <2>4. e \in t /\ g[t] = f[e] + g[t \ {e}]
    BY <2>3 DEF Acumula, Escogido
  <2> HIDE DEF e
  <2>5. x # e
    BY <2>3, <2>4
  <2>6. ASSUME NEW y \in t PROVE Vale(t \ {y})
    <3>1. Cardinality(t \ {y}) = n - 1 /\ Cardinality(t \ {y}) \in Nat
      BY <1>2, <2>2, FS_RemoveElement
    <3>2. n - 1 \notin T
      BY <2>1, <3>1
    <3> QED
      BY <3>1, <3>2
  <2>7. g[t \ {e}] = f[x] + g[(t \ {e}) \ {x}]
    BY <2>4, <2>5, <2>6
  <2>8. g[t \ {x}] = f[e] + g[(t \ {x}) \ {e}]
    BY <2>3, <2>4, <2>5, <2>6
  <2>9. (t \ {x}) \ {e} = (t \ {e}) \ {x}
    OBVIOUS
  <2>10. f[e] \in Int /\ f[x] \in Int /\ g[(t \ {e}) \ {x}] \in Int
    BY <1>1, <2>4
  <2>11. g[t] = f[e] + (f[x] + g[(t \ {e}) \ {x}])
    BY <2>4, <2>7
  <2>12. f[x] + g[t \ {x}] = f[x] + (f[e] + g[(t \ {e}) \ {x}])
    BY <2>8, <2>9
  <2>13. g[t] = f[x] + g[t \ {x}]
    BY <2>10, <2>11, <2>12
  <2> QED
    BY <2>3, <2>13
<1> HIDE DEF T
<1>4. \A t \in SUBSET S : Vale(t)
  BY <1>2, <1>3 DEF T
<1> QED
  BY <1>1, <1>4

\* The sum over a part is at most the sum over the whole, and leaves out what the others have.
LEMMA SumaParte ==
  ASSUME NEW S, IsFiniteSet(S), NEW f, \A q \in S : f[q] \in Nat,
         NEW s \in SUBSET S, NEW h, \A q \in s : h[q] = f[q]
  PROVE  /\ SumFunctionOnSet(h, s) \in Int /\ SumFunctionOnSet(f, S) \in Int
         /\ SumFunctionOnSet(h, s) <= SumFunctionOnSet(f, S)
         /\ \A q \in S \ s : SumFunctionOnSet(h, s) + f[q] <= SumFunctionOnSet(f, S)
<1>1. IsFiniteSet(s) /\ \A t \in SUBSET S : IsFiniteSet(t) /\ Cardinality(t) \in Nat
  BY FS_Subset, FS_CardinalityType
<1>2. PICK g : Acumula(g, f, S)
  BY SumaEs
<1>3. PICK k : Acumula(k, h, s)
  BY <1>1, SumaEs
<1>4. \A t \in SUBSET S : g[t] \in Int /\ \A x \in t : g[t] = f[x] + g[t \ {x}]
  BY <1>2, AcumulaQuita
<1>5. k[s] = g[s]
  <2> DEFINE B == {t \in SUBSET s : k[t] = g[t]}
  <2>1. {} \in B
    BY <1>2, <1>3 DEF Acumula
  <2>2. ASSUME NEW t \in SUBSET s, t # {}, t \ {Escogido(t)} \in B PROVE t \in B
    <3>1. Escogido(t) \in s /\ t \in SUBSET S
      BY <2>2 DEF Escogido
    <3>2. /\ k[t] = h[Escogido(t)] + k[t \ {Escogido(t)}]
          /\ g[t] = f[Escogido(t)] + g[t \ {Escogido(t)}]
      BY <1>2, <1>3, <2>2, <3>1 DEF Acumula
    <3> QED
      BY <2>2, <3>1, <3>2
  <2> HIDE DEF B
  <2>3. s \in B
    BY <1>1, <2>1, <2>2, InduccionFinita
  <2> QED
    BY <2>3 DEF B
<1> DEFINE T == {n \in Nat : \E v \in SUBSET S :
                   s \subseteq v /\ Cardinality(v) = n /\ ~(g[s] <= g[v])}
<1>6. ASSUME T # {} PROVE FALSE
  <2>1. PICK n \in T : \A m \in T : n <= m
    BY <1>6, MinimoNat
  <2>2. PICK v \in SUBSET S : s \subseteq v /\ Cardinality(v) = n /\ ~(g[s] <= g[v])
    OBVIOUS
  <2>3. v # s
    BY <1>4, <2>2
  <2>4. PICK x \in v : x \notin s
    BY <2>2, <2>3
  <2>5. Cardinality(v \ {x}) = n - 1 /\ Cardinality(v \ {x}) \in Nat
    BY <1>1, <2>2, FS_RemoveElement
  <2>6. n - 1 \notin T
    BY <2>1, <2>5
  <2>7. g[s] <= g[v \ {x}]
    BY <2>2, <2>4, <2>5, <2>6
  <2>8. /\ g[v] = f[x] + g[v \ {x}] /\ f[x] \in Nat
        /\ g[v] \in Int /\ g[v \ {x}] \in Int /\ g[s] \in Int
    BY <1>4, <2>2
  <2> HIDE DEF T
  <2> QED
    BY <2>2, <2>7, <2>8
<1>7. \A v \in SUBSET S : s \subseteq v => g[s] <= g[v]
  BY <1>1, <1>6
<1>8. ASSUME NEW q \in S \ s PROVE g[s] + f[q] <= g[S]
  <2>1. g[s] <= g[S \ {q}]
    BY <1>7, <1>8
  <2>2. g[S] = f[q] + g[S \ {q}] /\ f[q] \in Nat /\ g[S \ {q}] \in Int /\ g[s] \in Int
    BY <1>4, <1>8
  <2> QED
    BY <2>1, <2>2
<1> QED
  BY <1>2, <1>3, <1>4, <1>5, <1>7, <1>8 DEF Acumula

=============================================================================
