----------------------------- MODULE PurseProofs -----------------------------
(***************************************************************************)
(* What holds of Purse for every mint, every starting situation and every  *)
(* token, and not only for those TLC runs through.  From the bottom up:    *)
(* sums and sublists; the selection of proofs; the stored form and the     *)
(* JSON; the keysets, fees, outputs and signatures; the CBOR of a token,   *)
(* whole and cut; then one lemma for each action, which keeps the          *)
(* invariant of PurseInv, and the theorems.                                *)
(*                                                                         *)
(* What a recursive function computes is shown by least counterexample:    *)
(* the positions where a claim fails are a set of numbers, which would     *)
(* have a least one (Upwards).                                             *)
(***************************************************************************)
EXTENDS PurseInv, FiniteSetTheorems, SequenceTheorems, WellFoundedInduction, TLAPS

----------
(* Induction, and what is defined by it *)

\* One number below another.
Below == {ss \in Nat \X Nat : ss[1] < ss[2]}

\* Going down from a number ends.
LEMMA BelowWellFounded == IsWellFoundedOn(Below, Nat)
BY NatLessThanWellFounded DEF OpToRel, Below

\* A set that has 0, and with each number the next one, has all numbers up to n.
LEMMA Upwards ==
    ASSUME NEW n \in Nat, NEW S,
           0 \in S,
           \A i \in 0 .. (n - 1) : i \in S => i + 1 \in S
    PROVE  \A i \in 0 .. n : i \in S
<1> DEFINE bad == {i \in 0 .. n : i \notin S}
<1>1. ASSUME bad # {}
      PROVE  FALSE
  <2>1. bad \subseteq Nat
    OBVIOUS
  <2>2. PICK i \in bad : \A j \in bad : ~(<<j, i>> \in Below)
    BY <1>1, <2>1, BelowWellFounded, WFMin
  <2>3. /\ i \in 0 .. n /\ i \notin S /\ i # 0
        /\ i - 1 \in 0 .. (n - 1) /\ i - 1 \in Nat /\ i - 1 < i /\ i \in Nat
    BY <2>2
  <2>4. i - 1 \notin bad
    BY <2>2, <2>3 DEF Below
  <2>5. i - 1 \in S
    BY <2>3, <2>4
  <2>6. (i - 1) + 1 \in S
    BY <2>3, <2>5
  <2> QED BY <2>3, <2>6
<1> QED BY <1>1

\* The partial sums of v, as Total adds them up.
SumUpTo(v) ==
    CHOOSE sum : sum = [i \in 0 .. Len(v) |-> IF i = 0 THEN 0 ELSE sum[i - 1] + v[i]]

\* There is a function of the partial sums of a list.
LEMMA SumsExist ==
    ASSUME NEW v, NEW n \in Nat
    PROVE  \E sum : sum = [i \in 0 .. n |-> IF i = 0 THEN 0 ELSE sum[i - 1] + v[i]]
<1> DEFINE Has(m) == \E sum : sum = [i \in 0 .. m |-> IF i = 0 THEN 0 ELSE sum[i - 1] + v[i]]
           S == {m \in 0 .. n : Has(m)}
<1>1. Has(0)
  <2> DEFINE f == [i \in 0 .. 0 |-> 0]
  <2>1. f = [i \in 0 .. 0 |-> IF i = 0 THEN 0 ELSE f[i - 1] + v[i]]
    OBVIOUS
  <2> HIDE DEF f
  <2> QED BY <2>1
<1>2. ASSUME NEW m \in 0 .. (n - 1), Has(m)
      PROVE  Has(m + 1)
  <2>1. PICK f : f = [i \in 0 .. m |-> IF i = 0 THEN 0 ELSE f[i - 1] + v[i]]
    BY <1>2
  <2> DEFINE g == [i \in 0 .. (m + 1) |-> IF i = m + 1 THEN f[m] + v[m + 1] ELSE f[i]]
  <2>2. g = [i \in 0 .. (m + 1) |-> IF i = 0 THEN 0 ELSE g[i - 1] + v[i]]
    BY <2>1
  <2> HIDE DEF g
  <2> QED BY <2>2
<1> HIDE DEF Has
<1>3. \A m \in 0 .. n : m \in S
  <2>1. 0 \in S
    BY <1>1
  <2>2. \A m \in 0 .. (n - 1) : m \in S => m + 1 \in S
    BY <1>2
  <2> HIDE DEF S
  <2> QED BY <2>1, <2>2, Upwards
<1>4. Has(n)
  BY <1>3
<1> QED BY <1>4 DEF Has

\* The total of a list is the last of its partial sums.
LEMMA SumsDef ==
    ASSUME NEW v, Len(v) \in Nat
    PROVE  /\ Total(v) = SumUpTo(v)[Len(v)]
           /\ SumUpTo(v)[0] = 0
           /\ \A i \in 1 .. Len(v) : SumUpTo(v)[i] = SumUpTo(v)[i - 1] + v[i]
<1>1. SumUpTo(v) = [i \in 0 .. Len(v) |-> IF i = 0 THEN 0 ELSE SumUpTo(v)[i - 1] + v[i]]
  BY SumsExist DEF SumUpTo
<1>2. Total(v) = SumUpTo(v)[Len(v)]
  BY DEF Total, SumUpTo
<1> HIDE DEF SumUpTo
<1> QED BY <1>1, <1>2

\* The lists that Kept builds on its way.
IsKeptUpTo(f, n, s, T) ==
    f = [i \in 0 .. n |->
            IF i = 0 THEN <<>>
            ELSE IF i \in T THEN Append(f[i - 1], s[i]) ELSE f[i - 1]]

\* Those lists, as a function of how many elements have been looked at.
KeptUpTo(s, T) == CHOOSE f : IsKeptUpTo(f, Len(s), s, T)

\* There is a function of what is kept of the first elements of a list.
LEMMA KeptExists ==
    ASSUME NEW s, NEW T, NEW n \in Nat
    PROVE  \E f : IsKeptUpTo(f, n, s, T)
<1> DEFINE Step(e, i) == IF i \in T THEN Append(e, s[i]) ELSE e
           Has(m) == \E f : IsKeptUpTo(f, m, s, T)
           S == {m \in 0 .. n : Has(m)}
<1>1. ASSUME NEW f, NEW m
      PROVE  IsKeptUpTo(f, m, s, T)
               <=> f = [i \in 0 .. m |-> IF i = 0 THEN <<>> ELSE Step(f[i - 1], i)]
  BY DEF IsKeptUpTo
<1> HIDE DEF Step
<1>2. Has(0)
  <2> DEFINE f == [i \in 0 .. 0 |-> <<>>]
  <2>1. f = [i \in 0 .. 0 |-> IF i = 0 THEN <<>> ELSE Step(f[i - 1], i)]
    OBVIOUS
  <2> HIDE DEF f
  <2> QED BY <1>1, <2>1
<1>3. ASSUME NEW m \in 0 .. (n - 1), Has(m)
      PROVE  Has(m + 1)
  <2>1. PICK f : f = [i \in 0 .. m |-> IF i = 0 THEN <<>> ELSE Step(f[i - 1], i)]
    BY <1>1, <1>3
  <2> DEFINE g == [i \in 0 .. (m + 1) |-> IF i = m + 1 THEN Step(f[m], m + 1) ELSE f[i]]
  <2>2. g = [i \in 0 .. (m + 1) |-> IF i = 0 THEN <<>> ELSE Step(g[i - 1], i)]
    BY <2>1
  <2> HIDE DEF g
  <2> QED BY <1>1, <2>2
<1> HIDE DEF Has
<1>4. \A m \in 0 .. n : m \in S
  <2>1. 0 \in S
    BY <1>2
  <2>2. \A m \in 0 .. (n - 1) : m \in S => m + 1 \in S
    BY <1>3
  <2> HIDE DEF S
  <2> QED BY <2>1, <2>2, Upwards
<1>5. Has(n)
  BY <1>4
<1> QED BY <1>5 DEF Has

\* What is kept of a list is built up element by element.
LEMMA KeptDef ==
    ASSUME NEW s, NEW T, Len(s) \in Nat
    PROVE  /\ Kept(s, T) = KeptUpTo(s, T)[Len(s)]
           /\ KeptUpTo(s, T)[0] = <<>>
           /\ \A i \in 1 .. Len(s) :
                  KeptUpTo(s, T)[i] = IF i \in T THEN Append(KeptUpTo(s, T)[i - 1], s[i])
                                      ELSE KeptUpTo(s, T)[i - 1]
<1> DEFINE f == KeptUpTo(s, T)
           Step(e, i) == IF i \in T THEN Append(e, s[i]) ELSE e
<1>1. IsKeptUpTo(f, Len(s), s, T)
  BY KeptExists DEF KeptUpTo
<1>2. Kept(s, T) = f[Len(s)]
  BY DEF Kept, KeptUpTo, IsKeptUpTo
<1> HIDE DEF f
<1>3. f = [i \in 0 .. Len(s) |-> IF i = 0 THEN <<>> ELSE Step(f[i - 1], i)]
  BY <1>1 DEF IsKeptUpTo
<1>4. /\ f[0] = <<>>
      /\ \A i \in 1 .. Len(s) : f[i] = Step(f[i - 1], i)
  <2> HIDE DEF Step
  <2> QED BY <1>3
<1> QED BY <1>2, <1>4 DEF f

----------
(* What is kept *)

\* The numbers from 1 to n, as a list.
Numbers(n) == [i \in 1 .. n |-> i]

\* The places of the elements kept, in order: they depend on the length alone.
Places(n, T) == Kept(Numbers(n), T)

\* P lists the numbers of D in order.
ListsInOrder(P, D) ==
    /\ P \in Seq(D)
    /\ \A k, m \in 1 .. Len(P) : k < m => P[k] < P[m]
    /\ \A j \in D : \E k \in 1 .. Len(P) : P[k] = j

\* The positions kept are those of the set, in order.
LEMMA PlacesOrdered ==
    ASSUME NEW n \in Nat, NEW T
    PROVE  ListsInOrder(Places(n, T), T \cap (1 .. n))
<1> DEFINE s == Numbers(n)
           f == KeptUpTo(s, T)
           Good(i) == /\ f[i] \in Seq(T \cap (1 .. i))
                      /\ \A k, m \in 1 .. Len(f[i]) : k < m => f[i][k] < f[i][m]
                      /\ \A j \in T \cap (1 .. i) : \E k \in 1 .. Len(f[i]) : f[i][k] = j
           S == {i \in 0 .. n : Good(i)}
<1>1. /\ Len(s) = n /\ \A i \in 1 .. n : s[i] = i
  BY DEF Numbers
<1> HIDE DEF s
<1>2. /\ Kept(s, T) = f[n] /\ f[0] = <<>>
      /\ \A i \in 1 .. n : f[i] = IF i \in T THEN Append(f[i - 1], i) ELSE f[i - 1]
  BY <1>1, KeptDef
<1> HIDE DEF f
<1>3. Good(0)
  BY <1>2
<1>4. ASSUME NEW i \in 0 .. (n - 1), Good(i)
      PROVE  Good(i + 1)
  <2>1. i + 1 \in 1 .. n /\ (i + 1) - 1 = i
    OBVIOUS
  <2>2. CASE i + 1 \notin T
    <3>1. f[i + 1] = f[i] /\ T \cap (1 .. (i + 1)) = T \cap (1 .. i)
      BY <1>2, <2>1, <2>2
    <3> QED BY <1>4, <3>1
  <2>3. CASE i + 1 \in T
    <3> DEFINE e == f[i]
               g == f[i + 1]
    <3>1. g = Append(e, i + 1)
      BY <1>2, <2>1, <2>3
    <3>2. /\ e \in Seq(T \cap (1 .. i))
          /\ \A k, m \in 1 .. Len(e) : k < m => e[k] < e[m]
          /\ \A j \in T \cap (1 .. i) : \E k \in 1 .. Len(e) : e[k] = j
      BY <1>4
    <3> HIDE DEF e, g
    <3>3. /\ e \in Seq(T \cap (1 .. (i + 1))) /\ i + 1 \in T \cap (1 .. (i + 1))
          /\ Len(e) \in Nat /\ \A k \in 1 .. Len(e) : e[k] \in 1 .. i
      BY <2>1, <2>3, <3>2, SeqMonotonic, LenProperties, ElementOfSeq
    <3>4. /\ g \in Seq(T \cap (1 .. (i + 1))) /\ Len(g) = Len(e) + 1
          /\ g[Len(e) + 1] = i + 1 /\ \A k \in 1 .. Len(e) : g[k] = e[k]
      BY <3>1, <3>3, AppendProperties
    <3>5. \A k, m \in 1 .. Len(g) : k < m => g[k] < g[m]
      <4>1. SUFFICES ASSUME NEW k \in 1 .. Len(g), NEW m \in 1 .. Len(g), k < m
                     PROVE  g[k] < g[m]
        OBVIOUS
      <4>2. k \in 1 .. Len(e) /\ g[k] = e[k] /\ e[k] \in 1 .. i
        BY <3>3, <3>4, <4>1
      <4>3. CASE m = Len(e) + 1
        BY <3>4, <4>2, <4>3
      <4>4. CASE m # Len(e) + 1
        <5>1. m \in 1 .. Len(e) /\ g[m] = e[m]
          BY <3>3, <3>4, <4>4
        <5> QED BY <3>2, <4>1, <4>2, <5>1
      <4> QED BY <4>3, <4>4
    <3>6. \A j \in T \cap (1 .. (i + 1)) : \E k \in 1 .. Len(g) : g[k] = j
      <4>1. SUFFICES ASSUME NEW j \in T \cap (1 .. (i + 1))
                     PROVE  \E k \in 1 .. Len(g) : g[k] = j
        OBVIOUS
      <4>2. CASE j = i + 1
        BY <3>3, <3>4, <4>2
      <4>3. CASE j # i + 1
        <5>1. j \in T \cap (1 .. i)
          BY <4>1, <4>3
        <5>2. PICK k \in 1 .. Len(e) : e[k] = j
          BY <3>2, <5>1
        <5> QED BY <3>3, <3>4, <5>2
      <4> QED BY <4>2, <4>3
    <3> QED BY <3>4, <3>5, <3>6 DEF g
  <2> QED BY <2>2, <2>3
<1>5. \A i \in 0 .. n : i \in S
  <2> HIDE DEF Good
  <2>1. 0 \in S /\ \A i \in 0 .. (n - 1) : i \in S => i + 1 \in S
    BY <1>3, <1>4
  <2> HIDE DEF S
  <2> QED BY <2>1, Upwards
<1>6. Good(n)
  <2> HIDE DEF Good
  <2> QED BY <1>5
<1> QED BY <1>2, <1>6 DEF ListsInOrder, Places, s

\* Kept lists what stands at those places.
LEMMA KeptAtPlaces ==
    ASSUME NEW S, NEW s \in Seq(S), NEW T
    PROVE  /\ Kept(s, T) \in Seq(S)
           /\ Len(Kept(s, T)) = Len(Places(Len(s), T))
           /\ \A k \in 1 .. Len(Kept(s, T)) : Kept(s, T)[k] = s[Places(Len(s), T)[k]]
<1> DEFINE n == Len(s)
           num == Numbers(n)
           f == KeptUpTo(s, T)
           g == KeptUpTo(num, T)
           Good(i) == /\ f[i] \in Seq(S) /\ g[i] \in Seq(1 .. n)
                      /\ Len(f[i]) = Len(g[i])
                      /\ \A k \in 1 .. Len(f[i]) : f[i][k] = s[g[i][k]]
           R == {i \in 0 .. n : Good(i)}
<1>1. n \in Nat /\ Len(num) = n /\ (\A i \in 1 .. n : num[i] = i /\ s[i] \in S)
  BY LenProperties, ElementOfSeq DEF Numbers
<1> HIDE DEF n, num
<1>2. /\ Kept(s, T) = f[n] /\ f[0] = <<>>
      /\ \A i \in 1 .. n : f[i] = IF i \in T THEN Append(f[i - 1], s[i]) ELSE f[i - 1]
  BY <1>1, KeptDef DEF n
<1>3. /\ Kept(num, T) = g[n] /\ g[0] = <<>>
      /\ \A i \in 1 .. n : g[i] = IF i \in T THEN Append(g[i - 1], i) ELSE g[i - 1]
  BY <1>1, KeptDef
<1> HIDE DEF f, g
<1>4. Good(0)
  BY <1>2, <1>3
<1>5. ASSUME NEW i \in 0 .. (n - 1), Good(i)
      PROVE  Good(i + 1)
  <2>1. i + 1 \in 1 .. n /\ (i + 1) - 1 = i /\ s[i + 1] \in S
    BY <1>1
  <2>2. CASE i + 1 \notin T
    BY <1>2, <1>3, <1>5, <2>1, <2>2
  <2>3. CASE i + 1 \in T
    <3>1. f[i + 1] = Append(f[i], s[i + 1]) /\ g[i + 1] = Append(g[i], i + 1)
      BY <1>2, <1>3, <2>1, <2>3
    <3>2. /\ f[i + 1] \in Seq(S) /\ Len(f[i + 1]) = Len(f[i]) + 1
          /\ f[i + 1][Len(f[i]) + 1] = s[i + 1]
          /\ \A k \in 1 .. Len(f[i]) : f[i + 1][k] = f[i][k]
      BY <1>5, <2>1, <3>1, AppendProperties
    <3>3. /\ g[i + 1] \in Seq(1 .. n) /\ Len(g[i + 1]) = Len(g[i]) + 1
          /\ g[i + 1][Len(g[i]) + 1] = i + 1
          /\ \A k \in 1 .. Len(g[i]) : g[i + 1][k] = g[i][k]
      BY <1>5, <2>1, <3>1, AppendProperties
    <3>4. Len(f[i]) \in Nat
      BY <1>5, LenProperties
    <3>5. ASSUME NEW k \in 1 .. Len(f[i + 1])
          PROVE  f[i + 1][k] = s[g[i + 1][k]]
      <4>1. CASE k = Len(f[i]) + 1
        BY <1>5, <3>2, <3>3, <4>1
      <4>2. CASE k # Len(f[i]) + 1
        <5>1. k \in 1 .. Len(f[i])
          BY <3>2, <3>4, <4>2
        <5> QED BY <1>5, <3>2, <3>3, <5>1
      <4> QED BY <4>1, <4>2
    <3> QED BY <1>5, <3>2, <3>3, <3>5
  <2> QED BY <2>2, <2>3
<1>6. \A i \in 0 .. n : i \in R
  <2> HIDE DEF Good
  <2>1. 0 \in R /\ \A i \in 0 .. (n - 1) : i \in R => i + 1 \in R
    BY <1>1, <1>4, <1>5
  <2> HIDE DEF R
  <2> QED BY <1>1, <2>1, Upwards
<1>7. Good(n)
  <2> HIDE DEF Good
  <2> QED BY <1>1, <1>6
<1> QED BY <1>2, <1>3, <1>7 DEF Places, num, n

\* So what is kept was there, at one of the places, and nothing there is left out.
LEMMA KeptElements ==
    ASSUME NEW S, NEW s \in Seq(S), NEW T
    PROVE  /\ Kept(s, T) \in Seq(S)
           /\ \A k \in 1 .. Len(Kept(s, T)) :
                  \E i \in T \cap (1 .. Len(s)) : Kept(s, T)[k] = s[i]
           /\ \A i \in T \cap (1 .. Len(s)) :
                  \E k \in 1 .. Len(Kept(s, T)) : Kept(s, T)[k] = s[i]
           /\ (Kept(s, T) = <<>>) <=> (T \cap (1 .. Len(s)) = {})
<1> DEFINE n == Len(s)
           P == Places(n, T)
           kept == Kept(s, T)
<1>1. n \in Nat
  BY LenProperties
<1>2. /\ P \in Seq(T \cap (1 .. n))
      /\ \A j \in T \cap (1 .. n) : \E k \in 1 .. Len(P) : P[k] = j
  <2>1. ListsInOrder(P, T \cap (1 .. n))
    BY <1>1, PlacesOrdered
  <2> HIDE DEF n, P
  <2> QED BY <2>1 DEF ListsInOrder
<1>3. /\ kept \in Seq(S) /\ Len(kept) = Len(P)
      /\ \A k \in 1 .. Len(kept) : kept[k] = s[P[k]]
  BY KeptAtPlaces
<1> HIDE DEF n, P, kept
<1>4. \A k \in 1 .. Len(P) : P[k] \in T \cap (1 .. n)
  BY <1>2, ElementOfSeq
<1>5. \A k \in 1 .. Len(kept) : \E i \in T \cap (1 .. n) : kept[k] = s[i]
  BY <1>3, <1>4
<1>7. ASSUME NEW i \in T \cap (1 .. n)
      PROVE  \E k \in 1 .. Len(kept) : kept[k] = s[i]
  <2>1. PICK k \in 1 .. Len(P) : P[k] = i
    BY <1>2, <1>7
  <2> QED BY <1>3, <2>1
<1>6. kept = <<>> <=> T \cap (1 .. n) = {}
  <2>1. kept = <<>> <=> Len(kept) = 0
    BY <1>3, EmptySeq
  <2>2. Len(kept) \in Nat
    BY <1>3, LenProperties
  <2> QED BY <1>5, <1>7, <2>1, <2>2
<1> QED BY <1>3, <1>5, <1>6, <1>7 DEF n, kept

----------
(* What is added up *)

\* The arithmetic of one more term.
LEMMA AddedUp ==
    ASSUME NEW a \in Int, NEW b \in Int, NEW c \in Int, NEW d \in Int
    PROVE  /\ a + c \in Int /\ b + d \in Int
           /\ a <= b /\ c <= d => a + c <= b + d
           /\ (1000 * a - b) + (1000 * c - d) = 1000 * (a + c) - (b + d)
OBVIOUS

\* Sums of whole numbers are whole, of natural numbers natural.
LEMMA TotalType ==
    ASSUME NEW v \in Seq(Int)
    PROVE  /\ Total(v) \in Int
           /\ (\A i \in 1 .. Len(v) : v[i] \in Nat) => Total(v) \in Nat
<1> DEFINE n == Len(v)
           f == SumUpTo(v)
           Good(i) == f[i] \in Int /\ ((\A j \in 1 .. n : v[j] \in Nat) => f[i] \in Nat)
           S == {i \in 0 .. n : Good(i)}
<1>1. n \in Nat /\ \A i \in 1 .. n : v[i] \in Int
  BY LenProperties, ElementOfSeq
<1>2. Total(v) = f[n] /\ f[0] = 0 /\ \A i \in 1 .. n : f[i] = f[i - 1] + v[i]
  BY <1>1, SumsDef
<1> HIDE DEF n, f
<1>3. \A i \in 0 .. n : i \in S
  <2>1. 0 \in S
    BY <1>1, <1>2
  <2>2. ASSUME NEW i \in 0 .. (n - 1), Good(i)
        PROVE  Good(i + 1)
    <3>1. i + 1 \in 1 .. n /\ (i + 1) - 1 = i /\ f[i + 1] = f[i] + v[i + 1]
      BY <1>1, <1>2
    <3> QED BY <1>1, <2>2, <3>1
  <2>3. \A i \in 0 .. (n - 1) : i \in S => i + 1 \in S
    BY <1>1, <2>2
  <2> HIDE DEF S
  <2> QED BY <1>1, <2>1, <2>3, Upwards
<1>4. Good(n)
  BY <1>1, <1>3
<1> QED BY <1>2, <1>4 DEF n

\* Terms in thousands, less others, add up to a thousand times the one sum, less the other.
LEMMA TotalLinear ==
    ASSUME NEW v \in Seq(Int), NEW w \in Seq(Int), NEW x \in Seq(Int),
           Len(w) = Len(v), Len(x) = Len(v)
    PROVE  (\A i \in 1 .. Len(v) : x[i] = 1000 * v[i] - w[i])
               => Total(x) = 1000 * Total(v) - Total(w)
<1> DEFINE n == Len(v)
           f == SumUpTo(v)
           g == SumUpTo(w)
           h == SumUpTo(x)
           Good(i) == f[i] \in Int /\ g[i] \in Int /\ h[i] = 1000 * f[i] - g[i]
           S == {i \in 0 .. n : Good(i)}
<1>7. SUFFICES ASSUME \A i \in 1 .. n : x[i] = 1000 * v[i] - w[i]
               PROVE  Total(x) = 1000 * Total(v) - Total(w)
  OBVIOUS
<1>1. /\ n \in Nat /\ Len(w) = n /\ Len(x) = n
      /\ \A i \in 1 .. n : v[i] \in Int /\ w[i] \in Int /\ x[i] = 1000 * v[i] - w[i]
  BY <1>7, LenProperties, ElementOfSeq
<1>0. Len(v) \in Nat
  BY LenProperties
<1>2. Total(v) = f[n] /\ f[0] = 0 /\ \A i \in 1 .. n : f[i] = f[i - 1] + v[i]
  BY <1>0, SumsDef
<1>5. Total(w) = g[n] /\ g[0] = 0 /\ \A i \in 1 .. n : g[i] = g[i - 1] + w[i]
  BY <1>1, SumsDef
<1>6. Total(x) = h[n] /\ h[0] = 0 /\ \A i \in 1 .. n : h[i] = h[i - 1] + x[i]
  BY <1>1, SumsDef
<1> HIDE DEF n, f, g, h
<1>3. \A i \in 0 .. n : i \in S
  <2>1. 0 \in S
    BY <1>1, <1>2, <1>5, <1>6
  <2>2. ASSUME NEW i \in 0 .. (n - 1), Good(i)
        PROVE  Good(i + 1)
    <3>1. i + 1 \in 1 .. n /\ (i + 1) - 1 = i
      BY <1>1
    <3> DEFINE fi == f[i]
               gi == g[i]
               hi == h[i]
               vi == v[i + 1]
               wi == w[i + 1]
    <3>2. f[i + 1] = fi + vi /\ vi \in Int
      BY <1>1, <1>2, <3>1
    <3>3. g[i + 1] = gi + wi /\ wi \in Int
      BY <1>1, <1>5, <3>1
    <3>4. h[i + 1] = hi + x[i + 1]
      BY <1>6, <3>1
    <3>5. x[i + 1] = 1000 * vi - wi
      BY <1>1, <3>1
    <3>6. fi \in Int /\ gi \in Int /\ hi = 1000 * fi - gi
      BY <2>2
    <3> HIDE DEF fi, gi, hi, vi, wi
    <3> QED BY <3>2, <3>3, <3>4, <3>5, <3>6
  <2>3. \A i \in 0 .. (n - 1) : i \in S => i + 1 \in S
    BY <1>1, <2>2
  <2> HIDE DEF S
  <2> QED BY <1>1, <2>1, <2>3, Upwards
<1>4. Good(n)
  BY <1>1, <1>3
<1> QED BY <1>2, <1>4, <1>5, <1>6 

\* Smaller terms, smaller sum.
LEMMA TotalMono ==
    ASSUME NEW v \in Seq(Int), NEW w \in Seq(Int), Len(w) = Len(v),
           \A i \in 1 .. Len(v) : v[i] <= w[i]
    PROVE  Total(v) <= Total(w)
<1> DEFINE n == Len(v)
           f == SumUpTo(v)
           g == SumUpTo(w)
           Good(i) == f[i] \in Int /\ g[i] \in Int /\ f[i] <= g[i]
           S == {i \in 0 .. n : Good(i)}
<1>1. /\ n \in Nat /\ Len(w) = n
      /\ \A i \in 1 .. n : v[i] \in Int /\ w[i] \in Int /\ v[i] <= w[i]
  BY LenProperties, ElementOfSeq
<1>2. /\ Total(v) = f[n] /\ f[0] = 0 /\ \A i \in 1 .. n : f[i] = f[i - 1] + v[i]
      /\ Total(w) = g[n] /\ g[0] = 0 /\ \A i \in 1 .. n : g[i] = g[i - 1] + w[i]
  BY <1>1, SumsDef
<1> HIDE DEF n, f, g
<1>3. \A i \in 0 .. n : i \in S
  <2>1. 0 \in S
    BY <1>1, <1>2
  <2>2. ASSUME NEW i \in 0 .. (n - 1), Good(i)
        PROVE  Good(i + 1)
    <3>1. i + 1 \in 1 .. n /\ (i + 1) - 1 = i
      BY <1>1
    <3>2. /\ f[i + 1] = f[i] + v[i + 1] /\ g[i + 1] = g[i] + w[i + 1]
          /\ v[i + 1] <= w[i + 1] /\ v[i + 1] \in Int /\ w[i + 1] \in Int
      BY <1>1, <1>2, <3>1
    <3> QED BY <2>2, <3>2, AddedUp
  <2>3. \A i \in 0 .. (n - 1) : i \in S => i + 1 \in S
    BY <1>1, <2>2
  <2> HIDE DEF S
  <2> QED BY <1>1, <2>1, <2>3, Upwards
<1>4. Good(n)
  BY <1>1, <1>3
<1> QED BY <1>2, <1>4

\* One term more.
LEMMA TotalAppend ==
    ASSUME NEW v \in Seq(Int), NEW e \in Int
    PROVE  Total(Append(v, e)) = Total(v) + e
<1> DEFINE n == Len(v)
           w == Append(v, e)
           f == SumUpTo(v)
           g == SumUpTo(w)
           S == {i \in 0 .. n : g[i] = f[i]}
<1>1. /\ n \in Nat /\ w \in Seq(Int) /\ Len(w) = n + 1 /\ w[n + 1] = e
      /\ \A i \in 1 .. n : w[i] = v[i]
  BY LenProperties, AppendProperties
<1>2. Total(v) = f[n] /\ f[0] = 0 /\ \A i \in 1 .. n : f[i] = f[i - 1] + v[i]
  BY <1>1, SumsDef
<1>3. Total(w) = g[n + 1] /\ g[0] = 0 /\ \A i \in 1 .. (n + 1) : g[i] = g[i - 1] + w[i]
  <2> HIDE DEF w
  <2> QED BY <1>1, SumsDef
<1> HIDE DEF n, f, g, w
<1>4. \A i \in 0 .. n : i \in S
  <2>1. 0 \in S
    BY <1>1, <1>2, <1>3
  <2>2. ASSUME NEW i \in 0 .. (n - 1), i \in S
        PROVE  i + 1 \in S
    <3>1. i + 1 \in 1 .. n /\ i + 1 \in 1 .. (n + 1) /\ (i + 1) - 1 = i
      BY <1>1
    <3> QED BY <1>1, <1>2, <1>3, <2>2, <3>1
  <2> HIDE DEF S
  <2> QED BY <1>1, <2>1, <2>2, Upwards
<1>5. g[n] = f[n] /\ n + 1 \in 1 .. (n + 1) /\ (n + 1) - 1 = n
  BY <1>1, <1>4
<1> QED BY <1>1, <1>2, <1>3, <1>5 DEF w

\* Nothing adds up to zero.
LEMMA TotalEmpty == Total(<<>>) = 0
<1>1. Len(<<>>) = 0
  OBVIOUS
<1> QED BY <1>1, SumsDef

\* The sum over the places kept is that of the terms there, nothing elsewhere.
At0(v, T) == [i \in 1 .. Len(v) |-> IF i \in T THEN v[i] ELSE 0]

\* Leaving a term out is adding zero for it.
LEMMA TotalKept ==
    ASSUME NEW v \in Seq(Int), NEW T
    PROVE  /\ At0(v, T) \in Seq(Int)
           /\ Kept(v, T) \in Seq(Int)
           /\ Total(Kept(v, T)) = Total(At0(v, T))
<1> DEFINE n == Len(v)
           w == At0(v, T)
           f == KeptUpTo(v, T)
           g == SumUpTo(w)
           Good(i) == f[i] \in Seq(Int) /\ Total(f[i]) = g[i]
           S == {i \in 0 .. n : Good(i)}
<1>1. n \in Nat /\ \A i \in 1 .. n : v[i] \in Int
  BY LenProperties, ElementOfSeq
<1>2. /\ w \in Seq(Int) /\ Len(w) = n
      /\ \A i \in 1 .. n : w[i] = IF i \in T THEN v[i] ELSE 0
  BY <1>1 DEF At0
<1>3. /\ Kept(v, T) = f[n] /\ f[0] = <<>>
      /\ \A i \in 1 .. n : f[i] = IF i \in T THEN Append(f[i - 1], v[i]) ELSE f[i - 1]
  BY <1>1, KeptDef
<1> HIDE DEF w
<1>4. Total(w) = g[n] /\ g[0] = 0 /\ \A i \in 1 .. n : g[i] = g[i - 1] + w[i]
  BY <1>1, <1>2, SumsDef
<1> HIDE DEF n, f, g
<1>5. Good(0)
  BY <1>3, <1>4, TotalEmpty
<1>6. ASSUME NEW i \in 0 .. (n - 1), Good(i)
      PROVE  Good(i + 1)
  <2>1. i + 1 \in 1 .. n /\ (i + 1) - 1 = i
    BY <1>1
  <2>2. v[i + 1] \in Int /\ g[i + 1] = g[i] + w[i + 1] /\ Total(f[i]) \in Int
    BY <1>1, <1>4, <1>6, <2>1, TotalType
  <2>3. CASE i + 1 \in T
    <3>1. f[i + 1] = Append(f[i], v[i + 1]) /\ w[i + 1] = v[i + 1]
      BY <1>2, <1>3, <2>1, <2>3
    <3> DEFINE e == f[i]
               x == v[i + 1]
    <3> HIDE DEF e, x
    <3>3. e \in Seq(Int) /\ x \in Int /\ f[i + 1] = Append(e, x)
      BY <1>6, <2>2, <3>1 DEF e, x
    <3>4. Append(e, x) \in Seq(Int) /\ Total(Append(e, x)) = Total(e) + x
      BY <3>3, TotalAppend, AppendProperties
    <3>2. f[i + 1] \in Seq(Int) /\ Total(f[i + 1]) = Total(f[i]) + v[i + 1]
      BY <3>3, <3>4 DEF e, x
    <3> QED BY <1>6, <2>2, <3>1, <3>2
  <2>4. CASE i + 1 \notin T
    <3>1. f[i + 1] = f[i] /\ w[i + 1] = 0
      BY <1>2, <1>3, <2>1, <2>4
    <3> QED BY <1>6, <2>2, <3>1
  <2> QED BY <2>3, <2>4
<1>7. \A i \in 0 .. n : i \in S
  <2> HIDE DEF Good
  <2>1. 0 \in S /\ \A i \in 0 .. (n - 1) : i \in S => i + 1 \in S
    BY <1>1, <1>5, <1>6
  <2> HIDE DEF S
  <2> QED BY <1>1, <2>1, Upwards
<1>8. Good(n)
  <2> HIDE DEF Good
  <2> QED BY <1>1, <1>7
<1> QED BY <1>2, <1>3, <1>4, <1>8 DEF w

\* One term changed.
LEMMA TotalChanged ==
    ASSUME NEW v \in Seq(Int), NEW w \in Seq(Int), Len(w) = Len(v),
           NEW q \in 1 .. Len(v),
           \A i \in 1 .. Len(v) : i # q => w[i] = v[i]
    PROVE  Total(w) = Total(v) + w[q] - v[q]
<1> DEFINE n == Len(v)
           f == SumUpTo(v)
           g == SumUpTo(w)
           Good(i) == f[i] \in Int /\ g[i] = f[i] + (IF i < q THEN 0 ELSE w[q] - v[q])
           S == {i \in 0 .. n : Good(i)}
<1>1. /\ n \in Nat /\ Len(w) = n /\ q \in 1 .. n
      /\ \A i \in 1 .. n : v[i] \in Int /\ w[i] \in Int
  BY LenProperties, ElementOfSeq
<1>2. /\ Total(v) = f[n] /\ f[0] = 0 /\ \A i \in 1 .. n : f[i] = f[i - 1] + v[i]
      /\ Total(w) = g[n] /\ g[0] = 0 /\ \A i \in 1 .. n : g[i] = g[i - 1] + w[i]
  BY <1>1, SumsDef
<1> HIDE DEF f, g
<1>3. Good(0)
  BY <1>1, <1>2
<1>4. ASSUME NEW i \in 0 .. (n - 1), Good(i)
      PROVE  Good(i + 1)
  <2>1. i + 1 \in 1 .. n /\ (i + 1) - 1 = i
    BY <1>1
  <2>2. /\ f[i + 1] = f[i] + v[i + 1] /\ g[i + 1] = g[i] + w[i + 1]
        /\ v[i + 1] \in Int /\ w[i + 1] \in Int
    BY <1>1, <1>2, <2>1
  <2>3. CASE i + 1 = q
    <3>1. f[i + 1] \in Int /\ g[i + 1] = f[i] + w[q]
      BY <1>1, <1>4, <2>2, <2>3
    <3> DEFINE a == f[i]
               x == v[q]
               y == w[q]
    <3>2. a \in Int /\ x \in Int /\ y \in Int /\ f[i + 1] = a + x /\ g[i + 1] = a + y
      BY <1>4, <2>2, <2>3, <3>1
    <3> HIDE DEF a, x, y
    <3>3. g[i + 1] = f[i + 1] + (y - x)
      BY <3>2
    <3>4. ~(i + 1 < q)
      BY <1>1, <2>3
    <3> QED BY <3>1, <3>3, <3>4 DEF x, y
  <2>4. CASE i + 1 # q
    <3>1. w[i + 1] = v[i + 1]
      BY <2>1, <2>4
    <3>2. (i + 1 < q) <=> (i < q)
      BY <1>1, <2>4
    <3> DEFINE a == f[i]
               b == g[i]
               x == v[i + 1]
               d == IF i < q THEN 0 ELSE w[q] - v[q]
    <3>3. a \in Int /\ x \in Int /\ d \in Int /\ b = a + d
          /\ f[i + 1] = a + x /\ g[i + 1] = b + x
      BY <1>1, <1>4, <2>2, <3>1
    <3>4. d = IF i + 1 < q THEN 0 ELSE w[q] - v[q]
      BY <3>2
    <3> HIDE DEF a, b, x, d
    <3>5. f[i + 1] \in Int /\ g[i + 1] = f[i + 1] + d
      BY <3>3
    <3> QED BY <3>4, <3>5
  <2> QED BY <2>3, <2>4
<1>5. \A i \in 0 .. n : i \in S
  <2> HIDE DEF Good
  <2>1. 0 \in S /\ \A i \in 0 .. (n - 1) : i \in S => i + 1 \in S
    BY <1>1, <1>3, <1>4
  <2> HIDE DEF S, n
  <2> QED BY <1>1, <2>1, Upwards
<1>6. Good(n)
  <2> HIDE DEF Good
  <2> QED BY <1>1, <1>5
<1> QED BY <1>1, <1>2, <1>6

----------
(* Selecting proofs *)

\* What a proof brings in thousandths, its fee taken off.
Gain(ks, p) == 1000 * p.amount - Ppk(ks, p)

\* What each proof of a list brings.
Gains(ks, ps) == [i \in 1 .. Len(ps) |-> Gain(ks, ps[i])]

\* Proofs of whole amounts that are worth their fee.
Payable(ks, P) ==
    \A p \in P : /\ p.amount \in Nat /\ Ppk(ks, p) \in Nat
                 /\ Ppk(ks, p) <= 1000 * p.amount

\* What each proof is worth less its fee is not negative where fees are bearable.
LEMMA GainsType ==
    ASSUME NEW ks, NEW P, NEW ps \in Seq(P), Payable(ks, P)
    PROVE  /\ Gains(ks, ps) \in Seq(Int) /\ Len(Gains(ks, ps)) = Len(ps)
           /\ \A i \in 1 .. Len(ps) : /\ Gains(ks, ps)[i] = Gain(ks, ps[i])
                                      /\ Gains(ks, ps)[i] \in Nat
<1>1. /\ Len(ps) \in Nat /\ DOMAIN ps = 1 .. Len(ps)
      /\ \A i \in 1 .. Len(ps) : ps[i] \in P
  BY LenProperties, ElementOfSeq
<1>2. \A p \in P : Gain(ks, p) \in Nat
  BY DEF Payable, Gain
<1>3. \A i \in 1 .. Len(ps) : Gain(ks, ps[i]) \in Int
  BY <1>1, <1>2
<1> QED BY <1>1, <1>2, <1>3 DEF Gains

\* The proofs cover the need and their fee if their gains do.
LEMMA CoversMeans ==
    ASSUME NEW ks, NEW P, NEW ps \in Seq(P), Payable(ks, P), NEW needed \in Int
    PROVE  Covers(ks, ps, needed)
               <=> ps # <<>> /\ Total(Gains(ks, ps)) >= 1000 * needed
<1> DEFINE A == [i \in DOMAIN ps |-> ps[i].amount]
           F == [i \in DOMAIN ps |-> Ppk(ks, ps[i])]
           x == Gains(ks, ps)
<1>1. /\ Len(ps) \in Nat /\ DOMAIN ps = 1 .. Len(ps)
      /\ \A i \in 1 .. Len(ps) : ps[i] \in P
  BY LenProperties, ElementOfSeq
<1>2. \A i \in 1 .. Len(ps) : ps[i].amount \in Nat /\ Ppk(ks, ps[i]) \in Nat
  BY <1>1 DEF Payable
<1>3. A \in Seq(Int) /\ Len(A) = Len(ps) /\ \A i \in 1 .. Len(ps) : A[i] = ps[i].amount
  BY <1>1, <1>2
<1>4. F \in Seq(Int) /\ Len(F) = Len(ps) /\ \A i \in 1 .. Len(ps) : F[i] = Ppk(ks, ps[i])
  BY <1>1, <1>2
<1>5. /\ x \in Seq(Int) /\ Len(x) = Len(ps)
      /\ \A i \in 1 .. Len(ps) : x[i] = 1000 * ps[i].amount - Ppk(ks, ps[i])
  BY GainsType DEF Gain
<1>6. SumOf(ps) = Total(A) /\ PpkOfAll(ks, ps) = Total(F)
  BY DEF SumOf, PpkOfAll
<1> HIDE DEF A, F, x
<1>7. \A i \in 1 .. Len(A) : x[i] = 1000 * A[i] - F[i]
  <2>1. SUFFICES ASSUME NEW i \in 1 .. Len(ps)
                 PROVE  x[i] = 1000 * A[i] - F[i]
    BY <1>3
  <2>2. A[i] = ps[i].amount
    BY <1>3
  <2>3. F[i] = Ppk(ks, ps[i])
    BY <1>4
  <2>4. x[i] = 1000 * ps[i].amount - Ppk(ks, ps[i])
    BY <1>5
  <2> QED BY <2>2, <2>3, <2>4
<1>8. Total(x) = 1000 * Total(A) - Total(F) /\ Total(A) \in Int /\ Total(F) \in Int
  BY <1>3, <1>4, <1>5, <1>7, TotalLinear, TotalType
<1>9. Total(A) >= needed + (Total(F) + 999) \div 1000
          <=> 1000 * Total(A) - Total(F) >= 1000 * needed
  BY <1>8
<1> QED BY <1>6, <1>8, <1>9 DEF Covers, Fee, x

\* The gains of what is kept are those at its places.
LEMMA GainsKept ==
    ASSUME NEW ks, NEW P, NEW ps \in Seq(P), Payable(ks, P), NEW T
    PROVE  /\ Kept(ps, T) \in Seq(P)
           /\ Gains(ks, Kept(ps, T)) = Kept(Gains(ks, ps), T)
           /\ Total(Gains(ks, Kept(ps, T))) = Total(At0(Gains(ks, ps), T))
<1> DEFINE g == Gains(ks, ps)
           r == Kept(ps, T)
           x == Kept(g, T)
           L == Places(Len(ps), T)
<1>1. Len(ps) \in Nat
  BY LenProperties
<1>2. g \in Seq(Int) /\ Len(g) = Len(ps) /\ \A i \in 1 .. Len(ps) : g[i] = Gain(ks, ps[i])
  BY GainsType
<1>3. r \in Seq(P) /\ Len(r) = Len(L) /\ \A k \in 1 .. Len(r) : r[k] = ps[L[k]]
  BY KeptAtPlaces
<1>4. x \in Seq(Int) /\ Len(x) = Len(L) /\ \A k \in 1 .. Len(x) : x[k] = g[L[k]]
  <2> HIDE DEF g
  <2> QED BY <1>2, KeptAtPlaces
<1>5. \A k \in 1 .. Len(L) : L[k] \in 1 .. Len(ps)
  <2>1. L \in Seq(T \cap (1 .. Len(ps)))
    BY <1>1, PlacesOrdered DEF ListsInOrder
  <2> QED BY <2>1, ElementOfSeq
<1> HIDE DEF g, r, x, L
<1>6. /\ Gains(ks, r) \in Seq(Int) /\ Len(Gains(ks, r)) = Len(r)
      /\ \A i \in 1 .. Len(r) : Gains(ks, r)[i] = Gain(ks, r[i])
  BY <1>3, GainsType
<1>7. \A k \in 1 .. Len(r) : Gains(ks, r)[k] = x[k]
  BY <1>2, <1>3, <1>4, <1>5, <1>6
<1>8. Gains(ks, r) = x
  BY <1>3, <1>4, <1>6, <1>7, SeqEqual
<1>9. Total(x) = Total(At0(g, T))
  BY <1>2, TotalKept DEF x
<1> QED BY <1>3, <1>8, <1>9 DEF r, x, g

\* More proofs that pay for themselves cover no less.
LEMMA CoversMore ==
    ASSUME NEW ks, NEW P, NEW ps \in Seq(P), Payable(ks, P), NEW needed \in Int,
           NEW S, NEW T, S \subseteq T, Covers(ks, Kept(ps, S), needed)
    PROVE  Covers(ks, Kept(ps, T), needed)
<1> DEFINE g == Gains(ks, ps)
           v == At0(g, S)
           w == At0(g, T)
<1>1. g \in Seq(Int) /\ Len(g) = Len(ps) /\ \A i \in 1 .. Len(ps) : g[i] \in Nat
  BY GainsType
<1>2. /\ Kept(ps, S) \in Seq(P) /\ Kept(ps, T) \in Seq(P)
      /\ Total(Gains(ks, Kept(ps, S))) = Total(v)
      /\ Total(Gains(ks, Kept(ps, T))) = Total(w)
  BY GainsKept
<1>3. Kept(ps, S) # <<>> /\ Total(v) >= 1000 * needed
  BY <1>2, CoversMeans
<1>4. Kept(ps, T) # <<>>
  BY <1>3, KeptElements
<1>5. v \in Seq(Int) /\ w \in Seq(Int)
  BY <1>1, TotalKept
<1>6. /\ Len(v) = Len(ps) /\ Len(w) = Len(ps) 
      /\ \A i \in 1 .. Len(ps) : v[i] = (IF i \in S THEN g[i] ELSE 0)
                                 /\ w[i] = (IF i \in T THEN g[i] ELSE 0)
  BY <1>1, LenProperties DEF At0
<1> HIDE DEF g, v, w
<1>7. \A i \in 1 .. Len(v) : v[i] <= w[i]
  BY <1>1, <1>6
<1>8. Total(v) <= Total(w) /\ Total(v) \in Int /\ Total(w) \in Int
  BY <1>5, <1>6, <1>7, TotalMono, TotalType
<1>9. Total(w) >= 1000 * needed
  BY <1>3, <1>8
<1> QED BY <1>2, <1>4, <1>9, CoversMeans

----------
\* Without the one at place q, the gains are less by its own, whether it is left
\* out of what was kept or not kept at all.
LEMMA CoversWithout ==
    ASSUME NEW ks, NEW P, NEW ps \in Seq(P), Payable(ks, P), NEW needed \in Int,
           NEW S, S \subseteq 1 .. Len(ps), NEW j \in S,
           ~Covers(ks, Kept(ps, S \ {j}), needed)
    PROVE  LET chosen == Kept(ps, S)
           IN \E q \in 1 .. Len(chosen) :
                 /\ chosen[q] = ps[j]
                 /\ ~Covers(ks, Kept(chosen, (1 .. Len(chosen)) \ {q}), needed)
<1> DEFINE chosen == Kept(ps, S)
           L == Places(Len(ps), S)
           D == 1 .. Len(chosen)
           g == Gains(ks, ps)
           c == Gains(ks, chosen)
<1>1. Len(ps) \in Nat /\ S \cap (1 .. Len(ps)) = S
  BY LenProperties
<1>2. /\ chosen \in Seq(P) /\ Len(chosen) = Len(L)
      /\ \A k \in 1 .. Len(chosen) : chosen[k] = ps[L[k]]
  BY KeptAtPlaces
<1>3. /\ L \in Seq(S)
      /\ \A k, m \in 1 .. Len(L) : k < m => L[k] < L[m]
      /\ \A i \in S : \E k \in 1 .. Len(L) : L[k] = i
  <2>1. ListsInOrder(L, S)
    BY <1>1, PlacesOrdered
  <2> HIDE DEF L
  <2> QED BY <2>1 DEF ListsInOrder
<1>4. \A k \in 1 .. Len(L) : L[k] \in S /\ L[k] \in 1 .. Len(ps)
  BY <1>3, ElementOfSeq
<1> HIDE DEF L
<1>5. PICK q \in 1 .. Len(L) : L[q] = j
  BY <1>3
<1>6. q \in D /\ chosen[q] = ps[j] /\ Len(chosen) \in Nat
  BY <1>2, <1>5, LenProperties
<1>7. /\ g \in Seq(Int) /\ Len(g) = Len(ps)
      /\ \A i \in 1 .. Len(ps) : g[i] = Gain(ks, ps[i]) /\ g[i] \in Nat
  BY GainsType
<1>8. /\ c \in Seq(Int) /\ Len(c) = Len(chosen)
      /\ \A i \in D : c[i] = Gain(ks, chosen[i]) /\ c[i] \in Nat
  BY <1>2, GainsType
<1>9. c[q] = g[j] /\ j \in 1 .. Len(ps)
  BY <1>6, <1>7, <1>8
<1>10. Total(c) = Total(At0(g, S)) /\ Total(c) \in Int
  BY <1>8, GainsKept, TotalType
<1> DEFINE u == At0(g, S)
           v == At0(g, S \ {j})
           w == At0(c, D \ {q})
<1>11. u \in Seq(Int) /\ v \in Seq(Int) /\ w \in Seq(Int)
  BY <1>7, <1>8, TotalKept
<1>12. /\ Len(u) = Len(ps) /\ Len(v) = Len(ps)
       /\ \A i \in 1 .. Len(ps) : /\ u[i] = IF i \in S THEN g[i] ELSE 0
                                  /\ v[i] = IF i \in S \ {j} THEN g[i] ELSE 0
  BY <1>1, <1>7 DEF At0
<1>13. Len(w) = Len(chosen) /\ \A i \in D : w[i] = IF i \in D \ {q} THEN c[i] ELSE 0
  BY <1>6, <1>8 DEF At0
<1> HIDE DEF u, v, w, c, g
<1>14. Total(v) = Total(u) + v[j] - u[j]
  <2>1. \A i \in 1 .. Len(u) : i # j => v[i] = u[i]
    BY <1>12
  <2> QED BY <1>9, <1>11, <1>12, <2>1, TotalChanged
<1>15. Total(w) = Total(c) + w[q] - c[q]
  <2>1. \A i \in 1 .. Len(c) : i # q => w[i] = c[i]
    BY <1>8, <1>13
  <2> QED BY <1>6, <1>8, <1>11, <1>13, <2>1, TotalChanged
<1>16. v[j] = 0 /\ u[j] = g[j] /\ w[q] = 0
  BY <1>6, <1>9, <1>12, <1>13
<1>17. Total(v) = Total(w)
  BY <1>9, <1>10, <1>14, <1>15, <1>16 DEF u
<1> DEFINE less == Kept(chosen, D \ {q})
           fewer == Kept(ps, S \ {j})
<1>18. /\ less \in Seq(P) /\ Total(Gains(ks, less)) = Total(w)
  BY <1>2, GainsKept DEF w, c
<1>19. /\ fewer \in Seq(P) /\ Total(Gains(ks, fewer)) = Total(v)
  BY GainsKept DEF v, g
<1>20. less # <<>> => fewer # <<>>
  <2>1. SUFFICES ASSUME less # <<>> PROVE fewer # <<>>
    OBVIOUS
  <2>2. (D \ {q}) \cap (1 .. Len(chosen)) # {}
    BY <1>2, <2>1, KeptElements
  <2>3. PICK r \in D : r # q
    BY <2>2
  <2>4. L[r] # L[q]
    <3>1. r < q \/ q < r
      BY <1>6, <2>3
    <3>2. L[r] < L[q] \/ L[q] < L[r]
      BY <1>2, <1>3, <1>6, <2>3, <3>1
    <3> QED BY <1>2, <1>4, <1>6, <2>3, <3>2
  <2>5. L[r] \in (S \ {j}) \cap (1 .. Len(ps))
    BY <1>2, <1>4, <1>5, <2>3, <2>4
  <2>6. (S \ {j}) \cap (1 .. Len(ps)) # {}
    BY <2>5
  <2> QED BY <2>6, KeptElements
<1>21. ~Covers(ks, less, needed)
  <2> HIDE DEF less, fewer
  <2>1. Covers(ks, less, needed) => Covers(ks, fewer, needed)
    BY <1>17, <1>18, <1>19, <1>20, CoversMeans
  <2> QED BY <2>1 DEF fewer
<1> QED BY <1>6, <1>21

----------
\* The proofs at the positions in S cover the need and their fee.
Enough(ks, mine, needed, S) == Covers(ks, Kept(mine, S), needed)

\* One proof more in each set that is not enough.
GrownOnce(ks, mine, needed, G) ==
    UNION {{S \cup {i} : i \in Largest(mine, (DOMAIN mine) \ S)} :
              S \in {T \in G : ~Enough(ks, mine, needed, T)}}

\* The sets of positions that select_proofs can have reached, turn by turn.
IsGrown(f, n, ks, mine, needed) ==
    f = [k \in 0 .. n |-> IF k = 0 THEN {{}} ELSE GrownOnce(ks, mine, needed, f[k - 1])]

\* Those sets for a whole list of proofs.
Grown(ks, mine, needed) == CHOOSE f : IsGrown(f, Len(mine), ks, mine, needed)

\* There is a function of what select_proofs may have selected after each turn.
LEMMA GrownExists ==
    ASSUME NEW ks, NEW mine, NEW needed, NEW n \in Nat
    PROVE  \E f : IsGrown(f, n, ks, mine, needed)
<1> DEFINE Step(G) == GrownOnce(ks, mine, needed, G)
           base == {{}}
           Has(m) == \E f : IsGrown(f, m, ks, mine, needed)
           S == {m \in 0 .. n : Has(m)}
<1>1. ASSUME NEW f, NEW m
      PROVE  IsGrown(f, m, ks, mine, needed)
               <=> f = [k \in 0 .. m |-> IF k = 0 THEN base ELSE Step(f[k - 1])]
  BY DEF IsGrown
<1> HIDE DEF Step, base
<1>2. Has(0)
  <2> DEFINE f == [k \in 0 .. 0 |-> base]
  <2>1. f = [k \in 0 .. 0 |-> IF k = 0 THEN base ELSE Step(f[k - 1])]
    OBVIOUS
  <2> HIDE DEF f
  <2> QED BY <1>1, <2>1
<1>3. ASSUME NEW m \in 0 .. (n - 1), Has(m)
      PROVE  Has(m + 1)
  <2>1. PICK f : f = [k \in 0 .. m |-> IF k = 0 THEN base ELSE Step(f[k - 1])]
    BY <1>1, <1>3
  <2> DEFINE g == [k \in 0 .. (m + 1) |-> IF k = m + 1 THEN Step(f[m]) ELSE f[k]]
  <2>2. g = [k \in 0 .. (m + 1) |-> IF k = 0 THEN base ELSE Step(g[k - 1])]
    BY <2>1
  <2> HIDE DEF g
  <2> QED BY <1>1, <2>2
<1> HIDE DEF Has
<1>4. \A m \in 0 .. n : m \in S
  <2>1. 0 \in S
    BY <1>2
  <2>2. \A m \in 0 .. (n - 1) : m \in S => m + 1 \in S
    BY <1>3
  <2> HIDE DEF S
  <2> QED BY <2>1, <2>2, Upwards
<1>5. Has(n)
  BY <1>4
<1> QED BY <1>5 DEF Has

\* select_proofs ends where the selection covers the need, or has taken everything.
LEMMA SelectDef ==
    ASSUME NEW ks, NEW ps, NEW needed, NEW unit,
           Len(OfUnit(ks, ps, unit)) \in Nat
    PROVE  LET mine == OfUnit(ks, ps, unit)
               n    == Len(mine)
               f    == Grown(ks, mine, needed)
           IN /\ SelectProofs(ks, ps, needed, unit) =
                   {Kept(mine, S) : S \in {T \in UNION {f[k] : k \in 0 .. n} :
                                              Enough(ks, mine, needed, T)}}
                     \cup {None : S \in {T \in f[n] : ~Enough(ks, mine, needed, T)}}
              /\ f[0] = {{}}
              /\ \A k \in 1 .. n : f[k] = GrownOnce(ks, mine, needed, f[k - 1])
<1> DEFINE mine == OfUnit(ks, ps, unit)
           n == Len(mine)
           f == Grown(ks, mine, needed)
           Step(G) == GrownOnce(ks, mine, needed, G)
<1>1. IsGrown(f, n, ks, mine, needed)
  <2> HIDE DEF mine
  <2> QED BY GrownExists DEF Grown
<1>2. SelectProofs(ks, ps, needed, unit) =
          {Kept(mine, S) : S \in {T \in UNION {f[k] : k \in 0 .. n} :
                                     Enough(ks, mine, needed, T)}}
            \cup {None : S \in {T \in f[n] : ~Enough(ks, mine, needed, T)}}
  BY DEF SelectProofs, Grown, IsGrown, GrownOnce, Enough
<1> HIDE DEF f, mine
<1>3. f = [k \in 0 .. n |-> IF k = 0 THEN {{}} ELSE Step(f[k - 1])]
  BY <1>1 DEF IsGrown
<1>4. f[0] = {{}} /\ \A k \in 1 .. n : f[k] = Step(f[k - 1])
  <2> HIDE DEF Step, n
  <2>1. n \in Nat
    BY DEF n, mine
  <2> QED BY <1>3, <2>1
<1> QED BY <1>2, <1>4 DEF mine, f

\* What is grown in k rounds has k proofs, none smaller than one left out, and
\* without a smallest one it was not enough.
GrownWell(ks, mine, needed, S, k) ==
    /\ S \subseteq 1 .. Len(mine) /\ IsFiniteSet(S) /\ Cardinality(S) = k
    /\ \A i \in S, j \in (1 .. Len(mine)) \ S : mine[i].amount >= mine[j].amount
    /\ k > 0 => \E i \in S : /\ \A j \in S : mine[i].amount <= mine[j].amount
                             /\ ~Enough(ks, mine, needed, S \ {i})

\* After k turns the selection is k of the largest proofs, and without the last one too few.
LEMMA GrowsWell ==
    ASSUME NEW ks, NEW P, NEW mine \in Seq(P), Payable(ks, P), NEW needed,
           NEW n, n = Len(mine), NEW f, f[0] = {{}},
           \A k \in 1 .. n : f[k] = GrownOnce(ks, mine, needed, f[k - 1])
    PROVE  \A k \in 0 .. n : \A S \in f[k] : GrownWell(ks, mine, needed, S, k)
<1> DEFINE Good(k) == \A S \in f[k] : GrownWell(ks, mine, needed, S, k)
           R == {k \in 0 .. n : Good(k)}
<1>1. n \in Nat /\ DOMAIN mine = 1 .. n /\ \A i \in 1 .. n : mine[i].amount \in Nat
  BY LenProperties, ElementOfSeq DEF Payable
<1>2. Good(0)
  <2>1. IsFiniteSet({}) /\ Cardinality({}) = 0
    BY FS_EmptySet
  <2>2. GrownWell(ks, mine, needed, {}, 0)
    BY <2>1 DEF GrownWell
  <2>3. \A S \in f[0] : S = {}
    OBVIOUS
  <2> QED BY <2>2, <2>3
<1>3. ASSUME NEW k \in 0 .. (n - 1), Good(k)
      PROVE  Good(k + 1)
  <2>1. f[k + 1] = GrownOnce(ks, mine, needed, f[k])
    <3>1. k + 1 \in 1 .. n /\ (k + 1) - 1 = k
      BY <1>1
    <3> QED BY <3>1
  <2>2. SUFFICES ASSUME NEW U \in f[k + 1]
                 PROVE  GrownWell(ks, mine, needed, U, k + 1)
    OBVIOUS
  <2>3. PICK S \in f[k] : /\ ~Enough(ks, mine, needed, S)
                          /\ \E i \in Largest(mine, (1 .. n) \ S) : U = S \cup {i}
    <3> DEFINE OneMore(S) == {S \cup {i} : i \in Largest(mine, (DOMAIN mine) \ S)}
    <3>0. f[k + 1] = UNION {OneMore(S) : S \in {T \in f[k] : ~Enough(ks, mine, needed, T)}}
      BY <2>1 DEF GrownOnce
    <3> HIDE DEF OneMore
    <3>1. U \in UNION {OneMore(S) : S \in {T \in f[k] : ~Enough(ks, mine, needed, T)}}
      BY <2>2, <3>0
    <3>2. PICK S \in {T \in f[k] : ~Enough(ks, mine, needed, T)} : U \in OneMore(S)
      BY <3>1
    <3>3. \E i \in Largest(mine, (1 .. n) \ S) : U = S \cup {i}
      BY <1>1, <3>2 DEF OneMore
    <3> QED BY <3>2, <3>3
  <2>4. PICK i \in Largest(mine, (1 .. n) \ S) : U = S \cup {i}
    BY <2>3
  <2>5. /\ i \in (1 .. n) \ S
        /\ \A j \in (1 .. n) \ S : mine[i].amount >= mine[j].amount
    BY DEF Largest
  <2>6. /\ S \subseteq 1 .. n /\ IsFiniteSet(S) /\ Cardinality(S) = k
        /\ \A a \in S, b \in (1 .. n) \ S : mine[a].amount >= mine[b].amount
    BY <1>3, <2>3 DEF GrownWell
  <2>7. U \subseteq 1 .. n /\ IsFiniteSet(U) /\ Cardinality(U) = k + 1
    BY <2>4, <2>5, <2>6, FS_AddElement
  <2>8. \A a \in U, b \in (1 .. n) \ U : mine[a].amount >= mine[b].amount
    BY <2>4, <2>5, <2>6
  <2>9. /\ i \in U /\ ~Enough(ks, mine, needed, U \ {i})
    <3>1. U \ {i} = S
      BY <2>4, <2>5
    <3> QED BY <2>3, <2>4, <3>1
  <2>10. \A j \in U : mine[i].amount <= mine[j].amount
    BY <1>1, <2>4, <2>5, <2>6
  <2> QED BY <2>7, <2>8, <2>9, <2>10 DEF GrownWell
<1>4. \A k \in 0 .. n : k \in R
  <2> HIDE DEF Good
  <2>1. 0 \in R /\ \A k \in 0 .. (n - 1) : k \in R => k + 1 \in R
    BY <1>1, <1>2, <1>3
  <2> HIDE DEF R
  <2> QED BY <1>1, <2>1, Upwards
<1> QED BY <1>4

\* select_proofs keeps its promise for every list of proofs worth their fees.
LEMMA SelectsRight ==
    ASSUME NEW ks, NEW P, NEW ps \in Seq(P), Payable(ks, P), None \notin Seq(P),
           NEW needed \in Int, NEW unit, NEW chosen \in SelectProofs(ks, ps, needed, unit)
    PROVE  SelectionRight(ks, ps, needed, unit, chosen)
<1> DEFINE mine == OfUnit(ks, ps, unit)
           n == Len(mine)
           f == Grown(ks, mine, needed)
           T == {i \in DOMAIN ps : UnitOf(ks, ps[i]) = unit}
<1>1. mine = Kept(ps, T)
  BY DEF OfUnit
<1>2. /\ mine \in Seq(P) /\ n \in Nat /\ DOMAIN mine = 1 .. n
      /\ \A i \in 1 .. n : mine[i] \in P
  <2> HIDE DEF T, mine
  <2>1. mine \in Seq(P)
    BY <1>1, KeptElements
  <2> QED BY <2>1, LenProperties, ElementOfSeq
<1>3. \A i \in 1 .. n : UnitOf(ks, mine[i]) = unit
  <2> HIDE DEF mine
  <2>1. \A k \in 1 .. n : \E i \in T \cap (1 .. Len(ps)) : mine[k] = ps[i]
    <3> HIDE DEF T
    <3>1. \A k \in 1 .. Len(Kept(ps, T)) : \E i \in T \cap (1 .. Len(ps)) : Kept(ps, T)[k] = ps[i]
      BY KeptElements
    <3> QED BY <1>1, <3>1
  <2> QED BY <2>1
<1>4. /\ SelectProofs(ks, ps, needed, unit) =
            {Kept(mine, S) : S \in {U \in UNION {f[k] : k \in 0 .. n} :
                                       Enough(ks, mine, needed, U)}}
              \cup {None : S \in {U \in f[n] : ~Enough(ks, mine, needed, U)}}
      /\ f[0] = {{}}
      /\ \A k \in 1 .. n : f[k] = GrownOnce(ks, mine, needed, f[k - 1])
  BY <1>2, SelectDef
<1> HIDE DEF mine, f
<1>5. \A k \in 0 .. n : \A S \in f[k] : GrownWell(ks, mine, needed, S, k)
  BY <1>2, <1>4, GrowsWell
<1>6. CASE chosen = None
  <2>1. \A S : Kept(mine, S) \in Seq(P)
    BY <1>2, KeptElements
  <2>2. PICK S \in f[n] : ~Enough(ks, mine, needed, S)
    BY <1>4, <1>6, <2>1
  <2>3. S \subseteq 1 .. n /\ Cardinality(S) = n
    BY <1>2, <1>5, <2>2 DEF GrownWell
  <2>4. S = 1 .. n
    <3>1. n \in Nat
      BY <1>2
    <3>2. IsFiniteSet(1 .. n) /\ Cardinality(1 .. n) = n
      <4> HIDE DEF n
      <4>1. IsFiniteSet(1 .. n) /\ Cardinality(1 .. n) = IF 1 > n THEN 0 ELSE n - 1 + 1
        BY <3>1, FS_Interval
      <4> QED BY <3>1, <4>1
    <3> QED BY <2>3, <3>2, FS_Subset
  <2>5. \A U \in SUBSET DOMAIN mine : ~Covers(ks, Kept(mine, U), needed)
    BY <1>2, <2>2, <2>4, CoversMore DEF Enough
  <2> QED BY <1>6, <2>5 DEF SelectionRight, mine
<1>7. CASE chosen # None
  <2>0. PICK k \in 0 .. n : \E S \in f[k] : chosen = Kept(mine, S) /\ Enough(ks, mine, needed, S)
    BY <1>4, <1>7
  <2>1. PICK S \in f[k] : chosen = Kept(mine, S) /\ Enough(ks, mine, needed, S)
    BY <2>0
  <2>2. GrownWell(ks, mine, needed, S, k) /\ Covers(ks, chosen, needed)
    BY <1>5, <2>1 DEF Enough
  <2>3. S \cap (1 .. n) # {}
    <3>1. chosen # <<>>
      BY <2>2 DEF Covers
    <3> QED BY <1>2, <2>1, <3>1, KeptElements
  <2>4. k > 0
    <3>1. CASE k = 0
      BY <2>2, <2>3, <3>1, FS_EmptySet DEF GrownWell
    <3> QED BY <1>2, <3>1
  <2>5. PICK j \in S : /\ \A i \in S : mine[j].amount <= mine[i].amount
                       /\ ~Enough(ks, mine, needed, S \ {j})
    BY <2>2, <2>4 DEF GrownWell
  <2>6. S \subseteq 1 .. n
    BY <2>2 DEF GrownWell
  <2>7. PICK q \in 1 .. Len(chosen) :
             /\ chosen[q] = mine[j]
             /\ ~Covers(ks, Kept(chosen, (1 .. Len(chosen)) \ {q}), needed)
    BY <1>2, <2>1, <2>5, <2>6, CoversWithout DEF Enough
  <2>8. /\ chosen \in Seq(P) /\ DOMAIN chosen = 1 .. Len(chosen)
        /\ \A i \in 1 .. Len(chosen) : \E a \in S \cap (1 .. n) : chosen[i] = mine[a]
    <3>1. Kept(mine, S) \in Seq(P)
          /\ \A i \in 1 .. Len(Kept(mine, S)) :
                 \E a \in S \cap (1 .. n) : Kept(mine, S)[i] = mine[a]
      BY <1>2, KeptElements
    <3> QED BY <2>1, <3>1, LenProperties
  <2>9. \A i \in DOMAIN chosen : chosen[q].amount <= chosen[i].amount
    BY <2>5, <2>7, <2>8
  <2>10. \A p \in Range(chosen) : UnitOf(ks, p) = unit
    BY <1>3, <2>8 DEF Range
  <2> QED BY <1>7, <2>2, <2>7, <2>8, <2>9, <2>10 DEF SelectionRight
<1> QED BY <1>6, <1>7

----------
(* One list after the other *)

\* The lists that Joined builds on its way.
IsFlatUpTo(f, n, seqs) ==
    f = [i \in 0 .. n |-> IF i = 0 THEN <<>> ELSE f[i - 1] \o seqs[i]]

\* Those lists, as a function of how many have been joined.
FlatUpTo(seqs) == CHOOSE f : IsFlatUpTo(f, Len(seqs), seqs)

\* The first i lists joined.
Flat(seqs, i) == FlatUpTo(seqs)[i]

\* There is a function of the lists joined so far.
LEMMA FlatExists ==
    ASSUME NEW seqs, NEW n \in Nat
    PROVE  \E f : IsFlatUpTo(f, n, seqs)
<1> DEFINE Step(e, i) == e \o seqs[i]
           Has(m) == \E f : IsFlatUpTo(f, m, seqs)
           S == {m \in 0 .. n : Has(m)}
<1>1. ASSUME NEW f, NEW m
      PROVE  IsFlatUpTo(f, m, seqs)
               <=> f = [i \in 0 .. m |-> IF i = 0 THEN <<>> ELSE Step(f[i - 1], i)]
  BY DEF IsFlatUpTo
<1> HIDE DEF Step
<1>2. Has(0)
  <2> DEFINE f == [i \in 0 .. 0 |-> <<>>]
  <2>1. f = [i \in 0 .. 0 |-> IF i = 0 THEN <<>> ELSE Step(f[i - 1], i)]
    OBVIOUS
  <2> HIDE DEF f
  <2> QED BY <1>1, <2>1
<1>3. ASSUME NEW m \in 0 .. (n - 1), Has(m)
      PROVE  Has(m + 1)
  <2>1. PICK f : f = [i \in 0 .. m |-> IF i = 0 THEN <<>> ELSE Step(f[i - 1], i)]
    BY <1>1, <1>3
  <2> DEFINE g == [i \in 0 .. (m + 1) |-> IF i = m + 1 THEN Step(f[m], m + 1) ELSE f[i]]
  <2>2. g = [i \in 0 .. (m + 1) |-> IF i = 0 THEN <<>> ELSE Step(g[i - 1], i)]
    BY <2>1
  <2> HIDE DEF g
  <2> QED BY <1>1, <2>2
<1> HIDE DEF Has
<1>4. \A m \in 0 .. n : m \in S
  <2>1. 0 \in S
    BY <1>2
  <2>2. \A m \in 0 .. (n - 1) : m \in S => m + 1 \in S
    BY <1>3
  <2> HIDE DEF S
  <2> QED BY <2>1, <2>2, Upwards
<1>5. Has(n)
  BY <1>4
<1> QED BY <1>5 DEF Has

\* Lists are joined one after another.
LEMMA FlatDef ==
    ASSUME NEW S, NEW seqs \in Seq(Seq(S))
    PROVE  /\ Joined(seqs) = Flat(seqs, Len(seqs))
           /\ Flat(seqs, 0) = <<>>
           /\ \A i \in 0 .. Len(seqs) : Flat(seqs, i) \in Seq(S)
           /\ \A i \in 0 .. (Len(seqs) - 1) :
                  Flat(seqs, i + 1) = Flat(seqs, i) \o seqs[i + 1]
<1> DEFINE n == Len(seqs)
           f == FlatUpTo(seqs)
           Step(e, i) == e \o seqs[i]
           R == {i \in 0 .. n : f[i] \in Seq(S)}
<1>1. n \in Nat /\ \A i \in 1 .. n : seqs[i] \in Seq(S)
  BY LenProperties, ElementOfSeq
<1>2. IsFlatUpTo(f, n, seqs)
  <2> HIDE DEF n
  <2>1. \E g : IsFlatUpTo(g, n, seqs)
    BY <1>1, FlatExists
  <2> QED BY <2>1 DEF FlatUpTo, n
<1>3. Joined(seqs) = f[n]
  BY DEF Joined, FlatUpTo, IsFlatUpTo
<1> HIDE DEF f, n
<1>4. f = [i \in 0 .. n |-> IF i = 0 THEN <<>> ELSE Step(f[i - 1], i)]
  BY <1>2 DEF IsFlatUpTo
<1> HIDE DEF Step
<1>5. f[0] = <<>> /\ \A i \in 1 .. n : f[i] = Step(f[i - 1], i)
  BY <1>1, <1>4
<1>6. ASSUME NEW i \in 0 .. (n - 1)
      PROVE  f[i + 1] = f[i] \o seqs[i + 1]
  <2>1. i + 1 \in 1 .. n /\ (i + 1) - 1 = i
    BY <1>1
  <2> QED BY <1>5, <2>1 DEF Step
<1>7. 0 \in R
  <2>1. f[0] = <<>> /\ 0 \in 0 .. n
    BY <1>1, <1>5
  <2>2. <<>> \in Seq(S)
    OBVIOUS
  <2> QED BY <2>1, <2>2
<1>8. ASSUME NEW i \in 0 .. (n - 1), i \in R
      PROVE  i + 1 \in R
  <2>1. i + 1 \in 0 .. n /\ f[i] \in Seq(S) /\ seqs[i + 1] \in Seq(S)
    BY <1>1, <1>8
  <2>2. f[i] \o seqs[i + 1] \in Seq(S)
    BY <2>1, ConcatProperties
  <2> QED BY <1>6, <2>1, <2>2
<1> HIDE DEF R
<1>9. \A i \in 0 .. n : i \in R
  BY <1>1, <1>7, <1>8, Upwards
<1> QED BY <1>3, <1>5, <1>6, <1>9 DEF Flat, R, n, f

\* Where the i-th list stands in the whole.
LEMMA FlatAt ==
    ASSUME NEW S, NEW seqs \in Seq(Seq(S)), NEW i \in 0 .. (Len(seqs) - 1)
    PROVE  /\ Joined(seqs) \in Seq(S)
           /\ Len(Flat(seqs, i)) \in Nat
           /\ Len(Flat(seqs, i + 1)) = Len(Flat(seqs, i)) + Len(seqs[i + 1])
           /\ Len(Flat(seqs, i + 1)) <= Len(Joined(seqs))
           /\ \A j \in 1 .. Len(seqs[i + 1]) :
                  Joined(seqs)[Len(Flat(seqs, i)) + j] = seqs[i + 1][j]
<1> DEFINE n == Len(seqs)
           F(m) == Flat(seqs, m)
           x == seqs[i + 1]
           at == Len(F(i))
           Good(m) == m > i => /\ Len(F(i + 1)) <= Len(F(m))
                               /\ \A j \in 1 .. Len(x) : F(m)[at + j] = x[j]
           R == {m \in 0 .. n : Good(m)}
<1>1. n \in Nat /\ x \in Seq(S) /\ Len(x) \in Nat /\ \A m \in 1 .. n : seqs[m] \in Seq(S)
  BY LenProperties, ElementOfSeq
<1>2. /\ Joined(seqs) = F(n)
      /\ \A m \in 0 .. n : F(m) \in Seq(S)
      /\ \A m \in 0 .. (n - 1) : F(m + 1) = F(m) \o seqs[m + 1]
  BY FlatDef
<1> HIDE DEF F, n
<1>3. \A m \in 0 .. n : Len(F(m)) \in Nat
  BY <1>2, LenProperties
<1>4. i \in 0 .. (n - 1) /\ i \in 0 .. n /\ i + 1 \in 0 .. n
  BY <1>1 DEF n
<1>5. F(i + 1) = F(i) \o x /\ F(i) \in Seq(S) /\ at \in Nat
  BY <1>2, <1>3, <1>4
<1> HIDE DEF x, at
<1>6. Len(F(i + 1)) = at + Len(x) /\ \A j \in 1 .. Len(x) : F(i + 1)[at + j] = x[j]
  <2>1. F(i) \o x \in Seq(S) /\ Len(F(i) \o x) = at + Len(x)
        /\ \A j \in 1 .. (at + Len(x)) :
               (F(i) \o x)[j] = IF j <= at THEN F(i)[j] ELSE x[j - at]
    BY <1>1, <1>5, ConcatProperties DEF at
  <2>2. \A j \in 1 .. Len(x) : at + j \in 1 .. (at + Len(x)) /\ ~(at + j <= at)
                               /\ (at + j) - at = j
    BY <1>1, <1>5
  <2> QED BY <1>5, <2>1, <2>2
<1>7. ASSUME NEW m \in 0 .. (n - 1), Good(m)
      PROVE  Good(m + 1)
  <2>1. m + 1 \in 1 .. n /\ m \in 0 .. n /\ m + 1 \in 0 .. n /\ seqs[m + 1] \in Seq(S)
    BY <1>1
  <2>2. CASE m < i
    BY <1>4, <2>2
  <2>3. CASE m = i
    BY <1>3, <1>4, <1>6, <2>3
  <2>4. CASE m > i
    <3>1. F(m + 1) = F(m) \o seqs[m + 1] /\ F(m) \in Seq(S)
          /\ Len(F(m)) \in Nat /\ Len(seqs[m + 1]) \in Nat
      BY <1>2, <1>3, <2>1, LenProperties
    <3>2. /\ Len(F(m) \o seqs[m + 1]) = Len(F(m)) + Len(seqs[m + 1])
          /\ \A j \in 1 .. (Len(F(m)) + Len(seqs[m + 1])) :
                 (F(m) \o seqs[m + 1])[j] =
                     IF j <= Len(F(m)) THEN F(m)[j] ELSE seqs[m + 1][j - Len(F(m))]
      BY <2>1, <3>1, ConcatProperties
    <3>3. at + Len(x) <= Len(F(m)) /\ Len(F(i + 1)) <= Len(F(m))
          /\ \A j \in 1 .. Len(x) : F(m)[at + j] = x[j]
      BY <1>6, <1>7, <2>4
    <3>4. Len(F(m)) <= Len(F(m + 1)) /\ Len(F(i + 1)) <= Len(F(m + 1))
      <4> DEFINE a == Len(F(i + 1))
                 b == Len(F(m))
                 c == Len(F(m + 1))
                 d == Len(seqs[m + 1])
      <4>1. a \in Nat /\ b \in Nat /\ d \in Nat /\ c = b + d /\ a <= b
        BY <1>3, <1>4, <3>1, <3>2, <3>3
      <4> HIDE DEF a, b, c, d
      <4>2. b <= c /\ a <= c
        BY <4>1
      <4> QED BY <4>2 DEF a, b, c
    <3>5. ASSUME NEW j \in 1 .. Len(x)
          PROVE  F(m + 1)[at + j] = x[j]
      <4> DEFINE lx == Len(x)
                 lm == Len(F(m))
                 ls == Len(seqs[m + 1])
      <4>3. lx \in Nat /\ lm \in Nat /\ ls \in Nat /\ at \in Nat
        BY <1>1, <1>5, <3>1
      <4>4. at + lx <= lm /\ j \in 1 .. lx
        BY <3>3
      <4> HIDE DEF lx, lm, ls
      <4>5. at + j \in 1 .. (lm + ls) /\ at + j <= lm
        BY <4>3, <4>4
      <4>1. at + j \in 1 .. (Len(F(m)) + Len(seqs[m + 1])) /\ at + j <= Len(F(m))
        BY <4>5 DEF lm, ls
      <4>2. (F(m) \o seqs[m + 1])[at + j] = F(m)[at + j]
        BY <3>2, <4>1
      <4> QED BY <3>1, <3>3, <4>2
    <3> QED BY <3>4, <3>5
  <2> QED BY <1>4, <2>2, <2>3, <2>4
<1>8. \A m \in 0 .. n : m \in R
  <2>1. Good(0)
    BY <1>4
  <2> HIDE DEF Good
  <2>2. 0 \in R /\ \A m \in 0 .. (n - 1) : m \in R => m + 1 \in R
    BY <1>1, <1>7, <2>1
  <2> HIDE DEF R
  <2> QED BY <1>1, <2>2, Upwards
<1>9. n > i /\ n \in 0 .. n
  BY <1>1, <1>4
<1>10. Len(F(i + 1)) <= Len(F(n)) /\ \A j \in 1 .. Len(x) : F(n)[at + j] = x[j]
  BY <1>8, <1>9
<1> QED BY <1>2, <1>5, <1>6, <1>9, <1>10 DEF x, at, F

----------
(* The stored form of the proofs *)

\* The instance's lists and sums are these.
LEMMA BlobLists ==
    ASSUME NEW v
    PROVE  Blob!Total(v) = Total(v) /\ Blob!Joined(v) = Joined(v)
BY DEF Blob!Total, Total, Blob!Joined, Joined


\* A piece of the stored form, and what it says.
LEMMA ChunkType ==
    ASSUME NEW v \in Ids \cup Int \cup Strings, NEW n \in Nat
    PROVE  Blob!Chunk(v, n) \in Chunks /\ Blob!Chunk(v, n).v = v /\ Blob!Chunk(v, n).n = n
BY DEF Chunks, Blob!Chunk

\* The flags of the stored form.
LEMMA FlagType ==
    /\ Blob!Flag(TRUE) \in Chunks /\ Blob!Flag(TRUE).v = 1
    /\ Blob!Flag(FALSE) \in Chunks /\ Blob!Flag(FALSE).v = 0
BY DEF Chunks, Blob!Flag, Blob!Chunk

\* One list after another.
LEMMA TwoJoined ==
    ASSUME NEW S, NEW u \in Seq(S), NEW v \in Seq(S)
    PROVE  /\ Len(u) \in Nat /\ Len(v) \in Nat
           /\ u \o v \in Seq(S) /\ Len(u \o v) = Len(u) + Len(v)
           /\ \A j \in 1 .. Len(u) : (u \o v)[j] = u[j]
           /\ \A j \in 1 .. Len(v) : (u \o v)[Len(u) + j] = v[j]
<1>1. Len(u) \in Nat /\ Len(v) \in Nat
  BY LenProperties
<1>2. u \o v \in Seq(S) /\ Len(u \o v) = Len(u) + Len(v)
      /\ \A j \in 1 .. (Len(u) + Len(v)) :
             (u \o v)[j] = IF j <= Len(u) THEN u[j] ELSE v[j - Len(u)]
  BY ConcatProperties
<1> DEFINE m == Len(u)
           n == Len(v)
<1> HIDE DEF m, n
<1>3. u \o v \in Seq(S) /\ Len(u \o v) = m + n
      /\ \A j \in 1 .. (m + n) : (u \o v)[j] = IF j <= m THEN u[j] ELSE v[j - m]
  BY <1>2 DEF m, n
<1>4. m \in Nat /\ n \in Nat
  BY <1>1 DEF m, n
<1>5. /\ \A j \in 1 .. m : j \in 1 .. (m + n) /\ j <= m
      /\ \A j \in 1 .. n : m + j \in 1 .. (m + n) /\ ~(m + j <= m) /\ (m + j) - m = j
  BY <1>4
<1>6. /\ \A j \in 1 .. m : (u \o v)[j] = u[j]
      /\ \A j \in 1 .. n : (u \o v)[m + j] = v[j]
  BY <1>3, <1>5
<1> QED BY <1>3, <1>4, <1>6 DEF m, n

\* A list of one, or of two.
LEMMA FewChunks ==
    ASSUME NEW a \in Chunks, NEW b \in Chunks, NEW c \in Chunks, NEW d \in Chunks
    PROVE  /\ <<a>> \in Seq(Chunks) /\ Len(<<a>>) = 1 /\ <<a>>[1] = a
           /\ <<a, b>> \in Seq(Chunks) /\ Len(<<a, b>>) = 2
           /\ <<a, b>>[1] = a /\ <<a, b>>[2] = b
           /\ <<a, b, c>> \in Seq(Chunks) /\ Len(<<a, b, c>>) = 3
           /\ <<a, b, c>>[1] = a /\ <<a, b, c>>[2] = b /\ <<a, b, c>>[3] = c
           /\ <<a, b, c, d>> \in Seq(Chunks) /\ Len(<<a, b, c, d>>) = 4
           /\ <<a, b, c, d>>[1] = a /\ <<a, b, c, d>>[2] = b
           /\ <<a, b, c, d>>[3] = c /\ <<a, b, c, d>>[4] = d
OBVIOUS

\* How a DLEQ, with the factor or without, or none, is stored.
LEMMA DleqChunked ==
    ASSUME NEW d \in Dleq \cup {None}
    PROVE  LET D == Blob!DleqChunks(d)
           IN /\ D \in Seq(Chunks) /\ Len(D) \in Nat
              /\ d = None => Len(D) = 1 /\ D[1].v = 0
              /\ d # None => /\ D[1].v = 1 /\ D[2].v = d.e /\ D[3].v = d.s
                             /\ d.r = None => Len(D) = 4 /\ D[4].v = 0
                             /\ d.r # None => Len(D) = 5 /\ D[4].v = 1 /\ D[5].v = d.r
<1> DEFINE D == Blob!DleqChunks(d)
           yes == Blob!Flag(TRUE)
           no == Blob!Flag(FALSE)
<1>1. yes \in Chunks /\ yes.v = 1 /\ no \in Chunks /\ no.v = 0
  BY FlagType
<1>2. CASE d = None
  <2>1. D = <<no>>
    BY <1>2 DEF Blob!DleqChunks
  <2> HIDE DEF D, no
  <2> QED BY <1>1, <1>2, <2>1, FewChunks DEF D
<1>3. CASE d # None
  <2> DEFINE e == Blob!Scalar(d.e)
             s == Blob!Scalar(d.s)
             r == Blob!Scalar(d.r)
             head == <<yes, e, s>>
             tail == IF d.r = None THEN <<no>> ELSE <<yes, r>>
  <2>1. d \in Dleq /\ d.e \in Int /\ d.s \in Int /\ (d.r # None => d.r \in Int)
    BY <1>3 DEF Dleq
  <2>2. e \in Chunks /\ e.v = d.e /\ s \in Chunks /\ s.v = d.s
    BY <2>1, ChunkType DEF Blob!Scalar
  <2>3. d.r # None => r \in Chunks /\ r.v = d.r
    BY <2>1, ChunkType DEF Blob!Scalar
  <2>4. D = head \o tail
    BY <1>3 DEF Blob!DleqChunks
  <2> HIDE DEF yes, no, e, s, r, D
  <2>5. head \in Seq(Chunks) /\ Len(head) = 3 /\ head[1] = yes /\ head[2] = e /\ head[3] = s
    BY <1>1, <2>2, FewChunks
  <2>6. CASE d.r = None
    <3>1. tail \in Seq(Chunks) /\ Len(tail) = 1 /\ tail[1] = no
      BY <1>1, <2>6, FewChunks
    <3> HIDE DEF head, tail
    <3>3. /\ D \in Seq(Chunks) /\ Len(D) = 3 + 1
          /\ \A j \in 1 .. 3 : D[j] = head[j]
          /\ \A j \in 1 .. 1 : D[3 + j] = tail[j]
      <4>1. /\ head \o tail \in Seq(Chunks) /\ Len(head \o tail) = Len(head) + Len(tail)
            /\ \A j \in 1 .. Len(head) : (head \o tail)[j] = head[j]
            /\ \A j \in 1 .. Len(tail) : (head \o tail)[Len(head) + j] = tail[j]
        <5>1. head \in Seq(Chunks) /\ tail \in Seq(Chunks)
          BY <2>5, <3>1
        <5> QED BY <5>1, TwoJoined
      <4> QED BY <2>4, <2>5, <3>1, <4>1
    <3>2. D \in Seq(Chunks) /\ Len(D) = 4 /\ D[1] = yes /\ D[2] = e /\ D[3] = s /\ D[4] = no
      <4>1. D[1] = head[1] /\ D[2] = head[2] /\ D[3] = head[3] /\ D[3 + 1] = tail[1]
        BY <3>3
      <4> QED BY <2>5, <3>1, <3>3, <4>1
    <3> QED BY <1>1, <1>3, <2>2, <2>6, <3>2 DEF D
  <2>7. CASE d.r # None
    <3>1. tail \in Seq(Chunks) /\ Len(tail) = 2 /\ tail[1] = yes /\ tail[2] = r
      BY <1>1, <2>3, <2>7, FewChunks
    <3> HIDE DEF head, tail
    <3>3. /\ D \in Seq(Chunks) /\ Len(D) = 3 + 2
          /\ \A j \in 1 .. 3 : D[j] = head[j]
          /\ \A j \in 1 .. 2 : D[3 + j] = tail[j]
      <4>1. /\ head \o tail \in Seq(Chunks) /\ Len(head \o tail) = Len(head) + Len(tail)
            /\ \A j \in 1 .. Len(head) : (head \o tail)[j] = head[j]
            /\ \A j \in 1 .. Len(tail) : (head \o tail)[Len(head) + j] = tail[j]
        <5>1. head \in Seq(Chunks) /\ tail \in Seq(Chunks)
          BY <2>5, <3>1
        <5> QED BY <5>1, TwoJoined
      <4> QED BY <2>4, <2>5, <3>1, <4>1
    <3>2. D \in Seq(Chunks) /\ Len(D) = 5 /\ D[1] = yes /\ D[2] = e /\ D[3] = s
          /\ D[4] = yes /\ D[5] = r
      <4>1. D[1] = head[1] /\ D[2] = head[2] /\ D[3] = head[3]
            /\ D[3 + 1] = tail[1] /\ D[3 + 2] = tail[2]
        BY <3>3
      <4> QED BY <2>5, <3>1, <3>3, <4>1
    <3> QED BY <1>1, <1>3, <2>2, <2>3, <2>7, <3>2 DEF D
  <2> QED BY <2>6, <2>7
<1> QED BY <1>2, <1>3

\* How a witness, or none, is stored.
LEMMA WitnessChunked ==
    ASSUME NEW w \in Name \cup {None}
    PROVE  LET W == Blob!WitnessChunks(w)
           IN /\ W \in Seq(Chunks)
              /\ w = None => Len(W) = 1 /\ W[1].v = 0
              /\ w # None => Len(W) = 2 /\ W[1].v = 1 /\ W[2].v = w
<1> DEFINE W == Blob!WitnessChunks(w)
<1>1. CASE w = None
  <2> DEFINE a == Blob!Chunk(0, 2)
  <2>1. W = <<a>>
    BY <1>1 DEF Blob!WitnessChunks
  <2>2. a \in Chunks /\ a.v = 0
    BY DEF Blob!Chunk, Chunks
  <2> HIDE DEF W, a
  <2> QED BY <1>1, <2>1, <2>2, FewChunks DEF W
<1>2. CASE w # None
  <2> DEFINE a == Blob!Chunk(1, 2)
             b == Blob!Chunk(w, 1)
  <2>0. w \in Strings /\ w # ""
    BY <1>2 DEF Name
  <2>1. W = <<a, b>>
    BY <1>2, <2>0 DEF Blob!WitnessChunks
  <2>2. a \in Chunks /\ a.v = 1 /\ b \in Chunks /\ b.v = w
    <3>1. w \in Strings
      BY <2>0
    <3> QED BY <3>1 DEF Blob!Chunk, Chunks
  <2> HIDE DEF W, a, b
  <2> QED BY <1>2, <2>1, <2>2, FewChunks DEF W
<1> QED BY <1>1, <1>2

\* How a proof is stored: four pieces, then the DLEQ and the witness.
LEMMA ProofChunked ==
    ASSUME NEW p \in Proof
    PROVE  LET c == Blob!ProofChunks(p)
               D == Blob!DleqChunks(p.dleq)
               W == Blob!WitnessChunks(p.witness)
           IN /\ c \in Seq(Chunks) /\ Len(c) = 4 + Len(D) + Len(W)
              /\ c[1].v = p.id /\ c[2].v = p.amount /\ c[3].v = p.secret /\ c[3].n = 34
              /\ c[4].v = p.C
              /\ \A j \in 1 .. Len(D) : c[4 + j] = D[j]
              /\ \A j \in 1 .. Len(W) : c[4 + Len(D) + j] = W[j]
<1> DEFINE c == Blob!ProofChunks(p)
           D == Blob!DleqChunks(p.dleq)
           W == Blob!WitnessChunks(p.witness)
           a1 == Blob!Chunk(p.id, 2 + 8)
           a2 == Blob!Chunk(p.amount, 4)
           a3 == Blob!Chunk(p.secret, 2 + 32)
           a4 == Blob!Point(p.C)
           A == <<a1, a2, a3, a4>>
<1>1. /\ p.id \in Ids /\ p.amount \in Nat /\ p.secret \in Int /\ p.C \in Int
      /\ p.dleq \in Dleq \cup {None} /\ p.witness \in Name \cup {None}
  BY DEF Proof
<1>2. /\ a1 \in Chunks /\ a1.v = p.id /\ a2 \in Chunks /\ a2.v = p.amount
      /\ a3 \in Chunks /\ a3.v = p.secret /\ a3.n = 34 /\ a4 \in Chunks /\ a4.v = p.C
  BY <1>1 DEF Blob!Point, Blob!Chunk, Chunks
<1>3. D \in Seq(Chunks) /\ Len(D) \in Nat
  BY <1>1, DleqChunked
<1>4. W \in Seq(Chunks) /\ Len(W) \in Nat
  BY <1>1, WitnessChunked, LenProperties
<1>5. c = (A \o D) \o W
  BY DEF Blob!ProofChunks
<1> HIDE DEF a1, a2, a3, a4, D, W, c
<1>6. A \in Seq(Chunks) /\ Len(A) = 4 /\ A[1] = a1 /\ A[2] = a2 /\ A[3] = a3 /\ A[4] = a4
  BY <1>2, FewChunks
<1> HIDE DEF A
<1> DEFINE B == A \o D
           l == Len(D)
           m == Len(W)
<1>7. l \in Nat /\ m \in Nat
  BY <1>3, <1>4
<1>8. /\ B \in Seq(Chunks) /\ Len(B) = 4 + l
      /\ \A j \in 1 .. 4 : B[j] = A[j]
      /\ \A j \in 1 .. l : B[4 + j] = D[j]
  <2>1. /\ A \o D \in Seq(Chunks) /\ Len(A \o D) = Len(A) + Len(D)
        /\ \A j \in 1 .. Len(A) : (A \o D)[j] = A[j]
        /\ \A j \in 1 .. Len(D) : (A \o D)[Len(A) + j] = D[j]
    <3>1. A \in Seq(Chunks) /\ D \in Seq(Chunks)
      BY <1>3, <1>6
    <3> QED BY <3>1, TwoJoined
  <2> QED BY <1>6, <2>1
<1>9. c = B \o W
  BY <1>5
<1> HIDE DEF B
<1>10. /\ c \in Seq(Chunks) /\ Len(c) = 4 + l + m
       /\ \A j \in 1 .. (4 + l) : c[j] = B[j]
       /\ \A j \in 1 .. m : c[4 + l + j] = W[j]
  <2>1. /\ B \o W \in Seq(Chunks) /\ Len(B \o W) = Len(B) + Len(W)
        /\ \A j \in 1 .. Len(B) : (B \o W)[j] = B[j]
        /\ \A j \in 1 .. Len(W) : (B \o W)[Len(B) + j] = W[j]
    <3>1. B \in Seq(Chunks) /\ W \in Seq(Chunks)
      BY <1>4, <1>8
    <3> QED BY <3>1, TwoJoined
  <2> QED BY <1>8, <1>9, <2>1
<1> HIDE DEF l, m
<1>11. /\ \A j \in 1 .. l : 4 + j \in 1 .. (4 + l)
       /\ 1 \in 1 .. (4 + l) /\ 2 \in 1 .. (4 + l) /\ 3 \in 1 .. (4 + l) /\ 4 \in 1 .. (4 + l)
  BY <1>7
<1>12. c[1] = a1 /\ c[2] = a2 /\ c[3] = a3 /\ c[4] = a4
  BY <1>6, <1>8, <1>10, <1>11
<1>13. \A j \in 1 .. l : c[4 + j] = D[j]
  BY <1>8, <1>10, <1>11
<1> QED BY <1>2, <1>10, <1>12, <1>13 DEF c, D, W, l, m

----------
\* A proof that stands at i is read as it was written, and the next is after it.
LEMMA ReadsOne ==
    ASSUME NEW p \in Proof, NEW blob, NEW i \in Nat, Len(blob) \in Nat,
           \A j \in 1 .. Len(Blob!ProofChunks(p)) :
               /\ i + (j - 1) <= Len(blob)
               /\ blob[i + (j - 1)] = Blob!ProofChunks(p)[j]
    PROVE  Blob!ReadProof(blob, i) =
               [proof |-> p, next |-> i + Len(Blob!ProofChunks(p))]
<1> DEFINE c == Blob!ProofChunks(p)
           D == Blob!DleqChunks(p.dleq)
           W == Blob!WitnessChunks(p.witness)
           at(j) == IF j <= Len(blob) THEN blob[j].v ELSE None
           l == Len(D)
           m == Len(W)
<1>0. /\ p.dleq \in Dleq \cup {None} /\ p.witness \in Name \cup {None}
      /\ p = [id |-> p.id, amount |-> p.amount, secret |-> p.secret, C |-> p.C,
              dleq |-> p.dleq, witness |-> p.witness]
  BY DEF Proof
<1>1. /\ c \in Seq(Chunks) /\ Len(c) = 4 + l + m
      /\ c[1].v = p.id /\ c[2].v = p.amount /\ c[3].v = p.secret /\ c[4].v = p.C
      /\ \A j \in 1 .. l : c[4 + j] = D[j]
      /\ \A j \in 1 .. m : c[4 + l + j] = W[j]
  BY ProofChunked
<1>2. /\ l \in Nat
      /\ p.dleq = None => l = 1 /\ D[1].v = 0
      /\ p.dleq # None => /\ D[1].v = 1 /\ D[2].v = p.dleq.e /\ D[3].v = p.dleq.s
                          /\ p.dleq.r = None => l = 4 /\ D[4].v = 0
                          /\ p.dleq.r # None => l = 5 /\ D[4].v = 1 /\ D[5].v = p.dleq.r
  BY <1>0, DleqChunked
<1>3. /\ p.witness = None => m = 1 /\ W[1].v = 0
      /\ p.witness # None => m = 2 /\ W[1].v = 1 /\ W[2].v = p.witness
  BY <1>0, WitnessChunked
<1>4. \A j \in 1 .. Len(c) : at(i + (j - 1)) = c[j].v
  OBVIOUS
<1>5. Blob!ReadProof(blob, i) =
        LET dleq   == at(i + 4) = 1
            withR  == dleq /\ at(i + 7) = 1
            w      == i + (IF withR THEN 9 ELSE IF dleq THEN 8 ELSE 5)
            longW  == at(w) # 0
        IN [proof |-> [id |-> at(i), amount |-> at(i + 1), secret |-> at(i + 2),
                       C |-> at(i + 3),
                       dleq |-> IF dleq THEN [e |-> at(i + 5), s |-> at(i + 6),
                                              r |-> IF withR THEN at(i + 8) ELSE None]
                                ELSE None,
                       witness |-> IF longW THEN at(w + 1) ELSE None],
            next  |-> IF longW THEN w + 2 ELSE w + 1]
  BY DEF Blob!ReadProof
<1> HIDE DEF c, D, W, at, l, m
<1>6. m \in {1, 2} /\ l \in {1, 4, 5}
  BY <1>2, <1>3
<1>7. at(i) = p.id /\ at(i + 1) = p.amount /\ at(i + 2) = p.secret /\ at(i + 3) = p.C
  <2>1. /\ 1 \in 1 .. Len(c) /\ 2 \in 1 .. Len(c) /\ 3 \in 1 .. Len(c) /\ 4 \in 1 .. Len(c)
    BY <1>1, <1>6
  <2>2. /\ at(i + (1 - 1)) = c[1].v /\ at(i + (2 - 1)) = c[2].v
        /\ at(i + (3 - 1)) = c[3].v /\ at(i + (4 - 1)) = c[4].v
    BY <1>4, <2>1
  <2>3. i + (1 - 1) = i /\ i + (2 - 1) = i + 1 /\ i + (3 - 1) = i + 2 /\ i + (4 - 1) = i + 3
    OBVIOUS
  <2> QED BY <1>1, <2>2, <2>3
<1>8. \A j \in 1 .. l : at(i + (3 + j)) = D[j].v
  <2>1. SUFFICES ASSUME NEW j \in 1 .. l PROVE at(i + (3 + j)) = D[j].v
    OBVIOUS
  <2>2. 4 + j \in 1 .. Len(c) /\ i + ((4 + j) - 1) = i + (3 + j)
    BY <1>1, <1>6
  <2> QED BY <1>1, <1>4, <2>2
<1>9. \A j \in 1 .. m : at(i + (3 + l + j)) = W[j].v
  <2>1. SUFFICES ASSUME NEW j \in 1 .. m PROVE at(i + (3 + l + j)) = W[j].v
    OBVIOUS
  <2>2. 4 + l + j \in 1 .. Len(c) /\ i + ((4 + l + j) - 1) = i + (3 + l + j)
    BY <1>1, <1>6
  <2> QED BY <1>1, <1>4, <2>2
<1> DEFINE w == i + (4 + l)
<1>10. /\ p.witness = None => at(w) = 0
       /\ p.witness # None => at(w) = 1 /\ at(w + 1) = p.witness
  <2>1. i + (3 + l + 1) = w /\ i + (3 + l + 2) = w + 1
    BY <1>6
  <2>2. CASE p.witness = None
    <3>1. 1 \in 1 .. m
      BY <1>3, <2>2
    <3>2. at(i + (3 + l + 1)) = W[1].v
      BY <1>9, <3>1
    <3> QED BY <1>3, <2>1, <2>2, <3>2
  <2>3. CASE p.witness # None
    <3>1. 1 \in 1 .. m /\ 2 \in 1 .. m
      BY <1>3, <2>3
    <3>2. at(i + (3 + l + 1)) = W[1].v /\ at(i + (3 + l + 2)) = W[2].v
      BY <1>9, <3>1
    <3> QED BY <1>3, <2>1, <2>3, <3>2
  <2> QED BY <2>2, <2>3
<1>11. i + (3 + 1) = i + 4 /\ i + (3 + 2) = i + 5 /\ i + (3 + 3) = i + 6
       /\ i + (3 + 4) = i + 7 /\ i + (3 + 5) = i + 8
  OBVIOUS
<1>12. p.dleq = None => at(i + 4) = 0 /\ w = i + 5
  <2>1. SUFFICES ASSUME p.dleq = None PROVE at(i + 4) = 0 /\ w = i + 5
    OBVIOUS
  <2>2. l = 1 /\ D[1].v = 0
    BY <1>2, <2>1
  <2>3. at(i + (3 + 1)) = 0
    BY <1>8, <2>2
  <2> QED BY <1>11, <2>2, <2>3
<1>13. p.dleq # None =>
           /\ at(i + 4) = 1 /\ at(i + 5) = p.dleq.e /\ at(i + 6) = p.dleq.s
           /\ p.dleq.r = None => at(i + 7) = 0 /\ w = i + 8
           /\ p.dleq.r # None => at(i + 7) = 1 /\ at(i + 8) = p.dleq.r /\ w = i + 9
  <2>1. SUFFICES ASSUME p.dleq # None
                 PROVE  /\ at(i + 4) = 1 /\ at(i + 5) = p.dleq.e /\ at(i + 6) = p.dleq.s
                        /\ p.dleq.r = None => at(i + 7) = 0 /\ w = i + 8
                        /\ p.dleq.r # None => at(i + 7) = 1 /\ at(i + 8) = p.dleq.r /\ w = i + 9
    OBVIOUS
  <2>2. D[1].v = 1 /\ D[2].v = p.dleq.e /\ D[3].v = p.dleq.s
    BY <1>2, <2>1
  <2>3. CASE p.dleq.r = None
    <3>1. l = 4 /\ D[4].v = 0
      BY <1>2, <2>1, <2>3
    <3>2. /\ at(i + (3 + 1)) = D[1].v /\ at(i + (3 + 2)) = D[2].v
          /\ at(i + (3 + 3)) = D[3].v /\ at(i + (3 + 4)) = D[4].v
      BY <1>8, <3>1
    <3> QED BY <1>11, <2>2, <2>3, <3>1, <3>2
  <2>4. CASE p.dleq.r # None
    <3>1. l = 5 /\ D[4].v = 1 /\ D[5].v = p.dleq.r
      BY <1>2, <2>1, <2>4
    <3>2. /\ at(i + (3 + 1)) = D[1].v /\ at(i + (3 + 2)) = D[2].v
          /\ at(i + (3 + 3)) = D[3].v /\ at(i + (3 + 4)) = D[4].v
          /\ at(i + (3 + 5)) = D[5].v
      BY <1>8, <3>1
    <3> QED BY <1>11, <2>2, <2>4, <3>1, <3>2
  <2> QED BY <2>3, <2>4
<1>14. p.dleq # None => p.dleq = [e |-> p.dleq.e, s |-> p.dleq.s, r |-> p.dleq.r]
  BY <1>0 DEF Dleq
<1> DEFINE next == IF p.witness = None THEN w + 1 ELSE w + 2
<1>15. next = i + Len(c)
  BY <1>1, <1>3, <1>6
<1>16. Blob!ReadProof(blob, i) =
         [proof |-> [id |-> p.id, amount |-> p.amount, secret |-> p.secret, C |-> p.C,
                     dleq |-> p.dleq, witness |-> p.witness],
          next |-> next]
  <2> HIDE DEF w
  <2>1. CASE p.dleq = None
    <3>1. at(i + 4) # 1 /\ w = i + 5
      BY <1>12, <2>1
    <3> QED BY <1>5, <1>7, <1>10, <2>1, <3>1
  <2>2. CASE p.dleq # None /\ p.dleq.r = None
    <3>1. at(i + 4) = 1 /\ at(i + 7) # 1 /\ w = i + 8
      BY <1>13, <2>2
    <3>2. p.dleq = [e |-> at(i + 5), s |-> at(i + 6), r |-> None]
      BY <1>13, <1>14, <2>2
    <3> QED BY <1>5, <1>7, <1>10, <2>2, <3>1, <3>2
  <2>3. CASE p.dleq # None /\ p.dleq.r # None
    <3>1. at(i + 4) = 1 /\ at(i + 7) = 1 /\ w = i + 9
      BY <1>13, <2>3
    <3>2. p.dleq = [e |-> at(i + 5), s |-> at(i + 6), r |-> at(i + 8)]
      BY <1>13, <1>14, <2>3
    <3> QED BY <1>5, <1>7, <1>10, <2>3, <3>1, <3>2
  <2> QED BY <2>1, <2>2, <2>3
<1> QED BY <1>0, <1>15, <1>16 DEF c

----------
\* The sum of two lists, one after the other.
LEMMA TotalJoined ==
    ASSUME NEW u \in Seq(Int), NEW v \in Seq(Int)
    PROVE  Total(u \o v) = Total(u) + Total(v)
<1> DEFINE w == u \o v
           m == Len(u)
           n == Len(v)
           f == SumUpTo(u)
           g == SumUpTo(v)
           h == SumUpTo(w)
           R == {i \in 0 .. m : h[i] = f[i]}
           S == {j \in 0 .. n : h[m + j] = f[m] + g[j]}
<1>1. /\ m \in Nat /\ n \in Nat /\ w \in Seq(Int) /\ Len(w) = m + n
      /\ \A j \in 1 .. m : w[j] = u[j]
      /\ \A j \in 1 .. n : w[m + j] = v[j]
  BY TwoJoined
<1>2. /\ \A i \in 1 .. m : u[i] \in Int
      /\ \A i \in 1 .. n : v[i] \in Int
  BY ElementOfSeq
<1>3. Total(u) = f[m] /\ f[0] = 0 /\ \A i \in 1 .. m : f[i] = f[i - 1] + u[i]
  BY <1>1, SumsDef
<1>4. Total(v) = g[n] /\ g[0] = 0 /\ \A i \in 1 .. n : g[i] = g[i - 1] + v[i]
  BY <1>1, SumsDef
<1>5. Total(w) = h[Len(w)] /\ h[0] = 0 /\ \A i \in 1 .. Len(w) : h[i] = h[i - 1] + w[i]
  <2>1. Len(w) \in Nat
    BY <1>1
  <2> HIDE DEF w
  <2> QED BY <2>1, SumsDef
<1>6. Total(w) = h[m + n] /\ h[0] = 0 /\ \A i \in 1 .. (m + n) : h[i] = h[i - 1] + w[i]
  BY <1>1, <1>5
<1>7. Total(u) \in Int /\ Total(v) \in Int
  BY TotalType
<1> HIDE DEF w, m, n, f, g, h
<1>8. \A i \in 0 .. m : i \in R
  <2>1. 0 \in R
    BY <1>1, <1>3, <1>6
  <2>2. ASSUME NEW i \in 0 .. (m - 1), i \in R
        PROVE  i + 1 \in R
    <3>1. i + 1 \in 1 .. m /\ (i + 1) - 1 = i /\ i + 1 \in 1 .. (m + n) /\ i + 1 \in 0 .. m
      BY <1>1
    <3>2. h[i + 1] = h[i] + w[i + 1] /\ f[i + 1] = f[i] + u[i + 1] /\ w[i + 1] = u[i + 1]
      BY <1>1, <1>3, <1>6, <3>1
    <3> QED BY <2>2, <3>1, <3>2
  <2> HIDE DEF R
  <2> QED BY <1>1, <2>1, <2>2, Upwards
<1>9. h[m] = f[m] /\ f[m] \in Int /\ m + 0 = m
  BY <1>1, <1>3, <1>7, <1>8
<1> DEFINE G == {j \in 0 .. n : g[j] \in Int}
<1>10. \A j \in 0 .. n : j \in G
  <2>1. 0 \in G
    BY <1>1, <1>4
  <2>2. ASSUME NEW j \in 0 .. (n - 1), j \in G
        PROVE  j + 1 \in G
    <3>1. j + 1 \in 1 .. n /\ (j + 1) - 1 = j /\ j + 1 \in 0 .. n /\ v[j + 1] \in Int
      BY <1>1, <1>2
    <3> QED BY <1>4, <2>2, <3>1
  <2> HIDE DEF G
  <2> QED BY <1>1, <2>1, <2>2, Upwards
<1>11. \A j \in 0 .. n : j \in S
  <2>1. 0 \in S
    BY <1>1, <1>4, <1>9
  <2>2. ASSUME NEW j \in 0 .. (n - 1), j \in S
        PROVE  j + 1 \in S
    <3>1. /\ j + 1 \in 1 .. n /\ (j + 1) - 1 = j /\ j + 1 \in 0 .. n /\ j \in 0 .. n
          /\ m + (j + 1) \in 1 .. (m + n) /\ (m + (j + 1)) - 1 = m + j
      BY <1>1
    <3>2. h[m + (j + 1)] = h[m + j] + v[j + 1]
      BY <1>1, <1>6, <3>1
    <3>3. g[j + 1] = g[j] + v[j + 1] /\ g[j] \in Int /\ v[j + 1] \in Int
      BY <1>2, <1>4, <1>10, <3>1
    <3>4. h[m + j] = f[m] + g[j]
      BY <2>2
    <3> DEFINE a == f[m]
               b == g[j]
               d == v[j + 1]
    <3>5. a \in Int /\ b \in Int /\ d \in Int
      BY <1>9, <3>3
    <3> HIDE DEF a, b, d
    <3>6. (a + b) + d = a + (b + d)
      BY <3>5
    <3> QED BY <3>1, <3>2, <3>3, <3>4, <3>6 DEF a, b, d
  <2> HIDE DEF S
  <2> QED BY <1>1, <2>1, <2>2, Upwards
<1> QED BY <1>1, <1>3, <1>4, <1>6, <1>11 DEF w

\* No term is more than the whole.
LEMMA TotalAtLeast ==
    ASSUME NEW v \in Seq(Int), \A i \in 1 .. Len(v) : v[i] \in Nat, NEW q \in 1 .. Len(v)
    PROVE  v[q] <= Total(v)
<1> DEFINE w == [i \in 1 .. Len(v) |-> IF i = q THEN v[q] ELSE 0]
           z == [i \in 1 .. Len(v) |-> 0]
<1>1. Len(v) \in Nat /\ v[q] \in Nat
  BY LenProperties
<1>2. /\ w \in Seq(Int) /\ Len(w) = Len(v) /\ w[q] = v[q]
      /\ \A i \in 1 .. Len(v) : w[i] = IF i = q THEN v[q] ELSE 0
  BY <1>1
<1>3. /\ z \in Seq(Int) /\ Len(z) = Len(v)
      /\ \A i \in 1 .. Len(v) : z[i] = 0
  BY <1>1
<1> HIDE DEF w, z
<1>4. Total(w) <= Total(v)
  <2>1. \A i \in 1 .. Len(w) : w[i] <= v[i]
    BY <1>2
  <2> QED BY <1>2, <2>1, TotalMono
<1>5. Total(w) = Total(z) + w[q] - z[q]
  <2>1. \A i \in 1 .. Len(z) : i # q => w[i] = z[i]
    BY <1>2, <1>3
  <2> QED BY <1>2, <1>3, <2>1, TotalChanged
<1>6. Total(z) \in Nat /\ Total(w) \in Int /\ Total(v) \in Int
  <2>1. \A i \in 1 .. Len(z) : z[i] \in Nat
    BY <1>3
  <2> QED BY <1>2, <1>3, <2>1, TotalType
<1> QED BY <1>1, <1>2, <1>3, <1>4, <1>5, <1>6

\* The length of each chunk of a blob.
Lengths(b) == [i \in DOMAIN b |-> b[i].n]

\* The size of what is stored is a sum of lengths.
LEMMA LengthsType ==
    ASSUME NEW b \in Seq(Chunks)
    PROVE  /\ Lengths(b) \in Seq(Int) /\ Len(Lengths(b)) = Len(b)
           /\ \A i \in 1 .. Len(b) : Lengths(b)[i] = b[i].n /\ Lengths(b)[i] \in Nat
           /\ Blob!Size(b) = Total(Lengths(b)) /\ Blob!Size(b) \in Nat
<1>1. /\ Len(b) \in Nat /\ DOMAIN b = 1 .. Len(b)
      /\ \A i \in 1 .. Len(b) : b[i].n \in Nat
  <2>1. Len(b) \in Nat /\ DOMAIN b = 1 .. Len(b)
    BY LenProperties
  <2>2. \A i \in 1 .. Len(b) : b[i] \in Chunks
    BY ElementOfSeq
  <2>3. \A c \in Chunks : c.n \in Nat
    BY DEF Chunks
  <2> QED BY <2>1, <2>2, <2>3
<1>2. /\ Lengths(b) \in Seq(Int) /\ Len(Lengths(b)) = Len(b)
      /\ \A i \in 1 .. Len(b) : Lengths(b)[i] = b[i].n /\ Lengths(b)[i] \in Nat
  BY <1>1 DEF Lengths
<1>3. Blob!Size(b) = Total(Lengths(b))
  BY BlobLists DEF Blob!Size, Lengths
<1>4. Total(Lengths(b)) \in Nat
  BY <1>2, TotalType
<1> QED BY <1>2, <1>3, <1>4

\* The size of two blobs joined is the sum of their sizes.
LEMMA SizeJoined ==
    ASSUME NEW a \in Seq(Chunks), NEW b \in Seq(Chunks)
    PROVE  Blob!Size(a \o b) = Blob!Size(a) + Blob!Size(b)
<1> DEFINE c == a \o b
           x == Lengths(a)
           y == Lengths(b)
           z == Lengths(c)
<1>1. /\ c \in Seq(Chunks) /\ Len(c) = Len(a) + Len(b)
      /\ Len(a) \in Nat /\ Len(b) \in Nat
      /\ \A j \in 1 .. Len(a) : c[j] = a[j]
      /\ \A j \in 1 .. Len(b) : c[Len(a) + j] = b[j]
  BY TwoJoined
<1>2. /\ x \in Seq(Int) /\ Len(x) = Len(a) /\ \A i \in 1 .. Len(a) : x[i] = a[i].n
      /\ Blob!Size(a) = Total(x)
  BY LengthsType
<1>3. /\ y \in Seq(Int) /\ Len(y) = Len(b) /\ \A i \in 1 .. Len(b) : y[i] = b[i].n
      /\ Blob!Size(b) = Total(y)
  BY LengthsType
<1> HIDE DEF c
<1>4. /\ z \in Seq(Int) /\ Len(z) = Len(c) /\ \A i \in 1 .. Len(c) : z[i] = c[i].n
      /\ Blob!Size(c) = Total(z)
  BY <1>1, LengthsType
<1> HIDE DEF x, y, z
<1> DEFINE s == x \o y
<1>5. /\ s \in Seq(Int) /\ Len(s) = Len(a) + Len(b)
      /\ \A j \in 1 .. Len(a) : s[j] = x[j]
      /\ \A j \in 1 .. Len(b) : s[Len(a) + j] = y[j]
  <2>1. /\ s \in Seq(Int) /\ Len(s) = Len(x) + Len(y)
        /\ \A j \in 1 .. Len(x) : s[j] = x[j]
        /\ \A j \in 1 .. Len(y) : s[Len(x) + j] = y[j]
    <3>1. x \in Seq(Int) /\ y \in Seq(Int)
      BY <1>2, <1>3
    <3> QED BY <3>1, TwoJoined
  <2> HIDE DEF s
  <2> QED BY <1>2, <1>3, <2>1
<1>6. Total(s) = Total(x) + Total(y)
  BY <1>2, <1>3, TotalJoined
<1> HIDE DEF s
<1>7. \A k \in 1 .. Len(z) : z[k] = s[k]
  <2>1. SUFFICES ASSUME NEW k \in 1 .. (Len(a) + Len(b)) PROVE c[k].n = s[k]
    BY <1>1, <1>4
  <2>2. CASE k \in 1 .. Len(a)
    BY <1>1, <1>2, <1>5, <2>2
  <2>3. CASE k \notin 1 .. Len(a)
    <3>1. k - Len(a) \in 1 .. Len(b) /\ Len(a) + (k - Len(a)) = k
      BY <1>1, <2>3
    <3> DEFINE j == k - Len(a)
    <3> HIDE DEF j
    <3>2. j \in 1 .. Len(b) /\ Len(a) + j = k
      BY <3>1 DEF j
    <3> QED BY <1>1, <1>3, <1>5, <3>2
  <2> QED BY <2>2, <2>3
<1>8. z = s
  BY <1>1, <1>4, <1>5, <1>7, SeqEqual
<1> QED BY <1>2, <1>3, <1>4, <1>6, <1>8 DEF c

----------
\* The proofs read so far and where the next one starts, as FromBlob goes on.
IsReadUpTo(f, n, blob) ==
    f = [k \in 0 .. n |->
            IF k = 0 THEN [proofs |-> <<>>, next |-> 3]
            ELSE LET before == f[k - 1]
                     one    == Blob!ReadProof(blob, before.next)
                 IN [proofs |-> Append(before.proofs, one.proof), next |-> one.next]]

\* The results of reading the first n proofs of a blob.
ReadUpTo(n, blob) == CHOOSE f : IsReadUpTo(f, n, blob)

\* There is such a list of what was read.
LEMMA ReadExists ==
    ASSUME NEW blob, NEW n \in Nat
    PROVE  \E f : IsReadUpTo(f, n, blob)
<1> DEFINE base == [proofs |-> <<>>, next |-> 3]
           Step(b) == [proofs |-> Append(b.proofs, Blob!ReadProof(blob, b.next).proof),
                       next |-> Blob!ReadProof(blob, b.next).next]
           Has(m) == \E f : IsReadUpTo(f, m, blob)
           S == {m \in 0 .. n : Has(m)}
<1>1. ASSUME NEW f, NEW m
      PROVE  IsReadUpTo(f, m, blob)
               <=> f = [i \in 0 .. m |-> IF i = 0 THEN base ELSE Step(f[i - 1])]
  BY DEF IsReadUpTo
<1> HIDE DEF Step, base
<1>2. Has(0)
  <2> DEFINE f == [i \in 0 .. 0 |-> base]
  <2>1. f = [i \in 0 .. 0 |-> IF i = 0 THEN base ELSE Step(f[i - 1])]
    OBVIOUS
  <2> HIDE DEF f
  <2> QED BY <1>1, <2>1
<1>3. ASSUME NEW m \in 0 .. (n - 1), Has(m)
      PROVE  Has(m + 1)
  <2>1. PICK f : f = [i \in 0 .. m |-> IF i = 0 THEN base ELSE Step(f[i - 1])]
    BY <1>1, <1>3
  <2> DEFINE g == [i \in 0 .. (m + 1) |-> IF i = m + 1 THEN Step(f[m]) ELSE f[i]]
  <2>2. g = [i \in 0 .. (m + 1) |-> IF i = 0 THEN base ELSE Step(g[i - 1])]
    BY <2>1
  <2> HIDE DEF g
  <2> QED BY <1>1, <2>2
<1> HIDE DEF Has
<1>4. \A m \in 0 .. n : m \in S
  <2>1. 0 \in S
    BY <1>2
  <2>2. \A m \in 0 .. (n - 1) : m \in S => m + 1 \in S
    BY <1>3
  <2> HIDE DEF S
  <2> QED BY <2>1, <2>2, Upwards
<1>5. Has(n)
  BY <1>4
<1> QED BY <1>5 DEF Has

\* What FromBlob reads, step by step.
LEMMA ReadDef ==
    ASSUME NEW blob, NEW n \in Nat
    PROVE  /\ ReadUpTo(n, blob)[0] = [proofs |-> <<>>, next |-> 3]
           /\ \A k \in 1 .. n :
                  LET before == ReadUpTo(n, blob)[k - 1]
                      one    == Blob!ReadProof(blob, before.next)
                  IN ReadUpTo(n, blob)[k] =
                         [proofs |-> Append(before.proofs, one.proof), next |-> one.next]
<1> DEFINE f == ReadUpTo(n, blob)
           Step(b) == [proofs |-> Append(b.proofs, Blob!ReadProof(blob, b.next).proof),
                       next |-> Blob!ReadProof(blob, b.next).next]
<1>1. IsReadUpTo(f, n, blob)
  BY ReadExists DEF ReadUpTo
<1> HIDE DEF f
<1>2. f = [i \in 0 .. n |-> IF i = 0 THEN [proofs |-> <<>>, next |-> 3] ELSE Step(f[i - 1])]
  BY <1>1 DEF IsReadUpTo
<1>3. f[0] = [proofs |-> <<>>, next |-> 3] /\ \A k \in 1 .. n : f[k] = Step(f[k - 1])
  <2> HIDE DEF Step
  <2> QED BY <1>2
<1> QED BY <1>3 DEF f

\* The chunks of the proofs, one list for each.
ChunkLists(ps) == [i \in DOMAIN ps |-> Blob!ProofChunks(ps[i])]

\* Every proof takes more bytes than the least that proofs_from_blob expects.
LEMMA ChunkListsType ==
    ASSUME NEW ps \in Seq(Proof)
    PROVE  /\ ChunkLists(ps) \in Seq(Seq(Chunks)) /\ Len(ChunkLists(ps)) = Len(ps)
           /\ \A i \in 1 .. Len(ps) : /\ ChunkLists(ps)[i] = Blob!ProofChunks(ps[i])
                                      /\ ps[i] \in Proof
                                      /\ Blob!Size(ChunkLists(ps)[i]) >= 20
<1>1. Len(ps) \in Nat /\ DOMAIN ps = 1 .. Len(ps) /\ \A i \in 1 .. Len(ps) : ps[i] \in Proof
  BY LenProperties, ElementOfSeq
<1>2. ASSUME NEW p \in Proof
      PROVE  Blob!ProofChunks(p) \in Seq(Chunks) /\ Blob!Size(Blob!ProofChunks(p)) >= 20
  <2> DEFINE c == Blob!ProofChunks(p)
             D == Blob!DleqChunks(p.dleq)
             W == Blob!WitnessChunks(p.witness)
  <2>1. c \in Seq(Chunks) /\ Len(c) = 4 + Len(D) + Len(W) /\ c[3].n = 34
    BY ProofChunked
  <2>2. p.dleq \in Dleq \cup {None} /\ p.witness \in Name \cup {None}
    BY DEF Proof
  <2>3. Len(D) \in Nat
    BY <2>2, DleqChunked
  <2>4. Len(W) \in Nat
    BY <2>2, WitnessChunked
  <2>5. 3 \in 1 .. Len(c)
    BY <2>1, <2>3, <2>4
  <2> HIDE DEF c, D, W
  <2>6. /\ Lengths(c) \in Seq(Int) /\ Len(Lengths(c)) = Len(c)
        /\ \A i \in 1 .. Len(c) : Lengths(c)[i] = c[i].n /\ Lengths(c)[i] \in Nat
        /\ Blob!Size(c) = Total(Lengths(c)) /\ Blob!Size(c) \in Nat
    BY <2>1, LengthsType
  <2>7. \A q \in 1 .. Len(Lengths(c)) : Lengths(c)[q] <= Total(Lengths(c))
    <3>1. \A i \in 1 .. Len(Lengths(c)) : Lengths(c)[i] \in Nat
      BY <2>6
    <3>2. Lengths(c) \in Seq(Int)
      BY <2>6
    <3> HIDE DEF Lengths
    <3> QED BY <3>1, <3>2, TotalAtLeast
  <2>8. Lengths(c)[3] <= Total(Lengths(c)) /\ Lengths(c)[3] = 34
    BY <2>1, <2>5, <2>6, <2>7
  <2> QED BY <2>1, <2>6, <2>8 DEF c
<1>3. \A i \in 1 .. Len(ps) : ChunkLists(ps)[i] = Blob!ProofChunks(ps[i])
  BY <1>1 DEF ChunkLists
<1>4. ChunkLists(ps) \in Seq(Seq(Chunks)) /\ Len(ChunkLists(ps)) = Len(ps)
  BY <1>1, <1>2 DEF ChunkLists
<1> QED BY <1>1, <1>2, <1>3, <1>4

----------
\* n proofs take at least 20 n bytes.
LEMMA SizeOfFlat ==
    ASSUME NEW seqs \in Seq(Seq(Chunks)),
           \A i \in 1 .. Len(seqs) : Blob!Size(seqs[i]) >= 20
    PROVE  Blob!Size(Joined(seqs)) >= 20 * Len(seqs)
<1> DEFINE n == Len(seqs)
           size(k) == Blob!Size(Flat(seqs, k))
           S == {k \in 0 .. n : size(k) >= 20 * k}
<1>1. /\ n \in Nat
      /\ \A i \in 1 .. n : seqs[i] \in Seq(Chunks)
  BY LenProperties, ElementOfSeq
<1>2. /\ Joined(seqs) = Flat(seqs, n)
      /\ Flat(seqs, 0) = <<>>
      /\ \A i \in 0 .. n : Flat(seqs, i) \in Seq(Chunks)
      /\ \A i \in 0 .. (n - 1) : Flat(seqs, i + 1) = Flat(seqs, i) \o seqs[i + 1]
  BY FlatDef
<1>3. \A i \in 0 .. n : size(i) \in Nat
  BY <1>2, LengthsType
<1>4. 0 \in S
  BY <1>1, <1>3
<1>5. ASSUME NEW i \in 0 .. (n - 1), i \in S
      PROVE  i + 1 \in S
  <2>1. i + 1 \in 1 .. n /\ i \in 0 .. n /\ i + 1 \in 0 .. n
    BY <1>1
  <2>2. Flat(seqs, i) \in Seq(Chunks) /\ seqs[i + 1] \in Seq(Chunks)
    BY <1>1, <1>2, <2>1
  <2>3. Blob!Size(Flat(seqs, i) \o seqs[i + 1]) = size(i) + Blob!Size(seqs[i + 1])
    BY <2>2, SizeJoined
  <2>4. size(i + 1) = size(i) + Blob!Size(seqs[i + 1])
    BY <1>2, <2>3
  <2>5. Blob!Size(seqs[i + 1]) >= 20 /\ Blob!Size(seqs[i + 1]) \in Nat
    BY <2>1, <2>2, LengthsType
  <2> DEFINE a == size(i)
             b == Blob!Size(seqs[i + 1])
             c == size(i + 1)
  <2>6. a \in Nat /\ b \in Nat /\ c = a + b /\ b >= 20 /\ a >= 20 * i
    BY <1>3, <1>5, <2>1, <2>4, <2>5
  <2> HIDE DEF a, b, c
  <2>7. c >= 20 * (i + 1)
    BY <2>6
  <2> QED BY <2>1, <2>7 DEF c
<1>6. \A k \in 0 .. n : k \in S
  <2> HIDE DEF S, n
  <2> QED BY <1>1, <1>4, <1>5, Upwards
<1>7. n \in S
  BY <1>1, <1>6
<1> QED BY <1>2, <1>7

\* The form of the stored blob: the magic, the count, the proofs' chunks.
LEMMA BlobForm ==
    ASSUME NEW ps \in Seq(Proof), \A p \in Range(ps) : p.id \notin NotHex
    PROVE  LET blob == Blob!ToBlob(ps)
               tail == Joined(ChunkLists(ps))
           IN /\ blob \in Seq(Chunks) /\ tail \in Seq(Chunks)
              /\ Len(blob) = 2 + Len(tail) /\ Len(tail) \in Nat
              /\ blob[1] = Blob!Magic /\ blob[2].v = Len(ps)
              /\ \A j \in 1 .. Len(tail) : blob[2 + j] = tail[j]
              /\ Blob!Size(blob) = 8 + Blob!Size(tail)
<1> DEFINE seqs == ChunkLists(ps)
           tail == Joined(seqs)
           magic == Blob!Magic
           count == Blob!Chunk(Len(ps), 4)
           head == <<magic, count>>
           blob == Blob!ToBlob(ps)
<1>1. seqs \in Seq(Seq(Chunks)) /\ Len(seqs) = Len(ps) /\ Len(ps) \in Nat
  BY ChunkListsType, LenProperties
<1>2. blob = head \o tail
  <2>1. ~ \E p \in Blob!Range(ps) : p.id \in NotHex
    BY DEF Range, Blob!Range
  <2>2. Blob!Joined([i \in DOMAIN ps |-> Blob!ProofChunks(ps[i])]) = tail
    BY BlobLists DEF ChunkLists
  <2> QED BY <2>1, <2>2 DEF Blob!ToBlob
<1>3. magic \in Chunks /\ magic.n = 4
  <2> DEFINE word == "NPB1"
  <2>1. magic = Blob!Chunk(word, 4)
    BY DEF Blob!Magic
  <2>2. word \in Strings
    BY DEF Strings
  <2> HIDE DEF word, magic
  <2> QED BY <2>1, <2>2 DEF Blob!Chunk, Chunks
<1>4. count \in Chunks /\ count.v = Len(ps) /\ count.n = 4
  <2> DEFINE n == Len(ps)
  <2>1. n \in Nat
    BY <1>1
  <2> HIDE DEF n
  <2>2. /\ Blob!Chunk(n, 4) \in Chunks /\ Blob!Chunk(n, 4).v = n /\ Blob!Chunk(n, 4).n = 4
    BY <2>1 DEF Blob!Chunk, Chunks
  <2> QED BY <2>2 DEF n
<1> HIDE DEF magic, count
<1>5. head \in Seq(Chunks) /\ Len(head) = 2 /\ head[1] = magic /\ head[2] = count
  BY <1>3, <1>4
<1> HIDE DEF head
<1>6. tail \in Seq(Chunks)
  <2>1. tail = Flat(seqs, Len(seqs)) /\ \A i \in 0 .. Len(seqs) : Flat(seqs, i) \in Seq(Chunks)
    <3> HIDE DEF seqs
    <3> QED BY <1>1, FlatDef
  <2>2. Len(seqs) \in 0 .. Len(seqs)
    BY <1>1
  <2> QED BY <2>1, <2>2
<1> HIDE DEF tail
<1>7. /\ blob \in Seq(Chunks) /\ Len(blob) = Len(head) + Len(tail) /\ Len(tail) \in Nat
      /\ \A j \in 1 .. Len(head) : blob[j] = head[j]
      /\ \A j \in 1 .. Len(tail) : blob[Len(head) + j] = tail[j]
  <2>1. /\ head \o tail \in Seq(Chunks) /\ Len(head \o tail) = Len(head) + Len(tail)
        /\ Len(tail) \in Nat
        /\ \A j \in 1 .. Len(head) : (head \o tail)[j] = head[j]
        /\ \A j \in 1 .. Len(tail) : (head \o tail)[Len(head) + j] = tail[j]
    <3>1. head \in Seq(Chunks) /\ tail \in Seq(Chunks)
      BY <1>5, <1>6
    <3> QED BY <3>1, TwoJoined
  <2> QED BY <1>2, <2>1
<1>8. Blob!Size(head) = 8
  <2>1. /\ Lengths(head) \in Seq(Int) /\ Len(Lengths(head)) = Len(head)
        /\ \A i \in 1 .. Len(head) : Lengths(head)[i] = head[i].n /\ Lengths(head)[i] \in Nat
        /\ Blob!Size(head) = Total(Lengths(head))
    <3>1. head \in Seq(Chunks)
      BY <1>5
    <3> QED BY <3>1, LengthsType
  <2> DEFINE x == Lengths(head)
             f == SumUpTo(x)
  <2>2. Len(x) = 2 /\ x[1] = 4 /\ x[2] = 4
    BY <1>3, <1>4, <1>5, <2>1
  <2>3. /\ Total(x) = f[2]
        /\ f[0] = 0
        /\ \A i \in 1 .. 2 : f[i] = f[i - 1] + x[i]
    <3>1. Len(x) \in Nat
      BY <2>2
    <3>2. /\ Total(x) = SumUpTo(x)[Len(x)]
          /\ SumUpTo(x)[0] = 0
          /\ \A i \in 1 .. Len(x) : SumUpTo(x)[i] = SumUpTo(x)[i - 1] + x[i]
      <4> HIDE DEF x
      <4> QED BY <3>1, SumsDef
    <3> QED BY <2>2, <3>2
  <2> HIDE DEF f
  <2>4. f[1] = 0 + 4 /\ f[2] = f[1] + 4
    <3>1. 1 \in 1 .. 2 /\ 2 \in 1 .. 2 /\ 1 - 1 = 0 /\ 2 - 1 = 1
      OBVIOUS
    <3> QED BY <2>2, <2>3, <3>1
  <2> QED BY <2>1, <2>3, <2>4
<1>9. Blob!Size(blob) = 8 + Blob!Size(tail)
  <2>1. Blob!Size(head \o tail) = Blob!Size(head) + Blob!Size(tail)
    <3>1. head \in Seq(Chunks) /\ tail \in Seq(Chunks)
      BY <1>5, <1>6
    <3> QED BY <3>1, SizeJoined
  <2> QED BY <1>2, <1>8, <2>1
<1>10. blob[1] = magic /\ blob[2] = count
  BY <1>5, <1>7
<1> QED BY <1>4, <1>5, <1>6, <1>7, <1>9, <1>10 DEF tail, magic

\* FromBlob in terms of what was read up to the end.
LEMMA FromBlobDef ==
    ASSUME NEW blob
    PROVE  LET count == blob[2].v
               all   == ReadUpTo(count, blob)[count]
           IN Blob!FromBlob(blob) =
                  IF ~Blob!IsBinary(blob) \/ Len(blob) < 2 THEN None
                  ELSE IF count > (Blob!Size(blob) - 8) \div Blob!MinProof THEN None
                  ELSE IF all.next > Len(blob) + 1 THEN None
                  ELSE all.proofs
BY DEF Blob!FromBlob, ReadUpTo, IsReadUpTo

\* What was stored as a blob is read back, proof for proof.
LEMMA BlobReadsBack ==
    ASSUME NEW ps \in Seq(Proof), \A p \in Range(ps) : p.id \notin NotHex
    PROVE  Blob!ToBlob(ps) # None /\ Blob!FromBlob(Blob!ToBlob(ps)) = ps
<1> DEFINE seqs == ChunkLists(ps)
           tail == Joined(seqs)
           blob == Blob!ToBlob(ps)
           n == Len(ps)
           f == ReadUpTo(n, blob)
           pos(k) == 3 + Len(Flat(seqs, k))
<1>1. /\ seqs \in Seq(Seq(Chunks)) /\ Len(seqs) = n
      /\ \A i \in 1 .. n : /\ seqs[i] = Blob!ProofChunks(ps[i]) /\ ps[i] \in Proof
                           /\ Blob!Size(seqs[i]) >= 20
  BY ChunkListsType
<1>2. n \in Nat /\ DOMAIN ps = 1 .. n
  BY LenProperties
<1>3. /\ blob \in Seq(Chunks) /\ tail \in Seq(Chunks)
      /\ Len(blob) = 2 + Len(tail) /\ Len(tail) \in Nat
      /\ blob[1] = Blob!Magic /\ blob[2].v = n
      /\ \A j \in 1 .. Len(tail) : blob[2 + j] = tail[j]
      /\ Blob!Size(blob) = 8 + Blob!Size(tail)
  BY BlobForm
<1>4. blob # None
  BY <1>3, NoneApart
<1> HIDE DEF blob, seqs
<1>5. /\ tail = Flat(seqs, n) /\ Flat(seqs, 0) = <<>>
  BY <1>1, FlatDef
<1>6. ASSUME NEW i \in 0 .. (n - 1)
      PROVE  /\ Len(Flat(seqs, i)) \in Nat
             /\ Len(Flat(seqs, i + 1)) = Len(Flat(seqs, i)) + Len(seqs[i + 1])
             /\ Len(Flat(seqs, i + 1)) <= Len(tail)
             /\ \A j \in 1 .. Len(seqs[i + 1]) : tail[Len(Flat(seqs, i)) + j] = seqs[i + 1][j]
             /\ Len(seqs[i + 1]) \in Nat
  <2>1. i \in 0 .. (Len(seqs) - 1) /\ seqs \in Seq(Seq(Chunks))
    BY <1>1
  <2>2. seqs[i + 1] \in Seq(Chunks)
    <3>1. i + 1 \in 1 .. Len(seqs)
      BY <1>1, <1>2
    <3> QED BY <2>1, <3>1, ElementOfSeq
  <2>3. Len(seqs[i + 1]) \in Nat
    BY <2>2, LenProperties
  <2> QED BY <2>1, <2>3, FlatAt
<1> HIDE DEF tail
<1>7. \A i \in 0 .. (n - 1) :
          Blob!ReadProof(blob, pos(i)) = [proof |-> ps[i + 1], next |-> pos(i + 1)]
  <2>1. SUFFICES ASSUME NEW i \in 0 .. (n - 1)
                 PROVE  Blob!ReadProof(blob, pos(i)) =
                            [proof |-> ps[i + 1], next |-> pos(i + 1)]
    OBVIOUS
  <2> DEFINE p == ps[i + 1]
             c == Blob!ProofChunks(p)
             a == Len(Flat(seqs, i))
             b == Len(Flat(seqs, i + 1))
             at == pos(i)
  <2>2. p \in Proof /\ c = seqs[i + 1]
    BY <1>1, <1>2
  <2>3. /\ a \in Nat /\ Len(c) \in Nat /\ b = a + Len(c) /\ b <= Len(tail)
        /\ \A j \in 1 .. Len(c) : tail[a + j] = c[j]
    BY <1>6, <2>2
  <2>4. at = 3 + a /\ pos(i + 1) = 3 + b
    OBVIOUS
  <2> HIDE DEF a, b, c, at, p, pos
  <2>5. at \in Nat /\ Len(blob) \in Nat
    BY <1>3, <2>3, <2>4
  <2>6. \A j \in 1 .. Len(c) : at + (j - 1) <= Len(blob) /\ blob[at + (j - 1)] = c[j]
    <3>1. SUFFICES ASSUME NEW j \in 1 .. Len(c)
                   PROVE  at + (j - 1) <= Len(blob) /\ blob[at + (j - 1)] = c[j]
      OBVIOUS
    <3> DEFINE m == a + j
    <3>2. at + (j - 1) = 2 + m /\ m \in 1 .. Len(tail)
      BY <1>3, <2>3, <2>4
    <3>3. tail[m] = c[j]
      BY <2>3
    <3> HIDE DEF m
    <3>4. 2 + m <= Len(blob) /\ blob[2 + m] = tail[m]
      BY <1>3, <3>2
    <3> QED BY <3>2, <3>3, <3>4
  <2>7. Blob!ReadProof(blob, at) = [proof |-> p, next |-> at + Len(c)]
    <3>1. \A j \in 1 .. Len(Blob!ProofChunks(p)) :
               /\ at + (j - 1) <= Len(blob)
               /\ blob[at + (j - 1)] = Blob!ProofChunks(p)[j]
      BY <2>6 DEF c
    <3> QED BY <2>2, <2>5, <3>1, ReadsOne DEF c
  <2>8. at + Len(c) = pos(i + 1)
    BY <2>3, <2>4
  <2> QED BY <2>7, <2>8 DEF at, p
<1>8. /\ f[0] = [proofs |-> <<>>, next |-> 3]
      /\ \A k \in 1 .. n : LET before == f[k - 1]
                               one    == Blob!ReadProof(blob, before.next)
                           IN f[k] = [proofs |-> Append(before.proofs, one.proof), next |-> one.next]
  BY <1>2, ReadDef
<1> HIDE DEF f
<1> DEFINE Good(k) == /\ f[k].next = pos(k)
                      /\ f[k].proofs \in Seq(Proof) /\ Len(f[k].proofs) = k
                      /\ \A j \in 1 .. k : f[k].proofs[j] = ps[j]
           S == {k \in 0 .. n : Good(k)}
<1>9. pos(0) = 3
  BY <1>5
<1> HIDE DEF pos
<1>10. 0 \in S
  <2>1. f[0].proofs = <<>> /\ f[0].next = pos(0)
    BY <1>8, <1>9
  <2> DEFINE u == f[0].proofs
  <2>2. u \in Seq(Proof) /\ Len(u) = 0
    BY <2>1
  <2>3. 0 \in 0 .. n /\ \A j \in 1 .. 0 : u[j] = ps[j]
    BY <1>2
  <2> QED BY <2>1, <2>2, <2>3
<1>11. ASSUME NEW i \in 0 .. (n - 1), i \in S
       PROVE  i + 1 \in S
  <2> DEFINE u == f[i].proofs
             p == ps[i + 1]
  <2>1. i + 1 \in 1 .. n /\ (i + 1) - 1 = i /\ i + 1 \in 0 .. n /\ p \in Proof
    BY <1>1, <1>2
  <2>2. f[i].next = pos(i) /\ u \in Seq(Proof) /\ Len(u) = i /\ \A j \in 1 .. i : u[j] = ps[j]
    BY <1>11
  <2>3. Blob!ReadProof(blob, f[i].next) = [proof |-> p, next |-> pos(i + 1)]
    BY <1>7, <2>2
  <2>4. f[i + 1] = [proofs |-> Append(u, Blob!ReadProof(blob, f[i].next).proof),
                    next |-> Blob!ReadProof(blob, f[i].next).next]
    BY <1>8, <2>1
  <2>5. f[i + 1].proofs = Append(u, p) /\ f[i + 1].next = pos(i + 1)
    BY <2>3, <2>4
  <2> HIDE DEF u
  <2>6. /\ Append(u, p) \in Seq(Proof) /\ Len(Append(u, p)) = i + 1
        /\ \A j \in 1 .. (i + 1) : Append(u, p)[j] = ps[j]
    <3> HIDE DEF p
    <3>1. /\ Append(u, p) \in Seq(Proof) /\ Len(Append(u, p)) = Len(u) + 1
          /\ \A j \in 1 .. Len(u) : Append(u, p)[j] = u[j]
          /\ Append(u, p)[Len(u) + 1] = p
      BY <2>1, <2>2, AppendProperties
    <3>2. \A j \in 1 .. (i + 1) : j \in 1 .. i \/ j = i + 1
      BY <1>2
    <3> QED BY <2>2, <3>1, <3>2 DEF p
  <2> QED BY <2>1, <2>5, <2>6
<1>12. \A k \in 0 .. n : k \in S
  <2> HIDE DEF S, n
  <2> QED BY <1>2, <1>10, <1>11, Upwards
<1>13. Good(n)
  BY <1>2, <1>12
<1>14. f[n].proofs = ps
  BY <1>2, <1>13, SeqEqual
<1>15. f[n].next = Len(blob) + 1
  BY <1>3, <1>5, <1>13 DEF pos
<1>16. ~(n > (Blob!Size(blob) - 8) \div Blob!MinProof)
  <2> DEFINE s == Blob!Size(tail)
  <2>1. s \in Nat
    BY <1>3, LengthsType
  <2>2. s >= 20 * n
    <3>1. \A i \in 1 .. Len(seqs) : Blob!Size(seqs[i]) >= 20
      BY <1>1
    <3> QED BY <1>1, <3>1, SizeOfFlat DEF tail
  <2> HIDE DEF s
  <2>3. ~(n > s \div 20)
    BY <1>2, <2>1, <2>2
  <2>4. Blob!Size(blob) - 8 = s
    BY <1>3, <2>1 DEF s
  <2> QED BY <2>3, <2>4 DEF Blob!MinProof
<1>17. Blob!FromBlob(blob) = f[n].proofs
  <2>1. f[n] = ReadUpTo(n, blob)[n] /\ blob[2].v = n
    BY <1>3 DEF f
  <2> HIDE DEF n
  <2>2. Blob!IsBinary(blob) /\ ~(Len(blob) < 2)
    <3>1. blob # <<>>
      BY <1>3
    <3> QED BY <1>3, <3>1 DEF Blob!IsBinary
  <2>3. Blob!FromBlob(blob) =
            IF ~Blob!IsBinary(blob) \/ Len(blob) < 2 THEN None
            ELSE IF n > (Blob!Size(blob) - 8) \div Blob!MinProof THEN None
            ELSE IF f[n].next > Len(blob) + 1 THEN None
            ELSE f[n].proofs
    BY <2>1, FromBlobDef
  <2>4. ~(f[n].next > Len(blob) + 1)
    BY <1>3, <1>15
  <2> QED BY <1>16, <2>2, <2>3, <2>4
<1> QED BY <1>4, <1>14, <1>17 DEF blob

----------
\* What an object has of a record's fields, and what they say.
LEMMA WrittenHas ==
    ASSUME NEW o, NEW key
    PROVE  /\ key \in DOMAIN Json!Written(o) <=> key \in DOMAIN o /\ o[key] # None
           /\ key \in DOMAIN Json!Written(o) => Json!Written(o)[key] = o[key]
BY DEF Json!Written

\* A DLEQ is read as it was written.
LEMMA DleqReads ==
    ASSUME NEW d \in Dleq
    PROVE  Json!DleqJson(d) # None /\ Json!DleqFrom(Json!DleqJson(d)) = d
<1> DEFINE o == [e |-> d.e, s |-> d.s, r |-> d.r]
           w == Json!DleqJson(d)
<1>1. /\ d.e \in Int /\ d.s \in Int /\ d.r \in Int \cup {None}
      /\ d = [e |-> d.e, s |-> d.s, r |-> d.r]
  BY DEF Dleq
<1>2. w = Json!Written(o)
  BY DEF Json!DleqJson
<1>3. DOMAIN o = {"e", "s", "r"} /\ o["e"] = d.e /\ o["s"] = d.s /\ o["r"] = d.r
  OBVIOUS
<1>4. d.e # None /\ d.s # None
  BY <1>1, NoneApart
<1> HIDE DEF w, o
<1>5. /\ "e" \in DOMAIN w /\ w["e"] = d.e /\ "s" \in DOMAIN w /\ w["s"] = d.s
      /\ "r" \in DOMAIN w <=> d.r # None
      /\ "r" \in DOMAIN w => w["r"] = d.r
  BY <1>2, <1>3, <1>4, WrittenHas
<1>6. Json!DleqFrom(w) = [e |-> d.e, s |-> d.s, r |-> d.r]
  <2>1. Json!Has(w, {"e", "s"})
    BY <1>5 DEF Json!Has
  <2>2. Json!Get(w, "r") = d.r
    BY <1>5 DEF Json!Get
  <2>3. w.e = d.e /\ w.s = d.s
    BY <1>5
  <2> QED BY <2>1, <2>2, <2>3 DEF Json!DleqFrom
<1>7. w # None
  <2> DEFINE D == {f \in DOMAIN o : o[f] # None}
  <2>1. w = [key \in D |-> o[key]]
    BY <1>2 DEF Json!Written
  <2>2. D \in SUBSET {"e", "s", "r"}
    BY <1>3
  <2>3. \A key \in D : o[key] \in Int
    BY <1>1, <1>3
  <2> HIDE DEF D
  <2>4. w \in [D -> Int]
    BY <2>1, <2>3
  <2> QED BY <2>2, <2>4, NoneApart
<1> QED BY <1>1, <1>6, <1>7 DEF w

\* The bounds of the code's readers are one.
LEMMA OneBound == /\ \A n : n \in Json!Int32 <=> n \in Nat /\ n <= MaxInt
                  /\ MaxInt \in Nat /\ MaxInt = Codec!MaxInt32
<1>1. MaxInt \in Nat /\ MaxInt = Codec!MaxInt32 /\ MaxInt = Json!MaxInt32
  BY SMT DEF MaxInt, Codec!MaxInt32, Json!MaxInt32
<1> QED BY <1>1 DEF Json!Int32

\* A proof is read as it was written, if its amount is in range.
LEMMA ProofReads ==
    ASSUME NEW p \in Proof
    PROVE  Json!ProofFrom(Json!ProofJson(p)) = IF p.amount \in Json!Int32 THEN p ELSE None
<1> DEFINE dj == IF p.dleq = None THEN None ELSE Json!DleqJson(p.dleq)
           o == [id |-> p.id, amount |-> p.amount, secret |-> p.secret, C |-> p.C,
                 dleq |-> dj, witness |-> p.witness]
           w == Json!ProofJson(p)
<1>1. /\ p.id \in Ids /\ p.amount \in Int /\ p.secret \in Int /\ p.C \in Int
      /\ p.dleq \in Dleq \cup {None}
      /\ p = [id |-> p.id, amount |-> p.amount, secret |-> p.secret, C |-> p.C,
              dleq |-> p.dleq, witness |-> p.witness]
  BY DEF Proof
<1>2. w = Json!Written(o)
  BY DEF Json!ProofJson
<1>3. p.id # None /\ p.amount # None /\ p.secret # None /\ p.C # None
  BY <1>1, NoneApart
<1>4. (dj # None <=> p.dleq # None) /\ (dj # None => Json!DleqFrom(dj) = p.dleq)
  BY <1>1, DleqReads
<1> HIDE DEF dj, w
<1>5. /\ DOMAIN o = {"id", "amount", "secret", "C", "dleq", "witness"}
      /\ o["id"] = p.id /\ o["amount"] = p.amount /\ o["secret"] = p.secret
      /\ o["C"] = p.C /\ o["dleq"] = dj /\ o["witness"] = p.witness
  OBVIOUS
<1> HIDE DEF o
<1>6. /\ "id" \in DOMAIN w /\ w["id"] = p.id
      /\ "amount" \in DOMAIN w /\ w["amount"] = p.amount
      /\ "secret" \in DOMAIN w /\ w["secret"] = p.secret
      /\ "C" \in DOMAIN w /\ w["C"] = p.C
      /\ "dleq" \in DOMAIN w <=> dj # None
      /\ "dleq" \in DOMAIN w => w["dleq"] = dj
      /\ "witness" \in DOMAIN w <=> p.witness # None
      /\ "witness" \in DOMAIN w => w["witness"] = p.witness
  BY <1>2, <1>3, <1>5, WrittenHas
<1>7. Json!Has(w, {"id", "secret", "C"}) /\ (Json!HasInt(w, "amount") <=> p.amount \in Json!Int32)
  BY <1>6 DEF Json!Has, Json!HasInt
<1>8. Json!DleqIn(w) = p.dleq
  <2>1. Json!Has(w, {"dleq"}) <=> dj # None
    BY <1>6 DEF Json!Has
  <2>2. dj # None => w.dleq = dj
    BY <1>6
  <2> QED BY <1>4, <2>1, <2>2 DEF Json!DleqIn
<1>9. Json!Get(w, "witness") = p.witness
  BY <1>6 DEF Json!Get
<1>10. w.id = p.id /\ w.amount = p.amount /\ w.secret = p.secret /\ w.C = p.C
  BY <1>6
<1> QED BY <1>1, <1>7, <1>8, <1>9, <1>10 DEF Json!ProofFrom, w

\* What was written as JSON is read back, proof for proof, or not at all if an amount
\* is out of range.
LEMMA JsonReads ==
    ASSUME NEW ps \in Seq(Proof)
    PROVE  Json!ProofsFrom([i \in DOMAIN ps |-> Json!ProofJson(ps[i])]) =
               IF \A p \in Range(ps) : p.amount \in Json!Int32 THEN ps ELSE None
<1> DEFINE arr == [i \in DOMAIN ps |-> Json!ProofJson(ps[i])]
           read == [i \in DOMAIN arr |-> Json!ProofFrom(arr[i])]
<1>1. Len(ps) \in Nat /\ DOMAIN ps = 1 .. Len(ps) /\ \A i \in DOMAIN ps : ps[i] \in Proof
  BY LenProperties, ElementOfSeq
<1>2. \A i \in DOMAIN ps : read[i] = IF ps[i].amount \in Json!Int32 THEN ps[i] ELSE None
  <2>1. SUFFICES ASSUME NEW i \in DOMAIN ps
                 PROVE  read[i] = IF ps[i].amount \in Json!Int32 THEN ps[i] ELSE None
    OBVIOUS
  <2>2. ps[i] \in Proof
    BY <1>1
  <2>3. read[i] = Json!ProofFrom(Json!ProofJson(ps[i]))
    OBVIOUS
  <2> QED BY <2>2, <2>3, ProofReads
<1>3. DOMAIN read = DOMAIN ps
  OBVIOUS
<1>4. Json!ProofsFrom(arr) = IF None \in Json!Range(read) THEN None ELSE read
  BY DEF Json!ProofsFrom, Json!AllRead
<1> HIDE DEF read, arr
<1>5. CASE \A p \in Range(ps) : p.amount \in Json!Int32
  <2>1. \A i \in DOMAIN ps : read[i] = ps[i]
    BY <1>2, <1>5 DEF Range
  <2>2. read = ps
    <3>1. read = [i \in DOMAIN read |-> read[i]]
      BY DEF read
    <3> QED BY <1>1, <1>3, <2>1, <3>1
  <2>3. None \notin Json!Range(read)
    BY <1>1, <2>2, NoneApart DEF Json!Range
  <2> QED BY <1>4, <1>5, <2>2, <2>3 DEF arr
<1>6. CASE ~\A p \in Range(ps) : p.amount \in Json!Int32
  <2>1. PICK i \in DOMAIN ps : ps[i].amount \notin Json!Int32
    BY <1>6 DEF Range
  <2>2. None \in Json!Range(read)
    BY <1>2, <1>3, <2>1 DEF Json!Range
  <2> QED BY <1>4, <1>6, <2>2 DEF arr
<1> QED BY <1>5, <1>6

----------
\* The first hit is one of the hits.
LEMMA FirstFound ==
    ASSUME NEW S, NEW s \in Seq(S), None \notin S, NEW hits, hits \subseteq 1 .. Len(s)
    PROVE  /\ FirstOf(s, hits) = None <=> hits = {}
           /\ hits # {} => \E i \in hits : FirstOf(s, hits) = s[i]
<1>1. Len(s) \in Nat /\ \A i \in 1 .. Len(s) : s[i] \in S
  BY LenProperties, ElementOfSeq
<1>2. CASE hits = {}
  BY <1>2 DEF FirstOf
<1>3. CASE hits # {}
  <2>1. hits \subseteq Nat
    BY <1>1
  <2>2. PICK i \in hits : \A j \in hits : ~(<<j, i>> \in Below)
    BY <1>3, <2>1, BelowWellFounded, WFMin
  <2>3. \A j \in hits : i <= j
    <3>1. SUFFICES ASSUME NEW j \in hits PROVE i <= j
      OBVIOUS
    <3>2. i \in Nat /\ j \in Nat /\ ~(<<j, i>> \in Below)
      BY <2>1, <2>2
    <3> QED BY <3>2 DEF Below
  <2>4. Min(hits) \in hits
    BY <2>3 DEF Min
  <2>5. FirstOf(s, hits) = s[Min(hits)]
    BY <1>3 DEF FirstOf
  <2> QED BY <1>1, <1>3, <2>4, <2>5
<1> QED BY <1>2, <1>3

\* The elements of a list are those at its positions.
LEMMA InRange ==
    ASSUME NEW S, NEW s \in Seq(S)
    PROVE  /\ Len(s) \in Nat /\ DOMAIN s = 1 .. Len(s)
           /\ \A i \in 1 .. Len(s) : s[i] \in Range(s)
           /\ \A x \in Range(s) : \E i \in 1 .. Len(s) : x = s[i]
BY LenProperties, ElementOfSeq DEF Range

\* The elements of a list over a set are of that set.
LEMMA OfTheSet ==
    ASSUME NEW S, NEW s \in Seq(S)
    PROVE  /\ \A i \in 1 .. Len(s) : s[i] \in S
           /\ \A x \in Range(s) : x \in S
BY LenProperties, ElementOfSeq DEF Range

\* What is kept was there.
LEMMA KeptRange ==
    ASSUME NEW S, NEW s \in Seq(S), NEW T
    PROVE  Kept(s, T) \in Seq(S) /\ Range(Kept(s, T)) \subseteq Range(s)
<1> DEFINE w == Kept(s, T)
<1>1. w \in Seq(S) /\ \A k \in 1 .. Len(w) : \E i \in T \cap (1 .. Len(s)) : w[k] = s[i]
  BY KeptElements
<1>2. \A x \in Range(w) : \E k \in 1 .. Len(w) : x = w[k]
  BY <1>1, InRange, OfTheSet
<1>3. \A i \in 1 .. Len(s) : s[i] \in Range(s)
  BY InRange, OfTheSet
<1> QED BY <1>1, <1>2, <1>3

\* One list after the other has the elements of both.
LEMMA RangeJoined ==
    ASSUME NEW S, NEW u \in Seq(S), NEW v \in Seq(S)
    PROVE  u \o v \in Seq(S) /\ Range(u \o v) = Range(u) \cup Range(v)
<1> DEFINE w == u \o v
           m == Len(u)
           n == Len(v)
<1>1. /\ m \in Nat /\ n \in Nat /\ w \in Seq(S) /\ Len(w) = m + n
      /\ \A j \in 1 .. m : w[j] = u[j]
      /\ \A j \in 1 .. n : w[m + j] = v[j]
  BY TwoJoined
<1>2. DOMAIN u = 1 .. m /\ DOMAIN v = 1 .. n
  BY LenProperties
<1> HIDE DEF w, m, n
<1>3. DOMAIN w = 1 .. (m + n)
  BY <1>1, LenProperties
<1>4. \A k \in 1 .. (m + n) : k \in 1 .. m \/ (k - m \in 1 .. n /\ m + (k - m) = k)
  BY <1>1
<1>5. \A j \in 1 .. m : j \in 1 .. (m + n)
  BY <1>1
<1>6. \A j \in 1 .. n : m + j \in 1 .. (m + n)
  BY <1>1
<1>7. Range(w) \subseteq Range(u) \cup Range(v)
  <2>1. SUFFICES ASSUME NEW k \in 1 .. (m + n) PROVE w[k] \in Range(u) \cup Range(v)
    BY <1>3 DEF Range
  <2>2. CASE k \in 1 .. m
    BY <1>1, <1>2, <2>2 DEF Range
  <2>3. CASE k - m \in 1 .. n /\ m + (k - m) = k
    <3>1. w[m + (k - m)] = v[k - m]
      BY <1>1, <2>3
    <3> QED BY <1>2, <2>3, <3>1 DEF Range
  <2> QED BY <1>4, <2>2, <2>3
<1>8. Range(u) \subseteq Range(w)
  BY <1>1, <1>2, <1>3, <1>5 DEF Range
<1>9. Range(v) \subseteq Range(w)
  BY <1>1, <1>2, <1>3, <1>6 DEF Range
<1> QED BY <1>1, <1>7, <1>8, <1>9 DEF w

\* A keyset is found by its id when there is one.
LEMMA KeysetFound ==
    ASSUME NEW ks \in Seq(KeysetRecord), NEW id
    PROVE  /\ KeysetForId(ks, id) # None <=> \E k \in Range(ks) : k.id = id
           /\ KeysetForId(ks, id) # None => /\ KeysetForId(ks, id) \in Range(ks)
                                            /\ KeysetForId(ks, id) \in KeysetRecord
                                            /\ KeysetForId(ks, id).id = id
<1> DEFINE hits == {i \in DOMAIN ks : ks[i].id = id}
<1>1. /\ DOMAIN ks = 1 .. Len(ks)
      /\ \A i \in 1 .. Len(ks) : ks[i] \in KeysetRecord /\ ks[i] \in Range(ks)
      /\ \A x \in Range(ks) : \E i \in 1 .. Len(ks) : x = ks[i]
  BY InRange, OfTheSet
<1>2. None \notin KeysetRecord
  BY NoneApart
<1>3. KeysetForId(ks, id) = FirstOf(ks, hits)
  BY DEF KeysetForId
<1>4. hits \subseteq 1 .. Len(ks)
  BY <1>1
<1>5. hits # {} <=> \E k \in Range(ks) : k.id = id
  BY <1>1
<1>6. \A i \in hits : ks[i].id = id /\ i \in 1 .. Len(ks)
  BY <1>1
<1> HIDE DEF hits
<1>7. /\ FirstOf(ks, hits) = None <=> hits = {}
      /\ hits # {} => \E i \in hits : FirstOf(ks, hits) = ks[i]
  BY <1>2, <1>4, FirstFound
<1> QED BY <1>1, <1>3, <1>5, <1>6, <1>7

\* The keyset a flow uses is a known one, active and of the unit asked for.
LEMMA ActiveFound ==
    ASSUME NEW ks \in Seq(KeysetRecord), NEW unit, ActiveForMint(ks, unit) # None
    PROVE  /\ ActiveForMint(ks, unit) \in Range(ks)
           /\ ActiveForMint(ks, unit) \in KeysetRecord
           /\ ActiveForMint(ks, unit).unit = unit
<1> DEFINE hits == {i \in DOMAIN ks : ks[i].active /\ ks[i].unit = unit /\ ks[i].mintable}
<1>1. /\ DOMAIN ks = 1 .. Len(ks)
      /\ \A i \in 1 .. Len(ks) : ks[i] \in KeysetRecord /\ ks[i] \in Range(ks)
  BY InRange, OfTheSet
<1>2. None \notin KeysetRecord
  BY NoneApart
<1>3. ActiveForMint(ks, unit) = FirstOf(ks, hits)
  BY DEF ActiveForMint
<1>4. hits \subseteq 1 .. Len(ks)
  BY <1>1
<1>5. \A i \in hits : ks[i].unit = unit /\ i \in 1 .. Len(ks)
  BY <1>1
<1> HIDE DEF hits
<1>6. /\ FirstOf(ks, hits) = None <=> hits = {}
      /\ hits # {} => \E i \in hits : FirstOf(ks, hits) = ks[i]
  BY <1>2, <1>4, FirstFound
<1> QED BY <1>1, <1>3, <1>5, <1>6

\* The mint's keysets are among those a wallet may know.
LEMMA RefreshedWell ==
    ASSUME NEW ks, AreTheMints(ks)
    PROVE  AreTheMints(Refreshed(ks)) /\ Range(ks) \subseteq Range(Refreshed(ks))
<1> DEFINE T == {i \in DOMAIN Keysets :
                    Keysets[i].active /\ KeysetForId(ks, Keysets[i].id) = None}
           new == Kept(Keysets, T)
           both == ks \o new
           m == Len(ks)
           n == Len(new)
<1>1. Refreshed(ks) = both
  BY DEF Refreshed
<1>2. /\ ks \in Seq(KeysetRecord) /\ OnceEach(ks)
      /\ \A k \in Range(ks) : \E x \in Range(Keysets) : k = [x EXCEPT !.active = k.active]
  BY DEF AreTheMints
<1>3. /\ Keysets \in Seq(KeysetRecord) /\ OnceEach(Keysets)
  BY MintAssumption
<1>4. new \in Seq(KeysetRecord) /\ Range(new) \subseteq Range(Keysets)
  BY <1>3, KeptRange
<1>5. both \in Seq(KeysetRecord) /\ Range(both) = Range(ks) \cup Range(new)
  <2> HIDE DEF new, m
  <2> QED BY <1>2, <1>4, RangeJoined
<1>6. \A k \in Range(both) : \E x \in Range(Keysets) : k = [x EXCEPT !.active = k.active]
  <2>1. \A x \in KeysetRecord : x = [x EXCEPT !.active = x.active]
    BY DEF KeysetRecord
  <2>2. Range(Keysets) \subseteq KeysetRecord
    BY <1>3, InRange, OfTheSet
  <2> QED BY <1>2, <1>4, <1>5, <2>1, <2>2
<1>7. OnceEach(both)
  <2> DEFINE at == Places(Len(Keysets), T)
  <2>1. /\ m \in Nat /\ n \in Nat /\ Len(both) = m + n
        /\ \A j \in 1 .. m : both[j] = ks[j]
        /\ \A j \in 1 .. n : both[m + j] = new[j]
    BY <1>2, <1>4, TwoJoined
  <2>2. DOMAIN both = 1 .. (m + n) /\ DOMAIN ks = 1 .. m
    BY <1>2, <1>5, <2>1, LenProperties
  <2>3. /\ DOMAIN Keysets = 1 .. Len(Keysets) /\ Len(Keysets) \in Nat
        /\ \A i \in 1 .. Len(ks) : ks[i] \in Range(ks)
    BY <1>2, <1>3, InRange, OfTheSet
  <2>4. n = Len(at) /\ \A k \in 1 .. n : new[k] = Keysets[at[k]]
    BY <1>3, KeptAtPlaces
  <2>5. /\ at \in Seq(T \cap (1 .. Len(Keysets)))
        /\ \A i, j \in 1 .. Len(at) : i < j => at[i] < at[j]
    <3> HIDE DEF T
    <3>1. ListsInOrder(at, T \cap (1 .. Len(Keysets)))
      BY <2>3, PlacesOrdered
    <3> QED BY <3>1 DEF ListsInOrder
  <2>6. \A k \in 1 .. n : at[k] \in T /\ at[k] \in 1 .. Len(Keysets)
    <3> HIDE DEF T, at
    <3>1. \A k \in 1 .. Len(at) : at[k] \in T \cap (1 .. Len(Keysets))
      BY <2>5, ElementOfSeq
    <3> QED BY <2>4, <3>1
  <2>7. \A i, j \in 1 .. n : new[i].id = new[j].id => i = j
    <3>1. SUFFICES ASSUME NEW i \in 1 .. n, NEW j \in 1 .. n, new[i].id = new[j].id
                   PROVE  i = j
      OBVIOUS
    <3>2. at[i] = at[j]
      BY <1>3, <2>3, <2>4, <2>6, <3>1 DEF OnceEach
    <3>3. at[i] \in Nat
      BY <2>6
    <3> HIDE DEF at, new, n
    <3>4. ~(i < j) /\ ~(j < i)
      BY <2>4, <2>5, <3>2, <3>3
    <3> QED BY <2>1, <3>4
  <2>8. \A i \in 1 .. m, j \in 1 .. n : ks[i].id # new[j].id
    <3>1. SUFFICES ASSUME NEW i \in 1 .. m, NEW j \in 1 .. n PROVE ks[i].id # new[j].id
      OBVIOUS
    <3>2. KeysetForId(ks, new[j].id) = None
      BY <2>4, <2>6
    <3> DEFINE id == new[j].id
    <3> HIDE DEF id
    <3>3. ~ \E k \in Range(ks) : k.id = id
      BY <1>2, <3>2, KeysetFound DEF id
    <3> QED BY <2>3, <3>3 DEF id
  <2> HIDE DEF m, n, new, both
  <2>9. \A i, j \in DOMAIN both : both[i].id = both[j].id => i = j
    <3>1. SUFFICES ASSUME NEW i \in 1 .. (m + n), NEW j \in 1 .. (m + n),
                          both[i].id = both[j].id
                   PROVE  i = j
      BY <2>2
    <3>2. \A k \in 1 .. (m + n) : k \in 1 .. m \/ (k - m \in 1 .. n /\ m + (k - m) = k)
      BY <2>1
    <3> DEFINE p == i - m
               q == j - m
    <3>3. /\ i \in 1 .. m \/ (p \in 1 .. n /\ m + p = i)
          /\ j \in 1 .. m \/ (q \in 1 .. n /\ m + q = j)
      BY <3>2
    <3> HIDE DEF p, q
    <3>4. CASE i \in 1 .. m /\ j \in 1 .. m
      BY <1>2, <2>1, <2>2, <3>1, <3>4 DEF OnceEach
    <3>5. CASE i \in 1 .. m /\ q \in 1 .. n /\ m + q = j
      BY <2>1, <2>8, <3>1, <3>5
    <3>6. CASE j \in 1 .. m /\ p \in 1 .. n /\ m + p = i
      BY <2>1, <2>8, <3>1, <3>6
    <3>7. CASE p \in 1 .. n /\ m + p = i /\ q \in 1 .. n /\ m + q = j
      <4>1. both[i] = new[p] /\ both[j] = new[q]
        BY <2>1, <3>7
      <4>2. p = q
        BY <2>7, <3>1, <3>7, <4>1
      <4> QED BY <3>7, <4>2
    <3> QED BY <3>3, <3>4, <3>5, <3>6, <3>7
  <2> QED BY <2>9 DEF OnceEach
<1> QED BY <1>1, <1>5, <1>6, <1>7 DEF AreTheMints

\* The keysets a flow works with after it may have asked for new ones.
LEMMA EnsuredWell ==
    ASSUME AreTheMints(known), NEW unit
    PROVE  AreTheMints(Ensured(unit)) /\ Range(known) \subseteq Range(Ensured(unit))
BY RefreshedWell DEF Ensured

\* A proof of a known keyset, whichever, pays for itself.
LEMMA AllPayable ==
    ASSUME NEW ks, AreTheMints(ks)
    PROVE  Payable(ks, Proof)
<1>1. /\ ks \in Seq(KeysetRecord)
      /\ \A k \in Range(ks) : \E m \in Range(Keysets) : k = [m EXCEPT !.active = k.active]
  BY DEF AreTheMints
<1>2. SUFFICES ASSUME NEW p \in Proof
               PROVE  /\ p.amount \in Nat /\ Ppk(ks, p) \in Nat
                      /\ Ppk(ks, p) <= 1000 * p.amount
  BY DEF Payable
<1>3. p.amount \in Nat /\ p.amount >= 1
  BY DEF Proof
<1> DEFINE k == KeysetForId(ks, p.id)
<1>4. Ppk(ks, p) = IF k = None THEN 0 ELSE k.input_fee_ppk
  BY DEF Ppk
<1>5. k # None => k \in Range(ks) /\ k \in KeysetRecord
  BY <1>1, KeysetFound
<1> HIDE DEF k
<1>6. k # None => k.input_fee_ppk \in Nat /\ k.input_fee_ppk <= 1000
  <2>1. ASSUME k # None PROVE k.input_fee_ppk \in Nat /\ k.input_fee_ppk <= 1000
    <3>1. PICK m \in Range(Keysets) : k = [m EXCEPT !.active = k.active]
      BY <1>1, <1>5, <2>1
    <3>2. m \in KeysetRecord
      BY MintAssumption, InRange, OfTheSet
    <3>3. k.input_fee_ppk = m.input_fee_ppk
      BY <3>1, <3>2 DEF KeysetRecord
    <3> QED BY <3>2, <3>3, FeesBearable DEF KeysetRecord
  <2> QED BY <2>1
<1> QED BY <1>3, <1>4, <1>6

----------
\* The wallet's and the mint's entry for a keyset the wallet knows agree.
LEMMA PpkAgrees ==
    ASSUME NEW ks, AreTheMints(ks), NEW p, \E k \in Range(ks) : k.id = p.id
    PROVE  /\ KeysetForId(Keysets, p.id) # None
           /\ Ppk(ks, p) = KeysetForId(Keysets, p.id).input_fee_ppk
           /\ Ppk(ks, p) \in Nat
<1> DEFINE id == p.id
           k == KeysetForId(ks, id)
           m == KeysetForId(Keysets, id)
<1>1. /\ ks \in Seq(KeysetRecord)
      /\ \A x \in Range(ks) : \E y \in Range(Keysets) : x = [y EXCEPT !.active = x.active]
  BY DEF AreTheMints
<1>2. Keysets \in Seq(KeysetRecord) /\ OnceEach(Keysets)
  BY MintAssumption
<1>3. k # None /\ k \in Range(ks) /\ k \in KeysetRecord /\ k.id = id
  BY <1>1, KeysetFound
<1>4. PICK y \in Range(Keysets) : k = [y EXCEPT !.active = k.active]
  BY <1>1, <1>3
<1>5. y \in KeysetRecord
  BY <1>2, OfTheSet
<1>6. y.id = id /\ y.input_fee_ppk = k.input_fee_ppk
  BY <1>3, <1>4, <1>5 DEF KeysetRecord
<1>7. m # None /\ m \in Range(Keysets) /\ m.id = id
  BY <1>2, <1>4, <1>6, KeysetFound
<1>8. m = y
  <2>1. /\ DOMAIN Keysets = 1 .. Len(Keysets)
        /\ \A x \in Range(Keysets) : \E i \in 1 .. Len(Keysets) : x = Keysets[i]
    BY <1>2, InRange
  <2> HIDE DEF m, id
  <2> QED BY <1>2, <1>4, <1>6, <1>7, <2>1 DEF OnceEach
<1>9. Ppk(ks, p) = k.input_fee_ppk
  BY <1>3 DEF Ppk
<1>10. k.input_fee_ppk \in Nat
  BY <1>3 DEF KeysetRecord
<1> QED BY <1>6, <1>7, <1>8, <1>9, <1>10

\* The fee the wallet works out is the one the mint takes.
LEMMA FeeAgrees ==
    ASSUME NEW ks, AreTheMints(ks), NEW S, NEW ps \in Seq(S), OfKnown(ks, ps)
    PROVE  MintFee(ps) = Fee(ks, ps) /\ Fee(ks, ps) \in Nat
<1> DEFINE v == [i \in DOMAIN ps |-> Ppk(ks, ps[i])]
           w == [i \in DOMAIN ps |-> KeysetForId(Keysets, ps[i].id).input_fee_ppk]
           x == Total(v)
<1>1. /\ Len(ps) \in Nat /\ DOMAIN ps = 1 .. Len(ps)
      /\ \A i \in 1 .. Len(ps) : ps[i] \in Range(ps)
  BY InRange
<1>2. \A i \in DOMAIN ps : Ppk(ks, ps[i]) = KeysetForId(Keysets, ps[i].id).input_fee_ppk
                           /\ Ppk(ks, ps[i]) \in Nat
  BY <1>1, PpkAgrees DEF OfKnown
<1>3. v = w
  BY <1>2
<1>4. v \in Seq(Int) /\ Len(v) = Len(ps) /\ \A i \in 1 .. Len(v) : v[i] \in Nat
  BY <1>1, <1>2
<1> HIDE DEF v
<1>5. x \in Nat
  BY <1>4, TotalType
<1>6. Fee(ks, ps) = (x + 999) \div 1000
  BY DEF Fee, PpkOfAll, v
<1>7. MintFee(ps) = CHOOSE fee \in 0 .. x : 1000 * fee >= x /\ 1000 * (fee - 1) < x
  BY <1>3 DEF MintFee
<1> HIDE DEF x
<1> DEFINE c == (x + 999) \div 1000
<1>8. c \in 0 .. x /\ 1000 * c >= x /\ 1000 * (c - 1) < x
  BY <1>5
<1>9. \A fee \in 0 .. x : 1000 * fee >= x /\ 1000 * (fee - 1) < x => fee = c
  BY <1>5
<1> HIDE DEF c
<1>10. (CHOOSE fee \in 0 .. x : 1000 * fee >= x /\ 1000 * (fee - 1) < x) = c
  BY <1>8, <1>9
<1> QED BY <1>5, <1>6, <1>7, <1>8, <1>10 DEF c

----------
(* Outputs and what becomes of them *)

\* A blinded message is a point.
LEMMA BlindType ==
    ASSUME NEW secret \in Int, NEW r \in Int, Sigs!Blind(secret, r) # None
    PROVE  Sigs!Blind(secret, r) \in Int
<1> DEFINE X == Sigs!HashToCurve(secret)
           Y == Sigs!Times(r, Sigs!G)
<1>1. X \in Int
  <2> DEFINE a == (secret * secret) % Q
             b == (a * 3 + secret * 7 + 5) % (Q - 1)
  <2>1. a \in Int
    BY OrderAssumption
  <2> HIDE DEF a
  <2>2. b \in Int
    BY <2>1, OrderAssumption
  <2>3. X = 1 + b
    BY DEF Sigs!HashToCurve, a
  <2> HIDE DEF b
  <2> QED BY <2>2, <2>3
<1>2. Y # None => Y \in Int
  BY OrderAssumption DEF Sigs!Times, Sigs!G, Sigs!Scalars
<1>3. Sigs!Blind(secret, r) = Sigs!Plus(X, Y)
  BY DEF Sigs!Blind
<1> HIDE DEF X, Y
<1> QED BY <1>1, <1>2, <1>3, OrderAssumption DEF Sigs!Plus

\* generate_outputs makes an output for each amount.
LEMMA GeneratesWell ==
    ASSUME NEW amounts \in Seq(Nat), NEW id \in Ids, counters \in [Ids -> Nat],
           Generate(amounts, id) # None
    PROVE  /\ IsMade(Generate(amounts, id), id)
           /\ Len(Generate(amounts, id).outputs) = Len(amounts)
           /\ \A i \in 1 .. Len(amounts) :
                  Generate(amounts, id).outputs[i].amount = amounts[i]
<1> DEFINE made == Generate(amounts, id)
           n == Len(amounts)
           secrets == [i \in DOMAIN amounts |-> Secret(id, counters[id] + i - 1)]
           factors == [i \in DOMAIN amounts |-> Factor(id, counters[id] + i - 1)]
           blinded == [i \in DOMAIN amounts |-> Sigs!Blind(secrets[i], factors[i])]
           outputs == [i \in DOMAIN amounts |->
                          [amount |-> amounts[i], B_ |-> blinded[i], id |-> id]]
<1>1. /\ n \in Nat /\ DOMAIN amounts = 1 .. n
      /\ \A i \in 1 .. n : amounts[i] \in Nat
  BY InRange, OfTheSet
<1>2. counters[id] \in Nat /\ IdNumber(id) \in Nat
  <2>1. DOMAIN IdOrder = 1 .. Len(IdOrder) /\ Len(IdOrder) \in Nat
    BY IdsListed, InRange
  <2>2. \E i \in DOMAIN IdOrder : IdOrder[i] = id
    BY DEF Ids, Range
  <2>3. IdNumber(id) \in DOMAIN IdOrder
    BY <2>2 DEF IdNumber
  <2> QED BY <2>1, <2>3
<1>3. \A i \in 1 .. n : Secret(id, counters[id] + i - 1) \in Int
                        /\ Factor(id, counters[id] + i - 1) \in Int
  <2> DEFINE c == counters[id]
             m == IdNumber(id)
  <2>1. \A i \in 1 .. n : Secret(id, c + i - 1) = 1000 * m + 2 * (c + i - 1) + 7
                          /\ Factor(id, c + i - 1) = 5000 + 700 * m + 13 * (c + i - 1)
    BY DEF Secret, Factor
  <2>2. c \in Nat /\ m \in Nat
    BY <1>2
  <2> HIDE DEF c, m
  <2>3. \A i \in 1 .. n : 1000 * m + 2 * (c + i - 1) + 7 \in Int
                          /\ 5000 + 700 * m + 13 * (c + i - 1) \in Int
    BY <1>1, <2>2
  <2>4. \A i \in 1 .. n : Secret(id, c + i - 1) \in Int /\ Factor(id, c + i - 1) \in Int
    BY <2>1, <2>3
  <2> QED BY <2>4 DEF c
<1>4. /\ secrets \in Seq(Int) /\ Len(secrets) = n
      /\ factors \in Seq(Int) /\ Len(factors) = n
      /\ \A i \in 1 .. n : secrets[i] \in Int /\ factors[i] \in Int
  <2> DEFINE s(i) == Secret(id, counters[id] + i - 1)
             t(i) == Factor(id, counters[id] + i - 1)
  <2>1. \A i \in 1 .. n : s(i) \in Int /\ t(i) \in Int
    BY <1>3
  <2> HIDE DEF s, t
  <2>2. [i \in 1 .. n |-> s(i)] \in Seq(Int) /\ Len([i \in 1 .. n |-> s(i)]) = n
    BY <1>1, <2>1
  <2>3. [i \in 1 .. n |-> t(i)] \in Seq(Int) /\ Len([i \in 1 .. n |-> t(i)]) = n
    BY <1>1, <2>1
  <2>4. secrets = [i \in 1 .. n |-> s(i)] /\ factors = [i \in 1 .. n |-> t(i)]
    BY <1>1 DEF s, t
  <2> HIDE DEF secrets, factors
  <2>5. \A i \in 1 .. n : secrets[i] = s(i) /\ factors[i] = t(i)
    BY <2>4
  <2> QED BY <2>1, <2>2, <2>3, <2>4, <2>5
<1>5. made = IF None \in Sigs!Range(blinded) THEN None
             ELSE [outputs |-> outputs, secrets |-> secrets, factors |-> factors]
  BY DEF Generate, Sigs!GenerateOutputs
<1>6. None \notin Sigs!Range(blinded)
  BY <1>5
<1> HIDE DEF secrets, factors
<1>7. \A i \in 1 .. n : blinded[i] \in Int
  <2>1. \A i \in 1 .. n : blinded[i] # None /\ blinded[i] = Sigs!Blind(secrets[i], factors[i])
    BY <1>1, <1>6 DEF Sigs!Range
  <2> QED BY <1>4, <2>1, BlindType
<1> HIDE DEF blinded
<1>8. /\ outputs \in Seq(Outputs(id)) /\ Len(outputs) = n
      /\ \A i \in 1 .. n : outputs[i].amount = amounts[i]
  <2>1. \A i \in 1 .. n : [amount |-> amounts[i], B_ |-> blinded[i], id |-> id] \in Outputs(id)
    BY <1>1, <1>7 DEF Outputs
  <2> QED BY <1>1, <2>1
<1> HIDE DEF outputs
<1>9. /\ made.outputs = outputs /\ made.secrets = secrets /\ made.factors = factors
  BY <1>5, <1>6
<1> QED BY <1>4, <1>8, <1>9 DEF IsMade

----------
\* A sequence over a set is a list.
LEMMA SeqIsList ==
    ASSUME NEW S, NEW s \in Seq(S)
    PROVE  IsList(s)
BY LenProperties DEF IsList

\* What the unblinding of one signature yields is a proof of the keyset.
LEMMA UnblindsOne ==
    ASSUME NEW k \in KeysetRecord, NEW g, SigWell(g, k), NEW B_,
           NEW secret \in Int, NEW r \in Int,
           Sigs!UnblindOne(g, B_, secret, r, k) # None
    PROVE  /\ Sigs!UnblindOne(g, B_, secret, r, k) \in Proof
           /\ Sigs!UnblindOne(g, B_, secret, r, k).id = k.id
           /\ Sigs!UnblindOne(g, B_, secret, r, k).amount = g.amount
<1> DEFINE K == k.keys[g.amount]
           C == Sigs!Unblind(g.C_, r, K)
           p == [id |-> k.id, amount |-> g.amount, secret |-> secret,
                 C |-> C, dleq |-> [e |-> g.dleq.e, s |-> g.dleq.s, r |-> r],
                 witness |-> None]
<1>1. /\ g.amount \in DOMAIN k.keys /\ g.dleq # None /\ C # None
      /\ Sigs!UnblindOne(g, B_, secret, r, k) = p
  BY DEF Sigs!UnblindOne
<1>2. k.keys \in Keys /\ k.id \in Ids
  BY DEF KeysetRecord
<1>3. K \in Int /\ g.amount \in Nat \ {0}
  BY <1>1, <1>2, MintAssumption
<1>4. g.C_ \in Int /\ g.dleq.e \in Int /\ g.dleq.s \in Int
  BY <1>1 DEF SigWell
<1> HIDE DEF K
<1>5. C \in Int
  <2> DEFINE Y == Sigs!Times(r, K)
             Z == Sigs!Negate(Y)
  <2>1. Y # None => Y \in Int
    BY <1>3, OrderAssumption DEF Sigs!Times, Sigs!Scalars
  <2>2. C = Sigs!Plus(g.C_, Z)
    BY DEF Sigs!Unblind
  <2> HIDE DEF Y
  <2>3. Z # None => Z \in Int
    BY <2>1, OrderAssumption DEF Sigs!Negate
  <2> HIDE DEF Z, C
  <2> QED BY <1>1, <1>4, <2>2, <2>3, OrderAssumption DEF Sigs!Plus
<1>6. [e |-> g.dleq.e, s |-> g.dleq.s, r |-> r] \in Dleq
  BY <1>4 DEF Dleq
<1> DEFINE d == [e |-> g.dleq.e, s |-> g.dleq.s, r |-> r]
<1> HIDE DEF C, d
<1>7. [id |-> k.id, amount |-> g.amount, secret |-> secret,
       C |-> C, dleq |-> d, witness |-> None] \in Proof
  BY <1>2, <1>3, <1>5, <1>6 DEF Proof, d
<1> QED BY <1>1, <1>7 DEF d

\* What unblind_signatures yields are proofs of the keyset and of the amounts signed.
LEMMA UnblindsWell ==
    ASSUME NEW k \in KeysetRecord, NEW id, NEW made, IsMade(made, id),
           NEW sigs, IsList(sigs), \A i \in 1 .. Len(sigs) : SigWell(sigs[i], k),
           Sigs!UnblindSignatures(sigs, made, k) # None
    PROVE  LET fresh == Sigs!UnblindSignatures(sigs, made, k)
           IN /\ fresh \in Seq(Proof) /\ Len(fresh) = Len(sigs)
              /\ Len(sigs) = Len(made.outputs)
              /\ \A i \in 1 .. Len(sigs) : /\ fresh[i].id = k.id
                                           /\ fresh[i].amount = sigs[i].amount
<1> DEFINE n == Len(sigs)
           one(i) == Sigs!UnblindOne(sigs[i], made.outputs[i].B_,
                                     made.secrets[i], made.factors[i], k)
           fresh == [i \in DOMAIN sigs |-> one(i)]
<1>1. /\ Sigs!UnblindSignatures(sigs, made, k) = fresh
      /\ n = Len(made.outputs) /\ None \notin Sigs!Range(fresh)
  BY DEF Sigs!UnblindSignatures
<1>2. n \in Nat /\ DOMAIN sigs = 1 .. n
  BY DEF IsList
<1>3. \A i \in 1 .. n : made.secrets[i] \in Int /\ made.factors[i] \in Int
  <2>1. /\ made.secrets \in Seq(Int) /\ Len(made.secrets) = n
        /\ made.factors \in Seq(Int) /\ Len(made.factors) = n
    BY <1>1 DEF IsMade
  <2>2. /\ \A i \in 1 .. Len(made.secrets) : made.secrets[i] \in Int
        /\ \A i \in 1 .. Len(made.factors) : made.factors[i] \in Int
    BY <2>1, OfTheSet
  <2> QED BY <2>1, <2>2
<1>4. \A i \in 1 .. n : one(i) # None
  BY <1>1, <1>2 DEF Sigs!Range
<1>5. \A i \in 1 .. n : one(i) \in Proof /\ one(i).id = k.id /\ one(i).amount = sigs[i].amount
  BY <1>2, <1>3, <1>4, UnblindsOne
<1> HIDE DEF one
<1>6. /\ fresh \in Seq(Proof) /\ Len(fresh) = n
      /\ \A i \in 1 .. n : fresh[i] = one(i)
  BY <1>2, <1>5
<1> HIDE DEF fresh
<1> QED BY <1>1, <1>5, <1>6

\* The blinding data cut to what was signed.
LEMMA TruncatedWell ==
    ASSUME NEW id, NEW made, IsMade(made, id), NEW n \in Nat
    PROVE  IsMade(Sigs!Truncated(made, n), id)
<1> DEFINE m == IF n < Len(made.outputs) THEN n ELSE Len(made.outputs)
<1>1. /\ made.outputs \in Seq(Outputs(id))
      /\ made.secrets \in Seq(Int) /\ Len(made.secrets) = Len(made.outputs)
      /\ made.factors \in Seq(Int) /\ Len(made.factors) = Len(made.outputs)
  BY DEF IsMade
<1>2. Len(made.outputs) \in Nat
  BY <1>1, LenProperties
<1>3. m \in 0 .. Len(made.outputs)
  BY <1>2
<1>4. Sigs!Truncated(made, n) =
          [outputs |-> SubSeq(made.outputs, 1, m), secrets |-> SubSeq(made.secrets, 1, m),
           factors |-> SubSeq(made.factors, 1, m)]
  BY DEF Sigs!Truncated
<1> HIDE DEF m
<1>5. ASSUME NEW S, NEW s \in Seq(S), Len(s) = Len(made.outputs)
      PROVE  SubSeq(s, 1, m) \in Seq(S) /\ Len(SubSeq(s, 1, m)) = m
  <2>1. \A i \in 1 .. Len(s) : s[i] \in S
    BY OfTheSet
  <2> QED BY <1>2, <1>3, <1>5, <2>1
<1>6. SubSeq(made.outputs, 1, m) \in Seq(Outputs(id)) /\ Len(SubSeq(made.outputs, 1, m)) = m
  BY <1>1, <1>5
<1>7. SubSeq(made.secrets, 1, m) \in Seq(Int) /\ Len(SubSeq(made.secrets, 1, m)) = m
  BY <1>1, <1>5
<1>8. SubSeq(made.factors, 1, m) \in Seq(Int) /\ Len(SubSeq(made.factors, 1, m)) = m
  BY <1>1, <1>5
<1> QED BY <1>4, <1>6, <1>7, <1>8 DEF IsMade

----------
\* A keyset the wallet knows has the keys the mint has for it.
LEMMA KeysAgree ==
    ASSUME NEW ks, AreTheMints(ks), NEW k \in Range(ks)
    PROVE  /\ k \in KeysetRecord
           /\ KeysetForId(Keysets, k.id) # None
           /\ KeysetForId(Keysets, k.id).keys = k.keys
           /\ \A a \in DOMAIN k.keys : k.keys[a] \in Int /\ a \in Nat
           /\ 1 \in DOMAIN k.keys /\ 2 \in DOMAIN k.keys
<1> DEFINE m == KeysetForId(Keysets, k.id)
<1>1. /\ ks \in Seq(KeysetRecord)
      /\ \E y \in Range(Keysets) : k = [y EXCEPT !.active = k.active]
  BY DEF AreTheMints
<1>2. Keysets \in Seq(KeysetRecord) /\ OnceEach(Keysets)
  BY MintAssumption
<1>3. k \in KeysetRecord
  BY <1>1, OfTheSet
<1>4. PICK y \in Range(Keysets) : k = [y EXCEPT !.active = k.active]
  BY <1>1
<1>5. y \in KeysetRecord
  BY <1>2, OfTheSet
<1>6. y.id = k.id /\ y.keys = k.keys
  BY <1>4, <1>5 DEF KeysetRecord
<1> DEFINE id == k.id
<1>7. m # None /\ m \in Range(Keysets) /\ m.id = id
  <2> HIDE DEF id
  <2>1. \E x \in Range(Keysets) : x.id = id
    BY <1>6 DEF id
  <2> QED BY <1>2, <2>1, KeysetFound DEF id
<1>8. m = y
  <2>1. /\ DOMAIN Keysets = 1 .. Len(Keysets)
        /\ \A x \in Range(Keysets) : \E i \in 1 .. Len(Keysets) : x = Keysets[i]
    BY <1>2, InRange
  <2> HIDE DEF m
  <2> QED BY <1>2, <1>4, <1>6, <1>7, <2>1 DEF OnceEach
<1>9. k.keys \in Keys
  BY <1>3 DEF KeysetRecord
<1> QED BY <1>3, <1>6, <1>7, <1>8, <1>9, MintAssumption

(* What a signature of the mint, as JSON, reads as. *)
Signs(o, amount, k) ==
    Json!SignatureFrom(o) # None =>
        /\ Json!SignatureFrom(o).amount = amount
        /\ SigWell(Json!SignatureFrom(o), k)

\* With the key of its amount or of another one, without its DLEQ or its point.
LEMMA SignatureSigns ==
    ASSUME NEW k, NEW ks, AreTheMints(ks), k \in Range(ks),
           NEW output \in Outputs(k.id), NEW amount \in Nat, NEW keyAmount \in {amount, 1, 2}
    PROVE  LET o == Signature(output, amount, keyAmount)
           IN /\ o.amount = amount
              /\ Signs(o, amount, k)
              /\ Signs(Json!Written([o EXCEPT !.dleq = None]), amount, k)
              /\ Signs(Json!Written([o EXCEPT !.C_ = None]), amount, k)
<1> DEFINE K == KeyFor(output.id, keyAmount)
           s == Sigs!SignWith(K, output.B_, 11 + 3 * amount)
           c == s.C_
           j == Json!DleqJson(s.dleq)
           o == [id |-> output.id, amount |-> amount, C_ |-> c, dleq |-> j]
           without == Json!Written([o EXCEPT !.dleq = None])
           pointless == Json!Written([o EXCEPT !.C_ = None])
<1>1. Signature(output, amount, keyAmount) = o
  BY DEF Signature
<1>2. output.id = k.id /\ output.B_ \in Int
  BY DEF Outputs
<1>3. amount \in DOMAIN k.keys => K \in Int
  <2>1. keyAmount \in {amount, 1, 2}
    OBVIOUS
  <2>2. amount \in DOMAIN k.keys => keyAmount \in DOMAIN k.keys
    BY <2>1, KeysAgree
  <2> QED BY <1>2, <2>2, KeysAgree DEF KeyFor
<1> HIDE DEF K
<1>4. K \in Int => c \in Int /\ s.dleq \in Dleq
  <2>1. SUFFICES ASSUME K \in Int PROVE c \in Int /\ s.dleq \in Dleq
    OBVIOUS
  <2> DEFINE B_ == output.B_
             nonce == 11 + 3 * amount
             x == (K * B_) % Q
             R2 == (nonce * B_) % Q
             e == Sigs!HashE(nonce, R2, K, x)
             z == (nonce + e * K) % Q
  <2>2. nonce \in Int /\ B_ \in Int
    BY <1>2
  <2>3. s = [C_ |-> x, dleq |-> [e |-> e, s |-> z, r |-> None]]
    BY DEF Sigs!SignWith
  <2> HIDE DEF nonce, B_
  <2>4. x \in Int /\ R2 \in Int
    BY <2>1, <2>2, OrderAssumption
  <2> HIDE DEF x, R2
  <2>5. e \in Int
    <3> DEFINE a == (nonce * nonce) % Q
               b == (a * 17 + R2) % Q
               d == (K * x) % Q
               f == (b * 29 + d * 31 + x) % (Q - 1)
    <3>1. a \in Int /\ d \in Int
      BY <2>1, <2>2, <2>4, OrderAssumption
    <3> HIDE DEF a, d
    <3>2. b \in Int
      BY <3>1, <2>4, OrderAssumption
    <3> HIDE DEF b
    <3>3. f \in Int
      BY <3>1, <3>2, <2>4, OrderAssumption
    <3>4. e = 1 + f
      BY DEF Sigs!HashE, a, b, d
    <3> HIDE DEF f
    <3> QED BY <3>3, <3>4
  <2> HIDE DEF e
  <2>6. z \in Int
    BY <2>1, <2>2, <2>5, OrderAssumption
  <2> HIDE DEF z, s
  <2> QED BY <2>3, <2>4, <2>5, <2>6 DEF Dleq
<1>5. s.dleq \in Dleq => j # None /\ Json!DleqFrom(j) = s.dleq
  BY DleqReads
<1>6. s.dleq \in Dleq => s.dleq.e \in Int /\ s.dleq.s \in Int
  BY DEF Dleq
<1>7. Signs(o, amount, k)
  <2> DEFINE g == Json!SignatureFrom(o)
  <2>1. g # None =>
            g = [id |-> output.id, amount |-> amount, C_ |-> c, dleq |-> Json!DleqFrom(j)]
    <3> HIDE DEF c, j
    <3>1. DOMAIN o = {"id", "amount", "C_", "dleq"}
      OBVIOUS
    <3>2. Json!Has(o, {"id", "C_"}) /\ Json!Has(o, {"dleq"})
      BY <3>1 DEF Json!Has
    <3>3. Json!DleqIn(o) = Json!DleqFrom(j)
      BY <3>2 DEF Json!DleqIn
    <3> QED BY <3>2, <3>3 DEF Json!SignatureFrom
  <2> HIDE DEF g, s, j, c
  <2>2. g # None => SigWell(g, k)
    BY <1>3, <1>4, <1>5, <1>6, <2>1 DEF SigWell
  <2> QED BY <2>1, <2>2 DEF Signs, g
<1>8. Signs(without, amount, k)
  <2> DEFINE o2 == [id |-> output.id, amount |-> amount, C_ |-> c, dleq |-> None]
             w == Json!Written(o2)
             g == Json!SignatureFrom(w)
  <2>1. without = w
    OBVIOUS
  <2> HIDE DEF c
  <2>2. o2["amount"] = amount /\ o2["C_"] = c /\ o2["dleq"] = None
    OBVIOUS
  <2> HIDE DEF o2
  <2>3. /\ "amount" \in DOMAIN w => w["amount"] = amount
        /\ "C_" \in DOMAIN w => w["C_"] = c
        /\ "dleq" \notin DOMAIN w
    BY <2>2, WrittenHas
  <2> HIDE DEF w
  <2>4. Json!DleqIn(w) = None
    BY <2>3 DEF Json!DleqIn, Json!Has
  <2>5. g # None => g.amount = amount /\ g.C_ = c /\ g.dleq = None
    BY <2>3, <2>4 DEF Json!SignatureFrom, Json!Has, Json!HasInt
  <2> HIDE DEF g, s
  <2>6. g # None => SigWell(g, k)
    BY <1>3, <1>4, <2>5 DEF SigWell, c
  <2> QED BY <2>1, <2>5, <2>6 DEF Signs, g
<1>9. Signs(pointless, amount, k)
  <2> DEFINE o2 == [id |-> output.id, amount |-> amount, C_ |-> None, dleq |-> j]
             w == Json!Written(o2)
  <2>1. pointless = w
    OBVIOUS
  <2> HIDE DEF j
  <2>2. o2["C_"] = None
    OBVIOUS
  <2> HIDE DEF o2
  <2>3. "C_" \notin DOMAIN w
    BY <2>2, WrittenHas
  <2> HIDE DEF w
  <2>4. Json!SignatureFrom(w) = None
    BY <2>3 DEF Json!SignatureFrom, Json!Has
  <2> QED BY <2>1, <2>4 DEF Signs
<1> QED BY <1>1, <1>7, <1>8, <1>9

(* A list of signatures as it is read: all of these amounts, or nothing.  *)
SigsWell(sigs, k, b) ==
    sigs # None => /\ IsList(sigs) /\ Len(sigs) = Len(b)
                   /\ \A i \in 1 .. Len(b) : sigs[i].amount = b[i] /\ SigWell(sigs[i], k)

\* A list of readable signatures is read.
LEMMA SigsRead ==
    ASSUME NEW k, NEW b, NEW arr, IsList(arr), Len(arr) = Len(b),
           \A i \in 1 .. Len(b) : Signs(arr[i], b[i], k)
    PROVE  SigsWell(Json!SigsFrom(arr), k, b)
<1> DEFINE read == [i \in DOMAIN arr |-> Json!SignatureFrom(arr[i])]
<1>1. Json!SigsFrom(arr) = IF None \in Json!Range(read) THEN None ELSE read
  BY DEF Json!SigsFrom, Json!AllRead
<1>2. DOMAIN arr = 1 .. Len(b) /\ Len(b) \in Nat
  BY DEF IsList
<1>3. None \notin Json!Range(read) => \A i \in 1 .. Len(b) : read[i] # None
  BY <1>2 DEF Json!Range
<1>4. /\ IsList(read) /\ Len(read) = Len(b)
      /\ \A i \in 1 .. Len(b) : read[i] = Json!SignatureFrom(arr[i])
  BY <1>2 DEF IsList
<1> HIDE DEF read
<1> QED BY <1>1, <1>3, <1>4 DEF SigsWell, Signs

----------
\* A list turned round has the same sum.
LEMMA TotalReverse ==
    ASSUME NEW v \in Seq(Nat)
    PROVE  Reverse(v) \in Seq(Nat) /\ Len(Reverse(v)) = Len(v) /\ Total(Reverse(v)) = Total(v)
<1> DEFINE n == Len(v)
           w == Reverse(v)
           f == SumUpTo(v)
           g == SumUpTo(w)
           S == {i \in 0 .. n : g[i] \in Int /\ f[n - i] \in Int /\ g[i] + f[n - i] = f[n]}
<1>1. n \in Nat /\ \A i \in 1 .. n : v[i] \in Nat
  BY InRange, OfTheSet
<1>2. /\ w \in Seq(Nat) /\ Len(w) = n
      /\ \A i \in 1 .. n : w[i] = v[(n - i) + 1]
  <2>1. w = [i \in 1 .. n |-> v[(n - i) + 1]]
    BY DEF Reverse
  <2>2. \A i \in 1 .. n : v[(n - i) + 1] \in Nat
    BY <1>1
  <2> HIDE DEF w, n
  <2> QED BY <1>1, <2>1, <2>2
<1>3. /\ Total(v) = f[n] /\ f[0] = 0
      /\ \A i \in 1 .. n : f[i] = f[i - 1] + v[i]
  BY <1>1, SumsDef
<1> HIDE DEF w
<1>4. /\ Total(w) = g[n] /\ g[0] = 0
      /\ \A i \in 1 .. n : g[i] = g[i - 1] + w[i]
  BY <1>1, <1>2, SumsDef
<1>5. v \in Seq(Int)
  <2> HIDE DEF n
  <2>1. DOMAIN v = 1 .. Len(v) /\ \A i \in 1 .. Len(v) : v[i] \in Nat
    BY InRange, OfTheSet
  <2> QED BY <1>1, <2>1
<1>6. f[n] \in Int
  BY <1>3, <1>5, TotalType
<1> HIDE DEF f, g, n
<1>7. 0 \in S
  BY <1>1, <1>4, <1>6
<1>8. ASSUME NEW i \in 0 .. (n - 1), i \in S
      PROVE  i + 1 \in S
  <2> DEFINE j == n - i
             a == f[j - 1]
             b == v[j]
             c == g[i]
  <2>1. j \in 1 .. n /\ i + 1 \in 1 .. n /\ (n - (i + 1)) + 1 = j /\ n - (i + 1) = j - 1
        /\ (i + 1) - 1 = i /\ i + 1 \in 0 .. n
    BY <1>1
  <2>2. f[j] = a + b /\ b \in Nat
    BY <1>1, <1>3, <2>1
  <2>3. g[i + 1] = c + b
    <3>1. w[i + 1] = v[(n - (i + 1)) + 1]
      BY <1>2, <2>1
    <3>2. g[i + 1] = g[(i + 1) - 1] + w[i + 1]
      BY <1>4, <2>1
    <3> QED BY <2>1, <3>1, <3>2
  <2>4. c \in Int /\ f[j] \in Int /\ c + f[j] = f[n]
    BY <1>8
  <2>5. a \in Int
    <3> DEFINE G == {m \in 0 .. n : f[m] \in Int}
    <3>1. 0 \in G
      BY <1>1, <1>3
    <3>2. ASSUME NEW m \in 0 .. (n - 1), m \in G PROVE m + 1 \in G
      <4>1. m + 1 \in 1 .. n /\ (m + 1) - 1 = m /\ m + 1 \in 0 .. n
        BY <1>1
      <4> QED BY <1>1, <1>3, <3>2, <4>1
    <3> HIDE DEF G
    <3>3. \A m \in 0 .. n : m \in G
      BY <1>1, <3>1, <3>2, Upwards
    <3>4. j - 1 \in 0 .. n
      BY <1>1, <2>1
    <3> QED BY <3>3, <3>4 DEF G
  <2> HIDE DEF a, b, c
  <2>6. g[i + 1] \in Int /\ g[i + 1] + a = f[n]
    BY <2>2, <2>3, <2>4, <2>5
  <2> QED BY <2>1, <2>5, <2>6 DEF a
<1>9. \A i \in 0 .. n : i \in S
  <2> HIDE DEF S
  <2> QED BY <1>1, <1>7, <1>8, Upwards
<1>10. n \in S /\ n - n = 0
  BY <1>1, <1>9
<1> QED BY <1>2, <1>3, <1>4, <1>6, <1>10 DEF w, n

\* A list without its first has no larger sum.
LEMMA TotalTail ==
    ASSUME NEW v \in Seq(Nat), v # <<>>
    PROVE  Tail(v) \in Seq(Nat) /\ Len(Tail(v)) = Len(v) - 1 /\ Total(Tail(v)) <= Total(v)
<1> DEFINE t == Tail(v)
           h == v[1]
           one == <<h>>
<1>1. /\ t \in Seq(Nat) /\ Len(t) = Len(v) - 1
      /\ \A i \in 1 .. Len(t) : t[i] = v[i + 1]
  BY HeadTailProperties
<1>2. Len(v) \in Nat /\ Len(v) # 0 /\ h \in Nat
  <2>1. Len(v) \in Nat /\ Len(v) # 0
    BY InRange, EmptySeq
  <2> QED BY <2>1, OfTheSet
<1>3. \A s \in Seq(Nat) : s \in Seq(Int)
  <2>1. SUFFICES ASSUME NEW s \in Seq(Nat) PROVE s \in Seq(Int)
    OBVIOUS
  <2>2. Len(s) \in Nat /\ DOMAIN s = 1 .. Len(s) /\ \A i \in 1 .. Len(s) : s[i] \in Nat
    BY <2>1, InRange, OfTheSet
  <2> QED BY <2>1, <2>2
<1> HIDE DEF t, h
<1>4. one \in Seq(Int) /\ Len(one) = 1 /\ one[1] = h
  BY <1>2
<1>5. Total(one) = h
  <2>1. <<>> \in Seq(Int) /\ Append(<<>>, h) = one /\ h \in Int
    BY <1>2
  <2>2. Total(Append(<<>>, h)) = Total(<<>>) + h
    BY <2>1, TotalAppend
  <2> QED BY <1>2, <2>1, <2>2, TotalEmpty
<1> HIDE DEF one
<1>6. v = one \o t
  <2> DEFINE u == one \o t
  <2>1. /\ u \in Seq(Int) /\ Len(u) = Len(one) + Len(t)
        /\ \A j \in 1 .. Len(one) : u[j] = one[j]
        /\ \A j \in 1 .. Len(t) : u[Len(one) + j] = t[j]
    <3>1. one \in Seq(Int) /\ t \in Seq(Int)
      BY <1>1, <1>3, <1>4
    <3> QED BY <3>1, TwoJoined
  <2> HIDE DEF u
  <2>2. Len(u) = Len(v) /\ v \in Seq(Int)
    BY <1>1, <1>2, <1>3, <1>4, <2>1
  <2>3. \A i \in 1 .. Len(v) : v[i] = u[i]
    <3>1. SUFFICES ASSUME NEW i \in 1 .. Len(v) PROVE v[i] = u[i]
      OBVIOUS
    <3>2. CASE i = 1
      BY <1>4, <2>1, <3>2 DEF h
    <3>3. CASE i # 1
      <4>1. i - 1 \in 1 .. Len(t) /\ 1 + (i - 1) = i /\ (i - 1) + 1 = i
        BY <1>1, <1>2, <3>3
      <4>2. u[1 + (i - 1)] = t[i - 1] /\ t[i - 1] = v[(i - 1) + 1]
        BY <1>1, <1>4, <2>1, <4>1
      <4> QED BY <4>1, <4>2
    <3> QED BY <3>2, <3>3
  <2> QED BY <2>1, <2>2, <2>3, SeqEqual DEF u
<1>7. Total(v) = h + Total(t)
  <2>1. one \in Seq(Int) /\ t \in Seq(Int)
    BY <1>1, <1>3, <1>4
  <2>2. Total(one \o t) = Total(one) + Total(t)
    BY <2>1, TotalJoined
  <2> QED BY <1>5, <1>6, <2>2
<1>8. Total(t) \in Int
  BY <1>1, <1>3, TotalType
<1> QED BY <1>1, <1>2, <1>7, <1>8 DEF t

\* What is read of a damaged answer is worth no more than the right one.
LEMMA DamagedWell ==
    ASSUME NEW ks, AreTheMints(ks), NEW k, k \in Range(ks), NEW amts \in Seq(Nat),
           NEW outputs, \A i \in 1 .. Len(amts) : outputs[i] \in Outputs(k.id),
           NEW sigs, IsList(sigs), Len(sigs) = Len(amts),
           \A i \in 1 .. Len(amts) : sigs[i] = Signature(outputs[i], amts[i], amts[i]),
           NEW how \in Damages, CanDamage(how, sigs)
    PROVE  \E b \in Seq(Nat) :
               /\ Total(b) <= Total(amts)
               /\ SigsWell(Json!SigsFrom(Damaged(how, sigs, outputs)), k, b)
<1> DEFINE n == Len(amts)
           arr == Damaged(how, sigs, outputs)
<1>1. n \in Nat /\ DOMAIN sigs = 1 .. n /\ Len(sigs) = n /\ \A i \in 1 .. n : amts[i] \in Nat
  BY InRange, OfTheSet DEF IsList
<1>2. Total(amts) \in Int
  <2>1. \A i \in 1 .. n : amts[i] \in Int
    BY <1>1
  <2>2. amts \in Seq(Int)
    <3>1. DOMAIN amts = 1 .. n
      BY InRange
    <3> HIDE DEF n
    <3> QED BY <1>1, <2>1, <3>1
  <2> QED BY <2>2, TotalType
<1>3. \A i \in 1 .. n : \A key \in {amts[i], 1, 2} :
          LET o == Signature(outputs[i], amts[i], key)
          IN /\ o.amount = amts[i]
             /\ Signs(o, amts[i], k)
             /\ Signs(Json!Written([o EXCEPT !.dleq = None]), amts[i], k)
             /\ Signs(Json!Written([o EXCEPT !.C_ = None]), amts[i], k)
  <2>1. SUFFICES ASSUME NEW i \in 1 .. n, NEW key \in {amts[i], 1, 2}
                 PROVE  LET o == Signature(outputs[i], amts[i], key)
                        IN /\ o.amount = amts[i]
                           /\ Signs(o, amts[i], k)
                           /\ Signs(Json!Written([o EXCEPT !.dleq = None]), amts[i], k)
                           /\ Signs(Json!Written([o EXCEPT !.C_ = None]), amts[i], k)
    OBVIOUS
  <2> DEFINE a == amts[i]
             output == outputs[i]
  <2>2. a \in Nat /\ output \in Outputs(k.id) /\ key \in {a, 1, 2}
    BY <1>1, <2>1
  <2> HIDE DEF a, output
  <2>3. LET o == Signature(output, a, key)
        IN /\ o.amount = a
           /\ Signs(o, a, k)
           /\ Signs(Json!Written([o EXCEPT !.dleq = None]), a, k)
           /\ Signs(Json!Written([o EXCEPT !.C_ = None]), a, k)
    BY <2>2, SignatureSigns
  <2> QED BY <2>3 DEF a, output
<1>4. \A i \in 1 .. n : Signs(sigs[i], amts[i], k)
  BY <1>3
<1>5. how # "none" => n > 0
  BY <1>1 DEF CanDamage
<1>6. ASSUME NEW o, Signs(o, amts[1], k), how # "none"
      PROVE  SigsWell(Json!SigsFrom([sigs EXCEPT ![1] = o]), k, amts)
  <2> DEFINE s == [sigs EXCEPT ![1] = o]
  <2>1. s = [i \in 1 .. n |-> IF i = 1 THEN o ELSE sigs[i]]
    <3>1. sigs = [i \in 1 .. n |-> sigs[i]]
      BY <1>1 DEF IsList
    <3> QED BY <1>1, <3>1
  <2> HIDE DEF s
  <2>2. IsList(s) /\ Len(s) = n /\ \A i \in 1 .. n : Signs(s[i], amts[i], k)
    BY <1>1, <1>4, <1>6, <2>1 DEF IsList
  <2> QED BY <2>2, SigsRead DEF s
<1>7. CASE how = "none"
  <2>1. arr = sigs
    BY <1>7 DEF Damaged
  <2>2. SigsWell(Json!SigsFrom(sigs), k, amts)
    BY <1>4, SigsRead
  <2> QED BY <1>2, <2>1, <2>2
<1>8. CASE how = "reversed"
  <2> DEFINE b == Reverse(amts)
  <2>1. b \in Seq(Nat) /\ Len(b) = n /\ Total(b) = Total(amts)
    BY TotalReverse
  <2>2. arr = [i \in 1 .. n |-> sigs[(n - i) + 1]] /\ b = [i \in 1 .. n |-> amts[(n - i) + 1]]
    BY <1>8 DEF Damaged, Reverse
  <2> HIDE DEF b, arr, n
  <2>3. IsList(arr) /\ Len(arr) = n /\ \A i \in 1 .. n : (n - i) + 1 \in 1 .. n
    BY <1>1, <2>2 DEF IsList
  <2>4. \A i \in 1 .. n : Signs(arr[i], b[i], k)
    BY <1>4, <2>2, <2>3 DEF n
  <2>5. SigsWell(Json!SigsFrom(arr), k, b)
    BY <2>1, <2>3, <2>4, SigsRead
  <2> QED BY <1>2, <2>1, <2>5 DEF arr
<1>9. CASE how = "short"
  <2> DEFINE b == Tail(amts)
  <2>1. amts # <<>>
    BY <1>5, <1>9, EmptySeq
  <2>2. b \in Seq(Nat) /\ Len(b) = n - 1 /\ Total(b) <= Total(amts)
    BY <2>1, TotalTail
  <2>3. arr = Tail(sigs)
    BY <1>9 DEF Damaged
  <2>4. sigs \in Seq(Range(sigs)) /\ sigs # <<>>
    <3>1. sigs = [i \in DOMAIN sigs |-> sigs[i]]
      BY <1>1 DEF IsList
    <3> QED BY <1>1, <1>5, <1>9, <3>1 DEF Range
  <2>5. /\ arr \in Seq(Range(sigs)) /\ Len(arr) = n - 1
        /\ \A i \in 1 .. (n - 1) : arr[i] = sigs[i + 1]
    BY <1>1, <2>3, <2>4, HeadTailProperties
  <2>6. \A i \in 1 .. (n - 1) : b[i] = amts[i + 1]
    BY <2>1, <2>2, HeadTailProperties
  <2> HIDE DEF b, arr
  <2>7. \A i \in 1 .. (n - 1) : Signs(arr[i], b[i], k)
    <3>1. \A i \in 1 .. (n - 1) : i + 1 \in 1 .. n
      BY <1>1
    <3> QED BY <1>4, <2>5, <2>6, <3>1
  <2>8. IsList(arr) /\ Len(arr) = Len(b)
    BY <2>2, <2>5, SeqIsList
  <2>9. SigsWell(Json!SigsFrom(arr), k, b)
    BY <2>2, <2>7, <2>8, SigsRead
  <2> QED BY <2>2, <2>9 DEF arr
<1>10. n > 0 => sigs[1] = Signature(outputs[1], amts[1], amts[1]) /\ 1 \in 1 .. n
  BY <1>1
<1>11. CASE how = "nodleq"
  <2> DEFINE o == Json!Written([sigs[1] EXCEPT !.dleq = None])
  <2>1. arr = [sigs EXCEPT ![1] = o]
    BY <1>1, <1>5, <1>11 DEF Damaged
  <2>2. Signs(o, amts[1], k)
    BY <1>3, <1>5, <1>10, <1>11
  <2> HIDE DEF o
  <2>3. SigsWell(Json!SigsFrom([sigs EXCEPT ![1] = o]), k, amts)
    BY <1>6, <1>11, <2>2
  <2> QED BY <1>2, <2>1, <2>3
<1>12. CASE how = "nopoint"
  <2> DEFINE o == Json!Written([sigs[1] EXCEPT !.C_ = None])
  <2>1. arr = [sigs EXCEPT ![1] = o]
    BY <1>1, <1>5, <1>12 DEF Damaged
  <2>2. Signs(o, amts[1], k)
    BY <1>3, <1>5, <1>10, <1>12
  <2> HIDE DEF o
  <2>3. SigsWell(Json!SigsFrom([sigs EXCEPT ![1] = o]), k, amts)
    BY <1>6, <1>12, <2>2
  <2> QED BY <1>2, <2>1, <2>3
<1>13. CASE how = "offkey"
  <2> DEFINE key == IF sigs[1].amount = 1 THEN 2 ELSE 1
             o == Signature(outputs[1], sigs[1].amount, key)
  <2>1. arr = [sigs EXCEPT ![1] = o]
    BY <1>1, <1>5, <1>13 DEF Damaged
  <2>2. sigs[1].amount = amts[1] /\ key \in {amts[1], 1, 2}
    BY <1>3, <1>5, <1>10, <1>13
  <2>3. Signs(o, amts[1], k)
    BY <1>3, <1>5, <1>10, <1>13, <2>2
  <2> HIDE DEF o
  <2>4. SigsWell(Json!SigsFrom([sigs EXCEPT ![1] = o]), k, amts)
    BY <1>6, <1>13, <2>3
  <2> QED BY <1>2, <2>1, <2>4
<1> QED BY <1>7, <1>8, <1>9, <1>11, <1>12, <1>13, BoundsAssumption

----------
(* The split of an amount *)

\* Each bit is worth twice the one before it.
LEMMA Doubling == \A k \in 0 .. 30 : 2^(k + 1) = 2 * 2^k /\ 2^k \in Nat \ {0}
<1>1. \A k \in 0 .. 30 :
            k = 0 \/ k = 1 \/ k = 2 \/ k = 3 \/ k = 4 \/ k = 5 \/ k = 6 \/ k = 7 \/ k = 8
            \/ k = 9 \/ k = 10 \/ k = 11 \/ k = 12 \/ k = 13 \/ k = 14 \/ k = 15 \/ k = 16
            \/ k = 17 \/ k = 18 \/ k = 19 \/ k = 20 \/ k = 21 \/ k = 22 \/ k = 23 \/ k = 24
            \/ k = 25 \/ k = 26 \/ k = 27 \/ k = 28 \/ k = 29 \/ k = 30
  OBVIOUS
<1>2. 2^(0 + 1) = 2 * 2^0 /\ 2^(1 + 1) = 2 * 2^1 /\ 2^(2 + 1) = 2 * 2^2
      /\ 2^(3 + 1) = 2 * 2^3 /\ 2^(4 + 1) = 2 * 2^4 /\ 2^(5 + 1) = 2 * 2^5
      /\ 2^(6 + 1) = 2 * 2^6 /\ 2^(7 + 1) = 2 * 2^7 /\ 2^(8 + 1) = 2 * 2^8
      /\ 2^(9 + 1) = 2 * 2^9 /\ 2^(10 + 1) = 2 * 2^10 /\ 2^(11 + 1) = 2 * 2^11
      /\ 2^(12 + 1) = 2 * 2^12 /\ 2^(13 + 1) = 2 * 2^13 /\ 2^(14 + 1) = 2 * 2^14
      /\ 2^(15 + 1) = 2 * 2^15 /\ 2^(16 + 1) = 2 * 2^16 /\ 2^(17 + 1) = 2 * 2^17
      /\ 2^(18 + 1) = 2 * 2^18 /\ 2^(19 + 1) = 2 * 2^19 /\ 2^(20 + 1) = 2 * 2^20
      /\ 2^(21 + 1) = 2 * 2^21 /\ 2^(22 + 1) = 2 * 2^22 /\ 2^(23 + 1) = 2 * 2^23
      /\ 2^(24 + 1) = 2 * 2^24 /\ 2^(25 + 1) = 2 * 2^25 /\ 2^(26 + 1) = 2 * 2^26
      /\ 2^(27 + 1) = 2 * 2^27 /\ 2^(28 + 1) = 2 * 2^28 /\ 2^(29 + 1) = 2 * 2^29
      /\ 2^(30 + 1) = 2 * 2^30
  OBVIOUS
<1>3. 2^0 \in Nat \ {0} /\ 2^1 \in Nat \ {0} /\ 2^2 \in Nat \ {0} /\ 2^3 \in Nat \ {0}
      /\ 2^4 \in Nat \ {0} /\ 2^5 \in Nat \ {0} /\ 2^6 \in Nat \ {0}
      /\ 2^7 \in Nat \ {0} /\ 2^8 \in Nat \ {0} /\ 2^9 \in Nat \ {0}
      /\ 2^10 \in Nat \ {0} /\ 2^11 \in Nat \ {0} /\ 2^12 \in Nat \ {0}
      /\ 2^13 \in Nat \ {0} /\ 2^14 \in Nat \ {0} /\ 2^15 \in Nat \ {0}
      /\ 2^16 \in Nat \ {0} /\ 2^17 \in Nat \ {0} /\ 2^18 \in Nat \ {0}
      /\ 2^19 \in Nat \ {0} /\ 2^20 \in Nat \ {0} /\ 2^21 \in Nat \ {0}
      /\ 2^22 \in Nat \ {0} /\ 2^23 \in Nat \ {0} /\ 2^24 \in Nat \ {0}
      /\ 2^25 \in Nat \ {0} /\ 2^26 \in Nat \ {0} /\ 2^27 \in Nat \ {0}
      /\ 2^28 \in Nat \ {0} /\ 2^29 \in Nat \ {0} /\ 2^30 \in Nat \ {0}
  OBVIOUS
<1> QED BY <1>1, <1>2, <1>3

\* One more binary digit of a number.
LEMMA OneMoreDigit ==
    ASSUME NEW v \in Int, NEW b \in Nat \ {0}
    PROVE  v % (2 * b) = (v % b) + b * ((v \div b) % 2)
<1> DEFINE q == v \div b
           r == v % b
           h == q \div 2
           t == q % 2
           x == b * t + r
<1>1. q \in Int /\ r \in Int /\ v = b * q + r /\ 0 <= r /\ r < b
  OBVIOUS
<1> HIDE DEF q, r
<1>2. h \in Int /\ t \in {0, 1} /\ q = 2 * h + t
  BY <1>1
<1> HIDE DEF h, t
<1>3. v = b * (2 * h + t) + r
  BY <1>1, <1>2
<1>4. b * (2 * h + t) = (2 * b) * h + b * t
  BY <1>2
<1>5. x \in Int /\ 0 <= x /\ x < 2 * b
  <2>1. CASE t = 0
    BY <1>1, <2>1
  <2>2. CASE t = 1
    BY <1>1, <2>2
  <2> QED BY <1>2, <2>1, <2>2
<1>6. v = (2 * b) * h + x
  <2>1. (2 * b) * h \in Int /\ b * t \in Int
    BY <1>2
  <2> QED BY <1>1, <1>2, <1>3, <1>4, <2>1
<1> HIDE DEF x
<1> DEFINE c == 2 * b
<1>7. c \in Nat /\ c > 0 /\ v = c * h + x /\ x < c
  BY <1>5, <1>6
<1> HIDE DEF c
<1>8. v % c = x
  BY <1>2, <1>5, <1>7
<1> QED BY <1>8 DEF c, x, q, r, t

\* A list of naturals is a list of integers.
LEMMA NatsAreInts ==
    ASSUME NEW v \in Seq(Nat)
    PROVE  v \in Seq(Int)
<1>1. DOMAIN v = 1 .. Len(v) /\ Len(v) \in Nat /\ \A i \in 1 .. Len(v) : v[i] \in Nat
  BY InRange, OfTheSet
<1> QED BY <1>1

\* The parts of an amount are its lowest 31 binary digits: an amount that an
\* int32 holds is split without loss.
LEMMA SplitAddsUp ==
    ASSUME NEW amount \in Int
    PROVE  /\ SplitAmount(amount) \in Seq(Nat)
           /\ Total(SplitAmount(amount)) = amount % 2147483648
<1> DEFINE T == {i \in 1 .. 31 : (amount \div Bits[i]) % 2 = 1}
           w == At0(Bits, T)
           f == SumUpTo(w)
           S == {k \in 0 .. 31 : f[k] = amount % 2^k}
<1>1. /\ Bits \in Seq(Nat) /\ Len(Bits) = 31
      /\ \A k \in 0 .. 30 : Bits[k + 1] = 2^k /\ 2^k \in Nat \ {0}
  <2>1. \A i \in 1 .. 31 : Bits[i] = 2^(i - 1)
    BY DEF Bits
  <2>2. \A i \in 1 .. 31 : i - 1 \in 0 .. 30
    OBVIOUS
  <2>3. \A i \in 1 .. 31 : Bits[i] \in Nat
    BY <2>1, <2>2, Doubling
  <2>4. DOMAIN Bits = 1 .. 31
    BY DEF Bits
  <2>5. Bits = [i \in 1 .. 31 |-> Bits[i]]
    BY <2>4 DEF Bits
  <2>6. Bits \in Seq(Nat) /\ Len(Bits) = 31
    BY <2>3, <2>5
  <2>7. \A k \in 0 .. 30 : k + 1 \in 1 .. 31 /\ (k + 1) - 1 = k
    OBVIOUS
  <2> QED BY <2>1, <2>6, <2>7, Doubling
<1>2. SplitAmount(amount) = Kept(Bits, T)
  BY DEF SplitAmount
<1>3. \A i \in 1 .. 31 : i \in T <=> (amount \div Bits[i]) % 2 = 1
  OBVIOUS
<1> HIDE DEF T
<1>4. SplitAmount(amount) \in Seq(Nat)
  BY <1>1, <1>2, KeptRange
<1>5. Bits \in Seq(Int)
  BY <1>1, NatsAreInts
<1>6. Total(SplitAmount(amount)) = Total(w)
  BY <1>2, <1>5, TotalKept
<1>7. Len(w) = 31 /\ \A i \in 1 .. 31 : w[i] = IF i \in T THEN Bits[i] ELSE 0
  BY <1>1 DEF At0
<1> HIDE DEF w
<1>8. Total(w) = f[31] /\ f[0] = 0 /\ \A i \in 1 .. 31 : f[i] = f[i - 1] + w[i]
  <2>1. Len(w) \in Nat
    BY <1>7
  <2> QED BY <1>7, <2>1, SumsDef
<1> HIDE DEF f
<1>9. 0 \in S
  BY <1>8
<1>10. ASSUME NEW k \in 0 .. (31 - 1), k \in S
       PROVE  k + 1 \in S
  <2> DEFINE b == 2^k
             d == (amount \div b) % 2
             r == amount % b
  <2>1. k + 1 \in 1 .. 31 /\ (k + 1) - 1 = k /\ k \in 0 .. 30 /\ k + 1 \in 0 .. 31
    OBVIOUS
  <2>2. b \in Nat \ {0} /\ Bits[k + 1] = b /\ 2^(k + 1) = 2 * b
    BY <1>1, <2>1, Doubling
  <2>3. f[k + 1] = f[k] + w[k + 1] /\ f[k] = r
    BY <1>8, <1>10, <2>1
  <2>4. w[k + 1] = IF d = 1 THEN b ELSE 0
    BY <1>3, <1>7, <2>1, <2>2
  <2> HIDE DEF b
  <2>5. amount % (2 * b) = r + b * d
    BY <2>2, OneMoreDigit
  <2>6. d \in {0, 1} /\ r \in Int
    BY <2>2
  <2> HIDE DEF d, r
  <2>7. b * d = IF d = 1 THEN b ELSE 0
    BY <2>2, <2>6
  <2>8. f[k + 1] = amount % 2^(k + 1)
    BY <2>2, <2>3, <2>4, <2>5, <2>7
  <2> QED BY <2>1, <2>8
<1>11. \A k \in 0 .. 31 : k \in S
  <2> DEFINE n == 31
  <2>1. n \in Nat /\ \A k \in 0 .. (n - 1) : k \in S => k + 1 \in S
    BY <1>10
  <2> HIDE DEF S, n
  <2>2. \A k \in 0 .. n : k \in S
    BY <1>9, <2>1, Upwards
  <2> QED BY <2>2 DEF n
<1>12. f[31] = amount % 2^31
  BY <1>11
<1> QED BY <1>4, <1>6, <1>8, <1>12

----------
(* Lists *)

\* A list is a sequence of what is in it.
LEMMA ListIsSeq ==
    ASSUME NEW s, IsList(s)
    PROVE  s \in Seq(Range(s)) /\ DOMAIN s = 1 .. Len(s)
<1>1. DOMAIN s = 1 .. Len(s)
  BY DEF IsList
<1>2. \A i \in 1 .. Len(s) : s[i] \in Range(s)
  BY <1>1 DEF Range
<1>3. [i \in 1 .. Len(s) |-> s[i]] \in Seq(Range(s))
  BY <1>2 DEF IsList
<1> QED BY <1>1, <1>3 DEF IsList

\* A list of elements of a set is a sequence over it.
LEMMA ListOver ==
    ASSUME NEW s, NEW S, IsList(s), \A i \in 1 .. Len(s) : s[i] \in S
    PROVE  s \in Seq(S)
<1>1. [i \in 1 .. Len(s) |-> s[i]] \in Seq(S)
  BY DEF IsList
<1> QED BY <1>1 DEF IsList

\* So is a list that has nothing else in it.
LEMMA ListWithin ==
    ASSUME NEW s, NEW S, IsList(s), Range(s) \subseteq S
    PROVE  s \in Seq(S)
BY ListIsSeq, ListOver DEF Range

\* What lists joined together hold is what they held.
LEMMA ListsFlat ==
    ASSUME NEW seqs, IsList(seqs), \A i \in 1 .. Len(seqs) : IsList(seqs[i])
    PROVE  /\ IsList(Joined(seqs))
           /\ \A k \in 1 .. Len(Joined(seqs)) :
                  \E i \in 1 .. Len(seqs) : \E j \in 1 .. Len(seqs[i]) :
                      Joined(seqs)[k] = seqs[i][j]
<1> DEFINE S == UNION {Range(seqs[i]) : i \in 1 .. Len(seqs)}
<1>1. \A x \in S : \E i \in 1 .. Len(seqs) : \E j \in 1 .. Len(seqs[i]) : x = seqs[i][j]
  <2>1. \A i \in 1 .. Len(seqs) : DOMAIN seqs[i] = 1 .. Len(seqs[i])
    BY ListIsSeq
  <2> QED BY <2>1 DEF Range
<1>2. \A i \in 1 .. Len(seqs) : seqs[i] \in Seq(S)
  <2> TAKE i \in 1 .. Len(seqs)
  <2>1. Range(seqs[i]) \subseteq S
    OBVIOUS
  <2> HIDE DEF S
  <2> QED BY <2>1, ListWithin
<1> HIDE DEF S
<1>3. seqs \in Seq(Seq(S))
  BY <1>2, ListOver
<1>4. Joined(seqs) \in Seq(S)
  BY <1>3, FlatDef, InRange
<1>5. IsList(Joined(seqs)) /\ \A k \in 1 .. Len(Joined(seqs)) : Joined(seqs)[k] \in S
  BY <1>4, SeqIsList, OfTheSet
<1> QED BY <1>1, <1>5

\* The codec's list operators are the wallet's.
LEMMA CodecLists ==
    ASSUME NEW s, NEW T
    PROVE  Codec!Kept(s, T) = Kept(s, T) /\ Codec!Joined(s) = Joined(s)
           /\ Codec!Range(s) = Range(s)
BY DEF Codec!Kept, Kept, Codec!Joined, Joined, Codec!Range, Range

\* Proofs have amounts.
LEMMA ProofsPriced ==
    ASSUME NEW ps \in Seq(Proof)
    PROVE  Priced(ps)
<1>1. IsList(ps) /\ \A i \in 1 .. Len(ps) : ps[i] \in Proof
  BY SeqIsList, OfTheSet
<1>2. \A p \in Proof : HasPrice(p)
  BY DEF Proof, HasPrice
<1> QED BY <1>1, <1>2 DEF Priced

----------
(* Where the items of a stream end *)

\* The positions after 0, 1, 2, .. whole items from p on, given those from p + 1 on.
Row(s, p, after) ==
    [n \in Nat |-> IF n = 0 THEN p
                   ELSE IF p > Len(s) THEN 0
                   ELSE after[n - 1 + Codec!Kids(s[p])]]

\* All those positions.
IsPast(f, s) == f = [p \in 1 .. (Len(s) + 1) |-> Row(s, p, f[p + 1])]

\* They are found from the end of the stream backwards.
LEMMA PastExists ==
    ASSUME NEW s, Len(s) \in Nat
    PROVE  \E f : IsPast(f, s)
<1> DEFINE N == Len(s) + 1
           R(p, e) == Row(s, p, e)
           Good(f, i) == \A p \in 1 .. N : p > N - i => f[p] = R(p, f[p + 1])
           Has(i) == \E f : Good(f, i)
           S == {i \in 0 .. N : Has(i)}
<1>1. N \in Nat /\ N >= 1
  OBVIOUS
<1>2. \A e, d : R(N, e) = R(N, d)
  BY DEF Row
<1> HIDE DEF R, N
<1>3. 0 \in S
  <2>1. \A f : Good(f, 0)
    BY <1>1
  <2> QED BY <1>1, <2>1
<1>4. ASSUME NEW i \in 0 .. (N - 1), i \in S
      PROVE  i + 1 \in S
  <2>1. PICK f : Good(f, i)
    BY <1>4
  <2> DEFINE m == N - i
             g == [p \in 1 .. N |-> IF p = m THEN R(m, f[m + 1]) ELSE f[p]]
  <2>2. m \in 1 .. N /\ i + 1 \in 0 .. N
    BY <1>1
  <2>3. ASSUME NEW p \in 1 .. N, p > N - (i + 1)
        PROVE  g[p] = R(p, g[p + 1])
    <3>1. p = m \/ p > N - i
      BY <1>1, <2>3
    <3>2. g[p] = R(p, f[p + 1])
      BY <2>1, <3>1
    <3>3. CASE p = N
      BY <1>2, <3>2, <3>3
    <3>4. CASE p # N
      <4>1. p + 1 \in 1 .. N /\ p + 1 # m
        BY <1>1, <2>3, <3>4
      <4> QED BY <3>2, <4>1
    <3> QED BY <3>3, <3>4
  <2> HIDE DEF g
  <2>4. Good(g, i + 1)
    BY <2>3
  <2> QED BY <2>2, <2>4
<1>5. N \in S
  <2>1. \A i \in 0 .. N : i \in S
    <3>1. \A i \in 0 .. (N - 1) : i \in S => i + 1 \in S
      BY <1>4
    <3> HIDE DEF S, Has
    <3> QED BY <1>1, <1>3, <3>1, Upwards
  <2>2. N \in 0 .. N
    BY <1>1
  <2> HIDE DEF S, Has
  <2> QED BY <2>1, <2>2
<1>6. PICK f : Good(f, N)
  BY <1>5
<1> DEFINE g == [p \in 1 .. N |-> f[p]]
<1>7. ASSUME NEW p \in 1 .. N
      PROVE  f[p] = R(p, g[p + 1])
  <2>1. f[p] = R(p, f[p + 1])
    BY <1>1, <1>6
  <2>2. CASE p = N
    BY <1>2, <2>1, <2>2
  <2>3. CASE p # N
    <3>1. p + 1 \in 1 .. N
      BY <1>1, <2>3
    <3> QED BY <2>1, <3>1
  <2> QED BY <2>2, <2>3
<1>8. g = [p \in 1 .. N |-> R(p, g[p + 1])]
  <2>1. [p \in 1 .. N |-> f[p]] = [p \in 1 .. N |-> R(p, g[p + 1])]
    <3> HIDE DEF g
    <3> QED BY <1>7
  <2> QED BY <2>1
<1> HIDE DEF g
<1> QED BY <1>8 DEF IsPast, R, N

\* How a reader gets from one item to the next.
LEMMA PastDef ==
    ASSUME NEW s, Len(s) \in Nat, NEW p \in 1 .. (Len(s) + 1)
    PROVE  /\ Codec!Past(s)[p][0] = p
           /\ \A n \in Nat \ {0} :
                  Codec!Past(s)[p][n] =
                      IF p > Len(s) THEN 0
                      ELSE Codec!Past(s)[p + 1][n - 1 + Codec!Kids(s[p])]
<1> DEFINE f == Codec!Past(s)
           N == Len(s) + 1
<1>1. f = CHOOSE g : IsPast(g, s)
  BY DEF Codec!Past, IsPast, Row
<1>2. IsPast(f, s)
  BY <1>1, PastExists
<1> HIDE DEF f
<1>3. f[p] = Row(s, p, f[p + 1])
  <2> DEFINE R(q) == Row(s, q, f[q + 1])
  <2>1. f = [q \in 1 .. N |-> R(q)]
    BY <1>2 DEF IsPast
  <2> HIDE DEF R
  <2>2. f[p] = R(p)
    BY <2>1
  <2> QED BY <2>2 DEF R
<1> DEFINE e == f[p + 1]
           k == Codec!Kids(s[p])
<1> HIDE DEF e, k
<1>4. Row(s, p, e) = [n \in Nat |-> IF n = 0 THEN p ELSE IF p > Len(s) THEN 0 ELSE e[n - 1 + k]]
  BY DEF Row, k
<1>5. f[p] = [n \in Nat |-> IF n = 0 THEN p ELSE IF p > Len(s) THEN 0 ELSE e[n - 1 + k]]
  BY <1>3, <1>4 DEF e
<1>6. f[p][0] = p
  BY <1>5
<1>7. \A n \in Nat \ {0} : f[p][n] = IF p > Len(s) THEN 0 ELSE e[n - 1 + k]
  BY <1>5
<1> QED BY <1>6, <1>7 DEF f, e, k

\* The position after n whole items from p on, 0 when the stream ends first,
\* also for positions behind its end.
Ahead(s, p, n) == IF p > Len(s) + 1 THEN 0 ELSE Codec!Past(s)[p][n]

\* From one item to the next.
LEMMA AheadDef ==
    ASSUME NEW s, Len(s) \in Nat, NEW p \in Nat \ {0}
    PROVE  /\ Ahead(s, p, 0) = IF p <= Len(s) + 1 THEN p ELSE 0
           /\ \A n \in Nat :
                  Ahead(s, p, n + 1) =
                      IF p > Len(s) THEN 0 ELSE Ahead(s, p + 1, n + Codec!Kids(s[p]))
<1>1. CASE p > Len(s) + 1
  BY <1>1 DEF Ahead
<1>2. CASE p <= Len(s) + 1
  <2> DEFINE f == Codec!Past(s)
             e == f[p]
             d == f[p + 1]
             k == Codec!Kids(s[p])
  <2>1. p \in 1 .. (Len(s) + 1)
    BY <1>2
  <2>2. /\ e[0] = p
        /\ \A n \in Nat \ {0} : e[n] = IF p > Len(s) THEN 0 ELSE d[n - 1 + k]
    BY <2>1, PastDef
  <2>3. \A n : Ahead(s, p, n) = e[n]
    BY <1>2 DEF Ahead
  <2>4. p <= Len(s) => \A n : Ahead(s, p + 1, n) = d[n]
    BY DEF Ahead
  <2> HIDE DEF d, e, f, k
  <2>5. ASSUME NEW n \in Nat
        PROVE  e[n + 1] = IF p > Len(s) THEN 0 ELSE d[n + k]
    <3>1. n + 1 \in Nat \ {0} /\ (n + 1) - 1 = n
      OBVIOUS
    <3> QED BY <2>2, <3>1
  <2>6. \A n \in Nat : Ahead(s, p, n + 1) = IF p > Len(s) THEN 0 ELSE Ahead(s, p + 1, n + k)
    <3> TAKE n \in Nat
    <3>1. Ahead(s, p, n + 1) = e[n + 1]
      BY <2>3
    <3>2. p <= Len(s) => Ahead(s, p + 1, n + k) = d[n + k]
      BY <2>4
    <3>3. e[n + 1] = IF p > Len(s) THEN 0 ELSE d[n + k]
      BY <2>5
    <3>4. p \in Nat /\ (p > Len(s) \/ p <= Len(s))
      OBVIOUS
    <3> QED BY <3>1, <3>2, <3>3, <3>4
  <2> QED BY <1>2, <2>2, <2>3, <2>6 DEF k
<1> QED BY <1>1, <1>2

\* The stream s shows the list x from position p on, as far as s goes.
Shows(s, p, x) == \A i \in 1 .. Len(x) : p + i - 1 <= Len(s) => s[p + i - 1] = x[i]

\* Reading k items from p on leads L positions further.
Over(s, p, L, k) == \A j \in Nat : Ahead(s, p, k + j) = Ahead(s, p + L, j)

\* The list x is k whole items.
Whole(s, x, k) ==
    /\ IsList(x) /\ k \in Nat
    /\ \A p \in Nat \ {0} : Shows(s, p, x) => Over(s, p, Len(x), k)

\* Two lists, one after the other.
LEMMA AfterTheOther ==
    ASSUME NEW u, NEW v, IsList(u), IsList(v)
    PROVE  /\ IsList(u \o v) /\ Len(u \o v) = Len(u) + Len(v)
           /\ \A i \in 1 .. Len(u) : (u \o v)[i] = u[i]
           /\ \A i \in 1 .. Len(v) : (u \o v)[Len(u) + i] = v[i]
<1> DEFINE S == Range(u) \cup Range(v)
<1>1. u \in Seq(S) /\ v \in Seq(S)
  BY ListWithin
<1> HIDE DEF S
<1>2. /\ u \o v \in Seq(S) /\ Len(u \o v) = Len(u) + Len(v)
      /\ \A i \in 1 .. Len(u) : (u \o v)[i] = u[i]
      /\ \A i \in 1 .. Len(v) : (u \o v)[Len(u) + i] = v[i]
  BY <1>1, TwoJoined
<1> QED BY <1>2, SeqIsList

\* What shows both shows each.
LEMMA ShowsBoth ==
    ASSUME NEW s, Len(s) \in Nat, NEW p \in Nat \ {0}, NEW u, NEW v, IsList(u), IsList(v),
           Shows(s, p, u \o v)
    PROVE  /\ Shows(s, p, u) /\ Shows(s, p + Len(u), v)
           /\ p + Len(u) \in Nat \ {0} /\ Len(u \o v) = Len(u) + Len(v)
<1> DEFINE w == u \o v
           m == Len(u)
           n == Len(v)
<1>1. /\ m \in Nat /\ n \in Nat /\ Len(w) = m + n
      /\ \A i \in 1 .. m : w[i] = u[i]
      /\ \A i \in 1 .. n : w[m + i] = v[i]
  BY SMTT(30), AfterTheOther DEF IsList
<1>2. \A i \in 1 .. Len(w) : p + i - 1 <= Len(s) => s[p + i - 1] = w[i]
  BY DEF Shows
<1> HIDE DEF w
<1>3. Shows(s, p, u)
  <2>1. \A i \in 1 .. m : i \in 1 .. Len(w)
    BY <1>1
  <2> QED BY <1>1, <1>2, <2>1 DEF Shows
<1>4. Shows(s, p + m, v)
  <2> SUFFICES ASSUME NEW i \in 1 .. n, p + m + i - 1 <= Len(s)
               PROVE  s[p + m + i - 1] = v[i]
    BY DEF Shows
  <2>1. m + i \in 1 .. Len(w) /\ p + (m + i) - 1 = p + m + i - 1
    BY <1>1
  <2>2. s[p + (m + i) - 1] = w[m + i]
    BY <1>2, <2>1
  <2> QED BY <1>1, <2>1, <2>2
<1> QED BY <1>1, <1>3, <1>4 DEF w

\* A stream shows its own start.
LEMMA ShowsItself ==
    ASSUME NEW x, IsList(x), NEW n \in 0 .. Len(x)
    PROVE  /\ Len(SubSeq(x, 1, n)) = n
           /\ Shows(SubSeq(x, 1, n), 1, x)
<1>1. x \in Seq(Range(x)) /\ Len(x) \in Nat
  BY ListIsSeq DEF IsList
<1>2. Len(SubSeq(x, 1, n)) = n /\ \A i \in 1 .. n : SubSeq(x, 1, n)[i] = x[i]
  BY <1>1
<1> DEFINE s == SubSeq(x, 1, n)
<1> HIDE DEF s
<1>3. Shows(s, 1, x)
  <2> SUFFICES ASSUME NEW i \in 1 .. Len(x), 1 + i - 1 <= Len(s)
               PROVE  s[1 + i - 1] = x[i]
    BY DEF Shows
  <2>1. i \in 1 .. n /\ 1 + i - 1 = i
    BY <1>1, <1>2 DEF s
  <2> QED BY <1>2, <2>1 DEF s
<1> QED BY <1>2, <1>3 DEF s

----------
(* Whole items *)

\* Nothing, an item with what stands under it, and one list after another.
LEMMA WholeNone == \A s : Whole(s, <<>>, 0)
<1> SUFFICES ASSUME NEW s PROVE Whole(s, <<>>, 0)
  OBVIOUS
<1>1. IsList(<<>>)
  BY DEF IsList
<1>2. \A p \in Nat \ {0} : Over(s, p, 0, 0)
  <2> SUFFICES ASSUME NEW p \in Nat \ {0}, NEW j \in Nat
               PROVE  Ahead(s, p, 0 + j) = Ahead(s, p + 0, j)
    BY DEF Over
  <2>1. 0 + j = j /\ p + 0 = p
    OBVIOUS
  <2> QED BY <2>1
<1> QED BY <1>1, <1>2 DEF Whole

\* One after the other.
LEMMA WholeBoth ==
    ASSUME NEW s, Len(s) \in Nat, NEW u, NEW v, NEW k, NEW l, Whole(s, u, k), Whole(s, v, l)
    PROVE  Whole(s, u \o v, k + l)
<1>1. IsList(u) /\ IsList(v) /\ k \in Nat /\ l \in Nat /\ Len(u) \in Nat /\ Len(v) \in Nat
  BY DEF Whole, IsList
<1>2. IsList(u \o v) /\ Len(u \o v) = Len(u) + Len(v)
  BY <1>1, AfterTheOther
<1>3. ASSUME NEW p \in Nat \ {0}, Shows(s, p, u \o v)
      PROVE  Over(s, p, Len(u) + Len(v), k + l)
  <2> DEFINE q == p + Len(u)
  <2>1. Shows(s, p, u) /\ Shows(s, q, v) /\ q \in Nat \ {0}
    BY <1>1, <1>3, ShowsBoth
  <2>2. \A j \in Nat : Ahead(s, p, k + j) = Ahead(s, q, j)
    BY <2>1 DEF Whole, Over
  <2> HIDE DEF q
  <2>3. \A j \in Nat : Ahead(s, q, l + j) = Ahead(s, q + Len(v), j)
    BY <2>1 DEF Whole, Over
  <2>4. ASSUME NEW j \in Nat
        PROVE  Ahead(s, p, (k + l) + j) = Ahead(s, p + (Len(u) + Len(v)), j)
    <3>1. l + j \in Nat /\ (k + l) + j = k + (l + j)
      BY <1>1
    <3>2. p + (Len(u) + Len(v)) = q + Len(v)
      BY <1>1 DEF q
    <3> QED BY <2>2, <2>3, <3>1, <3>2
  <2> QED BY <2>4 DEF Over
<1> QED BY <1>1, <1>2, <1>3 DEF Whole

\* An item with what stands under it.
LEMMA WholeUnder ==
    ASSUME NEW s, Len(s) \in Nat, NEW a, NEW x, Whole(s, x, Codec!Kids(a))
    PROVE  Whole(s, <<a>> \o x, 1)
<1> DEFINE k == Codec!Kids(a)
<1>1. IsList(<<a>>) /\ Len(<<a>>) = 1 /\ <<a>>[1] = a
  BY DEF IsList
<1>2. IsList(x) /\ k \in Nat /\ Len(x) \in Nat
  BY DEF Whole, IsList
<1>3. IsList(<<a>> \o x) /\ Len(<<a>> \o x) = 1 + Len(x)
  BY <1>1, <1>2, AfterTheOther
<1>4. ASSUME NEW p \in Nat \ {0}, Shows(s, p, <<a>> \o x)
      PROVE  Over(s, p, 1 + Len(x), 1)
  <2>1. Shows(s, p, <<a>>) /\ Shows(s, p + 1, x) /\ p + 1 \in Nat \ {0}
    <3> DEFINE u == <<a>>
    <3> HIDE DEF u
    <3>1. Shows(s, p, u \o x) /\ IsList(u)
      BY <1>1, <1>4 DEF u
    <3>2. Shows(s, p, u) /\ Shows(s, p + Len(u), x) /\ p + Len(u) \in Nat \ {0}
      BY <1>2, <3>1, ShowsBoth
    <3> QED BY <1>1, <3>2 DEF u
  <2>2. p <= Len(s) => s[p] = a
    <3>1. 1 \in 1 .. Len(<<a>>) /\ p + 1 - 1 = p
      BY <1>1
    <3> QED BY <1>1, <2>1, <3>1 DEF Shows
  <2>3. \A j \in Nat : Ahead(s, p + 1, k + j) = Ahead(s, (p + 1) + Len(x), j)
    BY <2>1 DEF Whole, Over
  <2>4. ASSUME NEW j \in Nat
        PROVE  Ahead(s, p, 1 + j) = Ahead(s, p + (1 + Len(x)), j)
    <3> DEFINE q == p + (1 + Len(x))
    <3>1. 1 + j = j + 1 /\ q = (p + 1) + Len(x) /\ q \in Nat \ {0} /\ q >= p + 1
      BY <1>2
    <3> HIDE DEF q
    <3>2. Ahead(s, p, j + 1) = IF p > Len(s) THEN 0 ELSE Ahead(s, p + 1, j + Codec!Kids(s[p]))
      BY AheadDef
    <3>3. CASE p <= Len(s)
      <4>1. j + Codec!Kids(s[p]) = k + j
        BY <1>2, <2>2, <3>3
      <4> QED BY <2>3, <3>1, <3>2, <3>3, <4>1 DEF q
    <3>4. CASE p > Len(s)
      <4>1. q > Len(s) + 1
        BY <3>1, <3>4
      <4> QED BY <3>1, <3>2, <3>4, <4>1 DEF Ahead, q
    <3> QED BY <3>3, <3>4 DEF q
  <2> QED BY <2>4 DEF Over
<1> QED BY <1>3, <1>4 DEF Whole

\* Lists joined are a sequence of sequences.
LEMMA ListsOfLists ==
    ASSUME NEW xs, IsList(xs), \A i \in 1 .. Len(xs) : IsList(xs[i])
    PROVE  \E S : xs \in Seq(Seq(S))
<1> DEFINE S == UNION {Range(xs[i]) : i \in 1 .. Len(xs)}
<1>1. \A i \in 1 .. Len(xs) : xs[i] \in Seq(S)
  <2> TAKE i \in 1 .. Len(xs)
  <2>1. Range(xs[i]) \subseteq S
    OBVIOUS
  <2> HIDE DEF S
  <2> QED BY <2>1, ListWithin
<1> HIDE DEF S
<1>2. [i \in 1 .. Len(xs) |-> xs[i]] \in Seq(Seq(S))
  BY <1>1 DEF IsList
<1>3. xs \in Seq(Seq(S))
  BY <1>2 DEF IsList
<1> QED BY <1>3

\* Lists of one item each, as they stand in the stream from p on.
InRow(s, p, xs) ==
    /\ IsList(Joined(xs))
    /\ Len(Flat(xs, 0)) = 0 /\ Len(Flat(xs, Len(xs))) = Len(Joined(xs))
    /\ \A i \in 0 .. Len(xs) : Len(Flat(xs, i)) \in Nat /\ Over(s, p, Len(Flat(xs, i)), i)
    /\ \A i \in 1 .. Len(xs) :
           /\ Shows(s, p + Len(Flat(xs, i - 1)), xs[i])
           /\ Len(Flat(xs, i)) = Len(Flat(xs, i - 1)) + Len(xs[i])
           /\ Len(Flat(xs, i)) <= Len(Joined(xs))

\* So they do where the stream shows them joined.
LEMMA RowShown ==
    ASSUME NEW s, Len(s) \in Nat, NEW xs, IsList(xs),
           \A i \in 1 .. Len(xs) : Whole(s, xs[i], 1),
           NEW p \in Nat \ {0}, Shows(s, p, Joined(xs))
    PROVE  InRow(s, p, xs)
<1> DEFINE n == Len(xs)
           L(i) == Len(Flat(xs, i))
           w == Joined(xs)
           R == {i \in 0 .. n : Over(s, p, L(i), i)}
<1>1. n \in Nat /\ \A i \in 1 .. n : IsList(xs[i])
  BY DEF IsList, Whole
<1>2. PICK S : xs \in Seq(Seq(S))
  BY <1>1, ListsOfLists
<1>3. /\ w = Flat(xs, n) /\ L(0) = 0 /\ IsList(w)
      /\ \A i \in 0 .. n : L(i) \in Nat
  <2>1. /\ w = Flat(xs, n) /\ Flat(xs, 0) = <<>>
        /\ \A i \in 0 .. n : Flat(xs, i) \in Seq(S)
    BY <1>2, FlatDef
  <2>2. n \in 0 .. n
    BY <1>1
  <2>3. \A i \in 0 .. n : L(i) \in Nat
    BY <2>1, LenProperties
  <2>4. IsList(w)
    <3>1. w \in Seq(S)
      BY <2>1, <2>2
    <3> HIDE DEF w, n
    <3> QED BY <3>1, SeqIsList
  <2> QED BY <2>1, <2>3, <2>4
<1>4. ASSUME NEW i \in 0 .. (n - 1)
      PROVE  /\ L(i + 1) = L(i) + Len(xs[i + 1])
             /\ L(i + 1) <= Len(w)
             /\ \A j \in 1 .. Len(xs[i + 1]) : w[L(i) + j] = xs[i + 1][j]
             /\ L(i) \in Nat /\ L(i + 1) \in Nat /\ Len(xs[i + 1]) \in Nat
  <2>1. /\ Len(Flat(xs, i + 1)) = Len(Flat(xs, i)) + Len(xs[i + 1])
        /\ Len(Flat(xs, i + 1)) <= Len(Joined(xs))
        /\ \A j \in 1 .. Len(xs[i + 1]) : Joined(xs)[Len(Flat(xs, i)) + j] = xs[i + 1][j]
    BY <1>2, FlatAt
  <2>2. i \in 0 .. n /\ i + 1 \in 0 .. n /\ i + 1 \in 1 .. n
    BY <1>1
  <2>3. Len(xs[i + 1]) \in Nat
    BY <1>1, <2>2 DEF IsList
  <2> QED BY <1>3, <2>1, <2>2, <2>3
<1>5. \A j \in 1 .. Len(w) : p + j - 1 <= Len(s) => s[p + j - 1] = w[j]
  BY DEF Shows
<1>6. Len(w) \in Nat
  BY <1>3 DEF IsList
<1> HIDE DEF w, L, n
<1>7. ASSUME NEW i \in 0 .. (n - 1)
      PROVE  Shows(s, p + L(i), xs[i + 1])
  <2> SUFFICES ASSUME NEW j \in 1 .. Len(xs[i + 1]), p + L(i) + j - 1 <= Len(s)
               PROVE  s[p + L(i) + j - 1] = xs[i + 1][j]
    BY DEF Shows
  <2>1. L(i) + j \in 1 .. Len(w) /\ p + (L(i) + j) - 1 = p + L(i) + j - 1
    <3> DEFINE a == L(i)
               b == L(i + 1)
               l == Len(xs[i + 1])
               m == Len(w)
    <3>1. a \in Nat /\ b = a + l /\ b <= m /\ l \in Nat /\ m \in Nat /\ j \in 1 .. l
      BY <1>4, <1>6
    <3> HIDE DEF a, b, l, m
    <3>2. a + j \in 1 .. m /\ p + (a + j) - 1 = p + a + j - 1
      BY <3>1
    <3> QED BY <3>2 DEF a, m
  <2>2. s[p + (L(i) + j) - 1] = w[L(i) + j]
    BY <1>5, <2>1
  <2> QED BY <1>4, <2>1, <2>2
<1>8. 0 \in R
  <2>1. ASSUME NEW j \in Nat
        PROVE  Ahead(s, p, 0 + j) = Ahead(s, p + 0, j)
    <3>1. 0 + j = j /\ p + 0 = p
      OBVIOUS
    <3> QED BY <3>1
  <2> QED BY <1>1, <1>3, <2>1 DEF Over
<1>9. ASSUME NEW i \in 0 .. (n - 1), i \in R
      PROVE  i + 1 \in R
  <2> DEFINE q == p + L(i)
             x == xs[i + 1]
  <2>1. q \in Nat \ {0} /\ i + 1 \in 0 .. n /\ i + 1 \in 1 .. n /\ i \in Nat
    BY <1>1, <1>4
  <2>2. Whole(s, x, 1) /\ Shows(s, q, x)
    BY <1>7, <2>1 DEF n
  <2> HIDE DEF q, x
  <2>3. \A j \in Nat : Ahead(s, q, 1 + j) = Ahead(s, q + Len(x), j)
    BY <2>1, <2>2 DEF Whole, Over
  <2>4. \A j \in Nat : Ahead(s, p, i + j) = Ahead(s, q, j)
    BY <1>9 DEF Over, q
  <2>5. ASSUME NEW j \in Nat
        PROVE  Ahead(s, p, (i + 1) + j) = Ahead(s, p + L(i + 1), j)
    <3>1. 1 + j \in Nat /\ (i + 1) + j = i + (1 + j)
      BY <2>1
    <3>2. p + L(i + 1) = q + Len(x)
      BY <1>4 DEF q, x
    <3> QED BY <2>3, <2>4, <3>1, <3>2
  <2> QED BY <2>1, <2>5 DEF Over
<1> HIDE DEF R
<1>10. \A i \in 0 .. n : i \in R
  BY <1>1, <1>8, <1>9, Upwards
<1>11. ASSUME NEW i \in 1 .. n
       PROVE  /\ Shows(s, p + L(i - 1), xs[i])
              /\ L(i) = L(i - 1) + Len(xs[i]) /\ L(i) <= Len(w)
  <2> DEFINE h == i - 1
  <2>1. h \in 0 .. (n - 1) /\ i = h + 1
    BY <1>1
  <2> HIDE DEF h
  <2>2. Shows(s, p + L(h), xs[h + 1]) /\ L(h + 1) = L(h) + Len(xs[h + 1])
        /\ L(h + 1) <= Len(w)
    BY <1>4, <1>7, <2>1
  <2> QED BY <2>1, <2>2 DEF h
<1> QED BY <1>3, <1>10, <1>11 DEF InRow, R, L, n, w

\* And they are as many items when they are joined.
LEMMA WholeFlat ==
    ASSUME NEW s, Len(s) \in Nat, NEW xs, IsList(xs),
           \A i \in 1 .. Len(xs) : Whole(s, xs[i], 1)
    PROVE  Whole(s, Joined(xs), Len(xs))
<1>1. Len(xs) \in Nat /\ \A i \in 1 .. Len(xs) : IsList(xs[i])
  BY DEF IsList, Whole
<1>2. IsList(Joined(xs))
  BY <1>1, ListsFlat
<1>3. ASSUME NEW p \in Nat \ {0}, Shows(s, p, Joined(xs))
      PROVE  Over(s, p, Len(Joined(xs)), Len(xs))
  <2>1. InRow(s, p, xs)
    BY <1>3, RowShown
  <2>2. Len(xs) \in 0 .. Len(xs)
    BY <1>1
  <2> QED BY <2>1, <2>2 DEF InRow
<1> QED BY <1>1, <1>2, <1>3 DEF Whole

----------
(* The fields of a map *)

\* At q stands the key name, with an item behind it.
Hit(s, q, name) == q \in 1 .. (Len(s) - 1) /\ s[q].k = "key" /\ s[q].v = name

\* Of the c pairs from p on, only the one with its value at q has that key;
\* none has when q is 0, and one has when the stream goes as far as q.
FoundAt(s, p, c, name, q) ==
    /\ c \in Nat /\ q \in Nat
    /\ \A j \in 0 .. (c - 1) :
           Hit(s, Ahead(s, p, 2 * j), name) => Ahead(s, p, 2 * j) + 1 = q
    /\ q \in 1 .. Len(s) => \E j \in 0 .. (c - 1) : Hit(s, Ahead(s, p, 2 * j), name)

\* The value v of a field stands at q, between two positions; no value at 0.
Stands(s, lo, hi, q, v) ==
    IF v = <<>> THEN q = 0 ELSE q > lo /\ q + Len(v) <= hi /\ Shows(s, q, v)

\* The list x is c pairs, and v is the value one of them gives to the key.
Given(s, x, c, name, v) ==
    /\ c \in Nat /\ Whole(s, x, 2 * c) /\ IsList(v)
    /\ \A p \in Nat \ {0} :
           Shows(s, p, x) => \E q \in Nat : /\ FoundAt(s, p, c, name, q)
                                            /\ Stands(s, p, p + Len(x), q, v)

\* The fields of a map are found where they stand.
LEMMA MapFinds ==
    ASSUME NEW s, Len(s) \in Nat, NEW m \in 1 .. Len(s), NEW n \in Nat,
           s[m] = Codec!MapOf(n), NEW name, NEW q, FoundAt(s, m + 1, n, name, q)
    PROVE  Codec!Find(s, m, name) = IF q \in 1 .. Len(s) THEN q ELSE 0
<1> DEFINE past == Codec!Past(s)
           at(i) == past[m + 1][2 * (i - 1)]
           hits == {i \in 1 .. s[m].v : /\ at(i) \in 1 .. (Len(s) - 1)
                                        /\ s[at(i)].k = "key"
                                        /\ s[at(i)].v = name}
<1>1. Codec!Find(s, m, name) =
          IF s[m].k # "map" \/ hits = {} THEN 0 ELSE at(Codec!Min(hits)) + 1
  BY DEF Codec!Find
<1>2. s[m].k = "map" /\ s[m].v = n
  BY DEF Codec!MapOf
<1>3. \A i : at(i) = Ahead(s, m + 1, 2 * (i - 1))
  BY DEF Ahead
<1> HIDE DEF at
<1>4. hits = {i \in 1 .. n : Hit(s, at(i), name)}
  BY <1>2 DEF Hit
<1> HIDE DEF hits
<1>5. ASSUME NEW i \in hits
      PROVE  at(i) + 1 = q /\ q \in 1 .. Len(s)
  <2> DEFINE j == i - 1
  <2>1. j \in 0 .. (n - 1) /\ at(i) = Ahead(s, m + 1, 2 * j) /\ Hit(s, at(i), name)
    BY <1>3, <1>4
  <2> HIDE DEF j
  <2>2. at(i) + 1 = q
    BY <2>1 DEF FoundAt
  <2>3. at(i) \in 1 .. (Len(s) - 1)
    BY <2>1 DEF Hit
  <2> QED BY <2>2, <2>3
<1>6. q \in 1 .. Len(s) => hits # {}
  <2> SUFFICES ASSUME q \in 1 .. Len(s) PROVE hits # {}
    OBVIOUS
  <2>1. PICK j \in 0 .. (n - 1) : Hit(s, Ahead(s, m + 1, 2 * j), name)
    BY DEF FoundAt
  <2> DEFINE i == j + 1
  <2>2. i \in 1 .. n /\ i - 1 = j
    OBVIOUS
  <2> HIDE DEF i
  <2>3. Hit(s, at(i), name)
    BY <1>3, <2>1, <2>2
  <2> QED BY <1>4, <2>2, <2>3
<1>7. CASE hits = {}
  BY <1>1, <1>6, <1>7
<1>8. CASE hits # {}
  <2>1. hits \subseteq Nat
    BY <1>4
  <2>2. Codec!Min(hits) \in hits
    <3>1. PICK i \in hits : \A j \in hits : ~(<<j, i>> \in Below)
      BY <1>8, <2>1, BelowWellFounded, WFMin
    <3>2. \A j \in hits : i <= j
      <4>1. SUFFICES ASSUME NEW j \in hits PROVE i <= j
        OBVIOUS
      <4>2. i \in Nat /\ j \in Nat /\ ~(<<j, i>> \in Below)
        BY <2>1, <3>1
      <4> QED BY <4>2 DEF Below
    <3> QED BY <3>2 DEF Codec!Min
  <2>3. at(Codec!Min(hits)) + 1 = q /\ q \in 1 .. Len(s)
    BY <1>5, <2>2
  <2> QED BY <1>1, <1>2, <1>8, <2>3
<1> QED BY <1>7, <1>8

\* Behind the end of the stream nothing is found.
LEMMA FoundNowhere ==
    ASSUME NEW s, Len(s) \in Nat, NEW p \in Nat \ {0}, NEW name, NEW c \in Nat,
           p > Len(s) \/ c = 0
    PROVE  FoundAt(s, p, c, name, 0)
<1>1. ASSUME NEW j \in 0 .. (c - 1)
      PROVE  ~Hit(s, Ahead(s, p, 2 * j), name)
  <2>1. p > Len(s)
    BY <1>1
  <2>2. CASE j = 0
    <3>1. Ahead(s, p, 0) = p \/ Ahead(s, p, 0) = 0
      BY AheadDef
    <3> QED BY <2>1, <2>2, <3>1 DEF Hit
  <2>3. CASE j # 0
    <3> DEFINE n == 2 * j - 1
    <3>1. n \in Nat /\ 2 * j = n + 1
      BY <2>3
    <3> HIDE DEF n
    <3>2. Ahead(s, p, n + 1) = 0
      BY <2>1, <3>1, AheadDef
    <3>3. Ahead(s, p, 2 * j) = 0
      BY <3>1, <3>2
    <3> QED BY <3>3 DEF Hit
  <2> QED BY <2>2, <2>3
<1> QED BY <1>1 DEF FoundAt

\* What is found in one of two rows of pairs is found in both together.
LEMMA FoundBoth ==
    ASSUME NEW s, Len(s) \in Nat, NEW p \in Nat \ {0}, NEW L \in Nat, NEW name,
           NEW c, NEW d, NEW q, NEW r, Over(s, p, L, 2 * c),
           FoundAt(s, p, c, name, q), FoundAt(s, p + L, d, name, r), q = 0 \/ r = 0
    PROVE  FoundAt(s, p, c + d, name, q + r)
<1> DEFINE A(j) == Ahead(s, p, 2 * j)
           B(j) == Ahead(s, p + L, 2 * j)
<1>1. c \in Nat /\ d \in Nat /\ q \in Nat /\ r \in Nat
  BY DEF FoundAt
<1>2. ASSUME NEW j \in Nat
      PROVE  A(c + j) = B(j)
  <2>1. 2 * j \in Nat /\ 2 * c + 2 * j = 2 * (c + j)
    BY <1>1
  <2>2. Ahead(s, p, 2 * c + 2 * j) = Ahead(s, p + L, 2 * j)
    BY <2>1 DEF Over
  <2> QED BY <2>1, <2>2
<1>3. /\ \A j \in 0 .. (c - 1) : Hit(s, A(j), name) => A(j) + 1 = q
      /\ q \in 1 .. Len(s) => \E j \in 0 .. (c - 1) : Hit(s, A(j), name)
      /\ \A j \in 0 .. (d - 1) : Hit(s, B(j), name) => B(j) + 1 = r
      /\ r \in 1 .. Len(s) => \E j \in 0 .. (d - 1) : Hit(s, B(j), name)
  BY DEF FoundAt
<1>4. \A j : Hit(s, A(j), name) => A(j) \in Nat \ {0}
  BY DEF Hit
<1> HIDE DEF A, B
<1>6. ASSUME NEW j \in 0 .. (c + d - 1), Hit(s, A(j), name)
      PROVE  A(j) + 1 = q + r
  <2>1. CASE j < c
    <3>1. j \in 0 .. (c - 1)
      BY <1>1, <2>1
    <3>2. A(j) + 1 = q /\ A(j) \in Nat \ {0}
      BY <1>3, <1>4, <1>6, <3>1
    <3> QED BY <1>1, <3>2
  <2>2. CASE ~(j < c)
    <3> DEFINE i == j - c
    <3>1. i \in 0 .. (d - 1) /\ i \in Nat /\ j = c + i
      BY <1>1, <2>2
    <3> HIDE DEF i
    <3>2. A(j) = B(i)
      BY <1>2, <3>1
    <3>3. A(j) + 1 = r /\ A(j) \in Nat \ {0}
      BY <1>3, <1>4, <1>6, <3>1, <3>2
    <3> QED BY <1>1, <3>3
  <2> QED BY <2>1, <2>2
<1>7. ASSUME q + r \in 1 .. Len(s)
      PROVE  \E j \in 0 .. (c + d - 1) : Hit(s, A(j), name)
  <2>1. CASE r = 0
    <3>1. PICK j \in 0 .. (c - 1) : Hit(s, A(j), name)
      BY <1>1, <1>3, <1>7, <2>1
    <3>2. j \in 0 .. (c + d - 1)
      BY <1>1
    <3> QED BY <3>1, <3>2
  <2>2. CASE q = 0
    <3>1. PICK j \in 0 .. (d - 1) : Hit(s, B(j), name)
      BY <1>1, <1>3, <1>7, <2>2
    <3>2. c + j \in 0 .. (c + d - 1) /\ j \in Nat
      BY <1>1
    <3>3. Hit(s, A(c + j), name)
      BY <1>2, <3>1, <3>2
    <3> QED BY <3>2, <3>3
  <2> QED BY <2>1, <2>2
<1>8. c + d \in Nat /\ q + r \in Nat
  BY <1>1
<1> QED BY <1>6, <1>7, <1>8 DEF FoundAt, A

\* No pairs give nothing,
LEMMA GivenNone ==
    ASSUME NEW s, Len(s) \in Nat, NEW name
    PROVE  Given(s, <<>>, 0, name, <<>>)
<1>1. Whole(s, <<>>, 2 * 0) /\ IsList(<<>>)
  <2>1. 2 * 0 = 0
    OBVIOUS
  <2> QED BY <2>1, WholeNone DEF Whole
<1>2. \A p \in Nat \ {0} : FoundAt(s, p, 0, name, 0)
  BY FoundNowhere
<1>3. \A p, h : Stands(s, p, h, 0, <<>>)
  BY DEF Stands
<1> QED BY <1>1, <1>2, <1>3 DEF Given

\* a pair gives its key its value,
LEMMA GivenOne ==
    ASSUME NEW s, Len(s) \in Nat, NEW key, NEW v, Whole(s, v, 1), v # <<>>, NEW name
    PROVE  Given(s, <<Codec!Key(key)>> \o v, 1, name, IF key = name THEN v ELSE <<>>)
<1> DEFINE k == Codec!Key(key)
           u == <<k>>
           x == u \o v
<1>1. Codec!Kids(k) = 0 /\ k.k = "key" /\ k.v = key
  BY DEF Codec!Kids, Codec!Key
<1>2. IsList(u) /\ Len(u) = 1 /\ u[1] = k
  BY DEF IsList
<1>3. IsList(v) /\ Len(v) \in Nat /\ IsList(<<>>)
  BY DEF Whole, IsList
<1>4. u \o <<>> = u
  OBVIOUS
<1> HIDE DEF k
<1>5. Whole(s, u, 1)
  <2>1. Whole(s, <<k>> \o <<>>, 1)
    <3>1. Whole(s, <<>>, Codec!Kids(k))
      BY <1>1, WholeNone
    <3> QED BY <3>1, WholeUnder
  <2> QED BY <1>4, <2>1
<1> HIDE DEF u
<1>6. Whole(s, x, 2 * 1)
  <2>1. 1 + 1 = 2 * 1
    OBVIOUS
  <2>2. Whole(s, x, 1 + 1)
    BY <1>5, WholeBoth
  <2> QED BY <2>1, <2>2
<1>7. ASSUME NEW p \in Nat \ {0}, Shows(s, p, x)
      PROVE  \E q \in Nat : /\ FoundAt(s, p, 1, name, q)
                            /\ Stands(s, p, p + Len(x), q, IF key = name THEN v ELSE <<>>)
  <2>1. Shows(s, p, u) /\ Shows(s, p + 1, v) /\ Len(x) = 1 + Len(v)
    <3>1. /\ Shows(s, p, u) /\ Shows(s, p + Len(u), v) /\ p + Len(u) \in Nat \ {0}
          /\ Len(u \o v) = Len(u) + Len(v)
      <4>1. Shows(s, p, u \o v)
        BY <1>7
      <4> HIDE DEF x
      <4>2. IsList(u) /\ IsList(v)
        BY <1>2, <1>3
      <4> QED BY <4>1, <4>2, ShowsBoth
    <3> QED BY <1>2, <3>1
  <2>2. p <= Len(s) => s[p] = k
    <3>1. 1 \in 1 .. Len(u) /\ p + 1 - 1 = p
      BY <1>2
    <3> QED BY <1>2, <2>1, <3>1 DEF Shows
  <2>3. Ahead(s, p, 0) = IF p <= Len(s) + 1 THEN p ELSE 0
    BY AheadDef
  <2> DEFINE a == Ahead(s, p, 0)
  <2>4. \A j \in 0 .. (1 - 1) : Ahead(s, p, 2 * j) = a
    <3>1. \A j \in 0 .. (1 - 1) : j = 0 /\ 2 * j = 0
      OBVIOUS
    <3> QED BY <3>1
  <2>5. 0 \in 0 .. (1 - 1)
    OBVIOUS
  <2>6. Hit(s, a, name) => a = p /\ p \in 1 .. (Len(s) - 1) /\ key = name
    BY <1>1, <2>2, <2>3 DEF Hit
  <2>7. p + 1 <= Len(s) /\ key = name => Hit(s, a, name)
    BY <1>1, <2>2, <2>3 DEF Hit
  <2> HIDE DEF a
  <2>8. CASE key = name
    <3>1. FoundAt(s, p, 1, name, p + 1)
      <4>1. \A j \in 0 .. (1 - 1) : Hit(s, Ahead(s, p, 2 * j), name)
                                        => Ahead(s, p, 2 * j) + 1 = p + 1
        BY <2>4, <2>6
      <4>2. p + 1 \in 1 .. Len(s) =>
                \E j \in 0 .. (1 - 1) : Hit(s, Ahead(s, p, 2 * j), name)
        BY <2>4, <2>5, <2>7, <2>8
      <4> QED BY <4>1, <4>2 DEF FoundAt
    <3>2. Stands(s, p, p + Len(x), p + 1, v)
      BY <1>3, <2>1 DEF Stands
    <3> QED BY <2>8, <3>1, <3>2
  <2>9. CASE key # name
    <3>1. FoundAt(s, p, 1, name, 0)
      BY <2>4, <2>6, <2>9 DEF FoundAt
    <3>2. Stands(s, p, p + Len(x), 0, <<>>)
      BY DEF Stands
    <3> QED BY <2>9, <3>1, <3>2
  <2> QED BY <2>8, <2>9
<1> QED BY <1>3, <1>6, <1>7 DEF Given, x, u, k

\* and several pairs what one of them does.
LEMMA GivenBoth ==
    ASSUME NEW s, Len(s) \in Nat, NEW u, NEW x, NEW c, NEW d, NEW name, NEW v, NEW w,
           Given(s, u, c, name, v), Given(s, x, d, name, w), v = <<>> \/ w = <<>>
    PROVE  Given(s, u \o x, c + d, name, IF v = <<>> THEN w ELSE v)
<1> DEFINE z == IF v = <<>> THEN w ELSE v
           y == u \o x
<1>1. /\ c \in Nat /\ d \in Nat /\ Whole(s, u, 2 * c) /\ Whole(s, x, 2 * d)
      /\ IsList(v) /\ IsList(w) /\ IsList(u) /\ IsList(x)
  BY DEF Given, Whole
<1>2. c + d \in Nat /\ 2 * (c + d) = 2 * c + 2 * d
  BY <1>1
<1>3. Whole(s, y, 2 * (c + d))
  BY <1>1, <1>2, WholeBoth
<1>4. Len(y) = Len(u) + Len(x) /\ Len(u) \in Nat /\ Len(x) \in Nat
      /\ Len(v) \in Nat /\ Len(w) \in Nat
  BY <1>1, AfterTheOther DEF IsList
<1>5. ASSUME NEW p \in Nat \ {0}, Shows(s, p, y)
      PROVE  \E q \in Nat : /\ FoundAt(s, p, c + d, name, q)
                            /\ Stands(s, p, p + Len(y), q, z)
  <2> DEFINE o == p + Len(u)
  <2>1. Shows(s, p, u) /\ Shows(s, o, x) /\ o \in Nat \ {0}
    BY <1>1, <1>5, ShowsBoth
  <2>2. PICK q \in Nat : FoundAt(s, p, c, name, q) /\ Stands(s, p, o, q, v)
    BY <2>1 DEF Given
  <2> HIDE DEF o
  <2>3. PICK r \in Nat : FoundAt(s, o, d, name, r) /\ Stands(s, o, o + Len(x), r, w)
    BY <2>1 DEF Given
  <2>4. Over(s, p, Len(u), 2 * c)
    BY <1>1, <2>1 DEF Whole
  <2>5. (v = <<>> => q = 0) /\ (w = <<>> => r = 0)
    BY <2>2, <2>3 DEF Stands
  <2>6. FoundAt(s, p, c + d, name, q + r)
    <3>1. FoundAt(s, p + Len(u), d, name, r) /\ (q = 0 \/ r = 0)
      BY <2>3, <2>5 DEF o
    <3> QED BY <1>4, <2>2, <2>4, <3>1, FoundBoth
  <2>7. Stands(s, p, p + Len(y), q + r, z)
    <3>1. o = p + Len(u)
      BY DEF o
    <3>2. CASE v = <<>>
      <4>1. q + r = r /\ z = w
        BY <2>5, <3>2
      <4>2. Stands(s, o, o + Len(x), r, w) /\ o + Len(x) = p + Len(y) /\ o >= p
        BY <1>4, <2>3, <3>1
      <4> HIDE DEF z, y
      <4>3. CASE w = <<>>
        BY <4>1, <4>2, <4>3 DEF Stands
      <4>4. CASE w # <<>>
        <5>1. r > o /\ r + Len(w) <= o + Len(x) /\ Shows(s, r, w)
          BY <4>2, <4>4 DEF Stands
        <5>2. r > p
          BY <1>4, <3>1, <5>1
        <5> QED BY <4>1, <4>2, <4>4, <5>1, <5>2 DEF Stands
      <4> QED BY <4>3, <4>4
    <3>3. CASE v # <<>>
      <4>1. q + r = q /\ z = v
        BY <2>5, <3>3
      <4> QED BY <1>4, <2>2, <3>1, <3>3, <4>1 DEF Stands
    <3> QED BY <3>2, <3>3
  <2>8. q + r \in Nat
    OBVIOUS
  <2> QED BY <2>6, <2>7, <2>8
<1> QED BY <1>1, <1>2, <1>3, <1>5 DEF Given

----------
(* The elements of an array *)

\* A set of positions that has with each the one before it is a first part.
LEMMA FirstPart ==
    ASSUME NEW n \in Nat, NEW T, \A i \in 1 .. (n - 1) : i + 1 \in T => i \in T
    PROVE  \E k \in 0 .. n : T \cap (1 .. n) = 1 .. k
<1> DEFINE Good(m) == \E k \in 0 .. m : T \cap (1 .. m) = 1 .. k
           R == {m \in 0 .. n : Good(m)}
<1>1. 0 \in R
  <2>1. T \cap (1 .. 0) = 1 .. 0 /\ 0 \in 0 .. 0
    OBVIOUS
  <2> QED BY <2>1
<1>2. ASSUME NEW m \in 0 .. (n - 1), m \in R
      PROVE  m + 1 \in R
  <2>1. PICK k \in 0 .. m : T \cap (1 .. m) = 1 .. k
    BY <1>2
  <2>2. CASE m + 1 \in T
    <3>1. k = m
      <4>1. CASE m = 0
        BY <4>1
      <4>2. CASE m # 0
        <5>1. m \in 1 .. (n - 1)
          BY <4>2
        <5>2. m \in T \cap (1 .. m)
          BY <2>2, <5>1
        <5> QED BY <2>1, <5>2
      <4> QED BY <4>1, <4>2
    <3>2. T \cap (1 .. (m + 1)) = 1 .. (m + 1)
      <4>1. 1 .. (m + 1) = (1 .. m) \cup {m + 1}
        OBVIOUS
      <4> QED BY <2>1, <2>2, <3>1, <4>1
    <3> QED BY <3>2
  <2>3. CASE m + 1 \notin T
    <3>1. T \cap (1 .. (m + 1)) = 1 .. k
      <4>1. 1 .. (m + 1) = (1 .. m) \cup {m + 1}
        OBVIOUS
      <4> QED BY <2>1, <2>3, <4>1
    <3> QED BY <3>1
  <2> QED BY <2>2, <2>3
<1> HIDE DEF R
<1>3. \A m \in 0 .. n : m \in R
  BY <1>1, <1>2, Upwards
<1>4. n \in 0 .. n
  OBVIOUS
<1> QED BY <1>3, <1>4 DEF R

\* Keeping the first elements.
LEMMA KeptFirst ==
    ASSUME NEW s, IsList(s), NEW T, NEW k \in 0 .. Len(s), T \cap (1 .. Len(s)) = 1 .. k
    PROVE  /\ IsList(Kept(s, T)) /\ Len(Kept(s, T)) = k
           /\ \A i \in 1 .. k : Kept(s, T)[i] = s[i]
<1> DEFINE n == Len(s)
           f == KeptUpTo(s, T)
           S == Range(s)
           Good(i) == /\ f[i] \in Seq(S)
                      /\ Len(f[i]) = IF i <= k THEN i ELSE k
                      /\ \A j \in 1 .. Len(f[i]) : f[i][j] = s[j]
           R == {i \in 0 .. n : Good(i)}
<1>1. n \in Nat /\ k \in Nat /\ k <= n /\ \A i \in 1 .. n : s[i] \in S
  <2>1. n \in Nat
    BY DEF IsList
  <2>2. \A i \in 1 .. n : s[i] \in S
    BY ListIsSeq DEF Range
  <2> QED BY <2>1, <2>2
<1>2. /\ Kept(s, T) = f[n] /\ f[0] = <<>>
      /\ \A i \in 1 .. n : f[i] = IF i \in T THEN Append(f[i - 1], s[i]) ELSE f[i - 1]
  BY <1>1, KeptDef
<1>3. \A i \in 1 .. n : i \in T <=> i <= k
  BY <1>1
<1> HIDE DEF n, f, S
<1>4. 0 \in R
  <2> DEFINE g == f[0]
  <2>1. g = <<>>
    BY <1>2
  <2> HIDE DEF g
  <2>2. g \in Seq(S) /\ Len(g) = 0
    BY <2>1
  <2> QED BY <1>1, <2>2 DEF g
<1>5. ASSUME NEW i \in 0 .. (n - 1), i \in R
      PROVE  i + 1 \in R
  <2> DEFINE g == f[i]
  <2>1. /\ i + 1 \in 1 .. n /\ i + 1 \in 0 .. n /\ (i + 1) - 1 = i /\ i \in Nat
        /\ s[i + 1] \in S
    BY <1>1
  <2>2. /\ g \in Seq(S) /\ Len(g) = (IF i <= k THEN i ELSE k)
        /\ \A j \in 1 .. Len(g) : g[j] = s[j]
    BY <1>5
  <2>3. f[i + 1] = IF i + 1 \in T THEN Append(g, s[i + 1]) ELSE g
    BY <1>2, <2>1
  <2> HIDE DEF g
  <2>4. CASE i + 1 <= k
    <3> DEFINE h == Append(g, s[i + 1])
    <3>1. f[i + 1] = h /\ Len(g) = i
      BY <1>1, <1>3, <2>1, <2>2, <2>3, <2>4
    <3>2. h \in Seq(S) /\ Len(h) = i + 1 /\ h[i + 1] = s[i + 1]
          /\ \A j \in 1 .. i : h[j] = g[j]
      BY <2>1, <2>2, <3>1, AppendProperties
    <3> HIDE DEF h
    <3>3. \A j \in 1 .. (i + 1) : h[j] = s[j]
      <4>1. \A j \in 1 .. (i + 1) : j \in 1 .. i \/ j = i + 1
        BY <2>1
      <4> QED BY <2>2, <3>1, <3>2, <4>1
    <3> QED BY <2>1, <2>4, <3>1, <3>2, <3>3
  <2>5. CASE ~(i + 1 <= k)
    <3>1. f[i + 1] = g /\ Len(g) = k
      BY <1>1, <1>3, <2>1, <2>2, <2>3, <2>5
    <3> QED BY <2>1, <2>2, <2>5, <3>1
  <2> QED BY <2>4, <2>5
<1> HIDE DEF R
<1>6. \A i \in 0 .. n : i \in R
  BY <1>1, <1>4, <1>5, Upwards
<1>7. Good(n) /\ (IF n <= k THEN n ELSE k) = k
  BY <1>1, <1>6 DEF R
<1>8. IsList(f[n]) /\ Len(f[n]) = k /\ \A j \in 1 .. k : f[n][j] = s[j]
  <2> DEFINE g == f[n]
  <2>1. g \in Seq(S) /\ Len(g) = k /\ \A j \in 1 .. Len(g) : g[j] = s[j]
    BY <1>7
  <2> HIDE DEF g
  <2>2. IsList(g)
    BY <2>1, SeqIsList
  <2> QED BY <2>1, <2>2 DEF g
<1> QED BY <1>2, <1>8

\* The lists els points to are the first of xs; each stands before e, whole
\* unless it is the last, and none is missing when the stream goes to e.
AreElements(s, e, xs, els) ==
    /\ IsList(els) /\ Len(els) <= Len(xs)
    /\ \A i \in 1 .. Len(els) :
           /\ els[i] \in 1 .. Len(s) /\ Shows(s, els[i], xs[i])
           /\ els[i] + Len(xs[i]) <= e
           /\ i < Len(els) => els[i] + Len(xs[i]) <= Len(s)
    /\ e <= Len(s) + 1 => Len(els) = Len(xs)

\* So are the elements of an array that shows those lists.
LEMMA ElementsShown ==
    ASSUME NEW s, Len(s) \in Nat, NEW a \in 1 .. Len(s), NEW xs, IsList(xs),
           \A i \in 1 .. Len(xs) : Whole(s, xs[i], 1) /\ xs[i] # <<>>,
           Shows(s, a, <<Codec!ArrayOf(Len(xs))>> \o Joined(xs))
    PROVE  LET els == Codec!Elements(s, a)
           IN /\ AreElements(s, a + 1 + Len(Joined(xs)), xs, els)
              /\ Codec!CanEnter(s, a) <=> (xs = <<>> \/ els # <<>>)
<1> DEFINE n == Len(xs)
           h == <<Codec!ArrayOf(n)>>
           w == Joined(xs)
           e == a + 1 + Len(w)
           L(i) == Len(Flat(xs, i))
           st(i) == a + 1 + L(i - 1)
           at == [i \in 1 .. n |-> Codec!Past(s)[a + 1][i - 1]]
           T == {i \in DOMAIN at : at[i] \in 1 .. Len(s)}
           els == Kept(at, T)
<1>1. n \in Nat /\ IsList(h) /\ Len(h) = 1 /\ h[1] = Codec!ArrayOf(n)
  BY DEF IsList
<1>2. /\ \A i \in 1 .. n : IsList(xs[i]) /\ Len(xs[i]) \in Nat \ {0}
      /\ \A i \in 1 .. n : Whole(s, xs[i], 1)
  <2> SUFFICES ASSUME NEW i \in 1 .. n PROVE Whole(s, xs[i], 1) /\ IsList(xs[i]) /\ Len(xs[i]) \in Nat \ {0}
    OBVIOUS
  <2> DEFINE x == xs[i]
  <2>1. Whole(s, x, 1) /\ IsList(x) /\ Len(x) \in Nat /\ x # <<>>
    BY DEF Whole, IsList
  <2> HIDE DEF x
  <2>2. Len(x) # 0
    <3>1. x \in Seq(Range(x))
      BY <2>1, ListIsSeq
    <3> QED BY <2>1, <3>1
  <2> QED BY <2>1, <2>2 DEF x
<1>3. IsList(w)
  BY <1>1, <1>2, ListsFlat
<1>4. Shows(s, a, h) /\ Shows(s, a + 1, w) /\ a + 1 \in Nat \ {0}
  <2>1. Shows(s, a, h \o w) /\ a \in Nat \ {0}
    OBVIOUS
  <2> HIDE DEF h, w
  <2>2. Shows(s, a, h) /\ Shows(s, a + Len(h), w) /\ a + Len(h) \in Nat \ {0}
    BY <1>1, <1>3, <2>1, ShowsBoth
  <2> QED BY <1>1, <2>2
<1>5. s[a] = Codec!ArrayOf(n) /\ s[a].v = n
  <2>1. 1 \in 1 .. Len(h) /\ a + 1 - 1 = a /\ a <= Len(s)
    BY <1>1
  <2>2. s[a] = Codec!ArrayOf(n)
    BY <1>1, <1>4, <2>1 DEF Shows
  <2> QED BY <2>2 DEF Codec!ArrayOf
<1>6. Codec!Elements(s, a) = els
  BY <1>5, CodecLists DEF Codec!Elements
<1>7. InRow(s, a + 1, xs)
  BY <1>2, <1>4, RowShown
<1>8. /\ L(0) = 0 /\ L(n) = Len(w)
      /\ \A i \in 0 .. n : L(i) \in Nat /\ Over(s, a + 1, L(i), i)
      /\ \A i \in 1 .. n : /\ Shows(s, (a + 1) + L(i - 1), xs[i])
                           /\ L(i) = L(i - 1) + Len(xs[i]) /\ L(i) <= Len(w)
  BY <1>7 DEF InRow
<1> HIDE DEF n, h, w, L
<1>9. ASSUME NEW i \in 1 .. n
      PROVE  /\ st(i) \in Nat \ {0} /\ st(i) >= a + 1
             /\ at[i] = IF st(i) <= Len(s) + 1 THEN st(i) ELSE 0
             /\ Shows(s, st(i), xs[i])
             /\ i < n => st(i + 1) = st(i) + Len(xs[i])
             /\ st(i) + Len(xs[i]) <= e /\ (i = n => e = st(i) + Len(xs[i]))
  <2> DEFINE j == i - 1
             b == L(j)
             l == Len(xs[i])
  <2>1. j \in 0 .. n /\ j \in Nat /\ i = j + 1
    BY <1>1
  <2>2. b \in Nat /\ Over(s, a + 1, b, j)
    BY <1>8, <2>1
  <2>3. /\ L(i) = b + l /\ Shows(s, (a + 1) + b, xs[i]) /\ l \in Nat \ {0}
        /\ b + l <= Len(w)
    BY <1>2, <1>8
  <2>4. at[i] = Codec!Past(s)[a + 1][j]
    OBVIOUS
  <2>5. Ahead(s, a + 1, j) = at[i]
    <3>1. ~(a + 1 > Len(s) + 1)
      OBVIOUS
    <3> QED BY <2>4, <3>1 DEF Ahead
  <2>6. (i + 1) - 1 = i
    OBVIOUS
  <2> HIDE DEF j, b, l, at
  <2>7. Ahead(s, a + 1, j) = Ahead(s, (a + 1) + b, 0)
    <3>1. 0 \in Nat /\ j + 0 = j
      BY <2>1
    <3>2. Ahead(s, a + 1, j + 0) = Ahead(s, (a + 1) + b, 0)
      BY <2>2, <3>1 DEF Over
    <3> QED BY <3>1, <3>2
  <2>8. st(i) = (a + 1) + b
    BY DEF b, j
  <2>9. (a + 1) + b \in Nat \ {0}
    BY <2>2
  <2>10. Ahead(s, (a + 1) + b, 0) = IF (a + 1) + b <= Len(s) + 1 THEN (a + 1) + b ELSE 0
    BY <2>9, AheadDef
  <2>11. i < n => st(i + 1) = a + 1 + (b + l)
    BY <2>3, <2>6
  <2>12. (i = n => e = a + 1 + (b + l)) /\ a + 1 + (b + l) <= e
    <3> DEFINE o == Len(w)
    <3>1. o \in Nat /\ (i = n => o = b + l) /\ b + l <= o
      BY <1>3, <1>8, <2>3 DEF IsList
    <3>2. e = a + 1 + o
      OBVIOUS
    <3> DEFINE u == e
               c == b
    <3>3. u = a + 1 + o /\ c \in Nat /\ l \in Nat /\ a \in Nat
          /\ o \in Nat /\ (i = n => o = c + l) /\ c + l <= o
      BY <2>2, <2>3, <3>1, <3>2
    <3> HIDE DEF o, u, c, l, e
    <3>4. (i = n => u = a + 1 + (c + l)) /\ a + 1 + (c + l) <= u
      BY <3>3
    <3> QED BY <3>4 DEF u, c
  <2> DEFINE q == st(i)
             r == st(i + 1)
             z == at[i]
  <2>13. q = (a + 1) + b /\ z = Ahead(s, q, 0) /\ (i < n => r = a + 1 + (b + l))
    BY <2>5, <2>7, <2>8, <2>11
  <2>14. Shows(s, q, xs[i]) /\ Ahead(s, q, 0) = (IF q <= Len(s) + 1 THEN q ELSE 0)
    BY <2>3, <2>8, <2>10
  <2> HIDE DEF e, st, q, r, z
  <2>15. /\ q \in Nat \ {0} /\ q >= a + 1
         /\ i < n => r = q + l
         /\ q + l <= e /\ (i = n => e = q + l)
    BY <2>2, <2>3, <2>12, <2>13
  <2> QED BY <2>13, <2>14, <2>15 DEF q, r, z, l
<1>11. IsList(at) /\ Len(at) = n /\ DOMAIN at = 1 .. n
  BY <1>1 DEF IsList
<1>12. n > 0 => st(1) = a + 1
  BY <1>8
<1> HIDE DEF st, e, at
<1>13. \A i \in 1 .. n : i \in T <=> st(i) <= Len(s)
  <2> SUFFICES ASSUME NEW i \in 1 .. n PROVE at[i] \in 1 .. Len(s) <=> st(i) <= Len(s)
    BY <1>11
  <2> QED BY <1>9
<1>14. PICK k \in 0 .. n : T \cap (1 .. n) = 1 .. k
  <2>1. ASSUME NEW i \in 1 .. (n - 1), i + 1 \in T
        PROVE  i \in T
    <3>1. i \in 1 .. n /\ i + 1 \in 1 .. n /\ i < n
      BY <1>1
    <3>2. st(i + 1) = st(i) + Len(xs[i]) /\ st(i) \in Nat /\ Len(xs[i]) \in Nat
      BY <1>2, <1>9, <3>1
    <3>3. st(i + 1) <= Len(s)
      BY <1>13, <2>1, <3>1
    <3>4. st(i) <= Len(s)
      BY <3>2, <3>3
    <3> QED BY <1>13, <3>1, <3>4
  <2> HIDE DEF T
  <2> QED BY <1>1, <2>1, FirstPart
<1> HIDE DEF T
<1>15. k \in Nat /\ k <= n /\ \A i \in 1 .. n : st(i) <= Len(s) <=> i <= k
  BY <1>1, <1>13, <1>14
<1>16. IsList(els) /\ Len(els) = k /\ \A i \in 1 .. k : els[i] = at[i]
  BY <1>11, <1>14, KeptFirst
<1> HIDE DEF els
<1>17. ASSUME NEW i \in 1 .. k
       PROVE  /\ els[i] = st(i) /\ st(i) \in 1 .. Len(s) /\ Shows(s, st(i), xs[i])
              /\ i < k => st(i) + Len(xs[i]) <= Len(s)
              /\ st(i) + Len(xs[i]) <= e
  <2>1. i \in 1 .. n /\ st(i) <= Len(s) /\ (i < k => i + 1 \in 1 .. n /\ i + 1 <= k /\ i < n)
    BY <1>1, <1>15
  <2>2. els[i] = st(i) /\ st(i) \in 1 .. Len(s) /\ Shows(s, st(i), xs[i])
    <3> DEFINE q == st(i)
               z == at[i]
    <3>1. z = (IF q <= Len(s) + 1 THEN q ELSE 0) /\ q \in Nat \ {0} /\ q <= Len(s)
          /\ Shows(s, q, xs[i]) /\ els[i] = z
      BY <1>9, <1>16, <2>1
    <3> HIDE DEF q, z
    <3>2. z = q /\ q \in 1 .. Len(s)
      BY <3>1
    <3> QED BY <3>1, <3>2 DEF q
  <2>3. i < k => st(i) + Len(xs[i]) <= Len(s)
    <3>1. SUFFICES ASSUME i < k PROVE st(i) + Len(xs[i]) <= Len(s)
      OBVIOUS
    <3>2. st(i + 1) = st(i) + Len(xs[i]) /\ st(i + 1) <= Len(s)
      BY <1>9, <1>15, <2>1, <3>1
    <3> QED BY <3>2
  <2>4. st(i) + Len(xs[i]) <= e
    BY <1>9, <2>1
  <2> QED BY <2>2, <2>3, <2>4
<1>18. e <= Len(s) + 1 => k = n
  <2>1. SUFFICES ASSUME e <= Len(s) + 1, k # n PROVE FALSE
    OBVIOUS
  <2>2. n \in 1 .. n /\ ~(n <= k)
    BY <1>1, <1>15, <2>1
  <2>3. e = st(n) + Len(xs[n]) /\ Len(xs[n]) \in Nat \ {0} /\ st(n) \in Nat
    BY <1>2, <1>9, <2>2
  <2>4. st(n) <= Len(s)
    BY <2>1, <2>3
  <2> QED BY <1>15, <2>2, <2>4
<1>19. AreElements(s, e, xs, els)
  <2>1. Len(els) <= Len(xs)
    BY <1>15, <1>16 DEF n
  <2>2. \A i \in 1 .. Len(els) :
           /\ els[i] \in 1 .. Len(s) /\ Shows(s, els[i], xs[i])
           /\ els[i] + Len(xs[i]) <= e
           /\ i < Len(els) => els[i] + Len(xs[i]) <= Len(s)
    BY <1>16, <1>17
  <2>3. e <= Len(s) + 1 => Len(els) = Len(xs)
    BY <1>16, <1>18 DEF n
  <2> QED BY <1>16, <2>1, <2>2, <2>3 DEF AreElements
<1>20. Codec!CanEnter(s, a) <=> (xs = <<>> \/ els # <<>>)
  <2>1. Codec!CanEnter(s, a) <=> (n = 0 \/ a < Len(s))
    BY <1>5 DEF Codec!CanEnter
  <2>2. n = 0 <=> xs = <<>>
    <3>1. xs \in Seq(Range(xs))
      BY ListIsSeq
    <3> QED BY <3>1 DEF n
  <2>3. k = 0 <=> els = <<>>
    <3>1. els \in Seq(Range(els))
      BY <1>16, ListIsSeq
    <3> QED BY <1>16, <3>1
  <2>4. n > 0 => (a < Len(s) <=> k > 0)
    <3>1. SUFFICES ASSUME n > 0 PROVE a < Len(s) <=> k > 0
      OBVIOUS
    <3>2. 1 \in 1 .. n /\ st(1) = a + 1 /\ (st(1) <= Len(s) <=> 1 <= k)
      BY <1>1, <1>12, <1>15, <3>1
    <3> QED BY <1>15, <3>2
  <2> QED BY <1>1, <1>15, <2>1, <2>2, <2>3, <2>4
<1> QED BY <1>6, <1>19, <1>20 DEF e, w

\* The field of the map at m with the value v, which stands between lo and hi.
FieldAt(s, m, lo, hi, name, v) ==
    \E q \in Nat : /\ Codec!Find(s, m, name) = IF q \in 1 .. Len(s) THEN q ELSE 0
                   /\ Stands(s, lo, hi, q, v)

\* What a map shown in the stream is: its header, then its pairs.
LEMMA MapShown ==
    ASSUME NEW s, Len(s) \in Nat, NEW m \in 1 .. Len(s), NEW n, NEW x, IsList(x),
           Shows(s, m, <<Codec!MapOf(n)>> \o x)
    PROVE  s[m] = Codec!MapOf(n) /\ Shows(s, m + 1, x) /\ m + 1 \in Nat \ {0}
<1> DEFINE h == <<Codec!MapOf(n)>>
<1>1. IsList(h) /\ Len(h) = 1 /\ h[1] = Codec!MapOf(n)
  BY DEF IsList
<1>2. Shows(s, m, h) /\ Shows(s, m + 1, x) /\ m + 1 \in Nat \ {0}
  <2>1. Shows(s, m, h \o x) /\ m \in Nat \ {0} /\ IsList(h)
    BY <1>1
  <2> HIDE DEF h
  <2>2. Shows(s, m, h) /\ Shows(s, m + Len(h), x) /\ m + Len(h) \in Nat \ {0}
    BY <2>1, ShowsBoth
  <2> QED BY <1>1, <2>2
<1>3. s[m] = Codec!MapOf(n)
  <2>1. 1 \in 1 .. Len(h) /\ m + 1 - 1 = m /\ m <= Len(s)
    BY <1>1
  <2> QED BY <1>1, <1>2, <2>1 DEF Shows
<1> QED BY <1>2, <1>3

\* A map has the fields its pairs give it.
LEMMA MapGives ==
    ASSUME NEW s, Len(s) \in Nat, NEW m \in 1 .. Len(s), NEW c, NEW x, NEW name, NEW v,
           Given(s, x, c, name, v), Shows(s, m, <<Codec!MapOf(c)>> \o x)
    PROVE  FieldAt(s, m, m + 1, m + 1 + Len(x), name, v)
<1>1. c \in Nat /\ IsList(x)
  BY DEF Given, Whole
<1>2. s[m] = Codec!MapOf(c) /\ Shows(s, m + 1, x) /\ m + 1 \in Nat \ {0}
  BY <1>1, MapShown
<1>3. PICK q \in Nat : /\ FoundAt(s, m + 1, c, name, q)
                       /\ Stands(s, m + 1, m + 1 + Len(x), q, v)
  BY <1>2 DEF Given
<1>4. Codec!Find(s, m, name) = IF q \in 1 .. Len(s) THEN q ELSE 0
  BY <1>1, <1>2, <1>3, MapFinds
<1> QED BY <1>3, <1>4 DEF FieldAt

\* and those of a first part of it stand before those of the rest.
LEMMA MapParts ==
    ASSUME NEW s, Len(s) \in Nat, NEW m \in 1 .. Len(s), NEW c, NEW d, NEW u, NEW x,
           NEW name, NEW v, NEW w, Given(s, u, c, name, v), Given(s, x, d, name, w),
           Shows(s, m, <<Codec!MapOf(c + d)>> \o (u \o x))
    PROVE  /\ w = <<>> => FieldAt(s, m, m + 1, m + 1 + Len(u), name, v)
           /\ v = <<>> => FieldAt(s, m, m + 1 + Len(u), m + 1 + Len(u) + Len(x), name, w)
<1>1. /\ c \in Nat /\ d \in Nat /\ c + d \in Nat
      /\ IsList(u) /\ IsList(x) /\ Len(u) \in Nat /\ Whole(s, u, 2 * c)
  BY DEF Given, Whole, IsList
<1>2. IsList(u \o x)
  BY <1>1, AfterTheOther
<1>3. s[m] = Codec!MapOf(c + d) /\ Shows(s, m + 1, u \o x) /\ m + 1 \in Nat \ {0}
  BY <1>2, MapShown
<1> DEFINE o == m + 1 + Len(u)
<1>4. Shows(s, m + 1, u) /\ Shows(s, o, x) /\ o \in Nat \ {0} /\ o = (m + 1) + Len(u)
  BY <1>1, <1>3, ShowsBoth
<1> HIDE DEF o
<1>5. PICK q \in Nat : FoundAt(s, m + 1, c, name, q) /\ Stands(s, m + 1, m + 1 + Len(u), q, v)
  BY <1>3, <1>4 DEF Given
<1>6. PICK r \in Nat : FoundAt(s, o, d, name, r) /\ Stands(s, o, o + Len(x), r, w)
  BY <1>4 DEF Given
<1>7. Over(s, m + 1, Len(u), 2 * c)
  BY <1>1, <1>3, <1>4 DEF Whole
<1>8. ASSUME q = 0 \/ r = 0
      PROVE  Codec!Find(s, m, name) = IF q + r \in 1 .. Len(s) THEN q + r ELSE 0
  <2>1. FoundAt(s, (m + 1) + Len(u), d, name, r)
    BY <1>4, <1>6
  <2>2. FoundAt(s, m + 1, c + d, name, q + r)
    BY <1>1, <1>3, <1>5, <1>7, <1>8, <2>1, FoundBoth
  <2> QED BY <1>1, <1>3, <2>2, MapFinds
<1>9. w = <<>> => FieldAt(s, m, m + 1, m + 1 + Len(u), name, v)
  <2>1. SUFFICES ASSUME w = <<>> PROVE FieldAt(s, m, m + 1, m + 1 + Len(u), name, v)
    OBVIOUS
  <2>2. r = 0 /\ q + r = q
    BY <1>6, <2>1 DEF Stands
  <2> QED BY <1>5, <1>8, <2>2 DEF FieldAt
<1>10. v = <<>> => FieldAt(s, m, o, o + Len(x), name, w)
  <2>1. SUFFICES ASSUME v = <<>> PROVE FieldAt(s, m, o, o + Len(x), name, w)
    OBVIOUS
  <2>2. q = 0 /\ q + r = r
    BY <1>5, <2>1 DEF Stands
  <2> QED BY <1>6, <1>8, <2>2 DEF FieldAt
<1> QED BY <1>9, <1>10 DEF o

----------
(* Reading a field *)

\* A field that is not there has no value of any kind.
LEMMA FieldNone ==
    ASSUME NEW s, NEW m, NEW lo, NEW hi, NEW name, FieldAt(s, m, lo, hi, name, <<>>), NEW kind
    PROVE  Codec!Field(s, m, name, kind) = None /\ Codec!Inside(s, m, name, kind) = 0
<1>1. Codec!Find(s, m, name) = 0
  BY DEF FieldAt, Stands
<1> QED BY <1>1 DEF Codec!Field, Codec!Inside

\* One that is a single item has its value or was cut off.
LEMMA FieldOne ==
    ASSUME NEW s, Len(s) \in Nat, NEW m, NEW lo \in Nat, NEW hi \in Nat, NEW name, NEW a,
           FieldAt(s, m, lo, hi, name, <<a>>)
    PROVE  LET f == Codec!Field(s, m, name, a.k)
           IN /\ f = a.v \/ f = None
              /\ hi <= Len(s) + 1 /\ ~(a.k = "uint" /\ a.v > Codec!MaxInt32) => f = a.v
<1> DEFINE u == <<a>>
<1>1. u # <<>> /\ Len(u) = 1 /\ u[1] = a
  OBVIOUS
<1> HIDE DEF u
<1>2. PICK q \in Nat : /\ Codec!Find(s, m, name) = IF q \in 1 .. Len(s) THEN q ELSE 0
                       /\ Stands(s, lo, hi, q, u)
  BY DEF FieldAt, u
<1>3. q > lo /\ q + 1 <= hi /\ Shows(s, q, u)
  BY <1>1, <1>2 DEF Stands
<1>4. q \in 1 .. Len(s) => s[q] = a
  <2>1. 1 \in 1 .. Len(u) /\ q + 1 - 1 = q
    BY <1>1
  <2> QED BY <1>1, <1>3, <2>1 DEF Shows
<1>5. Codec!Field(s, m, name, a.k) =
          IF q \notin 1 .. Len(s) THEN None
          ELSE IF a.k = "uint" /\ a.v > Codec!MaxInt32 THEN None ELSE a.v
  <2>1. CASE q \in 1 .. Len(s)
    <3>1. Codec!Find(s, m, name) = q /\ q # 0 /\ s[q] = a
      BY <1>2, <1>4, <2>1
    <3> QED BY <2>1, <3>1 DEF Codec!Field
  <2>2. CASE q \notin 1 .. Len(s)
    <3>1. Codec!Find(s, m, name) = 0
      BY <1>2, <2>2
    <3> QED BY <2>2, <3>1 DEF Codec!Field
  <2> QED BY <2>1, <2>2
<1>6. hi <= Len(s) + 1 => q \in 1 .. Len(s)
  BY <1>3
<1> QED BY <1>5, <1>6

\* One that is a map or an array is entered, or was cut off with its header.
LEMMA FieldInside ==
    ASSUME NEW s, Len(s) \in Nat, NEW m, NEW lo \in Nat, NEW hi \in Nat, NEW name, NEW a,
           NEW x, IsList(x), FieldAt(s, m, lo, hi, name, <<a>> \o x)
    PROVE  LET p == Codec!Inside(s, m, name, a.k)
           IN /\ p # 0 => /\ p \in 1 .. Len(s) /\ p > lo
                          /\ p + Len(<<a>> \o x) <= hi /\ Shows(s, p, <<a>> \o x)
              /\ hi <= Len(s) + 1 => p # 0
<1> DEFINE h == <<a>>
           u == h \o x
<1>1. IsList(h) /\ Len(h) = 1 /\ h[1] = a
  BY DEF IsList
<1> HIDE DEF h
<1>2. IsList(u) /\ Len(u) = 1 + Len(x) /\ Len(x) \in Nat /\ u[1] = a
  <2>1. /\ IsList(h \o x) /\ Len(h \o x) = Len(h) + Len(x)
        /\ \A i \in 1 .. Len(h) : (h \o x)[i] = h[i]
    BY <1>1, AfterTheOther
  <2> QED BY <1>1, <2>1 DEF IsList
<1> HIDE DEF u
<1>3. u # <<>>
  BY <1>2
<1>4. PICK q \in Nat : /\ Codec!Find(s, m, name) = IF q \in 1 .. Len(s) THEN q ELSE 0
                       /\ Stands(s, lo, hi, q, u)
  BY DEF FieldAt, u, h
<1>5. q > lo /\ q + Len(u) <= hi /\ Shows(s, q, u)
  BY <1>3, <1>4 DEF Stands
<1>6. q \in 1 .. Len(s) => s[q] = a
  <2>1. 1 \in 1 .. Len(u) /\ q + 1 - 1 = q
    BY <1>2
  <2> QED BY <1>2, <1>5, <2>1 DEF Shows
<1>7. Codec!Inside(s, m, name, a.k) = IF q \in 1 .. Len(s) THEN q ELSE 0
  <2>1. CASE q \in 1 .. Len(s)
    <3>1. Codec!Find(s, m, name) = q /\ q # 0 /\ s[q] = a
      BY <1>4, <1>6, <2>1
    <3> QED BY <2>1, <3>1 DEF Codec!Inside
  <2>2. CASE q \notin 1 .. Len(s)
    <3>1. Codec!Find(s, m, name) = 0
      BY <1>4, <2>2
    <3> QED BY <2>2, <3>1 DEF Codec!Inside
  <2> QED BY <2>1, <2>2
<1>8. hi <= Len(s) + 1 => q \in 1 .. Len(s)
  BY <1>2, <1>5
<1> QED BY <1>5, <1>7, <1>8 DEF u, h

----------
(* The parts a map is written from *)

\* Three lists, one after the other.
LEMMA Regroup ==
    ASSUME NEW u, NEW v, NEW w, IsList(u), IsList(v), IsList(w)
    PROVE  (u \o v) \o w = u \o (v \o w)
<1> DEFINE S == Range(u) \cup Range(v) \cup Range(w)
<1>1. u \in Seq(S) /\ v \in Seq(S) /\ w \in Seq(S)
  BY ListWithin
<1> HIDE DEF S
<1> QED BY <1>1, ConcatAssociative

\* An item with nothing under it is whole.
LEMMA WholeOne ==
    ASSUME NEW s, Len(s) \in Nat, NEW a, Codec!Kids(a) = 0
    PROVE  Whole(s, <<a>>, 1) /\ <<a>> # <<>>
<1>1. Whole(s, <<>>, Codec!Kids(a))
  BY WholeNone
<1>2. Whole(s, <<a>> \o <<>>, 1)
  BY <1>1, WholeUnder
<1>3. <<a>> \o <<>> = <<a>>
  OBVIOUS
<1> QED BY <1>2, <1>3

\* The items with nothing under them.
LEMMA Leaves ==
    ASSUME NEW x
    PROVE  /\ Codec!Kids(Codec!Key(x)) = 0
           /\ Codec!Kids(Codec!Text(x)) = 0 /\ Codec!Text(x).k = "text" /\ Codec!Text(x).v = x
           /\ Codec!Kids(Codec!Bytes(x)) = 0 /\ Codec!Bytes(x).k = "bytes" /\ Codec!Bytes(x).v = x
           /\ Codec!Kids(Codec!UInt(x)) = 0 /\ Codec!UInt(x).k = "uint" /\ Codec!UInt(x).v = x
           /\ Codec!Kids(Codec!Bool(x)) = 0 /\ Codec!Bool(x).k = "bool" /\ Codec!Bool(x).v = x
<1>1. Codec!Kids(Codec!Key(x)) = 0
  BY DEF Codec!Kids, Codec!Key
<1>2. Codec!Kids(Codec!Text(x)) = 0 /\ Codec!Text(x).k = "text" /\ Codec!Text(x).v = x
  BY DEF Codec!Kids, Codec!Text
<1>3. Codec!Kids(Codec!Bytes(x)) = 0 /\ Codec!Bytes(x).k = "bytes" /\ Codec!Bytes(x).v = x
  BY DEF Codec!Kids, Codec!Bytes
<1>4. Codec!Kids(Codec!UInt(x)) = 0 /\ Codec!UInt(x).k = "uint" /\ Codec!UInt(x).v = x
  BY DEF Codec!Kids, Codec!UInt
<1>5. Codec!Kids(Codec!Bool(x)) = 0 /\ Codec!Bool(x).k = "bool" /\ Codec!Bool(x).v = x
  BY DEF Codec!Kids, Codec!Bool
<1> QED BY <1>1, <1>2, <1>3, <1>4, <1>5

\* The containers.
LEMMA Containers ==
    ASSUME NEW n
    PROVE  /\ Codec!Kids(Codec!MapOf(n)) = 2 * n /\ Codec!MapOf(n).k = "map"
           /\ Codec!Kids(Codec!ArrayOf(n)) = n /\ Codec!ArrayOf(n).k = "array"
           /\ Codec!ArrayOf(n).v = n
BY DEF Codec!Kids, Codec!MapOf, Codec!ArrayOf

\* A key with its value, unless there is none.
Slot(key, v) == IF v = <<>> THEN <<>> ELSE <<Codec!Key(key)>> \o v

\* How many pairs that is.
Count(v) == IF v = <<>> THEN 0 ELSE 1

\* The value of an optional field.
Value(x, item) == IF x = None THEN <<>> ELSE <<item>>

\* A slot gives its key its value.
LEMMA SlotGives ==
    ASSUME NEW s, Len(s) \in Nat, NEW key, NEW v, v = <<>> \/ Whole(s, v, 1), NEW name
    PROVE  Given(s, Slot(key, v), Count(v), name, IF key = name THEN v ELSE <<>>)
<1>1. CASE v = <<>>
  <2>1. Given(s, <<>>, 0, name, <<>>)
    BY GivenNone
  <2> QED BY <1>1, <2>1 DEF Slot, Count
<1>2. CASE v # <<>>
  <2>1. Given(s, <<Codec!Key(key)>> \o v, 1, name, IF key = name THEN v ELSE <<>>)
    BY <1>2, GivenOne
  <2>2. Slot(key, v) = <<Codec!Key(key)>> \o v /\ Count(v) = 1
    BY <1>2 DEF Slot, Count
  <2> QED BY <2>1, <2>2
<1> QED BY <1>1, <1>2

\* One more slot behind pairs that lack its key.
LEMMA SlotBehind ==
    ASSUME NEW s, Len(s) \in Nat, NEW u, NEW c, NEW name, NEW v, Given(s, u, c, name, v),
           NEW key, NEW w, w = <<>> \/ Whole(s, w, 1), key = name => v = <<>>
    PROVE  Given(s, u \o Slot(key, w), c + Count(w), name, IF key = name THEN w ELSE v)
<1> DEFINE x == Slot(key, w)
           d == Count(w)
           z == IF key = name THEN w ELSE <<>>
<1>1. Given(s, x, d, name, z)
  BY SlotGives
<1>2. v = <<>> \/ z = <<>>
  OBVIOUS
<1>3. (IF v = <<>> THEN z ELSE v) = IF key = name THEN w ELSE v
  OBVIOUS
<1> HIDE DEF x, d, z
<1>4. Given(s, u \o x, c + d, name, IF v = <<>> THEN z ELSE v)
  BY <1>1, <1>2, GivenBoth
<1> QED BY <1>3, <1>4 DEF x, d

\* How many of one or two optional fields are present.
TwoPresent(x, y, a, b) ==
    Codec!Present(<<x, y>>) = Count(Value(x, a)) + Count(Value(y, b))

LEMMA PresentIs ==
    ASSUME NEW x, NEW y, NEW a, NEW b
    PROVE  /\ Codec!Present(<<x>>) = Count(Value(x, a))
           /\ TwoPresent(x, y, a, b)
<1>1. \A u : <<u>> # <<>>
  OBVIOUS
<1>2. Count(Value(x, a)) = (IF x = None THEN 0 ELSE 1)
      /\ Count(Value(y, b)) = (IF y = None THEN 0 ELSE 1)
  BY <1>1 DEF Count, Value
<1>3. \A T : Codec!Cardinality(T) = Cardinality(T)
  BY DEF Codec!Cardinality, Cardinality
<1>4. /\ Cardinality({}) = 0 /\ Cardinality({1}) = 1 /\ Cardinality({2}) = 1
      /\ Cardinality({1, 2}) = 2
  <2>1. Cardinality({}) = 0
    BY FS_EmptySet
  <2>2. \A e : Cardinality({e}) = 1
    BY FS_Singleton
  <2>3. Cardinality({1, 2}) = 2
    <3>1. IsFiniteSet({1}) /\ Cardinality({1}) = 1
      BY FS_Singleton
    <3>2. Cardinality({1} \cup {2}) = Cardinality({1}) + 1
      BY <3>1, FS_AddElement
    <3>3. {1} \cup {2} = {1, 2}
      OBVIOUS
    <3> QED BY <3>1, <3>2, <3>3
  <2> QED BY <2>1, <2>2, <2>3
<1>5. {i \in DOMAIN <<x>> : <<x>>[i] # None} = IF x = None THEN {} ELSE {1}
  OBVIOUS
<1>6. {i \in DOMAIN <<x, y>> : <<x, y>>[i] # None}
          = (IF x = None THEN {} ELSE {1}) \cup (IF y = None THEN {} ELSE {2})
  OBVIOUS
<1>7. Codec!Present(<<x>>) = IF x = None THEN 0 ELSE 1
  <2>1. Codec!Present(<<x>>) = Cardinality({i \in DOMAIN <<x>> : <<x>>[i] # None})
    BY <1>3 DEF Codec!Present
  <2> QED BY <1>4, <1>5, <2>1
<1>8. Codec!Present(<<x, y>>) = (IF x = None THEN 0 ELSE 1) + (IF y = None THEN 0 ELSE 1)
  <2> DEFINE T == {i \in DOMAIN <<x, y>> : <<x, y>>[i] # None}
  <2>1. Codec!Present(<<x, y>>) = Cardinality(T)
    BY <1>3 DEF Codec!Present
  <2>2. T = IF x = None THEN (IF y = None THEN {} ELSE {2})
            ELSE IF y = None THEN {1} ELSE {1, 2}
    BY <1>6
  <2> HIDE DEF T
  <2> QED BY <1>4, <2>1, <2>2
<1> QED BY <1>2, <1>7, <1>8 DEF TwoPresent

\* An optional field is a slot.
LEMMA OptionalIs ==
    ASSUME NEW x, NEW key, NEW item
    PROVE  Codec!Optional(x, key, <<item>>) = Slot(key, Value(x, item))
<1>1. <<item>> # <<>>
  OBVIOUS
<1> QED BY <1>1 DEF Codec!Optional, Slot, Value

----------
(* Reading a DLEQ *)

\* The pairs of a DLEQ's map, how many they are and what they give.
DleqPairs(d) ==
    (Slot("e", <<Codec!Bytes(d.e)>>) \o Slot("s", <<Codec!Bytes(d.s)>>))
        \o Slot("r", Value(d.r, Codec!Bytes(d.r)))

DleqCount(d) == 2 + Count(Value(d.r, Codec!Bytes(d.r)))

DleqValue(d, name) ==
    IF "r" = name THEN Value(d.r, Codec!Bytes(d.r))
    ELSE IF "s" = name THEN <<Codec!Bytes(d.s)>>
    ELSE IF "e" = name THEN <<Codec!Bytes(d.e)>> ELSE <<>>

\* A list that begins as one list and goes on as another is both joined.
LEMMA Splits ==
    ASSUME NEW z, NEW u, NEW v, IsList(z), IsList(u), IsList(v), Len(z) = Len(u) + Len(v),
           \A i \in 1 .. Len(u) : z[i] = u[i],
           \A i \in 1 .. Len(v) : z[Len(u) + i] = v[i]
    PROVE  u \o v = z
<1> DEFINE w == u \o v
           m == Len(u)
           n == Len(v)
<1>1. /\ IsList(w) /\ Len(w) = m + n /\ m \in Nat /\ n \in Nat
      /\ \A i \in 1 .. m : w[i] = u[i]
      /\ \A i \in 1 .. n : w[m + i] = v[i]
  BY SMTT(30), AfterTheOther DEF IsList
<1>2. IsList(z) /\ Len(z) = m + n /\ (\A i \in 1 .. m : z[i] = u[i])
      /\ \A i \in 1 .. n : z[m + i] = v[i]
  OBVIOUS
<1> HIDE DEF w, m, n
<1>3. ASSUME NEW i \in 1 .. (m + n)
      PROVE  w[i] = z[i]
  <2>1. CASE i <= m
    <3>1. i \in 1 .. m
      BY <1>1, <2>1
    <3> QED BY <1>1, <1>2, <3>1
  <2>2. CASE ~(i <= m)
    <3> DEFINE j == i - m
    <3>1. j \in 1 .. n /\ m + j = i
      BY <1>1, <2>2
    <3> HIDE DEF j
    <3>2. w[m + j] = v[j] /\ z[m + j] = v[j]
      BY <1>1, <1>2, <3>1
    <3> QED BY <3>1, <3>2
  <2> QED BY <2>1, <2>2
<1>4. w = [i \in 1 .. (m + n) |-> w[i]] /\ z = [i \in 1 .. (m + n) |-> z[i]]
  BY <1>1, <1>2 DEF IsList
<1>5. [i \in 1 .. (m + n) |-> w[i]] = [i \in 1 .. (m + n) |-> z[i]]
  BY <1>3
<1>6. w = z
  BY <1>4, <1>5
<1> QED BY <1>6 DEF w

\* Short lists joined.
LEMMA TwoOfThem ==
    ASSUME NEW a, NEW b
    PROVE  <<a>> \o <<b>> = <<a, b>>
<1> DEFINE u == <<a>>
           v == <<b>>
           z == <<a, b>>
<1>1. IsList(u) /\ IsList(v) /\ IsList(z)
  BY DEF IsList
<1>2. Len(u) = 1 /\ Len(v) = 1 /\ Len(z) = 2 /\ u[1] = a /\ v[1] = b /\ z[1] = a /\ z[2] = b
  OBVIOUS
<1> HIDE DEF u, v, z
<1>3. \A i \in 1 .. Len(u) : z[i] = u[i]
  BY <1>2
<1>4. \A i \in 1 .. Len(v) : z[Len(u) + i] = v[i]
  BY <1>2
<1>5. Len(z) = Len(u) + Len(v)
  BY <1>2
<1>6. u \o v = z
  BY <1>1, <1>3, <1>4, <1>5, Splits
<1> QED BY <1>6 DEF u, v, z

\* A map of two fields that have one item each,
LEMMA FiveOfThem ==
    ASSUME NEW k, NEW a, NEW b, NEW c, NEW d
    PROVE  <<k, a, b, c, d>> = <<k>> \o ((<<a>> \o <<b>>) \o (<<c>> \o <<d>>))
<1> DEFINE x == <<a, b>>
           y == <<c, d>>
           h == <<k>>
           w == x \o y
           z == <<k, a, b, c, d>>
<1>1. IsList(x) /\ IsList(y) /\ IsList(h) /\ IsList(z)
  BY DEF IsList
<1>2. Len(x) = 2 /\ x[1] = a /\ x[2] = b
  OBVIOUS
<1>3. Len(y) = 2 /\ y[1] = c /\ y[2] = d
  OBVIOUS
<1>4. Len(h) = 1 /\ h[1] = k
  OBVIOUS
<1>5. Len(z) = 5 /\ z[1] = k /\ z[2] = a /\ z[3] = b /\ z[4] = c /\ z[5] = d
  OBVIOUS
<1> HIDE DEF x, y, h, z
<1>6. /\ IsList(w) /\ Len(w) = Len(x) + Len(y)
      /\ \A i \in 1 .. Len(x) : w[i] = x[i]
      /\ \A i \in 1 .. Len(y) : w[Len(x) + i] = y[i]
  BY <1>1, AfterTheOther
<1> HIDE DEF w
<1>7. Len(w) = 4 /\ w[1] = a /\ w[2] = b /\ w[3] = c /\ w[4] = d
  <2>1. 1 \in 1 .. Len(x) /\ 2 \in 1 .. Len(x) /\ 1 \in 1 .. Len(y) /\ 2 \in 1 .. Len(y)
        /\ Len(x) + 1 = 3 /\ Len(x) + 2 = 4
    BY <1>2, <1>3
  <2> QED BY <1>2, <1>3, <1>6, <2>1
<1>8. h \o w = z
  <2>1. \A i \in 1 .. Len(h) : z[i] = h[i]
    BY <1>4, <1>5
  <2>2. \A i \in 1 .. Len(w) : z[Len(h) + i] = w[i]
    <3>1. \A i \in 1 .. Len(w) : i = 1 \/ i = 2 \/ i = 3 \/ i = 4
      BY <1>7
    <3>2. Len(h) + 1 = 2 /\ Len(h) + 2 = 3 /\ Len(h) + 3 = 4 /\ Len(h) + 4 = 5
      BY <1>4
    <3> QED BY <1>5, <1>7, <3>1, <3>2
  <2>3. Len(z) = Len(h) + Len(w)
    BY <1>4, <1>5, <1>7
  <2> QED BY <1>1, <1>6, <2>1, <2>2, <2>3, Splits
<1>9. <<a>> \o <<b>> = <<a, b>> /\ <<c>> \o <<d>> = <<c, d>>
  BY TwoOfThem
<1> QED BY <1>8, <1>9 DEF h, w, z, x, y

\* and of three.
LEMMA SevenOfThem ==
    ASSUME NEW k, NEW a, NEW b, NEW c, NEW d, NEW e, NEW f
    PROVE  <<k, a, b, c, d, e, f>> =
               <<k>> \o (((<<a>> \o <<b>>) \o (<<c>> \o <<d>>)) \o (<<e>> \o <<f>>))
<1> DEFINE x == <<k, a, b, c, d>>
           y == <<e, f>>
           z == <<k, a, b, c, d, e, f>>
           h == <<k>>
           v == (<<a>> \o <<b>>) \o (<<c>> \o <<d>>)
<1>1. IsList(x) /\ IsList(y) /\ IsList(z) /\ IsList(h)
  BY DEF IsList
<1>2. Len(x) = 5 /\ x[1] = k /\ x[2] = a /\ x[3] = b /\ x[4] = c /\ x[5] = d
  OBVIOUS
<1>3. Len(y) = 2 /\ y[1] = e /\ y[2] = f
  OBVIOUS
<1>4. Len(z) = 7 /\ z[1] = k /\ z[2] = a /\ z[3] = b /\ z[4] = c /\ z[5] = d /\ z[6] = e
      /\ z[7] = f
  OBVIOUS
<1>5. x = h \o v
  BY FiveOfThem
<1>6. IsList(v)
  <2>1. \A i, j : IsList(<<i>> \o <<j>>)
    <3>1. \A i, j : IsList(<<i, j>>)
      BY DEF IsList
    <3> QED BY <3>1, TwoOfThem
  <2>2. IsList(<<a>> \o <<b>>) /\ IsList(<<c>> \o <<d>>)
    BY <2>1
  <2> QED BY <2>2, AfterTheOther
<1> HIDE DEF x, y, z, h, v
<1>7. x \o y = z
  <2>1. \A i \in 1 .. Len(x) : z[i] = x[i]
    <3>1. \A i \in 1 .. Len(x) : i = 1 \/ i = 2 \/ i = 3 \/ i = 4 \/ i = 5
      BY <1>2
    <3> QED BY <1>2, <1>4, <3>1
  <2>2. \A i \in 1 .. Len(y) : z[Len(x) + i] = y[i]
    <3>1. \A i \in 1 .. Len(y) : i = 1 \/ i = 2
      BY <1>3
    <3>2. Len(x) + 1 = 6 /\ Len(x) + 2 = 7
      BY <1>2
    <3> QED BY <1>3, <1>4, <3>1, <3>2
  <2>3. Len(z) = Len(x) + Len(y)
    BY <1>2, <1>3, <1>4
  <2> QED BY <1>1, <2>1, <2>2, <2>3, Splits
<1>8. (h \o v) \o y = h \o (v \o y)
  BY <1>1, <1>6, Regroup
<1>9. <<e>> \o <<f>> = y
  BY TwoOfThem DEF y
<1>10. z = h \o (v \o (<<e>> \o <<f>>))
  BY <1>5, <1>7, <1>8, <1>9
<1> QED BY <1>10 DEF h, v, z

\* A list behind a first item.
LEMMA Headed ==
    ASSUME NEW a, NEW x, IsList(x)
    PROVE  /\ IsList(<<a>> \o x) /\ Len(<<a>> \o x) = 1 + Len(x) /\ Len(x) \in Nat
           /\ <<a>> \o x # <<>>
<1> DEFINE h == <<a>>
<1>1. IsList(h) /\ Len(h) = 1
  BY DEF IsList
<1> HIDE DEF h
<1>2. IsList(h \o x) /\ Len(h \o x) = Len(h) + Len(x)
  BY <1>1, AfterTheOther
<1>3. Len(x) \in Nat
  BY DEF IsList
<1>4. Len(h \o x) # 0
  BY <1>1, <1>2, <1>3
<1>5. h \o x # <<>>
  BY <1>4
<1> QED BY <1>1, <1>2, <1>3, <1>5 DEF h

\* A field that is one item or absent is whole.
LEMMA ValueWhole ==
    ASSUME NEW s, Len(s) \in Nat, NEW x, NEW a, Codec!Kids(a) = 0
    PROVE  Value(x, a) = <<>> \/ Whole(s, Value(x, a), 1)
BY WholeOne DEF Value

\* The slots with one item in them.
LEMMA SlotOne ==
    ASSUME NEW key, NEW a
    PROVE  Slot(key, <<a>>) = <<Codec!Key(key)>> \o <<a>> /\ Count(<<a>>) = 1
<1>1. <<a>> # <<>>
  OBVIOUS
<1> QED BY <1>1 DEF Slot, Count

LEMMA DleqGiven ==
    ASSUME NEW s, Len(s) \in Nat, NEW d, NEW name
    PROVE  Given(s, DleqPairs(d), DleqCount(d), name, DleqValue(d, name))
<1> DEFINE e == <<Codec!Bytes(d.e)>>
           z == <<Codec!Bytes(d.s)>>
           r == Value(d.r, Codec!Bytes(d.r))
<1>1. Whole(s, e, 1) /\ Whole(s, z, 1) /\ (r = <<>> \/ Whole(s, r, 1))
  BY Leaves, WholeOne, ValueWhole
<1>2. Count(e) = 1 /\ Count(z) = 1
  BY SlotOne
<1>3. DleqPairs(d) = (Slot("e", e) \o Slot("s", z)) \o Slot("r", r)
      /\ DleqCount(d) = 2 + Count(r)
      /\ DleqValue(d, name) = IF "r" = name THEN r ELSE IF "s" = name THEN z
                              ELSE IF "e" = name THEN e ELSE <<>>
  BY DEF DleqPairs, DleqCount, DleqValue
<1> HIDE DEF e, z, r
<1>4. Given(s, Slot("e", e), 1, name, IF "e" = name THEN e ELSE <<>>)
  BY <1>1, <1>2, SlotGives
<1>5. Given(s, Slot("e", e) \o Slot("s", z), 2, name,
            IF "s" = name THEN z ELSE IF "e" = name THEN e ELSE <<>>)
  <2>1. "s" = name => (IF "e" = name THEN e ELSE <<>>) = <<>>
    OBVIOUS
  <2>2. Given(s, Slot("e", e) \o Slot("s", z), 1 + Count(z), name,
              IF "s" = name THEN z ELSE IF "e" = name THEN e ELSE <<>>)
    BY <1>1, <1>4, <2>1, SlotBehind
  <2>3. 1 + 1 = 2
    OBVIOUS
  <2> QED BY <1>2, <2>2, <2>3
<1>6. "r" = name => (IF "s" = name THEN z ELSE IF "e" = name THEN e ELSE <<>>) = <<>>
  OBVIOUS
<1>7. Given(s, (Slot("e", e) \o Slot("s", z)) \o Slot("r", r), 2 + Count(r), name,
            IF "r" = name THEN r ELSE
            IF "s" = name THEN z ELSE IF "e" = name THEN e ELSE <<>>)
  BY <1>1, <1>5, <1>6, SlotBehind
<1> QED BY <1>3, <1>7

\* One item, five and seven of them, as lists.
One(a) == <<a>>
Five(k, a, b, c, d) == <<k, a, b, c, d>>
Seven(k, a, b, c, d, e, f) == <<k, a, b, c, d, e, f>>

LEMMA ListsOfOne ==
    /\ \A a : IsList(One(a)) /\ One(a) = <<a>>
    /\ \A a, b : IsList(One(a) \o One(b))
BY DEF IsList, One

LEMMA FiveAre ==
    \A k, a, b, c, d :
        Five(k, a, b, c, d) = One(k) \o ((One(a) \o One(b)) \o (One(c) \o One(d)))
BY FiveOfThem DEF One, Five

LEMMA SevenAre ==
    \A k, a, b, c, d, e, f :
        Seven(k, a, b, c, d, e, f) =
            One(k) \o (((One(a) \o One(b)) \o (One(c) \o One(d))) \o (One(e) \o One(f)))
BY SevenOfThem DEF One, Seven

\* A map's header and the pairs that follow it are what it is made of.
LEMMA TwoFields ==
    ASSUME NEW k, NEW a, NEW b, NEW c, NEW d, NEW r, IsList(r)
    PROVE  Five(k, a, b, c, d) \o r
               = One(k) \o (((One(a) \o One(b)) \o (One(c) \o One(d))) \o r)
<1> DEFINE h == One(k)
           x == (One(a) \o One(b)) \o (One(c) \o One(d))
<1>1. Five(k, a, b, c, d) = h \o x
  BY FiveAre
<1>2. IsList(h)
  BY DEF IsList, One
<1>3. IsList(x)
  BY DEF IsList, One
<1> HIDE DEF h, x
<1>4. (h \o x) \o r = h \o (x \o r)
  BY <1>2, <1>3, Regroup
<1>5. Five(k, a, b, c, d) \o r = h \o (x \o r)
  BY <1>1, <1>4
<1> QED BY <1>5 DEF h, x

\* Four lists, one after the other.
Together(h, x, r, w) == ((h \o x) \o r) \o w = h \o ((x \o r) \o w)

LEMMA FourTogether ==
    ASSUME NEW h, NEW x, NEW r, NEW w, IsList(h), IsList(x), IsList(r), IsList(w)
    PROVE  Together(h, x, r, w)
<1>1. IsList(x \o r)
  BY AfterTheOther
<1>2. (h \o x) \o r = h \o (x \o r)
  BY Regroup
<1> DEFINE y == x \o r
<1>3. IsList(y) /\ (h \o x) \o r = h \o y
  BY <1>1, <1>2
<1> HIDE DEF y
<1>4. (h \o y) \o w = h \o (y \o w)
  BY <1>3, Regroup
<1>5. ((h \o x) \o r) \o w = h \o (y \o w)
  BY <1>3, <1>4
<1> QED BY <1>5 DEF y, Together

\* The slot of an optional item is a list.
LEMMA SlotIsList ==
    ASSUME NEW key, NEW v, IsList(v)
    PROVE  IsList(Slot(key, v))
<1>1. IsList(<<>>)
  BY DEF IsList
<1>2. IsList(<<Codec!Key(key)>> \o v)
  BY Headed
<1> QED BY <1>1, <1>2 DEF Slot

LEMMA ValueIsList ==
    ASSUME NEW x, NEW a
    PROVE  IsList(Value(x, a))
BY DEF Value, IsList

LEMMA DleqForm ==
    ASSUME NEW d
    PROVE  Codec!DleqItems(d) = <<Codec!MapOf(DleqCount(d))>> \o DleqPairs(d)
<1> DEFINE r == Slot("r", Value(d.r, Codec!Bytes(d.r)))
<1>1. DleqPairs(d) =
          ((One(Codec!Key("e")) \o One(Codec!Bytes(d.e)))
              \o (One(Codec!Key("s")) \o One(Codec!Bytes(d.s)))) \o r
  BY SlotOne DEF DleqPairs, One
<1>2. Codec!DleqItems(d) = Five(Codec!MapOf(DleqCount(d)), Codec!Key("e"), Codec!Bytes(d.e),
                                Codec!Key("s"), Codec!Bytes(d.s)) \o r
  <2>1. 2 + Codec!Present(<<d.r>>) = DleqCount(d)
    BY PresentIs DEF DleqCount
  <2>2. Codec!Optional(d.r, "r", <<Codec!Bytes(d.r)>>) = r
    BY OptionalIs
  <2> QED BY <2>1, <2>2 DEF Codec!DleqItems, Five
<1>3. IsList(r)
  BY ValueIsList, SlotIsList
<1> HIDE DEF r
<1> DEFINE k == Codec!MapOf(DleqCount(d))
           a == Codec!Key("e")
           b == Codec!Bytes(d.e)
           c == Codec!Key("s")
           e == Codec!Bytes(d.s)
<1> HIDE DEF k, a, b, c, e
<1>4. Five(k, a, b, c, e) \o r
          = One(k) \o (((One(a) \o One(b)) \o (One(c) \o One(e))) \o r)
  BY SMTT(30), <1>3, TwoFields
<1>5. Codec!DleqItems(d) = One(k) \o DleqPairs(d)
  BY <1>1, <1>2, <1>4 DEF k, a, b, c, e
<1> QED BY <1>5 DEF One, k

\* A map written from its pairs is one whole item.
LEMMA MapWhole ==
    ASSUME NEW s, Len(s) \in Nat, NEW c, NEW x, NEW name, NEW v, Given(s, x, c, name, v)
    PROVE  Whole(s, <<Codec!MapOf(c)>> \o x, 1) /\ <<Codec!MapOf(c)>> \o x # <<>>
<1>1. Whole(s, x, Codec!Kids(Codec!MapOf(c))) /\ IsList(x)
  BY Containers DEF Given, Whole
<1>2. Whole(s, <<Codec!MapOf(c)>> \o x, 1)
  BY <1>1, WholeUnder
<1>3. <<Codec!MapOf(c)>> \o x # <<>>
  BY <1>1, Headed
<1> QED BY <1>2, <1>3

\* What is read of a DLEQ: all of it, all but r, or nothing, and all where it
\* was not cut.
LEMMA DleqRead ==
    ASSUME NEW s, Len(s) \in Nat, NEW m \in 1 .. Len(s), NEW d \in Dleq,
           Shows(s, m, Codec!DleqItems(d))
    PROVE  /\ Codec!DleqAt(s, m) \in {None, d, [d EXCEPT !.r = None]}
           /\ m + Len(Codec!DleqItems(d)) <= Len(s) + 1 => Codec!DleqAt(s, m) = d
<1> DEFINE x == DleqPairs(d)
           c == DleqCount(d)
           h == <<Codec!MapOf(c)>>
           w == h \o x
           hi == m + 1 + Len(x)
           F(name) == Codec!Field(s, m, name, "bytes")
           whole == hi <= Len(s) + 1
<1>1. Codec!DleqItems(d) = w
  BY DleqForm
<1>2. d = [e |-> d.e, s |-> d.s, r |-> d.r] /\ d.e # None /\ d.s # None
  BY NoneApart DEF Dleq
<1>3. \A name : Given(s, x, c, name, DleqValue(d, name))
  BY DleqGiven
<1>4. IsList(x) /\ Len(x) \in Nat
  BY <1>3 DEF Given, Whole, IsList
<1>5. Len(w) = 1 + Len(x)
  <2> HIDE DEF x
  <2>1. Len(<<Codec!MapOf(c)>> \o x) = 1 + Len(x)
    BY <1>4, Headed
  <2> QED BY <2>1
<1>6. Shows(s, m, <<Codec!MapOf(c)>> \o x)
  BY <1>1
<1> HIDE DEF x, c
<1>7. \A name : FieldAt(s, m, m + 1, hi, name, DleqValue(d, name))
  BY <1>3, <1>6, MapGives
<1>8. m + 1 \in Nat /\ hi \in Nat
  BY <1>4
<1> HIDE DEF hi
<1>9. ASSUME NEW y, NEW name, FieldAt(s, m, m + 1, hi, name, <<Codec!Bytes(y)>>)
      PROVE  (F(name) = y \/ F(name) = None) /\ (whole => F(name) = y)
  <2> DEFINE a == Codec!Bytes(y)
  <2>1. a.k = "bytes" /\ a.v = y
    BY Leaves
  <2>2. FieldAt(s, m, m + 1, hi, name, <<a>>)
    BY <1>9
  <2> HIDE DEF a
  <2>3. LET f == Codec!Field(s, m, name, a.k)
        IN /\ f = a.v \/ f = None
           /\ hi <= Len(s) + 1 /\ ~(a.k = "uint" /\ a.v > Codec!MaxInt32) => f = a.v
    BY <1>8, <2>2, FieldOne
  <2> QED BY <2>1, <2>3
<1>10. (F("e") = d.e \/ F("e") = None) /\ (whole => F("e") = d.e)
  <2>1. DleqValue(d, "e") = <<Codec!Bytes(d.e)>>
    BY DEF DleqValue
  <2> QED BY <1>7, <1>9, <2>1
<1>11. (F("s") = d.s \/ F("s") = None) /\ (whole => F("s") = d.s)
  <2>1. DleqValue(d, "s") = <<Codec!Bytes(d.s)>>
    BY DEF DleqValue
  <2> QED BY <1>7, <1>9, <2>1
<1>12. (F("r") = d.r \/ F("r") = None) /\ (whole => F("r") = d.r)
  <2>1. DleqValue(d, "r") = Value(d.r, Codec!Bytes(d.r))
    BY DEF DleqValue
  <2>2. FieldAt(s, m, m + 1, hi, "r", Value(d.r, Codec!Bytes(d.r)))
    BY <1>7, <2>1
  <2>3. CASE d.r = None
    <3>1. FieldAt(s, m, m + 1, hi, "r", <<>>)
      BY <2>2, <2>3 DEF Value
    <3>2. F("r") = None
      BY <3>1, FieldNone
    <3> QED BY <2>3, <3>2
  <2>4. CASE d.r # None
    <3>1. FieldAt(s, m, m + 1, hi, "r", <<Codec!Bytes(d.r)>>)
      BY <2>2, <2>4 DEF Value
    <3> QED BY <1>9, <3>1
  <2> QED BY <2>3, <2>4
<1>13. Codec!DleqAt(s, m) = IF F("e") = None \/ F("s") = None THEN None
                            ELSE [e |-> F("e"), s |-> F("s"), r |-> F("r")]
  BY DEF Codec!DleqAt
<1>14. [d EXCEPT !.r = None] = [e |-> d.e, s |-> d.s, r |-> None]
  BY <1>2
<1>15. whole <=> m + Len(w) <= Len(s) + 1
  BY <1>4, <1>5 DEF hi
<1> HIDE DEF F, whole, w
<1>16. Codec!DleqAt(s, m) \in {None, d, [d EXCEPT !.r = None]}
  BY <1>2, <1>10, <1>11, <1>12, <1>13, <1>14
<1>17. whole => Codec!DleqAt(s, m) = d
  BY <1>2, <1>10, <1>11, <1>12, <1>13
<1> QED BY <1>1, <1>15, <1>16, <1>17

----------
(* Reading a proof *)

\* A field of a kind, if it is not too large, has its value or was cut off.
LEMMA KindRead ==
    ASSUME NEW s, Len(s) \in Nat, NEW m, NEW lo \in Nat, NEW hi \in Nat, NEW name,
           NEW a, NEW k, NEW y, a.k = k, a.v = y, FieldAt(s, m, lo, hi, name, <<a>>)
    PROVE  LET f == Codec!Field(s, m, name, k)
           IN /\ f = y \/ f = None
              /\ hi <= Len(s) + 1 /\ ~(k = "uint" /\ y > Codec!MaxInt32) => f = y
BY FieldOne

\* A text, bytes or a flag.
LEMMA TextRead ==
    ASSUME NEW s, Len(s) \in Nat, NEW m, NEW lo \in Nat, NEW hi \in Nat, NEW name, NEW y,
           FieldAt(s, m, lo, hi, name, <<Codec!Text(y)>>)
    PROVE  LET f == Codec!Field(s, m, name, "text")
           IN (f = y \/ f = None) /\ (hi <= Len(s) + 1 => f = y)
<1> DEFINE a == Codec!Text(y)
<1>1. a.k = "text" /\ a.v = y
  BY Leaves
<1>2. FieldAt(s, m, lo, hi, name, <<a>>)
  OBVIOUS
<1> HIDE DEF a
<1> QED BY <1>1, <1>2, KindRead

LEMMA BytesRead ==
    ASSUME NEW s, Len(s) \in Nat, NEW m, NEW lo \in Nat, NEW hi \in Nat, NEW name, NEW y,
           FieldAt(s, m, lo, hi, name, <<Codec!Bytes(y)>>)
    PROVE  LET f == Codec!Field(s, m, name, "bytes")
           IN (f = y \/ f = None) /\ (hi <= Len(s) + 1 => f = y)
<1> DEFINE a == Codec!Bytes(y)
<1>1. a.k = "bytes" /\ a.v = y
  BY Leaves
<1>2. FieldAt(s, m, lo, hi, name, <<a>>)
  OBVIOUS
<1> HIDE DEF a
<1> QED BY <1>1, <1>2, KindRead

LEMMA AmountsRead ==
    ASSUME NEW s, Len(s) \in Nat, NEW m, NEW lo \in Nat, NEW hi \in Nat, NEW name, NEW y,
           FieldAt(s, m, lo, hi, name, <<Codec!UInt(y)>>)
    PROVE  LET f == Codec!Field(s, m, name, "uint")
           IN (f = y \/ f = None) /\ (hi <= Len(s) + 1 /\ ~(y > Codec!MaxInt32) => f = y)
<1> DEFINE a == Codec!UInt(y)
<1>1. a.k = "uint" /\ a.v = y
  BY Leaves
<1>2. FieldAt(s, m, lo, hi, name, <<a>>)
  OBVIOUS
<1> HIDE DEF a
<1> QED BY <1>1, <1>2, KindRead

\* An optional text.
LEMMA OptionalText ==
    ASSUME NEW s, Len(s) \in Nat, NEW m, NEW lo \in Nat, NEW hi \in Nat, NEW name, NEW y,
           FieldAt(s, m, lo, hi, name, Value(y, Codec!Text(y)))
    PROVE  LET f == Codec!Field(s, m, name, "text")
           IN (f = y \/ f = None) /\ (hi <= Len(s) + 1 => f = y)
<1>1. CASE y = None
  <2>1. FieldAt(s, m, lo, hi, name, <<>>)
    BY <1>1 DEF Value
  <2>2. Codec!Field(s, m, name, "text") = None
    BY <2>1, FieldNone
  <2> QED BY <1>1, <2>2
<1>2. CASE y # None
  <2>1. FieldAt(s, m, lo, hi, name, <<Codec!Text(y)>>)
    BY <1>2 DEF Value
  <2> QED BY <2>1, TextRead
<1> QED BY <1>1, <1>2

\* The pairs of a proof's map, how many they are and what they give.
DleqOf(p) == IF p.dleq = None THEN <<>> ELSE Codec!DleqItems(p.dleq)

ThreePairs(p) ==
    (Slot("a", <<Codec!UInt(p.amount)>>) \o Slot("s", <<Codec!Text(p.secret)>>))
        \o Slot("c", <<Codec!Bytes(p.C)>>)

ProofPairs(p) ==
    (ThreePairs(p) \o Slot("d", DleqOf(p)))
        \o Slot("w", Value(p.witness, Codec!Text(p.witness)))

ProofCount(p) == (3 + Count(DleqOf(p))) + Count(Value(p.witness, Codec!Text(p.witness)))

ThreeValue(p, name) ==
    IF "c" = name THEN <<Codec!Bytes(p.C)>>
    ELSE IF "s" = name THEN <<Codec!Text(p.secret)>>
    ELSE IF "a" = name THEN <<Codec!UInt(p.amount)>> ELSE <<>>

ProofValue(p, name) ==
    IF "w" = name THEN Value(p.witness, Codec!Text(p.witness))
    ELSE IF "d" = name THEN DleqOf(p) ELSE ThreeValue(p, name)

LEMMA DleqWhole ==
    ASSUME NEW s, Len(s) \in Nat, NEW p
    PROVE  /\ DleqOf(p) = <<>> \/ Whole(s, DleqOf(p), 1)
           /\ IsList(DleqOf(p))
           /\ p.dleq # None => DleqOf(p) # <<>>
<1>1. CASE p.dleq = None
  <2>1. IsList(<<>>)
    BY DEF IsList
  <2> QED BY <1>1, <2>1 DEF DleqOf
<1>2. CASE p.dleq # None
  <2> DEFINE x == DleqPairs(p.dleq)
             c == DleqCount(p.dleq)
  <2>1. DleqOf(p) = <<Codec!MapOf(c)>> \o x
    BY <1>2, DleqForm DEF DleqOf
  <2>2. Given(s, x, c, "e", DleqValue(p.dleq, "e"))
    BY DleqGiven
  <2> HIDE DEF x, c
  <2>3. Whole(s, <<Codec!MapOf(c)>> \o x, 1) /\ <<Codec!MapOf(c)>> \o x # <<>>
    BY <2>2, MapWhole
  <2> QED BY <2>1, <2>3 DEF Whole
<1> QED BY <1>1, <1>2

LEMMA ThreeGiven ==
    ASSUME NEW s, Len(s) \in Nat, NEW p, NEW name
    PROVE  Given(s, ThreePairs(p), 3, name, ThreeValue(p, name))
<1> DEFINE e == <<Codec!UInt(p.amount)>>
           z == <<Codec!Text(p.secret)>>
           r == <<Codec!Bytes(p.C)>>
<1>1. Whole(s, e, 1) /\ Whole(s, z, 1) /\ Whole(s, r, 1)
  BY Leaves, WholeOne
<1>2. Count(e) = 1 /\ Count(z) = 1 /\ Count(r) = 1
  BY SlotOne
<1>3. ThreePairs(p) = (Slot("a", e) \o Slot("s", z)) \o Slot("c", r)
      /\ ThreeValue(p, name) = IF "c" = name THEN r ELSE IF "s" = name THEN z
                              ELSE IF "a" = name THEN e ELSE <<>>
  BY DEF ThreePairs, ThreeValue
<1> HIDE DEF e, z, r
<1>4. Given(s, Slot("a", e), 1, name, IF "a" = name THEN e ELSE <<>>)
  BY <1>1, <1>2, SlotGives
<1>5. Given(s, Slot("a", e) \o Slot("s", z), 2, name,
            IF "s" = name THEN z ELSE IF "a" = name THEN e ELSE <<>>)
  <2>1. "s" = name => (IF "a" = name THEN e ELSE <<>>) = <<>>
    OBVIOUS
  <2>2. Given(s, Slot("a", e) \o Slot("s", z), 1 + Count(z), name,
              IF "s" = name THEN z ELSE IF "a" = name THEN e ELSE <<>>)
    BY <1>1, <1>4, <2>1, SlotBehind
  <2>3. 1 + 1 = 2
    OBVIOUS
  <2> QED BY <1>2, <2>2, <2>3
<1>6. "c" = name => (IF "s" = name THEN z ELSE IF "a" = name THEN e ELSE <<>>) = <<>>
  OBVIOUS
<1>7. Given(s, (Slot("a", e) \o Slot("s", z)) \o Slot("c", r), 2 + Count(r), name,
            IF "c" = name THEN r ELSE
            IF "s" = name THEN z ELSE IF "a" = name THEN e ELSE <<>>)
  BY <1>1, <1>5, <1>6, SlotBehind
<1>8. 2 + Count(r) = 3
  BY <1>2
<1> QED BY <1>3, <1>7, <1>8

LEMMA ProofGiven ==
    ASSUME NEW s, Len(s) \in Nat, NEW p, NEW name
    PROVE  Given(s, ProofPairs(p), ProofCount(p), name, ProofValue(p, name))
<1> DEFINE u == ThreePairs(p)
           x == ThreeValue(p, name)
           d == DleqOf(p)
           w == Value(p.witness, Codec!Text(p.witness))
<1>1. Given(s, u, 3, name, x)
  BY ThreeGiven
<1>2. (d = <<>> \/ Whole(s, d, 1)) /\ (w = <<>> \/ Whole(s, w, 1))
  BY DleqWhole, Leaves, ValueWhole
<1>3. /\ ProofPairs(p) = (u \o Slot("d", d)) \o Slot("w", w)
      /\ ProofCount(p) = (3 + Count(d)) + Count(w)
      /\ ProofValue(p, name) = IF "w" = name THEN w ELSE IF "d" = name THEN d ELSE x
  BY DEF ProofPairs, ProofCount, ProofValue
<1>4. ("d" = name => x = <<>>) /\ ("w" = name => x = <<>>)
  BY DEF ThreeValue
<1> HIDE DEF u, x, d, w
<1>5. Given(s, u \o Slot("d", d), 3 + Count(d), name, IF "d" = name THEN d ELSE x)
  BY <1>1, <1>2, <1>4, SlotBehind
<1>6. "w" = name => (IF "d" = name THEN d ELSE x) = <<>>
  BY <1>4
<1> DEFINE v == IF "d" = name THEN d ELSE x
           q == u \o Slot("d", d)
           c == 3 + Count(d)
<1>7. Given(s, q, c, name, v) /\ ("w" = name => v = <<>>)
  BY <1>5, <1>6
<1> HIDE DEF v, q, c
<1>8. Given(s, q \o Slot("w", w), c + Count(w), name, IF "w" = name THEN w ELSE v)
  BY <1>2, <1>7, SlotBehind
<1> QED BY <1>3, <1>8 DEF v, q, c

LEMMA ProofForm ==
    ASSUME NEW p
    PROVE  Codec!ProofItems(p) = <<Codec!MapOf(ProofCount(p))>> \o ProofPairs(p)
<1> DEFINE r == Slot("d", DleqOf(p))
           w == Slot("w", Value(p.witness, Codec!Text(p.witness)))
<1>1. ThreePairs(p) =
          ((One(Codec!Key("a")) \o One(Codec!UInt(p.amount)))
              \o (One(Codec!Key("s")) \o One(Codec!Text(p.secret))))
              \o (One(Codec!Key("c")) \o One(Codec!Bytes(p.C)))
  BY SlotOne DEF ThreePairs, One
<1>2. Codec!Fields(p) = ProofCount(p)
  <2> DEFINE a == Codec!MapOf(0)
             b == Codec!Text(p.witness)
             d == Count(DleqOf(p))
             e == Count(Value(p.witness, b))
  <2>0. e = Count(Value(p.witness, b)) /\ ProofCount(p) = (3 + d) + e
    BY DEF ProofCount, b
  <2> HIDE DEF e
  <2>1. Codec!Present(<<p.dleq, p.witness>>) = Count(Value(p.dleq, a)) + e
    <3> HIDE DEF a, b, d
    <3> DEFINE y == p.dleq
               z == p.witness
    <3> HIDE DEF y, z
    <3>1. TwoPresent(y, z, a, b)
      BY PresentIs
    <3> QED BY <2>0, <3>1 DEF y, z, TwoPresent
  <2>2. Count(Value(p.dleq, a)) = d
    <3>1. p.dleq # None => DleqOf(p) # <<>>
      <4>1. Len(<<>>) \in Nat
        OBVIOUS
      <4> QED BY <4>1, DleqWhole
    <3>2. <<a>> # <<>>
      OBVIOUS
    <3> QED BY <3>1, <3>2 DEF Count, Value, DleqOf
  <2>3. ProofCount(p) = (3 + d) + e
    BY <2>0
  <2>4. d \in Nat /\ e \in Nat
    BY <2>0 DEF Count
  <2> HIDE DEF d
  <2>5. 3 + (d + e) = (3 + d) + e
    BY <2>4
  <2> QED BY <2>1, <2>2, <2>3, <2>5 DEF Codec!Fields
<1>3. Codec!ProofItems(p) =
          (Seven(Codec!MapOf(ProofCount(p)), Codec!Key("a"), Codec!UInt(p.amount),
                 Codec!Key("s"), Codec!Text(p.secret), Codec!Key("c"), Codec!Bytes(p.C))
              \o r) \o w
  <2>1. Codec!Optional(p.witness, "w", <<Codec!Text(p.witness)>>) = w
    BY OptionalIs
  <2>2. (IF p.dleq = None THEN <<>> ELSE <<Codec!Key("d")>> \o Codec!DleqItems(p.dleq)) = r
    <3>1. p.dleq # None => DleqOf(p) # <<>>
      <4>1. Len(<<>>) \in Nat
        OBVIOUS
      <4> QED BY <4>1, DleqWhole
    <3> QED BY <3>1 DEF Slot, DleqOf
  <2> QED BY <1>2, <2>1, <2>2 DEF Codec!ProofItems, Seven
<1>4. IsList(r) /\ IsList(w)
  <2>1. Len(<<>>) \in Nat
    OBVIOUS
  <2>2. IsList(DleqOf(p))
    BY <2>1, DleqWhole
  <2> QED BY <2>2, ValueIsList, SlotIsList
<1>5. ProofPairs(p) = (ThreePairs(p) \o r) \o w
  BY DEF ProofPairs
<1> HIDE DEF r, w
<1> DEFINE k == Codec!MapOf(ProofCount(p))
           a == Codec!Key("a")
           b == Codec!UInt(p.amount)
           c == Codec!Key("s")
           d == Codec!Text(p.secret)
           e == Codec!Key("c")
           f == Codec!Bytes(p.C)
<1> HIDE DEF k, a, b, c, d, e, f
<1> DEFINE x == ((One(a) \o One(b)) \o (One(c) \o One(d))) \o (One(e) \o One(f))
<1>6. Seven(k, a, b, c, d, e, f) = One(k) \o x
  BY SevenAre
<1>7. IsList(One(k)) /\ IsList(x)
  BY ListsOfOne, AfterTheOther
<1>8. ThreePairs(p) = x
  BY <1>1 DEF a, b, c, d, e, f
<1> HIDE DEF x
<1> DEFINE g == One(k)
<1>9. ((g \o x) \o r) \o w = g \o ((x \o r) \o w)
  <2>1. IsList(g) /\ IsList(x) /\ IsList(r) /\ IsList(w)
    BY <1>4, <1>7
  <2> HIDE DEF g
  <2>2. Together(g, x, r, w)
    BY <2>1, FourTogether
  <2> QED BY <2>2 DEF Together
<1>10. Codec!ProofItems(p) = One(k) \o ProofPairs(p)
  BY <1>3, <1>5, <1>6, <1>8, <1>9 DEF k, a, b, c, d, e, f
<1> QED BY <1>10 DEF One, k

\* A proof's items are one whole item.
LEMMA ProofWhole ==
    ASSUME NEW s, Len(s) \in Nat, NEW p
    PROVE  Whole(s, Codec!ProofItems(p), 1) /\ Codec!ProofItems(p) # <<>>
<1> DEFINE x == ProofPairs(p)
           c == ProofCount(p)
<1>1. Given(s, x, c, "a", ProofValue(p, "a"))
  BY ProofGiven
<1>2. Codec!ProofItems(p) = <<Codec!MapOf(c)>> \o x
  BY ProofForm
<1> HIDE DEF x, c
<1>3. Whole(s, <<Codec!MapOf(c)>> \o x, 1) /\ <<Codec!MapOf(c)>> \o x # <<>>
  BY <1>1, MapWhole
<1> QED BY <1>2, <1>3

\* What is read of the DLEQ of a proof.
LEMMA InsideRead ==
    ASSUME NEW s, Len(s) \in Nat, NEW m, NEW lo \in Nat, NEW hi \in Nat, NEW p,
           p.dleq \in Dleq \cup {None}, FieldAt(s, m, lo, hi, "d", DleqOf(p))
    PROVE  LET d == Codec!Inside(s, m, "d", "map")
               r == IF d = 0 THEN None ELSE Codec!DleqAt(s, d)
           IN /\ r = None \/ (p.dleq # None /\ r \in {p.dleq, [p.dleq EXCEPT !.r = None]})
              /\ hi <= Len(s) + 1 => r = p.dleq
<1> DEFINE q == Codec!Inside(s, m, "d", "map")
<1>1. CASE p.dleq = None
  <2>1. FieldAt(s, m, lo, hi, "d", <<>>)
    BY <1>1 DEF DleqOf
  <2>2. q = 0
    BY <2>1, FieldNone
  <2> QED BY <1>1, <2>2
<1>2. CASE p.dleq # None
  <2> DEFINE x == DleqPairs(p.dleq)
             c == DleqCount(p.dleq)
             a == Codec!MapOf(c)
             w == Codec!DleqItems(p.dleq)
  <2>1. w = <<a>> \o x
    BY DleqForm
  <2>2. DleqOf(p) = w
    BY <1>2 DEF DleqOf
  <2>3. IsList(x)
    <3>1. Given(s, x, c, "e", DleqValue(p.dleq, "e"))
      BY DleqGiven
    <3> QED BY <3>1 DEF Given, Whole
  <2>4. a.k = "map"
    BY Containers
  <2>5. FieldAt(s, m, lo, hi, "d", <<a>> \o x)
    BY <2>1, <2>2
  <2> HIDE DEF a, x
  <2>6. /\ q # 0 => /\ q \in 1 .. Len(s) /\ q > lo
                    /\ q + Len(<<a>> \o x) <= hi /\ Shows(s, q, <<a>> \o x)
        /\ hi <= Len(s) + 1 => q # 0
    <3>1. LET z == Codec!Inside(s, m, "d", a.k)
          IN /\ z # 0 => /\ z \in 1 .. Len(s) /\ z > lo
                         /\ z + Len(<<a>> \o x) <= hi /\ Shows(s, z, <<a>> \o x)
             /\ hi <= Len(s) + 1 => z # 0
      BY <2>3, <2>5, FieldInside
    <3> QED BY <2>4, <3>1
  <2>7. p.dleq \in Dleq
    BY <1>2
  <2> HIDE DEF w
  <2>8. CASE q = 0
    BY <2>6, <2>8
  <2>9. CASE q # 0
    <3> DEFINE r == Codec!DleqAt(s, q)
    <3>1. q \in 1 .. Len(s) /\ Shows(s, q, w) /\ q + Len(w) <= hi
      BY <2>1, <2>6, <2>9
    <3>2. /\ r \in {None, p.dleq, [p.dleq EXCEPT !.r = None]}
          /\ q + Len(w) <= Len(s) + 1 => r = p.dleq
      BY <2>7, <3>1, DleqRead DEF w
    <3>3. hi <= Len(s) + 1 => q + Len(w) <= Len(s) + 1
      <4> DEFINE n == Len(w)
                 l == Len(s)
      <4>1. n \in Nat /\ l \in Nat /\ q \in Nat /\ q + n <= hi
        <5>1. IsList(w)
          BY <2>1, <2>3, Headed
        <5> QED BY <3>1, <5>1 DEF IsList
      <4> HIDE DEF n, l, q
      <4>2. hi <= l + 1 => q + n <= l + 1
        BY <4>1
      <4> QED BY <4>2 DEF n, l
    <3> HIDE DEF r, q
    <3>4. r = None \/ r \in {p.dleq, [p.dleq EXCEPT !.r = None]}
      BY <3>2
    <3> QED BY <1>2, <2>9, <3>2, <3>3, <3>4 DEF r, q
  <2> QED BY <2>8, <2>9
<1> QED BY <1>1, <1>2

\* What may be read of a proof p that was cut.
Partly(r, p) == Codec!Trimmed(r, p) /\ HasPrice(r)

\* What is read of a proof: the proof, perhaps without its optional end, or
\* nothing; and where it was not cut all of it, unless its amount is beyond
\* what the code reads.
LEMMA ProofRead ==
    ASSUME NEW s, Len(s) \in Nat, NEW m \in 1 .. Len(s), NEW p \in Proof,
           Shows(s, m, Codec!ProofItems(p))
    PROVE  LET r     == Codec!ProofAt(s, m, p.id)
               whole == m + Len(Codec!ProofItems(p)) <= Len(s) + 1
           IN /\ r = None \/ Partly(r, p)
              /\ whole /\ r # None => r = p
              /\ whole /\ ~(p.amount > Codec!MaxInt32) => r # None
<1> DEFINE x == ProofPairs(p)
           c == ProofCount(p)
           w == Codec!ProofItems(p)
           hi == m + 1 + Len(x)
           whole == hi <= Len(s) + 1
           a == Codec!Field(s, m, "a", "uint")
           y == Codec!Field(s, m, "s", "text")
           z == Codec!Field(s, m, "c", "bytes")
           d == Codec!Inside(s, m, "d", "map")
           e == IF d = 0 THEN None ELSE Codec!DleqAt(s, d)
           t == Codec!Field(s, m, "w", "text")
           big == p.amount > Codec!MaxInt32
           r == Codec!ProofAt(s, m, p.id)
<1>1. w = <<Codec!MapOf(c)>> \o x
  BY ProofForm
<1>2. \A name : Given(s, x, c, name, ProofValue(p, name))
  BY ProofGiven
<1>3. IsList(x) /\ Len(x) \in Nat
  BY <1>2 DEF Given, Whole, IsList
<1>4. Len(w) = 1 + Len(x)
  <2> HIDE DEF x
  <2>1. Len(<<Codec!MapOf(c)>> \o x) = 1 + Len(x)
    BY <1>3, Headed
  <2> QED BY <1>1, <2>1
<1>5. Shows(s, m, <<Codec!MapOf(c)>> \o x)
  BY <1>1
<1>6. s[m].k = "map"
  <2> HIDE DEF x, c
  <2>1. s[m] = Codec!MapOf(c)
    BY <1>3, <1>5, MapShown
  <2> QED BY <2>1, Containers
<1> HIDE DEF x, c
<1>7. \A name : FieldAt(s, m, m + 1, hi, name, ProofValue(p, name))
  BY <1>2, <1>5, MapGives
<1>8. m + 1 \in Nat /\ hi \in Nat /\ (whole <=> m + Len(w) <= Len(s) + 1)
  <2> DEFINE n == Len(x)
             v == Len(w)
             l == Len(s)
  <2>1. n \in Nat /\ v = 1 + n /\ m \in Nat /\ l \in Nat
    BY <1>3, <1>4
  <2> HIDE DEF n, v, l
  <2>2. m + 1 \in Nat /\ m + 1 + n \in Nat /\ (m + 1 + n <= l + 1 <=> m + v <= l + 1)
    BY <2>1
  <2> QED BY <2>2 DEF n, v, l
<1> HIDE DEF hi, w
<1>9. (a = p.amount \/ a = None) /\ (whole /\ ~big => a = p.amount)
  <2>1. ProofValue(p, "a") = <<Codec!UInt(p.amount)>>
    BY DEF ProofValue, ThreeValue
  <2>2. FieldAt(s, m, m + 1, hi, "a", <<Codec!UInt(p.amount)>>)
    BY <1>7, <2>1
  <2> QED BY <1>8, <2>2, AmountsRead
<1>10. (y = p.secret \/ y = None) /\ (whole => y = p.secret)
  <2>1. ProofValue(p, "s") = <<Codec!Text(p.secret)>>
    BY DEF ProofValue, ThreeValue
  <2>2. FieldAt(s, m, m + 1, hi, "s", <<Codec!Text(p.secret)>>)
    BY <1>7, <2>1
  <2> QED BY <1>8, <2>2, TextRead
<1>11. (z = p.C \/ z = None) /\ (whole => z = p.C)
  <2>1. ProofValue(p, "c") = <<Codec!Bytes(p.C)>>
    BY DEF ProofValue, ThreeValue
  <2>2. FieldAt(s, m, m + 1, hi, "c", <<Codec!Bytes(p.C)>>)
    BY <1>7, <2>1
  <2> QED BY <1>8, <2>2, BytesRead
<1>12. (t = p.witness \/ t = None) /\ (whole => t = p.witness)
  <2>1. ProofValue(p, "w") = Value(p.witness, Codec!Text(p.witness))
    BY DEF ProofValue
  <2>2. FieldAt(s, m, m + 1, hi, "w", Value(p.witness, Codec!Text(p.witness)))
    BY <1>7, <2>1
  <2> QED BY <1>8, <2>2, OptionalText
<1>13. /\ p = [id |-> p.id, amount |-> p.amount, secret |-> p.secret, C |-> p.C,
               dleq |-> p.dleq, witness |-> p.witness]
       /\ p.dleq \in Dleq \cup {None}
       /\ p.amount # None /\ p.secret # None /\ p.C # None
  <2>1. p.amount \in Int /\ p.secret \in Int /\ p.C \in Int
    BY DEF Proof
  <2>2. None \notin Int
    BY NoneApart
  <2>3. /\ p = [id |-> p.id, amount |-> p.amount, secret |-> p.secret, C |-> p.C,
                dleq |-> p.dleq, witness |-> p.witness]
        /\ p.dleq \in Dleq \cup {None}
    BY DEF Proof
  <2> QED BY <2>1, <2>2, <2>3
<1>14. /\ e = None \/ (p.dleq # None /\ e \in {p.dleq, [p.dleq EXCEPT !.r = None]})
       /\ whole => e = p.dleq
  <2>1. ProofValue(p, "d") = DleqOf(p)
    BY DEF ProofValue
  <2>2. FieldAt(s, m, m + 1, hi, "d", DleqOf(p))
    BY <1>7, <2>1
  <2> QED BY <1>8, <1>13, <2>2, InsideRead
<1>15. r = IF a = None \/ y = None \/ z = None THEN None
           ELSE [id |-> p.id, amount |-> a, secret |-> y, C |-> z, dleq |-> e, witness |-> t]
  BY <1>6 DEF Codec!ProofAt
<1> HIDE DEF a, y, z, d, e, t, r, whole, big
<1>16. r = None \/ Partly(r, p)
  <2>1. SUFFICES ASSUME r # None PROVE Partly(r, p)
    OBVIOUS
  <2>2. r = [id |-> p.id, amount |-> a, secret |-> y, C |-> z, dleq |-> e, witness |-> t]
        /\ a = p.amount /\ y = p.secret /\ z = p.C
    BY <1>9, <1>10, <1>11, <1>15, <2>1
  <2>3. /\ r.id = p.id /\ r.amount = p.amount /\ r.secret = p.secret /\ r.C = p.C
        /\ r.dleq = e /\ r.witness = t /\ "id" \in DOMAIN r /\ "amount" \in DOMAIN r
    BY <2>2
  <2>4. Codec!Trimmed(r, p)
    BY <1>12, <1>14, <2>3 DEF Codec!Trimmed
  <2>5. HasPrice(r)
    BY <2>3 DEF HasPrice, Proof
  <2> QED BY <2>4, <2>5 DEF Partly
<1>17. whole /\ r # None => r = p
  BY <1>9, <1>10, <1>11, <1>12, <1>13, <1>14, <1>15
<1>18. whole /\ ~big => r # None
  <2>1. SUFFICES ASSUME whole, ~big PROVE r # None
    OBVIOUS
  <2>2. r = p
    BY <1>9, <1>10, <1>11, <1>12, <1>13, <1>14, <1>15, <2>1
  <2>3. None \notin Proof
    BY NoneApart
  <2> QED BY <2>2, <2>3
<1> QED BY <1>8, <1>16, <1>17, <1>18 DEF w, r, whole, big

----------
(* Reading an entry *)

\* An array of whole items is a whole item.
LEMMA ArrayWhole ==
    ASSUME NEW s, Len(s) \in Nat, NEW xs, IsList(xs),
           \A i \in 1 .. Len(xs) : Whole(s, xs[i], 1)
    PROVE  LET w == <<Codec!ArrayOf(Len(xs))>> \o Joined(xs)
           IN /\ Whole(s, w, 1) /\ w # <<>> /\ IsList(Joined(xs))
              /\ Len(w) = 1 + Len(Joined(xs)) /\ Len(Joined(xs)) \in Nat
<1> DEFINE a == Codec!ArrayOf(Len(xs))
           x == Joined(xs)
<1>1. Codec!Kids(a) = Len(xs)
  BY Containers
<1>2. Whole(s, x, Len(xs))
  BY WholeFlat
<1>3. IsList(x)
  BY <1>2 DEF Whole
<1> HIDE DEF a, x
<1>4. Whole(s, <<a>> \o x, 1)
  BY <1>1, <1>2, WholeUnder
<1>5. <<a>> \o x # <<>> /\ Len(<<a>> \o x) = 1 + Len(x) /\ Len(x) \in Nat
  BY <1>3, Headed
<1> QED BY <1>3, <1>4, <1>5 DEF a, x

\* A first part of a list of proofs, of which only the last may be trimmed.
BeginsLike(r, g) ==
    /\ IsList(r) /\ Len(r) \in 1 .. Len(g)
    /\ \A i \in 1 .. Len(r) : /\ i < Len(r) => r[i] = g[i]
                              /\ i = Len(r) => Partly(r[i], g[i])

\* The proofs of one keyset.
IsGroup(g) ==
    /\ IsList(g) /\ g # <<>>
    /\ \A i \in 1 .. Len(g) : g[i] \in Proof /\ g[i].id = g[1].id

\* The amounts fit what the code reads.
Fits(g) == \A i \in 1 .. Len(g) : ~(g[i].amount > Codec!MaxInt32)

\* The items of an entry.
ProofLists(g) == [i \in 1 .. Len(g) |-> Codec!ProofItems(g[i])]

EntryPairs(g) ==
    Slot("i", <<Codec!Bytes(g[1].id)>>)
        \o Slot("p", <<Codec!ArrayOf(Len(g))>> \o Joined(ProofLists(g)))

EntryValue(g, name) ==
    IF "p" = name THEN <<Codec!ArrayOf(Len(g))>> \o Joined(ProofLists(g))
    ELSE IF "i" = name THEN <<Codec!Bytes(g[1].id)>> ELSE <<>>

LEMMA ProofListsWell ==
    ASSUME NEW s, Len(s) \in Nat, NEW g, IsGroup(g)
    PROVE  /\ IsList(ProofLists(g)) /\ Len(ProofLists(g)) = Len(g) /\ Len(g) \in Nat \ {0}
           /\ \A i \in 1 .. Len(g) : /\ ProofLists(g)[i] = Codec!ProofItems(g[i])
                                     /\ Whole(s, ProofLists(g)[i], 1)
                                     /\ ProofLists(g)[i] # <<>>
<1>1. Len(g) \in Nat /\ Len(g) # 0
  <2>1. g \in Seq(Range(g))
    BY ListIsSeq DEF IsGroup
  <2>2. g # <<>> /\ Len(g) \in Nat
    BY DEF IsGroup, IsList
  <2> QED BY <2>1, <2>2
<1>2. IsList(ProofLists(g)) /\ Len(ProofLists(g)) = Len(g)
  BY <1>1 DEF IsList, ProofLists
<1>3. \A i \in 1 .. Len(g) : ProofLists(g)[i] = Codec!ProofItems(g[i])
  BY DEF ProofLists
<1>4. ASSUME NEW i \in 1 .. Len(g)
      PROVE  Whole(s, ProofLists(g)[i], 1) /\ ProofLists(g)[i] # <<>>
  BY <1>3, ProofWhole
<1> QED BY <1>1, <1>2, <1>3, <1>4

LEMMA EntryGiven ==
    ASSUME NEW s, Len(s) \in Nat, NEW g, IsGroup(g), NEW name
    PROVE  Given(s, EntryPairs(g), 2, name, EntryValue(g, name))
<1> DEFINE xs == ProofLists(g)
           e == <<Codec!Bytes(g[1].id)>>
           z == <<Codec!ArrayOf(Len(g))>> \o Joined(xs)
<1>1. Whole(s, e, 1) /\ Count(e) = 1
  BY Leaves, WholeOne, SlotOne
<1>2. Whole(s, z, 1) /\ z # <<>>
  <2>1. IsList(xs) /\ Len(xs) = Len(g) /\ \A i \in 1 .. Len(xs) : Whole(s, xs[i], 1)
    BY ProofListsWell
  <2> HIDE DEF xs
  <2>2. LET w == <<Codec!ArrayOf(Len(xs))>> \o Joined(xs)
        IN Whole(s, w, 1) /\ w # <<>>
    BY <2>1, ArrayWhole
  <2> QED BY <2>1, <2>2
<1>3. Count(z) = 1
  BY <1>2 DEF Count
<1>4. EntryPairs(g) = Slot("i", e) \o Slot("p", z)
      /\ EntryValue(g, name) = IF "p" = name THEN z ELSE IF "i" = name THEN e ELSE <<>>
  BY DEF EntryPairs, EntryValue
<1> HIDE DEF e, z
<1>5. Given(s, Slot("i", e), 1, name, IF "i" = name THEN e ELSE <<>>)
  BY <1>1, SlotGives
<1>6. "p" = name => (IF "i" = name THEN e ELSE <<>>) = <<>>
  OBVIOUS
<1>7. Given(s, Slot("i", e) \o Slot("p", z), 1 + Count(z), name,
            IF "p" = name THEN z ELSE IF "i" = name THEN e ELSE <<>>)
  BY <1>2, <1>5, <1>6, SlotBehind
<1>8. 1 + Count(z) = 2
  BY <1>3
<1> QED BY <1>4, <1>7, <1>8

LEMMA EntryForm ==
    ASSUME NEW g, IsGroup(g)
    PROVE  Codec!EntryItems(g) = <<Codec!MapOf(2)>> \o EntryPairs(g)
<1> DEFINE j == Joined(ProofLists(g))
           c == Codec!Key("p")
           d == Codec!ArrayOf(Len(g))
           a == Codec!Key("i")
           b == Codec!Bytes(g[1].id)
           k == Codec!MapOf(2)
<1>1. DOMAIN g = 1 .. Len(g)
  BY ListIsSeq DEF IsGroup
<1>2. Codec!EntryItems(g) = Five(k, a, b, c, d) \o j
  BY <1>1, CodecLists DEF Codec!EntryItems, Five, ProofLists
<1>3. IsList(j)
  <2>1. Len(<<>>) \in Nat
    OBVIOUS
  <2> DEFINE xs == ProofLists(g)
  <2>2. IsList(xs) /\ \A i \in 1 .. Len(xs) : Whole(<<>>, xs[i], 1)
    BY <2>1, ProofListsWell
  <2> HIDE DEF xs
  <2>3. IsList(Joined(xs))
    BY <2>1, <2>2, ArrayWhole
  <2> QED BY <2>3 DEF xs
<1>4. EntryPairs(g) = (One(a) \o One(b)) \o (One(c) \o (One(d) \o j))
  <2>1. Slot("i", <<b>>) = <<a>> \o <<b>>
    BY SlotOne
  <2> HIDE DEF j, d
  <2>2. <<d>> \o j # <<>>
    BY <1>3, Headed
  <2>3. Slot("p", <<d>> \o j) = <<c>> \o (<<d>> \o j)
    BY <2>2 DEF Slot
  <2>4. EntryPairs(g) = Slot("i", <<b>>) \o Slot("p", <<d>> \o j)
    BY DEF EntryPairs, j, d
  <2> QED BY <2>1, <2>3, <2>4 DEF One
<1> HIDE DEF a, b, c, d, j, k
<1>5. Five(k, a, b, c, d) \o j
          = One(k) \o (((One(a) \o One(b)) \o (One(c) \o One(d))) \o j)
  BY SMTT(30), <1>3, TwoFields
<1> DEFINE u == One(a) \o One(b)
           v == One(c)
           w == One(d)
<1>6. IsList(u) /\ IsList(v) /\ IsList(w)
  BY ListsOfOne
<1>7. /\ Codec!EntryItems(g) = One(k) \o ((u \o (v \o w)) \o j)
      /\ EntryPairs(g) = u \o (v \o (w \o j))
  BY <1>2, <1>4, <1>5
<1> HIDE DEF u, v, w
<1>8. (u \o (v \o w)) \o j = u \o (v \o (w \o j))
  <2>1. (v \o w) \o j = v \o (w \o j)
    BY <1>3, <1>6, Regroup
  <2> DEFINE y == v \o w
  <2>2. IsList(y)
    BY <1>6, AfterTheOther
  <2>3. y \o j = v \o (w \o j)
    BY <2>1
  <2> HIDE DEF y
  <2>4. (u \o y) \o j = u \o (y \o j)
    BY <1>3, <1>6, <2>2, Regroup
  <2> QED BY <2>3, <2>4 DEF y
<1>9. Codec!EntryItems(g) = One(k) \o EntryPairs(g)
  BY <1>7, <1>8
<1> QED BY <1>9 DEF One, k

\* The proofs that the elements of an entry's array hold.
LEMMA ProofsAt ==
    ASSUME NEW s, Len(s) \in Nat, NEW g, IsGroup(g), NEW e \in Nat, NEW els,
           AreElements(s, e, ProofLists(g), els), NEW r,
           r = [i \in DOMAIN els |-> Codec!ProofAt(s, els[i], g[1].id)]
    PROVE  /\ None \notin Codec!Range(r) /\ els # <<>> => BeginsLike(r, g)
           /\ e <= Len(s) + 1 => Len(r) = Len(g) /\ (None \notin Codec!Range(r) => r = g)
           /\ e <= Len(s) + 1 /\ Fits(g) => None \notin Codec!Range(r) /\ els # <<>>
<1> DEFINE xs == ProofLists(g)
           n == Len(els)
<1>1. /\ Len(xs) = Len(g) /\ Len(g) \in Nat \ {0}
      /\ \A i \in 1 .. Len(g) : xs[i] = Codec!ProofItems(g[i])
  BY ProofListsWell
<1>2. /\ IsList(els) /\ n \in Nat /\ n <= Len(g) /\ DOMAIN els = 1 .. n
  BY <1>1, ListIsSeq DEF AreElements, IsList
<1>3. IsList(r) /\ Len(r) = n /\ DOMAIN r = 1 .. n
      /\ \A i \in 1 .. n : r[i] = Codec!ProofAt(s, els[i], g[1].id)
  BY <1>2 DEF IsList
<1>4. None \notin Codec!Range(r) <=> \A i \in 1 .. n : r[i] # None
  BY <1>3 DEF Codec!Range
<1>5. ASSUME NEW i \in 1 .. n
      PROVE  /\ r[i] = None \/ Partly(r[i], g[i])
             /\ (i < n \/ e <= Len(s) + 1) /\ r[i] # None => r[i] = g[i]
             /\ e <= Len(s) + 1 /\ ~(g[i].amount > Codec!MaxInt32) => r[i] # None
  <2> DEFINE m == els[i]
             p == g[i]
             w == Codec!ProofItems(p)
             l == Len(s)
             k == Len(w)
             t == Codec!ProofAt(s, m, p.id)
  <2>1. i \in 1 .. Len(g)
    BY <1>1, <1>2
  <2>2. p \in Proof /\ p.id = g[1].id
    BY <2>1 DEF IsGroup
  <2>3. xs[i] = w
    BY <1>1, <2>1
  <2>4. m \in 1 .. l /\ Shows(s, m, w) /\ m + k <= e /\ (i < n => m + k <= l)
    BY <2>3 DEF AreElements
  <2>5. r[i] = t
    BY <1>3, <2>2
  <2>6. LET whole == m + k <= l + 1
        IN /\ t = None \/ Partly(t, p)
           /\ whole /\ t # None => t = p
           /\ whole /\ ~(p.amount > Codec!MaxInt32) => t # None
    BY <2>2, <2>4, ProofRead
  <2>7. i < n \/ e <= l + 1 => m + k <= l + 1
    <3>1. k \in Nat /\ l \in Nat /\ m \in Nat /\ e \in Nat /\ m + k <= e
      <4>1. IsList(w)
        BY ProofWhole DEF Whole
      <4> HIDE DEF w
      <4> QED BY <2>4, <4>1 DEF IsList
    <3> HIDE DEF k, l, m
    <3> QED BY <2>4, <3>1
  <2> HIDE DEF t, m, k, l, p
  <2>8. /\ t = None \/ Partly(t, p)
        /\ (i < n \/ e <= l + 1) /\ t # None => t = p
        /\ e <= l + 1 /\ ~(p.amount > Codec!MaxInt32) => t # None
    BY <2>6, <2>7
  <2> QED BY <2>5, <2>8 DEF p, l
<1>6. ASSUME None \notin Codec!Range(r), els # <<>>
      PROVE  BeginsLike(r, g)
  <2>1. n # 0
    BY <1>2, <1>6, ListIsSeq, EmptySeq
  <2>2. n \in 1 .. Len(g)
    BY <1>1, <1>2, <2>1
  <2> HIDE DEF n
  <2> QED BY <1>3, <1>4, <1>5, <1>6, <2>2 DEF BeginsLike
<1>7. ASSUME e <= Len(s) + 1
      PROVE  /\ Len(r) = Len(g)
             /\ None \notin Codec!Range(r) => r = g
             /\ Fits(g) => None \notin Codec!Range(r) /\ els # <<>>
  <2>1. n = Len(g)
    BY <1>1, <1>7 DEF AreElements
  <2>2. ASSUME None \notin Codec!Range(r) PROVE r = g
    <3>1. \A i \in 1 .. n : r[i] = g[i]
      BY <1>4, <1>5, <1>7, <2>2
    <3>2. IsList(r) /\ IsList(g) /\ Len(r) = n /\ Len(g) = n
      BY <1>3, <2>1 DEF IsGroup
    <3> HIDE DEF n
    <3>3. r = [i \in 1 .. n |-> r[i]] /\ g = [i \in 1 .. n |-> g[i]]
      BY <3>2 DEF IsList
    <3>4. [i \in 1 .. n |-> r[i]] = [i \in 1 .. n |-> g[i]]
      BY <3>1
    <3> QED BY <3>3, <3>4
  <2>3. ASSUME Fits(g) PROVE None \notin Codec!Range(r) /\ els # <<>>
    <3>1. \A i \in 1 .. n : ~(g[i].amount > Codec!MaxInt32)
      BY <2>1, <2>3 DEF Fits
    <3>2. Len(els) # 0
      BY <1>1, <2>1
    <3>3. els # <<>>
      BY <3>2
    <3> QED BY <1>4, <1>5, <1>7, <3>1, <3>3
  <2> QED BY <1>3, <2>1, <2>2, <2>3
<1> QED BY <1>6, <1>7

\* What is read of an entry: a first part of its proofs, or nothing; and where
\* it was not cut all of them.
LEMMA EntryRead ==
    ASSUME NEW s, Len(s) \in Nat, NEW m \in 1 .. Len(s), NEW g, IsGroup(g),
           Shows(s, m, Codec!EntryItems(g))
    PROVE  LET r     == Codec!EntryAt(s, m)
               whole == m + Len(Codec!EntryItems(g)) <= Len(s) + 1
           IN /\ s[m].k = "map"
              /\ r = None \/ BeginsLike(r, g)
              /\ whole /\ r # None => r = g
              /\ whole /\ Fits(g) => r # None
<1> DEFINE x == EntryPairs(g)
           w == Codec!EntryItems(g)
           xs == ProofLists(g)
           j == Joined(xs)
           h == Codec!ArrayOf(Len(g))
           hi == m + 1 + Len(x)
           whole == hi <= Len(s) + 1
           id == Codec!Field(s, m, "i", "bytes")
           a == Codec!Inside(s, m, "p", "array")
           els == Codec!Elements(s, a)
           t == [i \in DOMAIN els |-> Codec!ProofAt(s, els[i], id)]
           r == Codec!EntryAt(s, m)
<1>1. w = <<Codec!MapOf(2)>> \o x
  BY EntryForm
<1>2. \A name : Given(s, x, 2, name, EntryValue(g, name))
  BY EntryGiven
<1>3. IsList(x) /\ Len(x) \in Nat
  BY <1>2 DEF Given, Whole, IsList
<1>4. Len(w) = 1 + Len(x)
  <2> HIDE DEF x
  <2>1. Len(<<Codec!MapOf(2)>> \o x) = 1 + Len(x)
    BY <1>3, Headed
  <2> QED BY <1>1, <2>1
<1>5. Shows(s, m, <<Codec!MapOf(2)>> \o x)
  BY <1>1
<1> HIDE DEF x
<1>6. s[m].k = "map"
  <2>1. s[m] = Codec!MapOf(2)
    BY <1>3, <1>5, MapShown
  <2> QED BY <2>1, Containers
<1>7. \A name : FieldAt(s, m, m + 1, hi, name, EntryValue(g, name))
  BY <1>2, <1>5, MapGives
<1>8. m + 1 \in Nat /\ hi \in Nat /\ (whole <=> m + Len(w) <= Len(s) + 1)
  <2> DEFINE n == Len(x)
             v == Len(w)
             l == Len(s)
  <2>1. n \in Nat /\ v = 1 + n /\ m \in Nat /\ l \in Nat
    BY <1>3, <1>4
  <2> HIDE DEF n, v, l
  <2>2. m + 1 \in Nat /\ m + 1 + n \in Nat /\ (m + 1 + n <= l + 1 <=> m + v <= l + 1)
    BY <2>1
  <2> QED BY <2>2 DEF n, v, l
<1> HIDE DEF hi, w
<1>9. (id = g[1].id \/ id = None) /\ (whole => id = g[1].id)
  <2>1. EntryValue(g, "i") = <<Codec!Bytes(g[1].id)>>
    BY DEF EntryValue
  <2>2. FieldAt(s, m, m + 1, hi, "i", <<Codec!Bytes(g[1].id)>>)
    BY <1>7, <2>1
  <2> QED BY <1>8, <2>2, BytesRead
<1>10. g[1].id # None
  <2>1. 1 \in 1 .. Len(g)
    <3>1. Len(<<>>) \in Nat
      OBVIOUS
    <3>2. Len(g) \in Nat \ {0}
      BY <3>1, ProofListsWell
    <3> QED BY <3>2
  <2>2. g[1] \in Proof
    BY <2>1 DEF IsGroup
  <2>3. g[1].id \in Ids
    BY <2>2 DEF Proof
  <2>4. None \notin Ids
    BY NoneApart
  <2> QED BY <2>3, <2>4
<1>11. /\ IsList(xs) /\ Len(xs) = Len(g) /\ Len(g) \in Nat \ {0}
       /\ \A i \in 1 .. Len(xs) : Whole(s, xs[i], 1) /\ xs[i] # <<>>
  BY ProofListsWell
<1> HIDE DEF xs
<1>12. IsList(j) /\ Len(j) \in Nat
  BY <1>11, ArrayWhole
<1>13. FieldAt(s, m, m + 1, hi, "p", <<h>> \o j)
  <2>1. EntryValue(g, "p") = <<h>> \o j
    BY DEF EntryValue, xs
  <2> QED BY <1>7, <2>1
<1>14. h.k = "array" /\ h = Codec!ArrayOf(Len(xs))
  BY <1>11, Containers
<1> HIDE DEF h, j
<1>15. /\ a # 0 => /\ a \in 1 .. Len(s) /\ a > m + 1
                   /\ a + Len(<<h>> \o j) <= hi /\ Shows(s, a, <<h>> \o j)
       /\ whole => a # 0
  <2>1. LET p == Codec!Inside(s, m, "p", h.k)
        IN /\ p # 0 => /\ p \in 1 .. Len(s) /\ p > m + 1
                       /\ p + Len(<<h>> \o j) <= hi /\ Shows(s, p, <<h>> \o j)
           /\ hi <= Len(s) + 1 => p # 0
    BY <1>8, <1>12, <1>13, FieldInside
  <2> QED BY <1>14, <2>1
<1>16. r = IF id = None \/ a = 0 THEN None
           ELSE IF ~Codec!CanEnter(s, a) \/ None \in Codec!Range(t) THEN None ELSE t
  BY DEF Codec!EntryAt
<1> DEFINE e == a + 1 + Len(j)
<1>17. ASSUME a # 0
       PROVE  /\ AreElements(s, e, xs, els) /\ e \in Nat /\ (whole => e <= Len(s) + 1)
              /\ Codec!CanEnter(s, a) <=> els # <<>>
  <2>1. a \in 1 .. Len(s) /\ Shows(s, a, <<Codec!ArrayOf(Len(xs))>> \o Joined(xs))
    BY <1>14, <1>15, <1>17 DEF j
  <2>2. /\ AreElements(s, a + 1 + Len(Joined(xs)), xs, Codec!Elements(s, a))
        /\ Codec!CanEnter(s, a) <=> (xs = <<>> \/ Codec!Elements(s, a) # <<>>)
    BY <1>11, <2>1, ElementsShown
  <2>3. xs # <<>>
    BY <1>11
  <2>4. e \in Nat /\ (whole => e <= Len(s) + 1)
    <3> DEFINE n == Len(j)
               l == Len(s)
               v == Len(<<h>> \o j)
    <3>1. v = 1 + n /\ n \in Nat
      BY <1>12, Headed
    <3>2. a + v <= hi /\ a \in Nat /\ l \in Nat
      BY <1>15, <1>17, <2>1
    <3> HIDE DEF n, l, v, a
    <3>3. a + 1 + n \in Nat /\ (hi <= l + 1 => a + 1 + n <= l + 1)
      BY <1>8, <3>1, <3>2
    <3> QED BY <3>3 DEF n, l
  <2> QED BY <2>2, <2>3, <2>4 DEF j
<1> HIDE DEF e, a
<1>18. ASSUME a # 0, id = g[1].id
       PROVE  /\ None \notin Codec!Range(t) /\ els # <<>> => BeginsLike(t, g)
              /\ whole /\ None \notin Codec!Range(t) => t = g
              /\ whole /\ Fits(g) => None \notin Codec!Range(t) /\ els # <<>>
  <2>1. t = [i \in DOMAIN els |-> Codec!ProofAt(s, els[i], g[1].id)]
    BY <1>18
  <2>2. AreElements(s, e, ProofLists(g), els) /\ e \in Nat
    BY <1>17, <1>18 DEF xs
  <2> HIDE DEF t, els
  <2>3. /\ None \notin Codec!Range(t) /\ els # <<>> => BeginsLike(t, g)
        /\ e <= Len(s) + 1 => Len(t) = Len(g) /\ (None \notin Codec!Range(t) => t = g)
        /\ e <= Len(s) + 1 /\ Fits(g) => None \notin Codec!Range(t) /\ els # <<>>
    BY <2>1, <2>2, ProofsAt
  <2> QED BY <1>17, <1>18, <2>3
<1> HIDE DEF t, els, id, r, whole
<1>19. r = None \/ BeginsLike(r, g)
  BY <1>9, <1>16, <1>17, <1>18
<1>20. whole /\ r # None => r = g
  BY <1>9, <1>16, <1>18
<1>21. whole /\ Fits(g) => r # None
  <2>1. SUFFICES ASSUME whole, Fits(g) PROVE r # None
    OBVIOUS
  <2>2. id = g[1].id /\ id # None /\ a # 0
    BY <1>9, <1>10, <1>15, <2>1
  <2>3. None \notin Codec!Range(t) /\ els # <<>> /\ t = g
    BY <1>18, <2>1, <2>2
  <2>4. r = g
    BY <1>16, <1>17, <2>2, <2>3
  <2>5. g # None
    <3>1. g \in Seq(Proof)
      <4>1. IsList(g) /\ \A i \in 1 .. Len(g) : g[i] \in Proof
        BY DEF IsGroup
      <4>2. [i \in 1 .. Len(g) |-> g[i]] \in Seq(Proof)
        BY <4>1 DEF IsList
      <4> QED BY <4>1, <4>2 DEF IsList
    <3>2. None \notin Seq(Proof)
      BY NoneApart
    <3> QED BY <3>1, <3>2
  <2> QED BY <2>4, <2>5
<1> QED BY <1>6, <1>8, <1>19, <1>20, <1>21 DEF w, r, whole

----------
(* First parts of lists joined *)

\* Lists that begin alike are joined alike.
LEMMA FlatAgrees ==
    ASSUME NEW S, NEW xs \in Seq(Seq(S)), NEW ys \in Seq(Seq(S)), NEW k \in Nat,
           k <= Len(xs), k <= Len(ys), \A i \in 1 .. k : xs[i] = ys[i]
    PROVE  Flat(xs, k) = Flat(ys, k)
<1> DEFINE F(m) == Flat(xs, m)
           G(m) == Flat(ys, m)
           a == Len(xs)
           b == Len(ys)
           R == {m \in 0 .. k : F(m) = G(m)}
<1>1. a \in Nat /\ b \in Nat
  BY LenProperties
<1>2. F(0) = <<>> /\ \A m \in 0 .. (a - 1) : F(m + 1) = F(m) \o xs[m + 1]
  BY FlatDef
<1>3. G(0) = <<>> /\ \A m \in 0 .. (b - 1) : G(m + 1) = G(m) \o ys[m + 1]
  BY FlatDef
<1>4. k <= a /\ k <= b
  OBVIOUS
<1> HIDE DEF F, G, a, b
<1>5. 0 \in R
  BY <1>2, <1>3
<1>6. \A m \in 0 .. (k - 1) : m \in R => m + 1 \in R
  <2>1. SUFFICES ASSUME NEW m \in 0 .. (k - 1), F(m) = G(m)
                 PROVE  F(m + 1) = G(m + 1) /\ m + 1 \in 0 .. k
    OBVIOUS
  <2>2. m \in 0 .. (a - 1) /\ m \in 0 .. (b - 1) /\ m + 1 \in 1 .. k /\ m + 1 \in 0 .. k
    BY <1>1, <1>4
  <2>3. F(m + 1) = F(m) \o xs[m + 1] /\ G(m + 1) = G(m) \o ys[m + 1] /\ xs[m + 1] = ys[m + 1]
    BY <1>2, <1>3, <2>2
  <2> QED BY <2>1, <2>2, <2>3
<1> HIDE DEF R
<1>7. \A m \in 0 .. k : m \in R
  BY <1>5, <1>6, Upwards
<1>8. k \in R
  BY <1>7
<1> QED BY <1>8 DEF R, F, G

\* The lists joined begin with the first of them joined.
LEMMA FlatStarts ==
    ASSUME NEW S, NEW xs \in Seq(Seq(S)), NEW k \in 0 .. Len(xs)
    PROVE  /\ Flat(xs, k) \in Seq(S) /\ Joined(xs) \in Seq(S)
           /\ Len(Flat(xs, k)) <= Len(Joined(xs))
           /\ \A x \in 1 .. Len(Flat(xs, k)) : Joined(xs)[x] = Flat(xs, k)[x]
<1> DEFINE F(m) == Flat(xs, m)
           n == Len(xs)
           at == Len(F(k))
           Good(m) == m >= k => /\ at <= Len(F(m))
                                /\ \A x \in 1 .. at : F(m)[x] = F(k)[x]
           R == {m \in 0 .. n : Good(m)}
<1>1. n \in Nat /\ \A m \in 1 .. n : xs[m] \in Seq(S)
  BY LenProperties, ElementOfSeq
<1>2. /\ Joined(xs) = F(n)
      /\ \A m \in 0 .. n : F(m) \in Seq(S)
      /\ \A m \in 0 .. (n - 1) : F(m + 1) = F(m) \o xs[m + 1]
  BY FlatDef
<1> HIDE DEF F, n
<1>3. \A m \in 0 .. n : Len(F(m)) \in Nat
  BY <1>2, LenProperties
<1>4. k \in 0 .. n /\ at \in Nat /\ n \in 0 .. n /\ n >= k
  BY <1>1, <1>3 DEF n
<1> HIDE DEF at
<1>5. Good(0)
  <2>1. 0 >= k => k = 0
    BY <1>4
  <2>2. at = Len(F(k))
    BY DEF at
  <2>3. at <= at
    BY <1>4
  <2> QED BY <2>1, <2>2, <2>3
<1>6. ASSUME NEW m \in 0 .. (n - 1), Good(m)
      PROVE  Good(m + 1)
  <2>1. m \in 0 .. n /\ m + 1 \in 0 .. n /\ m + 1 \in 1 .. n
    BY <1>1
  <2>2. CASE m + 1 < k
    BY <1>4, <2>1, <2>2
  <2>3. CASE m + 1 = k
    <3>1. at = Len(F(m + 1)) /\ F(m + 1) = F(k)
      BY <2>3 DEF at
    <3>2. at <= at
      BY <1>4
    <3> QED BY <3>1, <3>2
  <2>4. CASE m + 1 > k
    <3> DEFINE u == F(m)
               v == xs[m + 1]
               w == F(m + 1)
    <3>1. m >= k
      BY <1>4, <2>1, <2>4
    <3>2. at <= Len(u) /\ \A x \in 1 .. at : u[x] = F(k)[x]
      BY <1>6, <3>1
    <3>3. w = u \o v /\ u \in Seq(S) /\ v \in Seq(S)
      BY <1>1, <1>2, <2>1
    <3> HIDE DEF u, v, w
    <3>4. Len(u) \in Nat /\ Len(v) \in Nat /\ Len(w) = Len(u) + Len(v)
          /\ \A x \in 1 .. Len(u) : w[x] = u[x]
      BY <3>3, TwoJoined
    <3> DEFINE a == Len(u)
               b == Len(v)
               c == Len(w)
    <3>5. a \in Nat /\ b \in Nat /\ c = a + b /\ at <= a /\ \A x \in 1 .. a : w[x] = u[x]
      BY <3>2, <3>4
    <3> HIDE DEF a, b, c
    <3>6. at <= c /\ \A x \in 1 .. at : x \in 1 .. a
      BY <1>4, <3>5
    <3>7. at <= Len(w) /\ \A x \in 1 .. at : w[x] = F(k)[x]
      BY <3>2, <3>5, <3>6 DEF c
    <3> QED BY <3>7 DEF w
  <2> QED BY <1>4, <2>1, <2>2, <2>3, <2>4
<1>7. \A m \in 0 .. n : m \in R
  <2> HIDE DEF Good
  <2>1. 0 \in R /\ \A m \in 0 .. (n - 1) : m \in R => m + 1 \in R
    BY <1>1, <1>5, <1>6
  <2> HIDE DEF R
  <2> QED BY <1>1, <2>1, Upwards
<1>8. at <= Len(F(n)) /\ \A x \in 1 .. at : F(n)[x] = F(k)[x]
  BY <1>4, <1>7
<1>9. F(k) \in Seq(S) /\ F(n) \in Seq(S)
  BY <1>2, <1>4
<1> QED BY <1>2, <1>8, <1>9 DEF at, F

\* The first part of a list's lists, of which the last has but its beginning,
\* joined are a beginning of the lists joined.
LEMMA JoinedBegins ==
    ASSUME NEW xs, IsList(xs), NEW gs, IsList(gs), Len(xs) <= Len(gs), xs # <<>>,
           \A i \in 1 .. Len(gs) : IsList(gs[i]),
           \A i \in 1 .. Len(xs) : /\ i < Len(xs) => xs[i] = gs[i]
                                   /\ i = Len(xs) => BeginsLike(xs[i], gs[i])
    PROVE  BeginsLike(Joined(xs), Joined(gs))
<1> DEFINE n == Len(xs)
           k == n - 1
           u == Flat(xs, k)
           z == xs[n]
           g == gs[n]
           r == Joined(xs)
           w == Joined(gs)
<1>1. n \in Nat \ {0} /\ Len(gs) \in Nat /\ n <= Len(gs)
  <2>1. n \in Nat /\ Len(gs) \in Nat
    BY DEF IsList
  <2>2. xs \in Seq(Range(xs))
    BY ListIsSeq
  <2>3. n # 0
    BY <2>2
  <2> QED BY <2>1, <2>3
<1> DEFINE l == Len(gs)
<1>2. /\ n \in 1 .. n /\ k \in Nat /\ k + 1 = n /\ k < n /\ n \in 1 .. l
      /\ k <= n /\ k <= l /\ k \in 0 .. n /\ k \in 0 .. l
      /\ k \in 0 .. (n - 1) /\ k \in 0 .. (l - 1)
      /\ \A i \in 1 .. k : i \in 1 .. n /\ i < n
  <2>1. n \in Nat \ {0} /\ l \in Nat /\ n <= l
    BY <1>1
  <2> HIDE DEF n, l
  <2> QED BY <2>1
<1>3. \A i \in 1 .. n : IsList(xs[i])
  <2>1. ASSUME NEW i \in 1 .. n
        PROVE  IsList(xs[i])
    <3>1. i < n \/ i = n
      BY <1>1
    <3>2. i \in 1 .. Len(gs)
      BY <1>1
    <3> QED BY <3>1, <3>2 DEF BeginsLike
  <2> QED BY <2>1
<1>4. PICK S : xs \in Seq(Seq(S)) /\ gs \in Seq(Seq(S))
  <2>1. PICK A : xs \in Seq(Seq(A))
    BY <1>3, ListsOfLists
  <2>2. PICK B : gs \in Seq(Seq(B))
    BY ListsOfLists
  <2> DEFINE C == A \cup B
  <2>3. \A X, Y : X \subseteq Y => Seq(X) \subseteq Seq(Y)
    OBVIOUS
  <2>4. Seq(A) \subseteq Seq(C) /\ Seq(B) \subseteq Seq(C)
    BY <2>3
  <2>5. xs \in Seq(Seq(C)) /\ gs \in Seq(Seq(C))
    <3> HIDE DEF C
    <3> QED BY <2>1, <2>2, <2>3, <2>4
  <2> HIDE DEF C
  <2> QED BY <2>5
<1>5. BeginsLike(z, g)
  BY <1>2
<1>6. u = Flat(gs, k)
  <2>1. \A i \in 1 .. k : xs[i] = gs[i]
    <3> HIDE DEF k
    <3> QED BY <1>2
  <2>2. k <= Len(xs) /\ k <= Len(gs)
    BY <1>2
  <2> HIDE DEF k
  <2> QED BY <1>2, <1>4, <2>1, <2>2, FlatAgrees
<1>7. /\ r \in Seq(S) /\ w \in Seq(S) /\ u \in Seq(S)
      /\ Len(u) <= Len(r) /\ Len(u) <= Len(w)
      /\ \A x \in 1 .. Len(u) : r[x] = u[x] /\ w[x] = u[x]
  <2>1. k \in 0 .. Len(xs) /\ k \in 0 .. Len(gs)
    BY <1>2
  <2> HIDE DEF k
  <2>2. /\ Flat(xs, k) \in Seq(S) /\ Joined(xs) \in Seq(S)
        /\ Len(Flat(xs, k)) <= Len(Joined(xs))
        /\ \A x \in 1 .. Len(Flat(xs, k)) : Joined(xs)[x] = Flat(xs, k)[x]
    BY <1>4, <2>1, FlatStarts
  <2>3. /\ Joined(gs) \in Seq(S)
        /\ Len(Flat(gs, k)) <= Len(Joined(gs))
        /\ \A x \in 1 .. Len(Flat(gs, k)) : Joined(gs)[x] = Flat(gs, k)[x]
    BY <1>4, <2>1, FlatStarts
  <2> QED BY <1>6, <2>2, <2>3
<1>8. /\ Len(r) = Len(u) + Len(z)
      /\ \A j \in 1 .. Len(z) : r[Len(u) + j] = z[j]
  <2>1. k \in 0 .. (Len(xs) - 1)
    BY <1>2
  <2>2. /\ Len(Flat(xs, k + 1)) = Len(Flat(xs, k)) + Len(xs[k + 1])
        /\ \A j \in 1 .. Len(xs[k + 1]) :
                  Joined(xs)[Len(Flat(xs, k)) + j] = xs[k + 1][j]
    <3> HIDE DEF k
    <3> QED BY <1>4, <2>1, FlatAt
  <2>3. Joined(xs) = Flat(xs, n)
    BY <1>4, FlatDef
  <2> HIDE DEF k
  <2> QED BY <1>2, <2>2, <2>3
<1>9. /\ Len(u) + Len(g) <= Len(w)
      /\ \A j \in 1 .. Len(g) : w[Len(u) + j] = g[j]
  <2>1. k \in 0 .. (Len(gs) - 1)
    BY <1>2
  <2>2. /\ Len(Flat(gs, k + 1)) = Len(Flat(gs, k)) + Len(gs[k + 1])
        /\ Len(Flat(gs, k + 1)) <= Len(Joined(gs))
        /\ \A j \in 1 .. Len(gs[k + 1]) :
                  Joined(gs)[Len(Flat(gs, k)) + j] = gs[k + 1][j]
    <3> HIDE DEF k
    <3> QED BY <1>4, <2>1, FlatAt
  <2> HIDE DEF k
  <2> QED BY <1>2, <1>6, <2>2
<1>10. IsList(r) /\ IsList(w)
  BY <1>7, SeqIsList
<1> DEFINE a == Len(u)
           b == Len(z)
           c == Len(g)
           d == Len(w)
           e == Len(r)
<1>11. a \in Nat /\ b \in Nat /\ c \in Nat /\ d \in Nat /\ e \in Nat
  <2>1. IsList(u) /\ IsList(z) /\ IsList(g)
    BY <1>2, <1>3, <1>7, SeqIsList
  <2> QED BY <1>10, <2>1 DEF IsList
<1>12. e = a + b /\ a + c <= d /\ b \in 1 .. c
  BY <1>5, <1>8, <1>9 DEF BeginsLike
<1>13. /\ \A x \in 1 .. a : r[x] = w[x]
       /\ \A j \in 1 .. b : r[a + j] = z[j]
       /\ \A j \in 1 .. c : w[a + j] = g[j]
       /\ \A j \in 1 .. b : (j < b => z[j] = g[j]) /\ (j = b => Partly(z[j], g[j]))
  BY <1>5, <1>7, <1>8, <1>9 DEF BeginsLike
<1> HIDE DEF u, z, g, r, w, a, b, c, d, e
<1>14. e \in 1 .. d
  BY <1>11, <1>12
<1>15. ASSUME NEW i \in 1 .. e
       PROVE  (i < e => r[i] = w[i]) /\ (i = e => Partly(r[i], w[i]))
  <2>1. CASE i <= a
    <3>1. i \in 1 .. a /\ i < e
      BY <1>11, <1>12, <2>1
    <3> QED BY <1>11, <1>13, <3>1
  <2>2. CASE ~(i <= a)
    <3> DEFINE j == i - a
    <3>1. j \in 1 .. b /\ j \in 1 .. c /\ a + j = i /\ (i < e <=> j < b) /\ (i = e <=> j = b)
      BY <1>11, <1>12, <2>2
    <3> HIDE DEF j
    <3>2. r[a + j] = z[j] /\ w[a + j] = g[j]
      BY <1>13, <3>1
    <3>3. (j < b => z[j] = g[j]) /\ (j = b => Partly(z[j], g[j]))
      BY <1>13, <3>1
    <3> QED BY <3>1, <3>2, <3>3
  <2> QED BY <2>1, <2>2
<1> QED BY <1>10, <1>14, <1>15 DEF BeginsLike, r, w, e, d

----------
(* The whole token *)

\* The proofs are grouped by their ids.
LEMMA GroupsAre ==
    ASSUME NEW ps \in Seq(Proof)
    PROVE  LET groups == Codec!Grouped(ps)
           IN /\ IsList(groups)
              /\ \A j \in 1 .. Len(groups) :
                     /\ IsGroup(groups[j])
                     /\ \A i \in 1 .. Len(groups[j]) : groups[j][i] \in Range(ps)
<1> DEFINE T    == {i \in DOMAIN IdOrder : \E p \in Codec!Range(ps) : p.id = IdOrder[i]}
           ids  == Kept(IdOrder, T)
           R(j) == {i \in DOMAIN ps : ps[i].id = ids[j]}
           groups == Codec!Grouped(ps)
<1>1. groups = [j \in DOMAIN ids |-> Kept(ps, R(j))]
  BY CodecLists DEF Codec!Grouped
<1>2. IdOrder \in Seq(Ids) /\ DOMAIN IdOrder = 1 .. Len(IdOrder)
      /\ DOMAIN ps = 1 .. Len(ps) /\ (\A i \in 1 .. Len(ps) : ps[i] \in Proof)
      /\ (\A x \in Range(ps) : \E i \in 1 .. Len(ps) : x = ps[i])
      /\ (\A i \in 1 .. Len(ps) : ps[i] \in Range(ps))
  BY IdsListed, InRange, OfTheSet
<1>3. ids \in Seq(Ids) /\ \A k \in 1 .. Len(ids) : \E i \in T : ids[k] = IdOrder[i]
  <2> HIDE DEF T
  <2>1. /\ ids \in Seq(Ids)
        /\ \A k \in 1 .. Len(ids) : \E i \in T \cap (1 .. Len(IdOrder)) : ids[k] = IdOrder[i]
    BY <1>2, KeptElements
  <2> HIDE DEF ids
  <2> QED BY <2>1
<1>4. ASSUME NEW j \in 1 .. Len(ids)
      PROVE  /\ IsGroup(Kept(ps, R(j)))
             /\ \A i \in 1 .. Len(Kept(ps, R(j))) : Kept(ps, R(j))[i] \in Range(ps)
  <2>1. PICK i \in T : ids[j] = IdOrder[i]
    BY <1>3
  <2>2. PICK p \in Codec!Range(ps) : p.id = IdOrder[i]
    BY <2>1
  <2>3. p \in Range(ps)
    BY <2>2, CodecLists
  <2>4. PICK n \in 1 .. Len(ps) : p = ps[n]
    BY <1>2, <2>3
  <2> HIDE DEF ids, T
  <2> DEFINE Q0 == R(j)
             g == Kept(ps, Q0)
  <2>5. n \in Q0 \cap (1 .. Len(ps))
    BY <1>2, <2>1, <2>2, <2>4
  <2>6. \A k \in Q0 : k \in 1 .. Len(ps) /\ ps[k].id = ids[j]
    BY <1>2
  <2> HIDE DEF Q0
  <2>7. /\ g \in Seq(Proof)
        /\ \A k \in 1 .. Len(g) : \E m \in Q0 \cap (1 .. Len(ps)) : g[k] = ps[m]
        /\ g = <<>> <=> Q0 \cap (1 .. Len(ps)) = {}
    BY KeptElements
  <2>8. g # <<>>
    BY <2>5, <2>7
  <2>9. \A k \in 1 .. Len(g) : g[k] \in Proof /\ g[k].id = ids[j] /\ g[k] \in Range(ps)
    BY <1>2, <2>6, <2>7
  <2>10. IsList(g)
    BY <2>7, SeqIsList
  <2>11. 1 \in 1 .. Len(g)
    <3> HIDE DEF g
    <3>1. Len(g) \in Nat /\ Len(g) # 0
      BY <2>7, <2>8
    <3> QED BY <3>1
  <2> HIDE DEF g
  <2>12. IsGroup(g)
    BY <2>8, <2>9, <2>10, <2>11 DEF IsGroup
  <2> QED BY <2>9, <2>12 DEF g, Q0
<1>5. Len(ids) \in Nat /\ DOMAIN ids = 1 .. Len(ids)
  BY <1>3, InRange
<1> HIDE DEF ids, R
<1>6. IsList(groups) /\ Len(groups) = Len(ids)
  BY <1>1, <1>5 DEF IsList
<1>7. \A j \in 1 .. Len(groups) : groups[j] = Kept(ps, R(j))
  BY <1>1, <1>5, <1>6
<1> HIDE DEF groups
<1>8. \A j \in 1 .. Len(groups) :
          /\ IsGroup(groups[j])
          /\ \A i \in 1 .. Len(groups[j]) : groups[j][i] \in Range(ps)
  BY <1>4, <1>6, <1>7
<1> QED BY <1>6, <1>8 DEF groups

\* Lists of groups.
AreGroups(gs) == IsList(gs) /\ \A j \in 1 .. Len(gs) : IsGroup(gs[j])

\* The items of the entries, and the list of them.
EntryLists(gs) == [j \in 1 .. Len(gs) |-> Codec!EntryItems(gs[j])]

EntriesOf(gs) == <<Codec!ArrayOf(Len(gs))>> \o Joined(EntryLists(gs))

\* An entry is one whole item, and so is the list of the entries.
LEMMA EntryListsWell ==
    ASSUME NEW s, Len(s) \in Nat, NEW gs, AreGroups(gs)
    PROVE  /\ IsList(EntryLists(gs)) /\ Len(EntryLists(gs)) = Len(gs) /\ Len(gs) \in Nat
           /\ \A i \in 1 .. Len(gs) : /\ EntryLists(gs)[i] = Codec!EntryItems(gs[i])
                                      /\ Whole(s, EntryLists(gs)[i], 1)
                                      /\ EntryLists(gs)[i] # <<>>
           /\ Whole(s, EntriesOf(gs), 1) /\ EntriesOf(gs) # <<>>
           /\ IsList(Joined(EntryLists(gs)))
<1> DEFINE xs == EntryLists(gs)
<1>1. Len(gs) \in Nat
  BY DEF AreGroups, IsList
<1>2. IsList(xs) /\ Len(xs) = Len(gs)
  BY <1>1 DEF IsList, EntryLists
<1>3. \A i \in 1 .. Len(gs) : xs[i] = Codec!EntryItems(gs[i])
  BY DEF EntryLists
<1>4. ASSUME NEW i \in 1 .. Len(gs)
      PROVE  Whole(s, xs[i], 1) /\ xs[i] # <<>>
  <2> DEFINE g == gs[i]
             x == EntryPairs(g)
  <2>1. IsGroup(g)
    BY DEF AreGroups
  <2> HIDE DEF g
  <2>2. Codec!EntryItems(g) = <<Codec!MapOf(2)>> \o x
    BY <2>1, EntryForm
  <2>3. Given(s, x, 2, "i", EntryValue(g, "i"))
    BY <2>1, EntryGiven
  <2> HIDE DEF x
  <2>4. Whole(s, <<Codec!MapOf(2)>> \o x, 1) /\ <<Codec!MapOf(2)>> \o x # <<>>
    BY <2>3, MapWhole
  <2>5. xs[i] = Codec!EntryItems(g)
    BY <1>3 DEF g
  <2> QED BY <2>2, <2>4, <2>5
<1> HIDE DEF xs
<1>5. LET w == <<Codec!ArrayOf(Len(xs))>> \o Joined(xs)
      IN Whole(s, w, 1) /\ w # <<>> /\ IsList(Joined(xs))
  BY <1>2, <1>4, ArrayWhole
<1>6. Whole(s, EntriesOf(gs), 1) /\ EntriesOf(gs) # <<>> /\ IsList(Joined(xs))
  BY <1>2, <1>5 DEF EntriesOf, xs
<1> QED BY <1>1, <1>2, <1>3, <1>4, <1>6 DEF xs

\* The pairs of the token's map before its entries, how many they are and what
\* they give.
MemoOf(t) == Value(t.memo, Codec!Text(t.memo))

HeadPairs(t) ==
    (Slot("m", <<Codec!Text(t.mint)>>) \o Slot("u", <<Codec!Text(t.unit)>>))
        \o Slot("d", MemoOf(t))

HeadCount(t) == 2 + Count(MemoOf(t))

HeadValue(t, name) ==
    IF "d" = name THEN MemoOf(t)
    ELSE IF "u" = name THEN <<Codec!Text(t.unit)>>
    ELSE IF "m" = name THEN <<Codec!Text(t.mint)>> ELSE <<>>

LEMMA HeadGiven ==
    ASSUME NEW s, Len(s) \in Nat, NEW t, NEW name
    PROVE  Given(s, HeadPairs(t), HeadCount(t), name, HeadValue(t, name))
<1> DEFINE e == <<Codec!Text(t.mint)>>
           z == <<Codec!Text(t.unit)>>
           r == MemoOf(t)
<1>1. Whole(s, e, 1) /\ Whole(s, z, 1) /\ (r = <<>> \/ Whole(s, r, 1))
  BY Leaves, WholeOne, ValueWhole DEF MemoOf
<1>2. Count(e) = 1 /\ Count(z) = 1
  BY SlotOne
<1>3. HeadPairs(t) = (Slot("m", e) \o Slot("u", z)) \o Slot("d", r)
      /\ HeadCount(t) = 2 + Count(r)
      /\ HeadValue(t, name) = IF "d" = name THEN r ELSE IF "u" = name THEN z
                              ELSE IF "m" = name THEN e ELSE <<>>
  BY DEF HeadPairs, HeadCount, HeadValue
<1> HIDE DEF e, z, r
<1>4. Given(s, Slot("m", e), 1, name, IF "m" = name THEN e ELSE <<>>)
  BY <1>1, <1>2, SlotGives
<1>5. Given(s, Slot("m", e) \o Slot("u", z), 2, name,
            IF "u" = name THEN z ELSE IF "m" = name THEN e ELSE <<>>)
  <2>1. "u" = name => (IF "m" = name THEN e ELSE <<>>) = <<>>
    OBVIOUS
  <2>2. Given(s, Slot("m", e) \o Slot("u", z), 1 + Count(z), name,
              IF "u" = name THEN z ELSE IF "m" = name THEN e ELSE <<>>)
    BY <1>1, <1>4, <2>1, SlotBehind
  <2>3. 1 + 1 = 2
    OBVIOUS
  <2> QED BY <1>2, <2>2, <2>3
<1>6. "d" = name => (IF "u" = name THEN z ELSE IF "m" = name THEN e ELSE <<>>) = <<>>
  OBVIOUS
<1>7. Given(s, (Slot("m", e) \o Slot("u", z)) \o Slot("d", r), 2 + Count(r), name,
            IF "d" = name THEN r ELSE
            IF "u" = name THEN z ELSE IF "m" = name THEN e ELSE <<>>)
  BY <1>1, <1>5, <1>6, SlotBehind
<1> QED BY <1>3, <1>7

\* The entries come after them.
LEMMA EntriesGiven ==
    ASSUME NEW s, Len(s) \in Nat, NEW gs, AreGroups(gs), NEW name
    PROVE  Given(s, Slot("t", EntriesOf(gs)), 1, name,
                 IF "t" = name THEN EntriesOf(gs) ELSE <<>>)
<1> DEFINE z == EntriesOf(gs)
<1>1. Whole(s, z, 1) /\ z # <<>>
  BY EntryListsWell
<1> HIDE DEF z
<1>2. Given(s, Slot("t", z), Count(z), name, IF "t" = name THEN z ELSE <<>>)
  BY <1>1, SlotGives
<1>3. Count(z) = 1
  BY <1>1 DEF Count
<1> QED BY <1>2, <1>3 DEF z

LEMMA TokenForm ==
    ASSUME NEW t, t.proofs \in Seq(Proof), \A p \in Range(t.proofs) : p.id \notin NotHex
    PROVE  Codec!EncodeToken(t) =
               <<Codec!MapOf(HeadCount(t) + 1)>>
                   \o (HeadPairs(t) \o Slot("t", EntriesOf(Codec!Grouped(t.proofs))))
<1> DEFINE gs == Codec!Grouped(t.proofs)
           j == Joined(EntryLists(gs))
           r == Slot("d", MemoOf(t))
           k == Codec!MapOf(HeadCount(t) + 1)
           a == Codec!Key("m")
           b == Codec!Text(t.mint)
           c == Codec!Key("u")
           d == Codec!Text(t.unit)
           e == Codec!Key("t")
           f == Codec!ArrayOf(Len(gs))
<1>1. AreGroups(gs)
  BY GroupsAre DEF AreGroups
<1>2. DOMAIN gs = 1 .. Len(gs)
  BY <1>1, ListIsSeq DEF AreGroups
<1>3. Codec!EncodeToken(t) = ((Five(k, a, b, c, d) \o r) \o <<e, f>>) \o j
  <2>1. 3 + Codec!Present(<<t.memo>>) = HeadCount(t) + 1
    <3> DEFINE n == Count(MemoOf(t))
    <3>1. Codec!Present(<<t.memo>>) = n
      BY PresentIs DEF MemoOf
    <3>2. n \in Nat
      BY DEF Count
    <3>3. HeadCount(t) = 2 + n
      BY DEF HeadCount
    <3> HIDE DEF n
    <3> QED BY <3>1, <3>2, <3>3
  <2>2. Codec!Optional(t.memo, "d", <<Codec!Text(t.memo)>>) = r
    BY OptionalIs DEF MemoOf
  <2>3. ~\E p \in Codec!Range(t.proofs) : p.id \in NotHex
    BY CodecLists
  <2>4. j = Joined([i \in DOMAIN gs |-> Codec!EntryItems(gs[i])])
    BY <1>2 DEF EntryLists
  <2> HIDE DEF gs, r
  <2>5. Codec!EncodeToken(t) =
            ((Five(Codec!MapOf(3 + Codec!Present(<<t.memo>>)), a, b, c, d)
                \o Codec!Optional(t.memo, "d", <<Codec!Text(t.memo)>>))
                \o <<e, f>>) \o j
    BY <2>3, <2>4, CodecLists DEF Codec!EncodeToken, Five, gs
  <2> QED BY <2>1, <2>2, <2>5
<1>4. IsList(j) /\ IsList(r)
  <2>1. Len(<<>>) \in Nat
    OBVIOUS
  <2>2. IsList(j)
    BY <1>1, <2>1, EntryListsWell
  <2> QED BY <2>2, ValueIsList, SlotIsList DEF MemoOf
<1>5. HeadPairs(t) = ((One(a) \o One(b)) \o (One(c) \o One(d))) \o r
  BY SlotOne DEF HeadPairs, One
<1>6. Slot("t", EntriesOf(gs)) = One(e) \o (One(f) \o j)
  <2>1. EntriesOf(gs) # <<>>
    <3>1. Len(<<>>) \in Nat
      OBVIOUS
    <3> QED BY <1>1, <3>1, EntryListsWell
  <2>2. EntriesOf(gs) = One(f) \o j
    BY DEF EntriesOf, One
  <2> QED BY <2>1, <2>2 DEF Slot, One
<1>7. <<e, f>> = One(e) \o One(f)
  <2> HIDE DEF e, f
  <2> QED BY TwoOfThem DEF One
<1>8. Codec!EncodeToken(t) = ((Five(k, a, b, c, d) \o r) \o (One(e) \o One(f))) \o j
  BY <1>3, <1>7
<1> HIDE DEF a, b, c, d, e, f, j, k, r, gs
<1>8a. IsList(r)
  BY <1>4
<1>9a. Five(k, a, b, c, d) \o r = One(k) \o (((One(a) \o One(b)) \o (One(c) \o One(d))) \o r)
  BY <1>8a, TwoFields
<1> DEFINE h == One(k)
           y == (One(a) \o One(b)) \o (One(c) \o One(d))
           u == y \o r
           l == One(e) \o One(f)
<1>9. Five(k, a, b, c, d) \o r = h \o u
  BY <1>9a DEF h, u, y
<1>10. IsList(h) /\ IsList(y) /\ IsList(l)
  BY ListsOfOne, AfterTheOther
<1>11. IsList(u)
  <2> HIDE DEF y
  <2> QED BY <1>4, <1>10, AfterTheOther
<1>12. l \o j = Slot("t", EntriesOf(gs))
  <2>1. IsList(One(e)) /\ IsList(One(f))
    BY ListsOfOne
  <2> DEFINE v == One(e)
             w == One(f)
  <2>2. IsList(v) /\ IsList(w)
    BY <2>1
  <2> HIDE DEF v, w
  <2>3. (v \o w) \o j = v \o (w \o j)
    BY <1>4, <2>2, Regroup
  <2> QED BY <1>6, <2>3 DEF v, w
<1>13. HeadPairs(t) = u /\ Codec!EncodeToken(t) = ((h \o u) \o l) \o j
  BY <1>5, <1>8, <1>9
<1> HIDE DEF h, u, l, y
<1>14. Together(h, u, l, j)
  BY <1>4, <1>10, <1>11, FourTogether
<1>15. (u \o l) \o j = u \o (l \o j)
  BY SMTT(30), <1>4, <1>10, <1>11, Regroup
<1>16. Codec!EncodeToken(t) = h \o (u \o (l \o j))
  BY <1>13, <1>14, <1>15 DEF Together
<1>17. Codec!EncodeToken(t) = One(k) \o (HeadPairs(t) \o Slot("t", EntriesOf(gs)))
  BY <1>12, <1>13, <1>16 DEF h
<1> QED BY <1>17 DEF One, k, gs

----------
(* Reading the entries *)

\* Lists of the same items are the same.
LEMMA SameLists ==
    ASSUME NEW x, NEW y, IsList(x), IsList(y), Len(x) = Len(y),
           \A i \in 1 .. Len(x) : x[i] = y[i]
    PROVE  x = y
<1> DEFINE n == Len(x)
<1>1. x = [i \in 1 .. n |-> x[i]] /\ y = [i \in 1 .. n |-> y[i]]
  BY DEF IsList
<1>2. [i \in 1 .. n |-> x[i]] = [i \in 1 .. n |-> y[i]]
  OBVIOUS
<1> QED BY <1>1, <1>2

\* The entries that elements hold, of those that are maps.
EntryRow(s, els) ==
    LET maps == Kept(els, {i \in DOMAIN els : s[els[i]].k = "map"})
    IN [j \in DOMAIN maps |-> Codec!EntryAt(s, maps[j])]

\* Of a token's array no element is stepped over.
LEMMA EntriesAt ==
    ASSUME NEW s, Len(s) \in Nat, NEW gs, AreGroups(gs), NEW e \in Nat, NEW els,
           AreElements(s, e, EntryLists(gs), els), NEW r, r = EntryRow(s, els)
    PROVE  /\ IsList(r) /\ Len(r) = Len(els) /\ Len(r) <= Len(gs)
           /\ None \notin Codec!Range(r) =>
                  \A i \in 1 .. Len(r) : /\ i < Len(r) => r[i] = gs[i]
                                         /\ i = Len(r) => BeginsLike(r[i], gs[i])
           /\ e <= Len(s) + 1 => Len(r) = Len(gs) /\ (None \notin Codec!Range(r) => r = gs)
           /\ e <= Len(s) + 1 /\ (\A j \in 1 .. Len(gs) : Fits(gs[j])) =>
                  None \notin Codec!Range(r)
<1> DEFINE xs == EntryLists(gs)
           n == Len(els)
           T == {i \in DOMAIN els : s[els[i]].k = "map"}
           maps == Kept(els, T)
<1>1. /\ Len(xs) = Len(gs) /\ Len(gs) \in Nat
      /\ \A i \in 1 .. Len(gs) : xs[i] = Codec!EntryItems(gs[i]) /\ Whole(s, xs[i], 1)
  BY EntryListsWell
<1>2. /\ IsList(els) /\ n \in Nat /\ n <= Len(gs) /\ DOMAIN els = 1 .. n
  BY <1>1, ListIsSeq DEF AreElements, IsList
<1>3. ASSUME NEW i \in 1 .. n
      PROVE  /\ s[els[i]].k = "map"
             /\ Codec!EntryAt(s, els[i]) = None \/ BeginsLike(Codec!EntryAt(s, els[i]), gs[i])
             /\ (i < n \/ e <= Len(s) + 1) /\ Codec!EntryAt(s, els[i]) # None =>
                    Codec!EntryAt(s, els[i]) = gs[i]
             /\ e <= Len(s) + 1 /\ Fits(gs[i]) => Codec!EntryAt(s, els[i]) # None
  <2> DEFINE m == els[i]
             g == gs[i]
             w == Codec!EntryItems(g)
             l == Len(s)
             k == Len(w)
             t == Codec!EntryAt(s, m)
  <2>1. i \in 1 .. Len(gs)
    BY <1>1, <1>2
  <2>2. IsGroup(g)
    BY <2>1 DEF AreGroups
  <2>3. xs[i] = w /\ IsList(w)
    BY <1>1, <2>1 DEF Whole
  <2>4. m \in 1 .. l /\ Shows(s, m, w) /\ m + k <= e /\ (i < n => m + k <= l)
    BY <2>3 DEF AreElements
  <2>5. LET whole == m + k <= l + 1
        IN /\ s[m].k = "map"
           /\ t = None \/ BeginsLike(t, g)
           /\ whole /\ t # None => t = g
           /\ whole /\ Fits(g) => t # None
    BY <2>2, <2>4, EntryRead
  <2>6. i < n \/ e <= l + 1 => m + k <= l + 1
    <3>1. k \in Nat /\ l \in Nat /\ m \in Nat /\ e \in Nat /\ m + k <= e
      <4> HIDE DEF w
      <4> QED BY <2>3, <2>4 DEF IsList
    <3> HIDE DEF k, l, m
    <3> QED BY <2>4, <3>1
  <2> HIDE DEF t, m, k, l, g
  <2>7. /\ s[m].k = "map"
        /\ t = None \/ BeginsLike(t, g)
        /\ (i < n \/ e <= l + 1) /\ t # None => t = g
        /\ e <= l + 1 /\ Fits(g) => t # None
    BY <2>5, <2>6
  <2> QED BY <2>7 DEF t, m, g, l
<1>4. IsList(maps) /\ Len(maps) = n /\ \A i \in 1 .. n : maps[i] = els[i]
  <2>1. T \cap (1 .. n) = 1 .. n
    BY <1>2, <1>3
  <2>2. n \in 0 .. n
    BY <1>2
  <2> HIDE DEF T
  <2> QED BY <1>2, <2>1, <2>2, KeptFirst
<1>5. DOMAIN maps = 1 .. n
  BY <1>4, ListIsSeq
<1>6. r = [j \in 1 .. n |-> Codec!EntryAt(s, els[j])]
  <2>1. r = [j \in DOMAIN maps |-> Codec!EntryAt(s, maps[j])]
    BY DEF EntryRow
  <2> HIDE DEF maps, n
  <2> QED BY <1>4, <1>5, <2>1
<1> HIDE DEF maps
<1>7. IsList(r) /\ Len(r) = n /\ DOMAIN r = 1 .. n
      /\ \A i \in 1 .. n : r[i] = Codec!EntryAt(s, els[i])
  <2>1. n \in Nat
    BY <1>2
  <2> HIDE DEF n, T
  <2> QED BY <1>6, <2>1 DEF IsList
<1>8. None \notin Codec!Range(r) <=> \A i \in 1 .. n : r[i] # None
  BY <1>7 DEF Codec!Range
<1>9. \A i \in 1 .. n :
          /\ r[i] = None \/ BeginsLike(r[i], gs[i])
          /\ (i < n \/ e <= Len(s) + 1) /\ r[i] # None => r[i] = gs[i]
          /\ e <= Len(s) + 1 /\ Fits(gs[i]) => r[i] # None
  BY <1>3, <1>7
<1>10. ASSUME None \notin Codec!Range(r)
       PROVE  \A i \in 1 .. Len(r) : /\ i < Len(r) => r[i] = gs[i]
                                     /\ i = Len(r) => BeginsLike(r[i], gs[i])
  BY <1>7, <1>8, <1>9, <1>10
<1>11. ASSUME e <= Len(s) + 1
       PROVE  /\ n = Len(gs)
              /\ None \notin Codec!Range(r) => r = gs
              /\ (\A j \in 1 .. Len(gs) : Fits(gs[j])) => None \notin Codec!Range(r)
  <2>1. n = Len(gs)
    BY <1>1, <1>11 DEF AreElements
  <2>2. ASSUME None \notin Codec!Range(r) PROVE r = gs
    <3>1. \A i \in 1 .. Len(r) : r[i] = gs[i]
      BY <1>7, <1>8, <1>9, <1>11, <2>2
    <3>2. IsList(gs) /\ Len(r) = Len(gs)
      BY <1>7, <2>1 DEF AreGroups
    <3> QED BY <1>7, <3>1, <3>2, SameLists
  <2>3. ASSUME \A j \in 1 .. Len(gs) : Fits(gs[j]) PROVE None \notin Codec!Range(r)
    BY <1>8, <1>9, <1>11, <2>1, <2>3
  <2> QED BY <2>1, <2>2, <2>3
<1> QED BY <1>2, <1>7, <1>10, <1>11

\* What is read of the entries: a first part of the proofs, none when there is
\* none, and all of them where the stream goes to their end.
LEMMA EntriesRead ==
    ASSUME NEW s, Len(s) \in Nat, NEW gs, AreGroups(gs), NEW a \in 1 .. Len(s),
           Shows(s, a, EntriesOf(gs)), NEW r, r = EntryRow(s, Codec!Elements(s, a))
    PROVE  /\ Codec!CanEnter(s, a) /\ None \notin Codec!Range(r) =>
                  (gs = <<>> /\ r = <<>>) \/ BeginsLike(Joined(r), Joined(gs))
           /\ a + Len(EntriesOf(gs)) <= Len(s) + 1 =>
                  /\ Codec!CanEnter(s, a)
                  /\ None \notin Codec!Range(r) => r = gs
                  /\ (\A j \in 1 .. Len(gs) : Fits(gs[j])) => None \notin Codec!Range(r)
<1> DEFINE xs == EntryLists(gs)
           j == Joined(xs)
           els == Codec!Elements(s, a)
           e == a + 1 + Len(j)
<1>1. /\ IsList(xs) /\ Len(xs) = Len(gs) /\ Len(gs) \in Nat /\ IsList(j)
      /\ \A i \in 1 .. Len(xs) : Whole(s, xs[i], 1) /\ xs[i] # <<>>
  BY EntryListsWell
<1>2. EntriesOf(gs) = <<Codec!ArrayOf(Len(xs))>> \o j
  BY <1>1 DEF EntriesOf
<1> HIDE DEF xs
<1>3. /\ AreElements(s, e, xs, els)
      /\ Codec!CanEnter(s, a) <=> (xs = <<>> \/ els # <<>>)
  BY <1>1, <1>2, ElementsShown
<1>4. e \in Nat /\ e = a + Len(EntriesOf(gs))
  <2>1. Len(<<Codec!ArrayOf(Len(xs))>> \o j) = 1 + Len(j) /\ Len(j) \in Nat
    <3> HIDE DEF j
    <3> QED BY <1>1, Headed
  <2> DEFINE n == Len(j)
             v == Len(EntriesOf(gs))
  <2>2. v = 1 + n /\ n \in Nat /\ a \in Nat
    BY <1>2, <2>1
  <2> HIDE DEF n, v
  <2>3. a + 1 + n \in Nat /\ a + 1 + n = a + v
    BY <2>2
  <2> QED BY <2>3 DEF n, v
<1> HIDE DEF e, els, j
<1>5. /\ IsList(r) /\ Len(r) = Len(els) /\ Len(r) <= Len(gs)
      /\ None \notin Codec!Range(r) =>
             \A i \in 1 .. Len(r) : /\ i < Len(r) => r[i] = gs[i]
                                    /\ i = Len(r) => BeginsLike(r[i], gs[i])
      /\ e <= Len(s) + 1 => Len(r) = Len(gs) /\ (None \notin Codec!Range(r) => r = gs)
      /\ e <= Len(s) + 1 /\ (\A i \in 1 .. Len(gs) : Fits(gs[i])) =>
             None \notin Codec!Range(r)
  <2>1. AreElements(s, e, EntryLists(gs), els)
    BY <1>3 DEF xs
  <2>2. r = EntryRow(s, els)
    BY DEF els
  <2> QED BY <1>4, <2>1, <2>2, EntriesAt
<1>6. \A x : IsList(x) => (x = <<>> <=> Len(x) = 0)
  BY ListIsSeq, EmptySeq
<1>7. IsList(els) /\ IsList(gs)
  BY <1>3 DEF AreElements, AreGroups
<1>8. ASSUME Codec!CanEnter(s, a), None \notin Codec!Range(r)
      PROVE  (gs = <<>> /\ r = <<>>) \/ BeginsLike(Joined(r), Joined(gs))
  <2>1. CASE xs = <<>>
    <3>1. Len(gs) = 0
      BY <1>1, <2>1
    <3>2. Len(r) = 0
      <4> DEFINE k == Len(r)
      <4>1. k \in Nat /\ k <= 0
        BY <1>5, <3>1 DEF IsList
      <4> HIDE DEF k
      <4>2. k = 0
        BY <4>1
      <4> QED BY <4>2 DEF k
    <3> QED BY <1>5, <1>6, <1>7, <3>1, <3>2
  <2>2. CASE xs # <<>>
    <3>1. r # <<>>
      BY <1>3, <1>5, <1>6, <1>7, <1>8, <2>2
    <3>2. \A i \in 1 .. Len(gs) : IsList(gs[i])
      BY DEF AreGroups, IsGroup
    <3>3. BeginsLike(Joined(r), Joined(gs))
      BY <1>5, <1>7, <1>8, <3>1, <3>2, JoinedBegins
    <3> QED BY <3>3
  <2> QED BY <2>1, <2>2
<1>9. ASSUME e <= Len(s) + 1
      PROVE  Codec!CanEnter(s, a)
  <2>1. Len(els) = Len(xs)
    BY <1>1, <1>5, <1>9
  <2> QED BY <1>1, <1>3, <1>6, <1>7, <2>1
<1> QED BY <1>4, <1>5, <1>8, <1>9

----------
(* Reading the token *)

\* When the array of the entries is found, the fields before it are whole; and
\* it is found in a whole token.
LEMMA HeadRead ==
    ASSUME NEW s, Len(s) \in Nat, 1 \in 1 .. Len(s), NEW t, t.proofs \in Seq(Proof),
           \A p \in Range(t.proofs) : p.id \notin NotHex, Shows(s, 1, Codec!EncodeToken(t))
    PROVE  LET gs    == Codec!Grouped(t.proofs)
               a     == Codec!Inside(s, 1, "t", "array")
               whole == Len(Codec!EncodeToken(t)) <= Len(s)
           IN /\ AreGroups(gs)
              /\ a # 0 => /\ a \in 1 .. Len(s) /\ Shows(s, a, EntriesOf(gs))
                          /\ Codec!Field(s, 1, "m", "text") = t.mint
                          /\ Codec!Field(s, 1, "u", "text") = t.unit
                          /\ Codec!Field(s, 1, "d", "text") = t.memo
                          /\ whole => a + Len(EntriesOf(gs)) <= Len(s) + 1
              /\ whole => a # 0
<1> DEFINE gs == Codec!Grouped(t.proofs)
           a == Codec!Inside(s, 1, "t", "array")
           z == EntriesOf(gs)
           h == HeadPairs(t)
           x == Slot("t", z)
           c == HeadCount(t)
           w == Codec!EncodeToken(t)
           lo == 1 + 1
           mid == lo + Len(h)
           hi == mid + Len(x)
           j == Joined(EntryLists(gs))
           b == Codec!ArrayOf(Len(gs))
<1>1. AreGroups(gs)
  BY GroupsAre DEF AreGroups
<1>2. w = <<Codec!MapOf(c + 1)>> \o (h \o x)
  BY TokenForm
<1>3. z = <<b>> \o j /\ IsList(j) /\ z # <<>>
  BY <1>1, EntryListsWell DEF EntriesOf
<1>4. \A name : Given(s, h, c, name, HeadValue(t, name))
  BY HeadGiven
<1> HIDE DEF gs, j
<1>5. \A name : Given(s, x, 1, name, IF "t" = name THEN z ELSE <<>>)
  BY <1>1, EntriesGiven
<1> HIDE DEF z, h, x, c, b
<1>6. IsList(h) /\ IsList(x)
  BY <1>4, <1>5 DEF Given, Whole
<1>7. Len(w) = 1 + (Len(h) + Len(x)) /\ Len(h) \in Nat /\ Len(x) \in Nat
  <2> DEFINE y == h \o x
  <2>1. IsList(y) /\ Len(y) = Len(h) + Len(x)
    BY <1>6, AfterTheOther
  <2> HIDE DEF y
  <2>2. Len(<<Codec!MapOf(c + 1)>> \o y) = 1 + Len(y)
    BY <2>1, Headed
  <2> QED BY <1>2, <1>6, <2>1, <2>2 DEF IsList, y
<1>8. Shows(s, 1, <<Codec!MapOf(c + 1)>> \o (h \o x))
  BY <1>2
<1> HIDE DEF w
<1>9. ASSUME NEW name
      PROVE  /\ (IF "t" = name THEN z ELSE <<>>) = <<>> =>
                    FieldAt(s, 1, lo, mid, name, HeadValue(t, name))
             /\ HeadValue(t, name) = <<>> =>
                    FieldAt(s, 1, mid, hi, name, IF "t" = name THEN z ELSE <<>>)
  <2> DEFINE v == HeadValue(t, name)
             y == IF "t" = name THEN z ELSE <<>>
  <2>1. Given(s, h, c, name, v) /\ Given(s, x, 1, name, y)
    BY <1>4, <1>5
  <2> HIDE DEF v, y
  <2>2. /\ y = <<>> => FieldAt(s, 1, 1 + 1, 1 + 1 + Len(h), name, v)
        /\ v = <<>> => FieldAt(s, 1, 1 + 1 + Len(h), 1 + 1 + Len(h) + Len(x), name, y)
    BY <1>8, <2>1, MapParts
  <2> QED BY <2>2 DEF v, y
<1>10. lo \in Nat /\ mid \in Nat /\ hi \in Nat
       /\ (Len(w) <= Len(s) => hi <= Len(s) + 1)
  <2> DEFINE n == Len(h)
             m == Len(x)
             k == Len(w)
             l == Len(s)
  <2>1. k = 1 + (n + m) /\ n \in Nat /\ m \in Nat /\ l \in Nat
    BY <1>7
  <2> HIDE DEF n, m, k, l
  <2>2. 1 + 1 \in Nat /\ 1 + 1 + n \in Nat /\ 1 + 1 + n + m \in Nat
        /\ (k <= l => 1 + 1 + n + m <= l + 1)
    BY <2>1
  <2> QED BY <2>2 DEF n, m, k, l
<1>11. FieldAt(s, 1, lo, mid, "m", <<Codec!Text(t.mint)>>)
       /\ FieldAt(s, 1, lo, mid, "u", <<Codec!Text(t.unit)>>)
       /\ FieldAt(s, 1, lo, mid, "d", Value(t.memo, Codec!Text(t.memo)))
  <2>1. FieldAt(s, 1, lo, mid, "m", HeadValue(t, "m"))
        /\ FieldAt(s, 1, lo, mid, "u", HeadValue(t, "u"))
        /\ FieldAt(s, 1, lo, mid, "d", HeadValue(t, "d"))
    BY <1>9
  <2> QED BY <2>1 DEF HeadValue, MemoOf
<1>12. FieldAt(s, 1, mid, hi, "t", z)
  <2>1. HeadValue(t, "t") = <<>>
    BY DEF HeadValue
  <2> QED BY <1>9, <2>1
<1> HIDE DEF lo, mid, hi
<1>13. mid <= Len(s) + 1 =>
           /\ Codec!Field(s, 1, "m", "text") = t.mint
           /\ Codec!Field(s, 1, "u", "text") = t.unit
           /\ Codec!Field(s, 1, "d", "text") = t.memo
  BY <1>10, <1>11, TextRead, OptionalText
<1>14. b.k = "array"
  BY Containers DEF b
<1> HIDE DEF a
<1>15. /\ a # 0 => a \in 1 .. Len(s) /\ a > mid /\ a + Len(z) <= hi /\ Shows(s, a, z)
       /\ hi <= Len(s) + 1 => a # 0
  <2>1. FieldAt(s, 1, mid, hi, "t", <<b>> \o j)
    BY <1>3, <1>12
  <2>2. LET p == Codec!Inside(s, 1, "t", b.k)
        IN /\ p # 0 => /\ p \in 1 .. Len(s) /\ p > mid
                       /\ p + Len(<<b>> \o j) <= hi /\ Shows(s, p, <<b>> \o j)
           /\ hi <= Len(s) + 1 => p # 0
    BY <1>3, <1>10, <2>1, FieldInside
  <2> QED BY <1>3, <1>14, <2>2 DEF a
<1>16. ASSUME a # 0
       PROVE  mid <= Len(s) + 1 /\ (Len(w) <= Len(s) => a + Len(z) <= Len(s) + 1)
  <2> DEFINE n == Len(z)
             l == Len(s)
  <2>1. n \in Nat
    <3>1. IsList(<<b>> \o j)
      BY <1>3, Headed
    <3> QED BY <1>3, <3>1 DEF IsList
  <2>2. a \in 1 .. l /\ a > mid /\ a + n <= hi /\ l \in Nat
    BY <1>15, <1>16
  <2> HIDE DEF n, l
  <2>3. mid <= l + 1 /\ (hi <= l + 1 => a + n <= l + 1)
    BY <1>10, <2>1, <2>2
  <2> QED BY <1>10, <2>3 DEF n, l
<1> QED BY <1>1, <1>10, <1>13, <1>15, <1>16 DEF a, w, z, gs

\* A token's record with its proofs grouped.
LEMMA SortedIs ==
    ASSUME NEW t, IsToken(t)
    PROVE  LET ps == Joined(Codec!Grouped(t.proofs))
           IN Codec!Sorted(t) = [mint |-> t.mint, unit |-> t.unit, memo |-> t.memo,
                                 proofs |-> ps]
              /\ Codec!Sorted(t).proofs = ps
<1> DEFINE ps == Joined(Codec!Grouped(t.proofs))
           u == [mint |-> t.mint, unit |-> t.unit, memo |-> t.memo, proofs |-> t.proofs]
<1>1. Codec!Sorted(t) = [t EXCEPT !.proofs = ps]
  BY CodecLists DEF Codec!Sorted
<1>2. t = u
  BY DEF IsToken
<1> HIDE DEF ps
<1>3. [u EXCEPT !.proofs = ps] = [mint |-> t.mint, unit |-> t.unit, memo |-> t.memo,
                                  proofs |-> ps]
  OBVIOUS
<1>4. [t EXCEPT !.proofs = ps] = [u EXCEPT !.proofs = ps]
  BY <1>2
<1>5. Codec!Sorted(t) = [mint |-> t.mint, unit |-> t.unit, memo |-> t.memo, proofs |-> ps]
  BY <1>1, <1>3, <1>4
<1> QED BY <1>5 DEF ps

\* What begins a list is its first part, with the last proof trimmed.
LEMMA BeginsCut ==
    ASSUME NEW r, NEW g, BeginsLike(r, g), IsList(g)
    PROVE  LET k == Len(r)
           IN /\ k <= Len(g)
              /\ SubSeq(r, 1, k - 1) = SubSeq(g, 1, k - 1)
              /\ k > 0 => Codec!Trimmed(r[k], g[k])
<1> DEFINE k == Len(r)
           n == Len(g)
<1>1. k \in Nat /\ n \in Nat /\ k \in 1 .. n
  BY DEF BeginsLike, IsList
<1>2. \A i \in 1 .. k : /\ i < k => r[i] = g[i]
                        /\ i = k => Partly(r[i], g[i])
  BY DEF BeginsLike
<1> HIDE DEF k, n
<1>3. k <= n /\ k \in 1 .. k /\ \A i \in 1 .. (k - 1) : i \in 1 .. k /\ i < k
  BY <1>1
<1>4. \A i \in 1 .. (k - 1) : r[i] = g[i]
  BY <1>2, <1>3
<1>5. Codec!Trimmed(r[k], g[k])
  BY <1>2, <1>3 DEF Partly
<1>6. SubSeq(r, 1, k - 1) = SubSeq(g, 1, k - 1)
  <2> DEFINE q == k - 1
             S == {r[i] : i \in 1 .. q}
             x == SubSeq(r, 1, q)
             y == SubSeq(g, 1, q)
  <2>1. q \in Int /\ 1 \in Int
    BY <1>1
  <2>2. \A i \in 1 .. q : r[i] = g[i]
    BY <1>4
  <2> HIDE DEF q
  <2>3. /\ x \in Seq(S) /\ Len(x) = (IF 1 <= q THEN q - 1 + 1 ELSE 0)
        /\ \A i \in 1 .. q - 1 + 1 : x[i] = r[1 + i - 1]
    BY <2>1, SubSeqProperties
  <2>4. /\ y \in Seq(S) /\ Len(y) = (IF 1 <= q THEN q - 1 + 1 ELSE 0)
        /\ \A i \in 1 .. q - 1 + 1 : y[i] = g[1 + i - 1]
    <3>1. \A i \in 1 .. q : g[i] \in S
      BY <2>2
    <3> QED BY <2>1, <3>1, SubSeqProperties
  <2> HIDE DEF x, y, S
  <2>5. q - 1 + 1 = q /\ \A i \in 1 .. q : 1 + i - 1 = i
    BY <2>1
  <2>6. \A i \in 1 .. q : x[i] = y[i]
    <3> TAKE i \in 1 .. q
    <3>1. x[i] = r[1 + i - 1] /\ y[i] = g[1 + i - 1] /\ 1 + i - 1 = i
      BY <2>3, <2>4, <2>5
    <3> QED BY <2>2, <3>1
  <2>7. Len(x) = (IF 1 <= q THEN q ELSE 0) /\ Len(y) = (IF 1 <= q THEN q ELSE 0)
    BY <2>3, <2>4, <2>5
  <2>8. \A i \in 1 .. Len(x) : i \in 1 .. q
    BY <2>1, <2>7
  <2>9. x = y
    BY <2>3, <2>4, <2>6, <2>7, <2>8, SeqIsList, SameLists
  <2> QED BY <2>9 DEF x, y, q
<1> QED BY <1>3, <1>5, <1>6 DEF k, n

\* A token is written as a list of items.
LEMMA TokenIsList ==
    ASSUME NEW t, t.proofs \in Seq(Proof), \A p \in Range(t.proofs) : p.id \notin NotHex
    PROVE  LET x == Codec!EncodeToken(t)
           IN IsList(x) /\ Len(x) \in Nat \ {0} /\ x \in Seq(Range(x))
<1> DEFINE gs == Codec!Grouped(t.proofs)
           u == HeadPairs(t)
           v == Slot("t", EntriesOf(gs))
           k == Codec!MapOf(HeadCount(t) + 1)
           x == u \o v
<1>1. Codec!EncodeToken(t) = <<k>> \o x
  BY TokenForm
<1>2. AreGroups(gs) /\ Len(<<>>) \in Nat
  BY GroupsAre DEF AreGroups
<1> HIDE DEF gs
<1>3. Given(<<>>, u, HeadCount(t), "m", HeadValue(t, "m"))
  BY <1>2, HeadGiven
<1>4. Given(<<>>, v, 1, "m", IF "t" = "m" THEN EntriesOf(gs) ELSE <<>>)
  BY <1>2, EntriesGiven
<1> HIDE DEF u, v
<1>5. IsList(x)
  BY <1>3, <1>4, AfterTheOther DEF Given, Whole
<1> HIDE DEF x, k
<1>6. IsList(<<k>> \o x) /\ Len(<<k>> \o x) = 1 + Len(x) /\ Len(x) \in Nat
  BY <1>5, Headed
<1> DEFINE n == Len(x)
<1>7. n \in Nat /\ Len(Codec!EncodeToken(t)) = 1 + n
  BY <1>1, <1>6
<1> HIDE DEF n
<1>8. Len(Codec!EncodeToken(t)) \in Nat \ {0}
  BY <1>7
<1> QED BY <1>1, <1>6, <1>8, ListIsSeq

\* What begins a list of proofs has prices.
LEMMA BeginsPriced ==
    ASSUME NEW r, NEW g, BeginsLike(r, g), Len(g) \in Nat,
           \A i \in 1 .. Len(g) : g[i] \in Proof
    PROVE  Priced(r)
<1> DEFINE k == Len(r)
           n == Len(g)
<1>1. /\ IsList(r) /\ k \in 1 .. n /\ n \in Nat
      /\ \A i \in 1 .. k : /\ i < k => r[i] = g[i]
                           /\ i = k => HasPrice(r[i])
  BY DEF BeginsLike, Partly
<1>2. \A i \in 1 .. n : HasPrice(g[i])
  BY DEF HasPrice, Proof
<1> HIDE DEF k, n
<1>3. ASSUME NEW i \in 1 .. k
      PROVE  HasPrice(r[i])
  <2>1. k \in Int /\ i \in 1 .. n /\ (i < k \/ i = k)
    BY <1>1, <1>3
  <2>2. CASE i < k
    <3>1. r[i] = g[i]
      BY <1>1, <1>3, <2>2
    <3>2. HasPrice(g[i])
      BY <1>2, <2>1
    <3> QED BY <3>1, <3>2
  <2>3. CASE i = k
    BY <1>1, <1>3, <2>3
  <2> QED BY <2>1, <2>2, <2>3
<1> QED BY <1>1, <1>3 DEF Priced, k

\* A token that was cut reads as its first proofs or not at all, and a whole
\* one reads whole unless an amount is beyond what the code reads.
LEMMA TokenRead ==
    ASSUME NEW s, Len(s) \in Nat, s = <<>> <=> Len(s) = 0, NEW t, IsToken(t),
           \A p \in Range(t.proofs) : p.id \notin NotHex, Shows(s, 1, Codec!EncodeToken(t))
    PROVE  LET r == Codec!DecodeToken(s)
           IN /\ Codec!IsFirstProofs(r, t)
              /\ r # None => Priced(r.proofs)
              /\ Len(Codec!EncodeToken(t)) <= Len(s) =>
                     ((\A p \in Range(t.proofs) : ~(p.amount > Codec!MaxInt32)) =>
                         r = Codec!Sorted(t))
<1> DEFINE gs == Codec!Grouped(t.proofs)
           r == Codec!DecodeToken(s)
           a == Codec!Inside(s, 1, "t", "array")
           mint == Codec!Field(s, 1, "m", "text")
           unit == Codec!Field(s, 1, "u", "text")
           memo == Codec!Field(s, 1, "d", "text")
           row  == EntryRow(s, Codec!Elements(s, a))
           whole == Len(Codec!EncodeToken(t)) <= Len(s)
           small == \A p \in Range(t.proofs) : ~(p.amount > Codec!MaxInt32)
<1>1. r = IF s = <<>> THEN None
          ELSE IF mint = None \/ unit = None \/ a = 0 THEN None
          ELSE IF ~Codec!CanEnter(s, a) \/ None \in Codec!Range(row) THEN None
          ELSE [mint |-> mint, unit |-> unit, memo |-> memo, proofs |-> Joined(row)]
  BY CodecLists DEF Codec!DecodeToken, EntryRow
<1>2. t.proofs \in Seq(Proof) /\ t.mint # None /\ t.unit # None
  <2>1. t.mint \in Strings /\ t.unit \in Strings /\ t.proofs \in Seq(Proof)
    BY DEF IsToken
  <2>2. None \notin Strings
    BY NoneApart
  <2> QED BY <2>1, <2>2
<1>3. CASE s = <<>>
  <2>1. r = None
    BY <1>1, <1>3
  <2>2. ~whole
    <3> DEFINE n == Len(Codec!EncodeToken(t))
    <3>1. n \in Nat \ {0} /\ Len(s) = 0
      BY <1>2, <1>3, TokenIsList
    <3> DEFINE m == Len(s)
    <3>2. m = 0
      BY <3>1
    <3> HIDE DEF m, n
    <3>3. ~(n <= m)
      BY <3>1, <3>2
    <3> QED BY <3>3 DEF m, n
  <2>3. Codec!IsFirstProofs(r, t)
    BY <2>1 DEF Codec!IsFirstProofs
  <2> QED BY <2>1, <2>2, <2>3
<1>4. CASE s # <<>>
  <2>1. 1 \in 1 .. Len(s)
    <3> DEFINE l == Len(s)
    <3>1. l \in Nat /\ l # 0
      BY <1>4
    <3> HIDE DEF l
    <3>2. 1 \in 1 .. l
      BY <3>1
    <3> QED BY <3>2 DEF l
  <2>2. /\ AreGroups(gs)
        /\ a # 0 => /\ a \in 1 .. Len(s) /\ Shows(s, a, EntriesOf(gs))
                    /\ mint = t.mint /\ unit = t.unit /\ memo = t.memo
                    /\ whole => a + Len(EntriesOf(gs)) <= Len(s) + 1
        /\ whole => a # 0
    BY <1>2, <2>1, HeadRead
  <2>3. gs \in Seq(Seq(Proof)) /\ Joined(gs) \in Seq(Proof)
    <3>1. IsList(gs) /\ \A j \in 1 .. Len(gs) : gs[j] \in Seq(Proof)
      BY <2>2, ListOver DEF AreGroups, IsGroup
    <3> HIDE DEF gs
    <3>2. gs \in Seq(Seq(Proof)) /\ Len(gs) \in Nat
      BY <3>1, ListOver DEF IsList
    <3>3. 0 \in 0 .. Len(gs)
      BY <3>2
    <3> QED BY <3>2, <3>3, FlatStarts
  <2>4. \A j \in 1 .. Len(gs) : \A i \in 1 .. Len(gs[j]) : gs[j][i] \in Range(t.proofs)
    BY <1>2, GroupsAre
  <2> HIDE DEF gs, a
  <2>5. ASSUME a # 0
        PROVE  /\ Codec!CanEnter(s, a) /\ None \notin Codec!Range(row) =>
                      (gs = <<>> /\ row = <<>>) \/ BeginsLike(Joined(row), Joined(gs))
               /\ whole => /\ Codec!CanEnter(s, a)
                           /\ None \notin Codec!Range(row) => row = gs
                           /\ (\A j \in 1 .. Len(gs) : Fits(gs[j])) =>
                                  None \notin Codec!Range(row)
    <3>1. /\ Codec!CanEnter(s, a) /\ None \notin Codec!Range(row) =>
                 (gs = <<>> /\ row = <<>>) \/ BeginsLike(Joined(row), Joined(gs))
          /\ a + Len(EntriesOf(gs)) <= Len(s) + 1 =>
                 /\ Codec!CanEnter(s, a)
                 /\ None \notin Codec!Range(row) => row = gs
                 /\ (\A j \in 1 .. Len(gs) : Fits(gs[j])) => None \notin Codec!Range(row)
      BY <2>2, <2>5, EntriesRead
    <3> QED BY <2>2, <2>5, <3>1
  <2>6. small => \A j \in 1 .. Len(gs) : Fits(gs[j])
    BY <2>4 DEF Fits
  <2>7. /\ Codec!Sorted(t) = [mint |-> t.mint, unit |-> t.unit, memo |-> t.memo,
                              proofs |-> Joined(gs)]
        /\ Codec!Sorted(t).proofs = Joined(gs)
    BY SortedIs DEF gs
  <2> HIDE DEF row, mint, unit, memo, whole, small, r
  <2>8. ASSUME r # None
        PROVE  /\ r = [mint |-> t.mint, unit |-> t.unit, memo |-> t.memo, proofs |-> Joined(row)]
               /\ (gs = <<>> /\ row = <<>>) \/ BeginsLike(Joined(row), Joined(gs))
    BY <1>1, <2>2, <2>5, <2>8
  <2>9. Codec!IsFirstProofs(r, t)
    <3>1. CASE r = None
      BY <3>1 DEF Codec!IsFirstProofs
    <3>2. CASE r # None
      <4> DEFINE x == Joined(row)
                 y == Joined(gs)
                 k == Len(x)
      <4>1. r = [mint |-> t.mint, unit |-> t.unit, memo |-> t.memo, proofs |-> x]
        BY <2>8, <3>2
      <4>2. /\ k <= Len(y)
            /\ SubSeq(x, 1, k - 1) = SubSeq(y, 1, k - 1)
            /\ k > 0 => Codec!Trimmed(x[k], y[k])
        <5>1. CASE gs = <<>> /\ row = <<>>
          <6>1. x = <<>> /\ y = <<>>
            <7>1. <<>> \in Seq(Seq({})) /\ Len(<<>>) = 0
              OBVIOUS
            <7>2. Joined(<<>>) = Flat(<<>>, Len(<<>>)) /\ Flat(<<>>, 0) = <<>>
              BY <7>1, FlatDef
            <7> QED BY <5>1, <7>1, <7>2
          <6>2. k = 0 /\ Len(y) = 0
            BY <6>1
          <6> HIDE DEF x, y, k
          <6> QED BY <6>1, <6>2
        <5>2. CASE BeginsLike(x, y)
          <6> HIDE DEF x
          <6>1. IsList(y)
            BY <2>3, SeqIsList
          <6> HIDE DEF y
          <6> QED BY <5>2, <6>1, BeginsCut
        <5> QED BY <2>8, <3>2, <5>1, <5>2
      <4> HIDE DEF x
      <4>3. r.proofs = x /\ r.mint = t.mint /\ r.unit = t.unit /\ r.memo = t.memo
        BY <4>1
      <4>4. Codec!Sorted(t).proofs = y
        BY <2>7
      <4> HIDE DEF y
      <4> QED BY <4>2, <4>3, <4>4 DEF Codec!IsFirstProofs
    <3> QED BY <3>1, <3>2
  <2>10. ASSUME whole, small
         PROVE  r = Codec!Sorted(t)
    <3>1. a # 0 /\ mint = t.mint /\ unit = t.unit /\ memo = t.memo
      BY <2>2, <2>10
    <3>2. Codec!CanEnter(s, a) /\ None \notin Codec!Range(row) /\ row = gs
      BY <2>5, <2>6, <2>10, <3>1
    <3>3. r = [mint |-> t.mint, unit |-> t.unit, memo |-> t.memo, proofs |-> Joined(gs)]
      BY <1>1, <1>2, <1>4, <3>1, <3>2
    <3> QED BY <2>7, <3>3
  <2>11. ASSUME r # None
         PROVE  Priced(r.proofs)
    <3> DEFINE x == Joined(row)
               y == Joined(gs)
    <3>1. r.proofs = x
      BY <2>8, <2>11
    <3>2. CASE gs = <<>> /\ row = <<>>
      <4>1. <<>> \in Seq(Seq({})) /\ Len(<<>>) = 0
        OBVIOUS
      <4>2. x = <<>>
        BY <3>2, <4>1, FlatDef
      <4>3. Priced(<<>>)
        BY DEF Priced, IsList
      <4> QED BY <3>1, <4>2, <4>3
    <3>3. CASE BeginsLike(x, y)
      <4>1. Len(y) \in Nat /\ \A i \in 1 .. Len(y) : y[i] \in Proof
        BY <2>3, OfTheSet
      <4> HIDE DEF x, y
      <4> QED BY <3>1, <3>3, <4>1, BeginsPriced
    <3> QED BY <2>8, <2>11, <3>2, <3>3
  <2> QED BY <2>9, <2>10, <2>11 DEF r, whole, small
<1> QED BY <1>3, <1>4

----------
\* A V3 token reads back as it was written, one without a unit in sat; with an amount
\* out of range it is refused.
LEMMA PlainReads ==
    ASSUME NEW t, IsToken(t)
    PROVE  Json!TokenFrom(Json!TokenJson(t)) =
               IF Codec!Readable(t)
               THEN [t EXCEPT !.unit = IF @ = "" THEN "sat" ELSE @] ELSE None
<1> DEFINE arr == [i \in DOMAIN t.proofs |-> Json!ProofJson(t.proofs[i])]
           entry == [mint |-> t.mint, proofs |-> arr]
           o == [unit |-> IF t.unit = "" THEN None ELSE t.unit, memo |-> t.memo]
           m == Json!Written(o)
           w == Json!TokenJson(t)
           unit == IF t.unit = "" THEN "sat" ELSE t.unit
<1>1. /\ t = [mint |-> t.mint, unit |-> t.unit, memo |-> t.memo, proofs |-> t.proofs]
      /\ t.unit # None /\ t.proofs \in Seq(Proof) /\ t.proofs # None
  <2>1. None \notin Strings /\ None \notin Seq(Proof)
    BY NoneApart
  <2> QED BY <2>1 DEF IsToken
<1>2. Json!ProofsFrom(arr) = IF Codec!Readable(t) THEN t.proofs ELSE None
  <2>1. Codec!Readable(t) <=> \A p \in Range(t.proofs) : p.amount \in Json!Int32
    <3>1. \A p \in Range(t.proofs) : p.amount \in Nat
      <4>1. \A p \in Range(t.proofs) : p \in Proof
        BY <1>1, OfTheSet
      <4> QED BY <4>1 DEF Proof
    <3>3. Codec!Readable(t) <=> \A p \in Range(t.proofs) : p.amount <= Codec!MaxInt32
      BY DEF Codec!Readable, Codec!Range, Range
    <3> QED BY <3>1, <3>3, OneBound
  <2> QED BY <1>1, <2>1, JsonReads
<1>3. w = [key \in {"token"} \cup DOMAIN m |-> IF key = "token" THEN <<entry>> ELSE m[key]]
  BY DEF Json!TokenJson
<1>4. /\ "unit" \in DOMAIN m <=> t.unit # ""
      /\ "unit" \in DOMAIN m => m["unit"] = t.unit
      /\ "memo" \in DOMAIN m <=> t.memo # None
      /\ "memo" \in DOMAIN m => m["memo"] = t.memo
  <2>1. DOMAIN o = {"unit", "memo"} /\ o["memo"] = t.memo
        /\ o["unit"] = IF t.unit = "" THEN None ELSE t.unit
    OBVIOUS
  <2>2. m = Json!Written(o)
    OBVIOUS
  <2> HIDE DEF o, m
  <2>3. /\ "unit" \in DOMAIN m <=> o["unit"] # None
        /\ "unit" \in DOMAIN m => m["unit"] = o["unit"]
        /\ "memo" \in DOMAIN m <=> o["memo"] # None
        /\ "memo" \in DOMAIN m => m["memo"] = o["memo"]
    BY <2>1, <2>2, WrittenHas
  <2>4. o["unit"] # None <=> t.unit # ""
    BY <1>1, <2>1
  <2>5. t.unit # "" => o["unit"] = t.unit
    BY <2>1
  <2> QED BY <2>1, <2>3, <2>4, <2>5
<1> HIDE DEF m, arr
<1>5. /\ "token" \in DOMAIN w /\ w["token"] = <<entry>>
      /\ "unit" \in DOMAIN w <=> "unit" \in DOMAIN m
      /\ "unit" \in DOMAIN w => w["unit"] = m["unit"]
      /\ "memo" \in DOMAIN w <=> "memo" \in DOMAIN m
      /\ "memo" \in DOMAIN w => w["memo"] = m["memo"]
  BY <1>3
<1>6. entry.mint = t.mint /\ entry.proofs = arr /\ DOMAIN entry = {"mint", "proofs"}
  OBVIOUS
<1> HIDE DEF entry, w
<1>7. w.token[1] = entry /\ w.token # <<>>
  BY <1>5
<1>8. Json!Or(w, "unit", "sat") = unit
  BY <1>4, <1>5 DEF Json!Or
<1>9. Json!Get(w, "memo") = t.memo
  BY <1>4, <1>5 DEF Json!Get
<1>10. Json!TokenFrom(w) =
           IF Codec!Readable(t)
           THEN [mint |-> t.mint, unit |-> Json!Or(w, "unit", "sat"),
                 memo |-> Json!Get(w, "memo"), proofs |-> t.proofs]
           ELSE None
  BY <1>1, <1>2, <1>5, <1>6, <1>7 DEF Json!TokenFrom, Json!Has
<1>11. [t EXCEPT !.unit = IF @ = "" THEN "sat" ELSE @] =
           [mint |-> t.mint, unit |-> unit, memo |-> t.memo, proofs |-> t.proofs]
  <2>1. \A a, b, c, d, e : [[mint |-> a, unit |-> b, memo |-> c, proofs |-> d] EXCEPT !.unit = e] =
            [mint |-> a, unit |-> e, memo |-> c, proofs |-> d]
    OBVIOUS
  <2>2. [t EXCEPT !.unit = unit] =
            [mint |-> t.mint, unit |-> unit, memo |-> t.memo, proofs |-> t.proofs]
    <3> DEFINE a == t.mint
               b == t.unit
               c == t.memo
               d == t.proofs
    <3>1. t = [mint |-> a, unit |-> b, memo |-> c, proofs |-> d]
      BY <1>1
    <3> HIDE DEF a, b, c, d, unit
    <3>2. [t EXCEPT !.unit = unit] = [mint |-> a, unit |-> unit, memo |-> c, proofs |-> d]
      BY <2>1, <3>1
    <3> QED BY <3>2 DEF a, c, d
  <2> QED BY <2>2
<1> QED BY <1>8, <1>9, <1>10, <1>11 DEF w

\* The V3 form of a token.
LEMMA PlainForm ==
    \A t : DocOf(t, "v3").form = "v3" /\ DocOf(t, "v3").json = Json!TokenJson(t)
<1>1. \A t : DocOf(t, "v3") = [form |-> "v3", json |-> Json!TokenJson(t)]
  BY DEF DocOf
<1> QED BY <1>1

\* The start of a V4 token reads as its first proofs or not at all, the whole
\* of one as the token.
LEMMA StartReads ==
    ASSUME NEW t, IsToken(t), \A p \in Range(t.proofs) : p.id \notin NotHex,
           NEW s, IsStart(s, Codec!EncodeToken(t))
    PROVE  LET r == Codec!DecodeToken(s)
           IN /\ Codec!IsFirstProofs(r, t)
              /\ r # None => Priced(r.proofs)
              /\ s = Codec!EncodeToken(t) /\ Codec!Readable(t) => r = Codec!Sorted(t)
<1> DEFINE x == Codec!EncodeToken(t)
           r == Codec!DecodeToken(s)
<1>1. t.proofs \in Seq(Proof)
  BY DEF IsToken
<1>2. IsList(x) /\ x \in Seq(Range(x)) /\ Len(x) \in Nat
  BY <1>1, TokenIsList
<1>3. PICK n \in 0 .. Len(x) : s = SubSeq(x, 1, n)
  BY DEF IsStart
<1> HIDE DEF x
<1>4. s \in Seq(Range(x))
  BY <1>2, <1>3
<1>5. Len(s) \in Nat /\ (s = <<>> <=> Len(s) = 0)
  BY <1>4
<1>6. Shows(s, 1, x)
  BY <1>2, <1>3, ShowsItself
<1>7. /\ Codec!IsFirstProofs(r, t)
      /\ r # None => Priced(r.proofs)
      /\ Len(x) <= Len(s) =>
             ((\A p \in Range(t.proofs) : ~(p.amount > Codec!MaxInt32)) => r = Codec!Sorted(t))
  BY <1>5, <1>6, TokenRead DEF x
<1> HIDE DEF r
<1>8. Codec!Readable(t) => \A p \in Range(t.proofs) : ~(p.amount > Codec!MaxInt32)
  <2>1. \A p \in Range(t.proofs) : p.amount \in Nat
    <3>1. \A p \in Range(t.proofs) : p \in Proof
      BY <1>1, OfTheSet
    <3> QED BY <3>1 DEF Proof
  <2>2. Codec!Readable(t) => \A p \in Range(t.proofs) : p.amount <= Codec!MaxInt32
    BY DEF Codec!Readable, Codec!Range, Range
  <2>3. \A a \in Nat : a <= Codec!MaxInt32 => ~(a > Codec!MaxInt32)
    BY SMT DEF Codec!MaxInt32
  <2> QED BY <2>1, <2>2, <2>3
<1>9. s = x => Len(x) <= Len(s)
  <2> DEFINE l == Len(x)
  <2>1. l \in Nat
    BY <1>2
  <2> HIDE DEF l
  <2>2. l <= l
    BY <2>1
  <2> QED BY <2>2 DEF l
<1> QED BY <1>7, <1>8, <1>9 DEF x, r

\* What the token in hand reads as.
LEMMA TokenReads ==
    ASSUME TokenWell, token # None
    PROVE  LET read == TokenIn(token.doc)
               t    == token.whole
           IN /\ read # None => Priced(read.proofs)
              /\ token.doc.form = "v3" =>
                     read = IF Codec!Readable(t)
                            THEN [t EXCEPT !.unit = IF @ = "" THEN "sat" ELSE @] ELSE None
              /\ token.doc.form # "v3" =>
                     /\ Codec!IsFirstProofs(read, t)
                     /\ Fresh /\ Codec!Readable(t) => read = Codec!Sorted(t)
<1> DEFINE doc  == token.doc
           t    == token.whole
           read == TokenIn(doc)
<1>1. /\ IsToken(t)
      /\ \/ doc = DocOf(t, "v3")
         \/ /\ doc = [form |-> "v4", items |-> doc.items]
            /\ IsStart(doc.items, Codec!EncodeToken(t))
            /\ \A p \in Range(t.proofs) : p.id \notin NotHex
  BY DEF TokenWell
<1>2. Fresh => doc.items = Codec!EncodeToken(t)
  BY DEF Fresh
<1> HIDE DEF doc, t
<1>3. CASE doc = DocOf(t, "v3")
  <2>1. doc.form = "v3" /\ doc.json = Json!TokenJson(t)
    BY <1>3, PlainForm
  <2>2. read = Json!TokenFrom(Json!TokenJson(t))
    BY <2>1 DEF TokenIn
  <2> HIDE DEF read
  <2>3. read = IF Codec!Readable(t)
               THEN [t EXCEPT !.unit = IF @ = "" THEN "sat" ELSE @] ELSE None
    BY <1>1, <2>2, PlainReads
  <2>4. /\ t = [mint |-> t.mint, unit |-> t.unit, memo |-> t.memo, proofs |-> t.proofs]
        /\ t.proofs \in Seq(Proof)
    BY <1>1 DEF IsToken
  <2>5. read # None => read.proofs = t.proofs
    BY <2>3, <2>4
  <2>6. read # None => Priced(read.proofs)
    BY <2>4, <2>5, ProofsPriced
  <2> QED BY <2>1, <2>3, <2>6 DEF doc, t, read
<1>4. CASE /\ doc = [form |-> "v4", items |-> doc.items]
           /\ IsStart(doc.items, Codec!EncodeToken(t))
           /\ \A p \in Range(t.proofs) : p.id \notin NotHex
  <2>1. doc.form = "v4"
    BY <1>4
  <2>2. read = Codec!DecodeToken(doc.items)
    BY <2>1 DEF TokenIn
  <2> HIDE DEF read
  <2>3. /\ Codec!IsFirstProofs(read, t)
        /\ read # None => Priced(read.proofs)
        /\ doc.items = Codec!EncodeToken(t) /\ Codec!Readable(t) => read = Codec!Sorted(t)
    BY <1>1, <1>4, <2>2, StartReads
  <2> QED BY <1>2, <2>1, <2>3 DEF doc, t, read
<1> QED BY <1>1, <1>3, <1>4

\* A token that is written can be read.
LEMMA WritesWell ==
    ASSUME NEW t, IsToken(t), NEW form \in {"v3", "v4"},
           form = "v3" \/ \A p \in Range(t.proofs) : p.id \notin NotHex
    PROVE  LET doc == DocOf(t, form)
           IN \/ doc = DocOf(t, "v3")
              \/ /\ doc = [form |-> "v4", items |-> doc.items]
                 /\ IsStart(doc.items, Codec!EncodeToken(t))
                 /\ \A p \in Range(t.proofs) : p.id \notin NotHex
<1>1. CASE form = "v4"
  <2> DEFINE x == Codec!EncodeToken(t)
  <2>1. DocOf(t, "v4") = [form |-> "v4", items |-> x]
    BY DEF DocOf
  <2>2. \A p \in Range(t.proofs) : p.id \notin NotHex
    BY <1>1
  <2>3. x \in Seq(Range(x))
    <3>1. t.proofs \in Seq(Proof)
      BY DEF IsToken
    <3> QED BY <2>2, <3>1, TokenIsList
  <2> HIDE DEF x
  <2>4. Len(x) \in 0 .. Len(x) /\ x = SubSeq(x, 1, Len(x))
    BY <2>3
  <2>5. IsStart(x, x)
    BY <2>4 DEF IsStart
  <2> QED BY <1>1, <2>1, <2>2, <2>5 DEF x
<1>2. CASE form = "v3"
  BY <1>2
<1> QED BY <1>1, <1>2

----------
(* The wallet's proofs and its flash *)

\* What is known stays known.
LEMMA KnownStays ==
    ASSUME NEW ks, NEW more, Range(ks) \subseteq Range(more), NEW ps, OfKnown(ks, ps)
    PROVE  OfKnown(more, ps)
BY DEF OfKnown

\* So does it of fewer proofs, or of those of two lists.
LEMMA KnownParts ==
    ASSUME NEW ks, NEW S, NEW u \in Seq(S), OfKnown(ks, u)
    PROVE  /\ \A T : Kept(u, T) \in Seq(S) /\ OfKnown(ks, Kept(u, T))
           /\ \A v \in Seq(S) : OfKnown(ks, v) => u \o v \in Seq(S) /\ OfKnown(ks, u \o v)
<1>1. \A T : Kept(u, T) \in Seq(S) /\ Range(Kept(u, T)) \subseteq Range(u)
  BY KeptRange
<1>2. \A v \in Seq(S) : u \o v \in Seq(S) /\ Range(u \o v) = Range(u) \cup Range(v)
  BY RangeJoined
<1> QED BY <1>1, <1>2 DEF OfKnown

\* Proofs that are saved read back; only a legacy id keeps them from it.
LEMMA SavesWell ==
    ASSUME NEW ps \in Seq(Proof), NEW ks, OfKnown(ks, ps), SaveProofs(ps),
           Loaded(flash) \in Seq(Proof), OfKnown(ks, Loaded(flash))
    PROVE  /\ Loaded(flash') \in Seq(Proof) /\ OfKnown(ks, Loaded(flash'))
           /\ saved' \in BOOLEAN
           /\ saved' => Loaded(flash') = ps
           /\ ~saved' => \E p \in Range(ps) : p.id \in NotHex
<1> DEFINE blob == Blob!ToBlob(ps)
<1>1. /\ flash' = IF blob = None THEN flash ELSE [form |-> "blob", data |-> blob]
      /\ saved' = (blob # None)
  BY DEF SaveProofs
<1>2. CASE \A p \in Range(ps) : p.id \notin NotHex
  <2>1. blob # None /\ Blob!FromBlob(blob) = ps
    BY <1>2, BlobReadsBack
  <2> HIDE DEF blob
  <2>2. flash' = [form |-> "blob", data |-> blob]
    BY <1>1, <2>1
  <2>3. Loaded(flash') = Blob!FromBlob(blob)
    BY <2>2 DEF Loaded
  <2> QED BY <1>1, <2>1, <2>3
<1>3. CASE \E p \in Range(ps) : p.id \in NotHex
  <2>1. blob = None
    BY <1>3 DEF Blob!ToBlob, Blob!Range, Range
  <2> HIDE DEF blob
  <2> QED BY <1>1, <1>3, <2>1
<1> QED BY <1>2, <1>3

\* The wallet starts well.
LEMMA InitInv ==
    ASSUME Init
    PROVE  Inv
<1>1. PICK start \in Starts :
          /\ known = start.known
          /\ proofs = start.own
          /\ counters = [id \in Range(IdOrder) |-> 0]
          /\ flash = IF start.json
                     THEN [form |-> "json",
                           data |-> [i \in DOMAIN start.own |-> Json!ProofJson(start.own[i])]]
                     ELSE [form |-> "blob", data |-> Blob!ToBlob(start.own)]
          /\ saved = TRUE /\ stale = FALSE
          /\ job = None
          /\ token = IF start.foreign = None THEN None
                     ELSE [doc |-> DocOf(start.foreign, start.form), whole |-> start.foreign,
                           coins |-> start.foreign.proofs]
          /\ quote = [paid |-> 0, issued |-> 0, view |-> start.view]
          /\ paid = [u \in Units |-> 0] /\ forfeit = [u \in Units |-> 0]
          /\ ops = 0
  BY DEF Init
<1>2. /\ AreTheMints(start.known)
      /\ start.own \in Seq(Proof) /\ OfKnown(start.known, start.own)
      /\ \A p \in Range(start.own) : p.amount <= MaxInt
      /\ start.json \in BOOLEAN /\ start.form \in {"v3", "v4"}
      /\ start.view \in {"pair", "legacy", "both"}
      /\ start.json \/ \A p \in Range(start.own) : p.id \notin NotHex
      /\ start.foreign # None =>
             /\ IsToken(start.foreign)
             /\ start.form = "v3" \/ \A p \in Range(start.foreign.proofs) : p.id \notin NotHex
  BY StartsAssumption
<1>3. WalletWell
  <2>1. counters \in [Ids -> Nat]
    BY <1>1 DEF Ids
  <2> QED BY <1>1, <1>2, <2>1 DEF WalletWell
<1>4. FlashWell
  <2> DEFINE arr == [i \in DOMAIN start.own |-> Json!ProofJson(start.own[i])]
             blob == Blob!ToBlob(start.own)
  <2>1. Loaded(flash) = start.own
    <3>1. CASE start.json
      <4>1. flash = [form |-> "json", data |-> arr]
        BY <1>1, <3>1
      <4> HIDE DEF arr
      <4>2. Loaded(flash) = Json!ProofsFrom(arr)
        BY <4>1 DEF Loaded
      <4>3. \A p \in Range(start.own) : p.amount \in Json!Int32
        <5>1. \A p \in Range(start.own) : p \in Proof
          BY <1>2, OfTheSet
        <5> QED BY <1>2, <5>1, OneBound DEF Proof
      <4>4. Json!ProofsFrom(arr) = start.own
        BY <1>2, <4>3, JsonReads DEF arr
      <4> QED BY <4>2, <4>4
    <3>2. CASE ~start.json
      <4>1. flash = [form |-> "blob", data |-> blob]
        BY <1>1, <3>2
      <4> HIDE DEF blob
      <4>2. Loaded(flash) = Blob!FromBlob(blob)
        BY <4>1 DEF Loaded
      <4>3. Blob!FromBlob(blob) = start.own
        BY <1>2, <3>2, BlobReadsBack DEF blob
      <4> QED BY <4>2, <4>3
    <3> QED BY <3>1, <3>2
  <2> QED BY <1>1, <1>2, <2>1 DEF FlashWell, FlashReadsBack
<1>5. MintWell
  BY <1>1, <1>2, BoundsAssumption DEF MintWell
<1>6. TokenWell
  <2> DEFINE t == start.foreign
             doc == DocOf(t, start.form)
  <2>1. CASE start.foreign # None
    <3>1. token = [doc |-> doc, whole |-> t, coins |-> t.proofs]
      BY <1>1, <2>1
    <3>2. IsToken(t)
      BY <1>2, <2>1
    <3>3. \/ doc = DocOf(t, "v3")
          \/ /\ doc = [form |-> "v4", items |-> doc.items]
             /\ IsStart(doc.items, Codec!EncodeToken(t))
             /\ \A p \in Range(t.proofs) : p.id \notin NotHex
      BY <1>2, <2>1, <3>2, WritesWell
    <3> HIDE DEF doc, t
    <3>4. token.doc = doc /\ token.whole = t /\ token.coins = t.proofs
      BY <3>1
    <3> QED BY <3>1, <3>2, <3>3, <3>4 DEF TokenWell
  <2>2. CASE start.foreign = None
    BY <1>1, <2>2 DEF TokenWell
  <2> QED BY <2>1, <2>2
<1>7. JobWell
  BY <1>1 DEF JobWell
<1> QED BY <1>3, <1>4, <1>5, <1>6, <1>7 DEF Inv

----------
(* The steps of the wallet *)

\* What an untouched part of the state keeps.
LEMMA SameWallet ==
    ASSUME WalletWell, UNCHANGED <<known, proofs, counters>>
    PROVE  WalletWell'
BY DEF WalletWell

\* An untouched flash holds what it held.
LEMMA SameFlash ==
    ASSUME FlashWell, UNCHANGED <<known, proofs, flash, saved, stale>>
    PROVE  FlashWell'
BY DEF FlashWell, FlashReadsBack, Loaded

\* Learning more of the mint's keysets costs no proof its own.
LEMMA MoreKnown ==
    ASSUME WalletWell, FlashWell, UNCHANGED <<proofs, flash, saved, stale>>,
           AreTheMints(known'), Range(known) \subseteq Range(known'),
           counters' \in [Ids -> Nat]
    PROVE  WalletWell' /\ FlashWell'
<1>1. WalletWell'
  BY KnownStays DEF WalletWell
<1>2. Loaded(flash') = Loaded(flash)
  BY DEF Loaded
<1>3. Loaded(flash) \in Seq(Proof) /\ OfKnown(known, Loaded(flash))
  BY DEF FlashWell
<1>4. OfKnown(known', Loaded(flash))
  BY <1>3, KnownStays
<1> QED BY <1>1, <1>2, <1>3, <1>4 DEF FlashWell, FlashReadsBack

\* The mint's books stay as they are when nobody writes in them,
LEMMA SameMint ==
    ASSUME MintWell, UNCHANGED <<mintVars, ops>>
    PROVE  MintWell'
BY DEF MintWell, mintVars

\* also when a new flow is counted.
LEMMA OneMoreStep ==
    ASSUME MintWell, UNCHANGED mintVars, Begin
    PROVE  MintWell'
<1>1. ops' = ops + 1 /\ ops < MaxOps /\ ops \in 0 .. MaxOps /\ MaxOps \in Nat
  BY BoundsAssumption DEF Begin, MintWell
<1>2. ops' \in 0 .. MaxOps
  BY <1>1
<1> QED BY <1>2 DEF MintWell, mintVars

\* So does the token in hand.
LEMMA SameToken ==
    ASSUME TokenWell, UNCHANGED token
    PROVE  TokenWell'
BY DEF TokenWell

\* An idle wallet has no job to be wrong about.
LEMMA NoJob ==
    ASSUME job' = None
    PROVE  JobWell'
BY DEF JobWell

\* Restarting, asking, giving up, and a payment to the quote.
LEMMA RebootInv ==
    ASSUME Inv, Reboot
    PROVE  Inv'
<1>1. /\ job = None /\ Begin /\ UNCHANGED <<known, counters, flash, job, token, mintVars>>
      /\ proofs' = Loaded(flash) /\ stale' = (stale \/ ~saved) /\ saved' = TRUE
  BY DEF Reboot, Begin
<1>2. Loaded(flash) \in Seq(Proof) /\ OfKnown(known, Loaded(flash))
  BY DEF Inv, FlashWell
<1>3. Loaded(flash') = Loaded(flash)
  BY <1>1 DEF Loaded
<1>4. WalletWell'
  BY <1>1, <1>2 DEF Inv, WalletWell
<1>5. FlashWell'
  <2>1. stale' \in BOOLEAN
    BY <1>1
  <2> QED BY <1>1, <1>2, <1>3, <2>1 DEF FlashWell, FlashReadsBack
<1>6. MintWell' /\ TokenWell' /\ JobWell'
  BY <1>1, OneMoreStep, SameToken, NoJob DEF Inv
<1> QED BY <1>4, <1>5, <1>6 DEF Inv

\* Showing a payment request changes no money.
LEMMA AskInv ==
    ASSUME Inv, NEW r, Ask(r)
    PROVE  Inv'
<1>1. /\ UNCHANGED <<known, counters, proofs, flash, saved, stale, token, mintVars>>
      /\ job' = None /\ ops' = 1
  BY DEF Ask, storeVars
<1>2. ops' \in 0 .. MaxOps
  BY <1>1, BoundsAssumption
<1>3. MintWell'
  BY <1>1, <1>2 DEF Inv, MintWell, mintVars
<1> QED BY <1>1, <1>3, SameWallet, SameFlash, SameToken, NoJob DEF Inv

\* A flow that is given up leaves everything but the counters.
LEMMA GiveUpInv ==
    ASSUME Inv, GiveUp, UNCHANGED <<known, ops>>, counters' \in [Ids -> Nat]
    PROVE  Inv'
<1>1. /\ UNCHANGED <<known, ops, proofs, flash, saved, stale, token, mintVars>>
      /\ job' = None
  BY DEF GiveUp, storeVars
<1>2. WalletWell'
  BY <1>1 DEF Inv, WalletWell
<1> QED BY <1>1, <1>2, SameFlash, SameMint, SameToken, NoJob DEF Inv

\* A payment to the quote.
LEMMA PayQuoteInv ==
    ASSUME Inv, NEW n \in 1 .. MaxPaid, PayQuote(n)
    PROVE  Inv'
<1>1. /\ Begin /\ UNCHANGED <<known, counters, proofs, flash, saved, stale, job, token>>
      /\ job = None /\ quote' = [quote EXCEPT !.paid = @ + n] /\ UNCHANGED <<paid, forfeit>>
  BY DEF PayQuote, storeVars, Begin
<1>2. MintWell'
  <2>1. ops' = ops + 1 /\ ops < MaxOps /\ ops \in 0 .. MaxOps /\ MaxOps \in Nat
    BY <1>1, BoundsAssumption DEF Begin, MintWell, Inv
  <2>2. ops' \in 0 .. MaxOps
    BY <2>1
  <2>3. /\ quote = [paid |-> quote.paid, issued |-> quote.issued, view |-> quote.view]
        /\ quote.paid \in Nat /\ quote.issued \in Nat /\ quote.issued <= quote.paid
        /\ quote.view \in {"pair", "legacy", "both"}
        /\ paid \in [Units -> Nat] /\ forfeit \in [Units -> Nat]
    BY DEF Inv, MintWell
  <2> DEFINE p == quote.paid
             i == quote.issued
             v == quote.view
  <2>4. quote' = [paid |-> p + n, issued |-> i, view |-> v]
    BY <1>1, <2>3
  <2>5. quote'.paid = p + n /\ quote'.issued = i /\ quote'.view = v
    BY <2>4
  <2>6. n \in Nat
    BY BoundsAssumption
  <2> HIDE DEF p, i, v
  <2>7. p + n \in Nat /\ i \in Nat /\ i <= p + n
    BY <2>3, <2>6 DEF p, i
  <2>8. v \in {"pair", "legacy", "both"}
    BY <2>3 DEF v
  <2> QED BY <1>1, <2>2, <2>3, <2>4, <2>5, <2>7, <2>8 DEF MintWell
<1> QED BY <1>1, <1>2, SameWallet, SameFlash, SameToken, NoJob DEF Inv

----------
\* A token in the form the invariant asks for.
LEMMA NewToken ==
    ASSUME NEW t, IsToken(t), NEW form \in {"v3", "v4"},
           form = "v3" \/ \A p \in Range(t.proofs) : p.id \notin NotHex,
           NEW coins, token' = [doc |-> DocOf(t, form), whole |-> t, coins |-> coins]
    PROVE  TokenWell'
<1> DEFINE doc == DocOf(t, form)
<1>1. \/ doc = DocOf(t, "v3")
      \/ /\ doc = [form |-> "v4", items |-> doc.items]
         /\ IsStart(doc.items, Codec!EncodeToken(t))
         /\ \A p \in Range(t.proofs) : p.id \notin NotHex
  BY WritesWell
<1>2. token' = [doc |-> doc, whole |-> t, coins |-> coins]
  OBVIOUS
<1> HIDE DEF doc
<1>3. token'.doc = doc /\ token'.whole = t /\ token'.coins = coins
  BY <1>2
<1> QED BY <1>1, <1>2, <1>3 DEF TokenWell

\* Proofs leave for a token.
LEMMA StickupInv ==
    ASSUME Inv, NEW unit \in Units, Stickup(unit)
    PROVE  Inv'
<1> DEFINE drained == OfUnit(known, proofs, unit)
           whole   == [mint |-> "mint", unit |-> unit, memo |-> None, proofs |-> drained]
           rest    == Without(proofs, drained)
<1>1. /\ Begin
      /\ \A p \in Range(drained) : p.id \notin NotHex
      /\ token' = [doc |-> DocOf(whole, "v4"), whole |-> whole, coins |-> drained]
      /\ SaveProofs(rest)
      /\ proofs' = IF saved' THEN rest ELSE proofs
      /\ job = None /\ UNCHANGED <<known, counters, stale, job, mintVars>>
  BY DEF Stickup, Begin
<1>2. /\ AreTheMints(known) /\ proofs \in Seq(Proof) /\ OfKnown(known, proofs)
      /\ Loaded(flash) \in Seq(Proof) /\ OfKnown(known, Loaded(flash)) /\ stale \in BOOLEAN
      /\ counters \in [Ids -> Nat]
  BY DEF Inv, WalletWell, FlashWell
<1>3. drained \in Seq(Proof)
  BY <1>2, KeptRange DEF OfUnit
<1>4. rest \in Seq(Proof) /\ OfKnown(known, rest) /\ Range(rest) \subseteq Range(proofs)
  <2> DEFINE T == {i \in DOMAIN proofs : proofs[i].secret \notin {q.secret : q \in Range(drained)}}
  <2>1. rest = Kept(proofs, T)
    BY DEF Without
  <2> HIDE DEF T, rest
  <2> QED BY <1>2, <2>1, KnownParts, KeptRange
<1> HIDE DEF rest, drained
<1>5. /\ Loaded(flash') \in Seq(Proof) /\ OfKnown(known, Loaded(flash'))
      /\ saved' \in BOOLEAN
      /\ saved' => Loaded(flash') = rest
      /\ ~saved' => \E p \in Range(rest) : p.id \in NotHex
  BY <1>1, <1>2, <1>4, SavesWell
<1>6. WalletWell'
  BY <1>1, <1>2, <1>4 DEF WalletWell
<1>7. FlashWell'
  BY <1>1, <1>2, <1>4, <1>5 DEF FlashWell, FlashReadsBack
<1>8. TokenWell'
  <2>1. whole.proofs = drained
    OBVIOUS
  <2>2. IsToken(whole)
    <3>1. unit \in Strings /\ "mint" \in Strings
      <4>1. \A i \in DOMAIN Keysets : Keysets[i] \in KeysetRecord
        BY MintAssumption
      <4> QED BY <4>1 DEF Units, KeysetRecord, Name, Strings
    <3>2. /\ whole.mint = "mint" /\ whole.unit = unit /\ whole.memo = None
          /\ whole = [mint |-> whole.mint, unit |-> whole.unit, memo |-> whole.memo,
                      proofs |-> whole.proofs]
      OBVIOUS
    <3> HIDE DEF whole
    <3> QED BY <1>3, <2>1, <3>1, <3>2 DEF IsToken
  <2> HIDE DEF whole
  <2> QED BY <1>1, <2>1, <2>2, NewToken
<1> QED BY <1>1, <1>6, <1>7, <1>8, OneMoreStep, NoJob DEF Inv

\* What another wallet makes of a token is one.
LEMMA ReformedWell ==
    ASSUME NEW t, IsToken(t),
           \A p \in Range(t.proofs) : p.id \notin NotHex, NEW form \in Forms
    PROVE  LET r == Reformed(t, form)
           IN IsToken(r) /\ \A p \in Range(r.proofs) : p.id \notin NotHex
<1> DEFINE r == Reformed(t, form)
           ps == t.proofs
           short == Shortened(ps)
           bare == Stripped(ps)
<1>0. /\ t = [mint |-> t.mint, unit |-> t.unit, memo |-> t.memo, proofs |-> ps]
      /\ t.mint \in Strings /\ t.unit \in Strings /\ t.memo \in Strings \cup {None}
      /\ ps \in Seq(Proof) /\ "" \in Strings /\ "usd" \in Strings
  BY DEF IsToken, Strings
<1>1. Len(ps) \in Nat /\ DOMAIN ps = 1 .. Len(ps)
      /\ \A i \in 1 .. Len(ps) : ps[i] \in Proof /\ ps[i] \in Range(ps)
  BY <1>0, InRange, OfTheSet
<1>2. form = "short" => r = [mint |-> t.mint, unit |-> t.unit, memo |-> t.memo, proofs |-> short]
  BY <1>0 DEF Reformed
<1>3. form = "bare" => r = [mint |-> t.mint, unit |-> t.unit, memo |-> t.memo, proofs |-> bare]
  BY <1>0 DEF Reformed
<1>4. form = "nounit" => r = [mint |-> t.mint, unit |-> "", memo |-> t.memo, proofs |-> ps]
  BY <1>0 DEF Reformed
<1>5. form = "usd" => r = [mint |-> t.mint, unit |-> "usd", memo |-> t.memo, proofs |-> ps]
  BY <1>0 DEF Reformed
<1>6. form = "v3" => r = t
  BY DEF Reformed
<1>7. short \in Seq(Proof) /\ \A p \in Range(short) : p.id \notin NotHex
  <2>1. \A p \in Proof : p.id \notin NotHex =>
            /\ [p EXCEPT !.id = SubSeq(@, 1, 1)] \in Proof
            /\ [p EXCEPT !.id = SubSeq(@, 1, 1)].id \notin NotHex
    BY ShortIds DEF Proof
  <2>2. \A i \in 1 .. Len(ps) : /\ [ps[i] EXCEPT !.id = SubSeq(@, 1, 1)] \in Proof
                                /\ [ps[i] EXCEPT !.id = SubSeq(@, 1, 1)].id \notin NotHex
    BY <1>1, <2>1
  <2> HIDE DEF short
  <2>0. short = [i \in DOMAIN ps |-> [ps[i] EXCEPT !.id = SubSeq(@, 1, 1)]]
    BY DEF short, Shortened
  <2>3. short \in Seq(Proof) /\ Len(short) = Len(ps)
    BY <1>1, <2>0, <2>2
  <2>4. \A i \in 1 .. Len(ps) : short[i].id \notin NotHex
    BY <1>1, <2>0, <2>2
  <2>5. \A p \in Range(short) : \E i \in 1 .. Len(short) : p = short[i]
    BY <2>3, InRange
  <2> QED BY <2>3, <2>4, <2>5
<1>8. bare \in Seq(Proof) /\ \A p \in Range(bare) : p.id \notin NotHex
  <2>1. \A p \in Proof : p.id \notin NotHex =>
            /\ [p EXCEPT !.dleq = None] \in Proof
            /\ [p EXCEPT !.dleq = None].id \notin NotHex
    BY DEF Proof
  <2>2. \A i \in 1 .. Len(ps) : /\ [ps[i] EXCEPT !.dleq = None] \in Proof
                                /\ [ps[i] EXCEPT !.dleq = None].id \notin NotHex
    BY <1>1, <2>1
  <2>3. bare = [i \in DOMAIN ps |-> [ps[i] EXCEPT !.dleq = None]]
    BY DEF Stripped
  <2> HIDE DEF bare
  <2>4. bare \in Seq(Proof) /\ Len(bare) = Len(ps)
    BY <1>1, <2>2, <2>3
  <2>5. \A i \in 1 .. Len(ps) : bare[i].id \notin NotHex
    BY <1>1, <2>2, <2>3
  <2>6. \A p \in Range(bare) : \E i \in 1 .. Len(bare) : p = bare[i]
    BY <2>4, InRange
  <2> QED BY <2>4, <2>5, <2>6
<1>9. form \in {"short", "bare", "nounit", "usd", "v3"}
  BY DEF Forms
<1> HIDE DEF r, short, bare, ps
<1>10. \A x \in Seq(Proof) : \A u \in Strings :
           LET s == [mint |-> t.mint, unit |-> u, memo |-> t.memo, proofs |-> x]
           IN s.proofs = x /\ IsToken(s)
  BY <1>0 DEF IsToken
<1>11. ps \in Seq(Proof) /\ \A p \in Range(ps) : p.id \notin NotHex
  BY <1>0 DEF ps
<1>12. IsToken(r) /\ \A p \in Range(r.proofs) : p.id \notin NotHex
  <2>1. CASE form = "short"
    BY <1>0, <1>2, <1>7, <1>10, <2>1
  <2>2. CASE form = "bare"
    BY <1>0, <1>3, <1>8, <1>10, <2>2
  <2>3. CASE form = "nounit"
    <3>1. \E u \in Strings : r = [mint |-> t.mint, unit |-> u, memo |-> t.memo, proofs |-> ps]
      BY <1>0, <1>4, <2>3
    <3> QED BY <1>10, <1>11, <3>1
  <2>4. CASE form = "usd"
    BY <1>0, <1>5, <1>10, <1>11, <2>4
  <2>5. CASE form = "v3"
    BY <1>6, <2>5 DEF ps
  <2> QED BY <1>9, <2>1, <2>2, <2>3, <2>4, <2>5
<1> QED BY <1>12 DEF r

\* Another wallet writes the token in its own form.
LEMMA ForwardInv ==
    ASSUME Inv, NEW form \in Forms, Forward(form)
    PROVE  Inv'
<1> DEFINE t == Reformed(token.whole, form)
           as == IF form \in {"v3", "nounit"} THEN "v3" ELSE "v4"
<1>1. /\ Begin /\ token # None /\ token.doc.form = "v4"
      /\ token' = [token EXCEPT !.doc = DocOf(t, as), !.whole = t]
      /\ UNCHANGED <<known, counters, proofs, flash, saved, stale, job, mintVars>>
      /\ job = None
  BY DEF Forward, Fresh, storeVars, Begin
<1>2. /\ token = [doc |-> token.doc, whole |-> token.whole, coins |-> token.coins]
      /\ IsToken(token.whole)
      /\ \A p \in Range(token.whole.proofs) : p.id \notin NotHex
  <2>1. token.doc # DocOf(token.whole, "v3")
    BY <1>1, PlainForm
  <2> QED BY <1>1, <2>1 DEF Inv, TokenWell
<1>3. IsToken(t) /\ \A p \in Range(t.proofs) : p.id \notin NotHex
  BY <1>2, ReformedWell
<1>4. as \in {"v3", "v4"}
  OBVIOUS
<1> HIDE DEF t, as
<1>5. token' = [doc |-> DocOf(t, as), whole |-> t, coins |-> token.coins]
  BY <1>1, <1>2
<1>6. TokenWell'
  BY <1>3, <1>4, <1>5, NewToken
<1> QED BY <1>1, <1>6, SameWallet, SameFlash, OneMoreStep, NoJob DEF Inv

\* A reader hands over the start of a token.
LEMMA CutInv ==
    ASSUME Inv, Cut
    PROVE  Inv'
<1>1. /\ Begin /\ token # None /\ token.doc.form = "v4"
      /\ token.doc.items = Codec!EncodeToken(token.whole)
      /\ UNCHANGED <<known, counters, proofs, flash, saved, stale, job, mintVars>>
      /\ job = None
  BY DEF Cut, Fresh, storeVars, Begin
<1>2. PICK n \in 0 .. (Len(token.doc.items) - 1) :
          token' = [token EXCEPT !.doc.items = SubSeq(@, 1, n)]
  BY DEF Cut
<1> DEFINE items == token.doc.items
           start == SubSeq(items, 1, n)
           doc == [form |-> "v4", items |-> start]
<1>3. /\ token = [doc |-> token.doc, whole |-> token.whole, coins |-> token.coins]
      /\ IsToken(token.whole)
      /\ \A p \in Range(token.whole.proofs) : p.id \notin NotHex
      /\ token.doc = [form |-> "v4", items |-> items]
  <2>1. token.doc # DocOf(token.whole, "v3")
    BY <1>1, PlainForm
  <2> QED BY <1>1, <2>1 DEF Inv, TokenWell
<1>4. token' = [token EXCEPT !.doc.items = start]
  BY <1>2
<1>5. IsStart(start, Codec!EncodeToken(token.whole))
  <2>1. token.whole.proofs \in Seq(Proof)
    BY <1>3 DEF IsToken
  <2>2. Len(Codec!EncodeToken(token.whole)) \in Nat
    BY <1>3, <2>1, TokenIsList
  <2>3. items = Codec!EncodeToken(token.whole)
    BY <1>1
  <2> DEFINE l == Len(items)
  <2>4. l \in Nat /\ n \in 0 .. (l - 1)
    BY <2>2, <2>3
  <2> HIDE DEF l
  <2>5. n \in 0 .. l
    BY <2>4
  <2>6. IsStart(start, items)
    BY <2>5 DEF IsStart, l
  <2> QED BY <2>3, <2>6
<1> HIDE DEF start
<1>6. token' = [doc |-> doc, whole |-> token.whole, coins |-> token.coins]
  BY <1>3, <1>4
<1>7. token'.doc = doc /\ token'.whole = token.whole /\ token'.coins = token.coins
      /\ doc.items = start
  BY <1>6
<1> HIDE DEF doc, items
<1>8. TokenWell'
  BY <1>3, <1>5, <1>6, <1>7 DEF TokenWell, doc
<1> QED BY <1>1, <1>8, SameWallet, SameFlash, OneMoreStep, NoJob DEF Inv

\* A token is decoded.
LEMMA ReceiveInv ==
    ASSUME Inv, Receive
    PROVE  Inv'
<1> DEFINE read == TokenIn(token.doc)
<1>1. /\ Begin /\ token # None
      /\ job' = [at |-> "decoded", read |-> read]
      /\ UNCHANGED <<known, counters, proofs, flash, saved, stale, token, mintVars>>
  BY DEF Receive, storeVars
<1>2. /\ read # None => Priced(read.proofs)
      /\ token.doc.form = "v3" =>
             read = IF Codec!Readable(token.whole)
                    THEN [token.whole EXCEPT !.unit = IF @ = "" THEN "sat" ELSE @] ELSE None
      /\ token.doc.form # "v3" =>
             /\ Codec!IsFirstProofs(read, token.whole)
             /\ Fresh /\ Codec!Readable(token.whole) => read = Codec!Sorted(token.whole)
  BY <1>1, TokenReads DEF Inv
<1> HIDE DEF read
<1>3. Priced(Offered)'
  <2>1. job'.read = read
    BY <1>1
  <2>2. Priced(<<>>)
    BY DEF Priced, IsList
  <2> QED BY <1>2, <2>1, <2>2 DEF Offered
<1>4. JobWell'
  <2>1. job'.at = "decoded" /\ job'.read = read /\ token' = token
    BY <1>1
  <2>2. token' # None /\ TokensReadBack'
    BY <1>1, <1>2, <2>1 DEF TokensReadBack, Fresh
  <2> QED BY <1>3, <2>1, <2>2 DEF JobWell
<1> QED BY <1>1, <1>4, SameWallet, SameFlash, OneMoreStep, SameToken DEF Inv

----------
(* Lists of inputs *)

\* Inputs that differ in neither id nor amount cost and are worth the same.
Alike(qs, ps) ==
    /\ IsList(qs) /\ Len(qs) = Len(ps)
    /\ \A i \in 1 .. Len(ps) : /\ HasPrice(qs[i])
                               /\ qs[i].id = ps[i].id /\ qs[i].amount = ps[i].amount

\* Proofs alike in id and amount are worth the same and cost the same.
LEMMA AlikeKeeps ==
    ASSUME NEW ps, Priced(ps), NEW qs, Alike(qs, ps)
    PROVE  /\ Priced(qs) /\ SumOf(qs) = SumOf(ps) /\ MintFee(qs) = MintFee(ps)
           /\ \A ks : OfKnown(ks, ps) => OfKnown(ks, qs)
<1>1. /\ Len(ps) \in Nat /\ DOMAIN ps = 1 .. Len(ps) /\ DOMAIN qs = 1 .. Len(ps)
      /\ Len(qs) = Len(ps)
      /\ \A i \in 1 .. Len(ps) : qs[i].id = ps[i].id /\ qs[i].amount = ps[i].amount
  BY ListIsSeq DEF Alike, Priced, IsList
<1>2. Priced(qs)
  BY DEF Alike, Priced
<1>3. SumOf(qs) = SumOf(ps)
  <2>1. [i \in DOMAIN qs |-> qs[i].amount] = [i \in DOMAIN ps |-> ps[i].amount]
    BY <1>1
  <2> QED BY <2>1 DEF SumOf
<1>4. MintFee(qs) = MintFee(ps)
  <2>1. [i \in DOMAIN qs |-> KeysetForId(Keysets, qs[i].id).input_fee_ppk]
            = [i \in DOMAIN ps |-> KeysetForId(Keysets, ps[i].id).input_fee_ppk]
    BY <1>1
  <2> QED BY <2>1 DEF MintFee
<1>5. \A ks : OfKnown(ks, ps) => OfKnown(ks, qs)
  BY <1>1 DEF OfKnown, Range
<1> QED BY <1>2, <1>3, <1>4, <1>5

\* Without their DLEQs proofs are worth the same,
LEMMA StrippedAlike ==
    ASSUME NEW ps, Priced(ps)
    PROVE  Alike(Stripped(ps), ps)
<1>1. /\ Len(ps) \in Nat /\ DOMAIN ps = 1 .. Len(ps)
      /\ \A i \in 1 .. Len(ps) : HasPrice(ps[i])
  BY ListIsSeq DEF Priced, IsList
<1>2. Stripped(ps) = [i \in 1 .. Len(ps) |-> [ps[i] EXCEPT !.dleq = None]]
  BY <1>1 DEF Stripped
<1>3. \A p : HasPrice(p) => LET q == [p EXCEPT !.dleq = None]
                            IN HasPrice(q) /\ q.id = p.id /\ q.amount = p.amount
  BY DEF HasPrice
<1>4. IsList(Stripped(ps)) /\ Len(Stripped(ps)) = Len(ps)
  BY <1>1, <1>2 DEF IsList
<1> QED BY <1>1, <1>2, <1>3, <1>4 DEF Alike

\* with a witness too.
LEMMA WitnessedAlike ==
    ASSUME NEW ps, Priced(ps), Witnessed(ps) # None
    PROVE  Alike(Witnessed(ps), ps)
<1> DEFINE with(p) == IF p.secret \in OurLocks THEN [p EXCEPT !.witness = "signed"] ELSE p
<1>1. /\ Len(ps) \in Nat /\ DOMAIN ps = 1 .. Len(ps)
      /\ \A i \in 1 .. Len(ps) : HasPrice(ps[i])
  BY ListIsSeq DEF Priced, IsList
<1>2. Witnessed(ps) = [i \in 1 .. Len(ps) |-> with(ps[i])]
  BY <1>1 DEF Witnessed
<1>3. \A p : HasPrice(p) => HasPrice(with(p)) /\ with(p).id = p.id /\ with(p).amount = p.amount
  BY DEF HasPrice
<1> HIDE DEF with
<1>4. IsList(Witnessed(ps)) /\ Len(Witnessed(ps)) = Len(ps)
  BY <1>1, <1>2 DEF IsList
<1> QED BY <1>1, <1>2, <1>3, <1>4 DEF Alike

\* Likeness carries over.
LEMMA AlikeTwice ==
    ASSUME NEW ps, NEW qs, NEW rs, Alike(qs, ps), Alike(rs, qs)
    PROVE  Alike(rs, ps)
BY DEF Alike

\* Amounts have a sum.
LEMMA SumOfType ==
    ASSUME NEW ps, Priced(ps)
    PROVE  SumOf(ps) \in Int
<1> DEFINE v == [i \in DOMAIN ps |-> ps[i].amount]
<1>1. /\ Len(ps) \in Nat /\ DOMAIN ps = 1 .. Len(ps)
      /\ \A i \in 1 .. Len(ps) : HasPrice(ps[i])
  BY ListIsSeq DEF Priced, IsList
<1>2. v \in Seq(Int)
  BY <1>1 DEF HasPrice
<1> HIDE DEF v
<1>3. Total(v) \in Int
  BY <1>2, TotalType
<1> QED BY <1>3 DEF SumOf, v

\* A resolved keyset is one of those it was looked for among.
LEMMA ResolvedFound ==
    ASSUME NEW ks \in Seq(KeysetRecord), NEW id, Resolve(ks, id) # None
    PROVE  Resolve(ks, id) \in Range(ks)
<1> DEFINE near == Candidates(ks, id)
           first == FirstOf(ks, near)
<1>1. CASE KeysetForId(ks, id) # None
  <2>1. Resolve(ks, id) = KeysetForId(ks, id)
    BY <1>1 DEF Resolve
  <2> QED BY <1>1, <2>1, KeysetFound
<1>2. CASE KeysetForId(ks, id) = None
  <2>1. Resolve(ks, id) = first
    BY <1>2 DEF Resolve
  <2>2. Len(ks) \in Nat /\ DOMAIN ks = 1 .. Len(ks)
        /\ \A i \in 1 .. Len(ks) : ks[i] \in Range(ks)
    BY InRange
  <2>3. near \subseteq 1 .. Len(ks)
    BY <2>2 DEF Candidates
  <2>4. None \notin KeysetRecord
    BY NoneApart
  <2> HIDE DEF near
  <2>5. first = None <=> near = {}
    BY <2>3, <2>4, FirstFound
  <2>6. near # {} => \E i \in near : first = ks[i]
    BY <2>3, <2>4, FirstFound
  <2> QED BY <2>1, <2>2, <2>3, <2>5, <2>6
<1> QED BY <1>1, <1>2

----------
(* Requests *)

\* Outputs are worth what they were made for.
LEMMA OutputsWorth ==
    ASSUME NEW amounts \in Seq(Nat), NEW id \in Ids, counters \in [Ids -> Nat],
           Generate(amounts, id) # None
    PROVE  SumOut(Generate(amounts, id).outputs) = Total(amounts)
<1> DEFINE outputs == Generate(amounts, id).outputs
           v == [i \in DOMAIN outputs |-> outputs[i].amount]
<1>1. /\ IsMade(Generate(amounts, id), id)
      /\ Len(outputs) = Len(amounts)
      /\ \A i \in 1 .. Len(amounts) : outputs[i].amount = amounts[i]
  BY GeneratesWell
<1> HIDE DEF outputs
<1>2. outputs \in Seq(Outputs(id))
  BY <1>1 DEF IsMade, outputs
<1>3. DOMAIN outputs = 1 .. Len(amounts)
  BY <1>1, <1>2, InRange
<1>4. IsList(amounts)
  BY SeqIsList
<1>5. v = amounts
  BY <1>1, <1>3, <1>4 DEF IsList
<1>6. SumOut(outputs) = Total(v)
  BY DEF SumOut
<1> QED BY <1>5, <1>6 DEF outputs

\* The outputs made for an amount of 32 bits are worth it.
LEMMA SplitWorth ==
    ASSUME NEW amount \in Int, NEW id \in Ids, counters \in [Ids -> Nat],
           Generate(SplitAmount(amount), id) # None
    PROVE  /\ IsMade(Generate(SplitAmount(amount), id), id)
           /\ amount \in 1 .. Codec!MaxInt32 =>
                  SumOut(Generate(SplitAmount(amount), id).outputs) = amount
<1> DEFINE parts == SplitAmount(amount)
<1>1. parts \in Seq(Nat) /\ Total(parts) = amount % 2147483648
  BY SplitAddsUp
<1> HIDE DEF parts
<1>2. IsMade(Generate(parts, id), id) /\ SumOut(Generate(parts, id).outputs) = Total(parts)
  BY <1>1, GeneratesWell, OutputsWorth DEF parts
<1>3. amount \in 1 .. Codec!MaxInt32 => amount % 2147483648 = amount
  <2> DEFINE m == 2147483648
             n == Codec!MaxInt32
  <2>1. m \in Nat \ {0} /\ n \in Int /\ n < m
    BY SMT DEF Codec!MaxInt32
  <2> HIDE DEF m, n
  <2>2. \A a \in Nat : a < m => a % m = a
    BY <2>1, SMT
  <2>3. amount \in 1 .. n => amount % m = amount
    BY <2>1, <2>2, SMT
  <2> QED BY <2>3, SMT DEF m, n
<1>4. amount \in 1 .. Codec!MaxInt32 => Total(parts) = amount
  BY <1>1, <1>3, SMT
<1> QED BY <1>2, <1>4 DEF parts

\* A request that adds up is posted.
LEMMA PostJob ==
    ASSUME NEW op, op \in {"swap", "mint", "melt"}, NEW unit, NEW inputs, NEW made,
           NEW keyset, NEW due, Post(op, unit, inputs, made, keyset, due),
           counters \in [Ids -> Nat], keyset \in Range(known'), keyset.id \in Ids,
           IsMade(made, keyset.id), Priced(inputs), OfKnown(known', inputs),
           op = "melt" => /\ SumOf(inputs) >= due
                          /\ \E terms \in MeltTerms :
                                 due = terms.amount + terms.reserve + MintFee(inputs),
           op # "melt" => (due \in 1 .. Codec!MaxInt32 => SumOut(made.outputs) = due)
    PROVE  /\ JobWell' /\ counters' \in [Ids -> Nat]
           /\ UNCHANGED <<proofs, flash, saved, stale, token, mintVars>>
<1>1. /\ job' = [at |-> "posted", op |-> op, unit |-> unit, inputs |-> inputs,
                 made |-> made, keyset |-> keyset, due |-> due]
      /\ counters' = Used(keyset.id, Len(made.outputs))
      /\ UNCHANGED <<proofs, flash, saved, stale, token, mintVars>>
  BY DEF Post, storeVars
<1>2. /\ job'.at = "posted" /\ job'.op = op /\ job'.inputs = inputs /\ job'.made = made
      /\ job'.keyset = keyset /\ job'.due = due
  BY <1>1
<1>3. RequestWell'
  BY <1>2 DEF RequestWell
<1>4. PostsAddUp'
  BY <1>2 DEF PostsAddUp, Stage
<1>5. job'.op = "melt" =>
          \E terms \in MeltTerms :
              job'.due = terms.amount + terms.reserve + MintFee(job'.inputs)
  BY <1>2
<1>6. PostedWell'
  BY <1>3, <1>4, <1>5 DEF PostedWell
<1>7. JobWell'
  BY <1>2, <1>6 DEF JobWell
<1>8. counters' \in [Ids -> Nat]
  <2>1. Len(made.outputs) \in Nat
    BY LenProperties DEF IsMade
  <2> QED BY <1>1, <2>1 DEF Used
<1> QED BY <1>1, <1>7, <1>8

\* A post leaves the rest of the state well.
LEMMA PostInv ==
    ASSUME Inv, AreTheMints(known'), Range(known) \subseteq Range(known'), JobWell',
           counters' \in [Ids -> Nat], MintWell',
           UNCHANGED <<proofs, flash, saved, stale, token>>
    PROVE  Inv'
BY MoreKnown, SameToken DEF Inv

(* Normalizing the ids: every input is then of a known keyset.             *)
LEMMA NormalizeInv ==
    ASSUME Inv, NEW reachable \in BOOLEAN, Normalize(reachable)
    PROVE  Inv'
<1> DEFINE ps == Offered
           ins == Renamed(known', ps)
<1>1. /\ job # None /\ job.at = "decoded"
      /\ known' = known \/ known' = Refreshed(known)
      /\ UNCHANGED <<counters, proofs, flash, saved, stale, token, mintVars, ops>>
  BY DEF Normalize, At, Stage, storeVars
<1>2. job' = None \/ /\ ~AnyUnknown(known', ps)
                     /\ job' = [at |-> "named", unit |-> job.read.unit, inputs |-> ins]
  BY DEF Normalize
<1>3. AreTheMints(known) /\ counters \in [Ids -> Nat] /\ Priced(ps)
  BY <1>1 DEF Inv, WalletWell, JobWell
<1>4. AreTheMints(known') /\ Range(known) \subseteq Range(known')
  BY <1>1, <1>3, RefreshedWell
<1> HIDE DEF ps
<1>5. ASSUME ~AnyUnknown(known', ps)
      PROVE  Priced(ins) /\ OfKnown(known', ins)
  <2> DEFINE named(p) == LET k == Resolve(known', p.id)
                         IN IF k = None THEN p ELSE [p EXCEPT !.id = k.id]
  <2>1. /\ Len(ps) \in Nat /\ DOMAIN ps = 1 .. Len(ps)
        /\ \A i \in 1 .. Len(ps) : HasPrice(ps[i]) /\ ps[i] \in Range(ps)
    <3>1. DOMAIN ps = 1 .. Len(ps) /\ ps \in Seq(Range(ps))
      BY <1>3, ListIsSeq DEF Priced
    <3> QED BY <1>3, <3>1 DEF Priced, IsList, Range
  <2>2. ins = [i \in 1 .. Len(ps) |-> named(ps[i])]
    BY <2>1 DEF Renamed
  <2>3. \A i \in 1 .. Len(ps) : Resolve(known', ps[i].id) # None
    BY <1>5, <2>1 DEF AnyUnknown
  <2>4. known' \in Seq(KeysetRecord)
    BY <1>4 DEF AreTheMints
  <2>5. ASSUME NEW i \in 1 .. Len(ps)
        PROVE  HasPrice(named(ps[i])) /\ \E k \in Range(known') : k.id = named(ps[i]).id
    <3> DEFINE p == ps[i]
               k == Resolve(known', p.id)
    <3>1. k # None /\ HasPrice(p)
      BY <2>1, <2>3
    <3>2. k \in Range(known')
      BY <2>4, <3>1, ResolvedFound
    <3>3. named(p) = [p EXCEPT !.id = k.id]
      BY <3>1
    <3> HIDE DEF p, k, named
    <3>4. HasPrice(named(p)) /\ named(p).id = k.id
      BY <3>1, <3>3 DEF HasPrice
    <3> QED BY <3>2, <3>4 DEF p
  <2> HIDE DEF named, ins
  <2>6. IsList(ins) /\ Len(ins) = Len(ps) /\ DOMAIN ins = 1 .. Len(ps)
        /\ \A i \in 1 .. Len(ps) : ins[i] = named(ps[i])
    BY <2>1, <2>2 DEF IsList
  <2>7. Priced(ins)
    BY <2>5, <2>6 DEF Priced
  <2>8. OfKnown(known', ins)
    BY <2>5, <2>6 DEF OfKnown, Range
  <2> QED BY <2>7, <2>8
<1> HIDE DEF ins
<1>6. JobWell'
  <2>1. CASE job' = None
    BY <2>1, NoJob
  <2>2. CASE /\ ~AnyUnknown(known', ps)
             /\ job' = [at |-> "named", unit |-> job.read.unit, inputs |-> ins]
    <3>1. job'.at = "named" /\ job'.inputs = ins
      BY <2>2
    <3> QED BY <1>5, <2>2, <3>1 DEF JobWell
  <2> QED BY <1>2, <2>1, <2>2
<1>7. MintWell'
  BY <1>1, SameMint DEF Inv
<1> QED BY <1>1, <1>3, <1>4, <1>6, <1>7, PostInv

(* A swap asks for what its inputs leave after the mint's fee.             *)
LEMMA PostSwapInv ==
    ASSUME Inv, PostSwap
    PROVE  Inv'
<1> DEFINE ps   == job.inputs
           unit == UnitOfAll(known, ps)
           ks   == ActiveForMint(known, unit)
           made == Generate(SwapAmounts(known, ps), ks.id)
           ins  == Witnessed(Stripped(ps))
<1>1. job # None /\ job.at = "named" /\ UNCHANGED <<known, ops>>
  BY DEF PostSwap, At, Stage
<1>2. \/ GiveUp /\ UNCHANGED counters
      \/ /\ ks # None /\ made # None /\ ins = None
         /\ GiveUp /\ counters' = Used(ks.id, Len(made.outputs))
      \/ /\ ks # None /\ made # None /\ ins # None
         /\ Post("swap", unit, ins, made, ks, SumOf(ins) - MintFee(ins))
  BY DEF PostSwap
<1>3. /\ AreTheMints(known) /\ known \in Seq(KeysetRecord) /\ counters \in [Ids -> Nat]
      /\ Priced(ps) /\ OfKnown(known, ps)
  BY <1>1 DEF Inv, WalletWell, JobWell, AreTheMints
<1>4. ks # None => ks \in Range(known) /\ ks.id \in Ids
  <2>1. ks # None => ks \in Range(known) /\ ks \in KeysetRecord
    BY <1>3, ActiveFound
  <2> QED BY <2>1 DEF KeysetRecord
<1>5. SumOf(ps) \in Int /\ MintFee(ps) = Fee(known, ps) /\ Fee(known, ps) \in Nat
  <2>1. ps \in Seq(Range(ps))
    BY <1>3, ListIsSeq DEF Priced
  <2> QED BY <1>3, <2>1, FeeAgrees, SumOfType
<1> DEFINE due == SumOf(ps) - MintFee(ps)
<1>6. due \in Int /\ SwapAmounts(known, ps) = SplitAmount(due)
  BY <1>5 DEF SwapAmounts
<1>7. ins # None => Alike(ins, ps)
  BY <1>3, StrippedAlike, WitnessedAlike, AlikeTwice, AlikeKeeps
<1> HIDE DEF ps, unit, ks, ins, due
<1>8. ks # None /\ made # None =>
          IsMade(made, ks.id) /\ (due \in 1 .. Codec!MaxInt32 => SumOut(made.outputs) = due)
  BY <1>3, <1>4, <1>6, SplitWorth
<1> HIDE DEF made
<1>9. CASE GiveUp /\ UNCHANGED counters
  BY <1>1, <1>3, <1>9, GiveUpInv
<1>10. CASE /\ ks # None /\ made # None
            /\ GiveUp /\ counters' = Used(ks.id, Len(made.outputs))
  <2>1. Len(made.outputs) \in Nat
    BY <1>8, <1>10, LenProperties DEF IsMade
  <2>2. counters' \in [Ids -> Nat]
    BY <1>3, <1>4, <1>10, <2>1 DEF Used
  <2> QED BY <1>1, <1>10, <2>2, GiveUpInv
<1>11. CASE /\ ks # None /\ made # None /\ ins # None
            /\ Post("swap", unit, ins, made, ks, SumOf(ins) - MintFee(ins))
  <2>1. /\ Priced(ins) /\ OfKnown(known, ins)
        /\ SumOf(ins) - MintFee(ins) = due
    BY <1>3, <1>7, <1>11, AlikeKeeps DEF due
  <2>2. Post("swap", unit, ins, made, ks, due)
    BY <1>11, <2>1
  <2>3. /\ JobWell' /\ counters' \in [Ids -> Nat]
        /\ UNCHANGED <<proofs, flash, saved, stale, token, mintVars>>
    BY <1>1, <1>3, <1>4, <1>8, <1>11, <2>1, <2>2, PostJob
  <2>4. MintWell'
    BY <1>1, <2>3, SameMint DEF Inv
  <2> QED BY <1>1, <1>3, <2>3, <2>4, PostInv
<1> QED BY <1>2, <1>9, <1>10, <1>11

----------
(* Quotes and melts *)

\* A number as get_int reads it.
InRange32(n) == IF n \in Json!Int32 THEN n ELSE None

\* What the wallet finds due on a quote is what the quote still has.
LEMMA QuoteDue ==
    ASSUME MintWell, Json!Mintable(Json!MintQuoteFrom(QuoteJson)) > 0
    PROVE  Json!Mintable(Json!MintQuoteFrom(QuoteJson)) = quote.paid - quote.issued
           /\ quote.paid - quote.issued \in Int
<1> DEFINE pair  == quote.view \in {"pair", "both"}
           old   == quote.view \in {"legacy", "both"}
           had   == IF pair THEN quote.paid ELSE None
           gave  == IF pair THEN quote.issued ELSE None
           sum   == IF old THEN quote.paid ELSE None
           state == IF ~old THEN None
                    ELSE IF quote.paid = 0 THEN "UNPAID"
                    ELSE IF quote.issued = 0 \/ pair THEN "PAID" ELSE "ISSUED"
           o == [quote |-> "q", request |-> "r", unit |-> "sat", amount_paid |-> had,
                 amount_issued |-> gave, amount |-> sum, state |-> state]
           w == Json!Written(o)
           read == Json!MintQuoteFrom(w)
           due == Json!Mintable(read)
<1>1. QuoteJson = w
  BY DEF QuoteJson
<1>2. /\ quote.paid \in Nat /\ quote.issued \in Nat /\ quote.issued <= quote.paid
      /\ quote.view \in {"pair", "legacy", "both"}
  BY DEF MintWell
<1>3. "q" # None /\ "r" # None /\ "PAID" # None
  BY NoneApart DEF Strings
<1>4. \A n \in Int : n # None
  BY NoneApart
<1> HIDE DEF had, gave, sum, state
<1>5. /\ DOMAIN o = {"quote", "request", "unit", "amount_paid", "amount_issued", "amount", "state"}
      /\ o["quote"] = "q" /\ o["request"] = "r" /\ o["amount_paid"] = had
      /\ o["amount_issued"] = gave /\ o["amount"] = sum /\ o["state"] = state
  OBVIOUS
<1> HIDE DEF o
<1>6. /\ "quote" \in DOMAIN w /\ "request" \in DOMAIN w
      /\ Json!GetInt(w, "amount_paid") = InRange32(had)
      /\ Json!GetInt(w, "amount_issued") = InRange32(gave)
      /\ Json!OrInt(w, "amount", 0) = IF InRange32(sum) = None THEN 0 ELSE sum
      /\ Json!Or(w, "state", "") = IF state = None THEN "" ELSE state
  <2>1. None \notin Json!Int32
    <3>1. Json!Int32 \subseteq Int
      BY OneBound
    <3> QED BY <1>4, <3>1
  <2> QED BY <1>3, <1>5, <2>1, WrittenHas
          DEF Json!GetInt, Json!HasInt, Json!OrInt, Json!Or, InRange32
<1> HIDE DEF w
<1>7. /\ read.amount_paid = InRange32(had) /\ read.amount_issued = InRange32(gave)
      /\ read.amount = IF InRange32(sum) = None THEN 0 ELSE sum
      /\ read.state = IF state = None THEN "" ELSE state
  BY <1>6 DEF Json!MintQuoteFrom, Json!Has
<1> DEFINE had2 == InRange32(had)
           gave2 == InRange32(gave)
           whole == had2 # None /\ gave2 # None
<1> HIDE DEF read
<1>8. due = IF whole THEN IF had2 > gave2 THEN had2 - gave2 ELSE 0
            ELSE IF read.state = "PAID" THEN read.amount ELSE 0
  BY <1>7 DEF Json!Mintable
<1>9. due > 0
  BY <1>1 DEF read
<1> HIDE DEF due
<1>10. CASE pair
  <2>1. had = quote.paid /\ gave = quote.issued
    BY <1>10 DEF had, gave
  <2>2. CASE whole
    <3>1. had2 = quote.paid /\ gave2 = quote.issued
      BY <2>1, <2>2 DEF InRange32
    <3>2. due = IF quote.paid > quote.issued THEN quote.paid - quote.issued ELSE 0
      BY <1>8, <2>2, <3>1
    <3> QED BY <1>1, <1>2, <1>9, <3>2 DEF due, read
  <2>3. CASE ~whole
    <3>1. quote.paid \notin Json!Int32
      <4>1. quote.paid \in Json!Int32 => quote.issued \in Json!Int32
        BY <1>2, OneBound
      <4> QED BY <1>2, <1>4, <2>1, <2>3, <4>1 DEF InRange32
    <3>2. read.amount = 0
      <4>1. sum = None \/ sum = quote.paid
        BY DEF sum
      <4> QED BY <1>7, <3>1, <4>1 DEF InRange32
    <3>3. due = 0
      BY <1>8, <2>3, <3>2
    <3> QED BY <1>9, <3>3
  <2> QED BY <2>2, <2>3
<1>11. CASE ~pair
  <2>1. had = None /\ old /\ sum = quote.paid
    BY <1>2, <1>11 DEF had, sum
  <2>2. ~whole
    BY <2>1 DEF InRange32
  <2>3. due = IF read.state = "PAID" THEN read.amount ELSE 0
    BY <1>8, <2>2
  <2>4. read.state = "PAID" /\ read.amount # 0
    BY <1>9, <2>3
  <2>5. quote.issued = 0
    BY <1>3, <1>7, <1>11, <2>1, <2>4 DEF state
  <2>6. due = quote.paid
    BY <1>7, <2>1, <2>3, <2>4
  <2> QED BY <1>1, <1>2, <2>5, <2>6 DEF due, read
<1> QED BY <1>10, <1>11

----------
\* A claim asks for what the quote still has.
LEMMA ClaimInv ==
    ASSUME Inv, Claim
    PROVE  Inv'
<1> DEFINE due  == Json!Mintable(Json!MintQuoteFrom(QuoteJson))
           ks   == ActiveForMint(Ensured("sat"), "sat")
           made == Generate(SplitAmount(due), ks.id)
           left == quote.paid - quote.issued
<1>1. /\ Begin /\ due > 0 /\ ks # None /\ known' = Ensured("sat")
      /\ \/ GiveUp /\ UNCHANGED counters
         \/ made # None /\ Post("mint", "sat", <<>>, made, ks, left)
  BY DEF Claim
<1>2. AreTheMints(known) /\ counters \in [Ids -> Nat] /\ MintWell
  BY DEF Inv, WalletWell
<1>3. AreTheMints(known') /\ Range(known) \subseteq Range(known')
  BY <1>1, <1>2, EnsuredWell
<1>4. due = left /\ left \in Int
  BY <1>1, <1>2, QuoteDue
<1>5. ks \in Range(known') /\ ks.id \in Ids
  <2>1. known' \in Seq(KeysetRecord)
    BY <1>3 DEF AreTheMints
  <2>2. ks \in Range(known') /\ ks \in KeysetRecord
    BY <1>1, <2>1, ActiveFound
  <2> QED BY <2>2 DEF KeysetRecord
<1> HIDE DEF due, ks, left
<1>6. made # None => /\ IsMade(made, ks.id)
                     /\ left \in 1 .. Codec!MaxInt32 => SumOut(made.outputs) = left
  BY <1>2, <1>4, <1>5, SplitWorth
<1> HIDE DEF made
<1>7. Priced(<<>>) /\ OfKnown(known', <<>>)
  <2>1. <<>> \in Seq(Proof)
    OBVIOUS
  <2>2. Range(<<>>) = {}
    BY DEF Range
  <2> QED BY <2>1, <2>2, ProofsPriced DEF OfKnown
<1>8. CASE GiveUp /\ UNCHANGED counters
  <2>1. UNCHANGED <<proofs, flash, saved, stale, token, mintVars>> /\ job' = None
    BY <1>8 DEF GiveUp, storeVars
  <2>2. JobWell' /\ MintWell'
    BY <1>1, <1>2, <2>1, NoJob, OneMoreStep
  <2> QED BY <1>2, <1>3, <1>8, <2>1, <2>2, PostInv
<1>9. CASE made # None /\ Post("mint", "sat", <<>>, made, ks, left)
  <2> DEFINE op == "mint"
             unit == "sat"
             ins == <<>>
  <2>1. /\ op \in {"swap", "mint", "melt"} /\ op # "melt"
        /\ Post(op, unit, ins, made, ks, left) /\ Priced(ins) /\ OfKnown(known', ins)
    BY <1>7, <1>9
  <2> HIDE DEF op, unit, ins
  <2>2. /\ JobWell' /\ counters' \in [Ids -> Nat]
        /\ UNCHANGED <<proofs, flash, saved, stale, token, mintVars>>
    BY <1>2, <1>5, <1>6, <1>9, <2>1, PostJob
  <2>3. MintWell'
    BY <1>1, <1>2, <2>2, OneMoreStep
  <2> QED BY <1>2, <1>3, <2>2, <2>3, PostInv
<1> QED BY <1>1, <1>8, <1>9

\* A selection is of the wallet's proofs.
LEMMA ChosenAmong ==
    ASSUME NEW ks, NEW S, NEW ps \in Seq(S), NEW needed, NEW unit,
           NEW chosen \in SelectProofs(ks, ps, needed, unit)
    PROVE  \/ chosen = None
           \/ chosen \in Seq(S) /\ Range(chosen) \subseteq Range(ps)
<1> DEFINE mine == OfUnit(ks, ps, unit)
           n == Len(mine)
           f == Grown(ks, mine, needed)
<1>1. mine \in Seq(S) /\ Range(mine) \subseteq Range(ps)
  BY KeptRange DEF OfUnit
<1>2. n \in Nat
  BY <1>1, LenProperties
<1>3. SelectProofs(ks, ps, needed, unit) =
          {Kept(mine, T) : T \in {R \in UNION {f[k] : k \in 0 .. n} :
                                     Enough(ks, mine, needed, R)}}
            \cup {None : T \in {R \in f[n] : ~Enough(ks, mine, needed, R)}}
  BY <1>2, SelectDef
<1> HIDE DEF mine, n, f
<1>4. chosen = None \/ \E T : chosen = Kept(mine, T)
  BY <1>3
<1>5. \A T : Kept(mine, T) \in Seq(S) /\ Range(Kept(mine, T)) \subseteq Range(mine)
  BY <1>1, KeptRange
<1> QED BY <1>1, <1>4, <1>5

\* What is selected for a melt covers it.
LEMMA SelectForMeltInv ==
    ASSUME Inv, NEW unit \in Units, NEW terms \in MeltTerms, SelectForMelt(unit, terms)
    PROVE  Inv'
<1> DEFINE ks == Ensured(unit)
           needed == terms.amount + terms.reserve
<1>1. /\ Begin /\ ActiveForMint(ks, unit) # None /\ known' = ks
      /\ UNCHANGED <<counters, proofs, flash, saved, stale, token, mintVars>>
  BY DEF SelectForMelt, storeVars
<1>2. PICK chosen \in SelectProofs(ks, proofs, needed, unit) :
          job' = [at |-> "selected", unit |-> unit, terms |-> terms, chosen |-> chosen]
  BY DEF SelectForMelt
<1>3. /\ AreTheMints(known) /\ counters \in [Ids -> Nat] /\ MintWell
      /\ proofs \in Seq(Proof) /\ OfKnown(known, proofs)
  BY DEF Inv, WalletWell
<1>4. AreTheMints(ks) /\ Range(known) \subseteq Range(ks)
  BY <1>3, EnsuredWell
<1>5. needed \in Int
  BY BoundsAssumption
<1> HIDE DEF ks, needed
<1>6. SelectionRight(ks, proofs, needed, unit, chosen)
  <2>1. Payable(ks, Proof) /\ None \notin Seq(Proof)
    BY <1>4, AllPayable, NoneApart
  <2> QED BY <1>3, <1>5, <2>1, SelectsRight
<1>7. chosen = None \/ (chosen \in Seq(Proof) /\ OfKnown(ks, chosen))
  <2>1. chosen = None \/ (chosen \in Seq(Proof) /\ Range(chosen) \subseteq Range(proofs))
    BY <1>3, ChosenAmong
  <2>2. OfKnown(ks, proofs)
    BY <1>3, <1>4, KnownStays
  <2> QED BY <2>1, <2>2 DEF OfKnown
<1>8. job'.at = "selected" /\ job'.unit = unit /\ job'.terms = terms /\ job'.chosen = chosen
  BY <1>2
<1>9. SelectedWell'
  <2>1. SelectionsRight'
    BY <1>1, <1>6, <1>8 DEF SelectionsRight, Stage, needed
  <2> QED BY <1>1, <1>7, <1>8, <2>1 DEF SelectedWell
<1>10. JobWell'
  BY <1>8, <1>9 DEF JobWell
<1>11. MintWell'
  BY <1>1, <1>3, OneMoreStep
<1> QED BY <1>1, <1>3, <1>4, <1>10, <1>11, PostInv

\* How many blanks is a number.
LEMMA BlanksCounted ==
    ASSUME NEW change
    PROVE  BlankCount(change) \in Nat
<1> DEFINE n == 30
           T == {i \in 0 .. n : change \div 2^i > 0}
<1>1. 0 \in Int /\ n \in Int
  OBVIOUS
<1> HIDE DEF n
<1>2. IsFiniteSet(0 .. n)
  BY <1>1, FS_Interval
<1>3. IsFiniteSet(T)
  BY <1>2, FS_Subset
<1>4. Cardinality(T) \in Nat
  BY <1>3, FS_CardinalityType
<1> QED BY <1>4 DEF BlankCount, n

\* A melt's inputs cover what it may cost.
LEMMA PostMeltInv ==
    ASSUME Inv, PostMelt
    PROVE  Inv'
<1> DEFINE chosen == job.chosen
           terms  == job.terms
           ks     == ActiveForMint(known, job.unit)
           change == SumOf(chosen) - terms.amount - Fee(known, chosen)
           zeros  == [i \in 1 .. BlankCount(change) |-> 0]
           made   == Generate(zeros, ks.id)
           ins    == Stripped(chosen)
           due    == terms.amount + terms.reserve + MintFee(chosen)
           unit   == job.unit
<1>1. /\ job # None /\ job.at = "selected" /\ UNCHANGED <<known, ops>> /\ chosen # None
      /\ \/ GiveUp /\ UNCHANGED counters
         \/ made # None /\ Post("melt", unit, ins, made, ks, due)
  BY DEF PostMelt, At, Stage
<1>2. /\ AreTheMints(known) /\ counters \in [Ids -> Nat] /\ SelectedWell
  BY <1>1 DEF Inv, WalletWell, JobWell
<1>3. /\ terms \in MeltTerms /\ chosen \in Seq(Proof) /\ OfKnown(known, chosen)
      /\ ks # None
      /\ SelectionRight(known, proofs, terms.amount + terms.reserve, unit, chosen)
  BY <1>1, <1>2 DEF SelectedWell, SelectionsRight, Stage
<1>4. SumOf(chosen) >= (terms.amount + terms.reserve) + Fee(known, chosen)
  BY <1>1, <1>3 DEF SelectionRight, Covers
<1>5. MintFee(chosen) = Fee(known, chosen)
  BY <1>2, <1>3, FeeAgrees
<1>6. SumOf(chosen) >= due
  BY <1>4, <1>5
<1>7. Alike(ins, chosen) /\ Priced(chosen)
  BY <1>3, ProofsPriced, StrippedAlike
<1>8. ks \in Range(known) /\ ks.id \in Ids
  <2>1. known \in Seq(KeysetRecord)
    BY <1>2 DEF AreTheMints
  <2>2. ks \in Range(known) /\ ks \in KeysetRecord
    BY <1>3, <2>1, ActiveFound
  <2> QED BY <2>2 DEF KeysetRecord
<1>9. zeros \in Seq(Nat)
  BY BlanksCounted
<1> HIDE DEF chosen, ks, zeros, ins, due, unit, terms
<1>10. made # None => IsMade(made, ks.id)
  BY <1>2, <1>8, <1>9, GeneratesWell
<1> HIDE DEF made
<1>11. CASE GiveUp /\ UNCHANGED counters
  BY <1>1, <1>2, <1>11, GiveUpInv
<1>12. CASE made # None /\ Post("melt", unit, ins, made, ks, due)
  <2>1. /\ Priced(ins) /\ OfKnown(known, ins)
        /\ SumOf(ins) = SumOf(chosen) /\ MintFee(ins) = MintFee(chosen)
    BY <1>3, <1>7, AlikeKeeps
  <2>2. /\ SumOf(ins) >= due
        /\ \E t \in MeltTerms : due = t.amount + t.reserve + MintFee(ins)
    BY <1>3, <1>6, <2>1 DEF due
  <2> DEFINE op == "melt"
  <2>3. op \in {"swap", "mint", "melt"} /\ Post(op, unit, ins, made, ks, due)
        /\ ~(op # "melt")
    BY <1>12
  <2> HIDE DEF op
  <2>4. ks \in Range(known') /\ OfKnown(known', ins)
    BY <1>1, <1>8, <2>1
  <2>5. /\ JobWell' /\ counters' \in [Ids -> Nat]
        /\ UNCHANGED <<proofs, flash, saved, stale, token, mintVars>>
    BY <1>2, <1>8, <1>10, <1>12, <2>1, <2>2, <2>3, <2>4, PostJob
  <2>6. MintWell'
    BY <1>1, <2>5, SameMint DEF Inv
  <2>7. AreTheMints(known') /\ Range(known) \subseteq Range(known')
    BY <1>1, <1>2
  <2> QED BY <2>5, <2>6, <2>7, PostInv
<1> QED BY <1>1, <1>11, <1>12

----------
(* Answers *)

\* Readable signatures for b are worth the sum of b.
LEMMA SigsWorth ==
    ASSUME NEW sigs, NEW k, NEW b \in Seq(Nat), SigsWell(sigs, k, b), NEW worth \in Int,
           Total(b) <= worth
    PROVE  SigsOf(sigs, k, worth)
<1> SUFFICES ASSUME sigs # None
             PROVE  /\ IsList(sigs)
                    /\ \A i \in 1 .. Len(sigs) : sigs[i].amount \in Nat /\ SigWell(sigs[i], k)
                    /\ SumOf(sigs) <= worth
  BY DEF SigsOf
<1>1. /\ IsList(sigs) /\ Len(sigs) = Len(b)
      /\ \A i \in 1 .. Len(b) : sigs[i].amount = b[i] /\ SigWell(sigs[i], k)
  BY DEF SigsWell
<1>2. DOMAIN sigs = 1 .. Len(b)
  BY <1>1, ListIsSeq
<1>3. IsList(b) /\ \A i \in 1 .. Len(b) : b[i] \in Nat
  BY SeqIsList, OfTheSet
<1>4. [i \in DOMAIN sigs |-> sigs[i].amount] = b
  BY <1>1, <1>2, <1>3 DEF IsList
<1> QED BY <1>1, <1>3, <1>4 DEF SumOf

\* The outputs of a request, and their amounts.
LEMMA MadeAmounts ==
    ASSUME NEW made, NEW id, IsMade(made, id)
    PROVE  LET outputs == made.outputs
               amts    == [i \in DOMAIN outputs |-> outputs[i].amount]
           IN /\ outputs \in Seq(Outputs(id)) /\ amts \in Seq(Nat)
              /\ Len(outputs) \in Nat /\ DOMAIN outputs = 1 .. Len(outputs)
              /\ Len(amts) = Len(outputs) /\ SumOut(outputs) = Total(amts)
              /\ SumOut(outputs) \in Nat
              /\ \A i \in 1 .. Len(outputs) : /\ outputs[i] \in Outputs(id)
                                              /\ amts[i] = outputs[i].amount
<1> DEFINE outputs == made.outputs
           amts    == [i \in DOMAIN outputs |-> outputs[i].amount]
<1>1. outputs \in Seq(Outputs(id))
  BY DEF IsMade
<1> HIDE DEF outputs
<1>2. Len(outputs) \in Nat /\ DOMAIN outputs = 1 .. Len(outputs)
      /\ \A i \in 1 .. Len(outputs) : outputs[i] \in Outputs(id)
  BY <1>1, InRange, OfTheSet
<1>3. \A i \in 1 .. Len(outputs) : outputs[i].amount \in Nat
  BY <1>2 DEF Outputs
<1>4. /\ amts \in Seq(Nat) /\ Len(amts) = Len(outputs)
      /\ \A i \in 1 .. Len(outputs) : amts[i] = outputs[i].amount
  BY <1>2, <1>3
<1>5. SumOut(outputs) = Total(amts)
  BY DEF SumOut
<1> HIDE DEF amts
<1>6. Total(amts) \in Nat
  BY <1>4, NatsAreInts, OfTheSet, TotalType
<1> QED BY <1>1, <1>2, <1>4, <1>5, <1>6 DEF outputs, amts

\* The parts of an answer.
LEMMA AnsweredParts ==
    ASSUME NEW answer, NEW worth, NEW how, job' = Answered(answer, worth, how)
    PROVE  /\ job'.at = "answered" /\ job'.op = job.op /\ job'.unit = job.unit
           /\ job'.inputs = job.inputs /\ job'.made = job.made /\ job'.keyset = job.keyset
           /\ job'.answer = answer /\ job'.worth = worth /\ job'.how = how
BY DEF Answered

\* The answer to a swap or a mint, whole or damaged, can be read.
LEMMA AnswerRead ==
    ASSUME JobWell, AreTheMints(known), job # None, job.at = "posted", job.op # "melt",
           UNCHANGED known, NEW how \in Damages,
           CanDamage(how, Signed(job.made.outputs)),
           job' = Answered([signatures |->
                               Damaged(how, Signed(job.made.outputs), job.made.outputs)],
                           SumOut(job.made.outputs), how)
    PROVE  JobWell'
<1> DEFINE made    == job.made
           outputs == made.outputs
           amts    == [i \in DOMAIN outputs |-> outputs[i].amount]
           sigs    == Signed(outputs)
           damaged == Damaged(how, sigs, outputs)
           answer  == [signatures |-> damaged]
           k       == job.keyset
           worth   == SumOut(outputs)
<1>1. RequestWell
  BY DEF JobWell, PostedWell
<1>2. k \in Range(known) /\ IsMade(made, k.id)
  BY <1>1 DEF RequestWell
<1>3. job' = Answered(answer, worth, how) /\ CanDamage(how, sigs)
  OBVIOUS
<1> HIDE DEF made, k
<1>4. /\ amts \in Seq(Nat)
      /\ Len(outputs) \in Nat /\ DOMAIN outputs = 1 .. Len(outputs)
      /\ Len(amts) = Len(outputs) /\ worth = Total(amts) /\ worth \in Nat
      /\ \A i \in 1 .. Len(outputs) : /\ outputs[i] \in Outputs(k.id)
                                      /\ amts[i] = outputs[i].amount
  BY <1>2, MadeAmounts
<1> HIDE DEF outputs, amts
<1>5. sigs = [i \in 1 .. Len(outputs) |->
                 Signature(outputs[i], outputs[i].amount, outputs[i].amount)]
  BY <1>4 DEF Signed
<1> HIDE DEF sigs, worth
<1>6. IsList(sigs) /\ Len(sigs) = Len(amts)
      /\ \A i \in 1 .. Len(amts) : sigs[i] = Signature(outputs[i], amts[i], amts[i])
  BY <1>4, <1>5 DEF IsList
<1>7. PICK b \in Seq(Nat) : Total(b) <= Total(amts) /\ SigsWell(Json!SigsFrom(damaged), k, b)
  BY <1>2, <1>3, <1>4, <1>6, DamagedWell
<1> HIDE DEF damaged
<1>8. Json!SignaturesFrom(answer) = Json!SigsFrom(damaged)
  BY DEF Json!SignaturesFrom, Json!Has
<1> HIDE DEF answer
<1>9. SigsOf(Json!SignaturesFrom(answer), k, worth)
  BY <1>4, <1>7, <1>8, SigsWorth
<1>10. /\ job'.at = "answered" /\ job'.op = job.op
       /\ job'.inputs = job.inputs /\ job'.made = job.made /\ job'.keyset = job.keyset
       /\ job'.answer = answer /\ job'.worth = worth
  BY <1>3, AnsweredParts
<1>11. RequestWell'
  BY <1>1, <1>10 DEF RequestWell
<1>12. AnsweredWell'
  BY <1>4, <1>9, <1>10, <1>11 DEF AnsweredWell, AnswerSigs, k
<1> QED BY <1>10, <1>12 DEF JobWell

\* What the mint keeps adds to what it kept.
LEMMA KeepsWell ==
    ASSUME MintWell, NEW amount \in Nat, Keeps(amount), UNCHANGED <<quote, forfeit, ops>>
    PROVE  MintWell'
<1>1. paid' = [paid EXCEPT ![job.unit] = @ + amount] /\ paid \in [Units -> Nat]
  BY DEF Keeps, MintWell
<1> DEFINE u == job.unit
<1> HIDE DEF u
<1>2. paid' = [v \in Units |-> IF v = u THEN paid[v] + amount ELSE paid[v]]
  BY <1>1 DEF u
<1>3. \A v \in Units : paid[v] \in Nat
  BY <1>1
<1>4. paid' \in [Units -> Nat]
  BY <1>2, <1>3
<1> QED BY <1>4 DEF MintWell

\* An answer leaves the wallet as it is.
LEMMA AnswerInv ==
    ASSUME Inv, JobWell', MintWell',
           UNCHANGED <<known, counters, proofs, flash, saved, stale>>, TokenWell'
    PROVE  Inv'
BY SameWallet, SameFlash DEF Inv

\* A swap's answer, whole or damaged.
LEMMA AnswerSwapInv ==
    ASSUME Inv, NEW how \in Damages, AnswerSwap(how)
    PROVE  Inv'
<1>1. /\ job # None /\ job.at = "posted" /\ job.op = "swap"
      /\ UNCHANGED <<known, counters, proofs, flash, saved, stale, quote, forfeit, ops>>
      /\ CanDamage(how, Signed(job.made.outputs))
      /\ job' = Answered([signatures |->
                             Damaged(how, Signed(job.made.outputs), job.made.outputs)],
                         SumOut(job.made.outputs), how)
      /\ Keeps(MintFee(job.inputs)) /\ token' = None
  BY DEF AnswerSwap, At, Stage, storeVars
<1>2. JobWell /\ AreTheMints(known) /\ MintWell
  BY DEF Inv, WalletWell
<1>3. job.op # "melt"
  BY <1>1
<1>4. JobWell'
  BY <1>1, <1>2, <1>3, AnswerRead
<1>5. MintFee(job.inputs) \in Nat
  <2>1. Priced(job.inputs) /\ OfKnown(known, job.inputs)
    BY <1>1, <1>2 DEF JobWell, PostedWell, RequestWell
  <2>2. job.inputs \in Seq(Range(job.inputs))
    BY <2>1, ListIsSeq DEF Priced
  <2> QED BY <1>2, <2>1, <2>2, FeeAgrees
<1>6. MintWell'
  BY <1>1, <1>2, <1>5, KeepsWell
<1>7. TokenWell'
  BY <1>1 DEF TokenWell
<1> QED BY <1>1, <1>4, <1>6, <1>7, AnswerInv

\* A mint's answer, whole or damaged; the quote is issued no further than it is paid.
LEMMA AnswerMintInv ==
    ASSUME Inv, NEW how \in Damages, AnswerMint(how)
    PROVE  Inv'
<1> DEFINE worth == SumOut(job.made.outputs)
<1>1. /\ job # None /\ job.at = "posted" /\ job.op = "mint"
      /\ UNCHANGED <<known, counters, proofs, flash, saved, stale, token, paid, forfeit, ops>>
      /\ CanDamage(how, Signed(job.made.outputs))
      /\ job' = Answered([signatures |->
                             Damaged(how, Signed(job.made.outputs), job.made.outputs)],
                         worth, how)
      /\ quote' = [quote EXCEPT !.issued = @ + worth]
      /\ worth <= quote.paid - quote.issued
  BY DEF AnswerMint, TakesMint, At, Stage, storeVars
<1>2. JobWell /\ AreTheMints(known) /\ MintWell /\ TokenWell
  BY DEF Inv, WalletWell
<1>3. job.op # "melt"
  BY <1>1
<1>4. JobWell'
  BY <1>1, <1>2, <1>3, AnswerRead
<1>5. worth \in Nat
  <2>1. IsMade(job.made, job.keyset.id)
    BY <1>1, <1>2 DEF JobWell, PostedWell, RequestWell
  <2> QED BY <2>1, MadeAmounts
<1> HIDE DEF worth
<1>6. MintWell'
  <2>1. /\ quote = [paid |-> quote.paid, issued |-> quote.issued, view |-> quote.view]
        /\ quote.paid \in Nat /\ quote.issued \in Nat /\ quote.issued <= quote.paid
        /\ quote.view \in {"pair", "legacy", "both"}
        /\ paid \in [Units -> Nat] /\ forfeit \in [Units -> Nat] /\ ops \in 0 .. MaxOps
    BY <1>2 DEF MintWell
  <2> DEFINE p == quote.paid
             i == quote.issued
             v == quote.view
  <2>2. quote' = [paid |-> p, issued |-> i + worth, view |-> v]
    BY <1>1, <2>1
  <2>3. quote'.paid = p /\ quote'.issued = i + worth /\ quote'.view = v
    BY <2>2
  <2>4. p \in Nat /\ i + worth \in Nat /\ i + worth <= p
    BY <1>1, <1>5, <2>1
  <2>5. v \in {"pair", "legacy", "both"}
    BY <2>1
  <2> HIDE DEF p, i, v
  <2> QED BY <1>1, <2>1, <2>2, <2>3, <2>4, <2>5 DEF MintWell
<1>7. TokenWell'
  BY <1>1, <1>2, SameToken
<1> QED BY <1>1, <1>4, <1>6, <1>7, AnswerInv

----------
\* The start of a list of natural numbers adds up to no more than all of it.
LEMMA StartAtMost ==
    ASSUME NEW v \in Seq(Nat), NEW n \in 0 .. Len(v)
    PROVE  LET start == [i \in 1 .. n |-> v[i]]
           IN start \in Seq(Nat) /\ Len(start) = n /\ Total(start) <= Total(v)
<1> DEFINE start == [i \in 1 .. n |-> v[i]]
           rest  == [i \in 1 .. (Len(v) - n) |-> v[i + n]]
<1>1. Len(v) \in Nat /\ n \in Nat /\ n <= Len(v) /\ \A i \in 1 .. Len(v) : v[i] \in Nat
  BY InRange, OfTheSet
<1>2. /\ start \in Seq(Nat) /\ Len(start) = n
      /\ rest \in Seq(Nat) /\ Len(rest) = Len(v) - n
  <2>1. /\ \A i \in 1 .. n : v[i] \in Nat
        /\ \A i \in 1 .. (Len(v) - n) : v[i + n] \in Nat
    BY <1>1
  <2> QED BY <1>1, <2>1
<1>3. /\ \A i \in 1 .. n : start[i] = v[i]
      /\ \A i \in 1 .. (Len(v) - n) : rest[i] = v[i + n]
  OBVIOUS
<1> HIDE DEF start, rest
<1>4. start \o rest = v
  <2>1. /\ start \o rest \in Seq(Nat) /\ Len(start \o rest) = Len(v)
        /\ \A i \in 1 .. Len(v) : (start \o rest)[i] =
                   IF i <= n THEN start[i] ELSE rest[i - n]
    <3>1. /\ start \o rest \in Seq(Nat) /\ Len(start \o rest) = Len(start) + Len(rest)
          /\ \A i \in 1 .. Len(start) + Len(rest) : (start \o rest)[i] =
                     IF i <= Len(start) THEN start[i] ELSE rest[i - Len(start)]
      BY <1>2, ConcatProperties
    <3>2. Len(start) = n /\ Len(start) + Len(rest) = Len(v)
      BY <1>1, <1>2
    <3> QED BY <3>1, <3>2
  <2>2. \A i \in 1 .. Len(v) : (start \o rest)[i] = v[i]
    <3>1. SUFFICES ASSUME NEW i \in 1 .. Len(v)
                   PROVE  (start \o rest)[i] = v[i]
      OBVIOUS
    <3>2. CASE i <= n
      BY <1>1, <1>3, <2>1, <3>2
    <3>3. CASE ~(i <= n)
      <4>1. i - n \in 1 .. (Len(v) - n) /\ (i - n) + n = i
        BY <1>1, <3>3
      <4> QED BY <1>3, <2>1, <3>3, <4>1
    <3> QED BY <3>2, <3>3
  <2> QED BY <2>1, <2>2, SeqEqual
<1>5. Total(v) = Total(start) + Total(rest)
  BY <1>2, <1>4, NatsAreInts, TotalJoined
<1>6. Total(start) \in Nat /\ Total(rest) \in Nat
  BY <1>2, NatsAreInts, OfTheSet, TotalType
<1> QED BY <1>2, <1>5, <1>6 DEF start

\* The parts of a positive amount are no more than it.
LEMMA SplitAtMost ==
    ASSUME NEW amount \in Int
    PROVE  /\ SplitAmount(amount) \in Seq(Nat)
           /\ amount >= 0 => Total(SplitAmount(amount)) <= amount
<1> DEFINE parts == SplitAmount(amount)
<1>1. parts \in Seq(Nat) /\ Total(parts) = amount % 2147483648
  BY SplitAddsUp
<1> HIDE DEF parts
<1>2. amount >= 0 => amount % 2147483648 <= amount
  <2> DEFINE m == 2147483648
  <2>1. m \in Nat \ {0}
    BY SMT
  <2> HIDE DEF m
  <2>2. amount >= 0 => amount % m <= amount
    BY <2>1, SMT
  <2> QED BY <2>2, SMT DEF m
<1>3. parts \in Seq(Nat) /\ (amount >= 0 => Total(parts) <= amount)
  BY <1>1, <1>2, SMT
<1> QED BY <1>3 DEF parts

\* What the mint signs on the blanks is no more than the change.
LEMMA ChangeParts ==
    ASSUME NEW amount \in Nat, NEW S, NEW blanks \in Seq(S)
    PROVE  \E amts \in Seq(Nat) :
               LET sigs == ChangeSigned(amount, blanks)
               IN /\ IsList(sigs) /\ Len(sigs) = Len(amts) /\ Len(amts) <= Len(blanks)
                  /\ \A i \in 1 .. Len(amts) :
                         sigs[i] = Signature(blanks[i], amts[i], amts[i])
                  /\ Total(amts) <= amount
<1> DEFINE parts == SplitAmount(amount)
           n     == Min({Len(parts), Len(blanks)})
           sigs  == ChangeSigned(amount, blanks)
           amts  == [i \in 1 .. n |-> parts[i]]
<1>1. amount \in Int /\ amount >= 0
  OBVIOUS
<1>2. parts \in Seq(Nat) /\ Total(parts) <= amount
  BY <1>1, SplitAtMost
<1>3. sigs = [i \in 1 .. n |-> Signature(blanks[i], parts[i], parts[i])]
  BY DEF ChangeSigned
<1> HIDE DEF parts, sigs
<1>4. n \in 0 .. Len(parts) /\ n <= Len(blanks)
  <2>1. Len(parts) \in Nat /\ Len(blanks) \in Nat
    BY <1>2, LenProperties
  <2> QED BY <2>1 DEF Min
<1> HIDE DEF n
<1>5. amts \in Seq(Nat) /\ Len(amts) = n /\ Total(amts) <= Total(parts)
  BY <1>2, <1>4, StartAtMost
<1>6. \A i \in 1 .. n : amts[i] = parts[i]
  OBVIOUS
<1> HIDE DEF amts
<1>7. IsList(sigs) /\ Len(sigs) = n
      /\ \A i \in 1 .. n : sigs[i] = Signature(blanks[i], amts[i], amts[i])
  BY <1>3, <1>4, <1>6 DEF IsList
<1>8. Total(amts) <= amount
  <2>1. Total(parts) \in Int /\ Total(amts) \in Int
    BY <1>2, <1>5, NatsAreInts, TotalType
  <2> QED BY <1>2, <1>5, <2>1
<1> QED BY <1>4, <1>5, <1>7, <1>8 DEF sigs

----------
\* What a melt asks for is at least what its payment may give back, and its quote's
\* sum is an int32.
LEMMA DueCovers ==
    ASSUME PostedWell, job # None, job.at = "posted", job.op = "melt", AreTheMints(known)
    PROVE  /\ SumOf(job.inputs) \in Int /\ job.due \in Nat /\ SumOf(job.inputs) >= job.due
           /\ \A cost \in Refunds : cost \in Nat /\ cost <= job.due
           /\ Quoted \in Json!Int32 /\ Quoted # None
<1>1. RequestWell /\ PostsAddUp
  BY DEF PostedWell
<1>2. PICK terms \in MeltTerms : job.due = terms.amount + terms.reserve + MintFee(job.inputs)
  BY DEF PostedWell
<1>3. Priced(job.inputs) /\ OfKnown(known, job.inputs)
  BY <1>1 DEF RequestWell
<1>4. SumOf(job.inputs) \in Int
  BY <1>3, SumOfType
<1>5. MintFee(job.inputs) \in Nat
  <2>1. job.inputs \in Seq(Range(job.inputs))
    BY <1>3, ListIsSeq DEF Priced
  <2> QED BY <1>3, <2>1, FeeAgrees
<1>6. SumOf(job.inputs) >= job.due
  BY <1>1 DEF PostsAddUp, Stage
<1>7. terms.amount \in Nat /\ terms.reserve \in Nat /\ terms.amount + terms.reserve <= MaxInt
      /\ \A cost \in Refunds : cost \in 0 .. (terms.amount + terms.reserve)
  BY <1>2, BoundsAssumption
<1> DEFINE a == terms.amount
           r == terms.reserve
           f == MintFee(job.inputs)
<1>8. a \in Nat /\ r \in Nat /\ a + r <= MaxInt /\ f \in Nat /\ job.due = a + r + f
  BY <1>2, <1>5, <1>7
<1>9. \A cost \in Refunds : cost \in 0 .. (a + r)
  BY <1>7
<1>11. Quoted = job.due - f
  BY DEF Quoted
<1> HIDE DEF a, r, f
<1>10. job.due \in Nat /\ \A cost \in Refunds : cost \in Nat /\ cost <= job.due
  BY <1>8, <1>9
<1>12. Quoted \in Json!Int32 /\ Quoted \in Int
  BY <1>8, <1>11, OneBound
<1> QED BY <1>4, <1>6, <1>10, <1>12, NoneApart

\* The answer to a melt reads as the change it was made with.
LEMMA MeltReads ==
    ASSUME NEW amount \in Json!Int32, amount # None, NEW change, NEW state, state # None
    PROVE  LET body   == [quote |-> "q", state |-> state, amount |-> amount,
                          change |-> change]
               answer == Json!Written(body)
           IN Json!MeltQuoteFrom(answer).change =
                  IF change = None THEN None ELSE Json!SigsFrom(change)
<1> DEFINE body   == [quote |-> "q", state |-> state, amount |-> amount, change |-> change]
           answer == Json!Written(body)
<1>1. /\ DOMAIN body = {"quote", "state", "amount", "change"}
      /\ body["quote"] = "q" /\ body["state"] = state /\ body["amount"] = amount
      /\ body["change"] = change
  OBVIOUS
<1>2. "q" # None
  BY NoneApart DEF Strings
<1> HIDE DEF body
<1>3. /\ "quote" \in DOMAIN answer /\ "state" \in DOMAIN answer
      /\ "amount" \in DOMAIN answer /\ answer["amount"] = amount
      /\ "change" \in DOMAIN answer <=> change # None
      /\ "change" \in DOMAIN answer => answer["change"] = change
  BY <1>1, <1>2, WrittenHas
<1> HIDE DEF answer
<1>4. Json!Has(answer, {"quote", "state"}) /\ Json!HasInt(answer, "amount")
  BY <1>3 DEF Json!Has, Json!HasInt
<1>5. Json!Has(answer, {"change"}) <=> change # None
  BY <1>3 DEF Json!Has
<1>6. Json!MeltQuoteFrom(answer).change =
          IF Json!Has(answer, {"change"}) THEN Json!SigsFrom(answer.change) ELSE None
  BY <1>4 DEF Json!MeltQuoteFrom
<1> QED BY <1>3, <1>5, <1>6 DEF answer, body

\* A paid melt: what the mint keeps, and change that is worth no more than the rest.
LEMMA AnswerMeltInv ==
    ASSUME Inv, NEW cost \in Refunds, NEW how \in Damages, AnswerMelt(cost, how)
    PROVE  Inv'
<1> DEFINE ins     == job.inputs
           outputs == job.made.outputs
           k       == job.keyset
           keep    == job.due - cost
           worth   == SumOf(ins) - keep
           sigs    == ChangeSigned(worth, outputs)
           damaged == Damaged(how, sigs, outputs)
           change  == IF sigs = <<>> THEN None ELSE damaged
           asked   == Quoted
           body    == [quote |-> "q", state |-> "PAID", amount |-> asked, change |-> change]
           answer  == Json!Written(body)
<1>1. /\ job # None /\ job.at = "posted" /\ job.op = "melt"
      /\ UNCHANGED <<known, counters, proofs, flash, saved, stale, token, quote, forfeit, ops>>
      /\ CanDamage(how, sigs)
      /\ job' = Answered(answer, worth, how)
      /\ Keeps(keep)
  BY DEF AnswerMelt, At, Stage, storeVars
<1>2. /\ JobWell /\ AreTheMints(known) /\ MintWell /\ TokenWell /\ PostedWell
  BY <1>1 DEF Inv, WalletWell, JobWell
<1>3. /\ SumOf(ins) \in Int /\ job.due \in Nat /\ SumOf(ins) >= job.due
      /\ cost \in Nat /\ cost <= job.due
  BY <1>1, <1>2, DueCovers
<1>4. keep \in Nat /\ worth \in Nat
  BY <1>3
<1>5. RequestWell
  BY <1>2 DEF PostedWell
<1>6. k \in Range(known) /\ IsMade(job.made, k.id)
  BY <1>5 DEF RequestWell
<1>7. outputs \in Seq(Outputs(k.id)) /\ Len(outputs) \in Nat
      /\ \A i \in 1 .. Len(outputs) : outputs[i] \in Outputs(k.id)
  BY <1>6, MadeAmounts
<1>0. asked \in Json!Int32 /\ asked # None
  BY <1>1, <1>2, DueCovers
<1> HIDE DEF outputs, worth, keep, asked, k
<1>8. PICK amts \in Seq(Nat) :
          /\ IsList(sigs) /\ Len(sigs) = Len(amts) /\ Len(amts) <= Len(outputs)
          /\ \A i \in 1 .. Len(amts) : sigs[i] = Signature(outputs[i], amts[i], amts[i])
          /\ Total(amts) <= worth
  BY <1>4, <1>7, ChangeParts
<1>9. CanDamage(how, sigs)
  BY <1>1
<1> HIDE DEF sigs
<1>10. \A i \in 1 .. Len(amts) : outputs[i] \in Outputs(k.id)
  <2>1. Len(amts) \in Nat
    BY LenProperties
  <2>2. \A i \in 1 .. Len(amts) : i \in 1 .. Len(outputs)
    BY <1>7, <1>8, <2>1
  <2> QED BY <1>7, <2>2
<1>11. PICK b \in Seq(Nat) : Total(b) <= Total(amts) /\ SigsWell(Json!SigsFrom(damaged), k, b)
  BY <1>2, <1>6, <1>8, <1>9, <1>10, DamagedWell
<1>12. Total(b) <= worth
  <2>1. Total(b) \in Int /\ Total(amts) \in Int
    BY NatsAreInts, TotalType
  <2> QED BY <1>4, <1>8, <1>11, <2>1
<1>13. SigsOf(Json!SigsFrom(damaged), k, worth)
  <2>1. worth \in Int
    BY <1>4
  <2> QED BY <1>11, <1>12, <2>1, SigsWorth
<1>14. Json!MeltQuoteFrom(answer).change =
           IF change = None THEN None ELSE Json!SigsFrom(change)
  <2> DEFINE state == "PAID"
  <2>1. state # None
    BY NoneApart DEF Strings
  <2>2. body = [quote |-> "q", state |-> state, amount |-> asked, change |-> change]
    OBVIOUS
  <2> HIDE DEF state, body, change
  <2> QED BY <1>0, <2>1, <2>2, MeltReads
<1> HIDE DEF damaged
<1>15. SigsOf(Json!MeltQuoteFrom(answer).change, k, worth)
  <2>1. CASE change = None
    BY <1>14, <2>1 DEF SigsOf
  <2>2. CASE change # None
    <3>1. change = damaged
      BY <2>2
    <3> HIDE DEF change, answer
    <3> QED BY <1>13, <1>14, <2>2, <3>1
  <2> QED BY <2>1, <2>2
<1>16. job' = Answered(answer, worth, how)
  BY <1>1 DEF worth, keep, asked, sigs, outputs, damaged
<1> HIDE DEF answer
<1>17. /\ job'.at = "answered" /\ job'.op = job.op
       /\ job'.inputs = job.inputs /\ job'.made = job.made /\ job'.keyset = job.keyset
       /\ job'.answer = answer /\ job'.worth = worth
  BY <1>16, AnsweredParts
<1>18. RequestWell'
  BY <1>1, <1>5, <1>17 DEF RequestWell
<1>19. AnsweredWell'
  BY <1>1, <1>4, <1>15, <1>17, <1>18 DEF AnsweredWell, AnswerSigs, k
<1>20. JobWell'
  BY <1>17, <1>19 DEF JobWell
<1>21. MintWell' /\ TokenWell'
  BY <1>1, <1>2, <1>4, KeepsWell, SameToken DEF keep
<1> QED BY <1>1, <1>20, <1>21, AnswerInv

\* A pending melt: nothing comes back yet.
LEMMA AnswerPendingInv ==
    ASSUME Inv, AnswerPending
    PROVE  Inv'
<1> DEFINE asked  == Quoted
           answer == [quote |-> "q", state |-> "PENDING", amount |-> asked]
           k      == job.keyset
           kept   == SumOf(job.inputs)
           worth  == 0
<1>1. /\ job # None /\ job.at = "posted" /\ job.op = "melt"
      /\ UNCHANGED <<known, counters, proofs, flash, saved, stale, token, quote, forfeit, ops>>
      /\ job' = Answered(answer, worth, "none")
      /\ Keeps(kept)
  BY DEF AnswerPending, At, Stage, storeVars
<1>2. /\ AreTheMints(known) /\ MintWell /\ TokenWell /\ PostedWell
  BY <1>1 DEF Inv, WalletWell, JobWell
<1>3. kept \in Nat
  <2>1. SumOf(job.inputs) \in Int /\ job.due \in Nat /\ SumOf(job.inputs) >= job.due
    BY <1>1, <1>2, DueCovers
  <2> QED BY <2>1
<1>4. RequestWell
  BY <1>2 DEF PostedWell
<1>5. worth \in Nat
  OBVIOUS
<1>6. Json!MeltQuoteFrom(answer).change = None
  <2>0. asked \in Json!Int32
    BY <1>1, <1>2, DueCovers
  <2> HIDE DEF asked
  <2>1. DOMAIN answer = {"quote", "state", "amount"} /\ answer["amount"] = asked
    OBVIOUS
  <2>2. /\ Json!Has(answer, {"quote", "state"}) /\ ~Json!Has(answer, {"change"})
        /\ Json!HasInt(answer, "amount")
    BY <2>0, <2>1 DEF Json!Has, Json!HasInt
  <2> HIDE DEF answer
  <2> QED BY <2>2 DEF Json!MeltQuoteFrom
<1> HIDE DEF answer, worth, kept
<1>7. /\ job'.at = "answered" /\ job'.op = job.op
      /\ job'.inputs = job.inputs /\ job'.made = job.made /\ job'.keyset = job.keyset
      /\ job'.answer = answer /\ job'.worth = worth
  BY <1>1, AnsweredParts
<1>8. RequestWell'
  BY <1>1, <1>4, <1>7 DEF RequestWell
<1>9. SigsOf(Json!MeltQuoteFrom(answer).change, k, worth)
  BY <1>6 DEF SigsOf
<1>10. AnsweredWell'
  BY <1>1, <1>5, <1>7, <1>8, <1>9 DEF AnsweredWell, AnswerSigs
<1>11. JobWell'
  BY <1>7, <1>10 DEF JobWell
<1>12. MintWell' /\ TokenWell'
  BY <1>1, <1>2, <1>3, KeepsWell, SameToken
<1> QED BY <1>1, <1>11, <1>12, AnswerInv

----------
\* An empty list is worth nothing.
LEMMA NothingWorth == SumOf(<<>>) = 0
<1>1. [i \in DOMAIN <<>> |-> <<>>[i].amount] = <<>>
  OBVIOUS
<1> QED BY <1>1, TotalEmpty DEF SumOf

\* What is unblinded is of a keyset the wallet knows and worth what was signed.
LEMMA FreshWorth ==
    ASSUME AreTheMints(known), NEW k \in Range(known), NEW worth \in Int, NEW sigs,
           SigsOf(sigs, k, worth), sigs # None, NEW id, NEW made, IsMade(made, id),
           Sigs!UnblindSignatures(sigs, made, k) # None
    PROVE  LET fresh == Sigs!UnblindSignatures(sigs, made, k)
           IN /\ fresh \in Seq(Proof) /\ OfKnown(known, fresh)
              /\ SumOf(fresh) \in Int /\ SumOf(fresh) <= worth
<1> DEFINE fresh == Sigs!UnblindSignatures(sigs, made, k)
<1>1. IsList(sigs) /\ SumOf(sigs) <= worth
      /\ \A i \in 1 .. Len(sigs) : SigWell(sigs[i], k)
  BY DEF SigsOf
<1>2. k \in KeysetRecord
  BY KeysAgree
<1>3. /\ fresh \in Seq(Proof) /\ Len(fresh) = Len(sigs)
      /\ \A i \in 1 .. Len(sigs) : fresh[i].id = k.id /\ fresh[i].amount = sigs[i].amount
  BY <1>1, <1>2, UnblindsWell
<1> HIDE DEF fresh
<1>4. DOMAIN sigs = 1 .. Len(sigs) /\ DOMAIN fresh = 1 .. Len(sigs)
  BY <1>1, <1>3, ListIsSeq, InRange
<1>5. SumOf(fresh) = SumOf(sigs)
  <2>1. [i \in DOMAIN fresh |-> fresh[i].amount] = [i \in DOMAIN sigs |-> sigs[i].amount]
    BY <1>3, <1>4
  <2> QED BY <2>1 DEF SumOf
<1>6. OfKnown(known, fresh)
  <2>1. \A p \in Range(fresh) : \E i \in 1 .. Len(fresh) : p = fresh[i]
    BY <1>3, InRange
  <2> QED BY <1>3, <2>1 DEF OfKnown
<1>7. SumOf(fresh) \in Int
  BY <1>3, ProofsPriced, SumOfType
<1> QED BY <1>1, <1>3, <1>5, <1>6, <1>7 DEF fresh

\* What the mint forfeits adds to what it had.
LEMMA ForfeitsWell ==
    ASSUME MintWell, NEW fresh, Forfeits(fresh), job.worth \in Nat,
           SumOf(fresh) \in Int, SumOf(fresh) <= job.worth, UNCHANGED <<quote, paid, ops>>
    PROVE  MintWell'
<1> DEFINE u == job.unit
           w == job.worth
           s == SumOf(fresh)
<1>1. /\ forfeit \in [Units -> Nat]
      /\ forfeit' = IF job.how = "none" THEN forfeit
                    ELSE [forfeit EXCEPT ![u] = @ + w - s]
      /\ w \in Nat /\ s \in Int /\ s <= w
  BY DEF Forfeits, MintWell
<1> HIDE DEF u, w, s
<1>2. forfeit' \in [Units -> Nat]
  <2>1. CASE job.how = "none"
    BY <1>1, <2>1
  <2>2. CASE job.how # "none"
    <3>1. forfeit' = [v \in Units |-> IF v = u THEN forfeit[v] + w - s ELSE forfeit[v]]
      BY <1>1, <2>2
    <3>2. \A v \in Units : forfeit[v] \in Nat
      BY <1>1
    <3>3. \A v \in Units : forfeit[v] + w - s \in Nat
      BY <1>1, <3>2
    <3> QED BY <3>1, <3>2, <3>3
  <2> QED BY <2>1, <2>2
<1> QED BY <1>2 DEF MintWell

\* Proofs of known keysets are adopted and saved.
LEMMA StoresWell ==
    ASSUME Inv, NEW ps \in Seq(Proof), OfKnown(known, ps), proofs' = ps, SaveProofs(ps),
           UNCHANGED <<known, counters, stale>>
    PROVE  WalletWell' /\ FlashWell'
<1>1. Loaded(flash) \in Seq(Proof) /\ OfKnown(known, Loaded(flash)) /\ stale \in BOOLEAN
  BY DEF Inv, FlashWell
<1>2. /\ Loaded(flash') \in Seq(Proof) /\ OfKnown(known, Loaded(flash'))
      /\ saved' \in BOOLEAN
      /\ saved' => Loaded(flash') = ps
      /\ ~saved' => \E p \in Range(ps) : p.id \in NotHex
  BY <1>1, SavesWell
<1>3. FlashWell'
  BY <1>1, <1>2 DEF FlashWell, FlashReadsBack
<1>4. WalletWell'
  BY DEF Inv, WalletWell
<1> QED BY <1>3, <1>4

\* The end of a flow leaves what it adopted, and no job.
LEMMA EndInv ==
    ASSUME Inv, WalletWell', FlashWell', MintWell', UNCHANGED token, job' = None
    PROVE  Inv'
BY SameToken, NoJob DEF Inv

\* The end of a swap or a mint.
LEMMA AdoptInv ==
    ASSUME Inv, Adopt
    PROVE  Inv'
<1> DEFINE sigs  == Json!SignaturesFrom(job.answer)
           whole == Sigs!UnblindSignatures(sigs, job.made, job.keyset)
           fresh == IF sigs = None THEN None ELSE whole
<1>1. /\ job # None /\ job.at = "answered" /\ job.op \in {"swap", "mint"} /\ job' = None
      /\ UNCHANGED <<known, counters, stale, token, quote, paid, ops>>
      /\ IF fresh = None
         THEN Forfeits(<<>>) /\ UNCHANGED <<proofs, flash, saved>>
         ELSE Forfeits(fresh) /\ proofs' = proofs \o fresh /\ SaveProofs(proofs')
  BY DEF Adopt, At, Stage
<1>2. /\ AnsweredWell /\ AreTheMints(known) /\ MintWell /\ WalletWell /\ FlashWell
      /\ proofs \in Seq(Proof) /\ OfKnown(known, proofs)
  BY <1>1 DEF Inv, JobWell, WalletWell
<1>3. /\ job.keyset \in Range(known) /\ IsMade(job.made, job.keyset.id)
      /\ job.worth \in Nat /\ SigsOf(sigs, job.keyset, job.worth)
  BY <1>1, <1>2 DEF AnsweredWell, RequestWell, AnswerSigs
<1>4. CASE fresh = None
  <2>1. SumOf(<<>>) \in Int /\ SumOf(<<>>) <= job.worth
    BY <1>3, NothingWorth
  <2>2. MintWell'
    BY <1>1, <1>2, <1>3, <1>4, <2>1, ForfeitsWell
  <2> QED BY <1>1, <1>2, <1>4, <2>2, SameWallet, SameFlash, EndInv
<1>5. CASE fresh # None
  <2>1. sigs # None /\ whole # None /\ fresh = whole
    BY <1>5
  <2>2. job.worth \in Int
    BY <1>3
  <2>3. /\ whole \in Seq(Proof) /\ OfKnown(known, whole)
        /\ SumOf(whole) \in Int /\ SumOf(whole) <= job.worth
    <3> HIDE DEF sigs
    <3> QED BY <1>2, <1>3, <2>1, <2>2, FreshWorth
  <2>4. Forfeits(whole) /\ proofs' = proofs \o whole /\ SaveProofs(proofs')
    BY <1>1, <1>5, <2>1
  <2> HIDE DEF whole
  <2>5. MintWell'
    BY <1>1, <1>2, <1>3, <2>3, <2>4, ForfeitsWell
  <2> DEFINE ps == proofs \o whole
  <2>6. ps \in Seq(Proof) /\ OfKnown(known, ps)
    BY <1>2, <2>3, KnownParts
  <2>7. proofs' = ps /\ SaveProofs(ps)
    BY <2>4 DEF SaveProofs
  <2> HIDE DEF ps
  <2>8. WalletWell' /\ FlashWell'
    BY <1>1, <2>6, <2>7, StoresWell
  <2> QED BY <1>1, <2>5, <2>8, EndInv
<1> QED BY <1>4, <1>5

\* What is left after a melt was there before it.
LEMMA LeftoverWell ==
    ASSUME WalletWell, NEW gone, NEW unit
    PROVE  Leftover(gone, unit) \in Seq(Proof) /\ OfKnown(known, Leftover(gone, unit))
<1> DEFINE kept   == Without(proofs, gone)
           others == Kept(kept, {i \in DOMAIN kept : UnitOf(known, kept[i]) # unit})
           mine   == OfUnit(known, kept, unit)
<1>1. proofs \in Seq(Proof) /\ OfKnown(known, proofs)
  BY DEF WalletWell
<1>2. kept \in Seq(Proof) /\ OfKnown(known, kept)
  BY <1>1, KnownParts DEF Without
<1>3. Leftover(gone, unit) = others \o mine
  BY DEF Leftover
<1> HIDE DEF kept
<1>4. others \in Seq(Proof) /\ OfKnown(known, others)
  BY <1>2, KnownParts
<1>5. mine \in Seq(Proof) /\ OfKnown(known, mine)
  BY <1>2, KnownParts DEF OfUnit
<1> HIDE DEF others, mine
<1> QED BY <1>3, <1>4, <1>5, KnownParts

\* The change proofs are of a known keyset and worth no more than the answer.
LEMMA ChangeWell ==
    ASSUME AreTheMints(known), NEW k \in Range(known), NEW worth \in Nat, NEW resp,
           SigsOf(resp.change, k, worth), NEW id, NEW made, IsMade(made, id)
    PROVE  LET fresh == ChangeProofs(resp, made, k)
           IN /\ fresh \in Seq(Proof) /\ OfKnown(known, fresh)
              /\ SumOf(fresh) \in Int /\ SumOf(fresh) <= worth
<1> DEFINE sigs  == resp.change
           n     == Len(sigs)
           part  == Sigs!Truncated(made, n)
           whole == Sigs!UnblindSignatures(sigs, part, k)
           fresh == ChangeProofs(resp, made, k)
<1>1. fresh = IF sigs = None \/ made.outputs = <<>> THEN <<>>
              ELSE IF n = 0 \/ whole = None THEN <<>> ELSE whole
  BY DEF ChangeProofs
<1> HIDE DEF fresh
<1>2. CASE fresh = <<>>
  <2>1. fresh \in Seq(Proof) /\ Range(fresh) = {}
    BY <1>2 DEF Range
  <2> QED BY <1>2, <2>1, NothingWorth DEF OfKnown, fresh
<1>3. CASE fresh # <<>>
  <2>1. sigs # None /\ whole # None /\ fresh = whole
    BY <1>1, <1>3
  <2>2. n \in Nat /\ worth \in Int /\ SigsOf(sigs, k, worth)
    BY <2>1 DEF SigsOf, IsList
  <2> HIDE DEF n
  <2>3. IsMade(part, id)
    BY <2>2, TruncatedWell
  <2> HIDE DEF part, sigs
  <2>4. /\ whole \in Seq(Proof) /\ OfKnown(known, whole)
        /\ SumOf(whole) \in Int /\ SumOf(whole) <= worth
    BY <2>1, <2>2, <2>3, FreshWorth
  <2> QED BY <2>1, <2>4 DEF fresh
<1> QED BY <1>2, <1>3

\* The end of a melt.
LEMMA AdoptChangeInv ==
    ASSUME Inv, AdoptChange
    PROVE  Inv'
<1> DEFINE resp  == Json!MeltQuoteFrom(job.answer)
           fresh == ChangeProofs(resp, job.made, job.keyset)
           rest  == Leftover(job.inputs, job.unit)
           ps    == rest \o fresh
<1>1. /\ job # None /\ job.at = "answered" /\ job.op = "melt" /\ job' = None
      /\ UNCHANGED <<known, counters, stale, token, quote, paid, ops>>
      /\ Forfeits(fresh) /\ proofs' = ps /\ SaveProofs(proofs')
  BY DEF AdoptChange, At, Stage
<1>2. AnsweredWell /\ AreTheMints(known) /\ MintWell /\ WalletWell
  BY <1>1 DEF Inv, JobWell, WalletWell
<1>3. /\ job.keyset \in Range(known) /\ IsMade(job.made, job.keyset.id)
      /\ job.worth \in Nat /\ SigsOf(resp.change, job.keyset, job.worth)
  BY <1>1, <1>2 DEF AnsweredWell, RequestWell, AnswerSigs
<1> HIDE DEF resp
<1>4. /\ fresh \in Seq(Proof) /\ OfKnown(known, fresh)
      /\ SumOf(fresh) \in Int /\ SumOf(fresh) <= job.worth
  BY <1>2, <1>3, ChangeWell
<1>5. rest \in Seq(Proof) /\ OfKnown(known, rest)
  BY <1>2, LeftoverWell
<1> HIDE DEF fresh, rest
<1>6. ps \in Seq(Proof) /\ OfKnown(known, ps)
  BY <1>4, <1>5, KnownParts
<1>7. proofs' = ps /\ SaveProofs(ps)
  BY <1>1 DEF SaveProofs
<1> HIDE DEF ps
<1>8. WalletWell' /\ FlashWell'
  BY <1>1, <1>6, <1>7, StoresWell
<1>9. MintWell'
  BY <1>1, <1>2, <1>3, <1>4, ForfeitsWell
<1> QED BY <1>1, <1>8, <1>9, EndInv

\* A refusal, an empty token and a need that is not covered end the flow.
LEMMA EndsInv ==
    ASSUME Inv, RefuseRequest \/ NothingInIt \/ NotCovered
    PROVE  Inv'
<1>1. GiveUp /\ UNCHANGED <<known, ops, counters>>
  BY DEF RefuseRequest, NothingInIt, NotCovered, At
<1>2. counters' \in [Ids -> Nat]
  BY <1>1 DEF Inv, WalletWell
<1> QED BY <1>1, <1>2, GiveUpInv

----------
(* Every step *)

\* A step that changes nothing keeps the invariant.
LEMMA StutterInv ==
    ASSUME Inv, UNCHANGED vars
    PROVE  Inv'
<1>1. UNCHANGED <<known, counters, proofs, flash, saved, stale, job, token, mintVars, ops>>
  BY DEF vars, storeVars
<1>2. WalletWell' /\ FlashWell' /\ MintWell' /\ TokenWell'
  BY <1>1, SameWallet, SameFlash, SameMint, SameToken DEF Inv
<1>3. JobWell'
  <2>1. JobWell
    BY DEF Inv
  <2> QED BY <1>1, <2>1 DEF JobWell, Offered, SelectedWell, SelectionsRight, Stage,
             PostedWell, RequestWell, PostsAddUp, TokensReadBack, Fresh, AnsweredWell, AnswerSigs
<1> QED BY <1>2, <1>3 DEF Inv

\* The invariant is inductive: one step per action.
LEMMA NextInv ==
    ASSUME Inv, [Next]_vars
    PROVE  Inv'
<1>1. ASSUME NEW u \in Units, Stickup(u) PROVE Inv'
  BY <1>1, StickupInv
<1>2. ASSUME NEW form \in Forms, Forward(form) PROVE Inv'
  BY <1>2, ForwardInv
<1>3. CASE Cut
  BY <1>3, CutInv
<1>4. CASE Receive
  BY <1>4, ReceiveInv
<1>5. CASE NothingInIt \/ NotCovered \/ RefuseRequest
  BY <1>5, EndsInv
<1>6. ASSUME NEW reachable \in BOOLEAN, Normalize(reachable) PROVE Inv'
  BY <1>6, NormalizeInv
<1>7. CASE PostSwap
  BY <1>7, PostSwapInv
<1>8. ASSUME NEW u \in Units, NEW terms \in MeltTerms, SelectForMelt(u, terms) PROVE Inv'
  BY <1>8, SelectForMeltInv
<1>9. CASE PostMelt
  BY <1>9, PostMeltInv
<1>10. ASSUME NEW n \in 1 .. MaxPaid, PayQuote(n) PROVE Inv'
  BY <1>10, PayQuoteInv
<1>11. CASE Claim
  BY <1>11, ClaimInv
<1>12. ASSUME NEW how \in Damages, AnswerSwap(how) \/ AnswerMint(how) PROVE Inv'
  BY <1>12, AnswerSwapInv, AnswerMintInv
<1>13. ASSUME NEW refund \in Refunds, NEW how \in Damages, AnswerMelt(refund, how) PROVE Inv'
  BY <1>13, AnswerMeltInv
<1>14. CASE AnswerPending
  BY <1>14, AnswerPendingInv
<1>15. CASE Adopt
  BY <1>15, AdoptInv
<1>16. CASE AdoptChange
  BY <1>16, AdoptChangeInv
<1>17. ASSUME NEW r \in Requests, Ask(r) PROVE Inv'
  BY <1>17, AskInv
<1>18. CASE Reboot
  BY <1>18, RebootInv
<1>19. CASE UNCHANGED vars
  BY <1>19, StutterInv
<1> QED BY <1>1, <1>2, <1>3, <1>4, <1>5, <1>6, <1>7, <1>8, <1>9, <1>10, <1>11, <1>12,
           <1>13, <1>14, <1>15, <1>16, <1>17, <1>18, <1>19 DEF Next

----------
(* The theorems *)

\* Throughout every flow the wallet's state is what its code takes it to be: proofs and
\* stored proofs of the mint's keysets, a selection that is right, a request that adds up,
\* an answer worth no more than what was asked for.
THEOREM PurseInvariant == Spec => []Inv
<1>1. Init => Inv
  BY InitInv
<1>2. Inv /\ [Next]_vars => Inv'
  BY NextInv
<1> QED BY <1>1, <1>2, PTL DEF Spec

\* The state has its shape: every listed keyset once and as the mint has it, but for whether
\* it is active, proofs of those only, the mint's quote never issued beyond what was paid.
THEOREM PurseTyped == Spec => []TypeOK
<1>1. Inv => TypeOK
  <2> SUFFICES ASSUME Inv
               PROVE  TypeOK
    OBVIOUS
  <2>1. WalletWell /\ FlashWell /\ MintWell /\ JobWell
    BY DEF Inv
  <2>2. AreTheMints(known) /\ OfKnown(known, proofs) /\ proofs \in Seq(Proof)
    BY <2>1 DEF WalletWell
  <2>3. \A p \in Range(proofs) : p \in Proof
    BY <2>2, OfTheSet
  <2>4. \A p \in Range(proofs) : p.amount \in Nat \ {0}
    BY <2>3 DEF Proof
  <2>5. counters \in [Range(IdOrder) -> Nat]
    BY <2>1 DEF WalletWell, Ids
  <2>6. saved \in BOOLEAN /\ stale \in BOOLEAN
    BY <2>1 DEF FlashWell
  <2>7. job # None => job.at \in {"decoded", "named", "selected", "posted", "answered"}
    BY <2>1 DEF JobWell
  <2>8. /\ \A u \in Units : paid[u] \in Nat /\ forfeit[u] \in Nat
        /\ quote.issued <= quote.paid /\ ops \in 0 .. MaxOps
    BY <2>1 DEF MintWell
  <2> QED BY <2>2, <2>4, <2>5, <2>6, <2>7, <2>8 DEF TypeOK
<1> QED BY <1>1, PurseInvariant, PTL

\* save_proofs and load_proofs: after every save that succeeded, and across every restart,
\* flash reads back as the proofs in RAM, in either format; only an id that is no hex string
\* makes a save fail.
THEOREM FlashKeepsProofs == Spec => []FlashReadsBack
<1>1. Inv => FlashReadsBack
  BY DEF Inv, FlashWell
<1> QED BY <1>1, PurseInvariant, PTL

\* select_proofs: for every set of keysets, proofs and needs a selection covers the need and
\* its own fee with no proof to spare, and is given up only when no set of proofs covers them.
THEOREM SelectionsSound == Spec => []SelectionsRight
<1>1. Inv => SelectionsRight
  BY DEF Inv, JobWell, SelectedWell, SelectionsRight, Stage
<1> QED BY <1>1, PurseInvariant, PTL

\* Whatever the wallet posts adds up by the mint's rules: swap, mint and melt.
THEOREM PostsSound == Spec => []PostsAddUp
<1>1. Inv => PostsAddUp
  BY DEF Inv, JobWell, PostedWell, PostsAddUp, Stage
<1> QED BY <1>1, PurseInvariant, PTL

\* deserialize_token: whatever the token, unless an amount is no int32 the V3 form reads back
\* as it is and the V4 form whole (its proofs sorted by keyset); a V3 token with such an
\* amount is refused, and a V4 token with one, or cut anywhere, is refused or is its first
\* proofs, of which only the last may lack its DLEQ or witness.
THEOREM TokensSound == Spec => []TokensReadBack
<1>1. Inv => TokensReadBack
  BY DEF Inv, JobWell, TokensReadBack, Stage
<1> QED BY <1>1, PurseInvariant, PTL
=============================================================================
