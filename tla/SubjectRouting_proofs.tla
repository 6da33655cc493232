------------------------ MODULE SubjectRouting_proofs ------------------------
(***************************************************************************)
(* What is published of a text, and under which subject, for texts of any  *)
(* length over any alphabet and any cut.                                   *)
(***************************************************************************)
EXTENDS SubjectRouting, FiniteSetTheorems, SequenceTheorems, WellFoundedInduction, TLAPS

-----------------------------------------------------------------------------
(***************************************************************************)
(* Induction, in terms of sets                                             *)
(***************************************************************************)

LEMMA LeastExists ==
  ASSUME NEW T \in SUBSET Nat, T # {}
  PROVE  \E x \in T : \A y \in T : x =< y
<1> DEFINE R == {p \in Nat \X Nat : p[1] < p[2]}
<1>1. IsWellFoundedOn(R, Nat)
  BY NatLessThanWellFounded DEF OpToRel
<1>2. \A x, y \in Nat : <<y, x>> \in R <=> y < x
  OBVIOUS
<1> HIDE DEF R
<1>3. PICK x \in T : \A y \in T : ~(<<y, x>> \in R)
  BY <1>1, WFMin
<1>4. \A y \in T : x \in Nat /\ y \in Nat /\ ~(y < x)
  BY <1>2, <1>3
<1>5. QED
  BY <1>4

LEMMA SetInduction ==
  ASSUME NEW S, 0 \in S, \A n \in Nat : n \in S => n + 1 \in S
  PROVE  Nat \subseteq S
<1> DEFINE T == Nat \ S
<1>1. SUFFICES ASSUME T # {} PROVE FALSE
  OBVIOUS
<1>2. T \in SUBSET Nat
  OBVIOUS
<1> HIDE DEF T
<1>3. PICK x \in T : \A y \in T : x =< y
  BY <1>1, <1>2, LeastExists
<1>4. x \in Nat /\ x \notin S
  BY DEF T
<1>5. x # 0 /\ x - 1 \in Nat /\ (x - 1) + 1 = x /\ ~(x =< x - 1)
  BY <1>4
<1>6. x - 1 \in S
  BY <1>3, <1>5 DEF T
<1>7. QED
  BY <1>4, <1>5, <1>6

LEMMA MinIsLeast ==
  ASSUME NEW I \in SUBSET Nat, I # {}
  PROVE  Min(I) \in I /\ \A i \in I : Min(I) =< i
BY LeastExists DEF Min

LEMMA MaxIsGreatest ==
  ASSUME NEW n \in Nat, NEW I \in SUBSET (0..n), I # {}
  PROVE  Max(I) \in I /\ \A i \in I : i =< Max(I)
<1> DEFINE T == {k \in 0..n : n - k \in I}
<1>1. T \in SUBSET Nat /\ T # {}
  <2>1. PICK i \in I : TRUE
    OBVIOUS
  <2>2. n - i \in T
    BY <2>1
  <2>3. QED
    BY <2>2
<1>2. PICK k \in T : \A y \in T : k =< y
  BY <1>1, LeastExists
<1>3. n - k \in I /\ \A i \in I : n - k >= i
  <2> SUFFICES ASSUME NEW i \in I PROVE n - k >= i
    OBVIOUS
  <2>1. n - i \in T
    OBVIOUS
  <2>2. k =< n - i
    BY <1>2, <2>1
  <2>3. QED
    BY <2>2
<1>4. Max(I) \in I /\ \A i \in I : Max(I) >= i
  BY <1>3 DEF Max
<1>5. QED
  BY <1>4

-----------------------------------------------------------------------------
(***************************************************************************)
(* Selections                                                              *)
(***************************************************************************)

(* f lists the m positions of K in ascending order.                        *)
Lists(f, m, K) ==
  /\ f \in [1..m -> K]
  /\ \A i, j \in 1..m : i < j => f[i] < f[j]
  /\ \A k \in K : \E i \in 1..m : f[i] = k

(* out is what text holds at the positions that f lists.                   *)
Selects(f, K, text, out) ==
  Lists(f, Len(out), K) /\ \A i \in 1..Len(out) : out[i] = text[f[i]]

LEMMA IntervalSize ==
  ASSUME NEW n \in Nat
  PROVE  IsFiniteSet(1..n) /\ Cardinality(1..n) = n
<1>1. 1 \in Int /\ n \in Int /\ n = IF 1 > n THEN 0 ELSE n - 1 + 1
  OBVIOUS
<1>2. QED
  BY <1>1, FS_Interval

(* There is one way to list a set: the n-th position is the one that has n *)
(* positions up to it.                                                     *)
LEMMA ListsByRank ==
  ASSUME NEW m \in Nat, NEW K \in SUBSET Nat, NEW f, Lists(f, m, K)
  PROVE  /\ IsFiniteSet(K) /\ Cardinality(K) = m
         /\ \A n \in 1..m :
              f[n] = CHOOSE i \in K : Cardinality({j \in K : j =< i}) = n
<1> DEFINE UpTo(i) == {j \in K : j =< i}
<1>1. /\ f \in [1..m -> K]
      /\ \A i, j \in 1..m : i < j => f[i] < f[j]
      /\ \A k \in K : \E i \in 1..m : f[i] = k
  BY DEF Lists
<1>2. \A i, j \in 1..m : f[i] = f[j] => i = j
  <2> TAKE i, j \in 1..m
  <2>1. f[i] \in Nat /\ f[j] \in Nat
    BY <1>1
  <2>2. QED
    BY <1>1, <2>1
<1>3. IsFiniteSet(K) /\ Cardinality(K) = m
  <2>1. f \in Bijection(1..m, K)
    BY <1>1, <1>2 DEF Bijection, Injection, Surjection, IsInjective
  <2>2. QED
    BY <2>1, IntervalSize, FS_Bijection DEF ExistsBijection
<1>4. ASSUME NEW n \in 1..m PROVE Cardinality(UpTo(f[n])) = n
  <2> DEFINE g == [i \in 1..n |-> f[i]]
  <2>1. g \in [1..n -> UpTo(f[n])]
    <3> SUFFICES ASSUME NEW i \in 1..n PROVE f[i] \in K /\ f[i] =< f[n]
      OBVIOUS
    <3>1. i \in 1..m /\ i =< n
      OBVIOUS
    <3>2. f[i] \in K /\ f[i] \in Nat /\ f[n] \in Nat
      BY <1>1, <3>1
    <3>3. i = n \/ i < n
      BY <3>1
    <3>4. QED
      BY <1>1, <3>1, <3>2, <3>3
  <2>2. \A i, j \in 1..n : g[i] = g[j] => i = j
    BY <1>2
  <2>3. \A k \in UpTo(f[n]) : \E i \in 1..n : g[i] = k
    <3> TAKE k \in UpTo(f[n])
    <3>1. k \in K /\ k =< f[n]
      OBVIOUS
    <3> HIDE DEF UpTo
    <3>2. PICK i \in 1..m : f[i] = k
      BY <1>1, <3>1
    <3>3. i \in 1..n
      <4>1. CASE n < i
        <5>1. f[n] < f[i] /\ f[n] \in Nat /\ f[i] \in Nat
          BY <1>1, <4>1
        <5>2. QED
          BY <3>1, <3>2, <5>1
      <4>2. QED
        BY <4>1
    <3>4. QED
      BY <3>2, <3>3
  <2>4. g \in Bijection(1..n, UpTo(f[n]))
    BY <2>1, <2>2, <2>3 DEF Bijection, Injection, Surjection, IsInjective
  <2>5. n \in Nat
    OBVIOUS
  <2> HIDE DEF g, UpTo
  <2>6. QED
    BY <2>4, <2>5, IntervalSize, FS_Bijection DEF ExistsBijection
<1>5. ASSUME NEW n \in 1..m, NEW i \in K, Cardinality(UpTo(i)) = n
      PROVE  i = f[n]
  <2>1. PICK k \in 1..m : f[k] = i
    BY <1>1
  <2>2. Cardinality(UpTo(i)) = k
    BY <1>4, <2>1
  <2>3. QED
    BY <1>5, <2>1, <2>2
<1>6. \A n \in 1..m : f[n] \in K
  BY <1>1
<1> HIDE DEF UpTo
<1>7. \A n \in 1..m : f[n] = CHOOSE i \in K : Cardinality(UpTo(i)) = n
  BY <1>4, <1>5, <1>6
<1>8. QED
  BY <1>3, <1>7 DEF UpTo

Through(f, g, n) == [i \in 1..n |-> f[g[i]]]
ImageOf(f, L) == {f[l] : l \in L}

(* A selection of a selection is a selection.                              *)
LEMMA SelectsTwice ==
  ASSUME NEW text, NEW mid, NEW out, NEW f, NEW g, NEW K \in SUBSET Nat, NEW L,
         Len(mid) \in Nat, Len(out) \in Nat,
         Selects(f, K, text, mid), Selects(g, L, mid, out), L \subseteq 1..Len(mid)
  PROVE  Selects(Through(f, g, Len(out)), ImageOf(f, L), text, out)
<1> DEFINE m == Len(mid)
           n == Len(out)
           h == [i \in 1..n |-> f[g[i]]]
           M == {f[l] : l \in L}
<1>1. /\ f \in [1..m -> K] /\ \A i, j \in 1..m : i < j => f[i] < f[j]
      /\ \A i \in 1..m : mid[i] = text[f[i]]
  BY DEF Selects, Lists
<1>2. /\ g \in [1..n -> L] /\ \A i, j \in 1..n : i < j => g[i] < g[j]
      /\ \A l \in L : \E i \in 1..n : g[i] = l
      /\ \A i \in 1..n : out[i] = mid[g[i]]
  BY DEF Selects, Lists
<1>3. \A i \in 1..n : g[i] \in L /\ g[i] \in 1..m
  BY <1>2
<1> HIDE DEF m, n
<1>4. h \in [1..n -> M]
  BY <1>3
<1>5. \A i, j \in 1..n : i < j => h[i] < h[j]
  BY <1>1, <1>2, <1>3
<1>6. \A k \in M : \E i \in 1..n : h[i] = k
  BY <1>2
<1>7. \A i \in 1..n : out[i] = text[h[i]]
  BY <1>1, <1>2, <1>3
<1>8. QED
  BY <1>4, <1>5, <1>6, <1>7 DEF Selects, Lists, Through, ImageOf, n

(* Removing a character selects the positions that hold another one.       *)
LEMMA WithoutSelects ==
  ASSUME NEW text \in Texts, NEW c
  PROVE  /\ Without(text, c) \in Texts
         /\ \E f : Selects(f, {i \in 1..Len(text) : text[i] # c}, text, Without(text, c))
<1> DEFINE N == Len(text)
           Equation(f, n) ==
             f = [i \in 0..n |-> IF i = 0 THEN <<>>
                                 ELSE IF text[i] = c THEN f[i - 1] ELSE Append(f[i - 1], text[i])]
           S == {n \in Nat : n =< N => \E f : Equation(f, n)}
<1>1. N \in Nat /\ \A i \in 1..N : text[i] \in Characters
  BY LenProperties, ElementOfSeq DEF Texts
<1> HIDE DEF N
<1>2. Nat \subseteq S
  <2>1. 0 \in S
    <3>1. Equation([i \in 0..0 |-> <<>>], 0)
      OBVIOUS
    <3>2. QED
      BY <3>1
  <2>2. ASSUME NEW n \in Nat, n \in S, n + 1 =< N
        PROVE  \E f : Equation(f, n + 1)
    <3>0. n =< N
      BY <1>1, <2>2
    <3>1. PICK f : Equation(f, n)
      <4> HIDE DEF Equation
      <4>1. QED
        BY <2>2, <3>0
    <3> DEFINE last == IF text[n + 1] = c THEN f[n] ELSE Append(f[n], text[n + 1])
               g == [i \in 0..(n + 1) |-> IF i = n + 1 THEN last ELSE f[i]]
    <3>2. \A i \in 0..n : g[i] = f[i]
      OBVIOUS
    <3>3. g[n + 1] = IF text[n + 1] = c THEN g[n] ELSE Append(g[n], text[n + 1])
      BY <3>2
    <3>4. ASSUME NEW i \in 0..n
          PROVE  g[i] = IF i = 0 THEN <<>>
                        ELSE IF text[i] = c THEN g[i - 1] ELSE Append(g[i - 1], text[i])
      <4>1. f[i] = IF i = 0 THEN <<>>
                   ELSE IF text[i] = c THEN f[i - 1] ELSE Append(f[i - 1], text[i])
        BY <3>1
      <4>2. i # 0 => i - 1 \in 0..n
        OBVIOUS
      <4> HIDE DEF g
      <4>3. QED
        BY <3>2, <4>1, <4>2
    <3>5. \A i \in 0..(n + 1) : i = n + 1 \/ i \in 0..n
      OBVIOUS
    <3>6. g = [i \in 0..(n + 1) |-> g[i]] /\ n + 1 # 0 /\ (n + 1) - 1 = n
      OBVIOUS
    <3> HIDE DEF g
    <3>7. Equation(g, n + 1)
      BY <3>3, <3>4, <3>5, <3>6
    <3>8. QED
      BY <3>7
  <2>3. \A n \in Nat : n \in S => n + 1 \in S
    <3> HIDE DEF Equation
    <3>1. QED
      BY <2>2
  <2> HIDE DEF S
  <2>4. QED
    BY <2>1, <2>3, SetInduction
<1> DEFINE kept == CHOOSE f : Equation(f, N)
<1>3. Equation(kept, N) /\ Without(text, c) = kept[N]
  <2>1. Without(text, c) = kept[N]
    BY DEF Without, N
  <2> HIDE DEF Equation
  <2>2. \E f : Equation(f, N)
    BY <1>1, <1>2
  <2>3. QED
    BY <2>1, <2>2
<1> HIDE DEF kept
<1>4. /\ kept[0] = <<>>
      /\ \A n \in 0..N : n + 1 =< N =>
           kept[n + 1] = IF text[n + 1] = c THEN kept[n] ELSE Append(kept[n], text[n + 1])
  <2>1. 0 \in 0..N
    BY <1>1
  <2>2. \A n \in 0..N : n + 1 =< N => n + 1 \in 0..N /\ n + 1 # 0 /\ (n + 1) - 1 = n
    BY <1>1
  <2>3. QED
    BY <1>3, <2>1, <2>2
<1> DEFINE K(n) == {i \in 1..n : text[i] # c}
           Good(n) == kept[n] \in Texts /\ \E f : Selects(f, K(n), text, kept[n])
           G == {n \in Nat : n =< N => Good(n)}
<1>5. Nat \subseteq G
  <2>1. 0 \in G
    <3>1. <<>> \in Texts /\ Len(<<>>) = 0
      BY EmptySeq DEF Texts
    <3>2. K(0) = {} /\ 1..0 = {}
      OBVIOUS
    <3>3. Selects([i \in {} |-> 0], K(0), text, <<>>)
      BY <3>1, <3>2 DEF Selects, Lists
    <3>4. QED
      BY <1>4, <3>1, <3>3
  <2>2. ASSUME NEW n \in Nat, n \in G, n + 1 =< N
        PROVE  Good(n + 1)
    <3>1. n \in 0..N /\ n =< N /\ n + 1 =< N /\ n + 1 \in 1..N
      BY <1>1, <2>2
    <3>2. PICK f : Selects(f, K(n), text, kept[n])
      BY <2>2, <3>1
    <3>3. kept[n] \in Texts /\ text[n + 1] \in Characters
      BY <1>1, <2>2, <3>1
    <3>4. kept[n + 1] = IF text[n + 1] = c THEN kept[n] ELSE Append(kept[n], text[n + 1])
      <4> HIDE DEF G, K, S, Equation
      <4>1. QED
        BY <1>4, <3>1, Zenon
    <3>5. CASE text[n + 1] = c
      <4>1. kept[n + 1] = kept[n]
        BY <3>4, <3>5
      <4>2. K(n + 1) = K(n)
        BY <3>5
      <4> HIDE DEF K
      <4>3. QED
        BY <3>2, <3>3, <4>1, <4>2
    <3>6. CASE text[n + 1] # c
      <4> DEFINE m == Len(kept[n])
                 g == [i \in 1..(m + 1) |-> IF i = m + 1 THEN n + 1 ELSE f[i]]
      <4>1. kept[n + 1] = Append(kept[n], text[n + 1])
        BY <3>4, <3>6
      <4>2. /\ m \in Nat /\ kept[n + 1] \in Texts /\ Len(kept[n + 1]) = m + 1
            /\ kept[n + 1][m + 1] = text[n + 1]
            /\ \A i \in 1..m : kept[n + 1][i] = kept[n][i]
        BY <3>3, <4>1, LenProperties, AppendProperties DEF Texts
      <4>3. K(n + 1) = K(n) \cup {n + 1} /\ \A k \in K(n) : k < n + 1
        BY <3>6
      <4>4. /\ f \in [1..m -> K(n)] /\ \A i, j \in 1..m : i < j => f[i] < f[j]
            /\ \A k \in K(n) : \E i \in 1..m : f[i] = k
            /\ \A i \in 1..m : kept[n][i] = text[f[i]]
        BY <3>2 DEF Selects, Lists
      <4> HIDE DEF m, K
      <4>5. \A i \in 1..(m + 1) : i = m + 1 \/ i \in 1..m
        BY <4>2
      <4>6. g \in [1..(m + 1) -> K(n + 1)]
        BY <4>3, <4>4, <4>5
      <4>7. ASSUME NEW i \in 1..(m + 1), NEW j \in 1..(m + 1), i < j
            PROVE  g[i] < g[j]
        <5>1. i \in 1..m /\ i # m + 1
          BY <4>2, <4>7
        <5>2. CASE j = m + 1
          BY <4>3, <4>4, <5>1, <5>2
        <5>3. CASE j # m + 1
          BY <4>4, <4>5, <4>7, <5>1, <5>3
        <5>4. QED
          BY <5>2, <5>3
      <4>8. \A k \in K(n + 1) : \E i \in 1..(m + 1) : g[i] = k
        <5> TAKE k \in K(n + 1)
        <5>1. CASE k = n + 1
          BY <4>2, <5>1
        <5>2. CASE k # n + 1
          <6>1. PICK i \in 1..m : f[i] = k
            BY <4>3, <4>4, <5>2
          <6>2. i \in 1..(m + 1) /\ i # m + 1
            BY <4>2
          <6>3. QED
            BY <6>1, <6>2
        <5>3. QED
          BY <5>1, <5>2
      <4>9. \A i \in 1..(m + 1) : kept[n + 1][i] = text[g[i]]
        <5> TAKE i \in 1..(m + 1)
        <5>1. CASE i = m + 1
          BY <4>2, <5>1
        <5>2. CASE i # m + 1
          BY <4>2, <4>4, <4>5, <5>2
        <5>3. QED
          BY <5>1, <5>2
      <4> HIDE DEF g
      <4>10. Selects(g, K(n + 1), text, kept[n + 1])
        BY <4>2, <4>6, <4>7, <4>8, <4>9 DEF Selects, Lists
      <4>11. QED
        BY <4>2, <4>10
    <3>7. QED
      BY <3>5, <3>6
  <2>3. \A n \in Nat : n \in G => n + 1 \in G
    <3> HIDE DEF Good
    <3>1. QED
      BY <2>2
  <2> HIDE DEF G
  <2>4. QED
    BY <2>1, <2>3, SetInduction
<1>6. Good(N)
  <2> HIDE DEF Good
  <2>1. QED
    BY <1>1, <1>5
<1>7. QED
  BY <1>3, <1>6 DEF N

-----------------------------------------------------------------------------
(***************************************************************************)
(* The steps of _slug                                                      *)
(***************************************************************************)

LEMMA FunctionIsText ==
  ASSUME NEW n \in Nat, NEW f \in [1..n -> Characters]
  PROVE  f \in Texts /\ Len(f) = n
<1>1. f \in Texts
  BY SeqDef DEF Texts
<1>2. Len(f) \in Nat /\ DOMAIN f = 1..Len(f)
  BY <1>1, LenProperties DEF Texts
<1>3. 1..Len(f) = 1..n
  BY <1>2
<1>4. QED
  BY <1>1, <1>2, <1>3

IsReplaced(out, text, old, new) ==
  /\ out \in Texts /\ Len(out) = Len(text)
  /\ \A i \in 1..Len(text) : out[i] = IF text[i] = old THEN new ELSE text[i]

LEMMA ReplaceAllShape ==
  ASSUME NEW text \in Texts, NEW old, NEW new \in Characters
  PROVE  IsReplaced(ReplaceAll(text, old, new), text, old, new)
<1> DEFINE n == Len(text)
<1>1. n \in Nat /\ \A i \in 1..n : text[i] \in Characters
  BY LenProperties, ElementOfSeq DEF Texts
<1>2. ReplaceAll(text, old, new) = [i \in 1..n |-> IF text[i] = old THEN new ELSE text[i]]
  BY DEF ReplaceAll
<1> HIDE DEF n
<1>3. ReplaceAll(text, old, new) \in [1..n -> Characters]
  BY <1>1, <1>2
<1>4. QED
  BY <1>1, <1>2, <1>3, FunctionIsText DEF IsReplaced, n

LEMMA LowerShape ==
  ASSUME NEW text \in Texts
  PROVE  /\ Lower(text) \in Texts /\ Len(Lower(text)) = Len(text)
         /\ \A i \in 1..Len(text) : Lower(text)[i] = LowerCase(text[i])
<1> DEFINE n == Len(text)
<1>1. n \in Nat /\ DOMAIN text = 1..n /\ \A i \in 1..n : text[i] \in Characters
  BY LenProperties, ElementOfSeq DEF Texts
<1>2. Lower(text) = [i \in 1..n |-> LowerCase(text[i])]
  BY <1>1 DEF Lower
<1> HIDE DEF n
<1>3. Lower(text) \in [1..n -> Characters]
  BY <1>1, <1>2, TextsAssumption DEF LowerCase
<1>4. QED
  BY <1>1, <1>2, <1>3, FunctionIsText DEF n

(* The positions between the first and the last that is not blank.         *)
Inside(text) ==
  {i \in 1..Len(text) :
     /\ \E j \in 1..Len(text) : j =< i /\ text[j] \notin Blanks
     /\ \E j \in 1..Len(text) : j >= i /\ text[j] \notin Blanks}

LEMMA StripSelects ==
  ASSUME NEW text \in Texts
  PROVE  Strip(text) \in Texts /\ \E f : Selects(f, Inside(text), text, Strip(text))
<1> DEFINE n == Len(text)
           I == {i \in 1..n : NotBlank(text[i])}
<1>1. n \in Nat /\ DOMAIN text = 1..n /\ \A i \in 1..n : text[i] \in Characters
  BY LenProperties, ElementOfSeq DEF Texts
<1>2. CASE \A i \in DOMAIN text : text[i] \in Blanks
  <2>1. Strip(text) = <<>>
    BY <1>2 DEF Strip
  <2>2. Inside(text) = {}
    BY <1>1, <1>2 DEF Inside
  <2>3. <<>> \in Texts /\ Len(<<>>) = 0
    BY EmptySeq DEF Texts
  <2>4. 1..0 = {}
    OBVIOUS
  <2>5. Selects([i \in {} |-> 0], Inside(text), text, Strip(text))
    BY <2>1, <2>2, <2>3, <2>4 DEF Selects, Lists
  <2>6. QED
    BY <2>1, <2>3, <2>5
<1>3. CASE ~(\A i \in DOMAIN text : text[i] \in Blanks)
  <2> DEFINE a == Min(I)
             b == Max(I)
             f == [i \in 1..(b - a + 1) |-> a + i - 1]
  <2>1. I \in SUBSET Nat /\ I \in SUBSET (0..n) /\ I # {}
    BY <1>1, <1>3 DEF NotBlank
  <2>2. Strip(text) = SubSeq(text, a, b)
    BY <1>3, <2>1 DEF Strip, SelectInSeq, SelectLastInSeq
  <2>3. a \in I /\ b \in I /\ \A i \in I : a =< i /\ i =< b
    <3> HIDE DEF I
    <3>1. QED
      BY <1>1, <2>1, MinIsLeast, MaxIsGreatest
  <2> HIDE DEF a, b
  <2>4. /\ a \in 1..n /\ b \in 1..n /\ a =< b
        /\ text[a] \notin Blanks /\ text[b] \notin Blanks
        /\ \A i \in 1..n : text[i] \notin Blanks => a =< i /\ i =< b
    BY <2>3 DEF NotBlank
  <2> HIDE DEF n
  <2>5. Inside(text) = a..b
    BY <1>1, <2>4 DEF Inside, n
  <2>6. /\ Strip(text) \in Texts /\ Len(Strip(text)) = b - a + 1
        /\ \A i \in 1..(b - a + 1) : Strip(text)[i] = text[a + i - 1]
    <3>1. a \in Int /\ b \in Int /\ \A i \in a..b : text[i] \in Characters
      BY <1>1, <2>4
    <3>2. /\ SubSeq(text, a, b) \in Texts
          /\ Len(SubSeq(text, a, b)) = IF a =< b THEN b - a + 1 ELSE 0
          /\ \A i \in 1..(b - a + 1) : SubSeq(text, a, b)[i] = text[a + i - 1]
      BY <3>1, SubSeqProperties DEF Texts
    <3>3. QED
      BY <2>2, <2>4, <3>2
  <2>7. Lists(f, b - a + 1, a..b)
    <3>1. a \in Nat /\ b \in Nat
      BY <1>1, <2>4
    <3>2. f \in [1..(b - a + 1) -> a..b]
      BY <3>1
    <3>3. \A i, j \in 1..(b - a + 1) : i < j => f[i] < f[j]
      BY <3>1
    <3>4. \A k \in a..b : \E i \in 1..(b - a + 1) : f[i] = k
      <4> TAKE k \in a..b
      <4>1. k - a + 1 \in 1..(b - a + 1) /\ a + (k - a + 1) - 1 = k
        BY <3>1
      <4>2. QED
        BY <4>1
    <3>5. QED
      BY <3>2, <3>3, <3>4 DEF Lists
  <2>8. Selects(f, Inside(text), text, Strip(text))
    BY <2>5, <2>6, <2>7 DEF Selects
  <2>9. QED
    BY <2>6, <2>8
<1>4. QED
  BY <1>2, <1>3

Dash(c) == IF c \in {" ", "."} THEN "-" ELSE c

(* What is left before the cut: the kept positions, with every character   *)
(* replaced on its own.                                                    *)
LEMMA DashedSelects ==
  ASSUME NEW text \in Texts
  PROVE  LET stripped == Strip(text)
             dashed == ReplaceAll(ReplaceAll(stripped, " ", "-"), ".", "-")
         IN  /\ dashed \in Texts /\ Len(dashed) = Len(stripped)
             /\ \A i \in 1..Len(stripped) : dashed[i] = Dash(stripped[i])
<1> DEFINE s == Strip(text)
           r == ReplaceAll(s, " ", "-")
           d == ReplaceAll(r, ".", "-")
<1>1. s \in Texts /\ "-" \in Characters
  BY StripSelects, TextsAssumption
<1> HIDE DEF s
<1>2. IsReplaced(r, s, " ", "-")
  BY <1>1, ReplaceAllShape
<1> HIDE DEF r
<1>3. r \in Texts /\ Len(r) = Len(s) /\ \A i \in 1..Len(s) : r[i] = IF s[i] = " " THEN "-" ELSE s[i]
  BY <1>2 DEF IsReplaced
<1>4. IsReplaced(d, r, ".", "-")
  BY <1>1, <1>3, ReplaceAllShape
<1> HIDE DEF d
<1>5. d \in Texts /\ Len(d) = Len(r) /\ \A i \in 1..Len(r) : d[i] = IF r[i] = "." THEN "-" ELSE r[i]
  BY <1>4 DEF IsReplaced
<1>6. \A i \in 1..Len(s) : d[i] = Dash(s[i])
  BY <1>3, <1>5 DEF Dash
<1>7. QED
  BY <1>3, <1>5, <1>6 DEF s, r, d

LEMMA UncutSelects ==
  ASSUME NEW text \in Texts
  PROVE  LET dashed == ReplaceAll(ReplaceAll(Strip(text), " ", "-"), ".", "-")
             uncut == Without(Without(dashed, "*"), ">")
         IN  /\ uncut \in Texts
             /\ \E f : /\ Lists(f, Len(uncut), Kept(text))
                       /\ \A i \in 1..Len(uncut) : uncut[i] = Dash(text[f[i]])
<1> DEFINE s == Strip(text)
           d == ReplaceAll(ReplaceAll(s, " ", "-"), ".", "-")
           v == Without(d, "*")
           w == Without(v, ">")
           D == {i \in 1..Len(d) : d[i] # "*"}
           V == {i \in 1..Len(v) : v[i] # ">"}
<1>1. s \in Texts /\ d \in Texts /\ Len(d) = Len(s) /\ \A i \in 1..Len(s) : d[i] = Dash(s[i])
  BY StripSelects, DashedSelects
<1>2. PICK f : Selects(f, Inside(text), text, s)
  BY StripSelects
<1> HIDE DEF s, d
<1>3. v \in Texts /\ \E g : Selects(g, D, d, v)
  BY <1>1, WithoutSelects
<1>4. PICK g : Selects(g, D, d, v)
  BY <1>3
<1> HIDE DEF v
<1>5. w \in Texts /\ \E h : Selects(h, V, v, w)
  BY <1>3, WithoutSelects
<1>6. PICK h : Selects(h, V, v, w)
  BY <1>5
<1> HIDE DEF w
<1>7. /\ Len(text) \in Nat /\ DOMAIN text = 1..Len(text)
      /\ Len(s) \in Nat /\ Len(d) \in Nat /\ Len(v) \in Nat /\ Len(w) \in Nat
  BY <1>1, <1>3, <1>5, LenProperties DEF Texts
<1> DEFINE n == Len(w)
           gh == Through(g, h, n)
           M == ImageOf(g, V)
           pre == [i \in 1..n |-> s[gh[i]]]
           fgh == Through(f, gh, n)
<1>8. Selects(gh, M, d, w)
  <2>1. D \in SUBSET Nat /\ V \subseteq 1..Len(v)
    BY <1>7
  <2> HIDE DEF D, V
  <2>2. QED
    BY <1>4, <1>6, <1>7, <2>1, SelectsTwice
<1>9. M = {l \in 1..Len(s) : s[l] \notin Wildcards}
  <2>1. /\ g \in [1..Len(v) -> D] /\ \A l \in D : \E i \in 1..Len(v) : g[i] = l
        /\ \A i \in 1..Len(v) : v[i] = d[g[i]]
    BY <1>4 DEF Selects, Lists
  <2>2. \A l \in 1..Len(s) : /\ d[l] = "*" <=> s[l] = "*"
                             /\ d[l] = ">" <=> s[l] = ">"
    BY <1>1 DEF Dash
  <2>3. M = {l \in D : d[l] # ">"}
    BY <2>1 DEF ImageOf
  <2>4. QED
    BY <1>1, <2>2, <2>3 DEF Wildcards
<1> HIDE DEF D, V, M, gh
<1>10. gh \in [1..n -> M] /\ \A i \in 1..n : w[i] = d[gh[i]]
  BY <1>8 DEF Selects, Lists
<1>11. \A i \in 1..n : gh[i] \in 1..Len(s) /\ s[gh[i]] \in Characters
  BY <1>1, <1>9, <1>10, ElementOfSeq DEF Texts
<1> HIDE DEF n
<1>12. pre \in [1..n -> Characters]
  BY <1>11
<1>13. Len(pre) = n
  BY <1>7, <1>12, FunctionIsText DEF n
<1>14. Selects(gh, M, s, pre)
  BY <1>8, <1>13 DEF Selects, n
<1>15. Selects(fgh, ImageOf(f, M), text, pre)
  <2>1. Inside(text) \in SUBSET Nat
    BY <1>7 DEF Inside
  <2>2. Len(pre) \in Nat
    BY <1>7, <1>13 DEF n
  <2>3. M \subseteq 1..Len(s)
    BY <1>9
  <2> HIDE DEF pre
  <2>4. Selects(Through(f, gh, Len(pre)), ImageOf(f, M), text, pre)
    BY <1>2, <1>7, <1>14, <2>1, <2>2, <2>3, SelectsTwice
  <2>5. QED
    BY <1>13, <2>4
<1>16. ImageOf(f, M) = Kept(text)
  <2>1. /\ f \in [1..Len(s) -> Inside(text)]
        /\ \A k \in Inside(text) : \E l \in 1..Len(s) : f[l] = k
        /\ \A l \in 1..Len(s) : s[l] = text[f[l]]
    BY <1>2 DEF Selects, Lists
  <2>2. ImageOf(f, M) = {k \in Inside(text) : text[k] \notin Wildcards}
    BY <1>9, <2>1 DEF ImageOf
  <2>3. QED
    BY <1>7, <2>2 DEF Kept, Inside
<1>17. \A i \in 1..n : w[i] = Dash(text[fgh[i]])
  <2> TAKE i \in 1..n
  <2>1. w[i] = Dash(s[gh[i]])
    BY <1>1, <1>10, <1>11
  <2>2. pre[i] = text[fgh[i]]
    BY <1>13, <1>15 DEF Selects
  <2>3. QED
    BY <2>1, <2>2
<1> HIDE DEF pre, fgh
<1>18. Lists(fgh, n, Kept(text))
  BY <1>13, <1>15, <1>16 DEF Selects
<1>19. QED
  BY <1>5, <1>17, <1>18 DEF s, d, v, w, n

(* A text of the length and without the characters that _slug promises: as *)
(* a token of a subject it adds no dot and matches nothing but itself.     *)
Publishable(t) ==
  /\ t \in Texts /\ Len(t) =< SlugMax
  /\ \A i \in 1..Len(t) : t[i] \notin Wildcards \cup {" ", "."}

(* _slug, with its five passes over a text of any length, is the text of   *)
(* the positions that can be published, each character on its own, cut at  *)
(* the limit: no dot, no space and no wildcard is in it.  Other blanks may *)
(* be: those inside the text are published.                                *)
THEOREM SlugIsCanonical ==
  ASSUME NEW text \in Texts
  PROVE  Slug(text) = Canonical(text) /\ Publishable(Slug(text))
<1> DEFINE d == ReplaceAll(ReplaceAll(Strip(text), " ", "-"), ".", "-")
           w == Without(Without(d, "*"), ">")
           low == Lower(w)
           m == Len(w)
           c == IF m < SlugMax THEN m ELSE SlugMax
           K == Kept(text)
           Nth(n) == CHOOSE i \in K : Cardinality({j \in K : j =< i}) = n
<1>1. /\ w \in Texts
      /\ \E f : Lists(f, m, K) /\ \A i \in 1..m : w[i] = Dash(text[f[i]])
  BY UncutSelects
<1>2. PICK f : Lists(f, m, K) /\ \A i \in 1..m : w[i] = Dash(text[f[i]])
  BY <1>1
<1>3. Slug(text) = SubSeq(low, 1, c)
  <2>1. Len(low) = m
    BY <1>1, LowerShape
  <2>2. Slug(text) = Truncate(low)
    BY DEF Slug
  <2> HIDE DEF low, m
  <2>3. QED
    BY <2>1, <2>2 DEF Truncate
<1> HIDE DEF w
<1>4. low \in Texts /\ Len(low) = m /\ \A i \in 1..m : low[i] = LowerCase(w[i])
  BY <1>1, LowerShape
<1> HIDE DEF low
<1>5. m \in Nat /\ c \in Nat /\ c =< m /\ c =< SlugMax
  BY <1>1, LenProperties, BoundsAssumption DEF Texts
<1>6. K \in SUBSET Nat /\ \A k \in K : text[k] \notin Wildcards
  BY LenProperties DEF Kept, Texts
<1> HIDE DEF m, K
<1>7. Cardinality(K) = m /\ \A n \in 1..m : f[n] = Nth(n) /\ f[n] \in K
  <2>1. Cardinality(K) = m /\ \A n \in 1..m : f[n] = Nth(n)
    BY <1>2, <1>5, <1>6, ListsByRank
  <2>2. \A n \in 1..m : f[n] \in K
    BY <1>2 DEF Lists
  <2>3. QED
    BY <2>1, <2>2
<1> HIDE DEF c
<1>8. /\ Slug(text) \in Texts /\ Len(Slug(text)) = c
      /\ \A i \in 1..c : Slug(text)[i] = low[i]
  <2>1. \A i \in 1..c : i \in 1..Len(low) /\ low[i] \in Characters
    BY <1>4, <1>5, ElementOfSeq DEF Texts
  <2>2. /\ SubSeq(low, 1, c) \in Texts
        /\ Len(SubSeq(low, 1, c)) = IF 1 =< c THEN c - 1 + 1 ELSE 0
        /\ \A i \in 1..(c - 1 + 1) : SubSeq(low, 1, c)[i] = low[1 + i - 1]
    BY <1>5, <2>1, SubSeqProperties DEF Texts
  <2>3. QED
    BY <1>3, <1>5, <2>2
<1>9. \A i \in 1..c : Slug(text)[i] = Published(text[f[i]])
  <2> TAKE i \in 1..c
  <2>1. i \in 1..m
    BY <1>5
  <2>2. Slug(text)[i] = LowerCase(Dash(text[f[i]]))
    BY <1>2, <1>4, <1>8, <2>1
  <2>3. QED
    BY <2>2 DEF LowerCase, Dash, Published
<1>10. Publishable(Slug(text))
  <2>1. ASSUME NEW i \in 1..c PROVE Slug(text)[i] \notin Wildcards \cup {" ", "."}
    <3>1. i \in 1..m
      BY <1>5
    <3> HIDE DEF Nth
    <3>2. text[f[i]] \notin Wildcards
      BY <1>6, <1>7, <3>1
    <3>3. QED
      BY <1>9, <3>2 DEF Published, LowerCase, Wildcards
  <2>2. QED
    BY <1>5, <1>8, <2>1 DEF Publishable
<1>11. Slug(text) = Canonical(text)
  <2>1. Slug(text) = [n \in 1..c |-> Slug(text)[n]]
    BY <1>8, LenProperties DEF Texts
  <2>2. \A n \in 1..c : Slug(text)[n] = Published(text[Nth(n)])
    <3> HIDE DEF Nth
    <3>1. \A n \in 1..c : n \in 1..m
      BY <1>5
    <3>2. QED
      BY <1>7, <1>9, <3>1
  <2>3. c = IF Cardinality(K) < SlugMax THEN Cardinality(K) ELSE SlugMax
    BY <1>7 DEF c
  <2>4. Canonical(text) = [n \in 1..c |-> Published(text[Nth(n)])]
    BY <2>3 DEF Canonical, K
  <2> HIDE DEF Nth
  <2>5. QED
    BY <2>1, <2>2, <2>4
<1>12. QED
  BY <1>10, <1>11

-----------------------------------------------------------------------------
(***************************************************************************)
(* Tokens and verbs                                                        *)
(***************************************************************************)

LEMMA ListedOnce ==
  ASSUME NEW k \in Nat
  PROVE  /\ Cardinality({k}) = 1
         /\ (CHOOSE i \in {k} : Cardinality({j \in {k} : j =< i}) = 1) = k
<1> DEFINE f == [i \in 1..1 |-> k]
<1>1. Lists(f, 1, {k})
  BY DEF Lists
<1>2. f[1] = k /\ {k} \in SUBSET Nat /\ 1 \in Nat /\ 1 \in 1..1
  OBVIOUS
<1> HIDE DEF f
<1>3. QED
  BY <1>1, <1>2, ListsByRank

LEMMA UnknownIsToken ==
  /\ Unknown \in Texts /\ Publishable(Unknown) /\ Canonical(Unknown) = Unknown
  /\ <<>> \in Texts /\ Canonical(<<>>) = <<>>
<1>1. Unknown \in Texts /\ Len(Unknown) = 1 /\ Unknown[1] = "unknown" /\ DOMAIN Unknown = {1}
  BY TextsAssumption DEF Unknown, Texts
<1>2. Publishable(Unknown)
  <2>1. \A i \in 1..Len(Unknown) : i = 1
    BY <1>1
  <2>2. "unknown" \notin Wildcards \cup {" ", "."}
    BY DEF Wildcards
  <2>3. Len(Unknown) =< SlugMax
    BY <1>1, BoundsAssumption
  <2>4. QED
    BY <1>1, <2>1, <2>2, <2>3 DEF Publishable
<1>3. Kept(Unknown) = {1}
  <2>1. "unknown" \notin Wildcards /\ "unknown" \notin Blanks
    BY DEF Wildcards, Blanks
  <2>2. QED
    BY <1>1, <2>1 DEF Kept
<1>4. Canonical(Unknown) = [n \in 1..1 |-> Published("unknown")]
  <2>1. 1 = IF Cardinality({1}) < SlugMax THEN Cardinality({1}) ELSE SlugMax
    BY ListedOnce, BoundsAssumption
  <2>2. Canonical(Unknown) =
          [n \in 1..1 |-> Published(Unknown[CHOOSE i \in {1} : Cardinality({j \in {1} : j =< i}) = n])]
    BY <1>3, <2>1 DEF Canonical
  <2>3. \A n \in 1..1 : n = 1
    OBVIOUS
  <2>4. (CHOOSE i \in {1} : Cardinality({j \in {1} : j =< i}) = 1) = 1
    BY ListedOnce
  <2>5. \A n \in 1..1 :
          (CHOOSE i \in {1} : Cardinality({j \in {1} : j =< i}) = n) = 1
    BY <2>3, <2>4
  <2>6. QED
    BY <1>1, <2>2, <2>5
<1>5. Canonical(Unknown) = Unknown
  BY <1>4 DEF Published, LowerCase, Unknown
<1>6. <<>> \in Texts /\ DOMAIN <<>> = {}
  BY EmptySeq DEF Texts
<1>7. Canonical(<<>>) = <<>>
  <2>1. Kept(<<>>) = {}
    BY <1>6 DEF Kept
  <2> DEFINE K == Kept(<<>>)
             Nth(n) == CHOOSE i \in K : Cardinality({j \in K : j =< i}) = n
  <2>2. 0 = IF Cardinality(K) < SlugMax THEN Cardinality(K) ELSE SlugMax
    BY <2>1, FS_EmptySet, BoundsAssumption
  <2>3. Canonical(<<>>) = [n \in 1..0 |-> Published(<<>>[Nth(n)])]
    BY <2>2 DEF Canonical
  <2>4. 1..0 = {}
    OBVIOUS
  <2>5. QED
    BY <2>3, <2>4
<1>8. QED
  BY <1>1, <1>2, <1>5, <1>6, <1>7

(* What stands in a subject for a field is the field's name, whatever the  *)
(* field holds.                                                            *)
LEMMA TokenIsName ==
  ASSUME NEW value \in Texts \cup {Null}
  PROVE  /\ Token(value) = NameOf(value)
         /\ Publishable(Token(value)) /\ Token(value) # <<>>
<1>1. Null \notin Texts
  BY TextsAssumption
<1>2. Unknown # <<>>
  BY DEF Unknown
<1>3. CASE value \in {Null, <<>>}
  <2>1. Or(value, Unknown) = Unknown
    BY <1>3 DEF Or
  <2>2. Slug(Unknown) = Unknown
    BY SlugIsCanonical, UnknownIsToken
  <2>3. Token(value) = Unknown
    BY <2>1, <2>2 DEF Token, Or
  <2>4. NameOf(value) = Unknown
    BY <1>3, UnknownIsToken DEF NameOf
  <2>5. QED
    BY <1>2, <2>3, <2>4, UnknownIsToken
<1>4. CASE value \notin {Null, <<>>}
  <2>1. Or(value, Unknown) = value /\ value \in Texts
    BY <1>4 DEF Or
  <2>2. Slug(value) = Canonical(value) /\ Publishable(Slug(value))
    BY <2>1, SlugIsCanonical
  <2>3. Slug(value) # Null
    BY <1>1, <2>2 DEF Publishable
  <2>4. Token(value) = IF Canonical(value) = <<>> THEN Unknown ELSE Canonical(value)
    BY <2>1, <2>2, <2>3 DEF Token, Or
  <2>5. QED
    BY <1>2, <1>4, <2>2, <2>4, UnknownIsToken DEF NameOf
<1>5. QED
  BY <1>3, <1>4

LEMMA VerbOfEvent ==
  ASSUME NEW e, NEW kind \in {"agent", "task"}, IsEvent(e, kind)
  PROVE  /\ Verb(e) = <<e[3]>> /\ e = <<kind, ".", e[3]>>
         /\ e[3] \in Characters /\ e[3] \notin Wildcards \cup Blanks \cup {"."}
<1>1. e \in Seq(Characters) /\ Len(e) = 3 /\ e[1] = kind /\ e[2] = "."
  BY DEF IsEvent, Texts
<1>2. e[1] \in Characters /\ e[2] \in Characters /\ e[3] \in Characters
  <2>1. \A i \in 1..3 : e[i] \in Characters
    BY <1>1, ElementOfSeq
  <2>2. 1 \in 1..3 /\ 2 \in 1..3 /\ 3 \in 1..3
    OBVIOUS
  <2>3. QED
    BY <2>1, <2>2
<1>3. e = <<kind, ".", e[3]>>
  BY <1>1
<1>4. Contains(e, ".")
  BY <1>1 DEF Contains
<1>5. e[3] \notin Wildcards \cup Blanks \cup {"."}
  BY DEF IsEvent
<1>6. Verb(e) = SubSeq(e, 3, 3)
  <2> DEFINE I == {i \in 1..Len(e) : e[i] = "."}
  <2>1. I = {2}
    <3>1. e[1] # "." /\ e[2] = "." /\ e[3] # "." /\ Len(e) = 3
      BY <1>1, <1>5
    <3>2. \A i \in 1..3 : i = 1 \/ i = 2 \/ i = 3
      OBVIOUS
    <3>3. QED
      BY <3>1, <3>2
  <2>2. Min({2}) = 2
    BY MinIsLeast
  <2>3. Verb(e) = SubSeq(e, (IF I # {} THEN Min(I) ELSE 0) + 1, Len(e))
    BY <1>4 DEF Verb, SelectInSeq
  <2> HIDE DEF I
  <2>4. QED
    BY <1>1, <2>1, <2>2, <2>3
<1>7. SubSeq(e, 3, 3) = <<e[3]>>
  <2>1. \A i \in 3..3 : e[i] \in Characters
    BY <1>2
  <2>2. /\ SubSeq(e, 3, 3) \in Seq(Characters) /\ Len(SubSeq(e, 3, 3)) = 1
        /\ SubSeq(e, 3, 3)[1] = e[3]
    BY <2>1, SubSeqProperties
  <2>3. <<e[3]>> \in Seq(Characters) /\ Len(<<e[3]>>) = 1 /\ <<e[3]>>[1] = e[3]
    BY <1>2
  <2>4. \A i \in 1..1 : i = 1
    OBVIOUS
  <2>5. QED
    BY <2>2, <2>3, <2>4, SeqEqual
<1>8. QED
  BY <1>2, <1>3, <1>5, <1>6, <1>7

-----------------------------------------------------------------------------
(***************************************************************************)
(* Subjects                                                                *)
(***************************************************************************)

Families == {"agents", "tasks"}

(* Where the parts of a subject stand.                                     *)
HasShape(s, family, t1, t2, v) ==
  /\ s \in Texts /\ Len(s) = 7 + Len(t1) + Len(t2)
  /\ s[1] = "hi" /\ s[2] = "." /\ s[3] = family /\ s[4] = "."
  /\ \A i \in 1..Len(t1) : s[4 + i] = t1[i]
  /\ s[5 + Len(t1)] = "."
  /\ \A i \in 1..Len(t2) : s[5 + Len(t1) + i] = t2[i]
  /\ s[6 + Len(t1) + Len(t2)] = "."
  /\ s[7 + Len(t1) + Len(t2)] = v

LEMMA SubjectHasShape ==
  ASSUME NEW family \in Families, NEW t1 \in Texts, NEW t2 \in Texts, NEW v \in Characters
  PROVE  HasShape(Subject(family, <<t1, t2>>, <<v>>), family, t1, t2, v)
<1> DEFINE h == <<"hi", ".", family, ".">>
           s1 == h \o t1
           s2 == s1 \o <<".">>
           s3 == s2 \o t2
           s4 == s3 \o <<".">>
           s5 == s4 \o <<v>>
           a == Len(t1)
           b == Len(t2)
<1>1. /\ h \in Seq(Characters) /\ Len(h) = 4
      /\ h[1] = "hi" /\ h[2] = "." /\ h[3] = family /\ h[4] = "."
  BY TextsAssumption DEF Families
<1>2. /\ <<".">> \in Seq(Characters) /\ Len(<<".">>) = 1 /\ <<".">>[1] = "."
      /\ <<v>> \in Seq(Characters) /\ Len(<<v>>) = 1 /\ <<v>>[1] = v
  BY TextsAssumption
<1>3. t1 \in Seq(Characters) /\ t2 \in Seq(Characters) /\ a \in Nat /\ b \in Nat
  BY LenProperties DEF Texts
<1> HIDE DEF h
<1>4. /\ s1 \in Seq(Characters) /\ Len(s1) = 4 + a
      /\ \A i \in 1..(4 + a) : s1[i] = IF i =< 4 THEN h[i] ELSE t1[i - 4]
  <2>1. /\ s1 \in Seq(Characters) /\ Len(s1) = Len(h) + Len(t1)
        /\ \A i \in 1..(Len(h) + Len(t1)) : s1[i] = IF i =< Len(h) THEN h[i] ELSE t1[i - Len(h)]
    BY <1>1, <1>3, ConcatProperties
  <2> HIDE DEF s1
  <2>2. QED
    BY <1>1, <2>1
<1> HIDE DEF a, s1
<1>5. /\ s2 \in Seq(Characters) /\ Len(s2) = 5 + a
      /\ \A i \in 1..(5 + a) : s2[i] = IF i =< 4 + a THEN s1[i] ELSE <<".">>[i - (4 + a)]
  <2>1. /\ s2 \in Seq(Characters) /\ Len(s2) = (4 + a) + 1
        /\ \A i \in 1..((4 + a) + 1) : s2[i] = IF i =< 4 + a THEN s1[i] ELSE <<".">>[i - (4 + a)]
    BY <1>2, <1>4, ConcatProperties
  <2>2. (4 + a) + 1 = 5 + a
    BY <1>3
  <2> HIDE DEF s2
  <2>3. QED
    BY <2>1, <2>2
<1> HIDE DEF s2
<1>6. /\ s3 \in Seq(Characters) /\ Len(s3) = 5 + a + b
      /\ \A i \in 1..(5 + a + b) : s3[i] = IF i =< 5 + a THEN s2[i] ELSE t2[i - (5 + a)]
  <2>1. /\ s3 \in Seq(Characters) /\ Len(s3) = Len(s2) + Len(t2)
        /\ \A i \in 1..(Len(s2) + Len(t2)) : s3[i] = IF i =< Len(s2) THEN s2[i] ELSE t2[i - Len(s2)]
    BY <1>3, <1>5, ConcatProperties
  <2> HIDE DEF s3
  <2>2. QED
    BY <1>5, <2>1
<1> HIDE DEF b, s3
<1>7. /\ s4 \in Seq(Characters) /\ Len(s4) = 6 + a + b
      /\ \A i \in 1..(6 + a + b) :
           s4[i] = IF i =< 5 + a + b THEN s3[i] ELSE <<".">>[i - (5 + a + b)]
  <2>1. /\ s4 \in Seq(Characters) /\ Len(s4) = (5 + a + b) + 1
        /\ \A i \in 1..((5 + a + b) + 1) :
             s4[i] = IF i =< 5 + a + b THEN s3[i] ELSE <<".">>[i - (5 + a + b)]
    BY <1>2, <1>6, ConcatProperties
  <2>2. (5 + a + b) + 1 = 6 + a + b
    BY <1>3
  <2> HIDE DEF s4
  <2>3. QED
    BY <2>1, <2>2
<1> HIDE DEF s4
<1>8. /\ s5 \in Seq(Characters) /\ Len(s5) = 7 + a + b
      /\ \A i \in 1..(7 + a + b) :
           s5[i] = IF i =< 6 + a + b THEN s4[i] ELSE <<v>>[i - (6 + a + b)]
  <2>1. /\ s5 \in Seq(Characters) /\ Len(s5) = (6 + a + b) + 1
        /\ \A i \in 1..((6 + a + b) + 1) :
             s5[i] = IF i =< 6 + a + b THEN s4[i] ELSE <<v>>[i - (6 + a + b)]
    BY <1>2, <1>7, ConcatProperties
  <2>2. (6 + a + b) + 1 = 7 + a + b
    BY <1>3
  <2> HIDE DEF s5
  <2>3. QED
    BY <2>1, <2>2
<1> HIDE DEF s5
<1>9. ASSUME NEW i \in 1..(4 + a) PROVE s5[i] = s1[i]
  BY <1>3, <1>4, <1>5, <1>6, <1>7, <1>8
<1>10. ASSUME NEW i \in (5 + a)..(5 + a + b) PROVE s5[i] = s3[i]
  BY <1>3, <1>6, <1>7, <1>8
<1>11. s5[1] = "hi" /\ s5[2] = "." /\ s5[3] = family /\ s5[4] = "."
  <2>1. 1 \in 1..(4 + a) /\ 2 \in 1..(4 + a) /\ 3 \in 1..(4 + a) /\ 4 \in 1..(4 + a)
    BY <1>3
  <2>2. s1[1] = h[1] /\ s1[2] = h[2] /\ s1[3] = h[3] /\ s1[4] = h[4]
    BY <1>4, <2>1
  <2>3. QED
    BY <1>1, <1>9, <2>1, <2>2
<1>12. \A i \in 1..a : s5[4 + i] = t1[i]
  <2> TAKE i \in 1..a
  <2>1. 4 + i \in 1..(4 + a) /\ ~(4 + i =< 4) /\ (4 + i) - 4 = i
    BY <1>3
  <2>2. s1[4 + i] = t1[i]
    BY <1>4, <2>1
  <2>3. QED
    BY <1>9, <2>1, <2>2
<1>13. s5[5 + a] = "."
  <2>1. /\ 5 + a \in 1..(5 + a) /\ 5 + a \in 1..(5 + a + b) /\ 5 + a \in (5 + a)..(5 + a + b)
        /\ ~(5 + a =< 4 + a) /\ (5 + a) - (4 + a) = 1 /\ 5 + a =< 5 + a
    BY <1>3
  <2>2. s2[5 + a] = "."
    BY <1>2, <1>5, <2>1
  <2>3. s3[5 + a] = s2[5 + a]
    BY <1>6, <2>1
  <2>4. QED
    BY <1>10, <2>1, <2>2, <2>3
<1>14. \A i \in 1..b : s5[5 + a + i] = t2[i]
  <2> TAKE i \in 1..b
  <2>1. /\ 5 + a + i \in 1..(5 + a + b) /\ 5 + a + i \in (5 + a)..(5 + a + b)
        /\ ~(5 + a + i =< 5 + a) /\ (5 + a + i) - (5 + a) = i
    BY <1>3
  <2>2. s3[5 + a + i] = t2[i]
    BY <1>6, <2>1
  <2>3. QED
    BY <1>10, <2>1, <2>2
<1>15. s5[6 + a + b] = "."
  <2>1. /\ 6 + a + b \in 1..(6 + a + b) /\ 6 + a + b \in 1..(7 + a + b)
        /\ ~(6 + a + b =< 5 + a + b) /\ (6 + a + b) - (5 + a + b) = 1
        /\ 6 + a + b =< 6 + a + b
    BY <1>3
  <2>2. QED
    BY <1>2, <1>7, <1>8, <2>1
<1>16. s5[7 + a + b] = v
  <2>1. /\ 7 + a + b \in 1..(7 + a + b)
        /\ ~(7 + a + b =< 6 + a + b) /\ (7 + a + b) - (6 + a + b) = 1
    BY <1>3
  <2>2. QED
    BY <1>2, <1>8, <2>1
<1>17. s5 = Subject(family, <<t1, t2>>, <<v>>)
  BY DEF s5, s4, s3, s2, s1, h, Subject
<1>18. HasShape(s5, family, t1, t2, v)
  BY <1>8, <1>11, <1>12, <1>13, <1>14, <1>15, <1>16 DEF HasShape, Texts, a, b
<1>19. QED
  BY <1>17, <1>18

(* Two subjects of this shape are one only if they agree in every part:    *)
(* the first token ends at the first dot after the prefix.                 *)
LEMMA ShapeIdentifies ==
  ASSUME NEW s, NEW f, NEW t1, NEW t2, NEW v, NEW g, NEW u1, NEW u2, NEW w,
         Publishable(t1), Publishable(t2), Publishable(u1), Publishable(u2),
         HasShape(s, f, t1, t2, v), HasShape(s, g, u1, u2, w)
  PROVE  f = g /\ t1 = u1 /\ t2 = u2 /\ v = w
<1>1. /\ t1 \in Seq(Characters) /\ t2 \in Seq(Characters)
      /\ u1 \in Seq(Characters) /\ u2 \in Seq(Characters)
      /\ Len(t1) \in Nat /\ Len(t2) \in Nat /\ Len(u1) \in Nat /\ Len(u2) \in Nat
  BY LenProperties DEF Publishable, Texts
<1>2. /\ \A i \in 1..Len(t1) : t1[i] # "."
      /\ \A i \in 1..Len(u1) : u1[i] # "."
  BY DEF Publishable
<1>3. /\ Len(s) = 7 + Len(t1) + Len(t2) /\ s[3] = f
      /\ \A i \in 1..Len(t1) : s[4 + i] = t1[i]
      /\ s[5 + Len(t1)] = "."
      /\ \A i \in 1..Len(t2) : s[5 + Len(t1) + i] = t2[i]
      /\ s[7 + Len(t1) + Len(t2)] = v
  BY DEF HasShape
<1>4. /\ Len(s) = 7 + Len(u1) + Len(u2) /\ s[3] = g
      /\ \A i \in 1..Len(u1) : s[4 + i] = u1[i]
      /\ s[5 + Len(u1)] = "."
      /\ \A i \in 1..Len(u2) : s[5 + Len(u1) + i] = u2[i]
      /\ s[7 + Len(u1) + Len(u2)] = w
  BY DEF HasShape
<1>5. Len(t1) = Len(u1)
  <2>1. ~(Len(t1) < Len(u1))
    <3> SUFFICES ASSUME Len(t1) < Len(u1) PROVE FALSE
      OBVIOUS
    <3>1. Len(t1) + 1 \in 1..Len(u1) /\ 4 + (Len(t1) + 1) = 5 + Len(t1)
      BY <1>1
    <3>2. u1[Len(t1) + 1] = "."
      BY <1>3, <1>4, <3>1
    <3>3. QED
      BY <1>2, <3>1, <3>2
  <2>2. ~(Len(u1) < Len(t1))
    <3> SUFFICES ASSUME Len(u1) < Len(t1) PROVE FALSE
      OBVIOUS
    <3>1. Len(u1) + 1 \in 1..Len(t1) /\ 4 + (Len(u1) + 1) = 5 + Len(u1)
      BY <1>1
    <3>2. t1[Len(u1) + 1] = "."
      BY <1>3, <1>4, <3>1
    <3>3. QED
      BY <1>2, <3>1, <3>2
  <2>3. QED
    BY <1>1, <2>1, <2>2
<1>6. Len(t2) = Len(u2)
  BY <1>1, <1>3, <1>4, <1>5
<1>7. t1 = u1
  <2>1. \A i \in 1..Len(t1) : t1[i] = u1[i]
    BY <1>3, <1>4, <1>5
  <2>2. QED
    BY <1>1, <1>5, <2>1, SeqEqual
<1>8. t2 = u2
  <2>1. \A i \in 1..Len(t2) : t2[i] = u2[i]
    BY <1>3, <1>4, <1>5, <1>6
  <2>2. QED
    BY <1>1, <1>6, <2>1, SeqEqual
<1>9. f = g /\ v = w
  BY <1>3, <1>4, <1>5, <1>6
<1>10. QED
  BY <1>7, <1>8, <1>9

(* The dots are the four the code writes.                                  *)
LEMMA ShapeDots ==
  ASSUME NEW s, NEW f, NEW t1, NEW t2, NEW v,
         Publishable(t1), Publishable(t2), f # ".", v # ".",
         HasShape(s, f, t1, t2, v)
  PROVE  \A n \in 1..Len(s) :
           s[n] = "." <=> n \in {2, 4, 5 + Len(t1), 6 + Len(t1) + Len(t2)}
<1> DEFINE a == Len(t1)
           b == Len(t2)
<1>1. a \in Nat /\ b \in Nat
  BY LenProperties DEF Publishable, Texts
<1>2. /\ Len(s) = 7 + a + b
      /\ s[1] = "hi" /\ s[2] = "." /\ s[3] = f /\ s[4] = "."
      /\ \A i \in 1..a : s[4 + i] = t1[i]
      /\ s[5 + a] = "."
      /\ \A i \in 1..b : s[5 + a + i] = t2[i]
      /\ s[6 + a + b] = "." /\ s[7 + a + b] = v
  BY DEF HasShape
<1>3. (\A i \in 1..a : t1[i] # ".") /\ \A i \in 1..b : t2[i] # "."
  BY DEF Publishable
<1> HIDE DEF a, b
<1>4. SUFFICES ASSUME NEW n \in 1..(7 + a + b)
               PROVE  s[n] = "." <=> n \in {2, 4, 5 + a, 6 + a + b}
  BY <1>2 DEF a, b
<1>5. CASE n \in 1..4
  <2>1. n \notin {5 + a, 6 + a + b} /\ (n = 1 \/ n = 2 \/ n = 3 \/ n = 4)
    BY <1>1, <1>5
  <2>2. QED
    BY <1>2, <2>1
<1>6. CASE n \in 5..(4 + a)
  <2>1. n - 4 \in 1..a /\ 4 + (n - 4) = n /\ n \notin {2, 4, 5 + a, 6 + a + b}
    BY <1>1, <1>6
  <2>2. QED
    BY <1>2, <1>3, <2>1
<1>7. CASE n \in (6 + a)..(5 + a + b)
  <2>1. /\ n - (5 + a) \in 1..b /\ 5 + a + (n - (5 + a)) = n
        /\ n \notin {2, 4, 5 + a, 6 + a + b}
    BY <1>1, <1>7
  <2>2. QED
    BY <1>2, <1>3, <2>1
<1>8. CASE n = 5 + a \/ n = 6 + a + b
  BY <1>2, <1>8
<1>9. CASE n = 7 + a + b
  <2>1. n \notin {2, 4, 5 + a, 6 + a + b}
    BY <1>1, <1>9
  <2>2. QED
    BY <1>2, <1>9, <2>1
<1>10. QED
  BY <1>1, <1>4, <1>5, <1>6, <1>7, <1>8, <1>9

LEMMA TwoPositions ==
  ASSUME NEW p \in Nat, NEW q \in Nat, p # q
  PROVE  IsFiniteSet({p, q}) /\ Cardinality({p, q}) = 2
<1>1. IsFiniteSet({p}) /\ Cardinality({p}) = 1
  BY FS_Singleton
<1>2. IsFiniteSet({p} \cup {q}) /\ Cardinality({p} \cup {q}) = 1 + 1
  BY <1>1, FS_AddElement
<1>3. {p, q} = {p} \cup {q}
  OBVIOUS
<1>4. QED
  BY <1>2, <1>3

LEMMA FourPositions ==
  ASSUME NEW p \in Nat, NEW q \in Nat, p # q, 4 < p, 4 < q
  PROVE  Cardinality({2, 4, p, q}) = 4
<1>1. IsFiniteSet({2, 4}) /\ Cardinality({2, 4}) = 2
  BY TwoPositions
<1>2. p \notin {2, 4} /\ q \notin {2, 4} \cup {p}
  OBVIOUS
<1>3. IsFiniteSet({2, 4} \cup {p}) /\ Cardinality({2, 4} \cup {p}) = 2 + 1
  BY <1>1, <1>2, FS_AddElement
<1>4. Cardinality(({2, 4} \cup {p}) \cup {q}) = (2 + 1) + 1
  BY <1>2, <1>3, FS_AddElement
<1>5. {2, 4, p, q} = ({2, 4} \cup {p}) \cup {q}
  OBVIOUS
<1>6. QED
  BY <1>4, <1>5

(* A filter matches the subjects of its own family.                        *)
LEMMA CapturedByFamily ==
  ASSUME NEW s \in Texts, Len(s) > 4, NEW family,
         s[1] = "hi", s[2] = ".", s[3] = family, s[4] = ".",
         NEW st \in Streams
  PROVE  Captures(st, s) <=> (OneArgument(s) /\ NoEmptyToken(s) /\ st = family)
<1> DEFINE h == <<"hi", ".", st, ".">>
<1>1. /\ h \in Seq(Characters) /\ Len(h) = 4
      /\ h[1] = "hi" /\ h[2] = "." /\ h[3] = st /\ h[4] = "."
  BY TextsAssumption DEF Streams
<1>2. s \in Seq(Characters) /\ Len(s) \in Nat /\ \A i \in 1..4 : s[i] \in Characters
  BY LenProperties, ElementOfSeq DEF Texts
<1>3. /\ SubSeq(s, 1, 4) \in Seq(Characters) /\ Len(SubSeq(s, 1, 4)) = 4
      /\ \A i \in 1..4 : SubSeq(s, 1, 4)[i] = s[i]
  BY <1>2, SubSeqProperties
<1>4. /\ SubSeq(h, 1, 4) \in Seq(Characters) /\ Len(SubSeq(h, 1, 4)) = 4
      /\ \A i \in 1..4 : SubSeq(h, 1, 4)[i] = h[i]
  <2>1. \A i \in 1..4 : h[i] \in Characters
    BY <1>1, ElementOfSeq
  <2> HIDE DEF h
  <2>2. QED
    BY <2>1, SubSeqProperties
<1> HIDE DEF h
<1>5. h # s
  <2> SUFFICES ASSUME h = s PROVE FALSE
    OBVIOUS
  <2>1. Len(s) = 4
    BY <1>1
  <2>2. QED
    BY <2>1
<1>6. SubSeq(h, 1, 4) = SubSeq(s, 1, 4) <=> st = family
  <2>1. 1 \in 1..4 /\ 2 \in 1..4 /\ 3 \in 1..4 /\ 4 \in 1..4
    OBVIOUS
  <2>2. \A i \in 1..4 : i = 1 \/ i = 2 \/ i = 3 \/ i = 4
    OBVIOUS
  <2>3. SubSeq(h, 1, 4) = SubSeq(s, 1, 4) => st = family
    BY <1>1, <1>3, <1>4, <2>1
  <2>4. ASSUME st = family PROVE SubSeq(h, 1, 4) = SubSeq(s, 1, 4)
    <3>1. \A i \in 1..4 : SubSeq(h, 1, 4)[i] = SubSeq(s, 1, 4)[i]
      BY <1>1, <1>3, <1>4, <2>2, <2>4
    <3>2. QED
      BY <1>3, <1>4, <3>1, SeqEqual
  <2>5. QED
    BY <2>3, <2>4
<1>7. IsStrictPrefix(h, s) <=> st = family
  BY <1>1, <1>2, <1>5, <1>6 DEF IsStrictPrefix, IsPrefix
<1>8. QED
  BY <1>7 DEF Captures, h

LEMMA ShapeParts ==
  ASSUME NEW s, NEW f, NEW t1, NEW t2, NEW v,
         Publishable(t1), Publishable(t2), HasShape(s, f, t1, t2, v),
         NEW n \in 1..Len(s)
  PROVE  s[n] \in {"hi", ".", f, v} \/ s[n] \notin Wildcards \cup {" "}
<1> DEFINE a == Len(t1)
           b == Len(t2)
<1>1. a \in Nat /\ b \in Nat
  BY LenProperties DEF Publishable, Texts
<1>2. /\ Len(s) = 7 + a + b
      /\ s[1] = "hi" /\ s[2] = "." /\ s[3] = f /\ s[4] = "."
      /\ \A i \in 1..a : s[4 + i] = t1[i]
      /\ s[5 + a] = "."
      /\ \A i \in 1..b : s[5 + a + i] = t2[i]
      /\ s[6 + a + b] = "." /\ s[7 + a + b] = v
  BY DEF HasShape
<1>3. /\ \A i \in 1..a : t1[i] \notin Wildcards \cup {" "}
      /\ \A i \in 1..b : t2[i] \notin Wildcards \cup {" "}
  BY DEF Publishable
<1> HIDE DEF a, b
<1>4. CASE n \in 1..4
  <2>1. n = 1 \/ n = 2 \/ n = 3 \/ n = 4
    BY <1>4
  <2>2. QED
    BY <1>2, <2>1
<1>5. CASE n \in 5..(4 + a)
  <2>1. n - 4 \in 1..a /\ 4 + (n - 4) = n
    BY <1>1, <1>5
  <2>2. QED
    BY <1>2, <1>3, <2>1
<1>6. CASE n \in (6 + a)..(5 + a + b)
  <2>1. n - (5 + a) \in 1..b /\ 5 + a + (n - (5 + a)) = n
    BY <1>1, <1>6
  <2>2. QED
    BY <1>2, <1>3, <2>1
<1>7. CASE n = 5 + a \/ n = 6 + a + b \/ n = 7 + a + b
  BY <1>2, <1>7
<1>8. n \in 1..(7 + a + b)
  BY <1>2
<1>9. \/ n \in 1..4 \/ n \in 5..(4 + a) \/ n \in (6 + a)..(5 + a + b)
      \/ n = 5 + a \/ n = 6 + a + b \/ n = 7 + a + b
  BY <1>1, <1>8
<1>10. QED
  BY <1>4, <1>5, <1>6, <1>7, <1>9

(* No token is empty, so no two dots meet.                                 *)
LEMMA ShapeNoEmptyToken ==
  ASSUME NEW s, NEW f, NEW t1, NEW t2, NEW v,
         Publishable(t1), Publishable(t2), t1 # <<>>, t2 # <<>>, f # ".", v # ".",
         HasShape(s, f, t1, t2, v)
  PROVE  NoEmptyToken(s)
<1> DEFINE a == Len(t1)
           b == Len(t2)
<1>1. t1 \in Seq(Characters) /\ t2 \in Seq(Characters)
  BY DEF Publishable, Texts
<1>2. a \in Nat \ {0} /\ b \in Nat \ {0}
  BY <1>1, LenProperties, EmptySeq
<1>3. /\ s \in Seq(Characters) /\ Len(s) = 7 + a + b /\ s[1] = "hi" /\ s[7 + a + b] = v
  BY DEF HasShape, Texts
<1>4. \A n \in 1..Len(s) : s[n] = "." <=> n \in {2, 4, 5 + a, 6 + a + b}
  BY ShapeDots
<1> HIDE DEF a, b
<1>5. s # <<>>
  <2> SUFFICES ASSUME s = <<>> PROVE FALSE
    OBVIOUS
  <2>1. Len(s) = 0
    BY EmptySeq
  <2>2. QED
    BY <1>2, <1>3, <2>1
<1>6. s[1] # "." /\ Last(s) # "."
  BY <1>3 DEF Last
<1>7. ASSUME NEW i \in 1..(Len(s) - 1), s[i] = ".", s[i + 1] = "."
      PROVE  FALSE
  <2>1. i \in 1..Len(s) /\ i + 1 \in 1..Len(s)
    BY <1>2, <1>3
  <2>2. i \in {2, 4, 5 + a, 6 + a + b} /\ i + 1 \in {2, 4, 5 + a, 6 + a + b}
    BY <1>4, <1>7, <2>1
  <2>3. QED
    BY <1>2, <2>2
<1>8. QED
  BY <1>5, <1>6, <1>7 DEF NoEmptyToken

(* A subject is one argument if both names in it are.                      *)
LEMMA ShapeOneArgument ==
  ASSUME NEW s, NEW f, NEW t1, NEW t2, NEW v,
         t1 \in Texts, t2 \in Texts, HasShape(s, f, t1, t2, v),
         f \notin Separators, v \notin Separators
  PROVE  OneArgument(s) <=> OneArgument(t1) /\ OneArgument(t2)
<1> DEFINE a == Len(t1)
           b == Len(t2)
<1>1. a \in Nat /\ b \in Nat
  BY LenProperties DEF Texts
<1>2. /\ Len(s) = 7 + a + b
      /\ s[1] = "hi" /\ s[2] = "." /\ s[3] = f /\ s[4] = "."
      /\ \A i \in 1..a : s[4 + i] = t1[i]
      /\ s[5 + a] = "."
      /\ \A i \in 1..b : s[5 + a + i] = t2[i]
      /\ s[6 + a + b] = "." /\ s[7 + a + b] = v
  BY DEF HasShape
<1>3. "hi" \notin Separators /\ "." \notin Separators
  BY DEF Separators
<1>4. ASSUME OneArgument(s) PROVE OneArgument(t1) /\ OneArgument(t2)
  <2>1. \A i \in 1..(7 + a + b) : s[i] \notin Separators
    BY <1>2, <1>4 DEF OneArgument
  <2> HIDE DEF a, b
  <2>2. \A i \in 1..a : 4 + i \in 1..(7 + a + b)
    BY <1>1
  <2>3. \A i \in 1..b : 5 + a + i \in 1..(7 + a + b)
    BY <1>1
  <2>4. \A i \in 1..a : t1[i] \notin Separators
    BY <1>2, <2>1, <2>2
  <2>5. \A i \in 1..b : t2[i] \notin Separators
    BY <1>2, <2>1, <2>3
  <2>6. QED
    BY <2>4, <2>5 DEF OneArgument, a, b
<1>5. ASSUME OneArgument(t1), OneArgument(t2) PROVE OneArgument(s)
  <2>1. /\ \A i \in 1..a : t1[i] \notin Separators
        /\ \A i \in 1..b : t2[i] \notin Separators
    BY <1>5 DEF OneArgument
  <2> HIDE DEF a, b
  <2> SUFFICES ASSUME NEW n \in 1..(7 + a + b) PROVE s[n] \notin Separators
    BY <1>2 DEF OneArgument
  <2>2. CASE n \in 1..4
    <3>1. n = 1 \/ n = 2 \/ n = 3 \/ n = 4
      BY <2>2
    <3>2. QED
      BY <1>2, <1>3, <3>1
  <2>3. CASE n \in 5..(4 + a)
    <3>1. n - 4 \in 1..a /\ 4 + (n - 4) = n
      BY <1>1, <2>3
    <3>2. QED
      BY <1>2, <2>1, <3>1
  <2>4. CASE n \in (6 + a)..(5 + a + b)
    <3>1. n - (5 + a) \in 1..b /\ 5 + a + (n - (5 + a)) = n
      BY <1>1, <2>4
    <3>2. QED
      BY <1>2, <2>1, <3>1
  <2>5. CASE n = 5 + a \/ n = 6 + a + b \/ n = 7 + a + b
    BY <1>2, <1>3, <2>5
  <2>6. \/ n \in 1..4 \/ n \in 5..(4 + a) \/ n \in (6 + a)..(5 + a + b)
        \/ n = 5 + a \/ n = 6 + a + b \/ n = 7 + a + b
    BY <1>1
  <2>7. QED
    BY <2>2, <2>3, <2>4, <2>5, <2>6
<1>6. QED
  BY <1>4, <1>5

-----------------------------------------------------------------------------
(***************************************************************************)
(* Dead-letter subjects                                                    *)
(***************************************************************************)

IsDead(s, t) ==
  /\ s \in Texts /\ Len(s) = 4 + Len(t)
  /\ s[1] = "hi" /\ s[2] = "." /\ s[3] = "deadletter" /\ s[4] = "."
  /\ \A i \in 1..Len(t) : s[4 + i] = t[i]

LEMMA DeadHasShape ==
  ASSUME NEW event \in Texts
  PROVE  IsDead(DeadSubject(event), Slug(event))
<1> DEFINE h == <<"hi", ".", "deadletter", ".">>
           t == Slug(event)
           s == h \o t
<1>1. /\ h \in Seq(Characters) /\ Len(h) = 4
      /\ h[1] = "hi" /\ h[2] = "." /\ h[3] = "deadletter" /\ h[4] = "."
  BY TextsAssumption
<1>2. t \in Seq(Characters) /\ Len(t) \in Nat
  BY SlugIsCanonical, LenProperties DEF Publishable, Texts
<1> HIDE DEF h, t
<1>3. /\ s \in Seq(Characters) /\ Len(s) = Len(h) + Len(t)
      /\ \A i \in 1..(Len(h) + Len(t)) : s[i] = IF i =< Len(h) THEN h[i] ELSE t[i - Len(h)]
  BY <1>1, <1>2, ConcatProperties
<1>4. s = DeadSubject(event)
  BY DEF DeadSubject, h, t
<1> HIDE DEF s
<1>5. /\ s \in Seq(Characters) /\ Len(s) = 4 + Len(t)
      /\ \A i \in 1..(4 + Len(t)) : s[i] = IF i =< 4 THEN h[i] ELSE t[i - 4]
  BY <1>1, <1>3
<1>6. s[1] = h[1] /\ s[2] = h[2] /\ s[3] = h[3] /\ s[4] = h[4]
  BY <1>2, <1>5
<1>7. \A i \in 1..Len(t) : s[4 + i] = t[i]
  <2> TAKE i \in 1..Len(t)
  <2>1. 4 + i \in 1..(4 + Len(t)) /\ ~(4 + i =< 4) /\ (4 + i) - 4 = i
    BY <1>2
  <2>2. QED
    BY <1>5, <2>1
<1>8. IsDead(s, t)
  BY <1>1, <1>5, <1>6, <1>7 DEF IsDead, Texts
<1>9. QED
  BY <1>4, <1>8 DEF t

LEMMA DeadIdentifies ==
  ASSUME NEW s, NEW t, NEW u, Publishable(t), Publishable(u), IsDead(s, t), IsDead(s, u)
  PROVE  t = u
<1>1. /\ t \in Seq(Characters) /\ u \in Seq(Characters)
      /\ Len(t) \in Nat /\ Len(u) \in Nat
  BY LenProperties DEF Publishable, Texts
<1>2. Len(s) = 4 + Len(t) /\ \A i \in 1..Len(t) : s[4 + i] = t[i]
  BY DEF IsDead
<1>3. Len(s) = 4 + Len(u) /\ \A i \in 1..Len(u) : s[4 + i] = u[i]
  BY DEF IsDead
<1>4. Len(t) = Len(u)
  BY <1>1, <1>2, <1>3
<1>5. \A i \in 1..Len(t) : t[i] = u[i]
  BY <1>2, <1>3, <1>4
<1>6. QED
  BY <1>1, <1>4, <1>5, SeqEqual

(* Only a name of which nothing can be published leaves an empty token.    *)
LEMMA DeadSubjects ==
  ASSUME NEW s, NEW t, Publishable(t), IsDead(s, t)
  PROVE  /\ NoEmptyToken(s) <=> t # <<>>
         /\ OneArgument(s) <=> OneArgument(t)
         /\ \A n \in 1..Len(s) : /\ s[n] = "." <=> n \in {2, 4}
                                 /\ s[n] \notin Wildcards \cup {" "}
<1>1. t \in Seq(Characters) /\ Len(t) \in Nat
  BY LenProperties DEF Publishable, Texts
<1>2. /\ s \in Seq(Characters) /\ Len(s) = 4 + Len(t)
      /\ s[1] = "hi" /\ s[2] = "." /\ s[3] = "deadletter" /\ s[4] = "."
      /\ \A i \in 1..Len(t) : s[4 + i] = t[i]
  BY DEF IsDead, Texts
<1>3. \A i \in 1..Len(t) : t[i] # "." /\ t[i] \notin Wildcards \cup {" "}
  BY DEF Publishable
<1>4. ASSUME NEW n \in 1..(4 + Len(t))
      PROVE  /\ s[n] = "." <=> n \in {2, 4}
             /\ s[n] \notin Wildcards \cup {" "}
  <2>1. CASE n \in 1..4
    <3>1. n = 1 \/ n = 2 \/ n = 3 \/ n = 4
      BY <2>1
    <3>2. QED
      BY <1>2, <3>1 DEF Wildcards
  <2>2. CASE n \in 5..(4 + Len(t))
    <3>1. n - 4 \in 1..Len(t) /\ 4 + (n - 4) = n /\ n \notin {2, 4}
      BY <1>1, <2>2
    <3>2. s[n] = t[n - 4]
      BY <1>2, <3>1
    <3>3. QED
      BY <1>3, <3>1, <3>2
  <2>3. n \in 1..4 \/ n \in 5..(4 + Len(t))
    BY <1>1
  <2>4. QED
    BY <2>1, <2>2, <2>3
<1>5. NoEmptyToken(s) => t # <<>>
  <2> SUFFICES ASSUME NoEmptyToken(s), t = <<>> PROVE FALSE
    OBVIOUS
  <2>1. Len(t) = 0
    BY EmptySeq
  <2>2. Last(s) = "."
    BY <1>2, <2>1 DEF Last
  <2>3. QED
    BY <2>2 DEF NoEmptyToken
<1>6. ASSUME t # <<>> PROVE NoEmptyToken(s)
  <2>1. Len(t) \in Nat \ {0}
    BY <1>1, <1>6, EmptySeq
  <2>2. s # <<>>
    <3> SUFFICES ASSUME s = <<>> PROVE FALSE
      OBVIOUS
    <3>1. Len(s) = 0
      BY EmptySeq
    <3>2. QED
      BY <1>2, <2>1, <3>1
  <2>3. s[1] # "." /\ Last(s) # "."
    <3>1. 4 + Len(t) \in 1..(4 + Len(t)) /\ 4 + Len(t) \notin {2, 4}
      BY <2>1
    <3>2. QED
      BY <1>2, <1>4, <3>1 DEF Last
  <2>4. ASSUME NEW i \in 1..(Len(s) - 1), s[i] = ".", s[i + 1] = "."
        PROVE  FALSE
    <3>1. i \in 1..(4 + Len(t)) /\ i + 1 \in 1..(4 + Len(t))
      BY <1>1, <1>2
    <3>2. i \in {2, 4} /\ i + 1 \in {2, 4}
      BY <1>4, <2>4, <3>1
    <3>3. QED
      BY <3>2
  <2>5. QED
    BY <2>2, <2>3, <2>4 DEF NoEmptyToken
<1>7. "hi" \notin Separators /\ "." \notin Separators /\ "deadletter" \notin Separators
  BY DEF Separators
<1>8. ASSUME OneArgument(s) PROVE OneArgument(t)
  <2>1. \A i \in 1..Len(t) : 4 + i \in 1..(4 + Len(t))
    BY <1>1
  <2>2. \A i \in 1..Len(t) : s[4 + i] \notin Separators
    BY <1>2, <1>8, <2>1 DEF OneArgument
  <2>3. QED
    BY <1>2, <2>2 DEF OneArgument
<1>9. ASSUME OneArgument(t) PROVE OneArgument(s)
  <2> SUFFICES ASSUME NEW n \in 1..(4 + Len(t)) PROVE s[n] \notin Separators
    BY <1>2 DEF OneArgument
  <2>1. CASE n \in 1..4
    <3>1. n = 1 \/ n = 2 \/ n = 3 \/ n = 4
      BY <2>1
    <3>2. QED
      BY <1>2, <1>7, <3>1
  <2>2. CASE n \in 5..(4 + Len(t))
    <3>1. n - 4 \in 1..Len(t) /\ 4 + (n - 4) = n
      BY <1>1, <2>2
    <3>2. s[n] = t[n - 4]
      BY <1>2, <3>1
    <3>3. QED
      BY <1>9, <3>1, <3>2 DEF OneArgument
  <2>3. n \in 1..4 \/ n \in 5..(4 + Len(t))
    BY <1>1
  <2>4. QED
    BY <2>1, <2>2, <2>3
<1>10. QED
  BY <1>2, <1>4, <1>5, <1>6, <1>8, <1>9

-----------------------------------------------------------------------------
(***************************************************************************)
(* What publish() sends                                                    *)
(***************************************************************************)

Family(p) == IF p.event \in AgentEvents THEN "agents" ELSE "tasks"
Name1(p) == NameOf(Named(p)[1])
Name2(p) == NameOf(Named(p)[2])

LEMMA PayloadTypes ==
  ASSUME NEW p \in Payloads
  PROVE  p.event \in Texts /\ Named(p)[1] \in Texts \cup {Null} /\ Named(p)[2] \in Texts \cup {Null}
<1>1. p.event \in Texts /\ p.data \in [Fields -> Texts \cup {Null}]
  BY TextsAssumption
<1>2. \A f \in Fields : p.data[f] \in Texts \cup {Null}
  BY <1>1
<1>3. /\ p.data.hostId \in Texts \cup {Null} /\ p.data.host \in Texts \cup {Null}
      /\ p.data.name \in Texts \cup {Null} /\ p.data.teamId \in Texts \cup {Null}
      /\ p.data.team_id \in Texts \cup {Null} /\ p.data.id \in Texts \cup {Null}
      /\ p.data.task_id \in Texts \cup {Null}
  BY <1>2 DEF Fields
<1>4. \A x, y \in Texts \cup {Null} : Or(x, y) \in Texts \cup {Null}
  BY DEF Or
<1>5. QED
  BY <1>1, <1>3, <1>4 DEF Named

LEMMA KnownEventParts ==
  ASSUME NEW e \in KnownEvents
  PROVE  /\ \E kind \in {"agent", "task"} : IsEvent(e, kind) /\ e = <<kind, ".", e[3]>>
         /\ e \in AgentEvents <=> e[1] = "agent"
         /\ Verb(e) = <<e[3]>> /\ Len(e) = 3 /\ e[3] \in Characters
         /\ e[3] \notin Wildcards \cup Blanks \cup {"."}
<1>1. CASE e \in AgentEvents
  <2>1. IsEvent(e, "agent") /\ e[1] = "agent" /\ Len(e) = 3
    BY <1>1, EventsAssumption DEF IsEvent
  <2>2. "agent" \in {"agent", "task"}
    OBVIOUS
  <2>3. QED
    BY <1>1, <2>1, <2>2, VerbOfEvent
<1>2. CASE e \notin AgentEvents
  <2>1. IsEvent(e, "task") /\ e[1] = "task" /\ Len(e) = 3
    BY <1>2, EventsAssumption DEF IsEvent, KnownEvents
  <2>2. "task" \in {"agent", "task"}
    OBVIOUS
  <2>3. QED
    BY <1>2, <2>1, <2>2, VerbOfEvent
<1>3. QED
  BY <1>1, <1>2

(* What is published of a known event: its family, two names and its verb. *)
LEMMA KnownSubject ==
  ASSUME NEW p \in Payloads, p.event \in KnownEvents
  PROVE  /\ HasShape(SubjectOf(p), Family(p), Name1(p), Name2(p), p.event[3])
         /\ SubjectOf(p) = Subject(Family(p), <<Name1(p), Name2(p)>>, <<p.event[3]>>)
         /\ Publishable(Name1(p)) /\ Publishable(Name2(p))
         /\ Name1(p) # <<>> /\ Name2(p) # <<>>
         /\ Family(p) \in Families
<1>1. /\ Token(Named(p)[1]) = Name1(p) /\ Publishable(Name1(p)) /\ Name1(p) # <<>>
      /\ Token(Named(p)[2]) = Name2(p) /\ Publishable(Name2(p)) /\ Name2(p) # <<>>
  BY PayloadTypes, TokenIsName DEF Name1, Name2
<1>2. Tokens(p) = <<Name1(p), Name2(p)>>
  BY <1>1 DEF Tokens
<1>3. Verb(p.event) = <<p.event[3]>> /\ p.event[3] \in Characters
  BY KnownEventParts
<1>4. Family(p) \in Families
  BY DEF Family, Families
<1>5. SubjectOf(p) = Subject(Family(p), Tokens(p), Verb(p.event))
  BY DEF SubjectOf, Family, KnownEvents
<1>6. Name1(p) \in Texts /\ Name2(p) \in Texts
  BY <1>1 DEF Publishable
<1>7. QED
  BY <1>1, <1>2, <1>3, <1>4, <1>5, <1>6, SubjectHasShape

(* What is published of an unknown one, with dead-lettering on.            *)
LEMMA UnknownSubject ==
  ASSUME NEW p \in Payloads, p.event \notin KnownEvents, SubjectOf(p) # Null
  PROVE  /\ IsDead(SubjectOf(p), Canonical(p.event))
         /\ SubjectOf(p) = <<"hi", ".", "deadletter", ".">> \o Canonical(p.event)
         /\ Publishable(Canonical(p.event))
<1>1. SubjectOf(p) = DeadSubject(p.event)
  BY DEF SubjectOf, KnownEvents
<1>2. p.event \in Texts
  BY PayloadTypes
<1>3. Slug(p.event) = Canonical(p.event) /\ Publishable(Slug(p.event))
  BY <1>2, SlugIsCanonical
<1>4. QED
  BY <1>1, <1>2, <1>3, DeadHasShape DEF DeadSubject

(* Each message carries the subject of its payload: the setting that       *)
(* decides about unknown events does not change.                           *)
RouteInv ==
  /\ sent \in Seq([payload : Payloads, subject : Texts \cup {Null}])
  /\ \A i \in DOMAIN sent : /\ sent[i].payload \in Payloads
                            /\ sent[i].subject = SubjectOf(sent[i].payload)

LEMMA SubjectTypes ==
  ASSUME NEW p \in Payloads
  PROVE  SubjectOf(p) \in Texts \cup {Null}
<1>1. CASE p.event \in KnownEvents
  BY <1>1, KnownSubject DEF HasShape
<1>2. CASE p.event \notin KnownEvents
  BY <1>2, UnknownSubject DEF IsDead
<1>3. QED
  BY <1>1, <1>2

LEMMA InitRoute == Init => RouteInv
BY EmptySeq DEF Init, RouteInv

LEMMA NextRoute == RouteInv /\ [Next]_vars => RouteInv'
<1> SUFFICES ASSUME RouteInv, [Next]_vars PROVE RouteInv'
  OBVIOUS
<1> DEFINE M == [payload : Payloads, subject : Texts \cup {Null}]
<1>1. /\ sent \in Seq(M)
      /\ \A i \in DOMAIN sent : /\ sent[i].payload \in Payloads
                                /\ sent[i].subject = SubjectOf(sent[i].payload)
  BY DEF RouteInv
<1>2. CASE UNCHANGED vars
  BY <1>1, <1>2 DEF vars, RouteInv, SubjectOf
<1>3. ASSUME NEW p \in Payloads, Publish(p) PROVE RouteInv'
  <2> DEFINE m == [payload |-> p, subject |-> SubjectOf(p)]
  <2>1. sent' = Append(sent, m) /\ deadLetter' = deadLetter
    BY <1>3 DEF Publish
  <2>2. m \in M /\ m.payload = p /\ m.subject = SubjectOf(p)
    BY SubjectTypes
  <2> HIDE DEF m, M
  <2>3. /\ sent' \in Seq(M) /\ Len(sent') = Len(sent) + 1 /\ Len(sent) \in Nat
        /\ DOMAIN sent = 1..Len(sent) /\ DOMAIN sent' = 1..(Len(sent) + 1)
        /\ \A i \in 1..Len(sent) : sent'[i] = sent[i]
        /\ sent'[Len(sent) + 1] = m
    BY <1>1, <2>1, <2>2, AppendProperties, LenProperties
  <2>4. \A q : SubjectOf(q)' = SubjectOf(q)
    BY <2>1 DEF SubjectOf
  <2>5. ASSUME NEW i \in 1..(Len(sent) + 1)
        PROVE  /\ sent'[i].payload \in Payloads
               /\ sent'[i].subject = SubjectOf(sent'[i].payload)
    <3>1. CASE i = Len(sent) + 1
      BY <2>2, <2>3, <3>1
    <3>2. CASE i # Len(sent) + 1
      <4>1. i \in 1..Len(sent)
        BY <2>3, <3>2
      <4>2. QED
        BY <1>1, <2>3, <4>1
    <3>3. QED
      BY <3>1, <3>2
  <2>6. QED
    BY <2>3, <2>4, <2>5 DEF RouteInv, M
<1>4. QED
  BY <1>2, <1>3 DEF Next

(* A message that was sent keeps the subject that its payload has under    *)
(* the setting in force.                                                   *)
THEOREM RoutesKept == Spec => []RouteInv
BY InitRoute, NextRoute, PTL DEF Spec

LEMMA RetainedFromInv == RouteInv => RetainedOnce
<1> SUFFICES ASSUME RouteInv, NEW i \in DOMAIN sent, sent[i].subject # Null
             PROVE  LET e == sent[i].payload.event
                        s == sent[i].subject
                        family == IF e \in AgentEvents THEN "agents"
                                  ELSE IF e \in TaskEvents THEN "tasks" ELSE "deadletter"
                        dots == {n \in DOMAIN s : s[n] = "."}
                    IN  /\ {st \in Streams : Captures(st, s)} =
                             IF Routable(sent[i].payload) THEN {family} ELSE {}
                        /\ Cardinality(dots) = (IF family = "deadletter" THEN 2 ELSE 4)
                        /\ \A n \in DOMAIN s : s[n] \notin Wildcards \cup {" "}
                        /\ Len(s) =< (IF family = "deadletter" THEN 4 + SlugMax
                                      ELSE 6 + 2 * SlugMax + Len(e))
  BY DEF RetainedOnce
<1> DEFINE p == sent[i].payload
           e == p.event
           s == sent[i].subject
           dots == {n \in DOMAIN s : s[n] = "."}
<1>1. p \in Payloads /\ s = SubjectOf(p) /\ s # Null
  BY DEF RouteInv
<1>2. SlugMax \in Nat
  BY BoundsAssumption
<1> HIDE DEF p, s
<1>3. CASE e \in KnownEvents
  <2> DEFINE t1 == Name1(p)
             t2 == Name2(p)
             v == e[3]
  <2>1. /\ HasShape(s, Family(p), t1, t2, v)
        /\ Publishable(t1) /\ Publishable(t2) /\ t1 # <<>> /\ t2 # <<>>
        /\ Family(p) \in Families
    BY <1>1, <1>3, KnownSubject
  <2>2. v \notin Wildcards \cup Separators \cup {" ", "."} /\ Len(e) = 3
    BY <1>3, KnownEventParts DEF Blanks, Separators
  <2>3. /\ Family(p) \in Streams /\ Family(p) # "." /\ Family(p) # "deadletter"
        /\ Family(p) \notin Wildcards \cup Separators \cup {" "}
    BY <2>1 DEF Families, Streams, Wildcards, Separators
  <2> HIDE DEF t1, t2, v
  <2>4. Len(t1) \in Nat /\ Len(t2) \in Nat /\ Len(t1) =< SlugMax /\ Len(t2) =< SlugMax
    BY <2>1, LenProperties DEF Publishable, Texts
  <2>5. Len(t1) # 0 /\ Len(t2) # 0
    BY <2>1, EmptySeq DEF Publishable, Texts
  <2>6. /\ s \in Texts /\ Len(s) = 7 + Len(t1) + Len(t2)
        /\ s[1] = "hi" /\ s[2] = "." /\ s[3] = Family(p) /\ s[4] = "."
    BY <2>1 DEF HasShape
  <2>7. DOMAIN s = 1..Len(s)
    BY <2>6, LenProperties DEF Texts
  <2>8. {st \in Streams : Captures(st, s)} = IF Routable(p) THEN {Family(p)} ELSE {}
    <3>1. NoEmptyToken(s)
      BY <2>1, <2>2, <2>3, ShapeNoEmptyToken
    <3>2. Len(s) > 4
      BY <2>4, <2>6
    <3>3. \A st \in Streams :
            Captures(st, s) <=> (OneArgument(s) /\ NoEmptyToken(s) /\ st = Family(p))
      BY <2>6, <3>2, CapturedByFamily
    <3>4. t1 \in Texts /\ t2 \in Texts
      BY <2>1 DEF Publishable
    <3>5. OneArgument(s) <=> OneArgument(t1) /\ OneArgument(t2)
      BY <2>1, <2>2, <2>3, <3>4, ShapeOneArgument
    <3>6. Routable(p) <=> OneArgument(t1) /\ OneArgument(t2)
      BY <1>3 DEF Routable, t1, t2, Name1, Name2, e
    <3>7. QED
      BY <2>3, <3>1, <3>3, <3>5, <3>6
  <2>9. Cardinality(dots) = 4
    <3>1. \A n \in 1..Len(s) :
            s[n] = "." <=> n \in {2, 4, 5 + Len(t1), 6 + Len(t1) + Len(t2)}
      BY <2>1, <2>2, <2>3, ShapeDots
    <3>2. dots = {2, 4, 5 + Len(t1), 6 + Len(t1) + Len(t2)}
      BY <2>4, <2>6, <2>7, <3>1
    <3>3. /\ 5 + Len(t1) \in Nat /\ 6 + Len(t1) + Len(t2) \in Nat
          /\ 5 + Len(t1) # 6 + Len(t1) + Len(t2)
          /\ 4 < 5 + Len(t1) /\ 4 < 6 + Len(t1) + Len(t2)
      BY <2>4
    <3>4. QED
      BY <3>2, <3>3, FourPositions
  <2>10. \A n \in DOMAIN s : s[n] \notin Wildcards \cup {" "}
    <3>1. \A n \in 1..Len(s) :
            s[n] \in {"hi", ".", Family(p), v} \/ s[n] \notin Wildcards \cup {" "}
      BY <2>1, ShapeParts
    <3>2. \A c \in {"hi", "."} : c \notin Wildcards \cup {" "}
      BY DEF Wildcards
    <3>3. QED
      BY <2>2, <2>3, <2>7, <3>1, <3>2
  <2>11. Len(s) =< 6 + 2 * SlugMax + Len(e)
    <3>1. 7 + Len(t1) + Len(t2) =< 6 + 2 * SlugMax + 3
      BY <1>2, <2>4
    <3>2. QED
      BY <2>2, <2>6, <3>1
  <2>12. Family(p) = IF e \in AgentEvents THEN "agents"
                     ELSE IF e \in TaskEvents THEN "tasks" ELSE "deadletter"
    BY <1>3 DEF Family, KnownEvents
  <2> HIDE DEF e, dots
  <2>13. QED
    BY <2>3, <2>8, <2>9, <2>10, <2>11, <2>12 DEF e, p, s, dots
<1>4. CASE e \notin KnownEvents
  <2> DEFINE t == Canonical(e)
  <2>1. IsDead(s, t) /\ Publishable(t)
    BY <1>1, <1>4, UnknownSubject
  <2>2. e \notin AgentEvents /\ e \notin TaskEvents
    BY <1>4 DEF KnownEvents
  <2> HIDE DEF t
  <2>3. Len(t) \in Nat /\ Len(t) =< SlugMax
    BY <2>1, LenProperties DEF Publishable, Texts
  <2>4. /\ s \in Texts /\ Len(s) = 4 + Len(t)
        /\ s[1] = "hi" /\ s[2] = "." /\ s[3] = "deadletter" /\ s[4] = "."
    BY <2>1 DEF IsDead
  <2>5. DOMAIN s = 1..Len(s)
    BY <2>4, LenProperties DEF Texts
  <2>6. /\ NoEmptyToken(s) <=> t # <<>>
        /\ OneArgument(s) <=> OneArgument(t)
        /\ \A n \in 1..Len(s) : /\ s[n] = "." <=> n \in {2, 4}
                                /\ s[n] \notin Wildcards \cup {" "}
    BY <2>1, DeadSubjects
  <2>7. {st \in Streams : Captures(st, s)} = IF Routable(p) THEN {"deadletter"} ELSE {}
    <3>0. Routable(p) <=> t # <<>> /\ OneArgument(t)
      BY <1>4 DEF Routable, t, e
    <3>1. CASE t = <<>>
      BY <2>6, <3>0, <3>1 DEF Captures
    <3>2. CASE t # <<>>
      <4>1. Len(s) > 4
        <5>1. Len(t) # 0
          BY <2>1, <3>2, EmptySeq DEF Publishable, Texts
        <5>2. QED
          BY <2>3, <2>4, <5>1
      <4>2. \A st \in Streams :
              Captures(st, s) <=> (OneArgument(s) /\ NoEmptyToken(s) /\ st = "deadletter")
        BY <2>4, <4>1, CapturedByFamily
      <4>3. QED
        BY <2>6, <3>0, <3>2, <4>2 DEF Streams
    <3>3. QED
      BY <3>1, <3>2
  <2>8. Cardinality(dots) = 2
    <3>1. dots = {2, 4}
      <4>1. 2 \in 1..Len(s) /\ 4 \in 1..Len(s)
        BY <2>3, <2>4
      <4>2. QED
        BY <2>5, <2>6, <4>1
    <3>2. QED
      BY <3>1, TwoPositions
  <2>9. \A n \in DOMAIN s : s[n] \notin Wildcards \cup {" "}
    BY <2>5, <2>6
  <2>10. Len(s) =< 4 + SlugMax
    BY <1>2, <2>3, <2>4
  <2> HIDE DEF e, dots
  <2>11. QED
    BY <2>2, <2>7, <2>8, <2>9, <2>10 DEF e, p, s, dots, t
<1>5. QED
  BY <1>3, <1>4

(* Exactly one stream keeps a message, that of its family, whichever of its *)
(* fields are missing and whatever dots, spaces and wildcards are in them.  *)
(* The exceptions are exact too: an unknown event of which nothing can be   *)
(* published, and names with a tab or line break left inside.               *)
THEOREM KeptByOneStream == Spec => []RetainedOnce
BY RoutesKept, RetainedFromInv, PTL

LEMMA IdentifyFromInv == RouteInv => SubjectsIdentify
<1> SUFFICES ASSUME RouteInv, NEW i \in DOMAIN sent, NEW j \in DOMAIN sent,
                    sent[i].subject # Null, sent[j].subject # Null
             PROVE  LET p == sent[i].payload
                        q == sent[j].payload
                        SameNames == \A n \in {1, 2} : NameOf(Named(p)[n]) = NameOf(Named(q)[n])
                    IN  sent[i].subject = sent[j].subject <=>
                          IF p.event \in KnownEvents
                            THEN p.event = q.event /\ SameNames
                            ELSE q.event \notin KnownEvents /\ Canonical(p.event) = Canonical(q.event)
  BY DEF SubjectsIdentify
<1> DEFINE p == sent[i].payload
           q == sent[j].payload
           s == sent[i].subject
           u == sent[j].subject
           SameNames == \A n \in {1, 2} : NameOf(Named(p)[n]) = NameOf(Named(q)[n])
<1>1. /\ p \in Payloads /\ s = SubjectOf(p) /\ s # Null
      /\ q \in Payloads /\ u = SubjectOf(q) /\ u # Null
  BY DEF RouteInv
<1>2. SameNames <=> (Name1(p) = Name1(q) /\ Name2(p) = Name2(q))
  <2>1. 1 \in {1, 2} /\ 2 \in {1, 2} /\ \A n \in {1, 2} : n = 1 \/ n = 2
    OBVIOUS
  <2> HIDE DEF p, q
  <2>2. QED
    BY <2>1 DEF Name1, Name2
<1> HIDE DEF p, q, s, u, SameNames
<1>3. ASSUME p.event \in KnownEvents, q.event \in KnownEvents
      PROVE  s = u <=> (p.event = q.event /\ SameNames)
  <2>1. ASSUME p.event = q.event, SameNames PROVE s = u
    BY <1>1, <1>2, <1>3, <2>1, KnownSubject DEF Family
  <2>2. ASSUME s = u PROVE p.event = q.event /\ SameNames
    <3>1. /\ HasShape(s, Family(p), Name1(p), Name2(p), p.event[3])
          /\ Publishable(Name1(p)) /\ Publishable(Name2(p))
      BY <1>1, <1>3, KnownSubject
    <3>2. /\ HasShape(u, Family(q), Name1(q), Name2(q), q.event[3])
          /\ Publishable(Name1(q)) /\ Publishable(Name2(q))
      BY <1>1, <1>3, KnownSubject
    <3>3. /\ Family(p) = Family(q) /\ p.event[3] = q.event[3]
          /\ Name1(p) = Name1(q) /\ Name2(p) = Name2(q)
      BY <2>2, <3>1, <3>2, ShapeIdentifies
    <3>4. p.event \in AgentEvents <=> q.event \in AgentEvents
      BY <3>3 DEF Family
    <3>5. PICK k \in {"agent", "task"} : IsEvent(p.event, k) /\ p.event = <<k, ".", p.event[3]>>
      BY <1>3, KnownEventParts
    <3>6. PICK l \in {"agent", "task"} : IsEvent(q.event, l) /\ q.event = <<l, ".", q.event[3]>>
      BY <1>3, KnownEventParts
    <3>7. p.event[1] = k /\ q.event[1] = l
      BY <3>5, <3>6 DEF IsEvent
    <3>8. (p.event \in AgentEvents <=> k = "agent") /\ (q.event \in AgentEvents <=> l = "agent")
      BY <1>3, <3>7, KnownEventParts
    <3>9. k = l
      BY <3>4, <3>8
    <3>10. QED
      BY <1>2, <3>3, <3>5, <3>6, <3>9
  <2>3. QED
    BY <2>1, <2>2
<1>4. ASSUME p.event \notin KnownEvents, q.event \notin KnownEvents
      PROVE  s = u <=> Canonical(p.event) = Canonical(q.event)
  <2>1. /\ IsDead(s, Canonical(p.event)) /\ Publishable(Canonical(p.event))
        /\ s = <<"hi", ".", "deadletter", ".">> \o Canonical(p.event)
    BY <1>1, <1>4, UnknownSubject
  <2>2. /\ IsDead(u, Canonical(q.event)) /\ Publishable(Canonical(q.event))
        /\ u = <<"hi", ".", "deadletter", ".">> \o Canonical(q.event)
    BY <1>1, <1>4, UnknownSubject
  <2>3. s = u => Canonical(p.event) = Canonical(q.event)
    BY <2>1, <2>2, DeadIdentifies
  <2>4. QED
    BY <2>1, <2>2, <2>3
<1>5. \A r \in Payloads :
        SubjectOf(r) # Null =>
          IF r.event \in KnownEvents THEN SubjectOf(r)[3] \in Families
                                     ELSE SubjectOf(r)[3] = "deadletter"
  <2> TAKE r \in Payloads
  <2>1. ASSUME r.event \in KnownEvents PROVE SubjectOf(r)[3] \in Families
    BY <2>1, KnownSubject DEF HasShape
  <2>2. ASSUME r.event \notin KnownEvents, SubjectOf(r) # Null
        PROVE  SubjectOf(r)[3] = "deadletter"
    BY <2>2, UnknownSubject DEF IsDead
  <2>3. QED
    BY <2>1, <2>2
<1>6. ASSUME s = u PROVE p.event \in KnownEvents <=> q.event \in KnownEvents
  BY <1>1, <1>5, <1>6 DEF Families
<1>7. s = u <=> IF p.event \in KnownEvents
                  THEN p.event = q.event /\ SameNames
                  ELSE q.event \notin KnownEvents /\ Canonical(p.event) = Canonical(q.event)
  <2>1. CASE p.event \in KnownEvents /\ q.event \in KnownEvents
    BY <1>3, <2>1
  <2>2. CASE p.event \notin KnownEvents /\ q.event \notin KnownEvents
    BY <1>4, <2>2
  <2>3. CASE ~(p.event \in KnownEvents <=> q.event \in KnownEvents)
    <3>1. s # u
      BY <1>6, <2>3
    <3>2. QED
      BY <2>3, <3>1
  <2>4. QED
    BY <2>1, <2>2, <2>3
<1>8. QED
  BY <1>7 DEF p, q, s, u, SameNames

(* Events share a subject exactly when they say the same of the same names, *)
(* for any alphabet, any payloads and any cut of the tokens.                *)
THEOREM SubjectsName == Spec => []SubjectsIdentify
BY RoutesKept, IdentifyFromInv, PTL
==============================================================================
