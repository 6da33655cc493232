----------------------- MODULE ReconnectBackoff_proofs -----------------------
(***************************************************************************)
(* The pace of the reconnect loop and the notices before it starts, for    *)
(* any environments, any exponent at which the doubling saturates, and any *)
(* number of failures in a row.                                            *)
(***************************************************************************)
EXTENDS ReconnectBackoff, FiniteSetTheorems, SequenceTheorems, TLAPS

(* n delays between the attempts of the row took at least n times the      *)
(* base, and as long as they should.                                       *)
Apart(n) == since * Scale >= n * settings.base * (Scale - settings.jitter)
Spread(n) ==
  /\ Sum[n] \in Nat
  /\ since * Scale >= Sum[n] * (Scale - settings.jitter)
  /\ since * Scale =< Sum[n] * (Scale + settings.jitter) + row * settings.hardTimeout * Scale
Paced(n) == Apart(n) /\ (CapInReach => Spread(n))

PaceInv ==
  /\ phase \in {"loading", "starting"} => row = 0
  /\ phase \in {"starting", "sleeping", "attempting"} => BackoffAccepted(settings)
  /\ failed = IF row < MaxExponent THEN row ELSE MaxExponent
  /\ phase \in {"sleeping", "attempting"} => delay \in Delays(failed)
  /\ phase = "sleeping" /\ row > 0 => Paced(row - 1)
  /\ phase = "attempting" => Paced(row)

(* Before the loop runs, the validators have said it only where they had   *)
(* reason to.                                                              *)
NoticesInv ==
  /\ phase \in {"loading", "refused"} => notices = <<>>
  /\ phase = "starting" =>
       Said("hmac", notices) =
         (IF settings.secret = 0 /\ IsProductionSignal(settings) THEN 1 ELSE 0)
  /\ phase \in {"sleeping", "attempting"} =>
       Said("hmac", notices) = (IF settings.secret = 0 THEN 1 ELSE 0)

-----------------------------------------------------------------------------
(***************************************************************************)
(* Powers of two                                                           *)
(***************************************************************************)

(* 2^n counts the subsets of 1..n.                                         *)
LEMMA PowerCounts ==
  ASSUME NEW n \in Nat
  PROVE  /\ IsFiniteSet(SUBSET (1..n)) /\ Cardinality(SUBSET (1..n)) = 2 ^ n
         /\ 2 ^ n \in Nat
<1>1. IsFiniteSet(1..n) /\ Cardinality(1..n) = n
  <2>1. 1 \in Int /\ n \in Int /\ n = IF 1 > n THEN 0 ELSE n - 1 + 1
    OBVIOUS
  <2>2. QED
    BY <2>1, FS_Interval
<1>2. IsFiniteSet(SUBSET (1..n)) /\ Cardinality(SUBSET (1..n)) = 2 ^ n
  BY <1>1, FS_SUBSET
<1>3. QED
  BY <1>2, FS_CardinalityType

LEMMA PowersGrow ==
  ASSUME NEW m \in Nat, NEW n \in Nat, m =< n
  PROVE  2 ^ m =< 2 ^ n
<1> DEFINE S == SUBSET (1..m)
           T == SUBSET (1..n)
<1>1. S \in SUBSET T
  OBVIOUS
<1>2. IsFiniteSet(T) /\ Cardinality(T) = 2 ^ n /\ Cardinality(S) = 2 ^ m
  BY PowerCounts
<1> HIDE DEF S, T
<1>3. Cardinality(S) =< Cardinality(T)
  BY <1>1, <1>2, FS_Subset
<1>4. QED
  BY <1>2, <1>3

LEMMA PowersArePositive == ASSUME NEW n \in Nat PROVE 2 ^ n \in Nat /\ 2 ^ n >= 1
<1>1. 2 ^ 0 = 1
  OBVIOUS
<1>2. 0 \in Nat /\ 0 =< n
  OBVIOUS
<1>3. 2 ^ 0 =< 2 ^ n
  BY <1>2, PowersGrow
<1>4. QED
  BY <1>1, <1>3, PowerCounts

-----------------------------------------------------------------------------
(***************************************************************************)
(* The nominal delay                                                       *)
(***************************************************************************)

LEMMA TimesGrow ==
  ASSUME NEW a \in Nat, NEW b \in Nat, NEW c \in Nat, b =< c
  PROVE  a * b \in Nat /\ a * b =< a * c
OBVIOUS

(* It is never below the base nor above the cap.                           *)
LEMMA NominalBounds ==
  ASSUME settings \in RawSettings, BackoffAccepted(settings), NEW n \in Nat
  PROVE  Nominal(n) \in Nat /\ settings.base =< Nominal(n) /\ Nominal(n) =< settings.cap
<1> DEFINE b == settings.base
           c == settings.cap
           p == 2 ^ n
<1>1. b \in Nat /\ c \in Nat /\ b =< c
  BY DEF RawSettings, BackoffAccepted
<1>2. p \in Nat /\ 1 =< p
  BY PowersArePositive
<1>3. Nominal(n) = IF b * p < c THEN b * p ELSE c
  BY DEF Nominal
<1> HIDE DEF b, c, p
<1>4. b * p \in Nat /\ b * 1 =< b * p /\ b * 1 = b
  BY <1>1, <1>2, TimesGrow
<1>5. QED
  BY <1>1, <1>3, <1>4 DEF b, c

(* Past the exponent at which it saturates it would not grow anyway, where *)
(* the cap is within reach of the doubling.                                *)
LEMMA SaturationIsHarmless ==
  ASSUME settings \in RawSettings, settings.cap =< settings.base * 2 ^ MaxExponent,
         NEW n \in Nat, MaxExponent =< n
  PROVE  Nominal(n) = Nominal(MaxExponent)
<1> DEFINE b == settings.base
           c == settings.cap
           p == 2 ^ n
           q == 2 ^ MaxExponent
<1>1. b \in Nat /\ c \in Nat /\ c =< b * q
  BY DEF RawSettings
<1>2. p \in Nat /\ q \in Nat /\ q =< p
  BY BoundsAssumption, PowersArePositive, PowersGrow
<1>3. Nominal(n) = IF b * p < c THEN b * p ELSE c
  BY DEF Nominal
<1>4. Nominal(MaxExponent) = IF b * q < c THEN b * q ELSE c
  BY DEF Nominal
<1> HIDE DEF b, c, p, q
<1>5. b * q \in Nat /\ b * p \in Nat /\ b * q =< b * p
  BY <1>1, <1>2, TimesGrow
<1>6. QED
  BY <1>1, <1>3, <1>4, <1>5

-----------------------------------------------------------------------------
(***************************************************************************)
(* The sum of the nominal delays                                           *)
(***************************************************************************)

(* Sum is what its definition says: a function that satisfies the equation *)
(* exists, because Sum[n] counts the pairs of a k in 1..n and a number in  *)
(* 1..Nominal(k).                                                          *)
LEMMA SumAdds ==
  ASSUME settings \in RawSettings, BackoffAccepted(settings)
  PROVE  /\ Sum[0] = 0
         /\ \A n \in Nat : Sum[n + 1] = Nominal(n + 1) + Sum[n]
<1> DEFINE N == [n \in Nat |-> Nominal(n)]
           c == settings.cap
           Pairs(n) == {p \in (1..n) \X (1..c) : p[2] =< N[p[1]]}
           S == [n \in Nat |-> Cardinality(Pairs(n))]
           Equation(f) == f = [n \in Nat |-> IF n = 0 THEN 0 ELSE Nominal(n) + f[n - 1]]
<1>1. N \in [Nat -> Nat] /\ c \in Nat /\ \A n \in Nat : N[n] =< c
  BY NominalBounds DEF RawSettings
<1>2. \A n \in Nat : IsFiniteSet(1..n) /\ Cardinality(1..n) = n
  <2> TAKE n \in Nat
  <2>1. 1 \in Int /\ n \in Int /\ n = IF 1 > n THEN 0 ELSE n - 1 + 1
    OBVIOUS
  <2>2. QED
    BY <2>1, FS_Interval
<1> HIDE DEF N, c
<1>3. \A n \in Nat : IsFiniteSet(Pairs(n))
  <2> TAKE n \in Nat
  <2>1. IsFiniteSet((1..n) \X (1..c))
    BY <1>1, <1>2, FS_Product
  <2>2. Pairs(n) \in SUBSET ((1..n) \X (1..c))
    OBVIOUS
  <2>3. QED
    BY <2>1, <2>2, FS_Subset
<1>4. Cardinality(Pairs(0)) = 0
  <2>1. Pairs(0) = {}
    OBVIOUS
  <2>2. QED
    BY <2>1, FS_EmptySet
<1>5. ASSUME NEW n \in Nat
      PROVE  Cardinality(Pairs(n + 1)) = N[n + 1] + Cardinality(Pairs(n))
  <2> DEFINE Row == {n + 1} \X (1..N[n + 1])
  <2>1. N[n + 1] \in Nat /\ N[n + 1] =< c
    BY <1>1
  <2>2. IsFiniteSet(Row) /\ Cardinality(Row) = N[n + 1]
    <3>1. IsFiniteSet({n + 1}) /\ Cardinality({n + 1}) = 1
      BY FS_Singleton
    <3> DEFINE A == {n + 1}
               B == 1..N[n + 1]
    <3>2. IsFiniteSet(B) /\ Cardinality(B) = N[n + 1]
      BY <1>2, <2>1
    <3> HIDE DEF A, B
    <3>3. IsFiniteSet(A \X B) /\ Cardinality(A \X B) = Cardinality(A) * Cardinality(B)
      BY <3>1, <3>2, FS_Product DEF A
    <3>4. Cardinality(A) = 1
      BY <3>1 DEF A
    <3>5. IsFiniteSet(A \X B) /\ Cardinality(A \X B) = N[n + 1]
      BY <2>1, <3>2, <3>3, <3>4
    <3>6. QED
      BY <3>5 DEF A, B
  <2>3. Pairs(n + 1) = Row \cup Pairs(n)
    <3>1. 1..(n + 1) = {n + 1} \cup 1..n
      OBVIOUS
    <3>2. \A m : m \in 1..c /\ m =< N[n + 1] <=> m \in 1..N[n + 1]
      BY <1>1, <2>1
    <3> DEFINE k == N[n + 1]
    <3>3. \A p : p \in Pairs(n + 1) <=> p \in Row \/ p \in Pairs(n)
      <4> TAKE p
      <4>1. p \in Pairs(n + 1) <=>
              p \in ({n + 1} \cup 1..n) \X (1..c) /\ p[2] =< N[p[1]]
        BY <3>1
      <4>2. CASE p \in {n + 1} \X (1..c)
        BY <3>2, <4>1, <4>2
      <4>3. CASE p \notin {n + 1} \X (1..c)
        BY <3>2, <4>1, <4>3
      <4>4. QED
        BY <4>2, <4>3
    <3>4. QED
      BY <3>3
  <2>4. Row \cap Pairs(n) = {}
    OBVIOUS
  <2>5. IsFiniteSet(Pairs(n))
    BY <1>3
  <2>6. Cardinality(Pairs(n)) \in Nat /\ Cardinality({}) = 0
    BY <2>5, FS_CardinalityType, FS_EmptySet
  <2> HIDE DEF Row, Pairs
  <2>7. Cardinality(Row \cup Pairs(n)) = Cardinality(Row) + Cardinality(Pairs(n)) - 0
    BY <2>2, <2>4, <2>5, <2>6, FS_Union
  <2> DEFINE x == Cardinality(Pairs(n))
             y == N[n + 1]
  <2>8. x \in Nat /\ y \in Nat
    BY <2>1, <2>6
  <2>9. Cardinality(Pairs(n + 1)) = y + x - 0
    BY <2>2, <2>3, <2>7
  <2> HIDE DEF x, y
  <2>10. Cardinality(Pairs(n + 1)) = y + x
    BY <2>8, <2>9
  <2>11. QED
    BY <2>10 DEF x, y
<1> HIDE DEF Pairs
<1>6. Equation(S)
  <2> SUFFICES ASSUME NEW n \in Nat
               PROVE  S[n] = IF n = 0 THEN 0 ELSE Nominal(n) + S[n - 1]
    OBVIOUS
  <2>1. CASE n = 0
    BY <1>4, <2>1
  <2>2. CASE n # 0
    <3>1. n - 1 \in Nat /\ (n - 1) + 1 = n
      BY <2>2
    <3>2. S[n] = N[n] + S[n - 1]
      BY <1>5, <3>1
    <3>3. QED
      BY <2>2, <3>2 DEF N
  <2>3. QED
    BY <2>1, <2>2
<1>7. Sum = CHOOSE f : Equation(f)
  BY DEF Sum
<1> HIDE DEF S
<1>8. Equation(Sum)
  BY <1>6, <1>7
<1>9. \A n \in Nat : n + 1 \in Nat /\ n + 1 # 0 /\ (n + 1) - 1 = n
  OBVIOUS
<1>10. QED
  BY <1>8, <1>9

-----------------------------------------------------------------------------
(***************************************************************************)
(* Types                                                                   *)
(***************************************************************************)

LEMMA NoticeTypes ==
  ASSUME NEW s
  PROVE  /\ DeadLetterKeyWarning(s) \in Seq(Warnings) /\ HmacWarning(s) \in Seq(Warnings)
         /\ TlsWarning(s) \in Seq(Warnings)
         /\ HmacNotice(s) \in Seq(Warnings) /\ BindNotice(s) \in Seq(Warnings)
<1>1. <<>> \in Seq(Warnings) /\ \A w \in Warnings : <<w>> \in Seq(Warnings)
  OBVIOUS
<1>2. DeadLetterKeyWarning(s) = <<>> \/ DeadLetterKeyWarning(s) = <<"dead_letter_key">>
  BY DEF DeadLetterKeyWarning
<1>3. TlsWarning(s) = <<>> \/ TlsWarning(s) = <<"tls">>
  BY DEF TlsWarning
<1>4. HmacWarning(s) = <<>> \/ HmacWarning(s) = <<"hmac">>
  BY DEF HmacWarning
<1>5. HmacNotice(s) = <<>> \/ HmacNotice(s) = <<"hmac">>
  BY DEF HmacNotice
<1>6. BindNotice(s) = <<>> \/ BindNotice(s) = <<"bind">>
  BY DEF BindNotice
<1>7. {"dead_letter_key", "tls", "hmac", "bind"} \subseteq Warnings
  BY DEF Warnings
<1>8. QED
  BY <1>1, <1>2, <1>3, <1>4, <1>5, <1>6, <1>7

LEMMA TypeStep == TypeOK /\ [Next]_vars => TypeOK'
<1> SUFFICES ASSUME TypeOK, [Next]_vars PROVE TypeOK'
  OBVIOUS
<1> USE BoundsAssumption
<1>1. \A n : delay' \in Delays(n) => delay' \in Nat
  BY DEF Delays
<1>2. CASE Load
  <2>1. /\ DeadLetterKeyWarning(settings) \in Seq(Warnings)
        /\ HmacWarning(settings) \in Seq(Warnings)
        /\ TlsWarning(settings) \in Seq(Warnings)
    BY NoticeTypes
  <2>2. DeadLetterKeyWarning(settings) \o HmacWarning(settings) \in Seq(Warnings)
    BY <2>1, ConcatProperties
  <2>3. DeadLetterKeyWarning(settings) \o HmacWarning(settings) \o TlsWarning(settings)
          \in Seq(Warnings)
    BY <2>1, <2>2, ConcatProperties
  <2>4. notices' \in Seq(Warnings) /\ phase' \in {"starting", "refused"}
    BY <1>2, <2>3 DEF Load, TypeOK
  <2>5. UNCHANGED <<settings, failed, delay, lost, row, since>>
    BY <1>2 DEF Load, loopVars
  <2>6. QED
    BY <2>4, <2>5 DEF TypeOK
<1>3. CASE Start
  <2>1. HmacNotice(settings) \in Seq(Warnings) /\ BindNotice(settings) \in Seq(Warnings)
    BY NoticeTypes
  <2>2. notices \o HmacNotice(settings) \in Seq(Warnings)
    BY <2>1, ConcatProperties DEF TypeOK
  <2>3. notices \o HmacNotice(settings) \o BindNotice(settings) \in Seq(Warnings)
    BY <2>1, <2>2, ConcatProperties
  <2>4. notices' \in Seq(Warnings)
    BY <1>3, <2>3 DEF Start
  <2>5. QED
    BY <1>1, <1>3, <2>4 DEF Start, FallAsleep, TypeOK
<1>4. CASE LinkLost
  BY <1>4 DEF LinkLost, TypeOK
<1>5. CASE WakeHealthy
  BY <1>1, <1>5 DEF WakeHealthy, FallAsleep, TypeOK
<1>6. CASE WakeLost
  BY <1>6 DEF WakeLost, TypeOK
<1>7. CASE Reconnects
  <2>1. failed' = 0 /\ delay' \in Nat /\ 0 \in 0..MaxExponent /\ 0 \in 0..MaxRow
    BY <1>1, <1>7 DEF Reconnects, FallAsleep
  <2>2. QED
    BY <1>7, <2>1 DEF Reconnects, TypeOK
<1>8. CASE AttemptFails
  <2>1. since' \in Nat
    <3>1. PICK t \in 0..settings.hardTimeout : since' = since + t
      BY <1>8 DEF AttemptFails
    <3>2. t \in Nat
      OBVIOUS
    <3>3. QED
      BY <3>1, <3>2 DEF TypeOK
  <2>2. failed' \in 0..MaxExponent /\ delay' \in Nat
    BY <1>1, <1>8 DEF AttemptFails, FallAsleep, TypeOK
  <2>3. QED
    BY <1>8, <2>1, <2>2 DEF AttemptFails, TypeOK
<1>9. CASE UNCHANGED vars
  BY <1>9 DEF vars, loopVars, TypeOK
<1>10. QED
  BY <1>2, <1>3, <1>4, <1>5, <1>6, <1>7, <1>8, <1>9 DEF Next

(* The exponent never passes the one at which it saturates.                *)
THEOREM TypeCorrect == Spec => []TypeOK
<1>1. Init => TypeOK
  <2>1. <<>> \in Seq(Warnings) /\ 0 \in 0..MaxExponent /\ 0 \in 0..MaxRow
    BY BoundsAssumption
  <2> SUFFICES ASSUME Init PROVE TypeOK
    OBVIOUS
  <2>2. lost \in BOOLEAN
    BY DEF Init
  <2>3. /\ notices \in Seq(Warnings) /\ failed \in 0..MaxExponent
        /\ row \in 0..MaxRow /\ delay \in Nat /\ since \in Nat
    BY <2>1 DEF Init
  <2>4. QED
    BY <2>2, <2>3 DEF Init, TypeOK
<1>2. QED
  BY <1>1, TypeStep, PTL DEF Spec

-----------------------------------------------------------------------------
(***************************************************************************)
(* The notice                                                              *)
(***************************************************************************)

LEMMA SaidConcat ==
  ASSUME NEW S, NEW p \in Seq(S), NEW q \in Seq(S), NEW x
  PROVE  /\ Said(x, p) \in Nat /\ Said(x, q) \in Nat
         /\ Said(x, p \o q) = Said(x, p) + Said(x, q)
<1> DEFINE m == Len(p)
           n == Len(q)
           A == {i \in 1..m : p[i] = x}
           B == {i \in 1..n : q[i] = x}
           C == {i \in 1..(m + n) : (p \o q)[i] = x}
           D == {i \in C : i > m}
<1>1. /\ m \in Nat /\ DOMAIN p = 1..m /\ n \in Nat /\ DOMAIN q = 1..n
      /\ DOMAIN (p \o q) = 1..(m + n)
      /\ \A i \in 1..(m + n) : (p \o q)[i] = IF i =< m THEN p[i] ELSE q[i - m]
  BY LenProperties, ConcatProperties
<1>2. Said(x, p) = Cardinality(A) /\ Said(x, q) = Cardinality(B)
      /\ Said(x, p \o q) = Cardinality(C)
  BY <1>1 DEF Said
<1> HIDE DEF m, n
<1>3. IsFiniteSet(A) /\ IsFiniteSet(B)
  <2>1. 1 \in Int /\ m \in Int /\ n \in Int
    BY <1>1
  <2>2. IsFiniteSet(1..m) /\ IsFiniteSet(1..n)
    BY <2>1, FS_Interval
  <2>3. A \in SUBSET (1..m) /\ B \in SUBSET (1..n)
    OBVIOUS
  <2>4. QED
    BY <2>2, <2>3, FS_Subset
<1>4. C = A \cup D /\ A \cap D = {}
  BY <1>1
<1>5. IsFiniteSet(D) /\ Cardinality(D) = Cardinality(B)
  <2> DEFINE f == [i \in B |-> i + m]
  <2>1. f \in Injection(B, D)
    BY <1>1 DEF Injection, IsInjective
  <2>2. f \in Surjection(B, D)
    <3> SUFFICES ASSUME NEW i \in D PROVE \E j \in B : f[j] = i
      BY <2>1 DEF Surjection, Injection
    <3>1. i - m \in B /\ (i - m) + m = i
      BY <1>1
    <3>2. QED
      BY <3>1
  <2>3. f \in Bijection(B, D)
    BY <2>1, <2>2 DEF Bijection
  <2>4. QED
    BY <1>3, <2>3, FS_Bijection DEF ExistsBijection
<1>6. Cardinality(A) \in Nat /\ Cardinality(B) \in Nat
  BY <1>3, FS_CardinalityType
<1> HIDE DEF A, B, C, D
<1>7. Cardinality(C) = Cardinality(A) + Cardinality(D) - Cardinality({})
  BY <1>3, <1>4, <1>5, FS_Union
<1>8. QED
  BY <1>2, <1>5, <1>6, <1>7, FS_EmptySet

LEMMA SaidOnce ==
  ASSUME NEW x, NEW y
  PROVE  /\ Said(x, <<>>) = 0
         /\ Said(x, <<y>>) = IF x = y THEN 1 ELSE 0
<1>1. {i \in DOMAIN <<>> : <<>>[i] = x} = {}
  OBVIOUS
<1>2. {i \in DOMAIN <<y>> : <<y>>[i] = x} = IF x = y THEN {1} ELSE {}
  OBVIOUS
<1>3. QED
  BY <1>1, <1>2, FS_EmptySet, FS_Singleton DEF Said

(* What load and start add to the log.                                     *)
LEMMA SaidAtStart ==
  ASSUME NEW s
  PROVE  /\ Said("hmac", DeadLetterKeyWarning(s) \o HmacWarning(s) \o TlsWarning(s))
              = (IF s.secret = 0 /\ IsProductionSignal(s) THEN 1 ELSE 0)
         /\ \A log \in Seq(Warnings) :
              Said("hmac", log \o HmacNotice(s) \o BindNotice(s))
                = Said("hmac", log)
                    + (IF s.secret = 0 /\ ~IsProductionSignal(s) THEN 1 ELSE 0)
<1> DEFINE D == DeadLetterKeyWarning(s)
           H == HmacWarning(s)
           T == TlsWarning(s)
           N == HmacNotice(s)
           B == BindNotice(s)
<1>1. /\ D \in Seq(Warnings) /\ H \in Seq(Warnings) /\ T \in Seq(Warnings)
      /\ N \in Seq(Warnings) /\ B \in Seq(Warnings)
  BY NoticeTypes
<1>2. /\ Said("hmac", D) = 0 /\ Said("hmac", T) = 0 /\ Said("hmac", B) = 0
      /\ Said("hmac", H) = (IF s.secret = 0 /\ IsProductionSignal(s) THEN 1 ELSE 0)
      /\ Said("hmac", N) = (IF s.secret = 0 /\ ~IsProductionSignal(s) THEN 1 ELSE 0)
  BY SaidOnce
    DEF DeadLetterKeyWarning, HmacWarning, TlsWarning, HmacNotice, BindNotice
<1> HIDE DEF D, H, T, N, B
<1>3. /\ D \o H \in Seq(Warnings) /\ Said("hmac", D \o H) = Said("hmac", D) + Said("hmac", H)
      /\ Said("hmac", (D \o H) \o T) = Said("hmac", D \o H) + Said("hmac", T)
  <2>1. D \o H \in Seq(Warnings)
    BY <1>1, ConcatProperties
  <2>2. QED
    BY <1>1, <2>1, SaidConcat
<1>4. ASSUME NEW log \in Seq(Warnings)
      PROVE  /\ Said("hmac", log) \in Nat
             /\ Said("hmac", log \o N) = Said("hmac", log) + Said("hmac", N)
             /\ Said("hmac", (log \o N) \o B) = Said("hmac", log \o N) + Said("hmac", B)
  <2>1. log \o N \in Seq(Warnings)
    BY <1>1, <1>4, ConcatProperties
  <2>2. QED
    BY <1>1, <1>4, <2>1, SaidConcat
<1>5. Said("hmac", (D \o H) \o T) = (IF s.secret = 0 /\ IsProductionSignal(s) THEN 1 ELSE 0)
  BY <1>2, <1>3
<1>6. ASSUME NEW log \in Seq(Warnings)
      PROVE  Said("hmac", (log \o N) \o B)
               = Said("hmac", log)
                   + (IF s.secret = 0 /\ ~IsProductionSignal(s) THEN 1 ELSE 0)
  BY <1>2, <1>4
<1>7. QED
  BY <1>5, <1>6 DEF D, H, T, N, B

LEMMA NoticesStep == TypeOK /\ NoticesInv /\ [Next]_vars => NoticesInv'
<1> SUFFICES ASSUME TypeOK, NoticesInv, [Next]_vars PROVE NoticesInv'
  OBVIOUS
<1> USE DEF loopVars
<1>1. CASE Load
  <2>1. CASE phase' = "starting"
    <3>1. notices' = DeadLetterKeyWarning(settings) \o HmacWarning(settings)
                       \o TlsWarning(settings)
      BY <1>1, <2>1 DEF Load
    <3>2. Said("hmac", notices')
            = (IF settings.secret = 0 /\ IsProductionSignal(settings) THEN 1 ELSE 0)
      BY <3>1, SaidAtStart
    <3>3. QED
      BY <1>1, <2>1, <3>2 DEF Load, NoticesInv, Said
  <2>2. CASE phase' = "refused"
    BY <1>1, <2>2 DEF Load, NoticesInv
  <2>3. QED
    BY <1>1, <2>1, <2>2 DEF Load
<1>2. CASE Start
  <2>1. /\ notices' = notices \o HmacNotice(settings) \o BindNotice(settings)
        /\ notices \in Seq(Warnings) /\ phase = "starting" /\ phase' = "sleeping"
        /\ settings' = settings
    BY <1>2 DEF Start, TypeOK
  <2>2. Said("hmac", notices') = (IF settings.secret = 0 THEN 1 ELSE 0)
    BY <2>1, SaidAtStart DEF NoticesInv
  <2>3. QED
    BY <2>1, <2>2 DEF NoticesInv, Said
<1>3. CASE LinkLost \/ WakeHealthy \/ WakeLost \/ Reconnects \/ AttemptFails \/ UNCHANGED vars
  <2>1. /\ UNCHANGED <<settings, notices>>
        /\ \/ phase' = phase
           \/ phase \in {"sleeping", "attempting"} /\ phase' \in {"sleeping", "attempting"}
    BY <1>3 DEF LinkLost, WakeHealthy, WakeLost, Reconnects, AttemptFails, vars
  <2>2. QED
    BY <2>1 DEF NoticesInv, Said, IsProductionSignal, HostLooksPublic, PublicUrl
<1>4. QED
  BY <1>1, <1>2, <1>3 DEF Next

(* Whichever of the validator and lifespan() has to say it, one does, and  *)
(* the other does not; and a service that was refused has said nothing.    *)
THEOREM OneNotice == Spec => []OneHmacNotice
<1>1. Init => NoticesInv
  BY DEF Init, NoticesInv
<1>2. NoticesInv => OneHmacNotice
  BY DEF NoticesInv, OneHmacNotice
<1>3. QED
  BY <1>1, <1>2, NoticesStep, TypeCorrect, PTL DEF Spec

-----------------------------------------------------------------------------
(***************************************************************************)
(* The pace                                                                *)
(***************************************************************************)

LEMMA Distributes ==
  ASSUME NEW a \in Nat, NEW b \in Nat, NEW c \in Nat
  PROVE  (a + b) * c = a * c + b * c /\ a * c \in Nat /\ b * c \in Nat
OBVIOUS

LEMMA TimesMonotone ==
  ASSUME NEW a \in Nat, NEW b \in Nat, NEW c \in Nat, a =< b
  PROVE  a * c =< b * c /\ a * c \in Nat /\ b * c \in Nat
OBVIOUS

(* One more delay d, asked for as N, spread by u to v: after k that took   *)
(* at least the base b each, and after others of M with x for the attempts.*)
LEMMA AddDelayApart ==
  ASSUME NEW s \in Nat, NEW d \in Nat, NEW S \in Nat, NEW u \in Nat,
         NEW N \in Nat, NEW k \in Nat, NEW b \in Nat,
         s * S >= k * b * u, d * S >= N * u, b =< N
  PROVE  (s + d) * S >= (k + 1) * b * u
<1>1. (s + d) * S = s * S + d * S /\ s * S \in Nat /\ d * S \in Nat
  BY Distributes
<1>2. (k + 1) * b = k * b + b /\ k * b \in Nat
  BY Distributes
<1>3. (k * b + b) * u = k * b * u + b * u /\ k * b * u \in Nat /\ b * u \in Nat
  BY <1>2, Distributes
<1>4. b * u =< N * u /\ N * u \in Nat
  BY TimesMonotone
<1>5. QED
  BY <1>1, <1>2, <1>3, <1>4

LEMMA AddDelaySpread ==
  ASSUME NEW s \in Nat, NEW d \in Nat, NEW S \in Nat, NEW u \in Nat, NEW v \in Nat,
         NEW M \in Nat, NEW N \in Nat, NEW x \in Nat,
         s * S >= M * u, s * S =< M * v + x, d * S >= N * u, d * S =< N * v
  PROVE  (s + d) * S >= (N + M) * u /\ (s + d) * S =< (N + M) * v + x
<1>1. (s + d) * S = s * S + d * S /\ s * S \in Nat /\ d * S \in Nat
  BY Distributes
<1>2. (N + M) * u = N * u + M * u /\ N * u \in Nat /\ M * u \in Nat
  BY Distributes
<1>3. (N + M) * v = N * v + M * v /\ N * v \in Nat /\ M * v \in Nat
  BY Distributes
<1>4. QED
  BY <1>1, <1>2, <1>3

(* One more attempt, which takes t of at most h.                           *)
LEMMA AddAttempt ==
  ASSUME NEW s \in Nat, NEW t \in Nat, NEW S \in Nat, NEW h \in Nat, NEW r \in Nat,
         NEW y \in Nat, t =< h, s * S =< y + r * h * S
  PROVE  s * S =< (s + t) * S /\ (s + t) * S =< y + (r + 1) * h * S
<1>1. (s + t) * S = s * S + t * S /\ s * S \in Nat /\ t * S \in Nat
  BY Distributes
<1>2. (r + 1) * h = r * h + h /\ r * h \in Nat
  BY Distributes
<1>3. (r * h + h) * S = r * h * S + h * S /\ r * h * S \in Nat /\ h * S \in Nat
  BY <1>2, Distributes
<1>4. t * S =< h * S
  BY TimesMonotone
<1>5. QED
  BY <1>1, <1>2, <1>3, <1>4

LEMMA SettingsAreFixed ==
  ASSUME settings' = settings
  PROVE  /\ Sum' = Sum /\ CapInReach' = CapInReach
         /\ BackoffAccepted(settings)' = BackoffAccepted(settings)
         /\ \A n : Delays(n)' = Delays(n)
BY DEF Sum, Nominal, CapInReach, BackoffAccepted, Delays

LEMMA NumbersTypes ==
  ASSUME TypeOK, BackoffAccepted(settings)
  PROVE  /\ settings \in RawSettings
         /\ settings.base \in Nat /\ settings.hardTimeout \in Nat /\ Scale \in Nat
         /\ Scale - settings.jitter \in Nat /\ Scale + settings.jitter \in Nat
         /\ row \in Nat /\ since \in Nat /\ delay \in Nat /\ MaxExponent \in Nat
<1>1. settings \in RawSettings
  BY EnvironmentsAssumption DEF TypeOK
<1>2. QED
  BY <1>1, ScaleAssumption, BoundsAssumption DEF TypeOK, RawSettings, BackoffAccepted

(* The loop wakes up to a lost link: the delay joins the row.              *)
LEMMA WakeKeepsPace ==
  ASSUME TypeOK, PaceInv, WakeLost
  PROVE  Paced(row)'
<1>1. /\ phase = "sleeping" /\ UNCHANGED <<settings, row>> /\ BackoffAccepted(settings)
      /\ since' = IF row = 0 THEN 0 ELSE since + delay
  BY DEF WakeLost, PaceInv
<1>2. Sum' = Sum /\ CapInReach' = CapInReach
  BY <1>1, SettingsAreFixed
<1> DEFINE b == settings.base
           h == settings.hardTimeout
           u == Scale - settings.jitter
           v == Scale + settings.jitter
           x == row * h * Scale
<1>3. /\ b \in Nat /\ h \in Nat /\ Scale \in Nat /\ u \in Nat /\ v \in Nat
      /\ row \in Nat /\ since \in Nat /\ delay \in Nat
  BY <1>1, NumbersTypes
<1>4. CASE row = 0
  <2>1. Sum[0] = 0
    BY <1>1, NumbersTypes, SumAdds
  <2>2. 0 * b = 0 /\ 0 * u = 0 /\ 0 * v = 0 /\ 0 * h = 0 /\ 0 * Scale = 0
    BY <1>3
  <2>3. since' = 0 /\ row' = 0 /\ settings' = settings
    BY <1>1, <1>4
  <2>4. QED
    BY <1>2, <2>1, <2>2, <2>3 DEF Paced, Apart, Spread
<1>5. CASE row # 0
  <2> DEFINE k == row - 1
             M == Sum[k]
             N == Nominal(row)
             F == Nominal(failed)
  <2>1. k \in Nat /\ k + 1 = row /\ Paced(k)
    BY <1>1, <1>3, <1>5 DEF PaceInv
  <2>2. since' = since + delay /\ row' = row /\ settings' = settings
    BY <1>1, <1>5
  <2>3. failed \in Nat /\ F \in Nat /\ b =< F /\ N \in Nat
    <3>1. failed \in Nat
      BY BoundsAssumption DEF TypeOK
    <3>2. QED
      BY <1>1, <1>3, <3>1, NumbersTypes, NominalBounds
  <2>4. delay * Scale >= F * u /\ delay * Scale =< F * v
    BY <1>1 DEF PaceInv, Delays
  <2>5. Apart(row)'
    <3>1. since * Scale >= k * b * u
      BY <2>1 DEF Paced, Apart
    <3> HIDE DEF b, u, k, F
    <3>2. (since + delay) * Scale >= (k + 1) * b * u
      BY <1>3, <2>1, <2>3, <2>4, <3>1, AddDelayApart
    <3>3. (since + delay) * Scale >= row * b * u
      BY <2>1, <3>2
    <3>4. QED
      BY <2>2, <3>3 DEF Apart, b, u
  <2>6. ASSUME CapInReach PROVE Spread(row)'
    <3>1. F = N
      <4>1. CASE row < MaxExponent
        BY <4>1 DEF PaceInv
      <4>2. CASE ~(row < MaxExponent)
        <5>1. MaxExponent \in Nat /\ MaxExponent =< row /\ failed = MaxExponent
          BY <1>3, <4>2, BoundsAssumption DEF PaceInv
        <5>2. QED
          BY <1>1, <1>3, <2>6, <5>1, NumbersTypes, SaturationIsHarmless DEF CapInReach
      <4>3. QED
        BY <4>1, <4>2
    <3>2. M \in Nat /\ since * Scale >= M * u /\ since * Scale =< M * v + x
      BY <2>1, <2>6 DEF Paced, Spread
    <3>3. Sum[row] = N + M
      BY <1>1, <2>1, NumbersTypes, SumAdds
    <3>4. x \in Nat
      <4>1. row * h \in Nat
        BY <1>3, Distributes
      <4>2. QED
        BY <1>3, <4>1, Distributes
    <3> HIDE DEF b, h, u, v, x, k, M, N, F
    <3>5. /\ (since + delay) * Scale >= (N + M) * u
          /\ (since + delay) * Scale =< (N + M) * v + x
      BY <1>3, <2>3, <2>4, <3>1, <3>2, <3>4, AddDelaySpread
    <3>6. N + M \in Nat
      BY <2>3, <3>2
    <3>7. QED
      BY <1>2, <2>2, <3>3, <3>5, <3>6 DEF Spread, h, u, v, x
  <2>7. QED
    BY <1>2, <2>5, <2>6 DEF Paced
<1>6. QED
  BY <1>4, <1>5

(* An attempt fails: its time joins the row.                               *)
LEMMA FailureKeepsPace ==
  ASSUME TypeOK, PaceInv, AttemptFails
  PROVE  Paced(row - 1)'
<1>1. /\ phase = "attempting" /\ settings' = settings /\ row' = row + 1
      /\ BackoffAccepted(settings) /\ Paced(row)
  BY DEF AttemptFails, PaceInv
<1>2. PICK t \in 0..settings.hardTimeout : since' = since + t
  BY DEF AttemptFails
<1>3. Sum' = Sum /\ CapInReach' = CapInReach
  BY <1>1, SettingsAreFixed
<1> DEFINE b == settings.base
           h == settings.hardTimeout
           u == Scale - settings.jitter
           v == Scale + settings.jitter
<1>4. /\ b \in Nat /\ h \in Nat /\ Scale \in Nat /\ u \in Nat /\ v \in Nat
      /\ row \in Nat /\ since \in Nat
  BY <1>1, NumbersTypes
<1>5. t \in Nat /\ t =< h /\ row' - 1 = row
  BY <1>1, <1>2, <1>4
<1>6. /\ since * Scale \in Nat /\ (since + t) * Scale \in Nat
      /\ since * Scale =< (since + t) * Scale
  <2>1. since + t \in Nat /\ since =< since + t
    BY <1>4, <1>5
  <2>2. QED
    BY <1>4, <2>1, TimesMonotone
<1>7. Apart(row - 1)'
  <2>1. since * Scale >= row * b * u
    BY <1>1 DEF Paced, Apart
  <2> HIDE DEF b, u
  <2>2. row * b * u \in Nat
    <3>1. row * b \in Nat
      BY <1>4, Distributes
    <3>2. QED
      BY <1>4, <3>1, Distributes
  <2>3. (since + t) * Scale >= row * b * u
    BY <1>6, <2>1, <2>2
  <2>4. QED
    BY <1>1, <1>2, <1>5, <2>3 DEF Apart, b, u
<1>8. ASSUME CapInReach PROVE Spread(row - 1)'
  <2> DEFINE M == Sum[row]
             y == M * v
  <2>1. M \in Nat /\ since * Scale >= M * u /\ since * Scale =< y + row * h * Scale
    BY <1>1, <1>8 DEF Paced, Spread
  <2>2. y \in Nat /\ M * u \in Nat
    BY <1>4, <2>1, Distributes
  <2> HIDE DEF h, u, v, M, y
  <2>3. (since + t) * Scale =< y + (row + 1) * h * Scale
    BY <1>4, <1>5, <2>1, <2>2, AddAttempt
  <2>4. (since + t) * Scale >= M * u
    BY <1>6, <2>1, <2>2
  <2>5. QED
    BY <1>1, <1>2, <1>3, <1>5, <2>1, <2>3, <2>4 DEF Spread, h, u, v, M, y
<1>9. QED
  BY <1>3, <1>7, <1>8 DEF Paced

LEMMA PaceStep == TypeOK /\ PaceInv /\ [Next]_vars => PaceInv'
<1> SUFFICES ASSUME TypeOK, PaceInv, [Next]_vars PROVE PaceInv'
  OBVIOUS
<1> USE BoundsAssumption DEF loopVars
<1>1. settings' = settings
  BY DEF Next, Load, Start, LinkLost, WakeHealthy, WakeLost, Reconnects, AttemptFails, vars
<1>2. /\ Sum' = Sum /\ CapInReach' = CapInReach
      /\ BackoffAccepted(settings)' = BackoffAccepted(settings)
      /\ \A n : Delays(n)' = Delays(n)
  BY <1>1, SettingsAreFixed
<1>3. CASE Load
  <2>1. failed' = failed /\ row' = row /\ row = 0 /\ phase' \in {"starting", "refused"}
    BY <1>3 DEF Load, PaceInv
  <2>2. phase' = "starting" => BackoffAccepted(settings)
    BY <1>3 DEF Load, Accepted
  <2>3. BackoffAccepted(settings) => BackoffAccepted(settings)'
    BY <1>2
  <2>4. failed' = IF row' < MaxExponent THEN row' ELSE MaxExponent
    BY <2>1 DEF PaceInv
  <2>5. QED
    BY <2>1, <2>2, <2>3, <2>4 DEF PaceInv
<1>4. CASE Start
  <2>1. /\ phase = "starting" /\ phase' = "sleeping" /\ failed' = 0 /\ delay' \in Delays(0)
        /\ row' = row
    BY <1>4 DEF Start, FallAsleep
  <2>2. row = 0
    BY <2>1 DEF PaceInv
  <2>3. QED
    BY <1>2, <2>1, <2>2 DEF PaceInv
<1>5. CASE LinkLost
  BY <1>1, <1>2, <1>5 DEF LinkLost, PaceInv, Paced, Apart, Spread
<1>6. CASE WakeHealthy \/ Reconnects
  <2>1. /\ phase \in {"sleeping", "attempting"} /\ phase' = "sleeping"
        /\ failed' = 0 /\ delay' \in Delays(0) /\ row' = 0
    BY <1>6 DEF WakeHealthy, Reconnects, FallAsleep
  <2>2. QED
    BY <1>2, <2>1 DEF PaceInv
<1>7. CASE WakeLost
  <2>1. /\ phase = "sleeping" /\ phase' = "attempting" /\ UNCHANGED <<failed, delay, row>>
    BY <1>7 DEF WakeLost
  <2>2. Paced(row)'
    BY <1>7, WakeKeepsPace
  <2>3. QED
    BY <1>2, <2>1, <2>2 DEF PaceInv
<1>8. CASE AttemptFails
  <2>1. /\ phase = "attempting" /\ phase' = "sleeping" /\ row' = row + 1
        /\ failed' = IF failed < MaxExponent THEN failed + 1 ELSE failed
        /\ delay' \in Delays(failed')
    BY <1>8 DEF AttemptFails, FallAsleep
  <2>2. Paced(row - 1)'
    BY <1>8, FailureKeepsPace
  <2>3. failed' = IF row' < MaxExponent THEN row' ELSE MaxExponent
    BY <2>1 DEF PaceInv, TypeOK
  <2>4. QED
    BY <1>2, <2>1, <2>2, <2>3 DEF PaceInv
<1>9. CASE UNCHANGED vars
  BY <1>2, <1>9 DEF vars, PaceInv, Paced, Apart, Spread
<1>10. QED
  BY <1>3, <1>4, <1>5, <1>6, <1>7, <1>8, <1>9 DEF Next

LEMMA PaceSelects == TypeOK /\ PaceInv => AttemptsArePaced
BY DEF PaceInv, AttemptsArePaced, Paced, Apart, Spread

(* Through every outage, the attempts of an unbroken row of failures are   *)
(* never closer than the base and its jitter, under every setting that is  *)
(* accepted; where the doubling can reach the cap they are as spread out   *)
(* as it demands, and take no more than that and their own time-outs.      *)
THEOREM OutagesArePaced == Spec => []AttemptsArePaced
<1>1. Init => PaceInv
  BY BoundsAssumption DEF Init, PaceInv
<1>2. QED
  BY <1>1, PaceStep, PaceSelects, TypeCorrect, PTL DEF Spec
==============================================================================
