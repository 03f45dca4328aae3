------------------------------- MODULE Loops -------------------------------
(***************************************************************************)
(* Lemmas about the loops of the SD card driver and of the FAT, which are  *)
(* written as recursive functions over their rounds, and about remainders. *)
(***************************************************************************)
EXTENDS Integers, WellFoundedInduction, TLAPS

-----------------------------------------------------------------------------
(* Loops.                                                                  *)

\* A set of natural numbers that is not empty has a smallest element.
LEMMA Smallest ==
    ASSUME NEW T, T \subseteq Nat, T # {}
    PROVE  \E t \in T : \A u \in T : t <= u
  <1> DEFINE R == {p \in Nat \X Nat : p[1] < p[2]}
  <1>1. IsWellFoundedOn(R, Nat)
    BY NatLessThanWellFounded DEF OpToRel
  <1> HIDE DEF R
  <1>2. \E t \in T : \A u \in T : ~(<<u, t>> \in R)
    BY <1>1, WFMin
  <1>3. \A t \in Nat, u \in Nat : ~(<<u, t>> \in R) => t <= u
    BY DEF R
  <1> QED
    BY <1>2, <1>3

\* What holds of the first state of a loop and is kept by its steps holds of
\* the last one.
LEMMA LoopKeeps ==
    ASSUME NEW S, NEW n \in Nat, NEW f, f[0] \in S,
           \A k \in 1 .. n : f[k - 1] \in S => f[k] \in S
    PROVE  \A k \in 0 .. n : f[k] \in S
  <1> DEFINE T == {k \in 0 .. n : f[k] \notin S}
  <1>1. ASSUME T # {} PROVE FALSE
    <2>1. T \subseteq Nat
      OBVIOUS
    <2>2. \A k : k \in T <=> k \in 0 .. n /\ f[k] \notin S
      OBVIOUS
    <2> HIDE DEF T
    <2>3. PICK t \in T : \A u \in T : t <= u
      BY <1>1, <2>1, Smallest
    <2>4. t \in 1 .. n /\ t - 1 \in 0 .. n
      <3>1. t \in 0 .. n /\ t # 0
        BY <2>2
      <3> QED
        BY <3>1
    <2>5. t - 1 \notin T
      BY <2>3, <2>4
    <2> QED
      BY <2>2, <2>4, <2>5
  <1> QED
    BY <1>1

\* So does what may depend on the round.
LEMMA LoopKeepsAt ==
    ASSUME NEW T, NEW n \in Nat, NEW f, <<0, f[0]>> \in T,
           \A k \in 1 .. n : <<k - 1, f[k - 1]>> \in T => <<k, f[k]>> \in T
    PROVE  \A k \in 0 .. n : <<k, f[k]>> \in T
  <1> DEFINE g == [k \in 0 .. n |-> <<k, f[k]>>]
  <1>1. g[0] \in T
    OBVIOUS
  <1>2. ASSUME NEW k \in 1 .. n, g[k - 1] \in T PROVE g[k] \in T
    <2>1. k - 1 \in 0 .. n /\ k \in 0 .. n
      OBVIOUS
    <2> QED
      BY <1>2, <2>1
  <1>3. \A k \in 0 .. n : g[k] = <<k, f[k]>>
    OBVIOUS
  <1> HIDE DEF g
  <1>4. \A k \in 0 .. n : g[k] \in T
    BY <1>1, <1>2, LoopKeeps
  <1> QED
    BY <1>3, <1>4

\* The states of a loop of n rounds, from b on, are defined.
Loop(f, b, D, n) == f = [k \in 0 .. n |-> IF k = 0 THEN b ELSE D[<<k, f[k - 1]>>]]
LEMMA LoopDefined ==
    ASSUME NEW S, NEW b \in S, NEW D \in [Int \X S -> S], NEW n \in Nat
    PROVE  \E f \in [0 .. n -> S] : Loop(f, b, D, n)
  <1> DEFINE Is(f, m) ==
                f = [k \in 0 .. m |-> IF k = 0 THEN b ELSE D[<<k, f[k - 1]>>]]
             T == {m \in 0 .. n : \A f \in [0 .. m -> S] : ~Is(f, m)}
  <1>1. 0 \notin T
    <2>1. [k \in 0 .. 0 |-> b] \in [0 .. 0 -> S]
      OBVIOUS
    <2>2. Is([k \in 0 .. 0 |-> b], 0)
      OBVIOUS
    <2> QED
      BY <2>1, <2>2
  <1>2. ASSUME NEW m \in 1 .. n, m - 1 \notin T PROVE m \notin T
    <2>1. PICK f \in [0 .. m - 1 -> S] : Is(f, m - 1)
      BY <1>2
    <2> DEFINE g == [k \in 0 .. m |-> IF k = m THEN D[<<m, f[m - 1]>>] ELSE f[k]]
    <2>2. f[m - 1] \in S /\ D[<<m, f[m - 1]>>] \in S
      OBVIOUS
    <2>3. g \in [0 .. m -> S]
      BY <2>2
    <2>4. ASSUME NEW k \in 0 .. m
          PROVE  g[k] = IF k = 0 THEN b ELSE D[<<k, g[k - 1]>>]
      <3>1. CASE k = m
        <4>1. g[k] = D[<<m, f[m - 1]>>] /\ k # 0
          BY <3>1
        <4>2. g[k - 1] = f[m - 1]
          BY <3>1
        <4> HIDE DEF g
        <4> QED
          BY <3>1, <4>1, <4>2
      <3>2. CASE k # m
        <4>1. k \in 0 .. m - 1 /\ (k = 0 \/ k - 1 \in 0 .. m - 1) /\ k - 1 # m
          BY <3>2
        <4>2. g[k] = f[k] /\ (k # 0 => g[k - 1] = f[k - 1])
          BY <4>1
        <4>3. f[k] = IF k = 0 THEN b ELSE D[<<k, f[k - 1]>>]
          BY <2>1, <4>1
        <4> QED
          BY <4>2, <4>3
      <3> QED
        BY <3>1, <3>2
    <2> HIDE DEF g
    <2>5. Is(g, m)
      BY <2>3, <2>4
    <2> QED
      BY <2>3, <2>5
  <1>3. T = {}
    <2>1. ASSUME T # {} PROVE FALSE
      <3>1. T \subseteq Nat
        OBVIOUS
      <3> HIDE DEF T
      <3>2. PICK t \in T : \A u \in T : t <= u
        BY <2>1, <3>1, Smallest
      <3>3. t \in 1 .. n /\ t - 1 \in 0 .. n
        <4>1. t \in 0 .. n
          BY DEF T
        <4>2. t # 0
          BY <1>1
        <4> QED
          BY <4>1, <4>2
      <3>4. t - 1 \notin T
        BY <3>2, <3>3
      <3> QED
        BY <1>2, <3>2, <3>3, <3>4
    <2> QED
      BY <2>1
  <1>4. n \in 0 .. n
    OBVIOUS
  <1>5. ~ \A f \in [0 .. n -> S] : ~Is(f, n)
    BY <1>3, <1>4
  <1> QED
    BY <1>5 DEF Loop

\* A loop whose step G keeps an invariant T of the round and the state is
\* defined, and the invariant holds in every round.
LEMMA LoopRuns ==
    ASSUME NEW S, NEW b \in S, NEW n \in Nat, NEW T, <<0, b>> \in T, NEW G,
           \A k \in 1 .. n, x \in S : <<k - 1, x>> \in T =>
               G[<<k, x>>] \in S /\ <<k, G[<<k, x>>]>> \in T
    PROVE  \E f \in [0 .. n -> S] :
               /\ Loop(f, b, G, n)
               /\ \A k \in 0 .. n : <<k, f[k]>> \in T
  <1> DEFINE D == [p \in Int \X S |-> IF G[p] \in S THEN G[p] ELSE b]
  <1>1. D \in [Int \X S -> S]
    OBVIOUS
  <1>2. \A k \in Int, x \in S :
            D[<<k, x>>] = IF G[<<k, x>>] \in S THEN G[<<k, x>>] ELSE b
    OBVIOUS
  <1> HIDE DEF D
  <1>3. PICK f \in [0 .. n -> S] : Loop(f, b, D, n)
    BY <1>1, LoopDefined
  <1>4. f[0] = b /\ \A k \in 1 .. n : f[k] = D[<<k, f[k - 1]>>] /\ f[k - 1] \in S
    <2>1. \A k \in 1 .. n : k - 1 \in 0 .. n /\ k \in 0 .. n /\ k # 0
      OBVIOUS
    <2> QED
      BY <1>3, <2>1 DEF Loop
  <1>5. \A k \in 1 .. n : <<k - 1, f[k - 1]>> \in T => <<k, f[k]>> \in T
    <2> TAKE k \in 1 .. n
    <2> HAVE <<k - 1, f[k - 1]>> \in T
    <2>1. G[<<k, f[k - 1]>>] \in S /\ <<k, G[<<k, f[k - 1]>>]>> \in T
      BY <1>4
    <2>2. f[k] = G[<<k, f[k - 1]>>]
      BY <1>2, <1>4, <2>1
    <2> QED
      BY <2>1, <2>2
  <1>6. \A k \in 0 .. n : <<k, f[k]>> \in T
    BY <1>4, <1>5, LoopKeepsAt
  <1>7. \A k \in 1 .. n : f[k] = G[<<k, f[k - 1]>>]
    <2> TAKE k \in 1 .. n
    <2>1. k - 1 \in 0 .. n
      OBVIOUS
    <2>2. G[<<k, f[k - 1]>>] \in S
      BY <1>4, <1>6, <2>1
    <2> QED
      BY <1>2, <1>4, <2>2
  <1>8. Loop(f, b, G, n)
    <2>1. f = [k \in 0 .. n |-> f[k]]
      BY <1>3
    <2>2. \A k \in 0 .. n : f[k] = IF k = 0 THEN b ELSE G[<<k, f[k - 1]>>]
      BY <1>4, <1>7
    <2> QED
      BY <2>1, <2>2 DEF Loop
  <1> QED
    BY <1>6, <1>8

-----------------------------------------------------------------------------
(* Remainders.                                                             *)

\* What a remainder is.
Splits(a, C, q, r) == a = C * q + r
LEMMA RemainderIs ==
    ASSUME NEW C \in Nat, C > 4, NEW a \in Int, NEW q \in Int, NEW r \in 0 .. C - 1,
           Splits(a, C, q, r)
    PROVE  a % C = r
  BY DEF Splits

\* Every number has one.
LEMMA RemainderOf ==
    ASSUME NEW C \in Nat, C > 4, NEW a \in Int
    PROVE  \E q \in Int : Splits(a, C, q, a % C) /\ a % C \in 0 .. C - 1
  <1> DEFINE T == {t \in Nat : \E q \in Int : a = C * q + t}
  <1>1. \E u : u \in T
    <2>1. CASE a >= 0
      <3>1. C * 0 = 0 /\ a \in Nat
        BY <2>1
      <3>2. a = C * 0 + a
        BY <3>1
      <3>3. a \in T
        BY <3>1, <3>2
      <3> QED
        BY <3>3
    <2>2. CASE a < 0
      <3> DEFINE w == (C - 1) * (-a)
      <3>1. w \in Nat
        BY <2>2
      <3>2. a = C * a + w
        OBVIOUS
      <3> HIDE DEF w
      <3>3. w \in T
        BY <3>1, <3>2
      <3> QED
        BY <3>3
    <2> QED
      BY <2>1, <2>2
  <1>2. PICK t \in T : \A u \in T : t <= u
    <2>1. T \subseteq Nat
      OBVIOUS
    <2> HIDE DEF T
    <2> QED
      BY <1>1, <2>1, Smallest
  <1>3. PICK q \in Int : a = C * q + t
    OBVIOUS
  <1>4. t < C
    <2>1. ASSUME t >= C PROVE FALSE
      <3>1. t - C \in Nat /\ a = C * (q + 1) + (t - C)
        BY <1>3, <2>1
      <3>2. t - C \in T
        BY <3>1
      <3> QED
        BY <1>2, <3>2
    <2> QED
      BY <2>1
  <1>5. t \in 0 .. C - 1
    BY <1>4
  <1>6. Splits(a, C, q, t)
    BY <1>3 DEF Splits
  <1>7. a % C = t
    BY <1>5, <1>6, RemainderIs
  <1> QED
    BY <1>5, <1>6, <1>7
=============================================================================
