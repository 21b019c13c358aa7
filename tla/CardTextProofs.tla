--------------------------- MODULE CardTextProofs ---------------------------
(***************************************************************************)
(* What the operators of CardText do with a text of any length: inductions *)
(* over the text, each made with a set of numbers or of sequences.         *)
(***************************************************************************)
EXTENDS CardText, SequenceTheorems, WellFoundedInduction, TLAPS

-----------------------------------------------------------------------------
(* Induction. *)

\* A set that holds 0 and the successor of each of its numbers holds them all.
LEMMA SetInduction ==
  ASSUME NEW S, 0 \in S, \A n \in Nat : n \in S => n + 1 \in S
  PROVE  \A n \in Nat : n \in S
<1> DEFINE T == Nat \ S
           R == OpToRel(<, Nat)
<1>1. SUFFICES ASSUME T # {} PROVE FALSE
  OBVIOUS
<1>2. IsWellFoundedOn(R, Nat)
  BY NatLessThanWellFounded
<1>3. \A a, b \in Nat : a < b => <<a, b>> \in R
  BY DEF OpToRel
<1> HIDE DEF R
<1>4. PICK x \in T : \A y \in T : <<y, x>> \notin R
  <2> HIDE DEF T
  <2>1. T \subseteq Nat
    BY DEF T
  <2> QED
    BY <1>1, <1>2, <2>1, WFMin
<1>5. x # 0 /\ x - 1 \in Nat /\ x - 1 < x
  BY <1>4
<1>6. x - 1 \in S
  BY <1>3, <1>4, <1>5
<1> QED
  BY <1>4, <1>5, <1>6

\* A set that holds the empty sequence, and with a sequence each that is longer by one,
\* holds them all.
LEMMA SeqInduction ==
  ASSUME NEW T, NEW P, << >> \in P,
         \A s \in Seq(T), e \in T : s \in P => Append(s, e) \in P
  PROVE  \A s \in Seq(T) : s \in P
<1> DEFINE S == {n \in Nat : \A s \in Seq(T) : Len(s) = n => s \in P}
<1>1. 0 \in S
  BY EmptySeq
<1>2. ASSUME NEW n \in Nat, n \in S PROVE n + 1 \in S
  <2> SUFFICES ASSUME NEW s \in Seq(T), Len(s) = n + 1 PROVE s \in P
    OBVIOUS
  <2>1. s # << >>
    BY EmptySeq
  <2>2. PICK t \in Seq(T), e \in T : s = Append(t, e)
    BY <2>1, SequenceEmptyOrAppend
  <2>3. Len(t) = n
    BY <2>2, AppendProperties, LenProperties
  <2> QED
    BY <1>2, <2>2, <2>3
<1>3. \A n \in Nat : n \in S
  <2> HIDE DEF S
  <2> QED
    BY <1>1, <1>2, SetInduction
<1> QED
  BY <1>3, LenProperties

\* f begins with z and goes on by the steps.
Built(f, N, T, z, Step) ==
  /\ f \in [0 .. N -> T]
  /\ f[0] = z
  /\ \A n \in 1 .. N : f[n] = Step[n][f[n - 1]]

Steps(N, T, Step) == \A n \in 1 .. N, v \in T : Step[n][v] \in T

\* A function can be given step by step.
LEMMA StepByStep ==
  ASSUME NEW N \in Nat, NEW T, NEW z \in T, NEW Step, Steps(N, T, Step)
  PROVE  \E f : Built(f, N, T, z, Step)
<1> USE DEF Built, Steps
<1> DEFINE Begins(n, f) == f[0] = z /\ \A k \in 1 .. n : f[k] = Step[k][f[k - 1]]
           S == {n \in Nat : n <= N => \E f \in [0 .. n -> T] : Begins(n, f)}
<1>1. 0 \in S
  <2>1. Begins(0, [k \in 0 .. 0 |-> z])
    OBVIOUS
  <2>2. [k \in 0 .. 0 |-> z] \in [0 .. 0 -> T]
    OBVIOUS
  <2> QED
    BY <2>1, <2>2
<1>2. ASSUME NEW n \in Nat, n \in S PROVE n + 1 \in S
  <2> SUFFICES ASSUME n + 1 <= N PROVE \E f \in [0 .. n + 1 -> T] : Begins(n + 1, f)
    OBVIOUS
  <2>1. PICK f \in [0 .. n -> T] : Begins(n, f)
    BY <1>2
  <2> DEFINE g == [k \in 0 .. n + 1 |-> IF k = n + 1 THEN Step[n + 1][f[n]] ELSE f[k]]
  <2>2. Step[n + 1][f[n]] \in T
    BY <2>1
  <2>3. g \in [0 .. n + 1 -> T]
    BY <2>2
  <2>4. g[0] = z
    BY <2>1
  <2>5. ASSUME NEW k \in 1 .. n + 1 PROVE g[k] = Step[k][g[k - 1]]
    <3>1. CASE k = n + 1
      BY <3>1
    <3>2. CASE k \in 1 .. n
      BY <2>1, <3>2
    <3> QED
      BY <3>1, <3>2
  <2> HIDE DEF g
  <2> QED
    BY <2>3, <2>4, <2>5
<1>3. \A n \in Nat : n \in S
  <2> HIDE DEF S
  <2> QED
    BY <1>1, <1>2, SetInduction
<1> QED
  BY <1>3

-----------------------------------------------------------------------------
(* Leaving an element out. *)

\* The function in the definition of Without, prefix by prefix.
Shortened(s, e, f) ==
  f = [n \in 0 .. Len(s) |->
         IF n = 0 THEN << >>
         ELSE IF s[n] = e THEN f[n - 1] ELSE Append(f[n - 1], s[n])]

\* Without is built prefix by prefix.
LEMMA WithoutUnfolds ==
  ASSUME NEW T, NEW s \in Seq(T), NEW e
  PROVE  \E f \in [0 .. Len(s) -> Seq(T)] : Shortened(s, e, f) /\ Without(s, e) = f[Len(s)]
<1> DEFINE Step == [n \in 1 .. Len(s) |-> [v \in Seq(T) |->
                      IF s[n] = e THEN v ELSE Append(v, s[n])]]
           G == CHOOSE f : Shortened(s, e, f)
<1>1. Len(s) \in Nat /\ \A n \in 1 .. Len(s) : s[n] \in T
  BY LenProperties, ElementOfSeq
<1>2. << >> \in Seq(T)
  BY EmptySeq
<1>3. \A n \in 1 .. Len(s), v \in Seq(T) :
         /\ Step[n][v] = IF s[n] = e THEN v ELSE Append(v, s[n])
         /\ Step[n][v] \in Seq(T)
  BY <1>1, AppendProperties
<1>4. PICK f \in [0 .. Len(s) -> Seq(T)] :
         /\ f[0] = << >>
         /\ \A n \in 1 .. Len(s) : f[n] = Step[n][f[n - 1]]
  <2> HIDE DEF Step
  <2>1. Steps(Len(s), Seq(T), Step)
    BY <1>3 DEF Steps
  <2>2. \E f : Built(f, Len(s), Seq(T), << >>, Step)
    BY <1>1, <1>2, <2>1, StepByStep
  <2> QED
    BY <2>2 DEF Built
<1>5. \A n \in 1 .. Len(s) : n - 1 \in 0 .. Len(s)
  BY <1>1
<1>6. Shortened(s, e, f)
  <2> HIDE DEF Step
  <2>1. \A n \in 1 .. Len(s) : f[n] = IF s[n] = e THEN f[n - 1] ELSE Append(f[n - 1], s[n])
    BY <1>3, <1>4, <1>5
  <2> DEFINE h == [n \in 0 .. Len(s) |->
                     IF n = 0 THEN << >>
                     ELSE IF s[n] = e THEN f[n - 1] ELSE Append(f[n - 1], s[n])]
  <2>2. ASSUME NEW n \in 0 .. Len(s) PROVE f[n] = h[n]
    <3>1. n = 0 \/ n \in 1 .. Len(s)
      BY <1>1
    <3>2. n \in 1 .. Len(s) => n # 0
      BY <1>1
    <3> QED
      BY <1>4, <2>1, <3>1, <3>2, Zenon
  <2>3. f = [n \in 0 .. Len(s) |-> f[n]] /\ h = [n \in 0 .. Len(s) |-> h[n]]
    OBVIOUS
  <2>4. f = h
    <3> HIDE DEF h
    <3> QED
      BY <2>2, <2>3
  <2> QED
    BY <2>4 DEF Shortened
<1>7. Shortened(s, e, G)
  BY <1>6
<1>8. Without(s, e) = G[Len(s)]
  BY DEF Without, Shortened
<1>9. G = f
  <2>1. ASSUME NEW g, Shortened(s, e, g) PROVE g = f
    <3> DEFINE S == {n \in Nat : n <= Len(s) => g[n] = f[n]}
    <3>1. \A n \in 0 .. Len(s) :
             g[n] = IF n = 0 THEN << >>
                    ELSE IF s[n] = e THEN g[n - 1] ELSE Append(g[n - 1], s[n])
      BY <2>1 DEF Shortened
    <3>2. \A n \in 0 .. Len(s) :
             f[n] = IF n = 0 THEN << >>
                    ELSE IF s[n] = e THEN f[n - 1] ELSE Append(f[n - 1], s[n])
      BY <1>6 DEF Shortened
    <3>3. 0 \in S
      BY <1>1, <3>1, <3>2
    <3>4. ASSUME NEW n \in Nat, n \in S PROVE n + 1 \in S
      <4> SUFFICES ASSUME n + 1 <= Len(s) PROVE g[n + 1] = f[n + 1]
        OBVIOUS
      <4>1. n + 1 \in 0 .. Len(s) /\ n + 1 # 0 /\ (n + 1) - 1 = n /\ g[n] = f[n]
        BY <1>1, <3>4
      <4> QED
        BY <3>1, <3>2, <4>1
    <3>5. \A n \in Nat : n \in S
      <4> HIDE DEF S
      <4> QED
        BY <3>3, <3>4, SetInduction
    <3>6. \A n \in 0 .. Len(s) : g[n] = f[n]
      BY <1>1, <3>5
    <3>7. DOMAIN g = 0 .. Len(s) /\ g = [n \in DOMAIN g |-> g[n]]
      BY <2>1 DEF Shortened
    <3>8. f = [n \in 0 .. Len(s) |-> f[n]]
      OBVIOUS
    <3> QED
      BY <3>6, <3>7, <3>8
  <2> QED
    BY <1>7, <2>1
<1> QED
  BY <1>6, <1>8, <1>9

\* What is left of a sequence, and of one that is longer by one.
LEMMA WithoutEmpty ==
  ASSUME NEW e
  PROVE  Without(<< >>, e) = << >>
<1>1. << >> \in Seq({}) /\ Len(<< >>) = 0
  BY EmptySeq
<1>2. PICK f \in [0 .. Len(<< >>) -> Seq({})] :
         Shortened(<< >>, e, f) /\ Without(<< >>, e) = f[Len(<< >>)]
  BY <1>1, WithoutUnfolds
<1> QED
  BY <1>1, <1>2 DEF Shortened

\* Leaving elements out gives a sequence of the same set.
LEMMA WithoutIsSeq ==
  ASSUME NEW T, NEW e, NEW s \in Seq(T)
  PROVE  Without(s, e) \in Seq(T)
<1>1. PICK f \in [0 .. Len(s) -> Seq(T)] : Without(s, e) = f[Len(s)]
  BY WithoutUnfolds
<1>2. Len(s) \in 0 .. Len(s)
  BY LenProperties
<1> QED
  BY <1>1, <1>2

\* What one more element does to Without.
LEMMA WithoutOfAppended ==
  ASSUME NEW T, NEW e, NEW s \in Seq(T), NEW x \in T
  PROVE  /\ Append(s, x) \in Seq(T)
         /\ Without(s, e) \in Seq(T) /\ Without(Append(s, x), e) \in Seq(T)
         /\ x = e => Without(Append(s, x), e) = Without(s, e)
         /\ x # e => Without(Append(s, x), e) = Append(Without(s, e), x)
<1>1. Append(s, x) \in Seq(T)
  BY AppendProperties
<1>2. Without(s, e) \in Seq(T) /\ Without(Append(s, x), e) \in Seq(T)
  BY <1>1, WithoutIsSeq
<1>3. /\ x = e => Without(Append(s, x), e) = Without(s, e)
      /\ x # e => Without(Append(s, x), e) = Append(Without(s, e), x)
  <2> DEFINE a == Append(s, x)
             N == Len(s)
  <2>1. /\ a \in Seq(T) /\ N \in Nat /\ Len(a) = N + 1
        /\ \A i \in 1 .. N : a[i] = s[i]
        /\ a[N + 1] = x
    BY AppendProperties, LenProperties
  <2> HIDE DEF a
  <2>2. PICK f \in [0 .. N -> Seq(T)] : Shortened(s, e, f) /\ Without(s, e) = f[N]
    BY WithoutUnfolds
  <2>3. PICK g \in [0 .. Len(a) -> Seq(T)] : Shortened(a, e, g) /\ Without(a, e) = g[Len(a)]
    BY <2>1, WithoutUnfolds
  <2>4. \A n \in 0 .. N :
           f[n] = IF n = 0 THEN << >>
                  ELSE IF s[n] = e THEN f[n - 1] ELSE Append(f[n - 1], s[n])
    BY <2>2 DEF Shortened
  <2>5. \A n \in 0 .. N + 1 :
           g[n] = IF n = 0 THEN << >>
                  ELSE IF a[n] = e THEN g[n - 1] ELSE Append(g[n - 1], a[n])
    BY <2>1, <2>3 DEF Shortened
  <2> DEFINE S == {n \in Nat : n <= N => g[n] = f[n]}
  <2> HIDE DEF N
  <2>6. 0 \in S
    <3>1. 0 \in 0 .. N /\ 0 \in 0 .. N + 1
      BY <2>1
    <3>2. f[0] = << >>
      BY <2>4, <3>1
    <3>3. g[0] = << >>
      BY <2>5, <3>1
    <3> QED
      BY <3>2, <3>3
  <2>7. ASSUME NEW n \in Nat, n \in S PROVE n + 1 \in S
    <3> SUFFICES ASSUME n + 1 <= N PROVE g[n + 1] = f[n + 1]
      OBVIOUS
    <3>1. /\ n + 1 \in 0 .. N /\ n + 1 \in 0 .. N + 1 /\ n + 1 # 0 /\ (n + 1) - 1 = n
          /\ g[n] = f[n] /\ n + 1 \in 1 .. N
      BY <2>1, <2>7
    <3>2. a[n + 1] = s[n + 1]
      BY <2>1, <3>1
    <3> QED
      BY <2>4, <2>5, <3>1, <3>2
  <2>8. \A n \in Nat : n \in S
    <3> HIDE DEF S
    <3> QED
      BY <2>6, <2>7, SetInduction
  <2>9. g[N] = f[N] /\ N + 1 \in 0 .. N + 1 /\ N + 1 # 0 /\ (N + 1) - 1 = N
    BY <2>1, <2>8
  <2>10. g[N + 1] = IF x = e THEN f[N] ELSE Append(f[N], x)
    BY <2>1, <2>5, <2>9
  <2> QED
    BY <2>1, <2>2, <2>3, <2>10 DEF a
<1> QED
  BY <1>1, <1>2, <1>3

-----------------------------------------------------------------------------
(* What a sequence holds, and in which order. *)

Holds(s, a) == \E k \in 1 .. Len(s) : s[k] = a
HoldsInOrder(s, a, b) == \E k, l \in 1 .. Len(s) : k < l /\ s[k] = a /\ s[l] = b

\* s is a part of t: what it holds t holds, in the same order.
PartOf(s, t) ==
  /\ \A a : Holds(s, a) => Holds(t, a)
  /\ \A a, b : HoldsInOrder(s, a, b) => HoldsInOrder(t, a, b)

\* What a text with one more element holds, and in which order.
LEMMA HoldsOfAppended ==
  ASSUME NEW T, NEW s \in Seq(T), NEW x \in T, NEW a, NEW b
  PROVE  /\ Holds(Append(s, x), a) <=> Holds(s, a) \/ a = x
         /\ HoldsInOrder(Append(s, x), a, b) <=> HoldsInOrder(s, a, b) \/ (Holds(s, a) /\ b = x)
<1> DEFINE L == Len(s)
           t == Append(s, x)
<1>1. /\ L \in Nat /\ Len(t) = L + 1
      /\ \A i \in 1 .. L : t[i] = s[i]
      /\ t[L + 1] = x
  BY AppendProperties, LenProperties
<1> HIDE DEF L, t
<1>2. Holds(t, a) <=> (\E k \in 1 .. L : s[k] = a) \/ a = x
  BY <1>1 DEF Holds
<1>3. HoldsInOrder(t, a, b) =>
         \/ \E k, l \in 1 .. L : k < l /\ s[k] = a /\ s[l] = b
         \/ (\E k \in 1 .. L : s[k] = a) /\ b = x
  <2> SUFFICES ASSUME NEW k \in 1 .. L + 1, NEW l \in 1 .. L + 1, k < l, t[k] = a, t[l] = b
               PROVE  \/ \E i, j \in 1 .. L : i < j /\ s[i] = a /\ s[j] = b
                      \/ (\E i \in 1 .. L : s[i] = a) /\ b = x
    BY <1>1 DEF HoldsInOrder
  <2>1. k \in 1 .. L /\ s[k] = a
    BY <1>1
  <2>2. l = L + 1 \/ (l \in 1 .. L /\ s[l] = b)
    BY <1>1
  <2> QED
    BY <1>1, <2>1, <2>2
<1>4. ASSUME NEW k \in 1 .. L, NEW l \in 1 .. L, k < l, s[k] = a, s[l] = b
      PROVE  HoldsInOrder(t, a, b)
  <2>1. k \in 1 .. L + 1 /\ l \in 1 .. L + 1 /\ t[k] = a /\ t[l] = b
    BY <1>1, <1>4
  <2> QED
    BY <1>1, <1>4, <2>1 DEF HoldsInOrder
<1>5. ASSUME NEW k \in 1 .. L, s[k] = a, b = x PROVE HoldsInOrder(t, a, b)
  <2>1. k \in 1 .. L + 1 /\ L + 1 \in 1 .. L + 1 /\ k < L + 1 /\ t[k] = a /\ t[L + 1] = b
    BY <1>1, <1>5
  <2> QED
    BY <1>1, <2>1 DEF HoldsInOrder
<1> QED
  BY <1>2, <1>3, <1>4, <1>5 DEF Holds, HoldsInOrder, L, t

\* What two texts joined hold, and in which order.
LEMMA HoldsOfJoined ==
  ASSUME NEW T, NEW s \in Seq(T), NEW t \in Seq(T), NEW a, NEW b
  PROVE  /\ Holds(s \o t, a) <=> Holds(s, a) \/ Holds(t, a)
         /\ HoldsInOrder(s \o t, a, b) <=>
              HoldsInOrder(s, a, b) \/ HoldsInOrder(t, a, b) \/ (Holds(s, a) /\ Holds(t, b))
<1> DEFINE u == s \o t
           M == Len(s)
           N == Len(t)
<1>1. /\ M \in Nat /\ N \in Nat /\ Len(u) = M + N
      /\ \A i \in 1 .. M : u[i] = s[i]
      /\ \A i \in 1 .. M + N : i \in 1 .. M \/ (i - M \in 1 .. N /\ u[i] = t[i - M])
      /\ \A i \in 1 .. N : M + i \in 1 .. M + N /\ u[M + i] = t[i]
  <2>1. /\ M \in Nat /\ N \in Nat /\ Len(u) = M + N
        /\ \A i \in 1 .. M + N : u[i] = IF i <= M THEN s[i] ELSE t[i - M]
    BY ConcatProperties, LenProperties
  <2> HIDE DEF u, M, N
  <2>2. \A i \in 1 .. M : i \in 1 .. M + N /\ i <= M
    BY <2>1
  <2>3. ASSUME NEW i \in 1 .. N PROVE M + i \in 1 .. M + N /\ ~(M + i <= M) /\ (M + i) - M = i
    BY <2>1
  <2>4. \A i \in 1 .. N : u[M + i] = t[i]
    BY <2>1, <2>3
  <2>5. ASSUME NEW i \in 1 .. M + N, i \notin 1 .. M PROVE ~(i <= M) /\ i - M \in 1 .. N
    BY <2>1, <2>5
  <2>6. \A i \in 1 .. M + N : i \in 1 .. M \/ (i - M \in 1 .. N /\ u[i] = t[i - M])
    BY <2>1, <2>5
  <2> QED
    BY <2>1, <2>2, <2>3, <2>4, <2>6
<1> HIDE DEF u, M, N
<1>2. \A c : Holds(u, c) <=> (\E k \in 1 .. M : s[k] = c) \/ (\E k \in 1 .. N : t[k] = c)
  <2> TAKE c
  <2>1. ASSUME NEW k \in 1 .. M, s[k] = c PROVE Holds(u, c)
    <3>1. k \in 1 .. M + N
      BY <1>1
    <3> QED
      BY <1>1, <2>1, <3>1 DEF Holds
  <2>2. ASSUME NEW k \in 1 .. N, t[k] = c PROVE Holds(u, c)
    BY <1>1, <2>2 DEF Holds
  <2>3. ASSUME NEW k \in 1 .. M + N, u[k] = c
        PROVE  (\E i \in 1 .. M : s[i] = c) \/ (\E i \in 1 .. N : t[i] = c)
    BY <1>1, <2>3
  <2> QED
    BY <1>1, <2>1, <2>2, <2>3 DEF Holds
<1>3. ASSUME NEW k \in 1 .. M + N, NEW l \in 1 .. M + N, k < l, u[k] = a, u[l] = b
      PROVE  \/ \E i, j \in 1 .. M : i < j /\ s[i] = a /\ s[j] = b
             \/ \E i, j \in 1 .. N : i < j /\ t[i] = a /\ t[j] = b
             \/ (\E i \in 1 .. M : s[i] = a) /\ (\E j \in 1 .. N : t[j] = b)
  <2>1. CASE k \in 1 .. M /\ l \in 1 .. M
    BY <1>1, <1>3, <2>1
  <2>2. CASE k \in 1 .. M /\ l \notin 1 .. M
    BY <1>1, <1>3, <2>2
  <2>3. CASE k \notin 1 .. M
    <3>1. l \notin 1 .. M
      BY <1>1, <1>3, <2>3
    <3>2. k - M \in 1 .. N /\ l - M \in 1 .. N /\ t[k - M] = a /\ t[l - M] = b
      BY <1>1, <1>3, <2>3, <3>1
    <3>3. k - M < l - M
      BY <1>1, <1>3
    <3> QED
      BY <3>2, <3>3
  <2> QED
    BY <2>1, <2>2, <2>3
<1>4. ASSUME NEW i \in 1 .. M, NEW j \in 1 .. M, i < j, s[i] = a, s[j] = b
      PROVE  HoldsInOrder(u, a, b)
  <2>1. i \in 1 .. M + N /\ j \in 1 .. M + N /\ u[i] = a /\ u[j] = b
    BY <1>1, <1>4
  <2> QED
    BY <1>1, <1>4, <2>1 DEF HoldsInOrder
<1>5. ASSUME NEW i \in 1 .. N, NEW j \in 1 .. N, i < j, t[i] = a, t[j] = b
      PROVE  HoldsInOrder(u, a, b)
  <2>1. M + i \in 1 .. M + N /\ M + j \in 1 .. M + N /\ u[M + i] = a /\ u[M + j] = b
    BY <1>1, <1>5
  <2>2. M + i < M + j
    BY <1>1, <1>5
  <2> QED
    BY <1>1, <2>1, <2>2 DEF HoldsInOrder
<1>6. ASSUME NEW i \in 1 .. M, NEW j \in 1 .. N, s[i] = a, t[j] = b
      PROVE  HoldsInOrder(u, a, b)
  <2>1. i \in 1 .. M + N /\ M + j \in 1 .. M + N /\ u[i] = a /\ u[M + j] = b
    BY <1>1, <1>6
  <2>2. i < M + j
    BY <1>1
  <2> QED
    BY <1>1, <2>1, <2>2 DEF HoldsInOrder
<1>7. HoldsInOrder(u, a, b) =>
        HoldsInOrder(s, a, b) \/ HoldsInOrder(t, a, b) \/ (Holds(s, a) /\ Holds(t, b))
  <2> SUFFICES ASSUME NEW k \in 1 .. M + N, NEW l \in 1 .. M + N, k < l, u[k] = a, u[l] = b
               PROVE  HoldsInOrder(s, a, b) \/ HoldsInOrder(t, a, b) \/ (Holds(s, a) /\ Holds(t, b))
    BY <1>1 DEF HoldsInOrder
  <2> QED
    BY <1>3 DEF Holds, HoldsInOrder, M, N
<1> QED
  BY <1>2, <1>4, <1>5, <1>6, <1>7 DEF Holds, HoldsInOrder, u, M, N

\* What is left when e is left out: everything else, in its order.
LEMMA WithoutHolds ==
  ASSUME NEW T, NEW s \in Seq(T), NEW e
  PROVE  /\ \A a : Holds(Without(s, e), a) <=> Holds(s, a) /\ a # e
         /\ \A a, b : HoldsInOrder(Without(s, e), a, b) <=> HoldsInOrder(s, a, b) /\ a # e /\ b # e
<1> DEFINE Kept(t) ==
             /\ \A a : Holds(Without(t, e), a) <=> Holds(t, a) /\ a # e
             /\ \A a, b : HoldsInOrder(Without(t, e), a, b) <=> HoldsInOrder(t, a, b) /\ a # e /\ b # e
           P == {t \in Seq(T) : Kept(t)}
<1>1. << >> \in P
  <2>1. << >> \in Seq(T) /\ Len(<< >>) = 0
    BY EmptySeq
  <2>2. Without(<< >>, e) = << >>
    BY WithoutEmpty
  <2>3. \A a, b : ~Holds(<< >>, a) /\ ~HoldsInOrder(<< >>, a, b)
    BY <2>1 DEF Holds, HoldsInOrder
  <2> QED
    BY <2>1, <2>2, <2>3
<1>2. ASSUME NEW t \in Seq(T), NEW x \in T, t \in P PROVE Append(t, x) \in P
  <2> DEFINE u == Append(t, x)
             v == Without(t, e)
             w == Without(u, e)
  <2>1. /\ u \in Seq(T) /\ v \in Seq(T)
        /\ x = e => w = v
        /\ x # e => w = Append(v, x)
    BY WithoutOfAppended
  <2>2. \A a, b : /\ Holds(u, a) <=> Holds(t, a) \/ a = x
                  /\ HoldsInOrder(u, a, b) <=> HoldsInOrder(t, a, b) \/ (Holds(t, a) /\ b = x)
    BY HoldsOfAppended
  <2>3. \A a, b : /\ Holds(Append(v, x), a) <=> Holds(v, a) \/ a = x
                  /\ HoldsInOrder(Append(v, x), a, b) <=> HoldsInOrder(v, a, b) \/ (Holds(v, a) /\ b = x)
    BY <2>1, HoldsOfAppended
  <2>4. /\ \A a : Holds(v, a) <=> Holds(t, a) /\ a # e
        /\ \A a, b : HoldsInOrder(v, a, b) <=> HoldsInOrder(t, a, b) /\ a # e /\ b # e
    BY <1>2
  <2> HIDE DEF u, v, w
  <2>5. CASE x = e
    <3>1. w = v
      BY <2>1, <2>5
    <3>2. \A a : Holds(w, a) <=> Holds(u, a) /\ a # e
      BY <2>2, <2>4, <2>5, <3>1
    <3>3. \A a, b : HoldsInOrder(w, a, b) <=> HoldsInOrder(u, a, b) /\ a # e /\ b # e
      BY <2>2, <2>4, <2>5, <3>1
    <3> QED
      BY <2>1, <3>2, <3>3 DEF u, w
  <2>6. CASE x # e
    <3>1. w = Append(v, x)
      BY <2>1, <2>6
    <3>2. \A a : Holds(w, a) <=> Holds(u, a) /\ a # e
      BY <2>2, <2>3, <2>4, <2>6, <3>1
    <3>3. \A a, b : HoldsInOrder(w, a, b) <=> HoldsInOrder(u, a, b) /\ a # e /\ b # e
      <4> TAKE a, b
      <4>1. HoldsInOrder(w, a, b) <=> HoldsInOrder(v, a, b) \/ (Holds(v, a) /\ b = x)
        BY <2>3, <3>1
      <4>2. HoldsInOrder(u, a, b) <=> HoldsInOrder(t, a, b) \/ (Holds(t, a) /\ b = x)
        BY <2>2
      <4> QED
        BY <2>4, <2>6, <4>1, <4>2
    <3> QED
      BY <2>1, <3>2, <3>3 DEF u, w
  <2> QED
    BY <2>5, <2>6
<1>3. \A t \in Seq(T) : t \in P
  <2> HIDE DEF P
  <2> QED
    BY <1>1, <1>2, SeqInduction
<1> QED
  BY <1>3

\* Nothing is left out of a sequence that does not have the element.
LEMMA WithoutNone ==
  ASSUME NEW T, NEW e, NEW s \in Seq(T \ {e})
  PROVE  Without(s, e) = s
<1> DEFINE U == T \ {e}
           P == {t \in Seq(U) : Without(t, e) = t}
<1>1. << >> \in P
  BY EmptySeq, WithoutEmpty
<1>2. ASSUME NEW t \in Seq(U), NEW x \in U, t \in P PROVE Append(t, x) \in P
  <2>1. Append(t, x) \in Seq(U) /\ Without(Append(t, x), e) = Append(Without(t, e), x)
    <3>1. x # e
      OBVIOUS
    <3> HIDE DEF U, P
    <3> QED
      BY <3>1, WithoutOfAppended
  <2> QED
    BY <1>2, <2>1
<1>3. \A t \in Seq(U) : t \in P
  <2> HIDE DEF P
  <2> QED
    BY <1>1, <1>2, SeqInduction
<1> QED
  BY <1>3

\* What is left does not have the element.
LEMMA WithoutRange ==
  ASSUME NEW T, NEW e, NEW s \in Seq(T)
  PROVE  Without(s, e) \in Seq(T \ {e})
<1> DEFINE P == {t \in Seq(T) : Without(t, e) \in Seq(T \ {e})}
<1>1. << >> \in P
  BY EmptySeq, WithoutEmpty
<1>2. ASSUME NEW t \in Seq(T), NEW x \in T, t \in P PROVE Append(t, x) \in P
  <2>1. /\ Append(t, x) \in Seq(T)
        /\ x = e => Without(Append(t, x), e) = Without(t, e)
        /\ x # e => Without(Append(t, x), e) = Append(Without(t, e), x)
    BY WithoutOfAppended
  <2>2. x # e => Append(Without(t, e), x) \in Seq(T \ {e})
    BY <1>2, AppendProperties
  <2> QED
    BY <1>2, <2>1, <2>2
<1>3. \A t \in Seq(T) : t \in P
  <2> HIDE DEF P
  <2> QED
    BY <1>1, <1>2, SeqInduction
<1> QED
  BY <1>3

\* Leaving out goes through the parts of a sequence.
LEMMA WithoutJoined ==
  ASSUME NEW T, NEW e, NEW s \in Seq(T), NEW t \in Seq(T)
  PROVE  Without(s \o t, e) = Without(s, e) \o Without(t, e)
<1> DEFINE P == {u \in Seq(T) : Without(s \o u, e) = Without(s, e) \o Without(u, e)}
<1>1. << >> \in P
  <2>1. Without(s, e) \in Seq(T) /\ Without(<< >>, e) = << >>
    BY WithoutIsSeq, WithoutEmpty
  <2>2. s \o << >> = s /\ Without(s, e) \o << >> = Without(s, e)
    BY <2>1, ConcatEmptySeq
  <2> QED
    BY <2>1, <2>2, EmptySeq
<1>2. ASSUME NEW u \in Seq(T), NEW x \in T, u \in P PROVE Append(u, x) \in P
  <2> DEFINE v == Without(s, e)
             w == Without(u, e)
  <2>1. /\ s \o u \in Seq(T) /\ Append(u, x) \in Seq(T)
        /\ v \in Seq(T) /\ w \in Seq(T)
    BY WithoutIsSeq, AppendProperties, ConcatProperties
  <2>2. \A p, q \in Seq(T) : p \o Append(q, x) = Append(p \o q, x)
    <3> TAKE p, q \in Seq(T)
    <3>1. << x >> \in Seq(T) /\ p \o q \in Seq(T)
      BY ConcatProperties
    <3>2. Append(q, x) = q \o << x >> /\ Append(p \o q, x) = (p \o q) \o << x >>
      BY <3>1, AppendIsConcat
    <3> QED
      BY <3>1, <3>2, ConcatAssociative
  <2>3. /\ x = e => Without(Append(s \o u, x), e) = Without(s \o u, e)
        /\ x # e => Without(Append(s \o u, x), e) = Append(Without(s \o u, e), x)
    <3>1. s \o u \in Seq(T)
      BY <2>1
    <3> DEFINE z == s \o u
    <3> HIDE DEF z, P
    <3>2. z \in Seq(T)
      BY <3>1 DEF z
    <3>3. /\ x = e => Without(Append(z, x), e) = Without(z, e)
          /\ x # e => Without(Append(z, x), e) = Append(Without(z, e), x)
      BY <3>2, WithoutOfAppended
    <3> QED
      BY <3>3 DEF z
  <2>4. /\ x = e => Without(Append(u, x), e) = w
        /\ x # e => Without(Append(u, x), e) = Append(w, x)
    BY WithoutOfAppended
  <2>5. Without(s \o u, e) = v \o w
    BY <1>2
  <2>6. s \o Append(u, x) = Append(s \o u, x) /\ v \o Append(w, x) = Append(v \o w, x)
    BY <2>1, <2>2
  <2> HIDE DEF v, w
  <2>7. Without(s \o Append(u, x), e) = v \o Without(Append(u, x), e)
    <3>1. CASE x = e
      BY <2>3, <2>4, <2>5, <2>6, <3>1
    <3>2. CASE x # e
      BY <2>3, <2>4, <2>5, <2>6, <3>2
    <3> QED
      BY <3>1, <3>2
  <2> QED
    BY <2>1, <2>7 DEF v
<1>3. \A u \in Seq(T) : u \in P
  <2> HIDE DEF P
  <2> QED
    BY <1>1, <1>2, SeqInduction
<1> QED
  BY <1>3

-----------------------------------------------------------------------------
(* The pieces of a text. *)

\* One piece or more, of tokens in T.
SomePieces(T) == {v \in Seq(Seq(T)) : Len(v) >= 1}

\* A token more leaves the pieces before the last, and lengthens the last one or
\* begins another.
LEMMA ContinuedPieces ==
  ASSUME NEW T, NEW v \in SomePieces(T), NEW e, e = Sep \/ e \in T
  PROVE  /\ Continued(v, e) \in SomePieces(T)
         /\ Len(v) \in Nat /\ Len(v) >= 1
         /\ e = Sep => /\ Len(Continued(v, e)) = Len(v) + 1
                       /\ \A p \in 1 .. Len(v) : Continued(v, e)[p] = v[p]
                       /\ Continued(v, e)[Len(v) + 1] = << >>
         /\ e # Sep => /\ Len(Continued(v, e)) = Len(v)
                       /\ \A p \in 1 .. Len(v) - 1 : Continued(v, e)[p] = v[p]
                       /\ Continued(v, e)[Len(v)] = Append(v[Len(v)], e)
<1> DEFINE N == Len(v)
           U == Seq(T)
<1>1. v \in Seq(U) /\ N \in Nat /\ N >= 1 /\ N \in 1 .. N
  BY LenProperties DEF SomePieces
<1>2. << >> \in U
  BY EmptySeq
<1>3. v[N] \in U
  BY <1>1, ElementOfSeq
<1>4. e # Sep => Append(v[N], e) \in U
  BY <1>3, AppendProperties
<1> HIDE DEF N, U
<1>5. CASE e = Sep
  <2>1. Continued(v, e) = Append(v, << >>)
    BY <1>5 DEF Continued
  <2>2. /\ Append(v, << >>) \in Seq(U) /\ Len(Append(v, << >>)) = N + 1
        /\ \A p \in 1 .. N : Append(v, << >>)[p] = v[p]
        /\ Append(v, << >>)[N + 1] = << >>
    BY <1>1, <1>2, AppendProperties DEF N
  <2> QED
    BY <1>1, <1>5, <2>1, <2>2 DEF N, U, SomePieces
<1>6. CASE e # Sep
  <2> DEFINE w == [v EXCEPT ![N] = Append(v[N], e)]
  <2>1. Continued(v, e) = w
    BY <1>6 DEF Continued, N
  <2>2. /\ w \in Seq(U) /\ Len(w) = N
        /\ \A p \in 1 .. N : w[p] = IF p = N THEN Append(v[N], e) ELSE v[p]
    BY <1>1, <1>4, <1>6, ExceptSeq DEF N
  <2> HIDE DEF w
  <2>3. w[N] = Append(v[N], e) /\ \A p \in 1 .. N - 1 : w[p] = v[p]
    BY <1>1, <2>2
  <2> QED
    BY <1>1, <1>6, <2>1, <2>2, <2>3 DEF N, U, SomePieces
<1> QED
  BY <1>5, <1>6

\* The function in the definition of Pieces, prefix by prefix.
CutUp(s, f) ==
  f = [n \in 0 .. Len(s) |->
         IF n = 0 THEN << << >> >> ELSE Continued(f[n - 1], s[n])]

\* Pieces is built prefix by prefix.
LEMMA PiecesUnfold ==
  ASSUME NEW T, NEW s \in Seq(T)
  PROVE  \E f \in [0 .. Len(s) -> SomePieces(T)] : CutUp(s, f) /\ Pieces(s) = f[Len(s)]
<1> DEFINE U == SomePieces(T)
           Step == [n \in 1 .. Len(s) |-> [v \in U |-> Continued(v, s[n])]]
           G == CHOOSE f : CutUp(s, f)
<1>1. Len(s) \in Nat /\ \A n \in 1 .. Len(s) : s[n] \in T
  BY LenProperties, ElementOfSeq
<1>2. << << >> >> \in U
  <2>1. << >> \in Seq(T)
    BY EmptySeq
  <2> QED
    BY <2>1 DEF SomePieces
<1> HIDE DEF U
<1>3. \A n \in 1 .. Len(s), v \in U : Step[n][v] = Continued(v, s[n]) /\ Step[n][v] \in U
  BY <1>1, ContinuedPieces DEF U
<1>4. PICK f \in [0 .. Len(s) -> U] :
         /\ f[0] = << << >> >>
         /\ \A n \in 1 .. Len(s) : f[n] = Step[n][f[n - 1]]
  <2> HIDE DEF Step
  <2>1. Steps(Len(s), U, Step)
    BY <1>3 DEF Steps
  <2>2. \E f : Built(f, Len(s), U, << << >> >>, Step)
    BY <1>1, <1>2, <2>1, StepByStep
  <2> QED
    BY <2>2 DEF Built
<1>5. \A n \in 1 .. Len(s) : n - 1 \in 0 .. Len(s) /\ n # 0
  BY <1>1
<1>6. CutUp(s, f)
  <2> HIDE DEF Step
  <2>1. \A n \in 1 .. Len(s) : f[n] = Continued(f[n - 1], s[n])
    BY <1>3, <1>4, <1>5
  <2> DEFINE h == [n \in 0 .. Len(s) |->
                     IF n = 0 THEN << << >> >> ELSE Continued(f[n - 1], s[n])]
  <2>2. ASSUME NEW n \in 0 .. Len(s) PROVE f[n] = h[n]
    <3>1. CASE n = 0
      BY <1>4, <3>1
    <3>2. CASE n \in 1 .. Len(s)
      <4>1. n # 0 /\ f[n] = Continued(f[n - 1], s[n])
        BY <1>5, <2>1, <3>2
      <4> QED
        BY <4>1, Zenon
    <3> QED
      BY <1>1, <3>1, <3>2
  <2>3. f = [n \in 0 .. Len(s) |-> f[n]] /\ h = [n \in 0 .. Len(s) |-> h[n]]
    OBVIOUS
  <2>4. f = h
    <3> HIDE DEF h
    <3> QED
      BY <2>2, <2>3
  <2> QED
    BY <2>4 DEF CutUp
<1>7. CutUp(s, G)
  BY <1>6
<1>8. Pieces(s) = G[Len(s)]
  BY DEF Pieces, CutUp
<1>9. ASSUME NEW g, CutUp(s, g) PROVE g = f
  <2> DEFINE S == {n \in Nat : n <= Len(s) => g[n] = f[n]}
  <2>1. /\ g[0] = << << >> >> /\ f[0] = << << >> >>
        /\ \A n \in 1 .. Len(s) : g[n] = Continued(g[n - 1], s[n])
        /\ \A n \in 1 .. Len(s) : f[n] = Continued(f[n - 1], s[n])
    <3>1. 0 \in 0 .. Len(s) /\ \A n \in 1 .. Len(s) : n \in 0 .. Len(s) /\ n # 0
      BY <1>1
    <3> QED
      BY <1>6, <1>9, <3>1, Zenon DEF CutUp
  <2>2. 0 \in S
    BY <2>1
  <2>3. ASSUME NEW n \in Nat, n \in S PROVE n + 1 \in S
    <3> SUFFICES ASSUME n + 1 <= Len(s) PROVE g[n + 1] = f[n + 1]
      OBVIOUS
    <3>1. n + 1 \in 1 .. Len(s) /\ (n + 1) - 1 = n /\ g[n] = f[n]
      BY <1>1, <2>3
    <3>2. g[n + 1] = Continued(g[(n + 1) - 1], s[n + 1]) /\ f[n + 1] = Continued(f[(n + 1) - 1], s[n + 1])
      BY <2>1, <3>1
    <3> QED
      BY <3>1, <3>2
  <2>4. \A n \in Nat : n \in S
    <3> HIDE DEF S
    <3> QED
      BY <2>2, <2>3, SetInduction
  <2>5. \A n \in 0 .. Len(s) : g[n] = f[n]
    BY <1>1, <2>4
  <2>6. DOMAIN g = 0 .. Len(s) /\ g = [n \in DOMAIN g |-> g[n]]
    BY <1>9 DEF CutUp
  <2>7. f = [n \in 0 .. Len(s) |-> f[n]]
    OBVIOUS
  <2> QED
    BY <2>5, <2>6, <2>7
<1> HIDE DEF G
<1> QED
  BY <1>6, <1>7, <1>8, <1>9 DEF U

\* The pieces of the empty text, and of a text that is longer by one token.
LEMMA PiecesStep ==
  ASSUME NEW T
  PROVE  /\ Pieces(<< >>) = << << >> >>
         /\ \A s \in Seq(T) : Pieces(s) \in SomePieces(T)
         /\ \A s \in Seq(T), x \in T : Pieces(Append(s, x)) = Continued(Pieces(s), x)
<1>1. Pieces(<< >>) = << << >> >>
  <2>1. << >> \in Seq(T) /\ Len(<< >>) = 0
    BY EmptySeq
  <2>2. PICK f \in [0 .. Len(<< >>) -> SomePieces(T)] :
           CutUp(<< >>, f) /\ Pieces(<< >>) = f[Len(<< >>)]
    BY <2>1, PiecesUnfold
  <2> QED
    BY <2>1, <2>2 DEF CutUp
<1>2. ASSUME NEW s \in Seq(T) PROVE Pieces(s) \in SomePieces(T)
  <2>1. PICK f \in [0 .. Len(s) -> SomePieces(T)] : Pieces(s) = f[Len(s)]
    BY PiecesUnfold
  <2>2. Len(s) \in 0 .. Len(s)
    BY LenProperties
  <2> QED
    BY <2>1, <2>2
<1>3. ASSUME NEW s \in Seq(T), NEW x \in T PROVE Pieces(Append(s, x)) = Continued(Pieces(s), x)
  <2> DEFINE a == Append(s, x)
             N == Len(s)
  <2>1. /\ a \in Seq(T) /\ N \in Nat /\ Len(a) = N + 1
        /\ \A i \in 1 .. N : a[i] = s[i]
        /\ a[N + 1] = x
    BY AppendProperties, LenProperties
  <2> HIDE DEF a
  <2>2. PICK f \in [0 .. N -> SomePieces(T)] : CutUp(s, f) /\ Pieces(s) = f[N]
    BY PiecesUnfold
  <2>3. PICK g \in [0 .. Len(a) -> SomePieces(T)] : CutUp(a, g) /\ Pieces(a) = g[Len(a)]
    BY <2>1, PiecesUnfold
  <2>4. \A n \in 0 .. N :
           f[n] = IF n = 0 THEN << << >> >> ELSE Continued(f[n - 1], s[n])
    BY <2>2 DEF CutUp
  <2>5. \A n \in 0 .. N + 1 :
           g[n] = IF n = 0 THEN << << >> >> ELSE Continued(g[n - 1], a[n])
    BY <2>1, <2>3 DEF CutUp
  <2> DEFINE S == {n \in Nat : n <= N => g[n] = f[n]}
  <2> HIDE DEF N
  <2>6. 0 \in S
    <3>1. 0 \in 0 .. N /\ 0 \in 0 .. N + 1
      BY <2>1
    <3>2. f[0] = << << >> >>
      BY <2>4, <3>1
    <3>3. g[0] = << << >> >>
      BY <2>5, <3>1
    <3> QED
      BY <3>2, <3>3
  <2>7. ASSUME NEW n \in Nat, n \in S PROVE n + 1 \in S
    <3> SUFFICES ASSUME n + 1 <= N PROVE g[n + 1] = f[n + 1]
      OBVIOUS
    <3>1. /\ n + 1 \in 0 .. N /\ n + 1 \in 0 .. N + 1 /\ n + 1 # 0 /\ (n + 1) - 1 = n
          /\ g[n] = f[n] /\ n + 1 \in 1 .. N
      BY <2>1, <2>7
    <3>2. a[n + 1] = s[n + 1]
      BY <2>1, <3>1
    <3> QED
      BY <2>4, <2>5, <3>1, <3>2
  <2>8. \A n \in Nat : n \in S
    <3> HIDE DEF S
    <3> QED
      BY <2>6, <2>7, SetInduction
  <2>9. g[N] = f[N] /\ N + 1 \in 0 .. N + 1 /\ N + 1 # 0 /\ (N + 1) - 1 = N
    BY <2>1, <2>8
  <2>10. g[N + 1] = Continued(f[N], x)
    BY <2>1, <2>5, <2>9
  <2> QED
    BY <2>1, <2>2, <2>3, <2>10 DEF a
<1> QED
  BY <1>1, <1>2, <1>3

\* w is the pieces v with the token e after them.
Continues(v, e, w) ==
  /\ e = Sep => /\ Len(w) = Len(v) + 1
                /\ \A p \in 1 .. Len(v) : w[p] = v[p]
                /\ w[Len(v) + 1] = << >>
  /\ e # Sep => /\ Len(w) = Len(v)
                /\ \A p \in 1 .. Len(v) - 1 : w[p] = v[p]
                /\ w[Len(v)] = Append(v[Len(v)], e)

\* What one more element does to the pieces.
LEMMA PiecesContinue ==
  ASSUME NEW T, NEW s \in Seq(T), NEW e \in T
  PROVE  /\ Len(Pieces(s)) \in Nat /\ Len(Pieces(s)) >= 1
         /\ Pieces(s)[Len(Pieces(s))] \in Seq(T)
         /\ Continues(Pieces(s), e, Pieces(Append(s, e)))
<1> DEFINE v == Pieces(s)
           w == Continued(v, e)
<1>1. v \in SomePieces(T) /\ Pieces(Append(s, e)) = w
  BY PiecesStep
<1>2. Len(v) \in Nat /\ Len(v) >= 1 /\ Continues(v, e, w)
  <2> HIDE DEF v
  <2> QED
    BY <1>1, ContinuedPieces DEF Continues
<1>3. v[Len(v)] \in Seq(T)
  <2> HIDE DEF v
  <2> QED
    BY <1>1, <1>2, ElementOfSeq DEF SomePieces
<1> QED
  BY <1>1, <1>2, <1>3

\* No separator is in a piece.
LEMMA PiecesClean ==
  ASSUME NEW T, NEW s \in Seq(T)
  PROVE  Pieces(s) \in SomePieces(T \ {Sep})
<1> DEFINE U == T \ {Sep}
           Good == {t \in Seq(T) : Pieces(t) \in SomePieces(U)}
<1>1. << >> \in Good
  <2>1. << >> \in Seq(U) /\ << >> \in Seq(T) /\ Pieces(<< >>) = << << >> >>
    BY EmptySeq, PiecesStep
  <2>2. << << >> >> \in SomePieces(U)
    <3> HIDE DEF U
    <3> QED
      BY <2>1 DEF SomePieces
  <2> QED
    BY <2>1, <2>2
<1>2. ASSUME NEW t \in Seq(T), NEW x \in T, t \in Good PROVE Append(t, x) \in Good
  <2>1. Append(t, x) \in Seq(T) /\ Pieces(Append(t, x)) = Continued(Pieces(t), x)
    BY AppendProperties, PiecesStep
  <2>2. Continued(Pieces(t), x) \in SomePieces(U)
    BY <1>2, ContinuedPieces
  <2> QED
    BY <2>1, <2>2
<1>3. \A t \in Seq(T) : t \in Good
  <2> HIDE DEF Good
  <2> QED
    BY <1>1, <1>2, SeqInduction
<1> QED
  BY <1>3

\* The pieces P hold the words of s, in their order.
InPieces(P, s) ==
  /\ \A p \in 1 .. Len(P) : PartOf(P[p], s)
  /\ \A p, q \in 1 .. Len(P) : \A a, b :
        p < q /\ Holds(P[p], a) /\ Holds(P[q], b) => HoldsInOrder(s, a, b)
  /\ \A a : Holds(s, a) /\ a # Sep => \E p \in 1 .. Len(P) : Holds(P[p], a)

\* The pieces hold the words of the text, in its order, and no more.
LEMMA PiecesHold ==
  ASSUME NEW T, NEW s \in Seq(T)
  PROVE  InPieces(Pieces(s), s)
<1> DEFINE Good == {t \in Seq(T) : InPieces(Pieces(t), t)}
<1>0. \A a, b : ~Holds(<< >>, a) /\ ~HoldsInOrder(<< >>, a, b)
  <2>1. Len(<< >>) = 0
    BY EmptySeq
  <2> QED
    BY <2>1 DEF Holds, HoldsInOrder
<1>1. << >> \in Good
  <2>1. << >> \in Seq(T) /\ Pieces(<< >>) = << << >> >>
    BY EmptySeq, PiecesStep
  <2> DEFINE P == << << >> >>
  <2>2. Len(P) = 1 /\ P[1] = << >>
    OBVIOUS
  <2> HIDE DEF P
  <2>3. InPieces(P, << >>)
    <3>1. \A p \in 1 .. Len(P) : P[p] = << >>
      BY <2>2
    <3> QED
      BY <1>0, <3>1 DEF InPieces, PartOf
  <2> QED
    BY <2>1, <2>3 DEF P
<1>2. ASSUME NEW t \in Seq(T), NEW x \in T, t \in Good PROVE Append(t, x) \in Good
  <2> DEFINE u == Append(t, x)
             P == Pieces(t)
             N == Len(P)
             Q == Continued(P, x)
  <2>1. u \in Seq(T) /\ Pieces(u) = Q /\ P \in SomePieces(T)
    BY AppendProperties, PiecesStep
  <2>2. /\ N \in Nat /\ N >= 1
        /\ x = Sep => /\ Len(Q) = N + 1
                      /\ \A p \in 1 .. N : Q[p] = P[p]
                      /\ Q[N + 1] = << >>
        /\ x # Sep => /\ Len(Q) = N
                      /\ \A p \in 1 .. N - 1 : Q[p] = P[p]
                      /\ Q[N] = Append(P[N], x)
    <3>1. N \in Nat /\ N >= 1 /\ Continues(P, x, Pieces(u))
      BY PiecesContinue
    <3> HIDE DEF P, Q, u
    <3> QED
      BY <2>1, <3>1 DEF Continues
  <2>3. \A a, b : /\ Holds(u, a) <=> Holds(t, a) \/ a = x
                  /\ HoldsInOrder(u, a, b) <=> HoldsInOrder(t, a, b) \/ (Holds(t, a) /\ b = x)
    BY HoldsOfAppended
  <2>4. /\ \A p \in 1 .. N : \A a : Holds(P[p], a) => Holds(t, a)
        /\ \A p \in 1 .. N : \A a, b : HoldsInOrder(P[p], a, b) => HoldsInOrder(t, a, b)
        /\ \A p, q \in 1 .. N : \A a, b :
              p < q /\ Holds(P[p], a) /\ Holds(P[q], b) => HoldsInOrder(t, a, b)
        /\ \A a : Holds(t, a) /\ a # Sep => \E p \in 1 .. N : Holds(P[p], a)
    BY <1>2 DEF InPieces, PartOf
  <2>5. P[N] \in Seq(T)
    BY <2>1, <2>2, ElementOfSeq DEF SomePieces
  <2>6. \A a, b : /\ Holds(Append(P[N], x), a) <=> Holds(P[N], a) \/ a = x
                  /\ HoldsInOrder(Append(P[N], x), a, b)
                        <=> HoldsInOrder(P[N], a, b) \/ (Holds(P[N], a) /\ b = x)
    BY <2>5, HoldsOfAppended
  <2> HIDE DEF u, P, N, Q
  <2>7. CASE x = Sep
    <3>1. \A p \in 1 .. Len(Q) : (p \in 1 .. N /\ Q[p] = P[p]) \/ Q[p] = << >>
      BY <2>2, <2>7
    <3>2. \A p \in 1 .. Len(Q) : PartOf(Q[p], u)
      BY <1>0, <2>3, <2>4, <3>1 DEF PartOf
    <3>3. \A p, q \in 1 .. Len(Q) : \A a, b :
             p < q /\ Holds(Q[p], a) /\ Holds(Q[q], b) => HoldsInOrder(u, a, b)
      BY <1>0, <2>3, <2>4, <3>1
    <3>4. ASSUME NEW a, Holds(u, a), a # Sep PROVE \E p \in 1 .. Len(Q) : Holds(Q[p], a)
      <4>1. PICK p \in 1 .. N : Holds(P[p], a)
        BY <2>3, <2>4, <2>7, <3>4
      <4>2. p \in 1 .. Len(Q) /\ Q[p] = P[p]
        BY <2>2, <2>7
      <4> QED
        BY <4>1, <4>2
    <3>5. InPieces(Q, u)
      BY <3>2, <3>3, <3>4 DEF InPieces
    <3> QED
      BY <2>1, <3>5 DEF u
  <2>8. CASE x # Sep
    <3>1. /\ Len(Q) = N
          /\ \A p \in 1 .. N : p \in 1 .. N - 1 \/ p = N
          /\ \A p \in 1 .. N - 1 : p \in 1 .. N /\ p # N /\ p < N /\ Q[p] = P[p]
          /\ N \in 1 .. N /\ Q[N] = Append(P[N], x)
      BY <2>2, <2>8
    <3>2. \A a, b : /\ Holds(Q[N], a) <=> Holds(P[N], a) \/ a = x
                    /\ HoldsInOrder(Q[N], a, b)
                          <=> HoldsInOrder(P[N], a, b) \/ (Holds(P[N], a) /\ b = x)
      BY <2>6, <3>1
    <3>3. ASSUME NEW p \in 1 .. N PROVE PartOf(Q[p], u)
      <4>1. CASE p \in 1 .. N - 1
        <5>1. Q[p] = P[p]
          BY <3>1, <4>1
        <5> QED
          BY <2>3, <2>4, <5>1 DEF PartOf
      <4>2. CASE p = N
        <5>1. \A a : Holds(Q[N], a) => Holds(u, a)
          BY <2>3, <2>4, <3>1, <3>2
        <5>2. \A a, b : HoldsInOrder(Q[N], a, b) => HoldsInOrder(u, a, b)
          <6> TAKE a, b
          <6>1. HoldsInOrder(P[N], a, b) => HoldsInOrder(t, a, b)
            BY <2>4, <3>1
          <6>2. Holds(P[N], a) => Holds(t, a)
            BY <2>4, <3>1
          <6> QED
            BY <2>3, <3>2, <6>1, <6>2
        <5> QED
          BY <4>2, <5>1, <5>2 DEF PartOf
      <4> QED
        BY <3>1, <4>1, <4>2
    <3>4. ASSUME NEW p \in 1 .. N, NEW q \in 1 .. N, NEW a, NEW b,
                 p < q, Holds(Q[p], a), Holds(Q[q], b)
          PROVE  HoldsInOrder(u, a, b)
      <4>1. p \in 1 .. N - 1 /\ Holds(P[p], a) /\ Holds(t, a)
        BY <2>2, <2>4, <3>1, <3>4
      <4>2. Holds(P[q], b) \/ b = x
        BY <3>1, <3>2, <3>4
      <4>3. CASE Holds(P[q], b)
        <5>1. HoldsInOrder(t, a, b)
          BY <2>4, <3>4, <4>1, <4>3
        <5> QED
          BY <2>3, <5>1
      <4>4. CASE b = x
        BY <2>3, <4>1, <4>4
      <4> QED
        BY <4>2, <4>3, <4>4
    <3>5. ASSUME NEW a, Holds(u, a), a # Sep PROVE \E p \in 1 .. N : Holds(Q[p], a)
      <4>1. CASE a = x
        BY <3>1, <3>2, <4>1
      <4>2. CASE a # x
        <5>1. PICK p \in 1 .. N : Holds(P[p], a)
          BY <2>3, <2>4, <3>5, <4>2
        <5>2. Holds(Q[p], a)
          BY <3>1, <3>2, <5>1
        <5> QED
          BY <5>2
      <4> QED
        BY <4>1, <4>2
    <3>6. InPieces(Q, u)
      BY <3>1, <3>3, <3>4, <3>5 DEF InPieces
    <3> QED
      BY <2>1, <3>6 DEF u
  <2> QED
    BY <2>7, <2>8
<1>3. \A t \in Seq(T) : t \in Good
  <2> HIDE DEF Good
  <2> QED
    BY <1>1, <1>2, SeqInduction
<1> QED
  BY <1>3

\* A sequence that holds nothing is empty, and what is left of one when e is left out
\* is empty when it holds nothing else.
LEMMA HoldsNothing ==
  ASSUME NEW T, NEW s \in Seq(T)
  PROVE  s = << >> <=> \A a : ~Holds(s, a)
<1>1. Len(s) \in Nat /\ (s = << >> <=> Len(s) = 0)
  BY LenProperties, EmptySeq
<1>2. ASSUME Len(s) # 0 PROVE Holds(s, s[1])
  <2>1. 1 \in 1 .. Len(s)
    BY <1>1, <1>2
  <2> QED
    BY <2>1 DEF Holds
<1>3. Len(s) = 0 => \A a : ~Holds(s, a)
  BY DEF Holds
<1> QED
  BY <1>1, <1>2, <1>3

-----------------------------------------------------------------------------
(* Texts without separators, and without blanks. *)

\* Without separators nothing is left of a text that has nothing else.
LEMMA GluedEmpty ==
  ASSUME NEW T, NEW s \in Seq(T)
  PROVE  /\ Glued(s) \in Seq(T)
         /\ Glued(s) = << >> <=> \A a : Holds(s, a) => a = Sep
<1>1. Glued(s) \in Seq(T)
  BY WithoutIsSeq DEF Glued
<1>2. \A a : Holds(Glued(s), a) <=> Holds(s, a) /\ a # Sep
  BY WithoutHolds DEF Glued
<1>3. Glued(s) = << >> <=> \A a : ~Holds(Glued(s), a)
  BY <1>1, HoldsNothing
<1> QED
  BY <1>1, <1>2, <1>3

\* The pieces of words, in their order.
Core(s) == Without(Glued(s), Blank)

\* What the core of a text holds.
LEMMA CoreIs ==
  ASSUME NEW T, NEW s \in Seq(T)
  PROVE  /\ Core(s) \in Seq(T)
         /\ \A a : Holds(Core(s), a) <=> Holds(s, a) /\ a # Sep /\ a # Blank
         /\ \A a, b : HoldsInOrder(Core(s), a, b) <=>
              HoldsInOrder(s, a, b) /\ a # Sep /\ b # Sep /\ a # Blank /\ b # Blank
<1>1. /\ Glued(s) \in Seq(T)
      /\ \A a : Holds(Glued(s), a) <=> Holds(s, a) /\ a # Sep
      /\ \A a, b : HoldsInOrder(Glued(s), a, b) <=> HoldsInOrder(s, a, b) /\ a # Sep /\ b # Sep
  BY WithoutIsSeq, WithoutHolds DEF Glued
<1> DEFINE g == Glued(s)
<1> HIDE DEF g
<1>2. g \in Seq(T)
  BY <1>1 DEF g
<1>3. /\ Without(g, Blank) \in Seq(T)
      /\ \A a : Holds(Without(g, Blank), a) <=> Holds(g, a) /\ a # Blank
      /\ \A a, b : HoldsInOrder(Without(g, Blank), a, b) <=>
           HoldsInOrder(g, a, b) /\ a # Blank /\ b # Blank
  BY <1>2, WithoutIsSeq, WithoutHolds
<1>4. Core(s) = Without(g, Blank)
  BY DEF Core, g
<1> QED
  BY <1>1, <1>3, <1>4 DEF g

\* The core of two texts joined.
LEMMA CoreJoined ==
  ASSUME NEW T, NEW s \in Seq(T), NEW t \in Seq(T)
  PROVE  Core(s \o t) = Core(s) \o Core(t)
<1>1. Glued(s) \in Seq(T) /\ Glued(t) \in Seq(T)
  BY WithoutIsSeq DEF Glued
<1>2. Glued(s \o t) = Glued(s) \o Glued(t)
  BY WithoutJoined DEF Glued
<1> DEFINE g == Glued(s)
           h == Glued(t)
<1>3. \A x, y \in Seq(T) : Without(x \o y, Blank) = Without(x, Blank) \o Without(y, Blank)
  BY WithoutJoined
<1> QED
  BY <1>1, <1>2, <1>3 DEF Core

\* The core of a part is a part of the core.
LEMMA CoreOfPart ==
  ASSUME NEW T, NEW s \in Seq(T), NEW t \in Seq(T), PartOf(s, t)
  PROVE  PartOf(Core(s), Core(t))
BY CoreIs DEF PartOf

\* Blanks and separators have no core.
LEMMA CoreOfGaps ==
  ASSUME NEW s \in Seq({Sep, Blank})
  PROVE  Core(s) = << >>
<1>1. Core(s) \in Seq({Sep, Blank})
  BY CoreIs
<1>2. ASSUME NEW a, Holds(s, a) PROVE a \in {Sep, Blank}
  <2>1. PICK k \in 1 .. Len(s) : s[k] = a
    BY <1>2 DEF Holds
  <2> QED
    BY <2>1, ElementOfSeq
<1>3. \A a : ~Holds(Core(s), a)
  BY <1>2, CoreIs
<1> QED
  BY <1>1, <1>3, HoldsNothing

-----------------------------------------------------------------------------
(* Where a text is cut. *)

\* The least of a set of numbers.
LEMMA FirstOfIs ==
  ASSUME NEW I \in SUBSET Nat, I # {}
  PROVE  FirstOf(I) \in I /\ \A j \in I : FirstOf(I) <= j
<1> DEFINE R == OpToRel(<, Nat)
<1>1. IsWellFoundedOn(R, Nat)
  BY NatLessThanWellFounded
<1>2. \A a, b \in Nat : a < b => <<a, b>> \in R
  BY DEF OpToRel
<1> HIDE DEF R
<1>3. PICK x \in I : \A y \in I : <<y, x>> \notin R
  BY <1>1, WFMin
<1>4. \A j \in I : x <= j
  <2> TAKE j \in I
  <2>1. x \in Nat /\ j \in Nat
    OBVIOUS
  <2>2. j < x => <<j, x>> \in R
    BY <1>2, <2>1
  <2> QED
    BY <1>3, <2>1, <2>2
<1> QED
  BY <1>4 DEF FirstOf

\* The greatest of a set of numbers that has a bound.
LEMMA LastOfIs ==
  ASSUME NEW n \in Nat, NEW I \in SUBSET (1 .. n), I # {}
  PROVE  LastOf(I) \in I /\ \A j \in I : j <= LastOf(I)
<1> DEFINE J == {n - i : i \in I}
<1>0. \A i \in I : i \in Nat /\ n - i \in Nat
  OBVIOUS
<1>1. J \in SUBSET Nat /\ J # {}
  <2>1. \A j \in J : j \in Nat
    BY <1>0
  <2>2. PICK i \in I : TRUE
    OBVIOUS
  <2>3. n - i \in J
    OBVIOUS
  <2> QED
    BY <2>1, <2>3
<1>2. \A j \in I : n - j \in J
  OBVIOUS
<1>3. PICK x \in J : \A j \in J : x <= j
  <2> HIDE DEF J
  <2> QED
    BY <1>1, FirstOfIs
<1>4. PICK i \in I : x = n - i
  OBVIOUS
<1>5. \A j \in I : j <= i
  BY <1>2, <1>3, <1>4
<1> QED
  BY <1>5 DEF LastOf

\* A stretch of a text, all of whose tokens are in U.
LEMMA Stretch ==
  ASSUME NEW T, NEW s \in Seq(T), NEW i \in Nat, NEW j \in Nat, i >= 1, j <= Len(s), i <= j + 1,
         NEW U, \A k \in i .. j : s[k] \in U
  PROVE  /\ SubSeq(s, i, j) \in Seq(U)
         /\ Len(SubSeq(s, i, j)) = j + 1 - i
         /\ \A k \in 1 .. j + 1 - i : SubSeq(s, i, j)[k] = s[i + k - 1]
<1>1. i \in Int /\ j \in Int
  OBVIOUS
<1>2. /\ SubSeq(s, i, j) \in Seq(U)
      /\ Len(SubSeq(s, i, j)) = (IF i <= j THEN j - i + 1 ELSE 0)
      /\ \A k \in 1 .. j - i + 1 : SubSeq(s, i, j)[k] = s[i + k - 1]
  BY <1>1, SubSeqProperties
<1>3. j - i + 1 = j + 1 - i
  OBVIOUS
<1>4. Len(SubSeq(s, i, j)) = j + 1 - i
  BY <1>2
<1> QED
  BY <1>2, <1>3, <1>4

-----------------------------------------------------------------------------
(* Stripping a text. *)

\* x is s without the blanks at its ends.
Trimmed(s, x, T) ==
  /\ x \in Seq(T)
  /\ \E u, v \in Seq({Blank}) : s = (u \o x) \o v
  /\ x # << >> => x[1] # Blank /\ x[Len(x)] # Blank

\* A text without anything but blanks.
LEMMA NothingSolid ==
  ASSUME NEW T, NEW s \in Seq(T)
  PROVE  Solid(s) = {} <=> s \in Seq({Blank})
<1>1. DOMAIN s = 1 .. Len(s)
  BY LenProperties
<1>2. ASSUME Solid(s) = {} PROVE s \in Seq({Blank})
  <2>1. \A i \in 1 .. Len(s) : s[i] \in {Blank}
    BY <1>1, <1>2 DEF Solid
  <2>2. \A i \in 1 .. Len(s) : s[i] \in T
    BY ElementOfSeq
  <2>3. Len(s) \in Nat /\ s = [i \in 1 .. Len(s) |-> s[i]]
    BY LenProperties
  <2>4. s \in [1 .. Len(s) -> {Blank}]
    BY <2>1, <2>3
  <2> QED
    BY <2>3, <2>4, SeqDef
<1>3. ASSUME s \in Seq({Blank}) PROVE Solid(s) = {}
  <2>1. \A i \in 1 .. Len(s) : s[i] \in {Blank}
    BY <1>3, ElementOfSeq
  <2> QED
    BY <1>1, <2>1 DEF Solid
<1> QED
  BY <1>2, <1>3

\* The places of what is not blank.
LEMMA SolidIs ==
  ASSUME NEW T, NEW s \in Seq(T), Solid(s) # {}
  PROVE  LET f == FirstOf(Solid(s))
             l == LastOf(Solid(s))
         IN  /\ f \in 1 .. Len(s) /\ l \in 1 .. Len(s) /\ f <= l
             /\ s[f] # Blank /\ s[l] # Blank
             /\ \A i \in 1 .. Len(s) : i < f \/ i > l => s[i] = Blank
<1>1. DOMAIN s = 1 .. Len(s) /\ Len(s) \in Nat
  BY LenProperties
<1> DEFINE I == Solid(s)
           f == FirstOf(I)
           l == LastOf(I)
<1>2. \A i \in I : i \in 1 .. Len(s) /\ s[i] # Blank
  BY <1>1 DEF Solid
<1>3. \A i \in 1 .. Len(s) : i \notin I => s[i] = Blank
  BY <1>1 DEF Solid
<1> HIDE DEF I
<1>4. f \in I /\ \A j \in I : f <= j
  BY <1>1, <1>2, FirstOfIs DEF I
<1>5. l \in I /\ \A j \in I : j <= l
  BY <1>1, <1>2, LastOfIs DEF I
<1> HIDE DEF f, l
<1>6. f \in 1 .. Len(s) /\ l \in 1 .. Len(s) /\ f <= l /\ s[f] # Blank /\ s[l] # Blank
  BY <1>2, <1>4, <1>5
<1>7. ASSUME NEW i \in 1 .. Len(s), i < f \/ i > l PROVE s[i] = Blank
  <2>1. i \notin I
    BY <1>1, <1>4, <1>5, <1>6, <1>7
  <2> QED
    BY <1>3, <2>1
<1> QED
  BY <1>6, <1>7 DEF f, l, I

\* strip() takes the blanks off both ends, and nothing else.
LEMMA StripIs ==
  ASSUME NEW T, NEW s \in Seq(T)
  PROVE  Trimmed(s, Strip(s), T)
<1>0. << >> \in Seq(T) /\ << >> \in Seq({Blank})
  BY EmptySeq
<1>1. CASE Solid(s) = {}
  <2>1. Strip(s) = << >> /\ s \in Seq({Blank})
    BY <1>1, NothingSolid DEF Strip
  <2>2. s = (s \o << >>) \o << >>
    BY <2>1, ConcatEmptySeq
  <2> QED
    BY <1>0, <2>1, <2>2 DEF Trimmed
<1>2. CASE Solid(s) # {}
  <2> DEFINE f == FirstOf(Solid(s))
             l == LastOf(Solid(s))
             L == Len(s)
             u == SubSeq(s, 1, f - 1)
             x == SubSeq(s, f, l)
             v == SubSeq(s, l + 1, L)
  <2>1. /\ f \in 1 .. L /\ l \in 1 .. L /\ f <= l /\ s[f] # Blank /\ s[l] # Blank
        /\ \A i \in 1 .. L : i < f \/ i > l => s[i] = Blank
    BY <1>2, SolidIs
  <2>2. Strip(s) = x
    BY <1>2 DEF Strip
  <2> HIDE DEF f, l
  <2>3. L \in Nat /\ \A i \in 1 .. L : s[i] \in T
    BY LenProperties, ElementOfSeq
  <2>4. u \in Seq({Blank})
    <3>1. 1 \in Nat /\ f - 1 \in Nat /\ f - 1 <= L /\ 1 <= (f - 1) + 1
      BY <2>1, <2>3
    <3>2. \A k \in 1 .. f - 1 : s[k] \in {Blank}
      BY <2>1, <2>3
    <3> QED
      BY <3>1, <3>2, Stretch
  <2>5. v \in Seq({Blank})
    <3>1. l + 1 \in Nat /\ L \in Nat /\ l + 1 >= 1 /\ L <= L /\ l + 1 <= L + 1
      BY <2>1, <2>3
    <3>2. \A k \in l + 1 .. L : s[k] \in {Blank}
      BY <2>1, <2>3
    <3> QED
      BY <3>1, <3>2, Stretch
  <2>6. /\ x \in Seq(T) /\ Len(x) = l + 1 - f
        /\ \A k \in 1 .. l + 1 - f : x[k] = s[f + k - 1]
    <3>1. f \in Nat /\ l \in Nat /\ f >= 1 /\ l <= L /\ f <= l + 1
      BY <2>1, <2>3
    <3>2. \A k \in f .. l : s[k] \in T
      BY <2>1, <2>3
    <3> QED
      BY <3>1, <3>2, Stretch
  <2>7. x[1] # Blank /\ x[Len(x)] # Blank
    <3> HIDE DEF x
    <3>1. 1 \in 1 .. l + 1 - f /\ l + 1 - f \in 1 .. l + 1 - f
          /\ f + 1 - 1 = f /\ f + (l + 1 - f) - 1 = l
      BY <2>1, <2>3
    <3> QED
      BY <2>1, <2>6, <3>1
  <2>8. s = (u \o x) \o v
    <3>1. 1 \in 1 .. L + 1 /\ f - 1 \in 1 - 1 .. L /\ l \in f - 1 .. L /\ (f - 1) + 1 = f
      BY <2>1, <2>3
    <3>2. SubSeq(s, 1, f - 1) \o SubSeq(s, (f - 1) + 1, l) = SubSeq(s, 1, l)
      BY <3>1, ConcatAdjacentSubSeq DEF L
    <3>3. 1 \in 1 .. L + 1 /\ l \in 1 - 1 .. L /\ L \in l .. L
      BY <2>1, <2>3
    <3>4. SubSeq(s, 1, l) \o SubSeq(s, l + 1, L) = SubSeq(s, 1, L)
      BY <3>3, ConcatAdjacentSubSeq DEF L
    <3>5. SubSeq(s, 1, L) = s
      BY SubSeqFull DEF L
    <3> QED
      BY <3>1, <3>2, <3>4, <3>5
  <2> QED
    <3> HIDE DEF u, x, v
    <3> QED
      BY <2>2, <2>4, <2>5, <2>6, <2>7, <2>8 DEF Trimmed
<1> QED
  BY <1>1, <1>2

\* lstrip, the same at the left end.
LEMMA LStripIs ==
  ASSUME NEW T, NEW s \in Seq(T)
  PROVE  /\ LStrip(s) \in Seq(T)
         /\ \E u \in Seq({Blank}) : s = u \o LStrip(s)
         /\ LStrip(s) # << >> => LStrip(s)[1] # Blank
<1>0. << >> \in Seq(T)
  BY EmptySeq
<1>1. CASE Solid(s) = {}
  <2>1. LStrip(s) = << >> /\ s \in Seq({Blank})
    BY <1>1, NothingSolid DEF LStrip
  <2>2. s = s \o << >>
    BY <2>1, ConcatEmptySeq
  <2> QED
    BY <1>0, <2>1, <2>2
<1>2. CASE Solid(s) # {}
  <2> DEFINE f == FirstOf(Solid(s))
             L == Len(s)
             u == SubSeq(s, 1, f - 1)
             x == SubSeq(s, f, L)
  <2>1. /\ f \in 1 .. L /\ s[f] # Blank
        /\ \A i \in 1 .. L : i < f => s[i] = Blank
    BY <1>2, SolidIs
  <2>2. LStrip(s) = x
    BY <1>2 DEF LStrip
  <2> HIDE DEF f
  <2>3. L \in Nat /\ \A i \in 1 .. L : s[i] \in T
    BY LenProperties, ElementOfSeq
  <2>4. u \in Seq({Blank})
    <3>1. 1 \in Nat /\ f - 1 \in Nat /\ f - 1 <= L /\ 1 <= (f - 1) + 1
      BY <2>1, <2>3
    <3>2. \A k \in 1 .. f - 1 : s[k] \in {Blank}
      BY <2>1, <2>3
    <3> QED
      BY <3>1, <3>2, Stretch
  <2>5. /\ x \in Seq(T) /\ \A k \in 1 .. L + 1 - f : x[k] = s[f + k - 1]
    <3>1. f \in Nat /\ L \in Nat /\ f >= 1 /\ L <= L /\ f <= L + 1
      BY <2>1, <2>3
    <3>2. \A k \in f .. L : s[k] \in T
      BY <2>1, <2>3
    <3> QED
      BY <3>1, <3>2, Stretch
  <2>6. x[1] # Blank
    <3> HIDE DEF x
    <3>1. 1 \in 1 .. L + 1 - f /\ f + 1 - 1 = f
      BY <2>1, <2>3
    <3> QED
      BY <2>1, <2>5, <3>1
  <2>7. s = u \o x
    <3>1. 1 \in 1 .. L + 1 /\ f - 1 \in 1 - 1 .. L /\ L \in f - 1 .. L /\ (f - 1) + 1 = f
      BY <2>1, <2>3
    <3>2. SubSeq(s, 1, f - 1) \o SubSeq(s, (f - 1) + 1, L) = SubSeq(s, 1, L)
      BY <3>1, ConcatAdjacentSubSeq DEF L
    <3>3. SubSeq(s, 1, L) = s
      BY SubSeqFull DEF L
    <3> QED
      BY <3>1, <3>2, <3>3
  <2> QED
    <3> HIDE DEF u, x
    <3> QED
      BY <2>2, <2>4, <2>5, <2>6, <2>7
<1> QED
  BY <1>1, <1>2

\* What is between blanks.
LEMMA BetweenBlanks ==
  ASSUME NEW T, Blank \in T, NEW x \in Seq(T), NEW u \in Seq({Blank}), NEW v \in Seq({Blank})
  PROVE  LET s == (u \o x) \o v
         IN  /\ PartOf(x, s)
             /\ \A a : Holds(s, a) /\ a # Blank => Holds(x, a)
             /\ Core(s) = Core(x)
<1>0. {Blank} \subseteq T
  OBVIOUS
<1>1. u \in Seq(T) /\ v \in Seq(T)
  BY <1>0, SeqMonotonic
<1>2. u \o x \in Seq(T)
  BY <1>1, ConcatProperties
<1>3. ASSUME NEW w \in Seq({Blank}), NEW a, Holds(w, a) PROVE a = Blank
  <2>1. PICK k \in 1 .. Len(w) : w[k] = a
    BY <1>3 DEF Holds
  <2> QED
    BY <2>1, ElementOfSeq
<1> DEFINE y == u \o x
           s == y \o v
<1>4. \A a, b : /\ Holds(y, a) <=> Holds(u, a) \/ Holds(x, a)
                /\ HoldsInOrder(y, a, b) <=>
                     HoldsInOrder(u, a, b) \/ HoldsInOrder(x, a, b) \/ (Holds(u, a) /\ Holds(x, b))
  BY <1>1, HoldsOfJoined
<1>5. Core(y) = Core(u) \o Core(x)
  BY <1>1, CoreJoined
<1> HIDE DEF y
<1>6. \A a, b : /\ Holds(s, a) <=> Holds(y, a) \/ Holds(v, a)
                /\ HoldsInOrder(s, a, b) <=>
                     HoldsInOrder(y, a, b) \/ HoldsInOrder(v, a, b) \/ (Holds(y, a) /\ Holds(v, b))
  BY <1>1, <1>2, HoldsOfJoined DEF y
<1>7. Core(s) = Core(y) \o Core(v)
  BY <1>1, <1>2, CoreJoined DEF y
<1> HIDE DEF s
<1>8. PartOf(x, s)
  BY <1>4, <1>6 DEF PartOf
<1>9. \A a : Holds(s, a) /\ a # Blank => Holds(x, a)
  BY <1>3, <1>4, <1>6
<1>10. Core(s) = Core(x)
  <2>1. u \in Seq({Sep, Blank}) /\ v \in Seq({Sep, Blank})
    <3>1. {Blank} \subseteq {Sep, Blank}
      OBVIOUS
    <3> QED
      BY <3>1, SeqMonotonic
  <2>2. Core(u) = << >> /\ Core(v) = << >>
    BY <2>1, CoreOfGaps
  <2>3. Core(x) \in Seq(T)
    BY CoreIs
  <2>4. << >> \o Core(x) = Core(x) /\ Core(x) \o << >> = Core(x)
    BY <2>3, ConcatEmptySeq
  <2> QED
    BY <1>5, <1>7, <2>2, <2>4
<1> QED
  BY <1>8, <1>9, <1>10 DEF s, y

\* What a stripped text holds, and its core.
LEMMA StripHolds ==
  ASSUME NEW T, NEW s \in Seq(T)
  PROVE  /\ Strip(s) \in Seq(T)
         /\ PartOf(Strip(s), s)
         /\ \A a : Holds(s, a) /\ a # Blank => Holds(Strip(s), a)
         /\ Core(Strip(s)) = Core(s)
<1> DEFINE x == Strip(s)
           U == T \cup {Blank}
<1>1. Trimmed(s, x, T)
  BY StripIs
<1> HIDE DEF x
<1>2. PICK u, v \in Seq({Blank}) : s = (u \o x) \o v
  BY <1>1 DEF Trimmed
<1>3. x \in Seq(T)
  BY <1>1 DEF Trimmed
<1>4. x \in Seq(U) /\ Blank \in U
  <2>1. T \subseteq U
    OBVIOUS
  <2> QED
    BY <1>3, <2>1, SeqMonotonic
<1> HIDE DEF U
<1>5. /\ PartOf(x, (u \o x) \o v)
      /\ \A a : Holds((u \o x) \o v, a) /\ a # Blank => Holds(x, a)
      /\ Core((u \o x) \o v) = Core(x)
  BY <1>4, BetweenBlanks
<1> QED
  BY <1>2, <1>3, <1>5 DEF x

\* A text that is stripped to nothing has nothing but blanks.
LEMMA StripEmpty ==
  ASSUME NEW T, NEW s \in Seq(T)
  PROVE  Strip(s) = << >> <=> \A a : Holds(s, a) => a = Blank
<1> DEFINE x == Strip(s)
<1>1. /\ x \in Seq(T) /\ PartOf(x, s)
      /\ \A a : Holds(s, a) /\ a # Blank => Holds(x, a)
  BY StripHolds
<1>2. Trimmed(s, x, T)
  BY StripIs
<1> HIDE DEF x
<1>3. x = << >> <=> \A a : ~Holds(x, a)
  BY <1>1, HoldsNothing
<1>4. x # << >> => Holds(x, x[1]) /\ x[1] # Blank
  <2> SUFFICES ASSUME x # << >> PROVE Holds(x, x[1])
    BY <1>2 DEF Trimmed
  <2>1. Len(x) \in Nat /\ Len(x) # 0
    BY <1>1, LenProperties, EmptySeq
  <2>2. 1 \in 1 .. Len(x)
    BY <2>1
  <2> QED
    BY <2>2 DEF Holds
<1>5. x # << >> => Holds(s, x[1]) /\ x[1] # Blank
  BY <1>1, <1>4 DEF PartOf
<1> QED
  BY <1>1, <1>3, <1>5 DEF x

\* A text of one piece or of two is its pieces with the separator between them, and it
\* has one separator less than pieces.
LEMMA PiecesCount ==
  ASSUME NEW T, NEW s \in Seq(T)
  PROVE  LET P == Pieces(s)
         IN  /\ Len(s) + 1 = Len(Glued(s)) + Len(P)
             /\ Len(P) = 1 => Glued(s) = P[1] /\ s = P[1]
             /\ Len(P) = 2 => Glued(s) = P[1] \o P[2]
<1> DEFINE Counted(t, P, w) ==
             /\ Len(t) + 1 = Len(w) + Len(P)
             /\ Len(P) = 1 => w = P[1] /\ t = P[1]
             /\ Len(P) = 2 => w = P[1] \o P[2]
           Good == {t \in Seq(T) : Counted(t, Pieces(t), Glued(t))}
<1>1. << >> \in Good
  <2>1. << >> \in Seq(T) /\ Len(<< >>) = 0 /\ Glued(<< >>) = << >>
    BY EmptySeq, WithoutEmpty DEF Glued
  <2>2. Pieces(<< >>) = << << >> >>
    BY PiecesStep
  <2> DEFINE P == << << >> >>
  <2>3. Len(P) = 1 /\ P[1] = << >>
    OBVIOUS
  <2> HIDE DEF P
  <2>4. Counted(<< >>, P, << >>)
    BY <2>1, <2>3
  <2> QED
    BY <2>1, <2>2, <2>4 DEF P
<1>2. ASSUME NEW t \in Seq(T), NEW x \in T, t \in Good PROVE Append(t, x) \in Good
  <2> DEFINE u == Append(t, x)
             P == Pieces(t)
             N == Len(P)
             Q == Continued(P, x)
             w == Glued(t)
             v == Glued(u)
  <2>1. u \in Seq(T) /\ Pieces(u) = Q /\ P \in SomePieces(T) /\ Len(u) = Len(t) + 1 /\ Len(t) \in Nat
    BY AppendProperties, PiecesStep, LenProperties
  <2>2. /\ N \in Nat /\ N >= 1
        /\ x = Sep => /\ Len(Q) = N + 1
                      /\ \A p \in 1 .. N : Q[p] = P[p]
                      /\ Q[N + 1] = << >>
        /\ x # Sep => /\ Len(Q) = N
                      /\ \A p \in 1 .. N - 1 : Q[p] = P[p]
                      /\ Q[N] = Append(P[N], x)
    <3>1. N \in Nat /\ N >= 1 /\ Continues(P, x, Pieces(u))
      BY PiecesContinue
    <3> HIDE DEF P, Q, u
    <3> QED
      BY <2>1, <3>1 DEF Continues
  <2>3. /\ w \in Seq(T) /\ v \in Seq(T)
        /\ x = Sep => v = w
        /\ x # Sep => v = Append(w, x)
    BY WithoutOfAppended DEF Glued
  <2>4. /\ Len(t) + 1 = Len(w) + N
        /\ N = 1 => w = P[1] /\ t = P[1]
        /\ N = 2 => w = P[1] \o P[2]
    BY <1>2
  <2>5. Len(w) \in Nat /\ Len(Append(w, x)) = Len(w) + 1
    BY <2>3, AppendProperties, LenProperties
  <2>6. \A p \in 1 .. N : P[p] \in Seq(T)
    BY <2>1, ElementOfSeq DEF SomePieces
  <2>7. w \o << >> = w
    BY <2>3, ConcatEmptySeq
  <2>8. \A p, q \in Seq(T) : p \o Append(q, x) = Append(p \o q, x)
    <3> TAKE p, q \in Seq(T)
    <3>1. << x >> \in Seq(T) /\ p \o q \in Seq(T)
      BY ConcatProperties
    <3>2. Append(q, x) = q \o << x >> /\ Append(p \o q, x) = (p \o q) \o << x >>
      BY <3>1, AppendIsConcat
    <3> QED
      BY <3>1, <3>2, ConcatAssociative
  <2> HIDE DEF u, P, N, Q, w, v
  <2>9. CASE x = Sep
    <3>1. v = w /\ Len(Q) = N + 1
      BY <2>2, <2>3, <2>9
    <3>2. Len(u) + 1 = Len(v) + Len(Q)
      BY <2>1, <2>2, <2>4, <2>5, <3>1
    <3>3. Len(Q) # 1
      BY <2>2, <3>1
    <3>4. ASSUME Len(Q) = 2 PROVE v = Q[1] \o Q[2]
      <4>1. N = 1
        <5>1. N + 1 = 2
          BY <3>1, <3>4
        <5>2. N \in Nat
          BY <2>2
        <5> QED
          BY <5>1, <5>2
      <4>2. Q[1] = P[1] /\ Q[2] = << >>
        BY <2>2, <2>9, <4>1
      <4> QED
        BY <2>4, <2>7, <3>1, <4>1, <4>2
    <3>5. Counted(u, Q, v)
      BY <3>2, <3>3, <3>4
    <3> QED
      BY <2>1, <3>5 DEF u, v
  <2>10. CASE x # Sep
    <3>1. v = Append(w, x) /\ Len(Q) = N /\ Q[N] = Append(P[N], x)
      BY <2>2, <2>3, <2>10
    <3>2. Len(u) + 1 = Len(v) + Len(Q)
      <4>1. Len(u) = Len(t) + 1 /\ Len(v) = Len(w) + 1 /\ Len(Q) = N
        BY <2>1, <2>5, <3>1
      <4>2. Len(t) \in Nat /\ Len(w) \in Nat /\ N \in Nat /\ Len(t) + 1 = Len(w) + N
        BY <2>1, <2>2, <2>4, <2>5
      <4> QED
        BY <4>1, <4>2
    <3>3. Len(Q) = 1 => v = Q[1] /\ u = Q[1]
      BY <2>4, <3>1 DEF u
    <3>4. ASSUME Len(Q) = 2 PROVE v = Q[1] \o Q[2]
      <4>1. N = 2
        BY <3>1, <3>4
      <4>2. Q[1] = P[1] /\ Q[2] = Append(P[2], x) /\ P[1] \in Seq(T) /\ P[2] \in Seq(T)
        BY <2>2, <2>6, <2>10, <4>1
      <4>3. Q[1] \o Q[2] = Append(P[1] \o P[2], x)
        BY <2>8, <4>2
      <4> QED
        BY <2>4, <3>1, <4>1, <4>3
    <3>5. Counted(u, Q, v)
      BY <3>2, <3>3, <3>4
    <3> QED
      BY <2>1, <3>5 DEF u, v
  <2> QED
    BY <2>9, <2>10
<1>3. \A t \in Seq(T) : t \in Good
  <2> HIDE DEF Good
  <2> QED
    BY <1>1, <1>2, SeqInduction
<1> QED
  BY <1>3

\* Without its separators, a text joined of two.
LEMMA GluedJoined ==
  ASSUME NEW T, NEW s \in Seq(T), NEW t \in Seq(T)
  PROVE  Glued(s \o t) = Glued(s) \o Glued(t)
BY WithoutJoined DEF Glued

-----------------------------------------------------------------------------
(* Dividing a text at its first separators. *)

\* First is where separators in a row begin, and no earlier place is one.
LEMMA FirstIs ==
  ASSUME NEW T, NEW s \in Seq(T), NEW n, Has(s, n)
  PROVE  /\ First(s, n) \in 1 .. Len(s)
         /\ SepsAt(s, n, First(s, n))
         /\ \A j \in 1 .. First(s, n) - 1 : ~SepsAt(s, n, j)
<1> DEFINE IsFirst(i) == SepsAt(s, n, i) /\ \A j \in 1 .. i - 1 : ~SepsAt(s, n, j)
           S == {m \in Nat : (\E i \in 1 .. m : SepsAt(s, n, i)) => \E i \in 1 .. m : IsFirst(i)}
<1>1. 0 \in S
  OBVIOUS
<1>2. ASSUME NEW m \in Nat, m \in S PROVE m + 1 \in S
  <2> SUFFICES ASSUME NEW i \in 1 .. m + 1, SepsAt(s, n, i)
               PROVE  \E k \in 1 .. m + 1 : IsFirst(k)
    OBVIOUS
  <2>1. CASE \E k \in 1 .. m : SepsAt(s, n, k)
    <3>1. PICK k \in 1 .. m : IsFirst(k)
      BY <1>2, <2>1
    <3>2. k \in 1 .. m + 1
      OBVIOUS
    <3> QED
      BY <3>1, <3>2
  <2>2. CASE \A k \in 1 .. m : ~SepsAt(s, n, k)
    <3>1. i = m + 1 /\ (m + 1) - 1 = m
      BY <2>2
    <3>2. IsFirst(m + 1)
      BY <2>2, <3>1
    <3> QED
      BY <3>1, <3>2
  <2> QED
    BY <2>1, <2>2
<1>3. \A m \in Nat : m \in S
  <2> HIDE DEF S
  <2> QED
    BY <1>1, <1>2, SetInduction
<1>4. \E i \in 1 .. Len(s) : IsFirst(i)
  <2>1. Len(s) \in S
    BY <1>3, LenProperties
  <2> QED
    BY <2>1 DEF Has
<1>5. First(s, n) \in 1 .. Len(s) /\ IsFirst(First(s, n))
  <2>1. First(s, n) = CHOOSE i \in 1 .. Len(s) : IsFirst(i)
    BY DEF First
  <2> HIDE DEF IsFirst
  <2> QED
    BY <1>4, <2>1
<1> QED
  BY <1>5

\* s is b, n separators and r.
Parts(s, n, b, r, T) ==
  /\ b \in Seq(T) /\ r \in Seq(T)
  /\ \E z \in Seq({Sep}) : Len(z) = n /\ s = b \o (z \o r)
  /\ Glued(s) = Glued(b) \o Glued(r)
  /\ Core(s) = Core(b) \o Core(r)

\* A text with separators is what stands before the first of them, n separators, and
\* what stands after: what stands before ends with no separator, and what the text holds
\* besides separators is in the two parts.
LEMMA DividedText ==
  ASSUME NEW T, NEW s \in Seq(T), NEW n \in Nat \ {0}, Has(s, n)
  PROVE  /\ Before(s, n) \in Seq(T) /\ After(s, n) \in Seq(T)
         /\ \A a, b : /\ Holds(Before(s, n) \o After(s, n), a) => Holds(s, a)
                      /\ HoldsInOrder(Before(s, n) \o After(s, n), a, b) => HoldsInOrder(s, a, b)
         /\ \A a : Holds(s, a) /\ a # Sep => Holds(Before(s, n), a) \/ Holds(After(s, n), a)
         /\ Parts(s, n, Before(s, n), After(s, n), T)
         /\ Len(s) = Len(Before(s, n)) + n + Len(After(s, n))
         /\ Before(s, n) # << >> => Before(s, n)[Len(Before(s, n))] # Sep
<1> DEFINE F == First(s, n)
           L == Len(s)
           b == Before(s, n)
           r == After(s, n)
           m == SubSeq(s, F, F + n - 1)
           f == SubSeq(s, F, L)
<1>1. /\ F \in 1 .. L /\ SepsAt(s, n, F)
      /\ \A j \in 1 .. F - 1 : ~SepsAt(s, n, j)
  BY FirstIs
<1>2. L \in Nat /\ \A i \in 1 .. L : s[i] \in T
  BY LenProperties, ElementOfSeq
<1>3. b = SubSeq(s, 1, F - 1) /\ r = SubSeq(s, F + n, L)
  BY DEF Before, After
<1>4. F + n - 1 <= L /\ \A j \in F .. F + n - 1 : s[j] = Sep
  BY <1>1 DEF SepsAt
<1>5. /\ b \in Seq(T) /\ Len(b) = F - 1 /\ \A i \in 1 .. F - 1 : b[i] = s[i]
      /\ r \in Seq(T) /\ Len(r) = L + 1 - (F + n)
      /\ m \in Seq(T) /\ Len(m) = n /\ \A i \in 1 .. Len(m) : m[i] = Sep
      /\ f \in Seq(T) /\ s = b \o f /\ f = m \o r
  <2> HIDE DEF F, L, b, r
  <2>0. F \in Int /\ F - 1 \in Int /\ F + n \in Int /\ F + n - 1 \in Int /\ L \in Int /\ 1 \in Int
    BY <1>1, <1>2
  <2>1. /\ b \in Seq(T) /\ Len(b) = (IF 1 <= F - 1 THEN (F - 1) - 1 + 1 ELSE 0)
        /\ \A i \in 1 .. (F - 1) - 1 + 1 : b[i] = s[1 + i - 1]
    <3>1. \A i \in 1 .. F - 1 : s[i] \in T
      BY <1>1, <1>2
    <3> QED
      BY <1>3, <2>0, <3>1, SubSeqProperties
  <2>2. /\ r \in Seq(T) /\ Len(r) = (IF F + n <= L THEN L - (F + n) + 1 ELSE 0)
    <3>1. \A i \in F + n .. L : s[i] \in T
      BY <1>1, <1>2
    <3> QED
      BY <1>3, <2>0, <3>1, SubSeqProperties
  <2>3. /\ m \in Seq(T) /\ Len(m) = (IF F <= F + n - 1 THEN (F + n - 1) - F + 1 ELSE 0)
        /\ \A i \in 1 .. (F + n - 1) - F + 1 : m[i] = s[F + i - 1]
    <3>1. \A i \in F .. F + n - 1 : s[i] \in T
      BY <1>1, <1>2, <1>4
    <3> HIDE DEF m
    <3> QED
      BY <2>0, <3>1, SubSeqProperties DEF m
  <2>4. f \in Seq(T)
    <3>1. \A i \in F .. L : s[i] \in T
      BY <1>1, <1>2
    <3> QED
      BY <2>0, <3>1, SubSeqProperties
  <2>5. s = b \o f
    <3>1. 1 \in 1 .. L + 1 /\ F - 1 \in 1 - 1 .. L /\ L \in F - 1 .. L /\ (F - 1) + 1 = F
      BY <1>1, <1>2
    <3>2. SubSeq(s, 1, F - 1) \o SubSeq(s, (F - 1) + 1, L) = SubSeq(s, 1, L)
      BY <3>1, ConcatAdjacentSubSeq DEF L
    <3>3. SubSeq(s, 1, L) = s
      BY SubSeqFull DEF L
    <3> QED
      BY <1>3, <3>1, <3>2, <3>3
  <2>6. f = m \o r
    <3>1. F \in 1 .. L + 1 /\ F + n - 1 \in F - 1 .. L /\ L \in F + n - 1 .. L
          /\ (F + n - 1) + 1 = F + n
      BY <1>1, <1>2, <1>4
    <3>2. SubSeq(s, F, F + n - 1) \o SubSeq(s, (F + n - 1) + 1, L) = SubSeq(s, F, L)
      BY <3>1, ConcatAdjacentSubSeq DEF L
    <3> QED
      BY <1>3, <3>1, <3>2
  <2>7. Len(b) = F - 1 /\ \A i \in 1 .. F - 1 : b[i] = s[i]
    <3>1. (F - 1) - 1 + 1 = F - 1 /\ \A i \in 1 .. F - 1 : 1 + i - 1 = i
      BY <1>1
    <3> QED
      BY <1>1, <2>1, <3>1
  <2>8. Len(r) = L + 1 - (F + n)
    BY <1>1, <1>2, <1>4, <2>2
  <2>9. \A i \in 1 .. Len(m) : m[i] = Sep
    <3> TAKE i \in 1 .. Len(m)
    <3> HIDE DEF m
    <3>1. i \in 1 .. (F + n - 1) - F + 1 /\ F + i - 1 \in F .. F + n - 1
      BY <1>1, <2>3
    <3> QED
      BY <1>4, <2>3, <3>1
  <2>10. Len(m) = n
    <3>1. F <= F + n - 1 /\ (F + n - 1) - F + 1 = n
      BY <2>0
    <3> QED
      BY <2>3, <3>1
  <2> QED
    BY <2>1, <2>2, <2>3, <2>4, <2>5, <2>6, <2>7, <2>8, <2>9, <2>10
<1> HIDE DEF F, L, b, r, m, f
<1>6. \A a : Holds(m, a) => a = Sep
  BY <1>5 DEF Holds
<1>7. \A a, c : /\ Holds(s, a) <=> Holds(b, a) \/ Holds(f, a)
                /\ HoldsInOrder(s, a, c) <=>
                     HoldsInOrder(b, a, c) \/ HoldsInOrder(f, a, c) \/ (Holds(b, a) /\ Holds(f, c))
                /\ Holds(f, a) <=> Holds(m, a) \/ Holds(r, a)
                /\ HoldsInOrder(f, a, c) <=>
                     HoldsInOrder(m, a, c) \/ HoldsInOrder(r, a, c) \/ (Holds(m, a) /\ Holds(r, c))
                /\ Holds(b \o r, a) <=> Holds(b, a) \/ Holds(r, a)
                /\ HoldsInOrder(b \o r, a, c) <=>
                     HoldsInOrder(b, a, c) \/ HoldsInOrder(r, a, c) \/ (Holds(b, a) /\ Holds(r, c))
  <2> DEFINE Both(v, x, y) ==
               \A a, c : /\ Holds(v, a) <=> Holds(x, a) \/ Holds(y, a)
                         /\ HoldsInOrder(v, a, c) <=>
                              HoldsInOrder(x, a, c) \/ HoldsInOrder(y, a, c)
                                \/ (Holds(x, a) /\ Holds(y, c))
  <2>1. \A x, y \in Seq(T) : Both(x \o y, x, y)
    BY HoldsOfJoined
  <2> HIDE DEF Both
  <2>2. Both(s, b, f) /\ Both(f, m, r) /\ Both(b \o r, b, r)
    BY <1>5, <2>1
  <2> QED
    BY <2>2 DEF Both
<1>8. \A a, c : /\ Holds(b \o r, a) => Holds(s, a)
                /\ HoldsInOrder(b \o r, a, c) => HoldsInOrder(s, a, c)
  BY <1>7
<1>9. \A a : Holds(s, a) /\ a # Sep => Holds(b, a) \/ Holds(r, a)
  BY <1>6, <1>7
<1>10. Glued(s) = Glued(b) \o Glued(r)
  <2>1. Glued(m) = << >>
    BY <1>5, <1>6, GluedEmpty
  <2>2. Glued(s) = Glued(b) \o Glued(f) /\ Glued(f) = Glued(m) \o Glued(r)
    <3>1. Glued(b \o f) = Glued(b) \o Glued(f)
      BY <1>5, GluedJoined
    <3>2. Glued(m \o r) = Glued(m) \o Glued(r)
      BY <1>5, GluedJoined
    <3> QED
      BY <1>5, <3>1, <3>2
  <2>3. Glued(r) \in Seq(T)
    BY <1>5, GluedEmpty
  <2>4. << >> \o Glued(r) = Glued(r)
    BY <2>3, ConcatEmptySeq
  <2> QED
    BY <2>1, <2>2, <2>4
<1>13. Core(s) = Core(b) \o Core(r)
  <2>1. Core(m) = << >>
    <3>1. Core(m) \in Seq(T) /\ \A a : Holds(Core(m), a) <=> Holds(m, a) /\ a # Sep /\ a # Blank
      BY <1>5, CoreIs
    <3> QED
      BY <1>6, <3>1, HoldsNothing
  <2>2. Core(s) = Core(b) \o Core(f) /\ Core(f) = Core(m) \o Core(r)
    <3>1. Core(b \o f) = Core(b) \o Core(f)
      BY <1>5, CoreJoined
    <3>2. Core(m \o r) = Core(m) \o Core(r)
      BY <1>5, CoreJoined
    <3> QED
      BY <1>5, <3>1, <3>2
  <2>3. Core(r) \in Seq(T)
    BY <1>5, CoreIs
  <2>4. << >> \o Core(r) = Core(r)
    BY <2>3, ConcatEmptySeq
  <2> QED
    BY <2>1, <2>2, <2>4
<1>14. Parts(s, n, b, r, T)
  <2>1. m \in Seq({Sep})
    <3>1. Len(m) \in Nat /\ m = [i \in 1 .. Len(m) |-> m[i]]
      BY <1>5, LenProperties
    <3>2. m \in [1 .. Len(m) -> {Sep}]
      BY <1>5, <3>1
    <3> QED
      BY <3>1, <3>2, SeqDef
  <2> QED
    BY <1>5, <1>10, <1>13, <2>1 DEF Parts
<1>11. L = Len(b) + n + Len(r)
  BY <1>1, <1>2, <1>5
<1>12. b # << >> => b[Len(b)] # Sep
  <2> SUFFICES ASSUME b # << >> PROVE b[Len(b)] # Sep
    OBVIOUS
  <2>1. F - 1 >= 1
    <3>1. Len(b) # 0
      BY <1>5, EmptySeq
    <3> QED
      BY <1>1, <1>2, <1>5, <3>1
  <2>2. F - 1 \in 1 .. F - 1 /\ F - 1 \in 1 .. Len(b)
    BY <1>1, <1>5, <2>1
  <2>3. s[F - 1] # Sep
    <3> SUFFICES ASSUME s[F - 1] = Sep PROVE SepsAt(s, n, F - 1)
      BY <1>1, <2>2
    <3>1. (F - 1) + n - 1 <= L
      BY <1>1, <1>2, <1>4
    <3>2. \A j \in F - 1 .. (F - 1) + n - 1 : j = F - 1 \/ j \in F .. F + n - 1
      BY <1>1
    <3>3. \A j \in F - 1 .. (F - 1) + n - 1 : s[j] = Sep
      BY <1>4, <3>2
    <3> QED
      BY <3>1, <3>3 DEF SepsAt, L
  <2> QED
    BY <1>5, <2>2, <2>3
<1> QED
  BY <1>5, <1>8, <1>9, <1>11, <1>12, <1>14 DEF b, r, L

\* A text cut before its k-th token.
LEMMA CutText ==
  ASSUME NEW T, NEW s \in Seq(T), NEW k \in 1 .. Len(s)
  PROVE  /\ SubSeq(s, 1, k - 1) \in Seq(T) /\ SubSeq(s, k, Len(s)) \in Seq(T)
         /\ s = SubSeq(s, 1, k - 1) \o SubSeq(s, k, Len(s))
         /\ k > 1 => Holds(SubSeq(s, 1, k - 1), s[k - 1])
         /\ Holds(SubSeq(s, k, Len(s)), s[k])
         /\ Holds(SubSeq(s, k, Len(s)), s[Len(s)])
<1> DEFINE L == Len(s)
<1>1. L \in Nat /\ k \in Int /\ k >= 1 /\ k <= L /\ \A i \in 1 .. L : s[i] \in T
  BY LenProperties, ElementOfSeq
<1> HIDE DEF L
<1>2. /\ SubSeq(s, 1, k - 1) \in Seq(T)
      /\ Len(SubSeq(s, 1, k - 1)) = (IF 1 <= k - 1 THEN (k - 1) - 1 + 1 ELSE 0)
      /\ \A i \in 1 .. (k - 1) - 1 + 1 : SubSeq(s, 1, k - 1)[i] = s[1 + i - 1]
  <2>1. 1 \in Int /\ k - 1 \in Int /\ \A i \in 1 .. k - 1 : s[i] \in T
    BY <1>1
  <2> QED
    BY <2>1, SubSeqProperties
<1>3. /\ SubSeq(s, k, L) \in Seq(T)
      /\ Len(SubSeq(s, k, L)) = (IF k <= L THEN L - k + 1 ELSE 0)
      /\ \A i \in 1 .. L - k + 1 : SubSeq(s, k, L)[i] = s[k + i - 1]
  <2>1. k \in Int /\ L \in Int /\ \A i \in k .. L : s[i] \in T
    BY <1>1
  <2> QED
    BY <2>1, SubSeqProperties
<1>4. s = SubSeq(s, 1, k - 1) \o SubSeq(s, k, L)
  <2>1. 1 \in 1 .. L + 1 /\ k - 1 \in 1 - 1 .. L /\ L \in k - 1 .. L /\ (k - 1) + 1 = k
    BY <1>1
  <2>2. SubSeq(s, 1, k - 1) \o SubSeq(s, (k - 1) + 1, L) = SubSeq(s, 1, L)
    BY <2>1, ConcatAdjacentSubSeq DEF L
  <2>3. SubSeq(s, 1, L) = s
    BY SubSeqFull DEF L
  <2> QED
    BY <2>1, <2>2, <2>3
<1> DEFINE b == SubSeq(s, 1, k - 1)
           r == SubSeq(s, k, L)
<1> HIDE DEF b, r
<1>5. k > 1 => Holds(b, s[k - 1])
  <2> SUFFICES ASSUME k > 1 PROVE Holds(b, s[k - 1])
    OBVIOUS
  <2>1. k - 1 \in 1 .. (k - 1) - 1 + 1 /\ 1 + (k - 1) - 1 = k - 1 /\ Len(b) = k - 1
    BY <1>1, <1>2 DEF b
  <2>2. b[k - 1] = s[k - 1] /\ k - 1 \in 1 .. Len(b)
    BY <1>2, <2>1 DEF b
  <2> QED
    BY <2>2 DEF Holds
<1>6. Len(r) = L - k + 1 /\ \A i \in 1 .. Len(r) : r[i] = s[k + i - 1]
  BY <1>1, <1>3 DEF r
<1>7. 1 \in 1 .. Len(r) /\ Len(r) \in 1 .. Len(r) /\ k + 1 - 1 = k /\ k + Len(r) - 1 = L
  BY <1>1, <1>6
<1>8. r[1] = s[k] /\ r[Len(r)] = s[L]
  BY <1>6, <1>7
<1>9. Holds(r, s[k]) /\ Holds(r, s[L])
  BY <1>7, <1>8 DEF Holds
<1> QED
  BY <1>2, <1>3, <1>4, <1>5, <1>9 DEF b, r, L

-----------------------------------------------------------------------------
(* The words of a text. *)

\* (SMT and Zenon know little of Append and of \o: what is needed of both together.)
LEMMA AppendToJoined ==
  ASSUME NEW T, NEW x \in T
  PROVE  \A s, t \in Seq(T) : /\ s \o t \in Seq(T)
                              /\ Append(s \o t, x) = s \o Append(t, x)
<1> TAKE s, t \in Seq(T)
<1>1. << x >> \in Seq(T) /\ s \o t \in Seq(T)
  BY ConcatProperties
<1>2. Append(t, x) = t \o << x >> /\ Append(s \o t, x) = (s \o t) \o << x >>
  BY <1>1, AppendIsConcat
<1> QED
  BY <1>1, <1>2, ConcatAssociative

\* Two texts with a separator between them: the pieces of the one and of the other.
PiecesMeet(u, v) == Pieces((u \o << Sep >>) \o v) = Pieces(u) \o Pieces(v)

\* The last of the pieces q goes on after the pieces p.
LEMMA ContinuedLast ==
  ASSUME NEW T, NEW p \in SomePieces(T), NEW q \in SomePieces(T), NEW x \in T
  PROVE  Continued(p \o q, x) = p \o Continued(q, x)
<1>1. /\ p \in Seq(Seq(T)) /\ q \in Seq(Seq(T)) /\ << >> \in Seq(T)
      /\ Len(p) \in Nat /\ Len(q) \in Nat /\ Len(q) >= 1
  BY LenProperties, EmptySeq DEF SomePieces
<1>2. CASE x = Sep
  <2>1. \A e \in Seq(T) : Append(p \o q, e) = p \o Append(q, e)
    <3> TAKE e \in Seq(T)
    <3> DEFINE U == Seq(T)
    <3>1. p \in Seq(U) /\ q \in Seq(U) /\ e \in U
      BY <1>1
    <3> HIDE DEF U
    <3>2. Append(p \o q, e) = p \o Append(q, e)
      BY <3>1, AppendToJoined
    <3> QED
      BY <3>2
  <2> QED
    BY <1>1, <1>2, <2>1 DEF Continued
<1>3. CASE x # Sep
  <2> DEFINE r == p \o q
             N == Len(p)
             M == Len(q)
             k == Append(q[M], x)
             a == [r EXCEPT ![N + M] = k]
             c == [q EXCEPT ![M] = k]
  <2>1. /\ r \in Seq(Seq(T)) /\ Len(r) = N + M
        /\ \A i \in 1 .. N + M : r[i] = IF i <= N THEN p[i] ELSE q[i - N]
    BY <1>1, ConcatProperties
  <2>2. r[N + M] = q[M]
    <3>1. N + M \in 1 .. N + M /\ ~(N + M <= N) /\ (N + M) - N = M
      BY <1>1
    <3> QED
      BY <2>1, <3>1
  <2>3. k \in Seq(T)
    <3>1. M \in 1 .. M
      BY <1>1
    <3>2. q[M] \in Seq(T)
      BY <1>1, <3>1, ElementOfSeq
    <3> QED
      BY <3>2, AppendProperties
  <2>4. Continued(r, x) = a /\ Continued(q, x) = c
    BY <1>3, <2>1, <2>2 DEF Continued
  <2>5. c \in Seq(Seq(T)) /\ Len(c) = M /\ \A i \in 1 .. M : c[i] = IF i = M THEN k ELSE q[i]
    BY <1>1, <2>3, ExceptSeq
  <2>6. /\ a \in Seq(Seq(T)) /\ Len(a) = N + M
        /\ \A i \in 1 .. N + M : a[i] = IF i = N + M THEN k ELSE r[i]
    <3>1. N + M \in 1 .. Len(r)
      BY <1>1, <2>1
    <3> HIDE DEF r, k
    <3>2. /\ a \in Seq(Seq(T)) /\ Len(a) = Len(r)
          /\ \A i \in 1 .. Len(r) : a[i] = IF i = N + M THEN k ELSE r[i]
      BY <2>1, <2>3, <3>1, ExceptSeq
    <3> QED
      BY <2>1, <3>2
  <2> HIDE DEF a, c, k, r
  <2>7. /\ p \o c \in Seq(Seq(T)) /\ Len(p \o c) = N + M
        /\ \A i \in 1 .. N + M : (p \o c)[i] = IF i <= N THEN p[i] ELSE c[i - N]
    <3>1. /\ p \o c \in Seq(Seq(T)) /\ Len(p \o c) = Len(p) + Len(c)
          /\ \A i \in 1 .. Len(p) + Len(c) :
                (p \o c)[i] = IF i <= Len(p) THEN p[i] ELSE c[i - Len(p)]
      BY <1>1, <2>5, ConcatProperties
    <3> QED
      BY <2>5, <3>1
  <2>8. ASSUME NEW i \in 1 .. N + M PROVE a[i] = (p \o c)[i]
    <3>1. CASE i <= N
      <4>1. i # N + M
        BY <1>1, <3>1
      <4> QED
        BY <2>1, <2>6, <2>7, <3>1, <4>1
    <3>2. CASE ~(i <= N)
      <4>1. i - N \in 1 .. M /\ (i - N = M <=> i = N + M)
        BY <1>1, <3>2
      <4> QED
        BY <2>1, <2>5, <2>6, <2>7, <3>2, <4>1
    <3> QED
      BY <3>1, <3>2
  <2>9. a = p \o c
    BY <2>6, <2>7, <2>8, SeqEqual
  <2> QED
    BY <2>4, <2>9 DEF r
<1> QED
  BY <1>2, <1>3

\* split('#') of two texts with a separator between them.
LEMMA PiecesJoined ==
  ASSUME NEW T, Sep \in T, NEW u \in Seq(T)
  PROVE  \A v \in Seq(T) : PiecesMeet(u, v)
<1> DEFINE Good == {v \in Seq(T) : PiecesMeet(u, v)}
           w == u \o << Sep >>
<1>0. << Sep >> \in Seq(T) /\ << >> \in Seq(T) /\ w \in Seq(T) /\ w = Append(u, Sep)
  <2>1. << Sep >> \in Seq(T)
    OBVIOUS
  <2> QED
    BY <2>1, EmptySeq, AppendIsConcat, ConcatProperties
<1>1. << >> \in Good
  <2>1. w \o << >> = w
    BY <1>0, ConcatEmptySeq
  <2>2. Pieces(w) = Continued(Pieces(u), Sep)
    BY <1>0, PiecesStep
  <2>3. Continued(Pieces(u), Sep) = Append(Pieces(u), << >>)
    BY DEF Continued
  <2>4. Pieces(u) \in Seq(Seq(T))
    BY PiecesStep DEF SomePieces
  <2>5. Append(Pieces(u), << >>) = Pieces(u) \o << << >> >>
    BY <1>0, <2>4, AppendIsConcat
  <2>6. Pieces(<< >>) = << << >> >>
    BY PiecesStep
  <2> QED
    BY <1>0, <2>1, <2>2, <2>3, <2>5, <2>6 DEF PiecesMeet
<1>2. ASSUME NEW v \in Seq(T), NEW x \in T, v \in Good PROVE Append(v, x) \in Good
  <2>1. Append(v, x) \in Seq(T)
    BY AppendProperties
  <2>2. w \o Append(v, x) = Append(w \o v, x) /\ w \o v \in Seq(T)
    BY <1>0, AppendToJoined
  <2>3. Pieces(Append(w \o v, x)) = Continued(Pieces(w \o v), x)
    BY <2>2, PiecesStep
  <2>4. Pieces(w \o v) = Pieces(u) \o Pieces(v)
    BY <1>2 DEF PiecesMeet
  <2>5. Pieces(u) \in SomePieces(T) /\ Pieces(v) \in SomePieces(T)
    BY PiecesStep
  <2>6. Continued(Pieces(u) \o Pieces(v), x) = Pieces(u) \o Continued(Pieces(v), x)
    BY <2>5, ContinuedLast
  <2>7. Continued(Pieces(v), x) = Pieces(Append(v, x))
    BY PiecesStep
  <2> QED
    BY <2>1, <2>2, <2>3, <2>4, <2>6, <2>7 DEF PiecesMeet
<1>3. \A v \in Seq(T) : v \in Good
  <2> HIDE DEF Good
  <2> QED
    BY <1>1, <1>2, SeqInduction
<1> QED
  BY <1>3

\* s with separators for its blanks.
Dashed(s) == [i \in DOMAIN s |-> IF s[i] = Blank THEN Sep ELSE s[i]]

\* The words of a text: the pieces between blanks or separators that hold something.
WordsOf(s) == Without(Pieces(Dashed(s)), << >>)

\* Dashing a text goes through its parts.
LEMMA DashedJoined ==
  ASSUME NEW T, Sep \in T
  PROVE  \A s, t \in Seq(T) : Dashed(s) \in Seq(T) /\ Dashed(s \o t) = Dashed(s) \o Dashed(t)
<1>1. ASSUME NEW s \in Seq(T)
      PROVE  /\ Dashed(s) \in Seq(T) /\ Len(Dashed(s)) = Len(s)
             /\ \A i \in 1 .. Len(s) : Dashed(s)[i] = IF s[i] = Blank THEN Sep ELSE s[i]
  <2>1. DOMAIN s = 1 .. Len(s) /\ Len(s) \in Nat /\ \A i \in 1 .. Len(s) : s[i] \in T
    BY LenProperties, ElementOfSeq
  <2>2. Dashed(s) \in [1 .. Len(s) -> T]
    BY <2>1 DEF Dashed
  <2>3. Dashed(s) \in Seq(T)
    BY <2>1, <2>2, SeqDef
  <2>4. DOMAIN Dashed(s) = 1 .. Len(Dashed(s)) /\ Len(Dashed(s)) \in Nat
    BY <2>3, LenProperties
  <2>5. DOMAIN Dashed(s) = 1 .. Len(s)
    BY <2>1 DEF Dashed
  <2>6. Len(Dashed(s)) = Len(s)
    <3>1. \A n, m \in Nat : 1 .. n = 1 .. m => n = m
      OBVIOUS
    <3> QED
      BY <2>1, <2>4, <2>5, <3>1
  <2> QED
    BY <2>1, <2>3, <2>6 DEF Dashed
<1> SUFFICES ASSUME NEW s \in Seq(T), NEW t \in Seq(T)
             PROVE  Dashed(s \o t) = Dashed(s) \o Dashed(t)
  BY <1>1
<1> DEFINE c == s \o t
           N == Len(s)
           M == Len(t)
           d == Dashed(s) \o Dashed(t)
<1>2. /\ c \in Seq(T) /\ Len(c) = N + M /\ N \in Nat /\ M \in Nat
      /\ \A i \in 1 .. N + M : c[i] = IF i <= N THEN s[i] ELSE t[i - N]
  BY ConcatProperties, LenProperties
<1>3. /\ d \in Seq(T) /\ Len(d) = N + M
      /\ \A i \in 1 .. N + M : d[i] = IF i <= N THEN Dashed(s)[i] ELSE Dashed(t)[i - N]
  <2> DEFINE v == Dashed(s)
             w == Dashed(t)
  <2>1. v \in Seq(T) /\ w \in Seq(T) /\ Len(v) = N /\ Len(w) = M
    BY <1>1
  <2> HIDE DEF v, w
  <2>2. /\ v \o w \in Seq(T) /\ Len(v \o w) = Len(v) + Len(w)
        /\ \A i \in 1 .. Len(v) + Len(w) :
              (v \o w)[i] = IF i <= Len(v) THEN v[i] ELSE w[i - Len(v)]
    BY <2>1, ConcatProperties
  <2>3. d = v \o w
    BY DEF v, w
  <2> QED
    BY <2>1, <2>2, <2>3 DEF v, w
<1> HIDE DEF c, d
<1>4. /\ Dashed(c) \in Seq(T) /\ Len(Dashed(c)) = N + M
      /\ \A i \in 1 .. N + M : Dashed(c)[i] = IF c[i] = Blank THEN Sep ELSE c[i]
  BY <1>1, <1>2
<1>5. ASSUME NEW i \in 1 .. N + M PROVE Dashed(c)[i] = d[i]
  <2>1. CASE i <= N
    <3>1. i \in 1 .. N
      BY <1>2, <2>1
    <3> QED
      BY <1>1, <1>2, <1>3, <1>4, <2>1, <3>1
  <2>2. CASE ~(i <= N)
    <3>1. i - N \in 1 .. M
      BY <1>2, <2>2
    <3> QED
      BY <1>1, <1>2, <1>3, <1>4, <2>2, <3>1
  <2> QED
    BY <2>1, <2>2
<1>6. Dashed(c) = d
  BY <1>3, <1>4, <1>5, SeqEqual
<1> QED
  BY <1>6 DEF c, d

\* Two texts with a blank or a separator between them: the words of the one and of the
\* other.
WordsMeet(x, b, y) == WordsOf((x \o << b >>) \o y) = WordsOf(x) \o WordsOf(y)

LEMMA WordsJoined ==
  ASSUME NEW T, Sep \in T, Blank \in T
  PROVE  \A x, y \in Seq(T), b \in {Sep, Blank} : WordsOf(x) \in Seq(Seq(T)) /\ WordsMeet(x, b, y)
<1> TAKE x, y \in Seq(T), b \in {Sep, Blank}
<1>1. << b >> \in Seq(T) /\ x \o << b >> \in Seq(T)
  <2>1. << b >> \in Seq(T)
    OBVIOUS
  <2> QED
    BY <2>1, ConcatProperties
<1>2. Dashed(<< b >>) = << Sep >>
  BY DEF Dashed
<1> DEFINE u == Dashed(x)
           v == Dashed(y)
<1>3. u \in Seq(T) /\ v \in Seq(T)
  BY DashedJoined
<1>4. Dashed((x \o << b >>) \o y) = (u \o << Sep >>) \o v
  <2>1. Dashed((x \o << b >>) \o y) = Dashed(x \o << b >>) \o Dashed(y)
    BY <1>1, DashedJoined
  <2>2. Dashed(x \o << b >>) = Dashed(x) \o Dashed(<< b >>)
    BY <1>1, DashedJoined
  <2> QED
    BY <1>2, <2>1, <2>2
<1> HIDE DEF u, v
<1>5. PiecesMeet(u, v)
  BY <1>3, PiecesJoined
<1>6. Pieces(u) \in Seq(Seq(T)) /\ Pieces(v) \in Seq(Seq(T))
  BY <1>3, PiecesStep DEF SomePieces
<1>7. Without(Pieces(u) \o Pieces(v), << >>) = Without(Pieces(u), << >>) \o Without(Pieces(v), << >>)
  BY <1>6, WithoutJoined
<1>8. Without(Pieces(u), << >>) \in Seq(Seq(T))
  BY <1>6, WithoutIsSeq
<1> QED
  BY <1>4, <1>5, <1>7, <1>8 DEF PiecesMeet, WordsMeet, WordsOf, u, v

-----------------------------------------------------------------------------
(* What is divided holds what it held. *)

\* The empty text holds nothing.
LEMMA HoldsOfEmpty == \A a, b : ~Holds(<< >>, a) /\ ~HoldsInOrder(<< >>, a, b)
<1>1. Len(<< >>) = 0
  BY EmptySeq
<1> QED
  BY <1>1 DEF Holds, HoldsInOrder

IsPiece(a) == a # Sep /\ a # Blank
HasWord(s) == \E a : Holds(s, a) /\ IsPiece(a)

\* Tokens of b and r come from s in its order, and each piece of a word of s is in one
\* of them.
InTwo(s, b, r) ==
  /\ \A a : Holds(b, a) \/ Holds(r, a) => Holds(s, a)
  /\ \A a, c : HoldsInOrder(b, a, c) \/ HoldsInOrder(r, a, c) \/ (Holds(b, a) /\ Holds(r, c))
                 => HoldsInOrder(s, a, c)
  /\ \A a : Holds(s, a) /\ IsPiece(a) => Holds(b, a) \/ Holds(r, a)

\* The same of three.
Divided(s, h, m, r) ==
  /\ \A a : Holds(h, a) \/ Holds(m, a) \/ Holds(r, a) => Holds(s, a)
  /\ \A a, b :
        \/ HoldsInOrder(h, a, b) \/ HoldsInOrder(m, a, b) \/ HoldsInOrder(r, a, b)
        \/ Holds(h, a) /\ (Holds(m, b) \/ Holds(r, b))
        \/ Holds(m, a) /\ Holds(r, b)
        => HoldsInOrder(s, a, b)
  /\ \A a : Holds(s, a) /\ IsPiece(a) => Holds(h, a) \/ Holds(m, a) \/ Holds(r, a)

\* Two texts joined.
LEMMA JoinedInTwo ==
  ASSUME NEW T, NEW b \in Seq(T), NEW r \in Seq(T)
  PROVE  InTwo(b \o r, b, r)
<1>1. \A a, c : /\ Holds(b \o r, a) <=> Holds(b, a) \/ Holds(r, a)
                /\ HoldsInOrder(b \o r, a, c) <=>
                     HoldsInOrder(b, a, c) \/ HoldsInOrder(r, a, c) \/ (Holds(b, a) /\ Holds(r, c))
  BY HoldsOfJoined
<1> QED
  BY <1>1 DEF InTwo

\* Stripping the two changes nothing of this.
LEMMA StrippedInTwo ==
  ASSUME NEW T, NEW s, NEW b \in Seq(T), NEW r \in Seq(T), InTwo(s, b, r)
  PROVE  /\ Strip(b) \in Seq(T) /\ Strip(r) \in Seq(T)
         /\ InTwo(s, Strip(b), r) /\ InTwo(s, b, Strip(r)) /\ InTwo(s, Strip(b), Strip(r))
<1>1. /\ Strip(b) \in Seq(T) /\ PartOf(Strip(b), b)
      /\ \A a : Holds(b, a) /\ a # Blank => Holds(Strip(b), a)
  BY StripHolds
<1>2. /\ Strip(r) \in Seq(T) /\ PartOf(Strip(r), r)
      /\ \A a : Holds(r, a) /\ a # Blank => Holds(Strip(r), a)
  BY StripHolds
<1> DEFINE u == Strip(b)
           v == Strip(r)
<1>3. /\ \A a : Holds(u, a) => Holds(b, a)
      /\ \A a, c : HoldsInOrder(u, a, c) => HoldsInOrder(b, a, c)
      /\ \A a : Holds(b, a) /\ IsPiece(a) => Holds(u, a)
  BY <1>1 DEF PartOf, IsPiece
<1>4. /\ \A a : Holds(v, a) => Holds(r, a)
      /\ \A a, c : HoldsInOrder(v, a, c) => HoldsInOrder(r, a, c)
      /\ \A a : Holds(r, a) /\ IsPiece(a) => Holds(v, a)
  BY <1>2 DEF PartOf, IsPiece
<1> HIDE DEF u, v
<1>5. InTwo(s, u, r) /\ InTwo(s, b, v) /\ InTwo(s, u, v)
  BY <1>3, <1>4 DEF InTwo
<1> QED
  BY <1>1, <1>2, <1>5 DEF u, v

\* split('#' * n, 1) divides a text in two.
LEMMA DividedInTwo ==
  ASSUME NEW T, NEW s \in Seq(T), NEW n \in Nat \ {0}, Has(s, n)
  PROVE  /\ Before(s, n) \in Seq(T) /\ After(s, n) \in Seq(T)
         /\ InTwo(s, Before(s, n), After(s, n))
<1> DEFINE b == Before(s, n)
           r == After(s, n)
<1>1. /\ b \in Seq(T) /\ r \in Seq(T)
      /\ \A a, c : /\ Holds(b \o r, a) => Holds(s, a)
                   /\ HoldsInOrder(b \o r, a, c) => HoldsInOrder(s, a, c)
      /\ \A a : Holds(s, a) /\ a # Sep => Holds(b, a) \/ Holds(r, a)
  BY DividedText
<1> HIDE DEF b, r
<1>2. \A a, c : /\ Holds(b \o r, a) <=> Holds(b, a) \/ Holds(r, a)
                /\ HoldsInOrder(b \o r, a, c) <=>
                     HoldsInOrder(b, a, c) \/ HoldsInOrder(r, a, c) \/ (Holds(b, a) /\ Holds(r, c))
  BY <1>1, HoldsOfJoined
<1>3. InTwo(s, b, r)
  BY <1>1, <1>2 DEF InTwo, IsPiece
<1> QED
  BY <1>1, <1>3 DEF b, r

\* A text divided in two, one half of which is divided in two, is divided in three.
LEMMA TwiceInTwo ==
  ASSUME NEW s, NEW h, NEW t, NEW m, NEW r,
         \/ InTwo(s, h, t) /\ InTwo(t, m, r)
         \/ InTwo(s, t, r) /\ InTwo(t, h, m)
  PROVE  Divided(s, h, m, r)
BY DEF InTwo, Divided

\* Nothing is lost when a text is cut before a token.
LEMMA CutInTwo ==
  ASSUME NEW T, NEW s \in Seq(T), NEW k \in 1 .. Len(s)
  PROVE  InTwo(s, SubSeq(s, 1, k - 1), SubSeq(s, k, Len(s)))
<1> DEFINE b == SubSeq(s, 1, k - 1)
           r == SubSeq(s, k, Len(s))
<1>1. b \in Seq(T) /\ r \in Seq(T) /\ s = b \o r
  BY CutText
<1> HIDE DEF b, r
<1>2. InTwo(b \o r, b, r)
  BY <1>1, JoinedInTwo
<1> QED
  BY <1>1, <1>2 DEF b, r

\* Nor when both halves are stripped, or when everything is in one.
LEMMA CutAndStripped ==
  ASSUME NEW T, NEW s \in Seq(T), NEW k \in 1 .. Len(s)
  PROVE  Upto(s, k) \in Seq(T) /\ From(s, k) \in Seq(T) /\ InTwo(s, Upto(s, k), From(s, k))
<1> DEFINE b == SubSeq(s, 1, k - 1)
           r == SubSeq(s, k, Len(s))
<1>1. b \in Seq(T) /\ r \in Seq(T)
  BY CutText
<1>2. InTwo(s, b, r)
  BY CutInTwo
<1> HIDE DEF b, r
<1>3. Strip(b) \in Seq(T) /\ Strip(r) \in Seq(T) /\ InTwo(s, Strip(b), Strip(r))
  BY <1>1, <1>2, StrippedInTwo
<1> QED
  BY <1>3 DEF b, r, Upto, From

LEMMA Whole ==
  ASSUME NEW s
  PROVE  InTwo(s, s, << >>) /\ InTwo(s, << >>, s)
BY HoldsOfEmpty DEF InTwo

\* A text without a separator.
LEMMA NoSeparator ==
  ASSUME NEW T, NEW s \in Seq(T), ~Has(s, 1)
  PROVE  \A a : Holds(s, a) => a # Sep
<1>1. Len(s) \in Nat
  BY LenProperties
<1>2. ASSUME NEW i \in 1 .. Len(s) PROVE s[i] # Sep
  <2> SUFFICES ASSUME s[i] = Sep PROVE FALSE
    OBVIOUS
  <2>1. i + 1 - 1 = i /\ i <= Len(s) /\ \A j \in i .. i : j = i
    BY <1>1
  <2>2. SepsAt(s, 1, i)
    BY <2>1 DEF SepsAt
  <2> QED
    BY <2>2 DEF Has
<1> QED
  BY <1>2 DEF Holds

-----------------------------------------------------------------------------
(* The stages of parse_address: where the text is divided. *)

\* The locals of the code, for texts of tokens in T.
Locals(T) ==
  [house : Seq(T), moo : Seq(T), sub : Seq(T), dist : Seq(T), prov : Seq(T),
   rest : Seq(T), bound : BOOLEAN]

\* The locals after a split of the address.
LEMMA SplitIs ==
  ASSUME NEW T, NEW h \in Seq(T), NEW m \in Seq(T), NEW r \in Seq(T)
  PROVE  LET d == Split(h, m, r)
         IN  /\ d \in Locals(T) /\ d.house = h /\ d.moo = m /\ d.rest = r /\ d.bound
             /\ d.sub = << >> /\ d.dist = << >> /\ d.prov = << >>
<1>1. << >> \in Seq(T)
  BY EmptySeq
<1> QED
  BY <1>1 DEF Split, Locals

\* d is made by dividing s.
IsDivided(d, s, T) ==
  \E h, m, r \in Seq(T) : d = Split(h, m, r) /\ Divided(s, h, m, r)

LEMMA SplitDivides ==
  ASSUME NEW T, NEW s, NEW h \in Seq(T), NEW m \in Seq(T), NEW r \in Seq(T),
         NEW d, d = Split(h, m, r), Divided(s, h, m, r)
  PROVE  IsDivided(d, s, T)
BY DEF IsDivided

\* gui_reader.py:120-144 divides the address.
LEMMA SplitAtThreeDivides ==
  ASSUME NEW T, NEW s \in Seq(T), Has(s, 3)
  PROVE  IsDivided(SplitAtThree(s), s, T)
<1> DEFINE front == Before(s, 3)
           house == Strip(front)
           tail == After(s, 3)
           marks == BlanksBeforeMark(tail)
           k == FirstOf(marks)
<1>1. house \in Seq(T) /\ tail \in Seq(T) /\ InTwo(s, house, tail)
  <2>1. front \in Seq(T) /\ tail \in Seq(T) /\ InTwo(s, front, tail)
    BY DividedInTwo
  <2> HIDE DEF front, tail
  <2> QED
    BY <2>1, StrippedInTwo
<1>2. SplitAtThree(s) =
        CASE Has(tail, 2) -> Split(house, Strip(Before(tail, 2)), After(tail, 2))
          [] ~Has(tail, 2) /\ marks # {} -> Split(house, Upto(tail, k), From(tail, k))
          [] ~Has(tail, 2) /\ marks = {} /\ Has(tail, 1) ->
                Split(house, Strip(Before(tail, 1)), After(tail, 1))
          [] OTHER -> Split(house, Strip(tail), << >>)
  BY DEF SplitAtThree
<1> HIDE DEF house, tail, front
<1>3. ASSUME NEW n \in {1, 2}, Has(tail, n), SplitAtThree(s) = Split(house, Strip(Before(tail, n)), After(tail, n))
      PROVE  IsDivided(SplitAtThree(s), s, T)
  <2> DEFINE b == Before(tail, n)
             r == After(tail, n)
  <2>1. b \in Seq(T) /\ r \in Seq(T) /\ InTwo(tail, b, r)
    BY <1>1, <1>3, DividedInTwo
  <2>2. SplitAtThree(s) = Split(house, Strip(b), r)
    BY <1>3
  <2> HIDE DEF b, r
  <2>3. Strip(b) \in Seq(T) /\ InTwo(tail, Strip(b), r)
    BY <2>1, StrippedInTwo
  <2>4. Divided(s, house, Strip(b), r)
    BY <1>1, <2>3, TwiceInTwo
  <2> QED
    BY <1>1, <2>1, <2>2, <2>3, <2>4, SplitDivides
<1>4. CASE Has(tail, 2)
  <2>1. SplitAtThree(s) = Split(house, Strip(Before(tail, 2)), After(tail, 2))
    BY <1>2, <1>4
  <2> QED
    BY <1>3, <1>4, <2>1
<1>5. CASE ~Has(tail, 2) /\ marks # {}
  <2>1. SplitAtThree(s) = Split(house, Upto(tail, k), From(tail, k))
    <3> HIDE DEF marks, k
    <3> QED
      BY <1>2, <1>5
  <2>2. k \in 1 .. Len(tail)
    <3>1. DOMAIN tail = 1 .. Len(tail) /\ Len(tail) \in Nat
      BY <1>1, LenProperties
    <3>2. marks \in SUBSET Nat /\ \A i \in marks : i \in 1 .. Len(tail)
      BY <3>1 DEF BlanksBeforeMark
    <3> HIDE DEF marks
    <3>3. k \in marks
      BY <1>5, <3>2, FirstOfIs
    <3> QED
      BY <3>2, <3>3
  <2> HIDE DEF k
  <2> DEFINE m == Upto(tail, k)
             r == From(tail, k)
  <2>3. m \in Seq(T) /\ r \in Seq(T) /\ InTwo(tail, m, r)
    BY <1>1, <2>2, CutAndStripped
  <2>4. SplitAtThree(s) = Split(house, m, r)
    BY <2>1
  <2> HIDE DEF m, r
  <2>5. Divided(s, house, m, r)
    BY <1>1, <2>3, TwiceInTwo
  <2> QED
    BY <1>1, <2>3, <2>4, <2>5, SplitDivides
<1>6. CASE ~Has(tail, 2) /\ marks = {} /\ Has(tail, 1)
  <2>1. SplitAtThree(s) = Split(house, Strip(Before(tail, 1)), After(tail, 1))
    <3> HIDE DEF marks, k
    <3> QED
      BY <1>2, <1>6
  <2> QED
    BY <1>3, <1>6, <2>1
<1>7. CASE ~Has(tail, 2) /\ marks = {} /\ ~Has(tail, 1)
  <2>1. SplitAtThree(s) = Split(house, Strip(tail), << >>)
    <3> HIDE DEF marks, k
    <3> QED
      BY <1>2, <1>7
  <2>2. << >> \in Seq(T) /\ InTwo(tail, tail, << >>)
    BY EmptySeq, Whole
  <2>3. Strip(tail) \in Seq(T) /\ InTwo(tail, Strip(tail), << >>)
    BY <1>1, <2>2, StrippedInTwo
  <2>4. Divided(s, house, Strip(tail), << >>)
    BY <1>1, <2>3, TwiceInTwo
  <2> QED
    BY <1>1, <2>1, <2>2, <2>3, <2>4, SplitDivides
<1> QED
  BY <1>4, <1>5, <1>6, <1>7

\* gui_reader.py:146-158 divides the address.
LEMMA SplitAtTwoDivides ==
  ASSUME NEW T, NEW s \in Seq(T), Has(s, 2)
  PROVE  IsDivided(SplitAtTwo(s), s, T)
<1> DEFINE front == Before(s, 2)
           rest == After(s, 2)
<1>1. front \in Seq(T) /\ rest \in Seq(T) /\ InTwo(s, front, rest)
  BY DividedInTwo
<1>2. SplitAtTwo(s) =
        IF Has(front, 1) THEN Split(Strip(Before(front, 1)), Strip(After(front, 1)), rest)
                         ELSE Split(Strip(front), << >>, rest)
  BY DEF SplitAtTwo
<1> HIDE DEF front, rest
<1>3. CASE Has(front, 1)
  <2> DEFINE h == Before(front, 1)
             m == After(front, 1)
  <2>1. SplitAtTwo(s) = Split(Strip(h), Strip(m), rest)
    BY <1>2, <1>3
  <2>2. h \in Seq(T) /\ m \in Seq(T) /\ InTwo(front, h, m)
    BY <1>1, <1>3, DividedInTwo
  <2> HIDE DEF h, m
  <2>3. Strip(h) \in Seq(T) /\ Strip(m) \in Seq(T) /\ InTwo(front, Strip(h), Strip(m))
    BY <2>2, StrippedInTwo
  <2>4. Divided(s, Strip(h), Strip(m), rest)
    BY <1>1, <2>3, TwiceInTwo
  <2> QED
    BY <1>1, <2>1, <2>3, <2>4, SplitDivides
<1>4. CASE ~Has(front, 1)
  <2>1. SplitAtTwo(s) = Split(Strip(front), << >>, rest)
    BY <1>2, <1>4
  <2>2. << >> \in Seq(T) /\ InTwo(front, front, << >>)
    BY EmptySeq, Whole
  <2>3. Strip(front) \in Seq(T) /\ InTwo(front, Strip(front), << >>)
    BY <1>1, <2>2, StrippedInTwo
  <2>4. Divided(s, Strip(front), << >>, rest)
    BY <1>1, <2>3, TwiceInTwo
  <2> QED
    BY <1>1, <2>1, <2>2, <2>3, <2>4, SplitDivides
<1> QED
  BY <1>3, <1>4

\* Three separators in a row are two.
LEMMA ThreeAreTwo ==
  ASSUME NEW T, NEW s \in Seq(T), Has(s, 3)
  PROVE  Has(s, 2)
<1>1. PICK i \in 1 .. Len(s) : SepsAt(s, 3, i)
  BY DEF Has
<1>2. Len(s) \in Nat /\ i + 3 - 1 <= Len(s) /\ \A j \in i .. i + 3 - 1 : s[j] = Sep
  BY <1>1, LenProperties DEF SepsAt
<1>3. i + 2 - 1 <= Len(s) /\ \A j \in i .. i + 2 - 1 : j \in i .. i + 3 - 1
  BY <1>2
<1>4. SepsAt(s, 2, i)
  BY <1>2, <1>3 DEF SepsAt
<1> QED
  BY <1>4 DEF Has

\* What the first stage makes of an address, if it leaves rest bound.
LEMMA DivideDivides ==
  ASSUME NEW T, NEW s \in Seq(T), Divide(s).bound
  PROVE  IsDivided(Divide(s), s, T)
<1>1. CASE Has(s, 3)
  <2>1. Divide(s) = SplitAtThree(s)
    BY <1>1, ThreeAreTwo DEF Divide
  <2> QED
    BY <1>1, <2>1, SplitAtThreeDivides
<1>2. CASE Has(s, 2) /\ ~Has(s, 3)
  <2>1. Divide(s) = SplitAtTwo(s)
    BY <1>2 DEF Divide
  <2> QED
    BY <1>2, <2>1, SplitAtTwoDivides
<1>3. CASE Has(s, 1) /\ ~Has(s, 2) /\ ~Has(s, 3)
  <2>1. Divide(s) = SplitAtOne(s)
    BY <1>3 DEF Divide
  <2>2. SplitAtOne(s).bound = FALSE
    BY DEF SplitAtOne
  <2> QED
    BY <2>1, <2>2
<1>4. CASE ~Has(s, 1) /\ ~Has(s, 2) /\ ~Has(s, 3)
  <2>1. Divide(s) = Split(<< >>, << >>, s)
    BY <1>4 DEF Divide
  <2>2. << >> \in Seq(T)
    BY EmptySeq
  <2>3. Divided(s, << >>, << >>, s)
    BY TwiceInTwo, Whole
  <2> QED
    BY <2>1, <2>2, <2>3, SplitDivides
<1> QED
  BY <1>1, <1>2, <1>3, <1>4

-----------------------------------------------------------------------------
(* The stages of parse_address: where the rest goes. *)

\* The five parts of an address, one after the other.
Five(a, b, c, d, e) == a \o b \o c \o d \o e

\* What the five parts of an address hold when joined, and in which order.
LEMMA FiveHold ==
  ASSUME NEW T, NEW a \in Seq(T), NEW b \in Seq(T), NEW c \in Seq(T), NEW d \in Seq(T), NEW e \in Seq(T)
  PROVE  /\ Five(a, b, c, d, e) \in Seq(T)
         /\ \A x : Holds(Five(a, b, c, d, e), x) <=>
                \/ Holds(a, x) \/ Holds(b, x) \/ Holds(c, x) \/ Holds(d, x) \/ Holds(e, x)
         /\ \A x, y : HoldsInOrder(Five(a, b, c, d, e), x, y) <=>
                \/ HoldsInOrder(a, x, y) \/ HoldsInOrder(b, x, y) \/ HoldsInOrder(c, x, y)
                \/ HoldsInOrder(d, x, y) \/ HoldsInOrder(e, x, y)
                \/ Holds(a, x) /\ (Holds(b, y) \/ Holds(c, y) \/ Holds(d, y) \/ Holds(e, y))
                \/ Holds(b, x) /\ (Holds(c, y) \/ Holds(d, y) \/ Holds(e, y))
                \/ Holds(c, x) /\ (Holds(d, y) \/ Holds(e, y))
                \/ Holds(d, x) /\ Holds(e, y)
         /\ Core(Five(a, b, c, d, e)) = Five(Core(a), Core(b), Core(c), Core(d), Core(e))
<1> DEFINE p == a \o b
           q == p \o c
           r == q \o d
           f == r \o e
<1>1. p \in Seq(T)
  BY ConcatProperties
<1>2. \A x, y : /\ Holds(p, x) <=> Holds(a, x) \/ Holds(b, x)
                /\ HoldsInOrder(p, x, y) <=>
                     HoldsInOrder(a, x, y) \/ HoldsInOrder(b, x, y) \/ (Holds(a, x) /\ Holds(b, y))
  BY HoldsOfJoined
<1>3. Core(p) = Core(a) \o Core(b)
  BY CoreJoined
<1> HIDE DEF p
<1>4. q \in Seq(T)
  BY <1>1, ConcatProperties
<1>5. \A x, y : /\ Holds(q, x) <=> Holds(p, x) \/ Holds(c, x)
                /\ HoldsInOrder(q, x, y) <=>
                     HoldsInOrder(p, x, y) \/ HoldsInOrder(c, x, y) \/ (Holds(p, x) /\ Holds(c, y))
  BY <1>1, HoldsOfJoined
<1>6. Core(q) = Core(p) \o Core(c)
  BY <1>1, CoreJoined
<1> HIDE DEF q
<1>7. r \in Seq(T)
  BY <1>4, ConcatProperties
<1>8. \A x, y : /\ Holds(r, x) <=> Holds(q, x) \/ Holds(d, x)
                /\ HoldsInOrder(r, x, y) <=>
                     HoldsInOrder(q, x, y) \/ HoldsInOrder(d, x, y) \/ (Holds(q, x) /\ Holds(d, y))
  BY <1>4, HoldsOfJoined
<1>9. Core(r) = Core(q) \o Core(d)
  BY <1>4, CoreJoined
<1> HIDE DEF r
<1>10. f \in Seq(T)
  BY <1>7, ConcatProperties
<1>11. \A x, y : /\ Holds(f, x) <=> Holds(r, x) \/ Holds(e, x)
                 /\ HoldsInOrder(f, x, y) <=>
                      HoldsInOrder(r, x, y) \/ HoldsInOrder(e, x, y) \/ (Holds(r, x) /\ Holds(e, y))
  BY <1>7, HoldsOfJoined
<1>12. Core(f) = Core(r) \o Core(e)
  BY <1>7, CoreJoined
<1>13. Five(a, b, c, d, e) = f
  BY DEF Five, p, q, r
<1> HIDE DEF f
<1>14. \A x : Holds(f, x) <=>
         \/ Holds(a, x) \/ Holds(b, x) \/ Holds(c, x) \/ Holds(d, x) \/ Holds(e, x)
  BY <1>2, <1>5, <1>8, <1>11
<1>15. ASSUME NEW x, NEW y
       PROVE HoldsInOrder(f, x, y) <=>
                \/ HoldsInOrder(a, x, y) \/ HoldsInOrder(b, x, y) \/ HoldsInOrder(c, x, y)
                \/ HoldsInOrder(d, x, y) \/ HoldsInOrder(e, x, y)
                \/ Holds(a, x) /\ (Holds(b, y) \/ Holds(c, y) \/ Holds(d, y) \/ Holds(e, y))
                \/ Holds(b, x) /\ (Holds(c, y) \/ Holds(d, y) \/ Holds(e, y))
                \/ Holds(c, x) /\ (Holds(d, y) \/ Holds(e, y))
                \/ Holds(d, x) /\ Holds(e, y)
  <2>1. HoldsInOrder(p, x, y) <=>
          HoldsInOrder(a, x, y) \/ HoldsInOrder(b, x, y) \/ (Holds(a, x) /\ Holds(b, y))
    BY <1>2
  <2>2. HoldsInOrder(q, x, y) <=>
          HoldsInOrder(p, x, y) \/ HoldsInOrder(c, x, y) \/ (Holds(p, x) /\ Holds(c, y))
    BY <1>5
  <2>3. HoldsInOrder(r, x, y) <=>
          HoldsInOrder(q, x, y) \/ HoldsInOrder(d, x, y) \/ (Holds(q, x) /\ Holds(d, y))
    BY <1>8
  <2>4. HoldsInOrder(f, x, y) <=>
          HoldsInOrder(r, x, y) \/ HoldsInOrder(e, x, y) \/ (Holds(r, x) /\ Holds(e, y))
    BY <1>11
  <2>5. /\ Holds(p, x) <=> Holds(a, x) \/ Holds(b, x)
        /\ Holds(q, x) <=> Holds(p, x) \/ Holds(c, x)
        /\ Holds(r, x) <=> Holds(q, x) \/ Holds(d, x)
    BY <1>2, <1>5, <1>8
  <2> QED
    BY <2>1, <2>2, <2>3, <2>4, <2>5
<1>16. Core(f) = Five(Core(a), Core(b), Core(c), Core(d), Core(e))
  BY <1>3, <1>6, <1>9, <1>12 DEF Five
<1> QED
  BY <1>10, <1>13, <1>14, <1>15, <1>16

\* The stripped pieces of R: they hold the pieces of its words, in their order, and none
\* of them that is not empty has blanks alone.
LEMMA StrippedPieces ==
  ASSUME NEW T, NEW R \in Seq(T)
  PROVE  LET S == Stripped(Pieces(R))
         IN  /\ S \in Seq(Seq(T \ {Sep}))
             /\ Len(S) = Len(Pieces(R))
             /\ \A p \in 1 .. Len(S) : S[p] = Strip(Pieces(R)[p])
             /\ \A p \in 1 .. Len(S) : PartOf(S[p], R) /\ (S[p] # << >> => HasWord(S[p]))
             /\ \A p, q \in 1 .. Len(S) : \A a, b :
                   p < q /\ Holds(S[p], a) /\ Holds(S[q], b) => HoldsInOrder(R, a, b)
             /\ \A a : Holds(R, a) /\ IsPiece(a) => \E p \in 1 .. Len(S) : Holds(S[p], a)
<1> DEFINE U == T \ {Sep}
           P == Pieces(R)
           S == Stripped(P)
           N == Len(P)
<1>1. P \in Seq(Seq(U)) /\ Len(P) \in Nat /\ InPieces(P, R)
  <2>1. P \in SomePieces(U) /\ InPieces(P, R)
    BY PiecesClean, PiecesHold
  <2> HIDE DEF U, P
  <2> QED
    BY <2>1, LenProperties DEF SomePieces
<1> HIDE DEF P
<1>2. DOMAIN P = 1 .. N /\ N \in Nat /\ \A p \in 1 .. N : P[p] \in Seq(U)
  <2> HIDE DEF U
  <2> QED
    BY <1>1, LenProperties, ElementOfSeq
<1>3. \A p \in 1 .. N : S[p] = Strip(P[p]) /\ S[p] \in Seq(U)
  <2>1. \A p \in 1 .. N : S[p] = Strip(P[p])
    BY <1>2 DEF Stripped
  <2> HIDE DEF U, S
  <2>2. \A p \in 1 .. N : Strip(P[p]) \in Seq(U)
    BY <1>2, StripHolds
  <2> QED
    BY <2>1, <2>2
<1>4. S \in Seq(Seq(U)) /\ Len(S) = N
  <2> HIDE DEF U
  <2>1. S \in [1 .. N -> Seq(U)]
    BY <1>2, <1>3 DEF Stripped
  <2>2. S \in Seq(Seq(U))
    BY <1>2, <2>1, SeqDef
  <2>3. DOMAIN S = 1 .. Len(S) /\ Len(S) \in Nat /\ DOMAIN S = 1 .. N
    BY <1>2, <2>2, LenProperties DEF Stripped
  <2>4. \A n, m \in Nat : 1 .. n = 1 .. m => n = m
    OBVIOUS
  <2> QED
    BY <1>2, <2>2, <2>3, <2>4
<1> HIDE DEF S, N
<1>5. ASSUME NEW p \in 1 .. N
      PROVE  /\ PartOf(S[p], P[p]) /\ (S[p] # << >> => HasWord(S[p]))
             /\ \A a : Holds(P[p], a) /\ a # Blank => Holds(S[p], a)
  <2> DEFINE v == P[p]
  <2>1. v \in Seq(U)
    BY <1>2
  <2>2. S[p] = Strip(v)
    BY <1>3
  <2> HIDE DEF v, U
  <2>3. /\ PartOf(Strip(v), v) /\ \A a : Holds(v, a) /\ a # Blank => Holds(Strip(v), a)
        /\ Strip(v) = << >> <=> \A a : Holds(v, a) => a = Blank
    BY <2>1, StripHolds, StripEmpty
  <2>4. ASSUME Strip(v) # << >> PROVE HasWord(Strip(v))
    <3>1. PICK a : Holds(v, a) /\ a # Blank
      BY <2>3, <2>4
    <3>2. a # Sep
      <4>1. \A k \in 1 .. Len(v) : v[k] \in U
        BY <2>1, ElementOfSeq
      <4> QED
        BY <3>1, <4>1 DEF Holds, U
    <3> QED
      BY <2>3, <3>1, <3>2 DEF HasWord, IsPiece
  <2> QED
    BY <2>2, <2>3, <2>4 DEF v
<1>6. \A p \in 1 .. N : PartOf(S[p], R)
  <2> TAKE p \in 1 .. N
  <2>1. PartOf(P[p], R)
    BY <1>1 DEF InPieces, N
  <2> QED
    BY <1>5, <2>1 DEF PartOf
<1>7. \A p, q \in 1 .. N : \A a, b :
        p < q /\ Holds(S[p], a) /\ Holds(S[q], b) => HoldsInOrder(R, a, b)
  <2> TAKE p, q \in 1 .. N
  <2> TAKE a, b
  <2>1. (Holds(S[p], a) => Holds(P[p], a)) /\ (Holds(S[q], b) => Holds(P[q], b))
    BY <1>5 DEF PartOf
  <2> QED
    BY <1>1, <2>1 DEF InPieces, N
<1>8. ASSUME NEW a, Holds(R, a), IsPiece(a) PROVE \E p \in 1 .. N : Holds(S[p], a)
  <2>1. PICK p \in 1 .. N : Holds(P[p], a)
    BY <1>1, <1>8 DEF InPieces, N, IsPiece
  <2> QED
    BY <1>5, <1>8, <2>1 DEF IsPiece
<1> QED
  BY <1>3, <1>4, <1>5, <1>6, <1>7, <1>8 DEF S, P, U, N

\* The rest is shared out: subdistrict, district and province have no separator, hold a
\* word if they are filled, are filled in this order, and come from the rest in its
\* order; a word in the rest gives a subdistrict.
Shared(d, e, U) ==
  /\ e.sub \in Seq(U) /\ e.dist \in Seq(U) /\ e.prov \in Seq(U)
  /\ (e.prov # << >> => e.dist # << >>) /\ (e.dist # << >> => e.sub # << >>)
  /\ (e.sub # << >> => HasWord(e.sub)) /\ (e.dist # << >> => HasWord(e.dist))
  /\ (e.prov # << >> => HasWord(e.prov))
  /\ HasWord(d.rest) => e.sub # << >>
  /\ \A a : Holds(e.sub, a) \/ Holds(e.dist, a) \/ Holds(e.prov, a) => Holds(d.rest, a)
  /\ \A a, b :
        \/ HoldsInOrder(e.sub, a, b) \/ HoldsInOrder(e.dist, a, b) \/ HoldsInOrder(e.prov, a, b)
        \/ Holds(e.sub, a) /\ (Holds(e.dist, b) \/ Holds(e.prov, b))
        \/ Holds(e.dist, a) /\ Holds(e.prov, b)
        => HoldsInOrder(d.rest, a, b)

\* gui_reader.py:177-189 gives the pieces of the rest to the parts, from the subdistrict on.
LEMMA ShareRestShares ==
  ASSUME NEW T, NEW d \in Locals(T), d.sub = << >>, d.dist = << >>, d.prov = << >>
  PROVE  LET e == ShareRest(d)
         IN  /\ e \in Locals(T) /\ e.house = d.house /\ e.moo = d.moo
             /\ Shared(d, e, T \ {Sep})
<1> DEFINE U == T \ {Sep}
           R == d.rest
           P == Stripped(Pieces(R))
           Q == Without(P, << >>)
           N == Len(Q)
           e == ShareRest(d)
<1>1. R \in Seq(T)
  BY DEF Locals
<1>2. /\ P \in Seq(Seq(U)) /\ Len(P) \in Nat
      /\ \A p \in 1 .. Len(P) : PartOf(P[p], R) /\ (P[p] # << >> => HasWord(P[p]))
      /\ \A p, q \in 1 .. Len(P) : \A a, b :
            p < q /\ Holds(P[p], a) /\ Holds(P[q], b) => HoldsInOrder(R, a, b)
      /\ \A a : Holds(R, a) /\ IsPiece(a) => \E p \in 1 .. Len(P) : Holds(P[p], a)
  <2> HIDE DEF R
  <2>1. /\ P \in Seq(Seq(T \ {Sep}))
        /\ \A p \in 1 .. Len(P) : PartOf(P[p], R) /\ (P[p] # << >> => HasWord(P[p]))
        /\ \A p, q \in 1 .. Len(P) : \A a, b :
              p < q /\ Holds(P[p], a) /\ Holds(P[q], b) => HoldsInOrder(R, a, b)
        /\ \A a : Holds(R, a) /\ IsPiece(a) => \E p \in 1 .. Len(P) : Holds(P[p], a)
    BY <1>1, StrippedPieces
  <2> HIDE DEF P
  <2> QED
    BY <2>1, LenProperties
<1>3. /\ Q \in Seq(Seq(U) \ {<< >>})
      /\ \A v : Holds(Q, v) <=> Holds(P, v) /\ v # << >>
      /\ \A v, w : HoldsInOrder(Q, v, w) <=> HoldsInOrder(P, v, w) /\ v # << >> /\ w # << >>
  <2> HIDE DEF U, P
  <2> QED
    BY <1>2, WithoutHolds, WithoutRange
<1>4. e = [d EXCEPT !.sub = IF Q = << >> THEN << >> ELSE Q[1],
                    !.dist = IF N >= 2 THEN Q[2] ELSE << >>,
                    !.prov = IF N >= 3 THEN Q[3] ELSE << >>]
  BY DEF ShareRest, Remaining
<1> DEFINE q1 == IF Q = << >> THEN << >> ELSE Q[1]
           q2 == IF N >= 2 THEN Q[2] ELSE << >>
           q3 == IF N >= 3 THEN Q[3] ELSE << >>
<1>5. N \in Nat /\ (Q = << >> <=> N = 0) /\ \A i \in 1 .. N : Q[i] \in Seq(U) /\ Q[i] # << >>
  <2> HIDE DEF U, Q
  <2>1. \A i \in 1 .. Len(Q) : Q[i] \in Seq(U) \ {<< >>}
    BY <1>3, ElementOfSeq
  <2> QED
    BY <1>3, <2>1, LenProperties, EmptySeq
<1>6. /\ e.sub = q1 /\ e.dist = q2 /\ e.prov = q3
      /\ e.house = d.house /\ e.moo = d.moo /\ e.rest = R /\ e.bound = d.bound
      /\ e = [d EXCEPT !.sub = q1, !.dist = q2, !.prov = q3]
  <2> HIDE DEF e, Q, N
  <2> QED
    BY <1>4 DEF Locals
<1> HIDE DEF e, Q, P, N, R
<1>7. /\ q1 \in Seq(U) /\ q2 \in Seq(U) /\ q3 \in Seq(U)
      /\ (N >= 1 <=> q1 # << >>) /\ (N >= 2 <=> q2 # << >>) /\ (N >= 3 <=> q3 # << >>)
  <2>1. << >> \in Seq(U)
    BY EmptySeq
  <2>2. /\ N >= 1 => 1 \in 1 .. N
        /\ N >= 2 => 2 \in 1 .. N
        /\ N >= 3 => 3 \in 1 .. N
    BY <1>5
  <2>3. q1 \in Seq(U) /\ (N >= 1 <=> q1 # << >>)
    <3>1. CASE N >= 1
      BY <1>5, <2>2, <3>1
    <3>2. CASE ~(N >= 1)
      BY <1>5, <2>1, <3>2
    <3> QED
      BY <3>1, <3>2
  <2>4. q2 \in Seq(U) /\ (N >= 2 <=> q2 # << >>)
    <3>1. CASE N >= 2
      BY <1>5, <2>2, <3>1
    <3>2. CASE ~(N >= 2)
      BY <1>5, <2>1, <3>2
    <3> QED
      BY <3>1, <3>2
  <2>5. q3 \in Seq(U) /\ (N >= 3 <=> q3 # << >>)
    <3>1. CASE N >= 3
      BY <1>5, <2>2, <3>1
    <3>2. CASE ~(N >= 3)
      BY <1>5, <2>1, <3>2
    <3> QED
      BY <3>1, <3>2
  <2> QED
    BY <2>3, <2>4, <2>5
<1>8. /\ q1 # << >> => Holds(P, q1)
      /\ q2 # << >> => Holds(P, q2) /\ HoldsInOrder(P, q1, q2)
      /\ q3 # << >> => Holds(P, q3) /\ HoldsInOrder(P, q1, q3) /\ HoldsInOrder(P, q2, q3)
  <2>1. N >= 1 => q1 = Q[1] /\ 1 \in 1 .. N
    BY <1>5
  <2>2. N >= 2 => q2 = Q[2] /\ 2 \in 1 .. N /\ N >= 1
    BY <1>5
  <2>3. N >= 3 => q3 = Q[3] /\ 3 \in 1 .. N /\ N >= 2
    BY <1>5
  <2>4. \A i \in 1 .. N : Holds(Q, Q[i])
    BY DEF Holds, N
  <2>5. \A i, j \in 1 .. N : i < j => HoldsInOrder(Q, Q[i], Q[j])
    BY DEF HoldsInOrder, N
  <2> HIDE DEF q1, q2, q3
  <2>6. N >= 1 => Holds(Q, q1)
    BY <2>1, <2>4
  <2>7. N >= 2 => Holds(Q, q2) /\ HoldsInOrder(Q, q1, q2)
    BY <2>1, <2>2, <2>4, <2>5
  <2>8. N >= 3 => Holds(Q, q3) /\ HoldsInOrder(Q, q1, q3) /\ HoldsInOrder(Q, q2, q3)
    BY <2>1, <2>2, <2>3, <2>4, <2>5
  <2> QED
    BY <1>3, <1>7, <2>6, <2>7, <2>8
<1>9. /\ \A v : Holds(P, v) => PartOf(v, R)
      /\ \A v, w, a, b : HoldsInOrder(P, v, w) /\ Holds(v, a) /\ Holds(w, b) => HoldsInOrder(R, a, b)
      /\ \A a : Holds(R, a) /\ IsPiece(a) => \E v : Holds(P, v) /\ Holds(v, a)
      /\ \A v : Holds(P, v) /\ v # << >> => HasWord(v)
  <2>1. \A v : Holds(P, v) => PartOf(v, R)
    BY <1>2 DEF Holds
  <2>2. ASSUME NEW v, NEW w, NEW a, NEW b, HoldsInOrder(P, v, w), Holds(v, a), Holds(w, b)
        PROVE  HoldsInOrder(R, a, b)
    <3>1. PICK k, l \in 1 .. Len(P) : k < l /\ P[k] = v /\ P[l] = w
      BY <2>2 DEF HoldsInOrder
    <3> QED
      BY <1>2, <2>2, <3>1
  <2>3. ASSUME NEW a, Holds(R, a), IsPiece(a) PROVE \E v : Holds(P, v) /\ Holds(v, a)
    <3>1. PICK p \in 1 .. Len(P) : Holds(P[p], a)
      BY <1>2, <2>3
    <3>2. Holds(P, P[p])
      BY DEF Holds
    <3> QED
      BY <3>1, <3>2
  <2>4. \A v : Holds(P, v) /\ v # << >> => HasWord(v)
    BY <1>2 DEF Holds
  <2> QED
    BY <2>1, <2>2, <2>3, <2>4
<1>10. \A a, b : ~Holds(<< >>, a) /\ ~HoldsInOrder(<< >>, a, b)
  <2>1. Len(<< >>) = 0
    BY EmptySeq
  <2> QED
    BY <2>1 DEF Holds, HoldsInOrder
<1> HIDE DEF q1, q2, q3
<1>11. HasWord(R) => q1 # << >>
  <2> SUFFICES ASSUME NEW a, Holds(R, a), IsPiece(a) PROVE q1 # << >>
    BY DEF HasWord
  <2>1. PICK v : Holds(P, v) /\ Holds(v, a)
    BY <1>9
  <2>2. v # << >>
    BY <1>10, <2>1
  <2>3. Holds(Q, v)
    BY <1>3, <2>1, <2>2
  <2>4. N >= 1
    BY <1>5, <2>3 DEF Holds, N
  <2> QED
    BY <1>7, <2>4
<1>12. PartOf(q1, R) /\ PartOf(q2, R) /\ PartOf(q3, R)
  <2>1. PartOf(<< >>, R)
    BY <1>10 DEF PartOf
  <2> QED
    BY <1>8, <1>9, <2>1
<1>13. \A a, b : /\ Holds(q1, a) /\ Holds(q2, b) => HoldsInOrder(R, a, b)
                 /\ Holds(q1, a) /\ Holds(q3, b) => HoldsInOrder(R, a, b)
                 /\ Holds(q2, a) /\ Holds(q3, b) => HoldsInOrder(R, a, b)
  <2> TAKE a, b
  <2>1. Holds(q2, b) => q2 # << >>
    BY <1>10
  <2>2. Holds(q3, b) => q3 # << >>
    BY <1>10
  <2> QED
    BY <1>8, <1>9, <2>1, <2>2
<1>14. Shared(d, e, U)
  <2>1. (q3 # << >> => q2 # << >>) /\ (q2 # << >> => q1 # << >>)
    BY <1>5, <1>7
  <2>2. \A a : Holds(q1, a) \/ Holds(q2, a) \/ Holds(q3, a) => Holds(R, a)
    BY <1>12 DEF PartOf
  <2>3. \A a, b :
          \/ HoldsInOrder(q1, a, b) \/ HoldsInOrder(q2, a, b) \/ HoldsInOrder(q3, a, b)
          \/ Holds(q1, a) /\ (Holds(q2, b) \/ Holds(q3, b))
          \/ Holds(q2, a) /\ Holds(q3, b)
          => HoldsInOrder(R, a, b)
    <3> TAKE a, b
    <3>1. /\ HoldsInOrder(q1, a, b) => HoldsInOrder(R, a, b)
          /\ HoldsInOrder(q2, a, b) => HoldsInOrder(R, a, b)
          /\ HoldsInOrder(q3, a, b) => HoldsInOrder(R, a, b)
      BY <1>12 DEF PartOf
    <3> QED
      BY <1>13, <3>1
  <2>4. /\ (q1 # << >> => HasWord(q1)) /\ (q2 # << >> => HasWord(q2))
        /\ (q3 # << >> => HasWord(q3))
    BY <1>8, <1>9
  <2> HIDE DEF U
  <2> QED
    BY <1>6, <1>7, <1>11, <2>1, <2>2, <2>3, <2>4 DEF Shared, R
<1>15. e \in Locals(T)
  <2>1. q1 \in Seq(T) /\ q2 \in Seq(T) /\ q3 \in Seq(T)
    <3>1. U \subseteq T
      OBVIOUS
    <3> HIDE DEF U
    <3> QED
      BY <1>7, <3>1, SeqMonotonic
  <2> QED
    BY <1>6, <2>1 DEF Locals
<1> QED
  BY <1>6, <1>14, <1>15 DEF e, U, R

\* The parts hold tokens of s in its order, each in one part alone.
FiveIn(h, m, u, i, p, s) ==
  /\ \A a : Holds(h, a) \/ Holds(m, a) \/ Holds(u, a) \/ Holds(i, a) \/ Holds(p, a) => Holds(s, a)
  /\ \A a, b :
        \/ HoldsInOrder(h, a, b) \/ HoldsInOrder(m, a, b) \/ HoldsInOrder(u, a, b)
        \/ HoldsInOrder(i, a, b) \/ HoldsInOrder(p, a, b)
        \/ Holds(h, a) /\ (Holds(m, b) \/ Holds(u, b) \/ Holds(i, b) \/ Holds(p, b))
        \/ Holds(m, a) /\ (Holds(u, b) \/ Holds(i, b) \/ Holds(p, b))
        \/ Holds(u, a) /\ (Holds(i, b) \/ Holds(p, b))
        \/ Holds(i, a) /\ Holds(p, b)
        => HoldsInOrder(s, a, b)

\* What holds of the locals from the second stage on: the parts come from the text in
\* its order, and the last three are filled in their order, and never with blanks alone.
Parted(d, s, T) ==
  /\ d \in Locals(T)
  /\ FiveIn(d.house, d.moo, d.sub, d.dist, d.prov, s)
  /\ (d.prov # << >> => d.dist # << >>) /\ (d.dist # << >> => d.sub # << >>)
  /\ (d.sub # << >> => HasWord(d.sub)) /\ (d.dist # << >> => HasWord(d.dist))
  /\ (d.prov # << >> => HasWord(d.prov))

\* A text that has a word fills one of the first three parts with one.
WordsKept(d, s) ==
  HasWord(s) => HasWord(d.house) \/ HasWord(d.moo) \/ HasWord(d.sub)

\* No village of blanks and separators alone; one that is cut off before its first word
\* leaves a subdistrict.
VillageHasWord(d) == d.moo # << >> => HasWord(d.moo) \/ HasWord(d.sub)

\* Once the rest is shared out, the parts are parts of the address.
LEMMA ShareRestParts ==
  ASSUME NEW T, NEW s \in Seq(T), NEW d, IsDivided(d, s, T)
  PROVE  /\ Parted(ShareRest(d), s, T) /\ WordsKept(ShareRest(d), s)
         /\ ShareRest(d).house = d.house /\ ShareRest(d).moo = d.moo
<1> DEFINE e == ShareRest(d)
           U == T \ {Sep}
<1>1. PICK h, m, r \in Seq(T) : d = Split(h, m, r) /\ Divided(s, h, m, r)
  BY DEF IsDivided
<1>2. /\ d \in Locals(T) /\ d.house = h /\ d.moo = m /\ d.rest = r
      /\ d.sub = << >> /\ d.dist = << >> /\ d.prov = << >>
  BY <1>1, SplitIs
<1>3. e \in Locals(T) /\ e.house = h /\ e.moo = m /\ Shared(d, e, U)
  BY <1>2, ShareRestShares
<1> DEFINE u == e.sub
           i == e.dist
           p == e.prov
<1>4. /\ u \in Seq(U) /\ i \in Seq(U) /\ p \in Seq(U)
      /\ (p # << >> => i # << >>) /\ (i # << >> => u # << >>)
      /\ HasWord(r) => u # << >>
      /\ (u # << >> => HasWord(u)) /\ (i # << >> => HasWord(i)) /\ (p # << >> => HasWord(p))
      /\ \A a : Holds(u, a) \/ Holds(i, a) \/ Holds(p, a) => Holds(r, a)
      /\ \A a, b :
            \/ HoldsInOrder(u, a, b) \/ HoldsInOrder(i, a, b) \/ HoldsInOrder(p, a, b)
            \/ Holds(u, a) /\ (Holds(i, b) \/ Holds(p, b))
            \/ Holds(i, a) /\ Holds(p, b)
            => HoldsInOrder(r, a, b)
  BY <1>2, <1>3 DEF Shared
<1> HIDE DEF e, u, i, p
<1>6. /\ \A a : Holds(h, a) \/ Holds(m, a) \/ Holds(r, a) => Holds(s, a)
      /\ \A a, b :
            \/ HoldsInOrder(h, a, b) \/ HoldsInOrder(m, a, b) \/ HoldsInOrder(r, a, b)
            \/ Holds(h, a) /\ (Holds(m, b) \/ Holds(r, b))
            \/ Holds(m, a) /\ Holds(r, b)
            => HoldsInOrder(s, a, b)
      /\ \A a : Holds(s, a) /\ IsPiece(a) => Holds(h, a) \/ Holds(m, a) \/ Holds(r, a)
  BY <1>1 DEF Divided
<1>7. FiveIn(h, m, u, i, p, s)
  <2>1. \A a : Holds(h, a) \/ Holds(m, a) \/ Holds(u, a) \/ Holds(i, a) \/ Holds(p, a)
                 => Holds(s, a)
    BY <1>4, <1>6
  <2>2. ASSUME NEW a, NEW b
        PROVE  \/ HoldsInOrder(h, a, b) \/ HoldsInOrder(m, a, b) \/ HoldsInOrder(u, a, b)
               \/ HoldsInOrder(i, a, b) \/ HoldsInOrder(p, a, b)
               \/ Holds(h, a) /\ (Holds(m, b) \/ Holds(u, b) \/ Holds(i, b) \/ Holds(p, b))
               \/ Holds(m, a) /\ (Holds(u, b) \/ Holds(i, b) \/ Holds(p, b))
               \/ Holds(u, a) /\ (Holds(i, b) \/ Holds(p, b))
               \/ Holds(i, a) /\ Holds(p, b)
               => HoldsInOrder(s, a, b)
    <3>1. \/ HoldsInOrder(u, a, b) \/ HoldsInOrder(i, a, b) \/ HoldsInOrder(p, a, b)
          \/ Holds(u, a) /\ (Holds(i, b) \/ Holds(p, b))
          \/ Holds(i, a) /\ Holds(p, b)
          => HoldsInOrder(r, a, b)
      BY <1>4
    <3>2. Holds(u, b) \/ Holds(i, b) \/ Holds(p, b) => Holds(r, b)
      BY <1>4
    <3>3. \/ HoldsInOrder(h, a, b) \/ HoldsInOrder(m, a, b) \/ HoldsInOrder(r, a, b)
          \/ Holds(h, a) /\ (Holds(m, b) \/ Holds(r, b))
          \/ Holds(m, a) /\ Holds(r, b)
          => HoldsInOrder(s, a, b)
      BY <1>6
    <3> QED
      BY <3>1, <3>2, <3>3
  <2> QED
    BY <2>1, <2>2 DEF FiveIn
<1>8. HasWord(s) => HasWord(h) \/ HasWord(m) \/ HasWord(u)
  <2>1. HasWord(s) => HasWord(h) \/ HasWord(m) \/ HasWord(r)
    BY <1>6 DEF HasWord
  <2>2. HasWord(r) => HasWord(u)
    BY <1>4
  <2> QED
    BY <2>1, <2>2
<1> QED
  BY <1>2, <1>3, <1>4, <1>7, <1>8 DEF Parted, WordsKept, e, u, i, p

\* A mark in a text: what stands before it and what follows, stripped.
LEMMA CutAtMark ==
  ASSUME NEW T, NEW s \in Seq(T), NEW c \in 1 .. Len(s), IsMark(s[c])
  PROVE  /\ Upto(s, c) \in Seq(T) /\ From(s, c) \in Seq(T)
         /\ InTwo(s, Upto(s, c), From(s, c)) /\ HasWord(From(s, c))
<1>1. Upto(s, c) \in Seq(T) /\ From(s, c) \in Seq(T) /\ InTwo(s, Upto(s, c), From(s, c))
  BY CutAndStripped
<1> DEFINE r == SubSeq(s, c, Len(s))
<1>2. r \in Seq(T) /\ Holds(r, s[c]) /\ From(s, c) = Strip(r)
  BY CutText DEF From
<1> HIDE DEF r
<1>3. IsPiece(s[c])
  BY DEF IsMark, IsPiece, Sep, Blank
<1>4. Holds(Strip(r), s[c])
  BY <1>2, <1>3, StripHolds DEF IsPiece
<1> QED
  BY <1>1, <1>2, <1>3, <1>4 DEF HasWord

\* They are so after the first step of post-processing, gui_reader.py:193-209.
LEMMA TakeMarkedParts ==
  ASSUME NEW T, NEW s \in Seq(T), NEW d, Parted(d, s, T)
  PROVE  /\ Parted(TakeMarked(d), s, T)
         /\ WordsKept(d, s) => WordsKept(TakeMarked(d), s)
         /\ VillageHasWord(d) => VillageHasWord(TakeMarked(d))
<1> DEFINE marks == {k \in DOMAIN d.moo : IsMark(d.moo[k])}
           c == FirstOf(marks)
           village == Upto(d.moo, c)
           marked == From(d.moo, c)
<1>1. CASE d.sub # << >> \/ marks = {}
  <2>1. TakeMarked(d) = d
    BY <1>1 DEF TakeMarked
  <2> QED
    BY <2>1
<1>2. CASE d.sub = << >> /\ marks # {}
  <2>1. /\ d \in Locals(T) /\ d.dist = << >> /\ d.prov = << >>
        /\ d.house \in Seq(T) /\ d.moo \in Seq(T)
    BY <1>2 DEF Parted, Locals
  <2>2. TakeMarked(d) = [d EXCEPT !.sub = marked, !.moo = village]
    BY <1>2, <2>1 DEF TakeMarked
  <2>3. c \in 1 .. Len(d.moo) /\ IsMark(d.moo[c])
    <3>1. DOMAIN d.moo = 1 .. Len(d.moo) /\ Len(d.moo) \in Nat
      BY <2>1, LenProperties
    <3>2. marks \in SUBSET Nat /\ \A k \in marks : k \in 1 .. Len(d.moo) /\ IsMark(d.moo[k])
      BY <3>1
    <3> HIDE DEF marks
    <3>3. c \in marks
      BY <1>2, <3>2, FirstOfIs
    <3> QED
      BY <3>2, <3>3
  <2> HIDE DEF c
  <2>4. /\ village \in Seq(T) /\ marked \in Seq(T) /\ HasWord(marked)
        /\ InTwo(d.moo, village, marked)
    BY <2>1, <2>3, CutAtMark
  <2> HIDE DEF village, marked
  <2>5. marked # << >>
    BY <2>4, HoldsOfEmpty DEF HasWord
  <2> DEFINE e == [d EXCEPT !.sub = marked, !.moo = village]
  <2>6. /\ e \in Locals(T) /\ e.house = d.house /\ e.moo = village /\ e.sub = marked
        /\ e.dist = << >> /\ e.prov = << >>
    BY <2>1, <2>4 DEF Locals
  <2>7. FiveIn(d.house, village, marked, << >>, << >>, s)
    <3>1. FiveIn(d.house, d.moo, << >>, << >>, << >>, s)
      BY <1>2, <2>1 DEF Parted
    <3>2. \A a : Holds(village, a) \/ Holds(marked, a) => Holds(d.moo, a)
      BY <2>4 DEF InTwo
    <3>3. \A a, b :
             \/ HoldsInOrder(village, a, b) \/ HoldsInOrder(marked, a, b)
             \/ Holds(village, a) /\ Holds(marked, b)
             => HoldsInOrder(d.moo, a, b)
      BY <2>4 DEF InTwo
    <3>4. \A a : Holds(d.house, a) \/ Holds(d.moo, a) => Holds(s, a)
      BY <3>1 DEF FiveIn
    <3>5. \A a, b :
             \/ HoldsInOrder(d.house, a, b) \/ HoldsInOrder(d.moo, a, b)
             \/ Holds(d.house, a) /\ Holds(d.moo, b)
             => HoldsInOrder(s, a, b)
      BY <3>1 DEF FiveIn
    <3> QED
      BY <3>2, <3>3, <3>4, <3>5, HoldsOfEmpty DEF FiveIn
  <2> HIDE DEF e
  <2>8. Parted(e, s, T) /\ VillageHasWord(e) /\ WordsKept(e, s)
    BY <2>4, <2>5, <2>6, <2>7 DEF Parted, VillageHasWord, WordsKept
  <2> QED
    BY <2>2, <2>8 DEF e
<1> QED
  BY <1>1, <1>2

\* They are so after the second, gui_reader.py:212-216.
LEMMA TakeVillageParts ==
  ASSUME NEW T, NEW s \in Seq(T), NEW d, Parted(d, s, T)
  PROVE  /\ Parted(TakeVillage(d), s, T)
         /\ WordsKept(d, s) /\ VillageHasWord(d) => WordsKept(TakeVillage(d), s)
<1>1. CASE ~Has(d.house, 1)
  <2>1. TakeVillage(d) = d
    BY <1>1 DEF TakeVillage
  <2> QED
    BY <2>1
<1>2. CASE Has(d.house, 1)
  <2> DEFINE b == Strip(Before(d.house, 1))
             r == Strip(After(d.house, 1))
             m == IF d.moo = << >> THEN r ELSE d.moo
             e == [d EXCEPT !.house = b, !.moo = m]
  <2>1. TakeVillage(d) = e
    BY <1>2 DEF TakeVillage, Parted, Locals
  <2>2. /\ d \in Locals(T) /\ d.house \in Seq(T) /\ d.moo \in Seq(T)
        /\ FiveIn(d.house, d.moo, d.sub, d.dist, d.prov, s)
    BY DEF Parted, Locals
  <2>3. b \in Seq(T) /\ r \in Seq(T) /\ InTwo(d.house, b, r)
    <3> DEFINE x == Before(d.house, 1)
               y == After(d.house, 1)
    <3>1. x \in Seq(T) /\ y \in Seq(T) /\ InTwo(d.house, x, y)
      BY <1>2, <2>2, DividedInTwo
    <3> HIDE DEF x, y
    <3>2. Strip(x) \in Seq(T) /\ Strip(y) \in Seq(T) /\ InTwo(d.house, Strip(x), Strip(y))
      BY <3>1, StrippedInTwo
    <3> QED
      BY <3>2 DEF x, y
  <2> HIDE DEF b, r
  <2>4. /\ e \in Locals(T) /\ e.house = b /\ e.moo = m
        /\ e.sub = d.sub /\ e.dist = d.dist /\ e.prov = d.prov
    <3>1. m \in Seq(T)
      BY <2>2, <2>3
    <3> HIDE DEF m
    <3> QED
      BY <2>2, <2>3, <3>1 DEF Locals
  <2>5. /\ \A a : Holds(b, a) \/ Holds(r, a) => Holds(d.house, a)
        /\ \A a, c : HoldsInOrder(b, a, c) \/ HoldsInOrder(r, a, c) \/ (Holds(b, a) /\ Holds(r, c))
                       => HoldsInOrder(d.house, a, c)
        /\ HasWord(d.house) => HasWord(b) \/ HasWord(r)
    BY <2>3 DEF InTwo, HasWord
  <2> HIDE DEF e
  <2>6. FiveIn(b, m, d.sub, d.dist, d.prov, s)
    <3>1. CASE d.moo = << >>
      <4>1. m = r
        BY <3>1
      <4> HIDE DEF m
      <4> QED
        BY <2>2, <2>5, <4>1 DEF FiveIn
    <3>2. CASE d.moo # << >>
      <4>1. m = d.moo
        BY <3>2
      <4> HIDE DEF m
      <4> QED
        BY <2>2, <2>5, <4>1 DEF FiveIn
    <3> QED
      BY <3>1, <3>2
  <2>7. ASSUME WordsKept(d, s), VillageHasWord(d), HasWord(s)
        PROVE  HasWord(b) \/ HasWord(m) \/ HasWord(d.sub)
    <3>1. HasWord(d.house) \/ HasWord(d.moo) \/ HasWord(d.sub)
      BY <2>7 DEF WordsKept
    <3>2. CASE d.moo = << >>
      <4>1. m = r /\ ~HasWord(d.moo)
        BY <3>2, HoldsOfEmpty DEF HasWord
      <4> HIDE DEF m
      <4> QED
        BY <2>5, <3>1, <4>1
    <3>3. CASE d.moo # << >>
      <4>1. m = d.moo
        BY <3>3
      <4> HIDE DEF m
      <4> QED
        BY <2>7, <3>3, <4>1 DEF VillageHasWord
    <3> QED
      BY <3>2, <3>3
  <2> HIDE DEF m
  <2>8. Parted(e, s, T)
    BY <2>4, <2>6 DEF Parted
  <2>9. WordsKept(d, s) /\ VillageHasWord(d) => WordsKept(e, s)
    BY <2>4, <2>7 DEF WordsKept
  <2> QED
    BY <2>1, <2>8, <2>9
<1> QED
  BY <1>1, <1>2

\* gui_reader.py:111 leaves out a beginning at most, with the blanks after it.
LEMMA DropYearDrops ==
  ASSUME NEW T, NEW s \in Seq(T)
  PROVE  /\ DropYear(s) \in Seq(T) /\ PartOf(DropYear(s), s)
         /\ DropYear(s) # s => \E u \in Seq(T) : s = u \o DropYear(s)
<1>1. CASE DropYear(s) = s
  BY <1>1 DEF PartOf
<1>2. CASE Len(s) > 1 /\ DropYear(s) = LStrip(Tail(s))
  <2> DEFINE t == Tail(s)
             h == SubSeq(s, 1, 2 - 1)
  <2>1. Len(s) \in Nat /\ s # << >>
    BY <1>2, LenProperties, EmptySeq
  <2>2. 2 \in 1 .. Len(s) /\ t = SubSeq(s, 2, Len(s))
    BY <1>2, <2>1, TailIsSubSeq
  <2>3. t \in Seq(T) /\ h \in Seq(T) /\ s = h \o t
    BY <2>2, CutText
  <2> HIDE DEF t, h
  <2>4. LStrip(t) \in Seq(T) /\ \E v \in Seq({Blank}) : t = v \o LStrip(t)
    BY <2>3, LStripIs
  <2> DEFINE w == LStrip(t)
  <2>5. PICK v \in Seq({Blank}) : t = v \o w
    BY <2>4
  <2>6. v \in Seq(T)
    <3>1. \A i \in 1 .. Len(v) : v[i] = t[i] /\ i \in 1 .. Len(t)
      BY <2>4, <2>5, ConcatProperties
    <3>2. \A i \in 1 .. Len(v) : v[i] \in T
      BY <2>3, <3>1, ElementOfSeq
    <3> QED
      BY <3>2, LenProperties, SeqDef
  <2>7. w \in Seq(T)
    BY <2>4
  <2> HIDE DEF w
  <2>8. s = (h \o v) \o w /\ h \o v \in Seq(T)
    BY <2>3, <2>5, <2>6, <2>7, ConcatAssociative, ConcatProperties
  <2>9. PartOf(w, s)
    <3> DEFINE x == h \o v
    <3>1. x \in Seq(T) /\ s = x \o w
      BY <2>8
    <3> HIDE DEF x
    <3>2. InTwo(s, x, w)
      BY <2>7, <3>1, JoinedInTwo
    <3> QED
      BY <3>2 DEF InTwo, PartOf
  <2> QED
    BY <1>2, <2>7, <2>8, <2>9 DEF t, w
<1> QED
  BY <1>1, <1>2 DEF DropYear

\* What is made of an address: of one that was not bound the full text, of any other its
\* five parts.
LEMMA ParsedAddress ==
  ASSUME NEW T, NEW s \in Seq(T)
  PROVE  LET t == DropYear(s)
             d == TakeVillage(TakeMarked(ShareRest(Divide(t))))
         IN  \/ /\ ~Divide(t).bound
                /\ ParseAddress(s) = Address(<< >>, << >>, << >>, << >>, << >>, Spaced(t))
             \/ /\ Divide(t).bound
                /\ ParseAddress(s) = Cleaned(d)
                /\ Parted(d, t, T)
                /\ VillageHasWord(ShareRest(Divide(t))) => WordsKept(d, t)
<1> DEFINE t == DropYear(s)
           e == Divide(t)
           d == TakeVillage(TakeMarked(ShareRest(e)))
<1>1. CASE ~e.bound
  BY <1>1 DEF ParseAddress
<1>2. CASE e.bound
  <2>1. ParseAddress(s) = Cleaned(d)
    BY <1>2 DEF ParseAddress
  <2>2. t \in Seq(T)
    BY DropYearDrops
  <2> HIDE DEF t
  <2>3. IsDivided(e, t, T)
    BY <1>2, <2>2, DivideDivides
  <2> HIDE DEF e
  <2>4. Parted(ShareRest(e), t, T) /\ WordsKept(ShareRest(e), t)
    BY <2>2, <2>3, ShareRestParts
  <2>5. /\ Parted(TakeMarked(ShareRest(e)), t, T) /\ WordsKept(TakeMarked(ShareRest(e)), t)
        /\ VillageHasWord(ShareRest(e)) => VillageHasWord(TakeMarked(ShareRest(e)))
    BY <2>2, <2>4, TakeMarkedParts
  <2>6. Parted(d, t, T) /\ (VillageHasWord(ShareRest(e)) => WordsKept(d, t))
    BY <2>2, <2>5, TakeVillageParts
  <2> QED
    BY <1>2, <2>1, <2>6 DEF t, e
<1> QED
  BY <1>1, <1>2

-----------------------------------------------------------------------------
(* The parts and the full text of an address. *)

\* A part, its separators deleted: no separator is left, nothing else is lost.
LEMMA CleanedPart ==
  ASSUME NEW T, NEW x \in Seq(T)
  PROVE  LET c == Strip(Glued(x))
         IN  /\ c \in Seq(T \ {Sep}) /\ c \in Seq(T)
             /\ Without(c, Blank) = Core(x)
             /\ c # << >> <=> HasWord(x)
<1> DEFINE U == T \ {Sep}
           g == Glued(x)
           c == Strip(g)
<1>1. g \in Seq(U)
  BY WithoutRange DEF Glued
<1>2. \A a : Holds(g, a) <=> Holds(x, a) /\ a # Sep
  BY WithoutHolds DEF Glued
<1>3. Without(g, Blank) = Core(x)
  BY DEF Core
<1> HIDE DEF g
<1>4. c \in Seq(U) /\ Core(c) = Core(g) /\ (c = << >> <=> \A a : Holds(g, a) => a = Blank)
  <2> HIDE DEF U
  <2> QED
    BY <1>1, StripHolds, StripEmpty
<1>5. Glued(g) = g
  BY <1>1, WithoutNone DEF Glued
<1> HIDE DEF c
<1>6. Glued(c) = c
  BY <1>4, WithoutNone DEF Glued
<1>7. Without(c, Blank) = Core(x)
  BY <1>3, <1>4, <1>5, <1>6 DEF Core
<1>8. c # << >> <=> HasWord(x)
  BY <1>2, <1>4 DEF HasWord, IsPiece
<1>9. c \in Seq(T)
  <2>1. U \subseteq T
    OBVIOUS
  <2> HIDE DEF U
  <2> QED
    BY <1>4, <2>1, SeqMonotonic
<1> QED
  BY <1>4, <1>7, <1>8, <1>9 DEF c, g

\* f holds what x and y hold, but for blanks.
Laid(f, x, y, T) ==
  f \in Seq(T) /\ Without(f, Blank) = Without(x, Blank) \o Without(y, Blank)

\* Two texts with a blank between them, and the same if both are there.
LEMMA BesideIs ==
  ASSUME NEW T, Blank \in T, NEW x \in Seq(T), NEW y \in Seq(T)
  PROVE  /\ Laid(Spread(x, y), x, y, T) /\ Laid(Beside(x, y), x, y, T)
         /\ Spread(x, y) # << >>
<1> DEFINE z == << >>
           b == << Blank >>
           u == x \o b
           w == u \o y
           p == Without(x, Blank)
           q == Without(y, Blank)
<1>1. z \in Seq(T) /\ b = Append(z, Blank) /\ Without(z, Blank) = z
  BY EmptySeq, WithoutEmpty
<1>2. p \in Seq(T) /\ q \in Seq(T)
  BY WithoutIsSeq
<1>3. p \o z = p /\ z \o q = q
  BY <1>2, ConcatEmptySeq
<1>4. b \in Seq(T) /\ Len(b) = 1
  OBVIOUS
<1> HIDE DEF z
<1>5. Without(b, Blank) = z
  <2> HIDE DEF b
  <2>1. Without(Append(z, Blank), Blank) = Without(z, Blank)
    BY <1>1, WithoutOfAppended
  <2> QED
    BY <1>1, <2>1
<1> HIDE DEF b
<1>6. u \in Seq(T) /\ Len(u) = Len(x) + 1 /\ Len(x) \in Nat
  <2>1. x \o b \in Seq(T) /\ Len(x \o b) = Len(x) + Len(b)
    BY <1>4, ConcatProperties
  <2>2. Len(x) \in Nat
    BY LenProperties
  <2> QED
    BY <1>4, <2>1, <2>2
<1>7. Without(u, Blank) = p
  <2>1. Without(x \o b, Blank) = Without(x, Blank) \o Without(b, Blank)
    BY <1>4, WithoutJoined
  <2> QED
    BY <1>3, <1>5, <2>1
<1> HIDE DEF u
<1>8. w \in Seq(T) /\ Len(w) = Len(u) + Len(y) /\ Len(y) \in Nat
  BY <1>6, ConcatProperties, LenProperties
<1>9. Without(w, Blank) = p \o q
  <2>1. Without(u \o y, Blank) = Without(u, Blank) \o Without(y, Blank)
    BY <1>6, WithoutJoined
  <2> QED
    BY <1>7, <2>1
<1>10. w # << >>
  BY <1>6, <1>8, EmptySeq
<1>11. Spread(x, y) = w
  BY DEF Spread, b, u
<1> HIDE DEF w
<1>12. Beside(x, y) = IF x = z THEN y ELSE IF y = z THEN x ELSE w
  BY <1>11 DEF Beside, z
<1> DEFINE f == Beside(x, y)
<1>13. Laid(f, x, y, T)
  <2>1. CASE x = z
    <3>1. f = y /\ p = z
      BY <1>1, <1>12, <2>1
    <3> QED
      BY <1>3, <3>1 DEF Laid
  <2>2. CASE x # z /\ y = z
    <3>1. f = x /\ q = z
      BY <1>1, <1>12, <2>2
    <3> QED
      BY <1>3, <3>1 DEF Laid
  <2>3. CASE x # z /\ y # z
    <3>1. f = w
      BY <1>12, <2>3
    <3> QED
      BY <1>8, <1>9, <3>1 DEF Laid
  <2> QED
    BY <2>1, <2>2, <2>3
<1> QED
  BY <1>8, <1>9, <1>10, <1>11, <1>13 DEF Laid

\* Five texts with blanks between those that are there.
LEMMA FiveBeside ==
  ASSUME NEW T, Blank \in T,
         NEW h \in Seq(T), NEW m \in Seq(T), NEW u \in Seq(T), NEW i \in Seq(T), NEW p \in Seq(T)
  PROVE  LET L(x) == Without(x, Blank)
             f == Joined(h, m, u, i, p).full
         IN  f \in Seq(T) /\ L(f) = Five(L(h), L(m), L(u), L(i), L(p))
<1> DEFINE L(x) == Without(x, Blank)
           f2 == Beside(h, m)
           f3 == Beside(f2, u)
           f4 == Beside(f3, i)
           f5 == Beside(f4, p)
<1>1. Joined(h, m, u, i, p).full = f5
  BY DEF Joined, Address
<1>2. Laid(f2, h, m, T)
  BY BesideIs
<1> HIDE DEF f2
<1>3. f2 \in Seq(T) /\ L(f2) = L(h) \o L(m)
  BY <1>2 DEF Laid
<1>4. Laid(f3, f2, u, T)
  BY <1>3, BesideIs
<1> HIDE DEF f3
<1>5. f3 \in Seq(T) /\ L(f3) = L(f2) \o L(u)
  BY <1>4 DEF Laid
<1>6. Laid(f4, f3, i, T)
  BY <1>5, BesideIs
<1> HIDE DEF f4
<1>7. f4 \in Seq(T) /\ L(f4) = L(f3) \o L(i)
  BY <1>6 DEF Laid
<1>8. Laid(f5, f4, p, T)
  BY <1>7, BesideIs
<1> HIDE DEF f5
<1>9. f5 \in Seq(T) /\ L(f5) = L(f4) \o L(p)
  BY <1>8 DEF Laid
<1> QED
  BY <1>1, <1>3, <1>5, <1>7, <1>9 DEF Five

\* The five parts are a part of the address.
LEMMA PartedIsPart ==
  ASSUME NEW T, NEW s \in Seq(T), NEW d, Parted(d, s, T)
  PROVE  LET f == Five(d.house, d.moo, d.sub, d.dist, d.prov)
         IN  /\ f \in Seq(T) /\ PartOf(f, s)
             /\ Core(f) = Five(Core(d.house), Core(d.moo), Core(d.sub), Core(d.dist), Core(d.prov))
<1> DEFINE h == d.house
           m == d.moo
           u == d.sub
           i == d.dist
           p == d.prov
<1>1. h \in Seq(T) /\ m \in Seq(T) /\ u \in Seq(T) /\ i \in Seq(T) /\ p \in Seq(T)
  BY DEF Parted, Locals
<1>2. FiveIn(h, m, u, i, p, s)
  BY DEF Parted
<1> HIDE DEF h, m, u, i, p
<1> DEFINE f == Five(h, m, u, i, p)
<1>3. /\ f \in Seq(T)
      /\ \A x : Holds(f, x) <=>
            \/ Holds(h, x) \/ Holds(m, x) \/ Holds(u, x) \/ Holds(i, x) \/ Holds(p, x)
      /\ \A x, y : HoldsInOrder(f, x, y) <=>
            \/ HoldsInOrder(h, x, y) \/ HoldsInOrder(m, x, y) \/ HoldsInOrder(u, x, y)
            \/ HoldsInOrder(i, x, y) \/ HoldsInOrder(p, x, y)
            \/ Holds(h, x) /\ (Holds(m, y) \/ Holds(u, y) \/ Holds(i, y) \/ Holds(p, y))
            \/ Holds(m, x) /\ (Holds(u, y) \/ Holds(i, y) \/ Holds(p, y))
            \/ Holds(u, x) /\ (Holds(i, y) \/ Holds(p, y))
            \/ Holds(i, x) /\ Holds(p, y)
      /\ Core(f) = Five(Core(h), Core(m), Core(u), Core(i), Core(p))
  BY <1>1, FiveHold
<1> HIDE DEF f
<1>4. PartOf(f, s)
  <2>1. \A x : Holds(f, x) => Holds(s, x)
    BY <1>2, <1>3 DEF FiveIn
  <2>2. ASSUME NEW x, NEW y, HoldsInOrder(f, x, y) PROVE HoldsInOrder(s, x, y)
    <3>1. \/ HoldsInOrder(h, x, y) \/ HoldsInOrder(m, x, y) \/ HoldsInOrder(u, x, y)
          \/ HoldsInOrder(i, x, y) \/ HoldsInOrder(p, x, y)
          \/ Holds(h, x) /\ (Holds(m, y) \/ Holds(u, y) \/ Holds(i, y) \/ Holds(p, y))
          \/ Holds(m, x) /\ (Holds(u, y) \/ Holds(i, y) \/ Holds(p, y))
          \/ Holds(u, x) /\ (Holds(i, y) \/ Holds(p, y))
          \/ Holds(i, x) /\ Holds(p, y)
      BY <1>3, <2>2
    <3> QED
      BY <1>2, <3>1 DEF FiveIn
  <2> QED
    BY <2>1, <2>2 DEF PartOf
<1> QED
  BY <1>3, <1>4 DEF f, h, m, u, i, p

\* The full text of an address that was split holds the tokens of the parts, in their
\* order.
LEMMA CleanedFull ==
  ASSUME NEW T, Blank \in T, NEW s \in Seq(T), NEW d, Parted(d, s, T)
  PROVE  LET f == Cleaned(d).full
         IN  f \in Seq(T) /\ PartOf(Without(f, Blank), Core(s))
<1> DEFINE h == Strip(Glued(d.house))
           m == Strip(Glued(d.moo))
           u == Strip(Glued(d.sub))
           i == Strip(Glued(d.dist))
           p == Strip(Glued(d.prov))
           L(x) == Without(x, Blank)
           f == Joined(h, m, u, i, p).full
           g == Five(d.house, d.moo, d.sub, d.dist, d.prov)
<1>1. /\ d.house \in Seq(T) /\ d.moo \in Seq(T) /\ d.sub \in Seq(T)
      /\ d.dist \in Seq(T) /\ d.prov \in Seq(T)
  BY DEF Parted, Locals
<1>2. /\ h \in Seq(T) /\ m \in Seq(T) /\ u \in Seq(T) /\ i \in Seq(T) /\ p \in Seq(T)
      /\ L(h) = Core(d.house) /\ L(m) = Core(d.moo) /\ L(u) = Core(d.sub)
      /\ L(i) = Core(d.dist) /\ L(p) = Core(d.prov)
  BY <1>1, CleanedPart
<1>3. Cleaned(d).full = f
  BY DEF Cleaned
<1> HIDE DEF h, m, u, i, p
<1>4. f \in Seq(T) /\ L(f) = Five(L(h), L(m), L(u), L(i), L(p))
  BY <1>2, FiveBeside
<1>5. /\ g \in Seq(T) /\ PartOf(g, s)
      /\ Core(g) = Five(Core(d.house), Core(d.moo), Core(d.sub), Core(d.dist), Core(d.prov))
  BY PartedIsPart
<1> HIDE DEF f, g
<1>6. L(f) = Core(g)
  BY <1>2, <1>4, <1>5
<1>7. PartOf(Core(g), Core(s))
  BY <1>5, CoreOfPart
<1> QED
  BY <1>3, <1>4, <1>6, <1>7

\* The full text of one that was not.
LEMMA SpacedIs ==
  ASSUME NEW T, Blank \in T, NEW s \in Seq(T)
  PROVE  /\ Spaced(s) \in Seq(T)
         /\ PartOf(Without(Spaced(s), Blank), Core(s))
         /\ WordsOf(Spaced(s)) = WordsOf(s)
<1> DEFINE t == Spaced(s)
           N == Len(s)
<1>1. DOMAIN s = 1 .. N /\ N \in Nat /\ \A k \in 1 .. N : s[k] \in T
  BY LenProperties, ElementOfSeq
<1>2. t \in [1 .. N -> T] /\ \A k \in 1 .. N : t[k] = IF s[k] = Sep THEN Blank ELSE s[k]
  BY <1>1 DEF Spaced
<1> HIDE DEF t
<1>3. t \in Seq(T)
  BY <1>1, <1>2, SeqDef
<1>4. Len(t) = N
  <2>1. DOMAIN t = 1 .. Len(t) /\ Len(t) \in Nat /\ DOMAIN t = 1 .. N
    BY <1>2, <1>3, LenProperties
  <2>2. \A n, m \in Nat : 1 .. n = 1 .. m => n = m
    OBVIOUS
  <2> QED
    BY <1>1, <2>1, <2>2
<1>5. \A k \in 1 .. N : t[k] # Sep /\ (t[k] # Blank => t[k] = s[k])
  <2>1. Sep # Blank
    BY DEF Sep, Blank
  <2> QED
    BY <1>2, <2>1
<1>6. \A a : Holds(t, a) /\ a # Blank => Holds(s, a) /\ a # Sep
  BY <1>4, <1>5 DEF Holds
<1>7. \A a, b : HoldsInOrder(t, a, b) /\ a # Blank /\ b # Blank
                  => HoldsInOrder(s, a, b) /\ a # Sep /\ b # Sep
  BY <1>4, <1>5 DEF HoldsInOrder
<1>8. PartOf(Without(t, Blank), Core(s))
  <2>1. /\ \A a : Holds(Without(t, Blank), a) <=> Holds(t, a) /\ a # Blank
        /\ \A a, b : HoldsInOrder(Without(t, Blank), a, b) <=> HoldsInOrder(t, a, b) /\ a # Blank /\ b # Blank
    BY <1>3, WithoutHolds
  <2>2. /\ \A a : Holds(Core(s), a) <=> Holds(s, a) /\ a # Sep /\ a # Blank
        /\ \A a, b : HoldsInOrder(Core(s), a, b) <=>
             HoldsInOrder(s, a, b) /\ a # Sep /\ b # Sep /\ a # Blank /\ b # Blank
    BY CoreIs
  <2> QED
    BY <1>6, <1>7, <2>1, <2>2 DEF PartOf
<1>9. Dashed(t) = Dashed(s)
  <2>1. DOMAIN t = DOMAIN s
    BY <1>1, <1>2
  <2>2. \A k \in DOMAIN s : (IF t[k] = Blank THEN Sep ELSE t[k]) = (IF s[k] = Blank THEN Sep ELSE s[k])
    BY <1>1, <1>2
  <2> QED
    BY <2>1, <2>2 DEF Dashed
<1> QED
  BY <1>3, <1>8, <1>9 DEF t, WordsOf

\* A text without words.
LEMMA WordsOfGaps ==
  ASSUME NEW T, NEW s \in Seq(T), ~HasWord(s)
  PROVE  WordsOf(s) = << >>
<1> DEFINE D == Dashed(s)
           N == Len(s)
           P == Pieces(D)
<1>1. DOMAIN s = 1 .. N /\ N \in Nat
  BY LenProperties
<1>2. \A k \in 1 .. N : D[k] = Sep
  <2>1. \A k \in 1 .. N : s[k] = Sep \/ s[k] = Blank
    BY DEF HasWord, Holds, IsPiece
  <2> QED
    BY <1>1, <2>1 DEF Dashed
<1>3. D \in Seq({Sep})
  <2>1. D \in [1 .. N -> {Sep}]
    BY <1>1, <1>2 DEF Dashed
  <2> QED
    BY <1>1, <2>1, SeqDef
<1> HIDE DEF D
<1>4. P \in Seq(Seq({Sep} \ {Sep}))
  BY <1>3, PiecesClean DEF SomePieces
<1>5. \A v \in Seq({Sep} \ {Sep}) : v = << >>
  <2> TAKE v \in Seq({Sep} \ {Sep})
  <2>1. \A k \in 1 .. Len(v) : v[k] \in {Sep} \ {Sep}
    BY ElementOfSeq
  <2>2. Len(v) \in Nat /\ ~(1 \in 1 .. Len(v))
    BY <2>1, LenProperties
  <2> QED
    BY <2>2, EmptySeq
<1>6. \A a : ~Holds(Without(P, << >>), a)
  <2>1. \A a : Holds(Without(P, << >>), a) <=> Holds(P, a) /\ a # << >>
    BY <1>4, WithoutHolds
  <2>2. \A k \in 1 .. Len(P) : P[k] = << >>
    <3> HIDE DEF P
    <3>1. \A k \in 1 .. Len(P) : P[k] \in Seq({Sep} \ {Sep})
      BY <1>4, ElementOfSeq
    <3> QED
      BY <1>5, <3>1
  <2> QED
    BY <2>1, <2>2 DEF Holds
<1>7. Without(P, << >>) = << >>
  <2>1. Without(P, << >>) \in Seq(Seq({Sep} \ {Sep}))
    BY <1>4, WithoutIsSeq
  <2> DEFINE W == Without(P, << >>)
             A == Seq({Sep} \ {Sep})
  <2>2. W \in Seq(A) /\ \A a : ~Holds(W, a)
    BY <1>6, <2>1
  <2> HIDE DEF W, A
  <2>3. W = << >>
    BY <2>2, HoldsNothing
  <2> QED
    BY <2>3 DEF W
<1> QED
  BY <1>7 DEF WordsOf, P, D

-----------------------------------------------------------------------------
(* Blanks and separators between the words, and around them, are no words. *)

Gap == {Sep, Blank}

\* Blanks and separators have no words.
LEMMA GapsHaveNoWords ==
  ASSUME NEW z \in Seq(Gap)
  PROVE  ~HasWord(z) /\ WordsOf(z) = << >>
<1>1. \A k \in 1 .. Len(z) : z[k] \in Gap
  BY ElementOfSeq
<1>2. ~HasWord(z)
  BY <1>1 DEF HasWord, Holds, IsPiece, Gap
<1> QED
  BY <1>2, WordsOfGaps

\* Texts in any set that has them.
LEMMA GapsAreTexts ==
  ASSUME NEW T, Sep \in T, Blank \in T
  PROVE  Seq(Gap) \subseteq Seq(T) /\ Seq({Sep}) \subseteq Seq(Gap) /\ Seq({Blank}) \subseteq Seq(Gap)
<1>1. Gap \subseteq T /\ {Sep} \subseteq Gap /\ {Blank} \subseteq Gap
  BY DEF Gap
<1> QED
  BY <1>1, SeqMonotonic

SameWords(s, t) == WordsOf(s) = WordsOf(t)

\* A gap at the end of a text.
LEMMA GapAfter ==
  ASSUME NEW T, Sep \in T, Blank \in T, NEW x \in Seq(T)
  PROVE  \A z \in Seq(Gap) : x \o z \in Seq(T) /\ SameWords(x \o z, x)
<1> DEFINE Good == {z \in Seq(Gap) : SameWords(x \o z, x)}
<1>1. << >> \in Good
  <2>1. x \o << >> = x /\ << >> \in Seq(Gap)
    BY ConcatEmptySeq, EmptySeq
  <2> QED
    BY <2>1 DEF SameWords
<1>2. ASSUME NEW z \in Seq(Gap), NEW b \in Gap, z \in Good PROVE Append(z, b) \in Good
  <2> DEFINE y == x \o z
             e == << >>
  <2>1. z \in Seq(T) /\ b \in T /\ b \in {Sep, Blank}
    BY GapsAreTexts DEF Gap
  <2>2. y \in Seq(T) /\ x \o Append(z, b) = Append(y, b) /\ Append(y, b) = y \o << b >>
    <3>1. y \in Seq(T)
      BY <2>1, AppendToJoined
    <3>2. Append(y, b) = x \o Append(z, b)
      BY <2>1, AppendToJoined
    <3> HIDE DEF y
    <3>3. Append(y, b) = y \o << b >>
      BY <2>1, <3>1, AppendIsConcat
    <3> QED
      BY <3>1, <3>2, <3>3
  <2>3. WordsOf(y) = WordsOf(x)
    BY <1>2 DEF SameWords
  <2> HIDE DEF y
  <2> DEFINE w == y \o << b >>
  <2>4. w \in Seq(T)
    BY <2>1, <2>2, AppendProperties
  <2>5. e \in Seq(T) /\ WordsOf(e) = << >>
    <3>1. e \in Seq(Gap) /\ e \in Seq(T)
      BY EmptySeq
    <3> QED
      BY <3>1, GapsHaveNoWords
  <2>6. w \o e = w
    BY <2>4, ConcatEmptySeq
  <2> HIDE DEF e
  <2>7. WordsMeet(y, b, e) /\ WordsOf(y) \in Seq(Seq(T))
    BY <2>1, <2>2, <2>5, WordsJoined
  <2>8. WordsOf(w \o e) = WordsOf(y) \o WordsOf(e)
    BY <2>7 DEF WordsMeet
  <2>9. WordsOf(y) \o << >> = WordsOf(y)
    BY <2>7, ConcatEmptySeq
  <2>10. WordsOf(w) = WordsOf(x)
    BY <2>3, <2>5, <2>6, <2>8, <2>9
  <2>11. Append(z, b) \in Seq(Gap)
    BY AppendProperties
  <2> QED
    BY <2>2, <2>10, <2>11 DEF SameWords
<1>3. \A z \in Seq(Gap) : z \in Good
  <2> HIDE DEF Good
  <2> QED
    BY <1>1, <1>2, SeqInduction
<1>4. \A z \in Seq(Gap) : x \o z \in Seq(T)
  BY GapsAreTexts, ConcatProperties
<1> QED
  BY <1>3, <1>4

\* The words of s are those of x and, after them, those of y.
WordsFollow(s, x, y) == WordsOf(s) = WordsOf(x) \o WordsOf(y)

LEMMA LastOfGap ==
  \A z \in Seq(Gap) : z # << >> => \E f \in Seq(Gap), b \in Gap : z = Append(f, b)
<1> DEFINE Good == {z \in Seq(Gap) : z # << >> => \E f \in Seq(Gap), b \in Gap : z = Append(f, b)}
<1>1. << >> \in Good
  BY EmptySeq
<1>2. ASSUME NEW z \in Seq(Gap), NEW b \in Gap PROVE Append(z, b) \in Good
  <2>1. Append(z, b) \in Seq(Gap)
    BY AppendProperties
  <2> QED
    BY <2>1
<1>3. \A z \in Seq(Gap) : z \in Good
  <2> HIDE DEF Good
  <2> QED
    BY <1>1, <1>2, SeqInduction
<1> QED
  BY <1>3

\* A gap between two texts.
LEMMA GapBetween ==
  ASSUME NEW T, Sep \in T, Blank \in T, NEW x \in Seq(T), NEW y \in Seq(T),
         NEW z \in Seq(Gap), z # << >>
  PROVE  x \o (z \o y) \in Seq(T) /\ WordsFollow(x \o (z \o y), x, y)
<1>1. PICK f \in Seq(Gap), b \in Gap : z = Append(f, b)
  BY LastOfGap
<1>2. f \in Seq(T) /\ b \in T /\ b \in {Sep, Blank} /\ z \in Seq(T)
  BY <1>1, GapsAreTexts DEF Gap
<1> DEFINE u == x \o f
           e == << b >>
<1>3. u \in Seq(T) /\ SameWords(u, x)
  BY <1>1, GapAfter
<1>4. e \in Seq(T)
  BY <1>2
<1>5. z = f \o e
  BY <1>1, <1>2, AppendIsConcat
<1> HIDE DEF e
<1>6. x \o (z \o y) = (u \o e) \o y
  <2>1. z \o y = f \o (e \o y) /\ e \o y \in Seq(T)
    BY <1>2, <1>4, <1>5, ConcatAssociative, ConcatProperties
  <2> DEFINE v == e \o y
  <2>2. x \o (f \o v) = (x \o f) \o v
    <3>1. v \in Seq(T)
      BY <2>1
    <3> HIDE DEF v
    <3> QED
      BY <1>2, <3>1, ConcatAssociative
  <2>3. u \o (e \o y) = (u \o e) \o y
    <3>1. u \in Seq(T)
      BY <1>3
    <3> HIDE DEF u, v
    <3> QED
      BY <1>4, <3>1, ConcatAssociative
  <2> QED
    BY <2>1, <2>2, <2>3 DEF u
<1>7. x \o (z \o y) \in Seq(T)
  <2>1. z \o y \in Seq(T)
    BY <1>2, ConcatProperties
  <2> QED
    BY <2>1, ConcatProperties
<1> HIDE DEF u
<1>8. WordsMeet(u, b, y)
  BY <1>2, <1>3, WordsJoined
<1> QED
  BY <1>3, <1>6, <1>7, <1>8 DEF WordsMeet, WordsFollow, SameWords, e

\* A gap at the beginning of a text.
LEMMA GapBefore ==
  ASSUME NEW T, Sep \in T, Blank \in T, NEW x \in Seq(T), NEW z \in Seq(Gap)
  PROVE  z \o x \in Seq(T) /\ SameWords(z \o x, x)
<1> DEFINE e == << >>
<1>1. z \in Seq(T) /\ e \in Seq(T) /\ z \o x \in Seq(T)
  BY GapsAreTexts, EmptySeq, ConcatProperties
<1>2. e \o (z \o x) = z \o x /\ e \o x = x
  BY <1>1, ConcatEmptySeq
<1>3. CASE z = << >>
  BY <1>1, <1>2, <1>3 DEF SameWords
<1>4. CASE z # << >>
  <2>1. WordsOf(e) = << >>
    <3>1. e \in Seq(Gap)
      BY EmptySeq
    <3> QED
      BY <3>1, GapsHaveNoWords
  <2> HIDE DEF e
  <2>2. WordsFollow(e \o (z \o x), e, x)
    BY <1>1, <1>4, GapBetween
  <2>3. WordsOf(x) \in Seq(Seq(T))
    BY WordsJoined
  <2>4. << >> \o WordsOf(x) = WordsOf(x)
    BY <2>3, ConcatEmptySeq
  <2> QED
    BY <1>1, <1>2, <2>1, <2>2, <2>4 DEF WordsFollow, SameWords
<1> QED
  BY <1>3, <1>4

\* strip() keeps the words.
LEMMA StripKeepsWords ==
  ASSUME NEW T, Sep \in T, Blank \in T, NEW s \in Seq(T)
  PROVE  Strip(s) \in Seq(T) /\ WordsOf(Strip(s)) = WordsOf(s)
<1> DEFINE x == Strip(s)
<1>1. Trimmed(s, x, T)
  BY StripIs
<1> HIDE DEF x
<1>2. x \in Seq(T)
  BY <1>1 DEF Trimmed
<1>3. PICK u, v \in Seq({Blank}) : s = (u \o x) \o v
  BY <1>1 DEF Trimmed
<1>4. u \in Seq(Gap) /\ v \in Seq(Gap)
  BY GapsAreTexts
<1>5. u \o x \in Seq(T) /\ SameWords(u \o x, x)
  BY <1>2, <1>4, GapBefore
<1>6. SameWords((u \o x) \o v, u \o x)
  <2> DEFINE w == u \o x
  <2>1. w \in Seq(T)
    BY <1>5
  <2> HIDE DEF w
  <2>2. SameWords(w \o v, w)
    BY <1>4, <2>1, GapAfter
  <2> QED
    BY <2>2 DEF w
<1> QED
  BY <1>2, <1>3, <1>5, <1>6 DEF SameWords, x

\* Both ways to join two texts with a blank.
LEMMA BesideWords ==
  ASSUME NEW T, Sep \in T, Blank \in T, NEW x \in Seq(T), NEW y \in Seq(T)
  PROVE  /\ Spread(x, y) \in Seq(T) /\ Beside(x, y) \in Seq(T)
         /\ WordsFollow(Spread(x, y), x, y) /\ WordsFollow(Beside(x, y), x, y)
<1> DEFINE e == << >>
<1>1. WordsOf(x) \in Seq(Seq(T)) /\ WordsOf(y) \in Seq(Seq(T)) /\ WordsMeet(x, Blank, y)
  <2>1. \A b \in {Sep, Blank} : /\ WordsOf(x) \in Seq(Seq(T)) /\ WordsOf(y) \in Seq(Seq(T))
                                /\ WordsMeet(x, b, y)
    BY WordsJoined
  <2> QED
    BY <2>1
<1>2. WordsFollow(Spread(x, y), x, y)
  BY <1>1 DEF WordsMeet, WordsFollow, Spread
<1>3. WordsOf(e) = e
  <2>1. e \in Seq(Gap)
    BY EmptySeq
  <2> QED
    BY <2>1, GapsHaveNoWords
<1>4. WordsOf(x) \o e = WordsOf(x) /\ e \o WordsOf(y) = WordsOf(y)
  BY <1>1, ConcatEmptySeq
<1>5. Laid(Spread(x, y), x, y, T) /\ Laid(Beside(x, y), x, y, T)
  BY BesideIs
<1>6. Beside(x, y) = IF x = e THEN y ELSE IF y = e THEN x ELSE Spread(x, y)
  BY DEF Beside
<1> HIDE DEF e
<1>7. WordsFollow(Beside(x, y), x, y)
  BY <1>2, <1>3, <1>4, <1>6 DEF WordsFollow
<1> QED
  BY <1>2, <1>5, <1>7 DEF Laid

-----------------------------------------------------------------------------
(* Texts in the documented form. *)

\* A text is its last piece after a separator after its other pieces.
CutLast(s, P, T) ==
  \E t \in Seq(T) :
    /\ s = Append(t, Sep) \o P[Len(P)]
    /\ Len(Pieces(t)) = Len(P) - 1
    /\ \A p \in 1 .. Len(P) - 1 : Pieces(t)[p] = P[p]

\* The last piece of a text can be cut off it, with the separator before it.
LEMMA LastPiece ==
  ASSUME NEW T, Sep \in T, NEW s \in Seq(T)
  PROVE  Len(Pieces(s)) >= 2 => CutLast(s, Pieces(s), T)
<1> DEFINE Good == {t \in Seq(T) : Len(Pieces(t)) >= 2 => CutLast(t, Pieces(t), T)}
<1>1. << >> \in Good
  <2>1. << >> \in Seq(T) /\ Pieces(<< >>) = << << >> >>
    BY EmptySeq, PiecesStep
  <2> DEFINE P == << << >> >>
  <2>2. Len(P) = 1
    OBVIOUS
  <2> HIDE DEF P
  <2>3. ~(Len(P) >= 2)
    BY <2>2
  <2> QED
    BY <2>1, <2>3 DEF P
<1>2. ASSUME NEW t \in Seq(T), NEW x \in T, t \in Good PROVE Append(t, x) \in Good
  <2> DEFINE u == Append(t, x)
             P == Pieces(t)
             N == Len(P)
             Q == Continued(P, x)
  <2>1. u \in Seq(T) /\ Pieces(u) = Q
    BY AppendProperties, PiecesStep
  <2>2. /\ N \in Nat /\ N >= 1
        /\ x = Sep => /\ Len(Q) = N + 1
                      /\ \A p \in 1 .. N : Q[p] = P[p]
                      /\ Q[N + 1] = << >>
        /\ x # Sep => /\ Len(Q) = N
                      /\ \A p \in 1 .. N - 1 : Q[p] = P[p]
                      /\ Q[N] = Append(P[N], x)
    <3>1. N \in Nat /\ N >= 1 /\ Continues(P, x, Pieces(u))
      BY PiecesContinue
    <3> HIDE DEF P, Q, u
    <3> QED
      BY <2>1, <3>1 DEF Continues
  <2>3. N >= 2 => CutLast(t, P, T)
    BY <1>2
  <2>4. P[N] \in Seq(T)
    BY PiecesContinue
  <2>5. CASE x = Sep
    <3>1. CutLast(u, Q, T)
      <4>1. u \o << >> = u
        BY <2>1, ConcatEmptySeq
      <4>2. u = Append(t, Sep) \o << >>
        BY <2>5, <4>1
      <4> HIDE DEF u, Q, N
      <4>3. /\ Len(Q) = N + 1 /\ Len(Q) - 1 = N
            /\ \A p \in 1 .. N : P[p] = Q[p]
            /\ Q[Len(Q)] = << >>
        BY <2>2, <2>5
      <4> QED
        BY <4>2, <4>3 DEF CutLast, N
    <3> QED
      BY <2>1, <3>1
  <2>6. CASE x # Sep
    <3>1. ASSUME N >= 2 PROVE CutLast(u, Q, T)
      <4>1. PICK v \in Seq(T) :
               /\ t = Append(v, Sep) \o P[N]
               /\ Len(Pieces(v)) = N - 1
               /\ \A p \in 1 .. N - 1 : Pieces(v)[p] = P[p]
        BY <2>3, <3>1 DEF CutLast
      <4>2. Append(v, Sep) \in Seq(T)
        BY AppendProperties
      <4> DEFINE g == Append(v, Sep)
                 w == P[N]
      <4> HIDE DEF g, P, N, Q
      <4>3. Append(g \o w, x) = g \o Append(w, x)
        <5>1. g \in Seq(T) /\ w \in Seq(T)
          BY <2>4, <4>2 DEF g
        <5>2. \A a, b \in Seq(T) : Append(a \o b, x) = a \o Append(b, x)
          BY AppendToJoined
        <5> HIDE DEF w
        <5> QED
          BY <5>1, <5>2
      <4>4. /\ Len(Q) = N /\ Q[N] = Append(P[N], x)
            /\ \A p \in 1 .. N - 1 : Q[p] = P[p]
        BY <2>2, <2>6
      <4>5. u = g \o Q[N]
        BY <4>1, <4>3, <4>4 DEF g
      <4> HIDE DEF u
      <4> QED
        BY <4>1, <4>4, <4>5 DEF CutLast, g
    <3>2. Len(Q) = N
      BY <2>2, <2>6
    <3> QED
      BY <2>1, <3>1, <3>2
  <2> QED
    BY <2>5, <2>6
<1>3. \A t \in Seq(T) : t \in Good
  <2> HIDE DEF Good
  <2> QED
    BY <1>1, <1>2, SeqInduction
<1> QED
  BY <1>3

\* Words after a text lengthen its last piece.
LEMMA PiecesOfWords ==
  ASSUME NEW T, NEW s \in Seq(T), NEW w \in Seq(T \ {Sep})
  PROVE  LET P == Pieces(s)
             Q == Pieces(s \o w)
         IN  /\ Len(Q) = Len(P)
             /\ \A p \in 1 .. Len(P) - 1 : Q[p] = P[p]
             /\ Q[Len(P)] = P[Len(P)] \o w
<1> DEFINE U == T \ {Sep}
           P == Pieces(s)
           N == Len(P)
           Longer(Q, t) == /\ Len(Q) = N
                           /\ \A p \in 1 .. N - 1 : Q[p] = P[p]
                           /\ Q[N] = P[N] \o t
           Good == {t \in Seq(U) : Longer(Pieces(s \o t), t)}
<1>1. P \in SomePieces(T) /\ N \in Nat /\ N >= 1
  <2>1. P \in SomePieces(T)
    BY PiecesStep
  <2> HIDE DEF P
  <2> QED
    BY <2>1, LenProperties DEF SomePieces
<1>2. P[N] \in Seq(T)
  <2> HIDE DEF P
  <2> QED
    BY <1>1, ElementOfSeq DEF SomePieces
<1>3. << >> \in Good
  <2>1. s \o << >> = s /\ P[N] \o << >> = P[N]
    BY <1>2, ConcatEmptySeq
  <2>2. << >> \in Seq(U)
    BY EmptySeq
  <2> HIDE DEF P, N, U
  <2>3. Longer(P, << >>)
    BY <2>1 DEF N
  <2>4. Pieces(s \o << >>) = P
    BY <2>1 DEF P
  <2> QED
    BY <2>2, <2>3, <2>4
<1>4. ASSUME NEW t \in Seq(U), NEW x \in U, t \in Good PROVE Append(t, x) \in Good
  <2>1. t \in Seq(T) /\ x \in T /\ x # Sep
    BY SeqMonotonic
  <2>2. Append(t, x) \in Seq(U)
    BY AppendProperties
  <2> HIDE DEF P, N, U
  <2> DEFINE v == s \o t
             Q == Pieces(v)
             R == Continued(Q, x)
  <2>3. v \in Seq(T) /\ s \o Append(t, x) = Append(v, x)
    BY <2>1, AppendToJoined
  <2>4. Longer(Q, t)
    BY <1>4
  <2> HIDE DEF v
  <2>5. Q \in SomePieces(T) /\ Pieces(Append(v, x)) = R
    BY <2>1, <2>3, PiecesStep
  <2> HIDE DEF Q
  <2>6. /\ Len(R) = N
        /\ \A p \in 1 .. N - 1 : R[p] = Q[p]
        /\ R[N] = Append(Q[N], x)
    <3>1. Len(Q) = N
      BY <2>4
    <3>2. Continues(Q, x, R)
      BY <2>1, <2>3, <2>5, PiecesContinue DEF Q
    <3> HIDE DEF R
    <3> QED
      BY <2>1, <3>1, <3>2 DEF Continues
  <2> DEFINE l == P[N]
  <2> HIDE DEF R
  <2>7. Append(l \o t, x) = l \o Append(t, x)
    <3>1. l \in Seq(T)
      BY <1>2
    <3>2. \A a, b \in Seq(T) : Append(a \o b, x) = a \o Append(b, x)
      BY <2>1, AppendToJoined
    <3> HIDE DEF l
    <3> QED
      BY <2>1, <3>1, <3>2
  <2>8. Longer(R, Append(t, x))
    BY <2>4, <2>6, <2>7
  <2>9. Pieces(s \o Append(t, x)) = R
    BY <2>3, <2>5
  <2> QED
    BY <2>2, <2>8, <2>9
<1>5. \A t \in Seq(U) : t \in Good
  <2> HIDE DEF Good, U
  <2> QED
    BY <1>3, <1>4, SeqInduction
<1>6. Longer(Pieces(s \o w), w)
  BY <1>5
<1> QED
  BY <1>6

\* A text of n pieces, those that F begins with.
HasPieces(s, n, F) == Len(Pieces(s)) = n /\ \A p \in 1 .. n : Pieces(s)[p] = F[p]

\* All of s but its k-th and last piece and the separator before that.
TakenOff(s, k, F, n, T) ==
  \E t \in Seq(T) : s = (t \o << Sep >>) \o F[k] /\ HasPieces(t, n, F)

\* So a text of n + 1 pieces is one of n pieces, a separator and a piece.
LEMMA TakeOffLast ==
  ASSUME NEW T, Sep \in T, NEW F, NEW s \in Seq(T), NEW n \in Nat, NEW k \in Nat,
         k = n + 1, n >= 1, HasPieces(s, k, F)
  PROVE  TakenOff(s, k, F, n, T)
<1> DEFINE P == Pieces(s)
<1>1. Len(P) = n + 1 /\ \A p \in 1 .. n + 1 : P[p] = F[p]
  BY DEF HasPieces
<1>2. CutLast(s, P, T)
  <2>1. Len(P) >= 2 => CutLast(s, P, T)
    BY LastPiece
  <2> HIDE DEF P
  <2> QED
    BY <1>1, <2>1
<1> HIDE DEF P
<1>3. PICK t \in Seq(T) : /\ s = Append(t, Sep) \o P[Len(P)]
                          /\ Len(Pieces(t)) = Len(P) - 1
                          /\ \A p \in 1 .. Len(P) - 1 : Pieces(t)[p] = P[p]
  BY <1>2 DEF CutLast
<1>4. Append(t, Sep) = t \o << Sep >>
  BY AppendIsConcat
<1>5. P[Len(P)] = F[k] /\ Len(P) - 1 = n
  BY <1>1
<1>6. HasPieces(t, n, F)
  BY <1>1, <1>3, <1>5 DEF HasPieces
<1> QED
  BY <1>3, <1>4, <1>5, <1>6 DEF TakenOff

\* A text of one piece is that piece.
LEMMA TakeOffAll ==
  ASSUME NEW T, NEW F, NEW s \in Seq(T), HasPieces(s, 1, F)
  PROVE  s = F[1]
<1> DEFINE P == Pieces(s)
<1>1. Len(P) = 1 => s = P[1]
  BY PiecesCount
<1>2. Len(P) = 1 /\ P[1] = F[1]
  BY DEF HasPieces
<1> HIDE DEF P
<1> QED
  BY <1>1, <1>2

\* A text of no more pieces than n has not n separators in a row.
LEMMA FewSeparators ==
  ASSUME NEW T, NEW s \in Seq(T), NEW n \in Nat \ {0}, Len(Pieces(s)) <= n
  PROVE  ~Has(s, n)
<1> SUFFICES ASSUME Has(s, n) PROVE FALSE
  OBVIOUS
<1> DEFINE b == Before(s, n)
           r == After(s, n)
<1>1. /\ b \in Seq(T) /\ r \in Seq(T) /\ Glued(s) = Glued(b) \o Glued(r)
      /\ Len(s) = Len(b) + n + Len(r)
  BY DividedText DEF Parts
<1> HIDE DEF b, r
<1>2. \A x \in Seq(T) : /\ Glued(x) \in Seq(T) /\ Len(x) \in Nat /\ Len(Glued(x)) \in Nat
                        /\ Len(Pieces(x)) \in Nat /\ Len(Pieces(x)) >= 1
                        /\ Len(x) + 1 = Len(Glued(x)) + Len(Pieces(x))
  <2> TAKE x \in Seq(T)
  <2>1. Glued(x) \in Seq(T)
    BY WithoutIsSeq DEF Glued
  <2>2. Pieces(x) \in SomePieces(T)
    BY PiecesStep
  <2>3. Len(Pieces(x)) \in Nat /\ Len(Pieces(x)) >= 1
    <3> DEFINE P == Pieces(x)
    <3> HIDE DEF P
    <3>1. P \in SomePieces(T)
      BY <2>2 DEF P
    <3>2. Len(P) \in Nat /\ Len(P) >= 1
      BY <3>1, LenProperties DEF SomePieces
    <3> QED
      BY <3>2 DEF P
  <2> QED
    BY <2>1, <2>3, PiecesCount, LenProperties
<1>3. Len(Glued(s)) = Len(Glued(b)) + Len(Glued(r))
  BY <1>1, <1>2, ConcatProperties
<1> QED
  BY <1>1, <1>2, <1>3

\* s is g and r with n separators between them.
Apart(s, g, n, r) == \E z \in Seq({Sep}) : Len(z) = n /\ s = (g \o z) \o r

\* g ends with no separator.
EndsClean(g) == g # << >> => g[Len(g)] # Sep

\* split with n separators makes g and r of s.
SplitsInto(s, n, g, r) == Has(s, n) /\ Before(s, n) = g /\ After(s, n) = r

\* Where the first n separators are: after a text that does not have them and does not
\* end with a separator.
LEMMA DividedAt ==
  ASSUME NEW T, Sep \in T, NEW s, NEW g \in Seq(T), NEW n \in Nat \ {0}, NEW r \in Seq(T),
         Apart(s, g, n, r), ~Has(g, n), EndsClean(g)
  PROVE  SplitsInto(s, n, g, r)
<1>1. PICK z \in Seq({Sep}) : Len(z) = n /\ s = (g \o z) \o r
  BY DEF Apart
<1> DEFINE L == Len(g)
           M == Len(r)
           f == First(s, n)
<1>2. L \in Nat /\ M \in Nat
  BY LenProperties
<1>3. /\ s \in Seq(T) /\ Len(s) = L + n + M
      /\ \A i \in 1 .. L : s[i] = g[i]
      /\ \A i \in L + 1 .. L + n : s[i] = Sep
      /\ \A i \in 1 .. M : s[L + n + i] = r[i]
  <2>1. z \in Seq(T)
    BY SeqMonotonic
  <2> DEFINE h == g \o z
  <2>2. /\ h \in Seq(T) /\ Len(h) = L + n
        /\ \A i \in 1 .. L + n : h[i] = IF i <= L THEN g[i] ELSE z[i - L]
    BY <1>1, <2>1, ConcatProperties
  <2> HIDE DEF h
  <2> DEFINE q == h \o r
  <2>3. /\ q \in Seq(T) /\ Len(q) = L + n + M
        /\ \A i \in 1 .. L + n + M : q[i] = IF i <= L + n THEN h[i] ELSE r[i - (L + n)]
    <3>1. /\ q \in Seq(T) /\ Len(q) = Len(h) + M
          /\ \A i \in 1 .. Len(h) + M : q[i] = IF i <= Len(h) THEN h[i] ELSE r[i - Len(h)]
      BY <2>2, ConcatProperties
    <3> HIDE DEF L, M, q
    <3> QED
      BY <2>2, <3>1
  <2> HIDE DEF q
  <2>4. s = q
    BY <1>1 DEF q, h
  <2>5. \A i \in 1 .. n : z[i] = Sep
    BY <1>1, ElementOfSeq
  <2> HIDE DEF L, M
  <2>6. \A i \in 1 .. L : i \in 1 .. L + n + M /\ i \in 1 .. L + n /\ i <= L + n /\ i <= L
    BY <1>2
  <2>7. \A i \in L + 1 .. L + n :
          i \in 1 .. L + n + M /\ i \in 1 .. L + n /\ i <= L + n /\ ~(i <= L) /\ i - L \in 1 .. n
    BY <1>2
  <2>8. \A i \in 1 .. M : /\ L + n + i \in 1 .. L + n + M /\ ~(L + n + i <= L + n)
                          /\ (L + n + i) - (L + n) = i
    BY <1>2
  <2> QED
    BY <2>2, <2>3, <2>4, <2>5, <2>6, <2>7, <2>8
<1>4. SepsAt(s, n, L + 1) /\ L + 1 \in 1 .. Len(s)
  <2> HIDE DEF L, M
  <2> QED
    BY <1>2, <1>3 DEF SepsAt
<1>5. Has(s, n)
  BY <1>4 DEF Has
<1>6. f \in 1 .. Len(s) /\ SepsAt(s, n, f) /\ \A j \in 1 .. f - 1 : ~SepsAt(s, n, j)
  BY <1>3, <1>5, FirstIs
<1> HIDE DEF f
<1>7. f <= L + 1
  <2> HIDE DEF L, M
  <2> QED
    BY <1>2, <1>3, <1>4, <1>6
<1>8. ASSUME f <= L PROVE FALSE
  <2>1. CASE f + n - 1 <= L
    <3>1. f \in 1 .. L /\ \A j \in f .. f + n - 1 : j \in 1 .. L /\ s[j] = Sep
      <4> HIDE DEF L, M
      <4> QED
        BY <1>2, <1>3, <1>6, <1>8, <2>1 DEF SepsAt
    <3>2. SepsAt(g, n, f)
      BY <1>3, <2>1, <3>1 DEF SepsAt
    <3> QED
      BY <3>1, <3>2 DEF Has
  <2>2. CASE ~(f + n - 1 <= L)
    <3>1. L \in f .. f + n - 1 /\ L \in 1 .. L
      <4> HIDE DEF L, M
      <4> QED
        BY <1>2, <1>3, <1>6, <1>8, <2>2
    <3>2. g[L] = Sep
      BY <1>3, <1>6, <3>1 DEF SepsAt
    <3>3. g # << >>
      BY <3>1, EmptySeq
    <3> QED
      BY <3>2, <3>3 DEF EndsClean
  <2> QED
    BY <2>1, <2>2
<1>9. f = L + 1
  <2> HIDE DEF L, M
  <2> QED
    BY <1>2, <1>3, <1>6, <1>7, <1>8
<1> DEFINE b == SubSeq(s, 1, L)
           a == SubSeq(s, L + 1 + n, Len(s))
<1>10. Before(s, n) = b /\ After(s, n) = a
  <2>1. f - 1 = L /\ f + n = L + 1 + n
    <3> HIDE DEF L
    <3> QED
      BY <1>2, <1>9
  <2> QED
    BY <2>1 DEF Before, After, f
<1>11. b = g
  <2>1. \A i \in 1 .. L : s[i] \in T
    BY <1>3, ElementOfSeq
  <2> HIDE DEF L
  <2>2. L \in Int /\ (IF 1 <= L THEN L - 1 + 1 ELSE 0) = L /\ L - 1 + 1 = L
        /\ \A i \in 1 .. L : 1 + i - 1 = i
    BY <1>2
  <2>3. b \in Seq(T) /\ Len(b) = L /\ \A i \in 1 .. L : b[i] = s[i]
    BY <2>1, <2>2, SubSeqProperties
  <2> HIDE DEF b
  <2> QED
    BY <1>3, <2>3, SeqEqual DEF L
<1>12. a = r
  <2> DEFINE m == L + 1 + n
             l == Len(s)
  <2>1. \A i \in m .. l : s[i] \in T
    <3>1. \A i \in m .. l : i \in 1 .. l
      <4> HIDE DEF L, M
      <4> QED
        BY <1>2, <1>3
    <3> QED
      BY <1>3, <3>1, ElementOfSeq
  <2>2. /\ m \in Int /\ l \in Int /\ (IF m <= l THEN l - m + 1 ELSE 0) = M /\ l - m + 1 = M
        /\ \A i \in 1 .. M : m + i - 1 = L + n + i
    <3> HIDE DEF L, M
    <3> QED
      BY <1>2, <1>3
  <2> HIDE DEF L, m, l
  <2>3. /\ SubSeq(s, m, l) \in Seq(T) /\ Len(SubSeq(s, m, l)) = M
        /\ \A i \in 1 .. M : SubSeq(s, m, l)[i] = s[m + i - 1]
    BY <2>1, <2>2, SubSeqProperties
  <2>4. a \in Seq(T) /\ Len(a) = M /\ \A i \in 1 .. M : a[i] = s[L + n + i]
    BY <2>2, <2>3 DEF m, l
  <2> HIDE DEF a
  <2> QED
    BY <1>3, <2>4, SeqEqual DEF M
<1> QED
  BY <1>5, <1>10, <1>11, <1>12 DEF SplitsInto

\* A text of words has no separator, and one that ends with words ends with no
\* separator.
LEMMA WordsOnly ==
  ASSUME NEW T, NEW w \in Seq(T \ {Sep}), NEW n \in Nat \ {0}
  PROVE  ~Has(w, n)
<1> SUFFICES ASSUME Has(w, n) PROVE FALSE
  OBVIOUS
<1>1. PICK i \in 1 .. Len(w) : SepsAt(w, n, i)
  BY DEF Has
<1>2. w[i] = Sep
  <2>1. i \in i .. i + n - 1
    BY LenProperties
  <2> QED
    BY <1>1, <2>1 DEF SepsAt
<1>3. w[i] \in T \ {Sep}
  BY ElementOfSeq
<1> QED
  BY <1>2, <1>3

\* A text that ends with words does not end with a separator.
LEMMA EndsWithWords ==
  ASSUME NEW T, NEW g \in Seq(T), NEW w \in Seq(T \ {Sep}), w # << >>
  PROVE  EndsClean(g \o w)
<1> DEFINE q == g \o w
           L == Len(g)
           M == Len(w)
<1>1. w \in Seq(T)
  BY SeqMonotonic
<1>2. L \in Nat /\ M \in Nat /\ M # 0
  BY LenProperties, EmptySeq
<1>3. /\ Len(q) = L + M
      /\ \A i \in 1 .. L + M : q[i] = IF i <= L THEN g[i] ELSE w[i - L]
  BY <1>1, ConcatProperties
<1>4. w[M] \in T \ {Sep}
  <2>1. M \in 1 .. M
    BY <1>2
  <2> QED
    BY <2>1, ElementOfSeq
<1> HIDE DEF q, L, M
<1>5. L + M \in 1 .. L + M /\ ~(L + M <= L) /\ (L + M) - L = M
  BY <1>2
<1>6. q[Len(q)] = w[M]
  <2>1. \A i \in 1 .. L + M : ~(i <= L) /\ i - L = M => q[i] = w[M]
    BY <1>3
  <2>2. q[L + M] = w[M]
    BY <1>5, <2>1
  <2> QED
    BY <1>3, <2>2
<1> QED
  BY <1>4, <1>6 DEF q, EndsClean

\* Two separators in a row.
LEMMA TwoSeps == << Sep >> \o << Sep >> \in Seq({Sep}) /\ Len(<< Sep >> \o << Sep >>) = 2
<1>1. << Sep >> \in Seq({Sep}) /\ Len(<< Sep >>) = 1
  OBVIOUS
<1> QED
  BY <1>1, ConcatProperties

\* The pieces of a text, each of words.
LEMMA PieceIsWords ==
  ASSUME NEW T, NEW s \in Seq(T)
  PROVE  \A p \in 1 .. Len(Pieces(s)) : Pieces(s)[p] \in Seq(T \ {Sep})
<1> DEFINE P == Pieces(s)
<1>1. P \in SomePieces(T \ {Sep})
  BY PiecesClean
<1> HIDE DEF P
<1>2. \A p \in 1 .. Len(P) : P[p] \in Seq(T \ {Sep})
  BY <1>1, ElementOfSeq DEF SomePieces
<1> QED
  BY <1>2 DEF P

\* Words alone do not end with a separator.
LEMMA WordsEndClean ==
  ASSUME NEW T, NEW w \in Seq(T \ {Sep})
  PROVE  EndsClean(w)
<1> SUFFICES ASSUME w # << >> PROVE w[Len(w)] # Sep
  BY DEF EndsClean
<1>1. Len(w) \in 1 .. Len(w)
  BY LenProperties, EmptySeq
<1> QED
  BY <1>1, ElementOfSeq

\* Words after a separator are another piece.
OnePieceMore(P, w, Q) ==
  Len(Q) = Len(P) + 1 /\ (\A p \in 1 .. Len(P) : Q[p] = P[p]) /\ Q[Len(P) + 1] = w

\* A separator and words add one piece.
LEMMA NextPiece ==
  ASSUME NEW T, Sep \in T, NEW s \in Seq(T), NEW w \in Seq(T \ {Sep})
  PROVE  OnePieceMore(Pieces(s), w, Pieces((s \o << Sep >>) \o w))
<1> DEFINE t == Append(s, Sep)
           P == Pieces(s)
           Q == Pieces(t)
           R == Pieces(t \o w)
           N == Len(P)
<1>1. t = s \o << Sep >> /\ t \in Seq(T)
  BY AppendIsConcat, AppendProperties
<1>2. N \in Nat /\ N >= 1 /\ Continues(P, Sep, Q)
  BY PiecesContinue
<1>3. /\ Len(R) = Len(Q)
      /\ \A p \in 1 .. Len(Q) - 1 : R[p] = Q[p]
      /\ R[Len(Q)] = Q[Len(Q)] \o w
  <2> HIDE DEF t
  <2> QED
    BY <1>1, PiecesOfWords
<1>4. << >> \o w = w
  BY ConcatEmptySeq
<1> HIDE DEF P, Q, R, t
<1>5. Len(Q) = N + 1 /\ (\A p \in 1 .. N : Q[p] = P[p]) /\ Q[N + 1] = << >>
  BY <1>2 DEF Continues
<1> HIDE DEF N
<1>6. Len(R) = N + 1 /\ (\A p \in 1 .. N : R[p] = P[p]) /\ R[N + 1] = w
  BY <1>2, <1>3, <1>4, <1>5
<1>7. OnePieceMore(P, w, R)
  BY <1>6 DEF OnePieceMore, N
<1> QED
  BY <1>1, <1>7 DEF P, R

\* Three pieces of words with the separator between them.
Three(a, b, c) == (((a \o << Sep >>) \o b) \o << Sep >>) \o c

\* The pieces of three words with separators between them.
LEMMA ThreePieces ==
  ASSUME NEW T, Sep \in T, NEW a \in Seq(T \ {Sep}), NEW b \in Seq(T \ {Sep}),
         NEW c \in Seq(T \ {Sep})
  PROVE  Three(a, b, c) \in Seq(T) /\ Pieces(Three(a, b, c)) = << a, b, c >>
<1> DEFINE C == T \ {Sep}
           k == (a \o << Sep >>) \o b
           f == Three(a, b, c)
           P == Pieces(a)
           Q == Pieces(k)
           R == Pieces(f)
<1>1. a \in Seq(T) /\ b \in Seq(T) /\ c \in Seq(T) /\ << Sep >> \in Seq(T)
  BY SeqMonotonic
<1>2. k \in Seq(T) /\ f \in Seq(T)
  BY <1>1, ConcatProperties DEF Three
<1>3. Len(P) = 1 /\ P[1] = a
  <2>1. Pieces(<< >>) = << << >> >> /\ << >> \in Seq(T)
    BY PiecesStep, EmptySeq
  <2> DEFINE O == Pieces(<< >>)
  <2>2. Len(O) = 1 /\ O[1] = << >>
    BY <2>1
  <2> DEFINE A == Pieces(<< >> \o a)
  <2>3. Len(A) = Len(O) /\ A[Len(O)] = O[Len(O)] \o a
    BY <2>1, PiecesOfWords
  <2>4. << >> \o a = a
    BY <1>1, ConcatEmptySeq
  <2>5. A = P
    BY <2>4
  <2> HIDE DEF A, O, P
  <2> QED
    BY <2>2, <2>3, <2>4, <2>5
<1>4. OnePieceMore(P, b, Q)
  BY <1>1, NextPiece
<1>5. OnePieceMore(Q, c, R)
  <2> HIDE DEF k
  <2>1. R = Pieces((k \o << Sep >>) \o c)
    BY DEF Three, k
  <2> QED
    BY <1>2, <2>1, NextPiece
<1>6. R \in Seq(Seq(T))
  <2>1. R \in SomePieces(T)
    BY <1>2, PiecesStep
  <2> HIDE DEF R
  <2> QED
    BY <2>1 DEF SomePieces
<1> HIDE DEF P, Q, R, f
<1>7. Len(Q) = 2 /\ Q[1] = a /\ Q[2] = b
  BY <1>3, <1>4 DEF OnePieceMore
<1>8. Len(R) = 3 /\ R[1] = a /\ R[2] = b /\ R[3] = c
  BY <1>5, <1>7 DEF OnePieceMore
<1>9. R = << a, b, c >>
  <2> DEFINE G == << a, b, c >>
  <2>1. G \in Seq(Seq(T)) /\ Len(G) = 3 /\ G[1] = a /\ G[2] = b /\ G[3] = c
    BY <1>1
  <2> HIDE DEF G
  <2>2. \A i \in 1 .. Len(R) : R[i] = G[i]
    BY <1>8, <2>1
  <2>3. R = G
    BY <1>6, <1>8, <2>1, <2>2, SeqEqual
  <2> QED
    BY <2>3 DEF G
<1> QED
  BY <1>2, <1>9 DEF R, f

-----------------------------------------------------------------------------
(* Names. *)

\* A name of four pieces, the third empty: "title#first##last".
LEMMA DocumentedName ==
  ASSUME NEW T, Sep \in T, NEW s \in Seq(T), Len(Pieces(s)) = 4,
         Pieces(s)[2] # << >>, Pieces(s)[3] = << >>
  PROVE  /\ ParseName(s).title = Strip(Pieces(s)[1])
         /\ ParseName(s).first = Strip(Pieces(s)[2])
         /\ ParseName(s).last = Strip(Pieces(s)[4])
<1> DEFINE F == Pieces(s)
           S == << Sep >>
<1>1. S \in Seq(T)
  OBVIOUS
<1>2. /\ F[2] \in Seq(T \ {Sep}) /\ F[4] \in Seq(T \ {Sep})
      /\ F[2] # << >> /\ F[3] = << >>
  <2>1. Len(F) = 4 /\ \A p \in 1 .. Len(F) : F[p] \in Seq(T \ {Sep})
    BY PieceIsWords
  <2>2. F[2] # << >> /\ F[3] = << >>
    OBVIOUS
  <2> HIDE DEF F
  <2> QED
    BY <2>1, <2>2
<1>3. F[2] \in Seq(T) /\ F[4] \in Seq(T)
  BY <1>2, SeqMonotonic
<1>4. HasPieces(s, 4, F)
  BY DEF HasPieces
<1> HIDE DEF F
<1> DEFINE Off(r) == \A k, n \in Nat : k = n + 1 /\ n >= 1 /\ HasPieces(r, k, F)
                                            => TakenOff(r, k, F, n, T)
<1>0. \A r \in Seq(T) : Off(r)
  BY TakeOffLast
<1>5. PICK t \in Seq(T) : s = (t \o S) \o F[4] /\ HasPieces(t, 3, F)
  <2>1. TakenOff(s, 4, F, 3, T)
    BY <1>0, <1>4
  <2> QED
    BY <2>1 DEF TakenOff
<1>6. PICK u \in Seq(T) : t = (u \o S) \o F[3] /\ HasPieces(u, 2, F)
  <2>1. TakenOff(t, 3, F, 2, T)
    BY <1>0, <1>5
  <2> QED
    BY <2>1 DEF TakenOff
<1>7. PICK v \in Seq(T) : u = (v \o S) \o F[2]
  <2>1. TakenOff(u, 2, F, 1, T)
    BY <1>0, <1>6
  <2> QED
    BY <2>1 DEF TakenOff
<1>8. Apart(s, u, 2, F[4])
  <2>1. t = u \o S
    <3>1. u \o S \in Seq(T)
      BY <1>1, ConcatProperties
    <3> QED
      BY <1>2, <1>6, <3>1, ConcatEmptySeq
  <2>2. t \o S = u \o (S \o S)
    BY <1>1, <2>1, ConcatAssociative
  <2> QED
    BY <1>5, <2>2, TwoSeps DEF Apart
<1>9. ~Has(u, 2) /\ 2 \in Nat \ {0}
  <2>1. Len(Pieces(u)) <= 2 /\ 2 \in Nat \ {0}
    BY <1>6 DEF HasPieces
  <2> QED
    BY <2>1, FewSeparators
<1>10. EndsClean(u)
  <2>1. v \o S \in Seq(T)
    BY <1>1, ConcatProperties
  <2> QED
    BY <1>2, <1>7, <2>1, EndsWithWords
<1>11. Has(s, 2) /\ Before(s, 2) = u /\ After(s, 2) = F[4]
  <2>1. \A n \in Nat \ {0} : Apart(s, u, n, F[4]) /\ ~Has(u, n) => SplitsInto(s, n, u, F[4])
    BY <1>3, <1>10, DividedAt
  <2> QED
    BY <1>8, <1>9, <2>1 DEF SplitsInto
<1>12. ~Has(F[4], 2)
  BY <1>2, <1>9, WordsOnly
<1>13. Len(Pieces(u)) = 2 /\ Pieces(u)[1] = F[1] /\ Pieces(u)[2] = F[2]
  BY <1>6 DEF HasPieces
<1> DEFINE names == Stripped(Pieces(u))
<1>14. Len(names) >= 2 /\ names[1] = Strip(F[1]) /\ names[2] = Strip(F[2])
  <2>1. Len(names) = Len(Pieces(u)) /\ \A p \in 1 .. Len(names) : names[p] = Strip(Pieces(u)[p])
    BY StrippedPieces
  <2> HIDE DEF names
  <2> QED
    BY <1>13, <2>1
<1>15. ParseName(s) = SplitName(names[1], names[2], Strip(F[4]))
  <2> HIDE DEF names
  <2> QED
    BY <1>11, <1>12, <1>14 DEF ParseName, names
<1> HIDE DEF names
<1>16. /\ ParseName(s).title = Strip(F[1]) /\ ParseName(s).first = Strip(F[2])
       /\ ParseName(s).last = Strip(F[4])
  BY <1>14, <1>15 DEF SplitName, Name
<1> QED
  BY <1>16 DEF F

\* A text that has a length is not empty.
LEMMA NotNothing ==
  ASSUME NEW T, NEW z \in Seq(T), Len(z) # 0
  PROVE  z # << >>
BY EmptySeq

\* The arithmetic of a name with three separators.
LEMMA ThreeSeparators ==
  ASSUME NEW lb \in Nat, NEW lr \in Nat, NEW wb \in Nat, NEW wr \in Nat, NEW nb \in Nat, NEW nr \in Nat,
         lb + 1 = wb + nb, lr + 1 = wr + nr, nb >= 2, nr >= 1,
         (lb + 2 + lr) - (wb + wr) = 3
  PROVE  nb = 2 /\ nr = 1
OBVIOUS

\* s is a, a separator and b.
TwoPieces(s, a, b) == s = (a \o << Sep >>) \o b

\* A text of two pieces.
LEMMA PiecesOfTwo ==
  ASSUME NEW T, Sep \in T, NEW s \in Seq(T), Len(Pieces(s)) = 2
  PROVE  /\ Pieces(s)[1] \in Seq(T) /\ Pieces(s)[2] \in Seq(T)
         /\ TwoPieces(s, Pieces(s)[1], Pieces(s)[2])
<1> DEFINE F == Pieces(s)
<1>1. HasPieces(s, 2, F)
  BY DEF HasPieces
<1>2. F[1] \in Seq(T) /\ F[2] \in Seq(T)
  <2> DEFINE Q == Seq(T)
  <2>1. F \in Seq(Q) /\ Len(F) = 2
    BY PiecesStep DEF SomePieces
  <2> HIDE DEF F, Q
  <2>2. 1 \in 1 .. Len(F) /\ 2 \in 1 .. Len(F)
    BY <2>1
  <2>3. F[1] \in Q /\ F[2] \in Q
    BY <2>1, <2>2, ElementOfSeq
  <2> QED
    BY <2>3 DEF Q
<1> HIDE DEF F
<1>3. \A k, n \in Nat : k = n + 1 /\ n >= 1 /\ HasPieces(s, k, F) => TakenOff(s, k, F, n, T)
  BY TakeOffLast
<1>4. TakenOff(s, 2, F, 1, T)
  BY <1>1, <1>3
<1>5. PICK t \in Seq(T) : s = (t \o << Sep >>) \o F[2] /\ HasPieces(t, 1, F)
  BY <1>4 DEF TakenOff
<1>6. t = F[1]
  BY <1>5, TakeOffAll
<1> QED
  BY <1>2, <1>5, <1>6 DEF F, TwoPieces

\* A name of four parts, split or not, keeps its words.
LEMMA FourPartName ==
  ASSUME NEW T, Sep \in T, Blank \in T, NEW s \in Seq(T), Len(s) - Len(Glued(s)) = 3
  PROVE  WordsOf(ParseName(s).full) = WordsOf(s)
<1> DEFINE b == Before(s, 2)
           r == After(s, 2)
           P == Pieces(b)
           names == Stripped(P)
<1>1. CASE ~(Has(s, 2) /\ ~Has(r, 2) /\ Len(names) >= 2)
  <2>1. ParseName(s).full = Spaced(s)
    BY <1>1 DEF ParseName, UnsplitName, Name
  <2> QED
    BY <2>1, SpacedIs
<1>2. CASE Has(s, 2) /\ ~Has(r, 2) /\ Len(names) >= 2
  <2>1. ParseName(s).full = Spread(Spread(names[1], names[2]), Strip(r))
    BY <1>2 DEF ParseName, SplitName, Name
  <2>2. /\ b \in Seq(T) /\ r \in Seq(T) /\ Parts(s, 2, b, r, T)
        /\ Len(s) = Len(b) + 2 + Len(r)
    BY <1>2, DividedText
  <2> HIDE DEF b, r
  <2>3. Len(b) + 1 = Len(Glued(b)) + Len(P)
    BY <2>2, PiecesCount
  <2>4. Len(r) + 1 = Len(Glued(r)) + Len(Pieces(r))
    BY <2>2, PiecesCount
  <2>5. /\ Len(P) \in Nat
        /\ Len(Pieces(r)) \in Nat /\ Len(Pieces(r)) >= 1
    <3>1. P \in SomePieces(T) /\ Pieces(r) \in SomePieces(T)
      BY <2>2, PiecesStep
    <3> HIDE DEF P
    <3> QED
      BY <3>1, LenProperties DEF SomePieces
  <2>6. /\ Glued(b) \in Seq(T) /\ Glued(r) \in Seq(T)
        /\ Len(Glued(b)) \in Nat /\ Len(Glued(r)) \in Nat /\ Len(b) \in Nat /\ Len(r) \in Nat
    BY <2>2, GluedEmpty, LenProperties
  <2>7. Len(Glued(s)) = Len(Glued(b)) + Len(Glued(r))
    <3>1. Glued(s) = Glued(b) \o Glued(r)
      BY <2>2 DEF Parts
    <3> QED
      BY <2>6, <3>1, ConcatProperties
  <2>8. Len(names) = Len(P) /\ \A p \in 1 .. Len(names) : names[p] = Strip(P[p])
    BY <2>2, StrippedPieces
  <2> HIDE DEF names, P
  <2>9. Len(P) = 2
    <3>1. (Len(b) + 2 + Len(r)) - (Len(Glued(b)) + Len(Glued(r))) = 3
      BY <2>2, <2>7
    <3> DEFINE lb == Len(b)
               lr == Len(r)
               wb == Len(Glued(b))
               wr == Len(Glued(r))
               nb == Len(P)
               nr == Len(Pieces(r))
    <3>2. nb >= 2
      BY <1>2, <2>8
    <3>3. /\ lb \in Nat /\ lr \in Nat /\ wb \in Nat /\ wr \in Nat /\ nb \in Nat /\ nr \in Nat
          /\ lb + 1 = wb + nb /\ lr + 1 = wr + nr /\ nb >= 2 /\ nr >= 1
          /\ (lb + 2 + lr) - (wb + wr) = 3
      BY <2>3, <2>4, <2>5, <2>6, <3>1, <3>2, Zenon
    <3> HIDE DEF lb, lr, wb, wr, nb, nr
    <3>4. nb = 2 /\ nr = 1
      BY <3>3, ThreeSeparators
    <3> QED
      BY <3>4 DEF nb
  <2> DEFINE x == P[1]
             y == P[2]
  <2>10. x \in Seq(T) /\ y \in Seq(T) /\ TwoPieces(b, x, y)
    BY <2>2, <2>9, PiecesOfTwo DEF P
  <2>11. names[1] = Strip(x) /\ names[2] = Strip(y)
    BY <2>8, <2>9
  <2> HIDE DEF x, y
  <2>12. WordsOf(b) = WordsOf(x) \o WordsOf(y)
    <3>1. WordsMeet(x, Sep, y)
      BY <2>10, WordsJoined
    <3> QED
      BY <2>10, <3>1 DEF WordsMeet, TwoPieces
  <2>13. WordsOf(s) = WordsOf(b) \o WordsOf(r)
    <3>1. PICK z \in Seq({Sep}) : Len(z) = 2 /\ s = b \o (z \o r)
      BY <2>2 DEF Parts
    <3>2. z \in Seq(Gap) /\ z # << >>
      <4>1. Seq({Sep}) \subseteq Seq(Gap)
        BY GapsAreTexts
      <4>2. z # << >>
        <5>1. Len(z) # 0
          BY <3>1
        <5> QED
          BY <5>1, NotNothing
      <4> QED
        BY <4>1, <4>2
    <3>3. WordsFollow(b \o (z \o r), b, r)
      BY <2>2, <3>2, GapBetween
    <3> QED
      BY <3>1, <3>3 DEF WordsFollow
  <2> DEFINE u == Strip(x)
             v == Strip(y)
             w == Strip(r)
             q == Spread(u, v)
  <2>14. /\ u \in Seq(T) /\ WordsOf(u) = WordsOf(x)
         /\ v \in Seq(T) /\ WordsOf(v) = WordsOf(y)
         /\ w \in Seq(T) /\ WordsOf(w) = WordsOf(r)
    BY <2>2, <2>10, StripKeepsWords
  <2> HIDE DEF u, v, w
  <2>15. q \in Seq(T) /\ WordsFollow(q, u, v)
    BY <2>14, BesideWords
  <2> HIDE DEF q
  <2>16. WordsFollow(Spread(q, w), q, w)
    BY <2>14, <2>15, BesideWords
  <2>17. ParseName(s).full = Spread(q, w)
    BY <2>1, <2>11 DEF u, v, w, q
  <2> QED
    BY <2>12, <2>13, <2>14, <2>15, <2>16, <2>17 DEF WordsFollow
<1> QED
  BY <1>1, <1>2

-----------------------------------------------------------------------------
(* Addresses in the documented form. *)

\* A text with no blank at its ends is not changed by strip().
LEMMA StripSolid ==
  ASSUME NEW T, NEW x \in Seq(T), x # << >> => x[1] # Blank /\ x[Len(x)] # Blank
  PROVE  Strip(x) = x
<1> DEFINE N == Len(x)
<1>1. DOMAIN x = 1 .. N /\ N \in Nat
  BY LenProperties
<1>2. CASE x = << >>
  <2>1. N = 0
    BY <1>2, EmptySeq
  <2>2. Solid(x) = {}
    BY <1>1, <2>1 DEF Solid
  <2> QED
    BY <1>2, <2>2 DEF Strip
<1>3. CASE x # << >>
  <2>1. N >= 1
    BY <1>1, <1>3, EmptySeq
  <2>2. 1 \in Solid(x) /\ N \in Solid(x) /\ Solid(x) \in SUBSET Nat /\ Solid(x) \in SUBSET (1 .. N)
    BY <1>1, <1>3, <2>1 DEF Solid
  <2>3. FirstOf(Solid(x)) \in Solid(x) /\ FirstOf(Solid(x)) <= 1
    BY <2>2, FirstOfIs
  <2>4. LastOf(Solid(x)) \in Solid(x) /\ N <= LastOf(Solid(x))
    BY <1>1, <2>2, LastOfIs
  <2> DEFINE f == FirstOf(Solid(x))
             l == LastOf(Solid(x))
  <2>5. f = 1 /\ l = N
    <3>1. f \in 1 .. N /\ l \in 1 .. N /\ f <= 1 /\ N <= l
      BY <2>2, <2>3, <2>4
    <3>2. N \in Nat
      BY <1>1
    <3> HIDE DEF f, l, N
    <3>3. f = 1
      BY <3>1, <3>2
    <3>4. l = N
      BY <3>1, <3>2
    <3> QED
      BY <3>3, <3>4
  <2>6. Strip(x) = SubSeq(x, 1, N)
    <3>1. Solid(x) # {}
      BY <2>2
    <3> QED
      BY <2>5, <3>1 DEF Strip
  <2>7. SubSeq(x, 1, N) = x
    BY SubSeqFull
  <2> QED
    BY <2>6, <2>7
<1> QED
  BY <1>2, <1>3

\* Nor is a text that was stripped.
LEMMA StripTwice ==
  ASSUME NEW T, NEW s \in Seq(T)
  PROVE  Strip(Strip(s)) = Strip(s)
<1> DEFINE x == Strip(s)
<1>1. x \in Seq(T) /\ (x # << >> => x[1] # Blank /\ x[Len(x)] # Blank)
  BY StripIs DEF Trimmed
<1> HIDE DEF x
<1>2. Strip(x) = x
  BY <1>1, StripSolid
<1> QED
  BY <1>2 DEF x

\* Blanks before a text.
LEMMA LStripOf ==
  ASSUME NEW T, NEW u \in Seq(T), NEW w \in Seq(T), u \in Seq({Blank}), w # << >>, w[1] # Blank
  PROVE  LStrip(u \o w) = w
<1> DEFINE s == u \o w
           K == Len(u)
           M == Len(w)
<1>1. K \in Nat /\ M \in Nat /\ M >= 1
  BY LenProperties, EmptySeq
<1>2. /\ s \in Seq(T) /\ Len(s) = K + M
      /\ \A i \in 1 .. K + M : s[i] = IF i <= K THEN u[i] ELSE w[i - K]
  BY ConcatProperties
<1>3. \A i \in 1 .. K : u[i] = Blank
  BY ElementOfSeq
<1> HIDE DEF s, K
<1>4. DOMAIN s = 1 .. K + M
  BY <1>2, LenProperties
<1>5. K + 1 \in 1 .. K + M /\ s[K + 1] = w[1]
  <2>1. K + 1 \in 1 .. K + M /\ ~(K + 1 <= K) /\ (K + 1) - K = 1
    BY <1>1
  <2> QED
    BY <1>2, <2>1
<1>6. K + 1 \in Solid(s) /\ \A i \in Solid(s) : i \in 1 .. K + M /\ i >= K + 1
  <2>1. K + 1 \in Solid(s)
    BY <1>4, <1>5 DEF Solid
  <2>2. ASSUME NEW i \in Solid(s) PROVE i \in 1 .. K + M /\ i >= K + 1
    <3>1. i \in 1 .. K + M /\ s[i] # Blank
      BY <1>4 DEF Solid
    <3>2. i <= K => s[i] = Blank
      BY <1>1, <1>2, <1>3, <3>1
    <3> QED
      BY <1>1, <3>1, <3>2
  <2> QED
    BY <2>1, <2>2
<1> DEFINE f == FirstOf(Solid(s))
<1>7. f = K + 1
  <2>1. Solid(s) \in SUBSET Nat /\ Solid(s) # {}
    BY <1>6
  <2>2. f \in Solid(s) /\ f <= K + 1
    BY <1>6, <2>1, FirstOfIs
  <2> HIDE DEF f
  <2> QED
    BY <1>1, <1>6, <2>2
<1>8. LStrip(s) = SubSeq(s, K + 1, K + M)
  BY <1>2, <1>6, <1>7 DEF LStrip
<1> DEFINE v == SubSeq(s, K + 1, K + M)
<1>9. /\ v \in Seq(T) /\ Len(v) = M /\ \A k \in 1 .. M : v[k] = s[K + k]
  <2>1. /\ K + 1 \in Nat /\ K + M \in Nat /\ K + 1 >= 1 /\ K + M <= Len(s) /\ K + 1 <= K + M + 1
        /\ (K + M) + 1 - (K + 1) = M
    BY <1>1, <1>2
  <2>2. \A k \in K + 1 .. K + M : s[k] \in T
    <3>1. \A k \in K + 1 .. K + M : k \in 1 .. Len(s)
      BY <1>1, <1>2
    <3> QED
      BY <1>2, <3>1, ElementOfSeq
  <2>3. /\ v \in Seq(T) /\ Len(v) = (K + M) + 1 - (K + 1)
        /\ \A k \in 1 .. (K + M) + 1 - (K + 1) : v[k] = s[(K + 1) + k - 1]
    BY <1>2, <2>1, <2>2, Stretch
  <2>4. \A k \in 1 .. M : (K + 1) + k - 1 = K + k
    BY <1>1
  <2> HIDE DEF v
  <2> QED
    BY <2>1, <2>3, <2>4
<1> HIDE DEF v
<1>10. \A k \in 1 .. M : v[k] = w[k]
  <2> TAKE k \in 1 .. M
  <2>1. K + k \in 1 .. K + M /\ ~(K + k <= K) /\ (K + k) - K = k
    BY <1>1
  <2> QED
    BY <1>2, <1>9, <2>1
<1>11. v = w
  BY <1>9, <1>10, SeqEqual
<1> QED
  BY <1>8, <1>11 DEF v, s

\* s is u and, after it, w.
IsJoined(s, u, w) == s = u \o w

\* Blanks before a text that goes on with another.
LEMMA LStripJoined ==
  ASSUME NEW T, NEW x \in Seq(T), NEW c \in Seq(T), c # << >>, c[1] # Blank
  PROVE  IsJoined(LStrip(x \o c), LStrip(x), c)
<1> DEFINE y == LStrip(x)
           w == y \o c
<1>1. /\ y \in Seq(T) /\ \E u \in Seq({Blank}) : x = u \o y
      /\ y # << >> => y[1] # Blank
  BY LStripIs
<1> HIDE DEF y
<1>2. PICK u \in Seq({Blank}) : x = u \o y
  BY <1>1
<1>3. u \in Seq(T)
  <2>1. DOMAIN u = 1 .. Len(u) /\ Len(u) \in Nat /\ Len(y) \in Nat
    BY <1>1, LenProperties
  <2>2. /\ Len(x) = Len(u) + Len(y)
        /\ \A i \in 1 .. Len(u) + Len(y) : x[i] = IF i <= Len(u) THEN u[i] ELSE y[i - Len(u)]
    <3> DEFINE A == {Blank} \cup T
    <3>1. u \in Seq(A) /\ y \in Seq(A)
      BY <1>1, SeqMonotonic
    <3> HIDE DEF A
    <3> QED
      BY <1>2, <3>1, ConcatProperties
  <2>3. \A i \in 1 .. Len(u) : i \in 1 .. Len(x) /\ x[i] = u[i]
    BY <2>1, <2>2
  <2>4. \A i \in 1 .. Len(u) : u[i] \in T
    BY <2>3, ElementOfSeq
  <2>5. u \in [1 .. Len(u) -> T]
    <3>1. u \in [1 .. Len(u) -> {Blank}]
      BY LenProperties
    <3> QED
      BY <2>4, <3>1
  <2> QED
    BY <2>1, <2>5, SeqDef
<1>4. w \in Seq(T) /\ w # << >> /\ w[1] # Blank
  <2>1. Len(y) \in Nat /\ Len(c) \in Nat /\ Len(c) >= 1
    BY <1>1, LenProperties, EmptySeq
  <2>2. /\ w \in Seq(T) /\ Len(w) = Len(y) + Len(c)
        /\ \A i \in 1 .. Len(y) + Len(c) : w[i] = IF i <= Len(y) THEN y[i] ELSE c[i - Len(y)]
    BY <1>1, ConcatProperties
  <2> HIDE DEF w
  <2>3. w # << >>
    BY <2>1, <2>2, EmptySeq
  <2>4. w[1] = IF 1 <= Len(y) THEN y[1] ELSE c[1 - Len(y)]
    BY <2>1, <2>2
  <2>5. CASE 1 <= Len(y)
    <3>1. y # << >>
      BY <1>1, <2>1, <2>5, EmptySeq
    <3> QED
      BY <1>1, <2>2, <2>3, <2>4, <2>5, <3>1
  <2>6. CASE ~(1 <= Len(y))
    <3>1. 1 - Len(y) = 1
      BY <2>1, <2>6
    <3> QED
      BY <2>2, <2>3, <2>4, <2>6, <3>1
  <2> QED
    BY <2>5, <2>6
<1>5. x \o c = u \o w
  <2>1. (u \o y) \o c = u \o (y \o c)
    BY <1>1, <1>3, ConcatAssociative
  <2> QED
    BY <1>2, <2>1
<1> HIDE DEF w
<1>6. LStrip(u \o w) = w
  BY <1>3, <1>4, LStripOf
<1> QED
  BY <1>5, <1>6 DEF w, y, IsJoined

\* A year is dropped from the house alone.
LEMMA DropYearOfHouse ==
  ASSUME NEW T, NEW a \in Seq(T), a # << >>, NEW c \in Seq(T), c # << >>, c[1] = Sep
  PROVE  DropYear(a \o c) = DropYear(a) \o c
<1> DEFINE s == a \o c
           L == Len(a)
           M == Len(c)
<1>1. L \in Nat /\ L >= 1 /\ M \in Nat /\ M >= 1
  BY LenProperties, EmptySeq
<1>2. /\ s \in Seq(T) /\ Len(s) = L + M
      /\ \A i \in 1 .. L + M : s[i] = IF i <= L THEN a[i] ELSE c[i - L]
  BY ConcatProperties
<1> HIDE DEF L, M
<1>3. Len(s) > 1 /\ s[1] = a[1]
  <2> HIDE DEF s
  <2>1. 1 \in 1 .. L + M /\ 1 <= L
    BY <1>1
  <2> QED
    BY <1>1, <1>2, <2>1
<1>4. CASE L > 1
  <2>1. s[2] = a[2]
    <3>1. 2 \in 1 .. L + M /\ 2 <= L
      BY <1>1, <1>4
    <3> HIDE DEF s
    <3> QED
      BY <1>2, <3>1
  <2>2. Tail(s) = Tail(a) \o c
    <3> DEFINE t == Tail(s)
               u == Tail(a)
               v == u \o c
    <3>1. s # << >>
      <4>1. Len(s) # 0
        BY <1>3
      <4> HIDE DEF s
      <4> QED
        BY <4>1, EmptySeq
    <3>2. t \in Seq(T) /\ Len(t) = Len(s) - 1 /\ \A i \in 1 .. Len(t) : t[i] = s[i + 1]
      <4> HIDE DEF s
      <4> QED
        BY <1>2, <3>1, HeadTailProperties
    <3>3. u \in Seq(T) /\ Len(u) = L - 1 /\ \A i \in 1 .. Len(u) : u[i] = a[i + 1]
      BY HeadTailProperties DEF L
    <3> HIDE DEF s, t, u
    <3>4. /\ v \in Seq(T) /\ Len(v) = Len(u) + M
          /\ \A i \in 1 .. Len(u) + M : v[i] = IF i <= Len(u) THEN u[i] ELSE c[i - Len(u)]
      BY <3>3, ConcatProperties DEF M
    <3> HIDE DEF v
    <3>5. Len(t) = L - 1 + M /\ Len(v) = L - 1 + M
      BY <1>1, <1>2, <3>2, <3>3, <3>4
    <3>6. ASSUME NEW i \in 1 .. Len(t) PROVE t[i] = v[i]
      <4>1. /\ i \in 1 .. (L - 1) + M /\ i + 1 \in 1 .. L + M
            /\ (i + 1 <= L <=> i <= L - 1) /\ (i + 1) - L = i - (L - 1)
            /\ (i <= L - 1 => i \in 1 .. L - 1)
        BY <1>1, <3>5
      <4>2. t[i] = IF i + 1 <= L THEN a[i + 1] ELSE c[(i + 1) - L]
        BY <1>2, <3>2, <4>1
      <4>3. v[i] = IF i <= L - 1 THEN u[i] ELSE c[i - (L - 1)]
        BY <3>3, <3>4, <4>1
      <4>4. i <= L - 1 => u[i] = a[i + 1]
        BY <3>3, <4>1
      <4> QED
        BY <4>1, <4>2, <4>3, <4>4
    <3>7. t = v
      BY <3>2, <3>4, <3>5, <3>6, SeqEqual
    <3> QED
      BY <3>7 DEF t, v, u
  <2>3. LStrip(Tail(s)) = LStrip(Tail(a)) \o c
    <3> DEFINE u == Tail(a)
    <3>1. u \in Seq(T)
      BY HeadTailProperties
    <3>2. c[1] # Blank
      BY DEF Sep, Blank
    <3> HIDE DEF u
    <3>3. IsJoined(LStrip(u \o c), LStrip(u), c)
      BY <3>1, <3>2, LStripJoined
    <3> QED
      BY <2>2, <3>3 DEF u, IsJoined
  <2> HIDE DEF s
  <2> QED
    BY <1>3, <1>4, <2>1, <2>3 DEF DropYear, L, s
<1>5. CASE ~(L > 1)
  <2>1. s[2] = Sep
    <3>1. 2 \in 1 .. L + M /\ ~(2 <= L) /\ 2 - L = 1
      BY <1>1, <1>5
    <3> HIDE DEF s
    <3> QED
      BY <1>2, <3>1
  <2>2. s[2] # Blank
    BY <2>1 DEF Sep, Blank
  <2> HIDE DEF s
  <2>3. DropYear(s) = s /\ DropYear(a) = a
    BY <1>5, <2>2 DEF DropYear, L
  <2> QED
    BY <2>3 DEF s
<1> QED
  BY <1>4, <1>5

\* What is left to share out when it is three pieces, none of them blank.
AreParts(e, h, m, a, b, c) ==
  e.house = h /\ e.moo = m /\ e.sub = a /\ e.dist = b /\ e.prov = c

AreWords(h, m, a, b, c, T) ==
  /\ h \in Seq(T \ {Sep}) /\ m \in Seq(T \ {Sep})
  /\ a \in Seq(T \ {Sep}) /\ b \in Seq(T \ {Sep}) /\ c \in Seq(T \ {Sep})

\* A rest of three filled pieces is shared out to the parts.
LEMMA ShareThree ==
  ASSUME NEW T, Sep \in T, NEW h, NEW m, NEW a, NEW b, NEW c, AreWords(h, m, a, b, c, T),
         Strip(a) # << >>, Strip(b) # << >>, Strip(c) # << >>
  PROVE  \A x, y : AreParts(ShareRest(Split(x, y, Three(a, b, c))), x, y, Strip(a), Strip(b), Strip(c))
<1> TAKE x, y
<1> DEFINE C == Seq(T \ {Sep})
           F == << a, b, c >>
           G == << Strip(a), Strip(b), Strip(c) >>
           r == Three(a, b, c)
           d == Split(x, y, r)
<1>0. a \in C /\ b \in C /\ c \in C
  BY DEF AreWords
<1>1. Stripped(Pieces(r)) = G
  <2>1. Pieces(r) = F
    BY <1>0, ThreePieces
  <2>2. Stripped(F) = G
    BY DEF Stripped
  <2> QED
    BY <2>1, <2>2
<1>2. Without(G, << >>) = G
  <2>0. Strip(a) \in C /\ Strip(b) \in C /\ Strip(c) \in C
    <3> DEFINE U == T \ {Sep}
    <3> HIDE DEF U
    <3>1. \A v \in Seq(U) : Strip(v) \in Seq(U)
      BY StripHolds
    <3> QED
      BY <1>0, <3>1 DEF U
  <2>1. G \in Seq(C \ {<< >>})
    BY <2>0
  <2> HIDE DEF G, C
  <2> QED
    BY <2>1, WithoutNone
<1>3. Len(G) = 3 /\ G # << >> /\ G[1] = Strip(a) /\ G[2] = Strip(b) /\ G[3] = Strip(c)
  OBVIOUS
<1> HIDE DEF G, r
<1>4. d = [house |-> x, moo |-> y, sub |-> << >>, dist |-> << >>, prov |-> << >>,
           rest |-> r, bound |-> TRUE]
  BY DEF Split
<1>5. d.rest = r
  BY <1>4
<1>6. ShareRest(d) = [d EXCEPT !.sub = IF G = << >> THEN @ ELSE G[1],
                               !.dist = IF Len(G) >= 2 THEN G[2] ELSE @,
                               !.prov = IF Len(G) >= 3 THEN G[3] ELSE @]
  <2> HIDE DEF d
  <2> QED
    BY <1>1, <1>2, <1>5 DEF ShareRest, Remaining
<1>7. ShareRest(d) = [d EXCEPT !.sub = Strip(a), !.dist = Strip(b), !.prov = Strip(c)]
  <2>1. Len(G) >= 2 /\ Len(G) >= 3
    BY <1>3
  <2> HIDE DEF d
  <2> QED
    BY <1>3, <1>6, <2>1
<1>8. AreParts([d EXCEPT !.sub = Strip(a), !.dist = Strip(b), !.prov = Strip(c)], x, y,
              Strip(a), Strip(b), Strip(c))
  <2> HIDE DEF d
  <2> QED
    BY <1>4 DEF AreParts
<1> QED
  BY <1>7, <1>8 DEF r

IsSplit(t, h, m, r) == Divide(t) = Split(h, m, r)

\* "house###village##subdistrict#district#province", the five of them words and the
\* last four not empty, is split as it says.
OfForm(t, h, m, a, b, c) ==
  \E r : Apart(t, h, 3, r) /\ Apart(r, m, 2, Three(a, b, c))

\* An address of the documented form is divided where the form says.
LEMMA DivideForm ==
  ASSUME NEW T, Sep \in T, NEW t, NEW h, NEW m, NEW a, NEW b, NEW c,
         AreWords(h, m, a, b, c, T), OfForm(t, h, m, a, b, c)
  PROVE  IsSplit(t, Strip(h), Strip(m), Three(a, b, c))
<1> DEFINE f == Three(a, b, c)
<1>0. /\ h \in Seq(T \ {Sep}) /\ m \in Seq(T \ {Sep})
      /\ a \in Seq(T \ {Sep}) /\ b \in Seq(T \ {Sep}) /\ c \in Seq(T \ {Sep})
  BY DEF AreWords
<1>1. f \in Seq(T)
  BY <1>0, ThreePieces
<1>2. h \in Seq(T) /\ m \in Seq(T) /\ EndsClean(h) /\ EndsClean(m)
  BY <1>0, SeqMonotonic, WordsEndClean
<1>3. \A n \in Nat \ {0} : ~Has(h, n) /\ ~Has(m, n)
  BY <1>0, WordsOnly
<1>4. PICK r : Apart(t, h, 3, r) /\ Apart(r, m, 2, f)
  BY DEF OfForm
<1> HIDE DEF f
<1>5. 2 \in Nat \ {0} /\ 3 \in Nat \ {0}
  OBVIOUS
<1>6. SplitsInto(r, 2, m, f)
  <2>1. \A n \in Nat \ {0} : Apart(r, m, n, f) /\ ~Has(m, n) => SplitsInto(r, n, m, f)
    BY <1>1, <1>2, DividedAt
  <2> QED
    BY <1>3, <1>4, <1>5, <2>1
<1>7. r \in Seq(T)
  <2>1. PICK z \in Seq({Sep}) : r = (m \o z) \o f
    BY <1>4 DEF Apart
  <2>2. z \in Seq(T)
    BY SeqMonotonic
  <2> QED
    BY <1>1, <1>2, <2>1, <2>2, ConcatProperties
<1>8. SplitsInto(t, 3, h, r)
  <2>1. \A n \in Nat \ {0} : Apart(t, h, n, r) /\ ~Has(h, n) => SplitsInto(t, n, h, r)
    BY <1>2, <1>7, DividedAt
  <2> QED
    BY <1>3, <1>4, <1>5, <2>1
<1>9. SplitAtThree(t) = Split(Strip(h), Strip(m), f)
  BY <1>6, <1>8 DEF SplitsInto, SplitAtThree
<1>10. Divide(t) = SplitAtThree(t)
  <2>1. PICK z \in Seq({Sep}) : t = (h \o z) \o r
    BY <1>4 DEF Apart
  <2>2. z \in Seq(T)
    BY SeqMonotonic
  <2>3. t \in Seq(T)
    BY <1>2, <1>7, <2>1, <2>2, ConcatProperties
  <2>4. Has(t, 3)
    BY <1>8 DEF SplitsInto
  <2>5. Has(t, 2)
    BY <2>3, <2>4, ThreeAreTwo
  <2> QED
    BY <2>4, <2>5 DEF Divide
<1> QED
  BY <1>9, <1>10 DEF f, IsSplit

IsAddress(s, h, m, a, b, c) == 
  ParseAddress(s) = Joined(Strip(h), Strip(m), Strip(a), Strip(b), Strip(c))

\* What parse_address makes of an address of the documented form.
LEMMA AddressOfForm ==
  ASSUME NEW T, Sep \in T, NEW s, NEW h, NEW m, NEW a, NEW b, NEW c,
         AreWords(h, m, a, b, c, T),
         Strip(a) # << >>, Strip(b) # << >>, Strip(c) # << >>,
         OfForm(DropYear(s), h, m, a, b, c)
  PROVE  IsAddress(s, h, m, a, b, c)
<1> DEFINE t == DropYear(s)
           d == Divide(t)
           f == Three(a, b, c)
           e == ShareRest(d)
           g == TakeVillage(TakeMarked(e))
<1>1. d = Split(Strip(h), Strip(m), f)
  <2>1. IsSplit(t, Strip(h), Strip(m), f)
    BY DivideForm
  <2> QED
    BY <2>1 DEF IsSplit
<1>2. AreParts(e, Strip(h), Strip(m), Strip(a), Strip(b), Strip(c))
  BY <1>1, ShareThree
<1>3. d.bound
  BY <1>1 DEF Split
<1>4. /\ h \in Seq(T \ {Sep}) /\ m \in Seq(T \ {Sep})
      /\ a \in Seq(T \ {Sep}) /\ b \in Seq(T \ {Sep}) /\ c \in Seq(T \ {Sep})
  BY DEF AreWords
<1> DEFINE U == T \ {Sep}
<1>5. \A x \in Seq(U) : Strip(x) \in Seq(U) /\ Glued(Strip(x)) = Strip(x) /\ Strip(Strip(x)) = Strip(x)
  <2> TAKE x \in Seq(U)
  <2> DEFINE y == Strip(x)
  <2>1. y \in Seq(U) /\ Strip(y) = y
    <3> HIDE DEF U
    <3> QED
      BY StripHolds, StripTwice
  <2> HIDE DEF y
  <2>2. Glued(y) = y
    BY <2>1, WithoutNone DEF Glued
  <2> QED
    BY <2>1, <2>2 DEF y
<1>6. ~Has(Strip(h), 1)
  <2> DEFINE y == Strip(h)
  <2>0. h \in Seq(U)
    BY <1>4
  <2>1. y \in Seq(U)
    <3> HIDE DEF U
    <3> QED
      BY <1>5, <2>0
  <2> HIDE DEF y
  <2>2. ~Has(y, 1)
    <3>1. y \in Seq(T \ {Sep})
      BY <2>1
    <3>2. 1 \in Nat \ {0}
      OBVIOUS
    <3> QED
      BY <3>1, <3>2, WordsOnly
  <2> QED
    BY <2>2 DEF y
<1> HIDE DEF e
<1>7. TakeMarked(e) = e /\ TakeVillage(e) = e
  BY <1>2, <1>6 DEF TakeMarked, TakeVillage, AreParts
<1>8. AreParts(g, Strip(h), Strip(m), Strip(a), Strip(b), Strip(c))
  BY <1>2, <1>7
<1>9. ParseAddress(s) = Cleaned(g)
  BY <1>3 DEF ParseAddress, e
<1> HIDE DEF g
<1>10. Cleaned(g) = Joined(Strip(Glued(Strip(h))), Strip(Glued(Strip(m))), Strip(Glued(Strip(a))),
                           Strip(Glued(Strip(b))), Strip(Glued(Strip(c))))
  BY <1>8 DEF Cleaned, AreParts
<1>11. /\ Strip(Glued(Strip(h))) = Strip(h) /\ Strip(Glued(Strip(m))) = Strip(m)
       /\ Strip(Glued(Strip(a))) = Strip(a) /\ Strip(Glued(Strip(b))) = Strip(b)
       /\ Strip(Glued(Strip(c))) = Strip(c)
  BY <1>4, <1>5
<1> QED
  BY <1>9, <1>10, <1>11 DEF IsAddress

\* Three separators in a row.
LEMMA ThreeSeps ==
  << Sep >> \o (<< Sep >> \o << Sep >>) \in Seq({Sep})
    /\ Len(<< Sep >> \o (<< Sep >> \o << Sep >>)) = 3
<1> DEFINE z == << Sep >> \o << Sep >>
           S == << Sep >>
<1>1. S \in Seq({Sep}) /\ Len(S) = 1
  OBVIOUS
<1>2. z \in Seq({Sep}) /\ Len(z) = 2
  BY TwoSeps
<1>3. \A x, y \in Seq({Sep}) : x \o y \in Seq({Sep}) /\ Len(x \o y) = Len(x) + Len(y)
  BY ConcatProperties
<1> HIDE DEF z, S
<1>4. S \o z \in Seq({Sep}) /\ Len(S \o z) = Len(S) + Len(z)
  BY <1>1, <1>2, <1>3
<1>5. Len(S \o z) = 3
  <2> DEFINE n == Len(S \o z)
  <2>1. n = Len(S) + Len(z)
    BY <1>4
  <2> HIDE DEF n
  <2>2. n = 3
    BY <1>1, <1>2, <2>1
  <2> QED
    BY <2>2 DEF n
<1> QED
  BY <1>4, <1>5 DEF z, S

\* (The provers rewrite Cat where they do not find their way with \o.)
Cat(x, y) == x \o y

Joins(T) == /\ \A x, y \in Seq(T) : Cat(x, y) \in Seq(T)
            /\ \A x, y, z \in Seq(T) : Cat(Cat(x, y), z) = Cat(x, Cat(y, z))

\* Joining of sequences, under a name that the provers can match.
LEMMA CatJoins ==
  ASSUME NEW T
  PROVE  Joins(T)
<1>1. \A x, y \in Seq(T) : x \o y \in Seq(T)
  BY ConcatProperties
<1>2. \A x, y, z \in Seq(T) : (x \o y) \o z = x \o (y \o z)
  BY ConcatAssociative
<1> QED
  BY <1>1, <1>2 DEF Joins, Cat

Grouped(S, h, m, a, b, c) ==
  ((((((((((h \o S) \o S) \o S) \o m) \o S) \o S) \o a) \o S) \o b) \o S) \o c
    = (h \o (S \o (S \o S))) \o ((m \o (S \o S)) \o ((((a \o S) \o b) \o S) \o c))

\* The eight pieces and their separators, grouped as the documented form is read.
LEMMA Regrouped ==
  ASSUME NEW T, NEW S \in Seq(T), NEW h \in Seq(T), NEW m \in Seq(T), NEW a \in Seq(T),
         NEW b \in Seq(T), NEW c \in Seq(T)
  PROVE  Grouped(S, h, m, a, b, c)
<1>1. \A x, y \in Seq(T) : Cat(x, y) \in Seq(T)
  BY CatJoins DEF Joins
<1>2. \A x, y, z \in Seq(T) : Cat(Cat(x, y), z) = Cat(x, Cat(y, z))
  BY CatJoins DEF Joins
<1>3. PICK z \in Seq(T) : z = Cat(S, S)
  BY <1>1
<1>4. PICK g \in Seq(T) : g = Cat(Cat(Cat(h, S), S), S)
  BY <1>1
<1>5. PICK k \in Seq(T) : k = Cat(Cat(a, S), b)
  BY <1>1
<1>6. PICK f \in Seq(T) : f = Cat(Cat(k, S), c)
  BY <1>1
<1>7. PICK d \in Seq(T) : d = Cat(Cat(g, m), z)
  BY <1>1
<1>8. g = Cat(h, Cat(S, z))
  BY <1>1, <1>2, <1>3, <1>4
<1>9. Cat(Cat(Cat(g, m), S), S) = d
  <2>1. \A x \in Seq(T) : Cat(Cat(x, S), S) = Cat(x, z)
    BY <1>2, <1>3
  <2> QED
    BY <1>1, <1>7, <2>1
<1>10. Cat(Cat(Cat(d, a), S), b) = Cat(d, k)
  BY <1>1, <1>2, <1>5
<1>11. Cat(Cat(Cat(d, k), S), c) = Cat(d, f)
  BY <1>1, <1>2, <1>6
<1>12. Cat(d, f) = Cat(g, Cat(Cat(m, z), f))
  BY <1>1, <1>2, <1>7
<1>13. Cat(Cat(Cat(Cat(Cat(Cat(Cat(Cat(Cat(Cat(Cat(h, S), S), S), m), S), S), a), S), b), S), c)
         = Cat(Cat(h, Cat(S, Cat(S, S))),
               Cat(Cat(m, Cat(S, S)), Cat(Cat(Cat(Cat(a, S), b), S), c)))
  BY <1>3, <1>4, <1>5, <1>6, <1>8, <1>9, <1>10, <1>11, <1>12
<1> QED
  BY <1>13 DEF Cat, Grouped

\* A text of eight pieces, of which the second, the third and the fifth are empty:
\* the pieces with the separators where the documented form has them.
LEMMA EightPieces ==
  ASSUME NEW T, Sep \in T, NEW F, NEW s \in Seq(T), HasPieces(s, 8, F),
         \A p \in 1 .. 8 : F[p] \in Seq(T), F[2] = << >>, F[3] = << >>, F[5] = << >>
  PROVE  LET S == << Sep >>
             r == (F[4] \o (S \o S)) \o Three(F[6], F[7], F[8])
         IN  s = (F[1] \o (S \o (S \o S))) \o r
<1> DEFINE S == << Sep >>
           Off(t) == \A k, n \in Nat : k = n + 1 /\ n >= 1 /\ HasPieces(t, k, F)
                                            => TakenOff(t, k, F, n, T)
<1>1. S \in Seq(T) /\ S \o S \in Seq(T)
  <2>1. S \in Seq(T)
    OBVIOUS
  <2> QED
    BY <2>1, ConcatProperties
<1>2. \A t \in Seq(T) : Off(t)
  BY TakeOffLast
<1>3. PICK t7 \in Seq(T) : s = (t7 \o S) \o F[8] /\ HasPieces(t7, 7, F)
  <2>1. TakenOff(s, 8, F, 7, T)
    BY <1>2
  <2> QED
    BY <2>1 DEF TakenOff
<1>4. PICK t6 \in Seq(T) : t7 = (t6 \o S) \o F[7] /\ HasPieces(t6, 6, F)
  <2>1. TakenOff(t7, 7, F, 6, T)
    BY <1>2, <1>3
  <2> QED
    BY <2>1 DEF TakenOff
<1>5. PICK t5 \in Seq(T) : t6 = (t5 \o S) \o F[6] /\ HasPieces(t5, 5, F)
  <2>1. TakenOff(t6, 6, F, 5, T)
    BY <1>2, <1>4
  <2> QED
    BY <2>1 DEF TakenOff
<1>6. PICK t4 \in Seq(T) : t5 = (t4 \o S) \o F[5] /\ HasPieces(t4, 4, F)
  <2>1. TakenOff(t5, 5, F, 4, T)
    BY <1>2, <1>5
  <2> QED
    BY <2>1 DEF TakenOff
<1>7. PICK t3 \in Seq(T) : t4 = (t3 \o S) \o F[4] /\ HasPieces(t3, 3, F)
  <2>1. TakenOff(t4, 4, F, 3, T)
    BY <1>2, <1>6
  <2> QED
    BY <2>1 DEF TakenOff
<1>8. PICK t2 \in Seq(T) : t3 = (t2 \o S) \o F[3] /\ HasPieces(t2, 2, F)
  <2>1. TakenOff(t3, 3, F, 2, T)
    BY <1>2, <1>7
  <2> QED
    BY <2>1 DEF TakenOff
<1>9. PICK t1 \in Seq(T) : t2 = (t1 \o S) \o F[2] /\ HasPieces(t1, 1, F)
  <2>1. TakenOff(t2, 2, F, 1, T)
    BY <1>2, <1>8
  <2> QED
    BY <2>1 DEF TakenOff
<1>10. t1 = F[1]
  <2>1. \A t \in Seq(T) : HasPieces(t, 1, F) => t = F[1]
    BY TakeOffAll
  <2> QED
    BY <1>9, <2>1
<1> HIDE DEF Off
<1>11. /\ F[1] \in Seq(T) /\ F[4] \in Seq(T) /\ F[6] \in Seq(T)
       /\ F[7] \in Seq(T) /\ F[8] \in Seq(T)
  OBVIOUS
<1>12. \A t \in Seq(T) : t \o S \in Seq(T) /\ (t \o S) \o << >> = t \o S
  BY <1>1, ConcatProperties, ConcatEmptySeq
<1> HIDE DEF S
<1>13. t2 = F[1] \o S /\ t3 = (F[1] \o S) \o S
  BY <1>8, <1>9, <1>10, <1>12
<1>14. t5 = ((((F[1] \o S) \o S) \o S) \o F[4]) \o S
  BY <1>6, <1>7, <1>12, <1>13
<1>15. s = ((((((((((F[1] \o S) \o S) \o S) \o F[4]) \o S) \o S) \o F[6]) \o S) \o F[7]) \o S) \o F[8]
  BY <1>3, <1>4, <1>5, <1>14
<1>16. s = (F[1] \o (S \o (S \o S)))
             \o ((F[4] \o (S \o S)) \o ((((F[6] \o S) \o F[7]) \o S) \o F[8]))
  <2>1. Grouped(S, F[1], F[4], F[6], F[7], F[8])
    BY <1>1, <1>11, Regrouped
  <2> QED
    BY <1>15, <2>1 DEF Grouped
<1> QED
  BY <1>16 DEF Three, S

HouseAlone(a, z, r) == DropYear((a \o z) \o r) = (DropYear(a) \o z) \o r

\* The year is dropped from the house number, whatever follows the separators.
LEMMA DropYearBefore ==
  ASSUME NEW T, NEW a \in Seq(T), a # << >>, NEW z \in Seq(T), NEW r \in Seq(T),
         z # << >>, z[1] = Sep
  PROVE  HouseAlone(a, z, r)
<1>1. PICK c \in Seq(T) : c = z \o r
  BY ConcatProperties
<1>2. c # << >> /\ c[1] = Sep
  <2>1. Len(z) \in Nat /\ Len(r) \in Nat /\ Len(z) # 0
    BY LenProperties, EmptySeq
  <2>2. 1 \in 1 .. Len(z) + Len(r) /\ 1 <= Len(z) /\ Len(z) + Len(r) # 0
    BY <2>1
  <2>3. Len(c) = Len(z) + Len(r) /\ c[1] = IF 1 <= Len(z) THEN z[1] ELSE r[1 - Len(z)]
    BY <1>1, <2>2, ConcatProperties
  <2>4. c # << >>
    BY <2>2, <2>3, EmptySeq
  <2> QED
    BY <2>2, <2>3, <2>4
<1>3. DropYear(a \o c) = DropYear(a) \o c
  BY <1>2, DropYearOfHouse
<1>4. \A x \in Seq(T) : (x \o z) \o r = x \o c
  BY <1>1, ConcatAssociative
<1>5. DropYear(a) \in Seq(T)
  BY DropYearDrops
<1> QED
  BY <1>3, <1>4, <1>5 DEF HouseAlone

\* An address in the documented form, whatever its parts are and with a year before
\* the house or without.
LEMMA DocumentedAddress ==
  ASSUME NEW T, Sep \in T, NEW F, NEW s \in Seq(T), HasPieces(s, 8, F),
         \A p \in 1 .. 8 : F[p] \in Seq(T \ {Sep}),
         F[2] = << >>, F[3] = << >>, F[5] = << >>,
         F[1] # << >>, Strip(F[6]) # << >>, Strip(F[7]) # << >>, Strip(F[8]) # << >>
  PROVE  ParseAddress(s) =
           Joined(Strip(DropYear(F[1])), Strip(F[4]), Strip(F[6]), Strip(F[7]), Strip(F[8]))
<1> DEFINE h == DropYear(F[1])
           z == << Sep >> \o (<< Sep >> \o << Sep >>)
           y == << Sep >> \o << Sep >>
           f == Three(F[6], F[7], F[8])
           r == (F[4] \o y) \o f
<1>1. \A p \in 1 .. 8 : F[p] \in Seq(T)
  BY SeqMonotonic
<1>2. s = (F[1] \o z) \o r
  BY <1>1, EightPieces
<1>3. z \in Seq({Sep}) /\ Len(z) = 3 /\ y \in Seq({Sep}) /\ Len(y) = 2
  BY ThreeSeps, TwoSeps
<1>4. z \in Seq(T) /\ y \in Seq(T)
  <2> HIDE DEF z, y
  <2> QED
    BY <1>3, SeqMonotonic
<1>5. /\ F[1] \in Seq(T \ {Sep}) /\ F[4] \in Seq(T \ {Sep}) /\ F[6] \in Seq(T \ {Sep})
      /\ F[7] \in Seq(T \ {Sep}) /\ F[8] \in Seq(T \ {Sep})
  OBVIOUS
<1>6. F[1] \in Seq(T) /\ F[4] \in Seq(T)
  BY <1>1
<1>7. f \in Seq(T)
  BY <1>5, ThreePieces
<1> HIDE DEF z, y, f
<1>8. r \in Seq(T)
  BY <1>4, <1>6, <1>7, ConcatProperties
<1>9. Apart(r, F[4], 2, f)
  BY <1>3 DEF Apart
<1> HIDE DEF r
<1>10. h \in Seq(T \ {Sep}) /\ h \in Seq(T)
  <2>1. h \in Seq(T \ {Sep})
    BY <1>5, DropYearDrops
  <2> HIDE DEF h
  <2> QED
    BY <2>1, SeqMonotonic
<1>11. DropYear(s) = (h \o z) \o r
  <2>1. z # << >> /\ z[1] = Sep
    <3>1. 1 \in 1 .. Len(z) /\ z # << >>
      <4>1. Len(z) = 3 /\ Len(z) # 0
        BY <1>3
      <4>2. z # << >>
        BY <1>3, <4>1, NotNothing
      <4> QED
        BY <4>1, <4>2
    <3>2. z[1] \in {Sep}
      BY <1>3, <3>1, ElementOfSeq
    <3> QED
      BY <3>1, <3>2
  <2>2. HouseAlone(F[1], z, r)
    BY <1>4, <1>6, <1>8, <2>1, DropYearBefore
  <2> QED
    BY <1>2, <2>2 DEF HouseAlone, h
<1> HIDE DEF h
<1>12. Apart(DropYear(s), h, 3, r)
  BY <1>3, <1>11 DEF Apart
<1>13. OfForm(DropYear(s), h, F[4], F[6], F[7], F[8])
  BY <1>9, <1>12 DEF OfForm, f
<1>14. AreWords(h, F[4], F[6], F[7], F[8], T)
  BY <1>5, <1>10 DEF AreWords
<1>15. \A a, b, c : /\ OfForm(DropYear(s), h, F[4], a, b, c) /\ AreWords(h, F[4], a, b, c, T)
                    /\ Strip(a) # << >> /\ Strip(b) # << >> /\ Strip(c) # << >>
                    => IsAddress(s, h, F[4], a, b, c)
  BY AddressOfForm
<1> QED
  BY <1>13, <1>14, <1>15 DEF h, IsAddress

-----------------------------------------------------------------------------
(* Texts without a blank after a separator. *)

Neat(s) == \A i \in 1 .. Len(s) - 1 : ~(s[i] = Sep /\ s[i + 1] = Blank)

\* Both halves of such a text are such texts, and the second ends as the text does.
LEMMA NeatJoined ==
  ASSUME NEW T, NEW x \in Seq(T), NEW y \in Seq(T)
  PROVE  /\ Neat(x \o y) => Neat(x) /\ Neat(y)
         /\ EndsClean(x \o y) => EndsClean(y)
<1> DEFINE s == x \o y
           M == Len(x)
           N == Len(y)
<1>1. /\ M \in Nat /\ N \in Nat /\ Len(s) = M + N
      /\ \A i \in 1 .. M + N : s[i] = IF i <= M THEN x[i] ELSE y[i - M]
  BY LenProperties, ConcatProperties
<1>2. s = << >> => N = 0
  BY <1>1, EmptySeq
<1>3. y # << >> => N # 0
  BY EmptySeq
<1> HIDE DEF s, M, N
<1>4. ASSUME NEW i \in 1 .. M - 1 PROVE s[i] = x[i] /\ s[i + 1] = x[i + 1] /\ i \in 1 .. M + N - 1
  <2>1. i \in 1 .. M + N /\ i + 1 \in 1 .. M + N /\ i <= M /\ i + 1 <= M /\ i \in 1 .. M + N - 1
    BY <1>1
  <2> QED
    BY <1>1, <2>1
<1>5. ASSUME NEW i \in 1 .. N - 1
      PROVE  s[M + i] = y[i] /\ s[(M + i) + 1] = y[i + 1] /\ M + i \in 1 .. M + N - 1
  <2>1. /\ M + i \in 1 .. M + N /\ (M + i) + 1 \in 1 .. M + N /\ ~(M + i <= M) /\ ~((M + i) + 1 <= M)
        /\ (M + i) - M = i /\ ((M + i) + 1) - M = i + 1 /\ M + i \in 1 .. M + N - 1
    BY <1>1
  <2> QED
    BY <1>1, <2>1
<1>6. (\A i \in 1 .. M + N - 1 : ~(s[i] = Sep /\ s[i + 1] = Blank)) =>
         \A i \in 1 .. M - 1 : ~(x[i] = Sep /\ x[i + 1] = Blank)
  BY <1>4
<1>7. (\A i \in 1 .. M + N - 1 : ~(s[i] = Sep /\ s[i + 1] = Blank)) =>
         \A i \in 1 .. N - 1 : ~(y[i] = Sep /\ y[i + 1] = Blank)
  BY <1>5
<1>8. y # << >> => s # << >> /\ s[M + N] = y[N]
  <2> SUFFICES ASSUME y # << >> PROVE s # << >> /\ s[M + N] = y[N]
    OBVIOUS
  <2>1. M + N \in 1 .. M + N /\ ~(M + N <= M) /\ (M + N) - M = N
    BY <1>1, <1>3
  <2>2. s[M + N] = y[N]
    BY <1>1, <2>1
  <2>3. s # << >>
    BY <1>2, <1>3
  <2> QED
    BY <2>2, <2>3
<1>9. Neat(s) => Neat(x) /\ Neat(y)
  BY <1>1, <1>6, <1>7 DEF Neat, M, N
<1>10. EndsClean(s) => EndsClean(y)
  BY <1>1, <1>8 DEF EndsClean, N
<1> QED
  BY <1>9, <1>10 DEF s

\* Such a text that ends with no separator has a word, if it is not blank.
LEMMA NeatHasWord ==
  ASSUME NEW T, NEW x \in Seq(T), Neat(x), EndsClean(x), Strip(x) # << >>
  PROVE  HasWord(Strip(x))
<1> DEFINE l == LastOf(Solid(x))
<1>1. Solid(x) # {}
  BY DEF Strip
<1>2. /\ l \in 1 .. Len(x) /\ x[l] # Blank
      /\ \A i \in 1 .. Len(x) : i > l => x[i] = Blank
  BY <1>1, SolidIs
<1> HIDE DEF l
<1>3. Len(x) \in Nat
  BY LenProperties
<1>4. x # << >>
  BY <1>2, EmptySeq
<1>5. x[l] # Sep
  <2>1. CASE l = Len(x)
    BY <1>4, <2>1 DEF EndsClean
  <2>2. CASE l # Len(x)
    <3>1. l \in 1 .. Len(x) - 1 /\ l + 1 \in 1 .. Len(x) /\ l + 1 > l
      BY <1>2, <1>3, <2>2
    <3>2. x[l + 1] = Blank
      BY <1>2, <3>1
    <3> QED
      BY <3>1, <3>2 DEF Neat
  <2> QED
    BY <2>1, <2>2
<1>6. Holds(x, x[l])
  BY <1>2 DEF Holds
<1>7. Holds(Strip(x), x[l])
  BY <1>2, <1>6, StripHolds
<1> QED
  BY <1>2, <1>5, <1>7 DEF HasWord, IsPiece

\* split of such a text.
LEMMA NeatDivided ==
  ASSUME NEW T, Sep \in T, NEW s \in Seq(T), NEW n \in Nat \ {0}, Has(s, n)
  PROVE  /\ Before(s, n) \in Seq(T) /\ After(s, n) \in Seq(T) /\ EndsClean(Before(s, n))
         /\ Neat(s) => Neat(Before(s, n)) /\ Neat(After(s, n))
         /\ EndsClean(s) => EndsClean(After(s, n))
<1> DEFINE b == Before(s, n)
           r == After(s, n)
<1>1. b \in Seq(T) /\ r \in Seq(T) /\ Parts(s, n, b, r, T) /\ EndsClean(b)
  BY DividedText DEF EndsClean
<1> HIDE DEF b, r
<1>2. PICK z \in Seq({Sep}) : s = b \o (z \o r)
  BY <1>1 DEF Parts
<1>3. z \in Seq(T)
  BY SeqMonotonic
<1>4. z \o r \in Seq(T)
  BY <1>1, <1>3, ConcatProperties
<1>5. Neat(s) => Neat(b) /\ Neat(z \o r)
  BY <1>1, <1>2, <1>4, NeatJoined
<1>6. Neat(z \o r) => Neat(r)
  BY <1>1, <1>3, NeatJoined
<1>7. EndsClean(s) => EndsClean(z \o r)
  BY <1>1, <1>2, <1>4, NeatJoined
<1>8. EndsClean(z \o r) => EndsClean(r)
  BY <1>1, <1>3, NeatJoined
<1> QED
  BY <1>1, <1>5, <1>6, <1>7, <1>8 DEF b, r

\* No village of a tidy address is blanks and separators alone.
LEMMA NeatVillage ==
  ASSUME NEW T, Sep \in T, Blank \in T, NEW t \in Seq(T), Neat(t), Divide(t).bound
  PROVE  Divide(t).moo # << >> => HasWord(Divide(t).moo)
<1>0. 1 \in Nat \ {0} /\ 2 \in Nat \ {0} /\ 3 \in Nat \ {0}
  OBVIOUS
<1>1. CASE Has(t, 3)
  <2> DEFINE tail == After(t, 3)
             marks == BlanksBeforeMark(tail)
             i == FirstOf(marks)
             moo == SplitAtThree(t).moo
  <2>1. Divide(t).moo = moo
    <3>1. Has(t, 2)
      BY <1>1, ThreeAreTwo
    <3>2. Divide(t) = SplitAtThree(t)
      BY <1>1, <3>1 DEF Divide
    <3> QED
      BY <3>2
  <2>2. tail \in Seq(T) /\ Neat(tail)
    BY <1>0, <1>1, NeatDivided
  <2>3. CASE Has(tail, 2)
    <3>1. moo = Strip(Before(tail, 2))
      BY <2>3 DEF SplitAtThree, Split
    <3> HIDE DEF tail, moo
    <3>2. Before(tail, 2) \in Seq(T) /\ Neat(Before(tail, 2)) /\ EndsClean(Before(tail, 2))
      BY <1>0, <2>2, <2>3, NeatDivided
    <3> QED
      BY <2>1, <3>1, <3>2, NeatHasWord
  <2>4. CASE ~Has(tail, 2) /\ marks # {}
    <3>1. moo = Upto(tail, i)
      BY <2>4 DEF SplitAtThree, Split
    <3> HIDE DEF tail, moo
    <3>2. DOMAIN tail = 1 .. Len(tail) /\ Len(tail) \in Nat
      BY <2>2, LenProperties
    <3>3. marks \in SUBSET Nat /\ \A k \in marks : k \in 1 .. Len(tail) /\ tail[k] = Blank
      BY <3>2 DEF BlanksBeforeMark
    <3>4. i \in 1 .. Len(tail) /\ tail[i] = Blank
      BY <2>4, <3>3, FirstOfIs
    <3> HIDE DEF marks, i
    <3> DEFINE x == SubSeq(tail, 1, i - 1)
               y == SubSeq(tail, i, Len(tail))
    <3>5. x \in Seq(T) /\ y \in Seq(T) /\ tail = x \o y
      BY <2>2, <3>4, CutText
    <3>6. /\ Len(x) = i - 1
          /\ \A k \in 1 .. i - 1 : x[k] = tail[k]
      <4>1. /\ Len(SubSeq(tail, 1, i - 1)) = (i - 1) + 1 - 1
            /\ \A k \in 1 .. (i - 1) + 1 - 1 : SubSeq(tail, 1, i - 1)[k] = tail[1 + k - 1]
        <5>1. /\ 1 \in Nat /\ i - 1 \in Nat /\ 1 >= 1 /\ i - 1 <= Len(tail) /\ 1 <= (i - 1) + 1
          BY <3>2, <3>4
        <5>2. \A k \in 1 .. i - 1 : tail[k] \in T
          BY <2>2, <3>2, <3>4, ElementOfSeq
        <5> QED
          BY <2>2, <5>1, <5>2, Stretch
      <4>2. (i - 1) + 1 - 1 = i - 1 /\ \A k \in 1 .. i - 1 : 1 + k - 1 = k
        BY <3>2, <3>4
      <4> QED
        BY <4>1, <4>2
    <3> HIDE DEF x, y
    <3>7. Neat(x)
      BY <2>2, <3>5, NeatJoined
    <3>8. EndsClean(x)
      <4> SUFFICES ASSUME x # << >> PROVE x[Len(x)] # Sep
        BY DEF EndsClean
      <4>1. Len(x) # 0
        BY <3>5, EmptySeq
      <4>2. /\ i - 1 \in 1 .. i - 1 /\ i - 1 \in 1 .. Len(tail) - 1 /\ (i - 1) + 1 = i
        BY <3>2, <3>4, <3>6, <4>1
      <4>3. tail[i - 1] # Sep
        BY <2>2, <3>4, <4>2 DEF Neat
      <4> QED
        BY <3>6, <4>2, <4>3
    <3>9. moo = Strip(x)
      BY <3>1 DEF Upto, x
    <3> QED
      BY <2>1, <3>5, <3>7, <3>8, <3>9, NeatHasWord
  <2>5. CASE ~Has(tail, 2) /\ marks = {} /\ Has(tail, 1)
    <3>1. moo = Strip(Before(tail, 1))
      BY <2>5 DEF SplitAtThree, Split
    <3> HIDE DEF tail, moo
    <3>2. Before(tail, 1) \in Seq(T) /\ Neat(Before(tail, 1)) /\ EndsClean(Before(tail, 1))
      BY <1>0, <2>2, <2>5, NeatDivided
    <3> QED
      BY <2>1, <3>1, <3>2, NeatHasWord
  <2>6. CASE ~Has(tail, 2) /\ marks = {} /\ ~Has(tail, 1)
    <3>1. moo = Strip(tail)
      BY <2>6 DEF SplitAtThree, Split
    <3> HIDE DEF tail, moo
    <3>2. EndsClean(tail)
      <4> SUFFICES ASSUME tail # << >> PROVE tail[Len(tail)] # Sep
        BY DEF EndsClean
      <4>1. Len(tail) \in Nat /\ Len(tail) # 0
        BY <2>2, LenProperties, EmptySeq
      <4>2. Holds(tail, tail[Len(tail)])
        BY <4>1 DEF Holds
      <4> QED
        BY <2>2, <2>6, <4>2, NoSeparator
    <3> QED
      BY <2>1, <2>2, <3>1, <3>2, NeatHasWord
  <2> QED
    BY <2>3, <2>4, <2>5, <2>6
<1>2. CASE ~Has(t, 3) /\ Has(t, 2)
  <2> DEFINE front == Before(t, 2)
             moo == SplitAtTwo(t).moo
  <2>1. Divide(t).moo = moo
    BY <1>2 DEF Divide
  <2>2. front \in Seq(T) /\ Neat(front) /\ EndsClean(front)
    BY <1>0, <1>2, NeatDivided
  <2>3. CASE Has(front, 1)
    <3>1. moo = Strip(After(front, 1))
      BY <2>3 DEF SplitAtTwo, Split
    <3> HIDE DEF front, moo
    <3>2. After(front, 1) \in Seq(T) /\ Neat(After(front, 1)) /\ EndsClean(After(front, 1))
      BY <1>0, <2>2, <2>3, NeatDivided
    <3> QED
      BY <2>1, <3>1, <3>2, NeatHasWord
  <2>4. CASE ~Has(front, 1)
    BY <2>1, <2>4 DEF SplitAtTwo, Split
  <2> QED
    BY <2>3, <2>4
<1>3. CASE ~Has(t, 3) /\ ~Has(t, 2) /\ Has(t, 1)
  BY <1>3 DEF Divide, SplitAtOne
<1>4. CASE ~Has(t, 3) /\ ~Has(t, 2) /\ ~Has(t, 1)
  BY <1>4 DEF Divide, Split
<1> QED
  BY <1>1, <1>2, <1>3, <1>4

-----------------------------------------------------------------------------
(* Whole words. *)

\* The words of x are words of s.
WordPart(x, s) == \A w : Holds(WordsOf(x), w) => Holds(WordsOf(s), w)

\* Texts with a gap between them.
LEMMA WordPartOfTwo ==
  ASSUME NEW T, Sep \in T, Blank \in T, NEW s, NEW x \in Seq(T), NEW y \in Seq(T), WordsFollow(s, x, y)
  PROVE  WordPart(x, s) /\ WordPart(y, s)
<1> DEFINE u == WordsOf(x)
           v == WordsOf(y)
<1>1. u \in Seq(Seq(T)) /\ v \in Seq(Seq(T))
  BY WordsJoined
<1>2. WordsOf(s) = u \o v
  BY DEF WordsFollow
<1> HIDE DEF u, v
<1>3. \A w : Holds(u \o v, w) <=> Holds(u, w) \/ Holds(v, w)
  BY <1>1, HoldsOfJoined
<1> QED
  BY <1>2, <1>3 DEF WordPart, u, v

\* split('#' * n, 1).
LEMMA WordsOfDivided ==
  ASSUME NEW T, Sep \in T, Blank \in T, NEW s \in Seq(T), NEW n \in Nat \ {0}, Has(s, n)
  PROVE  /\ Before(s, n) \in Seq(T) /\ After(s, n) \in Seq(T)
         /\ WordPart(Before(s, n), s) /\ WordPart(After(s, n), s)
<1> DEFINE b == Before(s, n)
           r == After(s, n)
<1>1. b \in Seq(T) /\ r \in Seq(T) /\ Parts(s, n, b, r, T)
  BY DividedText
<1> HIDE DEF b, r
<1>2. PICK z \in Seq({Sep}) : Len(z) = n /\ s = b \o (z \o r)
  BY <1>1 DEF Parts
<1>3. z \in Seq(Gap) /\ z # << >>
  <2>1. Len(z) # 0
    BY <1>2
  <2> QED
    BY <2>1, GapsAreTexts, NotNothing
<1>4. WordsFollow(b \o (z \o r), b, r)
  BY <1>1, <1>3, GapBetween
<1> QED
  BY <1>1, <1>2, <1>4, WordPartOfTwo DEF b, r

\* What follows a blank.
LEMMA WordsAfterBlank ==
  ASSUME NEW T, Sep \in T, Blank \in T, NEW x \in Seq(T), NEW y \in Seq(T), y # << >>, y[1] = Blank
  PROVE  WordPart(y, x \o y)
<1> DEFINE r == Tail(y)
<1>1. r \in Seq(T) /\ y = << Blank >> \o r
  <2>1. /\ Tail(y) \in Seq(T) /\ Len(Tail(y)) = Len(y) - 1
        /\ \A k \in 1 .. Len(y) - 1 : Tail(y)[k] = y[k + 1]
    BY HeadTailProperties
  <2>2. Len(y) \in Nat /\ Len(y) # 0 /\ DOMAIN y = 1 .. Len(y)
    BY LenProperties, EmptySeq
  <2> HIDE DEF r
  <2>3. r \in Seq(T) /\ Len(r) = Len(y) - 1 /\ \A k \in 1 .. Len(y) - 1 : r[k] = y[k + 1]
    BY <2>1 DEF r
  <2>4. << Blank >> \in Seq(T) /\ Len(<< Blank >>) = 1 /\ << Blank >>[1] = Blank
    OBVIOUS
  <2> DEFINE B == << Blank >>
  <2> HIDE DEF B
  <2>5. /\ B \o r \in Seq(T) /\ Len(B \o r) = 1 + Len(r)
        /\ \A k \in 1 .. 1 + Len(r) : (B \o r)[k] = IF k <= 1 THEN B[k] ELSE r[k - 1]
    BY <2>3, <2>4, ConcatProperties DEF B
  <2> DEFINE q == B \o r
  <2> HIDE DEF q
  <2>6. q \in Seq(T) /\ Len(q) = Len(y)
    BY <2>2, <2>3, <2>5 DEF q
  <2>7. ASSUME NEW k \in 1 .. Len(y) PROVE q[k] = y[k]
    <3>1. CASE k = 1
      <4>1. k \in 1 .. 1 + Len(r) /\ k <= 1
        BY <2>2, <2>3, <3>1
      <4> QED
        BY <2>4, <2>5, <3>1, <4>1 DEF q, B
    <3>2. CASE k # 1
      <4>1. k \in 1 .. 1 + Len(r) /\ ~(k <= 1) /\ k - 1 \in 1 .. Len(y) - 1 /\ (k - 1) + 1 = k
        BY <2>2, <2>3, <3>2
      <4> QED
        BY <2>3, <2>5, <4>1 DEF q
    <3> QED
      BY <3>1, <3>2
  <2>8. q = y
    BY <2>6, <2>7, SeqEqual
  <2> QED
    BY <2>3, <2>8 DEF q, B
<1> HIDE DEF r
<1>2. << Blank >> \in Seq(Gap) /\ << Blank >> # << >>
  BY DEF Gap
<1> DEFINE z == << Blank >>
<1> HIDE DEF z
<1>3. WordsFollow(x \o (z \o r), x, r)
  BY <1>1, <1>2, GapBetween DEF z
<1>4. SameWords(z \o r, r)
  BY <1>1, <1>2, GapBefore DEF z
<1>5. WordPart(r, x \o (z \o r))
  BY <1>1, <1>3, WordPartOfTwo
<1> QED
  BY <1>1, <1>4, <1>5 DEF WordPart, SameWords, z

\* Nothing has no words.
LEMMA WordsOfNothing == WordsOf(<< >>) = << >> /\ \A s : WordPart(<< >>, s)
<1>1. WordsOf(<< >>) = << >>
  BY GapsHaveNoWords, EmptySeq
<1> QED
  BY <1>1, HoldsOfEmpty DEF WordPart

\* split('#').
LEMMA WordsOfPieces ==
  ASSUME NEW T, Sep \in T, Blank \in T, NEW s \in Seq(T)
  PROVE  \A p \in 1 .. Len(Pieces(s)) : WordPart(Pieces(s)[p], s)
<1> DEFINE S == {n \in Nat : \A t \in Seq(T) : Len(Pieces(t)) = n =>
                               \A p \in 1 .. n : WordPart(Pieces(t)[p], t)}
<1>1. 0 \in S
  OBVIOUS
<1>2. ASSUME NEW n \in Nat, n \in S PROVE n + 1 \in S
  <2> SUFFICES ASSUME NEW t \in Seq(T), Len(Pieces(t)) = n + 1, NEW p \in 1 .. n + 1
               PROVE  WordPart(Pieces(t)[p], t)
    OBVIOUS
  <2>1. CASE n = 0
    <3>1. Pieces(t)[1] = t
      <4>1. Len(Pieces(t)) = 1
        BY <2>1
      <4> QED
        BY <4>1, PiecesCount
    <3>2. p = 1
      BY <2>1
    <3> QED
      BY <3>1, <3>2 DEF WordPart
  <2>2. CASE n # 0
    <3> DEFINE P == Pieces(t)
               c == P[n + 1]
    <3>1. CutLast(t, P, T)
      <4>1. Len(P) >= 2
        BY <2>2
      <4> QED
        BY <4>1, LastPiece
    <3>2. PICK q \in Seq(T) : /\ t = Append(q, Sep) \o c
                              /\ Len(Pieces(q)) = n
                              /\ \A k \in 1 .. n : Pieces(q)[k] = P[k]
      <4>1. Len(P) = n + 1 /\ Len(P) - 1 = n
        OBVIOUS
      <4> HIDE DEF P
      <4> QED
        BY <3>1, <4>1 DEF CutLast
    <3>3. c \in Seq(T)
      <4>1. c \in Seq(T \ {Sep})
        <5>1. \A k \in 1 .. Len(P) : P[k] \in Seq(T \ {Sep})
          BY PieceIsWords
        <5>2. n + 1 \in 1 .. Len(P)
          OBVIOUS
        <5> HIDE DEF P
        <5> QED
          BY <5>1, <5>2
      <4> HIDE DEF c
      <4> QED
        BY <4>1, SeqMonotonic
    <3> HIDE DEF P, c
    <3>4. Append(q, Sep) = q \o << Sep >>
      BY AppendIsConcat
    <3>5. WordsFollow(t, q, c)
      <4>1. WordsMeet(q, Sep, c)
        BY <3>3, WordsJoined
      <4> QED
        BY <3>2, <3>4, <4>1 DEF WordsMeet, WordsFollow
    <3>6. WordPart(q, t) /\ WordPart(c, t)
      BY <3>3, <3>5, WordPartOfTwo
    <3>7. CASE p = n + 1
      BY <3>6, <3>7 DEF c, P
    <3>8. CASE p # n + 1
      <4>1. p \in 1 .. n
        BY <3>8
      <4>2. WordPart(Pieces(q)[p], q)
        BY <1>2, <3>2, <4>1
      <4> QED
        BY <3>2, <3>6, <4>1, <4>2 DEF WordPart, P
    <3> QED
      BY <3>7, <3>8
  <2> QED
    BY <2>1, <2>2
<1>3. \A n \in Nat : n \in S
  <2> HIDE DEF S
  <2> QED
    BY <1>1, <1>2, SetInduction
<1>4. Len(Pieces(s)) \in Nat
  BY PiecesContinue
<1> QED
  BY <1>3, <1>4

\* The year that is dropped was a word of its own.
LEMMA WordsOfDropYear ==
  ASSUME NEW T, Sep \in T, Blank \in T, NEW s \in Seq(T)
  PROVE  DropYear(s) \in Seq(T) /\ WordPart(DropYear(s), s)
<1>1. CASE Len(s) > 1 /\ s[1].kind = "digits" /\ s[2] = Blank
  <2> DEFINE r == Tail(s)
             a == SubSeq(s, 1, 2 - 1)
             y == SubSeq(s, 2, Len(s))
  <2>1. DropYear(s) = LStrip(r)
    BY <1>1 DEF DropYear
  <2>2. 2 \in 1 .. Len(s) /\ Len(s) \in Nat
    <3>1. Len(s) \in Nat
      BY LenProperties
    <3> QED
      BY <1>1, <3>1
  <2>3. a \in Seq(T) /\ y \in Seq(T) /\ s = a \o y
    BY <2>2, CutText
  <2>4. r = y
    OBVIOUS
  <2>5. y # << >> /\ y[1] = Blank
    <3>1. \A k \in 2 .. Len(s) : s[k] \in T
      BY <2>2, ElementOfSeq
    <3>2. /\ Len(y) = Len(s) + 1 - 2
          /\ \A k \in 1 .. Len(s) + 1 - 2 : y[k] = s[2 + k - 1]
      BY <2>2, <3>1, Stretch
    <3>3. 1 \in 1 .. Len(s) + 1 - 2 /\ 2 + 1 - 1 = 2 /\ Len(s) + 1 - 2 # 0
      <4> DEFINE L == Len(s)
      <4>1. L \in Nat /\ L >= 2
        BY <2>2
      <4> HIDE DEF L
      <4>2. 1 \in 1 .. L + 1 - 2
        BY <4>1
      <4>3. 2 + 1 - 1 = 2
        OBVIOUS
      <4>4. L + 1 - 2 # 0
        BY <4>1
      <4> QED
        BY <4>2, <4>3, <4>4 DEF L
    <3> HIDE DEF y
    <3>4. Len(y) # 0 /\ y[1] = s[2]
      BY <3>2, <3>3
    <3> QED
      BY <1>1, <2>3, <3>4, NotNothing
  <2> HIDE DEF a, y, r
  <2>6. WordPart(y, s)
    BY <2>3, <2>5, WordsAfterBlank
  <2> DEFINE x == LStrip(y)
  <2>7. x \in Seq(T) /\ \E u \in Seq({Blank}) : y = u \o x
    BY <2>3, LStripIs
  <2> HIDE DEF x
  <2>8. PICK u \in Seq({Blank}) : y = u \o x
    BY <2>7
  <2>9. u \in Seq(Gap)
    BY GapsAreTexts
  <2>10. SameWords(y, x)
    BY <2>7, <2>8, <2>9, GapBefore
  <2> QED
    BY <2>1, <2>4, <2>6, <2>7, <2>10 DEF WordPart, SameWords, x
<1>2. CASE ~(Len(s) > 1 /\ s[1].kind = "digits" /\ s[2] = Blank)
  BY <1>2 DEF DropYear, WordPart
<1> QED
  BY <1>1, <1>2

\* strip().
LEMMA WordsOfStripped ==
  ASSUME NEW T, Sep \in T, Blank \in T, NEW x \in Seq(T), NEW s
  PROVE  Strip(x) \in Seq(T) /\ (WordPart(x, s) <=> WordPart(Strip(x), s))
BY StripKeepsWords DEF WordPart

\* A part of a part.
LEMMA WordPartOfPart ==
  ASSUME NEW x, NEW y, NEW z, WordPart(x, y), WordPart(y, z)
  PROVE  WordPart(x, z)
BY DEF WordPart

\* What stands before the first separator has none.
LEMMA BeforeIsWords ==
  ASSUME NEW T, NEW s \in Seq(T), Has(s, 1)
  PROVE  Before(s, 1) \in Seq(T \ {Sep})
<1> DEFINE f == First(s, 1)
<1>1. f \in 1 .. Len(s) /\ \A j \in 1 .. f - 1 : ~SepsAt(s, 1, j)
  BY FirstIs
<1>2. Len(s) \in Nat
  BY LenProperties
<1> HIDE DEF f
<1>3. ASSUME NEW j \in 1 .. f - 1 PROVE s[j] \in T \ {Sep}
  <2>1. j \in 1 .. Len(s) /\ j + 1 - 1 = j /\ j <= Len(s) /\ \A k \in j .. j : k = j
    BY <1>1, <1>2
  <2>2. s[j] # Sep
    BY <1>1, <2>1 DEF SepsAt
  <2> QED
    BY <2>1, <2>2, ElementOfSeq
<1>4. SubSeq(s, 1, f - 1) \in Seq(T \ {Sep})
  <2>1. 1 \in Nat /\ f - 1 \in Nat /\ 1 >= 1 /\ f - 1 <= Len(s) /\ 1 <= (f - 1) + 1
    BY <1>1, <1>2
  <2> QED
    BY <1>3, <2>1, Stretch
<1> QED
  BY <1>4 DEF Before, f

\* The house and the rest are whole words of the address: '#', and the blanks before a
\* mark, part them from what is around.
Unbroken(d, t, T) ==
  d.house \in Seq(T) /\ d.rest \in Seq(T) /\ WordPart(d.house, t) /\ WordPart(d.rest, t)

LEMMA DivideUnbroken ==
  ASSUME NEW T, Sep \in T, Blank \in T, NEW t \in Seq(T), Divide(t).bound
  PROVE  Unbroken(Divide(t), t, T)
<1>0. 1 \in Nat \ {0} /\ 2 \in Nat \ {0} /\ 3 \in Nat \ {0}
  OBVIOUS
<1>1. << >> \in Seq(T) /\ WordPart(<< >>, t) /\ WordPart(t, t)
  BY WordsOfNothing, EmptySeq DEF WordPart
<1>2. \A x, m, y \in Seq(T) : WordPart(x, t) /\ WordPart(y, t) => Unbroken(Split(x, m, y), t, T)
  BY DEF Unbroken, Split
<1>3. \A h, m, r : Split(h, m, r).house = h /\ Split(h, m, r).rest = r
  BY DEF Split
<1>4. ASSUME NEW d, d.house \in Seq(T), d.rest \in Seq(T), WordPart(d.house, t), WordPart(d.rest, t)
      PROVE  Unbroken(d, t, T)
  BY <1>4 DEF Unbroken
<1>5. CASE Has(t, 3)
  <2> DEFINE tail == After(t, 3)
             marks == BlanksBeforeMark(tail)
             i == FirstOf(marks)
             b == Before(t, 3)
             d == SplitAtThree(t)
  <2>1. Divide(t) = d
    <3>1. Has(t, 2)
      BY <1>5, ThreeAreTwo
    <3> QED
      BY <1>5, <3>1 DEF Divide
  <2>2. b \in Seq(T) /\ tail \in Seq(T) /\ WordPart(b, t) /\ WordPart(tail, t)
    BY <1>0, <1>5, WordsOfDivided
  <2>3. d.house = Strip(b)
    BY DEF SplitAtThree, Split
  <2>4. d.house \in Seq(T) /\ WordPart(d.house, t)
    <3> HIDE DEF b, d
    <3> QED
      BY <2>2, <2>3, WordsOfStripped
  <2>5. d.rest \in Seq(T) /\ WordPart(d.rest, t)
    <3>1. CASE Has(tail, 2)
      <4>1. d.rest = After(tail, 2)
        BY <3>1 DEF SplitAtThree, Split
      <4> HIDE DEF tail, d
      <4>2. After(tail, 2) \in Seq(T) /\ WordPart(After(tail, 2), tail)
        BY <1>0, <2>2, <3>1, WordsOfDivided
      <4> QED
        BY <2>2, <4>1, <4>2, WordPartOfPart
    <3>2. CASE ~Has(tail, 2) /\ marks # {}
      <4>1. d.rest = From(tail, i)
        BY <3>2 DEF SplitAtThree, Split
      <4> HIDE DEF tail, d
      <4>2. DOMAIN tail = 1 .. Len(tail) /\ Len(tail) \in Nat
        BY <2>2, LenProperties
      <4>3. marks \in SUBSET Nat /\ \A k \in marks : k \in 1 .. Len(tail) /\ tail[k] = Blank
        BY <4>2 DEF BlanksBeforeMark
      <4>4. i \in 1 .. Len(tail) /\ tail[i] = Blank
        BY <3>2, <4>3, FirstOfIs
      <4> HIDE DEF marks, i
      <4> DEFINE x == SubSeq(tail, 1, i - 1)
                 y == SubSeq(tail, i, Len(tail))
                 n == (Len(tail) + 1) - i
      <4>5. x \in Seq(T) /\ y \in Seq(T) /\ tail = x \o y
        BY <2>2, <4>4, CutText
      <4>6. y # << >> /\ y[1] = Blank
        <5>1. \A k \in i .. Len(tail) : tail[k] \in T
          BY <2>2, <4>2, <4>4, ElementOfSeq
        <5>2. /\ Len(y) = Len(tail) + 1 - i
              /\ \A k \in 1 .. Len(tail) + 1 - i : y[k] = tail[i + k - 1]
          <6>1. i \in Nat /\ Len(tail) \in Nat /\ i >= 1 /\ Len(tail) <= Len(tail) /\ i <= Len(tail) + 1
            BY <4>2, <4>4
          <6> QED
            BY <2>2, <5>1, <6>1, Stretch
        <5> DEFINE L == Len(tail)
        <5>3. L \in Nat /\ i \in 1 .. L
          BY <4>2, <4>4
        <5> HIDE DEF L
        <5>4. L + 1 - i # 0 /\ 1 \in 1 .. L + 1 - i /\ i + 1 - 1 = i
          BY <5>3
        <5> HIDE DEF y
        <5>5. Len(y) # 0 /\ y[1] = tail[i]
          BY <5>2, <5>4 DEF L
        <5> QED
          BY <4>4, <4>5, <5>5, NotNothing
      <4> HIDE DEF x, y
      <4>7. WordPart(y, tail)
        BY <4>5, <4>6, WordsAfterBlank
      <4>8. WordPart(y, t)
        BY <2>2, <4>7, WordPartOfPart
      <4>9. d.rest = Strip(y)
        BY <4>1 DEF From, y
      <4> QED
        BY <4>5, <4>8, <4>9, WordsOfStripped
    <3>3. CASE ~Has(tail, 2) /\ marks = {} /\ Has(tail, 1)
      <4>1. d.rest = After(tail, 1)
        BY <3>3 DEF SplitAtThree, Split
      <4> HIDE DEF tail, d
      <4>2. After(tail, 1) \in Seq(T) /\ WordPart(After(tail, 1), tail)
        BY <1>0, <2>2, <3>3, WordsOfDivided
      <4> QED
        BY <2>2, <4>1, <4>2, WordPartOfPart
    <3>4. CASE ~Has(tail, 2) /\ marks = {} /\ ~Has(tail, 1)
      <4>1. d.rest = << >>
        BY <3>4 DEF SplitAtThree, Split
      <4> QED
        BY <1>1, <4>1
    <3> QED
      BY <3>1, <3>2, <3>3, <3>4
  <2> HIDE DEF d
  <2> QED
    BY <1>4, <2>1, <2>4, <2>5
<1>6. CASE ~Has(t, 3) /\ Has(t, 2)
  <2> DEFINE front == Before(t, 2)
             d == SplitAtTwo(t)
  <2>1. Divide(t) = d
    BY <1>6 DEF Divide
  <2>2. /\ front \in Seq(T) /\ WordPart(front, t)
        /\ After(t, 2) \in Seq(T) /\ WordPart(After(t, 2), t)
    BY <1>0, <1>6, WordsOfDivided
  <2>3. d.rest = After(t, 2)
    BY DEF SplitAtTwo, Split
  <2>4. d.house \in Seq(T) /\ WordPart(d.house, t)
    <3>1. CASE Has(front, 1)
      <4>1. d.house = Strip(Before(front, 1))
        BY <3>1 DEF SplitAtTwo, Split
      <4> HIDE DEF front, d
      <4>2. Before(front, 1) \in Seq(T) /\ WordPart(Before(front, 1), front)
        BY <1>0, <2>2, <3>1, WordsOfDivided
      <4>3. WordPart(Before(front, 1), t)
        BY <2>2, <4>2, WordPartOfPart
      <4> QED
        BY <4>1, <4>2, <4>3, WordsOfStripped
    <3>2. CASE ~Has(front, 1)
      <4>1. d.house = Strip(front)
        BY <3>2 DEF SplitAtTwo, Split
      <4> HIDE DEF front, d
      <4> QED
        BY <2>2, <4>1, WordsOfStripped
    <3> QED
      BY <3>1, <3>2
  <2> HIDE DEF d
  <2> QED
    BY <1>4, <2>1, <2>2, <2>3, <2>4
<1>7. CASE ~Has(t, 3) /\ ~Has(t, 2) /\ Has(t, 1)
  BY <1>7 DEF Divide, SplitAtOne
<1>8. CASE ~Has(t, 3) /\ ~Has(t, 2) /\ ~Has(t, 1)
  <2>1. Divide(t) = Split(<< >>, << >>, t)
    BY <1>8 DEF Divide
  <2> QED
    BY <1>1, <1>2, <2>1
<1> QED
  BY <1>5, <1>6, <1>7, <1>8

\* A part taken from the rest: nothing, or one of its pieces.
LEMMA RemainingUnbroken ==
  ASSUME NEW T, Sep \in T, Blank \in T, NEW d, NEW t, d.rest \in Seq(T), WordPart(d.rest, t)
  PROVE  \A k \in 1 .. Len(Remaining(d)) : WordPart(Remaining(d)[k], t)
<1> DEFINE R == d.rest
           S == Stripped(Pieces(R))
           P == Remaining(d)
<1>1. P = Without(S, << >>)
  BY DEF Remaining
<1>2. /\ S \in Seq(Seq(T \ {Sep})) /\ Len(S) = Len(Pieces(R))
      /\ \A p \in 1 .. Len(S) : S[p] = Strip(Pieces(R)[p])
  BY StrippedPieces
<1>3. \A p \in 1 .. Len(Pieces(R)) : Pieces(R)[p] \in Seq(T \ {Sep}) /\ WordPart(Pieces(R)[p], R)
  BY PieceIsWords, WordsOfPieces
<1> HIDE DEF S, P
<1>4. \A a : Holds(P, a) => Holds(S, a)
  <2> DEFINE Q == Seq(T \ {Sep})
  <2>1. S \in Seq(Q)
    BY <1>2
  <2> HIDE DEF Q
  <2> QED
    BY <1>1, <2>1, WithoutHolds
<1>5. ASSUME NEW k \in 1 .. Len(P) PROVE WordPart(P[k], t)
  <2>1. Holds(P, P[k])
    BY DEF Holds
  <2>2. PICK p \in 1 .. Len(S) : S[p] = P[k]
    BY <1>4, <2>1 DEF Holds
  <2> DEFINE x == Pieces(R)[p]
  <2>3. x \in Seq(T \ {Sep}) /\ WordPart(x, R) /\ P[k] = Strip(x)
    BY <1>2, <1>3, <2>2
  <2> HIDE DEF x, R
  <2>4. x \in Seq(T)
    BY <2>3, SeqMonotonic
  <2>5. WordPart(x, t)
    BY <2>3, WordPartOfPart DEF R
  <2> QED
    BY <2>3, <2>4, <2>5, WordsOfStripped
<1> QED
  BY <1>5 DEF P

\* The parts of an address that is split: the house, the district and the province are
\* whole words of it.
WholeParts(c, t) == WordPart(c.house, t) /\ WordPart(c.dist, t) /\ WordPart(c.prov, t)

LEMMA CleanedWhole ==
  ASSUME NEW T, Sep \in T, Blank \in T, NEW t \in Seq(T), Divide(t).bound
  PROVE  WholeParts(Cleaned(TakeVillage(TakeMarked(ShareRest(Divide(t))))), t)
<1> DEFINE d == Divide(t)
           e == ShareRest(d)
           f == TakeMarked(e)
           g == TakeVillage(f)
           c == Cleaned(g)
<1>1. Unbroken(d, t, T) /\ IsDivided(d, t, T)
  BY DivideUnbroken, DivideDivides
<1>2. d \in Locals(T) /\ d.sub = << >> /\ d.dist = << >> /\ d.prov = << >>
  <2> HIDE DEF d
  <2> QED
    BY <1>1, SplitIs DEF IsDivided
<1> HIDE DEF d
<1>3. e \in Locals(T) /\ e.house = d.house /\ Shared(d, e, T \ {Sep})
  BY <1>2, ShareRestShares
<1>4. WordPart(e.dist, t) /\ WordPart(e.prov, t)
  <2> DEFINE P == Remaining(d)
  <2>1. \A k \in 1 .. Len(P) : WordPart(P[k], t)
    BY <1>1, RemainingUnbroken DEF Unbroken
  <2>2. WordPart(<< >>, t)
    BY WordsOfNothing
  <2>3. /\ e.dist = IF Len(P) >= 2 THEN P[2] ELSE << >>
        /\ e.prov = IF Len(P) >= 3 THEN P[3] ELSE << >>
    BY <1>2 DEF ShareRest, Locals
  <2>4. Len(P) \in Nat
    <3>1. Stripped(Pieces(d.rest)) \in Seq(Seq(T \ {Sep}))
      BY <1>1, StrippedPieces DEF Unbroken
    <3> DEFINE S == Stripped(Pieces(d.rest))
               Q == Seq(T \ {Sep})
    <3>2. S \in Seq(Q) /\ P = Without(S, << >>)
      BY <3>1 DEF Remaining
    <3> HIDE DEF S, Q, P
    <3>3. P \in Seq(Q)
      BY <3>2, WithoutIsSeq
    <3> QED
      BY <3>3, LenProperties
  <2> HIDE DEF P
  <2>5. Len(P) >= 2 => 2 \in 1 .. Len(P)
    BY <2>4
  <2>6. Len(P) >= 3 => 3 \in 1 .. Len(P)
    BY <2>4
  <2> HIDE DEF e
  <2> QED
    BY <2>1, <2>2, <2>3, <2>5, <2>6
<1>5. f \in Locals(T) /\ f.house = e.house /\ f.dist = e.dist /\ f.prov = e.prov
  <2>1. e.sub = << >> => e.dist = << >> /\ e.prov = << >>
    BY <1>3 DEF Shared
  <2>2. Parted(e, t, T)
    BY <1>1, ShareRestParts
  <2> HIDE DEF e
  <2>3. Parted(f, t, T)
    BY <2>2, TakeMarkedParts
  <2>4. f.house = e.house /\ f.dist = e.dist /\ f.prov = e.prov
    BY <1>3, <2>1 DEF TakeMarked, Locals
  <2> QED
    BY <2>3, <2>4 DEF Parted
<1>6. e.dist \in Seq(T \ {Sep}) /\ e.prov \in Seq(T \ {Sep})
  BY <1>3 DEF Shared
<1>7. d.house \in Seq(T) /\ WordPart(d.house, t)
  BY <1>1 DEF Unbroken
<1> HIDE DEF e, f
<1>8. g.dist = f.dist /\ g.prov = f.prov
  BY <1>5 DEF TakeVillage, Locals
<1>9. g.house \in Seq(T \ {Sep}) /\ WordPart(g.house, t)
  <2> DEFINE h == f.house
  <2>1. h \in Seq(T) /\ WordPart(h, t)
    BY <1>3, <1>5, <1>7
  <2>2. CASE ~Has(h, 1)
    <3>1. g.house = h
      BY <2>2 DEF TakeVillage
    <3> HIDE DEF h, g
    <3>2. \A a : Holds(h, a) => a # Sep
      BY <2>1, <2>2, NoSeparator
    <3>3. h \in Seq(T \ {Sep})
      <4>1. Without(h, Sep) \in Seq(T \ {Sep}) /\ Len(h) \in Nat
        BY <2>1, WithoutRange, LenProperties
      <4>2. \A k \in 1 .. Len(h) : h[k] \in T \ {Sep}
        BY <2>1, <3>2, ElementOfSeq DEF Holds
      <4>3. h \in [1 .. Len(h) -> T]
        BY <2>1, LenProperties
      <4>4. h \in [1 .. Len(h) -> T \ {Sep}]
        BY <4>2, <4>3
      <4> QED
        BY <4>1, <4>4, SeqDef
    <3> QED
      BY <2>1, <3>1, <3>3
  <2>3. CASE Has(h, 1)
    <3>1. g.house = Strip(Before(h, 1))
      BY <1>5, <2>3 DEF TakeVillage, Locals
    <3> DEFINE b == Before(h, 1)
    <3> HIDE DEF h, g
    <3>2. b \in Seq(T \ {Sep})
      BY <2>1, <2>3, BeforeIsWords
    <3>3. b \in Seq(T) /\ WordPart(b, h)
      <4>1. 1 \in Nat \ {0}
        OBVIOUS
      <4> QED
        BY <2>1, <2>3, <4>1, WordsOfDivided
    <3> HIDE DEF b
    <3>4. WordPart(b, t)
      BY <2>1, <3>3, WordPartOfPart
    <3>5. Strip(b) \in Seq(T \ {Sep})
      BY <3>2, StripHolds
    <3>6. WordPart(Strip(b), t)
      BY <3>3, <3>4, WordsOfStripped
    <3> QED
      BY <3>1, <3>5, <3>6 DEF b
  <2> QED
    BY <2>2, <2>3
<1> HIDE DEF g
<1>10. ASSUME NEW x \in Seq(T \ {Sep}), WordPart(x, t) PROVE WordPart(Strip(Glued(x)), t)
  <2>1. Glued(x) = x
    BY WithoutNone DEF Glued
  <2>2. x \in Seq(T)
    BY SeqMonotonic
  <2> QED
    BY <1>10, <2>1, <2>2, WordsOfStripped
<1>11. /\ c.house = Strip(Glued(g.house)) /\ c.dist = Strip(Glued(g.dist))
       /\ c.prov = Strip(Glued(g.prov))
  BY DEF Cleaned, Joined, Address
<1> HIDE DEF c
<1>12. WholeParts(c, t)
  BY <1>4, <1>5, <1>6, <1>8, <1>9, <1>10, <1>11 DEF WholeParts
<1> QED
  BY <1>12 DEF c, g, f, e, d
=============================================================================
