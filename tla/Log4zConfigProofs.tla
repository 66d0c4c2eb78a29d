-------------------------- MODULE Log4zConfigProofs --------------------------
(***************************************************************************)
(* Proofs about Log4zConfig for any loggers, fields and configurations:    *)
(* each key has one logger and there is room for all of them, and once the *)
(* queue is empty the configuration that was read last is in force.        *)
(*                                                                         *)
(* Between a file that is read and the last of its hot changes the fields  *)
(* of the loggers are a mixture of old and new.  The invariant says what   *)
(* the mixture is: a field has what its section says, or a change that     *)
(* will give it that is still in the queue, and no other change is.        *)
(***************************************************************************)
EXTENDS Log4zConfig, SequenceTheorems, FiniteSetTheorems, WellFoundedInduction, TLAPS

\* The changes that the configuration read last may have asked for.
Changes ==
  IF loaded = NOFILE THEN {}
  ELSE {[key |-> k, field |-> f, value |-> Given(Parse[loaded][k], f)]:
          k \in DOMAIN attr \cap DOMAIN Parse[loaded], f \in Fields}

\* A logger has what its section says for the field, or will have.
Settled(k, f) ==
  \/ Refused(Parse[loaded][k], f)
  \/ attr[k][f] = Given(Parse[loaded][k], f)
  \/ \E i \in 1..Len(todo): todo[i].key = k /\ todo[i].field = f

\* What the loggers are while a configuration comes into force.
Mixture ==
  /\ \A k \in DOMAIN attr: DOMAIN attr[k] = Fields \cup {"key"}
  /\ todo \in Seq(Changes)
  /\ loaded # NOFILE =>
       \A k \in DOMAIN attr \cap DOMAIN Parse[loaded], f \in Fields: Settled(k, f)
  /\ ~runing /\ loaded # NOFILE =>
       \A k \in DOMAIN Parse[loaded] \cap ToSet(Keys):
         k \in DOMAIN attr \/ Len(ids) >= LoggerMax

IInv ==
  /\ TypeOK
  /\ w = "update" \/ ~runing => todo = <<>>
  /\ w = "update" => runing
  /\ Mixture

-----------------------------------------------------------------------------
(* Recursion over the numbers up to N *)

LEMMA LeastNumber ==
  ASSUME NEW T \in SUBSET Nat, T # {}
  PROVE  \E n \in T: \A m \in T: n <= m
<1>. DEFINE R == OpToRel(<, Nat)
<1>1. IsWellFoundedOn(R, Nat)
  BY NatLessThanWellFounded
<1>2. \A m, n \in Nat: m < n => <<m, n>> \in R
  BY DEF OpToRel
<1>. HIDE DEF R
<1>3. PICK n \in T: \A m \in T: ~(<<m, n>> \in R)
  BY <1>1, WFMin
<1>4. \A m \in T: m \in Nat /\ n \in Nat /\ ~(m < n)
  BY <1>2, <1>3
<1>5. \A m \in T: n <= m
  BY <1>4
<1>. QED  BY <1>5

\* Induction up to N: T is the set of the numbers for which the claim holds.
LEMMA Induction ==
  ASSUME NEW N \in Nat, NEW T, 0 \in T, \A n \in 1..N: n - 1 \in T => n \in T
  PROVE  0..N \subseteq T
<1>. DEFINE C == (0..N) \ T
<1>. SUFFICES ASSUME C # {} PROVE FALSE
  OBVIOUS
<1>1. PICK n \in C: \A m \in C: n <= m
  <2>1. C \in SUBSET Nat
    OBVIOUS
  <2>. HIDE DEF C
  <2>. QED  BY <2>1, LeastNumber
<1>2. n \in 1..N /\ n - 1 \in 0..N /\ n - 1 \notin C
  BY <1>1
<1>. QED  BY <1>2

Unfolds(f, b, N, step) ==
  \A n \in 0..N: f[n] = IF n = 0 THEN b ELSE step[n][f[n - 1]]

\* What begins with b and goes on by a function of S at each step exists.
LEMMA RecursionExists ==
  ASSUME NEW S, NEW b \in S, NEW N \in Nat, NEW step \in [1..N -> [S -> S]]
  PROVE  \E f \in [0..N -> S]: Unfolds(f, b, N, step)
<1>. DEFINE P(N_1) == \E f \in [0..N_1 -> S]:
                        \A n \in 0..N_1: f[n] = IF n = 0 THEN b ELSE step[n][f[n - 1]]
            T == {n \in 0..N: P(n)}
<1>1. P(0)
  <2>. DEFINE f == [n \in 0..0 |-> b]
  <2>1. f \in [0..0 -> S] /\ \A n \in 0..0: n = 0 /\ f[n] = b
    OBVIOUS
  <2>. HIDE DEF f
  <2>. QED  BY <2>1
<1>2. ASSUME NEW k \in 1..N, P(k - 1)
      PROVE  P(k)
  <2>1. PICK f \in [0..k - 1 -> S]:
          \A n \in 0..k - 1: f[n] = IF n = 0 THEN b ELSE step[n][f[n - 1]]
    BY <1>2
  <2>. DEFINE g == [n \in 0..k |-> IF n = k THEN step[k][f[k - 1]] ELSE f[n]]
  <2>2. g \in [0..k -> S]
    <3>1. step[k][f[k - 1]] \in S
      BY <2>1
    <3>. QED  BY <3>1
  <2>3. \A n \in 0..k: g[n] = IF n = 0 THEN b ELSE step[n][g[n - 1]]
    BY <2>1
  <2>. HIDE DEF g
  <2>. QED  BY <2>2, <2>3
<1>. HIDE DEF P
<1>3. 0..N \subseteq T
  <2>1. 0 \in T /\ \A n \in 1..N: n - 1 \in T => n \in T
    BY <1>1, <1>2
  <2>. HIDE DEF T
  <2>. QED  BY <2>1, Induction
<1>4. P(N)
  BY <1>3
<1>. QED  BY <1>4 DEF P, Unfolds

-----------------------------------------------------------------------------
(* The queue: changes are appended to it *)

Chain(q, S) ==
  CHOOSE f: f = [T \in SUBSET S |->
                   IF T = {} THEN q
                   ELSE LET x == CHOOSE x \in T: TRUE IN Append(f[T \ {x}], x)]

\* What a chain is, and what its parts hold.
IsChain(f, q, S) ==
  f = [T \in SUBSET S |-> IF T = {} THEN q
                          ELSE LET x == CHOOSE x \in T: TRUE IN Append(f[T \ {x}], x)]

Small(S, n) == {T \in SUBSET S: Cardinality(T) <= n}

IsSmallChain(f, q, S, n) ==
  \A T \in Small(S, n):
    f[T] = IF T = {} THEN q
           ELSE LET x == CHOOSE x \in T: TRUE IN Append(f[T \ {x}], x)

LEMMA SmallSets ==
  ASSUME NEW S, IsFiniteSet(S)
  PROVE  /\ Small(S, 0) = {{}}
         /\ Small(S, Cardinality(S)) = SUBSET S
         /\ \A T \in SUBSET S: Cardinality(T) \in Nat
         /\ \A n \in Nat \ {0}: \A T \in Small(S, n):
              T # {} => LET x == CHOOSE x \in T: TRUE
                        IN x \in T /\ T \ {x} \in Small(S, n - 1)
<1>1. ASSUME NEW T \in SUBSET S
      PROVE  /\ IsFiniteSet(T) /\ Cardinality(T) \in Nat /\ Cardinality(T) <= Cardinality(S)
             /\ Cardinality(T) = 0 <=> T = {}
             /\ \A x \in T: Cardinality(T \ {x}) = Cardinality(T) - 1
  <2>1. IsFiniteSet(T) /\ Cardinality(T) <= Cardinality(S)
    BY FS_Subset
  <2>. QED  BY <2>1, FS_CardinalityType, FS_EmptySet, FS_RemoveElement
<1>2. Small(S, 0) = {{}}
  <2>1. \A T \in SUBSET S: Cardinality(T) <= 0 <=> T = {}
    BY <1>1
  <2>. QED  BY <2>1 DEF Small
<1>3. Small(S, Cardinality(S)) = SUBSET S
  BY <1>1 DEF Small
<1>4. ASSUME NEW n \in Nat \ {0}, NEW T \in Small(S, n), T # {}
      PROVE  LET x == CHOOSE x \in T: TRUE
             IN x \in T /\ T \ {x} \in Small(S, n - 1)
  <2>. DEFINE x == CHOOSE x \in T: TRUE
  <2>1. x \in T
    BY <1>4
  <2>. HIDE DEF x
  <2>2. T \in SUBSET S /\ Cardinality(T) <= n
    BY DEF Small
  <2>3. Cardinality(T \ {x}) = Cardinality(T) - 1 /\ Cardinality(T) \in Nat
    BY <1>1, <2>1, <2>2
  <2>4. T \ {x} \in Small(S, n - 1)
    BY <2>2, <2>3 DEF Small
  <2>. QED  BY <2>1, <2>4 DEF x
<1>. QED  BY <1>1, <1>2, <1>3, <1>4

LEMMA ChainExists ==
  ASSUME NEW S, IsFiniteSet(S), NEW q
  PROVE  \E f: IsChain(f, q, S)
<1>. DEFINE N == Cardinality(S)
            P(n) == \E f: IsSmallChain(f, q, S, n)
            T == {n \in 0..N: P(n)}
<1>0. N \in Nat
  BY FS_CardinalityType
<1>1. P(0)
  <2>. DEFINE f == [U \in {{}} |-> q]
  <2>1. \A U \in Small(S, 0): U = {} /\ f[U] = q
    BY SmallSets
  <2>. HIDE DEF f
  <2>2. IsSmallChain(f, q, S, 0)
    BY <2>1 DEF IsSmallChain
  <2>. QED  BY <2>2
<1>2. ASSUME NEW n \in 1..N, P(n - 1)
      PROVE  P(n)
  <2>1. PICK f: IsSmallChain(f, q, S, n - 1)
    BY <1>2
  <2>. DEFINE Pick(U) == CHOOSE x \in U: TRUE
              g == [U \in SUBSET S |-> IF U \in Small(S, n - 1) THEN f[U]
                                       ELSE Append(f[U \ {Pick(U)}], Pick(U))]
  <2>2. ASSUME NEW U \in Small(S, n)
        PROVE  g[U] = IF U = {} THEN q ELSE Append(g[U \ {Pick(U)}], Pick(U))
    <3>0. n \in Nat \ {0} /\ U \in SUBSET S
      BY <1>0 DEF Small
    <3>1. CASE U = {}
      <4>1. Cardinality({}) = 0 /\ U \in Small(S, n - 1)
        BY <1>0, <3>1, FS_EmptySet DEF Small
      <4>2. g[U] = f[U]
        BY <3>0, <4>1
      <4>3. f[U] = q
        BY <2>1, <3>1, <4>1 DEF IsSmallChain
      <4>. QED  BY <3>1, <4>2, <4>3
    <3>2. CASE U # {}
      <4>1. U \ {Pick(U)} \in Small(S, n - 1) /\ U \ {Pick(U)} \in SUBSET S
        BY <3>0, <3>2, SmallSets
      <4>2. g[U \ {Pick(U)}] = f[U \ {Pick(U)}]
        <5>. HIDE DEF Pick
        <5>. QED  BY <4>1
      <4>3. CASE U \in Small(S, n - 1)
        <5>1. f[U] = Append(f[U \ {Pick(U)}], Pick(U))
          BY <2>1, <3>2, <4>3 DEF IsSmallChain
        <5>2. g[U] = f[U]
          BY <3>0, <4>3
        <5>. HIDE DEF g, Pick
        <5>. QED  BY <3>2, <4>2, <5>1, <5>2
      <4>4. CASE U \notin Small(S, n - 1)
        <5>1. g[U] = Append(f[U \ {Pick(U)}], Pick(U))
          BY <3>0, <4>4
        <5>. HIDE DEF g, Pick
        <5>. QED  BY <3>2, <4>2, <5>1
      <4>. QED  BY <4>3, <4>4
    <3>. QED  BY <3>1, <3>2
  <2>. HIDE DEF g
  <2>3. IsSmallChain(g, q, S, n)
    BY <2>2 DEF IsSmallChain
  <2>. QED  BY <2>3
<1>. HIDE DEF P
<1>3. N \in T
  <2>1. 0 \in T /\ \A n \in 1..N: n - 1 \in T => n \in T
    BY <1>0, <1>1, <1>2
  <2>. HIDE DEF T
  <2>. QED  BY <1>0, <2>1, Induction
<1>4. PICK f: IsSmallChain(f, q, S, N)
  BY <1>3 DEF P
<1>. DEFINE h == [U \in SUBSET S |-> f[U]]
            Pick(U) == CHOOSE x \in U: TRUE
<1>5. ASSUME NEW U \in SUBSET S
      PROVE  h[U] = IF U = {} THEN q ELSE Append(h[U \ {Pick(U)}], Pick(U))
  <2>1. f[U] = IF U = {} THEN q ELSE Append(f[U \ {Pick(U)}], Pick(U))
    BY <1>4, SmallSets DEF IsSmallChain
  <2>2. U \ {Pick(U)} \in SUBSET S
    OBVIOUS
  <2>. HIDE DEF Pick
  <2>. QED  BY <2>1, <2>2
<1>6. h = [U \in SUBSET S |-> IF U = {} THEN q ELSE Append(h[U \ {Pick(U)}], Pick(U))]
  <2>. HIDE DEF Pick
  <2>1. h = [U \in SUBSET S |-> h[U]]
    OBVIOUS
  <2>. HIDE DEF h
  <2>. QED  BY <1>5, <2>1
<1>7. IsChain(h, q, S)
  BY <1>6 DEF IsChain
<1>. QED  BY <1>7

\* A queue of changes out of X that holds all of U.
Holds(s, U, X) == s \in Seq(X) /\ \A c \in U: \E i \in 1..Len(s): s[i] = c

\* What is appended to a queue, in whatever order.
LEMMA Appended ==
  ASSUME NEW S, IsFiniteSet(S), NEW X, NEW q \in Seq(X), S \subseteq X
  PROVE  Holds(Chain(q, S)[S], S, X) /\ (S = {} => Chain(q, S)[S] = q)
<1>. DEFINE F == Chain(q, S)
            N == Cardinality(S)
            Pick(U) == CHOOSE x \in U: TRUE
            T == {n \in 0..N: \A U \in Small(S, n): Holds(F[U], U, X)}
<1>0. N \in Nat /\ Small(S, 0) = {{}} /\ S \in Small(S, N)
  BY FS_CardinalityType, SmallSets
<1>2. IsChain(F, q, S)
  <2>1. F = CHOOSE f: IsChain(f, q, S)
    BY DEF Chain, IsChain
  <2>. HIDE DEF F
  <2>. QED  BY <2>1, ChainExists
<1>. HIDE DEF F, N
<1>3. \A U \in SUBSET S: F[U] = IF U = {} THEN q ELSE Append(F[U \ {Pick(U)}], Pick(U))
  <2>1. F = [U \in SUBSET S |-> IF U = {} THEN q ELSE Append(F[U \ {Pick(U)}], Pick(U))]
    BY <1>2 DEF IsChain
  <2>. HIDE DEF Pick
  <2>. QED  BY <2>1
<1>4. Holds(F[{}], {}, X) /\ F[{}] = q
  BY <1>3 DEF Holds
<1>5. ASSUME NEW n \in 1..N, \A U \in Small(S, n - 1): Holds(F[U], U, X), NEW U \in Small(S, n)
      PROVE  Holds(F[U], U, X)
  <2>1. n \in Nat \ {0} /\ U \in SUBSET S
    BY <1>0 DEF Small
  <2>2. CASE U # {}
    <3>. DEFINE x == Pick(U)
                V == U \ {x}
                s == F[V]
    <3>1. x \in U /\ V \in Small(S, n - 1)
      BY <2>1, <2>2, SmallSets
    <3>2. F[U] = Append(s, x)
      BY <1>3, <2>1, <2>2
    <3>. HIDE DEF x, s
    <3>3. s \in Seq(X) /\ \A c \in V: \E i \in 1..Len(s): s[i] = c
      BY <1>5, <3>1 DEF s, Holds
    <3>4. x \in X
      BY <2>1, <3>1
    <3>5. /\ Append(s, x) \in Seq(X) /\ Len(Append(s, x)) = Len(s) + 1 /\ Len(s) \in Nat
          /\ \A i \in 1..Len(s): Append(s, x)[i] = s[i]
          /\ Append(s, x)[Len(s) + 1] = x
      BY <3>3, <3>4, AppendProperties
    <3>6. ASSUME NEW c \in U
          PROVE  \E i \in 1..Len(Append(s, x)): Append(s, x)[i] = c
      <4>1. CASE c = x
        <5>1. Len(s) + 1 \in 1..Len(Append(s, x))
          <6>. DEFINE m == Len(s)
          <6>. HIDE DEF m
          <6>1. m \in Nat /\ Len(Append(s, x)) = m + 1
            BY <3>5 DEF m
          <6>. QED  BY <6>1 DEF m
        <5>. QED  BY <3>5, <4>1, <5>1
      <4>2. CASE c # x
        <5>1. PICK i \in 1..Len(s): s[i] = c
          BY <3>3, <4>2
        <5>2. i \in 1..Len(Append(s, x))
          BY <3>5, <5>1
        <5>. QED  BY <3>5, <5>1, <5>2
      <4>. QED  BY <4>1, <4>2
    <3>. QED  BY <3>2, <3>5, <3>6 DEF Holds
  <2>. QED  BY <1>4, <2>2
<1>6. N \in T
  <2>1. 0 \in T
    <3>1. ASSUME NEW U \in Small(S, 0) PROVE Holds(F[U], U, X)
      <4>1. U = {}
        BY <1>0
      <4>. QED  BY <1>4, <4>1, Zenon
    <3>. QED  BY <1>0, <3>1
  <2>2. \A n \in 1..N: n - 1 \in T => n \in T
    BY <1>5
  <2>3. N \in 0..N
    BY <1>0
  <2>. HIDE DEF T
  <2>4. 0..N \subseteq T
    BY <1>0, <2>1, <2>2, Induction
  <2>. QED  BY <2>3, <2>4
<1>7. Holds(F[S], S, X)
  BY <1>0, <1>6
<1>. QED  BY <1>4, <1>7 DEF F

-----------------------------------------------------------------------------
(* createLogger: the keys in turn *)

Making(wanted) ==
  CHOOSE f: f =
    [i \in 0..Len(Keys) |->
       IF i = 0 THEN <<>>
       ELSE IF /\ Keys[i] \in wanted \ DOMAIN attr
               /\ Len(ids) + Len(f[i - 1]) < LoggerMax
            THEN Append(f[i - 1], Keys[i]) ELSE f[i - 1]]

LEMMA MakingSteps ==
  ASSUME NEW wanted
  PROVE  /\ Making(wanted)[0] = <<>>
         /\ \A i \in 1..Len(Keys):
              Making(wanted)[i] =
                IF /\ Keys[i] \in wanted \ DOMAIN attr
                   /\ Len(ids) + Len(Making(wanted)[i - 1]) < LoggerMax
                THEN Append(Making(wanted)[i - 1], Keys[i]) ELSE Making(wanted)[i - 1]
         /\ Made(wanted) = Making(wanted)[Len(Keys)]
<1>. DEFINE N == Len(Keys)
            S == Seq(ToSet(Keys))
            none == <<>>
            More(i, s) == IF /\ Keys[i] \in wanted \ DOMAIN attr
                             /\ Len(ids) + Len(s) < LoggerMax
                          THEN Append(s, Keys[i]) ELSE s
            step == [i \in 1..N |-> [s \in S |-> More(i, s)]]
            Is_(f) == f = [i \in 0..N |-> IF i = 0 THEN none ELSE More(i, f[i - 1])]
<1>0. N \in Nat /\ \A i \in 1..N: Keys[i] \in ToSet(Keys)
  BY KeysAssumption DEF ToSet
<1>1. \A i \in 1..N, s \in S: More(i, s) \in S
  BY <1>0, AppendProperties
<1>2. PICK f \in [0..N -> S]: Unfolds(f, none, N, step)
  <2>. HIDE DEF More
  <2>1. step \in [1..N -> [S -> S]]
    BY <1>1
  <2>2. none \in S
    BY EmptySeq
  <2>. HIDE DEF step, N, none, S
  <2>. QED  BY <1>0, <2>1, <2>2, RecursionExists
<1>3. \A i \in 1..N, s \in S: step[i][s] = More(i, s)
  <2>. HIDE DEF More
  <2>. QED  OBVIOUS
<1>. HIDE DEF step
<1>4. ASSUME NEW i \in 1..N
      PROVE  f[i - 1] \in S /\ f[i] = More(i, f[i - 1])
  <2>. HIDE DEF More
  <2>1. i - 1 \in 0..N /\ i \in 0..N /\ i # 0
    BY <1>0
  <2>2. f[i - 1] \in S /\ f[i] = step[i][f[i - 1]]
    <3>. HIDE DEF S
    <3>. QED  BY <1>2, <2>1 DEF Unfolds
  <2>. QED  BY <1>3, <2>2
<1>5. Is_(f)
  <2>. HIDE DEF More, S
  <2>. QED  BY <1>2, <1>4 DEF Unfolds
<1>6. Is_(Making(wanted))
  <2>1. Making(wanted) = CHOOSE g: Is_(g)
    BY DEF Making
  <2>. HIDE DEF Is_
  <2>. QED  BY <1>5, <2>1
<1>. DEFINE F == Making(wanted)
<1>7. \A i \in 0..N: F[i] = IF i = 0 THEN none ELSE More(i, F[i - 1])
  <2>1. F = [i \in 0..N |-> IF i = 0 THEN none ELSE More(i, F[i - 1])]
    BY <1>6
  <2>. HIDE DEF F, More
  <2>. QED  BY <2>1
<1>8. Made(wanted) = F[N]
  BY DEF Made, Making
<1>. HIDE DEF F
<1>9. F[0] = none /\ \A i \in 1..N: F[i] = More(i, F[i - 1])
  <2>. HIDE DEF More
  <2>. QED  BY <1>0, <1>7
<1>. QED  BY <1>8, <1>9 DEF F

\* No key is made twice, nor one that has a logger, nor more than there is room
\* for; and one that is not made found no room.
LEMMA MadeFacts ==
  ASSUME NEW wanted, Len(ids) \in 0..LoggerMax
  PROVE  /\ Made(wanted) \in Seq(ToSet(Keys))
         /\ \A i, j \in 1..Len(Made(wanted)): Made(wanted)[i] = Made(wanted)[j] => i = j
         /\ \A i \in 1..Len(Made(wanted)): Made(wanted)[i] \in wanted \ DOMAIN attr
         /\ Len(ids) + Len(Made(wanted)) <= LoggerMax
         /\ \A k \in wanted \cap ToSet(Keys):
              \/ k \in DOMAIN attr
              \/ \E i \in 1..Len(Made(wanted)): Made(wanted)[i] = k
              \/ Len(ids) + Len(Made(wanted)) >= LoggerMax
<1>. DEFINE N == Len(Keys)
            F == Making(wanted)
            New == wanted \ DOMAIN attr
            room == LoggerMax - Len(ids)
            Right(s, n) ==
              /\ s \in Seq(ToSet(Keys)) /\ Len(s) <= room
              /\ \A i, j \in 1..Len(s): s[i] = s[j] => i = j
              /\ \A i \in 1..Len(s): s[i] \in New /\ \E m \in 1..n: s[i] = Keys[m]
              /\ \A m \in 1..n: Keys[m] \in New =>
                   Len(s) >= room \/ \E i \in 1..Len(s): s[i] = Keys[m]
            T == {n \in 0..N: Right(F[n], n)}
<1>0. /\ N \in Nat /\ \A i \in 1..N: Keys[i] \in ToSet(Keys)
      /\ \A i, j \in 1..N: Keys[i] = Keys[j] => i = j
      /\ room \in Nat
  <2>1. Keys \in Seq(ToSet(Keys)) /\ DOMAIN Keys = 1..N /\ N \in Nat
    BY KeysAssumption
  <2>2. room \in Nat
    BY LimitsAssumption
  <2>. QED  BY <2>1, <2>2, KeysAssumption DEF ToSet, IsInjective
<1>1. /\ F[0] = <<>> /\ Made(wanted) = F[N]
      /\ \A i \in 1..N: \A n \in Nat: Len(F[i - 1]) = n =>
           F[i] = IF Keys[i] \in New /\ n < room
                  THEN Append(F[i - 1], Keys[i]) ELSE F[i - 1]
  <2>1. \A n \in Nat: Len(ids) + n < LoggerMax <=> n < room
    BY LimitsAssumption
  <2>. QED  BY <2>1, MakingSteps
<1>. HIDE DEF F, New, room, N
<1>2. Right(F[0], 0)
  <2>1. <<>> \in Seq(ToSet(Keys)) /\ Len(<<>>) = 0
    BY EmptySeq
  <2>. QED  BY <1>0, <1>1, <2>1
<1>3. ASSUME NEW n \in 1..N, Right(F[n - 1], n - 1)
      PROVE  Right(F[n], n)
  <2>. DEFINE s == F[n - 1]
              k == Keys[n]
              a == Append(s, k)
  <2>0. n \in Nat /\ n - 1 \in Nat /\ n - 1 + 1 = n /\ \A m \in 1..n: m \in 1..n - 1 \/ m = n
    BY <1>0
  <2>1. /\ s \in Seq(ToSet(Keys)) /\ Len(s) \in Nat /\ Len(s) <= room
        /\ \A i, j \in 1..Len(s): s[i] = s[j] => i = j
        /\ \A i \in 1..Len(s): s[i] \in New /\ \E m \in 1..n - 1: s[i] = Keys[m]
        /\ \A m \in 1..n - 1: Keys[m] \in New =>
             Len(s) >= room \/ \E i \in 1..Len(s): s[i] = Keys[m]
    BY <1>3
  <2>2. F[n] = IF k \in New /\ Len(s) < room THEN a ELSE s
    BY <1>1, <2>1
  <2>3. /\ a \in Seq(ToSet(Keys)) /\ Len(a) = Len(s) + 1
        /\ \A i \in 1..Len(s): a[i] = s[i]
        /\ a[Len(s) + 1] = k
    <3>1. k \in ToSet(Keys)
      BY <1>0
    <3>. QED  BY <2>1, <3>1, AppendProperties
  <2>4. \A i \in 1..Len(s): s[i] # k
    <3>1. ASSUME NEW i \in 1..Len(s), s[i] = k PROVE FALSE
      <4>1. PICK m \in 1..n - 1: Keys[m] = k
        BY <2>1, <3>1
      <4>2. m \in 1..N /\ m # n
        BY <1>0, <2>0
      <4>. QED  BY <1>0, <4>1, <4>2
    <3>. QED  BY <3>1
  <2>5. \A i \in 1..n - 1: i \in 1..n
    BY <2>0
  <2>. HIDE DEF s, k, a
  <2>6. CASE k \in New /\ Len(s) < room
    <3>. DEFINE l == Len(s)
    <3>1. l \in Nat /\ Len(a) = l + 1 /\ l < room /\ room \in Nat
      BY <1>0, <2>1, <2>3, <2>6
    <3>. HIDE DEF l
    <3>2. \A i \in 1..Len(a): i \in 1..l \/ i = l + 1
      BY <3>1
    <3>3. \A i \in 1..l: i \in 1..Len(a)
      BY <3>1
    <3>4. l + 1 \in 1..Len(a) /\ Len(a) <= room
      BY <3>1
    <3>5. /\ \A i \in 1..l: a[i] = s[i] /\ a[i] # k /\ a[i] \in New /\ \E m \in 1..n: a[i] = Keys[m]
          /\ a[l + 1] = k /\ k \in New
      BY <2>1, <2>3, <2>4, <2>5, <2>6 DEF l
    <3>6. \A i, j \in 1..Len(a): a[i] = a[j] => i = j
      BY <2>1, <3>2, <3>5 DEF l
    <3>7. \A i \in 1..Len(a): a[i] \in New /\ \E m \in 1..n: a[i] = Keys[m]
      <4>1. n \in 1..n /\ Keys[n] = k
        BY <2>0 DEF k
      <4>. QED  BY <3>2, <3>5, <4>1
    <3>8. ASSUME NEW m \in 1..n, Keys[m] \in New
          PROVE  Len(a) >= room \/ \E i \in 1..Len(a): a[i] = Keys[m]
      <4>1. CASE m = n
        BY <3>4, <3>5, <4>1 DEF k
      <4>2. CASE m \in 1..n - 1
        <5>1. CASE Len(s) >= room
          BY <3>1, <5>1 DEF l
        <5>2. CASE \E i \in 1..Len(s): s[i] = Keys[m]
          BY <3>3, <3>5, <5>2 DEF l
        <5>. QED  BY <2>1, <3>8, <4>2, <5>1, <5>2
      <4>. QED  BY <2>0, <4>1, <4>2
    <3>9. F[n] = a
      BY <2>2, <2>6
    <3>. QED  BY <2>3, <3>4, <3>6, <3>7, <3>8, <3>9
  <2>7. CASE ~(k \in New /\ Len(s) < room)
    <3>1. F[n] = s
      BY <2>2, <2>7
    <3>2. ASSUME NEW m \in 1..n, Keys[m] \in New
          PROVE  Len(s) >= room \/ \E i \in 1..Len(s): s[i] = Keys[m]
      <4>1. CASE m = n
        <5>1. ~(Len(s) < room)
          BY <2>7, <3>2, <4>1 DEF k
        <5>. QED  BY <1>0, <2>1, <5>1
      <4>2. CASE m \in 1..n - 1
        BY <2>1, <3>2, <4>2
      <4>. QED  BY <2>0, <4>1, <4>2
    <3>3. \A i \in 1..Len(s): s[i] \in New /\ \E m \in 1..n: s[i] = Keys[m]
      BY <2>1, <2>5
    <3>. QED  BY <2>1, <3>1, <3>2, <3>3
  <2>. QED  BY <2>6, <2>7
<1>. HIDE DEF Right
<1>4. N \in T
  <2>1. 0 \in T /\ \A n \in 1..N: n - 1 \in T => n \in T
    BY <1>0, <1>2, <1>3
  <2>2. N \in 0..N
    BY <1>0
  <2>. HIDE DEF T
  <2>3. 0..N \subseteq T
    BY <1>0, <2>1, Induction
  <2>. QED  BY <2>2, <2>3
<1>. DEFINE s == F[N]
<1>5. Right(s, N)
  BY <1>4
<1>. HIDE DEF s
<1>6. \A k \in ToSet(Keys): \E m \in 1..N: Keys[m] = k
  BY KeysAssumption DEF ToSet, N
<1>7. /\ s \in Seq(ToSet(Keys)) /\ Len(s) \in Nat /\ Len(s) <= room
      /\ \A i, j \in 1..Len(s): s[i] = s[j] => i = j
      /\ \A i \in 1..Len(s): s[i] \in New
      /\ \A k \in New \cap ToSet(Keys): Len(s) >= room \/ \E i \in 1..Len(s): s[i] = k
  BY <1>5, <1>6 DEF Right
<1>8. Len(ids) + Len(s) <= LoggerMax /\ (Len(s) >= room => Len(ids) + Len(s) >= LoggerMax)
  BY <1>7, LimitsAssumption DEF room
<1>9. Made(wanted) = s
  BY <1>1 DEF s
<1>. QED  BY <1>7, <1>8, <1>9 DEF New

-----------------------------------------------------------------------------
(* parseConfigFromString *)

Parsing(config) ==
  CHOOSE f: f =
    [i \in 0..Len(config) |->
       IF i = 0 THEN [key |-> "", infos |-> <<>>] ELSE ParseLine(f[i - 1], config[i])]

\* All that the lines of a configuration can put into a logger.
Names(config) == {""} \cup {config[i].key: i \in 1..Len(config)}
Words(config) ==
  Names(config) \cup BOOLEAN \cup Nat \cup {Default[f]: f \in Fields}
  \cup {config[i].value: i \in 1..Len(config)}
  \cup {LevelOf[config[i].value]: i \in 1..Len(config)}
Info(config) == [Fields \cup {"key"} -> Words(config)]
Sections(config) == UNION {[D -> Info(config)]: D \in SUBSET Names(config)}

LEMMA ParseLineKeeps ==
  ASSUME NEW config, NEW i \in 1..Len(config),
         NEW p \in [key: Names(config), infos: Sections(config)]
  PROVE  ParseLine(p, config[i]) \in [key: Names(config), infos: Sections(config)]
<1>. DEFINE line == config[i]
            A == Names(config)
            V == Words(config)
            I == Info(config)
<1>0. PICK D \in SUBSET A: p.infos \in [D -> I]
  BY DEF Sections
<1>1. /\ p = [key |-> p.key, infos |-> p.infos] /\ p.key \in A
      /\ DOMAIN p.infos = D
  BY <1>0
<1>2. line.key \in A /\ line.value \in V /\ LevelOf[line.value] \in V
  BY DEF Names, Words
<1>3. A \subseteq V /\ BOOLEAN \subseteq V /\ Nat \subseteq V /\ \A f \in Fields: Default[f] \in V
  BY DEF Words
<1>. HIDE DEF A, V
<1>4. CASE line.kind = "section"
  <2>1. NewInfo(line.key) \in I
    <3>1. TRUE \in V /\ line.key \in V
      BY <1>2, <1>3
    <3>. QED  BY <1>3, <3>1 DEF NewInfo, Info, V
  <2>2. ParseLine(p, line) =
          [key |-> line.key,
           infos |-> IF line.key \in DOMAIN p.infos THEN p.infos
                     ELSE [k \in DOMAIN p.infos \cup {line.key} |->
                             IF k = line.key THEN NewInfo(k) ELSE p.infos[k]]]
    BY <1>4 DEF ParseLine
  <2>. DEFINE more == [k \in DOMAIN p.infos \cup {line.key} |->
                         IF k = line.key THEN NewInfo(k) ELSE p.infos[k]]
  <2>3. more \in [D \cup {line.key} -> I]
    <3>. HIDE DEF I
    <3>. QED  BY <1>0, <1>1, <2>1
  <2>4. D \cup {line.key} \in SUBSET A
    BY <1>2
  <2>5. p.infos \in Sections(config) /\ more \in Sections(config)
    <3>. HIDE DEF more, I
    <3>. QED  BY <1>0, <2>3, <2>4 DEF Sections, A, I
  <2>. HIDE DEF more
  <2>6. ParseLine(p, line) = [key |-> line.key,
                              infos |-> IF line.key \in DOMAIN p.infos THEN p.infos ELSE more]
    BY <2>2 DEF more
  <2>. HIDE DEF line
  <2>. QED  BY <1>2, <2>5, <2>6 DEF A, line
<1>5. CASE line.kind # "section" /\ line.kind = "set" /\ p.key \in DOMAIN p.infos /\ line.field \in Fields
  <2>. DEFINE k == p.key
              info == p.infos[k]
              value == Value(info, line.field, line.value)
              newInfo == [info EXCEPT ![line.field] = value]
              more == [p.infos EXCEPT ![k] = newInfo]
  <2>1. k \in D /\ info \in I
    BY <1>0, <1>1, <1>5
  <2>2. info \in [Fields \cup {"key"} -> V]
    BY <2>1 DEF Info, V
  <2>3. value \in V
    <3>0. "level" \in Fields
      BY DEF Fields
    <3>1. info["level"] \in V
      <4>. HIDE DEF info
      <4>. QED  BY <2>2, <3>0
    <3>2. (line.value \notin {"false", "0"}) \in V
      BY <1>3
    <3>3. (IF line.value \in Nat THEN line.value ELSE 0) \in V
      BY <1>3
    <3>4. (IF line.value \in DOMAIN LevelOf THEN LevelOf[line.value] ELSE info["level"]) \in V
      BY <1>2, <3>1
    <3>5. \/ line.field \in Texts \/ line.field \in Flags
          \/ line.field = "level" \/ line.field = "limitsize"
      BY <1>5 DEF Fields
    <3>. HIDE DEF line, info
    <3>6. CASE line.field \in Texts
      <4>1. value = line.value
        BY <3>6, FieldsAssumption DEF Value
      <4>. QED  BY <1>2, <4>1
    <3>7. CASE line.field \in Flags
      <4>1. value = (line.value \notin {"false", "0"})
        <5>1. line.field \notin Texts /\ line.field # "level" /\ line.field # "limitsize"
          BY <3>7, FieldsAssumption
        <5>. QED  BY <3>7, <5>1 DEF Value
      <4>. QED  BY <3>2, <4>1
    <3>8. CASE line.field = "level"
      <4>1. value = IF line.value \in DOMAIN LevelOf THEN LevelOf[line.value] ELSE info["level"]
        BY <3>8, FieldsAssumption DEF Value
      <4>. QED  BY <3>4, <4>1
    <3>9. CASE line.field = "limitsize"
      <4>1. value = IF line.value \in Nat THEN line.value ELSE 0
        BY <3>9, FieldsAssumption DEF Value
      <4>. QED  BY <3>3, <4>1
    <3>. QED  BY <3>5, <3>6, <3>7, <3>8, <3>9
  <2>. HIDE DEF value
  <2>4. newInfo \in I
    <3>1. newInfo \in [Fields \cup {"key"} -> V]
      <4>. HIDE DEF info
      <4>. QED  BY <2>2, <2>3
    <3>. QED  BY <3>1 DEF Info, V
  <2>5. ParseLine(p, line) = [p EXCEPT !.infos[p.key][line.field] = Value(p.infos[p.key], line.field, line.value)]
    BY <1>5 DEF ParseLine
  <2>6. ParseLine(p, line) = [p EXCEPT !.infos = more]
    BY <2>5 DEF value
  <2>. HIDE DEF newInfo, k
  <2>7. more \in [D -> I]
    <3>. HIDE DEF I
    <3>. QED  BY <1>0, <2>1, <2>4
  <2>8. more \in Sections(config)
    <3>. HIDE DEF more
    <3>. QED  BY <2>7 DEF Sections, A
  <2>. HIDE DEF more
  <2>9. ParseLine(p, line) = [key |-> p.key, infos |-> more]
    <3>. HIDE DEF line
    <3>. QED  BY <1>1, <2>6
  <2>. HIDE DEF line
  <2>. QED  BY <1>1, <2>8, <2>9 DEF A, line
<1>6. CASE line.kind # "section" /\ ~(line.kind = "set" /\ p.key \in DOMAIN p.infos /\ line.field \in Fields)
  <2>1. ParseLine(p, line) = p
    BY <1>6 DEF ParseLine
  <2>. QED  BY <2>1
<1>. QED  BY <1>4, <1>5, <1>6

\* Whatever the lines are, "enable" is true or false in every section.
LEMMA ParseFacts ==
  ASSUME NEW config \in Configs
  PROVE  \A k \in DOMAIN Parse[config]: Parse[config][k].enable \in BOOLEAN
<1>. DEFINE N == Len(config)
            S == [key: Names(config), infos: Sections(config)]
            none == [key |-> "", infos |-> <<>>]
            step == [i \in 1..N |-> [p \in S |-> ParseLine(p, config[i])]]
            Is_(f) == f = [i \in 0..N |-> IF i = 0 THEN none ELSE ParseLine(f[i - 1], config[i])]
            Good(p) == \A k \in DOMAIN p.infos: p.infos[k].enable \in BOOLEAN
<1>0. N \in Nat
  BY ConfigsAssumption
<1>1. \A i \in 1..N, p \in S: ParseLine(p, config[i]) \in S
  BY ParseLineKeeps
<1>2. none \in S
  <2>1. <<>> \in [{} -> Info(config)]
    OBVIOUS
  <2>2. {} \in SUBSET Names(config) /\ "" \in Names(config)
    BY DEF Names
  <2>3. <<>> \in Sections(config)
    BY <2>1, <2>2 DEF Sections
  <2>. QED  BY <2>2, <2>3
<1>3. PICK f \in [0..N -> S]: Unfolds(f, none, N, step)
  <2>1. step \in [1..N -> [S -> S]]
    <3>. HIDE DEF S
    <3>. QED  BY <1>1
  <2>. HIDE DEF step, N, none, S
  <2>. QED  BY <1>0, <1>2, <2>1, RecursionExists
<1>4. \A i \in 1..N, p \in S: step[i][p] = ParseLine(p, config[i])
  <2>. HIDE DEF S
  <2>. QED  OBVIOUS
<1>. HIDE DEF step, none, S
<1>5. ASSUME NEW i \in 1..N
      PROVE  f[i - 1] \in S /\ f[i] = ParseLine(f[i - 1], config[i])
  <2>1. i - 1 \in 0..N /\ i \in 0..N /\ i # 0
    BY <1>0
  <2>2. f[i - 1] \in S /\ f[i] = step[i][f[i - 1]]
    BY <1>3, <2>1 DEF Unfolds
  <2>. QED  BY <1>4, <2>2
<1>6. Is_(f)
  BY <1>3, <1>5 DEF Unfolds
<1>7. Is_(Parsing(config))
  <2>1. Parsing(config) = CHOOSE g: Is_(g)
    BY DEF Parsing, none
  <2>. HIDE DEF Is_
  <2>. QED  BY <1>6, <2>1
<1>. DEFINE F == Parsing(config)
<1>8. \A i \in 0..N: F[i] = IF i = 0 THEN none ELSE ParseLine(F[i - 1], config[i])
  <2>1. F = [i \in 0..N |-> IF i = 0 THEN none ELSE ParseLine(F[i - 1], config[i])]
    BY <1>7
  <2>. HIDE DEF F
  <2>. QED  BY <2>1
<1>9. Parse[config] = F[N].infos
  BY DEF Parse, Parsing
<1>. HIDE DEF F
<1>. DEFINE T == {i \in 0..N: F[i] \in S /\ Good(F[i])}
<1>10. F[0] \in S /\ Good(F[0])
  <2>1. F[0] = none
    BY <1>0, <1>8
  <2>2. none.infos = <<>> /\ DOMAIN <<>> = {}
    BY DEF none
  <2>. QED  BY <1>2, <2>1, <2>2
<1>11. ASSUME NEW i \in 1..N, F[i - 1] \in S, Good(F[i - 1])
       PROVE  F[i] \in S /\ Good(F[i])
  <2>. DEFINE p == F[i - 1]
              line == config[i]
  <2>1. F[i] = ParseLine(p, line)
    BY <1>0, <1>8
  <2>2. F[i] \in S
    BY <1>1, <1>11, <2>1
  <2>. HIDE DEF p, line
  <2>3. p \in S /\ \A k \in DOMAIN p.infos: p.infos[k].enable \in BOOLEAN
    BY <1>11 DEF p
  <2>4. p = [key |-> p.key, infos |-> p.infos]
    BY <2>3 DEF S
  <2>5. CASE line.kind = "section"
    <3>1. ParseLine(p, line).infos =
            IF line.key \in DOMAIN p.infos THEN p.infos
            ELSE [k \in DOMAIN p.infos \cup {line.key} |->
                    IF k = line.key THEN NewInfo(k) ELSE p.infos[k]]
      BY <2>5 DEF ParseLine
    <3>2. NewInfo(line.key).enable = TRUE
      BY FieldsAssumption DEF NewInfo, Fields
    <3>. DEFINE new == NewInfo(line.key)
                more == [k \in DOMAIN p.infos \cup {line.key} |->
                           IF k = line.key THEN new ELSE p.infos[k]]
    <3>3. F[i].infos = p.infos \/ F[i].infos = more
      <4>1. ParseLine(p, line).infos = IF line.key \in DOMAIN p.infos THEN p.infos ELSE more
        BY <3>1
      <4>. HIDE DEF more
      <4>. QED  BY <2>1, <4>1
    <3>4. \A k \in DOMAIN more: more[k].enable \in BOOLEAN
      <4>1. new.enable \in BOOLEAN
        BY <3>2
      <4>. HIDE DEF new
      <4>2. DOMAIN more = DOMAIN p.infos \cup {line.key} /\ more[line.key] = new
        OBVIOUS
      <4>3. \A k \in DOMAIN p.infos: k # line.key => more[k] = p.infos[k]
        OBVIOUS
      <4>. HIDE DEF more
      <4>. QED  BY <2>3, <4>1, <4>2, <4>3
    <3>. HIDE DEF more
    <3>5. Good(F[i])
      BY <2>3, <3>3, <3>4
    <3>. QED  BY <2>2, <3>5
  <2>6. CASE line.kind # "section" /\ line.kind = "set" /\ p.key \in DOMAIN p.infos /\ line.field \in Fields
    <3>. DEFINE k == p.key
                info == p.infos[k]
                value == Value(info, line.field, line.value)
                newInfo == [info EXCEPT ![line.field] = value]
                more == [p.infos EXCEPT ![k] = newInfo]
    <3>1. ParseLine(p, line) = [p EXCEPT !.infos[p.key][line.field] =
                                  Value(p.infos[p.key], line.field, line.value)]
      BY <2>6 DEF ParseLine
    <3>2. ParseLine(p, line) = [p EXCEPT !.infos = more]
      BY <3>1
    <3>3. info.enable \in BOOLEAN
      BY <2>3, <2>6
    <3>4. line.field = "enable" => value \in BOOLEAN
      <4>1. ASSUME line.field = "enable" PROVE value = (line.value \notin {"false", "0"})
        BY <4>1, FieldsAssumption DEF Value
      <4>. QED  BY <4>1
    <3>. HIDE DEF value, info, k
    <3>5. newInfo.enable \in BOOLEAN
      <4>1. newInfo.enable = info.enable \/ (newInfo.enable = value /\ line.field = "enable")
        BY <2>6
      <4>. QED  BY <3>3, <3>4, <4>1
    <3>. HIDE DEF newInfo
    <3>6. DOMAIN more = DOMAIN p.infos /\ \A j \in DOMAIN p.infos: more[j] = p.infos[j] \/ more[j] = newInfo
      OBVIOUS
    <3>. HIDE DEF more
    <3>7. ParseLine(p, line).infos = more
      BY <2>4, <3>2
    <3>. QED  BY <2>1, <2>2, <2>3, <3>5, <3>6, <3>7
  <2>7. CASE line.kind # "section" /\ ~(line.kind = "set" /\ p.key \in DOMAIN p.infos /\ line.field \in Fields)
    <3>1. ParseLine(p, line) = p
      BY <2>7 DEF ParseLine
    <3>. QED  BY <2>1, <2>2, <2>3, <3>1
  <2>. QED  BY <2>5, <2>6, <2>7
<1>. HIDE DEF Good
<1>12. N \in T
  <2>1. 0 \in T /\ \A i \in 1..N: i - 1 \in T => i \in T
    BY <1>0, <1>10, <1>11
  <2>2. N \in 0..N
    BY <1>0
  <2>. HIDE DEF T
  <2>3. 0..N \subseteq T
    BY <1>0, <2>1, Induction
  <2>. QED  BY <2>2, <2>3
<1>13. Good(F[N])
  BY <1>12
<1>. QED  BY <1>9, <1>13 DEF Good

-----------------------------------------------------------------------------
(* The loggers after some were made *)

LEMMA InfoIsNew ==
  ASSUME NEW k
  PROVE  DOMAIN NewInfo(k) = Fields \cup {"key"} /\ NewInfo(k).enable = TRUE
BY FieldsAssumption DEF NewInfo, Fields

LEMMA WithMadeFacts ==
  ASSUME IInv, NEW wanted, NEW made, made = Made(wanted), NEW all, all = ids \o made
  PROVE  /\ all \in Seq(ToSet(Keys)) /\ IsInjective(all) /\ Len(all) \in 1..LoggerMax
         /\ DOMAIN WithMade(wanted) = ToSet(all)
         /\ DOMAIN attr \subseteq DOMAIN WithMade(wanted)
         /\ \A k \in DOMAIN attr: WithMade(wanted)[k] = attr[k]
         /\ \A k \in DOMAIN WithMade(wanted):
              /\ DOMAIN WithMade(wanted)[k] = Fields \cup {"key"}
              /\ WithMade(wanted)[k].enable \in BOOLEAN
              /\ k \in DOMAIN attr \/ (k \in wanted /\ Len(ids) < LoggerMax)
         /\ \A k \in wanted \cap ToSet(Keys):
              k \in DOMAIN WithMade(wanted) \/ Len(all) >= LoggerMax
<1>. DEFINE n == Len(ids)
            m == Len(made)
<1>1. /\ ids \in Seq(ToSet(Keys)) /\ n \in 1..LoggerMax /\ LoggerMax \in Nat
      /\ DOMAIN attr = ToSet(ids)
      /\ \A k \in DOMAIN attr: DOMAIN attr[k] = Fields \cup {"key"} /\ attr[k].enable \in BOOLEAN
      /\ \A i, j \in 1..n: ids[i] = ids[j] => i = j
  <2>1. DOMAIN ids = 1..n
    BY DEF IInv, TypeOK
  <2>. QED  BY <2>1, LimitsAssumption DEF IInv, TypeOK, Mixture, IsInjective
<1>2. /\ made \in Seq(ToSet(Keys)) /\ m \in Nat
      /\ \A i, j \in 1..m: made[i] = made[j] => i = j
      /\ \A i \in 1..m: made[i] \in wanted \ DOMAIN attr
      /\ n + m <= LoggerMax
      /\ \A k \in wanted \cap ToSet(Keys):
           k \in DOMAIN attr \/ (\E i \in 1..m: made[i] = k) \/ n + m >= LoggerMax
  <2>1. Len(ids) \in 0..LoggerMax
    BY <1>1
  <2>2. /\ Made(wanted) \in Seq(ToSet(Keys))
        /\ \A i, j \in 1..Len(Made(wanted)): Made(wanted)[i] = Made(wanted)[j] => i = j
        /\ \A i \in 1..Len(Made(wanted)): Made(wanted)[i] \in wanted \ DOMAIN attr
        /\ Len(ids) + Len(Made(wanted)) <= LoggerMax
        /\ \A k \in wanted \cap ToSet(Keys):
             \/ k \in DOMAIN attr
             \/ \E i \in 1..Len(Made(wanted)): Made(wanted)[i] = k
             \/ Len(ids) + Len(Made(wanted)) >= LoggerMax
    BY <2>1, MadeFacts
  <2>3. /\ made \in Seq(ToSet(Keys))
        /\ \A i, j \in 1..Len(made): made[i] = made[j] => i = j
        /\ \A i \in 1..Len(made): made[i] \in wanted \ DOMAIN attr
        /\ Len(ids) + Len(made) <= LoggerMax
        /\ \A k \in wanted \cap ToSet(Keys):
             \/ k \in DOMAIN attr
             \/ \E i \in 1..Len(made): made[i] = k
             \/ Len(ids) + Len(made) >= LoggerMax
    BY <2>2
  <2>4. Len(made) \in Nat
    BY <2>3
  <2>. QED  BY <2>3, <2>4
<1>3. /\ all \in Seq(ToSet(Keys)) /\ Len(all) = n + m
      /\ \A i \in 1..n: all[i] = ids[i]
      /\ \A i \in 1..m: all[n + i] = made[i]
  BY <1>1, <1>2, ConcatProperties
<1>4. /\ \A i \in 1..n + m: i \in 1..n \/ (i - n \in 1..m /\ n + (i - n) = i)
      /\ \A i \in 1..n: i \in 1..n + m
      /\ \A i \in 1..m: n + i \in 1..n + m
  BY <1>1, <1>2
<1>5. \A i \in 1..n: ids[i] \in DOMAIN attr
  BY <1>1 DEF ToSet
<1>6. ToSet(made) = {made[i]: i \in 1..m} /\ ToSet(ids) = {ids[i]: i \in 1..n}
      /\ ToSet(all) = {all[i]: i \in 1..n + m} /\ DOMAIN all = 1..n + m
  <2>1. DOMAIN made = 1..m /\ DOMAIN ids = 1..n
    BY <1>1, <1>2
  <2>2. DOMAIN all = 1..n + m
    <3>1. DOMAIN all = 1..Len(all)
      BY <1>3
    <3>. QED  BY <1>3, <3>1
  <2>. HIDE DEF n, m
  <2>. QED  BY <2>1, <2>2 DEF ToSet
<1>7. Len(all) \in 1..LoggerMax
  BY <1>1, <1>2, <1>3
<1>. HIDE DEF n, m
<1>8. IsInjective(all)
  <2>1. ASSUME NEW i \in 1..n + m, NEW j \in 1..n + m, all[i] = all[j]
        PROVE  i = j
    <3>1. CASE i \in 1..n /\ j \in 1..n
      BY <1>1, <1>3, <2>1, <3>1
    <3>2. CASE i \in 1..n /\ j - n \in 1..m /\ n + (j - n) = j
      <4>1. all[i] \in DOMAIN attr /\ all[j] \notin DOMAIN attr
        BY <1>2, <1>3, <1>5, <3>2
      <4>. QED  BY <2>1, <4>1
    <3>3. CASE j \in 1..n /\ i - n \in 1..m /\ n + (i - n) = i
      <4>1. all[j] \in DOMAIN attr /\ all[i] \notin DOMAIN attr
        BY <1>2, <1>3, <1>5, <3>3
      <4>. QED  BY <2>1, <4>1
    <3>4. CASE i - n \in 1..m /\ n + (i - n) = i /\ j - n \in 1..m /\ n + (j - n) = j
      <4>1. made[i - n] = made[j - n]
        BY <1>3, <2>1, <3>4
      <4>2. i - n = j - n
        BY <1>2, <3>4, <4>1
      <4>. QED  BY <3>4, <4>2
    <3>. QED  BY <1>4, <2>1, <3>1, <3>2, <3>3, <3>4
  <2>. QED  BY <1>6, <2>1 DEF IsInjective
<1>9. ToSet(all) = DOMAIN attr \cup ToSet(made)
  <2>1. ASSUME NEW x \in ToSet(all) PROVE x \in ToSet(ids) \/ x \in ToSet(made)
    <3>1. PICK i \in 1..n + m: x = all[i]
      BY <1>6
    <3>2. CASE i \in 1..n
      BY <1>3, <1>6, <3>1, <3>2
    <3>3. CASE i - n \in 1..m /\ n + (i - n) = i
      BY <1>3, <1>6, <3>1, <3>3
    <3>. QED  BY <1>4, <3>2, <3>3
  <2>2. ASSUME NEW x \in ToSet(ids) PROVE x \in ToSet(all)
    <3>1. PICK i \in 1..n: x = ids[i]
      BY <1>6
    <3>2. i \in 1..n + m /\ x = all[i]
      BY <1>3, <1>4, <3>1
    <3>. QED  BY <1>6, <3>2
  <2>3. \A x \in ToSet(made): x \in ToSet(all)
    BY <1>3, <1>4, <1>6
  <2>. QED  BY <1>1, <2>1, <2>2, <2>3
<1>. DEFINE old == WithMade(wanted)
<1>10. /\ DOMAIN old = DOMAIN attr \cup ToSet(made)
       /\ \A k \in DOMAIN attr: old[k] = attr[k]
       /\ \A k \in ToSet(made) \ DOMAIN attr: old[k] = NewInfo(k)
  BY DEF WithMade
<1>. HIDE DEF old
<1>11. ASSUME NEW k \in DOMAIN old
       PROVE  /\ DOMAIN old[k] = Fields \cup {"key"} /\ old[k].enable \in BOOLEAN
              /\ k \in DOMAIN attr \/ (k \in wanted /\ Len(ids) < LoggerMax)
  <2>1. CASE k \in DOMAIN attr
    BY <1>1, <1>10, <2>1
  <2>2. CASE k \in ToSet(made) \ DOMAIN attr
    <3>1. PICK i \in 1..m: made[i] = k
      BY <1>6, <2>2
    <3>2. k \in wanted /\ n < LoggerMax
      BY <1>1, <1>2, <3>1
    <3>3. old[k].enable = TRUE /\ DOMAIN old[k] = Fields \cup {"key"}
      BY <1>10, <2>2, InfoIsNew
    <3>. QED  BY <3>2, <3>3 DEF n
  <2>. QED  BY <1>10, <1>11, <2>1, <2>2
<1>12. ASSUME NEW k \in wanted \cap ToSet(Keys)
       PROVE  k \in DOMAIN old \/ Len(all) >= LoggerMax
  BY <1>2, <1>3, <1>6, <1>10
<1>. QED  BY <1>3, <1>7, <1>8, <1>9, <1>10, <1>11, <1>12 DEF old

-----------------------------------------------------------------------------
(* configFromStringImpl *)

Old(isUpdate, infos) == WithMade(IF isUpdate THEN {} ELSE DOMAIN infos)

\* What a configuration changes later: the changes it puts into the queue.
Later(isUpdate, infos) ==
  UNION {Queue(k, Old(isUpdate, infos)[k], infos[k]):
           k \in DOMAIN Old(isUpdate, infos) \cap DOMAIN infos}

\* There are finitely many of them.
LEMMA FiniteLater ==
  ASSUME NEW old, NEW infos, IsFiniteSet(DOMAIN old)
  PROVE  IsFiniteSet(UNION {Queue(k, old[k], infos[k]): k \in DOMAIN old \cap DOMAIN infos})
<1>. DEFINE D == DOMAIN old \cap DOMAIN infos
            change(d) == [key |-> d[1], field |-> d[2], value |-> Given(infos[d[1]], d[2])]
            all == {change(d): d \in D \X Fields}
            C == UNION {Queue(k, old[k], infos[k]): k \in D}
<1>1. IsFiniteSet(D \X Fields)
  <2>1. IsFiniteSet(D) /\ IsFiniteSet(Fields)
    BY FS_Subset, FieldsAssumption
  <2>. HIDE DEF D
  <2>. QED  BY <2>1, FS_Product
<1>2. IsFiniteSet(all)
  <2>. DEFINE f == [d \in D \X Fields |-> change(d)]
  <2>. HIDE DEF change, D
  <2>1. f \in Surjection(D \X Fields, all)
    BY DEF Surjection
  <2>. HIDE DEF f, all
  <2>. QED  BY <1>1, <2>1, FS_Surjection
<1>3. C \subseteq all
  <2>1. ASSUME NEW k \in D, NEW c \in Queue(k, old[k], infos[k])
        PROVE  c \in all
    <3>1. PICK f \in Fields: c = [key |-> k, field |-> f, value |-> Given(infos[k], f)]
      BY DEF Queue
    <3>2. <<k, f>> \in D \X Fields /\ c = change(<<k, f>>)
      BY <3>1
    <3>. HIDE DEF change, D
    <3>. QED  BY <3>2
  <2>. HIDE DEF all, D
  <2>. QED  BY <2>1
<1>. HIDE DEF all
<1>. QED  BY <1>2, <1>3, FS_Subset

LEMMA ToSetOf ==
  ASSUME NEW X, NEW s \in Seq(X)
  PROVE  ToSet(s) \subseteq X
BY DEF ToSet

LEMMA FiniteToSet ==
  ASSUME NEW X, NEW s \in Seq(X)
  PROVE  IsFiniteSet(ToSet(s))
<1>1. IsFiniteSet(1..Len(s)) /\ DOMAIN s = 1..Len(s)
  BY FS_Interval
<1>2. s \in Surjection(1..Len(s), ToSet(s))
  BY <1>1 DEF Surjection, ToSet
<1>. QED  BY <1>1, <1>2, FS_Surjection

\* What a setter queues.
Change(k, f, info) == [key |-> k, field |-> f, value |-> Given(info, f)]

\* One logger of a configuration: its fields are set now or later.
LEMMA SetFacts ==
  ASSUME NEW old, NEW info
  PROVE  /\ DOMAIN Set(old, info) = DOMAIN old
         /\ "enable" \in DOMAIN old =>
              Set(old, info).enable = old.enable \/ Set(old, info).enable = info.enable
<1>1. DOMAIN Set(old, info) = DOMAIN old
  BY DEF Set
<1>2. ASSUME "enable" \in DOMAIN old
      PROVE  Set(old, info).enable = old.enable \/ Set(old, info).enable = info.enable
  <2>1. Given(info, "enable") = info.enable
    BY DEF Given
  <2>2. Set(old, info).enable = old.enable \/ Set(old, info).enable = Given(info, "enable")
    <3>. HIDE DEF Given
    <3>. QED  BY <1>2 DEF Set
  <2>. QED  BY <2>1, <2>2
<1>. QED  BY <1>1, <1>2

LEMMA SetOrQueued ==
  ASSUME NEW key, NEW old, DOMAIN old = Fields \cup {"key"}, NEW info, NEW f \in Fields
  PROVE  \/ Refused(info, f)
         \/ Set(old, info)[f] = Given(info, f)
         \/ Change(key, f, info) \in Queue(key, old, info)
<1>1. CASE Immediate(old, f, Given(info, f))
  BY <1>1 DEF Set
<1>2. CASE ~Immediate(old, f, Given(info, f))
  BY <1>2 DEF Queue, Change
<1>. QED  BY <1>1, <1>2

LEMMA Queued ==
  ASSUME NEW key, NEW old, NEW info, NEW c \in Queue(key, old, info)
  PROVE  runing /\ \E f \in Fields: c = Change(key, f, info)
<1>1. PICK f \in Fields: c = Change(key, f, info) /\ ~Immediate(old, f, Given(info, f))
  BY DEF Queue, Change
<1>2. runing
  BY <1>1 DEF Immediate
<1>. QED  BY <1>1, <1>2

LEMMA ImplStep ==
  ASSUME IInv, todo = <<>>, NEW config \in Configs, NEW isUpdate \in BOOLEAN,
         isUpdate => runing, runing' = runing, ConfigFromStringImpl(config, isUpdate)
  PROVE  /\ loaded' \in Configs \cup {NOFILE}
         /\ ids' \in Seq(ToSet(Keys)) /\ IsInjective(ids') /\ Len(ids') \in 1..LoggerMax
         /\ DOMAIN attr' = ToSet(ids')
         /\ \A key \in DOMAIN attr': attr'[key].enable \in BOOLEAN
         /\ ~runing => todo' = <<>>
         /\ Mixture'
<1>1. CASE Sum[config] = checksum
  <2>1. UNCHANGED <<loaded, ids, attr, todo>>
    BY <1>1 DEF ConfigFromStringImpl
  <2>2. Changes' = Changes
    BY <2>1 DEF Changes
  <2>3. \A k \in DOMAIN attr, f \in Fields: Settled(k, f)' <=> Settled(k, f)
    BY <2>1 DEF Settled
  <2>4. Mixture'
    BY <2>1, <2>2, <2>3 DEF IInv, Mixture
  <2>. QED  BY <2>1, <2>4 DEF IInv, TypeOK
<1>2. CASE Sum[config] # checksum
  <2>. DEFINE infos == Parse[config]
              wanted == IF isUpdate THEN {} ELSE DOMAIN infos
              old == WithMade(wanted)
              all == ids \o Made(wanted)
              found == DOMAIN old \cap DOMAIN infos
              C == Later(isUpdate, infos)
  <2>1. /\ loaded' = config /\ ids' = all
        /\ attr' = [k \in DOMAIN old |-> IF k \in found THEN Set(old[k], infos[k]) ELSE old[k]]
        /\ Old(isUpdate, infos) = old
        /\ todo' = Chain(todo, C)[C]
    BY <1>2 DEF ConfigFromStringImpl, FoldSet, MapThenFoldSet, Chain, Later, Old
  <2>2. /\ all \in Seq(ToSet(Keys)) /\ IsInjective(all) /\ Len(all) \in 1..LoggerMax
        /\ DOMAIN old = ToSet(all)
        /\ \A k \in DOMAIN old: DOMAIN old[k] = Fields \cup {"key"} /\ old[k].enable \in BOOLEAN
        /\ \A k \in wanted \cap ToSet(Keys): k \in DOMAIN old \/ Len(all) >= LoggerMax
    BY WithMadeFacts
  <2>3. C = UNION {Queue(k, old[k], infos[k]): k \in found}
    BY <2>1 DEF Later
  <2>4. \A k \in DOMAIN infos: infos[k].enable \in BOOLEAN
    BY ParseFacts
  <2>5. ~isUpdate => wanted = DOMAIN infos
    OBVIOUS
  <2>6. config # NOFILE
    BY SumAssumption
  <2>7. IsFiniteSet(DOMAIN old)
    <3>. HIDE DEF all, old
    <3>. QED  BY <2>2, FiniteToSet
  <2>8. IsFiniteSet(C)
    <3>. HIDE DEF old, infos
    <3>. QED  BY <2>3, <2>7, FiniteLater
  <2>. HIDE DEF infos, wanted, old, all, C
  <2>9. /\ DOMAIN attr' = DOMAIN old
        /\ \A k \in found: attr'[k] = Set(old[k], infos[k])
        /\ \A k \in DOMAIN old \ found: attr'[k] = old[k]
    BY <2>1
  <2>10. ASSUME NEW k \in found
         PROVE  /\ DOMAIN attr'[k] = Fields \cup {"key"} /\ attr'[k].enable \in BOOLEAN
                /\ \A f \in Fields:
                     \/ Refused(infos[k], f) \/ attr'[k][f] = Given(infos[k], f)
                     \/ Change(k, f, infos[k]) \in C
    <3>1. DOMAIN old[k] = Fields \cup {"key"} /\ old[k].enable \in BOOLEAN /\ infos[k].enable \in BOOLEAN
      BY <2>2, <2>4
    <3>2. Queue(k, old[k], infos[k]) \subseteq C
      BY <2>3
    <3>3. attr'[k] = Set(old[k], infos[k])
      BY <2>9
    <3>4. DOMAIN attr'[k] = Fields \cup {"key"} /\ attr'[k].enable \in BOOLEAN
      <4>1. "enable" \in DOMAIN old[k]
        BY <3>1, FieldsAssumption DEF Fields
      <4>2. /\ DOMAIN Set(old[k], infos[k]) = DOMAIN old[k]
            /\ \/ Set(old[k], infos[k]).enable = old[k].enable
               \/ Set(old[k], infos[k]).enable = infos[k].enable
        BY <4>1, SetFacts
      <4>. QED  BY <3>1, <3>3, <4>2
    <3>5. \A f \in Fields:
            \/ Refused(infos[k], f) \/ Set(old[k], infos[k])[f] = Given(infos[k], f)
            \/ Change(k, f, infos[k]) \in Queue(k, old[k], infos[k])
      BY <3>1, SetOrQueued, Zenon
    <3>. QED  BY <3>2, <3>3, <3>4, <3>5
  <2>11. \A k \in DOMAIN attr':
           DOMAIN attr'[k] = Fields \cup {"key"} /\ attr'[k].enable \in BOOLEAN
    BY <2>2, <2>9, <2>10
  <2>12. Parse[loaded'] = infos /\ loaded' # NOFILE
    BY <2>1, <2>6 DEF infos
  <2>13. C \subseteq Changes' /\ (~runing => C = {})
    <3>1. ASSUME NEW c \in C
          PROVE  c \in Changes' /\ runing
      <4>1. PICK k \in found: c \in Queue(k, old[k], infos[k])
        BY <2>3
      <4>2. runing /\ \E f \in Fields: c = Change(k, f, infos[k])
        BY <4>1, Queued, Zenon
      <4>3. k \in DOMAIN attr' \cap DOMAIN infos
        BY <2>9
      <4>4. Changes' = {[key |-> j, field |-> g, value |-> Given(infos[j], g)]:
                          j \in DOMAIN attr' \cap DOMAIN infos, g \in Fields}
        BY <2>12 DEF Changes
      <4>5. c \in Changes'
        BY <4>2, <4>3, <4>4 DEF Change
      <4>. QED  BY <4>2, <4>5
    <3>. QED  BY <3>1
  <2>14. /\ todo' \in Seq(Changes')
         /\ \A c \in C: \E i \in 1..Len(todo'): todo'[i] = c
         /\ ~runing => todo' = <<>>
    <3>1. <<>> \in Seq(Changes')
      BY EmptySeq
    <3>2. todo' = Chain(<<>>, C)[C]
      BY <2>1
    <3>3. Holds(todo', C, Changes') /\ (C = {} => todo' = <<>>)
      BY <2>8, <2>13, <3>1, <3>2, Appended
    <3>. QED  BY <2>13, <3>3 DEF Holds
  <2>15. ASSUME NEW k \in DOMAIN attr' \cap DOMAIN Parse[loaded'], NEW f \in Fields
         PROVE  Settled(k, f)'
    <3>1. k \in found
      BY <2>9, <2>12
    <3>2. CASE Refused(infos[k], f)
      BY <2>12, <3>2 DEF Settled
    <3>3. CASE attr'[k][f] = Given(infos[k], f)
      BY <2>12, <3>3 DEF Settled
    <3>4. CASE Change(k, f, infos[k]) \in C
      <4>1. PICK i \in 1..Len(todo'): todo'[i] = Change(k, f, infos[k])
        BY <2>14, <3>4
      <4>2. todo'[i].key = k /\ todo'[i].field = f
        BY <4>1 DEF Change
      <4>. QED  BY <4>2 DEF Settled
    <3>. QED  BY <2>10, <3>1, <3>2, <3>3, <3>4
  <2>16. ASSUME ~runing', NEW k \in DOMAIN Parse[loaded'] \cap ToSet(Keys)
         PROVE  k \in DOMAIN attr' \/ Len(ids') >= LoggerMax
    <3>1. k \in wanted
      BY <2>5, <2>12, <2>16
    <3>. QED  BY <2>1, <2>2, <2>9, <3>1
  <2>17. Mixture'
    BY <2>11, <2>14, <2>15, <2>16 DEF Mixture
  <2>18. ids' \in Seq(ToSet(Keys)) /\ IsInjective(ids') /\ Len(ids') \in 1..LoggerMax
    BY <2>1, <2>2
  <2>19. DOMAIN attr' = ToSet(ids')
    BY <2>1, <2>2, <2>9
  <2>. QED  BY <2>1, <2>11, <2>14, <2>17, <2>18, <2>19
<1>. QED  BY <1>1, <1>2

-----------------------------------------------------------------------------
(* The loggers are sound: every step *)

LEMMA Initially == Init => IInv
<1>. SUFFICES ASSUME Init PROVE IInv
  OBVIOUS
<1>1. /\ ids = <<MAIN>> /\ attr = [k \in {MAIN} |-> NewInfo(MAIN)] /\ todo = <<>>
      /\ loaded = NOFILE /\ w = "drain" /\ MAIN \in ToSet(Keys)
  BY KeysAssumption DEF Init
<1>2. /\ ids \in Seq(ToSet(Keys)) /\ IsInjective(ids) /\ Len(ids) \in 1..LoggerMax
      /\ ToSet(ids) = {MAIN}
  <2>1. Len(ids) = 1 /\ DOMAIN ids = {1} /\ ids[1] = MAIN
    BY <1>1
  <2>. QED  BY <1>1, <2>1, LimitsAssumption DEF IsInjective, ToSet
<1>3. /\ DOMAIN attr = {MAIN}
      /\ \A k \in DOMAIN attr: DOMAIN attr[k] = Fields \cup {"key"} /\ attr[k].enable \in BOOLEAN
  <2>1. DOMAIN attr = {MAIN} /\ attr[MAIN] = NewInfo(MAIN)
    BY <1>1
  <2>2. DOMAIN attr[MAIN] = Fields \cup {"key"} /\ attr[MAIN].enable = TRUE
    BY <2>1, InfoIsNew
  <2>. QED  BY <2>1, <2>2
<1>4. TypeOK
  <2>1. /\ disk \in Configs \cup {NOFILE} /\ loaded \in Configs \cup {NOFILE}
        /\ edits \in 0..MaxEdits /\ named \in BOOLEAN /\ runing \in BOOLEAN
        /\ w \in {"drain", "update"}
    <3>1. /\ disk \in Configs \cup {NOFILE} /\ loaded = NOFILE /\ edits = 0
          /\ named = FALSE /\ runing = FALSE /\ w = "drain"
      BY DEF Init
    <3>2. 0 \in 0..MaxEdits
      BY LimitsAssumption
    <3>. QED  BY <3>1, <3>2
  <2>2. DOMAIN attr = ToSet(ids)
    BY <1>2, <1>3
  <2>. QED  BY <1>2, <1>3, <2>1, <2>2 DEF TypeOK
<1>5. todo \in Seq(Changes)
  BY <1>1, EmptySeq
<1>. QED  BY <1>1, <1>3, <1>4, <1>5 DEF IInv, Mixture

\* A step that leaves the loggers and the queue as they are.
LEMMA Same ==
  ASSUME IInv, UNCHANGED <<loaded, ids, attr, todo>>, ~runing' => ~runing
  PROVE  Mixture'
<1>1. Changes' = Changes
  BY DEF Changes
<1>2. \A k \in DOMAIN attr, f \in Fields: Settled(k, f)' <=> Settled(k, f)
  BY DEF Settled
<1>. QED  BY <1>1, <1>2 DEF IInv, Mixture, TypeOK

LEMMA CreateLoggerStep ==
  ASSUME IInv, CreateLogger
  PROVE  IInv'
<1>. PICK key \in ToSet(Keys): ids' = ids \o Made({key}) /\ attr' = WithMade({key})
  BY DEF CreateLogger
<1>1. /\ UNCHANGED <<disk, edits, named, checksum, loaded, runing, todo, w>>
      /\ ~runing /\ todo = <<>> /\ TypeOK /\ w # "update"
  BY DEF CreateLogger, IInv
<1>2. /\ ids' \in Seq(ToSet(Keys)) /\ IsInjective(ids') /\ Len(ids') \in 1..LoggerMax
      /\ DOMAIN attr' = ToSet(ids')
      /\ DOMAIN attr \subseteq DOMAIN attr'
      /\ \A k \in DOMAIN attr: attr'[k] = attr[k]
      /\ \A k \in DOMAIN attr':
           /\ DOMAIN attr'[k] = Fields \cup {"key"} /\ attr'[k].enable \in BOOLEAN
           /\ k \in DOMAIN attr \/ Len(ids) < LoggerMax
  BY WithMadeFacts
<1>3. TypeOK'
  BY <1>1, <1>2 DEF TypeOK
<1>4. todo' \in Seq(Changes')
  BY <1>1, EmptySeq
<1>5. ASSUME loaded' # NOFILE, NEW k \in DOMAIN attr' \cap DOMAIN Parse[loaded'], NEW f \in Fields
      PROVE  Settled(k, f)'
  <2>1. k \in DOMAIN attr
    <3>1. k \in ToSet(Keys)
      BY <1>2, ToSetOf
    <3>2. Len(ids) \in Nat /\ LoggerMax \in Nat
      BY <1>1, LimitsAssumption DEF TypeOK
    <3>3. k \in DOMAIN attr \/ Len(ids) >= LoggerMax
      BY <1>1, <1>5, <3>1 DEF IInv, Mixture
    <3>4. k \in DOMAIN attr \/ Len(ids) < LoggerMax
      BY <1>2
    <3>. QED  BY <3>2, <3>3, <3>4
  <2>2. Settled(k, f)
    BY <1>1, <1>5, <2>1 DEF IInv, Mixture
  <2>. QED  BY <1>1, <1>2, <2>1, <2>2 DEF Settled
<1>6. ASSUME loaded' # NOFILE, NEW k \in DOMAIN Parse[loaded'] \cap ToSet(Keys)
      PROVE  k \in DOMAIN attr' \/ Len(ids') >= LoggerMax
  <2>1. k \in DOMAIN attr \/ Len(ids) >= LoggerMax
    BY <1>1, <1>6 DEF IInv, Mixture
  <2>2. Len(ids') >= Len(ids)
    <3>1. ids \in Seq(ToSet(Keys)) /\ Len(ids) \in 0..LoggerMax
      BY <1>1, LimitsAssumption DEF TypeOK
    <3>2. Made({key}) \in Seq(ToSet(Keys))
      BY <3>1, MadeFacts
    <3>3. Len(ids') = Len(ids) + Len(Made({key})) /\ Len(Made({key})) \in Nat
      BY <3>1, <3>2, ConcatProperties
    <3>. QED  BY <3>1, <3>3
  <2>3. Len(ids) \in Nat /\ Len(ids') \in Nat /\ LoggerMax \in Nat
    BY <1>1, <1>2, LimitsAssumption DEF TypeOK
  <2>4. k \in DOMAIN attr => k \in DOMAIN attr'
    BY <1>2
  <2>5. Len(ids) >= LoggerMax => Len(ids') >= LoggerMax
    BY <2>2, <2>3
  <2>. QED  BY <2>1, <2>4, <2>5
<1>7. Mixture'
  BY <1>2, <1>4, <1>5, <1>6 DEF Mixture
<1>. QED  BY <1>1, <1>3, <1>7 DEF IInv

LEMMA OnHotChangeStep ==
  ASSUME IInv, OnHotChange
  PROVE  IInv'
<1>. DEFINE c == Head(todo)
            n == Len(todo)
<1>1. /\ UNCHANGED <<disk, edits, named, checksum, loaded, ids, runing, w>>
      /\ runing /\ w = "drain" /\ todo # <<>> /\ TypeOK
      /\ attr' = [attr EXCEPT ![c.key][c.field] = c.value] /\ todo' = Tail(todo)
      /\ todo \in Seq(Changes)
      /\ \A k \in DOMAIN attr: DOMAIN attr[k] = Fields \cup {"key"}
  BY DEF OnHotChange, IInv, Mixture
<1>2. c \in Changes /\ Tail(todo) \in Seq(Changes)
  BY <1>1, HeadTailProperties
<1>3. /\ n \in Nat \ {0} /\ Len(todo') = n - 1
      /\ \A i \in 1..n - 1: todo'[i] = todo[i + 1]
      /\ todo[1] = c
  BY <1>1, HeadTailProperties
<1>4. /\ loaded # NOFILE /\ loaded \in Configs
      /\ c.key \in DOMAIN attr \cap DOMAIN Parse[loaded] /\ c.field \in Fields
      /\ c.value = Given(Parse[loaded][c.key], c.field)
  <2>1. loaded # NOFILE
    BY <1>2 DEF Changes
  <2>2. PICK k \in DOMAIN attr \cap DOMAIN Parse[loaded], f \in Fields:
          c = [key |-> k, field |-> f, value |-> Given(Parse[loaded][k], f)]
    BY <1>2, <2>1 DEF Changes
  <2>. QED  BY <1>1, <2>1, <2>2 DEF TypeOK
<1>. HIDE DEF c, n
<1>5. /\ DOMAIN attr' = DOMAIN attr
      /\ \A k \in DOMAIN attr:
           /\ DOMAIN attr'[k] = DOMAIN attr[k]
           /\ \A f \in DOMAIN attr[k]:
                attr'[k][f] = IF k = c.key /\ f = c.field THEN c.value ELSE attr[k][f]
  BY <1>1
<1>6. c.field = "enable" => c.value \in BOOLEAN
  <2>1. Parse[loaded][c.key].enable \in BOOLEAN
    BY <1>4, ParseFacts
  <2>2. "enable" # "limitsize"
    OBVIOUS
  <2>. QED  BY <1>4, <2>1 DEF Given
<1>7. \A k \in DOMAIN attr': attr'[k].enable \in BOOLEAN
  <2>1. "enable" \in Fields
    BY FieldsAssumption DEF Fields
  <2>2. \A k \in DOMAIN attr: attr[k].enable \in BOOLEAN
    BY <1>1 DEF TypeOK
  <2>. QED  BY <1>1, <1>5, <1>6, <2>1, <2>2
<1>8. TypeOK'
  BY <1>1, <1>5, <1>7 DEF TypeOK
<1>9. Changes' = Changes
  BY <1>1, <1>5 DEF Changes
<1>10. ASSUME NEW k \in DOMAIN attr' \cap DOMAIN Parse[loaded'], NEW f \in Fields
       PROVE  Settled(k, f)'
  <2>0. k \in DOMAIN attr \cap DOMAIN Parse[loaded] /\ f \in DOMAIN attr[k]
    BY <1>1, <1>5
  <2>1. attr'[k][f] = IF k = c.key /\ f = c.field THEN c.value ELSE attr[k][f]
    BY <1>5, <2>0
  <2>2. Settled(k, f)
    BY <1>4, <2>0 DEF IInv, Mixture
  <2>3. CASE Refused(Parse[loaded][k], f)
    BY <1>1, <2>3 DEF Settled
  <2>4. CASE k = c.key /\ f = c.field
    <3>1. attr'[k][f] = Given(Parse[loaded'][k], f)
      BY <1>1, <1>4, <2>1, <2>4
    <3>. QED  BY <3>1 DEF Settled
  <2>5. CASE ~(k = c.key /\ f = c.field) /\ attr[k][f] = Given(Parse[loaded][k], f)
    <3>1. attr'[k][f] = Given(Parse[loaded'][k], f)
      BY <1>1, <2>1, <2>5
    <3>. QED  BY <3>1 DEF Settled
  <2>6. CASE ~(k = c.key /\ f = c.field) /\ \E i \in 1..n: todo[i].key = k /\ todo[i].field = f
    <3>1. PICK i \in 1..n: todo[i].key = k /\ todo[i].field = f
      BY <2>6
    <3>2. i # 1
      BY <1>3, <2>6, <3>1
    <3>3. i - 1 \in 1..n - 1 /\ i - 1 + 1 = i
      BY <1>3, <3>2
    <3>4. todo'[i - 1] = todo[i] /\ i - 1 \in 1..Len(todo')
      BY <1>3, <3>3
    <3>. QED  BY <3>1, <3>4 DEF Settled
  <2>. QED  BY <2>2, <2>3, <2>4, <2>5, <2>6 DEF Settled, n
<1>11. Mixture'
  <2>1. \A k \in DOMAIN attr': DOMAIN attr'[k] = Fields \cup {"key"}
    BY <1>1, <1>5
  <2>2. todo' \in Seq(Changes')
    BY <1>1, <1>2, <1>9
  <2>. QED  BY <1>1, <1>10, <2>1, <2>2 DEF Mixture
<1>. QED  BY <1>1, <1>8, <1>11 DEF IInv

LEMMA Inductive == IInv /\ [Next]_vars => IInv'
<1>. SUFFICES ASSUME IInv, [Next]_vars PROVE IInv'
  OBVIOUS
<1>1. CASE CreateLogger
  BY <1>1, CreateLoggerStep
<1>2. CASE Config
  <2>1. /\ ~runing /\ todo = <<>> /\ TypeOK /\ w # "update" /\ named' = TRUE
        /\ UNCHANGED <<disk, edits, runing, w>>
    BY <1>2 DEF Config, IInv
  <2>2. CASE disk = NOFILE
    <3>1. UNCHANGED <<loaded, ids, attr, todo>>
      BY <1>2, <2>2 DEF Config
    <3>2. Mixture'
      BY <2>1, <3>1, Same DEF TypeOK
    <3>. QED  BY <2>1, <3>1, <3>2 DEF IInv, TypeOK
  <2>3. CASE disk # NOFILE
    <3>1. disk \in Configs /\ ConfigFromStringImpl(disk, FALSE)
      BY <1>2, <2>1, <2>3 DEF Config, TypeOK
    <3>2. /\ loaded' \in Configs \cup {NOFILE}
          /\ ids' \in Seq(ToSet(Keys)) /\ IsInjective(ids') /\ Len(ids') \in 1..LoggerMax
          /\ DOMAIN attr' = ToSet(ids')
          /\ \A key \in DOMAIN attr': attr'[key].enable \in BOOLEAN
          /\ todo' = <<>> /\ Mixture'
      BY <2>1, <3>1, ImplStep
    <3>. QED  BY <2>1, <3>2 DEF IInv, TypeOK
  <2>. QED  BY <2>2, <2>3
<1>3. CASE ConfigFromString
  <2>1. /\ ~runing /\ todo = <<>> /\ TypeOK /\ w # "update"
        /\ UNCHANGED <<disk, edits, named, runing, w>>
    BY <1>3 DEF ConfigFromString, IInv
  <2>2. PICK config \in Configs: ConfigFromStringImpl(config, FALSE)
    BY <1>3 DEF ConfigFromString
  <2>3. /\ loaded' \in Configs \cup {NOFILE}
        /\ ids' \in Seq(ToSet(Keys)) /\ IsInjective(ids') /\ Len(ids') \in 1..LoggerMax
        /\ DOMAIN attr' = ToSet(ids')
        /\ \A key \in DOMAIN attr': attr'[key].enable \in BOOLEAN
        /\ todo' = <<>> /\ Mixture'
    BY <2>1, <2>2, ImplStep
  <2>. QED  BY <2>1, <2>3 DEF IInv, TypeOK
<1>4. CASE Start
  <2>1. /\ ~runing /\ runing' = TRUE /\ todo = <<>> /\ TypeOK /\ w # "update"
        /\ UNCHANGED <<disk, edits, named, checksum, loaded, ids, attr, todo, w>>
    BY <1>4 DEF Start, IInv
  <2>2. Mixture'
    BY <2>1, Same
  <2>. QED  BY <2>1, <2>2 DEF IInv, TypeOK
<1>5. CASE Edit
  <2>1. /\ TypeOK /\ edits < MaxEdits /\ edits' = edits + 1 /\ disk' \in Configs \cup {NOFILE}
        /\ UNCHANGED <<named, checksum, loaded, ids, attr, runing, todo, w>>
    BY <1>5 DEF Edit, IInv
  <2>2. Mixture'
    BY <2>1, Same DEF TypeOK
  <2>3. edits' \in 0..MaxEdits
    BY <2>1, LimitsAssumption DEF TypeOK
  <2>. QED  BY <2>1, <2>2, <2>3 DEF IInv, TypeOK
<1>6. CASE OnHotChange
  BY <1>6, OnHotChangeStep
<1>7. CASE Drained \/ NotYet
  <2>1. /\ TypeOK /\ UNCHANGED <<disk, edits, named, checksum, loaded, ids, attr, runing, todo>>
        /\ runing /\ todo = <<>> /\ w' \in {"drain", "update"}
    BY <1>7 DEF Drained, NotYet, IInv
  <2>2. Mixture'
    BY <2>1, Same
  <2>. QED  BY <2>1, <2>2 DEF IInv, TypeOK
<1>8. CASE UpdateConfig
  <2>1. /\ runing /\ todo = <<>> /\ TypeOK /\ w' = "drain"
        /\ UNCHANGED <<disk, edits, named, runing>>
    BY <1>8 DEF UpdateConfig, IInv
  <2>2. CASE named /\ disk # NOFILE
    <3>1. disk \in Configs /\ ConfigFromStringImpl(disk, TRUE)
      BY <1>8, <2>1, <2>2 DEF UpdateConfig, TypeOK
    <3>2. /\ loaded' \in Configs \cup {NOFILE}
          /\ ids' \in Seq(ToSet(Keys)) /\ IsInjective(ids') /\ Len(ids') \in 1..LoggerMax
          /\ DOMAIN attr' = ToSet(ids')
          /\ \A key \in DOMAIN attr': attr'[key].enable \in BOOLEAN
          /\ Mixture'
      BY <2>1, <3>1, ImplStep
    <3>. QED  BY <2>1, <3>2 DEF IInv, TypeOK
  <2>3. CASE ~(named /\ disk # NOFILE)
    <3>1. UNCHANGED <<loaded, ids, attr, todo>>
      BY <1>8, <2>3 DEF UpdateConfig
    <3>2. Mixture'
      BY <2>1, <3>1, Same
    <3>. QED  BY <2>1, <3>1, <3>2 DEF IInv, TypeOK
  <2>. QED  BY <2>2, <2>3
<1>9. CASE UNCHANGED vars
  <2>1. TypeOK /\ UNCHANGED <<disk, edits, named, checksum, loaded, ids, attr, runing, todo, w>>
    BY <1>9 DEF vars, IInv
  <2>2. Mixture'
    BY <2>1, Same DEF TypeOK
  <2>. QED  BY <2>1, <2>2 DEF IInv, TypeOK
<1>. QED  BY <1>1, <1>2, <1>3, <1>4, <1>5, <1>6, <1>7, <1>8, <1>9 DEF Next

LEMMA Always == Spec => []IInv
BY Initially, Inductive, PTL DEF Spec

\* Each key has one logger, and there are no more loggers than _loggers has room
\* for (log4z.cpp:1362-1395).
THEOREM TypeCorrect == Spec => []TypeOK
<1>1. IInv => TypeOK
  BY DEF IInv
<1>. QED  BY <1>1, Always, PTL

\* Once the queue is empty the configuration that was read last is in force, whatever
\* of it was changed at once or queued, and whoever made loggers in between
\* (log4z.cpp:1299-1327, 1559-1616).
THEOREM ConfigurationIsInForce == Spec => []InForce
<1>1. ASSUME IInv, loaded # NOFILE, todo = <<>>,
             NEW key \in DOMAIN attr \cap DOMAIN Parse[loaded]
      PROVE  Follows(attr[key], Parse[loaded][key])
  <2>1. ASSUME NEW f \in Fields
        PROVE  \/ Refused(Parse[loaded][key], f)
               \/ attr[key][f] = Given(Parse[loaded][key], f)
    <3>1. Settled(key, f)
      BY <1>1 DEF IInv, Mixture
    <3>2. Len(todo) = 0
      BY <1>1
    <3>3. 1..Len(todo) = {}
      BY <3>2
    <3>. QED  BY <3>1, <3>3 DEF Settled
  <2>2. "limitsize" \notin Texts
    BY FieldsAssumption
  <2>. QED  BY <2>1, <2>2 DEF Follows, Given, Refused
<1>2. IInv => InForce
  BY <1>1 DEF InForce
<1>. QED  BY <1>2, Always, PTL
=============================================================================
