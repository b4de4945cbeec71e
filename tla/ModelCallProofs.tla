-------------------------- MODULE ModelCallProofs --------------------------
(***************************************************************************)
(* A call of the model, for every window, every number of tool rounds,     *)
(* inputs, deltas and retries: what is sent (ContextBudget) and what comes *)
(* back (ProviderStream).  Both are loops over sequences, so their proofs   *)
(* rest on induction over the rounds of a loop, which comes first.         *)
(***************************************************************************)
EXTENDS ContextBudget, ProviderStream, SequenceTheorems, FiniteSetTheorems,
        WellFoundedInduction, TLAPS

-----------------------------------------------------------------------------
(***************************************************************************)
(* Induction and loops.  A set of numbers with 0 and with the successor of *)
(* each member holds them all, since the least number outside would have   *)
(* its predecessor inside.  A loop of N rounds therefore has a function of *)
(* its rounds, which is the recursive definition's, and only one.          *)
(***************************************************************************)

\* Induction over the natural numbers, for a set.
LEMMA SetInduction ==
    ASSUME NEW S, 0 \in S, \A n \in Nat : n \in S => n + 1 \in S
    PROVE  Nat \subseteq S
  <1> DEFINE R == OpToRel(<, Nat)
  <1>1. IsWellFoundedOn(R, Nat)
    BY NatLessThanWellFounded
  <1>2. SUFFICES ASSUME Nat \ S # {} PROVE FALSE
    OBVIOUS
  <1>3. PICK x \in Nat \ S : \A y \in Nat \ S : ~ (<<y, x>> \in R)
    <2> HIDE DEF R
    <2> QED BY <1>1, <1>2, WFMin
  <1>4. x # 0
    OBVIOUS
  <1>5. x - 1 \in Nat /\ x - 1 < x /\ (x - 1) + 1 = x
    BY <1>4
  <1>6. <<x - 1, x>> \in R
    BY <1>5 DEF OpToRel
  <1>7. x - 1 \in S
    BY <1>3, <1>5, <1>6
  <1> QED
    BY <1>5, <1>7

\* The loops of N rounds over states of V: where each round leads, and the
\* states the loop goes through.
Rounds(N, V) == [1..N -> [V -> V]]
IsLoop(f, N, V, b, g) ==
    /\ f \in [0..N -> V] /\ f[0] = b
    /\ \A n \in 1..N : f[n - 1] \in V /\ f[n] = g[n][f[n - 1]]

\* A loop has a state after each of its rounds.
LEMMA LoopExists ==
    \A N \in Nat : \A V : \A b \in V : \A g \in Rounds(N, V) : \E f : IsLoop(f, N, V, b, g)
  <1> SUFFICES ASSUME NEW N \in Nat, NEW V, NEW b \in V, NEW g \in Rounds(N, V)
               PROVE  \E f : IsLoop(f, N, V, b, g)
    OBVIOUS
  <1>0. g \in [1..N -> [V -> V]]
    BY DEF Rounds
  <1> DEFINE S == {n \in Nat : n <= N => \E f : IsLoop(f, n, V, b, g)}
  <1>1. 0 \in S
    <2> DEFINE f == [i \in 0..0 |-> b]
    <2>1. IsLoop(f, 0, V, b, g)
      BY DEF IsLoop
    <2> QED BY <2>1
  <1>2. ASSUME NEW n \in Nat, n \in S PROVE n + 1 \in S
    <2>1. SUFFICES ASSUME n + 1 <= N PROVE \E f : IsLoop(f, n + 1, V, b, g)
      OBVIOUS
    <2>2. PICK f : IsLoop(f, n, V, b, g)
      BY <1>2, <2>1
    <2> DEFINE h == [i \in 0..n + 1 |-> IF i = n + 1 THEN g[n + 1][f[n]] ELSE f[i]]
    <2>3. h \in [0..n + 1 -> V]
      BY <1>0, <2>1, <2>2 DEF IsLoop
    <2>4. IsLoop(h, n + 1, V, b, g)
      BY <1>0, <2>1, <2>2, <2>3 DEF IsLoop
    <2> QED BY <2>4
  <1> HIDE DEF S
  <1>3. Nat \subseteq S
    BY <1>1, <1>2, SetInduction
  <1> QED BY <1>3 DEF S

\* Two loops that start alike and go on alike are in the same states.
Alike(f, h, N) == f[0] = h[0] /\ \A n \in 1..N : f[n - 1] = h[n - 1] => f[n] = h[n]

LEMMA LoopUnique ==
    ASSUME NEW N \in Nat, NEW f, NEW h, Alike(f, h, N)
    PROVE  f[N] = h[N] /\ \A n \in 0..N : f[n] = h[n]
  <1> DEFINE S == {n \in Nat : n <= N => f[n] = h[n]}
  <1>1. 0 \in S
    BY DEF Alike
  <1>2. ASSUME NEW n \in Nat, n \in S PROVE n + 1 \in S
    <2>1. n + 1 <= N => n + 1 \in 1..N /\ (n + 1) - 1 = n
      OBVIOUS
    <2> QED  BY <1>2, <2>1 DEF Alike
  <1> HIDE DEF S
  <1>3. Nat \subseteq S
    BY <1>1, <1>2, SetInduction
  <1> QED  BY <1>3 DEF S

TotalUpTo(s, f) == f = [n \in 0..Len(s) |-> IF n = 0 THEN 0 ELSE f[n - 1] + s[n]]

\* Total adds one element a round.
LEMMA TotalLoop ==
    ASSUME NEW s \in Seq(Int)
    PROVE  \E f \in [0..Len(s) -> Int] : TotalUpTo(s, f) /\ Total(s) = f[Len(s)]
  <1>1. PICK N \in Nat : N = Len(s)
    OBVIOUS
  <1>2. PICK g : g = [n \in 1..N |-> [v \in Int |-> v + s[n]]]
    OBVIOUS
  <1>3. g \in Rounds(N, Int) /\ 0 \in Int
    BY <1>1, <1>2 DEF Rounds
  <1>4. PICK f : IsLoop(f, N, Int, 0, g)
    BY <1>3, LoopExists
  <1>5. f \in [0..N -> Int] /\ f[0] = 0 /\ \A n \in 1..N : f[n] = f[n - 1] + s[n]
    BY <1>1, <1>2, <1>4 DEF IsLoop
  <1>6. TotalUpTo(s, f)
    BY <1>1, <1>5 DEF TotalUpTo
  <1> DEFINE c == CHOOSE h : TotalUpTo(s, h)
  <1>7. TotalUpTo(s, c)
    BY <1>6
  <1>8. Total(s) = c[Len(s)]
    BY DEF Total, TotalUpTo
  <1> HIDE DEF c
  <1>9. c = f
    <2>1. c = [n \in 0..N |-> IF n = 0 THEN 0 ELSE c[n - 1] + s[n]]
      BY <1>1, <1>7 DEF TotalUpTo
    <2>2. c[0] = 0 /\ \A n \in 1..N : c[n] = c[n - 1] + s[n]
      <3>1. c[0] = 0
        BY <2>1
      <3>2. ASSUME NEW n \in 1..N PROVE c[n] = c[n - 1] + s[n]
        BY <2>1
      <3> QED BY <3>1, <3>2
    <2>3. Alike(c, f, N)
      BY <1>5, <2>2 DEF Alike
    <2>4. \A n \in 0..N : c[n] = f[n]
      BY <2>3, LoopUnique
    <2> QED BY <1>5, <2>1, <2>4
  <1> QED BY <1>1, <1>5, <1>6, <1>8, <1>9

LEMMA TotalType == ASSUME NEW s \in Seq(Int) PROVE Total(s) \in Int
  <1>1. PICK f \in [0..Len(s) -> Int] : Total(s) = f[Len(s)]
    BY TotalLoop
  <1> QED  BY <1>1

LEMMA TotalOfNone == Total(<<>>) = 0
  <1>1. <<>> \in Seq(Int) /\ Len(<<>>) = 0
    OBVIOUS
  <1>2. PICK f \in [0..Len(<<>>) -> Int] : TotalUpTo(<<>>, f) /\ Total(<<>>) = f[Len(<<>>)]
    BY <1>1, TotalLoop
  <1>3. f = [n \in 0..0 |-> IF n = 0 THEN 0 ELSE f[n - 1] + <<>>[n]]
    BY <1>1, <1>2 DEF TotalUpTo
  <1>4. f[0] = 0
    BY <1>3
  <1> QED  BY <1>1, <1>2, <1>4

\* An element more adds itself.
LEMMA TotalAppend ==
    ASSUME NEW s \in Seq(Int), NEW x \in Int
    PROVE  Total(Append(s, x)) = Total(s) + x
  <1>1. PICK N \in Nat : N = Len(s)
    OBVIOUS
  <1>2. PICK t : t = Append(s, x)
    OBVIOUS
  <1>3. t \in Seq(Int) /\ Len(t) = N + 1 /\ t[N + 1] = x /\ \A n \in 1..N : t[n] = s[n]
    BY <1>1, <1>2
  <1>4. PICK h \in [0..N -> Int] : TotalUpTo(s, h) /\ Total(s) = h[N]
    BY <1>1, TotalLoop
  <1>5. PICK f \in [0..N + 1 -> Int] : TotalUpTo(t, f) /\ Total(t) = f[N + 1]
    BY <1>3, TotalLoop
  <1>6. h[0] = 0 /\ \A n \in 1..N : h[n] = h[n - 1] + s[n]
    <2>1. h = [n \in 0..N |-> IF n = 0 THEN 0 ELSE h[n - 1] + s[n]]
      BY <1>1, <1>4 DEF TotalUpTo
    <2>2. h[0] = 0
      BY <2>1
    <2>3. ASSUME NEW n \in 1..N PROVE h[n] = h[n - 1] + s[n]
      BY <2>1
    <2> QED  BY <2>2, <2>3
  <1>7. f[0] = 0 /\ \A n \in 1..N + 1 : f[n] = f[n - 1] + t[n]
    <2>1. f = [n \in 0..N + 1 |-> IF n = 0 THEN 0 ELSE f[n - 1] + t[n]]
      BY <1>3, <1>5 DEF TotalUpTo
    <2>2. f[0] = 0
      BY <2>1
    <2>3. ASSUME NEW n \in 1..N + 1 PROVE f[n] = f[n - 1] + t[n]
      BY <2>1
    <2> QED  BY <2>2, <2>3
  <1>8. Alike(f, h, N)
    BY <1>3, <1>6, <1>7 DEF Alike
  <1>9. f[N] = h[N]
    BY <1>8, LoopUnique
  <1>10. f[N + 1] = f[N] + x
    BY <1>3, <1>7
  <1> QED  BY <1>2, <1>4, <1>5, <1>9, <1>10

Choice(v, s, K, n) == IF n \in K THEN Append(v, s[n]) ELSE v
ChosenUpTo(s, K, f) ==
    f = [n \in 0..Len(s) |-> IF n = 0 THEN <<>> ELSE Choice(f[n - 1], s, K, n)]

\* What ChosenUpTo says of each round.
Choosing(s, K, f, N) == f[0] = <<>> /\ \A n \in 1..N : f[n] = Choice(f[n - 1], s, K, n)

\* Chosen looks at one element a round.
LEMMA ChosenLoop ==
    ASSUME NEW S, NEW s \in Seq(S), NEW K
    PROVE  \E f \in [0..Len(s) -> Seq(S)] : Choosing(s, K, f, Len(s)) /\ Chosen(s, K) = f[Len(s)]
  <1>1. PICK N \in Nat : N = Len(s)
    OBVIOUS
  <1>2. PICK g : g = [n \in 1..N |-> [v \in Seq(S) |-> Choice(v, s, K, n)]]
    OBVIOUS
  <1>3. g \in Rounds(N, Seq(S)) /\ <<>> \in Seq(S)
    BY <1>1, <1>2 DEF Rounds, Choice
  <1>4. PICK f : IsLoop(f, N, Seq(S), <<>>, g)
    BY <1>3, LoopExists
  <1>5. f \in [0..N -> Seq(S)] /\ Choosing(s, K, f, N)
    BY <1>1, <1>2, <1>4 DEF IsLoop, Choosing
  <1>6. ChosenUpTo(s, K, f)
    BY <1>1, <1>5 DEF ChosenUpTo, Choosing
  <1> DEFINE c == CHOOSE h : ChosenUpTo(s, K, h)
  <1>7. ChosenUpTo(s, K, c)
    BY <1>6
  <1>8. Chosen(s, K) = c[Len(s)]
    BY DEF Chosen, ChosenUpTo, Choice
  <1> HIDE DEF c
  <1>9. c = f
    <2>1. c = [n \in 0..N |-> IF n = 0 THEN <<>> ELSE Choice(c[n - 1], s, K, n)]
      BY <1>1, <1>7 DEF ChosenUpTo
    <2>2. c[0] = <<>>
      BY <2>1
    <2>3. ASSUME NEW n \in 1..N
          PROVE c[n] = Choice(c[n - 1], s, K, n)
      BY <2>1
    <2>4. Alike(c, f, N)
      BY <1>5, <2>2, <2>3 DEF Alike, Choosing
    <2>5. \A n \in 0..N : c[n] = f[n]
      BY <2>4, LoopUnique
    <2> QED BY <1>5, <2>1, <2>5
  <1> QED BY <1>1, <1>5, <1>8, <1>9

LEMMA ChosenType == ASSUME NEW S, NEW s \in Seq(S), NEW K PROVE Chosen(s, K) \in Seq(S)
  <1>1. PICK f \in [0..Len(s) -> Seq(S)] : Chosen(s, K) = f[Len(s)]
    BY ChosenLoop
  <1> QED  BY <1>1

LEMMA ChosenOfNone == ASSUME NEW K PROVE Chosen(<<>>, K) = <<>>
  <1>1. <<>> \in Seq({}) /\ Len(<<>>) = 0
    OBVIOUS
  <1>2. PICK f \in [0..Len(<<>>) -> Seq({})] :
           Choosing(<<>>, K, f, Len(<<>>)) /\ Chosen(<<>>, K) = f[Len(<<>>)]
    BY <1>1, ChosenLoop
  <1> QED  BY <1>1, <1>2 DEF Choosing

\* An element more is chosen or not.
LEMMA ChosenAppend ==
    ASSUME NEW S, NEW s \in Seq(S), NEW x \in S, NEW K
    PROVE  Chosen(Append(s, x), K) = IF Len(s) + 1 \in K THEN Append(Chosen(s, K), x)
                                     ELSE Chosen(s, K)
  <1>1. PICK N \in Nat : N = Len(s)
    OBVIOUS
  <1>2. PICK t : t = Append(s, x)
    OBVIOUS
  <1>3. t \in Seq(S) /\ Len(t) = N + 1 /\ t[N + 1] = x /\ \A n \in 1..N : t[n] = s[n]
    BY <1>1, <1>2
  <1>4. PICK h \in [0..N -> Seq(S)] : Choosing(s, K, h, N) /\ Chosen(s, K) = h[N]
    BY <1>1, ChosenLoop
  <1>5. PICK f \in [0..Len(t) -> Seq(S)] : Choosing(t, K, f, Len(t)) /\ Chosen(t, K) = f[Len(t)]
    BY <1>3, ChosenLoop
  <1>6. Choosing(t, K, f, N + 1) /\ Chosen(t, K) = f[N + 1]
    BY <1>3, <1>5
  <1>7. Alike(f, h, N)
    <2>1. ASSUME NEW n \in 1..N PROVE \A v : Choice(v, t, K, n) = Choice(v, s, K, n)
      BY <1>3 DEF Choice
    <2>2. \A n \in 1..N : n \in 1..N + 1
      OBVIOUS
    <2> QED  BY <1>4, <1>6, <2>1, <2>2 DEF Alike, Choosing
  <1>8. f[N] = h[N]
    BY <1>7, LoopUnique
  <1>9. f[N + 1] = Choice(f[N], t, K, N + 1)
    <2>1. N + 1 \in 1..N + 1 /\ (N + 1) - 1 = N
      OBVIOUS
    <2> QED  BY <1>6, <2>1 DEF Choosing
  <1> QED  BY <1>1, <1>2, <1>3, <1>4, <1>6, <1>8, <1>9 DEF Choice

\* The first n elements of a sequence.
LEMMA FirstElements ==
    ASSUME NEW S, NEW s \in Seq(S)
    PROVE  /\ SubSeq(s, 1, 0) = <<>> /\ SubSeq(s, 1, Len(s)) = s
           /\ \A n \in 0..Len(s) : SubSeq(s, 1, n) \in Seq(S) /\ Len(SubSeq(s, 1, n)) = n
           /\ \A n \in Nat : n + 1 <= Len(s) =>
                 /\ s[n + 1] \in S
                 /\ SubSeq(s, 1, n + 1) = Append(SubSeq(s, 1, n), s[n + 1])
  <1>1. SubSeq(s, 1, 0) = <<>> /\ SubSeq(s, 1, Len(s)) = s
    OBVIOUS
  <1>2. \A n \in 0..Len(s) : SubSeq(s, 1, n) \in Seq(S) /\ Len(SubSeq(s, 1, n)) = n
    OBVIOUS
  <1>3. ASSUME NEW n \in Nat, n + 1 <= Len(s)
        PROVE  s[n + 1] \in S /\ SubSeq(s, 1, n + 1) = Append(SubSeq(s, 1, n), s[n + 1])
    <2>1. s[n + 1] \in S
      BY <1>3
    <2>2. SubSeq(s, 1, n + 1) \in Seq(S) /\ Append(SubSeq(s, 1, n), s[n + 1]) \in Seq(S)
      BY <1>3, <2>1
    <2>3. /\ Len(SubSeq(s, 1, n + 1)) = n + 1
          /\ Len(Append(SubSeq(s, 1, n), s[n + 1])) = n + 1
      BY <1>3, <2>1
    <2>4. \A i \in 1..n + 1 : SubSeq(s, 1, n + 1)[i] = Append(SubSeq(s, 1, n), s[n + 1])[i]
      BY <1>3, <2>1
    <2> QED  BY <2>1, <2>2, <2>3, <2>4, SeqEqual
  <1> QED  BY <1>1, <1>2, <1>3

\* Only the positions of s count among those of K.
LEMMA ChosenSame ==
    ASSUME NEW S, NEW s \in Seq(S), NEW K, NEW L, \A n \in 1..Len(s) : n \in K <=> n \in L
    PROVE  Chosen(s, K) = Chosen(s, L)
  <1>1. PICK N \in Nat : N = Len(s)
    OBVIOUS
  <1>2. PICK f \in [0..N -> Seq(S)] : Choosing(s, K, f, N) /\ Chosen(s, K) = f[N]
    BY <1>1, ChosenLoop
  <1>3. PICK h \in [0..N -> Seq(S)] : Choosing(s, L, h, N) /\ Chosen(s, L) = h[N]
    BY <1>1, ChosenLoop
  <1>4. \A n \in 1..N : \A v : Choice(v, s, K, n) = Choice(v, s, L, n)
    BY <1>1 DEF Choice
  <1>5. Alike(f, h, N)
    BY <1>2, <1>3, <1>4 DEF Alike, Choosing
  <1> QED  BY <1>2, <1>3, <1>5, LoopUnique

\* What part of a sum is due to the numbers from a to b.
LEMMA TotalSplice ==
    ASSUME NEW f \in Seq(Int), NEW h \in Seq(Int), Len(f) = Len(h),
           NEW a \in 1..Len(f), NEW b \in a..Len(f),
           \A i \in 1..Len(f) : f[i] = IF i \in a..b THEN f[i] ELSE h[i],
           \A i \in a..b : h[i] = 0
    PROVE  Total(f) = Total(h) + Total(SubSeq(f, a, b))
  <1>1. PICK N \in Nat : N = Len(f) /\ N = Len(h)
    OBVIOUS
  <1> DEFINE F(n) == Total(SubSeq(f, 1, n))
             H(n) == Total(SubSeq(h, 1, n))
             M(n) == Total(SubSeq(f, a, n))
             S == {n \in Nat : n <= N => /\ n < a => F(n) = H(n)
                                         /\ n \in a..b => F(n) = H(n) + M(n)
                                         /\ n > b => F(n) = H(n) + M(b)}
  <1>2. /\ F(0) = 0 /\ H(0) = 0 /\ M(a - 1) = 0
    <2>1. SubSeq(f, 1, 0) = <<>> /\ SubSeq(h, 1, 0) = <<>> /\ SubSeq(f, a, a - 1) = <<>>
      OBVIOUS
    <2> QED  BY <2>1, TotalOfNone
  <1>3. ASSUME NEW n \in Nat, n + 1 <= N
        PROVE  /\ F(n) \in Int /\ H(n) \in Int /\ f[n + 1] \in Int /\ h[n + 1] \in Int
               /\ F(n + 1) = F(n) + f[n + 1] /\ H(n + 1) = H(n) + h[n + 1]
    <2>1. n \in 0..Len(f) /\ n \in 0..Len(h)
      BY <1>1, <1>3
    <2>2. /\ SubSeq(f, 1, n + 1) = Append(SubSeq(f, 1, n), f[n + 1])
          /\ SubSeq(h, 1, n + 1) = Append(SubSeq(h, 1, n), h[n + 1])
          /\ SubSeq(f, 1, n) \in Seq(Int) /\ SubSeq(h, 1, n) \in Seq(Int)
          /\ f[n + 1] \in Int /\ h[n + 1] \in Int
      BY <1>1, <1>3, <2>1, FirstElements
    <2> QED  BY <2>2, TotalAppend, TotalType
  <1>4. ASSUME NEW n \in Nat, n + 1 \in a..b
        PROVE  M(n) \in Int /\ M(n + 1) = M(n) + f[n + 1]
    <2>1. f[n + 1] \in Int
      BY <1>1, <1>4
    <2>2. SubSeq(f, a, n) \in Seq(Int) /\ Len(SubSeq(f, a, n)) = n - a + 1
      BY <1>1, <1>4
    <2>3. SubSeq(f, a, n + 1) \in Seq(Int) /\ Len(SubSeq(f, a, n + 1)) = n - a + 2
      BY <1>1, <1>4
    <2>4. PICK u, v : u = SubSeq(f, a, n + 1) /\ v = Append(SubSeq(f, a, n), f[n + 1])
      OBVIOUS
    <2>5. u \in Seq(Int) /\ v \in Seq(Int) /\ Len(u) = n - a + 2 /\ Len(v) = n - a + 2
      BY <1>4, <2>1, <2>2, <2>3, <2>4
    <2>6. \A i \in 1..n - a + 2 : u[i] = v[i]
      <3> TAKE i \in 1..n - a + 2
      <3>1. u[i] = f[a + i - 1]
        BY <1>1, <1>4, <2>4
      <3>2. CASE i = n - a + 2
        BY <1>4, <2>1, <2>2, <2>4, <3>1, <3>2
      <3>3. CASE i # n - a + 2
        <4>1. i \in 1..n - a + 1
          BY <1>4, <3>3
        <4>2. v[i] = SubSeq(f, a, n)[i]
          BY <2>1, <2>2, <2>4, <4>1
        <4>3. SubSeq(f, a, n)[i] = f[a + i - 1]
          BY <1>1, <1>4, <4>1
        <4> QED  BY <3>1, <4>2, <4>3
      <3> QED  BY <3>2, <3>3
    <2>7. u = v
      BY <2>5, <2>6, SeqEqual
    <2>8. Total(u) = Total(SubSeq(f, a, n)) + f[n + 1] /\ Total(SubSeq(f, a, n)) \in Int
      BY <2>1, <2>2, <2>4, <2>7, TotalAppend, TotalType
    <2> QED  BY <2>4, <2>8
  <1>5. 0 \in S
    BY <1>2
  <1>6. ASSUME NEW n \in Nat, n \in S PROVE n + 1 \in S
    <2>1. SUFFICES ASSUME n + 1 <= N
                   PROVE  /\ n + 1 < a => F(n + 1) = H(n + 1)
                          /\ n + 1 \in a..b => F(n + 1) = H(n + 1) + M(n + 1)
                          /\ n + 1 > b => F(n + 1) = H(n + 1) + M(b)
      OBVIOUS
    <2>2. /\ F(n) \in Int /\ H(n) \in Int /\ f[n + 1] \in Int /\ h[n + 1] \in Int
          /\ F(n + 1) = F(n) + f[n + 1] /\ H(n + 1) = H(n) + h[n + 1]
      BY <1>3, <2>1
    <2>3. /\ n < a => F(n) = H(n)
          /\ n \in a..b => F(n) = H(n) + M(n)
          /\ n > b => F(n) = H(n) + M(b)
      BY <1>6, <2>1
    <2>4. n + 1 \in 1..Len(f)
      BY <1>1, <2>1
    <2>5. CASE n + 1 < a
      <3>1. f[n + 1] = h[n + 1]
        BY <2>4, <2>5
      <3> HIDE DEF F, H, M
      <3> QED  BY <2>2, <2>3, <2>5, <3>1
    <2>6. CASE n + 1 \in a..b
      <3>1. h[n + 1] = 0
        BY <2>6
      <3>2. M(n) \in Int /\ M(n + 1) = M(n) + f[n + 1]
        BY <1>4, <2>6
      <3>3. CASE n + 1 = a
        <4>1. n = a - 1 /\ n < a /\ ~(n + 1 > b)
          BY <3>3
        <4>2. M(n) = 0 /\ F(n) = H(n)
          BY <1>2, <2>3, <4>1
        <4> HIDE DEF F, H, M
        <4> QED  BY <2>2, <2>6, <3>1, <3>2, <4>1, <4>2
      <3>4. CASE n + 1 # a
        <4>1. n \in a..b /\ ~(n + 1 < a) /\ ~(n + 1 > b)
          BY <2>6, <3>4
        <4>2. F(n) = H(n) + M(n)
          BY <2>3, <4>1
        <4> HIDE DEF F, H, M
        <4>3. PICK H0, M0, d \in Int : H0 = H(n) /\ M0 = M(n) /\ d = f[n + 1]
          BY <2>2, <3>2
        <4>4. H(n + 1) = H0
          BY <2>2, <3>1, <4>3
        <4>5. F(n + 1) = (H0 + M0) + d /\ M(n + 1) = M0 + d
          BY <2>2, <3>2, <4>2, <4>3
        <4>6. F(n + 1) = H(n + 1) + M(n + 1)
          BY <4>4, <4>5
        <4> QED  BY <4>1, <4>6
      <3> QED  BY <3>3, <3>4
    <2>7. CASE n + 1 > b
      <3>1. f[n + 1] = h[n + 1] /\ ~(n + 1 < a) /\ n + 1 \notin a..b
        BY <2>4, <2>7
      <3>2. F(n) = H(n) + M(b)
        <4>1. CASE n = b
          <5>1. F(n) = H(n) + M(n)
            BY <2>3, <4>1
          <5> QED  BY <4>1, <5>1
        <4>2. CASE n # b
          BY <2>3, <2>7, <4>2
        <4> QED  BY <4>1, <4>2
      <3>3. M(b) \in Int
        <4>1. SubSeq(f, a, b) \in Seq(Int)
          BY <1>1
        <4> QED  BY <4>1, TotalType
      <3> HIDE DEF F, H, M
      <3>4. PICK H0, M0, d \in Int : H0 = H(n) /\ M0 = M(b) /\ d = h[n + 1]
        BY <2>2, <3>3
      <3>5. F(n + 1) = (H0 + M0) + d
        BY <2>2, <3>1, <3>2, <3>4
      <3>6. H(n + 1) = H0 + d
        BY <2>2, <3>4
      <3>7. F(n + 1) = H(n + 1) + M(b)
        BY <3>4, <3>5, <3>6
      <3> QED  BY <3>1, <3>7
    <2> QED  BY <2>1, <2>5, <2>6, <2>7
  <1>7. Nat \subseteq S
    <2> HIDE DEF S
    <2> QED  BY <1>5, <1>6, SetInduction
  <1>8. N \in S
    BY <1>7
  <1>9. F(N) = H(N) + M(b)
    <2>1. CASE N = b
      BY <1>8, <2>1
    <2>2. CASE N # b
      BY <1>1, <1>8, <2>2
    <2> QED  BY <2>1, <2>2
  <1>10. SubSeq(f, 1, N) = f /\ SubSeq(h, 1, N) = h
    BY <1>1, FirstElements
  <1> QED  BY <1>9, <1>10

-----------------------------------------------------------------------------
(* Where an element of s ends up in Chosen(s, K).                          *)

Place(s, K, i) == Len(Chosen(SubSeq(s, 1, i), K))

LEMMA PlaceSteps ==
    ASSUME NEW S, NEW s \in Seq(S), NEW K
    PROVE  /\ Place(s, K, 0) = 0
           /\ \A n \in 0..Len(s) : Place(s, K, n) \in Nat
           /\ \A n \in Nat : n + 1 <= Len(s) =>
                 /\ n + 1 \in K => Place(s, K, n + 1) = Place(s, K, n) + 1
                 /\ n + 1 \notin K => Place(s, K, n + 1) = Place(s, K, n)
  <1>1. Place(s, K, 0) = 0
    <2>1. SubSeq(s, 1, 0) = <<>> /\ Chosen(<<>>, K) = <<>> /\ Len(<<>>) = 0
      BY FirstElements, ChosenOfNone
    <2> QED  BY <2>1 DEF Place
  <1>2. ASSUME NEW n \in 0..Len(s) PROVE Place(s, K, n) \in Nat
    <2>1. SubSeq(s, 1, n) \in Seq(S)
      BY FirstElements
    <2>2. Chosen(SubSeq(s, 1, n), K) \in Seq(S)
      BY <2>1, ChosenType
    <2> QED  BY <2>2 DEF Place
  <1>3. ASSUME NEW n \in Nat, n + 1 <= Len(s)
        PROVE  /\ n + 1 \in K => Place(s, K, n + 1) = Place(s, K, n) + 1
               /\ n + 1 \notin K => Place(s, K, n + 1) = Place(s, K, n)
    <2>1. PICK t : t = SubSeq(s, 1, n)
      OBVIOUS
    <2>2. n \in 0..Len(s)
      BY <1>3
    <2>3. t \in Seq(S) /\ Len(t) = n /\ s[n + 1] \in S /\ SubSeq(s, 1, n + 1) = Append(t, s[n + 1])
      BY <1>3, <2>1, <2>2, FirstElements
    <2>4. Chosen(Append(t, s[n + 1]), K) = IF n + 1 \in K THEN Append(Chosen(t, K), s[n + 1])
                                           ELSE Chosen(t, K)
      BY <2>3, ChosenAppend
    <2>5. PICK c : c = Chosen(t, K)
      OBVIOUS
    <2>6. c \in Seq(S) /\ Len(Append(c, s[n + 1])) = Len(c) + 1 /\ Len(c) \in Nat
      BY <2>3, <2>5, ChosenType
    <2>7. Place(s, K, n) = Len(c) /\ Place(s, K, n + 1) = Len(Chosen(Append(t, s[n + 1]), K))
      BY <2>1, <2>3, <2>5 DEF Place
    <2> QED  BY <2>4, <2>5, <2>6, <2>7
  <1> QED  BY <1>1, <1>2, <1>3

\* The chosen elements, and nothing else, stand at their places.
Placed(s, K, n) ==
    LET c == Chosen(SubSeq(s, 1, n), K)
    IN  /\ \A i \in 1..n : i \in K => /\ Place(s, K, i) \in 1..Len(c)
                                      /\ c[Place(s, K, i)] = s[i]
        /\ \A k \in 1..Len(c) : \E i \in 1..n : i \in K /\ Place(s, K, i) = k

LEMMA ChosenPlaces ==
    ASSUME NEW S, NEW s \in Seq(S), NEW K
    PROVE  Placed(s, K, Len(s))
  <1> DEFINE T == {n \in Nat : n <= Len(s) => Placed(s, K, n)}
  <1>1. 0 \in T
    <2>1. Chosen(SubSeq(s, 1, 0), K) = <<>> /\ Len(<<>>) = 0
      BY FirstElements, ChosenOfNone
    <2> QED  BY <2>1 DEF Placed
  <1>2. ASSUME NEW n \in Nat, n \in T PROVE n + 1 \in T
    <2>1. SUFFICES ASSUME n + 1 <= Len(s) PROVE Placed(s, K, n + 1)
      OBVIOUS
    <2>2. PICK c : c = Chosen(SubSeq(s, 1, n), K)
      OBVIOUS
    <2>3. PICK d : d = Chosen(SubSeq(s, 1, n + 1), K)
      OBVIOUS
    <2>4. n \in 0..Len(s) /\ n + 1 \in 0..Len(s)
      BY <2>1
    <2>5. /\ SubSeq(s, 1, n) \in Seq(S) /\ Len(SubSeq(s, 1, n)) = n /\ s[n + 1] \in S
          /\ SubSeq(s, 1, n + 1) = Append(SubSeq(s, 1, n), s[n + 1])
      BY <2>1, <2>4, FirstElements
    <2>6. d = IF n + 1 \in K THEN Append(c, s[n + 1]) ELSE c
      <3>1. PICK t : t = SubSeq(s, 1, n)
        OBVIOUS
      <3>2. Chosen(Append(t, s[n + 1]), K) = IF n + 1 \in K THEN Append(Chosen(t, K), s[n + 1])
                                             ELSE Chosen(t, K)
        <4>1. t \in Seq(S) /\ Len(t) = n /\ s[n + 1] \in S
          BY <2>5, <3>1
        <4> QED  BY <4>1, ChosenAppend
      <3> QED  BY <2>2, <2>3, <2>5, <3>1, <3>2
    <2>7. c \in Seq(S) /\ Len(c) = Place(s, K, n) /\ Len(c) \in Nat
      <3>1. c \in Seq(S)
        BY <2>2, <2>5, ChosenType
      <3> QED  BY <2>2, <3>1 DEF Place
    <2>8. n + 1 \in K => Place(s, K, n + 1) = Len(c) + 1
      <3>1. n + 1 \in K => Place(s, K, n + 1) = Place(s, K, n) + 1
        BY <2>1, PlaceSteps
      <3> QED  BY <2>7, <3>1
    <2>9. /\ \A i \in 1..n : i \in K => Place(s, K, i) \in 1..Len(c) /\ c[Place(s, K, i)] = s[i]
          /\ \A k \in 1..Len(c) : \E i \in 1..n : i \in K /\ Place(s, K, i) = k
      BY <1>2, <2>1, <2>2 DEF Placed
    <2>10. CASE n + 1 \in K
      <3>1. /\ d = Append(c, s[n + 1]) /\ Len(d) = Len(c) + 1 /\ d[Len(c) + 1] = s[n + 1]
            /\ \A k \in 1..Len(c) : d[k] = c[k]
        BY <2>5, <2>6, <2>7, <2>10
      <3>2. Place(s, K, n + 1) = Len(c) + 1
        BY <2>7, <2>8, <2>10
      <3>3. ASSUME NEW i \in 1..n + 1, i \in K
            PROVE  Place(s, K, i) \in 1..Len(d) /\ d[Place(s, K, i)] = s[i]
        <4>1. CASE i = n + 1
          BY <2>7, <3>1, <3>2, <4>1
        <4>2. CASE i # n + 1
          <5>1. i \in 1..n
            BY <4>2
          <5>2. Place(s, K, i) \in 1..Len(c) /\ c[Place(s, K, i)] = s[i]
            BY <2>9, <3>3, <5>1
          <5> QED  BY <2>7, <3>1, <5>2
        <4> QED  BY <4>1, <4>2
      <3>4. ASSUME NEW k \in 1..Len(d) PROVE \E i \in 1..n + 1 : i \in K /\ Place(s, K, i) = k
        <4>1. CASE k = Len(c) + 1
          BY <2>10, <3>2, <4>1
        <4>2. CASE k # Len(c) + 1
          <5>1. k \in 1..Len(c)
            BY <2>7, <3>1, <4>2
          <5>2. PICK i \in 1..n : i \in K /\ Place(s, K, i) = k
            BY <2>9, <5>1
          <5> QED  BY <5>2
        <4> QED  BY <4>1, <4>2
      <3> QED  BY <2>3, <3>3, <3>4 DEF Placed
    <2>11. CASE n + 1 \notin K
      <3>1. d = c
        BY <2>6, <2>11
      <3>2. \A i \in 1..n + 1 : i \in K => i \in 1..n
        BY <2>11
      <3>3. \A i \in 1..n : i \in 1..n + 1
        OBVIOUS
      <3> QED  BY <2>3, <2>9, <3>1, <3>2, <3>3 DEF Placed
    <2> QED  BY <2>10, <2>11
  <1>3. Nat \subseteq T
    <2> HIDE DEF T
    <2> QED  BY <1>1, <1>2, SetInduction
  <1> QED  BY <1>3

\* Neighbours that are all chosen stay neighbours.
InARow(s, K, a, m) == a \in 1..Len(s) /\ m \in Nat /\ a + m <= Len(s) /\ \A i \in a..a + m : i \in K

LEMMA PlacesInARow ==
    ASSUME NEW S, NEW s \in Seq(S), NEW K, NEW a, NEW m, InARow(s, K, a, m)
    PROVE  \A j \in 0..m : Place(s, K, a + j) = Place(s, K, a) + j
  <1>0. a \in 1..Len(s) /\ m \in Nat /\ a + m <= Len(s) /\ \A i \in a..a + m : i \in K
    BY DEF InARow
  <1> USE <1>0
  <1> DEFINE T == {j \in Nat : j <= m => Place(s, K, a + j) = Place(s, K, a) + j}
  <1>1. Place(s, K, a) \in Nat
    <2>1. a \in 0..Len(s)
      OBVIOUS
    <2> QED  BY <2>1, PlaceSteps
  <1>2. 0 \in T
    BY <1>1
  <1>3. ASSUME NEW j \in Nat, j \in T PROVE j + 1 \in T
    <2>1. SUFFICES ASSUME j + 1 <= m PROVE Place(s, K, a + (j + 1)) = Place(s, K, a) + (j + 1)
      OBVIOUS
    <2>2. PICK n \in Nat : n = a + j
      OBVIOUS
    <2>3. n + 1 <= Len(s) /\ n + 1 \in K /\ a + (j + 1) = n + 1
      BY <2>1, <2>2
    <2>4. Place(s, K, n + 1) = Place(s, K, n) + 1
      BY <2>3, PlaceSteps
    <2>5. Place(s, K, n) = Place(s, K, a) + j
      BY <1>3, <2>1, <2>2
    <2> QED  BY <1>1, <2>3, <2>4, <2>5
  <1>4. Nat \subseteq T
    <2> HIDE DEF T
    <2> QED  BY <1>2, <1>3, SetInduction
  <1> QED  BY <1>4

-----------------------------------------------------------------------------
(***************************************************************************)
(* Provider streams: CompleteOrFailed.  Until the attempt ends the         *)
(* response holds the tokens of the events read, an event after the finish *)
(* reason is no delta, and [DONE] comes after the finish reason: a reply   *)
(* whose finish reason was read has lost nothing when it is cut.           *)
(***************************************************************************)

\* A delta more of the kind is a token more.
LEMMA TokensGrow ==
    ASSUME NEW kind, NEW E, NEW events \in Seq(E), NEW e \in E
    PROVE  TokensOf(kind, Append(events, e)) =
              IF e = kind THEN Append(TokensOf(kind, events), Token(Len(events) + 1))
              ELSE TokensOf(kind, events)
<1>1. PICK N \in Nat : N = Len(events)
  OBVIOUS
<1>2. PICK more : more = Append(events, e)
  OBVIOUS
<1>3. /\ Len(more) = N + 1 /\ more[N + 1] = e /\ \A n \in 1..N : more[n] = events[n]
  BY <1>1, <1>2
<1> DEFINE S == {Token(n) : n \in Nat}
<1>4. PICK s, t : s = [n \in 1..N |-> Token(n)] /\ t = [n \in 1..N + 1 |-> Token(n)]
  OBVIOUS
<1>5. PICK K, L : K = {n \in 1..N : events[n] = kind} /\ L = {n \in 1..N + 1 : more[n] = kind}
  OBVIOUS
<1>6. TokensOf(kind, events) = Chosen(s, K) /\ TokensOf(kind, more) = Chosen(t, L)
  BY <1>1, <1>3, <1>4, <1>5 DEF TokensOf
<1>7. s \in Seq(S) /\ t \in Seq(S) /\ Len(s) = N /\ Len(t) = N + 1 /\ Token(N + 1) \in S
  <2>1. \A n \in Nat : Token(n) \in S
    OBVIOUS
  <2> HIDE DEF S
  <2>2. s \in [1..N -> S] /\ t \in [1..N + 1 -> S]
    BY <1>4, <2>1
  <2> QED  BY <1>4, <2>1, <2>2
<1>8. t = Append(s, Token(N + 1))
  <2> HIDE DEF S
  <2>1. PICK u : u = Append(s, Token(N + 1))
    OBVIOUS
  <2>2. /\ u \in Seq(S) /\ Len(u) = N + 1 /\ u[N + 1] = Token(N + 1)
        /\ \A n \in 1..N : u[n] = s[n]
    BY <1>7, <2>1
  <2>3. \A n \in 1..N + 1 : u[n] = t[n]
    <3> TAKE n \in 1..N + 1
    <3>1. CASE n = N + 1
      BY <1>4, <2>2, <3>1
    <3>2. CASE n # N + 1
      BY <1>4, <2>2, <3>2
    <3> QED  BY <3>1, <3>2
  <2> QED  BY <1>7, <2>1, <2>2, <2>3, SeqEqual
<1>9. Chosen(s, L) = Chosen(s, K)
  <2>1. \A n \in 1..Len(s) : n \in L <=> n \in K
    BY <1>3, <1>5, <1>7
  <2> HIDE DEF S
  <2> QED  BY <1>7, <2>1, ChosenSame
<1>10. Chosen(t, L) = IF N + 1 \in L THEN Append(Chosen(s, L), Token(N + 1)) ELSE Chosen(s, L)
  <2> HIDE DEF S
  <2>1. PICK x \in S : x = Token(N + 1)
    BY <1>7
  <2>2. Chosen(Append(s, x), L) = IF N + 1 \in L THEN Append(Chosen(s, L), x) ELSE Chosen(s, L)
    BY <1>7, ChosenAppend
  <2> QED  BY <1>8, <2>1, <2>2
<1>11. N + 1 \in L <=> e = kind
  BY <1>3, <1>5
<1> QED  BY <1>1, <1>2, <1>6, <1>9, <1>10, <1>11

\* A reply without events has no tokens.
LEMMA NoTokens == ASSUME NEW kind PROVE TokensOf(kind, <<>>) = <<>>
<1>1. PICK K : K = {n \in 1..Len(<<>>) : <<>>[n] = kind}
  OBVIOUS
<1>2. [n \in 1..Len(<<>>) |-> Token(n)] = <<>>
  OBVIOUS
<1> QED  BY <1>1, <1>2, ChosenOfNone DEF TokensOf

PsEvents == Deltas \cup {"finish", "usage", "done", "junk", "error"}

\* What the client has of the events it has read.
ReadSoFar(acc, n) ==
    /\ acc.text = TokensOf("text", SubSeq(psServed, 1, n))
    /\ acc.tool = TokensOf("tool", SubSeq(psServed, 1, n))
    /\ acc.finish = (\E i \in 1..n : psServed[i] = "finish")

\* A response that has all of it.
Whole(acc) ==
    /\ acc.finish
    /\ acc.text = TokensOf("text", psServed)
    /\ acc.tool = TokensOf("tool", psServed)

PsOrder ==
    /\ \A i, j \in 1..Len(psServed) : i < j /\ psServed[i] = "finish" => psServed[j] \notin Deltas
    /\ \A j \in 1..Len(psServed) : psServed[j] = "done" => \E i \in 1..j - 1 : psServed[i] = "finish"

ReplyInv ==
    /\ psServed \in Seq(PsEvents) /\ psRead \in 0..Len(psServed)
    /\ psAcc = [text |-> psAcc.text, tool |-> psAcc.tool, finish |-> psAcc.finish]
    /\ psLine # "none" => psRead < Len(psServed)
    /\ psPhase \in {"sending", "body"} => psLine = "none" /\ psRead = 0
    /\ psPhase = "sending" => psServed = <<>>
    /\ psPhase = "stream" => Len(psServed) <= psRead + 1
    /\ psPhase \in {"sending", "stream", "body"} => ReadSoFar(psAcc, psRead)
    /\ PsOrder
    /\ psPhase \in {"ended", "done"} /\ psResult = Ok => Whole(psAcc)

\* What remains unread of a reply that had its finish reason adds nothing.
LEMMA NothingMissing ==
    ASSUME ReplyInv, psPhase = "stream", psAcc.finish
    PROVE  Whole(psAcc)
<1>1. /\ psServed \in Seq(PsEvents) /\ psRead \in 0..Len(psServed) /\ Len(psServed) <= psRead + 1
      /\ ReadSoFar(psAcc, psRead) /\ PsOrder
  BY DEF ReplyInv
<1>2. CASE Len(psServed) = psRead
  <2>1. SubSeq(psServed, 1, psRead) = psServed
    BY <1>1, <1>2, FirstElements
  <2> QED  BY <1>1, <2>1 DEF ReadSoFar, Whole
<1>3. CASE Len(psServed) # psRead
  <2>1. Len(psServed) = psRead + 1 /\ psRead \in Nat
    BY <1>1, <1>3
  <2>2. PICK t : t = SubSeq(psServed, 1, psRead)
    OBVIOUS
  <2>3. /\ psServed = Append(t, psServed[psRead + 1]) /\ psServed[psRead + 1] \in PsEvents
        /\ t \in Seq(PsEvents)
    <3>1. /\ SubSeq(psServed, 1, Len(psServed)) = psServed
          /\ SubSeq(psServed, 1, psRead + 1) = Append(SubSeq(psServed, 1, psRead), psServed[psRead + 1])
          /\ psServed[psRead + 1] \in PsEvents /\ SubSeq(psServed, 1, psRead) \in Seq(PsEvents)
      BY <1>1, <2>1, FirstElements
    <3> QED  BY <2>1, <2>2, <3>1
  <2>4. psServed[psRead + 1] \notin Deltas
    <3>1. PICK i \in 1..psRead : psServed[i] = "finish"
      BY <1>1 DEF ReadSoFar
    <3>2. i \in 1..Len(psServed) /\ psRead + 1 \in 1..Len(psServed) /\ i < psRead + 1
      BY <2>1
    <3> QED  BY <1>1, <3>1, <3>2 DEF PsOrder
  <2>5. psServed[psRead + 1] # "text" /\ psServed[psRead + 1] # "tool"
    BY <2>4 DEF Deltas
  <2>6. TokensOf("text", psServed) = TokensOf("text", t) /\ TokensOf("tool", psServed) = TokensOf("tool", t)
    <3>1. PICK e \in PsEvents : e = psServed[psRead + 1]
      BY <2>3
    <3>2. \A kind : e # kind => TokensOf(kind, Append(t, e)) = TokensOf(kind, t)
      BY <2>3, TokensGrow
    <3> QED  BY <2>3, <2>5, <3>1, <3>2
  <2> QED  BY <1>1, <2>2, <2>6 DEF ReadSoFar, Whole
<1> QED  BY <1>2, <1>3

\* What the client has after the next event.
LEMMA ReadOne ==
    ASSUME ReplyInv, psPhase = "stream", psRead < Len(psServed), NEW acc,
           acc = IF psServed[psRead + 1] \in {"done", "junk", "error"} THEN psAcc
                 ELSE apply_value(psAcc, psServed[psRead + 1], Token(psRead + 1))
    PROVE  /\ ReadSoFar(acc, psRead + 1)
           /\ acc = [text |-> acc.text, tool |-> acc.tool, finish |-> acc.finish]
<1>1. /\ psServed \in Seq(PsEvents) /\ psRead \in Nat /\ psRead + 1 <= Len(psServed)
      /\ ReadSoFar(psAcc, psRead)
  BY DEF ReplyInv
<1>2. PICK e \in PsEvents : e = psServed[psRead + 1]
  BY <1>1
<1>3. PICK t : t = SubSeq(psServed, 1, psRead)
  OBVIOUS
<1>4. t \in Seq(PsEvents) /\ Len(t) = psRead /\ SubSeq(psServed, 1, psRead + 1) = Append(t, e)
  <2>1. psRead \in 0..Len(psServed)
    BY <1>1
  <2> QED  BY <1>1, <1>2, <1>3, <2>1, FirstElements
<1>5. \A kind : TokensOf(kind, Append(t, e)) = IF e = kind THEN Append(TokensOf(kind, t), Token(psRead + 1))
                                               ELSE TokensOf(kind, t)
  BY <1>4, TokensGrow
<1>6. (\E i \in 1..psRead + 1 : psServed[i] = "finish")
         <=> (\E i \in 1..psRead : psServed[i] = "finish") \/ e = "finish"
  BY <1>1, <1>2
<1>7. PICK x, y, z : psAcc = [text |-> x, tool |-> y, finish |-> z]
  BY DEF ReplyInv
<1>8. x = TokensOf("text", t) /\ y = TokensOf("tool", t)
      /\ z = (\E i \in 1..psRead : psServed[i] = "finish")
  BY <1>1, <1>3, <1>7 DEF ReadSoFar
<1>9. PICK token : token = Token(psRead + 1)
  OBVIOUS
<1>10. acc = [text   |-> IF e = "text" THEN Append(x, token) ELSE x,
              tool   |-> IF e = "tool" THEN Append(y, token) ELSE y,
              finish |-> IF e = "finish" THEN TRUE ELSE z]
  <2>1. CASE e = "text"
    BY <1>2, <1>7, <1>9, <2>1 DEF apply_value
  <2>2. CASE e = "tool"
    BY <1>2, <1>7, <1>9, <2>2 DEF apply_value
  <2>3. CASE e = "finish"
    BY <1>2, <1>7, <1>9, <2>3 DEF apply_value
  <2>4. CASE e \notin {"text", "tool", "finish"}
    BY <1>2, <1>7, <2>4 DEF apply_value
  <2> QED  BY <2>1, <2>2, <2>3, <2>4
<1>11. /\ acc.text = TokensOf("text", Append(t, e)) /\ acc.tool = TokensOf("tool", Append(t, e))
  BY <1>5, <1>8, <1>9, <1>10
<1>12. acc.finish = (\E i \in 1..psRead + 1 : psServed[i] = "finish")
  <2>1. CASE e = "finish"
    <3>1. acc.finish = TRUE
      BY <1>10, <2>1
    <3> QED  BY <1>6, <2>1, <3>1
  <2>2. CASE e # "finish"
    <3>1. acc.finish = z
      BY <1>10, <2>2
    <3> QED  BY <1>6, <1>8, <2>2, <3>1
  <2> QED  BY <2>1, <2>2
<1> QED  BY <1>4, <1>10, <1>11, <1>12 DEF ReadSoFar

\* Over a step of the same attempt that brings no new event.
LEMMA SameReply ==
    ASSUME UNCHANGED <<psServed, psRetries, psShrunk>>
    PROVE  /\ \A n : n = psRead' => (ReadSoFar(psAcc, psRead)' <=> ReadSoFar(psAcc', n))
           /\ Whole(psAcc)' <=> Whole(psAcc')
           /\ PsOrder' <=> PsOrder
<1>1. \A kind : /\ TokensOf(kind, SubSeq(psServed, 1, psRead))' = TokensOf(kind, SubSeq(psServed, 1, psRead'))
                /\ TokensOf(kind, psServed)' = TokensOf(kind, psServed)
  BY DEF TokensOf, Token
<1>2. Whole(psAcc)' <=> Whole(psAcc')
  BY <1>1 DEF Whole
<1>3. PsOrder' <=> PsOrder
  BY DEF PsOrder
<1>4. ReadSoFar(psAcc, psRead)' <=> ReadSoFar(psAcc', psRead')
  BY <1>1 DEF ReadSoFar
<1> QED  BY <1>2, <1>3, <1>4

\* Steps that neither read nor serve, and steps that end the attempt with an error.
LEMMA QuietReply ==
    ASSUME ReplyInv, UNCHANGED <<psServed, psRead, psLine, psAcc, psRetries, psShrunk>>,
           \/ UNCHANGED <<psPhase, psResult>>
           \/ psPhase = "sending" /\ psPhase' \in {"stream", "body"}
           \/ psPhase' = "ended" /\ psResult' # Ok
           \/ psPhase = "ended" /\ psPhase' = "done" /\ (psResult' = Ok => psResult = Ok)
    PROVE  ReplyInv'
<1>1. /\ ReadSoFar(psAcc, psRead)' <=> ReadSoFar(psAcc, psRead)
      /\ Whole(psAcc)' <=> Whole(psAcc)
      /\ PsOrder' <=> PsOrder
  BY SameReply
<1>2. psPhase = "sending" => Len(psServed) = 0
  BY DEF ReplyInv
<1> QED  BY <1>1, <1>2 DEF ReplyInv

\* Lines that do not end an event.
LEMMA HalfAndDataLines ==
    ASSUME ReplyInv, ReadHalfLine \/ ReadDataLine
    PROVE  ReplyInv'
<1>1. /\ UNCHANGED <<psServed, psRead, psAcc, psRetries, psShrunk, psPhase, psResult>>
      /\ psPhase = "stream" /\ psRead < Len(psServed)
  BY DEF ReadHalfLine, ReadDataLine, wireVars, loopVars
<1>2. /\ ReadSoFar(psAcc, psRead)' <=> ReadSoFar(psAcc, psRead)
      /\ Whole(psAcc)' <=> Whole(psAcc)
      /\ PsOrder' <=> PsOrder
  BY <1>1, SameReply
<1> QED  BY <1>1, <1>2 DEF ReplyInv

\* The server sends deltas, then the finish reason, then [DONE].
LEMMA ServeKeeps == ASSUME ReplyInv, Serve PROVE ReplyInv'
<1>1. PICK event \in PsEvents : Follows(event) /\ psServed' = Append(psServed, event)
  BY DEF Serve, PsEvents
<1>2. /\ psPhase \in {"stream", "body"} /\ (psPhase = "stream" => psRead = Len(psServed))
      /\ UNCHANGED <<psPhase, psRead, psLine, psAcc, psResult, psRetries, psShrunk>>
  BY DEF Serve, loopVars
<1>3. PICK N \in Nat : N = Len(psServed)
  BY DEF ReplyInv
<1>4. /\ psServed \in Seq(PsEvents) /\ psServed' \in Seq(PsEvents) /\ Len(psServed') = N + 1
      /\ psServed'[N + 1] = event /\ \A i \in 1..N : psServed'[i] = psServed[i]
      /\ psRead \in 0..N
  BY <1>1, <1>3 DEF ReplyInv
<1>5. SubSeq(psServed', 1, psRead) = SubSeq(psServed, 1, psRead)
  <2>1. PICK u, v : u = SubSeq(psServed', 1, psRead) /\ v = SubSeq(psServed, 1, psRead)
    OBVIOUS
  <2>2. u \in Seq(PsEvents) /\ v \in Seq(PsEvents) /\ Len(u) = psRead /\ Len(v) = psRead
    BY <1>3, <1>4, <2>1
  <2>3. \A i \in 1..psRead : u[i] = v[i]
    BY <1>3, <1>4, <2>1
  <2> QED  BY <2>1, <2>2, <2>3, SeqEqual
<1>6. \A kind : TokensOf(kind, SubSeq(psServed, 1, psRead))' = TokensOf(kind, SubSeq(psServed, 1, psRead))
  BY <1>2, <1>5 DEF TokensOf, Token
<1>7. ReadSoFar(psAcc, psRead)'
  <2>1. ReadSoFar(psAcc, psRead)
    BY <1>2 DEF ReplyInv
  <2>2. \A i \in 1..psRead : psServed'[i] = psServed[i]
    BY <1>4
  <2> QED  BY <1>2, <1>6, <2>1, <2>2 DEF ReadSoFar
<1>8. /\ event \in Deltas => \A i \in 1..N : psServed[i] # "finish"
      /\ event = "done" => \E i \in 1..N : psServed[i] = "finish"
  BY <1>1, <1>3 DEF Follows, Has
<1>9. PsOrder'
  <2>0. PsOrder
    BY DEF ReplyInv
  <2>1. ASSUME NEW i \in 1..N + 1, NEW j \in 1..N + 1, i < j, psServed'[i] = "finish"
        PROVE  psServed'[j] \notin Deltas
    <3>1. i \in 1..N
      BY <2>1
    <3>2. CASE j = N + 1
      BY <1>4, <1>8, <2>1, <3>1, <3>2
    <3>3. CASE j # N + 1
      <4>1. j \in 1..N
        BY <3>3
      <4> QED  BY <1>3, <1>4, <2>0, <2>1, <3>1, <4>1 DEF PsOrder
    <3> QED  BY <3>2, <3>3
  <2>2. ASSUME NEW j \in 1..N + 1, psServed'[j] = "done"
        PROVE  \E i \in 1..j - 1 : psServed'[i] = "finish"
    <3>1. CASE j = N + 1
      <4>1. PICK i \in 1..N : psServed[i] = "finish"
        BY <1>4, <1>8, <2>2, <3>1
      <4> QED  BY <1>4, <3>1, <4>1
    <3>2. CASE j # N + 1
      <4>1. j \in 1..N
        BY <3>2
      <4>2. PICK i \in 1..j - 1 : psServed[i] = "finish"
        BY <1>3, <1>4, <2>0, <2>2, <4>1 DEF PsOrder
      <4> QED  BY <1>4, <4>1, <4>2
    <3> QED  BY <3>1, <3>2
  <2> QED  BY <1>4, <2>1, <2>2 DEF PsOrder
<1>10. /\ psRead \in 0..N + 1 /\ (psLine # "none" => psRead < N + 1)
       /\ psPhase = "stream" => N + 1 <= psRead + 1
  BY <1>2, <1>3, <1>4 DEF ReplyInv
<1> QED  BY <1>2, <1>4, <1>7, <1>9, <1>10 DEF ReplyInv

\* process_sse_event: an event is read.
LEMMA BlankLineKeeps == ASSUME ReplyInv, ReadBlankLine PROVE ReplyInv'
<1>1. PICK sinkFails \in BOOLEAN : process_sse_event(psServed[psRead + 1], sinkFails)
  BY DEF ReadBlankLine
<1>2. PICK event : event = psServed[psRead + 1]
  OBVIOUS
<1>3. /\ psPhase = "stream" /\ psLine' = "none" /\ psRead' = psRead + 1
      /\ psRead < Len(psServed) /\ Len(psServed) <= psRead + 1
      /\ psRead \in Nat /\ Len(psServed) \in Nat
      /\ UNCHANGED <<psServed, psRetries, psShrunk>>
  BY DEF ReadBlankLine, wireVars, loopVars, ReplyInv
<1>4. psAcc' = IF event \in {"done", "junk", "error"} THEN psAcc
               ELSE apply_value(psAcc, event, Token(psRead + 1))
  BY <1>1, <1>2 DEF process_sse_event
<1>5. /\ ReadSoFar(psAcc', psRead + 1)
      /\ psAcc' = [text |-> psAcc'.text, tool |-> psAcc'.tool, finish |-> psAcc'.finish]
  BY <1>2, <1>3, <1>4, ReadOne
<1>6. /\ ReadSoFar(psAcc, psRead)' /\ PsOrder' /\ (Whole(psAcc)' <=> Whole(psAcc'))
  BY <1>3, <1>5, SameReply DEF ReplyInv
<1>7. psPhase' \in {"stream", "ended"} /\ (psPhase' = "ended" /\ psResult' = Ok => event = "done")
  BY <1>1, <1>2, <1>3 DEF process_sse_event, ReplyEnds, Ok
<1>8. event = "done" => Whole(psAcc')
  <2>1. SUFFICES ASSUME event = "done" PROVE Whole(psAcc')
    OBVIOUS
  <2>2. psRead + 1 \in 1..Len(psServed)
    BY <1>3
  <2>3. PICK i \in 1..psRead : psServed[i] = "finish"
    <3>1. PsOrder /\ psServed[psRead + 1] = "done" /\ (psRead + 1) - 1 = psRead
      BY <1>2, <1>3, <2>1 DEF ReplyInv
    <3> QED  BY <2>2, <3>1 DEF PsOrder
  <2>4. psAcc.finish /\ psAcc' = psAcc
    BY <1>3, <1>4, <2>1, <2>3 DEF ReplyInv, ReadSoFar
  <2> QED  BY <1>3, <2>4, NothingMissing
<1>9. /\ psServed' \in Seq(PsEvents) /\ psRead' \in 0..Len(psServed') /\ Len(psServed') <= psRead' + 1
  BY <1>3 DEF ReplyInv
<1> QED  BY <1>3, <1>5, <1>6, <1>7, <1>8, <1>9 DEF ReplyInv

\* stream_end: the connection closes, in the middle of an event or not.
LEMMA StreamEndKeeps == ASSUME ReplyInv, StreamEnds PROVE ReplyInv'
<1>1. /\ psPhase = "stream" /\ psPhase' = "ended" /\ psRead \in Nat /\ Len(psServed) \in Nat
      /\ Len(psServed) <= psRead + 1
      /\ UNCHANGED <<psServed, psRead, psLine, psRetries, psShrunk>>
  BY DEF StreamEnds, wireVars, loopVars, ReplyInv, ReplyEnds
<1>2. PICK cut \in {"nothing", "piece", "whole"} :
         /\ psLine = "none" => cut = "nothing"
         /\ LET event == IF cut = "whole" THEN psServed[psRead + 1] ELSE "junk"
            IN  \/ /\ cut = "nothing" /\ psResult' = stream_end(psAcc) /\ UNCHANGED psAcc
                \/ /\ cut # "nothing" /\ event \in {"done", "junk", "error"}
                   /\ psResult' = (CASE event = "done"          -> Ok
                                     [] event = "junk" /\ ~strict -> stream_end(psAcc)
                                     [] OTHER                   -> "provider_response")
                   /\ UNCHANGED psAcc
                \/ /\ cut # "nothing" /\ event \notin {"done", "junk", "error"}
                   /\ psAcc' = apply_value(psAcc, event, Token(psRead + 1))
                   /\ psResult' = stream_end(psAcc')
  BY DEF StreamEnds, ReplyEnds
<1>3. PICK event : event = IF cut = "whole" THEN psServed[psRead + 1] ELSE "junk"
  OBVIOUS
<1>4. /\ PsOrder' /\ (Whole(psAcc)' <=> Whole(psAcc'))
  BY <1>1, SameReply DEF ReplyInv
<1>5. \A acc : stream_end(acc) = Ok => acc.finish
  BY DEF stream_end, Ok
<1>6. cut # "nothing" => psRead < Len(psServed)
  BY <1>2 DEF ReplyInv
<1>7. CASE UNCHANGED psAcc
  <2>1. psResult' = Ok => psAcc.finish
    <3>1. CASE psResult' = stream_end(psAcc)
      BY <1>5, <3>1
    <3>2. CASE psResult' # stream_end(psAcc) /\ psResult' = Ok
      <4>1. cut # "nothing" /\ event \in {"done", "junk", "error"}
            /\ psResult' = (CASE event = "done"          -> Ok
                              [] event = "junk" /\ ~strict -> stream_end(psAcc)
                              [] OTHER                   -> "provider_response")
        <5>1. event \notin {"done", "junk", "error"} /\ cut # "nothing" => psResult' = stream_end(psAcc)
          BY <1>2, <1>3, <1>7
        <5> QED  BY <1>2, <1>3, <3>2, <5>1
      <4>2. event = "done"
        BY <3>2, <4>1 DEF Ok
      <4>3. psServed[psRead + 1] = "done" /\ psRead + 1 \in 1..Len(psServed)
        BY <1>1, <1>3, <1>6, <4>1, <4>2
      <4>4. \E i \in 1..psRead : psServed[i] = "finish"
        BY <1>1, <4>3 DEF ReplyInv, PsOrder
      <4> QED  BY <1>1, <4>4 DEF ReplyInv, ReadSoFar
    <3> QED  BY <3>1, <3>2
  <2>2. psResult' = Ok => Whole(psAcc)'
    BY <1>1, <1>4, <1>7, <2>1, NothingMissing
  <2> QED  BY <1>1, <1>4, <1>7, <2>2 DEF ReplyInv
<1>8. CASE ~UNCHANGED psAcc
  <2>1. /\ cut # "nothing" /\ event \notin {"done", "junk", "error"} /\ cut = "whole"
        /\ psAcc' = apply_value(psAcc, event, Token(psRead + 1))
        /\ psResult' = stream_end(psAcc')
    BY <1>2, <1>3, <1>8
  <2>2. psRead < Len(psServed) /\ event = psServed[psRead + 1] /\ Len(psServed) = psRead + 1
    BY <1>1, <1>3, <1>6, <2>1
  <2>3. /\ ReadSoFar(psAcc', psRead + 1)
        /\ psAcc' = [text |-> psAcc'.text, tool |-> psAcc'.tool, finish |-> psAcc'.finish]
    BY <1>1, <2>1, <2>2, ReadOne
  <2>4. SubSeq(psServed, 1, psRead + 1) = psServed
    BY <2>2, FirstElements DEF ReplyInv
  <2>5. psResult' = Ok => Whole(psAcc')
    BY <1>5, <2>1, <2>3, <2>4 DEF ReadSoFar, Whole
  <2> QED  BY <1>1, <1>4, <2>3, <2>5 DEF ReplyInv
<1> QED  BY <1>7, <1>8

\* read_json_response: the whole reply at once.
LEMMA BodyKeeps == ASSUME ReplyInv, ReadBody PROVE ReplyInv'
<1>1. /\ psPhase = "body" /\ psPhase' = "ended" /\ psRead' = Len(psServed) /\ psLine = "none"
      /\ Len(psServed) \in Nat
      /\ UNCHANGED <<psServed, psLine, psRetries, psShrunk>>
  BY DEF ReadBody, wireVars, loopVars, ReplyInv, ReplyEnds
<1>2. PsOrder' /\ (Whole(psAcc)' <=> Whole(psAcc'))
  BY <1>1, SameReply DEF ReplyInv
<1>3. CASE psResult' = "provider_response" /\ UNCHANGED psAcc
  BY <1>1, <1>2, <1>3 DEF ReplyInv, Ok
<1>4. CASE psAcc' = [text |-> TokensOf("text", psServed), tool |-> TokensOf("tool", psServed),
                     finish |-> TRUE]
  <2>1. Whole(psAcc')
    BY <1>4 DEF Whole
  <2>2. psAcc' = [text |-> psAcc'.text, tool |-> psAcc'.tool, finish |-> psAcc'.finish]
    BY <1>4
  <2> QED  BY <1>1, <1>2, <2>1, <2>2 DEF ReplyInv
<1> QED  BY <1>3, <1>4 DEF ReadBody, ReplyEnds

Fresh ==
    psPhase = "sending" /\ psServed = <<>> /\ psRead = 0 /\ psLine = "none" /\ psAcc = EmptyAcc

\* A new attempt has read nothing.
LEMMA AttemptStarts == Fresh => ReplyInv
<1> SUFFICES ASSUME Fresh PROVE ReplyInv
  OBVIOUS
<1> USE DEF Fresh
<1>1. SubSeq(psServed, 1, psRead) = <<>> /\ psServed \in Seq(PsEvents) /\ Len(psServed) = 0
  OBVIOUS
<1>2. psAcc = [text |-> <<>>, tool |-> <<>>, finish |-> FALSE]
  BY DEF EmptyAcc
<1>3. ReadSoFar(psAcc, psRead)
  <2>1. ~ \E i \in 1..psRead : psServed[i] = "finish"
    OBVIOUS
  <2>2. psAcc.text = <<>> /\ psAcc.tool = <<>> /\ psAcc.finish = FALSE
    BY <1>2
  <2> QED  BY <1>1, <2>1, <2>2, NoTokens DEF ReadSoFar
<1>4. PsOrder
  BY <1>1 DEF PsOrder
<1> QED  BY <1>1, <1>2, <1>3, <1>4 DEF ReplyInv

\* The response holds what was read of the reply, event by event, and a reply
\* is complete exactly when nothing but usage can be missing (process_sse_event,
\* stream_end, read_json_response).
THEOREM ReplyInvariant == PsSpec => []ReplyInv
<1>1. PsInit => ReplyInv
  BY AttemptStarts DEF PsInit, Fresh
<1>2. ReplyInv /\ [PsNext]_psVars => ReplyInv'
  <2> SUFFICES ASSUME ReplyInv, [PsNext]_psVars PROVE ReplyInv'
    OBVIOUS
  <2>1. CASE UNCHANGED psVars
    BY <2>1, QuietReply DEF psVars
  <2>2. CASE RequestCancel \/ Headers
    BY <2>2, QuietReply DEF RequestCancel, Headers, wireVars, loopVars
  <2>3. CASE CancelBeforeResponse \/ RefuseImages \/ SendFails \/ StatusError \/ TooLarge
             \/ ReadFails \/ CancelWhileReading \/ GenerateGivesUp
    <3>1. /\ UNCHANGED <<psServed, psRead, psLine, psAcc, psRetries, psShrunk>>
          /\ psPhase' = "ended" /\ psResult' # Ok
      BY <2>3 DEF CancelBeforeResponse, RefuseImages, SendFails, StatusError, TooLarge, ReadFails,
            CancelWhileReading, GenerateGivesUp, ReplyEnds, wireVars, loopVars, Ok, Cancelled,
            from_reqwest, from_status_with_headers
    <3> QED  BY <3>1, QuietReply
  <2>4. CASE Serve \/ ReadHalfLine \/ ReadDataLine \/ ReadBlankLine \/ StreamEnds \/ ReadBody
    BY <2>4, ServeKeeps, HalfAndDataLines, BlankLineKeeps, StreamEndKeeps, BodyKeeps
  <2>5. CASE RetryShrunk \/ RetryNetwork \/ RepairCall
    <3>1. Fresh'
      BY <2>5 DEF RetryShrunk, RetryNetwork, RepairCall, Again, EmptyAcc, Fresh
    <3> QED  BY <3>1, AttemptStarts, PTL
  <2>6. CASE Finish
    BY <2>6, QuietReply DEF Finish
  <2>7. CASE RepairReturns
    <3>1. psResult' = Ok => psResult = Ok
      BY <2>7 DEF RepairReturns, Ok, Cancelled
    <3> QED  BY <2>7, <3>1, QuietReply DEF RepairReturns
  <2> QED  BY <2>1, <2>2, <2>3, <2>4, <2>5, <2>6, <2>7 DEF PsNext
<1> QED  BY <1>1, <1>2, PTL DEF PsSpec

\* A reply taken for complete has every text and tool-argument delta that the
\* server sent, for any number of deltas, retries and broken lines, and wherever
\* the connection closes.
THEOREM CompleteRepliesAreWhole == PsSpec => []CompleteOrFailed
<1>1. ReplyInv => CompleteOrFailed
  BY DEF ReplyInv, Whole, CompleteOrFailed
<1> QED  BY <1>1, ReplyInvariant, PTL

-----------------------------------------------------------------------------
(***************************************************************************)
(* Provider streams: ShownIsKept. What the sink has recorded is a prefix   *)
(* of what generate has kept of the attempt, all of it while no sink       *)
(* failed, and an attempt that has emitted anything is never repeated, so  *)
(* that nothing shown belongs to an attempt that was thrown away.          *)
(***************************************************************************)

\* A sequence, of whatever elements.
ASeq(s) == \E S : s \in Seq(S)

\* t goes on where s ends.
Starts(s, t) == Len(s) <= Len(t) /\ \A i \in 1..Len(s) : s[i] = t[i]

\* What the sink has recorded is what generate has kept of the attempt, and the
\* response has the same text: an attempt that has emitted is not repeated.
PsInv ==
    /\ psAcc = [text |-> psAcc.text, tool |-> psAcc.tool, finish |-> psAcc.finish]
    /\ psPartial = psAcc.text /\ ASeq(psPartial) /\ ASeq(psShown)
    /\ psEmitted \in BOOLEAN /\ psSinkError \in BOOLEAN
    /\ psPhase # "done" /\ ~psEmitted /\ ~(psPhase = "ended" /\ psResult = Ok) => psPartial = <<>>
    /\ psPhase \in {"sending", "body"} => psPartial = <<>>
    /\ psPhase # "done" =>
         /\ psAnswer = <<>>
         /\ Starts(psShown, psPartial)
         /\ ~psSinkError => psShown = psPartial
    /\ ShownIsKept

LEMMA Concatenations ==
    /\ ASeq(<<>>)
    /\ \A s : ASeq(s) => Starts(<<>>, s) /\ Starts(s, s) /\ <<>> \o s = s /\ s \o <<>> = s
    /\ \A s, e : ASeq(s) => ASeq(Append(s, e))
    /\ \A r, s, e : ASeq(r) /\ ASeq(s) /\ Starts(r, s) => Starts(r, Append(s, e))
<1>1. <<>> \in Seq({})
  OBVIOUS
<1>2. ASSUME NEW s, NEW e, ASeq(s)
      PROVE  /\ ASeq(Append(s, e)) /\ Starts(<<>>, s) /\ Starts(s, s)
             /\ <<>> \o s = s /\ s \o <<>> = s
  <2>1. PICK S : s \in Seq(S)
    BY <1>2 DEF ASeq
  <2>2. Append(s, e) \in Seq(S \cup {e})
    BY <2>1
  <2>3. Starts(<<>>, s) /\ Starts(s, s)
    BY <2>1 DEF Starts
  <2>4. <<>> \o s = s /\ s \o <<>> = s
    BY <2>1
  <2> QED  BY <2>2, <2>3, <2>4 DEF ASeq
<1>3. ASSUME NEW r, NEW s, NEW e, ASeq(r), ASeq(s), Starts(r, s)
      PROVE  Starts(r, Append(s, e))
  <2>1. PICK S, R : s \in Seq(S) /\ r \in Seq(R)
    BY <1>3 DEF ASeq
  <2>2. s \in Seq(S \cup {e})
    BY <2>1
  <2> QED  BY <1>3, <2>1, <2>2 DEF Starts
<1> QED  BY <1>1, <1>2, <1>3 DEF ASeq

LEMMA StartsIsPrefix ==
    ASSUME NEW s, NEW t, ASeq(s), ASeq(t), Starts(s, t)
    PROVE  IsPrefix(s, t)
<1>1. PICK S, T : s \in Seq(S) /\ t \in Seq(T)
  BY DEF ASeq
<1>2. Len(SubSeq(s, 1, Len(s))) = Len(s) /\ Len(SubSeq(t, 1, Len(s))) = Len(s)
  BY <1>1 DEF Starts
<1>3. \A i \in 1..Len(s) : SubSeq(s, 1, Len(s))[i] = SubSeq(t, 1, Len(s))[i]
  BY <1>1 DEF Starts
<1>4. SubSeq(s, 1, Len(s)) = SubSeq(t, 1, Len(s))
  BY <1>1, <1>2, <1>3 DEF Starts
<1> QED  BY <1>1, <1>4 DEF Starts, IsPrefix

LEMMA PrefixOfItself ==
    ASSUME NEW s, ASeq(s)
    PROVE  IsPrefix(s, s) /\ SubSeq(s, Len(s) + 1, Len(s)) = <<>>
<1>1. PICK S : s \in Seq(S)
  BY DEF ASeq
<1> QED  BY <1>1 DEF IsPrefix

\* The tokens of a kind are a sequence.
LEMMA TokensAreASeq ==
    ASSUME NEW kind, NEW E, NEW events \in Seq(E)
    PROVE  ASeq(TokensOf(kind, events))
<1> DEFINE S == {Token(n) : n \in Nat}
<1>1. PICK s, K : /\ s = [n \in 1..Len(events) |-> Token(n)]
                  /\ K = {n \in 1..Len(events) : events[n] = kind}
  OBVIOUS
<1>2. s \in Seq(S)
  <2>1. \A n \in Nat : Token(n) \in S
    OBVIOUS
  <2> HIDE DEF S
  <2>2. s \in [1..Len(events) -> S]
    BY <1>1, <2>1
  <2> QED  BY <2>2
<1>3. TokensOf(kind, events) \in Seq(S)
  <2> HIDE DEF S
  <2> QED  BY <1>1, <1>2, ChosenType DEF TokensOf
<1> QED  BY <1>3 DEF ASeq

\* The call goes on, or ends, without another event of the reply.
LEMMA QuietStep ==
    ASSUME PsInv, UNCHANGED <<psAcc, psPartial, psEmitted, psShown, psSinkError, psAnswer>>,
           psPhase # "done", psPhase' # "done",
           psPhase' \in {"sending", "body"} => psPhase \in {"sending", "body"},
           psPhase \in {"ended", "done"} => UNCHANGED <<psPhase, psResult>>
    PROVE  PsInv'
BY DEF PsInv, ShownIsKept

\* An event that adds text adds it to the response, to what is kept and, while
\* the sink works, to what is shown.
LEMMA EventStep ==
    ASSUME PsInv, NEW event, NEW token, NEW sinkFails \in BOOLEAN,
           psAcc' = apply_value(psAcc, event, token), on_event(event, token, sinkFails),
           psPhase = "stream", psPhase' \in {"stream", "ended"}, UNCHANGED psAnswer
    PROVE  PsInv'
<1>1. /\ ASeq(psPartial) /\ ASeq(psShown) /\ Starts(psShown, psPartial) /\ psAnswer = <<>>
      /\ psSinkError \in BOOLEAN /\ psEmitted \in BOOLEAN
  BY DEF PsInv
<1>2. /\ psEmitted' \in BOOLEAN /\ psSinkError' \in BOOLEAN
      /\ psEmitted' = (psEmitted \/ event \in Deltas)
      /\ psSinkError => psSinkError'
  BY <1>1 DEF on_event
<1>3. /\ psAcc' = [text |-> psAcc'.text, tool |-> psAcc'.tool, finish |-> psAcc'.finish]
      /\ psAcc'.text = IF event = "text" THEN Append(psAcc.text, token) ELSE psAcc.text
  <2>1. PICK t, u, f : psAcc = [text |-> t, tool |-> u, finish |-> f] /\ psAcc.text = t
    BY DEF PsInv
  <2>2. CASE event = "text"
    BY <2>1, <2>2 DEF apply_value
  <2>3. CASE event = "tool"
    BY <2>1, <2>3 DEF apply_value
  <2>4. CASE event = "finish"
    BY <2>1, <2>4 DEF apply_value
  <2>5. CASE event \notin {"text", "tool", "finish"}
    BY <2>1, <2>5 DEF apply_value
  <2> QED  BY <2>2, <2>3, <2>4, <2>5
<1>4. CASE event = "text"
  <2>1. psPartial' = Append(psPartial, token) /\ psPartial' = psAcc'.text /\ psEmitted'
    BY <1>2, <1>3, <1>4 DEF on_event, PsInv, Deltas
  <2>2. psShown' = IF ~psSinkError' THEN Append(psShown, token) ELSE psShown
    BY <1>4 DEF on_event
  <2>3. CASE psSinkError'
    <3>0. Starts(psShown, Append(psPartial, token)) /\ ASeq(Append(psPartial, token))
      BY <1>1, Concatenations, Zenon
    <3>1. psShown' = psShown /\ Starts(psShown', psPartial') /\ ASeq(psPartial')
      BY <2>1, <2>2, <2>3, <3>0
    <3> QED  BY <1>1, <1>2, <1>3, <2>1, <2>3, <3>1 DEF PsInv, ShownIsKept
  <2>4. CASE ~psSinkError'
    <3>1. psShown' = psPartial' /\ ASeq(psPartial') /\ Starts(psShown', psPartial')
      BY <1>1, <1>2, <2>1, <2>2, <2>4, Concatenations DEF PsInv
    <3> QED  BY <1>1, <1>2, <1>3, <2>1, <2>4, <3>1 DEF PsInv, ShownIsKept
  <2> QED  BY <2>3, <2>4
<1>5. CASE event # "text"
  <2>1. psPartial' = psPartial /\ psShown' = psShown /\ psAcc'.text = psAcc.text
    BY <1>3, <1>5 DEF on_event
  <2> QED  BY <1>1, <1>2, <1>3, <2>1 DEF PsInv, ShownIsKept
<1> QED  BY <1>4, <1>5

LEMMA ReadBlankLineKeeps == ASSUME PsInv, ReadBlankLine PROVE PsInv'
<1>1. PICK sinkFails \in BOOLEAN : process_sse_event(psServed[psRead + 1], sinkFails)
  BY DEF ReadBlankLine
<1> DEFINE event == psServed[psRead + 1]
<1>2. psPhase = "stream" /\ UNCHANGED psAnswer
  BY DEF ReadBlankLine, loopVars
<1>3. CASE event \notin {"done", "junk", "error"}
  <2>1. /\ psAcc' = apply_value(psAcc, event, Token(psRead + 1))
        /\ on_event(event, Token(psRead + 1), sinkFails) /\ UNCHANGED psPhase
    BY <1>1, <1>3 DEF process_sse_event
  <2> QED  BY <1>2, <2>1, EventStep
<1>4. CASE event \in {"done", "junk", "error"}
  <2>1. /\ UNCHANGED <<psAcc, psPartial, psEmitted, psShown, psSinkError>>
        /\ psPhase' \in {"stream", "ended"}
    BY <1>1, <1>2, <1>4 DEF process_sse_event, ReplyEnds
  <2> QED  BY <1>2, <2>1, QuietStep
<1> QED  BY <1>3, <1>4

LEMMA StreamEndsKeeps == ASSUME PsInv, StreamEnds PROVE PsInv'
<1>1. psPhase = "stream" /\ UNCHANGED psAnswer
  BY DEF StreamEnds, loopVars
<1>2. PICK cut \in {"nothing", "piece", "whole"} :
         LET event == IF cut = "whole" THEN psServed[psRead + 1] ELSE "junk"
         IN  \/ /\ psPhase' = "ended"
                /\ UNCHANGED <<psAcc, psPartial, psEmitted, psShown, psSinkError>>
             \/ /\ psPhase' = "ended"
                /\ psAcc' = apply_value(psAcc, event, Token(psRead + 1))
                /\ \E sinkFails \in BOOLEAN : on_event(event, Token(psRead + 1), sinkFails)
  BY DEF StreamEnds, ReplyEnds
<1>3. PICK event : event = IF cut = "whole" THEN psServed[psRead + 1] ELSE "junk"
  OBVIOUS
<1>4. CASE psPhase' = "ended" /\ UNCHANGED <<psAcc, psPartial, psEmitted, psShown, psSinkError>>
  BY <1>1, <1>4, QuietStep
<1>5. CASE /\ psPhase' = "ended" /\ psAcc' = apply_value(psAcc, event, Token(psRead + 1))
           /\ \E sinkFails \in BOOLEAN : on_event(event, Token(psRead + 1), sinkFails)
  BY <1>1, <1>5, EventStep
<1> QED  BY <1>2, <1>3, <1>4, <1>5

LEMMA ReadBodyKeeps == ASSUME PsInv, ReplyInv, ReadBody PROVE PsInv'
<1>1. psPhase = "body" /\ psPhase' = "ended" /\ UNCHANGED psAnswer
  BY DEF ReadBody, loopVars, ReplyEnds
<1>2. CASE UNCHANGED <<psAcc, psPartial, psEmitted, psShown, psSinkError>>
  BY <1>1, <1>2, QuietStep
<1>3. CASE /\ psAcc' = [text |-> TokensOf("text", psServed), tool |-> TokensOf("tool", psServed),
                        finish |-> TRUE]
           /\ psPartial' = psPartial \o TokensOf("text", psServed)
           /\ \E sinkFails \in BOOLEAN :
                 /\ psSinkError' = (psSinkError \/ (sinkFails /\ TokensOf("text", psServed) # <<>>))
                 /\ psShown' = IF psSinkError' THEN psShown ELSE psShown \o TokensOf("text", psServed)
           /\ psEmitted' = (psEmitted \/ Count(Deltas) > 0)
           /\ psResult' = Ok
  <2>1. PICK text, tool : text = TokensOf("text", psServed) /\ tool = TokensOf("tool", psServed)
    OBVIOUS
  <2>2. ASeq(text)
    BY <2>1, TokensAreASeq DEF ReplyInv
  <2>3. /\ psPartial = <<>> /\ ASeq(psShown) /\ Starts(psShown, <<>>)
        /\ psSinkError \in BOOLEAN /\ psEmitted \in BOOLEAN /\ psAnswer = <<>>
        /\ ~psSinkError => psShown = <<>>
    BY <1>1 DEF PsInv
  <2>4. psShown = <<>>
    <3>1. PICK S : psShown \in Seq(S)
      BY <2>3 DEF ASeq
    <3> QED  BY <2>3, <3>1 DEF Starts
  <2>5. psPartial' = text /\ psAcc'.text = text /\ psShown' \in {text, <<>>} /\ (~psSinkError' => psShown' = text)
    BY <1>3, <2>1, <2>2, <2>3, <2>4, Concatenations
  <2>6. psAcc' = [text |-> psAcc'.text, tool |-> psAcc'.tool, finish |-> psAcc'.finish]
    BY <1>3
  <2>7. psSinkError' \in BOOLEAN /\ psEmitted' \in BOOLEAN
    BY <1>3
  <2>8. ASeq(psShown') /\ Starts(psShown', text)
    BY <2>2, <2>5, Concatenations
  <2>9. psResult' = Ok
    BY <1>3
  <2> QED  BY <1>1, <2>2, <2>3, <2>5, <2>6, <2>7, <2>8, <2>9 DEF PsInv, ShownIsKept
<1> QED  BY <1>2, <1>3 DEF ReadBody, ReplyEnds

LEMMA AgainKeeps ==
    ASSUME PsInv, psPhase = "ended", CanShrink \/ CanRetry, Again, UNCHANGED <<psShown, psAnswer>>
    PROVE  PsInv'
<1>1. psPartial = <<>> /\ psShown = <<>> /\ psSinkError = FALSE /\ psAnswer = <<>>
  BY DEF PsInv, CanShrink, CanRetry, Ok
<1>2. /\ psAcc' = EmptyAcc /\ psPartial' = <<>> /\ psEmitted' = FALSE /\ psPhase' = "sending"
      /\ psShown' = <<>> /\ psSinkError' = FALSE /\ psAnswer' = <<>>
  BY <1>1 DEF Again
<1>3. ASeq(<<>>) /\ Starts(<<>>, <<>>)
  BY Concatenations
<1> QED  BY <1>2, <1>3 DEF PsInv, EmptyAcc, ShownIsKept

LEMMA FinishKeeps == ASSUME PsInv, Finish PROVE PsInv'
<1>1. /\ ASeq(psPartial) /\ ASeq(psShown) /\ Starts(psShown, psPartial) /\ psAnswer = <<>>
      /\ ~psSinkError => psShown = psPartial
      /\ psAcc.text = psPartial /\ psPhase' = "done"
      /\ UNCHANGED <<psAcc, psPartial, psEmitted, psSinkError, psResult>>
  BY DEF PsInv, Finish
<1>2. psAnswer' = psPartial
  BY <1>1, Concatenations DEF Finish, append_response_text
<1>3. psShown' = psShown
  <2>1. CASE psResult \in {Ok, Cancelled} /\ ~psSinkError
    <3>1. IsPrefix(psPartial, psAcc.text)
          /\ SubSeq(psAcc.text, Len(psPartial) + 1, Len(psAcc.text)) = <<>>
      BY <1>1, PrefixOfItself
    <3>2. psShown' = psShown \o <<>>
      BY <2>1, <3>1 DEF Finish, append_response_text
    <3> QED  BY <1>1, <3>2, Concatenations
  <2> QED  BY <2>1 DEF Finish
<1>4. ShownIsKept'
  <2>1. IsPrefix(psShown, psPartial)
    BY <1>1, StartsIsPrefix
  <2> QED  BY <1>1, <1>2, <1>3, <2>1 DEF ShownIsKept
<1> QED  BY <1>1, <1>3, <1>4 DEF PsInv

\* The call of a repair starts with nothing said.
LEMMA RepairStarts == ASSUME PsInv, RepairCall PROVE PsInv'
<1>1. /\ psAcc' = EmptyAcc /\ psPartial' = <<>> /\ psEmitted' = FALSE /\ psPhase' = "sending"
      /\ psShown' = <<>> /\ psSinkError' = FALSE /\ psAnswer' = <<>>
  BY DEF RepairCall, Again, PsInv
<1>2. ASeq(<<>>) /\ Starts(<<>>, <<>>)
  BY Concatenations
<1> QED  BY <1>1, <1>2 DEF PsInv, EmptyAcc, ShownIsKept

\* A repair that fails leaves what it has said in the answer.
LEMMA RepairEnds == ASSUME PsInv, RepairReturns PROVE PsInv'
<1>1. /\ ASeq(psPartial) /\ ASeq(psShown) /\ Starts(psShown, psPartial) /\ psAnswer = <<>>
      /\ ~psSinkError => psShown = psPartial
      /\ psPhase' = "done" /\ psRepairs > 0
      /\ UNCHANGED <<psAcc, psPartial, psEmitted, psShown, psSinkError, psRepairs>>
  BY DEF PsInv, RepairReturns
<1>2. \/ psResult' = Ok /\ ~psSinkError
      \/ psAnswer' = psAnswer \o psPartial
  BY DEF RepairReturns
<1>3. ShownIsKept'
  <2>1. CASE psResult' = Ok /\ ~psSinkError
    BY <1>1, <2>1 DEF ShownIsKept
  <2>2. CASE psAnswer' = psAnswer \o psPartial
    <3>1. psAnswer' = psPartial
      BY <1>1, <2>2, Concatenations
    <3>2. IsPrefix(psShown, psPartial)
      BY <1>1, StartsIsPrefix
    <3> QED  BY <1>1, <3>1, <3>2 DEF ShownIsKept
  <2> QED  BY <1>2, <2>1, <2>2
<1> QED  BY <1>1, <1>3 DEF PsInv

\* What is shown, what generate has kept and the response's text are one, over
\* every event, break and retry: only an attempt that has shown nothing is made
\* again (generate, generate_with_recovery).
THEOREM StreamTextInvariant == PsSpec => []PsInv
<1>0. ASeq(<<>>) /\ Starts(<<>>, <<>>)
  BY Concatenations
<1>1. ASSUME PsInit PROVE PsInv
  <2>1. /\ psAcc = [text |-> <<>>, tool |-> <<>>, finish |-> FALSE] /\ psPartial = <<>>
        /\ psEmitted = FALSE /\ psShown = <<>> /\ psSinkError = FALSE
        /\ psAnswer = <<>> /\ psPhase = "sending"
    BY <1>1 DEF PsInit, EmptyAcc
  <2> QED  BY <1>0, <2>1 DEF PsInv, ShownIsKept
<1>2. PsInv /\ ReplyInv /\ [PsNext]_psVars => PsInv'
  <2> SUFFICES ASSUME PsInv, ReplyInv, [PsNext]_psVars PROVE PsInv'
    OBVIOUS
  <2>1. CASE UNCHANGED psVars
    BY <2>1 DEF psVars, PsInv, ShownIsKept
  <2>2. CASE RequestCancel \/ Headers \/ Serve \/ ReadHalfLine \/ ReadDataLine
    BY <2>2, QuietStep DEF RequestCancel, Headers, Serve, ReadHalfLine, ReadDataLine, loopVars
  <2>3. CASE CancelBeforeResponse \/ RefuseImages \/ SendFails \/ StatusError \/ TooLarge
             \/ ReadFails \/ CancelWhileReading \/ GenerateGivesUp
    <3>1. /\ UNCHANGED <<psAcc, psPartial, psEmitted, psShown, psSinkError, psAnswer>>
          /\ psPhase \in {"sending", "stream", "body"} /\ psPhase' = "ended"
      BY <2>3 DEF CancelBeforeResponse, RefuseImages, SendFails, StatusError, TooLarge,
            ReadFails, CancelWhileReading, GenerateGivesUp, ReplyEnds, loopVars
    <3> QED  BY <3>1, QuietStep
  <2>4. CASE ReadBlankLine \/ StreamEnds \/ ReadBody
    BY <2>4, ReadBlankLineKeeps, StreamEndsKeeps, ReadBodyKeeps
  <2>5. CASE RetryShrunk \/ RetryNetwork \/ Finish \/ RepairCall \/ RepairReturns
    BY <2>5, AgainKeeps, FinishKeeps, RepairStarts, RepairEnds DEF RetryShrunk, RetryNetwork
  <2> QED  BY <2>1, <2>2, <2>3, <2>4, <2>5 DEF PsNext
<1> QED  BY <1>1, <1>2, ReplyInvariant, PTL DEF PsSpec

\* The text the user has seen while a call ran is the text the run keeps of it,
\* for any number of deltas, retries and repairs and wherever the stream breaks:
\* of every call but a repair that succeeded, whose text repair_tool_calls drops.
THEOREM ShownTextIsKept == PsSpec => []ShownIsKept
<1>1. PsInv => ShownIsKept
  BY DEF PsInv
<1> QED  BY <1>1, StreamTextInvariant, PTL

-----------------------------------------------------------------------------
(***************************************************************************)
(* Context budget: RequestIsWellFormed.  The history keeps every call of   *)
(* tools and its results together, the blocks budget_chat_messages takes   *)
(* are such groups, and what it has taken and what is left never exceed    *)
(* the limit.                                                              *)
(***************************************************************************)

CbText == [size : Nat, grain : Nat \ {0}]
CbMessage == [role : {"system", "user", "assistant", "tool"}, text : CbText,
              round : Nat, calls : Nat]

\* The results of a call of tools stand right behind it, all of them, and a
\* result stands behind its call.
Grouped(ms) ==
    /\ \A i \in 1..Len(ms) : ms[i].calls > 0 =>
          /\ ms[i].role = "assistant" /\ i + ms[i].calls <= Len(ms)
          /\ \A j \in i + 1..i + ms[i].calls : ms[j].role = "tool" /\ ms[j].round = ms[i].round
    /\ \A i \in 1..Len(ms) : ms[i].role = "tool" =>
          \E a \in 1..i - 1 : ms[a].calls > 0 /\ i <= a + ms[a].calls

\* The fields of a message of a sequence.
LEMMA MessageFields ==
    ASSUME NEW ms \in Seq(CbMessage), NEW i \in 1..Len(ms)
    PROVE  /\ ms[i] \in CbMessage /\ ms[i].calls \in Nat /\ ms[i].round \in Nat
           /\ ms[i].text \in CbText /\ ms[i].text.size \in Nat
           /\ ms[i].role \in {"system", "user", "assistant", "tool"}
<1>1. ms[i] \in CbMessage
  OBVIOUS
<1> QED  BY <1>1 DEF CbMessage, CbText

\* The results of a call are those right behind it, as many as it has calls.
LEMMA GroupedResults ==
    ASSUME NEW ms \in Seq(CbMessage), Grouped(ms), NEW i \in 1..Len(ms), ms[i].calls > 0
    PROVE  ResultsAfter(ms, i) = i + 1..i + ms[i].calls
<1>1. PICK c \in Nat : c = ms[i].calls
  BY MessageFields
<1>2. /\ ms[i].role = "assistant" /\ i + c <= Len(ms) /\ c > 0
      /\ \A j \in i + 1..i + c : ms[j].role = "tool" /\ ms[j].round = ms[i].round
  BY <1>1 DEF Grouped
<1>3. ASSUME NEW k \in ResultsAfter(ms, i) PROVE k \in i + 1..i + c
  <2>1. /\ k \in i + 1..Len(ms)
        /\ \A j \in i + 1..k : ms[j].role = "tool" /\ ms[j].round = ms[i].round
    BY DEF ResultsAfter
  <2>2. SUFFICES ASSUME k > i + c PROVE FALSE
    BY <2>1
  <2>3. PICK n \in Nat : n = i + c + 1
    BY <1>1
  <2>4. n \in i + 1..k /\ n \in 1..Len(ms)
    BY <1>1, <1>2, <2>1, <2>2, <2>3
  <2>5. ms[n].role = "tool"
    BY <2>1, <2>4
  <2>6. PICK a \in 1..n - 1 : ms[a].calls > 0 /\ n <= a + ms[a].calls
    BY <2>4, <2>5 DEF Grouped
  <2>7. a \in 1..Len(ms) /\ ms[a].calls \in Nat
    <3>1. a \in 1..Len(ms)
      BY <2>4, <2>6
    <3> QED  BY <3>1, MessageFields
  <2>8. /\ ms[a].role = "assistant"
        /\ \A j \in a + 1..a + ms[a].calls : ms[j].role = "tool"
    BY <2>6, <2>7 DEF Grouped
  <2>9. CASE a = i
    BY <1>1, <2>3, <2>6, <2>9
  <2>10. CASE a > i
    <3>1. a \in i + 1..i + c
      BY <1>1, <2>3, <2>10
    <3> QED  BY <1>2, <2>8, <3>1
  <2>11. CASE a < i
    <3>1. i \in a + 1..a + ms[a].calls
      <4>1. PICK d \in Nat : d = ms[a].calls
        BY <2>7
      <4> QED  BY <1>1, <2>3, <2>6, <2>11, <4>1
    <3> QED  BY <1>2, <2>8, <3>1
  <2> QED  BY <2>9, <2>10, <2>11
<1>4. ASSUME NEW k \in i + 1..i + c PROVE k \in ResultsAfter(ms, i)
  BY <1>1, <1>2 DEF ResultsAfter
<1> QED  BY <1>1, <1>3, <1>4

\* What a provider asks of a request.
LEMMA GroupedIsWellFormed ==
    ASSUME NEW ms \in Seq(CbMessage), Grouped(ms), NEW i \in 1..Len(ms)
    PROVE  /\ ms[i].calls > 0 => Cardinality(ResultsAfter(ms, i)) = ms[i].calls
           /\ ms[i].role = "tool" => \E a \in 1..i - 1 : ms[a].calls > 0
                                                     /\ i \in ResultsAfter(ms, a)
<1>1. ASSUME ms[i].calls > 0 PROVE Cardinality(ResultsAfter(ms, i)) = ms[i].calls
  <2>1. PICK c \in Nat : c = ms[i].calls
    BY MessageFields
  <2>2. ResultsAfter(ms, i) = i + 1..i + c
    BY <1>1, <2>1, GroupedResults
  <2>3. i + 1 \in Int /\ i + c \in Int
    BY <2>1
  <2>4. Cardinality(i + 1..i + c) = (i + c) - (i + 1) + 1
    <3>1. PICK x, y \in Int : x = i + 1 /\ y = i + c
      BY <2>3
    <3>2. Cardinality(x..y) = IF x > y THEN 0 ELSE y - x + 1
      BY FS_Interval
    <3> QED  BY <1>1, <2>1, <3>1, <3>2
  <2> QED  BY <2>1, <2>2, <2>4
<1>2. ASSUME ms[i].role = "tool"
      PROVE  \E a \in 1..i - 1 : ms[a].calls > 0 /\ i \in ResultsAfter(ms, a)
  <2>1. PICK a \in 1..i - 1 : ms[a].calls > 0 /\ i <= a + ms[a].calls
    BY <1>2 DEF Grouped
  <2>2. a \in 1..Len(ms) /\ ms[a].calls \in Nat
    <3>1. a \in 1..Len(ms)
      BY <2>1
    <3> QED  BY <3>1, MessageFields
  <2>3. ResultsAfter(ms, a) = a + 1..a + ms[a].calls
    BY <2>1, <2>2, GroupedResults
  <2> QED  BY <2>1, <2>2, <2>3
<1> QED  BY <1>1, <1>2

\* truncate_to_tokens keeps whole characters, within the limit.
LEMMA Truncation ==
    ASSUME NEW text \in CbText, NEW limit \in Nat
    PROVE  /\ truncate_to_tokens(text, limit) \in CbText
           /\ truncate_to_tokens(text, limit).size <= limit
<1>1. PICK g \in Nat \ {0} : g = text.grain
  BY DEF CbText
<1>2. PICK q \in Int : q = limit \div g
  BY <1>1
<1>3. q \in Nat /\ q * g <= limit /\ q * g \in Nat
  BY <1>1, <1>2
<1>4. CASE text.size <= limit
  BY <1>4 DEF truncate_to_tokens
<1>5. CASE ~(text.size <= limit)
  <2>1. truncate_to_tokens(text, limit) = [text EXCEPT !.size = q * g]
    BY <1>1, <1>2, <1>5 DEF truncate_to_tokens
  <2> QED  BY <1>3, <2>1 DEF CbText
<1> QED  BY <1>4, <1>5

LEMMA EstimateType ==
    ASSUME NEW m \in CbMessage
    PROVE  /\ estimate_chat_message_tokens(m) \in Nat
           /\ PerCall * m.calls \in Nat /\ (m.calls = 0 => PerCall * m.calls = 0)
<1>1. Framing \in Nat /\ PerCall \in Nat /\ m.calls \in Nat /\ m.text.size \in Nat
  BY WindowAssumption DEF CbMessage, CbText
<1>2. PerCall * m.calls \in Nat /\ (m.calls = 0 => PerCall * m.calls = 0)
  BY <1>1
<1> QED  BY <1>1, <1>2 DEF estimate_chat_message_tokens

\* The messages' costs, one by one.
Costs(ms) == [i \in 1..Len(ms) |-> estimate_chat_message_tokens(ms[i])]

LEMMA CostsType == ASSUME NEW ms \in Seq(CbMessage) PROVE Costs(ms) \in Seq(Int) /\ Len(Costs(ms)) = Len(ms)
<1>1. \A i \in 1..Len(ms) : estimate_chat_message_tokens(ms[i]) \in Int
  BY EstimateType
<1>2. Costs(ms) \in [1..Len(ms) -> Int]
  BY <1>1 DEF Costs
<1> QED  BY <1>2

LEMMA CostType == ASSUME NEW ms \in Seq(CbMessage) PROVE Cost(ms) \in Int
BY CostsType, TotalType DEF Cost, Costs

LEMMA CostOfNone == Cost(<<>>) = 0
<1>1. [i \in 1..Len(<<>>) |-> estimate_chat_message_tokens(<<>>[i])] = <<>>
  OBVIOUS
<1> QED  BY <1>1, TotalOfNone DEF Cost

\* A message more costs what it costs.
LEMMA CostAppend ==
    ASSUME NEW ms \in Seq(CbMessage), NEW m \in CbMessage
    PROVE  Cost(Append(ms, m)) = Cost(ms) + estimate_chat_message_tokens(m)
<1>1. PICK x \in Int : x = estimate_chat_message_tokens(m)
  BY EstimateType
<1>2. PICK more : more = Append(ms, m)
  OBVIOUS
<1>3. PICK N \in Nat : N = Len(ms)
  OBVIOUS
<1>4. /\ more \in Seq(CbMessage) /\ Len(more) = N + 1 /\ more[N + 1] = m
      /\ \A i \in 1..N : more[i] = ms[i]
  BY <1>2, <1>3
<1>5. PICK s, t : s = Costs(ms) /\ t = Costs(more)
  OBVIOUS
<1>6. s \in Seq(Int) /\ t \in Seq(Int) /\ Len(s) = N /\ Len(t) = N + 1
  BY <1>3, <1>4, <1>5, CostsType
<1>7. t = Append(s, x)
  <2>1. PICK u : u = Append(s, x)
    OBVIOUS
  <2>2. u \in Seq(Int) /\ Len(u) = N + 1 /\ u[N + 1] = x /\ \A i \in 1..N : u[i] = s[i]
    BY <1>6, <2>1
  <2>3. t[N + 1] = x
    BY <1>1, <1>4, <1>5 DEF Costs
  <2>4. \A i \in 1..N : t[i] = s[i]
    BY <1>3, <1>4, <1>5 DEF Costs
  <2>5. \A i \in 1..N + 1 : i = N + 1 \/ i \in 1..N
    OBVIOUS
  <2>6. \A i \in 1..N + 1 : t[i] = u[i]
    BY <2>2, <2>3, <2>4, <2>5
  <2> QED  BY <1>6, <2>1, <2>2, <2>6, SeqEqual
<1>8. Total(t) = Total(s) + x
  BY <1>6, <1>7, TotalAppend
<1> QED  BY <1>1, <1>2, <1>5, <1>8 DEF Cost, Costs

\* What each message adds to the cost of the chosen ones.
Shares(ms, K) == [i \in 1..Len(ms) |-> IF i \in K THEN estimate_chat_message_tokens(ms[i]) ELSE 0]

LEMMA SharesType ==
    ASSUME NEW ms \in Seq(CbMessage), NEW K
    PROVE  Shares(ms, K) \in Seq(Int) /\ Len(Shares(ms, K)) = Len(ms)
<1>1. \A i \in 1..Len(ms) : estimate_chat_message_tokens(ms[i]) \in Int
  BY EstimateType
<1>2. Shares(ms, K) \in [1..Len(ms) -> Int]
  BY <1>1 DEF Shares
<1> QED  BY <1>2

\* The cost of the chosen messages, summed over all positions.
LEMMA CostOfChosen ==
    ASSUME NEW ms \in Seq(CbMessage), NEW K
    PROVE  Cost(Chosen(ms, K)) = Total(Shares(ms, K))
<1>1. PICK w : w = Shares(ms, K)
  OBVIOUS
<1>2. PICK N \in Nat : N = Len(ms)
  OBVIOUS
<1>3. w \in Seq(Int) /\ Len(w) = N
  BY <1>1, <1>2, SharesType
<1> DEFINE T == {n \in Nat : n <= N => Cost(Chosen(SubSeq(ms, 1, n), K)) = Total(SubSeq(w, 1, n))}
<1>4. 0 \in T
  <2>1. SubSeq(ms, 1, 0) = <<>> /\ SubSeq(w, 1, 0) = <<>>
    BY <1>3, FirstElements
  <2> QED  BY <2>1, ChosenOfNone, CostOfNone, TotalOfNone
<1>5. ASSUME NEW n \in Nat, n \in T PROVE n + 1 \in T
  <2>1. SUFFICES ASSUME n + 1 <= N
                 PROVE  Cost(Chosen(SubSeq(ms, 1, n + 1), K)) = Total(SubSeq(w, 1, n + 1))
    OBVIOUS
  <2>2. Cost(Chosen(SubSeq(ms, 1, n), K)) = Total(SubSeq(w, 1, n))
    BY <1>5, <2>1
  <2> HIDE DEF T
  <2>3. PICK t, v, m, x : t = SubSeq(ms, 1, n) /\ v = SubSeq(w, 1, n) /\ m = ms[n + 1] /\ x = w[n + 1]
    OBVIOUS
  <2>4. n \in 0..Len(ms) /\ n \in 0..Len(w)
    BY <1>2, <1>3, <2>1
  <2>5. t \in Seq(CbMessage) /\ Len(t) = n /\ m \in CbMessage /\ SubSeq(ms, 1, n + 1) = Append(t, m)
    BY <1>2, <2>1, <2>3, <2>4, FirstElements
  <2>6. v \in Seq(Int) /\ x \in Int /\ SubSeq(w, 1, n + 1) = Append(v, x)
    BY <1>3, <2>1, <2>3, <2>4, FirstElements
  <2>7. Chosen(Append(t, m), K) = IF n + 1 \in K THEN Append(Chosen(t, K), m) ELSE Chosen(t, K)
    BY <2>5, ChosenAppend
  <2>8. Chosen(t, K) \in Seq(CbMessage)
    BY <2>5, ChosenType
  <2>9. Cost(Append(Chosen(t, K), m)) = Cost(Chosen(t, K)) + estimate_chat_message_tokens(m)
    BY <2>5, <2>8, CostAppend
  <2>10. x = IF n + 1 \in K THEN estimate_chat_message_tokens(m) ELSE 0
    BY <1>1, <1>2, <2>1, <2>3 DEF Shares
  <2>11. Total(Append(v, x)) = Total(v) + x /\ Total(v) \in Int
    BY <2>6, TotalAppend, TotalType
  <2>12. CASE n + 1 \in K
    BY <2>2, <2>3, <2>5, <2>6, <2>7, <2>9, <2>10, <2>11, <2>12
  <2>13. CASE n + 1 \notin K
    <3>1. x = 0 /\ Chosen(Append(t, m), K) = Chosen(t, K)
      BY <2>7, <2>10, <2>13
    <3>2. Total(Append(v, x)) = Total(v)
      BY <2>11, <3>1
    <3> QED  BY <2>2, <2>3, <2>5, <2>6, <3>1, <3>2
  <2> QED  BY <2>12, <2>13
<1>6. Nat \subseteq T
  <2> HIDE DEF T
  <2> QED  BY <1>4, <1>5, SetInduction
<1>7. Cost(Chosen(SubSeq(ms, 1, N), K)) = Total(SubSeq(w, 1, N))
  BY <1>6
<1>8. SubSeq(ms, 1, N) = ms /\ SubSeq(w, 1, N) = w
  BY <1>2, <1>3, FirstElements
<1> QED  BY <1>1, <1>7, <1>8

-----------------------------------------------------------------------------
(* The blocks.                                                             *)

\* No block ends after e that begins before.
Boundary(ms, e) == e = Len(ms) \/ ms[e + 1].role # "tool"

\* message_block_start finds a message alone or a call with all its results.
LEMMA BlockStart ==
    ASSUME NEW ms \in Seq(CbMessage), Grouped(ms), NEW e \in 1..Len(ms), Boundary(ms, e)
    PROVE  LET s == message_block_start(ms, e)
           IN  /\ s \in 1..e /\ ms[s].role # "tool"
               /\ (s = e /\ ms[e].calls = 0) \/ (ms[s].calls > 0 /\ e = s + ms[s].calls)
<1>1. CASE ms[e].role # "tool"
  <2>1. message_block_start(ms, e) = e
    BY <1>1 DEF message_block_start
  <2>2. PICK c \in Nat : c = ms[e].calls
    BY MessageFields
  <2>3. c = 0
    <3>1. SUFFICES ASSUME c > 0 PROVE FALSE
      BY <2>2
    <3>2. /\ e + c <= Len(ms) /\ \A j \in e + 1..e + c : ms[j].role = "tool"
      BY <2>2, <3>1 DEF Grouped
    <3>3. e + 1 \in e + 1..e + c /\ e # Len(ms)
      BY <2>2, <3>1, <3>2
    <3> QED  BY <3>2, <3>3 DEF Boundary
  <2> QED  BY <1>1, <2>1, <2>2, <2>3
<1>2. CASE ms[e].role = "tool"
  <2>1. PICK a \in 1..e - 1 : ms[a].calls > 0 /\ e <= a + ms[a].calls
    BY <1>2 DEF Grouped
  <2>2. a \in 1..Len(ms)
    BY <2>1
  <2>3. PICK c \in Nat : c = ms[a].calls
    BY <2>2, MessageFields
  <2>4. /\ ms[a].role = "assistant" /\ a + c <= Len(ms)
        /\ \A j \in a + 1..a + c : ms[j].role = "tool"
    BY <2>1, <2>2, <2>3 DEF Grouped
  <2>5. e = a + c
    <3>01. e \in Nat /\ a \in Nat
      OBVIOUS
    <3>02. e <= a + c
      BY <2>1, <2>3
    <3>1. SUFFICES ASSUME e < a + c PROVE FALSE
      BY <3>01, <3>02
    <3>2. e + 1 \in a + 1..a + c /\ e # Len(ms)
      BY <2>1, <2>3, <2>4, <3>1
    <3> QED  BY <2>4, <3>2 DEF Boundary
  <2> DEFINE P(s) == /\ \A i \in s..e : ms[i].role = "tool"
                     /\ s > 1 => ms[s - 1].role # "tool"
             first == CHOOSE s \in 1..e : P(s)
  <2>6. a + 1 \in 1..e /\ P(a + 1)
    BY <2>1, <2>3, <2>4, <2>5
  <2>7. ASSUME NEW s \in 1..e, P(s) PROVE s = a + 1
    <3>1. CASE s <= a
      BY <2>1, <2>4, <2>7, <3>1
    <3>2. CASE s > a + 1
      <4>1. s - 1 \in a + 1..a + c
        BY <2>5, <3>2
      <4> QED  BY <2>1, <2>4, <2>7, <3>2, <4>1
    <3> QED  BY <2>1, <3>1, <3>2
  <2>8. first \in 1..e /\ P(first)
    <3> HIDE DEF P
    <3> QED  BY <2>6
  <2>9. first = a + 1
    <3> HIDE DEF first
    <3> QED  BY <2>7, <2>8
  <2>10. message_block_start(ms, e) = IF first > 1 /\ ms[first - 1].role = "assistant"
                                         /\ ms[first - 1].calls > 0
                                      THEN first - 1 ELSE first
    BY <1>2 DEF message_block_start
  <2>11. message_block_start(ms, e) = a
    <3> HIDE DEF first
    <3>1. first > 1 /\ first - 1 = a
      BY <2>1, <2>9
    <3> QED  BY <2>1, <2>4, <2>10, <3>1
  <2> QED  BY <2>1, <2>3, <2>4, <2>5, <2>11
<1> QED  BY <1>1, <1>2

-----------------------------------------------------------------------------
(* compact_tool_block: only texts are cut, and what is left is accounted.  *)

SameShape(m, n) == m.role = n.role /\ m.round = n.round /\ m.calls = n.calls

CompactState == [ok : BOOLEAN, left : Int, out : Seq(CbMessage)]

\* A message of a tool block is kept or cut to fit what is left.
LEMMA CompactStep ==
    ASSUME NEW acc \in CompactState, NEW m \in CbMessage, m.role = "tool" => m.calls = 0
    PROVE  /\ CompactMessage(acc, m) \in CompactState
           /\ CompactMessage(acc, m).ok => acc.ok
           /\ CompactMessage(acc, m).ok /\ acc.left \in Nat =>
                \E kept \in CbMessage :
                   /\ SameShape(kept, m) /\ estimate_chat_message_tokens(kept) <= acc.left
                   /\ CompactMessage(acc, m).out = Append(acc.out, kept)
                   /\ CompactMessage(acc, m).left = acc.left - estimate_chat_message_tokens(kept)
<1> DEFINE whole == estimate_chat_message_tokens(m)
           room  == acc.left - Framing - Marker
           cut   == [m EXCEPT !.text = [truncate_to_tokens(m.text, room) EXCEPT !.size = @ + Marker]]
           kept  == IF m.role = "tool" /\ whole > acc.left THEN cut ELSE m
           fits  == /\ m.role = "tool" /\ whole > acc.left => room > 0
                    /\ m.role # "tool" => whole <= acc.left
<1>1. CompactMessage(acc, m) = IF ~acc.ok \/ ~fits THEN [acc EXCEPT !.ok = FALSE]
                               ELSE [ok |-> TRUE, left |-> acc.left - estimate_chat_message_tokens(kept),
                                     out |-> Append(acc.out, kept)]
  BY DEF CompactMessage
<1>2. /\ Framing \in Nat /\ Marker \in Nat /\ PerCall \in Nat
      /\ acc.ok \in BOOLEAN /\ acc.left \in Int /\ acc.out \in Seq(CbMessage)
      /\ m.text \in CbText /\ m.text.size \in Nat /\ m.calls \in Nat /\ whole \in Nat
  BY WindowAssumption, EstimateType DEF CompactState, CbMessage, CbText
<1>3. CASE ~acc.ok \/ ~fits
  <2>1. CompactMessage(acc, m) = [acc EXCEPT !.ok = FALSE]
    BY <1>1, <1>3
  <2>2. [acc EXCEPT !.ok = FALSE] \in CompactState /\ [acc EXCEPT !.ok = FALSE].ok = FALSE
    BY DEF CompactState
  <2> QED  BY <2>1, <2>2
<1>4. CASE acc.ok /\ fits
  <2>1. CompactMessage(acc, m) = [ok |-> TRUE, left |-> acc.left - estimate_chat_message_tokens(kept),
                                  out |-> Append(acc.out, kept)]
    BY <1>1, <1>4
  <2>2. /\ kept \in CbMessage /\ SameShape(kept, m)
        /\ acc.left \in Nat => estimate_chat_message_tokens(kept) <= acc.left
    <3>1. CASE m.role = "tool" /\ whole > acc.left
      <4>1. room \in Nat /\ m.calls = 0
        BY <1>2, <1>4, <3>1
      <4>2. PICK t : t = truncate_to_tokens(m.text, room)
        OBVIOUS
      <4>3. t \in CbText /\ t.size <= room /\ t.size \in Nat
        <5> HIDE DEF room
        <5>1. t \in CbText /\ t.size <= room
          BY <1>2, <4>1, <4>2, Truncation
        <5> QED  BY <5>1 DEF CbText
      <4>4. PICK u : u = [t EXCEPT !.size = @ + Marker]
        OBVIOUS
      <4>5. u \in CbText /\ u.size = t.size + Marker
        BY <1>2, <4>3, <4>4 DEF CbText
      <4>6. kept = [m EXCEPT !.text = u]
        BY <3>1, <4>2, <4>4
      <4> HIDE DEF kept
      <4>7. kept \in CbMessage /\ SameShape(kept, m) /\ kept.text = u /\ kept.calls = 0
        BY <4>1, <4>5, <4>6 DEF CbMessage, SameShape
      <4>8. PerCall * kept.calls = 0
        BY <4>7, EstimateType
      <4>9. estimate_chat_message_tokens(kept) = Framing + u.size
        BY <1>2, <4>3, <4>5, <4>7, <4>8 DEF estimate_chat_message_tokens
      <4>10. estimate_chat_message_tokens(kept) <= acc.left
        BY <1>2, <4>3, <4>5, <4>9
      <4> QED  BY <4>7, <4>10
    <3>2. CASE ~(m.role = "tool" /\ whole > acc.left)
      <4>1. kept = m /\ whole <= acc.left
        BY <1>2, <1>4, <3>2
      <4> QED  BY <4>1 DEF SameShape
    <3> QED  BY <3>1, <3>2
  <2> HIDE DEF kept, fits
  <2>3. estimate_chat_message_tokens(kept) \in Nat
    BY <2>2, EstimateType
  <2>4. Append(acc.out, kept) \in Seq(CbMessage)
    BY <1>2, <2>2
  <2>5. CompactMessage(acc, m) \in CompactState
    BY <1>2, <2>1, <2>3, <2>4 DEF CompactState
  <2> QED  BY <1>4, <2>1, <2>2, <2>5
<1> QED  BY <1>2, <1>3, <1>4

CompactUpTo(block, budget, f) ==
    f = [n \in 0..Len(block) |-> IF n = 0 THEN [ok |-> TRUE, left |-> budget, out |-> <<>>]
                                 ELSE CompactMessage(f[n - 1], block[n])]

\* The calls of a block are not calls of its results.
PlainResults(ms) == \A i \in 1..Len(ms) : ms[i].role = "tool" => ms[i].calls = 0

\* compact_tool_block is a loop over the messages of the block.
LEMMA CompactLoop ==
    ASSUME NEW block \in Seq(CbMessage), PlainResults(block), NEW budget \in Int
    PROVE  \E f \in [0..Len(block) -> CompactState] :
              /\ f[0] = [ok |-> TRUE, left |-> budget, out |-> <<>>]
              /\ \A n \in 1..Len(block) : f[n] = CompactMessage(f[n - 1], block[n])
              /\ compact_tool_block(block, budget) = f[Len(block)]
<1>1. PICK N \in Nat : N = Len(block)
  OBVIOUS
<1>2. PICK b : b = [ok |-> TRUE, left |-> budget, out |-> <<>>]
  OBVIOUS
<1>3. PICK g : g = [n \in 1..N |-> [v \in CompactState |-> CompactMessage(v, block[n])]]
  OBVIOUS
<1>4. b \in CompactState
  BY <1>2 DEF CompactState
<1>5. g \in Rounds(N, CompactState)
  <2>1. ASSUME NEW n \in 1..N, NEW v \in CompactState PROVE CompactMessage(v, block[n]) \in CompactState
    <3>1. block[n] \in CbMessage /\ (block[n].role = "tool" => block[n].calls = 0)
      BY <1>1 DEF PlainResults
    <3> QED  BY <3>1, CompactStep
  <2> QED  BY <1>3, <2>1 DEF Rounds
<1>6. PICK f : IsLoop(f, N, CompactState, b, g)
  BY <1>4, <1>5, LoopExists
<1>7. /\ f \in [0..N -> CompactState] /\ f[0] = b
      /\ \A n \in 1..N : f[n] = CompactMessage(f[n - 1], block[n])
  BY <1>3, <1>6 DEF IsLoop
<1>8. CompactUpTo(block, budget, f)
  BY <1>1, <1>2, <1>7 DEF CompactUpTo
<1> DEFINE c == CHOOSE h : CompactUpTo(block, budget, h)
<1>9. CompactUpTo(block, budget, c)
  BY <1>8
<1>10. compact_tool_block(block, budget) = c[Len(block)]
  BY DEF compact_tool_block, CompactUpTo
<1> HIDE DEF c
<1>11. c[N] = f[N]
  <2>1. c = [n \in 0..N |-> IF n = 0 THEN b ELSE CompactMessage(c[n - 1], block[n])]
    BY <1>1, <1>2, <1>9 DEF CompactUpTo
  <2>2. c[0] = b
    BY <2>1
  <2>3. ASSUME NEW n \in 1..N PROVE c[n] = CompactMessage(c[n - 1], block[n])
    BY <2>1
  <2>4. Alike(c, f, N)
    BY <1>7, <2>2, <2>3 DEF Alike
  <2> QED  BY <2>4, LoopUnique
<1> QED  BY <1>1, <1>2, <1>7, <1>10, <1>11

\* A block that is compacted keeps its messages and pays for them.
LEMMA CompactBlock ==
    ASSUME NEW block \in Seq(CbMessage), PlainResults(block), NEW budget \in Nat,
           compact_tool_block(block, budget).ok
    PROVE  LET c == compact_tool_block(block, budget)
           IN  /\ c.out \in Seq(CbMessage) /\ Len(c.out) = Len(block) /\ c.left \in Nat
               /\ Cost(c.out) + c.left = budget
               /\ \A i \in 1..Len(block) : SameShape(c.out[i], block[i])
<1>1. PICK N \in Nat : N = Len(block)
  OBVIOUS
<1>01. budget \in Int
  OBVIOUS
<1>02. PICK f \in [0..Len(block) -> CompactState] :
         /\ f[0] = [ok |-> TRUE, left |-> budget, out |-> <<>>]
         /\ \A n \in 1..Len(block) : f[n] = CompactMessage(f[n - 1], block[n])
         /\ compact_tool_block(block, budget) = f[Len(block)]
  BY <1>01, CompactLoop
<1>2. /\ f \in [0..N -> CompactState]
      /\ f[0] = [ok |-> TRUE, left |-> budget, out |-> <<>>]
      /\ \A n \in 1..N : f[n] = CompactMessage(f[n - 1], block[n])
      /\ compact_tool_block(block, budget) = f[N]
  BY <1>1, <1>02
<1> DEFINE Good(n) == f[n].ok => /\ f[n].out \in Seq(CbMessage) /\ Len(f[n].out) = n /\ f[n].left \in Nat
                                 /\ Cost(f[n].out) + f[n].left = budget
                                 /\ \A i \in 1..n : SameShape(f[n].out[i], block[i])
           T == {n \in Nat : n <= N => Good(n)}
<1>3. 0 \in T
  <2>1. f[0].out = <<>> /\ f[0].left = budget
    BY <1>2
  <2>2. /\ f[0].out \in Seq(CbMessage) /\ Len(f[0].out) = 0 /\ f[0].left \in Nat
        /\ Cost(f[0].out) + f[0].left = budget
    <3>1. Cost(f[0].out) = 0
      BY <2>1, CostOfNone
    <3> QED  BY <2>1, <3>1
  <2>3. \A i \in 1..0 : SameShape(f[0].out[i], block[i])
    OBVIOUS
  <2> QED  BY <2>2, <2>3
<1>4. ASSUME NEW n \in Nat, n \in T PROVE n + 1 \in T
  <2>1. SUFFICES ASSUME n + 1 <= N, f[n + 1].ok
                 PROVE  /\ f[n + 1].out \in Seq(CbMessage) /\ Len(f[n + 1].out) = n + 1
                        /\ f[n + 1].left \in Nat /\ Cost(f[n + 1].out) + f[n + 1].left = budget
                        /\ \A i \in 1..n + 1 : SameShape(f[n + 1].out[i], block[i])
    OBVIOUS
  <2>2. n + 1 \in 1..N /\ (n + 1) - 1 = n /\ n \in 0..N
    BY <2>1
  <2>3. PICK m : m = block[n + 1]
    OBVIOUS
  <2>4. PICK acc : acc = f[n]
    OBVIOUS
  <2>5. m \in CbMessage /\ (m.role = "tool" => m.calls = 0) /\ acc \in CompactState
        /\ f[n + 1] = CompactMessage(acc, m)
    BY <1>1, <1>2, <2>2, <2>3, <2>4 DEF PlainResults
  <2>6. acc.ok
    BY <2>1, <2>5, CompactStep
  <2>7. /\ acc.out \in Seq(CbMessage) /\ Len(acc.out) = n /\ acc.left \in Nat
        /\ Cost(acc.out) + acc.left = budget
        /\ \A i \in 1..n : SameShape(acc.out[i], block[i])
    BY <1>4, <2>1, <2>4, <2>6
  <2>8. PICK kept \in CbMessage :
           /\ SameShape(kept, m) /\ estimate_chat_message_tokens(kept) <= acc.left
           /\ f[n + 1].out = Append(acc.out, kept)
           /\ f[n + 1].left = acc.left - estimate_chat_message_tokens(kept)
    BY <2>1, <2>5, <2>7, CompactStep
  <2>9. /\ Cost(Append(acc.out, kept)) = Cost(acc.out) + estimate_chat_message_tokens(kept)
        /\ Cost(acc.out) \in Int /\ estimate_chat_message_tokens(kept) \in Nat
    BY <2>7, CostAppend, CostType, EstimateType
  <2>10. f[n + 1].left \in Nat /\ Cost(f[n + 1].out) + f[n + 1].left = budget
    BY <2>7, <2>8, <2>9
  <2>11. /\ f[n + 1].out \in Seq(CbMessage) /\ Len(f[n + 1].out) = n + 1
         /\ f[n + 1].out[n + 1] = kept /\ \A i \in 1..n : f[n + 1].out[i] = acc.out[i]
    BY <2>7, <2>8
  <2>12. \A i \in 1..n + 1 : i = n + 1 \/ i \in 1..n
    OBVIOUS
  <2>13. \A i \in 1..n + 1 : SameShape(f[n + 1].out[i], block[i])
    BY <2>3, <2>7, <2>8, <2>11, <2>12
  <2> QED  BY <2>10, <2>11, <2>13
<1>5. Nat \subseteq T
  <2> HIDE DEF T
  <2> QED  BY <1>3, <1>4, SetInduction
<1>6. Good(N)
  BY <1>5
<1> QED  BY <1>1, <1>2, <1>6

\* A call and its results are picked together.
Together(ms, K) ==
    \A a \in 1..Len(ms) : ms[a].calls > 0 =>
        \A j \in a..a + ms[a].calls : j \in K <=> a \in K

\* The block of messages from s to e.
IsBlock(ms, s, e) ==
    /\ s \in 1..e /\ ms[s].role # "tool"
    /\ (s = e /\ ms[e].calls = 0) \/ (ms[s].calls > 0 /\ e = s + ms[s].calls)

\* A block holds a call with its results, or neither.
LEMMA BlockMembers ==
    ASSUME NEW ms \in Seq(CbMessage), Grouped(ms), NEW e \in 1..Len(ms), NEW s, IsBlock(ms, s, e)
    PROVE  /\ \A i \in s..e : ms[i].role = "system" => s = e
           /\ \A a \in 1..Len(ms) : ms[a].calls > 0 =>
                 /\ a \in s..e => a = s /\ e = a + ms[a].calls
                 /\ a \notin s..e => \A j \in a..a + ms[a].calls : j \notin s..e
<1>1. s \in 1..e /\ ms[s].role # "tool" /\ s \in 1..Len(ms)
  BY DEF IsBlock
<1>2. \A i \in s..e : i = s \/ (i \in s + 1..e /\ ms[i].role = "tool")
  <2>1. CASE s = e
    BY <1>1, <2>1
  <2>2. CASE s # e
    <3>1. PICK c \in Nat : c = ms[s].calls
      BY <1>1, MessageFields
    <3>2. c > 0 /\ e = s + c
      BY <2>2, <3>1 DEF IsBlock
    <3>3. \A j \in s + 1..s + c : ms[j].role = "tool"
      BY <1>1, <3>1, <3>2 DEF Grouped
    <3> QED  BY <1>1, <3>2, <3>3
  <2> QED  BY <2>1, <2>2
<1>3. ASSUME NEW i \in s..e, ms[i].role = "system" PROVE s = e
  <2>1. i = s
    BY <1>2, <1>3
  <2>2. SUFFICES ASSUME s # e PROVE FALSE
    OBVIOUS
  <2>3. ms[s].role = "assistant"
    BY <1>1, <2>2 DEF IsBlock, Grouped
  <2> QED  BY <1>3, <2>1, <2>3
<1>4. ASSUME NEW a \in 1..Len(ms), ms[a].calls > 0
      PROVE  /\ a \in s..e => a = s /\ e = a + ms[a].calls
             /\ a \notin s..e => \A j \in a..a + ms[a].calls : j \notin s..e
  <2>1. PICK c \in Nat : c = ms[a].calls
    BY MessageFields
  <2>2. ms[a].role = "assistant" /\ \A j \in a + 1..a + c : ms[j].role = "tool"
    BY <1>4, <2>1 DEF Grouped
  <2>3. a \in s..e => a = s
    BY <1>2, <2>2
  <2>4. a = s => e = a + ms[a].calls
    BY <1>4, <2>1 DEF IsBlock
  <2>5. ASSUME a \notin s..e, NEW j \in a..a + c PROVE j \notin s..e
    <3>1. CASE a > e
      BY <1>1, <3>1
    <3>2. CASE a < s
      <4>1. s \notin a + 1..a + c
        BY <1>1, <2>2
      <4> QED  BY <1>1, <2>1, <3>2, <4>1
    <3> QED  BY <1>1, <2>5, <3>1, <3>2
  <2> QED  BY <2>1, <2>3, <2>4, <2>5
<1> QED  BY <1>3, <1>4

\* Taking a block keeps calls and results together.
LEMMA BlockTogether ==
    ASSUME NEW ms \in Seq(CbMessage), Grouped(ms), NEW e \in 1..Len(ms), NEW s, IsBlock(ms, s, e),
           NEW K, Together(ms, K)
    PROVE  Together(ms, K \cup s..e)
<1>1. ASSUME NEW a \in 1..Len(ms), ms[a].calls > 0, NEW j \in a..a + ms[a].calls
      PROVE  j \in K \cup s..e <=> a \in K \cup s..e
  <2>1. j \in K <=> a \in K
    BY <1>1 DEF Together
  <2>2. s \in Nat /\ ms[a].calls \in Nat
    BY MessageFields DEF IsBlock
  <2>3. CASE a \in s..e
    <3>1. a = s /\ e = a + ms[a].calls
      BY <1>1, <2>3, BlockMembers
    <3> QED  BY <1>1, <2>2, <2>3, <3>1
  <2>4. CASE a \notin s..e
    <3>1. j \notin s..e
      BY <1>1, <2>4, BlockMembers
    <3> QED  BY <2>1, <2>4, <3>1
  <2> QED  BY <2>3, <2>4
<1> QED  BY <1>1 DEF Together

\* w differs from v between s and e only, where nothing is picked yet.
Extends(v, w, K, s, e) ==
    /\ v \in Seq(CbMessage) /\ w \in Seq(CbMessage) /\ Len(v) = Len(w)
    /\ s \in 1..Len(v) /\ e \in s..Len(v)
    /\ \A i \in 1..Len(v) : i \notin s..e => w[i] = v[i]
    /\ \A i \in s..e : i \notin K

\* Picking the positions from s to e adds what their messages cost.
LEMMA CostOfPicking ==
    ASSUME NEW v, NEW w, NEW K, NEW s, NEW e, Extends(v, w, K, s, e)
    PROVE  Cost(Chosen(w, K \cup s..e)) = Cost(Chosen(v, K)) + Cost(SubSeq(w, s, e))
<1>0. /\ v \in Seq(CbMessage) /\ w \in Seq(CbMessage) /\ Len(v) = Len(w)
      /\ s \in 1..Len(v) /\ e \in s..Len(v)
      /\ \A i \in 1..Len(v) : i \notin s..e => w[i] = v[i]
      /\ \A i \in s..e : i \notin K
  BY DEF Extends
<1> USE <1>0
<1>1. PICK f, h : f = Shares(w, K \cup s..e) /\ h = Shares(v, K)
  OBVIOUS
<1>2. PICK N \in Nat : N = Len(v)
  OBVIOUS
<1>3. f \in Seq(Int) /\ h \in Seq(Int) /\ Len(f) = N /\ Len(h) = N
  BY <1>1, <1>2, SharesType
<1>4. \A i \in 1..N : i \notin s..e => f[i] = h[i]
  BY <1>1, <1>2 DEF Shares
<1>5. \A i \in s..e : h[i] = 0
  <2>1. \A i \in s..e : i \in 1..N
    BY <1>2
  <2> QED  BY <1>1, <1>2, <2>1 DEF Shares
<1>6. s \in 1..Len(f) /\ e \in s..Len(f)
  BY <1>2, <1>3
<1>7. \A i \in 1..Len(f) : f[i] = IF i \in s..e THEN f[i] ELSE h[i]
  BY <1>3, <1>4
<1>8. Total(f) = Total(h) + Total(SubSeq(f, s, e))
  BY <1>3, <1>5, <1>6, <1>7, TotalSplice
<1>9. SubSeq(f, s, e) = Costs(SubSeq(w, s, e))
  <2>1. PICK x, y : x = SubSeq(f, s, e) /\ y = SubSeq(w, s, e)
    OBVIOUS
  <2>2. /\ x \in Seq(Int) /\ Len(x) = e - s + 1
        /\ \A i \in 1..e - s + 1 : x[i] = f[s + i - 1]
    BY ONLY <1>3, <1>6, <2>1
  <2>3. /\ y \in Seq(CbMessage) /\ Len(y) = e - s + 1
        /\ \A i \in 1..e - s + 1 : y[i] = w[s + i - 1]
    BY <1>2, <2>1
  <2>4. Costs(y) \in Seq(Int) /\ Len(Costs(y)) = e - s + 1
    BY <2>3, CostsType
  <2>5. ASSUME NEW i \in 1..e - s + 1 PROVE x[i] = Costs(y)[i]
    <3>1. PICK j \in s..e : j = s + i - 1
      OBVIOUS
    <3>2. j \in 1..N
      BY <1>2
    <3>3. f[j] = estimate_chat_message_tokens(w[j])
      BY <1>1, <1>2, <3>2 DEF Shares
    <3>4. Costs(y)[i] = estimate_chat_message_tokens(y[i])
      BY <2>3 DEF Costs
    <3> QED  BY <2>2, <2>3, <3>1, <3>3, <3>4
  <2>6. x = Costs(y)
    BY <2>2, <2>4, <2>5, SeqEqual
  <2> QED  BY <2>1, <2>6
<1>10. Cost(Chosen(w, K \cup s..e)) = Total(f) /\ Cost(Chosen(v, K)) = Total(h)
  BY <1>1, CostOfChosen
<1>11. Cost(SubSeq(w, s, e)) = Total(Costs(SubSeq(w, s, e)))
  BY DEF Cost, Costs
<1> QED  BY <1>8, <1>9, <1>10, <1>11

-----------------------------------------------------------------------------
(* budget_chat_messages: blocks are taken whole, and within the limit.     *)

TakeState == [ok : BOOLEAN, end : Nat, left : Int, view : Seq(CbMessage), picked : SUBSET Nat]

\* The messages as they are cut.
ViewOf(ms, v) == Len(v) = Len(ms) /\ \A i \in 1..Len(ms) : SameShape(v[i], ms[i])

\* The positions taken: the system messages and whole blocks behind end.
PickedOf(ms, end, K) ==
    /\ K \subseteq 1..Len(ms) /\ Together(ms, K)
    /\ \A i \in K : ms[i].role = "system" \/ i > end

TakeInv(ms, limit, acc) ==
    /\ acc.end \in 0..Len(ms) /\ (acc.end > 0 => Boundary(ms, acc.end))
    /\ ViewOf(ms, acc.view) /\ (\A i \in 1..acc.end : acc.view[i] = ms[i])
    /\ PickedOf(ms, acc.end, acc.picked)
    /\ Cost(Chosen(acc.view, acc.picked)) <= limit
    /\ acc.end > 0 => acc.left \in Nat /\ Cost(Chosen(acc.view, acc.picked)) + acc.left <= limit

Taken(ms, limit) == {acc \in TakeState : acc.ok => TakeInv(ms, limit, acc)}

\* The block goes, taken or not.
LEMMA BlockGone ==
    ASSUME NEW ms \in Seq(CbMessage), NEW e \in 1..Len(ms), NEW s, IsBlock(ms, s, e)
    PROVE  s - 1 \in 0..Len(ms) /\ s - 1 \in Nat /\ s - 1 < e /\ (s - 1 > 0 => Boundary(ms, s - 1))
<1>1. s \in 1..e /\ ms[s].role # "tool" /\ (s - 1) + 1 = s
  BY DEF IsBlock
<1> QED  BY <1>1 DEF Boundary

\* The block is left out.
LEMMA BlockLeftOut ==
    ASSUME NEW ms \in Seq(CbMessage), NEW limit \in Nat, NEW acc \in TakeState, acc.ok,
           TakeInv(ms, limit, acc), acc.end # 0, NEW s, IsBlock(ms, s, acc.end)
    PROVE  [acc EXCEPT !.end = s - 1] \in Taken(ms, limit)
<1>1. PICK x : x = [acc EXCEPT !.end = s - 1]
  OBVIOUS
<1>2. acc.end \in 1..Len(ms)
  BY DEF TakeInv
<1>3. s - 1 \in 0..Len(ms) /\ s - 1 \in Nat /\ s - 1 < acc.end /\ (s - 1 > 0 => Boundary(ms, s - 1))
  BY <1>2, BlockGone
<1>4. /\ x \in TakeState /\ x.end = s - 1 /\ x.view = acc.view /\ x.picked = acc.picked
      /\ x.left = acc.left
  BY <1>1, <1>3 DEF TakeState
<1>5. \A i \in 1..s - 1 : acc.view[i] = ms[i]
  BY <1>2, <1>3 DEF TakeInv
<1>6. PickedOf(ms, s - 1, acc.picked)
  BY <1>2, <1>3 DEF TakeInv, PickedOf
<1>7. acc.left \in Nat /\ Cost(Chosen(acc.view, acc.picked)) + acc.left <= limit
  BY <1>2 DEF TakeInv
<1>8. TakeInv(ms, limit, x)
  BY <1>3, <1>4, <1>5, <1>6, <1>7 DEF TakeInv
<1> QED  BY <1>1, <1>4, <1>8 DEF Taken

\* The block is taken, as its messages are in w: they fit what was left.
LEMMA BlockTaken ==
    ASSUME NEW ms \in Seq(CbMessage), Grouped(ms), NEW limit \in Nat,
           NEW acc \in TakeState, acc.ok, TakeInv(ms, limit, acc), acc.end # 0,
           NEW s, IsBlock(ms, s, acc.end),
           \A i \in s..acc.end : ms[i].role # "system",
           NEW w \in Seq(CbMessage), ViewOf(ms, w),
           \A i \in 1..Len(ms) : i \notin s..acc.end => w[i] = acc.view[i],
           NEW x \in TakeState, x.ok, x.view = w, x.picked = acc.picked \cup s..acc.end,
           x.end \in 0..s - 1, x.end > 0 => x.end = s - 1 /\ x.left \in Nat,
           Cost(SubSeq(w, s, acc.end)) <= acc.left,
           x.end > 0 => Cost(SubSeq(w, s, acc.end)) + x.left <= acc.left
    PROVE  x \in Taken(ms, limit)
<1>1. PICK e \in 1..Len(ms) : e = acc.end
  BY DEF TakeInv
<1>2. /\ Len(acc.view) = Len(ms) /\ acc.view \in Seq(CbMessage) /\ Len(w) = Len(ms)
      /\ acc.left \in Nat /\ Cost(Chosen(acc.view, acc.picked)) + acc.left <= limit
  BY <1>1 DEF TakeInv, TakeState, ViewOf
<1>3. s \in 1..e /\ s \in 1..Len(ms) /\ e \in s..Len(ms)
  BY <1>1 DEF IsBlock
<1>4. \A i \in s..e : i \notin acc.picked
  <2>1. \A i \in acc.picked : ms[i].role = "system" \/ i > e
    BY <1>1 DEF TakeInv, PickedOf
  <2>2. \A i \in s..e : ms[i].role # "system" /\ ~(i > e)
    BY <1>1, <1>3
  <2> QED  BY <2>1, <2>2
<1>5. Cost(Chosen(w, acc.picked \cup s..e)) = Cost(Chosen(acc.view, acc.picked)) + Cost(SubSeq(w, s, e))
  <2>1. PICK v, K : v = acc.view /\ K = acc.picked
    OBVIOUS
  <2>2. Extends(v, w, K, s, e)
    BY <1>1, <1>2, <1>3, <1>4, <2>1 DEF Extends
  <2>3. Cost(Chosen(w, K \cup s..e)) = Cost(Chosen(v, K)) + Cost(SubSeq(w, s, e))
    BY <2>2, CostOfPicking
  <2> QED  BY <2>1, <2>3
<1>6. /\ Cost(Chosen(acc.view, acc.picked)) \in Int
      /\ Cost(SubSeq(w, s, e)) \in Int
  <2>1. Chosen(acc.view, acc.picked) \in Seq(CbMessage)
    BY <1>2, ChosenType
  <2>2. SubSeq(w, s, e) \in Seq(CbMessage)
    BY <1>2, <1>3
  <2> QED  BY <2>1, <2>2, CostType
<1>7. s - 1 \in 0..Len(ms) /\ s - 1 < e /\ (s - 1 > 0 => Boundary(ms, s - 1))
  BY <1>1, BlockGone
<1>8. x.end \in 0..Len(ms) /\ x.end < s /\ (x.end > 0 => Boundary(ms, x.end))
  BY <1>3, <1>7
<1>9. \A i \in 1..x.end : w[i] = ms[i]
  <2>1. \A i \in 1..x.end : i \in 1..Len(ms) /\ i \notin s..e /\ i \in 1..e
    BY <1>3, <1>8
  <2> QED  BY <1>1, <2>1 DEF TakeInv
<1>10. PickedOf(ms, x.end, acc.picked \cup s..e)
  <2>1. Together(ms, acc.picked \cup s..e)
    BY <1>1, BlockTogether DEF TakeInv, PickedOf
  <2>2. /\ acc.picked \subseteq 1..Len(ms)
        /\ \A i \in acc.picked : ms[i].role = "system" \/ i > e
    BY <1>1 DEF TakeInv, PickedOf
  <2>3. s..e \subseteq 1..Len(ms) /\ \A i \in s..e : i > x.end
    BY <1>3, <1>8
  <2>4. \A i \in acc.picked : ms[i].role = "system" \/ i > x.end
    <3>1. \A i \in acc.picked : i \in Nat
      BY <2>2
    <3> QED  BY <1>3, <1>8, <2>2, <3>1
  <2> QED  BY <2>1, <2>2, <2>3, <2>4 DEF PickedOf
<1>11. Cost(Chosen(x.view, x.picked)) <= limit
  BY <1>1, <1>2, <1>5, <1>6
<1>12. x.end > 0 => x.left \in Nat /\ Cost(Chosen(x.view, x.picked)) + x.left <= limit
  BY <1>1, <1>2, <1>5, <1>6
<1>13. TakeInv(ms, limit, x)
  BY <1>1, <1>8, <1>9, <1>10, <1>11, <1>12 DEF TakeInv
<1> QED  BY <1>13 DEF Taken

\* The messages of a block.
BlockFacts(ms, s, e, block) ==
    /\ block \in Seq(CbMessage) /\ Len(block) = e - s + 1 /\ PlainResults(block)
    /\ \A i \in s..e : i - s + 1 \in 1..Len(block) /\ block[i - s + 1] = ms[i]
    /\ ~(\A i \in 1..Len(block) : block[i].role = "system") =>
           \A i \in s..e : ms[i].role # "system"
    /\ ~IsToolBlock(block) => s = e

\* The messages of a block, and that a block with a system message is that message alone.
LEMMA BlockIsPlain ==
    ASSUME NEW ms \in Seq(CbMessage), Grouped(ms), NEW e \in 1..Len(ms), NEW s, IsBlock(ms, s, e),
           NEW block, block = SubSeq(ms, s, e)
    PROVE  BlockFacts(ms, s, e, block)
<1>1. s \in 1..e /\ s \in Nat /\ e \in Nat /\ s..e \subseteq 1..Len(ms)
  BY DEF IsBlock
<1>2. /\ block \in Seq(CbMessage) /\ Len(block) = e - s + 1
      /\ \A i \in 1..e - s + 1 : block[i] = ms[s + i - 1]
  BY <1>1
<1>3. \A i \in s..e : i - s + 1 \in 1..Len(block) /\ block[i - s + 1] = ms[i]
  <2>1. ASSUME NEW i \in s..e PROVE i - s + 1 \in 1..e - s + 1 /\ s + (i - s + 1) - 1 = i
    BY <1>1
  <2> QED  BY <1>2, <2>1
<1>4. \A i \in 1..Len(block) : s + i - 1 \in s..e
  BY <1>1, <1>2
<1>5. \A i \in 1..Len(ms) : ms[i].role = "tool" => ms[i].calls = 0
  <2>1. \A i \in 1..Len(ms) : ms[i].calls \in Nat
    BY MessageFields
  <2> QED  BY <2>1 DEF Grouped
<1>6. PlainResults(block)
  <2>1. ASSUME NEW i \in 1..Len(block) PROVE block[i].role = "tool" => block[i].calls = 0
    <3>1. PICK j \in s..e : j = s + i - 1
      BY <1>4
    <3> QED  BY <1>1, <1>2, <1>5, <3>1
  <2> QED  BY <2>1 DEF PlainResults
<1>7. ASSUME NEW i \in s..e, ms[i].role = "system" PROVE \A j \in 1..Len(block) : block[j].role = "system"
  <2>1. s = e
    BY <1>7, BlockMembers
  <2>2. Len(block) = 1 /\ i = s /\ block[1] = ms[s]
    BY <1>1, <1>2, <1>3, <2>1
  <2> QED  BY <1>7, <2>2
<1>8. ASSUME s # e PROVE IsToolBlock(block)
  <2>1. ms[s].calls > 0
    BY <1>8 DEF IsBlock
  <2>2. s \in s..e /\ s - s + 1 = 1
    BY <1>1
  <2>3. 1 \in 1..Len(block) /\ block[1] = ms[s]
    BY <1>3, <2>2
  <2> QED  BY <2>1, <2>3 DEF IsToolBlock
<1> QED  BY <1>2, <1>3, <1>6, <1>7, <1>8 DEF BlockFacts

With(g, n, d, P, v) == [g EXCEPT !.end = n, !.left = d, !.picked = P, !.view = v]

LEMMA TakenState ==
    ASSUME NEW g \in TakeState, NEW n \in Nat, NEW d \in Int, NEW P \in SUBSET Nat,
           NEW v \in Seq(CbMessage)
    PROVE  /\ With(g, n, d, P, v) \in TakeState /\ With(g, n, d, P, v).ok = g.ok
           /\ With(g, n, d, P, v).end = n /\ With(g, n, d, P, v).left = d
           /\ With(g, n, d, P, v).picked = P /\ With(g, n, d, P, v).view = v
BY DEF TakeState, With

\* TakeBlock keeps what the loop of budget_chat_messages relies on.
LEMMA TakeStep ==
    ASSUME NEW ms \in Seq(CbMessage), Grouped(ms), NEW limit \in Nat, NEW acc \in Taken(ms, limit)
    PROVE  TakeBlock(ms, acc) \in Taken(ms, limit)
<1>1. acc \in TakeState /\ (acc.ok => TakeInv(ms, limit, acc)) /\ acc.end \in Nat /\ acc.ok \in BOOLEAN
  BY DEF Taken, TakeState
<1>2. CASE ~acc.ok \/ acc.end = 0
  BY <1>2 DEF TakeBlock
<1>3. CASE acc.ok /\ acc.end # 0
  <2>1. TakeInv(ms, limit, acc)
    BY <1>1, <1>3
  <2>2. PICK e \in 1..Len(ms) : e = acc.end
    BY <1>3, <2>1 DEF TakeInv
  <2>3. /\ Boundary(ms, e) /\ acc.left \in Nat /\ ViewOf(ms, acc.view) /\ Len(acc.view) = Len(ms)
        /\ \A i \in 1..e : acc.view[i] = ms[i]
    BY <2>1, <2>2 DEF TakeInv, ViewOf
  <2>31. acc.view \in Seq(CbMessage) /\ acc.picked \subseteq Nat /\ acc.picked \subseteq 1..Len(ms)
    BY <1>1, <2>1 DEF TakeState, TakeInv, PickedOf
  <2>4. PICK s : s = message_block_start(ms, e)
    OBVIOUS
  <2>5. IsBlock(ms, s, e)
    BY <2>3, <2>4, BlockStart DEF IsBlock
  <2>6. s \in 1..e /\ s \in 1..Len(ms) /\ s - 1 \in Nat /\ s..e \subseteq 1..Len(ms) /\ s..e \subseteq Nat
    BY <2>5 DEF IsBlock
  <2>7. PICK block : block = SubSeq(ms, s, e)
    OBVIOUS
  <2>80. BlockFacts(ms, s, e, block)
    BY <2>5, <2>7, BlockIsPlain
  <2>8. /\ block \in Seq(CbMessage) /\ Len(block) = e - s + 1 /\ PlainResults(block)
        /\ \A i \in s..e : i - s + 1 \in 1..Len(block) /\ block[i - s + 1] = ms[i]
        /\ ~(\A i \in 1..Len(block) : block[i].role = "system") => \A i \in s..e : ms[i].role # "system"
        /\ ~IsToolBlock(block) => s = e
    BY <2>80 DEF BlockFacts
  <2>9. PICK small : small = compact_tool_block(block, acc.left)
    OBVIOUS
  <2>10. PICK bare : bare = estimate_chat_message_tokens([ms[e] EXCEPT !.text = NoText])
    OBVIOUS
  <2>11. PICK gone : gone = [acc EXCEPT !.end = s - 1]
    OBVIOUS
  <2>12. gone \in Taken(ms, limit)
    BY <1>1, <1>3, <2>1, <2>2, <2>5, <2>11, BlockLeftOut
  <2>13. PICK y : y = TakeBlock(ms, acc)
    OBVIOUS
  <2> DEFINE plain == \A i \in 1..Len(block) : block[i].role = "system"
             newest == e = Len(ms) \/ acc.picked = {}
  <2>14. y = IF plain THEN gone
             ELSE IF Cost(block) <= acc.left
                  THEN [gone EXCEPT !.left = @ - Cost(block), !.picked = @ \cup s..e]
             ELSE IF ~newest THEN gone
             ELSE IF IsToolBlock(block)
                  THEN IF ~small.ok THEN [acc EXCEPT !.ok = FALSE]
                       ELSE [gone EXCEPT !.left = small.left, !.picked = @ \cup s..e,
                                         !.view = [i \in 1..Len(ms) |-> IF i \in s..e
                                                     THEN small.out[i - s + 1] ELSE @[i]]]
             ELSE IF bare >= acc.left THEN [acc EXCEPT !.ok = FALSE]
             ELSE [acc EXCEPT !.end = 0, !.picked = @ \cup {e},
                              !.view[e].text = truncate_to_tokens(@, acc.left - bare)]
    BY <1>3, <2>2, <2>4, <2>7, <2>9, <2>10, <2>11, <2>13 DEF TakeBlock
  <2>15. gone \in TakeState /\ gone.ok /\ gone.end = s - 1 /\ gone.view = acc.view
         /\ gone.picked = acc.picked /\ gone.left = acc.left
    BY <1>1, <1>3, <2>6, <2>11 DEF TakeState
  <2>16. CASE plain \/ (~(Cost(block) <= acc.left) /\ ~newest)
    BY <2>12, <2>13, <2>14, <2>16
  <2>17. CASE ~plain /\ Cost(block) <= acc.left
    <3>1. y = [gone EXCEPT !.left = @ - Cost(block), !.picked = @ \cup s..e]
      BY <2>14, <2>17
    <3>2. Cost(block) \in Int
      BY <2>8, CostType
    <3> HIDE DEF plain, newest
    <3>30. PICK d \in Nat : d = acc.left - Cost(block)
      BY <2>3, <2>17, <3>2
    <3>31. PICK P \in SUBSET Nat : P = acc.picked \cup s..e
      BY <2>31, <2>6
    <3>32. y = With(acc, s - 1, d, P, acc.view)
      BY <1>1, <2>11, <2>15, <3>1, <3>30, <3>31 DEF TakeState, With
    <3>33. /\ y \in TakeState /\ y.ok = acc.ok /\ y.view = acc.view /\ y.picked = P
           /\ y.end = s - 1 /\ y.left = d
      <4>1. d \in Int
        BY <3>30
      <4>2. PICK v \in Seq(CbMessage) : v = acc.view
        BY <2>31
      <4>3. PICK n \in Nat : n = s - 1
        BY <2>6
      <4>4. y = With(acc, n, d, P, v)
        BY <3>32, <4>2, <4>3
      <4>5. /\ y \in TakeState /\ y.ok = acc.ok /\ y.view = v /\ y.picked = P
            /\ y.end = n /\ y.left = d
        BY <1>1, <4>1, <4>4, TakenState
      <4> QED  BY <4>2, <4>3, <4>5
    <3>3. /\ y \in TakeState /\ y.ok /\ y.view = acc.view /\ y.picked = acc.picked \cup s..e
          /\ y.end = s - 1 /\ y.left = acc.left - Cost(block) /\ y.left \in Nat
      BY <1>3, <3>30, <3>31, <3>33
    <3>4. SubSeq(acc.view, s, e) = block
      <4>1. PICK v : v = acc.view
        OBVIOUS
      <4>2. SubSeq(v, s, e) = SubSeq(ms, s, e)
        BY <2>3, <2>31, <2>6, <4>1
      <4> QED  BY <2>7, <4>1, <4>2
    <3>5. \A i \in s..e : ms[i].role # "system"
      BY <2>8, <2>17 DEF plain
    <3>6. y.end \in 0..s - 1 /\ Cost(SubSeq(acc.view, s, e)) + y.left <= acc.left
      BY <2>3, <2>6, <2>17, <3>2, <3>3, <3>4
    <3> QED  BY <1>1, <1>3, <2>1, <2>2, <2>3, <2>31, <2>5, <2>13, <2>17, <3>3, <3>4, <3>5, <3>6, BlockTaken
  <2>171. [acc EXCEPT !.ok = FALSE] \in Taken(ms, limit)
    BY <1>1 DEF Taken, TakeState
  <2>172. PICK L \in Nat : L = acc.left
    BY <2>3
  <2>173. PICK P \in SUBSET Nat : P = acc.picked \cup s..e
    BY <2>31, <2>6
  <2>18. CASE ~plain /\ ~(Cost(block) <= acc.left) /\ newest /\ IsToolBlock(block)
    <3>0. \A i \in s..e : ms[i].role # "system"
      BY <2>8, <2>18 DEF plain
    <3>1. CASE ~small.ok
      BY <2>13, <2>14, <2>171, <2>18, <3>1
    <3>2. CASE small.ok
      <4>1. PICK out : out = small.out
        OBVIOUS
      <4>2. PICK d : d = small.left
        OBVIOUS
      <4>3. /\ out \in Seq(CbMessage) /\ Len(out) = Len(block) /\ d \in Nat /\ Cost(out) + d = L
            /\ \A i \in 1..Len(block) : SameShape(out[i], block[i])
        BY <2>8, <2>9, <2>172, <3>2, <4>1, <4>2, CompactBlock
      <4>4. PICK w : w = [i \in 1..Len(ms) |-> IF i \in s..e THEN out[i - s + 1] ELSE acc.view[i]]
        OBVIOUS
      <4>5. y = With(acc, s - 1, d, P, w)
        <5>1. y = [gone EXCEPT !.left = small.left, !.picked = @ \cup s..e,
                               !.view = [i \in 1..Len(ms) |-> IF i \in s..e
                                           THEN small.out[i - s + 1] ELSE @[i]]]
          BY <2>14, <2>18, <3>2
        <5>2. gone.view = acc.view /\ gone.picked = acc.picked
          BY <2>15
        <5>3. y = [gone EXCEPT !.left = d, !.picked = P, !.view = w]
          BY <2>173, <4>1, <4>2, <4>4, <5>1, <5>2
        <5> QED  BY <1>1, <2>11, <5>3 DEF TakeState, With
      <4> HIDE DEF plain, newest
      <4>6. ASSUME NEW i \in 1..Len(ms)
            PROVE  /\ w[i] \in CbMessage /\ SameShape(w[i], ms[i])
                   /\ i \notin s..e => w[i] = acc.view[i]
                   /\ i \in s..e => w[i] = out[i - s + 1]
        <5>1. CASE i \in s..e
          <6>1. w[i] = out[i - s + 1] /\ i - s + 1 \in 1..Len(block) /\ block[i - s + 1] = ms[i]
            BY <2>8, <4>4, <5>1
          <6>2. PICK k \in 1..Len(block) : k = i - s + 1
            BY <6>1
          <6>3. out[k] \in CbMessage /\ SameShape(out[k], block[k])
            BY <4>3, <6>2
          <6> QED  BY <5>1, <6>1, <6>2, <6>3
        <5>2. CASE i \notin s..e
          <6>1. w[i] = acc.view[i]
            BY <4>4, <5>2
          <6>2. acc.view[i] \in CbMessage /\ SameShape(acc.view[i], ms[i])
            BY <2>3, <2>31 DEF ViewOf
          <6> QED  BY <5>2, <6>1, <6>2
        <5> QED  BY <5>1, <5>2
      <4>7. w \in Seq(CbMessage) /\ Len(w) = Len(ms) /\ ViewOf(ms, w)
        <5>1. w \in [1..Len(ms) -> CbMessage]
          BY <4>4, <4>6
        <5>2. w \in Seq(CbMessage) /\ Len(w) = Len(ms)
          BY <4>4, <5>1
        <5> QED  BY <4>6, <5>2 DEF ViewOf
      <4>8. SubSeq(w, s, e) = out
        <5>1. PICK z : z = SubSeq(w, s, e)
          OBVIOUS
        <5>2. z \in Seq(CbMessage) /\ Len(z) = e - s + 1 /\ \A i \in 1..e - s + 1 : z[i] = w[s + i - 1]
          BY <2>6, <4>7, <5>1
        <5>3. ASSUME NEW i \in 1..e - s + 1 PROVE z[i] = out[i]
          <6>1. PICK j \in s..e : j = s + i - 1
            BY <2>6
          <6>2. j \in 1..Len(ms) /\ j - s + 1 = i
            BY <2>6, <6>1
          <6> QED  BY <4>6, <5>2, <6>1, <6>2
        <5>4. Len(out) = e - s + 1
          BY <2>8, <4>3
        <5> QED  BY <4>3, <5>1, <5>2, <5>3, <5>4, SeqEqual
      <4>9. d \in Int /\ s - 1 \in Nat
        BY <2>6, <4>3
      <4>10. /\ y \in TakeState /\ y.ok = acc.ok /\ y.view = w /\ y.picked = P
             /\ y.end = s - 1 /\ y.left = d
        <5>1. PICK n \in Nat : n = s - 1
          BY <4>9
        <5>2. y = With(acc, n, d, P, w)
          BY <4>5, <5>1
        <5> QED  BY <1>1, <4>7, <4>9, <5>1, <5>2, TakenState
      <4>11. /\ y.ok /\ y.picked = acc.picked \cup s..e /\ y.end \in 0..s - 1 /\ y.left \in Nat
             /\ Cost(SubSeq(w, s, e)) <= acc.left /\ Cost(SubSeq(w, s, e)) + y.left <= acc.left
        <5>1. Cost(out) \in Int
          BY <4>3, CostType
        <5> QED  BY <1>3, <2>172, <2>173, <2>6, <4>3, <4>8, <4>10, <5>1
      <4> QED  BY <1>1, <1>3, <2>1, <2>2, <2>5, <2>13, <3>0, <4>6, <4>7, <4>10, <4>11, BlockTaken
    <3> QED  BY <3>1, <3>2
  <2>19. CASE ~plain /\ ~(Cost(block) <= acc.left) /\ newest /\ ~IsToolBlock(block)
    <3>0. s = e /\ \A i \in s..e : ms[i].role # "system"
      BY <2>8, <2>19 DEF plain
    <3>1. CASE bare >= acc.left
      BY <2>13, <2>14, <2>171, <2>19, <3>1
    <3>2. CASE ~(bare >= acc.left)
      <4>1. PICK m \in CbMessage : m = ms[e]
        OBVIOUS
      <4>2. acc.view[e] = m
        BY <2>3, <4>1
      <4>3. bare \in Nat /\ bare = Framing + PerCall * m.calls /\ PerCall * m.calls \in Nat /\ Framing \in Nat
        <5>1. PICK b : b = [m EXCEPT !.text = NoText]
          OBVIOUS
        <5>2. b \in CbMessage /\ b.text.size = 0 /\ b.calls = m.calls
          <6>1. NoText \in CbText /\ NoText.size = 0
            BY DEF CbText, NoText
          <6>2. b \in CbMessage /\ b.text = NoText /\ b.calls = m.calls
            BY <5>1, <6>1 DEF CbMessage
          <6> QED  BY <6>1, <6>2
        <5>3. estimate_chat_message_tokens(b) \in Nat /\ PerCall * m.calls \in Nat /\ Framing \in Nat
          BY <5>2, EstimateType, WindowAssumption
        <5> QED  BY <2>10, <4>1, <5>1, <5>2, <5>3 DEF estimate_chat_message_tokens
      <4>4. PICK room \in Nat : room = L - bare
        BY <2>172, <3>2, <4>3
      <4>5. PICK t : t = truncate_to_tokens(m.text, room)
        OBVIOUS
      <4>6. t \in CbText /\ t.size <= room /\ t.size \in Nat
        <5>1. m.text \in CbText
          BY DEF CbMessage
        <5>2. t \in CbText /\ t.size <= room
          BY <4>5, <5>1, Truncation
        <5> QED  BY <5>2 DEF CbText
      <4>7. PICK cut : cut = [m EXCEPT !.text = t]
        OBVIOUS
      <4>8. cut \in CbMessage /\ SameShape(cut, m) /\ cut.text = t /\ cut.calls = m.calls
        BY <4>6, <4>7 DEF CbMessage, SameShape
      <4>9. estimate_chat_message_tokens(cut) \in Nat /\ estimate_chat_message_tokens(cut) <= L
        <5>1. PICK c \in Nat : c = PerCall * m.calls
          BY <4>3
        <5>2. estimate_chat_message_tokens(cut) = Framing + t.size + c
          BY <4>8, <5>1 DEF estimate_chat_message_tokens
        <5>3. bare = Framing + c /\ Framing \in Nat
          BY <4>3, <5>1
        <5> QED  BY <4>4, <4>6, <5>2, <5>3
      <4>10. PICK w : w = [acc.view EXCEPT ![e] = cut]
        OBVIOUS
      <4>11. y = With(acc, 0, L, P, w)
        <5>1. y = [acc EXCEPT !.end = 0, !.picked = @ \cup {e},
                              !.view[e].text = truncate_to_tokens(@, acc.left - bare)]
          BY <2>14, <2>19, <3>2
        <5>2. y = [acc EXCEPT !.end = 0, !.picked = acc.picked \cup {e},
                              !.view = [acc.view EXCEPT ![e] = [acc.view[e] EXCEPT
                                   !.text = truncate_to_tokens(acc.view[e].text, acc.left - bare)]]]
          BY <5>1
        <5>3. w = [acc.view EXCEPT ![e] = [acc.view[e] EXCEPT
                                   !.text = truncate_to_tokens(acc.view[e].text, acc.left - bare)]]
          BY <2>172, <4>2, <4>4, <4>5, <4>7, <4>10
        <5>4. P = acc.picked \cup {e}
          BY <2>173, <3>0
        <5>5. y = [acc EXCEPT !.end = 0, !.picked = P, !.view = w]
          BY <5>2, <5>3, <5>4
        <5> QED  BY <1>1, <2>172, <5>5 DEF TakeState, With
      <4> HIDE DEF plain, newest
      <4>12. /\ w \in Seq(CbMessage) /\ Len(w) = Len(ms) /\ w[e] = cut
             /\ \A i \in 1..Len(ms) : i # e => w[i] = acc.view[i]
        BY <2>3, <2>31, <4>8, <4>10
      <4>13. ViewOf(ms, w) /\ \A i \in 1..Len(ms) : i \notin s..e => w[i] = acc.view[i]
        <5>1. \A i \in 1..Len(ms) : SameShape(w[i], ms[i])
          BY <2>3, <4>1, <4>8, <4>12 DEF ViewOf
        <5> QED  BY <3>0, <4>12, <5>1 DEF ViewOf
      <4>14. Cost(SubSeq(w, s, e)) = estimate_chat_message_tokens(cut)
        <5>1. SubSeq(w, s, e) = Append(<<>>, cut)
          <6>1. e - e + 1 = 1 /\ e + 1 - 1 = e
            OBVIOUS
          <6>2. SubSeq(w, e, e) = <<cut>>
            <7>1. PICK z : z = SubSeq(w, e, e)
              OBVIOUS
            <7>2. z \in Seq(CbMessage) /\ Len(z) = 1 /\ z[1] = cut
              BY <4>12, <7>1
            <7>3. PICK u : u = <<cut>>
              OBVIOUS
            <7>4. u \in Seq(CbMessage) /\ Len(u) = 1 /\ u[1] = cut
              BY <4>8, <7>3
            <7>5. \A i \in 1..1 : i = 1
              OBVIOUS
            <7>6. \A i \in 1..Len(z) : z[i] = u[i]
              BY <7>2, <7>4, <7>5
            <7> QED  BY <7>1, <7>2, <7>3, <7>4, <7>6, SeqEqual
          <6>3. Append(<<>>, cut) = <<cut>>
            OBVIOUS
          <6> QED  BY <3>0, <6>2, <6>3
        <5>2. Cost(Append(<<>>, cut)) = Cost(<<>>) + estimate_chat_message_tokens(cut)
          <6>0. <<>> \in Seq(CbMessage)
            OBVIOUS
          <6>1. PICK none \in Seq(CbMessage) : none = <<>>
            BY <6>0
          <6> QED  BY <4>8, <6>1, CostAppend
        <5> QED  BY <4>9, <5>1, <5>2, CostOfNone
      <4>15. L \in Int /\ 0 \in Nat
        OBVIOUS
      <4>16. /\ y \in TakeState /\ y.ok = acc.ok /\ y.view = w /\ y.picked = P /\ y.end = 0
        BY <1>1, <4>11, <4>12, <4>15, TakenState
      <4>17. /\ y.ok /\ y.picked = acc.picked \cup s..e /\ y.end \in 0..s - 1 /\ ~(y.end > 0)
             /\ Cost(SubSeq(w, s, e)) <= acc.left
        BY <1>3, <2>172, <2>173, <2>6, <4>9, <4>14, <4>16
      <4> QED  BY <1>1, <1>3, <2>1, <2>2, <2>5, <2>13, <3>0, <4>12, <4>13, <4>16, <4>17, BlockTaken
    <3> QED  BY <3>1, <3>2
  <2> QED  BY <2>16, <2>17, <2>18, <2>19
<1> QED  BY <1>1, <1>2, <1>3

\* What is kept of a grouped sequence is grouped when calls and results are
\* kept together.
LEMMA GroupedChosen ==
    ASSUME NEW v \in Seq(CbMessage), Grouped(v), NEW K, Together(v, K)
    PROVE  Grouped(Chosen(v, K))
<1>1. PICK c : c = Chosen(v, K)
  OBVIOUS
<1>2. PICK N \in Nat : N = Len(v)
  OBVIOUS
<1>3. c \in Seq(CbMessage)
  BY <1>1, ChosenType
<1>4. SubSeq(v, 1, N) = v
  BY <1>2, FirstElements
<1>5. /\ \A i \in 1..N : i \in K => Place(v, K, i) \in 1..Len(c) /\ c[Place(v, K, i)] = v[i]
      /\ \A k \in 1..Len(c) : \E i \in 1..N : i \in K /\ Place(v, K, i) = k
  <2>1. Placed(v, K, N)
    BY <1>2, ChosenPlaces
  <2> QED  BY <1>1, <1>4, <2>1 DEF Placed
<1>6. ASSUME NEW a \in 1..N, a \in K, v[a].calls > 0
      PROVE  /\ a + v[a].calls <= N
             /\ \A j \in 0..v[a].calls : a + j \in K /\ a + j \in 1..N
                                         /\ Place(v, K, a + j) = Place(v, K, a) + j
  <2>1. PICK m \in Nat : m = v[a].calls
    BY <1>2, MessageFields
  <2>2. a + m <= N
    BY <1>2, <1>6, <2>1 DEF Grouped
  <2>3. \A i \in a..a + m : i \in K
    BY <1>2, <1>6, <2>1 DEF Together
  <2>4. \A j \in 0..m : Place(v, K, a + j) = Place(v, K, a) + j
    <3>1. InARow(v, K, a, m)
      BY <1>2, <2>2, <2>3 DEF InARow
    <3> QED  BY <3>1, PlacesInARow
  <2>5. \A j \in 0..m : a + j \in a..a + m /\ a + j \in 1..N
    BY <2>2
  <2> QED  BY <2>1, <2>2, <2>3, <2>4, <2>5
<1>7. ASSUME NEW k \in 1..Len(c), c[k].calls > 0
      PROVE  /\ c[k].role = "assistant" /\ k + c[k].calls <= Len(c)
             /\ \A j \in k + 1..k + c[k].calls : c[j].role = "tool" /\ c[j].round = c[k].round
  <2>1. PICK i \in 1..N : i \in K /\ Place(v, K, i) = k
    BY <1>5
  <2>2. c[k] = v[i]
    BY <1>5, <2>1
  <2>3. PICK m \in Nat : m = v[i].calls
    BY <1>2, MessageFields
  <2>4. m > 0
    BY <1>7, <2>2, <2>3
  <2>5. v[i].role = "assistant" /\ \A j \in i + 1..i + m : v[j].role = "tool" /\ v[j].round = v[i].round
    BY <1>2, <2>3, <2>4 DEF Grouped
  <2>6. \A j \in 0..m : i + j \in K /\ i + j \in 1..N /\ Place(v, K, i + j) = k + j
    BY <1>6, <2>1, <2>3, <2>4
  <2>7. \A j \in 0..m : k + j \in 1..Len(c) /\ c[k + j] = v[i + j]
    BY <1>5, <2>6
  <2>8. k + m <= Len(c)
    <3>1. m \in 0..m
      OBVIOUS
    <3>2. k + m \in 1..Len(c)
      BY <2>7, <3>1
    <3> QED  BY <3>2
  <2>9. ASSUME NEW j \in k + 1..k + m PROVE c[j].role = "tool" /\ c[j].round = c[k].round
    <3>1. PICK d \in 0..m : d = j - k
      OBVIOUS
    <3>2. k + d = j /\ i + d \in i + 1..i + m
      BY <3>1
    <3> QED  BY <2>2, <2>5, <2>7, <3>2
  <2> QED  BY <2>2, <2>3, <2>5, <2>8, <2>9
<1>8. ASSUME NEW k \in 1..Len(c), c[k].role = "tool"
      PROVE  \E a \in 1..k - 1 : c[a].calls > 0 /\ k <= a + c[a].calls
  <2>1. PICK i \in 1..N : i \in K /\ Place(v, K, i) = k
    BY <1>5
  <2>2. c[k] = v[i]
    BY <1>5, <2>1
  <2>3. PICK a \in 1..i - 1 : v[a].calls > 0 /\ i <= a + v[a].calls
    BY <1>2, <1>8, <2>2 DEF Grouped
  <2>4. a \in 1..N
    BY <2>3
  <2>5. PICK m \in Nat : m = v[a].calls
    BY <1>2, <2>4, MessageFields
  <2>6. i \in a..a + m /\ i \in a..a + v[a].calls
    BY <2>3, <2>5
  <2>7. a \in K
    BY <1>2, <2>1, <2>3, <2>4, <2>6 DEF Together
  <2>8. PICK d \in 0..m : d = i - a
    BY <2>3, <2>5
  <2>9. \A j \in 0..m : Place(v, K, a + j) = Place(v, K, a) + j
    BY <1>6, <2>3, <2>4, <2>5, <2>7
  <2>10. a + d = i
    BY <2>8
  <2>11. PICK p \in 1..Len(c) : p = Place(v, K, a) /\ c[p] = v[a]
    BY <1>5, <2>4, <2>7
  <2>12. k = p + d
    BY <2>1, <2>9, <2>10, <2>11
  <2>13. p \in 1..k - 1 /\ k <= p + m
    BY <2>3, <2>8, <2>12
  <2>14. c[p].calls = m /\ c[p].calls > 0
    BY <2>3, <2>5, <2>11
  <2> QED  BY <2>13, <2>14
<1>9. Grouped(c)
  BY <1>7, <1>8 DEF Grouped
<1> QED  BY <1>1, <1>9

\* Messages of the same shape are grouped alike.
LEMMA SameGroups ==
    ASSUME NEW ms \in Seq(CbMessage), NEW v \in Seq(CbMessage), ViewOf(ms, v), Grouped(ms),
           NEW K, Together(ms, K)
    PROVE  Grouped(v) /\ Together(v, K)
<1>1. Len(v) = Len(ms)
      /\ \A i \in 1..Len(ms) : v[i].role = ms[i].role /\ v[i].round = ms[i].round /\ v[i].calls = ms[i].calls
  BY DEF ViewOf, SameShape
<1>2. Together(v, K)
  BY <1>1 DEF Together
<1>3. ASSUME NEW i \in 1..Len(v), v[i].calls > 0
      PROVE  /\ v[i].role = "assistant" /\ i + v[i].calls <= Len(v)
             /\ \A j \in i + 1..i + v[i].calls : v[j].role = "tool" /\ v[j].round = v[i].round
  <2>1. PICK m \in Nat : m = ms[i].calls
    BY <1>1, MessageFields
  <2>2. i \in 1..Len(ms) /\ m > 0 /\ v[i].calls = m
    BY <1>1, <1>3, <2>1
  <2>3. /\ ms[i].role = "assistant" /\ i + m <= Len(ms)
        /\ \A j \in i + 1..i + m : ms[j].role = "tool" /\ ms[j].round = ms[i].round
    BY <2>1, <2>2 DEF Grouped
  <2>4. \A j \in i + 1..i + m : j \in 1..Len(ms)
    BY <2>2, <2>3
  <2> QED  BY <1>1, <2>2, <2>3, <2>4
<1>4. ASSUME NEW i \in 1..Len(v), v[i].role = "tool"
      PROVE  \E a \in 1..i - 1 : v[a].calls > 0 /\ i <= a + v[a].calls
  <2>1. i \in 1..Len(ms) /\ ms[i].role = "tool"
    BY <1>1, <1>4
  <2>2. PICK a \in 1..i - 1 : ms[a].calls > 0 /\ i <= a + ms[a].calls
    BY <2>1 DEF Grouped
  <2>3. a \in 1..Len(ms)
    BY <2>1, <2>2
  <2> QED  BY <1>1, <2>2, <2>3
<1> QED  BY <1>2, <1>3, <1>4 DEF Grouped

\* What the loop has taken when it ends.
LEMMA TakenIsGrouped ==
    ASSUME NEW ms \in Seq(CbMessage), Grouped(ms), NEW limit \in Nat,
           NEW acc \in Taken(ms, limit), acc.ok
    PROVE  LET out == Chosen(acc.view, acc.picked)
           IN  out \in Seq(CbMessage) /\ Grouped(out) /\ Cost(out) <= limit
<1>1. acc \in TakeState /\ TakeInv(ms, limit, acc)
  BY DEF Taken
<1>2. PICK v, K : v = acc.view /\ K = acc.picked
  OBVIOUS
<1>3. v \in Seq(CbMessage) /\ ViewOf(ms, v) /\ Together(ms, K) /\ Cost(Chosen(v, K)) <= limit
  BY <1>1, <1>2 DEF TakeState, TakeInv, PickedOf
<1>4. Grouped(v) /\ Together(v, K)
  BY <1>3, SameGroups
<1>5. Chosen(v, K) \in Seq(CbMessage) /\ Grouped(Chosen(v, K))
  BY <1>3, <1>4, ChosenType, GroupedChosen
<1> QED  BY <1>2, <1>3, <1>5

Systems(ms) == {i \in 1..Len(ms) : ms[i].role = "system"}

\* What the loop of budget_chat_messages starts with.
TakeFirst(ms, limit) ==
    [ok |-> Cost(Chosen(ms, Systems(ms))) <= limit, end |-> Len(ms),
     left |-> limit - Cost(Chosen(ms, Systems(ms))), view |-> ms, picked |-> Systems(ms)]

TakeUpTo(ms, limit, f) ==
    f = [n \in 0..Len(ms) |-> IF n = 0 THEN TakeFirst(ms, limit) ELSE TakeBlock(ms, f[n - 1])]

\* The loop starts with the system messages, when they fit.
LEMMA FirstIsTaken ==
    ASSUME NEW ms \in Seq(CbMessage), Grouped(ms), NEW limit \in Nat
    PROVE  TakeFirst(ms, limit) \in Taken(ms, limit)
<1>1. PICK K : K = Systems(ms)
  OBVIOUS
<1>2. K \subseteq 1..Len(ms) /\ K \in SUBSET Nat /\ \A i \in 1..Len(ms) : i \in K <=> ms[i].role = "system"
  BY <1>1 DEF Systems
<1>3. PICK forced : forced = Cost(Chosen(ms, K))
  OBVIOUS
<1>4. forced \in Int
  <2>1. Chosen(ms, K) \in Seq(CbMessage)
    BY ChosenType
  <2> QED  BY <1>3, <2>1, CostType
<1>5. PICK x : x = TakeFirst(ms, limit)
  OBVIOUS
<1>6. /\ x.end = Len(ms) /\ x.left = limit - forced
      /\ x.view = ms /\ x.picked = K
  BY <1>1, <1>3, <1>5 DEF TakeFirst
<1>7. x \in TakeState
  <2>1. PICK b \in BOOLEAN : b <=> (forced <= limit)
    <3>1. CASE forced <= limit
      BY <3>1
    <3>2. CASE ~(forced <= limit)
      BY <3>2
    <3> QED  BY <3>1, <3>2
  <2>2. PICK d \in Int : d = limit - forced
    BY <1>4
  <2>3. x = [ok |-> b, end |-> Len(ms), left |-> d, view |-> ms, picked |-> K]
    BY <1>1, <1>3, <1>5, <2>1, <2>2 DEF TakeFirst
  <2> QED  BY <1>2, <2>3 DEF TakeState
<1>8. ASSUME x.ok PROVE TakeInv(ms, limit, x)
  <2>0. forced <= limit
    BY <1>1, <1>3, <1>5, <1>8 DEF TakeFirst
  <2>1. forced <= limit /\ x.left \in Nat /\ forced + x.left <= limit
    BY <1>4, <1>6, <2>0
  <2>2. Boundary(ms, Len(ms)) /\ Len(ms) \in 0..Len(ms)
    BY DEF Boundary
  <2>3. ViewOf(ms, ms)
    BY DEF ViewOf, SameShape
  <2>4. Together(ms, K)
    <3>1. ASSUME NEW a \in 1..Len(ms), ms[a].calls > 0, NEW j \in a..a + ms[a].calls
          PROVE  j \in K <=> a \in K
      <4>1. PICK m \in Nat : m = ms[a].calls
        BY MessageFields
      <4>2. /\ ms[a].role = "assistant" /\ a + m <= Len(ms)
            /\ \A i \in a + 1..a + m : ms[i].role = "tool"
        BY <3>1, <4>1 DEF Grouped
      <4>3. j = a \/ (j \in a + 1..a + m /\ j \in 1..Len(ms))
        BY <3>1, <4>1, <4>2
      <4> QED  BY <1>2, <4>2, <4>3
    <3> QED  BY <3>1 DEF Together
  <2>5. PickedOf(ms, Len(ms), K)
    BY <1>2, <2>4 DEF PickedOf
  <2> QED  BY <1>3, <1>6, <2>1, <2>2, <2>3, <2>5 DEF TakeInv
<1> QED  BY <1>5, <1>7, <1>8 DEF Taken

\* The loop of budget_chat_messages is one.
LEMMA TakeLoop ==
    ASSUME NEW ms \in Seq(CbMessage), Grouped(ms), NEW limit \in Nat
    PROVE  \E f : TakeUpTo(ms, limit, f) /\ \A h : TakeUpTo(ms, limit, h) => h[Len(ms)] \in Taken(ms, limit)
<1>1. PICK N \in Nat : N = Len(ms)
  OBVIOUS
<1>2. PICK b : b = TakeFirst(ms, limit)
  OBVIOUS
<1>3. PICK V : V = Taken(ms, limit)
  OBVIOUS
<1>4. PICK g : g = [n \in 1..N |-> [v \in V |-> TakeBlock(ms, v)]]
  OBVIOUS
<1>5. b \in V
  BY <1>2, <1>3, FirstIsTaken
<1>6. g \in Rounds(N, V)
  <2>1. ASSUME NEW v \in V PROVE TakeBlock(ms, v) \in V
    BY <1>3, TakeStep
  <2> QED  BY <1>4, <2>1 DEF Rounds
<1>7. PICK f : IsLoop(f, N, V, b, g)
  BY <1>5, <1>6, LoopExists
<1>8. /\ f \in [0..N -> V] /\ f[0] = b
      /\ \A n \in 1..N : f[n] = TakeBlock(ms, f[n - 1])
  BY <1>4, <1>7 DEF IsLoop
<1>9. TakeUpTo(ms, limit, f)
  BY <1>1, <1>2, <1>8 DEF TakeUpTo
<1>10. ASSUME NEW h, TakeUpTo(ms, limit, h) PROVE h[N] \in V
  <2>1. h = [n \in 0..N |-> IF n = 0 THEN b ELSE TakeBlock(ms, h[n - 1])]
    BY <1>1, <1>2, <1>10 DEF TakeUpTo
  <2>2. h[0] = b
    BY <2>1
  <2>3. ASSUME NEW n \in 1..N PROVE h[n] = TakeBlock(ms, h[n - 1])
    BY <2>1
  <2>4. Alike(h, f, N)
    BY <1>8, <2>2, <2>3 DEF Alike
  <2>5. h[N] = f[N]
    BY <2>4, LoopUnique
  <2> QED  BY <1>8, <2>5
<1> QED  BY <1>1, <1>3, <1>9, <1>10

\* What budget_chat_messages makes of a grouped history is grouped and within
\* the limit.
LEMMA BudgetIsKept ==
    ASSUME NEW ms \in Seq(CbMessage), Grouped(ms), NEW limit \in Nat,
           budget_chat_messages(ms, limit).ok
    PROVE  LET out == budget_chat_messages(ms, limit).out
           IN  out \in Seq(CbMessage) /\ Grouped(out) /\ Cost(out) <= limit
<1>1. CASE Cost(ms) <= limit
  BY <1>1 DEF budget_chat_messages
<1>2. CASE ~(Cost(ms) <= limit)
  <2> DEFINE loop == CHOOSE f : TakeUpTo(ms, limit, f)
  <2>1. TakeUpTo(ms, limit, loop) /\ loop[Len(ms)] \in Taken(ms, limit)
    <3>1. TakeUpTo(ms, limit, loop)
      BY TakeLoop
    <3> HIDE DEF loop
    <3> QED  BY <3>1, TakeLoop
  <2>2. budget_chat_messages(ms, limit) =
           [ok |-> loop[Len(ms)].ok, out |-> Chosen(loop[Len(ms)].view, loop[Len(ms)].picked)]
    BY <1>2 DEF budget_chat_messages, TakeUpTo, TakeFirst, Systems
  <2> HIDE DEF loop
  <2>3. PICK acc : acc = loop[Len(ms)]
    OBVIOUS
  <2>4. acc \in Taken(ms, limit) /\ acc.ok /\ budget_chat_messages(ms, limit).out = Chosen(acc.view, acc.picked)
    BY <2>1, <2>2, <2>3
  <2> QED  BY <2>4, TakenIsGrouped
<1> QED  BY <1>1, <1>2

-----------------------------------------------------------------------------
(* The context: the request is in it, whatever else is cut.                *)

CbSources == {"security", "system", "domain", "permission", "current_request", "mailbox",
              "recent_turn", "tool_evidence", "explicit_memory", "historical_summary"}
CbItem == [source : CbSources, text : CbText]

HasRequest(items) == \E i \in 1..Len(items) : items[i].source = "current_request"

CtxState == [used : Nat, taken : Seq(CbItem), blocked : BOOLEAN]

Added(acc, it, text) ==
    [acc EXCEPT !.used = @ + text.size, !.taken = Append(@, [it EXCEPT !.text = text])]

\* An item that goes in, cut or whole.
LEMMA ItemAdded ==
    ASSUME NEW acc \in CtxState, NEW it \in CbItem, NEW text \in CbText
    PROVE  /\ Added(acc, it, text) \in CtxState
           /\ HasRequest(acc.taken) => HasRequest(Added(acc, it, text).taken)
           /\ it.source = "current_request" => HasRequest(Added(acc, it, text).taken)
<1>1. PICK new : new = [it EXCEPT !.text = text]
  OBVIOUS
<1>2. new \in CbItem /\ new.source = it.source
  BY <1>1 DEF CbItem
<1>3. PICK t \in Seq(CbItem) : t = acc.taken
  BY DEF CtxState
<1>4. PICK u : u = Append(t, new)
  OBVIOUS
<1>5. /\ u \in Seq(CbItem) /\ Len(u) = Len(t) + 1 /\ u[Len(t) + 1] = new
      /\ \A i \in 1..Len(t) : u[i] = t[i]
  BY <1>2, <1>4
<1>6. acc.used \in Nat /\ text.size \in Nat
  BY DEF CtxState, CbText
<1>7. PICK n \in Nat : n = acc.used + text.size
  BY <1>6
<1>8. Added(acc, it, text) = [acc EXCEPT !.used = n, !.taken = u]
  BY <1>1, <1>3, <1>4, <1>7 DEF Added
<1>9. Added(acc, it, text) \in CtxState /\ Added(acc, it, text).taken = u
  BY <1>5, <1>8 DEF CtxState
<1>10. HasRequest(t) => HasRequest(u)
  BY <1>5 DEF HasRequest
<1>11. new.source = "current_request" => HasRequest(u)
  BY <1>5 DEF HasRequest
<1> QED  BY <1>2, <1>3, <1>9, <1>10, <1>11

\* include_item: the request always goes in, and stays in.
LEMMA ItemIncluded ==
    ASSUME NEW acc \in CtxState, NEW it \in CbItem, NEW limit \in Nat
    PROVE  /\ include_item(acc, it, limit) \in CtxState
           /\ HasRequest(acc.taken) => HasRequest(include_item(acc, it, limit).taken)
           /\ it.source = "current_request" => HasRequest(include_item(acc, it, limit).taken)
<1>1. PICK left \in Nat : left = IF acc.used > limit THEN 0 ELSE limit - acc.used
  <2>1. acc.used \in Nat
    BY DEF CtxState
  <2> QED  BY <2>1
<1>2. PICK cut : cut = truncate_to_tokens(it.text, left)
  OBVIOUS
<1>3. it.text \in CbText
  BY DEF CbItem
<1>4. cut \in CbText
  BY <1>2, <1>3, Truncation
<1>5. include_item(acc, it, limit) =
         CASE is_required(it.source) -> Added(acc, it, it.text)
           [] it.source = "recent_turn" ->
                 IF acc.blocked \/ it.text.size > left
                 THEN [acc EXCEPT !.blocked = TRUE] ELSE Added(acc, it, it.text)
           [] OTHER -> IF cut.size = 0 /\ it.text.size > 0 THEN acc ELSE Added(acc, it, cut)
  BY <1>1, <1>2 DEF include_item, Added
<1>6. [acc EXCEPT !.blocked = TRUE] \in CtxState /\ [acc EXCEPT !.blocked = TRUE].taken = acc.taken
  BY DEF CtxState
<1>7. CASE is_required(it.source)
  <2>1. it.source # "recent_turn"
    BY <1>7 DEF is_required
  <2>2. include_item(acc, it, limit) = Added(acc, it, it.text)
    BY <1>5, <1>7, <2>1
  <2> QED  BY <1>3, <2>2, ItemAdded
<1>8. CASE ~is_required(it.source)
  <2>1. it.source # "current_request"
    BY <1>8 DEF is_required
  <2>2. include_item(acc, it, limit) \in {[acc EXCEPT !.blocked = TRUE], Added(acc, it, it.text), acc, Added(acc, it, cut)}
    BY <1>5, <1>8
  <2> QED  BY <1>3, <1>4, <1>6, <2>1, <2>2, ItemAdded
<1> QED  BY <1>7, <1>8

CtxFirst == [used |-> 0, taken |-> <<>>, blocked |-> FALSE]

CtxUpTo(items, order, limit, f) ==
    f = [n \in 0..Len(order) |-> IF n = 0 THEN CtxFirst
                                 ELSE include_item(f[n - 1], items[order[n]], limit)]

\* The loop of budget_context is one.
LEMMA ContextLoop ==
    ASSUME NEW items \in Seq(CbItem), NEW order \in Seq(1..Len(items)), NEW limit \in Nat
    PROVE  /\ \E f : CtxUpTo(items, order, limit, f)
           /\ \A h : CtxUpTo(items, order, limit, h) =>
                 /\ \A n \in 0..Len(order) : h[n] \in CtxState
                 /\ h[0] = CtxFirst
                 /\ \A n \in 1..Len(order) : h[n] = include_item(h[n - 1], items[order[n]], limit)
<1>1. PICK N \in Nat : N = Len(order)
  OBVIOUS
<1>2. PICK g : g = [n \in 1..N |-> [v \in CtxState |-> include_item(v, items[order[n]], limit)]]
  OBVIOUS
<1>3. CtxFirst \in CtxState
  BY DEF CtxFirst, CtxState
<1>4. g \in Rounds(N, CtxState)
  <2>1. ASSUME NEW n \in 1..N, NEW v \in CtxState PROVE include_item(v, items[order[n]], limit) \in CtxState
    <3>1. order[n] \in 1..Len(items)
      BY <1>1
    <3>2. items[order[n]] \in CbItem
      BY <3>1
    <3> QED  BY <3>2, ItemIncluded
  <2> QED  BY <1>2, <2>1 DEF Rounds
<1>5. PICK b : b = CtxFirst
  OBVIOUS
<1>6. PICK f : IsLoop(f, N, CtxState, b, g)
  BY <1>3, <1>4, <1>5, LoopExists
<1>7. /\ f \in [0..N -> CtxState] /\ f[0] = b
      /\ \A n \in 1..N : f[n] = include_item(f[n - 1], items[order[n]], limit)
  BY <1>2, <1>6 DEF IsLoop
<1>8. CtxUpTo(items, order, limit, f)
  BY <1>1, <1>5, <1>7 DEF CtxUpTo
<1>9. ASSUME NEW h, CtxUpTo(items, order, limit, h)
      PROVE  /\ \A n \in 0..N : h[n] \in CtxState
             /\ h[0] = CtxFirst
             /\ \A n \in 1..N : h[n] = include_item(h[n - 1], items[order[n]], limit)
  <2>1. h = [n \in 0..N |-> IF n = 0 THEN b ELSE include_item(h[n - 1], items[order[n]], limit)]
    BY <1>1, <1>5, <1>9 DEF CtxUpTo
  <2>2. h[0] = b
    BY <2>1
  <2>3. ASSUME NEW n \in 1..N PROVE h[n] = include_item(h[n - 1], items[order[n]], limit)
    BY <2>1
  <2>4. Alike(h, f, N)
    BY <1>7, <2>2, <2>3 DEF Alike
  <2>5. \A n \in 0..N : h[n] = f[n]
    BY <2>4, LoopUnique
  <2> QED  BY <1>5, <1>7, <2>2, <2>3, <2>5
<1> QED  BY <1>1, <1>8, <1>9

Holds(s, x) == \E i \in 1..Len(s) : s[i] = x

\* The elements of a concatenation.
LEMMA ConcatParts ==
    ASSUME NEW S, NEW a \in Seq(S), NEW b \in Seq(S)
    PROVE  /\ a \o b \in Seq(S) /\ Len(a \o b) = Len(a) + Len(b)
           /\ \A i \in 1..Len(a) : (a \o b)[i] = a[i]
           /\ \A i \in 1..Len(b) : (a \o b)[Len(a) + i] = b[i]
           /\ \A x : Holds(a, x) \/ Holds(b, x) => Holds(a \o b, x)
<1>1. PICK c : c = a \o b
  OBVIOUS
<1>2. /\ c \in Seq(S) /\ Len(c) = Len(a) + Len(b)
      /\ \A i \in 1..Len(a) : c[i] = a[i]
      /\ \A i \in 1..Len(b) : c[Len(a) + i] = b[i]
  BY <1>1
<1>3. ASSUME NEW x, Holds(a, x) PROVE Holds(c, x)
  BY <1>2, <1>3 DEF Holds
<1>4. ASSUME NEW x, Holds(b, x) PROVE Holds(c, x)
  <2>1. PICK i \in 1..Len(b) : b[i] = x
    BY <1>4 DEF Holds
  <2>2. Len(a) + i \in 1..Len(c) /\ c[Len(a) + i] = x
    BY <1>2, <2>1
  <2> QED  BY <2>2 DEF Holds
<1> QED  BY <1>1, <1>2, <1>3, <1>4

\* The positions of the items of one priority.
Ranked(items, p) ==
    Chosen([i \in 1..Len(items) |-> i], {i \in 1..Len(items) : priority(items[i].source) = p})

\* The items of one priority, all of them.
LEMMA RankedType ==
    ASSUME NEW items \in Seq(CbItem), NEW p
    PROVE  /\ Ranked(items, p) \in Seq(1..Len(items))
           /\ \A r \in 1..Len(items) : priority(items[r].source) = p =>
                 Holds(Ranked(items, p), r)
<1>1. PICK N \in Nat : N = Len(items)
  OBVIOUS
<1>2. PICK s : s = [i \in 1..N |-> i]
  OBVIOUS
<1>3. s \in Seq(1..N) /\ Len(s) = N /\ \A i \in 1..N : s[i] = i
  BY <1>2
<1>4. PICK K : K = {i \in 1..N : priority(items[i].source) = p}
  OBVIOUS
<1>5. PICK c : c = Chosen(s, K)
  OBVIOUS
<1>6. c = Ranked(items, p)
  BY <1>1, <1>2, <1>4, <1>5 DEF Ranked
<1>7. c \in Seq(1..N)
  BY <1>3, <1>5, ChosenType
<1>8. ASSUME NEW r \in 1..N, priority(items[r].source) = p PROVE Holds(c, r)
  <2>1. Placed(s, K, N) /\ SubSeq(s, 1, N) = s
    BY <1>3, ChosenPlaces, FirstElements
  <2>2. r \in K
    BY <1>4, <1>8
  <2>3. Place(s, K, r) \in 1..Len(c) /\ c[Place(s, K, r)] = s[r]
    BY <1>5, <2>1, <2>2 DEF Placed
  <2> QED  BY <1>3, <2>3 DEF Holds
<1> QED  BY <1>1, <1>6, <1>7, <1>8

\* selection_order leaves no request out.
LEMMA RequestIsSelected ==
    ASSUME NEW items \in Seq(CbItem), HasRequest(items)
    PROVE  /\ selection_order(items) \in Seq(1..Len(items))
           /\ \E q \in 1..Len(selection_order(items)) :
                 items[selection_order(items)[q]].source = "current_request"
<1>1. PICK r \in 1..Len(items) : items[r].source = "current_request"
  BY DEF HasRequest
<1>2. priority(items[r].source) = 1
  BY <1>1 DEF priority
<1>3. PICK S : S = 1..Len(items)
  OBVIOUS
<1>4. PICK a, b, c2, c3, c4, c5 :
         /\ a = Ranked(items, 0) /\ b = Ranked(items, 1) /\ c2 = Ranked(items, 2)
         /\ c3 = Ranked(items, 3) /\ c4 = Ranked(items, 4) /\ c5 = Ranked(items, 5)
  OBVIOUS
<1>5. /\ a \in Seq(S) /\ b \in Seq(S) /\ c2 \in Seq(S) /\ c3 \in Seq(S) /\ c4 \in Seq(S)
      /\ c5 \in Seq(S)
  BY <1>3, <1>4, RankedType
<1>6. Holds(b, r)
  BY <1>2, <1>4, RankedType
<1>7. PICK x1 : x1 = a \o b
  OBVIOUS
<1>8. PICK x2 : x2 = x1 \o c2
  OBVIOUS
<1>9. PICK x3 : x3 = x2 \o c3
  OBVIOUS
<1>10. PICK x4 : x4 = x3 \o c4
  OBVIOUS
<1>11. PICK x5 : x5 = x4 \o c5
  OBVIOUS
<1>12. x1 \in Seq(S) /\ Holds(x1, r)
  BY <1>5, <1>6, <1>7, ConcatParts
<1>13. x2 \in Seq(S) /\ Holds(x2, r)
  BY <1>5, <1>8, <1>12, ConcatParts
<1>14. x3 \in Seq(S) /\ Holds(x3, r)
  BY <1>5, <1>9, <1>13, ConcatParts
<1>15. x4 \in Seq(S) /\ Holds(x4, r)
  BY <1>5, <1>10, <1>14, ConcatParts
<1>16. x5 \in Seq(S) /\ Holds(x5, r)
  BY <1>5, <1>11, <1>15, ConcatParts
<1>17. selection_order(items) = x5
  BY <1>4, <1>7, <1>8, <1>9, <1>10, <1>11 DEF selection_order, Ranked
<1> QED  BY <1>1, <1>3, <1>16, <1>17 DEF Holds

\* budget_context: whatever is cut, the request is in the context.
LEMMA ContextHasRequest ==
    ASSUME NEW items \in Seq(CbItem), HasRequest(items), NEW limit \in Nat
    PROVE  LET taken == budget_context(items, limit).taken
           IN  taken \in Seq(CbItem) /\ HasRequest(taken)
<1>1. PICK order : order = selection_order(items)
  OBVIOUS
<1>2. order \in Seq(1..Len(items))
  BY <1>1, RequestIsSelected
<1>3. PICK N \in Nat : N = Len(order)
  BY <1>2
<1>4. PICK q \in 1..N : items[order[q]].source = "current_request"
  BY <1>1, <1>3, RequestIsSelected
<1> DEFINE loop == CHOOSE f : CtxUpTo(items, order, limit, f)
<1>5. CtxUpTo(items, order, limit, loop)
  BY <1>2, ContextLoop
<1>6. budget_context(items, limit).taken = loop[Len(order)].taken
  BY <1>1 DEF budget_context, CtxUpTo, CtxFirst
<1> HIDE DEF loop
<1>7. /\ \A n \in 0..N : loop[n] \in CtxState
      /\ \A n \in 1..N : loop[n] = include_item(loop[n - 1], items[order[n]], limit)
  BY <1>2, <1>3, <1>5, ContextLoop
<1>8. \A n \in 1..N : items[order[n]] \in CbItem
  BY <1>2, <1>3
<1> DEFINE T == {n \in Nat : q + n <= N => HasRequest(loop[q + n].taken)}
<1>9. 0 \in T
  <2>1. q - 1 \in 0..N
    BY <1>4
  <2>2. PICK acc, it : acc = loop[q - 1] /\ it = items[order[q]]
    OBVIOUS
  <2>3. acc \in CtxState /\ it \in CbItem /\ it.source = "current_request" /\ loop[q] = include_item(acc, it, limit)
    BY <1>4, <1>7, <1>8, <2>1, <2>2
  <2>4. HasRequest(loop[q].taken)
    BY <2>3, ItemIncluded
  <2>5. q + 0 = q
    OBVIOUS
  <2> QED  BY <2>4, <2>5
<1>10. ASSUME NEW n \in Nat, n \in T PROVE n + 1 \in T
  <2>1. SUFFICES ASSUME q + (n + 1) <= N PROVE HasRequest(loop[q + (n + 1)].taken)
    OBVIOUS
  <2>2. PICK m \in 1..N : m = q + (n + 1)
    BY <2>1
  <2>3. m - 1 = q + n /\ m - 1 \in 0..N /\ q + n <= N
    BY <2>2
  <2>4. HasRequest(loop[q + n].taken)
    BY <1>10, <2>3
  <2> HIDE DEF T
  <2>5. PICK acc, it : acc = loop[m - 1] /\ it = items[order[m]]
    OBVIOUS
  <2>6. acc \in CtxState /\ it \in CbItem /\ loop[m] = include_item(acc, it, limit)
    BY <1>7, <1>8, <2>3, <2>5
  <2>7. HasRequest(acc.taken)
    BY <2>3, <2>4, <2>5
  <2> QED  BY <2>2, <2>6, <2>7, ItemIncluded
<1>11. Nat \subseteq T
  <2> HIDE DEF T
  <2> QED  BY <1>9, <1>10, SetInduction
<1>12. PICK n \in Nat : q + n = N
  BY <1>4
<1>13. HasRequest(loop[N].taken)
  BY <1>11, <1>12
<1>14. loop[N].taken \in Seq(CbItem)
  <2>1. loop[N] \in CtxState
    BY <1>7
  <2> QED  BY <2>1 DEF CtxState
<1> QED  BY <1>3, <1>6, <1>13, <1>14

\* A history without tools.
PlainHistory(ms) == \A i \in 1..Len(ms) : ms[i].role # "tool" /\ ms[i].calls = 0

LEMMA PlainIsGrouped == ASSUME NEW ms, PlainHistory(ms) PROVE Grouped(ms)
BY DEF PlainHistory, Grouped

\* render_context_messages: a history without tools, the request last.
LEMMA RenderedContext ==
    ASSUME NEW items \in Seq(CbItem), HasRequest(items), NEW attached \in Nat
    PROVE  LET ms == render_context_messages(items, attached)
           IN  ms \in Seq(CbMessage) /\ Grouped(ms)
<1> DEFINE requests == {i \in 1..Len(items) : items[i].source = "current_request"}
           r == CHOOSE i \in requests : TRUE
<1>1. r \in requests /\ r \in 1..Len(items)
  BY DEF HasRequest
<1>2. PICK others : others = Chosen(items, 1..Len(items) \ requests)
  OBVIOUS
<1>3. others \in Seq(CbItem)
  BY <1>2, ChosenType
<1>4. PICK m : m = Message("user", [items[r].text EXCEPT !.size = @ + attached], 0, 0)
  OBVIOUS
<1>5. PICK a : a = [i \in 1..Len(others) |-> Message(RoleOf(others[i].source), others[i].text, 0, 0)]
  OBVIOUS
<1>6. render_context_messages(items, attached) = a \o <<m>>
  BY <1>2, <1>4, <1>5 DEF render_context_messages
<1> HIDE DEF r, requests
<1>7. m \in CbMessage /\ m.role = "user" /\ m.calls = 0
  <2>1. PICK it \in CbItem : it = items[r]
    BY <1>1
  <2>2. PICK t : t = [it.text EXCEPT !.size = @ + attached]
    OBVIOUS
  <2>3. t \in CbText
    <3>1. it.text \in CbText
      BY DEF CbItem
    <3> QED  BY <2>2, <3>1 DEF CbText
  <2>4. m = [role |-> "user", text |-> t, round |-> 0, calls |-> 0]
    BY <1>4, <2>1, <2>2 DEF Message
  <2> QED  BY <2>3, <2>4 DEF CbMessage
<1>8. ASSUME NEW i \in 1..Len(others)
      PROVE  a[i] \in CbMessage /\ a[i].role # "tool" /\ a[i].calls = 0
  <2>1. PICK it \in CbItem : it = others[i]
    BY <1>3
  <2>2. PICK role \in {"user", "system"} : role = RoleOf(it.source)
    BY DEF RoleOf
  <2>3. it.text \in CbText
    BY DEF CbItem
  <2>4. a[i] = [role |-> role, text |-> it.text, round |-> 0, calls |-> 0]
    BY <1>5, <2>1, <2>2 DEF Message
  <2> QED  BY <2>2, <2>3, <2>4 DEF CbMessage
<1>9. a \in Seq(CbMessage) /\ Len(a) = Len(others)
  <2>1. a \in [1..Len(others) -> CbMessage]
    BY <1>5, <1>8
  <2> QED  BY <1>3, <1>5, <2>1
<1>10. PICK ms : ms = a \o <<m>>
  OBVIOUS
<1>11. /\ ms \in Seq(CbMessage) /\ Len(ms) = Len(a) + 1 /\ ms[Len(a) + 1] = m
       /\ \A i \in 1..Len(a) : ms[i] = a[i]
  <2>1. ms = Append(a, m)
    BY <1>7, <1>9, <1>10, AppendIsConcat
  <2> QED  BY <1>7, <1>9, <2>1, AppendProperties
<1>12. \A i \in 1..Len(ms) : i \in 1..Len(a) \/ i = Len(a) + 1
  BY <1>9, <1>11
<1>13. PlainHistory(ms)
  BY <1>7, <1>8, <1>9, <1>11, <1>12 DEF PlainHistory
<1> QED  BY <1>6, <1>10, <1>11, <1>13, PlainIsGrouped

-----------------------------------------------------------------------------
(* The history.                                                            *)

\* Histories with calls and results together, one after the other.
LEMMA GroupedConcat ==
    ASSUME NEW a \in Seq(CbMessage), NEW b \in Seq(CbMessage), Grouped(a), Grouped(b)
    PROVE  a \o b \in Seq(CbMessage) /\ Grouped(a \o b)
<1>1. PICK c : c = a \o b
  OBVIOUS
<1>2. PICK A \in Nat : A = Len(a)
  OBVIOUS
<1>3. PICK B \in Nat : B = Len(b)
  OBVIOUS
<1>4. /\ c \in Seq(CbMessage) /\ Len(c) = A + B
      /\ \A i \in 1..A : c[i] = a[i]
      /\ \A i \in 1..B : c[A + i] = b[i]
  BY <1>1, <1>2, <1>3, ConcatParts
<1>5. ASSUME NEW i \in 1..A + B PROVE i \in 1..A \/ \E k \in 1..B : i = A + k
  <2>1. CASE i > A
    <3>1. PICK k \in 1..B : k = i - A
      BY <2>1
    <3> QED  BY <3>1
  <2> QED  BY <2>1
<1>6. ASSUME NEW i \in 1..A + B, c[i].calls > 0
      PROVE  /\ c[i].role = "assistant" /\ i + c[i].calls <= A + B
             /\ \A j \in i + 1..i + c[i].calls : c[j].role = "tool" /\ c[j].round = c[i].round
  <2>1. CASE i \in 1..A
    <3>1. PICK m \in Nat : m = a[i].calls
      BY <1>2, <2>1, MessageFields
    <3>2. c[i] = a[i] /\ m > 0
      BY <1>4, <1>6, <2>1, <3>1
    <3>3. /\ a[i].role = "assistant" /\ i + m <= A
          /\ \A j \in i + 1..i + m : a[j].role = "tool" /\ a[j].round = a[i].round
      BY <1>2, <2>1, <3>1, <3>2 DEF Grouped
    <3>4. \A j \in i + 1..i + m : j \in 1..A
      BY <2>1, <3>3
    <3> QED  BY <1>4, <3>1, <3>2, <3>3, <3>4
  <2>2. CASE \E k \in 1..B : i = A + k
    <3>0. PICK k \in 1..B : i = A + k
      BY <2>2
    <3>1. PICK m \in Nat : m = b[k].calls
      BY <1>3, MessageFields
    <3>2. c[i] = b[k] /\ m > 0
      BY <1>4, <1>6, <3>0, <3>1
    <3>3. /\ b[k].role = "assistant" /\ k + m <= B
          /\ \A j \in k + 1..k + m : b[j].role = "tool" /\ b[j].round = b[k].round
      BY <1>3, <3>1, <3>2 DEF Grouped
    <3>4. ASSUME NEW j \in i + 1..i + m PROVE c[j].role = "tool" /\ c[j].round = c[i].round
      <4>1. PICK n \in k + 1..k + m : n = j - A
        BY <3>0
      <4>2. n \in 1..B /\ j = A + n
        BY <3>3, <4>1
      <4>3. c[j] = b[n]
        BY <1>4, <4>2
      <4>4. b[n].role = "tool" /\ b[n].round = b[k].round
        BY <3>3, <4>1
      <4> QED  BY <3>2, <4>3, <4>4
    <3>5. i + m <= A + B
      BY <3>0, <3>3
    <3> QED  BY <3>1, <3>2, <3>3, <3>4, <3>5
  <2> QED  BY <1>5, <2>1, <2>2
<1>7. ASSUME NEW i \in 1..A + B, c[i].role = "tool"
      PROVE  \E d \in 1..i - 1 : c[d].calls > 0 /\ i <= d + c[d].calls
  <2>1. CASE i \in 1..A
    <3>1. a[i].role = "tool"
      BY <1>4, <1>7, <2>1
    <3>2. PICK d \in 1..i - 1 : a[d].calls > 0 /\ i <= d + a[d].calls
      BY <1>2, <2>1, <3>1 DEF Grouped
    <3>3. d \in 1..A
      BY <2>1
    <3> QED  BY <1>4, <3>2, <3>3
  <2>2. CASE \E k \in 1..B : i = A + k
    <3>0. PICK k \in 1..B : i = A + k
      BY <2>2
    <3>1. b[k].role = "tool"
      BY <1>4, <1>7, <3>0
    <3>2. PICK d \in 1..k - 1 : b[d].calls > 0 /\ k <= d + b[d].calls
      BY <1>3, <3>1 DEF Grouped
    <3>3. d \in 1..B
      BY <3>2
    <3>4. PICK m \in Nat : m = b[d].calls
      BY <1>3, <3>3, MessageFields
    <3>5. PICK n \in 1..i - 1 : n = A + d
      BY <3>0, <3>2
    <3>51. c[n] = b[d]
      BY <1>4, <3>3, <3>5
    <3>6. c[n].calls = m /\ c[n].calls > 0 /\ i <= n + m
      BY <3>0, <3>2, <3>4, <3>5, <3>51
    <3> QED  BY <3>5, <3>6
  <2> QED  BY <1>5, <2>1, <2>2
<1>8. Grouped(c)
  <2>1. 1..Len(c) = 1..A + B /\ Len(c) = A + B
    BY <1>4
  <2>2. \A i \in 1..Len(c) : c[i].calls > 0 =>
            /\ c[i].role = "assistant" /\ i + c[i].calls <= Len(c)
            /\ \A j \in i + 1..i + c[i].calls : c[j].role = "tool" /\ c[j].round = c[i].round
    BY <1>6, <2>1
  <2>3. \A i \in 1..Len(c) : c[i].role = "tool" =>
            \E d \in 1..i - 1 : c[d].calls > 0 /\ i <= d + c[d].calls
    BY <1>7, <2>1
  <2> QED  BY <2>2, <2>3 DEF Grouped
<1> QED  BY <1>1, <1>4, <1>8

LEMMA MessageType ==
    ASSUME NEW role \in {"system", "user", "assistant", "tool"}, NEW text \in CbText,
           NEW round \in Nat, NEW calls \in Nat
    PROVE  LET m == Message(role, text, round, calls)
           IN  m \in CbMessage /\ m.role = role /\ m.round = round /\ m.calls = calls
BY DEF Message, CbMessage

\* A message without tools joins the history.
LEMMA GroupedAppend ==
    ASSUME NEW ms \in Seq(CbMessage), Grouped(ms), NEW role \in {"system", "user", "assistant"},
           NEW text \in CbText
    PROVE  LET new == Append(ms, Message(role, text, 0, 0))
           IN  new \in Seq(CbMessage) /\ Grouped(new)
<1>1. PICK m : m = Message(role, text, 0, 0)
  OBVIOUS
<1>2. m \in CbMessage /\ m.role # "tool" /\ m.calls = 0
  BY <1>1, MessageType
<1>3. PICK one : one = <<m>>
  OBVIOUS
<1>4. one \in Seq(CbMessage) /\ Len(one) = 1 /\ one[1] = m
  BY <1>2, <1>3
<1>5. \A i \in 1..1 : i = 1
  OBVIOUS
<1>6. PlainHistory(one)
  BY <1>2, <1>4, <1>5 DEF PlainHistory
<1>7. ms \o one \in Seq(CbMessage) /\ Grouped(ms \o one)
  BY <1>4, <1>6, PlainIsGrouped, GroupedConcat
<1>8. Append(ms, m) = ms \o one
  BY <1>2, <1>3, AppendIsConcat
<1> QED  BY <1>1, <1>7, <1>8

\* The history after a round of tools.
RoundOf(h, round, calls, results, said) ==
    h \o <<Message("assistant", NoText, round, calls)>>
      \o [i \in 1..calls |-> Message("tool", results[i], round, 0)]
      \o [i \in 1..Len(said) |-> Message("user", said[i], 0, 0)]

\* A call of tools and all its results join the history.
LEMMA RoundIsGrouped ==
    ASSUME NEW h \in Seq(CbMessage), Grouped(h), NEW round \in Nat, NEW calls \in Nat,
           NEW results \in [1..calls -> CbText], NEW said \in Seq(CbText)
    PROVE  /\ RoundOf(h, round, calls, results, said) \in Seq(CbMessage)
           /\ Grouped(RoundOf(h, round, calls, results, said))
<1>1. PICK m : m = Message("assistant", NoText, round, calls)
  OBVIOUS
<1>2. m \in CbMessage /\ m.role = "assistant" /\ m.round = round /\ m.calls = calls
  <2>1. NoText \in CbText
    BY DEF NoText, CbText
  <2> QED  BY <1>1, <2>1, MessageType
<1>3. PICK r : r = [i \in 1..calls |-> Message("tool", results[i], round, 0)]
  OBVIOUS
<1>4. /\ r \in Seq(CbMessage) /\ Len(r) = calls
      /\ \A i \in 1..calls : r[i].role = "tool" /\ r[i].round = round /\ r[i].calls = 0
  <2>1. \A i \in 1..calls : /\ r[i] \in CbMessage
                            /\ r[i].role = "tool" /\ r[i].round = round /\ r[i].calls = 0
    <3>1. ASSUME NEW i \in 1..calls
          PROVE  r[i] \in CbMessage /\ r[i].role = "tool" /\ r[i].round = round /\ r[i].calls = 0
      <4>1. PICK t \in CbText : t = results[i]
        OBVIOUS
      <4>2. r[i] = Message("tool", t, round, 0)
        BY <1>3, <4>1
      <4> QED  BY <4>2 DEF Message, CbMessage
    <3> QED  BY <3>1
  <2>2. r \in [1..calls -> CbMessage]
    BY <1>3, <2>1
  <2> QED  BY <1>3, <2>1, <2>2
<1>5. PICK u : u = [i \in 1..Len(said) |-> Message("user", said[i], 0, 0)]
  OBVIOUS
<1>6. u \in Seq(CbMessage) /\ PlainHistory(u)
  <2>1. \A i \in 1..Len(said) : u[i] \in CbMessage /\ u[i].role # "tool" /\ u[i].calls = 0
    <3>1. ASSUME NEW i \in 1..Len(said)
          PROVE  u[i] \in CbMessage /\ u[i].role # "tool" /\ u[i].calls = 0
      <4>1. PICK t \in CbText : t = said[i]
        OBVIOUS
      <4>2. u[i] = Message("user", t, 0, 0)
        BY <1>5, <4>1
      <4>3. u[i] \in CbMessage /\ u[i].role = "user" /\ u[i].calls = 0
        BY <4>2 DEF Message, CbMessage
      <4> QED  BY <4>3
    <3> QED  BY <3>1
  <2>2. u \in [1..Len(said) -> CbMessage]
    BY <1>5, <2>1
  <2> QED  BY <1>5, <2>1, <2>2 DEF PlainHistory
<1>7. PICK one : one = <<m>>
  OBVIOUS
<1>8. one \in Seq(CbMessage) /\ Len(one) = 1 /\ one[1] = m
  BY <1>2, <1>7
<1>9. PICK b : b = one \o r
  OBVIOUS
<1>10. /\ b \in Seq(CbMessage) /\ Len(b) = 1 + calls /\ b[1] = m
       /\ \A i \in 1..calls : b[1 + i] = r[i]
  <2>1. 1 \in 1..Len(one)
    BY <1>8
  <2>2. /\ b \in Seq(CbMessage) /\ Len(b) = Len(one) + Len(r)
        /\ \A i \in 1..Len(one) : b[i] = one[i]
        /\ \A i \in 1..Len(r) : b[Len(one) + i] = r[i]
    <3>1. r \in Seq(CbMessage) /\ one \in Seq(CbMessage)
      BY <1>4, <1>8
    <3> QED  BY <1>9, <3>1, ConcatParts
  <2> QED  BY <1>4, <1>8, <2>1, <2>2
<1>12. \A i \in 2..1 + calls : b[i].role = "tool" /\ b[i].round = round /\ b[i].calls = 0
  <2>1. ASSUME NEW i \in 2..1 + calls
        PROVE  b[i].role = "tool" /\ b[i].round = round /\ b[i].calls = 0
    <3>1. PICK k \in 1..calls : i = 1 + k
      <4>1. i - 1 \in 1..calls /\ i = 1 + (i - 1)
        OBVIOUS
      <4> QED  BY <4>1
    <3>2. b[i] = r[k]
      BY <1>10, <3>1
    <3> QED  BY <1>4, <3>2
  <2> QED  BY <2>1
<1>13. Grouped(b)
  <2>1. ASSUME NEW i \in 1..1 + calls, b[i].calls > 0
        PROVE  /\ b[i].role = "assistant" /\ i + b[i].calls <= 1 + calls
               /\ \A j \in i + 1..i + b[i].calls : b[j].role = "tool" /\ b[j].round = b[i].round
    <3>1. i = 1
      <4>1. SUFFICES ASSUME i # 1 PROVE FALSE
        OBVIOUS
      <4>2. i \in 2..1 + calls
        BY <4>1
      <4> QED  BY <1>12, <2>1, <4>2
    <3> QED  BY <1>2, <1>10, <1>12, <3>1
  <2>2. ASSUME NEW i \in 1..1 + calls, b[i].role = "tool"
        PROVE  \E a \in 1..i - 1 : b[a].calls > 0 /\ i <= a + b[a].calls
    <3>1. i # 1
      BY <1>2, <1>10, <2>2
    <3>2. 1 \in 1..i - 1 /\ b[1].calls > 0 /\ i <= 1 + b[1].calls
      <4>1. calls > 0
        BY <2>2, <3>1
      <4> QED  BY <1>2, <1>10, <3>1, <4>1
    <3> QED  BY <3>2
  <2> QED  BY <1>10, <2>1, <2>2 DEF Grouped
<1>14. PICK x : x = h \o b
  OBVIOUS
<1>15. x \in Seq(CbMessage) /\ Grouped(x)
  BY <1>10, <1>13, <1>14, GroupedConcat
<1>16. x \o u \in Seq(CbMessage) /\ Grouped(x \o u)
  BY <1>6, <1>15, PlainIsGrouped, GroupedConcat
<1>17. (h \o one) \o r = x
  BY <1>4, <1>8, <1>9, <1>14, ConcatAssociative
<1>18. RoundOf(h, round, calls, results, said) = x \o u
  BY <1>1, <1>3, <1>5, <1>7, <1>17 DEF RoundOf
<1> QED  BY <1>16, <1>18

-----------------------------------------------------------------------------
(* The loop: every request is well formed.                                 *)

\* The inductive invariant: the history and every request made of it have each
\* result behind its call and all the results of a call, and what a budget was made
\* for fits.
CbInv ==
    /\ cbPhase \in {"prepare", "ask", "sent", "answered", "failed", "ended"}
    /\ cbHistory \in Seq(CbMessage) /\ Grouped(cbHistory)
    /\ cbAsked \in Seq(CbMessage) /\ Grouped(cbAsked)
    /\ cbRequest \in Seq(CbMessage) /\ Grouped(cbRequest)
    /\ cbLimit \in Nat /\ cbRound \in Nat
    /\ cbPhase = "sent" /\ cbMade # "repair" => Cost(cbRequest) <= cbLimit

LEMMA CbStarts == CbInit => CbInv
<1>1. ASSUME NEW ms, ms = <<>> PROVE ms \in Seq(CbMessage) /\ Grouped(ms)
  BY <1>1 DEF Grouped
<1> QED  BY <1>1 DEF CbInit, CbInv

\* Send: what is sent was made by budget_chat_messages.
LEMMA SendKeeps ==
    ASSUME NEW ms \in Seq(CbMessage), Grouped(ms), NEW limit \in Nat, CbInv, Send(ms, limit)
    PROVE  /\ cbPhase' \in {"sent", "failed"}
           /\ cbRequest' \in Seq(CbMessage) /\ Grouped(cbRequest') /\ cbLimit' \in Nat
           /\ cbPhase' = "sent" => Cost(cbRequest') <= cbLimit'
<1>1. PICK budget : budget = budget_chat_messages(ms, limit)
  OBVIOUS
<1>2. CASE budget.ok
  <2>1. cbPhase' = "sent" /\ cbRequest' = budget.out /\ cbLimit' = limit
    BY <1>1, <1>2 DEF Send
  <2>2. budget.out \in Seq(CbMessage) /\ Grouped(budget.out) /\ Cost(budget.out) <= limit
    BY <1>1, <1>2, BudgetIsKept
  <2> QED  BY <2>1, <2>2
<1>3. CASE ~budget.ok
  <2>1. cbPhase' = "failed" /\ cbRequest' = cbRequest /\ cbLimit' = cbLimit
    BY <1>1, <1>3 DEF Send
  <2> QED  BY <2>1 DEF CbInv
<1> QED  BY <1>2, <1>3

\* The context becomes the history.
LEMMA PrepareKeeps == CbInv /\ PrepareRequest => CbInv'
<1> SUFFICES ASSUME CbInv, PrepareRequest PROVE CbInv'
  OBVIOUS
<1>1. PICK prompt, request \in CbTexts, mails \in UNION {[1..n -> CbTexts] : n \in 0..1},
           attached \in {0, Window} :
         LET items == <<[source |-> "system", text |-> prompt]>>
                      \o [i \in 1..Len(mails) |-> [source |-> "mailbox", text |-> mails[i]]]
                      \o <<[source |-> "current_request", text |-> request]>>
             report == budget_context(items, Window)
         IN  IF report.ok
             THEN /\ cbHistory' = render_context_messages(report.taken, attached)
                  /\ cbPhase' = "ask"
             ELSE cbPhase' = "failed" /\ UNCHANGED cbHistory
  BY DEF PrepareRequest
<1>2. UNCHANGED <<cbAsked, cbRequest, cbLimit, cbMade, cbRepairs, cbIdle, cbRound, cbInput>>
  BY DEF PrepareRequest
<1>3. prompt \in CbText /\ request \in CbText /\ attached \in Nat /\ Window \in Nat
  BY TextsAssumption, WindowAssumption DEF CbText
<1>4. PICK n \in 0..1 : mails \in [1..n -> CbTexts]
  OBVIOUS
<1>5. PICK a : a = <<[source |-> "system", text |-> prompt]>>
  OBVIOUS
<1>6. PICK b : b = [i \in 1..Len(mails) |-> [source |-> "mailbox", text |-> mails[i]]]
  OBVIOUS
<1>7. PICK c : c = [source |-> "current_request", text |-> request]
  OBVIOUS
<1>8. a \in Seq(CbItem)
  BY <1>3, <1>5 DEF CbItem, CbSources
<1>9. b \in Seq(CbItem)
  <2>1. Len(mails) = n
    BY <1>4
  <2>2. \A i \in 1..n : mails[i] \in CbText
    BY <1>4, TextsAssumption DEF CbText
  <2>3. b \in [1..n -> CbItem]
    BY <1>6, <2>1, <2>2 DEF CbItem, CbSources
  <2> QED  BY <2>3
<1>10. c \in CbItem /\ c.source = "current_request"
  BY <1>3, <1>7 DEF CbItem, CbSources
<1>11. PICK d : d = a \o b
  OBVIOUS
<1>12. d \in Seq(CbItem)
  BY <1>8, <1>9, <1>11, ConcatParts
<1>13. PICK items : items = d \o <<c>>
  OBVIOUS
<1>14. items \in Seq(CbItem) /\ HasRequest(items)
  <2>1. items = Append(d, c)
    BY <1>10, <1>12, <1>13, AppendIsConcat
  <2>2. items \in Seq(CbItem) /\ Len(items) = Len(d) + 1 /\ items[Len(d) + 1] = c
    BY <1>10, <1>12, <2>1, AppendProperties
  <2>3. Len(d) + 1 \in 1..Len(items)
    BY <1>12, <2>2
  <2> QED  BY <1>10, <2>2, <2>3 DEF HasRequest
<1>15. PICK report : report = budget_context(items, Window)
  OBVIOUS
<1>16. report.taken \in Seq(CbItem) /\ HasRequest(report.taken)
  BY <1>3, <1>14, <1>15, ContextHasRequest
<1>17. \/ cbHistory' = render_context_messages(report.taken, attached) /\ cbPhase' = "ask"
       \/ cbPhase' = "failed" /\ cbHistory' = cbHistory
  BY <1>1, <1>5, <1>6, <1>7, <1>11, <1>13, <1>15
<1>18. PICK h : h = render_context_messages(report.taken, attached)
  OBVIOUS
<1>19. h \in Seq(CbMessage) /\ Grouped(h)
  BY <1>3, <1>16, <1>18, RenderedContext
<1>20. cbHistory' \in Seq(CbMessage) /\ Grouped(cbHistory') /\ cbPhase' \in {"ask", "failed"}
  BY <1>17, <1>18, <1>19 DEF CbInv
<1> QED  BY <1>2, <1>20 DEF CbInv

\* The history, with or without the reminder, becomes the request.
LEMMA AskKeeps == CbInv /\ AskModel => CbInv'
<1> SUFFICES ASSUME CbInv, AskModel PROVE CbInv'
  OBVIOUS
<1>1. PICK ms : ms = IF cbIdle >= TodoRounds
                     THEN Append(cbHistory, Message("system", [size |-> 1, grain |-> 1], 0, 0))
                     ELSE cbHistory
  OBVIOUS
<1>2. ms \in Seq(CbMessage) /\ Grouped(ms)
  <2>1. PICK t : t = [size |-> 1, grain |-> 1]
    OBVIOUS
  <2>2. t \in CbText
    BY <2>1 DEF CbText
  <2>3. PICK new : new = Append(cbHistory, Message("system", t, 0, 0))
    OBVIOUS
  <2>4. cbHistory \in Seq(CbMessage) /\ Grouped(cbHistory)
    BY DEF CbInv
  <2>5. new \in Seq(CbMessage) /\ Grouped(new)
    BY <2>2, <2>3, <2>4, GroupedAppend
  <2>6. ms = new \/ ms = cbHistory
    BY <1>1, <2>1, <2>3
  <2> QED  BY <2>4, <2>5, <2>6
<1>3. /\ Send(ms, Window) /\ cbAsked' = cbRequest'
      /\ UNCHANGED <<cbHistory, cbMade, cbRepairs, cbRound, cbInput>>
  BY <1>1 DEF AskModel
<1>4. Window \in Nat
  BY WindowAssumption
<1>5. /\ cbPhase' \in {"sent", "failed"}
      /\ cbRequest' \in Seq(CbMessage) /\ Grouped(cbRequest') /\ cbLimit' \in Nat
      /\ cbPhase' = "sent" => Cost(cbRequest') <= cbLimit'
  BY <1>2, <1>3, <1>4, SendKeeps
<1> QED  BY <1>3, <1>5 DEF CbInv

\* What was sent is cut to three quarters.
LEMMA RetryKeeps == CbInv /\ ContextRetry => CbInv'
<1> SUFFICES ASSUME CbInv, ContextRetry PROVE CbInv'
  OBVIOUS
<1>1. PICK limit \in Nat : limit = (Window * 3) \div 4
  BY WindowAssumption
<1>2. Send(cbRequest, limit) /\ UNCHANGED <<cbAsked, cbHistory, cbRepairs, cbIdle, cbRound, cbInput>>
  BY <1>1 DEF ContextRetry
<1>3. PICK ms \in Seq(CbMessage) : ms = cbRequest /\ Grouped(ms)
  BY DEF CbInv
<1>4. Send(ms, limit)
  BY <1>2, <1>3
<1>5. /\ cbPhase' \in {"sent", "failed"}
      /\ cbRequest' \in Seq(CbMessage) /\ Grouped(cbRequest') /\ cbLimit' \in Nat
      /\ cbPhase' = "sent" => Cost(cbRequest') <= cbLimit'
  BY <1>3, <1>4, SendKeeps
<1> QED  BY <1>2, <1>5 DEF CbInv

\* A repair sends the history and one more message: nothing is cut.
LEMMA RepairKeeps == CbInv /\ RepairCalls => CbInv'
<1> SUFFICES ASSUME CbInv, RepairCalls PROVE CbInv'
  OBVIOUS
<1>1. PICK text \in CbTexts : cbRequest' = Append(cbHistory, Message("system", text, 0, 0))
  BY DEF RepairCalls
<1>2. text \in CbText
  BY TextsAssumption DEF CbText
<1>3. PICK h \in Seq(CbMessage) : h = cbHistory /\ Grouped(h)
  BY DEF CbInv
<1>4. cbRequest' \in Seq(CbMessage) /\ Grouped(cbRequest')
  BY <1>1, <1>2, <1>3, GroupedAppend
<1>5. cbMade' = "repair" /\ UNCHANGED <<cbPhase, cbHistory, cbAsked, cbLimit, cbIdle, cbRound, cbInput>>
  BY DEF RepairCalls
<1> QED  BY <1>4, <1>5 DEF CbInv

\* Between two rounds there is no request.
LEMMA NextRoundKeeps ==
    NextRound => /\ cbAsked' \in Seq(CbMessage) /\ Grouped(cbAsked')
                 /\ cbRequest' \in Seq(CbMessage) /\ Grouped(cbRequest')
                 /\ cbLimit' \in Nat
<1>1. ASSUME NEW ms, ms = <<>> PROVE ms \in Seq(CbMessage) /\ Grouped(ms)
  BY <1>1 DEF Grouped
<1> QED  BY <1>1 DEF NextRound

\* A round of tools.
LEMMA ToolRoundKeeps == CbInv /\ ToolRound => CbInv'
<1> SUFFICES ASSUME CbInv, ToolRound PROVE CbInv'
  OBVIOUS
<1>1. PICK calls \in (IF cbRepairs > 0 THEN 0..2 ELSE 1..2),
           said \in UNION {[1..n -> CbTexts] : n \in 0..1} :
         \E results \in [1..calls -> CbTexts] :
            cbHistory' = cbHistory \o <<Message("assistant", NoText, cbRound', calls)>>
                         \o [i \in 1..calls |-> Message("tool", results[i], cbRound', 0)]
                         \o [i \in 1..Len(said) |-> Message("user", said[i], 0, 0)]
  BY DEF ToolRound
<1>2. PICK results \in [1..calls -> CbTexts] :
         cbHistory' = cbHistory \o <<Message("assistant", NoText, cbRound', calls)>>
                      \o [i \in 1..calls |-> Message("tool", results[i], cbRound', 0)]
                      \o [i \in 1..Len(said) |-> Message("user", said[i], 0, 0)]
  BY <1>1
<1>3. PICK round \in Nat : round = cbRound'
  BY DEF CbInv, ToolRound
<1>31. calls \in 0..2
  OBVIOUS
<1>4. calls \in Nat /\ results \in [1..calls -> CbText]
  BY TextsAssumption DEF CbText
<1>5. said \in Seq(CbText)
  <2>1. PICK n \in 0..1 : said \in [1..n -> CbTexts]
    OBVIOUS
  <2>2. said \in [1..n -> CbText]
    BY <2>1, TextsAssumption DEF CbText
  <2> QED  BY <2>2
<1>6. PICK h : h = cbHistory
  OBVIOUS
<1>7. h \in Seq(CbMessage) /\ Grouped(h)
  BY <1>6 DEF CbInv
<1>8. cbHistory' = RoundOf(h, round, calls, results, said)
  BY <1>2, <1>3, <1>6 DEF RoundOf
<1>9. cbHistory' \in Seq(CbMessage) /\ Grouped(cbHistory')
  BY <1>4, <1>5, <1>7, <1>8, RoundIsGrouped
<1>10. cbPhase' = "ask" /\ NextRound
  BY DEF ToolRound
<1> QED  BY <1>3, <1>9, <1>10, NextRoundKeeps DEF CbInv

\* The answer, and what the user says after it.
LEMMA AnswerKeeps == CbInv /\ (Answer \/ MoreInput) => CbInv'
<1> SUFFICES ASSUME CbInv, Answer \/ MoreInput PROVE CbInv'
  OBVIOUS
<1>1. ASSUME NEW ms \in Seq(CbMessage), Grouped(ms), NEW text \in CbTexts, NEW role \in {"assistant", "user"}
      PROVE  LET new == Append(ms, Message(role, text, 0, 0))
             IN  new \in Seq(CbMessage) /\ Grouped(new)
  <2>1. text \in CbText /\ role \in {"system", "user", "assistant"}
    BY TextsAssumption DEF CbText
  <2> QED  BY <1>1, <2>1, GroupedAppend
<1>2. CASE Answer
  <2>1. PICK text \in CbTexts : cbHistory' = Append(cbAsked, Message("assistant", text, 0, 0))
    BY <1>2 DEF Answer
  <2>2. cbHistory' \in Seq(CbMessage) /\ Grouped(cbHistory')
    BY <1>1, <2>1 DEF CbInv
  <2>3. cbPhase' = "answered" /\ NextRound /\ UNCHANGED cbRound
    BY <1>2 DEF Answer
  <2> QED  BY <2>2, <2>3, NextRoundKeeps DEF CbInv
<1>3. CASE MoreInput
  <2>1. PICK text \in CbTexts : cbHistory' = Append(cbHistory, Message("user", text, 0, 0))
    BY <1>3 DEF MoreInput
  <2>2. cbHistory' \in Seq(CbMessage) /\ Grouped(cbHistory')
    BY <1>1, <2>1 DEF CbInv
  <2>3. /\ cbPhase' = "ask"
        /\ UNCHANGED <<cbAsked, cbRequest, cbLimit, cbRound>>
    BY <1>3 DEF MoreInput
  <2> QED  BY <2>2, <2>3 DEF CbInv
<1> QED  BY <1>2, <1>3

\* CbInv holds in every reachable state of the context and history loop.
THEOREM RequestInvariant == CbSpec => []CbInv
<1>1. ASSUME CbInv, [CbNext]_cbVars PROVE CbInv'
  <2>1. CASE UNCHANGED cbVars
    BY <1>1, <2>1 DEF cbVars, CbInv
  <2>2. CASE RunIsOver \/ CallFails
    BY <1>1, <2>2 DEF RunIsOver, CallFails, CbInv
  <2> QED  BY <1>1, <2>1, <2>2, PrepareKeeps, AskKeeps, RetryKeeps, RepairKeeps, ToolRoundKeeps, AnswerKeeps DEF CbNext
<1> QED  BY <1>1, CbStarts, PTL DEF CbSpec

\* Every request, of repair_tool_calls and after a context_limit too, has each tool
\* result behind its call and all results of every call; and all that
\* budget_chat_messages makes, which a repair's first request is not, fit the
\* limit they were made for.
THEOREM RequestsAreWellFormed == CbSpec => []RequestIsWellFormed
<1>1. CbInv => RequestIsWellFormed
  <2> SUFFICES ASSUME CbInv, cbPhase = "sent"
               PROVE  /\ cbMade # "repair" => Cost(cbRequest) <= cbLimit
                      /\ \A i \in 1..Len(cbRequest) :
                            LET m == cbRequest[i]
                            IN  /\ m.calls > 0 => Cardinality(ResultsAfter(cbRequest, i)) = m.calls
                                /\ m.role = "tool" => \E a \in 1..i - 1 : cbRequest[a].calls > 0
                                                                 /\ i \in ResultsAfter(cbRequest, a)
    BY DEF RequestIsWellFormed
  <2>1. /\ cbRequest \in Seq(CbMessage) /\ Grouped(cbRequest)
        /\ cbMade # "repair" => Cost(cbRequest) <= cbLimit
    BY DEF CbInv
  <2> QED  BY <2>1, GroupedIsWellFormed
<1> QED  BY <1>1, RequestInvariant, PTL

=============================================================================
