------------------------------ MODULE SplitProofs ------------------------------
(***************************************************************************)
(* Theorems about Split, for texts and lines of any length.  A fold is the  *)
(* value of one function on the set of all positions; two such functions    *)
(* would differ first on some smallest set.  So a fold over a sequence with *)
(* one element more is one step more (After), and what holds of the empty   *)
(* sequence and of each one longer holds of all: a shortest exception would *)
(* be neither.  On this rest the laws of Letters, Lines, Joined and Pairs,  *)
(* the invariants of the two loops (CutWhole of hardSplit, Kept of          *)
(* splitMessage), and what a reply's parts are in the end.                  *)
(***************************************************************************)
EXTENDS Split, TLAPS, FiniteSetTheorems

\* The smallest of some natural numbers.
LEMMA LeastNumber ==
  ASSUME NEW T, T \subseteq Nat, T # {}
  PROVE  \E x \in T : \A y \in T : x <= y
<1> DEFINE R == {ss \in Nat \X Nat : ss[1] < ss[2]}
<1>1. IsWellFoundedOn(R, Nat)
  BY NatLessThanWellFounded DEF OpToRel
<1>2. \E x \in T : \A y \in T : ~ (<<y, x>> \in R)
  BY <1>1, WFMin
<1>3. \A x, y \in Nat : y < x => <<y, x>> \in R
  OBVIOUS
<1> HIDE DEF R
<1>4. PICK x \in T : \A y \in T : ~ (<<y, x>> \in R)
  BY <1>2
<1>5. ASSUME NEW y \in T PROVE x <= y
  <2>1. x \in Nat /\ y \in Nat
    OBVIOUS
  <2>2. ~ (y < x)
    BY <1>3, <1>4, <2>1, Zenon
  <2> QED
    BY <2>1, <2>2
<1> QED
  BY <1>5

-----------------------------------------------------------------------------
(* Sequences and folds.                                                     *)

\* What holds of the empty sequence and of each one longer holds of all.
LEMMA AllSequences ==
    ASSUME NEW E, NEW P, << >> \in P,
           \A s \in Seq(E), e \in E : s \in P => Append(s, e) \in P
    PROVE  Seq(E) \subseteq P
<1> DEFINE Lengths == {Len(s) : s \in Seq(E) \ P}
<1>1. SUFFICES ASSUME Seq(E) \ P # {} PROVE FALSE
  OBVIOUS
<1>2. Lengths \subseteq Nat /\ Lengths # {}
  BY <1>1
<1>3. PICK n \in Lengths : \A m \in Lengths : n <= m
  BY <1>2, LeastNumber
<1>4. PICK s \in Seq(E) \ P : n = Len(s)
  OBVIOUS
<1>5. s # << >>
  OBVIOUS
<1> DEFINE t == SubSeq(s, 1, n - 1)
           e == s[n]
<1>6. n \in Nat /\ n >= 1
  BY <1>4, <1>5
<1>7. t \in Seq(E) /\ e \in E /\ Len(t) = n - 1 /\ s = Append(t, e)
  BY <1>4, <1>6
<1> HIDE DEF t, e
<1>8. t \in P
  <2>1. t \notin P => n - 1 \in Lengths
    BY <1>7
  <2> QED BY <1>3, <1>6, <2>1
<1> QED BY <1>4, <1>7, <1>8

\* The largest of some positions.
LEMMA LargestPosition ==
    ASSUME NEW n \in Nat, NEW T, T \subseteq 1..n, T # {}
    PROVE  /\ Max(T) \in T /\ \A t \in T : t <= Max(T)
           /\ \A t \in T : (\A u \in T : u <= t) => Max(T) = t
<1> DEFINE Below == {n - t : t \in T}
<1>1. Below \subseteq Nat /\ Below # {}
  <2>1. \A t \in T : t \in Int /\ t <= n
    OBVIOUS
  <2>2. \A t \in T : n - t \in Nat
    BY <2>1
  <2> QED BY <2>2
<1>2. PICK d \in Below : \A c \in Below : d <= c
  BY <1>1, LeastNumber
<1>3. PICK m \in T : d = n - m
  OBVIOUS
<1>4. \A t \in T : t <= m
  <2> TAKE t \in T
  <2>1. n - m <= n - t
    BY <1>2, <1>3
  <2> QED BY <2>1
<1> HIDE DEF Below
<1>5. /\ Max(T) \in T /\ \A t \in T : t <= Max(T)
  BY <1>4 DEF Max
<1>6. \A t, u \in T : t \in Int /\ u \in Int
  OBVIOUS
<1>7. ASSUME NEW t \in T, \A u \in T : u <= t PROVE Max(T) = t
  <2>1. Max(T) <= t /\ t <= Max(T) /\ Max(T) \in Int /\ t \in Int
    BY <1>5, <1>6, <1>7
  <2> HIDE DEF Max
  <2> QED BY <2>1
<1> QED BY <1>5, <1>7

\* f is an operation on V with an argument from E.
Operation(V, E, f) == f \in [V -> [E -> V]]

\* A fold of s by f, as the recursive function over the sets of its positions.
IsFold(f, base, s, g) ==
    g = [T \in SUBSET (1..Len(s)) |->
            IF T = {} THEN base ELSE f[g[T \ {Max(T)}]][s[Max(T)]]]

\* One such function gives the same as another, whatever makes them.
SameSteps(n, f, g) ==
    /\ f[{}] = g[{}]
    /\ \A T \in SUBSET (1..n) : T # {} /\ f[T \ {Max(T)}] = g[T \ {Max(T)}] => f[T] = g[T]

LEMMA FoldsAlike ==
    ASSUME NEW n \in Nat, NEW f, NEW g, SameSteps(n, f, g)
    PROVE  \A T \in SUBSET (1..n) : f[T] = g[T]
<1> DEFINE Wrong == {T \in SUBSET (1..n) : f[T] # g[T]}
           Sizes == {Cardinality(T) : T \in Wrong}
<1>1. \A T \in SUBSET (1..n) : IsFiniteSet(T) /\ Cardinality(T) \in Nat
  <2>1. IsFiniteSet(1..n)
    BY FS_Interval
  <2> QED BY <2>1, FS_Subset, FS_CardinalityType
<1>2. SUFFICES ASSUME Wrong # {} PROVE FALSE
  OBVIOUS
<1>3. Sizes \subseteq Nat /\ Sizes # {}
  BY <1>1, <1>2
<1>4. PICK c \in Sizes : \A m \in Sizes : c <= m
  BY <1>3, LeastNumber
<1>5. PICK T \in Wrong : c = Cardinality(T)
  OBVIOUS
<1>6. T # {} /\ T \in SUBSET (1..n)
  BY DEF SameSteps
<1> DEFINE x == Max(T)
<1>7. x \in T
  BY <1>6, LargestPosition
<1> HIDE DEF x
<1>8. T \ {x} \in SUBSET (1..n)
  BY <1>6
<1>9. Cardinality(T \ {x}) = Cardinality(T) - 1 /\ Cardinality(T) \in Nat
  BY <1>1, <1>6, <1>7, <1>8, FS_RemoveElement
<1>10. T \ {x} \notin Wrong
  <2>1. \A m \in Sizes : Cardinality(T) <= m
    BY <1>4, <1>5
  <2>2. T \ {x} \in Wrong => Cardinality(T \ {x}) \in Sizes
    OBVIOUS
  <2> HIDE DEF Wrong, Sizes
  <2> QED BY <1>9, <2>1, <2>2
<1>11. f[T \ {x}] = g[T \ {x}]
  BY <1>8, <1>10
<1> QED BY <1>5, <1>6, <1>11 DEF x, SameSteps

LEMMA FoldsExist ==
    ASSUME NEW V, NEW E, NEW f, Operation(V, E, f), NEW base \in V, NEW s \in Seq(E)
    PROVE  \E g \in [SUBSET (1..Len(s)) -> V] : IsFold(f, base, s, g)
<1> DEFINE P == {t \in Seq(E) : \E g \in [SUBSET (1..Len(t)) -> V] : IsFold(f, base, t, g)}
<1>1. << >> \in P
  <2> DEFINE g == [T \in SUBSET (1..0) |-> base]
  <2>1. 1..0 = {} /\ SUBSET (1..0) = {{}} /\ Len(<< >>) = 0
    OBVIOUS
  <2>2. g \in [SUBSET (1..0) -> V]
    OBVIOUS
  <2>3. IsFold(f, base, << >>, g)
    BY <2>1 DEF IsFold
  <2> HIDE DEF g
  <2>4. 1..Len(<< >>) = 1..0 /\ << >> \in Seq(E)
    OBVIOUS
  <2> QED BY <2>2, <2>3, <2>4
<1>2. ASSUME NEW t \in Seq(E), NEW e \in E, t \in P PROVE Append(t, e) \in P
  <2> DEFINE n == Len(t)
             u == Append(t, e)
  <2>1. PICK g \in [SUBSET (1..n) -> V] : IsFold(f, base, t, g)
    BY <1>2
  <2> DEFINE m == n + 1
             h == [T \in SUBSET (1..m) |-> IF m \in T THEN f[g[T \ {m}]][e] ELSE g[T]]
  <2>2. /\ n \in Nat /\ Len(u) = m /\ u \in Seq(E) /\ u[m] = e /\ \A i \in 1..n : u[i] = t[i]
    OBVIOUS
  <2> HIDE DEF u, n
  <2>3. \A T \in SUBSET (1..m) : T \ {m} \in SUBSET (1..n)
    BY <2>2
  <2>4. h \in [SUBSET (1..m) -> V]
    <3> SUFFICES ASSUME NEW T \in SUBSET (1..m)
                 PROVE (IF m \in T THEN f[g[T \ {m}]][e] ELSE g[T]) \in V
      OBVIOUS
    <3>1. g[T \ {m}] \in V
      BY <2>1, <2>3
    <3>2. m \notin T => T \ {m} = T
      OBVIOUS
    <3>3. f[g[T \ {m}]][e] \in V
      BY <3>1 DEF Operation
    <3> HIDE DEF m
    <3> QED BY <3>1, <3>2, <3>3
  <2>5. ASSUME NEW T \in SUBSET (1..m), T # {}
        PROVE h[T] = f[h[T \ {Max(T)}]][u[Max(T)]]
    <3>1. CASE m \in T
      <4>1. Max(T) = m
        <5>1. m \in Nat /\ T \subseteq 1..m /\ \A x \in T : x <= m
          BY <2>2
        <5> HIDE DEF m, h
        <5> QED BY <2>5, <3>1, <5>1, LargestPosition
      <4>2. T \ {m} \in SUBSET (1..m) /\ m \notin T \ {m}
        OBVIOUS
      <4>3. h[T \ {m}] = g[T \ {m}]
        BY <4>2
      <4> QED BY <2>2, <3>1, <4>1, <4>3
    <3>2. CASE m \notin T
      <4>1. T \in SUBSET (1..n)
        BY <2>3, <3>2
      <4> DEFINE x == Max(T)
      <4>2. x \in T /\ x \in 1..n
        BY <2>2, <2>5, <4>1, LargestPosition
      <4>3. g[T] = f[g[T \ {x}]][t[x]]
        BY <2>1, <2>5, <4>1 DEF IsFold, n
      <4> HIDE DEF x
      <4>4. T \ {x} \in SUBSET (1..m) /\ m \notin T \ {x}
        BY <3>2
      <4>5. h[T \ {x}] = g[T \ {x}] /\ h[T] = g[T]
        BY <3>2, <4>4
      <4> QED BY <2>2, <4>2, <4>3, <4>5 DEF x
    <3> QED BY <3>1, <3>2
  <2>6. h[{}] = base
    BY <2>1, <2>2 DEF IsFold, n
  <2>7. IsFold(f, base, u, h)
    <3> DEFINE k == [T \in SUBSET (1..m) |-> IF T = {} THEN base ELSE f[h[T \ {Max(T)}]][u[Max(T)]]]
    <3>1. DOMAIN h = SUBSET (1..m) /\ DOMAIN k = SUBSET (1..m)
      OBVIOUS
    <3>2. \A T \in SUBSET (1..m) : h[T] = k[T]
      <4> HIDE DEF h
      <4> QED BY <2>5, <2>6
    <3>3. h = k
      <4> h \in [SUBSET (1..m) -> V] /\ k = [T \in SUBSET (1..m) |-> k[T]]
        BY <2>4
      <4> HIDE DEF h, k, m
      <4> QED BY <3>1, <3>2
    <3> HIDE DEF h
    <3> QED BY <2>2, <3>3 DEF IsFold
  <2> QED BY <2>2, <2>4, <2>7 DEF u
<1> HIDE DEF P
<1>3. Seq(E) \subseteq P
  BY <1>1, <1>2, AllSequences
<1> QED BY <1>3 DEF P

\* What f leaves of base after the elements of s.
After(f, base, s) == (CHOOSE g : IsFold(f, base, s, g))[1..Len(s)]

LEMMA AfterFolds ==
    ASSUME NEW f, NEW base, NEW s, Len(s) \in Nat, NEW g, IsFold(f, base, s, g)
    PROVE  After(f, base, s) = g[1..Len(s)]
<1> DEFINE h == CHOOSE h : IsFold(f, base, s, h)
<1>1. IsFold(f, base, s, h)
  OBVIOUS
<1> HIDE DEF h
<1>2. h[{}] = base /\ g[{}] = base
  BY <1>1 DEF IsFold
<1>3. \A T \in SUBSET (1..Len(s)) : T # {} /\ h[T \ {Max(T)}] = g[T \ {Max(T)}] => h[T] = g[T]
  BY <1>1 DEF IsFold
<1>4. SameSteps(Len(s), h, g)
  BY <1>2, <1>3 DEF SameSteps
<1>5. \A T \in SUBSET (1..Len(s)) : h[T] = g[T]
  BY <1>4, FoldsAlike
<1> QED BY <1>5 DEF After, h

LEMMA AfterType ==
    ASSUME NEW V, NEW E, NEW f, Operation(V, E, f), NEW base \in V, NEW s \in Seq(E)
    PROVE  After(f, base, s) \in V
<1>1. PICK g \in [SUBSET (1..Len(s)) -> V] : IsFold(f, base, s, g)
  BY FoldsExist
<1>2. After(f, base, s) = g[1..Len(s)]
  <2>1. Len(s) \in Nat
    OBVIOUS
  <2> QED BY <1>1, <2>1, AfterFolds
<1>3. g[1..Len(s)] \in V
  BY <1>1
<1> QED BY <1>2, <1>3

LEMMA AfterNothing ==
    ASSUME NEW V, NEW E, NEW f, Operation(V, E, f), NEW base \in V
    PROVE  After(f, base, << >>) = base
<1>1. << >> \in Seq(E) /\ Len(<< >>) = 0 /\ 1..0 = {}
  OBVIOUS
<1>2. PICK g \in [SUBSET (1..0) -> V] : IsFold(f, base, << >>, g)
  BY <1>1, FoldsExist
<1>3. g[{}] = base
  BY <1>2 DEF IsFold
<1>4. After(f, base, << >>) = g[1..Len(<< >>)]
  BY <1>1, <1>2, AfterFolds
<1> QED BY <1>1, <1>3, <1>4

LEMMA AfterOneMore ==
    ASSUME NEW V, NEW E, NEW f, Operation(V, E, f), NEW base \in V, NEW s \in Seq(E), NEW e \in E
    PROVE  After(f, base, Append(s, e)) = f[After(f, base, s)][e]
<1> DEFINE n == Len(s)
           u == Append(s, e)
<1>1. n \in Nat /\ Len(u) = n + 1 /\ u \in Seq(E) /\ u[n + 1] = e /\ \A i \in 1..n : u[i] = s[i]
  OBVIOUS
<1>2. PICK g \in [SUBSET (1..n) -> V] : IsFold(f, base, s, g)
  BY FoldsExist
<1>3. PICK h \in [SUBSET (1..(n + 1)) -> V] : IsFold(f, base, u, h)
  BY <1>1, FoldsExist
<1>4. After(f, base, s) = g[1..n] /\ After(f, base, u) = h[1..(n + 1)]
  <2>1. IsFold(f, base, s, g) /\ IsFold(f, base, u, h) /\ Len(s) \in Nat /\ Len(u) \in Nat
    BY <1>1, <1>2, <1>3
  <2> HIDE DEF u
  <2>2. After(f, base, s) = g[1..Len(s)] /\ After(f, base, u) = h[1..Len(u)]
    BY <2>1, AfterFolds
  <2> QED BY <1>1, <2>2
<1> HIDE DEF n, u
<1>5. \A T \in SUBSET (1..n) : h[T] = g[T]
  <2>1. h[{}] = base /\ g[{}] = base
    BY <1>2, <1>3 DEF IsFold
  <2>2. ASSUME NEW T \in SUBSET (1..n), T # {}, h[T \ {Max(T)}] = g[T \ {Max(T)}]
        PROVE h[T] = g[T]
    <3>1. Max(T) \in 1..n
      BY <1>1, <2>2, LargestPosition
    <3>2. g[T] = f[g[T \ {Max(T)}]][s[Max(T)]]
      BY <1>2, <2>2 DEF IsFold, n
    <3>3. h[T] = f[h[T \ {Max(T)}]][u[Max(T)]]
      <4>1. T \in SUBSET (1..Len(u))
        BY <1>1
      <4> QED BY <1>3, <2>2, <4>1 DEF IsFold
    <3> QED BY <1>1, <2>2, <3>1, <3>2, <3>3
  <2>3. SameSteps(n, h, g)
    BY <2>1, <2>2 DEF SameSteps
  <2>4. n \in Nat
    BY <1>1
  <2> QED BY <2>3, <2>4, FoldsAlike
<1>6. Max(1..(n + 1)) = n + 1
  <2> DEFINE m == n + 1
             T == 1..m
  <2>1. m \in Nat /\ m >= 1
    BY <1>1
  <2>3. m \in T /\ T \subseteq 1..m /\ T # {} /\ \A x \in T : x <= m
    BY <2>1
  <2> HIDE DEF m, T
  <2>2. Max(T) = m
    BY <2>1, <2>3, LargestPosition
  <2> QED BY <2>2 DEF m, T
<1>7. (1..(n + 1)) \ {n + 1} = 1..n
  BY <1>1
<1>8. h[1..(n + 1)] = f[h[1..n]][e]
  <2>1. h[1..(n + 1)] = f[h[(1..(n + 1)) \ {Max(1..(n + 1))}]][u[Max(1..(n + 1))]]
    <3>1. 1..(n + 1) # {} /\ 1..(n + 1) \in SUBSET (1..Len(u))
      <4>1. n + 1 \in 1..(n + 1)
        BY <1>1
      <4> QED BY <1>1, <4>1
    <3> QED BY <1>3, <3>1 DEF IsFold
  <2> QED BY <1>1, <1>6, <1>7, <2>1
<1> QED BY <1>4, <1>5, <1>8 DEF u

\* What holds of a fold's own function, if it is total.
Obeys(V, f, base, s, h) ==
    /\ h[{}] = base
    /\ \A T \in SUBSET (1..Len(s)) :
          T # {} /\ h[T \ {Max(T)}] \in V => h[T] = f[h[T \ {Max(T)}]][s[Max(T)]]

LEMMA FoldIsAfter ==
    ASSUME NEW V, NEW E, NEW f, Operation(V, E, f), NEW base \in V, NEW s \in Seq(E),
           NEW h, Obeys(V, f, base, s, h)
    PROVE  h[1..Len(s)] = After(f, base, s)
<1>1. PICK g \in [SUBSET (1..Len(s)) -> V] : IsFold(f, base, s, g)
  BY FoldsExist
<1>2. Len(s) \in Nat
  OBVIOUS
<1>3. SameSteps(Len(s), h, g)
  <2>1. g[{}] = base
    BY <1>1 DEF IsFold
  <2>2. ASSUME NEW T \in SUBSET (1..Len(s)), T # {}, h[T \ {Max(T)}] = g[T \ {Max(T)}]
        PROVE h[T] = g[T]
    <3>1. g[T \ {Max(T)}] \in V
      BY <1>1
    <3>2. g[T] = f[g[T \ {Max(T)}]][s[Max(T)]]
      BY <1>1, <2>2 DEF IsFold
    <3> QED BY <2>2, <3>1, <3>2 DEF Obeys
  <2> QED BY <2>1, <2>2 DEF SameSteps, Obeys
<1>4. \A T \in SUBSET (1..Len(s)) : h[T] = g[T]
  BY <1>2, <1>3, FoldsAlike
<1>5. After(f, base, s) = g[1..Len(s)]
  BY <1>1, <1>2, AfterFolds
<1> QED BY <1>4, <1>5

\* Any text, and any that has no newline in it.
Text == Seq(Runes)
Line == Seq(Runes \ {"newline"})

LEMMA AfterLaws ==
    ASSUME NEW V, NEW E, NEW f, Operation(V, E, f), NEW base \in V
    PROVE  /\ After(f, base, << >>) = base
           /\ \A s \in Seq(E) :
                 /\ After(f, base, s) \in V
                 /\ \A e \in E : After(f, base, Append(s, e)) = f[After(f, base, s)][e]
  BY AfterNothing, AfterType, AfterOneMore

-----------------------------------------------------------------------------
(* The folds of Split.  Each is the work of one operation, step by step: so *)
(* much is to be shown of FoldLeft; the laws below follow.                  *)

NoText == << >>

\* What Letters, AllLetters, Lines, Joined and Pairs do with one element more.
KeepLetter == [t \in Text |-> [e \in Runes |-> IF e = "newline" THEN t ELSE Append(t, e)]]

LEMMA TextLaws ==
    /\ Text = Seq(Runes) /\ << >> \in Text
    /\ \A t \in Text, r \in Runes : Append(t, r) \in Text
    /\ \A t, u \in Text : t \o u \in Text
BY DEF Text

LEMMA LettersAfter ==
    ASSUME NEW s \in Text
    PROVE  Operation(Text, Runes, KeepLetter) /\ NoText \in Text /\ Letters(s) = After(KeepLetter, NoText, s)
<1> DEFINE Does(t, e) == IF e = "newline" THEN t ELSE Append(t, e)
           Made(g) == g = [T \in SUBSET (DOMAIN s) |->
                              IF T = {} THEN << >> ELSE Does(g[T \ {Max(T)}], s[Max(T)])]
<1>1. Letters(s) = (CHOOSE g : Made(g))[DOMAIN s]
  BY DEF Letters, FoldLeft, MapThenFoldSet
<1>2. DOMAIN s = 1..Len(s) /\ Len(s) \in Nat /\ s \in Seq(Runes)
  BY DEF Text
<1>3. Operation(Text, Runes, KeepLetter) /\ NoText \in Text /\ \A t \in Text, e \in Runes : KeepLetter[t][e] = Does(t, e)
  BY DEF KeepLetter, Text, NoText, Operation
<1>4. PICK g \in [SUBSET (1..Len(s)) -> Text] : IsFold(KeepLetter, NoText, s, g)
  BY <1>2, <1>3, FoldsExist
<1> HIDE DEF Does
<1>5. \A T \in SUBSET (1..Len(s)) : T # {} => s[Max(T)] \in Runes
  <2>1. \A T \in SUBSET (1..Len(s)) : T # {} => Max(T) \in 1..Len(s)
    BY <1>2, LargestPosition
  <2> QED BY <1>2, <2>1
<1>6. Made(g)
  <2> DEFINE k == [T \in SUBSET (DOMAIN s) |->
                      IF T = {} THEN << >> ELSE Does(g[T \ {Max(T)}], s[Max(T)])]
  <2>1. \A T \in SUBSET (1..Len(s)) : g[T] = k[T]
    <3> TAKE T \in SUBSET (1..Len(s))
    <3>1. g[T] = IF T = {} THEN NoText ELSE KeepLetter[g[T \ {Max(T)}]][s[Max(T)]]
      BY <1>4 DEF IsFold
    <3>2. g[T \ {Max(T)}] \in Text
      BY <1>4
    <3> QED BY <1>2, <1>3, <1>5, <3>1, <3>2 DEF NoText
  <2>2. DOMAIN g = SUBSET (1..Len(s)) /\ DOMAIN k = SUBSET (1..Len(s))
    BY <1>2
  <2> HIDE DEF k
  <2>3. g = k
    BY <1>4, <2>1, <2>2 DEF k
  <2> QED BY <2>3 DEF k
<1> DEFINE h == CHOOSE h : Made(h)
<1>7. Made(h)
  BY <1>6
<1> HIDE DEF h
<1>8. h[{}] = NoText
  BY <1>7 DEF NoText
<1>9. ASSUME NEW T \in SUBSET (1..Len(s)), T # {}, h[T \ {Max(T)}] \in Text
      PROVE h[T] = KeepLetter[h[T \ {Max(T)}]][s[Max(T)]]
  <2>1. h[T] = Does(h[T \ {Max(T)}], s[Max(T)])
    BY <1>2, <1>7, <1>9
  <2> QED BY <1>3, <1>5, <1>9, <2>1
<1> HIDE DEF Made
<1>10. h[1..Len(s)] = After(KeepLetter, NoText, s)
  <2>1. Obeys(Text, KeepLetter, NoText, s, h)
    BY <1>8, <1>9 DEF Obeys
  <2> QED BY <1>2, <1>3, <2>1, FoldIsAfter
<1> QED BY <1>1, <1>2, <1>3, <1>10 DEF h

LEMMA LettersLaws ==
    /\ Letters(<< >>) = << >>
    /\ \A t \in Text : Letters(t) \in Text
    /\ \A t \in Text, r \in Runes :
          Letters(Append(t, r)) = IF r = "newline" THEN Letters(t) ELSE Append(Letters(t), r)
<1>2. Operation(Text, Runes, KeepLetter) /\ NoText \in Text /\ \A t \in Text : Letters(t) = After(KeepLetter, NoText, t)
  BY TextLaws, LettersAfter
<1>3. /\ After(KeepLetter, NoText, << >>) = NoText
      /\ \A t \in Text : After(KeepLetter, NoText, t) \in Text
      /\ \A t \in Text, r \in Runes :
            After(KeepLetter, NoText, Append(t, r)) = KeepLetter[After(KeepLetter, NoText, t)][r]
  <2>1. /\ After(KeepLetter, NoText, << >>) = NoText
        /\ \A s \in Seq(Runes) :
              /\ After(KeepLetter, NoText, s) \in Text
              /\ \A r \in Runes : After(KeepLetter, NoText, Append(s, r)) = KeepLetter[After(KeepLetter, NoText, s)][r]
    BY <1>2, AfterLaws
  <2> QED BY <2>1, TextLaws
<1>4. Letters(<< >>) = << >>
  BY <1>2, <1>3, TextLaws DEF NoText
<1>5. ASSUME NEW t \in Text, NEW r \in Runes
      PROVE Letters(Append(t, r)) = IF r = "newline" THEN Letters(t) ELSE Append(Letters(t), r)
  <2>1. Letters(Append(t, r)) = KeepLetter[Letters(t)][r] /\ Letters(t) \in Text
    BY <1>2, <1>3, TextLaws
  <2> QED BY <2>1 DEF KeepLetter
<1> QED BY <1>2, <1>3, <1>4, <1>5

AddLetters == [t \in Text |-> [e \in Text |-> t \o Letters(e)]]

LEMMA AllLettersAfter ==
    ASSUME NEW s \in Seq(Text)
    PROVE  Operation(Text, Text, AddLetters) /\ NoText \in Text /\ AllLetters(s) = After(AddLetters, NoText, s)
<1> DEFINE Does(t, e) == t \o Letters(e)
           Made(g) == g = [T \in SUBSET (DOMAIN s) |->
                              IF T = {} THEN << >> ELSE Does(g[T \ {Max(T)}], s[Max(T)])]
<1>1. AllLetters(s) = (CHOOSE g : Made(g))[DOMAIN s]
  BY DEF AllLetters, FoldLeft, MapThenFoldSet
<1>2. DOMAIN s = 1..Len(s) /\ Len(s) \in Nat /\ s \in Seq(Text)
  OBVIOUS
<1>3. Operation(Text, Text, AddLetters) /\ NoText \in Text /\ \A t \in Text, e \in Text : AddLetters[t][e] = Does(t, e)
  BY TextLaws, LettersLaws DEF AddLetters, NoText, Operation
<1>4. PICK g \in [SUBSET (1..Len(s)) -> Text] : IsFold(AddLetters, NoText, s, g)
  BY <1>2, <1>3, FoldsExist
<1> HIDE DEF Does
<1>5. \A T \in SUBSET (1..Len(s)) : T # {} => s[Max(T)] \in Text
  <2>1. \A T \in SUBSET (1..Len(s)) : T # {} => Max(T) \in 1..Len(s)
    BY <1>2, LargestPosition
  <2> QED BY <1>2, <2>1
<1>6. Made(g)
  <2> DEFINE k == [T \in SUBSET (DOMAIN s) |->
                      IF T = {} THEN << >> ELSE Does(g[T \ {Max(T)}], s[Max(T)])]
  <2>1. \A T \in SUBSET (1..Len(s)) : g[T] = k[T]
    <3> TAKE T \in SUBSET (1..Len(s))
    <3>1. g[T] = IF T = {} THEN NoText ELSE AddLetters[g[T \ {Max(T)}]][s[Max(T)]]
      BY <1>4 DEF IsFold
    <3>2. g[T \ {Max(T)}] \in Text
      BY <1>4
    <3> QED BY <1>2, <1>3, <1>5, <3>1, <3>2 DEF NoText
  <2>2. DOMAIN g = SUBSET (1..Len(s)) /\ DOMAIN k = SUBSET (1..Len(s))
    BY <1>2
  <2> HIDE DEF k
  <2>3. g = k
    BY <1>4, <2>1, <2>2 DEF k
  <2> QED BY <2>3 DEF k
<1> DEFINE h == CHOOSE h : Made(h)
<1>7. Made(h)
  BY <1>6
<1> HIDE DEF h
<1>8. h[{}] = NoText
  BY <1>7 DEF NoText
<1>9. ASSUME NEW T \in SUBSET (1..Len(s)), T # {}, h[T \ {Max(T)}] \in Text
      PROVE h[T] = AddLetters[h[T \ {Max(T)}]][s[Max(T)]]
  <2>1. h[T] = Does(h[T \ {Max(T)}], s[Max(T)])
    BY <1>2, <1>7, <1>9
  <2> QED BY <1>3, <1>5, <1>9, <2>1
<1> HIDE DEF Made
<1>10. h[1..Len(s)] = After(AddLetters, NoText, s)
  <2>1. Obeys(Text, AddLetters, NoText, s, h)
    BY <1>8, <1>9 DEF Obeys
  <2> QED BY <1>2, <1>3, <2>1, FoldIsAfter
<1> QED BY <1>1, <1>2, <1>3, <1>10 DEF h

LEMMA AllLettersLaws ==
    /\ AllLetters(<< >>) = << >>
    /\ \A ps \in Seq(Text) : AllLetters(ps) \in Text
    /\ \A ps \in Seq(Text), p \in Text : AllLetters(Append(ps, p)) = AllLetters(ps) \o Letters(p)
<1>1. << >> \in Seq(Text) /\ \A ps \in Seq(Text), p \in Text : Append(ps, p) \in Seq(Text)
  OBVIOUS
<1>2. Operation(Text, Text, AddLetters) /\ NoText \in Text /\ \A ps \in Seq(Text) : AllLetters(ps) = After(AddLetters, NoText, ps)
  BY <1>1, AllLettersAfter
<1>3. /\ After(AddLetters, NoText, << >>) = NoText
      /\ \A ps \in Seq(Text) : After(AddLetters, NoText, ps) \in Text
      /\ \A ps \in Seq(Text), p \in Text :
            After(AddLetters, NoText, Append(ps, p)) = AddLetters[After(AddLetters, NoText, ps)][p]
  BY <1>2, AfterLaws
<1>4. AllLetters(<< >>) = << >>
  BY <1>1, <1>2, <1>3 DEF NoText
<1>5. ASSUME NEW ps \in Seq(Text), NEW p \in Text
      PROVE AllLetters(Append(ps, p)) = AllLetters(ps) \o Letters(p)
  <2>1. AllLetters(Append(ps, p)) = AddLetters[AllLetters(ps)][p] /\ AllLetters(ps) \in Text
    BY <1>1, <1>2, <1>3
  <2> QED BY <2>1 DEF AddLetters
<1> QED BY <1>2, <1>3, <1>4, <1>5

\* A text has one line at least.
NoLines == << << >> >>
SomeLines == Seq(Line) \ {<< >>}
AddRune == [t \in SomeLines |-> [e \in Runes |->
    IF e = "newline" THEN Append(t, << >>) ELSE [t EXCEPT ![Len(t)] = Append(@, e)]]]

LEMMA AddRuneType ==
    /\ NoLines \in SomeLines
    /\ \A t \in SomeLines, e \in Runes :
          (IF e = "newline" THEN Append(t, << >>) ELSE [t EXCEPT ![Len(t)] = Append(@, e)]) \in SomeLines
<1>1. NoLines \in SomeLines
  BY DEF NoLines, SomeLines, Line
<1>2. ASSUME NEW t \in SomeLines, NEW e \in Runes, e # "newline"
      PROVE [t EXCEPT ![Len(t)] = Append(@, e)] \in SomeLines
  <2>1. t \in Seq(Line) /\ Len(t) \in 1..Len(t) /\ t[Len(t)] \in Line
    BY DEF SomeLines
  <2>2. Append(t[Len(t)], e) \in Line
    BY <1>2, <2>1 DEF Line
  <2>3. [t EXCEPT ![Len(t)] = Append(@, e)] \in Seq(Line) /\ Len([t EXCEPT ![Len(t)] = Append(@, e)]) = Len(t)
    BY <2>1, <2>2
  <2> QED BY <2>1, <2>3 DEF SomeLines
<1>3. ASSUME NEW t \in SomeLines PROVE Append(t, << >>) \in SomeLines
  <2>1. << >> \in Line
    BY DEF Line
  <2> QED BY <2>1 DEF SomeLines
<1> QED BY <1>1, <1>2, <1>3

LEMMA LinesAfter ==
    ASSUME NEW s \in Text
    PROVE  Operation(SomeLines, Runes, AddRune) /\ NoLines \in SomeLines /\ Lines(s) = After(AddRune, NoLines, s)
<1> DEFINE Does(t, e) == IF e = "newline" THEN Append(t, << >>) ELSE [t EXCEPT ![Len(t)] = Append(@, e)]
           Made(g) == g = [T \in SUBSET (DOMAIN s) |->
                              IF T = {} THEN << << >> >> ELSE Does(g[T \ {Max(T)}], s[Max(T)])]
<1>1. Lines(s) = (CHOOSE g : Made(g))[DOMAIN s]
  BY DEF Lines, FoldLeft, MapThenFoldSet
<1>2. DOMAIN s = 1..Len(s) /\ Len(s) \in Nat /\ s \in Seq(Runes)
  BY DEF Text
<1>3. Operation(SomeLines, Runes, AddRune) /\ NoLines \in SomeLines /\ \A t \in SomeLines, e \in Runes : AddRune[t][e] = Does(t, e)
  BY AddRuneType DEF AddRune, Operation
<1>4. PICK g \in [SUBSET (1..Len(s)) -> SomeLines] : IsFold(AddRune, NoLines, s, g)
  BY <1>2, <1>3, FoldsExist
<1> HIDE DEF Does
<1>5. \A T \in SUBSET (1..Len(s)) : T # {} => s[Max(T)] \in Runes
  <2>1. \A T \in SUBSET (1..Len(s)) : T # {} => Max(T) \in 1..Len(s)
    BY <1>2, LargestPosition
  <2> QED BY <1>2, <2>1
<1>6. Made(g)
  <2> DEFINE k == [T \in SUBSET (DOMAIN s) |->
                      IF T = {} THEN << << >> >> ELSE Does(g[T \ {Max(T)}], s[Max(T)])]
  <2>1. \A T \in SUBSET (1..Len(s)) : g[T] = k[T]
    <3> TAKE T \in SUBSET (1..Len(s))
    <3>1. g[T] = IF T = {} THEN NoLines ELSE AddRune[g[T \ {Max(T)}]][s[Max(T)]]
      BY <1>4 DEF IsFold
    <3>2. g[T \ {Max(T)}] \in SomeLines
      BY <1>4
    <3> QED BY <1>2, <1>3, <1>5, <3>1, <3>2 DEF NoLines
  <2>2. DOMAIN g = SUBSET (1..Len(s)) /\ DOMAIN k = SUBSET (1..Len(s))
    BY <1>2
  <2> HIDE DEF k
  <2>3. g = k
    BY <1>4, <2>1, <2>2 DEF k
  <2> QED BY <2>3 DEF k
<1> DEFINE h == CHOOSE h : Made(h)
<1>7. Made(h)
  BY <1>6
<1> HIDE DEF h
<1>8. h[{}] = NoLines
  BY <1>7 DEF NoLines
<1>9. ASSUME NEW T \in SUBSET (1..Len(s)), T # {}, h[T \ {Max(T)}] \in SomeLines
      PROVE h[T] = AddRune[h[T \ {Max(T)}]][s[Max(T)]]
  <2>1. h[T] = Does(h[T \ {Max(T)}], s[Max(T)])
    BY <1>2, <1>7, <1>9
  <2> QED BY <1>3, <1>5, <1>9, <2>1
<1> HIDE DEF Made
<1>10. h[1..Len(s)] = After(AddRune, NoLines, s)
  <2>1. Obeys(SomeLines, AddRune, NoLines, s, h)
    BY <1>8, <1>9 DEF Obeys
  <2> QED BY <1>2, <1>3, <2>1, FoldIsAfter
<1> QED BY <1>1, <1>2, <1>3, <1>10 DEF h

LEMMA LinesLaws ==
    /\ Lines(<< >>) = << << >> >>
    /\ \A t \in Text : Lines(t) \in Seq(Line) /\ Lines(t) # << >>
    /\ \A t \in Text, r \in Runes :
          Lines(Append(t, r)) = IF r = "newline" THEN Append(Lines(t), << >>)
                                ELSE [Lines(t) EXCEPT ![Len(Lines(t))] = Append(@, r)]
<1>1. Operation(SomeLines, Runes, AddRune) /\ NoLines \in SomeLines /\ \A t \in Text : Lines(t) = After(AddRune, NoLines, t)
  BY TextLaws, LinesAfter
<1>2. /\ After(AddRune, NoLines, << >>) = NoLines
      /\ \A t \in Text : After(AddRune, NoLines, t) \in SomeLines
      /\ \A t \in Text, r \in Runes :
            After(AddRune, NoLines, Append(t, r)) = AddRune[After(AddRune, NoLines, t)][r]
  BY <1>1, TextLaws, AfterLaws
<1>3. Lines(<< >>) = << << >> >>
  BY <1>1, <1>2, TextLaws DEF NoLines
<1>4. \A t \in Text : Lines(t) \in SomeLines
  BY <1>1, <1>2
<1>5. ASSUME NEW t \in Text, NEW r \in Runes
      PROVE Lines(Append(t, r)) = IF r = "newline" THEN Append(Lines(t), << >>)
                                  ELSE [Lines(t) EXCEPT ![Len(Lines(t))] = Append(@, r)]
  <2>1. Lines(Append(t, r)) = AddRune[Lines(t)][r]
    BY <1>1, <1>2, TextLaws
  <2> QED BY <1>4, <2>1 DEF AddRune
<1> QED BY <1>3, <1>4, <1>5 DEF SomeLines

\* Joined, from its first line on.
MoreLines(first, s) == FoldLeft(LAMBDA t, l : t \o <<"newline">> \o l, first, s)
AddLine == [t \in Text |-> [e \in Line |-> t \o <<"newline">> \o e]]

LEMMA LineLaws ==
    /\ Line = Seq(Runes \ {"newline"}) /\ << >> \in Line /\ Line \subseteq Text
    /\ \A l \in Line, r \in Runes \ {"newline"} : Append(l, r) \in Line
    /\ \A t \in Text, l \in Line : t \o <<"newline">> \in Text /\ t \o <<"newline">> \o l \in Text
<1>1. Runes \ {"newline"} \subseteq Runes /\ "newline" \in Runes
  BY DEF Runes
<1>2. Line \subseteq Text
  BY DEF Line, Text
<1>3. \A t \in Text : t \o <<"newline">> \in Text
  BY <1>1 DEF Text
<1> QED BY <1>2, <1>3, TextLaws DEF Line

LEMMA MoreLinesAfter ==
    ASSUME NEW first \in Text, NEW s \in Seq(Line)
    PROVE  Operation(Text, Line, AddLine) /\ first \in Text /\ MoreLines(first, s) = After(AddLine, first, s)
<1> DEFINE Does(t, e) == t \o <<"newline">> \o e
           Made(g) == g = [T \in SUBSET (DOMAIN s) |->
                              IF T = {} THEN first ELSE Does(g[T \ {Max(T)}], s[Max(T)])]
<1>1. MoreLines(first, s) = (CHOOSE g : Made(g))[DOMAIN s]
  BY DEF MoreLines, FoldLeft, MapThenFoldSet
<1>2. DOMAIN s = 1..Len(s) /\ Len(s) \in Nat /\ s \in Seq(Line)
  OBVIOUS
<1>3. Operation(Text, Line, AddLine) /\ first \in Text /\ \A t \in Text, e \in Line : AddLine[t][e] = Does(t, e)
  BY LineLaws DEF AddLine, Operation
<1>4. PICK g \in [SUBSET (1..Len(s)) -> Text] : IsFold(AddLine, first, s, g)
  BY <1>2, <1>3, FoldsExist
<1> HIDE DEF Does
<1>5. \A T \in SUBSET (1..Len(s)) : T # {} => s[Max(T)] \in Line
  <2>1. \A T \in SUBSET (1..Len(s)) : T # {} => Max(T) \in 1..Len(s)
    BY <1>2, LargestPosition
  <2> QED BY <1>2, <2>1
<1>6. Made(g)
  <2> DEFINE k == [T \in SUBSET (DOMAIN s) |->
                      IF T = {} THEN first ELSE Does(g[T \ {Max(T)}], s[Max(T)])]
  <2>1. \A T \in SUBSET (1..Len(s)) : g[T] = k[T]
    <3> TAKE T \in SUBSET (1..Len(s))
    <3>1. g[T] = IF T = {} THEN first ELSE AddLine[g[T \ {Max(T)}]][s[Max(T)]]
      BY <1>4 DEF IsFold
    <3>2. g[T \ {Max(T)}] \in Text
      BY <1>4
    <3> QED BY <1>2, <1>3, <1>5, <3>1, <3>2
  <2>2. DOMAIN g = SUBSET (1..Len(s)) /\ DOMAIN k = SUBSET (1..Len(s))
    BY <1>2
  <2> HIDE DEF k
  <2>3. g = k
    BY <1>4, <2>1, <2>2 DEF k
  <2> QED BY <2>3 DEF k
<1> DEFINE h == CHOOSE h : Made(h)
<1>7. Made(h)
  BY <1>6
<1> HIDE DEF h
<1>8. h[{}] = first
  BY <1>7
<1>9. ASSUME NEW T \in SUBSET (1..Len(s)), T # {}, h[T \ {Max(T)}] \in Text
      PROVE h[T] = AddLine[h[T \ {Max(T)}]][s[Max(T)]]
  <2>1. h[T] = Does(h[T \ {Max(T)}], s[Max(T)])
    BY <1>2, <1>7, <1>9
  <2> QED BY <1>3, <1>5, <1>9, <2>1
<1> HIDE DEF Made
<1>10. h[1..Len(s)] = After(AddLine, first, s)
  <2>1. Obeys(Text, AddLine, first, s, h)
    BY <1>8, <1>9 DEF Obeys
  <2> QED BY <1>2, <1>3, <2>1, FoldIsAfter
<1> QED BY <1>1, <1>2, <1>3, <1>10 DEF h

LEMMA JoinedLaws ==
    /\ Joined(<< >>) = << >>
    /\ \A ls \in Seq(Line) : Joined(ls) \in Text
    /\ \A l \in Line : Joined(<<l>>) = l
    /\ \A ls \in Seq(Line), l \in Line :
          ls # << >> => Joined(Append(ls, l)) = Joined(ls) \o <<"newline">> \o l
<1>1. Joined(<< >>) = << >>
  BY DEF Joined
<1>2. ASSUME NEW ls \in Seq(Line), ls # << >>
      PROVE Head(ls) \in Text /\ Tail(ls) \in Seq(Line) /\ Joined(ls) = MoreLines(Head(ls), Tail(ls))
  <2>1. Head(ls) \in Line /\ Tail(ls) \in Seq(Line)
    BY <1>2
  <2>2. Joined(ls) = MoreLines(Head(ls), Tail(ls))
    BY <1>2 DEF Joined, MoreLines, FoldLeft, MapThenFoldSet
  <2> QED BY <2>1, <2>2, LineLaws
<1>3. ASSUME NEW first \in Text
      PROVE /\ MoreLines(first, << >>) = first
            /\ \A ls \in Seq(Line) : MoreLines(first, ls) \in Text
            /\ \A ls \in Seq(Line), l \in Line :
                  MoreLines(first, Append(ls, l)) = MoreLines(first, ls) \o <<"newline">> \o l
  <2>1. Operation(Text, Line, AddLine) /\ \A ls \in Seq(Line) : MoreLines(first, ls) = After(AddLine, first, ls)
    <3>1. << >> \in Seq(Line)
      OBVIOUS
    <3> QED BY <3>1, MoreLinesAfter
  <2>2. /\ After(AddLine, first, << >>) = first
        /\ \A ls \in Seq(Line) :
              /\ After(AddLine, first, ls) \in Text
              /\ \A l \in Line : After(AddLine, first, Append(ls, l)) = AddLine[After(AddLine, first, ls)][l]
    BY <2>1, AfterLaws
  <2>3. << >> \in Seq(Line) /\ \A ls \in Seq(Line), l \in Line : Append(ls, l) \in Seq(Line)
    OBVIOUS
  <2>4. ASSUME NEW ls \in Seq(Line), NEW l \in Line
        PROVE MoreLines(first, Append(ls, l)) = MoreLines(first, ls) \o <<"newline">> \o l
    <3>1. MoreLines(first, Append(ls, l)) = AddLine[MoreLines(first, ls)][l] /\ MoreLines(first, ls) \in Text
      BY <2>1, <2>2, <2>3
    <3> QED BY <3>1 DEF AddLine
  <2> QED BY <2>1, <2>2, <2>3, <2>4
<1>4. ASSUME NEW l \in Line PROVE Joined(<<l>>) = l
  <2>1. <<l>> \in Seq(Line) /\ <<l>> # << >> /\ Head(<<l>>) = l /\ Tail(<<l>>) = << >>
    OBVIOUS
  <2> QED BY <1>2, <1>3, <2>1
<1>5. ASSUME NEW ls \in Seq(Line), NEW l \in Line, ls # << >>
      PROVE Joined(Append(ls, l)) = Joined(ls) \o <<"newline">> \o l
  <2>1. /\ Append(ls, l) \in Seq(Line) /\ Append(ls, l) # << >>
        /\ Head(Append(ls, l)) = Head(ls) /\ Tail(Append(ls, l)) = Append(Tail(ls), l)
    BY <1>5
  <2>2. /\ Head(ls) \in Text /\ Tail(ls) \in Seq(Line)
        /\ Joined(ls) = MoreLines(Head(ls), Tail(ls))
        /\ Joined(Append(ls, l)) = MoreLines(Head(ls), Append(Tail(ls), l))
    BY <1>2, <1>5, <2>1
  <2> DEFINE first == Head(ls)
             tail == Tail(ls)
  <2> HIDE DEF first, tail
  <2>3. first \in Text /\ tail \in Seq(Line)
    BY <2>2 DEF first, tail
  <2>4. MoreLines(first, Append(tail, l)) = MoreLines(first, tail) \o <<"newline">> \o l
    BY <1>3, <2>3
  <2> QED BY <2>2, <2>4 DEF first, tail
<1>6. \A ls \in Seq(Line) : Joined(ls) \in Text
  <2>1. ASSUME NEW ls \in Seq(Line), ls # << >> PROVE Joined(ls) \in Text
    BY <1>2, <1>3, <2>1
  <2> QED BY <1>1, <2>1, TextLaws
<1> QED BY <1>1, <1>4, <1>5, <1>6

\* Pairs, over any of the places of the text.
PairsFrom(text, s) ==
    FoldLeft(LAMBDA acc, i :
                IF text[i] # "mark" THEN acc
                ELSE IF acc.open = 0 THEN [acc EXCEPT !.open = i]
                ELSE [open |-> 0, pairs |-> acc.pairs + (IF i = acc.open + 1 THEN 0 ELSE 1)],
             [open |-> 0, pairs |-> 0], s)
Marks == [open : Nat, pairs : Nat]
NoMarks == [open |-> 0, pairs |-> 0]
AddMark(text) == [t \in Marks |-> [e \in 1..Len(text) |->
    IF text[e] # "mark" THEN t
    ELSE IF t.open = 0 THEN [t EXCEPT !.open = e]
    ELSE [open |-> 0, pairs |-> t.pairs + (IF e = t.open + 1 THEN 0 ELSE 1)]]]

LEMMA PairsAfter ==
    ASSUME NEW text \in Text, NEW s \in Seq(1..Len(text))
    PROVE  Operation(Marks, (1..Len(text)), AddMark(text)) /\ NoMarks \in Marks /\ PairsFrom(text, s) = After(AddMark(text), NoMarks, s)
<1> DEFINE Does(t, e) == 
              IF text[e] # "mark" THEN t
              ELSE IF t.open = 0 THEN [t EXCEPT !.open = e]
              ELSE [open |-> 0, pairs |-> t.pairs + (IF e = t.open + 1 THEN 0 ELSE 1)]
           Made(g) == g = [T \in SUBSET (DOMAIN s) |->
                              IF T = {} THEN [open |-> 0, pairs |-> 0] ELSE Does(g[T \ {Max(T)}], s[Max(T)])]
<1>1. PairsFrom(text, s) = (CHOOSE g : Made(g))[DOMAIN s]
  BY DEF PairsFrom, FoldLeft, MapThenFoldSet
<1>2. DOMAIN s = 1..Len(s) /\ Len(s) \in Nat /\ s \in Seq((1..Len(text)))
  OBVIOUS
<1>3. Operation(Marks, (1..Len(text)), AddMark(text)) /\ NoMarks \in Marks /\ \A t \in Marks, e \in (1..Len(text)) : AddMark(text)[t][e] = Does(t, e)
  BY DEF AddMark, Marks, NoMarks, Operation
<1>4. PICK g \in [SUBSET (1..Len(s)) -> Marks] : IsFold(AddMark(text), NoMarks, s, g)
  BY <1>2, <1>3, FoldsExist
<1> HIDE DEF Does
<1>5. \A T \in SUBSET (1..Len(s)) : T # {} => s[Max(T)] \in (1..Len(text))
  <2>1. \A T \in SUBSET (1..Len(s)) : T # {} => Max(T) \in 1..Len(s)
    BY <1>2, LargestPosition
  <2> QED BY <1>2, <2>1
<1>6. Made(g)
  <2> DEFINE k == [T \in SUBSET (DOMAIN s) |->
                      IF T = {} THEN [open |-> 0, pairs |-> 0] ELSE Does(g[T \ {Max(T)}], s[Max(T)])]
  <2>1. \A T \in SUBSET (1..Len(s)) : g[T] = k[T]
    <3> TAKE T \in SUBSET (1..Len(s))
    <3>1. g[T] = IF T = {} THEN NoMarks ELSE AddMark(text)[g[T \ {Max(T)}]][s[Max(T)]]
      BY <1>4 DEF IsFold
    <3>2. g[T \ {Max(T)}] \in Marks
      BY <1>4
    <3> QED BY <1>2, <1>3, <1>5, <3>1, <3>2 DEF NoMarks
  <2>2. DOMAIN g = SUBSET (1..Len(s)) /\ DOMAIN k = SUBSET (1..Len(s))
    BY <1>2
  <2> HIDE DEF k
  <2>3. g = k
    BY <1>4, <2>1, <2>2 DEF k
  <2> QED BY <2>3 DEF k
<1> DEFINE h == CHOOSE h : Made(h)
<1>7. Made(h)
  BY <1>6
<1> HIDE DEF h
<1>8. h[{}] = NoMarks
  BY <1>7 DEF NoMarks
<1>9. ASSUME NEW T \in SUBSET (1..Len(s)), T # {}, h[T \ {Max(T)}] \in Marks
      PROVE h[T] = AddMark(text)[h[T \ {Max(T)}]][s[Max(T)]]
  <2>1. h[T] = Does(h[T \ {Max(T)}], s[Max(T)])
    BY <1>2, <1>7, <1>9
  <2> QED BY <1>3, <1>5, <1>9, <2>1
<1> HIDE DEF Made
<1>10. h[1..Len(s)] = After(AddMark(text), NoMarks, s)
  <2>1. Obeys(Marks, AddMark(text), NoMarks, s, h)
    BY <1>8, <1>9 DEF Obeys
  <2> QED BY <1>2, <1>3, <2>1, FoldIsAfter
<1> QED BY <1>1, <1>2, <1>3, <1>10 DEF h

LEMMA PairsLaws ==
    /\ \A t \in Text : Pairs(t) \in Nat
    /\ Pairs(<< >>) = 0 /\ \A r \in Runes : Pairs(<<r>>) = 0
<1>1. ASSUME NEW t \in Text, NEW s \in Seq(1..Len(t)), s = [i \in DOMAIN t |-> i]
      PROVE Pairs(t) = PairsFrom(t, s).pairs
  BY <1>1 DEF Pairs, PairsFrom, FoldLeft, MapThenFoldSet
<1>2. \A t \in Text : [i \in DOMAIN t |-> i] \in Seq(1..Len(t))
  BY DEF Text
<1>3. ASSUME NEW t \in Text
      PROVE /\ PairsFrom(t, << >>) = NoMarks
            /\ \A s \in Seq(1..Len(t)) : PairsFrom(t, s) \in Marks
            /\ \A s \in Seq(1..Len(t)), i \in 1..Len(t) : PairsFrom(t, Append(s, i)) = AddMark(t)[PairsFrom(t, s)][i]
  <2> DEFINE f == AddMark(t)
             I == 1..Len(t)
  <2>1. << >> \in Seq(I) /\ \A s \in Seq(I), i \in I : Append(s, i) \in Seq(I)
    OBVIOUS
  <2>2. Operation(Marks, I, f) /\ NoMarks \in Marks /\ \A s \in Seq(I) : PairsFrom(t, s) = After(f, NoMarks, s)
    BY <2>1, PairsAfter
  <2> HIDE DEF f, I
  <2>3. /\ After(f, NoMarks, << >>) = NoMarks
        /\ \A s \in Seq(I) :
              /\ After(f, NoMarks, s) \in Marks
              /\ \A i \in I : After(f, NoMarks, Append(s, i)) = f[After(f, NoMarks, s)][i]
    BY <2>2, AfterLaws
  <2>4. PairsFrom(t, << >>) = NoMarks /\ \A s \in Seq(I) : PairsFrom(t, s) \in Marks
    BY <2>1, <2>2, <2>3
  <2>5. ASSUME NEW s \in Seq(I), NEW i \in I PROVE PairsFrom(t, Append(s, i)) = f[PairsFrom(t, s)][i]
    <3>1. PairsFrom(t, Append(s, i)) = After(f, NoMarks, Append(s, i)) /\ PairsFrom(t, s) = After(f, NoMarks, s)
      BY <2>1, <2>2
    <3>2. After(f, NoMarks, Append(s, i)) = f[After(f, NoMarks, s)][i]
      BY <2>3
    <3> QED BY <3>1, <3>2
  <2> QED BY <2>4, <2>5 DEF f, I
<1>4. \A t \in Text : Pairs(t) \in Nat
  BY <1>1, <1>2, <1>3 DEF Marks
<1>5. Pairs(<< >>) = 0
  <2>1. << >> \in Text /\ << >> \in Seq(1..Len(<< >>)) /\ << >> = [i \in DOMAIN << >> |-> i]
    BY TextLaws
  <2>2. Pairs(<< >>) = PairsFrom(<< >>, << >>).pairs
    BY <1>1, <2>1
  <2> QED BY <1>3, <2>1, <2>2 DEF NoMarks
<1>6. ASSUME NEW r \in Runes PROVE Pairs(<<r>>) = 0
  <2> DEFINE t == <<r>>
  <2>1. t \in Text /\ Len(t) = 1 /\ DOMAIN t = 1..1
    BY DEF Text
  <2>2. /\ <<1>> \in Seq(1..Len(t)) /\ << >> \in Seq(1..Len(t)) /\ 1 \in 1..Len(t)
        /\ <<1>> = Append(<< >>, 1) /\ <<1>> = [i \in DOMAIN t |-> i]
    BY <2>1
  <2> HIDE DEF t
  <2>3. Pairs(t) = PairsFrom(t, <<1>>).pairs
    BY <1>1, <2>1, <2>2
  <2>4. PairsFrom(t, <<1>>) = AddMark(t)[NoMarks][1]
    <3>1. PairsFrom(t, Append(<< >>, 1)) = AddMark(t)[PairsFrom(t, << >>)][1]
      BY <1>3, <2>1, <2>2
    <3> QED BY <1>3, <2>1, <2>2, <3>1
  <2>5. AddMark(t)[NoMarks][1].pairs = 0
    BY <2>1 DEF AddMark, NoMarks, Marks
  <2> QED BY <2>3, <2>4, <2>5 DEF t
<1> QED BY <1>4, <1>5, <1>6

LEMMA MeasureLaws ==
    ASSUME NEW platform, TagUnits \in Nat
    PROVE  /\ \A t \in Text : Measure(platform, t) \in Nat
           /\ Measure(platform, << >>) = 0
           /\ \A r \in Runes : Measure(platform, <<r>>) <= 2
<1>1. ASSUME NEW t \in Text PROVE Measure(platform, t) \in Nat
  <2>1. Len(t) \in Nat /\ DOMAIN t = 1..Len(t) /\ IsFiniteSet(1..Len(t))
    BY FS_Interval DEF Text
  <2>2. IsFiniteSet({i \in DOMAIN t : t[i] = "emoji"})
    BY <2>1, FS_Subset
  <2>3. Cardinality({i \in DOMAIN t : t[i] = "emoji"}) \in Nat /\ TagUnits * Pairs(t) \in Nat
    BY <2>2, FS_CardinalityType, PairsLaws
  <2> QED BY <2>1, <2>3 DEF Measure
<1>2. Measure(platform, << >>) = 0
  <2>1. {i \in DOMAIN << >> : << >>[i] = "emoji"} = {} /\ Cardinality({}) = 0 /\ Len(<< >>) = 0
    BY FS_EmptySet
  <2>2. TagUnits * Pairs(<< >>) = 0
    BY PairsLaws
  <2> QED BY <2>1, <2>2 DEF Measure
<1>3. ASSUME NEW r \in Runes PROVE Measure(platform, <<r>>) <= 2
  <2>1. {i \in DOMAIN <<r>> : <<r>>[i] = "emoji"} \subseteq {1} /\ Len(<<r>>) = 1
    OBVIOUS
  <2>2. Cardinality({i \in DOMAIN <<r>> : <<r>>[i] = "emoji"}) \in 0..1
    <3>1. IsFiniteSet({1}) /\ Cardinality({1}) = 1
      BY FS_Singleton
    <3> QED BY <2>1, <3>1, FS_Subset, FS_CardinalityType
  <2>3. TagUnits * Pairs(<<r>>) = 0
    BY PairsLaws
  <2> QED BY <2>1, <2>2, <2>3 DEF Measure
<1> QED BY <1>1, <1>2, <1>3

-----------------------------------------------------------------------------
(* Texts and their lines.                                                   *)

LEMMA Concatenation ==
    ASSUME NEW S
    PROVE  /\ \A a \in Seq(S) : a \o << >> = a /\ << >> \o a = a
           /\ \A a, b, c \in Seq(S) : (a \o b) \o c = a \o (b \o c)
           /\ \A a, b \in Seq(S), e \in S : a \o Append(b, e) = Append(a \o b, e)
           /\ \A a \in Seq(S), e \in S : Append(a, e) = a \o <<e>>
  OBVIOUS

\* The last element of a sequence is replaced.
LEMMA LastReplaced ==
    ASSUME NEW S, NEW s \in Seq(S), NEW a \in S, NEW b \in S
    PROVE  [Append(s, a) EXCEPT ![Len(Append(s, a))] = b] = Append(s, b)
<1> DEFINE n == Len(s)
           u == Append(s, a)
           v == Append(s, b)
           w == [u EXCEPT ![n + 1] = b]
<1>1. n \in Nat /\ Len(u) = n + 1 /\ Len(v) = n + 1 /\ u \in Seq(S) /\ v \in Seq(S)
  OBVIOUS
<1>2. v[n + 1] = b /\ \A i \in 1..n : u[i] = s[i] /\ v[i] = s[i]
  OBVIOUS
<1> HIDE DEF n, u, v
<1>3. u = [i \in 1..(n + 1) |-> u[i]] /\ v = [i \in 1..(n + 1) |-> v[i]]
  <2>1. \A x \in Seq(S) : x = [i \in 1..Len(x) |-> x[i]]
    OBVIOUS
  <2> QED BY <1>1, <2>1
<1>4. DOMAIN u = 1..(n + 1) /\ DOMAIN w = 1..(n + 1) /\ w = [i \in 1..(n + 1) |-> w[i]]
  BY <1>3
<1>5. ASSUME NEW i \in 1..(n + 1) PROVE w[i] = v[i]
  <2>1. CASE i = n + 1
    BY <1>2, <1>4, <2>1
  <2>2. CASE i # n + 1
    BY <1>1, <1>2, <1>4, <2>2
  <2> QED BY <2>1, <2>2
<1> HIDE DEF w
<1>6. w = v
  BY <1>3, <1>4, <1>5
<1> QED BY <1>1, <1>6 DEF n, u, v, w

LEMMA LettersConcat ==
    \A t, u \in Text : Letters(t \o u) = Letters(t) \o Letters(u)
<1> DEFINE P == {u \in Text : \A t \in Text : Letters(t \o u) = Letters(t) \o Letters(u)}
<1>1. << >> \in P
  <2>1. \A t \in Text : t \o << >> = t /\ Letters(t) \o << >> = Letters(t)
    BY TextLaws, LettersLaws, Concatenation
  <2> QED BY <2>1, TextLaws, LettersLaws
<1>2. ASSUME NEW u \in Text, NEW r \in Runes, u \in P PROVE Append(u, r) \in P
  <2> SUFFICES ASSUME NEW t \in Text PROVE Letters(t \o Append(u, r)) = Letters(t) \o Letters(Append(u, r))
    BY TextLaws
  <2>1. t \o Append(u, r) = Append(t \o u, r) /\ t \o u \in Text
    BY TextLaws, Concatenation
  <2>2. Letters(t \o u) = Letters(t) \o Letters(u) /\ Letters(t) \in Text /\ Letters(u) \in Text
    BY <1>2, LettersLaws
  <2>3. CASE r = "newline"
    <3>1. Letters(Append(t \o u, r)) = Letters(t \o u) /\ Letters(Append(u, r)) = Letters(u)
      BY <2>1, <2>3, LettersLaws
    <3> QED BY <2>1, <2>2, <3>1
  <2>4. CASE r # "newline"
    <3>1. Letters(Append(t \o u, r)) = Append(Letters(t \o u), r) /\ Letters(Append(u, r)) = Append(Letters(u), r)
      BY <2>1, <2>4, LettersLaws
    <3>2. Letters(t) \o Append(Letters(u), r) = Append(Letters(t) \o Letters(u), r)
      BY <2>2, TextLaws, Concatenation
    <3> QED BY <2>1, <2>2, <3>1, <3>2
  <2> QED BY <2>3, <2>4
<1> HIDE DEF P
<1>3. Seq(Runes) \subseteq P
  BY <1>1, <1>2, TextLaws, AllSequences
<1> QED BY <1>3, TextLaws DEF P

LEMMA AllLettersConcat ==
    \A ps, qs \in Seq(Text) : AllLetters(ps \o qs) = AllLetters(ps) \o AllLetters(qs)
<1> DEFINE P == {qs \in Seq(Text) : \A ps \in Seq(Text) : AllLetters(ps \o qs) = AllLetters(ps) \o AllLetters(qs)}
<1>1. << >> \in P
  <2>1. << >> \in Seq(Text) /\ \A ps \in Seq(Text) : ps \o << >> = ps /\ AllLetters(ps) \o << >> = AllLetters(ps)
    <3>1. \A ps \in Seq(Text) : AllLetters(ps) \in Seq(Runes)
      BY TextLaws, AllLettersLaws
    <3> QED BY <3>1, Concatenation
  <2>2. ASSUME NEW ps \in Seq(Text) PROVE AllLetters(ps \o << >>) = AllLetters(ps) \o AllLetters(<< >>)
    <3>1. AllLetters(<< >>) = << >>
      BY AllLettersLaws
    <3>2. ps \o << >> = ps /\ AllLetters(ps) \o << >> = AllLetters(ps)
      BY <2>1
    <3> QED BY <3>1, <3>2
  <2> QED BY <2>1, <2>2
<1>2. ASSUME NEW qs \in Seq(Text), NEW p \in Text, qs \in P PROVE Append(qs, p) \in P
  <2> SUFFICES ASSUME NEW ps \in Seq(Text)
               PROVE AllLetters(ps \o Append(qs, p)) = AllLetters(ps) \o AllLetters(Append(qs, p))
    OBVIOUS
  <2>1. ps \o Append(qs, p) = Append(ps \o qs, p) /\ ps \o qs \in Seq(Text)
    BY Concatenation
  <2>2. /\ AllLetters(ps \o qs) = AllLetters(ps) \o AllLetters(qs)
        /\ AllLetters(ps) \in Text /\ AllLetters(qs) \in Text /\ Letters(p) \in Text
    BY <1>2, AllLettersLaws, LettersLaws
  <2>3. AllLetters(Append(ps \o qs, p)) = AllLetters(ps \o qs) \o Letters(p)
    BY <2>1, AllLettersLaws
  <2>4. AllLetters(Append(qs, p)) = AllLetters(qs) \o Letters(p)
    BY AllLettersLaws
  <2>5. (AllLetters(ps) \o AllLetters(qs)) \o Letters(p) = AllLetters(ps) \o (AllLetters(qs) \o Letters(p))
    BY <2>2, TextLaws, Concatenation
  <2> QED BY <2>1, <2>2, <2>3, <2>4, <2>5
<1> HIDE DEF P
<1>3. Seq(Text) \subseteq P
  BY <1>1, <1>2, AllSequences
<1> QED BY <1>3 DEF P

\* What has no newline goes on with the last line.
LEMMA LinesGoOn ==
    ASSUME NEW t \in Text, NEW ls \in Seq(Line), NEW m \in Line, Lines(t) = Append(ls, m), NEW l \in Line
    PROVE  Lines(t \o l) = Append(ls, m \o l)
<1> DEFINE E == Runes \ {"newline"}
           P == {k \in Line : Lines(t \o k) = Append(ls, m \o k)}
<1>1. << >> \in P
  <2>1. t \o << >> = t /\ m \o << >> = m
    BY TextLaws, LineLaws, Concatenation
  <2> QED BY <2>1, LineLaws
<1>2. ASSUME NEW k \in Line, NEW r \in E, k \in P PROVE Append(k, r) \in P
  <2>1. /\ k \in Text /\ r \in Runes /\ t \o k \in Text /\ t \o Append(k, r) = Append(t \o k, r)
    BY TextLaws, LineLaws, Concatenation
  <2>2. m \o k \in Line /\ m \o Append(k, r) = Append(m \o k, r) /\ Append(k, r) \in Line /\ Append(m \o k, r) \in Line
    BY LineLaws, Concatenation
  <2>3. Lines(t \o k) = Append(ls, m \o k)
    BY <1>2
  <2>4. Lines(Append(t \o k, r)) = [Append(ls, m \o k) EXCEPT ![Len(Append(ls, m \o k))] = Append(@, r)]
    BY <2>1, <2>3, LinesLaws
  <2>5. ASSUME NEW a \in Line, NEW b \in Line, b = Append(a, r)
        PROVE [Append(ls, a) EXCEPT ![Len(Append(ls, a))] = Append(@, r)] = Append(ls, b)
    <3>1. Append(ls, a)[Len(Append(ls, a))] = a
      OBVIOUS
    <3>2. [Append(ls, a) EXCEPT ![Len(Append(ls, a))] = b] = Append(ls, b)
      BY LastReplaced
    <3> QED BY <2>5, <3>1, <3>2
  <2>6. Lines(Append(t \o k, r)) = Append(ls, Append(m \o k, r))
    BY <2>2, <2>4, <2>5
  <2> QED BY <2>1, <2>2, <2>6
<1> HIDE DEF P
<1>3. Seq(E) \subseteq P
  BY <1>1, <1>2, LineLaws, AllSequences
<1> QED BY <1>3, LineLaws DEF P

\* Lines that are joined are its lines again,
LEMMA LinesOfJoined ==
    \A ls \in Seq(Line) : ls # << >> => Lines(Joined(ls)) = ls
<1> DEFINE P == {ls \in Seq(Line) : ls # << >> => Lines(Joined(ls)) = ls}
<1>1. << >> \in P
  OBVIOUS
<1>2. ASSUME NEW ls \in Seq(Line), NEW l \in Line, ls \in P PROVE Append(ls, l) \in P
  <2>1. NoText \in Seq(Line) /\ NoText \in Line /\ NoText \in Text /\ NoText \o l = l /\ l \in Text
    BY LineLaws, TextLaws, Concatenation DEF NoText
  <2>2. CASE ls = << >>
    <3>1. Append(ls, l) = <<l>> /\ Joined(<<l>>) = l
      BY <2>2, JoinedLaws
    <3>2. Lines(NoText) = Append(NoText, NoText)
      BY LinesLaws DEF NoText
    <3>3. Lines(NoText \o l) = Append(NoText, NoText \o l)
      BY <2>1, <3>2, LinesGoOn
    <3>4. Append(NoText, l) = <<l>>
      BY DEF NoText
    <3> QED BY <2>1, <3>1, <3>3, <3>4
  <2>3. CASE ls # << >>
    <3> DEFINE t == Append(Joined(ls), "newline")
    <3>1. Joined(ls) \in Text /\ "newline" \in Runes
      BY JoinedLaws DEF Runes
    <3>2. t \in Text /\ Joined(Append(ls, l)) = t \o l
      BY <2>3, <3>1, JoinedLaws, TextLaws, Concatenation
    <3>3. Lines(t) = Append(ls, NoText)
      BY <1>2, <2>3, <3>1, LinesLaws DEF NoText
    <3> HIDE DEF t
    <3>4. Lines(t \o l) = Append(ls, NoText \o l)
      BY <2>1, <3>2, <3>3, LinesGoOn
    <3>5. Lines(Joined(Append(ls, l))) = Append(ls, l)
      BY <2>1, <3>2, <3>4
    <3> QED BY <3>5
  <2> QED BY <2>2, <2>3
<1> HIDE DEF P
<1>3. Seq(Line) \subseteq P
  BY <1>1, <1>2, AllSequences
<1> QED BY <1>3 DEF P

\* and a text is its lines joined.
LEMMA JoinedOfLines ==
    \A t \in Text : Joined(Lines(t)) = t
<1> DEFINE P == {t \in Text : Joined(Lines(t)) = t}
<1>1. << >> \in P
  BY TextLaws, LineLaws, LinesLaws, JoinedLaws
<1>2. ASSUME NEW t \in Text, NEW r \in Runes, t \in P PROVE Append(t, r) \in P
  <2> DEFINE ls == Lines(t)
             n == Len(ls)
             front == SubSeq(ls, 1, n - 1)
             m == ls[n]
  <2>1. ls \in Seq(Line) /\ ls # << >> /\ Joined(ls) = t
    BY <1>2, LinesLaws
  <2>2. n \in Nat /\ n >= 1
    BY <2>1
  <2>3. front \in Seq(Line) /\ m \in Line /\ ls = Append(front, m)
    BY <2>1, <2>2
  <2>4. CASE r = "newline"
    <3>1. Lines(Append(t, r)) = Append(ls, << >>) /\ << >> \in Line
      BY <2>4, LinesLaws, LineLaws
    <3>2. Joined(Append(ls, << >>)) = t \o <<"newline">> \o << >>
      BY <2>1, <3>1, JoinedLaws
    <3>3. t \o <<"newline">> \o << >> = Append(t, r)
      BY <2>4, TextLaws, Concatenation
    <3> QED BY <3>1, <3>2, <3>3, TextLaws
  <2>5. CASE r # "newline"
    <3>1. Append(m, r) \in Line
      BY <2>3, <2>5, LineLaws
    <3>2. Lines(Append(t, r)) = [ls EXCEPT ![n] = Append(@, r)]
      BY <2>5, LinesLaws
    <3> HIDE DEF ls, front, m
    <3>3. [ls EXCEPT ![n] = Append(@, r)] = Append(front, Append(m, r))
      <4>1. n = Len(Append(front, m)) /\ Append(front, m)[n] = m
        BY <2>3
      <4>2. ASSUME NEW b \in Line
            PROVE [Append(front, m) EXCEPT ![Len(Append(front, m))] = b] = Append(front, b)
        BY <2>3, LastReplaced
      <4> HIDE DEF n
      <4> QED BY <2>3, <3>1, <4>1, <4>2
    <3>4. CASE front = << >>
      <4>1. ls = <<m>> /\ Append(front, Append(m, r)) = <<Append(m, r)>>
        BY <2>3, <3>4
      <4>2. t = m /\ Joined(<<Append(m, r)>>) = Append(m, r)
        BY <2>1, <2>3, <3>1, <4>1, JoinedLaws
      <4> QED BY <3>2, <3>3, <4>1, <4>2, TextLaws
    <3>5. CASE front # << >>
      <4>1. Joined(front) \in Text /\ Joined(front) \o <<"newline">> \in Text /\ m \in Text
        BY <2>3, JoinedLaws, LineLaws
      <4>2. t = Joined(front) \o <<"newline">> \o m
        BY <2>1, <2>3, <3>5, JoinedLaws
      <4>3. Joined(Append(front, Append(m, r))) = Joined(front) \o <<"newline">> \o Append(m, r)
        BY <2>3, <3>1, <3>5, JoinedLaws
      <4>4. Joined(front) \o <<"newline">> \o Append(m, r) = Append(t, r)
        BY <4>1, <4>2, TextLaws, Concatenation
      <4> QED BY <3>2, <3>3, <4>3, <4>4, TextLaws
    <3> QED BY <3>4, <3>5
  <2> QED BY <2>4, <2>5
<1> HIDE DEF P
<1>3. Seq(Runes) \subseteq P
  BY <1>1, <1>2, TextLaws, AllSequences
<1> QED BY <1>3, TextLaws DEF P

\* Cutting a text at its newlines and joining the lines again gives back the text, and
\* lines that are joined are found again: nothing gets lost at a boundary (splitMessage).
THEOREM LinesMakeTheText ==
    /\ \A t \in Text : Joined(Lines(t)) = t
    /\ \A ls \in Seq(Line) : ls # << >> => Lines(Joined(ls)) = ls
BY JoinedOfLines, LinesOfJoined

LEMMA LettersJoined ==
    \A ls \in Seq(Line), l \in Line : Letters(Joined(Append(ls, l))) = Letters(Joined(ls)) \o Letters(l)
<1> SUFFICES ASSUME NEW ls \in Seq(Line), NEW l \in Line
             PROVE Letters(Joined(Append(ls, l))) = Letters(Joined(ls)) \o Letters(l)
  OBVIOUS
<1>1. l \in Text /\ Joined(ls) \in Text /\ Letters(l) \in Text
  BY LineLaws, JoinedLaws, LettersLaws
<1>2. CASE ls = << >>
  <2>1. Append(ls, l) = <<l>> /\ Joined(<<l>>) = l /\ Letters(Joined(ls)) = << >>
    BY <1>2, JoinedLaws, LettersLaws
  <2>2. << >> \o Letters(l) = Letters(l)
    BY <1>1, TextLaws, Concatenation
  <2> QED BY <2>1, <2>2
<1>3. CASE ls # << >>
  <2> DEFINE t == Joined(ls)
  <2>1. Joined(Append(ls, l)) = (t \o <<"newline">>) \o l
    BY <1>3, JoinedLaws
  <2> HIDE DEF t
  <2>2. t \in Text /\ "newline" \in Runes
    BY <1>1 DEF t, Runes
  <2>3. t \o <<"newline">> = Append(t, "newline") /\ t \o <<"newline">> \in Text
    BY <2>2, TextLaws, Concatenation
  <2>4. Letters(t \o <<"newline">>) = Letters(t)
    BY <2>2, <2>3, LettersLaws
  <2> QED BY <1>1, <2>1, <2>3, <2>4, LettersConcat DEF t
<1> QED BY <1>2, <1>3

-----------------------------------------------------------------------------
(* The cutting of a line that does not fit.                                 *)

\* The loop of hardSplit: the pieces that are full, and the one at hand.
Letter == Runes \ {"newline"}
Pieces == [parts : Seq(Text), current : Text]
NoParts == [parts |-> << >>, current |-> << >>]
CutStep(platform, limit, acc, r) ==
    IF Measure(platform, Append(acc.current, r)) > limit /\ acc.current # << >>
    THEN [parts |-> Append(acc.parts, acc.current), current |-> <<r>>]
    ELSE [acc EXCEPT !.current = Append(@, r)]
PiecesOf(platform, limit, line) ==
    FoldLeft(LAMBDA acc, r : CutStep(platform, limit, acc, r), NoParts, line)
CutRune(platform, limit) == [t \in Pieces |-> [e \in Letter |-> CutStep(platform, limit, t, e)]]

LEMMA CutStepType ==
    /\ NoParts \in Pieces
    /\ \A platform, limit : \A t \in Pieces, e \in Letter : CutStep(platform, limit, t, e) \in Pieces
<1>1. << >> \in Seq(Text) /\ \A ps \in Seq(Text), p \in Text : Append(ps, p) \in Seq(Text)
  OBVIOUS
<1>2. << >> \in Text /\ \A r \in Runes : <<r>> \in Text /\ \A t \in Text : Append(t, r) \in Text
  BY DEF Text
<1> QED BY <1>1, <1>2 DEF NoParts, Pieces, CutStep, Letter

LEMMA PiecesAfter ==
    ASSUME NEW platform, NEW limit, NEW s \in Line
    PROVE  Operation(Pieces, Letter, CutRune(platform, limit)) /\ NoParts \in Pieces /\ PiecesOf(platform, limit, s) = After(CutRune(platform, limit), NoParts, s)
<1> DEFINE Does(t, e) == CutStep(platform, limit, t, e)
           Made(g) == g = [T \in SUBSET (DOMAIN s) |->
                              IF T = {} THEN NoParts ELSE Does(g[T \ {Max(T)}], s[Max(T)])]
<1>1. PiecesOf(platform, limit, s) = (CHOOSE g : Made(g))[DOMAIN s]
  BY DEF PiecesOf, FoldLeft, MapThenFoldSet
<1>2. DOMAIN s = 1..Len(s) /\ Len(s) \in Nat /\ s \in Seq(Letter)
  BY DEF Line, Letter
<1>3. Operation(Pieces, Letter, CutRune(platform, limit)) /\ NoParts \in Pieces /\ \A t \in Pieces, e \in Letter : CutRune(platform, limit)[t][e] = Does(t, e)
  BY CutStepType DEF CutRune, Operation
<1>4. PICK g \in [SUBSET (1..Len(s)) -> Pieces] : IsFold(CutRune(platform, limit), NoParts, s, g)
  BY <1>2, <1>3, FoldsExist
<1> HIDE DEF Does
<1>5. \A T \in SUBSET (1..Len(s)) : T # {} => s[Max(T)] \in Letter
  <2>1. \A T \in SUBSET (1..Len(s)) : T # {} => Max(T) \in 1..Len(s)
    BY <1>2, LargestPosition
  <2> QED BY <1>2, <2>1
<1>6. Made(g)
  <2> DEFINE k == [T \in SUBSET (DOMAIN s) |->
                      IF T = {} THEN NoParts ELSE Does(g[T \ {Max(T)}], s[Max(T)])]
  <2>1. \A T \in SUBSET (1..Len(s)) : g[T] = k[T]
    <3> TAKE T \in SUBSET (1..Len(s))
    <3>1. g[T] = IF T = {} THEN NoParts ELSE CutRune(platform, limit)[g[T \ {Max(T)}]][s[Max(T)]]
      BY <1>4 DEF IsFold
    <3>2. g[T \ {Max(T)}] \in Pieces
      BY <1>4
    <3> QED BY <1>2, <1>3, <1>5, <3>1, <3>2
  <2>2. DOMAIN g = SUBSET (1..Len(s)) /\ DOMAIN k = SUBSET (1..Len(s))
    BY <1>2
  <2> HIDE DEF k
  <2>3. g = k
    BY <1>4, <2>1, <2>2 DEF k
  <2> QED BY <2>3 DEF k
<1> DEFINE h == CHOOSE h : Made(h)
<1>7. Made(h)
  BY <1>6
<1> HIDE DEF h
<1>8. h[{}] = NoParts
  BY <1>7
<1>9. ASSUME NEW T \in SUBSET (1..Len(s)), T # {}, h[T \ {Max(T)}] \in Pieces
      PROVE h[T] = CutRune(platform, limit)[h[T \ {Max(T)}]][s[Max(T)]]
  <2>1. h[T] = Does(h[T \ {Max(T)}], s[Max(T)])
    BY <1>2, <1>7, <1>9
  <2> QED BY <1>3, <1>5, <1>9, <2>1
<1> HIDE DEF Made
<1>10. h[1..Len(s)] = After(CutRune(platform, limit), NoParts, s)
  <2>1. Obeys(Pieces, CutRune(platform, limit), NoParts, s, h)
    BY <1>8, <1>9 DEF Obeys
  <2> QED BY <1>2, <1>3, <2>1, FoldIsAfter
<1> QED BY <1>1, <1>2, <1>3, <1>10 DEF h

LEMMA PiecesLaws ==
    ASSUME NEW platform, NEW limit
    PROVE  /\ PiecesOf(platform, limit, << >>) = NoParts
           /\ \A s \in Line : PiecesOf(platform, limit, s) \in Pieces
           /\ \A s \in Line, r \in Letter :
                 PiecesOf(platform, limit, Append(s, r)) = CutStep(platform, limit, PiecesOf(platform, limit, s), r)
<1> DEFINE f == CutRune(platform, limit)
<1>1. << >> \in Line /\ Line = Seq(Letter) /\ \A s \in Line, r \in Letter : Append(s, r) \in Line
  BY LineLaws DEF Letter
<1>2. Operation(Pieces, Letter, f) /\ NoParts \in Pieces /\ \A s \in Line : PiecesOf(platform, limit, s) = After(f, NoParts, s)
  BY <1>1, PiecesAfter
<1> HIDE DEF f
<1>3. /\ After(f, NoParts, << >>) = NoParts
      /\ \A s \in Line : After(f, NoParts, s) \in Pieces
      /\ \A s \in Line, r \in Letter : After(f, NoParts, Append(s, r)) = f[After(f, NoParts, s)][r]
  BY <1>1, <1>2, AfterLaws
<1>4. PiecesOf(platform, limit, << >>) = NoParts
  BY <1>1, <1>2, <1>3
<1>5. ASSUME NEW s \in Line, NEW r \in Letter
      PROVE PiecesOf(platform, limit, Append(s, r)) = CutStep(platform, limit, PiecesOf(platform, limit, s), r)
  <2>1. PiecesOf(platform, limit, Append(s, r)) = f[PiecesOf(platform, limit, s)][r] /\ PiecesOf(platform, limit, s) \in Pieces
    BY <1>1, <1>2, <1>3
  <2> QED BY <2>1 DEF f, CutRune
<1> QED BY <1>2, <1>3, <1>4, <1>5

\* What is cut so far is all of u, and every piece fits.
CutWhole(platform, limit, u, acc) ==
    /\ AllLetters(acc.parts) \o Letters(acc.current) = Letters(u)
    /\ \A i \in DOMAIN acc.parts : Measure(platform, acc.parts[i]) <= limit
    /\ Measure(platform, acc.current) <= limit
    /\ u # << >> => acc.current # << >>
    /\ acc.parts = << >> => acc.current = u

LEMMA CutStepKeeps ==
    ASSUME NEW platform, NEW limit \in Nat, limit >= 2, TagUnits \in Nat,
           NEW u \in Line, NEW r \in Letter, NEW acc \in Pieces, CutWhole(platform, limit, u, acc)
    PROVE  CutWhole(platform, limit, Append(u, r), CutStep(platform, limit, acc, r))
<1> DEFINE ps == acc.parts
           c == acc.current
           next == CutStep(platform, limit, acc, r)
<1>1. /\ ps \in Seq(Text) /\ c \in Text /\ u \in Text /\ r \in Runes /\ r # "newline"
      /\ <<r>> \in Text /\ Append(u, r) # << >>
      /\ AllLetters(ps) \in Text /\ Letters(c) \in Text /\ Letters(u) \in Text
  <2>1. ps \in Seq(Text) /\ c \in Text
    BY DEF Pieces
  <2>2. u \in Text /\ r \in Runes /\ r # "newline"
    BY LineLaws DEF Letter
  <2>3. <<r>> \in Text /\ Append(u, r) # << >>
    BY <2>2 DEF Text
  <2> HIDE DEF ps, c
  <2> QED BY <2>1, <2>2, <2>3, AllLettersLaws, LettersLaws
<1>2. /\ AllLetters(ps) \o Letters(c) = Letters(u)
      /\ \A i \in DOMAIN ps : Measure(platform, ps[i]) <= limit
      /\ Measure(platform, c) <= limit
      /\ ps = << >> => c = u
  BY DEF CutWhole
<1>3. Letters(Append(u, r)) = Append(Letters(u), r) /\ Letters(<<r>>) = <<r>>
  <2>1. Letters(Append(NoText, r)) = Append(Letters(NoText), r) /\ Letters(NoText) = NoText
    BY <1>1, TextLaws, LettersLaws DEF NoText
  <2>2. Append(NoText, r) = <<r>>
    BY DEF NoText
  <2> QED BY <1>1, <2>1, <2>2, LettersLaws
<1>4. \A m \in Text : Measure(platform, m) \in Nat
  BY MeasureLaws
<1>5. Measure(platform, <<r>>) <= limit
  <2>1. Measure(platform, <<r>>) <= 2 /\ Measure(platform, <<r>>) \in Nat
    BY <1>1, <1>4, MeasureLaws
  <2> QED BY <2>1
<1>6. CASE Measure(platform, Append(c, r)) > limit /\ c # << >>
  <2>1. next = [parts |-> Append(ps, c), current |-> <<r>>]
    BY <1>6 DEF CutStep
  <2> HIDE DEF ps, c, next
  <2>2. AllLetters(Append(ps, c)) \o Letters(<<r>>) = Letters(Append(u, r))
    <3>1. AllLetters(Append(ps, c)) = Letters(u)
      BY <1>1, <1>2, AllLettersLaws
    <3>2. Letters(u) \o <<r>> = Append(Letters(u), r)
      BY <1>1, TextLaws, Concatenation
    <3> QED BY <1>3, <3>1, <3>2
  <2>3. \A i \in DOMAIN Append(ps, c) : Measure(platform, Append(ps, c)[i]) <= limit
    BY <1>1, <1>2
  <2>4. Append(ps, c) # << >> /\ <<r>> # << >>
    BY <1>1
  <2>5. CutWhole(platform, limit, Append(u, r), [parts |-> Append(ps, c), current |-> <<r>>])
    BY <1>5, <2>2, <2>3, <2>4 DEF CutWhole
  <2> QED BY <2>1, <2>5 DEF next
<1>7. CASE ~(Measure(platform, Append(c, r)) > limit /\ c # << >>)
  <2>1. next = [parts |-> ps, current |-> Append(c, r)]
    BY <1>7 DEF CutStep, Pieces
  <2> HIDE DEF ps, c, next
  <2>2. AllLetters(ps) \o Letters(Append(c, r)) = Letters(Append(u, r))
    <3>1. Letters(Append(c, r)) = Append(Letters(c), r)
      BY <1>1, LettersLaws
    <3>2. AllLetters(ps) \o Append(Letters(c), r) = Append(AllLetters(ps) \o Letters(c), r)
      BY <1>1, TextLaws, Concatenation
    <3> QED BY <1>2, <1>3, <3>1, <3>2
  <2>3. Measure(platform, Append(c, r)) <= limit
    <3>1. CASE c = << >>
      BY <1>5, <3>1
    <3>2. CASE c # << >>
      <4>1. Append(c, r) \in Text
        BY <1>1, TextLaws
      <4>2. Measure(platform, Append(c, r)) \in Nat
        BY <1>4, <4>1
      <4> QED BY <1>7, <3>2, <4>2 DEF c
    <3> QED BY <3>1, <3>2
  <2>4. Append(c, r) # << >>
    <3>1. c \in Seq(Runes) /\ r \in Runes
      BY <1>1, TextLaws
    <3>2. Len(Append(c, r)) = Len(c) + 1 /\ Len(c) \in Nat
      BY <3>1
    <3> QED BY <3>1, <3>2
  <2>5. ps = << >> => Append(c, r) = Append(u, r)
    BY <1>2
  <2> QED BY <1>2, <2>1, <2>2, <2>3, <2>4, <2>5 DEF CutWhole, next
<1> QED BY <1>6, <1>7

LEMMA PiecesWhole ==
    ASSUME NEW platform, NEW limit \in Nat, limit >= 2, TagUnits \in Nat
    PROVE  \A u \in Line : CutWhole(platform, limit, u, PiecesOf(platform, limit, u))
<1> DEFINE P == {u \in Line : CutWhole(platform, limit, u, PiecesOf(platform, limit, u))}
<1>1. << >> \in P
  <2>1. AllLetters(<< >>) = << >> /\ Letters(<< >>) = << >> /\ << >> \o << >> = << >> /\ DOMAIN << >> = {}
    BY AllLettersLaws, LettersLaws
  <2>2. Measure(platform, << >>) <= limit
    BY MeasureLaws
  <2>3. CutWhole(platform, limit, << >>, NoParts)
    BY <2>1, <2>2 DEF CutWhole, NoParts
  <2> QED BY <2>3, LineLaws, PiecesLaws
<1>2. ASSUME NEW u \in Line, NEW r \in Letter, u \in P PROVE Append(u, r) \in P
  <2>1. Append(u, r) \in Line
    BY LineLaws DEF Letter
  <2>2. PiecesOf(platform, limit, u) \in Pieces
    BY PiecesLaws
  <2>3. PiecesOf(platform, limit, Append(u, r)) = CutStep(platform, limit, PiecesOf(platform, limit, u), r)
    BY PiecesLaws
  <2> DEFINE acc == PiecesOf(platform, limit, u)
  <2>4. CutWhole(platform, limit, u, acc)
    BY <1>2
  <2> HIDE DEF acc
  <2>5. CutWhole(platform, limit, Append(u, r), CutStep(platform, limit, acc, r))
    BY <2>2, <2>4, CutStepKeeps DEF acc
  <2> QED BY <2>1, <2>3, <2>5 DEF acc
<1> HIDE DEF P
<1>3. Seq(Letter) \subseteq P
  <2>1. \A u \in Seq(Letter), r \in Letter : u \in P => Append(u, r) \in P
    BY <1>2, LineLaws DEF Letter
  <2> QED BY <1>1, <2>1, AllSequences
<1> QED BY <1>3, LineLaws DEF P, Letter

\* A line that does not fit is cut into several pieces, which do.
LEMMA HardSplitLaws ==
    ASSUME NEW platform, NEW limit \in Nat, limit >= 2, TagUnits \in Nat,
           NEW line \in Line, Measure(platform, line) > limit
    PROVE  /\ HardSplit(platform, line, limit) \in Seq(Text)
           /\ Len(HardSplit(platform, line, limit)) >= 2
           /\ AllLetters(HardSplit(platform, line, limit)) = Letters(line)
           /\ \A i \in DOMAIN HardSplit(platform, line, limit) :
                 Measure(platform, HardSplit(platform, line, limit)[i]) <= limit
<1> DEFINE all == PiecesOf(platform, limit, line)
           ps == all.parts
           c == all.current
<1>1. HardSplit(platform, line, limit) = IF c = << >> THEN ps ELSE Append(ps, c)
  BY DEF HardSplit, PiecesOf, CutStep, NoParts, FoldLeft, MapThenFoldSet
<1>2. all \in Pieces /\ CutWhole(platform, limit, line, all)
  BY PiecesLaws, PiecesWhole
<1> HIDE DEF all
<1>3. ps \in Seq(Text) /\ c \in Text
  BY <1>2 DEF Pieces
<1>4. /\ AllLetters(ps) \o Letters(c) = Letters(line)
      /\ \A i \in DOMAIN ps : Measure(platform, ps[i]) <= limit
      /\ Measure(platform, c) <= limit
      /\ line # << >> => c # << >>
      /\ ps = << >> => c = line
  BY <1>2 DEF CutWhole
<1> HIDE DEF ps, c
<1>5. \A m \in Text : Measure(platform, m) \in Nat
  BY MeasureLaws
<1>6. Measure(platform, << >>) = 0
  BY MeasureLaws
<1>7. c # << >>
  BY <1>4, <1>6
<1>8. ps # << >>
  BY <1>3, <1>4, <1>5
<1>9. AllLetters(Append(ps, c)) = Letters(line)
  BY <1>3, <1>4, AllLettersLaws
<1>10. /\ Append(ps, c) \in Seq(Text) /\ Len(Append(ps, c)) >= 2
       /\ \A i \in DOMAIN Append(ps, c) : Measure(platform, Append(ps, c)[i]) <= limit
  BY <1>3, <1>4, <1>8
<1> QED BY <1>1, <1>7, <1>9, <1>10

-----------------------------------------------------------------------------
(* The parts of a text.                                                     *)

\* The loop of splitMessage: the parts so far, and the lines that wait for the next.
Progress == [parts : Seq(Text), current : Seq(Line)]
Taking(platform, limit, ls) ==
    FoldLeft(LAMBDA acc, l : TakeLine(platform, limit, acc, l), NoParts, ls)
TakesLine(platform, limit) == [t \in Progress |-> [e \in Line |-> TakeLine(platform, limit, t, e)]]

\* Whether splitting leaves of the lines ls what it should.
Kept(platform, limit, ls, acc) ==
    /\ AllLetters(acc.parts) \o Letters(Joined(acc.current)) = Letters(Joined(ls))
    /\ \A i \in DOMAIN acc.parts : Measure(platform, acc.parts[i]) <= limit
    /\ Measure(platform, Joined(acc.current)) <= limit
    /\ \A i \in DOMAIN ls : Measure(platform, ls[i]) <= limit =>
          \/ \E j \in DOMAIN acc.current : acc.current[j] = ls[i]
          \/ \E k \in DOMAIN acc.parts : ls[i] \in ToSet(Lines(acc.parts[k]))

\* Until a part is made every line waits, and one part alone has lines waiting behind it.
Several(ls, acc) ==
    /\ acc.parts = << >> => acc.current = ls
    /\ Len(acc.parts) = 1 => acc.current # << >>

LEMMA ProgressFields ==
    ASSUME NEW acc \in Progress
    PROVE  /\ acc.parts \in Seq(Text) /\ acc.current \in Seq(Line)
           /\ \A x : [acc EXCEPT !.parts = x] = [parts |-> x, current |-> acc.current]
           /\ \A x : [acc EXCEPT !.current = x] = [parts |-> acc.parts, current |-> x]
  BY DEF Progress

LEMMA FlushLaws ==
    ASSUME NEW acc \in Progress
    PROVE  /\ Flush(acc) = [parts |-> IF acc.current = << >> THEN acc.parts
                                      ELSE Append(acc.parts, Joined(acc.current)),
                            current |-> << >>]
           /\ Flush(acc) \in Progress
<1>1. acc.parts \in Seq(Text) /\ acc.current \in Seq(Line) /\ acc = [parts |-> acc.parts, current |-> acc.current]
  BY DEF Progress
<1>2. Joined(acc.current) \in Text
  BY <1>1, JoinedLaws
<1>3. Append(acc.parts, Joined(acc.current)) \in Seq(Text) /\ << >> \in Seq(Line)
  BY <1>1, <1>2
<1>4. CASE acc.current = << >>
  BY <1>1, <1>4 DEF Flush, Progress
<1>5. CASE acc.current # << >>
  BY <1>1, <1>3, <1>5 DEF Flush, Progress
<1> QED BY <1>4, <1>5

LEMMA TakeType ==
    ASSUME NEW platform, NEW limit \in Nat, limit >= 2, TagUnits \in Nat
    PROVE  /\ NoParts \in Progress
           /\ \A t \in Progress, e \in Line : TakeLine(platform, limit, t, e) \in Progress
<1>1. NoParts \in Progress
  <2>1. << >> \in Seq(Text) /\ << >> \in Seq(Line)
    OBVIOUS
  <2> QED BY <2>1 DEF NoParts, Progress
<1>2. ASSUME NEW t \in Progress, NEW e \in Line PROVE TakeLine(platform, limit, t, e) \in Progress
  <2>1. ASSUME Measure(platform, e) > limit PROVE TakeLine(platform, limit, t, e) \in Progress
    <3>1. Flush(t) \in Progress /\ HardSplit(platform, e, limit) \in Seq(Text)
      BY <2>1, FlushLaws, HardSplitLaws
    <3>2. ASSUME NEW u \in Progress, NEW ps \in Seq(Text) PROVE [u EXCEPT !.parts = @ \o ps] \in Progress
      <4>1. u.parts \o ps \in Seq(Text)
        BY ProgressFields
      <4> QED BY <4>1, ProgressFields DEF Progress
    <3>3. TakeLine(platform, limit, t, e) = [Flush(t) EXCEPT !.parts = @ \o HardSplit(platform, e, limit)]
      BY <2>1 DEF TakeLine
    <3> QED BY <3>1, <3>2, <3>3
  <2>2. ASSUME ~(Measure(platform, e) > limit) PROVE TakeLine(platform, limit, t, e) \in Progress
    <3>1. Flush(t) \in Progress
      BY FlushLaws
    <3>2. ASSUME NEW u \in Progress PROVE [u EXCEPT !.current = Append(@, e)] \in Progress
      <4>1. Append(u.current, e) \in Seq(Line)
        BY ProgressFields
      <4> QED BY <4>1, ProgressFields DEF Progress
    <3>3. \/ TakeLine(platform, limit, t, e) = [Flush(t) EXCEPT !.current = Append(@, e)]
          \/ TakeLine(platform, limit, t, e) = [t EXCEPT !.current = Append(@, e)]
      BY <2>2 DEF TakeLine
    <3> QED BY <3>1, <3>2, <3>3
  <2> QED BY <2>1, <2>2
<1> QED BY <1>1, <1>2

LEMMA TakingAfter ==
    ASSUME NEW platform, NEW limit \in Nat, limit >= 2, TagUnits \in Nat, NEW s \in Seq(Line)
    PROVE  Operation(Progress, Line, TakesLine(platform, limit)) /\ NoParts \in Progress /\ Taking(platform, limit, s) = After(TakesLine(platform, limit), NoParts, s)
<1> DEFINE Does(t, e) == TakeLine(platform, limit, t, e)
           Made(g) == g = [T \in SUBSET (DOMAIN s) |->
                              IF T = {} THEN NoParts ELSE Does(g[T \ {Max(T)}], s[Max(T)])]
<1>1. Taking(platform, limit, s) = (CHOOSE g : Made(g))[DOMAIN s]
  BY DEF Taking, FoldLeft, MapThenFoldSet
<1>2. DOMAIN s = 1..Len(s) /\ Len(s) \in Nat /\ s \in Seq(Line)
  OBVIOUS
<1>3. Operation(Progress, Line, TakesLine(platform, limit)) /\ NoParts \in Progress /\ \A t \in Progress, e \in Line : TakesLine(platform, limit)[t][e] = Does(t, e)
  BY TakeType DEF TakesLine, Operation
<1>4. PICK g \in [SUBSET (1..Len(s)) -> Progress] : IsFold(TakesLine(platform, limit), NoParts, s, g)
  BY <1>2, <1>3, FoldsExist
<1> HIDE DEF Does
<1>5. \A T \in SUBSET (1..Len(s)) : T # {} => s[Max(T)] \in Line
  <2>1. \A T \in SUBSET (1..Len(s)) : T # {} => Max(T) \in 1..Len(s)
    BY <1>2, LargestPosition
  <2> QED BY <1>2, <2>1
<1>6. Made(g)
  <2> DEFINE k == [T \in SUBSET (DOMAIN s) |->
                      IF T = {} THEN NoParts ELSE Does(g[T \ {Max(T)}], s[Max(T)])]
  <2>1. \A T \in SUBSET (1..Len(s)) : g[T] = k[T]
    <3> TAKE T \in SUBSET (1..Len(s))
    <3>1. g[T] = IF T = {} THEN NoParts ELSE TakesLine(platform, limit)[g[T \ {Max(T)}]][s[Max(T)]]
      BY <1>4 DEF IsFold
    <3>2. g[T \ {Max(T)}] \in Progress
      BY <1>4
    <3> QED BY <1>2, <1>3, <1>5, <3>1, <3>2
  <2>2. DOMAIN g = SUBSET (1..Len(s)) /\ DOMAIN k = SUBSET (1..Len(s))
    BY <1>2
  <2> HIDE DEF k
  <2>3. g = k
    BY <1>4, <2>1, <2>2 DEF k
  <2> QED BY <2>3 DEF k
<1> DEFINE h == CHOOSE h : Made(h)
<1>7. Made(h)
  BY <1>6
<1> HIDE DEF h
<1>8. h[{}] = NoParts
  BY <1>7
<1>9. ASSUME NEW T \in SUBSET (1..Len(s)), T # {}, h[T \ {Max(T)}] \in Progress
      PROVE h[T] = TakesLine(platform, limit)[h[T \ {Max(T)}]][s[Max(T)]]
  <2>1. h[T] = Does(h[T \ {Max(T)}], s[Max(T)])
    BY <1>2, <1>7, <1>9
  <2> QED BY <1>3, <1>5, <1>9, <2>1
<1> HIDE DEF Made
<1>10. h[1..Len(s)] = After(TakesLine(platform, limit), NoParts, s)
  <2>1. Obeys(Progress, TakesLine(platform, limit), NoParts, s, h)
    BY <1>8, <1>9 DEF Obeys
  <2> QED BY <1>2, <1>3, <2>1, FoldIsAfter
<1> QED BY <1>1, <1>2, <1>3, <1>10 DEF h

LEMMA TakingLaws ==
    ASSUME NEW platform, NEW limit \in Nat, limit >= 2, TagUnits \in Nat
    PROVE  /\ Taking(platform, limit, << >>) = NoParts
           /\ \A ls \in Seq(Line) : Taking(platform, limit, ls) \in Progress
           /\ \A ls \in Seq(Line), l \in Line :
                 Taking(platform, limit, Append(ls, l)) = TakeLine(platform, limit, Taking(platform, limit, ls), l)
<1> DEFINE f == TakesLine(platform, limit)
<1>1. << >> \in Seq(Line) /\ \A ls \in Seq(Line), l \in Line : Append(ls, l) \in Seq(Line)
  OBVIOUS
<1>2. Operation(Progress, Line, f) /\ NoParts \in Progress /\ \A ls \in Seq(Line) : Taking(platform, limit, ls) = After(f, NoParts, ls)
  BY <1>1, TakingAfter
<1> HIDE DEF f
<1>3. /\ After(f, NoParts, << >>) = NoParts
      /\ \A ls \in Seq(Line) : After(f, NoParts, ls) \in Progress
      /\ \A ls \in Seq(Line), l \in Line : After(f, NoParts, Append(ls, l)) = f[After(f, NoParts, ls)][l]
  BY <1>2, AfterLaws
<1>4. Taking(platform, limit, << >>) = NoParts
  BY <1>1, <1>2, <1>3
<1>5. ASSUME NEW ls \in Seq(Line), NEW l \in Line
      PROVE Taking(platform, limit, Append(ls, l)) = TakeLine(platform, limit, Taking(platform, limit, ls), l)
  <2>1. Taking(platform, limit, Append(ls, l)) = f[Taking(platform, limit, ls)][l] /\ Taking(platform, limit, ls) \in Progress
    BY <1>1, <1>2, <1>3
  <2> QED BY <2>1 DEF f, TakesLine
<1> QED BY <1>2, <1>3, <1>4, <1>5

\* What waits becomes a part,
LEMMA FlushKeeps ==
    ASSUME NEW platform, NEW limit \in Nat, NEW ls \in Seq(Line), NEW acc \in Progress, TagUnits \in Nat,
           Kept(platform, limit, ls, acc)
    PROVE  Kept(platform, limit, ls, Flush(acc))
<1> DEFINE ps == acc.parts
           c == acc.current
<1>1. ps \in Seq(Text) /\ c \in Seq(Line)
  BY DEF Progress
<1>2. /\ AllLetters(ps) \o Letters(Joined(c)) = Letters(Joined(ls))
      /\ \A i \in DOMAIN ps : Measure(platform, ps[i]) <= limit
      /\ Measure(platform, Joined(c)) <= limit
      /\ \A i \in DOMAIN ls : Measure(platform, ls[i]) <= limit =>
            \/ \E j \in DOMAIN c : c[j] = ls[i]
            \/ \E k \in DOMAIN ps : ls[i] \in ToSet(Lines(ps[k]))
  BY DEF Kept
<1>3. CASE c = << >>
  <2>1. Flush(acc) = acc
    BY <1>3 DEF Flush
  <2> QED BY <2>1
<1>4. CASE c # << >>
  <2> DEFINE t == Joined(c)
             qs == Append(ps, t)
  <2>1. Flush(acc) = [parts |-> qs, current |-> << >>]
    BY <1>4, FlushLaws
  <2> HIDE DEF ps, c
  <2>2. t \in Text /\ Lines(t) = c
    BY <1>1, <1>4, JoinedLaws, LinesOfJoined
  <2> HIDE DEF t
  <2>3. Joined(NoText) = NoText /\ Letters(NoText) = NoText /\ Measure(platform, NoText) <= limit /\ NoText \in Text
    BY JoinedLaws, LettersLaws, MeasureLaws, TextLaws DEF NoText
  <2>4. AllLetters(qs) \o Letters(Joined(NoText)) = Letters(Joined(ls))
    <3>1. AllLetters(qs) = Letters(Joined(ls))
      BY <1>1, <1>2, <2>2, AllLettersLaws DEF t
    <3>2. Letters(Joined(ls)) \in Seq(Runes)
      BY JoinedLaws, LettersLaws, TextLaws
    <3>3. Letters(Joined(ls)) \o NoText = Letters(Joined(ls))
      BY <3>2, Concatenation DEF NoText
    <3> QED BY <2>3, <3>1, <3>3
  <2>5. /\ Len(ps) \in Nat /\ DOMAIN ps = 1..Len(ps) /\ DOMAIN qs = 1..(Len(ps) + 1)
        /\ qs[Len(ps) + 1] = t /\ \A i \in 1..Len(ps) : qs[i] = ps[i]
    BY <1>1, <2>2
  <2> HIDE DEF qs
  <2>6. \A i \in DOMAIN qs : Measure(platform, qs[i]) <= limit
    <3> TAKE i \in DOMAIN qs
    <3>1. CASE i = Len(ps) + 1
      BY <1>2, <2>5, <3>1 DEF t
    <3>2. CASE i # Len(ps) + 1
      BY <1>2, <2>5, <3>2
    <3> QED BY <3>1, <3>2
  <2>7. ASSUME NEW i \in DOMAIN ls, Measure(platform, ls[i]) <= limit
        PROVE \E k \in DOMAIN qs : ls[i] \in ToSet(Lines(qs[k]))
    <3>1. CASE \E j \in DOMAIN c : c[j] = ls[i]
      <4>1. ls[i] \in ToSet(c)
        BY <3>1 DEF ToSet
      <4>2. Len(ps) + 1 \in DOMAIN qs /\ Lines(qs[Len(ps) + 1]) = c
        BY <2>2, <2>5
      <4> QED BY <4>1, <4>2
    <3>2. CASE \E k \in DOMAIN ps : ls[i] \in ToSet(Lines(ps[k]))
      <4>1. PICK k \in DOMAIN ps : ls[i] \in ToSet(Lines(ps[k]))
        BY <3>2
      <4>2. k \in DOMAIN qs /\ qs[k] = ps[k]
        BY <2>5
      <4> QED BY <4>1, <4>2
    <3> QED BY <1>2, <2>7, <3>1, <3>2
  <2>8. Kept(platform, limit, ls, [parts |-> qs, current |-> NoText])
    BY <2>3, <2>4, <2>6, <2>7 DEF Kept
  <2> QED BY <2>1, <2>8 DEF NoText
<1> QED BY <1>3, <1>4

\* a line that fits with what waits waits, too,
LEMMA WaitKeeps ==
    ASSUME NEW platform, NEW limit \in Nat, NEW ls \in Seq(Line), NEW acc \in Progress, NEW l \in Line,
           Kept(platform, limit, ls, acc), Measure(platform, Joined(Append(acc.current, l))) <= limit
    PROVE  Kept(platform, limit, Append(ls, l), [acc EXCEPT !.current = Append(@, l)])
<1> DEFINE ps == acc.parts
           c == acc.current
           d == Append(c, l)
           ms == Append(ls, l)
<1>1. ps \in Seq(Text) /\ c \in Seq(Line) /\ [acc EXCEPT !.current = Append(@, l)] = [parts |-> ps, current |-> d]
  BY ProgressFields
<1>2. /\ AllLetters(ps) \o Letters(Joined(c)) = Letters(Joined(ls))
      /\ \A i \in DOMAIN ps : Measure(platform, ps[i]) <= limit
      /\ \A i \in DOMAIN ls : Measure(platform, ls[i]) <= limit =>
            \/ \E j \in DOMAIN c : c[j] = ls[i]
            \/ \E k \in DOMAIN ps : ls[i] \in ToSet(Lines(ps[k]))
  BY DEF Kept
<1>3. Measure(platform, Joined(d)) <= limit
  OBVIOUS
<1> HIDE DEF ps, c
<1>4. AllLetters(ps) \o Letters(Joined(d)) = Letters(Joined(ms))
  <2>1. /\ Letters(Joined(d)) = Letters(Joined(c)) \o Letters(l)
        /\ Letters(Joined(ms)) = Letters(Joined(ls)) \o Letters(l)
    BY <1>1, LettersJoined
  <2>2. AllLetters(ps) \in Seq(Runes) /\ Letters(Joined(c)) \in Seq(Runes) /\ Letters(l) \in Seq(Runes)
    BY <1>1, AllLettersLaws, JoinedLaws, LettersLaws, LineLaws, TextLaws
  <2>3. AllLetters(ps) \o (Letters(Joined(c)) \o Letters(l)) = (AllLetters(ps) \o Letters(Joined(c))) \o Letters(l)
    BY <2>2, Concatenation
  <2> QED BY <1>2, <2>1, <2>3
<1>5. /\ Len(c) \in Nat /\ DOMAIN c = 1..Len(c) /\ DOMAIN d = 1..(Len(c) + 1)
      /\ d[Len(c) + 1] = l /\ \A j \in 1..Len(c) : d[j] = c[j]
  BY <1>1
<1>6. /\ Len(ls) \in Nat /\ DOMAIN ls = 1..Len(ls) /\ DOMAIN ms = 1..(Len(ls) + 1)
      /\ ms[Len(ls) + 1] = l /\ \A i \in 1..Len(ls) : ms[i] = ls[i]
  OBVIOUS
<1> HIDE DEF d, ms
<1>7. ASSUME NEW i \in DOMAIN ms, Measure(platform, ms[i]) <= limit
      PROVE \/ \E j \in DOMAIN d : d[j] = ms[i]
            \/ \E k \in DOMAIN ps : ms[i] \in ToSet(Lines(ps[k]))
  <2>1. CASE i = Len(ls) + 1
    <3>1. Len(c) + 1 \in DOMAIN d /\ d[Len(c) + 1] = ms[i]
      BY <1>5, <1>6, <2>1
    <3> QED BY <3>1
  <2>2. CASE i # Len(ls) + 1
    <3>1. i \in DOMAIN ls /\ ms[i] = ls[i]
      BY <1>6, <2>2
    <3>2. CASE \E j \in DOMAIN c : c[j] = ls[i]
      <4>1. PICK j \in DOMAIN c : c[j] = ls[i]
        BY <3>2
      <4>2. j \in DOMAIN d /\ d[j] = c[j]
        BY <1>5
      <4> QED BY <3>1, <4>1, <4>2
    <3> QED BY <1>2, <1>7, <3>1, <3>2
  <2> QED BY <2>1, <2>2
<1>8. Kept(platform, limit, ms, [parts |-> ps, current |-> d])
  BY <1>2, <1>3, <1>4, <1>7 DEF Kept
<1> QED BY <1>1, <1>8 DEF ms

\* and one that does not fit is cut, once nothing waits.
LEMMA CutLineKeeps ==
    ASSUME NEW platform, NEW limit \in Nat, limit >= 2, TagUnits \in Nat,
           NEW ls \in Seq(Line), NEW acc \in Progress, NEW l \in Line,
           Kept(platform, limit, ls, acc), acc.current = << >>, Measure(platform, l) > limit
    PROVE  Kept(platform, limit, Append(ls, l), [acc EXCEPT !.parts = @ \o HardSplit(platform, l, limit)])
<1> DEFINE ps == acc.parts
           hs == HardSplit(platform, l, limit)
           qs == ps \o hs
           ms == Append(ls, l)
<1>1. ps \in Seq(Text) /\ [acc EXCEPT !.parts = @ \o hs] = [parts |-> qs, current |-> NoText]
  BY ProgressFields DEF NoText
<1>2. /\ AllLetters(ps) \o Letters(Joined(NoText)) = Letters(Joined(ls))
      /\ \A i \in DOMAIN ps : Measure(platform, ps[i]) <= limit
      /\ Measure(platform, Joined(NoText)) <= limit
      /\ \A i \in DOMAIN ls : Measure(platform, ls[i]) <= limit =>
            \E k \in DOMAIN ps : ls[i] \in ToSet(Lines(ps[k]))
  BY DEF Kept, NoText
<1>3. hs \in Seq(Text) /\ AllLetters(hs) = Letters(l) /\ \A i \in DOMAIN hs : Measure(platform, hs[i]) <= limit
  BY HardSplitLaws
<1> HIDE DEF ps, hs
<1>4. AllLetters(qs) \o Letters(Joined(NoText)) = Letters(Joined(ms))
  <2>1. Letters(Joined(ms)) = Letters(Joined(ls)) \o Letters(l)
    BY LettersJoined
  <2>2. AllLetters(qs) = AllLetters(ps) \o Letters(l)
    BY <1>1, <1>3, AllLettersConcat
  <2>3. Letters(Joined(NoText)) = NoText /\ AllLetters(ps) \in Seq(Runes) /\ AllLetters(ps) \o Letters(l) \in Seq(Runes)
    <3>1. AllLetters(ps) \in Text /\ Letters(l) \in Text
      BY <1>1, AllLettersLaws, LettersLaws, LineLaws
    <3> QED BY <3>1, JoinedLaws, LettersLaws, TextLaws DEF NoText
  <2>4. AllLetters(ps) \o NoText = AllLetters(ps) /\ (AllLetters(ps) \o Letters(l)) \o NoText = AllLetters(ps) \o Letters(l)
    BY <2>3, Concatenation DEF NoText
  <2> QED BY <1>2, <2>1, <2>2, <2>3, <2>4
<1>5. /\ Len(ps) \in Nat /\ DOMAIN ps = 1..Len(ps) /\ Len(hs) \in Nat /\ DOMAIN hs = 1..Len(hs)
      /\ DOMAIN qs = 1..(Len(ps) + Len(hs))
      /\ \A i \in 1..Len(ps) : qs[i] = ps[i]
      /\ \A i \in 1..(Len(ps) + Len(hs)) : i > Len(ps) => qs[i] = hs[i - Len(ps)]
  BY <1>1, <1>3
<1>6. /\ Len(ls) \in Nat /\ DOMAIN ls = 1..Len(ls) /\ DOMAIN ms = 1..(Len(ls) + 1)
      /\ ms[Len(ls) + 1] = l /\ \A i \in 1..Len(ls) : ms[i] = ls[i]
  OBVIOUS
<1> HIDE DEF qs, ms
<1>7. \A i \in DOMAIN qs : Measure(platform, qs[i]) <= limit
  <2> TAKE i \in DOMAIN qs
  <2>1. CASE i > Len(ps)
    <3>1. i - Len(ps) \in DOMAIN hs /\ qs[i] = hs[i - Len(ps)]
      BY <1>5, <2>1
    <3> QED BY <1>3, <3>1
  <2>2. CASE ~(i > Len(ps))
    <3>1. i \in DOMAIN ps /\ qs[i] = ps[i]
      BY <1>5, <2>2
    <3> QED BY <1>2, <3>1
  <2> QED BY <2>1, <2>2
<1>8. ASSUME NEW i \in DOMAIN ms, Measure(platform, ms[i]) <= limit
      PROVE \E k \in DOMAIN qs : ms[i] \in ToSet(Lines(qs[k]))
  <2>1. Measure(platform, l) \in Nat
    BY MeasureLaws, LineLaws
  <2>2. i # Len(ls) + 1
    BY <1>6, <1>8, <2>1
  <2>3. i \in DOMAIN ls /\ ms[i] = ls[i]
    BY <1>6, <2>2
  <2>4. PICK k \in DOMAIN ps : ls[i] \in ToSet(Lines(ps[k]))
    BY <1>2, <1>8, <2>3
  <2>5. k \in DOMAIN qs /\ qs[k] = ps[k]
    BY <1>5
  <2> QED BY <2>3, <2>4, <2>5
<1>9. Kept(platform, limit, ms, [parts |-> qs, current |-> NoText])
  BY <1>2, <1>4, <1>7, <1>8 DEF Kept
<1> QED BY <1>1, <1>9 DEF hs, ms

LEMMA TakeKeeps ==
    ASSUME NEW platform, NEW limit \in Nat, limit >= 2, TagUnits \in Nat,
           NEW ls \in Seq(Line), NEW acc \in Progress, NEW l \in Line,
           Kept(platform, limit, ls, acc), Several(ls, acc)
    PROVE  /\ Kept(platform, limit, Append(ls, l), TakeLine(platform, limit, acc, l))
           /\ Several(Append(ls, l), TakeLine(platform, limit, acc, l))
<1> DEFINE next == TakeLine(platform, limit, acc, l)
           flushed == Flush(acc)
<1>1. flushed \in Progress /\ flushed.current = << >> /\ Kept(platform, limit, ls, flushed)
  BY FlushLaws, FlushKeeps
<1>2. acc.parts \in Seq(Text) /\ acc.current \in Seq(Line)
  BY DEF Progress
<1>3. acc.current # << >> => flushed.parts # << >>
  <2>1. acc.current # << >> => flushed.parts = Append(acc.parts, Joined(acc.current))
    BY FlushLaws
  <2>2. Joined(acc.current) \in Text
    BY <1>2, JoinedLaws
  <2> QED BY <1>2, <2>1, <2>2
<1>4. Measure(platform, l) \in Nat /\ Joined(Append(<< >>, l)) = l
  <2>1. Append(<< >>, l) = <<l>> /\ l \in Text
    BY LineLaws
  <2> QED BY <2>1, MeasureLaws, JoinedLaws
<1>5. CASE Measure(platform, l) > limit
  <2> DEFINE hs == HardSplit(platform, l, limit)
  <2>1. next = [flushed EXCEPT !.parts = @ \o hs]
    BY <1>5 DEF TakeLine
  <2>2. hs \in Seq(Text) /\ Len(hs) >= 2
    BY <1>5, HardSplitLaws
  <2>3. Kept(platform, limit, Append(ls, l), next)
    BY <1>1, <1>5, <2>1, CutLineKeeps
  <2> HIDE DEF hs, flushed, next
  <2>4. flushed.parts \in Seq(Text) /\ next.parts = flushed.parts \o hs
    BY <1>1, <2>1 DEF Progress
  <2>5. Len(next.parts) >= 2 /\ next.parts # << >> /\ Len(next.parts) # 1
    <3>1. Len(next.parts) = Len(flushed.parts) + Len(hs) /\ Len(flushed.parts) \in Nat /\ Len(hs) \in Nat
      BY <2>2, <2>4
    <3>2. Len(<< >>) = 0
      OBVIOUS
    <3> QED BY <2>2, <3>1, <3>2
  <2> QED BY <2>3, <2>5 DEF Several, next
<1>6. CASE ~(Measure(platform, l) > limit)
  <2> DEFINE full == acc.current # << >> /\ Measure(platform, Joined(Append(acc.current, l))) > limit
  <2>1. next = [(IF full THEN flushed ELSE acc) EXCEPT !.current = Append(@, l)]
    BY <1>6 DEF TakeLine
  <2>2. CASE full
    <3>1. next = [flushed EXCEPT !.current = Append(@, l)]
      BY <2>1, <2>2
    <3>2. Measure(platform, Joined(Append(flushed.current, l))) <= limit
      BY <1>1, <1>4, <1>6
    <3> HIDE DEF flushed, next
    <3>3. Kept(platform, limit, Append(ls, l), next)
      BY <1>1, <3>1, <3>2, WaitKeeps
    <3>4. next.parts = flushed.parts /\ next.current = Append(<< >>, l)
      BY <1>1, <3>1 DEF Progress
    <3>5. next.parts # << >> /\ next.current # << >>
      BY <1>3, <2>2, <3>4
    <3> QED BY <3>3, <3>5 DEF Several, next
  <2>3. CASE ~full
    <3>1. next = [acc EXCEPT !.current = Append(@, l)]
      BY <2>1, <2>3
    <3>2. Measure(platform, Joined(Append(acc.current, l))) <= limit
      <4>1. CASE acc.current = << >>
        BY <1>4, <1>6, <4>1
      <4>2. CASE acc.current # << >>
        <5>1. Append(acc.current, l) \in Seq(Line)
          BY <1>2
        <5>2. Measure(platform, Joined(Append(acc.current, l))) \in Nat
          BY <5>1, JoinedLaws, MeasureLaws
        <5> QED BY <2>3, <4>2, <5>2
      <4> QED BY <4>1, <4>2
    <3> HIDE DEF next
    <3>3. Kept(platform, limit, Append(ls, l), next)
      BY <3>1, <3>2, WaitKeeps
    <3>4. next.parts = acc.parts /\ next.current = Append(acc.current, l)
      BY <3>1 DEF Progress
    <3>5. next.current # << >>
      <4>1. Len(Append(acc.current, l)) = Len(acc.current) + 1 /\ Len(acc.current) \in Nat
        BY <1>2
      <4>2. Len(<< >>) = 0
        OBVIOUS
      <4>3. Len(next.current) # 0
        BY <3>4, <4>1
      <4> QED BY <4>2, <4>3
    <3>6. next.parts = << >> => next.current = Append(ls, l)
      BY <3>4 DEF Several
    <3> QED BY <3>3, <3>5, <3>6 DEF Several, next
  <2> QED BY <2>2, <2>3
<1> QED BY <1>5, <1>6

LEMMA TakingKeeps ==
    ASSUME NEW platform, NEW limit \in Nat, limit >= 2, TagUnits \in Nat
    PROVE  \A ls \in Seq(Line) : /\ Kept(platform, limit, ls, Taking(platform, limit, ls))
                                 /\ Several(ls, Taking(platform, limit, ls))
<1> DEFINE P == {ls \in Seq(Line) : /\ Kept(platform, limit, ls, Taking(platform, limit, ls))
                                    /\ Several(ls, Taking(platform, limit, ls))}
<1>1. << >> \in P
  <2>1. AllLetters(NoText) = NoText /\ Letters(NoText) = NoText /\ Joined(NoText) = NoText /\ NoText \o NoText = NoText
    BY AllLettersLaws, LettersLaws, JoinedLaws DEF NoText
  <2>2. Measure(platform, NoText) <= limit /\ DOMAIN NoText = {} /\ NoText \in Seq(Line) /\ Len(NoText) = 0
    BY MeasureLaws DEF NoText
  <2>3. NoParts.parts = NoText /\ NoParts.current = NoText
    BY DEF NoParts, NoText
  <2>4. Kept(platform, limit, NoText, NoParts)
    BY <2>1, <2>2, <2>3 DEF Kept
  <2>5. Several(NoText, NoParts)
    BY <2>2, <2>3 DEF Several
  <2>6. Taking(platform, limit, NoText) = NoParts
    BY TakingLaws DEF NoText
  <2> QED BY <2>2, <2>4, <2>5, <2>6 DEF NoText
<1>2. ASSUME NEW ls \in Seq(Line), NEW l \in Line, ls \in P PROVE Append(ls, l) \in P
  <2> DEFINE acc == Taking(platform, limit, ls)
  <2>1. acc \in Progress /\ Taking(platform, limit, Append(ls, l)) = TakeLine(platform, limit, acc, l)
    BY TakingLaws
  <2>2. Kept(platform, limit, ls, acc) /\ Several(ls, acc)
    BY <1>2
  <2> HIDE DEF acc
  <2>3. /\ Kept(platform, limit, Append(ls, l), TakeLine(platform, limit, acc, l))
        /\ Several(Append(ls, l), TakeLine(platform, limit, acc, l))
    BY <2>1, <2>2, TakeKeeps
  <2> QED BY <2>1, <2>3
<1> HIDE DEF P
<1>3. Seq(Line) \subseteq P
  BY <1>1, <1>2, AllSequences
<1> QED BY <1>3 DEF P

LEMMA SplitLaws ==
    ASSUME NEW platform, NEW limit \in Nat, limit >= 2, TagUnits \in Nat,
           NEW text \in Text, Measure(platform, text) > limit
    PROVE  /\ SplitMessage(platform, text, limit) \in Seq(Text)
           /\ WellSplit(platform, text, limit, SplitMessage(platform, text, limit))
           /\ Len(SplitMessage(platform, text, limit)) >= 2
<1> DEFINE ls == Lines(text)
           acc == Taking(platform, limit, ls)
           parts == SplitMessage(platform, text, limit)
<1>1. Measure(platform, text) \in Nat
  BY MeasureLaws
<1>2. parts = Flush(acc).parts
  <2>1. ~(limit <= 0 \/ Measure(platform, text) <= limit)
    BY <1>1
  <2> QED BY <2>1 DEF SplitMessage, Taking, NoParts, FoldLeft, MapThenFoldSet
<1>3. ls \in Seq(Line) /\ ls # << >> /\ Joined(ls) = text
  BY LinesLaws, JoinedOfLines
<1>4. acc \in Progress /\ Kept(platform, limit, ls, acc) /\ Several(ls, acc)
  BY <1>3, TakingLaws, TakingKeeps
<1> HIDE DEF acc, parts
<1>5. Flush(acc) \in Progress /\ Flush(acc).current = NoText /\ Kept(platform, limit, ls, Flush(acc))
  BY <1>3, <1>4, FlushLaws, FlushKeeps DEF NoText
<1>6. parts \in Seq(Text)
  BY <1>2, <1>5 DEF Progress
<1>7. AllLetters(parts) = Letters(text)
  <2>1. AllLetters(parts) \o Letters(Joined(NoText)) = Letters(text)
    BY <1>2, <1>3, <1>5 DEF Kept
  <2>2. Letters(Joined(NoText)) = NoText
    BY JoinedLaws, LettersLaws DEF NoText
  <2>3. AllLetters(parts) \in Seq(Runes)
    BY <1>6, AllLettersLaws, TextLaws
  <2>4. AllLetters(parts) \o NoText = AllLetters(parts)
    BY <2>3, Concatenation DEF NoText
  <2> QED BY <2>1, <2>2, <2>4
<1>8. ASSUME NEW line \in ToSet(ls), Measure(platform, line) <= limit
      PROVE \E i \in DOMAIN parts : line \in ToSet(Lines(parts[i]))
  <2>1. PICK i \in DOMAIN ls : line = ls[i]
    BY DEF ToSet
  <2>2. DOMAIN NoText = {}
    BY DEF NoText
  <2> QED BY <1>2, <1>5, <1>8, <2>1, <2>2 DEF Kept
<1>9. Len(parts) >= 2
  <2>1. acc.parts \in Seq(Text) /\ acc.current \in Seq(Line)
    BY <1>4 DEF Progress
  <2>2. acc.parts # << >>
    <3>1. acc.parts = << >> => Joined(acc.current) = text
      BY <1>3, <1>4 DEF Several
    <3>2. Measure(platform, Joined(acc.current)) <= limit
      BY <1>4 DEF Kept
    <3> QED BY <1>1, <3>1, <3>2
  <2>3. Len(acc.parts) \in Nat /\ Len(acc.parts) >= 1
    BY <2>1, <2>2
  <2>4. CASE acc.current = << >>
    <3>1. parts = acc.parts
      BY <1>2, <1>4, <2>4, FlushLaws
    <3>2. Len(acc.parts) # 1
      BY <1>4, <2>4 DEF Several
    <3> HIDE DEF ls
    <3>3. Len(acc.parts) >= 2
      <4> DEFINE n == Len(acc.parts)
      <4>1. n \in Nat /\ n >= 1 /\ n # 1
        BY <2>3, <3>2
      <4> HIDE DEF n
      <4>2. n >= 2
        BY <4>1
      <4> QED BY <4>2 DEF n
    <3> QED BY <3>1, <3>3
  <2>5. CASE acc.current # << >>
    <3>1. parts = Append(acc.parts, Joined(acc.current))
      BY <1>2, <1>4, <2>5, FlushLaws
    <3> QED BY <2>1, <2>3, <3>1
  <2> QED BY <2>4, <2>5
<1>10. \A i \in DOMAIN parts : Measure(platform, parts[i]) <= limit
  BY <1>2, <1>5 DEF Kept
<1> QED BY <1>6, <1>7, <1>8, <1>9, <1>10 DEF WellSplit, parts

\* The parts of any text are what they should be, with room left for the marker if
\* there are several; there are several whenever the text does not fit as it is
\* (Bot.reply, splitMessage, hardSplit).
THEOREM PartsAreWellSplit ==
    ASSUME NEW platform, NEW text \in Text
    PROVE  /\ Parts(platform, text) \in Seq(Text) /\ Len(Parts(platform, text)) >= 1
           /\ Len(Parts(platform, text)) > 1 <=> Measure(platform, text) > Limit
           /\ WellSplit(platform, text, IF Len(Parts(platform, text)) > 1 THEN Limit - Reserve ELSE Limit,
                        Parts(platform, text))
<1> USE SplitAssumption
<1> DEFINE room == Limit - Reserve
<1>1. room \in Nat /\ room >= 2 /\ Limit \in Nat /\ Limit >= 2 /\ room <= Limit /\ Measure(platform, text) \in Nat
  <2>1. Measure(platform, text) \in Nat
    BY MeasureLaws
  <2> QED BY <2>1
<1> HIDE DEF room
<1>2. CASE Measure(platform, text) <= Limit
  <2>1. Parts(platform, text) = <<text>>
    <3>1. SplitMessage(platform, text, Limit) = <<text>> /\ Len(<<text>>) = 1
      BY <1>2 DEF SplitMessage
    <3> QED BY <3>1 DEF Parts
  <2>2. <<text>> \in Seq(Text) /\ Len(<<text>>) = 1 /\ DOMAIN <<text>> = {1} /\ <<text>>[1] = text
    OBVIOUS
  <2>3. AllLetters(<<text>>) = Letters(text)
    <3>1. AllLetters(Append(NoText, text)) = NoText \o Letters(text) /\ Append(NoText, text) = <<text>>
      <4>1. NoText \in Seq(Text) /\ AllLetters(NoText) = NoText
        BY AllLettersLaws DEF NoText
      <4>2. AllLetters(Append(NoText, text)) = AllLetters(NoText) \o Letters(text)
        BY <4>1, AllLettersLaws
      <4>3. Append(NoText, text) = <<text>>
        BY DEF NoText
      <4> QED BY <4>1, <4>2, <4>3
    <3>2. Letters(text) \in Seq(Runes)
      BY LettersLaws, TextLaws
    <3>3. NoText \o Letters(text) = Letters(text)
      BY <3>2, Concatenation DEF NoText
    <3> QED BY <3>1, <3>3
  <2>4. WellSplit(platform, text, Limit, <<text>>)
    BY <1>2, <2>2, <2>3 DEF WellSplit
  <2>5. ~(Measure(platform, text) > Limit) /\ ~(Len(<<text>>) > 1)
    BY <1>1, <1>2, <2>2
  <2> QED BY <2>1, <2>2, <2>4, <2>5
<1>3. CASE ~(Measure(platform, text) <= Limit)
  <2>1. Len(SplitMessage(platform, text, Limit)) >= 2
    BY <1>1, <1>3, SplitLaws
  <2>2. /\ SplitMessage(platform, text, room) \in Seq(Text)
        /\ WellSplit(platform, text, room, SplitMessage(platform, text, room))
        /\ Len(SplitMessage(platform, text, room)) >= 2
    <3>1. Measure(platform, text) > room
      BY <1>1, <1>3
    <3> QED BY <1>1, <3>1, SplitLaws
  <2>3. SplitMessage(platform, text, room) \in Seq(Text)
    BY <2>2
  <2>4. Len(SplitMessage(platform, text, Limit)) \in Nat /\ Len(SplitMessage(platform, text, room)) \in Nat
    <3>1. SplitMessage(platform, text, Limit) \in Seq(Text)
      BY <1>1, <1>3, SplitLaws
    <3> QED BY <2>3, <3>1
  <2>5. Parts(platform, text) = SplitMessage(platform, text, room)
    BY <2>1, <2>4 DEF Parts, room
  <2>6. Len(Parts(platform, text)) > 1
    BY <2>2, <2>4, <2>5
  <2>7. Measure(platform, text) > Limit
    BY <1>1, <1>3
  <2>8. Len(Parts(platform, text)) >= 1
    BY <2>2, <2>4, <2>5
  <2> QED BY <2>2, <2>3, <2>5, <2>6, <2>7, <2>8 DEF room
<1> QED BY <1>2, <1>3
=================================================================================
