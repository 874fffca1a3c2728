--------------------------- MODULE TickHistoryProofs ---------------------------
(***************************************************************************)
(* The ticks of a range, for every value of the constants: whatever pages   *)
(* they come in, they are the broker's.                                    *)
(***************************************************************************)
EXTENDS TickHistory, NativeDataProofs

------------------------------------------------------------------------------
(* Sequences, one element at a time *)

\* f takes the steps of G from b on.
Steps(X, b, n, G, f) ==
    f \in [0 .. n -> X] /\ f[0] = b /\ \A i \in 1 .. n : f[i] = G[i][f[i - 1]]

LEMMA StepsThere ==
    ASSUME NEW X, NEW b \in X, NEW n \in Nat, NEW G \in [1 .. n -> [X -> X]]
    PROVE  \E f : Steps(X, b, n, G, f)
<1>1. PICK it : Iterates(X, b, n, G, it)
  BY FoldExists
<1> DEFINE f == [i \in 0 .. n |-> it[1 .. i]]
<1>2. \A i \in 0 .. n : 1 .. i \in SUBSET (1 .. n)
  OBVIOUS
<1>3. f \in [0 .. n -> X]
  BY <1>1, <1>2 DEF Iterates
<1>4. f[0] = b
  <2>1. 1 .. 0 = {} /\ 0 \in 0 .. n
    OBVIOUS
  <2>2. it[{}] = b
    BY <1>1 DEF Iterates
  <2> QED
    BY <2>1, <2>2
<1>5. ASSUME NEW i \in 1 .. n PROVE f[i] = G[i][f[i - 1]]
  <2>1. i \in Nat /\ 1 .. i \in SUBSET (1 .. n) /\ i \in 1 .. i /\ i - 1 \in 0 .. n /\ i \in 0 .. n
    OBVIOUS
  <2>2. Max(1 .. i) = i
    BY <2>1, MaxOfUpTo
  <2>3. (1 .. i) \ {i} = 1 .. i - 1
    OBVIOUS
  <2>4. 1 .. i # {}
    BY <2>1
  <2>5. it[1 .. i] = G[Max(1 .. i)][it[(1 .. i) \ {Max(1 .. i)}]]
    BY <1>1, <2>1, <2>4 DEF Iterates
  <2> QED
    BY <2>1, <2>2, <2>3, <2>5
<1> HIDE DEF f
<1>6. Steps(X, b, n, G, f)
  BY <1>3, <1>4, <1>5 DEF Steps
<1> QED
  BY <1>6

\* What holds of no elements, and of one more if it holds without it, holds.
LEMMA OneByOne ==
    ASSUME NEW Y, NEW Q, <<>> \in Q,
           \A t \in Seq(Y) : \A e \in Y : t \in Q => Append(t, e) \in Q
    PROVE  \A s \in Seq(Y) : s \in Q
<1> TAKE s \in Seq(Y)
<1> DEFINE n == Len(s)
           S == {k \in 0 .. n : SubSeq(s, 1, k) \in Q}
<1>1. n \in Nat /\ 0 \in 0 .. n /\ n \in 0 .. n
  OBVIOUS
<1>2. 0 \in S
  <2>1. SubSeq(s, 1, 0) = <<>>
    OBVIOUS
  <2> QED
    BY <1>1, <2>1
<1>3. ASSUME NEW k \in 1 .. n, k - 1 \in S PROVE k \in S
  <2> DEFINE t == SubSeq(s, 1, k - 1)
  <2>1. t \in Seq(Y) /\ s[k] \in Y /\ t \in Q
    BY <1>3
  <2>2. Append(t, s[k]) = SubSeq(s, 1, k)
    OBVIOUS
  <2> HIDE DEF t
  <2>3. Append(t, s[k]) \in Q
    BY <2>1
  <2>4. k \in 0 .. n
    OBVIOUS
  <2> QED
    BY <2>2, <2>3, <2>4
<1> HIDE DEF S
<1>4. n \in S
  BY <1>1, <1>2, <1>3, EveryPosition
<1>5. SubSeq(s, 1, n) = s
  OBVIOUS
<1> QED
  BY <1>4, <1>5 DEF S

------------------------------------------------------------------------------
(* Those *)

ThoseIter(s, S, f) ==
    f = [n \in 0 .. Len(s) |->
           IF n = 0 THEN <<>> ELSE IF s[n] \in S THEN Append(f[n - 1], s[n]) ELSE f[n - 1]]

ThoseSteps(Y, s, S, f) ==
    /\ f \in [0 .. Len(s) -> Seq(Y)] /\ f[0] = <<>>
    /\ \A n \in 1 .. Len(s) : f[n] = IF s[n] \in S THEN Append(f[n - 1], s[n]) ELSE f[n - 1]

LEMMA ThoseAreSteps ==
    ASSUME NEW Y, NEW s \in Seq(Y), NEW S
    PROVE  \E f : ThoseSteps(Y, s, S, f) /\ Those(s, S) = f[Len(s)]
<1> DEFINE n == Len(s)
           X == Seq(Y)
           G == [i \in 1 .. n |-> [x \in X |-> IF s[i] \in S THEN Append(x, s[i]) ELSE x]]
<1>1. n \in Nat /\ <<>> \in X /\ \A i \in 1 .. n : s[i] \in Y
  BY EmptySeq
<1>2. ASSUME NEW i \in 1 .. n, NEW x \in X
      PROVE  (IF s[i] \in S THEN Append(x, s[i]) ELSE x) \in X
  BY <1>1, AppendProperties
<1>3. G \in [1 .. n -> [X -> X]]
  BY <1>2
<1>4. \A i \in 1 .. n : \A x \in X : G[i][x] = IF s[i] \in S THEN Append(x, s[i]) ELSE x
  OBVIOUS
<1>5. PICK f : Steps(X, <<>>, n, G, f)
  <2> HIDE DEF G, X, n
  <2> QED
    BY <1>1, <1>3, StepsThere
<1> HIDE DEF G
<1>6. /\ f \in [0 .. n -> X] /\ f[0] = <<>>
      /\ \A i \in 1 .. n : f[i] = IF s[i] \in S THEN Append(f[i - 1], s[i]) ELSE f[i - 1]
  <2>1. f \in [0 .. n -> X] /\ f[0] = <<>> /\ \A i \in 1 .. n : f[i] = G[i][f[i - 1]]
    BY <1>5 DEF Steps
  <2>2. \A i \in 1 .. n : f[i - 1] \in X
    BY <1>1, <2>1
  <2> QED
    BY <1>4, <2>1, <2>2
<1>7. ThoseIter(s, S, f)
  <2>1. ASSUME NEW i \in 0 .. n
        PROVE  f[i] = IF i = 0 THEN <<>> ELSE IF s[i] \in S THEN Append(f[i - 1], s[i]) ELSE f[i - 1]
    <3>1. CASE i = 0
      BY <1>6, <3>1
    <3>2. CASE i # 0
      <4>1. i \in 1 .. n
        BY <3>2
      <4> QED
        BY <1>6, <3>2, <4>1
    <3> QED
      BY <3>1, <3>2
  <2> QED
    BY <1>6, <2>1 DEF ThoseIter
<1> DEFINE g == CHOOSE h : ThoseIter(s, S, h)
<1>8. ThoseIter(s, S, g)
  BY <1>7
<1>9. Those(s, S) = g[Len(s)]
  BY DEF Those, ThoseIter
<1> HIDE DEF g
<1>10. /\ DOMAIN g = 0 .. n /\ g[0] = <<>>
       /\ \A i \in 1 .. n : g[i] = IF s[i] \in S THEN Append(g[i - 1], s[i]) ELSE g[i - 1]
  <2>1. g = [i \in 0 .. n |-> IF i = 0 THEN <<>> ELSE IF s[i] \in S THEN Append(g[i - 1], s[i]) ELSE g[i - 1]]
    BY <1>8 DEF ThoseIter
  <2>2. 0 \in 0 .. n /\ \A i \in 1 .. n : i \in 0 .. n /\ i # 0
    BY <1>1
  <2> HIDE DEF n
  <2>3. DOMAIN g = 0 .. n
    BY <2>1
  <2>4. \A i \in 0 .. n :
           g[i] = IF i = 0 THEN <<>> ELSE IF s[i] \in S THEN Append(g[i - 1], s[i]) ELSE g[i - 1]
    BY <2>1
  <2> QED
    BY <2>2, <2>3, <2>4
<1> DEFINE E == {k \in 0 .. n : g[k] = f[k]}
<1>11. 0 \in E
  BY <1>1, <1>6, <1>10
<1>12. \A k \in 1 .. n : k - 1 \in E => k \in E
  BY <1>6, <1>10
<1> HIDE DEF E
<1>13. \A k \in 0 .. n : k \in E
  BY <1>1, <1>11, <1>12, EveryPosition
<1>14. g[n] = f[n]
  BY <1>1, <1>13 DEF E
<1>15. ThoseSteps(Y, s, S, f)
  BY <1>6 DEF ThoseSteps
<1> QED
  BY <1>9, <1>14, <1>15

LEMMA ThoseInSeq ==
    ASSUME NEW Y, NEW s \in Seq(Y), NEW S
    PROVE  Those(s, S) \in Seq(Y)
<1>1. PICK f : ThoseSteps(Y, s, S, f) /\ Those(s, S) = f[Len(s)]
  BY ThoseAreSteps
<1>2. Len(s) \in 0 .. Len(s)
  OBVIOUS
<1> QED
  BY <1>1, <1>2 DEF ThoseSteps

LEMMA ThoseOfNone == ASSUME NEW S PROVE Those(<<>>, S) = <<>>
<1>1. <<>> \in Seq({}) /\ Len(<<>>) = 0
  BY EmptySeq
<1>2. PICK f : ThoseSteps({}, <<>>, S, f) /\ Those(<<>>, S) = f[Len(<<>>)]
  BY <1>1, ThoseAreSteps
<1> QED
  BY <1>1, <1>2 DEF ThoseSteps

LEMMA ThoseAppend ==
    ASSUME NEW Y, NEW s \in Seq(Y), NEW e \in Y, NEW S
    PROVE  Those(Append(s, e), S) = IF e \in S THEN Append(Those(s, S), e) ELSE Those(s, S)
<1> DEFINE t == Append(s, e)
           n == Len(s)
<1>1. /\ t \in Seq(Y) /\ Len(t) = n + 1 /\ n \in Nat /\ t[n + 1] = e
      /\ \A i \in 1 .. n : t[i] = s[i]
  BY AppendProperties
<1>2. PICK f : ThoseSteps(Y, s, S, f) /\ Those(s, S) = f[n]
  BY ThoseAreSteps
<1>3. PICK g : ThoseSteps(Y, t, S, g) /\ Those(t, S) = g[n + 1]
  <2> HIDE DEF t
  <2> QED
    BY <1>1, ThoseAreSteps
<1> HIDE DEF t
<1> DEFINE E == {k \in 0 .. n : g[k] = f[k]}
<1>4. 0 \in E
  BY <1>1, <1>2, <1>3 DEF ThoseSteps
<1>5. ASSUME NEW k \in 1 .. n, k - 1 \in E PROVE k \in E
  <2>1. k \in 1 .. n + 1 /\ k \in 0 .. n
    BY <1>1
  <2>2. g[k] = IF t[k] \in S THEN Append(g[k - 1], t[k]) ELSE g[k - 1]
    BY <1>1, <1>3, <2>1 DEF ThoseSteps
  <2>3. f[k] = IF s[k] \in S THEN Append(f[k - 1], s[k]) ELSE f[k - 1]
    BY <1>2 DEF ThoseSteps
  <2> QED
    BY <1>1, <1>5, <2>1, <2>2, <2>3
<1> HIDE DEF E
<1>6. n \in E
  <2>1. \A k \in 0 .. n : k \in E
    BY <1>1, <1>4, <1>5, EveryPosition
  <2> QED
    BY <1>1, <2>1
<1>7. g[n] = f[n]
  BY <1>6 DEF E
<1>8. g[n + 1] = IF t[n + 1] \in S THEN Append(g[n], t[n + 1]) ELSE g[n]
  <2>1. n + 1 \in 1 .. n + 1 /\ (n + 1) - 1 = n
    BY <1>1
  <2> DEFINE m == n + 1
  <2>2. m \in 1 .. m /\ m - 1 = n
    BY <2>1
  <2>3. \A k \in 1 .. m : g[k] = IF t[k] \in S THEN Append(g[k - 1], t[k]) ELSE g[k - 1]
    BY <1>1, <1>3 DEF ThoseSteps
  <2> HIDE DEF m
  <2>4. g[m] = IF t[m] \in S THEN Append(g[m - 1], t[m]) ELSE g[m - 1]
    BY <2>2, <2>3
  <2> QED
    BY <2>2, <2>4 DEF m
<1> QED
  BY <1>1, <1>2, <1>3, <1>7, <1>8 DEF t

LEMMA ThoseConcat ==
    ASSUME NEW Y, NEW s \in Seq(Y), NEW t \in Seq(Y), NEW S
    PROVE  Those(s \o t, S) = Those(s, S) \o Those(t, S)
<1> DEFINE Q == {u \in Seq(Y) : Those(s \o u, S) = Those(s, S) \o Those(u, S)}
           a == Those(s, S)
<1>1. a \in Seq(Y)
  BY ThoseInSeq
<1>2. <<>> \in Q
  <2>1. s \o <<>> = s /\ a \o <<>> = a
    BY <1>1, ConcatEmptySeq
  <2>2. <<>> \in Seq(Y)
    BY EmptySeq
  <2> QED
    BY <2>1, <2>2, ThoseOfNone
<1>3. ASSUME NEW u \in Seq(Y), NEW e \in Y, u \in Q PROVE Append(u, e) \in Q
  <2> DEFINE b == Those(u, S)
             v == Append(u, e)
  <2>1. v \in Seq(Y) /\ b \in Seq(Y) /\ s \o u \in Seq(Y) /\ Those(s \o u, S) = a \o b
    BY <1>3, ThoseInSeq, ConcatProperties, AppendProperties
  <2>2. s \o v = Append(s \o u, e)
    BY AppendToConcat DEF AppendsInside
  <2>3. Those(Append(s \o u, e), S) = IF e \in S THEN Append(a \o b, e) ELSE a \o b
    BY <2>1, ThoseAppend
  <2>4. Those(v, S) = IF e \in S THEN Append(b, e) ELSE b
    BY ThoseAppend
  <2> HIDE DEF a, b
  <2>5. Append(a \o b, e) = a \o Append(b, e)
    <3>1. a \in Seq(Y) /\ b \in Seq(Y)
      BY <1>1, <2>1
    <3>2. AppendsInside(a, b, e)
      BY <3>1, AppendToConcat
    <3> QED
      BY <3>2 DEF AppendsInside
  <2>6. Those(s \o v, S) = a \o Those(v, S)
    BY <2>2, <2>3, <2>4, <2>5
  <2> QED
    BY <2>1, <2>6 DEF a
<1>4. t \in Q
  <2> HIDE DEF Q
  <2> QED
    BY <1>2, <1>3, OneByOne
<1> QED
  BY <1>4

LEMMA ThoseTwice ==
    ASSUME NEW Y, NEW s \in Seq(Y), NEW S, NEW P
    PROVE  Those(Those(s, S), P) = Those(s, S \intersect P)
<1> DEFINE Q == {u \in Seq(Y) : Those(Those(u, S), P) = Those(u, S \intersect P)}
<1>1. <<>> \in Q
  BY EmptySeq, ThoseOfNone
<1>2. ASSUME NEW u \in Seq(Y), NEW e \in Y, u \in Q PROVE Append(u, e) \in Q
  <2> DEFINE a == Those(u, S)
  <2>1. a \in Seq(Y) /\ Append(u, e) \in Seq(Y) /\ Those(a, P) = Those(u, S \intersect P)
    BY <1>2, ThoseInSeq, AppendProperties
  <2>2. Those(Append(u, e), S) = IF e \in S THEN Append(a, e) ELSE a
    BY ThoseAppend
  <2>3. Those(Append(u, e), S \intersect P) = IF e \in S \intersect P THEN Append(Those(a, P), e) ELSE Those(a, P)
    BY <2>1, ThoseAppend
  <2> HIDE DEF a
  <2>4. Those(Append(a, e), P) = IF e \in P THEN Append(Those(a, P), e) ELSE Those(a, P)
    BY <2>1, ThoseAppend
  <2>5. Those(Those(Append(u, e), S), P) = Those(Append(u, e), S \intersect P)
    BY <2>2, <2>3, <2>4
  <2> QED
    BY <2>1, <2>5
<1>3. s \in Q
  <2> HIDE DEF Q
  <2> QED
    BY <1>1, <1>2, OneByOne
<1> QED
  BY <1>3

LEMMA AppendedIs ==
    ASSUME NEW Y, NEW u \in Seq(Y), NEW e \in Y
    PROVE  /\ Append(u, e) \in Seq(Y) /\ Len(Append(u, e)) = Len(u) + 1 /\ Len(u) \in Nat
           /\ DOMAIN u = 1 .. Len(u) /\ DOMAIN Append(u, e) = 1 .. Len(u) + 1
           /\ Append(u, e)[Len(u) + 1] = e
           /\ \A i \in 1 .. Len(u) : i \in 1 .. Len(u) + 1 /\ Append(u, e)[i] = u[i]
  BY AppendProperties

\* Sets that agree on the elements of a sequence select the same.
LEMMA ThoseSame ==
    ASSUME NEW Y, NEW s \in Seq(Y), NEW S, NEW P,
           \A i \in 1 .. Len(s) : s[i] \in S <=> s[i] \in P
    PROVE  Those(s, S) = Those(s, P)
<1>1. PICK f : ThoseSteps(Y, s, S, f) /\ Those(s, S) = f[Len(s)]
  BY ThoseAreSteps
<1>2. PICK g : ThoseSteps(Y, s, P, g) /\ Those(s, P) = g[Len(s)]
  BY ThoseAreSteps
<1> DEFINE n == Len(s)
           E == {k \in 0 .. n : g[k] = f[k]}
<1>3. n \in Nat /\ n \in 0 .. n
  OBVIOUS
<1>4. 0 \in E
  BY <1>1, <1>2, <1>3 DEF ThoseSteps
<1>5. ASSUME NEW k \in 1 .. n, k - 1 \in E PROVE k \in E
  <2>1. f[k] = IF s[k] \in S THEN Append(f[k - 1], s[k]) ELSE f[k - 1]
    BY <1>1 DEF ThoseSteps
  <2>2. g[k] = IF s[k] \in P THEN Append(g[k - 1], s[k]) ELSE g[k - 1]
    BY <1>2 DEF ThoseSteps
  <2>3. k \in 0 .. n
    OBVIOUS
  <2> QED
    BY <1>5, <2>1, <2>2, <2>3
<1>6. n \in E
  <2> HIDE DEF E, n
  <2> QED
    BY <1>3, <1>4, <1>5, EveryPosition
<1> QED
  BY <1>1, <1>2, <1>6

LEMMA ThoseAll ==
    ASSUME NEW Y, NEW s \in Seq(Y), NEW S, \A i \in 1 .. Len(s) : s[i] \in S
    PROVE  Those(s, S) = s
<1> DEFINE Q == {u \in Seq(Y) : (\A i \in 1 .. Len(u) : u[i] \in S) => Those(u, S) = u}
<1>1. <<>> \in Q
  BY EmptySeq, ThoseOfNone
<1>2. ASSUME NEW u \in Seq(Y), NEW e \in Y, u \in Q PROVE Append(u, e) \in Q
  <2> DEFINE v == Append(u, e)
             n == Len(u)
  <2>1. /\ v \in Seq(Y) /\ Len(v) = n + 1 /\ n \in Nat /\ v[n + 1] = e
        /\ \A i \in 1 .. n : i \in 1 .. n + 1 /\ v[i] = u[i]
    BY AppendedIs
  <2>2. Those(v, S) = IF e \in S THEN Append(Those(u, S), e) ELSE Those(u, S)
    BY ThoseAppend
  <2> HIDE DEF v
  <2>3. ASSUME \A i \in 1 .. Len(v) : v[i] \in S PROVE Those(v, S) = v
    <3>1. e \in S
      <4>1. n + 1 \in 1 .. Len(v)
        BY <2>1
      <4> DEFINE m == n + 1
      <4>2. m \in 1 .. Len(v) /\ v[m] = e
        BY <2>1, <4>1
      <4> HIDE DEF m
      <4> QED
        BY <2>3, <4>2
    <3>2. \A i \in 1 .. n : u[i] \in S
      BY <2>1, <2>3
    <3>3. Those(u, S) = u
      BY <1>2, <3>2
    <3> QED
      BY <2>2, <3>1, <3>3 DEF v
  <2> QED
    BY <2>1, <2>3 DEF v
<1>3. s \in Q
  <2> HIDE DEF Q
  <2> QED
    BY <1>1, <1>2, OneByOne
<1> QED
  BY <1>3

LEMMA ThoseNoneOf ==
    ASSUME NEW Y, NEW s \in Seq(Y), NEW S, \A i \in 1 .. Len(s) : s[i] \notin S
    PROVE  Those(s, S) = <<>>
<1> DEFINE Q == {u \in Seq(Y) : (\A i \in 1 .. Len(u) : u[i] \notin S) => Those(u, S) = <<>>}
<1>1. <<>> \in Q
  BY EmptySeq, ThoseOfNone
<1>2. ASSUME NEW u \in Seq(Y), NEW e \in Y, u \in Q PROVE Append(u, e) \in Q
  <2> DEFINE v == Append(u, e)
             n == Len(u)
  <2>1. /\ v \in Seq(Y) /\ Len(v) = n + 1 /\ n \in Nat /\ v[n + 1] = e
        /\ \A i \in 1 .. n : i \in 1 .. n + 1 /\ v[i] = u[i]
    BY AppendedIs
  <2>2. Those(v, S) = IF e \in S THEN Append(Those(u, S), e) ELSE Those(u, S)
    BY ThoseAppend
  <2> HIDE DEF v
  <2>3. ASSUME \A i \in 1 .. Len(v) : v[i] \notin S PROVE Those(v, S) = <<>>
    <3>1. e \notin S
      <4>1. n + 1 \in 1 .. Len(v)
        BY <2>1
      <4> DEFINE m == n + 1
      <4>2. m \in 1 .. Len(v) /\ v[m] = e
        BY <2>1, <4>1
      <4> HIDE DEF m
      <4> QED
        BY <2>3, <4>2
    <3>2. \A i \in 1 .. n : u[i] \notin S
      BY <2>1, <2>3
    <3> QED
      BY <1>2, <2>2, <3>1, <3>2
  <2> QED
    BY <2>1, <2>3 DEF v
<1>3. s \in Q
  <2> HIDE DEF Q
  <2> QED
    BY <1>1, <1>2, OneByOne
<1> QED
  BY <1>3

\* Each of those is an element of the sequence, and in the set.
LEMMA ThoseElements ==
    ASSUME NEW Y, NEW s \in Seq(Y), NEW S
    PROVE  \A i \in 1 .. Len(Those(s, S)) :
             Those(s, S)[i] \in S /\ \E j \in 1 .. Len(s) : Those(s, S)[i] = s[j]
<1> DEFINE Ok(u) == \A i \in 1 .. Len(Those(u, S)) :
                      Those(u, S)[i] \in S /\ \E j \in 1 .. Len(u) : Those(u, S)[i] = u[j]
           Q == {u \in Seq(Y) : Ok(u)}
<1>1. <<>> \in Q
  <2>1. Len(<<>>) = 0
    BY EmptySeq
  <2> QED
    BY <2>1, EmptySeq, ThoseOfNone
<1>2. ASSUME NEW u \in Seq(Y), NEW e \in Y, u \in Q PROVE Append(u, e) \in Q
  <2> DEFINE v == Append(u, e)
             n == Len(u)
             a == Those(u, S)
             k == Len(a)
  <2>1. /\ v \in Seq(Y) /\ Len(v) = n + 1 /\ n \in Nat /\ v[n + 1] = e
        /\ \A i \in 1 .. n : i \in 1 .. n + 1 /\ v[i] = u[i]
    BY AppendedIs
  <2>2. Those(v, S) = IF e \in S THEN Append(a, e) ELSE a
    BY ThoseAppend
  <2>3. a \in Seq(Y)
    BY ThoseInSeq
  <2>4. \A i \in 1 .. k : a[i] \in S /\ \E j \in 1 .. n : a[i] = u[j]
    BY <1>2
  <2> HIDE DEF v, a
  <2>5. \A i \in 1 .. k : a[i] \in S /\ \E j \in 1 .. n + 1 : a[i] = v[j]
    BY <2>1, <2>4
  <2>6. CASE e \in S
    <3> DEFINE w == Append(a, e)
    <3>1. /\ Len(w) = k + 1 /\ k \in Nat /\ w[k + 1] = e
          /\ \A i \in 1 .. k : w[i] = a[i]
      BY <2>3, AppendedIs
    <3> HIDE DEF w
    <3>2. ASSUME NEW i \in 1 .. Len(w) PROVE w[i] \in S /\ \E j \in 1 .. n + 1 : w[i] = v[j]
      <4>1. CASE i = k + 1
        <5>1. w[i] = e /\ n + 1 \in 1 .. n + 1 /\ v[n + 1] = e
          BY <2>1, <3>1, <4>1
        <5> QED
          BY <2>6, <5>1
      <4>2. CASE i # k + 1
        <5>1. i \in 1 .. k
          BY <3>1, <4>2
        <5> QED
          BY <2>5, <3>1, <5>1
      <4> QED
        BY <4>1, <4>2
    <3>3. Those(v, S) = w
      BY <2>2, <2>6 DEF w
    <3> QED
      BY <2>1, <3>2, <3>3 DEF v
  <2>7. CASE e \notin S
    BY <2>1, <2>2, <2>5, <2>7 DEF v
  <2> QED
    BY <2>6, <2>7
<1>3. s \in Q
  <2> HIDE DEF Q
  <2> QED
    BY <1>1, <1>2, OneByOne
<1> QED
  BY <1>3

------------------------------------------------------------------------------
(* Sequences in the order of time *)

TickSet == [time : 0 .. LastTime, price : TickPrices]

InTime(s) == \A i, j \in 1 .. Len(s) : i < j => s[i].time <= s[j].time

Leads(Y, s, t) == \E u \in Seq(Y) : t = s \o u

LEMMA TicksAre ==
    /\ LastTime \in Nat
    /\ \A t \in TickSet : t.time \in Nat /\ t.time <= LastTime /\ t.price \in Nat
<1>1. LastTime \in Nat /\ TickPrices \subseteq Nat
  BY TickAssumption
<1>2. ASSUME NEW t \in TickSet PROVE t.time \in 0 .. LastTime /\ t.price \in TickPrices
  BY DEF TickSet
<1>3. ASSUME NEW t \in TickSet PROVE t.time \in Nat /\ t.time <= LastTime /\ t.price \in Nat
  <2>1. t.time \in 0 .. LastTime /\ t.price \in Nat
    BY <1>1, <1>2
  <2> QED
    BY <1>1, <2>1
<1> QED
  BY <1>1, <1>3

LEMMA LaterNotEarlier ==
    ASSUME NEW d \in Nat \ {0}, NEW a \in Int, NEW b \in Int
    PROVE  /\ a \div d \in Int
           /\ a <= b => a \div d <= b \div d
           /\ a >= 0 => a \div d >= 0
  OBVIOUS

LEMMA LeadsIsPrefix ==
    ASSUME NEW Y, NEW s \in Seq(Y), NEW t \in Seq(Y), Leads(Y, s, t)
    PROVE  IsPrefix(s, t)
<1>1. PICK u \in Seq(Y) : t = s \o u
  BY DEF Leads
<1>2. /\ Len(t) = Len(s) + Len(u) /\ Len(s) \in Nat /\ Len(u) \in Nat
      /\ \A i \in 1 .. Len(s) : t[i] = s[i]
  BY <1>1, ConcatProperties
<1>3. Begins(s, t)
  BY <1>2 DEF Begins
<1> QED
  BY <1>3, BeginsIsPrefix

\* What leads to a sequence leads to one with more.
LEMMA LeadsOn ==
    ASSUME NEW Y, NEW s \in Seq(Y), NEW t \in Seq(Y), NEW u \in Seq(Y), Leads(Y, s, t)
    PROVE  Leads(Y, s, t \o u)
<1>1. PICK v \in Seq(Y) : t = s \o v
  BY DEF Leads
<1>2. JoinsInside(s, v, u)
  BY JoinedToConcat
<1>3. t \o u = s \o (v \o u) /\ v \o u \in Seq(Y)
  BY <1>1, <1>2, ConcatProperties DEF JoinsInside
<1> QED
  BY <1>3 DEF Leads

LEMMA LeadsToItself ==
    ASSUME NEW Y, NEW s \in Seq(Y)
    PROVE  Leads(Y, s, s) /\ Leads(Y, <<>>, s)
<1>1. s \o <<>> = s /\ <<>> \o s = s /\ <<>> \in Seq(Y)
  BY ConcatEmptySeq, EmptySeq
<1> QED
  BY <1>1 DEF Leads

LEMMA ThoseLead ==
    ASSUME NEW Y, NEW s \in Seq(Y), NEW t \in Seq(Y), NEW S, Leads(Y, s, t)
    PROVE  Leads(Y, Those(s, S), Those(t, S))
<1>1. PICK u \in Seq(Y) : t = s \o u
  BY DEF Leads
<1>2. Those(u, S) \in Seq(Y)
  BY ThoseInSeq
<1>3. Those(s \o u, S) = Those(s, S) \o Those(u, S)
  BY ThoseConcat
<1> QED
  BY <1>1, <1>2, <1>3 DEF Leads

LEMMA InTimeJoined ==
    ASSUME NEW s \in Seq(TickSet), NEW t \in Seq(TickSet), InTime(s), InTime(t),
           \A i \in 1 .. Len(s), j \in 1 .. Len(t) : s[i].time <= t[j].time
    PROVE  InTime(s \o t)
<1> DEFINE n == Len(s)
           m == Len(t)
           w == s \o t
<1>1. /\ n \in Nat /\ m \in Nat /\ Len(w) = n + m
      /\ \A i \in 1 .. n + m : w[i] = IF i <= n THEN s[i] ELSE t[i - n]
  BY ConcatProperties
<1> HIDE DEF w
<1>2. /\ \A i, j \in 1 .. n : i < j => s[i].time <= s[j].time
      /\ \A i, j \in 1 .. m : i < j => t[i].time <= t[j].time
      /\ \A i \in 1 .. n, j \in 1 .. m : s[i].time <= t[j].time
  BY DEF InTime
<1> HIDE DEF n, m
<1>3. ASSUME NEW i \in 1 .. n + m, NEW j \in 1 .. n + m, i < j
      PROVE  w[i].time <= w[j].time
  <2>1. CASE j <= n
    <3>1. i \in 1 .. n /\ j \in 1 .. n /\ w[i] = s[i] /\ w[j] = s[j]
      BY <1>1, <1>3, <2>1
    <3> QED
      BY <1>2, <1>3, <3>1
  <2>2. CASE i <= n /\ ~(j <= n)
    <3> DEFINE k == j - n
    <3>1. i \in 1 .. n /\ k \in 1 .. m /\ w[i] = s[i] /\ w[j] = t[k]
      BY <1>1, <1>3, <2>2
    <3> HIDE DEF k
    <3> QED
      BY <1>2, <3>1
  <2>3. CASE ~(i <= n) /\ ~(j <= n)
    <3> DEFINE k == i - n
               l == j - n
    <3>1. k \in 1 .. m /\ l \in 1 .. m /\ k < l /\ w[i] = t[k] /\ w[j] = t[l]
      BY <1>1, <1>3, <2>3
    <3> HIDE DEF k, l
    <3> QED
      BY <1>2, <3>1
  <2> QED
    BY <1>1, <1>3, <2>1, <2>2, <2>3
<1> QED
  BY <1>1, <1>3 DEF InTime, w

LEMMA ThoseInTime ==
    ASSUME NEW s \in Seq(TickSet), NEW S, InTime(s)
    PROVE  InTime(Those(s, S))
<1> DEFINE Q == {u \in Seq(TickSet) : InTime(u) => InTime(Those(u, S))}
<1>1. <<>> \in Q
  BY EmptySeq, ThoseOfNone
<1>2. ASSUME NEW u \in Seq(TickSet), NEW e \in TickSet, u \in Q PROVE Append(u, e) \in Q
  <2> DEFINE v == Append(u, e)
             n == Len(u)
             a == Those(u, S)
  <2>1. /\ v \in Seq(TickSet) /\ Len(v) = n + 1 /\ n \in Nat /\ v[n + 1] = e
        /\ \A i \in 1 .. n : i \in 1 .. n + 1 /\ v[i] = u[i]
    BY AppendedIs
  <2>2. Those(v, S) = IF e \in S THEN Append(a, e) ELSE a
    BY ThoseAppend
  <2>3. a \in Seq(TickSet) /\ \A i \in 1 .. Len(a) : \E j \in 1 .. n : a[i] = u[j]
    BY ThoseInSeq, ThoseElements
  <2> HIDE DEF a, v
  <2>4. ASSUME InTime(v) PROVE InTime(Those(v, S))
    <3>1. \A i \in 1 .. n : u[i].time <= e.time
      <4> TAKE i \in 1 .. n
      <4> DEFINE m == n + 1
      <4>1. m \in 1 .. Len(v) /\ i \in 1 .. Len(v) /\ i < m /\ v[m] = e /\ v[i] = u[i]
        BY <2>1
      <4> HIDE DEF m
      <4> QED
        BY <2>4, <4>1 DEF InTime
    <3>2. InTime(u)
      <4>1. ASSUME NEW i \in 1 .. n, NEW j \in 1 .. n, i < j PROVE u[i].time <= u[j].time
        <5>1. i \in 1 .. Len(v) /\ j \in 1 .. Len(v) /\ v[i] = u[i] /\ v[j] = u[j]
          BY <2>1
        <5> QED
          BY <2>4, <4>1, <5>1 DEF InTime
      <4> QED
        BY <4>1 DEF InTime
    <3>3. InTime(a)
      BY <1>2, <3>2 DEF a
    <3>4. CASE e \in S
      <4> DEFINE w == <<e>>
      <4>1. w \in Seq(TickSet) /\ Len(w) = 1 /\ w[1] = e /\ Append(a, e) = a \o w
        BY <2>3
      <4> HIDE DEF w
      <4>2. InTime(w)
        BY <4>1 DEF InTime
      <4>3. \A i \in 1 .. Len(a), j \in 1 .. Len(w) : a[i].time <= w[j].time
        BY <2>3, <3>1, <4>1
      <4>4. InTime(a \o w)
        BY <2>3, <3>3, <4>1, <4>2, <4>3, InTimeJoined
      <4> QED
        BY <2>2, <3>4, <4>1, <4>4
    <3> QED
      BY <2>2, <3>3, <3>4
  <2> QED
    BY <2>1, <2>4 DEF v
<1>3. s \in Q
  <2> HIDE DEF Q
  <2> QED
    BY <1>1, <1>2, OneByOne
<1> QED
  BY <1>3

------------------------------------------------------------------------------
(* What is packed and unpacked *)

RowSet == [time : Int, price : Int, flagged : BOOLEAN]
ColumnSet == [lapse : Int, price : Int, flagged : BOOLEAN]

\* The rows d say what the ticks r are: a price, or nothing new.
Tells(d, r) ==
    /\ d \in Seq(RowSet) /\ r \in Seq(TickSet) /\ Len(d) = Len(r)
    /\ \A i \in 1 .. Len(r) :
         /\ d[i].time = r[i].time
         /\ d[i].flagged => d[i].price = r[i].price
         /\ ~d[i].flagged => i > 1 /\ d[i].price = 0 /\ r[i].price = r[i - 1].price

LEMMA NothingTold == Tells(<<>>, <<>>)
<1>1. <<>> \in Seq(RowSet) /\ <<>> \in Seq(TickSet) /\ Len(<<>>) = 0
  BY EmptySeq
<1> QED
  BY <1>1 DEF Tells

LEMMA TellsMore ==
    ASSUME NEW d, NEW r, NEW e, NEW q, Tells(d, r), Tells(e, q)
    PROVE  Tells(d \o e, r \o q)
<1> DEFINE n == Len(r)
           m == Len(q)
           x == d \o e
           w == r \o q
<1>1. /\ d \in Seq(RowSet) /\ r \in Seq(TickSet) /\ e \in Seq(RowSet) /\ q \in Seq(TickSet)
      /\ Len(d) = n /\ Len(e) = m /\ n \in Nat /\ m \in Nat
  BY DEF Tells
<1>2. /\ x \in Seq(RowSet) /\ Len(x) = n + m
      /\ \A i \in 1 .. n + m : x[i] = IF i <= n THEN d[i] ELSE e[i - n]
  <2>1. d \in Seq(RowSet) /\ e \in Seq(RowSet)
    BY <1>1
  <2>2. /\ x \in Seq(RowSet) /\ Len(x) = Len(d) + Len(e)
        /\ \A i \in 1 .. Len(d) + Len(e) : x[i] = IF i <= Len(d) THEN d[i] ELSE e[i - Len(d)]
    BY <2>1, ConcatProperties
  <2> HIDE DEF x
  <2> QED
    BY <1>1, <2>2
<1>3. /\ w \in Seq(TickSet) /\ Len(w) = n + m
      /\ \A i \in 1 .. n + m : w[i] = IF i <= n THEN r[i] ELSE q[i - n]
  <2>1. r \in Seq(TickSet) /\ q \in Seq(TickSet)
    BY <1>1
  <2>2. /\ w \in Seq(TickSet) /\ Len(w) = Len(r) + Len(q)
        /\ \A i \in 1 .. Len(r) + Len(q) : w[i] = IF i <= Len(r) THEN r[i] ELSE q[i - Len(r)]
    BY <2>1, ConcatProperties
  <2> HIDE DEF w
  <2> QED
    BY <1>1, <2>2
<1>4. \A i \in 1 .. n :
        /\ d[i].time = r[i].time
        /\ d[i].flagged => d[i].price = r[i].price
        /\ ~d[i].flagged => i > 1 /\ d[i].price = 0 /\ r[i].price = r[i - 1].price
  BY DEF Tells
<1>5. \A i \in 1 .. m :
        /\ e[i].time = q[i].time
        /\ e[i].flagged => e[i].price = q[i].price
        /\ ~e[i].flagged => i > 1 /\ e[i].price = 0 /\ q[i].price = q[i - 1].price
  BY DEF Tells
<1> HIDE DEF x, w, n, m
<1>6. ASSUME NEW i \in 1 .. n + m
      PROVE  /\ x[i].time = w[i].time
             /\ x[i].flagged => x[i].price = w[i].price
             /\ ~x[i].flagged => i > 1 /\ x[i].price = 0 /\ w[i].price = w[i - 1].price
  <2>1. CASE i <= n
    <3>1. i \in 1 .. n /\ x[i] = d[i] /\ w[i] = r[i]
      BY <1>1, <1>2, <1>3, <2>1
    <3>2. i > 1 => w[i - 1] = r[i - 1]
      <4>1. i > 1 => i - 1 \in 1 .. n + m /\ i - 1 <= n
        BY <1>1, <2>1
      <4> QED
        BY <1>3, <4>1
    <3> QED
      BY <1>4, <3>1, <3>2
  <2>2. CASE ~(i <= n)
    <3> DEFINE k == i - n
    <3>1. k \in 1 .. m /\ x[i] = e[k] /\ w[i] = q[k]
      BY <1>1, <1>2, <1>3, <2>2
    <3>2. k > 1 => i > 1 /\ w[i - 1] = q[k - 1]
      <4>1. k > 1 => i - 1 \in 1 .. n + m /\ ~(i - 1 <= n) /\ (i - 1) - n = k - 1 /\ i > 1
        BY <1>1
      <4> QED
        BY <1>3, <4>1
    <3> HIDE DEF k
    <3> QED
      BY <1>5, <3>1, <3>2
  <2> QED
    BY <2>1, <2>2
<1>7. Tells(x, w)
  BY <1>2, <1>3, <1>6 DEF Tells
<1> QED
  BY <1>7 DEF x, w

TimeIter(group, f) ==
    f = [n \in 0 .. Len(group) |-> IF n = 0 THEN 0 ELSE f[n - 1] + group[n].lapse]

\* A function that adds up the times of a group gives them.
LEMMA RowsAdd ==
    ASSUME NEW group \in Seq(ColumnSet), NEW f, TimeIter(group, f)
    PROVE  Rows(group) = [n \in 1 .. Len(group) |->
                            [time |-> f[n], price |-> group[n].price, flagged |-> group[n].flagged]]
<1> DEFINE g == CHOOSE h : TimeIter(group, h)
           m == Len(group)
<1>1. TimeIter(group, g)
  OBVIOUS
<1>2. m \in Nat /\ DOMAIN group = 1 .. m
  OBVIOUS
<1>3. Rows(group) = [n \in DOMAIN group |->
                       [time |-> g[n], price |-> group[n].price, flagged |-> group[n].flagged]]
  BY DEF Rows, TimeIter
<1> HIDE DEF g
<1>4. ASSUME NEW h, TimeIter(group, h)
      PROVE  h[0] = 0 /\ \A n \in 1 .. m : h[n] = h[n - 1] + group[n].lapse
  <2>1. h = [n \in 0 .. m |-> IF n = 0 THEN 0 ELSE h[n - 1] + group[n].lapse]
    BY <1>4 DEF TimeIter
  <2>2. 0 \in 0 .. m /\ \A n \in 1 .. m : n \in 0 .. m /\ n # 0
    BY <1>2
  <2> HIDE DEF m
  <2>3. \A n \in 0 .. m : h[n] = IF n = 0 THEN 0 ELSE h[n - 1] + group[n].lapse
    BY <2>1
  <2> QED
    BY <2>2, <2>3
<1> DEFINE E == {k \in 0 .. m : g[k] = f[k]}
<1>5. 0 \in E
  BY <1>1, <1>2, <1>4
<1>6. ASSUME NEW k \in 1 .. m, k - 1 \in E PROVE k \in E
  <2>1. g[k] = g[k - 1] + group[k].lapse /\ f[k] = f[k - 1] + group[k].lapse
    BY <1>1, <1>4
  <2>2. k \in 0 .. m
    BY <1>2
  <2> QED
    BY <1>6, <2>1, <2>2
<1> HIDE DEF E
<1>7. \A k \in 0 .. m : k \in E
  BY <1>2, <1>5, <1>6, EveryPosition
<1>8. \A k \in 1 .. m : g[k] = f[k]
  BY <1>2, <1>7 DEF E
<1> QED
  BY <1>2, <1>3, <1>8

\* A group of columns tells the ticks it was made of.
LEMMA ColumnsTell ==
    ASSUME NEW rows \in Seq(TickSet), NEW first \in 1 .. Len(rows), NEW last \in first .. Len(rows)
    PROVE  /\ Columns(rows, first, last) \in Seq(ColumnSet) /\ Columns(rows, first, last) # <<>>
           /\ Tells(Rows(Columns(rows, first, last)), SubSeq(rows, first, last))
<1> DEFINE g == Columns(rows, first, last)
           m == last - first + 1
           r == SubSeq(rows, first, last)
           At(n) == first + n - 1
<1>1. /\ Len(rows) \in Nat /\ m \in Nat \ {0} /\ first \in Nat /\ last \in Nat /\ last <= Len(rows)
      /\ \A n \in 1 .. m : At(n) \in 1 .. Len(rows) /\ (n > 1 => At(n) - 1 \in 1 .. Len(rows))
  OBVIOUS
<1>2. \A i \in 1 .. Len(rows) : rows[i] \in TickSet /\ rows[i].time \in Nat /\ rows[i].price \in Nat
  BY TicksAre
<1>3. g = [n \in 1 .. m |->
             [lapse |-> rows[At(n)].time - (IF n = 1 THEN 0 ELSE rows[At(n) - 1].time),
              price |-> IF n > 1 /\ rows[At(n) - 1].price = rows[At(n)].price THEN 0 ELSE rows[At(n)].price,
              flagged |-> ~(n > 1 /\ rows[At(n) - 1].price = rows[At(n)].price)]]
  BY <1>1 DEF Columns
<1> HIDE DEF g
<1>4. ASSUME NEW n \in 1 .. m
      PROVE  /\ g[n] \in ColumnSet
             /\ g[n].lapse = rows[At(n)].time - (IF n = 1 THEN 0 ELSE rows[At(n) - 1].time)
             /\ g[n].flagged = ~(n > 1 /\ rows[At(n) - 1].price = rows[At(n)].price)
             /\ g[n].price = IF g[n].flagged THEN rows[At(n)].price ELSE 0
  <2>1. rows[At(n)].time \in Nat /\ rows[At(n)].price \in Nat
    BY <1>1, <1>2
  <2>2. n # 1 => rows[At(n) - 1].time \in Nat
    BY <1>1, <1>2
  <2>3. g[n] = [lapse |-> rows[At(n)].time - (IF n = 1 THEN 0 ELSE rows[At(n) - 1].time),
              price |-> IF n > 1 /\ rows[At(n) - 1].price = rows[At(n)].price THEN 0 ELSE rows[At(n)].price,
              flagged |-> ~(n > 1 /\ rows[At(n) - 1].price = rows[At(n)].price)]
    BY <1>3
  <2> HIDE DEF At, m
  <2>4. rows[At(n)].time - (IF n = 1 THEN 0 ELSE rows[At(n) - 1].time) \in Int
    BY <2>1, <2>2
  <2>5. /\ g[n].lapse = rows[At(n)].time - (IF n = 1 THEN 0 ELSE rows[At(n) - 1].time)
        /\ g[n].flagged = ~(n > 1 /\ rows[At(n) - 1].price = rows[At(n)].price)
        /\ g[n].price = IF g[n].flagged THEN rows[At(n)].price ELSE 0
    <3> DEFINE again == n > 1 /\ rows[At(n) - 1].price = rows[At(n)].price
    <3>1. g[n] = [lapse |-> rows[At(n)].time - (IF n = 1 THEN 0 ELSE rows[At(n) - 1].time),
                  price |-> IF again THEN 0 ELSE rows[At(n)].price, flagged |-> ~again]
      BY <2>3
    <3>2. again \in BOOLEAN
      OBVIOUS
    <3> HIDE DEF again
    <3>3. /\ g[n].lapse = rows[At(n)].time - (IF n = 1 THEN 0 ELSE rows[At(n) - 1].time)
          /\ g[n].flagged = ~again /\ g[n].price = IF again THEN 0 ELSE rows[At(n)].price
      BY <3>1
    <3>4. g[n].price = IF g[n].flagged THEN rows[At(n)].price ELSE 0
      BY <3>2, <3>3
    <3> QED
      BY <3>3, <3>4 DEF again
  <2>6. g[n] \in ColumnSet
    BY <2>1, <2>3, <2>4 DEF ColumnSet
  <2> QED
    BY <2>5, <2>6
<1>5. DOMAIN g = 1 .. m
  BY <1>3
<1>6. g \in Seq(ColumnSet) /\ Len(g) = m
  <2>1. g \in [1 .. m -> ColumnSet]
    BY <1>3, <1>4
  <2> HIDE DEF m
  <2>2. g \in Seq(ColumnSet)
    BY <1>1, <2>1, SeqDef
  <2> QED
    BY <1>1, <1>5, <2>2, LenProperties
<1> DEFINE f == [n \in 0 .. m |-> IF n = 0 THEN 0 ELSE rows[At(n)].time]
<1>7. TimeIter(g, f)
  <2>1. ASSUME NEW n \in 0 .. m
        PROVE  f[n] = IF n = 0 THEN 0 ELSE f[n - 1] + g[n].lapse
    <3>1. CASE n = 0
      BY <3>1
    <3>2. CASE n = 1
      <4>1. f[n] = rows[At(n)].time /\ f[n - 1] = 0
        BY <1>1, <3>2
      <4>2. g[n].lapse = rows[At(n)].time - 0 /\ rows[At(n)].time \in Nat
        BY <1>1, <1>2, <1>4, <3>2
      <4> QED
        BY <3>2, <4>1, <4>2
    <3>3. CASE n > 1
      <4>1. n \in 1 .. m /\ n - 1 \in 1 .. m /\ n - 1 \in 0 .. m /\ At(n - 1) = At(n) - 1
        BY <1>1, <3>3
      <4>2. f[n] = rows[At(n)].time
        BY <3>3
      <4>3. f[n - 1] = rows[At(n) - 1].time
        <5>1. f[n - 1] = rows[At(n - 1)].time
          BY <4>1
        <5> QED
          BY <4>1, <5>1
      <4>4. g[n].lapse = rows[At(n)].time - rows[At(n) - 1].time
        BY <1>4, <3>3, <4>1
      <4>5. rows[At(n)].time \in Nat /\ rows[At(n) - 1].time \in Nat
        BY <1>1, <1>2, <3>3, <4>1
      <4> HIDE DEF f, At
      <4>6. f[n] = f[n - 1] + g[n].lapse
        BY <4>2, <4>3, <4>4, <4>5
      <4> QED
        BY <3>3, <4>6
    <3> QED
      BY <1>1, <3>1, <3>2, <3>3
  <2>2. f = [n \in 0 .. m |-> f[n]]
    OBVIOUS
  <2> HIDE DEF f, m
  <2> QED
    BY <1>6, <2>1, <2>2 DEF TimeIter
<1> DEFINE d == Rows(g)
<1>8. d = [n \in 1 .. m |-> [time |-> f[n], price |-> g[n].price, flagged |-> g[n].flagged]]
  <2> HIDE DEF f, m
  <2> QED
    BY <1>6, <1>7, RowsAdd
<1> HIDE DEF d
<1>9. ASSUME NEW n \in 1 .. m
      PROVE  /\ d[n] \in RowSet /\ d[n].time = rows[At(n)].time
             /\ d[n].flagged = g[n].flagged /\ d[n].price = g[n].price
  <2>1. f[n] = rows[At(n)].time /\ rows[At(n)].time \in Int
    <3>1. n \in 0 .. m /\ n # 0
      BY <1>1
    <3>2. f[n] = rows[At(n)].time
      BY <3>1
    <3>3. rows[At(n)].time \in Nat
      BY <1>1, <1>2
    <3> HIDE DEF At, f
    <3> QED
      BY <3>2, <3>3
  <2>2. g[n].price \in Int /\ g[n].flagged \in BOOLEAN
    BY <1>4 DEF ColumnSet
  <2>3. d[n] = [time |-> f[n], price |-> g[n].price, flagged |-> g[n].flagged]
    BY <1>8
  <2> HIDE DEF f, At
  <2> QED
    BY <2>1, <2>2, <2>3 DEF RowSet
<1>10. d \in Seq(RowSet) /\ Len(d) = m
  <2>1. d \in [1 .. m -> RowSet]
    BY <1>8, <1>9
  <2>2. DOMAIN d = 1 .. m
    BY <2>1
  <2> HIDE DEF m
  <2>3. d \in Seq(RowSet)
    BY <1>1, <2>1, SeqDef
  <2> QED
    BY <1>1, <2>2, <2>3, LenProperties
<1>11. /\ r \in Seq(TickSet) /\ Len(r) = m
       /\ \A n \in 1 .. m : r[n] = rows[At(n)]
  <2>1. \A i \in first .. last : rows[i] \in TickSet
    BY <1>1, <1>2
  <2>2. /\ r \in Seq(TickSet) /\ Len(r) = IF first <= last THEN last - first + 1 ELSE 0
        /\ \A i \in 1 .. last - first + 1 : r[i] = rows[first + i - 1]
    BY <1>1, <2>1, SubSeqProperties
  <2> QED
    BY <1>1, <2>2
<1> HIDE DEF r
<1>12. ASSUME NEW n \in 1 .. m
       PROVE  /\ d[n].time = r[n].time
              /\ d[n].flagged => d[n].price = r[n].price
              /\ ~d[n].flagged => n > 1 /\ d[n].price = 0 /\ r[n].price = r[n - 1].price
  <2>1. r[n] = rows[At(n)]
    BY <1>11
  <2>2. n > 1 => r[n - 1] = rows[At(n) - 1]
    <3>1. n > 1 => n - 1 \in 1 .. m /\ At(n - 1) = At(n) - 1
      BY <1>1
    <3>2. n > 1 => r[n - 1] = rows[At(n - 1)]
      BY <1>11, <3>1
    <3> QED
      BY <3>1, <3>2
  <2> HIDE DEF At, m
  <2>3. /\ d[n].time = rows[At(n)].time /\ d[n].flagged = g[n].flagged /\ d[n].price = g[n].price
    BY <1>9
  <2>4. /\ g[n].flagged = ~(n > 1 /\ rows[At(n) - 1].price = rows[At(n)].price)
        /\ g[n].price = IF g[n].flagged THEN rows[At(n)].price ELSE 0
    BY <1>4
  <2>5. CASE n > 1 /\ rows[At(n) - 1].price = rows[At(n)].price
    BY <2>1, <2>2, <2>3, <2>4, <2>5
  <2>6. CASE ~(n > 1 /\ rows[At(n) - 1].price = rows[At(n)].price)
    BY <2>1, <2>3, <2>4, <2>6
  <2> QED
    BY <2>5, <2>6
<1>13. Tells(d, r)
  <2> HIDE DEF m
  <2> QED
    BY <1>10, <1>11, <1>12 DEF Tells
<1>14. g # <<>>
  BY <1>1, <1>6
<1> QED
  BY <1>6, <1>13, <1>14 DEF g, d, r

PriceIter(rows, f) ==
    f = [n \in 0 .. Len(rows) |-> IF n = 0 THEN 0 ELSE PriceOf(rows[n], f[n - 1])]

\* What is told is what is there again.
LEMMA ToldIsThere ==
    ASSUME NEW d, NEW r, Tells(d, r)
    PROVE  Materialized(d) = r
<1> DEFINE g == CHOOSE h : PriceIter(d, h)
           m == Len(d)
           f == [n \in 0 .. m |-> IF n = 0 THEN 0 ELSE r[n].price]
<1>1. /\ d \in Seq(RowSet) /\ r \in Seq(TickSet) /\ Len(r) = m /\ m \in Nat /\ DOMAIN d = 1 .. m
      /\ \A i \in 1 .. m :
           /\ d[i].time = r[i].time
           /\ d[i].flagged => d[i].price = r[i].price
           /\ ~d[i].flagged => i > 1 /\ d[i].price = 0 /\ r[i].price = r[i - 1].price
  <2>1. /\ d \in Seq(RowSet) /\ r \in Seq(TickSet) /\ Len(d) = Len(r)
        /\ \A i \in 1 .. Len(r) :
             /\ d[i].time = r[i].time
             /\ d[i].flagged => d[i].price = r[i].price
             /\ ~d[i].flagged => i > 1 /\ d[i].price = 0 /\ r[i].price = r[i - 1].price
    BY DEF Tells
  <2>2. Len(d) \in Nat /\ DOMAIN d = 1 .. Len(d)
    BY <2>1
  <2> QED
    BY <2>1, <2>2
<1>2. PriceIter(d, f)
  <2>1. ASSUME NEW n \in 0 .. m
        PROVE  f[n] = IF n = 0 THEN 0 ELSE PriceOf(d[n], f[n - 1])
    <3>1. CASE n = 0
      BY <3>1
    <3>2. CASE n # 0
      <4>1. n \in 1 .. m /\ f[n] = r[n].price
        BY <1>1, <3>2
      <4>2. n > 1 => f[n - 1] = r[n - 1].price
        <5>1. n > 1 => n - 1 \in 0 .. m /\ n - 1 # 0
          BY <1>1
        <5> QED
          BY <5>1
      <4> HIDE DEF f, m
      <4> QED
        BY <1>1, <3>2, <4>1, <4>2 DEF PriceOf
    <3> QED
      BY <3>1, <3>2
  <2>2. f = [n \in 0 .. m |-> f[n]]
    OBVIOUS
  <2> HIDE DEF f
  <2> QED
    BY <2>1, <2>2 DEF PriceIter
<1>3. PriceIter(d, g)
  <2> HIDE DEF f
  <2> QED
    BY <1>2
<1>4. Materialized(d) = [n \in DOMAIN d |-> [time |-> d[n].time, price |-> g[n]]]
  BY DEF Materialized, PriceIter
<1> HIDE DEF g
<1>5. ASSUME NEW h, PriceIter(d, h)
      PROVE  h[0] = 0 /\ \A n \in 1 .. m : h[n] = PriceOf(d[n], h[n - 1])
  <2>1. h = [n \in 0 .. m |-> IF n = 0 THEN 0 ELSE PriceOf(d[n], h[n - 1])]
    BY <1>5 DEF PriceIter
  <2>2. 0 \in 0 .. m /\ \A n \in 1 .. m : n \in 0 .. m /\ n # 0
    BY <1>1
  <2> HIDE DEF m
  <2>3. \A n \in 0 .. m : h[n] = IF n = 0 THEN 0 ELSE PriceOf(d[n], h[n - 1])
    BY <2>1
  <2> QED
    BY <2>2, <2>3
<1>6. \A n \in 1 .. m : f[n] = r[n].price
  BY <1>1
<1> HIDE DEF f
<1> DEFINE E == {k \in 0 .. m : g[k] = f[k]}
<1>7. 0 \in E
  BY <1>1, <1>2, <1>3, <1>5
<1>8. ASSUME NEW k \in 1 .. m, k - 1 \in E PROVE k \in E
  <2>1. g[k] = PriceOf(d[k], g[k - 1]) /\ f[k] = PriceOf(d[k], f[k - 1])
    BY <1>2, <1>3, <1>5
  <2>2. k \in 0 .. m
    BY <1>1
  <2> QED
    BY <1>8, <2>1, <2>2
<1> HIDE DEF E
<1>9. \A k \in 0 .. m : k \in E
  <2> HIDE DEF m
  <2> QED
    BY <1>1, <1>7, <1>8, EveryPosition
<1>10. ASSUME NEW n \in 1 .. m PROVE r[n] = [time |-> d[n].time, price |-> g[n]]
  <2>1. n \in E
    BY <1>1, <1>9
  <2>2. g[n] = r[n].price
    BY <1>6, <2>1 DEF E
  <2>3. r[n] \in TickSet /\ d[n].time = r[n].time
    BY <1>1
  <2>4. r[n] = [time |-> r[n].time, price |-> r[n].price]
    BY <2>3 DEF TickSet
  <2> QED
    BY <2>2, <2>3, <2>4
<1>11. r = [n \in 1 .. m |-> r[n]]
  BY <1>1
<1> HIDE DEF m
<1> QED
  BY <1>1, <1>4, <1>10, <1>11

------------------------------------------------------------------------------
(* Groups and boxes *)

GroupSet == {g \in Seq(ColumnSet) : Rows(g) \in Seq(RowSet)}

UnpackedGroups(groups) == FlattenSeq([g \in DOMAIN groups |-> Rows(groups[g])])

BoxSet == [date : Int, groups : Seq(GroupSet)]

UnpackedBoxes(boxes) == FlattenSeq([i \in DOMAIN boxes |-> Unpacked(boxes[i])])

LEMMA NoGroups == UnpackedGroups(<<>>) = <<>> /\ UnpackedBoxes(<<>>) = <<>>
<1>1. DOMAIN <<>> = {}
  OBVIOUS
<1>2. [g \in {} |-> Rows(<<>>[g])] = <<>> /\ [i \in {} |-> Unpacked(<<>>[i])] = <<>>
  OBVIOUS
<1> QED
  BY <1>1, <1>2, FlatOfNone DEF UnpackedGroups, UnpackedBoxes

LEMMA SeqByPositions ==
    ASSUME NEW X, NEW n \in Nat, NEW w, DOMAIN w = 1 .. n, \A i \in 1 .. n : w[i] \in X,
           w = [i \in 1 .. n |-> w[i]]
    PROVE  w \in Seq(X) /\ Len(w) = n
<1>1. w \in [1 .. n -> X]
  OBVIOUS
<1>2. w \in Seq(X)
  BY <1>1, SeqDef
<1> QED
  BY <1>2, LenProperties

LEMMA OneMoreGroup ==
    ASSUME NEW groups \in Seq(GroupSet), NEW e \in GroupSet
    PROVE  UnpackedGroups(Append(groups, e)) = UnpackedGroups(groups) \o Rows(e)
<1> DEFINE n == Len(groups)
           more == Append(groups, e)
           s == [g \in DOMAIN groups |-> Rows(groups[g])]
           t == [g \in DOMAIN more |-> Rows(more[g])]
<1>1. /\ n \in Nat /\ DOMAIN groups = 1 .. n /\ DOMAIN more = 1 .. n + 1 /\ more[n + 1] = e
      /\ \A i \in 1 .. n : i \in 1 .. n + 1 /\ more[i] = groups[i]
  BY AppendedIs
<1>2. /\ \A i \in 1 .. n : groups[i] \in GroupSet
      /\ \A g \in GroupSet : Rows(g) \in Seq(RowSet)
  BY DEF GroupSet
<1> HIDE DEF more
<1>3. DOMAIN s = 1 .. n /\ s = [i \in 1 .. n |-> s[i]] /\ \A i \in 1 .. n : s[i] = Rows(groups[i])
  BY <1>1
<1>4. /\ DOMAIN t = 1 .. n + 1 /\ t = [i \in 1 .. n + 1 |-> t[i]]
      /\ \A i \in 1 .. n + 1 : t[i] = Rows(more[i])
  BY <1>1
<1>5. UnpackedGroups(groups) = FlattenSeq(s) /\ UnpackedGroups(more) = FlattenSeq(t)
  BY DEF UnpackedGroups
<1> HIDE DEF s, t, n
<1>6. s \in Seq(Seq(RowSet)) /\ Len(s) = n
  <2>1. \A i \in 1 .. n : s[i] \in Seq(RowSet)
    BY <1>2, <1>3
  <2> QED
    BY <1>1, <1>3, <2>1, SeqByPositions
<1> DEFINE m == n + 1
<1>7. /\ m \in Nat /\ m \in 1 .. m /\ m = n + 1
      /\ \A i \in 1 .. m : i # m => i \in 1 .. n
      /\ DOMAIN t = 1 .. m /\ t = [i \in 1 .. m |-> t[i]] /\ more[m] = e
      /\ \A i \in 1 .. m : t[i] = Rows(more[i])
  BY <1>1, <1>4
<1> HIDE DEF m
<1>8. t \in Seq(Seq(RowSet)) /\ Len(t) = m
  <2>1. ASSUME NEW i \in 1 .. m PROVE t[i] \in Seq(RowSet)
    <3>1. more[i] \in GroupSet
      BY <1>1, <1>2, <1>7
    <3> QED
      BY <1>2, <1>7, <3>1
  <2> QED
    BY <1>7, <2>1, SeqByPositions
<1>9. \A i \in 1 .. Len(s) : t[i] = s[i]
  <2>1. ASSUME NEW i \in 1 .. n PROVE t[i] = s[i]
    BY <1>1, <1>3, <1>4
  <2> QED
    BY <1>6, <2>1
<1>10. FlattenSeq(t) = FlattenSeq(s) \o t[Len(t)]
  BY <1>6, <1>7, <1>8, <1>9, FlatAppend
<1>11. t[Len(t)] = Rows(e)
  BY <1>7, <1>8
<1> QED
  BY <1>5, <1>10, <1>11 DEF more

LEMMA OneMoreBox ==
    ASSUME NEW boxes, NEW e \in BoxSet, NEW r, NEW q,
           boxes \in Seq({b \in BoxSet : Unpacked(b) \in Seq(RowSet)}),
           Tells(UnpackedBoxes(boxes), r), Tells(Unpacked(e), q)
    PROVE  /\ Append(boxes, e) \in Seq({b \in BoxSet : Unpacked(b) \in Seq(RowSet)})
           /\ Tells(UnpackedBoxes(Append(boxes, e)), r \o q)
<1> DEFINE n == Len(boxes)
           more == Append(boxes, e)
           s == [i \in DOMAIN boxes |-> Unpacked(boxes[i])]
           t == [i \in DOMAIN more |-> Unpacked(more[i])]
           Ok == {b \in BoxSet : Unpacked(b) \in Seq(RowSet)}
<1>0. e \in Ok /\ boxes \in Seq(Ok) /\ \A b \in Ok : Unpacked(b) \in Seq(RowSet)
  BY DEF Tells
<1> HIDE DEF Ok
<1>1. /\ n \in Nat /\ DOMAIN boxes = 1 .. n /\ DOMAIN more = 1 .. n + 1 /\ more[n + 1] = e
      /\ more \in Seq(Ok) /\ \A i \in 1 .. n : i \in 1 .. n + 1 /\ more[i] = boxes[i]
  BY <1>0, AppendedIs
<1>2. \A i \in 1 .. n : boxes[i] \in Ok
  BY <1>0
<1> HIDE DEF more
<1>3. DOMAIN s = 1 .. n /\ s = [i \in 1 .. n |-> s[i]] /\ \A i \in 1 .. n : s[i] = Unpacked(boxes[i])
  BY <1>1
<1>4. /\ DOMAIN t = 1 .. n + 1 /\ t = [i \in 1 .. n + 1 |-> t[i]]
      /\ \A i \in 1 .. n + 1 : t[i] = Unpacked(more[i])
  BY <1>1
<1>5. UnpackedBoxes(boxes) = FlattenSeq(s) /\ UnpackedBoxes(more) = FlattenSeq(t)
  BY DEF UnpackedBoxes
<1> HIDE DEF s, t, n
<1>6. s \in Seq(Seq(RowSet)) /\ Len(s) = n
  <2>1. \A i \in 1 .. n : s[i] \in Seq(RowSet)
    BY <1>0, <1>2, <1>3
  <2> QED
    BY <1>1, <1>3, <2>1, SeqByPositions
<1> DEFINE m == n + 1
<1>7. /\ m \in Nat /\ m \in 1 .. m /\ m = n + 1
      /\ \A i \in 1 .. m : i # m => i \in 1 .. n
      /\ DOMAIN t = 1 .. m /\ t = [i \in 1 .. m |-> t[i]] /\ more[m] = e
      /\ \A i \in 1 .. m : t[i] = Unpacked(more[i])
  BY <1>1, <1>4
<1> HIDE DEF m
<1>8. t \in Seq(Seq(RowSet)) /\ Len(t) = m
  <2>1. ASSUME NEW i \in 1 .. m PROVE t[i] \in Seq(RowSet)
    <3>1. more[i] \in Ok
      BY <1>0, <1>1, <1>2, <1>7
    <3> QED
      BY <1>0, <1>7, <3>1
  <2> QED
    BY <1>7, <2>1, SeqByPositions
<1>9. \A i \in 1 .. Len(s) : t[i] = s[i]
  <2>1. ASSUME NEW i \in 1 .. n PROVE t[i] = s[i]
    BY <1>1, <1>3, <1>4
  <2> QED
    BY <1>6, <2>1
<1>10. FlattenSeq(t) = FlattenSeq(s) \o t[Len(t)]
  BY <1>6, <1>7, <1>8, <1>9, FlatAppend
<1>11. t[Len(t)] = Unpacked(e)
  BY <1>7, <1>8
<1>12. Tells(UnpackedBoxes(boxes) \o Unpacked(e), r \o q)
  BY TellsMore
<1> QED
  BY <1>1, <1>5, <1>10, <1>11, <1>12 DEF more, Ok

\* A container tells the ticks that were filed in it.
LEMMA FiledTells ==
    ASSUME NEW on \in Int, NEW rows \in Seq(TickSet), rows # <<>>
    PROVE  /\ Filed(on, rows) \in BoxSet /\ Filed(on, rows).date = on
           /\ Tells(Unpacked(Filed(on, rows)), rows)
<1> DEFINE n == Len(rows)
           g == Columns(rows, 1, n)
           groups == <<g>>
<1>1. n \in Nat /\ 1 \in 1 .. n /\ n \in 1 .. n /\ SubSeq(rows, 1, n) = rows
  <2>1. n \in Nat /\ n # 0
    OBVIOUS
  <2> QED
    BY <2>1, SubSeqFull
<1>2. g \in Seq(ColumnSet) /\ Tells(Rows(g), rows)
  BY <1>1, ColumnsTell
<1> HIDE DEF g
<1>3. g \in GroupSet /\ Rows(g) \in Seq(RowSet)
  BY <1>2 DEF Tells, GroupSet
<1>4. <<>> \in Seq(GroupSet) /\ groups = Append(<<>>, g) /\ groups \in Seq(GroupSet)
  BY <1>3
<1>5. UnpackedGroups(groups) = <<>> \o Rows(g)
  BY <1>3, <1>4, NoGroups, OneMoreGroup
<1>6. UnpackedGroups(groups) = Rows(g)
  BY <1>3, <1>5, ConcatEmptySeq
<1> HIDE DEF groups
<1>7. Filed(on, rows) = [date |-> on, groups |-> groups]
  BY DEF Filed, groups, g
<1>8. Unpacked(Filed(on, rows)) = UnpackedGroups(groups)
  BY <1>7 DEF Unpacked, UnpackedGroups
<1> QED
  BY <1>2, <1>4, <1>6, <1>7, <1>8 DEF BoxSet

------------------------------------------------------------------------------
(* Trailing hours *)

HourOf(t) == t.time \div HourLength

\* The first c rows are those of the hours before k.
Cut(rows, k, c) ==
    c \in 0 .. Len(rows) /\ \A i \in 1 .. Len(rows) : i <= c <=> HourOf(rows[i]) < k

LEMMA HoursInOrder ==
    ASSUME NEW rows \in Seq(TickSet), InTime(rows)
    PROVE  /\ \A i \in 1 .. Len(rows) :
                HourOf(rows[i]) \in Nat /\ HourOf(rows[i]) <= LastTime \div HourLength
           /\ LastTime \div HourLength \in Nat
           /\ \A i, j \in 1 .. Len(rows) : i <= j => HourOf(rows[i]) <= HourOf(rows[j])
<1>1. HourLength \in Nat \ {0} /\ LastTime \in Nat
  BY TickAssumption
<1>2. \A i \in 1 .. Len(rows) : rows[i].time \in Nat /\ rows[i].time <= LastTime
  BY TicksAre
<1>3. ASSUME NEW a \in Nat, NEW b \in Nat, a <= b
      PROVE  /\ a \div HourLength \in Nat /\ b \div HourLength \in Nat
             /\ a \div HourLength <= b \div HourLength
  <2>1. /\ a \div HourLength \in Int /\ b \div HourLength \in Int
        /\ a \div HourLength <= b \div HourLength
        /\ a \div HourLength >= 0 /\ b \div HourLength >= 0
    BY <1>1, <1>3, LaterNotEarlier
  <2> QED
    BY <2>1
<1>4. \A i \in 1 .. Len(rows) :
        HourOf(rows[i]) \in Nat /\ HourOf(rows[i]) <= LastTime \div HourLength
  BY <1>1, <1>2, <1>3 DEF HourOf
<1>5. ASSUME NEW i \in 1 .. Len(rows), NEW j \in 1 .. Len(rows), i <= j
      PROVE  HourOf(rows[i]) <= HourOf(rows[j])
  <2>1. rows[i].time <= rows[j].time
    <3>1. CASE i = j
      BY <1>2, <3>1
    <3>2. CASE i < j
      BY <3>2 DEF InTime
    <3> QED
      BY <1>5, <3>1, <3>2
  <2> QED
    BY <1>2, <1>3, <2>1 DEF HourOf
<1>6. LastTime \div HourLength \in Nat
  BY <1>1, <1>3
<1> QED
  BY <1>4, <1>5, <1>6

LEMMA GreatestThere ==
    ASSUME NEW n \in Nat, NEW d \in SUBSET (1 .. n), d # {}
    PROVE  \E i \in d : \A j \in d : i >= j
<1> DEFINE S == {k \in Nat : \A j \in d : j <= k}
<1>1. S \in SUBSET Nat /\ n \in S
  OBVIOUS
<1>2. PICK m \in S : \A j \in 0 .. m - 1 : j \notin S
  <2> HIDE DEF S
  <2> QED
    BY <1>1, LeastNatural
<1>3. m \in d
  <2>1. SUFFICES ASSUME m \notin d
                 PROVE  FALSE
    OBVIOUS
  <2>2. \A j \in d : j <= m - 1 /\ j \in Nat \ {0}
    BY <1>2, <2>1
  <2>3. PICK e \in d : TRUE
    OBVIOUS
  <2>4. e <= m - 1 /\ e \in Nat \ {0} /\ m \in Nat
    BY <1>2, <2>2, <2>3
  <2>5. m - 1 \in 0 .. m - 1 /\ m - 1 \in Nat
    BY <2>4
  <2> QED
    BY <1>2, <2>2, <2>5
<1> QED
  BY <1>2, <1>3

LEMMA NextHour ==
    ASSUME NEW rows \in Seq(TickSet), InTime(rows), NEW k \in Nat, NEW c, Cut(rows, k, c)
    PROVE  \/ Hour(rows, k) = <<>> /\ Cut(rows, k + 1, c)
           \/ \E e \in c + 1 .. Len(rows) :
                Cut(rows, k + 1, e) /\ Hour(rows, k) = Columns(rows, c + 1, e)
<1> DEFINE n == Len(rows)
           of == {i \in 1 .. n : HourOf(rows[i]) = k}
           h(i) == HourOf(rows[i])
<1>1. /\ n \in Nat /\ DOMAIN rows = 1 .. n /\ c \in 0 .. n
      /\ \A i \in 1 .. n : i <= c <=> h(i) < k
  BY DEF Cut
<1>2. /\ \A i \in 1 .. n : h(i) \in Nat
      /\ \A i, j \in 1 .. n : i <= j => h(i) <= h(j)
  BY HoursInOrder
<1>3. Hour(rows, k) =
        IF of = {} THEN <<>>
        ELSE Columns(rows, CHOOSE i \in of : \A j \in of : i <= j,
                           CHOOSE i \in of : \A j \in of : i >= j)
  BY <1>1 DEF Hour, HourOf
<1>4. of \in SUBSET (1 .. n) /\ \A i \in 1 .. n : i \in of <=> h(i) = k
  OBVIOUS
<1> HIDE DEF of, h, n
<1>5. CASE of = {}
  <2>1. Hour(rows, k) = <<>>
    BY <1>3, <1>5
  <2>2. \A i \in 1 .. n : i <= c <=> h(i) < k + 1
    BY <1>1, <1>2, <1>4, <1>5
  <2> QED
    BY <1>1, <2>1, <2>2 DEF Cut, n, h
<1>6. CASE of # {}
  <2> DEFINE first == CHOOSE i \in of : \A j \in of : i <= j
             last == CHOOSE i \in of : \A j \in of : i >= j
  <2>1. \E i \in of : \A j \in of : i <= j
    <3>1. of \in SUBSET Nat
      BY <1>4
    <3> QED
      BY <1>6, <3>1, LeastOfNaturals
  <2>2. \E i \in of : \A j \in of : i >= j
    BY <1>1, <1>4, <1>6, GreatestThere
  <2>3. first \in of /\ \A j \in of : first <= j
    BY <2>1
  <2>4. last \in of /\ \A j \in of : last >= j
    BY <2>2
  <2>5. Hour(rows, k) = Columns(rows, first, last)
    BY <1>3, <1>6
  <2> HIDE DEF first, last
  <2>6. first \in 1 .. n /\ last \in 1 .. n /\ h(first) = k /\ h(last) = k /\ first <= last
    BY <1>4, <2>3, <2>4
  <2>7. c + 1 <= first
    BY <1>1, <1>2, <2>6
  <2>8. c + 1 \in 1 .. n
    BY <1>1, <2>6, <2>7
  <2> DEFINE f == c + 1
  <2>9. f \in 1 .. n /\ f <= first /\ ~(f <= c)
    BY <1>1, <2>7, <2>8
  <2> HIDE DEF f
  <2>10. f \in of
    BY <1>1, <1>2, <1>4, <2>6, <2>9
  <2>11. f = first
    BY <1>1, <2>3, <2>6, <2>9, <2>10
  <2>12. \A i \in 1 .. n : i <= last <=> h(i) < k + 1
    <3> TAKE i \in 1 .. n
    <3>1. ASSUME i <= last PROVE h(i) < k + 1
      BY <1>2, <2>6, <3>1
    <3>2. ASSUME h(i) < k + 1 PROVE i <= last
      <4>1. CASE h(i) = k
        BY <1>4, <2>4, <4>1
      <4>2. CASE h(i) < k
        BY <1>1, <2>6, <2>7, <4>2
      <4> QED
        BY <1>2, <3>2, <4>1, <4>2
    <3> QED
      BY <3>1, <3>2
  <2>13. Cut(rows, k + 1, last)
    BY <1>1, <2>6, <2>12 DEF Cut, n, h
  <2>14. last \in c + 1 .. Len(rows)
    BY <1>1, <2>6, <2>7 DEF n
  <2> QED
    BY <2>5, <2>11, <2>13, <2>14 DEF f
<1> QED
  BY <1>5, <1>6

LEMMA EmptyGroup == <<>> \in GroupSet /\ Rows(<<>>) = <<>>
<1>1. DOMAIN <<>> = {}
  OBVIOUS
<1> DEFINE f == CHOOSE time : time = [n \in 0 .. Len(<<>>) |-> IF n = 0 THEN 0 ELSE time[n - 1] + <<>>[n].lapse]
<1>2. Rows(<<>>) = [n \in DOMAIN <<>> |->
                      [time |-> f[n], price |-> <<>>[n].price, flagged |-> <<>>[n].flagged]]
  BY DEF Rows
<1> HIDE DEF f
<1>3. Rows(<<>>) = <<>>
  BY <1>1, <1>2
<1>4. <<>> \in Seq(ColumnSet) /\ <<>> \in Seq(RowSet)
  BY EmptySeq
<1> QED
  BY <1>3, <1>4 DEF GroupSet

LEMMA CutThere ==
    ASSUME NEW rows \in Seq(TickSet), InTime(rows), NEW K \in Nat
    PROVE  \A k \in 0 .. K : \E c : Cut(rows, k, c)
<1> DEFINE E == {k \in 0 .. K : \E c : Cut(rows, k, c)}
<1>1. \A i \in 1 .. Len(rows) : HourOf(rows[i]) \in Nat
  BY HoursInOrder
<1>2. Len(rows) \in Nat
  OBVIOUS
<1>3. Cut(rows, 0, 0)
  <2>1. \A i \in 1 .. Len(rows) : i <= 0 <=> HourOf(rows[i]) < 0
    BY <1>1, <1>2
  <2> QED
    BY <1>2, <2>1 DEF Cut
<1>4. 0 \in E
  BY <1>3
<1>5. ASSUME NEW k \in 1 .. K, k - 1 \in E PROVE k \in E
  <2> DEFINE p == k - 1
  <2>1. p \in Nat /\ k = p + 1 /\ k \in 0 .. K
    OBVIOUS
  <2>2. PICK c : Cut(rows, p, c)
    BY <1>5
  <2> HIDE DEF p
  <2>3. \E e : Cut(rows, p + 1, e)
    BY <2>1, <2>2, NextHour
  <2> QED
    BY <2>1, <2>3
<1> HIDE DEF E
<1>6. \A k \in 0 .. K : k \in E
  BY <1>4, <1>5, EveryPosition
<1> QED
  BY <1>6 DEF E

\* Sequences one element longer: what is kept of them.
LEMMA ThoseOneMore ==
    ASSUME NEW Y, NEW s \in Seq(Y), NEW k \in 1 .. Len(s), NEW S
    PROVE  /\ s[k] \in Y /\ SubSeq(s, 1, k - 1) \in Seq(Y)
           /\ Those(SubSeq(s, 1, k), S) =
                IF s[k] \in S THEN Append(Those(SubSeq(s, 1, k - 1), S), s[k])
                ELSE Those(SubSeq(s, 1, k - 1), S)
<1> DEFINE t == SubSeq(s, 1, k - 1)
<1>1. t \in Seq(Y) /\ s[k] \in Y /\ Append(t, s[k]) = SubSeq(s, 1, k)
  OBVIOUS
<1> HIDE DEF t
<1>2. Those(Append(t, s[k]), S) = IF s[k] \in S THEN Append(Those(t, S), s[k]) ELSE Those(t, S)
  BY <1>1, ThoseAppend
<1> QED
  BY <1>1, <1>2 DEF t

LEMMA TrailingTells ==
    ASSUME NEW on \in Int, NEW rows \in Seq(TickSet), InTime(rows)
    PROVE  /\ Trailing(on, rows) \in BoxSet
           /\ Tells(Unpacked(Trailing(on, rows)), rows)
<1> DEFINE K == LastTime \div HourLength + 1
           n == Len(rows)
           hours == [h \in 1 .. K |-> Hour(rows, h - 1)]
           NE == ToSet(hours) \ {<<>>}
<1>1. /\ K \in Nat /\ n \in Nat /\ 0 \in 0 .. K /\ K \in 0 .. K
      /\ \A i \in 1 .. n : HourOf(rows[i]) < K
  BY HoursInOrder
<1>2. Trailing(on, rows) = [date |-> on, groups |-> Those(hours, NE)]
  BY DEF Trailing
<1> HIDE DEF K, NE
<1>3. \A k \in 0 .. K : \E c : Cut(rows, k, c)
  BY <1>1, CutThere
<1>4. \A k \in 1 .. K : k - 1 \in 0 .. K /\ k - 1 \in Nat /\ hours[k] = Hour(rows, k - 1)
  BY <1>1
<1>5. DOMAIN hours = 1 .. K /\ hours = [h \in 1 .. K |-> hours[h]]
  OBVIOUS
<1> HIDE DEF hours
<1>6. ASSUME NEW k \in 1 .. K, NEW c, Cut(rows, k - 1, c)
      PROVE  \/ hours[k] = <<>> /\ Cut(rows, k, c)
             \/ \E e \in c + 1 .. n : Cut(rows, k, e) /\ hours[k] = Columns(rows, c + 1, e)
  <2> DEFINE p == k - 1
  <2>1. p \in Nat /\ k = p + 1 /\ hours[k] = Hour(rows, p) /\ Cut(rows, p, c)
    BY <1>4, <1>6
  <2> HIDE DEF p
  <2>2. \/ Hour(rows, p) = <<>> /\ Cut(rows, p + 1, c)
        \/ \E e \in c + 1 .. Len(rows) :
             Cut(rows, p + 1, e) /\ Hour(rows, p) = Columns(rows, c + 1, e)
    BY <2>1, NextHour
  <2> QED
    BY <2>1, <2>2
<1> DEFINE Told(c, e, g) == /\ g \in GroupSet /\ g # <<>>
                            /\ Tells(Rows(g), SubSeq(rows, c + 1, e))
                            /\ SubSeq(rows, 1, c) \o SubSeq(rows, c + 1, e) = SubSeq(rows, 1, e)
<1>7. ASSUME NEW c \in 0 .. n, NEW e \in c + 1 .. n
      PROVE  Told(c, e, Columns(rows, c + 1, e))
  <2> DEFINE f == c + 1
             g == Columns(rows, f, e)
  <2>1. f \in 1 .. n /\ e \in f .. n
    BY <1>1
  <2>2. SubSeq(rows, 1, c) \o SubSeq(rows, c + 1, e) = SubSeq(rows, 1, e)
    <3>1. c \in 1 - 1 .. n /\ 1 \in 1 .. n + 1 /\ e \in c .. n
      BY <1>1
    <3> QED
      BY <3>1, ConcatAdjacentSubSeq
  <2> HIDE DEF f
  <2>3. g \in Seq(ColumnSet) /\ g # <<>> /\ Tells(Rows(g), SubSeq(rows, f, e))
    BY <2>1, ColumnsTell
  <2> HIDE DEF g
  <2>4. g \in GroupSet
    BY <2>3 DEF GroupSet, Tells
  <2> QED
    BY <2>2, <2>3, <2>4 DEF f, g
<1> HIDE DEF n, Told
<1>8. \A k \in 1 .. K : hours[k] \in GroupSet
  <2> TAKE k \in 1 .. K
  <2>1. PICK c : Cut(rows, k - 1, c)
    BY <1>3, <1>4
  <2>2. c \in 0 .. n
    BY <2>1 DEF Cut, n
  <2>3. CASE hours[k] = <<>>
    BY <2>3, EmptyGroup
  <2>4. CASE \E e \in c + 1 .. n : hours[k] = Columns(rows, c + 1, e)
    BY <1>7, <2>2, <2>4 DEF Told
  <2> QED
    BY <1>6, <2>1, <2>3, <2>4
<1>9. hours \in Seq(GroupSet) /\ Len(hours) = K
  BY <1>1, <1>5, <1>8, SeqByPositions
<1>10. \A k \in 1 .. K : hours[k] \in NE <=> hours[k] # <<>>
  <2>1. \A k \in 1 .. K : hours[k] \in ToSet(hours)
    BY <1>5 DEF ToSet
  <2> QED
    BY <2>1 DEF NE
<1> DEFINE G(k) == Those(SubSeq(hours, 1, k), NE)
           E == {k \in 0 .. K : /\ G(k) \in Seq(GroupSet)
                                /\ \E c : /\ Cut(rows, k, c)
                                          /\ Tells(UnpackedGroups(G(k)), SubSeq(rows, 1, c))}
<1>11. G(0) = <<>>
  <2>1. SubSeq(hours, 1, 0) = <<>>
    BY <1>9
  <2> QED
    BY <2>1, ThoseOfNone
<1>12. \A k \in 1 .. K : G(k) = IF hours[k] = <<>> THEN G(k - 1) ELSE Append(G(k - 1), hours[k])
  BY <1>9, <1>10, ThoseOneMore
<1>13. G(K) = Those(hours, NE)
  <2>1. SubSeq(hours, 1, K) = hours
    BY <1>9, SubSeqFull
  <2> QED
    BY <2>1
<1> HIDE DEF G
<1>14. 0 \in E
  <2>1. PICK c : Cut(rows, 0, c)
    BY <1>1, <1>3
  <2>2. c = 0
    <3>1. c \in 0 .. n /\ \A i \in 1 .. n : i <= c <=> HourOf(rows[i]) < 0
      BY <2>1 DEF Cut, n
    <3>2. \A i \in 1 .. n : HourOf(rows[i]) \in Nat
      BY HoursInOrder DEF n
    <3> QED
      BY <1>1, <3>1, <3>2
  <2>3. SubSeq(rows, 1, 0) = <<>>
    OBVIOUS
  <2>4. <<>> \in Seq(GroupSet)
    BY EmptySeq
  <2>5. Cut(rows, 0, 0) /\ Tells(UnpackedGroups(G(0)), SubSeq(rows, 1, 0))
    BY <1>11, <2>1, <2>2, <2>3, NoGroups, NothingTold
  <2> QED
    BY <1>1, <1>11, <2>4, <2>5
<1>15. ASSUME NEW k \in 1 .. K, k - 1 \in E PROVE k \in E
  <2>1. k \in 0 .. K /\ G(k - 1) \in Seq(GroupSet)
    BY <1>15
  <2>2. PICK c : Cut(rows, k - 1, c) /\ Tells(UnpackedGroups(G(k - 1)), SubSeq(rows, 1, c))
    BY <1>15
  <2>3. CASE hours[k] = <<>> /\ Cut(rows, k, c)
    <3>1. G(k) = G(k - 1)
      BY <1>12, <2>3
    <3> QED
      BY <2>1, <2>2, <2>3, <3>1
  <2>4. ASSUME NEW e \in c + 1 .. n, Cut(rows, k, e), hours[k] = Columns(rows, c + 1, e)
        PROVE  k \in E
    <3>1. c \in 0 .. n
      BY <2>2 DEF Cut, n
    <3>2. Told(c, e, hours[k])
      BY <1>7, <2>4, <3>1
    <3>3. /\ hours[k] \in GroupSet /\ hours[k] # <<>>
          /\ Tells(Rows(hours[k]), SubSeq(rows, c + 1, e))
          /\ SubSeq(rows, 1, c) \o SubSeq(rows, c + 1, e) = SubSeq(rows, 1, e)
      BY <3>2 DEF Told
    <3> DEFINE g == G(k - 1)
    <3>4. G(k) = Append(g, hours[k])
      BY <1>12, <3>3
    <3>5. g \in Seq(GroupSet) /\ Tells(UnpackedGroups(g), SubSeq(rows, 1, c))
      BY <2>1, <2>2
    <3> HIDE DEF g
    <3>6. UnpackedGroups(Append(g, hours[k])) = UnpackedGroups(g) \o Rows(hours[k])
      BY <3>3, <3>5, OneMoreGroup
    <3>7. Tells(UnpackedGroups(g) \o Rows(hours[k]), SubSeq(rows, 1, c) \o SubSeq(rows, c + 1, e))
      BY <3>3, <3>5, TellsMore
    <3>8. Tells(UnpackedGroups(G(k)), SubSeq(rows, 1, e))
      BY <3>3, <3>4, <3>6, <3>7
    <3>9. G(k) \in Seq(GroupSet)
      BY <3>3, <3>4, <3>5, AppendProperties
    <3> QED
      BY <2>1, <2>4, <3>8, <3>9
  <2> QED
    BY <1>6, <2>2, <2>3, <2>4
<1> HIDE DEF E
<1>16. K \in E
  <2>1. \A k \in 0 .. K : k \in E
    BY <1>1, <1>14, <1>15, EveryPosition
  <2> QED
    BY <1>1, <2>1
<1>17. G(K) \in Seq(GroupSet)
  BY <1>16 DEF E
<1>18. PICK c : Cut(rows, K, c) /\ Tells(UnpackedGroups(G(K)), SubSeq(rows, 1, c))
  BY <1>16 DEF E
<1>19. c = n
  <2>1. c \in 0 .. n /\ \A i \in 1 .. n : i <= c <=> HourOf(rows[i]) < K
    BY <1>18 DEF Cut, n
  <2>2. \A i \in 1 .. n : i <= c
    BY <1>1, <2>1
  <2> QED
    BY <1>1, <2>1, <2>2
<1>20. SubSeq(rows, 1, n) = rows
  BY SubSeqFull DEF n
<1> DEFINE groups == Those(hours, NE)
<1>21. groups \in Seq(GroupSet) /\ Tells(UnpackedGroups(groups), rows)
  BY <1>13, <1>17, <1>18, <1>19, <1>20
<1> HIDE DEF groups
<1>22. Trailing(on, rows) = [date |-> on, groups |-> groups]
  BY <1>2 DEF groups
<1>23. Unpacked(Trailing(on, rows)) = UnpackedGroups(groups)
  BY <1>22 DEF Unpacked, UnpackedGroups
<1> QED
  BY <1>21, <1>22, <1>23 DEF BoxSet

------------------------------------------------------------------------------
(* Sorting *)

SortPlace(keys, n, i) ==
    Cardinality({j \in 1 .. n : keys[j] < keys[i] \/ (keys[j] = keys[i] /\ j <= i)})

SortedAs(keys, n, place, s, w) ==
    /\ \A i \in 1 .. n : place[i] = SortPlace(keys, n, i)
    /\ w = [m \in 1 .. n |-> s[CHOOSE i \in 1 .. n : place[i] = m]]

LEMMA SortedIsPlaced ==
    ASSUME NEW Y, NEW s \in Seq(Y), NEW keys
    PROVE  \E place : SortedAs(keys, Len(s), place, s, SortedBy(keys, s))
<1> DEFINE n == Len(s)
           place == [i \in DOMAIN s |->
             Cardinality({j \in DOMAIN s : keys[j] < keys[i] \/ (keys[j] = keys[i] /\ j <= i)})]
<1>1. DOMAIN s = 1 .. n
  OBVIOUS
<1>2. SortedBy(keys, s) = [m \in DOMAIN s |-> s[CHOOSE i \in DOMAIN s : place[i] = m]]
  BY DEF SortedBy
<1>3. \A i \in 1 .. n : place[i] = SortPlace(keys, n, i)
  BY <1>1 DEF SortPlace
<1> HIDE DEF place, n
<1>4. SortedBy(keys, s) = [m \in 1 .. n |-> s[CHOOSE i \in 1 .. n : place[i] = m]]
  BY <1>1, <1>2
<1>5. SortedAs(keys, n, place, s, SortedBy(keys, s))
  BY <1>3, <1>4 DEF SortedAs
<1> QED
  BY <1>5 DEF n

\* What is in order stays as it is.
LEMMA SortedStays ==
    ASSUME NEW Y, NEW s \in Seq(Y), NEW keys, \A i \in 1 .. Len(s) : keys[i] \in Int,
           \A i, j \in 1 .. Len(s) : i < j => keys[i] <= keys[j]
    PROVE  SortedBy(keys, s) = s
<1> DEFINE n == Len(s)
<1>1. n \in Nat /\ s = [m \in 1 .. n |-> s[m]]
  OBVIOUS
<1>2. PICK place : SortedAs(keys, n, place, s, SortedBy(keys, s))
  BY SortedIsPlaced
<1>3. /\ \A i \in 1 .. n : keys[i] \in Int
      /\ \A i, j \in 1 .. n : i < j => keys[i] <= keys[j]
  OBVIOUS
<1> HIDE DEF n
<1>4. ASSUME NEW i \in 1 .. n PROVE SortPlace(keys, n, i) = i
  <2>1. {j \in 1 .. n : keys[j] < keys[i] \/ (keys[j] = keys[i] /\ j <= i)} = 1 .. i
    <3>1. ASSUME NEW j \in 1 .. n
          PROVE  (keys[j] < keys[i] \/ (keys[j] = keys[i] /\ j <= i)) <=> j <= i
      <4>1. CASE j < i
        BY <1>3, <4>1
      <4>2. CASE i < j
        BY <1>3, <4>2
      <4>3. CASE i = j
        BY <4>3
      <4> QED
        BY <1>1, <4>1, <4>2, <4>3
    <3>2. \A j \in 1 .. i : j \in 1 .. n /\ j <= i
      BY <1>1
    <3>3. \A j \in 1 .. n : j <= i => j \in 1 .. i
      BY <1>1
    <3> QED
      BY <3>1, <3>2, <3>3
  <2>2. IsFiniteSet(1 .. i) /\ Cardinality(1 .. i) = i
    <3>1. i \in Nat \ {0}
      BY <1>1
    <3> QED
      BY <3>1, FS_Interval
  <2> QED
    BY <2>1, <2>2 DEF SortPlace
<1>5. ASSUME NEW m \in 1 .. n PROVE (CHOOSE i \in 1 .. n : place[i] = m) = m
  <2>1. \A i \in 1 .. n : place[i] = m <=> i = m
    BY <1>2, <1>4 DEF SortedAs
  <2> QED
    BY <2>1
<1> DEFINE w == SortedBy(keys, s)
<1>6. w = [m \in 1 .. n |-> s[CHOOSE i \in 1 .. n : place[i] = m]]
  BY <1>2 DEF SortedAs
<1> HIDE DEF w
<1>7. ASSUME NEW m \in 1 .. n PROVE w[m] = s[m]
  <2>1. w[m] = s[CHOOSE i \in 1 .. n : place[i] = m]
    BY <1>6
  <2>2. (CHOOSE i \in 1 .. n : place[i] = m) = m
    BY <1>5
  <2> QED
    BY <2>1, <2>2
<1>8. w = [m \in 1 .. n |-> w[m]]
  BY <1>6
<1>9. w = s
  BY <1>1, <1>7, <1>8
<1> QED
  BY <1>9 DEF w

LEMMA UpToTwo == Cardinality(1 .. 2) = 2 /\ Cardinality(2 .. 2) = 1
<1>1. ASSUME NEW a \in Nat, NEW b \in Nat, a <= b PROVE Cardinality(a .. b) = b - a + 1
  <2>1. IsFiniteSet(a .. b) /\ Cardinality(a .. b) = IF a > b THEN 0 ELSE b - a + 1
    BY FS_Interval
  <2> QED
    BY <1>1, <2>1
<1> DEFINE one == 1
           two == 2
<1>2. one \in Nat /\ two \in Nat /\ one <= two /\ two - one + 1 = 2 /\ two - two + 1 = 1
  OBVIOUS
<1> HIDE DEF one, two
<1>3. Cardinality(one .. two) = 2 /\ Cardinality(two .. two) = 1
  <2>1. Cardinality(one .. two) = two - one + 1
    BY <1>1, <1>2
  <2>2. two <= two
    BY <1>2
  <2>3. Cardinality(two .. two) = two - two + 1
    BY <1>1, <1>2, <2>2
  <2> QED
    BY <1>2, <2>1, <2>3
<1> QED
  BY <1>3 DEF one, two

\* Two in the wrong order change places.
LEMMA SortedSwaps ==
    ASSUME NEW Y, NEW s \in Seq(Y), Len(s) = 2, NEW keys, keys[1] \in Int, keys[2] \in Int,
           keys[2] < keys[1]
    PROVE  SortedBy(keys, s) = <<s[2], s[1]>>
<1>1. PICK place : SortedAs(keys, 2, place, s, SortedBy(keys, s))
  BY SortedIsPlaced
<1>2. SortPlace(keys, 2, 1) = 2
  <2>1. {j \in 1 .. 2 : keys[j] < keys[1] \/ (keys[j] = keys[1] /\ j <= 1)} = 1 .. 2
    OBVIOUS
  <2>2. Cardinality(1 .. 2) = 2
    BY UpToTwo
  <2> QED
    BY <2>1, <2>2 DEF SortPlace
<1>3. SortPlace(keys, 2, 2) = 1
  <2>1. {j \in 1 .. 2 : keys[j] < keys[2] \/ (keys[j] = keys[2] /\ j <= 2)} = 2 .. 2
    OBVIOUS
  <2>2. Cardinality(2 .. 2) = 1
    BY UpToTwo
  <2> QED
    BY <2>1, <2>2 DEF SortPlace
<1>4. (CHOOSE i \in 1 .. 2 : place[i] = 1) = 2
  <2>1. \A i \in 1 .. 2 : place[i] = 1 <=> i = 2
    BY <1>1, <1>2, <1>3 DEF SortedAs
  <2> QED
    BY <2>1
<1>5. (CHOOSE i \in 1 .. 2 : place[i] = 2) = 1
  <2>1. \A i \in 1 .. 2 : place[i] = 2 <=> i = 1
    BY <1>1, <1>2, <1>3 DEF SortedAs
  <2> QED
    BY <2>1
<1> DEFINE w == SortedBy(keys, s)
<1>6. w = [m \in 1 .. 2 |-> s[CHOOSE i \in 1 .. 2 : place[i] = m]]
  BY <1>1 DEF SortedAs
<1> HIDE DEF w
<1>7. DOMAIN w = 1 .. 2 /\ w[1] = s[2] /\ w[2] = s[1] /\ w = [m \in 1 .. 2 |-> w[m]]
  <2>1. \A m \in 1 .. 2 : w[m] = s[CHOOSE i \in 1 .. 2 : place[i] = m]
    BY <1>6
  <2>2. w[1] = s[CHOOSE i \in 1 .. 2 : place[i] = 1] /\ w[2] = s[CHOOSE i \in 1 .. 2 : place[i] = 2]
    BY <2>1
  <2>3. DOMAIN w = 1 .. 2 /\ w = [m \in 1 .. 2 |-> w[m]]
    BY <1>6
  <2> QED
    BY <1>4, <1>5, <2>2, <2>3
<1>8. w = <<s[2], s[1]>>
  BY <1>7
<1> QED
  BY <1>8 DEF w

------------------------------------------------------------------------------
(* The boxes of a day *)

OnDate(d) == {t \in TickSet : DateOf(t.time) = d}
Within(from, to) == {t \in TickSet : from <= t.time /\ t.time < to}
Slot(from, to, d) == Within(from, to) \intersect OnDate(d)

LEMMA OnIsThose ==
    ASSUME NEW rows \in Seq(TickSet), NEW d
    PROVE  On(rows, d) = Those(rows, OnDate(d)) /\ On(rows, d) \in Seq(TickSet)
<1> DEFINE S == {t \in ToSet(rows) : DateOf(t.time) = d}
<1>1. \A i \in 1 .. Len(rows) : rows[i] \in TickSet /\ rows[i] \in ToSet(rows)
  BY DEF ToSet
<1>2. \A i \in 1 .. Len(rows) : rows[i] \in S <=> rows[i] \in OnDate(d)
  BY <1>1 DEF OnDate
<1>3. On(rows, d) = Those(rows, S)
  BY DEF On
<1> HIDE DEF S
<1> QED
  BY <1>2, <1>3, ThoseSame, ThoseInSeq

LEMMA InRangeIsThose ==
    ASSUME NEW rows \in Seq(TickSet)
    PROVE  InRange(rows) = Those(rows, Within(call.from, call.to)) /\ InRange(rows) \in Seq(TickSet)
<1> DEFINE S == {t \in ToSet(rows) : t.time >= call.from /\ t.time < call.to}
           W == Within(call.from, call.to)
<1>1. \A i \in 1 .. Len(rows) : rows[i] \in TickSet /\ rows[i] \in ToSet(rows)
  BY DEF ToSet
<1>2. \A t : t \in S <=> t \in ToSet(rows) /\ t.time >= call.from /\ t.time < call.to
  OBVIOUS
<1>3. \A t : t \in W <=> t \in TickSet /\ call.from <= t.time /\ t.time < call.to
  BY DEF Within
<1>4. InRange(rows) = Those(rows, S)
  BY DEF InRange
<1> HIDE DEF S, W
<1>5. \A i \in 1 .. Len(rows) : rows[i] \in S <=> rows[i] \in W
  BY <1>1, <1>2, <1>3
<1>6. Those(rows, S) = Those(rows, W)
  BY <1>5, ThoseSame
<1> QED
  BY <1>4, <1>6, ThoseInSeq DEF W

LEMMA OnDayIsThose ==
    ASSUME NEW rows \in Seq(TickSet), NEW d
    PROVE  OnDay(rows, d) = Those(rows, Slot(call.from, call.to, d)) /\ OnDay(rows, d) \in Seq(TickSet)
<1> DEFINE W == Within(call.from, call.to)
           r == InRange(rows)
<1>1. r = Those(rows, W) /\ r \in Seq(TickSet)
  BY InRangeIsThose
<1>2. OnDay(rows, d) = On(r, d)
  BY DEF OnDay
<1> HIDE DEF r
<1>3. On(r, d) = Those(r, OnDate(d))
  BY <1>1, OnIsThose
<1> HIDE DEF W
<1>4. Those(Those(rows, W), OnDate(d)) = Those(rows, W \intersect OnDate(d))
  BY ThoseTwice
<1>5. Those(rows, W \intersect OnDate(d)) \in Seq(TickSet)
  BY ThoseInSeq
<1> QED
  BY <1>1, <1>2, <1>3, <1>4, <1>5 DEF Slot, W

BoxOk == {b \in BoxSet : Unpacked(b) \in Seq(RowSet)}

\* The boxes tell what the ticks r are; x brings those that are q.
BoxesTell(boxes, r) == boxes \in Seq(BoxOk) /\ Tells(UnpackedBoxes(boxes), r)
Brings(x, q) ==
    \/ x = <<>> /\ q = <<>>
    \/ \E e \in BoxSet : x = <<e>> /\ Tells(Unpacked(e), q)

LEMMA BringMore ==
    ASSUME NEW b, NEW r, NEW x, NEW q, BoxesTell(b, r), Brings(x, q)
    PROVE  BoxesTell(b \o x, r \o q)
<1>1. b \in Seq(BoxOk) /\ Tells(UnpackedBoxes(b), r) /\ r \in Seq(TickSet)
  BY DEF BoxesTell, Tells
<1>2. CASE x = <<>> /\ q = <<>>
  <2>1. b \o x = b /\ r \o q = r
    BY <1>1, <1>2, ConcatEmptySeq
  <2> QED
    BY <2>1
<1>3. ASSUME NEW e \in BoxSet, x = <<e>>, Tells(Unpacked(e), q)
      PROVE  BoxesTell(b \o x, r \o q)
  <2>1. b \o x = Append(b, e)
    BY <1>1, <1>3
  <2>2. /\ Append(b, e) \in Seq(BoxOk)
        /\ Tells(UnpackedBoxes(Append(b, e)), r \o q)
    BY <1>1, <1>3, OneMoreBox DEF BoxOk
  <2> QED
    BY <2>1, <2>2 DEF BoxesTell
<1> QED
  BY <1>2, <1>3 DEF Brings

\* A date with ticks has a container or a trailing box.
HeldFor(on, rows) == IF rows = <<>> THEN <<>> ELSE <<Filed(on, rows)>>
TrailFor(on, rows) == IF rows = <<>> THEN <<>> ELSE <<Trailing(on, rows)>>

LEMMA HeldBrings ==
    ASSUME NEW on \in Int, NEW rows \in Seq(TickSet)
    PROVE  Brings(HeldFor(on, rows), rows)
<1>1. CASE rows = <<>>
  BY <1>1 DEF HeldFor, Brings
<1>2. CASE rows # <<>>
  <2>1. Filed(on, rows) \in BoxSet /\ Tells(Unpacked(Filed(on, rows)), rows)
    BY <1>2, FiledTells
  <2> QED
    BY <1>2, <2>1 DEF HeldFor, Brings
<1> QED
  BY <1>1, <1>2

LEMMA TrailBrings ==
    ASSUME NEW on \in Int, NEW rows \in Seq(TickSet), InTime(rows)
    PROVE  Brings(TrailFor(on, rows), rows) /\ TrailFor(on, rows) \in Seq(BoxSet)
<1>1. CASE rows = <<>>
  BY <1>1 DEF TrailFor, Brings
<1>2. CASE rows # <<>>
  <2>1. Trailing(on, rows) \in BoxSet /\ Tells(Unpacked(Trailing(on, rows)), rows)
    BY TrailingTells
  <2>2. <<Trailing(on, rows)>> \in Seq(BoxSet)
    BY <2>1
  <2> QED
    BY <1>2, <2>1, <2>2 DEF TrailFor, Brings
<1> QED
  BY <1>1, <1>2

LEMMA FlatOfTwo ==
    ASSUME NEW X, NEW s, s \in Seq(Seq(X)), Len(s) = 2
    PROVE  FlattenSeq(s) = s[1] \o s[2]
<1> DEFINE u == <<s[1]>>
           o == <<>>
<1>1. /\ s[1] \in Seq(X) /\ s[2] \in Seq(X)
      /\ o \in Seq(Seq(X)) /\ Len(o) = 0 /\ u \in Seq(Seq(X)) /\ Len(u) = 1 /\ u[1] = s[1]
  <2>1. s[1] \in Seq(X) /\ s[2] \in Seq(X)
    <3> DEFINE Y == Seq(X)
    <3>1. s \in Seq(Y)
      OBVIOUS
    <3> HIDE DEF Y
    <3>2. 1 \in 1 .. Len(s) /\ 2 \in 1 .. Len(s)
      OBVIOUS
    <3>3. s[1] \in Y /\ s[2] \in Y
      BY <3>1, <3>2, ElementOfSeq
    <3> QED
      BY <3>3 DEF Y
  <2>2. o \in Seq(Seq(X)) /\ Len(o) = 0
    BY EmptySeq
  <2>3. u \in Seq(Seq(X)) /\ Len(u) = 1 /\ u[1] = s[1]
    BY <2>1
  <2> QED
    BY <2>1, <2>2, <2>3
<1> HIDE DEF u, o
<1>2. FlattenSeq(u) = FlattenSeq(o) \o u[Len(u)]
  <2>1. Len(u) = Len(o) + 1 /\ \A i \in 1 .. Len(o) : u[i] = o[i]
    BY <1>1
  <2> QED
    BY <1>1, <2>1, FlatAppend
<1>3. FlattenSeq(s) = FlattenSeq(u) \o s[Len(s)]
  <2>1. Len(s) = Len(u) + 1 /\ \A i \in 1 .. Len(u) : s[i] = u[i]
    BY <1>1
  <2> QED
    BY <1>1, <2>1, FlatAppend
<1>4. FlattenSeq(u) = s[1]
  BY <1>1, <1>2, FlatOfNone, ConcatEmptySeq DEF o
<1> QED
  BY <1>3, <1>4

\* Of the boxes of two dates, whichever are there, the earlier comes first.
Holds(c, A, B, hasA, hasB) ==
    /\ \A i, j \in 1 .. Len(c) : i # j => c[i].date # c[j].date
    /\ \A i \in 1 .. Len(c) : (c[i] = A /\ hasA) \/ (c[i] = B /\ hasB)
    /\ hasA => \E i \in 1 .. Len(c) : c[i] = A
    /\ hasB => \E i \in 1 .. Len(c) : c[i] = B

LEMMA PairOf ==
    ASSUME NEW Y, NEW A \in Y, NEW B \in Y
    PROVE  <<A>> \o <<B>> = <<A, B>>
<1> DEFINE a == <<A>>
           b == <<B>>
<1>1. a \in Seq(Y) /\ b \in Seq(Y) /\ Len(a) = 1 /\ Len(b) = 1 /\ a[1] = A /\ b[1] = B
  OBVIOUS
<1> HIDE DEF a, b
<1>2. /\ a \o b \in Seq(Y) /\ Len(a \o b) = 2
      /\ \A i \in 1 .. Len(a) + Len(b) : (a \o b)[i] = IF i <= Len(a) THEN a[i] ELSE b[i - Len(a)]
  BY <1>1, ConcatProperties
<1>3. (a \o b)[1] = A /\ (a \o b)[2] = B
  BY <1>1, <1>2
<1> DEFINE w == a \o b
           v == <<A, B>>
<1>4. v \in Seq(Y) /\ Len(v) = 2 /\ v[1] = A /\ v[2] = B
  OBVIOUS
<1>5. w \in Seq(Y) /\ Len(w) = 2 /\ w[1] = A /\ w[2] = B
  BY <1>2, <1>3
<1> HIDE DEF w, v
<1>6. w = v
  <2>1. \A i \in 1 .. Len(w) : w[i] = v[i]
    BY <1>4, <1>5
  <2> QED
    BY <1>4, <1>5, <2>1, SeqEqual
<1> QED
  BY <1>6 DEF a, b, w, v

LEMMA SortedOfTwo ==
    ASSUME NEW c \in Seq(BoxOk), NEW A \in BoxOk, NEW B \in BoxOk, NEW hasA \in BOOLEAN,
           NEW hasB \in BOOLEAN, A.date < B.date, Holds(c, A, B, hasA, hasB)
    PROVE  SortedBy([i \in DOMAIN c |-> c[i].date], c) =
             (IF hasA THEN <<A>> ELSE <<>>) \o (IF hasB THEN <<B>> ELSE <<>>)
<1> DEFINE n == Len(c)
           keys == [i \in DOMAIN c |-> c[i].date]
<1>1. n \in Nat /\ DOMAIN c = 1 .. n /\ \A i \in 1 .. n : c[i] \in BoxOk
  OBVIOUS
<1>2. A.date \in Int /\ B.date \in Int /\ \A b \in BoxOk : b.date \in Int
  BY DEF BoxOk, BoxSet
<1>3. \A i \in 1 .. n : keys[i] = c[i].date /\ keys[i] \in Int
  BY <1>1, <1>2
<1> HIDE DEF keys
<1>4. /\ \A i, j \in 1 .. n : i # j => c[i].date # c[j].date
      /\ \A i \in 1 .. n : (c[i] = A /\ hasA) \/ (c[i] = B /\ hasB)
      /\ hasA => \E i \in 1 .. n : c[i] = A
      /\ hasB => \E i \in 1 .. n : c[i] = B
  BY DEF Holds
<1>5. n <= 2
  <2>1. SUFFICES ASSUME n > 2
                 PROVE  FALSE
    BY <1>1
  <2>2. 1 \in 1 .. n /\ 2 \in 1 .. n /\ 3 \in 1 .. n
    BY <1>1, <2>1
  <2>3. c[1].date # c[2].date /\ c[1].date # c[3].date /\ c[2].date # c[3].date
    BY <1>4, <2>2
  <2>4. (c[1] = A \/ c[1] = B) /\ (c[2] = A \/ c[2] = B) /\ (c[3] = A \/ c[3] = B)
    BY <1>4, <2>2
  <2> QED
    BY <2>3, <2>4
<1>6. CASE n = 0
  <2>1. ~hasA /\ ~hasB
    BY <1>4, <1>6
  <2>2. c = <<>>
    BY <1>6
  <2>3. SortedBy(keys, c) = c
    <3>1. /\ \A i \in 1 .. n : keys[i] \in Int
          /\ \A i, j \in 1 .. n : i < j => keys[i] <= keys[j]
      BY <1>3, <1>6
    <3> QED
      BY <3>1, SortedStays
  <2>4. <<>> \o <<>> = <<>>
    BY ConcatEmptySeq, EmptySeq
  <2> QED
    BY <2>1, <2>2, <2>3, <2>4 DEF keys
<1>7. CASE n = 1
  <2>1. SortedBy(keys, c) = c
    <3>1. /\ \A i \in 1 .. n : keys[i] \in Int
          /\ \A i, j \in 1 .. n : i < j => keys[i] <= keys[j]
      BY <1>3, <1>7
    <3> QED
      BY <3>1, SortedStays
  <2>2. c = <<c[1]>> /\ 1 \in 1 .. n /\ \A i \in 1 .. n : i = 1
    BY <1>1, <1>7
  <2>3. A # B
    BY <1>2
  <2>4. CASE c[1] = A
    <3>1. hasA /\ ~hasB
      BY <1>4, <2>2, <2>3, <2>4
    <3>2. <<A>> \o <<>> = <<A>>
      BY ConcatEmptySeq
    <3> QED
      BY <2>1, <2>2, <2>4, <3>1, <3>2 DEF keys
  <2>5. CASE c[1] = B
    <3>1. hasB /\ ~hasA
      BY <1>4, <2>2, <2>3, <2>5
    <3>2. <<>> \o <<B>> = <<B>>
      BY ConcatEmptySeq
    <3> QED
      BY <2>1, <2>2, <2>5, <3>1, <3>2 DEF keys
  <2> QED
    BY <1>4, <2>2, <2>4, <2>5
<1>8. CASE n = 2
  <2>1. 1 \in 1 .. n /\ 2 \in 1 .. n /\ \A i \in 1 .. n : i = 1 \/ i = 2
    BY <1>8
  <2>2. c = <<c[1], c[2]>>
    BY <1>8
  <2>3. c[1].date # c[2].date
    BY <1>4, <2>1
  <2>4. keys[1] = c[1].date /\ keys[2] = c[2].date /\ keys[1] \in Int /\ keys[2] \in Int
    BY <1>3, <2>1
  <2>5. <<A>> \o <<B>> = <<A, B>>
    BY PairOf
  <2>6. CASE c[1] = A
    <3>1. c[2] = B /\ hasA /\ hasB
      BY <1>4, <2>1, <2>3, <2>6
    <3>2. \A i, j \in 1 .. n : i < j => keys[i] <= keys[j]
      <4>1. ASSUME NEW i \in 1 .. n, NEW j \in 1 .. n, i < j PROVE i = 1 /\ j = 2
        BY <1>8, <4>1
      <4>2. keys[1] <= keys[2]
        BY <2>4, <2>6, <3>1
      <4> QED
        BY <4>1, <4>2
    <3>3. SortedBy(keys, c) = c
      BY <1>3, <3>2, SortedStays
    <3> QED
      BY <2>2, <2>5, <2>6, <3>1, <3>3 DEF keys
  <2>7. CASE c[1] = B
    <3>1. c[2] = A /\ hasA /\ hasB
      BY <1>4, <2>1, <2>3, <2>7
    <3>2. keys[2] < keys[1]
      BY <2>4, <2>7, <3>1
    <3>3. SortedBy(keys, c) = <<c[2], c[1]>>
      BY <1>8, <2>4, <3>2, SortedSwaps
    <3> QED
      BY <2>5, <2>7, <3>1, <3>3 DEF keys
  <2> QED
    BY <1>4, <2>1, <2>6, <2>7
<1> QED
  BY <1>1, <1>5, <1>6, <1>7, <1>8

------------------------------------------------------------------------------
(* The day of a final answer *)

MarketOk == ticks \in Seq(TickSet) /\ InTime(ticks) /\ filed \in 0 .. Len(ticks)

LEMMA MarketSplits ==
    ASSUME MarketOk
    PROVE  /\ SubSeq(ticks, 1, filed) \in Seq(TickSet)
           /\ SubSeq(ticks, filed + 1, Len(ticks)) \in Seq(TickSet)
           /\ InTime(SubSeq(ticks, filed + 1, Len(ticks)))
           /\ SubSeq(ticks, 1, filed) \o SubSeq(ticks, filed + 1, Len(ticks)) = ticks
<1> DEFINE n == Len(ticks)
           U == SubSeq(ticks, filed + 1, n)
<1>1. ticks \in Seq(TickSet) /\ n \in Nat /\ filed \in 0 .. n /\ filed \in Nat /\ filed <= n
  BY DEF MarketOk
<1>2. SubSeq(ticks, 1, filed) \in Seq(TickSet)
  BY <1>1
<1>3. /\ U \in Seq(TickSet) /\ Len(U) = n - filed
      /\ \A i \in 1 .. n - filed : filed + i \in 1 .. n /\ U[i] = ticks[filed + i]
  <2> DEFINE f == filed + 1
  <2>1. f \in 1 .. n + 1 /\ f \in Nat /\ (n = filed \/ f <= n)
    BY <1>1
  <2>2. SubSeq(ticks, f, n) \in Seq(TickSet)
    BY <1>1, <2>1
  <2>3. Len(SubSeq(ticks, f, n)) = IF f <= n THEN n - f + 1 ELSE 0
    BY <1>1, <2>1
  <2>4. \A i \in 1 .. n - f + 1 : SubSeq(ticks, f, n)[i] = ticks[f + i - 1]
    BY <1>1, <2>1
  <2> QED
    BY <1>1, <2>2, <2>3, <2>4
<1>4. InTime(U)
  <2>1. \A i, j \in 1 .. n : i < j => ticks[i].time <= ticks[j].time
    BY DEF MarketOk, InTime
  <2> HIDE DEF U, n
  <2>2. ASSUME NEW i \in 1 .. Len(U), NEW j \in 1 .. Len(U), i < j PROVE U[i].time <= U[j].time
    <3> DEFINE k == filed + i
               l == filed + j
    <3>1. k \in 1 .. n /\ l \in 1 .. n /\ k < l /\ U[i] = ticks[k] /\ U[j] = ticks[l]
      BY <1>1, <1>3, <2>2
    <3> HIDE DEF k, l
    <3> QED
      BY <2>1, <3>1
  <2> QED
    BY <2>2 DEF InTime
<1>5. SubSeq(ticks, 1, filed) \o U = ticks
  <2>1. filed \in 1 - 1 .. n /\ 1 \in 1 .. n + 1 /\ n \in filed .. n
    BY <1>1
  <2>2. SubSeq(ticks, 1, filed) \o SubSeq(ticks, filed + 1, n) = SubSeq(ticks, 1, n)
    BY <1>1, <2>1, ConcatAdjacentSubSeq
  <2>3. SubSeq(ticks, 1, n) = ticks
    BY <1>1, SubSeqFull
  <2> QED
    BY <2>2, <2>3
<1> QED
  BY <1>2, <1>3, <1>4, <1>5

LEMMA DatesAre == \A t \in TickSet : DateOf(t.time) \in Int
<1>1. DayLength \in Nat \ {0}
  BY TickAssumption
<1>2. ASSUME NEW t \in TickSet PROVE DateOf(t.time) \in Int
  <2>1. t.time \in Int
    BY TicksAre
  <2> QED
    BY <1>1, <2>1, LaterNotEarlier DEF DateOf
<1> QED
  BY <1>2

FiledTicks == SubSeq(ticks, 1, filed)
UnfiledTicks == SubSeq(ticks, filed + 1, Len(ticks))

LEMMA OfDates ==
    ASSUME MarketOk, NEW d
    PROVE  /\ FiledOn(d) = Those(FiledTicks, OnDate(d)) /\ FiledOn(d) \in Seq(TickSet)
           /\ UnfiledOn(d) = Those(UnfiledTicks, OnDate(d)) /\ UnfiledOn(d) \in Seq(TickSet)
           /\ InTime(UnfiledOn(d))
<1>1. FiledTicks \in Seq(TickSet) /\ UnfiledTicks \in Seq(TickSet) /\ InTime(UnfiledTicks)
  BY MarketSplits DEF FiledTicks, UnfiledTicks
<1>2. FiledOn(d) = On(FiledTicks, d) /\ UnfiledOn(d) = On(UnfiledTicks, d)
  BY DEF FiledOn, UnfiledOn, FiledTicks, UnfiledTicks
<1> HIDE DEF FiledTicks, UnfiledTicks
<1>3. On(FiledTicks, d) = Those(FiledTicks, OnDate(d)) /\ On(FiledTicks, d) \in Seq(TickSet)
  BY <1>1, OnIsThose
<1>4. On(UnfiledTicks, d) = Those(UnfiledTicks, OnDate(d)) /\ On(UnfiledTicks, d) \in Seq(TickSet)
  BY <1>1, OnIsThose
<1>5. InTime(Those(UnfiledTicks, OnDate(d)))
  BY <1>1, ThoseInTime
<1> QED
  BY <1>2, <1>3, <1>4, <1>5

LEMMA TrailingHoursAre ==
    ASSUME MarketOk, NEW day \in Int
    PROVE  TrailingHours(day) =
             TrailFor(day - 1, UnfiledOn(day - 1)) \o TrailFor(day, UnfiledOn(day))
<1> DEFINE T(d) == TrailFor(d, UnfiledOn(d))
           s == [i \in 1 .. 2 |->
                   LET d == day - 2 + i
                   IN IF UnfiledOn(d) = <<>> THEN <<>> ELSE <<Trailing(d, UnfiledOn(d))>>]
<1>1. TrailingHours(day) = FlattenSeq(s)
  BY DEF TrailingHours
<1>2. s = [i \in 1 .. 2 |-> T(day - 2 + i)]
  BY DEF TrailFor
<1>3. \A d \in Int : T(d) \in Seq(BoxSet)
  BY OfDates, TrailBrings
<1> HIDE DEF s, T
<1>4. s[1] = T(day - 1) /\ s[2] = T(day)
  <2>1. \A i \in 1 .. 2 : s[i] = T(day - 2 + i)
    BY <1>2
  <2>2. s[1] = T(day - 2 + 1) /\ s[2] = T(day - 2 + 2)
    BY <2>1
  <2>3. day - 2 + 1 = day - 1 /\ day - 2 + 2 = day
    OBVIOUS
  <2> QED
    BY <2>2, <2>3
<1>5. s \in Seq(Seq(BoxSet)) /\ Len(s) = 2
  <2> DEFINE Y == Seq(BoxSet)
  <2>1. DOMAIN s = 1 .. 2 /\ s = [i \in 1 .. 2 |-> s[i]]
    BY <1>2
  <2>2. \A i \in 1 .. 2 : s[i] \in Y
    <3>1. day - 1 \in Int /\ \A i \in 1 .. 2 : i = 1 \/ i = 2
      OBVIOUS
    <3>2. s[1] \in Y /\ s[2] \in Y
      BY <1>3, <1>4, <3>1
    <3> QED
      BY <3>1, <3>2
  <2> HIDE DEF Y
  <2>3. s \in Seq(Y) /\ Len(s) = 2
    BY <2>1, <2>2, SeqByPositions
  <2> QED
    BY <2>3 DEF Y
<1> QED
  BY <1>1, <1>4, <1>5, FlatOfTwo DEF T

\* The cache is the containers of the date and the one before.
WholeCache(c, day) ==
    /\ c \in Seq(BoxOk)
    /\ \A i, j \in 1 .. Len(c) : i # j => c[i].date # c[j].date
    /\ \A i \in 1 .. Len(c) : \E d \in {day - 1, day} :
         FiledOn(d) # <<>> /\ c[i] = Filed(d, FiledOn(d))
    /\ \A d \in {day - 1, day} :
         FiledOn(d) # <<>> => \E i \in 1 .. Len(c) : c[i] = Filed(d, FiledOn(d))

LEMMA SortedCache ==
    ASSUME MarketOk, NEW day \in Int, NEW c, WholeCache(c, day)
    PROVE  SortedBy([i \in DOMAIN c |-> c[i].date], c) =
             HeldFor(day - 1, FiledOn(day - 1)) \o HeldFor(day, FiledOn(day))
<1> DEFINE a == day - 1
           F == FiledOn(a)
           G == FiledOn(day)
           hasF == F # <<>>
           hasG == G # <<>>
           keys == [i \in DOMAIN c |-> c[i].date]
<1>1. a \in Int /\ a < day /\ F \in Seq(TickSet) /\ G \in Seq(TickSet)
  BY OfDates
<1>2. /\ c \in Seq(BoxOk)
      /\ \A i, j \in 1 .. Len(c) : i # j => c[i].date # c[j].date
      /\ \A i \in 1 .. Len(c) : (c[i] = Filed(a, F) /\ hasF) \/ (c[i] = Filed(day, G) /\ hasG)
      /\ hasF => \E i \in 1 .. Len(c) : c[i] = Filed(a, F)
      /\ hasG => \E i \in 1 .. Len(c) : c[i] = Filed(day, G)
  BY DEF WholeCache
<1>3. HeldFor(a, F) = (IF hasF THEN <<Filed(a, F)>> ELSE <<>>)
      /\ HeldFor(day, G) = (IF hasG THEN <<Filed(day, G)>> ELSE <<>>)
  BY DEF HeldFor
<1>4. hasF \in BOOLEAN /\ hasG \in BOOLEAN
  OBVIOUS
<1>5. ASSUME NEW on \in Int, NEW rows \in Seq(TickSet), rows # <<>>
      PROVE  Filed(on, rows) \in BoxOk /\ Filed(on, rows).date = on
  BY <1>5, FiledTells DEF BoxOk, Tells
<1>6. hasF => Filed(a, F) \in BoxOk /\ Filed(a, F).date = a
  BY <1>1, <1>5
<1>7. hasG => Filed(day, G) \in BoxOk /\ Filed(day, G).date = day
  BY <1>1, <1>5
<1> DEFINE A == Filed(a, F)
           B == Filed(day, G)
<1>9. keys = [i \in DOMAIN c |-> c[i].date]
  OBVIOUS
<1> HIDE DEF a, F, G, hasF, hasG, keys, A, B
<1>8. SortedBy(keys, c) = (IF hasF THEN <<A>> ELSE <<>>) \o (IF hasG THEN <<B>> ELSE <<>>)
  <2>1. CASE hasF /\ hasG
    <3>1. Holds(c, A, B, hasF, hasG)
      BY <1>2 DEF Holds, A, B
    <3>2. A \in BoxOk /\ B \in BoxOk /\ A.date < B.date
      BY <1>1, <1>6, <1>7, <2>1 DEF A, B
    <3>3. SortedBy([i \in DOMAIN c |-> c[i].date], c) =
            (IF hasF THEN <<A>> ELSE <<>>) \o (IF hasG THEN <<B>> ELSE <<>>)
      BY <1>2, <1>4, <3>1, <3>2, SortedOfTwo
    <3> QED
      BY ONLY <1>9, <3>3, Zenon
  <2>2. CASE ~hasF /\ ~hasG
    <3>1. c = <<>>
      BY <1>2, <2>2
    <3>2. SortedBy(keys, c) = c
      <4>1. Len(c) = 0
        BY <3>1, EmptySeq
      <4>2. /\ \A i \in 1 .. Len(c) : keys[i] \in Int
            /\ \A i, j \in 1 .. Len(c) : i < j => keys[i] <= keys[j]
        BY <4>1
      <4> QED
        BY <1>2, <4>2, SortedStays
    <3>3. <<>> \o <<>> = <<>>
      BY ConcatEmptySeq, EmptySeq
    <3> QED
      BY <2>2, <3>1, <3>2, <3>3
  <2>3. ASSUME NEW e \in BoxOk, \A i \in 1 .. Len(c) : c[i] = e, \E i \in 1 .. Len(c) : c[i] = e
        PROVE  SortedBy(keys, c) = <<e>>
    <3>1. Len(c) = 1
      <4>1. Len(c) \in Nat
        BY <1>2
      <4>2. ~(1 \in 1 .. Len(c) /\ 2 \in 1 .. Len(c))
        BY <1>2, <2>3
      <4>3. Len(c) # 0
        BY <2>3
      <4> DEFINE n == Len(c)
      <4>4. n \in Nat /\ n # 0 /\ (n >= 2 => 1 \in 1 .. n /\ 2 \in 1 .. n)
        BY <4>1, <4>3
      <4> HIDE DEF n
      <4>5. n >= 2 => FALSE
        BY <4>2, <4>4 DEF n
      <4>6. n = 1
        BY <4>4, <4>5
      <4> QED
        BY <4>6 DEF n
    <3>2. c = <<c[1]>> /\ c[1] = e
      BY <1>2, <2>3, <3>1
    <3>3. SortedBy(keys, c) = c
      <4>1. \A i \in 1 .. Len(c) : keys[i] = e.date
        BY <1>2, <2>3 DEF keys
      <4>2. e.date \in Int
        BY <2>3 DEF BoxOk, BoxSet
      <4>3. /\ \A i \in 1 .. Len(c) : keys[i] \in Int
            /\ \A i, j \in 1 .. Len(c) : i < j => keys[i] <= keys[j]
        BY <4>1, <4>2
      <4> QED
        BY <1>2, <4>3, SortedStays
    <3> QED
      BY <3>2, <3>3
  <2>4. CASE hasF /\ ~hasG
    <3>1. A \in BoxOk /\ (\A i \in 1 .. Len(c) : c[i] = A) /\ \E i \in 1 .. Len(c) : c[i] = A
      BY <1>2, <1>6, <2>4 DEF A
    <3>2. <<A>> \o <<>> = <<A>>
      BY ConcatEmptySeq
    <3> QED
      BY <2>3, <2>4, <3>1, <3>2
  <2>5. CASE ~hasF /\ hasG
    <3>1. B \in BoxOk /\ (\A i \in 1 .. Len(c) : c[i] = B) /\ \E i \in 1 .. Len(c) : c[i] = B
      BY <1>2, <1>7, <2>5 DEF B
    <3>2. <<>> \o <<B>> = <<B>>
      BY ConcatEmptySeq
    <3> QED
      BY <2>3, <2>5, <3>1, <3>2
  <2> QED
    BY <1>4, <2>1, <2>2, <2>4, <2>5
<1> QED
  BY <1>3, <1>8 DEF a, F, G, keys, A, B

\* Ticks of a slot are all of its date, and none of another.
LEMMA SlotOnDate ==
    ASSUME NEW s \in Seq(TickSet), NEW from, NEW to, NEW d, NEW e
    PROVE  /\ Those(Those(s, OnDate(d)), Slot(from, to, d)) = Those(s, Slot(from, to, d))
           /\ d # e => Those(Those(s, OnDate(d)), Slot(from, to, e)) = <<>>
<1>1. OnDate(d) \intersect Slot(from, to, d) = Slot(from, to, d)
  BY DEF Slot
<1>2. d # e => OnDate(d) \intersect Slot(from, to, e) = {}
  BY DEF Slot, OnDate
<1>3. Those(s, {}) = <<>>
  BY ThoseNoneOf
<1>4. /\ Those(Those(s, OnDate(d)), Slot(from, to, d)) = Those(s, OnDate(d) \intersect Slot(from, to, d))
      /\ Those(Those(s, OnDate(d)), Slot(from, to, e)) = Those(s, OnDate(d) \intersect Slot(from, to, e))
  BY ThoseTwice
<1> QED
  BY <1>1, <1>2, <1>3, <1>4

LEMMA BringsBoxes ==
    ASSUME NEW x, NEW q, Brings(x, q)
    PROVE  x \in Seq(BoxSet)
<1>1. CASE x = <<>>
  BY <1>1, EmptySeq
<1>2. ASSUME NEW e \in BoxSet, x = <<e>> PROVE x \in Seq(BoxSet)
  <2>1. <<e>> \in Seq(BoxSet)
    OBVIOUS
  <2> QED
    BY <1>2, <2>1
<1> QED
  BY <1>1, <1>2 DEF Brings

LEMMA DayIsWhole ==
    ASSUME MarketOk, call.day \in Int, NEW c, WholeCache(c, call.day)
    PROVE  WithDay(c, TrailingHours(call.day)) =
             call.output \o Those(ticks, Slot(call.from, call.to, call.day))
<1> DEFINE day == call.day
           S == Slot(call.from, call.to, day)
           A1 == FiledOn(day - 1)
           A2 == FiledOn(day)
           U1 == UnfiledOn(day - 1)
           U2 == UnfiledOn(day)
           a1 == HeldFor(day - 1, A1)
           a2 == HeldFor(day, A2)
           u1 == TrailFor(day - 1, U1)
           u2 == TrailFor(day, U2)
           boxes == SortedBy([i \in DOMAIN c |-> c[i].date], c) \o TrailingHours(day)
           rows == Materialized(UnpackedBoxes(boxes))
<1>1. /\ day \in Int /\ day - 1 \in Int /\ day # day - 1
      /\ A1 \in Seq(TickSet) /\ A2 \in Seq(TickSet) /\ U1 \in Seq(TickSet) /\ U2 \in Seq(TickSet)
      /\ InTime(U1) /\ InTime(U2)
  BY OfDates
<1>2. Brings(a1, A1) /\ Brings(a2, A2) /\ Brings(u1, U1) /\ Brings(u2, U2)
  BY <1>1, HeldBrings, TrailBrings
<1>3. TrailingHours(day) = u1 \o u2
  BY TrailingHoursAre
<1>4. SortedBy([i \in DOMAIN c |-> c[i].date], c) = a1 \o a2
  BY SortedCache
<1>5. BoxesTell(<<>>, <<>>)
  <2>1. <<>> \in Seq(BoxOk)
    BY EmptySeq
  <2> QED
    BY <2>1, NoGroups, NothingTold DEF BoxesTell
<1>6. WithDay(c, TrailingHours(day)) = call.output \o Those(rows, {row \in ToSet(rows) : Wanted(row)})
  BY DEF WithDay, UnpackedBoxes
<1>7. boxes = (a1 \o a2) \o (u1 \o u2)
  BY <1>3, <1>4
<1>8. /\ Those(A1, S) = <<>> /\ Those(U1, S) = <<>>
      /\ Those(A2, S) = Those(FiledTicks, S) /\ Those(U2, S) = Those(UnfiledTicks, S)
  <2>1. FiledTicks \in Seq(TickSet) /\ UnfiledTicks \in Seq(TickSet)
    BY MarketSplits DEF FiledTicks, UnfiledTicks
  <2>2. /\ A1 = Those(FiledTicks, OnDate(day - 1)) /\ A2 = Those(FiledTicks, OnDate(day))
        /\ U1 = Those(UnfiledTicks, OnDate(day - 1)) /\ U2 = Those(UnfiledTicks, OnDate(day))
    BY OfDates
  <2> HIDE DEF A1, A2, U1, U2, FiledTicks, UnfiledTicks, S
  <2>3. \A s \in Seq(TickSet) : Those(Those(s, OnDate(day - 1)), S) = <<>>
    BY <1>1, SlotOnDate DEF S
  <2>4. \A s \in Seq(TickSet) : Those(Those(s, OnDate(day)), S) = Those(s, S)
    BY <1>1, SlotOnDate DEF S
  <2> QED
    BY <2>1, <2>2, <2>3, <2>4
<1>9. /\ FiledTicks \in Seq(TickSet) /\ UnfiledTicks \in Seq(TickSet)
      /\ FiledTicks \o UnfiledTicks = ticks
  BY MarketSplits DEF FiledTicks, UnfiledTicks
<1> HIDE DEF A1, A2, U1, U2, a1, a2, u1, u2, FiledTicks, UnfiledTicks, boxes
<1>10. BoxesTell(boxes, ((A1 \o A2) \o U1) \o U2)
  <2>1. BoxesTell(<<>> \o a1, <<>> \o A1)
    BY <1>2, <1>5, BringMore
  <2>2. <<>> \o a1 = a1 /\ <<>> \o A1 = A1
    <3>1. a1 \in Seq(BoxSet)
      BY <1>2, BringsBoxes
    <3> QED
      BY <1>1, <3>1, ConcatEmptySeq
  <2>3. BoxesTell(a1 \o a2, A1 \o A2)
    BY <1>2, <2>1, <2>2, BringMore
  <2>4. BoxesTell((a1 \o a2) \o u1, (A1 \o A2) \o U1)
    BY <1>2, <2>3, BringMore
  <2>5. BoxesTell(((a1 \o a2) \o u1) \o u2, ((A1 \o A2) \o U1) \o U2)
    BY <1>2, <2>4, BringMore
  <2>6. ((a1 \o a2) \o u1) \o u2 = (a1 \o a2) \o (u1 \o u2)
    <3>1. a1 \o a2 \in Seq(BoxSet)
      <4>1. a1 \o a2 \in Seq(BoxOk)
        BY <2>3 DEF BoxesTell
      <4>2. \A s \in Seq(BoxOk) : s \in Seq(BoxSet)
        BY DEF BoxOk
      <4> QED
        BY <4>1, <4>2
    <3>2. u1 \in Seq(BoxSet) /\ u2 \in Seq(BoxSet)
      BY <1>2, BringsBoxes
    <3>3. JoinsInside(a1 \o a2, u1, u2)
      BY <3>1, <3>2, JoinedToConcat
    <3> QED
      BY <3>3 DEF JoinsInside
  <2> QED
    BY <1>7, <2>5, <2>6
<1> DEFINE R == ((A1 \o A2) \o U1) \o U2
<1>11. rows = R /\ R \in Seq(TickSet)
  <2>1. Tells(UnpackedBoxes(boxes), R)
    BY <1>10 DEF BoxesTell
  <2> HIDE DEF R
  <2>2. Materialized(UnpackedBoxes(boxes)) = R
    BY <2>1, ToldIsThere
  <2> QED
    BY <2>1, <2>2 DEF Tells
<1>12. Those(R, S) = Those(ticks, S)
  <2> HIDE DEF S
  <2>0. \A s, t \in Seq(TickSet) : Those(s \o t, S) = Those(s, S) \o Those(t, S)
    BY ThoseConcat
  <2>1. Those(A1 \o A2, S) = <<>> \o Those(FiledTicks, S)
    BY <1>1, <1>8, <2>0
  <2>2. Those(FiledTicks, S) \in Seq(TickSet) /\ Those(UnfiledTicks, S) \in Seq(TickSet)
    BY <1>9, ThoseInSeq
  <2>3. Those(A1 \o A2, S) = Those(FiledTicks, S)
    BY <2>1, <2>2, ConcatEmptySeq
  <2>4. A1 \o A2 \in Seq(TickSet) /\ (A1 \o A2) \o U1 \in Seq(TickSet)
    BY <1>1, ConcatProperties
  <2>5. Those((A1 \o A2) \o U1, S) = Those(FiledTicks, S) \o <<>>
    BY <1>1, <1>8, <2>3, <2>4, <2>0
  <2>6. Those((A1 \o A2) \o U1, S) = Those(FiledTicks, S)
    BY <2>2, <2>5, ConcatEmptySeq
  <2>7. Those(R, S) = Those(FiledTicks, S) \o Those(UnfiledTicks, S)
    BY <1>1, <1>8, <2>4, <2>6, <2>0
  <2>8. Those(FiledTicks \o UnfiledTicks, S) = Those(FiledTicks, S) \o Those(UnfiledTicks, S)
    BY <1>9, <2>0
  <2> QED
    BY <1>9, <2>7, <2>8
<1>13. Those(R, {row \in ToSet(R) : Wanted(row)}) = Those(R, S)
  <2> DEFINE P == {row \in ToSet(R) : Wanted(row)}
  <2>1. R \in Seq(TickSet)
    BY <1>11
  <2> HIDE DEF R
  <2>2. \A i \in 1 .. Len(R) : R[i] \in TickSet /\ R[i] \in ToSet(R)
    BY <2>1 DEF ToSet
  <2>3. \A t : t \in P <=> t \in ToSet(R) /\ t.time >= call.from /\ t.time < call.to /\ DateOf(t.time) = day
    BY DEF Wanted
  <2>4. \A t : t \in S <=> t \in TickSet /\ call.from <= t.time /\ t.time < call.to /\ DateOf(t.time) = day
    BY DEF Slot, Within, OnDate
  <2> HIDE DEF P, S, day
  <2>5. ASSUME NEW i \in 1 .. Len(R) PROVE R[i] \in P <=> R[i] \in S
    BY <2>2, <2>3, <2>4
  <2>6. Those(R, P) = Those(R, S)
    BY <2>1, <2>5, ThoseSame
  <2> QED
    BY <2>6 DEF P
<1> HIDE DEF R, rows, S
<1> QED
  BY <1>6, <1>11, <1>12, <1>13 DEF S

------------------------------------------------------------------------------
(* The cache *)

MergedIter(b, list, it) ==
    it = [d \in SUBSET (DOMAIN list) |->
            IF d = {} THEN b ELSE Merged(it[d \ {Max(d)}], list[Max(d)])]

LEMMA MergedIsFold ==
    ASSUME NEW b, NEW list, NEW jt, MergedIter(b, list, jt)
    PROVE  \E it : MergedIter(b, list, it) /\ FoldLeft(Merged, b, list) = it[DOMAIN list]
<1>1. FoldLeft(Merged, b, list) = (CHOOSE it : MergedIter(b, list, it))[DOMAIN list]
  BY Zenon DEF FoldLeft, MapThenFoldSet, MergedIter
<1>2. MergedIter(b, list, CHOOSE it : MergedIter(b, list, it))
  OBVIOUS
<1> QED
  BY <1>1, <1>2

LEMMA MergedInTurn ==
    ASSUME NEW X, NEW b \in X, NEW list, NEW n \in Nat, DOMAIN list = 1 .. n,
           \A x \in X : \A i \in 1 .. n : Merged(x, list[i]) \in X
    PROVE  /\ FoldLeft(Merged, b, list) \in X
           /\ n = 0 => FoldLeft(Merged, b, list) = b
           /\ n = 1 => FoldLeft(Merged, b, list) = Merged(b, list[1])
<1> DEFINE G == [i \in 1 .. n |-> [x \in X |-> Merged(x, list[i])]]
<1>1. G \in [1 .. n -> [X -> X]] /\ \A i \in 1 .. n : \A x \in X : G[i][x] = Merged(x, list[i])
  OBVIOUS
<1> HIDE DEF G
<1>2. PICK jt : FoldValues(X, b, n, G, jt)
  BY <1>1, FoldThere DEF HasFold
<1>3. MergedIter(b, list, jt)
  <2>1. jt \in [SUBSET (DOMAIN list) -> X]
    BY <1>2 DEF FoldValues
  <2>2. ASSUME NEW d \in SUBSET (DOMAIN list)
        PROVE  jt[d] = IF d = {} THEN b ELSE Merged(jt[d \ {Max(d)}], list[Max(d)])
    <3>1. CASE d = {}
      BY <1>2, <3>1 DEF FoldValues
    <3>2. CASE d # {}
      <4>1. /\ Max(d) \in 1 .. n /\ jt[d \ {Max(d)}] \in X
            /\ jt[d] = G[Max(d)][jt[d \ {Max(d)}]]
        BY <1>2, <3>2 DEF FoldValues
      <4> QED
        BY <1>1, <3>2, <4>1
    <3> QED
      BY <3>1, <3>2
  <2> QED
    BY <2>1, <2>2 DEF MergedIter
<1>4. PICK it : MergedIter(b, list, it) /\ FoldLeft(Merged, b, list) = it[DOMAIN list]
  BY <1>3, MergedIsFold
<1>5. FoldTrail(X, b, n, G, it)
  <2>1. it[{}] = b
    BY <1>4 DEF MergedIter
  <2>2. ASSUME NEW d \in SUBSET (1 .. n), d # {}, it[d \ {Max(d)}] \in X
        PROVE  it[d] = G[Max(d)][it[d \ {Max(d)}]]
    <3>1. Max(d) \in 1 .. n
      BY <2>2, MaxIsIn
    <3>2. it[d] = Merged(it[d \ {Max(d)}], list[Max(d)])
      BY <1>4, <2>2 DEF MergedIter
    <3> QED
      BY <1>1, <2>2, <3>1, <3>2
  <2>3. FoldGoes(X, b, n, G, it)
    BY <2>1, <2>2 DEF FoldGoes
  <2> QED
    BY <1>1, <2>3, FoldSteps
<1>6. /\ it[1 .. 0] = b
      /\ \A k \in 1 .. n : it[1 .. k - 1] \in X /\ it[1 .. k] = Merged(it[1 .. k - 1], list[k])
  BY <1>1, <1>5 DEF FoldTrail
<1>7. FoldLeft(Merged, b, list) = it[1 .. n]
  BY <1>4
<1>8. it[1 .. n] \in X
  <2>1. CASE n = 0
    BY <1>6, <2>1
  <2>2. CASE n \in 1 .. n
    BY <1>6, <2>2
  <2> QED
    BY <2>1, <2>2
<1>9. n = 1 => it[1 .. n] = Merged(b, list[1])
  <2>1. SUFFICES ASSUME n = 1
                 PROVE  it[1 .. 1] = Merged(b, list[1])
    OBVIOUS
  <2>2. 1 \in 1 .. n /\ 1 - 1 = 0
    BY <2>1
  <2> QED
    BY <1>6, <2>2
<1> QED
  BY <1>6, <1>7, <1>8, <1>9

MergesOne(b, list) == FoldLeft(Merged, b, list) = Merged(b, list[1])

LEMMA MergedOnce ==
    ASSUME NEW X, NEW b \in X, NEW list, DOMAIN list = 1 .. 1, \A x \in X : Merged(x, list[1]) \in X
    PROVE  MergesOne(b, list)
<1> DEFINE n == 1
<1>1. n \in Nat /\ n = 1 /\ DOMAIN list = 1 .. n
  OBVIOUS
<1>2. \A i \in 1 .. n : i = 1
  OBVIOUS
<1> HIDE DEF n
<1>3. \A x \in X : \A i \in 1 .. n : Merged(x, list[i]) \in X
  BY <1>2
<1>4. FoldLeft(Merged, b, list) = Merged(b, list[1])
  BY <1>1, <1>3, MergedInTurn
<1> QED
  BY <1>4 DEF MergesOne

OnePerDate(c) == \A i, j \in 1 .. Len(c) : i # j => c[i].date # c[j].date

\* A box takes the place of the one of its date, and leaves the others.
LEMMA MergedTakesPlace ==
    ASSUME NEW c \in Seq(BoxOk), OnePerDate(c), NEW box \in BoxOk
    PROVE  /\ Merged(c, box) \in Seq(BoxOk) /\ OnePerDate(Merged(c, box))
           /\ \A i \in 1 .. Len(Merged(c, box)) :
                Merged(c, box)[i] = box \/ (/\ Merged(c, box)[i].date # box.date
                                            /\ \E j \in 1 .. Len(c) : Merged(c, box)[i] = c[j])
           /\ \E i \in 1 .. Len(Merged(c, box)) : Merged(c, box)[i] = box
           /\ \A j \in 1 .. Len(c) :
                c[j].date # box.date => \E i \in 1 .. Len(Merged(c, box)) : Merged(c, box)[i] = c[j]
<1> DEFINE n == Len(c)
           same == {i \in 1 .. n : c[i].date = box.date}
           k == CHOOSE i \in same : TRUE
           w == Merged(c, box)
           Done(m) == /\ w \in Seq(BoxOk) /\ Len(w) = m /\ OnePerDate(w)
                      /\ \A i \in 1 .. m : w[i] = box \/ (/\ w[i].date # box.date
                                                          /\ \E j \in 1 .. n : w[i] = c[j])
                      /\ \E i \in 1 .. m : w[i] = box
                      /\ \A j \in 1 .. n : c[j].date # box.date => \E i \in 1 .. m : w[i] = c[j]
<1>1. /\ n \in Nat /\ DOMAIN c = 1 .. n /\ \A i \in 1 .. n : c[i] \in BoxOk
      /\ \A i, j \in 1 .. n : i # j => c[i].date # c[j].date
  BY DEF OnePerDate
<1>2. w = IF same = {} THEN Append(c, box) ELSE [c EXCEPT ![k] = box]
  BY <1>1 DEF Merged
<1>3. \A i : i \in same <=> i \in 1 .. n /\ c[i].date = box.date
  OBVIOUS
<1>4. same # {} => k \in same
  OBVIOUS
<1> HIDE DEF same, k, w
<1>5. CASE same = {}
  <2> DEFINE m == n + 1
  <2>1. /\ w \in Seq(BoxOk) /\ Len(w) = n + 1 /\ w[n + 1] = box
        /\ \A i \in 1 .. n : i \in 1 .. n + 1 /\ w[i] = c[i]
    BY <1>2, <1>5, AppendedIs
  <2>2. /\ m \in 1 .. m /\ \A i \in 1 .. m : i = m \/ i \in 1 .. n
    BY <1>1
  <2>3. Len(w) = m /\ w[m] = box /\ \A i \in 1 .. n : i \in 1 .. m /\ w[i] = c[i] /\ i # m
    BY <1>1, <2>1
  <2>4. \A i \in 1 .. n : c[i].date # box.date
    BY <1>3, <1>5
  <2> HIDE DEF m
  <2>5. \A i, j \in 1 .. m : i # j => w[i].date # w[j].date
    BY <1>1, <2>2, <2>3, <2>4
  <2>6. \A i \in 1 .. m : w[i] = box \/ (w[i].date # box.date /\ \E j \in 1 .. n : w[i] = c[j])
    BY <2>2, <2>3, <2>4
  <2>7. \A j \in 1 .. n : \E i \in 1 .. m : w[i] = c[j]
    BY <2>3
  <2>8. Done(m)
    BY <2>1, <2>2, <2>3, <2>5, <2>6, <2>7 DEF OnePerDate
  <2> QED
    BY <2>3, <2>8 DEF w
<1>6. CASE same # {}
  <2>1. k \in 1 .. n /\ c[k].date = box.date
    BY <1>3, <1>4, <1>6
  <2>2. \A i \in 1 .. n : i # k => c[i].date # box.date
    BY <1>1, <2>1
  <2>3. w = [c EXCEPT ![k] = box]
    BY <1>2, <1>6
  <2>4. w \in Seq(BoxOk) /\ Len(w) = n
    BY <1>1, <2>1, <2>3, ExceptSeq
  <2>5. w[k] = box /\ \A i \in 1 .. n : i # k => w[i] = c[i]
    BY <1>1, <2>1, <2>3
  <2>6. \A i, j \in 1 .. n : i # j => w[i].date # w[j].date
    BY <1>1, <2>1, <2>2, <2>5
  <2>7. \A i \in 1 .. n : w[i] = box \/ (w[i].date # box.date /\ \E j \in 1 .. n : w[i] = c[j])
    BY <2>2, <2>5
  <2>8. \A j \in 1 .. n : c[j].date # box.date => \E i \in 1 .. n : w[i] = c[j]
    BY <2>1, <2>5
  <2>9. Done(n)
    BY <2>1, <2>4, <2>5, <2>6, <2>7, <2>8 DEF OnePerDate
  <2> QED
    BY <2>4, <2>9 DEF w
<1> QED
  BY <1>5, <1>6

\* A box of a date that is asked for and has ticks; a cache of such boxes.
GoodBox(b, day) == b \in BoxOk /\ b.date \in Dates(day) /\ FiledOn(b.date) # <<>>
GoodCache(c, day) ==
    /\ c \in Seq(BoxOk) /\ OnePerDate(c)
    /\ \A i \in 1 .. Len(c) : c[i].date \in Dates(day) /\ FiledOn(c[i].date) # <<>>

LEMMA MergedGood ==
    ASSUME NEW day, NEW c, NEW b, GoodCache(c, day), GoodBox(b, day)
    PROVE  GoodCache(Merged(c, b), day)
<1> DEFINE w == Merged(c, b)
<1>1. c \in Seq(BoxOk) /\ OnePerDate(c) /\ b \in BoxOk
  BY DEF GoodCache, GoodBox
<1>2. /\ w \in Seq(BoxOk) /\ OnePerDate(w)
      /\ \A i \in 1 .. Len(w) : w[i] = b \/ (/\ w[i].date # b.date
                                             /\ \E j \in 1 .. Len(c) : w[i] = c[j])
  BY <1>1, MergedTakesPlace
<1> HIDE DEF w
<1>3. ASSUME NEW i \in 1 .. Len(w) PROVE w[i].date \in Dates(day) /\ FiledOn(w[i].date) # <<>>
  <2>1. CASE w[i] = b
    BY <2>1 DEF GoodBox
  <2>2. ASSUME NEW j \in 1 .. Len(c), w[i] = c[j]
        PROVE  w[i].date \in Dates(day) /\ FiledOn(w[i].date) # <<>>
    <3>1. c[j].date \in Dates(day) /\ FiledOn(c[j].date) # <<>>
      BY DEF GoodCache
    <3> QED
      BY <2>2, <3>1
  <2> QED
    BY <1>2, <2>1, <2>2
<1>4. GoodCache(w, day)
  BY <1>2, <1>3 DEF GoodCache
<1> QED
  BY <1>4 DEF w

LEMMA FiledIsGood ==
    ASSUME MarketOk, NEW day \in Int, NEW d \in Dates(day), FiledOn(d) # <<>>
    PROVE  /\ GoodBox(Filed(d, FiledOn(d)), day) /\ Filed(d, FiledOn(d)).date = d
<1>1. d \in Int
  BY DEF Dates
<1>2. FiledOn(d) \in Seq(TickSet)
  BY OfDates
<1> DEFINE rows == FiledOn(d)
           e == Filed(d, rows)
<1>3. rows \in Seq(TickSet) /\ rows # <<>>
  BY <1>2
<1> HIDE DEF rows
<1>4. e \in BoxSet /\ e.date = d /\ Tells(Unpacked(e), rows)
  BY <1>1, <1>3, FiledTells
<1> HIDE DEF e
<1>5. e \in BoxOk
  BY <1>4 DEF BoxOk, Tells
<1>6. GoodBox(e, day)
  BY <1>3, <1>4, <1>5 DEF GoodBox, rows
<1> QED
  BY <1>4, <1>6 DEF e, rows

LEMMA GoodIsWhole ==
    ASSUME MarketOk, NEW day \in Int, NEW c, GoodCache(c, day),
           \A d \in Dates(day) :
             FiledOn(d) # <<>> => \E i \in 1 .. Len(c) : c[i] = Filed(d, FiledOn(d))
    PROVE  WholeCache(c, day)
<1>1. /\ c \in Seq(BoxOk) /\ \A i, j \in 1 .. Len(c) : i # j => c[i].date # c[j].date
      /\ \A i \in 1 .. Len(c) : c[i].date \in Dates(day) /\ FiledOn(c[i].date) # <<>>
  BY DEF GoodCache, OnePerDate
<1>2. Dates(day) = {day - 1, day}
  BY DEF Dates
<1>3. ASSUME NEW i \in 1 .. Len(c)
      PROVE  \E d \in {day - 1, day} : FiledOn(d) # <<>> /\ c[i] = Filed(d, FiledOn(d))
  <2> DEFINE d == c[i].date
  <2>1. d \in Dates(day) /\ FiledOn(d) # <<>>
    BY <1>1
  <2>2. PICK j \in 1 .. Len(c) : c[j] = Filed(d, FiledOn(d))
    BY <2>1
  <2>3. Filed(d, FiledOn(d)).date = d
    BY <2>1, FiledIsGood
  <2>4. c[j].date = c[i].date
    BY <2>2, <2>3
  <2>5. i = j
    BY <1>1, <2>4
  <2> HIDE DEF d
  <2> QED
    BY <1>2, <2>1, <2>2, <2>5
<1> QED
  BY <1>1, <1>2, <1>3 DEF WholeCache

LEMMA AnswersGood ==
    ASSUME MarketOk, NEW day \in Int, NEW cached, GoodCache(cached, day),
           NEW answer \in Answers(day, cached)
    PROVE  /\ GoodCache(FoldLeft(Merged, cached, answer.boxes), day)
           /\ ~answer.more => /\ WholeCache(FoldLeft(Merged, cached, answer.boxes), day)
                              /\ answer.trailing = TrailingHours(day)
<1> DEFINE stale == Stale(day, cached)
           Box(d) == Filed(d, FiledOn(d))
           boxes == {<<Box(d)>> : d \in stale}
           X == {c \in Seq(BoxOk) : GoodCache(c, day)}
           last == IF stale = {} THEN {<<>>} ELSE IF Cardinality(stale) = 1 THEN boxes ELSE {}
<1>1. \A c : c \in X <=> GoodCache(c, day)
  BY DEF GoodCache
<1>2. \A x \in X : \A b : GoodBox(b, day) => Merged(x, b) \in X
  BY <1>1, MergedGood
<1>3. \A d \in stale : /\ d \in Dates(day) /\ FiledOn(d) # <<>>
                       /\ \A i \in DOMAIN cached : cached[i] # Box(d)
  BY DEF Stale
<1>4. \A d \in Dates(day) : d \notin stale /\ FiledOn(d) # <<>> =>
                            \E i \in DOMAIN cached : cached[i] = Box(d)
  BY DEF Stale
<1>5. \/ answer.more = TRUE /\ answer.boxes \in boxes \cup {cached}
      \/ answer.more = FALSE /\ answer.boxes \in last /\ answer.trailing = TrailingHours(day)
  <2>1. answer \in {[more |-> TRUE, boxes |-> b, trailing |-> <<>>] : b \in boxes \cup {cached}}
                   \cup {[more |-> FALSE, boxes |-> b, trailing |-> TrailingHours(day)] : b \in last}
    BY DEF Answers
  <2> HIDE DEF boxes, last
  <2> QED
    BY <2>1
<1>6. cached \in Seq(BoxOk) /\ OnePerDate(cached) /\ DOMAIN cached = 1 .. Len(cached) /\ Len(cached) \in Nat
  BY DEF GoodCache
<1>7. \A d \in stale : GoodBox(Box(d), day) /\ Box(d).date = d
  BY <1>3, FiledIsGood
<1> HIDE DEF X, stale, Box
<1>8. ASSUME NEW b \in boxes
      PROVE  \E d \in stale : b = <<Box(d)>> /\ FoldLeft(Merged, cached, b) = Merged(cached, Box(d))
  <2>1. PICK d \in stale : b = <<Box(d)>>
    OBVIOUS
  <2>2. DOMAIN b = 1 .. 1 /\ b[1] = Box(d)
    BY <2>1
  <2>3. cached \in X /\ \A x \in X : Merged(x, b[1]) \in X
    BY <1>1, <1>2, <1>7, <2>2
  <2>4. MergesOne(cached, b)
    BY <2>2, <2>3, MergedOnce
  <2> QED
    BY <2>1, <2>2, <2>4 DEF MergesOne
<1>9. \A d \in stale : GoodCache(Merged(cached, Box(d)), day)
  BY <1>7, MergedGood
<1>10. GoodCache(FoldLeft(Merged, cached, cached), day)
  <2> DEFINE n == Len(cached)
  <2>1. n \in Nat /\ DOMAIN cached = 1 .. n /\ cached \in X
    BY <1>1, <1>6
  <2>2. \A i \in 1 .. n : GoodBox(cached[i], day)
    BY <1>6 DEF GoodCache, GoodBox
  <2>3. \A x \in X : \A i \in 1 .. n : Merged(x, cached[i]) \in X
    BY <1>2, <2>2
  <2> HIDE DEF n
  <2>4. FoldLeft(Merged, cached, cached) \in X
    BY <2>1, <2>3, MergedInTurn
  <2> QED
    BY <1>1, <2>4
<1>11. FoldLeft(Merged, cached, <<>>) = cached
  <2> DEFINE none == <<>>
             zero == 0
  <2>1. zero \in Nat /\ zero = 0 /\ DOMAIN none = 1 .. zero /\ cached \in X /\ \A i : i \notin 1 .. zero
    BY <1>1
  <2> HIDE DEF none, zero
  <2>2. \A x \in X : \A i \in 1 .. zero : Merged(x, none[i]) \in X
    BY <2>1
  <2>3. FoldLeft(Merged, cached, none) = cached
    BY <2>1, <2>2, MergedInTurn
  <2> QED
    BY <2>3 DEF none
<1>12. CASE answer.more = TRUE
  <2>1. CASE answer.boxes = cached
    BY <1>10, <1>12, <2>1
  <2>2. CASE answer.boxes \in boxes
    BY <1>8, <1>9, <1>12, <2>2
  <2> HIDE DEF boxes
  <2> QED
    BY <1>5, <1>12, <2>1, <2>2
<1>13. CASE answer.more = FALSE
  <2>1. answer.boxes \in last /\ answer.trailing = TrailingHours(day)
    BY <1>5, <1>13
  <2>2. ASSUME stale = {}
        PROVE  /\ GoodCache(FoldLeft(Merged, cached, answer.boxes), day)
               /\ WholeCache(FoldLeft(Merged, cached, answer.boxes), day)
    <3>1. FoldLeft(Merged, cached, answer.boxes) = cached
      BY <1>11, <2>1, <2>2
    <3>2. \A d \in Dates(day) : FiledOn(d) # <<>> =>
            \E i \in 1 .. Len(cached) : cached[i] = Filed(d, FiledOn(d))
      BY <1>4, <1>6, <2>2 DEF Box
    <3>3. WholeCache(cached, day)
      BY <3>2, GoodIsWhole
    <3> QED
      BY <3>1, <3>3
  <2>3. ASSUME stale # {}
        PROVE  /\ GoodCache(FoldLeft(Merged, cached, answer.boxes), day)
               /\ WholeCache(FoldLeft(Merged, cached, answer.boxes), day)
    <3>1. Cardinality(stale) = 1 /\ answer.boxes \in boxes
      BY <2>1, <2>3
    <3>2. PICK d \in stale : FoldLeft(Merged, cached, answer.boxes) = Merged(cached, Box(d))
      BY <1>8, <3>1
    <3>3. stale = {d}
      <4>1. stale \subseteq {day - 1} \cup {day}
        BY DEF stale, Stale, Dates
      <4>2. IsFiniteSet({day - 1} \cup {day})
        BY FS_Singleton, FS_AddElement
      <4>3. IsFiniteSet(stale)
        BY <4>1, <4>2, FS_Subset
      <4>4. \E x : stale = {x}
        BY <3>1, <4>3, FS_Singleton
      <4> QED
        BY <4>4
    <3> DEFINE w == Merged(cached, Box(d))
    <3>4. GoodCache(w, day)
      BY <1>9
    <3>5. Box(d) \in BoxOk /\ Box(d).date = d
      BY <1>7 DEF GoodBox
    <3>6. /\ \E i \in 1 .. Len(w) : w[i] = Box(d)
          /\ \A j \in 1 .. Len(cached) :
               cached[j].date # Box(d).date => \E i \in 1 .. Len(w) : w[i] = cached[j]
      <4> DEFINE e == Box(d)
      <4>1. e \in BoxOk
        BY <3>5
      <4> HIDE DEF e
      <4> DEFINE v == Merged(cached, e)
      <4>2. /\ \E i \in 1 .. Len(v) : v[i] = e
            /\ \A j \in 1 .. Len(cached) :
                 cached[j].date # e.date => \E i \in 1 .. Len(v) : v[i] = cached[j]
        BY <1>6, <4>1, MergedTakesPlace
      <4> HIDE DEF v
      <4>3. v = w
        BY DEF v, e
      <4> QED
        BY <4>2, <4>3 DEF e
    <3> HIDE DEF w
    <3>7. ASSUME NEW e \in Dates(day), FiledOn(e) # <<>>
          PROVE  \E i \in 1 .. Len(w) : w[i] = Box(e)
      <4>1. CASE e = d
        BY <3>6, <4>1
      <4>2. CASE e # d
        <5>1. PICK j \in 1 .. Len(cached) : cached[j] = Box(e)
          BY <1>4, <1>6, <3>3, <3>7, <4>2
        <5>2. Box(e).date = e
          BY <3>7, FiledIsGood DEF Box
        <5> QED
          BY <3>5, <3>6, <4>2, <5>1, <5>2
      <4> QED
        BY <4>1, <4>2
    <3>8. WholeCache(w, day)
      BY <3>4, <3>7, GoodIsWhole DEF Box
    <3> QED
      BY <3>2, <3>4, <3>8 DEF w
  <2> QED
    BY <1>13, <2>1, <2>2, <2>3
<1> QED
  BY <1>5, <1>12, <1>13

------------------------------------------------------------------------------
(* What a call has collected *)

EarlierDays(day) == {d \in Int : d < day}

\* The ticks of the range, oldest first, from the first of each day on; of the days D
\* all that the first k of the broker's are.
Collected(out, from, to, t, k, D) ==
    /\ out \in Seq(TickSet) /\ InTime(out) /\ k \in 0 .. Len(t)
    /\ \A i \in 1 .. Len(out) : out[i] \in Within(from, to)
    /\ \A d \in Int : Leads(TickSet, Those(out, Slot(from, to, d)), Those(t, Slot(from, to, d)))
    /\ \A d \in D : Leads(TickSet, Those(SubSeq(t, 1, k), Slot(from, to, d)),
                          Those(out, Slot(from, to, d)))

OlderThan(out, day) == \A i \in 1 .. Len(out) : DateOf(out[i].time) < day

LEMMA ThoseOfNoSet == ASSUME NEW s \in Seq(TickSet) PROVE Those(s, {}) = <<>>
  BY ThoseNoneOf

LEMMA CollectedGrows ==
    ASSUME NEW out, NEW from, NEW to, NEW t \in Seq(TickSet), NEW k, NEW D,
           NEW u \in Seq(TickSet), Collected(out, from, to, t, k, D)
    PROVE  Collected(out, from, to, t \o u, k, D)
<1> DEFINE w == t \o u
           S(d) == Slot(from, to, d)
<1>1. /\ w \in Seq(TickSet) /\ Len(w) = Len(t) + Len(u) /\ Len(t) \in Nat /\ Len(u) \in Nat
  BY ConcatProperties
<1>2. /\ out \in Seq(TickSet) /\ InTime(out) /\ k \in 0 .. Len(t)
      /\ \A i \in 1 .. Len(out) : out[i] \in Within(from, to)
      /\ \A d \in Int : Leads(TickSet, Those(out, S(d)), Those(t, S(d)))
      /\ \A d \in D : Leads(TickSet, Those(SubSeq(t, 1, k), S(d)), Those(out, S(d)))
  BY DEF Collected
<1>3. k \in 0 .. Len(w)
  BY <1>1, <1>2
<1>4. SubSeq(w, 1, k) = SubSeq(t, 1, k)
  BY <1>2, SubSeqOfConcat1
<1> HIDE DEF S
<1>5. ASSUME NEW d \in Int PROVE Leads(TickSet, Those(out, S(d)), Those(w, S(d)))
  <2>1. Those(w, S(d)) = Those(t, S(d)) \o Those(u, S(d))
    BY ThoseConcat
  <2>2. /\ Those(t, S(d)) \in Seq(TickSet) /\ Those(u, S(d)) \in Seq(TickSet)
        /\ Those(out, S(d)) \in Seq(TickSet)
    BY <1>2, ThoseInSeq
  <2> QED
    BY <1>2, <2>1, <2>2, LeadsOn
<1> HIDE DEF w
<1>6. Collected(out, from, to, w, k, D)
  BY <1>2, <1>3, <1>4, <1>5 DEF Collected, S
<1> QED
  BY <1>6 DEF w

LEMMA NothingCollected ==
    ASSUME NEW from, NEW to, NEW t \in Seq(TickSet), NEW D, \A d \in D : Slot(from, to, d) = {}
    PROVE  Collected(<<>>, from, to, t, Len(t), D)
<1> DEFINE none == <<>>
<1>1. none \in Seq(TickSet) /\ Len(none) = 0 /\ Len(t) \in 0 .. Len(t) /\ InTime(none)
  <2>1. none \in Seq(TickSet) /\ Len(none) = 0
    BY EmptySeq
  <2>2. InTime(none)
    BY <2>1 DEF InTime
  <2> QED
    BY <2>1, <2>2
<1>2. \A S : Those(none, S) = none
  BY ThoseOfNone
<1>3. SubSeq(t, 1, Len(t)) = t
  BY SubSeqFull
<1>4. \A S : Leads(TickSet, none, Those(t, S))
  BY ThoseInSeq, LeadsToItself
<1>5. Leads(TickSet, none, none)
  BY <1>1, LeadsToItself
<1>6. \A d \in D : Those(t, Slot(from, to, d)) = none
  BY ThoseOfNoSet
<1> HIDE DEF none
<1> DEFINE S(d) == Slot(from, to, d)
           n == Len(t)
<1>7. \A d \in Int : Leads(TickSet, Those(none, S(d)), Those(t, S(d)))
  BY <1>2, <1>4
<1>8. \A d \in D : Leads(TickSet, Those(SubSeq(t, 1, n), S(d)), Those(none, S(d)))
  BY <1>2, <1>3, <1>5, <1>6
<1>9. \A i \in 1 .. Len(none) : none[i] \in Within(from, to)
  BY <1>1
<1>10. n \in 0 .. Len(t)
  BY <1>1
<1> HIDE DEF n
<1>11. Collected(none, from, to, t, n, D)
  BY <1>1, <1>7, <1>8, <1>9, <1>10 DEF Collected
<1> QED
  BY <1>11 DEF none, n

\* The rest of a range is of no days.
LEMMA NoLaterDays ==
    ASSUME NEW out, NEW from, NEW to \in Int, NEW t \in Seq(TickSet), NEW k,
           Collected(out, from, to, t, k, EarlierDays(DateOf(to - 1) + 1))
    PROVE  Collected(out, from, to, t, k, Int)
<1> DEFINE last == DateOf(to - 1)
           S(d) == Slot(from, to, d)
<1>1. /\ out \in Seq(TickSet) /\ InTime(out) /\ k \in 0 .. Len(t)
      /\ \A i \in 1 .. Len(out) : out[i] \in Within(from, to)
      /\ \A d \in Int : Leads(TickSet, Those(out, S(d)), Those(t, S(d)))
      /\ \A d \in EarlierDays(last + 1) : Leads(TickSet, Those(SubSeq(t, 1, k), S(d)), Those(out, S(d)))
  BY DEF Collected
<1>2. DayLength \in Nat \ {0} /\ last \in Int
  <2>1. DayLength \in Nat \ {0} /\ to - 1 \in Int
    BY TickAssumption
  <2> QED
    BY <2>1, LaterNotEarlier DEF DateOf
<1>3. ASSUME NEW d \in Int, d > last PROVE S(d) = {}
  <2>1. ASSUME NEW x \in S(d) PROVE FALSE
    <3>1. x \in TickSet /\ x.time < to /\ DateOf(x.time) = d
      BY <2>1 DEF Slot, Within, OnDate
    <3>2. x.time \in Int
      BY <3>1, TicksAre
    <3>3. x.time <= to - 1 /\ to - 1 \in Int
      BY <3>1, <3>2
    <3>4. DateOf(x.time) <= DateOf(to - 1)
      BY <1>2, <3>2, <3>3, LaterNotEarlier DEF DateOf
    <3> QED
      BY <1>2, <1>3, <3>1, <3>4
  <2> QED
    BY <2>1
<1> HIDE DEF S, last
<1>4. SubSeq(t, 1, k) \in Seq(TickSet)
  BY <1>1
<1>5. ASSUME NEW d \in Int
      PROVE  Leads(TickSet, Those(SubSeq(t, 1, k), S(d)), Those(out, S(d)))
  <2>1. CASE d < last + 1
    BY <1>1, <2>1 DEF EarlierDays
  <2>2. CASE ~(d < last + 1)
    <3>1. S(d) = {}
      BY <1>2, <1>3, <2>2
    <3>2. Those(SubSeq(t, 1, k), S(d)) = <<>> /\ Those(out, S(d)) = <<>>
      BY <1>1, <1>4, <3>1, ThoseOfNoSet
    <3>3. Leads(TickSet, <<>>, <<>>)
      BY EmptySeq, LeadsToItself
    <3> QED
      BY <3>2, <3>3
  <2> QED
    BY <2>1, <2>2
<1> QED
  BY <1>1, <1>5 DEF Collected, S

\* A day more.
LEMMA DayCollected ==
    ASSUME NEW out, NEW from, NEW to, NEW t \in Seq(TickSet), NEW k, NEW day \in Int, InTime(t),
           Collected(out, from, to, t, k, EarlierDays(day)), OlderThan(out, day)
    PROVE  /\ Collected(out \o Those(t, Slot(from, to, day)), from, to, t, k, EarlierDays(day + 1))
           /\ OlderThan(out \o Those(t, Slot(from, to, day)), day + 1)
<1> DEFINE S(d) == Slot(from, to, d)
           q == Those(t, S(day))
           w == out \o q
           n == Len(out)
           m == Len(q)
<1>1. /\ out \in Seq(TickSet) /\ InTime(out) /\ k \in 0 .. Len(t)
      /\ \A i \in 1 .. n : out[i] \in Within(from, to)
      /\ \A d \in Int : Leads(TickSet, Those(out, S(d)), Those(t, S(d)))
      /\ \A d \in EarlierDays(day) : Leads(TickSet, Those(SubSeq(t, 1, k), S(d)), Those(out, S(d)))
  BY DEF Collected
<1>2. q \in Seq(TickSet) /\ InTime(q)
  BY ThoseInSeq, ThoseInTime
<1>3. \A j \in 1 .. m : q[j] \in S(day)
  BY ThoseElements
<1>4. \A d : S(d) = Within(from, to) \intersect OnDate(d)
  BY DEF Slot
<1>5. \A i \in 1 .. n : out[i] \in TickSet /\ DateOf(out[i].time) < day /\ out[i] \notin S(day)
  <2> TAKE i \in 1 .. n
  <2>1. out[i] \in TickSet /\ DateOf(out[i].time) < day
    BY <1>1 DEF OlderThan
  <2>2. DateOf(out[i].time) \in Int
    BY <2>1, DatesAre
  <2>3. DateOf(out[i].time) # day
    BY <2>1, <2>2
  <2> QED
    BY <1>4, <2>1, <2>3 DEF OnDate
<1>6. n \in Nat /\ m \in Nat
  BY <1>1, <1>2
<1> HIDE DEF S, q, n, m
<1>7. \A j \in 1 .. m : /\ q[j] \in TickSet /\ q[j] \in Within(from, to)
                        /\ DateOf(q[j].time) = day
  BY <1>3, <1>4 DEF OnDate, Within
<1>8. InTime(w)
  <2>1. ASSUME NEW i \in 1 .. n, NEW j \in 1 .. m PROVE out[i].time <= q[j].time
    <3>1. out[i].time \in Int /\ q[j].time \in Int
      BY <1>5, <1>7, TicksAre
    <3>2. DateOf(out[i].time) < DateOf(q[j].time)
      BY <1>5, <1>7
    <3>3. DayLength \in Nat \ {0}
      BY TickAssumption
    <3>4. q[j].time <= out[i].time => DateOf(q[j].time) <= DateOf(out[i].time)
      BY <3>1, <3>3, LaterNotEarlier DEF DateOf
    <3>5. DateOf(q[j].time) \in Int /\ DateOf(out[i].time) \in Int
      BY <1>5, <1>7, DatesAre
    <3> QED
      BY <3>1, <3>2, <3>4, <3>5
  <2> QED
    BY <1>1, <1>2, <2>1, InTimeJoined DEF n, m
<1>9. /\ w \in Seq(TickSet) /\ Len(w) = n + m
      /\ \A i \in 1 .. n + m : w[i] = IF i <= n THEN out[i] ELSE q[i - n]
  BY <1>1, <1>2, ConcatProperties DEF n, m
<1>10. \A d : Those(w, S(d)) = Those(out, S(d)) \o Those(q, S(d))
  <2> TAKE d
  <2> DEFINE P == S(d)
  <2> HIDE DEF P
  <2>0. \A x, y \in Seq(TickSet) : Those(x \o y, P) = Those(x, P) \o Those(y, P)
    BY ThoseConcat
  <2>1. Those(out \o q, P) = Those(out, P) \o Those(q, P)
    BY <1>1, <1>2, <2>0
  <2> QED
    BY <2>1 DEF P
<1> HIDE DEF w
<1>11. ASSUME NEW i \in 1 .. Len(w) PROVE w[i] \in Within(from, to) /\ DateOf(w[i].time) < day + 1
  <2>1. CASE i <= n
    <3>1. i \in 1 .. n /\ w[i] = out[i]
      BY <1>6, <1>9, <2>1
    <3>2. DateOf(out[i].time) \in Int
      BY <1>5, <3>1, DatesAre
    <3> QED
      BY <1>1, <1>5, <3>1, <3>2
  <2>2. CASE i > n
    <3> DEFINE j == i - n
    <3>1. j \in 1 .. m /\ w[i] = q[j]
      BY <1>6, <1>9, <2>2
    <3> HIDE DEF j
    <3> QED
      BY <1>7, <3>1
  <2> QED
    BY <1>6, <1>9, <2>1, <2>2
<1>12. \A d \in Int : d # day => Those(w, S(d)) = Those(out, S(d))
  <2> TAKE d \in Int
  <2>1. SUFFICES ASSUME d # day
                 PROVE  Those(w, S(d)) = Those(out, S(d))
    OBVIOUS
  <2>2. \A j \in 1 .. Len(q) : q[j] \notin S(d)
    BY <1>4, <1>7, <2>1 DEF OnDate, m
  <2>3. Those(q, S(d)) = <<>>
    BY <1>2, <2>2, ThoseNoneOf
  <2>4. Those(out, S(d)) \in Seq(TickSet)
    BY <1>1, ThoseInSeq
  <2> QED
    BY <1>10, <2>3, <2>4, ConcatEmptySeq
<1>13. Those(w, S(day)) = q
  <2>1. Those(out, S(day)) = <<>>
    BY <1>1, <1>5, ThoseNoneOf DEF n
  <2>2. Those(q, S(day)) = q
    BY <1>2, <1>3, ThoseAll DEF m
  <2> QED
    BY <1>2, <1>10, <2>1, <2>2, ConcatEmptySeq
<1>14. \A d \in Int : Leads(TickSet, Those(w, S(d)), Those(t, S(d)))
  <2>1. Leads(TickSet, q, q)
    BY <1>2, LeadsToItself
  <2> QED
    BY <1>1, <1>12, <1>13, <2>1 DEF q
<1>15. Leads(TickSet, Those(SubSeq(t, 1, k), S(day)), q)
  <2> DEFINE f == SubSeq(t, 1, k)
             g == SubSeq(t, k + 1, Len(t))
  <2>1. f \in Seq(TickSet) /\ g \in Seq(TickSet) /\ f \o g = t
    <3>1. k \in 1 - 1 .. Len(t) /\ 1 \in 1 .. Len(t) + 1 /\ Len(t) \in k .. Len(t) /\ k + 1 \in Nat
      BY <1>1
    <3>2. f \o g = SubSeq(t, 1, Len(t))
      BY <3>1, ConcatAdjacentSubSeq
    <3>3. SubSeq(t, 1, Len(t)) = t
      BY SubSeqFull
    <3>4. f \in Seq(TickSet)
      BY <1>1
    <3>5. g \in Seq(TickSet)
      <4> DEFINE h == k + 1
      <4>1. h \in 1 .. Len(t) + 1
        BY <1>1
      <4>2. SubSeq(t, h, Len(t)) \in Seq(TickSet)
        BY <4>1
      <4> QED
        BY <4>2
    <3> QED
      BY <3>2, <3>3, <3>4, <3>5
  <2> HIDE DEF f, g
  <2>2. Leads(TickSet, f, t)
    BY <2>1 DEF Leads
  <2>3. Leads(TickSet, Those(f, S(day)), Those(t, S(day)))
    BY <2>1, <2>2, ThoseLead
  <2> QED
    BY <2>3 DEF f, q
<1>16. \A d \in EarlierDays(day + 1) : Leads(TickSet, Those(SubSeq(t, 1, k), S(d)), Those(w, S(d)))
  <2> TAKE d \in EarlierDays(day + 1)
  <2>1. d \in Int /\ (d = day \/ (d # day /\ d \in EarlierDays(day)))
    BY DEF EarlierDays
  <2>2. CASE d = day
    BY <1>13, <1>15, <2>2
  <2>3. CASE d # day /\ d \in EarlierDays(day)
    BY <1>1, <1>12, <2>1, <2>3
  <2> QED
    BY <2>1, <2>2, <2>3
<1>17. Collected(w, from, to, t, k, EarlierDays(day + 1))
  BY <1>1, <1>8, <1>9, <1>11, <1>14, <1>16 DEF Collected, S
<1>18. OlderThan(w, day + 1)
  BY <1>11 DEF OlderThan
<1> QED
  BY <1>17, <1>18 DEF w, q, S

------------------------------------------------------------------------------
(* The invariant *)

Caches(c, day, f) ==
    /\ c \in Seq(BoxOk) /\ OnePerDate(c)
    /\ \A i \in 1 .. Len(c) : c[i].date \in Dates(day) /\ On(f, c[i].date) # <<>>

CallSet == [phase : {"idle", "asking", "done", "failed"}, from : Int, to : Int, day : Int,
            pages : Nat, cached : Seq(BoxOk), output : Seq(TickSet), known : Nat]

\* While a call asks, the days before the one it asks for are complete; in the end all are.
CallOk(c, t, f) ==
    /\ c \in CallSet
    /\ c.phase = "asking" =>
         /\ Collected(c.output, c.from, c.to, t, c.known, EarlierDays(c.day))
         /\ OlderThan(c.output, c.day) /\ Caches(c.cached, c.day, SubSeq(t, 1, f))
    /\ c.phase = "done" => Collected(c.output, c.from, c.to, t, c.known, Int)

TicksInv == MarketOk /\ CallOk(call, ticks, filed)

LEMMA NoCallOk ==
    /\ NoCall \in CallSet
    /\ \A t, f : CallOk([NoCall EXCEPT !.phase = "failed"], t, f) /\ CallOk(NoCall, t, f)
<1>1. <<>> \in Seq(BoxOk) /\ <<>> \in Seq(TickSet)
  BY EmptySeq
<1>2. NoCall \in CallSet /\ NoCall.phase = "idle"
  BY <1>1 DEF NoCall, CallSet
<1> DEFINE c == [NoCall EXCEPT !.phase = "failed"]
<1>3. c \in CallSet /\ c.phase = "failed"
  BY <1>2 DEF CallSet
<1> HIDE DEF c
<1>4. \A t, f : CallOk(c, t, f) /\ CallOk(NoCall, t, f)
  BY <1>2, <1>3 DEF CallOk
<1> QED
  BY <1>2, <1>4 DEF c

LEMMA TicksAtFirst == TicksInit => TicksInv
<1> SUFFICES ASSUME TicksInit
             PROVE  TicksInv
  OBVIOUS
<1>1. ticks = <<>> /\ filed = 0 /\ call = NoCall
  BY DEF TicksInit
<1>2. <<>> \in Seq(TickSet) /\ Len(<<>>) = 0
  BY EmptySeq
<1>3. InTime(<<>>)
  BY <1>2 DEF InTime
<1>4. MarketOk
  BY <1>1, <1>2, <1>3 DEF MarketOk
<1>5. CallOk(call, ticks, filed)
  BY <1>1, NoCallOk
<1> QED
  BY <1>4, <1>5 DEF TicksInv

\* More ticks, or more of them in containers: what was filed of a date still is.
LEMMA CacheStays ==
    ASSUME NEW f \in Seq(TickSet), NEW g \in Seq(TickSet), Leads(TickSet, f, g),
           NEW c, NEW day, Caches(c, day, f)
    PROVE  Caches(c, day, g)
<1>1. ASSUME NEW d, On(f, d) # <<>> PROVE On(g, d) # <<>>
  <2>1. On(f, d) = Those(f, OnDate(d)) /\ On(g, d) = Those(g, OnDate(d)) /\ On(f, d) \in Seq(TickSet)
    BY OnIsThose
  <2>2. Leads(TickSet, Those(f, OnDate(d)), Those(g, OnDate(d)))
    BY ThoseLead
  <2>3. PICK u \in Seq(TickSet) : On(g, d) = On(f, d) \o u
    BY <2>1, <2>2 DEF Leads
  <2> QED
    BY <1>1, <2>1, <2>3, ConcatEqualIffEmpty
<1> QED
  BY <1>1 DEF Caches

LEMMA GoodIsCaches ==
    ASSUME NEW c, NEW day
    PROVE  GoodCache(c, day) <=> Caches(c, day, SubSeq(ticks, 1, filed))
  BY DEF GoodCache, Caches, FiledOn

LEMMA CallStays ==
    ASSUME NEW c, NEW t \in Seq(TickSet), NEW u \in Seq(TickSet), NEW f \in 0 .. Len(t),
           NEW g \in f .. Len(t) + Len(u), CallOk(c, t, f)
    PROVE  CallOk(c, t \o u, g)
<1> DEFINE w == t \o u
           a == SubSeq(t, 1, f)
           b == SubSeq(w, 1, g)
<1>1. w \in Seq(TickSet) /\ Len(w) = Len(t) + Len(u) /\ Len(t) \in Nat /\ Len(u) \in Nat
  BY ConcatProperties
<1>2. a \in Seq(TickSet) /\ b \in Seq(TickSet)
  BY <1>1
<1>3. Leads(TickSet, a, b)
  <2> DEFINE v == SubSeq(w, f + 1, g)
  <2>1. SubSeq(w, 1, f) = a
    BY <1>1, SubSeqOfConcat1
  <2>2. f \in 1 - 1 .. Len(w) /\ 1 \in 1 .. Len(w) + 1 /\ g \in f .. Len(w) /\ f + 1 \in 1 .. Len(w) + 1
    BY <1>1
  <2>3. SubSeq(w, 1, f) \o v = b
    BY <1>1, <2>2, ConcatAdjacentSubSeq
  <2>4. v \in Seq(TickSet)
    <3> DEFINE h == f + 1
    <3>1. h \in 1 .. Len(w) + 1 /\ h \in Nat /\ g \in Nat /\ g <= Len(w)
      BY <1>1, <2>2
    <3> HIDE DEF h, w
    <3>2. SubSeq(w, h, g) \in Seq(TickSet)
      BY <1>1, <3>1
    <3> QED
      BY <3>2 DEF h
  <2> QED
    BY <2>1, <2>3, <2>4 DEF Leads
<1> HIDE DEF w, a, b
<1>4. c \in CallSet
  BY DEF CallOk
<1>5. ASSUME c.phase = "asking"
      PROVE  /\ Collected(c.output, c.from, c.to, w, c.known, EarlierDays(c.day))
             /\ OlderThan(c.output, c.day) /\ Caches(c.cached, c.day, b)
  <2>1. /\ Collected(c.output, c.from, c.to, t, c.known, EarlierDays(c.day))
        /\ OlderThan(c.output, c.day) /\ Caches(c.cached, c.day, a)
    BY <1>5 DEF CallOk, a
  <2>2. Collected(c.output, c.from, c.to, w, c.known, EarlierDays(c.day))
    BY <2>1, CollectedGrows DEF w
  <2>3. Caches(c.cached, c.day, b)
    BY <1>2, <1>3, <2>1, CacheStays
  <2> QED
    BY <2>1, <2>2, <2>3
<1>6. ASSUME c.phase = "done"
      PROVE  Collected(c.output, c.from, c.to, w, c.known, Int)
  <2>1. Collected(c.output, c.from, c.to, t, c.known, Int)
    BY <1>6 DEF CallOk
  <2> QED
    BY <2>1, CollectedGrows DEF w
<1>7. CallOk(c, w, g)
  BY <1>4, <1>5, <1>6 DEF CallOk, b
<1> QED
  BY <1>7 DEF w

LEMMA NewTickInv ==
    ASSUME TicksInv, NEW time \in 0 .. LastTime, NEW price \in TickPrices, NewTick(time, price)
    PROVE  TicksInv'
<1> DEFINE e == [time |-> time, price |-> price]
           u == <<e>>
           n == Len(ticks)
           w == Append(ticks, e)
<1>1. /\ ticks' = w /\ filed' = filed /\ call' = call
      /\ n > 0 => time >= ticks[n].time
  BY DEF NewTick
<1>2. /\ ticks \in Seq(TickSet) /\ InTime(ticks) /\ filed \in 0 .. n /\ n \in Nat
      /\ CallOk(call, ticks, filed)
  BY DEF TicksInv, MarketOk
<1>3. e \in TickSet /\ e.time = time
  BY DEF TickSet
<1> HIDE DEF e
<1>4. u \in Seq(TickSet) /\ Len(u) = 1 /\ u[1] = e
  BY <1>3
<1>5. w = ticks \o u
  BY <1>2, <1>3
<1>6. InTime(w)
  <2>1. InTime(u)
    BY <1>4 DEF InTime
  <2>2. ASSUME NEW i \in 1 .. Len(ticks), NEW j \in 1 .. Len(u) PROVE ticks[i].time <= u[j].time
    <3>1. u[j] = e
      BY <1>4
    <3>2. n > 0 /\ n \in 1 .. n /\ i \in 1 .. n /\ (i = n \/ i < n)
      BY <1>2
    <3>3. ticks[i].time \in Int /\ ticks[n].time \in Int /\ time \in Int
      BY <1>2, <3>2, TicksAre
    <3>4. ticks[i].time <= ticks[n].time
      BY <1>2, <3>2, <3>3 DEF InTime
    <3>5. ticks[n].time <= time
      BY <1>1, <3>2, <3>3
    <3> QED
      BY <1>3, <3>1, <3>3, <3>4, <3>5
  <2> QED
    BY <1>2, <1>4, <1>5, <2>1, <2>2, InTimeJoined
<1>7. w \in Seq(TickSet) /\ Len(w) = n + 1
  BY <1>2, <1>3
<1>8. CallOk(call, ticks \o u, filed)
  <2>1. filed \in filed .. Len(ticks) + Len(u)
    BY <1>2, <1>4
  <2> HIDE DEF u
  <2> QED
    BY <1>2, <1>4, <2>1, CallStays
<1> HIDE DEF w, n
<1>9. MarketOk'
  <2>1. filed \in 0 .. Len(w)
    BY <1>2, <1>7
  <2> QED
    BY <1>1, <1>6, <1>7, <2>1 DEF MarketOk
<1> QED
  BY <1>1, <1>5, <1>8, <1>9 DEF TicksInv

LEMMA FileTicksInv ==
    ASSUME TicksInv, NEW upTo \in filed + 1 .. Len(ticks), FileTicks(upTo)
    PROVE  TicksInv'
<1>1. ticks' = ticks /\ filed' = upTo /\ call' = call
  BY DEF FileTicks
<1>2. /\ ticks \in Seq(TickSet) /\ InTime(ticks) /\ filed \in 0 .. Len(ticks) /\ Len(ticks) \in Nat
      /\ CallOk(call, ticks, filed)
  BY DEF TicksInv, MarketOk
<1> DEFINE none == <<>>
<1>3. none \in Seq(TickSet) /\ Len(none) = 0 /\ ticks \o none = ticks
  BY <1>2, EmptySeq, ConcatEmptySeq
<1> HIDE DEF none
<1>4. upTo \in filed .. Len(ticks) + Len(none) /\ upTo \in 0 .. Len(ticks)
  BY <1>2, <1>3
<1>5. CallOk(call, ticks \o none, upTo)
  BY <1>2, <1>3, <1>4, CallStays
<1> QED
  BY <1>1, <1>2, <1>3, <1>4, <1>5 DEF TicksInv, MarketOk

\* What a step of the client leaves to show.
LEMMA ClientStep ==
    ASSUME TicksInv, UNCHANGED <<ticks, filed>>, CallOk(call', ticks, filed)
    PROVE  TicksInv'
  BY DEF TicksInv, MarketOk

LEMMA FailInv == ASSUME TicksInv, UNCHANGED <<ticks, filed>>, Fail PROVE TicksInv'
<1>1. CallOk(call', ticks, filed)
  BY NoCallOk DEF Fail
<1> QED
  BY <1>1, ClientStep

LEMMA AskTicksInv ==
    ASSUME TicksInv, NEW from \in Int, NEW to \in Int, AskTicks(from, to)
    PROVE  TicksInv'
<1>1. UNCHANGED <<ticks, filed>>
  BY DEF AskTicks
<1>2. ticks \in Seq(TickSet) /\ Len(ticks) \in Nat /\ DayLength \in Nat \ {0}
  BY TickAssumption DEF TicksInv, MarketOk
<1>3. CASE from < to /\ ~Allowed(from, to)
  BY <1>1, <1>3, FailInv DEF AskTicks
<1>4. CASE ~(from < to /\ ~Allowed(from, to))
  <2> DEFINE c == [NoCall EXCEPT !.phase = IF from >= to THEN "done" ELSE "asking",
                                 !.from = from, !.to = to, !.day = DateOf(from),
                                 !.known = Len(ticks)]
  <2>1. call' = c
    BY <1>4 DEF AskTicks
  <2>2. DateOf(from) \in Int
    BY <1>2, LaterNotEarlier DEF DateOf
  <2>3. <<>> \in Seq(BoxOk) /\ <<>> \in Seq(TickSet)
    BY EmptySeq
  <2>4. /\ c.phase = (IF from >= to THEN "done" ELSE "asking")
        /\ c.from = from /\ c.to = to /\ c.day = DateOf(from) /\ c.known = Len(ticks)
        /\ c.cached = <<>> /\ c.output = <<>>
    BY DEF NoCall
  <2>5. c \in CallSet
    BY <1>2, <2>2, <2>3 DEF NoCall, CallSet
  <2> HIDE DEF c
  <2>6. \A x \in TickSet : x.time \in Int
    BY TicksAre
  <2>7. ASSUME from >= to PROVE Collected(<<>>, from, to, ticks, Len(ticks), Int)
    <3>1. \A d \in Int : Slot(from, to, d) = {}
      BY <2>6, <2>7 DEF Slot, Within
    <3> QED
      BY <1>2, <3>1, NothingCollected
  <2>8. Collected(<<>>, from, to, ticks, Len(ticks), EarlierDays(DateOf(from)))
    <3>1. ASSUME NEW d \in EarlierDays(DateOf(from)), NEW x \in Slot(from, to, d) PROVE FALSE
      <4>1. x \in TickSet /\ from <= x.time /\ DateOf(x.time) = d /\ d \in Int /\ d < DateOf(from)
        BY <3>1 DEF Slot, Within, OnDate, EarlierDays
      <4>2. DateOf(from) <= DateOf(x.time)
        BY <1>2, <2>6, <4>1, LaterNotEarlier DEF DateOf
      <4> QED
        BY <2>2, <4>1, <4>2
    <3>2. \A d \in EarlierDays(DateOf(from)) : Slot(from, to, d) = {}
      BY <3>1
    <3> QED
      BY <1>2, <3>2, NothingCollected
  <2>9. OlderThan(<<>>, DateOf(from)) /\ \A f : Caches(<<>>, DateOf(from), f)
    <3>1. Len(<<>>) = 0
      OBVIOUS
    <3> QED
      BY <2>3, <3>1 DEF OlderThan, Caches, OnePerDate
  <2>10. CallOk(c, ticks, filed)
    BY <2>4, <2>5, <2>7, <2>8, <2>9 DEF CallOk
  <2> QED
    BY <1>1, <2>1, <2>10, ClientStep
<1> QED
  BY <1>3, <1>4

LEMMA AnswerTicksInv ==
    ASSUME TicksInv, AnswerTicks
    PROVE  TicksInv'
<1>1. PICK answer \in Answers(call.day, call.cached) : TicksAnswered(answer)
  BY DEF AnswerTicks
<1> DEFINE cached == FoldLeft(Merged, call.cached, answer.boxes)
           output == WithDay(cached, answer.trailing)
           day == call.day
<1>2. /\ UNCHANGED <<ticks, filed>> /\ call.phase = "asking"
      /\ \/ Fail
         \/ answer.more /\ MoreFollows(cached)
         \/ ~answer.more /\ DayComplete(output)
  BY <1>1 DEF TicksAnswered
<1> HIDE DEF cached, output
<1>3. /\ MarketOk /\ ticks \in Seq(TickSet) /\ InTime(ticks)
      /\ call \in CallSet /\ day \in Int /\ call.pages \in Nat /\ call.to \in Int
      /\ Collected(call.output, call.from, call.to, ticks, call.known, EarlierDays(day))
      /\ OlderThan(call.output, day) /\ GoodCache(call.cached, day)
  BY <1>2, GoodIsCaches DEF TicksInv, CallOk, CallSet, MarketOk
<1>4. /\ GoodCache(cached, day)
      /\ ~answer.more => WholeCache(cached, day) /\ answer.trailing = TrailingHours(day)
  BY <1>1, <1>3, AnswersGood DEF cached
<1>5. CASE Fail
  BY <1>2, <1>5, FailInv
<1>6. CASE answer.more /\ MoreFollows(cached)
  <2>1. Fail \/ call' = [call EXCEPT !.pages = @ + 1, !.cached = cached]
    BY <1>6 DEF MoreFollows
  <2>2. CASE Fail
    BY <1>2, <2>2, FailInv
  <2>3. CASE call' = [call EXCEPT !.pages = @ + 1, !.cached = cached]
    <3> DEFINE c == [call EXCEPT !.pages = @ + 1, !.cached = cached]
    <3>1. cached \in Seq(BoxOk) /\ Caches(cached, day, SubSeq(ticks, 1, filed))
      BY <1>4, GoodIsCaches DEF GoodCache
    <3>2. c \in CallSet
      <4> DEFINE p == call.pages + 1
      <4>1. p \in Nat /\ c = [call EXCEPT !.pages = p, !.cached = cached]
        BY <1>3
      <4> HIDE DEF p, c, day
      <4> QED
        BY <1>3, <3>1, <4>1 DEF CallSet
    <3>3. /\ c.phase = "asking" /\ c.from = call.from /\ c.to = call.to /\ c.day = day
          /\ c.cached = cached /\ c.output = call.output /\ c.known = call.known
      BY <1>2, <1>3 DEF CallSet
    <3> HIDE DEF c
    <3>4. CallOk(c, ticks, filed)
      BY <1>3, <3>1, <3>2, <3>3 DEF CallOk
    <3> QED
      BY <1>2, <2>3, <3>4, ClientStep DEF c
  <2> QED
    BY <2>1, <2>2, <2>3
<1>7. CASE ~answer.more /\ DayComplete(output)
  <2> DEFINE last == DateOf(call.to - 1)
  <2>1. output = call.output \o Those(ticks, Slot(call.from, call.to, day))
    BY <1>3, <1>4, <1>7, DayIsWhole DEF output
  <2>2. /\ Collected(output, call.from, call.to, ticks, call.known, EarlierDays(day + 1))
        /\ OlderThan(output, day + 1)
    BY <1>3, <2>1, DayCollected
  <2>3. output \in Seq(TickSet) /\ InTime(output)
    BY <2>2 DEF Collected
  <2>4. Fail \/ call' = AfterDay(output)
    BY <1>7 DEF DayComplete
  <2>5. CASE Fail
    BY <1>2, <2>5, FailInv
  <2>6. CASE call' = AfterDay(output) /\ last = day
    <3>1. SortedBy([i \in DOMAIN output |-> output[i].time], output) = output
      <4> DEFINE keys == [i \in DOMAIN output |-> output[i].time]
      <4>1. \A i \in 1 .. Len(output) : keys[i] = output[i].time /\ keys[i] \in Int
        BY <2>3, TicksAre
      <4>2. \A i, j \in 1 .. Len(output) : i < j => keys[i] <= keys[j]
        BY <2>3, <4>1 DEF InTime
      <4> HIDE DEF keys
      <4>3. SortedBy(keys, output) = output
        BY <2>3, <4>1, <4>2, SortedStays
      <4> QED
        BY <4>3 DEF keys
    <3> DEFINE c == [call EXCEPT !.phase = "done", !.cached = <<>>, !.output = output]
    <3>2. call' = c
      BY <2>6, <3>1 DEF AfterDay, Return
    <3>3. <<>> \in Seq(BoxOk)
      BY EmptySeq
    <3>4. c \in CallSet
      BY <1>3, <2>3, <3>3 DEF CallSet
    <3>5. /\ c.phase = "done" /\ c.from = call.from /\ c.to = call.to
          /\ c.output = output /\ c.known = call.known
      BY <1>3 DEF CallSet
    <3>6. Collected(output, call.from, call.to, ticks, call.known, Int)
      BY <1>3, <2>2, <2>6, NoLaterDays
    <3> HIDE DEF c
    <3>7. CallOk(c, ticks, filed)
      BY <3>4, <3>5, <3>6 DEF CallOk
    <3> QED
      BY <1>2, <3>2, <3>7, ClientStep
  <2>7. CASE call' = AfterDay(output) /\ last # day
    <3> DEFINE c == [call EXCEPT !.day = @ + 1, !.pages = 0, !.cached = <<>>, !.output = output]
    <3>1. call' = c
      BY <2>7 DEF AfterDay
    <3>2. <<>> \in Seq(BoxOk) /\ Len(<<>>) = 0
      BY EmptySeq
    <3>3. c \in CallSet
      <4> DEFINE d == call.day + 1
                 none == <<>>
      <4>1. d \in Int /\ c = [call EXCEPT !.day = d, !.pages = 0, !.cached = none, !.output = output]
        BY <1>3
      <4>2. none \in Seq(BoxOk) /\ 0 \in Nat
        BY <3>2
      <4> HIDE DEF d, c, day, none
      <4> QED
        BY <1>3, <2>3, <4>1, <4>2 DEF CallSet
    <3>4. /\ c.phase = "asking" /\ c.from = call.from /\ c.to = call.to /\ c.day = day + 1
          /\ c.cached = <<>> /\ c.output = output /\ c.known = call.known
      BY <1>2, <1>3 DEF CallSet
    <3>5. \A e, f : Caches(<<>>, e, f)
      BY <3>2 DEF Caches, OnePerDate
    <3> HIDE DEF c
    <3>6. CallOk(c, ticks, filed)
      BY <2>2, <3>3, <3>4, <3>5 DEF CallOk
    <3> QED
      BY <1>2, <3>1, <3>6, ClientStep
  <2> QED
    BY <2>4, <2>5, <2>6, <2>7
<1> QED
  BY <1>2, <1>5, <1>6, <1>7

LEMMA TicksStep == TicksInv /\ [TicksNext]_market => TicksInv'
<1> SUFFICES ASSUME TicksInv, [TicksNext]_market
             PROVE  TicksInv'
  OBVIOUS
<1>1. CASE \E time \in 0 .. LastTime, price \in TickPrices : NewTick(time, price)
  BY <1>1, NewTickInv
<1>2. CASE \E upTo \in filed + 1 .. Len(ticks) : FileTicks(upTo)
  BY <1>2, FileTicksInv
<1>3. CASE \E range \in Ranges : AskTicks(range[1], range[2])
  <2>1. PICK range \in Ranges : AskTicks(range[1], range[2])
    BY <1>3
  <2>2. range[1] \in Int /\ range[2] \in Int
    BY TickAssumption
  <2> QED
    BY <2>1, <2>2, AskTicksInv
<1>4. CASE AnswerTicks
  BY <1>4, AnswerTicksInv
<1>5. CASE TicksFailed
  BY <1>5, FailInv DEF TicksFailed
<1>6. CASE UNCHANGED market
  BY <1>6 DEF market, TicksInv, MarketOk
<1> QED
  BY <1>1, <1>2, <1>3, <1>4, <1>5, <1>6 DEF TicksNext

LEMMA TicksInvIsEnough == TicksInv => TicksComplete
<1> SUFFICES ASSUME TicksInv, call.phase = "done"
             PROVE  /\ InRange(call.output) = call.output
                    /\ \A i, j \in DOMAIN call.output :
                         i < j => call.output[i].time <= call.output[j].time
                    /\ \A day \in {DateOf(t) : t \in 0 .. LastTime} :
                         /\ IsPrefix(OnDay(call.output, day), OnDay(ticks, day))
                         /\ IsPrefix(OnDay(SubSeq(ticks, 1, call.known), day),
                                     OnDay(call.output, day))
  BY DEF TicksComplete
<1> DEFINE out == call.output
           known == SubSeq(ticks, 1, call.known)
           S(d) == Slot(call.from, call.to, d)
<1>1. /\ ticks \in Seq(TickSet) /\ out \in Seq(TickSet) /\ InTime(out)
      /\ call.known \in 0 .. Len(ticks)
      /\ \A i \in 1 .. Len(out) : out[i] \in Within(call.from, call.to)
      /\ \A d \in Int : Leads(TickSet, Those(out, S(d)), Those(ticks, S(d)))
      /\ \A d \in Int : Leads(TickSet, Those(known, S(d)), Those(out, S(d)))
  BY DEF TicksInv, MarketOk, CallOk, Collected
<1>2. known \in Seq(TickSet)
  BY <1>1
<1>3. InRange(out) = out
  <2>1. InRange(out) = Those(out, Within(call.from, call.to))
    BY <1>1, InRangeIsThose
  <2> QED
    BY <1>1, <2>1, ThoseAll
<1>4. \A i, j \in DOMAIN out : i < j => out[i].time <= out[j].time
  BY <1>1 DEF InTime
<1> HIDE DEF out, known, S
<1>5. ASSUME NEW d \in Int
      PROVE  IsPrefix(OnDay(out, d), OnDay(ticks, d)) /\ IsPrefix(OnDay(known, d), OnDay(out, d))
  <2>1. /\ OnDay(out, d) = Those(out, S(d)) /\ OnDay(out, d) \in Seq(TickSet)
        /\ OnDay(ticks, d) = Those(ticks, S(d)) /\ OnDay(ticks, d) \in Seq(TickSet)
        /\ OnDay(known, d) = Those(known, S(d)) /\ OnDay(known, d) \in Seq(TickSet)
    BY <1>1, <1>2, OnDayIsThose DEF S
  <2>2. Leads(TickSet, OnDay(out, d), OnDay(ticks, d)) /\ Leads(TickSet, OnDay(known, d), OnDay(out, d))
    BY <1>1, <2>1
  <2> QED
    BY <2>1, <2>2, LeadsIsPrefix
<1>6. \A day \in {DateOf(t) : t \in 0 .. LastTime} : day \in Int
  <2>1. ASSUME NEW t \in 0 .. LastTime PROVE DateOf(t) \in Int
    <3>1. t \in Int /\ DayLength \in Nat \ {0}
      BY TickAssumption
    <3> QED
      BY <3>1, LaterNotEarlier DEF DateOf
  <2> QED
    BY <2>1
<1>7. \A day \in {DateOf(t) : t \in 0 .. LastTime} :
        /\ IsPrefix(OnDay(out, day), OnDay(ticks, day))
        /\ IsPrefix(OnDay(known, day), OnDay(out, day))
  BY <1>5, <1>6
<1> QED
  BY <1>3, <1>4, <1>7 DEF out, known

\* Whatever ticks arrive and are filed between the pages, and whatever containers the broker
\* answers with, `ticks` returns for each day of its range the broker's ticks from the first
\* on, once each and with the prices they had, and none of those that were there when it was
\* called is left out.
THEOREM TicksAreWhole == TicksSpec => []TicksComplete
<1>1. TicksInit => TicksInv
  BY TicksAtFirst
<1>2. TicksInv /\ [TicksNext]_market => TicksInv'
  BY TicksStep
<1>3. TicksInv => TicksComplete
  BY TicksInvIsEnough
<1> QED
  BY <1>1, <1>2, <1>3, PTL DEF TicksSpec

=============================================================================
