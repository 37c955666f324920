----------------------------- MODULE ListProofs -----------------------------
(***************************************************************************)
(* Facts about folds and filtered lists that the other proofs rest on.     *)
(*                                                                         *)
(* FoldLeft is a recursive function on the sets of positions.  That this   *)
(* recursion has a solution (FoldSolution) is what lets a proof unfold it  *)
(* step by step; Induction then carries a fact from the empty list to the  *)
(* whole one.                                                              *)
(***************************************************************************)
EXTENDS Lists, SequenceTheorems, WellFoundedInduction, TLAPS

LEMMA Smallest ==
  ASSUME NEW S, S \subseteq Nat, S # {}
  PROVE  \E n \in S : \A m \in S : n <= m
<1>1. PICK n \in S : \A m \in S : ~ (<<m, n>> \in OpToRel(<, Nat))
  BY NatLessThanWellFounded, WFMin
<1>2. \A m \in S : ~ (m < n)
  BY <1>1 DEF OpToRel
<1>3. QED
  BY <1>2

LEMMA MinOf ==
  ASSUME NEW S, S \subseteq Nat, S # {}
  PROVE  Min(S) \in S /\ \A m \in S : Min(S) <= m
<1>1. \E n \in S : \A m \in S : n <= m
  BY Smallest
<1>2. QED
  BY <1>1 DEF Min

LEMMA LeastIsMin ==
  ASSUME NEW S, S \subseteq Nat, NEW k \in S, \A j \in S : k <= j
  PROVE  Min(S) = k
<1>1. Min(S) \in S /\ Min(S) <= k
  BY MinOf
<1>2. Min(S) \in Nat /\ k \in Nat /\ k <= Min(S)
  BY <1>1
<1>3. QED
  BY <1>1, <1>2

\* Induction up to n, with a set for the predicate.
LEMMA Induction ==
  ASSUME NEW n \in Nat, NEW S, 0 \in S, \A k \in 1 .. n : k - 1 \in S => k \in S
  PROVE  \A k \in 0 .. n : k \in S
<1> DEFINE Bad == {k \in 0 .. n : k \notin S}
<1>1. SUFFICES ASSUME Bad # {} PROVE FALSE
  OBVIOUS
<1>2. Bad \subseteq Nat
  OBVIOUS
<1>3. PICK k \in Bad : \A j \in Bad : k <= j
  BY <1>1, <1>2, Smallest
<1>4. k \in 1 .. n /\ k - 1 \in 0 .. n /\ ~ (k <= k - 1)
  BY <1>3
<1>5. k - 1 \in S
  BY <1>3, <1>4
<1>6. QED
  BY <1>3, <1>4, <1>5

LEMMA MaxMember ==
  ASSUME NEW n \in Nat, NEW s \in SUBSET (1 .. n), s # {}
  PROVE  Max(s) \in s /\ \A x \in s : x <= Max(s)
<1> DEFINE Below == {n - x : x \in s}
<1>1. \A x \in s : n - x \in Nat
  <2>1. s \subseteq 1 .. n
    OBVIOUS
  <2>2. QED
    BY <2>1
<1>2. Below \subseteq Nat /\ Below # {}
  BY <1>1
<1> HIDE DEF Below
<1>3. PICK d \in Below : \A e \in Below : d <= e
  BY <1>2, Smallest
<1>4. PICK x \in s : d = n - x
  BY <1>3 DEF Below
<1>5. \A y \in s : n - x <= n - y
  BY <1>3, <1>4 DEF Below
<1>6. \A y \in s : x >= y
  <2>1. ASSUME NEW y \in s PROVE x >= y
    <3>1. x \in 1 .. n /\ y \in 1 .. n
      OBVIOUS
    <3>2. QED
      BY <1>5, <3>1
  <2>2. QED
    BY <2>1
<1>7. \E z \in s : \A y \in s : z >= y
  BY <1>6
<1>8. Max(s) \in s /\ \A y \in s : Max(s) >= y
  BY <1>7 DEF Max
<1>9. \A y \in s : y \in 1 .. n
  OBVIOUS
<1>10. Max(s) \in 1 .. n
  BY <1>8, <1>9
<1>11. QED
  BY <1>8, <1>9, <1>10

LEMMA MaxUpTo ==
  ASSUME NEW k \in Nat, NEW s \in SUBSET (1 .. k), k \in s
  PROVE  Max(s) = k
<1>1. Max(s) \in s /\ k <= Max(s)
  BY MaxMember
<1>2. Max(s) \in 1 .. k
  BY <1>1
<1>3. QED
  BY <1>1, <1>2
-----------------------------------------------------------------------------
\* What it takes for g to be the recursive function of a fold.
Folds(g, n, D, base, step) ==
  /\ g \in [SUBSET (1 .. n) -> D]
  /\ \A s \in SUBSET (1 .. n) :
       g[s] = IF s = {} THEN base ELSE step[<<Max(s), g[s \ {Max(s)}]>>]

LEMMA FoldSolution ==
  ASSUME NEW n \in Nat, NEW D, NEW base \in D, NEW step \in [(1 .. n) \X D -> D]
  PROVE  \E g : Folds(g, n, D, base, step)
<1> DEFINE Good == {k \in 0 .. n : \E g : Folds(g, k, D, base, step)}
<1>1. 0 \in Good
  <2> DEFINE g == [s \in SUBSET (1 .. 0) |-> base]
  <2>1. \A s \in SUBSET (1 .. 0) : s = {}
    OBVIOUS
  <2>2. Folds(g, 0, D, base, step)
    BY <2>1 DEF Folds
  <2>3. QED
    BY <2>2
<1>2. ASSUME NEW k \in 1 .. n, k - 1 \in Good
      PROVE  k \in Good
  <2>1. PICK h : Folds(h, k - 1, D, base, step)
    BY <1>2
  <2> DEFINE g == [s \in SUBSET (1 .. k) |->
                     IF k \in s THEN step[<<k, h[s \ {k}]>>] ELSE h[s]]
  <2>2. \A s \in SUBSET (1 .. k) : s \ {k} \in SUBSET (1 .. k - 1)
    OBVIOUS
  <2>3. \A s \in SUBSET (1 .. k) : k \notin s => s \in SUBSET (1 .. k - 1)
    OBVIOUS
  <2>4. g \in [SUBSET (1 .. k) -> D]
    <3>1. ASSUME NEW s \in SUBSET (1 .. k) PROVE g[s] \in D
      <4>1. CASE k \in s
        <5>1. h[s \ {k}] \in D
          BY <2>1, <2>2 DEF Folds
        <5>2. QED
          BY <4>1, <5>1
      <4>2. CASE k \notin s
        BY <2>1, <2>3, <4>2 DEF Folds
      <4>3. QED
        BY <4>1, <4>2
    <3>2. QED
      BY <3>1
  <2>5. ASSUME NEW s \in SUBSET (1 .. k)
        PROVE  g[s] = IF s = {} THEN base ELSE step[<<Max(s), g[s \ {Max(s)}]>>]
    <3>1. CASE k \in s
      <4>1. Max(s) = k
        BY <3>1, MaxUpTo
      <4>2. g[s \ {k}] = h[s \ {k}]
        BY <2>2
      <4>3. QED
        BY <3>1, <4>1, <4>2
    <3>2. CASE k \notin s /\ s # {}
      <4>1. s \in SUBSET (1 .. k - 1)
        BY <2>3, <3>2
      <4>2. s \ {Max(s)} \in SUBSET (1 .. k) /\ k \notin s \ {Max(s)}
        BY <3>2
      <4>3. g[s \ {Max(s)}] = h[s \ {Max(s)}]
        BY <4>2
      <4>4. QED
        BY <2>1, <3>2, <4>1, <4>3 DEF Folds
    <3>3. CASE s = {}
      <4>1. {} \in SUBSET (1 .. k - 1)
        OBVIOUS
      <4>2. QED
        BY <2>1, <3>3, <4>1 DEF Folds
    <3>4. QED
      BY <3>1, <3>2, <3>3
  <2> HIDE DEF g
  <2>6. Folds(g, k, D, base, step)
    BY <2>4, <2>5 DEF Folds
  <2>7. QED
    BY <2>6
<1>3. n \in 0 .. n
  OBVIOUS
<1> HIDE DEF Good
<1>4. n \in Good
  BY <1>1, <1>2, <1>3, Induction
<1>5. QED
  BY <1>4 DEF Good

\* The positions up to k, of which a fold takes the last one off.
LEMMA LastTaken ==
  ASSUME NEW k \in Nat
  PROVE  /\ k = 0 => 1 .. k = {}
         /\ k # 0 => /\ 1 .. k # {}
                     /\ Max(1 .. k) = k
                     /\ (1 .. k) \ {k} = 1 .. k - 1
<1>1. k # 0 => Max(1 .. k) = k
  BY MaxUpTo
<1>2. QED
  BY <1>1
-----------------------------------------------------------------------------
\* kept has the elements of seq at the positions P, in their order: place maps
\* its positions to those.
Picks(kept, seq, P, place) ==
  /\ place \in [1 .. Len(kept) -> P]
  /\ \A i \in P : \E k \in 1 .. Len(kept) : place[k] = i
  /\ \A k \in 1 .. Len(kept) : kept[k] = seq[place[k]]
  /\ \A j, k \in 1 .. Len(kept) : j < k => place[j] < place[k]

\* kept is what is left of the first n elements of seq without those in S.
Filters(kept, seq, n, S, place) ==
  Picks(kept, seq, {i \in 1 .. n : seq[i] \notin S}, place)

\* h[k] is what Without has kept after k elements.
Keeping(h, D, seq, S) ==
  /\ h \in [0 .. Len(seq) -> Seq(D)]
  /\ h[0] = <<>>
  /\ h[Len(seq)] = Without(seq, S)
  /\ \A k \in 1 .. Len(seq) :
       h[k] = IF seq[k] \in S THEN h[k - 1] ELSE Append(h[k - 1], seq[k])

LEMMA WithoutSteps ==
  ASSUME NEW D, NEW seq \in Seq(D), NEW S
  PROVE  \E h : Keeping(h, D, seq, S)
<1> DEFINE n == Len(seq)
           Keep(kept, i) == IF seq[i] \in S THEN kept ELSE Append(kept, seq[i])
           step == [x \in (1 .. n) \X Seq(D) |-> Keep(x[2], x[1])]
           iter == CHOOSE f : f = [s \in SUBSET (DOMAIN seq) |->
                                     IF s = {} THEN <<>>
                                     ELSE Keep(f[s \ {Max(s)}], Max(s))]
<1>1. n \in Nat /\ DOMAIN seq = 1 .. n /\ \A i \in 1 .. n : seq[i] \in D
  OBVIOUS
<1>2. Without(seq, S) = iter[DOMAIN seq]
  BY DEF Without, FoldLeft, MapThenFoldSet
<1>3. step \in [(1 .. n) \X Seq(D) -> Seq(D)]
  <2>1. ASSUME NEW i \in 1 .. n, NEW kept \in Seq(D)
        PROVE  Keep(kept, i) \in Seq(D)
    BY <1>1, <2>1, AppendProperties
  <2>2. QED
    BY <2>1
<1>4. PICK g : Folds(g, n, Seq(D), <<>>, step)
  <2>1. <<>> \in Seq(D)
    BY EmptySeq
  <2> HIDE DEF step
  <2>2. QED
    BY <1>1, <1>3, <2>1, FoldSolution
<1>5. g = [s \in SUBSET (DOMAIN seq) |->
             IF s = {} THEN <<>> ELSE Keep(g[s \ {Max(s)}], Max(s))]
  <2>1. ASSUME NEW s \in SUBSET (1 .. n), s # {}
        PROVE  g[s] = Keep(g[s \ {Max(s)}], Max(s))
    <3>1. Max(s) \in 1 .. n
      BY <1>1, <2>1, MaxMember
    <3>2. g[s \ {Max(s)}] \in Seq(D)
      BY <1>4 DEF Folds
    <3>3. g[s] = step[<<Max(s), g[s \ {Max(s)}]>>]
      BY <1>4, <2>1 DEF Folds
    <3> HIDE DEF Keep
    <3>4. QED
      BY <3>1, <3>2, <3>3
  <2>2. \A s \in SUBSET (1 .. n) :
          g[s] = IF s = {} THEN <<>> ELSE Keep(g[s \ {Max(s)}], Max(s))
    BY <1>4, <2>1 DEF Folds
  <2>3. g = [s \in SUBSET (1 .. n) |-> g[s]]
    BY <1>4 DEF Folds
  <2> HIDE DEF Keep, step
  <2>4. QED
    BY <1>1, <2>2, <2>3
<1>6. iter = [s \in SUBSET (DOMAIN seq) |->
                IF s = {} THEN <<>> ELSE Keep(iter[s \ {Max(s)}], Max(s))]
  BY <1>5
<1> HIDE DEF iter
<1> DEFINE h == [k \in 0 .. n |-> iter[1 .. k]]
<1>7. h[0] = <<>>
  BY <1>1, <1>6, LastTaken
<1>8. ASSUME NEW k \in 1 .. n
      PROVE  h[k] = Keep(h[k - 1], k)
  <2>1. /\ 1 .. k # {} /\ 1 .. k \in SUBSET (DOMAIN seq)
        /\ Max(1 .. k) = k /\ (1 .. k) \ {Max(1 .. k)} = 1 .. k - 1
    BY <1>1, LastTaken
  <2> HIDE DEF Keep
  <2>2. iter[1 .. k] = Keep(iter[1 .. k - 1], k)
    BY <1>6, <2>1
  <2>3. k \in 0 .. n /\ k - 1 \in 0 .. n
    BY <1>1
  <2>4. QED
    BY <2>2, <2>3
<1>9. h = [k \in 0 .. n |-> h[k]] /\ h[n] = Without(seq, S)
  BY <1>1, <1>2
<1> HIDE DEF h, step
<1>10. \A k \in 0 .. n : h[k] \in Seq(D)
  <2> DEFINE Typed == {k \in 0 .. n : h[k] \in Seq(D)}
  <2>1. 0 \in Typed
    <3>1. h[0] \in Seq(D)
      BY <1>7, EmptySeq
    <3>2. 0 \in 0 .. n
      BY <1>1
    <3>3. QED
      BY <3>1, <3>2
  <2>2. ASSUME NEW k \in 1 .. n, k - 1 \in Typed
        PROVE  k \in Typed
    <3>1. h[k - 1] \in Seq(D)
      BY <2>2
    <3>2. seq[k] \in D
      BY <1>1
    <3>3. Append(h[k - 1], seq[k]) \in Seq(D)
      BY <3>1, <3>2, AppendProperties
    <3>4. h[k] = Keep(h[k - 1], k)
      BY <1>8
    <3>5. h[k] \in Seq(D)
      BY <3>1, <3>3, <3>4
    <3>6. k \in 0 .. n
      BY <1>1
    <3>7. QED
      BY <3>5, <3>6
  <2> HIDE DEF Typed
  <2>3. \A k \in 0 .. n : k \in Typed
    BY <1>1, <2>1, <2>2, Induction
  <2>4. QED
    BY <2>3 DEF Typed
<1>11. h \in [0 .. n -> Seq(D)]
  BY <1>9, <1>10
<1>12. Keeping(h, D, seq, S)
  BY <1>7, <1>8, <1>9, <1>11 DEF Keeping
<1>13. QED
  BY <1>12

LEMMA FiltersDrop ==
  ASSUME NEW D, NEW kept \in Seq(D), NEW seq, NEW k \in Nat \ {0}, NEW S, NEW place,
         Filters(kept, seq, k - 1, S, place), seq[k] \in S
  PROVE  Filters(kept, seq, k, S, place)
<1>1. {i \in 1 .. k : seq[i] \notin S} = {i \in 1 .. k - 1 : seq[i] \notin S}
  <2>1. \A i \in 1 .. k : i = k \/ i \in 1 .. k - 1
    OBVIOUS
  <2>2. \A i \in 1 .. k - 1 : i \in 1 .. k
    OBVIOUS
  <2>3. QED
    BY <2>1, <2>2
<1>2. \A i \in 1 .. k : seq[i] \notin S => i \in 1 .. k - 1
  BY <1>1
<1>3. QED
  BY <1>1, <1>2 DEF Filters, Picks

LEMMA FiltersKeep ==
  ASSUME NEW D, NEW kept \in Seq(D), NEW seq, NEW k \in Nat \ {0}, NEW S, NEW place,
         Filters(kept, seq, k - 1, S, place), seq[k] \notin S, seq[k] \in D
  PROVE  \E to : Filters(Append(kept, seq[k]), seq, k, S, to)
<1> DEFINE n == Len(kept)
           more == Append(kept, seq[k])
           to == [j \in 1 .. n + 1 |-> IF j = n + 1 THEN k ELSE place[j]]
<1>1. /\ n \in Nat /\ Len(more) = n + 1
      /\ more[n + 1] = seq[k] /\ \A j \in 1 .. n : more[j] = kept[j]
  BY AppendProperties
<1>2. \A j \in 1 .. n + 1 : j = n + 1 \/ j \in 1 .. n
  BY <1>1
<1>3. \A j \in 1 .. n : place[j] \in 1 .. k - 1 /\ seq[place[j]] \notin S
  BY DEF Filters, Picks
<1>4. \A j \in 1 .. n : j \in 1 .. n + 1 /\ j # n + 1 /\ to[j] = place[j]
  BY <1>1
<1>5. n + 1 \in 1 .. n + 1 /\ to[n + 1] = k
  BY <1>1
<1> HIDE DEF n, more, to
<1>6. \A j \in 1 .. n + 1 : to[j] \in 1 .. k /\ seq[to[j]] \notin S
  BY <1>2, <1>3, <1>4, <1>5
<1>7. to \in [1 .. n + 1 -> {i \in 1 .. k : seq[i] \notin S}]
  BY <1>6 DEF to, n
<1>8. ASSUME NEW i \in 1 .. k, seq[i] \notin S
      PROVE  \E j \in 1 .. n + 1 : to[j] = i
  <2>1. CASE i = k
    BY <1>5, <2>1
  <2>2. CASE i # k
    <3>1. i \in 1 .. k - 1
      BY <2>2
    <3>2. PICK j \in 1 .. n : place[j] = i
      BY <1>8, <3>1 DEF Filters, Picks, n
    <3>3. QED
      BY <1>4, <3>2
  <2>3. QED
    BY <2>1, <2>2
<1>9. \A j \in 1 .. n + 1 : more[j] = seq[to[j]]
  BY <1>1, <1>2, <1>4, <1>5 DEF Filters, Picks, n
<1>10. ASSUME NEW i \in 1 .. n + 1, NEW j \in 1 .. n + 1, i < j
       PROVE  to[i] < to[j]
  <2>1. i \in 1 .. n
    BY <1>1, <1>10
  <2>2. CASE j = n + 1
    BY <1>3, <1>4, <1>5, <2>1, <2>2
  <2>3. CASE j \in 1 .. n
    BY <1>4, <1>10, <2>1, <2>3 DEF Filters, Picks, n
  <2>4. QED
    BY <1>2, <2>2, <2>3
<1>11. Filters(more, seq, k, S, to)
  BY <1>1, <1>7, <1>8, <1>9, <1>10 DEF Filters, Picks
<1>12. QED
  BY <1>11 DEF more

\* What Without gives is the list without those elements, in order.
LEMMA WithoutFilters ==
  ASSUME NEW D, NEW seq \in Seq(D), NEW S
  PROVE  /\ Without(seq, S) \in Seq(D)
         /\ \E place : Filters(Without(seq, S), seq, Len(seq), S, place)
<1> DEFINE n == Len(seq)
<1>1. n \in Nat /\ \A i \in 1 .. n : seq[i] \in D
  OBVIOUS
<1>2. PICK h \in [0 .. n -> Seq(D)] :
           /\ h[0] = <<>>
           /\ h[n] = Without(seq, S)
           /\ \A k \in 1 .. n :
                h[k] = IF seq[k] \in S THEN h[k - 1] ELSE Append(h[k - 1], seq[k])
  BY WithoutSteps DEF Keeping
<1> HIDE DEF n
<1> DEFINE Done == {k \in 0 .. n : \E place : Filters(h[k], seq, k, S, place)}
<1>3. 0 \in Done
  <2>1. Filters(h[0], seq, 0, S, <<>>)
    BY <1>2 DEF Filters, Picks
  <2>2. 0 \in 0 .. n
    BY <1>1
  <2>3. QED
    BY <2>1, <2>2
<1>4. ASSUME NEW k \in 1 .. n, k - 1 \in Done
      PROVE  k \in Done
  <2>1. PICK place : Filters(h[k - 1], seq, k - 1, S, place)
    BY <1>4
  <2>2. k \in 0 .. n /\ k - 1 \in 0 .. n /\ k \in Nat \ {0} /\ seq[k] \in D
    BY <1>1
  <2>3. h[k - 1] \in Seq(D)
    BY <1>2, <2>2
  <2>4. \E to : Filters(h[k], seq, k, S, to)
    <3>1. CASE seq[k] \in S
      <4>1. h[k] = h[k - 1]
        BY <1>2, <3>1
      <4>2. QED
        BY <2>1, <2>2, <2>3, <3>1, <4>1, FiltersDrop
    <3>2. CASE seq[k] \notin S
      <4>1. h[k] = Append(h[k - 1], seq[k])
        BY <1>2, <3>2
      <4>2. QED
        BY <2>1, <2>2, <2>3, <3>2, <4>1, FiltersKeep
    <3>3. QED
      BY <3>1, <3>2
  <2>5. QED
    BY <2>2, <2>4
<1>5. n \in 0 .. n
  BY <1>1
<1> HIDE DEF Done
<1>6. n \in Done
  BY <1>1, <1>3, <1>4, <1>5, Induction
<1>7. QED
  BY <1>2, <1>5, <1>6 DEF Done, n

\* Filtering makes no list longer: the k-th element comes from behind k - 1 others.
LEMMA FiltersShorten ==
  ASSUME NEW D, NEW kept \in Seq(D), NEW seq, NEW n \in Nat, NEW S, NEW place,
         Filters(kept, seq, n, S, place)
  PROVE  Len(kept) <= n
<1> DEFINE m == Len(kept)
           Done == {k \in 0 .. m : k # 0 => k <= place[k]}
<1>1. m \in Nat
  OBVIOUS
<1>2. \A k \in 1 .. m : place[k] \in 1 .. n
  BY DEF Filters, Picks
<1> HIDE DEF m
<1>3. 0 \in Done
  BY <1>1
<1>4. ASSUME NEW k \in 1 .. m, k - 1 \in Done
      PROVE  k \in Done
  <2>1. CASE k = 1
    BY <1>1, <1>2, <2>1
  <2>2. CASE k # 1
    <3>1. k - 1 \in 1 .. m /\ k - 1 < k
      BY <1>1, <2>2
    <3>2. place[k - 1] < place[k]
      BY <3>1 DEF Filters, Picks, m
    <3>3. k - 1 <= place[k - 1]
      BY <1>4, <3>1
    <3>4. k <= place[k]
      BY <1>2, <3>1, <3>2, <3>3
    <3>5. QED
      BY <1>1, <3>4
  <2>3. QED
    BY <2>1, <2>2
<1> HIDE DEF Done
<1>5. m \in Done
  <2>1. m \in 0 .. m
    BY <1>1
  <2>2. QED
    BY <1>1, <1>3, <1>4, <2>1, Induction
<1>6. CASE m = 0
  BY <1>6 DEF m
<1>7. CASE m # 0
  <2>1. m \in 1 .. m /\ m <= place[m]
    BY <1>1, <1>5, <1>7 DEF Done
  <2>2. QED
    BY <1>1, <1>2, <2>1 DEF m
<1>8. QED
  BY <1>6, <1>7
-----------------------------------------------------------------------------
Earliest(Q) == CHOOSE i \in Q : \A j \in Q : i <= j

\* The elements of kept that are from the positions Q.
Picked(kept, place, Q) == {k \in 1 .. Len(kept) : place[k] \in Q}

\* Of the positions Q, the one that kept comes to first is the least.
LEMMA FirstPicked ==
  ASSUME NEW D, NEW kept \in Seq(D), NEW seq, NEW P, P \subseteq Nat, NEW place,
         Picks(kept, seq, P, place), NEW Q \in SUBSET P, Q # {}
  PROVE  LET K == Picked(kept, place, Q)
         IN  /\ K # {} /\ Min(K) \in K
             /\ place[Min(K)] = Earliest(Q)
<1> DEFINE n == Len(kept)
           K == {k \in 1 .. n : place[k] \in Q}
           m == Min(K)
<1>1. n \in Nat /\ \A i \in Q : i \in Nat /\ \E k \in 1 .. n : place[k] = i
  BY DEF Picks
<1>2. K # {} /\ K \subseteq Nat
  <2>1. PICK i \in Q : TRUE
    OBVIOUS
  <2>2. PICK k \in 1 .. n : place[k] = i
    BY <1>1, <2>1
  <2>3. k \in K
    BY <2>1, <2>2
  <2>4. K \subseteq Nat
    BY <1>1
  <2>5. QED
    BY <2>3, <2>4
<1>3. m \in K /\ \A k \in K : m <= k
  BY <1>2, MinOf
<1>4. m \in 1 .. n /\ place[m] \in Q
  BY <1>3
<1> HIDE DEF m
<1>5. ASSUME NEW j \in Q
      PROVE  place[m] <= j
  <2>1. PICK k \in 1 .. n : place[k] = j
    BY <1>1
  <2>2. m <= k
    BY <1>3, <1>5, <2>1
  <2>3. m < k => place[m] < place[k]
    BY <1>4, <2>1 DEF Picks
  <2>4. place[m] \in Nat /\ j \in Nat
    BY <1>1, <1>4
  <2>5. m = k \/ m < k
    BY <1>1, <1>4, <2>1, <2>2
  <2>6. QED
    BY <2>1, <2>3, <2>4, <2>5
<1>6. ASSUME NEW i \in Q, \A j \in Q : i <= j
      PROVE  i = place[m]
  <2>1. i <= place[m] /\ place[m] <= i /\ i \in Nat /\ place[m] \in Nat
    BY <1>1, <1>4, <1>5, <1>6
  <2>2. QED
    BY <2>1
<1>7. place[m] = Earliest(Q)
  BY <1>4, <1>5, <1>6 DEF Earliest
<1>8. QED
  BY <1>2, <1>3, <1>7 DEF m, Picked

\* P are the first of the positions Q.
Leading(P, Q) ==
  P \subseteq Q /\ Q \subseteq Nat /\ \A i \in P, j \in Q : j < i => j \in P

\* A list of the first of some positions is a prefix of the list of all of them.
LEMMA PicksPrefix ==
  ASSUME NEW short, Len(short) \in Nat, NEW long, Len(long) \in Nat, NEW seq,
         NEW P, NEW Q, Leading(P, Q),
         NEW from, Picks(short, seq, P, from), NEW to, Picks(long, seq, Q, to)
  PROVE  \A k \in 1 .. Len(short) :
           k \in 1 .. Len(long) /\ from[k] = to[k] /\ long[k] = short[k]
<1> DEFINE n == Len(short)
           m == Len(long)
           Done == {k \in 0 .. n : k # 0 => k \in 1 .. m /\ from[k] = to[k]}
<1>1. /\ n \in Nat /\ m \in Nat
      /\ P \subseteq Q /\ Q \subseteq Nat /\ \A i \in P, j \in Q : j < i => j \in P
  BY DEF Leading
<1>2. /\ \A k \in 1 .. n : from[k] \in P /\ from[k] \in Q /\ from[k] \in Nat
      /\ \A k \in 1 .. m : to[k] \in Q /\ to[k] \in Nat
  BY <1>1 DEF Picks
<1>3. /\ \A j, k \in 1 .. n : j < k => from[j] < from[k]
      /\ \A j, k \in 1 .. m : j < k => to[j] < to[k]
      /\ \A i \in P : \E k \in 1 .. n : from[k] = i
      /\ \A i \in Q : \E k \in 1 .. m : to[k] = i
  BY DEF Picks
<1> HIDE DEF n, m
<1>4. 0 \in Done
  BY <1>1
<1>5. ASSUME NEW k \in 1 .. n, k - 1 \in Done
      PROVE  k \in Done
  <2>1. k = 1 \/ (k - 1 \in 1 .. m /\ k - 1 \in 1 .. n /\ from[k - 1] = to[k - 1])
    BY <1>1, <1>5
  <2>2. PICK l \in 1 .. m : to[l] = from[k]
    BY <1>2, <1>3
  <2>3. k <= l
    <3>1. SUFFICES ASSUME k - 1 \in 1 .. m, k - 1 \in 1 .. n, from[k - 1] = to[k - 1], l < k
                   PROVE  FALSE
      BY <1>1, <2>1, <2>2
    <3>2. from[k - 1] < from[k] /\ (l = k - 1 \/ to[l] < to[k - 1])
      BY <1>1, <1>3, <2>2, <3>1
    <3>3. to[l] \in Nat /\ to[k - 1] \in Nat
      BY <1>2, <2>2, <3>1
    <3>4. QED
      BY <2>2, <3>1, <3>2, <3>3
  <2>4. k \in 1 .. m /\ (k = l \/ to[k] < to[l])
    BY <1>1, <1>3, <2>2, <2>3
  <2>5. to[k] \in P
    <3>1. from[k] \in P /\ to[k] \in Q /\ (to[k] = from[k] \/ to[k] < from[k])
      BY <1>2, <2>2, <2>4
    <3>2. QED
      BY <1>1, <3>1
  <2>6. PICK i \in 1 .. n : from[i] = to[k]
    BY <1>3, <2>5
  <2>7. ~ k < i
    <3>1. SUFFICES ASSUME k < i PROVE FALSE
      OBVIOUS
    <3>2. from[k] < from[i]
      BY <1>3, <2>6, <3>1
    <3>3. from[k] \in Nat /\ to[k] \in Nat
      BY <1>2, <2>4
    <3>4. QED
      BY <2>2, <2>4, <2>6, <3>2, <3>3
  <2>8. ~ i < k
    <3>1. SUFFICES ASSUME i < k PROVE FALSE
      OBVIOUS
    <3>2. k - 1 \in 1 .. m /\ k - 1 \in 1 .. n /\ from[k - 1] = to[k - 1]
      BY <1>1, <2>1, <2>6, <3>1
    <3>3. to[k - 1] < to[k] /\ (i = k - 1 \/ from[i] < from[k - 1])
      BY <1>1, <1>3, <2>4, <2>6, <3>1, <3>2
    <3>4. from[k - 1] \in Nat /\ to[k] \in Nat
      BY <1>2, <2>4, <3>2
    <3>5. QED
      BY <2>6, <3>2, <3>3, <3>4
  <2>9. i = k
    BY <1>1, <2>6, <2>7, <2>8
  <2>10. k \in 0 .. n
    BY <1>1
  <2>11. QED
    BY <2>4, <2>6, <2>9, <2>10
<1>6. \A k \in 0 .. n : k \in Done
  <2> HIDE DEF Done
  <2>1. QED
    BY <1>1, <1>4, <1>5, Induction
<1>7. ASSUME NEW k \in 1 .. n
      PROVE  k \in 1 .. m /\ from[k] = to[k]
  BY <1>1, <1>6
<1>8. \A k \in 1 .. n : long[k] = short[k]
  BY <1>7 DEF Picks, n, m
<1>9. QED
  BY <1>7, <1>8 DEF n, m
=============================================================================
