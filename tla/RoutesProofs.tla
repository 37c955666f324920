---------------------------- MODULE RoutesProofs ----------------------------
(***************************************************************************)
(* Proofs about the lookup in Routes: what the single scan of findRoute    *)
(* returns, for every table, destination and width of an address.          *)
(***************************************************************************)
EXTENDS Routes, ListProofs, FiniteSetTheorems

Hits(table, destination, n) == {i \in 1 .. n : Matches(table[i], destination)}

Bits(table, i) == maskToBits(table[i].netmask)

Beats(table, i, j) ==
  \/ Bits(table, i) > Bits(table, j)
  \/ Bits(table, i) = Bits(table, j) /\ i < j

\* i is the most specific of the first n entries that match, the first of such.
MostSpecific(table, destination, n, i) ==
  /\ i \in Hits(table, destination, n)
  /\ \A j \in Hits(table, destination, n) \ {i} : Beats(table, i, j)

LEMMA BitsType ==
  ASSUME NEW mask \in IPv4Address
  PROVE  maskToBits(mask) \in Nat
<1>1. IsFiniteSet(Bit)
  BY AddressBitsAssumption, FS_Interval DEF Bit
<1>2. IsFiniteSet(mask)
  BY <1>1, FS_Subset DEF IPv4Address
<1>3. QED
  BY <1>2, FS_CardinalityType DEF maskToBits

\* The running best of the scan: h[k] after k entries.
Scan(h, table, destination) ==
  /\ h[0] = NoRoute
  /\ h[Len(table)] = findRoute(table, destination)
  /\ \A k \in 1 .. Len(table) :
       h[k] = IF /\ Matches(table[k], destination)
                 /\ \/ h[k - 1] = NoRoute
                    \/ Bits(table, k) > maskToBits(h[k - 1].netmask)
              THEN table[k] ELSE h[k - 1]

LEMMA FindRouteSteps ==
  ASSUME NEW table \in Seq(RouteEntry), NEW destination
  PROVE  \E h : Scan(h, table, destination)
<1> DEFINE n == Len(table)
           D == RouteEntry \cup {NoRoute}
           Keep(best, i) == IF /\ Matches(table[i], destination)
                               /\ \/ best = NoRoute
                                  \/ maskToBits(table[i].netmask) > maskToBits(best.netmask)
                            THEN table[i] ELSE best
           step == [x \in (1 .. n) \X D |-> Keep(x[2], x[1])]
           iter == CHOOSE f : f = [s \in SUBSET (DOMAIN table) |->
                                     IF s = {} THEN NoRoute
                                     ELSE Keep(f[s \ {Max(s)}], Max(s))]
<1>1. n \in Nat /\ DOMAIN table = 1 .. n /\ \A i \in 1 .. n : table[i] \in RouteEntry
  OBVIOUS
<1>2. findRoute(table, destination) = iter[DOMAIN table]
  BY DEF findRoute, FoldLeft, MapThenFoldSet
<1>3. step \in [(1 .. n) \X D -> D]
  BY <1>1
<1>4. PICK g : Folds(g, n, D, NoRoute, step)
  <2>1. NoRoute \in D
    OBVIOUS
  <2> HIDE DEF step, D
  <2>2. QED
    BY <1>1, <1>3, <2>1, FoldSolution
<1>5. g = [s \in SUBSET (DOMAIN table) |->
             IF s = {} THEN NoRoute ELSE Keep(g[s \ {Max(s)}], Max(s))]
  <2>1. ASSUME NEW s \in SUBSET (1 .. n), s # {}
        PROVE  g[s] = Keep(g[s \ {Max(s)}], Max(s))
    <3>1. Max(s) \in 1 .. n
      BY <1>1, <2>1, MaxMember
    <3>2. g[s \ {Max(s)}] \in D
      BY <1>4 DEF Folds
    <3>3. g[s] = step[<<Max(s), g[s \ {Max(s)}]>>]
      BY <1>4, <2>1 DEF Folds
    <3> HIDE DEF Keep, D
    <3>4. QED
      BY <3>1, <3>2, <3>3
  <2>2. \A s \in SUBSET (1 .. n) :
          g[s] = IF s = {} THEN NoRoute ELSE Keep(g[s \ {Max(s)}], Max(s))
    BY <1>4, <2>1 DEF Folds
  <2>3. g = [s \in SUBSET (1 .. n) |-> g[s]]
    BY <1>4 DEF Folds
  <2> HIDE DEF Keep, step
  <2>4. QED
    BY <1>1, <2>2, <2>3
<1>6. iter = [s \in SUBSET (DOMAIN table) |->
                IF s = {} THEN NoRoute ELSE Keep(iter[s \ {Max(s)}], Max(s))]
  BY <1>5
<1> HIDE DEF iter, step
<1> DEFINE h == [k \in 0 .. n |-> iter[1 .. k]]
<1>7. h[0] = NoRoute
  BY <1>1, <1>6, LastTaken
<1>8. ASSUME NEW k \in 1 .. n
      PROVE  h[k] = Keep(h[k - 1], k)
  <2>1. /\ 1 .. k # {} /\ 1 .. k \in SUBSET (DOMAIN table)
        /\ Max(1 .. k) = k /\ (1 .. k) \ {Max(1 .. k)} = 1 .. k - 1
    BY <1>1, LastTaken
  <2> HIDE DEF Keep
  <2>2. iter[1 .. k] = Keep(iter[1 .. k - 1], k)
    BY <1>6, <2>1
  <2>3. k \in 0 .. n /\ k - 1 \in 0 .. n
    BY <1>1
  <2>4. QED
    BY <2>2, <2>3
<1>9. h[n] = findRoute(table, destination)
  BY <1>1, <1>2
<1> HIDE DEF h
<1>10. Scan(h, table, destination)
  BY <1>7, <1>8, <1>9 DEF Scan, Bits
<1>11. QED
  BY <1>10

\* The running best after k entries, and an entry that does not replace it.
LEMMA BestStays ==
  ASSUME NEW table, NEW destination, NEW k \in Nat \ {0}, NEW i,
         \A j \in 1 .. k : Bits(table, j) \in Nat,
         MostSpecific(table, destination, k - 1, i),
         Matches(table[k], destination) => ~ Bits(table, k) > Bits(table, i)
  PROVE  MostSpecific(table, destination, k, i)
<1>1. i \in 1 .. k - 1 /\ Matches(table[i], destination)
  BY DEF MostSpecific, Hits
<1>2. i \in Hits(table, destination, k) /\ i < k /\ i \in 1 .. k
  BY <1>1 DEF Hits
<1>3. ASSUME NEW j \in Hits(table, destination, k) \ {i}
      PROVE  Beats(table, i, j)
  <2>1. j \in 1 .. k /\ Matches(table[j], destination)
    BY <1>3 DEF Hits
  <2>2. CASE j = k
    <3>1. Bits(table, i) \in Nat /\ Bits(table, k) \in Nat
      BY <1>2
    <3>2. QED
      BY <1>2, <2>1, <2>2, <3>1 DEF Beats
  <2>3. CASE j # k
    <3>1. j \in Hits(table, destination, k - 1)
      BY <2>1, <2>3 DEF Hits
    <3>2. QED
      BY <3>1 DEF MostSpecific
  <2>4. QED
    BY <2>2, <2>3
<1>4. QED
  BY <1>2, <1>3 DEF MostSpecific

\* An entry that matches and has more bits than the running best, if any.
LEMMA BestReplaced ==
  ASSUME NEW table, NEW destination, NEW k \in Nat \ {0}, Matches(table[k], destination),
         \A j \in 1 .. k : Bits(table, j) \in Nat,
         \/ Hits(table, destination, k - 1) = {}
         \/ \E i : /\ MostSpecific(table, destination, k - 1, i)
                   /\ Bits(table, k) > Bits(table, i)
  PROVE  MostSpecific(table, destination, k, k)
<1>1. k \in Hits(table, destination, k)
  BY DEF Hits
<1>2. ASSUME NEW j \in Hits(table, destination, k) \ {k}
      PROVE  Beats(table, k, j)
  <2>1. j \in Hits(table, destination, k - 1) /\ j \in 1 .. k
    BY <1>2 DEF Hits
  <2>2. PICK i : /\ MostSpecific(table, destination, k - 1, i)
                 /\ Bits(table, k) > Bits(table, i)
    BY <2>1
  <2>3. i \in 1 .. k
    BY <2>2 DEF MostSpecific, Hits
  <2>4. Bits(table, i) \in Nat /\ Bits(table, j) \in Nat /\ Bits(table, k) \in Nat
    BY <2>1, <2>3
  <2>5. i = j \/ Beats(table, i, j)
    BY <2>1, <2>2 DEF MostSpecific
  <2>6. QED
    BY <2>2, <2>4, <2>5 DEF Beats
<1>3. QED
  BY <1>1, <1>2 DEF MostSpecific

(* findRoute returns nothing if no entry matches, and otherwise the entry  *)
(* with the most bits in its mask among those that match; of several such, *)
(* the one that was configured first.                                      *)
THEOREM FindRouteFinds ==
  ASSUME NEW table \in Seq(RouteEntry), NEW destination
  PROVE  \/ /\ Hits(table, destination, Len(table)) = {}
            /\ findRoute(table, destination) = NoRoute
         \/ \E i : /\ MostSpecific(table, destination, Len(table), i)
                   /\ findRoute(table, destination) = table[i]
<1> DEFINE n == Len(table)
<1>1. n \in Nat /\ \A i \in 1 .. n : table[i] \in RouteEntry
  OBVIOUS
<1>2. PICK h : Scan(h, table, destination)
  BY FindRouteSteps
<1>3. /\ h[0] = NoRoute
      /\ h[n] = findRoute(table, destination)
      /\ \A k \in 1 .. n :
           h[k] = IF /\ Matches(table[k], destination)
                     /\ \/ h[k - 1] = NoRoute
                        \/ Bits(table, k) > maskToBits(h[k - 1].netmask)
                  THEN table[k] ELSE h[k - 1]
  BY <1>2 DEF Scan
<1> HIDE DEF n
<1> DEFINE Right(k) == \/ Hits(table, destination, k) = {} /\ h[k] = NoRoute
                       \/ \E i : MostSpecific(table, destination, k, i) /\ h[k] = table[i]
           Done == {k \in 0 .. n : Right(k)}
<1>4. 0 \in Done
  <2>1. Hits(table, destination, 0) = {} /\ 0 \in 0 .. n
    BY <1>1 DEF Hits
  <2>2. QED
    BY <1>3, <2>1
<1>5. ASSUME NEW k \in 1 .. n, k - 1 \in Done
      PROVE  k \in Done
  <2>1. /\ k \in 0 .. n /\ k \in Nat \ {0} /\ Right(k - 1)
        /\ \A j \in 1 .. k : j \in 1 .. n
    BY <1>1, <1>5
  <2>2. \A j \in 1 .. k : Bits(table, j) \in Nat
    BY <1>1, <2>1, BitsType DEF Bits, RouteEntry
  <2>3. CASE Hits(table, destination, k - 1) = {} /\ h[k - 1] = NoRoute
    <3>1. CASE Matches(table[k], destination)
      <4>1. h[k] = table[k]
        BY <1>3, <2>3, <3>1
      <4>2. MostSpecific(table, destination, k, k)
        BY <2>1, <2>2, <2>3, <3>1, BestReplaced
      <4>3. QED
        BY <2>1, <4>1, <4>2
    <3>2. CASE ~ Matches(table[k], destination)
      <4>1. h[k] = NoRoute
        BY <1>3, <2>3, <3>2
      <4>2. Hits(table, destination, k) = {}
        BY <2>1, <2>3, <3>2 DEF Hits
      <4>3. QED
        BY <2>1, <4>1, <4>2
    <3>3. QED
      BY <3>1, <3>2
  <2>4. ASSUME NEW i, MostSpecific(table, destination, k - 1, i), h[k - 1] = table[i]
        PROVE  k \in Done
    <3>1. table[i] \in RouteEntry
      BY <1>1, <2>1, <2>4 DEF MostSpecific, Hits
    <3>2. h[k - 1] # NoRoute /\ maskToBits(h[k - 1].netmask) = Bits(table, i)
      BY <2>4, <3>1, NoRouteAssumption DEF Bits
    <3>3. CASE Matches(table[k], destination) /\ Bits(table, k) > Bits(table, i)
      <4>1. h[k] = table[k]
        BY <1>3, <3>2, <3>3
      <4>2. MostSpecific(table, destination, k, k)
        BY <2>1, <2>2, <2>4, <3>3, BestReplaced
      <4>3. QED
        BY <2>1, <4>1, <4>2
    <3>4. CASE ~ (Matches(table[k], destination) /\ Bits(table, k) > Bits(table, i))
      <4>1. h[k] = table[i]
        BY <1>3, <2>4, <3>2, <3>4
      <4>2. MostSpecific(table, destination, k, i)
        BY <2>1, <2>2, <2>4, <3>4, BestStays
      <4>3. QED
        BY <2>1, <4>1, <4>2
    <3>5. QED
      BY <3>3, <3>4
  <2>5. QED
    BY <2>1, <2>3, <2>4
<1>6. n \in 0 .. n
  BY <1>1
<1> HIDE DEF Done
<1>7. n \in Done
  BY <1>1, <1>4, <1>5, <1>6, Induction
<1>8. Right(n)
  BY <1>7 DEF Done
<1>9. QED
  BY <1>3, <1>8 DEF n

\* A lookup yields an entry of the table or nothing.
LEMMA FindRouteType ==
  ASSUME NEW table \in Seq(RouteEntry), NEW destination
  PROVE  findRoute(table, destination) \in RouteEntry \cup {NoRoute}
BY FindRouteFinds DEF MostSpecific, Hits

\* There is only one most specific entry.
LEMMA OneMostSpecific ==
  ASSUME NEW table \in Seq(RouteEntry), NEW destination,
         NEW i, MostSpecific(table, destination, Len(table), i),
         NEW j, MostSpecific(table, destination, Len(table), j)
  PROVE  i = j
<1>1. SUFFICES ASSUME i # j PROVE FALSE
  OBVIOUS
<1>2. i \in 1 .. Len(table) /\ j \in 1 .. Len(table)
  BY DEF MostSpecific, Hits
<1>3. Bits(table, i) \in Nat /\ Bits(table, j) \in Nat
  <2>1. table[i] \in RouteEntry /\ table[j] \in RouteEntry
    BY <1>2
  <2>2. QED
    BY <2>1, BitsType DEF Bits, RouteEntry
<1>4. Beats(table, i, j) /\ Beats(table, j, i)
  BY <1>1 DEF MostSpecific
<1>5. QED
  BY <1>2, <1>3, <1>4 DEF Beats
=============================================================================
