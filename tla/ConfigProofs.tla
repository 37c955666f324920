---------------------------- MODULE ConfigProofs ----------------------------
(***************************************************************************)
(* Proofs about Config, for any file, masks and addresses of any width.    *)
(***************************************************************************)
EXTENDS Config, ListProofs

-----------------------------------------------------------------------------
(* matchesNetwork compares a prefix.                                       *)

Bytes == AddressBits \div ByteBits

LEMMA BytesFill ==
  /\ Bytes \in Nat
  /\ ByteBits * Bytes = AddressBits
  /\ ByteBits * 0 = 0
  /\ \A i \in Nat : ByteBits * i \in Nat /\ ByteBits * (i + 1) = ByteBits * i + ByteBits
<1>1. ByteBits \in Nat \ {0} /\ AddressBits \in Nat \ {0} /\ AddressBits % ByteBits = 0
  BY ByteAssumption, AddressBitsAssumption
<1>2. Bytes \in Nat /\ ByteBits * Bytes = AddressBits
  BY <1>1 DEF Bytes
<1>3. QED
  BY <1>1, <1>2

Capped(mask) == IF mask > AddressBits THEN AddressBits ELSE mask

\* One round of the loop, which compares byte i.
Round(address, network, state, i) ==
  LET Compared == {b \in Byte(i) : b < ByteBits * i + state.left}
  IN  [left |-> IF state.left >= ByteBits THEN state.left - ByteBits ELSE 0,
       same |-> state.same /\ address \cap Compared = network \cap Compared]

\* The loop's state: h[k] after k bytes.
Rounds(h, address, network, mask) ==
  /\ h[0] = [left |-> Capped(mask), same |-> TRUE]
  /\ h[Bytes].same = matchesNetwork(address, network, mask)
  /\ \A k \in 1 .. Bytes : h[k] = Round(address, network, h[k - 1], k - 1)

LEMMA MatchSteps ==
  ASSUME NEW address, NEW network, NEW mask \in Nat
  PROVE  \E h : Rounds(h, address, network, mask)
<1> DEFINE n == Bytes
           D == [left : Nat, same : BOOLEAN]
           seq == [i \in 1 .. n |-> i - 1]
           base == [left |-> Capped(mask), same |-> TRUE]
           Keep(state, i) ==
             [left |-> IF state.left >= ByteBits THEN state.left - ByteBits ELSE 0,
              same |-> /\ state.same
                       /\ address \cap {b \in Byte(i) : b < ByteBits * i + state.left}
                            = network \cap {b \in Byte(i) : b < ByteBits * i + state.left}]
           step == [x \in (1 .. n) \X D |-> Keep(x[2], x[1] - 1)]
           iter == CHOOSE f : f = [s \in SUBSET (DOMAIN seq) |->
                                     IF s = {} THEN base
                                     ELSE Keep(f[s \ {Max(s)}], seq[Max(s)])]
<1>1. n \in Nat /\ DOMAIN seq = 1 .. n /\ \A i \in 1 .. n : seq[i] = i - 1
  BY BytesFill
<1>2. matchesNetwork(address, network, mask) = iter[DOMAIN seq].same
  BY DEF matchesNetwork, FoldLeft, MapThenFoldSet, Capped, Bytes
<1>3. step \in [(1 .. n) \X D -> D]
  <2>1. ASSUME NEW state \in D, NEW i PROVE Keep(state, i) \in D
    BY ByteAssumption
  <2> HIDE DEF Keep, D
  <2>2. QED
    BY <2>1
<1>4. base \in D
  BY AddressBitsAssumption DEF Capped
<1> HIDE DEF base, n, seq
<1>5. PICK g : Folds(g, n, D, base, step)
  <2> HIDE DEF step, D
  <2>1. QED
    BY <1>1, <1>3, <1>4, FoldSolution
<1>6. g = [s \in SUBSET (DOMAIN seq) |->
             IF s = {} THEN base ELSE Keep(g[s \ {Max(s)}], seq[Max(s)])]
  <2>1. ASSUME NEW s \in SUBSET (1 .. n), s # {}
        PROVE  g[s] = Keep(g[s \ {Max(s)}], seq[Max(s)])
    <3>1. Max(s) \in 1 .. n
      BY <1>1, <2>1, MaxMember
    <3>2. g[s \ {Max(s)}] \in D
      BY <1>5 DEF Folds
    <3>3. g[s] = step[<<Max(s), g[s \ {Max(s)}]>>]
      BY <1>5, <2>1 DEF Folds
    <3> HIDE DEF Keep, D
    <3>4. QED
      BY <1>1, <3>1, <3>2, <3>3
  <2>2. \A s \in SUBSET (1 .. n) :
          g[s] = IF s = {} THEN base ELSE Keep(g[s \ {Max(s)}], seq[Max(s)])
    BY <1>5, <2>1 DEF Folds
  <2>3. g = [s \in SUBSET (1 .. n) |-> g[s]]
    BY <1>5 DEF Folds
  <2> HIDE DEF Keep, step
  <2>4. QED
    BY <1>1, <2>2, <2>3
<1>7. iter = [s \in SUBSET (DOMAIN seq) |->
                IF s = {} THEN base ELSE Keep(iter[s \ {Max(s)}], seq[Max(s)])]
  BY <1>6
<1> HIDE DEF iter, step
<1> DEFINE h == [k \in 0 .. n |-> iter[1 .. k]]
<1>8. h[0] = base
  BY <1>1, <1>7, LastTaken
<1>9. ASSUME NEW k \in 1 .. n
      PROVE  h[k] = Keep(h[k - 1], k - 1)
  <2>0. k \in Nat /\ k # 0 /\ 1 .. k \in SUBSET (1 .. n)
    BY <1>1
  <2>1. /\ 1 .. k # {} /\ 1 .. k \in SUBSET (1 .. n)
        /\ Max(1 .. k) = k /\ (1 .. k) \ {Max(1 .. k)} = 1 .. k - 1
    BY <2>0, LastTaken
  <2> HIDE DEF Keep
  <2>2. iter[1 .. k] = Keep(iter[1 .. k - 1], k - 1)
    BY <1>1, <1>7, <2>1
  <2>3. k \in 0 .. n /\ k - 1 \in 0 .. n
    BY <1>1
  <2>4. QED
    BY <2>2, <2>3
<1>10. h[n].same = matchesNetwork(address, network, mask)
  BY <1>1, <1>2
<1> HIDE DEF h
<1>11. Rounds(h, address, network, mask)
  BY <1>8, <1>9, <1>10 DEF Rounds, Round, base, n
<1>12. QED
  BY <1>11

\* The first p bits of what the mask covers are the same.
SameUpTo(address, network, bits, p) ==
  \A b \in 0 .. p - 1 : b < bits => (b \in address <=> b \in network)

\* What the mask leaves of the byte from p to q.
Part(p, q, left) == {b \in p .. q - 1 : b < p + left}

\* A round, with p and q for the borders of its byte.
LEMMA RoundCompares ==
  ASSUME NEW address, NEW network, NEW bits \in Nat,
         NEW width \in Nat \ {0}, NEW p \in Nat, NEW q, q = p + width,
         NEW left, left = IF bits > p THEN bits - p ELSE 0
  PROVE  /\ (/\ SameUpTo(address, network, bits, p)
             /\ address \cap Part(p, q, left) = network \cap Part(p, q, left))
              <=> SameUpTo(address, network, bits, q)
         /\ (IF left >= width THEN left - width ELSE 0)
              = (IF bits > q THEN bits - q ELSE 0)
<1> DEFINE Compared == Part(p, q, left)
<1>1. Compared = {b \in p .. q - 1 : b < bits}
  BY DEF Part
<1>2. \A b \in 0 .. q - 1 : b \in 0 .. p - 1 \/ b \in p .. q - 1
  OBVIOUS
<1>3. \A b \in p .. q - 1 : b \in 0 .. q - 1
  OBVIOUS
<1>4. \A b \in 0 .. p - 1 : b \in 0 .. q - 1
  OBVIOUS
<1> HIDE DEF Compared
<1>5. address \cap Compared = network \cap Compared
        <=> \A b \in p .. q - 1 : b < bits => (b \in address <=> b \in network)
  BY <1>1
<1>6. (/\ SameUpTo(address, network, bits, p)
       /\ address \cap Compared = network \cap Compared)
        <=> SameUpTo(address, network, bits, q)
  BY <1>2, <1>3, <1>4, <1>5 DEF SameUpTo
<1>7. (IF left >= width THEN left - width ELSE 0) = (IF bits > q THEN bits - q ELSE 0)
  OBVIOUS
<1>8. QED
  BY <1>6, <1>7 DEF Compared

(* Byte after byte, matchesNetwork compares the leading bits that the mask *)
(* counts, wherever it ends, and all of them if it is too long.            *)
THEOREM MatchesPrefix ==
  ASSUME NEW address, NEW network, NEW mask \in Nat
  PROVE  matchesNetwork(address, network, mask) <=> SamePrefix(address, network, mask)
<1> DEFINE n == Bytes
           bits == Capped(mask)
<1>1. n \in Nat /\ bits \in Nat /\ ByteBits \in Nat \ {0}
  BY BytesFill, AddressBitsAssumption, ByteAssumption DEF Capped
<1>2. PICK h : Rounds(h, address, network, mask)
  BY MatchSteps
<1>3. /\ h[0] = [left |-> bits, same |-> TRUE]
      /\ h[n].same = matchesNetwork(address, network, mask)
      /\ \A k \in 1 .. n : h[k] = Round(address, network, h[k - 1], k - 1)
  BY <1>2 DEF Rounds
<1> HIDE DEF n, bits
<1> DEFINE Right(k) == LET p == ByteBits * k
                       IN  /\ h[k].left = IF bits > p THEN bits - p ELSE 0
                           /\ h[k].same <=> SameUpTo(address, network, bits, p)
           Done == {k \in 0 .. n : Right(k)}
<1>4. 0 \in Done
  <2>1. ByteBits * 0 = 0 /\ 0 \in 0 .. n /\ SameUpTo(address, network, bits, 0)
    BY <1>1, BytesFill DEF SameUpTo
  <2>2. h[0].left = IF bits > 0 THEN bits - 0 ELSE 0
    BY <1>1, <1>3
  <2>3. QED
    BY <1>3, <2>1, <2>2
<1>5. ASSUME NEW k \in 1 .. n, k - 1 \in Done
      PROVE  k \in Done
  <2> DEFINE p == ByteBits * (k - 1)
             q == ByteBits * k
             left == h[k - 1].left
             same == h[k - 1].same
             Compared == Part(p, q, left)
  <2>1. k - 1 \in Nat /\ k = (k - 1) + 1 /\ k \in 0 .. n
    BY <1>1
  <2>2. p \in Nat /\ q = p + ByteBits
    BY <2>1, BytesFill
  <2>3. left = (IF bits > p THEN bits - p ELSE 0)
        /\ (same <=> SameUpTo(address, network, bits, p))
    BY <1>5
  <2>4. h[k] = [left |-> IF left >= ByteBits THEN left - ByteBits ELSE 0,
                same |-> same /\ address \cap Compared = network \cap Compared]
    BY <1>3, <2>1 DEF Round, Byte, Part
  <2> HIDE DEF p, q, left, same
  <2>5. /\ (/\ SameUpTo(address, network, bits, p)
            /\ address \cap Compared = network \cap Compared)
             <=> SameUpTo(address, network, bits, q)
        /\ (IF left >= ByteBits THEN left - ByteBits ELSE 0)
             = (IF bits > q THEN bits - q ELSE 0)
    BY <1>1, <2>2, <2>3, RoundCompares
  <2> HIDE DEF Compared
  <2>6. h[k].left = (IF bits > q THEN bits - q ELSE 0)
        /\ (h[k].same <=> SameUpTo(address, network, bits, q))
    <3>1. h[k].left = IF left >= ByteBits THEN left - ByteBits ELSE 0
      BY <2>4
    <3>2. h[k].same = (same /\ address \cap Compared = network \cap Compared)
      BY <2>4
    <3>3. h[k].left = IF bits > q THEN bits - q ELSE 0
      BY <2>5, <3>1
    <3>4. h[k].same <=> SameUpTo(address, network, bits, q)
      BY <2>3, <2>5, <3>2
    <3>5. QED
      BY <3>3, <3>4
  <2>7. QED
    BY <2>1, <2>6 DEF q
<1>6. n \in Done
  <2> HIDE DEF Done
  <2>1. n \in 0 .. n
    BY <1>1
  <2>2. QED
    BY <1>1, <1>4, <1>5, <2>1, Induction
<1>7. h[n].same <=> SameUpTo(address, network, bits, AddressBits)
  BY <1>6, BytesFill DEF n
<1>8. SameUpTo(address, network, bits, AddressBits) <=> SamePrefix(address, network, mask)
  BY AddressBitsAssumption DEF SameUpTo, SamePrefix, Bit, bits, Capped
<1>9. QED
  BY <1>3, <1>7, <1>8
-----------------------------------------------------------------------------
(* The entries of a section that are parsed.                               *)

\* Where they are in the file: in front of any entry that throws.
Positions(section) ==
  {i \in 1 .. Len(Entries(section)) :
     /\ Entries(section)[i] # Skipped
     /\ \A j \in 1 .. i : Entries(section)[j] # Broken}

LEMMA EntriesType ==
  ASSUME NEW E, NEW section \in Section(E)
  PROVE  /\ Entries(section) \in Seq(E \cup {Skipped, Broken})
         /\ Len(Entries(section)) \in Nat
         /\ DOMAIN Entries(section) = 1 .. Len(Entries(section))
         /\ \A i \in 1 .. Len(Entries(section)) :
              Entries(section)[i] \in E \cup {Skipped, Broken}
<1>1. Entries(section) \in Seq(E \cup {Skipped, Broken})
  BY EmptySeq DEF Entries, Section
<1>2. QED
  BY <1>1

\* Whether an entry throws or not, its section is read up to there.
LEMMA ParsedPart ==
  ASSUME NEW E, NEW section \in Section(E)
  PROVE  \E parsed \in Seq(E \cup {Skipped, Broken}) :
           /\ Objects(section) = Without(parsed, {Skipped})
           /\ {i \in 1 .. Len(parsed) : parsed[i] \notin {Skipped}} = Positions(section)
           /\ Len(parsed) <= Len(Entries(section))
           /\ \A i \in 1 .. Len(parsed) : parsed[i] = Entries(section)[i]
<1> DEFINE entries == Entries(section)
           n == Len(entries)
           T == {i \in 1 .. n : entries[i] = Broken}
<1>1. /\ entries \in Seq(E \cup {Skipped, Broken}) /\ n \in Nat
      /\ Positions(section) = {i \in 1 .. n : /\ entries[i] # Skipped
                                              /\ \A j \in 1 .. i : entries[j] # Broken}
  BY EntriesType DEF Positions
<1> HIDE DEF entries, n
<1>2. CASE T = {}
  <2>1. Objects(section) = Without(entries, {Skipped})
    BY <1>2 DEF Objects, SelectInSeq, entries, n
  <2>2. {i \in 1 .. n : entries[i] \notin {Skipped}} = Positions(section)
    BY <1>1, <1>2
  <2>3. QED
    BY <1>1, <2>1, <2>2 DEF entries, n
<1>3. CASE T # {}
  <2> DEFINE t == Min(T)
             parsed == SubSeq(entries, 1, t - 1)
  <2>1. T \subseteq Nat
    BY <1>1
  <2>2. t \in T /\ \A i \in T : t <= i
    BY <1>3, <2>1, MinOf
  <2>3. t \in 1 .. n /\ t \in Nat /\ t # 0 /\ entries[t] = Broken
    BY <1>1, <2>2
  <2>4. Objects(section) = Without(parsed, {Skipped})
    BY <1>3, <2>3 DEF Objects, SelectInSeq, entries, n
  <2> HIDE DEF t
  <2>5. /\ parsed \in Seq(E \cup {Skipped, Broken}) /\ Len(parsed) = t - 1
        /\ \A i \in 1 .. t - 1 : parsed[i] = entries[i]
    BY <1>1, <2>3 DEF n
  <2> HIDE DEF parsed
  <2>6. \A i \in 1 .. n : (\A j \in 1 .. i : entries[j] # Broken) <=> i \in 1 .. t - 1
    <3>1. ASSUME NEW i \in 1 .. n, \A j \in 1 .. i : entries[j] # Broken
          PROVE  i \in 1 .. t - 1
      <4>1. t \notin 1 .. i
        BY <2>3, <3>1
      <4>2. QED
        BY <2>3, <4>1
    <3>2. ASSUME NEW i \in 1 .. t - 1, NEW j \in 1 .. i, entries[j] = Broken
          PROVE  FALSE
      <4>1. j \in 1 .. n /\ j < t
        BY <1>1, <2>3, <3>2
      <4>2. QED
        BY <1>1, <2>2, <2>3, <3>2, <4>1
    <3>3. QED
      BY <3>1, <3>2
  <2>7. \A i \in 1 .. t - 1 : i \in 1 .. n
    BY <1>1, <2>3
  <2>8. {i \in 1 .. t - 1 : parsed[i] \notin {Skipped}} = Positions(section)
    BY <1>1, <2>5, <2>6, <2>7
  <2>9. t - 1 <= n
    BY <1>1, <2>3
  <2>10. QED
    BY <2>4, <2>5, <2>8, <2>9 DEF entries, n
<1>4. QED
  BY <1>2, <1>3

LEMMA ObjectsPick ==
  ASSUME NEW E, NEW section \in Section(E)
  PROVE  /\ Objects(section) \in Seq(E)
         /\ \E place : Picks(Objects(section), Entries(section), Positions(section), place)
<1> DEFINE entries == Entries(section)
           objects == Objects(section)
<1>1. PICK parsed \in Seq(E \cup {Skipped, Broken}) :
           /\ Objects(section) = Without(parsed, {Skipped})
           /\ {i \in 1 .. Len(parsed) : parsed[i] \notin {Skipped}} = Positions(section)
           /\ Len(parsed) <= Len(Entries(section))
           /\ \A i \in 1 .. Len(parsed) : parsed[i] = Entries(section)[i]
  BY ParsedPart
<1>2. /\ objects \in Seq(E \cup {Skipped, Broken})
      /\ \E place : Filters(objects, parsed, Len(parsed), {Skipped}, place)
  BY <1>1, WithoutFilters
<1>3. PICK place : Picks(objects, parsed, Positions(section), place)
  BY <1>1, <1>2 DEF Filters
<1>4. \A i \in Positions(section) : i \in 1 .. Len(parsed) /\ parsed[i] = entries[i]
  <2>1. \A i \in {i \in 1 .. Len(parsed) : parsed[i] \notin {Skipped}} : i \in 1 .. Len(parsed)
    OBVIOUS
  <2>2. QED
    BY <1>1, <2>1
<1> HIDE DEF objects
<1>5. Picks(objects, entries, Positions(section), place)
  BY <1>3, <1>4 DEF Picks
<1>6. ASSUME NEW k \in 1 .. Len(objects)
      PROVE  objects[k] \in E
  <2>1. place[k] \in Positions(section) /\ objects[k] = entries[place[k]]
    BY <1>5 DEF Picks
  <2>2. /\ place[k] \in 1 .. Len(entries) /\ entries[place[k]] # Skipped
        /\ \A j \in 1 .. place[k] : entries[j] # Broken
    BY <2>1 DEF Positions
  <2>3. Len(entries) \in Nat /\ entries[place[k]] \in E \cup {Skipped, Broken}
    BY <2>2, EntriesType
  <2>4. place[k] \in 1 .. place[k]
    BY <2>2, <2>3
  <2>5. QED
    BY <2>1, <2>2, <2>3, <2>4
<1>7. objects \in Seq(E)
  <2>1. /\ Len(objects) \in Nat /\ DOMAIN objects = 1 .. Len(objects)
        /\ objects = [k \in 1 .. Len(objects) |-> objects[k]]
    BY <1>2
  <2>2. QED
    BY <1>6, <2>1, IsASeq
<1>8. QED
  BY <1>5, <1>7 DEF objects
-----------------------------------------------------------------------------
(* The profiles that a policy gets.                                        *)

LEMMA FindProfileType ==
  ASSUME NEW profiles \in Seq(Profile), NEW name
  PROVE  LET J == {j \in 1 .. Len(profiles) : profiles[j].name = name}
         IN  /\ J = {} => FindProfile(profiles, name) = <<>>
             /\ J # {} => /\ Min(J) \in 1 .. Len(profiles)
                          /\ FindProfile(profiles, name) = <<profiles[Min(J)]>>
             /\ FindProfile(profiles, name) \in Seq(Range(profiles))
<1> DEFINE J == {j \in 1 .. Len(profiles) : profiles[j].name = name}
           first == IF J # {} THEN Min(J) ELSE 0
<1>1. /\ J \subseteq Nat /\ 0 \notin J
      /\ \A j \in 1 .. Len(profiles) : profiles[j] \in Range(profiles)
  BY DEF Range
<1>2. FindProfile(profiles, name) = IF first = 0 THEN <<>> ELSE <<profiles[first]>>
  BY DEF FindProfile, SelectInSeq
<1>3. CASE J = {}
  BY <1>2, <1>3
<1>4. CASE J # {}
  <2>1. Min(J) \in J
    BY <1>1, <1>4, MinOf
  <2>2. Min(J) \in 1 .. Len(profiles) /\ first # 0 /\ first = Min(J)
    BY <1>1, <1>4, <2>1
  <2>3. profiles[Min(J)] \in Range(profiles)
    BY <1>1, <2>2
  <2>4. FindProfile(profiles, name) = <<profiles[Min(J)]>>
    BY <1>2, <2>2
  <2>5. <<profiles[Min(J)]>> \in Seq(Range(profiles))
    <3> HIDE DEF J
    <3>1. QED
      BY <2>3
  <2>6. QED
    BY <1>4, <2>2, <2>4, <2>5
<1>5. QED
  BY <1>3, <1>4

\* The loop over the names of a policy: h[k] after k names.
Attaching(h, profiles, names) ==
  /\ h \in [0 .. Len(names) -> Seq(Range(profiles))]
  /\ h[0] = <<>>
  /\ h[Len(names)] = Attached(profiles, names)
  /\ \A k \in 1 .. Len(names) : h[k] = h[k - 1] \o FindProfile(profiles, names[k])

LEMMA AttachedSteps ==
  ASSUME NEW profiles \in Seq(Profile), NEW names \in Seq(ProfileName)
  PROVE  \E h : Attaching(h, profiles, names)
<1> DEFINE n == Len(names)
           D == Seq(Range(profiles))
           Keep(attached, i) == attached \o FindProfile(profiles, names[i])
           step == [x \in (1 .. n) \X D |-> Keep(x[2], x[1])]
           iter == CHOOSE f : f = [s \in SUBSET (DOMAIN names) |->
                                     IF s = {} THEN <<>>
                                     ELSE Keep(f[s \ {Max(s)}], Max(s))]
<1>1. n \in Nat /\ DOMAIN names = 1 .. n
  OBVIOUS
<1>2. Attached(profiles, names) = iter[DOMAIN names]
  BY DEF Attached, FoldLeft, MapThenFoldSet
<1>3. \A attached \in D, i \in 1 .. n : Keep(attached, i) \in D
  BY FindProfileType, ConcatProperties
<1>4. step \in [(1 .. n) \X D -> D]
  <2> HIDE DEF Keep, D
  <2>1. QED
    BY <1>3
<1>5. <<>> \in D
  BY EmptySeq
<1> HIDE DEF D
<1>6. PICK g : Folds(g, n, D, <<>>, step)
  <2> HIDE DEF step
  <2>1. QED
    BY <1>1, <1>4, <1>5, FoldSolution
<1>7. g = [s \in SUBSET (DOMAIN names) |->
             IF s = {} THEN <<>> ELSE Keep(g[s \ {Max(s)}], Max(s))]
  <2>1. ASSUME NEW s \in SUBSET (1 .. n), s # {}
        PROVE  g[s] = Keep(g[s \ {Max(s)}], Max(s))
    <3>1. Max(s) \in 1 .. n
      BY <1>1, <2>1, MaxMember
    <3>2. g[s \ {Max(s)}] \in D
      BY <1>6 DEF Folds
    <3>3. g[s] = step[<<Max(s), g[s \ {Max(s)}]>>]
      BY <1>6, <2>1 DEF Folds
    <3> HIDE DEF Keep
    <3>4. QED
      BY <3>1, <3>2, <3>3
  <2>2. \A s \in SUBSET (1 .. n) :
          g[s] = IF s = {} THEN <<>> ELSE Keep(g[s \ {Max(s)}], Max(s))
    BY <1>6, <2>1 DEF Folds
  <2>3. g = [s \in SUBSET (1 .. n) |-> g[s]]
    BY <1>6 DEF Folds
  <2> HIDE DEF Keep, step
  <2>4. QED
    BY <1>1, <2>2, <2>3
<1>8. iter = [s \in SUBSET (DOMAIN names) |->
                IF s = {} THEN <<>> ELSE Keep(iter[s \ {Max(s)}], Max(s))]
  BY <1>7
<1> HIDE DEF iter, step
<1> DEFINE h == [k \in 0 .. n |-> iter[1 .. k]]
<1>9. h[0] = <<>>
  BY <1>1, <1>8, LastTaken
<1>10. ASSUME NEW k \in 1 .. n
       PROVE  h[k] = Keep(h[k - 1], k)
  <2>1. k \in Nat /\ k # 0 /\ 1 .. k \in SUBSET (DOMAIN names)
    BY <1>1
  <2>2. 1 .. k # {} /\ Max(1 .. k) = k /\ (1 .. k) \ {Max(1 .. k)} = 1 .. k - 1
    BY <2>1, LastTaken
  <2> HIDE DEF Keep
  <2>3. iter[1 .. k] = Keep(iter[1 .. k - 1], k)
    BY <1>8, <2>1, <2>2
  <2>4. k \in 0 .. n /\ k - 1 \in 0 .. n
    BY <1>1
  <2>5. QED
    BY <2>3, <2>4
<1>11. h = [k \in 0 .. n |-> h[k]] /\ h[n] = Attached(profiles, names)
  BY <1>1, <1>2
<1> HIDE DEF h
<1> DEFINE Typed == {k \in 0 .. n : h[k] \in D}
<1>12. 0 \in Typed
  BY <1>1, <1>5, <1>9
<1>13. ASSUME NEW k \in 1 .. n, k - 1 \in Typed
       PROVE  k \in Typed
  <2>1. h[k] \in D
    <3> HIDE DEF Keep
    <3>1. QED
      BY <1>3, <1>10, <1>13
  <2>2. k \in 0 .. n
    BY <1>1
  <2>3. QED
    BY <2>1, <2>2
<1> HIDE DEF Typed
<1>14. \A k \in 0 .. n : k \in Typed
  BY <1>1, <1>12, <1>13, Induction
<1>15. h \in [0 .. n -> D]
  BY <1>11, <1>14 DEF Typed
<1>16. Attaching(h, profiles, names)
  BY <1>9, <1>10, <1>11, <1>15 DEF Attaching, D
<1>17. QED
  BY <1>16

LEMMA AttachedType ==
  ASSUME NEW profiles \in Seq(Profile), NEW names \in Seq(ProfileName)
  PROVE  /\ Attached(profiles, names) \in Seq(Range(profiles))
         /\ Attached(profiles, names) \in Seq(Profile)
<1>1. PICK h : Attaching(h, profiles, names)
  BY AttachedSteps
<1>2. Len(names) \in 0 .. Len(names)
  OBVIOUS
<1>3. Attached(profiles, names) \in Seq(Range(profiles))
  BY <1>1, <1>2 DEF Attaching
<1>4. Range(profiles) \subseteq Profile
  BY RangeOfSeq
<1>5. QED
  BY <1>3, <1>4, SeqMonotonic
-----------------------------------------------------------------------------
(* The policies that a section becomes, and what they decide.              *)

ParsedPolicies(section, profiles) ==
  [k \in DOMAIN Objects(section) |-> SecurityPolicy(profiles, Objects(section)[k])]

\* No policy of the file is left out, and the final deny is behind them.
Complete(section) == section \notin {Absent, Mistyped} /\ ~ Throws(section)

PoliciesOf(section, profiles) ==
  IF section \in {Absent, Mistyped} \/ Throws(section)
  THEN ParsedPolicies(section, profiles)
  ELSE ParsedPolicies(section, profiles) \o <<DenyAll>>

LEMMA MaskType ==
  ASSUME NEW number \in Int
  PROVE  Mask(number) \in 0 .. MaskModulus - 1 /\ Mask(number) \in Nat
<1>1. MaskModulus \in Nat /\ MaskModulus > 0
  BY MaskAssumption, AddressBitsAssumption
<1>2. QED
  BY <1>1 DEF Mask

LEMMA SecurityPolicyFields ==
  ASSUME NEW entry \in PolicyEntry, NEW profiles \in Seq(Profile)
  PROVE  LET policy == SecurityPolicy(profiles, entry)
         IN  /\ policy.network_from = entry.src_network
             /\ policy.network_from_mask = Mask(entry.src_mask)
             /\ policy.network_to = entry.dest_network
             /\ policy.network_to_mask = Mask(entry.dest_mask)
             /\ policy.action = Action(entry.action)
             /\ policy.action \in {"Allow", "Deny"}
             /\ policy.security_profiles = Attached(profiles, entry.security_profiles)
             /\ policy.security_profiles \in Seq(Profile)
             /\ policy.security_profiles \in Seq(Range(profiles))
<1>1. entry.security_profiles \in Seq(ProfileName)
  BY DEF PolicyEntry
<1>2. /\ Attached(profiles, entry.security_profiles) \in Seq(Range(profiles))
      /\ Attached(profiles, entry.security_profiles) \in Seq(Profile)
  BY <1>1, AttachedType
<1>3. QED
  BY <1>2 DEF SecurityPolicy, Networks, Action

LEMMA PolicyConcerns ==
  ASSUME NEW entry \in PolicyEntry, NEW profiles \in Seq(Profile), NEW src, NEW dst
  PROVE  does_match_policy(SecurityPolicy(profiles, entry), src, dst)
           <=> Concerns(entry, src, dst)
<1>1. /\ entry.src_mask \in Int /\ entry.dest_mask \in Int
  BY DEF PolicyEntry
<1>2. Mask(entry.src_mask) \in Nat /\ Mask(entry.dest_mask) \in Nat
  BY <1>1, MaskType
<1>3. /\ matchesNetwork(src, entry.src_network, Mask(entry.src_mask))
           <=> SamePrefix(src, entry.src_network, Mask(entry.src_mask))
      /\ matchesNetwork(dst, entry.dest_network, Mask(entry.dest_mask))
           <=> SamePrefix(dst, entry.dest_network, Mask(entry.dest_mask))
  BY <1>2, MatchesPrefix
<1>4. QED
  BY <1>3, SecurityPolicyFields DEF does_match_policy, Concerns, Mask

LEMMA DenyAllMatches ==
  ASSUME NEW src, NEW dst
  PROVE  does_match_policy(DenyAll, src, dst)
<1>1. SamePrefix(src, Zero, 0) /\ SamePrefix(dst, Zero, 0)
  BY AddressBitsAssumption DEF SamePrefix, Bit
<1>2. matchesNetwork(src, Zero, 0) /\ matchesNetwork(dst, Zero, 0)
  BY <1>1, MatchesPrefix
<1>3. QED
  BY <1>2 DEF does_match_policy, DenyAll

\* The policies, entry by entry, and the deny behind them.
LEMMA PoliciesFields ==
  ASSUME NEW section \in Section(PolicyEntry), NEW profiles \in Seq(Profile)
  PROVE  LET objects == Objects(section)
             policies == PoliciesOf(section, profiles)
         IN  /\ \E S : policies \in Seq(S)
             /\ Len(policies) = IF Complete(section) THEN Len(objects) + 1 ELSE Len(objects)
             /\ DOMAIN policies = 1 .. Len(policies)
             /\ \A k \in 1 .. Len(objects) :
                  policies[k] = SecurityPolicy(profiles, objects[k])
             /\ Complete(section) => policies[Len(objects) + 1] = DenyAll
<1> DEFINE objects == Objects(section)
           parsed == ParsedPolicies(section, profiles)
           Policy == {parsed[k] : k \in DOMAIN parsed} \cup {DenyAll}
<1>1. /\ objects \in Seq(PolicyEntry) /\ Len(objects) \in Nat
      /\ DOMAIN objects = 1 .. Len(objects)
  BY ObjectsPick
<1>2. /\ DOMAIN parsed = 1 .. Len(objects)
      /\ \A k \in 1 .. Len(objects) : parsed[k] = SecurityPolicy(profiles, objects[k])
      /\ parsed = [k \in 1 .. Len(objects) |-> parsed[k]]
  BY <1>1 DEF ParsedPolicies
<1> HIDE DEF objects, parsed
<1>3. parsed \in Seq(Policy) /\ Len(parsed) = Len(objects)
  BY <1>1, <1>2, IsASeq
<1>4. <<DenyAll>> \in Seq(Policy) /\ Len(<<DenyAll>>) = 1
  <2> HIDE DEF Policy
  <2>1. DenyAll \in Policy
    BY DEF Policy
  <2>2. QED
    BY <2>1
<1> HIDE DEF Policy
<1>5. /\ parsed \o <<DenyAll>> \in Seq(Policy)
      /\ Len(parsed \o <<DenyAll>>) = Len(objects) + 1
      /\ \A i \in 1 .. Len(objects) + 1 :
           (parsed \o <<DenyAll>>)[i] = IF i <= Len(objects) THEN parsed[i]
                                        ELSE <<DenyAll>>[i - Len(objects)]
  BY <1>3, <1>4, ConcatProperties
<1>6. CASE Complete(section)
  <2>1. PoliciesOf(section, profiles) = parsed \o <<DenyAll>>
    BY <1>6 DEF PoliciesOf, Complete, parsed
  <2>2. (parsed \o <<DenyAll>>)[Len(objects) + 1] = DenyAll
    BY <1>1, <1>5
  <2>3. \A k \in 1 .. Len(objects) : (parsed \o <<DenyAll>>)[k] = parsed[k]
    BY <1>1, <1>5
  <2>4. DOMAIN (parsed \o <<DenyAll>>) = 1 .. Len(objects) + 1
    BY <1>5
  <2>5. QED
    BY <1>2, <1>5, <1>6, <2>1, <2>2, <2>3, <2>4 DEF objects
<1>7. CASE ~ Complete(section)
  <2>1. PoliciesOf(section, profiles) = parsed
    BY <1>7 DEF PoliciesOf, Complete, parsed
  <2>2. QED
    BY <1>2, <1>3, <1>7, <2>1 DEF objects
<1>8. QED
  BY <1>6, <1>7

\* The entries of the section that are about a packet.
About(section, src, dst) ==
  {k \in Positions(section) : Concerns(Entries(section)[k], src, dst)}

(* The loop over the policies says what the first entry of the section says *)
(* that concerns the packet; if there is none, it denies when the section   *)
(* was read to its end, and says nothing when it was not.                   *)
THEOREM VerdictOfPolicies ==
  ASSUME NEW section \in Section(PolicyEntry), NEW profiles \in Seq(Profile),
         NEW src, NEW dst
  PROVE  LET hits == About(section, src, dst)
             verdict == Verdict(PoliciesOf(section, profiles), src, dst)
         IN  /\ hits # {} =>
                  /\ verdict # NoVerdict
                  /\ verdict.action = Action(Entries(section)[Earliest(hits)].action)
             /\ hits = {} /\ Complete(section) =>
                  verdict # NoVerdict /\ verdict.action = "Deny"
             /\ hits = {} /\ ~ Complete(section) => verdict = NoVerdict
<1> DEFINE hits == About(section, src, dst)
           policies == PoliciesOf(section, profiles)
           objects == Objects(section)
           m == Len(objects)
           n == Len(policies)
           I == {i \in 1 .. n : does_match_policy(policies[i], src, dst)}
           first == IF I # {} THEN Min(I) ELSE 0
           Said(i) == [action |-> policies[i].action,
                       security_profiles |-> policies[i].security_profiles]
<1>1. /\ objects \in Seq(PolicyEntry) /\ m \in Nat
      /\ \A k \in 1 .. m : objects[k] \in PolicyEntry
  BY ObjectsPick
<1>2. PICK place : Picks(objects, Entries(section), Positions(section), place)
  BY ObjectsPick
<1>3. /\ n = IF Complete(section) THEN m + 1 ELSE m
      /\ \A k \in 1 .. m : policies[k] = SecurityPolicy(profiles, objects[k])
      /\ Complete(section) => policies[m + 1] = DenyAll
  BY PoliciesFields
<1>4. Verdict(policies, src, dst) = IF first = 0 THEN NoVerdict ELSE Said(first)
  BY DEF Verdict, SelectInSeq
<1>5. hits \in SUBSET Positions(section) /\ Positions(section) \subseteq Nat
  BY DEF About, Positions
<1> DEFINE K == Picked(objects, place, hits)
<1> HIDE DEF objects, m, policies, n
<1>6. ASSUME NEW k \in 1 .. m
      PROVE  /\ place[k] \in Positions(section) /\ objects[k] = Entries(section)[place[k]]
             /\ does_match_policy(policies[k], src, dst) <=> place[k] \in hits
  <2>1. place[k] \in Positions(section) /\ objects[k] = Entries(section)[place[k]]
    BY <1>2 DEF Picks, m
  <2>2. does_match_policy(policies[k], src, dst) <=> Concerns(objects[k], src, dst)
    BY <1>1, <1>3, PolicyConcerns
  <2>3. QED
    BY <2>1, <2>2 DEF About
<1>7. I \subseteq Nat /\ 0 \notin I /\ K \subseteq I
  BY <1>1, <1>3, <1>6 DEF Picked, m
<1>8. \A i \in I : i \in K \/ (Complete(section) /\ i = m + 1)
  BY <1>1, <1>3, <1>6 DEF Picked, m
<1>9. Complete(section) => m + 1 \in I
  <2>1. SUFFICES ASSUME Complete(section) PROVE m + 1 \in I
    OBVIOUS
  <2>2. m + 1 \in 1 .. n /\ policies[m + 1] = DenyAll
    BY <1>1, <1>3, <2>1
  <2>3. QED
    BY <2>2, DenyAllMatches
<1> HIDE DEF I, hits
<1>10. CASE hits # {}
  <2>1. K # {} /\ Min(K) \in K /\ place[Min(K)] = Earliest(hits)
    BY <1>1, <1>2, <1>5, <1>10, FirstPicked
  <2> DEFINE k == Min(K)
  <2>2. K \subseteq Nat /\ \A j \in K : k <= j
    BY <1>7, <2>1, MinOf
  <2>3. k \in 1 .. m /\ k \in I
    BY <1>7, <2>1 DEF Picked, m
  <2> HIDE DEF k
  <2>4. \A j \in I : k <= j
    BY <1>1, <1>8, <2>2, <2>3
  <2>5. first = k /\ first # 0
    BY <1>7, <2>3, <2>4, LeastIsMin
  <2>6. Verdict(policies, src, dst) = Said(k)
    BY <1>4, <2>5
  <2>7. /\ policies[k].action = Action(objects[k].action)
        /\ policies[k].action \in {"Allow", "Deny"}
        /\ policies[k].security_profiles \in Seq(Profile)
    BY <1>1, <1>3, <2>3, SecurityPolicyFields
  <2>8. Said(k) # NoVerdict
    BY <2>7, FileAssumption
  <2>9. objects[k] = Entries(section)[Earliest(hits)]
    BY <1>6, <2>1, <2>3 DEF k
  <2>10. QED
    BY <1>10, <2>6, <2>7, <2>8, <2>9 DEF policies, hits
<1>11. CASE hits = {} /\ Complete(section)
  <2>1. I = {m + 1} /\ I # {}
    <3>1. K = {}
      BY <1>11 DEF Picked
    <3>2. QED
      BY <1>8, <1>9, <1>11, <3>1
  <2>2. Min(I) = m + 1
    <3>1. m + 1 \in I /\ \A j \in I : m + 1 <= j
      BY <1>1, <2>1
    <3>2. QED
      BY <1>7, <3>1, LeastIsMin
  <2>3. Verdict(policies, src, dst) = [action |-> "Deny", security_profiles |-> <<>>]
    <3>1. first = m + 1 /\ m + 1 # 0
      BY <1>1, <2>1, <2>2
    <3>2. Verdict(policies, src, dst) = Said(m + 1)
      BY <1>4, <3>1
    <3>3. policies[m + 1] = DenyAll
      BY <1>3, <1>11
    <3>4. DenyAll.action = "Deny" /\ DenyAll.security_profiles = <<>>
      BY DEF DenyAll
    <3>5. QED
      BY <3>2, <3>3, <3>4
  <2>4. [action |-> "Deny", security_profiles |-> <<>>]
          \in [action : {"Allow", "Deny"}, security_profiles : Seq(Profile)]
    BY EmptySeq
  <2>5. [action |-> "Deny", security_profiles |-> <<>>] # NoVerdict
    BY <2>4, FileAssumption
  <2>6. QED
    BY <1>11, <2>3, <2>5 DEF policies, hits
<1>12. CASE hits = {} /\ ~ Complete(section)
  <2>1. I = {}
    <3>1. K = {}
      BY <1>12 DEF Picked
    <3>2. QED
      BY <1>8, <1>12, <3>1
  <2>2. QED
    BY <1>4, <1>12, <2>1 DEF policies, hits
<1>13. QED
  BY <1>10, <1>11, <1>12 DEF hits, policies
-----------------------------------------------------------------------------
(* The names of profiles.                                                  *)

LEMMA ProfilesType ==
  ASSUME NEW section \in Section(ProfileEntry), NEW default \in ProfileName
  PROVE  LET objects == Objects(section)
             profiles == Profiles(section, default)
         IN  /\ profiles \in Seq(Profile)
             /\ Len(profiles) = Len(objects)
             /\ \A k \in 1 .. Len(objects) :
                  /\ profiles[k].name = IF objects[k].name = Unnamed THEN default
                                        ELSE objects[k].name
                  /\ profiles[k].list = objects[k].list
<1> DEFINE objects == Objects(section)
           n == Len(objects)
           As(entry) == [entry EXCEPT !.name = IF @ = Unnamed THEN default ELSE @]
           profiles == [k \in 1 .. n |-> As(objects[k])]
<1>1. /\ objects \in Seq(ProfileEntry) /\ n \in Nat /\ DOMAIN objects = 1 .. n
      /\ \A k \in 1 .. n : objects[k] \in ProfileEntry
  BY ObjectsPick
<1>2. Profiles(section, default) = profiles
  BY <1>1 DEF Profiles
<1> HIDE DEF objects, n
<1>3. ASSUME NEW entry \in ProfileEntry
      PROVE  /\ As(entry) \in Profile
             /\ As(entry).name = IF entry.name = Unnamed THEN default ELSE entry.name
             /\ As(entry).list = entry.list
  BY DEF ProfileEntry, Profile
<1> HIDE DEF As
<1>4. \A k \in 1 .. n : profiles[k] = As(objects[k]) /\ profiles[k] \in Profile
  BY <1>1, <1>3
<1>5. profiles \in Seq(Profile) /\ Len(profiles) = n
  BY <1>1, <1>4, IsASeq
<1>6. QED
  BY <1>1, <1>2, <1>3, <1>4, <1>5 DEF objects, n

\* What a section of the file says of a name, and what the parsed profiles do.
Agree(found, meant) ==
  \/ found = <<>> /\ meant = <<>>
  \/ \E profile \in Profile : found = <<profile>> /\ meant = <<profile.list>>

LEMMA NamedFinds ==
  ASSUME NEW section \in Section(ProfileEntry), NEW default \in ProfileName, NEW name,
         ~ Throws(section)
  PROVE  Agree(FindProfile(Profiles(section, default), name),
               Named(section, default, name))
<1> DEFINE objects == Objects(section)
           n == Len(objects)
           profiles == Profiles(section, default)
           entries == Entries(section)
           NameOf(entry) == IF entry.name = Unnamed THEN default ELSE entry.name
           hits == {k \in DOMAIN Entries(section) :
                      /\ section[k] # Skipped
                      /\ name = IF section[k].name = Unnamed THEN default
                                ELSE section[k].name}
           J == {j \in 1 .. Len(profiles) : profiles[j].name = name}
<1>1. PICK place : Picks(objects, entries, Positions(section), place)
  BY ObjectsPick
<1>2. /\ profiles \in Seq(Profile) /\ Len(profiles) = n /\ n \in Nat
      /\ objects \in Seq(ProfileEntry)
      /\ \A k \in 1 .. n : /\ profiles[k].name = NameOf(objects[k])
                           /\ profiles[k].list = objects[k].list
                           /\ profiles[k] \in Profile
  BY ProfilesType, ObjectsPick
<1>3. \A i \in DOMAIN entries : entries[i] = section[i]
  BY DEF Entries
<1>4. /\ DOMAIN entries = 1 .. Len(entries) /\ Len(entries) \in Nat
      /\ entries \in Seq(ProfileEntry \cup {Skipped, Broken})
  BY EntriesType
<1>5. \A i \in DOMAIN entries : entries[i] # Broken
  BY <1>4 DEF Throws, Contains
<1>6. Positions(section) = {i \in DOMAIN entries : entries[i] # Skipped}
  BY <1>4, <1>5 DEF Positions
<1>7. /\ Positions(section) \subseteq Nat /\ hits \in SUBSET Positions(section)
      /\ \A i \in Positions(section) :
           entries[i] = section[i] /\ (i \in hits <=> name = NameOf(section[i]))
  BY <1>3, <1>4, <1>6
<1>8. Named(section, default, name) =
        IF hits = {} THEN <<>> ELSE <<section[Earliest(hits)].list>>
  BY DEF Named, Earliest
<1> HIDE DEF hits, profiles, objects, entries, n
<1>9. Picked(objects, place, hits) = J
  <2>1. ASSUME NEW k \in 1 .. n
        PROVE  place[k] \in hits <=> profiles[k].name = name
    <3>1. place[k] \in Positions(section) /\ objects[k] = entries[place[k]]
      BY <1>1 DEF Picks, n
    <3>2. objects[k] = section[place[k]]
      BY <1>7, <3>1
    <3>3. place[k] \in hits <=> name = NameOf(objects[k])
      BY <1>7, <3>1, <3>2
    <3>4. QED
      BY <1>2, <3>3
  <2>2. Len(objects) = n /\ Len(profiles) = n
    BY <1>2 DEF n
  <2>3. QED
    BY <2>1, <2>2 DEF Picked
<1>10. CASE hits = {}
  <2>1. J = {}
    BY <1>9, <1>10 DEF Picked
  <2>2. FindProfile(profiles, name) = <<>>
    BY <1>2, <2>1, FindProfileType
  <2>3. QED
    BY <1>8, <1>10, <2>2 DEF Agree, profiles
<1>11. CASE hits # {}
  <2>1. J # {} /\ Min(J) \in J /\ place[Min(J)] = Earliest(hits)
    <3> HIDE DEF J
    <3>1. QED
      BY <1>1, <1>2, <1>7, <1>9, <1>11, FirstPicked
  <2>2. FindProfile(profiles, name) = <<profiles[Min(J)]>>
    BY <1>2, <2>1, FindProfileType
  <2> DEFINE k == Min(J)
  <2>3. k \in 1 .. n
    BY <1>2, <2>1
  <2> HIDE DEF k
  <2>4. objects[k] = entries[place[k]] /\ place[k] \in Positions(section)
    BY <1>1, <2>3 DEF Picks, n
  <2>5. profiles[k].list = section[place[k]].list /\ profiles[k] \in Profile
    BY <1>2, <1>7, <2>3, <2>4
  <2>6. Named(section, default, name) = <<profiles[k].list>>
    BY <1>8, <1>11, <2>1, <2>5 DEF k
  <2>7. QED
    BY <2>2, <2>5, <2>6 DEF Agree, profiles, k
<1>12. QED
  BY <1>10, <1>11

\* A name is looked for in the second list if the first does not have it.
LEMMA FindInBoth ==
  ASSUME NEW url \in Seq(Profile), NEW am \in Seq(Profile), NEW name
  PROVE  FindProfile(url \o am, name) =
           IF FindProfile(url, name) # <<>> THEN FindProfile(url, name)
           ELSE FindProfile(am, name)
<1> DEFINE m == Len(url)
           n == Len(am)
           all == url \o am
           U == {j \in 1 .. m : url[j].name = name}
           A == {j \in 1 .. n : am[j].name = name}
           J == {j \in 1 .. Len(all) : all[j].name = name}
<1>1. /\ m \in Nat /\ n \in Nat /\ all \in Seq(Profile) /\ Len(all) = m + n
      /\ \A i \in 1 .. m + n : all[i] = IF i <= m THEN url[i] ELSE am[i - m]
  BY ConcatProperties
<1>2. /\ U = {} => FindProfile(url, name) = <<>>
      /\ U # {} => FindProfile(url, name) = <<url[Min(U)]>>
      /\ A = {} => FindProfile(am, name) = <<>>
      /\ A # {} => FindProfile(am, name) = <<am[Min(A)]>>
      /\ J = {} => FindProfile(all, name) = <<>>
      /\ J # {} => FindProfile(all, name) = <<all[Min(J)]>>
  BY <1>1, FindProfileType
<1> HIDE DEF m, n, all
<1>3. U \subseteq Nat /\ A \subseteq Nat /\ J \subseteq Nat
  BY <1>1
<1>4. \A j \in 1 .. m : j \in U <=> j \in J
  BY <1>1
<1>5. \A j \in 1 .. n : j + m \in 1 .. m + n /\ (j \in A <=> j + m \in J)
  <2>1. \A j \in 1 .. n : j + m \in 1 .. m + n /\ all[j + m] = am[j]
    BY <1>1
  <2>2. QED
    BY <1>1, <2>1
<1>6. \A j \in J : j \in 1 .. m \/ \E i \in 1 .. n : j = i + m
  <2>1. ASSUME NEW j \in J, j \notin 1 .. m
        PROVE  j - m \in 1 .. n /\ j = (j - m) + m
    BY <1>1, <2>1
  <2>2. QED
    BY <2>1
<1>7. CASE U # {}
  <2>1. Min(U) \in U /\ \A j \in U : Min(U) <= j
    BY <1>3, <1>7, MinOf
  <2> DEFINE u == Min(U)
  <2>2. u \in 1 .. m
    BY <2>1
  <2> HIDE DEF u
  <2>3. u \in J /\ \A j \in J : u <= j
    <3>1. u \in J
      BY <1>4, <2>1, <2>2 DEF u
    <3>2. ASSUME NEW j \in J
          PROVE  u <= j
      <4>1. CASE j \in 1 .. m
        BY <1>4, <2>1, <3>2, <4>1 DEF u
      <4>2. CASE j \notin 1 .. m
        BY <1>1, <2>2, <3>2, <4>2
      <4>3. QED
        BY <4>1, <4>2
    <3>3. QED
      BY <3>1, <3>2
  <2> HIDE DEF J, U
  <2>4. Min(J) = u
    BY <1>3, <2>3, LeastIsMin
  <2>5. all[u] = url[u]
    BY <1>1, <2>2
  <2>6. QED
    BY <1>2, <1>7, <2>3, <2>4, <2>5 DEF u, all
<1>8. CASE U = {} /\ A # {}
  <2>1. Min(A) \in A /\ \A j \in A : Min(A) <= j
    BY <1>3, <1>8, MinOf
  <2> DEFINE a == Min(A)
  <2>2. a \in 1 .. n
    BY <2>1
  <2> HIDE DEF a
  <2>3. a + m \in J
    BY <1>5, <2>1, <2>2 DEF a
  <2>4. ASSUME NEW j \in J
        PROVE  a + m <= j
    <3>1. j \notin 1 .. m
      BY <1>4, <1>8
    <3>2. PICK i \in 1 .. n : j = i + m
      BY <1>6, <3>1
    <3>3. i \in A
      BY <1>5, <3>2
    <3>4. a <= i
      BY <2>1, <3>3 DEF a
    <3>5. QED
      BY <1>1, <2>2, <3>2, <3>4
  <2> HIDE DEF J, A, U
  <2>5. Min(J) = a + m
    BY <1>3, <2>3, <2>4, LeastIsMin
  <2>6. all[a + m] = am[a]
    BY <1>1, <2>2
  <2>7. QED
    BY <1>2, <1>8, <2>3, <2>5, <2>6 DEF a, all
<1>9. CASE U = {} /\ A = {}
  <2>1. J = {}
    BY <1>4, <1>5, <1>6, <1>9
  <2> HIDE DEF J, A, U
  <2>2. QED
    BY <1>2, <1>9, <2>1 DEF all
<1>10. QED
  BY <1>7, <1>8, <1>9

\* What a name means in the file, and what is attached for it.
LEMMA MeantIsFound ==
  ASSUME file \in File, ReadsUpToPolicies, NEW name,
         url_filtering_profiles = Profiles(file.url_filtering_profiles, urldefault),
         antimalware_profiles = Profiles(file.antimalware_profiles, am_default)
  PROVE  Agree(FindProfile(AllProfiles, name), MeantBy(name))
<1> DEFINE url == file.url_filtering_profiles
           am == file.antimalware_profiles
<1>1. url \in Section(ProfileEntry) /\ am \in Section(ProfileEntry)
  BY FileAssumption
<1>2. ~ Throws(url) /\ ~ Throws(am)
  BY DEF ReadsUpToPolicies
<1>3. urldefault \in ProfileName /\ am_default \in ProfileName
  BY FileAssumption
<1>4. /\ url_filtering_profiles \in Seq(Profile)
      /\ antimalware_profiles \in Seq(Profile)
  BY <1>1, <1>3, ProfilesType
<1>5. /\ Agree(FindProfile(url_filtering_profiles, name), Named(url, urldefault, name))
      /\ Agree(FindProfile(antimalware_profiles, name), Named(am, am_default, name))
  BY <1>1, <1>2, <1>3, NamedFinds
<1>6. FindProfile(AllProfiles, name) =
        IF FindProfile(url_filtering_profiles, name) # <<>>
        THEN FindProfile(url_filtering_profiles, name)
        ELSE FindProfile(antimalware_profiles, name)
  BY <1>4, FindInBoth DEF AllProfiles
<1>7. MeantBy(name) = IF Named(url, urldefault, name) # <<>>
                      THEN Named(url, urldefault, name)
                      ELSE Named(am, am_default, name)
  BY DEF MeantBy
<1>8. FindProfile(url_filtering_profiles, name) # <<>>
        <=> Named(url, urldefault, name) # <<>>
  BY <1>5 DEF Agree
<1>9. QED
  BY <1>5, <1>6, <1>7, <1>8

\* The lists of profiles, which the file has too.
Listed(profiles) == [n \in DOMAIN profiles |-> <<profiles[n].list>>]

LEMMA ListedAppend ==
  ASSUME NEW profiles \in Seq(Profile), NEW profile \in Profile
  PROVE  Listed(profiles \o <<profile>>) = Append(Listed(profiles), <<profile.list>>)
<1> DEFINE n == Len(profiles)
           more == profiles \o <<profile>>
           ListOf == {<<x.list>> : x \in Profile}
<1>1. n \in Nat /\ DOMAIN profiles = 1 .. n /\ \A k \in 1 .. n : profiles[k] \in Profile
  OBVIOUS
<1>2. /\ DOMAIN more = 1 .. n + 1
      /\ \A k \in 1 .. n + 1 : more[k] = IF k <= n THEN profiles[k] ELSE profile
  <2>1. <<profile>> \in Seq(Profile) /\ Len(<<profile>>) = 1 /\ <<profile>>[1] = profile
    OBVIOUS
  <2>2. /\ more \in Seq(Profile) /\ Len(more) = n + 1
        /\ \A k \in 1 .. n + 1 :
             more[k] = IF k <= n THEN profiles[k] ELSE <<profile>>[k - n]
    BY <2>1, ConcatProperties
  <2>3. \A k \in 1 .. n + 1 : ~ (k <= n) => k - n = 1
    BY <1>1
  <2> HIDE DEF more, n
  <2>4. QED
    BY <2>1, <2>2, <2>3
<1> HIDE DEF n, more
<1> DEFINE short == Listed(profiles)
           long == Append(short, <<profile.list>>)
<1>3. short = [k \in 1 .. n |-> <<profiles[k].list>>]
  BY <1>1 DEF Listed
<1>4. short \in Seq(ListOf) /\ Len(short) = n
  <2>1. \A k \in 1 .. n : <<profiles[k].list>> \in ListOf
    BY <1>1
  <2> HIDE DEF ListOf, short
  <2>2. QED
    BY <1>1, <1>3, <2>1, IsASeq
<1>5. <<profile.list>> \in ListOf
  OBVIOUS
<1> HIDE DEF ListOf, short
<1>6. /\ long \in Seq(ListOf) /\ Len(long) = n + 1
      /\ \A k \in 1 .. n : long[k] = short[k]
      /\ long[n + 1] = <<profile.list>>
  BY <1>4, <1>5, AppendProperties
<1> HIDE DEF long
<1>7. \A k \in 1 .. n + 1 : long[k] = <<more[k].list>>
  <2>1. ASSUME NEW k \in 1 .. n
        PROVE  long[k] = <<more[k].list>>
    <3>1. k \in 1 .. n + 1 /\ k <= n
      BY <1>1
    <3>2. more[k] = profiles[k]
      BY <1>2, <3>1
    <3>3. long[k] = <<profiles[k].list>>
      BY <1>3, <1>6
    <3>4. QED
      BY <3>2, <3>3
  <2>2. long[n + 1] = <<more[n + 1].list>>
    <3>1. n + 1 \in 1 .. n + 1 /\ ~ (n + 1 <= n)
      BY <1>1
    <3>2. more[n + 1] = profile
      BY <1>2, <3>1
    <3>3. QED
      BY <1>6, <3>2
  <2>3. \A k \in 1 .. n + 1 : k \in 1 .. n \/ k = n + 1
    BY <1>1
  <2>4. QED
    BY <2>1, <2>2, <2>3
<1>8. long = [k \in 1 .. n + 1 |-> long[k]]
  BY <1>1, <1>6
<1>9. Listed(more) = [k \in 1 .. n + 1 |-> <<more[k].list>>]
  BY <1>2 DEF Listed
<1>10. QED
  BY <1>7, <1>8, <1>9 DEF long, short, more

\* The names of a policy that mean something are those that attach a profile.
LEMMA AttachedIsMeant ==
  ASSUME NEW profiles \in Seq(Profile), NEW names \in Seq(ProfileName),
         NEW D, NEW meant \in Seq(D), Len(meant) = Len(names),
         \A k \in 1 .. Len(names) : Agree(FindProfile(profiles, names[k]), meant[k])
  PROVE  Listed(Attached(profiles, names)) = Without(meant, {<<>>})
<1> DEFINE n == Len(names)
<1>1. n \in Nat /\ Len(meant) = n
  OBVIOUS
<1>2. \A k \in 1 .. n : Agree(FindProfile(profiles, names[k]), meant[k])
  OBVIOUS
<1> HIDE DEF n
<1>3. PICK h : Attaching(h, profiles, names)
  BY AttachedSteps
<1>4. PICK f : Keeping(f, D, meant, {<<>>})
  BY WithoutSteps
<1>5. /\ f \in [0 .. n -> Seq(D)] /\ f[0] = <<>> /\ f[n] = Without(meant, {<<>>})
      /\ \A k \in 1 .. n : f[k] = IF meant[k] = <<>> THEN f[k - 1]
                                  ELSE Append(f[k - 1], meant[k])
  BY <1>1, <1>4 DEF Keeping
<1> DEFINE Same == {k \in 0 .. n : Listed(h[k]) = f[k]}
<1>6. 0 \in Same
  <2>1. h[0] = <<>>
    BY <1>3 DEF Attaching
  <2>2. Listed(<<>>) = <<>>
    BY DEF Listed
  <2>3. QED
    BY <1>1, <1>5, <2>1, <2>2
<1>7. ASSUME NEW k \in 1 .. n, k - 1 \in Same
      PROVE  k \in Same
  <2>1. k \in 0 .. n /\ k - 1 \in 0 .. n
    BY <1>1
  <2>2. Listed(h[k - 1]) = f[k - 1]
    BY <1>7
  <2>3. h[k] = h[k - 1] \o FindProfile(profiles, names[k])
    BY <1>3 DEF Attaching, n
  <2>4. h[k - 1] \in Seq(Profile)
    <3>1. h[k - 1] \in Seq(Range(profiles))
      BY <1>3, <2>1 DEF Attaching, n
    <3>2. Range(profiles) \subseteq Profile
      BY RangeOfSeq
    <3>3. QED
      BY <3>1, <3>2, SeqMonotonic
  <2>5. Agree(FindProfile(profiles, names[k]), meant[k])
    BY <1>2
  <2>6. CASE FindProfile(profiles, names[k]) = <<>> /\ meant[k] = <<>>
    <3>1. h[k] = h[k - 1]
      BY <2>3, <2>4, <2>6, ConcatEmptySeq
    <3>2. f[k] = f[k - 1]
      BY <1>1, <1>5, <2>6
    <3>3. QED
      BY <2>1, <2>2, <3>1, <3>2
  <2>7. ASSUME NEW profile \in Profile,
               FindProfile(profiles, names[k]) = <<profile>>, meant[k] = <<profile.list>>
        PROVE  k \in Same
    <3>1. Listed(h[k]) = Append(Listed(h[k - 1]), <<profile.list>>)
      BY <2>3, <2>4, <2>7, ListedAppend
    <3>2. meant[k] # <<>>
      <4>1. Len(<<profile.list>>) = 1 /\ Len(<<>>) = 0
        OBVIOUS
      <4>2. QED
        BY <2>7, <4>1
    <3>3. f[k] = Append(f[k - 1], <<profile.list>>)
      BY <1>1, <1>5, <2>7, <3>2
    <3>4. QED
      BY <2>1, <2>2, <3>1, <3>3
  <2>8. QED
    BY <2>5, <2>6, <2>7 DEF Agree
<1> HIDE DEF Same
<1>8. \A k \in 0 .. n : k \in Same
  BY <1>1, <1>6, <1>7, Induction
<1>9. Listed(h[n]) = f[n]
  <2>1. n \in 0 .. n
    BY <1>1
  <2>2. QED
    BY <1>8, <2>1 DEF Same
<1>10. h[n] = Attached(profiles, names)
  BY <1>3 DEF Attaching, n
<1>11. QED
  BY <1>1, <1>5, <1>9, <1>10

\* The k-th entry that is not skipped is the k-th that is parsed.
LEMMA EntriesAreObjects ==
  ASSUME NEW E, NEW section \in Section(E), NEW k \in 1 .. Len(Objects(section))
  PROVE  Without(Entries(section), {Skipped})[k] = Objects(section)[k]
<1> DEFINE entries == Entries(section)
           kept == Without(entries, {Skipped})
           Q == {i \in 1 .. Len(entries) : entries[i] \notin {Skipped}}
<1>1. /\ entries \in Seq(E \cup {Skipped, Broken}) /\ Len(entries) \in Nat
  BY EntriesType
<1>2. PICK from : Picks(Objects(section), entries, Positions(section), from)
  BY ObjectsPick
<1>3. Objects(section) \in Seq(E)
  BY ObjectsPick
<1>4. PICK to : Filters(kept, entries, Len(entries), {Skipped}, to)
  BY <1>1, WithoutFilters
<1>5. Picks(kept, entries, Q, to) /\ kept \in Seq(E \cup {Skipped, Broken})
  BY <1>1, <1>4, WithoutFilters DEF Filters
<1>6. Positions(section) \subseteq Q /\ Q \subseteq Nat
  BY <1>1 DEF Positions
<1>7. \A i \in Positions(section), j \in Q : j < i => j \in Positions(section)
  <2> SUFFICES ASSUME NEW i \in Positions(section), NEW j \in Q, j < i
               PROVE  j \in Positions(section)
    OBVIOUS
  <2>1. /\ i \in 1 .. Len(entries) /\ j \in 1 .. Len(entries) /\ entries[j] # Skipped
        /\ \A x \in 1 .. i : entries[x] # Broken
    BY DEF Positions
  <2>2. \A x \in 1 .. j : x \in 1 .. i
    BY <1>1, <2>1
  <2>3. QED
    BY <2>1, <2>2 DEF Positions
<1> HIDE DEF entries, kept, Q
<1> DEFINE objects == Objects(section)
<1> HIDE DEF objects
<1>8. /\ Len(objects) \in Nat /\ Len(kept) \in Nat
      /\ Picks(objects, entries, Positions(section), from)
      /\ Picks(kept, entries, Q, to) /\ k \in 1 .. Len(objects)
  BY <1>2, <1>3, <1>5 DEF objects
<1>9. Leading(Positions(section), Q)
  BY <1>6, <1>7 DEF Leading
<1>10. \A j \in 1 .. Len(objects) :
         j \in 1 .. Len(kept) /\ from[j] = to[j] /\ kept[j] = objects[j]
  BY <1>8, <1>9, PicksPrefix, ZenonT(60)
<1>11. QED
  BY <1>8, <1>10 DEF kept, entries, objects
-----------------------------------------------------------------------------
(* What the loader keeps to.                                               *)

\* The places in front of each section, and those in which it can be read.
BeforeUrl == {"open", "interfaces", "routes", "nat_policies", "url_filtering_profiles"}
BeforeAm == BeforeUrl \cup {"antimalware_profiles"}
BeforePolicies == BeforeAm \cup {"security_policies"}
End == {"parsed", "caught", "loaded"}

\* What was passed could be read: the first section that throws is the last.
Passed ==
  /\ at \in BeforePolicies \ {"open"} => file # Unreadable
  /\ at \in BeforePolicies \ {"open", "interfaces"} => ~ Throws(file.interfaces)
  /\ at \in BeforePolicies \ {"open", "interfaces", "routes"} => ~ Throws(file.routes)
  /\ at \in BeforePolicies \ {"open", "interfaces", "routes", "nat_policies"} =>
       ~ Throws(file.nat_policies)
  /\ at \in BeforePolicies \ BeforeUrl => ~ Throws(file.url_filtering_profiles)
  /\ at \in BeforePolicies \ BeforeAm => ~ Throws(file.antimalware_profiles)

\* A list that has not been come to is empty, and the profiles are those of the
\* file when the policies are read.
ProfilesReady ==
  /\ at \in BeforeUrl => url_filtering_profiles = <<>>
  /\ at \in BeforeAm => antimalware_profiles = <<>>
  /\ at \in {"antimalware_profiles", "security_policies"} =>
       url_filtering_profiles = Profiles(file.url_filtering_profiles, urldefault)
  /\ at = "security_policies" =>
       antimalware_profiles = Profiles(file.antimalware_profiles, am_default)

\* The policies are those of the file, or there are none.
PoliciesRead ==
  /\ at \in BeforePolicies => security_policies = <<>>
  /\ at \in End /\ ~ ReadsUpToPolicies => security_policies = <<>>
  /\ at \in End /\ ReadsUpToPolicies =>
       /\ url_filtering_profiles = Profiles(file.url_filtering_profiles, urldefault)
       /\ antimalware_profiles = Profiles(file.antimalware_profiles, am_default)
       /\ security_policies = PoliciesOf(file.security_policies, AllProfiles)

Inv ==
  /\ file \in File \cup {Unreadable}
  /\ at \in Place
  /\ nat_policies \in Seq(PolicyNetworks)
  /\ Passed
  /\ ProfilesReady
  /\ PoliciesRead

LEMMA ParsedProfiles ==
  ASSUME file \in File
  PROVE  /\ Profiles(file.url_filtering_profiles, urldefault) \in Seq(Profile)
         /\ Profiles(file.antimalware_profiles, am_default) \in Seq(Profile)
BY FileAssumption, ProfilesType

LEMMA ParsedNats ==
  ASSUME NEW section \in Section(NatEntry)
  PROVE  [k \in DOMAIN Objects(section) |-> Networks(Objects(section)[k])]
           \in Seq(PolicyNetworks)
<1> DEFINE objects == Objects(section)
           n == Len(objects)
           nets == [k \in 1 .. n |-> Networks(objects[k])]
<1>1. /\ objects \in Seq(NatEntry) /\ n \in Nat /\ DOMAIN objects = 1 .. n
      /\ \A k \in 1 .. n : objects[k] \in NatEntry
  BY ObjectsPick
<1>2. ASSUME NEW entry \in NatEntry
      PROVE  Networks(entry) \in PolicyNetworks
  <2>1. /\ entry.src_mask \in Int /\ entry.dest_mask \in Int
        /\ entry.src_network \in IPv4Address /\ entry.dest_network \in IPv4Address
    BY DEF NatEntry
  <2>2. /\ Mask(entry.src_mask) \in 0 .. MaskModulus - 1
        /\ Mask(entry.dest_mask) \in 0 .. MaskModulus - 1
    BY <2>1, MaskType
  <2>3. QED
    BY <2>1, <2>2 DEF Networks, PolicyNetworks
<1> HIDE DEF objects, n
<1>3. nets \in Seq(PolicyNetworks)
  BY <1>1, <1>2, IsASeq
<1>4. QED
  BY <1>1, <1>3 DEF objects

LEMMA InitInv == Init => Inv
BY EmptySeq DEF Init, Inv, Place, Passed, ProfilesReady, PoliciesRead,
                BeforeUrl, BeforeAm, BeforePolicies, End

LEMMA NextInv == Inv /\ [Next]_vars => Inv'
<1> SUFFICES ASSUME Inv, [Next]_vars PROVE Inv'
  OBVIOUS
<1> USE DEF Inv, Place, Passed, BeforeUrl, BeforeAm, BeforePolicies, End
<1>1. file' = file
  BY DEF Next, vars, openFile, parseInterfaces, parseRoutingTable, parseNatPolicy,
         parseUrlFilteringProfile, parseAntimalwareProfile, parseSecurityPolicy, load
<1>2. ReadsUpToPolicies' <=> ReadsUpToPolicies
  BY <1>1 DEF ReadsUpToPolicies
<1>3. CASE openFile
  <2>1. /\ at = "open" /\ UNCHANGED members
        /\ at' = IF file = Unreadable THEN "parsed" ELSE "interfaces"
    BY <1>3 DEF openFile
  <2>2. Passed' /\ at' \in Place
    BY <1>1, <2>1
  <2>3. ProfilesReady'
    BY <1>1, <2>1 DEF ProfilesReady, members
  <2>4. PoliciesRead'
    BY <1>1, <1>2, <2>1 DEF PoliciesRead, members, ReadsUpToPolicies
  <2>5. QED
    BY <1>1, <2>1, <2>2, <2>3, <2>4 DEF members
<1>4. CASE parseInterfaces
  <2>1. /\ at = "interfaces" /\ GoOn(file.interfaces, "routes")
        /\ UNCHANGED <<nat_policies, url_filtering_profiles, antimalware_profiles,
                       security_policies>>
    BY <1>4 DEF parseInterfaces
  <2>2. Passed' /\ at' \in Place
    BY <1>1, <2>1 DEF GoOn
  <2>3. ProfilesReady'
    BY <1>1, <2>1 DEF ProfilesReady, GoOn
  <2>4. PoliciesRead'
    BY <1>1, <1>2, <2>1 DEF PoliciesRead, GoOn, ReadsUpToPolicies
  <2>5. QED
    BY <1>1, <2>1, <2>2, <2>3, <2>4
<1>5. CASE parseRoutingTable
  <2>1. /\ at = "routes" /\ GoOn(file.routes, "nat_policies")
        /\ UNCHANGED <<nat_policies, url_filtering_profiles, antimalware_profiles,
                       security_policies>>
    BY <1>5 DEF parseRoutingTable
  <2>2. Passed' /\ at' \in Place
    BY <1>1, <2>1 DEF GoOn
  <2>3. ProfilesReady'
    BY <1>1, <2>1 DEF ProfilesReady, GoOn
  <2>4. PoliciesRead'
    BY <1>1, <1>2, <2>1 DEF PoliciesRead, GoOn, ReadsUpToPolicies
  <2>5. QED
    BY <1>1, <2>1, <2>2, <2>3, <2>4
<1>6. CASE parseNatPolicy
  <2>1. /\ at = "nat_policies" /\ GoOn(file.nat_policies, "url_filtering_profiles")
        /\ UNCHANGED <<url_filtering_profiles, antimalware_profiles, security_policies>>
        /\ nat_policies' = nat_policies \o
             [k \in DOMAIN Objects(file.nat_policies) |->
                Networks(Objects(file.nat_policies)[k])]
    BY <1>6 DEF parseNatPolicy
  <2>2. Passed' /\ at' \in Place
    BY <1>1, <2>1 DEF GoOn
  <2>3. ProfilesReady'
    BY <1>1, <2>1 DEF ProfilesReady, GoOn
  <2>4. PoliciesRead'
    BY <1>1, <1>2, <2>1 DEF PoliciesRead, GoOn, ReadsUpToPolicies
  <2>5. nat_policies' \in Seq(PolicyNetworks)
    <3>1. file \in File
      BY <2>1
    <3>2. [k \in DOMAIN Objects(file.nat_policies) |->
             Networks(Objects(file.nat_policies)[k])] \in Seq(PolicyNetworks)
      BY <3>1, FileAssumption, ParsedNats
    <3>3. QED
      BY <2>1, <3>2, ConcatProperties
  <2>6. PolicyNetworks' = PolicyNetworks
    BY DEF PolicyNetworks
  <2>7. QED
    BY <1>1, <2>2, <2>3, <2>4, <2>5, <2>6
<1>7. CASE parseUrlFilteringProfile
  <2>1. /\ at = "url_filtering_profiles"
        /\ GoOn(file.url_filtering_profiles, "antimalware_profiles")
        /\ UNCHANGED <<nat_policies, antimalware_profiles, security_policies>>
        /\ url_filtering_profiles' =
             url_filtering_profiles \o Profiles(file.url_filtering_profiles, urldefault)
    BY <1>7 DEF parseUrlFilteringProfile
  <2>2. Passed' /\ at' \in Place
    BY <1>1, <2>1 DEF GoOn
  <2>3. url_filtering_profiles' = Profiles(file.url_filtering_profiles, urldefault)
    <3>1. file \in File
      BY <2>1
    <3>2. QED
      BY <2>1, <3>1, ParsedProfiles, ConcatEmptySeq DEF ProfilesReady
  <2>4. ProfilesReady'
    BY <1>1, <2>1, <2>3 DEF ProfilesReady, GoOn
  <2>5. PoliciesRead'
    BY <1>1, <1>2, <2>1 DEF PoliciesRead, GoOn, ReadsUpToPolicies
  <2>6. QED
    BY <1>1, <2>1, <2>2, <2>4, <2>5
<1>8. CASE parseAntimalwareProfile
  <2>1. /\ at = "antimalware_profiles"
        /\ GoOn(file.antimalware_profiles, "security_policies")
        /\ UNCHANGED <<nat_policies, url_filtering_profiles, security_policies>>
        /\ antimalware_profiles' =
             antimalware_profiles \o Profiles(file.antimalware_profiles, am_default)
    BY <1>8 DEF parseAntimalwareProfile
  <2>2. Passed' /\ at' \in Place
    BY <1>1, <2>1 DEF GoOn
  <2>3. antimalware_profiles' = Profiles(file.antimalware_profiles, am_default)
    <3>1. file \in File
      BY <2>1
    <3>2. QED
      BY <2>1, <3>1, ParsedProfiles, ConcatEmptySeq DEF ProfilesReady
  <2>4. ProfilesReady'
    BY <1>1, <2>1, <2>3 DEF ProfilesReady, GoOn
  <2>5. PoliciesRead'
    BY <1>1, <1>2, <2>1 DEF PoliciesRead, GoOn, ReadsUpToPolicies
  <2>6. QED
    BY <1>1, <2>1, <2>2, <2>4, <2>5
<1>9. CASE parseSecurityPolicy
  <2>1. /\ at = "security_policies" /\ GoOn(file.security_policies, "parsed")
        /\ UNCHANGED <<nat_policies, url_filtering_profiles, antimalware_profiles>>
        /\ security_policies' =
             security_policies \o PoliciesOf(file.security_policies, AllProfiles)
    BY <1>9 DEF parseSecurityPolicy, PoliciesOf, ParsedPolicies
  <2>2. Passed' /\ at' \in Place
    BY <1>1, <2>1 DEF GoOn
  <2>3. ProfilesReady'
    BY <1>1, <2>1 DEF ProfilesReady, GoOn
  <2>4. AllProfiles' = AllProfiles
    BY <2>1 DEF AllProfiles
  <2>5. security_policies' = PoliciesOf(file.security_policies, AllProfiles)
    <3>1. security_policies = <<>>
      BY <2>1 DEF PoliciesRead
    <3>2. file \in File
      BY <2>1
    <3>3. file.security_policies \in Section(PolicyEntry)
      BY <3>2, FileAssumption
    <3>4. AllProfiles \in Seq(Profile)
      BY <2>1, <3>2, ParsedProfiles, ConcatProperties DEF AllProfiles, ProfilesReady
    <3>5. \E S : PoliciesOf(file.security_policies, AllProfiles) \in Seq(S)
      BY <3>3, <3>4, PoliciesFields
    <3>6. QED
      BY <2>1, <3>1, <3>5, ConcatEmptySeq
  <2>6. ReadsUpToPolicies
    BY <2>1 DEF ReadsUpToPolicies
  <2>7. PoliciesRead'
    BY <1>1, <1>2, <2>1, <2>4, <2>5, <2>6 DEF PoliciesRead, ProfilesReady, GoOn
  <2>8. QED
    BY <1>1, <2>1, <2>2, <2>3, <2>7
<1>10. CASE load
  <2>1. /\ at \in {"parsed", "caught"} /\ at' = "loaded"
        /\ UNCHANGED <<nat_policies, url_filtering_profiles, antimalware_profiles,
                       security_policies>>
    BY <1>10 DEF load
  <2>2. Passed' /\ at' \in Place
    BY <1>1, <2>1
  <2>3. ProfilesReady'
    BY <1>1, <2>1 DEF ProfilesReady
  <2>4. PoliciesRead'
    BY <1>1, <1>2, <2>1 DEF PoliciesRead, AllProfiles
  <2>5. QED
    BY <1>1, <2>1, <2>2, <2>3, <2>4
<1>11. CASE UNCHANGED vars
  <2>1. UNCHANGED <<file, at, nat_policies, url_filtering_profiles, antimalware_profiles,
                    security_policies>>
    BY <1>11 DEF vars, members
  <2>2. Passed' /\ ProfilesReady'
    BY <2>1 DEF ProfilesReady
  <2>3. PoliciesRead'
    BY <1>2, <2>1 DEF PoliciesRead, AllProfiles
  <2>4. QED
    BY <2>1, <2>2, <2>3
<1>12. QED
  BY <1>3, <1>4, <1>5, <1>6, <1>7, <1>8, <1>9, <1>10, <1>11 DEF Next

LEMMA InvHolds == Spec => []Inv
BY InitInv, NextInv, PTL DEF Spec

(* The members that the packet path reads have the types its rules count on,  *)
(* also if the file could not be read to its end: masks of 32 bits, actions   *)
(* that are one of the two, and no profile that the file does not have.       *)
THEOREM TypeCorrect == Spec => []TypeOK
<1>1. Inv => TypeOK
  <2> SUFFICES ASSUME Inv PROVE TypeOK
    OBVIOUS
  <2>1. at \in Place /\ Range(nat_policies) \subseteq PolicyNetworks
    BY RangeOfSeq DEF Inv
  <2> DEFINE section == file.security_policies
  <2>2. ASSUME NEW policy \in Range(security_policies)
        PROVE  /\ policy.network_from_mask \in 0 .. MaskModulus - 1
               /\ policy.network_to_mask \in 0 .. MaskModulus - 1
               /\ policy.action \in {"Allow", "Deny"}
               /\ Range(policy.security_profiles)
                    \subseteq Range(url_filtering_profiles) \cup Range(antimalware_profiles)
    <3>1. security_policies # <<>>
      BY DEF Range
    <3>2. /\ at \in End /\ ReadsUpToPolicies /\ file \in File
          /\ security_policies = PoliciesOf(section, AllProfiles)
          /\ url_filtering_profiles = Profiles(file.url_filtering_profiles, urldefault)
          /\ antimalware_profiles = Profiles(file.antimalware_profiles, am_default)
      BY <3>1 DEF Inv, PoliciesRead, ReadsUpToPolicies, Place, End, BeforePolicies,
                  BeforeAm, BeforeUrl
    <3>3. section \in Section(PolicyEntry)
      BY <3>2, FileAssumption
    <3>4. /\ AllProfiles \in Seq(Profile)
          /\ Range(AllProfiles) = Range(url_filtering_profiles) \cup Range(antimalware_profiles)
      BY <3>2, ParsedProfiles, ConcatProperties, RangeConcatenation DEF AllProfiles
    <3>5. PICK k \in DOMAIN security_policies : policy = security_policies[k]
      BY DEF Range
    <3> HIDE DEF section
    <3>6. \/ k \in 1 .. Len(Objects(section))
             /\ policy = SecurityPolicy(AllProfiles, Objects(section)[k])
          \/ policy = DenyAll
      <4>1. /\ Objects(section) \in Seq(PolicyEntry) /\ Len(Objects(section)) \in Nat
        BY <3>3, ObjectsPick
      <4>2. QED
        BY <3>2, <3>3, <3>4, <3>5, <4>1, PoliciesFields
    <3>7. CASE /\ k \in 1 .. Len(Objects(section))
               /\ policy = SecurityPolicy(AllProfiles, Objects(section)[k])
      <4> DEFINE entry == Objects(section)[k]
      <4>1. entry \in PolicyEntry
        BY <3>3, <3>7, ObjectsPick
      <4> HIDE DEF entry
      <4>2. entry.src_mask \in Int /\ entry.dest_mask \in Int
        BY <4>1 DEF PolicyEntry
      <4>3. /\ policy.network_from_mask = Mask(entry.src_mask)
            /\ policy.network_to_mask = Mask(entry.dest_mask)
            /\ policy.action \in {"Allow", "Deny"}
            /\ policy.security_profiles \in Seq(Range(AllProfiles))
        BY <3>4, <3>7, <4>1, SecurityPolicyFields DEF entry
      <4>4. Range(policy.security_profiles) \subseteq Range(AllProfiles)
        BY <4>3, RangeOfSeq
      <4>5. QED
        BY <3>4, <4>2, <4>3, <4>4, MaskType
    <3>8. CASE policy = DenyAll
      <4>1. 0 \in 0 .. MaskModulus - 1
        BY MaskAssumption, AddressBitsAssumption
      <4>2. QED
        BY <3>8, <4>1 DEF DenyAll, Range
    <3>9. QED
      BY <3>6, <3>7, <3>8
  <2>3. QED
    BY <2>1, <2>2 DEF TypeOK
<1>2. QED
  BY <1>1, InvHolds, PTL

(* Whatever the file holds and wherever its reading ends, every packet gets   *)
(* the verdict of the first entry of the file that is about it.               *)
THEOREM FirstEntryRules == Spec => []FirstEntryDecides
<1>1. Inv => FirstEntryDecides
  <2> SUFFICES ASSUME Inv, at = "loaded", file # Unreadable,
                      NEW src \in IPv4Address, NEW dst \in IPv4Address
               PROVE  LET hits == {k \in InForce :
                                     Concerns(file.security_policies[k], src, dst)}
                          verdict == Verdict(security_policies, src, dst)
                          complete == /\ ReadsUpToPolicies
                                      /\ file.security_policies \notin {Absent, Mistyped}
                                      /\ ~ Throws(file.security_policies)
                      IN  CASE hits # {} -> /\ verdict # NoVerdict
                                            /\ verdict.action = FirstAction(hits)
                            [] hits = {} /\ complete ->
                                 verdict # NoVerdict /\ verdict.action = "Deny"
                            [] OTHER -> verdict = NoVerdict
    BY DEF FirstEntryDecides
  <2> DEFINE section == file.security_policies
             hits == {k \in InForce : Concerns(file.security_policies[k], src, dst)}
             verdict == Verdict(security_policies, src, dst)
  <2>1. file \in File /\ section \in Section(PolicyEntry)
    BY FileAssumption DEF Inv
  <2>2. CASE ReadsUpToPolicies
    <3>1. /\ security_policies = PoliciesOf(section, AllProfiles)
          /\ url_filtering_profiles = Profiles(file.url_filtering_profiles, urldefault)
          /\ antimalware_profiles = Profiles(file.antimalware_profiles, am_default)
      BY <2>2 DEF Inv, PoliciesRead, End
    <3>2. AllProfiles \in Seq(Profile)
      BY <2>1, <3>1, ParsedProfiles, ConcatProperties DEF AllProfiles
    <3> HIDE DEF section
    <3>3. \A i \in DOMAIN Entries(section) : Entries(section)[i] = section[i]
      BY DEF Entries
    <3>4. DOMAIN Entries(section) = 1 .. Len(Entries(section)) /\ Len(Entries(section)) \in Nat
      BY <2>1, EntriesType
    <3>5. InForce = Positions(section)
      <4>1. \A i \in 1 .. Len(Entries(section)) : \A j \in 1 .. i : j \in 1 .. Len(Entries(section))
        BY <3>4
      <4>2. InForce = {k \in DOMAIN Entries(section) :
                         section[k] # Skipped /\ \A j \in 1 .. k : section[j] # Broken}
        BY <2>2 DEF InForce, section
      <4>3. QED
        BY <3>3, <3>4, <4>1, <4>2 DEF Positions
    <3>6. hits = About(section, src, dst)
      <4>1. \A k \in Positions(section) : Entries(section)[k] = section[k]
        BY <3>3, <3>4 DEF Positions
      <4>2. QED
        BY <3>5, <4>1 DEF About, section
    <3>7. hits # {} => FirstAction(hits) = Action(Entries(section)[Earliest(hits)].action)
      <4>1. ASSUME hits # {}
            PROVE  Earliest(hits) \in hits
        <5>1. hits \subseteq Nat
          BY <3>6 DEF About, Positions
        <5> HIDE DEF hits
        <5>2. \E i \in hits : \A j \in hits : i <= j
          BY <4>1, <5>1, Smallest
        <5>3. QED
          BY <5>2 DEF Earliest
      <4>2. hits # {} => Earliest(hits) \in DOMAIN Entries(section)
        BY <3>4, <3>6, <4>1 DEF About, Positions
      <4>3. FirstAction(hits) = Action(section[Earliest(hits)].action)
        BY SpellingAssumption DEF FirstAction, Allows, Action, Earliest, section
      <4>4. QED
        BY <3>3, <4>2, <4>3
    <3>8. /\ hits # {} => /\ verdict # NoVerdict
                          /\ verdict.action =
                               Action(Entries(section)[Earliest(hits)].action)
          /\ hits = {} /\ Complete(section) => verdict # NoVerdict /\ verdict.action = "Deny"
          /\ hits = {} /\ ~ Complete(section) => verdict = NoVerdict
      <4> HIDE DEF hits
      <4>1. QED
        BY <2>1, <3>1, <3>2, <3>6, VerdictOfPolicies DEF section
    <3> HIDE DEF hits, verdict
    <3>9. QED
      BY <2>2, <3>7, <3>8 DEF Complete, hits, verdict, section
  <2>3. CASE ~ ReadsUpToPolicies
    <3>1. security_policies = <<>> /\ hits = {}
      BY <2>3 DEF Inv, PoliciesRead, End, InForce
    <3>2. verdict = NoVerdict
      BY <3>1 DEF Verdict, SelectInSeq
    <3> HIDE DEF verdict, hits
    <3>3. QED
      BY <2>3, <3>1, <3>2 DEF verdict, hits
  <2>4. QED
    BY <2>2, <2>3
<1>2. QED
  BY <1>1, InvHolds, PTL

(* A policy in force has the profiles that its names mean in the file, though *)
(* each section is parsed by itself and any of them may break off.            *)
THEOREM ProfilesStay == Spec => []ProfilesAreAttached
<1>1. Inv => ProfilesAreAttached
  <2> DEFINE section == file.security_policies
             entries == Without(Entries(section), {Skipped})
             NamesOf(k) == entries[k].security_profiles
             meant(k) == [n \in DOMAIN NamesOf(k) |-> MeantBy(NamesOf(k)[n])]
  <2> SUFFICES ASSUME Inv, NEW k \in DOMAIN security_policies,
                      security_policies[k] # DenyAll
               PROVE  Listed(security_policies[k].security_profiles)
                        = Without(meant(k), {<<>>})
    BY DEF ProfilesAreAttached, Listed
  <2>1. security_policies # <<>>
    OBVIOUS
  <2>2. /\ ReadsUpToPolicies /\ file \in File
        /\ security_policies = PoliciesOf(section, AllProfiles)
        /\ url_filtering_profiles = Profiles(file.url_filtering_profiles, urldefault)
        /\ antimalware_profiles = Profiles(file.antimalware_profiles, am_default)
    BY <2>1 DEF Inv, PoliciesRead, ReadsUpToPolicies, Place, End, BeforePolicies,
                BeforeAm, BeforeUrl
  <2>3. section \in Section(PolicyEntry) /\ AllProfiles \in Seq(Profile)
    BY <2>2, FileAssumption, ParsedProfiles, ConcatProperties DEF AllProfiles
  <2> HIDE DEF section
  <2>4. /\ Objects(section) \in Seq(PolicyEntry) /\ Len(Objects(section)) \in Nat
    BY <2>3, ObjectsPick
  <2>5. /\ k \in 1 .. Len(Objects(section))
        /\ security_policies[k] = SecurityPolicy(AllProfiles, Objects(section)[k])
    BY <2>2, <2>3, <2>4, PoliciesFields
  <2> DEFINE names == Objects(section)[k].security_profiles
  <2>6. Objects(section)[k] \in PolicyEntry
    BY <2>4, <2>5
  <2>7. names \in Seq(ProfileName)
    BY <2>6 DEF PolicyEntry
  <2>8. security_policies[k].security_profiles = Attached(AllProfiles, names)
    BY <2>3, <2>5, <2>6, SecurityPolicyFields
  <2>9. NamesOf(k) = names
    BY <2>3, <2>5, EntriesAreObjects
  <2> HIDE DEF entries, names
  <2> DEFINE intended == [n \in 1 .. Len(names) |-> MeantBy(names[n])]
             D == {MeantBy(names[n]) : n \in 1 .. Len(names)}
  <2>10. meant(k) = intended
    BY <2>7, <2>9
  <2>11. \A n \in 1 .. Len(names) : Agree(FindProfile(AllProfiles, names[n]), intended[n])
    BY <2>2, MeantIsFound
  <2>12. intended \in Seq(D) /\ Len(intended) = Len(names)
    <3>1. \A n \in 1 .. Len(names) : MeantBy(names[n]) \in D
      OBVIOUS
    <3>2. Len(names) \in Nat
      BY <2>7
    <3> HIDE DEF D
    <3>3. QED
      BY <3>1, <3>2, IsASeq
  <2> HIDE DEF intended, D
  <2>13. Listed(Attached(AllProfiles, names)) = Without(intended, {<<>>})
    BY <2>3, <2>7, <2>11, <2>12, AttachedIsMeant
  <2>14. QED
    BY <2>8, <2>10, <2>13
<1>2. QED
  BY <1>1, InvHolds, PTL
=============================================================================
