------------------------- MODULE RoutingTableProofs -------------------------
(***************************************************************************)
(* Proofs about RoutingTable, for all sets of entries and addresses of any *)
(* width.                                                                  *)
(***************************************************************************)
EXTENDS RoutingTable, RoutesProofs

Matching(network, netmask) ==
  {entry \in Entry : entry.network = network /\ entry.netmask = netmask}

LEMMA TableType ==
  ASSUME TypeOK
  PROVE  /\ routes \in Seq(Entry) /\ routes \in Seq(RouteEntry)
         /\ Len(routes) \in Nat /\ DOMAIN routes = 1 .. Len(routes)
         /\ \A i \in 1 .. Len(routes) : routes[i] \in RouteEntry
BY EntryAssumption, SeqMonotonic DEF TypeOK

LEMMA TypeStep ==
  ASSUME TypeOK, [Next]_routes
  PROVE  TypeOK'
<1>1. CASE UNCHANGED routes
  BY <1>1 DEF TypeOK
<1>2. ASSUME NEW entry \in Entry, addRoute(entry)
      PROVE  TypeOK'
  BY <1>2, EntryAssumption, AppendProperties DEF addRoute, TypeOK
<1>3. ASSUME NEW network \in IPv4Address, NEW netmask \in IPv4Address,
             removeRoute(network, netmask)
      PROVE  TypeOK'
  <2>1. routes' = Without(routes, Matching(network, netmask))
    BY <1>3 DEF removeRoute, Matching
  <2>2. routes \in Seq(Entry) /\ Len(routes) \in Nat
    BY DEF TypeOK
  <2>3. /\ routes' \in Seq(Entry)
        /\ \E place : Filters(routes', routes, Len(routes), Matching(network, netmask), place)
    BY <2>1, <2>2, WithoutFilters
  <2>4. Len(routes') <= Len(routes)
    BY <2>2, <2>3, FiltersShorten
  <2>5. QED
    BY <2>2, <2>3, <2>4, EntryAssumption DEF TypeOK
<1>4. QED
  BY <1>1, <1>2, <1>3 DEF Next

(* The table is a vector of entries of the configuration, and removals     *)
(* never make it longer.                                                   *)
THEOREM TypeCorrect == Spec => []TypeOK
<1>1. Init => TypeOK
  BY EntryAssumption, EmptySeq DEF Init, TypeOK
<1>2. TypeOK /\ [Next]_routes => TypeOK'
  BY TypeStep
<1>3. QED
  BY <1>1, <1>2, PTL DEF Spec

LEMMA ReferenceIsMostSpecific ==
  ASSUME TypeOK, NEW destination,
         NEW i, MostSpecific(routes, destination, Len(routes), i)
  PROVE  LongestMatch(destination) = routes[i]
<1> DEFINE hits == {j \in DOMAIN routes : Matches(routes[j], destination)}
           First(j) == j \in hits /\ \A k \in hits \ {j} : MoreSpecific(j, k)
<1>1. routes \in Seq(RouteEntry) /\ DOMAIN routes = 1 .. Len(routes)
  BY TableType
<1>2. hits = Hits(routes, destination, Len(routes))
  BY <1>1 DEF Hits
<1>3. \A j, k : MoreSpecific(j, k) <=> Beats(routes, j, k)
  BY DEF MoreSpecific, Beats, Bits
<1>4. \A j : First(j) <=> MostSpecific(routes, destination, Len(routes), j)
  BY <1>2, <1>3 DEF MostSpecific
<1>5. \A j : First(j) => j = i
  BY <1>1, <1>4, OneMostSpecific
<1>6. First(i)
  BY <1>4
<1>7. (CHOOSE j \in hits : \A k \in hits \ {j} : MoreSpecific(j, k)) = i
  BY <1>5, <1>6
<1>8. hits # {}
  BY <1>6
<1>9. QED
  BY <1>7, <1>8 DEF LongestMatch

(* The scan with its running best finds the most specific matching entry,  *)
(* and of equally specific ones the one configured first.                  *)
THEOREM LongestMatchFound == Spec => []LongestMatchWins
<1>1. ASSUME TypeOK PROVE LongestMatchWins
  <2>1. SUFFICES ASSUME NEW destination \in IPv4Address
                 PROVE  findRoute(routes, destination) = LongestMatch(destination)
    BY DEF LongestMatchWins
  <2>2. routes \in Seq(RouteEntry) /\ DOMAIN routes = 1 .. Len(routes)
    BY <1>1, TableType
  <2>3. CASE /\ Hits(routes, destination, Len(routes)) = {}
             /\ findRoute(routes, destination) = NoRoute
    BY <2>2, <2>3 DEF Hits, LongestMatch
  <2>4. ASSUME NEW i, MostSpecific(routes, destination, Len(routes), i),
               findRoute(routes, destination) = routes[i]
        PROVE  findRoute(routes, destination) = LongestMatch(destination)
    BY <1>1, <2>4, ReferenceIsMostSpecific
  <2>5. QED
    BY <2>2, <2>3, <2>4, FindRouteFinds
<1>2. QED
  BY <1>1, TypeCorrect, PTL
-----------------------------------------------------------------------------
(* Changes of the table.                                                   *)

\* What an added entry does not win is routed as before.
LEMMA AddingIsLocal ==
  ASSUME NEW table \in Seq(RouteEntry), NEW entry \in RouteEntry, NEW destination,
         findRoute(Append(table, entry), destination) # findRoute(table, destination)
  PROVE  findRoute(Append(table, entry), destination) = entry
<1> DEFINE n == Len(table)
           more == Append(table, entry)
<1>1. /\ n \in Nat /\ more \in Seq(RouteEntry) /\ Len(more) = n + 1
      /\ more[n + 1] = entry /\ \A i \in 1 .. n : more[i] = table[i]
  BY AppendProperties
<1>2. 1 .. n + 1 = 1 .. n \cup {n + 1}
  BY <1>1
<1> HIDE DEF more
<1>3. Hits(table, destination, n) \subseteq Hits(more, destination, n + 1)
  BY <1>1, <1>2 DEF Hits
<1>4. CASE Hits(more, destination, n + 1) = {} /\ findRoute(more, destination) = NoRoute
  <2>1. Hits(table, destination, n) = {}
    BY <1>3, <1>4
  <2>2. findRoute(table, destination) = NoRoute
    BY <2>1, FindRouteFinds DEF MostSpecific
  <2>3. QED
    BY <1>4, <2>2 DEF more
<1>5. ASSUME NEW i, MostSpecific(more, destination, n + 1, i),
             findRoute(more, destination) = more[i]
      PROVE  findRoute(more, destination) = entry
  <2>1. i \in 1 .. n + 1 /\ Matches(more[i], destination)
    BY <1>5 DEF MostSpecific, Hits
  <2>2. CASE i = n + 1
    BY <1>1, <1>5, <2>2
  <2>3. CASE i \in 1 .. n
    <3>1. i \in Hits(table, destination, n)
      BY <1>1, <2>1, <2>3 DEF Hits
    <3>2. ASSUME NEW j \in Hits(table, destination, n) \ {i}
          PROVE  Beats(table, i, j)
      <4>1. Beats(more, i, j) /\ j \in 1 .. n
        BY <1>3, <1>5, <3>2 DEF MostSpecific, Hits
      <4>2. QED
        BY <1>1, <2>3, <4>1 DEF Beats, Bits
    <3>3. MostSpecific(table, destination, n, i)
      BY <3>1, <3>2 DEF MostSpecific
    <3>4. findRoute(table, destination) = table[i]
      BY <3>3, FindRouteFinds, OneMostSpecific DEF MostSpecific
    <3>5. QED
      BY <1>1, <1>5, <2>3, <3>4 DEF more
  <2>4. QED
    BY <1>2, <2>1, <2>2, <2>3
<1>6. QED
  BY <1>1, <1>4, <1>5, FindRouteFinds DEF more

\* A destination whose entry stays keeps its route.
LEMMA RemovingIsLocal ==
  ASSUME NEW table \in Seq(RouteEntry), NEW kept \in Seq(RouteEntry), NEW S, NEW place,
         Filters(kept, table, Len(table), S, place), NEW destination,
         findRoute(table, destination) \in Range(kept)
  PROVE  findRoute(kept, destination) = findRoute(table, destination)
<1> DEFINE n == Len(table)
           m == Len(kept)
<1>1. /\ n \in Nat /\ m \in Nat /\ DOMAIN kept = 1 .. m
      /\ \A k \in 1 .. m : kept[k] \in RouteEntry
  OBVIOUS
<1>2. \A k \in 1 .. m : place[k] \in 1 .. n /\ table[place[k]] \notin S
                         /\ kept[k] = table[place[k]]
  BY DEF Filters, Picks
<1>3. PICK l \in 1 .. m : findRoute(table, destination) = kept[l]
  BY <1>1 DEF Range
<1>4. kept[l] # NoRoute /\ kept[l] \notin S
  BY <1>1, <1>2, <1>3, NoRouteAssumption
<1>5. PICK i : /\ MostSpecific(table, destination, n, i)
               /\ findRoute(table, destination) = table[i]
  BY <1>3, <1>4, FindRouteFinds
<1>6. i \in 1 .. n /\ Matches(table[i], destination) /\ table[i] \notin S
  BY <1>3, <1>4, <1>5 DEF MostSpecific, Hits
<1>7. PICK k \in 1 .. m : place[k] = i
  BY <1>6 DEF Filters, Picks
<1>8. k \in Hits(kept, destination, m)
  BY <1>2, <1>6, <1>7 DEF Hits
<1>9. ASSUME NEW j \in Hits(kept, destination, m) \ {k}
      PROVE  Beats(kept, k, j)
  <2>1. j \in 1 .. m /\ Matches(table[place[j]], destination)
    BY <1>2, <1>9 DEF Hits
  <2>2. place[j] \in Hits(table, destination, n)
    BY <1>2, <2>1 DEF Hits
  <2>3. j < k => place[j] < place[k]
    BY <2>1 DEF Filters, Picks
  <2>4. k < j => place[k] < place[j]
    BY <2>1 DEF Filters, Picks
  <2>5. place[j] # i
    BY <1>1, <1>2, <1>7, <1>9, <2>1, <2>3, <2>4
  <2>6. Beats(table, i, place[j])
    BY <1>5, <2>2, <2>5 DEF MostSpecific
  <2>7. Bits(kept, k) = Bits(table, i) /\ Bits(kept, j) = Bits(table, place[j])
    BY <1>2, <1>7, <2>1 DEF Bits
  <2>8. i < place[j] => k < j
    BY <1>1, <1>2, <1>7, <1>9, <2>1, <2>3
  <2>9. QED
    BY <2>6, <2>7, <2>8 DEF Beats
<1>10. MostSpecific(kept, destination, m, k)
  BY <1>8, <1>9 DEF MostSpecific
<1>11. findRoute(kept, destination) = kept[k]
  BY <1>10, FindRouteFinds, OneMostSpecific DEF MostSpecific
<1>12. QED
  BY <1>2, <1>5, <1>7, <1>11

\* A destination without a route gets none.
LEMMA RemovingAddsNothing ==
  ASSUME NEW table \in Seq(RouteEntry), NEW kept \in Seq(RouteEntry), NEW S, NEW place,
         Filters(kept, table, Len(table), S, place), NEW destination,
         findRoute(table, destination) = NoRoute
  PROVE  findRoute(kept, destination) = NoRoute
<1> DEFINE n == Len(table)
           m == Len(kept)
<1>1. Hits(table, destination, n) = {}
  <2>1. \A i : MostSpecific(table, destination, n, i) => table[i] \in RouteEntry
    BY DEF MostSpecific, Hits
  <2>2. QED
    BY <2>1, FindRouteFinds, NoRouteAssumption
<1>2. \A k \in 1 .. m : place[k] \in 1 .. n /\ kept[k] = table[place[k]]
  BY DEF Filters, Picks
<1>3. Hits(kept, destination, m) = {}
  BY <1>1, <1>2 DEF Hits
<1>4. QED
  BY <1>3, FindRouteFinds DEF MostSpecific

(* A change of the table only moves the traffic it is about: to an added   *)
(* entry, or away from one that was removed.                               *)
THEOREM ChangesStayLocal == Spec => ChangesAreLocal
<1> DEFINE Local == \A destination \in IPv4Address :
                      RouteMoved(destination) =>
                        \/ /\ Len(routes') > Len(routes)
                           /\ findRoute(routes, destination)' = routes'[Len(routes')]
                        \/ /\ findRoute(routes, destination) # NoRoute
                           /\ findRoute(routes, destination) \notin Range(routes')
<1>1. ASSUME TypeOK, [Next]_routes PROVE [Local]_routes
  <2>1. routes \in Seq(Entry) /\ routes \in Seq(RouteEntry) /\ Len(routes) \in Nat
    BY <1>1, TableType
  <2>2. ASSUME NEW entry \in Entry, addRoute(entry)
        PROVE  Local
    <3>1. routes' = Append(routes, entry) /\ entry \in RouteEntry
      BY <2>2, EntryAssumption DEF addRoute
    <3>2. Len(routes') = Len(routes) + 1 /\ routes'[Len(routes')] = entry
      BY <2>1, <3>1, AppendProperties
    <3>3. \A destination : RouteMoved(destination) =>
            findRoute(routes', destination) = entry
      BY <2>1, <3>1, AddingIsLocal DEF RouteMoved
    <3>4. QED
      BY <2>1, <3>2, <3>3
  <2>3. ASSUME NEW network \in IPv4Address, NEW netmask \in IPv4Address,
               removeRoute(network, netmask)
        PROVE  Local
    <3>1. routes' = Without(routes, Matching(network, netmask))
      BY <2>3 DEF removeRoute, Matching
    <3>2. PICK place : Filters(routes', routes, Len(routes), Matching(network, netmask), place)
      BY <2>1, <3>1, WithoutFilters
    <3>3. routes' \in Seq(RouteEntry)
      BY <2>1, <3>1, WithoutFilters
    <3>4. QED
      BY <2>1, <3>2, <3>3, RemovingIsLocal, RemovingAddsNothing DEF RouteMoved
  <2>4. QED
    BY <1>1, <2>2, <2>3 DEF Next
<1> HIDE DEF Local
<1>2. Spec => [][Local]_routes
  BY <1>1, TypeCorrect, PTL DEF Spec
<1>3. QED
  BY <1>2 DEF ChangesAreLocal, Local
=============================================================================
