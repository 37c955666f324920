---------------------------- MODULE RoutingTable ----------------------------
(***************************************************************************)
(* class RoutingTable: a vector of entries that addRoute extends and       *)
(* removeRoute filters.  The loader (Config::parseRoutingTable) only adds; *)
(* removeRoute is a public operation without a caller at this commit, and  *)
(* it is here because the table's promise must survive it.                 *)
(***************************************************************************)
EXTENDS Routes, Lists

CONSTANTS Entry,        \* the entries a configuration may add
          MaxRoutes     \* bound of the model: length of the vector

ASSUME EntryAssumption == Entry \subseteq RouteEntry /\ MaxRoutes \in Nat

VARIABLE routes

TypeOK == routes \in Seq(Entry) /\ Len(routes) <= MaxRoutes

Init == routes = <<>>

\* Mutant: the entry is added once more.
AddTwice(entry) ==
  /\ Len(routes) < MaxRoutes
  /\ routes' = routes \o <<entry, entry>>

addRoute(entry) ==
  /\ Len(routes) < MaxRoutes
  /\ routes' = Append(routes, entry)

\* Mutant: the first such entry is overwritten with the last of the vector.
RemoveBySwapping(network, netmask) ==
  LET hits == {i \in DOMAIN routes : /\ routes[i].network = network
                                     /\ routes[i].netmask = netmask}
  IN  /\ hits # {}
      /\ routes' = Front([routes EXCEPT ![CHOOSE i \in hits : \A j \in hits : i <= j]
                                           = Last(routes)])

removeRoute(network, netmask) ==
  routes' = Without(routes, {entry \in Entry : /\ entry.network = network
                                               /\ entry.netmask = netmask})

Next ==
  \/ \E entry \in Entry : addRoute(entry)
  \/ \E network, netmask \in IPv4Address : removeRoute(network, netmask)

Spec == Init /\ [][Next]_routes
-----------------------------------------------------------------------------
\* Reference: among the entries that match, the first of those with most bits.
MoreSpecific(i, j) ==
  \/ maskToBits(routes[i].netmask) > maskToBits(routes[j].netmask)
  \/ maskToBits(routes[i].netmask) = maskToBits(routes[j].netmask) /\ i < j

LongestMatch(destination) ==
  LET hits == {i \in DOMAIN routes : Matches(routes[i], destination)}
  IN  IF hits = {} THEN NoRoute
      ELSE routes[CHOOSE i \in hits : \A j \in hits \ {i} : MoreSpecific(i, j)]

(* findRoute's single scan, with its running best, returns the most        *)
(* specific matching entry for every table and destination, and of two     *)
(* equally specific ones the one configured first.                         *)
LongestMatchWins ==
  \A destination \in IPv4Address :
    findRoute(routes, destination) = LongestMatch(destination)

(* A change of the table only moves the traffic it is about: a destination *)
(* whose route changes is one that an added entry matches, or one whose    *)
(* route was removed.  One that had no route gets one by an addition only. *)
RouteMoved(destination) ==
  findRoute(routes, destination)' # findRoute(routes, destination)

ChangesAreLocal ==
  [][\A destination \in IPv4Address :
       RouteMoved(destination) =>
         \/ /\ Len(routes') > Len(routes)
            /\ findRoute(routes, destination)' = routes'[Len(routes')]
         \/ /\ findRoute(routes, destination) # NoRoute
            /\ findRoute(routes, destination) \notin Range(routes')]_routes
=============================================================================
