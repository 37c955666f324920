------------------------------- MODULE Routes -------------------------------
(***************************************************************************)
(* Route entries and the lookup of RoutingTable::findRoute, as operators   *)
(* on a sequence of entries in the order they were added.                  *)
(***************************************************************************)
EXTENDS IPv4, Sequences, FiniteSets, SequencesExt

CONSTANTS InterfaceName,   \* the interface names a configuration can mention
          NoRoute          \* the empty std::optional<RouteEntry>

RouteEntry ==
  [network : IPv4Address, netmask : IPv4Address,
   gateway : IPv4Address, interfaceName : InterfaceName]

ASSUME NoRouteAssumption == NoRoute \notin RouteEntry

\* (destination & mask) == (network & mask)
Matches(entry, destination) ==
  destination \cap entry.netmask = entry.network \cap entry.netmask

\* The loop counts the 1 bits wherever they stand: a mask need not be a prefix.
maskToBits(mask) == Cardinality(mask)

\* Mutant: of two equally specific entries the later one wins.
LastMatchWins(routes, destination) ==
  LET Better(best, entry) ==
        \/ best = NoRoute
        \/ maskToBits(entry.netmask) >= maskToBits(best.netmask)
      Step(best, entry) ==
        IF Matches(entry, destination) /\ Better(best, entry) THEN entry ELSE best
  IN  FoldLeft(Step, NoRoute, routes)

\* One scan in table order; a later entry wins only with strictly more bits.
findRoute(routes, destination) ==
  LET Better(best, entry) ==
        \/ best = NoRoute
        \/ maskToBits(entry.netmask) > maskToBits(best.netmask)
      Step(best, entry) ==
        IF Matches(entry, destination) /\ Better(best, entry) THEN entry ELSE best
  IN  FoldLeft(Step, NoRoute, routes)
=============================================================================
