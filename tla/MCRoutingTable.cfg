SPECIFICATION Spec
CONSTANTS
  AddressBits = 2
  InterfaceName = {ens37}
  NoRoute = NoRoute
  Entry <- MCEntry
  MaxRoutes = 3
INVARIANTS TypeOK LongestMatchWins
PROPERTY ChangesAreLocal
