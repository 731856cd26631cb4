SPECIFICATION PairSpec
CONSTANTS
  Channels = 3
  Pins = 4
  Speed = {0, 70, 110, 115, 150, 255}
  Arriving <- MCPrograms
  NodeFuel = 3
  HostFuel = {1, 2}
  MaxCurrent = 220
  BoundPwm = {0, 1}
  BoundPins = {0}
INVARIANTS
  TypeOK
  FuelPays
  VerifiedStaysInBounds
  VerifiedKeepsCurrent
  PaidScriptFinishes
  RoutingOnlyRestricts
  TrapShutsDown
PROPERTY ImplementsPromise
