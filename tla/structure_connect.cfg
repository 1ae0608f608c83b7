SPECIFICATION Spec
CONSTANTS
    Gpios = {1, 2}
    Cores <- ThreeCores
    CorePins <- FivePins
    CoreOf <- PinCore
    Direction <- PinType
    Ids = 2
CHECK_DEADLOCK FALSE
INVARIANTS IndicesPartitioned OutputsApart SignalsAreNets
PROPERTIES ImplementsNetlist
