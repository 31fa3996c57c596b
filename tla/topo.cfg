\* Every declaration of three services over four names.
CONSTANTS
  Names = {a, b, c, u}
  Services = {a, b, c}
SPECIFICATION Spec
INVARIANTS TypeOK SortedOrder CycleIsReal
