SPECIFICATION Spec
CONSTANTS Slots = 3
          Capacity = 6
          MaxText = 7
          MaxHeld = 1
          MaxNesting = 2
INVARIANTS TypeOK TextsIntact StaysInRing
CHECK_DEADLOCK FALSE
