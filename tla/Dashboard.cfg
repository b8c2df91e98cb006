SPECIFICATION Spec
CONSTANTS
  ALLOWED_KEYS <- MCKeys
  SliderSpeeds <- MCSliderSpeeds
  MaxInFlight = 2
INVARIANTS TypeOK GearMatchesMovement ShownIsPosted HeldKeyActsOnce
PROPERTY ImplementsGearLever
