SPECIFICATION Spec
CONSTANTS
  ALLOWED_KEYS <- MCKeys
  SliderSpeeds <- MCSliderSpeeds
  MaxInFlight = 2
PROPERTY SpaceStops
