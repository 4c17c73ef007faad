SPECIFICATION EffectsSpec
CONSTANTS
  Backend = {"home-assistant", "philips-hue"}
  AllowedLights <- MCLights
  AllowedScenes <- MCScenes
  Sets <- MCSets
  Call <- MCCall
  RequireConfirmation = TRUE
  AllowPush = TRUE
  MostRetries = 1
  MaxCalls = 2
  MaxEdits = 2
INVARIANTS
  EffectsTypeOK
  LoneTogglesInvert
  ScenesHold
  BackupsHold
CONSTRAINT Alike
CHECK_DEADLOCK FALSE
