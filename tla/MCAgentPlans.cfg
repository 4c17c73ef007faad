SPECIFICATION PlansSpec
CONSTANTS
  AllowedPackages = {"termux", "paypal"}
  Commerce = {"paypal"}
  Package = {"termux", "paypal"}
  Goals <- MCErrands
  Grants = {{"android-control", "accessibility", "git", "network"}, {"shell"}}
  MaxSteps = {2}
  MaxLogEntries = 2
  Actions <- MCActions
  MaxPlans = 3
  Kills = TRUE
INVARIANTS
  PlansTypeOK
  StoredPlansTellTheTruth
  EffectsFollowPlans
  CommandsAreGated
CHECK_DEADLOCK FALSE
