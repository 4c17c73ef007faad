SPECIFICATION PlansSpec
CONSTANTS
  AllowedPackages = {"termux", "paypal"}
  Commerce = {"paypal"}
  Package = {"termux", "paypal", "chat"}
  Goals <- MCGoals
  Grants = {{}, {"android-control", "accessibility", "git", "network", "storage", "shell"}}
  MaxSteps = {2}
  MaxLogEntries = 2
  Actions <- MCActions
  MaxPlans = 2
  Kills = FALSE
INVARIANT PlansAreKept
CHECK_DEADLOCK FALSE
