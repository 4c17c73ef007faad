SPECIFICATION Spec
CONSTANTS
  s1 = s1
  s2 = s2
  c = c
  model = model
  archive = archive
  Installer <- MCInstaller
  Server <- MCServer
  Asset <- MCAsset
  Archive = {archive}
  Gated = {archive}
  Requests <- MCRequests
  Chunks = 2
  Parts = 2
  MaxInstalls = 3
SYMMETRY TwoRequests
INVARIANTS
  TypeOK
  GatedNeedsApproval
  SoleDownloadsAreWhole
  FinishedAssetsAreThere
CHECK_DEADLOCK FALSE
