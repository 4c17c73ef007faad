CONSTANTS
  MaxTurns = 2
  MaxTrouble = 1
  Scenes <- MCScenes
SPECIFICATION Spec
INVARIANT TypeOK
INVARIANT CommandsAreOpened
INVARIANT CalmTurnGetsItsReply
INVARIANT QuietSurfaceIsReleased
CHECK_DEADLOCK FALSE
