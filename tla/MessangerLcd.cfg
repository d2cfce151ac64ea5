SPECIFICATION EitherSpec
CONSTANTS
  Width = 8
  Height = 6
  DataSize = 20
  Font <- SmallFont
  Margin = 1
  TimeLength = 2
  IpLengths = {1, 2, 3}
  Circles <- SmallCircles
  MaxFailures = 1
  Writers = {w1, w2}
  MaxMessages = 2
INVARIANTS
  FreedOnceAfterThread
  SettledMessagesFreed
  PanelShowsPicture
  DrawsInside
PROPERTY
  ExitCompletes
