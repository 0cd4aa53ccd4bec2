SPECIFICATION MCFairSpec
CONSTANTS
  Offset <- MCOffset
  Stick <- MCStick
  Repeat = 2
  MaxPosts = 3
  MaxFaults = 3
  Thread = {1, 2}
INVARIANTS
  TypeOK
  NeverCrashes
PROPERTIES
  HeldFollowed
  FollowsOrStops
  PictureComesBack
  ImplementsPosts
CHECK_DEADLOCK FALSE
