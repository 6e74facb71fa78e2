SPECIFICATION FairSpec
CONSTANTS
  Pid = {1, 2, 3}
  Cli = {0, 1}
  Slot = {"F9", "F10", "F11"}
  Argument = {"auto", "none", "", "command"}
CONSTRAINT Separately
INVARIANT NoZombieForgotten
PROPERTIES SignalHitsWallpaper OneWallpaper CommandAlone CommandFollows TransitionShowsTarget
CHECK_DEADLOCK FALSE
