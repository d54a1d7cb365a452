SPECIFICATION LiveSpec
CONSTANTS
  Sizes <- TwoSizes
  Themes <- AllThemes
  MaxEvents = 4
INVARIANTS TypeOK OpenWindowHasFlutter HandleIsLive ViewFollowsWindow ThemeFollowsSystem NothingLeft
PROPERTIES CloseEnds WindowShows
CHECK_DEADLOCK FALSE
