SPECIFICATION Spec
CONSTANTS
  desktop = desktop
  headless = headless
  Openers <- DesktopAndServer
  Rooted <- MCRooted
  Levels <- MCLevels
  MaxCrashes = 1
INVARIANTS
  StampMeansApplied
  DeferredIsNotMasked
  OpenedIsUsable
  NoBootLoop
  RootedOpenCompletes
CHECK_DEADLOCK FALSE
