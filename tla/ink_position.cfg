\* One display, turned by 90 degrees or not, seen in views of three sizes.
SPECIFICATION GeometrySpec
CONSTANTS
  Panels <- OnePanel
  Views <- SomeViews
  Rotations = {0, 90}
  FirstDisplay = 1
  MaxModes = 0
INVARIANTS
  InkLandsWherePointed
CHECK_DEADLOCK FALSE
