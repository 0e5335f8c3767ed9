\* Documents of up to five lines, tags or parts, in all three formats.
SPECIFICATION Spec
CHECK_DEADLOCK FALSE
CONSTANTS
  Formats = {"markdown", "html", "text"}
  Sizes = {2, 4}
  Levels = {1, 2}
  MaxLines = 5
  TargetChild = 4
  MaxChild = 5
  MinSection = 4
  MaxParent = 9
  RecursiveTarget = 3
  OverlapTokens = 1
  MinTokens = 2
INVARIANTS HeadingPathIsAncestry NothingIsLost AtomsStayWhole
