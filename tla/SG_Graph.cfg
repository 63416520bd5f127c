SPECIFICATION Spec
CONSTANTS
  Names = {a, b, c}
  Links <- MCLinks
  MaxNodes = 3
INVARIANTS
  TypeOK
  EdgesAreLinks
  LinksLeadToTheirName
