CONSTANTS
  mine = mine
  other = other
  Originals = {mine, other}
  Original = mine
  ContentBytes = 5
  FooterBytes = 2
  Asks <- MCAsks
SPECIFICATION Spec
INVARIANT LightKeepsExact
