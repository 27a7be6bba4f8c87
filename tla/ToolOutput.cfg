\* A content of five units and a footer of two: a body can shrink and still be
\* too long with its footer, be a heavy crush with it, or not shrink at all.
CONSTANTS
  mine = mine
  other = other
  Originals = {mine, other}
  Original = mine
  ContentBytes = 5
  FooterBytes = 2
  Asks <- MCAsks
SPECIFICATION Spec
INVARIANTS TypeOK LossyIsRecoverable ShorterOrUntouched
PROPERTY AdvertisedIsHeld
