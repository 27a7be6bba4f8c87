\* A short and a long original; limits under which the memory refuses the long
\* one, and under which it expires; a disk cap that only one of the files fits;
\* a sweep at every second write.
CONSTANTS
  s = s
  l = l
  Tokens = {s, l}
  Bytes <- MCBytes
  Callers = {c1}
  LimitsAtHand <- MCLimits
  DiskCaps = {3}
  NoTtl = NoTtl
  NoCap = NoCap
  EnforceEvery = 2
  MaxTime = 1
SPECIFICATION Spec
INVARIANTS TypeOK AdvertisedIsRetrievable RetrievableIsAnswered
PROPERTY SweepIsFair
