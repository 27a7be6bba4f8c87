\* One long original, which the caps of one install refuse and those of the
\* others take; installs with and without a lifetime, a durable tier and CCR;
\* two requests at a time.
CONSTANTS
  l = l
  Tokens = {l}
  Bytes <- MCBytes
  Callers = {c1, c2}
  Requests <- MCRequests
  Governed = TRUE
  NoTtl = NoTtl
  MaxInstalls = 2
  MaxTime = 2
SPECIFICATION Spec
SYMMETRY Symmetric
INVARIANTS TypeOK InstallIsWhole PromiseKept AdvertisedIsRetrievable RetrievableIsAnswered
