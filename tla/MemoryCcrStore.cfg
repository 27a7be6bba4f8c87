\* Three originals of 1, 2 and 4 bytes against caps of 1 or 3 entries and 3 or
\* 5 bytes: every pair and single can fit or not, the long one alone can be
\* oversized, and a client can sit between the two halves of get.
CONSTANTS
  s = s
  m = m
  l = l
  Tokens = {s, m, l}
  Bytes <- MCBytes
  Clients = {c1}
  MaxEntries = {1, 3}
  MaxBytes = {3, 5}
  Ttls = {1}
  NoTtl = NoTtl
  MaxTime = 2
SPECIFICATION Spec
INVARIANTS TypeOK CapsHold AccountingExact AnswerIsTruth
PROPERTIES EvictionIsFair KeepsContract
