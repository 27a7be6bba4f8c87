\* Two events and a legacy snapshot: enough for an early change, a change
\* after the document is read, and a stored total to add them to.
CONSTANTS
  Events = {e1, e2}
  Legacy = legacy
  Absent = Absent
  Modes = {"governed", "legacy", "standalone"}
SPECIFICATION Spec
SYMMETRY Symmetric
INVARIANTS TypeOK LedgerIsWhatWasTold CountedOnce AcknowledgedIsStored GovernedResetClears
