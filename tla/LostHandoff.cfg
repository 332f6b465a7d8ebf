SPECIFICATION FairSpec
CONSTANTS
  r1 = r1
  r2 = r2
  r3 = r3
  a1 = a1
  a2 = a2
  e1 = e1
  e2 = e2
  w1 = w1
  w2 = w2
  s1 = s1
  s2 = s2
  m1 = m1
  m2 = m2
  NoSpan = NoSpan
  Creator = Creator
  Reviewer <- None
  Applier <- None
  Exporter <- None
  Worker <- OneWorker
  DetectedSpan <- None
  ManualSpan <- None
  SpansFound <- NoCandidate
  Faults <- Handoff
  MaxFaults = 1
PROPERTIES
  IngestHandsOver
