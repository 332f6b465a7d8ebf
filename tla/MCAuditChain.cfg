SPECIFICATION Spec
CONSTANTS
  t1 = t1
  t2 = t2
  t3 = t3
  a = a
  b = b
  Tx <- MCTx
  Payload <- MCPayload
  MaxSequence = 4
SYMMETRY Symmetry
INVARIANTS
  TypeOK
  EveryViewVerifies
  SequenceIsContiguous
  SingleWriter
PROPERTIES
  HeadOnlyExtends
