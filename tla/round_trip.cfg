SPECIFICATION Spec
CONSTANTS
  H = 128
  Unit = 2
  RTO_MIN_NS = 4
  RTO_MAX_NS = 40
  MAX_RETRANSMIT_TIMEOUT_US = 10
  Times <- SomeTimes
  Steady = 25
INVARIANTS
  InRange
  CoversLast
  Settled
