SPECIFICATION Spec
CONSTANTS
  Suites <- MCSuites
  Offers <- MCOffers
  Tsdbs <- MCTsdbs
  Counts = {0, 10, 11, 12}
  MaxDeltaPct = 10
  MaxSeriesPerMetric = 10
  MaxAttempts = 4
  MaxPolls = 2
  MaxVersion = 3
  MaxSpecs = 2
INVARIANTS
  TypeOK
  OneSource
  MetricsApartOnly
  UndisturbedPasses
  DiagnosisGrounded
  GateSeesGrowth
PROPERTIES
  CompleteStays
  SpecsEnd
CHECK_DEADLOCK FALSE
