SPECIFICATION Spec
CONSTANTS
  nprobes = 2
  max_ttl = 2
  Distance = 2
  Extra = 1
INVARIANT ReportIsRoundTrip
