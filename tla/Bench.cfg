CONSTANTS
  NClients = 3
  Operations = 5
  Warmup = 2
  Keyspace = 2
  Workloads = {"read", "write", "read-overwrite"}
  Latencies = {1, 2, 3}
SPECIFICATION FairSpec
INVARIANT MeasuredTogether
INVARIANT ReportExact
PROPERTY BenchEnds
CHECK_DEADLOCK FALSE
