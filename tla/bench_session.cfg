SPECIFICATION Spec
CONSTANTS
  Names <- MCNames
  CommandLines <- MCCommandLines
  Worlds <- MCWorlds
  Benchmarks <- MCBenchmarks
INVARIANTS RunsAsRequested ResultsBelong RequestedBenchmarked 
CHECK_DEADLOCK FALSE
