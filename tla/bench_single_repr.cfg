SPECIFICATION Spec
CONSTANTS
  Names <- MCNames
  CommandLines <- MCCommandLines
  Worlds <- MCWorlds
  Benchmarks <- MCBenchmarks
INVARIANT EveryReprBenchmarked
CHECK_DEADLOCK FALSE
