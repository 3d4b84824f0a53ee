---------------------------- MODULE MCBenchmark -----------------------------
EXTENDS Benchmark
=============================================================================
