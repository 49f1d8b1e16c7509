---------------------------- MODULE MCBenchTurns ----------------------------
EXTENDS BenchTurns

MCHarnesses == {"raw", "plugin"}

=============================================================================
