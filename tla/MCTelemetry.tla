---------------------------- MODULE MCTelemetry ----------------------------
EXTENDS Telemetry, TLC

ProcessSymmetry == Permutations(Processes)
=============================================================================
