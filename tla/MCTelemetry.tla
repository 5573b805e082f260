----------------------------- MODULE MCTelemetry -----------------------------
EXTENDS Telemetry

CONSTANTS c1

FewEntries == [s \in Sources |-> CASE s = "build" -> 1 [] s = "metrics" -> 3 [] OTHER -> 1]
=============================================================================
