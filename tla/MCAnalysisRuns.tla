--------------------------- MODULE MCAnalysisRuns ---------------------------
EXTENDS AnalysisRuns

CONSTANTS p, one, two
============================================================================
