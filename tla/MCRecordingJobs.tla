-------------------------- MODULE MCRecordingJobs --------------------------
EXTENDS RecordingJobs

CONSTANTS first, again

\* A first attempt at two clips; a retry of one.
MCItemCount == [j \in Jobs |-> IF j = first THEN 2 ELSE 1]
============================================================================
