------------------------------ MODULE MCBatches ------------------------------
EXTENDS Batches

MCJobs == 1..3
MCFinished == {"complete", "failed"}
==============================================================================
