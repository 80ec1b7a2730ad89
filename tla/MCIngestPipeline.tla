-------------------------- MODULE MCIngestPipeline --------------------------
(* A small instance of IngestPipeline for TLC.                             *)
EXTENDS IngestPipeline

\* Three stages, of which the first two may divert the job.
SmallTerminates == <<{REJECTED}, {NEEDS_REVIEW}, {}>>

=============================================================================
