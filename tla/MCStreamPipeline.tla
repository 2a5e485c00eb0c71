-------------------------- MODULE MCStreamPipeline --------------------------
\* The pipeline on a small instance: channels of one event instead of 64, so
\* that they are full with few messages, and enough messages to fill every
\* goroutine's hand and every channel with one left over.
EXTENDS StreamPipeline
=============================================================================
