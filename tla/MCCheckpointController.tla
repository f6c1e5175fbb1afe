----------------------- MODULE MCCheckpointController -----------------------
EXTENDS CheckpointInvariant
=============================================================================
