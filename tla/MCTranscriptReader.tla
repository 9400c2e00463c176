------------------------- MODULE MCTranscriptReader -------------------------
EXTENDS TranscriptReader
=============================================================================
