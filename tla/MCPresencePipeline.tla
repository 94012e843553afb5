------------------------ MODULE MCPresencePipeline ------------------------
EXTENDS PresencePipeline

CONSTANTS a, b
=============================================================================
