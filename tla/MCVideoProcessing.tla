------------------------- MODULE MCVideoProcessing -------------------------
EXTENDS VideoProcessing
CONSTANTS w1, w2
=============================================================================
