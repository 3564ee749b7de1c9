------------------------------- MODULE MCBus --------------------------------
EXTENDS Bus

CONSTANTS s1, s2, s3, r1, r2
=============================================================================
