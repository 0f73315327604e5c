------------------------- MODULE MCCognitoBootstrap -------------------------
EXTENDS CognitoBootstrap

CONSTANTS r1, r2
=============================================================================
