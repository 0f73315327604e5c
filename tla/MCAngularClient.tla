-------------------------- MODULE MCAngularClient ---------------------------
EXTENDS AngularClient

CONSTANTS ann, bob
=============================================================================
