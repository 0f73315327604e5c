-------------------------- MODULE MCNativeRegister --------------------------
EXTENDS NativeRegister

CONSTANTS w1, w2, w3
=============================================================================
