---------------------------- MODULE MCLoginGate ----------------------------
EXTENDS LoginGate

=============================================================================
