-------------------------- MODULE MCConnectionSetup --------------------------
\* ConnectionSetup with the local server and one SSH server.  Slots of control
\* requests are interchangeable.
EXTENDS ConnectionSetup, TLC

Symmetry == Permutations(Slots)
=============================================================================
