---------------------------- MODULE MCNdmpServer ----------------------------
EXTENDS NdmpServer, TLC

\* Connections are interchangeable; descriptors are numbers and are not.
Symmetry == Permutations(Conns)
=============================================================================
