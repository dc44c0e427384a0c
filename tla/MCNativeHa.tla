----------------------------- MODULE MCNativeHa -----------------------------
\* NativeHa for three instances, which are interchangeable.
EXTENDS NativeHa, TLC

Symmetry == Permutations(Nodes)
=============================================================================
