------------------------------- MODULE MCRdqm -------------------------------
\* Rdqm for a site of two interchangeable nodes and a site of one.
EXTENDS Rdqm, TLC

Symmetry == Permutations(SiteA)
=============================================================================
