--------------------------- MODULE MCRateLimiter ----------------------------
EXTENDS RateLimiter, TLC

\* Nothing tells two requests, or two addresses, apart.
Symmetry == Permutations(Request) \cup Permutations(Address)
=============================================================================
