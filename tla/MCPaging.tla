------------------------------ MODULE MCPaging ------------------------------
EXTENDS Paging, TLC

\* No limit, a page of 1 and of 2, and two that do not fit: of 6 values, -3 to 2, 3 converts
\* to -3 and 6 to 0.  The offset after three pages of 1 does not fit either.
MCParam == {NoNumber, -1, 1, 2, 3, 6}

\* Nothing tells two rows apart but their stamps.
Symmetry == Permutations(Row)
=============================================================================
