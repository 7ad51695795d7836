--------------------------- MODULE MCSchemaCache ----------------------------
EXTENDS SchemaCache, TLC

\* Nothing tells two requests apart.
Symmetry == Permutations(Handler)
=============================================================================
