---------------------------- MODULE MCJobTurns -----------------------------
\* Three jobs; capacities one and two or none at all, changed twice.
EXTENDS JobTurns

CONSTANT unlimited

OneOrTwo == {1, 2}
=============================================================================
