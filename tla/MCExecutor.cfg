\* Every valid plan of at most three steps and every dependency graph among
\* them: chains, forks, joins and independent branches.  No symmetry, because
\* a liveness property is checked.
SPECIFICATION FairSpec
CONSTANTS
    Steps = {s1, s2, s3}
INVARIANTS
    TypeOK InputsExist
PROPERTIES
    KeepsContract Terminates
CHECK_DEADLOCK FALSE
