\* The tree script on every short list of two accounts and two amounts, and on
\* longer ones that fit the padded tree or do not.
CONSTANTS
    a1 = a1
    a2 = a2
    a3 = a3
    Lists <- MCLists
    Width = 4
SPECIFICATION Spec
INVARIANTS
    PrintedPathsProve
    PrintedPathsProveNothingElse
    AgreesWithReference
    FailsOnlyOnMisfits
