SPECIFICATION Spec
CONSTANTS
    t1 = t1  t2 = t2
    Task <- Tasks
    MaxOps = 1
    MayFail = TRUE
SYMMETRY Symmetry
PROPERTY TapAsksAgain
