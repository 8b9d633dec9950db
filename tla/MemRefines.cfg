CONSTANTS
    Callers = {c1, c2}
    Keys = {k1, k2}
    Values = {1, 2}
    Slices = {s1, s2, s3, s4, s5, s6}
SYMMETRY Symmetry
SPECIFICATION Spec
INVARIANT MapExclusive
PROPERTY IsConn
