CONSTANTS
    Conns = {c1, c2, c3}
    Contracts = {n1, n2}
    Analyses = {a1, a2}
    None = None
SYMMETRY MCSymmetry
SPECIFICATION Spec
INVARIANT TypeOK InsertCheckHolds
