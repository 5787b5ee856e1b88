CONSTANTS
    c1 = c1
    c2 = c2
    a1 = a1
    a2 = a2
    f1 = f1
    m1 = m1
    None = None
    Contracts = {c1, c2}
    Analyses = {a1, a2}
    FunctionNames = {f1}
    MapNames = {m1}
    PublicFunctions <- MCPublicFunctions
    Maps <- MCMaps
    MaxFaults = 2
SPECIFICATION Spec
SYMMETRY ContractSymmetry
INVARIANT TypeOK
PROPERTY CommitAtomicity
