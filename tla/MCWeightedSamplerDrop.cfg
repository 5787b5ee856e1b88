CONSTANTS
    Orgs = {o1, o2, o3}
    MaxWeight = 3
SPECIFICATION Spec
INVARIANT DropSampleProportional
