SPECIFICATION Spec
CONSTANTS
    f1 = f1  f2 = f2  NoFile = NoFile
    Files = {f1, f2}
    Accesses <- MCAccesses
    MaxChanges = 2
    Faults = TRUE
INVARIANTS TypeOK RuledFilesUntouched DeniedFilesStayClosed DenialHasRule
SYMMETRY FileSymmetry
