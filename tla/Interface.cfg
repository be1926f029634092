SPECIFICATION Spec
CONSTANT MaxOmitted = 1
INVARIANTS
    UnderstoodAsMeant
    NoReadOnlyWrite
