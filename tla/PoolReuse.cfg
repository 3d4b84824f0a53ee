SPECIFICATION Spec
CONSTANT Size = 7
INVARIANTS NoSharedBlock ExitOnlyWhenFull
