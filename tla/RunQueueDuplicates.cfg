SPECIFICATION Spec
CONSTANT Builds <- MCDuplicates
INVARIANT DuplicatesApart
