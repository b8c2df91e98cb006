SPECIFICATION Spec
CONSTANT Builds <- MCForced
INVARIANT DuplicatesApart
