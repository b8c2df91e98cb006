SPECIFICATION Spec
CONSTANT Builds <- MCTwins
INVARIANT DuplicatesApart
