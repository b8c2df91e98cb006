SPECIFICATION Spec
CONSTANT Builds <- MCHidden
INVARIANT HardDepsRestored
