SPECIFICATION Spec
CONSTANT Builds <- MCBuilds
INVARIANTS TypeOK OutputsThere HardDepsThere ActiveCounts CoveredOrNot DuplicatesApart AllThatCanBe
PROPERTIES ImplementsBuildOrder BuildEnds
