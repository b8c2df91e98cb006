SPECIFICATION Spec
CONSTANT Speeds <- MCSpeeds
INVARIANTS TypeOK ServedNumberIsLegalDuty
PROPERTY RefusedChangesNothing
