SPECIFICATION Spec
CONSTANT Speeds <- MCSpeeds
INVARIANT ServedSpeedIsLegalDuty
