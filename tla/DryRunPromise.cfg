SPECIFICATION Spec
CONSTANTS
    Lines <- MCActions
    Moments <- MCMoments
INVARIANT
    DryRunChangesNothing
CHECK_DEADLOCK FALSE
