SPECIFICATION Spec
CONSTANTS
    Lines <- MCLines
    Moments <- MCMoments
INVARIANTS
    OptionsCommute
    RefusalTouchesNothing
    AppliedOnlyIfAsked
    LiveChangesNothing
    BlocksOnlyInWindow
    QuotaWarnsFirst
    CleanFailure
CHECK_DEADLOCK FALSE
