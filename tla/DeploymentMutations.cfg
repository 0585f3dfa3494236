\* Jobs begin in time, or outlive the 3 s of start_worker.
SPECIFICATION DeploymentLiveSpec
INVARIANTS
    OneChoiceForNextBoot
    IdleWasTrue
    RebootReportTrue
PROPERTIES
    RollbackSparesUpdate
    RebootOnlyWhenQuiet
    PermitComesBack
