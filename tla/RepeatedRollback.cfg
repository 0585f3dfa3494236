\* Two requests for a rollback.
SPECIFICATION DeploymentSpec
PROPERTY
    RollbackNotRepeated
