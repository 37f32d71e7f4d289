\* Programs that make five queries altogether: a provisioning is three (two
\* without a new key), so that one meets what another left unanswered.  Nobody
\* has to start a further program.
CONSTANTS
    MaxQueries = 5
SPECIFICATION FairProvisioningSpec
INVARIANTS
    ProvisioningTypeOK
    AnswersInOrder
    InSyncWhileAnswered
    CompletedInSync
    DeployedKeyIsChipKey
    FilesBelongTogether
PROPERTIES
    EveryCallReturns
CHECK_DEADLOCK FALSE
