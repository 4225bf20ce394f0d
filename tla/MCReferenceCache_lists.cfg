SPECIFICATION FairSpec
CONSTANTS
    good = good
    planned = planned
    bank = bank
    Null = Null
    Metadata <- MCMetadata
    Listed = {"stations"}
    Item = {good, planned, bank}
    KindOf <- MCKindOf
    Described = {good, bank}
    Worker = {task}
    Web = {web}
    MaxVersion = 2
    MaxChanges = 1
    MaxFaults = 1
INVARIANT TypeOK
PROPERTIES
    AlarmsHaveCause
    ListsConverge
