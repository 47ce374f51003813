SPECIFICATION Spec
CONSTANTS
    Lines <- AnyLine
    KvKeys <- OneKey
    MaxOpen = 2
    MaxLines = 5
CHECK_DEADLOCK FALSE
INVARIANTS
    TypeOK
    SettingsMeanLastLine
    StrayOnlyBelow
    AcceptedHasNoRefused
