\* Every sequence of page, index and template commands on up to two pages.
SPECIFICATION Spec
CONSTANTS
    Types <- MCTypes
    Fields <- MCFields
    Offered <- MCOffered
    DirOrder <- MCDirOrder
    Inputs <- MCInputs
    Managed <- MCManaged
    None = None
    MaxPages = 2
    MaxEntries = 1
INVARIANTS RecordsFollowPages ReportedPathAddresses WrittenIsAddressed
    GateHolds StrayEntryHasCause
