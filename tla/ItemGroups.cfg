SPECIFICATION Spec
CONSTANTS
    heap_address_bits = 24
    bug_compat = {"SWAP_ENDIAN", "SHAPE_BIT_1"}
    Offers <- MCOffers
    ValuesOf <- MCValuesOf
    Requests <- MCRequests
    MaxSteps = 5
    MaxTroubles = 1
INVARIANTS GroupsSound LateJoinerLearns
PROPERTY VersionsGrow
CHECK_DEADLOCK FALSE
