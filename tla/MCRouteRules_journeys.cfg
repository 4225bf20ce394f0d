SPECIFICATION RulesSpec
CONSTANTS
    StationOrder <- MCStationOrder
    Hub = {"H", "nowhere"}
    HubOf <- MCHubOf
    Line = {"red", "blue"}
    None = "none"
    Network = {"usual", "both", "loop"}
    Variants <- MCVariants
    Serves <- MCServes
    Request <- MCRequest
    Report <- MCReport
    Disabled = {"good"}
    MAX_ROUTE_SEGMENTS = 3
CHECK_DEADLOCK FALSE
INVARIANTS
    RulesTypeOK
    AcceptsJourneys
    AcceptedIsIndexed
    TravellersAreTold
