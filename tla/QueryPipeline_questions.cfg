SPECIFICATION Spec
CONSTANTS
    Organizations <- MCOrganizations
    Metrics <- MCMetrics
    Users <- MCUsers
    Reports <- MCReports
    Openings <- MCOpenings
    FollowUps <- MCFollowUps
    Supplies <- MCSupplies
    Rewordings <- MCRewordings
    Replies <- MCReplies
    ModelKnows <- MCModelKnows
    MaxLimit = 100
    LlmRetries = 1
    MaxTurns = 2
INVARIANTS TypeOK Confined PopulationWhole DutiesServed AboutWhatWasNamed
PROPERTY LeadsOn
