SPECIFICATION FairConnectorSpec
CONSTANTS
    MaximumEvents = 6
    MaxPayload = 2
    MaxSent = 7
PROPERTY BurnEnds
\* One relay: when it has ended nothing is left to happen.
CHECK_DEADLOCK FALSE
