SPECIFICATION FairConnectorSpec
CONSTANTS
    MaximumEvents = 6
    MaxPayload = 2
    MaxSent = 7
INVARIANTS DeliveredInOrder KeptIsBounded
PROPERTIES EndIsNoticed RelayEndsSocket
\* One relay: when it has ended nothing is left to happen.
CHECK_DEADLOCK FALSE
