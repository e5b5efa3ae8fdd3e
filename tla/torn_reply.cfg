SPECIFICATION Spec
CONSTANTS
    MaxLots = 3
    PageSize = 2
    Slots = 2
    MaxRequests = 2
    MaxChanges = 1
    MaxFaults = 1
PROPERTIES
    ReplyIsComplete
