SPECIFICATION Spec
CONSTANTS
    Platform = {"gitlab", "github"}
    TheRepo = r1
    NoText = notext
    MaxBoxes = 1
    MaxInbox = 2
    MaxActs = 2
INVARIANT WebhooksInv
PROPERTIES StrangersNeverTrigger DescriptionEventsAreTicks
CHECK_DEADLOCK FALSE
