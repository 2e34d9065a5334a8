SPECIFICATION ConfiguredSpec
CONSTANTS
    Platform = {"gitlab", "github"}
    TheRepo = r1
    NoText = notext
    MaxBoxes = 1
    MaxInbox = 2
    MaxActs = 2
INVARIANT TypeOK
PROPERTIES StrangersNeverTrigger DescriptionEventsAreTicks RunsSettle EveryTickIsServed
CHECK_DEADLOCK FALSE
