SPECIFICATION ConfiguredSpec
CONSTANTS
    Platform = {"github"}
    TheRepo = r1
    NoText = notext
    MaxBoxes = 1
    MaxInbox = 2
    MaxActs = 2
PROPERTY EventsAreTicks
CHECK_DEADLOCK FALSE
