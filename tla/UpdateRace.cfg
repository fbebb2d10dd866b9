SPECIFICATION Spec
CONSTANTS
    None = None
    c1 = c1
    c2 = c2
    x = x
    y = y
    Callers <- TwoCallers
    Texts <- TwoTexts
    Statuses <- TwoStatuses
    Patches <- SomePatches
    MaxEdits = 2
PROPERTIES
    UpdateOnExpectedVersion
CHECK_DEADLOCK FALSE
