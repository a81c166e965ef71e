\* Pages of two, three images. A client may be left alone for ever.
SPECIFICATION Spec
CONSTANTS
    PageSize = 2
    MaxImages = 3
CHECK_DEADLOCK FALSE
PROPERTY MarksGoWhenListChanges
