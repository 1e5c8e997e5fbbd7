SPECIFICATION Spec
CONSTANTS
    Layouts <- MCLayouts
    Json <- MCJson
    Messages <- MCMessages
    ArraySize = 2
INVARIANTS RoundTrip InBounds
\* The message has been read, or not.
CHECK_DEADLOCK FALSE
