SPECIFICATION Spec
CONSTANTS
    Layouts <- MCLayouts
INVARIANTS PreallocatesStrings
\* The function returns.
CHECK_DEADLOCK FALSE
