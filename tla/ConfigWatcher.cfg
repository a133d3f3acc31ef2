SPECIFICATION Spec
CONSTANTS
    MaxEdits = 3
    Broken = {2}
    TornValid = {1, 2}
PROPERTIES
    NeverBackToOlder
    LastEditInForce
\* The editors stop at the bound.
CHECK_DEADLOCK FALSE
