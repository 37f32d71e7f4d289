\* The same link: does a returned signature belong to the message asked for?
CONSTANTS
    MaxQueries = 4
SPECIFICATION Spec
INVARIANTS
    SignsWhatWasAsked
CHECK_DEADLOCK FALSE
