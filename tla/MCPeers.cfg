CONSTANTS
    Clients = {c1, c2, c3, c4, c5}
    fInBound = TRUE
SPECIFICATION MCSpec
CHECK_DEADLOCK FALSE
INVARIANTS ClientsCounted 
PROPERTIES RequestsSettled TunnelsAreFifos
