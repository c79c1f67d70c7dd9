CONSTANTS
    Peers = {p1, p2, p3}
    Idents = {x1, x2, x3}
    NoPeer = NoPeer
    NoAnchor = NoAnchor
    Total = 4
    Hardware = 3
    NumIn = 0
    Until = TRUE
SPECIFICATION MCSpec
CHECK_DEADLOCK FALSE
INVARIANTS HoldersAgree AskedAgree RoundsAgree TasksJudged
 
