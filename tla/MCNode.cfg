SPECIFICATION MCSpec
CONSTANTS
  t1 = t1 t2 = t2
  Threads = {t1, t2}
  MaxEvents = 3
  MayRefuse = TRUE
CHECK_DEADLOCK FALSE
INVARIANTS OnePlace  CancelHolds
 
