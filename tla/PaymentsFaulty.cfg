\* One order, every fault: throws, claims that stay, crashes; events repeated and in any order.
SPECIFICATION Spec
CONSTANTS
  Orders = {"o1"}
  FreeOrders = {}
  Enrollments = {"e1"}
  Purchase <- SameCourse
  Workers = {w1, w2}
  NoOrder = "none"
  AutoApproveModes = {TRUE}
  AdminApproves = TRUE
  OrderedDelivery = FALSE
  Redelivery = TRUE
  Faults = {"throw", "releaseFails", "crash"}
  MaxFaults = 1
SYMMETRY RequestSymmetry
INVARIANTS LogTellsStatus
CHECK_DEADLOCK FALSE
