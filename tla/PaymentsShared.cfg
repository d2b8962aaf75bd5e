\* A paid and a free order for one course, admins and a changing setting, events in any order.
SPECIFICATION Spec
CONSTANTS
  Orders = {"o1", "free"}
  FreeOrders = {"free"}
  Enrollments = {"e1"}
  Purchase <- SameCourse
  Workers = {w1, w2}
  NoOrder = "none"
  AutoApproveModes = {TRUE, FALSE}
  AdminApproves = TRUE
  OrderedDelivery = FALSE
  Redelivery = FALSE
  Faults = {}
  MaxFaults = 0
SYMMETRY RequestSymmetry
INVARIANTS AccessWasPaid
PROPERTIES ClosedStaysClosed
CHECK_DEADLOCK FALSE
