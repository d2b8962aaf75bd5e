\* One paid order, events in order, handlers that throw.
SPECIFICATION FairSpec
CONSTANTS
  Orders = {"o1"}
  FreeOrders = {}
  Enrollments = {"e1"}
  Purchase <- SameCourse
  Workers = {w1, w2}
  NoOrder = "none"
  AutoApproveModes = {TRUE}
  AdminApproves = FALSE
  OrderedDelivery = TRUE
  Redelivery = FALSE
  Faults = {"throw"}
  MaxFaults = 2
INVARIANTS TypeOK AgreesWithStripe
PROPERTIES ImplementsLifecycle PaymentIsRecorded
CHECK_DEADLOCK FALSE
