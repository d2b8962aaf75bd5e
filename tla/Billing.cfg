\* Two overlapping requests about the subscriptions of two checkouts with three
\* events, or about three orders with a coupon that two may use, each user once.
SPECIFICATION Spec
CONSTANTS
  Requests = {r1, r2}
  MaxMinute = 2
  MaxEvents = 3
  Orders = {"order1", "order2", "order3"}
  Users = {"user", "other"}
  Buyer <- TwoBuyers
  MaxRedemptions = 2
  PerUserLimit = 1
  NoOrder = "none"
SYMMETRY RequestSymmetry
INVARIANTS SubscriptionsAgree CouponsAreLimited
