\* Three orders: a subscription with two renewals, a card with two repeat charges,
\* or any mixture of purchases.  With every order used and settled the system stops.
CONSTANTS
    o1 = o1
    o2 = o2
    o3 = o3
    NoOrder = NoOrder
    Orders <- ThreeOrders
    MaxPeriods = 2
SPECIFICATION Spec
CHECK_DEADLOCK FALSE
SYMMETRY Symmetry
INVARIANTS
    CreditsMatchOrders
    PaidIsGrantable
    OneChargePerPeriod
    OneRepeatAtATime
PROPERTIES
    ImplementsPurchase
