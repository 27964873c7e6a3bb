\* The claim the bot makes to the user of a saved card.
CONSTANTS
    o1 = o1
    o2 = o2
    o3 = o3
    NoOrder = NoOrder
    Orders <- ThreeOrders
    MaxPeriods = 2
SPECIFICATION Spec
CHECK_DEADLOCK FALSE
INVARIANTS
    PaidRepeatIsGrantable
