SPECIFICATION MCSpec
CONSTANTS
Cids = {c1, c2}
Buys = {c1}
LotSize = 1
GraceGens = 2
MaxMishaps = 1
MaxStream = 1
Step = 3
Slack = 0
Levels = 2
MaxLots = 2
RiskLots = 3
MaxActions = 2
CancelGens = 2
PlaceGens = 4
Shifts = {1, 5}
OrderIds = {1, 2, 3, 4, 5, 6, 7, 8, 9, 10}
MaxTroubles = 2
INVARIANT RestingIsTracked
INVARIANT OneOrderPerSlot
PROPERTY AccountSettles
PROPERTY GridConverges
CHECK_DEADLOCK FALSE
