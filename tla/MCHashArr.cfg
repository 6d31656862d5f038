CONSTANTS
  Key = {1, 2, 3, 4}
  Value <- MCValue
  Hash <- MCHash
  maxslots = 5
SPECIFICATION HashArrSpec
PROPERTY AlwaysMap
