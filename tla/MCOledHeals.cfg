\* One distance that can be measured; no orders.
CONSTANTS
  Distances = {20}
  Orders = {}
SPECIFICATION FairSpec
PROPERTIES
  TornCorrected
  Converges
