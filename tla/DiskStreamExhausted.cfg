SPECIFICATION StreamFairSpec
CONSTANTS
  MaxStreams = 1
  PoolBlocks = 2
PROPERTIES
  ExhaustionIsMomentary
