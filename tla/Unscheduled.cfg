SPECIFICATION Spec
SYMMETRY Symmetry
CONSTANTS
  Hosts = {h1, h2}
  Lengths = {3, 5}
  LEVELS = 3
  SAMPLE_SIZE = 2
  RTT_BYTES = 6
  MAX_MESSAGES = 2
  MAX_RECEIVERS = 3
  None = None
INVARIANTS TypeOK SamplesInOrder PartitionsAreTheHosts EqualShares LongerNeverHigher DefaultsAgree
