CONSTANTS
  Id = {0, 1, 2, 3, 4, 6, 8, 12, 16}
  PRE_ALLOC = 4
SPECIFICATION MapSpec
INVARIANTS LookupExact ChainsLead
