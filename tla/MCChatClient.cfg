CONSTANTS
  MaxBodySize = 4
  Sizes = {1, 2, 3}
  StreamLimit = 3
SPECIFICATION Spec
INVARIANT ShownUnchanged
