SPECIFICATION Spec
CONSTANTS
  Keys = {a, b, c, d, e}
  Times = {0, 1, 2}
INVARIANT EntriesAgree
PROPERTY KeepsOrder
