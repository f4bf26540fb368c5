SPECIFICATION Spec
CONSTANTS
  NULL = NULL
  Workers = {w1, w2}
  Values = {1, 2}
  MaxRows = 3
SYMMETRY Symmetry
INVARIANT OneActive
PROPERTIES StaysPriced IsPriceCell
