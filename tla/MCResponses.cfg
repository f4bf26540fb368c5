SPECIFICATION ReplySpec
CONSTANTS
  pipe = pipe  PIPE = PIPE  elbow = elbow
  Item = {i1, i2}
  Material = {m1, m2}
  Spelling = {pipe, PIPE, elbow}
  NameOf <- MCNameOf
  Alias = {a1, a2, a3}
  Worker = {w1, w2}
  None = None
  GONE = GONE
  Invented = Invented
  MaxLines = 2
  MaxLinks = 2
  PriceTag <- MCPriceTags
  LineTotal <- MCLineTotals
  PricedQuantity = {1, 2, 8, 24}
  Pieces = {1, 2, 8, 40}
SYMMETRY MCSymmetry
INVARIANTS SerialLinksUnambiguous SilentPriceAddsUp
PROPERTY PostMatchIsExact
CHECK_DEADLOCK FALSE
