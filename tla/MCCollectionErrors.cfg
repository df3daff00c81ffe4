SPECIFICATION Spec
CONSTANTS
  None = None
  acme = acme
  beta = beta
  u1 = u1
  u2 = u2
  sale = sale
  rent = rent
  blank = blank
  cancel = cancel
  Companies = {acme, beta}
  Runs = {u1, u2}
  Docs = {sale, rent, blank, cancel}
  Feed <- MCFeedKeyless
  Emitter <- MCEmitter
  Kind <- MCKind
  PageSize = 1
  Faults = {"database", "timeout", "storage", "death", "dry"}
SYMMETRY MCSymmetry
INVARIANTS
  SucceededMeansCollected
  SucceededItemsComplete

  
