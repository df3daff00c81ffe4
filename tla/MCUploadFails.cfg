SPECIFICATION Spec
CONSTANTS
  None = None
  acme = acme
  beta = beta
  u1 = u1
  u2 = u2
  sale = sale
  rent = rent
  blank = blank
  cancel = cancel
  Companies = {acme}
  Runs = {u1}
  Docs = {sale, rent, blank, cancel}
  Feed <- MCFeedOne
  Emitter <- MCEmitter
  Kind <- MCKind
  PageSize = 2
  Faults = {"storage"}
INVARIANT CursorBehindXml
