SPECIFICATION CollectorsFairSpec
CONSTANTS
  None = None
  acme = acme
  beta = beta
  u1 = u1
  u2 = u2
  sale = sale
  rent = rent
  blank = blank
  cancel = cancel
  Companies = {acme, beta}
  Runs = {u1, u2}
  Docs = {sale, rent, blank, cancel}
  Feed <- MCFeedShared
  Emitter <- MCEmitter
  Kind <- MCKind
  PageSize = 2
  Faults = {}
  gama = gama
  p1 = p1
  p2 = p2
  Ausente = Ausente
  Vazio = Vazio
  Rasgado = Rasgado
  Clientes <- MCTres
  BatchFeed <- MCFeedMisto
  BatchFaults = {"dry"}
  Processos = {p1}
  Meses <- MCMeses
  MaxLotes = 2
  MaxDocumentos = 1
PROPERTIES
  NotesAreCollected
  CursorCatchesUp
  
