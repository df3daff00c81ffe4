SPECIFICATION CollectorsSpec
CONSTANTS
  None = None
  acme = acme
  beta = beta
  u1 = u1
  u2 = u2
  sale = sale
  rent = rent
  blank = blank
  cancel = cancel
  Companies = {acme}
  Runs = {u1, u2}
  Docs = {sale, rent, blank, cancel}
  Feed <- MCFeedOne
  Emitter <- MCEmitter
  Kind <- MCKind
  PageSize = 2
  Faults = {"portal", "rejected", "parse", "storage", "death", "dry"}
  gama = gama
  p1 = p1
  p2 = p2
  Ausente = Ausente
  Vazio = Vazio
  Rasgado = Rasgado
  Clientes <- MCDois
  BatchFeed <- MCFeedNota
  BatchFaults = {"erro", "rejeicao", "disco", "morte", "reset"}
  Processos = {p1, p2}
  Meses <- MCMeses
  MaxLotes = 1
  MaxDocumentos = 0
SYMMETRY CollectorsSymmetry
INVARIANTS
  CollectorsTypeOK
  CursorBehindRows
  BatchSavedNsuBehindFiles
PROPERTIES
  ReadsLikeOneReader
  BatchSerialNsuNeverRegresses
