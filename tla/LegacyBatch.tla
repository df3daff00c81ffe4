---------------------------- MODULE LegacyBatch ----------------------------
(***************************************************************************)
(* The command line the service grew from: main.py runs                    *)
(* processar_todos_clientes (worker_core/batch_processor.py) over the      *)
(* clients of a CSV, or over one lot of them, and keeps the highest NSU of *)
(* every client in one JSON file (worker_core/nsu_tracker.py).             *)
(*                                                                         *)
(* Several processes may run at once (the crontab of TROUBLESHOOTING.md    *)
(* starts a lot every hour); they share the state file, its ".tmp" and the *)
(* output directory, and nothing locks any of them.  A process may die     *)
(* between any two steps.  An NSU is a position in the client's feed.      *)
(***************************************************************************)
EXTENDS Naturals, Sequences, FiniteSets

CONSTANTS
    Clientes,       \* the valid rows of config/clientes.csv, in order
    Feed,           \* what the portal has for each client, in NSU order (Documentos)
    Meses,          \* the periods asked for, none of them OutroTipo
    Processos,
    MaxLotes,       \* bound on --total-lotes
    MaxDocumentos,  \* MAX_DOCUMENTOS_POR_EXECUCAO, 0 when unset
    Faults,         \* the faults this instance may suffer
    Ausente, Vazio, Rasgado     \* no file, an empty one, one that is no JSON

Range(s) == {s[i] : i \in DOMAIN s}
Cnpjs == Range(Clientes)

\* The month filtrar_por_competencia sees in a document, OutroTipo for those
\* that filtrar_por_tipo_documento drops, and whether its XML can be read.
OutroTipo == 0
Documentos == [mes : Nat, xml : BOOLEAN]

\* "erro": a client fails before it is fetched, or a request does;
\* "rejeicao": the portal stops answering after any page;
\* "disco": a file cannot be written;  "morte": the process is killed;
\* "reset": the operator runs --reset-nsu;  "dry": runs may be dry runs.
AllFaults == {"erro", "rejeicao", "disco", "morte", "reset", "dry"}

VARIABLES
    publicados,     \* how much of its feed the portal has published
    ultimo_nsu,     \* what ultimo_nsu.json holds
    tmp,            \* what ultimo_nsu.json.tmp holds
    xmls,           \* the file of each document: none, opened or whole
    excel,          \* the documents listed in the workbook of each period
    proc,           \* the processes, see Parado
    overlapped,     \* history: two processes have run at once
    estreitos       \* history: the periods that runs have filtered for

disco == <<ultimo_nsu, tmp, xmls, excel>>
vars == <<publicados, disco, proc, overlapped, estreitos>>

\* The dict of the state file.  A CNPJ that is not in it counts as 0, and
\* atualizar_nsu never stores a 0.
Estados == [Cnpjs -> Nat]
Zero == [c \in Cnpjs |-> 0]

\* A process that is not there.  A collection keeps the clients to do in
\* fila and the NSUs of the XMLs to write in notas; fd says where the file
\* it opened to save the state is by now.
Parado == [pc |-> "parado", op |-> "coleta", mes |-> OutroTipo, todas |-> FALSE,
           dry |-> FALSE, fila |-> << >>, estado |-> Zero, notas |-> {},
           maior |-> 0, fd |-> "nenhum"]

Pcs == {"parado", "carregar", "clientes", "excel", "abrir_xml", "xml",
        "abrir", "escrever", "trocar"}
Fds == {"nenhum", "tmp", "arquivo", "perdido"}

TypeOK ==
    /\ publicados \in Estados
    /\ ultimo_nsu \in Estados \cup {Ausente, Vazio, Rasgado}
    /\ tmp \in Estados \cup {Ausente, Vazio, Rasgado}
    /\ \A c \in Cnpjs : xmls[c] \in [1..Len(Feed[c]) -> {"ausente", "aberto", "inteiro"}]
    /\ excel \in [Cnpjs -> [Meses -> SUBSET Nat]]
    /\ \A p \in Processos :
        /\ proc[p].pc \in Pcs /\ proc[p].fd \in Fds
        /\ proc[p].estado \in Estados
        /\ proc[p].fd # "nenhum" <=> proc[p].pc = "escrever"
        /\ proc[p].pc \in {"excel", "abrir_xml", "xml"} =>
              ~proc[p].dry /\ proc[p].maior <= publicados[Head(proc[p].fila)]
    /\ overlapped \in BOOLEAN /\ estreitos \subseteq Meses
    /\ \A c \in Cnpjs : Feed[c] \in Seq(Documentos)

Init ==
    /\ publicados = Zero
    /\ ultimo_nsu = Ausente
    /\ tmp = Ausente
    /\ xmls = [c \in Cnpjs |-> [n \in 1..Len(Feed[c]) |-> "ausente"]]
    /\ excel = [c \in Cnpjs |-> [m \in Meses |-> {}]]
    /\ proc = [p \in Processos |-> Parado]
    /\ overlapped = FALSE
    /\ estreitos = {}

\* Process p goes on.
Segue(p, novo) == proc' = [proc EXCEPT ![p] = novo]

Publish(c) ==
    /\ publicados[c] < Len(Feed[c])
    /\ publicados' = [publicados EXCEPT ![c] = @ + 1]
    /\ UNCHANGED <<disco, proc, overlapped, estreitos>>

-----------------------------------------------------------------------------
(* main.py: one process, one collection or one reset.                      *)

Menor(a, b) == IF a < b THEN a ELSE b

\* Lots of the rounded-down size.
FatiaCurta(lista, lote, total) ==
    LET tamanho == Len(lista) \div total
    IN  SubSeq(lista, (lote - 1) * tamanho + 1, Menor(lote * tamanho, Len(lista)))

\* --lote and --total-lotes; total = 1 when they are not given.
Fatia(lista, lote, total) ==
    LET tamanho == (Len(lista) + total - 1) \div total
    IN  SubSeq(lista, (lote - 1) * tamanho + 1, Menor(lote * tamanho, Len(lista)))

Aparece(p) == overlapped' = (overlapped \/ \E q \in Processos \ {p} : proc[q].pc # "parado")

\* A collection of the clients of fila.  The period is the folder's; all the
\* documents are kept, whatever their month, when todas.
Coletar(p, fila, mes, todas, dry) ==
    /\ proc[p].pc = "parado"
    /\ Segue(p, [proc[p] EXCEPT !.pc = "carregar", !.mes = mes, !.todas = todas, !.dry = dry,
                 !.fila = fila])
    /\ estreitos' = IF dry \/ todas THEN estreitos ELSE estreitos \cup {mes}
    /\ Aparece(p)
    /\ UNCHANGED <<publicados, disco>>

\* The clients main.py may be asked for: all of them, or --cnpj.
Listas == {Clientes} \cup {<<c>> : c \in Cnpjs}

Inicia(p) ==
    \E lista \in Listas, mes \in Meses, total \in 1..MaxLotes, todas \in BOOLEAN,
       dry \in IF "dry" \in Faults THEN BOOLEAN ELSE {FALSE} :
        \E lote \in 1..total :
            /\ todas => Len(lista) = 1
            /\ Coletar(p, Fatia(lista, lote, total), mes, todas, dry)

\* What the crontab starts: one lot of the clients, for one period.
Agendada(p, mes, lote) == Coletar(p, Fatia(Clientes, lote, MaxLotes), mes, FALSE, FALSE)

Resetar(p, c) ==
    /\ "reset" \in Faults
    /\ proc[p].pc = "parado"
    /\ Segue(p, [proc[p] EXCEPT !.pc = "carregar", !.op = "reset", !.fila = <<c>>])
    /\ Aparece(p)
    /\ UNCHANGED <<publicados, disco, estreitos>>

-----------------------------------------------------------------------------
(* nsu_tracker.py: the state file.                                         *)

\* What carregar_estado returns: a file that is no JSON counts as empty.
Carregado == IF ultimo_nsu \in {Ausente, Vazio, Rasgado} THEN Zero ELSE ultimo_nsu

\* Once the state is saved, or could not be: the next client, or the end of
\* a reset.
Depois(q) == IF q.op = "coleta" THEN [q EXCEPT !.pc = "clientes", !.fd = "nenhum"] ELSE Parado

\* carregar_estado, with the first step of a reset that follows it.  A file
\* that is not there is created, by dry runs too.
Carregar(p) ==
    /\ proc[p].pc = "carregar"
    /\ LET c == Head(proc[p].fila)
           lido == [proc[p] EXCEPT !.estado = Carregado]
       IN  proc' = [proc EXCEPT ![p] =
              IF ultimo_nsu = Ausente THEN [lido EXCEPT !.pc = "abrir"]
              ELSE IF lido.op = "reset" /\ lido.estado[c] > 0
              THEN [lido EXCEPT !.pc = "abrir", !.estado[c] = 0]
              ELSE Depois(lido)]
    /\ UNCHANGED <<publicados, disco, overlapped, estreitos>>

\* A save that opens the state file itself.
AbrirDireto(p) ==
    /\ proc[p].pc = "abrir"
    /\ ultimo_nsu' = Vazio
    /\ Segue(p, [proc[p] EXCEPT !.pc = "escrever", !.fd = "arquivo"])
    /\ UNCHANGED <<publicados, tmp, xmls, excel, overlapped, estreitos>>

\* salvar_estado, open(caminho_tmp, "w"): the file is truncated if another
\* process has it open, and created otherwise.
AbrirTmp(p) ==
    /\ proc[p].pc = "abrir"
    /\ tmp' = Vazio
    /\ Segue(p, [proc[p] EXCEPT !.pc = "escrever", !.fd = "tmp"])
    /\ UNCHANGED <<publicados, ultimo_nsu, xmls, excel, overlapped, estreitos>>

\* A whole state written from the start of a file: what was longer there
\* stays behind it.
Escrito(antes, estado) == IF antes \in {Vazio, estado} THEN {estado} ELSE {estado, Rasgado}

\* json.dump, flush, fsync: into the file that was opened, wherever
\* os.replace has taken it meanwhile.
EscreverTmp(p) ==
    /\ proc[p].pc = "escrever"
    /\ CASE proc[p].fd = "tmp" -> tmp' \in Escrito(tmp, proc[p].estado) /\ UNCHANGED ultimo_nsu
         [] proc[p].fd = "arquivo" -> ultimo_nsu' \in Escrito(ultimo_nsu, proc[p].estado) /\ UNCHANGED tmp
         [] OTHER -> UNCHANGED <<ultimo_nsu, tmp>>
    /\ Segue(p, [proc[p] EXCEPT !.pc = "trocar", !.fd = "nenhum"])
    /\ UNCHANGED <<publicados, xmls, excel, overlapped, estreitos>>

\* Where an open file is after the ".tmp" became para.
Mudou(fd, para) ==
    CASE fd = "tmp" -> para
      [] fd = "arquivo" /\ para = "arquivo" -> "perdido"
      [] OTHER -> fd

\* The others see the files move; p itself is done with the save.
Larga(p, para) ==
    proc' = [q \in Processos |->
        IF q = p THEN Depois(proc[q]) ELSE [proc[q] EXCEPT !.fd = Mudou(@, para)]]

\* os.replace.  It raises when another process has moved the ".tmp" first.
Trocar(p) ==
    /\ proc[p].pc = "trocar"
    /\ IF tmp = Ausente
       THEN Larga(p, "tmp") /\ UNCHANGED <<ultimo_nsu, tmp>>
       ELSE Larga(p, "arquivo") /\ ultimo_nsu' = tmp /\ tmp' = Ausente
    /\ UNCHANGED <<publicados, xmls, excel, overlapped, estreitos>>

\* except OSError: the ".tmp" is removed, whoever is writing it.
SalvarFalha(p) ==
    /\ "disco" \in Faults
    /\ proc[p].pc \in {"abrir", "escrever", "trocar"}
    /\ tmp' = Ausente
    /\ Larga(p, "perdido")
    /\ UNCHANGED <<publicados, ultimo_nsu, xmls, excel, overlapped, estreitos>>

Salvar(p) == AbrirTmp(p) \/ EscreverTmp(p) \/ Trocar(p)

-----------------------------------------------------------------------------
(* batch_processor.py: one client after the other.                         *)

\* The last NSU buscar_todos_dfe_novos may return when it asks from NSU de.
Alcance(c, de) ==
    LET limite == IF MaxDocumentos = 0 THEN publicados[c]
                  ELSE Menor(de + MaxDocumentos, publicados[c])
    IN  IF "rejeicao" \in Faults THEN de..limite ELSE {limite}

\* lista_mes, as NSUs.
DoPeriodo(p, c, ate) ==
    {n \in (proc[p].estado[c] + 1)..ate :
        IF proc[p].todas THEN Feed[c][n].mes # OutroTipo ELSE Feed[c][n].mes = proc[p].mes}

\* atualizar_nsu.
Atualizado(estado, c, nsu) == IF nsu > estado[c] THEN [estado EXCEPT ![c] = nsu] ELSE estado

\* The NSU moved in the dict as soon as the documents are there.
BuscarNotasAvanca(p) ==
    /\ proc[p].pc = "clientes" /\ proc[p].fila # << >>
    /\ LET c == Head(proc[p].fila) IN
        \E ate \in Alcance(c, proc[p].estado[c]) :
            /\ DoPeriodo(p, c, ate) # {}
            /\ IF proc[p].dry
               THEN Segue(p, [proc[p] EXCEPT !.fila = Tail(proc[p].fila)])
               ELSE Segue(p, [proc[p] EXCEPT !.pc = "excel", !.maior = ate,
                              !.estado = Atualizado(proc[p].estado, c, ate),
                              !.notas = {n \in DoPeriodo(p, c, ate) : Feed[c][n].xml}])
    /\ UNCHANGED <<publicados, disco, overlapped, estreitos>>

\* Documents of the period: the ones with an XML are extracted and, unless
\* this is a dry run, saved.
BuscarNotas(p) ==
    /\ proc[p].pc = "clientes" /\ proc[p].fila # << >>
    /\ LET c == Head(proc[p].fila) IN
        \E ate \in Alcance(c, proc[p].estado[c]) :
            /\ DoPeriodo(p, c, ate) # {}
            /\ IF proc[p].dry
               THEN Segue(p, [proc[p] EXCEPT !.fila = Tail(proc[p].fila)])
               ELSE Segue(p, [proc[p] EXCEPT !.pc = "excel", !.maior = ate,
                              !.notas = {n \in DoPeriodo(p, c, ate) : Feed[c][n].xml}])
    /\ UNCHANGED <<publicados, disco, overlapped, estreitos>>

\* No document of the period, nothing saved.
ZeroNotasSemSalvar(p) ==
    /\ proc[p].pc = "clientes" /\ proc[p].fila # << >>
    /\ \E ate \in Alcance(Head(proc[p].fila), proc[p].estado[Head(proc[p].fila)]) :
            DoPeriodo(p, Head(proc[p].fila), ate) = {}
    /\ Segue(p, [proc[p] EXCEPT !.fila = Tail(proc[p].fila)])
    /\ UNCHANGED <<publicados, disco, overlapped, estreitos>>

\* No document of the period: the NSU moves over the others all the same.
ZeroNotas(p) ==
    /\ proc[p].pc = "clientes" /\ proc[p].fila # << >>
    /\ LET c == Head(proc[p].fila) IN
        \E ate \in Alcance(c, proc[p].estado[c]) :
            /\ DoPeriodo(p, c, ate) = {}
            /\ IF ~proc[p].dry /\ ate > proc[p].estado[c]
               THEN Segue(p, [proc[p] EXCEPT !.pc = "abrir", !.fila = Tail(proc[p].fila),
                              !.estado = Atualizado(proc[p].estado, c, ate)])
               ELSE Segue(p, [proc[p] EXCEPT !.fila = Tail(proc[p].fila)])
    /\ UNCHANGED <<publicados, disco, overlapped, estreitos>>

\* salvar_cliente of the local backend: the workbook of this run's notes
\* replaces the one of the period, then the XMLs one by one.
GravarExcel(p) ==
    /\ proc[p].pc = "excel"
    /\ excel' = [excel EXCEPT ![Head(proc[p].fila)][proc[p].mes] = proc[p].notas]
    /\ Segue(p, [proc[p] EXCEPT !.pc = "abrir_xml"])
    /\ UNCHANGED <<publicados, ultimo_nsu, tmp, xmls, overlapped, estreitos>>

Primeira(notas) == CHOOSE n \in notas : \A k \in notas : n <= k

AbrirXml(p) ==
    /\ proc[p].pc = "abrir_xml" /\ proc[p].notas # {}
    /\ xmls' = [xmls EXCEPT ![Head(proc[p].fila)][Primeira(proc[p].notas)] = "aberto"]
    /\ Segue(p, [proc[p] EXCEPT !.pc = "xml"])
    /\ UNCHANGED <<publicados, ultimo_nsu, tmp, excel, overlapped, estreitos>>

GravarXml(p) ==
    /\ proc[p].pc = "xml"
    /\ LET n == Primeira(proc[p].notas)
       IN  /\ xmls' = [xmls EXCEPT ![Head(proc[p].fila)][n] = "inteiro"]
           /\ Segue(p, [proc[p] EXCEPT !.pc = "abrir_xml", !.notas = proc[p].notas \ {n}])
    /\ UNCHANGED <<publicados, ultimo_nsu, tmp, excel, overlapped, estreitos>>

\* After the last file: atualizar_nsu, and salvar_estado begins.
GuardarNsu(p) ==
    /\ proc[p].pc = "abrir_xml" /\ proc[p].notas = {}
    /\ Segue(p, [proc[p] EXCEPT !.pc = "abrir", !.fila = Tail(proc[p].fila), !.maior = 0,
                 !.estado = Atualizado(proc[p].estado, Head(proc[p].fila), proc[p].maior)])
    /\ UNCHANGED <<publicados, disco, overlapped, estreitos>>

\* An error of one file that is logged and passed over.
ClienteFalhaSegue(p) ==
    /\ "disco" \in Faults /\ proc[p].notas # {}
    /\ Segue(p, [proc[p] EXCEPT !.pc = "abrir_xml", !.notas = proc[p].notas \ {Primeira(proc[p].notas)}])
    /\ UNCHANGED <<publicados, disco, overlapped, estreitos>>

\* except Exception: the client is reported as ERRO and the next one begins.
ClienteFalha(p) ==
    /\ \/ "erro" \in Faults /\ proc[p].pc = "clientes" /\ proc[p].fila # << >>
       \/ "disco" \in Faults /\ (proc[p].pc = "excel" \/ proc[p].notas # {})
    /\ Segue(p, [proc[p] EXCEPT !.pc = "clientes", !.fila = Tail(proc[p].fila), !.notas = {}, !.maior = 0])
    /\ UNCHANGED <<publicados, disco, overlapped, estreitos>>

\* The end of the loop; the consolidated workbook and the summary are left out.
Termina(p) ==
    /\ proc[p].pc = "clientes" /\ proc[p].fila = << >>
    /\ proc' = [proc EXCEPT ![p] = Parado]
    /\ UNCHANGED <<publicados, disco, overlapped, estreitos>>

Morre(p) ==
    /\ "morte" \in Faults
    /\ proc[p].pc # "parado"
    /\ proc' = [proc EXCEPT ![p] = Parado]
    /\ UNCHANGED <<publicados, disco, overlapped, estreitos>>

-----------------------------------------------------------------------------
\* What a process does when nothing fails.
Avanca(p) ==
    \/ Carregar(p) \/ Salvar(p) \/ BuscarNotas(p) \/ ZeroNotas(p)
    \/ GravarExcel(p) \/ AbrirXml(p) \/ GravarXml(p) \/ GuardarNsu(p) \/ Termina(p)

Next ==
    \/ \E c \in Cnpjs : Publish(c)
    \/ \E p \in Processos :
        \/ Inicia(p) \/ \E c \in Cnpjs : Resetar(p, c)
        \/ Avanca(p) \/ SalvarFalha(p) \/ ClienteFalha(p) \/ Morre(p)

Spec == Init /\ [][Next]_vars

-----------------------------------------------------------------------------
(* Properties.  For liveness, a process that nobody kills goes on (Avanca), *)
(* and the crontab starts every lot of every period again and again        *)
(* (Agendada), whatever else has been started by hand: see Collectors.     *)

\* The NSUs of c that somebody takes for done: the file, and the dict that
\* a process will save.
Dados(c) == {Carregado[c]} \cup {proc[p].estado[c] : p \in Processos}

\* A note behind a saved NSU, or one about to be saved, has its XML in the
\* output directory, for a client whose runs all filter for the note's month:
\* the NSU is moved only after the last file, and neither a death, a disk
\* that fails, a reset, nor a run that overlaps takes it further.  Where runs
\* overlap, a late one may be rewriting the file of a note that another has
\* saved, and a death leaves it opened (batch_processor.py:385-398).
SavedNsuBehindFiles ==
    \A c \in Cnpjs : \A v \in Dados(c) : \A n \in 1..v :
        (Feed[c][n].mes # OutroTipo /\ Feed[c][n].xml /\ estreitos \subseteq {Feed[c][n].mes})
            => \/ xmls[c][n] = "inteiro"
               \/ overlapped /\ xmls[c][n] = "aberto"

\* The process whose reset explains that the NSU of c goes back.
Resetando(c) ==
    \E p \in Processos :
        proc[p].op = "reset" /\ Head(proc[p].fila) = c /\ proc[p].pc = "trocar"

\* While no two processes overlap, what the next one would load never goes
\* back but by a reset, whatever dies and whatever cannot be written: that is
\* what the ".tmp" and os.replace are for (nsu_tracker.py:107-130).
SerialNsuNeverRegresses ==
    [][\A c \in Cnpjs : Carregado'[c] < Carregado[c] => overlapped' \/ Resetando(c)]_vars

\* "Regra fundamental: o NSU nunca regride" (nsu_tracker.py:15).  Two
\* processes break it, and the crontab of TROUBLESHOOTING.md:471-480 starts
\* lots that may overlap: each saves the whole dict it loaded when it
\* started, through the same ".tmp".
NsuNeverRegresses ==
    [][\A c \in Cnpjs : Carregado'[c] >= Carregado[c] \/ Resetando(c)]_vars

\* "Geracao do relatorio Excel (.xlsx) com as NFS-e mensais de um cliente"
\* (excel_builder.py:2): once no run is under way, the workbook of a period
\* lists every note whose XML lies beside it.  It is written anew with the
\* notes of the last run only.
ExcelHoldsTheMonth ==
    (\A p \in Processos : proc[p].pc = "parado") =>
        \A c \in Cnpjs, m \in Meses : \A n \in DOMAIN xmls[c] :
            xmls[c][n] = "inteiro" /\ Feed[c][n].mes = m => n \in excel[c][m]

\* Every note of the month that every run filters for gets its file, behind
\* any number of documents of other months or types, with a limit on the
\* documents of one run, and in whichever lot its client is
\* (batch_processor.py:344-346 and 516-525).
NotesGetFiles ==
    \A c \in Cnpjs : \A n \in 1..Len(Feed[c]) :
        [](estreitos \subseteq {Feed[c][n].mes} /\ Feed[c][n].mes # OutroTipo /\ Feed[c][n].xml)
            => (publicados[c] >= n ~> xmls[c][n] = "inteiro")
=============================================================================
