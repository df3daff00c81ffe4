----------------------------- MODULE Collectors -----------------------------
(***************************************************************************)
(* The two collectors of the repository: the one of the service            *)
(* (Collection) and the command line it grew from (LegacyBatch).  An       *)
(* installation has one of them, and so has a behaviour; the other stays   *)
(* as it was installed.                                                    *)
(***************************************************************************)
EXTENDS Collection

CONSTANTS
    Clientes, BatchFeed, BatchFaults, Meses, Processos, MaxLotes, MaxDocumentos,
    Ausente, Vazio, Rasgado

VARIABLES
    collector,
    publicados, ultimo_nsu, tmp, xmls, excel, proc, overlapped, estreitos

batchVars == <<publicados, ultimo_nsu, tmp, xmls, excel, proc, overlapped, estreitos>>
allVars == <<vars, collector, batchVars>>

Batch == INSTANCE LegacyBatch WITH Feed <- BatchFeed, Faults <- BatchFaults

\* A list of clients, what the portal has for each, periods that are months,
\* and three states of a file that are no dict of NSUs.
ASSUME BatchAssumption ==
    /\ Clientes \in Seq(Batch!Cnpjs)
    /\ BatchFeed \in [Batch!Cnpjs -> Seq(Batch!Documentos)]
    /\ Meses \subseteq Nat \ {Batch!OutroTipo}
    /\ MaxLotes \in Nat /\ MaxDocumentos \in Nat
    /\ \A sentinela \in {Ausente, Vazio, Rasgado} : sentinela \notin Batch!Estados
    /\ Ausente # Vazio /\ Vazio # Rasgado /\ Rasgado # Ausente

ServiceOnly == collector = "service" /\ UNCHANGED <<collector, batchVars>>
BatchOnly == collector = "batch" /\ UNCHANGED <<collector, vars>>

CollectorsInit == Init /\ Batch!Init /\ collector \in {"service", "batch"}

CollectorsNext ==
    \/ Next /\ ServiceOnly
    \/ Batch!Next /\ BatchOnly

CollectorsSpec == CollectorsInit /\ [][CollectorsNext]_allVars

\* The fairness of both (see Collection and LegacyBatch).
CollectorsFairSpec ==
    /\ CollectorsSpec
    /\ \A r \in Runs : WF_allVars(Collect(r) /\ ServiceOnly)
    /\ \A c \in Companies : SF_allVars((\E r \in Runs : Start(r, c)) /\ ServiceOnly)
    /\ \A p \in Processos : WF_allVars(Batch!Avanca(p) /\ BatchOnly)
    /\ \A p \in Processos, mes \in Meses, lote \in 1..MaxLotes :
            SF_allVars(Batch!Agendada(p, mes, lote) /\ BatchOnly)

-----------------------------------------------------------------------------
(* What is checked of the batch: see its module.                            *)

\* The types of both.
CollectorsTypeOK == TypeOK /\ Batch!TypeOK

\* A note behind the saved NSU has its file (LegacyBatch).
BatchSavedNsuBehindFiles == Batch!SavedNsuBehindFiles

\* Without overlaps, the saved NSU goes back by a reset only (LegacyBatch).
BatchSerialNsuNeverRegresses == Batch!SerialNsuNeverRegresses

\* Every note of the month gets its file, in whichever lot (LegacyBatch).
BatchNotesGetFiles == Batch!NotesGetFiles
=============================================================================
