---------------------------- MODULE MCCollectors ----------------------------
(* Instances of Collectors for TLC.                                         *)
EXTENDS Collectors, MCCollection

CONSTANTS gama, p1, p2

\* March is asked for; February, the events and what cannot be read are what
\* a feed has besides.
Marco == 3
Fevereiro == 2

Nota(m) == [mes |-> m, xml |-> TRUE]
Evento == [mes |-> 0, xml |-> TRUE]
Ilegivel == [mes |-> Marco, xml |-> FALSE]

MCMeses == {Marco}

MCDois == <<acme, beta>>
MCTres == <<acme, beta, gama>>

Lista == {Clientes[i] : i \in DOMAIN Clientes}

\* A note, and for the next client nothing but an event to pass.
MCFeedNota == [c \in Lista |-> <<IF c = acme THEN Nota(Marco) ELSE Evento>>]

\* Notes behind a document of another month and one without XML, and alone.
MCFeedMisto == [c \in Lista |->
    CASE c = acme -> <<Nota(Fevereiro), Nota(Marco)>>
      [] c = beta -> <<Ilegivel, Nota(Marco)>>
      [] OTHER -> <<Nota(Marco)>>]

CollectorsSymmetry == MCSymmetry \cup Permutations(Processos)
=============================================================================
