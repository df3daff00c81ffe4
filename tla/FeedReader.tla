----------------------------- MODULE FeedReader -----------------------------
(***************************************************************************)
(* What the collection of a tenant promises to everybody who reads its     *)
(* tables: the position in the feed of a company (companies.last_nsu) only *)
(* moves forward, over notes that are all held, and a note is held by one  *)
(* company, which received it and had not passed it yet, for good.  Runs,  *)
(* pages, retries and crashes are not seen.                                *)
(***************************************************************************)
EXTENDS Naturals, Sequences

CONSTANTS
    Companies, Docs,
    Feed,           \* the documents each company receives, in NSU order
    Wanted,         \* the documents that are notes
    Nobody

VARIABLES
    published,      \* how much of its feed the portal has published
    position,       \* how far each feed has been read
    holder          \* the company that holds each note, or Nobody

Init ==
    /\ published = [c \in Companies |-> 0]
    /\ position = [c \in Companies |-> 0]
    /\ holder = [d \in Docs |-> Nobody]

Publish(c) ==
    /\ published[c] < Len(Feed[c])
    /\ published' = [published EXCEPT ![c] = @ + 1]
    /\ UNCHANGED <<position, holder>>

\* Whoever receives the note first keeps it.
Collect(c, n) ==
    /\ n \in position[c] + 1 .. published[c]
    /\ Feed[c][n] \in Wanted /\ holder[Feed[c][n]] = Nobody
    /\ holder' = [holder EXCEPT ![Feed[c][n]] = c]
    /\ UNCHANGED <<published, position>>

MoveTo(c, n) ==
    /\ n \in position[c] + 1 .. published[c]
    /\ \A k \in 1..n : Feed[c][k] \in Wanted => holder[Feed[c][k]] # Nobody
    /\ position' = [position EXCEPT ![c] = n]
    /\ UNCHANGED <<published, holder>>

Next == \E c \in Companies :
            Publish(c) \/ \E n \in 1..Len(Feed[c]) : Collect(c, n) \/ MoveTo(c, n)

Spec == Init /\ [][Next]_<<published, position, holder>>
=============================================================================
