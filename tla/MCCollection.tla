---------------------------- MODULE MCCollection ----------------------------
(* Instances of Collection for TLC.  acme and beta are companies of one     *)
(* tenant: acme issues sale to beta, so both receive it.                    *)
EXTENDS Collection, TLC

CONSTANTS acme, beta, u1, u2, sale, rent, blank, cancel

MCKind == [d \in Docs |-> CASE d = blank -> "keyless"
                            [] d = cancel -> "event"
                            [] OTHER -> "nfse"]

MCEmitter == [d \in Docs |-> CASE d = sale -> acme
                               [] d = rent /\ beta \in Companies -> beta
                               [] OTHER -> None]

\* One company: a note, a document without a key, a note received.
MCFeedOne == [c \in Companies |-> <<sale, blank, rent>>]

\* Two companies that share a document, and an event at the end of a feed.
MCFeedShared == [c \in Companies |-> IF c = acme THEN <<sale, cancel>> ELSE <<sale, rent>>]

\* A shared note, a document without a key and an event.
MCFeedKeyless == [c \in Companies |->
    IF c = acme THEN <<sale, blank>> ELSE <<cancel, sale>>]

MCSymmetry == Permutations(Runs)
=============================================================================
