--------------------------- MODULE MCEntryServer ---------------------------
(***************************************************************************)
(* The instance of EntryServer for TLC.                                    *)
(***************************************************************************)
EXTENDS EntryServer

CONSTANTS a, b

\* One client of any kind, and one that takes over the buffer it gives back.
MCKinds == [c \in Conns |-> IF c = a THEN DOMAIN Script ELSE {"other"}]
=============================================================================
