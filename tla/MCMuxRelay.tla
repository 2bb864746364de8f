----------------------------- MODULE MCMuxRelay -----------------------------
(***************************************************************************)
(* The instance of MuxRelay for TLC.                                       *)
(***************************************************************************)
EXTENDS MuxRelay

\* Two chunks fill the channel and the blocked Offer of an exit that connects.
MCChunks == [e \in Ends |-> IF e = "entry" THEN 2 ELSE 1]
=============================================================================
