---------------------------- MODULE MCWebSocket ----------------------------
(***************************************************************************)
(* The instance of WebSocket for TLC.                                      *)
(***************************************************************************)
EXTENDS WebSocket

\* Messages on both sides of each limit of the length; the longer ones use
\* the bytes of the key a second time.
MCMessages == [client |-> <<<<1>>, <<1, 0, 1, 1, 0>>>>, server |-> <<<<0, 1, 1>>>>]
MCMaskKeys == {<<0, 0, 0, 0>>, <<1, 0, 1, 1>>}
=============================================================================
