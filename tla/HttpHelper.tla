----------------------------- MODULE HttpHelper -----------------------------
(***************************************************************************)
(* The helper by which the entry server and the WebSocket handshake look   *)
(* into the head of an HTTP message, a sequence of cells: a cell is a byte *)
(* or a fixed word, such as the name of a header.                          *)
(***************************************************************************)
EXTENDS Naturals, Sequences
INSTANCE FiniteSetsExt

NotFound == <<256>>     \* no value of a header: 256 is not a byte
Space == 32
Crlf == 13

\* Where a cell first occurs from position p on; 0 if nowhere.
Find(s, v, p) ==
    LET at == {i \in p .. Len(s) : s[i] = v}
    IN  IF at = {} THEN 0 ELSE Min(at)

\* Without the spaces before and after.
Strip(s) ==
    LET at == {i \in 1 .. Len(s) : s[i] # Space}
    IN  IF at = {} THEN <<>> ELSE SubSeq(s, Min(at), Max(at))

\* http_get_header: the value up to the end of its line, which must be there.
HttpGetHeader(s, header) ==
    LET p == Find(s, header, 1)
        e == IF p = 0 THEN 0 ELSE Find(s, Crlf, p)
    IN  IF e = 0 THEN NotFound ELSE Strip(SubSeq(s, p + 1, e - 1))
=============================================================================
