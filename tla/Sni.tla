-------------------------------- MODULE Sni --------------------------------
(***************************************************************************)
(* The parser for the server name of a TLS ClientHello.                    *)
(*                                                                         *)
(* The input is a sequence of bytes; offsets count from 0 as in the code.  *)
(***************************************************************************)
EXTENDS Naturals, Sequences

CONSTANT FixedLen   \* cells from the handshake type to the session id (38)

ASSUME FixedLenAssumption == FixedLen \in Nat \ {0}

NoName == <<256>>      \* no server name: 256 is not a byte
TlsHeaderLen == 5
HandshakeType == 22
ClientHello == 1

At(d, p) == d[p + 1]
U16(d, p) == 256 * At(d, p) + At(d, p + 1)

-----------------------------------------------------------------------------
\* Fault: the list is left one name too early.
ParseServerNameShort(x) ==
    LET Name[p \in Nat] ==
            IF p + 3 + U16(x, p + 1) >= Len(x) THEN NoName
            ELSE IF At(x, p) = 0 THEN SubSeq(x, p + 4, p + 3 + U16(x, p + 1))
            ELSE Name[p + 3 + U16(x, p + 1)]
    IN  IF Len(x) > 5 THEN Name[2] ELSE NoName

\* The first host_name of a server name list; its length is skipped.
ParseServerName(x) ==
    LET Name[p \in Nat] ==
            IF p + 3 >= Len(x) \/ p + 3 + U16(x, p + 1) > Len(x) THEN NoName
            ELSE IF At(x, p) = 0 THEN SubSeq(x, p + 4, p + 3 + U16(x, p + 1))
            ELSE Name[p + 3 + U16(x, p + 1)]
    IN  Name[2]

\* The first extension of type 0 decides.
ParseExtensions(x) ==
    LET Name[p \in Nat] ==
            IF p + 4 > Len(x) THEN NoName
            ELSE IF U16(x, p) # 0 THEN Name[p + 4 + U16(x, p + 2)]
            ELSE IF p + 4 + U16(x, p + 2) > Len(x) THEN NoName
            ELSE ParseServerName(SubSeq(x, p + 5, p + 4 + U16(x, p + 2)))
    IN  Name[0]

\* The fields that precede the extensions, each found from the one before.
SessionId == TlsHeaderLen + FixedLen
CipherSuites(d) == SessionId + 1 + At(d, SessionId)
Compression(d) == CipherSuites(d) + 2 + U16(d, CipherSuites(d))
Extensions(d) == Compression(d) + 1 + At(d, Compression(d))

\* A TLS record that has arrived as a whole.
EntireRecord(d) ==
    /\ Len(d) >= TlsHeaderLen
    /\ At(d, 0) = HandshakeType /\ At(d, 1) >= 3
    /\ Len(d) >= U16(d, 3) + TlsHeaderLen

\* parse_tls_header: the name, or NoName for each of its error codes, which
\* the callers do not tell apart.
ParseSni(d) ==
    LET end == U16(d, 3) + TlsHeaderLen
        hello == /\ end > TlsHeaderLen /\ At(d, TlsHeaderLen) = ClientHello
                 /\ SessionId + 1 <= end
                 /\ CipherSuites(d) + 2 <= end
                 /\ Compression(d) + 1 <= end
                 /\ Extensions(d) + 2 <= end
                 /\ Extensions(d) + 2 + U16(d, Extensions(d)) <= end
    IN  IF EntireRecord(d) /\ hello
        THEN ParseExtensions(SubSeq(d, Extensions(d) + 3,
                                    Extensions(d) + 2 + U16(d, Extensions(d))))
        ELSE NoName
=============================================================================
