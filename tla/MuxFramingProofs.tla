--------------------------- MODULE MuxFramingProofs ---------------------------
(***************************************************************************)
(* Proofs about MuxFraming, for any sizes of the buffer and of the bodies  *)
(* and any number of events, with a cipher: without one the frames are not *)
(* whole.                                                                  *)
(***************************************************************************)
EXTENDS MuxFraming, SequenceTheorems, TLAPS

Nonces == [base : {"default", "iv"}, n : Nat]

\* What Encrypt produces: the length says how many cells there are, and the
\* nonce which frame of its direction it is.
FrameOf ==
    {f \in [type : {"req", "res", "event"}, v : Nat, nonce : Nonces, plain : BOOLEAN,
            cells : Nat, len : Nat] :
        /\ f.cells = HeadCells + BodyCells(f.len, f.plain)
        /\ f.type = "event" => f.nonce.base = "iv" /\ f.v = f.nonce.n + 1
        /\ f.type # "event" => f.nonce = Default}
CellOf == [f : FrameOf, i : Nat]

Phases == {"start", "authwait", "wait", "answer", "up", "closed", "refused", "error"}

TypeOK ==
    /\ phase \in [Ends -> Phases]
    /\ enc \in [Ends -> Nonces]
    /\ dec \in [Ends -> Nonces]
    /\ out \in [Ends -> Seq(CellOf)]
    /\ buf \in [Ends -> Seq(CellOf)]
    /\ sent \in [Ends -> Nat]
    /\ got \in [Ends -> Seq(Nat)]

(***************************************************************************)
(* One direction: what the reader has in its buffer and what follows.      *)
(***************************************************************************)
Stream(e) == buf[Peer(e)] \o out[e]

\* Every cell lies in a complete frame.
Framed(s) ==
    \A k \in 1 .. Len(s) :
        LET f == s[k].f IN
        /\ 1 <= s[k].i /\ s[k].i <= k /\ s[k].i <= f.cells /\ k - s[k].i + f.cells <= Len(s)
        /\ \A j \in 1 .. f.cells : s[k - s[k].i + j] = [f |-> f, i |-> j]

\* The events are those after g up to h, in order.
Numbered(s, g, h) ==
    /\ \A k \in Heads(s) : g < s[k].f.v /\ s[k].f.v <= h
    /\ \A j, k \in Heads(s) : j < k => s[j].f.v < s[k].f.v
    /\ \A v \in (g + 1) .. h : \E k \in Heads(s) : s[k].f.v = v

\* The request or the answer, if it is there, comes first.
AuthFirst(s, type) ==
    \A k \in 1 .. Len(s) : s[k].f.type # "event" => s[k].f.type = type /\ s[k].i = k

AuthType(e) == IF e = "client" THEN "req" ELSE "res"

Direction(e) ==
    /\ Framed(Stream(e))
    /\ Numbered(Stream(e), Len(got[Peer(e)]), sent[e])
    /\ AuthFirst(Stream(e), AuthType(e))
    /\ Len(got[Peer(e)]) <= sent[e]
    /\ \A k \in 1 .. Len(got[Peer(e)]) : got[Peer(e)][k] = k

(***************************************************************************)
(* Where the authentication is.                                            *)
(***************************************************************************)

\* The end e that reads the other one's first frame.
Waits(e) == phase[e] \in {"start", "authwait", "wait"}

\* It opens that frame with the default nonce; it is no event.
Waiting(e) ==
    Waits(e) =>
        /\ dec[e] = Default /\ got[e] = <<>> /\ sent[e] = 0
        /\ Stream(Peer(e)) # <<>> => Stream(Peer(e))[1].f.type # "event"

\* An end that is authenticated reads and writes events, under the new nonce.
Authenticated(e) ==
    /\ phase[e] \in {"answer", "up"} =>
           \A k \in 1 .. Len(Stream(Peer(e))) : Stream(Peer(e))[k].f.type = "event"
    /\ phase[e] = "up" => /\ dec[e] = [base |-> "iv", n |-> Len(got[e])]
                          /\ enc[e] = [base |-> "iv", n |-> sent[e]]

\* The client speaks first.
NotRequested ==
    phase["client"] = "start" =>
        /\ Stream("client") = <<>> /\ enc["client"] = Default
        /\ phase["server"] \notin {"answer", "up"}

\* Before the server has read the request it has written nothing, and the
\* client is not authenticated; before the client has read the answer, that
\* is the first frame of its stream.
NotAnswered ==
    /\ phase["server"] = "wait" =>
           Stream("server") = <<>> /\ enc["server"] = Default /\ phase["client"] # "up"
    /\ phase["server"] = "answer" => sent["server"] = 0 /\ got["server"] = <<>>
    /\ phase["client"] = "authwait" /\ phase["server"] \in {"answer", "up"} =>
           Stream("server") # <<>>
    /\ phase["client"] \notin {"answer", "wait", "refused"}
    /\ phase["server"] \notin {"start", "authwait"}

Inv ==
    /\ TypeOK
    /\ \A e \in Ends : Direction(e) /\ Waiting(e) /\ Authenticated(e)
    /\ NotRequested /\ NotAnswered /\ NoDecryptError

-----------------------------------------------------------------------------
(***************************************************************************)
(* Frames in a sequence of cells.                                          *)
(***************************************************************************)

\* A frame has a header, and its cells in order.
LEMMA FrameCells ==
    ASSUME NEW f \in FrameOf
    PROVE  /\ f.cells \in Nat /\ f.cells >= HeadCells /\ HeadCells \in Nat /\ HeadCells >= 1
           /\ Cells(f) \in Seq(CellOf) /\ Len(Cells(f)) = f.cells
           /\ \A j \in 1 .. f.cells : Cells(f)[j] = [f |-> f, i |-> j]
<1>1. f.cells \in Nat /\ f.len \in Nat /\ f.cells = HeadCells + BodyCells(f.len, f.plain)
  BY DEF FrameOf
<1>2. HeadCells \in Nat /\ HeadCells >= 1 /\ Tag \in Nat
  BY DEF HeadCells, Tag
<1>3. f.cells >= HeadCells
  BY <1>1, <1>2 DEF BodyCells
<1>4. \A j \in 1 .. f.cells : [f |-> f, i |-> j] \in CellOf
  BY <1>1 DEF CellOf
<1>5. Cells(f) \in Seq(CellOf) /\ Len(Cells(f)) = f.cells
  BY <1>1, <1>4 DEF Cells
<1>6. \A j \in 1 .. f.cells : Cells(f)[j] = [f |-> f, i |-> j]
  BY DEF Cells
<1> QED BY <1>1, <1>2, <1>3, <1>5, <1>6

\* The cells of a stream, with their fields.
LEMMA CellsTyped ==
    ASSUME NEW s \in Seq(CellOf)
    PROVE  /\ Len(s) \in Nat
           /\ \A k \in 1 .. Len(s) :
                  /\ s[k] \in CellOf /\ s[k].f \in FrameOf /\ s[k].i \in Nat /\ s[k].f.cells \in Nat
                  /\ s[k].f.v \in Nat /\ s[k].f.cells >= 1
                  /\ s[k] = [f |-> s[k].f, i |-> s[k].i]
<1>1. Len(s) \in Nat OBVIOUS
<1> SUFFICES ASSUME NEW k \in 1 .. Len(s)
             PROVE  /\ s[k] \in CellOf /\ s[k].f \in FrameOf /\ s[k].i \in Nat
                    /\ s[k].f.cells \in Nat /\ s[k].f.v \in Nat /\ s[k].f.cells >= 1
                    /\ s[k] = [f |-> s[k].f, i |-> s[k].i]
  BY <1>1
<1>2. s[k] \in CellOf BY <1>1
<1>3. s[k].f \in FrameOf /\ s[k].i \in Nat /\ s[k] = [f |-> s[k].f, i |-> s[k].i]
  BY <1>2 DEF CellOf
<1>4. s[k].f.v \in Nat BY <1>3 DEF FrameOf
<1>5. s[k].f.cells \in Nat /\ s[k].f.cells >= 1 BY <1>3, FrameCells
<1> QED BY <1>2, <1>3, <1>4, <1>5

\* The frame that a cell lies in.
LEMMA FrameOfCell ==
    ASSUME NEW s, Framed(s), NEW k \in 1 .. Len(s)
    PROVE  /\ 1 <= s[k].i /\ s[k].i <= k /\ s[k].i <= s[k].f.cells
           /\ k - s[k].i + s[k].f.cells <= Len(s)
           /\ \A j \in 1 .. s[k].f.cells : s[k - s[k].i + j] = [f |-> s[k].f, i |-> j]
BY DEF Framed

\* The first cell of a stream begins its first frame, which is all there.
LEMMA FirstFrame ==
    ASSUME NEW s \in Seq(CellOf), s # <<>>, Framed(s)
    PROVE  /\ 1 \in 1 .. Len(s) /\ s[1].i = 1 /\ s[1].f \in FrameOf
           /\ s[1].f.cells \in Nat /\ s[1].f.cells >= 1 /\ s[1].f.cells <= Len(s)
           /\ \A j \in 1 .. s[1].f.cells : s[j] = [f |-> s[1].f, i |-> j]
<1>1. Len(s) \in Nat /\ 1 \in 1 .. Len(s) BY EmptySeq
<1>2. s[1].f \in FrameOf /\ s[1].i \in Nat /\ s[1].f.cells \in Nat /\ s[1].f.cells >= 1
  BY <1>1, CellsTyped
<1>3. s[1].i = 1 /\ 1 - s[1].i + s[1].f.cells <= Len(s)
  BY <1>1, <1>2 DEF Framed
<1>4. \A j \in 1 .. s[1].f.cells : s[1 - s[1].i + j] = [f |-> s[1].f, i |-> j]
  BY <1>1 DEF Framed
<1>5. \A j \in 1 .. s[1].f.cells : 1 - s[1].i + j = j BY <1>3
<1> QED BY <1>1, <1>2, <1>3, <1>4, <1>5

\* What follows the first frame.
LEMMA RestOfStream ==
    ASSUME NEW s \in Seq(CellOf), NEW n \in Nat, n <= Len(s)
    PROVE  LET t == SubSeq(s, n + 1, Len(s))
           IN  /\ t \in Seq(CellOf) /\ Len(t) = Len(s) - n
               /\ \A k \in 1 .. Len(t) : n + k \in 1 .. Len(s) /\ t[k] = s[n + k]
<1> DEFINE t == SubSeq(s, n + 1, Len(s))
<1>1. Len(s) \in Nat /\ \A i \in (n + 1) .. Len(s) : s[i] \in CellOf OBVIOUS
<1>2. /\ t \in Seq(CellOf) /\ Len(t) = IF n + 1 <= Len(s) THEN Len(s) - (n + 1) + 1 ELSE 0
      /\ \A i \in 1 .. Len(s) - (n + 1) + 1 : t[i] = s[n + 1 + i - 1]
  BY <1>1, SubSeqProperties
<1>3. Len(t) = Len(s) - n BY <1>1, <1>2
<1>4. ASSUME NEW k \in 1 .. Len(t) PROVE n + k \in 1 .. Len(s) /\ t[k] = s[n + k]
  <2>1. k \in 1 .. Len(s) - (n + 1) + 1 /\ n + 1 + k - 1 = n + k BY <1>1, <1>3
  <2>2. n + k \in 1 .. Len(s) BY <1>1, <1>3
  <2> QED BY <1>2, <2>1, <2>2
<1> QED BY <1>2, <1>3, <1>4

\* Where the cells of a frame lie in a stream whose first n cells are taken: a
\* frame that reaches back beyond its k-th cell begins among those n.
LEMMA FrameReachesBack ==
    ASSUME NEW n \in Nat, NEW k \in Nat, NEW i \in Nat, i <= n + k, i > k
    PROVE  (n + k) - i + 1 \in 1 .. n
OBVIOUS

\* A frame that does not reach back lies among what is left.
LEMMA FrameLiesBehind ==
    ASSUME NEW n \in Nat, NEW k \in Nat, NEW i \in Nat, NEW x \in Nat, NEW l \in Nat,
           (n + k) - i + x <= l, i <= k
    PROVE  /\ k - i + x <= l - n
           /\ \A j \in 1 .. x : k - i + j \in 1 .. (l - n) /\ n + (k - i + j) = (n + k) - i + j
<1>0. k - i + x <= l - n OBVIOUS
<1> SUFFICES ASSUME NEW j \in 1 .. x
             PROVE  k - i + j \in 1 .. (l - n) /\ n + (k - i + j) = (n + k) - i + j
  BY <1>0
<1>1. j \in Nat /\ 1 <= j /\ j <= x OBVIOUS
<1>2. k - i + j <= l - n /\ 1 <= k - i + j /\ k - i + j \in Int BY <1>1
<1>3. n + (k - i + j) = (n + k) - i + j BY <1>1
<1> QED BY <1>2, <1>3

\* A frame is taken: the rest is cut into frames as well.
LEMMA FramedRest ==
    ASSUME NEW s \in Seq(CellOf), s # <<>>, Framed(s)
    PROVE  Framed(SubSeq(s, s[1].f.cells + 1, Len(s)))
<1> DEFINE f == s[1].f
           n == f.cells
           t == SubSeq(s, n + 1, Len(s))
<1>1. /\ 1 \in 1 .. Len(s) /\ n \in Nat /\ n >= 1 /\ n <= Len(s) /\ Len(s) \in Nat
      /\ \A j \in 1 .. n : s[j] = [f |-> f, i |-> j]
  BY FirstFrame
<1>2. /\ t \in Seq(CellOf) /\ Len(t) = Len(s) - n
      /\ \A k \in 1 .. Len(t) : n + k \in 1 .. Len(s) /\ t[k] = s[n + k]
  BY <1>1, RestOfStream
<1> HIDE DEF t, n, f
<1> SUFFICES Framed(t) BY DEF t, n, f
<1> SUFFICES ASSUME NEW k \in 1 .. Len(t)
             PROVE  /\ 1 <= t[k].i /\ t[k].i <= k /\ t[k].i <= t[k].f.cells
                    /\ k - t[k].i + t[k].f.cells <= Len(t)
                    /\ \A j \in 1 .. t[k].f.cells :
                           t[k - t[k].i + j] = [f |-> t[k].f, i |-> j]
  BY DEF Framed
<1>3. PICK m \in 1 .. Len(s) : m = n + k /\ t[k] = s[m] BY <1>2
<1> DEFINE c == s[m]
<1>4. c.i \in Nat /\ c.f.cells \in Nat BY CellsTyped
<1>5. /\ 1 <= c.i /\ c.i <= m /\ c.i <= c.f.cells /\ m - c.i + c.f.cells <= Len(s)
      /\ \A j \in 1 .. c.f.cells : s[m - c.i + j] = [f |-> c.f, i |-> j]
  BY FrameOfCell
<1>9. t[k] = c BY <1>3
<1> HIDE DEF c
<1>10. /\ n \in Nat /\ Len(s) \in Nat /\ Len(t) = Len(s) - n /\ m = n + k
       /\ c.i \in Nat /\ c.f.cells \in Nat /\ 1 <= c.i /\ c.i <= c.f.cells
       /\ m - c.i + c.f.cells <= Len(s) /\ c.i <= m /\ k \in Nat
  BY <1>1, <1>2, <1>3, <1>4, <1>5
<1>6. c.i <= k
  <2> SUFFICES ASSUME c.i > k PROVE FALSE BY <1>4
  <2>1. m - c.i + 1 \in 1 .. n /\ 1 \in 1 .. c.f.cells
    <3>1. PICK x \in Nat : x = c.f.cells /\ 1 <= x BY <1>10
    <3>2. 1 \in 1 .. x BY <3>1
    <3> QED BY <1>10, <3>1, <3>2, FrameReachesBack
  <2>2. s[m - c.i + 1] = [f |-> c.f, i |-> 1] BY <1>5, <2>1
  <2>3. s[m - c.i + 1] = [f |-> f, i |-> m - c.i + 1] BY <1>1, <2>1
  <2>4. c.f = f /\ m - c.i + 1 = 1
    <3>1. s[m - c.i + 1].f = c.f /\ s[m - c.i + 1].i = 1 BY <2>2
    <3>2. s[m - c.i + 1].f = f /\ s[m - c.i + 1].i = m - c.i + 1 BY <2>3
    <3> QED BY <3>1, <3>2
  <2>5. c.f.cells = n BY <2>4 DEF n
  <2> QED BY <1>1, <1>3, <1>4, <1>5, <2>4, <2>5
<1>11. /\ k - c.i + c.f.cells <= Len(t)
       /\ \A j \in 1 .. c.f.cells :
              k - c.i + j \in 1 .. Len(t) /\ n + (k - c.i + j) = m - c.i + j
  <2>1. PICK i \in Nat, x \in Nat, l \in Nat : i = c.i /\ x = c.f.cells /\ l = Len(s)
    BY <1>10
  <2>2. (n + k) - i + x <= l /\ i <= k /\ n \in Nat /\ k \in Nat BY <1>10, <1>6, <2>1
  <2>3. /\ k - i + x <= l - n
        /\ \A j \in 1 .. x : k - i + j \in 1 .. (l - n) /\ n + (k - i + j) = (n + k) - i + j
    BY <2>2, FrameLiesBehind
  <2> QED BY <1>10, <2>1, <2>3
<1>7. ASSUME NEW j \in 1 .. c.f.cells PROVE t[k - c.i + j] = [f |-> c.f, i |-> j]
  <2>1. k - c.i + j \in 1 .. Len(t) /\ n + (k - c.i + j) = m - c.i + j
    BY <1>11
  <2>2. t[k - c.i + j] = s[n + (k - c.i + j)] BY <1>2, <2>1
  <2> QED BY <1>5, <2>1, <2>2
<1> QED BY <1>9, <1>5, <1>6, <1>7, <1>11

\* A frame is written behind a stream.
LEMMA LongerStream ==
    ASSUME NEW s \in Seq(CellOf), NEW f \in FrameOf
    PROVE  LET u == s \o Cells(f)
           IN  /\ u \in Seq(CellOf) /\ Len(u) = Len(s) + f.cells /\ u # <<>>
               /\ \A k \in 1 .. Len(s) : k \in 1 .. Len(u) /\ u[k] = s[k]
               /\ \A j \in 1 .. f.cells :
                      Len(s) + j \in 1 .. Len(u) /\ u[Len(s) + j] = [f |-> f, i |-> j]
               /\ \A k \in 1 .. Len(u) : k \in 1 .. Len(s) \/ k - Len(s) \in 1 .. f.cells
<1> DEFINE u == s \o Cells(f)
           l == Len(s)
<1>1. /\ f.cells \in Nat /\ f.cells >= 1 /\ Cells(f) \in Seq(CellOf) /\ Len(Cells(f)) = f.cells
      /\ \A j \in 1 .. f.cells : Cells(f)[j] = [f |-> f, i |-> j]
  BY FrameCells
<1>2. /\ u \in Seq(CellOf) /\ Len(u) = l + f.cells /\ l \in Nat
      /\ \A i \in 1 .. l + f.cells : u[i] = IF i <= l THEN s[i] ELSE Cells(f)[i - l]
  BY <1>1, ConcatProperties
<1> HIDE DEF u, l
<1>3. ASSUME NEW k \in 1 .. l PROVE k \in 1 .. Len(u) /\ u[k] = s[k]
  <2>1. k \in 1 .. l + f.cells /\ k <= l BY <1>1, <1>2
  <2> QED BY <1>2, <2>1
<1>4. ASSUME NEW j \in 1 .. f.cells PROVE l + j \in 1 .. Len(u) /\ u[l + j] = [f |-> f, i |-> j]
  <2>1. l + j \in 1 .. l + f.cells /\ ~(l + j <= l) /\ l + j - l = j BY <1>1, <1>2
  <2>2. u[l + j] = Cells(f)[l + j - l] BY <1>2, <2>1
  <2> QED BY <1>1, <1>2, <2>1, <2>2
<1>5. \A k \in 1 .. Len(u) : k \in 1 .. l \/ k - l \in 1 .. f.cells
  BY <1>1, <1>2
<1>6. u # <<>> BY <1>1, <1>2
<1>7. l = Len(s) BY DEF l
<1>8. u = s \o Cells(f) BY DEF u
<1> QED BY <1>2, <1>3, <1>4, <1>5, <1>6, <1>7, <1>8

\* The longer stream is cut into frames as well.
LEMMA FramedLonger ==
    ASSUME NEW s \in Seq(CellOf), Framed(s), NEW f \in FrameOf
    PROVE  Framed(s \o Cells(f))
<1> DEFINE u == s \o Cells(f)
           l == Len(s)
<1>1. /\ u \in Seq(CellOf) /\ Len(u) = l + f.cells
      /\ \A k \in 1 .. l : k \in 1 .. Len(u) /\ u[k] = s[k]
      /\ \A j \in 1 .. f.cells : l + j \in 1 .. Len(u) /\ u[l + j] = [f |-> f, i |-> j]
      /\ \A k \in 1 .. Len(u) : k \in 1 .. l \/ k - l \in 1 .. f.cells
  BY LongerStream
<1>2. l \in Nat /\ f.cells \in Nat BY FrameCells
<1>0. l = Len(s) OBVIOUS
<1> HIDE DEF u, l
<1> SUFFICES Framed(u) BY DEF u
<1> SUFFICES ASSUME NEW k \in 1 .. Len(u)
             PROVE  /\ 1 <= u[k].i /\ u[k].i <= k /\ u[k].i <= u[k].f.cells
                    /\ k - u[k].i + u[k].f.cells <= Len(u)
                    /\ \A j \in 1 .. u[k].f.cells :
                           u[k - u[k].i + j] = [f |-> u[k].f, i |-> j]
  BY DEF Framed
<1>3. CASE k \in 1 .. l
  <2> DEFINE c == s[k]
  <2>1. u[k] = c BY <1>1, <1>3
  <2>2. c.i \in Nat /\ c.f.cells \in Nat BY <1>0, <1>3, CellsTyped
  <2>3. /\ 1 <= c.i /\ c.i <= k /\ c.i <= c.f.cells /\ k - c.i + c.f.cells <= l
        /\ \A j \in 1 .. c.f.cells : s[k - c.i + j] = [f |-> c.f, i |-> j]
    BY <1>0, <1>3, FrameOfCell
  <2> HIDE DEF c
  <2>4. /\ 1 <= c.i /\ c.i <= k /\ c.i <= c.f.cells /\ k - c.i + c.f.cells <= l BY <2>3
  <2>5. ASSUME NEW j \in 1 .. c.f.cells PROVE u[k - c.i + j] = [f |-> c.f, i |-> j]
    <3>1. k - c.i + j \in 1 .. l BY <1>2, <1>3, <2>2, <2>4
    <3> QED BY <1>1, <2>3, <3>1
  <2>6. k - c.i + c.f.cells <= Len(u)
    <3>1. Len(u) = l + f.cells BY <1>1
    <3> QED BY <1>2, <1>3, <2>2, <2>4, <3>1
  <2> QED BY <2>1, <2>4, <2>5, <2>6
<1>4. CASE k - l \in 1 .. f.cells
  <2>1. PICK j0 \in 1 .. f.cells : k = l + j0 BY <1>2, <1>4
  <2>2. u[k] = [f |-> f, i |-> j0] BY <1>1, <2>1
  <2>3. u[k].f = f /\ u[k].i = j0 BY <2>2
  <2>4. k - u[k].i = l BY <1>2, <2>1, <2>3
  <2>5. \A j \in 1 .. f.cells : u[l + j] = [f |-> f, i |-> j] BY <1>1
  <2>6. Len(u) = l + f.cells BY <1>1
  <2>7. 1 <= j0 /\ j0 <= k /\ j0 <= f.cells BY <1>2, <2>1
  <2> QED BY <1>2, <2>3, <2>4, <2>5, <2>6, <2>7
<1> QED BY <1>1, <1>3, <1>4

\* The events that begin behind the first frame.
LEMMA RestHeads ==
    ASSUME NEW s \in Seq(CellOf), s # <<>>, Framed(s)
    PROVE  LET n == s[1].f.cells
               t == SubSeq(s, n + 1, Len(s))
           IN  /\ \A k \in Heads(t) : n + k \in Heads(s) /\ t[k] = s[n + k]
               /\ \A k \in Heads(s) : k # 1 => k - n \in Heads(t) /\ s[k] = t[k - n]
<1> DEFINE f == s[1].f
           n == f.cells
           t == SubSeq(s, n + 1, Len(s))
<1>1. /\ n \in Nat /\ n >= 1 /\ n <= Len(s) /\ Len(s) \in Nat
      /\ \A j \in 1 .. n : s[j] = [f |-> f, i |-> j]
  BY FirstFrame
<1>2. /\ t \in Seq(CellOf) /\ Len(t) = Len(s) - n
      /\ \A k \in 1 .. Len(t) : n + k \in 1 .. Len(s) /\ t[k] = s[n + k]
  BY <1>1, RestOfStream
<1> HIDE DEF t, n, f
<1>3. ASSUME NEW k \in Heads(t) PROVE n + k \in Heads(s) /\ t[k] = s[n + k]
  BY <1>2 DEF Heads
<1>4. ASSUME NEW k \in Heads(s), k # 1 PROVE k - n \in Heads(t) /\ s[k] = t[k - n]
  <2>1. k \in 1 .. Len(s) /\ s[k].i = 1 BY DEF Heads
  <2>2. k > n
    <3> SUFFICES ASSUME k \in 1 .. n PROVE FALSE BY <1>1, <2>1
    <3>1. s[k] = [f |-> f, i |-> k] BY <1>1
    <3> QED BY <1>4, <2>1, <3>1
  <2>3. k - n \in 1 .. Len(t) /\ n + (k - n) = k
    <3>1. Len(t) = Len(s) - n /\ n \in Nat /\ Len(s) \in Nat BY <1>1, <1>2
    <3> QED BY <2>1, <2>2, <3>1
  <2>4. t[k - n] = s[k] BY <1>2, <2>3
  <2> QED BY <2>3, <2>4 DEF Heads
<1> QED BY <1>3, <1>4 DEF t, n, f

\* The request or the answer is taken: the events stay.
LEMMA NumberedRest ==
    ASSUME NEW s \in Seq(CellOf), s # <<>>, Framed(s), NEW g \in Nat, NEW h \in Nat,
           Numbered(s, g, h), s[1].f.type # "event"
    PROVE  Numbered(SubSeq(s, s[1].f.cells + 1, Len(s)), g, h)
<1> DEFINE n == s[1].f.cells
           t == SubSeq(s, n + 1, Len(s))
<1>1. /\ \A k \in Heads(t) : n + k \in Heads(s) /\ t[k] = s[n + k]
      /\ \A k \in Heads(s) : k # 1 => k - n \in Heads(t) /\ s[k] = t[k - n]
  BY RestHeads
<1>2. n \in Nat /\ 1 \notin Heads(s) BY FirstFrame DEF Heads
<1>3. \A k \in Heads(t) : k \in Int BY DEF Heads
<1> HIDE DEF t, n
<1>4. \A k \in Heads(t) : g < t[k].f.v /\ t[k].f.v <= h
  BY <1>1 DEF Numbered
<1>5. ASSUME NEW j \in Heads(t), NEW k \in Heads(t), j < k PROVE t[j].f.v < t[k].f.v
  <2>1. n + j < n + k BY <1>2, <1>3, <1>5
  <2> QED BY <1>1, <2>1 DEF Numbered
<1>6. ASSUME NEW v \in (g + 1) .. h PROVE \E k \in Heads(t) : t[k].f.v = v
  <2>1. PICK k \in Heads(s) : s[k].f.v = v BY DEF Numbered
  <2> QED BY <1>1, <1>2, <2>1
<1>7. Numbered(t, g, h) BY <1>4, <1>5, <1>6 DEF Numbered
<1> QED BY <1>7 DEF t, n

\* An event is taken: it is the next one.
LEMMA NumberedNext ==
    ASSUME NEW s \in Seq(CellOf), s # <<>>, Framed(s), NEW g \in Nat, NEW h \in Nat,
           Numbered(s, g, h), s[1].f.type = "event"
    PROVE  /\ s[1].f.v = g + 1 /\ g + 1 <= h
           /\ Numbered(SubSeq(s, s[1].f.cells + 1, Len(s)), g + 1, h)
<1> DEFINE n == s[1].f.cells
           t == SubSeq(s, n + 1, Len(s))
<1>1. /\ \A k \in Heads(t) : n + k \in Heads(s) /\ t[k] = s[n + k]
      /\ \A k \in Heads(s) : k # 1 => k - n \in Heads(t) /\ s[k] = t[k - n]
  BY RestHeads
<1>2. /\ n \in Nat /\ n >= 1 /\ 1 \in Heads(s) /\ s[1].f.v \in Nat
      /\ \A k \in Heads(s) : s[k].f.v \in Nat /\ k \in Int /\ k >= 1
  <2>1. n \in Nat /\ n >= 1 /\ 1 \in 1 .. Len(s) /\ s[1].i = 1 BY FirstFrame
  <2>2. 1 \in Heads(s) BY <2>1 DEF Heads
  <2>3. \A k \in 1 .. Len(s) : s[k].f.v \in Nat BY CellsTyped
  <2>4. \A k \in Heads(s) : k \in 1 .. Len(s) BY DEF Heads
  <2>5. \A k \in 1 .. Len(s) : k \in Int /\ k >= 1 OBVIOUS
  <2> QED BY <2>1, <2>2, <2>3, <2>4, <2>5
<1>3. \A k \in Heads(t) : k \in Int /\ k >= 1 BY DEF Heads
<1> HIDE DEF t, n
<1>4. s[1].f.v = g + 1 /\ g + 1 <= h
  <2>1. g < s[1].f.v /\ s[1].f.v <= h BY <1>2 DEF Numbered
  <2>2. g + 1 \in (g + 1) .. h BY <1>2, <2>1
  <2>3. PICK k \in Heads(s) : s[k].f.v = g + 1 BY <2>2 DEF Numbered
  <2>4. k # 1 => 1 < k BY <1>2
  <2>5. k # 1 => s[1].f.v < g + 1 BY <1>2, <2>3, <2>4 DEF Numbered
  <2> QED BY <1>2, <2>1, <2>3, <2>5
<1>5. ASSUME NEW k \in Heads(t) PROVE g + 1 < t[k].f.v /\ t[k].f.v <= h
  <2>1. n + k \in Heads(s) /\ t[k] = s[n + k] /\ 1 < n + k BY <1>1, <1>2, <1>3
  <2>2. s[1].f.v < t[k].f.v /\ t[k].f.v <= h BY <1>2, <2>1 DEF Numbered
  <2> QED BY <1>4, <2>2
<1>6. ASSUME NEW j \in Heads(t), NEW k \in Heads(t), j < k PROVE t[j].f.v < t[k].f.v
  <2>1. n + j < n + k BY <1>2, <1>3, <1>6
  <2> QED BY <1>1, <2>1 DEF Numbered
<1>7. ASSUME NEW v \in (g + 1 + 1) .. h PROVE \E k \in Heads(t) : t[k].f.v = v
  <2>1. v \in (g + 1) .. h /\ v # g + 1 BY <1>4
  <2>2. PICK k \in Heads(s) : s[k].f.v = v BY <2>1 DEF Numbered
  <2>3. k # 1 BY <1>4, <2>1, <2>2
  <2> QED BY <1>1, <2>2, <2>3
<1>8. Numbered(t, g + 1, h) BY <1>5, <1>6, <1>7 DEF Numbered
<1> QED BY <1>4, <1>8 DEF t, n

\* What follows the first frame are events.
LEMMA EventsFollow ==
    ASSUME NEW s \in Seq(CellOf), s # <<>>, Framed(s), NEW type, AuthFirst(s, type)
    PROVE  LET t == SubSeq(s, s[1].f.cells + 1, Len(s))
           IN  \A k \in 1 .. Len(t) : t[k].f.type = "event"
<1> DEFINE f == s[1].f
           n == f.cells
           t == SubSeq(s, n + 1, Len(s))
<1>1. n \in Nat /\ n >= 1 /\ n <= Len(s) /\ Len(s) \in Nat /\ 1 \in 1 .. Len(s)
  BY FirstFrame
<1>2. \A k \in 1 .. Len(t) : n + k \in 1 .. Len(s) /\ t[k] = s[n + k]
  BY <1>1, RestOfStream
<1>0. n = s[1].f.cells OBVIOUS
<1> HIDE DEF t, n, f
<1>3. ASSUME NEW k \in 1 .. Len(t), t[k].f.type # "event" PROVE FALSE
  <2>1. PICK m \in 1 .. Len(s) : m = n + k /\ t[k] = s[m] BY <1>2
  <2>2. s[m].i = m BY <1>3, <2>1 DEF AuthFirst
  <2>3. /\ s[m].f.cells \in Nat /\ s[m].f.cells >= 1 BY CellsTyped
  <2>4. /\ s[m].i <= s[m].f.cells
        /\ \A j \in 1 .. s[m].f.cells : s[m - s[m].i + j] = [f |-> s[m].f, i |-> j]
    BY FrameOfCell
  <2>5. m - s[m].i + 1 = 1 /\ 1 \in 1 .. s[m].f.cells BY <2>2, <2>3
  <2>6. s[1] = [f |-> s[m].f, i |-> 1] BY <2>4, <2>5
  <2>7. s[1].f = s[m].f BY <2>6
  <2>8. s[m].f.cells = n BY <1>0, <2>7
  <2>9. m <= n BY <2>2, <2>4, <2>8
  <2> QED BY <1>1, <2>1, <2>9
<1> QED BY <1>3 DEF t, n, f

\* An event is written behind the others.
LEMMA NumberedLonger ==
    ASSUME NEW s \in Seq(CellOf), NEW f \in FrameOf, NEW g \in Nat, NEW h \in Nat, g <= h,
           Numbered(s, g, h), f.type = "event", f.v = h + 1
    PROVE  Numbered(s \o Cells(f), g, h + 1)
<1> DEFINE u == s \o Cells(f)
           l == Len(s)
<1>1. /\ \A k \in 1 .. l : k \in 1 .. Len(u) /\ u[k] = s[k]
      /\ \A j \in 1 .. f.cells : l + j \in 1 .. Len(u) /\ u[l + j] = [f |-> f, i |-> j]
      /\ \A k \in 1 .. Len(u) : k \in 1 .. l \/ k - l \in 1 .. f.cells
  BY LongerStream
<1>2. l \in Nat /\ f.cells \in Nat /\ f.cells >= 1 BY FrameCells
<1>3. \A k \in 1 .. l : s[k].f.v \in Nat BY CellsTyped
<1>0. l = Len(s) OBVIOUS
<1> HIDE DEF u, l
<1>4. \A k \in Heads(s) : k \in Heads(u) /\ u[k] = s[k] /\ k \in 1 .. l
  BY <1>0, <1>1 DEF Heads
<1>5. ASSUME NEW k \in Heads(u) PROVE (k \in Heads(s) /\ u[k] = s[k]) \/ k = l + 1
  <2>1. k \in 1 .. Len(u) /\ u[k].i = 1 BY DEF Heads
  <2>2. CASE k \in 1 .. l BY <1>0, <1>1, <1>5, <2>2 DEF Heads
  <2>3. CASE k - l \in 1 .. f.cells
    <3>1. PICK j \in 1 .. f.cells : k = l + j BY <1>2, <2>1, <2>3
    <3>2. u[k] = [f |-> f, i |-> j] BY <1>1, <3>1
    <3>3. u[k].i = j BY <3>2
    <3> QED BY <2>1, <3>1, <3>3
  <2> QED BY <1>1, <2>1, <2>2, <2>3
<1>6. l + 1 \in Heads(u) /\ u[l + 1].f = f
  <2>1. 1 \in 1 .. f.cells BY <1>2
  <2>2. l + 1 \in 1 .. Len(u) /\ u[l + 1] = [f |-> f, i |-> 1] BY <1>1, <2>1
  <2>3. u[l + 1].f = f /\ u[l + 1].i = 1 BY <2>2
  <2> QED BY <2>2, <2>3 DEF Heads
<1>7. ASSUME NEW k \in Heads(u) PROVE g < u[k].f.v /\ u[k].f.v <= h + 1
  <2>1. CASE k \in Heads(s) /\ u[k] = s[k]
    <3>1. g < s[k].f.v /\ s[k].f.v <= h BY <2>1 DEF Numbered
    <3>2. s[k].f.v \in Nat BY <1>3, <1>4, <2>1
    <3> QED BY <2>1, <3>1, <3>2
  <2>2. CASE k = l + 1 BY <1>6, <2>2
  <2> QED BY <1>5, <2>1, <2>2
<1>8. ASSUME NEW j \in Heads(u), NEW k \in Heads(u), j < k PROVE u[j].f.v < u[k].f.v
  <2>1. j \in Int /\ k \in Int BY DEF Heads
  <2>2. j \in Heads(s) /\ u[j] = s[j]
    <3> SUFFICES ASSUME j = l + 1 PROVE FALSE BY <1>5
    <3>1. k \in 1 .. l BY <1>2, <1>4, <1>5, <1>8, <2>1
    <3> QED BY <1>2, <1>8, <3>1
  <2>3. CASE k \in Heads(s) /\ u[k] = s[k] BY <1>8, <2>2, <2>3 DEF Numbered
  <2>4. CASE k = l + 1
    <3>1. s[j].f.v <= h /\ s[j].f.v \in Nat BY <1>3, <1>4, <2>2 DEF Numbered
    <3>2. u[k].f.v = h + 1 BY <1>6, <2>4
    <3> QED BY <2>2, <3>1, <3>2
  <2> QED BY <1>5, <2>3, <2>4
<1>9. ASSUME NEW v \in (g + 1) .. (h + 1) PROVE \E k \in Heads(u) : u[k].f.v = v
  <2>1. CASE v = h + 1 BY <1>6, <2>1
  <2>2. CASE v # h + 1
    <3>1. v \in (g + 1) .. h BY <2>2
    <3>2. PICK k \in Heads(s) : s[k].f.v = v BY <3>1 DEF Numbered
    <3> QED BY <1>4, <3>2
  <2> QED BY <2>1, <2>2
<1>10. Numbered(u, g, h + 1) BY <1>7, <1>8, <1>9 DEF Numbered
<1> QED BY <1>10 DEF u

\* The request or the answer is the first frame of its direction.
LEMMA OnlyAuth ==
    ASSUME NEW f \in FrameOf, f.type # "event", NEW g \in Nat, NEW h \in Nat, g >= h
    PROVE  /\ Framed(<<>> \o Cells(f)) /\ Numbered(<<>> \o Cells(f), g, h)
           /\ AuthFirst(<<>> \o Cells(f), f.type)
           /\ <<>> \o Cells(f) # <<>> /\ (<<>> \o Cells(f))[1].f.type # "event"
<1> DEFINE s == <<>>
           u == s \o Cells(f)
<1>1. s \in Seq(CellOf) /\ Len(s) = 0 /\ Framed(s)
  BY DEF Framed
<1>2. Framed(u) BY <1>1, FramedLonger
<1>3. /\ u # <<>> /\ Len(u) = 0 + f.cells
      /\ \A j \in 1 .. f.cells : 0 + j \in 1 .. Len(u) /\ u[0 + j] = [f |-> f, i |-> j]
  <2>1. /\ u # <<>> /\ Len(u) = Len(s) + f.cells
        /\ \A j \in 1 .. f.cells : Len(s) + j \in 1 .. Len(u) /\ u[Len(s) + j] = [f |-> f, i |-> j]
    BY <1>1, LongerStream
  <2> QED BY <1>1, <2>1
<1>4. f.cells \in Nat /\ f.cells >= 1 BY FrameCells
<1> HIDE DEF u, s
<1>5. \A j \in 1 .. Len(u) : u[j] = [f |-> f, i |-> j]
  <2>1. Len(u) = f.cells /\ \A j \in 1 .. f.cells : 0 + j = j BY <1>3, <1>4
  <2> QED BY <1>3, <2>1
<1>6. ASSUME NEW j \in 1 .. Len(u) PROVE u[j].f = f /\ u[j].i = j
  <2>1. u[j] = [f |-> f, i |-> j] BY <1>5
  <2> QED BY <2>1
<1>7. Heads(u) = {} BY <1>6 DEF Heads
<1>8. Numbered(u, g, h)
  <2>1. (g + 1) .. h = {} OBVIOUS
  <2> QED BY <1>7, <2>1 DEF Numbered
<1>9. AuthFirst(u, f.type) BY <1>6 DEF AuthFirst
<1>10. 1 \in 1 .. Len(u) BY <1>3, <1>4
<1>11. u[1].f.type # "event" BY <1>6, <1>10
<1> QED BY <1>2, <1>3, <1>8, <1>9, <1>11 DEF u, s

-----------------------------------------------------------------------------
(***************************************************************************)
(* The streams of the two directions.                                      *)
(***************************************************************************)

\* Appending is associative.
LEMMA JoinAssociative ==
    ASSUME NEW x \in Seq(CellOf), NEW y \in Seq(CellOf), NEW z \in Seq(CellOf)
    PROVE  (x \o y) \o z = x \o (y \o z)
BY ConcatAssociative

\* The positions in a sequence and in a longer one.
LEMMA Positions ==
    ASSUME NEW a \in Nat, NEW c \in Nat
    PROVE  \A i \in 1 .. a : i \in 1 .. a + c /\ i <= a
OBVIOUS

\* What a buffer of cells and the cells behind it are together.
LEMMA JoinCells ==
    ASSUME NEW b \in Seq(CellOf), NEW o \in Seq(CellOf)
    PROVE  /\ b \o o \in Seq(CellOf) /\ Len(b \o o) = Len(b) + Len(o)
           /\ Len(b) \in Nat /\ Len(o) \in Nat
           /\ \A i \in 1 .. Len(b) : i \in 1 .. Len(b \o o) /\ (b \o o)[i] = b[i]
<1>1. /\ b \o o \in Seq(CellOf) /\ Len(b \o o) = Len(b) + Len(o)
      /\ \A i \in 1 .. Len(b) + Len(o) : (b \o o)[i] = IF i <= Len(b) THEN b[i] ELSE o[i - Len(b)]
  BY ConcatProperties
<1>2. Len(b) \in Nat /\ Len(o) \in Nat OBVIOUS
<1>3. \A i \in 1 .. Len(b) : i \in 1 .. Len(b) + Len(o) /\ i <= Len(b) BY <1>2, Positions
<1>4. ASSUME NEW i \in 1 .. Len(b) PROVE i \in 1 .. Len(b \o o) /\ (b \o o)[i] = b[i]
  BY <1>1, <1>3
<1> QED BY <1>1, <1>2, <1>4

\* Cells are taken from the front of the buffer.
LEMMA RestOfJoin ==
    ASSUME NEW b \in Seq(CellOf), NEW o \in Seq(CellOf), NEW n \in Nat, n <= Len(b)
    PROVE  SubSeq(b, n + 1, Len(b)) \o o = SubSeq(b \o o, n + 1, Len(b \o o))
<1> DEFINE s == b \o o
           r == SubSeq(b, n + 1, Len(b))
           l == r \o o
           t == SubSeq(s, n + 1, Len(s))
<1>1. /\ r \in Seq(CellOf) /\ Len(r) = Len(b) - n
      /\ \A k \in 1 .. Len(r) : n + k \in 1 .. Len(b) /\ r[k] = b[n + k]
  BY RestOfStream
<1>2. /\ s \in Seq(CellOf) /\ Len(s) = Len(b) + Len(o) /\ Len(b) \in Nat /\ Len(o) \in Nat
      /\ \A i \in 1 .. Len(b) + Len(o) : s[i] = IF i <= Len(b) THEN b[i] ELSE o[i - Len(b)]
  BY JoinCells, ConcatProperties
<1>3. /\ l \in Seq(CellOf) /\ Len(l) = Len(r) + Len(o)
      /\ \A i \in 1 .. Len(r) + Len(o) : l[i] = IF i <= Len(r) THEN r[i] ELSE o[i - Len(r)]
  BY <1>1, ConcatProperties
<1>4. PICK x \in Nat, y \in Nat : x = Len(b) /\ y = Len(o) BY <1>2
<1>5. Len(s) = x + y /\ Len(r) = x - n /\ Len(l) = (x - n) + y BY <1>1, <1>2, <1>3, <1>4
<1>6. n <= x + y /\ n <= x /\ x - n \in Nat BY <1>4
<1>7. /\ t \in Seq(CellOf) /\ Len(t) = Len(s) - n
      /\ \A k \in 1 .. Len(t) : n + k \in 1 .. Len(s) /\ t[k] = s[n + k]
  <2>1. n <= Len(s) BY <1>5, <1>6
  <2> HIDE DEF s
  <2> QED BY <1>2, <2>1, RestOfStream
<1> HIDE DEF s, r, l, t
<1>8. Len(l) = (x - n) + y /\ Len(t) = (x - n) + y
  <2>1. Len(t) = (x + y) - n BY <1>5, <1>7
  <2> QED BY <1>5, <1>6, <2>1
<1>9. ASSUME NEW k \in 1 .. (x - n) + y PROVE l[k] = t[k]
  <2>1. t[k] = s[n + k] BY <1>7, <1>8
  <2>2. n + k \in 1 .. x + y BY <1>6
  <2>3. CASE k <= x - n
    <3>1. k \in 1 .. x - n /\ n + k <= x BY <1>6, <2>3
    <3>2. l[k] = r[k] BY <1>3, <1>4, <1>5, <2>3
    <3>3. r[k] = b[n + k] BY <1>1, <1>5, <3>1
    <3>4. s[n + k] = b[n + k] BY <1>2, <1>4, <2>2, <3>1
    <3> QED BY <2>1, <3>2, <3>3, <3>4
  <2>4. CASE ~(k <= x - n)
    <3>1. ~(n + k <= x) /\ n + k - x = k - (x - n) BY <1>6, <2>4
    <3>2. l[k] = o[k - (x - n)] BY <1>3, <1>4, <1>5, <2>4
    <3>3. s[n + k] = o[n + k - x]
      <4> DEFINE m == n + k
      <4>1. m \in 1 .. x + y /\ ~(m <= x) BY <2>2, <3>1
      <4> HIDE DEF m
      <4>2. s[m] = o[m - x] BY <1>2, <1>4, <4>1
      <4> QED BY <4>2 DEF m
    <3> QED BY <2>1, <3>1, <3>2, <3>3
  <2> QED BY <2>3, <2>4
<1>10. l = t BY <1>3, <1>7, <1>8, <1>9, SeqEqual
<1> QED BY <1>10 DEF l, t, r, s

\* The other end of either end.
LEMMA TwoEnds ==
    /\ "client" \in Ends /\ "server" \in Ends /\ "client" # "server"
    /\ Peer("client") = "server" /\ Peer("server") = "client"
    /\ \A e \in Ends : Peer(e) \in Ends /\ Peer(e) # e /\ Peer(Peer(e)) = e
    /\ \A e, y \in Ends : y = e \/ y = Peer(e)
BY DEF Ends, Peer

\* What the variables of a direction are.
LEMMA StreamTyped ==
    ASSUME TypeOK, NEW e \in Ends
    PROVE  /\ Stream(e) \in Seq(CellOf) /\ out[e] \in Seq(CellOf)
           /\ buf[Peer(e)] \in Seq(CellOf) /\ sent[e] \in Nat /\ got[Peer(e)] \in Seq(Nat)
           /\ Len(got[Peer(e)]) \in Nat
           /\ Len(Stream(e)) = Len(buf[Peer(e)]) + Len(out[e])
           /\ \A i \in 1 .. Len(buf[Peer(e)]) : i \in 1 .. Len(Stream(e)) /\ Stream(e)[i] = buf[Peer(e)][i]
<1> DEFINE b == buf[Peer(e)]
<1>1. out[e] \in Seq(CellOf) /\ b \in Seq(CellOf) /\ sent[e] \in Nat /\ got[Peer(e)] \in Seq(Nat)
  BY TwoEnds DEF TypeOK
<1>2. /\ b \o out[e] \in Seq(CellOf) /\ Len(b \o out[e]) = Len(b) + Len(out[e])
      /\ \A i \in 1 .. Len(b) : i \in 1 .. Len(b \o out[e]) /\ (b \o out[e])[i] = b[i]
  BY <1>1, JoinCells
<1>3. Len(got[Peer(e)]) \in Nat BY <1>1, LenProperties
<1> QED BY <1>1, <1>2, <1>3 DEF Stream

\* AsyncRead moves cells from the connection to the buffer.
LEMMA FillStream ==
    ASSUME TypeOK, NEW e \in Ends, Fill(e)
    PROVE  /\ buf' \in [Ends -> Seq(CellOf)] /\ out' \in [Ends -> Seq(CellOf)]
           /\ \A y \in Ends : Stream(y)' = Stream(y)
<1> DEFINE p == Peer(e)
           b == buf[e]
           o == out[p]
<1>1. p \in Ends /\ p # e /\ Peer(p) = e /\ b \in Seq(CellOf) /\ o \in Seq(CellOf)
  BY TwoEnds DEF TypeOK
<1>2. PICK k \in 1 .. Len(o) : /\ buf' = [buf EXCEPT ![e] = @ \o SubSeq(o, 1, k)]
                               /\ out' = [out EXCEPT ![p] = SubSeq(@, k + 1, Len(@))]
  BY DEF Fill
<1>3. /\ Len(o) \in Nat /\ k \in Nat /\ k <= Len(o)
      /\ SubSeq(o, 1, k) \in Seq(CellOf) /\ SubSeq(o, k + 1, Len(o)) \in Seq(CellOf)
  <2>1. Len(o) \in Nat /\ \A i \in 1 .. Len(o) : o[i] \in CellOf BY <1>1
  <2>2. k \in Nat /\ k <= Len(o) BY <2>1
  <2>3. \A i \in 1 .. k : o[i] \in CellOf BY <2>1, <2>2
  <2>4. \A i \in (k + 1) .. Len(o) : o[i] \in CellOf BY <2>1, <2>2
  <2> QED BY <2>1, <2>2, <2>3, <2>4, SubSeqProperties
<1>4. SubSeq(o, 1, k) \o SubSeq(o, k + 1, Len(o)) = o
  <2>1. SubSeq(o, 1, k) \o SubSeq(o, k + 1, Len(o)) = SubSeq(o, 1, Len(o))
    <3>1. 1 \in 1 .. Len(o) + 1 /\ k \in 1 - 1 .. Len(o) /\ Len(o) \in k .. Len(o) BY <1>3
    <3> QED BY <1>1, <3>1, ConcatAdjacentSubSeq
  <2> QED BY <1>1, <2>1, SubSeqFull
<1>5. b \o SubSeq(o, 1, k) \in Seq(CellOf) BY <1>1, <1>3, ConcatProperties
<1>6. /\ buf'[e] = b \o SubSeq(o, 1, k) /\ buf'[p] = buf[p]
      /\ out'[p] = SubSeq(o, k + 1, Len(o)) /\ out'[e] = out[e]
  BY <1>1, <1>2 DEF TypeOK
<1>7. buf' \in [Ends -> Seq(CellOf)] /\ out' \in [Ends -> Seq(CellOf)]
  BY <1>1, <1>2, <1>3, <1>5 DEF TypeOK
<1>8. Stream(e)' = Stream(e) BY <1>1, <1>6 DEF Stream
<1>9. Stream(p)' = Stream(p)
  <2>1. (b \o SubSeq(o, 1, k)) \o SubSeq(o, k + 1, Len(o)) = b \o (SubSeq(o, 1, k) \o SubSeq(o, k + 1, Len(o)))
    BY <1>1, <1>3, JoinAssociative
  <2>2. Stream(p)' = (b \o SubSeq(o, 1, k)) \o SubSeq(o, k + 1, Len(o)) BY <1>1, <1>6 DEF Stream
  <2>3. Stream(p) = b \o o BY <1>1 DEF Stream
  <2> QED BY <1>4, <2>1, <2>2, <2>3
<1>10. \A y \in Ends : y = e \/ y = p BY TwoEnds
<1> QED BY <1>7, <1>8, <1>9, <1>10

\* A frame is written.
LEMMA SendStream ==
    ASSUME TypeOK, NEW e \in Ends, NEW f \in FrameOf, buf'[Peer(e)] = buf[Peer(e)], Send(e, f)
    PROVE  /\ out' \in [Ends -> Seq(CellOf)] /\ out'[Peer(e)] = out[Peer(e)]
           /\ Stream(e)' = Stream(e) \o Cells(f)
<1>1. out[e] \in Seq(CellOf) /\ buf[Peer(e)] \in Seq(CellOf) /\ Peer(e) \in Ends /\ Peer(e) # e
  BY TwoEnds DEF TypeOK
<1>2. Cells(f) \in Seq(CellOf) BY FrameCells
<1>3. out[e] \o Cells(f) \in Seq(CellOf) BY <1>1, <1>2, ConcatProperties
<1>4. /\ out' \in [Ends -> Seq(CellOf)] /\ out'[Peer(e)] = out[Peer(e)]
      /\ out'[e] = out[e] \o Cells(f)
  BY <1>1, <1>3 DEF Send, TypeOK
<1>5. Stream(e)' = buf[Peer(e)] \o (out[e] \o Cells(f)) BY <1>4 DEF Stream
<1>6. buf[Peer(e)] \o (out[e] \o Cells(f)) = (buf[Peer(e)] \o out[e]) \o Cells(f)
  BY <1>1, <1>2, JoinAssociative
<1> QED BY <1>4, <1>5, <1>6 DEF Stream

\* Decrypt returns an event: the frame at the front of the buffer is complete,
\* and exactly that frame is taken.
LEMMA TakeStream ==
    ASSUME TypeOK, NEW e \in Ends, Framed(Stream(Peer(e))), Take(e),
           out'[Peer(e)] = out[Peer(e)]
    PROVE  LET s == Stream(Peer(e))
           IN  /\ s # <<>> /\ buf[e][1] = s[1]
               /\ buf' \in [Ends -> Seq(CellOf)] /\ buf'[Peer(e)] = buf[Peer(e)]
               /\ Stream(Peer(e))' = SubSeq(s, s[1].f.cells + 1, Len(s))
<1> DEFINE p == Peer(e)
           s == Stream(p)
           b == buf[e]
           n == s[1].f.cells
<1>1. p \in Ends /\ p # e /\ Peer(p) = e /\ b \in Seq(CellOf) /\ out[p] \in Seq(CellOf)
  BY TwoEnds DEF TypeOK
<1>2. /\ s \in Seq(CellOf) /\ Len(s) = Len(b) + Len(out[p]) /\ Len(b) \in Nat /\ Len(out[p]) \in Nat
      /\ \A i \in 1 .. Len(b) : i \in 1 .. Len(s) /\ s[i] = b[i]
  <2>1. s = b \o out[p] BY <1>1 DEF Stream
  <2> HIDE DEF s
  <2> QED BY <1>1, <2>1, JoinCells
<1>3. Len(b) >= HeadCells /\ Len(b) >= DecryptLen(e)
      /\ buf' = [buf EXCEPT ![e] = SubSeq(@, DecryptLen(e) + 1, Len(@))]
  <2>1. HeadCells \in Nat BY DEF HeadCells, Tag
  <2>2. ~(Len(b) < HeadCells) /\ ~(Len(b) < DecryptLen(e)) BY DEF Take, Decrypt
  <2>3. b[1] \in CellOf
    <3>1. HeadCells >= 1 BY DEF HeadCells, Tag
    <3>2. 1 \in 1 .. Len(b) BY <1>2, <2>1, <2>2, <3>1
    <3> QED BY <1>1, <3>2
  <2>4. DecryptLen(e) \in Nat
    <3>1. b[1].f \in FrameOf BY <2>3 DEF CellOf
    <3>2. b[1].f.cells \in Nat /\ b[1].f.cells = HeadCells + BodyCells(b[1].f.len, b[1].f.plain)
      BY <3>1 DEF FrameOf
    <3> QED BY <3>2 DEF DecryptLen
  <2> QED BY <1>2, <2>1, <2>2, <2>4 DEF Take
<1>4. 1 \in 1 .. Len(b) /\ s # <<>> /\ b[1] = s[1]
  <2>1. HeadCells \in Nat /\ HeadCells >= 1 BY DEF HeadCells, Tag
  <2>2. 1 \in 1 .. Len(b) BY <1>2, <1>3, <2>1
  <2>3. 1 \in 1 .. Len(s) /\ s[1] = b[1] BY <1>2, <2>2
  <2> QED BY <2>2, <2>3
<1>5. DecryptLen(e) = n /\ n \in Nat
  <2>1. s[1].f \in FrameOf BY <1>2, <1>4, FirstFrame
  <2>2. n \in Nat /\ n = HeadCells + BodyCells(s[1].f.len, s[1].f.plain) BY <2>1 DEF FrameOf
  <2> QED BY <1>4, <2>2 DEF DecryptLen
<1>0. n \in Nat /\ n <= Len(b) BY <1>3, <1>5
<1> HIDE DEF n
<1>6. SubSeq(b, n + 1, Len(b)) \in Seq(CellOf) BY <1>0, <1>1, RestOfStream
<1>7. /\ buf' \in [Ends -> Seq(CellOf)] /\ buf'[p] = buf[p] /\ buf'[e] = SubSeq(b, n + 1, Len(b))
  BY <1>1, <1>3, <1>5, <1>6 DEF TypeOK
<1>8. SubSeq(b, n + 1, Len(b)) \o out[p] = SubSeq(s, n + 1, Len(s))
  <2>1. s = b \o out[p] BY <1>1 DEF Stream
  <2> QED BY <1>0, <1>1, <2>1, RestOfJoin
<1>9. Stream(p)' = SubSeq(s, n + 1, Len(s))
  <2>1. Stream(p)' = buf'[e] \o out'[p] BY <1>1 DEF Stream
  <2> QED BY <1>7, <1>8, <2>1
<1> QED BY <1>4, <1>7, <1>9 DEF n

-----------------------------------------------------------------------------
(***************************************************************************)
(* The parts of the invariant, one direction or one end at a time.         *)
(***************************************************************************)

\* A direction, from its stream and its counts after the step.
LEMMA DirectionNext ==
    ASSUME NEW e \in Ends, NEW s, NEW g, Stream(e)' = s, got'[Peer(e)] = g, Framed(s),
           Numbered(s, Len(g), sent'[e]), AuthFirst(s, AuthType(e)),
           Len(g) <= sent'[e], \A k \in 1 .. Len(g) : g[k] = k
    PROVE  Direction(e)'
BY DEF Direction

\* A step that leaves a direction alone.
LEMMA SameDirection ==
    ASSUME NEW e \in Ends, Direction(e), Stream(e)' = Stream(e),
           got'[Peer(e)] = got[Peer(e)], sent'[e] = sent[e]
    PROVE  Direction(e)'
<1>1. /\ Framed(Stream(e)) /\ Numbered(Stream(e), Len(got[Peer(e)]), sent[e])
      /\ AuthFirst(Stream(e), AuthType(e)) /\ Len(got[Peer(e)]) <= sent[e]
      /\ \A k \in 1 .. Len(got[Peer(e)]) : got[Peer(e)][k] = k
  BY DEF Direction
<1> QED BY <1>1, DirectionNext

\* The nonce a frame is sent under.
Suits(type, nonce, v) ==
    /\ type = "event" => nonce.base = "iv" /\ v = nonce.n + 1
    /\ type # "event" => nonce = Default

\* The frame that Encrypt produces: an event under the new nonce, or what
\* the authentication sends under the default one.
LEMMA FrameTyped ==
    ASSUME Encrypted, TypeOK, NEW e \in Ends, NEW type \in {"req", "res", "event"},
           NEW len \in Nat, NEW plain \in BOOLEAN, NEW v \in Nat,
           Suits(type, enc[e], v)
    PROVE  LET f == Frame(e, type, len, plain, v)
           IN  f \in FrameOf /\ f.type = type /\ f.v = v /\ f.nonce = enc[e]
<1> DEFINE f == Frame(e, type, len, plain, v)
           c == HeadCells + BodyCells(len, plain)
<1>1. c \in Nat BY DEF HeadCells, Tag, BodyCells
<1>2. enc[e] \in Nonces BY DEF TypeOK
<1>3. f = [type |-> type, v |-> v, nonce |-> enc[e], plain |-> plain, cells |-> c, len |-> len]
  BY DEF Frame
<1> HIDE DEF f
<1>4. /\ f.type = type /\ f.v = v /\ f.nonce = enc[e] /\ f.plain = plain /\ f.cells = c /\ f.len = len
      /\ f \in [type : {"req", "res", "event"}, v : Nat, nonce : Nonces, plain : BOOLEAN,
                cells : Nat, len : Nat]
  <2> HIDE DEF c
  <2> QED BY <1>1, <1>2, <1>3
<1>5. f \in FrameOf BY <1>4 DEF FrameOf, Suits
<1> QED BY <1>4, <1>5 DEF f

\* The request and the answer.
LEMMA AuthFrame ==
    ASSUME Encrypted, TypeOK, NEW e \in Ends, NEW type \in {"req", "res"}, enc[e] = Default
    PROVE  LET f == Frame(e, type, 1, FALSE, 0)
           IN  f \in FrameOf /\ f.type = type /\ f.nonce = enc[e]
<1>1. type \in {"req", "res", "event"} /\ type # "event" OBVIOUS
<1>2. 1 \in Nat /\ 0 \in Nat OBVIOUS
<1>3. FALSE \in BOOLEAN OBVIOUS
<1>4. ASSUME NEW len \in Nat, NEW plain \in BOOLEAN, NEW v \in Nat
      PROVE  LET f == Frame(e, type, len, plain, v)
             IN  f \in FrameOf /\ f.type = type /\ f.nonce = enc[e]
  <2>1. Suits(type, enc[e], v) BY <1>1 DEF Suits
  <2> QED BY <1>1, <2>1, FrameTyped
<1> QED BY <1>2, <1>3, <1>4

\* The nonce is counted up for each frame.
LEMMA NextNonce ==
    ASSUME NEW x \in Nonces
    PROVE  Next1(x) \in Nonces /\ Next1(x) = [base |-> x.base, n |-> x.n + 1]
<1>1. x.n \in Nat /\ x.base \in {"default", "iv"} /\ x = [base |-> x.base, n |-> x.n] BY DEF Nonces
<1>2. Next1(x) = [base |-> x.base, n |-> x.n + 1] BY <1>1 DEF Next1
<1> QED BY <1>1, <1>2 DEF Nonces

\* What the reader of a direction knows of its buffer: it begins with a
\* header, which the nonce of this end opens.
LEMMA Opened ==
    ASSUME Inv, NEW e \in Ends, Reading(e), Len(buf[e]) >= HeadCells
    PROVE  samekey => Opens(e)
<1> DEFINE p == Peer(e)
           s == Stream(p)
           b == buf[e]
           f == s[1].f
<1>1. /\ p \in Ends /\ Peer(p) = e /\ TypeOK /\ Direction(p) /\ Waiting(e) /\ Authenticated(e)
  BY TwoEnds DEF Inv
<1>2. s \in Seq(CellOf) /\ b \in Seq(CellOf) /\ sent[p] \in Nat /\ Len(got[e]) \in Nat
  BY <1>1, StreamTyped
<1>3. \A i \in 1 .. Len(b) : i \in 1 .. Len(s) /\ s[i] = b[i] BY <1>1, StreamTyped
<1>4. HeadCells \in Nat /\ HeadCells >= 1 BY DEF HeadCells, Tag
<1>5. Len(b) \in Nat /\ 1 \in 1 .. Len(b) /\ \A i \in 1 .. HeadCells : i \in 1 .. Len(b)
  <2>1. Len(b) \in Nat BY <1>2
  <2>2. PICK l \in Nat : l = Len(b) BY <2>1
  <2>3. l >= HeadCells BY <2>2
  <2>4. 1 \in 1 .. l /\ \A i \in 1 .. HeadCells : i \in 1 .. l BY <1>4, <2>3
  <2> QED BY <2>2, <2>4
<1>6. s # <<>> /\ Framed(s) /\ Numbered(s, Len(got[e]), sent[p])
  <2>1. 1 \in 1 .. Len(s) BY <1>3, <1>5
  <2>2. s # <<>> BY <1>2, <2>1
  <2> QED BY <1>1, <2>2 DEF Direction
<1>7. f \in FrameOf /\ f.cells \in Nat /\ \A j \in 1 .. f.cells : s[j] = [f |-> f, i |-> j]
  BY <1>2, <1>6, FirstFrame
<1>8. \A j \in 1 .. HeadCells : j \in 1 .. f.cells
  <2>1. f.cells >= HeadCells BY <1>7, FrameCells
  <2> QED BY <1>4, <1>7, <2>1
<1>9. b[1] = s[1] /\ b[1].f = f BY <1>3, <1>5
<1>10. ASSUME NEW i \in 1 .. HeadCells PROVE b[i] = [f |-> f, i |-> i]
  <2>1. s[i] = [f |-> f, i |-> i] BY <1>7, <1>8
  <2> QED BY <1>3, <1>5, <2>1
<1>11. f.nonce = dec[e]
  <2>1. CASE phase[e] \in {"authwait", "wait"}
    <3>1. dec[e] = Default /\ f.type # "event" BY <1>1, <1>6, <2>1 DEF Waiting, Waits
    <3> QED BY <1>7, <3>1 DEF FrameOf
  <2>2. CASE phase[e] = "up"
    <3>1. dec[e] = [base |-> "iv", n |-> Len(got[e])] /\ f.type = "event"
      BY <1>1, <1>3, <1>5, <2>2 DEF Authenticated
    <3>2. f.v = Len(got[e]) + 1 BY <1>2, <1>6, <3>1, NumberedNext
    <3>3. f.nonce \in Nonces /\ f.nonce.base = "iv" /\ f.v = f.nonce.n + 1 BY <1>7, <3>1 DEF FrameOf
    <3>4. f.nonce.n \in Nat /\ f.nonce = [base |-> f.nonce.base, n |-> f.nonce.n] BY <3>3 DEF Nonces
    <3>5. f.nonce.n = Len(got[e]) BY <1>2, <3>2, <3>3, <3>4
    <3> QED BY <3>1, <3>3, <3>4, <3>5
  <2> QED BY <2>1, <2>2 DEF Reading
<1> QED BY <1>9, <1>10, <1>11 DEF Opens

-----------------------------------------------------------------------------
(***************************************************************************)
(* The steps.                                                              *)
(***************************************************************************)

\* Steps that read, and change neither what is on the way nor the phases.
LEMMA SameStreams ==
    ASSUME Inv, buf' \in [Ends -> Seq(CellOf)], out' \in [Ends -> Seq(CellOf)],
           \A y \in Ends : Stream(y)' = Stream(y),
           UNCHANGED <<samekey, phase, enc, dec, sent, got>>
    PROVE  Inv'
<1>1. TypeOK' BY DEF Inv, TypeOK
<1>2. "client" \in Ends /\ "server" \in Ends /\ \A y \in Ends : Peer(y) \in Ends BY TwoEnds
<1>3. ASSUME NEW y \in Ends PROVE Direction(y)' /\ Waiting(y)' /\ Authenticated(y)'
  <2>1. Direction(y) /\ Waiting(y) /\ Authenticated(y) /\ Stream(y)' = Stream(y)
        /\ Stream(Peer(y))' = Stream(Peer(y))
    BY <1>2 DEF Inv
  <2>2. Direction(y)' BY <2>1, SameDirection
  <2>3. Waiting(y)' BY <2>1 DEF Waiting, Waits
  <2>4. Authenticated(y)' BY <2>1 DEF Authenticated
  <2> QED BY <2>2, <2>3, <2>4
<1>4. NotRequested' BY <1>2 DEF Inv, NotRequested
<1>5. NotAnswered' BY <1>2 DEF Inv, NotAnswered
<1>6. NoDecryptError' BY DEF Inv, NoDecryptError
<1> QED BY <1>1, <1>3, <1>4, <1>5, <1>6 DEF Inv

\* Steps that end the connection at one end.
LEMMA PhaseEnds ==
    ASSUME Inv, NEW e \in Ends, NEW x \in {"closed", "error"}, x = "error" => ~samekey,
           phase' = [phase EXCEPT ![e] = x],
           UNCHANGED <<samekey, enc, dec, out, buf, sent, got>>
    PROVE  Inv'
<1>1. TypeOK' BY DEF Inv, TypeOK, Phases
<1>2. "client" \in Ends /\ "server" \in Ends /\ \A y \in Ends : Peer(y) \in Ends BY TwoEnds
<1>3. \A y \in Ends : Stream(y)' = Stream(y) BY DEF Stream
<1>4. phase'[e] = x /\ \A y \in Ends : y # e => phase'[y] = phase[y] BY DEF Inv, TypeOK
<1>5. ASSUME NEW y \in Ends PROVE Direction(y)' /\ Waiting(y)' /\ Authenticated(y)'
  <2>1. Direction(y) /\ Waiting(y) /\ Authenticated(y) /\ Stream(y)' = Stream(y)
        /\ Stream(Peer(y))' = Stream(Peer(y))
    BY <1>2, <1>3 DEF Inv
  <2>2. Direction(y)' BY <2>1, SameDirection
  <2>3. Waiting(y)' BY <1>4, <2>1 DEF Waiting, Waits
  <2>4. Authenticated(y)' BY <1>4, <2>1 DEF Authenticated
  <2> QED BY <2>2, <2>3, <2>4
<1>6. NotRequested' BY <1>2, <1>3, <1>4 DEF Inv, NotRequested
<1>7. NotAnswered' BY <1>2, <1>3, <1>4 DEF Inv, NotAnswered
<1>8. NoDecryptError'
  <2>1. samekey \/ ~samekey OBVIOUS
  <2> QED BY <1>4, <2>1 DEF Inv, NoDecryptError
<1> QED BY <1>1, <1>5, <1>6, <1>7, <1>8 DEF Inv

\* Decrypt does not fail for ends with the same key.
LEMMA OnlyOtherKey ==
    ASSUME Inv, NEW e \in Ends, DecryptFails(e)
    PROVE  ~samekey
<1>1. Reading(e) /\ Decrypt(e) = "bad" BY DEF DecryptFails
<1>2. ~(Len(buf[e]) < HeadCells) /\ ~Opens(e) BY <1>1 DEF Decrypt
<1>3. Len(buf[e]) \in Nat /\ HeadCells \in Nat
  <2>1. buf[e] \in Seq(CellOf) BY DEF Inv, TypeOK
  <2> QED BY <2>1 DEF HeadCells, Tag
<1>4. Len(buf[e]) >= HeadCells
  <2>1. PICK l \in Nat : l = Len(buf[e]) BY <1>3
  <2> QED BY <1>2, <1>3, <2>1
<1> QED BY <1>1, <1>2, <1>4, Opened

\* ReadEvent looks at the buffer, reads on or fails, or an end gives up.
LEMMA ReadOn ==
    ASSUME Inv, NEW e \in Ends,
           NeedMore(e) \/ Fill(e) \/ DecryptFails(e) \/ ReadFails(e) \/ AuthWriteFails(e)
    PROVE  Inv'
<1>0. TypeOK BY DEF Inv
<1>1. CASE NeedMore(e)
  <2>1. \A y \in Ends : Stream(y)' = Stream(y) BY <1>1 DEF NeedMore, Stream
  <2> QED BY <1>0, <1>1, <2>1, SameStreams DEF NeedMore, TypeOK
<1>2. CASE Fill(e)
  <2>1. UNCHANGED <<samekey, phase, enc, dec, sent, got>> BY <1>2 DEF Fill
  <2>2. /\ buf' \in [Ends -> Seq(CellOf)] /\ out' \in [Ends -> Seq(CellOf)]
        /\ \A y \in Ends : Stream(y)' = Stream(y)
    BY <1>0, <1>2, FillStream
  <2> QED BY <2>1, <2>2, SameStreams
<1>3. CASE DecryptFails(e)
  <2>1. ~samekey BY <1>3, OnlyOtherKey
  <2> QED BY <1>3, <2>1, PhaseEnds DEF DecryptFails
<1>4. CASE ReadFails(e) BY <1>4, PhaseEnds DEF ReadFails
<1>5. CASE AuthWriteFails(e) BY <1>5, PhaseEnds DEF AuthWriteFails
<1> QED BY <1>1, <1>2, <1>3, <1>4, <1>5

\* ClientAuth writes the request.
LEMMA ClientAuthKeeps ==
    ASSUME Encrypted, Inv, ClientAuth
    PROVE  Inv'
<1> DEFINE c == "client"
           w == "server"
           f == Frame(c, "req", 1, FALSE, 0)
<1>1. /\ c \in Ends /\ w \in Ends /\ c # w /\ Peer(c) = w /\ Peer(w) = c
      /\ \A y \in Ends : y = c \/ y = w
  BY TwoEnds DEF Ends
<1>2. /\ phase[c] = "start" /\ Send(c, f) /\ enc' = [enc EXCEPT ![c] = Next1(@)]
      /\ phase' = [phase EXCEPT ![c] = "authwait"] /\ UNCHANGED <<samekey, dec, buf, sent, got>>
  BY DEF ClientAuth
<1>3. TypeOK /\ Direction(c) /\ Direction(w) /\ Waiting(c) /\ Waiting(w) BY <1>1 DEF Inv
<1>4. Stream(c) = <<>> /\ enc[c] = Default /\ phase[w] \notin {"answer", "up"}
  BY <1>2 DEF Inv, NotRequested
<1>5. f \in FrameOf /\ f.type = "req" BY <1>1, <1>3, <1>4, AuthFrame
<1> HIDE DEF f
<1>6. out' \in [Ends -> Seq(CellOf)] /\ out'[w] = out[w] /\ Stream(c)' = <<>> \o Cells(f)
  BY <1>1, <1>2, <1>3, <1>4, <1>5, SendStream
<1>7. Stream(w)' = Stream(w) BY <1>1, <1>2, <1>6 DEF Stream
<1>8. phase'[c] = "authwait" /\ phase'[w] = phase[w] BY <1>1, <1>2, <1>3 DEF TypeOK
<1>9. TypeOK'
  <2>1. Next1(enc[c]) \in Nonces BY <1>1, <1>3, NextNonce DEF TypeOK
  <2>2. enc' \in [Ends -> Nonces] BY <1>2, <1>3, <2>1 DEF TypeOK
  <2>3. phase' \in [Ends -> Phases] BY <1>2, <1>3 DEF TypeOK, Phases
  <2> QED BY <1>2, <1>3, <1>6, <2>2, <2>3 DEF TypeOK
<1>10. /\ dec[c] = Default /\ got[c] = <<>> /\ sent[c] = 0
       /\ Stream(w) # <<>> => Stream(w)[1].f.type # "event"
  BY <1>1, <1>2, <1>3 DEF Waiting, Waits
<1>11. Direction(c)'
  <2>1. got[w] \in Seq(Nat) /\ Len(got[w]) \in Nat BY <1>1, <1>3, StreamTyped
  <2>2. Len(got[w]) <= sent[c] /\ \A k \in 1 .. Len(got[w]) : got[w][k] = k
    BY <1>1, <1>3 DEF Direction
  <2>3. Len(got[w]) >= 0 BY <2>1
  <2>4. /\ Framed(<<>> \o Cells(f)) /\ Numbered(<<>> \o Cells(f), Len(got[w]), 0)
        /\ AuthFirst(<<>> \o Cells(f), "req")
    BY <1>5, <2>1, <2>3, OnlyAuth
  <2>5. got'[Peer(c)] = got[w] /\ sent'[c] = 0 /\ AuthType(c) = "req" BY <1>1, <1>2, <1>10 DEF AuthType
  <2> QED BY <1>1, <1>6, <1>10, <2>2, <2>4, <2>5, DirectionNext
<1>12. Direction(w)' BY <1>1, <1>2, <1>3, <1>7, SameDirection
<1>13. Waiting(c)' BY <1>1, <1>2, <1>7, <1>10 DEF Waiting
<1>14. Waiting(w)'
  <2>1. (<<>> \o Cells(f))[1].f.type # "event" BY <1>5, OnlyAuth
  <2> QED BY <1>1, <1>2, <1>3, <1>6, <1>8, <2>1 DEF Waiting, Waits
<1>15. Authenticated(c)' /\ Authenticated(w)' BY <1>4, <1>8 DEF Authenticated
<1>16. NotRequested' BY <1>8 DEF NotRequested
<1>17. NotAnswered'
  <2>1. enc'[w] = enc[w] BY <1>1, <1>2, <1>3 DEF TypeOK
  <2> QED BY <1>2, <1>4, <1>7, <1>8, <2>1 DEF Inv, NotAnswered
<1>18. NoDecryptError' BY <1>1, <1>2, <1>8 DEF Inv, NoDecryptError
<1> QED BY <1>1, <1>9, <1>11, <1>12, <1>13, <1>14, <1>15, <1>16, <1>17, <1>18 DEF Inv

\* An end takes what the authentication sent it: events follow.
LEMMA TakeAuth ==
    ASSUME Inv, NEW e \in Ends, Waits(e), Take(e), out'[Peer(e)] = out[Peer(e)],
           got' = got, sent' = sent
    PROVE  LET p == Peer(e)
           IN  /\ Stream(p) # <<>> /\ buf[e][1] = Stream(p)[1]
               /\ buf' \in [Ends -> Seq(CellOf)] /\ buf'[p] = buf[p]
               /\ Direction(p)'
               /\ \A k \in 1 .. Len(Stream(p)') : Stream(p)'[k].f.type = "event"
<1> DEFINE p == Peer(e)
           s == Stream(p)
           t == SubSeq(s, s[1].f.cells + 1, Len(s))
<1>1. /\ p \in Ends /\ Peer(p) = e /\ TypeOK /\ Direction(p) /\ Waiting(e)
  BY TwoEnds DEF Inv
<1>2. /\ Framed(s) /\ Numbered(s, Len(got[e]), sent[p]) /\ AuthFirst(s, AuthType(p))
      /\ Len(got[e]) <= sent[p] /\ \A k \in 1 .. Len(got[e]) : got[e][k] = k
  BY <1>1 DEF Direction
<1>3. /\ s # <<>> /\ buf[e][1] = s[1] /\ buf' \in [Ends -> Seq(CellOf)] /\ buf'[p] = buf[p]
      /\ Stream(p)' = t
  BY <1>1, <1>2, TakeStream
<1>4. s \in Seq(CellOf) /\ sent[p] \in Nat /\ Len(got[e]) \in Nat BY <1>1, StreamTyped
<1>5. s[1].f.type # "event" BY <1>1, <1>3 DEF Waiting
<1>6. Framed(t) BY <1>2, <1>3, <1>4, FramedRest
<1>7. Numbered(t, Len(got[e]), sent[p]) BY <1>2, <1>3, <1>4, <1>5, NumberedRest
<1>8. \A k \in 1 .. Len(t) : t[k].f.type = "event" BY <1>2, <1>3, <1>4, EventsFollow
<1> HIDE DEF t
<1>9. AuthFirst(t, AuthType(p)) BY <1>8 DEF AuthFirst
<1>10. Direction(p)'
  <2>1. got'[Peer(p)] = got[e] /\ sent'[p] = sent[p] BY <1>1
  <2> QED BY <1>1, <1>2, <1>3, <1>6, <1>7, <1>9, <2>1, DirectionNext
<1> QED BY <1>3, <1>8, <1>10

\* ServerAuth takes the request, and refuses it or writes the answer.
LEMMA ServerAuthKeeps ==
    ASSUME Encrypted, Inv, ServerAuth
    PROVE  Inv'
<1> DEFINE c == "client"
           w == "server"
           f == Frame(w, "res", 1, FALSE, 0)
           accept == buf[w][1].f.type = "req" /\ role = "good"
<1>1. /\ c \in Ends /\ w \in Ends /\ c # w /\ Peer(c) = w /\ Peer(w) = c
      /\ \A y \in Ends : y = c \/ y = w
  BY TwoEnds DEF Ends
<1>2. /\ phase[w] = "wait" /\ Take(w) /\ dec' = [dec EXCEPT ![w] = Next1(@)]
      /\ UNCHANGED <<samekey, sent, got>>
      /\ \/ /\ Send(w, [f EXCEPT !.nonce = enc[w]])
            /\ enc' = [enc EXCEPT ![w] = Next1(enc[w])]
            /\ phase' = [phase EXCEPT ![w] = "answer"]
         \/ phase' = [phase EXCEPT ![w] = "refused"] /\ UNCHANGED <<out, enc>>
  BY DEF ServerAuth, Answer
<1>3. TypeOK /\ Direction(c) /\ Direction(w) /\ Waiting(c) /\ Waiting(w) /\ Waits(w)
  BY <1>1, <1>2 DEF Inv, Waits
<1>4. Stream(w) = <<>> /\ enc[w] = Default /\ phase[c] # "up" BY <1>2 DEF Inv, NotAnswered
<1>5. f \in FrameOf /\ f.type = "res" /\ [f EXCEPT !.nonce = enc[w]] = f
  <2>1. f \in FrameOf /\ f.type = "res" /\ f.nonce = enc[w] BY <1>1, <1>3, <1>4, AuthFrame
  <2>2. f = [type |-> f.type, v |-> f.v, nonce |-> f.nonce, plain |-> f.plain,
             cells |-> f.cells, len |-> f.len]
    <3> HIDE DEF f
    <3> QED BY <2>1 DEF FrameOf
  <2>3. ASSUME NEW a, NEW b, NEW x, NEW y, NEW z, NEW l
        PROVE  LET r == [type |-> a, v |-> b, nonce |-> x, plain |-> y, cells |-> z, len |-> l]
               IN  [r EXCEPT !.nonce = x] = r
    OBVIOUS
  <2> HIDE DEF f
  <2>4. [f EXCEPT !.nonce = f.nonce] = f BY <2>2, <2>3, Zenon
  <2> QED BY <2>1, <2>4
<1> HIDE DEF f
<1>6. out'[c] = out[c]
  BY <1>1, <1>2, <1>3 DEF Send, TypeOK
<1>7. /\ Stream(c) # <<>> /\ buf' \in [Ends -> Seq(CellOf)] /\ buf'[c] = buf[c] /\ Direction(c)'
      /\ \A k \in 1 .. Len(Stream(c)') : Stream(c)'[k].f.type = "event"
  BY <1>1, <1>2, <1>3, <1>6, TakeAuth
<1>8. phase[c] # "start" BY <1>7 DEF Inv, NotRequested
<1>9. /\ dec[w] = Default /\ got[w] = <<>> /\ sent[w] = 0
  BY <1>3 DEF Waiting
<1>10. dec' \in [Ends -> Nonces] /\ dec'[c] = dec[c]
  <2>1. Next1(dec[w]) \in Nonces BY <1>1, <1>3, NextNonce DEF TypeOK
  <2> QED BY <1>1, <1>2, <1>3, <2>1 DEF TypeOK
<1>11. CASE /\ Send(w, [f EXCEPT !.nonce = enc[w]])
            /\ enc' = [enc EXCEPT ![w] = Next1(enc[w])]
            /\ phase' = [phase EXCEPT ![w] = "answer"]
  <2>1. Send(w, f) BY <1>5, <1>11
  <2>2. out' \in [Ends -> Seq(CellOf)] /\ Stream(w)' = <<>> \o Cells(f)
    <3>1. Peer(w) = c /\ w \in Ends /\ buf'[Peer(w)] = buf[Peer(w)] BY <1>1, <1>7
    <3>2. out' \in [Ends -> Seq(CellOf)] /\ Stream(w)' = Stream(w) \o Cells(f)
      BY <1>3, <1>5, <2>1, <3>1, SendStream
    <3> QED BY <1>4, <3>2
  <2>3. phase'[w] = "answer" /\ phase'[c] = phase[c] BY <1>1, <1>3, <1>11 DEF TypeOK
  <2>4. TypeOK'
    <3>1. Next1(enc[w]) \in Nonces BY <1>1, <1>3, NextNonce DEF TypeOK
    <3>2. enc' \in [Ends -> Nonces] BY <1>3, <1>11, <3>1 DEF TypeOK
    <3>3. phase' \in [Ends -> Phases] BY <1>3, <1>11 DEF TypeOK, Phases
    <3> QED BY <1>2, <1>3, <1>7, <1>10, <2>2, <3>2, <3>3 DEF TypeOK
  <2>5. Direction(w)'
    <3>1. got[c] \in Seq(Nat) /\ Len(got[c]) \in Nat BY <1>1, <1>3, StreamTyped
    <3>2. Len(got[c]) <= sent[w] /\ \A k \in 1 .. Len(got[c]) : got[c][k] = k
      BY <1>1, <1>3 DEF Direction
    <3>3. Len(got[c]) >= 0 BY <3>1
    <3>4. /\ Framed(<<>> \o Cells(f)) /\ Numbered(<<>> \o Cells(f), Len(got[c]), 0)
          /\ AuthFirst(<<>> \o Cells(f), "res")
      BY <1>5, <3>1, <3>3, OnlyAuth
    <3>5. got'[Peer(w)] = got[c] /\ sent'[w] = 0 /\ AuthType(w) = "res" BY <1>1, <1>2, <1>9 DEF AuthType
    <3> QED BY <1>1, <1>9, <2>2, <3>2, <3>4, <3>5, DirectionNext
  <2>6. Stream(w)' # <<>> /\ Stream(w)'[1].f.type # "event"
    <3>1. <<>> \o Cells(f) # <<>> /\ (<<>> \o Cells(f))[1].f.type # "event" BY <1>5, OnlyAuth
    <3> QED BY <2>2, <3>1
  <2>7. Waiting(c)' BY <1>1, <1>2, <1>3, <1>10, <2>3, <2>6 DEF Waiting, Waits
  <2>8. Waiting(w)' BY <2>3 DEF Waiting, Waits
  <2>9. Authenticated(c)'
    <3>1. phase[c] # "answer" BY DEF Inv, NotAnswered
    <3> QED BY <1>4, <2>3, <3>1 DEF Authenticated
  <2>10. Authenticated(w)' BY <1>1, <1>7, <2>3 DEF Authenticated
  <2>11. NotRequested' BY <1>8, <2>3 DEF NotRequested
  <2>12. NotAnswered' BY <1>2, <1>9, <2>3, <2>6 DEF Inv, NotAnswered
  <2>13. NoDecryptError' BY <1>1, <1>2, <2>3 DEF Inv, NoDecryptError
  <2> QED BY <1>1, <1>7, <2>4, <2>5, <2>7, <2>8, <2>9, <2>10, <2>11, <2>12, <2>13 DEF Inv
<1>12. CASE phase' = [phase EXCEPT ![w] = "refused"] /\ UNCHANGED <<out, enc>>
  <2>1. phase'[w] = "refused" /\ phase'[c] = phase[c] BY <1>1, <1>3, <1>12 DEF TypeOK
  <2>2. Stream(w)' = Stream(w) BY <1>1, <1>7, <1>12 DEF Stream
  <2>3. TypeOK'
    <3>1. phase' \in [Ends -> Phases] BY <1>3, <1>12 DEF TypeOK, Phases
    <3> QED BY <1>2, <1>3, <1>7, <1>10, <1>12, <3>1 DEF TypeOK
  <2>4. Direction(w)' BY <1>1, <1>2, <1>3, <2>2, SameDirection
  <2>5. Waiting(c)' BY <1>1, <1>2, <1>3, <1>10, <2>1, <2>2 DEF Waiting, Waits
  <2>6. Waiting(w)' BY <2>1 DEF Waiting, Waits
  <2>7. Authenticated(c)' /\ Authenticated(w)'
    <3>1. phase[c] # "answer" BY DEF Inv, NotAnswered
    <3> QED BY <1>4, <2>1, <3>1 DEF Authenticated
  <2>8. NotRequested' BY <1>8, <2>1 DEF NotRequested
  <2>9. NotAnswered' BY <2>1 DEF Inv, NotAnswered
  <2>10. NoDecryptError' BY <1>1, <1>2, <2>1 DEF Inv, NoDecryptError
  <2> QED BY <1>1, <1>7, <2>3, <2>4, <2>5, <2>6, <2>7, <2>8, <2>9, <2>10 DEF Inv
<1> QED BY <1>2, <1>11, <1>12

\* The server changes its nonce once its answer is written.
LEMMA ServerUpdateKeeps ==
    ASSUME Inv, ServerUpdate
    PROVE  Inv'
<1> DEFINE c == "client"
           w == "server"
<1>1. /\ c \in Ends /\ w \in Ends /\ c # w /\ Peer(c) = w /\ Peer(w) = c
      /\ \A y \in Ends : y = c \/ y = w
  BY TwoEnds DEF Ends
<1>2. /\ phase[w] = "answer" /\ phase' = [phase EXCEPT ![w] = "up"]
      /\ enc' = [enc EXCEPT ![w] = NewIv] /\ dec' = [dec EXCEPT ![w] = NewIv]
      /\ UNCHANGED <<samekey, out, buf, sent, got>>
  BY DEF ServerUpdate
<1>3. /\ TypeOK /\ Direction(c) /\ Direction(w) /\ Waiting(c) /\ Waiting(w)
      /\ Authenticated(c) /\ Authenticated(w)
  BY <1>1 DEF Inv
<1>4. Stream(c)' = Stream(c) /\ Stream(w)' = Stream(w) BY <1>2 DEF Stream
<1>5. /\ phase'[w] = "up" /\ phase'[c] = phase[c] /\ enc'[w] = NewIv /\ dec'[w] = NewIv
      /\ enc'[c] = enc[c] /\ dec'[c] = dec[c]
  BY <1>1, <1>2, <1>3 DEF TypeOK
<1>6. TypeOK'
  <2>1. NewIv \in Nonces BY DEF NewIv, Nonces
  <2>2. enc' \in [Ends -> Nonces] /\ dec' \in [Ends -> Nonces] BY <1>2, <1>3, <2>1 DEF TypeOK
  <2>3. phase' \in [Ends -> Phases] BY <1>2, <1>3 DEF TypeOK, Phases
  <2> QED BY <1>2, <1>3, <2>2, <2>3 DEF TypeOK
<1>7. Direction(c)' /\ Direction(w)' BY <1>1, <1>2, <1>3, <1>4, SameDirection
<1>8. Waiting(c)' BY <1>1, <1>2, <1>3, <1>4, <1>5 DEF Waiting, Waits
<1>9. Waiting(w)' BY <1>5 DEF Waiting, Waits
<1>10. Authenticated(c)' BY <1>1, <1>2, <1>3, <1>4, <1>5 DEF Authenticated
<1>11. Authenticated(w)'
  <2>1. sent[w] = 0 /\ got[w] = <<>> BY <1>2 DEF Inv, NotAnswered
  <2>2. Len(got[w]) = 0 BY <2>1
  <2>3. \A k \in 1 .. Len(Stream(c)) : Stream(c)[k].f.type = "event" BY <1>1, <1>2, <1>3 DEF Authenticated
  <2> QED BY <1>1, <1>2, <1>4, <1>5, <2>1, <2>2, <2>3 DEF Authenticated, NewIv
<1>12. NotRequested' BY <1>2, <1>5 DEF Inv, NotRequested
<1>13. NotAnswered' BY <1>2, <1>4, <1>5 DEF Inv, NotAnswered
<1>14. NoDecryptError' BY <1>1, <1>2, <1>5 DEF Inv, NoDecryptError
<1> QED BY <1>1, <1>6, <1>7, <1>8, <1>9, <1>10, <1>11, <1>12, <1>13, <1>14 DEF Inv

\* The client takes the answer and changes its nonce.
LEMMA ClientUpdateKeeps ==
    ASSUME Inv, ClientUpdate
    PROVE  Inv'
<1> DEFINE c == "client"
           w == "server"
<1>1. /\ c \in Ends /\ w \in Ends /\ c # w /\ Peer(c) = w /\ Peer(w) = c
      /\ \A y \in Ends : y = c \/ y = w
  BY TwoEnds DEF Ends
<1>2. /\ phase[c] = "authwait" /\ Take(c) /\ phase' = [phase EXCEPT ![c] = "up"]
      /\ enc' = [enc EXCEPT ![c] = NewIv] /\ dec' = [dec EXCEPT ![c] = NewIv]
      /\ UNCHANGED <<samekey, out, sent, got>>
  BY DEF ClientUpdate
<1>3. /\ TypeOK /\ Direction(c) /\ Direction(w) /\ Waiting(c) /\ Waiting(w)
      /\ Authenticated(c) /\ Authenticated(w) /\ Waits(c)
  BY <1>1, <1>2 DEF Inv, Waits
<1>4. /\ Stream(w) # <<>> /\ buf' \in [Ends -> Seq(CellOf)] /\ buf'[w] = buf[w] /\ Direction(w)'
      /\ \A k \in 1 .. Len(Stream(w)') : Stream(w)'[k].f.type = "event"
  BY <1>1, <1>2, <1>3, TakeAuth
<1>5. Stream(c)' = Stream(c) BY <1>1, <1>2, <1>4 DEF Stream
<1>6. /\ phase'[c] = "up" /\ phase'[w] = phase[w] /\ enc'[c] = NewIv /\ dec'[c] = NewIv
      /\ enc'[w] = enc[w] /\ dec'[w] = dec[w]
  BY <1>1, <1>2, <1>3 DEF TypeOK
<1>7. TypeOK'
  <2>1. NewIv \in Nonces BY DEF NewIv, Nonces
  <2>2. enc' \in [Ends -> Nonces] /\ dec' \in [Ends -> Nonces] BY <1>2, <1>3, <2>1 DEF TypeOK
  <2>3. phase' \in [Ends -> Phases] BY <1>2, <1>3 DEF TypeOK, Phases
  <2> QED BY <1>2, <1>3, <1>4, <2>2, <2>3 DEF TypeOK
<1>8. Direction(c)' BY <1>1, <1>2, <1>3, <1>5, SameDirection
<1>9. Waiting(w)' BY <1>1, <1>2, <1>3, <1>5, <1>6 DEF Waiting, Waits
<1>10. Waiting(c)' BY <1>6 DEF Waiting, Waits
<1>11. Authenticated(w)' BY <1>1, <1>2, <1>3, <1>5, <1>6 DEF Authenticated
<1>12. Authenticated(c)'
  <2>1. sent[c] = 0 /\ got[c] = <<>> BY <1>3 DEF Waiting
  <2>2. Len(got[c]) = 0 BY <2>1
  <2> QED BY <1>1, <1>2, <1>4, <1>6, <2>1, <2>2 DEF Authenticated, NewIv
<1>13. phase[w] # "wait" BY <1>4 DEF Inv, NotAnswered
<1>14. NotRequested' BY <1>6 DEF NotRequested
<1>15. NotAnswered' BY <1>2, <1>6, <1>13 DEF Inv, NotAnswered
<1>16. NoDecryptError' BY <1>1, <1>2, <1>6 DEF Inv, NoDecryptError
<1> QED BY <1>1, <1>4, <1>7, <1>8, <1>9, <1>10, <1>11, <1>12, <1>14, <1>15, <1>16 DEF Inv

\* An authenticated end writes its next event behind its stream.
LEMMA SendEventKeeps ==
    ASSUME Encrypted, Inv, NEW e \in Ends, SendEvent(e)
    PROVE  Inv'
<1> DEFINE p == Peer(e)
<1>1. /\ p \in Ends /\ p # e /\ Peer(p) = e /\ \A y \in Ends : y = e \/ y = p
      /\ "client" \in Ends /\ "server" \in Ends
  BY TwoEnds
<1>2. PICK len \in 0 .. MaxLen, plain \in BOOLEAN :
          Send(e, Frame(e, "event", len, plain, sent[e] + 1))
  BY DEF SendEvent
<1> DEFINE f == Frame(e, "event", len, plain, sent[e] + 1)
           s == Stream(e)
           u == s \o Cells(f)
<1>3. /\ phase[e] = "up" /\ enc' = [enc EXCEPT ![e] = Next1(@)] /\ sent' = [sent EXCEPT ![e] = @ + 1]
      /\ UNCHANGED <<samekey, phase, dec, buf, got>>
  BY DEF SendEvent
<1>4. /\ TypeOK /\ Direction(e) /\ Direction(p) /\ Waiting(e) /\ Waiting(p)
      /\ Authenticated(e) /\ Authenticated(p)
  BY <1>1 DEF Inv
<1>5. enc[e] = [base |-> "iv", n |-> sent[e]] /\ enc[e].base = "iv" /\ enc[e].n = sent[e]
  BY <1>3, <1>4 DEF Authenticated
<1>6. s \in Seq(CellOf) /\ sent[e] \in Nat /\ Len(got[p]) \in Nat BY <1>4, StreamTyped
<1>7. f \in FrameOf /\ f.type = "event" /\ f.v = sent[e] + 1
  <2>1. len \in Nat BY SizesAssumption
  <2>2. sent[e] + 1 \in Nat BY <1>6
  <2>3. Suits("event", enc[e], sent[e] + 1) BY <1>5 DEF Suits
  <2>4. "event" \in {"req", "res", "event"} OBVIOUS
  <2> QED BY <1>4, <2>1, <2>2, <2>3, <2>4, FrameTyped
<1> HIDE DEF f
<1>8. out' \in [Ends -> Seq(CellOf)] /\ out'[p] = out[p] /\ Stream(e)' = u
  BY <1>1, <1>2, <1>3, <1>4, <1>7, SendStream DEF f
<1>9. Stream(p)' = Stream(p) BY <1>1, <1>3, <1>8 DEF Stream
<1>10. /\ enc'[e] = [base |-> "iv", n |-> sent[e] + 1] /\ enc'[p] = enc[p]
       /\ sent'[e] = sent[e] + 1 /\ sent'[p] = sent[p]
  <2>1. enc[e] \in Nonces BY <1>4 DEF TypeOK
  <2>2. Next1(enc[e]) = [base |-> enc[e].base, n |-> enc[e].n + 1] BY <2>1, NextNonce
  <2>3. enc'[e] = Next1(enc[e]) /\ enc'[p] = enc[p] BY <1>1, <1>3, <1>4 DEF TypeOK
  <2>4. sent'[e] = sent[e] + 1 /\ sent'[p] = sent[p] BY <1>1, <1>3, <1>4 DEF TypeOK
  <2> QED BY <1>5, <2>2, <2>3, <2>4
<1>11. TypeOK'
  <2>1. Next1(enc[e]) \in Nonces BY <1>4, NextNonce DEF TypeOK
  <2>2. enc' \in [Ends -> Nonces] BY <1>3, <1>4, <2>1 DEF TypeOK
  <2>3. sent' \in [Ends -> Nat] BY <1>3, <1>4 DEF TypeOK
  <2> QED BY <1>3, <1>4, <1>8, <2>2, <2>3 DEF TypeOK
<1>12. /\ u # <<>> /\ Len(u) = Len(s) + f.cells
       /\ \A k \in 1 .. Len(s) : k \in 1 .. Len(u) /\ u[k] = s[k]
       /\ \A j \in 1 .. f.cells : Len(s) + j \in 1 .. Len(u) /\ u[Len(s) + j] = [f |-> f, i |-> j]
       /\ \A k \in 1 .. Len(u) : k \in 1 .. Len(s) \/ k - Len(s) \in 1 .. f.cells
  BY <1>6, <1>7, LongerStream
<1>13. ASSUME NEW k \in 1 .. Len(u) PROVE (k \in 1 .. Len(s) /\ u[k] = s[k]) \/ u[k].f.type = "event"
  <2>1. CASE k \in 1 .. Len(s) BY <1>12, <2>1
  <2>2. CASE k - Len(s) \in 1 .. f.cells
    <3>1. PICK l \in Nat : l = Len(s) BY <1>6
    <3>2. PICK j \in 1 .. f.cells : j = k - l BY <2>2, <3>1
    <3>3. f.cells \in Nat BY <1>7, FrameCells
    <3>4. l + j = k BY <3>2, <3>3
    <3>5. u[l + j] = [f |-> f, i |-> j] BY <1>12, <3>1
    <3>6. u[k].f = f BY <3>4, <3>5
    <3> QED BY <1>7, <3>6
  <2> QED BY <1>12, <2>1, <2>2
<1>14. /\ Framed(s) /\ Numbered(s, Len(got[p]), sent[e]) /\ AuthFirst(s, AuthType(e))
       /\ Len(got[p]) <= sent[e] /\ \A k \in 1 .. Len(got[p]) : got[p][k] = k
  BY <1>4 DEF Direction
<1>15. Direction(e)'
  <2>1. Framed(u) BY <1>6, <1>7, <1>14, FramedLonger
  <2>2. Numbered(u, Len(got[p]), sent[e] + 1) BY <1>6, <1>7, <1>14, NumberedLonger
  <2>3. AuthFirst(u, AuthType(e)) BY <1>13, <1>14 DEF AuthFirst
  <2>4. Len(got[p]) <= sent[e] + 1
    <3>1. PICK l \in Nat : l = Len(got[p]) BY <1>6
    <3> QED BY <1>6, <1>14, <3>1
  <2>5. got'[Peer(e)] = got[p] BY <1>3
  <2> HIDE DEF u
  <2> QED BY <1>8, <1>10, <1>14, <2>1, <2>2, <2>3, <2>4, <2>5, DirectionNext
<1>16. Direction(p)' BY <1>1, <1>3, <1>4, <1>9, <1>10, SameDirection
<1>17. Waiting(e)' BY <1>3 DEF Waiting, Waits
<1>18. Waits(p) => s # <<>>
  <2>1. CASE e = "client"
    <3>1. p = "server" BY <2>1, TwoEnds
    <3> QED BY <1>3, <2>1, <3>1 DEF Inv, NotAnswered, Waits
  <2>2. CASE e = "server"
    <3>1. p = "client" BY <2>2, TwoEnds
    <3> QED BY <1>3, <2>2, <3>1 DEF Inv, NotAnswered, NotRequested, Waits
  <2> QED BY <2>1, <2>2 DEF Ends
<1> HIDE DEF u
<1>19. Waiting(p)'
  <2>1. ASSUME Waits(p) PROVE u[1].f.type # "event"
    <3>1. s # <<>> /\ s[1].f.type # "event" BY <1>1, <1>4, <1>18, <2>1 DEF Waiting
    <3>2. 1 \in 1 .. Len(s) BY <1>6, <3>1, EmptySeq
    <3> QED BY <1>12, <3>1, <3>2
  <2> QED BY <1>1, <1>3, <1>4, <1>8, <1>10, <2>1 DEF Waiting, Waits
<1>20. Authenticated(p)'
  <2>1. ASSUME phase[p] \in {"answer", "up"}, NEW k \in 1 .. Len(u) PROVE u[k].f.type = "event"
    <3>1. \A i \in 1 .. Len(s) : s[i].f.type = "event" BY <1>1, <1>4, <2>1 DEF Authenticated
    <3> QED BY <1>13, <3>1
  <2>2. phase[p] = "up" => /\ dec[p] = [base |-> "iv", n |-> Len(got[p])]
                           /\ enc[p] = [base |-> "iv", n |-> sent[p]]
    BY <1>4 DEF Authenticated
  <2> QED BY <1>1, <1>3, <1>8, <1>10, <2>1, <2>2 DEF Authenticated
<1>21. Authenticated(e)' BY <1>3, <1>4, <1>9, <1>10 DEF Authenticated
<1>22. NotRequested'
  <2>1. phase["client"] # "start" BY <1>3, <1>18 DEF Inv, NotRequested, Ends
  <2> QED BY <1>3, <2>1 DEF NotRequested
<1>23. NotAnswered'
  <2>1. phase["server"] # "wait" BY <1>3, <1>18 DEF Inv, NotAnswered, Ends
  <2>2. CASE e = "client"
    <3>1. p = "server" BY <2>2, TwoEnds
    <3> QED BY <1>3, <1>9, <1>10, <2>1, <2>2, <3>1 DEF Inv, NotAnswered
  <2>3. CASE e = "server"
    <3>1. p = "client" BY <2>3, TwoEnds
    <3> QED BY <1>3, <1>8, <1>12, <2>1, <2>3, <3>1 DEF Inv, NotAnswered
  <2> QED BY <2>2, <2>3 DEF Ends
<1>24. NoDecryptError' BY <1>3 DEF Inv, NoDecryptError
<1> QED BY <1>1, <1>11, <1>15, <1>16, <1>17, <1>19, <1>20, <1>21, <1>22, <1>23, <1>24 DEF Inv

\* The read loop takes the next event.
LEMMA HandleEventKeeps ==
    ASSUME Inv, NEW e \in Ends, HandleEvent(e)
    PROVE  Inv'
<1> DEFINE p == Peer(e)
           s == Stream(p)
           t == SubSeq(s, s[1].f.cells + 1, Len(s))
           g == got[e]
<1>1. /\ p \in Ends /\ p # e /\ Peer(p) = e /\ \A y \in Ends : y = e \/ y = p
      /\ "client" \in Ends /\ "server" \in Ends
  BY TwoEnds
<1>2. /\ phase[e] = "up" /\ Take(e) /\ got' = [got EXCEPT ![e] = Append(@, buf[e][1].f.v)]
      /\ dec' = [dec EXCEPT ![e] = Next1(@)] /\ UNCHANGED <<samekey, phase, enc, out, sent>>
  BY DEF HandleEvent
<1>3. /\ TypeOK /\ Direction(e) /\ Direction(p) /\ Waiting(e) /\ Waiting(p)
      /\ Authenticated(e) /\ Authenticated(p)
  BY <1>1 DEF Inv
<1>4. /\ Framed(s) /\ Numbered(s, Len(g), sent[p]) /\ AuthFirst(s, AuthType(p))
      /\ Len(g) <= sent[p] /\ \A k \in 1 .. Len(g) : g[k] = k
  BY <1>1, <1>3 DEF Direction
<1>5. /\ s # <<>> /\ buf[e][1] = s[1] /\ buf' \in [Ends -> Seq(CellOf)] /\ buf'[p] = buf[p]
      /\ Stream(p)' = t
  BY <1>2, <1>3, <1>4, TakeStream
<1>6. s \in Seq(CellOf) /\ sent[p] \in Nat /\ g \in Seq(Nat) /\ Len(g) \in Nat
  BY <1>1, <1>3, StreamTyped
<1>7. s[1].f.type = "event"
  <2>1. 1 \in 1 .. Len(s) BY <1>5, <1>6, EmptySeq
  <2> QED BY <1>1, <1>2, <1>3, <2>1 DEF Authenticated
<1>8. s[1].f.v = Len(g) + 1 /\ Len(g) + 1 <= sent[p] /\ Numbered(t, Len(g) + 1, sent[p])
  BY <1>4, <1>5, <1>6, <1>7, NumberedNext
<1>9. Framed(t) BY <1>4, <1>5, <1>6, FramedRest
<1>10. \A k \in 1 .. Len(t) : t[k].f.type = "event" BY <1>4, <1>5, <1>6, EventsFollow
<1> HIDE DEF t
<1>11. AuthFirst(t, AuthType(p)) BY <1>10 DEF AuthFirst
<1>12. Stream(e)' = Stream(e) BY <1>1, <1>2, <1>5 DEF Stream
<1> DEFINE a == Append(g, Len(g) + 1)
<1>13. /\ a \in Seq(Nat) /\ Len(a) = Len(g) + 1 /\ \A k \in 1 .. Len(a) : a[k] = k
  <2>1. PICK l \in Nat : l = Len(g) BY <1>6
  <2>2. /\ a \in Seq(Nat) /\ Len(a) = l + 1 /\ a[l + 1] = l + 1
        /\ \A k \in 1 .. l : a[k] = g[k]
    <3>1. l + 1 \in Nat BY <2>1
    <3> QED BY <1>6, <2>1, <3>1, AppendProperties
  <2>3. ASSUME NEW k \in 1 .. l + 1 PROVE a[k] = k
    <3>1. k \in 1 .. l \/ k = l + 1 OBVIOUS
    <3> QED BY <1>4, <2>1, <2>2, <3>1
  <2> QED BY <2>1, <2>2, <2>3
<1>14. got'[e] = a /\ got'[p] = got[p] /\ got' \in [Ends -> Seq(Nat)]
  <2>1. buf[e][1].f.v = Len(g) + 1 BY <1>5, <1>8
  <2>2. got' = [got EXCEPT ![e] = a] BY <1>2, <2>1
  <2> QED BY <1>1, <1>3, <1>13, <2>2 DEF TypeOK
<1>15. /\ dec'[e] = [base |-> "iv", n |-> Len(g) + 1] /\ dec'[p] = dec[p]
       /\ dec' \in [Ends -> Nonces]
  <2>1. dec[e] \in Nonces BY <1>3 DEF TypeOK
  <2>2. Next1(dec[e]) = [base |-> dec[e].base, n |-> dec[e].n + 1] /\ Next1(dec[e]) \in Nonces
    BY <2>1, NextNonce
  <2>3. dec[e] = [base |-> "iv", n |-> Len(g)] BY <1>2, <1>3 DEF Authenticated
  <2>4. dec[e].base = "iv" /\ dec[e].n = Len(g) BY <2>3
  <2>5. dec'[e] = Next1(dec[e]) /\ dec'[p] = dec[p] BY <1>1, <1>2, <1>3 DEF TypeOK
  <2>6. dec' \in [Ends -> Nonces] BY <1>2, <1>3, <2>2 DEF TypeOK
  <2> QED BY <2>2, <2>4, <2>5, <2>6
<1> HIDE DEF a
<1>16. TypeOK' BY <1>2, <1>3, <1>5, <1>14, <1>15 DEF TypeOK
<1>17. Direction(p)'
  <2>1. got'[Peer(p)] = a /\ sent'[p] = sent[p] BY <1>1, <1>2, <1>14
  <2> QED BY <1>1, <1>5, <1>8, <1>9, <1>11, <1>13, <2>1, DirectionNext
<1>18. Direction(e)' BY <1>2, <1>3, <1>12, <1>14, SameDirection
<1>19. Waiting(e)' BY <1>2 DEF Waiting, Waits
<1>20. Waiting(p)' BY <1>1, <1>2, <1>3, <1>12, <1>14, <1>15 DEF Waiting, Waits
<1>21. Authenticated(p)' BY <1>1, <1>2, <1>3, <1>12, <1>14, <1>15 DEF Authenticated
<1>22. Authenticated(e)'
  <2>1. enc[e] = [base |-> "iv", n |-> sent[e]] BY <1>2, <1>3 DEF Authenticated
  <2> QED BY <1>1, <1>2, <1>5, <1>10, <1>13, <1>14, <1>15, <2>1 DEF Authenticated
<1>23. phase["client"] # "start" /\ phase["server"] # "wait"
  <2>1. phase["server"] # "wait"
    <3>1. CASE e = "client" BY <1>2, <3>1 DEF Inv, NotAnswered
    <3>2. CASE e = "server" BY <1>2, <3>2
    <3> QED BY <3>1, <3>2 DEF Ends
  <2>2. phase["client"] # "start"
    <3>1. CASE e = "client" BY <1>2, <3>1
    <3>2. CASE e = "server" BY <1>2, <3>2 DEF Inv, NotRequested
    <3> QED BY <3>1, <3>2 DEF Ends
  <2> QED BY <2>1, <2>2
<1>24. NotRequested' BY <1>2, <1>23 DEF NotRequested
<1>25. NotAnswered'
  <2>1. CASE e = "client"
    <3>1. p = "server" BY <2>1, TwoEnds
    <3> QED BY <1>2, <1>14, <1>23, <2>1, <3>1 DEF Inv, NotAnswered
  <2>2. CASE e = "server"
    <3>1. p = "client" BY <2>2, TwoEnds
    <3> QED BY <1>2, <1>12, <1>23, <2>2, <3>1 DEF Inv, NotAnswered
  <2> QED BY <2>1, <2>2 DEF Ends
<1>26. NoDecryptError' BY <1>2 DEF Inv, NoDecryptError
<1> QED BY <1>1, <1>16, <1>17, <1>18, <1>19, <1>20, <1>21, <1>22, <1>24, <1>25, <1>26 DEF Inv

-----------------------------------------------------------------------------
(***************************************************************************)
(* The theorems.                                                           *)
(***************************************************************************)

\* Before the first byte.
LEMMA FramingInit ==
    ASSUME Init
    PROVE  Inv
<1>1. /\ "client" \in Ends /\ "server" \in Ends /\ \A e \in Ends : Peer(e) \in Ends
  BY TwoEnds
<1>2. /\ phase["client"] = "start" /\ phase["server"] = "wait"
      /\ \A e \in Ends : /\ phase[e] \in {"start", "wait"} /\ enc[e] = Default /\ dec[e] = Default
                         /\ out[e] = <<>> /\ buf[e] = <<>> /\ sent[e] = 0 /\ got[e] = <<>>
  BY <1>1 DEF Init
<1>3. TypeOK
  <2>1. Default \in Nonces BY DEF Default, Nonces
  <2>2. <<>> \in Seq(CellOf) /\ <<>> \in Seq(Nat) BY EmptySeq
  <2>3. phase \in [Ends -> Phases] BY DEF Init, Phases
  <2> QED BY <2>1, <2>2, <2>3 DEF Init, TypeOK
<1>4. <<>> \o <<>> = <<>> /\ Len(<<>>) = 0 BY EmptySeq, ConcatEmptySeq
<1>5. \A e \in Ends : Stream(e) = <<>> BY <1>1, <1>2, <1>4 DEF Stream
<1>6. ASSUME NEW e \in Ends PROVE Direction(e) /\ Waiting(e) /\ Authenticated(e)
  <2>1. Stream(e) = <<>> /\ Stream(Peer(e)) = <<>> /\ got[Peer(e)] = <<>> /\ sent[e] = 0
    BY <1>1, <1>2, <1>5
  <2>2. Framed(<<>>) BY <1>4 DEF Framed
  <2>3. Numbered(<<>>, 0, 0)
    <3>1. Heads(<<>>) = {} BY <1>4 DEF Heads
    <3> QED BY <3>1 DEF Numbered
  <2>4. AuthFirst(<<>>, AuthType(e)) BY <1>4 DEF AuthFirst
  <2>5. Direction(e) BY <1>4, <2>1, <2>2, <2>3, <2>4 DEF Direction
  <2>6. Waiting(e) /\ Authenticated(e) BY <1>2, <2>1 DEF Waiting, Authenticated
  <2> QED BY <2>5, <2>6
<1>7. NotRequested BY <1>1, <1>2, <1>5 DEF NotRequested
<1>8. NotAnswered BY <1>1, <1>2, <1>5 DEF NotAnswered
<1>9. NoDecryptError BY <1>2 DEF NoDecryptError
<1> QED BY <1>3, <1>6, <1>7, <1>8, <1>9 DEF Inv

\* Every step keeps the invariant.
LEMMA FramingNext ==
    ASSUME Encrypted, Inv, [Next]_vars
    PROVE  Inv'
<1>1. CASE ClientAuth BY <1>1, ClientAuthKeeps
<1>2. CASE ServerAuth BY <1>2, ServerAuthKeeps
<1>3. CASE ServerUpdate BY <1>3, ServerUpdateKeeps
<1>4. CASE ClientUpdate BY <1>4, ClientUpdateKeeps
<1>5. ASSUME NEW e \in Ends, Read(e) \/ ReadFails(e) \/ SendEvent(e) \/ AuthWriteFails(e)
      PROVE  Inv'
  <2>1. CASE NeedMore(e) \/ Fill(e) \/ DecryptFails(e) \/ ReadFails(e) \/ AuthWriteFails(e)
    BY <2>1, ReadOn
  <2>2. CASE HandleEvent(e) BY <2>2, HandleEventKeeps
  <2>3. CASE SendEvent(e) BY <2>3, SendEventKeeps
  <2> QED BY <1>5, <2>1, <2>2, <2>3 DEF Read
<1>6. CASE UNCHANGED vars
  <2>1. UNCHANGED <<samekey, phase, enc, dec, sent, got, buf, out>> BY <1>6 DEF vars
  <2>2. \A y \in Ends : Stream(y)' = Stream(y) BY <2>1 DEF Stream
  <2>3. buf' \in [Ends -> Seq(CellOf)] /\ out' \in [Ends -> Seq(CellOf)] BY <2>1 DEF Inv, TypeOK
  <2> QED BY <2>1, <2>2, <2>3, SameStreams
<1>7. CASE Done BY <1>6, <1>7 DEF Done
<1> QED BY <1>1, <1>2, <1>3, <1>4, <1>5, <1>6, <1>7 DEF Next, Auth

\* With a cipher, the two streams are cut into complete frames, each under the
\* nonce its reader will have counted to, throughout ClientAuth, ServerAuth and
\* the read loops.
THEOREM FramingInvariant == Encrypted => (Spec => []Inv)
<1> SUFFICES ASSUME Encrypted PROVE Spec => []Inv OBVIOUS
<1>1. Init => Inv BY FramingInit
<1>2. Inv /\ [Next]_vars => Inv' BY FramingNext
<1> QED BY <1>1, <1>2, PTL DEF Spec

\* Decrypt finds the first byte of a frame at the front of read_buffer_
\* whenever ReadEvent calls it, however the bytes arrive.
THEOREM FramesWhole == Encrypted => (Spec => []WholeFrames)
<1> SUFFICES ASSUME Encrypted PROVE Spec => []WholeFrames OBVIOUS
<1>1. ASSUME Inv PROVE WholeFrames
  <2> SUFFICES ASSUME NEW e \in Ends, buf[e] # <<>> PROVE buf[e][1].i = 1
    BY DEF WholeFrames
  <2>1. Peer(e) \in Ends /\ Peer(Peer(e)) = e /\ TypeOK /\ Direction(Peer(e))
    BY <1>1, TwoEnds DEF Inv
  <2>2. /\ Stream(Peer(e)) \in Seq(CellOf) /\ buf[e] \in Seq(CellOf)
        /\ \A i \in 1 .. Len(buf[e]) : i \in 1 .. Len(Stream(Peer(e))) /\ Stream(Peer(e))[i] = buf[e][i]
    BY <2>1, StreamTyped
  <2>3. 1 \in 1 .. Len(buf[e]) BY <2>2, EmptySeq
  <2>4. 1 \in 1 .. Len(Stream(Peer(e))) /\ Stream(Peer(e))[1] = buf[e][1] BY <2>2, <2>3
  <2>5. Stream(Peer(e)) # <<>> BY <2>2, <2>4
  <2>6. Stream(Peer(e))[1].i = 1 BY <2>1, <2>2, <2>5, FirstFrame DEF Direction
  <2> QED BY <2>4, <2>6
<1>2. Spec => []Inv BY FramingInvariant
<1> QED BY <1>1, <1>2, PTL

\* What one end has sent in SendEvent, the other has handled in its read loop,
\* in the same order, or it is still on the way.
THEOREM FramesAccounted == Encrypted => (Spec => []AllAccounted)
<1> SUFFICES ASSUME Encrypted PROVE Spec => []AllAccounted OBVIOUS
<1>1. ASSUME Inv PROVE AllAccounted
  <2> SUFFICES ASSUME NEW e \in Ends
               PROVE  LET cells == buf[e] \o out[Peer(e)]
                          n == Len(got[e])
                      IN  /\ \A k \in 1 .. n : got[e][k] = k
                          /\ n <= sent[Peer(e)]
                          /\ {cells[k].f.v : k \in Heads(cells)} = (n + 1) .. sent[Peer(e)]
                          /\ \A j, k \in Heads(cells) : j < k => cells[j].f.v < cells[k].f.v
    BY DEF AllAccounted
  <2> DEFINE p == Peer(e)
             s == Stream(p)
             n == Len(got[e])
             h == sent[p]
  <2>1. p \in Ends /\ Peer(p) = e /\ TypeOK /\ Direction(p) BY <1>1, TwoEnds DEF Inv
  <2>2. s \in Seq(CellOf) /\ h \in Nat /\ n \in Nat BY <2>1, StreamTyped
  <2>3. Numbered(s, n, h) /\ n <= h /\ \A k \in 1 .. n : got[e][k] = k BY <2>1 DEF Direction
  <2>4. s = buf[e] \o out[p] BY <2>1 DEF Stream
  <2> HIDE DEF s, n, h
  <2>5. \A k \in Heads(s) : n < s[k].f.v /\ s[k].f.v <= h /\ s[k].f.v \in Nat
    <3>1. \A k \in Heads(s) : k \in 1 .. Len(s) BY DEF Heads
    <3> QED BY <2>2, <2>3, <3>1, CellsTyped DEF Numbered
  <2>6. {s[k].f.v : k \in Heads(s)} = (n + 1) .. h
    <3>1. ASSUME NEW v \in Nat, n < v, v <= h PROVE v \in (n + 1) .. h BY <2>2, <3>1
    <3>2. {s[k].f.v : k \in Heads(s)} \subseteq (n + 1) .. h BY <2>5, <3>1
    <3>3. (n + 1) .. h \subseteq {s[k].f.v : k \in Heads(s)} BY <2>3 DEF Numbered
    <3> QED BY <3>2, <3>3
  <2>7. \A j, k \in Heads(s) : j < k => s[j].f.v < s[k].f.v BY <2>3 DEF Numbered
  <2> SUFFICES /\ \A k \in 1 .. n : got[e][k] = k
               /\ n <= h
               /\ {s[k].f.v : k \in Heads(s)} = (n + 1) .. h
               /\ \A j, k \in Heads(s) : j < k => s[j].f.v < s[k].f.v
    BY <2>4, Zenon DEF n, h
  <2> QED BY <2>3, <2>6, <2>7
<1>2. Spec => []Inv BY FramingInvariant
<1> QED BY <1>1, <1>2, PTL

\* Decrypt never fails for two ends with the same key: UpdateNonce takes effect
\* between the same two frames of a direction at both.
THEOREM FramesOpen == Encrypted => (Spec => []NoDecryptError)
<1> SUFFICES ASSUME Encrypted PROVE Spec => []NoDecryptError OBVIOUS
<1>1. Inv => NoDecryptError BY DEF Inv
<1>2. Spec => []Inv BY FramingInvariant
<1> QED BY <1>1, <1>2, PTL
=============================================================================
