----------------------------- MODULE HttpMessage -----------------------------
(***************************************************************************)
(* What the bytes of an http packet and of a websocket frame mean to       *)
(* src/proto/http: request.cpp, response.cpp, header.cpp, body.cpp,        *)
(* utils.cpp and frame.cpp.  A byte is a number.  The text of a start line *)
(* or of a header line is one number above 255: it is read only once its   *)
(* line is complete, so where it is cut makes no difference.               *)
(***************************************************************************)
EXTENDS Integers, Sequences, FiniteSets, FiniteSetsExt

CONSTANT ChunkLimit  \* a chunk of this size or more is refused: 1048576

LF == 10
CR == 13
Digit(d) == 48 + d

StartLine == 1000  \* a request or status line that can be parsed
BadLine == 1001    \* one that cannot
OtherHead == 1002  \* a header of no interest here
BadHead == 1003    \* a header line without a name
ChunkedHead == 1004
LengthHead(n) == 1100 + n
Lengths(heads) == {h - 1100 : h \in {i \in heads : i >= 1100}}

From(b, pos) == SubSeq(b, pos + 1, Len(b))

-----------------------------------------------------------------------------
(* Start line and headers.                                                 *)

\* How many bytes the first line has, 0 if it is not complete.
FindLineEnd(b) ==
    LET crs == {i \in 1 .. Len(b) - 1 : b[i] = CR}
    IN  IF crs # {} /\ b[Min(crs) + 1] = LF THEN Min(crs) + 1 ELSE 0

\* Two overrides, of request and response; the line's parts have no other use.
ParseStartLine(b) ==
    LET n == FindLineEnd(b) IN IF n > 0 /\ b[1] # StartLine THEN -1 ELSE n

\* Line by line, up to the empty one: bytes used (-1: bad), headers, all read.
ParseHeader(b) ==
    LET lines[pos \in Nat] ==
          LET n == FindLineEnd(From(b, pos))
          IN  IF n = 0 THEN [used |-> pos, heads |-> {}, parsed |-> FALSE]
              ELSE IF n = 2 THEN [used |-> pos + 2, heads |-> {}, parsed |-> TRUE]
              ELSE IF b[pos + 1] = BadHead THEN [used |-> -1, heads |-> {}, parsed |-> FALSE]
              ELSE [lines[pos + n] EXCEPT !.heads = @ \cup {b[pos + 1]}]
    IN  lines[0]

-----------------------------------------------------------------------------
(* Bodies.  A packet under construction is a record.                       *)

Packets == [status : STRING, heads : SUBSET Nat, chunked : BOOLEAN,
            expected : Nat, chunk : Nat, data : Seq(Nat)]

NewPacket == [status |-> "line", heads |-> {}, chunked |-> FALSE, expected |-> 0,
              chunk |-> 0, data |-> <<>>]

\* Mutant: the body is finished when the first bytes of it are there.
ParseByLengthShort(p, b) ==
    LET n == Min({p.expected - Len(p.data), Len(b)})
    IN  [pk |-> [p EXCEPT !.data = @ \o SubSeq(b, 1, n),
                          !.status = IF n > 0 THEN "finished" ELSE @],
         used |-> n]

ParseByLength(p, b) ==
    LET n == Min({p.expected - Len(p.data), Len(b)})
    IN  [pk |-> [p EXCEPT !.data = @ \o SubSeq(b, 1, n),
                          !.status = IF Len(p.data) + n = p.expected THEN "finished" ELSE @],
         used |-> n]

HexToDec(c) == IF c \in 48 .. 57 THEN c - 48 ELSE 0

\* The size in front of a chunk.  Bytes that end before the CR end the size too.
SizeLine(b, start) ==
    LET size[pos \in Nat, n \in Nat] ==
          IF pos = Len(b) THEN [end |-> pos, size |-> n, is |-> "size"]
          ELSE IF n >= ChunkLimit THEN [end |-> pos, size |-> n, is |-> "bad"]
          ELSE IF b[pos + 1] # CR THEN size[pos + 1, n * 16 + HexToDec(b[pos + 1])]
          ELSE IF pos + 2 > Len(b) THEN [end |-> pos, size |-> n, is |-> "cut"]
          ELSE [end |-> pos + 2, size |-> n, is |-> IF b[pos + 2] = LF THEN "size" ELSE "bad"]
    IN  size[start, 0]

\* The chunk of size 0 and an empty line end the body.
LastChunkAt(p, b, pos, end) ==
    IF end + 2 > Len(b) THEN [pk |-> p, used |-> pos]
    ELSE IF SubSeq(b, end + 1, end + 2) # <<CR, LF>> THEN [pk |-> p, used |-> -1]
    ELSE [pk |-> [p EXCEPT !.status = "finished"], used |-> end + 2]

\* chunk is the rest of the current chunk with its line end, 0 before a size.
ParseByChunk(packet, b) ==
    LET from[p \in Packets, pos \in Nat] ==
          LET line == SizeLine(b, pos)
              whole == Len(b) - pos >= p.chunk
              n == Min({Len(b) - pos, p.chunk - 2})
          IN  IF pos = Len(b) \/ (p.chunk > 0 /\ ~whole /\ n = 0)
              THEN [pk |-> p, used |-> pos]
              ELSE IF p.chunk > 0
              THEN from[[p EXCEPT !.data = @ \o SubSeq(b, pos + 1, pos + n),
                                  !.chunk = IF whole THEN 0 ELSE @ - n],
                        IF whole THEN pos + p.chunk ELSE pos + n]
              ELSE IF line.is = "bad" THEN [pk |-> p, used |-> -1]
              ELSE IF line.is = "cut" THEN [pk |-> p, used |-> pos]
              ELSE IF line.size = 0 THEN LastChunkAt(p, b, pos, line.end)
              ELSE from[[p EXCEPT !.chunk = line.size + 2], line.end]
    IN  from[packet, 0]

\* With all headers read: a length above 0, or chunks, make a body.
WithBody(p, heads) ==
    LET lengths == Lengths(heads)
        length == IF lengths = {} THEN 0 ELSE Min(lengths)
        chunked == lengths = {} /\ ChunkedHead \in heads
    IN  [p EXCEPT !.heads = heads, !.expected = length, !.chunked = chunked,
                  !.status = IF length > 0 \/ chunked THEN "body" ELSE "finished"]

\* parse: the packet and the bytes used, or -1.  Every stage goes on into the
\* next one when it is done.
Parse(packet, b) ==
    LET from[p \in Packets, pos \in Nat] ==
          LET rest == From(b, pos)
              line == ParseStartLine(rest)
              head == ParseHeader(rest)
              heads == p.heads \cup head.heads
              body == IF p.chunked THEN ParseByChunk(p, rest) ELSE ParseByLength(p, rest)
          IN  CASE p.status = "finished" -> [pk |-> p, used |-> pos]
                [] p.status = "line" ->
                      IF line <= 0 THEN [pk |-> p, used |-> line]
                      ELSE from[[p EXCEPT !.status = "header"], line]
                [] p.status = "header" ->
                      IF head.used = -1 THEN [pk |-> p, used |-> -1]
                      ELSE IF ~head.parsed
                      THEN [pk |-> [p EXCEPT !.heads = heads], used |-> pos + head.used]
                      ELSE from[WithBody(p, heads), pos + head.used]
                [] p.status = "body" ->
                      [body EXCEPT !.used = IF @ = -1 THEN -1 ELSE pos + @]
    IN  from[packet, 0]

-----------------------------------------------------------------------------
(* What is sent.  A message is its headers and its data.                   *)

HeadLine(h) == <<h, CR, LF>>

SerializeHeader(heads) ==
    FoldSet(LAMBDA h, s : HeadLine(h) \o s, <<CR, LF>>, heads)

\* A chunked body is written as one chunk.
SerializeBody(m) ==
    IF ChunkedHead \in m.heads
    THEN <<Digit(Len(m.data)), CR, LF>> \o m.data \o <<CR, LF>>
    ELSE m.data

Serialize(m) == <<StartLine, CR, LF>> \o SerializeHeader(m.heads) \o SerializeBody(m)

\* The chunk that ends a body is up to the sender.
LastChunk(m) == IF ChunkedHead \in m.heads THEN <<Digit(0), CR, LF, CR, LF>> ELSE <<>>

-----------------------------------------------------------------------------
(* Websocket frames.                                                       *)

WsText == 1
WsClose == 8
WsPing == 9
WsPong == 10
WsEnd == 255

NewFrame == [unpacked |-> FALSE, code |-> WsEnd, length |-> 0, key |-> <<>>]

\* Lengths up to 65535; fin is always set here.
PackHeader(code, length, key) ==
    LET mask == IF Len(key) = 4 THEN 128 ELSE 0
    IN  <<128 + code, mask + Min({length, 126})>>
        \o (IF length < 126 THEN <<>> ELSE <<length \div 256, length % 256>>)
        \o (IF Len(key) = 4 THEN key ELSE <<>>)

\* The frame and the bytes used, none if the header is not complete.  The
\* length is taken from four bits, so a longer one never shows.
UnpackHeader(f, b) ==
    LET masked == b[2] >= 128
        need == 2 + (IF masked THEN 4 ELSE 0)
    IN  IF Len(b) < 2 \/ Len(b) < need THEN [frame |-> f, used |-> 0]
        ELSE [frame |-> [unpacked |-> TRUE, code |-> b[1] % 16, length |-> b[2] % 16,
                         key |-> IF masked THEN SubSeq(b, 3, 6) ELSE f.key],
              used |-> need]

\* The exclusive or of two bytes.
Xor(m, n) == SumSet({2^i : i \in {j \in 0 .. 7 : (m \div 2^j) % 2 # (n \div 2^j) % 2}})

MaskPayload(key, b) ==
    IF Len(key) = 4 THEN [i \in DOMAIN b |-> Xor(b[i], key[((i - 1) % 4) + 1])] ELSE b

\* reset: the flag stays.
ResetFrame(f) == [NewFrame EXCEPT !.unpacked = f.unpacked]
=============================================================================
