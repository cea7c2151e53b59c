------------------------------- MODULE HttpReader -------------------------------
(***************************************************************************)
(* Request::send (src/support/http_client/httprequest.hpp): reading the    *)
(* response of a server (external) that frames its body by its length, in  *)
(* chunks, or by closing the connection.  The bytes arrive in pieces of    *)
(* any size; the server may also close the connection too early.           *)
(*                                                                         *)
(* Bytes are numbers.  A header is one byte and an empty line: its fields  *)
(* only matter through the framing they announce.  The digits of a size    *)
(* are one byte too: a part of them is never looked at.                    *)
(***************************************************************************)
EXTENDS Naturals, Sequences, FiniteSets, SequencesExt

CONSTANT Bodies     (* the bodies the server may send                      *)

CR == 13
LF == 10
Crlf == <<CR, LF>>
HeaderEnd == Crlf \o Crlf
Digit(n) == 48 + n              (* the digits of a size, as one byte       *)
Framings == {"length", "chunked", "close"}

ASSUME HttpReaderConstants == \A b \in Bodies : b \in Seq(Nat)

VARIABLES
    framing, sent, cuts,        (* what the server sends, and how          *)
    wire,                       (* bytes not yet received                  *)
    connection,                 (* open, cut (too early) or closed         *)
    hrPc,                       (* receive, parse, body, done, threw       *)
    responseData, response,     (* bytes to be parsed; response.body       *)
    statusRead,                 (* whether response.status was set         *)
    chunkSize, removeCrlf       (* expectedChunkSize, removeCrlfAfterChunk *)

serverVars == <<framing, sent, cuts>>
chunkVars == <<chunkSize, removeCrlf>>
hrVars == <<serverVars, wire, connection, hrPc, responseData, response, statusRead, chunkVars>>

(* Where the chunks of a body begin, and its end; none of them is empty.   *)
ChunkCuts(body) ==
    {c \in UNION {[1..k -> 0..Len(body)] : k \in 1..Len(body) + 1} :
        /\ c[1] = 0 /\ c[Len(c)] = Len(body)
        /\ \A i, j \in DOMAIN c : i < j => c[i] < c[j]}

Chunk(data) == <<Digit(Len(data))>> \o Crlf \o data \o Crlf

(* The bytes in front of the i-th chunk: five for each one before it, and  *)
(* the data of these.                                                      *)
ChunkStart(c, i) == c[i] + 5 * (i - 1)

(* The chunks one after the other, and the empty one that ends them.       *)
Chunks(body, c) ==
    LET chunk(i) == Chunk(SubSeq(body, c[i] + 1, c[i + 1]))
        at(p) == CHOOSE i \in 1..Len(c) - 1 : ChunkStart(c, i) < p /\ p <= ChunkStart(c, i + 1)
    IN [p \in 1..ChunkStart(c, Len(c)) |-> chunk(at(p))[p - ChunkStart(c, at(p))]] \o Chunk(<<>>)

Framed(body, how, c) == IF how = "chunked" THEN Chunks(body, c) ELSE body

(* std::search: where the first occurrence of a pattern begins, 0 if none. *)
Search(data, pattern) ==
    LET at == {i \in 1..Len(data) - Len(pattern) + 1 :
                  SubSeq(data, i, i + Len(pattern) - 1) = pattern}
    IN IF at = {} THEN 0 ELSE CHOOSE i \in at : \A j \in at : i <= j

(* hexStringToUint of the bytes before the line end found at end.          *)
LineSize(data, end) == IF end = 1 THEN 0 ELSE data[1] - Digit(0)

Drop(data, n) == SubSeq(data, n + 1, Len(data))
Take(data, n) == SubSeq(data, 1, n)

HrTypeOK ==
    /\ framing \in Framings /\ sent \in Bodies
    /\ framing = "chunked" => cuts \in ChunkCuts(sent)
    /\ wire \in Seq(Nat)
    /\ connection \in {"open", "cut", "closed"}
    /\ hrPc \in {"receive", "parse", "body", "done", "threw"}
    /\ responseData \in Seq(Nat) /\ response \in Seq(Nat)
    /\ statusRead \in BOOLEAN
    /\ chunkSize \in Nat /\ removeCrlf \in BOOLEAN

HrInit ==
    /\ framing \in Framings /\ sent \in Bodies
    /\ cuts \in IF framing = "chunked" THEN ChunkCuts(sent) ELSE {<<0>>}
    /\ wire = <<72>> \o HeaderEnd \o Framed(sent, framing, cuts)
    /\ connection = "open"
    /\ hrPc = "receive"
    /\ responseData = <<>> /\ response = <<>>
    /\ statusRead = FALSE
    /\ chunkSize = 0 /\ removeCrlf = FALSE

--------------------------------------------------------------------------------
(* The connection.                                                         *)

CloseConnection ==
    /\ connection = "open"
    /\ connection' = IF wire = <<>> THEN "closed" ELSE "cut"
    /\ wire' = <<>>
    /\ UNCHANGED <<serverVars, hrPc, responseData, response, statusRead, chunkVars>>

(* receive: what has arrived, nothing once the connection is closed; it    *)
(* waits for ever for a silent server, the timeout of send is not used.    *)
Receive ==
    /\ hrPc = "receive"
    /\ \/ \E n \in 1..Len(wire) :
            /\ responseData' = responseData \o Take(wire, n)
            /\ wire' = Drop(wire, n)
            /\ hrPc' = IF statusRead THEN "body" ELSE "parse"
       \/ /\ connection # "open"
          /\ hrPc' = "done"
          /\ UNCHANGED <<responseData, wire>>
    /\ UNCHANGED <<serverVars, connection, response, statusRead, chunkVars>>

(* A header that is not complete in the first piece ends the reading.      *)
ParseHeader ==
    /\ hrPc = "parse"
    /\ LET end == Search(responseData, HeaderEnd) IN
         IF end = 0
         THEN hrPc' = "done" /\ UNCHANGED <<responseData, statusRead>>
         ELSE /\ responseData' = Drop(responseData, end + 3)
              /\ statusRead' = TRUE
              /\ hrPc' = "body"
    /\ UNCHANGED <<serverVars, wire, connection, response, chunkVars>>

--------------------------------------------------------------------------------
(* The body.                                                               *)

(* Without chunks; the length announced is that of the body sent.          *)
PlainBody ==
    /\ hrPc = "body" /\ framing # "chunked"
    /\ response' = response \o responseData
    /\ responseData' = <<>>
    /\ hrPc' = IF framing = "length" /\ Len(response') >= Len(sent) THEN "done" ELSE "receive"
    /\ UNCHANGED <<serverVars, wire, connection, statusRead, chunkVars>>

(* Faulty variant: the end of a chunk is only noted if more data follow.   *)
ChunkDataForgetful ==
    /\ hrPc = "body" /\ framing = "chunked" /\ chunkSize > 0
    /\ LET n == IF chunkSize < Len(responseData) THEN chunkSize ELSE Len(responseData) IN
         /\ response' = response \o Take(responseData, n)
         /\ responseData' = Drop(responseData, n)
         /\ chunkSize' = chunkSize - n
    /\ removeCrlf' = (removeCrlf \/ (chunkSize' = 0 /\ responseData' # <<>>))
    /\ hrPc' = IF responseData' = <<>> THEN "receive" ELSE "body"
    /\ UNCHANGED <<serverVars, wire, connection, statusRead>>

(* The data of a chunk, as far as they have arrived.                       *)
ChunkData ==
    /\ hrPc = "body" /\ framing = "chunked" /\ chunkSize > 0
    /\ LET n == IF chunkSize < Len(responseData) THEN chunkSize ELSE Len(responseData) IN
         /\ response' = response \o Take(responseData, n)
         /\ responseData' = Drop(responseData, n)
         /\ chunkSize' = chunkSize - n
    /\ removeCrlf' = (removeCrlf \/ chunkSize' = 0)
    /\ hrPc' = IF responseData' = <<>> THEN "receive" ELSE "body"
    /\ UNCHANGED <<serverVars, wire, connection, statusRead>>

(* The line end after a chunk, then the size of the next one; when either  *)
(* has not arrived, what was removed stays removed.                        *)
ChunkLine ==
    /\ hrPc = "body" /\ framing = "chunked" /\ chunkSize = 0
    /\ IF removeCrlf /\ Len(responseData) < 2
       THEN hrPc' = "receive" /\ UNCHANGED <<responseData, chunkVars>>
       ELSE IF removeCrlf /\ Take(responseData, 2) # Crlf
       THEN hrPc' = "threw" /\ UNCHANGED <<responseData, chunkVars>>
       ELSE LET rest == IF removeCrlf THEN Drop(responseData, 2) ELSE responseData
                end == Search(rest, Crlf)
            IN /\ removeCrlf' = FALSE
               /\ IF end = 0
                  THEN hrPc' = "receive" /\ responseData' = rest /\ UNCHANGED chunkSize
                  ELSE /\ chunkSize' = LineSize(rest, end)
                       /\ responseData' = Drop(rest, end + 1)
                       /\ hrPc' = IF chunkSize' = 0 THEN "done" ELSE "body"
    /\ UNCHANGED <<serverVars, wire, connection, response, statusRead>>

HrNext == CloseConnection \/ Receive \/ ParseHeader \/ PlainBody \/ ChunkData \/ ChunkLine

HrSpec == HrInit /\ [][HrNext]_hrVars

--------------------------------------------------------------------------------
(* Properties.                                                             *)

(* However the bytes are split, and whatever bytes the body is made of,    *)
(* what has been read of it is a beginning of what was sent and a response *)
(* that is well formed is never refused; a response with a status whose    *)
(* connection was not cut off is read to its end.                          *)
BodyAsSent ==
    /\ IsPrefix(response, sent) /\ hrPc # "threw"
    /\ (hrPc = "done" /\ statusRead /\ connection # "cut") => response = sent

(* The reader never waits for bytes when it has the whole message: only a  *)
(* body that ends with the connection waits for its end.                   *)
NoWaitAfterEnd ==
    (hrPc = "receive" /\ wire = <<>> /\ connection = "open") => framing = "close"

(* Both of them: a response is read as it was sent, and not beyond.        *)
ResponseAsSent == BodyAsSent /\ NoWaitAfterEnd
================================================================================
