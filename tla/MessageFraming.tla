--------------------------- MODULE MessageFraming ---------------------------
(***************************************************************************)
(* Messages in frames over a byte stream (internal/protocol/protocol.go):  *)
(* one side encodes and writes, the link may change, cut or join what it   *)
(* carries, the other side validates and decodes.                          *)
(*                                                                         *)
(* The RFCOMM and the L2CAP handler differ in their magic number alone:    *)
(* each definition below is that of both.                                  *)
(* A frame is described by what decoding looks at; the data behind or      *)
(* missing at its end is counted in bytes.  Assumed: a checksum never      *)
(* matches another payload, and bytes read at the wrong place are neither  *)
(* a checksum nor a magic number.                                          *)
(***************************************************************************)
EXTENDS Integers, FiniteSets

CONSTANTS
    Messages,   \* messages; Size gives the length of their JSON form
    Garbled,    \* what a payload changed on the way says, if it is JSON
    Size,
    MTUs,       \* MaxMessageSize and arguments of SetMTU
    InTransit   \* bound: frames on the way

Protocols == {"RFCOMM", "L2CAP"}
HeaderSize == 14
FooterSize == 8
FrameOverhead == HeaderSize + FooterSize

FramingAssumption ==
    /\ Size \in [Messages -> Nat \ {0}]
    /\ MTUs \subseteq Nat \ {0}
    /\ Garbled \notin Messages \cup {"none"}
    /\ InTransit \in Nat \ {0}

VARIABLES
    handler,   \* of either side: protocol, mtu, checksum enabled
    encoded,   \* frames that were encoded and not yet written
    wire,      \* data on the way
    stream,    \* the stream's mtu, 0 once it is closed
    retries,   \* MaxRetries of the processors' strategy
    sent,      \* messages encoded, by protocol
    received   \* messages decoded, by protocol, and whether checksums were verified

vars == <<handler, encoded, wire, stream, retries, sent, received>>

Sides == {"encoder", "decoder"}

\* length is that of the payload, declared that of the header; extra bytes
\* follow the frame, or are missing from it.
Frame == [payload : Messages \cup {Garbled}, length : Nat, declared : Nat,
          checksum : Messages \cup {"none"}, magic : Protocols \cup {"none"}, extra : Int]

TypeOK ==
    /\ handler \in [Sides -> [protocol : Protocols, mtu : MTUs, checksum : BOOLEAN]]
    /\ encoded \subseteq Frame /\ wire \subseteq Frame
    /\ stream \in MTUs \cup {0}
    /\ retries \in Nat
    /\ sent \subseteq Protocols \X Messages
    /\ received \subseteq Protocols \X (Messages \cup {Garbled}) \X BOOLEAN

Init ==
    /\ handler \in [Sides -> [protocol : Protocols, mtu : MTUs, checksum : BOOLEAN]]
    /\ encoded = {} /\ wire = {}
    /\ stream \in MTUs
    /\ retries = 3
    /\ sent = {} /\ received = {}

-----------------------------------------------------------------------------
DataLength(f) == f.length + FrameOverhead + f.extra

FitsMTU(m, h) == Size[m] <= h.mtu - FrameOverhead

FrameOf(m, h) ==
    [payload |-> m, length |-> Size[m], declared |-> Size[m],
     checksum |-> IF h.checksum THEN m ELSE "none", magic |-> h.protocol, extra |-> 0]

EncodeMessage(m) ==
    LET h == handler["encoder"] IN
    /\ FitsMTU(m, h)
    /\ Cardinality(encoded \cup wire) < InTransit
    /\ encoded' = encoded \cup {FrameOf(m, h)}
    /\ sent' = sent \cup {<<h.protocol, m>>}
    /\ UNCHANGED <<handler, wire, stream, retries, received>>

\* IsRetryableError: the errors of coding are none of these.
Retryable    == {"timeout", "resource busy", "connection failed", "device busy"}
CodingErrors == {"protocol error", "invalid parameter"}

\* How often the loops of the processor try what goes wrong every time.
Attempts == IF retries > 0 /\ CodingErrors \cap Retryable = {} THEN 1 ELSE retries

\* Without an attempt there is neither data nor an error.
EncodeMessageWithRetry(m) == Attempts > 0 /\ EncodeMessage(m)

\* Whoever encoded it writes it, in any order.
Write(f) ==
    /\ f \in encoded
    /\ encoded' = encoded \ {f}
    /\ wire' = IF DataLength(f) <= stream THEN wire \cup {f} ELSE wire
    /\ UNCHANGED <<handler, stream, retries, sent, received>>

CloseStream ==
    /\ stream # 0
    /\ stream' = 0
    /\ UNCHANGED <<handler, encoded, wire, retries, sent, received>>

\* The link: a payload, a length or a footer is changed, the end is lost, or
\* two frames arrive as one.  Bound: one fault for each frame.
Changed(f) ==
    {[f EXCEPT !.payload = Garbled], [f EXCEPT !.magic = "none"], [f EXCEPT !.extra = -1]}
    \cup {[f EXCEPT !.declared = n] : n \in {0, f.length + 1}}

Unchanged(f) == f.payload # Garbled /\ f.magic # "none" /\ f.extra = 0 /\ f.declared = f.length

LinkChanges(f) ==
    /\ f \in wire /\ Unchanged(f)
    /\ \E g \in Changed(f) : wire' = (wire \ {f}) \cup {g}
    /\ UNCHANGED <<handler, encoded, stream, retries, sent, received>>

LinkLoses(f) ==
    /\ f \in wire
    /\ wire' = wire \ {f}
    /\ UNCHANGED <<handler, encoded, stream, retries, sent, received>>

LinkJoins(f, g) ==
    /\ f \in wire /\ g \in wire \ {f} /\ Unchanged(f) /\ g.extra <= 0
    /\ wire' = (wire \ {f, g}) \cup {[f EXCEPT !.extra = @ + DataLength(g)]}
    /\ UNCHANGED <<handler, encoded, stream, retries, sent, received>>

-----------------------------------------------------------------------------
ValidateMessage(f, h) == DataLength(f) > 0 /\ DataLength(f) <= h.mtu

LengthFits(f) ==
    DataLength(f) >= FrameOverhead /\ f.declared <= DataLength(f) - FrameOverhead

\* The footer is read after as many bytes as the header declares.
decodeFrame(f) == LengthFits(f) /\ f.declared = f.length

\* Mutation: the checksum is not compared.
VerifiesNothing(f, h) == TRUE

VerifiesChecksum(f, h) == h.checksum => f.checksum = f.payload

VerifiesMagic(f, h) == f.magic = h.protocol

DecodeMessage(f, h) == decodeFrame(f) /\ VerifiesChecksum(f, h) /\ VerifiesMagic(f, h)

\* A second frame in the data is dropped.
ProcessMessage(f) ==
    /\ f \in wire
    /\ wire' = wire \ {f}
    /\ LET h == handler["decoder"] IN
       received' = IF Attempts > 0 /\ ValidateMessage(f, h) /\ DecodeMessage(f, h)
                   THEN received \cup {<<h.protocol, f.payload, h.checksum>>}
                   ELSE received
    /\ UNCHANGED <<handler, encoded, stream, retries, sent>>

SetMTU(s, mtu) ==
    /\ handler' = [handler EXCEPT ![s].mtu = mtu]
    /\ UNCHANGED <<encoded, wire, stream, retries, sent, received>>

SetRetryStrategy(n) ==
    /\ retries' = n
    /\ UNCHANGED <<handler, encoded, wire, stream, sent, received>>

Next ==
    \/ CloseStream
    \/ \E m \in Messages : EncodeMessageWithRetry(m)
    \/ \E f \in encoded : Write(f)
    \/ \E f \in wire : LinkChanges(f) \/ LinkLoses(f) \/ ProcessMessage(f)
    \/ \E f, g \in wire : LinkJoins(f, g)
    \/ \E s \in Sides, mtu \in MTUs : SetMTU(s, mtu)
    \/ \E n \in {0, 3} : SetRetryStrategy(n)

Spec == Init /\ [][Next]_vars

-----------------------------------------------------------------------------
\* What a handler that verifies checksums decodes was encoded by a handler of
\* its protocol, whatever the link did to it (protocol.go:177, 303).
DecodedWasEncoded ==
    \A r \in received : r[3] => <<r[1], r[2]>> \in sent
=============================================================================
