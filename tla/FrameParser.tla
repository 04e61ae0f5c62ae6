---------------------------- MODULE FrameParser ----------------------------
(***************************************************************************)
(* wsinspect: the parser that reads the WebSocket messages of one          *)
(* direction of a proxied connection as its bytes pass by.  The connection *)
(* delivers the stream in chunks of any size; Feed works through a chunk   *)
(* one header or one run of payload at a time.                             *)
(*                                                                         *)
(* A frame is described by what its header says.  The payload byte at      *)
(* offset o of frame i is <<i, o>>; unmasking it with the wrong byte of    *)
(* the mask makes it Garbled.  What a payload inflates to is external      *)
(* (compress/flate): twice its length, or an error if the frame is corrupt.*)
(***************************************************************************)
EXTENDS Integers, Sequences, SequencesExt, FiniteSetsExt

CONSTANTS
  Streams,        \* sequences of frames that a peer may send
  Deflate,        \* permessage-deflate: "none", "fresh" or "takeover"
  Limit,          \* bytes kept of each message
  MaxCompressed,  \* maxCompressedMessage
  MaxInflated,    \* maxInflated
  MaxChunk        \* bound: bytes in one Read

ControlOp == {"close", "ping", "unknown control"}
DataOp == {"text", "binary"}
Opcode == ControlOp \cup DataOp \cup {"continuation", "unknown data"}

(* What a header says.                                                     *)
FrameHeader ==
  [op : Opcode, fin : BOOLEAN, rsv1 : BOOLEAN, reserved : BOOLEAN,
   ext : {0, 2, 8}, masked : BOOLEAN, len : Nat, corrupt : BOOLEAN]

ASSUME ParserAssumption ==
  /\ Streams \subseteq Seq(FrameHeader)
  /\ Deflate \subseteq {"none", "fresh", "takeover"}
  /\ Limit \in Nat /\ MaxCompressed \in Nat /\ MaxInflated \in Nat
  /\ MaxChunk \in Nat \ {0}

Garbled == <<0, 0>>

VARIABLES
  stream,  \* what the peer sends
  deflate, \* what was negotiated
  pos,      \* the next byte: its frame, and its offset from the frame's start
  buf,     \* bytes of the chunk still to be parsed
  parser,  \* the parser
  broken,  \* inflater.broken
  out,     \* the messages reported
  protocolErrors   \* the protocolErrors reported

fpVars == <<stream, deflate, pos, buf, parser, broken, out, protocolErrors>>

(* A parser in its zero state.                                             *)
newParser ==
  [headerLen |-> 0, inFrame |-> FALSE, remaining |-> 0, opcode |-> "text",
   fin |-> FALSE, masked |-> FALSE, maskPos |-> 0, control |-> <<>>,
   inMessage |-> FALSE, msgOpcode |-> "text", compressed |-> FALSE,
   payload |-> <<>>, size |-> 0, truncated |-> FALSE, overflow |-> FALSE,
   corrupt |-> FALSE, err |-> FALSE]

FpInit ==
  /\ stream \in Streams /\ deflate \in Deflate
  /\ pos = <<1, 0>> /\ buf = 0 /\ parser = newParser /\ broken = FALSE
  /\ out = <<>> /\ protocolErrors = 0

-----------------------------------------------------------------------------
(* headerSize: two bytes, the extended length, the mask.                   *)
headerSize(f) == 2 + f.ext + (IF f.masked THEN 4 ELSE 0)

FrameSize(f) == headerSize(f) + f.len

(* The bytes of the first n frames, and those still to come.               *)
Through(n) ==
  LET sum[k \in 0 .. n] == IF k = 0 THEN 0 ELSE sum[k - 1] + FrameSize(stream[k])
  IN sum[n]
Rest(i, o) == Through(Len(stream)) - Through(i - 1) - o

(* The connection delivers a chunk; after an error it is not parsed.       *)
Chunk(n) ==
  /\ buf = 0 /\ pos[1] <= Len(stream) /\ ~parser.err
  /\ n <= Rest(pos[1], pos[2]) /\ buf' = n
  /\ UNCHANGED <<stream, deflate, pos, parser, broken, out, protocolErrors>>

(* n bytes further on.                                                     *)
Consumed(n) ==
  LET o == pos[2] + n IN
  pos' = IF o = FrameSize(stream[pos[1]]) THEN <<pos[1] + 1, 0>> ELSE <<pos[1], o>>

-----------------------------------------------------------------------------
(* endFrame, with the parser p as the frame left it.                       *)
Message(op, comp, undec, bytes, size, trunc) ==
  [opcode |-> op, compressed |-> comp, undecoded |-> undec, payload |-> bytes,
   size |-> size, truncated |-> trunc]

Fails(p) == \/ p.overflow \/ broken \/ p.corrupt
            \/ 2 * Len(p.payload) > MaxInflated

endFrame(p) ==
  /\ parser' = [p EXCEPT !.inFrame = FALSE,
                         !.inMessage = IF p.opcode \in ControlOp THEN @ ELSE @ /\ ~p.fin]
  /\ CASE p.opcode \in ControlOp ->
            /\ out' = Append(out, Message(p.opcode, FALSE, FALSE, p.control,
                                          Len(p.control), FALSE))
            /\ UNCHANGED broken
       [] p.opcode \notin ControlOp /\ ~p.fin -> UNCHANGED <<out, broken>>
       [] p.opcode \notin ControlOp /\ p.fin /\ ~p.compressed ->
            /\ out' = Append(out, Message(p.msgOpcode, FALSE, FALSE, p.payload,
                                          p.size, p.truncated))
            /\ UNCHANGED broken
       [] p.opcode \notin ControlOp /\ p.fin /\ p.compressed ->
            IF Fails(p)
            THEN /\ out' = Append(out, Message(p.msgOpcode, TRUE, TRUE, <<>>,
                                               Len(p.payload), FALSE))
                 /\ broken' = (broken \/ deflate = "takeover")
            ELSE /\ out' = Append(out, Message(p.msgOpcode, TRUE, FALSE, p.payload,
                                   2 * Len(p.payload), 2 * Len(p.payload) > Limit))
                 /\ UNCHANGED broken

-----------------------------------------------------------------------------
(* readHeader.  What is wrong with a header, given the parser.             *)
Bad(p, f) ==
  \/ f.reserved \/ (f.rsv1 /\ deflate = "none")
  \/ f.op \in ControlOp /\ (~f.fin \/ f.len > 125 \/ f.rsv1 \/ f.op = "unknown control")
  \/ f.op = "continuation" /\ ~p.inMessage
  \/ f.op \in DataOp /\ p.inMessage
  \/ f.op = "unknown data"

(* startMessage, for the first frame of a message; a control frame only    *)
(* empties its own buffer.                                                 *)
Begin(p, f) ==
  LET q == [p EXCEPT !.headerLen = 0, !.inFrame = TRUE, !.remaining = f.len,
                     !.opcode = f.op, !.fin = f.fin, !.masked = f.masked,
                     !.maskPos = 0, !.control = IF f.op \in ControlOp THEN <<>> ELSE @]
  IN IF f.op \notin DataOp THEN q
     ELSE [q EXCEPT !.inMessage = TRUE, !.msgOpcode = f.op, !.compressed = f.rsv1,
                    !.payload = <<>>, !.size = 0, !.truncated = FALSE,
                    !.overflow = FALSE, !.corrupt = FALSE]

(* Part of a header is in the chunk: it is kept for the next one.          *)
PartialHeader ==
  /\ buf > 0 /\ ~parser.inFrame /\ ~parser.err
  /\ parser.headerLen + buf < headerSize(stream[pos[1]])
  /\ parser' = [parser EXCEPT !.headerLen = @ + buf]
  /\ buf' = 0 /\ Consumed(buf)
  /\ UNCHANGED <<stream, deflate, broken, out, protocolErrors>>

(* A mutant: a frame without payload ends with the next byte.              *)
readHeaderEager ==
  LET f == stream[pos[1]]
      n == headerSize(f) - parser.headerLen
  IN /\ buf > 0 /\ ~parser.inFrame /\ ~parser.err /\ buf >= n
     /\ Consumed(n)
     /\ IF Bad(parser, f)
        THEN /\ parser' = [parser EXCEPT !.err = TRUE] /\ buf' = 0
             /\ protocolErrors' = protocolErrors + 1
             /\ UNCHANGED <<broken, out>>
        ELSE /\ buf' = buf - n /\ UNCHANGED protocolErrors
             /\ IF f.len = 0 /\ buf > n THEN endFrame(Begin(parser, f))
                ELSE parser' = Begin(parser, f) /\ UNCHANGED <<broken, out>>
     /\ UNCHANGED <<stream, deflate>>

(* The header is complete: it is an error, which stops the parser and is   *)
(* reported once, or it begins a frame, which an empty payload ends.       *)
readHeader ==
  LET f == stream[pos[1]]
      n == headerSize(f) - parser.headerLen
  IN /\ buf > 0 /\ ~parser.inFrame /\ ~parser.err /\ buf >= n
     /\ Consumed(n)
     /\ IF Bad(parser, f)
        THEN /\ parser' = [parser EXCEPT !.err = TRUE] /\ buf' = 0
             /\ protocolErrors' = protocolErrors + 1
             /\ UNCHANGED <<broken, out>>
        ELSE /\ buf' = buf - n /\ UNCHANGED protocolErrors
             /\ IF f.len = 0 THEN endFrame(Begin(parser, f))
                ELSE parser' = Begin(parser, f) /\ UNCHANGED <<broken, out>>
     /\ UNCHANGED <<stream, deflate>>

-----------------------------------------------------------------------------
(* Payload.  The next n bytes of it, unmasked from the mask's position.    *)
Unmasked(p, n) ==
  LET f == stream[pos[1]]
      first == pos[2] - headerSize(f)
  IN [k \in 1 .. n |->
        IF p.masked /\ (p.maskPos + k - 1) % 4 # (first + k - 1) % 4
        THEN Garbled ELSE <<pos[1], first + k - 1>>]

Kept(p, n) == IF Len(p.payload) + n > Limit THEN Limit - Len(p.payload) ELSE n

consume(p, n) ==
  IF p.opcode \in ControlOp
  THEN [p EXCEPT !.control = @ \o Unmasked(p, n), !.maskPos = @ + n]
  ELSE IF p.compressed
  THEN [p EXCEPT !.maskPos = @ + n, !.corrupt = @ \/ stream[pos[1]].corrupt,
                 !.overflow = @ \/ Len(p.payload) + n > MaxCompressed,
                 !.payload = IF Len(@) + n > MaxCompressed THEN @
                             ELSE @ \o Unmasked(p, n)]
  ELSE [p EXCEPT !.size = @ + n, !.maskPos = @ + n,
                 !.truncated = @ \/ Len(p.payload) + n > Limit,
                 !.payload = @ \o Unmasked(p, Kept(p, n))]

Payload ==
  LET n == Min({buf, parser.remaining})
      p == [consume(parser, n) EXCEPT !.remaining = @ - n]
  IN /\ buf > 0 /\ parser.inFrame
     /\ buf' = buf - n /\ Consumed(n)
     /\ IF p.remaining = 0 THEN endFrame(p)
        ELSE parser' = p /\ UNCHANGED <<broken, out>>
     /\ UNCHANGED <<stream, deflate, protocolErrors>>

FpNext ==
  \/ \E n \in 1 .. MaxChunk : Chunk(n)
  \/ PartialHeader \/ readHeader \/ Payload

-----------------------------------------------------------------------------
(* What the stream says, read frame by frame with all bytes at hand.  Of a *)
(* message that is not complete, the frame it began with (0 if there is    *)
(* none), its bytes, and whether one of its frames is corrupt.             *)
Bytes(i) == [k \in 1 .. stream[i].len |-> <<i, k - 1>>]

Emit(first, bytes, bad) ==
  LET f == stream[first]
      total == Len(bytes)
  IN CASE ~f.rsv1 ->
            Message(f.op, FALSE, FALSE, SubSeq(bytes, 1, Min({Limit, total})),
                    total, total > Limit)
       [] f.rsv1 /\ (bad \/ total > MaxCompressed \/ 2 * total > MaxInflated) ->
            Message(f.op, TRUE, TRUE, <<>>, 0, FALSE)
       [] f.rsv1 /\ ~(bad \/ total > MaxCompressed \/ 2 * total > MaxInflated) ->
            Message(f.op, TRUE, FALSE, bytes, 2 * total, 2 * total > Limit)

ReadFrame(st, i) ==
  LET f == stream[i]
      first == IF st.first = 0 THEN i ELSE st.first
      bytes == st.bytes \o Bytes(i)
      damaged == st.damaged \/ (f.corrupt /\ f.len > 0)
      msg == Emit(first, bytes, damaged \/ st.lost)
  IN IF st.err THEN st
     ELSE IF Bad([inMessage |-> st.first # 0], f) THEN [st EXCEPT !.err = TRUE]
     ELSE IF f.op \in ControlOp
     THEN [st EXCEPT !.msgs = Append(@, Message(f.op, FALSE, FALSE, Bytes(i),
                                                f.len, FALSE))]
     ELSE IF ~f.fin
     THEN [st EXCEPT !.first = first, !.bytes = bytes, !.damaged = damaged]
     ELSE [st EXCEPT !.first = 0, !.bytes = <<>>, !.damaged = FALSE,
                     !.msgs = Append(@, msg),
                     !.lost = @ \/ (msg.undecoded /\ deflate = "takeover")]

Unread == [msgs |-> <<>>, first |-> 0, bytes |-> <<>>, damaged |-> FALSE,
           lost |-> FALSE, err |-> FALSE]

Whole(n) ==
  LET read[k \in 0 .. n] == IF k = 0 THEN Unread ELSE ReadFrame(read[k - 1], k)
  IN read[n]

(* The size of a message that was not decoded is left open: it is what had *)
(* been kept of it.                                                        *)
Shape(m) == IF m.undecoded THEN [m EXCEPT !.size = 0] ELSE m

(* However the connection cuts the stream into chunks, the parser reports  *)
(* exactly the messages the stream holds, unmasked, cut at the limit and   *)
(* with their full size, and stops at the first protocol error with one    *)
(* report of it.                                                           *)
ParsesTheStream ==
  pos[2] = 0 \/ parser.err =>
    LET ref == Whole(IF parser.err /\ pos[2] > 0 THEN pos[1] ELSE pos[1] - 1) IN
    /\ [i \in DOMAIN out |-> Shape(out[i])] = ref.msgs
    /\ parser.err = ref.err /\ protocolErrors = (IF ref.err THEN 1 ELSE 0)
=============================================================================
