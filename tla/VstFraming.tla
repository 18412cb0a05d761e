----------------------------- MODULE VstFraming -----------------------------
(***************************************************************************)
(* VST messages on the wire (src/vst.{h,cpp} and asyncReadCallback of      *)
(* src/VstConnection.cpp): a message is split into chunks, each behind a   *)
(* header; the read loop takes bytes from the socket in whatever portions  *)
(* they arrive, cuts them into chunks again, and assembles the responses.  *)
(*                                                                         *)
(* The server (external) answers a request with a message of the same      *)
(* size, chunked and framed the same way, and sends the chunks of its      *)
(* answers in any order.                                                   *)
(***************************************************************************)
EXTENDS Integers, Sequences, FiniteSets, SequencesExt

CONSTANTS
  Parts,                   \* per message ID: the sizes of its slices, in bytes
  defaultMaxChunkSize      \* vst.h: 30000

Versions == {"VST1_0", "VST1_1"}
minChunkHeaderSize == 16
maxChunkHeaderSize == 24
sizeofLength == 4          \* sizeof(uint32_t)

ASSUME SizesAssumption ==
  defaultMaxChunkSize \in Nat /\ defaultMaxChunkSize > maxChunkHeaderSize

Messages == DOMAIN Parts

ASSUME PartsAssumption == \A id \in Messages : Parts[id] \in Seq(Nat)

VARIABLES
  vstVersion,  \* _vstVersion, set by the constructor
  requested,   \* messages whose request was written
  unsent,      \* chunks the server has still to send
  wire,        \* bytes on their way
  loop,        \* the read loop: "stopped", "reading", "processing"
  buffer,      \* _receiveBuffer
  store,       \* _messageStore
  item,        \* per message: its RequestItem
  response     \* per message: what its callback was given, or <<>>

vars == <<vstVersion, requested, unsent, wire, loop, buffer, store, item, response>>

----------------------------------------------------------------------------
(* Writing.                                                                *)

\* Variant: the chunk header is not counted.
PiecesHeaderless(size) ==
  LET max == defaultMaxChunkSize IN
  [k \in 1 .. (size + max - 1) \div max |-> IF k * max <= size THEN max ELSE size - (k - 1) * max]

\* The data lengths of the chunks that buildChunks cuts a slice into.
Pieces(size) ==
  LET max == defaultMaxChunkSize - maxChunkHeaderSize IN
  [k \in 1 .. (size + max - 1) \div max |-> IF k * max <= size THEN max ELSE size - (k - 1) * max]

\* The sums of the first k lengths, and of all.
Sums(lengths) ==
  LET sum[k \in 0 .. Len(lengths)] == IF k = 0 THEN 0 ELSE sum[k - 1] + lengths[k] IN sum
Total(lengths) == Sums(lengths)[Len(lengths)]

\* buildChunks: the chunks of a message; the data of chunk k are the bytes
\* of the message after position k.from.
Lengths(id) == FlattenSeq([p \in DOMAIN Parts[id] |-> Pieces(Parts[id][p])])
BuildChunks(id) ==
  [k \in DOMAIN Lengths(id) |->
     [messageID |-> id,
      chunkX    |-> IF k = 1 THEN 2 * Len(Lengths(id)) + 1 ELSE 2 * (k - 1),
      from      |-> Sums(Lengths(id))[k - 1],
      size      |-> Lengths(id)[k]]]

\* ChunkHeader::isFirst, index, numberOfChunks
isFirst(chunkX)        == chunkX % 2 = 1
index(chunkX)          == IF isFirst(chunkX) THEN 0 ELSE chunkX \div 2
numberOfChunks(chunkX) == IF isFirst(chunkX) THEN chunkX \div 2 ELSE 0

\* writeHeaderToVST1_0, writeHeaderToVST1_1
HeaderLength(chunkX) ==
  IF vstVersion = "VST1_1" \/ (isFirst(chunkX) /\ numberOfChunks(chunkX) > 1)
  THEN maxChunkHeaderSize ELSE minChunkHeaderSize
ChunkLength(c) == HeaderLength(c.chunkX) + c.size

\* A byte on the wire: of which message, of a field of the chunk header with
\* its value, or of the data with its position in the message.
Byte(id, field, v) == [id |-> id, field |-> field, v |-> v]
WriteChunk(c) ==
  LET byte(field, v) == Byte(c.messageID, field, v) IN
  [k \in 1 .. ChunkLength(c) |->
     CASE k > HeaderLength(c.chunkX) -> byte("data", c.from + k - HeaderLength(c.chunkX))
       [] k \in 1 .. 4               -> byte("chunkLength", ChunkLength(c))
       [] k \in 5 .. 8               -> byte("chunkX", c.chunkX)
       [] k \in 9 .. 16              -> byte("messageID", c.messageID)
       [] OTHER                      -> byte("messageLength", Total(Parts[c.messageID]))]

\* The bytes of a message, in order.
Message(id) == [k \in 1 .. Total(Parts[id]) |-> Byte(id, "data", k)]

----------------------------------------------------------------------------
(* Reading.                                                                *)

\* Variant: the last byte of a chunk must be followed by another one.
isChunkCompleteStrict(b) == Len(b) >= sizeofLength /\ Len(b) > b[1].v

isChunkComplete(b) == Len(b) >= sizeofLength /\ Len(b) >= b[1].v

\* readChunkHeaderVST1_0, readChunkHeaderVST1_1: where the data begins,
ReadHeaderLength(chunkX) ==
  IF vstVersion = "VST1_1" \/ (chunkX % 2 = 1 /\ chunkX \div 2 > 1)
  THEN maxChunkHeaderSize ELSE minChunkHeaderSize

\* and the fields of the chunk that starts the buffer.
ReadChunk(b) ==
  LET length == b[1].v
      chunkX == b[5].v IN
  [chunkLength |-> length, chunkX |-> chunkX, messageID |-> b[9].v,
   data |-> SubSeq(b, ReadHeaderLength(chunkX) + 1, length)]

\* RequestItem: _responseChunks, _responseChunkContent, _responseNumberOfChunks
NewItem == [chunks |-> <<>>, content |-> <<>>, number |-> 0]

\* RequestItem::addChunk
AddChunk(r, c) ==
  [chunks  |-> Append(r.chunks, [chunkX |-> c.chunkX, offset |-> Len(r.content),
                                 length |-> Len(c.data)]),
   content |-> r.content \o c.data,
   number  |-> IF isFirst(c.chunkX) THEN numberOfChunks(c.chunkX) ELSE r.number]

\* Variant: the chunks are combined in the order in which they came.
SortedUnsorted(chunks) == chunks

\* chunkByIndex: the k-th chunk is the one with k - 1 chunks before it.
Before(chunks, i, j) ==
  LET a == index(chunks[i].chunkX)
      b == index(chunks[j].chunkX) IN a < b \/ (a = b /\ i < j)
Sorted(chunks) ==
  [k \in DOMAIN chunks |->
     chunks[CHOOSE j \in DOMAIN chunks :
              Cardinality({i \in DOMAIN chunks : Before(chunks, i, j)}) = k - 1]]

\* RequestItem::assemble
IsAssembled(r) == r.number # 0 /\ Len(r.chunks) >= r.number
Assemble(r) ==
  LET sorted == Sorted(r.chunks) IN
  FlattenSeq([k \in DOMAIN sorted |->
                SubSeq(r.content, sorted[k].offset + 1, sorted[k].offset + sorted[k].length)])

----------------------------------------------------------------------------
Init == /\ vstVersion \in Versions
        /\ requested = {} /\ unsent = {} /\ wire = <<>>
        /\ loop = "stopped" /\ buffer = <<>>
        /\ store = {}
        /\ item = [id \in Messages |-> NewItem]
        /\ response = [id \in Messages |-> <<>>]

\* sendNextRequest: the item is in the store, a read loop runs (a new one
\* has an empty buffer), the request is written.
Request(id) ==
  /\ id \notin requested
  /\ requested' = requested \cup {id}
  /\ store' = store \cup {id}
  /\ unsent' = unsent \cup {BuildChunks(id)[k] : k \in DOMAIN BuildChunks(id)}
  /\ \/ loop = "stopped" /\ loop' = "reading" /\ buffer' = <<>>
     \/ loop # "stopped" /\ UNCHANGED <<loop, buffer>>
  /\ UNCHANGED <<vstVersion, wire, item, response>>

\* The server sends a chunk (external).
SendChunk(c) ==
  /\ unsent' = unsent \ {c}
  /\ wire' = wire \o WriteChunk(c)
  /\ UNCHANGED <<vstVersion, requested, loop, buffer, store, item, response>>

\* async_read returns at least one byte; asyncReadCallback begins.
AsyncRead ==
  /\ loop = "reading"
  /\ \E n \in 1 .. Len(wire) :
       /\ buffer' = buffer \o SubSeq(wire, 1, n)
       /\ wire' = SubSeq(wire, n + 1, Len(wire))
  /\ loop' = "processing"
  /\ UNCHANGED <<vstVersion, requested, unsent, store, item, response>>

\* A turn of the loop of asyncReadCallback, with processChunk.
ProcessChunk ==
  LET c    == ReadChunk(buffer)
      id   == c.messageID
      next == AddChunk(item[id], c) IN
  /\ loop = "processing"
  /\ isChunkComplete(buffer)
  /\ \/ /\ id \notin store
        /\ UNCHANGED <<store, item, response>>
     \/ /\ id \in store
        /\ item' = [item EXCEPT ![id] = next]
        /\ store' = IF IsAssembled(next) THEN store \ {id} ELSE store
        /\ response' = IF IsAssembled(next)
                       THEN [response EXCEPT ![id] = Assemble(next)] ELSE response
  /\ buffer' = SubSeq(buffer, c.chunkLength + 1, Len(buffer))
  /\ UNCHANGED <<vstVersion, requested, unsent, wire, loop>>

\* Variants: the loop stops once its buffer is empty; an incomplete chunk
\* does not survive the callback.
ReadNextBytesStop ==
  /\ loop = "processing"
  /\ ~isChunkComplete(buffer)
  /\ loop' = IF buffer = <<>> THEN "stopped" ELSE "reading"
  /\ UNCHANGED <<vstVersion, requested, unsent, wire, buffer, store, item, response>>
ReadNextBytesFresh ==
  /\ loop = "processing"
  /\ ~isChunkComplete(buffer)
  /\ loop' = IF store = {} THEN "stopped" ELSE "reading"
  /\ buffer' = <<>>
  /\ UNCHANGED <<vstVersion, requested, unsent, wire, store, item, response>>

\* readNextBytes: read on, or stop when nothing is waited for.
ReadNextBytes ==
  /\ loop = "processing"
  /\ ~isChunkComplete(buffer)
  /\ loop' = IF store = {} THEN "stopped" ELSE "reading"
  /\ UNCHANGED <<vstVersion, requested, unsent, wire, buffer, store, item, response>>

ReadLoop == AsyncRead \/ ProcessChunk \/ ReadNextBytes
Server == \E c \in unsent : SendChunk(c)
Next == (\E id \in Messages : Request(id)) \/ Server \/ ReadLoop

Spec == Init /\ [][Next]_vars
FairSpec == Spec /\ WF_vars(ReadLoop) /\ WF_vars(Server)

----------------------------------------------------------------------------
(* Properties.                                                             *)

\* Whatever the portions in which bytes arrive, the order of the chunks and
\* the other responses in between, a response is the message that was sent.
ResponseIntact ==
  \A id \in Messages : response[id] # <<>> => response[id] = Message(id)

\* The receive buffer always starts with a chunk header: reading never loses
\* its place in the stream, also when a chunk arrives in pieces.
StartsWithHeader == buffer # <<>> => buffer[1].field = "chunkLength"

\* A read loop that stops takes nothing with it: its receive buffer is lost,
\* and the next read loop on the socket starts with an empty one.
StopsClean == loop = "stopped" => buffer = <<>> /\ wire = <<>> /\ unsent = {}

\* No chunk, with its header, is longer than the maximum.
ChunksFit ==
  \A c \in unsent : ChunkLength(c) <= defaultMaxChunkSize

\* Every response is delivered.
ResponseDelivered ==
  \A id \in Messages : id \in requested ~> response[id] = Message(id)
=============================================================================
