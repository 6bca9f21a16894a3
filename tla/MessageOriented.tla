--------------------------- MODULE MessageOriented --------------------------
(***************************************************************************)
(* GenericMessageOrientedClientBase: messages over a stream, each a size   *)
(* (VariableLengthSize) followed by its bytes.  One end sends, the other   *)
(* receives; the stream is cut into chunks anywhere.  A byte of a message  *)
(* is known by its position in the stream.  The receiving end is a client  *)
(* that may lose its connection and connect again.                         *)
(***************************************************************************)
EXTENDS VariableLengthSize

CONSTANTS Sizes,           \* sizes of the messages user code sends
          SenderMax,       \* m_max_message_size of the sending end
          ReceiverMax,     \* m_max_message_size of the receiving end
          ChunkSizes,      \* sizes of the chunks the stream delivers
          MaxMessages,     \* bound on the messages of a connection
          MaxConnections,  \* bound on the connections
          CutsMessages     \* may a connection be lost inside a message?

ASSUME MessageOrientedAssumption ==
  /\ Sizes \subseteq Nat /\ SenderMax \in Nat /\ ReceiverMax \in Nat
  /\ ChunkSizes \subseteq Nat \ {0} /\ MaxMessages \in Nat /\ MaxConnections \in Nat
  /\ CutsMessages \in BOOLEAN

VARIABLES
  sent,                      \* the messages of the connection, by size
  connection,                \* connections made
  position,                  \* bytes of the connection on_data_receive has processed
  bytes_left,                \* ... and those of the current chunk it has not
  m_current_message_size,
  m_current_message_offset,
  m_buffer,                  \* for each byte the connection and position it came from
  events                     \* what the receive callback was told on this connection

vars == <<sent, connection, position, bytes_left, m_current_message_size, m_current_message_offset,
          m_buffer, events>>

InitAt(n) == /\ sent = <<>> /\ connection = n /\ position = 0 /\ bytes_left = 0
             /\ m_current_message_size = Decoding /\ m_current_message_offset = 0
             /\ m_buffer = [o \in 0..(ReceiverMax - 1) |-> <<0, 0>>]
             /\ events = <<>>

Init == InitAt(1)

-----------------------------------------------------------------------------
(* The stream *)

\* A number as the set of its bits, and back.
BitsOf(n) == {i \in 0..30 : (n \div 2^i) % 2 = 1}
Number(v) == MapThenSumSet(LAMBDA i : 2^i, v)

SizeBytes == [n \in Sizes |-> bytes(Encoding(BitsOf(n)))]

\* The bytes before the message k, and before its first byte after the size.
FrameStart(k) == MapThenSumSet(LAMBDA j : Len(SizeBytes[sent[j]]) + sent[j], 1..(k - 1))
BodyStart(k) == FrameStart(k) + Len(SizeBytes[sent[k]])

\* The p-th byte of the stream; what the bytes of a message are does not matter.
ByteAt(p) == LET k == CHOOSE j \in 1..Len(sent) : FrameStart(j) < p /\ p <= FrameStart(j + 1)
             IN  IF p <= BodyStart(k) THEN SizeBytes[sent[k]][p - FrameStart(k)] ELSE {0}

-----------------------------------------------------------------------------
(* Sending *)

\* An empty message, and one that is too long, is refused and nothing is sent.
send_data(size) ==
  /\ Len(sent) < MaxMessages
  /\ sent' = IF size = 0 \/ size > SenderMax THEN sent ELSE Append(sent, size)
  /\ UNCHANGED <<connection, position, bytes_left, m_current_message_size,
                 m_current_message_offset, m_buffer, events>>

-----------------------------------------------------------------------------
(* Receiving *)

\* The stream hands over a chunk to on_data_receive ...
Receive(n) ==
  /\ bytes_left = 0 /\ position + n <= FrameStart(Len(sent) + 1)
  /\ bytes_left' = n
  /\ UNCHANGED <<sent, connection, position, m_current_message_size, m_current_message_offset,
                 m_buffer, events>>

current_message_too_large(size) == is_complete(size) /\ Number(value(size)) > ReceiverMax

\* add_bytes for the rest of the chunk; it never looks at more than 9 bytes.
ReadSize ==
  IF is_complete(m_current_message_size)
  THEN [size |-> m_current_message_size, taken |-> 0]
  ELSE add_bytes(m_current_message_size, [i \in 1..Min({bytes_left, 9}) |-> ByteAt(position + i)])

\* What is reported once the size is read.
SizeReports(size) ==
  (IF current_message_too_large(size) THEN <<[status |-> "MESSAGE_TOO_LONG", size |-> Number(value(size))]>>
                                      ELSE <<>>)
  \o (IF fail(size) THEN <<[status |-> "PROTOCOL_ERROR"]>> ELSE <<>>)

\* The message in the buffer, by the stream's bytes it consists of.
Message(buffer, size) ==
  [status |-> "OK", size |-> size, from |-> buffer[0],
   whole |-> \A o \in 0..(size - 1) : buffer[o] = <<buffer[0][1], buffer[0][2] + o>>]

\* One iteration with size as the size read, p the bytes processed and left
\* those of the chunk behind them: copy what belongs to the message, and
\* deliver it when it is complete.
Copy(size, p, left, reports) ==
  LET toCopy == IF is_complete(size) THEN Min({Number(value(size)) - m_current_message_offset, left})
                                     ELSE left
      offset == m_current_message_offset + toCopy
      buffer == IF current_message_too_large(size) THEN m_buffer
                ELSE [o \in DOMAIN m_buffer |->
                       IF o >= m_current_message_offset /\ o < offset
                       THEN <<connection, p + (o - m_current_message_offset) + 1>> ELSE m_buffer[o]]
      done == is_complete(size) /\ offset = Number(value(size))
  IN  /\ m_buffer' = buffer
      /\ position' = p + toCopy /\ bytes_left' = left - toCopy
      /\ m_current_message_size' = IF done THEN Decoding ELSE size
      /\ m_current_message_offset' = IF done THEN 0 ELSE offset
      /\ events' = events \o reports \o
           (IF done /\ ~current_message_too_large(size) THEN <<Message(buffer, offset)>> ELSE <<>>)

\* DeliveredInOrder: a message too long is reported with every chunk.
ReportsEachChunk ==
  /\ bytes_left > 0
  /\ LET size == ReadSize.size
         p == position + ReadSize.taken
         left == bytes_left - ReadSize.taken
         reading == ~is_complete(m_current_message_size)
         reports == SizeReports(size)
     IN  IF reading /\ left = 0
         THEN /\ m_current_message_size' = size
              /\ position' = p /\ bytes_left' = 0
              /\ events' = events \o reports
              /\ UNCHANGED <<m_current_message_offset, m_buffer>>
         ELSE Copy(size, p, left, reports)
  /\ UNCHANGED <<sent, connection>>

\* ... which takes it apart, one message or part of one after the other.
on_data_receive ==
  /\ bytes_left > 0
  /\ LET size == ReadSize.size
         p == position + ReadSize.taken
         left == bytes_left - ReadSize.taken
         reading == ~is_complete(m_current_message_size)
         reports == IF reading THEN SizeReports(size) ELSE <<>>
     IN  IF reading /\ left = 0
         THEN /\ m_current_message_size' = size
              /\ position' = p /\ bytes_left' = 0
              /\ events' = events \o reports
              /\ UNCHANGED <<m_current_message_offset, m_buffer>>
         ELSE Copy(size, p, left, reports)
  /\ UNCHANGED <<sent, connection>>

\* The connection is lost, with what it has not delivered, and a new one made;
\* connect() keeps the state of a message partly read.
connect ==
  /\ bytes_left = 0 /\ connection < MaxConnections
  /\ CutsMessages \/ m_current_message_size = Decoding
  /\ connection' = connection + 1
  /\ sent' = <<>> /\ events' = <<>> /\ position' = 0
  /\ UNCHANGED <<bytes_left, m_current_message_size, m_current_message_offset, m_buffer>>

Next == \/ \E size \in Sizes : send_data(size)
        \/ \E n \in ChunkSizes : Receive(n)
        \/ on_data_receive
        \/ connect

Spec == Init /\ [][Next]_vars

-----------------------------------------------------------------------------
(* Properties *)

\* Every variable has its type, and nothing is written behind the buffer.
TypeOK ==
  /\ sent \in Seq(Sizes \ {0}) /\ connection \in 1..MaxConnections
  /\ position \in Nat /\ bytes_left \in Nat
  /\ m_current_message_size \in [encoded : SUBSET Word, decoded : SUBSET Word]
  /\ m_current_message_offset \in 0..SenderMax
  /\ \A o \in DOMAIN m_buffer : m_buffer[o][1] \in 0..connection /\ m_buffer[o][2] \in Nat
  /\ \A k \in 1..Len(events) : events[k].status \in {"OK", "MESSAGE_TOO_LONG", "PROTOCOL_ERROR"}

\* What the receive callback is to be told of the message k.
Expected(k) == IF sent[k] > ReceiverMax THEN [status |-> "MESSAGE_TOO_LONG", size |-> sent[k]]
               ELSE [status |-> "OK", size |-> sent[k],
                     from |-> <<connection, BodyStart(k) + 1>>, whole |-> TRUE]

\* The receiving end is told of each message once, in order, with exactly its
\* bytes, or with its size if it is too long, wherever the stream is cut into
\* chunks, and as soon as the last byte it waits for is processed.
DeliveredInOrder ==
  LET due == {k \in 1..Len(sent) :
                (IF sent[k] > ReceiverMax THEN BodyStart(k) ELSE FrameStart(k + 1)) <= position}
  IN  TypeOK /\ events = [k \in 1..Cardinality(due) |-> Expected(k)]

\* What is encoded is decoded again, all bits of every size, although the bytes
\* are counted and the end is marked in the word the value is shifted through;
\* the end that starts to receive does it from the size it starts with.
\* Corners are the first and the last bits of bytes and of the value.
Corners == {0, 6, 7, 13, 14, 34, 35, 48, 49, 55}
RoundTrip ==
  sent = <<>> /\ connection = 1 =>
    \A v \in SUBSET Corners :
      LET read == add_bytes(m_current_message_size, bytes(Encoding(v)))
      IN  /\ value(read.size) = v /\ ~fail(read.size)
          /\ read.taken = bytes_count(Encoding(v)) /\ read.size.encoded = Encoding(v).encoded
=============================================================================
