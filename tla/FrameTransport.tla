--------------------------- MODULE FrameTransport ---------------------------
(***************************************************************************)
(* The client's side of one TCP connection: the frame decoder              *)
(* (cubic-protocol/src/frame.rs, varint.rs), the compression and cipher    *)
(* state (cubic-network/src/transforms.rs) and the connection that joins   *)
(* them (connection.rs).  The module holds the operators; Login.tla runs   *)
(* them against a server.                                                  *)
(*                                                                         *)
(* A byte on the wire is <<n, i, k>>: byte i of the n-th frame the server  *)
(* sent, enciphered at position k of the key stream (0: in clear).  After  *)
(* decryption it is <<n, i>>; a byte deciphered at the wrong position is   *)
(* Noise.  A frame is described by [size, format]: its size decides how    *)
(* many bytes its length prefix and its body take, its format says whether *)
(* its body is plain, carries a zero "uncompressed" marker, is deflated,   *)
(* or is one that a correct server never sends.                            *)
(***************************************************************************)
EXTENDS Integers, Sequences

CONSTANTS
    Threshold,      \* compression threshold the server chooses, in body bytes
    MaxBuffered,    \* FrameLimits::max_buffered_bytes
    ReadSize        \* READ_BUFFER_SIZE: the most one socket read returns

\* FrameLimits::new wants room for a frame of the largest size with its prefix, and both
\* users of a connection leave a whole read beyond it: what stays incomplete is at most
\* three bytes of the largest frame here.
ASSUME TransportAssumption ==
    /\ Threshold \in Nat \ {0} /\ ReadSize \in Nat /\ MaxBuffered \in Nat
    /\ MaxBuffered >= 3 + ReadSize

Noise == <<0, 0>>
NeedMore == 0       \* frames are numbered from 1
Malformed == -1

(* The decoder, the two cipher states and the threshold of a fresh         *)
(* connection; decryptor is the next key-stream position, 0 while off.     *)
NewConnection ==
    [buffer |-> <<>>, decryptor |-> 0, encryptor |-> FALSE, threshold |-> 0]

(* A length below 128 takes a one-byte VarInt, a larger one two bytes;     *)
(* here size 2 stands for the latter.                                      *)
PrefixBytes(frame) == IF frame.size = 1 THEN 1 ELSE 2
FrameBytes(frame) == PrefixBytes(frame) + frame.size

(* encode_frame and the cipher as the sender applies them to frame n.      *)
Enciphered(n, frame, key) ==
    [i \in 1 .. FrameBytes(frame) |-> <<n, i, IF key = 0 THEN 0 ELSE key + i - 1>>]

(* WireTransforms::decrypt_in_place: CFB8 is a stream, so a byte comes out *)
(* right only at its own position, and in clear only while it is off.      *)
Decrypt(conn, bytes) ==
    [i \in DOMAIN bytes |->
        LET expected == IF conn.decryptor = 0 THEN 0 ELSE conn.decryptor + i - 1
        IN  IF bytes[i][3] = expected THEN <<bytes[i][1], bytes[i][2]>> ELSE Noise]

(* FrameDecoder::push refuses to hold more than max_buffered_bytes.        *)
FitsBuffer(conn, bytes) == Len(conn.buffer) + Len(bytes) <= MaxBuffered

(* Mutant: every read deciphers from the start of the key stream again.    *)
ReceivedAnew(conn, bytes) == [conn EXCEPT !.buffer = @ \o Decrypt(conn, bytes)]

(* One turn of the loop in read_next_frame after the socket returned       *)
(* bytes: decrypt, then push, with no await in between.                    *)
Received(conn, bytes) ==
    [conn EXCEPT !.buffer = @ \o Decrypt(conn, bytes),
                 !.decryptor = IF @ = 0 THEN 0 ELSE @ + Len(bytes)]

(* The whole frame is in the buffer; the mutant waits for a byte more.     *)
CompleteLate(conn, frame) == Len(conn.buffer) > FrameBytes(frame)
Complete(conn, frame) == Len(conn.buffer) >= FrameBytes(frame)

(* FrameDecoder::next_frame on the pending bytes: the length prefix may    *)
(* itself be incomplete; a prefix of more than three bytes, a negative or  *)
(* too large length is an error, and so is what noise or a byte from       *)
(* inside a frame is taken for.                                            *)
NextFrame(conn, sent) ==
    IF conn.buffer = <<>> THEN NeedMore
    ELSE LET n == conn.buffer[1][1]
             intact(k) == \A i \in 1 .. k : conn.buffer[i] = <<n, i>>
         IN  IF conn.buffer[1] = Noise THEN Malformed
             ELSE IF Len(conn.buffer) < PrefixBytes(sent[n]) THEN NeedMore
             ELSE IF sent[n].format = "bad_length" \/ ~intact(PrefixBytes(sent[n]))
                  THEN Malformed
             ELSE IF ~Complete(conn, sent[n]) THEN NeedMore
             ELSE IF intact(FrameBytes(sent[n])) THEN n ELSE Malformed

(* Mutant: the offset is reset before it advanced when the frame ends the  *)
(* buffer.                                                                 *)
ConsumedUnlessLast(conn, frame) ==
    [conn EXCEPT !.buffer = IF Len(@) = FrameBytes(frame) THEN @
                            ELSE SubSeq(@, FrameBytes(frame) + 1, Len(@))]

(* The frame leaves the buffer, what follows it stays.                     *)
Consumed(conn, frame) ==
    [conn EXCEPT !.buffer = SubSeq(@, FrameBytes(frame) + 1, Len(@))]

(* WireTransforms::decode_frame_body under the threshold in force now:     *)
(* a body below the threshold must be marked uncompressed, any other must  *)
(* be deflated and inflate to the size it declares.                        *)
BodyDecodes(conn, frame) ==
    IF conn.threshold = 0 THEN frame.format = "plain"
    ELSE \/ frame.format = "marked" /\ frame.size < conn.threshold
         \/ frame.format = "deflated" /\ frame.size >= conn.threshold

(* How a sender that has compression on or off formats a body.             *)
Format(zipped, size) ==
    IF ~zipped THEN "plain" ELSE IF size >= Threshold THEN "deflated" ELSE "marked"

(* enable_encryption sets both directions at once; enable_compression      *)
(* takes effect with the next body decoded, however early it was buffered. *)
EnableInboundEncryption(conn) == [conn EXCEPT !.decryptor = 1]     \* mutant
EnableEncryption(conn) == [conn EXCEPT !.encryptor = TRUE, !.decryptor = 1]
EnableCompression(conn) == [conn EXCEPT !.threshold = Threshold]

(* write_all: encode_outbound compresses, frames and enciphers the packet  *)
(* with the transforms in force; the server sees which were.               *)
Outbound(conn, packet) ==
    [packet |-> packet, enc |-> conn.encryptor, zip |-> conn.threshold # 0]
=============================================================================
