----------------------------- MODULE FrameCodec -----------------------------
(***************************************************************************)
(* The frames of the tunnel as the bytes of a WebSocket message            *)
(* (gateway/internal/edge/protocol.go, packages/cli/src/protocol.ts): an   *)
(* eight-byte header of type, flags, stream identifier and length of the   *)
(* payload, the numbers with the highest byte first, then the payload.     *)
(***************************************************************************)
EXTENDS Integers, Sequences

CONSTANT Base   \* number of values of a byte: 256

ASSUME BaseAssumption == Base \in Nat /\ Base >= 2

Byte == 0..Base - 1

HeaderLength == 8

Frame == [type : Byte, flags : Byte, streamId : 0..Base * Base - 1, payload : Seq(Byte)]

\* The two bytes of a 16-bit number; what is above them is cut off.
Hi(n) == (n \div Base) % Base
Lo(n) == n % Base

Num(hi, lo) == hi * Base + lo

\* EncodeFrame and encodeFrame write the same.
Encode(f) ==
  LET len == Len(f.payload)
      top == len \div (Base * Base)
  IN  <<f.type, f.flags, Hi(f.streamId), Lo(f.streamId), Hi(top), Lo(top), Hi(len), Lo(len)>>
        \o f.payload

\* A slip: the low byte first.
StreamIdLittle(buf) == Num(buf[4], buf[3])

StreamId(buf) == Num(buf[3], buf[4])

PayloadLength(buf) == Num(buf[5], buf[6]) * (Base * Base) + Num(buf[7], buf[8])

Decoded(buf, end) ==
  [type |-> buf[1], flags |-> buf[2], streamId |-> StreamId(buf),
   payload |-> SubSeq(buf, HeaderLength + 1, end)]

\* DecodeFrame of the gateway: a message shorter than it says is refused.
GoAccepts(buf) ==
  /\ Len(buf) >= HeaderLength
  /\ Len(buf) >= HeaderLength + PayloadLength(buf)

GoDecode(buf) == Decoded(buf, HeaderLength + PayloadLength(buf))

\* decodeFrame of the CLI: subarray ends where the message ends.
TsAccepts(buf) == Len(buf) >= HeaderLength

TsDecode(buf) ==
  LET end == HeaderLength + PayloadLength(buf)
  IN  Decoded(buf, IF Len(buf) < end THEN Len(buf) ELSE end)

=============================================================================
