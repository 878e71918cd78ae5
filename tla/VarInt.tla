------------------------------- MODULE VarInt -------------------------------
(***************************************************************************)
(* VarU32 (types.rs), the integer of one to four bytes that stands in      *)
(* front of every packet and every list of properties: seven bits a byte,  *)
(* the low ones first, and bit 7 set while another byte follows.           *)
(***************************************************************************)
EXTENDS Integers, Sequences

Byte == 0..255

\* 268_435_455, the greatest number of four times seven bits.
MAX == 128 * 2097152 - 1

Ok(val, n) == [ok |-> TRUE, val |-> val, n |-> n]

\* The error kinds MalformedPacket and ProtocolError.
Fail == [ok |-> FALSE, kind |-> "Malformed"]

EncodeOffByOne(v) ==
  IF v <= 128 THEN <<v % 128>>
  ELSE IF v < 16384 THEN <<(v % 128) + 128, v \div 128>>
  ELSE IF v < 2097152 THEN <<(v % 128) + 128, ((v \div 128) % 128) + 128, v \div 16384>>
  ELSE <<(v % 128) + 128, ((v \div 128) % 128) + 128, ((v \div 16384) % 128) + 128, v \div 2097152>>

\* `VarU32::encode`, which refuses what is greater than MAX.
VarEncode(v) ==
  IF v < 128 THEN <<v>>
  ELSE IF v < 16384 THEN <<(v % 128) + 128, v \div 128>>
  ELSE IF v < 2097152 THEN <<(v % 128) + 128, ((v \div 128) % 128) + 128, v \div 16384>>
  ELSE <<(v % 128) + 128, ((v \div 128) % 128) + 128, ((v \div 16384) % 128) + 128, v \div 2097152>>

\* The byte at offset n + i, and whether the integer ends with it.
Digit(s, n, i) == s[n + i] % 128

Ends(s, n, i) == n + i <= Len(s) /\ s[n + i] < 128

\* `VarU32::decode` of what follows the first n bytes of s.  The loop has at most
\* four rounds.  It fails if the bytes run out, or the fourth says that another follows.
VarDecode(s, n) ==
  IF Ends(s, n, 1) THEN Ok(Digit(s, n, 1), n + 1)
  ELSE IF Ends(s, n, 2) THEN Ok(Digit(s, n, 1) + 128 * Digit(s, n, 2), n + 2)
  ELSE IF Ends(s, n, 3)
         THEN Ok(Digit(s, n, 1) + 128 * Digit(s, n, 2) + 16384 * Digit(s, n, 3), n + 3)
  ELSE IF Ends(s, n, 4)
         THEN Ok(Digit(s, n, 1) + 128 * Digit(s, n, 2) + 16384 * Digit(s, n, 3)
                   + 2097152 * Digit(s, n, 4), n + 4)
  ELSE Fail
=============================================================================
