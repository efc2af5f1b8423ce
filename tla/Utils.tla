------------------------------- MODULE Utils -------------------------------
(***************************************************************************)
(* base64_encode and base64_decode of src/src/utils.cc.                    *)
(*                                                                         *)
(* A byte array is a sequence of numbers below 256; a base64 text is a     *)
(* sequence of positions in base64_chars, of Pad for '=', and of NoChar    *)
(* for any character that is_base64 rejects.  The loops of the code fill   *)
(* one position after the other; here each position is given by what the   *)
(* loop computes for it, with shifts and masks as quotients and remainders. *)
(***************************************************************************)
EXTENDS Integers, Sequences

Byte   == 0..255
Char   == 0..63         \* positions in base64_chars
Slash  == 63            \* '/', its last character
Pad    == 64
NoChar == 65

-----------------------------------------------------------------------------
(* base64_encode: three bytes to four characters *)

\* Mutant: the low bits of the first byte are not carried over.
Base64Encode_DropsCarry(bytes) ==
    LET n    == Len(bytes)
        b(i) == IF i <= n THEN bytes[i] ELSE 0
    IN  [j \in 1..(4 * ((n + 2) \div 3)) |->
           LET p == 3 * ((j - 1) \div 4)
           IN  CASE (j - 1) % 4 = 0 -> b(p + 1) \div 4
                 [] (j - 1) % 4 = 1 -> b(p + 2) \div 16
                 [] (j - 1) % 4 = 2 -> IF p + 2 > n THEN Pad
                                       ELSE (b(p + 2) % 16) * 4 + b(p + 3) \div 64
                 [] OTHER           -> IF p + 3 > n THEN Pad ELSE b(p + 3) % 64]

\* pos is p, and a byte past the end adds nothing to the character before it.
Base64Encode(bytes) ==
    LET n    == Len(bytes)
        b(i) == IF i <= n THEN bytes[i] ELSE 0
    IN  [j \in 1..(4 * ((n + 2) \div 3)) |->
           LET p == 3 * ((j - 1) \div 4)
           IN  CASE (j - 1) % 4 = 0 -> b(p + 1) \div 4
                 [] (j - 1) % 4 = 1 -> (b(p + 1) % 4) * 16 + b(p + 2) \div 16
                 [] (j - 1) % 4 = 2 -> IF p + 2 > n THEN Pad
                                       ELSE (b(p + 2) % 16) * 4 + b(p + 3) \div 64
                 [] OTHER           -> IF p + 3 > n THEN Pad ELSE b(p + 3) % 64]

-----------------------------------------------------------------------------
(* base64_decode: four characters to three bytes *)

\* How many characters it reads: it stops at the first that is not base64.
DataLength(text) ==
    CHOOSE m \in 0..Len(text) :
        /\ \A i \in 1..m : text[i] \in Char
        /\ m < Len(text) => text[m + 1] \notin Char

\* Mutant: the characters of an incomplete group give as many bytes.
DecodedLength_Tail(m) == 3 * (m \div 4) + (m % 4)

\* The i characters of an incomplete group give i - 1 bytes.
DecodedLength(m) == 3 * (m \div 4) + (IF m % 4 = 0 THEN 0 ELSE (m % 4) - 1)

\* A byte is made of two characters that were both read.
Base64Decode(text) ==
    [k \in 1..DecodedLength(DataLength(text)) |->
        LET q == 4 * ((k - 1) \div 3)
        IN  CASE (k - 1) % 3 = 0 -> text[q + 1] * 4 + text[q + 2] \div 16
              [] (k - 1) % 3 = 1 -> (text[q + 2] % 16) * 16 + text[q + 3] \div 4
              [] OTHER           -> (text[q + 3] % 4) * 64 + text[q + 4]]
=============================================================================
