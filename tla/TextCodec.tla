------------------------------- MODULE TextCodec -------------------------------
(***************************************************************************)
(* The byte codecs of crates/pass-core: base32 and base64 as the regrouping *)
(* of bits, and percent escapes.  A base32 or base64 character is the       *)
(* sequence of its 5 or 6 bits.  Percent escapes are over a small alphabet  *)
(* in which two hex digits, of which there are three, name a byte.          *)
(***************************************************************************)
EXTENDS Naturals, Sequences, SequencesExt

Bits(byte) == [i \in 1..8 |-> (byte \div 2^(8 - i)) % 2]
ByteOf(bits) == FoldLeft(LAMBDA n, bit : 2 * n + bit, 0, bits)
FlatBits(bytes) == FlattenSeq([i \in DOMAIN bytes |-> Bits(bytes[i])])

\* The whole groups of g bits.
Groups(bits, g) ==
  [i \in 1..(Len(bits) \div g) |-> SubSeq(bits, g * (i - 1) + 1, g * i)]

\* Mutant: the bits that do not fill a character are lost.
EncodeWhole(bytes, g) == Groups(FlatBits(bytes), g)

Encode(bytes, g) ==
  LET bits == FlatBits(bytes)
  IN  Groups(bits \o [i \in 1..((g - (Len(bits) % g)) % g) |-> 0], g)

\* The bits that do not fill a byte are the encoder's padding.
DecodeChars(chars) ==
  LET bytes == Groups(FlattenSeq(chars), 8)
  IN  [i \in DOMAIN bytes |-> ByteOf(bytes[i])]

EncodeBase32(bytes) == Encode(bytes, 5)
DecodeBase32(chars) == DecodeChars(chars)
EncodeBase64(bytes) == Encode(bytes, 6)
DecodeBase64(chars) == DecodeChars(chars)

-----------------------------------------------------------------------------
Hex == 0..2
Percent == 3
Space == 4
Slash == 5
Colon == 6
Dot == 7
Letter == 8
Bytes == 0..8
Literal == Hex \union {Colon, Dot, Letter}

\* Mutant: a percent sign is left as it is.
KeepPercent(s) ==
  FlattenSeq([i \in DOMAIN s |-> IF s[i] \in Literal \union {Percent} THEN <<s[i]>>
                                 ELSE <<Percent, s[i] \div 3, s[i] % 3>>])

PercentEncode(s) ==
  FlattenSeq([i \in DOMAIN s |-> IF s[i] \in Literal THEN <<s[i]>>
                                 ELSE <<Percent, s[i] \div 3, s[i] % 3>>])

\* What only looks like an escape passes through.
PercentDecode(s) ==
  LET Escape(i) == /\ i + 2 <= Len(s) /\ s[i] = Percent
                   /\ s[i + 1] \in Hex /\ s[i + 2] \in Hex
      from[i \in 1..(Len(s) + 1)] ==
        IF i > Len(s) THEN <<>>
        ELSE IF Escape(i) THEN <<3 * s[i + 1] + s[i + 2]>> \o from[i + 3]
        ELSE <<s[i]>> \o from[i + 1]
  IN  from[1]

Trim(s) ==
  LET kept == {i \in DOMAIN s : s[i] # Space}
  IN  IF kept = {} THEN <<>>
      ELSE SubSeq(s, CHOOSE i \in kept : \A j \in kept : i <= j,
                     CHOOSE i \in kept : \A j \in kept : j <= i)
=============================================================================
