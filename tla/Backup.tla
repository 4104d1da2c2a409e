--------------------------------- MODULE Backup ---------------------------------
(***************************************************************************)
(* The .passpony container and its recovery codes                           *)
(* (crates/pass-core/src/backup.rs).  A container is a sequence of pieces:  *)
(* newlines, the header, section lines, the trailer, and the bytes of data, *)
(* which may be newlines or look like a trailer.                            *)
(***************************************************************************)
EXTENDS Integers, Sequences, SequencesExt

CONSTANTS CodeValues, CodeChars   \* 32 and 30 in the code

Newline == <<"newline">>
Header(version) == <<"header", version>>
Trailer == <<"end">>
SectionLine(s) == <<"section", s.kind, Len(s.data), s.name>>
Section(kind, name, data) == [kind |-> kind, name |-> name, data |-> data]

Encoded(s) == <<SectionLine(s), Newline>> \o s.data \o <<Newline>>

BackupEncode(sections) ==
  <<Header(1), Newline>>
    \o FlattenSeq([i \in DOMAIN sections |-> Encoded(sections[i])])
    \o <<Trailer, Newline>>

IsLine(data, pos) == pos < Len(data) /\ data[pos + 1] = Newline /\ data[pos] # Newline

\* Mutant: what follows the trailer is ignored.
TrailerAt(data, pos) == IsLine(data, pos) /\ data[pos] = Trailer

AtTrailer(data, pos) == IsLine(data, pos) /\ data[pos] = Trailer /\ pos + 1 = Len(data)

\* All sections, or no section at all.
BackupDecode(data) ==
  LET from[pos \in 1..(Len(data) + 1)] ==
        IF AtTrailer(data, pos) THEN <<"ok", <<>>>>
        ELSE IF ~IsLine(data, pos) THEN <<"damaged">>
        ELSE IF data[pos][1] # "section" THEN <<"damaged">>
        ELSE LET end == pos + 2 + data[pos][3] IN   \* of the data
             IF end > Len(data) THEN <<"damaged">>
             ELSE IF data[end] # Newline THEN <<"damaged">>
             ELSE LET rest == from[end + 1]
                      s == Section(data[pos][2], data[pos][4], SubSeq(data, pos + 2, end - 1))
                  IN  IF rest[1] = "ok" THEN <<"ok", <<s>> \o rest[2]>> ELSE rest
  IN  CASE ~IsLine(data, 1) -> <<"not a backup">>
        [] data[1][1] # "header" -> <<"not a backup">>
        [] data[1][2] > 1 -> <<"newer version">>
        [] OTHER -> from[3]

-----------------------------------------------------------------------------
\* Mutant: the values are only added up.
PlainSum(values) ==
  (CodeValues - (FoldLeft(LAMBDA n, v : n + v, 0, values) % CodeValues)) % CodeValues

\* Luhn's rule in base CodeValues, the factor 2 on the last value.
CheckValue(values) ==
  LET Factor(i) == IF (Len(values) - i) % 2 = 0 THEN 2 ELSE 1
      Part(i) == (Factor(i) * values[i]) \div CodeValues
                   + ((Factor(i) * values[i]) % CodeValues)
      sum == FoldLeft(LAMBDA n, i : n + Part(i), 0, [i \in DOMAIN values |-> i])
  IN  (CodeValues - (sum % CodeValues)) % CodeValues

RecoveryCode(random) == Append(random, CheckValue(random))

\* What may be typed: a value, O, I or L, a separator, anything else.
TypedO == CodeValues
TypedI == CodeValues + 1
TypedL == CodeValues + 2
Separator == CodeValues + 3
Unusable == CodeValues + 4

NormalizeRecoveryCode(typed) ==
  LET Value(c) == CASE c = TypedO -> 0
                    [] c \in {TypedI, TypedL} -> 1
                    [] OTHER -> c
      kept == SelectSeq(typed, LAMBDA c : c # Separator)
      values == [i \in DOMAIN kept |-> Value(kept[i])]
  IN  CASE \E i \in DOMAIN values : values[i] = Unusable -> <<"character">>
        [] Len(values) # CodeChars -> <<"length">>
        [] CheckValue(Front(values)) # Last(values) -> <<"checksum">>
        [] OTHER -> <<"ok", values>>
=============================================================================
