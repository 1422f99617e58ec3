---------------------------- MODULE StringFormat ----------------------------
(***************************************************************************)
(* StringFormat (src/src/lib/stringformat.cpp): the encoder that traceVargs *)
(* runs and the decoder that printAtIndex runs, much later, on the same    *)
(* format.  Each parses the format with code of its own, and the bytes     *)
(* between header and trailer carry no types: the decoder must ask for     *)
(* exactly the items the encoder stored, or every later item of the entry  *)
(* and the index of the next entry are wrong.                              *)
(*                                                                         *)
(* A format is a sequence of characters, one for each class the parsers    *)
(* tell apart: "+" is a flag (+ - # or space), "0" the digit that is also  *)
(* a flag, "1" any other digit, "d" is d or i, "x" is x, X or u, "A" any   *)
(* character that means nothing to them.  The parsers give the sequence of *)
(* the kinds of the memSet... and memGet... calls.  Stored bytes are        *)
(* <<argument, position>>, or Nul.                                         *)
(***************************************************************************)
EXTENDS Integers, SequencesExt

At(format, i) == IF i <= Len(format) THEN format[i] ELSE "end"

Digits == {"0", "1"}

Single == [c |-> "byte", d |-> "int", x |-> "int", f |-> "double", p |-> "ptr", s |-> "string"]

(* The assertion in the default case of the encoder's switch failed. *)
Abort == <<"abort">>

-----------------------------------------------------------------------------
(* case 'h' of the encoder *)
EncodeShort(format, i) ==
    IF \/ At(format, i + 1) \in {"o", "x", "d"}
       \/ At(format, i + 1) = "h" /\ At(format, i + 2) \in {"x", "o"}
    THEN <<"word">> ELSE <<>>

(* case 'l' of the encoder *)
EncodeLong(format, i) ==
    CASE At(format, i + 1) = "l" /\ At(format, i + 2) \in {"x", "d"} -> <<"long64">>
      [] At(format, i + 1) \in {"x", "d"} -> <<"int">>
      [] At(format, i + 1) = "f" -> <<"double">>
      [] OTHER -> <<>>

(* The characters behind the one that decided are skipped as plain text;   *)
(* only after %ll does the encoder skip one itself.                        *)
encodeToArgsBuffer(format) ==
    LET encode[i \in 1..(Len(format) + 1), inside \in BOOLEAN] ==
            LET c == At(format, i)
            IN  CASE c = "end" -> <<>>
                  [] c = "%" -> encode[i + 1, ~inside]
                  [] c # "%" /\ c # "end" /\ ~inside -> encode[i + 1, FALSE]
                  [] inside /\ c = "h" -> EncodeShort(format, i) \o encode[i + 1, FALSE]
                  [] inside /\ c = "l" -> EncodeLong(format, i) \o
                        encode[i + (IF EncodeLong(format, i) = <<"long64">> THEN 2 ELSE 1), FALSE]
                  [] inside /\ c \in DOMAIN Single -> <<Single[c]>> \o encode[i + 1, FALSE]
                  [] inside /\ c \in {"+", "."} \cup Digits -> encode[i + 1, TRUE]
                  [] inside /\ c \in {"o", "A"} -> Abort
    IN  encode[1, FALSE]

-----------------------------------------------------------------------------
(* The decoder accepts one flag ... *)
SkipFlag(format, i) == IF At(format, i) \in {"0", "+"} THEN i + 1 ELSE i

SkipDigits(format, i) ==
    LET skip[j \in 1..(Len(format) + 2)] == IF At(format, j) \in Digits THEN skip[j + 1] ELSE j
    IN  skip[i]

(* Mutant: a precision is not expected *)
SkipDot_never(format, i) == i

SkipDot(format, i) == IF At(format, i) = "." THEN i + 1 ELSE i

(* ... digits, a dot and digits again. *)
SkipWidth(format, i) == SkipDigits(format, SkipDot(format, SkipDigits(format, SkipFlag(format, i))))

(* What the decoder's switch at i reads and where it goes on; next = 0 when *)
(* it has not consumed anything.                                            *)
Conversion(format, i) ==
    LET c == At(format, i)
        c1 == At(format, i + 1)
        c2 == At(format, i + 2)
    IN  CASE c = "h" /\ c1 \in {"d", "x", "o"} -> [read |-> <<"word">>, next |-> i + 2]
          [] c = "h" /\ c1 = "h" /\ c2 \in {"x", "o"} -> [read |-> <<"word">>, next |-> i + 3]
          [] c \in DOMAIN Single -> [read |-> <<Single[c]>>, next |-> i + 1]
          [] c = "l" /\ c1 = "l" /\ c2 \in {"d", "x"} -> [read |-> <<"long64">>, next |-> i + 3]
          [] c = "l" /\ c1 \in {"d", "x"} -> [read |-> <<"int">>, next |-> i + 2]
          [] c = "l" /\ c1 = "f" -> [read |-> <<"double">>, next |-> i + 2]
          [] c = "%" -> [read |-> <<>>, next |-> i + 1]
          [] OTHER -> [read |-> <<>>, next |-> 0]

(* Mutant: no room is left for the last character *)
strlcpy_short(src, siz) == SubSeq(src, 1, siz - 2)

(* strlcpy copies one character less than siz, the NUL comes last. *)
strlcpy(src, siz) == IF siz - 1 < Len(src) THEN SubSeq(src, 1, siz - 1) ELSE src

(* The items the decoder reads, each with the tempFormat it prints it with. *)
(* A conversion that is not consumed is copied as text, from its % on.      *)
decodeFromArgsBuffer(format) ==
    LET decode[i \in 1..(Len(format) + 1)] ==
            LET conv == Conversion(format, SkipWidth(format, i + 1))
            IN  CASE At(format, i) = "end" -> <<>>
                  [] At(format, i) = "%" /\ conv.next # 0 ->
                        [k \in DOMAIN conv.read |->
                            [kind |-> conv.read[k],
                             temp |-> strlcpy(SubSeq(format, i, Len(format)), conv.next - i + 1)]]
                        \o decode[conv.next]
                  [] OTHER -> decode[i + 1]
    IN  decode[1]
-----------------------------------------------------------------------------
Width == [byte |-> 1, word |-> 2, int |-> 4, double |-> 8, ptr |-> 8, long64 |-> 8]

Nul == <<0, 0>>
Trailer == <<0, 1>>   \* what lies behind the last argument

(* The memSet... functions: the bytes of the argument with this number.    *)
(* len is the length of a string, "(null)" for a null pointer.             *)
memSet(kind, arg, len) ==
    IF kind = "string" THEN [j \in 1..len |-> <<arg, j>>] \o <<Nul>>
                       ELSE [j \in 1..Width[kind] |-> <<arg, j>>]

(* The arguments traceVargs stores, one behind the other *)
argsBuffer(kinds, lens) == FlattenSeq([k \in 1..Len(kinds) |-> memSet(kinds[k], k, lens[k])])

ByteAt(buf, index) == IF index < Len(buf) THEN buf[index + 1] ELSE Trailer

(* memGetString: the length of the string at index, at most maxStringLength *)
memGetString(buf, index, maxStringLength) ==
    LET walk[di \in 0..(maxStringLength + 1)] ==
            IF ByteAt(buf, index + di) = Nul \/ di + 1 > maxStringLength THEN di ELSE walk[di + 1]
    IN  walk[0]

(* Mutant: the room for the string is one byte too small *)
MaxString_short(buf, index) == Len(buf) - index - 2

(* max_string: from index to the end of the arguments, without the NUL *)
MaxString(buf, index) == Len(buf) - index - 1

Copy(buf, index, n) == [j \in 1..n |-> ByteAt(buf, index + j - 1)]

(* The memGet... functions at index: the value and the next index. A string *)
(* is counted as corrupted when it is cut or when it has no room at all; in *)
(* the second case the decoder returns at once.                             *)
memGet(kind, buf, index) ==
    LET max == MaxString(buf, index)
        n == IF kind = "string" THEN memGetString(buf, index, max) ELSE Width[kind]
    IN  CASE kind = "string" /\ max < 0 -> [value |-> <<>>, next |-> index, corrupted |-> TRUE]
          [] kind = "string" /\ max >= 0 -> [value |-> Copy(buf, index, n), next |-> index + n + 1,
                                             corrupted |-> ByteAt(buf, index + n) # Nul]
          [] OTHER -> [value |-> Copy(buf, index, n), next |-> index + n, corrupted |-> FALSE]

(* What the decoder has read after all conversions, and the index it leaves *)
(* its caller: where the arguments start, when it returned early.           *)
readArguments(kinds, buf) ==
    LET read[k \in 0..Len(kinds)] ==
            IF k = 0 THEN [values |-> <<>>, index |-> 0, corrupted |-> FALSE, ended |-> FALSE]
            ELSE LET before == read[k - 1]
                     item == memGet(kinds[k], buf, before.index)
                     early == item.next = before.index
                 IN  IF before.ended THEN before
                     ELSE [values |-> Append(before.values, item.value),
                           index |-> IF early THEN 0 ELSE item.next,
                           corrupted |-> before.corrupted \/ item.corrupted,
                           ended |-> early]
    IN  read[Len(kinds)]
=============================================================================
