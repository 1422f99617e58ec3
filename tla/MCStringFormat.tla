--------------------------- MODULE MCStringFormat ---------------------------
(***************************************************************************)
(* StringFormat on every format of a few characters, some of them behind a *)
(* beginning of more.  The reference is printf's own grammar: %, flags,    *)
(* width, precision, length modifier, conversion.                          *)
(***************************************************************************)
EXTENDS StringFormat

CONSTANTS Characters, \* the classes of characters formats are built from
          MaxMore,    \* bound: characters behind a beginning
          StringLens  \* lengths of string arguments, that of "(null)" among them

VARIABLE format

(* Beginnings: nothing, a string before the rest, a flag and a width *)
Beginnings == {<<>>, <<"%", "s">>, <<"%", "+", "1">>}

FormatInit == format \in Beginnings

FormatNext ==
    /\ \E b \in Beginnings : IsPrefix(b, format) /\ Len(format) < Len(b) + MaxMore
    /\ \E c \in Characters : format' = Append(format, c)

FormatSpec == FormatInit /\ [][FormatNext]_format

-----------------------------------------------------------------------------
(* The last position of a run of characters of the set that starts at i, plus one *)
After(f, i, set) ==
    CHOOSE j \in i..(Len(f) + 1) :
        /\ \A k \in i..(j - 1) : f[k] \in set
        /\ At(f, j) \notin set

(* Conversions of printf with the kind of their argument, as the classes here tell it *)
Table == {<<<<"c">>, "byte">>, <<<<"d">>, "int">>, <<<<"x">>, "int">>, <<<<"f">>, "double">>,
          <<<<"p">>, "ptr">>, <<<<"s">>, "string">>, <<<<"h", "d">>, "word">>,
          <<<<"h", "x">>, "word">>, <<<<"h", "o">>, "word">>, <<<<"h", "h", "x">>, "word">>,
          <<<<"h", "h", "o">>, "word">>, <<<<"l", "d">>, "long">>, <<<<"l", "x">>, "long">>,
          <<<<"l", "f">>, "double">>, <<<<"l", "l", "d">>, "long64">>, <<<<"l", "l", "x">>, "long64">>}

(* The arguments a format asks for, or Abort when it is not one of printf  *)
(* with conversions of the table and at most maxFlags flags in each.       *)
Arguments(f, maxFlags) ==
    LET args[i \in 1..(Len(f) + 1)] ==
            LET j == After(f, i + 1, {"+"})
                w == After(f, j, Digits)
                t == IF At(f, w) = "." THEN After(f, w + 1, Digits) ELSE w
                hits == {e \in Table : IsPrefix(e[1], SubSeq(f, t, Len(f)))}
                hit == CHOOSE e \in hits : TRUE
                rest == args[t + Len(hit[1])]
            IN  IF i > Len(f) THEN <<>>
                ELSE IF f[i] # "%" THEN args[i + 1]
                ELSE IF At(f, i + 1) = "%" THEN args[i + 2]
                ELSE IF hits = {} \/ j - (i + 1) > maxFlags THEN Abort
                ELSE IF rest = Abort THEN Abort ELSE <<hit[2]>> \o rest
    IN  args[1]

(* What the code keeps of these arguments: of a long, which %ld and %lx    *)
(* take, the 32 bits of va_arg(args, unsigned int) (stringformat.cpp:137). *)
Kept(kinds) == [k \in DOMAIN kinds |-> IF kinds[k] = "long" THEN "int" ELSE kinds[k]]

Kinds(items) == [k \in DOMAIN items |-> items[k].kind]

(* Encoder and decoder agree with printf, and so with each other, on which *)
(* arguments a format has: each is stored once and read back as what was   *)
(* kept of it, with any width and precision and at most one flag.          *)
ArgumentsRoundTrip ==
    Arguments(format, 1) # Abort =>
        /\ encodeToArgsBuffer(format) = Kept(Arguments(format, 1))
        /\ Kinds(decodeFromArgsBuffer(format)) = Kept(Arguments(format, 1))

(* Byte for byte, what decodeFromArgsBuffer() reads is what was stored,    *)
(* strings of any length included, and it ends exactly behind the last     *)
(* argument, where printAtIndex() expects the trailer and the next entry.  *)
ValuesRoundTrip ==
    Arguments(format, 1) # Abort =>
        LET kinds == encodeToArgsBuffer(format)
        IN  \A lens \in [{k \in DOMAIN kinds : kinds[k] = "string"} -> StringLens] :
                LET all == [k \in DOMAIN kinds |-> IF k \in DOMAIN lens THEN lens[k] ELSE 0]
                    buf == argsBuffer(kinds, all)
                    got == readArguments(Kinds(decodeFromArgsBuffer(format)), buf)
                IN  /\ ~got.corrupted
                    /\ got.index = Len(buf)
                    /\ \A k \in DOMAIN kinds :
                          got.values[k] = [j \in 1..(IF kinds[k] = "string" THEN all[k] ELSE Width[kinds[k]])
                                             |-> <<k, j>>]

(* Every tempFormat the decoder hands to sprintf is one whole conversion   *)
(* of printf, and asks for an argument of the kind that is passed with it. *)
(* Formats with %ld or %lx are left out: there the decoder passes the      *)
(* uint32_t it has where sprintf takes a long (stringformat.cpp:374-376).  *)
SprintfAgrees ==
    LET args == Arguments(format, 1)
    IN  (args # Abort /\ "long" \notin Range(args)) =>
            \A item \in Range(decodeFromArgsBuffer(format)) :
                Arguments(item.temp, 1) = <<item.kind>>
=============================================================================
