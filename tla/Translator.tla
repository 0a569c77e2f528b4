----------------------------- MODULE Translator ----------------------------
(***************************************************************************)
(* internal/translator: Encode writes a command in RESP into the send      *)
(* buffer, Decode reads one reply from what has been received.             *)
(*                                                                         *)
(* A byte is a symbol, a model value or a string; "CR" and "LF" end a      *)
(* line.  A word ("SET", "PX") and a number ("3", "-1") are one symbol     *)
(* each, which is exact for numbers below 10.  Index i here is idx + 1     *)
(* there.                                                                  *)
(***************************************************************************)
EXTENDS Integers, Sequences, Functions, TLC

CONSTANT MaxNumber      \* bound: the numbers that are written or read

CRLF == <<"CR", "LF">>

numeral == [n \in -1..MaxNumber |-> ToString(n)]

\* Decimal notation: no two numbers look the same, and none looks like the mark
\* of a type or the end of a line.
ASSUME NumeralAssumption ==
    /\ MaxNumber \in Nat /\ MaxNumber >= 5
    /\ \A m, n \in -1..MaxNumber : numeral[m] = numeral[n] => m = n
    /\ \A n \in -1..MaxNumber :
          numeral[n] \notin {"CR", "LF", "$", "*", "+", "-", "_", "%", ":",
                            "neither string nor []byte"}

Itoa(n) == <<numeral[n]>>

\* strconv.Atoi with its error ignored.
Atoi(text) ==
    IF \E n \in -1..MaxNumber : text = Itoa(n)
    THEN CHOOSE n \in -1..MaxNumber : text = Itoa(n) ELSE 0

\* m[key] = value
Updated(m, key, value) ==
    [k \in DOMAIN m \cup {key} |-> IF k = key THEN value ELSE m[k]]

-----------------------------------------------------------------------------
(***************************************************************************)
(* Encode (encoding.go).  A parameter is a sequence of symbols, or         *)
(* Unsupported for a value that is neither a string nor []byte.            *)
(***************************************************************************)
Unsupported == <<"neither string nor []byte">>

Line(first, n) == <<first>> \o Itoa(n) \o CRLF

\* Mutant: the two bytes after the value are forgotten.
valueLen_NoCRLF(part) == 1 + Len(Itoa(Len(part))) + Len(part) + 2

valueLen(part) == 1 + Len(Itoa(Len(part))) + Len(part) + 4

\* buf is [data, len, err]: what is written before WritePos, the length of the
\* buffer and the error of the write.
writeArr(buf, n) ==
    IF 1 + Len(Itoa(n)) + 2 >= buf.len
    THEN [buf EXCEPT !.err = "ErrSendBufTooShort"]
    ELSE [buf EXCEPT !.data = @ \o Line("*", n)]

writeString(buf, part) ==
    IF buf.err # "nil" THEN buf
    ELSE IF part = Unsupported THEN [buf EXCEPT !.err = "ErrUnsupportedDataType"]
    ELSE IF valueLen(part) > buf.len - Len(buf.data)
    THEN [buf EXCEPT !.err = "ErrSendBufTooShort"]
    ELSE [buf EXCEPT !.data = @ \o Line("$", Len(part)) \o part \o CRLF]

\* Mutant: what an attempt that failed has written is kept.
resetWritePos_Missing(data) == data

resetWritePos(data) == <<>>

\* The buffer after the header and after each parameter: after an error nothing
\* is written.
Writes(data, len, params) ==
    LET buf[k \in 0..Len(params)] ==
            IF k = 0 THEN writeArr([data |-> data, len |-> len, err |-> "nil"], Len(params))
            ELSE writeString(buf[k - 1], params[k])
    IN  buf

Encode(data, len, params) ==
    LET buf == Writes(data, len, params)
        whole == buf[Len(params)]
    IN  IF buf[0].err # "nil" THEN buf[0]
        ELSE IF whole.err = "nil" THEN whole
        ELSE [whole EXCEPT !.data = resetWritePos(@)]

-----------------------------------------------------------------------------
(***************************************************************************)
(* Decode (decoding.go).  An object is what Go holds in an "any": nil, a   *)
(* []byte, a map or a []any.  Each parser returns the index and the object *)
(* as in the code, and the error it has set, the last one if there are     *)
(* several; "panic" stands for the runtime error that ends the process.    *)
(***************************************************************************)
Object(type, text, map) == [type |-> type, text |-> text, map |-> map]
Nil == Object("nil", <<>>, <<>>)
Bytes(text) == Object("[]byte", text, <<>>)
Map(map) == Object("map", <<>>, map)
\* Of an array only its emptiness is ever asked.
Array(n) == Object("[]any", IF n = 0 THEN <<>> ELSE <<"arr with len > 0">>, <<>>)

Parsed(i, object, err) == [idx |-> i, object |-> object, err |-> err]

\* decodingErr after setDecodingErr has been called, or not ("nil").
lastErr(before, err) == IF err = "nil" THEN before ELSE err

isDataEnded(d, i) == i > Len(d)

\* Mutant: the two bytes that end a line are swapped.
endsLine_Swapped(d, i, j) == d[i] = "LF" /\ d[j] = "CR"

endsLine(d, i, j) == d[i] = "CR" /\ d[j] = "LF"

\* The loop of every parser, from each place: the text up to the next CR LF, the
\* index of that LF, and whether it was found.  A CR that no LF follows is
\* dropped.
Scans(d) ==
    LET f[k \in 1..Len(d) + 2] ==
            LET j == IF ~isDataEnded(d, k) /\ d[k] = "CR" THEN k + 1 ELSE k
            IN  IF isDataEnded(d, j) THEN [idx |-> j, text |-> <<>>, whole |-> FALSE]
                ELSE IF endsLine(d, k, j) THEN [idx |-> j, text |-> <<>>, whole |-> TRUE]
                ELSE LET rest == f[j + 1]
                     IN  [idx |-> rest.idx, text |-> <<d[j]>> \o rest.text,
                          whole |-> rest.whole]
    IN  f

Scan(d, i) == Scans(d)[i]

parseSimpleString(d, i) ==
    LET s == Scan(d, i + 1)
    IN  Parsed(s.idx, IF s.whole THEN Bytes(s.text) ELSE Nil, "nil")

\* A number that is cut is 0.
parsePartLen(d, i) ==
    LET s == Scan(d, i) IN [idx |-> s.idx, n |-> IF s.whole THEN Atoi(s.text) ELSE 0]

\* Mutant: the nil of RESP2 is not known.
isNil_NotInRESP2(n) == FALSE

isNil(n) == n = -1

\* The length is used for -1 alone: the text ends at the next CR LF.
parseBulkString(d, i) ==
    LET len == parsePartLen(d, i + 1)
        s == Scan(d, len.idx + 1)
    IN  IF isDataEnded(d, i + 1) THEN Parsed(i + 1, Nil, "nil")
        ELSE IF isNil(len.n) THEN Parsed(len.idx, Nil, "ErrNoValue")
        ELSE IF isDataEnded(d, len.idx + 1)
        THEN Parsed(len.idx + 1, Bytes(<<>>), "nil")
        ELSE Parsed(s.idx, Bytes(s.text), "nil")

parseInteger(d, i) ==
    LET s == Scan(d, i + 1) IN Parsed(s.idx, Bytes(s.text), "nil")

\* The only parser that does not look for the end of the data.
parseError(d, i) ==
    Parsed(i, Nil, IF Scan(d, i + 1).whole THEN "ErrRedisException" ELSE "panic")

\* decodingData[idx] past the end: the process dies.
partAt(d, i, parts) ==
    IF isDataEnded(d, i) THEN Parsed(i, Nil, "panic") ELSE parts[i]

\* The k-th element of an array.  "parts" says what parsePart finds at each place.
\* At the end of the data the loop stops, at an index that nothing follows.
nextElement(d, before, k, parts) ==
    LET part == parts[before.idx + 1]
    IN  IF before.err = "panic" \/ isDataEnded(d, before.idx + 1) THEN before
        ELSE Parsed(part.idx, Array(k), lastErr(before.err, part.err))

\* The array after each of its elements.
Elements(d, len, parts) ==
    LET p[k \in 0..len.n] ==
            IF k = 0 THEN Parsed(len.idx, Array(0), "nil")
            ELSE nextElement(d, p[k - 1], k, parts)
    IN  p

parseArray(d, i, parts) ==
    LET len == parsePartLen(d, i + 1)
    IN  IF isDataEnded(d, i + 1) THEN Parsed(i + 1, Nil, "nil")
        ELSE IF len.n < 0 THEN Parsed(len.idx, Nil, "panic")
        ELSE Elements(d, len, parts)[len.n]

\* A key that is not a []byte is an error, and the value is read all the same.
\* Between key and value nobody asks whether the data has ended.
parseMapKeyAndValue(d, i, parts) ==
    LET key == parts[i]
        value == partAt(d, key.idx + 1, parts)
        keyErr == IF key.object.type = "[]byte" THEN key.err ELSE "ErrTypeAssert"
    IN  IF key.err = "panic" THEN [idx |-> i, key |-> <<>>, value |-> <<>>, err |-> "panic"]
        ELSE [idx |-> value.idx, key |-> key.object.text, value |-> value.object.text,
              err |-> lastErr(keyErr, value.err)]

\* The next pair of a map; at the end of the data its loop stops, too.
nextPair(d, before, parts) ==
    LET pair == parseMapKeyAndValue(d, before.idx + 1, parts)
    IN  IF before.err = "panic" \/ isDataEnded(d, before.idx + 1) THEN before
        ELSE Parsed(pair.idx, Map(Updated(before.object.map, pair.key, pair.value)),
                    lastErr(before.err, pair.err))

\* The map after each of its pairs.
Pairs(d, len, parts) ==
    LET p[k \in 0..len.n] ==
            IF k = 0 THEN Parsed(len.idx, Map(<<>>), "nil")
            ELSE nextPair(d, p[k - 1], parts)
    IN  p

parseMap(d, i, parts) ==
    LET len == parsePartLen(d, i + 1)
    IN  IF isDataEnded(d, i + 1) THEN Parsed(i + 1, Nil, "nil")
        ELSE IF len.n <= 0 THEN Parsed(len.idx, Map(<<>>), "nil")
        ELSE Pairs(d, len, parts)[len.n]

\* After "_" the index is 0.
parsePart(d, i, parts) ==
    CASE d[i] = "+" -> parseSimpleString(d, i)
      [] d[i] = "$" -> parseBulkString(d, i)
      [] d[i] = "%" -> parseMap(d, i, parts)
      [] d[i] = ":" -> parseInteger(d, i)
      [] d[i] = "*" -> parseArray(d, i, parts)
      [] d[i] = "_" -> Parsed(1, Nil, "ErrNoValue")
      [] d[i] = "-" -> parseError(d, i)
      [] OTHER -> Parsed(i, Nil, "ErrUnsupportedDataType")

\* What parsePart finds at each place if parts are nested at most so deep.  Parts
\* nested deeper than there are places are nested in themselves, which the 0 of
\* "_" makes possible: then the stack overflows.
Parts(d) ==
    LET nested[depth \in 0..Len(d)] ==
            [i \in 1..Len(d) |->
                IF depth = 0 THEN Parsed(i, Nil, "panic")
                ELSE parsePart(d, i, nested[depth - 1])]
    IN  nested

\* Mutant: the error of an earlier reply is still there.
getDecodingErr_Kept(err) == [err |-> err, decodingErr |-> err]

\* The error of this reply, and what is kept of it for the next.
getDecodingErr(err) == [err |-> err, decodingErr |-> "nil"]

\* decodingErr is what the Translator remembers from before.
Decode(d, decodingErr) ==
    LET p == partAt(d, 1, Parts(d)[Len(d)])
        e == getDecodingErr(lastErr(decodingErr, p.err))
    IN  [object |-> IF e.err = "nil" THEN p.object ELSE Nil,
         err |-> e.err, decodingErr |-> e.decodingErr]

=============================================================================
