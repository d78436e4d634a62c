---------------------------- MODULE TextEncoding ----------------------------
(* Encoding detection and conversion (src/core/formats/encoding): the charset *)
(* EncodingDetector chooses for a sequence of bytes, and what decoding with   *)
(* that charset does to a text.  Confidences are fractions [n, d].            *)
EXTENDS Integers, Sequences, SequencesExt

Conf(n, d) == [n |-> n, d |-> d]
Above(c, e) == c.n * e.d > e.n * c.d

High(byte) == byte >= 128

\* An UTF-8 lead byte's length; other high bytes count as one invalid character.
Utf8Length(byte) ==
  IF byte < 128 THEN 1 ELSE IF byte \in 192..223 THEN 2
  ELSE IF byte \in 224..239 THEN 3 ELSE IF byte \in 240..247 THEN 4 ELSE 0

\* check_utf8_validity: the share of characters that are well formed.
Utf8Char(data, i) ==
  LET n == Utf8Length(data[i])
  IN  [size  |-> IF n = 0 THEN 1 ELSE n,
       valid |-> n > 0 /\ i + n - 1 <= Len(data)
                 /\ \A j \in (i + 1)..(i + n - 1) : data[j] \in 128..191]

\* The double-byte checks: ASCII stands alone, any other byte takes the next one.
PairChar(data, i, Valid(_, _)) ==
  CASE data[i] < 128 -> [size |-> 1, valid |-> TRUE]
    [] data[i] >= 128 /\ i < Len(data) -> [size |-> 2, valid |-> Valid(data[i], data[i + 1])]
    [] OTHER -> [size |-> 1, valid |-> FALSE]

\* The confidence of a scan, chars[i] being what it reads at i.
Scan(chars) ==
  LET from[i \in 1..(Len(chars) + 4)] ==
        IF i > Len(chars) THEN <<0, 0>>
        ELSE LET rest == from[i + chars[i].size]
             IN  <<rest[1] + (IF chars[i].valid THEN 1 ELSE 0), rest[2] + 1>>
  IN  IF chars = <<>> THEN Conf(0, 1) ELSE Conf(from[1][1], from[1][2])

CheckUtf8(data) == Scan([i \in DOMAIN data |-> Utf8Char(data, i)])
CheckPairs(data, Valid(_, _)) == Scan([i \in DOMAIN data |-> PairChar(data, i, Valid)])

GbkPair(x, y)  == x \in 129..254 /\ (y \in 64..126 \/ y \in 128..254)
SjisPair(x, y) == (x \in 129..159 \/ x \in 224..239) /\ y \in 64..252 /\ y # 127
Big5Pair(x, y) == x \in 161..254 /\ (y \in 64..126 \/ y \in 161..254)

HasHigh(data) == \E i \in DOMAIN data : High(data[i])
WeakUtf8(data) == Above(Conf(1, 2), CheckUtf8(data))

\* check_iso88591_patterns, check_windows1252_patterns: the tenths for a text with
\* high bytes that is not UTF-8, one that is, and one without high bytes.
SingleByte(data, other, utf8, ascii) ==
  Conf(IF ~HasHigh(data) THEN ascii ELSE IF WeakUtf8(data) THEN other ELSE utf8, 10)

\* calculate_encoding_confidence.
Confidence(data, charset) ==
  CASE charset = "utf8" -> CheckUtf8(data)
    [] charset = "gbk"  -> CheckPairs(data, GbkPair)
    [] charset = "sjis" -> CheckPairs(data, SjisPair)
    [] charset = "big5" -> CheckPairs(data, Big5Pair)
    [] charset = "latin"  -> SingleByte(data, 7, 2, 5)
    [] charset = "cp1252" -> SingleByte(data, 6, 1, 3)

SupportedCharsets == <<"utf8", "gbk", "sjis", "big5", "latin", "cp1252">>

\* detect_bom.  The mark of UTF-32 LE begins with the one of UTF-16 LE, which is
\* looked for first; data of fewer than three bytes has none.
Bom(data) ==
  LET starts(mark) == Len(data) >= 3 /\ Len(data) >= Len(mark) /\ SubSeq(data, 1, Len(mark)) = mark
  IN  CASE starts(<<239, 187, 191>>) -> "utf8"
        [] starts(<<255, 254>>) -> "utf16le"
        [] starts(<<254, 255>>) -> "utf16be"
        [] starts(<<0, 0, 254, 255>>) -> "utf32be"
        [] OTHER -> "none"

NoCandidate == [charset |-> "none", conf |-> Conf(0, 1)]
Candidate(data, i) ==
  [charset |-> SupportedCharsets[i], conf |-> Confidence(data, SupportedCharsets[i])]
Candidates(data) == {i \in DOMAIN SupportedCharsets : Above(Candidate(data, i).conf, Conf(1, 10))}

\* Mutant: of equal confidences the last charset wins.
BestLast(data) ==
  LET above(i, j) == Above(Candidate(data, i).conf, Candidate(data, j).conf)
      I == Candidates(data)
  IN  IF I = {} THEN NoCandidate
      ELSE Candidate(data, CHOOSE i \in I : \A j \in I : ~above(j, i) /\ (j > i => above(i, j)))

\* analyze_byte_patterns: the candidates above 0.1, of which the stable sort puts
\* the first of the most confident ones in front.
Best(data) ==
  LET above(i, j) == Above(Candidate(data, i).conf, Candidate(data, j).conf)
      I == Candidates(data)
  IN  IF I = {} THEN NoCandidate
      ELSE Candidate(data, CHOOSE i \in I : \A j \in I : ~above(j, i) /\ (j < i => above(i, j)))

\* detect_encoding with the defaults: threshold 0.8, default encoding UTF-8.
DetectEncoding(data) ==
  IF Bom(data) # "none" THEN Bom(data)
  ELSE LET best == Best(data)
       IN  IF best.charset = "none" \/ Above(Conf(8, 10), best.conf) THEN "utf8" ELSE best.charset

\* convert_to_utf8: charsets without an entry in encoding_map are errors; the map
\* decodes Latin-1 as Latin-2.
Decodable(charset) == charset \in ToSet(SupportedCharsets)
DecodesAs(charset) == IF charset = "latin" THEN "latin2" ELSE charset

\* A text survives if it was written in that charset or is plain ASCII; otherwise
\* its words turn into other characters, while the structure, being ASCII, stays.
Readable(charset, written, data) == ~HasHigh(data) \/ DecodesAs(charset) = written
=============================================================================
