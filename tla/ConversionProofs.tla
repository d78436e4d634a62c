--------------------------- MODULE ConversionProofs ---------------------------
(***************************************************************************)
(* TLAPS proofs about what a conversion of Subtitles keeps, for every set  *)
(* of files, every document in them and every target: a file of valid      *)
(* UTF-8 is read as it was written, what a serializer writes is taken for  *)
(* its format and parsed back into the same cues, and so the output of a   *)
(* reported success holds the words and the times of the input.            *)
(***************************************************************************)
EXTENDS SubtitleFilesProofs

-----------------------------------------------------------------------------
(* Valid UTF-8 is taken for UTF-8.                                           *)

AreChars(chars) ==
  IsSeq(chars) /\ \A i \in DOMAIN chars : chars[i].size \in 1..4 /\ chars[i].valid \in BOOLEAN
Step(chars, g, i) ==
  IF i > Len(chars) THEN <<0, 0>>
  ELSE <<g[i + chars[i].size][1] + (IF chars[i].valid THEN 1 ELSE 0), g[i + chars[i].size][2] + 1>>

\* The scan exists, so that its counts are what its equations say.
LEMMA ScanExists ==
  ASSUME NEW chars, AreChars(chars), chars # <<>>
  PROVE  \E from : /\ \A i \in 1..(Len(chars) + 4) : from[i] = Step(chars, from, i)
                   /\ Scan(chars) = Conf(from[1][1], from[1][2])
<1> DEFINE n == Len(chars)
           D == 1..(n + 4)
           Good(m, g) == /\ DOMAIN g = D /\ g = [i \in D |-> g[i]]
                         /\ \A i \in D : i > n - m => g[i] = Step(chars, g, i)
           T == {m \in 0..n : ~\E g : Good(m, g)}
<1>1. n \in Nat /\ \A i \in 1..n : chars[i].size \in 1..4
  BY SeqFacts DEF AreChars
<1> HIDE DEF n
<1>2. T = {}
  <2> SUFFICES ASSUME T # {} PROVE FALSE
    OBVIOUS
  <2>1. T \subseteq Nat
    BY <1>1
  <2>2. PICK m \in T : \A k \in T : m <= k
    <3> HIDE DEF T
    <3> QED
      BY <2>1, Least
  <2>3. m \in 0..n /\ ~\E g : Good(m, g)
    OBVIOUS
  <2>4. CASE m = 0
    <3> DEFINE g == [i \in D |-> <<0, 0>>]
    <3>1. \A i \in D : i > n - 0 => g[i] = Step(chars, g, i)
      BY <1>1 DEF Step, n
    <3>2. DOMAIN g = D /\ g = [i \in D |-> g[i]]
      OBVIOUS
    <3> HIDE DEF g, D
    <3>3. Good(0, g)
      BY <3>1, <3>2
    <3> QED
      BY <2>3, <2>4, <3>3
  <2>5. CASE m # 0
    <3>1. m - 1 \in 0..n /\ m - 1 \notin T /\ m \in Nat
      <4> HIDE DEF T
      <4> QED
        BY <1>1, <2>2, <2>3, <2>5
    <3>2. PICK f : Good(m - 1, f)
      BY <3>1
    <3>3. PICK h : h = n - m + 1 /\ h \in 1..n /\ h \in D
      BY <1>1, <2>3, <3>1, <2>5
    <3> DEFINE g == [i \in D |-> IF i = h THEN Step(chars, f, h) ELSE f[i]]
    <3>4. DOMAIN g = D /\ g = [i \in D |-> g[i]] /\ g[h] = Step(chars, f, h)
          /\ \A i \in D : i # h => g[i] = f[i]
      BY <3>3
    <3> HIDE DEF g, Good
    <3>5. ASSUME NEW i \in D, i > n - m PROVE g[i] = Step(chars, g, i)
      <4>1. i >= h /\ i \in Nat
        BY <1>1, <3>3, <3>5
      <4>2. CASE i > n
        <5>1. f[i] = Step(chars, f, i) /\ i # h
          BY <1>1, <3>2, <3>3, <3>5, <4>2 DEF Good
        <5> QED
          BY <3>4, <4>2, <5>1 DEF Step, n
      <4>3. CASE ~(i > n)
        <5>1. i \in 1..n
          BY <1>1, <4>1, <4>3
        <5>2. PICK j : j = i + chars[i].size
          OBVIOUS
        <5>3. j \in D /\ j # h
          BY <1>1, <3>3, <4>1, <5>1, <5>2
        <5>4. g[j] = f[j]
          BY <3>4, <5>3
        <5>5. g[i] = Step(chars, f, i)
          <6>1. CASE i = h
            BY <3>4, <6>1
          <6>2. CASE i # h
            <7>1. i > n - (m - 1)
              BY <1>1, <3>1, <3>3, <4>1, <6>2
            <7>2. f[i] = Step(chars, f, i)
              BY <3>2, <7>1 DEF Good
            <7> QED
              BY <3>4, <6>2, <7>2
          <6> QED
            BY <6>1, <6>2
        <5>6. Step(chars, f, i) = Step(chars, g, i)
          BY <4>3, <5>2, <5>4 DEF Step, n
        <5> QED
          BY <5>5, <5>6
      <4> QED
        BY <4>2, <4>3
    <3>6. Good(m, g)
      BY <3>4, <3>5 DEF Good
    <3> QED
      BY <2>3, <3>6 DEF Good
  <2> QED
    BY <2>4, <2>5
<1>3. PICK g : Good(n, g)
  BY <1>1, <1>2
<1> DEFINE from == CHOOSE from : from =
             [i \in D |-> IF i > Len(chars) THEN <<0, 0>>
                          ELSE LET rest == from[i + chars[i].size]
                               IN  <<rest[1] + (IF chars[i].valid THEN 1 ELSE 0), rest[2] + 1>>]
<1>4. from = [i \in D |-> IF i > Len(chars) THEN <<0, 0>>
                          ELSE LET rest == from[i + chars[i].size]
                               IN  <<rest[1] + (IF chars[i].valid THEN 1 ELSE 0), rest[2] + 1>>]
  <2>1. \A i \in D : g[i] = Step(chars, g, i)
    <3>1. \A i \in D : i > n - n
      BY <1>1
    <3> QED
      BY <1>3, <3>1
  <2>2. g = [i \in D |-> Step(chars, g, i)]
    BY <1>3, <2>1
  <2>3. g = [i \in D |-> IF i > Len(chars) THEN <<0, 0>>
                         ELSE LET rest == g[i + chars[i].size]
                              IN  <<rest[1] + (IF chars[i].valid THEN 1 ELSE 0), rest[2] + 1>>]
    BY <2>2, Zenon DEF Step
  <2> QED
    BY <2>3
<1>5. Scan(chars) = Conf(from[1][1], from[1][2])
  BY Zenon DEF Scan, n
<1> HIDE DEF from
<1>6. \A i \in D : from[i] = Step(chars, from, i)
  BY <1>4 DEF Step
<1> QED
  BY <1>5, <1>6 DEF n

\* A scan never counts more valid characters than characters; if all are valid, so is
\* the one at i whenever the scan gets there.
LEMMA ScanFacts ==
  ASSUME NEW chars, AreChars(chars)
  PROVE  /\ Scan(chars).n \in Nat /\ Scan(chars).d \in Nat \ {0} /\ Scan(chars).n <= Scan(chars).d
         /\ Scan(chars).n = Scan(chars).d =>
              /\ chars # <<>> /\ chars[1].valid
              /\ \A a, b : /\ a = 1 + chars[1].size
                           /\ (a <= Len(chars) => b = a + chars[a].size)
                           => (a <= Len(chars) /\ b <= Len(chars) => chars[b].valid)
<1>0. CASE chars = <<>>
  BY <1>0 DEF Scan, Conf
<1>1. CASE chars # <<>>
  <2> DEFINE n == Len(chars)
             D == 1..(n + 4)
  <2>1. PICK f : /\ \A i \in D : f[i] = Step(chars, f, i)
                 /\ Scan(chars) = Conf(f[1][1], f[1][2])
    BY <1>1, ScanExists
  <2>2. n \in Nat /\ n # 0 /\ \A i \in 1..n : chars[i].size \in 1..4 /\ chars[i].valid \in BOOLEAN
    BY <1>1, SeqFacts DEF AreChars
  <2> HIDE DEF n
  <2>3. /\ \A i \in D : i > n => f[i][1] = 0 /\ f[i][2] = 0
        /\ \A i \in 1..n : /\ f[i][1] = f[i + chars[i].size][1] + (IF chars[i].valid THEN 1 ELSE 0)
                           /\ f[i][2] = f[i + chars[i].size][2] + 1
    <3>1. ASSUME NEW i \in D, i > n PROVE f[i][1] = 0 /\ f[i][2] = 0
      <4>1. f[i] = Step(chars, f, i)
        BY <2>1
      <4>2. f[i] = <<0, 0>>
        BY <3>1, <4>1 DEF Step, n
      <4> QED
        BY <4>2
    <3>2. ASSUME NEW i \in 1..n
          PROVE  /\ f[i][1] = f[i + chars[i].size][1] + (IF chars[i].valid THEN 1 ELSE 0)
                 /\ f[i][2] = f[i + chars[i].size][2] + 1
      <4>1. i \in D /\ ~(i > n)
        BY <2>2
      <4>2. f[i] = Step(chars, f, i)
        BY <2>1, <4>1
      <4> QED
        BY <4>1, <4>2 DEF Step, n
    <3> QED
      BY <3>1, <3>2
  <2> DEFINE Ok(i) == f[i][1] \in Nat /\ f[i][2] \in Nat /\ f[i][1] <= f[i][2]
             T == {m \in 0..(n + 4) : n + 4 - m \in D /\ ~Ok(n + 4 - m)}
  <2>4. T = {}
    <3> SUFFICES ASSUME T # {} PROVE FALSE
      OBVIOUS
    <3>1. T \subseteq Nat
      BY <2>2
    <3>2. PICK m \in T : \A k \in T : m <= k
      <4> HIDE DEF T
      <4> QED
        BY <3>1, Least
    <3>3. PICK i : i = n + 4 - m /\ i \in D /\ ~Ok(i) /\ m \in 0..(n + 4)
      BY <3>2
    <3>4. i \in 1..n
      BY <2>2, <2>3, <3>3
    <3>5. PICK j : j = i + chars[i].size
      OBVIOUS
    <3>6. j \in D /\ n + 4 - j \in 0..(n + 4) /\ n + 4 - (n + 4 - j) = j /\ n + 4 - j < m
      BY <2>2, <3>3, <3>4, <3>5
    <3>7. n + 4 - j \notin T
      <4> HIDE DEF T
      <4> QED
        BY <2>2, <3>1, <3>2, <3>6
    <3>8. Ok(j)
      BY <3>6, <3>7
    <3> QED
      BY <2>3, <3>3, <3>4, <3>5, <3>8
  <2>5. \A i \in D : Ok(i)
    <3> SUFFICES ASSUME NEW i \in D PROVE Ok(i)
      OBVIOUS
    <3>1. n + 4 - i \in 0..(n + 4) /\ n + 4 - (n + 4 - i) = i
      BY <2>2
    <3> QED
      BY <2>4, <3>1
  <2> HIDE DEF T
  <2>6. 1 \in 1..n /\ \A i \in 1..n : i + chars[i].size \in D
    BY <2>2
  <2>7. ASSUME NEW i \in 1..n, f[i][1] = f[i][2]
        PROVE  LET j == i + chars[i].size IN chars[i].valid /\ f[j][1] = f[j][2]
    <3>1. PICK j : j = i + chars[i].size
      OBVIOUS
    <3>2. j \in D /\ Ok(j) /\ Ok(i)
      BY <2>2, <2>5, <2>6, <3>1
    <3>3. f[i][1] = f[j][1] + (IF chars[i].valid THEN 1 ELSE 0) /\ f[i][2] = f[j][2] + 1
      BY <2>3, <3>1
    <3>4. chars[i].valid /\ f[j][1] = f[j][2]
      <4>1. PICK x, y, u, v : x = f[i][1] /\ y = f[i][2] /\ u = f[j][1] /\ v = f[j][2]
        OBVIOUS
      <4>2. x = y /\ u \in Nat /\ v \in Nat /\ u <= v
        BY <2>7, <3>2, <4>1
      <4>3. CASE chars[i].valid
        <5>1. x = u + 1 /\ y = v + 1
          BY <3>3, <4>1, <4>3
        <5> QED
          BY <4>1, <4>2, <4>3, <5>1
      <4>4. CASE ~chars[i].valid
        <5>1. x = u + 0 /\ y = v + 1
          BY <3>3, <4>1, <4>4
        <5>2. u + 0 = v + 1
          BY <4>2, <5>1
        <5>3. u = v + 1
          BY <4>2, <5>2
        <5>4. FALSE
          BY <4>2, <5>3
        <5> QED
          BY <5>4
      <4> QED
        BY <4>3, <4>4
    <3> QED
      BY <3>1, <3>4
  <2>8. Scan(chars).n = f[1][1] /\ Scan(chars).d = f[1][2]
    BY <2>1 DEF Conf
  <2>9. f[1][1] \in Nat /\ f[1][2] \in Nat \ {0} /\ f[1][1] <= f[1][2]
    <3>1. Ok(1) /\ Ok(1 + chars[1].size)
      BY <2>2, <2>5, <2>6
    <3> QED
      BY <2>3, <2>6, <3>1
  <2>10. ASSUME f[1][1] = f[1][2], NEW a, NEW b, a = 1 + chars[1].size,
                a <= n => b = a + chars[a].size
         PROVE  a <= n /\ b <= n => chars[b].valid
    <3>1. chars[1].valid /\ f[a][1] = f[a][2]
      BY <2>6, <2>7, <2>10
    <3>2. a \in Nat /\ a >= 1
      BY <2>2, <2>6, <2>10
    <3>3. ASSUME a <= n PROVE chars[a].valid /\ f[b][1] = f[b][2] /\ b \in Nat /\ b >= 1
      <4>1. a \in 1..n
        BY <2>2, <3>2, <3>3
      <4>2. b = a + chars[a].size
        BY <2>10, <3>3
      <4> QED
        BY <2>2, <2>7, <3>1, <4>1, <4>2
    <3>4. ASSUME a <= n, b <= n PROVE chars[b].valid
      <4>1. b \in 1..n
        BY <2>2, <3>3, <3>4
      <4> QED
        BY <2>7, <3>3, <3>4, <4>1
    <3> QED
      BY <3>4
  <2>11. f[1][1] = f[1][2] => chars[1].valid
    BY <2>6, <2>7
  <2> QED
    BY <1>1, <2>8, <2>9, <2>10, <2>11 DEF n
<1> QED
  BY <1>0, <1>1

IsShare(c) == c.n \in Nat /\ c.d \in Nat \ {0} /\ c.n <= c.d

LEMMA Utf8Lengths ==
  /\ \A byte \in 0..255 : Utf8Length(byte) \in 0..4
  /\ Utf8Length(0) = 1 /\ Utf8Length(254) = 0 /\ Utf8Length(255) = 0
BY DEF Utf8Length

LEMMA Utf8Chars ==
  ASSUME NEW data \in Seq(0..255)
  PROVE  LET chars == [i \in DOMAIN data |-> Utf8Char(data, i)]
         IN  /\ AreChars(chars) /\ Len(chars) = Len(data)
             /\ \A i \in DOMAIN data :
                  /\ Utf8Length(data[i]) = 0 => ~chars[i].valid
                  /\ Utf8Length(data[i]) = 1 => chars[i].size = 1
<1> DEFINE chars == [i \in DOMAIN data |-> Utf8Char(data, i)]
<1>1. Len(data) \in Nat /\ DOMAIN data = 1..Len(data) /\ \A i \in DOMAIN data : data[i] \in 0..255
  BY SeqOfAny, SeqFacts
<1>2. DOMAIN chars = DOMAIN data /\ chars = [i \in DOMAIN data |-> chars[i]]
      /\ \A i \in DOMAIN data : chars[i] = Utf8Char(data, i)
  OBVIOUS
<1> HIDE DEF chars
<1>3. ASSUME NEW i \in DOMAIN data
      PROVE  /\ chars[i].size \in 1..4 /\ chars[i].valid \in BOOLEAN
             /\ Utf8Length(data[i]) = 0 => ~chars[i].valid
             /\ Utf8Length(data[i]) = 1 => chars[i].size = 1
  <2>1. PICK n : n = Utf8Length(data[i])
    OBVIOUS
  <2>2. n \in 0..4
    BY <1>1, <2>1, Utf8Lengths
  <2>3. PICK valid : valid = (n > 0 /\ i + n - 1 <= Len(data)
                              /\ \A j \in (i + 1)..(i + n - 1) : data[j] \in 128..191)
    OBVIOUS
  <2>4. chars[i] = [size |-> IF n = 0 THEN 1 ELSE n, valid |-> valid]
    BY <1>2, <2>1, <2>3 DEF Utf8Char
  <2>5. chars[i].size = (IF n = 0 THEN 1 ELSE n) /\ chars[i].valid = valid
    BY <2>4
  <2>6. chars[i].size \in 1..4 /\ (n = 1 => chars[i].size = 1)
    BY <2>2, <2>5
  <2>7. valid \in BOOLEAN /\ (n = 0 => ~valid)
    <3>1. n = 0 => ~(n > 0)
      BY <2>2
    <3> QED
      BY <2>3, <3>1, Zenon
  <2> QED
    BY <2>1, <2>5, <2>6, <2>7, Zenon
<1>4. IsSeq(chars) /\ Len(chars) = Len(data)
  BY <1>1, <1>2, SeqByIndex
<1> QED
  BY <1>2, <1>3, <1>4 DEF AreChars, chars

LEMMA PairShares ==
  ASSUME NEW data \in Seq(0..255)
  PROVE  /\ IsShare(CheckPairs(data, GbkPair)) /\ IsShare(CheckPairs(data, SjisPair))
         /\ IsShare(CheckPairs(data, Big5Pair))
<1> DEFINE P(chars) == /\ DOMAIN chars = DOMAIN data /\ chars = [i \in DOMAIN data |-> chars[i]]
                       /\ \A i \in DOMAIN data : chars[i] \in [size : {1, 2}, valid : BOOLEAN]
<1>1. Len(data) \in Nat /\ DOMAIN data = 1..Len(data) /\ \A i \in DOMAIN data : data[i] \in 0..255
  BY SeqOfAny, SeqFacts
<1>2. ASSUME NEW chars, P(chars) PROVE IsShare(Scan(chars))
  <2>1. IsSeq(chars)
    BY <1>1, <1>2, SeqByIndex
  <2>2. \A i \in DOMAIN chars : chars[i].size \in 1..4 /\ chars[i].valid \in BOOLEAN
    BY <1>2
  <2> QED
    BY <2>1, <2>2, ScanFacts DEF AreChars, IsShare
<1>3. \A i \in DOMAIN data : ~(data[i] < 128 /\ data[i] >= 128)
  <2>1. \A x \in 0..255 : ~(x < 128 /\ x >= 128)
    OBVIOUS
  <2> QED
    BY <1>1, <2>1, Zenon
<1>4. IsShare(CheckPairs(data, GbkPair))
  <2> DEFINE chars == [i \in DOMAIN data |-> PairChar(data, i, GbkPair)]
  <2>1. \A i \in DOMAIN data : PairChar(data, i, GbkPair) \in [size : {1, 2}, valid : BOOLEAN]
    BY <1>3, Zenon DEF PairChar, GbkPair
  <2>2. P(chars)
    BY <2>1
  <2> QED
    BY <1>2, <2>2 DEF CheckPairs
<1>5. IsShare(CheckPairs(data, SjisPair))
  <2> DEFINE chars == [i \in DOMAIN data |-> PairChar(data, i, SjisPair)]
  <2>1. \A i \in DOMAIN data : PairChar(data, i, SjisPair) \in [size : {1, 2}, valid : BOOLEAN]
    BY <1>3, Zenon DEF PairChar, SjisPair
  <2>2. P(chars)
    BY <2>1
  <2> QED
    BY <1>2, <2>2 DEF CheckPairs
<1>6. IsShare(CheckPairs(data, Big5Pair))
  <2> DEFINE chars == [i \in DOMAIN data |-> PairChar(data, i, Big5Pair)]
  <2>1. \A i \in DOMAIN data : PairChar(data, i, Big5Pair) \in [size : {1, 2}, valid : BOOLEAN]
    BY <1>3, Zenon DEF PairChar, Big5Pair
  <2>2. P(chars)
    BY <2>1
  <2> QED
    BY <1>2, <2>2 DEF CheckPairs
<1> QED
  BY <1>4, <1>5, <1>6

LEMMA Shares ==
  ASSUME NEW data \in Seq(0..255), NEW i \in DOMAIN SupportedCharsets
  PROVE  IsShare(Candidate(data, i).conf)
<1>1. SupportedCharsets[i] \in {"utf8", "gbk", "sjis", "big5", "latin", "cp1252"}
  BY DEF SupportedCharsets
<1>2. PICK c : c = SupportedCharsets[i]
  OBVIOUS
<1>3. Candidate(data, i).conf = Confidence(data, c)
  BY <1>2 DEF Candidate
<1>4. IsShare(CheckUtf8(data))
  <2>1. CheckUtf8(data) = Scan([j \in DOMAIN data |-> Utf8Char(data, j)])
    BY DEF CheckUtf8
  <2>2. AreChars([j \in DOMAIN data |-> Utf8Char(data, j)])
    BY Utf8Chars
  <2> QED
    BY <2>1, <2>2, ScanFacts DEF IsShare
<1>5. IsShare(SingleByte(data, 7, 2, 5)) /\ IsShare(SingleByte(data, 6, 1, 3))
  BY DEF IsShare, SingleByte, Conf
<1>6. Confidence(data, c) \in {CheckUtf8(data), CheckPairs(data, GbkPair), CheckPairs(data, SjisPair),
                              CheckPairs(data, Big5Pair), SingleByte(data, 7, 2, 5),
                              SingleByte(data, 6, 1, 3)}
  BY <1>1, <1>2, Zenon DEF Confidence
<1> QED
  BY <1>3, <1>4, <1>5, <1>6, PairShares

\* Whatever else a text in UTF-8 may look like, it is taken for UTF-8.
LEMMA Utf8Detected ==
  ASSUME NEW data \in Seq(0..255), AllUtf8(data)
  PROVE  DetectEncoding(data) = "utf8" /\ Bom(data) \in {"none", "utf8"}
<1> DEFINE chars == [i \in DOMAIN data |-> Utf8Char(data, i)]
<1>1. /\ AreChars(chars) /\ Len(chars) = Len(data)
      /\ \A i \in DOMAIN data : /\ Utf8Length(data[i]) = 0 => ~chars[i].valid
                                /\ Utf8Length(data[i]) = 1 => chars[i].size = 1
  BY Utf8Chars
<1>2. Scan(chars).n = Scan(chars).d
  BY DEF AllUtf8, CheckUtf8
<1> HIDE DEF chars
<1>3. /\ chars # <<>> /\ chars[1].valid
      /\ \A a, b : /\ a = 1 + chars[1].size
                   /\ (a <= Len(chars) => b = a + chars[a].size)
                   => (a <= Len(chars) /\ b <= Len(chars) => chars[b].valid)
  BY <1>1, <1>2, ScanFacts
<1>4. Bom(data) \in {"none", "utf8"}
  <2>0. Len(data) \in Nat /\ DOMAIN data = 1..Len(data) /\ IsSeq(data)
    BY SeqOfAny, SeqFacts
  <2>s. ASSUME NEW m \in 1..Len(data), NEW i \in 1..m PROVE SubSeq(data, 1, m)[i] = data[i]
    BY <2>0, SubSeqFacts
  <2> DEFINE starts(mark) == Len(data) >= 3 /\ Len(data) >= Len(mark) /\ SubSeq(data, 1, Len(mark)) = mark
  <2>1. ~starts(<<255, 254>>)
    <3> SUFFICES ASSUME starts(<<255, 254>>) PROVE FALSE
      OBVIOUS
    <3>0. 2 \in 1..Len(data) /\ SubSeq(data, 1, 2) = <<255, 254>>
      BY <2>0
    <3>1. data[1] = 255 /\ 1 \in DOMAIN data
      <4>1. SubSeq(data, 1, 2)[1] = data[1]
        BY <2>s, <3>0
      <4>2. SubSeq(data, 1, 2)[1] = 255
        <5>1. PICK u : u = SubSeq(data, 1, 2)
          OBVIOUS
        <5>2. u = <<255, 254>>
          BY <3>0, <5>1
        <5>3. u[1] = 255
          BY <5>2
        <5> QED
          BY <5>1, <5>3
      <4>3. 1 \in DOMAIN data
        BY <2>0, <3>0
      <4> QED
        BY <4>1, <4>2, <4>3, Zenon
    <3>2. Utf8Length(data[1]) = 0
      BY <3>1, Utf8Lengths, Zenon
    <3> QED
      BY <1>1, <1>3, <3>1, <3>2
  <2>2. ~starts(<<254, 255>>)
    <3> SUFFICES ASSUME starts(<<254, 255>>) PROVE FALSE
      OBVIOUS
    <3>0. 2 \in 1..Len(data) /\ SubSeq(data, 1, 2) = <<254, 255>>
      BY <2>0
    <3>1. data[1] = 254 /\ 1 \in DOMAIN data
      <4>1. SubSeq(data, 1, 2)[1] = data[1]
        BY <2>s, <3>0
      <4>2. SubSeq(data, 1, 2)[1] = 254
        <5>1. PICK u : u = SubSeq(data, 1, 2)
          OBVIOUS
        <5>2. u = <<254, 255>>
          BY <3>0, <5>1
        <5>3. u[1] = 254
          BY <5>2
        <5> QED
          BY <5>1, <5>3
      <4>3. 1 \in DOMAIN data
        BY <2>0, <3>0
      <4> QED
        BY <4>1, <4>2, <4>3, Zenon
    <3>2. Utf8Length(data[1]) = 0
      BY <3>1, Utf8Lengths, Zenon
    <3> QED
      BY <1>1, <1>3, <3>1, <3>2
  <2>3. ~starts(<<0, 0, 254, 255>>)
    <3> SUFFICES ASSUME starts(<<0, 0, 254, 255>>) PROVE FALSE
      OBVIOUS
    <3>0. 4 \in 1..Len(data) /\ SubSeq(data, 1, 4) = <<0, 0, 254, 255>>
      BY <2>0
    <3>1. data[1] = 0 /\ data[2] = 0 /\ data[3] = 254 /\ {1, 2, 3} \subseteq DOMAIN data /\ 3 <= Len(data)
      <4>1. SubSeq(data, 1, 4)[1] = data[1] /\ SubSeq(data, 1, 4)[2] = data[2] /\ SubSeq(data, 1, 4)[3] = data[3]
        BY <2>s, <3>0
      <4>2. PICK u : u = SubSeq(data, 1, 4)
        OBVIOUS
      <4>3. u = <<0, 0, 254, 255>>
        BY <3>0, <4>2
      <4>4. u[1] = 0 /\ u[2] = 0 /\ u[3] = 254
        BY <4>3
      <4>5. {1, 2, 3} \subseteq DOMAIN data /\ 3 <= Len(data)
        BY <2>0, <3>0
      <4> QED
        BY <4>1, <4>2, <4>4, <4>5, Zenon
    <3>2. chars[1].size = 1 /\ chars[2].size = 1 /\ ~chars[3].valid
      <4>1. Utf8Length(data[1]) = 1 /\ Utf8Length(data[2]) = 1 /\ Utf8Length(data[3]) = 0
        BY <3>1, Utf8Lengths, Zenon
      <4> QED
        BY <1>1, <3>1, <4>1
    <3>3. PICK a, b : a = 1 + chars[1].size /\ b = a + chars[a].size
      OBVIOUS
    <3>4. a = 2 /\ b = 3
      BY <3>2, <3>3
    <3> QED
      BY <1>1, <1>3, <2>0, <3>1, <3>2, <3>3, <3>4
  <2> HIDE DEF starts
  <2>4. Bom(data) = CASE starts(<<239, 187, 191>>) -> "utf8"
                      [] starts(<<255, 254>>) -> "utf16le"
                      [] starts(<<254, 255>>) -> "utf16be"
                      [] starts(<<0, 0, 254, 255>>) -> "utf32be"
                      [] OTHER -> "none"
    BY Zenon DEF Bom, starts
  <2> QED
    BY <2>1, <2>2, <2>3, <2>4, Zenon
<1>5. DetectEncoding(data) = "utf8"
  <2> DEFINE above(i, j) == Above(Candidate(data, i).conf, Candidate(data, j).conf)
             I == Candidates(data)
             Is(i) == \A j \in I : ~above(j, i) /\ (j < i => above(i, j))
  <2>1. Candidate(data, 1) = [charset |-> "utf8", conf |-> CheckUtf8(data)]
    <3>1. Confidence(data, "utf8") = CheckUtf8(data)
      BY Zenon DEF Confidence
    <3>2. SupportedCharsets[1] = "utf8"
      BY DEF SupportedCharsets
    <3> QED
      BY <3>1, <3>2 DEF Candidate
  <2>2. Candidate(data, 1).conf.n = Candidate(data, 1).conf.d /\ Candidate(data, 1).charset = "utf8"
    BY <2>1 DEF AllUtf8
  <2>3. DOMAIN SupportedCharsets = 1..6
    BY DEF SupportedCharsets
  <2>4. \A i \in 1..6 : IsShare(Candidate(data, i).conf)
    BY <2>3, Shares
  <2>5. 1 \in I
    <3>1. PICK z : z = Candidate(data, 1).conf.n /\ z = Candidate(data, 1).conf.d
      BY <2>2
    <3>2. z \in Nat \ {0}
      BY <2>4, <3>1 DEF IsShare
    <3>3. z * 10 > 1 * z
      BY <3>2
    <3>4. Above(Candidate(data, 1).conf, Conf(1, 10))
      BY <3>1, <3>3 DEF Above, Conf
    <3> QED
      BY <2>3, <3>4 DEF Candidates
  <2>6. I \subseteq 1..6
    BY <2>3 DEF Candidates
  <2>7. ASSUME NEW i \in 1..6 PROVE ~above(i, 1)
    <3>1. PICK x, y, z : x = Candidate(data, i).conf.n /\ y = Candidate(data, i).conf.d
                         /\ z = Candidate(data, 1).conf.n
      OBVIOUS
    <3>2. x \in Nat /\ y \in Nat /\ z \in Nat /\ x <= y /\ z > 0
      <4>1. IsShare(Candidate(data, i).conf) /\ IsShare(Candidate(data, 1).conf)
        BY <2>4
      <4>2. z \in Nat \ {0}
        BY <2>2, <3>1, <4>1 DEF IsShare
      <4> QED
        BY <3>1, <4>1, <4>2 DEF IsShare
    <3>3. ~(x * z > z * y)
      BY <3>2
    <3> QED
      BY <2>2, <3>1, <3>3 DEF Above
  <2>8. Is(1)
    BY <2>6, <2>7
  <2>9. ASSUME NEW i \in I, Is(i) PROVE i = 1
    <3>1. 1 < i => above(i, 1)
      BY <2>5, <2>9
    <3> QED
      BY <2>6, <2>7, <3>1
  <2> HIDE DEF I, above
  <2>10. (CHOOSE i \in I : Is(i)) = 1
    BY <2>5, <2>8, <2>9
  <2>11. Best(data) = Candidate(data, 1)
    <3>1. Best(data) = IF I = {} THEN NoCandidate ELSE Candidate(data, CHOOSE i \in I : Is(i))
      BY DEF Best, I, above
    <3> QED
      BY <2>5, <2>10, <3>1
  <2>12. DetectEncoding(data) = IF Bom(data) # "none" THEN Bom(data)
                                ELSE IF Best(data).charset = "none" \/ Above(Conf(8, 10), Best(data).conf)
                                     THEN "utf8" ELSE Best(data).charset
    BY DEF DetectEncoding
  <2> QED
    BY <1>4, <2>2, <2>11, <2>12
<1> QED
  BY <1>4, <1>5

-----------------------------------------------------------------------------
(* Where the parts of a concatenation lie.                                   *)

\* Counting up to n.
LEMMA UpTo ==
  ASSUME NEW n \in Nat, NEW G, 0 \in G, \A k \in 1..n : k - 1 \in G => k \in G
  PROVE  \A k \in 0..n : k \in G
<1> DEFINE T == {k \in 0..n : k \notin G}
<1> SUFFICES ASSUME T # {} PROVE FALSE
  OBVIOUS
<1>1. T \subseteq Nat
  OBVIOUS
<1>2. PICK k \in T : \A m \in T : k <= m
  <2> HIDE DEF T
  <2> QED
    BY <1>1, Least
<1>3. k \in 0..n /\ k \notin G
  BY <1>2
<1>4. k \in 1..n /\ k - 1 \in 0..n
  BY <1>3
<1>5. k - 1 \notin G
  BY <1>3, <1>4
<1>6. k - 1 \in T
  BY <1>4, <1>5
<1> HIDE DEF T
<1> QED
  BY <1>2, <1>3, <1>6

\* L is the sequences of u one after the other, the k-th one ending at O[k].
Laid(u, O, L) ==
  /\ IsSeq(L) /\ IsSeq(u) /\ \A k \in 1..Len(u) : IsSeq(u[k])
  /\ O \in [0..Len(u) -> Nat] /\ O[0] = 0 /\ Len(L) = O[Len(u)]
  /\ \A k \in 1..Len(u) : O[k] = O[k - 1] + Len(u[k])
  /\ \A k \in 1..Len(u) : \A j \in 1..Len(u[k]) : L[O[k - 1] + j] = u[k][j]

LEMMA ConcatPlaces ==
  ASSUME NEW S, NEW x \in Seq(S), NEW y \in Seq(S), NEW z, z = x \o y
  PROVE  /\ Len(x) \in Nat /\ Len(y) \in Nat /\ Len(z) = Len(x) + Len(y)
         /\ \A p \in 1..Len(x) : z[p] = x[p]
         /\ \A j \in 1..Len(y) : z[Len(x) + j] = y[j]
<1>1. Len(x) \in Nat /\ Len(y) \in Nat
  OBVIOUS
<1>2. /\ Len(x \o y) = Len(x) + Len(y)
      /\ \A i \in 1..(Len(x) + Len(y)) : (x \o y)[i] = IF i <= Len(x) THEN x[i] ELSE y[i - Len(x)]
  BY ConcatProperties
<1> PICK m, n : m = Len(x) /\ n = Len(y)
  OBVIOUS
<1>3. \A p \in 1..m : z[p] = x[p]
  BY <1>1, <1>2
<1>4. \A j \in 1..n : z[m + j] = y[j]
  BY <1>1, <1>2
<1> QED
  BY <1>1, <1>2, <1>3, <1>4

LEMMA Grows == \A b, c, l \in Nat : b <= c => b <= c + l
  OBVIOUS

LEMMA FlattenLaid ==
  ASSUME NEW u, IsSeq(u), \A i \in DOMAIN u : IsSeq(u[i])
  PROVE  \E O : Laid(u, O, FlattenSeq(u))
<1> DEFINE n == Len(u)
           L == FlattenSeq(u)
<1>1. n \in Nat /\ DOMAIN u = 1..n /\ IsSeq(L)
  BY SeqFacts, FlattenElements
<1>2. CASE n = 0
  <2>1. u = <<>>
    BY <1>1, <1>2 DEF IsSeq
  <2>2. L = <<>>
    BY <2>1 DEF FlattenSeq
  <2> DEFINE O == [k \in 0..0 |-> 0]
  <2>3. O \in [0..0 -> Nat] /\ O[0] = 0
    OBVIOUS
  <2> HIDE DEF O, L, n
  <2>4. Len(L) = 0 /\ Len(u) = 0 /\ 1..0 = {}
    BY <2>1, <2>2, EmptySeqs
  <2>5. Laid(u, O, L)
    BY <1>1, <2>3, <2>4 DEF Laid
  <2> QED
    BY <2>5 DEF L
<1>3. CASE n # 0
  <2>1. PICK S : u \in Seq(Seq(S))
    BY CommonElements
  <2>2. \A i \in 1..n : u[i] \in Seq(S) /\ Len(u[i]) \in Nat
    BY <1>1, <2>1
  <2>3. u # <<>>
    BY <1>3, EmptySeqs
  <2>4. PICK f \in [1..n -> Seq(S)] :
          f[1] = u[1] /\ (\A k \in 2..n : f[k] = f[k - 1] \o u[k]) /\ L = f[n]
    BY <2>1, <2>3, FlattenFacts
  <2> HIDE DEF L, n
  <2> DEFINE O == [k \in 0..n |-> IF k = 0 THEN 0 ELSE Len(f[k])]
             Good(k) == \A i \in 1..k : O[i] <= O[k] /\ \A j \in 1..Len(u[i]) : f[k][O[i - 1] + j] = u[i][j]
             G == {k \in 0..n : Good(k)}
  <2>5. O \in [0..n -> Nat] /\ O[0] = 0 /\ (\A k \in 1..n : O[k] = Len(f[k]))
    <3>1. \A k \in 1..n : Len(f[k]) \in Nat
      BY <2>4
    <3>2. \A k \in 0..n : k # 0 => k \in 1..n
      BY <1>1
    <3> QED
      BY <1>1, <3>1, <3>2
  <2> HIDE DEF O
  <2>6. ASSUME NEW k \in 1..n
        PROVE  O[k] = O[k - 1] + Len(u[k]) /\ \A j \in 1..Len(u[k]) : f[k][O[k - 1] + j] = u[k][j]
    <3>1. CASE k = 1
      <4>1. f[1] = u[1] /\ O[1] = Len(f[1]) /\ O[0] = 0 /\ Len(u[1]) \in Nat
        BY <2>2, <2>4, <2>5, <3>1
      <4> QED
        BY <3>1, <4>1
    <3>2. CASE k # 1
      <4>1. k \in 2..n /\ k - 1 \in 1..n
        BY <1>1, <3>2
      <4>0. PICK x, y, z : x = f[k - 1] /\ y = u[k] /\ z = f[k]
        OBVIOUS
      <4>2. x \in Seq(S) /\ y \in Seq(S) /\ z = x \o y /\ O[k] = Len(z) /\ O[k - 1] = Len(x)
        BY <2>2, <2>4, <2>5, <4>0, <4>1
      <4>3. Len(z) = Len(x) + Len(y) /\ \A j \in 1..Len(y) : z[Len(x) + j] = y[j]
        <5>1. x \in Seq(S) /\ y \in Seq(S) /\ z = x \o y
          BY <4>2
        <5> QED
          BY <5>1, ConcatPlaces
      <4> QED
        BY <4>0, <4>2, <4>3
    <3> QED
      BY <3>1, <3>2
  <2>7. 0 \in G
    BY <1>1
  <2>8. ASSUME NEW k \in 1..n, k - 1 \in G PROVE k \in G
    <3>1. Good(k - 1)
      BY <2>8
    <3>2. ASSUME NEW i \in 1..k
          PROVE  O[i] <= O[k] /\ \A j \in 1..Len(u[i]) : f[k][O[i - 1] + j] = u[i][j]
      <4>1. CASE i = k
        <5>1. O[k] \in Nat
          BY <1>1, <2>5
        <5> QED
          BY <2>6, <4>1, <5>1
      <4>2. CASE i # k
        <5>1. i \in 1..(k - 1) /\ k \in 2..n /\ k - 1 \in 1..n /\ i \in 1..n /\ i - 1 \in 0..n /\ k - 1 \in 0..n
          BY <1>1, <4>2
        <5>9. PICK x, y, z : x = f[k - 1] /\ y = u[k] /\ z = f[k]
          OBVIOUS
        <5>2. x \in Seq(S) /\ y \in Seq(S) /\ z = x \o y /\ O[k - 1] = Len(x) /\ O[k] = O[k - 1] + Len(y)
          BY <2>2, <2>4, <2>5, <2>6, <5>1, <5>9
        <5>0. x \in Seq(S) /\ y \in Seq(S) /\ Len(x) \in Nat /\ Len(y) \in Nat
          BY <5>2
        <5>3. O[i] <= Len(x) /\ (\A j \in 1..Len(u[i]) : x[O[i - 1] + j] = u[i][j])
          BY <3>1, <5>1, <5>2, <5>9
        <5>4. O[i] = O[i - 1] + Len(u[i]) /\ O[i - 1] \in Nat /\ O[i] \in Nat /\ Len(u[i]) \in Nat
          BY <2>2, <2>5, <2>6, <5>1
        <5>5. \A p \in 1..Len(x) : z[p] = x[p]
          <6>1. x \in Seq(S) /\ y \in Seq(S) /\ z = x \o y
            BY <5>2
          <6> QED
            BY <6>1, ConcatPlaces
        <5>6. ASSUME NEW j \in 1..Len(u[i]) PROVE f[k][O[i - 1] + j] = u[i][j]
          <6> PICK a, b, c, l : a = O[i - 1] /\ b = O[i] /\ c = Len(x) /\ l = Len(u[i])
            OBVIOUS
          <6>0. a \in Nat /\ b = a + l /\ b <= c /\ c \in Nat /\ l \in Nat /\ j \in 1..l
            BY <5>0, <5>2, <5>3, <5>4
          <6>1. O[i - 1] + j \in 1..Len(x)
            <7>1. a + j \in 1..c
              BY <6>0
            <7> QED
              BY <7>1
          <6> QED
            BY <5>2, <5>3, <5>5, <5>9, <6>1
        <5>7. O[i] <= O[k]
          <6> PICK b, c, d, l : b = O[i] /\ c = Len(x) /\ d = O[k] /\ l = Len(y)
            OBVIOUS
          <6>1. b \in Nat /\ b <= c /\ c \in Nat /\ l \in Nat /\ d = c + l
            BY <5>0, <5>2, <5>3, <5>4
          <6>2. b <= d
            BY <6>1, Grows, Zenon
          <6> QED
            BY <6>2
        <5> QED
          BY <5>6, <5>7
      <4> QED
        BY <4>1, <4>2
    <3> QED
      BY <1>1, <3>2
  <2>9. Good(n)
    <3> HIDE DEF Good
    <3>1. \A k \in 0..n : k \in G
      <4> HIDE DEF G
      <4> QED
        BY <1>1, <2>7, <2>8, UpTo
    <3>2. n \in 0..n
      BY <1>1
    <3> QED
      BY <3>1, <3>2
  <2>10. Laid(u, O, L)
    <3>1. Len(L) = O[n] /\ \A k \in 1..n : \A j \in 1..Len(u[k]) : L[O[k - 1] + j] = u[k][j]
      BY <1>1, <1>3, <2>4, <2>5, <2>9
    <3>2. \A k \in 1..n : IsSeq(u[k])
      BY <1>1
    <3> QED
      BY <1>1, <2>5, <2>6, <3>1, <3>2 DEF Laid, n
  <2> QED
    BY <2>10 DEF L
<1> QED
  BY <1>2, <1>3

\* Every place of a concatenation is one of a part.
LEMMA LaidPlaces ==
  ASSUME NEW u, NEW O, NEW L, Laid(u, O, L), NEW p \in 1..Len(L)
  PROVE  \E k \in 1..Len(u) : \E j \in 1..Len(u[k]) : p = O[k - 1] + j
<1> DEFINE n == Len(u)
           T == {k \in 0..n : p <= O[k]}
<1>1. n \in Nat /\ O \in [0..n -> Nat] /\ O[0] = 0 /\ Len(L) = O[n]
      /\ \A k \in 1..n : O[k] = O[k - 1] + Len(u[k])
  BY SeqFacts DEF Laid
<1> HIDE DEF n
<1>2. n \in T /\ T \subseteq Nat
  BY <1>1
<1>3. PICK k \in T : \A m \in T : k <= m
  <2> HIDE DEF T
  <2> QED
    BY <1>2, Least
<1>4. k \in 0..n /\ p <= O[k] /\ p \in Nat /\ p >= 1
  BY <1>1, <1>3
<1>5. k # 0
  BY <1>1, <1>4
<1>6. k \in 1..n /\ k - 1 \in 0..n
  BY <1>1, <1>4, <1>5
<1>7. ~(p <= O[k - 1])
  <2>1. k - 1 \notin T
    <3> HIDE DEF T
    <3> QED
      BY <1>1, <1>3, <1>6
  <2> QED
    BY <1>6, <2>1
<1>8. Len(u[k]) \in Nat /\ O[k] = O[k - 1] + Len(u[k]) /\ O[k - 1] \in Nat
  BY <1>1, <1>6, SeqFacts DEF Laid, n
<1>9. p - O[k - 1] \in 1..Len(u[k])
  BY <1>4, <1>7, <1>8
<1>10. p = O[k - 1] + (p - O[k - 1])
  BY <1>4, <1>8
<1> QED
  BY <1>6, <1>9, <1>10 DEF n

\* One part more in front.
LEMMA LaidBehind ==
  ASSUME NEW u, NEW O, NEW L, Laid(u, O, L), NEW h, IsSeq(h)
  PROVE  \E P : Laid(<<h>> \o u, P, h \o L)
<1> DEFINE n == Len(u)
           v == <<h>> \o u
           M == h \o L
           m == Len(h)
           P == [k \in 0..(n + 1) |-> IF k = 0 THEN 0 ELSE m + O[k - 1]]
<1>1. /\ n \in Nat /\ m \in Nat /\ O \in [0..n -> Nat] /\ O[0] = 0 /\ Len(L) = O[n]
      /\ \A k \in 1..n : O[k] = O[k - 1] + Len(u[k])
      /\ \A k \in 1..n : \A j \in 1..Len(u[k]) : L[O[k - 1] + j] = u[k][j]
      /\ IsSeq(u) /\ IsSeq(L) /\ \A k \in 1..n : IsSeq(u[k]) /\ Len(u[k]) \in Nat
  BY SeqFacts DEF Laid
<1>2. /\ IsSeq(v) /\ Len(v) = n + 1 /\ v[1] = h /\ \A k \in 1..n : v[k + 1] = u[k]
  <2>1. u \in Seq(Range(u) \cup {h}) /\ <<h>> \in Seq(Range(u) \cup {h})
    BY <1>1 DEF IsSeq
  <2>2. /\ v \in Seq(Range(u) \cup {h}) /\ Len(v) = Len(u) + 1
        /\ v[1] = h /\ \A k \in 1..Len(u) : v[k + 1] = u[k]
    BY <2>1
  <2> QED
    BY <2>2, SeqOfAny
<1>3. IsSeq(M) /\ Len(M) = m + Len(L) /\ (\A j \in 1..m : M[j] = h[j])
      /\ \A j \in 1..Len(L) : M[m + j] = L[j]
  <2>1. h \in Seq(Range(h) \cup Range(L)) /\ L \in Seq(Range(h) \cup Range(L))
    BY <1>1 DEF IsSeq
  <2>2. /\ M \in Seq(Range(h) \cup Range(L)) /\ Len(M) = Len(h) + Len(L)
        /\ (\A j \in 1..Len(h) : M[j] = h[j]) /\ \A j \in 1..Len(L) : M[Len(h) + j] = L[j]
    BY <2>1
  <2> QED
    BY <2>2, SeqOfAny
<1> HIDE DEF n, v, M, m
<1>4. P \in [0..(n + 1) -> Nat] /\ P[0] = 0 /\ \A k \in 0..n : P[k + 1] = m + O[k]
  <2>1. \A k \in 0..(n + 1) : k # 0 => k - 1 \in 0..n
    BY <1>1
  <2>2. \A k \in 0..(n + 1) : k # 0 => m + O[k - 1] \in Nat
    BY <1>1, <2>1
  <2>3. \A k \in 0..n : k + 1 \in 0..(n + 1) /\ k + 1 # 0 /\ (k + 1) - 1 = k
    BY <1>1
  <2> QED
    BY <1>1, <2>2, <2>3
<1> HIDE DEF P
<1>5. ASSUME NEW k \in 1..(n + 1)
      PROVE  /\ IsSeq(v[k]) /\ P[k] = P[k - 1] + Len(v[k])
             /\ \A j \in 1..Len(v[k]) : M[P[k - 1] + j] = v[k][j]
  <2>1. CASE k = 1
    <3>1. P[1] = m + O[0] /\ P[0] = 0
      <4>1. 0 \in 0..n /\ 0 + 1 = 1
        BY <1>1
      <4> QED
        BY <1>4, <4>1
    <3> QED
      BY <1>1, <1>2, <1>3, <2>1, <3>1 DEF m
  <2>2. CASE k # 1
    <3> PICK i \in 1..n : i = k - 1
      BY <1>1, <2>2
    <3>1. v[k] = u[i] /\ k = i + 1 /\ i \in 0..n /\ i - 1 \in 0..n
      BY <1>1, <1>2
    <3>2. P[k] = m + O[i] /\ P[k - 1] = m + O[i - 1]
      <4>1. P[i + 1] = m + O[i] /\ P[(i - 1) + 1] = m + O[i - 1]
        BY <1>4, <3>1
      <4>2. (i - 1) + 1 = k - 1
        BY <3>1
      <4> QED
        BY <3>1, <4>1, <4>2
    <3>3. IsSeq(u[i]) /\ O[i] = O[i - 1] + Len(u[i]) /\ O[i] \in Nat /\ O[i - 1] \in Nat /\ Len(u[i]) \in Nat
      BY <1>1, <3>1
    <3>4. O[i] <= Len(L)
      <4> DEFINE G == {q \in 0..n : q >= i => O[i] <= O[q]}
      <4>1. 0 \in G
        BY <1>1, <3>1
      <4>2. ASSUME NEW q \in 1..n, q - 1 \in G PROVE q \in G
        <5>1. O[q] = O[q - 1] + Len(u[q]) /\ O[q] \in Nat /\ O[q - 1] \in Nat /\ Len(u[q]) \in Nat
          BY <1>1
        <5>2. q - 1 >= i => O[i] <= O[q - 1]
          BY <4>2
        <5> QED
          BY <1>1, <3>3, <5>1, <5>2
      <4>3. \A q \in 0..n : q \in G
        <5> HIDE DEF G
        <5> QED
          BY <1>1, <4>1, <4>2, UpTo
      <4>4. n \in 0..n /\ n >= i
        BY <1>1
      <4> QED
        BY <1>1, <4>3, <4>4
    <3>5. ASSUME NEW j \in 1..Len(u[i]) PROVE M[P[k - 1] + j] = u[i][j]
      <4>1. O[i - 1] + j \in 1..Len(L) /\ P[k - 1] + j = m + (O[i - 1] + j)
        <5> PICK a, b, c, l : a = O[i - 1] /\ b = O[i] /\ c = Len(L) /\ l = Len(u[i])
          OBVIOUS
        <5>1. a \in Nat /\ b = a + l /\ b <= c /\ c \in Nat /\ l \in Nat /\ j \in 1..l
          <6>1. c \in Nat
            BY <1>1
          <6> QED
            BY <3>3, <3>4, <6>1
        <5>2. a + j \in 1..c
          BY <5>1
        <5>3. m \in Nat /\ a \in Nat /\ j \in Nat
          BY <1>1, <5>1
        <5>4. (m + a) + j = m + (a + j)
          BY <5>3
        <5> QED
          BY <3>2, <5>2, <5>4
      <4>2. L[O[i - 1] + j] = u[i][j]
        BY <1>1
      <4> QED
        BY <1>3, <4>1, <4>2
    <3>6. P[k] = P[k - 1] + Len(u[i])
      BY <1>1, <3>2, <3>3
    <3> QED
      BY <3>1, <3>3, <3>5, <3>6
  <2> QED
    BY <2>1, <2>2
<1>6. Len(M) = P[n + 1]
  BY <1>1, <1>3, <1>4
<1>7. Laid(v, P, M)
  BY <1>2, <1>3, <1>4, <1>5, <1>6 DEF Laid
<1> QED
  BY <1>7 DEF v, M

\* The ends of parts that are not empty are in order, each of them once.
LEMMA Rising ==
  ASSUME NEW n \in Nat, NEW O \in [0..n -> Nat], \A k \in 1..n : O[k - 1] < O[k]
  PROVE  \A i, j \in 0..n : i < j => O[i] < O[j]
<1> SUFFICES ASSUME NEW i \in 0..n PROVE \A j \in 0..n : i < j => O[i] < O[j]
  OBVIOUS
<1> DEFINE G == {j \in 0..n : i < j => O[i] < O[j]}
<1>1. 0 \in G
  OBVIOUS
<1>2. ASSUME NEW j \in 1..n, j - 1 \in G PROVE j \in G
  <2>1. j \in 0..n /\ j - 1 \in 0..n /\ O[j - 1] < O[j] /\ O[i] \in Nat /\ O[j] \in Nat /\ O[j - 1] \in Nat
    OBVIOUS
  <2>2. i < j - 1 => O[i] < O[j - 1]
    BY <1>2
  <2>3. i < j => i < j - 1 \/ i = j - 1
    OBVIOUS
  <2>4. i < j => O[i] < O[j]
    <3>1. CASE i < j - 1
      BY <2>1, <2>2, <3>1
    <3>2. CASE i = j - 1
      BY <2>1, <3>2
    <3> QED
      BY <2>3, <3>1, <3>2
  <2> QED
    BY <2>1, <2>4
<1>3. \A j \in 0..n : j \in G
  <2> HIDE DEF G
  <2> QED
    BY <1>1, <1>2, UpTo
<1> QED
  BY <1>3

LEMMA NthRising ==
  ASSUME NEW n \in Nat, NEW O \in [0..n -> Nat], \A k \in 1..n : O[k - 1] < O[k],
         NEW I, I = {O[k] : k \in 1..n}
  PROVE  /\ IsFiniteSet(I) /\ I \subseteq Nat /\ Cardinality(I) = n
         /\ \A k \in 1..n : Nth(I, k) = O[k]
<1>1. \A i, j \in 0..n : i < j => O[i] < O[j]
  BY Rising
<1>2. \A k \in 1..n : k \in 0..n /\ O[k] \in Nat
  OBVIOUS
<1>3. \A i, j \in 1..n : i <= j <=> O[i] <= O[j]
  <2> SUFFICES ASSUME NEW i \in 1..n, NEW j \in 1..n PROVE i <= j <=> O[i] <= O[j]
    OBVIOUS
  <2>1. (i < j => O[i] < O[j]) /\ (j < i => O[j] < O[i]) /\ O[i] \in Nat /\ O[j] \in Nat
    BY <1>1, <1>2
  <2>2. i < j \/ j < i \/ i = j
    OBVIOUS
  <2> QED
    BY <2>1, <2>2
<1>4. ASSUME NEW m \in 0..n
      PROVE  IsFiniteSet({O[k] : k \in 1..m}) /\ Cardinality({O[k] : k \in 1..m}) = m
  <2> DEFINE J == {O[k] : k \in 1..m}
             f == [k \in 1..m |-> O[k]]
  <2>1. f \in Surjection(1..m, J)
    BY DEF Surjection
  <2>2. f \in Injection(1..m, J)
    <3>1. \A i, j \in 1..m : O[i] = O[j] => i = j
      <4> SUFFICES ASSUME NEW i \in 1..m, NEW j \in 1..m, O[i] = O[j] PROVE i = j
        OBVIOUS
      <4>1. i \in 1..n /\ j \in 1..n
        OBVIOUS
      <4>2. (i <= j <=> O[i] <= O[j]) /\ (j <= i <=> O[j] <= O[i]) /\ O[i] \in Nat
        BY <1>2, <1>3, <4>1
      <4> QED
        BY <4>1, <4>2
    <3>2. f \in [1..m -> J] /\ \A i \in 1..m : f[i] = O[i]
      OBVIOUS
    <3> HIDE DEF f, J
    <3>3. \A i, j \in 1..m : f[i] = f[j] => i = j
      BY <3>1, <3>2
    <3> QED
      BY <3>2, <3>3 DEF Injection, IsInjective
  <2>3. ExistsBijection(1..m, J)
    BY <2>1, <2>2 DEF ExistsBijection, Bijection
  <2>4. IsFiniteSet(1..m) /\ Cardinality(1..m) = m
    <3>1. m \in Nat /\ 1 \in Int /\ m \in Int
      OBVIOUS
    <3>2. IsFiniteSet(1..m) /\ Cardinality(1..m) = IF 1 > m THEN 0 ELSE m - 1 + 1
      BY <3>1, FS_Interval
    <3> QED
      BY <3>1, <3>2
  <2> HIDE DEF J
  <2>5. IsFiniteSet(J) /\ Cardinality(J) = Cardinality(1..m)
    BY <2>3, <2>4, FS_Bijection
  <2> QED
    BY <2>4, <2>5 DEF J
<1>5. IsFiniteSet(I) /\ I \subseteq Nat /\ Cardinality(I) = n
  <2>1. n \in 0..n
    OBVIOUS
  <2> QED
    BY <1>2, <1>4, <2>1
<1>6. ASSUME NEW k \in 1..n PROVE Nth(I, k) = O[k]
  <2>1. {j \in I : j <= O[k]} = {O[i] : i \in 1..k}
    <3>1. ASSUME NEW j \in I, j <= O[k] PROVE \E i \in 1..k : j = O[i]
      <4>1. PICK i \in 1..n : j = O[i]
        OBVIOUS
      <4>2. i <= k
        BY <1>3, <3>1, <4>1
      <4> QED
        BY <4>1, <4>2
    <3>2. ASSUME NEW i \in 1..k PROVE O[i] \in I /\ O[i] <= O[k]
      <4>1. i \in 1..n /\ i <= k
        OBVIOUS
      <4> QED
        BY <1>3, <4>1
    <3> QED
      BY <3>1, <3>2
  <2>2. k \in 0..n /\ O[k] \in I
    OBVIOUS
  <2>3. Place(I, O[k]) = k
    BY <1>4, <2>1, <2>2 DEF Place
  <2> QED
    BY <1>5, <2>2, <2>3, NthIs
<1> QED
  BY <1>5, <1>6

\* The pieces between the ends of the parts: the parts without their ends.
PartEnds(u, O) == {O[k] : k \in 1..Len(u)}

LEMMA PiecesLaid ==
  ASSUME NEW u, NEW O, NEW L, NEW I, Laid(u, O, L),
         \A k \in 1..Len(u) : Len(u[k]) # 0, I = PartEnds(u, O)
  PROVE  /\ IsSeq(Pieces(L, I)) /\ DOMAIN Pieces(L, I) = 1..(Len(u) + 1)
         /\ Len(Pieces(L, I)) = Len(u) + 1
         /\ \A k \in 1..Len(u) : Pieces(L, I)[k] = SubSeq(u[k], 1, Len(u[k]) - 1)
         /\ Pieces(L, I)[Len(u) + 1] = <<>>
<1> DEFINE n == Len(u)
           p == Pieces(L, I)
<1>1. /\ n \in Nat /\ O \in [0..n -> Nat] /\ O[0] = 0 /\ Len(L) = O[n] /\ IsSeq(L)
      /\ \A k \in 1..n : O[k] = O[k - 1] + Len(u[k]) /\ Len(u[k]) \in Nat /\ IsSeq(u[k]) /\ Len(u[k]) # 0
      /\ \A k \in 1..n : \A j \in 1..Len(u[k]) : L[O[k - 1] + j] = u[k][j]
      /\ I = {O[k] : k \in 1..n}
  BY SeqFacts DEF Laid, PartEnds
<1> HIDE DEF n
<1>2. \A k \in 1..n : O[k - 1] < O[k] /\ O[k] \in Nat /\ O[k - 1] \in Nat
  <2> SUFFICES ASSUME NEW k \in 1..n PROVE O[k - 1] < O[k] /\ O[k] \in Nat /\ O[k - 1] \in Nat
    OBVIOUS
  <2>1. k \in 0..n /\ k - 1 \in 0..n
    BY <1>1
  <2>2. O[k] \in Nat /\ O[k - 1] \in Nat /\ O[k] = O[k - 1] + Len(u[k]) /\ Len(u[k]) \in Nat /\ Len(u[k]) # 0
    BY <1>1, <2>1
  <2> QED
    BY <2>2
<1>3. Cardinality(I) = n /\ \A k \in 1..n : Nth(I, k) = O[k]
  BY <1>1, <1>2, NthRising
<1>4. p = [k \in 1..(n + 1) |-> SubSeq(L, O[k - 1] + 1, IF k = n + 1 THEN Len(L) ELSE O[k] - 1)]
  <2> DEFINE piece(k) == SubSeq(L, IF k = 1 THEN 1 ELSE Nth(I, k - 1) + 1,
                                   IF k = n + 1 THEN Len(L) ELSE Nth(I, k) - 1)
             want(k) == SubSeq(L, O[k - 1] + 1, IF k = n + 1 THEN Len(L) ELSE O[k] - 1)
  <2>1. p = [k \in 1..(n + 1) |-> piece(k)]
    BY <1>3 DEF Pieces
  <2>2. ASSUME NEW k \in 1..(n + 1) PROVE piece(k) = want(k)
    <3>1. (IF k = 1 THEN 1 ELSE Nth(I, k - 1) + 1) = O[k - 1] + 1
      <4>1. CASE k = 1
        BY <1>1, <4>1
      <4>2. CASE k # 1
        <5>1. k - 1 \in 1..n
          BY <1>1, <4>2
        <5> QED
          BY <1>3, <4>2, <5>1
      <4> QED
        BY <4>1, <4>2
    <3>2. (IF k = n + 1 THEN Len(L) ELSE Nth(I, k) - 1) = IF k = n + 1 THEN Len(L) ELSE O[k] - 1
      <4>1. CASE k = n + 1
        BY <4>1
      <4>2. CASE k # n + 1
        <5>1. k \in 1..n
          BY <1>1, <4>2
        <5> QED
          BY <1>3, <4>2, <5>1
      <4> QED
        BY <4>1, <4>2
    <3> QED
      BY <3>1, <3>2
  <2> HIDE DEF piece, want
  <2>3. p = [k \in 1..(n + 1) |-> want(k)]
    BY <2>1, <2>2
  <2> QED
    BY <2>3 DEF want
<1> HIDE DEF p
<1>5. DOMAIN p = 1..(n + 1) /\ IsSeq(p) /\ Len(p) = n + 1
  <2> DEFINE want(k) == SubSeq(L, O[k - 1] + 1, IF k = n + 1 THEN Len(L) ELSE O[k] - 1)
  <2>1. p = [k \in 1..(n + 1) |-> want(k)]
    BY <1>4
  <2> HIDE DEF want
  <2>2. DOMAIN p = 1..(n + 1) /\ p = [k \in 1..(n + 1) |-> p[k]]
    BY <2>1
  <2>3. n + 1 \in Nat
    BY <1>1
  <2> QED
    BY <2>2, <2>3, SeqByIndex
<1>6. ASSUME NEW k \in 1..n PROVE p[k] = SubSeq(u[k], 1, Len(u[k]) - 1)
  <2>1. PICK x, y, a, b, c : x = p[k] /\ y = SubSeq(u[k], 1, Len(u[k]) - 1) /\ a = O[k - 1]
                             /\ b = O[k] /\ c = Len(u[k])
    OBVIOUS
  <2>0. IsSeq(u[k]) /\ Len(u[k]) = c /\ u[k] = u[k]
    BY <1>1, <2>1
  <2>2. a \in Nat /\ b = a + c /\ c \in Nat /\ c # 0 /\ b <= Len(L) /\ Len(L) \in Nat
    <3>1. O[k] <= O[n]
      <4>1. \A i, j \in 0..n : i < j => O[i] < O[j]
        BY <1>1, <1>2, Rising
      <4>2. k \in 0..n /\ n \in 0..n /\ (k < n \/ k = n) /\ O[n] \in Nat
        BY <1>1
      <4> QED
        BY <1>2, <4>1, <4>2
    <3> QED
      BY <1>1, <1>2, <2>1, <3>1
  <2>3. x = SubSeq(L, a + 1, b - 1)
    <3>1. k \in 1..(n + 1) /\ k # n + 1
      BY <1>1
    <3> QED
      BY <1>4, <2>1, <3>1
  <2>4. /\ IsSeq(x) /\ Len(x) = (IF a + 1 <= b - 1 THEN (b - 1) - (a + 1) + 1 ELSE 0)
        /\ \A i \in DOMAIN x : x[i] = L[(a + 1) + i - 1]
    <3>1. PICK m, q : m = a + 1 /\ q = b - 1
      OBVIOUS
    <3>2. m \in 1..(Len(L) + 1) /\ q \in 0..Len(L)
      BY <2>2, <3>1
    <3>3. x = SubSeq(L, m, q)
      BY <2>3, <3>1
    <3>4. /\ IsSeq(x) /\ Len(x) = (IF m <= q THEN q - m + 1 ELSE 0)
          /\ \A i \in DOMAIN x : x[i] = L[m + i - 1]
      <4>1. IsSeq(L)
        BY <1>1
      <4> QED
        BY <4>1, <3>2, <3>3, SubSeqFacts
    <3> QED
      BY <3>1, <3>4
  <2>5. /\ IsSeq(y) /\ Len(y) = (IF 1 <= c - 1 THEN (c - 1) - 1 + 1 ELSE 0)
        /\ \A i \in DOMAIN y : y[i] = u[k][1 + i - 1]
    <3>1. PICK s, m, q : s = u[k] /\ m = 1 /\ q = c - 1
      OBVIOUS
    <3>2. IsSeq(s) /\ m \in 1..(Len(s) + 1) /\ q \in 0..Len(s)
      BY <2>0, <2>2, <3>1
    <3>3. y = SubSeq(s, m, q)
      BY <2>1, <3>1
    <3>4. /\ IsSeq(y) /\ Len(y) = (IF m <= q THEN q - m + 1 ELSE 0)
          /\ \A i \in DOMAIN y : y[i] = s[m + i - 1]
      BY <3>2, <3>3, SubSeqFacts
    <3> QED
      BY <3>1, <3>4
  <2>6. Len(x) = c - 1 /\ Len(y) = c - 1
    <3>1. Len(x) = c - 1
      BY <2>2, <2>4
    <3>2. Len(y) = c - 1
      BY <2>2, <2>5
    <3> QED
      BY <3>1, <3>2
  <2>7. ASSUME NEW i \in 1..(c - 1) PROVE x[i] = y[i]
    <3>1. i \in DOMAIN x /\ i \in DOMAIN y
      BY <2>4, <2>5, <2>6, SeqFacts
    <3>2. (a + 1) + i - 1 = a + i /\ 1 + i - 1 = i /\ i \in 1..c
      BY <2>2
    <3>3. L[a + i] = u[k][i]
      BY <1>1, <2>1, <3>2
    <3> QED
      BY <2>4, <2>5, <3>1, <3>2, <3>3
  <2>8. x = [i \in 1..(c - 1) |-> x[i]] /\ y = [i \in 1..(c - 1) |-> y[i]]
    BY <2>4, <2>5, <2>6, SeqFacts
  <2>9. x = y
    BY <2>7, <2>8
  <2> QED
    BY <2>1, <2>9
<1>7. p[n + 1] = <<>>
  <2>1. n + 1 \in 1..(n + 1) /\ (n + 1) - 1 = n
    BY <1>1
  <2>2. p[n + 1] = SubSeq(L, Len(L) + 1, Len(L))
    BY <1>1, <1>4, <2>1
  <2>3. Len(L) \in Nat
    BY <1>1, SeqFacts
  <2>4. Len(L) + 1 \in 1..(Len(L) + 1) /\ Len(L) \in 0..Len(L) /\ ~(Len(L) + 1 <= Len(L))
    BY <2>3
  <2>5. IsSeq(p[n + 1]) /\ Len(p[n + 1]) = 0
    BY <1>1, <2>2, <2>4, SubSeqFacts
  <2> QED
    BY <2>5 DEF IsSeq
<1> QED
  BY <1>5, <1>6, <1>7 DEF n, p

\* A document made of parts, each of which ends with its only blank line.
Ended(part) ==
  /\ IsSeq(part) /\ Len(part) > 1
  /\ \A j \in 1..Len(part) : IsBlank(part[j]) <=> j = Len(part)

LEMMA BlocksLaid ==
  ASSUME NEW u, NEW O, NEW L, Laid(u, O, L), \A k \in 1..Len(u) : Ended(u[k])
  PROVE  /\ IsSeq(Blocks(L)) /\ DOMAIN Blocks(L) = 1..(Len(u) + 1) /\ Len(Blocks(L)) = Len(u) + 1
         /\ \A k \in 1..Len(u) : Blocks(L)[k] = SubSeq(u[k], 1, Len(u[k]) - 1)
         /\ Blocks(L)[Len(u) + 1] = <<>>
<1> DEFINE n == Len(u)
           D == DOMAIN L
           Ends(f) == f = [i \in D |-> IsBlank(L[i]) /\ i > 1 /\ ~f[i - 1]]
           ends == CHOOSE f : Ends(f)
           full == [i \in D |-> IsBlank(L[i])]
           I == {O[k] : k \in 1..n}
<1>1. /\ n \in Nat /\ O \in [0..n -> Nat] /\ O[0] = 0 /\ Len(L) = O[n] /\ IsSeq(L)
      /\ D = 1..Len(L) /\ Len(L) \in Nat
      /\ \A k \in 1..n : /\ O[k] = O[k - 1] + Len(u[k]) /\ Len(u[k]) \in Nat /\ Len(u[k]) > 1
                         /\ \A j \in 1..Len(u[k]) : /\ L[O[k - 1] + j] = u[k][j]
                                                    /\ IsBlank(u[k][j]) <=> j = Len(u[k])
  BY SeqFacts DEF Laid, Ended
<1> HIDE DEF n, D
\* The blank lines are the ends, none is the first and none follows another.
<1>2. ASSUME NEW p \in D, IsBlank(L[p])
      PROVE  p \in I /\ p > 1 /\ p - 1 \in D /\ ~IsBlank(L[p - 1])
  <2>1. PICK k \in 1..n : \E j \in 1..Len(u[k]) : p = O[k - 1] + j
    BY <1>1, LaidPlaces DEF n
  <2>2. PICK j \in 1..Len(u[k]) : p = O[k - 1] + j
    BY <2>1
  <2>3. PICK a, c : a = O[k - 1] /\ c = Len(u[k])
    OBVIOUS
  <2>4. a \in Nat /\ c \in Nat /\ c > 1 /\ O[k] = a + c
    <3>1. k - 1 \in 0..n
      BY <1>1
    <3> QED
      BY <1>1, <2>3, <3>1
  <2>5. j = c
    BY <1>1, <1>2, <2>2, <2>3
  <2>6. p = O[k] /\ p > 1 /\ p - 1 = a + (c - 1) /\ c - 1 \in 1..c /\ c - 1 # c /\ p - 1 \in 1..Len(L)
    <3>1. p = a + c /\ p \in 1..Len(L) /\ O[k] = a + c
      BY <1>1, <2>2, <2>3, <2>4, <2>5
    <3>2. \A l \in Nat : p \in 1..l => p > 1 /\ p - 1 = a + (c - 1) /\ c - 1 \in 1..c /\ c - 1 # c /\ p - 1 \in 1..l
      BY <2>4, <3>1
    <3> QED
      BY <1>1, <3>1, <3>2
  <2>7. L[p - 1] = u[k][c - 1] /\ ~IsBlank(u[k][c - 1])
    <3>1. c - 1 \in 1..Len(u[k]) /\ O[k - 1] + (c - 1) = p - 1 /\ c - 1 # Len(u[k])
      BY <2>3, <2>6
    <3> QED
      BY <1>1, <3>1
  <2> QED
    BY <1>1, <2>6, <2>7
<1>3. \A p \in I : p \in D /\ IsBlank(L[p])
  <2> SUFFICES ASSUME NEW k \in 1..n PROVE O[k] \in D /\ IsBlank(L[O[k]])
    OBVIOUS
  <2>1. PICK a, c : a = O[k - 1] /\ c = Len(u[k])
    OBVIOUS
  <2>2. a \in Nat /\ c \in Nat /\ c > 1 /\ O[k] = a + c
    <3>1. k - 1 \in 0..n
      BY <1>1
    <3> QED
      BY <1>1, <2>1, <3>1
  <2>3. O[k] <= O[n]
    <3>1. \A i \in 1..n : O[i - 1] < O[i]
      <4> SUFFICES ASSUME NEW i \in 1..n PROVE O[i - 1] < O[i]
        OBVIOUS
      <4>1. O[i - 1] \in Nat
        BY <1>1
      <4>2. O[i] = O[i - 1] + Len(u[i]) /\ Len(u[i]) \in Nat /\ Len(u[i]) > 1
        BY <1>1
      <4> QED
        BY <4>1, <4>2
    <3>2. \A i, j \in 0..n : i < j => O[i] < O[j]
      BY <1>1, <3>1, Rising
    <3>3. k \in 0..n /\ n \in 0..n /\ (k < n \/ k = n) /\ O[n] \in Nat /\ O[k] \in Nat
      BY <1>1
    <3> QED
      BY <3>2, <3>3
  <2>4. O[k] \in D
    BY <1>1, <2>2, <2>3
  <2>5. c \in 1..Len(u[k]) /\ O[k - 1] + c = O[k] /\ c = Len(u[k])
    BY <2>1, <2>2
  <2>6. L[O[k]] = u[k][c] /\ IsBlank(u[k][c])
    <3>1. L[O[k - 1] + c] = u[k][c] /\ (IsBlank(u[k][c]) <=> c = Len(u[k]))
      BY <1>1, <2>5
    <3> QED
      BY <2>5, <3>1
  <2> QED
    BY <2>4, <2>6
<1> HIDE DEF I
<1>4. Ends(full)
  <2>1. ASSUME NEW i \in D PROVE IsBlank(L[i]) <=> IsBlank(L[i]) /\ i > 1 /\ ~full[i - 1]
    <3>1. IsBlank(L[i]) => i - 1 \in D /\ ~IsBlank(L[i - 1]) /\ i > 1
      BY <1>2
    <3>2. IsBlank(L[i]) => ~full[i - 1]
      BY <3>1
    <3> HIDE DEF full
    <3> QED
      BY <3>1, <3>2
  <2>2. \A i \in D : full[i] = (IsBlank(L[i]) /\ i > 1 /\ ~full[i - 1])
    <3> SUFFICES ASSUME NEW i \in D PROVE full[i] = (IsBlank(L[i]) /\ i > 1 /\ ~full[i - 1])
      OBVIOUS
    <3>1. full[i] = IsBlank(L[i])
      OBVIOUS
    <3>2. IsBlank(L[i]) \in BOOLEAN
      BY DEF IsBlank
    <3> HIDE DEF full
    <3> QED
      BY <2>1, <3>1, <3>2, Zenon
  <2>3. full = [i \in D |-> full[i]]
    OBVIOUS
  <2> HIDE DEF full
  <2> QED
    BY <2>2, <2>3, Zenon
<1>5. Ends(ends)
  <2> HIDE DEF full, Ends
  <2> QED
    BY <1>4, Zenon
<1>6. ASSUME NEW p \in D PROVE ends[p] <=> IsBlank(L[p])
  <2> HIDE DEF ends
  <2>1. \A i \in D : ends[i] = (IsBlank(L[i]) /\ i > 1 /\ ~ends[i - 1])
    <3>1. \A E : Ends(E) => \A i \in D : E[i] = (IsBlank(L[i]) /\ i > 1 /\ ~E[i - 1])
      <4> SUFFICES ASSUME NEW E, Ends(E), NEW i \in D
                   PROVE  E[i] = (IsBlank(L[i]) /\ i > 1 /\ ~E[i - 1])
        BY Zenon
      <4> DEFINE F == [j \in D |-> IsBlank(L[j]) /\ j > 1 /\ ~E[j - 1]]
      <4>1. F[i] = (IsBlank(L[i]) /\ i > 1 /\ ~E[i - 1])
        BY Zenon
      <4>2. E = F
        BY Zenon
      <4> HIDE DEF F
      <4> QED
        BY <4>1, <4>2, Zenon
    <3> HIDE DEF Ends
    <3> QED
      BY <1>5, <3>1, Zenon
  <2>2. CASE ~IsBlank(L[p])
    BY <2>1, <2>2, Zenon
  <2>3. CASE IsBlank(L[p])
    <3>1. p > 1 /\ p - 1 \in D /\ ~IsBlank(L[p - 1])
      BY <1>2, <2>3
    <3>2. ~ends[p - 1]
      BY <2>1, <3>1, Zenon
    <3> QED
      BY <2>1, <2>3, <3>1, <3>2, Zenon
  <2> QED
    BY <2>2, <2>3
<1>7. {i \in D : ends[i]} = I
  <2> HIDE DEF ends
  <2> QED
    BY <1>2, <1>3, <1>6
<1>8. Blocks(L) = Pieces(L, I)
  <2>1. Blocks(L) = Pieces(L, {i \in D : ends[i]})
    BY Zenon DEF Blocks, D
  <2> HIDE DEF ends
  <2> QED
    BY <1>7, <2>1, Zenon
<1>9. \A k \in 1..Len(u) : Len(u[k]) # 0
  BY <1>1 DEF n
<1>10. I = PartEnds(u, O)
  BY DEF I, n, PartEnds
<1> QED
  <2>0. PICK p, J : p = Blocks(L) /\ J = I
    OBVIOUS
  <2>1. p = Pieces(L, J) /\ J = PartEnds(u, O)
    BY <1>8, <1>10, <2>0
  <2>2. /\ IsSeq(Pieces(L, J)) /\ DOMAIN Pieces(L, J) = 1..(Len(u) + 1)
        /\ Len(Pieces(L, J)) = Len(u) + 1
        /\ \A k \in 1..Len(u) : Pieces(L, J)[k] = SubSeq(u[k], 1, Len(u[k]) - 1)
        /\ Pieces(L, J)[Len(u) + 1] = <<>>
    <3> HIDE DEF Laid
    <3>1. Laid(u, O, L)
      OBVIOUS
    <3>2. J = PartEnds(u, O)
      BY <2>1
    <3> QED
      BY <1>9, <3>1, <3>2, PiecesLaid
  <2> QED
    BY <2>0, <2>1, <2>2, Zenon

\* Parts of one element each, between parts of none.
LEMMA FlattenOnes ==
  ASSUME NEW u, IsSeq(u), NEW e, IsSeq(e), NEW lo \in Nat, lo + Len(e) <= Len(u),
         \A k \in 1..Len(u) : u[k] = IF lo < k /\ k <= lo + Len(e) THEN <<e[k - lo]>> ELSE <<>>
  PROVE  FlattenSeq(u) = e
<1> DEFINE N == Len(u)
           n == Len(e)
           F == FlattenSeq(u)
           spot(k) == IF k <= lo THEN 0 ELSE IF k <= lo + n THEN k - lo ELSE n
<1>1. N \in Nat /\ n \in Nat /\ DOMAIN u = 1..N /\ DOMAIN e = 1..n /\ e = [p \in 1..n |-> e[p]]
  BY SeqFacts
<1>2. \A x : IsSeq(<<x>>) /\ Len(<<x>>) = 1 /\ <<x>>[1] = x
  <2>1. \A x : <<x>> \in Seq({x}) /\ Len(<<x>>) = 1 /\ <<x>>[1] = x
    OBVIOUS
  <2> QED
    BY <2>1, SeqOfAny
<1>3. \A k \in 1..N : /\ IsSeq(u[k])
                      /\ lo < k /\ k <= lo + n => Len(u[k]) = 1 /\ u[k][1] = e[k - lo]
                      /\ ~(lo < k /\ k <= lo + n) => Len(u[k]) = 0
  BY <1>2, EmptySeqs
<1>4. PICK O : Laid(u, O, F)
  BY <1>1, <1>3, FlattenLaid
<1>5. /\ O \in [0..N -> Nat] /\ O[0] = 0 /\ Len(F) = O[N] /\ IsSeq(F)
      /\ \A k \in 1..N : O[k] = O[k - 1] + Len(u[k])
      /\ \A k \in 1..N : \A j \in 1..Len(u[k]) : F[O[k - 1] + j] = u[k][j]
  BY <1>4 DEF Laid
<1> HIDE DEF N, n, F
<1>6. \A k \in 0..N : O[k] = spot(k)
  <2> DEFINE G == {k \in 0..N : O[k] = spot(k)}
  <2>1. 0 \in G
    BY <1>1, <1>5
  <2>2. ASSUME NEW k \in 1..N, k - 1 \in G PROVE k \in G
    <3>1. O[k] = spot(k - 1) + Len(u[k])
      BY <1>5, <2>2
    <3>2. CASE lo < k /\ k <= lo + n
      <4>1. Len(u[k]) = 1
        BY <1>3, <3>2
      <4>2. O[k] = spot(k - 1) + 1
        BY <3>1, <4>1
      <4>3. spot(k) = spot(k - 1) + 1
        BY <1>1, <3>2
      <4> QED
        BY <4>2, <4>3
    <3>3. CASE ~(lo < k /\ k <= lo + n)
      <4>1. Len(u[k]) = 0
        BY <1>3, <3>3
      <4>2. O[k] = spot(k - 1) + 0
        BY <3>1, <4>1
      <4>3. PICK v : v = spot(k - 1)
        OBVIOUS
      <4>4. spot(k) = v /\ v \in Int
        BY <1>1, <3>3, <4>3
      <4>5. O[k] = v
        BY <4>2, <4>3, <4>4
      <4> QED
        BY <1>1, <4>4, <4>5
    <3> QED
      BY <3>2, <3>3
  <2>3. \A k \in 0..N : k \in G
    <3> HIDE DEF G
    <3> QED
      BY <1>1, <2>1, <2>2, UpTo
  <2> QED
    BY <2>3
<1>7. lo + n <= N
  BY DEF n, N
<1>8. Len(F) = n
  <2>1. N \in 0..N
    BY <1>1
  <2>2. Len(F) = spot(N)
    BY <1>5, <1>6, <2>1
  <2> QED
    BY <1>1, <1>7, <2>2
<1>9. ASSUME NEW p \in 1..n PROVE F[p] = e[p]
  <2>1. PICK k : k = lo + p
    OBVIOUS
  <2>2. k \in 1..N /\ k - 1 \in 0..N /\ lo < k /\ k <= lo + n /\ k - lo = p
    BY <1>1, <1>7, <2>1
  <2>3. O[k - 1] = p - 1
    <3>1. O[k - 1] = spot(k - 1)
      BY <1>6, <2>2
    <3> QED
      BY <1>1, <2>1, <3>1
  <2>4. Len(u[k]) = 1 /\ u[k][1] = e[p]
    BY <1>3, <2>2
  <2>5. 1 \in 1..Len(u[k]) /\ (p - 1) + 1 = p
    BY <2>4
  <2>6. F[O[k - 1] + 1] = u[k][1]
    BY <1>5, <2>2, <2>5
  <2> QED
    BY <2>3, <2>4, <2>5, <2>6
<1>10. F = [p \in 1..n |-> F[p]]
  BY <1>5, <1>8, SeqFacts
<1>11. F = e
  BY <1>1, <1>9, <1>10
<1> QED
  BY <1>11 DEF F

\* The lines of a text, joined, are the text.
LEMMA JoinedLines ==
  ASSUME NEW t, IsSeq(t)
  PROVE  JoinLines(TextLines(t)) = t
<1> DEFINE n == Len(t)
           I == {i \in DOMAIN t : t[i] = "nl"}
           c == Cardinality(I)
           spot(k) == IF k = 0 THEN 0 ELSE IF k = c + 1 THEN n + 1 ELSE Nth(I, k)
           lines == TextLines(t)
           pieces == Pieces(t, I)
           s == [i \in DOMAIN lines |-> <<"nl">> \o lines[i].t]
           F == FlattenSeq(s)
<1>1. n \in Nat /\ DOMAIN t = 1..n /\ t = [i \in 1..n |-> t[i]] /\ I \subseteq 1..n
  BY SeqFacts
<1>2. IsFiniteSet(I) /\ I \subseteq Nat
  <2>1. IsFiniteSet(1..n)
    BY <1>1, FS_Interval
  <2>2. I \subseteq Nat
    BY <1>1
  <2> QED
    BY <1>1, <2>1, <2>2, FS_Subset
<1>3. c \in Nat /\ \A k \in 1..c : Nth(I, k) \in I /\ Nth(I, k) \in 1..n
  BY <1>1, <1>2, NthFacts
<1>4. \A i, k \in 1..c : i < k => Nth(I, i) < Nth(I, k)
  <2> SUFFICES ASSUME NEW i \in 1..c, NEW k \in 1..c, i < k PROVE Nth(I, i) < Nth(I, k)
    OBVIOUS
  <2>1. k <= i <=> Nth(I, k) <= Nth(I, i)
    BY <1>2, NthOrder
  <2>2. ~(k <= i) /\ Nth(I, i) \in 1..n /\ Nth(I, k) \in 1..n
    BY <1>3
  <2> QED
    BY <2>1, <2>2
<1>5. \A k \in 1..c : t[Nth(I, k)] = "nl"
  BY <1>3
<1>6. pieces = [k \in 1..(c + 1) |->
                  SubSeq(t, IF k = 1 THEN 1 ELSE Nth(I, k - 1) + 1,
                            IF k = c + 1 THEN n ELSE Nth(I, k) - 1)]
  BY DEF Pieces
<1>7. lines = [k \in DOMAIN pieces |-> TextLine(pieces[k])]
  BY DEF TextLines
<1> HIDE DEF n, I, c, pieces, lines
<1>8. ASSUME NEW k \in 1..(c + 1)
      PROVE  /\ spot(k) \in Nat /\ spot(k - 1) \in Nat /\ spot(k - 1) < spot(k) /\ spot(k) <= n + 1
             /\ pieces[k] = SubSeq(t, spot(k - 1) + 1, spot(k) - 1)
  <2>1. spot(k - 1) = IF k = 1 THEN 0 ELSE Nth(I, k - 1)
    BY <1>3
  <2>2. spot(k) = IF k = c + 1 THEN n + 1 ELSE Nth(I, k)
    BY <1>3
  <2>3. k # 1 => k - 1 \in 1..c /\ Nth(I, k - 1) \in 1..n
    BY <1>3
  <2>4. k # c + 1 => k \in 1..c /\ Nth(I, k) \in 1..n
    BY <1>3
  <2>5. k # 1 /\ k # c + 1 => Nth(I, k - 1) < Nth(I, k)
    BY <1>3, <1>4, <2>3, <2>4
  <2>6. PICK a, b : a = spot(k - 1) /\ b = spot(k)
    OBVIOUS
  <2> HIDE DEF spot
  <2>7. a \in Nat /\ b \in Nat /\ a < b /\ b <= n + 1
    <3>1. a \in Nat /\ b \in Nat
      BY <1>1, <2>1, <2>2, <2>3, <2>4, <2>6
    <3>2. b <= n + 1
      BY <1>1, <2>2, <2>4, <2>6
    <3>3. a < b
      BY <1>1, <2>1, <2>2, <2>3, <2>4, <2>5, <2>6
    <3> QED
      BY <3>1, <3>2, <3>3
  <2>8. (IF k = 1 THEN 1 ELSE Nth(I, k - 1) + 1) = a + 1
    BY <2>1, <2>6
  <2>9. (IF k = c + 1 THEN n ELSE Nth(I, k) - 1) = b - 1
    BY <1>1, <2>2, <2>6
  <2>10. pieces[k] = SubSeq(t, a + 1, b - 1)
    BY <1>6, <2>8, <2>9
  <2> QED
    BY <2>6, <2>7, <2>10
<1>9. DOMAIN pieces = 1..(c + 1)
  BY <1>6
<1>10. ASSUME NEW k \in 1..(c + 1)
       PROVE  /\ IsSeq(s[k]) /\ Len(s[k]) = spot(k) - spot(k - 1) /\ s[k][1] = "nl"
              /\ \A j \in 2..Len(s[k]) : s[k][j] = t[spot(k - 1) + j - 1]
  <2>1. PICK a, b, x, z, q, m : a = spot(k - 1) /\ b = spot(k) /\ x = pieces[k] /\ z = s[k]
                                /\ m = a + 1 /\ q = b - 1
    OBVIOUS
  <2>2. a \in Nat /\ b \in Nat /\ a < b /\ b <= n + 1 /\ x = SubSeq(t, m, q)
    BY <1>8, <2>1
  <2>3. z = <<"nl">> \o x
    <3>1. lines[k] = TextLine(x) /\ k \in DOMAIN lines
      BY <1>7, <1>9, <2>1
    <3>2. TextLine(x).t = x
      BY DEF TextLine, Line
    <3>3. s[k] = <<"nl">> \o lines[k].t
      BY <3>1
    <3> QED
      BY <2>1, <3>1, <3>2, <3>3
  <2>4. /\ IsSeq(x) /\ Len(x) = (IF m <= q THEN q - m + 1 ELSE 0)
        /\ \A i \in DOMAIN x : x[i] = t[m + i - 1]
    <3>1. m \in 1..(Len(t) + 1) /\ q \in 0..Len(t)
      BY <1>1, <2>1, <2>2 DEF n
    <3> QED
      BY <2>2, <3>1, SubSeqFacts
  <2>5. Len(x) = b - a - 1
    <3>1. PICK l : l = Len(x)
      OBVIOUS
    <3>2. l = IF a + 1 <= b - 1 THEN (b - 1) - (a + 1) + 1 ELSE 0
      BY <2>1, <2>4, <3>1
    <3>3. a \in Nat /\ b \in Nat /\ a < b
      BY <2>2
    <3>4. l = b - a - 1
      BY <3>2, <3>3
    <3> QED
      BY <3>1, <3>4
  <2>6. PICK S : x \in Seq(S) /\ <<"nl">> \in Seq(S) /\ Len(<<"nl">>) = 1 /\ <<"nl">>[1] = "nl"
    <3>1. x \in Seq(Range(x) \cup {"nl"}) /\ <<"nl">> \in Seq(Range(x) \cup {"nl"})
          /\ Len(<<"nl">>) = 1 /\ <<"nl">>[1] = "nl"
      BY <2>4 DEF IsSeq
    <3> QED
      BY <3>1
  <2>7. PICK w : w = <<"nl">> /\ w \in Seq(S) /\ Len(w) = 1 /\ w[1] = "nl" /\ z = w \o x
    BY <2>3, <2>6
  <2>8. Len(x) \in Nat /\ Len(z) = 1 + Len(x) /\ z[1] = "nl" /\ \A j \in 1..Len(x) : z[1 + j] = x[j]
    <3>1. /\ Len(x) \in Nat /\ Len(z) = Len(w) + Len(x)
          /\ (\A p \in 1..Len(w) : z[p] = w[p]) /\ \A j \in 1..Len(x) : z[Len(w) + j] = x[j]
      BY <2>6, <2>7, ConcatPlaces
    <3> QED
      BY <2>7, <3>1
  <2>9. IsSeq(z)
    <3>1. z \in Seq(S)
      BY <2>6, <2>7
    <3> QED
      BY <3>1, SeqOfAny
  <2>10. Len(z) = b - a
    BY <2>2, <2>5, <2>8
  <2>11. ASSUME NEW j \in 2..Len(z) PROVE z[j] = t[a + j - 1]
    <3>1. j - 1 \in 1..Len(x) /\ 1 + (j - 1) = j /\ m + (j - 1) - 1 = a + j - 1
      <4>1. j \in 2..(b - a) /\ a \in Nat /\ b \in Nat /\ m = a + 1
        BY <2>1, <2>2, <2>10
      <4>2. j - 1 \in 1..(b - a - 1) /\ 1 + (j - 1) = j /\ m + (j - 1) - 1 = a + j - 1
        BY <4>1
      <4> QED
        BY <2>5, <4>2
    <3>2. j - 1 \in DOMAIN x
      BY <2>4, <3>1, SeqFacts
    <3>3. z[j] = x[j - 1] /\ x[j - 1] = t[m + (j - 1) - 1]
      BY <2>4, <2>8, <3>1, <3>2
    <3> QED
      BY <3>1, <3>3
  <2> HIDE DEF s, spot
  <2> QED
    BY <2>1, <2>8, <2>9, <2>10, <2>11
<1>11. IsSeq(s) /\ Len(s) = c + 1 /\ DOMAIN s = 1..(c + 1)
  <2>1. DOMAIN s = 1..(c + 1) /\ s = [i \in 1..(c + 1) |-> s[i]]
    <3>1. DOMAIN lines = 1..(c + 1)
      BY <1>7, <1>9
    <3> QED
      BY <3>1
  <2>2. c + 1 \in Nat
    BY <1>3
  <2> HIDE DEF s
  <2> QED
    BY <2>1, <2>2, SeqByIndex
<1> HIDE DEF s
<1>12. PICK O : Laid(s, O, F)
  BY <1>10, <1>11, FlattenLaid
<1> HIDE DEF F
<1>13. /\ O \in [0..(c + 1) -> Nat] /\ O[0] = 0 /\ Len(F) = O[c + 1] /\ IsSeq(F)
       /\ \A k \in 1..(c + 1) : O[k] = O[k - 1] + Len(s[k])
       /\ \A k \in 1..(c + 1) : \A j \in 1..Len(s[k]) : F[O[k - 1] + j] = s[k][j]
  BY <1>11, <1>12 DEF Laid
<1>14. \A k \in 0..(c + 1) : O[k] = spot(k)
  <2> DEFINE G == {k \in 0..(c + 1) : O[k] = spot(k)}
  <2>1. 0 \in G
    BY <1>3, <1>13
  <2> HIDE DEF spot
  <2>2. ASSUME NEW k \in 1..(c + 1), k - 1 \in G PROVE k \in G
    <3>1. O[k] = spot(k - 1) + Len(s[k])
      BY <1>13, <2>2
    <3>2. Len(s[k]) = spot(k) - spot(k - 1) /\ spot(k) \in Nat /\ spot(k - 1) \in Nat
      BY <1>8, <1>10
    <3> QED
      BY <3>1, <3>2
  <2>3. \A k \in 0..(c + 1) : k \in G
    <3>1. c + 1 \in Nat
      BY <1>3
    <3> HIDE DEF G
    <3> QED
      BY <2>1, <2>2, <3>1, UpTo
  <2> QED
    BY <2>3
<1>15. Len(F) = n + 1
  <2>1. c + 1 \in 0..(c + 1) /\ c + 1 # 0
    BY <1>3
  <2>2. spot(c + 1) = n + 1
    BY <2>1
  <2> QED
    BY <1>13, <1>14, <2>1, <2>2
<1>16. ASSUME NEW p \in 1..n PROVE F[p + 1] = t[p]
  <2>1. p + 1 \in 1..Len(F)
    BY <1>1, <1>15
  <2>2. PICK k \in 1..(c + 1) : \E j \in 1..Len(s[k]) : p + 1 = O[k - 1] + j
    BY <1>11, <1>12, <2>1, LaidPlaces
  <2>3. PICK j \in 1..Len(s[k]) : p + 1 = O[k - 1] + j
    BY <2>2
  <2>4. F[p + 1] = s[k][j]
    BY <1>13, <2>3
  <2>5. k - 1 \in 0..(c + 1) /\ O[k - 1] = spot(k - 1) /\ spot(k - 1) \in Nat
    BY <1>3, <1>8, <1>14
  <2>6. CASE j = 1
    <3>1. p = spot(k - 1)
      BY <2>3, <2>5, <2>6
    <3>2. k # 1
      BY <3>1
    <3>3. k - 1 \in 1..c
      BY <1>3, <3>2
    <3>4. spot(k - 1) = Nth(I, k - 1)
      BY <1>3, <3>3
    <3> QED
      BY <1>5, <1>10, <2>4, <2>6, <3>1, <3>3, <3>4
  <2>7. CASE j # 1
    <3> HIDE DEF spot
    <3>1. j \in 2..Len(s[k])
      BY <2>7
    <3>2. s[k][j] = t[spot(k - 1) + j - 1]
      BY <1>10, <3>1
    <3>3. spot(k - 1) + j - 1 = p
      BY <2>3, <2>5
    <3> QED
      BY <2>4, <3>2, <3>3
  <2> QED
    BY <2>6, <2>7
<1>17. Tail(F) = t
  <2>1. PICK S : F \in Seq(S)
    BY <1>13 DEF IsSeq
  <2>2. F # <<>>
    BY <1>1, <1>15, EmptySeqs
  <2>3. /\ Tail(F) \in Seq(S) /\ Len(Tail(F)) = Len(F) - 1
        /\ \A i \in 1..(Len(F) - 1) : Tail(F)[i] = F[i + 1]
    BY <2>1, <2>2, HeadTailProperties
  <2>4. PICK r : r = Tail(F) /\ r \in Seq(S) /\ Len(r) = n /\ \A i \in 1..n : r[i] = F[i + 1]
    <3>1. Len(F) - 1 = n
      BY <1>1, <1>15
    <3> QED
      BY <2>3, <3>1, Zenon
  <2>5. r = [i \in 1..n |-> r[i]]
    <3>1. IsSeq(r) /\ Len(r) = n
      BY <2>4, SeqOfAny
    <3> QED
      BY <3>1, SeqFacts
  <2>6. r = t
    BY <1>1, <1>16, <2>4, <2>5
  <2> QED
    BY <2>4, <2>6
<1>18. JoinLines(lines) = Tail(F)
  BY DEF JoinLines, F, s
<1> QED
  BY <1>17, <1>18 DEF lines

-----------------------------------------------------------------------------
(* What the conversions of a text keep: its words, and that it is not huge.  *)

Small(t) == IsSeq(t) /\ \A i \in DOMAIN t : t[i] # "huge"
Spoken == {"w", "v"}

LEMMA ReplacedText ==
  ASSUME NEW t, Small(t), NEW a, NEW b, a \notin Spoken, b \notin Spoken, b # "huge"
  PROVE  Small(Replace(t, a, b)) /\ Words(Replace(t, a, b)) = Words(t)
<1> DEFINE u == Replace(t, a, b)
           I == {i \in DOMAIN t : t[i] \in {"w", "v"}}
<1>1. DOMAIN u = DOMAIN t /\ \A i \in DOMAIN t : u[i] = IF t[i] = a THEN b ELSE t[i]
  BY DEF Replace
<1>2. IsSeq(u)
  BY ReplaceFacts DEF Small
<1> HIDE DEF u
<1>3. Small(u)
  BY <1>1, <1>2 DEF Small
<1>4. {i \in DOMAIN u : u[i] \in {"w", "v"}} = I
  BY <1>1 DEF Spoken
<1>5. \A i \in I : u[i] = t[i]
  BY <1>1 DEF Spoken
<1>6. \A k \in 1..Cardinality(I) : Nth(I, k) \in I
  <2>1. I \subseteq DOMAIN t
    OBVIOUS
  <2> HIDE DEF I
  <2> QED
    BY <2>1, PickedFacts DEF Small
<1> HIDE DEF I
<1>7. Picked(u, I) = Picked(t, I)
  BY <1>5, <1>6 DEF Picked
<1> QED
  BY <1>3, <1>4, <1>7 DEF Words, u, I

LEMMA StrippedText ==
  ASSUME NEW t, Small(t), NEW tags, tags \cap Spoken = {}
  PROVE  Small(Strip(t, tags)) /\ Words(Strip(t, tags)) = Words(t)
<1> DEFINE X == {i \in DOMAIN t : t[i] \notin tags}
           O == {i \in DOMAIN t : t[i] \in {"w", "v"}}
           u == Strip(t, tags)
           c == Cardinality(X)
           J == {k \in DOMAIN u : u[k] \in {"w", "v"}}
<1>1. IsSeq(t) /\ Len(t) \in Nat /\ DOMAIN t = 1..Len(t)
  BY SeqFacts DEF Small
<1>2. IsFiniteSet(X) /\ X \subseteq Nat /\ O \subseteq X /\ X \subseteq DOMAIN t
  <2>1. IsFiniteSet(1..Len(t))
    BY <1>1, FS_Interval
  <2>2. X \subseteq Nat /\ X \subseteq 1..Len(t)
    BY <1>1
  <2>3. O \subseteq X
    BY DEF Spoken
  <2> QED
    BY <1>1, <2>1, <2>2, <2>3, FS_Subset
<1>3. u = Picked(t, X)
  BY DEF Strip
<1>4. \A i \in X : t[i] # "huge" /\ (i \in O <=> t[i] \in {"w", "v"})
  BY DEF Small
<1> HIDE DEF X, O, u
<1>5. /\ c \in Nat /\ IsSeq(u) /\ DOMAIN u = 1..c
      /\ \A k \in 1..c : Nth(X, k) \in X /\ u[k] = t[Nth(X, k)]
  <2>1. /\ Cardinality(X) \in Nat
        /\ IsSeq(Picked(t, X)) /\ DOMAIN Picked(t, X) = 1..Cardinality(X)
        /\ \A k \in 1..Cardinality(X) : Nth(X, k) \in X /\ Picked(t, X)[k] = t[Nth(X, k)]
    <3>1. IsSeq(t) /\ X \subseteq DOMAIN t
      BY <1>1, <1>2
    <3> HIDE DEF c, J
    <3> QED
      BY <3>1, PickedFacts
  <2> QED
    BY <1>3, <2>1
<1> HIDE DEF c
<1>6. Small(u)
  BY <1>4, <1>5 DEF Small
<1>7. Selects(J, X, O)
  BY <1>4, <1>5 DEF Selects, c
<1> HIDE DEF J
<1>8. Composes(J, X, O)
  BY <1>2, <1>7, NthCompose
<1> USE DEF c
<1>9. /\ Cardinality(J) = Cardinality(O)
      /\ \A k \in 1..Cardinality(O) : u[Nth(J, k)] = t[Nth(O, k)]
  <2>1. /\ Cardinality(J) = Cardinality(O) /\ J \subseteq 1..c
        /\ \A k \in 1..Cardinality(O) : Nth(J, k) \in J /\ Nth(X, Nth(J, k)) = Nth(O, k)
    BY <1>7, <1>8 DEF Composes, Selects
  <2>2. ASSUME NEW k \in 1..Cardinality(O) PROVE u[Nth(J, k)] = t[Nth(O, k)]
    <3>1. PICK m : m = Nth(J, k)
      OBVIOUS
    <3>2. m \in 1..c /\ Nth(X, m) = Nth(O, k)
      BY <2>1, <3>1
    <3> QED
      BY <1>5, <3>1, <3>2
  <2> QED
    BY <2>1, <2>2
<1>10. Picked(u, J) = Picked(t, O)
  BY <1>9 DEF Picked
<1> QED
  BY <1>6, <1>10 DEF Words, u, J, O

\* The same words, in a text that is not huge either.
Keeps(t, u) == Small(u) /\ Words(u) = Words(t)

LEMMA TagsKeep ==
  ASSUME NEW t, Small(t), NEW styling
  PROVE  /\ Keeps(t, ConvertSrtTagsToAss(t)) /\ Keeps(t, StripAssTags(t))
         /\ Keeps(t, VttToSrt(t, styling)) /\ Keeps(t, ConvertSrtTagsToAss(VttToSrt(t, styling)))
<1>1. ASSUME NEW u, Small(u) PROVE Keeps(u, ConvertSrtTagsToAss(u))
  <2>1. PICK v : v = Replace(u, "<b>", "{b1}")
    OBVIOUS
  <2>2. Keeps(u, v)
    BY <1>1, <2>1, ReplacedText DEF Spoken, Keeps
  <2>3. Keeps(v, Replace(v, "</b>", "{b0}"))
    BY <2>2, ReplacedText DEF Spoken, Keeps
  <2> QED
    BY <2>1, <2>2, <2>3 DEF Keeps, ConvertSrtTagsToAss
<1>2. Keeps(t, StripAssTags(t))
  BY StrippedText DEF Spoken, AssTags, StripAssTags, Keeps
<1>3. Keeps(t, VttToSrt(t, styling))
  <2>1. Keeps(t, StripVttTags(t))
    BY StrippedText DEF Spoken, HtmlTags, StripVttTags, Keeps
  <2>2. Keeps(t, t)
    BY DEF Keeps
  <2> QED
    BY <2>1, <2>2, Zenon DEF VttToSrt
<1>4. Keeps(t, ConvertSrtTagsToAss(VttToSrt(t, styling)))
  <2>1. PICK v : v = VttToSrt(t, styling)
    OBVIOUS
  <2>2. Keeps(t, v) /\ Keeps(v, ConvertSrtTagsToAss(v))
    BY <1>1, <1>3, <2>1 DEF Keeps
  <2> QED
    BY <2>1, <2>2 DEF Keeps
<1> QED
  BY <1>1, <1>2, <1>3, <1>4

SmallCues(entries) == AreCues(entries) /\ \A i \in DOMAIN entries : Small(entries[i].text)

\* The same cues at the same times, with the same words.
SameCues(e, f) ==
  /\ Len(f) = Len(e) /\ SmallCues(f)
  /\ \A i \in DOMAIN e : /\ f[i].start = e[i].start /\ f[i].end = e[i].end
                         /\ Words(f[i].text) = Words(e[i].text)

LEMMA TransformedCues ==
  ASSUME NEW sub, IsSubtitle(sub), SmallCues(sub.entries), NEW into, NEW styling,
         Transform(sub, into, styling).ok
  PROVE  sub.ok /\ SameCues(sub.entries, Transform(sub, into, styling).entries)
<1> DEFINE text(t) ==
             CASE sub.format = into -> t
               [] sub.format = "srt" /\ into = "ass" -> ConvertSrtTagsToAss(t)
               [] sub.format = "srt" /\ into = "vtt" -> t
               [] sub.format = "ass" /\ into # "ass" -> StripAssTags(t)
               [] sub.format = "vtt" /\ into = "srt" -> VttToSrt(t, styling)
               [] sub.format = "vtt" /\ into = "ass" -> ConvertSrtTagsToAss(VttToSrt(t, styling))
           e == sub.entries
           u == [i \in DOMAIN e |-> [e[i] EXCEPT !.text = text(@)]]
           result == Transform(sub, into, styling)
<1>1. result =
        IF sub.ok /\ Supported(sub.format, into) THEN Subtitle(into, u) ELSE ParseError
  BY DEF Transform, MapText
<1>2. sub.ok /\ Supported(sub.format, into) /\ result.entries = u
  <2> HIDE DEF u, result, e
  <2>1. result.ok
    BY DEF result
  <2> QED
    BY <1>1, <2>1, Errors DEF Subtitle
<1>3. ASSUME NEW t, Small(t) PROVE Keeps(t, text(t))
  <2>1. text(t) \in {t, ConvertSrtTagsToAss(t), StripAssTags(t), VttToSrt(t, styling),
                     ConvertSrtTagsToAss(VttToSrt(t, styling))}
    <3>1. CASE sub.format = into
      BY <3>1, Zenon
    <3>2. CASE sub.format = "srt" /\ into = "ass"
      BY <3>2, Zenon
    <3>3. CASE sub.format = "srt" /\ into = "vtt"
      BY <3>3, Zenon
    <3>4. CASE sub.format = "ass" /\ into # "ass"
      BY <3>4, Zenon
    <3>5. CASE sub.format = "vtt" /\ into = "srt"
      BY <3>5, Zenon
    <3>6. CASE sub.format = "vtt" /\ into = "ass"
      BY <3>6, Zenon
    <3> QED
      BY <1>2, <3>1, <3>2, <3>3, <3>4, <3>5, <3>6 DEF Supported
  <2> HIDE DEF text
  <2>2. Keeps(t, t)
    BY <1>3 DEF Keeps
  <2> QED
    BY <1>3, <2>1, <2>2, TagsKeep
<1> HIDE DEF text
<1>4. AreCues(u) /\ IsSeq(e) /\ IsSeq(u)
  <2>1. IsSubtitle(result)
    BY Transformed
  <2> HIDE DEF u, result
  <2> QED
    BY <1>2, <2>1 DEF IsSubtitle, AreCues, SmallCues
<1>5. DOMAIN u = DOMAIN e /\ Len(u) = Len(e)
  <2>1. DOMAIN u = DOMAIN e
    OBVIOUS
  <2>2. u = [i \in DOMAIN e |-> u[i]]
    OBVIOUS
  <2> HIDE DEF u
  <2> QED
    BY <1>4, <2>1, <2>2, SameLength
<1>6. ASSUME NEW i \in DOMAIN e
      PROVE  /\ u[i].start = e[i].start /\ u[i].end = e[i].end
             /\ Small(u[i].text) /\ Words(u[i].text) = Words(e[i].text)
  <2>1. u[i] = [e[i] EXCEPT !.text = text(@)]
    OBVIOUS
  <2>2. PICK x, t : x = e[i] /\ t = text(e[i].text)
    OBVIOUS
  <2>3. IsCue(x) /\ Keeps(x.text, t)
    BY <1>3, <2>2 DEF SmallCues, AreCues
  <2>4. u[i] = [x EXCEPT !.text = t]
    BY <2>1, <2>2
  <2>5. u[i].start = x.start /\ u[i].end = x.end /\ u[i].text = t
    BY <2>3, <2>4 DEF IsCue
  <2> QED
    BY <2>2, <2>3, <2>5 DEF Keeps
<1> HIDE DEF u, e, result
<1> QED
  BY <1>2, <1>4, <1>5, <1>6 DEF SameCues, SmallCues, e, result

-----------------------------------------------------------------------------
(* No cue that was parsed is huge.                                           *)

SmallLines(lines) == IsDocument(lines) /\ \A i \in DOMAIN lines : Small(lines[i].t)

LEMMA NotOversized ==
  ASSUME NEW lines, IsDocument(lines), ~Oversized(lines)
  PROVE  SmallLines(lines)
<1>1. ASSUME NEW i \in DOMAIN lines PROVE Small(lines[i].t)
  <2>1. ~Contains(lines[i].t, "huge") /\ IsSeq(lines[i].t)
    BY DEF Oversized, IsDocument, IsLine
  <2>2. PICK t : t = lines[i].t
    OBVIOUS
  <2>3. DOMAIN t = 1..Len(t)
    BY <2>1, <2>2, SeqFacts
  <2> QED
    BY <2>1, <2>2, <2>3 DEF Contains, Small
<1> QED
  BY <1>1 DEF SmallLines

LEMMA JoinedSmall ==
  ASSUME NEW lines, SmallLines(lines), lines # <<>>
  PROVE  Small(JoinLines(lines))
<1> DEFINE s == [i \in DOMAIN lines |-> <<"nl">> \o lines[i].t]
           u == FlattenSeq(s)
<1>1. IsSeq(lines) /\ IsSeq(JoinLines(lines)) /\ \A i \in DOMAIN lines : Small(lines[i].t)
  BY JoinLinesFacts DEF SmallLines, IsDocument
<1>2. IsSeq(s) /\ Len(s) = Len(lines)
  <2>1. DOMAIN s = DOMAIN lines /\ s = [i \in DOMAIN lines |-> s[i]]
    OBVIOUS
  <2> HIDE DEF s
  <2> QED
    BY <1>1, <2>1, SameLength
<1>3. \A i \in DOMAIN s : IsSeq(s[i]) /\ Len(s[i]) # 0 /\ \A j \in DOMAIN s[i] : s[i][j] # "huge"
  <2> SUFFICES ASSUME NEW i \in DOMAIN lines
               PROVE  LET z == <<"nl">> \o lines[i].t
                      IN  IsSeq(z) /\ Len(z) # 0 /\ \A j \in DOMAIN z : z[j] # "huge"
    OBVIOUS
  <2>1. PICK w, t, z : w = <<"nl">> /\ t = lines[i].t /\ z = w \o t
    OBVIOUS
  <2>2. IsSeq(w) /\ Len(w) = 1 /\ \A j \in DOMAIN w : w[j] \in {"nl"}
    <3>1. w \in Seq({"nl"}) /\ Len(w) = 1
      BY <2>1
    <3> QED
      BY <3>1, SeqOfAny
  <2>3. IsSeq(t) /\ Len(t) \in Nat /\ \A j \in DOMAIN t : t[j] # "huge"
    BY <1>1, <2>1, SeqFacts DEF Small
  <2>4. /\ IsSeq(z) /\ Len(z) = Len(w) + Len(t)
        /\ \A j \in DOMAIN z : \/ j \in DOMAIN w /\ z[j] = w[j]
                               \/ j - Len(w) \in DOMAIN t /\ z[j] = t[j - Len(w)]
    BY <2>1, <2>2, <2>3, ConcatFacts
  <2>5. \A j \in DOMAIN z : z[j] # "huge"
    BY <2>2, <2>3, <2>4
  <2>6. Len(z) # 0
    BY <2>2, <2>3, <2>4
  <2> QED
    BY <2>1, <2>4, <2>5, <2>6
<1>4. JoinLines(lines) = Tail(u)
  BY DEF JoinLines
<1>5. s # <<>> /\ Len(s) \in DOMAIN s
  BY <1>1, <1>2, SeqFacts
<1> HIDE DEF s, u
<1>6. IsSeq(u) /\ u # <<>> /\ \A k \in DOMAIN u : u[k] # "huge"
  <2>1. /\ IsSeq(u)
        /\ \A k \in DOMAIN u : \E i \in DOMAIN s : \E j \in DOMAIN s[i] : u[k] = s[i][j]
        /\ s # <<>> /\ Len(s[Len(s)]) # 0 => u # <<>>
    BY <1>2, <1>3, FlattenElements DEF u
  <2> QED
    BY <1>3, <1>5, <2>1
<1>7. \A k \in DOMAIN Tail(u) : Tail(u)[k] # "huge"
  <2>1. PICK S : u \in Seq(S)
    BY <1>6 DEF IsSeq
  <2>2. /\ Tail(u) \in Seq(S) /\ Len(Tail(u)) = Len(u) - 1
        /\ \A i \in 1..(Len(u) - 1) : Tail(u)[i] = u[i + 1]
    BY <1>6, <2>1, HeadTailProperties
  <2>3. PICK r : r = Tail(u) /\ r \in Seq(S) /\ Len(r) = Len(u) - 1 /\ \A i \in 1..(Len(u) - 1) : r[i] = u[i + 1]
    BY <2>2
  <2>4. ASSUME NEW k \in DOMAIN r PROVE r[k] # "huge"
    <3>1. DOMAIN r = 1..(Len(u) - 1) /\ DOMAIN u = 1..Len(u) /\ Len(u) \in Nat
      BY <1>6, <2>3, SeqFacts
    <3>2. k \in 1..(Len(u) - 1) /\ k + 1 \in DOMAIN u
      BY <3>1
    <3> QED
      BY <1>6, <2>3, <3>2
  <2> QED
    BY <2>3, <2>4
<1> QED
  BY <1>1, <1>4, <1>7 DEF Small

LEMMA RestSmall ==
  ASSUME NEW block, SmallLines(block), NEW m \in Nat, 1 <= m, m <= Len(block)
  PROVE  Small(JoinLines(SubSeq(block, m, Len(block))))
<1>1. IsSeq(block) /\ Len(block) \in Nat /\ IsDocument(block)
  BY SeqFacts DEF IsDocument, SmallLines
<1>2. PICK u : u = SubSeq(block, m, Len(block))
  OBVIOUS
<1>3. m \in 1..(Len(block) + 1) /\ Len(block) \in 0..Len(block)
  BY <1>1
<1>4. /\ IsDocument(u) /\ Len(u) = (IF m <= Len(block) THEN Len(block) - m + 1 ELSE 0)
      /\ \A i \in DOMAIN u : m + i - 1 \in DOMAIN block /\ u[i] = block[m + i - 1]
  BY <1>1, <1>2, <1>3, PartLines, SubSeqFacts
<1>5. u # <<>>
  <2>1. Len(u) # 0
    BY <1>1, <1>4
  <2> QED
    BY <2>1, EmptySeqs
<1>6. SmallLines(u)
  BY <1>4 DEF SmallLines
<1> QED
  BY <1>2, <1>5, <1>6, JoinedSmall

LEMMA OneSmall ==
  ASSUME NEW e, IsCue(e), Small(e.text)
  PROVE  SmallCues(<<e>>)
<1>1. <<e>> \in Seq({e})
  OBVIOUS
<1>2. \A i \in DOMAIN <<e>> : <<e>>[i] \in {e}
  BY <1>1, SeqOfAny
<1> QED
  BY <1>2, OneCue DEF SmallCues

LEMMA NoneSmall == SmallCues(<<>>)
BY EmptySeqs DEF SmallCues, AreCues

LEMMA SmallFlat ==
  ASSUME NEW s, IsSeq(s), NEW f, f = [i \in DOMAIN s |-> f[i]], \A i \in DOMAIN s : SmallCues(f[i])
  PROVE  SmallCues(FlattenSeq(f)) /\ SmallCues(Indexed(FlattenSeq(f)))
<1>1. DOMAIN f = DOMAIN s
  OBVIOUS
<1>2. IsSeq(f) /\ \A i \in DOMAIN f : AreCues(f[i]) /\ IsSeq(f[i]) /\ SmallCues(f[i])
  BY <1>1, SameLength DEF SmallCues, AreCues
<1>3. PICK u : u = FlattenSeq(f)
  OBVIOUS
<1>4. AreCues(u) /\ \A k \in DOMAIN u : \E i \in DOMAIN f : \E j \in DOMAIN f[i] : u[k] = f[i][j]
  BY <1>2, <1>3, FlattenElements, FlattenCues
<1>5. SmallCues(u)
  BY <1>2, <1>4 DEF SmallCues
<1>6. SmallCues(Indexed(u))
  <2>1. AreCues(Indexed(u))
    BY <1>4, IndexedCues
  <2>2. DOMAIN Indexed(u) = DOMAIN u /\ \A i \in DOMAIN u : Indexed(u)[i] = [u[i] EXCEPT !.index = i]
    BY DEF Indexed
  <2>3. \A i \in DOMAIN u : Indexed(u)[i].text = u[i].text
    BY <1>4, <2>2 DEF AreCues, IsCue
  <2> QED
    BY <1>5, <2>1, <2>2, <2>3 DEF SmallCues
<1> QED
  BY <1>3, <1>5, <1>6

LEMMA EntryText == \A i, a, b, t : Entry(i, a, b, t).text = t
BY DEF Entry

LEMMA SrtEntrySmall ==
  ASSUME NEW block, SmallLines(block)
  PROVE  SmallCues(SrtEntry(block))
<1>1. CASE SrtEntry(block) = <<>>
  BY <1>1, NoneSmall
<1>2. CASE SrtEntry(block) # <<>>
  <2>1. PICK t, e : /\ t = JoinLines(SubSeq(block, 3, Len(block)))
                    /\ e = Entry(block[1].a, ParseTime(block[2].a % TwoDigitHours), ParseTime(block[2].b), t)
    OBVIOUS
  <2>2. Len(block) >= 3 /\ SrtEntry(block) = <<e>>
    BY <1>2, <2>1 DEF SrtEntry
  <2>3. Small(t)
    BY <2>1, <2>2, RestSmall
  <2>4. AreCues(<<e>>)
    BY <2>2, SrtEntryCues DEF SmallLines
  <2>5. IsCue(e)
    <3>1. <<e>>[1] = e /\ 1 \in DOMAIN <<e>>
      OBVIOUS
    <3> QED
      BY <2>4, <3>1 DEF AreCues
  <2>6. e.text = t
    BY <2>1, EntryText
  <2> QED
    BY <2>2, <2>3, <2>5, <2>6, OneSmall
<1> QED
  BY <1>1, <1>2

LEMMA BlocksOf ==
  ASSUME NEW lines, IsDocument(lines), NEW k \in DOMAIN Blocks(lines)
  PROVE  SmallLines(lines) => SmallLines(Blocks(lines)[k])
<1>1. IsSeq(lines)
  BY DEF IsDocument
<1>2. PICK I : I \subseteq DOMAIN lines /\ Blocks(lines) = Pieces(lines, I)
  BY SMT DEF Blocks
<1>3. PICK p : p = Blocks(lines)[k] /\ \A j \in DOMAIN p : \E i \in DOMAIN lines : p[j] = lines[i]
  BY <1>1, <1>2, PiecesFacts
<1>4. IsDocument(p)
  BY <1>3, BlocksFacts
<1> QED
  BY <1>3, <1>4 DEF SmallLines

LEMMA SrtSmall ==
  ASSUME NEW lines, IsDocument(lines), ParseSrt(lines).ok
  PROVE  SmallCues(ParseSrt(lines).entries)
<1> DEFINE blocks == Blocks(lines)
           f == [i \in DOMAIN blocks |-> SrtEntry(blocks[i])]
<1>1. ParseSrt(lines) = IF lines = <<>> \/ Oversized(lines) THEN ParseError
                        ELSE Subtitle("srt", FlattenSeq(f))
  BY DEF ParseSrt
<1>2. ~Oversized(lines) /\ ParseSrt(lines).entries = FlattenSeq(f)
  <2> HIDE DEF f
  <2> QED
    BY <1>1, Errors
<1>3. IsSeq(blocks) /\ \A i \in DOMAIN blocks : SmallCues(SrtEntry(blocks[i]))
  BY <1>2, NotOversized, BlocksFacts, BlocksOf, SrtEntrySmall
<1>4. f = [i \in DOMAIN blocks |-> f[i]] /\ \A i \in DOMAIN blocks : SmallCues(f[i])
  BY <1>3
<1> HIDE DEF f, blocks
<1> QED
  BY <1>2, <1>3, <1>4, SmallFlat

LEMMA VttEntrySmall ==
  ASSUME NEW raw, IsDocument(raw), NoCue(Trim(raw)) \/ SmallLines(raw)
  PROVE  SmallCues(VttEntry(raw))
<1> DEFINE block == Trim(raw)
           first == IF NoCue(block) \/ IsVttTime(block[1]) THEN 1 ELSE 2
           t == IF first = Len(block) THEN <<>> ELSE JoinLines(SubSeq(block, first + 1, Len(block)))
           e == Entry(0, ParseVttTime(block[first].a), ParseVttTime(block[first].b), t)
           ok == ~NoCue(block) /\ first <= Len(block) /\ IsVttTime(block[first])
<1>1. VttEntry(raw) = IF ok THEN <<e>> ELSE <<>>
  BY DEF VttEntry
<1>2. CASE ~ok
  BY <1>1, <1>2, NoneSmall
<1>3. CASE ok
  <2>1. SmallLines(raw) /\ IsDocument(block)
    BY <1>3, TrimLines
  <2>2. SmallLines(block)
    <3> DEFINE full == {i \in DOMAIN raw : ~IsBlank(raw[i])}
               lo == CHOOSE i \in full : \A j \in full : i <= j
               hi == CHOOSE i \in full : \A j \in full : j <= i
    <3>1. block = IF full = {} THEN <<>> ELSE SubSeq(raw, lo, hi)
      BY DEF Trim
    <3>2. full = {} => SmallLines(block)
      BY <2>1, <3>1, EmptySeqs DEF SmallLines
    <3>3. ASSUME full # {} PROVE SmallLines(block)
      <4>1. IsSeq(raw) /\ Len(raw) \in Nat /\ DOMAIN raw = 1..Len(raw)
        BY SeqFacts DEF IsDocument
      <4>2. full \subseteq 1..Len(raw) /\ full \subseteq Nat /\ full \subseteq 0..Len(raw)
        BY <4>1
      <4> HIDE DEF full
      <4>3. \E i \in full : \A j \in full : i <= j
        BY <3>3, <4>2, Least
      <4>4. \E i \in full : \A j \in full : j <= i
        BY <3>3, <4>1, <4>2, Greatest
      <4>5. lo \in full /\ hi \in full
        BY <4>3, <4>4
      <4> HIDE DEF lo, hi
      <4>6. lo \in 1..(Len(raw) + 1) /\ hi \in 0..Len(raw)
        BY <4>1, <4>2, <4>5
      <4>7. \A i \in DOMAIN SubSeq(raw, lo, hi) :
              lo + i - 1 \in DOMAIN raw /\ SubSeq(raw, lo, hi)[i] = raw[lo + i - 1]
        BY <4>1, <4>6, SubSeqFacts
      <4>8. block = SubSeq(raw, lo, hi)
        BY <3>1, <3>3
      <4> HIDE DEF block
      <4> QED
        BY <2>1, <4>7, <4>8 DEF SmallLines
    <3> QED
      BY <3>2, <3>3
  <2>3. Len(block) \in Nat /\ first \in {1, 2}
    BY <2>1, SeqFacts DEF IsDocument
  <2>4. AreCues(<<e>>)
    <3> HIDE DEF block, first, e
    <3> QED
      BY <1>1, <1>3, VttEntryCues
  <2> HIDE DEF block, first
  <2>5. Small(t)
    <3>1. CASE first = Len(block)
      BY <3>1, EmptySeqs DEF Small
    <3>2. CASE first # Len(block)
      <4>1. first + 1 \in Nat /\ 1 <= first + 1 /\ first + 1 <= Len(block)
        BY <1>3, <2>3, <3>2
      <4>2. Small(JoinLines(SubSeq(block, first + 1, Len(block))))
        BY <2>2, <4>1, RestSmall
      <4> QED
        BY <3>2, <4>2
    <3> QED
      BY <3>1, <3>2
  <2>6. e.text = t
    BY EntryText
  <2> HIDE DEF e, t
  <2>7. IsCue(e)
    <3>1. <<e>>[1] = e /\ 1 \in DOMAIN <<e>>
      OBVIOUS
    <3> QED
      BY <2>4, <3>1 DEF AreCues
  <2> QED
    BY <1>1, <1>3, <2>5, <2>6, <2>7, OneSmall
<1> QED
  BY <1>2, <1>3

LEMMA VttSmall ==
  ASSUME NEW lines, IsDocument(lines), ParseVtt(lines).ok
  PROVE  SmallCues(ParseVtt(lines).entries)
<1> DEFINE blocks == Blocks(lines)
           f == [i \in DOMAIN blocks |-> VttEntry(blocks[i])]
           bad == \E i \in DOMAIN blocks : ~NoCue(Trim(blocks[i])) /\ Oversized(blocks[i])
<1>1. ParseVtt(lines) = IF ~DetectVtt(lines) \/ bad THEN ParseError
                        ELSE Subtitle("vtt", Indexed(FlattenSeq(f)))
  BY DEF ParseVtt
<1>2. ~bad /\ ParseVtt(lines).entries = Indexed(FlattenSeq(f))
  <2> HIDE DEF f, bad
  <2> QED
    BY <1>1, Errors
<1>3. IsSeq(blocks) /\ \A i \in DOMAIN blocks : IsDocument(blocks[i])
  BY BlocksFacts
<1>4. ASSUME NEW i \in DOMAIN blocks PROVE SmallCues(VttEntry(blocks[i]))
  <2>1. IsDocument(blocks[i]) /\ (NoCue(Trim(blocks[i])) \/ ~Oversized(blocks[i]))
    BY <1>2, <1>3
  <2>2. PICK raw : raw = blocks[i]
    OBVIOUS
  <2>3. IsDocument(raw) /\ (NoCue(Trim(raw)) \/ SmallLines(raw))
    BY <2>1, <2>2, NotOversized
  <2> QED
    BY <2>2, <2>3, VttEntrySmall
<1>5. f = [i \in DOMAIN blocks |-> f[i]] /\ \A i \in DOMAIN blocks : SmallCues(f[i])
  BY <1>4
<1> HIDE DEF f, blocks
<1> QED
  BY <1>2, <1>3, <1>5, SmallFlat

LEMMA ReplacedSmall ==
  ASSUME NEW t, Small(t), NEW a, NEW b, b # "huge"
  PROVE  Small(Replace(t, a, b))
<1>1. IsSeq(Replace(t, a, b))
  BY ReplaceFacts DEF Small
<1>2. DOMAIN Replace(t, a, b) = DOMAIN t
      /\ \A i \in DOMAIN t : Replace(t, a, b)[i] = IF t[i] = a THEN b ELSE t[i]
  BY DEF Replace
<1> QED
  BY <1>1, <1>2 DEF Small

LEMMA AssSmall ==
  ASSUME NEW lines, IsDocument(lines), ParseAss(lines).ok
  PROVE  SmallCues(ParseAss(lines).entries)
<1> DEFINE rows == {i \in DOMAIN lines : IsRow(lines, i)}
           I == {i \in rows : ~Skipped(lines[i])}
           kept == Picked(lines, I)
           c == [n \in DOMAIN kept |->
                   Entry(n, ParseAssTime(kept[n].a), ParseAssTime(kept[n].b),
                         Replace(kept[n].t, "\\N", "nl"))]
           bad == \/ AllBlank(lines) \/ \A i \in DOMAIN lines : lines[i].k # "events"
                  \/ \E i \in rows : RowFails(lines, i)
<1>1. ParseAss(lines) = IF bad THEN ParseError ELSE Subtitle("ass", c)
  BY DEF ParseAss
<1>2. ~bad /\ ParseAss(lines).entries = c
  <2> HIDE DEF c, bad
  <2> QED
    BY <1>1, Errors
<1>3. AreCues(c)
  <2>1. Parsed(ParseAss(lines), "ass")
    BY AssParsed
  <2> HIDE DEF c
  <2> QED
    BY <1>2, <2>1 DEF Parsed, IsSubtitle
<1>4. \A i \in I : Small(lines[i].t)
  <2> SUFFICES ASSUME NEW i \in I PROVE Small(lines[i].t)
    OBVIOUS
  <2>1. ~Contains(lines[i].t, "huge")
    BY <1>2 DEF RowFails
  <2>2. PICK t : t = lines[i].t
    OBVIOUS
  <2>3. IsSeq(t)
    BY <2>2 DEF IsDocument, IsLine
  <2>4. DOMAIN t = 1..Len(t)
    BY <2>3, SeqFacts
  <2> QED
    BY <2>1, <2>2, <2>3, <2>4 DEF Contains, Small
<1>5. \A n \in DOMAIN kept : Small(kept[n].t)
  <2>1. IsSeq(lines) /\ I \subseteq DOMAIN lines
    BY DEF IsDocument
  <2> HIDE DEF I
  <2>2. /\ DOMAIN kept = 1..Cardinality(I)
        /\ \A k \in 1..Cardinality(I) : Nth(I, k) \in I /\ kept[k] = lines[Nth(I, k)]
    BY <2>1, PickedFacts
  <2> QED
    BY <1>4, <2>2
<1> HIDE DEF kept
<1>6. ASSUME NEW n \in DOMAIN c PROVE Small(c[n].text)
  <2>1. n \in DOMAIN kept
    OBVIOUS
  <2>2. c[n] = Entry(n, ParseAssTime(kept[n].a), ParseAssTime(kept[n].b), Replace(kept[n].t, "\\N", "nl"))
    BY <2>1
  <2> HIDE DEF c
  <2>3. c[n].text = Replace(kept[n].t, "\\N", "nl")
    BY <2>2, EntryText
  <2> QED
    BY <1>5, <2>1, <2>3, ReplacedSmall
<1> HIDE DEF c
<1> QED
  BY <1>2, <1>3, <1>6 DEF SmallCues

LEMMA SubSmall ==
  ASSUME NEW lines, IsDocument(lines), ParseSub(lines).ok
  PROVE  SmallCues(ParseSub(lines).entries)
<1> DEFINE f == [i \in DOMAIN lines |-> SubEntry(lines[i])]
           bad == lines = <<>> \/ \E i \in DOMAIN lines : lines[i].k = "sub" /\ Oversized(<<lines[i]>>)
<1>1. ParseSub(lines) = IF bad THEN ParseError ELSE Subtitle("sub", Indexed(FlattenSeq(f)))
  BY DEF ParseSub
<1>2. ~bad /\ ParseSub(lines).entries = Indexed(FlattenSeq(f))
  <2> HIDE DEF f, bad
  <2> QED
    BY <1>1, Errors
<1>3. IsSeq(lines) /\ \A i \in DOMAIN lines : IsLine(lines[i])
  BY DEF IsDocument
<1>4. ASSUME NEW i \in DOMAIN lines PROVE SmallCues(SubEntry(lines[i]))
  <2>1. PICK l, t, e : /\ l = lines[i] /\ t = Replace(l.t, "|", "nl")
                       /\ e = Entry(0, FromFrame(l.a), FromFrame(l.b), t)
    OBVIOUS
  <2> DEFINE ok == l.k = "sub" /\ {FromFrame(l.a), FromFrame(l.b)} \subseteq 0..MaxSubMs
  <2>2. SubEntry(l) = IF ok THEN <<e>> ELSE <<>>
    BY <2>1 DEF SubEntry
  <2>3. CASE ~ok
    BY <2>1, <2>2, <2>3, NoneSmall
  <2>4. CASE ok
    <3>1. ~Oversized(<<l>>)
      BY <1>2, <2>1, <2>4
    <3>2. Small(l.t)
      <4>1. IsDocument(<<l>>)
        BY <1>3, <2>1, FewLines
      <4>2. SmallLines(<<l>>)
        BY <3>1, <4>1, NotOversized
      <4>3. 1 \in DOMAIN <<l>> /\ <<l>>[1] = l
        OBVIOUS
      <4> QED
        BY <4>2, <4>3 DEF SmallLines
    <3>3. Small(t) /\ e.text = t
      BY <2>1, <3>2, ReplacedSmall, EntryText
    <3>4. IsCue(e)
      <4>1. FromFrame(l.a) \in 0..MaxSubMs /\ FromFrame(l.b) \in 0..MaxSubMs
        BY <2>4
      <4>2. MaxSubMs \in Nat
        BY SMT DEF MaxSubMs
      <4>3. FromFrame(l.a) \in Nat /\ FromFrame(l.b) \in Nat
        BY <4>1, <4>2
      <4> QED
        BY <2>1, <3>3, <4>3, CueFacts DEF Small
    <3> HIDE DEF ok
    <3> QED
      BY <2>1, <2>2, <2>4, <3>3, <3>4, OneSmall
  <2> QED
    BY <2>3, <2>4
<1>5. f = [i \in DOMAIN lines |-> f[i]] /\ \A i \in DOMAIN lines : SmallCues(f[i])
  BY <1>4
<1> HIDE DEF f
<1> QED
  BY <1>2, <1>3, <1>5, SmallFlat

LEMMA AutoSmall ==
  ASSUME NEW doc, IsDocument(doc.lines)
  PROVE  SmallCues(ParseAuto(doc).entries)
<1> DEFINE I == {i \in DOMAIN Registered : Detects(Registered[i], doc)}
           hits == Picked(Registered, I)
<1>1. ParseAuto(doc) = IF hits = <<>> THEN ParseError ELSE Parse(hits[1], doc.lines)
  BY DEF ParseAuto
<1>2. ParseError.entries = <<>> /\ ParseError.ok = FALSE
  BY DEF ParseError
<1>3. IsSeq(hits) /\ \A k \in DOMAIN hits : hits[k] \in Formats
  <2>1. IsSeq(Registered) /\ \A i \in DOMAIN Registered : Registered[i] \in Formats
    <3>1. Registered \in Seq(Formats)
      BY DEF Registered, Formats
    <3> QED
      BY <3>1, SeqOfAny
  <2>2. I \subseteq DOMAIN Registered
    OBVIOUS
  <2> HIDE DEF I
  <2>3. /\ IsSeq(hits) /\ DOMAIN hits = 1..Cardinality(I)
        /\ \A k \in 1..Cardinality(I) : Nth(I, k) \in I /\ hits[k] = Registered[Nth(I, k)]
    BY <2>1, <2>2, PickedFacts
  <2> QED
    BY <2>1, <2>2, <2>3
<1> HIDE DEF hits
<1>4. CASE hits = <<>>
  BY <1>1, <1>2, <1>4, NoneSmall
<1>5. CASE hits # <<>>
  <2>1. hits[1] \in Formats
    BY <1>3, <1>5 DEF IsSeq
  <2>2. ASSUME NEW format \in Formats PROVE SmallCues(Parse(format, doc.lines).entries)
    <3>1. PICK lines : lines = doc.lines
      OBVIOUS
    <3>2. format \in {"ass", "vtt", "srt", "sub"}
      BY DEF Formats
    <3>3. \/ Parse(format, lines) = ParseAss(lines) \/ Parse(format, lines) = ParseVtt(lines)
          \/ Parse(format, lines) = ParseSrt(lines) \/ Parse(format, lines) = ParseSub(lines)
      <4>1. CASE format = "ass"
        BY <4>1, Zenon DEF Parse
      <4>2. CASE format = "vtt"
        BY <4>2, Zenon DEF Parse
      <4>3. CASE format = "srt"
        BY <4>3, Zenon DEF Parse
      <4>4. CASE format = "sub"
        BY <4>4, Zenon DEF Parse
      <4> QED
        BY <3>2, <4>1, <4>2, <4>3, <4>4
    <3>4. /\ ParseAss(lines).ok \/ ParseAss(lines) = ParseError
          /\ ParseVtt(lines).ok \/ ParseVtt(lines) = ParseError
          /\ ParseSrt(lines).ok \/ ParseSrt(lines) = ParseError
          /\ ParseSub(lines).ok \/ ParseSub(lines) = ParseError
      <4>1. ParseAss(lines).ok \/ ParseAss(lines) = ParseError
        BY Errors, Zenon DEF ParseAss
      <4>2. ParseVtt(lines).ok \/ ParseVtt(lines) = ParseError
        BY Errors, Zenon DEF ParseVtt
      <4>3. ParseSrt(lines).ok \/ ParseSrt(lines) = ParseError
        BY Errors, Zenon DEF ParseSrt
      <4>4. ParseSub(lines).ok \/ ParseSub(lines) = ParseError
        BY Errors, Zenon DEF ParseSub
      <4> QED
        BY <4>1, <4>2, <4>3, <4>4
    <3>5. /\ SmallCues(ParseAss(lines).entries) /\ SmallCues(ParseVtt(lines).entries)
          /\ SmallCues(ParseSrt(lines).entries) /\ SmallCues(ParseSub(lines).entries)
      <4>1. IsDocument(lines)
        BY <3>1
      <4>2. SmallCues(ParseError.entries)
        BY <1>2, NoneSmall
      <4> QED
        BY <3>4, <4>1, <4>2, AssSmall, VttSmall, SrtSmall, SubSmall
    <3> QED
      BY <3>1, <3>3, <3>5
  <2> QED
    BY <1>1, <1>5, <2>1, <2>2
<1> QED
  BY <1>4, <1>5

-----------------------------------------------------------------------------
(* What is written is read back: lines, times and detection.                 *)

LEMMA TrimFirst ==
  ASSUME NEW L, IsDocument(L), L # <<>>, ~IsBlank(L[1])
  PROVE  /\ Trim(L) # <<>> /\ Trim(L)[1] = L[1]
         /\ (\A i \in DOMAIN L : ~IsBlank(L[i])) => Trim(L) = L
<1> DEFINE n == Len(L)
           full == {i \in DOMAIN L : ~IsBlank(L[i])}
           lo == CHOOSE i \in full : \A j \in full : i <= j
           hi == CHOOSE i \in full : \A j \in full : j <= i
<1>1. n \in Nat /\ DOMAIN L = 1..n /\ IsSeq(L) /\ L = [i \in 1..n |-> L[i]]
  BY SeqFacts DEF IsDocument
<1>2. n # 0
  BY <1>1 DEF IsSeq
<1>3. Trim(L) = IF full = {} THEN <<>> ELSE SubSeq(L, lo, hi)
  BY DEF Trim
<1>4. 1 \in full /\ full \subseteq 1..n /\ full \subseteq 0..n
  BY <1>1, <1>2
<1>5. (\A i \in DOMAIN L : ~IsBlank(L[i])) => n \in full
  BY <1>1, <1>2
<1> HIDE DEF full, n
<1>6. lo = 1
  <2>1. \A j \in full : 1 <= j
    BY <1>4
  <2>2. lo \in full /\ \A j \in full : lo <= j
    BY <1>4, <2>1
  <2> HIDE DEF lo
  <2> QED
    BY <1>4, <2>2
<1>7. hi \in 1..n /\ \A j \in full : j <= hi
  <2>1. \E i \in full : \A j \in full : j <= i
    BY <1>1, <1>4, Greatest
  <2>2. hi \in full /\ \A j \in full : j <= hi
    BY <2>1
  <2> HIDE DEF hi
  <2> QED
    BY <1>4, <2>2
<1> HIDE DEF lo, hi
<1>8. PICK x, m : x = Trim(L) /\ m = 1 /\ x = SubSeq(L, m, hi)
  BY <1>3, <1>4, <1>6
<1>9. /\ IsSeq(x) /\ Len(x) = (IF m <= hi THEN hi - m + 1 ELSE 0)
      /\ \A i \in DOMAIN x : x[i] = L[m + i - 1]
  <2>1. m \in 1..(Len(L) + 1) /\ hi \in 0..Len(L)
    BY <1>1, <1>7, <1>8 DEF n
  <2>2. IsSeq(L)
    BY <1>1
  <2>3. /\ IsSeq(SubSeq(L, m, hi)) /\ Len(SubSeq(L, m, hi)) = (IF m <= hi THEN hi - m + 1 ELSE 0)
        /\ \A i \in DOMAIN SubSeq(L, m, hi) : SubSeq(L, m, hi)[i] = L[m + i - 1]
    BY <2>1, <2>2, SubSeqFacts
  <2> QED
    BY <1>8, <2>3
<1>10. Len(x) = hi /\ DOMAIN x = 1..hi /\ x = [i \in 1..hi |-> x[i]]
  <2>1. Len(x) = hi
    BY <1>7, <1>8, <1>9
  <2> QED
    BY <1>9, <2>1, SeqFacts
<1>11. \A i \in 1..hi : x[i] = L[i]
  <2>1. m = 1 /\ \A i \in 1..hi : x[i] = L[m + i - 1]
    BY <1>8, <1>9, <1>10
  <2>2. hi \in Nat
    BY <1>1, <1>7
  <2> QED
    BY <2>1, <2>2
<1>12. x # <<>> /\ x[1] = L[1]
  <2>1. Len(x) # 0 /\ 1 \in 1..hi
    BY <1>7, <1>10
  <2> QED
    BY <1>11, <2>1, EmptySeqs
<1>13. ASSUME \A i \in DOMAIN L : ~IsBlank(L[i]) PROVE x = L
  <2>1. n <= hi
    BY <1>5, <1>7, <1>13
  <2>2. hi = n
    BY <1>1, <1>7, <2>1
  <2> QED
    BY <1>1, <1>10, <1>11, <2>2
<1> QED
  BY <1>8, <1>12, <1>13

\* The first format that recognises a document.
LEMMA FirstHit ==
  ASSUME NEW doc, NEW m \in 1..4, Detects(Registered[m], doc),
         \A j \in 1..4 : j < m => ~Detects(Registered[j], doc)
  PROVE  ParseAuto(doc) = Parse(Registered[m], doc.lines)
<1> DEFINE I == {i \in DOMAIN Registered : Detects(Registered[i], doc)}
           hits == Picked(Registered, I)
<1>1. ParseAuto(doc) = IF hits = <<>> THEN ParseError ELSE Parse(hits[1], doc.lines)
  BY DEF ParseAuto
<1>2. DOMAIN Registered = 1..4 /\ IsSeq(Registered)
  <2>1. Registered \in Seq(Formats) /\ DOMAIN Registered = 1..4
    BY DEF Registered, Formats
  <2> QED
    BY <2>1, SeqOfAny
<1>3. m \in I /\ I \subseteq 1..4 /\ \A j \in I : m <= j
  <2>1. m \in I /\ I \subseteq 1..4
    BY <1>2
  <2>2. \A j \in I : ~(j < m)
    BY <1>2
  <2>3. \A j \in 1..4 : j < m \/ m <= j
    OBVIOUS
  <2> HIDE DEF I
  <2> QED
    BY <2>1, <2>2, <2>3
<1> HIDE DEF I
<1>4. IsFiniteSet(I) /\ I \subseteq Nat /\ Cardinality(I) \in Nat
  <2>1. IsFiniteSet(1..4)
    <3>1. PICK a, b : a \in Int /\ b \in Int /\ a = 1 /\ b = 4
      OBVIOUS
    <3>2. IsFiniteSet(a..b)
      BY <3>1, FS_Interval
    <3> QED
      BY <3>1, <3>2
  <2>2. IsFiniteSet(I)
    BY <1>3, <2>1, FS_Subset
  <2> QED
    BY <1>3, <2>2, FS_CardinalityType
<1>5. Place(I, m) = 1
  <2>1. {j \in I : j <= m} = {m}
    <3>1. \A j \in I : j <= m => j = m
      BY <1>3
    <3> QED
      BY <1>3, <3>1
  <2> QED
    BY <2>1, FS_Singleton DEF Place
<1>6. Nth(I, 1) = m /\ 1 \in 1..Cardinality(I)
  <2>1. Nth(I, 1) = m
    BY <1>3, <1>4, <1>5, NthIs
  <2>2. Place(I, m) \in 1..Cardinality(I)
    BY <1>3, <1>4, PlaceFacts
  <2> QED
    BY <1>5, <2>1, <2>2
<1>7. hits # <<>> /\ hits[1] = Registered[m]
  <2>1. /\ IsSeq(hits) /\ Len(hits) = Cardinality(I)
        /\ \A k \in 1..Cardinality(I) : hits[k] = Registered[Nth(I, k)]
    BY <1>2, <1>3, PickedFacts
  <2>2. Len(hits) # 0
    BY <1>4, <1>6, <2>1
  <2> HIDE DEF hits
  <2> QED
    BY <1>6, <2>1, <2>2, EmptySeqs
<1> HIDE DEF hits
<1> QED
  BY <1>1, <1>7

LEMMA InRange ==
  ASSUME NEW n \in Nat, NEW x \in Int
  PROVE  x \in 0..(n - 1) <=> (0 <= x /\ x < n)
BY SMT

LEMMA Limits ==
  /\ Hours100 \in Nat /\ Hours100 = 360000000
  /\ MaxSubMs \in Nat /\ MaxSubMs = 86400000
  /\ TwoDigitHours \in Nat /\ TwoDigitHours = 1000000000
BY SMT DEF Hours100, MaxSubMs, TwoDigitHours

\* Times survive being written, within the grain of the format.
LEMMA ClockDigits ==
  ASSUME NEW ms \in Nat, ms < 360000000
  PROVE  /\ FormatDuration(ms) \in Nat /\ FormatDuration(ms) < 1000000000
         /\ ParseTime(FormatDuration(ms)) = ms
<1>1. PICK h, r, m, s : /\ h = ms \div 3600000 /\ r = ms % 3600000
                        /\ m = r \div 60000 /\ s = ms % 60000
  BY SMT
<1>2. /\ h \in Nat /\ r \in Nat /\ m \in Nat /\ s \in Nat
      /\ h < 100 /\ r < 3600000 /\ m < 60 /\ s < 60000
      /\ ms = h * 3600000 + r /\ r = m * 60000 + s
  BY <1>1, SMTT(30)
<1>3. FormatDuration(ms) = h * 10000000 + m * 100000 + s
  BY <1>1, SMT DEF FormatDuration
<1>4. PICK d : d = h * 10000000 + m * 100000 + s
  BY SMT
<1>5. d \in Nat /\ d < 1000000000 /\ d \div 10000000 = h /\ d % 10000000 = m * 100000 + s
  BY <1>2, <1>4, SMTT(30)
<1>6. (m * 100000 + s) \div 100000 = m /\ d % 100000 = s
  BY <1>2, <1>4, SMTT(30)
<1>7. ParseTime(d) = ms
  BY <1>2, <1>5, <1>6, SMTT(30) DEF ParseTime
<1> QED
  BY <1>3, <1>4, <1>5, <1>7, SMT

LEMMA AssDigits ==
  ASSUME NEW ms \in Nat, ms < 360000000
  PROVE  /\ FormatAssTime(ms) \in Nat /\ ParseAssTime(FormatAssTime(ms)) \in Nat
         /\ ParseAssTime(FormatAssTime(ms)) - ms < 10 /\ ms - ParseAssTime(FormatAssTime(ms)) < 10
<1>1. PICK h, r, m, s, c : /\ h = ms \div 3600000 /\ r = ms % 3600000
                           /\ m = r \div 60000 /\ s = ms % 60000 /\ c = s \div 10
  BY SMT
<1>2. /\ h \in Nat /\ r \in Nat /\ m \in Nat /\ s \in Nat /\ c \in Nat
      /\ h < 100 /\ r < 3600000 /\ m < 60 /\ s < 60000 /\ c < 6000
      /\ ms = h * 3600000 + r /\ r = m * 60000 + s /\ 0 <= s - c * 10 /\ s - c * 10 < 10
  BY <1>1, SMTT(30)
<1>3. FormatAssTime(ms) = h * 1000000 + m * 10000 + c
  BY <1>1, SMT DEF FormatAssTime
<1>4. PICK d : d = h * 1000000 + m * 10000 + c
  BY SMT
<1>5. d \in Nat /\ d \div 1000000 = h /\ d % 1000000 = m * 10000 + c
  BY <1>2, <1>4, SMTT(30)
<1>6. (m * 10000 + c) \div 10000 = m /\ d % 10000 = c
  BY <1>2, <1>4, SMTT(30)
<1>7. ParseAssTime(d) = h * 3600000 + m * 60000 + c * 10
  BY <1>5, <1>6, SMTT(30) DEF ParseAssTime
<1>8. ParseAssTime(d) \in Nat /\ ParseAssTime(d) - ms < 10 /\ ms - ParseAssTime(d) < 10
  BY <1>2, <1>7, SMTT(30)
<1> QED
  BY <1>3, <1>4, <1>5, <1>8, SMT

LEMMA FrameDigits ==
  ASSUME NEW ms \in Nat, ms < 86400000
  PROVE  /\ FromFrame(ToFrame(ms)) \in Nat /\ FromFrame(ToFrame(ms)) <= 86400000
         /\ FromFrame(ToFrame(ms)) - ms < 40 /\ ms - FromFrame(ToFrame(ms)) < 40
<1>1. PICK q : q = (ms + 20) \div 40
  BY SMT
<1>2. q \in Nat /\ q * 40 <= ms + 20 /\ ms + 20 < q * 40 + 40
  BY <1>1, SMTT(30)
<1>3. FromFrame(ToFrame(ms)) = q * 40
  BY <1>1, SMT DEF FromFrame, ToFrame, FrameMs
<1>4. q <= 2160000
  BY <1>2, SMT
<1> QED
  BY <1>2, <1>3, <1>4, SMT

LEMMA Shorter ==
  ASSUME NEW x \in Nat, x < 1000000000
  PROVE  x % 1000000000 = x
BY SMT

\* Times survive being written, within the grain of the format.
LEMMA ClockTimes ==
  ASSUME NEW ms \in Nat, ms < Hours100
  PROVE  /\ FormatDuration(ms) \in Nat
         /\ FormatDuration(ms) \in 0..(TwoDigitHours - 1)
         /\ FormatDuration(ms) % TwoDigitHours = FormatDuration(ms)
         /\ ParseTime(FormatDuration(ms)) = ms
<1>1. ms < 360000000
  BY Limits, SMT
<1>2. PICK d : d = FormatDuration(ms)
  BY Zenon
<1>3. d \in Nat /\ d < 1000000000 /\ ParseTime(d) = ms
  BY <1>1, <1>2, ClockDigits, SMT
<1>4. d < TwoDigitHours /\ TwoDigitHours \in Nat /\ d \in Int /\ 0 <= d
  BY <1>3, Limits, SMT
<1>5. d \in 0..(TwoDigitHours - 1)
  BY <1>4, InRange, SMT
<1>6. d % TwoDigitHours = d
  BY <1>3, Limits, Shorter, SMT
<1> QED
  BY <1>2, <1>3, <1>5, <1>6, SMT

Close(t, u, grain) == t - u < grain /\ u - t < grain

LEMMA AssTimes ==
  ASSUME NEW ms \in Nat, ms < Hours100
  PROVE  FormatAssTime(ms) \in Nat /\ Close(ParseAssTime(FormatAssTime(ms)), ms, 10)
<1>1. ms < 360000000
  BY Limits, SMT
<1> QED
  BY <1>1, AssDigits, SMT DEF Close

LEMMA FrameTimes ==
  ASSUME NEW ms \in Nat, ms < MaxSubMs
  PROVE  /\ FromFrame(ToFrame(ms)) \in 0..MaxSubMs
         /\ Close(FromFrame(ToFrame(ms)), ms, FrameMs)
<1>1. ms < 86400000
  BY Limits, SMT
<1>2. PICK d : d = FromFrame(ToFrame(ms))
  BY Zenon
<1>3. d \in Nat /\ d <= 86400000 /\ d - ms < 40 /\ ms - d < 40
  BY <1>1, <1>2, FrameDigits, SMT
<1>4. d <= MaxSubMs /\ MaxSubMs \in Nat
  BY <1>3, Limits, SMT
<1>5. d \in 0..MaxSubMs
  BY <1>3, <1>4, SMT
<1> QED
  BY <1>2, <1>3, <1>5, SMT DEF Close, FrameMs

-----------------------------------------------------------------------------
\* A text that neither is too long nor looks like a line of ASS.
Plain(t) == IsSeq(t) /\ \A i \in DOMAIN t : t[i] \notin AssWords \cup {"huge"}

LEMMA PlainFacts ==
  ASSUME NEW t, Plain(t)
  PROVE  /\ ~Contains(t, "huge") /\ IsSeq(t)
         /\ \A word \in AssWords : ~Contains(t, word)
<1>1. DOMAIN t = 1..Len(t) /\ IsSeq(t)
  BY SeqFacts DEF Plain
<1> QED
  BY <1>1 DEF Contains, Plain

LEMMA LineFields ==
  /\ \A k, a, b, t : /\ Line(k, a, b, t).k = k /\ Line(k, a, b, t).t = t
                     /\ Line(k, a, b, t).a = a /\ Line(k, a, b, t).b = b
  /\ \A k : Mark(k).k = k /\ Mark(k).t = <<>>
  /\ \A t : TextLine(t).k = "text" /\ TextLine(t).t = t
  /\ Blank.k = "text" /\ Blank.t = <<>> /\ \A x : IsBlank(x) => x.k = "text"
BY DEF Line, Mark, TextLine, Blank, IsBlank

LEMMA PlainLines ==
  ASSUME NEW t, Plain(t)
  PROVE  /\ IsDocument(TextLines(t)) /\ Len(TextLines(t)) \in Nat /\ Len(TextLines(t)) # 0
         /\ \A k \in DOMAIN TextLines(t) : TextLines(t)[k].k = "text" /\ Plain(TextLines(t)[k].t)
<1> DEFINE I == {i \in DOMAIN t : t[i] = "nl"}
           pieces == Pieces(t, I)
<1>1. IsSeq(t) /\ DOMAIN t = 1..Len(t) /\ Len(t) \in Nat
  BY SeqFacts DEF Plain
<1>2. /\ IsSeq(pieces)
      /\ \A k \in DOMAIN pieces :
           /\ IsSeq(pieces[k]) /\ \A j \in DOMAIN pieces[k] : \E i \in DOMAIN t : pieces[k][j] = t[i]
  <2>1. I \subseteq DOMAIN t
    OBVIOUS
  <2> HIDE DEF I
  <2> QED
    BY <1>1, <2>1, PiecesFacts
<1>3. DOMAIN pieces = 1..(Cardinality(I) + 1) /\ Cardinality(I) \in Nat
  <2>1. IsFiniteSet(1..Len(t))
    BY <1>1, FS_Interval
  <2>2. IsFiniteSet(I)
    BY <1>1, <2>1, FS_Subset
  <2> QED
    BY <2>2, FS_CardinalityType DEF Pieces
<1>4. TextLines(t) = [k \in DOMAIN pieces |-> TextLine(pieces[k])]
  BY DEF TextLines
<1>5. IsDocument(TextLines(t))
  BY <1>1, TextLinesFacts
<1> HIDE DEF pieces, I
<1>6. Len(TextLines(t)) = Cardinality(I) + 1
  <2>1. DOMAIN TextLines(t) = 1..(Cardinality(I) + 1) /\ IsSeq(TextLines(t))
    BY <1>3, <1>4, <1>5 DEF IsDocument
  <2> QED
    BY <1>3, <2>1 DEF IsSeq
<1>7. ASSUME NEW k \in DOMAIN TextLines(t)
      PROVE  TextLines(t)[k].k = "text" /\ Plain(TextLines(t)[k].t)
  <2>1. k \in DOMAIN pieces /\ TextLines(t)[k] = TextLine(pieces[k])
    BY <1>4
  <2>2. Plain(pieces[k])
    BY <1>2, <2>1 DEF Plain
  <2> QED
    BY <2>1, <2>2, LineFields
<1> QED
  BY <1>3, <1>5, <1>6, <1>7

LEMMA Behind ==
  ASSUME NEW x, IsSeq(x), NEW y, IsSeq(y)
  PROVE  /\ IsSeq(x \o y) /\ Len(x \o y) = Len(x) + Len(y)
         /\ \A p \in 1..Len(x) : (x \o y)[p] = x[p]
         /\ \A j \in 1..Len(y) : (x \o y)[Len(x) + j] = y[j]
<1> DEFINE S == {x[i] : i \in DOMAIN x} \cup {y[i] : i \in DOMAIN y}
<1>1. x \in Seq(S) /\ y \in Seq(S)
  <2>1. (\A i \in DOMAIN x : x[i] \in S) /\ (\A i \in DOMAIN y : y[i] \in S)
    OBVIOUS
  <2> HIDE DEF S
  <2> QED
    BY <2>1, SeqFacts
<1> HIDE DEF S
<1>2. IsSeq(x \o y)
  BY ConcatFacts
<1> QED
  BY <1>1, <1>2, ConcatPlaces

LEMMA Single == \A x : IsSeq(<<x>>) /\ Len(<<x>>) = 1 /\ <<x>>[1] = x
<1> SUFFICES ASSUME NEW x PROVE IsSeq(<<x>>) /\ Len(<<x>>) = 1 /\ <<x>>[1] = x
  OBVIOUS
<1>1. <<x>> \in Seq({x}) /\ Len(<<x>>) = 1 /\ <<x>>[1] = x
  OBVIOUS
<1> QED
  BY <1>1, SeqOfAny

LEMMA Double == \A x, y : IsSeq(<<x, y>>) /\ Len(<<x, y>>) = 2 /\ <<x, y>>[1] = x /\ <<x, y>>[2] = y
<1> SUFFICES ASSUME NEW x, NEW y
             PROVE  IsSeq(<<x, y>>) /\ Len(<<x, y>>) = 2 /\ <<x, y>>[1] = x /\ <<x, y>>[2] = y
  OBVIOUS
<1>1. <<x, y>> \in Seq({x, y}) /\ Len(<<x, y>>) = 2 /\ <<x, y>>[1] = x /\ <<x, y>>[2] = y
  OBVIOUS
<1> QED
  BY <1>1, SeqOfAny

\* A line that is one of two given ones or a line of plain text.
Ordinary(l, first, second) == l = first \/ l = second \/ (l.k = "text" /\ Plain(l.t))

\* A cue's lines, and those of its block.
PartOf(first, second, T) == <<first, second>> \o T \o <<Blank>>
BodyOf(part) == SubSeq(part, 1, Len(part) - 1)

LEMMA CuePart ==
  ASSUME NEW first, first.k # "text", NEW second, second.k # "text", NEW T, IsSeq(T),
         \A k \in DOMAIN T : T[k].k = "text" /\ Plain(T[k].t) /\ ~IsBlank(T[k]),
         NEW part, part = PartOf(first, second, T),
         NEW body, body = BodyOf(part)
  PROVE  /\ Ended(part) /\ Len(part) = Len(T) + 3 /\ part[1] = first /\ part[2] = second
         /\ \A j \in 1..Len(part) : Ordinary(part[j], first, second)
         /\ IsSeq(body) /\ Len(body) = Len(T) + 2 /\ body[1] = first /\ body[2] = second
         /\ \A j \in DOMAIN body : ~IsBlank(body[j]) /\ Ordinary(body[j], first, second)
         /\ SubSeq(body, 3, Len(body)) = T
<1>1. PICK n : n = Len(T) /\ n \in Nat /\ DOMAIN T = 1..n /\ T = [i \in 1..n |-> T[i]]
  BY SeqFacts
<1> DEFINE two == <<first, second>>
           one == <<Blank>>
<1>a. IsSeq(two) /\ Len(two) = 2 /\ two[1] = first /\ two[2] = second
  BY Double
<1>b. IsSeq(one) /\ Len(one) = 1 /\ one[1] = Blank
  BY Single
<1>c. part = two \o T \o one
  BY DEF PartOf
<1> HIDE DEF two, one
<1>2. PICK h : h = two \o T
  OBVIOUS
<1>3. /\ IsSeq(h) /\ Len(h) = n + 2 /\ h[1] = first /\ h[2] = second
      /\ \A j \in 1..n : h[j + 2] = T[j]
  <2>1. /\ IsSeq(two \o T) /\ Len(two \o T) = Len(two) + Len(T)
        /\ \A p \in 1..Len(two) : (two \o T)[p] = two[p]
        /\ \A j \in 1..Len(T) : (two \o T)[Len(two) + j] = T[j]
    <3>1. IsSeq(two)
      BY <1>a
    <3>2. IsSeq(T)
      OBVIOUS
    <3> QED
      BY <3>1, <3>2, Behind
  <2>2. Len(two) = 2 /\ 1 \in 1..Len(two) /\ 2 \in 1..Len(two)
    BY <1>a
  <2>3. \A j \in 1..n : h[j + 2] = T[j]
    <3> SUFFICES ASSUME NEW j \in 1..n PROVE h[j + 2] = T[j]
      OBVIOUS
    <3>1. Len(two) + j = j + 2 /\ j \in 1..Len(T)
      BY <1>1, <2>2
    <3> QED
      BY <1>2, <2>1, <3>1
  <2>4. Len(h) = n + 2
    BY <1>1, <1>2, <2>1, <2>2
  <2> QED
    BY <1>a, <1>2, <2>1, <2>2, <2>3, <2>4
<1>4. /\ IsSeq(part) /\ Len(part) = n + 3 /\ part[n + 3] = Blank
      /\ \A j \in 1..(n + 2) : part[j] = h[j]
  <2>1. /\ IsSeq(h \o one) /\ Len(h \o one) = Len(h) + Len(one)
        /\ \A p \in 1..Len(h) : (h \o one)[p] = h[p]
        /\ \A j \in 1..Len(one) : (h \o one)[Len(h) + j] = one[j]
    <3>1. IsSeq(h)
      BY <1>3
    <3>2. IsSeq(one)
      BY <1>b
    <3> QED
      BY <3>1, <3>2, Behind
  <2>2. part = h \o one
    BY <1>2, <1>c
  <2>3. Len(h) = n + 2 /\ Len(one) = 1 /\ 1 \in 1..Len(one)
    BY <1>3, <1>b
  <2>4. Len(h) + 1 = n + 3 /\ Len(part) = n + 3
    BY <1>1, <2>1, <2>2, <2>3
  <2>5. part[n + 3] = Blank
    BY <1>b, <2>1, <2>2, <2>3, <2>4
  <2> QED
    BY <2>1, <2>2, <2>3, <2>4, <2>5
<1>5. Plain(<<>>) /\ Blank.k = "text" /\ Plain(Blank.t) /\ IsBlank(Blank)
  <2>1. Plain(<<>>)
    BY EmptySeqs DEF Plain
  <2> QED
    BY <2>1, LineFields DEF IsBlank
<1>6. \A j \in 1..(n + 2) : ~IsBlank(part[j]) /\ Ordinary(part[j], first, second)
  <2> SUFFICES ASSUME NEW j \in 1..(n + 2) PROVE ~IsBlank(h[j]) /\ Ordinary(h[j], first, second)
    BY <1>4
  <2>1. CASE j = 1 \/ j = 2
    <3>1. h[j] = first \/ h[j] = second
      BY <1>3, <2>1
    <3> QED
      BY <3>1, LineFields DEF Ordinary
  <2>2. CASE j > 2
    <3>1. PICK i : i = j - 2 /\ i \in 1..n /\ j = i + 2
      BY <1>1, <2>2
    <3>2. h[j] = T[i]
      BY <1>3, <3>1
    <3> QED
      BY <1>1, <3>1, <3>2 DEF Ordinary
  <2> QED
    BY <1>1, <2>1, <2>2
<1>7. Ended(part) /\ \A j \in 1..Len(part) : Ordinary(part[j], first, second)
  <2>1. ASSUME NEW j \in 1..Len(part)
        PROVE  (IsBlank(part[j]) <=> j = Len(part)) /\ Ordinary(part[j], first, second)
    <3>1. CASE j = n + 3
      BY <1>4, <1>5, <3>1 DEF Ordinary
    <3>2. CASE j # n + 3
      <4>1. j \in 1..(n + 2)
        BY <1>1, <1>4, <3>2
      <4> QED
        BY <1>4, <1>6, <3>2, <4>1
    <3> QED
      BY <3>1, <3>2
  <2>2. Len(part) > 1
    BY <1>1, <1>4
  <2> QED
    BY <1>4, <2>1, <2>2 DEF Ended
<1>8. IsSeq(body) /\ Len(body) = n + 2 /\ \A j \in DOMAIN body : body[j] = part[j]
  <2>1. PICK a, b : a = 1 /\ b = n + 2 /\ body = SubSeq(part, a, b)
    <3>1. Len(part) - 1 = n + 2
      BY <1>1, <1>4
    <3> QED
      BY <3>1 DEF BodyOf
  <2>0. a = 1 /\ b = n + 2 /\ n \in Nat
    BY <1>1, <2>1
  <2>2. a \in 1..(Len(part) + 1) /\ b \in 0..Len(part)
    BY <1>1, <1>4, <2>1
  <2>3. /\ IsSeq(SubSeq(part, a, b)) /\ Len(SubSeq(part, a, b)) = (IF a <= b THEN b - a + 1 ELSE 0)
        /\ \A i \in DOMAIN SubSeq(part, a, b) : SubSeq(part, a, b)[i] = part[a + i - 1]
    BY <1>4, <2>2, SubSeqFacts
  <2>4. Len(body) = n + 2 /\ IsSeq(body)
    <3>1. IsSeq(body) /\ Len(body) = (IF a <= b THEN b - a + 1 ELSE 0)
      BY <2>1, <2>3
    <3>2. (IF a <= b THEN b - a + 1 ELSE 0) = n + 2
      BY <2>0
    <3> QED
      BY <3>1, <3>2
  <2>5. \A j \in DOMAIN body : body[j] = part[a + j - 1]
    BY <2>1, <2>3
  <2>6. DOMAIN body = 1..(n + 2)
    BY <2>4, SeqFacts
  <2>7. \A j \in 1..(n + 2) : a + j - 1 = j
    BY <2>0
  <2> QED
    BY <2>4, <2>5, <2>6, <2>7
<1>9. DOMAIN body = 1..(n + 2)
  BY <1>8, SeqFacts
<1>10. /\ \A j \in DOMAIN body : ~IsBlank(body[j]) /\ Ordinary(body[j], first, second)
       /\ body[1] = first /\ body[2] = second /\ part[1] = first /\ part[2] = second
  <2>1. 1 \in 1..(n + 2) /\ 2 \in 1..(n + 2)
    BY <1>1
  <2>2. part[1] = first /\ part[2] = second
    BY <1>3, <1>4, <2>1
  <2>3. body[1] = first /\ body[2] = second
    BY <1>8, <1>9, <2>1, <2>2
  <2>4. \A j \in DOMAIN body : ~IsBlank(body[j]) /\ Ordinary(body[j], first, second)
    BY <1>6, <1>8, <1>9
  <2> QED
    BY <2>2, <2>3, <2>4
<1>11. SubSeq(body, 3, Len(body)) = T
  <2>1. PICK a, b, x : a = 3 /\ b = n + 2 /\ x = SubSeq(body, a, b) /\ x = SubSeq(body, 3, Len(body))
    BY <1>1, <1>8
  <2>2. a \in 1..(Len(body) + 1) /\ b \in 0..Len(body)
    BY <1>1, <1>8, <2>1
  <2>3. /\ IsSeq(SubSeq(body, a, b)) /\ Len(SubSeq(body, a, b)) = (IF a <= b THEN b - a + 1 ELSE 0)
        /\ \A i \in DOMAIN SubSeq(body, a, b) : SubSeq(body, a, b)[i] = body[a + i - 1]
    <3>1. IsSeq(body)
      BY <1>8
    <3> QED
      BY <2>2, <3>1, SubSeqFacts
  <2>4. Len(x) = n /\ IsSeq(x)
    <3>1. IsSeq(x) /\ Len(x) = (IF a <= b THEN b - a + 1 ELSE 0)
      BY <2>1, <2>3
    <3>2. a = 3 /\ b = n + 2
      BY <2>1
    <3>3. (IF a <= b THEN b - a + 1 ELSE 0) = n
      BY <1>1, <3>2
    <3> QED
      BY <3>1, <3>3
  <2>5. DOMAIN x = 1..n /\ x = [i \in 1..n |-> x[i]]
    BY <2>4, SeqFacts
  <2>6. \A i \in 1..n : x[i] = body[a + i - 1]
    BY <2>1, <2>3, <2>5
  <2>7. \A i \in 1..n : body[a + i - 1] = T[i]
    <3> SUFFICES ASSUME NEW i \in 1..n PROVE body[a + i - 1] = T[i]
      OBVIOUS
    <3>1. a + i - 1 = i + 2 /\ i + 2 \in 1..(n + 2)
      BY <1>1, <2>1
    <3> QED
      BY <1>3, <1>4, <1>8, <1>9, <3>1
  <2>8. x = T
    BY <1>1, <2>5, <2>6, <2>7
  <2> QED
    BY <2>1, <2>8
<1> QED
  BY <1>1, <1>4, <1>7, <1>8, <1>10, <1>11

\* Cues that can be written: their texts are plain and have no empty line.
WritableCue(c, limit) ==
  /\ IsCue(c) /\ Plain(c.text) /\ c.start < limit /\ c.end < limit
  /\ \A j \in DOMAIN TextLines(c.text) : ~IsBlank(TextLines(c.text)[j])
Writable(e, limit) == IsSeq(e) /\ e # <<>> /\ \A i \in DOMAIN e : WritableCue(e[i], limit)

\* The same cues, with the same words and almost the same times.
Restored(e, f, grain) ==
  /\ Len(f) = Len(e)
  /\ \A i \in DOMAIN e : /\ Words(f[i].text) = Words(e[i].text)
                         /\ Close(f[i].start, e[i].start, grain)
                         /\ Close(f[i].end, e[i].end, grain)

\* A line that no detection takes for one of ASS, and that is not too long.
Calm(l) == l.k \notin {"script", "dialogue", "shortRow", "badTime"} /\ Plain(l.t)

LEMMA CalmLines ==
  ASSUME NEW L, \A p \in DOMAIN L : Calm(L[p])
  PROVE  ~DetectAss(L) /\ ~Oversized(L)
<1>1. ASSUME NEW p \in DOMAIN L PROVE ~Contains(L[p].t, "huge") /\ \A word \in AssWords : ~Contains(L[p].t, word)
  BY PlainFacts DEF Calm
<1> QED
  BY <1>1 DEF DetectAss, Oversized, Calm

LEMMA CalmParts ==
  ASSUME NEW u, NEW O, NEW L, Laid(u, O, L),
         \A k \in 1..Len(u) : \A j \in 1..Len(u[k]) : Calm(u[k][j])
  PROVE  \A p \in DOMAIN L : Calm(L[p])
<1> SUFFICES ASSUME NEW p \in DOMAIN L PROVE Calm(L[p])
  OBVIOUS
<1>1. p \in 1..Len(L)
  BY SeqFacts DEF Laid
<1>2. PICK k \in 1..Len(u) : \E j \in 1..Len(u[k]) : p = O[k - 1] + j
  BY <1>1, LaidPlaces
<1>3. \E j \in 1..Len(u[k]) : L[p] = u[k][j]
  BY <1>2 DEF Laid
<1> QED
  BY <1>3

\* A cue's block, and what is between its two ends.
IsBlockOf(part, a, b, t) ==
  /\ Ended(part) /\ part[1] = a /\ part[2] = b
  /\ \A j \in 1..Len(part) : Calm(part[j])
  /\ IsSeq(BodyOf(part)) /\ Len(BodyOf(part)) \in Nat /\ Len(BodyOf(part)) >= 3
  /\ BodyOf(part)[1] = a /\ BodyOf(part)[2] = b
  /\ \A j \in DOMAIN BodyOf(part) : ~IsBlank(BodyOf(part)[j]) /\ Calm(BodyOf(part)[j])
  /\ JoinLines(SubSeq(BodyOf(part), 3, Len(BodyOf(part)))) = t

LEMMA CueBlocks ==
  ASSUME NEW c, NEW limit, WritableCue(c, limit), NEW a, NEW b, Calm(a), Calm(b), a.k # "text", b.k # "text",
         NEW part, part = PartOf(a, b, TextLines(c.text))
  PROVE  IsBlockOf(part, a, b, c.text)
<1>1. PICK T : T = TextLines(c.text)
  OBVIOUS
<1>2. /\ IsSeq(T) /\ Len(T) \in Nat /\ Len(T) # 0
      /\ \A k \in DOMAIN T : T[k].k = "text" /\ Plain(T[k].t) /\ ~IsBlank(T[k])
  BY <1>1, PlainLines DEF WritableCue, IsDocument
<1>3. PICK body : body = BodyOf(part)
  OBVIOUS
<1>4. /\ Ended(part) /\ Len(part) = Len(T) + 3 /\ part[1] = a /\ part[2] = b
      /\ \A j \in 1..Len(part) : Ordinary(part[j], a, b)
      /\ IsSeq(body) /\ Len(body) = Len(T) + 2 /\ body[1] = a /\ body[2] = b
      /\ \A j \in DOMAIN body : ~IsBlank(body[j]) /\ Ordinary(body[j], a, b)
      /\ SubSeq(body, 3, Len(body)) = T
  <2>1. part = PartOf(a, b, T)
    BY <1>1
  <2>2. IsSeq(T)
    BY <1>2
  <2> QED
    BY <1>2, <1>3, <2>1, <2>2, CuePart
<1>5. \A l : Ordinary(l, a, b) => Calm(l)
  BY DEF Ordinary, Calm
<1>6. JoinLines(T) = c.text
  BY <1>1, JoinedLines DEF WritableCue, IsCue
<1>7. Len(body) \in Nat /\ Len(body) >= 3
  BY <1>2, <1>4
<1>8. JoinLines(SubSeq(body, 3, Len(body))) = c.text
  BY <1>4, <1>6
<1> QED
  BY <1>3, <1>4, <1>5, <1>7, <1>8 DEF IsBlockOf

LEMMA SrtEntryRead ==
  ASSUME NEW body, NEW i, NEW c, WritableCue(c, Hours100), Len(body) >= 3,
         body[1] = Line("index", i, 0, <<>>),
         body[2] = Line("srtTime", FormatDuration(c.start), FormatDuration(c.end), <<>>),
         JoinLines(SubSeq(body, 3, Len(body))) = c.text
  PROVE  SrtEntry(body) = <<Entry(i, c.start, c.end, c.text)>>
<1>1. PICK a, b : a = FormatDuration(c.start) /\ b = FormatDuration(c.end)
  OBVIOUS
<1>2. c.start \in Nat /\ c.start < Hours100 /\ c.end \in Nat /\ c.end < Hours100
  BY DEF WritableCue, IsCue
<1>3. /\ a \in Nat /\ a % TwoDigitHours = a /\ ParseTime(a) = c.start
      /\ b \in 0..(TwoDigitHours - 1) /\ ParseTime(b) = c.end
  BY <1>1, <1>2, ClockTimes, Zenon
<1>4. /\ body[1].k = "index" /\ body[1].a = i /\ body[2].k = "srtTime"
      /\ body[2].a = a /\ body[2].b = b
  <2>1. body[2] = Line("srtTime", a, b, <<>>)
    BY <1>1
  <2>2. /\ Line("srtTime", a, b, <<>>).k = "srtTime" /\ Line("srtTime", a, b, <<>>).a = a
        /\ Line("srtTime", a, b, <<>>).b = b
    BY LineFields
  <2>3. Line("index", i, 0, <<>>).k = "index" /\ Line("index", i, 0, <<>>).a = i
    BY LineFields
  <2> QED
    BY <2>1, <2>2, <2>3
<1>5. SrtEntry(body) = <<Entry(i, ParseTime(a % TwoDigitHours), ParseTime(b), c.text)>>
  BY <1>3, <1>4, Zenon DEF SrtEntry
<1> QED
  BY <1>3, <1>5, Zenon

\* What an unlabelled sequence of blocks, each with one cue, is read as.
LEMMA SameTimes ==
  ASSUME NEW e, Writable(e, Hours100), NEW g, DOMAIN g = DOMAIN e, Len(g) = Len(e),
         \A i \in DOMAIN e : /\ g[i].start = e[i].start /\ g[i].end = e[i].end
                             /\ g[i].text = e[i].text
  PROVE  Restored(e, g, 1)
<1>1. \A i \in DOMAIN e : e[i].start \in Nat /\ e[i].end \in Nat
  BY DEF Writable, WritableCue, IsCue
<1>2. \A t \in Nat : Close(t, t, 1)
  BY SMT DEF Close
<1> QED
  BY <1>1, <1>2 DEF Restored

LEMMA CueOfEntry == \A i, a, b, t : /\ Entry(i, a, b, t).start = a /\ Entry(i, a, b, t).end = b
                                    /\ Entry(i, a, b, t).text = t /\ Entry(i, a, b, t).index = i
BY DEF Entry

LEMMA CalmLine ==
  ASSUME NEW k, k \notin {"script", "dialogue", "shortRow", "badTime"}, NEW a, NEW b
  PROVE  Calm(Line(k, a, b, <<>>)) /\ Line(k, a, b, <<>>).k = k
<1>1. Plain(<<>>)
  BY EmptySeqs DEF Plain
<1> QED
  BY <1>1, LineFields DEF Calm

LEMMA LaidFirst ==
  ASSUME NEW u, NEW O, NEW L, Laid(u, O, L), Len(u) # 0, \A k \in 1..Len(u) : Len(u[k]) # 0
  PROVE  \A j \in 1..Len(u[1]) : j \in DOMAIN L /\ L[j] = u[1][j]
<1>1. PICK n : n = Len(u) /\ n \in Nat /\ n # 0
  BY SeqFacts DEF Laid
<1>2. /\ O \in [0..n -> Nat] /\ O[0] = 0 /\ Len(L) = O[n]
      /\ \A k \in 1..n : O[k] = O[k - 1] + Len(u[k])
      /\ \A k \in 1..n : Len(u[k]) \in Nat /\ Len(u[k]) # 0
  BY <1>1, SeqFacts DEF Laid
<1>3. \A k \in 1..n : O[k - 1] < O[k]
  <2> SUFFICES ASSUME NEW k \in 1..n PROVE O[k - 1] < O[k]
    OBVIOUS
  <2>1. O[k] = O[k - 1] + Len(u[k]) /\ O[k - 1] \in Nat /\ Len(u[k]) \in Nat /\ Len(u[k]) # 0
    BY <1>1, <1>2
  <2> QED
    BY <2>1
<1>4. \A i, j \in 0..n : i < j => O[i] < O[j]
  BY <1>1, <1>2, <1>3, Rising
<1>5. PICK l : l = Len(u[1]) /\ l \in Nat /\ O[1] = l /\ l <= Len(L) /\ Len(L) \in Nat
  <2>1. 1 \in 1..n /\ 1 - 1 = 0 /\ 1 \in 0..n /\ n \in 0..n
    BY <1>1
  <2>2. O[1] = O[0] + Len(u[1]) /\ Len(u[1]) \in Nat /\ O[0] = 0
    BY <1>2, <2>1
  <2>3. O[1] <= O[n] /\ O[n] \in Nat /\ O[1] \in Nat
    <3>1. CASE n = 1
      BY <1>2, <2>1, <3>1
    <3>2. CASE n # 1
      <4>1. 1 < n
        BY <1>1, <3>2
      <4> QED
        BY <1>2, <1>4, <2>1, <4>1
    <3> QED
      BY <3>1, <3>2
  <2> QED
    BY <1>2, <2>2, <2>3
<1>6. \A j \in 1..Len(u[1]) : L[O[1 - 1] + j] = u[1][j]
  <2>1. 1 \in 1..Len(u)
    BY <1>1
  <2> QED
    BY <2>1 DEF Laid
<1>7. DOMAIN L = 1..Len(L)
  BY SeqFacts DEF Laid
<1> SUFFICES ASSUME NEW j \in 1..Len(u[1]) PROVE j \in DOMAIN L /\ L[j] = u[1][j]
  OBVIOUS
<1>8. O[1 - 1] + j = j /\ j \in 1..Len(L)
  BY <1>2, <1>5
<1> QED
  BY <1>6, <1>7, <1>8

LEMMA SrtRestored ==
  ASSUME NEW e, Writable(e, Hours100)
  PROVE  LET back == ParseAuto([bom |-> FALSE, lines |-> SerializeSrt(e)])
         IN  back.ok /\ back.format = "srt" /\ Restored(e, back.entries, 1)
<1>1. PICK n : n = Len(e) /\ n \in Nat /\ n # 0 /\ DOMAIN e = 1..n
  BY SeqFacts DEF Writable, IsSeq
<1> DEFINE a == [i \in 1..n |-> Line("index", i, 0, <<>>)]
           b == [i \in 1..n |-> Line("srtTime", FormatDuration(e[i].start), FormatDuration(e[i].end), <<>>)]
           u == [i \in 1..n |-> PartOf(a[i], b[i], TextLines(e[i].text))]
<1>2. SerializeSrt(e) = FlattenSeq(u)
  BY <1>1 DEF SerializeSrt, PartOf
<1>3. \A i \in 1..n : /\ a[i] = Line("index", i, 0, <<>>)
                      /\ b[i] = Line("srtTime", FormatDuration(e[i].start), FormatDuration(e[i].end), <<>>)
                      /\ u[i] = PartOf(a[i], b[i], TextLines(e[i].text))
  OBVIOUS
<1>4. IsSeq(u) /\ Len(u) = n /\ DOMAIN u = 1..n
  <2>1. DOMAIN u = 1..n /\ u = [i \in 1..n |-> u[i]]
    OBVIOUS
  <2> HIDE DEF u
  <2> QED
    BY <1>1, <2>1, SeqByIndex
<1> HIDE DEF a, b, u
<1>5. \A i \in 1..n : IsBlockOf(u[i], a[i], b[i], e[i].text)
  <2> SUFFICES ASSUME NEW i \in 1..n PROVE IsBlockOf(u[i], a[i], b[i], e[i].text)
    OBVIOUS
  <2>1. WritableCue(e[i], Hours100)
    BY <1>1 DEF Writable
  <2>2. Calm(a[i]) /\ Calm(b[i]) /\ a[i].k # "text" /\ b[i].k # "text"
    BY <1>3, CalmLine
  <2> QED
    BY <1>3, <2>1, <2>2, CueBlocks
<1>6. PICK L : L = FlattenSeq(u)
  OBVIOUS
<1>7. PICK O : Laid(u, O, L)
  <2>1. \A i \in DOMAIN u : IsSeq(u[i])
    BY <1>4, <1>5 DEF IsBlockOf, Ended
  <2> QED
    BY <1>4, <1>6, <2>1, FlattenLaid
<1>8. /\ IsSeq(Blocks(L)) /\ DOMAIN Blocks(L) = 1..(n + 1) /\ Len(Blocks(L)) = n + 1
      /\ \A k \in 1..n : Blocks(L)[k] = BodyOf(u[k])
      /\ Blocks(L)[n + 1] = <<>>
  <2>1. \A k \in 1..Len(u) : Ended(u[k])
    BY <1>4, <1>5 DEF IsBlockOf
  <2> QED
    BY <1>4, <1>7, <2>1, BlocksLaid DEF BodyOf
<1>9. \A p \in DOMAIN L : Calm(L[p])
  BY <1>4, <1>5, <1>7, CalmParts DEF IsBlockOf
<1>10. ~DetectAss(L) /\ ~Oversized(L)
  BY <1>9, CalmLines
<1>11. AreCues(e) /\ IsDocument(L)
  <2>1. AreCues(e)
    BY DEF Writable, WritableCue, AreCues
  <2> QED
    BY <1>2, <1>6, <2>1, SrtWritten
<1>12. L[1] = a[1] /\ L[2] = b[1] /\ 1 \in DOMAIN L /\ 2 \in DOMAIN L /\ L # <<>>
  <2>1. 1 \in 1..n
    BY <1>1
  <2>2. /\ u[1][1] = a[1] /\ u[1][2] = b[1] /\ 1 \in 1..Len(u[1]) /\ 2 \in 1..Len(u[1])
    <3>1. IsSeq(u[1]) /\ Len(u[1]) > 1 /\ u[1][1] = a[1] /\ u[1][2] = b[1]
      BY <1>5, <2>1 DEF IsBlockOf, Ended
    <3> QED
      BY <3>1, SeqFacts
  <2>3. \A k \in 1..Len(u) : Len(u[k]) # 0
    BY <1>4, <1>5 DEF IsBlockOf, Ended
  <2>4. \A j \in 1..Len(u[1]) : j \in DOMAIN L /\ L[j] = u[1][j]
    BY <1>1, <1>4, <1>7, <2>3, LaidFirst
  <2> QED
    BY <2>2, <2>4, EmptySeqs
<1>13. ~DetectVtt(L)
  <2>1. ~IsBlank(L[1]) /\ L[1].k = "index"
    <3>1. 1 \in 1..n
      BY <1>1
    <3> QED
      BY <1>3, <1>12, <3>1, LineFields
  <2>2. Trim(L)[1] = L[1]
    BY <1>11, <1>12, <2>1, TrimFirst
  <2> QED
    BY <2>1, <2>2 DEF DetectVtt
<1>14. DetectSrt(L)
  <2>1. 1 \in 1..n
    BY <1>1
  <2>2. e[1].end \in Nat /\ e[1].end < Hours100
    BY <1>1, <2>1 DEF Writable, WritableCue, IsCue
  <2>3. L[2].k = "srtTime" /\ L[2].b = FormatDuration(e[1].end)
    BY <1>3, <1>12, <2>1, LineFields
  <2>4. FormatDuration(e[1].end) \in 0..(TwoDigitHours - 1)
    BY <2>2, ClockTimes, Zenon
  <2> QED
    BY <1>12, <2>3, <2>4, Zenon DEF DetectSrt
<1>24. PICK doc : doc = [bom |-> FALSE, lines |-> L]
  OBVIOUS
<1>15. doc = [bom |-> FALSE, lines |-> L] /\ doc.lines = L
  BY <1>24
<1>16. ParseAuto(doc) = ParseSrt(L)
  <2>1. Registered[1] = "ass" /\ Registered[2] = "vtt" /\ Registered[3] = "srt" /\ 3 \in 1..4
    BY DEF Registered
  <2>2. ~Detects("ass", doc) /\ ~Detects("vtt", doc) /\ Detects("srt", doc)
    BY <1>10, <1>13, <1>14, <1>15, Zenon DEF Detects
  <2>3. \A j \in 1..4 : j < 3 => j = 1 \/ j = 2
    OBVIOUS
  <2>4. ParseAuto(doc) = Parse(Registered[3], doc.lines)
    BY <2>1, <2>2, <2>3, FirstHit
  <2> QED
    BY <1>15, <2>1, <2>4, Zenon DEF Parse
<1>17. PICK g : g = [i \in 1..n |-> Entry(i, e[i].start, e[i].end, e[i].text)]
  OBVIOUS
<1>18. IsSeq(g) /\ Len(g) = n /\ DOMAIN g = 1..n
  BY <1>1, <1>17, SeqByIndex
<1>19. PICK v : v = [k \in DOMAIN Blocks(L) |-> SrtEntry(Blocks(L)[k])]
  OBVIOUS
<1>20. ParseSrt(L) = Subtitle("srt", FlattenSeq(v))
  BY <1>10, <1>12, <1>19 DEF ParseSrt
<1>21. FlattenSeq(v) = g
  <2>1. IsSeq(v) /\ Len(v) = n + 1 /\ DOMAIN v = 1..(n + 1)
    <3>1. DOMAIN v = 1..(n + 1) /\ v = [k \in 1..(n + 1) |-> v[k]] /\ n + 1 \in Nat
      BY <1>1, <1>8, <1>19
    <3> QED
      BY <3>1, SeqByIndex
  <2>2. ASSUME NEW k \in 1..n PROVE v[k] = <<g[k]>>
    <3>1. IsBlockOf(u[k], a[k], b[k], e[k].text) /\ WritableCue(e[k], Hours100)
      BY <1>1, <1>5 DEF Writable
    <3>2. SrtEntry(BodyOf(u[k])) = <<Entry(k, e[k].start, e[k].end, e[k].text)>>
      BY <1>3, <3>1, SrtEntryRead DEF IsBlockOf
    <3>3. v[k] = SrtEntry(BodyOf(u[k]))
      BY <1>1, <1>8, <1>19
    <3> QED
      BY <1>17, <3>2, <3>3
  <2>3. v[n + 1] = <<>>
    <3>1. v[n + 1] = SrtEntry(<<>>)
      BY <1>1, <1>8, <1>19
    <3> QED
      BY <3>1, EmptySeqs DEF SrtEntry
  <2>4. ASSUME NEW k \in 1..Len(v)
        PROVE  v[k] = IF 0 < k /\ k <= 0 + Len(g) THEN <<g[k - 0]>> ELSE <<>>
    <3>1. CASE k = n + 1
      BY <1>1, <1>18, <2>3, <3>1
    <3>2. CASE k # n + 1
      <4>1. k \in 1..n /\ 0 < k /\ k <= 0 + n /\ k - 0 = k
        BY <1>1, <2>1, <3>2
      <4> QED
        BY <1>18, <2>2, <4>1
    <3> QED
      BY <3>1, <3>2
  <2>5. 0 + Len(g) <= Len(v) /\ 0 \in Nat
    BY <1>1, <1>18, <2>1
  <2>6. IsSeq(v) /\ IsSeq(g)
    BY <1>18, <2>1
  <2> QED
    BY <2>4, <2>5, <2>6, FlattenOnes
<1>22. Restored(e, g, 1)
  <2>1. \A i \in 1..n : g[i].start = e[i].start /\ g[i].end = e[i].end /\ g[i].text = e[i].text
    BY <1>17, CueOfEntry
  <2> QED
    BY <1>1, <1>18, <2>1, SameTimes
<1>23. ParseAuto([bom |-> FALSE, lines |-> SerializeSrt(e)]) = Subtitle("srt", g)
  BY <1>2, <1>6, <1>15, <1>16, <1>20, <1>21
<1> QED
  BY <1>22, <1>23, Errors

LEMMA SmallNotOversized ==
  ASSUME NEW lines, SmallLines(lines)
  PROVE  ~Oversized(lines)
<1> SUFFICES ASSUME NEW i \in DOMAIN lines PROVE ~Contains(lines[i].t, "huge")
  BY DEF Oversized
<1>1. PICK t : t = lines[i].t
  OBVIOUS
<1>2. Small(t)
  BY <1>1 DEF SmallLines
<1>3. DOMAIN t = 1..Len(t)
  BY <1>2, SeqFacts DEF Small
<1> QED
  BY <1>1, <1>2, <1>3 DEF Contains, Small

LEMMA BeyondTwo == 2 + 1 = 3 /\ \A l \in Nat : l >= 3 => 2 <= l /\ 2 # l
  OBVIOUS

LEMMA VttEntryRead ==
  ASSUME NEW body, IsDocument(body), \A j \in DOMAIN body : ~IsBlank(body[j]),
         NEW i, NEW c, WritableCue(c, Hours100), Len(body) >= 3, Len(body) \in Nat,
         body[1] = Line("index", i, 0, <<>>),
         body[2] = Line("vttTime", FormatVttTime(c.start), FormatVttTime(c.end), <<>>),
         JoinLines(SubSeq(body, 3, Len(body))) = c.text
  PROVE  VttEntry(body) = <<Entry(0, c.start, c.end, c.text)>>
<1>1. PICK a, b : a = FormatVttTime(c.start) /\ b = FormatVttTime(c.end)
  OBVIOUS
<1>2. c.start \in Nat /\ c.start < Hours100 /\ c.end \in Nat /\ c.end < Hours100
  BY DEF WritableCue, IsCue
<1>3. /\ a \in 0..(TwoDigitHours - 1) /\ ParseVttTime(a) = c.start
      /\ b \in 0..(TwoDigitHours - 1) /\ ParseVttTime(b) = c.end
  BY <1>1, <1>2, ClockTimes, Zenon DEF FormatVttTime, ParseVttTime
<1>4. /\ body[1].k = "index" /\ body[2].k = "vttTime" /\ body[2].a = a /\ body[2].b = b
  <2>1. body[2] = Line("vttTime", a, b, <<>>)
    BY <1>1
  <2>2. /\ Line("vttTime", a, b, <<>>).k = "vttTime" /\ Line("vttTime", a, b, <<>>).a = a
        /\ Line("vttTime", a, b, <<>>).b = b
    BY LineFields
  <2>3. Line("index", i, 0, <<>>).k = "index"
    BY LineFields
  <2> QED
    BY <2>1, <2>2, <2>3
<1>5. body # <<>> /\ 1 \in DOMAIN body /\ DOMAIN body = 1..Len(body)
  BY SeqFacts, EmptySeqs DEF IsDocument
<1>6. Trim(body) = body
  <2>1. ~IsBlank(body[1])
    BY <1>5
  <2> QED
    BY <1>5, <2>1, TrimFirst
<1>7. ~NoCue(body) /\ ~IsVttTime(body[1])
  BY <1>4, <1>5 DEF NoCue, IsVttTime
<1>8. IsVttTime(body[2])
  BY <1>3, <1>4, Zenon DEF IsVttTime
<1>9. VttEntry(body) = LET m == 2
                       IN  IF m <= Len(body) /\ IsVttTime(body[m])
                           THEN <<Entry(0, ParseVttTime(body[m].a), ParseVttTime(body[m].b),
                                        IF m = Len(body) THEN <<>>
                                        ELSE JoinLines(SubSeq(body, m + 1, Len(body))))>>
                           ELSE <<>>
  BY <1>6, <1>7, Zenon DEF VttEntry
<1>10. 2 <= Len(body) /\ 2 # Len(body) /\ 2 + 1 = 3
  BY BeyondTwo, Zenon
<1>11. VttEntry(body) = <<Entry(0, ParseVttTime(body[2].a), ParseVttTime(body[2].b),
                                JoinLines(SubSeq(body, 3, Len(body))))>>
  BY <1>8, <1>9, <1>10, Zenon
<1> QED
  BY <1>3, <1>4, <1>11, Zenon

\* A block that holds the signature, and an empty one, have no cue.
LEMMA NoEntry ==
  /\ VttEntry(<<>>) = <<>>
  /\ \A x : IsDocument(x) /\ x # <<>> /\ x[1].k = "WEBVTT" => VttEntry(x) = <<>>
<1>1. VttEntry(<<>>) = <<>>
  <2>1. Trim(<<>>) = <<>>
    BY EmptySeqs DEF Trim
  <2> QED
    BY <2>1, Zenon DEF VttEntry, NoCue
<1>2. ASSUME NEW x, IsDocument(x), x # <<>>, x[1].k = "WEBVTT" PROVE VttEntry(x) = <<>>
  <2>1. ~IsBlank(x[1])
    BY <1>2, LineFields
  <2>2. Trim(x)[1] = x[1]
    BY <1>2, <2>1, TrimFirst
  <2>3. NoCue(Trim(x))
    BY <1>2, <2>2 DEF NoCue
  <2> QED
    BY <2>3, Zenon DEF VttEntry
<1> QED
  BY <1>1, <1>2

LEMMA BodyOfTwo ==
  ASSUME NEW h, IsSeq(h), Len(h) = 2
  PROVE  IsSeq(BodyOf(h)) /\ BodyOf(h) # <<>> /\ BodyOf(h)[1] = h[1]
<1>1. PICK m : m = 1 /\ m \in Nat /\ m \in 1..(Len(h) + 1) /\ m \in 0..Len(h) /\ m = Len(h) - 1
  OBVIOUS
<1>3. /\ IsSeq(SubSeq(h, m, m)) /\ Len(SubSeq(h, m, m)) = (IF m <= m THEN m - m + 1 ELSE 0)
      /\ \A i \in DOMAIN SubSeq(h, m, m) : SubSeq(h, m, m)[i] = h[m + i - 1]
  BY <1>1, SubSeqFacts
<1>4. Len(SubSeq(h, m, m)) = 1
  BY <1>1, <1>3
<1>5. 1 \in DOMAIN SubSeq(h, m, m)
  <2>1. IsSeq(SubSeq(h, m, m))
    BY <1>3
  <2>2. DOMAIN SubSeq(h, m, m) = 1..Len(SubSeq(h, m, m))
    BY <2>1, SeqFacts
  <2> QED
    BY <1>4, <2>2
<1>6. SubSeq(h, m, m)[1] = h[1]
  <2>1. SubSeq(h, m, m)[1] = h[m + 1 - 1] /\ m + 1 - 1 = 1
    BY <1>1, <1>3, <1>5
  <2> QED
    BY <2>1
<1>7. BodyOf(h) = SubSeq(h, m, m)
  BY <1>1 DEF BodyOf
<1> QED
  BY <1>3, <1>5, <1>6, <1>7, EmptySeqs

\* The signature and the blank line behind it are a block too.
LEMMA Signature ==
  ASSUME NEW h, h = <<Mark("WEBVTT"), Blank>>
  PROVE  /\ IsSeq(h) /\ Len(h) = 2 /\ Ended(h) /\ h[1] = Mark("WEBVTT")
         /\ \A j \in 1..Len(h) : Calm(h[j])
         /\ IsSeq(BodyOf(h)) /\ BodyOf(h) # <<>> /\ BodyOf(h)[1].k = "WEBVTT"
<1>1. IsSeq(h) /\ Len(h) = 2 /\ h[1] = Mark("WEBVTT") /\ h[2] = Blank
  BY Double
<1>2. IsBlank(Blank) /\ ~IsBlank(Mark("WEBVTT")) /\ Mark("WEBVTT").k = "WEBVTT"
  BY LineFields DEF IsBlank
<1>3. Calm(Mark("WEBVTT")) /\ Calm(Blank)
  <2>1. Plain(<<>>)
    BY EmptySeqs DEF Plain
  <2> QED
    BY <2>1, LineFields DEF Calm
<1>4. \A j \in 1..Len(h) : j = 1 \/ j = 2
  BY <1>1
<1>5. \A j \in 1..Len(h) : IsBlank(h[j]) <=> j = Len(h)
  BY <1>1, <1>2, <1>4
<1>6. Ended(h)
  BY <1>1, <1>5 DEF Ended
<1>7. IsSeq(BodyOf(h)) /\ BodyOf(h) # <<>> /\ BodyOf(h)[1] = h[1]
  BY <1>1, BodyOfTwo
<1> QED
  BY <1>1, <1>2, <1>3, <1>4, <1>6, <1>7

LEMMA IndexedSame ==
  ASSUME NEW e, Writable(e, Hours100), NEW g, IsSeq(g), DOMAIN g = DOMAIN e, Len(g) = Len(e),
         \A i \in DOMAIN e : g[i] = Entry(0, e[i].start, e[i].end, e[i].text)
  PROVE  Restored(e, Indexed(g), 1)
<1> DEFINE x == Indexed(g)
<1>1. x = [i \in DOMAIN g |-> [g[i] EXCEPT !.index = i]]
  BY DEF Indexed
<1>2. \A i \in DOMAIN e : /\ x[i].start = e[i].start /\ x[i].end = e[i].end
                          /\ x[i].text = e[i].text
  <2> SUFFICES ASSUME NEW i \in DOMAIN e
               PROVE  x[i].start = e[i].start /\ x[i].end = e[i].end /\ x[i].text = e[i].text
    OBVIOUS
  <2>1. g[i] = [index |-> 0, start |-> e[i].start, end |-> e[i].end, text |-> e[i].text]
    BY DEF Entry
  <2>2. x[i] = [g[i] EXCEPT !.index = i]
    BY <1>1
  <2> HIDE DEF x
  <2>3. x[i] = [index |-> i, start |-> e[i].start, end |-> e[i].end, text |-> e[i].text]
    BY <2>1, <2>2
  <2> QED
    BY <2>3
<1>3. DOMAIN x = DOMAIN g /\ x = [i \in DOMAIN g |-> x[i]]
  BY <1>1
<1>5. x = Indexed(g) /\ DOMAIN x = DOMAIN e
  BY <1>3
<1> HIDE DEF x
<1>4. Len(x) = Len(e)
  BY <1>3, SameLength
<1> QED
  BY <1>2, <1>4, <1>5, SameTimes

LEMMA VttRestored ==
  ASSUME NEW e, Writable(e, Hours100)
  PROVE  LET back == ParseAuto([bom |-> FALSE, lines |-> SerializeVtt(e)])
         IN  back.ok /\ back.format = "vtt" /\ Restored(e, back.entries, 1)
<1>1. PICK n : n = Len(e) /\ n \in Nat /\ n # 0 /\ DOMAIN e = 1..n
  BY SeqFacts DEF Writable, IsSeq
<1> DEFINE a == [i \in 1..n |-> Line("index", e[i].index, 0, <<>>)]
           b == [i \in 1..n |-> Line("vttTime", FormatVttTime(e[i].start), FormatVttTime(e[i].end), <<>>)]
           u == [i \in 1..n |-> PartOf(a[i], b[i], TextLines(e[i].text))]
           h == <<Mark("WEBVTT"), Blank>>
<1>2. SerializeVtt(e) = h \o FlattenSeq(u)
  BY <1>1 DEF SerializeVtt, PartOf
<1>3. \A i \in 1..n : /\ a[i] = Line("index", e[i].index, 0, <<>>)
                      /\ b[i] = Line("vttTime", FormatVttTime(e[i].start), FormatVttTime(e[i].end), <<>>)
                      /\ u[i] = PartOf(a[i], b[i], TextLines(e[i].text))
  OBVIOUS
<1>4. IsSeq(u) /\ Len(u) = n /\ DOMAIN u = 1..n
  <2>1. DOMAIN u = 1..n /\ u = [i \in 1..n |-> u[i]]
    OBVIOUS
  <2> HIDE DEF u
  <2> QED
    BY <1>1, <2>1, SeqByIndex
<1>h. /\ IsSeq(h) /\ Len(h) = 2 /\ Ended(h) /\ h[1] = Mark("WEBVTT")
      /\ \A j \in 1..Len(h) : Calm(h[j])
      /\ IsSeq(BodyOf(h)) /\ BodyOf(h) # <<>> /\ BodyOf(h)[1].k = "WEBVTT"
  BY Signature
<1> HIDE DEF a, b, u, h
<1>5. \A i \in 1..n : IsBlockOf(u[i], a[i], b[i], e[i].text)
  <2> SUFFICES ASSUME NEW i \in 1..n PROVE IsBlockOf(u[i], a[i], b[i], e[i].text)
    OBVIOUS
  <2>1. WritableCue(e[i], Hours100)
    BY <1>1 DEF Writable
  <2>2. Calm(a[i]) /\ Calm(b[i]) /\ a[i].k # "text" /\ b[i].k # "text"
    BY <1>3, CalmLine
  <2> QED
    BY <1>3, <2>1, <2>2, CueBlocks
<1> DEFINE w == <<h>> \o u
<1>w. /\ IsSeq(w) /\ Len(w) = n + 1 /\ w[1] = h
      /\ \A k \in 1..n : w[k + 1] = u[k]
  <2>1. PICK s : s = <<h>>
    OBVIOUS
  <2>2. IsSeq(s) /\ Len(s) = 1 /\ s[1] = h
    BY <2>1, Single
  <2>3. IsSeq(s) /\ IsSeq(u)
    BY <1>4, <2>2
  <2>4. /\ IsSeq(s \o u) /\ Len(s \o u) = Len(s) + Len(u)
        /\ \A p \in 1..Len(s) : (s \o u)[p] = s[p]
        /\ \A j \in 1..Len(u) : (s \o u)[Len(s) + j] = u[j]
    BY <2>3, Behind
  <2>5. Len(s \o u) = n + 1 /\ (s \o u)[1] = h
    BY <1>1, <1>4, <2>2, <2>4
  <2>6. ASSUME NEW k \in 1..n PROVE (s \o u)[k + 1] = u[k]
    <3>1. Len(s) + k = k + 1 /\ k \in 1..Len(u)
      BY <1>4, <2>2
    <3> QED
      BY <2>4, <3>1
  <2>7. w = s \o u
    BY <2>1
  <2> HIDE DEF w
  <2> QED
    BY <2>4, <2>5, <2>6, <2>7
<1>6. PICK L : L = h \o FlattenSeq(u)
  OBVIOUS
<1>7. PICK O : Laid(w, O, L)
  <2>1. \A i \in DOMAIN u : IsSeq(u[i])
    BY <1>4, <1>5 DEF IsBlockOf, Ended
  <2>2. PICK P : Laid(u, P, FlattenSeq(u))
    BY <1>4, <2>1, FlattenLaid
  <2> QED
    BY <1>h, <1>6, <2>2, LaidBehind
<1> HIDE DEF w
<1>x. \A k \in 1..Len(w) : k = 1 \/ (\E i \in 1..n : k = i + 1 /\ w[k] = u[i])
  <2> SUFFICES ASSUME NEW k \in 1..Len(w), k # 1 PROVE \E i \in 1..n : k = i + 1 /\ w[k] = u[i]
    OBVIOUS
  <2>1. k - 1 \in 1..n /\ k = (k - 1) + 1
    BY <1>1, <1>w
  <2> QED
    BY <1>w, <2>1
<1>8. /\ IsSeq(Blocks(L)) /\ DOMAIN Blocks(L) = 1..(n + 2) /\ Len(Blocks(L)) = n + 2
      /\ Blocks(L)[1] = BodyOf(h)
      /\ \A k \in 1..n : Blocks(L)[k + 1] = BodyOf(u[k])
      /\ Blocks(L)[n + 2] = <<>>
  <2>1. \A k \in 1..Len(w) : Ended(w[k])
    BY <1>5, <1>h, <1>w, <1>x DEF IsBlockOf
  <2>2. /\ IsSeq(Blocks(L)) /\ DOMAIN Blocks(L) = 1..(Len(w) + 1) /\ Len(Blocks(L)) = Len(w) + 1
        /\ \A k \in 1..Len(w) : Blocks(L)[k] = BodyOf(w[k])
        /\ Blocks(L)[Len(w) + 1] = <<>>
    BY <1>7, <2>1, BlocksLaid DEF BodyOf
  <2>3. Len(w) + 1 = n + 2 /\ 1 \in 1..Len(w)
    BY <1>1, <1>w
  <2>4. \A k \in 1..n : k + 1 \in 1..Len(w)
    BY <1>1, <1>w
  <2> QED
    BY <1>w, <2>2, <2>3, <2>4
<1>9. \A p \in DOMAIN L : Calm(L[p])
  <2>1. \A k \in 1..Len(w) : \A j \in 1..Len(w[k]) : Calm(w[k][j])
    BY <1>5, <1>h, <1>w, <1>x DEF IsBlockOf
  <2> QED
    BY <1>7, <2>1, CalmParts
<1>10. ~DetectAss(L) /\ ~Oversized(L)
  BY <1>9, CalmLines
<1>11. AreCues(e) /\ IsDocument(L)
  <2>1. AreCues(e)
    BY DEF Writable, WritableCue, AreCues
  <2> QED
    BY <1>2, <1>6, <2>1, VttWritten
<1>12. L[1] = Mark("WEBVTT") /\ L # <<>>
  <2>1. Len(w) # 0
    BY <1>1, <1>w
  <2>2. \A k \in 1..Len(w) : Len(w[k]) # 0
    <3>1. \A i \in 1..n : Len(u[i]) # 0
      BY <1>5 DEF IsBlockOf, Ended
    <3>2. Len(w[1]) # 0
      BY <1>h, <1>w
    <3> QED
      BY <1>x, <3>1, <3>2
  <2>3. \A j \in 1..Len(w[1]) : j \in DOMAIN L /\ L[j] = w[1][j]
    BY <1>7, <2>1, <2>2, LaidFirst
  <2>4. 1 \in 1..Len(w[1])
    BY <1>h, <1>w
  <2> QED
    BY <1>h, <1>w, <2>3, <2>4, EmptySeqs
<1>13. DetectVtt(L)
  <2>1. ~IsBlank(L[1]) /\ L[1].k = "WEBVTT"
    BY <1>12, LineFields
  <2>2. Trim(L)[1] = L[1] /\ Trim(L) # <<>>
    BY <1>11, <1>12, <2>1, TrimFirst
  <2> QED
    BY <2>1, <2>2 DEF DetectVtt
<1>24. PICK doc : doc = [bom |-> FALSE, lines |-> L]
  OBVIOUS
<1>15. doc = [bom |-> FALSE, lines |-> L] /\ doc.lines = L
  BY <1>24
<1>16. ParseAuto(doc) = ParseVtt(L)
  <2>1. Registered[1] = "ass" /\ Registered[2] = "vtt" /\ 2 \in 1..4
    BY DEF Registered
  <2>2. ~Detects("ass", doc) /\ Detects("vtt", doc)
    BY <1>10, <1>13, <1>15, Zenon DEF Detects
  <2>3. \A j \in 1..4 : j < 2 => j = 1
    OBVIOUS
  <2>4. ParseAuto(doc) = Parse(Registered[2], doc.lines)
    BY <2>1, <2>2, <2>3, FirstHit
  <2> QED
    BY <1>15, <2>1, <2>4, Zenon DEF Parse
<1>17. PICK g : g = [i \in 1..n |-> Entry(0, e[i].start, e[i].end, e[i].text)]
  OBVIOUS
<1>18. IsSeq(g) /\ Len(g) = n /\ DOMAIN g = 1..n
  BY <1>1, <1>17, SeqByIndex
<1>19. PICK v : v = [k \in DOMAIN Blocks(L) |-> VttEntry(Blocks(L)[k])]
  OBVIOUS
<1>d. \A k \in DOMAIN Blocks(L) : IsDocument(Blocks(L)[k])
  BY <1>11, BlocksFacts
<1>20. ParseVtt(L) = Subtitle("vtt", Indexed(FlattenSeq(v)))
  <2>1. SmallLines(L)
    BY <1>10, <1>11, NotOversized
  <2>2. \A k \in DOMAIN Blocks(L) : ~Oversized(Blocks(L)[k])
    BY <1>11, <2>1, BlocksOf, SmallNotOversized
  <2> QED
    BY <1>13, <1>19, <2>2 DEF ParseVtt
<1>21. FlattenSeq(v) = g
  <2>1. IsSeq(v) /\ Len(v) = n + 2 /\ DOMAIN v = 1..(n + 2)
    <3>1. DOMAIN v = 1..(n + 2) /\ v = [k \in 1..(n + 2) |-> v[k]] /\ n + 2 \in Nat
      BY <1>1, <1>8, <1>19
    <3> QED
      BY <3>1, SeqByIndex
  <2>2. ASSUME NEW k \in 1..n PROVE v[k + 1] = <<g[k]>>
    <3>0. k + 1 \in 1..(n + 2)
      BY <1>1
    <3>1. IsBlockOf(u[k], a[k], b[k], e[k].text) /\ WritableCue(e[k], Hours100)
      BY <1>1, <1>5 DEF Writable
    <3>2. IsDocument(BodyOf(u[k]))
      BY <1>8, <1>d, <3>0
    <3>3. VttEntry(BodyOf(u[k])) = <<Entry(0, e[k].start, e[k].end, e[k].text)>>
      BY <1>3, <3>1, <3>2, VttEntryRead DEF IsBlockOf
    <3>4. v[k + 1] = VttEntry(BodyOf(u[k]))
      BY <1>8, <1>19, <3>0
    <3> QED
      BY <1>17, <3>3, <3>4
  <2>3. v[1] = <<>> /\ v[n + 2] = <<>>
    <3>1. 1 \in 1..(n + 2) /\ n + 2 \in 1..(n + 2)
      BY <1>1
    <3>2. v[n + 2] = VttEntry(<<>>) /\ v[1] = VttEntry(BodyOf(h)) /\ IsDocument(BodyOf(h))
      BY <1>8, <1>19, <1>d, <3>1
    <3> QED
      BY <1>h, <3>2, NoEntry
  <2>4. ASSUME NEW k \in 1..Len(v)
        PROVE  v[k] = IF 1 < k /\ k <= 1 + Len(g) THEN <<g[k - 1]>> ELSE <<>>
    <3>1. CASE k = n + 2 \/ k = 1
      BY <1>1, <1>18, <2>3, <3>1
    <3>2. CASE k # n + 2 /\ k # 1
      <4>1. k - 1 \in 1..n /\ 1 < k /\ k <= 1 + n /\ (k - 1) + 1 = k
        BY <1>1, <2>1, <3>2
      <4> QED
        BY <1>18, <2>2, <4>1
    <3> QED
      BY <3>1, <3>2
  <2>5. 1 + Len(g) <= Len(v) /\ 1 \in Nat
    BY <1>1, <1>18, <2>1
  <2>6. IsSeq(v) /\ IsSeq(g)
    BY <1>18, <2>1
  <2> QED
    BY <2>4, <2>5, <2>6, FlattenOnes
<1>22. Restored(e, Indexed(g), 1)
  <2>1. \A i \in DOMAIN e : g[i] = Entry(0, e[i].start, e[i].end, e[i].text)
    BY <1>1, <1>17
  <2> QED
    BY <1>1, <1>18, <2>1, IndexedSame
<1>23. ParseAuto([bom |-> FALSE, lines |-> SerializeVtt(e)]) = Subtitle("vtt", Indexed(g))
  BY <1>2, <1>6, <1>15, <1>16, <1>20, <1>21
<1> QED
  BY <1>22, <1>23, Errors

\* Replacing the line break by another sign, and that sign by it, keeps the words.
LEMMA ThereAndBack ==
  ASSUME NEW t, Plain(t), NEW s, s \notin AssWords \cup {"huge"}, s \notin Spoken
  PROVE  /\ Plain(Replace(t, "nl", s)) /\ IsSeq(Replace(t, "nl", s))
         /\ Words(Replace(Replace(t, "nl", s), s, "nl")) = Words(t)
<1>1. Small(t)
  BY DEF Plain, Small
<1>2. PICK r : r = Replace(t, "nl", s)
  OBVIOUS
<1>3. Small(r) /\ Words(r) = Words(t)
  BY <1>1, <1>2, ReplacedText DEF Spoken
<1>4. Words(Replace(r, s, "nl")) = Words(r)
  BY <1>3, ReplacedText DEF Spoken
<1>5. IsSeq(r)
  BY <1>3 DEF Small
<1>6. \A i \in DOMAIN r : r[i] \notin AssWords \cup {"huge"}
  BY <1>2 DEF Replace, Plain
<1> QED
  BY <1>2, <1>3, <1>4, <1>5, <1>6 DEF Plain

LEMMA SubEntryRead ==
  ASSUME NEW c, WritableCue(c, MaxSubMs),
         NEW l, l = Line("sub", ToFrame(c.start), ToFrame(c.end), Replace(c.text, "nl", "|"))
  PROVE  \E a, b, t : /\ SubEntry(l) = <<Entry(0, a, b, t)>> /\ Words(t) = Words(c.text)
                      /\ Close(a, c.start, FrameMs) /\ Close(b, c.end, FrameMs)
<1>1. PICK r : r = Replace(c.text, "nl", "|")
  OBVIOUS
<1>2. c.start \in Nat /\ c.start < MaxSubMs /\ c.end \in Nat /\ c.end < MaxSubMs /\ Plain(c.text)
  BY DEF WritableCue, IsCue
<1>3. l.k = "sub" /\ l.a = ToFrame(c.start) /\ l.b = ToFrame(c.end) /\ l.t = r
  <2>1. PICK x, y : x = ToFrame(c.start) /\ y = ToFrame(c.end)
    OBVIOUS
  <2>2. l = Line("sub", x, y, r)
    BY <1>1, <2>1
  <2>3. /\ Line("sub", x, y, r).k = "sub" /\ Line("sub", x, y, r).a = x
        /\ Line("sub", x, y, r).b = y /\ Line("sub", x, y, r).t = r
    BY LineFields
  <2> QED
    BY <2>1, <2>2, <2>3
<1>4. /\ FromFrame(l.a) \in 0..MaxSubMs /\ Close(FromFrame(l.a), c.start, FrameMs)
      /\ FromFrame(l.b) \in 0..MaxSubMs /\ Close(FromFrame(l.b), c.end, FrameMs)
  BY <1>2, <1>3, FrameTimes, Zenon
<1>5. SubEntry(l) = <<Entry(0, FromFrame(l.a), FromFrame(l.b), Replace(l.t, "|", "nl"))>>
  BY <1>3, <1>4, Zenon DEF SubEntry
<1>6. Words(Replace(l.t, "|", "nl")) = Words(c.text)
  <2>1. "|" \notin AssWords \cup {"huge"} /\ "|" \notin Spoken
    BY DEF Spoken, AssWords
  <2> QED
    BY <1>1, <1>2, <1>3, <2>1, ThereAndBack
<1> QED
  BY <1>4, <1>5, <1>6, Zenon

LEMMA IndexedRestored ==
  ASSUME NEW e, NEW grain, NEW g, IsSeq(g), Len(g) = Len(e), DOMAIN g = DOMAIN e, Restored(e, g, grain),
         \A i \in DOMAIN e : \E a, b, t : g[i] = Entry(0, a, b, t)
  PROVE  Restored(e, Indexed(g), grain)
<1> DEFINE x == Indexed(g)
<1>1. x = [i \in DOMAIN g |-> [g[i] EXCEPT !.index = i]]
  BY DEF Indexed
<1>2. \A i \in DOMAIN e : /\ x[i].start = g[i].start /\ x[i].end = g[i].end
                          /\ x[i].text = g[i].text
  <2> SUFFICES ASSUME NEW i \in DOMAIN e
               PROVE  x[i].start = g[i].start /\ x[i].end = g[i].end /\ x[i].text = g[i].text
    OBVIOUS
  <2>1. PICK a, b, t : g[i] = [index |-> 0, start |-> a, end |-> b, text |-> t]
    BY DEF Entry
  <2>2. x[i] = [g[i] EXCEPT !.index = i]
    BY <1>1
  <2> HIDE DEF x
  <2>3. x[i] = [index |-> i, start |-> a, end |-> b, text |-> t]
    BY <2>1, <2>2
  <2> QED
    BY <2>1, <2>3
<1>3. DOMAIN x = DOMAIN g /\ x = [i \in DOMAIN g |-> x[i]] /\ x = Indexed(g)
  BY <1>1
<1> HIDE DEF x
<1>4. Len(x) = Len(e)
  BY <1>3, SameLength
<1>5. Restored(e, x, grain)
  BY <1>2, <1>4 DEF Restored
<1> QED
  BY <1>3, <1>5

LEMMA SubRestored ==
  ASSUME NEW e, Writable(e, MaxSubMs)
  PROVE  LET back == ParseAuto([bom |-> FALSE, lines |-> SerializeSub(e)])
         IN  back.ok /\ back.format = "sub" /\ Restored(e, back.entries, FrameMs)
<1>1. PICK n : n = Len(e) /\ n \in Nat /\ n # 0 /\ DOMAIN e = 1..n
  BY SeqFacts DEF Writable, IsSeq
<1>2. PICK L : L = SerializeSub(e)
  OBVIOUS
<1>3. /\ L = [i \in 1..n |-> L[i]]
      /\ \A i \in 1..n : L[i] = Line("sub", ToFrame(e[i].start), ToFrame(e[i].end),
                                     Replace(e[i].text, "nl", "|"))
  BY <1>1, <1>2 DEF SerializeSub
<1>4. IsSeq(L) /\ Len(L) = n /\ DOMAIN L = 1..n /\ L # <<>> /\ 1 \in 1..n
  <2>1. DOMAIN L = 1..n
    BY <1>3
  <2>2. IsSeq(L) /\ Len(L) = n
    BY <1>1, <1>3, <2>1, SeqByIndex
  <2> QED
    BY <1>1, <2>1, <2>2, EmptySeqs
<1>5. \A i \in 1..n : WritableCue(e[i], MaxSubMs)
  BY <1>1 DEF Writable
<1>6. \A i \in 1..n : L[i].k = "sub" /\ Calm(L[i])
  <2> SUFFICES ASSUME NEW i \in 1..n PROVE L[i].k = "sub" /\ Calm(L[i])
    OBVIOUS
  <2>1. L[i].k = "sub" /\ L[i].t = Replace(e[i].text, "nl", "|")
    BY <1>3, LineFields
  <2>2. Plain(Replace(e[i].text, "nl", "|"))
    BY <1>5, ThereAndBack DEF WritableCue, Spoken, AssWords
  <2> QED
    BY <2>1, <2>2 DEF Calm
<1>7. ~DetectAss(L) /\ ~Oversized(L)
  BY <1>4, <1>6, CalmLines
<1>8. AreCues(e) /\ IsDocument(L)
  <2>1. AreCues(e)
    BY DEF Writable, WritableCue, AreCues
  <2> QED
    BY <1>2, <2>1, SubWritten
<1>9. ~DetectVtt(L) /\ ~DetectSrt(L) /\ DetectSub(L)
  <2>1. ~IsBlank(L[1]) /\ L[1].k = "sub"
    BY <1>4, <1>6, LineFields
  <2>2. Trim(L)[1] = L[1] /\ Trim(L) # <<>>
    BY <1>4, <1>8, <2>1, TrimFirst
  <2>3. ~DetectVtt(L) /\ DetectSub(L)
    BY <2>1, <2>2 DEF DetectVtt, DetectSub
  <2>4. \A i \in DOMAIN L : L[i].k # "srtTime"
    BY <1>4, <1>6
  <2> QED
    BY <2>3, <2>4, Zenon DEF DetectSrt
<1>10. PICK doc : doc = [bom |-> FALSE, lines |-> L]
  OBVIOUS
<1>11. doc.lines = L /\ ~doc.bom
  BY <1>10
<1>12. ParseAuto(doc) = ParseSub(L)
  <2>1. /\ Registered[1] = "ass" /\ Registered[2] = "vtt" /\ Registered[3] = "srt"
        /\ Registered[4] = "sub" /\ 4 \in 1..4
    BY DEF Registered
  <2>2. ~Detects("ass", doc) /\ ~Detects("vtt", doc) /\ ~Detects("srt", doc) /\ Detects("sub", doc)
    BY <1>7, <1>9, <1>11, Zenon DEF Detects
  <2>3. \A j \in 1..4 : j < 4 => j = 1 \/ j = 2 \/ j = 3
    OBVIOUS
  <2>4. ParseAuto(doc) = Parse(Registered[4], doc.lines)
    BY <2>1, <2>2, <2>3, FirstHit
  <2> QED
    BY <1>11, <2>1, <2>4, Zenon DEF Parse
<1>13. PICK v : v = [i \in DOMAIN L |-> SubEntry(L[i])]
  OBVIOUS
<1>14. ParseSub(L) = Subtitle("sub", Indexed(FlattenSeq(v)))
  <2>1. \A i \in DOMAIN L : ~Oversized(<<L[i]>>)
    <3> SUFFICES ASSUME NEW i \in DOMAIN L PROVE ~Oversized(<<L[i]>>)
      OBVIOUS
    <3>1. PICK x : x = L[i]
      OBVIOUS
    <3>2. Calm(x)
      BY <1>4, <1>6, <3>1
    <3>3. \A p \in DOMAIN <<x>> : Calm(<<x>>[p])
      BY <3>2
    <3> QED
      BY <3>1, <3>3, CalmLines
  <2> QED
    BY <1>4, <1>13, <2>1 DEF ParseSub
<1> DEFINE Reads(i, c) == \E a, b, t : /\ c = Entry(0, a, b, t) /\ Words(t) = Words(e[i].text)
                                       /\ Close(a, e[i].start, FrameMs) /\ Close(b, e[i].end, FrameMs)
           g == [i \in 1..n |-> CHOOSE c : v[i] = <<c>> /\ Reads(i, c)]
<1>15. ASSUME NEW i \in 1..n PROVE v[i] = <<g[i]>> /\ Reads(i, g[i])
  <2>1. PICK a, b, t : /\ SubEntry(L[i]) = <<Entry(0, a, b, t)>> /\ Words(t) = Words(e[i].text)
                       /\ Close(a, e[i].start, FrameMs) /\ Close(b, e[i].end, FrameMs)
    BY <1>3, <1>5, SubEntryRead
  <2>2. v[i] = SubEntry(L[i])
    BY <1>4, <1>13
  <2>3. Reads(i, Entry(0, a, b, t))
    BY <2>1
  <2>4. \E c : v[i] = <<c>> /\ Reads(i, c)
    BY <2>1, <2>2, <2>3
  <2> HIDE DEF Reads
  <2> QED
    BY <2>4
<1>16. g = [i \in 1..n |-> g[i]] /\ DOMAIN g = 1..n
  OBVIOUS
<1> HIDE DEF g
<1>17. IsSeq(g) /\ Len(g) = n
  BY <1>1, <1>16, SeqByIndex
<1>18. FlattenSeq(v) = g
  <2>1. IsSeq(v) /\ Len(v) = n /\ DOMAIN v = 1..n
    <3>1. DOMAIN v = 1..n /\ v = [k \in 1..n |-> v[k]]
      BY <1>4, <1>13
    <3> QED
      BY <1>1, <3>1, SeqByIndex
  <2>2. ASSUME NEW k \in 1..Len(v)
        PROVE  v[k] = IF 0 < k /\ k <= 0 + Len(g) THEN <<g[k - 0]>> ELSE <<>>
    <3>1. k \in 1..n /\ 0 < k /\ k <= 0 + n /\ k - 0 = k
      BY <1>1, <2>1
    <3> HIDE DEF Reads
    <3> QED
      BY <1>15, <1>17, <3>1
  <2>3. 0 + Len(g) <= Len(v) /\ 0 \in Nat
    BY <1>1, <1>17, <2>1
  <2>4. IsSeq(v) /\ IsSeq(g)
    BY <1>17, <2>1
  <2> QED
    BY <2>2, <2>3, <2>4, FlattenOnes
<1>19. Restored(e, Indexed(g), FrameMs)
  <2>1. ASSUME NEW i \in 1..n
        PROVE  /\ Words(g[i].text) = Words(e[i].text) /\ (\E a, b, t : g[i] = Entry(0, a, b, t))
               /\ Close(g[i].start, e[i].start, FrameMs) /\ Close(g[i].end, e[i].end, FrameMs)
    BY <1>15, CueOfEntry
  <2>2. Restored(e, g, FrameMs)
    BY <1>1, <1>17, <2>1 DEF Restored
  <2> QED
    BY <1>1, <1>16, <1>17, <2>1, <2>2, IndexedRestored
<1>20. ParseAuto([bom |-> FALSE, lines |-> SerializeSub(e)]) = Subtitle("sub", Indexed(g))
  BY <1>2, <1>10, <1>12, <1>14, <1>18
<1> QED
  BY <1>19, <1>20, Errors

AssHead == <<Mark("script"), Blank, Mark("styles"), Line("format", 0, 0, <<>>), Blank,
             Mark("events"), Line("format", 1, 0, <<>>)>>

LEMMA AssHeadLines ==
  /\ IsSeq(AssHead) /\ Len(AssHead) = 7
  /\ AssHead[1].k = "script" /\ AssHead[2].k = "text" /\ AssHead[3].k = "styles"
  /\ AssHead[4].k = "format" /\ AssHead[5].k = "text" /\ AssHead[6].k = "events"
  /\ AssHead[7].k = "format" /\ AssHead[7].a = 1
<1>1. /\ Len(AssHead) = 7 /\ AssHead[1] = Mark("script") /\ AssHead[2] = Blank
      /\ AssHead[3] = Mark("styles") /\ AssHead[4] = Line("format", 0, 0, <<>>)
      /\ AssHead[5] = Blank /\ AssHead[6] = Mark("events")
      /\ AssHead[7] = Line("format", 1, 0, <<>>)
  BY DEF AssHead
<1>2. IsSeq(AssHead)
  <2>1. PICK a, b, c, d, f : /\ a = Mark("script") /\ b = Blank /\ c = Mark("styles")
                             /\ d = Line("format", 0, 0, <<>>) /\ f = Mark("events")
    OBVIOUS
  <2>2. PICK g : g = Line("format", 1, 0, <<>>)
    OBVIOUS
  <2>3. AssHead = <<a, b, c, d, b, f, g>>
    BY <2>1, <2>2 DEF AssHead
  <2>4. <<a, b, c, d, b, f, g>> \in Seq({a, b, c, d, f, g})
    OBVIOUS
  <2> QED
    BY <2>3, <2>4, SeqOfAny
<1> QED
  BY <1>1, <1>2, LineFields

\* The lines of a written ASS file: the head, then a row for each cue.
AssLaid(L, n) ==
  /\ IsSeq(L) /\ Len(L) = 7 + n /\ DOMAIN L = 1..(7 + n)
  /\ L[1].k = "script" /\ L[2].k = "text" /\ L[3].k = "styles" /\ L[4].k = "format"
  /\ L[5].k = "text" /\ L[6].k = "events" /\ L[7].k = "format" /\ L[7].a = 1
  /\ \A i \in 1..n : L[7 + i].k = "dialogue"

LEMMA AssHeaders ==
  ASSUME NEW n \in Nat, NEW L, AssLaid(L, n)
  PROVE  /\ InEvents(L, 7) /\ ~InEvents(L, 4)
         /\ \A i \in 8..(7 + n) : InEvents(L, i) /\ FormatLines(L, i) = {7}
<1> DEFINE H(i) == {j \in 1..(i - 1) : L[j].k \in {"events", "script", "styles"}}
<1>1. ASSUME NEW j \in 1..(7 + n)
      PROVE  /\ L[j].k = "events" <=> j = 6
             /\ L[j].k \in {"events", "script", "styles"} <=> j \in {1, 3, 6}
             /\ L[j].k = "format" <=> j \in {4, 7}
  <2>1. CASE j > 7
    <3>1. j - 7 \in 1..n /\ 7 + (j - 7) = j
      BY <2>1
    <3>2. L[j].k = "dialogue"
      BY <3>1 DEF AssLaid
    <3> QED
      BY <2>1, <3>2
  <2>2. CASE j <= 7
    <3>1. j \in {1, 2, 3, 4, 5, 6, 7}
      BY <2>2
    <3> QED
      BY <3>1 DEF AssLaid
  <2> QED
    BY <2>1, <2>2
<1>2. ASSUME NEW i \in 1..(7 + n) PROVE InEvents(L, i) <=> i > 6
  <2>1. H(i) = {j \in {1, 3, 6} : j < i}
    <3>1. \A j \in 1..(i - 1) : j \in 1..(7 + n)
      OBVIOUS
    <3>2. \A j \in {1, 3, 6} : j < i <=> j \in 1..(i - 1)
      OBVIOUS
    <3>3. \A j : j \in H(i) <=> j \in 1..(i - 1) /\ j \in {1, 3, 6}
      BY <1>1, <3>1
    <3> HIDE DEF H
    <3>4. \A j : j \in H(i) <=> j \in {x \in {1, 3, 6} : x < i}
      BY <3>2, <3>3
    <3> QED
      BY <3>4
  <2>2. InEvents(L, i) <=> \E j \in H(i) : L[j].k = "events" /\ \A h \in H(i) : h <= j
    BY DEF InEvents
  <2>3. \A j \in H(i) : j \in 1..(7 + n)
    OBVIOUS
  <2> HIDE DEF H
  <2>4. CASE i > 6
    <3>1. 6 \in H(i) /\ \A h \in H(i) : h <= 6
      BY <2>1, <2>4
    <3> QED
      BY <1>1, <2>2, <2>3, <2>4, <3>1
  <2>5. CASE ~(i > 6)
    <3>1. 6 \notin H(i)
      BY <2>1, <2>5
    <3> QED
      BY <1>1, <2>2, <2>3, <2>5, <3>1
  <2> QED
    BY <2>4, <2>5
<1>3. InEvents(L, 7) /\ ~InEvents(L, 4)
  <2>1. 7 \in 1..(7 + n) /\ 4 \in 1..(7 + n) /\ 7 > 6 /\ ~(4 > 6)
    OBVIOUS
  <2> QED
    BY <1>2, <2>1
<1>4. ASSUME NEW i \in 8..(7 + n) PROVE InEvents(L, i) /\ FormatLines(L, i) = {7}
  <2>1. i \in 1..(7 + n) /\ i > 6 /\ 7 \in 1..(i - 1)
    OBVIOUS
  <2>2. \A j \in 1..(i - 1) : j \in 1..(7 + n)
    BY <2>1
  <2>3. \A j : j \in FormatLines(L, i) <=> j \in 1..(i - 1) /\ L[j].k = "format" /\ InEvents(L, j)
    BY DEF FormatLines
  <2>4. \A j : j \in FormatLines(L, i) <=> j = 7
    BY <1>1, <1>3, <2>1, <2>2, <2>3
  <2> QED
    BY <1>2, <2>1, <2>4
<1> QED
  BY <1>3, <1>4

LEMMA AssRowRead ==
  ASSUME NEW c, WritableCue(c, Hours100), NEW m,
         NEW l, l = Line("dialogue", FormatAssTime(c.start), FormatAssTime(c.end),
                         Replace(c.text, "nl", "\\N"))
  PROVE  /\ l.k = "dialogue" /\ Plain(l.t) /\ ~Skipped(l)
         /\ \E a, b, t : /\ Entry(m, ParseAssTime(l.a), ParseAssTime(l.b), Replace(l.t, "\\N", "nl"))
                              = Entry(m, a, b, t)
                         /\ Words(t) = Words(c.text)
                         /\ Close(a, c.start, 10) /\ Close(b, c.end, 10)
<1>1. PICK r : r = Replace(c.text, "nl", "\\N")
  OBVIOUS
<1>2. c.start \in Nat /\ c.start < Hours100 /\ c.end \in Nat /\ c.end < Hours100 /\ Plain(c.text)
  BY DEF WritableCue, IsCue
<1>3. l.k = "dialogue" /\ l.a = FormatAssTime(c.start) /\ l.b = FormatAssTime(c.end) /\ l.t = r
  <2>1. PICK x, y : x = FormatAssTime(c.start) /\ y = FormatAssTime(c.end)
    OBVIOUS
  <2>2. l = Line("dialogue", x, y, r)
    BY <1>1, <2>1
  <2>3. /\ Line("dialogue", x, y, r).k = "dialogue" /\ Line("dialogue", x, y, r).a = x
        /\ Line("dialogue", x, y, r).b = y /\ Line("dialogue", x, y, r).t = r
    BY LineFields
  <2> QED
    BY <2>1, <2>2, <2>3
<1>4. /\ l.a \in Nat /\ Close(ParseAssTime(l.a), c.start, 10)
      /\ l.b \in Nat /\ Close(ParseAssTime(l.b), c.end, 10)
  BY <1>2, <1>3, AssTimes, Zenon
<1>5. Plain(r) /\ Words(Replace(r, "\\N", "nl")) = Words(c.text)
  <2>1. "\\N" \notin AssWords \cup {"huge"} /\ "\\N" \notin Spoken
    BY DEF Spoken, AssWords
  <2> QED
    BY <1>1, <1>2, <2>1, ThereAndBack
<1>6. ~Skipped(l)
  BY <1>4, Zenon DEF Skipped
<1> QED
  BY <1>3, <1>4, <1>5, <1>6, Zenon

LEMMA AssRestored ==
  ASSUME NEW e, Writable(e, Hours100)
  PROVE  LET back == ParseAuto([bom |-> FALSE, lines |-> SerializeAss(e)])
         IN  back.ok /\ back.format = "ass" /\ Restored(e, back.entries, 10)
<1>1. PICK n : n = Len(e) /\ n \in Nat /\ n # 0 /\ DOMAIN e = 1..n
  BY SeqFacts DEF Writable, IsSeq
<1> DEFINE d == [i \in 1..n |-> Line("dialogue", FormatAssTime(e[i].start), FormatAssTime(e[i].end),
                                     Replace(e[i].text, "nl", "\\N"))]
<1>2. SerializeAss(e) = AssHead \o d
  BY <1>1 DEF SerializeAss, AssHead
<1>3. /\ DOMAIN d = 1..n /\ d = [i \in 1..n |-> d[i]]
      /\ \A i \in 1..n : d[i] = Line("dialogue", FormatAssTime(e[i].start), FormatAssTime(e[i].end),
                                     Replace(e[i].text, "nl", "\\N"))
  OBVIOUS
<1> HIDE DEF d
<1>4. IsSeq(d) /\ Len(d) = n
  BY <1>1, <1>3, SeqByIndex
<1>5. PICK L : L = AssHead \o d
  OBVIOUS
<1>6. /\ IsSeq(L) /\ Len(L) = 7 + n /\ DOMAIN L = 1..(7 + n)
      /\ (\A p \in 1..7 : L[p] = AssHead[p]) /\ \A i \in 1..n : L[7 + i] = d[i]
  <2>1. IsSeq(AssHead) /\ IsSeq(d)
    BY <1>4, AssHeadLines
  <2>2. /\ IsSeq(AssHead \o d) /\ Len(AssHead \o d) = Len(AssHead) + Len(d)
        /\ \A p \in 1..Len(AssHead) : (AssHead \o d)[p] = AssHead[p]
        /\ \A j \in 1..Len(d) : (AssHead \o d)[Len(AssHead) + j] = d[j]
    BY <2>1, Behind
  <2>3. Len(AssHead) = 7
    BY AssHeadLines
  <2>4. DOMAIN (AssHead \o d) = 1..Len(AssHead \o d)
    BY <2>2, SeqFacts
  <2> QED
    BY <1>4, <1>5, <2>2, <2>3, <2>4
<1>7. \A i \in 1..n : WritableCue(e[i], Hours100)
  BY <1>1 DEF Writable
<1>8. \A i \in 1..n : d[i].k = "dialogue" /\ Plain(d[i].t) /\ ~Skipped(d[i])
  BY <1>3, <1>7, AssRowRead
<1>9. AssLaid(L, n)
  <2>1. \A p \in {1, 2, 3, 4, 5, 6, 7} : p \in 1..7
    OBVIOUS
  <2>2. \A p \in {1, 2, 3, 4, 5, 6, 7} : L[p] = AssHead[p]
    BY <1>6, <2>1
  <2> QED
    BY <1>6, <1>8, <2>2, AssHeadLines DEF AssLaid
<1>10. /\ InEvents(L, 7) /\ \A i \in 8..(7 + n) : InEvents(L, i) /\ FormatLines(L, i) = {7}
  BY <1>1, <1>9, AssHeaders
<1>11. ASSUME NEW p \in DOMAIN L
       PROVE  L[p].k \in {"dialogue", "badTime"} <=> p \in 8..(7 + n)
  <2>1. CASE p <= 7
    <3>1. p \in {1, 2, 3, 4, 5, 6, 7}
      BY <1>6, <2>1
    <3>2. L[p].k \notin {"dialogue", "badTime"}
      BY <1>9, <3>1 DEF AssLaid
    <3> QED
      BY <2>1, <3>2
  <2>2. CASE p > 7
    <3>1. p - 7 \in 1..n /\ 7 + (p - 7) = p /\ p \in 8..(7 + n)
      BY <1>1, <1>6, <2>2
    <3>2. L[p].k = "dialogue"
      BY <1>6, <1>8, <3>1
    <3> QED
      BY <3>1, <3>2
  <2> QED
    BY <1>6, <2>1, <2>2
<1> DEFINE rows == {i \in DOMAIN L : IsRow(L, i)}
           I == {i \in rows : ~Skipped(L[i])}
<1>12. rows = 8..(7 + n)
  <2>1. ASSUME NEW i \in DOMAIN L PROVE IsRow(L, i) <=> i \in 8..(7 + n)
    BY <1>10, <1>11 DEF IsRow
  <2>2. 8..(7 + n) \subseteq DOMAIN L
    BY <1>6
  <2> QED
    BY <2>1, <2>2
<1>13. ASSUME NEW i \in rows PROVE \E k \in 1..n : i = 7 + k /\ L[i] = d[k]
  <2>1. i - 7 \in 1..n /\ i = 7 + (i - 7)
    BY <1>1, <1>12
  <2> QED
    BY <1>6, <2>1
<1>14. \A i \in rows : ~Skipped(L[i]) /\ ~RowFails(L, i)
  <2> SUFFICES ASSUME NEW i \in rows PROVE ~Skipped(L[i]) /\ ~RowFails(L, i)
    OBVIOUS
  <2>1. PICK k \in 1..n : i = 7 + k /\ L[i] = d[k]
    BY <1>13
  <2>2. ~Skipped(L[i]) /\ L[i].k = "dialogue" /\ ~Contains(L[i].t, "huge")
    BY <1>8, <2>1, PlainFacts
  <2>3. \A j \in FormatLines(L, i) : L[j].a # 0
    BY <1>9, <1>10, <1>12 DEF AssLaid
  <2> QED
    BY <2>2, <2>3 DEF RowFails
<1>15. I = rows
  BY <1>14
<1> HIDE DEF rows, I
<1> DEFINE O == [k \in 0..n |-> 7 + k]
<1>16. /\ O \in [0..n -> Nat] /\ (\A k \in 1..n : O[k - 1] < O[k])
       /\ I = {O[k] : k \in 1..n} /\ \A k \in 1..n : O[k] = 7 + k
  <2>1. O \in [0..n -> Nat] /\ \A k \in 1..n : O[k] = 7 + k
    BY <1>1
  <2>2. \A k \in 1..n : O[k - 1] < O[k]
    BY <1>1
  <2>3. \A i : i \in I <=> \E k \in 1..n : i = 7 + k
    <3>1. \A k \in 1..n : 7 + k \in 8..(7 + n)
      BY <1>1
    <3> QED
      BY <1>12, <1>13, <1>15, <3>1
  <2>4. {O[k] : k \in 1..n} = {7 + k : k \in 1..n}
    BY <2>1
  <2>5. I = {7 + k : k \in 1..n}
    BY <2>3
  <2> QED
    BY <2>1, <2>2, <2>4, <2>5
<1> HIDE DEF O
<1>17. IsFiniteSet(I) /\ Cardinality(I) = n /\ \A k \in 1..n : Nth(I, k) = 7 + k
  <2>1. IsFiniteSet(I) /\ Cardinality(I) = n /\ \A k \in 1..n : Nth(I, k) = O[k]
    BY <1>1, <1>16, NthRising
  <2> QED
    BY <1>16, <2>1
<1>18. PICK kept : kept = Picked(L, I)
  OBVIOUS
<1>19. DOMAIN kept = 1..n /\ \A k \in 1..n : kept[k] = d[k]
  <2>1. I \subseteq DOMAIN L
    BY <1>15 DEF rows
  <2>2. /\ DOMAIN Picked(L, I) = 1..Cardinality(I)
        /\ \A k \in 1..Cardinality(I) : Picked(L, I)[k] = L[Nth(I, k)]
    BY <1>6, <2>1, PickedFacts
  <2> QED
    BY <1>6, <1>17, <1>18, <2>2
<1>20. PICK g : g = [m \in DOMAIN kept |-> Entry(m, ParseAssTime(kept[m].a), ParseAssTime(kept[m].b),
                                                 Replace(kept[m].t, "\\N", "nl"))]
  OBVIOUS
<1>21. ParseAss(L) = Subtitle("ass", g)
  <2>1. ~AllBlank(L)
    <3>1. 1 \in DOMAIN L /\ L[1].k = "script"
      BY <1>1, <1>6, <1>9 DEF AssLaid
    <3> QED
      BY <3>1, LineFields DEF AllBlank
  <2>2. ~\A i \in DOMAIN L : L[i].k # "events"
    <3>1. 6 \in DOMAIN L /\ L[6].k = "events"
      BY <1>1, <1>6, <1>9 DEF AssLaid
    <3> QED
      BY <3>1
  <2>3. kept = Picked(L, {i \in {j \in DOMAIN L : IsRow(L, j)} : ~Skipped(L[i])})
    BY <1>18 DEF I, rows
  <2>4. ~\E i \in {j \in DOMAIN L : IsRow(L, j)} : RowFails(L, i)
    BY <1>14 DEF rows
  <2> QED
    BY <1>20, <2>1, <2>2, <2>3, <2>4 DEF ParseAss
<1>22. IsSeq(g) /\ Len(g) = n /\ DOMAIN g = 1..n
  <2>1. DOMAIN g = 1..n /\ g = [m \in 1..n |-> g[m]]
    BY <1>19, <1>20
  <2> QED
    BY <1>1, <2>1, SeqByIndex
<1>23. Restored(e, g, 10)
  <2>1. ASSUME NEW m \in 1..n
        PROVE  /\ Words(g[m].text) = Words(e[m].text)
               /\ Close(g[m].start, e[m].start, 10) /\ Close(g[m].end, e[m].end, 10)
    <3>1. PICK l : l = d[m]
      OBVIOUS
    <3>2. g[m] = Entry(m, ParseAssTime(l.a), ParseAssTime(l.b), Replace(l.t, "\\N", "nl"))
      BY <1>19, <1>20, <3>1
    <3>3. l = Line("dialogue", FormatAssTime(e[m].start), FormatAssTime(e[m].end),
                   Replace(e[m].text, "nl", "\\N"))
      BY <1>3, <3>1
    <3>4. \E a, b, t : /\ g[m] = Entry(m, a, b, t) /\ Words(t) = Words(e[m].text)
                       /\ Close(a, e[m].start, 10) /\ Close(b, e[m].end, 10)
      BY <1>7, <3>2, <3>3, AssRowRead
    <3> QED
      BY <3>4, CueOfEntry
  <2> QED
    BY <1>1, <1>22, <2>1 DEF Restored
<1>24. PICK doc : doc = [bom |-> FALSE, lines |-> L]
  OBVIOUS
<1>25. doc.lines = L
  BY <1>24
<1>26. ParseAuto(doc) = ParseAss(L)
  <2>1. DetectAss(L)
    <3>1. 1 \in DOMAIN L /\ L[1].k = "script"
      BY <1>1, <1>6, <1>9 DEF AssLaid
    <3> QED
      BY <3>1, Zenon DEF DetectAss
  <2>2. Registered[1] = "ass" /\ 1 \in 1..4
    BY DEF Registered
  <2>3. Detects("ass", doc)
    BY <1>25, <2>1, Zenon DEF Detects
  <2>4. \A j \in 1..4 : ~(j < 1)
    OBVIOUS
  <2>5. ParseAuto(doc) = Parse(Registered[1], doc.lines)
    BY <2>2, <2>3, <2>4, FirstHit
  <2> QED
    BY <1>25, <2>2, <2>5, Zenon DEF Parse
<1>27. ParseAuto([bom |-> FALSE, lines |-> SerializeAss(e)]) = Subtitle("ass", g)
  BY <1>2, <1>5, <1>21, <1>24, <1>26
<1> QED
  BY <1>23, <1>27, Errors

TimeLimit(format) == IF format = "sub" THEN MaxSubMs ELSE Hours100
GrainOf(format) == CASE format = "ass" -> 10 [] format = "sub" -> FrameMs [] OTHER -> 1

\* Whatever the format, what is written of cues that can be written is read back.
LEMMA WrittenIsReadBack ==
  ASSUME NEW format \in Formats, NEW e, Writable(e, TimeLimit(format))
  PROVE  LET back == ParseAuto([bom |-> FALSE, lines |-> Serialize(format, e)])
         IN  back.ok /\ back.format = format /\ Restored(e, back.entries, GrainOf(format))
<1> DEFINE back == ParseAuto([bom |-> FALSE, lines |-> Serialize(format, e)])
<1>1. CASE format = "srt"
  <2>1. TimeLimit(format) = Hours100 /\ GrainOf(format) = 1
    BY <1>1, Zenon DEF TimeLimit, GrainOf
  <2>2. Serialize(format, e) = SerializeSrt(e)
    BY <1>1, Zenon DEF Serialize
  <2> QED
    BY <1>1, <2>1, <2>2, SrtRestored
<1>2. CASE format = "vtt"
  <2>1. TimeLimit(format) = Hours100 /\ GrainOf(format) = 1
    BY <1>2, Zenon DEF TimeLimit, GrainOf
  <2>2. Serialize(format, e) = SerializeVtt(e)
    BY <1>2, Zenon DEF Serialize
  <2> QED
    BY <1>2, <2>1, <2>2, VttRestored
<1>3. CASE format = "ass"
  <2>1. TimeLimit(format) = Hours100 /\ GrainOf(format) = 10
    BY <1>3, Zenon DEF TimeLimit, GrainOf
  <2>2. Serialize(format, e) = SerializeAss(e)
    BY <1>3, Zenon DEF Serialize
  <2> QED
    BY <1>3, <2>1, <2>2, AssRestored
<1>4. CASE format = "sub"
  <2>1. TimeLimit(format) = MaxSubMs /\ GrainOf(format) = FrameMs
    BY <1>4, Zenon DEF TimeLimit, GrainOf
  <2>2. Serialize(format, e) = SerializeSub(e)
    BY <1>4, Zenon DEF Serialize
  <2> QED
    BY <1>4, <2>1, <2>2, SubRestored
<1> QED
  BY <1>1, <1>2, <1>3, <1>4 DEF Formats

\* A byte-order mark that was left in the text makes no difference to what is read,
\* if something is.
LEMMA MarkIsIgnored ==
  ASSUME NEW doc, NEW bare, bare.lines = doc.lines, ~bare.bom, ParseAuto(doc).ok
  PROVE  ParseAuto(bare) = ParseAuto(doc)
<1>1. /\ Registered[1] = "ass" /\ Registered[2] = "vtt" /\ Registered[3] = "srt"
      /\ Registered[4] = "sub" /\ DOMAIN Registered = 1..4
      /\ 1 \in 1..4 /\ 2 \in 1..4 /\ 3 \in 1..4 /\ 4 \in 1..4
  BY DEF Registered
<1>2. /\ Detects("ass", bare) <=> Detects("ass", doc)
      /\ Detects("vtt", bare) <=> Detects("vtt", doc)
      /\ Detects("srt", bare) <=> Detects("srt", doc)
      /\ Detects("sub", doc) => Detects("sub", bare)
  BY Zenon DEF Detects
<1>3. (\A j \in 1..4 : ~(j < 1)) /\ (\A j \in 1..4 : j < 2 => j = 1)
      /\ (\A j \in 1..4 : j < 3 => j = 1 \/ j = 2) /\ (\A j \in 1..4 : j < 4 => j = 1 \/ j = 2 \/ j = 3)
  OBVIOUS
<1>4. CASE Detects("ass", doc)
  <2>1. ParseAuto(doc) = Parse(Registered[1], doc.lines)
    BY <1>1, <1>3, <1>4, FirstHit
  <2>2. ParseAuto(bare) = Parse(Registered[1], bare.lines)
    BY <1>1, <1>2, <1>3, <1>4, FirstHit
  <2> QED
    BY <2>1, <2>2
<1>5. CASE ~Detects("ass", doc) /\ Detects("vtt", doc)
  <2>1. ParseAuto(doc) = Parse(Registered[2], doc.lines)
    BY <1>1, <1>3, <1>5, FirstHit
  <2>2. ParseAuto(bare) = Parse(Registered[2], bare.lines)
    BY <1>1, <1>2, <1>3, <1>5, FirstHit
  <2> QED
    BY <2>1, <2>2
<1>6. CASE ~Detects("ass", doc) /\ ~Detects("vtt", doc) /\ Detects("srt", doc)
  <2>1. ParseAuto(doc) = Parse(Registered[3], doc.lines)
    BY <1>1, <1>3, <1>6, FirstHit
  <2>2. ParseAuto(bare) = Parse(Registered[3], bare.lines)
    BY <1>1, <1>2, <1>3, <1>6, FirstHit
  <2> QED
    BY <2>1, <2>2
<1>7. CASE /\ ~Detects("ass", doc) /\ ~Detects("vtt", doc) /\ ~Detects("srt", doc)
           /\ Detects("sub", doc)
  <2>1. ParseAuto(doc) = Parse(Registered[4], doc.lines)
    BY <1>1, <1>3, <1>7, FirstHit
  <2>2. ParseAuto(bare) = Parse(Registered[4], bare.lines)
    BY <1>1, <1>2, <1>3, <1>7, FirstHit
  <2> QED
    BY <2>1, <2>2
<1>8. CASE /\ ~Detects("ass", doc) /\ ~Detects("vtt", doc) /\ ~Detects("srt", doc)
           /\ ~Detects("sub", doc)
  <2> DEFINE I == {i \in DOMAIN Registered : Detects(Registered[i], doc)}
  <2>1. I = {}
    <3>1. \A i \in 1..4 : i = 1 \/ i = 2 \/ i = 3 \/ i = 4
      OBVIOUS
    <3> QED
      BY <1>1, <1>8, <3>1
  <2>2. Picked(Registered, {}) = <<>>
    <3>1. IsSeq(Registered)
      <4>1. Registered \in Seq(Formats)
        BY DEF Registered, Formats
      <4> QED
        BY <4>1, SeqOfAny
    <3>2. Cardinality({}) = 0 /\ {} \subseteq DOMAIN Registered
      BY FS_EmptySet
    <3>3. IsSeq(Picked(Registered, {})) /\ Len(Picked(Registered, {})) = Cardinality({})
      BY <3>1, <3>2, PickedFacts
    <3>4. Len(Picked(Registered, {})) = 0
      BY <3>2, <3>3
    <3> QED
      BY <3>3, <3>4, EmptySeqs
  <2>3. ParseAuto(doc) = ParseError
    BY <2>1, <2>2 DEF ParseAuto
  <2> QED
    BY <2>3, Errors
<1> QED
  BY <1>4, <1>5, <1>6, <1>7, <1>8

\* One ASCII character is UTF-8 without a mark.
LEMMA OneByte == <<65>> \in Seq(0..255) /\ AllUtf8(<<65>>) /\ Bom(<<65>>) = "none"
<1> DEFINE data == <<65>>
           chars == [i \in DOMAIN data |-> Utf8Char(data, i)]
<1>1. data \in Seq(0..255) /\ Len(data) = 1 /\ DOMAIN data = 1..1 /\ data[1] = 65
  OBVIOUS
<1> HIDE DEF data
<1>2. Utf8Char(data, 1).size = 1 /\ Utf8Char(data, 1).valid
  <2>1. Utf8Length(data[1]) = 1
    BY <1>1 DEF Utf8Length
  <2>2. PICK n, valid : n = 1 /\ valid = (n > 0 /\ 1 + n - 1 <= Len(data)
                              /\ \A j \in (1 + 1)..(1 + n - 1) : data[j] \in 128..191)
    OBVIOUS
  <2>3. valid
    <3>1. 1 > 0 /\ 1 + 1 - 1 <= Len(data) /\ (1 + 1)..(1 + 1 - 1) = {}
      BY <1>1
    <3> QED
      BY <2>2, <3>1
  <2>4. Utf8Char(data, 1) = [size |-> IF n = 0 THEN 1 ELSE n, valid |-> valid]
    BY <2>1, <2>2 DEF Utf8Char
  <2> QED
    BY <2>2, <2>3, <2>4
<1>3. DOMAIN chars = 1..1 /\ chars = [i \in 1..1 |-> chars[i]] /\ chars[1] = Utf8Char(data, 1)
  BY <1>1
<1>4. Utf8Char(data, 1).valid \in BOOLEAN
  BY DEF Utf8Char
<1> HIDE DEF chars
<1>5. IsSeq(chars) /\ Len(chars) = 1 /\ chars # <<>>
  <2>1. IsSeq(chars) /\ Len(chars) = 1
    BY <1>3, SeqByIndex
  <2> QED
    BY <2>1, EmptySeqs
<1>6. AreChars(chars)
  BY <1>2, <1>3, <1>4, <1>5 DEF AreChars
<1>7. PICK from : /\ \A i \in 1..(Len(chars) + 4) : from[i] = Step(chars, from, i)
                  /\ Scan(chars) = Conf(from[1][1], from[1][2])
  BY <1>5, <1>6, ScanExists
<1>8. from[2] = <<0, 0>>
  <2>1. 2 \in 1..(Len(chars) + 4) /\ 2 > Len(chars)
    BY <1>5
  <2> QED
    BY <1>7, <2>1 DEF Step
<1>9. from[1] = <<from[2][1] + 1, from[2][2] + 1>>
  <2>1. 1 \in 1..(Len(chars) + 4) /\ ~(1 > Len(chars))
    BY <1>5
  <2>2. from[1] = Step(chars, from, 1)
    BY <1>7, <2>1
  <2>3. 1 + chars[1].size = 2 /\ chars[1].valid
    BY <1>2, <1>3
  <2> QED
    BY <2>1, <2>2, <2>3 DEF Step
<1>10. from[1] = <<1, 1>>
  BY <1>8, <1>9
<1>11. Scan(chars).n = Scan(chars).d
  BY <1>7, <1>10 DEF Conf
<1>12. AllUtf8(data)
  BY <1>11 DEF AllUtf8, CheckUtf8, chars
<1>13. Bom(data) = "none"
  <2>1. ~(Len(data) >= 3)
    BY <1>1
  <2> QED
    BY <2>1, Zenon DEF Bom
<1> QED
  BY <1>1, <1>12, <1>13 DEF data

\* A file of valid UTF-8 is read as it was written, whatever else its bytes may look like.
LEMMA ReadAsWritten ==
  ASSUME NEW file, file.written = "utf8", file.data \in Seq(0..255), AllUtf8(file.data)
  PROVE  LET doc == ReadForConversion(file)
         IN  /\ doc.ok /\ doc.lines = file.lines /\ (doc.bom <=> Bom(file.data) = "utf8")
             /\ ParseDecoded(doc) = ParseAuto(doc)
<1>1. DetectEncoding(file.data) = "utf8"
  BY Utf8Detected
<1>2. Decodable("utf8")
  <2>1. SupportedCharsets[1] = "utf8" /\ 1 \in DOMAIN SupportedCharsets
    BY DEF SupportedCharsets
  <2> QED
    BY <2>1 DEF Decodable, ToSet
<1>3. Readable("utf8", "utf8", file.data)
  BY Zenon DEF Readable, DecodesAs
<1>4. PICK doc : doc = ReadForConversion(file)
  OBVIOUS
<1>5. doc = [ok |-> TRUE, bom |-> Bom(file.data) = "utf8", lines |-> file.lines]
  BY <1>1, <1>2, <1>3, <1>4 DEF ReadForConversion, Decode
<1>6. doc.ok /\ doc.lines = file.lines /\ (doc.bom <=> Bom(file.data) = "utf8")
  BY <1>5, Zenon
<1>7. ParseDecoded(doc) = ParseAuto(doc)
  BY <1>6 DEF ParseDecoded
<1> QED
  BY <1>4, <1>6, <1>7

\* What can be expressed in a format can be written in it.
LEMMA ExpressibleCues ==
  ASSUME target \in Formats, NEW e, SmallCues(e), Expressible(e)
  PROVE  Writable(e, TimeLimit(target))
<1>1. PICK n : n = (IF target = "sub" THEN MaxSubMs ELSE Hours100) /\ n = TimeLimit(target)
  BY DEF TimeLimit
<1>2. n \in Nat
  BY <1>1, Limits
<1>3. IsSeq(e) /\ e # <<>> /\ \A i \in DOMAIN e : IsCue(e[i]) /\ Small(e[i].text)
  BY DEF SmallCues, AreCues, Expressible
<1>4. ASSUME NEW i \in DOMAIN e PROVE WritableCue(e[i], n)
  <2>1. /\ \A j \in DOMAIN TextLines(e[i].text) : ~IsBlank(TextLines(e[i].text)[j])
        /\ \A word \in AssWords : ~Contains(e[i].text, word)
    BY DEF Expressible
  <2>2. e[i].start \in 0..(n - 1) /\ e[i].end \in 0..(n - 1)
    BY <1>1 DEF Expressible
  <2>3. e[i].start \in Int /\ e[i].end \in Int
    BY <1>3 DEF IsCue
  <2>4. e[i].start < n /\ e[i].end < n
    BY <1>2, <2>2, <2>3, InRange
  <2>5. Plain(e[i].text)
    BY <1>3, <2>1 DEF Plain, Small, Contains
  <2> QED
    BY <1>3, <2>1, <2>4, <2>5 DEF WritableCue
<1> QED
  BY <1>1, <1>3, <1>4 DEF Writable

\* The bytes of an output are UTF-8 without a mark, so that it is read as it was written.
LEMMA OutputRead ==
  ASSUME NEW data, NEW lines
  PROVE  LET doc == ReadForConversion(Written(data, lines))
         IN  ~doc.bom /\ doc.lines = lines /\ ParseDecoded(doc) = ParseAuto(doc)
<1>1. PICK file : file = Written(data, lines)
  OBVIOUS
<1>2. file.written = "utf8" /\ file.lines = lines /\ (file.data = NonAscii \/ file.data = <<65>>)
  BY <1>1 DEF Written
<1>3. file.data \in Seq(0..255) /\ AllUtf8(file.data) /\ Bom(file.data) = "none"
  BY <1>2, WritingAssumption, OneByte, Zenon
<1> QED
  BY <1>1, <1>2, <1>3, ReadAsWritten

\* The cues of a text that is converted, written and read back.
LEMMA RoundTrip ==
  ASSUME target \in Formats, NEW file, IsDocument(file.lines), file.written = "utf8",
         file.data \in Seq(0..255), AllUtf8(file.data),
         Converted(file).ok, Expressible(Converted(file).entries), NEW data
  PROVE  LET meant == ParseAuto([bom |-> FALSE, lines |-> file.lines])
             out   == Written(data, Serialize(target, Converted(file).entries))
             back  == ParseDecoded(ReadForConversion(out))
         IN  /\ back.ok /\ back.format = target /\ AreCues(meant.entries)
             /\ Restored(meant.entries, back.entries, GrainOf(target))
<1>1. PICK doc : doc = ReadForConversion(file)
  OBVIOUS
<1>2. doc.lines = file.lines /\ ParseDecoded(doc) = ParseAuto(doc)
  BY <1>1, ReadAsWritten
<1>3. PICK sub : sub = ParseAuto(doc)
  OBVIOUS
<1>4. IsSubtitle(sub) /\ SmallCues(sub.entries)
  BY <1>2, <1>3, AutoParsed, AutoSmall
<1>5. PICK result : result = Converted(file)
  OBVIOUS
<1>6. result = Transform(sub, target, preserve)
  BY <1>1, <1>2, <1>3, <1>5 DEF Converted
<1>7. sub.ok /\ SameCues(sub.entries, result.entries)
  BY <1>4, <1>5, <1>6, TransformedCues
<1>8. PICK e, f : e = sub.entries /\ f = result.entries
  OBVIOUS
<1>9. Writable(f, TimeLimit(target))
  BY <1>5, <1>7, <1>8, ExpressibleCues DEF SameCues
<1>10. PICK meant : meant = ParseAuto([bom |-> FALSE, lines |-> file.lines])
  OBVIOUS
<1>11. meant = sub
  <2>1. PICK bare : bare = [bom |-> FALSE, lines |-> file.lines]
    OBVIOUS
  <2>2. bare.lines = doc.lines /\ ~bare.bom
    BY <1>2, <2>1
  <2> QED
    BY <1>3, <1>7, <1>10, <2>1, <2>2, MarkIsIgnored
<1>12. PICK lines : lines = Serialize(target, f)
  OBVIOUS
<1>13. PICK plain : plain = [bom |-> FALSE, lines |-> lines]
  OBVIOUS
<1>14. PICK again : again = ParseAuto(plain)
  OBVIOUS
<1>15. again.ok /\ again.format = target /\ Restored(f, again.entries, GrainOf(target))
  BY <1>9, <1>12, <1>13, <1>14, WrittenIsReadBack
<1>16. PICK read : read = ReadForConversion(Written(data, lines))
  OBVIOUS
<1>17. ParseDecoded(read) = again
  <2>1. ~read.bom /\ read.lines = lines /\ ParseDecoded(read) = ParseAuto(read)
    BY <1>16, OutputRead
  <2>2. plain.lines = lines
    BY <1>13
  <2> QED
    BY <1>14, <1>15, <2>1, <2>2, MarkIsIgnored
<1>18. Restored(e, again.entries, GrainOf(target))
  <2>1. Len(f) = Len(e) /\ IsSeq(f) /\ IsSeq(e)
    BY <1>4, <1>7, <1>8 DEF SameCues, SmallCues, AreCues
  <2>2. DOMAIN e = DOMAIN f
    BY <2>1, SeqFacts
  <2> QED
    BY <1>7, <1>8, <1>15, <2>1, <2>2 DEF Restored, SameCues
<1> QED
  BY <1>4, <1>5, <1>8, <1>10, <1>11, <1>12, <1>15, <1>16, <1>17, <1>18 DEF SmallCues

-----------------------------------------------------------------------------
\* What a batch converts was there from the beginning.
OriginInv ==
  /\ origin \in InitialFiles
  /\ \A p \in DOMAIN task : p.synced \/ p \in DOMAIN origin

LEMMA OriginInit == Init => OriginInv
<1> SUFFICES ASSUME Init PROVE OriginInv
  OBVIOUS
<1>1. DOMAIN task = {}
  BY EmptySeqs DEF Init
<1> QED
  BY <1>1 DEF Init, OriginInv

LEMMA OriginNext ==
  ASSUME BatchInv, OriginInv, [Next]_vars
  PROVE  OriginInv'
<1>1. CASE \E root \in DOMAIN Within, recursive \in BOOLEAN : StartBatch(root, recursive)
  <2>1. PICK root, recursive : StartBatch(root, recursive)
    BY <1>1
  <2> DEFINE D == {m.path : m \in Range(OfType(ScanDirectory(root, recursive), "Subtitle"))}
             t == [pc |-> "queued", result |-> ParseError, data |-> <<>>, torn |-> FALSE,
                   success |-> FALSE]
  <2>2. task' = [p \in D |-> t] /\ task = <<>> /\ origin' = origin
    BY <2>1 DEF StartBatch
  <2>3. D \subseteq DOMAIN fs
    BY ScannedFiles DEF BatchInv, FilesKept
  <2> HIDE DEF D, t
  <2> QED
    BY <2>2, <2>3 DEF BatchInv, FilesKept, OriginInv
<1>2. ASSUME NEW p \in DOMAIN task,
             Acquire(p) \/ ReadInput(p) \/ TruncateOutput(p) \/ WriteOutput(p) \/ WriteFails(p)
      PROVE  OriginInv'
  <2>1. origin' = origin
    BY <1>2 DEF Acquire, ReadInput, TruncateOutput, WriteOutput, WriteFails
  <2>2. \E t : task' = [task EXCEPT ![p] = t]
    BY <1>2 DEF Acquire, ReadInput, TruncateOutput, WriteOutput, WriteFails
  <2>3. DOMAIN task' = DOMAIN task
    BY <2>2
  <2> QED
    BY <2>1, <2>3 DEF OriginInv
<1>3. ASSUME UNCHANGED <<origin, task>> PROVE OriginInv'
  BY <1>3 DEF OriginInv
<1>4. ASSUME \/ \E req \in Requests : LoadSample(req)
             \/ LoadContent
             \/ \E heard \in {Heard(media) : media \in Audio}, method \in Methods :
                  DetectOffset(heard, method) \/ DetectFails(heard, method)
             \/ \E off \in Offsets : ShiftTiming(off)
             \/ sync.found /\ ApplyManualOffset(sync.off)
             \/ SortCues
             \/ SaveTruncate
             \/ SaveWrite
             \/ UNCHANGED vars
      PROVE  UNCHANGED <<origin, task>>
  BY <1>4 DEF LoadSample, LoadContent, DetectOffset, DetectFails, ShiftTiming, ApplyManualOffset,
              SortCues, SaveTruncate, SaveWrite, vars
<1> QED
  BY <1>1, <1>2, <1>3, <1>4 DEF Next

LEMMA OriginFiles ==
  ASSUME OriginInv, NEW p \in DOMAIN origin
  PROVE  IsDocument(origin[p].lines) /\ origin[p].data \in Seq(0..255)
<1>1. origin[p].lines \in Seq(Lines) /\ origin[p].data \in Seq(0..255)
  BY FilesAssumption DEF OriginInv
<1> QED
  BY <1>1, LinesDocument

\* What a batch reports as converted can be read back: with the same cues, the same
\* words, and times that differ by less than the target format tells apart
\* (FormatConverter::convert_file with the serializers, parsers and the detection of
\* formats and charsets).
THEOREM ConversionsKeepCues == Spec => []ConversionKeepsCues
<1>1. CuesInv /\ OriginInv => ConversionKeepsCues
  <2> SUFFICES ASSUME CuesInv, OriginInv, NEW p \in Own, task[p].pc = "ok",
                      origin[p].written = "utf8", AllUtf8(origin[p].data),
                      Expressible(task[p].result.entries)
               PROVE  LET meant == ParseAuto([bom |-> FALSE, lines |-> origin[p].lines])
                          back  == ParseDecoded(ReadForConversion(fs[Output(p)]))
                      IN  /\ back.ok /\ back.format = target
                          /\ Len(back.entries) = Len(meant.entries)
                          /\ \A i \in DOMAIN meant.entries :
                               /\ Words(back.entries[i].text) = Words(meant.entries[i].text)
                               /\ Near(back.entries[i].start, meant.entries[i].start)
                               /\ Near(back.entries[i].end, meant.entries[i].end)
    BY DEF ConversionKeepsCues
  <2>1. p \in DOMAIN task /\ ~p.synced /\ p \in DOMAIN origin
    BY DEF Own, OriginInv
  <2>2. TaskSound(p) /\ target \in Formats
    BY <2>1, EmptySeqs DEF CuesInv, BatchInv, DocumentsInv
  <2>3. PICK file : file = origin[p]
    OBVIOUS
  <2>4. IsDocument(file.lines) /\ file.data \in Seq(0..255)
    BY <2>1, <2>3, OriginFiles
  <2>5. /\ Converted(file).ok /\ Expressible(Converted(file).entries)
        /\ fs[Output(p)] = Written(task[p].data, Serialize(target, Converted(file).entries))
    BY <2>2, <2>3 DEF TaskSound
  <2>6. PICK meant : meant = ParseAuto([bom |-> FALSE, lines |-> file.lines])
    OBVIOUS
  <2>7. PICK back : back = ParseDecoded(ReadForConversion(fs[Output(p)]))
    OBVIOUS
  <2>8. /\ back.ok /\ back.format = target
        /\ Restored(meant.entries, back.entries, GrainOf(target))
    BY <2>2, <2>3, <2>4, <2>5, <2>6, <2>7, RoundTrip
  <2>9. \A t, u : Close(t, u, GrainOf(target)) => Near(t, u)
    BY Zenon DEF Close, Near, GrainOf, Grain
  <2> QED
    BY <2>3, <2>6, <2>7, <2>8, <2>9 DEF Restored
<1>2. CuesInv /\ OriginInv /\ [Next]_vars => OriginInv'
  BY OriginNext DEF CuesInv
<1> QED
  BY <1>1, <1>2, CuesInvariant, OriginInit, PTL DEF Spec
=============================================================================
