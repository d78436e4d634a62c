--------------------------- MODULE SubtitleFormats ---------------------------
(* The subtitle formats of src/core/formats: what each parser reads from the  *)
(* lines of a document, what each serializer writes, how a subtitle of one    *)
(* format is transformed into another, and which format parse_auto chooses.   *)
(*                                                                            *)
(* A cue's text is a sequence of tokens: words, the newline "nl", the tags of *)
(* SRT/VTT and of ASS, the bar that SUB uses for a newline, and the words by  *)
(* which a document is taken for ASS.  A document is the sequence of its      *)
(* lines (after line endings are normalised); a line is a record of its kind, *)
(* two numbers (an index, the digits of times, or frames) and a text.         *)
EXTENDS Integers, Sequences, SequencesExt, Selection

Formats == {"ass", "vtt", "srt", "sub"}

HtmlTags == {"<b>", "</b>"}
AssTags  == {"{b1}", "{b0}"}

Hours100 == 360000000       \* 100 h: the first time with a three-digit hour
MaxSubMs == 86400000        \* MAX_DURATION_MS, 24 h
FrameMs  == 40              \* one frame at DEFAULT_SUB_FPS = 25

\* A time of SRT, HH:MM:SS,mmm, is the number its digits make; so is one of VTT,
\* HH:MM:SS.mmm, and one of ASS, H:MM:SS.cc, which is cut, not rounded.
FormatDuration(ms) ==
  (ms \div 3600000) * 10000000 + ((ms % 3600000) \div 60000) * 100000 + (ms % 60000)
ParseTime(digits) ==
  (digits \div 10000000) * 3600000 + ((digits % 10000000) \div 100000) * 60000 + (digits % 100000)

FormatVttTime(ms) == FormatDuration(ms)
ParseVttTime(digits) == ParseTime(digits)

FormatAssTime(ms) ==
  (ms \div 3600000) * 1000000 + ((ms % 3600000) \div 60000) * 10000 + (ms % 60000) \div 10
ParseAssTime(digits) ==
  (digits \div 1000000) * 3600000 + ((digits % 1000000) \div 10000) * 60000 + (digits % 10000) * 10

TwoDigitHours == 1000000000 \* digits of a time with a two-digit hour are below

Line(kind, a, b, text) == [k |-> kind, a |-> a, b |-> b, t |-> text]
TextLine(text) == Line("text", 0, 0, text)
Mark(kind)     == Line(kind, 0, 0, <<>>)
Blank          == TextLine(<<>>)
IsBlank(line)  == line = Blank

Entry(index, start, end, text) ==
  [index |-> index, start |-> start, end |-> end, text |-> text]

\* overlaps_with; has_overlaps, which looks at neighbours only.
OverlapsWith(e, f) == e.start < f.end /\ f.start < e.end
HasOverlaps(entries) == \E i \in 2..Len(entries) : entries[i].start < entries[i - 1].end

Subtitle(format, entries) == [ok |-> TRUE, format |-> format, entries |-> entries]
ParseError == [ok |-> FALSE, format |-> "none", entries |-> <<>>]

\* Replace(t, from, to): every occurrence of a token replaced, as str::replace.
Replace(text, from, to) == [i \in DOMAIN text |-> IF text[i] = from THEN to ELSE text[i]]
Strip(text, tags) == Picked(text, {i \in DOMAIN text : text[i] \notin tags})

\* The pieces of a sequence between the positions of I, which are left out, as
\* str::split cuts a text.
Pieces(s, I) ==
  [k \in 1..(Cardinality(I) + 1) |->
     SubSeq(s, IF k = 1 THEN 1 ELSE Nth(I, k - 1) + 1,
               IF k = Cardinality(I) + 1 THEN Len(s) ELSE Nth(I, k) - 1)]

\* The lines a text is written on: an empty text still takes one (empty) line.
TextLines(text) ==
  LET pieces == Pieces(text, {i \in DOMAIN text : text[i] = "nl"})
  IN  [k \in DOMAIN pieces |-> TextLine(pieces[k])]

\* lines.join("\n").
JoinLines(lines) == Tail(FlattenSeq([i \in DOMAIN lines |-> <<"nl">> \o lines[i].t]))

-----------------------------------------------------------------------------
(* Blocks of SRT and VTT                                                     *)

\* content.split("\n\n"): a blank line ends a block unless it is the block's
\* first line, since its newline then belongs to the separator before it.
Blocks(lines) ==
  LET ends[i \in DOMAIN lines] == IsBlank(lines[i]) /\ i > 1 /\ ~ends[i - 1]
  IN  Pieces(lines, {i \in DOMAIN lines : ends[i]})

AllBlank(block) == \A i \in DOMAIN block : IsBlank(block[i])

\* A cue above MAX_CUE_BYTES is one whose text holds the token "huge".
Oversized(lines) == \E i \in DOMAIN lines : Contains(lines[i].t, "huge")

Indexed(entries) == [i \in DOMAIN entries |-> [entries[i] EXCEPT !.index = i]]

\* sort_entries: a stable sort by start time, after which the cues are numbered.
SortEntries(entries) ==
  LET before(i, j) == \/ entries[i].start < entries[j].start
                      \/ entries[i].start = entries[j].start /\ i < j
      ranked(n) == CHOOSE i \in DOMAIN entries :
                     Cardinality({j \in DOMAIN entries : before(j, i)}) = n - 1
  IN  Indexed([n \in DOMAIN entries |-> entries[ranked(n)]])

-----------------------------------------------------------------------------
(* SRT                                                                       *)

\* The block's entry, if it has one.  The time pattern is not anchored: of a
\* start of 100 h and more it sees the last two digits of the hours, and an end
\* of 100 h and more does not match.
SrtEntry(block) ==
  IF /\ Len(block) >= 3
     /\ block[1].k = "index"
     /\ block[2].k = "srtTime"
     /\ block[2].a \in Nat /\ block[2].b \in 0..(TwoDigitHours - 1)
  THEN <<Entry(block[1].a, ParseTime(block[2].a % TwoDigitHours), ParseTime(block[2].b),
               JoinLines(SubSeq(block, 3, Len(block))))>>
  ELSE <<>>

ParseSrt(lines) ==
  LET blocks == Blocks(lines)
  IN  IF lines = <<>> \/ Oversized(lines) THEN ParseError
      ELSE Subtitle("srt", FlattenSeq([i \in DOMAIN blocks |-> SrtEntry(blocks[i])]))

SerializeSrt(entries) ==
  FlattenSeq([i \in DOMAIN entries |->
    <<Line("index", i, 0, <<>>),
      Line("srtTime", FormatDuration(entries[i].start), FormatDuration(entries[i].end), <<>>)>>
      \o TextLines(entries[i].text) \o <<Blank>>])

DetectSrt(lines) ==
  \E i \in DOMAIN lines : lines[i].k = "srtTime" /\ lines[i].b \in 0..(TwoDigitHours - 1)

-----------------------------------------------------------------------------
(* VTT                                                                       *)

\* block.trim() removes the blank lines at both ends.
Trim(block) ==
  LET full == {i \in DOMAIN block : ~IsBlank(block[i])}
  IN  IF full = {} THEN <<>>
      ELSE SubSeq(block, CHOOSE i \in full : \A j \in full : i <= j,
                         CHOOSE i \in full : \A j \in full : j <= i)

IsVttTime(line) ==
  line.k = "vttTime" /\ {line.a, line.b} \subseteq 0..(TwoDigitHours - 1)

NoCue(block) == block = <<>> \/ block[1].k \in {"WEBVTT", "NOTE", "STYLE"}

\* A first line that is no time is an identifier, and the time is expected next.
VttEntry(raw) ==
  LET block == Trim(raw)
      at    == IF NoCue(block) \/ IsVttTime(block[1]) THEN 1 ELSE 2
  IN  IF ~NoCue(block) /\ at <= Len(block) /\ IsVttTime(block[at])
      THEN <<Entry(0, ParseVttTime(block[at].a), ParseVttTime(block[at].b),
                   IF at = Len(block) THEN <<>>
                   ELSE JoinLines(SubSeq(block, at + 1, Len(block))))>>
      ELSE <<>>

DetectVtt(lines) == Trim(lines) # <<>> /\ Trim(lines)[1].k = "WEBVTT"

ParseVtt(lines) ==
  LET blocks == Blocks(lines)
  IN  IF \/ ~DetectVtt(lines)
         \/ \E i \in DOMAIN blocks : ~NoCue(Trim(blocks[i])) /\ Oversized(blocks[i])
      THEN ParseError
      ELSE Subtitle("vtt",
             Indexed(FlattenSeq([i \in DOMAIN blocks |-> VttEntry(blocks[i])])))

SerializeVtt(entries) ==
  <<Mark("WEBVTT"), Blank>> \o
  FlattenSeq([i \in DOMAIN entries |->
    <<Line("index", entries[i].index, 0, <<>>),
      Line("vttTime", FormatVttTime(entries[i].start), FormatVttTime(entries[i].end), <<>>)>>
      \o TextLines(entries[i].text) \o <<Blank>>])

-----------------------------------------------------------------------------
(* ASS                                                                       *)

AssWords == {"[Script Info]", "Dialogue:"}

DetectAss(lines) ==
  \E i \in DOMAIN lines : \/ lines[i].k \in {"script", "dialogue", "shortRow", "badTime"}
                          \/ \E word \in AssWords : Contains(lines[i].t, word)

\* Section headers open and close the events; a Format line among them counts until
\* the next one, and one without Start, End or Text (a = 0) is an error for the first
\* row that needs it.  Rows with too few columns or a negative time are skipped,
\* rows with a malformed time or an oversized text are errors.
InEvents(lines, i) ==
  LET headers == {j \in 1..(i - 1) : lines[j].k \in {"events", "script", "styles"}}
  IN  \E j \in headers : lines[j].k = "events" /\ \A h \in headers : h <= j

FormatLines(lines, i) == {j \in 1..(i - 1) : lines[j].k = "format" /\ InEvents(lines, j)}

IsRow(lines, i) ==
  lines[i].k \in {"dialogue", "badTime"} /\ InEvents(lines, i) /\ FormatLines(lines, i) # {}

Skipped(line) == ~({line.a, line.b} \subseteq Nat)

RowFails(lines, i) ==
  \/ \E j \in FormatLines(lines, i) : lines[j].a = 0 /\ \A h \in FormatLines(lines, i) : h <= j
  \/ ~Skipped(lines[i]) /\ (lines[i].k = "badTime" \/ Contains(lines[i].t, "huge"))

ParseAss(lines) ==
  LET rows == {i \in DOMAIN lines : IsRow(lines, i)}
      kept == Picked(lines, {i \in rows : ~Skipped(lines[i])})
  IN  IF \/ AllBlank(lines) \/ \A i \in DOMAIN lines : lines[i].k # "events"
         \/ \E i \in rows : RowFails(lines, i)
      THEN ParseError
      ELSE Subtitle("ass", [n \in DOMAIN kept |->
             Entry(n, ParseAssTime(kept[n].a), ParseAssTime(kept[n].b),
                   Replace(kept[n].t, "\\N", "nl"))])

SerializeAss(entries) ==
  <<Mark("script"), Blank, Mark("styles"), Line("format", 0, 0, <<>>), Blank,
    Mark("events"), Line("format", 1, 0, <<>>)>> \o
  [i \in DOMAIN entries |->
     Line("dialogue", FormatAssTime(entries[i].start), FormatAssTime(entries[i].end),
          Replace(entries[i].text, "nl", "\\N"))]

-----------------------------------------------------------------------------
(* SUB (MicroDVD)                                                            *)

ToFrame(ms) == (ms + FrameMs \div 2) \div FrameMs
FromFrame(frame) == frame * FrameMs

SubEntry(line) ==
  IF /\ line.k = "sub"
     /\ {FromFrame(line.a), FromFrame(line.b)} \subseteq 0..MaxSubMs
  THEN <<Entry(0, FromFrame(line.a), FromFrame(line.b), Replace(line.t, "|", "nl"))>>
  ELSE <<>>

ParseSub(lines) ==
  IF lines = <<>> \/ \E i \in DOMAIN lines : lines[i].k = "sub" /\ Oversized(<<lines[i]>>)
  THEN ParseError
  ELSE Subtitle("sub", Indexed(FlattenSeq([i \in DOMAIN lines |-> SubEntry(lines[i])])))

SerializeSub(entries) ==
  [i \in DOMAIN entries |->
     Line("sub", ToFrame(entries[i].start), ToFrame(entries[i].end),
          Replace(entries[i].text, "nl", "|"))]

DetectSub(lines) == Trim(lines) # <<>> /\ Trim(lines)[1].k = "sub"

-----------------------------------------------------------------------------
(* FormatManager and FormatConverter                                         *)

\* The formats in the order of their registration.
Registered == <<"ass", "vtt", "srt", "sub">>

\* A leading byte-order mark is stripped by the parsers of ASS, VTT and SRT; it
\* keeps the pattern of SUB from matching.
Detects(format, doc) ==
  CASE format = "ass" -> DetectAss(doc.lines)
    [] format = "vtt" -> DetectVtt(doc.lines)
    [] format = "srt" -> DetectSrt(doc.lines)
    [] format = "sub" -> ~doc.bom /\ DetectSub(doc.lines)

Parse(format, lines) ==
  CASE format = "ass" -> ParseAss(lines)
    [] format = "vtt" -> ParseVtt(lines)
    [] format = "srt" -> ParseSrt(lines)
    [] format = "sub" -> ParseSub(lines)

\* get_format_by_extension: two extensions are of one format.
ByExtension(ext) == IF ext = "ssa" THEN "ass" ELSE ext

\* parse_auto: the first format that recognises the document parses it.
ParseAuto(doc) ==
  LET hits == Picked(Registered, {i \in DOMAIN Registered : Detects(Registered[i], doc)})
  IN  IF hits = <<>> THEN ParseError ELSE Parse(hits[1], doc.lines)

Serialize(format, entries) ==
  CASE format = "srt" -> SerializeSrt(entries)
    [] format = "vtt" -> SerializeVtt(entries)
    [] format = "ass" -> SerializeAss(entries)
    [] format = "sub" -> SerializeSub(entries)

MapText(entries, Op(_)) == [i \in DOMAIN entries |-> [entries[i] EXCEPT !.text = Op(@)]]

ConvertSrtTagsToAss(text) == Replace(Replace(text, "<b>", "{b1}"), "</b>", "{b0}")
StripAssTags(text) == Strip(text, AssTags)
StripVttTags(text) == Strip(text, HtmlTags)

\* ass_to_srt strips every ASS tag before convert_ass_tags_to_srt looks for one,
\* so preserve_styling changes nothing there; SRT and VTT share their tags.
VttToSrt(text, preserve) == IF preserve THEN text ELSE StripVttTags(text)

\* transform_subtitle: the pairs that are supported, and what they do to a text.
Supported(source, target) ==
  source = target \/ {source, target} \subseteq {"srt", "ass", "vtt"}

Transform(sub, target, preserve) ==
  LET text(t) ==
        CASE sub.format = target -> t
          [] sub.format = "srt" /\ target = "ass" -> ConvertSrtTagsToAss(t)
          [] sub.format = "srt" /\ target = "vtt" -> t
          [] sub.format = "ass" /\ target # "ass" -> StripAssTags(t)
          [] sub.format = "vtt" /\ target = "srt" -> VttToSrt(t, preserve)
          [] sub.format = "vtt" /\ target = "ass" -> ConvertSrtTagsToAss(VttToSrt(t, preserve))
  IN  IF sub.ok /\ Supported(sub.format, target)
      THEN Subtitle(target, MapText(sub.entries, text))
      ELSE ParseError
=============================================================================
