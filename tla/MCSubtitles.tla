---------------------------- MODULE MCSubtitles ----------------------------
(* Small documents, every pair of which may lie in the converted directory.  *)
EXTENDS Subtitles

P(d, s, e) == [dir |-> d, stem |-> s, ext |-> e, synced |-> FALSE]
F(data, written, lines) == [data |-> data, written |-> written, lines |-> lines]
Plain(lines) == F(<<65>>, "utf8", lines)

MCNonAscii == <<228, 184, 173, 228, 184, 173>>
Gbk == <<214, 208>>

\* Two cues, the second with a tag and a line break, the times not on a grid.
Two == <<Entry(1, 1234, 2509, <<"w">>), Entry(2, 3000, 4019, <<"<b>", "v", "</b>", "nl", "w">>)>>
\* Cues out of order; a cue without text before another; a bar in the text.
Back  == <<Entry(1, 160, 200, <<"w">>), Entry(2, 40, 120, <<"v", "|", "w">>)>>
Empty == <<Entry(1, 0, 40, <<>>), Entry(2, 80, 120, <<"w">>)>>

SrtDocs ==
  {Plain(SerializeSrt(Two)), Plain(SerializeSrt(Empty)), F(<<239, 187, 191>> \o MCNonAscii, "utf8", SerializeSrt(Back)),
   F(MCNonAscii, "utf8", SerializeSrt(Back)), F(Gbk, "gbk", SerializeSrt(Back)),
   F(<<255, 254, 65>>, "utf16le", SerializeSrt(Back)),
   Plain(SerializeSrt(<<Entry(1, Hours100, Hours100 + 1, <<"w">>), Entry(2, 0, 1, <<"Dialogue:", "w">>)>>)),
   Plain(SerializeSrt(<<Entry(1, 0, 40, <<"[Script Info]", "w">>)>>)),
   Plain(<<TextLine(<<"w">>), Blank, Line("index", 7, 0, <<>>), Line("srtTime", -1, 5, <<>>), TextLine(<<"w">>), Blank,
           Line("index", 8, 0, <<>>), Line("srtTime", 3, 5, <<>>), TextLine(<<"v">>)>>),
   Plain(<<Line("index", 1, 0, <<>>), Line("srtTime", 3, 5, <<>>), TextLine(<<"huge">>)>>)}
VttDocs ==
  {Plain(SerializeVtt(Two)),
   Plain(<<Mark("WEBVTT"), Blank, Mark("NOTE"), TextLine(<<"huge">>), Blank, Line("vttTime", 3, 5, <<>>), TextLine(<<"v">>),
           Blank, Blank, Line("index", 9, 0, <<>>), Line("vttTime", FormatVttTime(Hours100), 5, <<>>), TextLine(<<"w">>)>>)}
AssDocs ==
  {Plain(SerializeAss(MapText(Two, ConvertSrtTagsToAss))),
   Plain(<<Mark("events"), Line("dialogue", 1, 2, <<"v">>), Line("format", 1, 0, <<>>), Line("dialogue", 5, 9, <<"w", "\\N", "\\N", "v">>),
           Mark("shortRow"), Line("dialogue", -5, 9, <<"w">>), Line("dialogue", 7, 8, <<"{b1}", "{b0}">>), Line("dialogue", 9, 12, <<"v">>)>>),
   Plain(<<Mark("events"), Line("format", 0, 0, <<>>), Line("dialogue", 5, 9, <<"w">>)>>),
   Plain(<<Mark("events"), Line("format", 1, 0, <<>>), Line("badTime", 5, 9, <<"w">>)>>),
   Plain(<<Mark("script"), Line("dialogue", 5, 9, <<"w">>)>>)}
SubDocs ==
  {Plain(SerializeSub(Two)), F(<<239, 187, 191, 65>>, "utf8", SerializeSub(Two)),
   Plain(<<Line("sub", 1, 2160001, <<"w">>), TextLine(<<"v">>), Line("sub", 2, 3, <<"v">>)>>)}

Docs(ext) == CASE ext = "srt" -> SrtDocs [] ext = "vtt" -> VttDocs [] ext = "ass" -> AssDocs [] ext = "sub" -> SubDocs

Video == F(<<0>>, "utf8", <<>>)
Single == UNION {{P("d1", "a", e) :> d @@ P("d1", "a", "mkv") :> Video : d \in Docs(e)} : e \in Formats}
Small(e) == LET f == IF e = "ssa" THEN "ass" ELSE e IN {Plain(Serialize(f, Two)), Plain(Serialize(f, Back))}
MCWithin == [d \in {"d1"} |-> {"d2"}]
Pairs == UNION {{p :> x @@ q :> y : x \in Small(p.ext), y \in Small(q.ext)} :
                p \in {P("d1", "c", "srt"), P("d1", "c", "vtt")},
                q \in {P("d1", "c", "ass"), P("d2", "c", "srt"), P("d1", "b", "srt"), P("d1", "b", "vtt"), P("d1", "b", "ssa")}}
MCInitialFiles == Single \cup Pairs

Vad(enabled, method) == [enabled |-> enabled, default_method |-> method]
Req(pos, manual, vad) == [positional |-> pos, batch |-> FALSE, video |-> <<>>, subtitle |-> <<>>, manual |-> manual,
                          vad |-> vad]
MCRequests ==
  {Req(<<P("d1", "a", "mkv")>>, FALSE, Vad(TRUE, "vad")), Req(<<P("d1", "a", "srt")>>, TRUE, Vad(FALSE, "vad")),
   Req(<<P("d1", "a", "vtt"), P("d1", "a", "mkv")>>, FALSE, Vad(TRUE, "manual")),
   Req(<<P("d1", "a", "sub"), P("d1", "a", "mkv")>>, FALSE, Vad(FALSE, "vad"))}
\* Silence (0) and speech (1), block by block.
Sound(bits) == [i \in DOMAIN bits |-> bits[i] = 1]
Sounds(n, bit) == [i \in 1..n |-> bit]
T(rate, channels) == [rate |-> rate, channels |-> channels, codec |-> TRUE, timeBase |-> TRUE]
Packet(track, ts, bits) == [track |-> track, ts |-> ts, decodes |-> TRUE, sound |-> Sound(bits)]
Media(tracks, packets) == [size |-> 1, slow |-> FALSE, tracks |-> tracks, packets |-> packets]

\* A word and then a longer speech, at 16 kHz, in a track that does not tell its
\* channels.
Words2 == Sounds(4, 0) \o Sounds(4, 1) \o Sounds(2, 0) \o Sounds(8, 1)
Plain16 == Media(<<T(16000, 0)>>, <<Packet(1, 0, Words2)>>)
\* A picture, stereo at 48 kHz with music in the second channel, a commentary.
Film   == [Media(<<T(0, 0), T(48000, 2), T(16000, 1)>>,
                <<Packet(1, 0, <<1>>), Packet(3, 0, Sounds(9, 1)),
                  Packet(2, 0, [i \in 1..12 |-> (i + 1) % 2]),
                  Packet(2, 6, Sounds(48, 1))>>) EXCEPT !.slow = TRUE]
\* At 8 kHz, two packets, so that two channels are inferred of one.
Guess  == Media(<<T(8000, 0)>>, <<Packet(1, 0, Sounds(4, 0)), Packet(1, 2, Sounds(6, 1))>>)
\* The ones that cannot be analysed.
Bad == {[Plain16 EXCEPT !.size = 3], Media(<<>>, <<>>), [Plain16 EXCEPT !.packets[1].decodes = FALSE],
        Media(<<T(16000, 1)>>, <<Packet(1, 0, <<1, 0>>)>>)}
MCAudio == {Plain16, Film, Guess} \cup Bad
\* Of the documents' times those from 3 s on are too late for the second one.
MCOffsets == {-100, 400000000 - 3000}
=============================================================================
