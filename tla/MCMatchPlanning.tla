--------------------------- MODULE MCMatchPlanning ---------------------------
(* Two videos of one name in two directories, a subtitle beside the first and *)
(* one elsewhere, a file that is no media; answers that pair them well, pair  *)
(* both subtitles with one video, use an identifier that does not exist and   *)
(* carry suffixes and languages of every kind.                                *)
EXTENDS MatchPlanning

F(d, stem, ext) == [dir |-> d, stem |-> stem, tag |-> NoTag, num |-> 0, ext |-> ext]
V1 == F(1, "ep", "mkv")
V2 == F(2, "ep", "mkv")
S1 == F(1, "sub", "srt")
S2 == F(3, "sub", "srt")
Txt == F(1, "ep", "txt")
Nowhere == F(9, "none", "srt")

MCInputs == <<V1, V2, S1, S2, Txt>>
Marks(dot, hyphen) == [dot |-> dot, underscore |-> NoTag, hyphen |-> hyphen]
MCShown ==
  [p \in {S1, S2} |->
     IF p = S2 THEN [dirs |-> <<Plain("subs"), [word |-> "english", kind |-> "upper"]>>,
                    marks |-> Marks(Plain("tc"), NoTag)]
     ELSE [dirs |-> <<Plain("subs")>>, marks |-> Marks(Plain("english"), [word |-> "en", kind |-> "upper"])]]
MCFresh == [size |-> 1, sec |-> 1, frac |-> 1]
MCVersions == {MCFresh, [size |-> 1, sec |-> 1, frac |-> 2],
               [size |-> 2, sec |-> 2, frac |-> 1]}

Und == [word |-> "und", kind |-> "upper"]
Dirty == [word |-> "../x", kind |-> "unsafe"]
Native == [word |-> "fanzhong", kind |-> "native"]
M(v, s, conf, suffix, lang) ==
  [v |-> v, s |-> s, confidence |-> conf, suffix |-> suffix, language |-> lang]

MCAnswers ==
  { <<M(V1, S1, 9, NoTag, NoTag), M(V2, S2, 9, Dirty, NoTag)>>,
    <<M(V2, S1, 9, NoTag, Und), M(V2, S2, 9, Plain("traditional-chinese"), Dirty)>>,
    <<M(V2, S2, 5, Plain("tc"), NoTag), M(V2, S1, 9, Native, Native)>>,
    <<M(V1, Nowhere, 9, NoTag, NoTag), M(S1, S2, 9, NoTag, NoTag), M(V1, S2, 9, NoTag, NoTag)>> }

C(mode, backup, threshold, analysis) ==
  [mode |-> mode, backup |-> backup, threshold |-> threshold, analysis |-> analysis]
MCConfigs == {C("None", FALSE, 8, TRUE), C("Copy", FALSE, 8, FALSE), C("Move", TRUE, 4, TRUE)}
=============================================================================
