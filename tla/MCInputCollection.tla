-------------------------- MODULE MCInputCollection --------------------------
(* Two directories with subtitles, links and archives, and archives that are  *)
(* fine, at and over the limits, hold one path twice, a path through a file,  *)
(* links of both kinds, directories and paths that lead out of the archive.   *)
EXTENDS InputCollection, TLC

N(s, e) == [stem |-> s, ext |-> e]
D == N("d", "")
Sub == N("sub", "")
X == N("x", "")
D1 == <<D>>
D2 == <<D, Sub>>
A1 == <<D, N("a", "zip")>>
A2 == <<D, Sub, N("b", "rar")>>
A3 == <<D, N("c", "tgz")>>
A4 == <<D, N("e", "7z")>>
A5 == <<N("o", ""), N("f", "7z")>>
A6 == <<N("o", ""), N("g", "zip")>>
S1 == <<D, N("a", "srt")>>
S2 == <<D, Sub, N("a", "srt")>>
L1 == <<D, Sub, N("l", "srt")>>
T1 == <<D, N("a", "txt")>>

MCTree == [p \in {D1, D2} |-> "dir"] @@ [p \in {L1} |-> "symlink"]
          @@ [p \in {A1, A2, A3, A4, A5, A6, S1, S2, T1} |-> "file"]

E(kind, path, size) == [kind |-> kind, path |-> path, size |-> size, escapes |-> FALSE]
Out(path, size) == [E("file", path, size) EXCEPT !.escapes = TRUE]

MCEntries ==
  (A1 :> <<E("file", <<N("a", "srt")>>, 1), E("symlink", <<N("l", "srt")>>, 9),
           E("file", <<X, N("a", "srt")>>, 1), E("file", <<N("a", "txt")>>, 1)>>)
  @@ (A2 :> <<E("file", <<N("a", "srt")>>, 1), E("symlink", <<N("m", "srt")>>, 1), Out(<<N("o", "srt")>>, 1)>>)
  @@ (A3 :> <<E("dir", <<X>>, 0), E("file", <<N("a", "srt")>>, 1), E("file", <<N("a", "srt")>>, 1),
              E("file", <<N("b", "srt")>>, 3)>>)
  @@ (A4 :> <<E("reparse", <<N("l", "srt")>>, 9), E("symlink", <<N("m", "srt")>>, 1),
              E("file", <<N("a", "srt")>>, 1)>>)
  @@ (A5 :> <<E("file", <<N("a", "srt")>>, 1), Out(<<N("o", "srt")>>, 1)>>)
  @@ (A6 :> <<Out(<<N("o", "srt")>>, 1), E("file", <<N("a", "srt")>>, 1),
              E("file", <<N("a", "srt"), N("b", "srt")>>, 1)>>)

Absent == <<D, N("gone", "srt")>>
Members == {A1, A2, A3, A4, S1, D1, Absent}
MCArguments == {<<a, b, c>> : a \in Members, b \in Members, c \in {A5, A6, S2, D2}}
MCTempNames == <<"1", "2", "3">>
MCExtensions == {{}, {"srt"}}
=============================================================================
