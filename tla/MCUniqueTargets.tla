--------------------------- MODULE MCUniqueTargets ---------------------------
(* Three operations on subtitles of two ordinary directories and an archive.  *)
(* Numbers have three bits; those up to 4 are probed.                         *)
EXTENDS UniqueTargets

MCVideoDir == [o \in Ops |-> 1]
P(d, b, t) == [dir |-> d, base |-> b, tail |-> t]
MCSources  == {P(1, "m", <<>>), P(2, "x", <<>>), P(3, "x", <<>>)}
MCNames    == {<<"m", <<>>>>, <<"m", <<2>>>>, <<"m", <<7>>>>}
MCClutter  == {P(1, "m", <<2>>), P(1, "m", <<3>>)}
=============================================================================
