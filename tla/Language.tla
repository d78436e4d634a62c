------------------------------ MODULE Language ------------------------------
(***************************************************************************)
(* Language labels (src/src/core/language.rs) and the language tag of a    *)
(* target name (src/src/core/matcher/engine.rs).                           *)
(*                                                                         *)
(* A label is [word, kind]: kind is "lower" or "upper" for a token of      *)
(* letters, digits, _ and -, "native" for one in another script and        *)
(* "unsafe" for anything a file name must not get.  Words of the native    *)
(* scripts are transliterated.                                             *)
(***************************************************************************)
EXTENDS Naturals, Sequences, Selection

Plain(w) == [word |-> w, kind |-> "lower"]
NoTag == Plain("")

\* LanguageDetector::new: code -> the words for it
LanguageCodes ==
  [tc |-> {"tc", "fanzhong", "fanti", "cht", "traditional-chinese", "traditional_chinese",
           "zh-hant", "zh_hant"},
   sc |-> {"sc", "jianzhong", "jianti", "chs", "simplified-chinese", "simplified_chinese",
           "zh-hans", "zh_hans"},
   en |-> {"en", "yingwen", "english", "eng"},
   ja |-> {"ja", "jpn", "japanese"},
   ko |-> {"ko", "kor", "korean"},
   fr |-> {"fr", "fra", "fre", "french"},
   de |-> {"de", "deu", "ger", "german"},
   es |-> {"es", "spa", "spanish"},
   pt |-> {"pt", "por", "portuguese"},
   ru |-> {"ru", "rus", "russian"}]

\* The code of a word, as a set of at most one
Codes(w) == {c \in DOMAIN LanguageCodes : w \in LanguageCodes[c]}
Code(w) == Plain(CHOOSE c \in Codes(w) : TRUE)

\* The lengths of the literals above, which are no data of the model
ASSUME ShortCodes == \A c \in DOMAIN LanguageCodes \cup {""} : Len(c) <= 16

Lower(l) == IF l.kind = "upper" THEN [l EXCEPT !.kind = "lower"] ELSE l

First(a, b) == IF a # NoTag THEN a ELSE b

-----------------------------------------------------------------------------
\* What a path shows is [dirs, marks]: the labels of its components, and for each
\* separator the token between it and a dot in the file name.

\* detect_from_directory: the first component that is a known word, in any case
DetectFromDirectory(shown) ==
  LET known == Picked(shown.dirs, {i \in DOMAIN shown.dirs : Codes(Lower(shown.dirs[i]).word) # {}})
  IN IF known = <<>> THEN NoTag ELSE Code(Lower(known[1]).word)

\* detect_from_filename: a token of two or three lower-case letters after a dot, an
\* underscore or a hyphen, in this order
DetectFromFilename(shown) ==
  LET captured(sep) == LET l == shown.marks[sep] IN
        IF l.kind = "lower" /\ Len(l.word) \in 2..3 /\ Codes(l.word) # {} THEN Code(l.word) ELSE NoTag
  IN First(captured("dot"), First(captured("underscore"), captured("hyphen")))

\* detect_all_languages sorts by confidence, 0.9 for a directory and 0.8 for a
\* name; get_primary_language takes the first.
PrimaryLanguage(shown) == First(DetectFromDirectory(shown), DetectFromFilename(shown))

\* normalize: the code of a known word, and an unknown word in lower case
Normalize(l) == IF Codes(Lower(l).word) # {} THEN Code(Lower(l).word) ELSE Lower(l)

-----------------------------------------------------------------------------
\* sanitize_suffix: at most 16 safe characters, kept as they are
SanitizeSuffix(l) == IF l.kind \in {"lower", "upper"} /\ Len(l.word) <= 16 THEN l ELSE NoTag

\* normalize_ai_language: und stands for no language
NormalizeAiLanguage(l) ==
  IF l = NoTag \/ Lower(l) = Plain("und") THEN NoTag ELSE SanitizeSuffix(Normalize(Lower(l)))

\* generate_subtitle_name: the AI's suffix, the AI's language, the language the
\* subtitle's path shows, or no tag
SubtitleTag(suffix, language, shown) ==
  First(SanitizeSuffix(suffix), First(NormalizeAiLanguage(language), PrimaryLanguage(shown)))
=============================================================================
