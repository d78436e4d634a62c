------------------------------- MODULE Prompts -------------------------------
(* The prompts of src/services/ai/prompts.rs: how the files and samples of an *)
(* analysis are written into XML, and how the JSON of an answer is cut out of *)
(* its text.  A text is a sequence of characters; "w" stands for any that     *)
(* means nothing to XML or JSON, and a tag is one character.                  *)
EXTENDS Integers, Sequences, SequencesExt

\* xml_escape_attr: each special character becomes one entity.
Escape(text) ==
  [i \in DOMAIN text |-> CASE text[i] = "&" -> "&amp;"  [] text[i] = "<" -> "&lt;"
                           [] text[i] = ">" -> "&gt;"   [] text[i] = "\"" -> "&quot;"
                           [] text[i] = "'" -> "&#39;"  [] OTHER -> text[i]]

Quoted(text) == <<"\"">> \o Escape(text) \o <<"\"">>

\* Whether the character at i completes a "]]>".
Closes(text, i) == i > 2 /\ text[i] = ">" /\ text[i - 1] = "]" /\ text[i - 2] = "]"

\* Mutant: the new section begins with the whole "]]>".
NeutralizeTwice(text) ==
  FlattenSeq([i \in DOMAIN text |->
    IF Closes(text, i) THEN <<">", "<![CDATA[", "]", "]", ">">> ELSE <<text[i]>>])

\* content.replace("]]>", "]]]]><![CDATA[>").
Neutralize(text) ==
  FlattenSeq([i \in DOMAIN text |->
    IF Closes(text, i) THEN <<"]", "]", ">", "<![CDATA[", ">">> ELSE <<text[i]>>])

CdataWrap(text) == <<"<![CDATA[">> \o Neutralize(text) \o <<"]", "]", ">">>

Greatest(s) == CHOOSE i \in s : \A j \in s : j <= i

\* An inventory entry is "ID:.. | Name:.. | Path:..", the sequence of its parts; a
\* part given twice counts the second time, and an entry without one of the three
\* is quoted as a whole.
Part(entry, tag) ==
  LET hits == {i \in DOMAIN entry : entry[i].tag = tag}
  IN  IF hits = {} THEN <<>> ELSE entry[Greatest(hits)].text
Complete(entry) ==
  \A tag \in {"ID", "Name", "Path"} : \E i \in DOMAIN entry : entry[i].tag = tag

RenderFile(entry) ==
  IF Complete(entry)
  THEN <<"<file">> \o Quoted(Part(entry, "ID")) \o Quoted(Part(entry, "Name"))
         \o Quoted(Part(entry, "Path")) \o <<"/>">>
  ELSE <<"<file", ">">> \o CdataWrap(FlattenSeq([i \in DOMAIN entry |-> entry[i].text]))
         \o <<"</file>">>

RenderSample(sample) ==
  <<"<sample">> \o Quoted(sample.id) \o <<">">> \o CdataWrap(sample.preview) \o <<"</sample>">>

\* build_analysis_prompt_base, without its fixed wording.
AnalysisPrompt(request) ==
  FlattenSeq([i \in DOMAIN request.files |-> RenderFile(request.files[i])])
    \o FlattenSeq([i \in DOMAIN request.samples |-> RenderSample(request.samples[i])])

\* build_verification_prompt_base: the two paths and the factors.
VerificationPrompt(request) ==
  FlattenSeq([i \in DOMAIN request.files |->
    <<"<file">> \o Quoted(Part(request.files[i], "Path")) \o <<"/>">>])

-----------------------------------------------------------------------------
\* parse_match_result_base, parse_confidence_score_base: what lies between the
\* first "{" and the last "}" is the JSON; if that brace comes before the other
\* one, slicing panics.  An answer is an object if its text is one pair of braces.
Ends(text, brace) == {i \in DOMAIN text : text[i] = brace}
Least(s) == CHOOSE i \in s : \A j \in s : i <= j

ParseAnswer(text) ==
  LET start == IF Ends(text, "{") = {} THEN 1 ELSE Least(Ends(text, "{"))
      end   == IF Ends(text, "}") = {} THEN Len(text) ELSE Greatest(Ends(text, "}"))
  IN  CASE start > end + 1 -> "panic"
        [] start <= end + 1 /\ SubSeq(text, start, end) = <<"{", "}">> -> "ok"
        [] OTHER -> "error"
=============================================================================
