-------------------------- MODULE TranslationPrompts --------------------------
(* What the translation engine asks: the cues with their formatting replaced  *)
(* by placeholders, the glossary and the terminology                          *)
(* (src/core/translation/engine.rs, request.rs and                            *)
(* src/services/ai/translation_prompts.rs).  A text is a sequence of tokens:  *)
(* words, line breaks, and what stands between < and > or { and }.            *)
EXTENDS Naturals, Sequences, FiniteSets

CONSTANTS
  CueTexts,         \* the cues' texts
  GlossaryText      \* the lines of the user's glossary

ASSUME TextsAssumption == CueTexts \in Seq(Seq(STRING))

Word(token) == <<token>>
Newline == Word("newline")
Space == Word("space")

-----------------------------------------------------------------------------
(* Inline formatting *)

\* html_like_tag_end: "<>" is no tag.  ass_override_tag_end: braces without a
\* backslash are no override.
HtmlTags == {"<i>", "</i>"}
Overrides == {"{\\b1}", "{\\b0}"}
IsMarker(token) == token \in HtmlTags \cup Overrides

\* push_format_marker: a placeholder names the cue and the marker's number.
Placeholder(cue, k) == <<"SUBX_FMT", cue, k>>

\* protect_inline_formatting: where the markers stand, and the texts without and
\* with a placeholder for each.
Markers(cue) == {k \in DOMAIN CueTexts[cue] : IsMarker(CueTexts[cue][k])}
VisibleText(cue) ==
  LET Visible(token) == ~IsMarker(token)
      shown == SelectSeq(CueTexts[cue], Visible)
  IN  [k \in DOMAIN shown |-> Word(shown[k])]
PromptText(cue) ==
  LET text == CueTexts[cue]
      Before(k) == Cardinality({j \in Markers(cue) : j < k})
  IN  [k \in DOMAIN text |-> IF IsMarker(text[k]) THEN Placeholder(cue, Before(k)) ELSE Word(text[k])]

Marked == {cue \in DOMAIN CueTexts : Markers(cue) # {}}

-----------------------------------------------------------------------------
(* Glossary and terminology *)

First(line, token) ==
  CHOOSE k \in DOMAIN line : line[k] = token /\ \A j \in 1..(k - 1) : line[j] # token
Has(line, token) == \E k \in DOMAIN line : line[k] = token

\* parse_glossary_text: "->" separates wherever it stands, "=" if there is none;
\* comments, prose and half empty lines are skipped.
Entry(line) ==
  LET at == First(line, IF Has(line, "->") THEN "->" ELSE "=")
  IN  [source |-> SubSeq(line, 1, at - 1), target |-> SubSeq(line, at + 1, Len(line))]
IsEntry(line) ==
  /\ line # <<>> /\ Head(line) # "#" /\ (Has(line, "->") \/ Has(line, "="))
  /\ Entry(line).source # <<>> /\ Entry(line).target # <<>>
Glossary ==
  LET lines == SelectSeq(GlossaryText, IsEntry) IN [k \in DOMAIN lines |-> Entry(lines[k])]

\* The map of a sequence of entries; of several for a source the last counts.
TermMap(entries) ==
  [source \in {entries[k].source : k \in DOMAIN entries} |->
     entries[CHOOSE k \in DOMAIN entries :
               /\ entries[k].source = source
               /\ \A j \in (k + 1)..Len(entries) : entries[j].source # source].target]

\* parse_terminology_response refuses a blank term and a source given twice.
TermsRefused(entries) ==
  \/ \E k \in DOMAIN entries : entries[k].source = <<>> \/ entries[k].target = <<>>
  \/ \E j, k \in DOMAIN entries : j # k /\ entries[j].source = entries[k].source

\* A map extended by another one, whose entries win.
Laid(upper, lower) ==
  [x \in DOMAIN upper \cup DOMAIN lower |-> IF x \in DOMAIN upper THEN upper[x] ELSE lower[x]]

\* merge_terminology: "user glossary entries override generated entries".
Merged(generated) == Laid(TermMap(Glossary), generated)

-----------------------------------------------------------------------------
(* Prompts *)

\* A prompt has a line for each cue.
OneLine(text) == [k \in DOMAIN text |-> IF text[k] = Newline THEN Space ELSE text[k]]

\* build_terminology_prompt, for the whole file.
TerminologyPrompt(cues) ==
  [glossary |-> GlossaryText, lines |-> [cue \in cues |-> OneLine(VisibleText(cue))]]

\* build_translation_prompt, for the cues of a batch.
TranslationPrompt(cues, terms) ==
  [glossary |-> GlossaryText, terms |-> terms,
   lines |-> [cue \in cues |-> OneLine(PromptText(cue))]]
=============================================================================
