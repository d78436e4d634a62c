--------------------------- MODULE MCAnalysisCalls ---------------------------
(* Two requests, whose names and previews hold the characters XML cares       *)
(* about; the providers at private and at public hosts, and configurations    *)
(* the factory refuses.                                                       *)
EXTENDS AnalysisCalls

Piece(tag, text) == [tag |-> tag, text |-> text]
File(id, name) == <<Piece("ID", <<id>>), Piece("Name", name), Piece("Path", <<"'">> \o name)>>
Sample(id, preview) == [id |-> <<id>>, preview |-> preview]

MCRequests ==
  << [files |-> <<File("v", <<"w", "&", "\"">>), File("s", <<"<", ">">>)>>,
      samples |-> <<Sample("s", <<"]", "]", ">", "]", "]", "]", ">", "</sample>", "<![CDATA[", "]">>)>>],
     [files |-> <<<<Piece("Name", <<"w", "]", "]", ">">>)>>>>, samples |-> <<>>] >>

V4(a, b) == [kind |-> "v4", a |-> a, b |-> b]
Name(local) == [kind |-> "name", a |-> local, b |-> 0]
V6(segment) == [kind |-> "v6", a |-> segment, b |-> 0]
Cfg(p, key, scheme, host) ==
  [provider |-> p, key |-> key, model |-> TRUE, params |-> TRUE, scheme |-> scheme, host |-> host,
   query |-> p \in {"openrouter", "ollama"}]

MCConfigs ==
  {Cfg("openai", "set", "https", h) : h \in {V4(172, 31), V4(172, 32)}}
  \cup {Cfg("openrouter", "set", "http", h) : h \in {Name(1), V6(65216)}}
  \cup {Cfg("azure", "set", "https", V6(65023)), Cfg("azure", "set", "https", Name(0)),
        Cfg("ollama", "none", "http", V4(127, 0)), Cfg("local", "set", "unparsable", Name(0)),
        Cfg("local", "blank", "blank", Name(0)), Cfg("openai", "blank", "https", Name(0)),
        Cfg("azure", "set", "ftp", Name(0)), Cfg("anthropic", "set", "https", Name(0)),
        [Cfg("openai", "set", "https", Name(0)) EXCEPT !.model = FALSE],
        [Cfg("openai", "set", "https", Name(0)) EXCEPT !.params = FALSE]}

MCErrorBodies ==
  {<<"w", "url", "w", "?", "w", " ", "url", "?">>, <<"url", "#", "?", "w", "url", "?", "w">>}
MCAnswerTexts == {<<"w", "{", "}", "w">>, <<"w">>, <<"}", "w", "{">>, <<"}", "{">>}
=============================================================================
