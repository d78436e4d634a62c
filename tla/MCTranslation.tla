---------------------------- MODULE MCTranslation ----------------------------
(* Up to three cues in batches of two, the last with formatting, the others   *)
(* with what is not taken for any, a glossary with lines of each kind, and    *)
(* answers of up to three entries.                                            *)
EXTENDS Translation

MCCueTexts ==
  <<<<"hello", "newline", "<>", "alice">>,
    <<"{note}", "hello">>,
    <<"{\\b1}", "alice", "{\\b0}", "newline", "<i>", "hello", "</i>">>>>

MCGlossaryText ==
  <<<<"#", "alice", "=", "comment">>,
    <<"alice", "=", "A1">>,
    <<"free", "prose">>,
    <<"bob", "=", "B1", "->", "B2">>,
    <<"alice", "->", "A2">>,
    <<"carol", "=">>>>

Term(source, target) == [source |-> source, target |-> target]
MCTermAnswers ==
  {<<>>,
   <<Term(<<"alice">>, <<"G1">>), Term(<<"dave">>, <<"G2">>)>>,
   <<Term(<<"dave">>, <<"G1">>), Term(<<"dave">>, <<"G2">>)>>,
   <<Term(<<"dave">>, <<>>)>>}
=============================================================================
