----------------------------- MODULE MCJasLang -----------------------------
(* JasLang on every program of up to four lines of the given kinds, well  *)
(* formed or not, and on longer ones that nest loops, branches and calls.  *)
EXTENDS JasLang

CONSTANT ShortKinds

MCPrograms ==
  UNION {[1..n -> ShortKinds] : n \in 1..4} \cup
  {<<"while", "if", "break", "else", "say", "end", "continue", "end", "say">>,
   <<"fn", "if", "return", "end", "say", "end", "for", "call", "end">>,
   <<"fn", "break", "end", "while", "call", "say", "end", "say">>,
   <<"fn", "if", "continue", "else", "break", "end", "end", "while", "while", "say", "end", "say", "end">>,
   <<"class", "fn", "while", "return", "end", "end", "end", "if", "call", "elseif", "call", "end">>,
   <<"fn", "call", "end", "call">>,
   <<"if", "fn", "say", "end", "else", "call", "else", "say", "end", "end", "say">>,
   <<"for", "for", "continue", "end", "while", "break", "end", "end", "return">>}
=============================================================================
