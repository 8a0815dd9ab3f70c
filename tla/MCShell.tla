------------------------------- MODULE MCShell -------------------------------
(* Texts for the shell: two lines out of a few, with and without a newline  *)
(* at the end, and all texts of at most three characters.                   *)
EXTENDS Shell

MCLines == {<< >>, <<"x">>, <<" ", "x", " ", " ", "y">>, <<"x", ";", "y">>, <<"x", ";", ";", "x">>,
            <<"x", " ", "&">>, <<"x", " ", "&", ";", "y">>, <<"y", ";", "x", " ", "&">>,
            <<"x", " ", "&", ";", "y", " ", "&">>, <<"q", ";", "x">>, <<"x", ";", "q", " ", "&">>,
            <<"&", ";", " ">>}
MCTexts == {a \o <<"nl">> \o b \o c : a \in MCLines, b \in MCLines, c \in {<< >>, <<"nl">>, <<"FF">>}}
             \cup UNION {[1..n -> Chars] : n \in 0..3}
==============================================================================
