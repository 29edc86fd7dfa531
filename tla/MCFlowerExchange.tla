-------------------------- MODULE MCFlowerExchange --------------------------
(***************************************************************************)
(* FlowerExchange for TLC: inputs of lines of every kind run tells apart.   *)
(***************************************************************************)
EXTENDS FlowerExchange

CONSTANTS MaxLines

MCReaders == {Matcher}

MCLines ==
    {Line(<<"PROCESS", "first">>, TRUE),
     Line(<<"PROCESS", "second", "extra">>, FALSE),
     Line(<<"PROCESS">>, TRUE),
     Line(<<"QUIT">>, TRUE),
     Line(<<"QUIT">>, FALSE)}

\* Without a line there is none that could be unterminated.
MCScripts ==
    {s \in [lines : UNION {[1 .. n -> MCLines] : n \in 0 .. MaxLines},
            terminated : BOOLEAN] :
        ~s.terminated => s.lines # << >>}
=============================================================================
