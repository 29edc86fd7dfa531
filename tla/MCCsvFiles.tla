----------------------------- MODULE MCCsvFiles -----------------------------
(***************************************************************************)
(* CsvFiles for TLC.  The files are a header and two lines of every kind,   *)
(* with every way to end a line, and a header and one order with every      *)
(* short text in the place of its quantity or of its price.                 *)
(***************************************************************************)
EXTENDS CsvFiles

CONSTANTS IntLength, PriceLength

Joined(fields) ==
    FoldLeft(LAMBDA text, field : text \o <<Comma>> \o field, Head(fields), Tail(fields))

Order(coid, side, quantity, price) ==
    Joined(<<coid, <<"R">>, side, quantity, price>>)

\* A NUL behind and before other characters of the client.
WithNul ==
    Joined(<<<<"c", Nul, "d">>, <<Nul, "R">>, <<"1">>, <<"2">>, <<"5">>>>)

LineKinds ==
    {<< >>,
     <<"a", Comma, "R">>,
     Order(<<"l", "o", "n", "g">>, <<"1">>, <<"2">>, <<"5">>),
     Order(<<"c">>, <<"-", "1", "2">>, <<"7">>, <<"-", ".", "5">>) \o <<Comma, "x">>,
     Order(<< >>, <<"x">>, <<"2">>, <<"5">>),
     WithNul}

LineEnds == {<<LineFeed>>, <<CarriageReturn, LineFeed>>}
LastEnds == LineEnds \cup {<< >>, <<CarriageReturn>>}

Header == <<"h", Comma, "h", LineFeed>>

ShapedFiles ==
    {<< >>, <<"h">>, Header} \cup
    {Header \o one \o e \o two \o f :
        one \in LineKinds, two \in LineKinds, e \in LineEnds, f \in LastEnds}

Texts(C, n) == UNION {[1 .. k -> C] : k \in 0 .. n}

MCFiles ==
    ShapedFiles
    \cup {Header \o Order(<<"c">>, <<"1">>, quantity, <<"5">>) :
            quantity \in Texts({" ", "-", "1", "2", "7", "8", "x"}, IntLength)}
    \cup {Header \o Order(<<"c">>, <<"1">>, <<"2">>, price) :
            price \in Texts({" ", "-", ".", "e", "0", "5", "9"}, PriceLength)}

MCReasons == {<< >>, <<"n", "o">>}
MCTimestamp == <<"t">>
=============================================================================
