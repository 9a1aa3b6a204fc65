------------------------------- MODULE MCSuggest -------------------------------
EXTENDS Suggest

\* Characters: tab, the digits 1 and 2, the letters a, b, c and three Hanzi, of
\* which the map knows two.
TabChar == 1
One == 2
Two == 3
a == 11
b == 12
c == 13
H1 == 101
H2 == 102
H3 == 103
HanziChars == {H1, H2, H3}

\* H1 is read "a" or "bb", H2 "ab", "b" or "c"; the first line for H2 is
\* replaced, a line without readings is skipped.
Entry(h, readings) == [char |-> h, readings |-> readings]
Map == <<Entry(H2, <<<<c, c>>>>), Entry(H1, <<<<a>>, <<b, b>>>>), Entry(H3, <<>>),
         Entry(H2, <<<<a, b>>, <<b>>, <<c>>>>)>>

Line(name, rank) == name \o <<TabChar, rank>>

Names == {<<H1>>, <<H1, H1>>, <<H1, H2>>, <<H2, H3>>, <<a>>, <<a, b, c>>, <<H1, a>>}
InputLines ==
    {Line(name, One) : name \in Names}
        \cup {Line(<<H1>>, Two), Line(<<a>>, Two), Line(<<H3>>, One), <<a, b>>}

Requests ==
    {<<>>, <<a>>, <<b>>, <<a, b>>, <<a, c>>, <<H1>>, <<H2>>, <<H1, H2>>, <<H1, b>>,
     <<H3>>, <<b, b>>, <<TabChar>>, <<TabChar, a, TabChar>>}

OneOrAll == {1, 20}
================================================================================
