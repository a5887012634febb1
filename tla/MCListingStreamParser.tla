------------------------ MODULE MCListingStreamParser ------------------------
(* Small instances of ListingStreamParser: members in every order, with      *)
(* every kind of unit, and the texts that may surround an object.            *)
EXTENDS ListingStreamParser

Letter     == Unit(<<"a">>, <<"a">>, TRUE)
Space      == Unit(<<" ">>, <<" ">>, TRUE)
Brace      == Unit(<<"}">>, <<"}">>, TRUE)
Colon      == Unit(<<":">>, <<":">>, TRUE)
Quote      == Unit(<<"\\", "\"">>, <<"\"">>, TRUE)
Backslash  == Unit(<<"\\", "\\">>, <<"\\">>, TRUE)
NewLine    == Unit(<<"\\", "n">>, <<"\n">>, TRUE)
Accent     == Unit(<<"\\", "u", "0", "0", "e", "9">>, <<"e acute">>, TRUE)
RawNewLine == Unit(<<"\n">>, <<"\n">>, FALSE)
BadEscape  == Unit(<<"\\", "x">>, <<"x">>, FALSE)
Emoji      == Unit(<<"\\", "u", "d", "8", "3", "d",
                     "\\", "u", "d", "e", "0", "0">>, <<"emoji">>, TRUE)

Number == Unit(<<"7">>, <<"7">>, TRUE)

Token(spelling) == Unit(spelling, <<>>, TRUE)
Array ==
  <<Token(<<"[">>), Token(<<"\"", "a", "\"">>), Token(<<",">>),
    Token(<<"\"", "b", "\"">>), Token(<<"]">>)>>

Units == {Letter, Space, Brace, Colon, Quote, Backslash, NewLine, Accent,
          RawNewLine, BadEscape}

Titles(units, n) ==
  {Member(TitleKey, TRUE, v) : v \in BoundedSeq(units, n)}
Descriptions(units, n) ==
  {Member(DescriptionKey, TRUE, v) : v \in BoundedSeq(units, n)}
Others ==
  {Member("otra", FALSE, <<Number>>), Member("otra", FALSE, Array),
   Member("otra", TRUE, <<Colon>>)}

\* Title and description in both orders, alone, and with another member.
AllDocuments ==
  LET few == {Quote, Accent} IN
    {<<t, d>> : t \in Titles(Units, 1), d \in Descriptions({Quote}, 1)}
      \union {<<d, t>> : t \in Titles({}, 1), d \in Descriptions(Units, 2)}
      \union {<<d>> : d \in Descriptions(few, 1)}
      \union {<<t>> : t \in Titles(few, 1)}
      \union UNION {{<<o, t, d>>, <<t, o, d>>, <<d, o, t>>} :
                      o \in Others, t \in Titles({Quote}, 1),
                      d \in Descriptions({Accent}, 1)}

PlainDocuments ==
  {<<t, d>> : t \in Titles({Letter}, 1), d \in Descriptions({Letter, Brace}, 2)}

ASSUME PlainlySpelledAssumption ==
  \A doc \in AllDocuments \union PlainDocuments : PlainlySpelled(doc)

EmojiDocuments ==
  {<<t, d>> : t \in Titles({Letter}, 1), d \in Descriptions({Letter, Emoji}, 2)}

NoText == {<<>>}
AroundIt == {<<>>, <<"~", "\"", ":", " ">>}
BehindIt == {<<>>, <<"~", "}">>}
=============================================================================
