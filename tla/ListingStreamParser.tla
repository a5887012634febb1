------------------------- MODULE ListingStreamParser -------------------------
(* listing_stream_parser.py: while the model writes                          *)
(* {"titulo": "...", "descripcion": "..."} the parser turns its fragments    *)
(* into a title and pieces of description, one character at a time; when the *)
(* stream ends, result() reads the whole text again with json.loads.         *)
(*                                                                           *)
(* The model of the language knows what it wants to say (`document`); what   *)
(* it says is the spelling of it, between a preamble and a trailer, cut into *)
(* fragments anywhere and possibly cut short by max_tokens. A key is one     *)
(* character here: nothing depends on a cut inside it.                       *)
EXTENDS Integers, SequencesExt

CONSTANTS
  Documents,    \* what the model may want to say: sequences of members
  Preambles,    \* what it may write before its object, without a {
  Trailers,     \* what it may write after it: no string, or its object again
  MaxFragment   \* bound: characters of one fragment

ASSUME MaxFragmentAssumption == MaxFragment \in Nat \ {0}
ASSUME TextAssumption ==
  /\ Documents \subseteq
       Seq([key : STRING, quoted : BOOLEAN,
            value : Seq([spelling : Seq(STRING), meaning : Seq(STRING), strict : BOOLEAN])])
  /\ Preambles \subseteq Seq(STRING \ {"{"})
  /\ Trailers \subseteq Seq(STRING \ {"\""})

VARIABLES
  document,  \* what the model wants to say
  text,      \* all it would write
  fed,       \* how many characters of it have been fed
  parser,    \* the automaton
  shown,     \* the deltas sent to the client, joined
  titles,    \* the titles sent to the client
  result     \* <<>>, or what result() returned

vars == <<document, text, fed, parser, shown, titles, result>>

TitleKey == "titulo"
DescriptionKey == "descripcion"
-----------------------------------------------------------------------------
(* The text. A unit is a way to spell something inside a string; `strict`    *)
(* says whether JSON allows it. A member has a key and a sequence of units:  *)
(* a string of them, or a bare value of such tokens: a number, an array...   *)

Unit(spelling, meaning, strict) ==
  [spelling |-> spelling, meaning |-> meaning, strict |-> strict]

Member(key, quoted, value) == [key |-> key, quoted |-> quoted, value |-> value]

Spelling(value) == FlattenSeq([i \in DOMAIN value |-> value[i].spelling])

Meaning(value) == FlattenSeq([i \in DOMAIN value |-> value[i].meaning])

Quoted(s) == <<"\"">> \o s \o <<"\"">>

MemberText(m) ==
  Quoted(<<m.key>>) \o <<":", " ">>
    \o (IF m.quoted THEN Quoted(Spelling(m.value)) ELSE Spelling(m.value))

Rendering(doc) ==
  <<"{">> \o FlattenSeq([i \in DOMAIN doc |->
               (IF i = 1 THEN <<>> ELSE <<",">>) \o MemberText(doc[i])])
    \o <<"}">>

Strict(doc) ==
  \A i \in DOMAIN doc : \A j \in DOMAIN doc[i].value : doc[i].value[j].strict

\* The values of a key: at most one, no key is written twice.
Said(doc, key) ==
  LET places == {i \in DOMAIN doc : doc[i].key = key}
  IN  IF places = {} THEN <<>>
      ELSE <<Meaning(doc[CHOOSE i \in places : TRUE].value)>>

\* A key nobody wrote reads as the empty text.
OrEmpty(optional) == IF optional = <<>> THEN <<>> ELSE optional[1]

Blank == {" ", "\n"}

\* str.strip()
Strip(s) ==
  LET solid == {i \in DOMAIN s : s[i] \notin Blank}
  IN  IF solid = {} THEN <<>> ELSE SubSeq(s, Min(solid), Max(solid))
-----------------------------------------------------------------------------
(* The automaton. What Python holds as None is an empty sequence here, and   *)
(* what it holds as a value a sequence of one. `deltas` and `events` are the *)
(* locals of one feed().                                                     *)

NewParser ==
  [started |-> FALSE, inString |-> FALSE, stringIsValue |-> FALSE,
   escape |-> FALSE, unicodePending |-> <<>>, currentKey |-> <<>>,
   currentChars |-> <<>>, title |-> <<>>, descriptionChars |-> <<>>,
   descriptionDone |-> FALSE, delta |-> <<>>, events |-> <<>>]

\* _ESCAPES.get(ch, ch)
Unescape(c) == IF c = "n" THEN "\n" ELSE c

\* chr(int(digits, 16)): the characters the documents may spell that way.
CodePoint ==
  << <<"0", "0", "e", "9">>, <<"d", "8", "3", "d">>, <<"d", "e", "0", "0">> >>
Character == <<"e acute", "high surrogate", "low surrogate">>

\* A faulty variant of EmitChar: a second description is streamed as well.
EmitCharAgain(p, c) ==
  LET visible == p.stringIsValue /\ p.currentKey = <<DescriptionKey>>
  IN  [p EXCEPT !.currentChars = Append(@, c),
                !.delta = IF visible THEN Append(@, c) ELSE @]

EmitChar(p, c) ==
  LET visible == /\ p.stringIsValue
                 /\ p.currentKey = <<DescriptionKey>>
                 /\ ~p.descriptionDone
  IN  [p EXCEPT !.currentChars = Append(@, c),
                !.delta = IF visible THEN Append(@, c) ELSE @]

\* A faulty variant of CloseString: the title is kept and not announced.
CloseStringSilent(p) ==
  LET q == [p EXCEPT !.inString = FALSE]
      r == [q EXCEPT !.stringIsValue = FALSE, !.currentKey = <<>>]
  IN  CASE ~p.stringIsValue -> [q EXCEPT !.currentKey = p.currentChars]
        [] p.stringIsValue /\ p.currentKey = <<TitleKey>> ->
             [r EXCEPT !.title = <<p.currentChars>>]
        [] OTHER -> r

\* A faulty variant of CloseString: the description is streamed and not kept.
CloseStringForgets(p) ==
  LET q == [p EXCEPT !.inString = FALSE]
      r == [q EXCEPT !.stringIsValue = FALSE, !.currentKey = <<>>]
  IN  CASE ~p.stringIsValue -> [q EXCEPT !.currentKey = p.currentChars]
        [] /\ p.stringIsValue
           /\ p.currentKey = <<TitleKey>>
           /\ p.title = <<>> ->
             [r EXCEPT !.title = <<p.currentChars>>,
                       !.events = Append(@, p.currentChars)]
        [] OTHER ->
             [r EXCEPT !.descriptionDone = (p.currentKey = <<DescriptionKey>>)]

CloseString(p) ==
  LET q == [p EXCEPT !.inString = FALSE]
      r == [q EXCEPT !.stringIsValue = FALSE, !.currentKey = <<>>]
  IN  CASE ~p.stringIsValue -> [q EXCEPT !.currentKey = p.currentChars]
        [] /\ p.stringIsValue
           /\ p.currentKey = <<TitleKey>>
           /\ p.title = <<>> ->
             [r EXCEPT !.title = <<p.currentChars>>,
                       !.events = Append(@, p.currentChars)]
        [] /\ p.stringIsValue
           /\ p.currentKey = <<DescriptionKey>>
           /\ ~p.descriptionDone ->
             [r EXCEPT !.descriptionChars = p.currentChars,
                       !.descriptionDone = TRUE]
        [] OTHER -> r

\* A faulty variant of HexDigit: it waits for a fifth digit.
HexDigitLate(p, c) ==
  LET digits == Append(p.unicodePending[1], c)
  IN  IF Len(digits) <= 4 THEN [p EXCEPT !.unicodePending = <<digits>>]
                          ELSE [p EXCEPT !.unicodePending = <<>>]

\* The four digits of \uXXXX, wherever the fragments cut them.
HexDigit(p, c) ==
  LET digits == Append(p.unicodePending[1], c)
      code   == {i \in DOMAIN CodePoint : CodePoint[i] = digits}
      q      == [p EXCEPT !.unicodePending = <<>>]
  IN  CASE Len(digits) < 4 -> [p EXCEPT !.unicodePending = <<digits>>]
        [] Len(digits) = 4 /\ code = {} -> q
        [] Len(digits) = 4 /\ code # {} -> EmitChar(q, Character[Max(code)])

Escaped(p, c) ==
  LET q == [p EXCEPT !.escape = FALSE]
  IN  IF c = "u" THEN [q EXCEPT !.unicodePending = << <<>> >>]
                 ELSE EmitChar(q, Unescape(c))

Plain(p, c) ==
  CASE c = "\\" -> [p EXCEPT !.escape = TRUE]
    [] c = "\"" -> CloseString(p)
    [] OTHER    -> EmitChar(p, c)

\* A faulty variant of Outside: a comma does not end a bare value.
OutsideKeepsValue(p, c) ==
  CASE c = "\"" -> [p EXCEPT !.inString = TRUE, !.currentChars = <<>>]
    [] c = ":"  -> [p EXCEPT !.stringIsValue = TRUE]
    [] OTHER    -> p

\* Punctuation says whether the next string is a key or a value.
Outside(p, c) ==
  CASE c = "\""       -> [p EXCEPT !.inString = TRUE, !.currentChars = <<>>]
    [] c = ":"        -> [p EXCEPT !.stringIsValue = TRUE]
    [] c \in {",", "{"} -> [p EXCEPT !.stringIsValue = FALSE]
    [] OTHER          -> p

ReadChar(p, c) ==
  IF ~p.started THEN [p EXCEPT !.started = (c = "{")]
  ELSE IF ~p.inString THEN Outside(p, c)
  ELSE IF p.unicodePending # <<>> THEN HexDigit(p, c)
  ELSE IF p.escape THEN Escaped(p, c)
  ELSE Plain(p, c)

\* The loop over a fragment.
Run(p, s) ==
  LET state[i \in 0..Len(s)] == IF i = 0 THEN p ELSE ReadChar(state[i - 1], s[i])
  IN  state[Len(s)]

\* json.loads on what lies between the first { and the last }: it succeeds
\* when that is the whole document and nothing else.
Loads(raw) ==
  LET start == SelectInSeq(raw, LAMBDA c : c = "{")
      end   == SelectLastInSeq(raw, LAMBDA c : c = "}")
  IN  /\ start # 0
      /\ end > start
      /\ SubSeq(raw, start, end) = Rendering(document)
      /\ Strict(document)

\* str(parsed.get(key, value)).strip() or value
Parsed(key, value) ==
  LET said == Said(document, key)
      full == Strip(IF said = <<>> THEN value ELSE said[1])
  IN  IF full = <<>> THEN value ELSE full

Result(p, raw) ==
  LET title       == OrEmpty(p.title)
      description == p.descriptionChars
  IN  IF Loads(raw)
      THEN [title       |-> Strip(Parsed(TitleKey, title)),
            description |-> Strip(Parsed(DescriptionKey, description))]
      ELSE [title |-> Strip(title), description |-> Strip(description)]
-----------------------------------------------------------------------------
Init ==
  /\ document \in Documents
  /\ \E preamble \in Preambles,
        trailer \in Trailers \union {Rendering(document)} :
       text = preamble \o Rendering(document) \o trailer
  /\ fed = 0
  /\ parser = NewParser
  /\ shown = <<>>
  /\ titles = <<>>
  /\ result = <<>>

\* feed() of the next n characters, its events sent to the client.
Feed(n) ==
  /\ result = <<>>
  /\ fed + n <= Len(text)
  /\ LET p == Run(parser, SubSeq(text, fed + 1, fed + n))
     IN  /\ parser' = [p EXCEPT !.delta = <<>>, !.events = <<>>]
         /\ shown' = shown \o p.delta
         /\ titles' = titles \o p.events
  /\ fed' = fed + n
  /\ UNCHANGED <<document, text, result>>

\* The stream ends, here or because max_tokens is reached, and the use case
\* asks for the result.
Close ==
  /\ result = <<>>
  /\ result' = <<Result(parser, SubSeq(text, 1, fed))>>
  /\ UNCHANGED <<document, text, fed, parser, shown, titles>>

Next == (\E n \in 1..MaxFragment : Feed(n)) \/ Close

Spec == Init /\ [][Next]_vars
-----------------------------------------------------------------------------
\* What a unit of a string may be: a character as it is, a short escape, or
\* \uXXXX for a character of the basic plane; not two of them for one above it.
PlainUnit(u) ==
  \/ /\ Len(u.spelling) = 1 /\ u.spelling[1] \notin {"\\", "\""}
     /\ u.meaning = u.spelling
  \/ /\ Len(u.spelling) = 2 /\ u.spelling[1] = "\\" /\ u.spelling[2] # "u"
     /\ u.meaning = <<Unescape(u.spelling[2])>>
  \/ \E i \in DOMAIN CodePoint : /\ u.spelling = <<"\\", "u">> \o CodePoint[i]
                                 /\ u.meaning = <<Character[i]>>

\* What a token of a bare value may be: a string, or punctuation and digits
\* but no ":", so that an array is a token sequence and an object is not.
PlainToken(u) ==
  \/ Len(u.spelling) = 1 /\ u.spelling[1] \notin {":", "\""}
  \/ /\ Len(u.spelling) >= 2
     /\ u.spelling[1] = "\"" /\ u.spelling[Len(u.spelling)] = "\""
     /\ \A i \in 2..Len(u.spelling) - 1 : u.spelling[i] \notin {"\\", "\""}

\* The objects the program asks the model for: a key is written once, the
\* title and the description are strings, and what else there is is flat.
PlainlySpelled(doc) ==
  /\ \A i, j \in DOMAIN doc : doc[i].key = doc[j].key => i = j
  /\ \A i \in DOMAIN doc :
       /\ doc[i].key \notin {"\\", "\""}
       /\ doc[i].quoted => \A j \in DOMAIN doc[i].value : PlainUnit(doc[i].value[j])
       /\ ~doc[i].quoted => /\ doc[i].key \notin {TitleKey, DescriptionKey}
                            /\ \A j \in DOMAIN doc[i].value : PlainToken(doc[i].value[j])
-----------------------------------------------------------------------------
\* The whole object has been fed: what is left, if anything, is the trailer.
ObjectFed ==
  \E preamble \in Preambles :
    /\ IsPrefix(preamble \o Rendering(document), text)
    /\ fed >= Len(preamble) + Len(Rendering(document))

\* Types: the automaton's flags and optional values, and at most one result.
TypeOK ==
  /\ document \in Documents
  /\ fed \in 0..Len(text)
  /\ \A flag \in {"started", "inString", "stringIsValue", "escape",
                  "descriptionDone"} : parser[flag] \in BOOLEAN
  /\ Len(parser.unicodePending) <= 1
  /\ parser.unicodePending # <<>> => Len(parser.unicodePending[1]) < 4
  /\ Len(parser.title) <= 1
  /\ parser.delta = <<>> /\ parser.events = <<>>
  /\ Len(result) <= 1

\* Nothing untrue is shown: at every moment, wherever the fragments were cut
\* and whatever surrounds the object, the deltas are a beginning of the
\* description the model wants, and the title, sent at most once, is whole.
ShownIsTrue ==
  /\ IsPrefix(shown, OrEmpty(Said(document, DescriptionKey)))
  /\ IsPrefix(titles, Said(document, TitleKey))

\* Nothing is held back: when the object is complete, all of the description
\* and the title have been sent, before anything asks for the result.
AllIsShown ==
  ObjectFed =>
    /\ shown = OrEmpty(Said(document, DescriptionKey))
    /\ titles = Said(document, TitleKey)

\* `done` and the row carry what the model wanted to say, also when the text
\* around the object, or a sloppy escape in it, makes json.loads refuse it.
ResultIsFaithful ==
  ObjectFed /\ result # <<>> =>
    result[1] = [title       |-> Strip(OrEmpty(Said(document, TitleKey))),
                 description |-> Strip(OrEmpty(Said(document, DescriptionKey)))]

\* However early the stream ends, the title of `done` is the one the client
\* was shown, or none if it was shown none.
TitleAgrees == result # <<>> => result[1].title = Strip(OrEmpty(titles))

\* Without valid JSON "se usan los valores del stream" (result()'s warning):
\* the description of `done` is the one the client was shown.
StreamValuesUsed ==
  result # <<>> => result[1].description = Strip(shown)

\* "Maneja ... escapes JSON (\", \n, \uXXXX)" (the module's docstring): a
\* character sent to the client is one the model wrote, never a half of one.
EscapesDecoded ==
  \A i \in DOMAIN shown : shown[i] \notin {"high surrogate", "low surrogate"}
=============================================================================
