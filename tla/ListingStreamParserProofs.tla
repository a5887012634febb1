----------------------- MODULE ListingStreamParserProofs -----------------------
(****************************************************************************)
(* Proofs, for any documents, texts around them and fragments: what the     *)
(* parser shows is what it shows of the text fed so far, read from its      *)
(* beginning in one piece; what it shows of a whole object is the title and *)
(* the description it spells; and what it has shown never changes.          *)
(****************************************************************************)
EXTENDS ListingStreamParser, SequenceLemmas

Chars ==
  STRING \cup {"{", "}", "\"", ":", " ", ",", "\\", "\n", "e acute", "high surrogate",
               "low surrogate", "titulo", "descripcion"}

Text == Seq(Chars)

ParserStates ==
  [started : BOOLEAN, inString : BOOLEAN, stringIsValue : BOOLEAN, escape : BOOLEAN,
   unicodePending : {<<>>} \cup {<<digits>> : digits \in {d \in Text : Len(d) < 4}},
   currentKey : Text, currentChars : Text, title : {<<>>} \cup {<<t>> : t \in Text},
   descriptionChars : Text, descriptionDone : BOOLEAN, delta : Text, events : Seq(Text)]

-----------------------------------------------------------------------------
(* Types *)

LEMMA TextAppend ==
  /\ <<>> \in Text /\ Len(<<>>) = 0
  /\ \A s \in Text, c \in Chars : Append(s, c) \in Text /\ Len(Append(s, c)) = Len(s) + 1
  /\ \A s \in Text : Len(s) \in Nat
  /\ \A e \in Seq(Text), t \in Text : Append(e, t) \in Seq(Text)
  BY AppendProperties, LenProperties DEF Text

LEMMA NewParserType == NewParser \in ParserStates
  <1>1. <<>> \in Seq(Text)
    OBVIOUS
  <1>2. QED
    BY <1>1, TextAppend DEF NewParser, ParserStates

LEMMA EmitCharType ==
  ASSUME NEW p \in ParserStates, NEW c \in Chars
  PROVE  EmitChar(p, c) \in ParserStates
  <1>1. Append(p.currentChars, c) \in Text /\ Append(p.delta, c) \in Text
    BY TextAppend DEF ParserStates
  <1>2. QED
    BY <1>1 DEF EmitChar, ParserStates

LEMMA CloseStringCases ==
  ASSUME NEW p \in ParserStates
  PROVE  /\ ~p.stringIsValue =>
              CloseString(p) = [p EXCEPT !.inString = FALSE, !.currentKey = p.currentChars]
         /\ p.stringIsValue /\ p.currentKey = <<TitleKey>> /\ p.title = <<>> =>
              CloseString(p) = [p EXCEPT !.inString = FALSE, !.stringIsValue = FALSE,
                                         !.currentKey = <<>>, !.title = <<p.currentChars>>,
                                         !.events = Append(p.events, p.currentChars)]
         /\ p.stringIsValue /\ p.currentKey = <<DescriptionKey>> /\ ~p.descriptionDone =>
              CloseString(p) = [p EXCEPT !.inString = FALSE, !.stringIsValue = FALSE,
                                         !.currentKey = <<>>,
                                         !.descriptionChars = p.currentChars,
                                         !.descriptionDone = TRUE]
         /\ (/\ p.stringIsValue /\ ~(p.currentKey = <<TitleKey>> /\ p.title = <<>>)
             /\ ~(p.currentKey = <<DescriptionKey>> /\ ~p.descriptionDone)) =>
              CloseString(p) = [p EXCEPT !.inString = FALSE, !.stringIsValue = FALSE,
                                         !.currentKey = <<>>]
  <1>1. <<TitleKey>> # <<DescriptionKey>>
    BY DEF TitleKey, DescriptionKey
  <1>2. p.stringIsValue \in BOOLEAN /\ p.descriptionDone \in BOOLEAN
    BY DEF ParserStates
  <1>3. ~p.stringIsValue =>
          CloseString(p) = [p EXCEPT !.inString = FALSE, !.currentKey = p.currentChars]
    BY <1>2 DEF CloseString, ParserStates
  <1>4. p.stringIsValue /\ p.currentKey = <<TitleKey>> /\ p.title = <<>> =>
          CloseString(p) = [p EXCEPT !.inString = FALSE, !.stringIsValue = FALSE,
                                     !.currentKey = <<>>, !.title = <<p.currentChars>>,
                                     !.events = Append(p.events, p.currentChars)]
    <2> SUFFICES ASSUME p.stringIsValue, p.currentKey = <<TitleKey>>, p.title = <<>>
                 PROVE  CloseString(p) = [p EXCEPT !.inString = FALSE, !.stringIsValue = FALSE,
                                     !.currentKey = <<>>, !.title = <<p.currentChars>>,
                                     !.events = Append(p.events, p.currentChars)]
      OBVIOUS
    <2>1. CloseString(p) =
            [[[p EXCEPT !.inString = FALSE] EXCEPT !.stringIsValue = FALSE, !.currentKey = <<>>]
               EXCEPT !.title = <<p.currentChars>>, !.events = Append(@, p.currentChars)]
      BY <1>1, Zenon DEF CloseString
    <2>2. QED
      BY <2>1 DEF ParserStates
  <1>5. p.stringIsValue /\ p.currentKey = <<DescriptionKey>> /\ ~p.descriptionDone =>
          CloseString(p) = [p EXCEPT !.inString = FALSE, !.stringIsValue = FALSE,
                                     !.currentKey = <<>>,
                                     !.descriptionChars = p.currentChars,
                                     !.descriptionDone = TRUE]
    <2> SUFFICES ASSUME p.stringIsValue, p.currentKey = <<DescriptionKey>>, ~p.descriptionDone
                 PROVE  CloseString(p) = [p EXCEPT !.inString = FALSE, !.stringIsValue = FALSE,
                                                   !.currentKey = <<>>,
                                                   !.descriptionChars = p.currentChars,
                                                   !.descriptionDone = TRUE]
      OBVIOUS
    <2>1. p.currentKey # <<TitleKey>>
      BY <1>1
    <2>2. QED
      BY <2>1 DEF CloseString, ParserStates
  <1>6. (/\ p.stringIsValue /\ ~(p.currentKey = <<TitleKey>> /\ p.title = <<>>)
         /\ ~(p.currentKey = <<DescriptionKey>> /\ ~p.descriptionDone)) =>
          CloseString(p) = [p EXCEPT !.inString = FALSE, !.stringIsValue = FALSE,
                                     !.currentKey = <<>>]
    BY <1>2 DEF CloseString, ParserStates
  <1>7. QED
    BY <1>3, <1>4, <1>5, <1>6, Zenon

LEMMA CloseStringType ==
  ASSUME NEW p \in ParserStates
  PROVE  CloseString(p) \in ParserStates
  <1>1. Append(p.events, p.currentChars) \in Seq(Text)
    BY TextAppend DEF ParserStates
  <1>2. <<>> \in Text
    BY TextAppend
  <1>3. QED
    BY <1>1, <1>2 DEF CloseString, ParserStates

(* A code has one character.                                                *)
LEMMA CodesDiffer ==
  \A digits : \/ {i \in DOMAIN CodePoint : CodePoint[i] = digits} = {}
              \/ \E i \in 1 .. 3 : /\ {j \in DOMAIN CodePoint : CodePoint[j] = digits} = {i}
                                   /\ CodePoint[i] = digits /\ Max({i}) = i
                                   /\ Character[i] \in Chars
  <1>1. DOMAIN CodePoint = 1 .. 3 /\ \A i \in 1 .. 3 : i = 1 \/ i = 2 \/ i = 3
    BY DEF CodePoint
  <1>2. CodePoint[1] # CodePoint[2] /\ CodePoint[1] # CodePoint[3] /\ CodePoint[2] # CodePoint[3]
    BY DEF CodePoint
  <1>3. \A i \in 1 .. 3 : Max({i}) = i
    BY DEF Max
  <1>4. \A i \in 1 .. 3 : Character[i] \in Chars
    <2>1. Character[1] \in Chars /\ Character[2] \in Chars /\ Character[3] \in Chars
      BY DEF Character, Chars
    <2>2. QED
      BY <1>1, <2>1
  <1>5. \A i, j \in 1 .. 3 : CodePoint[i] = CodePoint[j] => i = j
    BY <1>1, <1>2
  <1> SUFFICES ASSUME NEW digits, NEW i \in 1 .. 3, CodePoint[i] = digits
               PROVE  {j \in DOMAIN CodePoint : CodePoint[j] = digits} = {i}
    BY <1>1, <1>3, <1>4
  <1>6. QED
    BY <1>1, <1>5

LEMMA CodeIsOfChar ==
  \A digits : LET code == {i \in DOMAIN CodePoint : CodePoint[i] = digits}
             IN  code # {} => Character[Max(code)] \in Chars
  <1> TAKE digits
  <1> DEFINE code == {i \in DOMAIN CodePoint : CodePoint[i] = digits}
  <1> SUFFICES ASSUME code # {} PROVE Character[Max(code)] \in Chars
    OBVIOUS
  <1>1. PICK i \in 1 .. 3 : code = {i} /\ Max({i}) = i /\ Character[i] \in Chars
    BY CodesDiffer
  <1>2. QED
    BY <1>1

LEMMA PendingIsShort ==
  ASSUME NEW p \in ParserStates, NEW c \in Chars, p.unicodePending # <<>>
  PROVE  LET digits == Append(p.unicodePending[1], c)
         IN  digits \in Text /\ Len(digits) \in 1 .. 4 /\ (~(Len(digits) < 4) => Len(digits) = 4)
  <1>1. PICK d \in Text : p.unicodePending = <<d>> /\ Len(d) < 4
    BY DEF ParserStates
  <1>2. p.unicodePending[1] = d
    BY <1>1
  <1>3. Len(d) \in Nat /\ Append(d, c) \in Text /\ Len(Append(d, c)) = Len(d) + 1
    BY TextAppend
  <1>4. QED
    BY <1>1, <1>2, <1>3

LEMMA HexDigitType ==
  ASSUME NEW p \in ParserStates, NEW c \in Chars, p.unicodePending # <<>>
  PROVE  HexDigit(p, c) \in ParserStates
  <1> DEFINE digits == Append(p.unicodePending[1], c)
             q == [p EXCEPT !.unicodePending = <<>>]
             code == {i \in DOMAIN CodePoint : CodePoint[i] = digits}
  <1>1. digits \in Text /\ Len(digits) \in 1 .. 4
    BY PendingIsShort
  <1>2. q \in ParserStates
    BY DEF ParserStates
  <1> HIDE DEF q, digits
  <1>3. CASE Len(digits) < 4
    <2>1. HexDigit(p, c) = [p EXCEPT !.unicodePending = <<digits>>]
      BY <1>3 DEF HexDigit, digits
    <2>2. <<digits>> \in {<<d>> : d \in {d \in Text : Len(d) < 4}}
      BY <1>1, <1>3
    <2>3. QED
      BY <2>1, <2>2 DEF ParserStates
  <1>4. CASE ~(Len(digits) < 4)
    <2>1. Len(digits) = 4
      BY <1>4, PendingIsShort DEF digits
    <2>2. CASE code = {}
      BY <1>2, <2>1, <2>2 DEF HexDigit, digits, q
    <2>3. CASE code # {}
      <3>1. Character[Max(code)] \in Chars
        BY <2>3, CodeIsOfChar
      <3>2. HexDigit(p, c) = EmitChar(q, Character[Max(code)])
        BY <2>1, <2>3 DEF HexDigit, digits, q
      <3>3. QED
        BY <1>2, <3>1, <3>2, EmitCharType
    <2>4. QED
      BY <2>2, <2>3
  <1>5. QED
    BY <1>3, <1>4

LEMMA EscapedType ==
  ASSUME NEW p \in ParserStates, NEW c \in Chars
  PROVE  Escaped(p, c) \in ParserStates
  <1> DEFINE q == [p EXCEPT !.escape = FALSE]
  <1>1. q \in ParserStates
    BY DEF ParserStates
  <1>2. Unescape(c) \in Chars
    BY DEF Unescape, Chars
  <1>3. EmitChar(q, Unescape(c)) \in ParserStates
    BY <1>1, <1>2, EmitCharType
  <1>4. << <<>> >> \in {<<d>> : d \in {d \in Text : Len(d) < 4}}
    BY TextAppend
  <1>5. [q EXCEPT !.unicodePending = << <<>> >>] \in ParserStates
    BY <1>1, <1>4 DEF ParserStates
  <1>6. QED
    BY <1>3, <1>5 DEF Escaped

LEMMA ReadCharCases ==
  ASSUME NEW p \in ParserStates, NEW c \in Chars
  PROVE  /\ ~p.started => ReadChar(p, c) = [p EXCEPT !.started = (c = "{")]
         /\ p.started /\ ~p.inString => ReadChar(p, c) = Outside(p, c)
         /\ p.started /\ p.inString /\ p.unicodePending # <<>> => ReadChar(p, c) = HexDigit(p, c)
         /\ p.started /\ p.inString /\ p.unicodePending = <<>> /\ p.escape =>
              ReadChar(p, c) = Escaped(p, c)
         /\ p.started /\ p.inString /\ p.unicodePending = <<>> /\ ~p.escape =>
              ReadChar(p, c) = Plain(p, c)
  BY DEF ReadChar

LEMMA ReadCharType ==
  ASSUME NEW p \in ParserStates, NEW c \in Chars
  PROVE  ReadChar(p, c) \in ParserStates
  <1>1. [p EXCEPT !.started = (c = "{")] \in ParserStates
    BY DEF ParserStates
  <1>2. Outside(p, c) \in ParserStates
    BY TextAppend DEF Outside, ParserStates
  <1>3. Plain(p, c) \in ParserStates
    <2>1. [p EXCEPT !.escape = TRUE] \in ParserStates
      BY DEF ParserStates
    <2>2. QED
      BY <2>1, CloseStringType, EmitCharType DEF Plain
  <1>4. QED
    BY <1>1, <1>2, <1>3, HexDigitType, EscapedType DEF ReadChar

-----------------------------------------------------------------------------
(* Reading a text *)

(* g[i] is the parser after i characters.                                   *)
Reads(g, p, s) ==
  /\ g[0] = p
  /\ \A i \in 1 .. Len(s) : g[i] = ReadChar(g[i - 1], s[i])

LEMMA RunReads ==
  ASSUME NEW p \in ParserStates, NEW s \in Text
  PROVE  \E g \in [0 .. Len(s) -> ParserStates] : Reads(g, p, s) /\ Run(p, s) = g[Len(s)]
  <1> DEFINE n == Len(s)
             step == [q \in (1 .. n) \X ParserStates |-> ReadChar(q[2], s[q[1]])]
             Solves(f) == f = [i \in 0 .. n |-> IF i = 0 THEN p ELSE ReadChar(f[i - 1], s[i])]
             h == CHOOSE f : Solves(f)
  <1>1. n \in Nat /\ \A i \in 1 .. n : s[i] \in Chars
    BY LenProperties DEF Text
  <1>2. Run(p, s) = h[n]
    BY DEF Run
  <1> HIDE DEF n
  <1>3. step \in [(1 .. n) \X ParserStates -> ParserStates]
    BY <1>1, ReadCharType
  <1>4. \A i \in 1 .. n, q \in ParserStates : step[<<i, q>>] = ReadChar(q, s[i])
    OBVIOUS
  <1> HIDE DEF step
  <1>5. PICK g \in [0 .. n -> ParserStates] : CountsUp(g, n, p, step)
    BY <1>1, <1>3, RecursionExists
  <1>6. g[0] = p /\ \A i \in 1 .. n : g[i] = ReadChar(g[i - 1], s[i])
    <2>1. \A i \in 1 .. n : i - 1 \in 0 .. n
      BY <1>1
    <2>2. QED
      BY <1>4, <1>5, <2>1 DEF CountsUp
  <1>7. Solves(g)
    <2>1. \A i \in 0 .. n : i # 0 => i \in 1 .. n
      BY <1>1
    <2>2. QED
      BY <1>6, <2>1
  <1>8. Solves(h)
    BY <1>7
  <1>9. h[0] = p /\ \A i \in 1 .. n : h[i] = ReadChar(h[i - 1], s[i])
    <2>1. 0 \in 0 .. n /\ \A i \in 1 .. n : i \in 0 .. n /\ i # 0
      BY <1>1
    <2> HIDE DEF h
    <2>2. QED
      BY <1>8, <2>1
  <1>10. DOMAIN h = 0 .. n
    BY <1>8
  <1> HIDE DEF h, Solves
  <1>11. CountsUp(h, n, p, step) /\ \A i \in 0 .. n : h[i] \in ParserStates
    <2>1. \A i \in 1 .. n : h[i - 1] \in ParserStates => h[i] = step[<<i, h[i - 1]>>]
      BY <1>4, <1>9
    <2>2. QED
      BY <1>1, <1>3, <1>9, <2>1, RecursionStays
  <1>12. h = [i \in 0 .. n |-> h[i]]
    BY <1>8 DEF Solves
  <1>13. h \in [0 .. n -> ParserStates]
    BY <1>10, <1>11, <1>12
  <1>14. QED
    BY <1>2, <1>9, <1>13 DEF Reads, n

LEMMA RunType ==
  ASSUME NEW p \in ParserStates, NEW s \in Text
  PROVE  Run(p, s) \in ParserStates
  <1>1. Len(s) \in 0 .. Len(s)
    BY TextAppend
  <1>2. QED
    BY <1>1, RunReads

LEMMA RunEmpty ==
  ASSUME NEW p \in ParserStates
  PROVE  Run(p, <<>>) = p
  BY RunReads, TextAppend DEF Reads

LEMMA RunAppend ==
  ASSUME NEW p \in ParserStates, NEW s \in Text, NEW c \in Chars
  PROVE  Run(p, Append(s, c)) = ReadChar(Run(p, s), c)
  <1> DEFINE n == Len(s)
             longer == Append(s, c)
  <1>1. /\ longer \in Text /\ Len(longer) = n + 1 /\ longer[n + 1] = c
        /\ n \in Nat /\ \A i \in 1 .. n : longer[i] = s[i]
    BY AppendProperties, LenProperties DEF Text
  <1> HIDE DEF longer, n
  <1>2. PICK g \in [0 .. n -> ParserStates] : Reads(g, p, s) /\ Run(p, s) = g[n]
    BY RunReads DEF n
  <1>3. PICK h \in [0 .. n + 1 -> ParserStates] : Reads(h, p, longer) /\ Run(p, longer) = h[n + 1]
    BY <1>1, RunReads
  <1> DEFINE T == {m \in Nat : m <= n => h[m] = g[m]}
  <1>4. 0 \in T
    BY <1>2, <1>3 DEF Reads
  <1>5. ASSUME NEW m \in Nat, m \in T
        PROVE  m + 1 \in T
    <2> SUFFICES ASSUME m + 1 <= n PROVE h[m + 1] = g[m + 1]
      OBVIOUS
    <2>1. m + 1 \in 1 .. n /\ m + 1 \in 1 .. n + 1 /\ (m + 1) - 1 = m /\ h[m] = g[m]
      BY <1>1, <1>5
    <2>2. /\ h[m + 1] = ReadChar(h[m], longer[m + 1])
          /\ g[m + 1] = ReadChar(g[m], s[m + 1])
      BY <1>1, <1>2, <1>3, <2>1 DEF Reads, n
    <2>3. QED
      BY <1>1, <2>1, <2>2
  <1> HIDE DEF T
  <1>6. h[n] = g[n]
    <2>1. n \in T
      BY <1>1, <1>4, <1>5, Induction
    <2>2. QED
      BY <1>1, <2>1 DEF T
  <1>7. h[n + 1] = ReadChar(h[n], c)
    <2>1. n + 1 \in 1 .. n + 1 /\ (n + 1) - 1 = n
      BY <1>1
    <2>2. QED
      BY <1>1, <1>3, <2>1 DEF Reads
  <1>8. QED
    BY <1>2, <1>3, <1>6, <1>7 DEF longer

LEMMA RunOne ==
  ASSUME NEW p \in ParserStates, NEW c \in Chars
  PROVE  Run(p, <<c>>) = ReadChar(p, c)
  <1>1. Append(<<>>, c) = <<c>> /\ <<>> \in Text
    BY TextAppend
  <1>2. Run(p, Append(<<>>, c)) = ReadChar(Run(p, <<>>), c)
    BY <1>1, RunAppend
  <1>3. QED
    BY <1>1, <1>2, RunEmpty

(* A fragment is read from where the one before it left the parser.         *)
LEMMA RunConcat ==
  ASSUME NEW p \in ParserStates, NEW s \in Text, NEW t \in Text
  PROVE  Run(p, s \o t) = Run(Run(p, s), t)
  <1> DEFINE T == {u \in Text : Run(p, s \o u) = Run(Run(p, s), u)}
  <1>1. <<>> \in T
    <2>1. s \o <<>> = s
      BY ConcatEmptySeq DEF Text
    <2>2. QED
      BY <2>1, RunType, RunEmpty, TextAppend
  <1>2. ASSUME NEW u \in Text, NEW c \in Chars, u \in T
        PROVE  Append(u, c) \in T
    <2>1. s \o u \in Text /\ Append(u, c) \in Text /\ s \o Append(u, c) = Append(s \o u, c)
      <3>1. /\ Append(u, c) = u \o <<c>> /\ Append(s \o u, c) = (s \o u) \o <<c>>
            /\ s \o u \in Text /\ <<c>> \in Text
        BY ConcatProperties, AppendIsConcat DEF Text
      <3>2. s \o (u \o <<c>>) = (s \o u) \o <<c>>
        BY <3>1, ConcatAssociative DEF Text
      <3>3. QED
        BY <3>1, <3>2, TextAppend
    <2>2. Run(p, Append(s \o u, c)) = ReadChar(Run(p, s \o u), c)
      BY <2>1, RunAppend
    <2>3. Run(Run(p, s), Append(u, c)) = ReadChar(Run(Run(p, s), u), c)
      BY RunType, RunAppend
    <2>4. QED
      BY <1>2, <2>1, <2>2, <2>3
  <1> HIDE DEF T
  <1>3. \A u \in Text : u \in T
    BY <1>1, <1>2, SequenceInduction DEF Text
  <1>4. QED
    BY <1>3 DEF T
-----------------------------------------------------------------------------
(* What was shown before does not matter: it only gets longer.              *)

Add(p, d, e) == [p EXCEPT !.delta = d \o @, !.events = e \o @]

LEMMA TextConcat ==
  /\ \A s, t \in Text : s \o t \in Text
  /\ \A s, t \in Text, c \in Chars : s \o Append(t, c) = Append(s \o t, c)
  /\ \A d, e \in Seq(Text) : d \o e \in Seq(Text)
  /\ \A d, e \in Seq(Text), t \in Text : d \o Append(e, t) = Append(d \o e, t)
  <1>1. ASSUME NEW S, NEW s \in Seq(S), NEW t \in Seq(S)
        PROVE  s \o t \in Seq(S) /\ \A x \in S : s \o Append(t, x) = Append(s \o t, x)
    <2>1. s \o t \in Seq(S)
      BY ConcatProperties
    <2> SUFFICES ASSUME NEW x \in S PROVE s \o Append(t, x) = Append(s \o t, x)
      BY <2>1
    <2>2. <<x>> \in Seq(S)
      OBVIOUS
    <2>3. Append(t, x) = t \o <<x>> /\ Append(s \o t, x) = (s \o t) \o <<x>>
      BY <2>1, AppendIsConcat
    <2>4. s \o (t \o <<x>>) = (s \o t) \o <<x>>
      BY <2>2, ConcatAssociative
    <2>5. QED
      BY <2>3, <2>4
  <1>2. QED
    BY <1>1 DEF Text

LEMMA TextAssociative ==
  \A r, s, t \in Text : (r \o s) \o t = r \o (s \o t)
  <1>1. ASSUME NEW S, NEW r \in Seq(S), NEW s \in Seq(S), NEW t \in Seq(S)
        PROVE  (r \o s) \o t = r \o (s \o t)
    BY ConcatAssociative
  <1>2. QED
    BY <1>1 DEF Text

LEMMA AddType ==
  ASSUME NEW p \in ParserStates, NEW d \in Text, NEW e \in Seq(Text)
  PROVE  Add(p, d, e) \in ParserStates
  <1>1. d \o p.delta \in Text /\ e \o p.events \in Seq(Text)
    BY TextConcat DEF ParserStates
  <1>2. QED
    BY <1>1 DEF Add, ParserStates

LEMMA EmitCharAdds ==
  ASSUME NEW p \in ParserStates, NEW c \in Chars, NEW d \in Text, NEW e \in Seq(Text)
  PROVE  EmitChar(Add(p, d, e), c) = Add(EmitChar(p, c), d, e)
  <1>1. d \o Append(p.delta, c) = Append(d \o p.delta, c)
    BY TextConcat DEF ParserStates
  <1>2. QED
    BY <1>1 DEF EmitChar, Add, ParserStates

LEMMA CloseStringAdds ==
  ASSUME NEW p \in ParserStates, NEW d \in Text, NEW e \in Seq(Text)
  PROVE  CloseString(Add(p, d, e)) = Add(CloseString(p), d, e)
  <1>1. e \o Append(p.events, p.currentChars) = Append(e \o p.events, p.currentChars)
    BY TextConcat DEF ParserStates
  <1> DEFINE q == Add(p, d, e)
  <1>2. /\ q \in ParserStates /\ q.stringIsValue = p.stringIsValue
        /\ q.currentKey = p.currentKey /\ q.currentChars = p.currentChars
        /\ q.title = p.title /\ q.descriptionDone = p.descriptionDone
        /\ q.events = e \o p.events
    BY AddType DEF Add, ParserStates
  <1> HIDE DEF q
  <1>3. CASE ~p.stringIsValue
    <2>1. CloseString(q) = [q EXCEPT !.inString = FALSE, !.currentKey = p.currentChars]
      BY <1>2, <1>3, CloseStringCases
    <2>2. CloseString(p) = [p EXCEPT !.inString = FALSE, !.currentKey = p.currentChars]
      BY <1>3, CloseStringCases
    <2>3. QED
      BY <2>1, <2>2 DEF q, Add, ParserStates
  <1>4. CASE p.stringIsValue /\ p.currentKey = <<TitleKey>> /\ p.title = <<>>
    <2>1. CloseString(q) = [q EXCEPT !.inString = FALSE, !.stringIsValue = FALSE,
                                     !.currentKey = <<>>, !.title = <<p.currentChars>>,
                                     !.events = Append(e \o p.events, p.currentChars)]
      <3>1. q.stringIsValue /\ q.currentKey = <<TitleKey>> /\ q.title = <<>>
        BY <1>2, <1>4
      <3>2. CloseString(q) = [q EXCEPT !.inString = FALSE, !.stringIsValue = FALSE,
                                       !.currentKey = <<>>, !.title = <<q.currentChars>>,
                                       !.events = Append(q.events, q.currentChars)]
        BY <1>2, <3>1, CloseStringCases
      <3>3. QED
        BY <1>2, <3>2
    <2>2. CloseString(p) = [p EXCEPT !.inString = FALSE, !.stringIsValue = FALSE,
                                     !.currentKey = <<>>, !.title = <<p.currentChars>>,
                                     !.events = Append(p.events, p.currentChars)]
      BY <1>4, CloseStringCases
    <2>3. QED
      BY <1>1, <2>1, <2>2, ZenonT(60) DEF q, Add, ParserStates
  <1>5. CASE p.stringIsValue /\ p.currentKey = <<DescriptionKey>> /\ ~p.descriptionDone
    <2>1. CloseString(q) = [q EXCEPT !.inString = FALSE, !.stringIsValue = FALSE,
                                     !.currentKey = <<>>,
                                     !.descriptionChars = p.currentChars,
                                     !.descriptionDone = TRUE]
      BY <1>2, <1>5, CloseStringCases
    <2>2. CloseString(p) = [p EXCEPT !.inString = FALSE, !.stringIsValue = FALSE,
                                     !.currentKey = <<>>,
                                     !.descriptionChars = p.currentChars,
                                     !.descriptionDone = TRUE]
      BY <1>5, CloseStringCases
    <2>3. QED
      BY <2>1, <2>2 DEF q, Add, ParserStates
  <1>6. CASE /\ p.stringIsValue /\ ~(p.currentKey = <<TitleKey>> /\ p.title = <<>>)
             /\ ~(p.currentKey = <<DescriptionKey>> /\ ~p.descriptionDone)
    <2>1. CloseString(q) = [q EXCEPT !.inString = FALSE, !.stringIsValue = FALSE,
                                     !.currentKey = <<>>]
      BY <1>2, <1>6, CloseStringCases
    <2>2. CloseString(p) = [p EXCEPT !.inString = FALSE, !.stringIsValue = FALSE,
                                     !.currentKey = <<>>]
      BY <1>6, CloseStringCases
    <2>3. QED
      BY <2>1, <2>2 DEF q, Add, ParserStates
  <1>7. QED
    BY <1>3, <1>4, <1>5, <1>6 DEF q

LEMMA HexDigitAdds ==
  ASSUME NEW p \in ParserStates, NEW c \in Chars, NEW d \in Text, NEW e \in Seq(Text),
         p.unicodePending # <<>>
  PROVE  HexDigit(Add(p, d, e), c) = Add(HexDigit(p, c), d, e)
  <1> DEFINE digits == Append(p.unicodePending[1], c)
             code == {i \in DOMAIN CodePoint : CodePoint[i] = digits}
             q == [p EXCEPT !.unicodePending = <<>>]
             r == [p EXCEPT !.unicodePending = <<digits>>]
  <1>1. Add(p, d, e).unicodePending = p.unicodePending
    BY DEF Add, ParserStates
  <1>2. /\ [Add(p, d, e) EXCEPT !.unicodePending = <<>>] = Add(q, d, e)
        /\ [Add(p, d, e) EXCEPT !.unicodePending = <<digits>>] = Add(r, d, e)
    BY DEF Add, ParserStates
  <1>3. q \in ParserStates
    BY DEF ParserStates
  <1> HIDE DEF q, r, digits
  <1>4. CASE Len(digits) < 4
    <2>1. HexDigit(p, c) = r
      BY <1>4 DEF HexDigit, digits, r
    <2>2. HexDigit(Add(p, d, e), c) = [Add(p, d, e) EXCEPT !.unicodePending = <<digits>>]
      BY <1>1, <1>4 DEF HexDigit, digits
    <2>3. QED
      BY <1>2, <2>1, <2>2
  <1>5. CASE ~(Len(digits) < 4)
    <2>1. Len(digits) = 4
      BY <1>5, PendingIsShort DEF digits
    <2>2. CASE code = {}
      BY <1>1, <1>2, <2>1, <2>2 DEF HexDigit, digits, q
    <2>3. CASE code # {}
      <3>1. Character[Max(code)] \in Chars
        BY <2>3, CodeIsOfChar
      <3>2. HexDigit(p, c) = EmitChar(q, Character[Max(code)])
        BY <2>1, <2>3 DEF HexDigit, digits, q
      <3>3. HexDigit(Add(p, d, e), c) = EmitChar(Add(q, d, e), Character[Max(code)])
        <4>1. Append(Add(p, d, e).unicodePending[1], c) = digits
          BY <1>1 DEF digits
        <4>2. QED
          BY <1>2, <2>1, <2>3, <4>1 DEF HexDigit
      <3>4. QED
        BY <1>3, <3>1, <3>2, <3>3, EmitCharAdds
    <2>4. QED
      BY <2>2, <2>3
  <1>6. QED
    BY <1>4, <1>5

LEMMA ReadCharAdds ==
  ASSUME NEW p \in ParserStates, NEW c \in Chars, NEW d \in Text, NEW e \in Seq(Text)
  PROVE  ReadChar(Add(p, d, e), c) = Add(ReadChar(p, c), d, e)
  <1> DEFINE q == Add(p, d, e)
  <1>0. q \in ParserStates
    BY AddType
  <1>1. /\ q.started = p.started /\ q.inString = p.inString
        /\ q.unicodePending = p.unicodePending /\ q.escape = p.escape
    BY DEF Add, ParserStates
  <1>2. [q EXCEPT !.started = (c = "{")] = Add([p EXCEPT !.started = (c = "{")], d, e)
    BY DEF Add, ParserStates
  <1>3. Outside(q, c) = Add(Outside(p, c), d, e)
    BY DEF Outside, Add, ParserStates
  <1>4. Escaped(q, c) = Add(Escaped(p, c), d, e)
    <2> DEFINE r == [p EXCEPT !.escape = FALSE]
    <2>1. [q EXCEPT !.escape = FALSE] = Add(r, d, e) /\ r \in ParserStates
      BY DEF Add, ParserStates
    <2>2. Unescape(c) \in Chars
      BY DEF Unescape, Chars
    <2>3. [Add(r, d, e) EXCEPT !.unicodePending = << <<>> >>]
            = Add([r EXCEPT !.unicodePending = << <<>> >>], d, e)
      BY <2>1 DEF Add, ParserStates
    <2> HIDE DEF q, r
    <2>4. EmitChar(Add(r, d, e), Unescape(c)) = Add(EmitChar(r, Unescape(c)), d, e)
      BY <2>1, <2>2, EmitCharAdds
    <2>5. QED
      BY <2>1, <2>3, <2>4 DEF Escaped, r
  <1>5. Plain(q, c) = Add(Plain(p, c), d, e)
    <2>1. [q EXCEPT !.escape = TRUE] = Add([p EXCEPT !.escape = TRUE], d, e)
      BY DEF Add, ParserStates
    <2>2. QED
      BY <2>1, EmitCharAdds, CloseStringAdds, ZenonT(60) DEF Plain
  <1> SUFFICES ReadChar(q, c) = Add(ReadChar(p, c), d, e)
    OBVIOUS
  <1> HIDE DEF q
  <1>6. CASE ~p.started
    BY <1>0, <1>1, <1>2, <1>6, ReadCharCases
  <1>7. CASE p.started /\ ~p.inString
    BY <1>0, <1>1, <1>3, <1>7, ReadCharCases
  <1>8. CASE p.started /\ p.inString /\ p.unicodePending # <<>>
    <2>1. HexDigit(q, c) = Add(HexDigit(p, c), d, e)
      BY <1>8, HexDigitAdds DEF q
    <2>2. QED
      BY <1>0, <1>1, <1>8, <2>1, ReadCharCases
  <1>9. CASE p.started /\ p.inString /\ p.unicodePending = <<>> /\ p.escape
    BY <1>0, <1>1, <1>4, <1>9, ReadCharCases
  <1>10. CASE p.started /\ p.inString /\ p.unicodePending = <<>> /\ ~p.escape
    BY <1>0, <1>1, <1>5, <1>10, ReadCharCases
  <1>11. QED
    BY <1>6, <1>7, <1>8, <1>9, <1>10

(* The parser shows of a text what it would have shown of it alone.         *)
LEMMA RunAdds ==
  ASSUME NEW p \in ParserStates, NEW s \in Text, NEW d \in Text, NEW e \in Seq(Text)
  PROVE  Run(Add(p, d, e), s) = Add(Run(p, s), d, e)
  <1> DEFINE T == {t \in Text : Run(Add(p, d, e), t) = Add(Run(p, t), d, e)}
  <1>1. <<>> \in T
    BY AddType, RunEmpty, TextAppend
  <1>2. ASSUME NEW t \in Text, NEW c \in Chars, t \in T
        PROVE  Append(t, c) \in T
    <2>1. Run(Add(p, d, e), Append(t, c)) = ReadChar(Add(Run(p, t), d, e), c)
      BY <1>2, AddType, RunAppend
    <2>2. Add(Run(p, Append(t, c)), d, e) = Add(ReadChar(Run(p, t), c), d, e)
      BY RunAppend
    <2>3. QED
      BY <2>1, <2>2, RunType, ReadCharAdds, TextAppend
  <1> HIDE DEF T
  <1>3. \A t \in Text : t \in T
    BY <1>1, <1>2, SequenceInduction DEF Text
  <1>4. QED
    BY <1>3 DEF T

-----------------------------------------------------------------------------
(* What the parser shows and what it keeps agree, whatever it reads.        *)

InDescription(p) == p.inString /\ p.stringIsValue /\ p.currentKey = <<DescriptionKey>>

Honest(p) ==
  /\ p.events = p.title
  /\ p.descriptionDone => p.delta = p.descriptionChars
  /\ ~p.descriptionDone => /\ p.descriptionChars = <<>>
                           /\ p.delta = IF InDescription(p) THEN p.currentChars ELSE <<>>

LEMMA EmitCharHonest ==
  ASSUME NEW p \in ParserStates, NEW c \in Chars, Honest(p), p.inString
  PROVE  Honest(EmitChar(p, c))
  <1> DEFINE q == EmitChar(p, c)
  <1>1. /\ q.events = p.events /\ q.title = p.title /\ q.descriptionDone = p.descriptionDone
        /\ q.descriptionChars = p.descriptionChars /\ q.currentKey = p.currentKey
        /\ q.inString = p.inString /\ q.stringIsValue = p.stringIsValue
        /\ q.currentChars = Append(p.currentChars, c)
    BY DEF EmitChar, ParserStates
  <1>2. CASE p.descriptionDone
    <2>1. q.delta = p.delta
      BY <1>2 DEF EmitChar, ParserStates
    <2> HIDE DEF q
    <2>2. QED
      BY <1>1, <1>2, <2>1 DEF Honest, q
  <1>3. CASE ~p.descriptionDone
    <2>1. q.delta = IF InDescription(p) THEN Append(p.delta, c) ELSE p.delta
      BY <1>3 DEF EmitChar, ParserStates, InDescription
    <2>2. InDescription(q) <=> InDescription(p)
      BY <1>1 DEF InDescription
    <2>3. p.delta = IF InDescription(p) THEN p.currentChars ELSE <<>>
      BY <1>3 DEF Honest
    <2> HIDE DEF q
    <2>4. q.delta = IF InDescription(q) THEN q.currentChars ELSE <<>>
      BY <1>1, <2>1, <2>2, <2>3
    <2>5. QED
      BY <1>1, <1>3, <2>4 DEF Honest, q
  <1>4. QED
    BY <1>2, <1>3 DEF ParserStates

LEMMA CloseStringHonest ==
  ASSUME NEW p \in ParserStates, Honest(p), p.inString
  PROVE  Honest(CloseString(p))
  <1> DEFINE q == CloseString(p)
  <1>1. p.stringIsValue \in BOOLEAN /\ p.descriptionDone \in BOOLEAN
    BY DEF ParserStates
  <1>2. CASE ~p.stringIsValue
    <2>1. q = [p EXCEPT !.inString = FALSE, !.currentKey = p.currentChars]
      BY <1>2, CloseStringCases
    <2>2. QED
      BY <1>2, <2>1 DEF Honest, InDescription, ParserStates
  <1>3. CASE p.stringIsValue /\ p.currentKey = <<TitleKey>> /\ p.title = <<>>
    <2>1. q = [p EXCEPT !.inString = FALSE, !.stringIsValue = FALSE,
                        !.currentKey = <<>>, !.title = <<p.currentChars>>,
                        !.events = Append(p.events, p.currentChars)]
      BY <1>3, CloseStringCases
    <2>2. Append(p.events, p.currentChars) = <<p.currentChars>>
      BY <1>3 DEF Honest
    <2>3. ~InDescription(p)
      BY <1>3 DEF InDescription, TitleKey, DescriptionKey
    <2>4. QED
      BY <2>1, <2>2, <2>3 DEF Honest, InDescription, ParserStates
  <1>4. CASE p.stringIsValue /\ p.currentKey = <<DescriptionKey>> /\ ~p.descriptionDone
    <2>1. q = [p EXCEPT !.inString = FALSE, !.stringIsValue = FALSE,
                        !.currentKey = <<>>,
                        !.descriptionChars = p.currentChars,
                        !.descriptionDone = TRUE]
      BY <1>4, CloseStringCases
    <2>2. p.delta = p.currentChars
      BY <1>4 DEF Honest, InDescription
    <2>3. QED
      BY <2>1, <2>2 DEF Honest, ParserStates
  <1>5. CASE /\ p.stringIsValue /\ ~(p.currentKey = <<TitleKey>> /\ p.title = <<>>)
             /\ ~(p.currentKey = <<DescriptionKey>> /\ ~p.descriptionDone)
    <2>1. q = [p EXCEPT !.inString = FALSE, !.stringIsValue = FALSE, !.currentKey = <<>>]
      BY <1>5, CloseStringCases
    <2>2. p.descriptionDone \/ ~InDescription(p)
      BY <1>5 DEF InDescription
    <2>3. QED
      BY <2>1, <2>2 DEF Honest, InDescription, ParserStates
  <1>6. QED
    BY <1>1, <1>2, <1>3, <1>4, <1>5

LEMMA HexDigitHonest ==
  ASSUME NEW p \in ParserStates, NEW c \in Chars, Honest(p), p.inString, p.unicodePending # <<>>
  PROVE  Honest(HexDigit(p, c))
  <1> DEFINE digits == Append(p.unicodePending[1], c)
             code == {i \in DOMAIN CodePoint : CodePoint[i] = digits}
             q == [p EXCEPT !.unicodePending = <<>>]
             r == [p EXCEPT !.unicodePending = <<digits>>]
  <1>1. /\ q \in ParserStates /\ Honest(q) /\ q.inString
        /\ Honest(r)
    BY DEF Honest, InDescription, ParserStates
  <1> HIDE DEF q, r, digits
  <1>2. CASE Len(digits) < 4
    BY <1>1, <1>2 DEF HexDigit, digits, r
  <1>3. CASE ~(Len(digits) < 4)
    <2>1. Len(digits) = 4
      BY <1>3, PendingIsShort DEF digits
    <2>2. CASE code = {}
      BY <1>1, <2>1, <2>2 DEF HexDigit, digits, q
    <2>3. CASE code # {}
      <3>1. Character[Max(code)] \in Chars
        BY <2>3, CodeIsOfChar
      <3>2. HexDigit(p, c) = EmitChar(q, Character[Max(code)])
        BY <2>1, <2>3 DEF HexDigit, digits, q
      <3>3. QED
        BY <1>1, <3>1, <3>2, EmitCharHonest
    <2>4. QED
      BY <2>2, <2>3
  <1>4. QED
    BY <1>2, <1>3

LEMMA ReadCharHonest ==
  ASSUME NEW p \in ParserStates, NEW c \in Chars, Honest(p)
  PROVE  Honest(ReadChar(p, c))
  <1>1. CASE ~p.started
    <2>1. ReadChar(p, c) = [p EXCEPT !.started = (c = "{")]
      BY <1>1, ReadCharCases
    <2>2. QED
      BY <2>1 DEF Honest, InDescription, ParserStates
  <1>2. CASE p.started /\ ~p.inString
    <2>1. ReadChar(p, c) = Outside(p, c)
      BY <1>2, ReadCharCases
    <2>2. QED
      BY <1>2, <2>1 DEF Outside, Honest, InDescription, ParserStates
  <1>3. CASE p.started /\ p.inString /\ p.unicodePending # <<>>
    <2>1. ReadChar(p, c) = HexDigit(p, c)
      BY <1>3, ReadCharCases
    <2>2. QED
      BY <1>3, <2>1, HexDigitHonest
  <1>4. CASE p.started /\ p.inString /\ p.unicodePending = <<>> /\ p.escape
    <2> DEFINE q == [p EXCEPT !.escape = FALSE]
               r == [q EXCEPT !.unicodePending = << <<>> >>]
    <2>1. ReadChar(p, c) = IF c = "u" THEN r ELSE EmitChar(q, Unescape(c))
      BY <1>4, ReadCharCases DEF Escaped
    <2>2. q \in ParserStates /\ Honest(q) /\ q.inString /\ Honest(r)
      BY <1>4 DEF Honest, InDescription, ParserStates
    <2>3. Unescape(c) \in Chars
      BY DEF Unescape, Chars
    <2> HIDE DEF q, r
    <2>4. QED
      BY <2>1, <2>2, <2>3, EmitCharHonest
  <1>5. CASE p.started /\ p.inString /\ p.unicodePending = <<>> /\ ~p.escape
    <2>1. ReadChar(p, c) = Plain(p, c)
      BY <1>5, ReadCharCases
    <2>2. Honest([p EXCEPT !.escape = TRUE])
      BY DEF Honest, InDescription, ParserStates
    <2>3. QED
      BY <1>5, <2>1, <2>2, EmitCharHonest, CloseStringHonest DEF Plain
  <1>6. QED
    BY <1>1, <1>2, <1>3, <1>4, <1>5 DEF ParserStates

LEMMA RunHonest ==
  ASSUME NEW s \in Text
  PROVE  Honest(Run(NewParser, s))
  <1> DEFINE T == {t \in Text : Honest(Run(NewParser, t))}
  <1>1. <<>> \in T
    <2>1. Honest(NewParser)
      BY DEF Honest, InDescription, NewParser
    <2>2. QED
      BY <2>1, NewParserType, RunEmpty, TextAppend
  <1>2. ASSUME NEW t \in Text, NEW c \in Chars, t \in T
        PROVE  Append(t, c) \in T
    <2>1. Run(NewParser, t) \in ParserStates
      BY NewParserType, RunType
    <2>2. Run(NewParser, Append(t, c)) = ReadChar(Run(NewParser, t), c)
      BY NewParserType, RunAppend
    <2>3. QED
      BY <1>2, <2>1, <2>2, ReadCharHonest, TextAppend
  <1> HIDE DEF T
  <1>3. \A t \in Text : t \in T
    BY <1>1, <1>2, SequenceInduction DEF Text
  <1>4. QED
    BY <1>3 DEF T
-----------------------------------------------------------------------------
(* Reading what stands inside a string *)

Units == [spelling : Text, meaning : Text, strict : BOOLEAN]

InText(p) == p.started /\ p.inString /\ ~p.escape /\ p.unicodePending = <<>>

Streams(p) == p.stringIsValue /\ p.currentKey = <<DescriptionKey>> /\ ~p.descriptionDone

(* EmitChar() of every character of s.                                      *)
Emit(p, s) ==
  [p EXCEPT !.currentChars = @ \o s, !.delta = IF Streams(p) THEN @ \o s ELSE @]

LEMMA EmitType ==
  ASSUME NEW p \in ParserStates, NEW s \in Text
  PROVE  /\ Emit(p, s) \in ParserStates
         /\ InText(p) => InText(Emit(p, s))
         /\ Streams(Emit(p, s)) <=> Streams(p)
  <1>1. p.currentChars \o s \in Text /\ p.delta \o s \in Text
    BY TextConcat DEF ParserStates
  <1>2. Emit(p, s) \in ParserStates
    BY <1>1 DEF Emit, ParserStates
  <1>3. QED
    BY <1>2 DEF Emit, InText, Streams, ParserStates

LEMMA EmitNothing ==
  ASSUME NEW p \in ParserStates
  PROVE  Emit(p, <<>>) = p
  <1>1. p.currentChars \o <<>> = p.currentChars /\ p.delta \o <<>> = p.delta
    BY ConcatEmptySeq DEF ParserStates, Text
  <1>2. QED
    BY <1>1 DEF Emit, ParserStates

LEMMA EmitOne ==
  ASSUME NEW p \in ParserStates, NEW c \in Chars
  PROVE  EmitChar(p, c) = Emit(p, <<c>>)
  <1>1. p.currentChars \o <<c>> = Append(p.currentChars, c) /\ p.delta \o <<c>> = Append(p.delta, c)
    BY AppendIsConcat DEF ParserStates, Text
  <1>2. QED
    BY <1>1 DEF Emit, EmitChar, Streams

LEMMA EmitTwice ==
  ASSUME NEW p \in ParserStates, NEW s \in Text, NEW t \in Text
  PROVE  Emit(Emit(p, s), t) = Emit(p, s \o t)
  <1>1. /\ (p.currentChars \o s) \o t = p.currentChars \o (s \o t)
        /\ (p.delta \o s) \o t = p.delta \o (s \o t)
    <2>1. p.currentChars \in Text /\ p.delta \in Text
      BY DEF ParserStates
    <2>2. QED
      BY <2>1, TextAssociative, ZenonT(60)
  <1>2. Streams(Emit(p, s)) <=> Streams(p)
    BY EmitType
  <1>3. CASE Streams(p)
    <2>1. Emit(p, s) = [p EXCEPT !.currentChars = @ \o s, !.delta = @ \o s]
      BY <1>3 DEF Emit
    <2>2. Emit(p, s \o t) = [p EXCEPT !.currentChars = @ \o (s \o t), !.delta = @ \o (s \o t)]
      BY <1>3 DEF Emit
    <2>3. Emit(Emit(p, s), t) = [Emit(p, s) EXCEPT !.currentChars = @ \o t, !.delta = @ \o t]
      BY <1>2, <1>3 DEF Emit
    <2>4. QED
      BY <1>1, <2>1, <2>2, <2>3, ZenonT(60) DEF ParserStates
  <1>4. CASE ~Streams(p)
    <2>1. Emit(p, s) = [p EXCEPT !.currentChars = @ \o s]
      BY <1>4 DEF Emit, ParserStates
    <2>2. Emit(p, s \o t) = [p EXCEPT !.currentChars = @ \o (s \o t)]
      BY <1>4 DEF Emit, ParserStates
    <2>3. Emit(Emit(p, s), t) = [Emit(p, s) EXCEPT !.currentChars = @ \o t]
      <3>1. Emit(p, s) \in ParserStates
        BY EmitType
      <3> DEFINE q == Emit(p, s)
      <3> HIDE DEF q
      <3>2. q \in ParserStates /\ ~Streams(q)
        BY <1>2, <1>4, <3>1 DEF q
      <3>3. Emit(q, t) = [q EXCEPT !.currentChars = @ \o t]
        BY <3>2 DEF Emit, ParserStates
      <3>4. QED
        BY <3>3 DEF q
    <2>4. QED
      BY <1>1, <2>1, <2>2, <2>3 DEF ParserStates
  <1>5. QED
    BY <1>3, <1>4

(* A character that is neither a quote nor a backslash stands for itself.   *)
LEMMA LetterIsRead ==
  ASSUME NEW p \in ParserStates, InText(p), NEW c \in Chars, c \notin {"\\", "\""}
  PROVE  ReadChar(p, c) = Emit(p, <<c>>)
  <1>1. ReadChar(p, c) = Plain(p, c)
    BY ReadCharCases DEF InText
  <1>2. QED
    BY <1>1, EmitOne DEF Plain

(* p has read the digits of an escape.                                      *)
Waits(p, digits) == [p EXCEPT !.unicodePending = <<digits>>]

LEMMA BackslashIsRead ==
  ASSUME NEW p \in ParserStates, InText(p), NEW c \in Chars
  PROVE  /\ "\\" \in Chars
         /\ Run(p, <<"\\", c>>) =
              IF c = "u" THEN Waits(p, <<>>) ELSE Emit(p, <<Unescape(c)>>)
  <1> DEFINE q == [p EXCEPT !.escape = TRUE]
  <1>1. "\\" \in Chars /\ Unescape(c) \in Chars
    BY DEF Chars, Unescape
  <1>2. ReadChar(p, "\\") = q
    BY <1>1, ReadCharCases DEF InText, Plain
  <1>3. /\ q \in ParserStates /\ q.started /\ q.inString /\ q.unicodePending = <<>>
        /\ q.escape /\ [q EXCEPT !.escape = FALSE] = p
    BY DEF InText, ParserStates
  <1> HIDE DEF q
  <1>4. ReadChar(q, c) = Escaped(q, c)
    BY <1>3, ReadCharCases
  <1>5. Escaped(q, c) = IF c = "u" THEN Waits(p, <<>>) ELSE Emit(p, <<Unescape(c)>>)
    BY <1>1, <1>3, EmitOne DEF Escaped, Waits
  <1>6. Run(p, <<"\\", c>>) = ReadChar(Run(p, <<"\\">>), c)
    <2>1. <<"\\", c>> = Append(<<"\\">>, c) /\ <<"\\">> \in Text
      BY <1>1 DEF Text
    <2>2. QED
      BY <2>1, RunAppend
  <1>7. Run(p, <<"\\">>) = q
    BY <1>1, <1>2, RunOne
  <1>8. QED
    BY <1>1, <1>4, <1>5, <1>6, <1>7

LEMMA WaitsIs ==
  ASSUME NEW p \in ParserStates, InText(p), NEW digits \in Text, Len(digits) < 4
  PROVE  LET q == Waits(p, digits)
         IN  /\ q \in ParserStates /\ q.started /\ q.inString /\ q.unicodePending = <<digits>>
             /\ q.unicodePending # <<>> /\ q.unicodePending[1] = digits
             /\ [q EXCEPT !.unicodePending = <<>>] = p
             /\ \A x : [q EXCEPT !.unicodePending = <<x>>] = Waits(p, x)
  <1> DEFINE q == Waits(p, digits)
  <1>1. <<digits>> \in {<<d>> : d \in {d \in Text : Len(d) < 4}}
    OBVIOUS
  <1>2. q.unicodePending = <<digits>>
    BY DEF Waits, ParserStates
  <1>3. q.unicodePending # <<>> /\ q.unicodePending[1] = digits
    BY <1>2
  <1>4. q \in ParserStates /\ q.started /\ q.inString
    BY <1>1 DEF Waits, InText, ParserStates
  <1>5. /\ [q EXCEPT !.unicodePending = <<>>] = p
        /\ \A x : [q EXCEPT !.unicodePending = <<x>>] = Waits(p, x)
    BY DEF Waits, InText, ParserStates
  <1>6. QED
    BY <1>2, <1>3, <1>4, <1>5

LEMMA DigitIsKept ==
  ASSUME NEW p \in ParserStates, InText(p), NEW digits \in Text, Len(digits) < 3,
         NEW c \in Chars
  PROVE  ReadChar(Waits(p, digits), c) = Waits(p, Append(digits, c))
  <1> DEFINE q == Waits(p, digits)
  <1>1. Len(Append(digits, c)) < 4 /\ Len(digits) < 4
    BY TextAppend
  <1>2. /\ q \in ParserStates /\ q.started /\ q.inString
        /\ q.unicodePending # <<>> /\ q.unicodePending[1] = digits
        /\ \A x : [q EXCEPT !.unicodePending = <<x>>] = Waits(p, x)
    BY <1>1, WaitsIs
  <1> HIDE DEF q
  <1>3. ReadChar(q, c) = HexDigit(q, c)
    BY <1>2, ReadCharCases
  <1>4. HexDigit(q, c) = [q EXCEPT !.unicodePending = <<Append(digits, c)>>]
    BY <1>1, <1>2 DEF HexDigit
  <1>5. QED
    BY <1>2, <1>3, <1>4 DEF q

LEMMA CodeIsRead ==
  ASSUME NEW p \in ParserStates, InText(p), NEW i \in DOMAIN CodePoint, CodePoint[i] \in Text
  PROVE  /\ Character[i] \in Chars
         /\ Run(Waits(p, <<>>), CodePoint[i]) = Emit(p, <<Character[i]>>)
  <1> DEFINE d == CodePoint[i]
  <1>1. DOMAIN CodePoint = 1 .. 3 /\ i \in 1 .. 3
    BY DEF CodePoint
  <1>2. Len(d) = 4
    <2>1. i = 1 \/ i = 2 \/ i = 3
      BY <1>1
    <2>2. QED
      BY <2>1 DEF CodePoint
  <1>3. {j \in DOMAIN CodePoint : CodePoint[j] = d} = {i} /\ Max({i}) = i /\ Character[i] \in Chars
    BY CodesDiffer
  <1>4. d \in Text
    OBVIOUS
  <1> HIDE DEF d
  <1>5. /\ d[1] \in Chars /\ d[2] \in Chars /\ d[3] \in Chars /\ d[4] \in Chars
        /\ d = <<d[1], d[2], d[3], d[4]>>
    BY <1>2, <1>4, ShortSequences DEF Text
  <1> DEFINE s1 == <<d[1]>> s2 == <<d[1], d[2]>> s3 == <<d[1], d[2], d[3]>>
  <1>6. /\ <<>> \in Text /\ s1 \in Text /\ s2 \in Text /\ s3 \in Text
    BY <1>5 DEF Text
  <1>7. /\ Len(<<>>) < 3 /\ Len(s1) < 3 /\ Len(s2) < 3 /\ Len(s3) < 4
        /\ s1 = Append(<<>>, d[1]) /\ s2 = Append(s1, d[2]) /\ s3 = Append(s2, d[3])
    OBVIOUS
  <1>8. d = Append(s3, d[4])
    BY <1>5
  <1> HIDE DEF s1, s2, s3
  <1> DEFINE q == Waits(p, <<>>) r == Waits(p, s3)
  <1>9. /\ ReadChar(q, d[1]) = Waits(p, s1)
        /\ ReadChar(Waits(p, s1), d[2]) = Waits(p, s2)
        /\ ReadChar(Waits(p, s2), d[3]) = r
    <2>1. ReadChar(q, d[1]) = Waits(p, Append(<<>>, d[1]))
      BY <1>5, <1>6, <1>7, DigitIsKept
    <2>2. ReadChar(Waits(p, s1), d[2]) = Waits(p, Append(s1, d[2]))
      BY <1>5, <1>6, <1>7, DigitIsKept
    <2>3. ReadChar(Waits(p, s2), d[3]) = Waits(p, Append(s2, d[3]))
      BY <1>5, <1>6, <1>7, DigitIsKept
    <2>4. QED
      BY <1>7, <2>1, <2>2, <2>3
  <1>10. q \in ParserStates
    <2>1. Len(<<>>) < 4
      OBVIOUS
    <2>2. QED
      BY <1>6, <2>1, WaitsIs
  <1>11. ReadChar(r, d[4]) = Emit(p, <<Character[i]>>)
    <2>1. /\ r \in ParserStates /\ r.started /\ r.inString
          /\ r.unicodePending # <<>> /\ r.unicodePending[1] = s3
          /\ [r EXCEPT !.unicodePending = <<>>] = p
      BY <1>6, <1>7, WaitsIs, ZenonT(60)
    <2> HIDE DEF r
    <2>2. ReadChar(r, d[4]) = HexDigit(r, d[4])
      BY <1>5, <2>1, ReadCharCases
    <2>3. HexDigit(r, d[4]) = EmitChar(p, Character[i])
      <3>1. Append(r.unicodePending[1], d[4]) = d
        BY <1>8, <2>1
      <3>2. Len(Append(r.unicodePending[1], d[4])) = 4
        BY <1>2, <3>1
      <3> DEFINE code == {j \in DOMAIN CodePoint : CodePoint[j] = Append(r.unicodePending[1], d[4])}
      <3>3. code # {} /\ Max(code) = i
        BY <1>3, <3>1
      <3>4. HexDigit(r, d[4]) = EmitChar([r EXCEPT !.unicodePending = <<>>], Character[Max(code)])
        BY <3>2, <3>3 DEF HexDigit
      <3>5. QED
        BY <2>1, <3>3, <3>4
    <2>4. QED
      BY <1>3, <2>2, <2>3, EmitOne
  <1> HIDE DEF q, r
  <1>12. Run(q, d) = Emit(p, <<Character[i]>>)
    <2>1. Run(q, Append(<<>>, d[1])) = ReadChar(Run(q, <<>>), d[1])
      BY <1>5, <1>6, <1>10, RunAppend
    <2>2. Run(q, Append(s1, d[2])) = ReadChar(Run(q, s1), d[2])
      BY <1>5, <1>6, <1>10, RunAppend
    <2>3. Run(q, Append(s2, d[3])) = ReadChar(Run(q, s2), d[3])
      BY <1>5, <1>6, <1>10, RunAppend
    <2>4. Run(q, Append(s3, d[4])) = ReadChar(Run(q, s3), d[4])
      BY <1>5, <1>6, <1>10, RunAppend
    <2>5. Run(q, <<>>) = q
      BY <1>10, RunEmpty
    <2>6. QED
      BY <1>7, <1>8, <1>9, <1>11, <2>1, <2>2, <2>3, <2>4, <2>5
  <1>13. QED
    BY <1>3, <1>12 DEF q, d

(* A unit is read as what it means.                                         *)
LEMMA UnitIsRead ==
  ASSUME NEW p \in ParserStates, InText(p), NEW u \in Units, PlainUnit(u)
  PROVE  Run(p, u.spelling) = Emit(p, u.meaning)
  <1> DEFINE s == u.spelling
  <1>1. s \in Text /\ u.meaning \in Text
    BY DEF Units
  <1> HIDE DEF s
  <1>3. CASE Len(s) = 1 /\ s[1] \notin {"\\", "\""} /\ u.meaning = s
    <2>1. s = <<s[1]>> /\ s[1] \in Chars
      BY <1>1, <1>3, ShortSequences DEF Text
    <2>2. Run(p, <<s[1]>>) = Emit(p, <<s[1]>>)
      BY <1>3, <2>1, RunOne, LetterIsRead
    <2>3. QED
      BY <1>3, <2>1, <2>2 DEF s
  <1>4. CASE Len(s) = 2 /\ s[1] = "\\" /\ s[2] # "u" /\ u.meaning = <<Unescape(s[2])>>
    <2>1. s = <<s[1], s[2]>> /\ s[2] \in Chars
      BY <1>1, <1>4, ShortSequences DEF Text
    <2>2. Run(p, <<"\\", s[2]>>) = Emit(p, <<Unescape(s[2])>>)
      BY <1>4, <2>1, BackslashIsRead
    <2>3. QED
      BY <1>4, <2>1, <2>2 DEF s
  <1>5. ASSUME NEW i \in DOMAIN CodePoint, s = <<"\\", "u">> \o CodePoint[i],
               u.meaning = <<Character[i]>>
        PROVE  Run(p, s) = Emit(p, u.meaning)
    <2> DEFINE d == CodePoint[i]
               front == <<"\\", "u">>
               All == Chars \cup {"u"} \cup Range(d)
    <2>1. d \in Seq(Range(d))
      <3>1. DOMAIN CodePoint = 1 .. 3
        BY DEF CodePoint
      <3>2. i = 1 \/ i = 2 \/ i = 3
        BY <3>1
      <3>3. \E x1, x2, x3, x4 : d = <<x1, x2, x3, x4>>
        BY <3>2 DEF CodePoint
      <3> HIDE DEF d
      <3>4. PICK x1, x2, x3, x4 : d = <<x1, x2, x3, x4>>
        BY <3>3
      <3> DEFINE S == Range(<<x1, x2, x3, x4>>)
      <3>5. x1 \in S /\ x2 \in S /\ x3 \in S /\ x4 \in S
        BY DEF Range
      <3> HIDE DEF S
      <3>6. <<x1, x2, x3, x4>> \in Seq(S)
        BY <3>5
      <3>7. QED
        BY <3>4, <3>6 DEF S
    <2> HIDE DEF d
    <2>2. d \in Seq(All) /\ front \in Seq(All)
      <3>1. "\\" \in Chars
        BY DEF Chars
      <3>2. "\\" \in All /\ "u" \in All /\ Range(d) \subseteq All
        BY <3>1
      <3> HIDE DEF All
      <3>3. QED
        BY <2>1, <3>2, SeqMonotonic
    <2>3. Range(s) = Range(front) \cup Range(d) /\ Range(s) \subseteq Chars
      <3>1. Range(front \o d) = Range(front) \cup Range(d)
        BY <2>2, RangeConcatenation, ZenonT(60)
      <3>2. QED
        BY <1>1, <1>5, <3>1, RangeOfSeq DEF d, Text
    <2>4. "\\" \in Chars /\ "u" \in Chars /\ d \in Text
      <3>1. "\\" \in Range(front) /\ "u" \in Range(front)
        BY DEF Range
      <3>2. d \in Seq(Chars)
        BY <2>1, <2>3, SeqMonotonic
      <3>3. QED
        BY <2>3, <3>1, <3>2 DEF Text
    <2>5. front \in Text /\ Run(p, front) = Waits(p, <<>>)
      <3>1. Run(p, <<"\\", "u">>) = IF "u" = "u" THEN Waits(p, <<>>) ELSE Emit(p, <<Unescape("u")>>)
        BY <2>4, BackslashIsRead
      <3>2. <<"\\", "u">> \in Text
        BY <2>4 DEF Text
      <3>3. QED
        BY <3>1, <3>2
    <2>6. Run(p, s) = Run(Waits(p, <<>>), d)
      BY <1>5, <2>4, <2>5, RunConcat DEF d
    <2>7. Run(Waits(p, <<>>), d) = Emit(p, <<Character[i]>>)
      BY <2>4, CodeIsRead DEF d
    <2>8. QED
      BY <1>5, <2>6, <2>7
  <1>6. QED
    BY <1>3, <1>4, <1>5 DEF PlainUnit, s

LEMMA SpellingAppend ==
  /\ Spelling(<<>>) = <<>> /\ Meaning(<<>>) = <<>>
  /\ \A value \in Seq(Units) : Spelling(value) \in Text /\ Meaning(value) \in Text
  /\ \A value \in Seq(Units), u \in Units :
       /\ Spelling(Append(value, u)) = Spelling(value) \o u.spelling
       /\ Meaning(Append(value, u)) = Meaning(value) \o u.meaning
  <1>1. Spelling(<<>>) = <<>> /\ Meaning(<<>>) = <<>>
    <2>1. [i \in DOMAIN <<>> |-> <<>>[i].spelling] = <<>>
          /\ [i \in DOMAIN <<>> |-> <<>>[i].meaning] = <<>>
      OBVIOUS
    <2>2. QED
      BY <2>1, FlattenEmpty DEF Spelling, Meaning
  <1>2. ASSUME NEW value \in Seq(Units)
        PROVE  /\ [i \in DOMAIN value |-> value[i].spelling] \in Seq(Text)
               /\ [i \in DOMAIN value |-> value[i].meaning] \in Seq(Text)
    <2>1. DOMAIN value = 1 .. Len(value) /\ Len(value) \in Nat
          /\ \A i \in 1 .. Len(value) : value[i] \in Units
      BY LenProperties
    <2>2. \A u \in Units : u.spelling \in Text /\ u.meaning \in Text
      BY DEF Units
    <2>3. QED
      BY <2>1, <2>2
  <1>3. \A value \in Seq(Units) : Spelling(value) \in Text /\ Meaning(value) \in Text
    BY <1>2, FlattenType DEF Spelling, Meaning, Text
  <1>4. ASSUME NEW value \in Seq(Units), NEW u \in Units
        PROVE  /\ Spelling(Append(value, u)) = Spelling(value) \o u.spelling
               /\ Meaning(Append(value, u)) = Meaning(value) \o u.meaning
    <2> DEFINE longer == Append(value, u)
               spellings == [i \in DOMAIN value |-> value[i].spelling]
               meanings == [i \in DOMAIN value |-> value[i].meaning]
    <2>1. spellings \in Seq(Text) /\ meanings \in Seq(Text)
          /\ u.spelling \in Text /\ u.meaning \in Text
      BY <1>2 DEF Units
    <2>2. [i \in DOMAIN longer |-> longer[i].spelling] = Append(spellings, u.spelling)
      OBVIOUS
    <2>3. [i \in DOMAIN longer |-> longer[i].meaning] = Append(meanings, u.meaning)
      OBVIOUS
    <2> HIDE DEF longer, spellings, meanings
    <2>4. /\ FlattenSeq(Append(spellings, u.spelling)) = FlattenSeq(spellings) \o u.spelling
          /\ FlattenSeq(Append(meanings, u.meaning)) = FlattenSeq(meanings) \o u.meaning
      BY <2>1, FlattenAppend DEF Text
    <2>5. QED
      BY <2>2, <2>3, <2>4 DEF Spelling, Meaning, longer, spellings, meanings
  <1>5. QED
    BY <1>1, <1>3, <1>4

(* A string is read as what it means.                                       *)
LEMMA ValueIsRead ==
  ASSUME NEW p \in ParserStates, InText(p), NEW value \in Seq(Units),
         \A i \in DOMAIN value : PlainUnit(value[i])
  PROVE  Run(p, Spelling(value)) = Emit(p, Meaning(value))
  <1> DEFINE T == {v \in Seq(Units) : (\A i \in DOMAIN v : PlainUnit(v[i])) =>
                                        Run(p, Spelling(v)) = Emit(p, Meaning(v))}
  <1>1. <<>> \in T
    BY SpellingAppend, RunEmpty, EmitNothing
  <1>2. ASSUME NEW v \in Seq(Units), NEW u \in Units, v \in T
        PROVE  Append(v, u) \in T
    <2> SUFFICES ASSUME \A i \in DOMAIN Append(v, u) : PlainUnit(Append(v, u)[i])
                 PROVE  Run(p, Spelling(Append(v, u))) = Emit(p, Meaning(Append(v, u)))
      BY AppendProperties
    <2>1. PlainUnit(u) /\ \A i \in DOMAIN v : PlainUnit(v[i])
      <3>1. /\ DOMAIN v = 1 .. Len(v) /\ DOMAIN Append(v, u) = 1 .. Len(v) + 1 /\ Len(v) \in Nat
            /\ Append(v, u)[Len(v) + 1] = u
            /\ \A i \in 1 .. Len(v) : Append(v, u)[i] = v[i]
        BY AppendProperties, LenProperties
      <3>2. Len(v) + 1 \in 1 .. Len(v) + 1 /\ \A i \in 1 .. Len(v) : i \in 1 .. Len(v) + 1
        BY <3>1
      <3>3. QED
        BY <3>1, <3>2
    <2> DEFINE q == Emit(p, Meaning(v))
    <2>2. /\ Spelling(v) \in Text /\ Meaning(v) \in Text /\ u.spelling \in Text /\ u.meaning \in Text
          /\ Run(p, Spelling(v)) = q
      BY <1>2, <2>1, SpellingAppend DEF Units
    <2>3. q \in ParserStates /\ InText(q)
      BY <2>2, EmitType
    <2>4. Run(p, Spelling(Append(v, u))) = Run(q, u.spelling)
      <3>1. Run(p, Spelling(v) \o u.spelling) = Run(Run(p, Spelling(v)), u.spelling)
        BY <2>2, RunConcat
      <3>2. QED
        BY <2>2, <3>1, SpellingAppend
    <2>5. Run(q, u.spelling) = Emit(q, u.meaning)
      BY <2>1, <2>3, UnitIsRead
    <2>6. Emit(q, u.meaning) = Emit(p, Meaning(v) \o u.meaning)
      BY <2>2, EmitTwice
    <2>7. QED
      BY <2>4, <2>5, <2>6, SpellingAppend
  <1> HIDE DEF T
  <1>3. \A v \in Seq(Units) : v \in T
    BY <1>1, <1>2, SequenceInduction
  <1>4. QED
    BY <1>3 DEF T
-----------------------------------------------------------------------------
(* Reading a member *)

LEMMA Marks ==
  /\ "\"" \in Chars /\ ":" \in Chars /\ " " \in Chars /\ "," \in Chars
  /\ "{" \in Chars /\ "}" \in Chars /\ "\\" \in Chars
  BY DEF Chars

LEMMA ShortText ==
  /\ \A c \in Chars : <<c>> \in Text
  /\ \A c, d : <<c, d>> = Append(<<c>>, d)
  <1>1. \A c \in Chars : <<c>> \in Text
    BY DEF Text
  <1>2. ASSUME NEW c, NEW d PROVE <<c, d>> = Append(<<c>>, d)
    OBVIOUS
  <1>3. QED
    BY <1>1, <1>2

(* Between strings, inside the object.                                      *)
Rests(p) == p.started /\ ~p.inString /\ ~p.escape /\ p.unicodePending = <<>>

SameShown(p, q) ==
  q.title = p.title /\ q.delta = p.delta /\ q.descriptionDone = p.descriptionDone

(* The next string is neither the title nor the description.                *)
Harmless(p) == p.stringIsValue => p.currentKey \notin {<<TitleKey>>, <<DescriptionKey>>}

(* q is p with a title and a description, each <<>> or of one member, where *)
(* p has none.                                                              *)
Took(p, q, title, description) ==
  /\ q.title = IF p.title = <<>> THEN title ELSE p.title
  /\ q.delta = IF p.descriptionDone \/ description = <<>> THEN p.delta
                                                          ELSE p.delta \o description[1]
  /\ q.descriptionDone <=> p.descriptionDone \/ description # <<>>

(* The value that comes next is that of key.                                *)
AtValue(p, key) ==
  [p EXCEPT !.currentChars = <<key>>, !.currentKey = <<key>>, !.stringIsValue = TRUE]

LEMMA StringOpens ==
  ASSUME NEW p \in ParserStates, Rests(p)
  PROVE  LET q == [p EXCEPT !.inString = TRUE, !.currentChars = <<>>]
         IN  ReadChar(p, "\"") = q /\ q \in ParserStates /\ InText(q)
  <1>1. ReadChar(p, "\"") = [p EXCEPT !.inString = TRUE, !.currentChars = <<>>]
    BY Marks, ReadCharCases DEF Rests, Outside
  <1>2. QED
    BY <1>1, TextAppend DEF Rests, InText, ParserStates

LEMMA StringCloses ==
  ASSUME NEW p \in ParserStates, InText(p)
  PROVE  ReadChar(p, "\"") = CloseString(p)
  BY Marks, ReadCharCases DEF InText, Plain

LEMMA KeyIsRead ==
  ASSUME NEW p \in ParserStates, Rests(p), ~p.stringIsValue,
         NEW key \in Chars, key \notin {"\\", "\""}
  PROVE  LET q == AtValue(p, key)
             s == Quoted(<<key>>) \o <<":", " ">>
         IN  s \in Text /\ Run(p, s) = q /\ q \in ParserStates /\ Rests(q)
  <1> DEFINE p1 == [p EXCEPT !.inString = TRUE, !.currentChars = <<>>]
             p2 == Emit(p1, <<key>>)
             p3 == [p EXCEPT !.currentChars = <<key>>, !.currentKey = <<key>>]
             q == AtValue(p, key)
             quote == <<"\"">>
  <1>1. <<key>> \in Text /\ quote \in Text /\ <<":">> \in Text /\ <<":", " ">> \in Text
        /\ <<":", " ">> = Append(<<":">>, " ")
    <2>1. <<":">> \in Text /\ quote \in Text /\ <<key>> \in Text
      BY ShortText, Marks
    <2>2. <<":", " ">> = Append(<<":">>, " ")
      BY ShortText
    <2>3. QED
      BY <2>1, <2>2, Marks, TextAppend
  <1>2. p3 \in ParserStates /\ Rests(p3) /\ q \in ParserStates /\ Rests(q)
    BY <1>1 DEF AtValue, Rests, ParserStates
  <1>3. ReadChar(p, "\"") = p1 /\ p1 \in ParserStates /\ InText(p1)
    BY StringOpens
  <1>4. ReadChar(p1, key) = p2 /\ p2 \in ParserStates /\ InText(p2)
    <2> HIDE DEF p1
    <2>1. QED
      BY <1>1, <1>3, EmitType, LetterIsRead
  <1>5. CloseString(p2) = p3
    <2>1. <<>> \o <<key>> = <<key>>
      BY <1>1, ConcatEmptySeq DEF Text
    <2>2. p1.currentChars = <<>> /\ ~Streams(p1)
      BY DEF Streams, ParserStates
    <2>3. p2 = [p1 EXCEPT !.currentChars = <<key>>]
      <3> HIDE DEF p1
      <3>1. QED
        BY <1>3, <2>1, <2>2 DEF Emit, ParserStates
    <2>4. p2 = [p EXCEPT !.inString = TRUE, !.currentChars = <<key>>]
      BY <2>3 DEF ParserStates
    <2>5. ~p2.stringIsValue /\ p2.currentChars = <<key>>
      BY <2>4 DEF ParserStates
    <2>6. CloseString(p2) = [p2 EXCEPT !.inString = FALSE, !.currentKey = <<key>>]
      <3> HIDE DEF p2
      <3>1. QED
        BY <1>4, <2>5, CloseStringCases
    <2> HIDE DEF p1, p2
    <2>7. QED
      BY <2>4, <2>6 DEF Rests, ParserStates
  <1>6. ReadChar(p3, ":") = q
    <2>1. ReadChar(p3, ":") = Outside(p3, ":")
      BY <1>2, Marks, ReadCharCases DEF Rests
    <2>2. QED
      BY <2>1 DEF Outside, AtValue, ParserStates
  <1>7. ReadChar(q, " ") = q
    <2> HIDE DEF q
    <2>1. ReadChar(q, " ") = Outside(q, " ")
      BY <1>2, Marks, ReadCharCases DEF Rests
    <2>2. QED
      BY <2>1 DEF Outside
  <1> HIDE DEF p1, p2, p3, q
  <1>8. quote \o <<key>> \in Text /\ Quoted(<<key>>) \in Text
        /\ Quoted(<<key>>) = (quote \o <<key>>) \o quote
    BY <1>1, TextConcat DEF Quoted
  <1>9. Run(p, quote \o <<key>>) = p2
    <2>1. Run(p, quote \o <<key>>) = Run(Run(p, quote), <<key>>)
      BY <1>1, RunConcat
    <2>2. Run(p, quote) = p1 /\ Run(p1, <<key>>) = p2
      BY <1>3, <1>4, Marks, RunOne
    <2>3. QED
      BY <2>1, <2>2
  <1>10. Run(p, Quoted(<<key>>)) = p3
    <2>1. Run(p, (quote \o <<key>>) \o quote) = Run(Run(p, quote \o <<key>>), quote)
      BY <1>1, <1>8, RunConcat
    <2>2. Run(p2, quote) = p3
      BY <1>4, <1>5, Marks, RunOne, StringCloses
    <2>3. QED
      BY <1>8, <1>9, <2>1, <2>2
  <1>11. Run(p3, <<":", " ">>) = q
    <2>1. Run(p3, Append(<<":">>, " ")) = ReadChar(Run(p3, <<":">>), " ")
      BY <1>1, <1>2, Marks, RunAppend
    <2>2. Run(p3, <<":">>) = q
      BY <1>2, <1>6, Marks, RunOne
    <2>3. QED
      BY <1>1, <1>7, <2>1, <2>2
  <1>12. Run(p, Quoted(<<key>>) \o <<":", " ">>) = Run(Run(p, Quoted(<<key>>)), <<":", " ">>)
    BY <1>1, <1>8, RunConcat
  <1>13. Quoted(<<key>>) \o <<":", " ">> \in Text
    BY <1>1, <1>8, TextConcat
  <1>14. QED
    BY <1>2, <1>10, <1>11, <1>12, <1>13 DEF q

(* The title is whole when its string closes; the description came in       *)
(* pieces before.                                                           *)
LEMMA StringIsRead ==
  ASSUME NEW p \in ParserStates, Rests(p), p.stringIsValue,
         NEW value \in Seq(Units), \A i \in DOMAIN value : PlainUnit(value[i])
  PROVE  LET q == Run(p, Quoted(Spelling(value)))
             Told(key) == IF p.currentKey = <<key>> THEN <<Meaning(value)>> ELSE <<>>
         IN  Rests(q) /\ Took(p, q, Told(TitleKey), Told(DescriptionKey))
  <1> DEFINE s == Spelling(value)
             t == Meaning(value)
             quote == <<"\"">>
             p1 == [p EXCEPT !.inString = TRUE, !.currentChars = <<>>]
             p2 == Emit(p1, t)
             q == CloseString(p2)
  <1>1. s \in Text /\ t \in Text /\ quote \in Text
    <2>1. quote \in Text
      BY ShortText, Marks
    <2>2. QED
      BY <2>1, SpellingAppend
  <1>2. ReadChar(p, "\"") = p1 /\ p1 \in ParserStates /\ InText(p1)
    BY StringOpens
  <1>3. p2 \in ParserStates /\ InText(p2) /\ Run(p1, s) = p2
    <2> HIDE DEF p1
    <2>1. QED
      BY <1>1, <1>2, EmitType, ValueIsRead
  <1>4. Run(p, Quoted(s)) = q
    <2> HIDE DEF p1, p2, q, s
    <2>1. quote \o s \in Text /\ Quoted(s) = (quote \o s) \o quote
      BY <1>1, TextConcat DEF Quoted
    <2>2. Run(p, quote \o s) = p2
      <3>1. Run(p, quote \o s) = Run(Run(p, quote), s)
        BY <1>1, RunConcat
      <3>2. Run(p, quote) = p1
        BY <1>2, Marks, RunOne
      <3>3. QED
        BY <1>3, <3>1, <3>2
    <2>3. Run(p, (quote \o s) \o quote) = Run(Run(p, quote \o s), quote)
      BY <1>1, <2>1, RunConcat
    <2>4. Run(p2, quote) = q
      BY <1>3, Marks, RunOne, StringCloses DEF q
    <2>5. QED
      BY <2>1, <2>2, <2>3, <2>4
  <1>5. /\ p2.currentChars = t /\ p2.title = p.title /\ p2.stringIsValue
        /\ p2.currentKey = p.currentKey /\ p2.descriptionDone = p.descriptionDone
        /\ p2.started /\ ~p2.escape /\ p2.unicodePending = <<>>
        /\ p2.delta = IF p.currentKey = <<DescriptionKey>> /\ ~p.descriptionDone
                      THEN p.delta \o t ELSE p.delta
    <2>1. <<>> \o t = t
      BY <1>1, ConcatEmptySeq DEF Text
    <2>2. /\ p1.currentChars = <<>> /\ p1.title = p.title /\ p1.stringIsValue
          /\ p1.currentKey = p.currentKey /\ p1.descriptionDone = p.descriptionDone
          /\ p1.delta = p.delta
      BY DEF ParserStates
    <2> HIDE DEF p1
    <2>3. /\ p2.currentChars = p1.currentChars \o t /\ p2.title = p1.title
          /\ p2.stringIsValue = p1.stringIsValue
          /\ p2.currentKey = p1.currentKey /\ p2.descriptionDone = p1.descriptionDone
      BY <1>2 DEF Emit, ParserStates
    <2>4. p2.delta = IF Streams(p1) THEN p1.delta \o t ELSE p1.delta
      BY <1>2 DEF Emit, ParserStates
    <2>5. QED
      BY <1>3, <2>1, <2>2, <2>3, <2>4 DEF Streams, InText
  <1> HIDE DEF p1, p2, t
  <1> DEFINE Told(key) == IF p.currentKey = <<key>> THEN <<t>> ELSE <<>>
  <1>6. <<TitleKey>> # <<DescriptionKey>> /\ <<t>> # <<>> /\ <<t>>[1] = t
    BY DEF TitleKey, DescriptionKey
  <1>7. p.descriptionDone \in BOOLEAN /\ p2.descriptionDone \in BOOLEAN
    BY <1>3 DEF ParserStates
  <1>8. Rests(q) /\ Took(p, q, Told(TitleKey), Told(DescriptionKey))
    <2>1. CASE p.currentKey = <<TitleKey>> /\ p.title = <<>>
      <3>0. p2.stringIsValue /\ p2.currentKey = <<TitleKey>> /\ p2.title = <<>>
        BY <1>5, <2>1
      <3>1. q = [p2 EXCEPT !.inString = FALSE, !.stringIsValue = FALSE,
                           !.currentKey = <<>>, !.title = <<p2.currentChars>>,
                           !.events = Append(p2.events, p2.currentChars)]
        BY <1>3, <3>0, CloseStringCases
      <3>2. /\ q.title = <<t>> /\ q.delta = p2.delta /\ q.descriptionDone = p2.descriptionDone
            /\ Rests(q)
        BY <1>3, <1>5, <3>1 DEF Rests, ParserStates
      <3> HIDE DEF q
      <3>3. QED
        BY <1>5, <1>6, <1>7, <2>1, <3>2 DEF Took
    <2>2. CASE p.currentKey = <<DescriptionKey>> /\ ~p.descriptionDone
      <3>1. q = [p2 EXCEPT !.inString = FALSE, !.stringIsValue = FALSE,
                           !.currentKey = <<>>,
                           !.descriptionChars = t,
                           !.descriptionDone = TRUE]
        BY <1>3, <1>5, <2>2, CloseStringCases
      <3>2. q.title = p2.title /\ q.delta = p2.delta /\ q.descriptionDone /\ Rests(q)
        BY <1>3, <1>5, <3>1 DEF Rests, ParserStates
      <3> HIDE DEF q
      <3>3. QED
        BY <1>5, <1>6, <1>7, <2>2, <3>2 DEF Took
    <2>3. CASE /\ ~(p.currentKey = <<TitleKey>> /\ p.title = <<>>)
               /\ ~(p.currentKey = <<DescriptionKey>> /\ ~p.descriptionDone)
      <3>1. q = [p2 EXCEPT !.inString = FALSE, !.stringIsValue = FALSE, !.currentKey = <<>>]
        BY <1>3, <1>5, <2>3, CloseStringCases
      <3>2. /\ q.title = p2.title /\ q.delta = p2.delta
            /\ q.descriptionDone = p2.descriptionDone /\ Rests(q)
        BY <1>3, <1>5, <3>1 DEF Rests, ParserStates
      <3> HIDE DEF q
      <3>3. QED
        BY <1>5, <1>6, <1>7, <2>3, <3>2 DEF Took
    <2>4. QED
      BY <2>1, <2>2, <2>3
  <1>9. QED
    BY <1>4, <1>8 DEF t
(* Letters inside a string stand for themselves.                            *)
Letters == Chars \ {"\\", "\""}

LEMMA LettersAreRead ==
  ASSUME NEW p \in ParserStates, InText(p), NEW s \in Seq(Letters)
  PROVE  s \in Text /\ Run(p, s) = Emit(p, s)
  <1> DEFINE T == {t \in Text : Run(p, t) = Emit(p, t)}
  <1>1. <<>> \in T
    BY RunEmpty, EmitNothing, TextAppend
  <1>2. ASSUME NEW t \in Seq(Letters), NEW c \in Letters, t \in T
        PROVE  Append(t, c) \in T
    <2>1. c \in Chars /\ c \notin {"\\", "\""} /\ t \in Text
      BY <1>2 DEF Letters
    <2>2. Run(p, Append(t, c)) = ReadChar(Emit(p, t), c)
      BY <1>2, <2>1, RunAppend
    <2>3. ReadChar(Emit(p, t), c) = Emit(Emit(p, t), <<c>>)
      BY <2>1, EmitType, LetterIsRead
    <2>4. Emit(Emit(p, t), <<c>>) = Emit(p, t \o <<c>>)
      BY <2>1, ShortText, EmitTwice
    <2>5. t \o <<c>> = Append(t, c)
      BY <2>1, AppendIsConcat DEF Text
    <2>6. QED
      BY <2>1, <2>2, <2>3, <2>4, <2>5, TextAppend
  <1> HIDE DEF T
  <1>3. \A t \in Seq(Letters) : t \in T
    BY <1>1, <1>2, SequenceInduction
  <1>4. QED
    BY <1>3 DEF T

LEMMA TextBetween ==
  ASSUME NEW s \in Text, Len(s) >= 2
  PROVE  LET n == Len(s) mid == SubSeq(s, 2, n - 1)
         IN  /\ s = (<<s[1]>> \o mid) \o <<s[n]>>
             /\ mid \in Text /\ Len(mid) = n - 2
             /\ \A i \in 1 .. n - 2 : mid[i] = s[i + 1]
  <1> DEFINE n == Len(s) mid == SubSeq(s, 2, n - 1)
  <1>1. n \in Nat /\ n >= 2 /\ \A i \in 1 .. n : s[i] \in Chars
    BY LenProperties DEF Text
  <1> HIDE DEF n
  <1>2. s = SubSeq(s, 1, n)
    BY SubSeqFull DEF Text, n
  <1>3. SubSeq(s, 1, n) = SubSeq(s, 1, n - 1) \o <<s[n]>>
    <2>1. 1 \in 1 .. Len(s) /\ n \in 1 .. Len(s)
      BY <1>1 DEF n
    <2>2. QED
      BY <2>1, SubSeqRecursiveSecond DEF Text
  <1>4. SubSeq(s, 1, n - 1) = <<s[1]>> \o mid
    <2>1. 1 \in 1 .. Len(s) /\ n - 1 \in 1 .. Len(s) /\ 1 + 1 = 2
      BY <1>1 DEF n
    <2>2. SubSeq(s, 1, n - 1) = <<s[1]>> \o SubSeq(s, 1 + 1, n - 1)
      BY <2>1, SubSeqRecursiveFirst DEF Text
    <2>3. QED
      BY <2>1, <2>2
  <1>5. /\ mid \in Seq(Chars) /\ Len(mid) = n - 2
        /\ \A i \in 1 .. n - 2 : mid[i] = s[i + 1]
    <2>1. 2 \in Int /\ n - 1 \in Int /\ \A i \in 2 .. n - 1 : s[i] \in Chars
      BY <1>1
    <2>2. /\ SubSeq(s, 2, n - 1) \in Seq(Chars)
          /\ Len(SubSeq(s, 2, n - 1)) = IF 2 <= n - 1 THEN (n - 1) - 2 + 1 ELSE 0
          /\ \A i \in 1 .. (n - 1) - 2 + 1 : SubSeq(s, 2, n - 1)[i] = s[2 + i - 1]
      BY <2>1, SubSeqProperties
    <2>3. QED
      BY <1>1, <2>2
  <1>6. QED
    BY <1>2, <1>3, <1>4, <1>5 DEF n, Text

(* A token of a bare value shows nothing.                                   *)
LEMMA TokenIsRead ==
  ASSUME NEW p \in ParserStates, Rests(p), Harmless(p), NEW u \in Units, PlainToken(u)
  PROVE  LET q == Run(p, u.spelling)
         IN  q \in ParserStates /\ Rests(q) /\ Harmless(q) /\ SameShown(p, q)
  <1> DEFINE s == u.spelling n == Len(s)
  <1>1. s \in Text /\ n \in Nat
    BY TextAppend DEF Units
  <1> HIDE DEF s
  <1>2. Run(p, s) \in ParserStates
    BY <1>1, RunType
  <1>3. CASE n = 1 /\ s[1] \notin {":", "\""}
    <2> DEFINE q == ReadChar(p, s[1])
    <2>1. s = <<s[1]>> /\ s[1] \in Chars
      BY <1>1, <1>3, ShortSequences DEF Text
    <2>2. q = Outside(p, s[1])
      BY <2>1, ReadCharCases DEF Rests
    <2>3. q = p \/ q = [p EXCEPT !.stringIsValue = FALSE]
      BY <1>3, <2>2 DEF Outside
    <2>4. Run(p, s) = q
      BY <2>1, RunOne
    <2> HIDE DEF q
    <2>5. Rests(q) /\ Harmless(q) /\ SameShown(p, q)
      BY <2>3 DEF Rests, Harmless, SameShown, ParserStates
    <2>6. QED
      BY <1>2, <2>4, <2>5 DEF s
  <1>4. CASE /\ n >= 2 /\ s[1] = "\"" /\ s[n] = "\""
             /\ \A i \in 2 .. n - 1 : s[i] \notin {"\\", "\""}
    <2> DEFINE quote == <<"\"">>
               mid == SubSeq(s, 2, n - 1)
               p1 == [p EXCEPT !.inString = TRUE, !.currentChars = <<>>]
               p2 == Emit(p1, mid)
               q == CloseString(p2)
    <2>1. quote \in Text
      BY ShortText, Marks
    <2>2. /\ s = (quote \o mid) \o quote /\ mid \in Text /\ Len(mid) = n - 2
          /\ \A i \in 1 .. n - 2 : mid[i] = s[i + 1]
      BY <1>1, <1>4, TextBetween
    <2>3. mid \in Seq(Letters)
      <3>1. \A i \in 1 .. Len(mid) : mid[i] \in Letters
        <4>1. \A i \in 1 .. Len(mid) : mid[i] \in Chars
          BY <2>2, LenProperties DEF Text
        <4>2. \A i \in 1 .. n - 2 : i + 1 \in 2 .. n - 1
          BY <1>1
        <4>3. QED
          BY <1>4, <2>2, <4>1, <4>2 DEF Letters
      <3>2. mid = [i \in 1 .. Len(mid) |-> mid[i]] /\ Len(mid) \in Nat
        BY <2>2, LenProperties DEF Text
      <3> HIDE DEF mid
      <3>3. QED
        BY <3>1, <3>2, IsASeq
    <2> HIDE DEF mid
    <2>4. ReadChar(p, "\"") = p1 /\ p1 \in ParserStates /\ InText(p1)
      BY StringOpens
    <2>5. p2 \in ParserStates /\ InText(p2) /\ Run(p1, mid) = p2
      <3> HIDE DEF p1
      <3>1. QED
        BY <2>2, <2>3, <2>4, EmitType, LettersAreRead
    <2>6. Run(p, s) = q
      <3> HIDE DEF p1, p2, q
      <3>1. quote \o mid \in Text
        BY <2>1, <2>2, TextConcat
      <3>2. Run(p, quote \o mid) = Run(Run(p, quote), mid)
        BY <2>1, <2>2, RunConcat
      <3>3. Run(p, quote) = p1
        BY <2>4, Marks, RunOne
      <3>4. Run(p, (quote \o mid) \o quote) = Run(Run(p, quote \o mid), quote)
        BY <2>1, <3>1, RunConcat
      <3>5. Run(p2, quote) = q
        BY <2>5, Marks, RunOne, StringCloses DEF q
      <3>6. QED
        BY <2>2, <2>5, <3>2, <3>3, <3>4, <3>5
    <2>7. /\ p2.title = p.title /\ p2.delta = p.delta
          /\ p2.descriptionDone = p.descriptionDone
          /\ p2.stringIsValue = p.stringIsValue /\ p2.currentKey = p.currentKey
      <3>1. ~Streams(p1)
        BY DEF Streams, Harmless, ParserStates
      <3>2. /\ p1.title = p.title /\ p1.stringIsValue = p.stringIsValue
            /\ p1.currentKey = p.currentKey /\ p1.descriptionDone = p.descriptionDone
            /\ p1.delta = p.delta
        BY DEF ParserStates
      <3> HIDE DEF p1
      <3>3. QED
        BY <2>4, <3>1, <3>2 DEF Emit, ParserStates
    <2> HIDE DEF p1, p2
    <2>8. \/ q = [p2 EXCEPT !.inString = FALSE, !.currentKey = p2.currentChars]
             /\ ~p2.stringIsValue
          \/ q = [p2 EXCEPT !.inString = FALSE, !.stringIsValue = FALSE, !.currentKey = <<>>]
      <3>1. p2.stringIsValue => p2.currentKey # <<TitleKey>> /\ p2.currentKey # <<DescriptionKey>>
        BY <2>7 DEF Harmless
      <3>2. p2.stringIsValue \in BOOLEAN
        BY <2>5 DEF ParserStates
      <3>3. CASE ~p2.stringIsValue
        BY <2>5, <3>3, CloseStringCases
      <3>4. CASE p2.stringIsValue
        BY <2>5, <3>1, <3>4, CloseStringCases
      <3>5. QED
        BY <3>2, <3>3, <3>4
    <2> HIDE DEF q
    <2>9. Rests(q) /\ Harmless(q) /\ SameShown(p, q)
      BY <2>5, <2>7, <2>8, ZenonT(60) DEF Rests, InText, Harmless, SameShown, ParserStates
    <2>10. QED
      BY <1>2, <2>6, <2>9 DEF s
  <1>5. QED
    BY <1>3, <1>4 DEF PlainToken, s

(* Neither does the whole of it.                                            *)
LEMMA BareIsRead ==
  ASSUME NEW p \in ParserStates, Rests(p), Harmless(p), NEW value \in Seq(Units),
         \A i \in DOMAIN value : PlainToken(value[i])
  PROVE  LET q == Run(p, Spelling(value))
         IN  q \in ParserStates /\ Rests(q) /\ SameShown(p, q)
  <1> DEFINE Quiet(q) == q \in ParserStates /\ Rests(q) /\ Harmless(q) /\ SameShown(p, q)
             T == {v \in Seq(Units) : (\A i \in DOMAIN v : PlainToken(v[i])) =>
                                        Quiet(Run(p, Spelling(v)))}
  <1>1. <<>> \in T
    BY SpellingAppend, RunEmpty DEF SameShown
  <1>2. ASSUME NEW v \in Seq(Units), NEW u \in Units, v \in T
        PROVE  Append(v, u) \in T
    <2> SUFFICES ASSUME \A i \in DOMAIN Append(v, u) : PlainToken(Append(v, u)[i])
                 PROVE  Quiet(Run(p, Spelling(Append(v, u))))
      BY AppendProperties
    <2>1. PlainToken(u) /\ \A i \in DOMAIN v : PlainToken(v[i])
      <3>1. /\ DOMAIN v = 1 .. Len(v) /\ DOMAIN Append(v, u) = 1 .. Len(v) + 1 /\ Len(v) \in Nat
            /\ Append(v, u)[Len(v) + 1] = u
            /\ \A i \in 1 .. Len(v) : Append(v, u)[i] = v[i]
        BY AppendProperties, LenProperties
      <3>2. Len(v) + 1 \in 1 .. Len(v) + 1 /\ \A i \in 1 .. Len(v) : i \in 1 .. Len(v) + 1
        BY <3>1
      <3>3. QED
        BY <3>1, <3>2
    <2> DEFINE q == Run(p, Spelling(v)) r == Run(q, u.spelling)
    <2>2. Spelling(v) \in Text /\ u.spelling \in Text /\ Quiet(q)
      BY <1>2, <2>1, SpellingAppend DEF Units
    <2>3. Run(p, Spelling(v) \o u.spelling) = r
      BY <2>2, RunConcat
    <2>4. r \in ParserStates /\ Rests(r) /\ Harmless(r) /\ SameShown(q, r)
      <3> HIDE DEF q
      <3>1. QED
        BY <2>1, <2>2, TokenIsRead
    <2>5. QED
      BY <2>2, <2>3, <2>4, SpellingAppend DEF SameShown
  <1> HIDE DEF T
  <1>3. \A v \in Seq(Units) : v \in T
    BY <1>1, <1>2, SequenceInduction
  <1>4. QED
    BY <1>3 DEF T
Members == [key : Chars, quoted : BOOLEAN, value : Seq(Units)]

(* The conjunct of PlainlySpelled() about one member.                       *)
PlainMember(m) ==
  /\ m.key \notin {"\\", "\""}
  /\ m.quoted => \A j \in DOMAIN m.value : PlainUnit(m.value[j])
  /\ ~m.quoted => /\ m.key \notin {TitleKey, DescriptionKey}
                  /\ \A j \in DOMAIN m.value : PlainToken(m.value[j])

(* What a member says of a key.                                             *)
Told(m, key) == IF m.key = key THEN <<Meaning(m.value)>> ELSE <<>>

LEMMA QuotedType ==
  \A s \in Text : Quoted(s) \in Text
  <1>1. <<"\"">> \in Text
    BY ShortText, Marks
  <1>2. QED
    BY <1>1, TextConcat DEF Quoted

LEMMA MemberTextType ==
  ASSUME NEW m \in Members
  PROVE  /\ MemberText(m) = (Quoted(<<m.key>>) \o <<":", " ">>)
                              \o (IF m.quoted THEN Quoted(Spelling(m.value)) ELSE Spelling(m.value))
         /\ Quoted(<<m.key>>) \o <<":", " ">> \in Text
         /\ Spelling(m.value) \in Text /\ Quoted(Spelling(m.value)) \in Text
         /\ MemberText(m) \in Text
  <1>1. <<m.key>> \in Text /\ <<":", " ">> \in Text
    <2>1. <<":", " ">> = Append(<<":">>, " ") /\ <<":">> \in Text
      BY ShortText, Marks
    <2>2. QED
      BY <2>1, ShortText, TextAppend, Marks DEF Members
  <1>2. Spelling(m.value) \in Text /\ Quoted(Spelling(m.value)) \in Text
    BY SpellingAppend, QuotedType DEF Members
  <1>3. Quoted(<<m.key>>) \o <<":", " ">> \in Text
    BY <1>1, QuotedType, TextConcat
  <1>4. QED
    BY <1>2, <1>3, TextConcat DEF MemberText

LEMMA MemberIsRead ==
  ASSUME NEW p \in ParserStates, Rests(p), ~p.stringIsValue,
         NEW m \in Members, PlainMember(m)
  PROVE  LET q == Run(p, MemberText(m))
         IN  /\ q \in ParserStates /\ Rests(q)
             /\ Took(p, q, Told(m, TitleKey), Told(m, DescriptionKey))
  <1> DEFINE r == AtValue(p, m.key)
             front == Quoted(<<m.key>>) \o <<":", " ">>
             back == IF m.quoted THEN Quoted(Spelling(m.value)) ELSE Spelling(m.value)
             q == Run(r, back)
  <1>1. front \in Text /\ back \in Text /\ MemberText(m) = front \o back /\ MemberText(m) \in Text
    BY MemberTextType
  <1>2. Run(p, front) = r /\ r \in ParserStates /\ Rests(r)
    BY KeyIsRead DEF PlainMember, Members
  <1>3. /\ r.title = p.title /\ r.delta = p.delta /\ r.descriptionDone = p.descriptionDone
        /\ r.stringIsValue /\ r.currentKey = <<m.key>>
    BY DEF AtValue, ParserStates
  <1>4. \A k : <<m.key>> = <<k>> <=> m.key = k
    OBVIOUS
  <1> HIDE DEF r, front
  <1>5. Run(p, MemberText(m)) = q /\ q \in ParserStates
    <2> HIDE DEF back
    <2>1. Run(p, front \o back) = Run(Run(p, front), back)
      BY <1>1, RunConcat
    <2>2. q \in ParserStates
      BY <1>1, <1>2, RunType
    <2>3. QED
      BY <1>1, <1>2, <2>1, <2>2
  <1>6. CASE m.quoted
    <2> DEFINE Spoken(key) == IF r.currentKey = <<key>> THEN <<Meaning(m.value)>> ELSE <<>>
    <2>1. m.value \in Seq(Units) /\ \A i \in DOMAIN m.value : PlainUnit(m.value[i])
      BY <1>6 DEF PlainMember, Members
    <2>2. Rests(q) /\ Took(r, q, Spoken(TitleKey), Spoken(DescriptionKey))
      BY <1>2, <1>3, <1>6, <2>1, StringIsRead
    <2>3. Spoken(TitleKey) = Told(m, TitleKey) /\ Spoken(DescriptionKey) = Told(m, DescriptionKey)
      BY <1>3, <1>4 DEF Told
    <2> HIDE DEF Spoken, q
    <2>4. Took(p, q, Told(m, TitleKey), Told(m, DescriptionKey))
      BY <1>3, <2>2, <2>3 DEF Took
    <2>5. QED
      BY <1>5, <2>2, <2>4
  <1>7. CASE ~m.quoted
    <2>1. m.value \in Seq(Units) /\ \A i \in DOMAIN m.value : PlainToken(m.value[i])
      BY <1>7 DEF PlainMember, Members
    <2>2. m.key # TitleKey /\ m.key # DescriptionKey
      BY <1>7 DEF PlainMember
    <2>3. Harmless(r)
      BY <1>3, <1>4, <2>2 DEF Harmless
    <2>4. Rests(q) /\ SameShown(r, q)
      BY <1>2, <1>7, <2>1, <2>3, BareIsRead
    <2>5. Told(m, TitleKey) = <<>> /\ Told(m, DescriptionKey) = <<>>
      BY <2>2 DEF Told
    <2> HIDE DEF q
    <2>6. Took(p, q, <<>>, <<>>)
      BY <1>3, <2>4 DEF Took, SameShown
    <2>7. QED
      BY <1>5, <2>4, <2>5, <2>6
  <1>8. QED
    BY <1>6, <1>7 DEF Members
-----------------------------------------------------------------------------
(* Reading an object *)

(* The first of two that is there.                                          *)
Either(a, b) == IF a = <<>> THEN b ELSE a

LEMMA TookTwice ==
  ASSUME NEW p \in ParserStates, NEW q \in ParserStates, NEW r \in ParserStates,
         NEW a, NEW b, NEW c, NEW d, Took(p, q, a, b), Took(q, r, c, d)
  PROVE  Took(p, r, Either(a, c), Either(b, d))
  <1>1. p.descriptionDone \in BOOLEAN /\ q.descriptionDone \in BOOLEAN
    BY DEF ParserStates
  <1>2. r.title = IF p.title = <<>> THEN Either(a, c) ELSE p.title
    BY DEF Took, Either
  <1>3. r.descriptionDone <=> p.descriptionDone \/ Either(b, d) # <<>>
    BY <1>1 DEF Took, Either
  <1>4. r.delta = IF p.descriptionDone \/ Either(b, d) = <<>> THEN p.delta
                                                              ELSE p.delta \o Either(b, d)[1]
    <2>1. CASE p.descriptionDone
      BY <1>1, <2>1 DEF Took
    <2>2. CASE ~p.descriptionDone /\ b # <<>>
      BY <1>1, <2>2 DEF Took, Either
    <2>3. CASE ~p.descriptionDone /\ b = <<>>
      BY <1>1, <2>3 DEF Took, Either
    <2>4. QED
      BY <1>1, <2>1, <2>2, <2>3
  <1>5. QED
    BY <1>2, <1>3, <1>4 DEF Took

LEMMA SaidOfMore ==
  ASSUME NEW doc \in Seq(Members), NEW m \in Members, NEW key,
         LET longer == Append(doc, m)
         IN  \A i, j \in DOMAIN longer : longer[i].key = longer[j].key => i = j
  PROVE  /\ Said(<<>>, key) = <<>>
         /\ Said(Append(doc, m), key) = Either(Said(doc, key), Told(m, key))
  <1> DEFINE longer == Append(doc, m)
             n == Len(doc)
             places == {i \in DOMAIN doc : doc[i].key = key}
             more == {i \in DOMAIN longer : longer[i].key = key}
  <1>1. /\ DOMAIN doc = 1 .. n /\ DOMAIN longer = 1 .. n + 1 /\ n \in Nat
        /\ longer[n + 1] = m /\ \A i \in 1 .. n : longer[i] = doc[i]
    BY AppendProperties, LenProperties
  <1>2. \A i, j \in 1 .. n + 1 : longer[i].key = longer[j].key => i = j
    BY <1>1
  <1>3. Said(<<>>, key) = <<>>
    BY DEF Said
  <1>4. Said(doc, key) = IF places = {} THEN <<>>
                         ELSE <<Meaning(doc[CHOOSE i \in places : TRUE].value)>>
    BY DEF Said
  <1>5. Said(longer, key) = IF more = {} THEN <<>>
                            ELSE <<Meaning(longer[CHOOSE i \in more : TRUE].value)>>
    BY DEF Said
  <1> HIDE DEF longer, n
  <1>6. \A i \in more : more = {i}
    BY <1>1, <1>2
  <1>7. \A i \in more : Said(longer, key) = <<Meaning(longer[i].value)>>
    BY <1>5, <1>6
  <1>8. CASE m.key = key
    <2>1. n + 1 \in more
      BY <1>1, <1>8
    <2>2. places = {}
      <3>1. \A i \in places : i \in more /\ i # n + 1
        BY <1>1
      <3>2. QED
        BY <1>6, <2>1, <3>1
    <2>3. Said(longer, key) = <<Meaning(m.value)>>
      BY <1>1, <1>7, <2>1
    <2>4. Said(doc, key) = <<>> /\ Told(m, key) = <<Meaning(m.value)>>
      BY <1>4, <1>8, <2>2 DEF Told
    <2>5. QED
      BY <1>3, <2>3, <2>4 DEF Either, longer
  <1>9. CASE m.key # key
    <2>1. Told(m, key) = <<>>
      BY <1>9 DEF Told
    <2>2. more = places
      BY <1>1, <1>9
    <2>3. CASE places = {}
      BY <1>3, <1>4, <1>5, <2>1, <2>2, <2>3 DEF Either, longer
    <2>4. CASE places # {}
      <3>1. PICK i \in places : i = CHOOSE j \in places : TRUE
        BY <2>4
      <3>2. longer[i] = doc[i]
        BY <1>1
      <3>3. Said(doc, key) = <<Meaning(doc[i].value)>> /\ Said(doc, key) # <<>>
        BY <1>4, <2>4, <3>1
      <3>4. Said(longer, key) = Said(doc, key)
        BY <1>7, <2>2, <3>2, <3>3
      <3>5. QED
        BY <1>3, <3>3, <3>4 DEF Either, longer
    <2>5. QED
      BY <2>3, <2>4
  <1>10. QED
    BY <1>8, <1>9
(* A member with the comma before it.                                       *)
Part(i, m) == (IF i = 1 THEN <<>> ELSE <<",">>) \o MemberText(m)

Body(doc) == FlattenSeq([i \in DOMAIN doc |-> Part(i, doc[i])])

LEMMA BodyAppend ==
  /\ Body(<<>>) = <<>>
  /\ \A doc \in Seq(Members) : Body(doc) \in Text
  /\ \A doc \in Seq(Members), m \in Members :
       Body(Append(doc, m)) = Body(doc) \o Part(Len(doc) + 1, m)
  <1>1. Body(<<>>) = <<>>
    <2>1. [i \in DOMAIN <<>> |-> Part(i, <<>>[i])] = <<>>
      OBVIOUS
    <2>2. QED
      BY <2>1, FlattenEmpty DEF Body
  <1>2. \A i \in Nat, m \in Members : Part(i, m) \in Text
    <2>1. <<",">> \in Text /\ <<>> \in Text
      BY ShortText, Marks, TextAppend
    <2>2. QED
      BY <2>1, MemberTextType, TextConcat DEF Part
  <1>3. ASSUME NEW doc \in Seq(Members)
        PROVE  [i \in DOMAIN doc |-> Part(i, doc[i])] \in Seq(Text)
    <2>1. DOMAIN doc = 1 .. Len(doc) /\ Len(doc) \in Nat
          /\ \A i \in 1 .. Len(doc) : doc[i] \in Members /\ i \in Nat
      BY LenProperties
    <2>2. QED
      BY <1>2, <2>1
  <1>4. \A doc \in Seq(Members) : Body(doc) \in Text
    BY <1>3, FlattenType DEF Body, Text
  <1>5. ASSUME NEW doc \in Seq(Members), NEW m \in Members
        PROVE  Body(Append(doc, m)) = Body(doc) \o Part(Len(doc) + 1, m)
    <2> DEFINE longer == Append(doc, m)
               parts == [i \in DOMAIN doc |-> Part(i, doc[i])]
               last == Part(Len(doc) + 1, m)
    <2>1. parts \in Seq(Text) /\ last \in Text
      <3>1. Len(doc) + 1 \in Nat
        BY LenProperties
      <3>2. QED
        BY <1>2, <1>3, <3>1
    <2>2. [i \in DOMAIN longer |-> Part(i, longer[i])] = Append(parts, last)
      OBVIOUS
    <2> HIDE DEF longer, parts, last
    <2>3. FlattenSeq(Append(parts, last)) = FlattenSeq(parts) \o last
      BY <2>1, FlattenAppend DEF Text
    <2>4. QED
      BY <2>2, <2>3 DEF Body, longer, parts, last
  <1>6. QED
    BY <1>1, <1>4, <1>5

LEMMA RenderingIs ==
  ASSUME NEW doc \in Seq(Members)
  PROVE  /\ Rendering(doc) = (<<"{">> \o Body(doc)) \o <<"}">>
         /\ <<"{">> \in Text /\ <<"}">> \in Text /\ <<"{">> \o Body(doc) \in Text
         /\ Rendering(doc) \in Text
  <1>1. Rendering(doc) = (<<"{">> \o Body(doc)) \o <<"}">>
    BY DEF Rendering, Body, Part
  <1>2. <<"{">> \in Text /\ <<"}">> \in Text
    BY ShortText, Marks
  <1>3. <<"{">> \o Body(doc) \in Text
    BY <1>2, BodyAppend, TextConcat
  <1>4. (<<"{">> \o Body(doc)) \o <<"}">> \in Text
    BY <1>2, <1>3, TextConcat
  <1>5. QED
    BY <1>1, <1>2, <1>3, <1>4

LEMMA PlainlySpelledLess ==
  ASSUME NEW doc \in Seq(Members), NEW m \in Members, PlainlySpelled(Append(doc, m))
  PROVE  /\ PlainlySpelled(doc) /\ PlainMember(m)
         /\ LET longer == Append(doc, m)
            IN  \A i, j \in DOMAIN longer : longer[i].key = longer[j].key => i = j
  <1> DEFINE longer == Append(doc, m)
             n == Len(doc)
  <1>1. /\ DOMAIN doc = 1 .. n /\ DOMAIN longer = 1 .. n + 1 /\ n \in Nat
        /\ longer[n + 1] = m /\ \A i \in 1 .. n : longer[i] = doc[i]
        /\ n + 1 \in 1 .. n + 1 /\ \A i \in 1 .. n : i \in 1 .. n + 1
    BY AppendProperties, LenProperties
  <1> HIDE DEF longer, n
  <1>2. PlainlySpelled(longer)
    BY DEF longer
  <1>3. /\ \A i, j \in 1 .. n + 1 : longer[i].key = longer[j].key => i = j
        /\ \A i \in 1 .. n + 1 : PlainMember(longer[i])
    BY <1>1, <1>2 DEF PlainlySpelled, PlainMember
  <1>4. /\ \A i, j \in 1 .. n : doc[i].key = doc[j].key => i = j
        /\ \A i \in 1 .. n : PlainMember(doc[i])
    BY <1>1, <1>3
  <1>5. PlainlySpelled(doc)
    BY <1>1, <1>4 DEF PlainlySpelled, PlainMember
  <1>6. PlainMember(m)
    BY <1>1, <1>3
  <1>7. QED
    BY <1>1, <1>3, <1>5, <1>6 DEF longer

(* The members of an object, from its brace.                                *)
LEMMA BodyIsRead ==
  ASSUME NEW p \in ParserStates, Rests(p), ~p.stringIsValue,
         NEW doc \in Seq(Members), PlainlySpelled(doc)
  PROVE  LET q == Run(p, Body(doc))
         IN  /\ q \in ParserStates /\ Rests(q)
             /\ Took(p, q, Said(doc, TitleKey), Said(doc, DescriptionKey))
  <1> DEFINE Done(q, d) == /\ q \in ParserStates /\ Rests(q)
                           /\ Took(p, q, Said(d, TitleKey), Said(d, DescriptionKey))
             T == {d \in Seq(Members) : PlainlySpelled(d) =>
                     /\ Done(Run(p, Body(d)), d)
                     /\ d = <<>> => ~Run(p, Body(d)).stringIsValue}
  <1>1. <<>> \in T
    <2>1. Run(p, Body(<<>>)) = p
      BY BodyAppend, RunEmpty
    <2>2. Said(<<>>, TitleKey) = <<>> /\ Said(<<>>, DescriptionKey) = <<>>
      BY DEF Said
    <2>3. Took(p, p, <<>>, <<>>)
      BY DEF Took, ParserStates
    <2>4. QED
      BY <2>1, <2>2, <2>3
  <1>2. ASSUME NEW d \in Seq(Members), NEW m \in Members, d \in T
        PROVE  Append(d, m) \in T
    <2> DEFINE longer == Append(d, m)
    <2>1. longer \in Seq(Members) /\ longer # <<>>
      BY AppendProperties
    <2> SUFFICES ASSUME PlainlySpelled(longer)
                 PROVE  Done(Run(p, Body(longer)), longer)
      BY <2>1
    <2> DEFINE n == Len(d)
               q == Run(p, Body(d))
               comma == IF n + 1 = 1 THEN <<>> ELSE <<",">>
               q1 == Run(q, comma)
               r == Run(q1, MemberText(m))
    <2>2. PlainlySpelled(d) /\ PlainMember(m)
          /\ \A i, j \in DOMAIN longer : longer[i].key = longer[j].key => i = j
      BY PlainlySpelledLess
    <2>3. Done(q, d) /\ (d = <<>> => ~q.stringIsValue)
      BY <1>2, <2>2
    <2>4. n \in Nat /\ (n = 0 <=> d = <<>>) /\ Body(d) \in Text
          /\ comma \in Text /\ MemberText(m) \in Text
      <3>1. <<",">> \in Text
        BY ShortText, Marks
      <3>2. QED
        BY <3>1, LenProperties, EmptySeq, BodyAppend, TextAppend, MemberTextType
    <2>5. Body(longer) = Body(d) \o (comma \o MemberText(m))
      BY BodyAppend DEF Part
    <2> HIDE DEF longer
    <2>6. /\ q1 \in ParserStates /\ Rests(q1) /\ ~q1.stringIsValue
          /\ q1.title = q.title /\ q1.delta = q.delta
          /\ q1.descriptionDone = q.descriptionDone
      <3> HIDE DEF q
      <3>1. CASE n = 0
        <4>1. q1 = q
          BY <2>3, <2>4, <3>1, RunEmpty
        <4>2. QED
          BY <2>3, <2>4, <3>1, <4>1
      <3>2. CASE n # 0
        <4>1. comma = <<",">>
          <5>1. n + 1 # 1
            <6>1. \A k \in Nat : k # 0 => k + 1 # 1
              OBVIOUS
            <6>2. QED
              BY <2>4, <3>2, <6>1
          <5> HIDE DEF q1, n
          <5>2. QED
            BY <5>1
        <4>2. q1 = ReadChar(q, ",")
          BY <2>3, <4>1, Marks, RunOne
        <4>3. ReadChar(q, ",") = Outside(q, ",")
          BY <2>3, Marks, ReadCharCases DEF Rests
        <4>4. q1 = [q EXCEPT !.stringIsValue = FALSE]
          BY <4>2, <4>3 DEF Outside
        <4> HIDE DEF q1
        <4>5. QED
          BY <2>3, <4>4 DEF Rests, ParserStates
      <3>3. QED
        BY <3>1, <3>2
    <2> HIDE DEF comma
    <2>7. Run(p, Body(longer)) = r
      <3>1. comma \o MemberText(m) \in Text
        BY <2>4, TextConcat
      <3>2. Run(p, Body(d) \o (comma \o MemberText(m))) = Run(q, comma \o MemberText(m))
        BY <2>4, <3>1, RunConcat
      <3>3. Run(q, comma \o MemberText(m)) = r
        <4> HIDE DEF q
        <4>1. QED
          BY <2>3, <2>4, RunConcat
      <3>4. QED
        BY <2>5, <3>2, <3>3
    <2> HIDE DEF q, q1
    <2>8. /\ r \in ParserStates /\ Rests(r)
          /\ Took(q1, r, Told(m, TitleKey), Told(m, DescriptionKey))
      BY <2>2, <2>6, MemberIsRead
    <2> HIDE DEF r
    <2>9. Took(q, r, Told(m, TitleKey), Told(m, DescriptionKey))
      BY <2>6, <2>8 DEF Took
    <2>10. Took(p, r, Either(Said(d, TitleKey), Told(m, TitleKey)),
                      Either(Said(d, DescriptionKey), Told(m, DescriptionKey)))
      BY <2>3, <2>8, <2>9, TookTwice
    <2>11. /\ Said(longer, TitleKey) = Either(Said(d, TitleKey), Told(m, TitleKey))
           /\ Said(longer, DescriptionKey)
                = Either(Said(d, DescriptionKey), Told(m, DescriptionKey))
      BY <2>2, SaidOfMore DEF longer
    <2>12. QED
      BY <2>7, <2>8, <2>10, <2>11
  <1> HIDE DEF T
  <1>3. \A d \in Seq(Members) : d \in T
    BY <1>1, <1>2, SequenceInduction
  <1>4. QED
    BY <1>3 DEF T

(* An object, wherever it begins.                                           *)
LEMMA ObjectIsRead ==
  ASSUME NEW p \in ParserStates, ~p.inString, ~p.escape, p.unicodePending = <<>>,
         p.started \/ ~p.stringIsValue,
         NEW doc \in Seq(Members), PlainlySpelled(doc)
  PROVE  LET q == Run(p, Rendering(doc))
         IN  /\ q \in ParserStates /\ Rests(q)
             /\ Took(p, q, Said(doc, TitleKey), Said(doc, DescriptionKey))
  <1> DEFINE p1 == ReadChar(p, "{")
             p2 == Run(p1, Body(doc))
             q == ReadChar(p2, "}")
  <1>1. /\ p1 \in ParserStates /\ Rests(p1) /\ ~p1.stringIsValue
        /\ p1.title = p.title /\ p1.delta = p.delta
        /\ p1.descriptionDone = p.descriptionDone
    <2>1. CASE ~p.started
      <3>1. p1 = [p EXCEPT !.started = ("{" = "{")]
        BY <2>1, Marks, ReadCharCases
      <3> HIDE DEF p1
      <3>2. QED
        BY <2>1, <3>1 DEF Rests, ParserStates
    <2>2. CASE p.started
      <3>1. p1 = Outside(p, "{")
        BY <2>2, Marks, ReadCharCases
      <3>2. p1 = [p EXCEPT !.stringIsValue = FALSE]
        BY <3>1 DEF Outside
      <3> HIDE DEF p1
      <3>3. QED
        BY <2>2, <3>2 DEF Rests, ParserStates
    <2>3. QED
      BY <2>1, <2>2 DEF ParserStates
  <1> HIDE DEF p1
  <1>2. /\ p2 \in ParserStates /\ Rests(p2)
        /\ Took(p1, p2, Said(doc, TitleKey), Said(doc, DescriptionKey))
    BY <1>1, BodyIsRead
  <1> HIDE DEF p2
  <1>3. q = p2
    <2>1. q = Outside(p2, "}")
      BY <1>2, Marks, ReadCharCases DEF Rests
    <2>2. QED
      BY <2>1 DEF Outside
  <1>4. Run(p, Rendering(doc)) = q
    <2>1. Run(p, (<<"{">> \o Body(doc)) \o <<"}">>) = Run(Run(p, <<"{">> \o Body(doc)), <<"}">>)
      BY RenderingIs, RunConcat
    <2>2. Run(p, <<"{">> \o Body(doc)) = Run(Run(p, <<"{">>), Body(doc))
      BY RenderingIs, BodyAppend, RunConcat
    <2>3. Run(p, <<"{">>) = p1
      BY Marks, RunOne DEF p1
    <2>4. Run(p2, <<"}">>) = q
      BY <1>2, Marks, RunOne
    <2>5. QED
      BY <2>1, <2>2, <2>3, <2>4, RenderingIs DEF p2
  <1> HIDE DEF q
  <1>5. QED
    BY <1>1, <1>2, <1>3, <1>4 DEF Took
(* Before the object nothing is read, after it nothing is shown.            *)
LEMMA PreambleIsSkipped ==
  ASSUME NEW s \in Seq(Chars \ {"{"})
  PROVE  s \in Text /\ Run(NewParser, s) = NewParser
  <1> DEFINE T == {t \in Text : Run(NewParser, t) = NewParser}
             Others == Chars \ {"{"}
  <1>1. <<>> \in T
    BY NewParserType, RunEmpty, TextAppend
  <1>2. ASSUME NEW t \in Seq(Others), NEW c \in Others, t \in T
        PROVE  Append(t, c) \in T
    <2>1. t \in Text /\ c \in Chars /\ c # "{"
      BY <1>2
    <2>2. Run(NewParser, Append(t, c)) = ReadChar(NewParser, c)
      BY <1>2, <2>1, NewParserType, RunAppend
    <2>3. ~NewParser.started
      BY DEF NewParser
    <2>4. ReadChar(NewParser, c) = [NewParser EXCEPT !.started = (c = "{")]
      BY <2>1, <2>3, NewParserType, ReadCharCases
    <2>5. [NewParser EXCEPT !.started = (c = "{")] = NewParser
      <3>1. (c = "{") = FALSE
        BY <2>1
      <3>2. \A p \in ParserStates : ~p.started => [p EXCEPT !.started = FALSE] = p
        BY DEF ParserStates
      <3>3. QED
        BY <2>3, <3>1, <3>2, NewParserType
    <2>6. QED
      BY <2>1, <2>2, <2>4, <2>5, TextAppend
  <1> HIDE DEF T
  <1>3. \A t \in Seq(Others) : t \in T
    BY <1>1, <1>2, SequenceInduction
  <1>4. QED
    BY <1>3 DEF T

LEMMA TrailerIsRead ==
  ASSUME NEW p \in ParserStates, Rests(p), NEW s \in Seq(Chars \ {"\""})
  PROVE  LET q == Run(p, s)
         IN  s \in Text /\ q \in ParserStates /\ Rests(q) /\ SameShown(p, q)
  <1> DEFINE Quiet(q) == q \in ParserStates /\ Rests(q) /\ SameShown(p, q)
             T == {t \in Text : Quiet(Run(p, t))}
             Others == Chars \ {"\""}
  <1>1. <<>> \in T
    BY RunEmpty, TextAppend DEF SameShown
  <1>2. ASSUME NEW t \in Seq(Others), NEW c \in Others, t \in T
        PROVE  Append(t, c) \in T
    <2> DEFINE q == Run(p, t) r == ReadChar(q, c)
    <2>1. t \in Text /\ c \in Chars /\ c # "\"" /\ Quiet(q)
      BY <1>2
    <2>2. Run(p, Append(t, c)) = r
      BY <2>1, RunAppend
    <2> HIDE DEF q
    <2>3. r = Outside(q, c)
      BY <2>1, ReadCharCases DEF Rests
    <2>4. r = q \/ r = [q EXCEPT !.stringIsValue = TRUE] \/ r = [q EXCEPT !.stringIsValue = FALSE]
      BY <2>1, <2>3 DEF Outside
    <2> HIDE DEF r
    <2>5. Quiet(r)
      BY <2>1, <2>4 DEF Rests, SameShown, ParserStates
    <2>6. QED
      BY <2>1, <2>2, <2>5, TextAppend
  <1> HIDE DEF T
  <1>3. \A t \in Seq(Others) : t \in T
    BY <1>1, <1>2, SequenceInduction
  <1>4. QED
    BY <1>3 DEF T

LEMMA SaidType ==
  ASSUME NEW doc \in Seq(Members), NEW key
  PROVE  \/ Said(doc, key) = <<>> /\ OrEmpty(Said(doc, key)) = <<>>
         \/ \E t \in Text : Said(doc, key) = <<t>> /\ OrEmpty(Said(doc, key)) = t
  <1> DEFINE places == {i \in DOMAIN doc : doc[i].key = key}
  <1>1. CASE places = {}
    BY <1>1 DEF Said, OrEmpty
  <1>2. CASE places # {}
    <2>1. PICK i \in DOMAIN doc : i = CHOOSE j \in places : TRUE
      BY <1>2
    <2>2. Said(doc, key) = <<Meaning(doc[i].value)>>
      BY <1>2, <2>1 DEF Said
    <2>3. doc[i] \in Members
      BY LenProperties
    <2>4. Meaning(doc[i].value) \in Text
      BY <2>3, SpellingAppend DEF Members
    <2>5. QED
      BY <2>2, <2>4 DEF OrEmpty
  <1>3. QED
    BY <1>1, <1>2

(* All that doc says has been shown.                                        *)
ShowsAll(p, doc) ==
  /\ p.title = Said(doc, TitleKey)
  /\ p.delta = OrEmpty(Said(doc, DescriptionKey))
  /\ p.descriptionDone <=> Said(doc, DescriptionKey) # <<>>

LEMMA AfterObject ==
  ASSUME NEW doc \in Seq(Members), PlainlySpelled(doc), NEW pre \in Seq(Chars \ {"{"})
  PROVE  LET q == Run(NewParser, pre \o Rendering(doc))
         IN  /\ pre \o Rendering(doc) \in Text
             /\ q \in ParserStates /\ Rests(q) /\ ShowsAll(q, doc)
  <1> DEFINE q == Run(NewParser, Rendering(doc))
  <1>1. pre \in Text /\ Run(NewParser, pre) = NewParser
    BY PreambleIsSkipped
  <1>2. pre \o Rendering(doc) \in Text /\ Run(NewParser, pre \o Rendering(doc)) = q
    <2>1. Rendering(doc) \in Text
      BY RenderingIs
    <2>2. Run(NewParser, pre \o Rendering(doc)) = Run(Run(NewParser, pre), Rendering(doc))
      BY <1>1, <2>1, NewParserType, RunConcat
    <2>3. QED
      BY <1>1, <2>1, <2>2, TextConcat
  <1>3. /\ ~NewParser.inString /\ ~NewParser.escape /\ NewParser.unicodePending = <<>>
        /\ ~NewParser.stringIsValue /\ NewParser.title = <<>> /\ NewParser.delta = <<>>
        /\ ~NewParser.descriptionDone
    BY DEF NewParser
  <1>4. /\ q \in ParserStates /\ Rests(q)
        /\ Took(NewParser, q, Said(doc, TitleKey), Said(doc, DescriptionKey))
    BY <1>3, NewParserType, ObjectIsRead
  <1> HIDE DEF q
  <1>5. q.delta = OrEmpty(Said(doc, DescriptionKey))
    <2>1. CASE Said(doc, DescriptionKey) = <<>>
      BY <1>3, <1>4, <2>1 DEF Took, OrEmpty
    <2>2. CASE Said(doc, DescriptionKey) # <<>>
      <3>1. PICK t \in Text : /\ Said(doc, DescriptionKey) = <<t>>
                              /\ OrEmpty(Said(doc, DescriptionKey)) = t
        BY <2>2, SaidType
      <3>2. q.delta = <<>> \o t
        <4> DEFINE said == Said(doc, DescriptionKey)
        <4>0. said = <<t>>
          BY <3>1
        <4> HIDE DEF said
        <4>1. said[1] = t
          BY <4>0
        <4>2. said # <<>> /\ Took(NewParser, q, Said(doc, TitleKey), said)
          BY <1>4, <2>2 DEF said
        <4>3. QED
          BY <1>3, <4>1, <4>2 DEF Took
      <3>3. <<>> \o t = t
        BY ConcatEmptySeq DEF Text
      <3>4. QED
        BY <3>1, <3>2, <3>3
    <2>3. QED
      BY <2>1, <2>2
  <1>6. QED
    BY <1>2, <1>3, <1>4, <1>5 DEF Took, ShowsAll

LEMMA AfterTrailer ==
  ASSUME NEW doc \in Seq(Members), PlainlySpelled(doc), NEW pre \in Seq(Chars \ {"{"}),
         NEW trailer, trailer \in Seq(Chars \ {"\""}) \/ trailer = Rendering(doc)
  PROVE  LET s == pre \o Rendering(doc) \o trailer
         IN  s \in Text /\ ShowsAll(Run(NewParser, s), doc)
  <1> DEFINE s == pre \o Rendering(doc)
             q == Run(NewParser, s)
             r == Run(q, trailer)
  <1>1. s \in Text /\ q \in ParserStates /\ Rests(q) /\ ShowsAll(q, doc)
    BY AfterObject
  <1> HIDE DEF s, q
  <1>2. CASE trailer \in Seq(Chars \ {"\""})
    <2>1. trailer \in Text /\ r \in ParserStates /\ SameShown(q, r)
      BY <1>1, <1>2, TrailerIsRead
    <2>2. ShowsAll(r, doc)
      BY <1>1, <2>1 DEF SameShown, ShowsAll
    <2>3. s \o trailer \in Text /\ Run(NewParser, s \o trailer) = r
      BY <1>1, <2>1, NewParserType, TextConcat, RunConcat DEF q
    <2>4. QED
      BY <2>2, <2>3 DEF s
  <1>3. CASE trailer = Rendering(doc)
    <2>1. trailer \in Text
      BY <1>3, RenderingIs
    <2>2. r \in ParserStates /\ Took(q, r, Said(doc, TitleKey), Said(doc, DescriptionKey))
      <3>1. ~q.inString /\ ~q.escape /\ q.unicodePending = <<>> /\ q.started
        BY <1>1 DEF Rests
      <3>2. QED
        BY <1>1, <1>3, <3>1, ObjectIsRead
    <2> HIDE DEF r
    <2>3. ShowsAll(r, doc)
      BY <1>1, <2>2 DEF Took, ShowsAll
    <2>4. s \o trailer \in Text /\ Run(NewParser, s \o trailer) = r
      BY <1>1, <2>1, NewParserType, TextConcat, RunConcat DEF q, r
    <2>5. QED
      BY <2>3, <2>4 DEF s
  <1>4. QED
    BY <1>2, <1>3

-----------------------------------------------------------------------------
(* What was shown stays shown.                                              *)

LEMMA ReadCharStaysDone ==
  ASSUME NEW p \in ParserStates, NEW c \in Chars, p.descriptionDone
  PROVE  ReadChar(p, c).descriptionDone
  <1>1. ASSUME NEW q \in ParserStates, q.descriptionDone, NEW d
        PROVE  EmitChar(q, d).descriptionDone
    BY <1>1 DEF EmitChar, ParserStates
  <1>2. CloseString(p).descriptionDone
    <2>1. CASE ~p.stringIsValue
      BY <2>1, CloseStringCases DEF ParserStates
    <2>2. CASE p.stringIsValue /\ p.currentKey = <<TitleKey>> /\ p.title = <<>>
      BY <2>2, CloseStringCases DEF ParserStates
    <2>3. CASE p.stringIsValue /\ ~(p.currentKey = <<TitleKey>> /\ p.title = <<>>)
      BY <2>3, CloseStringCases DEF ParserStates
    <2>4. QED
      BY <2>1, <2>2, <2>3 DEF ParserStates
  <1>3. Outside(p, c).descriptionDone
    BY DEF Outside, ParserStates
  <1>4. Plain(p, c).descriptionDone
    <2>1. [p EXCEPT !.escape = TRUE].descriptionDone
      BY DEF ParserStates
    <2>2. QED
      BY <1>1, <1>2, <2>1 DEF Plain
  <1>5. Escaped(p, c).descriptionDone
    <2> DEFINE q == [p EXCEPT !.escape = FALSE]
    <2>1. q \in ParserStates /\ q.descriptionDone
      BY DEF ParserStates
    <2>2. [q EXCEPT !.unicodePending = << <<>> >>].descriptionDone
      BY <2>1 DEF ParserStates
    <2> HIDE DEF q
    <2>3. EmitChar(q, Unescape(c)).descriptionDone
      BY <1>1, <2>1
    <2>4. QED
      BY <2>2, <2>3 DEF Escaped, q
  <1>6. ASSUME p.unicodePending # <<>> PROVE HexDigit(p, c).descriptionDone
    <2> DEFINE digits == Append(p.unicodePending[1], c)
               code == {i \in DOMAIN CodePoint : CodePoint[i] = digits}
               q == [p EXCEPT !.unicodePending = <<>>]
    <2>1. q \in ParserStates /\ q.descriptionDone
          /\ [p EXCEPT !.unicodePending = <<digits>>].descriptionDone
      BY DEF ParserStates
    <2>2. Len(digits) < 4 \/ Len(digits) = 4
      BY <1>6, PendingIsShort
    <2> HIDE DEF q, digits
    <2>3. \A d : EmitChar(q, d).descriptionDone
      BY <1>1, <2>1
    <2>4. CASE Len(digits) < 4
      <3>1. HexDigit(p, c) = [p EXCEPT !.unicodePending = <<digits>>]
        BY <2>4 DEF HexDigit, digits
      <3>2. QED
        BY <2>1, <3>1
    <2>5. CASE Len(digits) = 4 /\ code = {}
      BY <2>1, <2>5 DEF HexDigit, digits, q
    <2>6. CASE Len(digits) = 4 /\ code # {}
      <3>1. HexDigit(p, c) = EmitChar(q, Character[Max(code)])
        BY <2>6 DEF HexDigit, digits, q
      <3>2. QED
        BY <2>3, <3>1
    <2>7. QED
      BY <2>2, <2>4, <2>5, <2>6
  <1>7. CASE ~p.started
    <2>1. ReadChar(p, c) = [p EXCEPT !.started = (c = "{")]
      BY <1>7, ReadCharCases
    <2>2. QED
      BY <2>1 DEF ParserStates
  <1>8. CASE p.started
    BY <1>3, <1>4, <1>5, <1>6, <1>8 DEF ReadChar
  <1>9. QED
    BY <1>7, <1>8 DEF ParserStates

LEMMA RunStaysDone ==
  ASSUME NEW p \in ParserStates, p.descriptionDone, NEW s \in Text
  PROVE  Run(p, s).descriptionDone
  <1> DEFINE T == {t \in Text : Run(p, t).descriptionDone}
  <1>1. <<>> \in T
    BY RunEmpty, TextAppend
  <1>2. ASSUME NEW t \in Text, NEW c \in Chars, t \in T
        PROVE  Append(t, c) \in T
    BY <1>2, RunAppend, RunType, ReadCharStaysDone, TextAppend
  <1> HIDE DEF T
  <1>3. \A t \in Text : t \in T
    BY <1>1, <1>2, SequenceInduction DEF Text
  <1>4. QED
    BY <1>3 DEF T

(* The parser after a whole text shows what it showed of a beginning, and   *)
(* more.                                                                    *)
LEMMA ShownStays ==
  ASSUME NEW s \in Text, NEW t \in Text
  PROVE  LET p == Run(NewParser, s)
             q == Run(NewParser, s \o t)
         IN  /\ \E x \in Text : q.delta = p.delta \o x
             /\ \E y \in Seq(Text) : q.events = p.events \o y
             /\ p.descriptionDone => q.descriptionDone
  <1> DEFINE p == Run(NewParser, s)
             q == Run(NewParser, s \o t)
             r == [p EXCEPT !.delta = <<>>, !.events = <<>>]
  <1>1. p \in ParserStates /\ q = Run(p, t)
    BY NewParserType, RunType, RunConcat
  <1> HIDE DEF p, q
  <1>2. p.delta \in Text /\ p.events \in Seq(Text) /\ r \in ParserStates
    <2>1. <<>> \in Text /\ <<>> \in Seq(Text)
      BY TextAppend
    <2>2. QED
      BY <1>1, <2>1 DEF ParserStates
  <1>3. p = Add(r, p.delta, p.events)
    <2>1. p.delta \o <<>> = p.delta /\ p.events \o <<>> = p.events
      BY <1>2, ConcatEmptySeq DEF Text
    <2>2. QED
      BY <1>1, <2>1 DEF Add, ParserStates
  <1> HIDE DEF r
  <1> DEFINE u == Run(r, t)
  <1>4. u \in ParserStates
    BY <1>2, RunType
  <1>5. q = Add(u, p.delta, p.events)
    <2>1. Run(Add(r, p.delta, p.events), t) = Add(Run(r, t), p.delta, p.events)
      BY <1>2, RunAdds
    <2>2. QED
      BY <1>1, <1>3, <2>1
  <1> HIDE DEF u
  <1>6. /\ q.delta = p.delta \o u.delta /\ q.events = p.events \o u.events
        /\ u.delta \in Text /\ u.events \in Seq(Text)
    BY <1>4, <1>5 DEF Add, ParserStates
  <1>7. p.descriptionDone => q.descriptionDone
    BY <1>1, RunStaysDone
  <1>8. QED
    BY <1>6, <1>7 DEF p, q
-----------------------------------------------------------------------------
(* The invariant *)

LEMMA ConstantTypes ==
  /\ Documents \subseteq Seq(Members)
  /\ Preambles \subseteq Seq(Chars \ {"{"})
  /\ Trailers \subseteq Seq(Chars \ {"\""})
  <1>1. STRING \subseteq Chars
    BY DEF Chars
  <1>2. Seq(STRING) \subseteq Text
    BY <1>1, SeqMonotonic DEF Text
  <1> DEFINE RawUnits == [spelling : Seq(STRING), meaning : Seq(STRING), strict : BOOLEAN]
             RawMembers == [key : STRING, quoted : BOOLEAN, value : Seq(RawUnits)]
  <1>3. RawUnits \subseteq Units
    BY <1>2 DEF Units
  <1> HIDE DEF RawUnits
  <1>4. Seq(RawUnits) \subseteq Seq(Units)
    BY <1>3, SeqMonotonic
  <1>5. RawMembers \subseteq Members
    BY <1>1, <1>4 DEF Members
  <1> HIDE DEF RawMembers
  <1>6. Seq(RawMembers) \subseteq Seq(Members)
    BY <1>5, SeqMonotonic
  <1>7. Documents \subseteq Seq(RawMembers)
    BY TextAssumption DEF RawMembers, RawUnits
  <1>8. /\ STRING \ {"{"} \subseteq Chars \ {"{"}
        /\ STRING \ {"\""} \subseteq Chars \ {"\""}
    BY <1>1
  <1>9. /\ Seq(STRING \ {"{"}) \subseteq Seq(Chars \ {"{"})
        /\ Seq(STRING \ {"\""}) \subseteq Seq(Chars \ {"\""})
    BY <1>8, SeqMonotonic
  <1>10. QED
    BY <1>6, <1>7, <1>9, TextAssumption

Written == SubSeq(text, 1, fed)

(* The parser, had it read all that was fed in one piece.                   *)
Whole == Run(NewParser, Written)

Forgets(p) == [p EXCEPT !.delta = <<>>, !.events = <<>>]

TextIsOfDocument ==
  /\ document \in Documents
  /\ \E preamble \in Preambles, trailer \in Trailers \union {Rendering(document)} :
       text = preamble \o Rendering(document) \o trailer

ParserReadAll ==
  /\ text \in Text /\ fed \in 0 .. Len(text)
  /\ parser = Forgets(Whole) /\ shown = Whole.delta /\ titles = Whole.events
  /\ result = <<>> \/ result = <<Result(parser, Written)>>

Inv == TextIsOfDocument /\ ParserReadAll

LEMMA WrittenType ==
  ASSUME NEW s \in Text, NEW n \in 0 .. Len(s)
  PROVE  /\ SubSeq(s, 1, n) \in Text /\ Len(SubSeq(s, 1, n)) = n
         /\ \A i \in 1 .. n : SubSeq(s, 1, n)[i] = s[i]
         /\ SubSeq(s, n + 1, Len(s)) \in Text
         /\ s = SubSeq(s, 1, n) \o SubSeq(s, n + 1, Len(s))
  <1>1. Len(s) \in Nat /\ n \in Nat /\ n <= Len(s) /\ \A i \in 1 .. Len(s) : s[i] \in Chars
    BY LenProperties DEF Text
  <1>2. /\ SubSeq(s, 1, n) \in Seq(Chars) /\ Len(SubSeq(s, 1, n)) = n
        /\ \A i \in 1 .. n : SubSeq(s, 1, n)[i] = s[i]
    <2>1. 1 \in Int /\ n \in Int /\ \A i \in 1 .. n : s[i] \in Chars
      BY <1>1
    <2>2. /\ SubSeq(s, 1, n) \in Seq(Chars)
          /\ Len(SubSeq(s, 1, n)) = IF 1 <= n THEN n - 1 + 1 ELSE 0
          /\ \A i \in 1 .. n - 1 + 1 : SubSeq(s, 1, n)[i] = s[1 + i - 1]
      BY <2>1, SubSeqProperties
    <2>3. QED
      BY <1>1, <2>2
  <1>3. SubSeq(s, n + 1, Len(s)) \in Seq(Chars)
    <2>1. n + 1 \in Int /\ Len(s) \in Int /\ \A i \in n + 1 .. Len(s) : s[i] \in Chars
      BY <1>1
    <2>2. QED
      BY <2>1, SubSeqProperties
  <1>4. s = SubSeq(s, 1, n) \o SubSeq(s, n + 1, Len(s))
    <2>1. 1 \in 1 .. Len(s) + 1 /\ n \in 1 - 1 .. Len(s) /\ Len(s) \in n .. Len(s)
      BY <1>1
    <2>2. SubSeq(s, 1, n) \o SubSeq(s, n + 1, Len(s)) = SubSeq(s, 1, Len(s))
      BY <2>1, ConcatAdjacentSubSeq DEF Text
    <2>3. QED
      BY <2>2, SubSeqFull DEF Text
  <1>5. QED
    BY <1>2, <1>3, <1>4 DEF Text

LEMMA ForgetsType ==
  ASSUME NEW p \in ParserStates
  PROVE  Forgets(p) \in ParserStates /\ p = Add(Forgets(p), p.delta, p.events)
  <1>1. <<>> \in Text /\ <<>> \in Seq(Text)
    BY TextAppend
  <1>2. p.delta \o <<>> = p.delta /\ p.events \o <<>> = p.events
    BY ConcatEmptySeq DEF ParserStates, Text
  <1>3. QED
    BY <1>1, <1>2 DEF Forgets, Add, ParserStates

LEMMA InitInv == Init => Inv
  <1> SUFFICES ASSUME Init PROVE Inv
    OBVIOUS
  <1> USE DEF Init
  <1>1. PICK preamble \in Preambles, trailer \in Trailers \union {Rendering(document)} :
          text = preamble \o Rendering(document) \o trailer
    OBVIOUS
  <1>2. document \in Seq(Members) /\ preamble \in Text /\ trailer \in Text
        /\ Rendering(document) \in Text
    <2>1. document \in Seq(Members)
      BY ConstantTypes
    <2>2. Rendering(document) \in Text
      BY <2>1, RenderingIs
    <2>3. \A S : S \subseteq Chars => Seq(S) \subseteq Text
      BY SeqMonotonic DEF Text
    <2>4. Preambles \subseteq Text /\ Trailers \subseteq Text
      <3>1. Chars \ {"{"} \subseteq Chars /\ Chars \ {"\""} \subseteq Chars
        OBVIOUS
      <3>2. QED
        BY <2>3, <3>1, ConstantTypes
    <2>5. QED
      BY <2>1, <2>2, <2>4
  <1>3. text \in Text /\ fed \in 0 .. Len(text)
    <2>1. text \in Text
      BY <1>1, <1>2, TextConcat
    <2>2. Len(text) \in Nat
      BY <2>1, TextAppend
    <2>3. QED
      BY <2>1, <2>2
  <1>4. Written = <<>> /\ Whole = NewParser
    <2>1. SubSeq(text, 1, 0) = <<>>
      BY SubSeqEmpty
    <2>2. QED
      BY <2>1, NewParserType, RunEmpty DEF Written, Whole
  <1>5. Forgets(NewParser) = NewParser /\ NewParser.delta = <<>> /\ NewParser.events = <<>>
    <2>1. NewParser.delta = <<>> /\ NewParser.events = <<>>
      BY DEF NewParser
    <2>2. \A p \in ParserStates : p.delta = <<>> /\ p.events = <<>> => Forgets(p) = p
      BY DEF Forgets, ParserStates
    <2>3. QED
      BY <2>1, <2>2, NewParserType
  <1>6. QED
    BY <1>3, <1>4, <1>5 DEF Inv, TextIsOfDocument, ParserReadAll

(* What a fragment shows comes after what was shown, wherever it is cut.    *)
LEMMA FeedInv ==
  ASSUME Inv, NEW n \in Nat \ {0}, Feed(n)
  PROVE  Inv'
  <1> DEFINE fragment == SubSeq(text, fed + 1, fed + n)
             p == Run(parser, fragment)
  <1>1. /\ text \in Text /\ fed \in 0 .. Len(text)
        /\ parser = Forgets(Whole) /\ shown = Whole.delta /\ titles = Whole.events
    BY DEF Inv, ParserReadAll
  <1>2. /\ result = <<>> /\ fed + n <= Len(text) /\ fed' = fed + n
        /\ parser' = [p EXCEPT !.delta = <<>>, !.events = <<>>]
        /\ shown' = shown \o p.delta /\ titles' = titles \o p.events
        /\ document' = document /\ text' = text /\ result' = result
    BY DEF Feed
  <1>3. Len(text) \in Nat /\ fed \in Nat /\ fed + n \in 0 .. Len(text)
    BY <1>1, <1>2, TextAppend
  <1>4. /\ Written \in Text /\ fragment \in Text /\ SubSeq(text, 1, fed + n) = Written \o fragment
    <2>1. Written \in Text
      BY <1>1, WrittenType DEF Written
    <2>2. fragment \in Text
      <3>1. \A i \in 1 .. Len(text) : text[i] \in Chars
        BY <1>1, LenProperties DEF Text
      <3>2. fed + 1 \in Int /\ fed + n \in Int /\ \A i \in fed + 1 .. fed + n : text[i] \in Chars
        BY <1>3, <3>1
      <3>3. QED
        BY <3>2, SubSeqProperties DEF Text
    <2>3. Written \o fragment = SubSeq(text, 1, fed + n)
      <3>1. 1 \in 1 .. Len(text) + 1 /\ fed \in 1 - 1 .. Len(text) /\ fed + n \in fed .. Len(text)
        BY <1>3
      <3>2. QED
        BY <1>1, <3>1, ConcatAdjacentSubSeq DEF Written, Text
    <2>4. QED
      BY <2>1, <2>2, <2>3
  <1>5. Whole \in ParserStates
    BY <1>4, NewParserType, RunType DEF Whole
  <1>6. /\ parser \in ParserStates /\ shown \in Text /\ titles \in Seq(Text)
        /\ Whole = Add(parser, shown, titles)
    BY <1>1, <1>5, ForgetsType DEF ParserStates
  <1> HIDE DEF fragment
  <1>7. p \in ParserStates
    BY <1>4, <1>6, RunType
  <1>8. Whole' = Add(p, shown, titles)
    <2>1. Written' = Written \o fragment
      BY <1>2, <1>4 DEF Written
    <2>2. Run(NewParser, Written \o fragment) = Run(Whole, fragment)
      BY <1>4, NewParserType, RunConcat DEF Whole
    <2>3. Run(Add(parser, shown, titles), fragment) = Add(p, shown, titles)
      BY <1>4, <1>6, RunAdds
    <2>4. Whole' = Run(NewParser, Written')
      BY DEF Whole, NewParser
    <2>5. QED
      BY <1>6, <2>1, <2>2, <2>3, <2>4
  <1> HIDE DEF p
  <1>9. /\ Whole'.delta = shown \o p.delta /\ Whole'.events = titles \o p.events
        /\ Forgets(Whole') = [p EXCEPT !.delta = <<>>, !.events = <<>>]
    BY <1>7, <1>8 DEF Add, Forgets, ParserStates
  <1>10. ParserReadAll'
    BY <1>1, <1>2, <1>3, <1>9 DEF ParserReadAll, Forgets
  <1>11. TextIsOfDocument'
    BY <1>2 DEF Inv, TextIsOfDocument, Rendering
  <1>12. QED
    BY <1>10, <1>11 DEF Inv

LEMMA CloseInv == Inv /\ Close => Inv'
  <1> SUFFICES ASSUME Inv, Close PROVE Inv'
    OBVIOUS
  <1>1. /\ document' = document /\ text' = text /\ fed' = fed /\ parser' = parser
        /\ shown' = shown /\ titles' = titles
        /\ result' = <<Result(parser, Written)>>
    BY DEF Close, Written
  <1>2. Written' = Written
    BY <1>1 DEF Written
  <1>3. Whole' = Whole
    BY <1>2 DEF Whole
  <1>4. Result(parser, Written)' = Result(parser, Written)
    <2>1. Loads(Written)' = Loads(Written)
      BY <1>1, <1>2 DEF Loads, SelectInSeq, SelectLastInSeq
    <2>2. \A key, value : Parsed(key, value)' = Parsed(key, value)
      BY <1>1 DEF Parsed
    <2>3. QED
      BY <1>1, <2>1, <2>2 DEF Result
  <1>5. ParserReadAll'
    BY <1>1, <1>2, <1>3, <1>4 DEF Inv, ParserReadAll
  <1>6. TextIsOfDocument'
    BY <1>1 DEF Inv, TextIsOfDocument
  <1>7. QED
    BY <1>5, <1>6 DEF Inv

LEMMA StutterInv == Inv /\ UNCHANGED vars => Inv'
  <1> SUFFICES ASSUME Inv, UNCHANGED vars PROVE Inv'
    OBVIOUS
  <1>1. /\ document' = document /\ text' = text /\ fed' = fed /\ parser' = parser
        /\ shown' = shown /\ titles' = titles /\ result' = result
    BY DEF vars
  <1>2. Written' = Written
    BY <1>1 DEF Written
  <1>3. Whole' = Whole
    BY <1>2 DEF Whole
  <1>4. Result(parser, Written)' = Result(parser, Written)
    <2>1. Loads(Written)' = Loads(Written)
      BY <1>1, <1>2 DEF Loads, SelectInSeq, SelectLastInSeq
    <2>2. \A key, value : Parsed(key, value)' = Parsed(key, value)
      BY <1>1 DEF Parsed
    <2>3. QED
      BY <1>1, <2>1, <2>2 DEF Result
  <1>5. ParserReadAll'
    BY <1>1, <1>2, <1>3, <1>4 DEF Inv, ParserReadAll
  <1>6. TextIsOfDocument'
    BY <1>1 DEF Inv, TextIsOfDocument
  <1>7. QED
    BY <1>5, <1>6 DEF Inv

(* The parser has read what was fed, however it was cut into fragments: it  *)
(* is where it would be, and has shown what it would have shown, had feed() *)
(* been called once.                                                        *)
THEOREM ParserInvariant == Spec => []Inv
  <1>1. Inv /\ [Next]_vars => Inv'
    <2> SUFFICES ASSUME Inv, [Next]_vars PROVE Inv'
      OBVIOUS
    <2>1. ASSUME NEW n \in 1 .. MaxFragment, Feed(n) PROVE Inv'
      <3>1. n \in Nat \ {0}
        BY MaxFragmentAssumption
      <3>2. QED
        BY <2>1, <3>1, FeedInv
    <2>2. CASE Close
      BY <2>2, CloseInv
    <2>3. CASE UNCHANGED vars
      BY <2>3, StutterInv
    <2>4. QED
      BY <2>1, <2>2, <2>3 DEF Next
  <1>2. QED
    BY <1>1, InitInv, PTL DEF Spec
-----------------------------------------------------------------------------
(* Blanks around a text *)

LEMMA LeastIs ==
  ASSUME NEW T \in SUBSET Nat, T # {}
  PROVE  Min(T) \in T /\ \A y \in T : Min(T) <= y
  BY LeastMember DEF Min

LEMMA GreatestIs ==
  ASSUME NEW n \in Nat, NEW T \in SUBSET (0 .. n), T # {}
  PROVE  Max(T) \in T /\ \A y \in T : Max(T) >= y
  <1> DEFINE U == {m \in Nat : n - m \in T}
  <1>1. ASSUME NEW y \in T PROVE n - y \in U
    <2>1. y \in 0 .. n
      OBVIOUS
    <2>2. n - y \in Nat /\ n - (n - y) = y
      BY <2>1
    <2>3. QED
      BY <2>2
  <1>2. PICK x \in U : \A y \in U : x <= y
    <2>1. U \in SUBSET Nat /\ U # {}
      BY <1>1
    <2>2. QED
      BY <2>1, LeastMember
  <1>3. \A y \in T : n - x >= y
    <2>1. \A y \in T : y \in Nat /\ x <= n - y
      BY <1>1, <1>2
    <2>2. QED
      BY <2>1
  <1>4. n - x \in T
    OBVIOUS
  <1>5. QED
    BY <1>3, <1>4 DEF Max

LEMMA StripTwice ==
  /\ Strip(<<>>) = <<>>
  /\ \A s \in Text : Strip(s) \in Text /\ Strip(Strip(s)) = Strip(s)
  <1> DEFINE Solid(s) == {i \in DOMAIN s : s[i] \notin Blank}
  <1>1. \A s : Solid(s) = {} => Strip(s) = <<>>
    BY DEF Strip
  <1>2. \A s : Solid(s) # {} => Strip(s) = SubSeq(s, Min(Solid(s)), Max(Solid(s)))
    BY DEF Strip
  <1> HIDE DEF Solid
  <1>3. Strip(<<>>) = <<>>
    <2>1. Solid(<<>>) = {}
      BY DEF Solid
    <2>2. QED
      BY <1>1, <2>1
  <1>4. ASSUME NEW s \in Text
        PROVE  Strip(s) \in Text /\ Strip(Strip(s)) = Strip(s)
    <2>1. CASE Solid(s) = {}
      BY <1>1, <1>3, <2>1, TextAppend
    <2>2. CASE Solid(s) # {}
      <3> DEFINE a == Min(Solid(s)) b == Max(Solid(s)) n == Len(s)
                 t == SubSeq(s, a, b)
      <3>1. n \in Nat /\ DOMAIN s = 1 .. n /\ \A i \in 1 .. n : s[i] \in Chars
        BY LenProperties DEF Text
      <3>2. Solid(s) \in SUBSET Nat /\ Solid(s) \in SUBSET (0 .. n)
        BY <3>1 DEF Solid
      <3>3. a \in Solid(s) /\ b \in Solid(s) /\ a <= b
        <4>1. a \in Solid(s) /\ \A y \in Solid(s) : a <= y
          BY <2>2, <3>2, LeastIs
        <4>2. b \in Solid(s)
          BY <2>2, <3>1, <3>2, GreatestIs
        <4>3. QED
          BY <4>1, <4>2
      <3>4. a \in 1 .. n /\ b \in 1 .. n /\ s[a] \notin Blank /\ s[b] \notin Blank
        BY <3>1, <3>3 DEF Solid
      <3> HIDE DEF a, b, n
      <3>5. /\ t \in Text /\ Len(t) = b - a + 1
            /\ \A i \in 1 .. b - a + 1 : t[i] = s[a + i - 1]
        <4>1. a \in Int /\ b \in Int /\ \A i \in a .. b : s[i] \in Chars
          BY <3>1, <3>4
        <4>2. /\ SubSeq(s, a, b) \in Seq(Chars)
              /\ Len(SubSeq(s, a, b)) = IF a <= b THEN b - a + 1 ELSE 0
              /\ \A i \in 1 .. b - a + 1 : SubSeq(s, a, b)[i] = s[a + i - 1]
          BY <4>1, SubSeqProperties
        <4>3. QED
          BY <3>3, <4>2 DEF Text
      <3>6. Strip(s) = t
        BY <1>2, <2>2 DEF a, b
      <3> DEFINE m == b - a + 1
      <3>7. m \in Nat /\ m >= 1 /\ 1 \in 1 .. m /\ m \in 1 .. m /\ a + 1 - 1 = a /\ a + m - 1 = b
        BY <3>3, <3>4
      <3> HIDE DEF t
      <3>8. DOMAIN t = 1 .. m /\ t[1] = s[a] /\ t[m] = s[b]
        <4>1. DOMAIN t = 1 .. m
          BY <3>5, LenProperties DEF Text
        <4>2. t[1] = s[a + 1 - 1] /\ t[m] = s[a + m - 1]
          BY <3>5, <3>7
        <4>3. QED
          BY <3>7, <4>1, <4>2
      <3> HIDE DEF m
      <3>9. 1 \in Solid(t) /\ m \in Solid(t) /\ Solid(t) \subseteq 1 .. m
        BY <3>4, <3>7, <3>8 DEF Solid
      <3>10. Min(Solid(t)) = 1
        <4>1. Solid(t) \in SUBSET Nat
          BY <3>7, <3>9
        <4>2. Min(Solid(t)) \in Solid(t) /\ Min(Solid(t)) <= 1
          BY <3>9, <4>1, LeastIs
        <4>3. QED
          BY <3>7, <3>9, <4>2
      <3>11. Max(Solid(t)) = m
        <4>1. Solid(t) \in SUBSET (0 .. m)
          BY <3>7, <3>9
        <4>2. Max(Solid(t)) \in Solid(t) /\ Max(Solid(t)) >= m
          BY <3>7, <3>9, <4>1, GreatestIs
        <4>3. QED
          BY <3>7, <3>9, <4>2
      <3>12. SubSeq(t, 1, m) = t
        <4>1. Len(t) = m
          BY <3>5 DEF m
        <4>2. QED
          BY <3>5, <4>1, SubSeqFull DEF Text
      <3>13. Strip(t) = t
        <4>1. Strip(t) = SubSeq(t, Min(Solid(t)), Max(Solid(t)))
          BY <1>2, <3>9
        <4>2. QED
          BY <3>10, <3>11, <3>12, <4>1
      <3>14. QED
        BY <3>5, <3>6, <3>13
    <2>3. QED
      BY <2>1, <2>2
  <1>5. QED
    BY <1>3, <1>4

-----------------------------------------------------------------------------
(* What has been shown of the object *)

LEMMA LongerHasPrefix ==
  ASSUME NEW S, NEW s \in Seq(S), NEW t \in Seq(S)
  PROVE  /\ IsPrefix(s, s \o t)
         /\ \A u \in Seq(S) : (s \o t) \o u = s => t = <<>> /\ s \o t = s
  <1>1. Len(s) \in Nat /\ Len(t) \in Nat /\ Len(s \o t) = Len(s) + Len(t) /\ s \o t \in Seq(S)
    BY LenProperties, ConcatProperties
  <1>2. SubSeq(s, 1, Len(s)) = SubSeq(s \o t, 1, Len(s))
    <2>1. CASE Len(s) = 0
      BY <2>1, SubSeqEmpty
    <2>2. CASE Len(s) # 0
      <3>1. 1 \in 1 .. Len(s) /\ Len(s) \in 1 .. Len(s)
        BY <1>1, <2>2
      <3>2. QED
        BY <3>1, SubSeqOfConcat1
    <2>3. QED
      BY <2>1, <2>2
  <1>3. IsPrefix(s, s \o t)
    BY <1>1, <1>2 DEF IsPrefix
  <1>4. ASSUME NEW u \in Seq(S), (s \o t) \o u = s
        PROVE  t = <<>> /\ s \o t = s
    <2>1. Len(u) \in Nat /\ Len((s \o t) \o u) = Len(s \o t) + Len(u)
      BY <1>1, LenProperties, ConcatProperties
    <2>2. Len(t) = 0
      BY <1>1, <1>4, <2>1
    <2>3. t = <<>>
      BY <2>2, EmptySeq
    <2>4. QED
      BY <2>3, ConcatEmptySeq
  <1>5. QED
    BY <1>3, <1>4

(* What will have been shown when all the text has been fed.                *)
LEMMA TextShowsAll ==
  ASSUME Inv, PlainlySpelled(document)
  PROVE  /\ document \in Seq(Members) /\ text \in Text
         /\ ShowsAll(Run(NewParser, text), document)
         /\ Honest(Run(NewParser, text)) /\ Run(NewParser, text) \in ParserStates
  <1>1. PICK preamble \in Preambles, trailer \in Trailers \union {Rendering(document)} :
          text = preamble \o Rendering(document) \o trailer
    BY DEF Inv, TextIsOfDocument
  <1>2. document \in Seq(Members) /\ text \in Text
    BY ConstantTypes DEF Inv, TextIsOfDocument, ParserReadAll
  <1>3. /\ preamble \in Seq(Chars \ {"{"})
        /\ trailer \in Seq(Chars \ {"\""}) \/ trailer = Rendering(document)
    BY ConstantTypes
  <1>4. ShowsAll(Run(NewParser, text), document)
    BY <1>1, <1>2, <1>3, AfterTrailer
  <1>5. QED
    BY <1>2, <1>4, NewParserType, RunType, RunHonest

LEMMA WholeIs ==
  ASSUME Inv
  PROVE  /\ Written \in Text /\ Whole \in ParserStates /\ Honest(Whole)
         /\ shown = Whole.delta /\ titles = Whole.events /\ titles = Whole.title
         /\ parser = Forgets(Whole) /\ parser.title = Whole.title
         /\ parser.descriptionChars = Whole.descriptionChars
  <1>1. Written \in Text
    BY WrittenType DEF Inv, ParserReadAll, Written
  <1>2. Whole \in ParserStates /\ Honest(Whole)
    BY <1>1, NewParserType, RunType, RunHonest DEF Whole
  <1>3. /\ parser = Forgets(Whole) /\ shown = Whole.delta /\ titles = Whole.events
    BY DEF Inv, ParserReadAll
  <1>4. /\ Forgets(Whole).title = Whole.title
        /\ Forgets(Whole).descriptionChars = Whole.descriptionChars
    BY <1>2 DEF Forgets, ParserStates
  <1>5. QED
    BY <1>1, <1>2, <1>3, <1>4 DEF Honest

(* What has been shown is a beginning of it.                                *)
LEMMA ShownIsBeginning ==
  ASSUME Inv, PlainlySpelled(document)
  PROVE  /\ \E x \in Text : OrEmpty(Said(document, DescriptionKey)) = Whole.delta \o x
         /\ \E y \in Seq(Text) : Said(document, TitleKey) = Whole.events \o y
         /\ Whole.descriptionDone => Said(document, DescriptionKey) # <<>>
  <1> DEFINE rest == SubSeq(text, fed + 1, Len(text))
             last == Run(NewParser, text)
  <1>1. Written \in Text /\ rest \in Text /\ text = Written \o rest
    BY WrittenType DEF Inv, ParserReadAll, Written
  <1>2. ShowsAll(last, document) /\ Honest(last)
    BY TextShowsAll
  <1> HIDE DEF rest
  <1>3. /\ \E x \in Text : last.delta = Whole.delta \o x
        /\ \E y \in Seq(Text) : last.events = Whole.events \o y
        /\ Whole.descriptionDone => last.descriptionDone
    BY <1>1, ShownStays DEF Whole
  <1> HIDE DEF last
  <1>4. QED
    BY <1>2, <1>3 DEF ShowsAll, Honest

(* Once the object has been read it is all of it.                           *)
LEMMA ObjectShowsAll ==
  ASSUME Inv, PlainlySpelled(document), NEW pre \in Seq(Chars \ {"{"}), NEW rest \in Text,
         Written = (pre \o Rendering(document)) \o rest
  PROVE  ShowsAll(Whole, document)
  <1> DEFINE front == pre \o Rendering(document)
             p == Run(NewParser, front)
             description == OrEmpty(Said(document, DescriptionKey))
             title == Said(document, TitleKey)
  <1>1. document \in Seq(Members)
    BY TextShowsAll
  <1>2. front \in Text /\ p \in ParserStates /\ ShowsAll(p, document) /\ Honest(p)
    BY <1>1, AfterObject, RunHonest
  <1> HIDE DEF front
  <1>3. /\ \E x \in Text : Whole.delta = p.delta \o x
        /\ \E y \in Seq(Text) : Whole.events = p.events \o y
        /\ p.descriptionDone => Whole.descriptionDone
    <2>1. Written = front \o rest
      BY DEF front
    <2>2. Whole = Run(NewParser, front \o rest)
      BY <2>1 DEF Whole
    <2>3. QED
      BY <1>2, <2>2, ShownStays
  <1> HIDE DEF p
  <1>4. /\ p.delta = description /\ p.events = title
        /\ description \in Text /\ title \in Seq(Text)
        /\ p.descriptionDone <=> Said(document, DescriptionKey) # <<>>
    BY <1>2 DEF ShowsAll, Honest, ParserStates
  <1> HIDE DEF description, title
  <1>5. Whole.delta = description
    <2>1. PICK x \in Text : Whole.delta = description \o x
      BY <1>3, <1>4
    <2>2. PICK z \in Text : description = Whole.delta \o z
      BY ShownIsBeginning DEF description
    <2>3. (description \o x) \o z = description
      BY <2>1, <2>2
    <2>4. QED
      BY <1>4, <2>1, <2>3, LongerHasPrefix DEF Text
  <1>6. Whole.events = title
    <2>1. PICK x \in Seq(Text) : Whole.events = title \o x
      BY <1>3, <1>4
    <2>2. PICK z \in Seq(Text) : title = Whole.events \o z
      BY ShownIsBeginning DEF title
    <2>3. (title \o x) \o z = title
      BY <2>1, <2>2
    <2>4. QED
      BY <1>4, <2>1, <2>3, LongerHasPrefix
  <1>7. Whole.descriptionDone <=> Said(document, DescriptionKey) # <<>>
    BY <1>3, <1>4, ShownIsBeginning
  <1>8. QED
    BY <1>5, <1>6, <1>7, WholeIs DEF ShowsAll, Honest, description, title
(* The object has been fed.                                                 *)
LEMMA FedShowsAll ==
  ASSUME Inv, PlainlySpelled(document), ObjectFed
  PROVE  ShowsAll(Whole, document)
  <1>1. PICK preamble \in Preambles : /\ IsPrefix(preamble \o Rendering(document), text)
                                      /\ fed >= Len(preamble) + Len(Rendering(document))
    BY DEF ObjectFed
  <1> DEFINE front == preamble \o Rendering(document)
             k == Len(front)
             rest == SubSeq(text, k + 1, fed)
  <1>2. /\ preamble \in Seq(Chars \ {"{"}) /\ preamble \in Text
        /\ Rendering(document) \in Text
    <2>1. document \in Seq(Members) /\ preamble \in Seq(Chars \ {"{"})
      BY TextShowsAll, ConstantTypes
    <2>2. QED
      BY <2>1, PreambleIsSkipped, RenderingIs
  <1>3. front \in Text /\ k = Len(preamble) + Len(Rendering(document)) /\ k \in Nat
    BY <1>2, ConcatProperties, LenProperties DEF Text
  <1>4. text \in Text /\ fed \in 0 .. Len(text) /\ Len(text) \in Nat
    BY TextAppend DEF Inv, ParserReadAll
  <1>5. SubSeq(front, 1, k) = SubSeq(text, 1, k)
    BY <1>1 DEF IsPrefix
  <1>6. front = SubSeq(text, 1, k)
    BY <1>3, <1>5, SubSeqFull DEF Text
  <1> HIDE DEF front, k
  <1>7. k <= fed
    BY <1>1, <1>3
  <1>8. rest \in Text
    <2>1. \A i \in 1 .. Len(text) : text[i] \in Chars
      BY <1>4, LenProperties DEF Text
    <2>2. k + 1 \in Int /\ fed \in Int /\ \A i \in k + 1 .. fed : text[i] \in Chars
      BY <1>3, <1>4, <2>1
    <2>3. QED
      BY <2>2, SubSeqProperties DEF Text
  <1>9. Written = front \o rest
    <2>1. 1 \in 1 .. Len(text) + 1 /\ k \in 1 - 1 .. Len(text) /\ fed \in k .. Len(text)
      BY <1>3, <1>4, <1>7
    <2>2. SubSeq(text, 1, k) \o SubSeq(text, k + 1, fed) = SubSeq(text, 1, fed)
      BY <1>4, <2>1, ConcatAdjacentSubSeq DEF Text
    <2>3. QED
      BY <1>6, <2>2 DEF Written
  <1> HIDE DEF rest
  <1>10. QED
    BY <1>2, <1>8, <1>9, ObjectShowsAll DEF front

(* The places of a character.                                               *)
LEMMA PlacesOf ==
  ASSUME NEW s \in Text, NEW c, NEW T, T = {i \in 1 .. Len(s) : s[i] = c}, T # {}
  PROVE  /\ Min(T) \in 1 .. Len(s) /\ Max(T) \in 1 .. Len(s)
         /\ \A i \in 1 .. Min(T) - 1 : s[i] # c
  <1> DEFINE n == Len(s)
  <1>1. n \in Nat
    BY LenProperties DEF Text
  <1> HIDE DEF n
  <1>2. T \subseteq 1 .. n
    BY DEF n
  <1>3. T \in SUBSET Nat /\ T \in SUBSET (0 .. n)
    BY <1>1, <1>2
  <1>4. Min(T) \in T /\ \A y \in T : Min(T) <= y
    BY <1>3, LeastIs
  <1>5. Max(T) \in T
    BY <1>1, <1>3, GreatestIs
  <1>6. ASSUME NEW i \in 1 .. Min(T) - 1 PROVE s[i] # c
    <2>1. Min(T) \in 1 .. n
      BY <1>2, <1>4
    <2>2. i \in 1 .. n /\ ~(Min(T) <= i)
      BY <1>1, <2>1
    <2>3. i \notin T
      BY <1>4, <2>2
    <2>4. QED
      BY <2>2, <2>3 DEF n
  <1>7. QED
    BY <1>2, <1>4, <1>5, <1>6 DEF n

LEMMA BetweenBraces ==
  ASSUME NEW raw \in Text
  PROVE  LET start == SelectInSeq(raw, LAMBDA c : c = "{")
             end   == SelectLastInSeq(raw, LAMBDA c : c = "}")
         IN  start # 0 /\ end > start =>
               /\ start \in 1 .. Len(raw) /\ end \in 1 .. Len(raw)
               /\ \A i \in 1 .. start - 1 : raw[i] # "{"
  <1> DEFINE start == SelectInSeq(raw, LAMBDA c : c = "{")
             end == SelectLastInSeq(raw, LAMBDA c : c = "}")
             opening == {i \in 1 .. Len(raw) : raw[i] = "{"}
             closing == {i \in 1 .. Len(raw) : raw[i] = "}"}
  <1>1. /\ start = IF opening # {} THEN Min(opening) ELSE 0
        /\ end = IF closing # {} THEN Max(closing) ELSE 0
    BY DEF SelectInSeq, SelectLastInSeq
  <1>2. opening # {} => /\ Min(opening) \in 1 .. Len(raw)
                        /\ \A i \in 1 .. Min(opening) - 1 : raw[i] # "{"
    BY PlacesOf
  <1>3. closing # {} => Max(closing) \in 1 .. Len(raw)
    BY PlacesOf
  <1> SUFFICES ASSUME start # 0, end > start
               PROVE  /\ start \in 1 .. Len(raw) /\ end \in 1 .. Len(raw)
                      /\ \A i \in 1 .. start - 1 : raw[i] # "{"
    OBVIOUS
  <1> HIDE DEF start, end, opening, closing
  <1>4. opening # {} /\ start = Min(opening)
    BY <1>1
  <1>5. start \in 1 .. Len(raw) /\ \A i \in 1 .. start - 1 : raw[i] # "{"
    BY <1>2, <1>4
  <1>6. closing # {} /\ end = Max(closing)
    <2>1. ~(0 > start)
      <3>1. \A k \in 1 .. Len(raw) : ~(0 > k)
        OBVIOUS
      <3>2. QED
        BY <1>5, <3>1
    <2>2. QED
      BY <1>1, <2>1
  <1>7. QED
    BY <1>3, <1>5, <1>6

(* json.loads succeeds only when the object has been read.                  *)
LEMMA LoadedShowsAll ==
  ASSUME Inv, PlainlySpelled(document), Loads(Written)
  PROVE  ShowsAll(Whole, document)
  <1> DEFINE n == Len(Written)
             a == SelectInSeq(Written, LAMBDA c : c = "{")
             b == SelectLastInSeq(Written, LAMBDA c : c = "}")
             pre == SubSeq(Written, 1, a - 1)
             rest == SubSeq(Written, b + 1, n)
  <1>1. Written \in Text /\ n \in Nat /\ \A i \in 1 .. n : Written[i] \in Chars
    BY WholeIs, LenProperties DEF Text
  <1>2. a # 0 /\ b > a /\ SubSeq(Written, a, b) = Rendering(document)
    BY DEF Loads
  <1>3. a \in 1 .. n /\ b \in 1 .. n /\ \A i \in 1 .. a - 1 : Written[i] # "{"
    BY <1>1, <1>2, BetweenBraces
  <1> HIDE DEF a, b
  <1>4. /\ a \in Nat /\ b \in Nat /\ 1 <= a /\ a <= n /\ b <= n /\ a < b
    <2>1. \A i, j, k \in Nat : i \in 1 .. k /\ j \in 1 .. k /\ j > i =>
                               1 <= i /\ i <= k /\ j <= k /\ i < j
      OBVIOUS
    <2>2. \A k \in Nat : \A i \in 1 .. k : i \in Nat
      OBVIOUS
    <2> HIDE DEF n
    <2>3. QED
      BY <1>1, <1>2, <1>3, <2>1, <2>2
  <1>5. pre \in Seq(Chars \ {"{"})
    <2>1. a - 1 \in Int
      BY <1>4
    <2>2. ASSUME NEW i \in 1 .. a - 1 PROVE Written[i] \in Chars \ {"{"}
      <3>1. i \in 1 .. n
        <4> HIDE DEF n
        <4>1. QED
          BY <1>1, <1>4
      <3>2. QED
        BY <1>1, <1>3, <3>1
    <2> DEFINE Others == Chars \ {"{"}
               e == a - 1
    <2>3. 1 \in Int /\ e \in Int /\ \A i \in 1 .. e : Written[i] \in Others
      <3>1. e \in Int
        BY <2>1
      <3>2. \A i \in 1 .. e : Written[i] \in Others
        BY <2>2
      <3>3. 1 \in Int
        OBVIOUS
      <3>4. QED
        BY <3>1, <3>2, <3>3
    <2> HIDE DEF Others, e
    <2>4. SubSeq(Written, 1, e) \in Seq(Others)
      BY <2>3, SubSeqProperties
    <2>5. QED
      BY <2>4 DEF Others, e
  <1>6. rest \in Text
    <2>1. b + 1 \in Int /\ n \in Int /\ \A i \in b + 1 .. n : Written[i] \in Chars
      <3> HIDE DEF n
      <3>1. \A i \in b + 1 .. n : i \in 1 .. n
        BY <1>1, <1>4
      <3>2. QED
        BY <1>1, <1>4, <3>1
    <2>2. QED
      BY <2>1, SubSeqProperties DEF Text
  <1>7. Written = (pre \o Rendering(document)) \o rest
    <2>1. SubSeq(Written, 1, a - 1) \o SubSeq(Written, a, b) = SubSeq(Written, 1, b)
      <3>1. /\ 1 \in 1 .. n + 1 /\ a - 1 \in 1 - 1 .. n
            /\ b \in a - 1 .. n /\ (a - 1) + 1 = a
        <4> HIDE DEF n
        <4>1. QED
          BY <1>1, <1>4
      <3>2. SubSeq(Written, 1, a - 1) \o SubSeq(Written, (a - 1) + 1, b) = SubSeq(Written, 1, b)
        BY <1>1, <3>1, ConcatAdjacentSubSeq DEF Text
      <3>3. QED
        BY <3>1, <3>2
    <2>2. SubSeq(Written, 1, b) \o SubSeq(Written, b + 1, n) = SubSeq(Written, 1, n)
      <3>1. 1 \in 1 .. n + 1 /\ b \in 1 - 1 .. n /\ n \in b .. n
        <4> HIDE DEF n
        <4>1. QED
          BY <1>1, <1>4
      <3>2. QED
        BY <1>1, <3>1, ConcatAdjacentSubSeq DEF Text
    <2>3. SubSeq(Written, 1, n) = Written
      BY <1>1, SubSeqFull DEF Text
    <2>4. QED
      BY <1>2, <2>1, <2>2, <2>3
  <1> HIDE DEF pre, rest
  <1>8. QED
    BY <1>5, <1>6, <1>7, ObjectShowsAll

(* The title and the description that result() returns.                     *)
LEMMA ResultIs ==
  ASSUME Inv, PlainlySpelled(document), result # <<>>
  PROVE  /\ result[1].title = Strip(OrEmpty(titles))
         /\ ObjectFed =>
              result[1] = [title       |-> Strip(OrEmpty(Said(document, TitleKey))),
                           description |-> Strip(OrEmpty(Said(document, DescriptionKey)))]
  <1> DEFINE title == OrEmpty(parser.title)
             description == parser.descriptionChars
             Refined(key, value) == Strip(Parsed(key, value))
  <1>1. result[1] = Result(parser, Written)
    BY DEF Inv, ParserReadAll
  <1>2. Result(parser, Written) =
          IF Loads(Written)
          THEN [title |-> Refined(TitleKey, title),
                description |-> Refined(DescriptionKey, description)]
          ELSE [title |-> Strip(title), description |-> Strip(description)]
    BY DEF Result
  <1>3. document \in Seq(Members)
    BY TextShowsAll
  <1>4. title = OrEmpty(titles)
    BY WholeIs
  (* What json.loads reads instead is the same when all has been shown. *)
  <1>5. ASSUME NEW key, NEW value, value = OrEmpty(Said(document, key))
        PROVE  Refined(key, value) = Strip(value)
    <2> DEFINE said == Said(document, key)
               full == Strip(IF said = <<>> THEN value ELSE said[1])
    <2>1. Parsed(key, value) = IF full = <<>> THEN value ELSE full
      BY DEF Parsed
    <2>2. value \in Text /\ (IF said = <<>> THEN value ELSE said[1]) = value
      BY <1>3, <1>5, SaidType, TextAppend DEF OrEmpty
    <2>3. full = Strip(value) /\ Strip(full) = Strip(value)
      BY <2>2, StripTwice
    <2> HIDE DEF full
    <2>4. QED
      BY <2>1, <2>3
  <1>6. ShowsAll(Whole, document) => /\ title = OrEmpty(Said(document, TitleKey))
                                     /\ description = OrEmpty(Said(document, DescriptionKey))
    <2> SUFFICES ASSUME ShowsAll(Whole, document)
                 PROVE  /\ title = OrEmpty(Said(document, TitleKey))
                        /\ description = OrEmpty(Said(document, DescriptionKey))
      OBVIOUS
    <2>1. title = OrEmpty(Said(document, TitleKey))
      BY WholeIs DEF ShowsAll
    <2>2. Whole.descriptionChars = OrEmpty(Said(document, DescriptionKey))
      <3>1. CASE Whole.descriptionDone
        BY <3>1, WholeIs DEF ShowsAll, Honest
      <3>2. CASE ~Whole.descriptionDone
        BY <3>2, WholeIs DEF ShowsAll, Honest, OrEmpty
      <3>3. QED
        BY <3>1, <3>2
    <2>3. QED
      BY <2>1, <2>2, WholeIs
  <1> HIDE DEF title, description, Refined
  <1>7. CASE Loads(Written)
    <2>1. ShowsAll(Whole, document)
      BY <1>7, LoadedShowsAll
    <2>2. /\ Refined(TitleKey, title) = Strip(title)
          /\ Refined(DescriptionKey, description) = Strip(description)
      BY <1>5, <1>6, <2>1
    <2>3. result[1] = [title |-> Strip(title), description |-> Strip(description)]
      BY <1>1, <1>2, <1>7, <2>2
    <2>4. QED
      BY <1>4, <1>6, <2>1, <2>3
  <1>8. CASE ~Loads(Written)
    <2>1. result[1] = [title |-> Strip(title), description |-> Strip(description)]
      BY <1>1, <1>2, <1>8
    <2>2. ASSUME ObjectFed PROVE ShowsAll(Whole, document)
      BY <2>2, FedShowsAll
    <2>3. QED
      BY <1>4, <1>6, <2>1, <2>2
  <1>9. QED
    BY <1>7, <1>8

-----------------------------------------------------------------------------
(* The properties *)

(* Type correctness of the automaton and of what is sent, for any documents *)
(* and any texts around them.                                               *)
THEOREM ParserTypes == Spec => []TypeOK
  <1>1. Inv => TypeOK
    <2> SUFFICES ASSUME Inv PROVE TypeOK
      OBVIOUS
    <2>1. parser \in ParserStates /\ parser.delta = <<>> /\ parser.events = <<>>
      <3>1. Whole \in ParserStates /\ parser = Forgets(Whole)
        BY WholeIs
      <3>2. QED
        BY <3>1, ForgetsType DEF Forgets, ParserStates
    <2>2. /\ parser.started \in BOOLEAN /\ parser.inString \in BOOLEAN
          /\ parser.stringIsValue \in BOOLEAN /\ parser.escape \in BOOLEAN
          /\ parser.descriptionDone \in BOOLEAN
          /\ parser.title \in {<<>>} \cup {<<t>> : t \in Text}
          /\ parser.unicodePending \in {<<>>} \cup {<<d>> : d \in {d \in Text : Len(d) < 4}}
      BY <2>1 DEF ParserStates
    <2>3. \A x : Len(<<x>>) = 1 /\ <<x>>[1] = x
      OBVIOUS
    <2>4. Len(<<>>) = 0
      OBVIOUS
    <2>5. Len(parser.title) <= 1
      <3> DEFINE t == parser.title
      <3>1. t = <<>> \/ \E x : t = <<x>>
        BY <2>2
      <3> HIDE DEF t
      <3>2. Len(t) <= 1
        <4>1. CASE t = <<>>
          BY <2>4, <4>1
        <4>2. ASSUME NEW x, t = <<x>> PROVE Len(t) <= 1
          BY <4>2
        <4>3. QED
          BY <3>1, <4>1, <4>2
      <3>3. QED
        BY <3>2 DEF t
    <2>6. /\ Len(parser.unicodePending) <= 1
          /\ parser.unicodePending # <<>> => Len(parser.unicodePending[1]) < 4
      <3> DEFINE t == parser.unicodePending
      <3>1. t = <<>> \/ \E x : t = <<x>> /\ Len(x) < 4
        BY <2>2
      <3> HIDE DEF t
      <3>2. Len(t) <= 1 /\ (t # <<>> => Len(t[1]) < 4)
        BY <2>3, <2>4, <3>1
      <3>3. QED
        BY <3>2 DEF t
    <2>7. \A flag \in {"started", "inString", "stringIsValue", "escape",
                       "descriptionDone"} : parser[flag] \in BOOLEAN
      BY <2>2
    <2>8. Len(result) <= 1
      <3>1. result = <<>> \/ result = <<Result(parser, Written)>>
        BY DEF Inv, ParserReadAll
      <3>2. QED
        BY <2>3, <2>4, <3>1
    <2>9. document \in Documents /\ fed \in 0 .. Len(text)
      BY DEF Inv, TextIsOfDocument, ParserReadAll
    <2>10. QED
      BY <2>1, <2>5, <2>6, <2>7, <2>8, <2>9 DEF TypeOK
  <1>2. QED
    BY <1>1, ParserInvariant, PTL

(* Of a plainly spelled object nothing untrue is ever shown, however feed() *)
(* gets it: the deltas are a beginning of the description, the title whole. *)
THEOREM NothingUntrueIsShown ==
  ASSUME \A doc \in Documents : PlainlySpelled(doc)
  PROVE  Spec => []ShownIsTrue
  <1>1. Inv => ShownIsTrue
    <2> SUFFICES ASSUME Inv PROVE ShownIsTrue
      OBVIOUS
    <2>1. PlainlySpelled(document)
      BY DEF Inv, TextIsOfDocument
    <2>2. shown = Whole.delta /\ titles = Whole.events
          /\ shown \in Text /\ titles \in Seq(Text)
      BY WholeIs DEF ParserStates
    <2>3. IsPrefix(shown, OrEmpty(Said(document, DescriptionKey)))
      <3>1. PICK x \in Text : OrEmpty(Said(document, DescriptionKey)) = shown \o x
        BY <2>1, <2>2, ShownIsBeginning
      <3>2. QED
        BY <2>2, <3>1, LongerHasPrefix DEF Text
    <2>4. IsPrefix(titles, Said(document, TitleKey))
      <3>1. PICK y \in Seq(Text) : Said(document, TitleKey) = titles \o y
        BY <2>1, <2>2, ShownIsBeginning
      <3>2. QED
        BY <2>2, <3>1, LongerHasPrefix
    <2>5. QED
      BY <2>3, <2>4 DEF ShownIsTrue
  <1>2. QED
    BY <1>1, ParserInvariant, PTL

(* When the last character of the object has been fed, all of it has been   *)
(* shown, whatever the model writes after it.                               *)
THEOREM NothingIsHeldBack ==
  ASSUME \A doc \in Documents : PlainlySpelled(doc)
  PROVE  Spec => []AllIsShown
  <1>1. Inv => AllIsShown
    <2> SUFFICES ASSUME Inv, ObjectFed
                 PROVE  /\ shown = OrEmpty(Said(document, DescriptionKey))
                        /\ titles = Said(document, TitleKey)
      BY DEF AllIsShown
    <2>1. PlainlySpelled(document)
      BY DEF Inv, TextIsOfDocument
    <2>2. QED
      BY <2>1, FedShowsAll, WholeIs DEF ShowsAll
  <1>2. QED
    BY <1>1, ParserInvariant, PTL

(* result() returns what the object says, whether json.loads accepts the    *)
(* text or the values of the stream are used.                               *)
THEOREM TheResultIsFaithful ==
  ASSUME \A doc \in Documents : PlainlySpelled(doc)
  PROVE  Spec => []ResultIsFaithful
  <1>1. Inv => ResultIsFaithful
    <2> SUFFICES ASSUME Inv, ObjectFed, result # <<>>
                 PROVE  result[1] =
                          [title       |-> Strip(OrEmpty(Said(document, TitleKey))),
                           description |-> Strip(OrEmpty(Said(document, DescriptionKey)))]
      BY DEF ResultIsFaithful
    <2>1. PlainlySpelled(document)
      BY DEF Inv, TextIsOfDocument
    <2>2. QED
      BY <2>1, ResultIs
  <1>2. QED
    BY <1>1, ParserInvariant, PTL

(* The title of result() is the one that was sent, or none, wherever the    *)
(* stream was cut: json.loads cannot know one the parser has not announced. *)
THEOREM TheTitlesAgree ==
  ASSUME \A doc \in Documents : PlainlySpelled(doc)
  PROVE  Spec => []TitleAgrees
  <1>1. Inv => TitleAgrees
    <2> SUFFICES ASSUME Inv, result # <<>>
                 PROVE  result[1].title = Strip(OrEmpty(titles))
      BY DEF TitleAgrees
    <2>1. PlainlySpelled(document)
      BY DEF Inv, TextIsOfDocument
    <2>2. QED
      BY <2>1, ResultIs
  <1>2. QED
    BY <1>1, ParserInvariant, PTL
=============================================================================
