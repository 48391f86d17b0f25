----------------------------- MODULE HttpParser -----------------------------
(***************************************************************************)
(* http::httpParser (http/httpParser.cpp): one parser object looks once at *)
(* the bytes that a connection has received and not consumed.              *)
(*                                                                         *)
(* Text is a sequence of symbols.  A symbol is a character or a piece of   *)
(* text whose inside does not matter to the parser; methods and versions   *)
(* are two symbols, so that the text can end inside them; the symbol       *)
(* behind a CR is a single character.  Positions count from 1, l_end is    *)
(* the last position of a line.                                            *)
(***************************************************************************)
EXTENDS Integers, Sequences, SequencesExt

CR == "\r"
LF == "\n"
CR_LF == <<CR, LF>>
SP == " "

GET == <<"GE", "T">>
POST == <<"POS", "T">>
HTTP_1_1 == <<"HTTP/1.", "1">>
HTTP_1_0 == <<"HTTP/1.", "0">>

\* The first position of symbol c in text[from..to], 0 if there is none.
Position(text, c, from, to) == SelectInSubSeq(text, from, to, LAMBDA x : x = c)

LineIncomplete == [state |-> "LineIncomplete_"]
LineBad        == [state |-> "LineBad_"]

\* strncmp(buf_ + cur_, version, 8), which does not know where the text ends:
\* behind it are old bytes of the buffer, and beyond says whether they match.
VersionAt(text, at, version, beyond) ==
  \A i \in 1..Len(version) :
    IF at + i <= Len(text) THEN text[at + i] = version[i] ELSE beyond

-----------------------------------------------------------------------------
\* The CRs at which requestLineParse stops to look for an LF: behind a CR it skips
\* one character, be it another CR, so that of a run of CRs it sees every other.
CRsSeen(text) ==
  LET CRs == {i \in 1..Len(text) : text[i] = CR}
  IN {i \in CRs : \E run \in CRs : /\ run <= i /\ (i - run) % 2 = 0
                                  /\ run..i \subseteq CRs /\ run - 1 \notin CRs}

\* The ones that it sees an LF behind, or that may still get one.
LineCRs(text) == {i \in CRsSeen(text) : i = Len(text) \/ text[i + 1] = LF}

\* The request line.  Without a CR all of the text is taken for the line.
requestLineParse(text, beyond) ==
  LET cr     == IF LineCRs(text) = {} THEN 0 ELSE Min(LineCRs(text))
      l_end  == IF cr = 0 THEN Len(text) ELSE cr + 1
      method == SubSeq(text, 1, Min({2, l_end}))
      space  == Position(text, SP, 4, l_end)      \* the one after the url
  IN IF cr # 0 /\ cr = Len(text) THEN LineIncomplete
     ELSE IF method \notin {GET, POST} THEN LineBad
     ELSE IF l_end = 2 \/ text[3] # SP \/ space \in {0, l_end} THEN LineIncomplete
     ELSE IF \A v \in {HTTP_1_1, HTTP_1_0} : ~VersionAt(text, space, v, beyond) THEN LineBad
     ELSE [state |-> "LineOk_", method |-> method,
           url |-> SubSeq(text, 4, space - 1), l_end |-> l_end]

\* The header lines of the text behind position from: the positions of their CRs,
\* where each of them begins, whether it is blank or has no space, and whether its
\* CR is not followed by an LF.
LineEnds(text, from)   == {i \in (from + 1)..(Len(text) - 1) : text[i] = CR}
Begin(text, from, cr)  ==
  LET before == {i \in LineEnds(text, from) : i < cr}
  IN IF before = {} THEN from + 1 ELSE Max(before) + 2
Blank(text, from, cr)  == Begin(text, from, cr) = cr
Spaceless(text, from, cr) == Position(text, SP, Begin(text, from, cr), cr) = 0
Bare(text, cr)         == text[cr + 1] # LF

\* The value of header key k, of the first line that has it; << >> if none has.
getValue(text, from, ends, k) ==
  LET has == {cr \in ends :
                LET b == Begin(text, from, cr)
                IN SubSeq(text, b, Position(text, SP, b, cr) - 2) = k}
      cr  == Min(has)
      sp  == Position(text, SP, Begin(text, from, cr), cr)
  IN IF has = {} THEN << >> ELSE SubSeq(text, sp + 1, cr - 1)

requestHeadParse_NoWait(text, from) ==            \* mutant: more to come is bad
  LET stops == {cr \in LineEnds(text, from) : Blank(text, from, cr)}
      stop  == Min(stops)
      lines == {cr \in LineEnds(text, from) : cr < stop}
  IN IF stops = {} THEN LineBad
     ELSE [state |-> "LineOk_", l_end |-> stop + 1,
           length |-> getValue(text, from, lines, <<"Content-Length">>),
           connection |-> getValue(text, from, lines, <<"Connection">>)]

\* The header ends at its first blank line, and fails at a line without a space.
\* At a bare CR the search starts again at the beginning of the same line, and so
\* for ever, unless the text ends with the character behind it.
requestHeadParse(text, from) ==
  LET stops == {cr \in LineEnds(text, from) :
                  Bare(text, cr) \/ Blank(text, from, cr) \/ Spaceless(text, from, cr)}
      stop  == Min(stops)
      lines == {cr \in LineEnds(text, from) : cr < stop}
  IN IF stops = {} \/ (Bare(text, stop) /\ stop + 1 = Len(text)) THEN LineIncomplete
     ELSE IF Bare(text, stop) THEN [state |-> "Loops"]
     ELSE IF ~Blank(text, from, stop) THEN LineBad
     ELSE [state |-> "LineOk_", l_end |-> stop + 1,
           length |-> getValue(text, from, lines, <<"Content-Length">>),
           connection |-> getValue(text, from, lines, <<"Connection">>)]

requestBodyParse_OffByOne(text, from, len) ==     \* mutant: >= for >
  IF from + len >= Len(text) THEN LineIncomplete
  ELSE [state |-> "LineOk_", body |-> SubSeq(text, from + 1, from + len), l_end |-> from + len]

requestBodyParse(text, from, len) ==
  IF from + len > Len(text) THEN LineIncomplete
  ELSE [state |-> "LineOk_", body |-> SubSeq(text, from + 1, from + len), l_end |-> from + len]

\* std::stoi, on the numbers that occur; it throws when there is no number.
IsNumber(value) == \E n \in 0..9 : value = <<ToString(n)>>
stoi(value) == CHOOSE n \in 0..9 : value = <<ToString(n)>>

-----------------------------------------------------------------------------
Incomplete == [state |-> "Incomplete_"]
Failed     == [state |-> "Failed_"]

Success_LineSize(line, head, body, parseSize) ==  \* mutant: the body is not counted
  [state |-> "Success_", parseSize_ |-> head.l_end,
   request |-> [method |-> line.method, url |-> line.url, body |-> body,
                keep |-> head.connection \in {<<"keep-alive">>, <<"Keep-Alive">>}]]

\* What is handed to the server.
Success(line, head, body, parseSize) ==
  [state |-> "Success_", parseSize_ |-> parseSize,
   request |-> [method |-> line.method, url |-> line.url, body |-> body,
                keep |-> head.connection \in {<<"keep-alive">>, <<"Keep-Alive">>}]]

\* The body of a POST; a length of 0 has no case of its own, and the loop of
\* parse() goes on for ever.  What stoi throws ends the program.
BodyResult(text, line, head) ==
  LET body == requestBodyParse(text, head.l_end, stoi(head.length))
  IN IF head.l_end = Len(text) THEN Incomplete
     ELSE IF head.length = << >> THEN Failed
     ELSE IF ~IsNumber(head.length) THEN [state |-> "Throws"]
     ELSE IF stoi(head.length) = 0 THEN [state |-> "Loops"]
     ELSE IF body.state = "LineOk_" THEN Success(line, head, body.body, body.l_end)
     ELSE Incomplete

HeadResult(text, line) ==
  LET head == requestHeadParse(text, line.l_end)
  IN IF line.l_end = Len(text) \/ head.state = "LineIncomplete_" THEN Incomplete
     ELSE IF head.state = "Loops" THEN [state |-> "Loops"]
     ELSE IF head.state = "LineBad_" THEN Failed
     ELSE IF line.method = GET THEN Success(line, head, << >>, head.l_end)
     ELSE BodyResult(text, line, head)

parse(text, beyond) ==
  LET line == requestLineParse(text, beyond)
  IN IF text = << >> \/ line.state = "LineIncomplete_" THEN Incomplete
     ELSE IF line.state = "LineBad_" THEN Failed
     ELSE HeadResult(text, line)
=============================================================================
