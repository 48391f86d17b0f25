----------------------------- MODULE HttpServer -----------------------------
(***************************************************************************)
(* http::httpServer (httpServer.cpp) on one connection: a client sends     *)
(* some requests, TCP delivers their text in segments of any size, and     *)
(* httpMessageCallback is called once for each.  Of the connection only    *)
(* what the callback sees is kept: inputBuffer_, state_, and that send     *)
(* does nothing unless the state is kConnected.  (TcpConnection and        *)
(* NetBuffer have the rest.)                                               *)
(***************************************************************************)
EXTENDS HttpParser

CONSTANTS
  Urls, Bodies,    \* of the requests; an empty body makes a GET
  MaxRequests      \* bound on the requests of the client

VARIABLES
  requests,        \* what the client sends
  arrived,         \* symbols of it that have arrived
  inputBuffer_,
  state_,
  answers,         \* the requests that have been answered
  saved,           \* the bodies that have been saved in files
  stuck,           \* parse() does not return, and with it the IO loop
  cut, piped       \* history, see Segment

vars == <<requests, arrived, inputBuffer_, state_, answers, saved, stuck, cut, piped>>

Header(key, value) == <<key, ":", SP, value>> \o CR_LF

\* What makes a request bad: a header line without a space, or one with a bare CR.
BadLines == {<<"Host">> \o CR_LF, <<CR, "H">> \o CR_LF}

\* The text of request r.
Text(r) ==
  r.method \o <<SP>> \o r.url \o <<SP>> \o HTTP_1_1 \o CR_LF
    \o r.bad
    \o (IF r.keep THEN Header("Connection", "keep-alive") ELSE << >>)
    \o (IF r.body # << >> THEN Header("Content-Length", ToString(Len(r.body))) ELSE << >>)
    \o CR_LF \o r.body

Requests ==
  {[method |-> IF b = << >> THEN GET ELSE POST, url |-> u, body |-> b, keep |-> k, bad |-> f] :
     u \in Urls, b \in Bodies, k \in BOOLEAN, f \in BadLines \cup {<< >>}}

\* Where request i of the client ends in its text.
End(i) == Len(FlattenSeq([j \in 1..i |-> Text(requests[j])]))
Stream == FlattenSeq([j \in 1..Len(requests) |-> Text(requests[j])])
Ends   == {End(i) : i \in 1..Len(requests)}

TypeOK ==
  /\ arrived \in 0..Len(Stream)
  /\ Len(inputBuffer_) <= arrived
  /\ state_ \in {"kConnected", "kDisconnecting", "kDisconnected"}
  /\ Len(answers) <= Len(requests)
  /\ Len(saved) <= Len(requests)
  /\ stuck \in BOOLEAN /\ cut \in BOOLEAN /\ piped \in BOOLEAN

Init ==
  /\ requests \in UNION {[1..n -> Requests] : n \in 1..MaxRequests}
  /\ arrived = 0 /\ inputBuffer_ = << >>
  /\ state_ = "kConnected"
  /\ answers = << >> /\ saved = << >>
  /\ stuck = FALSE /\ cut = FALSE /\ piped = FALSE

-----------------------------------------------------------------------------
\* httpRespond::respond hands header and body to send and sendFile.
respond(r) ==
  answers' = IF state_ = "kConnected" THEN Append(answers, r) ELSE answers

\* forceClose(), and the forceCloseInLoop that runs before the loop polls again.
forceClose(yes) == state_' = IF yes THEN "kDisconnected" ELSE state_

\* The request is taken out of the buffer and answered: a GET with the file or
\* with 404.html, or not at all if neither can be opened, a POST once its body
\* is saved.  Without keep-alive the connection is closed.
successCallback(text, result) ==
  LET r == result.request
  IN /\ inputBuffer_' = SubSeq(text, result.parseSize_ + 1, Len(text))
     /\ \/ /\ r.method = GET
           /\ respond(r) /\ forceClose(~r.keep) /\ UNCHANGED saved
        \/ /\ r.method = GET
           /\ forceClose(TRUE) /\ UNCHANGED <<answers, saved>>
        \/ /\ r.method = POST
           /\ saved' = Append(saved, r.body)
           /\ respond(r) /\ forceClose(~r.keep)

\* What cannot be parsed is thrown away, and the connection shut down.
httpMessageCallback(text, result) ==
  \/ /\ result.state = "Success_"
     /\ successCallback(text, result)
     /\ UNCHANGED stuck
  \/ /\ result.state = "Incomplete_"
     /\ inputBuffer_' = text
     /\ UNCHANGED <<state_, answers, saved, stuck>>
  \/ /\ result.state = "Failed_"
     /\ inputBuffer_' = << >>
     /\ state_' = "kDisconnecting"
     /\ UNCHANGED <<answers, saved, stuck>>
  \/ /\ result.state = "Loops"
     /\ inputBuffer_' = text
     /\ stuck' = TRUE
     /\ UNCHANGED <<state_, answers, saved>>

\* The text ends inside the method or inside the version of a request.
Fragile ==
  UNION {{End(i - 1) + 1, End(i - 1) + 5 + Len(requests[i].url)} : i \in 1..Len(requests)}

\* n more symbols arrive.  cut records that a segment has ended inside a method
\* or a version, piped that one had the end of a request and more behind it.
Segment ==
  /\ state_ # "kDisconnected" /\ ~stuck
  /\ \E n \in 1..(Len(Stream) - arrived), beyond \in BOOLEAN :
       LET text == inputBuffer_ \o SubSeq(Stream, arrived + 1, arrived + n)
       IN /\ arrived' = arrived + n
          /\ cut' = (cut \/ arrived + n \in Fragile)
          /\ piped' = (piped \/ \E e \in Ends : arrived < e /\ e < arrived + n)
          /\ httpMessageCallback(text, parse(text, beyond))
  /\ UNCHANGED requests

PeerCloses ==
  /\ state_ # "kDisconnected" /\ ~stuck
  /\ state_' = "kDisconnected"
  /\ UNCHANGED <<requests, arrived, inputBuffer_, answers, saved, stuck, cut, piped>>

Closed == (state_ = "kDisconnected" \/ stuck) /\ UNCHANGED vars

Next == Segment \/ PeerCloses \/ Closed

Spec == Init /\ [][Next]_vars

-----------------------------------------------------------------------------
Fields(r) == [method |-> r.method, url |-> r.url, body |-> r.body, keep |-> r.keep]

\* Whatever the segments are, the answers are those of the client's requests, in
\* order, with their urls, bodies and keep-alive.
AnswersMatch == \A i \in 1..Len(answers) : answers[i] = Fields(requests[i])

\* parseSize_ is the size of the request: the buffer always begins where the
\* next request does, and nothing of it is lost, until the connection goes down.
Aligned ==
  state_ = "kConnected" =>
    inputBuffer_ = SubSeq(Stream, End(Len(answers)) + 1, arrived)

\* Client and server stay in step.
InStep == TypeOK /\ AnswersMatch /\ Aligned

\* A client that waits for the answer before it sends its next request gets it
\* as soon as the request has arrived, however the request was split, except
\* inside its method or its version; only a bad request can be left without one.
Answered ==
  state_ = "kConnected" /\ ~cut /\ ~piped =>
    \/ Len(answers) = Cardinality({i \in 1..Len(requests) : End(i) <= arrived})
    \/ stuck /\ requests[Len(answers) + 1].bad # << >>

\* Only a bad request, or one that was split inside its method or its version,
\* is rejected.
RejectsOnlyBad ==
  state_ = "kDisconnecting" =>
    cut \/ \E i \in 1..Len(requests) : requests[i].bad # << >> /\ End(i - 1) < arrived
=============================================================================
