-------------------------------- MODULE Http --------------------------------
(***************************************************************************)
(* One connection of an HttpServer: onMessage, HttpContext::parseRequest,  *)
(* HttpRequest, onRequest and HttpResponse, over a stream that may be cut  *)
(* anywhere, and the part of TcpConnection that sends and shuts down.      *)
(*                                                                         *)
(* What is hard: a read brings any part of a request or of several, while  *)
(* every message is parsed by a new HttpContext, which answers at most one *)
(* request; messages go on arriving after shutdown; and the client knows   *)
(* where an answer ends only by its length or by the end of the stream.    *)
(*                                                                         *)
(* Text is a sequence of tokens: words, separators, CR and LF.  A token is *)
(* never cut; a word that is cut is no more use to the parser than none.   *)
(*                                                                         *)
(* A definition marked "mutant" is part of no behaviour: it is a form that *)
(* a bug would give to the definition after it, and which the runs reject. *)
(***************************************************************************)
EXTENDS Integers, Sequences, SequencesExt

CONSTANTS
  Word,        \* what text consists of, besides separators and the colon
  Numeral,     \* the number of each word that is one
  Request,     \* requests a client may send, see RequestType
  MaxRequests  \* how many it sends

Methods == {"GET", "POST", "HEAD", "PUT", "DELETE"}
Versions == {"HTTP/1.0", "HTTP/1.1"}
CRLF == <<"CR", "LF">>
Separators == {" ", "CR", "LF"}
Token == Word \cup Separators \cup {":"}
Text == Seq(Token)

\* A length is a word; atoi makes 0 of one that is no number.
atoi(s) == IF s # <<>> /\ s[1] \in DOMAIN Numeral THEN Numeral[s[1]] ELSE 0

\* A request as its sender means it: a query begins with the question mark, each header
\* comes once (headers are pairs of a field and its value), and the body is as long as the
\* header says.  Methods and versions may be any.
RequestType(r) ==
  /\ r \in [method : Word, path : Seq(Word \ {"?"}), query : Seq(Word), version : Word,
            headers : Seq((Word \ {":"}) \X Word), body : Text]
  /\ r.query # <<>> => r.query[1] = "?"
  /\ \A i, j \in DOMAIN r.headers : r.headers[i][1] = r.headers[j][1] => i = j
  /\ IF \E i \in DOMAIN r.headers : r.headers[i][1] = "Content-Length"
     THEN \A i \in DOMAIN r.headers :
            r.headers[i][1] = "Content-Length" => Len(r.body) = atoi(<<r.headers[i][2]>>)
     ELSE r.body = <<>>

ASSUME HttpAssumption ==
  /\ Word \cap Separators = {}
  /\ DOMAIN Numeral \subseteq Word /\ \A w \in DOMAIN Numeral : Numeral[w] \in Nat
  /\ \A r \in Request : RequestType(r)
  /\ MaxRequests \in Nat

VARIABLES
  script, pipelines,  \* what the client sends, and whether it waits for answers in between
  closes,             \* whether the httpCallback_ calls setCloseConnection(true)
  sent,               \* how many requests the client has sent
  kernel,             \* tokens the server has not read
  cut,                \* a read has ended inside a request, behind its first line
  inputBuffer_,
  state_, request_, ok,     \* of the HttpContext and of parseRequest
  pc,
  connState, writing, shut, \* of the TcpConnection
  answers

clientVars == <<script, pipelines, closes>>
inputVars == <<sent, kernel, cut>>
parseVars == <<inputBuffer_, state_, request_, ok>>
connVars == <<connState, writing, shut, answers>>
httpVars == <<clientVars, inputVars, parseVars, pc, connVars>>

\* What HttpRequest holds: headers is a function.
NoRequest == [method |-> "kInvalid", path |-> <<>>, query |-> <<>>, version |-> "kUnknown",
              headers |-> <<>>, body |-> <<>>]

HttpInit ==
  /\ script \in UNION {[1 .. n -> Request] : n \in 1 .. MaxRequests}
  /\ pipelines \in BOOLEAN /\ closes \in BOOLEAN
  /\ sent = 0 /\ kernel = <<>> /\ cut = FALSE
  /\ inputBuffer_ = <<>>
  /\ state_ = "kExpectRequestLine" /\ request_ = NoRequest /\ ok = TRUE
  /\ pc = "loop"
  /\ connState = "kConnected" /\ writing = FALSE /\ shut = FALSE
  /\ answers = <<>>
-----------------------------------------------------------------------------
(***************************************************************************)
(* The client.                                                             *)
(***************************************************************************)
FirstLine(r) == <<r.method, " ">> \o r.path \o r.query \o <<" ", r.version>> \o CRLF

HeaderLine(h) == <<h[1], ":", " ", h[2]>> \o CRLF
HeaderLines(r) == FlattenSeq([i \in DOMAIN r.headers |-> HeaderLine(r.headers[i])])

Encode(r) == FirstLine(r) \o HeaderLines(r) \o CRLF \o r.body

\* A client that does not pipeline waits for each answer to have been written, and sends
\* nothing after one that says that the connection closes.
ClientSends ==
  /\ sent < Len(script)
  /\ pipelines \/ (Len(answers) >= sent /\ ~writing /\ \A i \in DOMAIN answers : ~answers[i].close)
  /\ sent' = sent + 1
  /\ kernel' = kernel \o Encode(script[sent + 1])
  /\ UNCHANGED <<clientVars, cut, parseVars, pc, connVars>>
-----------------------------------------------------------------------------
(***************************************************************************)
(* Searching: std::find and Buffer::findCRLF.                              *)
(***************************************************************************)
\* The first of a set of indexes, or the one after n.
FirstOf(hits, n) == CHOOSE i \in hits \cup {n + 1} : \A j \in hits : i <= j

find(s, t) == FirstOf({i \in DOMAIN s : s[i] = t}, Len(s))
findCRLF(s) == FirstOf({i \in 1 .. Len(s) - 1 : s[i] = "CR" /\ s[i + 1] = "LF"}, Len(s))

Before(s, i) == SubSeq(s, 1, i - 1)
After(s, i) == SubSeq(s, i + 1, Len(s))

hasLine == findCRLF(inputBuffer_) <= Len(inputBuffer_)
line == Before(inputBuffer_, findCRLF(inputBuffer_))
RetrieveLine == inputBuffer_' = After(inputBuffer_, findCRLF(inputBuffer_) + 1)
-----------------------------------------------------------------------------
(***************************************************************************)
(* A message: TcpConnection::handleRead, and onMessage's new HttpContext.  *)
(***************************************************************************)
SameContext == UNCHANGED <<state_, request_>>  \* mutant: the context outlives the message
NewContext == state_' = "kExpectRequestLine" /\ request_' = NoRequest

\* A part of a request, with its first line and without its end.
PartOf(r, s) ==
  /\ Len(FirstLine(r)) <= Len(s) /\ Len(s) < Len(Encode(r))
  /\ SubSeq(Encode(r), 1, Len(s)) = s

ReadMessage ==
  /\ pc = "loop"
  /\ \E n \in 1 .. Len(kernel) :
       /\ inputBuffer_' = inputBuffer_ \o SubSeq(kernel, 1, n)
       /\ kernel' = SubSeq(kernel, n + 1, Len(kernel))
  /\ cut' = (cut \/ \E i \in 1 .. sent : PartOf(script[i], inputBuffer_'))
  /\ NewContext /\ ok' = TRUE
  /\ pc' = "parse"
  /\ UNCHANGED <<clientVars, sent, connVars>>

(***************************************************************************)
(* parseRequest: one turn of its loop is an action, one for each branch.   *)
(***************************************************************************)
processRequestLine(text) ==  \* succeeds: method, target without blanks, version
  LET n == Len(text) IN
  /\ n >= 4 /\ text[1] \in Methods /\ text[n] \in Versions
  /\ {i \in 1 .. n : text[i] = " "} = {2, n - 1}

\* The target up to the question mark, and from it; no other word contains one.
pathOf(text) == SubSeq(text, 3, FirstOf({i \in 3 .. Len(text) - 2 : text[i] = "?"}, Len(text) - 2) - 1)
queryOf(text) == SubSeq(text, 3 + Len(pathOf(text)), Len(text) - 2)

ParseRequestLine ==
  /\ pc = "parse" /\ state_ = "kExpectRequestLine" /\ hasLine
  /\ processRequestLine(line)
  /\ request_' = [NoRequest EXCEPT !.method = line[1], !.version = line[Len(line)],
                                   !.path = pathOf(line), !.query = queryOf(line)]
  /\ state_' = "kExpectHeaders"
  /\ RetrieveLine
  /\ UNCHANGED <<clientVars, inputVars, ok, pc, connVars>>

\* The line stays in the buffer.
ParseBadLine ==
  /\ pc = "parse" /\ state_ = "kExpectRequestLine" /\ hasLine
  /\ ~processRequestLine(line)
  /\ ok' = FALSE
  /\ pc' = "parsed"
  /\ UNCHANGED <<clientVars, inputVars, inputBuffer_, state_, request_, connVars>>

ParseNoLine ==
  /\ pc = "parse" /\ state_ \in {"kExpectRequestLine", "kExpectHeaders"} /\ ~hasLine
  /\ pc' = "parsed"
  /\ UNCHANGED <<clientVars, inputVars, parseVars, connVars>>

\* setHeader takes white space off the value, at both ends (a tab is no token).
KeepBlanks(s) == s  \* mutant
Trim(s) ==
  LET words == {i \in DOMAIN s : s[i] \notin Separators}
  IN IF words = {} THEN <<>>
     ELSE SubSeq(s, CHOOSE i \in words : \A j \in words : i <= j,
                    CHOOSE i \in words : \A j \in words : j <= i)

setHeader(headers, field, value) ==
  [f \in DOMAIN headers \cup {field} |-> IF f = field THEN value ELSE headers[f]]

ParseHeader ==
  /\ pc = "parse" /\ state_ = "kExpectHeaders" /\ hasLine
  /\ LET colon == find(line, ":") IN
     IF colon <= Len(line)
     THEN /\ request_' = [request_ EXCEPT !.headers =
                            setHeader(@, Before(line, colon), Trim(After(line, colon)))]
          /\ UNCHANGED state_
     ELSE state_' = "kExpectBody" /\ UNCHANGED request_
  /\ RetrieveLine
  /\ UNCHANGED <<clientVars, inputVars, ok, pc, connVars>>

header(field) == IF <<field>> \in DOMAIN request_.headers THEN request_.headers[<<field>>] ELSE <<>>

\* header returns nothing for a field that there is not: the body has length 0 then.
bodyLen == atoi(header("Content-Length"))
hasBody == header("Content-Length") = <<>> \/ bodyLen <= Len(inputBuffer_)

ParseBody ==
  /\ pc = "parse" /\ state_ = "kExpectBody"
  /\ hasBody
  /\ request_' = [request_ EXCEPT !.body = Before(inputBuffer_, bodyLen + 1)]
  /\ inputBuffer_' = After(inputBuffer_, bodyLen)
  /\ state_' = "kGotAll"
  /\ pc' = "parsed"
  /\ UNCHANGED <<clientVars, inputVars, ok, connVars>>

\* The body is not complete: hasMore stays true, and another turn finds the same.
ParseAgain ==
  /\ pc = "parse" /\ state_ = "kExpectBody"
  /\ ~hasBody
  /\ UNCHANGED httpVars
-----------------------------------------------------------------------------
(***************************************************************************)
(* The answer.  The httpCallback_ is one whose answer tells what it has    *)
(* been given.                                                             *)
(***************************************************************************)
Answer(status, method, path, query, body, close) ==
  [status |-> status, method |-> method, path |-> path, query |-> query, body |-> body,
   close |-> close]

\* It says neither how long it is nor that the connection closes: its end is that of the stream.
BadRequest == Answer(400, "", <<>>, <<>>, <<>>, TRUE)

\* TcpConnection::send, then shutdown if shuts: a write to a socket that has been shut
\* down raises SIGPIPE.  (The kernel takes some of every answer here; one that it takes
\* nothing of is dropped, as TcpStream shows.)
Killed == ~writing /\ shut
Finish(answer, shuts) ==
  IF Killed THEN pc' = "killed" /\ UNCHANGED connVars
  ELSE /\ answers' = Append(answers, answer)
       /\ writing' \in {writing, TRUE}
       /\ connState' = IF shuts THEN "kDisconnecting" ELSE connState
       /\ shut' = (shut \/ (shuts /\ connState = "kConnected" /\ ~writing'))
       /\ pc' = "loop"

OnBadRequest ==
  /\ pc = "parsed" /\ ~ok
  /\ Finish(BadRequest, TRUE)
  /\ UNCHANGED <<clientVars, inputVars, parseVars>>

OnNothing ==
  /\ pc = "parsed" /\ ok /\ state_ # "kGotAll"
  /\ pc' = "loop"
  /\ UNCHANGED <<clientVars, inputVars, parseVars, connVars>>

wantsClose ==
  \/ header("Connection") = <<"close">>
  \/ request_.version = "HTTP/1.0" /\ header("Connection") # <<"Keep-Alive">>

\* response.closeConnection(), which the httpCallback_ may have set.
LocalClose == wantsClose  \* mutant: onRequest's local variable, as the request had it
OldCloses == wantsClose \/ closes \/ request_.version = "HTTP/1.0"  \* mutant
closeConnection == wantsClose \/ closes

OnRequest ==
  /\ pc = "parsed" /\ ok /\ state_ = "kGotAll"
  /\ Finish(Answer(200, request_.method, request_.path, request_.query, request_.body,
                   wantsClose \/ closes), closeConnection)
  /\ UNCHANGED <<clientVars, inputVars, parseVars>>

\* handleWrite, when it has written everything.
HandleWrite ==
  /\ pc = "loop" /\ writing
  /\ writing' = FALSE
  /\ shut' = (connState = "kDisconnecting")
  /\ UNCHANGED <<clientVars, inputVars, parseVars, pc, connState, answers>>
-----------------------------------------------------------------------------
ParseStep == ParseRequestLine \/ ParseBadLine \/ ParseNoLine \/ ParseHeader \/ ParseBody \/ ParseAgain
LoopStep == ReadMessage \/ ParseStep \/ OnBadRequest \/ OnNothing \/ OnRequest

HttpNext == ClientSends \/ LoopStep \/ HandleWrite

HttpSpec == HttpInit /\ [][HttpNext]_httpVars

\* The loop's thread runs, also what is ready for writing.
FairSpec == HttpSpec /\ WF_httpVars(LoopStep) /\ WF_httpVars(HandleWrite)
-----------------------------------------------------------------------------
WellFormed(r) == r.method \in Methods /\ r.version \in Versions

HasHeader(r, field, value) == \E i \in DOMAIN r.headers : r.headers[i] = <<field, value>>

\* The answer a request deserves.
Deserved(r) ==
  IF WellFormed(r)
  THEN Answer(200, r.method, r.path, r.query, r.body,
              \/ closes \/ HasHeader(r, "Connection", "close")
              \/ r.version = "HTTP/1.0" /\ ~HasHeader(r, "Connection", "Keep-Alive"))
  ELSE BadRequest

\* The answers are those the client's requests deserve, one for each, in their order,
\* however the requests are cut into messages or run together; after a 400 (deserved, or
\* because a request was cut) nothing but 400 follows.
RightAnswers ==
  \A i \in DOMAIN answers :
    \/ /\ i <= sent /\ answers[i] = Deserved(script[i])
       /\ \A j \in 1 .. i - 1 : answers[j] # BadRequest
    \/ answers[i] = BadRequest /\ (cut \/ \E j \in 1 .. i - 1 : answers[j] = BadRequest)

\* As long as no request has been cut behind its first line, a client that sends nothing
\* after an answer that ends the connection never has the server killed by SIGPIPE.
NotKilled == pc = "killed" => cut \/ pipelines

\* The client can tell where an answer ends: it has a Content-Length, unless it says that
\* the connection closes or is a 400, which says nothing; then the stream ends with it, and
\* else it does not.
CloseAnnounced == connState = "kDisconnecting" <=> \E i \in DOMAIN answers : answers[i].close

\* A request of a client that waits for its answers is answered, unless it was cut.
Answered ==
  \A n \in 1 .. MaxRequests : (sent >= n) ~> (Len(answers) >= n \/ cut \/ pipelines)
=============================================================================
