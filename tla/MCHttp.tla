------------------------------- MODULE MCHttp -------------------------------
(* Values of Http's constants for TLC.                                     *)
EXTENDS Http

Get(path, query, version, headers) ==
  [method |-> "GET", path |-> path, query |-> query, version |-> version, headers |-> headers,
   body |-> <<>>]

\* Requests with and without a query, headers and a body, that keep the connection and
\* that do not, and one the server does not know.
MCRequest == {
  Get(<<"/">>, <<"?", "q">>, "HTTP/1.1", <<>>),
  Get(<<"/a">>, <<>>, "HTTP/1.1", << <<"Connection", "close">> >>),
  Get(<<"/">>, <<>>, "HTTP/1.0", << <<"Connection", "Keep-Alive">> >>),
  [method |-> "POST", path |-> <<"/">>, query |-> <<>>, version |-> "HTTP/1.1",
   headers |-> << <<"Content-Length", "2">> >>, body |-> <<"GET", " ">>],
  [method |-> "OPTIONS", path |-> <<"/">>, query |-> <<>>, version |-> "HTTP/1.1",
   headers |-> <<>>, body |-> <<>>] }

MCWord == {"GET", "POST", "OPTIONS", "/", "/a", "?", "q", "HTTP/1.0", "HTTP/1.1", "Connection",
           "close", "Keep-Alive", "Content-Length", "1", "2", "3"}
MCNumeral == [w \in {"1", "2", "3"} |-> CASE w = "1" -> 1 [] w = "2" -> 2 [] w = "3" -> 3]
=============================================================================
