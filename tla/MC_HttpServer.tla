---------------------------- MODULE MC_HttpServer ----------------------------
EXTENDS HttpServer

\* Lines: request lines, header lines and the empty line.
Get11     == [words |-> <<"GET", "/", "HTTP/1.1">>, colon |-> FALSE]
Get10     == [words |-> <<"GET", "/", "HTTP/1.0">>, colon |-> FALSE]
Get12     == [words |-> <<"GET", "/", "HTTP/1.2">>, colon |-> FALSE]
KeepAlive == [words |-> <<"Connection", "Keep-Alive">>, colon |-> TRUE]
Close     == [words |-> <<"Connection", "close">>, colon |-> TRUE]
End       == [words |-> <<>>, colon |-> FALSE]

\* Two keep-alive requests; an HTTP/1.0 keep-alive request followed by one
\* that asks to close; a request line with an unsupported version.
MCScripts ==
    { <<Get11, End, Get11, End>>,
      <<Get10, KeepAlive, End, Get11, Close, End>>,
      <<Get12, End, Get11, End>> }

MCMethods == {"GET", "POST"}

====
