----------------------------- MODULE HttpServer -----------------------------
(***************************************************************************)
(* http/: WebServer parses what has been read with a new HttpContext per   *)
(* message, and HttpServerTest answers with a static file.  One            *)
(* HttpServerTest serves all connections, so what it remembers of one      *)
(* request (mmFileStat_) is there when the next one is answered.           *)
(*                                                                         *)
(* A request is a sequence of tokens, cut where the parser can tell the    *)
(* difference: between the two words of the request line, between CR and   *)
(* LF, and inside, behind and around the name of a header.  Its body is    *)
(* any sequence of tokens: no Content-Length is looked at, so that what    *)
(* the body is made of decides what the parser makes of the stream behind  *)
(* it.  A read delivers any part of the stream.                            *)
(***************************************************************************)
EXTENDS Integers, SequencesExt, FiniteSetsExt

CONSTANTS
    Conn,          \* connections
    Path,          \* files under resources/
    Trees,         \* what the directory may hold: a set of [Path -> File]
    Requests,      \* what a client may ask
    MaxRequests    \* bound: requests a client sends on one connection

(* A file as stat and mmap see it; ones: it begins with four 0xff bytes. *)
File == [kind : {"absent", "dir", "private", "public"}, size : Nat, ones : BOOLEAN]

Request == [path : Path \cup {"/", "/index"}, version : {"1.0", "1.1"},
            connection : {"", "close", "Keep-Alive"}, body : Seq(STRING \X STRING)]

ASSUME HttpAssumption ==
    /\ {"/index.html", "/403.html", "/404.html"} \subseteq Path
    /\ \A t \in Trees : t \in [Path -> File]
    /\ Requests \subseteq Request /\ MaxRequests \in Nat

VARIABLES
    state_, inputBuffer_,   \* TcpConnection, per connection
    mmFileStat_,            \* HttpServerTest: the size of the last stat(2)
    crashed,                \* the process has died
    resources,              \* the files, external
    wire,                   \* sent by the client and not yet read
    asked, sent, clean      \* history: the requests a client sent, the responses
                            \* send() accepted, and whether each read so far
                            \* delivered one whole request

vars == <<state_, inputBuffer_, mmFileStat_, crashed, resources, wire, asked, sent, clean>>

-----------------------------------------------------------------------------
(* The bytes of a request.  "start" holds the method, the path and the two  *)
(* spaces; "value" begins with a space; "Co" and "nnection" are the name.   *)
(* In a body, "word" has no space and "words" has one.                      *)
Tok(kind) == <<kind, "">>
CR == Tok("CR")
LF == Tok("LF")
Name == <<Tok("Co"), Tok("nnection")>>

Encode(r) ==
    <<<<"start", r.path>>, <<"version", r.version>>, CR, LF>>
    \o (IF r.connection = "" THEN <<>>
        ELSE Name \o <<Tok("colon"), <<"value", r.connection>>, CR, LF>>)
    \o <<CR, LF>> \o r.body

(* How many bytes a token has: 1, 2, or more than 2. *)
Width(t) == IF t[1] \in {"CR", "LF", "colon"} THEN 1 ELSE IF t[1] = "Co" THEN 2 ELSE 3

readableBytes(b) == MapThenSumSet(LAMBDA i : Width(b[i]), DOMAIN b)

-----------------------------------------------------------------------------
(* HttpContext *)

HttpContext ==
    [state_ |-> "REQUEST_LINE", path |-> "", version |-> "kUnknown", connection |-> ""]

Has(line, kind) == \E i \in DOMAIN line : line[i][1] = kind

(* parsePath_ *)
ParsePath(p) == IF p \in {"/", "/index"} THEN "/index.html" ELSE p

(* parseRequestLine_: two words and HTTP/, with no other space in the line. *)
(* What stands before the first word becomes part of the method, and what   *)
(* follows the version becomes part of it: both only without a space.       *)
IsRequestLine(line) ==
    /\ ~Has(line, "value") /\ ~Has(line, "words")
    /\ \E i \in DOMAIN line : /\ line[i][1] = "start"
                              /\ \A j \in DOMAIN line : line[j][1] = "start" => j = i
                              /\ i < Len(line) /\ line[i + 1][1] = "version"

ParseRequestLine(cx, line) ==
    LET i == CHOOSE i \in DOMAIN line : line[i][1] = "start"
    IN  [cx EXCEPT !.state_ = "HEADERS",
                   !.path = ParsePath(line[i][2]),
                   !.version = IF i + 1 = Len(line) THEN line[i + 1][2] ELSE @]

(* parseRequestHeader_: name, colon, and no line terminator behind it. *)
ParseRequestHeader(cx, line) ==
    LET k == CHOOSE k \in DOMAIN line : line[k][1] = "colon"
    IN  IF Has(line, "colon") /\ ~Has(SubSeq(line, k, Len(line)), "CR")
        THEN IF SubSeq(line, 1, k - 1) = Name
             THEN [cx EXCEPT !.connection = IF k < Len(line) THEN line[k + 1][2] ELSE ""]
             ELSE cx
        ELSE [cx EXCEPT !.state_ = "BODY"]

(* Takes fewer than two readable bytes for the end, not two. *)
ParseLineStrictMutant(cx, line, b) ==
    CASE cx.state_ = "REQUEST_LINE" -> ParseRequestLine(cx, line)
      [] cx.state_ = "HEADERS" ->
           LET h == ParseRequestHeader(cx, line)
           IN  IF readableBytes(b) < 2 THEN [h EXCEPT !.state_ = "FINISH"] ELSE h
      [] cx.state_ = "BODY" -> [cx EXCEPT !.state_ = "FINISH"]

(* Ends the request at any line whose end has not arrived. *)
ParseLineEagerMutant(cx, line, b) ==
    LET h == IF cx.state_ = "REQUEST_LINE" THEN ParseRequestLine(cx, line)
             ELSE ParseRequestHeader(cx, line)
    IN  IF readableBytes(b) <= 2 \/ cx.state_ = "BODY" \/ line = b
        THEN [h EXCEPT !.state_ = "FINISH"] ELSE h

(* One turn of the switch in parseRequest, on a line of buffer b. *)
ParseLine(cx, line, b) ==
    CASE cx.state_ = "REQUEST_LINE" -> ParseRequestLine(cx, line)
      [] cx.state_ = "HEADERS" ->
           LET h == ParseRequestHeader(cx, line)
           IN  IF readableBytes(b) <= 2 THEN [h EXCEPT !.state_ = "FINISH"] ELSE h
      [] cx.state_ = "BODY" -> [cx EXCEPT !.state_ = "FINISH"]

(* parseRequest: the context and the buffer after the loop, and what it     *)
(* returns.  A line ends at the first CRLF, or at the end of the buffer;    *)
(* the latter is parsed and left in the buffer.  (A recursive function on   *)
(* the context and the buffer.)                                             *)
Eol(b) == {i \in 1..(Len(b) - 1) : b[i] = CR /\ b[i + 1] = LF}

Parsed(cx, b, ok) == [cx |-> cx, buf |-> b, ok |-> ok]

parseLoop[s \in [cx : [{"state_", "path", "version", "connection"} -> STRING],
                 buf : Seq(STRING \X STRING), ok : BOOLEAN]] ==
    LET b    == s.buf
        end  == IF Eol(b) = {} THEN Len(b) + 1 ELSE Min(Eol(b))
        line == SubSeq(b, 1, end - 1)
    IN  IF b = <<>> \/ s.cx.state_ = "FINISH" THEN s
        ELSE IF s.cx.state_ = "REQUEST_LINE" /\ ~IsRequestLine(line)
        THEN Parsed(s.cx, b, FALSE)
        ELSE LET cx == ParseLine(s.cx, line, b)
             IN  IF Eol(b) = {} THEN Parsed(cx, b, TRUE)
                 ELSE parseLoop[Parsed(cx, SubSeq(b, end + 2, Len(b)), TRUE)]

parseRequest(b) == parseLoop[Parsed(HttpContext, b, TRUE)]

-----------------------------------------------------------------------------
(* HttpServerTest *)

(* stat(2) of p leaves the buffer alone when it fails. *)
Stat(p, buffer) == IF resources[p].kind = "absent" THEN buffer ELSE resources[p].size

(* makeResponse with errorHTML_: the status, and the file that is sent. *)
StatusCode(p) ==
    CASE resources[p].kind \in {"absent", "dir"} -> 404
      [] resources[p].kind = "private" -> 403
      [] OTHER -> 200

CodePath(code, p) == CASE code = 404 -> "/404.html" [] code = 403 -> "/403.html" [] OTHER -> p

(* errorHTML_ does not stat the error page. *)
FileStatStaleMutant(p) == Stat(p, mmFileStat_)

(* The stat buffer when the file is mapped: errorHTML_ stats the error page. *)
FileStat(p) == Stat(CodePath(StatusCode(p), p), Stat(p, mmFileStat_))

(* addResponseContent_ for the file q: open fails when the file is not      *)
(* there, or when denied; mmap fails on nothing to map and on a directory,  *)
(* and the test of its result dereferences the error value.                 *)
Opens(q, denied) == resources[q].kind # "absent" /\ ~denied

MapFails(p, denied) ==
    LET q == CodePath(StatusCode(p), p)
    IN  Opens(q, denied) /\ (FileStat(p) = 0 \/ resources[q].kind = "dir")

(* The response to a request for p: its status is 200 whenever a file is    *)
(* sent, an error page too; the reason phrase is the one of the first       *)
(* status.  length: it carries Content-Length (and not Connection: close).  *)
MakeResponse(p, close, denied) ==
    LET code == StatusCode(p)
        q    == CodePath(code, p)
        file == Opens(q, denied) /\ ~resources[q].ones
    IN  [for |-> p, code |-> IF file THEN 200 ELSE code, message |-> code,
         length |-> ~close, file |-> file,
         size |-> IF file THEN FileStat(p) ELSE 0,
         disk |-> IF file THEN resources[q].size ELSE 0]

BadRequest == [for |-> "", code |-> 400, message |-> 400, length |-> FALSE,
               file |-> FALSE, size |-> 0, disk |-> 0]

-----------------------------------------------------------------------------
(* WebServer *)

(* onRequest's isKeepAlive, which means that the connection is closed. *)
Closes(version, connection) ==
    connection = "close" \/ (version = "1.0" /\ connection # "Keep-Alive")

(* send() without its test of state_. *)
SendMutant(c, r, shut) ==
    /\ sent' = [sent EXCEPT ![c] = Append(@, r)]
    /\ state_' = IF shut THEN [state_ EXCEPT ![c] = "kDisConnecting"] ELSE state_

(* conn->send and conn->shutdown on a connection, in this order. *)
Send(c, r, shut) ==
    /\ sent' = IF state_[c] = "kConnected" THEN [sent EXCEPT ![c] = Append(@, r)] ELSE sent
    /\ state_' = IF shut /\ state_[c] = "kConnected"
                 THEN [state_ EXCEPT ![c] = "kDisConnecting"] ELSE state_

(* onRequest with the callback main sets. *)
onRequest(c, cx) ==
    \E denied \in BOOLEAN :
      LET close == Closes(cx.version, cx.connection)
      IN  IF MapFails(cx.path, denied)
          THEN crashed' = TRUE /\ UNCHANGED <<sent, state_, mmFileStat_>>
          ELSE /\ Send(c, MakeResponse(cx.path, close, denied), close)
               /\ mmFileStat_' = FileStat(cx.path)
               /\ UNCHANGED crashed

(* onMessage, after handleRead appended n tokens of the stream. *)
onMessage(c, n) ==
    LET data == SubSeq(wire[c], 1, n)
        r    == parseRequest(inputBuffer_[c] \o data)
    IN  /\ ~crashed /\ state_[c] # "kDisConnected"
        /\ wire' = [wire EXCEPT ![c] = SubSeq(@, n + 1, Len(@))]
        /\ inputBuffer_' = [inputBuffer_ EXCEPT ![c] = r.buf]
        /\ clean' = [clean EXCEPT ![c] =
                        @ /\ n = Len(wire[c])
                          /\ data = Encode(asked[c][Len(asked[c])])]
        /\ IF ~r.ok
           THEN Send(c, BadRequest, TRUE) /\ UNCHANGED <<mmFileStat_, crashed>>
           ELSE IF r.cx.state_ = "FINISH" THEN onRequest(c, r.cx)
           ELSE UNCHANGED <<sent, state_, mmFileStat_, crashed>>
        /\ UNCHANGED <<resources, asked>>

-----------------------------------------------------------------------------
(* The clients and the file system, external. *)

ClientAsks(c, r) ==
    /\ ~crashed /\ state_[c] # "kDisConnected" /\ Len(asked[c]) < MaxRequests
    /\ asked' = [asked EXCEPT ![c] = Append(@, r)]
    /\ wire' = [wire EXCEPT ![c] = @ \o Encode(r)]
    /\ UNCHANGED <<state_, inputBuffer_, mmFileStat_, crashed, resources, sent, clean>>

(* The client closes; handleRead reads nothing and handleClose runs. *)
ClientCloses(c) ==
    /\ ~crashed /\ wire[c] = <<>> /\ state_[c] # "kDisConnected"
    /\ state_' = [state_ EXCEPT ![c] = "kDisConnected"]
    /\ UNCHANGED <<inputBuffer_, mmFileStat_, crashed, resources, wire, asked, sent, clean>>

FilesChange ==
    /\ resources' \in Trees \ {resources}
    /\ UNCHANGED <<state_, inputBuffer_, mmFileStat_, crashed, wire, asked, sent, clean>>

Init ==
    /\ state_ = [c \in Conn |-> "kConnected"]
    /\ inputBuffer_ = [c \in Conn |-> <<>>]
    /\ mmFileStat_ \in 0..1          \* never initialised
    /\ crashed = FALSE
    /\ resources \in Trees
    /\ wire = [c \in Conn |-> <<>>]
    /\ asked = [c \in Conn |-> <<>>]
    /\ sent = [c \in Conn |-> <<>>]
    /\ clean = [c \in Conn |-> TRUE]

Next ==
    \/ \E c \in Conn : \/ \E n \in 1..Len(wire[c]) : onMessage(c, n)
                       \/ \E r \in Requests : ClientAsks(c, r)
                       \/ ClientCloses(c)
    \/ FilesChange

Spec == Init /\ [][Next]_vars

-----------------------------------------------------------------------------
(* The client can tell where each response ends: one without Content-Length *)
(* (a 400, or a close) is the last the connection sends and its sending     *)
(* side is then shut down, and nothing else shuts it down (onMessage's 400  *)
(* and onRequest's close, HttpResponseTest::appendToBuffer).                *)
Framed ==
    \A c \in Conn :
      /\ \A i \in DOMAIN sent[c] :
           ~sent[c][i].length => i = Len(sent[c]) /\ state_[c] # "kConnected"
      /\ state_[c] = "kDisConnecting" =>
           sent[c] # <<>> /\ ~sent[c][Len(sent[c])].length

(* What parseDataBody_ leaves of a body: all of it when it has no line end, *)
(* and what follows its first line when it has one.                         *)
Leftover(r) ==
    IF Eol(r.body) = {} THEN r.body ELSE SubSeq(r.body, Min(Eol(r.body)) + 2, Len(r.body))

Spaced(line) == Has(line, "words") \/ Has(line, "start") \/ Has(line, "value")

(* While every read delivers one whole request, and no body leaves a line   *)
(* end behind, a request sent on the open connection has its own answer:    *)
(* for its path, closing the connection exactly when its own headers and    *)
(* version say so.  The one exception is a request behind a body that left  *)
(* a space in the buffer: it gets the 400 that closes the connection        *)
(* (onMessage, parseRequest, parseRequestLine_, onRequest).                 *)
WholeRequestsAnswered ==
    \A c \in Conn :
      /\ clean[c] /\ ~crashed /\ wire[c] = <<>>
      /\ \A i \in 1..(Len(asked[c]) - 1) : Eol(Leftover(asked[c][i])) = {}
      =>
        /\ Len(sent[c]) <= Len(asked[c])
        /\ Len(sent[c]) < Len(asked[c]) => state_[c] # "kConnected"
        /\ \A i \in DOMAIN sent[c] :
             IF i > 1 /\ Spaced(Leftover(asked[c][i - 1])) THEN sent[c][i] = BadRequest
             ELSE /\ sent[c][i].for = ParsePath(asked[c][i].path)
                  /\ sent[c][i].length = ~Closes(asked[c][i].version, asked[c][i].connection)

(* However the stream is cut, whatever is pipelined and whatever bodies are *)
(* made of, no request line is answered twice and answers keep the order of *)
(* the stream: the answers other than 400 are for a subsequence of the      *)
(* request lines the client sent, those inside bodies included, which this  *)
(* parser takes for requests (what parseRequest leaves in the buffer it     *)
(* parses again).                                                           *)
AnswersInOrder ==
    \A c \in Conn :
      LET answers == SelectSeq(sent[c], LAMBDA r : r.code # 400)
          lines   == SelectSeq(FlattenSeq([i \in DOMAIN asked[c] |-> Encode(asked[c][i])]),
                               LAMBDA t : t[1] = "start")
      IN  \E f \in [DOMAIN answers -> DOMAIN lines] :
            /\ \A i, j \in DOMAIN answers : i < j => f[i] < f[j]
            /\ \A i \in DOMAIN answers : answers[i].for = ParsePath(lines[f[i]][2])

(* The bytes sent for a file are as many as the file has, though the stat   *)
(* buffer is shared by all requests and a failing stat leaves the size of   *)
(* an earlier one in it (makeResponse, errorHTML_, addResponseContent_).    *)
NoStaleSize ==
    \A c \in Conn : \A i \in DOMAIN sent[c] :
      sent[c][i].file => sent[c][i].size = sent[c][i].disk

=============================================================================
