---------------------------- MODULE MCHttpServer ----------------------------
(***************************************************************************)
(* Files that are there, missing, private, empty, a directory; requests of *)
(* both versions with and without a Connection header, with bodies that    *)
(* the parser takes apart in different ways.                               *)
(***************************************************************************)
EXTENDS HttpServer

F(kind, size) == [kind |-> kind, size |-> size, ones |-> FALSE]

MCPath == {"/index.html", "/x", "/403.html", "/404.html"}

Tree(index, x, forbidden, missing) ==
    [p \in MCPath |-> CASE p = "/index.html" -> index [] p = "/x" -> x
                       [] p = "/403.html" -> forbidden [] p = "/404.html" -> missing]

MCTrees ==
    {Tree(F("public", 2), F("absent", 0), F("public", 3), F("public", 3)),
     Tree(F("private", 2), [F("public", 5) EXCEPT !.ones = TRUE], F("public", 3), F("absent", 0)),
     Tree(F("dir", 4), F("public", 0), F("absent", 0), F("absent", 0))}

R(p, v, h, b) == [path |-> p, version |-> v, connection |-> h, body |-> b]

(* A body of one word, one that is cut and has a space, and one whose second *)
(* line is a request.                                                        *)
Word  == <<Tok("word")>>
Words == <<Tok("word"), Tok("words")>>
Inner == <<Tok("word"), CR, LF, <<"start", "/x">>, <<"version", "1.0">>, CR, LF, CR, LF>>

MCRequests ==
    {R("/index", "1.0", "Keep-Alive", Word), R("/x", "1.1", "", Words),
     R("/", "1.1", "", Inner), R("/x", "1.1", "close", <<>>)}
=============================================================================
