-------------------------- MODULE HttpServerProofs --------------------------
(***************************************************************************)
(* Proofs about HttpServer, for every set of connections, files, trees and *)
(* requests, and for whatever parseRequest makes of the bytes: nothing is  *)
(* assumed of the context it returns.                                      *)
(*                                                                         *)
(* Framed is inductive once send() is known to append to a sequence        *)
(* (Sequences); the responses are not typed further, since their paths     *)
(* come out of the parser.                                                 *)
(***************************************************************************)
EXTENDS HttpServer, SequenceTheorems, TLAPS

(* The histories are sequences and the connections have states. *)
Sequences ==
    /\ state_ \in [Conn -> {"kConnected", "kDisConnecting", "kDisConnected"}]
    /\ DOMAIN sent = Conn
    /\ sent = [c \in Conn |-> sent[c]]
    /\ \A c \in Conn : \E S : sent[c] \in Seq(S)

-----------------------------------------------------------------------------
(* What Append does to a sequence of anything. *)
LEMMA AppendAny ==
    ASSUME NEW s, \E S : s \in Seq(S), NEW r
    PROVE  /\ \E S : Append(s, r) \in Seq(S)
           /\ Append(s, r) # <<>>
           /\ Len(s) \in Nat /\ DOMAIN s = 1 .. Len(s)
           /\ Len(Append(s, r)) = Len(s) + 1
           /\ DOMAIN Append(s, r) = 1 .. (Len(s) + 1)
           /\ Append(s, r)[Len(s) + 1] = r
           /\ \A i \in 1 .. Len(s) : Append(s, r)[i] = s[i]
<1>1. PICK U : s \in Seq(U)
  OBVIOUS
<1> DEFINE T == U \cup {r}
<1>2. s \in Seq(T) /\ r \in T
  BY <1>1
<1> HIDE DEF T
<1>3. Append(s, r) \in Seq(T)
  BY <1>2, AppendProperties, Zenon
<1>4. \E S : Append(s, r) \in Seq(S)
  BY <1>3
<1>5. Len(s) \in Nat /\ DOMAIN s = 1 .. Len(s)
  BY <1>2
<1>6. /\ Append(s, r) # <<>>
      /\ Len(Append(s, r)) = Len(s) + 1
      /\ DOMAIN Append(s, r) = 1 .. (Len(s) + 1)
      /\ Append(s, r)[Len(s) + 1] = r
      /\ \A i \in 1 .. Len(s) : Append(s, r)[i] = s[i]
  BY <1>2, <1>3
<1> QED
  BY <1>4, <1>5, <1>6, Zenon

(* What one call of send() and shutdown() may do: nothing, or, while the    *)
(* connection is kConnected, append a response and shut the connection down *)
(* exactly when the response has no Content-Length.                         *)
Sends(c, r) ==
    /\ state_[c] = "kConnected"
    /\ sent' = [sent EXCEPT ![c] = Append(@, r)]
    /\ state_' = IF r.length THEN state_ ELSE [state_ EXCEPT ![c] = "kDisConnecting"]

Quiet == UNCHANGED <<state_, sent>>

(* A response that onRequest or onMessage makes: its file was mapped with   *)
(* the size a stat(2) of this very file has returned.                       *)
Sized(r) == r.length \in BOOLEAN /\ (r.file => r.size = r.disk)

LEMMA SendIsSends ==
    ASSUME NEW c \in Conn, NEW r, NEW shut \in BOOLEAN, r.length = ~shut, Send(c, r, shut)
    PROVE  Sends(c, r) \/ Quiet
BY DEF Send, Sends, Quiet

(* open has found the file, so the last stat(2) was of this file and did    *)
(* not fail.                                                                *)
LEMMA MadeSized ==
    ASSUME NEW p, NEW close \in BOOLEAN, NEW denied \in BOOLEAN
    PROVE  Sized(MakeResponse(p, close, denied)) /\ MakeResponse(p, close, denied).length = ~close
<1> DEFINE q == CodePath(StatusCode(p), p)
           file == Opens(q, denied) /\ ~resources[q].ones
<1>1. file => FileStat(p) = resources[q].size
  BY DEF FileStat, Stat, Opens
<1> HIDE DEF file, q
<1>2. MakeResponse(p, close, denied) =
        [for |-> p, code |-> IF file THEN 200 ELSE StatusCode(p), message |-> StatusCode(p),
         length |-> ~close, file |-> file,
         size |-> IF file THEN FileStat(p) ELSE 0,
         disk |-> IF file THEN resources[q].size ELSE 0]
  BY DEF MakeResponse, file, q
<1> QED
  BY <1>1, <1>2 DEF Sized

(* A step sends at most one response, on one connection; otherwise a        *)
(* connection's state changes only to kDisConnected.                        *)
StepShape ==
    \/ Quiet
    \/ \E c \in Conn : \/ \E r : Sends(c, r) /\ Sized(r)
                       \/ /\ state_' = [state_ EXCEPT ![c] = "kDisConnected"]
                          /\ sent' = sent

LEMMA NextHasShape == [Next]_vars => StepShape
<1> SUFFICES ASSUME [Next]_vars PROVE StepShape
  OBVIOUS
<1>1. ASSUME NEW c \in Conn, NEW n \in 1 .. Len(wire[c]), onMessage(c, n)
      PROVE  StepShape
  <2> DEFINE r == parseRequest(inputBuffer_[c] \o SubSeq(wire[c], 1, n))
  <2> HIDE DEF r
  <2>1. CASE ~r.ok
    <3>1. Send(c, BadRequest, TRUE)
      BY <1>1, <2>1 DEF onMessage, r
    <3>2. BadRequest.length = ~TRUE /\ Sized(BadRequest)
      BY DEF BadRequest, Sized
    <3>3. Sends(c, BadRequest) \/ Quiet
      BY <3>1, <3>2, SendIsSends
    <3> QED BY <3>2, <3>3, Zenon DEF StepShape
  <2>2. CASE r.ok /\ r.cx.state_ = "FINISH"
    <3>1. onRequest(c, r.cx)
      BY <1>1, <2>2 DEF onMessage, r
    <3> DEFINE close == Closes(r.cx.version, r.cx.connection)
    <3>2. close \in BOOLEAN
      BY DEF Closes
    <3> HIDE DEF close
    <3>3. PICK denied \in BOOLEAN :
            \/ UNCHANGED <<sent, state_>>
            \/ Send(c, MakeResponse(r.cx.path, close, denied), close)
      BY <3>1, Zenon DEF onRequest, close
    <3> DEFINE m == MakeResponse(r.cx.path, close, denied)
    <3>4. Sized(m) /\ m.length = ~close
      BY <3>2, MadeSized
    <3> HIDE DEF m
    <3>5. Quiet \/ Send(c, m, close)
      BY <3>3 DEF m, Quiet
    <3>6. Sends(c, m) \/ Quiet
      BY <3>2, <3>4, <3>5, SendIsSends
    <3> QED BY <3>4, <3>6, Zenon DEF StepShape
  <2>3. CASE r.ok /\ r.cx.state_ # "FINISH"
    BY <1>1, <2>3 DEF onMessage, r, StepShape, Quiet
  <2> QED BY <2>1, <2>2, <2>3
<1>2. ASSUME NEW c \in Conn, NEW q \in Requests, ClientAsks(c, q)
      PROVE  StepShape
  BY <1>2 DEF ClientAsks, StepShape, Quiet
<1>3. ASSUME NEW c \in Conn, ClientCloses(c)
      PROVE  StepShape
  BY <1>3 DEF ClientCloses, StepShape
<1>4. ASSUME FilesChange PROVE StepShape
  BY <1>4 DEF FilesChange, StepShape, Quiet
<1>5. ASSUME UNCHANGED vars PROVE StepShape
  BY <1>5 DEF vars, StepShape, Quiet
<1> QED BY <1>1, <1>2, <1>3, <1>4, <1>5, Zenon DEF Next

-----------------------------------------------------------------------------
HttpInv == Sequences /\ Framed /\ NoStaleSize

LEMMA HttpInvInit == Init => HttpInv
<1> SUFFICES ASSUME Init PROVE HttpInv
  OBVIOUS
<1>1. \A c \in Conn : sent[c] = <<>> /\ DOMAIN sent[c] = {} /\ state_[c] = "kConnected"
  BY DEF Init
<1>2. Sequences
  <2>1. <<>> \in Seq({})
    OBVIOUS
  <2>2. \A c \in Conn : \E S : sent[c] \in Seq(S)
    BY <1>1, <2>1, Zenon
  <2> QED BY <2>2 DEF Init, Sequences
<1>3. Framed
  BY <1>1 DEF Framed
<1>4. NoStaleSize
  BY <1>1 DEF NoStaleSize
<1> QED BY <1>2, <1>3, <1>4 DEF HttpInv

LEMMA HttpInvStep == HttpInv /\ [Next]_vars => HttpInv'
<1> SUFFICES ASSUME HttpInv, StepShape PROVE HttpInv'
  BY NextHasShape
<1> USE DEF HttpInv
<1>1. CASE Quiet
  BY <1>1 DEF Quiet, Sequences, Framed, NoStaleSize
<1>2. ASSUME NEW c \in Conn, state_' = [state_ EXCEPT ![c] = "kDisConnected"], sent' = sent
      PROVE  HttpInv'
  <2>1. Sequences'
    BY <1>2 DEF Sequences
  <2>2. Framed'
    BY <1>2 DEF Sequences, Framed
  <2>3. NoStaleSize'
    BY <1>2 DEF NoStaleSize
  <2> QED BY <2>1, <2>2, <2>3
<1>3. ASSUME NEW c \in Conn, NEW r, Sends(c, r), Sized(r)
      PROVE  HttpInv'
  <2> DEFINE s == sent[c]
             new == Append(s, r)
             n == Len(s)
  <2>1. \E S : s \in Seq(S)
    BY DEF Sequences
  <2>2. /\ \E S : new \in Seq(S)
        /\ new # <<>>
        /\ n \in Nat /\ DOMAIN s = 1 .. n
        /\ Len(new) = n + 1
        /\ DOMAIN new = 1 .. (n + 1)
        /\ new[n + 1] = r
        /\ \A i \in 1 .. n : new[i] = s[i]
    BY <2>1, AppendAny
  <2>3. sent' = [sent EXCEPT ![c] = new] /\ state_[c] = "kConnected"
    BY <1>3 DEF Sends
  <2> HIDE DEF new, n
  <2>4. /\ DOMAIN sent' = Conn /\ sent' = [d \in Conn |-> sent'[d]]
        /\ sent'[c] = new /\ \A d \in Conn : d # c => sent'[d] = sent[d]
    BY <2>3 DEF Sequences
  <2>5. /\ state_' \in [Conn -> {"kConnected", "kDisConnecting", "kDisConnected"}]
        /\ state_'[c] = IF r.length THEN "kConnected" ELSE "kDisConnecting"
        /\ \A d \in Conn : d # c => state_'[d] = state_[d]
    BY <1>3 DEF Sends, Sequences
  <2>6. Sequences'
    <3>1. \A d \in Conn : \E S : sent'[d] \in Seq(S)
      BY <2>2, <2>4, Zenon DEF Sequences
    <3> QED BY <2>4, <2>5, <3>1 DEF Sequences
  <2>7. Framed'
    <3>1. \A i \in 1 .. n : s[i].length
      BY <2>2, <2>3 DEF Framed
    <3>2. \A i \in DOMAIN new : ~new[i].length => i = Len(new) /\ ~r.length
      BY <2>2, <3>1
    <3>3. ASSUME NEW d \in Conn
          PROVE  /\ \A i \in DOMAIN sent'[d] :
                      ~sent'[d][i].length => i = Len(sent'[d]) /\ state_'[d] # "kConnected"
                 /\ state_'[d] = "kDisConnecting" =>
                      sent'[d] # <<>> /\ ~sent'[d][Len(sent'[d])].length
      <4>1. CASE d = c
        BY <2>2, <2>4, <2>5, <3>2, <4>1
      <4>2. CASE d # c
        BY <2>4, <2>5, <4>2 DEF Framed
      <4> QED BY <4>1, <4>2
    <3> QED BY <3>3 DEF Framed
  <2>8. NoStaleSize'
    <3>1. \A i \in DOMAIN new : new[i].file => new[i].size = new[i].disk
      BY <1>3, <2>2 DEF Sized, NoStaleSize
    <3> QED BY <2>4, <3>1 DEF NoStaleSize
  <2> QED BY <2>6, <2>7, <2>8
<1> QED BY <1>1, <1>2, <1>3, Zenon DEF StepShape

LEMMA HttpInvAlways == Spec => []HttpInv
BY HttpInvInit, HttpInvStep, PTL DEF Spec

(* However the bytes are cut, parsed and answered, a response without       *)
(* Content-Length is the last of its connection, which is then shut down,   *)
(* and nothing else shuts it down (onMessage, onRequest, send, shutdown).   *)
THEOREM HttpFramed == Spec => []Framed
<1>1. HttpInv => Framed
  BY DEF HttpInv
<1> QED BY <1>1, HttpInvAlways, PTL

(* No response carries the size an earlier request's stat(2) left behind    *)
(* (makeResponse, errorHTML_, addResponseContent_).                         *)
THEOREM HttpNoStaleSize == Spec => []NoStaleSize
<1>1. HttpInv => NoStaleSize
  BY DEF HttpInv
<1> QED BY <1>1, HttpInvAlways, PTL
=============================================================================
