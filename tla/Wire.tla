--------------------------------- MODULE Wire ---------------------------------
(***************************************************************************)
(* The bytes between the program of player 1 and the relay:                *)
(* lobby_create_room with the blocking POST of network/http_client.c, and  *)
(* then the WebSocket of network/net_client.c, whose frames come out of a  *)
(* TCP stream in pieces of any length.  Module ClientSession starts from   *)
(* what is shown here: a request that succeeded has made a room, and a     *)
(* connection is a queue of whole messages.                                *)
(*                                                                         *)
(* A byte is <<n, i>>: byte i of the n-th thing sent that way.  What a     *)
(* frame says matters only as far as it is answered (the game's "ping") or *)
(* ends the connection ("close"); the relay sends no WebSocket pings.  A   *)
(* turn of the loop in net_client_receive is a step; nothing else the      *)
(* program does can come between two turns.                                *)
(***************************************************************************)
EXTENDS Integers, Sequences, SequencesExt

CONSTANTS
  Size,        \* kind -> length of what is sent, with its header
  WS_RECV_BUF, \* room for bytes received and not yet parsed
  SendBuf,     \* room in the kernel for bytes the relay has not read
  MaxFrames,   \* bound: frames the relay sends
  MaxSaid,     \* bound: what the program sends of itself after JOIN
  MaxPosts,    \* bound: attempts to make a room
  Urls,        \* what users type: "ws", "other" (wss:// or no scheme) or "bad"
  MayFail      \* TRUE: calls fail and connections break

Kinds == {"POST", "response", "GET", "101", "JOIN", "data", "ping", "pong", "close"}

ASSUME WireAssumption ==
  /\ Size \in [Kinds -> Nat \ {0, 1}] /\ Size["response"] > 2
  /\ \A k \in {"101", "data", "ping", "close"} : Size[k] <= WS_RECV_BUF
  /\ WS_RECV_BUF \in Nat /\ SendBuf \in Nat /\ SendBuf >= Size["GET"]
  /\ MaxFrames \in Nat /\ MaxSaid \in Nat /\ MaxPosts \in Nat /\ MayFail \in BOOLEAN

VARIABLES
  url,      \* g_lobby.server_url
  stage,    \* "role", "sending" or "reading" (in http_post), "online" or "left"
  post,     \* http_post: attempts, descriptors open, bytes out and in, link
  room,     \* what the relay did with the last POST: "none", "made" or "refused"
  conn,     \* the WebSocket's TCP connection: "none", "open" or "dead"
  hs,       \* g_ws.hs: "idle", "tcp", "http", "open" or "closed"
  net,      \* g_ws.state: "idle", "connecting", "up" (WAITING to ENDED) or "error"
  rbuf,     \* g_ws.rbuf, up to rbuf_head
  looping,  \* TRUE: within the loop of net_client_receive
  flying,   \* bytes on their way to the program
  sent,     \* what the relay has sent
  got,      \* numbers of the frames dispatched
  said,     \* what the program has sent
  up,       \* bytes the program's kernel has accepted
  unread,   \* how many of them the relay has not read
  cut       \* TRUE: a send was broken off

posting == <<post, room>>
upward == <<said, up, unread, cut>>
socket == <<conn, hs, net, rbuf, looping, flying, sent, got, upward>>
vars == <<url, stage, posting, socket>>

Bytes(n, kind) == [i \in 1..Size[kind] |-> <<n, i>>]
Least(a, b) == IF a < b THEN a ELSE b

Init ==
  /\ url \in Urls /\ stage = "role" /\ room = "none"
  /\ post = [tries |-> 0, fds |-> 0, out |-> 0, in |-> 0, link |-> "none"]
  /\ conn = "none" /\ hs = "idle" /\ net = "idle" /\ rbuf = <<>> /\ looping = FALSE
  /\ flying = <<>> /\ sent = <<>> /\ got = <<>>
  /\ said = <<>> /\ up = <<>> /\ unread = 0 /\ cut = FALSE
-------------------------------------------------------------------------------
(* http_post *)

\* http_parse_ws_url
HasHost == url # "bad"

\* parse_ws_url of net_client.c, which wants the scheme.
IsWsUrl == url = "ws"

\* getaddrinfo, socket and connect: one that fails leaves nothing open.
PostStarts ==
  /\ stage = "role" /\ HasHost /\ post.tries < MaxPosts /\ room' = "none"
  /\ \/ /\ stage' = "sending"
        /\ post' = [tries |-> post.tries + 1, fds |-> post.fds + 1, out |-> 0, in |-> 0, link |-> "open"]
     \/ MayFail /\ post' = [post EXCEPT !.tries = @ + 1] /\ UNCHANGED stage
  /\ UNCHANGED <<url, socket>>

\* One send of the loop, of some bytes.
PostSends ==
  /\ stage = "sending"
  /\ \E n \in 1..(Size["POST"] - post.out) : post' = [post EXCEPT !.out = @ + n]
  /\ stage' = IF post'.out = Size["POST"] THEN "reading" ELSE stage
  /\ UNCHANGED <<url, room, socket>>

\* The descriptor of a request that was not sent stays open.
PostGivesUp_Open ==
  /\ stage = "sending" /\ post.link = "broken" /\ stage' = "role"
  /\ UNCHANGED <<url, post, room, socket>>

\* send fails
PostGivesUp ==
  /\ stage = "sending" /\ post.link = "broken" /\ stage' = "role"
  /\ post' = [post EXCEPT !.fds = @ - 1]
  /\ UNCHANGED <<url, room, socket>>

\* One recv of the loop.
PostReads ==
  /\ stage = "reading" /\ room # "none"
  /\ \E n \in 1..(Size["response"] - post.in) : post' = [post EXCEPT !.in = @ + n]
  /\ UNCHANGED <<url, stage, room, socket>>

\* atoi on what has come; the code is at the end of what counts of the response.
Status ==
  LET code == IF room = "made" THEN 201 ELSE 400
      missing == Size["response"] - post.in
  IN CASE missing = 0 -> code [] missing = 1 -> code \div 10 [] missing = 2 -> code \div 100
       [] OTHER -> -1

\* recv returns 0 after the response, or fails.
Complete == post.in = Size["response"] \/ post.link = "broken"

-------------------------------------------------------------------------------
(* Sending on the WebSocket's connection *)

\* The second send starts the frame again.
Piece_Again(bytes, a, b) == SubSeq(bytes, 1, a) \o SubSeq(bytes, 1, b)

\* What two rounds of the loop in ws_send put through.
Piece(bytes, a, b) == SubSeq(bytes, 1, a) \o SubSeq(bytes, a + 1, a + b)

\* The kernel takes what there is room for; what it then refuses is skipped,
\* unless the relay reads in between.
Sends(kind) ==
  LET bytes == Bytes(Len(said) + 1, kind)
      a == Least(Size[kind], SendBuf - unread)
  IN \E b \in 0..(Size[kind] - a) :
       /\ up' = up \o Piece(bytes, a, b) /\ unread' = Least(SendBuf, unread + a + b)
       /\ cut' = (cut \/ a + b < Size[kind])
       /\ said' = Append(said, kind)

\* ws_send; n is the state its caller leaves.
WsSend(kind, n) ==
  \/ Sends(kind) /\ net' = n
  \/ conn = "dead" /\ net' = "error" /\ UNCHANGED upward

\* A send without a loop, for short frames: what does not fit is gone.
SendsOnce(kind) ==
  LET bytes == Bytes(Len(said) + 1, kind)
      a == Least(Size[kind], SendBuf - unread)
  IN /\ up' = up \o SubSeq(bytes, 1, a) /\ unread' = unread + a
     /\ cut' = (cut \/ a < Size[kind])
     /\ said' = Append(said, kind)

\* send_http_upgrade
Upgrades == SendsOnce("GET") /\ hs' = "http"

\* send_client_join, in net_client_receive: NET_WAITING hides its failure.
Joins == (Sends("JOIN") \/ (conn = "dead" /\ UNCHANGED upward)) /\ hs' = "open" /\ net' = "up"

\* net_client_configure, net_client_connect: at once, later, or not at all.
Connects ==
  \/ /\ IsWsUrl /\ conn' = "open" /\ net' = "connecting"
     /\ (hs' = "tcp" /\ UNCHANGED upward) \/ Upgrades
  \/ (MayFail \/ ~IsWsUrl) /\ net' = "error" /\ UNCHANGED <<conn, hs, upward>>

\* The end of http_post, and of lobby_create_room.
PostEnds ==
  /\ stage = "reading" /\ Complete
  /\ post' = [post EXCEPT !.fds = @ - 1]
  /\ IF Status \in {200, 201}
     THEN stage' = "online" /\ Connects
     ELSE stage' = "role" /\ UNCHANGED <<conn, hs, net, upward>>
  /\ UNCHANGED <<url, room, rbuf, looping, flying, sent, got>>

\* net_client_send_input, net_client_send_loadout
Says ==
  /\ stage = "online" /\ ~looping /\ hs = "open" /\ Len(said) < MaxSaid + 2
  /\ WsSend("data", net)
  /\ UNCHANGED <<url, stage, posting, conn, hs, rbuf, looping, flying, sent, got>>

-------------------------------------------------------------------------------
(* net_client_receive *)

Receiving == stage = "online" /\ conn # "none" /\ ~looping

\* Step 1
TcpDone ==
  /\ Receiving /\ hs = "tcp"
  /\ \/ conn = "open" /\ Upgrades /\ UNCHANGED net
     \/ conn = "dead" /\ net' = "error" /\ hs' \in {hs, "http"} /\ UNCHANGED upward
  /\ UNCHANGED <<url, stage, posting, conn, rbuf, looping, flying, sent, got>>

\* recv fails or returns 0.
RecvFails ==
  /\ Receiving /\ hs \in {"http", "open"} /\ conn = "dead" /\ net' = "error"
  /\ UNCHANGED <<url, stage, posting, conn, hs, rbuf, looping, flying, sent, got, upward>>

\* ws_parse_frame finds one.
WholeFrame(buf) ==
  buf # <<>> /\ Head(buf)[2] = 1 /\ Len(buf) >= Size[sent[Head(buf)[1]]]

\* n bytes are added to the buffer; the response, once whole, is taken off and
\* answered with JOIN.
Received(n) ==
  LET buf == rbuf \o SubSeq(flying, 1, n)
      upgraded == hs = "http" /\ Len(buf) >= Size["101"]
  IN /\ flying' = SubSeq(flying, n + 1, Len(flying))
     /\ rbuf' = IF upgraded THEN SubSeq(buf, Size["101"] + 1, Len(buf)) ELSE buf
     /\ looping' = ((upgraded \/ hs = "open") /\ WholeFrame(rbuf'))
     /\ IF upgraded THEN Joins ELSE UNCHANGED <<hs, net, upward>>

\* Steps 2 and 3: any number of bytes; a full buffer is emptied instead.
Recv ==
  /\ Receiving /\ hs \in {"http", "open"} /\ flying # <<>>
  /\ IF Len(rbuf) = WS_RECV_BUF
     THEN rbuf' = <<>> /\ UNCHANGED <<hs, net, looping, flying, upward>>
     ELSE \E n \in 1..Least(Len(flying), WS_RECV_BUF - Len(rbuf)) : Received(n)
  /\ UNCHANGED <<url, stage, posting, conn, sent, got>>

\* What follows a frame in the buffer is thrown away.
Leftover_None(size) == <<>>

Leftover(size) == SubSeq(rbuf, size + 1, Len(rbuf))

\* One frame in a call.
Again_Once == FALSE

Again == net' # "error" /\ WholeFrame(rbuf')

\* Step 4: one turn of the loop.
Parse ==
  LET n == Head(rbuf)[1] IN
  /\ looping
  /\ CASE sent[n] = "data"  -> net' \in {net, "up"} /\ UNCHANGED upward
       [] sent[n] = "ping"  -> WsSend("pong", net)
       [] sent[n] = "close" -> net' = "error" /\ UNCHANGED upward
  /\ got' = Append(got, n)
  /\ rbuf' = Leftover(Size[sent[n]])
  /\ looping' = Again
  /\ UNCHANGED <<url, stage, posting, conn, hs, flying, sent>>

\* net_client_disconnect
Leaves ==
  /\ stage = "online" /\ ~looping /\ stage' = "left"
  /\ IF conn = "none" THEN UNCHANGED <<conn, upward>>
     ELSE conn' = "dead" /\ (SendsOnce("close") \/ (conn = "dead" /\ UNCHANGED upward))
  /\ hs' = "closed" /\ net' = "idle"
  /\ UNCHANGED <<url, posting, rbuf, looping, flying, sent, got>>

Receives == TcpDone \/ RecvFails \/ Recv \/ Parse
Posts == PostSends \/ PostGivesUp \/ PostReads \/ PostEnds
-------------------------------------------------------------------------------
(* The relay and the network. *)

\* index.ts has the whole request, and makes a room or throws.
RelayAnswers ==
  /\ stage = "reading" /\ room = "none" /\ room' \in {"made", "refused"}
  /\ UNCHANGED <<url, stage, post, socket>>

RelayReads ==
  /\ conn = "open" /\ unread > 0 /\ unread' = 0
  /\ UNCHANGED <<url, stage, posting, conn, hs, net, rbuf, looping, flying, sent, got, said, up, cut>>

\* The first n things the program says have been read as they should be.
Heard(n) ==
  LET whole == FlattenSeq([i \in 1..n |-> Bytes(i, said[i])]) IN
  n <= Len(said) /\ Len(whole) <= Len(up) - unread /\ IsPrefix(whole, up)

\* The response to the upgrade; after JOIN, frames; close also to a JOIN that
\* makes no sense.
RelaySends(kind) ==
  /\ conn = "open" /\ kind \in {"101", "data", "ping", "close"}
  /\ IF kind = "101" THEN sent = <<>> /\ Heard(1)
     ELSE /\ sent # <<>> /\ Len(sent) <= MaxFrames /\ Last(sent) # "close"
          /\ Heard(2) \/ (kind = "close" /\ cut)
  /\ sent' = Append(sent, kind)
  /\ flying' = flying \o Bytes(Len(sent) + 1, kind)
  /\ UNCHANGED <<url, stage, posting, conn, hs, net, rbuf, looping, got, upward>>

Breaks ==
  /\ MayFail
  /\ \/ conn = "open" /\ conn' = "dead" /\ UNCHANGED post
     \/ stage \in {"sending", "reading"} /\ post' = [post EXCEPT !.link = "broken"] /\ UNCHANGED conn
  /\ UNCHANGED <<url, stage, room, hs, net, rbuf, looping, flying, sent, got, upward>>

Next ==
  \/ PostStarts \/ Posts \/ Says \/ Receives \/ Leaves
  \/ RelayAnswers \/ RelayReads \/ (\E kind \in Kinds : RelaySends(kind)) \/ Breaks

(***************************************************************************)
(* Every frame of the main loop calls net_client_receive.  Nothing makes   *)
(* http_post return: recv waits as long as the relay is silent.            *)
(***************************************************************************)
Spec == Init /\ [][Next]_vars /\ WF_vars(Receives)
-------------------------------------------------------------------------------
(***************************************************************************)
(* The frames dispatched are those the relay sent, each once and in its    *)
(* order, however TCP cuts the stream: net_client_receive keeps what is    *)
(* left of a buffer and parses it with what comes later, and never empties *)
(* it because it is full.                                                  *)
(***************************************************************************)
InOrder == \A i \in DOMAIN got : got[i] = i + 1 /\ i < Len(sent)

\* What the relay sent is dispatched, unless the connection ends, and without
\* waiting for more to come: the loop takes every whole frame in the buffer.
Delivered ==
  \A n \in 1..MaxFrames :
    Len(sent) > n ~> Len(got) >= n \/ net = "error" \/ conn # "open"

(***************************************************************************)
(* As long as no send is broken off, what the relay can read is whole      *)
(* frames in the order they were sent, JOIN the first, also when the       *)
(* kernel takes a frame in two parts.                                      *)
(***************************************************************************)
UpInStep ==
  /\ ~cut => up = FlattenSeq([i \in 1..Len(said) |-> Bytes(i, said[i])])
  /\ conn = "open" /\ Len(said) > 1 => SubSeq(said, 1, 2) = <<"GET", "JOIN">>

\* lobby_create_room goes online only with a room the relay has made, and
\* leaves none of http_post's descriptors open, whichever call failed.
PostSound ==
  /\ stage = "online" => room = "made"
  /\ stage \in {"role", "online", "left"} => post.fds = 0
===============================================================================
