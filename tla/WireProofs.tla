------------------------------- MODULE WireProofs -------------------------------
(***************************************************************************)
(* Theorems about the wire, for any sizes of frames and buffers.           *)
(*                                                                         *)
(* PostSound follows from what http_post has open and has read (PostInv).  *)
(* InOrder is not inductive: the bytes that were received and those on     *)
(* their way are, together, the whole frames that were sent and not yet    *)
(* dispatched, from the first byte of the next one to the last byte of the *)
(* last one (Stream), and the buffer is never full when recv is called     *)
(* (Room).                                                                 *)
(*                                                                         *)
(* UpInStep speaks of frames put together by FlattenSeq: WholeGrows says   *)
(* what one more frame adds.  That the first two are the upgrade and JOIN  *)
(* follows from how far the handshake has come (Handshake).                *)
(***************************************************************************)
EXTENDS Wire, SequenceTheorems, NaturalsInduction, WellFoundedInduction, TLAPS

Byte == Nat \X Nat
Down == {"101", "data", "ping", "close"}

\* Byte j of b is in frame b[j][1] of s, all of which is in b; the next frame
\* follows.
InFrame(b, s, j) ==
  /\ b[j][1] \in 1..Len(s) /\ b[j][2] \in 1..Size[s[b[j][1]]]
  /\ \A l \in 1..Size[s[b[j][1]]] :
       j - b[j][2] + l \in 1..Len(b) /\ b[j - b[j][2] + l] = <<b[j][1], l>>
Followed(b, s, j) ==
  b[j][2] = Size[s[b[j][1]]] /\ j < Len(b) => b[j + 1] = <<b[j][1] + 1, 1>>

\* b is frames n, n + 1, ... of s, each whole, up to the last one.
Stream(b, s, n) ==
  /\ \A j \in 1..Len(b) : InFrame(b, s, j) /\ Followed(b, s, j)
  /\ b # <<>> => b[1] = <<n, 1>> /\ b[Len(b)][1] = Len(s)
  /\ b = <<>> => n = Len(s) + 1

\* The number of the next frame to be taken off; the response to the upgrade is 1.
Due == IF hs = "open" THEN Len(got) + 2 ELSE 1

PostInv ==
  /\ post \in [tries : Nat, fds : Int, out : Int, in : 0..Size["response"], link : {"none", "open", "broken"}]
  /\ room \in {"none", "made", "refused"}
  /\ stage \in {"role", "sending", "reading", "online", "left"}
  /\ post.fds = IF stage \in {"sending", "reading"} THEN 1 ELSE 0
  /\ stage \in {"online", "left"} => room = "made"
  /\ stage \in {"sending", "reading"} /\ room = "none" => post.in = 0

Shapes ==
  /\ rbuf \in Seq(Byte) /\ flying \in Seq(Byte) /\ sent \in Seq(Down) /\ got \in Seq(Nat)
  /\ sent # <<>> => sent[1] = "101"
  /\ looping \in BOOLEAN

\* Before the connection, nothing.
Quiet ==
  stage \notin {"online", "left"} =>
    /\ conn = "none" /\ hs = "idle" /\ ~looping
    /\ rbuf = <<>> /\ flying = <<>> /\ sent = <<>> /\ got = <<>>

Room ==
  /\ hs # "open" => got = <<>> \/ stage = "left"
  /\ looping => stage = "online" /\ hs = "open" /\ WholeFrame(rbuf)
  /\ stage = "online" /\ hs \notin {"http", "open"} => rbuf = <<>>
  /\ hs = "http" => Len(rbuf) < Size["101"]
  /\ stage = "online" => Len(rbuf) <= WS_RECV_BUF
  /\ stage = "online" /\ ~looping => Len(rbuf) < WS_RECV_BUF

StreamInv == stage = "online" => Stream(rbuf \o flying, sent, Due)

DownInv == Shapes /\ Quiet /\ Room /\ StreamInv /\ InOrder

-------------------------------------------------------------------------------
(***************************************************************************)
(* Sequences of bytes.                                                     *)
(***************************************************************************)
LEMMA Moves ==
  ASSUME NEW x \in Seq(Byte), NEW y \in Seq(Byte), NEW n \in 1..Len(y)
  PROVE  /\ x \o SubSeq(y, 1, n) \in Seq(Byte) /\ SubSeq(y, n + 1, Len(y)) \in Seq(Byte)
         /\ Len(x \o SubSeq(y, 1, n)) = Len(x) + n
         /\ (x \o SubSeq(y, 1, n)) \o SubSeq(y, n + 1, Len(y)) = x \o y
<1> DEFINE a == SubSeq(y, 1, n)  b == SubSeq(y, n + 1, Len(y))
<1>1. /\ a \in Seq(Byte) /\ Len(a) = n /\ \A i \in 1..n : a[i] = y[i]
      /\ b \in Seq(Byte) /\ Len(b) = Len(y) - n /\ \A i \in 1..Len(b) : b[i] = y[i + n]
  OBVIOUS
<1> HIDE DEF a, b
<1>2. x \o a \in Seq(Byte) /\ Len(x \o a) = Len(x) + n
  BY <1>1, ConcatProperties
<1>3. (x \o a) \o b = x \o (a \o b)
  <2>1. a \in Seq(Byte) /\ b \in Seq(Byte) /\ x \in Seq(Byte)
    BY <1>1
  <2> QED BY <2>1, ConcatAssociative
<1>4. a \o b = y
  <2> DEFINE c == a \o b
  <2>0. a \in Seq(Byte) /\ b \in Seq(Byte)
    BY <1>1
  <2>1. /\ c \in Seq(Byte) /\ Len(c) = Len(a) + Len(b)
        /\ \A i \in 1..Len(a) + Len(b) : c[i] = IF i <= Len(a) THEN a[i] ELSE b[i - Len(a)]
    BY <2>0, ConcatProperties
  <2> HIDE DEF c
  <2>2. Len(c) = Len(y) /\ Len(a) = n /\ Len(y) \in Nat /\ n \in 1..Len(y) /\ Len(b) = Len(y) - n
    BY <1>1, <2>1
  <2>3. ASSUME NEW i \in 1..Len(y) PROVE c[i] = y[i]
    <3>1. CASE i <= n
      BY <1>1, <2>1, <2>2, <3>1
    <3>2. CASE ~(i <= n)
      <4>1. i - n \in 1..Len(b) /\ i - n + n = i /\ i \in 1..Len(a) + Len(b)
        BY <2>2, <3>2
      <4>2. c[i] = b[i - n]
        BY <2>1, <2>2, <3>2, <4>1
      <4> QED BY <1>1, <4>1, <4>2
    <3> QED BY <3>1, <3>2
  <2>4. c = y
    BY <2>1, <2>2, <2>3, SeqEqual
  <2> QED BY <2>4 DEF c
<1> QED BY <1>1, <1>2, <1>3, <1>4 DEF a, b

LEMMA Drops ==
  ASSUME NEW x \in Seq(Byte), NEW y \in Seq(Byte), NEW d \in 0..Len(x)
  PROVE  /\ SubSeq(x, d + 1, Len(x)) \in Seq(Byte) /\ Len(SubSeq(x, d + 1, Len(x))) = Len(x) - d
         /\ SubSeq(x, d + 1, Len(x)) \o y = SubSeq(x \o y, d + 1, Len(x \o y))
<1> DEFINE a == SubSeq(x, d + 1, Len(x))  z == x \o y  b == SubSeq(z, d + 1, Len(z))
<1>1. a \in Seq(Byte) /\ Len(a) = Len(x) - d /\ \A i \in 1..Len(a) : a[i] = x[i + d]
  OBVIOUS
<1>2. /\ z \in Seq(Byte) /\ Len(z) = Len(x) + Len(y)
      /\ \A i \in 1..Len(z) : z[i] = IF i <= Len(x) THEN x[i] ELSE y[i - Len(x)]
  BY ConcatProperties
<1> HIDE DEF a, z
<1>3. b \in Seq(Byte) /\ Len(b) = Len(z) - d /\ \A i \in 1..Len(b) : b[i] = z[i + d]
  BY <1>2
<1>4. /\ a \o y \in Seq(Byte) /\ Len(a \o y) = Len(a) + Len(y)
      /\ \A i \in 1..Len(a) + Len(y) : (a \o y)[i] = IF i <= Len(a) THEN a[i] ELSE y[i - Len(a)]
  BY <1>1, ConcatProperties
<1> HIDE DEF b
<1>5. Len(a \o y) = Len(b)
  BY <1>1, <1>2, <1>3, <1>4
<1>6. \A i \in 1..Len(b) : (a \o y)[i] = b[i]
  <2> SUFFICES ASSUME NEW i \in 1..Len(b) PROVE (a \o y)[i] = b[i]
    OBVIOUS
  <2>1. /\ Len(x) \in Nat /\ Len(y) \in Nat /\ Len(a) = Len(x) - d /\ Len(b) = Len(x) + Len(y) - d
        /\ i \in Nat /\ 1 <= i /\ i <= Len(b)
    BY <1>1, <1>2, <1>3
  <2>2. CASE i <= Len(a)
    <3>1. i \in 1..Len(a) /\ i \in 1..Len(a) + Len(y) /\ i + d \in 1..Len(z) /\ i + d <= Len(x)
      BY <1>2, <2>1, <2>2
    <3> QED BY <1>1, <1>2, <1>3, <1>4, <3>1
  <2>3. CASE ~(i <= Len(a))
    <3>1. /\ i \in 1..Len(a) + Len(y) /\ i + d \in 1..Len(z) /\ ~(i + d <= Len(x))
          /\ i - Len(a) = i + d - Len(x)
      BY <1>2, <2>1, <2>3
    <3>2. (a \o y)[i] = y[i - Len(a)]
      BY <1>4, <2>3, <3>1
    <3>3. b[i] = y[i + d - Len(x)]
      BY <1>2, <1>3, <3>1
    <3> QED BY <3>1, <3>2, <3>3
  <2> QED BY <2>2, <2>3
<1>7. a \o y = b
  BY <1>3, <1>4, <1>5, <1>6, SeqEqual
<1> QED BY <1>1, <1>7 DEF a, b, z
LEMMA SizeFacts == \A k \in Down : Size[k] \in Nat /\ Size[k] > 1 /\ Size[k] <= WS_RECV_BUF
BY WireAssumption DEF Down, Kinds

LEMMA BytesFacts ==
  ASSUME NEW q \in Nat, NEW kind \in Down
  PROVE  /\ Bytes(q, kind) \in Seq(Byte) /\ Len(Bytes(q, kind)) = Size[kind]
         /\ \A i \in 1..Size[kind] : Bytes(q, kind)[i] = <<q, i>>
<1> DEFINE e == Bytes(q, kind)  z == Size[kind]
<1>1. e = [i \in 1..z |-> <<q, i>>] /\ z \in Nat
  BY SizeFacts DEF Bytes
<1> HIDE DEF e, z
<1>2. \A i \in 1..z : <<q, i>> \in Byte
  BY <1>1 DEF Byte
<1>3. e \in Seq(Byte) /\ Len(e) = z /\ \A i \in 1..z : e[i] = <<q, i>>
  BY <1>1, <1>2
<1> QED BY <1>3 DEF e, z

\* The next frame is taken off a stream.
LEMMA StreamDrops ==
  ASSUME NEW b \in Seq(Byte), NEW s \in Seq(Down), NEW n \in Nat, Stream(b, s, n), b # <<>>
  PROVE  /\ n \in 1..Len(s) /\ b[1] = <<n, 1>> /\ Size[s[n]] \in 1..Len(b)
         /\ Stream(SubSeq(b, Size[s[n]] + 1, Len(b)), s, n + 1)
<1> DEFINE d == Size[s[n]]  c == SubSeq(b, d + 1, Len(b))
<1>1. Len(b) \in Nat \ {0} /\ b[1] = <<n, 1>> /\ 1 \in 1..Len(b)
  BY DEF Stream
<1>2. /\ n \in 1..Len(s) /\ \A l \in 1..d : 1 - 1 + l \in 1..Len(b) /\ b[1 - 1 + l] = <<n, l>>
  <2>1. InFrame(b, s, 1)
    BY <1>1 DEF Stream
  <2>2. b[1][1] = n /\ b[1][2] = 1
    BY <1>1
  <2> QED BY <2>1, <2>2 DEF InFrame
<1>3. s[n] \in Down /\ d \in Nat /\ d > 1
  BY <1>2, SizeFacts
<1> HIDE DEF d
<1>4. \A l \in 1..d : l \in 1..Len(b) /\ b[l] = <<n, l>>
  BY <1>2, <1>3
<1>5. d \in 1..Len(b) /\ b[d] = <<n, d>>
  BY <1>3, <1>4
<1>6. c \in Seq(Byte) /\ Len(c) = Len(b) - d /\ \A j \in 1..Len(c) : j + d \in 1..Len(b) /\ c[j] = b[j + d]
  BY <1>1, <1>5
<1> HIDE DEF c
<1>7. ASSUME NEW j \in 1..Len(c) PROVE InFrame(c, s, j) /\ Followed(c, s, j)
  <2> DEFINE k == j + d  m == b[k][1]  i == b[k][2]
  <2>1. j \in Nat /\ k \in 1..Len(b) /\ k = j + d /\ k > d /\ c[j] = b[k] /\ b[k] \in Byte
    BY <1>1, <1>3, <1>6
  <2>2. InFrame(b, s, k) /\ Followed(b, s, k)
    BY <2>1 DEF Stream
  <2>3. /\ m \in 1..Len(s) /\ i \in 1..Size[s[m]]
        /\ \A l \in 1..Size[s[m]] : k - i + l \in 1..Len(b) /\ b[k - i + l] = <<m, l>>
    BY <2>2 DEF InFrame
  <2>4. s[m] \in Down /\ Size[s[m]] \in Nat /\ Size[s[m]] > 1 /\ i \in Nat /\ i >= 1 /\ i <= Size[s[m]]
    BY <2>3, SizeFacts
  <2>5. c[j][1] = m /\ c[j][2] = i
    BY <2>1
  <2> HIDE DEF k, m, i
  <2>6. k - i >= d
    <3> SUFFICES ASSUME k - i < d PROVE FALSE
      BY <1>3, <2>1, <2>4
    <3>1. 1 \in 1..Size[s[m]] /\ k - i + 1 \in 1..Len(b) /\ b[k - i + 1] = <<m, 1>>
      BY <2>3, <2>4
    <3>2. k - i + 1 \in 1..d
      BY <1>3, <2>1, <2>4, <3>1
    <3>3. b[k - i + 1] = <<n, k - i + 1>>
      BY <1>4, <3>2
    <3>4. m = n /\ k - i + 1 = 1
      BY <3>1, <3>3
    <3>5. i = k /\ Size[s[m]] = d
      BY <2>1, <2>4, <3>4 DEF d
    <3> QED BY <1>3, <2>1, <2>4, <3>5
  <2>7. ASSUME NEW l \in 1..Size[s[m]]
        PROVE  j - i + l \in 1..Len(c) /\ c[j - i + l] = <<m, l>>
    <3>1. k - i + l \in 1..Len(b) /\ b[k - i + l] = <<m, l>> /\ l \in Nat /\ l >= 1
      BY <2>3, <2>4
    <3>2. j - i + l \in 1..Len(c) /\ (j - i + l) + d = k - i + l
      BY <1>1, <1>3, <1>6, <2>1, <2>4, <2>6, <3>1
    <3> QED BY <1>6, <3>1, <3>2
  <2>8. InFrame(c, s, j)
    BY <2>3, <2>5, <2>7 DEF InFrame
  <2>9. Followed(c, s, j)
    <3> SUFFICES ASSUME i = Size[s[m]], j < Len(c) PROVE c[j + 1] = <<m + 1, 1>>
      BY <2>5 DEF Followed
    <3>1. k < Len(b) /\ j + 1 \in 1..Len(c) /\ (j + 1) + d = k + 1
      BY <1>1, <1>3, <1>6, <2>1
    <3>2. b[k + 1] = <<m + 1, 1>>
      BY <2>2, <3>1 DEF Followed, m, i
    <3> QED BY <1>6, <3>1, <3>2
  <2> QED BY <2>8, <2>9
<1>8. CASE c = <<>>
  <2>1. Len(b) = d
    BY <1>1, <1>3, <1>6, <1>8
  <2>2. n = Len(s)
    BY <1>5, <2>1 DEF Stream
  <2>3. n + 1 = Len(s) + 1
    BY <2>2
  <2> QED BY <1>1, <1>2, <1>5, <1>7, <1>8, <2>3 DEF Stream, c, d
<1>9. CASE c # <<>>
  <2>1. Len(c) \in Nat \ {0} /\ d < Len(b) /\ 1 \in 1..Len(c) /\ Len(c) \in 1..Len(c) /\ Len(c) + d = Len(b)
    BY <1>1, <1>3, <1>6, <1>9
  <2>2. b[d + 1] = <<n + 1, 1>>
    <3>1. Followed(b, s, d)
      BY <1>5 DEF Stream
    <3>2. b[d][1] = n /\ b[d][2] = d
      BY <1>5
    <3> QED BY <2>1, <3>1, <3>2 DEF Followed, d
  <2>3. c[1] = <<n + 1, 1>>
    <3>1. c[1] = b[1 + d] /\ 1 + d = d + 1
      BY <1>3, <1>6, <2>1
    <3> QED BY <2>2, <3>1
  <2>4. c[Len(c)][1] = Len(s)
    BY <1>6, <2>1 DEF Stream
  <2> HIDE DEF c
  <2>5. Stream(c, s, n + 1)
    BY <1>7, <1>9, <2>3, <2>4 DEF Stream
  <2> QED BY <1>1, <1>2, <1>5, <2>5 DEF c, d
<1> QED BY <1>8, <1>9

\* A frame is sent.
LEMMA StreamAdds ==
  ASSUME NEW b \in Seq(Byte), NEW s \in Seq(Down), NEW n \in Nat, Stream(b, s, n), NEW kind \in Down
  PROVE  Stream(b \o Bytes(Len(s) + 1, kind), Append(s, kind), n) /\ Bytes(Len(s) + 1, kind) \in Seq(Byte)
<1> DEFINE q == Len(s) + 1  e == Bytes(q, kind)  z == Size[kind]  c == b \o e  t == Append(s, kind)
<1>1. z \in Nat /\ z > 1 /\ q \in Nat /\ Len(b) \in Nat
  BY SizeFacts
<1>2. e \in Seq(Byte) /\ Len(e) = z /\ \A i \in 1..z : e[i] = <<q, i>>
  BY <1>1, BytesFacts
<1>3. t \in Seq(Down) /\ Len(t) = q /\ t[q] = kind /\ \A i \in 1..Len(s) : i \in 1..Len(t) /\ t[i] = s[i]
  OBVIOUS
<1> HIDE DEF e, t
<1>4. /\ c \in Seq(Byte) /\ Len(c) = Len(b) + z
      /\ \A i \in 1..Len(b) + z : c[i] = IF i <= Len(b) THEN b[i] ELSE e[i - Len(b)]
  <2>1. e \in Seq(Byte) /\ Len(e) = z
    BY <1>2
  <2> HIDE DEF z
  <2> QED BY <2>1, ConcatProperties
<1> HIDE DEF c, z, q
<1>5. \A i \in 1..Len(b) : i \in 1..Len(c) /\ c[i] = b[i]
  BY <1>1, <1>4
<1>6. \A i \in 1..z : Len(b) + i \in 1..Len(c) /\ c[Len(b) + i] = <<q, i>>
  <2> SUFFICES ASSUME NEW i \in 1..z PROVE Len(b) + i \in 1..Len(c) /\ c[Len(b) + i] = <<q, i>>
    OBVIOUS
  <2>0. Len(c) = Len(b) + z /\ i \in Nat /\ 1 <= i /\ i <= z
    <3>1. Len(c) = Len(b) + z
      BY <1>4
    <3>2. i \in Nat /\ 1 <= i /\ i <= z
      BY <1>1
    <3> QED BY <3>1, <3>2
  <2>1. Len(b) + i \in 1..Len(c) /\ ~(Len(b) + i <= Len(b)) /\ Len(b) + i - Len(b) = i
    BY <1>1, <2>0
  <2> QED BY <1>2, <1>4, <2>0, <2>1
<1>7. \A j \in 1..Len(c) : j \in 1..Len(b) \/ \E i \in 1..z : j = Len(b) + i
  <2> SUFFICES ASSUME NEW j \in 1..Len(c) PROVE j \in 1..Len(b) \/ \E i \in 1..z : j = Len(b) + i
    OBVIOUS
  <2>1. Len(c) = Len(b) + z
    BY <1>4
  <2>2. j \in 1..Len(b) \/ (j - Len(b) \in 1..z /\ j = Len(b) + (j - Len(b)))
    BY <1>1, <2>1
  <2> QED BY <2>2
<1>8. ASSUME NEW j \in 1..Len(b) PROVE InFrame(c, t, j) /\ Followed(c, t, j)
  <2> DEFINE m == b[j][1]  i == b[j][2]
  <2>1. InFrame(b, s, j) /\ Followed(b, s, j)
    BY DEF Stream
  <2>2. /\ m \in 1..Len(s) /\ i \in 1..Size[s[m]]
        /\ \A l \in 1..Size[s[m]] : j - i + l \in 1..Len(b) /\ b[j - i + l] = <<m, l>>
    BY <2>1 DEF InFrame
  <2>3. c[j][1] = m /\ c[j][2] = i /\ t[m] = s[m] /\ m \in 1..Len(t)
    BY <1>3, <1>5, <2>2
  <2>4. i = Size[s[m]] /\ j < Len(b) => b[j + 1] = <<m + 1, 1>>
    BY <2>1 DEF Followed
  <2>5. j = Len(b) => m = Len(s)
    BY DEF Stream
  <2> HIDE DEF m, i
  <2>6. InFrame(c, t, j)
    BY <1>5, <2>2, <2>3 DEF InFrame
  <2>7. Followed(c, t, j)
    <3> SUFFICES ASSUME i = Size[s[m]], j < Len(c) PROVE c[j + 1] = <<m + 1, 1>>
      BY <2>3 DEF Followed
    <3>1. CASE j < Len(b)
      <4>1. j + 1 \in 1..Len(b)
        BY <1>1, <3>1
      <4> QED BY <1>5, <2>4, <3>1, <4>1
    <3>2. CASE ~(j < Len(b))
      <4>1. j = Len(b) /\ 1 \in 1..z
        BY <1>1, <3>2
      <4>2. c[Len(b) + 1] = <<q, 1>>
        BY <1>6, <4>1
      <4> QED BY <2>5, <4>1, <4>2 DEF q
    <3> QED BY <3>1, <3>2
  <2> QED BY <2>6, <2>7
<1>9. ASSUME NEW i \in 1..z PROVE InFrame(c, t, Len(b) + i) /\ Followed(c, t, Len(b) + i)
  <2>1. c[Len(b) + i][1] = q /\ c[Len(b) + i][2] = i
    BY <1>6
  <2>2. q \in 1..Len(t) /\ Size[t[q]] = z
    BY <1>1, <1>3 DEF q, z
  <2>3. \A l \in 1..z : Len(b) + i - i + l = Len(b) + l
    BY <1>1
  <2>4. InFrame(c, t, Len(b) + i)
    BY <1>6, <2>1, <2>2, <2>3 DEF InFrame
  <2>5. i = z => ~(Len(b) + i < Len(c))
    BY <1>1, <1>4
  <2>6. Followed(c, t, Len(b) + i)
    BY <2>1, <2>2, <2>5 DEF Followed
  <2> QED BY <2>4, <2>6
<1>10. \A j \in 1..Len(c) : InFrame(c, t, j) /\ Followed(c, t, j)
  BY <1>7, <1>8, <1>9
<1>11. c # <<>> /\ Len(c) = Len(b) + z /\ 1 \in 1..z /\ z \in 1..z
  BY <1>1, <1>4
<1>12. c[1] = <<n, 1>>
  <2>1. CASE b = <<>>
    <3>1. n = q /\ Len(b) + 1 = 1
      BY <2>1 DEF Stream, q
    <3> QED BY <1>6, <1>11, <3>1
  <2>2. CASE b # <<>>
    <3>1. 1 \in 1..Len(b)
      BY <2>2
    <3> QED BY <1>5, <2>2, <3>1 DEF Stream
  <2> QED BY <2>1, <2>2
<1>13. c[Len(c)][1] = Len(t)
  BY <1>3, <1>6, <1>11
<1>14. Stream(c, t, n)
  BY <1>10, <1>11, <1>12, <1>13 DEF Stream
<1> QED BY <1>2, <1>14 DEF c, e, q, t
-------------------------------------------------------------------------------
(***************************************************************************)
(* The request.                                                            *)
(***************************************************************************)
LEMMA PostInit == Init => PostInv
BY WireAssumption DEF Init, PostInv, Kinds

\* A status of success is read only whole, and of a room that was made.
LEMMA StatusFacts == ASSUME PostInv, stage = "reading", Status \in {200, 201} PROVE room = "made"
<1>1. room \in {"made", "refused"}
  <2>1. room = "none" => Status = -1
    BY WireAssumption DEF PostInv, Status, Kinds
  <2> QED BY <2>1 DEF PostInv
<1>2. 400 \div 10 = 40 /\ 400 \div 100 = 4 /\ 201 \div 10 = 20 /\ 201 \div 100 = 2
  OBVIOUS
<1> QED BY <1>1, <1>2 DEF Status

LEMMA PostStep == PostInv /\ Quiet /\ [Next]_vars => PostInv'
<1> SUFFICES ASSUME PostInv, Quiet, [Next]_vars PROVE PostInv'
  OBVIOUS
<1> USE DEF PostInv
<1>1. CASE PostStarts
  BY <1>1, WireAssumption DEF PostStarts, Kinds
<1>2. CASE PostSends
  BY <1>2 DEF PostSends
<1>3. CASE PostGivesUp
  BY <1>3 DEF PostGivesUp
<1>4. CASE PostReads
  BY <1>4, WireAssumption DEF PostReads, Kinds
<1>5. CASE PostEnds
  <2>1. stage = "reading" /\ Status \in {200, 201} => room = "made"
    BY StatusFacts
  <2> QED BY <1>5, <2>1 DEF PostEnds
<1>6. CASE RelayAnswers
  BY <1>6 DEF RelayAnswers
<1>7. CASE Breaks
  BY <1>7 DEF Breaks
<1>8. CASE Leaves
  BY <1>8 DEF Leaves, posting
<1>9. CASE Says \/ TcpDone \/ RecvFails \/ Recv \/ Parse \/ RelayReads \/ (\E kind \in Kinds : RelaySends(kind))
  <2>1. UNCHANGED <<stage, posting>>
    BY <1>9 DEF Says, TcpDone, RecvFails, Recv, Parse, RelayReads, RelaySends
  <2> QED BY <2>1 DEF posting
<1>10. CASE UNCHANGED vars
  BY <1>10 DEF vars, posting
<1> QED BY <1>1, <1>2, <1>3, <1>4, <1>5, <1>6, <1>7, <1>8, <1>9, <1>10 DEF Next, Posts, Receives
-------------------------------------------------------------------------------
(***************************************************************************)
(* The stream.                                                             *)
(***************************************************************************)
LEMMA EmptyStream == Stream(<<>> \o <<>>, <<>>, 1)
<1>1. <<>> \o <<>> = <<>> /\ Len(<<>>) = 0 /\ 1..0 = {}
  OBVIOUS
<1> QED BY <1>1 DEF Stream

LEMMA DownInit == Init => DownInv
<1> SUFFICES ASSUME Init PROVE DownInv
  OBVIOUS
<1>1. stage # "online" /\ DOMAIN got = {} /\ got = <<>> /\ rbuf = <<>> /\ flying = <<>> /\ sent = <<>>
      /\ looping = FALSE /\ hs = "idle" /\ conn = "none"
  BY DEF Init
<1>2. Shapes
  <2>1. <<>> \in Seq(Byte) /\ <<>> \in Seq(Down) /\ <<>> \in Seq(Nat)
    OBVIOUS
  <2> QED BY <1>1, <2>1 DEF Shapes
<1>3. Quiet /\ StreamInv
  BY <1>1 DEF Quiet, StreamInv
<1>4. Room
  BY <1>1 DEF Room
<1>5. InOrder
  BY <1>1 DEF InOrder
<1> QED BY <1>2, <1>3, <1>4, <1>5 DEF DownInv

\* The state in which the program is online, in short.
LEMMA Online ==
  ASSUME DownInv, stage = "online"
  PROVE  /\ rbuf \o flying \in Seq(Byte) /\ Stream(rbuf \o flying, sent, Due) /\ Due \in Nat
         /\ rbuf # <<>> => /\ rbuf \o flying # <<>> /\ Len(rbuf) \in Nat \ {0}
                           /\ rbuf[1] = <<Due, 1>> /\ Due \in 1..Len(sent)
<1>0. rbuf \in Seq(Byte) /\ flying \in Seq(Byte) /\ sent \in Seq(Down) /\ got \in Seq(Nat)
  BY DEF DownInv, Shapes
<1>1. /\ rbuf \o flying \in Seq(Byte) /\ Len(rbuf \o flying) = Len(rbuf) + Len(flying)
      /\ \A i \in 1..Len(rbuf) : (rbuf \o flying)[i] = rbuf[i]
  BY <1>0
<1>2. Stream(rbuf \o flying, sent, Due) /\ Due \in Nat
  BY <1>0 DEF DownInv, StreamInv, Due
<1>3. ASSUME rbuf # <<>>
      PROVE  /\ rbuf \o flying # <<>> /\ Len(rbuf) \in Nat \ {0}
             /\ rbuf[1] = <<Due, 1>> /\ Due \in 1..Len(sent)
  <2>1. Len(rbuf) \in Nat \ {0} /\ 1 \in 1..Len(rbuf) /\ rbuf \o flying # <<>>
    BY <1>0, <1>1, <1>3
  <2>2. rbuf[1] = <<Due, 1>>
    BY <1>1, <1>2, <2>1 DEF Stream
  <2>3. Due \in 1..Len(sent)
    BY <1>0, <1>1, <1>2, <2>1, StreamDrops
  <2> QED BY <2>1, <2>2, <2>3
<1> QED BY <1>1, <1>2, <1>3

\* Bytes are received.
LEMMA RecvKeeps == ASSUME DownInv, Recv PROVE DownInv'
<1> DEFINE b == rbuf \o flying
<1>1. /\ stage = "online" /\ ~looping /\ hs \in {"http", "open"} /\ flying # <<>>
      /\ UNCHANGED <<stage, conn, sent, got>>
  BY DEF Recv, Receiving
<1>2. /\ rbuf \in Seq(Byte) /\ flying \in Seq(Byte) /\ sent \in Seq(Down) /\ got \in Seq(Nat)
      /\ Len(rbuf) < WS_RECV_BUF /\ WS_RECV_BUF \in Nat /\ Len(flying) \in Nat /\ Len(rbuf) \in Nat
  <2>1. rbuf \in Seq(Byte) /\ flying \in Seq(Byte) /\ sent \in Seq(Down) /\ got \in Seq(Nat)
    BY DEF DownInv, Shapes
  <2>2. Len(rbuf) < WS_RECV_BUF
    BY <1>1 DEF DownInv, Room
  <2>3. WS_RECV_BUF \in Nat
    BY WireAssumption
  <2> QED BY <2>1, <2>2, <2>3
<1>3. PICK n \in 1..Least(Len(flying), WS_RECV_BUF - Len(rbuf)) : Received(n)
  BY <1>2 DEF Recv
<1>4. n \in 1..Len(flying) /\ Len(rbuf) + n <= WS_RECV_BUF
  BY <1>2 DEF Least
<1> DEFINE buf == rbuf \o SubSeq(flying, 1, n)
<1>5. /\ buf \in Seq(Byte) /\ Len(buf) = Len(rbuf) + n /\ flying' \in Seq(Byte)
      /\ buf \o flying' = b /\ flying' = SubSeq(flying, n + 1, Len(flying))
  BY <1>2, <1>3, <1>4, Moves DEF Received
<1>6. b \in Seq(Byte) /\ Stream(b, sent, Due) /\ Due \in Nat
  BY <1>1, Online
<1>7. Len(buf) \in Nat \ {0} /\ Len(buf) <= WS_RECV_BUF /\ b # <<>> /\ buf[1] = <<Due, 1>>
  <2>1. Len(buf) \in Nat \ {0} /\ Len(buf) <= WS_RECV_BUF
    BY <1>2, <1>4, <1>5
  <2> HIDE DEF buf
  <2>2. b # <<>> /\ b[1] = buf[1]
    BY <1>5, <2>1
  <2> QED BY <1>6, <2>1, <2>2 DEF Stream
<1>8. /\ Due \in 1..Len(sent) /\ Size[sent[Due]] \in 1..Len(b)
      /\ Stream(SubSeq(b, Size[sent[Due]] + 1, Len(b)), sent, Due + 1)
  BY <1>2, <1>6, <1>7, StreamDrops
<1>9. sent # <<>> /\ sent[1] = "101"
  BY <1>2, <1>8 DEF DownInv, Shapes
<1>10. CASE hs = "http" /\ Len(buf) >= Size["101"]
  <2>1. hs' = "open" /\ rbuf' = SubSeq(buf, Size["101"] + 1, Len(buf)) /\ looping' = WholeFrame(rbuf')
    <3>1. hs' = "open" /\ rbuf' = SubSeq(buf, Size["101"] + 1, Len(buf))
      BY <1>3, <1>10 DEF Received, Joins
    <3>2. looping' = ((TRUE \/ hs = "open") /\ WholeFrame(rbuf'))
      BY <1>3, <1>10 DEF Received
    <3> QED BY <3>1, <3>2 DEF WholeFrame
  <2>2. Due = 1 /\ got = <<>>
    BY <1>1, <1>10 DEF Due, DownInv, Room
  <2>3. Size["101"] \in 0..Len(buf) /\ Size["101"] > 1 /\ Size["101"] \in Nat
    BY <1>7, <1>10, SizeFacts DEF Down
  <2> HIDE DEF buf, b
  <2>4. /\ rbuf' \in Seq(Byte) /\ Len(rbuf') = Len(buf) - Size["101"]
        /\ rbuf' \o flying' = SubSeq(b, Size["101"] + 1, Len(b))
    BY <1>5, <2>1, <2>3, Drops
  <2>5. Due' = 2
    BY <1>1, <2>1, <2>2 DEF Due
  <2>6. Stream(rbuf' \o flying', sent', Due')
    BY <1>1, <1>8, <1>9, <2>2, <2>4, <2>5
  <2>7. Len(rbuf') < WS_RECV_BUF
    BY <1>2, <1>7, <2>3, <2>4
  <2>8. looping' \in BOOLEAN
    BY <2>1 DEF WholeFrame
  <2>9. Shapes' /\ Quiet' /\ InOrder'
    <3>1. InOrder /\ (sent # <<>> => sent[1] = "101")
      BY DEF DownInv, Shapes
    <3> QED BY <1>1, <1>2, <1>5, <2>4, <2>8, <3>1 DEF Shapes, Quiet, InOrder
  <2>10. Room'
    <3>1. looping' => WholeFrame(rbuf)'
      BY <1>1, <2>1 DEF WholeFrame
    <3>2. Len(rbuf') <= WS_RECV_BUF
      <4>1. Len(rbuf') \in Nat
        BY <2>4
      <4> QED BY <1>2, <2>7, <4>1
    <3> QED BY <1>1, <2>1, <2>7, <3>1, <3>2 DEF Room
  <2> QED BY <2>6, <2>9, <2>10 DEF DownInv, StreamInv
<1>11. CASE ~(hs = "http" /\ Len(buf) >= Size["101"])
  <2>1. hs' = hs /\ rbuf' = buf /\ looping' = (hs = "open" /\ WholeFrame(rbuf'))
    BY <1>3, <1>11 DEF Received
  <2>2. Due' = Due
    BY <1>1, <2>1 DEF Due
  <2> HIDE DEF buf, b
  <2>3. hs = "http" => Len(buf) < Size["101"] /\ Size["101"] <= WS_RECV_BUF
    BY <1>7, <1>11, SizeFacts DEF Down
  <2>4. hs = "open" /\ ~looping' => Len(buf) < WS_RECV_BUF
    <3>1. Head(buf) = <<Due, 1>> /\ buf # <<>>
      BY <1>5, <1>7
    <3>2. Size[sent[Due]] <= WS_RECV_BUF /\ Size[sent[Due]] \in Nat
      BY <1>2, <1>8, SizeFacts
    <3>3. Len(buf) >= WS_RECV_BUF => Len(buf) >= Size[sent[Due]]
      <4>1. Len(buf) \in Nat
        BY <1>7
      <4> QED BY <1>2, <3>2, <4>1
    <3>4. Head(buf)[1] = Due /\ Head(buf)[2] = 1
      BY <3>1
    <3>5. Len(buf) >= WS_RECV_BUF => WholeFrame(buf)
      BY <3>1, <3>3, <3>4 DEF WholeFrame
    <3>6. hs = "open" /\ ~looping' => ~WholeFrame(buf)
      BY <2>1
    <3>7. Len(buf) < WS_RECV_BUF \/ Len(buf) >= WS_RECV_BUF
      BY <1>2, <1>7
    <3> QED BY <3>5, <3>6, <3>7
  <2>5. ~looping' => Len(buf) < WS_RECV_BUF
    <3>1. hs = "http" => Len(buf) < WS_RECV_BUF
      <4>1. Size["101"] \in Nat
        BY SizeFacts DEF Down
      <4> QED BY <1>2, <1>7, <2>3, <4>1
    <3> QED BY <1>1, <2>4, <3>1
  <2>6. looping' \in BOOLEAN
    BY <2>1 DEF WholeFrame
  <2>7. rbuf' \o flying' = b
    BY <1>5, <2>1
  <2>8. StreamInv'
    BY <1>1, <1>6, <2>2, <2>7 DEF StreamInv
  <2>9. Shapes' /\ Quiet' /\ InOrder'
    <3>1. InOrder /\ (sent # <<>> => sent[1] = "101")
      BY DEF DownInv, Shapes
    <3> QED BY <1>1, <1>2, <1>5, <2>1, <2>6, <3>1 DEF Shapes, Quiet, InOrder
  <2>10. Room'
    <3>1. looping' => WholeFrame(rbuf)' /\ hs = "open"
      BY <1>1, <2>1 DEF WholeFrame
    <3>2. Room
      BY DEF DownInv
    <3> QED BY <1>1, <1>7, <2>1, <2>3, <2>5, <3>1, <3>2 DEF Room
  <2> QED BY <2>8, <2>9, <2>10 DEF DownInv
<1> QED BY <1>10, <1>11

\* A frame is dispatched.
LEMMA ParseKeeps == ASSUME DownInv, Parse PROVE DownInv'
<1> DEFINE b == rbuf \o flying  n == Head(rbuf)[1]  d == Size[sent[n]]
<1>1. /\ looping /\ stage = "online" /\ hs = "open" /\ WholeFrame(rbuf)
      /\ UNCHANGED <<stage, conn, hs, flying, sent>>
      /\ got' = Append(got, n) /\ rbuf' = SubSeq(rbuf, d + 1, Len(rbuf))
      /\ looping' = (net' # "error" /\ WholeFrame(rbuf'))
  BY DEF Parse, DownInv, Room, Leftover, Again
<1>2. /\ rbuf \in Seq(Byte) /\ flying \in Seq(Byte) /\ sent \in Seq(Down) /\ got \in Seq(Nat)
      /\ Len(rbuf) <= WS_RECV_BUF /\ WS_RECV_BUF \in Nat
  BY <1>1, WireAssumption DEF DownInv, Shapes, Room
<1>3. rbuf # <<>> /\ d <= Len(rbuf)
  BY <1>1 DEF WholeFrame
<1>4. /\ b \in Seq(Byte) /\ Stream(b, sent, Due) /\ Due \in Nat /\ b # <<>>
      /\ rbuf[1] = <<Due, 1>> /\ Due \in 1..Len(sent)
  BY <1>1, <1>3, Online
<1>5. n = Due /\ Due = Len(got) + 2 /\ Len(got) \in Nat
  BY <1>1, <1>2, <1>3, <1>4 DEF Due
<1>6. d \in Nat /\ d > 1 /\ d \in 0..Len(rbuf)
  BY <1>2, <1>3, <1>4, <1>5, SizeFacts
<1> HIDE DEF n
<1>7. Stream(SubSeq(b, d + 1, Len(b)), sent, Due + 1)
  <2>1. d = Size[sent[Due]]
    BY <1>5
  <2> HIDE DEF b, d
  <2> QED BY <1>2, <1>4, <2>1, StreamDrops
<1> HIDE DEF d
<1>8. /\ rbuf' \in Seq(Byte) /\ Len(rbuf') = Len(rbuf) - d
      /\ rbuf' \o flying' = SubSeq(b, d + 1, Len(b))
  BY <1>1, <1>2, <1>6, Drops
<1> HIDE DEF b
<1>9. /\ got' \in Seq(Nat) /\ Len(got') = Len(got) + 1 /\ got'[Len(got) + 1] = Due
      /\ \A i \in 1..Len(got) : got'[i] = got[i]
  BY <1>1, <1>2, <1>4, <1>5
<1>10. Due' = Due + 1
  BY <1>1, <1>5, <1>9 DEF Due
<1>11. StreamInv'
  BY <1>1, <1>7, <1>8, <1>10 DEF StreamInv
<1>12. InOrder'
  <2>1. \A i \in 1..Len(got) : got[i] = i + 1 /\ i < Len(sent)
    BY <1>2 DEF DownInv, InOrder
  <2>2. Len(sent) \in Nat /\ Len(got) + 1 < Len(sent)
    BY <1>2, <1>4, <1>5
  <2>3. DOMAIN got' = 1..Len(got) + 1
    BY <1>9
  <2> SUFFICES ASSUME NEW i \in 1..Len(got) + 1 PROVE got'[i] = i + 1 /\ i < Len(sent)
    BY <1>1, <2>3 DEF InOrder
  <2>4. i \in 1..Len(got) \/ i = Len(got) + 1
    BY <1>5
  <2> QED BY <1>5, <1>9, <2>1, <2>2, <2>4
<1>13. Len(rbuf') < WS_RECV_BUF
  BY <1>2, <1>3, <1>6, <1>8
<1>14. looping' \in BOOLEAN
  BY <1>1 DEF WholeFrame
<1>15. Shapes' /\ Quiet'
  <2>1. sent # <<>> => sent[1] = "101"
    BY DEF DownInv, Shapes
  <2> QED BY <1>1, <1>2, <1>8, <1>9, <1>14, <2>1 DEF Shapes, Quiet
<1>16. Room'
  <2>1. looping' => WholeFrame(rbuf)'
    BY <1>1 DEF WholeFrame
  <2>2. Len(rbuf') <= WS_RECV_BUF
    <3>1. Len(rbuf') \in Nat
      BY <1>8
    <3> QED BY <1>2, <1>13, <3>1
  <2> QED BY <1>1, <1>13, <2>1, <2>2 DEF Room
<1> QED BY <1>11, <1>12, <1>15, <1>16 DEF DownInv

\* The relay sends a frame.
LEMMA RelaySendsKeeps == ASSUME DownInv, NEW kind \in Kinds, RelaySends(kind) PROVE DownInv'
<1> DEFINE e == Bytes(Len(sent) + 1, kind)
<1>1. /\ conn = "open" /\ kind \in Down /\ (sent = <<>> => kind = "101")
      /\ sent' = Append(sent, kind) /\ flying' = flying \o e
      /\ UNCHANGED <<stage, conn, hs, rbuf, looping, got>>
  BY DEF RelaySends, Down
<1>2. /\ rbuf \in Seq(Byte) /\ flying \in Seq(Byte) /\ sent \in Seq(Down) /\ got \in Seq(Nat)
      /\ stage \in {"online", "left"}
  BY <1>1 DEF DownInv, Shapes, Quiet
<1>3. e \in Seq(Byte)
  BY <1>1, <1>2, BytesFacts
<1> HIDE DEF e
<1>4. /\ sent' \in Seq(Down) /\ Len(sent') = Len(sent) + 1 /\ sent' # <<>> /\ Len(sent) \in Nat
      /\ (\A i \in 1..Len(sent) : sent'[i] = sent[i]) /\ sent'[1] = "101" /\ flying' \in Seq(Byte)
  <2>1. /\ sent' \in Seq(Down) /\ Len(sent') = Len(sent) + 1 /\ sent' # <<>> /\ Len(sent) \in Nat
        /\ (\A i \in 1..Len(sent) : sent'[i] = sent[i]) /\ sent'[Len(sent) + 1] = kind
    <3> DEFINE t == Append(sent, kind)
    <3>1. /\ t \in Seq(Down) /\ Len(t) = Len(sent) + 1 /\ Len(sent) \in Nat
          /\ (\A i \in 1..Len(sent) : t[i] = sent[i]) /\ t[Len(sent) + 1] = kind
      <4>1. kind \in Down /\ sent \in Seq(Down)
        BY <1>1, <1>2
      <4> HIDE DEF Down
      <4> QED BY <4>1, AppendProperties
    <3>2. sent' = t
      BY <1>1
    <3>3. t # <<>>
      BY <3>1
    <3> HIDE DEF t
    <3> QED BY <3>1, <3>2, <3>3
  <2>2. flying' \in Seq(Byte)
    BY <1>1, <1>2, <1>3, ConcatProperties
  <2>3. CASE sent = <<>>
    <3>1. kind = "101" /\ Len(sent) = 0
      BY <1>1, <2>3
    <3>2. sent'[1] = "101"
      BY <2>1, <3>1
    <3> QED BY <2>1, <2>2, <3>2
  <2>4. CASE sent # <<>>
    <3>1. 1 \in 1..Len(sent)
      BY <1>2, <2>4
    <3>2. sent[1] = "101"
      BY <2>4 DEF DownInv, Shapes
    <3> QED BY <2>1, <2>2, <3>1, <3>2
  <2> QED BY <2>1, <2>2, <2>3, <2>4
<1>5. StreamInv'
  <2> SUFFICES ASSUME stage = "online" PROVE Stream(rbuf \o (flying \o e), Append(sent, kind), Due)
    BY <1>1 DEF StreamInv, Due
  <2>1. rbuf \o flying \in Seq(Byte) /\ Stream(rbuf \o flying, sent, Due) /\ Due \in Nat
    BY Online
  <2>2. Stream((rbuf \o flying) \o e, Append(sent, kind), Due)
    BY <1>1, <1>2, <2>1, StreamAdds DEF e
  <2>3. (rbuf \o flying) \o e = rbuf \o (flying \o e)
    <3>1. rbuf \in Seq(Byte) /\ flying \in Seq(Byte)
      BY <1>2
    <3> QED BY <1>3, <3>1, ConcatAssociative
  <2> QED BY <2>2, <2>3
<1>6. looping => WholeFrame(rbuf)'
  <2> SUFFICES ASSUME looping PROVE WholeFrame(rbuf)'
    OBVIOUS
  <2>1. WholeFrame(rbuf) /\ stage = "online" /\ rbuf # <<>>
    BY DEF DownInv, Room, WholeFrame
  <2>2. Head(rbuf)[1] \in 1..Len(sent)
    BY <1>2, <2>1, Online
  <2> QED BY <1>1, <1>4, <2>1, <2>2 DEF WholeFrame
<1>7. InOrder'
  <2>1. DOMAIN got = 1..Len(got) /\ \A i \in 1..Len(got) : got[i] = i + 1 /\ i < Len(sent)
    BY <1>2 DEF DownInv, InOrder
  <2> QED BY <1>1, <1>4, <2>1 DEF InOrder
<1> QED BY <1>1, <1>2, <1>4, <1>5, <1>6, <1>7 DEF DownInv, Shapes, Quiet, Room

\* Steps that touch no byte of the stream.
LEMMA OthersKeep ==
  ASSUME DownInv, UNCHANGED <<rbuf, flying, sent, got, looping>>,
         \/ UNCHANGED <<stage, hs>> /\ (conn' = conn \/ stage \in {"online", "left"})
         \/ UNCHANGED <<stage, conn>> /\ stage = "online" /\ hs = "tcp" /\ hs' \in {"tcp", "http"}
         \/ /\ stage \notin {"online", "left"} /\ stage' \notin {"online", "left"}
            /\ UNCHANGED <<conn, hs>>
         \/ /\ stage \notin {"online", "left"} /\ stage' = "online"
            /\ hs' \in {"idle", "tcp", "http"}
         \/ stage = "online" /\ stage' = "left" /\ ~looping /\ hs' = "closed"
  PROVE  DownInv'
<1>1. Shapes' /\ InOrder'
  BY DEF DownInv, Shapes, InOrder
<1>2. Quiet'
  BY DEF DownInv, Quiet
<1>3. Size["101"] \in Nat /\ Size["101"] > 1 /\ Size["101"] <= WS_RECV_BUF /\ WS_RECV_BUF \in Nat
  BY SizeFacts, WireAssumption DEF Down
<1>4. WholeFrame(rbuf)' = WholeFrame(rbuf)
  BY DEF WholeFrame
<1>5. Len(<<>>) = 0
  OBVIOUS
<1>6. Room'
  BY <1>3, <1>4, <1>5 DEF DownInv, Room, Quiet
<1>7. StreamInv'
  <2>1. CASE stage # "online" /\ stage' = "online"
    <3>1. rbuf = <<>> /\ flying = <<>> /\ sent = <<>> /\ Due' = 1
      BY <2>1 DEF DownInv, Quiet, Due
    <3> QED BY <3>1, EmptyStream DEF StreamInv
  <2>2. CASE stage = "online" /\ stage' = "online"
    <3>1. Due' = Due
      BY <2>2 DEF Due
    <3> QED BY <2>2, <3>1 DEF StreamInv, DownInv
  <2> QED BY <2>1, <2>2 DEF StreamInv
<1> QED BY <1>1, <1>2, <1>6, <1>7 DEF DownInv

LEMMA DownStep == DownInv /\ [Next]_vars => DownInv'
<1> SUFFICES ASSUME DownInv, [Next]_vars PROVE DownInv'
  OBVIOUS
<1>1. CASE Recv \/ Parse \/ \E kind \in Kinds : RelaySends(kind)
  BY <1>1, RecvKeeps, ParseKeeps, RelaySendsKeeps
<1>2. CASE PostStarts \/ PostSends \/ PostGivesUp \/ PostReads
  <2>1. /\ UNCHANGED <<socket>> /\ stage \notin {"online", "left"} /\ stage' \notin {"online", "left"}
    BY <1>2 DEF PostStarts, PostSends, PostGivesUp, PostReads
  <2> QED BY <2>1, OthersKeep DEF socket
<1>3. CASE PostEnds
  <2>1. /\ UNCHANGED <<rbuf, flying, sent, got, looping>> /\ stage = "reading"
        /\ \/ stage' = "online" /\ (hs' = hs \/ hs' \in {"tcp", "http"})
           \/ stage' = "role" /\ UNCHANGED <<conn, hs>>
    BY <1>3 DEF PostEnds, Connects, Upgrades
  <2>2. hs = "idle"
    BY <2>1 DEF DownInv, Quiet
  <2> QED BY <2>1, <2>2, OthersKeep
<1>4. CASE RelayAnswers \/ RelayReads \/ Says \/ RecvFails \/ UNCHANGED vars
  <2>1. UNCHANGED <<rbuf, flying, sent, got, looping, stage, hs, conn>>
    BY <1>4 DEF RelayAnswers, RelayReads, Says, RecvFails, vars, socket
  <2> QED BY <2>1, OthersKeep
<1>5. CASE TcpDone
  <2>1. /\ UNCHANGED <<rbuf, flying, sent, got, looping, stage, conn>>
        /\ stage = "online" /\ hs = "tcp" /\ hs' \in {"tcp", "http"}
    BY <1>5 DEF TcpDone, Receiving, Upgrades
  <2> QED BY <2>1, OthersKeep
<1>6. CASE Leaves
  <2>1. /\ UNCHANGED <<rbuf, flying, sent, got, looping>>
        /\ stage = "online" /\ stage' = "left" /\ ~looping /\ hs' = "closed"
    BY <1>6 DEF Leaves
  <2> QED BY <2>1, OthersKeep
<1>7. CASE Breaks
  <2>1. UNCHANGED <<rbuf, flying, sent, got, looping, stage, hs>> /\ (conn' = conn \/ conn = "open")
    BY <1>7 DEF Breaks
  <2>2. conn = "open" => stage \in {"online", "left"}
    BY DEF DownInv, Quiet
  <2> QED BY <2>1, <2>2, OthersKeep
<1> QED BY <1>1, <1>2, <1>3, <1>4, <1>5, <1>6, <1>7 DEF Next, Posts, Receives
-------------------------------------------------------------------------------
(***************************************************************************)
(* What goes up.  FlattenSeq is a recursion over the numbers, followed by  *)
(* a least counterexample.                                                 *)
(***************************************************************************)
Below == {p \in Nat \X Nat : p[1] < p[2]}

\* A set of numbers has a least member.
LEMMA LeastNumber ==
  ASSUME NEW T \in SUBSET Nat, T # {}
  PROVE  \E x \in T : \A y \in T : x <= y
<1>1. IsWellFoundedOn(Below, Nat)
  BY NatLessThanWellFounded DEF OpToRel, Below
<1>2. T \subseteq Nat /\ T # {}
  OBVIOUS
<1>3. \E x \in T : \A y \in T : ~(<<y, x>> \in Below)
  BY <1>1, <1>2, WFMin, Zenon
<1>4. \A x, y \in Nat : y < x => <<y, x>> \in Below
  BY DEF Below
<1>5. \A x, y \in Nat : ~(y < x) => x <= y
  OBVIOUS
<1> QED BY <1>3, <1>4, <1>5

\* h[i] is the first i members of s, put together.
Flat(s, h, n) == \A i \in 1..n : h[i] = IF i = 1 THEN s[i] ELSE h[i - 1] \o s[i]

\* The recursion of FlattenSeq has a solution.
LEMMA FlatExists == ASSUME NEW s, NEW n \in Nat PROVE \E h : Flat(s, h, n)
<1> DEFINE Has(m) == \E h : Flat(s, h, m)
           T == {m \in Nat : ~Has(m)}
<1>1. SUFFICES ASSUME T # {} PROVE FALSE
  OBVIOUS
<1>2. PICK m \in T : \A k \in T : m <= k
  <2>1. T \in SUBSET Nat
    OBVIOUS
  <2> HIDE DEF T
  <2> QED BY <1>1, <2>1, LeastNumber
<1>3. m \in Nat /\ ~Has(m)
  OBVIOUS
<1>4. m # 0
  BY <1>3 DEF Flat
<1>5. m - 1 \in Nat /\ ~(m <= m - 1)
  BY <1>3, <1>4
<1>6. PICK h : Flat(s, h, m - 1)
  BY <1>2, <1>5
<1> DEFINE g == [i \in 1..m |-> IF i < m THEN h[i] ELSE IF m = 1 THEN s[m] ELSE h[m - 1] \o s[m]]
<1>7. \A i \in 1..m : g[i] = IF i < m THEN h[i] ELSE IF m = 1 THEN s[m] ELSE h[m - 1] \o s[m]
  OBVIOUS
<1> HIDE DEF g
<1>8. ASSUME NEW i \in 1..m PROVE g[i] = IF i = 1 THEN s[i] ELSE g[i - 1] \o s[i]
  <2>1. CASE i < m
    <3>1. i \in 1..(m - 1) /\ (i # 1 => i - 1 \in 1..m /\ i - 1 < m)
      BY <1>3, <2>1
    <3>2. h[i] = IF i = 1 THEN s[i] ELSE h[i - 1] \o s[i]
      BY <1>6, <3>1 DEF Flat
    <3> QED BY <1>7, <2>1, <3>1, <3>2
  <2>2. CASE i = m
    <3>1. ~(i < m) /\ (i # 1 => i - 1 \in 1..m /\ i - 1 < m)
      BY <1>3, <2>2
    <3> QED BY <1>7, <2>2, <3>1
  <2> QED BY <1>3, <2>1, <2>2
<1>9. Flat(s, g, m)
  BY <1>8 DEF Flat
<1> QED BY <1>3, <1>9

\* So the one that is chosen is one.
LEMMA FlattenIs ==
  ASSUME NEW s, Len(s) \in Nat, Len(s) # 0
  PROVE  \E h : Flat(s, h, Len(s)) /\ FlattenSeq(s) = h[Len(s)]
<1> DEFINE n == Len(s)
           h == CHOOSE f : f = [i \in 1..n |-> IF i = 1 THEN s[i] ELSE f[i - 1] \o s[i]]
<1>1. FlattenSeq(s) = h[n]
  BY DEF FlattenSeq
<1>2. \E f : f = [i \in 1..n |-> IF i = 1 THEN s[i] ELSE f[i - 1] \o s[i]]
  <2>1. PICK g : Flat(s, g, n)
    BY FlatExists
  <2> DEFINE k == [i \in 1..n |-> g[i]]
  <2>2. \A i \in 1..n : k[i] = g[i] /\ (i # 1 => i - 1 \in 1..n /\ k[i - 1] = g[i - 1])
    OBVIOUS
  <2>3. k = [i \in 1..n |-> k[i]]
    OBVIOUS
  <2> HIDE DEF h, k, n
  <2>4. \A i \in 1..n : k[i] = IF i = 1 THEN s[i] ELSE k[i - 1] \o s[i]
    BY <2>1, <2>2 DEF Flat
  <2>5. k = [i \in 1..n |-> IF i = 1 THEN s[i] ELSE k[i - 1] \o s[i]]
    BY <2>3, <2>4
  <2> QED BY <2>5
<1>3. h = [i \in 1..n |-> IF i = 1 THEN s[i] ELSE h[i - 1] \o s[i]]
  BY <1>2
<1> HIDE DEF h, n
<1>4. Flat(s, h, n)
  BY <1>3 DEF Flat
<1> QED BY <1>1, <1>4 DEF n

\* It is the same for two sequences as far as they are the same.
LEMMA FlatsAgree ==
  ASSUME NEW s, NEW t, NEW g, NEW h, NEW n \in Nat, Flat(s, g, n), Flat(t, h, n),
         \A i \in 1..n : t[i] = s[i]
  PROVE  \A i \in 1..n : h[i] = g[i]
<1> DEFINE T == {m \in 1..n : h[m] # g[m]}
<1>1. SUFFICES ASSUME T # {} PROVE FALSE
  OBVIOUS
<1>2. PICK m \in T : \A k \in T : m <= k
  <2>1. T \in SUBSET Nat
    OBVIOUS
  <2> HIDE DEF T
  <2> QED BY <1>1, <2>1, LeastNumber
<1>3. m \in 1..n /\ h[m] # g[m]
  OBVIOUS
<1>4. m # 1
  BY <1>3 DEF Flat
<1>5. m - 1 \in 1..n /\ ~(m <= m - 1)
  BY <1>3, <1>4
<1>6. h[m - 1] = g[m - 1]
  BY <1>2, <1>5
<1> QED BY <1>3, <1>4, <1>6 DEF Flat

\* t is s and one more.
OneMore(s, t) ==
  Len(s) \in Nat /\ Len(s) # 0 /\ Len(t) = Len(s) + 1 /\ \A i \in 1..Len(s) : t[i] = s[i]

\* What the last sequence of t adds.
LEMMA FlattenGrows ==
  ASSUME NEW s, NEW t, OneMore(s, t) PROVE FlattenSeq(t) = FlattenSeq(s) \o t[Len(t)]
<1>0. /\ Len(s) \in Nat /\ Len(s) # 0 /\ Len(t) = Len(s) + 1
      /\ \A i \in 1..Len(s) : t[i] = s[i]
  BY DEF OneMore
<1> PICK n \in Nat : n = Len(s) /\ n # 0 /\ Len(t) = n + 1 /\ Len(t) \in Nat /\ Len(t) # 0
  BY <1>0
<1>1. PICK g : Flat(s, g, n) /\ FlattenSeq(s) = g[n]
  BY FlattenIs
<1>2. PICK h : Flat(t, h, n + 1) /\ FlattenSeq(t) = h[n + 1]
  BY FlattenIs
<1>3. Flat(t, h, n)
  BY <1>2 DEF Flat
<1>4. n \in 1..n /\ n + 1 \in 1..(n + 1) /\ n + 1 # 1 /\ n + 1 - 1 = n
  OBVIOUS
<1>5. h[n] = g[n]
  BY <1>0, <1>1, <1>3, <1>4, FlatsAgree
<1>6. h[n + 1] = h[n] \o t[n + 1]
  <2>1. PICK m : m = n + 1
    OBVIOUS
  <2>2. m \in 1..m /\ m # 1 /\ m - 1 = n
    BY <2>1
  <2>3. h[m] = h[m - 1] \o t[m]
    BY <1>2, <2>1, <2>2 DEF Flat
  <2> QED BY <2>1, <2>2, <2>3
<1> QED BY <1>1, <1>2, <1>5, <1>6

\* The frames that were said, put together.
Whole(s) == FlattenSeq([i \in 1..Len(s) |-> Bytes(i, s[i])])

LEMMA KindBytes ==
  ASSUME NEW q \in Nat, NEW kind \in Kinds
  PROVE  /\ Size[kind] \in Nat /\ Bytes(q, kind) \in Seq(Byte) /\ Len(Bytes(q, kind)) = Size[kind]
<1>1. Size[kind] \in Nat
  BY WireAssumption
<1>2. \A i \in 1..Size[kind] : <<q, i>> \in Byte
  BY <1>1 DEF Byte
<1>3. [i \in 1..Size[kind] |-> <<q, i>>] \in Seq(Byte) /\ Len([i \in 1..Size[kind] |-> <<q, i>>]) = Size[kind]
  BY <1>1, <1>2
<1> QED BY <1>1, <1>3 DEF Bytes

LEMMA WholeNone == ASSUME NEW s \in Seq(Kinds), s = <<>> PROVE Whole(s) = <<>>
<1> PICK w : w = [i \in 1..Len(s) |-> Bytes(i, s[i])]
  OBVIOUS
<1>1. Len(s) = 0
  OBVIOUS
<1>2. w = <<>> /\ Len(w) = 0
  BY <1>1
<1> QED BY <1>2 DEF Whole, FlattenSeq

\* One more frame is put behind the others.
LEMMA WholeGrows ==
  ASSUME NEW s \in Seq(Kinds), NEW kind \in Kinds
  PROVE  Whole(Append(s, kind)) = Whole(s) \o Bytes(Len(s) + 1, kind)
<1> PICK t : t = Append(s, kind)
  OBVIOUS
<1>1. /\ Len(s) \in Nat /\ Len(t) = Len(s) + 1 /\ t[Len(s) + 1] = kind
      /\ \A i \in 1..Len(s) : t[i] = s[i]
  OBVIOUS
<1> PICK v : v = [i \in 1..Len(s) |-> Bytes(i, s[i])]
  OBVIOUS
<1> PICK w : w = [i \in 1..Len(t) |-> Bytes(i, t[i])]
  OBVIOUS
<1>2. Len(v) = Len(s) /\ Len(w) = Len(s) + 1
  BY <1>1
<1>3. (\A i \in 1..Len(s) : w[i] = v[i]) /\ w[Len(s) + 1] = Bytes(Len(s) + 1, kind)
  BY <1>1
<1>4. Whole(t) = FlattenSeq(w) /\ Whole(s) = FlattenSeq(v)
  BY DEF Whole
<1>5. CASE Len(s) # 0
  <2>1. Len(v) \in Nat /\ Len(v) # 0 /\ Len(w) = Len(v) + 1
    BY <1>1, <1>2, <1>5
  <2>3. \A i \in 1..Len(v) : w[i] = v[i]
    BY <1>2, <1>3
  <2>4. OneMore(v, w)
    BY <2>1, <2>3 DEF OneMore
  <2>2. FlattenSeq(w) = FlattenSeq(v) \o w[Len(w)]
    BY <2>4, FlattenGrows, Zenon
  <2> QED BY <1>2, <1>3, <1>4, <2>2
<1>6. CASE Len(s) = 0
  <2>1. Len(w) = 1 /\ Len(w) \in Nat /\ Len(w) # 0
    BY <1>2, <1>6
  <2>2. PICK h : Flat(w, h, Len(w)) /\ FlattenSeq(w) = h[Len(w)]
    BY <2>1, FlattenIs
  <2>3. FlattenSeq(w) = w[1]
    <3>1. 1 \in 1..Len(w)
      BY <2>1
    <3>2. h[1] = w[1]
      BY <2>2, <3>1 DEF Flat
    <3> QED BY <2>1, <2>2, <3>2
  <2>4. w[1] = Bytes(1, kind)
    BY <1>3, <1>6
  <2>5. s = <<>>
    BY <1>6
  <2>6. Whole(s) = <<>>
    BY <2>5, WholeNone
  <2>7. Bytes(1, kind) \in Seq(Byte)
    BY KindBytes
  <2>8. <<>> \o Bytes(1, kind) = Bytes(1, kind)
    BY <2>7
  <2>10. Len(s) + 1 = 1
    BY <1>6
  <2>9. Whole(t) = Whole(s) \o Bytes(Len(s) + 1, kind)
    BY <2>10, <1>4, <1>6, <2>3, <2>4, <2>6, <2>8
  <2> QED BY <2>9
<1> QED BY <1>5, <1>6

\* What is sent without being broken off comes whole.
LEMMA PieceWhole ==
  ASSUME NEW q \in Nat, NEW kind \in Kinds, NEW a \in Nat, NEW b \in Nat, a + b = Size[kind]
  PROVE  Piece(Bytes(q, kind), a, b) = Bytes(q, kind)
<1> PICK x : x = Bytes(q, kind)
  OBVIOUS
<1>1. x \in Seq(Byte) /\ Len(x) = a + b
  BY KindBytes
<1> DEFINE y == SubSeq(x, 1, a)  z == SubSeq(x, a + 1, a + b)  c == y \o z
<1>2. /\ y \in Seq(Byte) /\ Len(y) = a /\ \A i \in 1..a : y[i] = x[i]
      /\ z \in Seq(Byte) /\ Len(z) = b /\ \A i \in 1..b : z[i] = x[i + a]
  BY <1>1
<1> HIDE DEF y, z
<1>3. /\ c \in Seq(Byte) /\ Len(c) = Len(y) + Len(z)
      /\ \A i \in 1..Len(y) + Len(z) : c[i] = IF i <= Len(y) THEN y[i] ELSE z[i - Len(y)]
  <2>1. y \in Seq(Byte) /\ z \in Seq(Byte)
    BY <1>2
  <2> QED BY <2>1, ConcatProperties
<1> HIDE DEF c
<1>4. Len(c) = Len(x)
  BY <1>1, <1>2, <1>3
<1>5. ASSUME NEW i \in 1..Len(x) PROVE c[i] = x[i]
  <2>1. i \in 1..Len(y) + Len(z) /\ i \in Nat /\ 1 <= i /\ i <= a + b
    BY <1>1, <1>2
  <2>2. CASE i <= a
    BY <1>2, <1>3, <2>1, <2>2
  <2>3. CASE ~(i <= a)
    <3>1. i - a \in 1..b /\ i - a + a = i
      BY <2>1, <2>3
    <3>2. c[i] = z[i - a]
      BY <1>2, <1>3, <2>1, <2>3
    <3> QED BY <1>2, <3>1, <3>2
  <2> QED BY <2>2, <2>3
<1>6. c = x
  BY <1>1, <1>3, <1>4, <1>5, SeqEqual
<1> QED BY <1>6 DEF Piece, c, y, z

\* Whole frames are in the kernel, unless one was broken off.
SaidInv ==
  /\ said \in Seq(Kinds) /\ unread \in 0..SendBuf /\ cut \in BOOLEAN
  /\ ~cut => up = Whole(said)

\* Which frames those are, while the connection stands.
Handshake ==
  /\ conn \in {"none", "open", "dead"} /\ (conn = "none" => said = <<>> /\ hs \in {"idle", "closed"})
  /\ conn = "open" => hs \in {"tcp", "http", "open"}
  /\ conn = "open" /\ hs = "tcp" => said = <<>>
  /\ conn = "open" /\ hs = "http" => said = <<"GET">>
  /\ conn = "open" /\ hs = "open" => Len(said) > 1 /\ said[1] = "GET" /\ said[2] = "JOIN"

UpInv == SaidInv /\ Handshake

\* What the kernel takes at once is no more than there is room for.
LEMMA RoomLeft ==
  ASSUME SaidInv, NEW kind \in Kinds, NEW a, a = Least(Size[kind], SendBuf - unread)
  PROVE  a \in 0..Size[kind] /\ Size[kind] \in Nat /\ unread + a \in 0..SendBuf
<1>1. Size[kind] \in Nat /\ SendBuf \in Nat
  BY WireAssumption
<1>2. unread \in 0..SendBuf
  BY DEF SaidInv
<1> QED BY <1>1, <1>2 DEF Least

LEMMA SendsKeeps == ASSUME SaidInv, NEW kind \in Kinds, Sends(kind) PROVE SaidInv' /\ said' = Append(said, kind)
<1> PICK a : a = Least(Size[kind], SendBuf - unread)
  OBVIOUS
<1>1. a \in 0..Size[kind] /\ Size[kind] \in Nat /\ unread \in 0..SendBuf
  BY RoomLeft DEF SaidInv
<1>2. PICK b \in 0..(Size[kind] - a) :
        /\ up' = up \o Piece(Bytes(Len(said) + 1, kind), a, b) /\ unread' = Least(SendBuf, unread + a + b)
        /\ cut' = (cut \/ a + b < Size[kind])
        /\ said' = Append(said, kind)
  BY DEF Sends
<1>3. said \in Seq(Kinds) /\ said' \in Seq(Kinds) /\ Len(said) + 1 \in Nat
  BY <1>2 DEF SaidInv
<1>4. unread' \in 0..SendBuf
  BY <1>1, <1>2, WireAssumption DEF Least
<1>5. cut' \in BOOLEAN
  BY <1>2 DEF SaidInv
<1>6. ASSUME ~cut' PROVE up' = Whole(said')
  <2>1. ~cut /\ ~(a + b < Size[kind])
    BY <1>2, <1>6 DEF SaidInv
  <2>2. a + b = Size[kind] /\ a \in Nat /\ b \in Nat
    BY <1>1, <2>1
  <2>3. Piece(Bytes(Len(said) + 1, kind), a, b) = Bytes(Len(said) + 1, kind)
    BY <1>3, <2>2, PieceWhole
  <2>4. up = Whole(said)
    BY <2>1 DEF SaidInv
  <2>5. Whole(Append(said, kind)) = Whole(said) \o Bytes(Len(said) + 1, kind)
    BY <1>3, WholeGrows
  <2> QED BY <1>2, <2>3, <2>4, <2>5
<1> QED BY <1>2, <1>3, <1>4, <1>5, <1>6 DEF SaidInv

LEMMA SendsOnceKeeps ==
  ASSUME SaidInv, NEW kind \in Kinds, SendsOnce(kind) PROVE SaidInv' /\ said' = Append(said, kind)
<1> PICK a : a = Least(Size[kind], SendBuf - unread)
  OBVIOUS
<1>1. a \in 0..Size[kind] /\ Size[kind] \in Nat /\ unread + a \in 0..SendBuf
  BY RoomLeft
<1>2. /\ up' = up \o SubSeq(Bytes(Len(said) + 1, kind), 1, a) /\ unread' = unread + a
      /\ cut' = (cut \/ a < Size[kind])
      /\ said' = Append(said, kind)
  BY DEF SendsOnce
<1>3. said \in Seq(Kinds) /\ said' \in Seq(Kinds) /\ Len(said) + 1 \in Nat
  BY <1>2 DEF SaidInv
<1>5. cut' \in BOOLEAN
  BY <1>2 DEF SaidInv
<1>6. ASSUME ~cut' PROVE up' = Whole(said')
  <2>1. ~cut /\ ~(a < Size[kind])
    BY <1>2, <1>6 DEF SaidInv
  <2>2. a = Size[kind]
    BY <1>1, <2>1
  <2>3. SubSeq(Bytes(Len(said) + 1, kind), 1, a) = Bytes(Len(said) + 1, kind)
    <3> PICK x : x = Bytes(Len(said) + 1, kind)
      OBVIOUS
    <3>1. x \in Seq(Byte) /\ Len(x) = a
      BY <1>3, <2>2, KindBytes
    <3>2. SubSeq(x, 1, a) = x
      BY <3>1
    <3> QED BY <3>2
  <2>4. up = Whole(said)
    BY <2>1 DEF SaidInv
  <2>5. Whole(Append(said, kind)) = Whole(said) \o Bytes(Len(said) + 1, kind)
    BY <1>3, WholeGrows
  <2> QED BY <1>2, <2>3, <2>4, <2>5
<1> QED BY <1>1, <1>2, <1>3, <1>5, <1>6 DEF SaidInv

\* A step sends one thing at most.
Same == UNCHANGED upward
SaysOne(kind) == SaidInv' /\ said' = Append(said, kind)

LEMMA SameSaid == ASSUME SaidInv, Same PROVE SaidInv' /\ said' = said
<1>1. said' = said /\ up' = up /\ unread' = unread /\ cut' = cut
  BY DEF Same, upward
<1>2. Whole(said)' = Whole(said)
  BY <1>1
<1> QED BY <1>1, <1>2 DEF SaidInv

\* With no more to say, or one more of a connection that is up.
LEMMA HandshakeKept ==
  ASSUME UpInv, SaidInv', conn' = conn, hs' = hs,
         \/ said' = said
         \/ hs = "open" /\ conn # "none" /\ \E kind \in Kinds : said' = Append(said, kind)
  PROVE  UpInv'
<1>1. CASE said' = said
  BY <1>1 DEF UpInv, Handshake
<1>2. CASE hs = "open" /\ conn # "none" /\ \E kind \in Kinds : said' = Append(said, kind)
  <2>1. PICK kind \in Kinds : said' = Append(said, kind)
    BY <1>2
  <2>2. said \in Seq(Kinds)
    BY DEF UpInv, SaidInv
  <2>3. Len(said) > 1 => Len(said') > 1 /\ said'[1] = said[1] /\ said'[2] = said[2]
    BY <2>1, <2>2
  <2>4. Handshake'
    BY <1>2, <2>3 DEF UpInv, Handshake
  <2> QED BY <2>4 DEF UpInv
<1> QED BY <1>1, <1>2

LEMMA WsSendSays ==
  ASSUME SaidInv, NEW kind \in Kinds, WsSend(kind, net)
  PROVE  SaidInv' /\ (said' = said \/ said' = Append(said, kind))
<1>1. CASE Sends(kind)
  BY <1>1, SendsKeeps
<1>2. CASE UNCHANGED upward
  BY <1>2, SameSaid DEF Same
<1> QED BY <1>1, <1>2 DEF WsSend

LEMMA Upgraded == ASSUME SaidInv, said = <<>>, Upgrades PROVE SaidInv' /\ said' = <<"GET">> /\ hs' = "http"
<1>1. SaidInv' /\ said' = Append(said, "GET")
  BY SendsOnceKeeps DEF Upgrades, Kinds
<1> QED BY <1>1 DEF Upgrades

LEMMA UpInit == Init => UpInv
<1> SUFFICES ASSUME Init PROVE UpInv
  OBVIOUS
<1>1. said = <<>> /\ up = <<>> /\ unread = 0 /\ cut = FALSE /\ conn = "none" /\ hs = "idle"
  BY DEF Init
<1>2. said \in Seq(Kinds)
  BY <1>1
<1>3. Whole(said) = <<>>
  BY <1>1, <1>2, WholeNone
<1>4. unread \in 0..SendBuf
  BY <1>1, WireAssumption
<1>5. SaidInv
  BY <1>1, <1>2, <1>3, <1>4 DEF SaidInv
<1>6. Handshake
  BY <1>1 DEF Handshake
<1> QED BY <1>5, <1>6 DEF UpInv

\* The response to the upgrade is sent once.
Once == \A i \in 2..Len(sent) : sent[i] # "101"

LEMMA OnceInit == Init => Once
<1>1. Len(<<>>) = 0 /\ 2..0 = {}
  OBVIOUS
<1> QED BY <1>1 DEF Init, Once

LEMMA OnceStep == DownInv /\ Once /\ [Next]_vars => Once'
<1> SUFFICES ASSUME DownInv, Once, [Next]_vars PROVE Once'
  OBVIOUS
<1>1. ASSUME NEW kind \in Kinds, RelaySends(kind) PROVE Once'
  <2>1. sent' = Append(sent, kind) /\ (kind = "101" => sent = <<>>) /\ sent \in Seq(Down)
    BY <1>1 DEF RelaySends, DownInv, Shapes
  <2>2. ASSUME NEW i \in 2..Len(sent') PROVE sent'[i] # "101"
    <3>1. i \in 2..Len(sent) \/ (i = Len(sent) + 1 /\ sent # <<>>)
      BY <2>1, <2>2
    <3>2. CASE i \in 2..Len(sent)
      <4>1. sent'[i] = sent[i]
        BY <2>1, <3>2
      <4> QED BY <3>2, <4>1 DEF Once
    <3>3. CASE i = Len(sent) + 1 /\ sent # <<>>
      BY <2>1, <3>3
    <3> QED BY <3>1, <3>2, <3>3
  <2> QED BY <2>2 DEF Once
<1>2. CASE UNCHANGED sent
  BY <1>2 DEF Once
<1>3. UNCHANGED sent \/ \E kind \in Kinds : RelaySends(kind)
  <2>1. UNCHANGED vars => UNCHANGED sent
    BY DEF vars, socket
  <2> QED BY <2>1 DEF Next, Posts, Receives, PostStarts, PostSends, PostGivesUp, PostReads, PostEnds, Says,
             TcpDone, RecvFails, Recv, Parse, Leaves, RelayAnswers, RelayReads, Breaks, socket
<1> QED BY <1>1, <1>2, <1>3

\* A turn of the loop takes a frame that comes after the response.
LEMMA Turn ==
  ASSUME DownInv, Once, Parse
  PROVE  sent[Head(rbuf)[1]] \in {"data", "ping", "close"}
<1>1. /\ looping /\ stage = "online" /\ hs = "open" /\ WholeFrame(rbuf)
      /\ sent \in Seq(Down) /\ rbuf \in Seq(Byte) /\ got \in Seq(Nat)
  BY DEF Parse, DownInv, Room, Shapes
<1>2. rbuf # <<>>
  BY <1>1 DEF WholeFrame
<1>3. rbuf[1] = <<Due, 1>> /\ Due \in 1..Len(sent) /\ Due = Len(got) + 2
  BY <1>1, <1>2, Online DEF Due
<1>4. Head(rbuf)[1] = Due
  BY <1>1, <1>2, <1>3
<1>5. Due \in 2..Len(sent)
  BY <1>1, <1>3
<1>6. sent[Due] # "101"
  BY <1>5 DEF Once
<1>7. sent[Due] \in Down
  BY <1>1, <1>3
<1> QED BY <1>4, <1>6, <1>7 DEF Down

LEMMA UpStep == DownInv /\ Once /\ UpInv /\ [Next]_vars => UpInv'
<1> SUFFICES ASSUME DownInv, Once, UpInv, [Next]_vars PROVE UpInv'
  OBVIOUS
<1>0. SaidInv /\ Handshake
  BY DEF UpInv
<1>1. CASE PostEnds
  <2>1. stage = "reading" /\ conn = "none" /\ said = <<>>
    BY <1>0, <1>1 DEF PostEnds, DownInv, Quiet, Handshake
  <2>2. CASE conn' = "open" /\ Upgrades
    BY <1>0, <2>1, <2>2, Upgraded DEF UpInv, Handshake
  <2>3. CASE conn' = "open" /\ hs' = "tcp" /\ UNCHANGED upward
    BY <1>0, <2>1, <2>3, SameSaid DEF UpInv, Handshake, Same
  <2>4. CASE UNCHANGED <<conn, hs, upward>>
    BY <1>0, <2>4, SameSaid, HandshakeKept DEF Same
  <2> QED BY <1>1, <2>2, <2>3, <2>4 DEF PostEnds, Connects
<1>2. CASE Says
  <2>1. conn' = conn /\ hs' = hs /\ hs = "open" /\ WsSend("data", net) /\ stage = "online"
    BY <1>2 DEF Says
  <2>2. SaidInv' /\ (said' = said \/ said' = Append(said, "data")) /\ "data" \in Kinds
    BY <1>0, <2>1, WsSendSays DEF Kinds
  <2>3. conn = "none" => hs # "open"
    BY <1>0 DEF Handshake
  <2> QED BY <2>1, <2>2, <2>3, HandshakeKept
<1>3. CASE TcpDone
  <2>1. CASE conn = "open" /\ Upgrades
    <3>1. said = <<>> /\ conn' = "open"
      BY <1>0, <1>3, <2>1 DEF TcpDone, Handshake
    <3> QED BY <1>0, <2>1, <3>1, Upgraded DEF UpInv, Handshake
  <2>2. CASE conn = "dead" /\ UNCHANGED upward
    <3>1. conn' = "dead"
      BY <1>3, <2>2 DEF TcpDone
    <3> QED BY <1>0, <2>2, <3>1, SameSaid DEF UpInv, Handshake, Same
  <2> QED BY <1>3, <2>1, <2>2 DEF TcpDone
<1>4. CASE Recv
  <2>1. conn' = conn /\ conn # "none" /\ (UNCHANGED <<hs, upward>> \/ (hs = "http" /\ Joins))
    BY <1>4 DEF Recv, Receiving, Received
  <2>2. CASE UNCHANGED <<hs, upward>>
    BY <1>0, <2>1, <2>2, SameSaid, HandshakeKept DEF Same
  <2>3. CASE hs = "http" /\ Sends("JOIN") /\ hs' = "open"
    <3>1. SaidInv' /\ said' = Append(said, "JOIN")
      BY <1>0, <2>3, SendsKeeps DEF Kinds
    <3>2. said = <<"GET">> => said'[1] = "GET" /\ said'[2] = "JOIN" /\ Len(said') > 1
      BY <3>1
    <3> QED BY <1>0, <2>1, <2>3, <3>1, <3>2 DEF UpInv, Handshake
  <2>4. CASE conn = "dead" /\ UNCHANGED upward
    BY <1>0, <2>1, <2>4, SameSaid DEF UpInv, Handshake, Same
  <2> QED BY <2>1, <2>2, <2>3, <2>4 DEF Joins
<1>5. CASE Parse
  <2>1. conn' = conn /\ hs' = hs /\ (UNCHANGED upward \/ WsSend("pong", net)) /\ looping
    <3>1. sent[Head(rbuf)[1]] \in {"data", "ping", "close"}
      BY <1>5, Turn
    <3> QED BY <1>5, <3>1 DEF Parse
  <2>2. hs = "open" /\ stage = "online"
    BY <2>1 DEF DownInv, Room
  <2>3. SaidInv' /\ (said' = said \/ said' = Append(said, "pong")) /\ "pong" \in Kinds
    BY <1>0, <2>1, WsSendSays, SameSaid DEF Kinds, Same
  <2>4. conn = "none" => hs # "open"
    BY <1>0 DEF Handshake
  <2> QED BY <2>1, <2>2, <2>3, <2>4, HandshakeKept
<1>6. CASE Leaves
  <2>1. CASE conn = "none" /\ UNCHANGED <<conn, upward>>
    BY <1>0, <1>6, <2>1, SameSaid DEF UpInv, Handshake, Same, Leaves
  <2>2. CASE conn' = "dead" /\ SendsOnce("close")
    BY <1>0, <2>2, SendsOnceKeeps DEF UpInv, Handshake, Kinds
  <2>3. CASE conn' = "dead" /\ UNCHANGED upward
    BY <1>0, <2>3, SameSaid DEF UpInv, Handshake, Same
  <2> QED BY <1>6, <2>1, <2>2, <2>3 DEF Leaves
<1>7. CASE RelayReads
  <2>1. conn' = conn /\ hs' = hs /\ said' = said /\ up' = up /\ cut' = cut /\ unread' = 0
    BY <1>7 DEF RelayReads
  <2>2. Whole(said)' = Whole(said)
    BY <2>1
  <2>3. SaidInv'
    BY <1>0, <2>1, <2>2, WireAssumption DEF SaidInv
  <2> QED BY <2>1, <2>3, HandshakeKept
<1>8. CASE Breaks
  <2>1. (conn' = conn \/ (conn # "none" /\ conn' = "dead")) /\ hs' = hs /\ UNCHANGED upward
    BY <1>8 DEF Breaks
  <2>2. SaidInv' /\ said' = said
    BY <1>0, <2>1, SameSaid DEF Same
  <2> QED BY <1>0, <2>1, <2>2 DEF UpInv, Handshake
<1>9. CASE PostStarts \/ PostSends \/ PostGivesUp \/ PostReads \/ RelayAnswers \/ UNCHANGED vars
  <2>1. UNCHANGED socket
    BY <1>9 DEF PostStarts, PostSends, PostGivesUp, PostReads, RelayAnswers, vars
  <2>2. conn' = conn /\ hs' = hs /\ UNCHANGED upward
    BY <2>1 DEF socket
  <2> QED BY <1>0, <2>2, SameSaid, HandshakeKept DEF Same
<1>10. CASE RecvFails \/ \E kind \in Kinds : RelaySends(kind)
  <2>1. conn' = conn /\ hs' = hs /\ UNCHANGED upward
    BY <1>10 DEF RecvFails, RelaySends
  <2> QED BY <1>0, <2>1, SameSaid, HandshakeKept DEF Same
<1> QED BY <1>1, <1>2, <1>3, <1>4, <1>5, <1>6, <1>7, <1>8, <1>9, <1>10 DEF Next, Posts, Receives

\* As long as no send is broken off, what the relay can read is whole frames in
\* the order they were sent, the upgrade and JOIN the first, for frames of any
\* size and a kernel that takes any part of one (ws_send, send_http_upgrade,
\* net_client_receive).
THEOREM UpInStepAlways == Spec => []UpInStep
<1> DEFINE Inv == DownInv /\ Once /\ UpInv
<1>1. Init => Inv
  BY DownInit, OnceInit, UpInit
<1>2. Inv /\ [Next]_vars => Inv'
  BY DownStep, OnceStep, UpStep
<1>3. Inv => UpInStep
  <2> SUFFICES ASSUME UpInv PROVE UpInStep
    OBVIOUS
  <2>1. ~cut => up = FlattenSeq([i \in 1..Len(said) |-> Bytes(i, said[i])])
    BY DEF UpInv, SaidInv, Whole
  <2>2. ASSUME conn = "open", Len(said) > 1 PROVE SubSeq(said, 1, 2) = <<"GET", "JOIN">>
    <3>1. said[1] = "GET" /\ said[2] = "JOIN" /\ said \in Seq(Kinds)
      <4>1. hs = "open" \/ said = <<>> \/ said = <<"GET">>
        BY <2>2 DEF UpInv, Handshake
      <4>2. Len(<<>>) = 0 /\ Len(<<"GET">>) = 1
        OBVIOUS
      <4> QED BY <2>2, <4>1, <4>2 DEF UpInv, Handshake, SaidInv
    <3> PICK t : t = SubSeq(said, 1, 2)
      OBVIOUS
    <3>2. t \in Seq(Kinds) /\ Len(t) = 2 /\ t[1] = said[1] /\ t[2] = said[2]
      BY <2>2, <3>1
    <3>3. t = <<"GET", "JOIN">>
      <4>1. <<"GET", "JOIN">> \in Seq(Kinds) /\ Len(<<"GET", "JOIN">>) = 2
        BY DEF Kinds
      <4>2. \A i \in 1..2 : t[i] = <<"GET", "JOIN">>[i]
        BY <3>1, <3>2
      <4> QED BY <3>2, <4>1, <4>2, SeqEqual
    <3> QED BY <3>3
  <2> QED BY <2>1, <2>2 DEF UpInStep
<1> HIDE DEF Inv
<1> QED BY <1>1, <1>2, <1>3, PTL DEF Spec

\* The program goes online only with a room the relay has made, and http_post
\* leaves no descriptor open, whichever call fails and however the response is
\* cut (lobby_create_room, http_post).
THEOREM PostSoundAlways == Spec => []PostSound
<1> DEFINE Inv == PostInv /\ DownInv
<1>1. Init => Inv
  BY PostInit, DownInit
<1>2. Inv /\ [Next]_vars => Inv'
  BY PostStep, DownStep DEF DownInv
<1>3. Inv => PostSound
  BY DEF PostInv, PostSound
<1> HIDE DEF Inv
<1> QED BY <1>1, <1>2, <1>3, PTL DEF Spec

\* The frames the program dispatches are those the relay sent, each once and in
\* order, for frames of any size and pieces of any length, as long as a frame
\* fits the buffer (net_client_receive).
THEOREM InOrderAlways == Spec => []InOrder
<1>1. DownInv => InOrder
  BY DEF DownInv
<1> QED BY <1>1, DownInit, DownStep, PTL DEF Spec
===============================================================================
