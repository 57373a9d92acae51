-------------------------- MODULE HttpRequestProofs --------------------------
(***************************************************************************)
(* What the servers read of the requests of HttpRequest, for every device, *)
(* every url and every size of the buffers that has room for them: the     *)
(* form the server expects, once it is decoded, and the path of the url    *)
(* from its host.                                                          *)
(***************************************************************************)
EXTENDS HttpRequest, Lemmas

-----------------------------------------------------------------------------
(* Texts in buffers.                                                       *)

LEMMA OnlyOne == ASSUME NEW x PROVE Only({x}) = x
  BY DEF Only

\* Putting tokens in a buffer.
LEMMA PutIs ==
  ASSUME NEW T, NEW buf \in Seq(T), NEW at \in Nat, NEW tokens \in Seq(T), at + Len(tokens) <= Len(buf)
  PROVE  /\ Put(buf, at, tokens) \in Seq(T) /\ Len(Put(buf, at, tokens)) = Len(buf)
         /\ \A i \in 1..Len(buf) : i <= at => Put(buf, at, tokens)[i] = buf[i]
         /\ \A i \in 1..Len(tokens) : Put(buf, at, tokens)[at + i] = tokens[i]
<1> DEFINE b == Put(buf, at, tokens)
           there(i) == i \in (at + 1)..(at + Len(tokens))
<1>1. Len(buf) \in Nat /\ Len(tokens) \in Nat /\ DOMAIN buf = 1..Len(buf)
  OBVIOUS
<1>2. b = [i \in 1..Len(buf) |-> IF there(i) THEN tokens[i - at] ELSE buf[i]]
  BY <1>1 DEF Put
<1>3. ASSUME NEW i \in 1..Len(buf)
      PROVE  (IF there(i) THEN tokens[i - at] ELSE buf[i]) \in T
  <2>1. there(i) => i - at \in 1..Len(tokens)
    BY <1>1
  <2> QED
    BY <2>1
<1>4. b \in Seq(T) /\ Len(b) = Len(buf)
  <2> HIDE DEF there
  <2> QED
    BY <1>1, <1>2, <1>3
<1>5. ASSUME NEW i \in 1..Len(buf), i <= at PROVE b[i] = buf[i]
  BY <1>1, <1>2, <1>5
<1>6. ASSUME NEW i \in 1..Len(tokens) PROVE b[at + i] = tokens[i]
  <2>1. LET k == at + i IN k \in 1..Len(buf) /\ there(k) /\ k - at = i
    BY <1>1
  <2> QED
    BY <1>2, <2>1
<1> QED
  BY <1>4, <1>5, <1>6

LEMMA PutNulIs ==
  ASSUME NEW T, "NUL" \in T, NEW buf \in Seq(T), NEW at \in Nat
  PROVE  /\ PutNul(buf, at) \in Seq(T) /\ Len(PutNul(buf, at)) = Len(buf)
         /\ \A i \in 1..Len(buf) : i <= at => PutNul(buf, at)[i] = buf[i]
<1>1. Len(buf) \in Nat /\ DOMAIN buf = 1..Len(buf)
  OBVIOUS
<1>2. CASE at < Len(buf)
  <2> DEFINE b == [buf EXCEPT ![at + 1] = "NUL"]
  <2>1. PutNul(buf, at) = b
    BY <1>2 DEF PutNul
  <2>2. b \in Seq(T) /\ Len(b) = Len(buf)
    BY <1>1, <1>2
  <2>3. \A i \in 1..Len(buf) : i <= at => b[i] = buf[i]
    BY <1>1, <1>2
  <2> HIDE DEF b
  <2> QED
    BY <2>1, <2>2, <2>3
<1>3. CASE ~(at < Len(buf))
  BY <1>3 DEF PutNul
<1> QED
  BY <1>2, <1>3

\* The first place of something in a text.
Place(text, stops, from, at) ==
  /\ from <= at /\ at \in 1..(Len(text) + 1)
  /\ at = Len(text) + 1 \/ text[at] \in stops
  /\ \A k \in from..(at - 1) : text[k] \notin stops

LEMMA PlaceIs ==
  ASSUME NEW S, NEW text \in Seq(S), NEW stops, NEW from \in Nat, NEW at, Place(text, stops, from, at)
  PROVE  (CHOOSE j \in from..(Len(text) + 1) : /\ j = Len(text) + 1 \/ text[j] \in stops
                                               /\ \A k \in from..(j - 1) : text[k] \notin stops) = at
<1> DEFINE Is(j) == /\ j = Len(text) + 1 \/ text[j] \in stops
                    /\ \A k \in from..(j - 1) : text[k] \notin stops
           c == CHOOSE j \in from..(Len(text) + 1) : Is(j)
<1>1. Len(text) \in Nat /\ at \in from..(Len(text) + 1) /\ Is(at)
  BY DEF Place
<1>2. c \in from..(Len(text) + 1) /\ Is(c)
  BY <1>1
<1> HIDE DEF c
<1>3. c = at
  BY <1>1, <1>2
<1> QED
  BY <1>3 DEF c

LEMMA FindsAt ==
  ASSUME NEW S, NEW buf \in Seq(S), NEW token, NEW at \in 1..Len(buf), buf[at] = token,
         \A i \in 1..(at - 1) : buf[i] # token
  PROVE  Find(buf, token, 1) = at
<1> DEFINE First(i) == buf[i] = token /\ \A j \in 1..(i - 1) : buf[j] # token
           c == CHOOSE i \in 1..Len(buf) : First(i)
<1>1. Find(buf, token, 1) = c
  BY DEF Find
<1>2. c \in 1..Len(buf) /\ First(c)
  OBVIOUS
<1>3. Len(buf) \in Nat
  OBVIOUS
<1> HIDE DEF c
<1>4. c = at
  BY <1>2, <1>3
<1> QED
  BY <1>1, <1>4

\* One text behind another.
LEMMA Behind ==
  ASSUME NEW S, NEW s \in Seq(S), NEW p \in Seq(S)
  PROVE  /\ s \o p \in Seq(S) /\ Len(s \o p) = Len(s) + Len(p) /\ Len(s) \in Nat /\ Len(p) \in Nat
         /\ \A i \in 1..Len(s) : (s \o p)[i] = s[i]
         /\ \A i \in 1..Len(p) : (s \o p)[Len(s) + i] = p[i]
<1>1. Len(s) \in Nat /\ Len(p) \in Nat
  OBVIOUS
<1>2. s \o p \in Seq(S) /\ Len(s \o p) = Len(s) + Len(p)
  BY ConcatProperties
<1>3. \A i \in 1..(Len(s) + Len(p)) : (s \o p)[i] = IF i <= Len(s) THEN s[i] ELSE p[i - Len(s)]
  BY ConcatProperties
<1> DEFINE t == s \o p
<1> HIDE DEF t
<1>4. \A i \in 1..(Len(s) + Len(p)) : t[i] = IF i <= Len(s) THEN s[i] ELSE p[i - Len(s)]
  BY <1>3 DEF t
<1>5. \A i \in 1..Len(s) : t[i] = s[i]
  BY <1>1, <1>4
<1>6. ASSUME NEW i \in 1..Len(p) PROVE t[Len(s) + i] = p[i]
  <2> DEFINE k == Len(s) + i
  <2>1. k \in 1..(Len(s) + Len(p)) /\ ~(k <= Len(s)) /\ k - Len(s) = i
    BY <1>1
  <2> QED
    BY <1>4, <2>1
<1> QED
  BY <1>1, <1>2, <1>5, <1>6 DEF t

\* A text found at a place of another one.
LEMMA Shown ==
  ASSUME NEW S, NEW t \in Seq(S), NEW p \in Seq(S), NEW k \in Nat, k + Len(p) <= Len(t),
         \A i \in 1..Len(p) : t[k + i] = p[i]
  PROVE  SubSeq(t, k + 1, k + Len(p)) = p
<1> DEFINE m == k + 1
           n == k + Len(p)
<1>1. Len(p) \in Nat /\ Len(t) \in Nat
  OBVIOUS
<1>2. m \in 1..(Len(t) + 1) /\ n \in (m - 1)..Len(t) /\ n - m + 1 = Len(p)
  BY <1>1
<1>3. \A i \in 1..Len(p) : m + i - 1 = k + i
  BY <1>1
<1> DEFINE q == SubSeq(t, m, n)
<1> HIDE DEF m, n
<1>4. q \in Seq(S) /\ Len(q) = n - m + 1 /\ \A i \in 1..(n - m + 1) : q[i] = t[m + i - 1]
  BY <1>2, PartType
<1> HIDE DEF q
<1>5. \A i \in 1..Len(p) : q[i] = p[i]
  BY <1>2, <1>3, <1>4
<1>6. q = p
  BY <1>2, <1>4, <1>5, SeqEqual, Zenon
<1> QED
  BY <1>6 DEF q, m, n

\* A text is in another one, behind its first k tokens.
Inside(t, k, p) == k + Len(p) <= Len(t) /\ \A i \in 1..Len(p) : t[k + i] = p[i]

LEMMA Adds ==
  ASSUME NEW S, NEW s \in Seq(S), NEW p \in Seq(S)
  PROVE  /\ s \o p \in Seq(S) /\ Len(s \o p) = Len(s) + Len(p)
         /\ Inside(s \o p, Len(s), p)
         /\ \A q \in Seq(S) : \A k \in Nat : Inside(s, k, q) => Inside(s \o p, k, q)
<1> PICK t : t = s \o p
  OBVIOUS
<1>1. /\ t \in Seq(S) /\ Len(t) = Len(s) + Len(p) /\ Len(s) \in Nat /\ Len(p) \in Nat
      /\ \A i \in 1..Len(s) : t[i] = s[i]
      /\ \A i \in 1..Len(p) : t[Len(s) + i] = p[i]
  BY Behind
<1>2. Inside(t, Len(s), p)
  BY <1>1 DEF Inside
<1>3. ASSUME NEW q \in Seq(S), NEW k \in Nat, Inside(s, k, q) PROVE Inside(t, k, q)
  <2>1. Len(q) \in Nat /\ k + Len(q) <= Len(s) /\ \A i \in 1..Len(q) : s[k + i] = q[i]
    BY <1>3 DEF Inside
  <2>2. \A i \in 1..Len(q) : k + i \in 1..Len(s)
    BY <1>1, <2>1
  <2>3. \A i \in 1..Len(q) : t[k + i] = q[i]
    BY <1>1, <2>1, <2>2
  <2> QED
    BY <1>1, <2>1, <2>3 DEF Inside
<1> QED
  BY <1>1, <1>2, <1>3

LEMMA Whole ==
  ASSUME NEW S, NEW t \in Seq(S), NEW p \in Seq(S), NEW k \in Nat, Inside(t, k, p)
  PROVE  SubSeq(t, k + 1, k + Len(p)) = p
  BY Shown DEF Inside

LEMMA InsideItself ==
  ASSUME NEW S, NEW p \in Seq(S)
  PROVE  Inside(p, 0, p)
  BY DEF Inside

LEMMA InsideOne ==
  ASSUME NEW S, NEW t \in Seq(S), NEW k \in Nat, NEW c
  PROVE  Inside(t, k, <<c>>) <=> k + 1 <= Len(t) /\ t[k + 1] = c
<1>1. Len(<<c>>) = 1 /\ <<c>>[1] = c
  OBVIOUS
<1>2. 1..1 = {1}
  OBVIOUS
<1> QED
  BY <1>1, <1>2 DEF Inside

\* The tokens of texts.
Literals ==
  {"POST", "HEAD", "GET", "/token", "auth-device-iot.tencentcloudapi.com", "h", "t", "p", "s", ":", "/",
   "clientId=", "&deviceName=", "&expire=", "&nonce=", "&productId=", "&timestamp=", "&signature=",
   EXPIRE, NONCE, TIMESTAMP, "%", "2", "3", "5", "6", "7", "B", "D", "E", "F", "&", "+", "=", "~", " "}
Letters == STRING \cup Literals \cup {"NUL", "?"}
Characters == (STRING \cup Literals) \ {"NUL", VERSION, LENGTH, END}

LEMMA Others ==
  ASSUME NEW p \in Seq(Characters), NEW t, NEW k \in Nat, Inside(t, k, p)
  PROVE  \A i \in (k + 1)..(k + Len(p)) : t[i] \notin {VERSION, LENGTH, END}
<1> SUFFICES ASSUME NEW i \in (k + 1)..(k + Len(p)) PROVE t[i] \notin {VERSION, LENGTH, END}
  OBVIOUS
<1>1. Len(p) \in Nat /\ i - k \in 1..Len(p) /\ k + (i - k) = i
  OBVIOUS
<1>2. t[i] = p[i - k]
  BY <1>1 DEF Inside
<1>3. p[i - k] \in Characters
  BY <1>1, ElementOfSeq
<1> QED
  BY <1>2, <1>3 DEF Characters

\* What the server reads of a text whose parts are where a request has them.
LEMMA Before ==
  ASSUME NEW l \in Nat, NEW h \in Nat, NEW i \in Int, 1 <= i, i <= 4 + l + h
  PROVE  i = 1 \/ i \in 2..(1 + l) \/ i = 2 + l \/ i \in (3 + l)..(2 + l + h) \/ i = 3 + l + h \/ i = 4 + l + h
  OBVIOUS

HasParts(text, method, path, host, content, lp, lh, lc) ==
  /\ lp = Len(path) /\ lh = Len(host) /\ lc = Len(content) /\ Len(text) = 5 + lp + lh + lc
  /\ text[1] = method /\ method \notin {VERSION, LENGTH, END}
  /\ Inside(text, 1, path) /\ text[2 + lp] = VERSION /\ Inside(text, 2 + lp, host)
  /\ text[3 + lp + lh] = LENGTH /\ text[4 + lp + lh] = ToString(lc) /\ text[5 + lp + lh] = END
  /\ Inside(text, 5 + lp + lh, content) /\ ToString(lc) # END
  /\ \A i \in 2..(1 + lp) : text[i] \notin {VERSION, LENGTH, END}
  /\ \A i \in (3 + lp)..(2 + lp + lh) : text[i] \notin {VERSION, LENGTH, END}

LEMMA PartsRead ==
  ASSUME NEW S, NEW text \in Seq(S), NEW method, NEW path \in Seq(S), NEW host \in Seq(S), NEW content \in Seq(S),
         NEW lp \in Nat, NEW lh \in Nat, NEW lc \in Nat, HasParts(text, method, path, host, content, lp, lh, lc)
  PROVE  ServerReads(text) =
           [whole |-> TRUE, method |-> method, path |-> path, host |-> host, body |-> content]
<1> USE DEF HasParts
<1>0. VERSION # LENGTH /\ VERSION # END /\ LENGTH # END
  BY DEF VERSION, LENGTH, END
<1>1. PICK version \in Nat : version = 2 + lp
  OBVIOUS
<1>2. PICK length \in Nat : length = 3 + lp + lh
  OBVIOUS
<1>3. PICK end \in Nat : end = 5 + lp + lh
  OBVIOUS
<1>4. Find(text, VERSION, 1) = version
  <2>1. version \in 1..Len(text) /\ text[version] = VERSION
    BY <1>1
  <2>2. ASSUME NEW i \in 1..(version - 1) PROVE text[i] # VERSION
    <3>1. i = 1 \/ i \in 2..(1 + lp)
      BY <1>1
    <3> QED
      BY <3>1
  <2> QED
    BY <2>1, <2>2, FindsAt
<1>5. Find(text, LENGTH, 1) = length
  <2>1. length \in 1..Len(text) /\ text[length] = LENGTH
    BY <1>2
  <2>2. ASSUME NEW i \in 1..(length - 1) PROVE text[i] # LENGTH
    <3>1. i = 1 \/ i \in 2..(1 + lp) \/ i = 2 + lp \/ i \in (3 + lp)..(2 + lp + lh)
      <4>1. i \in Int /\ 1 <= i /\ i <= 4 + lp + lh /\ i # 3 + lp + lh /\ i # 4 + lp + lh
        BY <1>2
      <4> QED
        BY <4>1, Before
    <3> QED
      BY <3>1, <1>0
  <2> QED
    BY <2>1, <2>2, FindsAt
<1>6. Find(text, END, 1) = end
  <2>1. end \in 1..Len(text) /\ text[end] = END
    BY <1>3
  <2>2. ASSUME NEW i \in 1..(end - 1) PROVE text[i] # END
    <3>1. \/ i = 1 \/ i \in 2..(1 + lp) \/ i = 2 + lp \/ i \in (3 + lp)..(2 + lp + lh) \/ i = 3 + lp + lh
          \/ i = 4 + lp + lh
      <4>1. i \in Int /\ 1 <= i /\ i <= 4 + lp + lh
        BY <1>3
      <4> QED
        BY <4>1, Before
    <3> QED
      BY <3>1, <1>0
  <2> QED
    BY <2>1, <2>2, FindsAt
<1>7. SubSeq(text, 2, version - 1) = path
  <2>1. SubSeq(text, 1 + 1, 1 + Len(path)) = path
    BY Whole
  <2>2. 1 + 1 = 2 /\ 1 + Len(path) = version - 1
    BY <1>1
  <2> QED
    BY <2>1, <2>2, Zenon
<1>8. SubSeq(text, version + 1, length - 1) = host
  <2>1. Inside(text, version, host)
    BY <1>1
  <2>2. version + Len(host) = length - 1
    BY <1>1, <1>2
  <2>3. SubSeq(text, version + 1, version + Len(host)) = host
    BY <2>1, Whole
  <2> QED
    BY <2>2, <2>3, Zenon
<1>9. SubSeq(text, end + 1, Len(text)) = content
  <2>1. Inside(text, end, content)
    BY <1>3
  <2>2. end + Len(content) = Len(text)
    BY <1>3
  <2>3. SubSeq(text, end + 1, end + Len(content)) = content
    BY <2>1, Whole
  <2> QED
    BY <2>2, <2>3, Zenon
<1>10. end > 0 /\ text[length + 1] = ToString(Len(text) - end)
  <2>1. Len(text) - end = lc /\ length + 1 = 4 + lp + lh /\ end > 0
    BY <1>2, <1>3
  <2> QED
    BY <2>1
<1> QED
  BY <1>4, <1>5, <1>6, <1>7, <1>8, <1>9, <1>10 DEF ServerReads

\* What the server reads of a request that fits its buffer.
LEMMA RequestReads ==
  ASSUME NEW method \in Characters, NEW path \in Seq(Characters), NEW host \in Seq(Characters),
         NEW content \in Seq(Characters), Len(path) + Len(host) + Len(content) + 5 < RequestLen
  PROVE  ServerReads(FormatBuffer(method, path, host, content)) =
           [whole |-> TRUE, method |-> method, path |-> path, host |-> host, body |-> content]
<1>1. PICK lp \in Nat : lp = Len(path)
  OBVIOUS
<1>2. PICK lh \in Nat : lh = Len(host)
  OBVIOUS
<1>3. PICK lc \in Nat : lc = Len(content)
  OBVIOUS
<1>4. PICK N : N = ToString(lc)
  OBVIOUS
<1>5. PICK S : S = Characters \cup {method, VERSION, LENGTH, END, N}
  OBVIOUS
<1>6. PICK three : three = <<LENGTH, N, END>>
  OBVIOUS
<1>7. /\ Characters \subseteq S /\ method \in S /\ VERSION \in S /\ LENGTH \in S /\ END \in S /\ N \in S
  BY <1>5
<1>8. path \in Seq(S) /\ host \in Seq(S) /\ content \in Seq(S)
  BY <1>7, SeqMonotonic
<1>9. <<method>> \in Seq(S) /\ <<VERSION>> \in Seq(S) /\ Len(<<method>>) = 1 /\ Len(<<VERSION>>) = 1
  BY <1>7
<1>10. three \in Seq(S) /\ Len(three) = 3 /\ three[1] = LENGTH /\ three[2] = N /\ three[3] = END
  BY <1>6, <1>7
<1>11. PICK t1 : t1 = <<method>> \o path
  OBVIOUS
<1>12. PICK t2 : t2 = t1 \o <<VERSION>>
  OBVIOUS
<1>13. PICK t3 : t3 = t2 \o host
  OBVIOUS
<1>14. PICK t4 : t4 = t3 \o three
  OBVIOUS
<1>15. PICK text : text = t4 \o content
  OBVIOUS
<1>16. t1 \in Seq(S) /\ Len(t1) = 1 + lp /\ Inside(t1, 0, <<method>>) /\ Inside(t1, 1, path)
  <2>1. Inside(<<method>>, 0, <<method>>)
    BY <1>9, InsideItself
  <2> QED
    BY <2>1, <1>1, <1>8, <1>9, <1>11, Adds
<1>17. /\ t2 \in Seq(S) /\ Len(t2) = 2 + lp /\ Inside(t2, 0, <<method>>) /\ Inside(t2, 1, path)
       /\ Inside(t2, 1 + lp, <<VERSION>>)
  <2>1. 0 \in Nat /\ 1 \in Nat /\ 1 + lp \in Nat /\ (1 + lp) + 1 = 2 + lp
    OBVIOUS
  <2>2. /\ t2 \in Seq(S) /\ Len(t2) = (1 + lp) + 1 /\ Inside(t2, 1 + lp, <<VERSION>>)
        /\ \A q \in Seq(S) : \A k \in Nat : Inside(t1, k, q) => Inside(t2, k, q)
    <3>1. t1 \in Seq(S) /\ <<VERSION>> \in Seq(S)
      BY <1>9, <1>16
    <3>2. /\ t1 \o <<VERSION>> \in Seq(S) /\ Len(t1 \o <<VERSION>>) = Len(t1) + Len(<<VERSION>>)
          /\ Inside(t1 \o <<VERSION>>, Len(t1), <<VERSION>>)
          /\ \A q \in Seq(S) : \A k \in Nat : Inside(t1, k, q) => Inside(t1 \o <<VERSION>>, k, q)
      BY <3>1, Adds, Zenon
    <3> QED
      BY <1>9, <1>16, <1>12, <3>2
  <2> QED
    BY <1>8, <1>9, <1>16, <2>1, <2>2
<1>18. /\ t3 \in Seq(S) /\ Len(t3) = 2 + lp + lh /\ Inside(t3, 0, <<method>>) /\ Inside(t3, 1, path)
       /\ Inside(t3, 1 + lp, <<VERSION>>) /\ Inside(t3, 2 + lp, host)
  <2>1. 0 \in Nat /\ 1 \in Nat /\ 1 + lp \in Nat
    OBVIOUS
  <2>2. /\ t3 \in Seq(S) /\ Len(t3) = (2 + lp) + lh /\ Inside(t3, 2 + lp, host)
        /\ \A q \in Seq(S) : \A k \in Nat : Inside(t2, k, q) => Inside(t3, k, q)
    <3>1. t2 \in Seq(S) /\ host \in Seq(S)
      BY <1>8, <1>17
    <3>2. /\ t2 \o host \in Seq(S) /\ Len(t2 \o host) = Len(t2) + Len(host)
          /\ Inside(t2 \o host, Len(t2), host)
          /\ \A q \in Seq(S) : \A k \in Nat : Inside(t2, k, q) => Inside(t2 \o host, k, q)
      BY <3>1, Adds, Zenon
    <3> QED
      BY <1>8, <1>17, <1>2, <1>13, <3>2
  <2> QED
    BY <1>8, <1>9, <1>17, <2>1, <2>2
<1>19. /\ t4 \in Seq(S) /\ Len(t4) = 5 + lp + lh /\ Inside(t4, 0, <<method>>) /\ Inside(t4, 1, path)
       /\ Inside(t4, 1 + lp, <<VERSION>>) /\ Inside(t4, 2 + lp, host) /\ Inside(t4, 2 + lp + lh, three)
  <2>1. 0 \in Nat /\ 1 \in Nat /\ 1 + lp \in Nat /\ 2 + lp \in Nat /\ (2 + lp + lh) + 3 = 5 + lp + lh
    OBVIOUS
  <2>2. /\ t4 \in Seq(S) /\ Len(t4) = (2 + lp + lh) + 3 /\ Inside(t4, 2 + lp + lh, three)
        /\ \A q \in Seq(S) : \A k \in Nat : Inside(t3, k, q) => Inside(t4, k, q)
    <3>1. t3 \in Seq(S) /\ three \in Seq(S)
      BY <1>10, <1>18
    <3>2. /\ t3 \o three \in Seq(S) /\ Len(t3 \o three) = Len(t3) + Len(three)
          /\ Inside(t3 \o three, Len(t3), three)
          /\ \A q \in Seq(S) : \A k \in Nat : Inside(t3, k, q) => Inside(t3 \o three, k, q)
      BY <3>1, Adds, Zenon
    <3> QED
      BY <1>10, <1>18, <1>14, <3>2
  <2> QED
    BY <1>8, <1>9, <1>18, <2>1, <2>2
<1>20. /\ text \in Seq(S) /\ Len(text) = 5 + lp + lh + lc /\ Inside(text, 0, <<method>>) /\ Inside(text, 1, path)
       /\ Inside(text, 1 + lp, <<VERSION>>) /\ Inside(text, 2 + lp, host) /\ Inside(text, 2 + lp + lh, three)
       /\ Inside(text, 5 + lp + lh, content)
  <2>1. 0 \in Nat /\ 1 \in Nat /\ 1 + lp \in Nat /\ 2 + lp \in Nat /\ 2 + lp + lh \in Nat
    OBVIOUS
  <2>2. /\ text \in Seq(S) /\ Len(text) = (5 + lp + lh) + lc /\ Inside(text, 5 + lp + lh, content)
        /\ \A q \in Seq(S) : \A k \in Nat : Inside(t4, k, q) => Inside(text, k, q)
    <3>1. t4 \in Seq(S) /\ content \in Seq(S)
      BY <1>8, <1>19
    <3>2. /\ t4 \o content \in Seq(S) /\ Len(t4 \o content) = Len(t4) + Len(content)
          /\ Inside(t4 \o content, Len(t4), content)
          /\ \A q \in Seq(S) : \A k \in Nat : Inside(t4, k, q) => Inside(t4 \o content, k, q)
      BY <3>1, Adds, Zenon
    <3> QED
      BY <1>8, <1>19, <1>3, <1>15, <3>2
  <2> QED
    BY <1>8, <1>9, <1>10, <1>19, <2>1, <2>2
<1>21. FormatBuffer(method, path, host, content) = text
  <2> DEFINE cut(x) == SubSeq(x, 1, IF Len(x) < RequestLen THEN Len(x) ELSE RequestLen - 1)
             whole(body) == <<method>> \o path \o <<VERSION>> \o host \o <<LENGTH, ToString(Len(body)), END>> \o body
  <2>1. FormatBuffer(method, path, host, content) = Only({cut(x) : x \in {whole(body) : body \in {content}}})
    BY DEF FormatBuffer
  <2>2. whole(content) = text
    BY <1>3, <1>4, <1>6, <1>11, <1>12, <1>13, <1>14, <1>15, Zenon
  <2> HIDE DEF cut, whole
  <2>3. {cut(x) : x \in {whole(body) : body \in {content}}} = {cut(text)}
    BY <2>2
  <2>4. Only({cut(text)}) = cut(text)
    BY DEF Only
  <2>5. Len(text) < RequestLen
    BY <1>1, <1>2, <1>3, <1>20, HttpRequestAssumption
  <2>6. cut(text) = SubSeq(text, 1, Len(text))
    BY <2>5 DEF cut
  <2>7. SubSeq(text, 1, Len(text)) = text
    BY <1>20, SubSeqFull
  <2> QED
    BY <2>1, <2>3, <2>4, <2>6, <2>7
<1>22. text[1] = method /\ text[2 + lp] = VERSION
  <2>1. 0 + 1 = 1 /\ 1 + lp \in Nat /\ (1 + lp) + 1 = 2 + lp
    OBVIOUS
  <2> QED
    BY <1>20, <2>1, InsideOne
<1>23. text[3 + lp + lh] = LENGTH /\ text[4 + lp + lh] = N /\ text[5 + lp + lh] = END
  <2>1. (2 + lp + lh) + 1 = 3 + lp + lh /\ (2 + lp + lh) + 2 = 4 + lp + lh /\ (2 + lp + lh) + 3 = 5 + lp + lh
    OBVIOUS
  <2>2. 1 \in 1..3 /\ 2 \in 1..3 /\ 3 \in 1..3
    OBVIOUS
  <2> QED
    BY <1>10, <1>20, <2>1, <2>2 DEF Inside
<1>24. ToString(lc) # END
  BY <1>3, <1>1, <1>2, HttpRequestAssumption
<1>25. method \notin {VERSION, LENGTH, END}
  BY DEF Characters
<1>26. \A i \in 2..(1 + lp) : text[i] \notin {VERSION, LENGTH, END}
  BY <1>1, <1>20, Others
<1>27. \A i \in (3 + lp)..(2 + lp + lh) : text[i] \notin {VERSION, LENGTH, END}
  <2>1. \A i \in ((2 + lp) + 1)..((2 + lp) + Len(host)) : text[i] \notin {VERSION, LENGTH, END}
    BY <1>20, Others
  <2>2. (2 + lp) + 1 = 3 + lp /\ (2 + lp) + Len(host) = 2 + lp + lh
    BY <1>2
  <2> QED
    BY <2>1, <2>2, Zenon
<1>28. ServerReads(text) = [whole |-> TRUE, method |-> method, path |-> path, host |-> host, body |-> content]
  <2>1. text \in Seq(S) /\ path \in Seq(S) /\ host \in Seq(S) /\ content \in Seq(S)
    BY <1>8, <1>20
  <2>2. Inside(text, 1, path) /\ Inside(text, 2 + lp, host) /\ Inside(text, 5 + lp + lh, content)
    BY <1>20
  <2>3. Len(text) = 5 + lp + lh + lc
    BY <1>20
  <2>4. HasParts(text, method, path, host, content, lp, lh, lc)
    BY <1>1, <1>2, <1>3, <1>4, <1>22, <1>23, <1>24, <1>25, <1>26, <1>27, <2>2, <2>3 DEF HasParts
  <2> QED
    BY <2>1, <2>4, PartsRead
<1> QED
  BY <1>21, <1>28

LEMMA Spelling ==
  /\ "h" \in Letters /\ "t" \in Letters /\ "p" \in Letters /\ "s" \in Letters /\ ":" \in Letters /\ "/" \in Letters
  /\ <<"h", "t", "t", "p">> \in Seq(Letters) /\ <<"s">> \in Seq(Letters) /\ <<":", "/", "/">> \in Seq(Letters)
<1>1. "h" \in Letters /\ "t" \in Letters /\ "p" \in Letters /\ "s" \in Letters /\ ":" \in Letters /\ "/" \in Letters
  BY DEF Letters, Literals
<1> QED
  BY <1>1

\* A url and where its parts begin.
HasUrl(url, u, start, stop, after) ==
  /\ Len(url) > 10 /\ Len(url) + 1 = after + Len(u.path)
  /\ IF u.secured THEN start = 9 ELSE start = 8
  /\ stop = start + Len(u.host)
  /\ IF u.port = <<>> THEN after = stop ELSE after = stop + 1 + Len(u.port)
  /\ Inside(url, 0, <<"h", "t", "t", "p">>) /\ (url[5] = "s" <=> u.secured)
  /\ Inside(url, start - 4, <<":", "/", "/">>)
  /\ Inside(url, start - 1, u.host)
  /\ (u.port # <<>> => url[stop] = ":" /\ Inside(url, stop, u.port))
  /\ Inside(url, after - 1, u.path)

\* What tc_iot_url_parse makes of the url the service spells.
Parts(u) == [ok |-> TRUE, secured |-> u.secured, host |-> u.host, path |-> u.path, port |-> PortOf(u)]

LEMMA PortWidth == ASSUME NEW x \in 0..(2^16 - 1) PROVE x % 2^16 = x
  OBVIOUS

LEMMA UrlType ==
  ASSUME NEW u \in Urls
  PROVE  /\ u.host \in Seq(Characters) /\ u.port \in Seq(Characters) /\ u.path \in Seq(Characters)
         /\ u.host \in Seq(Letters) /\ u.port \in Seq(Letters) /\ u.path \in Seq(Letters)
         /\ u.secured \in BOOLEAN /\ Len(u.path) >= 1 /\ u.path[1] = "/"
<1>1. u.host \in Seq(Characters) /\ u.port \in Seq(Characters) /\ u.path \in Seq(Characters)
  <2> DEFINE T == STRING \ {"NUL", VERSION, LENGTH, END}
  <2>1. u.host \in Seq(T) /\ u.port \in Seq(T) /\ u.path \in Seq(T)
    BY HttpRequestAssumption DEF IsText
  <2>2. T \subseteq Characters
    BY DEF Characters
  <2> HIDE DEF T
  <2> QED
    BY <2>1, <2>2, SeqMonotonic
<1>2. Characters \subseteq Letters
  BY DEF Characters, Letters
<1>3. u.host \in Seq(Letters) /\ u.port \in Seq(Letters) /\ u.path \in Seq(Letters)
  BY <1>1, <1>2, SeqMonotonic
<1>4. u.secured \in BOOLEAN /\ u.path # <<>> /\ u.path[1] = "/"
  BY HttpRequestAssumption
<1>5. Len(u.path) >= 1
  <2> PICK p : p = u.path
    OBVIOUS
  <2>1. p \in Seq(Letters) /\ p # <<>>
    BY <1>3, <1>4
  <2>2. Len(p) >= 1
    BY <2>1
  <2> QED
    BY <2>2
<1> QED
  BY <1>1, <1>3, <1>4, <1>5

LEMMA UrlParts ==
  ASSUME NEW u \in Urls, NEW url \in Seq(Letters), NEW start \in Nat, NEW stop \in Nat, NEW after \in Nat,
         HasUrl(url, u, start, stop, after)
  PROVE  UrlParse(url) = Parts(u)
<1> DEFINE stops1 == {":", "/"}
           stops2 == {url[i] : i \in DOMAIN url} \ DOMAIN Digit
           secured == Len(url) > 4 /\ url[5] = "s"
           split == IF secured THEN 6 ELSE 5
           from(i, stops) == CHOOSE j \in i..(Len(url) + 1) :
                          /\ j = Len(url) + 1 \/ url[j] \in stops
                          /\ \A k \in i..(j - 1) : url[k] \notin stops
           ported == stop <= Len(url) /\ url[stop] = ":"
<1>0. PICK h, q, p, lh, lq, lp : /\ h = u.host /\ q = u.port /\ p = u.path /\ lh = Len(h) /\ lq = Len(q) /\ lp = Len(p)
  OBVIOUS
<1>1. /\ h \in Seq(Letters) /\ q \in Seq(Letters) /\ p \in Seq(Letters) /\ u.secured \in BOOLEAN
      /\ lh \in Nat /\ lq \in Nat /\ lp \in Nat /\ lp >= 1 /\ p[1] = "/"
  BY <1>0, UrlType
<1>2. /\ Len(url) > 10 /\ Len(url) \in Nat /\ Len(url) + 1 = after + lp /\ stop = start + lh
      /\ (u.secured => start = 9) /\ (~u.secured => start = 8)
      /\ (q = <<>> => after = stop) /\ (q # <<>> => after = stop + 1 + lq)
  <2>1. /\ Len(url) > 10 /\ Len(url) + 1 = after + Len(p) /\ stop = start + Len(h)
        /\ IF u.secured THEN start = 9 ELSE start = 8
        /\ IF q = <<>> THEN after = stop ELSE after = stop + 1 + Len(q)
    BY <1>0, Zenon DEF HasUrl
  <2>2. Len(url) \in Nat
    OBVIOUS
  <2> QED
    BY <2>1, <2>2, <1>0, Zenon
<1>3. secured = u.secured
  <2>1. Len(url) > 4 /\ (url[5] = "s" <=> u.secured)
    BY <1>2 DEF HasUrl
  <2> QED
    BY <1>1, <2>1
<1>4. split + 3 = start /\ start - 4 = split - 1 /\ start - 4 \in Nat /\ start - 1 \in Nat /\ after - 1 \in Nat
  <2> HIDE DEF secured
  <2>1. CASE u.secured
    BY <1>1, <1>2, <1>3, <2>1
  <2>2. CASE ~u.secured
    BY <1>1, <1>2, <1>3, <2>2
  <2> QED
    BY <2>1, <2>2
<1>a. start <= stop /\ stop <= after
  BY <1>1, <1>2
<1> HIDE DEF secured, split
<1>5. url[after] = "/" /\ after <= Len(url) /\ stop <= Len(url)
  <2>1. after <= Len(url) /\ stop <= Len(url)
    BY <1>1, <1>2
  <2>2. Inside(url, after - 1, p)
    BY <1>0 DEF HasUrl
  <2>3. 1 \in 1..lp /\ (after - 1) + 1 = after
    BY <1>1
  <2> QED
    BY <2>1, <2>2, <2>3, <1>0, <1>1 DEF Inside
<1>6. \A i \in start..(stop - 1) : url[i] \notin stops1
  <2> SUFFICES ASSUME NEW i \in start..(stop - 1) PROVE url[i] \notin stops1
    OBVIOUS
  <2>1. i - start + 1 \in 1..lh /\ (start - 1) + (i - start + 1) = i
    BY <1>1, <1>2
  <2>2. Inside(url, start - 1, h)
    BY <1>0 DEF HasUrl
  <2>3. url[i] = h[i - start + 1]
    BY <1>0, <2>1, <2>2 DEF Inside
  <2>4. i - start + 1 \in DOMAIN h
    BY <1>0, <1>1, <2>1
  <2> QED
    BY <1>0, <2>3, <2>4, HttpRequestAssumption
<1>7. IF q = <<>> THEN url[stop] = "/" ELSE url[stop] = ":"
  BY <1>0, <1>2, <1>5 DEF HasUrl
<1>8. from(start, stops1) = stop
  <2>1. Place(url, stops1, start, stop)
    BY <1>1, <1>2, <1>5, <1>6, <1>7 DEF Place
  <2> QED
    BY <2>1, PlaceIs
<1>9. ported = (q # <<>>)
  BY <1>5, <1>7
<1>10. "/" \notin DOMAIN Digit /\ url[after] \in stops2
  <2>1. DOMAIN Digit = {"0", "1", "2", "3", "4", "5", "6", "7", "8", "9"}
    BY DEF Digit
  <2>2. after \in DOMAIN url
    BY <1>1, <1>2, <1>5
  <2> QED
    BY <1>5, <2>1, <2>2
<1>11. q # <<>> => from(stop + 1, stops2) = after
  <2> SUFFICES ASSUME q # <<>> PROVE from(stop + 1, stops2) = after
    OBVIOUS
  <2>1. \A i \in (stop + 1)..(after - 1) : url[i] \notin stops2
    <3> SUFFICES ASSUME NEW i \in (stop + 1)..(after - 1) PROVE url[i] \in DOMAIN Digit
      OBVIOUS
    <3>1. i - stop \in 1..lq /\ stop + (i - stop) = i
      BY <1>1, <1>2
    <3>2. Inside(url, stop, q)
      BY <1>0 DEF HasUrl
    <3>3. url[i] = q[i - stop]
      BY <1>0, <3>1, <3>2 DEF Inside
    <3>4. i - stop \in DOMAIN q
      BY <1>0, <1>1, <3>1
    <3> QED
      BY <1>0, <3>3, <3>4, HttpRequestAssumption
  <2>2. stop + 1 \in Nat /\ stop + 1 <= after /\ after \in 1..(Len(url) + 1)
    BY <1>1, <1>2, <1>5
  <2> HIDE DEF stops2
  <2>3. Place(url, stops2, stop + 1, after)
    BY <1>10, <2>1, <2>2 DEF Place
  <2> QED
    BY <2>2, <2>3, PlaceIs
<1> DEFINE aft == IF ported THEN from(stop + 1, stops2) ELSE stop
<1>12. aft = after
  <2> HIDE DEF ported, from, stops2
  <2>1. CASE q = <<>>
    BY <1>2, <1>9, <2>1
  <2>2. CASE q # <<>>
    BY <1>9, <1>11, <2>2
  <2> QED
    BY <2>1, <2>2
<1>13. SubSeq(url, 1, 4) = <<"h", "t", "t", "p">>
  <2> PICK t : t = <<"h", "t", "t", "p">>
    OBVIOUS
  <2>0. t \in Seq(Letters) /\ Len(t) = 4
    BY Spelling
  <2>1. t \in Seq(Letters) /\ Len(t) = 4 /\ Inside(url, 0, t) /\ 0 \in Nat /\ 0 + 1 = 1 /\ 0 + 4 = 4
    BY <2>0 DEF HasUrl
  <2>2. SubSeq(url, 0 + 1, 0 + Len(t)) = t
    BY <2>1, Whole
  <2> QED
    BY <2>1, <2>2
<1>14. SubSeq(url, split, start - 1) = <<":", "/", "/">>
  <2> PICK t : t = <<":", "/", "/">>
    OBVIOUS
  <2>0. t \in Seq(Letters) /\ Len(t) = 3
    BY Spelling
  <2>1. t \in Seq(Letters) /\ Len(t) = 3 /\ Inside(url, start - 4, t)
    BY <2>0 DEF HasUrl
  <2>2. start - 4 \in Nat /\ (start - 4) + 1 = split /\ (start - 4) + 3 = start - 1
    <3>1. start - 4 = split - 1 /\ start - 4 \in Nat /\ split + 3 = start /\ start \in Nat
      BY <1>4
    <3>2. split \in Int
      BY DEF split
    <3> QED
      BY <3>1, <3>2
  <2>3. SubSeq(url, (start - 4) + 1, (start - 4) + Len(t)) = t
    BY <2>1, <2>2, Whole
  <2> QED
    BY <2>1, <2>2, <2>3
<1>15. SubSeq(url, start, stop - 1) = h
  <2>1. Inside(url, start - 1, h) /\ start - 1 \in Nat /\ (start - 1) + 1 = start /\ (start - 1) + Len(h) = stop - 1
    BY <1>0, <1>1, <1>2 DEF HasUrl
  <2>2. SubSeq(url, (start - 1) + 1, (start - 1) + Len(h)) = h
    BY <1>1, <2>1, Whole
  <2> QED
    BY <2>1, <2>2
<1>16. SubSeq(url, after, Len(url)) = p
  <2>0. Inside(url, after - 1, p)
    BY <1>0 DEF HasUrl
  <2>1. after - 1 \in Nat /\ (after - 1) + 1 = after /\ (after - 1) + Len(p) = Len(url)
    BY <1>0, <1>1, <1>2, <1>4
  <2>2. SubSeq(url, (after - 1) + 1, (after - 1) + Len(p)) = p
    BY <1>1, <2>0, <2>1, Whole
  <2> QED
    BY <2>1, <2>2
<1>17. q # <<>> => SubSeq(url, stop + 1, after - 1) = q
  <2> SUFFICES ASSUME q # <<>> PROVE SubSeq(url, stop + 1, after - 1) = q
    OBVIOUS
  <2>0. Inside(url, stop, q)
    BY <1>0 DEF HasUrl
  <2>1. stop + Len(q) = after - 1
    <3>1. after = stop + 1 + lq /\ lq = Len(q) /\ lq \in Nat
      BY <1>0, <1>1, <1>2
    <3> QED
      BY <3>1
  <2>2. SubSeq(url, stop + 1, stop + Len(q)) = q
    BY <1>1, <2>0, Whole
  <2> QED
    BY <2>1, <2>2
<1> DEFINE port == IF ported THEN Decimal(SubSeq(url, stop + 1, aft - 1)) % 2^16
                   ELSE IF secured THEN HTTPS_DEFAULT_PORT ELSE HTTP_DEFAULT_PORT
<1>18. port = PortOf(u)
  <2> HIDE DEF ported, aft
  <2>1. CASE q = <<>>
    BY <1>0, <1>3, <1>9, <2>1 DEF PortOf
  <2>2. CASE q # <<>>
    <3>1. port = Decimal(q) % 2^16 /\ PortOf(u) = Decimal(q)
      BY <1>0, <1>9, <1>12, <1>17, <2>2 DEF PortOf
    <3>2. Decimal(q) \in 0..(2^16 - 1)
      BY <1>0, HttpRequestAssumption
    <3> QED
      BY <3>1, <3>2, PortWidth
  <2> QED
    BY <2>1, <2>2
<1> DEFINE start0 == split + 3
           stop0 == from(start0, {":", "/"})
           ported0 == stop0 <= Len(url) /\ url[stop0] = ":"
           after0 == IF ported0 THEN from(stop0 + 1, stops2) ELSE stop0
<1>19. UrlParse(url) =
         [ok |-> /\ Len(url) > URL_LEAST_LEN
                 /\ SubSeq(url, 1, 4) = <<"h", "t", "t", "p">> /\ SubSeq(url, split, start0 - 1) = <<":", "/", "/">>
                 /\ ported0 /\ after0 <= Len(url) => url[after0] = "/",
          secured |-> secured, host |-> SubSeq(url, start0, stop0 - 1), path |-> SubSeq(url, after0, Len(url)),
          port |-> IF ported0 THEN Decimal(SubSeq(url, stop0 + 1, after0 - 1)) % 2^16
                   ELSE IF secured THEN HTTPS_DEFAULT_PORT ELSE HTTP_DEFAULT_PORT]
  BY Zenon DEF UrlParse, split, secured
<1>b. start0 = start
  BY <1>4
<1> HIDE DEF from, start0
<1>c. stop0 = stop
  BY <1>b, <1>8
<1> HIDE DEF stop0
<1>d. ported0 = ported
  BY <1>c
<1> HIDE DEF ported, ported0
<1>e. after0 = after
  BY <1>12, <1>c, <1>d
<1> HIDE DEF after0
<1>f. (IF ported0 THEN Decimal(SubSeq(url, stop0 + 1, after0 - 1)) % 2^16
       ELSE IF secured THEN HTTPS_DEFAULT_PORT ELSE HTTP_DEFAULT_PORT) = port
  BY <1>12, <1>c, <1>d, <1>e
<1>20. Len(url) > URL_LEAST_LEN /\ url[after] = "/"
  BY <1>2, <1>5 DEF URL_LEAST_LEN
<1> HIDE DEF aft, port
<1> QED
  BY <1>0, <1>3, <1>13, <1>14, <1>15, <1>16, <1>18, <1>19, <1>20, <1>b, <1>c, <1>e, <1>f, Zenon DEF Parts

LEMMA SpelledParses ==
  ASSUME NEW u \in Urls
  PROVE  UrlParse(Spelled(u)) = Parts(u)
<1>1. PICK h, q, p : h = u.host /\ q = u.port /\ p = u.path
  OBVIOUS
<1>2. /\ h \in Seq(Letters) /\ q \in Seq(Letters) /\ p \in Seq(Letters) /\ u.secured \in BOOLEAN
      /\ Len(p) >= 1 /\ p[1] = "/"
  BY <1>1, UrlType
<1>3. PICK a : a = <<"h", "t", "t", "p">>
  OBVIOUS
<1>4. PICK s : s = IF u.secured THEN <<"s">> ELSE <<>>
  OBVIOUS
<1>5. PICK c : c = <<":", "/", "/">>
  OBVIOUS
<1>6. PICK o : o = <<":">> \o q
  OBVIOUS
<1>7. PICK w : w = IF q = <<>> THEN <<>> ELSE o
  OBVIOUS
<1>8. PICK t1 : t1 = a \o s
  OBVIOUS
<1>9. PICK t2 : t2 = t1 \o c
  OBVIOUS
<1>10. PICK t3 : t3 = t2 \o h
  OBVIOUS
<1>11. PICK t4 : t4 = t3 \o w
  OBVIOUS
<1>12. PICK url : url = t4 \o p
  OBVIOUS
<1>13. PICK lh \in Nat : lh = Len(h)
  BY <1>2
<1>14. PICK lp \in Nat : lp = Len(p)
  BY <1>2
<1>15. PICK lq \in Nat : lq = Len(q)
  BY <1>2
<1>16. PICK ls \in Nat : ls = IF u.secured THEN 1 ELSE 0
  OBVIOUS
<1>17. PICK lw \in Nat : lw = IF q = <<>> THEN 0 ELSE 1 + lq
  OBVIOUS
<1>18. /\ a \in Seq(Letters) /\ s \in Seq(Letters) /\ c \in Seq(Letters) /\ Len(a) = 4 /\ Len(s) = ls /\ Len(c) = 3
       /\ c[1] = ":" /\ (u.secured => s[1] = "s")
  BY <1>2, <1>3, <1>4, <1>5, <1>16, Spelling
<1>19. /\ o \in Seq(Letters) /\ Len(o) = 1 + lq /\ Inside(o, 0, <<":">>) /\ Inside(o, 1, q)
  <2>1. <<":">> \in Seq(Letters) /\ Len(<<":">>) = 1
    BY DEF Letters, Literals
  <2>2. Inside(<<":">>, 0, <<":">>)
    BY <2>1, InsideItself
  <2> QED
    BY <1>2, <1>6, <1>15, <2>1, <2>2, Adds
<1>20. w \in Seq(Letters) /\ Len(w) = lw
  <2>1. CASE q = <<>>
    BY <2>1, <1>7, <1>17
  <2>2. CASE q # <<>>
    BY <2>2, <1>7, <1>17, <1>19
  <2> QED
    BY <2>1, <2>2
<1>21. t1 \in Seq(Letters) /\ Len(t1) = 4 + ls /\ Inside(t1, 0, a) /\ Inside(t1, 4, s)
  <2>1. Inside(a, 0, a)
    BY <1>18, InsideItself
  <2> QED
    BY <2>1, <1>8, <1>18, Adds
<1>22. /\ t2 \in Seq(Letters) /\ Len(t2) = 7 + ls /\ Inside(t2, 0, a) /\ Inside(t2, 4, s) /\ Inside(t2, 4 + ls, c)
  <2>1. 0 \in Nat /\ 4 \in Nat
    OBVIOUS
  <2>2. /\ t1 \o c \in Seq(Letters) /\ Len(t1 \o c) = Len(t1) + Len(c)
        /\ Inside(t1 \o c, Len(t1), c)
        /\ \A x \in Seq(Letters) : \A k \in Nat : Inside(t1, k, x) => Inside(t1 \o c, k, x)
    BY <1>18, <1>21, Adds, Zenon
  <2> QED
    BY <2>1, <2>2, <1>9, <1>18, <1>21
<1>23. /\ t3 \in Seq(Letters) /\ Len(t3) = 7 + ls + lh /\ Inside(t3, 0, a) /\ Inside(t3, 4, s) /\ Inside(t3, 4 + ls, c)
       /\ Inside(t3, 7 + ls, h)
  <2>1. 0 \in Nat /\ 4 \in Nat /\ 4 + ls \in Nat
    OBVIOUS
  <2>2. /\ t2 \o h \in Seq(Letters) /\ Len(t2 \o h) = Len(t2) + Len(h)
        /\ Inside(t2 \o h, Len(t2), h)
        /\ \A x \in Seq(Letters) : \A k \in Nat : Inside(t2, k, x) => Inside(t2 \o h, k, x)
    BY <1>2, <1>22, Adds, Zenon
  <2> QED
    BY <2>1, <2>2, <1>10, <1>13, <1>18, <1>22
<1>24. /\ t4 \in Seq(Letters) /\ Len(t4) = 7 + ls + lh + lw /\ Inside(t4, 0, a) /\ Inside(t4, 4, s)
       /\ Inside(t4, 4 + ls, c) /\ Inside(t4, 7 + ls, h) /\ Inside(t4, 7 + ls + lh, w)
  <2>1. 0 \in Nat /\ 4 \in Nat /\ 4 + ls \in Nat /\ 7 + ls \in Nat
    OBVIOUS
  <2>2. /\ t3 \o w \in Seq(Letters) /\ Len(t3 \o w) = Len(t3) + Len(w)
        /\ Inside(t3 \o w, Len(t3), w)
        /\ \A x \in Seq(Letters) : \A k \in Nat : Inside(t3, k, x) => Inside(t3 \o w, k, x)
    BY <1>20, <1>23, Adds, Zenon
  <2> QED
    BY <2>1, <2>2, <1>2, <1>11, <1>18, <1>20, <1>23
<1>25. /\ url \in Seq(Letters) /\ Len(url) = 7 + ls + lh + lw + lp /\ Inside(url, 0, a) /\ Inside(url, 4, s)
       /\ Inside(url, 4 + ls, c) /\ Inside(url, 7 + ls, h) /\ Inside(url, 7 + ls + lh, w)
       /\ Inside(url, 7 + ls + lh + lw, p)
  <2>1. 0 \in Nat /\ 4 \in Nat /\ 4 + ls \in Nat /\ 7 + ls \in Nat /\ 7 + ls + lh \in Nat
    OBVIOUS
  <2>2. /\ t4 \o p \in Seq(Letters) /\ Len(t4 \o p) = Len(t4) + Len(p)
        /\ Inside(t4 \o p, Len(t4), p)
        /\ \A x \in Seq(Letters) : \A k \in Nat : Inside(t4, k, x) => Inside(t4 \o p, k, x)
    BY <1>2, <1>24, Adds, Zenon
  <2> QED
    BY <2>1, <2>2, <1>2, <1>12, <1>14, <1>18, <1>20, <1>24
<1>26. Spelled(u) = url
  <2>1. Spelled(u) = a \o s \o c \o h \o w \o p
    BY <1>1, <1>3, <1>4, <1>5, <1>6, <1>7, Zenon DEF Spelled
  <2> QED
    BY <2>1, <1>8, <1>9, <1>10, <1>11, <1>12, Zenon
<1>27. PICK start \in Nat : start = 8 + ls
  OBVIOUS
<1>28. PICK stop \in Nat : stop = 8 + ls + lh
  OBVIOUS
<1>29. PICK after \in Nat : after = 8 + ls + lh + lw
  OBVIOUS
<1>30. url[5] = "s" <=> u.secured
  <2>1. CASE u.secured
    <3>1. Len(s) = 1 /\ s[1] = "s" /\ 4 + 1 = 5 /\ 1 \in 1..1
      BY <1>16, <1>18, <2>1
    <3> QED
      BY <1>25, <2>1, <3>1 DEF Inside
  <2>2. CASE ~u.secured
    <3>1. Inside(url, 4, c) /\ 1 \in 1..Len(c) /\ 4 + 1 = 5
      BY <1>16, <1>18, <1>25, <2>2
    <3> QED
      BY <1>18, <2>2, <3>1 DEF Inside
  <2> QED
    BY <2>1, <2>2
<1>31. ASSUME q # <<>> PROVE url[stop] = ":" /\ Inside(url, stop, q)
  <2>1. w = o /\ lw = 1 + lq
    BY <1>7, <1>17, <1>31
  <2> PICK k \in Nat : k = 7 + ls + lh
    OBVIOUS
  <2>2. Inside(url, k, o) /\ stop = k + 1
    BY <1>25, <1>28, <2>1
  <2>3. k + Len(o) <= Len(url) /\ \A i \in 1..Len(o) : url[k + i] = o[i]
    BY <2>2 DEF Inside
  <2>4. o[1] = ":" /\ \A i \in 1..lq : o[1 + i] = q[i]
    BY <1>15, <1>19, InsideOne DEF Inside
  <2>5. 1 \in 1..Len(o) /\ url[k + 1] = ":"
    BY <1>19, <2>3, <2>4
  <2>6. \A i \in 1..lq : url[stop + i] = q[i]
    <3> SUFFICES ASSUME NEW i \in 1..lq PROVE url[stop + i] = q[i]
      OBVIOUS
    <3>1. 1 + i \in 1..Len(o) /\ stop + i = k + (1 + i)
      BY <1>19, <2>2
    <3> QED
      BY <2>3, <2>4, <3>1
  <2>7. stop + lq <= Len(url)
    BY <1>19, <2>2, <2>3
  <2> QED
    BY <1>15, <2>2, <2>5, <2>6, <2>7 DEF Inside
<1>32. HasUrl(url, u, start, stop, after)
  <2>1. Len(url) > 10
    BY <1>26, HttpRequestAssumption DEF URL_LEAST_LEN
  <2>2. start - 4 = 4 + ls /\ start - 1 = 7 + ls /\ after - 1 = 7 + ls + lh + lw /\ Len(url) + 1 = after + lp
        /\ (u.secured => start = 9) /\ (~u.secured => start = 8) /\ stop = start + lh
        /\ (q = <<>> => after = stop) /\ (q # <<>> => after = stop + 1 + lq)
    BY <1>2, <1>16, <1>17, <1>25, <1>27, <1>28, <1>29
  <2> QED
    BY <2>1, <2>2, <1>1, <1>3, <1>5, <1>13, <1>14, <1>15, <1>25, <1>30, <1>31 DEF HasUrl
<1> QED
  BY <1>25, <1>26, <1>32, UrlParts

\* Urls are those that are not refused.
LEMMA NoneRefused == \A u \in Urls : ~Refused(u)
  BY SpelledParses DEF Refused, Parts

-----------------------------------------------------------------------------
(* The encoding of a text, character by character.                         *)

LEMMA CharactersAre ==
  /\ Literals \subseteq Characters /\ Characters \subseteq Letters /\ "NUL" \in Letters /\ "?" \in Letters
  /\ "NUL" \notin Characters
<1>1. \A c \in Literals : c \notin {"NUL", VERSION, LENGTH, END}
  BY DEF Literals, VERSION, LENGTH, END, EXPIRE, NONCE, TIMESTAMP
<1> QED
  BY <1>1 DEF Characters, Letters

\* A character takes at most three.
LEMMA EncodedIs ==
  ASSUME NEW S, Literals \subseteq S, NEW c \in S
  PROVE  Encoded(c) \in Seq(S) /\ Len(Encoded(c)) \in 1..3
<1>1. DOMAIN Escapes = {"%", "&", "+", "/", "=", "~"}
  BY DEF Escapes
<1>2. /\ "%" \in S /\ "2" \in S /\ "3" \in S /\ "5" \in S /\ "6" \in S /\ "7" \in S /\ "B" \in S /\ "D" \in S
      /\ "E" \in S /\ "F" \in S /\ "+" \in S
  BY DEF Literals
<1>3. CASE c \in DOMAIN Escapes
  <2>1. Encoded(c) = Escapes[c]
    BY <1>3 DEF Encoded
  <2>2. Escapes[c] \in {<<"%", "2", "5">>, <<"%", "2", "6">>, <<"%", "2", "B">>, <<"%", "2", "F">>,
                        <<"%", "3", "D">>, <<"%", "7", "E">>}
    BY <1>1, <1>3 DEF Escapes
  <2>3. ASSUME NEW a \in S, NEW b \in S, Encoded(c) = <<"%", a, b>>
        PROVE  Encoded(c) \in Seq(S) /\ Len(Encoded(c)) \in 1..3
    <3>1. <<"%", a, b>> \in Seq(S) /\ Len(<<"%", a, b>>) = 3
      BY <1>2
    <3> QED
      BY <2>3, <3>1
  <2>4. \/ Encoded(c) = <<"%", "2", "5">> \/ Encoded(c) = <<"%", "2", "6">> \/ Encoded(c) = <<"%", "2", "B">>
        \/ Encoded(c) = <<"%", "2", "F">> \/ Encoded(c) = <<"%", "3", "D">> \/ Encoded(c) = <<"%", "7", "E">>
    BY <2>1, <2>2, Zenon
  <2> QED
    BY <1>2, <2>3, <2>4, Zenon
<1>4. CASE c \notin DOMAIN Escapes /\ c = " "
  <2>1. Encoded(c) = <<"+">>
    BY <1>4 DEF Encoded
  <2>2. <<"+">> \in Seq(S) /\ Len(<<"+">>) = 1
    BY <1>2
  <2> QED
    BY <2>1, <2>2
<1>5. CASE c \notin DOMAIN Escapes /\ c # " "
  <2>1. Encoded(c) = <<c>>
    BY <1>5 DEF Encoded
  <2> QED
    BY <2>1
<1> QED
  BY <1>3, <1>4, <1>5

LEMMA AtMostThree ==
  ASSUME NEW m \in Nat, NEW n \in Nat, NEW k \in 1..3, m <= 3 * n
  PROVE  m + k <= 3 * (n + 1)
  OBVIOUS

\* A text and its encoding.
Codes == Seq(Characters) \X Seq(Characters)
Coding(R) ==
  /\ <<<<>>, <<>>>> \in R
  /\ \A t, s \in Seq(Characters) : <<t, s>> \in R => \A c \in Characters : <<t \o Encoded(c), s \o <<c>>>> \in R
Coded(t, s) == \A R \in SUBSET Codes : Coding(R) => <<t, s>> \in R

LEMMA Within ==
  ASSUME NEW S, NEW a \in Seq(S), NEW b \in Seq(S)
  PROVE  a \o b \in Seq(S) /\ Len(a \o b) = Len(a) + Len(b) /\ Len(a) \in Nat /\ Len(b) \in Nat
  BY ConcatProperties

LEMMA CodesAre ==
  ASSUME NEW t \in Seq(Characters), NEW s \in Seq(Characters), NEW c \in Characters
  PROVE  t \o Encoded(c) \in Seq(Characters) /\ s \o <<c>> \in Seq(Characters)
<1>1. Encoded(c) \in Seq(Characters)
  BY CharactersAre, EncodedIs
<1>2. <<c>> \in Seq(Characters)
  OBVIOUS
<1> QED
  BY <1>1, <1>2, Within

LEMMA CodedType ==
  ASSUME NEW t, NEW s, Coded(t, s)
  PROVE  t \in Seq(Characters) /\ s \in Seq(Characters) /\ Len(t) <= 3 * Len(s) /\ Len(t) \in Nat /\ Len(s) \in Nat
<1> DEFINE R == {p \in Codes : Len(p[1]) <= 3 * Len(p[2])}
<1>1. ASSUME NEW x, NEW y PROVE <<x, y>> \in R <=> x \in Seq(Characters) /\ y \in Seq(Characters) /\ Len(x) <= 3 * Len(y)
  BY DEF Codes
<1>2. <<<<>>, <<>>>> \in R
  <2>1. <<>> \in Seq(Characters) /\ Len(<<>>) = 0
    OBVIOUS
  <2>2. Len(<<>>) <= 3 * Len(<<>>)
    BY <2>1
  <2> HIDE DEF R
  <2> QED
    BY <1>1, <2>1, <2>2, Zenon
<1>3. R \in SUBSET Codes
  OBVIOUS
<1> HIDE DEF R
<1>4. ASSUME NEW x \in Seq(Characters), NEW y \in Seq(Characters), <<x, y>> \in R, NEW c \in Characters
      PROVE  <<x \o Encoded(c), y \o <<c>>>> \in R
  <2>1. Encoded(c) \in Seq(Characters) /\ Len(Encoded(c)) \in 1..3 /\ <<c>> \in Seq(Characters) /\ Len(<<c>>) = 1
    BY CharactersAre, EncodedIs
  <2>2. /\ x \o Encoded(c) \in Seq(Characters) /\ Len(x \o Encoded(c)) = Len(x) + Len(Encoded(c)) /\ Len(x) \in Nat
        /\ y \o <<c>> \in Seq(Characters) /\ Len(y \o <<c>>) = Len(y) + 1 /\ Len(y) \in Nat
    BY <2>1, Within
  <2>3. Len(x) <= 3 * Len(y)
    BY <1>1, <1>4
  <2>4. Len(x \o Encoded(c)) <= 3 * Len(y \o <<c>>)
    <3> PICK m : m = Len(x)
      OBVIOUS
    <3> PICK n : n = Len(y)
      OBVIOUS
    <3> PICK k : k = Len(Encoded(c))
      OBVIOUS
    <3>1. m \in Nat /\ n \in Nat /\ k \in 1..3 /\ m <= 3 * n
      BY <2>1, <2>2, <2>3
    <3>2. m + k <= 3 * (n + 1)
      BY <3>1, AtMostThree
    <3> QED
      BY <2>2, <3>2
  <2> QED
    BY <1>1, <2>2, <2>4
<1>5. <<t, s>> \in R
  BY <1>2, <1>3, <1>4 DEF Coded, Coding
<1> QED
  BY <1>1, <1>5

LEMMA CodedNothing == Coded(<<>>, <<>>)
  BY DEF Coded, Coding

LEMMA CodedMore ==
  ASSUME NEW t, NEW s, Coded(t, s), NEW c \in Characters
  PROVE  Coded(t \o Encoded(c), s \o <<c>>)
  BY CodedType DEF Coded, Coding

LEMMA Joined ==
  ASSUME NEW a \in Seq(Characters), NEW b \in Seq(Characters), NEW c \in Seq(Characters)
  PROVE  a \o (b \o c) = (a \o b) \o c
  BY ConcatAssociative

LEMMA CodedBoth ==
  ASSUME NEW t1, NEW s1, Coded(t1, s1), NEW t2, NEW s2, Coded(t2, s2)
  PROVE  Coded(t1 \o t2, s1 \o s2)
<1> DEFINE R == {p \in Codes : Coded(t1 \o p[1], s1 \o p[2])}
<1>0. t1 \in Seq(Characters) /\ s1 \in Seq(Characters)
  BY CodedType
<1>1. ASSUME NEW x, NEW y PROVE <<x, y>> \in R <=> x \in Seq(Characters) /\ y \in Seq(Characters) /\ Coded(t1 \o x, s1 \o y)
  BY DEF Codes
<1>3. R \in SUBSET Codes
  OBVIOUS
<1> HIDE DEF R
<1>2. <<<<>>, <<>>>> \in R
  <2>1. t1 \o <<>> = t1 /\ s1 \o <<>> = s1 /\ <<>> \in Seq(Characters)
    BY <1>0, ConcatEmptySeq
  <2> QED
    BY <1>1, <2>1
<1>4. ASSUME NEW x \in Seq(Characters), NEW y \in Seq(Characters), <<x, y>> \in R, NEW c \in Characters
      PROVE  <<x \o Encoded(c), y \o <<c>>>> \in R
  <2>1. Encoded(c) \in Seq(Characters) /\ <<c>> \in Seq(Characters)
    BY CharactersAre, EncodedIs
  <2>2. t1 \o (x \o Encoded(c)) = (t1 \o x) \o Encoded(c) /\ s1 \o (y \o <<c>>) = (s1 \o y) \o <<c>>
    <3> PICK e : e = Encoded(c)
      OBVIOUS
    <3> PICK o : o = <<c>>
      OBVIOUS
    <3>1. e \in Seq(Characters) /\ o \in Seq(Characters)
      BY <2>1
    <3>2. t1 \o (x \o e) = (t1 \o x) \o e
      BY <1>0, <3>1, Joined
    <3>3. s1 \o (y \o o) = (s1 \o y) \o o
      BY <1>0, <3>1, Joined
    <3> QED
      BY <3>2, <3>3, Zenon
  <2>3. Coded(t1 \o x, s1 \o y)
    BY <1>1, <1>4
  <2>4. Coded((t1 \o x) \o Encoded(c), (s1 \o y) \o <<c>>)
    BY <2>3, CodedMore
  <2>5. x \o Encoded(c) \in Seq(Characters) /\ y \o <<c>> \in Seq(Characters)
    BY CodesAre
  <2> QED
    BY <1>1, <2>2, <2>4, <2>5
<1>5. <<t2, s2>> \in R
  BY <1>2, <1>3, <1>4 DEF Coded, Coding
<1> QED
  BY <1>1, <1>5

\* A token of the form itself.
LEMMA CodedToken ==
  ASSUME NEW c \in Characters, c \notin DOMAIN Escapes, c # " "
  PROVE  Coded(<<c>>, <<c>>)
<1>1. Encoded(c) = <<c>>
  BY DEF Encoded
<1>2. Coded(<<>> \o <<c>>, <<>> \o <<c>>)
  BY <1>1, CodedNothing, CodedMore
<1>3. <<>> \o <<c>> = <<c>>
  <2>1. <<c>> \in Seq(Characters)
    BY OneFrame, Zenon
  <2> QED
    BY <2>1, ConcatEmptySeq, Zenon
<1> QED
  BY <1>2, <1>3

\* A text and the text without its last token.
LEMMA LastToken ==
  ASSUME NEW S, NEW s \in Seq(S), NEW i \in 1..Len(s)
  PROVE  /\ s[i] \in S /\ SubSeq(s, 1, i - 1) \in Seq(S) /\ SubSeq(s, 1, i) = SubSeq(s, 1, i - 1) \o <<s[i]>>
         /\ Len(SubSeq(s, 1, i - 1)) = i - 1
<1>1. Len(s) \in Nat /\ s[i] \in S
  OBVIOUS
<1>2. 1 \in 1..(Len(s) + 1) /\ i - 1 \in (1 - 1)..Len(s) /\ i \in (1 - 1)..Len(s) /\ (i - 1) - 1 + 1 = i - 1 /\ i - 1 + 1 = i
  BY <1>1
<1>3. PICK a : a = SubSeq(s, 1, i - 1)
  OBVIOUS
<1>4. PICK b : b = SubSeq(s, 1, i)
  OBVIOUS
<1>5. a \in Seq(S) /\ Len(a) = i - 1 /\ \A k \in 1..(i - 1) : a[k] = s[k]
  <2>1. \A k \in 1..(i - 1) : 1 + k - 1 = k
    OBVIOUS
  <2> QED
    BY <1>2, <1>3, <2>1, PartType
<1>6. b \in Seq(S) /\ Len(b) = i /\ \A k \in 1..i : b[k] = s[k]
  <2>1. \A k \in 1..i : 1 + k - 1 = k
    OBVIOUS
  <2> QED
    BY <1>2, <1>4, <2>1, PartType
<1>7. PICK t : t = <<s[i]>>
  OBVIOUS
<1>8. t \in Seq(S) /\ Len(t) = 1 /\ t[1] = s[i]
  BY <1>1, <1>7
<1>9. PICK c : c = a \o t
  OBVIOUS
<1>10. c \in Seq(S) /\ Len(c) = i /\ (\A k \in 1..(i - 1) : c[k] = s[k]) /\ c[i] = s[i]
  <2>1. /\ c \in Seq(S) /\ Len(c) = Len(a) + Len(t)
        /\ \A k \in 1..Len(a) : c[k] = a[k]
        /\ \A k \in 1..Len(t) : c[Len(a) + k] = t[k]
    <3>1. a \in Seq(S) /\ t \in Seq(S)
      BY <1>5, <1>8
    <3>2. /\ a \o t \in Seq(S) /\ Len(a \o t) = Len(a) + Len(t)
          /\ \A k \in 1..Len(a) : (a \o t)[k] = a[k]
          /\ \A k \in 1..Len(t) : (a \o t)[Len(a) + k] = t[k]
      BY <3>1, Behind
    <3> QED
      BY <3>2, <1>9, Zenon
  <2>2. (i - 1) + 1 = i /\ 1 \in 1..1
    OBVIOUS
  <2> QED
    BY <1>5, <1>8, <2>1, <2>2
<1>11. b = c
  <2>1. \A k \in 1..i : b[k] = c[k]
    BY <1>6, <1>10
  <2> QED
    BY <1>6, <1>10, <2>1, SeqEqual, Zenon
<1> QED
  BY <1>1, <1>3, <1>4, <1>5, <1>7, <1>9, <1>11

\* A text that has room for it is encoded.
LEMMA UrlEncodeIs ==
  ASSUME NEW input \in Seq(Characters), NEW max \in Int
  PROVE  /\ UrlEncode(input, max) \in Seq(Characters)
         /\ 3 * Len(input) <= max + 2 => Coded(UrlEncode(input, max), input)
<1> DEFINE n == Len(input)
           D == Seq(Characters)
           Pass(i, o) == IF Len(o) < max THEN o \o Encoded(input[i]) ELSE o
           Loop(g) == g = [i \in 0..n |-> IF i = 0 THEN <<>> ELSE Only({Pass(i, o) : o \in {g[i - 1]}})]
           out == CHOOSE g : Loop(g)
<1>1. n \in Nat
  OBVIOUS
<1>2. UrlEncode(input, max) = out[n]
  <2> DEFINE encode(in) ==
        LET f[i \in 0..Len(in)] ==
              IF i = 0 THEN <<>>
              ELSE Only({IF Len(o) < max THEN o \o Encoded(in[i]) ELSE o : o \in {f[i - 1]}})
        IN  f[Len(in)]
  <2>1. UrlEncode(input, max) = Only({encode(in) : in \in {input}})
    BY DEF UrlEncode
  <2>2. encode(input) = out[n]
    OBVIOUS
  <2> HIDE DEF encode, out, n
  <2>3. {encode(in) : in \in {input}} = {encode(input)}
    OBVIOUS
  <2> QED
    BY <2>1, <2>2, <2>3, OnlyOne
<1>3. ASSUME NEW i \in 1..n, NEW o \in D PROVE Pass(i, o) \in D
  <2>1. input[i] \in Characters
    OBVIOUS
  <2>2. o \o Encoded(input[i]) \in D
    BY <2>1, CodesAre
  <2> QED
    BY <2>2
<1> HIDE DEF Pass, D
<1>4. \A i, a : Only({Pass(i, o) : o \in {a}}) = Pass(i, a)
  <2> SUFFICES ASSUME NEW i, NEW a PROVE Only({Pass(i, o) : o \in {a}}) = Pass(i, a)
    OBVIOUS
  <2>1. {Pass(i, o) : o \in {a}} = {Pass(i, a)}
    OBVIOUS
  <2> QED
    BY <2>1, OnlyOne
<1>5. <<>> \in D
  BY DEF D
<1> HIDE DEF n
<1>6. \E g : Loop(g)
  <2> DEFINE step == [x \in Nat \X D |-> IF x[1] \in 1..n THEN Pass(x[1], x[2]) ELSE x[2]]
  <2>1. step \in [Nat \X D -> D]
    BY <1>3
  <2>2. PICK g \in [0..n -> D] : g[0] = <<>> /\ \A i \in 1..n : g[i] = step[<<i, g[i - 1]>>]
    <3> HIDE DEF step
    <3>1. Loops(D, <<>>, step, n)
      BY <1>1, <1>5, <2>1, LoopExists
    <3> QED
      BY <3>1 DEF Loops
  <2>3. ASSUME NEW i \in 1..n PROVE g[i] = Pass(i, g[i - 1])
    <3>1. i - 1 \in 0..n /\ i \in Nat
      BY <1>1
    <3>2. g[i - 1] \in D
      BY <2>2, <3>1
    <3>3. <<i, g[i - 1]>> \in Nat \X D
      BY <3>1, <3>2
    <3>4. g[i] = step[<<i, g[i - 1]>>]
      BY <2>2
    <3> QED
      BY <3>3, <3>4
  <2>4. Loop(g)
    <3>1. ASSUME NEW i \in 0..n PROVE g[i] = IF i = 0 THEN <<>> ELSE Only({Pass(i, o) : o \in {g[i - 1]}})
      BY <1>1, <1>4, <2>2, <2>3
    <3>2. g = [i \in 0..n |-> g[i]]
      BY <2>2
    <3> QED
      BY <3>1, <3>2
  <2> QED
    BY <2>4
<1>7. out = [i \in 0..n |-> IF i = 0 THEN <<>> ELSE Only({Pass(i, o) : o \in {out[i - 1]}})]
  BY <1>6
<1> HIDE DEF out
<1>8. out[0] = <<>> /\ \A i \in 1..n : out[i] = Pass(i, out[i - 1])
  <2>1. 0 \in 0..n /\ \A i \in 1..n : i \in 0..n /\ i # 0
    BY <1>1
  <2>2. ASSUME NEW i \in 1..n PROVE out[i] = Pass(i, out[i - 1])
    <3>1. out[i] = Only({Pass(i, o) : o \in {out[i - 1]}})
      BY <1>7, <2>1
    <3> QED
      BY <1>4, <3>1
  <2> QED
    BY <1>7, <2>1, <2>2
<1> DEFINE R == {x \in Nat \X D : 3 * n <= max + 2 => Coded(x[2], SubSeq(input, 1, x[1]))}
<1>9. ASSUME NEW i \in Nat, NEW o PROVE <<i, o>> \in R <=> o \in D /\ (3 * n <= max + 2 => Coded(o, SubSeq(input, 1, i)))
  OBVIOUS
<1> HIDE DEF R
<1>10. <<0, out[0]>> \in R
  <2>1. SubSeq(input, 1, 0) = <<>>
    OBVIOUS
  <2>2. Coded(out[0], SubSeq(input, 1, 0))
    BY <1>8, <2>1, CodedNothing
  <2> QED
    BY <1>5, <1>8, <1>9, <2>2
<1>11. ASSUME NEW i \in 1..n, <<i - 1, out[i - 1]>> \in R PROVE <<i, out[i]>> \in R
  <2> PICK o : o = out[i - 1]
    OBVIOUS
  <2>1. i \in Nat /\ i - 1 \in Nat /\ out[i] = Pass(i, o)
    BY <1>1, <1>8
  <2>2. o \in D /\ (3 * n <= max + 2 => Coded(o, SubSeq(input, 1, i - 1)))
    BY <1>9, <1>11, <2>1
  <2>3. Pass(i, o) \in D
    BY <1>3, <2>2
  <2>4. ASSUME 3 * n <= max + 2 PROVE Coded(Pass(i, o), SubSeq(input, 1, i))
    <3>1. i \in 1..Len(input)
      BY DEF n
    <3>2. /\ input[i] \in Characters /\ SubSeq(input, 1, i) = SubSeq(input, 1, i - 1) \o <<input[i]>>
          /\ Len(SubSeq(input, 1, i - 1)) = i - 1
      BY <3>1, LastToken
    <3>3. Coded(o, SubSeq(input, 1, i - 1))
      BY <2>2, <2>4
    <3>4. Len(o) \in Nat /\ Len(o) <= 3 * (i - 1)
      BY <3>2, <3>3, CodedType
    <3>5. Len(o) < max
      BY <1>1, <2>4, <3>4
    <3>6. Pass(i, o) = o \o Encoded(input[i])
      BY <3>5 DEF Pass
    <3> QED
      BY <3>2, <3>3, <3>6, CodedMore
  <2> QED
    BY <1>9, <2>1, <2>3, <2>4
<1>12. <<n, out[n]>> \in R
  <2>1. \A i \in 0..n : <<i, out[i]>> \in R
    BY <1>1, <1>10, <1>11, LoopKeeps
  <2>2. n \in 0..n
    BY <1>1
  <2> QED
    BY <2>1, <2>2
<1>13. SubSeq(input, 1, n) = input
  BY SubSeqFull DEF n
<1>14. out[n] \in D /\ (3 * n <= max + 2 => Coded(out[n], input))
  BY <1>1, <1>9, <1>12, <1>13
<1> QED
  BY <1>2, <1>14 DEF D, n

\* Buffers, and those whose text is t.
Buffers == [data : Seq(Letters), pos : Nat, len : Nat]
Formed(b, t) ==
  /\ b \in Buffers /\ b.len = FormLen /\ Len(b.data) = FormLen + 2 /\ t \in Seq(Letters)
  /\ b.pos = Len(t) /\ Len(t) <= FormLen /\ Inside(b.data, 0, t)

LEMMA PutAnyIs ==
  ASSUME NEW T, NEW buf \in Seq(T), NEW at \in Nat, NEW tokens \in Seq(T)
  PROVE  Put(buf, at, tokens) \in Seq(T) /\ Len(Put(buf, at, tokens)) = Len(buf)
<1> DEFINE b == Put(buf, at, tokens)
           there(i) == i \in (at + 1)..(at + Len(tokens))
<1>1. Len(buf) \in Nat /\ Len(tokens) \in Nat /\ DOMAIN buf = 1..Len(buf)
  OBVIOUS
<1>2. b = [i \in 1..Len(buf) |-> IF there(i) THEN tokens[i - at] ELSE buf[i]]
  BY <1>1 DEF Put
<1>3. ASSUME NEW i \in 1..Len(buf)
      PROVE  (IF there(i) THEN tokens[i - at] ELSE buf[i]) \in T
  <2>1. there(i) => i - at \in 1..Len(tokens)
    BY <1>1
  <2> QED
    BY <2>1
<1>4. b \in Seq(T) /\ Len(b) = Len(buf)
  <2> HIDE DEF there
  <2> QED
    BY <1>1, <1>2, <1>3
<1> QED
  BY <1>4

\* Writing behind the text of a buffer.
LEMMA PutForms ==
  ASSUME NEW buf \in Seq(Letters), NEW t \in Seq(Letters), NEW e \in Seq(Letters), Inside(buf, 0, t),
         Len(t) + Len(e) <= Len(buf)
  PROVE  /\ t \o e \in Seq(Letters) /\ Len(t \o e) = Len(t) + Len(e)
         /\ Put(buf, Len(t), e) \in Seq(Letters) /\ Len(Put(buf, Len(t), e)) = Len(buf)
         /\ Inside(Put(buf, Len(t), e), 0, t \o e)
<1>0. Len(t) \in Nat /\ Len(e) \in Nat /\ Len(buf) \in Nat
  OBVIOUS
<1>1. PICK m : m = Len(t)
  OBVIOUS
<1>2. PICK k : k = Len(e)
  OBVIOUS
<1>3. PICK x : x = t \o e
  OBVIOUS
<1>4. PICK b : b = Put(buf, m, e)
  OBVIOUS
<1>5. /\ x \in Seq(Letters) /\ Len(x) = m + k
      /\ \A i \in 1..m : x[i] = t[i]
      /\ \A i \in 1..k : x[m + i] = e[i]
  BY <1>1, <1>2, <1>3, Behind
<1>6. /\ b \in Seq(Letters) /\ Len(b) = Len(buf)
      /\ \A i \in 1..Len(buf) : i <= m => b[i] = buf[i]
      /\ \A i \in 1..k : b[m + i] = e[i]
  BY <1>0, <1>1, <1>2, <1>4, PutIs
<1>7. \A i \in 1..m : buf[i] = t[i]
  BY <1>1 DEF Inside
<1>8. ASSUME NEW i \in 1..(m + k) PROVE b[i] = x[i]
  <2>1. CASE i <= m
    <3>1. i \in 1..m /\ i \in 1..Len(buf)
      BY <1>0, <1>1, <1>2, <2>1
    <3> QED
      BY <1>5, <1>6, <1>7, <2>1, <3>1
  <2>2. CASE ~(i <= m)
    <3>1. i - m \in 1..k /\ m + (i - m) = i
      BY <1>0, <1>1, <1>2, <2>2
    <3> QED
      BY <1>5, <1>6, <3>1
  <2> QED
    BY <2>1, <2>2
<1>9. Inside(b, 0, x)
  <2>1. 0 + Len(x) <= Len(b) /\ \A i \in 1..Len(x) : 0 + i = i
    BY <1>0, <1>1, <1>2, <1>5, <1>6
  <2> QED
    BY <1>5, <1>8, <2>1 DEF Inside
<1> QED
  BY <1>1, <1>2, <1>3, <1>4, <1>5, <1>6, <1>9

LEMMA ForwardIs ==
  ASSUME NEW b \in Buffers, NEW n \in Nat
  PROVE  /\ Forward(b, n) \in Buffers /\ Forward(b, n).data = b.data /\ Forward(b, n).len = b.len
         /\ b.pos + n <= b.len => Forward(b, n).pos = b.pos + n
  BY DEF Forward, Buffers

LEMMA AppendedIs ==
  ASSUME NEW b \in Buffers, NEW e \in Seq(Letters)
  PROVE  /\ Appended(b, e) \in Buffers
         /\ \A t : Formed(b, t) /\ Len(t) + Len(e) <= FormLen => Formed(Appended(b, e), t \o e)
<1> DEFINE c == [b EXCEPT !.data = Put(@, b.pos, e)]
           a == Forward(c, Len(e))
<1>1. /\ b.data \in Seq(Letters) /\ b.pos \in Nat /\ b.len \in Nat /\ Len(e) \in Nat
      /\ b = [data |-> b.data, pos |-> b.pos, len |-> b.len]
  BY DEF Buffers
<1>2. Put(b.data, b.pos, e) \in Seq(Letters)
  BY <1>1, PutAnyIs
<1>3. c \in Buffers /\ c.data = Put(b.data, b.pos, e) /\ c.pos = b.pos /\ c.len = b.len
  BY <1>1, <1>2 DEF Buffers
<1> HIDE DEF c
<1>4. /\ a \in Buffers /\ a.data = c.data /\ a.len = c.len /\ (c.pos + Len(e) <= c.len => a.pos = c.pos + Len(e))
  BY <1>1, <1>3, ForwardIs
<1>5. Appended(b, e) = IF Left(b) < Len(e) THEN b ELSE a
  BY DEF Appended, a, c
<1>6. ASSUME NEW t, Formed(b, t), Len(t) + Len(e) <= FormLen PROVE Formed(Appended(b, e), t \o e)
  <2>1. /\ b.len = FormLen /\ Len(b.data) = FormLen + 2 /\ t \in Seq(Letters) /\ b.pos = Len(t) /\ Inside(b.data, 0, t)
        /\ FormLen \in Nat /\ Len(t) \in Nat
    BY <1>6, HttpRequestAssumption DEF Formed
  <2>2. Appended(b, e) = a
    BY <1>1, <1>5, <1>6, <2>1 DEF Left
  <2>3. Len(t) + Len(e) <= Len(b.data)
    BY <1>1, <1>6, <2>1
  <2>4. /\ t \o e \in Seq(Letters) /\ Len(t \o e) = Len(t) + Len(e)
        /\ Len(Put(b.data, Len(t), e)) = Len(b.data) /\ Inside(Put(b.data, Len(t), e), 0, t \o e)
    BY <1>1, <2>1, <2>3, PutForms
  <2>5. a.data = Put(b.data, Len(t), e) /\ a.len = FormLen /\ a.pos = Len(t) + Len(e)
    BY <1>3, <1>4, <1>6, <2>1
  <2> HIDE DEF a
  <2> QED
    BY <1>4, <1>6, <2>1, <2>2, <2>4, <2>5 DEF Formed
<1> QED
  BY <1>4, <1>5, <1>6

LEMMA PutTextIs ==
  ASSUME NEW b \in Buffers, NEW e \in Seq(Letters)
  PROVE  /\ PutText(b, e) \in Buffers
         /\ \A t : Formed(b, t) /\ Len(t) + Len(e) <= FormLen =>
              /\ Formed(PutText(b, e), t \o e)
              /\ Len(t) + Len(e) < FormLen => PutText(b, e).data[Len(t) + Len(e) + 1] = "NUL"
<1> DEFINE x == IF Len(e) < Left(b) THEN PutNul(Put(b.data, b.pos, e), b.pos + Len(e)) ELSE Put(b.data, b.pos, e)
           c == [b EXCEPT !.data = x]
           a == Forward(c, Len(e))
<1>1. /\ b.data \in Seq(Letters) /\ b.pos \in Nat /\ b.len \in Nat /\ Len(e) \in Nat
      /\ b = [data |-> b.data, pos |-> b.pos, len |-> b.len]
  BY DEF Buffers
<1>2. Put(b.data, b.pos, e) \in Seq(Letters)
  BY <1>1, PutAnyIs
<1>3. /\ PutNul(Put(b.data, b.pos, e), b.pos + Len(e)) \in Seq(Letters)
      /\ Len(PutNul(Put(b.data, b.pos, e), b.pos + Len(e))) = Len(Put(b.data, b.pos, e))
      /\ \A i \in 1..Len(Put(b.data, b.pos, e)) : i <= b.pos + Len(e) =>
           PutNul(Put(b.data, b.pos, e), b.pos + Len(e))[i] = Put(b.data, b.pos, e)[i]
  <2>1. "NUL" \in Letters /\ b.pos + Len(e) \in Nat
    BY <1>1, CharactersAre
  <2> QED
    BY <1>2, <2>1, PutNulIs
<1>4. x \in Seq(Letters)
  BY <1>2, <1>3
<1>5. c.data = x /\ c \in Buffers /\ c.pos = b.pos /\ c.len = b.len
  <2> HIDE DEF x
  <2> QED
    BY <1>1, <1>4 DEF Buffers
<1> HIDE DEF c
<1>6. /\ a \in Buffers /\ a.data = c.data /\ a.len = c.len /\ (c.pos + Len(e) <= c.len => a.pos = c.pos + Len(e))
  BY <1>1, <1>5, ForwardIs
<1>7. PutText(b, e) = a
  <2> DEFINE y(bb, ee) == Forward([bb EXCEPT !.data = IF Len(ee) < Left(bb) THEN PutNul(Put(@, bb.pos, ee), bb.pos + Len(ee))
                                                      ELSE Put(@, bb.pos, ee)], Len(ee))
  <2> DEFINE W == {y(bb, ee) : bb \in {b}, ee \in {e}}
  <2>1. PutText(b, e) = Only(W)
    BY DEF PutText
  <2>2. y(b, e) = a
    BY DEF a, c, x
  <2> HIDE DEF y, a
  <2>3. W = {a}
    BY <2>2
  <2> HIDE DEF W
  <2>4. Only({a}) = a
    BY OnlyOne
  <2> QED
    BY <2>1, <2>3, <2>4
<1> HIDE DEF a
<1>8. ASSUME NEW t, Formed(b, t), Len(t) + Len(e) <= FormLen
      PROVE  /\ Formed(PutText(b, e), t \o e)
             /\ Len(t) + Len(e) < FormLen => PutText(b, e).data[Len(t) + Len(e) + 1] = "NUL"
  <2>1. /\ b.len = FormLen /\ Len(b.data) = FormLen + 2 /\ t \in Seq(Letters) /\ b.pos = Len(t) /\ Inside(b.data, 0, t)
        /\ FormLen \in Nat /\ Len(t) \in Nat
    BY <1>8, HttpRequestAssumption DEF Formed
  <2>2. PICK put : put = Put(b.data, Len(t), e)
    OBVIOUS
  <2>3. Len(t) + Len(e) <= Len(b.data)
    BY <1>1, <1>8, <2>1
  <2>4. /\ t \o e \in Seq(Letters) /\ Len(t \o e) = Len(t) + Len(e)
        /\ put \in Seq(Letters) /\ Len(put) = FormLen + 2 /\ Inside(put, 0, t \o e)
    BY <1>1, <2>1, <2>2, <2>3, PutForms
  <2>5. PICK n \in Nat : n = Len(t) + Len(e)
    BY <1>1, <2>1
  <2>6. x = IF Len(e) < FormLen - Len(t) THEN PutNul(put, n) ELSE put
    BY <2>1, <2>2, <2>5 DEF Left
  <2>7. /\ Len(PutNul(put, n)) = FormLen + 2 /\ \A i \in 1..(FormLen + 2) : i <= n => PutNul(put, n)[i] = put[i]
    <3>1. "NUL" \in Letters
      BY CharactersAre
    <3> QED
      BY <2>4, <3>1, PutNulIs
  <2> HIDE DEF x
  <2>8. Len(x) = FormLen + 2 /\ \A i \in 1..(FormLen + 2) : i <= n => x[i] = put[i]
    BY <2>4, <2>6, <2>7
  <2>9. Inside(x, 0, t \o e)
    <3>1. n <= FormLen + 2 /\ \A i \in 1..n : i \in 1..(FormLen + 2) /\ i <= n /\ 0 + i = i
      BY <1>8, <2>1, <2>5
    <3>2. \A i \in 1..n : put[i] = (t \o e)[i]
      BY <2>4, <2>5, <3>1 DEF Inside
    <3>3. \A i \in 1..n : x[0 + i] = (t \o e)[i]
      BY <2>8, <3>1, <3>2
    <3>4. 0 + n <= Len(x)
      BY <2>8, <3>1
    <3> QED
      BY <2>4, <2>5, <3>3, <3>4 DEF Inside
  <2>10. a.data = x /\ a.len = FormLen /\ a.pos = Len(t) + Len(e)
    BY <1>5, <1>6, <1>8, <2>1
  <2>11. Formed(a, t \o e)
    BY <1>6, <1>8, <2>1, <2>4, <2>8, <2>9, <2>10 DEF Formed
  <2>12. ASSUME Len(t) + Len(e) < FormLen PROVE a.data[Len(t) + Len(e) + 1] = "NUL"
    <3>1. x = PutNul(put, n) /\ n < Len(put)
      BY <1>1, <2>1, <2>4, <2>5, <2>6, <2>12
    <3>2. x = [put EXCEPT ![n + 1] = "NUL"]
      BY <3>1 DEF PutNul
    <3>3. n + 1 \in DOMAIN put
      BY <2>4, <2>5, <3>1
    <3> QED
      BY <2>5, <2>10, <3>2, <3>3
  <2> QED
    BY <1>7, <2>11, <2>12
<1> QED
  BY <1>6, <1>7, <1>8

\* Buffers that hold the encoding of a text.
Fills(b, s) == \E t : Formed(b, t) /\ Coded(t, s)

LEMMA CodedLetters ==
  ASSUME NEW t, NEW s, Coded(t, s)
  PROVE  t \in Seq(Letters) /\ s \in Seq(Letters)
<1>1. t \in Seq(Characters) /\ s \in Seq(Characters)
  BY CodedType
<1> QED
  BY <1>1, CharactersAre, SeqMonotonic

LEMMA Plain ==
  \A c \in {"clientId=", "&deviceName=", "&expire=", "&nonce=", "&productId=", "&timestamp=", "&signature=",
            EXPIRE, NONCE, TIMESTAMP} : c \in Characters /\ Coded(<<c>>, <<c>>)
<1> SUFFICES ASSUME NEW c \in {"clientId=", "&deviceName=", "&expire=", "&nonce=", "&productId=", "&timestamp=",
                               "&signature=", EXPIRE, NONCE, TIMESTAMP}
             PROVE  c \in Characters /\ Coded(<<c>>, <<c>>)
  OBVIOUS
<1>1. c \in Characters
  BY CharactersAre DEF Literals
<1>2. DOMAIN Escapes = {"%", "&", "+", "/", "=", "~"}
  BY DEF Escapes
<1>3. c \notin DOMAIN Escapes /\ c # " "
  BY <1>2 DEF EXPIRE, NONCE, TIMESTAMP
<1> QED
  BY <1>1, <1>3, CodedToken

\* What one more text does to a buffer.
LEMMA Filled ==
  ASSUME NEW b \in Buffers, NEW e, NEW v, Coded(e, v)
  PROVE  /\ Appended(b, e) \in Buffers /\ PutText(b, e) \in Buffers
         /\ \A s : Fills(b, s) /\ 3 * Len(s \o v) <= FormLen => Fills(Appended(b, e), s \o v) /\ Fills(PutText(b, e), s \o v)
<1>1. e \in Seq(Letters) /\ v \in Seq(Characters) /\ Len(e) \in Nat
  BY CodedLetters, CodedType
<1>2. ASSUME NEW s, Fills(b, s), 3 * Len(s \o v) <= FormLen
      PROVE  Fills(Appended(b, e), s \o v) /\ Fills(PutText(b, e), s \o v)
  <2>1. PICK t : Formed(b, t) /\ Coded(t, s)
    BY <1>2 DEF Fills
  <2>2. Coded(t \o e, s \o v)
    BY <2>1, CodedBoth
  <2>3. Len(t \o e) <= 3 * Len(s \o v) /\ Len(t \o e) \in Nat /\ Len(s \o v) \in Nat
    BY <2>2, CodedType
  <2>4. Len(t \o e) = Len(t) + Len(e)
    <3>1. t \in Seq(Letters)
      BY <2>1, CodedLetters
    <3> QED
      BY <1>1, <3>1, Within
  <2>5. Len(t) + Len(e) <= FormLen
    BY <1>2, <2>3, <2>4, HttpRequestAssumption
  <2>6. Formed(Appended(b, e), t \o e) /\ Formed(PutText(b, e), t \o e)
    BY <1>1, <2>1, <2>5, AppendedIs, PutTextIs
  <2> QED
    BY <2>2, <2>6 DEF Fills
<1> QED
  BY <1>1, <1>2, AppendedIs, PutTextIs

\* The room that is left for a text.
LEMMA Room ==
  ASSUME NEW b \in Buffers, NEW s, Fills(b, s), NEW v \in Seq(Characters), 3 * Len(s \o v) <= FormLen
  PROVE  Left(b) \in Int /\ 3 * Len(v) <= Left(b) + 2 /\ Len(s) \in Nat /\ Len(s \o v) = Len(s) + Len(v) /\ s \in Seq(Characters)
<1>1. PICK t : Formed(b, t) /\ Coded(t, s)
  BY DEF Fills
<1>2. Len(t) <= 3 * Len(s) /\ Len(t) \in Nat /\ Len(s) \in Nat /\ s \in Seq(Characters) /\ Len(v) \in Nat
  BY <1>1, CodedType
<1>3. Len(s \o v) = Len(s) + Len(v)
  BY <1>2, Within
<1>4. b.len = FormLen /\ b.pos = Len(t) /\ FormLen \in Nat
  BY <1>1, HttpRequestAssumption DEF Formed
<1> QED
  BY <1>2, <1>3, <1>4 DEF Left

LEMMA LeftIs == \A b \in Buffers : Left(b) \in Int
  BY DEF Left, Buffers

\* tc_iot_add_url_encoded_field
LEMMA AddEncodedIs ==
  ASSUME NEW b \in Buffers, NEW p \in Characters, Coded(<<p>>, <<p>>), NEW v \in Seq(Characters)
  PROVE  /\ AddEncoded(b, p, v) \in Buffers
         /\ \A s : Fills(b, s) /\ 3 * Len(s \o <<p>> \o v) <= FormLen => Fills(AddEncoded(b, p, v), s \o <<p>> \o v)
<1>1. PICK a : a = Appended(b, <<p>>)
  OBVIOUS
<1>2. PICK e : e = UrlEncode(v, Left(a))
  OBVIOUS
<1>3. AddEncoded(b, p, v) = PutText(a, e)
  <2> DEFINE y(x) == PutText(x, UrlEncode(v, Left(x)))
             W == {y(x) : x \in {Appended(b, <<p>>)}}
  <2>1. AddEncoded(b, p, v) = Only(W)
    BY DEF AddEncoded
  <2>2. y(a) = PutText(a, e)
    BY <1>2
  <2> HIDE DEF y
  <2>3. W = {y(a)}
    BY <1>1
  <2> HIDE DEF W
  <2> QED
    BY <2>1, <2>2, <2>3, OnlyOne
<1>4. a \in Buffers
  BY <1>1, Filled
<1>5. e \in Seq(Characters)
  BY <1>2, <1>4, LeftIs, UrlEncodeIs
<1>6. PutText(a, e) \in Buffers
  <2>1. e \in Seq(Letters)
    BY <1>5, CharactersAre, SeqMonotonic
  <2> QED
    BY <1>4, <2>1, PutTextIs
<1>7. ASSUME NEW s, Fills(b, s), 3 * Len(s \o <<p>> \o v) <= FormLen PROVE Fills(PutText(a, e), s \o <<p>> \o v)
  <2>1. PICK o : o = <<p>>
    OBVIOUS
  <2>2. o \in Seq(Characters) /\ s \in Seq(Characters)
    <3>1. PICK t : Coded(t, s)
      BY <1>7 DEF Fills
    <3> QED
      BY <2>1, <3>1, CodedType
  <2>3. PICK w : w = s \o o
    OBVIOUS
  <2>4. w \in Seq(Characters) /\ Len(w) \in Nat /\ Len(w \o v) = Len(w) + Len(v) /\ Len(v) \in Nat
    BY <2>2, <2>3, Within
  <2>5. 3 * Len(w) <= FormLen
    BY <1>7, <2>1, <2>3, <2>4, HttpRequestAssumption
  <2>6. Fills(a, w)
    BY <1>1, <1>7, <2>1, <2>3, <2>5, Filled
  <2>7. 3 * Len(v) <= Left(a) + 2 /\ Left(a) \in Int
    BY <1>4, <1>7, <2>1, <2>3, <2>6, Room
  <2>8. Coded(e, v)
    BY <1>2, <2>7, UrlEncodeIs
  <2> QED
    BY <1>4, <1>7, <2>1, <2>3, <2>6, <2>8, Filled
<1> QED
  BY <1>3, <1>6, <1>7

\* tc_iot_add_url_uint_field
LEMMA AddUintIs ==
  ASSUME NEW b \in Buffers, NEW p \in Characters, Coded(<<p>>, <<p>>), NEW v, Coded(v, v), Len(v) >= 1
  PROVE  /\ AddUint(b, p, v) \in Buffers
         /\ \A s : Fills(b, s) /\ 3 * Len(s \o <<p>> \o v) <= FormLen => Fills(AddUint(b, p, v), s \o <<p>> \o v)
<1>1. PICK a : a = Appended(b, <<p>>)
  OBVIOUS
<1>3. AddUint(b, p, v) = IF Left(a) > 1 THEN PutText(a, v) ELSE Forward(a, 1)
  <2> DEFINE y(x) == IF Left(x) > 1 THEN PutText(x, v) ELSE Forward(x, 1)
             W == {y(x) : x \in {Appended(b, <<p>>)}}
  <2>1. AddUint(b, p, v) = Only(W)
    BY DEF AddUint
  <2>2. y(a) = IF Left(a) > 1 THEN PutText(a, v) ELSE Forward(a, 1)
    OBVIOUS
  <2> HIDE DEF y
  <2>3. W = {y(a)}
    BY <1>1
  <2> HIDE DEF W
  <2> QED
    BY <2>1, <2>2, <2>3, OnlyOne
<1>4. a \in Buffers
  BY <1>1, Filled
<1>6. PutText(a, v) \in Buffers /\ Forward(a, 1) \in Buffers
  BY <1>4, Filled, ForwardIs
<1>7. ASSUME NEW s, Fills(b, s), 3 * Len(s \o <<p>> \o v) <= FormLen PROVE Fills(AddUint(b, p, v), s \o <<p>> \o v)
  <2>1. PICK o : o = <<p>>
    OBVIOUS
  <2>2. o \in Seq(Characters) /\ s \in Seq(Characters) /\ v \in Seq(Characters)
    <3>1. PICK t : Coded(t, s)
      BY <1>7 DEF Fills
    <3> QED
      BY <2>1, <3>1, CodedType
  <2>3. PICK w : w = s \o o
    OBVIOUS
  <2>4. w \in Seq(Characters) /\ Len(w) \in Nat /\ Len(w \o v) = Len(w) + Len(v) /\ Len(v) \in Nat
    BY <2>2, <2>3, Within
  <2>5. 3 * Len(w) <= FormLen
    BY <1>7, <2>1, <2>3, <2>4, HttpRequestAssumption
  <2>6. Fills(a, w)
    BY <1>1, <1>7, <2>1, <2>3, <2>5, Filled
  <2>7. Left(a) > 1
    <3>1. PICK t : Formed(a, t) /\ Coded(t, w)
      BY <2>6 DEF Fills
    <3>2. Len(t) <= 3 * Len(w) /\ Len(t) \in Nat
      BY <3>1, CodedType
    <3>3. a.len = FormLen /\ a.pos = Len(t) /\ FormLen \in Nat
      BY <3>1, HttpRequestAssumption DEF Formed
    <3>4. 3 * (Len(w) + Len(v)) <= FormLen
      BY <1>7, <2>1, <2>3, <2>4
    <3> QED
      BY <2>4, <3>2, <3>3, <3>4 DEF Left
  <2>8. Fills(PutText(a, v), w \o v)
    BY <1>4, <1>7, <2>1, <2>3, <2>6, Filled
  <2> QED
    BY <1>3, <2>1, <2>3, <2>7, <2>8
<1> QED
  BY <1>3, <1>6, <1>7

LEMMA DeviceType ==
  ASSUME NEW d \in Devices
  PROVE  /\ d.client_id \in Seq(Characters) /\ d.device_name \in Seq(Characters) /\ d.product_id \in Seq(Characters)
         /\ d.secret \in Characters
<1> DEFINE T == STRING \ {"NUL", VERSION, LENGTH, END}
<1>1. <<d.secret>> \in Seq(T) /\ d.client_id \in Seq(T) /\ d.device_name \in Seq(T) /\ d.product_id \in Seq(T)
  BY HttpRequestAssumption DEF IsText
<1>2. T \subseteq Characters
  BY DEF Characters
<1> HIDE DEF T
<1>3. d.secret \in T
  <2> PICK x : x = <<d.secret>>
    OBVIOUS
  <2>1. x \in Seq(T) /\ Len(x) = 1 /\ x[1] = d.secret
    BY <1>1
  <2> QED
    BY <2>1
<1> QED
  BY <1>1, <1>2, <1>3, SeqMonotonic

\* What is digested.
Values(d) ==
  <<"clientId=">> \o d.client_id \o <<"&deviceName=">> \o d.device_name
    \o <<"&expire=">> \o <<EXPIRE>> \o <<"&nonce=">> \o <<NONCE>>
    \o <<"&productId=">> \o d.product_id \o <<"&timestamp=">> \o <<TIMESTAMP>>

Args(d) == <<d.client_id, d.device_name, <<EXPIRE>>, <<NONCE>>, d.product_id, <<TIMESTAMP>>>>

LEMMA SignedIs ==
  ASSUME NEW d \in Devices
  PROVE  Signed(SIGN_FORMAT, Args(d)) = Values(d)
<1>0. d.client_id \in Seq(Characters)
  BY DeviceType
<1>1. PICK x1 : x1 = <<"clientId=">>
  OBVIOUS
<1>2. PICK x2 : x2 = x1 \o d.client_id
  OBVIOUS
<1>3. PICK x3 : x3 = x2 \o <<"&deviceName=">>
  OBVIOUS
<1>4. PICK x4 : x4 = x3 \o d.device_name
  OBVIOUS
<1>5. PICK x5 : x5 = x4 \o <<"&expire=">>
  OBVIOUS
<1>6. PICK x6 : x6 = x5 \o <<EXPIRE>>
  OBVIOUS
<1>7. PICK x7 : x7 = x6 \o <<"&nonce=">>
  OBVIOUS
<1>8. PICK x8 : x8 = x7 \o <<NONCE>>
  OBVIOUS
<1>9. PICK x9 : x9 = x8 \o <<"&productId=">>
  OBVIOUS
<1>10. PICK x10 : x10 = x9 \o d.product_id
  OBVIOUS
<1>11. PICK x11 : x11 = x10 \o <<"&timestamp=">>
  OBVIOUS
<1>12. PICK x12 : x12 = x11 \o <<TIMESTAMP>>
  OBVIOUS
<1>13. Values(d) = x12
  BY <1>1, <1>2, <1>3, <1>4, <1>5, <1>6, <1>7, <1>8, <1>9, <1>10, <1>11, <1>12, Zenon DEF Values
<1>14. <<>> \o <<"clientId=">> = x1
  <2>1. "clientId=" \in Characters
    BY Plain
  <2>2. x1 \in Seq(Characters)
    BY <1>1, <2>1
  <2> QED
    BY <1>1, <2>2, ConcatEmptySeq
<1> DEFINE St(t, n) == [text |-> t, n |-> n]
           Pass(i, r) == IF SIGN_FORMAT[i] \in {"%s", "%u"} THEN [text |-> r.text \o Args(d)[r.n], n |-> r.n + 1]
                         ELSE [r EXCEPT !.text = @ \o <<SIGN_FORMAT[i]>>]
           Loop(g) == g = [i \in 0..12 |-> IF i = 0 THEN St(<<>>, 1) ELSE Only({Pass(i, r) : r \in {g[i - 1]}})]
           upTo == CHOOSE g : Loop(g)
<1>15. Signed(SIGN_FORMAT, Args(d)) = upTo[12].text
  <2>1. Len(SIGN_FORMAT) = 12
    BY DEF SIGN_FORMAT
  <2> QED
    BY <2>1 DEF Signed
<1>16. \A t, n : \A i \in {1, 3, 5, 7, 9, 11} : Pass(i, St(t, n)) = St(t \o <<SIGN_FORMAT[i]>>, n)
  <2>1. \A i \in {1, 3, 5, 7, 9, 11} : SIGN_FORMAT[i] \notin {"%s", "%u"}
    BY DEF SIGN_FORMAT
  <2> HIDE DEF SIGN_FORMAT
  <2> QED
    BY <2>1
<1>17. \A t, n : \A i \in {2, 4, 6, 8, 10, 12} : Pass(i, St(t, n)) = St(t \o Args(d)[n], n + 1)
  <2>1. \A i \in {2, 4, 6, 8, 10, 12} : SIGN_FORMAT[i] \in {"%s", "%u"}
    BY DEF SIGN_FORMAT
  <2> QED
    BY <2>1
<1>18. /\ SIGN_FORMAT[1] = "clientId=" /\ SIGN_FORMAT[3] = "&deviceName=" /\ SIGN_FORMAT[5] = "&expire="
       /\ SIGN_FORMAT[7] = "&nonce=" /\ SIGN_FORMAT[9] = "&productId=" /\ SIGN_FORMAT[11] = "&timestamp="
  BY DEF SIGN_FORMAT
<1>19. /\ Args(d)[1] = d.client_id /\ Args(d)[2] = d.device_name /\ Args(d)[3] = <<EXPIRE>> /\ Args(d)[4] = <<NONCE>>
       /\ Args(d)[5] = d.product_id /\ Args(d)[6] = <<TIMESTAMP>>
  BY DEF Args
<1> DEFINE g == [i \in 0..12 |->
                   IF i = 0 THEN St(<<>>, 1) ELSE IF i = 1 THEN St(x1, 1) ELSE IF i = 2 THEN St(x2, 2)
                   ELSE IF i = 3 THEN St(x3, 2) ELSE IF i = 4 THEN St(x4, 3) ELSE IF i = 5 THEN St(x5, 3)
                   ELSE IF i = 6 THEN St(x6, 4) ELSE IF i = 7 THEN St(x7, 4) ELSE IF i = 8 THEN St(x8, 5)
                   ELSE IF i = 9 THEN St(x9, 5) ELSE IF i = 10 THEN St(x10, 6) ELSE IF i = 11 THEN St(x11, 6)
                   ELSE St(x12, 7)]
<1> HIDE DEF Pass, St
<1>20. /\ g[0] = St(<<>>, 1) /\ g[1] = St(x1, 1) /\ g[2] = St(x2, 2) /\ g[3] = St(x3, 2) /\ g[4] = St(x4, 3)
       /\ g[5] = St(x5, 3) /\ g[6] = St(x6, 4) /\ g[7] = St(x7, 4) /\ g[8] = St(x8, 5) /\ g[9] = St(x9, 5)
       /\ g[10] = St(x10, 6) /\ g[11] = St(x11, 6) /\ g[12] = St(x12, 7) /\ g = [i \in 0..12 |-> g[i]]
  OBVIOUS
<1> HIDE DEF g
<1>21. /\ Pass(1, g[0]) = g[1] /\ Pass(3, g[2]) = g[3] /\ Pass(5, g[4]) = g[5] /\ Pass(7, g[6]) = g[7]
       /\ Pass(9, g[8]) = g[9] /\ Pass(11, g[10]) = g[11]
  <2>1. Pass(1, g[0]) = g[1]
    <3>1. Pass(1, St(<<>>, 1)) = St(<<>> \o <<SIGN_FORMAT[1]>>, 1)
      BY <1>16
    <3> QED
      BY <3>1, <1>14, <1>18, <1>20, Zenon
  <2>2. Pass(3, g[2]) = g[3]
    <3>1. Pass(3, St(x2, 2)) = St(x2 \o <<SIGN_FORMAT[3]>>, 2)
      BY <1>16
    <3> QED
      BY <3>1, <1>3, <1>18, <1>20, Zenon
  <2>3. Pass(5, g[4]) = g[5]
    <3>1. Pass(5, St(x4, 3)) = St(x4 \o <<SIGN_FORMAT[5]>>, 3)
      BY <1>16
    <3> QED
      BY <3>1, <1>5, <1>18, <1>20, Zenon
  <2>4. Pass(7, g[6]) = g[7]
    <3>1. Pass(7, St(x6, 4)) = St(x6 \o <<SIGN_FORMAT[7]>>, 4)
      BY <1>16
    <3> QED
      BY <3>1, <1>7, <1>18, <1>20, Zenon
  <2>5. Pass(9, g[8]) = g[9]
    <3>1. Pass(9, St(x8, 5)) = St(x8 \o <<SIGN_FORMAT[9]>>, 5)
      BY <1>16
    <3> QED
      BY <3>1, <1>9, <1>18, <1>20, Zenon
  <2>6. Pass(11, g[10]) = g[11]
    <3>1. Pass(11, St(x10, 6)) = St(x10 \o <<SIGN_FORMAT[11]>>, 6)
      BY <1>16
    <3> QED
      BY <3>1, <1>11, <1>18, <1>20, Zenon
  <2> QED
    BY <2>1, <2>2, <2>3, <2>4, <2>5, <2>6
<1>22. /\ Pass(2, g[1]) = g[2] /\ Pass(4, g[3]) = g[4] /\ Pass(6, g[5]) = g[6] /\ Pass(8, g[7]) = g[8]
       /\ Pass(10, g[9]) = g[10] /\ Pass(12, g[11]) = g[12]
  <2>1. Pass(2, g[1]) = g[2]
    <3>1. Pass(2, St(x1, 1)) = St(x1 \o Args(d)[1], 1 + 1)
      BY <1>17
    <3>2. 1 + 1 = 2
      OBVIOUS
    <3> QED
      BY <3>1, <3>2, <1>2, <1>19, <1>20, Zenon
  <2>2. Pass(4, g[3]) = g[4]
    <3>1. Pass(4, St(x3, 2)) = St(x3 \o Args(d)[2], 2 + 1)
      BY <1>17
    <3>2. 2 + 1 = 3
      OBVIOUS
    <3> QED
      BY <3>1, <3>2, <1>4, <1>19, <1>20, Zenon
  <2>3. Pass(6, g[5]) = g[6]
    <3>1. Pass(6, St(x5, 3)) = St(x5 \o Args(d)[3], 3 + 1)
      BY <1>17
    <3>2. 3 + 1 = 4
      OBVIOUS
    <3> QED
      BY <3>1, <3>2, <1>6, <1>19, <1>20, Zenon
  <2>4. Pass(8, g[7]) = g[8]
    <3>1. Pass(8, St(x7, 4)) = St(x7 \o Args(d)[4], 4 + 1)
      BY <1>17
    <3>2. 4 + 1 = 5
      OBVIOUS
    <3> QED
      BY <3>1, <3>2, <1>8, <1>19, <1>20, Zenon
  <2>5. Pass(10, g[9]) = g[10]
    <3>1. Pass(10, St(x9, 5)) = St(x9 \o Args(d)[5], 5 + 1)
      BY <1>17
    <3>2. 5 + 1 = 6
      OBVIOUS
    <3> QED
      BY <3>1, <3>2, <1>10, <1>19, <1>20, Zenon
  <2>6. Pass(12, g[11]) = g[12]
    <3>1. Pass(12, St(x11, 6)) = St(x11 \o Args(d)[6], 6 + 1)
      BY <1>17
    <3>2. 6 + 1 = 7
      OBVIOUS
    <3> QED
      BY <3>1, <3>2, <1>12, <1>19, <1>20, Zenon
  <2> QED
    BY <2>1, <2>2, <2>3, <2>4, <2>5, <2>6
<1>23. \A i \in 1..12 : Pass(i, g[i - 1]) = g[i]
  BY <1>21, <1>22
<1>24. \A i, a : Only({Pass(i, r) : r \in {a}}) = Pass(i, a)
  <2> SUFFICES ASSUME NEW i, NEW a PROVE Only({Pass(i, r) : r \in {a}}) = Pass(i, a)
    OBVIOUS
  <2>1. {Pass(i, r) : r \in {a}} = {Pass(i, a)}
    OBVIOUS
  <2> QED
    BY <2>1, OnlyOne
<1>25. Loop(g)
  <2>1. ASSUME NEW i \in 0..12 PROVE g[i] = IF i = 0 THEN St(<<>>, 1) ELSE Only({Pass(i, r) : r \in {g[i - 1]}})
    BY <1>20, <1>23, <1>24
  <2> QED
    BY <1>20, <2>1
<1>26. upTo = [i \in 0..12 |-> IF i = 0 THEN St(<<>>, 1) ELSE Only({Pass(i, r) : r \in {upTo[i - 1]}})]
  BY <1>25
<1> HIDE DEF upTo
<1>27. upTo[0] = g[0] /\ \A i \in 1..12 : upTo[i] = Pass(i, upTo[i - 1])
  <2>1. 0 \in 0..12 /\ \A i \in 1..12 : i \in 0..12 /\ i # 0
    OBVIOUS
  <2>2. ASSUME NEW i \in 1..12 PROVE upTo[i] = Pass(i, upTo[i - 1])
    <3>1. upTo[i] = Only({Pass(i, r) : r \in {upTo[i - 1]}})
      BY <1>26, <2>1
    <3> QED
      BY <1>24, <3>1
  <2> QED
    BY <1>20, <1>26, <2>1, <2>2
<1>28. upTo[12] = g[12]
  <2> DEFINE R == {<<i, g[i]>> : i \in 0..12}
  <2>1. <<0, upTo[0]>> \in R
    BY <1>27
  <2>2. ASSUME NEW i \in 1..12, <<i - 1, upTo[i - 1]>> \in R PROVE <<i, upTo[i]>> \in R
    <3>1. upTo[i - 1] = g[i - 1]
      BY <2>2
    <3>2. upTo[i] = g[i] /\ i \in 0..12
      BY <1>23, <1>27, <3>1
    <3> QED
      BY <3>2
  <2> HIDE DEF R
  <2>3. 12 \in Nat /\ 12 \in 0..12
    OBVIOUS
  <2>4. <<12, upTo[12]>> \in R
    BY <2>1, <2>2, <2>3, LoopKeeps
  <2> QED
    BY <2>4 DEF R
<1>29. upTo[12].text = x12
  BY <1>20, <1>28 DEF St
<1> QED
  BY <1>13, <1>15, <1>29

-----------------------------------------------------------------------------
(* The form of a device.                                                   *)

LEMMA SignatureType ==
  ASSUME NEW c \in Characters, NEW text \in Seq(Characters)
  PROVE  Signature(c, text) \in Seq(Characters)
<1>1. "+" \in Characters /\ "=" \in Characters
  BY CharactersAre DEF Literals
<1>2. PICK x : x = <<"+", c>>
  OBVIOUS
<1>3. PICK y : y = <<"=">>
  OBVIOUS
<1>4. x \in Seq(Characters) /\ y \in Seq(Characters)
  BY <1>1, <1>2, <1>3
<1>5. x \o text \in Seq(Characters)
  BY <1>4, Within
<1>6. (x \o text) \o y \in Seq(Characters)
  BY <1>4, <1>5, Within
<1> QED
  BY <1>2, <1>3, <1>6 DEF Signature

LEMMA FieldsAre ==
  ASSUME NEW d \in Devices, NEW i \in 1..7
  PROVE  /\ Fields(d)[i][1] \in Characters /\ Coded(<<Fields(d)[i][1]>>, <<Fields(d)[i][1]>>)
         /\ Fields(d)[i][2] \in Seq(Characters)
         /\ i \in {3, 4, 6} => Coded(Fields(d)[i][2], Fields(d)[i][2]) /\ Len(Fields(d)[i][2]) >= 1
<1>1. i \in {1, 2, 3, 4, 5, 6, 7}
  OBVIOUS
<1>2. Fields(d)[i][1] \in {"clientId=", "&deviceName=", "&expire=", "&nonce=", "&productId=", "&timestamp=", "&signature="}
  BY <1>1 DEF Fields
<1>3. Fields(d)[i][1] \in Characters /\ Coded(<<Fields(d)[i][1]>>, <<Fields(d)[i][1]>>)
  BY <1>2, Plain
<1>4. ASSUME NEW c \in {EXPIRE, NONCE, TIMESTAMP}
      PROVE  <<c>> \in Seq(Characters) /\ Coded(<<c>>, <<c>>) /\ Len(<<c>>) >= 1
  <2>1. c \in Characters /\ Coded(<<c>>, <<c>>)
    BY Plain
  <2>2. Len(<<c>>) = 1 /\ <<c>> \in Seq(Characters)
    BY <2>1
  <2> QED
    BY <2>1, <2>2
<1>5. i \in {3, 4, 6} => \E c \in {EXPIRE, NONCE, TIMESTAMP} : Fields(d)[i][2] = <<c>>
  BY DEF Fields
<1>6. i \in {1, 2, 5, 7} => Fields(d)[i][2] \in {d.client_id, d.device_name, d.product_id, <<>>}
  BY DEF Fields
<1>7. <<>> \in Seq(Characters)
  OBVIOUS
<1>8. i \in {1, 2, 5, 7} => Fields(d)[i][2] \in Seq(Characters)
  BY <1>6, <1>7, DeviceType
<1>9. i \in {3, 4, 6} => /\ Fields(d)[i][2] \in Seq(Characters) /\ Coded(Fields(d)[i][2], Fields(d)[i][2])
                         /\ Len(Fields(d)[i][2]) >= 1
  BY <1>4, <1>5
<1> QED
  BY <1>1, <1>3, <1>8, <1>9

\* What one field does to the buffer of the form.
Field(d, i, b) ==
  IF i \in {3, 4, 6} THEN AddUint(b, Fields(d)[i][1], Fields(d)[i][2]) ELSE AddEncoded(b, Fields(d)[i][1], Fields(d)[i][2])

LEMMA FieldIs ==
  ASSUME NEW d \in Devices, NEW i \in 1..7, NEW b \in Buffers
  PROVE  /\ Field(d, i, b) \in Buffers
         /\ \A s : Fills(b, s) /\ 3 * Len(s \o <<Fields(d)[i][1]>> \o Fields(d)[i][2]) <= FormLen =>
              Fills(Field(d, i, b), s \o <<Fields(d)[i][1]>> \o Fields(d)[i][2])
<1>1. PICK p : p = Fields(d)[i][1]
  OBVIOUS
<1>2. PICK v : v = Fields(d)[i][2]
  OBVIOUS
<1>3. /\ p \in Characters /\ Coded(<<p>>, <<p>>) /\ v \in Seq(Characters)
      /\ i \in {3, 4, 6} => Coded(v, v) /\ Len(v) >= 1
  BY <1>1, <1>2, FieldsAre
<1>4. CASE i \in {3, 4, 6}
  <2>1. Field(d, i, b) = AddUint(b, p, v)
    BY <1>1, <1>2, <1>4 DEF Field
  <2>2. /\ AddUint(b, p, v) \in Buffers
        /\ \A s : Fills(b, s) /\ 3 * Len(s \o <<p>> \o v) <= FormLen => Fills(AddUint(b, p, v), s \o <<p>> \o v)
    BY <1>3, <1>4, AddUintIs
  <2> QED
    BY <1>1, <1>2, <2>1, <2>2, Zenon
<1>5. CASE i \notin {3, 4, 6}
  <2>1. Field(d, i, b) = AddEncoded(b, p, v)
    BY <1>1, <1>2, <1>5 DEF Field
  <2>2. /\ AddEncoded(b, p, v) \in Buffers
        /\ \A s : Fills(b, s) /\ 3 * Len(s \o <<p>> \o v) <= FormLen => Fills(AddEncoded(b, p, v), s \o <<p>> \o v)
    BY <1>3, AddEncodedIs
  <2> QED
    BY <1>1, <1>2, <2>1, <2>2, Zenon
<1> QED
  BY <1>4, <1>5

LEMMA OpenedIs == Opened(FormLen) \in Buffers /\ Fills(Opened(FormLen), <<>>)
<1>1. FormLen \in Nat /\ "?" \in Letters
  BY HttpRequestAssumption, CharactersAre
<1>2. PICK w : w = [i \in 1..(FormLen + 2) |-> "?"]
  OBVIOUS
<1>3. w \in Seq(Letters) /\ Len(w) = FormLen + 2
  BY <1>1, <1>2
<1>4. Opened(FormLen) = [data |-> w, pos |-> 0, len |-> FormLen]
  BY <1>2 DEF Opened
<1>5. <<>> \in Seq(Letters) /\ Len(<<>>) = 0
  OBVIOUS
<1>6. Inside(w, 0, <<>>)
  BY <1>1, <1>3, <1>5 DEF Inside
<1>7. Formed(Opened(FormLen), <<>>)
  BY <1>1, <1>3, <1>4, <1>5, <1>6 DEF Formed, Buffers
<1> QED
  BY <1>7, CodedNothing DEF Fills, Formed

\* The string of a buffer that has a NUL behind a text.
LEMMA TextIs ==
  ASSUME NEW buf \in Seq(Letters), NEW t \in Seq(Characters), Inside(buf, 0, t), Len(t) < Len(buf), buf[Len(t) + 1] = "NUL"
  PROVE  Text(buf) = t
<1>1. Len(t) \in Nat /\ Len(buf) \in Nat
  OBVIOUS
<1>2. PICK n \in Nat : n = Len(t)
  BY <1>1
<1>3. \A i \in 1..n : buf[i] # "NUL"
  <2>1. \A i \in 1..n : 0 + i = i /\ t[i] \in Characters
    BY <1>2
  <2> QED
    BY <1>2, <2>1, CharactersAre DEF Inside
<1>4. Find(buf, "NUL", 1) = n + 1
  <2>1. n + 1 \in 1..Len(buf) /\ (n + 1) - 1 = n
    BY <1>1, <1>2
  <2> QED
    BY <1>2, <1>3, <2>1, FindsAt
<1>5. n + 1 # 0 /\ (n + 1) - 1 = n
  OBVIOUS
<1>6. Text(buf) = SubSeq(buf, 1, n)
  BY <1>4, <1>5 DEF Text
<1>7. t \in Seq(Letters)
  BY CharactersAre, SeqMonotonic
<1>8. SubSeq(buf, 0 + 1, 0 + Len(t)) = t
  BY <1>7, Whole
<1>9. 0 + 1 = 1 /\ 0 + n = n
  OBVIOUS
<1> QED
  BY <1>2, <1>6, <1>8, <1>9

LEMMA Growing ==
  ASSUME NEW s \in Seq(Characters), NEW c \in Characters, NEW v \in Seq(Characters)
  PROVE  s \o <<c>> \o v \in Seq(Characters) /\ Len(s) <= Len(s \o <<c>> \o v) /\ Len(s) \in Nat /\ Len(s \o <<c>> \o v) \in Nat
<1>1. PICK o : o = <<c>>
  OBVIOUS
<1>2. o \in Seq(Characters)
  BY <1>1
<1>3. s \o o \in Seq(Characters) /\ Len(s \o o) = Len(s) + Len(o) /\ Len(s) \in Nat /\ Len(o) \in Nat
  BY <1>2, Within
<1>4. (s \o o) \o v \in Seq(Characters) /\ Len((s \o o) \o v) = Len(s \o o) + Len(v) /\ Len(v) \in Nat
  BY <1>3, Within
<1> QED
  BY <1>1, <1>3, <1>4

\* The texts of a form as its fields are added.
LEMMA TextsOfFields ==
  ASSUME NEW d \in Devices
  PROVE  \E y : /\ y[0] = <<>> /\ y[7] = Values(d) \o <<"&signature=">>
                /\ \A i \in 0..7 : y[i] \in Seq(Characters)
                /\ \A i \in 1..7 : y[i] = y[i - 1] \o <<Fields(d)[i][1]>> \o Fields(d)[i][2]
                /\ y[6] = Values(d)
<1> DEFINE F(i) == <<Fields(d)[i][1]>>
           V(i) == Fields(d)[i][2]
<1>1. PICK y1 : y1 = <<>> \o F(1) \o V(1)
  OBVIOUS
<1>2. PICK y2 : y2 = y1 \o F(2) \o V(2)
  OBVIOUS
<1>3. PICK y3 : y3 = y2 \o F(3) \o V(3)
  OBVIOUS
<1>4. PICK y4 : y4 = y3 \o F(4) \o V(4)
  OBVIOUS
<1>5. PICK y5 : y5 = y4 \o F(5) \o V(5)
  OBVIOUS
<1>6. PICK y6 : y6 = y5 \o F(6) \o V(6)
  OBVIOUS
<1>7. PICK y7 : y7 = y6 \o F(7) \o V(7)
  OBVIOUS
<1>8. ASSUME NEW i \in 1..7, NEW s \in Seq(Characters) PROVE s \o F(i) \o V(i) \in Seq(Characters)
  BY FieldsAre, Growing
<1>9. y1 \in Seq(Characters)
  <2>1. <<>> \in Seq(Characters) /\ 1 \in 1..7
    OBVIOUS
  <2> QED
    BY <1>1, <1>8, <2>1, Zenon
<1>10. 2 \in 1..7 /\ 3 \in 1..7 /\ 4 \in 1..7 /\ 5 \in 1..7 /\ 6 \in 1..7 /\ 7 \in 1..7
  OBVIOUS
<1>11. y2 \in Seq(Characters)
  BY <1>2, <1>8, <1>9, <1>10, Zenon
<1>12. y3 \in Seq(Characters)
  BY <1>3, <1>8, <1>11, <1>10, Zenon
<1>13. y4 \in Seq(Characters)
  BY <1>4, <1>8, <1>12, <1>10, Zenon
<1>14. y5 \in Seq(Characters)
  BY <1>5, <1>8, <1>13, <1>10, Zenon
<1>15. y6 \in Seq(Characters)
  BY <1>6, <1>8, <1>14, <1>10, Zenon
<1>16. y7 \in Seq(Characters)
  BY <1>7, <1>8, <1>15, <1>10, Zenon
<1>17. /\ F(1) = <<"clientId=">> /\ F(2) = <<"&deviceName=">> /\ F(3) = <<"&expire=">> /\ F(4) = <<"&nonce=">>
       /\ F(5) = <<"&productId=">> /\ F(6) = <<"&timestamp=">> /\ F(7) = <<"&signature=">>
  BY DEF Fields
<1>18. /\ V(1) = d.client_id /\ V(2) = d.device_name /\ V(3) = <<EXPIRE>> /\ V(4) = <<NONCE>>
       /\ V(5) = d.product_id /\ V(6) = <<TIMESTAMP>> /\ V(7) = <<>>
  BY DEF Fields
<1> HIDE DEF F, V
<1>19. <<>> \o F(1) = <<"clientId=">>
  <2>1. "clientId=" \in Characters
    BY Plain
  <2>2. <<"clientId=">> \in Seq(Characters)
    BY <2>1, OneFrame, Zenon
  <2> QED
    BY <1>17, <2>2, ConcatEmptySeq, Zenon
<1>20. y6 = Values(d)
  BY <1>1, <1>2, <1>3, <1>4, <1>5, <1>6, <1>17, <1>18, <1>19, Zenon DEF Values
<1>21. y7 = Values(d) \o <<"&signature=">>
  <2>1. "&signature=" \in Characters
    BY Plain
  <2>2. <<"&signature=">> \in Seq(Characters)
    BY <2>1, OneFrame, Zenon
  <2>3. y6 \o <<"&signature=">> \in Seq(Characters)
    BY <1>15, <2>2, Within, Zenon
  <2>4. (y6 \o <<"&signature=">>) \o <<>> = y6 \o <<"&signature=">>
    BY <2>3, ConcatEmptySeq, Zenon
  <2> QED
    BY <1>7, <1>17, <1>18, <1>20, <2>4, Zenon
<1> DEFINE y == [i \in 0..7 |-> IF i = 0 THEN <<>> ELSE IF i = 1 THEN y1 ELSE IF i = 2 THEN y2 ELSE IF i = 3 THEN y3
                                ELSE IF i = 4 THEN y4 ELSE IF i = 5 THEN y5 ELSE IF i = 6 THEN y6 ELSE y7]
<1>22. y[0] = <<>> /\ y[1] = y1 /\ y[2] = y2 /\ y[3] = y3 /\ y[4] = y4 /\ y[5] = y5 /\ y[6] = y6 /\ y[7] = y7
  OBVIOUS
<1> HIDE DEF y
<1>23. \A i \in 0..7 : y[i] \in Seq(Characters)
  <2>1. \A i \in 0..7 : i \in {0, 1, 2, 3, 4, 5, 6, 7}
    OBVIOUS
  <2>2. <<>> \in Seq(Characters)
    OBVIOUS
  <2>3. /\ y[0] \in Seq(Characters) /\ y[1] \in Seq(Characters) /\ y[2] \in Seq(Characters) /\ y[3] \in Seq(Characters)
        /\ y[4] \in Seq(Characters) /\ y[5] \in Seq(Characters) /\ y[6] \in Seq(Characters) /\ y[7] \in Seq(Characters)
    BY <1>9, <1>11, <1>12, <1>13, <1>14, <1>15, <1>16, <1>22, <2>2, Zenon
  <2> QED
    BY <2>1, <2>3
<1>24. \A i \in 1..7 : y[i] = y[i - 1] \o F(i) \o V(i)
  <2>1. \A i \in 1..7 : i \in {1, 2, 3, 4, 5, 6, 7}
    OBVIOUS
  <2>2. 1 - 1 = 0 /\ 2 - 1 = 1 /\ 3 - 1 = 2 /\ 4 - 1 = 3 /\ 5 - 1 = 4 /\ 6 - 1 = 5 /\ 7 - 1 = 6
    OBVIOUS
  <2>3. y[1] = y[1 - 1] \o F(1) \o V(1)
    BY <1>1, <1>22, <2>2, Zenon
  <2>4. y[2] = y[2 - 1] \o F(2) \o V(2)
    BY <1>2, <1>22, <2>2, Zenon
  <2>5. y[3] = y[3 - 1] \o F(3) \o V(3)
    BY <1>3, <1>22, <2>2, Zenon
  <2>6. y[4] = y[4 - 1] \o F(4) \o V(4)
    BY <1>4, <1>22, <2>2, Zenon
  <2>7. y[5] = y[5 - 1] \o F(5) \o V(5)
    BY <1>5, <1>22, <2>2, Zenon
  <2>8. y[6] = y[6 - 1] \o F(6) \o V(6)
    BY <1>6, <1>22, <2>2, Zenon
  <2>9. y[7] = y[7 - 1] \o F(7) \o V(7)
    BY <1>7, <1>22, <2>2, Zenon
  <2> QED
    BY <2>1, <2>3, <2>4, <2>5, <2>6, <2>7, <2>8, <2>9, Zenon
<1> QED
  BY <1>20, <1>21, <1>22, <1>23, <1>24, Zenon DEF F, V

\* tc_iot_create_auth_request_form encodes the form a server expects, if it has the room.
LEMMA AuthFormIs ==
  ASSUME NEW d \in Devices, 3 * Len(FormOf(d)) < FormLen
  PROVE  Coded(AuthForm(d), FormOf(d))
<1>1. PICK y : /\ y[0] = <<>> /\ y[7] = Values(d) \o <<"&signature=">>
               /\ \A i \in 0..7 : y[i] \in Seq(Characters)
               /\ \A i \in 1..7 : y[i] = y[i - 1] \o <<Fields(d)[i][1]>> \o Fields(d)[i][2]
               /\ y[6] = Values(d)
  BY TextsOfFields
<1>2. PICK sign : sign = CalcAuthSign(d)
  OBVIOUS
<1>3. sign = Signature(d.secret, y[6]) /\ sign \in Seq(Characters)
  <2>1. CalcAuthSign(d) = Signature(d.secret, Values(d))
    BY SignedIs DEF CalcAuthSign, Args
  <2>2. y[6] \in Seq(Characters) /\ d.secret \in Characters
    BY <1>1, DeviceType
  <2> QED
    BY <1>1, <1>2, <2>1, <2>2, SignatureType
<1>4. FormOf(d) = y[7] \o sign
  BY <1>1, <1>3 DEF FormOf, Values
<1>5. \A i \in 0..7 : 3 * Len(y[i]) <= FormLen /\ Len(y[i]) \in Nat
  <2>1. y[7] \in Seq(Characters)
    BY <1>1
  <2>2. Len(y[7] \o sign) = Len(y[7]) + Len(sign) /\ Len(sign) \in Nat /\ Len(y[7]) \in Nat
    BY <1>3, <2>1, Within
  <2>3. \A i \in 1..7 : Len(y[i - 1]) <= Len(y[i])
    <3> SUFFICES ASSUME NEW i \in 1..7 PROVE Len(y[i - 1]) <= Len(y[i])
      OBVIOUS
    <3>0. i - 1 \in 0..7
      OBVIOUS
    <3>1. y[i - 1] \in Seq(Characters)
      BY <1>1, <3>0
    <3> QED
      BY <1>1, <3>1, FieldsAre, Growing
  <2>4. \A i \in 0..7 : Len(y[i]) \in Nat
    BY <1>1
  <2>5. /\ Len(y[0]) <= Len(y[1]) /\ Len(y[1]) <= Len(y[2]) /\ Len(y[2]) <= Len(y[3]) /\ Len(y[3]) <= Len(y[4])
        /\ Len(y[4]) <= Len(y[5]) /\ Len(y[5]) <= Len(y[6]) /\ Len(y[6]) <= Len(y[7])
    <3>1. Len(y[1 - 1]) <= Len(y[1]) /\ Len(y[2 - 1]) <= Len(y[2]) /\ Len(y[3 - 1]) <= Len(y[3]) /\ Len(y[4 - 1]) <= Len(y[4])
          /\ Len(y[5 - 1]) <= Len(y[5]) /\ Len(y[6 - 1]) <= Len(y[6]) /\ Len(y[7 - 1]) <= Len(y[7])
      BY <2>3
    <3> QED
      BY <3>1
  <2>6. \A i \in 0..7 : Len(y[i]) <= Len(y[7])
    <3> DEFINE l(i) == Len(y[i])
    <3>1. l(0) \in Nat /\ l(1) \in Nat /\ l(2) \in Nat /\ l(3) \in Nat /\ l(4) \in Nat /\ l(5) \in Nat /\ l(6) \in Nat /\ l(7) \in Nat
      BY <2>4
    <3>2. l(0) <= l(1) /\ l(1) <= l(2) /\ l(2) <= l(3) /\ l(3) <= l(4) /\ l(4) <= l(5) /\ l(5) <= l(6) /\ l(6) <= l(7)
      BY <2>5
    <3> HIDE DEF l
    <3>3. l(6) <= l(7) /\ l(5) <= l(7) /\ l(4) <= l(7) /\ l(3) <= l(7) /\ l(2) <= l(7) /\ l(1) <= l(7) /\ l(0) <= l(7) /\ l(7) <= l(7)
      BY <3>1, <3>2
    <3>4. \A i \in 0..7 : i = 0 \/ i = 1 \/ i = 2 \/ i = 3 \/ i = 4 \/ i = 5 \/ i = 6 \/ i = 7
      OBVIOUS
    <3>5. \A i \in 0..7 : l(i) <= l(7)
      BY <3>3, <3>4, Zenon
    <3> QED
      BY <3>5 DEF l
  <2> DEFINE l(i) == Len(y[i])
  <2>7. FormLen \in Nat /\ 3 * (l(7) + Len(sign)) < FormLen /\ Len(sign) \in Nat /\ l(7) \in Nat
    BY <1>4, <2>2, HttpRequestAssumption
  <2>8. \A i \in 0..7 : l(i) \in Nat /\ l(i) <= l(7)
    BY <2>4, <2>6
  <2> HIDE DEF l
  <2>9. \A i \in 0..7 : 3 * l(i) <= FormLen /\ l(i) \in Nat
    <3>1. \A k, m, n, f \in Nat : 3 * (m + n) < f /\ k <= m => 3 * k <= f
      OBVIOUS
    <3> QED
      BY <2>7, <2>8, <3>1
  <2> QED
    BY <2>9 DEF l
<1> DEFINE step == [x \in Nat \X Buffers |-> IF x[1] \in 1..7 THEN Field(d, x[1], x[2]) ELSE x[2]]
           Loop(g) == g = [i \in 0..7 |-> IF i = 0 THEN Opened(FormLen) ELSE Only({Field(d, i, b) : b \in {g[i - 1]}})]
           form == CHOOSE g : Loop(g)
           last(b) == Text(PutText(b, UrlEncode(CalcAuthSign(d), Left(b))).data)
<1>6. AuthForm(d) = last(form[7])
  <2>1. AuthForm(d) = Only({last(b) : b \in {form[7]}})
    BY DEF AuthForm, Field
  <2> HIDE DEF last, form
  <2>2. {last(b) : b \in {form[7]}} = {last(form[7])}
    OBVIOUS
  <2> QED
    BY <2>1, <2>2, OnlyOne
<1>7. \A i, a : Only({Field(d, i, b) : b \in {a}}) = Field(d, i, a)
  <2> SUFFICES ASSUME NEW i, NEW a PROVE Only({Field(d, i, b) : b \in {a}}) = Field(d, i, a)
    OBVIOUS
  <2>1. {Field(d, i, b) : b \in {a}} = {Field(d, i, a)}
    OBVIOUS
  <2> QED
    BY <2>1, OnlyOne
<1>8. \E g : Loop(g)
  <2>1. step \in [Nat \X Buffers -> Buffers]
    BY FieldIs
  <2>2. PICK g \in [0..7 -> Buffers] : g[0] = Opened(FormLen) /\ \A i \in 1..7 : g[i] = step[<<i, g[i - 1]>>]
    <3> HIDE DEF step
    <3>1. Loops(Buffers, Opened(FormLen), step, 7)
      BY <2>1, OpenedIs, LoopExists
    <3> QED
      BY <3>1 DEF Loops
  <2>3. ASSUME NEW i \in 1..7 PROVE g[i] = Field(d, i, g[i - 1])
    <3>1. i - 1 \in 0..7 /\ i \in Nat
      OBVIOUS
    <3>2. g[i - 1] \in Buffers
      BY <2>2, <3>1
    <3>3. <<i, g[i - 1]>> \in Nat \X Buffers
      BY <3>1, <3>2
    <3>4. g[i] = step[<<i, g[i - 1]>>]
      BY <2>2
    <3> QED
      BY <3>3, <3>4
  <2>4. Loop(g)
    <3>1. ASSUME NEW i \in 0..7 PROVE g[i] = IF i = 0 THEN Opened(FormLen) ELSE Only({Field(d, i, b) : b \in {g[i - 1]}})
      <4>1. CASE i = 0
        BY <2>2, <4>1
      <4>2. CASE i # 0
        <5>1. i \in 1..7
          BY <4>2
        <5>2. g[i] = Field(d, i, g[i - 1])
          BY <2>3, <5>1
        <5>3. Only({Field(d, i, b) : b \in {g[i - 1]}}) = Field(d, i, g[i - 1])
          BY <1>7, Zenon
        <5> QED
          BY <4>2, <5>2, <5>3
      <4> QED
        BY <4>1, <4>2
    <3>2. g = [i \in 0..7 |-> g[i]]
      BY <2>2
    <3> QED
      BY <3>1, <3>2
  <2> QED
    BY <2>4
<1>9. form = [i \in 0..7 |-> IF i = 0 THEN Opened(FormLen) ELSE Only({Field(d, i, b) : b \in {form[i - 1]}})]
  BY <1>8
<1> HIDE DEF form
<1>10. form[0] = Opened(FormLen) /\ \A i \in 1..7 : form[i] = Field(d, i, form[i - 1])
  <2>1. 0 \in 0..7 /\ \A i \in 1..7 : i \in 0..7 /\ i # 0
    OBVIOUS
  <2>2. ASSUME NEW i \in 1..7 PROVE form[i] = Field(d, i, form[i - 1])
    <3>1. form[i] = Only({Field(d, i, b) : b \in {form[i - 1]}})
      BY <1>9, <2>1
    <3> QED
      BY <1>7, <3>1
  <2> QED
    BY <1>9, <2>1, <2>2
<1> DEFINE R == {x \in Nat \X Buffers : Fills(x[2], y[x[1]])}
<1>11. ASSUME NEW i \in Nat, NEW b PROVE <<i, b>> \in R <=> b \in Buffers /\ Fills(b, y[i])
  OBVIOUS
<1> HIDE DEF R
<1>12. <<0, form[0]>> \in R
  BY <1>1, <1>10, <1>11, OpenedIs
<1>13. ASSUME NEW i \in 1..7, <<i - 1, form[i - 1]>> \in R PROVE <<i, form[i]>> \in R
  <2>1. PICK b : b = form[i - 1]
    OBVIOUS
  <2>2. i \in Nat /\ i - 1 \in Nat /\ i \in 0..7 /\ form[i] = Field(d, i, b)
    BY <1>10, <2>1
  <2>3. b \in Buffers /\ Fills(b, y[i - 1])
    BY <1>11, <1>13, <2>1, <2>2
  <2>4. y[i] = y[i - 1] \o <<Fields(d)[i][1]>> \o Fields(d)[i][2] /\ 3 * Len(y[i]) <= FormLen
    BY <1>1, <1>5, <2>2
  <2>5. Field(d, i, b) \in Buffers /\ Fills(Field(d, i, b), y[i])
    BY <2>3, <2>4, FieldIs
  <2> QED
    BY <1>11, <2>2, <2>5
<1>14. form[7] \in Buffers /\ Fills(form[7], y[7])
  <2>1. \A i \in 0..7 : <<i, form[i]>> \in R
    BY <1>12, <1>13, LoopKeeps
  <2> QED
    BY <1>11, <2>1
<1>15. PICK b : b = form[7]
  OBVIOUS
<1>16. PICK t : Formed(b, t) /\ Coded(t, y[7])
  BY <1>14, <1>15 DEF Fills
<1>17. PICK e : e = UrlEncode(sign, Left(b))
  OBVIOUS
<1>18. Coded(e, sign)
  <2>1. 3 * Len(y[7] \o sign) <= FormLen
    <3>1. FormLen \in Nat /\ Len(y[7] \o sign) \in Nat
      BY <1>1, <1>3, Within, HttpRequestAssumption
    <3> QED
      BY <1>4, <3>1
  <2>2. Left(b) \in Int /\ 3 * Len(sign) <= Left(b) + 2
    BY <1>3, <1>14, <1>15, <2>1, Room
  <2> QED
    BY <1>3, <1>17, <2>2, UrlEncodeIs
<1>19. Coded(t \o e, FormOf(d))
  BY <1>4, <1>16, <1>18, CodedBoth
<1>20. Len(t) + Len(e) < FormLen /\ Len(t \o e) = Len(t) + Len(e) /\ Len(t) \in Nat /\ Len(e) \in Nat
  <2>1. Len(t \o e) <= 3 * Len(FormOf(d)) /\ Len(t \o e) \in Nat /\ Len(FormOf(d)) \in Nat
    BY <1>19, CodedType
  <2>2. Len(t \o e) = Len(t) + Len(e) /\ Len(t) \in Nat /\ Len(e) \in Nat
    BY <1>16, <1>18, CodedType, Within
  <2> QED
    BY <2>1, <2>2, HttpRequestAssumption
<1>21. PICK a : a = PutText(b, e)
  OBVIOUS
<1>22. Formed(a, t \o e) /\ a.data[Len(t) + Len(e) + 1] = "NUL"
  <2>1. e \in Seq(Letters)
    BY <1>18, CodedLetters
  <2>2. b \in Buffers /\ Len(t) + Len(e) <= FormLen
    BY <1>14, <1>15, <1>20, HttpRequestAssumption
  <2> QED
    BY <1>16, <1>20, <1>21, <2>1, <2>2, PutTextIs
<1>23. Text(a.data) = t \o e
  <2>1. a.data \in Seq(Letters) /\ Len(a.data) = FormLen + 2 /\ Inside(a.data, 0, t \o e)
    BY <1>22 DEF Formed, Buffers
  <2>2. t \o e \in Seq(Characters)
    BY <1>19, CodedType
  <2>3. Len(t \o e) < Len(a.data) /\ a.data[Len(t \o e) + 1] = "NUL"
    BY <1>20, <1>22, <2>1, HttpRequestAssumption
  <2> QED
    BY <2>1, <2>2, <2>3, TextIs
<1>24. AuthForm(d) = t \o e
  BY <1>2, <1>6, <1>15, <1>17, <1>21, <1>23
<1> QED
  BY <1>19, <1>24

-----------------------------------------------------------------------------
(* What decoding makes of it.                                              *)

\* What an index takes from an index behind it can be computed for all of them.
Backwards(g, n, x, k) == g = [i \in 1..(n + 3) |-> IF i > n THEN <<>> ELSE <<x[i]>> \o g[i + k[i]]]

LEMMA RightExists ==
  ASSUME NEW n \in Nat, NEW x, NEW k, \A i \in 1..n : k[i] \in {1, 3}
  PROVE  \E g : Backwards(g, n, x, k)
<1> DEFINE N == n + 3
           B(g, i) == IF i > n THEN <<>> ELSE <<x[i]>> \o g[i + k[i]]
           Part(g, m) == g = [i \in 1..N |-> IF i > N - m THEN B(g, i) ELSE <<>>]
           f == [i \in 0..N |-> i]
           R == {p \in Nat \X Nat : \E g : Part(g, p[1])}
<1>1. N \in Nat /\ n \in Nat
  OBVIOUS
<1>2. Part([i \in 1..N |-> <<>>], 0)
  <2>1. \A i \in 1..N : ~(i > N - 0)
    OBVIOUS
  <2> QED
    BY <2>1
<1>3. ASSUME NEW m \in 1..N, NEW g, Part(g, m - 1) PROVE \E h : Part(h, m)
  <2> DEFINE h == [i \in 1..N |-> IF i > N - (m - 1) THEN g[i] ELSE IF i = N - (m - 1) THEN B(g, i) ELSE <<>>]
  <2>1. \A i \in 1..N : g[i] = IF i > N - (m - 1) THEN B(g, i) ELSE <<>>
    BY <1>3
  <2>2. \A i \in 1..N : h[i] = IF i > N - (m - 1) THEN g[i] ELSE IF i = N - (m - 1) THEN B(g, i) ELSE <<>>
    OBVIOUS
  <2>3. h = [i \in 1..N |-> h[i]]
    OBVIOUS
  <2> HIDE DEF h
  <2>4. ASSUME NEW i \in 1..N, i > N - m PROVE B(h, i) = B(g, i)
    <3>1. CASE i > n
      BY <3>1
    <3>2. CASE ~(i > n)
      <4>1. i \in 1..n /\ k[i] \in {1, 3}
        BY <1>1, <3>2
      <4>2. i + k[i] \in 1..N /\ i + k[i] > N - (m - 1)
        BY <1>1, <2>4, <4>1
      <4>3. h[i + k[i]] = g[i + k[i]]
        BY <2>2, <4>2
      <4> QED
        BY <3>2, <4>3
    <3> QED
      BY <3>1, <3>2
  <2> HIDE DEF B
  <2>5. ASSUME NEW i \in 1..N PROVE h[i] = IF i > N - m THEN B(h, i) ELSE <<>>
    <3>1. CASE i > N - (m - 1)
      <4>1. i > N - m
        BY <1>1, <3>1
      <4>2. h[i] = g[i] /\ g[i] = B(g, i)
        BY <2>1, <2>2, <3>1
      <4> QED
        BY <2>4, <4>1, <4>2
    <3>2. CASE i = N - (m - 1)
      <4>1. i > N - m /\ ~(i > N - (m - 1))
        BY <1>1, <3>2
      <4>2. h[i] = B(g, i)
        BY <2>2, <3>2, <4>1
      <4> QED
        BY <2>4, <4>1, <4>2
    <3>3. CASE i < N - (m - 1)
      <4>1. ~(i > N - m) /\ ~(i > N - (m - 1)) /\ i # N - (m - 1)
        BY <1>1, <3>3
      <4> QED
        BY <2>2, <4>1
    <3> QED
      BY <1>1, <3>1, <3>2, <3>3
  <2> QED
    BY <2>3, <2>5
<1>4. ASSUME NEW m \in 0..N PROVE f[m] = m /\ (<<m, f[m]>> \in R <=> \E g : Part(g, m))
  <2> HIDE DEF Part
  <2> QED
    OBVIOUS
<1> HIDE DEF R, f, Part
<1>5. \A m \in 0..N : <<m, f[m]>> \in R
  <2>1. <<0, f[0]>> \in R
    BY <1>1, <1>2, <1>4
  <2>2. ASSUME NEW m \in 1..N, <<m - 1, f[m - 1]>> \in R PROVE <<m, f[m]>> \in R
    <3>1. m - 1 \in 0..N /\ m \in 0..N
      BY <1>1
    <3> QED
      BY <1>3, <1>4, <2>2, <3>1
  <2> QED
    BY <1>1, <2>1, <2>2, LoopKeeps
<1>6. PICK g : Part(g, N)
  <2>1. N \in 0..N
    BY <1>1
  <2>2. \E g : Part(g, N)
    BY <1>4, <1>5, <2>1
  <2> HIDE DEF N
  <2> QED
    BY <2>2, Zenon
<1>7. g = [i \in 1..N |-> B(g, i)]
  <2>1. \A i \in 1..N : i > N - N
    BY <1>1
  <2> HIDE DEF B
  <2> QED
    BY <1>6, <2>1 DEF Part
<1> QED
  BY <1>7 DEF Backwards

LEMMA EscapesDiffer ==
  ASSUME NEW c \in DOMAIN Escapes, NEW e \in DOMAIN Escapes, Escapes[c] = Escapes[e]
  PROVE  c = e
<1>1. DOMAIN Escapes = {"%", "&", "+", "/", "=", "~"}
  BY DEF Escapes
<1>2. /\ Escapes["%"] = <<"%", "2", "5">> /\ Escapes["&"] = <<"%", "2", "6">> /\ Escapes["+"] = <<"%", "2", "B">>
      /\ Escapes["/"] = <<"%", "2", "F">> /\ Escapes["="] = <<"%", "3", "D">> /\ Escapes["~"] = <<"%", "7", "E">>
  BY DEF Escapes
<1>3. /\ Escapes["%"][3] = "5" /\ Escapes["&"][3] = "6" /\ Escapes["+"][3] = "B"
      /\ Escapes["/"][3] = "F" /\ Escapes["="][3] = "D" /\ Escapes["~"][3] = "E"
  BY <1>2
<1> QED
  BY <1>1, <1>3

LEMMA EscapesAre ==
  ASSUME NEW c \in DOMAIN Escapes
  PROVE  Len(Escapes[c]) = 3 /\ Escapes[c][1] = "%" /\ Escapes[c] = Encoded(c)
<1>1. DOMAIN Escapes = {"%", "&", "+", "/", "=", "~"}
  BY DEF Escapes
<1>2. /\ Escapes["%"] = <<"%", "2", "5">> /\ Escapes["&"] = <<"%", "2", "6">> /\ Escapes["+"] = <<"%", "2", "B">>
      /\ Escapes["/"] = <<"%", "2", "F">> /\ Escapes["="] = <<"%", "3", "D">> /\ Escapes["~"] = <<"%", "7", "E">>
  BY DEF Escapes
<1>3. \A y, z : Len(<<"%", y, z>>) = 3 /\ <<"%", y, z>>[1] = "%"
  OBVIOUS
<1>4. Len(Escapes[c]) = 3 /\ Escapes[c][1] = "%"
  BY <1>1, <1>2, <1>3
<1>5. Escapes[c] = Encoded(c)
  BY DEF Encoded
<1> QED
  BY <1>4, <1>5

\* A character that is not escaped stands for itself or for a blank.
StandsFor(c) == CASE c = "+" -> " " [] c \in {"&", "="} -> "separator" [] OTHER -> c

LEMMA Stands ==
  ASSUME NEW c, c \notin DOMAIN Escapes
  PROVE  /\ c = " " => Encoded(c) = <<"+">>
         /\ c # " " => Encoded(c) = <<c>> /\ c # "%" /\ StandsFor(c) = c
         /\ StandsFor("+") = " "
<1>1. DOMAIN Escapes = {"%", "&", "+", "/", "=", "~"}
  BY DEF Escapes
<1>2. c # "%" /\ c # "+" /\ c # "&" /\ c # "="
  BY <1>1
<1>3. StandsFor(c) = c /\ StandsFor("+") = " "
  BY <1>2 DEF StandsFor
<1> QED
  BY <1>2, <1>3 DEF Encoded

\* A text inside another one is there part by part.
LEMMA Parted ==
  ASSUME NEW w \in Seq(Characters), NEW t \in Seq(Characters), NEW e \in Seq(Characters), Inside(w, 0, t \o e)
  PROVE  Inside(w, 0, t) /\ Inside(w, Len(t), e)
<1>1. PICK x : x = t \o e
  OBVIOUS
<1>2. /\ Len(x) = Len(t) + Len(e) /\ Len(t) \in Nat /\ Len(e) \in Nat
      /\ \A i \in 1..Len(t) : x[i] = t[i]
      /\ \A i \in 1..Len(e) : x[Len(t) + i] = e[i]
  BY <1>1, Behind
<1>3. 0 + Len(x) <= Len(w) /\ \A i \in 1..Len(x) : w[0 + i] = x[i]
  BY <1>1 DEF Inside
<1>4. ASSUME NEW i \in 1..Len(t) PROVE w[0 + i] = t[i]
  <2>1. i \in 1..Len(x)
    BY <1>2
  <2> QED
    BY <1>2, <1>3, <2>1
<1>5. ASSUME NEW i \in 1..Len(e) PROVE w[Len(t) + i] = e[i]
  <2>1. Len(t) + i \in 1..Len(x) /\ 0 + (Len(t) + i) = Len(t) + i
    BY <1>2
  <2> QED
    BY <1>2, <1>3, <2>1
<1>6. 0 + Len(t) <= Len(w) /\ Len(t) + Len(e) <= Len(w)
  <2>1. Len(t) + Len(e) <= Len(w)
    BY <1>2, <1>3
  <2>2. Len(w) \in Nat
    OBVIOUS
  <2> QED
    BY <1>2, <2>1, <2>2
<1> QED
  BY <1>4, <1>5, <1>6 DEF Inside

\* A server that decodes the encoding of a text reads the text.
LEMMA DecodedIs ==
  ASSUME NEW w, NEW text, Coded(w, text)
  PROVE  Decoded(w) = text
<1> DEFINE n == Len(w)
           E(i) == CHOOSE c \in DOMAIN Escapes : Escapes[c] = SubSeq(w, i, i + 2)
           Loop(g) == g = [i \in 1..(n + 3) |->
                             IF i > n THEN <<>>
                             ELSE IF w[i] = "%" THEN <<E(i)>> \o g[i + 3]
                             ELSE <<StandsFor(w[i])>> \o g[i + 1]]
           from == CHOOSE g : Loop(g)
<1>1. w \in Seq(Characters) /\ text \in Seq(Characters) /\ n \in Nat
  BY CodedType
<1>2. Decoded(w) = from[1]
  BY DEF Decoded, StandsFor
<1> HIDE DEF E
<1>3. \E g : Loop(g)
  <2> DEFINE x == [i \in 1..n |-> IF w[i] = "%" THEN E(i) ELSE StandsFor(w[i])]
             k == [i \in 1..n |-> IF w[i] = "%" THEN 3 ELSE 1]
  <2>1. \A i \in 1..n : k[i] \in {1, 3}
    OBVIOUS
  <2>2. \A i \in 1..n : /\ w[i] = "%" => x[i] = E(i) /\ k[i] = 3
                        /\ w[i] # "%" => x[i] = StandsFor(w[i]) /\ k[i] = 1
    OBVIOUS
  <2> HIDE DEF x, k
  <2>3. PICK g : g = [i \in 1..(n + 3) |-> IF i > n THEN <<>> ELSE <<x[i]>> \o g[i + k[i]]]
    <3> HIDE DEF n
    <3>1. n \in Nat
      BY <1>1
    <3>2. \A i \in 1..n : k[i] \in {1, 3}
      BY <2>1
    <3>3. \E g : Backwards(g, n, x, k)
      BY <3>1, <3>2, RightExists, Zenon
    <3> QED
      BY <3>3 DEF Backwards
  <2>4. ASSUME NEW i \in 1..(n + 3)
        PROVE  g[i] = IF i > n THEN <<>> ELSE IF w[i] = "%" THEN <<E(i)>> \o g[i + 3] ELSE <<StandsFor(w[i])>> \o g[i + 1]
    <3>1. g[i] = IF i > n THEN <<>> ELSE <<x[i]>> \o g[i + k[i]]
      BY <2>3
    <3>2. CASE i > n
      BY <3>1, <3>2
    <3>3. CASE ~(i > n)
      <4>1. i \in 1..n
        BY <1>1, <3>3
      <4>2. CASE w[i] = "%"
        <5>1. x[i] = E(i) /\ k[i] = 3
          BY <2>2, <4>1, <4>2
        <5> QED
          BY <3>1, <3>3, <4>2, <5>1, Zenon
      <4>3. CASE w[i] # "%"
        <5>1. x[i] = StandsFor(w[i]) /\ k[i] = 1
          BY <2>2, <4>1, <4>3
        <5> QED
          BY <3>1, <3>3, <4>3, <5>1, Zenon
      <4> QED
        BY <4>2, <4>3
    <3> QED
      BY <3>2, <3>3
  <2>5. g = [i \in 1..(n + 3) |-> g[i]]
    BY <2>3
  <2>6. Loop(g)
    BY <2>4, <2>5
  <2> QED
    BY <2>6
<1>4. Loop(from)
  BY <1>3
<1> HIDE DEF from
<1>5. from[n + 1] = <<>>
  <2>1. n + 1 \in 1..(n + 3) /\ n + 1 > n
    BY <1>1
  <2> QED
    BY <1>4, <2>1
<1>6. ASSUME NEW i \in 1..n PROVE from[i] = IF w[i] = "%" THEN <<E(i)>> \o from[i + 3] ELSE <<StandsFor(w[i])>> \o from[i + 1]
  <2>1. i \in 1..(n + 3) /\ ~(i > n)
    BY <1>1
  <2> QED
    BY <1>4, <2>1
<1> HIDE DEF Loop, n
<1> DEFINE Right(t, s) == Inside(w, 0, t) => \A r \in Seq(Characters) : from[Len(t) + 1] = r => from[1] = s \o r
           R == {p \in Codes : Right(p[1], p[2])}
<1>7. ASSUME NEW t, NEW s PROVE <<t, s>> \in R <=> t \in Seq(Characters) /\ s \in Seq(Characters) /\ Right(t, s)
  BY DEF Codes
<1>8. R \in SUBSET Codes
  OBVIOUS
<1> HIDE DEF R
<1>9. <<<<>>, <<>>>> \in R
  <2>1. <<>> \in Seq(Characters) /\ Len(<<>>) + 1 = 1 /\ \A r \in Seq(Characters) : <<>> \o r = r
    BY ConcatEmptySeq
  <2>2. Right(<<>>, <<>>)
    BY <2>1
  <2> HIDE DEF Right
  <2> QED
    BY <1>7, <2>1, <2>2
<1>10. ASSUME NEW t \in Seq(Characters), NEW s \in Seq(Characters), <<t, s>> \in R, NEW c \in Characters
       PROVE  <<t \o Encoded(c), s \o <<c>>>> \in R
  <2>1. PICK e : e = Encoded(c)
    OBVIOUS
  <2>2. PICK o : o = <<c>>
    OBVIOUS
  <2>3. e \in Seq(Characters) /\ Len(e) \in 1..3 /\ o \in Seq(Characters)
    BY <2>1, <2>2, CharactersAre, EncodedIs
  <2>4. Right(t, s)
    BY <1>7, <1>10
  <2>5. /\ t \o e \in Seq(Characters) /\ s \o o \in Seq(Characters) /\ Len(t \o e) = Len(t) + Len(e) /\ Len(t) \in Nat
    BY <2>3, Within
  <2>6. ASSUME Inside(w, 0, t \o e), NEW r \in Seq(Characters), from[Len(t \o e) + 1] = r
        PROVE  from[1] = (s \o o) \o r
    <3>1. PICK i : i = Len(t) + 1
      OBVIOUS
    <3>2. Inside(w, 0, t) /\ Inside(w, Len(t), e)
      BY <1>1, <2>3, <2>6, Parted
    <3>3. i \in 1..n /\ Len(w) = n /\ Len(w) \in Nat
      <4>1. Len(w) = n /\ n \in Nat
        BY <1>1 DEF n
      <4>2. Len(t) + Len(e) <= n
        BY <3>2, <4>1 DEF Inside
      <4>3. \A a, b, m \in Nat : b \in 1..3 /\ a + b <= m => a + 1 \in 1..m
        OBVIOUS
      <4>4. Len(t) \in Nat /\ Len(e) \in Nat /\ Len(e) \in 1..3
        BY <2>3, <2>5
      <4>5. i \in 1..n
        BY <3>1, <4>1, <4>2, <4>3, <4>4
      <4> QED
        BY <4>1, <4>5
    <3>4. \A j \in 1..Len(e) : w[Len(t) + j] = e[j]
      BY <3>2 DEF Inside
    <3>5. from[i] = <<c>> \o r
      <4>1. CASE c \in DOMAIN Escapes
        <5>1. Len(e) = 3 /\ e[1] = "%" /\ e = Escapes[c]
          BY <2>1, <4>1, EscapesAre
        <5>2. w[i] = "%"
          BY <3>1, <3>4, <5>1
        <5>3. SubSeq(w, i, i + 2) = e
          <6>1. SubSeq(w, Len(t) + 1, Len(t) + Len(e)) = e
            BY <1>1, <2>3, <2>5, <3>2, Whole
          <6>2. Len(t) + Len(e) = i + 2
            BY <2>5, <3>1, <5>1
          <6> QED
            BY <3>1, <6>1, <6>2
        <5>4. E(i) = c
          <6>1. SubSeq(w, i, i + 2) = Escapes[c]
            BY <5>1, <5>3
          <6>2. \A b \in DOMAIN Escapes : Escapes[b] = SubSeq(w, i, i + 2) => b = c
            BY <4>1, <6>1, EscapesDiffer
          <6> QED
            BY <4>1, <6>1, <6>2 DEF E
        <5>5. from[i + 3] = r
          <6>1. i + 3 = Len(t \o e) + 1
            BY <2>5, <3>1, <5>1
          <6> QED
            BY <2>6, <6>1
        <5> QED
          BY <1>6, <3>3, <5>2, <5>4, <5>5
      <4>2. CASE c \notin DOMAIN Escapes
        <5>1. Len(e) = 1 /\ e[1] # "%" /\ StandsFor(e[1]) = c
          <6>1. CASE c = " "
            <7>1. e = <<"+">>
              BY <2>1, <4>2, <6>1, Stands
            <7>2. Len(e) = 1 /\ e[1] = "+"
              BY <7>1
            <7> QED
              BY <4>2, <6>1, <7>2, Stands
          <6>2. CASE c # " "
            <7>1. e = <<c>> /\ c # "%" /\ StandsFor(c) = c
              BY <2>1, <4>2, <6>2, Stands
            <7>2. Len(e) = 1 /\ e[1] = c
              BY <7>1
            <7> QED
              BY <7>1, <7>2
          <6> QED
            BY <6>1, <6>2
        <5>2. w[i] = e[1]
          BY <3>1, <3>4, <5>1
        <5>3. from[i + 1] = r
          <6>1. i + 1 = Len(t \o e) + 1
            BY <2>5, <3>1, <5>1
          <6> QED
            BY <2>6, <6>1
        <5> QED
          BY <1>6, <3>3, <5>1, <5>2, <5>3
      <4> QED
        BY <4>1, <4>2
    <3>6. o \o r \in Seq(Characters) /\ s \o (o \o r) = (s \o o) \o r
      BY <2>3, Within, Joined
    <3>7. from[1] = s \o (o \o r)
      BY <2>2, <2>4, <3>1, <3>2, <3>5, <3>6
    <3> QED
      BY <3>6, <3>7
  <2>7. Right(t \o e, s \o o)
    BY <2>6
  <2> HIDE DEF Right
  <2> QED
    BY <1>7, <2>1, <2>2, <2>5, <2>7
<1>11. <<w, text>> \in R
  BY <1>8, <1>9, <1>10 DEF Coded, Coding
<1>12. Right(w, text)
  BY <1>7, <1>11
<1>13. from[1] = text \o <<>>
  <2>1. Inside(w, 0, w) /\ <<>> \in Seq(Characters) /\ from[Len(w) + 1] = <<>>
    BY <1>1, <1>5, InsideItself DEF n
  <2> QED
    BY <1>12, <2>1
<1>14. text \o <<>> = text
  BY <1>1, ConcatEmptySeq
<1> QED
  BY <1>2, <1>13, <1>14

-----------------------------------------------------------------------------
(* What the servers read of the requests.                                  *)

LEMMA TokenReads ==
  ASSUME RequestsFit, NEW d \in Devices, NEW s \in BOOLEAN
  PROVE  /\ ServerReads(TokenRequest[d][s].text).whole /\ ServerReads(TokenRequest[d][s].text).method = "POST"
         /\ Decoded(ServerReads(TokenRequest[d][s].text).body) = FormOf(d)
         /\ TokenRequest[d][s].device = d
<1>1. PICK form : form = AuthForm(d)
  OBVIOUS
<1>2. TokenRequest[d][s].text = FormatBuffer("POST", API_TOKEN_PATH, API_HOST, form) /\ TokenRequest[d][s].device = d
  BY <1>1 DEF TokenRequest
<1>3. Coded(form, FormOf(d)) /\ 3 * Len(FormOf(d)) < FormLen
  BY <1>1, AuthFormIs DEF RequestsFit
<1>4. /\ form \in Seq(Characters) /\ Len(form) \in Nat /\ Len(FormOf(d)) \in Nat /\ Len(form) <= 3 * Len(FormOf(d))
  BY <1>3, CodedType
<1>5. /\ "POST" \in Characters /\ API_TOKEN_PATH \in Seq(Characters) /\ API_HOST \in Seq(Characters)
      /\ Len(API_TOKEN_PATH) = 1 /\ Len(API_HOST) = 1
  <2>1. "POST" \in Characters /\ "/token" \in Characters /\ "auth-device-iot.tencentcloudapi.com" \in Characters
    BY CharactersAre DEF Literals
  <2> QED
    BY <2>1 DEF API_TOKEN_PATH, API_HOST
<1>6. Len(API_TOKEN_PATH) + Len(API_HOST) + Len(form) + 5 < RequestLen
  BY <1>3, <1>4, <1>5, HttpRequestAssumption DEF RequestsFit
<1>7. ServerReads(FormatBuffer("POST", API_TOKEN_PATH, API_HOST, form)) =
        [whole |-> TRUE, method |-> "POST", path |-> API_TOKEN_PATH, host |-> API_HOST, body |-> form]
  BY <1>4, <1>5, <1>6, RequestReads
<1>8. Decoded(form) = FormOf(d)
  BY <1>3, DecodedIs
<1> QED
  BY <1>2, <1>7, <1>8

LEMMA UrlReads ==
  ASSUME RequestsFit, NEW method \in {"HEAD", "GET"}, NEW u \in Urls
  PROVE  /\ ServerReads(UrlRequest[method][u].text).whole /\ ServerReads(UrlRequest[method][u].text).method = method
         /\ ServerReads(UrlRequest[method][u].text).path = u.path
         /\ ServerReads(UrlRequest[method][u].text).host = u.host
         /\ UrlRequest[method][u].port = PortOf(u) /\ UrlRequest[method][u].secured = u.secured
<1> DEFINE p == UrlParse(Spelled(u))
<1>1. UrlRequest[method][u] = Asked(method, p)
  <2>1. UrlRequest[method][u] = Only({Asked(method, q) : q \in {p}})
    BY DEF UrlRequest
  <2> HIDE DEF p
  <2>2. {Asked(method, q) : q \in {p}} = {Asked(method, p)}
    OBVIOUS
  <2> QED
    BY <2>1, <2>2, OnlyOne
<1>2. p = [ok |-> TRUE, secured |-> u.secured, host |-> u.host, path |-> u.path, port |-> PortOf(u)]
  BY SpelledParses DEF Parts
<1> HIDE DEF p
<1>3. /\ UrlRequest[method][u].text = FormatBuffer(method, u.path, u.host, <<>>)
      /\ UrlRequest[method][u].port = PortOf(u) /\ UrlRequest[method][u].secured = u.secured
  BY <1>1, <1>2 DEF Asked
<1>4. u.path \in Seq(Characters) /\ u.host \in Seq(Characters) /\ <<>> \in Seq(Characters) /\ Len(<<>>) = 0
  BY UrlType
<1>5. method \in Characters
  BY CharactersAre DEF Literals
<1>6. PICK path, host, none : path = u.path /\ host = u.host /\ none = <<>>
  OBVIOUS
<1>7. Len(path) + Len(host) + Len(none) + 5 < RequestLen
  <2>1. Len(u.path) + Len(u.host) + 5 < RequestLen
    BY DEF RequestsFit
  <2>2. Len(path) \in Nat /\ Len(host) \in Nat
    BY <1>4, <1>6
  <2>3. Len(none) = 0
    BY <1>4, <1>6
  <2>4. Len(path) + Len(host) + 5 < RequestLen
    BY <1>6, <2>1, Zenon
  <2>5. \A a, b \in Nat : a + b + 0 + 5 = a + b + 5
    OBVIOUS
  <2>6. Len(path) + Len(host) + Len(none) + 5 = Len(path) + Len(host) + 5
    BY <2>2, <2>3, <2>5, Zenon
  <2> QED
    BY <2>4, <2>6, Zenon
<1>8. ServerReads(FormatBuffer(method, path, host, none)) =
        [whole |-> TRUE, method |-> method, path |-> path, host |-> host, body |-> none]
  BY <1>4, <1>5, <1>6, <1>7, RequestReads
<1> QED
  BY <1>3, <1>6, <1>8
=============================================================================
