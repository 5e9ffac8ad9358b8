---------------------------- MODULE WindowProofs ----------------------------
(***************************************************************************)
(* Proofs about WindowTransfer, for any window, text and number of         *)
(* messages and faults: what arrives of the first message is its first     *)
(* pieces, and without faults every message arrives as a whole.            *)
(***************************************************************************)
EXTENDS WindowTransfer, SequenceTheorems, TLAPS

Datagrams == [text : Piece \cup {Nul}, index : Index]

Small(d) == d.index <= MaxPacket /\ (d.text # Nul => d.index < MaxPacket)
QueueOK(q) == q \in Seq(Datagrams) /\ Len(q) <= MaxQueue /\ \A i \in DOMAIN q : Small(q[i])
NetOK(n) == n \in [Side -> Seq(Datagrams)] /\ \A s \in Side : QueueOK(n[s])

FilesOK ==
  /\ text \in Seq(Piece) /\ written \in Seq(Piece) /\ printed \in Seq(Piece)
  /\ message \in 0..Messages
  /\ pc \in [Side -> {"send", "receive", "done"}]
  /\ pc[Requester] # "done" => message < Messages

\* The windows follow the count of packets.
SenderOK ==
  /\ count \in [Side -> 0..MaxPacket] /\ left \in [Side -> 0..MaxPacket]
  /\ startWindow \in [Side -> 0..MaxPacket] /\ at \in [Side -> Place]
  /\ endWindow \in [Side -> 0..(MaxPacket + Window - 1)]
  /\ \A s \in Side : /\ startWindow[s] <= count[s] /\ startWindow[s] <= endWindow[s] + 1
                     /\ at[s].piece <= count[s] + 1

ReceiverOK ==
  /\ expected \in [Side -> 0..MaxPacket]
  /\ lastWanted \in [Side -> 0..(MaxPacket + Window - 1)]

FaultsOK == faults \in Seq({"lose", "overtake", "repeat"}) /\ Len(faults) <= MaxFaults

Typed == FilesOK /\ SenderOK /\ ReceiverOK /\ NetOK(net) /\ FaultsOK

-----------------------------------------------------------------------------
(* What is under way *)

Data(q) == {i \in DOMAIN q : q[i].text # Nul}
Nuls(q) == {i \in DOMAIN q : q[i].text = Nul}

\* No two packets have the same number, and none is before packet e.
Ordered(q, e) ==
  /\ \A i, j \in Data(q) : q[i].index = q[j].index => i = j
  /\ \A i \in Data(q) : q[i].index >= e

\* Every packet before packet h carries the piece of its number, one of n.
Clean(q, h, n) ==
  \A i \in Data(q) : q[i].index < h =>
    q[i].text = q[i].index + 1 /\ q[i].text <= n

AtMostOne(S) == \A i, j \in S : i = j

-----------------------------------------------------------------------------
(* The first message *)

\* The first pieces of the text.
Begins(p, n) == Len(p) <= n /\ \A i \in 1..Len(p) : p[i] = i

Fresh(s) ==
  /\ count[s] = 0 /\ startWindow[s] = 0 /\ endWindow[s] = Window - 1
  /\ at[s] = [piece |-> 1, inside |-> FALSE]

MaySend(s) == pc[s] = "send" /\ (AtEnd(s) => startWindow[s] = endWindow[s] + 1)

\* Every packet so far carries the piece of its number.
InStep(s) ==
  LET r == Other(s) IN
  /\ startWindow[s] = count[s] /\ count[s] <= Len(Source(s))
  /\ at[s] = [piece |-> count[s] + 1, inside |-> FALSE]
  /\ Clean(net[r], count[s], Len(text))
  /\ \/ endWindow[s] = lastWanted[r] /\ Nuls(net[s]) = {}
     \/ /\ endWindow[s] = lastWanted[r] - Window
        /\ count[s] = endWindow[s] + 1 /\ expected[r] = count[s]
        /\ AtMostOne(Nuls(net[s]))
        /\ \A i \in Nuls(net[s]) : net[s][i].index = count[s]

\* A packet h is missing, and never comes again.
Stuck(s) ==
  LET r == Other(s) IN
  \E h \in 0..MaxPacket :
    /\ expected[r] <= h
    /\ h < count[s] \/ ~MaySend(s)
    /\ \A i \in Data(net[r]) : net[r][i].index # h
    /\ Clean(net[r], h, Len(text))

Behind(s) ==
  LET r == Other(s) IN
  expected[r] <= count[s] /\ \A i \in Data(net[r]) : net[r][i].index < count[s]

Flow(s) == InStep(s) \/ Stuck(s)

RequesterSends ==
  /\ pc[Requester] = "send" /\ pc[Responder] = "receive"
  /\ Fresh(Responder) /\ expected[Requester] = 0
  /\ Nuls(net[Responder]) = {} /\ Data(net[Requester]) = {}
  /\ Behind(Requester)
  /\ Flow(Requester)

NobodySends ==
  /\ pc[Requester] = "receive" /\ pc[Responder] = "receive"
  /\ Fresh(Responder) /\ expected[Requester] = 0 /\ lastWanted[Requester] = Window - 1
  /\ AtMostOne(Nuls(net[Responder])) /\ Data(net[Requester]) = {}
  /\ Stuck(Requester)

ResponderSends ==
  /\ pc[Requester] = "receive" /\ pc[Responder] = "send"
  /\ Behind(Responder)
  /\ Stuck(Requester)
  /\ Flow(Responder)
  /\ written = <<>> =>
       /\ Fresh(Responder) /\ expected[Requester] = 0 /\ lastWanted[Requester] = Window - 1
       /\ Nuls(net[Responder]) = {} /\ Data(net[Requester]) = {}

ResponderSent ==
  /\ pc[Requester] = "receive" /\ pc[Responder] \in {"receive", "send"}
  /\ Fresh(Responder) /\ written = <<>>
  /\ \A i \in Data(net[Responder]) : net[Responder][i].index # 0
  /\ Stuck(Responder)

Phase == RequesterSends \/ NobodySends \/ ResponderSends \/ ResponderSent

Arrived ==
  /\ Len(written) = expected[Responder] /\ Begins(written, Len(text))
  /\ Len(printed) = expected[Requester] /\ Begins(printed, Len(text))
  /\ \A r \in Side : Ordered(net[r], expected[r])

FirstMessage == Arrived /\ Phase

-----------------------------------------------------------------------------
(* Without faults *)

Kept(s) == IF s = Responder THEN written ELSE printed

\* The pieces from e to k are under way.
Packets(q, e, k) ==
  /\ e <= k /\ Len(q) >= k - e
  /\ \A i \in 1..(k - e) : q[i] = Datagram(e + i, e + i - 1)

Sending(s) ==
  LET r == Other(s) IN
  /\ pc[s] = "send" /\ pc[r] = "receive"
  /\ startWindow[s] = count[s] /\ count[s] <= Len(text)
  /\ at[s] = [piece |-> count[s] + 1, inside |-> FALSE]
  /\ Packets(net[r], expected[r], count[s]) /\ Len(net[r]) = count[s] - expected[r]
  /\ \/ endWindow[s] = lastWanted[r] /\ net[s] = <<>>
     \/ /\ endWindow[s] = lastWanted[r] - Window
        /\ count[s] = endWindow[s] + 1 /\ expected[r] = count[s]
        /\ net[s] = <<Datagram(Nul, count[s])>>
  /\ Source(s) = text /\ Fresh(r)
  /\ s = Requester /\ message > 0 => printed = text

Ended(s) ==
  LET r == Other(s) IN
  /\ pc[s] = "receive" /\ pc[r] = "receive"
  /\ Fresh(s) /\ Fresh(r)
  /\ expected[s] = 0 /\ lastWanted[s] = Window - 1
  /\ net[s] = <<>>
  /\ Packets(net[r], expected[r], Len(text))
  /\ Len(net[r]) = Len(text) - expected[r] + 1 /\ net[r][Len(net[r])].text = Nul
  /\ Len(text) <= lastWanted[r]

Over ==
  /\ pc[Requester] = "done" /\ pc[Responder] = "receive"
  /\ \A s \in Side : net[s] = <<>>
  /\ printed = text

Collected ==
  \A s \in Side : pc[s] = "receive" =>
    Len(Kept(s)) = expected[s] /\ Begins(Kept(s), Len(text))

EveryMessage == Over \/ (Collected /\ \E s \in Side : Sending(s) \/ Ended(s))

\* The pieces of the text are numbered.
Counted == \A i \in 1..Len(text) : text[i] = i

Transfer ==
  /\ Counted
  /\ ~Repeated /\ message = 0 => FirstMessage
  /\ Faultless => EveryMessage

-----------------------------------------------------------------------------
(* Sides and lists *)

LEMMA Sides ==
  /\ Other(Requester) = Responder /\ Other(Responder) = Requester
  /\ \A s \in Side : /\ Other(s) \in Side /\ Other(s) # s /\ Other(Other(s)) = s
                     /\ \A x \in Side : x # s => x = Other(s)
<1>1. Other(Requester) = Responder
  BY SideAssumption DEF Other, Side
<1>2. Other(Responder) = Requester
  BY SideAssumption DEF Other, Side
<1> QED  BY <1>1, <1>2, SideAssumption DEF Side

LEMMA Consts ==
  /\ Window \in Nat /\ Window >= 1 /\ Messages \in Nat /\ Messages >= 1
  /\ MaxLength \in Nat /\ MaxFaults \in Nat /\ MaxPacket \in Nat /\ MaxQueue \in Nat
BY SizeAssumption

\* Every element of p is one of q, at another place for each.
Selects(p, q) ==
  \E f \in [DOMAIN p -> DOMAIN q] :
    \A i, j \in DOMAIN p : p[i] = q[f[i]] /\ (f[i] = f[j] => i = j)

LEMMA TailIs ==
  ASSUME NEW S, NEW q \in Seq(S), q # <<>>
  PROVE  /\ Tail(q) \in Seq(S) /\ Head(q) = q[1] /\ 1 \in DOMAIN q
         /\ Len(Tail(q)) = Len(q) - 1
         /\ DOMAIN Tail(q) = 1..(Len(q) - 1)
         /\ \A i \in DOMAIN Tail(q) : i + 1 \in DOMAIN q /\ Tail(q)[i] = q[i + 1]
<1>1. Len(q) \in Nat /\ Len(q) # 0 /\ DOMAIN q = 1..Len(q)
  OBVIOUS
<1> QED  BY <1>1, HeadTailProperties

LEMMA TailSelects ==
  ASSUME NEW S, NEW q \in Seq(S), q # <<>>
  PROVE  Selects(Tail(q), q)
<1> DEFINE f == [i \in DOMAIN Tail(q) |-> i + 1]
<1>1. f \in [DOMAIN Tail(q) -> DOMAIN q]
  BY TailIs
<1>2. \A i, j \in DOMAIN Tail(q) : Tail(q)[i] = q[f[i]] /\ (f[i] = f[j] => i = j)
  <2> SUFFICES ASSUME NEW i \in DOMAIN Tail(q), NEW j \in DOMAIN Tail(q)
               PROVE  Tail(q)[i] = q[f[i]] /\ (f[i] = f[j] => i = j)
    OBVIOUS
  <2>1. i \in Int /\ j \in Int
    BY TailIs
  <2> QED  BY <2>1, TailIs
<1> HIDE DEF f
<1> QED  BY <1>1, <1>2 DEF Selects

\* The first two elements of a list change places.
Swap(q) == <<q[2], q[1]>> \o SubSeq(q, 3, Len(q))

LEMMA SwapIs ==
  ASSUME NEW S, NEW q \in Seq(S), Len(q) > 1
  PROVE  /\ Swap(q) \in Seq(S)
         /\ Len(Swap(q)) = Len(q) /\ DOMAIN Swap(q) = DOMAIN q
         /\ Swap(q)[1] = q[2] /\ Swap(q)[2] = q[1]
         /\ \A i \in DOMAIN q : i > 2 => Swap(q)[i] = q[i]
<1> DEFINE l == <<q[2], q[1]>>
           r == SubSeq(q, 3, Len(q))
<1>1. Len(q) \in Nat /\ DOMAIN q = 1..Len(q) /\ q[1] \in S /\ q[2] \in S
  OBVIOUS
<1>2. l \in Seq(S) /\ Len(l) = 2 /\ l[1] = q[2] /\ l[2] = q[1]
  BY <1>1
<1>3. /\ r \in Seq(S) /\ Len(r) = Len(q) - 2
      /\ \A i \in 1..(Len(q) - 2) : r[i] = q[i + 2]
  <2>1. \A x \in 3..Len(q) : q[x] \in S
    BY <1>1
  <2>2. CASE Len(q) = 2
    BY <1>1, <2>2, SubSeqProperties
  <2>3. CASE Len(q) > 2
    BY <1>1, <2>1, <2>3, SubSeqProperties
  <2> QED  BY <1>1, <2>2, <2>3
<1> HIDE DEF l, r
<1>4. /\ l \o r \in Seq(S) /\ Len(l \o r) = Len(q) /\ DOMAIN (l \o r) = 1..Len(q)
      /\ \A i \in 1..Len(q) : (l \o r)[i] = IF i <= 2 THEN l[i] ELSE r[i - 2]
  <2>1. /\ l \o r \in Seq(S)
        /\ Len(l \o r) = Len(l) + Len(r)
        /\ \A i \in 1..(Len(l) + Len(r)) :
             (l \o r)[i] = IF i <= Len(l) THEN l[i] ELSE r[i - Len(l)]
    <3>1. l \in Seq(S) /\ r \in Seq(S)
      BY <1>2, <1>3
    <3> QED  BY ONLY <3>1, ConcatProperties
  <2>2. Len(l) + Len(r) = Len(q)
    BY <1>1, <1>2, <1>3
  <2>3. Len(l \o r) \in Nat /\ DOMAIN (l \o r) = 1..Len(l \o r)
    BY <2>1
  <2> QED  BY <1>2, <2>1, <2>2, <2>3
<1>5. ASSUME NEW i \in DOMAIN q, i > 2
      PROVE  (l \o r)[i] = q[i]
  <2>1. i - 2 \in 1..(Len(q) - 2) /\ i - 2 + 2 = i /\ ~(i <= 2)
    BY <1>1, <1>5
  <2> QED  BY <1>1, <1>3, <1>4, <2>1
<1>6. DOMAIN (l \o r) = DOMAIN q /\ 1 \in 1..Len(q) /\ 2 \in 1..Len(q)
  <2>1. 1 \in 1..Len(q) /\ 2 \in 1..Len(q)
    BY <1>1
  <2> QED  BY <1>1, <1>4, <2>1
<1>7. (l \o r)[1] = q[2] /\ (l \o r)[2] = q[1]
  BY <1>2, <1>4, <1>6
<1> QED  BY <1>4, <1>5, <1>6, <1>7 DEF Swap, l, r

LEMMA SwapSelects ==
  ASSUME NEW S, NEW q \in Seq(S), Len(q) > 1
  PROVE  Selects(Swap(q), q)
<1> DEFINE f == [i \in DOMAIN q |-> IF i = 1 THEN 2 ELSE IF i = 2 THEN 1 ELSE i]
           p == Swap(q)
<1>1. Len(q) \in Nat /\ DOMAIN q = 1..Len(q) /\ DOMAIN p = DOMAIN q
  BY SwapIs
<1>2. p[1] = q[2] /\ p[2] = q[1] /\ \A i \in DOMAIN q : i > 2 => p[i] = q[i]
  BY SwapIs
<1> HIDE DEF p
<1>3. f \in [DOMAIN p -> DOMAIN q]
  BY <1>1
<1>4. \A i, j \in DOMAIN p : p[i] = q[f[i]] /\ (f[i] = f[j] => i = j)
  <2> SUFFICES ASSUME NEW i \in DOMAIN q, NEW j \in DOMAIN q
               PROVE  p[i] = q[f[i]] /\ (f[i] = f[j] => i = j)
    BY <1>1
  <2>1. i \in Int /\ j \in Int /\ i >= 1 /\ j >= 1
    BY <1>1
  <2>2. p[i] = q[f[i]]
    <3>1. CASE i = 1
      BY <1>2, <3>1
    <3>2. CASE i = 2
      BY <1>2, <3>2
    <3>3. CASE i > 2
      BY <1>2, <3>3
    <3> QED  BY <2>1, <3>1, <3>2, <3>3
  <2> QED  BY <2>1, <2>2
<1> HIDE DEF f
<1> QED  BY <1>3, <1>4 DEF Selects, p

LEMMA AppendIs ==
  ASSUME NEW S, NEW q \in Seq(S), NEW d \in S
  PROVE  /\ Append(q, d) \in Seq(S) /\ Append(q, d) # <<>>
         /\ Len(Append(q, d)) = Len(q) + 1
         /\ DOMAIN Append(q, d) = 1..(Len(q) + 1)
         /\ DOMAIN q = 1..Len(q)
         /\ \A i \in DOMAIN q : i \in DOMAIN Append(q, d) /\ Append(q, d)[i] = q[i]
         /\ \A i \in DOMAIN Append(q, d) : i \in DOMAIN q \/ i = Len(q) + 1
         /\ Append(q, d)[Len(q) + 1] = d
<1>1. Len(q) \in Nat /\ DOMAIN q = 1..Len(q)
  OBVIOUS
<1>2. /\ Append(q, d) \in Seq(S) /\ Append(q, d) # <<>>
      /\ Len(Append(q, d)) = Len(q) + 1
      /\ \A i \in 1..Len(q) : Append(q, d)[i] = q[i]
      /\ Append(q, d)[Len(q) + 1] = d
  BY <1>1, AppendProperties
<1>3. DOMAIN Append(q, d) = 1..(Len(q) + 1)
  BY <1>1, <1>2
<1> QED  BY <1>1, <1>2, <1>3

-----------------------------------------------------------------------------
(* Types *)

LEMMA TailOK ==
  ASSUME NEW q, QueueOK(q), q # <<>>
  PROVE  QueueOK(Tail(q)) /\ Head(q) \in Datagrams /\ Small(Head(q))
<1>1. q \in Seq(Datagrams) /\ Len(q) \in Nat /\ Len(q) <= MaxQueue
  BY DEF QueueOK
<1>2. /\ Tail(q) \in Seq(Datagrams) /\ Head(q) = q[1] /\ 1 \in DOMAIN q
      /\ Len(Tail(q)) = Len(q) - 1
      /\ \A i \in DOMAIN Tail(q) : i + 1 \in DOMAIN q /\ Tail(q)[i] = q[i + 1]
  BY <1>1, TailIs
<1>3. \A i \in DOMAIN Tail(q) : Small(Tail(q)[i])
  BY <1>2 DEF QueueOK
<1>4. Head(q) \in Datagrams /\ Small(Head(q))
  BY <1>1, <1>2 DEF QueueOK
<1> QED  BY <1>1, <1>2, <1>3, <1>4, Consts DEF QueueOK

LEMMA AppendOK ==
  ASSUME NEW q, QueueOK(q), NEW d \in Datagrams, Small(d), Len(q) < MaxQueue
  PROVE  QueueOK(Append(q, d))
<1>1. q \in Seq(Datagrams) /\ Len(q) \in Nat
  BY DEF QueueOK
<1>2. /\ Append(q, d) \in Seq(Datagrams)
      /\ Len(Append(q, d)) = Len(q) + 1
      /\ \A i \in DOMAIN q : Append(q, d)[i] = q[i]
      /\ \A i \in DOMAIN Append(q, d) : i \in DOMAIN q \/ i = Len(q) + 1
      /\ Append(q, d)[Len(q) + 1] = d
  BY <1>1, AppendIs
<1>3. \A i \in DOMAIN Append(q, d) : Small(Append(q, d)[i])
  BY <1>2 DEF QueueOK
<1> QED  BY <1>1, <1>2, <1>3, Consts DEF QueueOK

LEMMA SwapOK ==
  ASSUME NEW q, QueueOK(q), Len(q) > 1
  PROVE  QueueOK(Swap(q))
<1>1. q \in Seq(Datagrams) /\ DOMAIN q = 1..Len(q) /\ Len(q) \in Nat
  BY DEF QueueOK
<1>2. Swap(q) \in Seq(Datagrams) /\ Len(Swap(q)) = Len(q)
  BY <1>1, SwapIs
<1>3. Selects(Swap(q), q)
  BY <1>1, SwapSelects
<1>4. \A i \in DOMAIN Swap(q) : \E j \in DOMAIN q : Swap(q)[i] = q[j]
  BY <1>3 DEF Selects
<1>5. \A i \in DOMAIN Swap(q) : Small(Swap(q)[i])
  BY <1>4 DEF QueueOK
<1> QED  BY <1>2, <1>5 DEF QueueOK

LEMMA RepeatOK ==
  ASSUME NEW q, QueueOK(q), q # <<>>, Len(q) < MaxQueue
  PROVE  QueueOK(<<Head(q)>> \o q)
<1> DEFINE l == <<Head(q)>>
<1>1. q \in Seq(Datagrams) /\ Len(q) \in Nat /\ DOMAIN q = 1..Len(q)
  BY DEF QueueOK
<1>2. Head(q) \in Datagrams /\ Small(Head(q))
  BY TailOK
<1>3. l \in Seq(Datagrams) /\ Len(l) = 1 /\ l[1] = Head(q)
  BY <1>2
<1> HIDE DEF l
<1>4. /\ l \o q \in Seq(Datagrams)
      /\ Len(l \o q) = Len(l) + Len(q)
      /\ \A i \in 1..(Len(l) + Len(q)) :
           (l \o q)[i] = IF i <= Len(l) THEN l[i] ELSE q[i - Len(l)]
  <2>1. l \in Seq(Datagrams) /\ q \in Seq(Datagrams)
    BY <1>1, <1>3
  <2> QED  BY ONLY <2>1, ConcatProperties
<1>5. ASSUME NEW i \in DOMAIN (l \o q)
      PROVE  Small((l \o q)[i])
  <2>1. i \in 1..(1 + Len(q)) /\ i \in 1..(Len(l) + Len(q))
    BY <1>1, <1>3, <1>4, <1>5
  <2>2. CASE i = 1
    BY <1>2, <1>3, <1>4, <2>1, <2>2
  <2>3. CASE i # 1
    <3>1. i - 1 \in DOMAIN q /\ ~(i <= Len(l)) /\ i - Len(l) = i - 1
      BY <1>1, <1>3, <2>1, <2>3
    <3>2. (l \o q)[i] = q[i - 1]
      BY <1>4, <2>1, <3>1
    <3> QED  BY <3>1, <3>2 DEF QueueOK
  <2> QED  BY <2>2, <2>3
<1>6. Len(l \o q) <= MaxQueue
  BY <1>1, <1>3, <1>4, Consts
<1> QED  BY <1>4, <1>5, <1>6 DEF QueueOK, l

LEMMA QueueNet ==
  ASSUME NEW n, NetOK(n), NEW s \in Side, NEW q, QueueOK(q)
  PROVE  /\ NetOK([n EXCEPT ![s] = q])
         /\ [n EXCEPT ![s] = q][s] = q
         /\ \A x \in Side : x # s => [n EXCEPT ![s] = q][x] = n[x]
BY DEF NetOK, QueueOK

LEMMA TypedImpliesTypeOK == Typed => TypeOK
<1> SUFFICES ASSUME Typed PROVE TypeOK
  OBVIOUS
<1> USE Consts
<1>1. 0..MaxPacket \subseteq Index /\ 0..(MaxPacket + Window - 1) \subseteq Index
  BY DEF Index
<1>2. {text, written, printed} \subseteq Seq(Piece) /\ message \in 0..Messages
  BY DEF Typed, FilesOK
<1>3. pc \in [Side -> {"send", "receive", "done"}]
  BY DEF Typed, FilesOK
<1>4. {count, left, expected} \subseteq [Side -> Index]
  BY <1>1 DEF Typed, SenderOK, ReceiverOK
<1>5. {startWindow, endWindow, lastWanted} \subseteq [Side -> Index]
  BY <1>1 DEF Typed, SenderOK, ReceiverOK
<1>6. at \in [Side -> Place]
  BY DEF Typed, SenderOK
<1>7. \A s \in Side : Len(net[s]) <= MaxQueue /\ net[s] \in Seq([text : Piece \cup {Nul}, index : Index])
  BY DEF Typed, NetOK, QueueOK, Datagrams
<1>8. Len(faults) <= MaxFaults
  BY DEF Typed, FaultsOK
<1> QED  BY <1>2, <1>3, <1>4, <1>5, <1>6, <1>7, <1>8 DEF TypeOK

\* What the three ways to use the network do to it.
LEMMA SendsNet ==
  ASSUME NEW s \in Side, NEW d \in Datagrams, Small(d), NetOK(net), Room(Other(s)), Sends(s, d)
  PROVE  /\ NetOK(net') /\ net'[s] = net[s]
         /\ net'[Other(s)] = Append(net[Other(s)], d)
<1>1. Other(s) \in Side /\ Other(s) # s
  BY Sides
<1>2. QueueOK(Append(net[Other(s)], d))
  BY <1>1, AppendOK DEF NetOK, Room
<1>3. net' = [net EXCEPT ![Other(s)] = Append(net[Other(s)], d)]
  BY DEF Sends
<1>4. NetOK([net EXCEPT ![Other(s)] = Append(net[Other(s)], d)])
  BY <1>1, <1>2, QueueNet
<1> QED  BY <1>1, <1>3, <1>4 DEF NetOK

LEMMA TakesNet ==
  ASSUME NEW s \in Side, NetOK(net), net[s] # <<>>, Takes(s)
  PROVE  /\ NetOK(net') /\ net'[s] = Tail(net[s])
         /\ net'[Other(s)] = net[Other(s)]
         /\ Head(net[s]) \in Datagrams /\ Small(Head(net[s]))
<1>1. Other(s) \in Side /\ Other(s) # s
  BY Sides
<1>2. QueueOK(Tail(net[s])) /\ Head(net[s]) \in Datagrams /\ Small(Head(net[s]))
  BY TailOK DEF NetOK
<1>3. net' = [net EXCEPT ![s] = Tail(net[s])]
  BY DEF Takes
<1>4. NetOK([net EXCEPT ![s] = Tail(net[s])])
  BY <1>2, QueueNet
<1> QED  BY <1>1, <1>2, <1>3, <1>4 DEF NetOK

LEMMA HeadOK ==
  ASSUME NEW s \in Side, NetOK(net), net[s] # <<>>
  PROVE  Head(net[s]) \in Datagrams /\ Small(Head(net[s]))
BY TailOK DEF NetOK

LEMMA AnswersNet ==
  ASSUME NEW s \in Side, NEW d \in Datagrams, Small(d), NetOK(net), net[s] # <<>>,
         Room(Other(s)), Answers(s, d)
  PROVE  /\ NetOK(net') /\ net'[s] = Tail(net[s])
         /\ net'[Other(s)] = Append(net[Other(s)], d)
<1> DEFINE r == Other(s)
           m == [net EXCEPT ![s] = Tail(net[s])]
           p == Append(net[r], d)
<1>1. r \in Side /\ r # s
  BY Sides
<1>2. QueueOK(Tail(net[s]))
  BY TailOK DEF NetOK
<1>3. NetOK(m)
  BY <1>2, QueueNet
<1>4. m[s] = Tail(net[s]) /\ m[r] = net[r]
  BY <1>1 DEF NetOK
<1>5. QueueOK(p)
  BY <1>1, AppendOK DEF NetOK, Room
<1>6. net' = [net EXCEPT ![s] = Tail(net[s]), ![r] = p]
  BY <1>1 DEF Answers, NetOK
<1>7. net' = [m EXCEPT ![r] = p]
  BY <1>6
<1> HIDE DEF m, p, r
<1>8. NetOK([m EXCEPT ![r] = p])
  BY <1>1, <1>3, <1>5, QueueNet
<1>9. net'[r] = p /\ net'[s] = m[s]
  BY <1>1, <1>3, <1>7 DEF NetOK
<1> QED  BY <1>4, <1>7, <1>8, <1>9 DEF p, r

LEMMA TypedInit == Init => Typed
<1> SUFFICES ASSUME Init PROVE Typed
  OBVIOUS
<1> USE Consts
<1>1. FilesOK
  <2>1. PICK n \in 0..MaxLength : text = [i \in 1..n |-> i]
    BY DEF Init
  <2>2. text \in Seq(Piece)
    <3>1. \A i \in 1..n : i \in Piece
      BY DEF Piece
    <3> QED  BY <2>1, <3>1, IsASeq
  <2>3. Requester \in Side /\ 0 \in 0..Messages
    BY DEF Side
  <2> QED  BY <2>2, <2>3 DEF Init, FilesOK
<1>2. SenderOK
  <2>1. [piece |-> 1, inside |-> FALSE] \in Place
    BY DEF Place
  <2> QED  BY <2>1 DEF Init, SenderOK
<1>3. ReceiverOK
  BY DEF Init, ReceiverOK
<1>4. NetOK(net)
  BY DEF Init, NetOK, QueueOK
<1>5. FaultsOK
  BY DEF Init, FaultsOK
<1> QED  BY <1>1, <1>2, <1>3, <1>4, <1>5 DEF Typed

LEMMA FromStartType ==
  ASSUME SenderOK, NEW s \in Side, FromStart(s)
  PROVE  SenderOK'
<1> USE Consts
<1>1. [piece |-> 1, inside |-> FALSE] \in Place
  BY DEF Place
<1>2. /\ count' \in [Side -> 0..MaxPacket] /\ left' \in [Side -> 0..MaxPacket]
      /\ startWindow' \in [Side -> 0..MaxPacket]
      /\ endWindow' \in [Side -> 0..(MaxPacket + Window - 1)]
  BY DEF SenderOK, FromStart
<1>3. at' \in [Side -> Place]
  BY <1>1 DEF SenderOK, FromStart
<1>4. ASSUME NEW x \in Side
      PROVE  /\ startWindow'[x] <= count'[x] /\ startWindow'[x] <= endWindow'[x] + 1
             /\ at'[x].piece <= count'[x] + 1
  <2>1. CASE x = s
    BY <2>1 DEF SenderOK, FromStart
  <2>2. CASE x # s
    BY <2>2 DEF SenderOK, FromStart
  <2> QED  BY <2>1, <2>2
<1> QED  BY <1>2, <1>3, <1>4 DEF SenderOK

\* A piece of the source.
LEMMA SourceType ==
  ASSUME FilesOK, NEW s \in Side
  PROVE  Source(s) \in Seq(Piece)
BY DEF FilesOK, Source

LEMMA PlaceType ==
  ASSUME SenderOK, NEW s \in Side
  PROVE  /\ at[s] \in Place /\ at[s].piece \in 1..(MaxPacket + 1) /\ at[s].inside \in BOOLEAN
         /\ count[s] \in 0..MaxPacket /\ startWindow[s] \in 0..MaxPacket
         /\ endWindow[s] \in 0..(MaxPacket + Window - 1) /\ left[s] \in 0..MaxPacket
         /\ startWindow[s] <= count[s] /\ startWindow[s] <= endWindow[s] + 1
         /\ at[s].piece <= count[s] + 1
BY DEF SenderOK, Place

LEMMA SendPacketType ==
  ASSUME Typed, NEW s \in Side, SendPacket(s)
  PROVE  Typed'
<1> USE Consts DEF Typed
<1> DEFINE t == IF at[s].inside THEN Torn ELSE Source(s)[at[s].piece]
           d == Datagram(t, count[s])
<1>1. /\ at[s].piece \in 1..(MaxPacket + 1) /\ count[s] \in 0..MaxPacket
      /\ count[s] < MaxPacket /\ at[s].piece <= count[s] + 1
      /\ startWindow[s] \in 0..MaxPacket /\ startWindow[s] <= count[s]
      /\ endWindow[s] \in 0..(MaxPacket + Window - 1)
      /\ startWindow[s] <= endWindow[s] + 1 /\ startWindow[s] # endWindow[s] + 1
  BY PlaceType DEF SendPacket
<1>2. t \in Piece
  <2>1. Source(s) \in Seq(Piece) /\ at[s].piece <= Len(Source(s))
    BY SourceType, <1>1 DEF SendPacket, AtEnd
  <2>2. at[s].piece \in 1..Len(Source(s))
    BY <1>1, <2>1
  <2> QED  BY <2>1, <2>2 DEF Piece
<1>3. d \in Datagrams /\ Small(d)
  BY <1>1, <1>2 DEF Datagram, Datagrams, Index, Small
<1>4. Room(Other(s)) /\ Sends(s, d)
  BY DEF SendPacket
<1> HIDE DEF t, d
<1>5. NetOK(net')
  BY <1>3, <1>4, SendsNet
<1>6. SenderOK'
  <2>1. /\ count' = [count EXCEPT ![s] = count[s] + 1]
        /\ startWindow' = [startWindow EXCEPT ![s] = startWindow[s] + 1]
        /\ at' = [at EXCEPT ![s] = [piece |-> at[s].piece + 1, inside |-> FALSE]]
        /\ left' = [left EXCEPT ![s] = 0] /\ endWindow' = endWindow
    BY DEF SendPacket
  <2>2. [piece |-> at[s].piece + 1, inside |-> FALSE] \in Place
    BY <1>1 DEF Place
  <2>3. at' \in [Side -> Place]
    BY <2>1, <2>2 DEF SenderOK
  <2>4. /\ count' \in [Side -> 0..MaxPacket] /\ left' \in [Side -> 0..MaxPacket]
        /\ startWindow' \in [Side -> 0..MaxPacket]
        /\ endWindow' \in [Side -> 0..(MaxPacket + Window - 1)]
    BY <1>1, <2>1 DEF SenderOK
  <2>5. ASSUME NEW x \in Side
        PROVE  /\ startWindow'[x] <= count'[x] /\ startWindow'[x] <= endWindow'[x] + 1
               /\ at'[x].piece <= count'[x] + 1
    <3>1. CASE x = s
      BY <1>1, <2>1, <3>1 DEF SenderOK
    <3>2. CASE x # s
      BY <2>1, <3>2 DEF SenderOK
    <3> QED  BY <3>1, <3>2
  <2> QED  BY <2>3, <2>4, <2>5 DEF SenderOK
<1>7. FilesOK'
  BY DEF SendPacket, FilesOK, files
<1>8. ReceiverOK' /\ FaultsOK'
  BY DEF SendPacket, ReceiverOK, FaultsOK, receiver
<1> QED  BY <1>5, <1>6, <1>7, <1>8

LEMMA SendEndType ==
  ASSUME Typed, NEW s \in Side, SendEnd(s)
  PROVE  Typed'
<1> USE Consts DEF Typed
<1> DEFINE d == Datagram(Nul, left[s])
<1>1. d \in Datagrams /\ Small(d)
  BY PlaceType DEF Datagram, Datagrams, Index, Small
<1>2. Room(Other(s)) /\ Sends(s, d)
  BY DEF SendEnd
<1> HIDE DEF d
<1>3. NetOK(net')
  BY <1>1, <1>2, SendsNet
<1>4. SenderOK'
  BY FromStartType DEF SendEnd
<1>5. FilesOK'
  <2>1. written' \in Seq(Piece) /\ printed' \in Seq(Piece)
    BY DEF SendEnd, FilesOK
  <2>2. pc' \in [Side -> {"send", "receive", "done"}]
    BY DEF SendEnd, FilesOK, Goto
  <2>3. pc'[Requester] # "done" => pc[Requester] # "done"
    BY DEF SendEnd, FilesOK, Goto, Side
  <2> QED  BY <2>1, <2>2, <2>3 DEF SendEnd, FilesOK
<1>6. ReceiverOK'
  BY DEF SendEnd, ReceiverOK
<1>7. FaultsOK'
  BY DEF SendEnd, FaultsOK
<1> QED  BY <1>3, <1>4, <1>5, <1>6, <1>7

\* Whatever a request makes of the windows of a sender.
LEMMA WindowType ==
  ASSUME SenderOK, NEW s \in Side, NEW i \in 0..MaxPacket,
         NEW b \in 0..MaxPacket, NEW e \in 0..(MaxPacket + Window - 1), NEW a \in Place,
         b <= count[s], b <= e + 1, a.piece <= count[s] + 1,
         count' = count, left' = [left EXCEPT ![s] = i],
         startWindow' = [startWindow EXCEPT ![s] = b],
         endWindow' = [endWindow EXCEPT ![s] = e],
         at' = [at EXCEPT ![s] = a]
  PROVE  SenderOK'
<1> USE Consts
<1>1. /\ count' \in [Side -> 0..MaxPacket] /\ left' \in [Side -> 0..MaxPacket]
      /\ startWindow' \in [Side -> 0..MaxPacket] /\ at' \in [Side -> Place]
      /\ endWindow' \in [Side -> 0..(MaxPacket + Window - 1)]
  BY DEF SenderOK
<1>2. ASSUME NEW x \in Side
      PROVE  /\ startWindow'[x] <= count'[x] /\ startWindow'[x] <= endWindow'[x] + 1
             /\ at'[x].piece <= count'[x] + 1
  <2>1. CASE x = s
    BY <2>1 DEF SenderOK
  <2>2. CASE x # s
    BY <2>2 DEF SenderOK
  <2> QED  BY <2>1, <2>2
<1> QED  BY <1>1, <1>2 DEF SenderOK

LEMMA RewoundType ==
  ASSUME SenderOK, NEW s \in Side, NEW packets \in Nat, NEW a \in Rewound(s, packets)
  PROVE  a \in Place /\ a.piece <= at[s].piece
<1> USE Consts
<1>1. at[s] \in Place /\ at[s].piece \in 1..(MaxPacket + 1)
  BY PlaceType
<1>2. CASE a = at[s]
  BY <1>1, <1>2
<1>3. CASE a \in {[piece |-> n, inside |-> i] : n \in 1..(at[s].piece - packets - 1), i \in BOOLEAN}
  <2>1. PICK n \in 1..(at[s].piece - packets - 1), i \in BOOLEAN : a = [piece |-> n, inside |-> i]
    BY <1>3
  <2>2. n \in 1..(MaxPacket + 1) /\ n <= at[s].piece
    BY <1>1
  <2> QED  BY <2>1, <2>2 DEF Place
<1> QED  BY <1>2, <1>3 DEF Rewound

LEMMA TakeRequestType ==
  ASSUME Typed, NEW s \in Side, TakeRequest(s)
  PROVE  Typed'
<1> USE Consts DEF Typed
<1> DEFINE i == Head(net[s]).index
<1>1. /\ count[s] \in 0..MaxPacket /\ startWindow[s] \in 0..MaxPacket
      /\ startWindow[s] <= count[s] /\ startWindow[s] <= endWindow[s] + 1
      /\ endWindow[s] \in 0..(MaxPacket + Window - 1)
      /\ at[s] \in Place /\ at[s].piece \in 1..(MaxPacket + 1) /\ at[s].piece <= count[s] + 1
      /\ startWindow[s] = endWindow[s] + 1
  BY PlaceType DEF TakeRequest
<1>2. NetOK(net') /\ i \in 0..MaxPacket
  <2>1. net[s] # <<>> /\ Takes(s)
    BY DEF TakeRequest
  <2>2. NetOK(net') /\ Head(net[s]) \in Datagrams /\ Small(Head(net[s]))
    BY <2>1, TakesNet
  <2> QED  BY <2>2 DEF Datagrams, Index, Small
<1>3. count' = count /\ left' = [left EXCEPT ![s] = i]
  BY DEF TakeRequest
<1>4. /\ startWindow \in [Side -> 0..MaxPacket] /\ at \in [Side -> Place]
      /\ endWindow \in [Side -> 0..(MaxPacket + Window - 1)]
  BY DEF SenderOK
<1>5. SenderOK'
  <2>1. CASE /\ i < endWindow[s]
             /\ startWindow' = [startWindow EXCEPT ![s] = i]
             /\ \E a \in Rewound(s, endWindow[s] + 1 - i) : at' = [at EXCEPT ![s] = a]
             /\ UNCHANGED endWindow
    <3>1. PICK a \in Rewound(s, endWindow[s] + 1 - i) : at' = [at EXCEPT ![s] = a]
      BY <2>1
    <3> HIDE DEF i
    <3>2. endWindow[s] + 1 - i \in Nat
      BY <1>1, <1>2, <2>1
    <3>3. a \in Place /\ a.piece <= at[s].piece
      BY <3>2, RewoundType
    <3>4. a.piece <= count[s] + 1 /\ i <= count[s] /\ i <= endWindow[s] + 1
      BY <1>1, <1>2, <2>1, <3>3 DEF Place
    <3>5. endWindow' = [endWindow EXCEPT ![s] = endWindow[s]]
      BY <1>4, <2>1
    <3> QED  BY <1>1, <1>2, <1>3, <2>1, <3>1, <3>3, <3>4, <3>5, WindowType
  <2>2. CASE /\ i = endWindow[s] + 1
             /\ startWindow' = [startWindow EXCEPT ![s] = i]
             /\ endWindow' = [endWindow EXCEPT ![s] = i + Window - 1]
             /\ UNCHANGED at
    <3> HIDE DEF i
    <3>1. at' = [at EXCEPT ![s] = at[s]]
      BY <1>4, <2>2
    <3>2. i + Window - 1 \in 0..(MaxPacket + Window - 1) /\ i <= i + Window - 1 + 1 /\ i <= count[s]
      BY <1>1, <1>2, <2>2
    <3> QED  BY <1>1, <1>2, <1>3, <2>2, <3>1, <3>2, WindowType
  <2>3. CASE UNCHANGED <<startWindow, endWindow, at>>
    <3> HIDE DEF i
    <3>1. /\ startWindow' = [startWindow EXCEPT ![s] = startWindow[s]]
          /\ endWindow' = [endWindow EXCEPT ![s] = endWindow[s]]
          /\ at' = [at EXCEPT ![s] = at[s]]
      BY <1>4, <2>3
    <3> QED  BY <1>1, <1>2, <1>3, <3>1, WindowType
  <2> QED  BY <2>1, <2>2, <2>3 DEF TakeRequest
<1>6. FilesOK' /\ ReceiverOK' /\ FaultsOK'
  BY DEF TakeRequest, files, receiver, FilesOK, ReceiverOK, FaultsOK
<1> QED  BY <1>2, <1>5, <1>6

\* The head of a queue, when it holds a packet.
LEMMA PacketType ==
  ASSUME NetOK(net), NEW s \in Side, net[s] # <<>>, Head(net[s]).text # Nul
  PROVE  /\ Head(net[s]).text \in Piece
         /\ Head(net[s]).index \in Nat /\ Head(net[s]).index < MaxPacket
<1> USE Consts
<1>1. Head(net[s]) \in Datagrams /\ Small(Head(net[s]))
  BY HeadOK
<1> QED  BY <1>1 DEF Datagrams, Index, Small

LEMMA RequestOK ==
  ASSUME NEW i \in 0..MaxPacket
  PROVE  Datagram(Nul, i) \in Datagrams /\ Small(Datagram(Nul, i))
BY Consts DEF Datagram, Datagrams, Index, Small

LEMMA DatagramOK ==
  ASSUME NEW t \in Piece, t # Nul, NEW i \in Nat, i < MaxPacket
  PROVE  /\ Datagram(t, i) \in Datagrams /\ Small(Datagram(t, i))
         /\ Datagram(t, i).text = t /\ Datagram(t, i).index = i
<1>1. i \in Index /\ i <= MaxPacket
  BY Consts DEF Index
<1> QED  BY <1>1 DEF Datagram, Datagrams, Small

LEMMA KeepType ==
  ASSUME FilesOK, NEW s \in Side, NEW t \in Piece, Keep(s, t),
         text' = text, message' = message, pc' = pc
  PROVE  FilesOK'
<1>1. written' \in Seq(Piece) /\ printed' \in Seq(Piece)
  BY DEF FilesOK, Keep
<1> QED  BY <1>1 DEF FilesOK

LEMMA AcceptType ==
  ASSUME Typed, NEW s \in Side, Accept(s)
  PROVE  Typed'
<1> USE Consts DEF Typed
<1> DEFINE d == Head(net[s])
<1>1. d.text \in Piece /\ d.index \in Nat /\ d.index < MaxPacket /\ d.index = expected[s]
  BY PacketType DEF Accept
<1>2. FilesOK'
  <2>1. Keep(s, d.text) /\ text' = text /\ message' = message /\ pc' = pc
    BY DEF Accept
  <2> HIDE DEF d
  <2> QED  BY <1>1, <2>1, KeepType
<1> HIDE DEF d
<1>3. NetOK(net') /\ lastWanted' \in [Side -> 0..(MaxPacket + Window - 1)]
  <2>1. net[s] # <<>>
    BY DEF Accept
  <2>2. CASE expected[s] = lastWanted[s]
    <3>1. /\ Room(Other(s)) /\ lastWanted' = [lastWanted EXCEPT ![s] = lastWanted[s] + Window]
          /\ Answers(s, Datagram(Nul, expected[s] + 1))
      BY <2>2 DEF Accept
    <3>2. expected[s] + 1 \in 0..MaxPacket
      BY <1>1
    <3>3. NetOK(net')
      BY <2>1, <3>1, <3>2, RequestOK, AnswersNet
    <3> QED  BY <1>1, <2>2, <3>1, <3>3 DEF ReceiverOK
  <2>3. CASE expected[s] # lastWanted[s]
    <3>1. Takes(s) /\ lastWanted' = lastWanted
      BY <2>3 DEF Accept
    <3> QED  BY <2>1, <3>1, TakesNet DEF ReceiverOK
  <2> QED  BY <2>2, <2>3
<1>4. ReceiverOK'
  <2>1. expected' = [expected EXCEPT ![s] = expected[s] + 1]
    BY DEF Accept
  <2> QED  BY <1>1, <1>3, <2>1 DEF ReceiverOK
<1>5. SenderOK' /\ FaultsOK'
  BY DEF Accept, sender, SenderOK, FaultsOK
<1> QED  BY <1>2, <1>3, <1>4, <1>5

LEMMA RejectType ==
  ASSUME Typed, NEW s \in Side, Reject(s)
  PROVE  Typed'
<1> USE Consts DEF Typed
<1>1. net[s] # <<>> /\ Room(Other(s)) /\ Answers(s, Datagram(Nul, expected[s]))
  BY DEF Reject
<1>2. expected[s] \in 0..MaxPacket
  BY DEF ReceiverOK
<1>3. NetOK(net')
  BY <1>1, <1>2, RequestOK, AnswersNet
<1>4. FilesOK' /\ SenderOK' /\ ReceiverOK' /\ FaultsOK'
  BY DEF Reject, files, sender, receiver, FilesOK, SenderOK, ReceiverOK, FaultsOK
<1> QED  BY <1>3, <1>4

LEMMA TakeEndType ==
  ASSUME Typed, NEW s \in Side, TakeEnd(s)
  PROVE  Typed'
<1> USE Consts DEF Typed
<1>1. net[s] # <<>> /\ Takes(s)
  BY DEF TakeEnd
<1>2. NetOK(net')
  BY <1>1, TakesNet
<1>3. FilesOK'
  <2> USE SideAssumption
  <2>1. /\ text' = text /\ written' = written /\ printed' = printed /\ pc[s] = "receive"
        /\ message' = IF s = Requester THEN message + 1 ELSE message
        /\ pc' = [pc EXCEPT ![s] = IF message' = Messages /\ s = Requester THEN "done" ELSE "send"]
    BY DEF TakeEnd, Goto
  <2>2. Requester \in Side /\ pc \in [Side -> {"send", "receive", "done"}]
    BY DEF Side, FilesOK
  <2>3. pc' \in [Side -> {"send", "receive", "done"}]
    BY <2>1, <2>2
  <2>4. message' \in 0..Messages /\ (pc'[Requester] # "done" => message' < Messages)
    BY <2>1, <2>2 DEF FilesOK
  <2> QED  BY <2>1, <2>3, <2>4 DEF FilesOK
<1>4. SenderOK' /\ ReceiverOK' /\ FaultsOK'
  BY DEF TakeEnd, sender, receiver, SenderOK, ReceiverOK, FaultsOK
<1> QED  BY <1>2, <1>3, <1>4

LEMMA HappensType ==
  ASSUME Typed, NEW k \in {"lose", "overtake", "repeat"}, Happens(k), NetOK(net')
  PROVE  Typed'
<1> USE Consts DEF Typed
<1>1. FaultsOK'
  BY AppendProperties DEF Happens, FaultsOK
<1>2. FilesOK' /\ SenderOK' /\ ReceiverOK'
  BY DEF Happens, files, sender, receiver, FilesOK, SenderOK, ReceiverOK
<1> QED  BY <1>1, <1>2

LEMMA NetworkType ==
  ASSUME Typed, NEW s \in Side, Lose(s) \/ Overtake(s) \/ Repeat(s)
  PROVE  Typed'
<1>1. NetOK(net) /\ QueueOK(net[s])
  BY DEF Typed, NetOK
<1>2. CASE Lose(s)
  <2>1. net[s] # <<>> /\ Takes(s) /\ Happens("lose")
    BY <1>2 DEF Lose
  <2>2. NetOK(net')
    BY <1>1, <2>1, TakesNet
  <2> QED  BY <2>1, <2>2, HappensType
<1>3. CASE Overtake(s)
  <2>1. Len(net[s]) > 1 /\ net' = [net EXCEPT ![s] = Swap(net[s])] /\ Happens("overtake")
    BY <1>3 DEF Overtake, Swap
  <2>2. QueueOK(Swap(net[s]))
    BY <1>1, <2>1, SwapOK
  <2>3. NetOK([net EXCEPT ![s] = Swap(net[s])])
    BY <1>1, <2>2, QueueNet
  <2> QED  BY <2>1, <2>3, HappensType
<1>4. CASE Repeat(s)
  <2>1. net[s] # <<>> /\ Len(net[s]) < MaxQueue /\ Happens("repeat")
    BY <1>4 DEF Repeat, Room
  <2>2. net' = [net EXCEPT ![s] = <<Head(net[s])>> \o net[s]]
    BY <1>4 DEF Repeat
  <2>3. QueueOK(<<Head(net[s])>> \o net[s])
    BY <1>1, <2>1, RepeatOK
  <2>4. NetOK([net EXCEPT ![s] = <<Head(net[s])>> \o net[s]])
    BY <1>1, <2>3, QueueNet
  <2> QED  BY <2>1, <2>2, <2>4, HappensType
<1> QED  BY <1>2, <1>3, <1>4

LEMMA TypedStep == Typed /\ [Next]_vars => Typed'
<1> SUFFICES ASSUME Typed, [Next]_vars PROVE Typed'
  OBVIOUS
<1>1. ASSUME NEW s \in Side, Step(s)
      PROVE  Typed'
  BY <1>1, SendPacketType, SendEndType, TakeRequestType, AcceptType, RejectType, TakeEndType DEF Step
<1>2. ASSUME NEW s \in Side, Lose(s) \/ Overtake(s) \/ Repeat(s)
      PROVE  Typed'
  BY <1>2, NetworkType
<1>3. CASE UNCHANGED vars
  BY <1>3 DEF vars, files, sender, receiver, Typed, FilesOK, SenderOK, ReceiverOK, NetOK, FaultsOK
<1> QED  BY <1>1, <1>2, <1>3 DEF Next

LEMMA TypedCorrect == Spec => []Typed
BY TypedInit, TypedStep, PTL DEF Spec

\* Every variable keeps its type: with packetCount, the windows of sender and
\* receiver and every number under way stay in their bounds.
THEOREM TypeCorrect == Spec => []TypeOK
BY TypedCorrect, TypedImpliesTypeOK, PTL

-----------------------------------------------------------------------------
(* Packets and requests under way *)

\* Every packet of p is one of q.
DataOf(p, q) == \A i \in Data(p) : \E j \in Data(q) : p[i] = q[j]

LEMMA SelectedFacts ==
  ASSUME NEW p, NEW q, Selects(p, q)
  PROVE  /\ Nuls(q) = {} => Nuls(p) = {}
         /\ Data(q) = {} => Data(p) = {}
         /\ AtMostOne(Nuls(q)) => AtMostOne(Nuls(p))
         /\ \A i \in Nuls(p) : \E j \in Nuls(q) : p[i] = q[j]
         /\ DataOf(p, q)
         /\ \A e : Ordered(q, e) => Ordered(p, e)
<1>1. PICK f \in [DOMAIN p -> DOMAIN q] :
        \A i, j \in DOMAIN p : p[i] = q[f[i]] /\ (f[i] = f[j] => i = j)
  BY DEF Selects
<1>2. ASSUME NEW i \in DOMAIN p
      PROVE  f[i] \in DOMAIN q /\ p[i] = q[f[i]]
  BY <1>1
<1>3. \A i \in Data(p) : f[i] \in Data(q) /\ p[i] = q[f[i]]
  BY <1>2 DEF Data
<1>4. \A i \in Nuls(p) : f[i] \in Nuls(q) /\ p[i] = q[f[i]]
  BY <1>2 DEF Nuls
<1>5. DataOf(p, q)
  BY <1>3 DEF DataOf
<1>6. AtMostOne(Nuls(q)) => AtMostOne(Nuls(p))
  BY <1>1, <1>4 DEF AtMostOne, Nuls
<1>7. ASSUME NEW e, Ordered(q, e)
      PROVE  Ordered(p, e)
  <2>1. \A i \in Data(p) : p[i].index >= e
    BY <1>3, <1>7 DEF Ordered
  <2>2. ASSUME NEW i \in Data(p), NEW j \in Data(p), p[i].index = p[j].index
        PROVE  i = j
    <3>1. f[i] = f[j]
      BY <1>3, <1>7, <2>2 DEF Ordered
    <3> QED  BY <1>1, <3>1 DEF Data
  <2> QED  BY <2>1, <2>2 DEF Ordered
<1> QED  BY <1>3, <1>4, <1>5, <1>6, <1>7

\* A packet comes no later than it is clean.
LEMMA CleanData ==
  ASSUME NEW p, NEW q, DataOf(p, q), NEW h, NEW n, Clean(q, h, n)
  PROVE  Clean(p, h, n)
BY DEF DataOf, Clean

LEMMA TailFacts ==
  ASSUME NEW q \in Seq(Datagrams), q # <<>>
  PROVE  /\ DataOf(Tail(q), q)
         /\ \A e : Ordered(q, e) => Ordered(Tail(q), e)
         /\ Nuls(q) = {} => Nuls(Tail(q)) = {}
         /\ Data(q) = {} => Data(Tail(q)) = {}
         /\ AtMostOne(Nuls(q)) => AtMostOne(Nuls(Tail(q)))
         /\ \A i \in Nuls(Tail(q)) : \E j \in Nuls(q) : Tail(q)[i] = q[j]
BY TailSelects, SelectedFacts

LEMMA PacketTaken ==
  ASSUME NEW q \in Seq(Datagrams), q # <<>>, Head(q).text # Nul, NEW e, Ordered(q, e)
  PROVE  /\ \E j \in Data(q) : q[j] = Head(q)
         /\ Head(q).index >= e
         /\ \A i \in Data(Tail(q)) : Tail(q)[i].index # Head(q).index
<1>1. /\ Head(q) = q[1] /\ 1 \in DOMAIN q /\ DOMAIN Tail(q) = 1..(Len(q) - 1) /\ Len(q) \in Nat
      /\ \A i \in DOMAIN Tail(q) : i + 1 \in DOMAIN q /\ Tail(q)[i] = q[i + 1]
  BY TailIs
<1>2. 1 \in Data(q)
  BY <1>1 DEF Data
<1>3. ASSUME NEW i \in Data(Tail(q)), Tail(q)[i].index = Head(q).index
      PROVE  FALSE
  <2>1. i \in DOMAIN Tail(q) /\ Tail(q)[i].text # Nul
    BY DEF Data
  <2>2. i \in Nat /\ i >= 1
    BY <1>1, <2>1
  <2>3. i + 1 \in Data(q) /\ q[i + 1].index = q[1].index
    BY <1>1, <1>3, <2>1 DEF Data
  <2>4. i + 1 = 1
    BY <1>2, <2>3 DEF Ordered
  <2> QED  BY <2>2, <2>4
<1> QED  BY <1>1, <1>2, <1>3 DEF Ordered

LEMMA RequestTaken ==
  ASSUME NEW q \in Seq(Datagrams), q # <<>>, Head(q).text = Nul, AtMostOne(Nuls(q))
  PROVE  Nuls(Tail(q)) = {}
<1>1. /\ Head(q) = q[1] /\ 1 \in DOMAIN q /\ DOMAIN Tail(q) = 1..(Len(q) - 1) /\ Len(q) \in Nat
      /\ \A i \in DOMAIN Tail(q) : i + 1 \in DOMAIN q /\ Tail(q)[i] = q[i + 1]
  BY TailIs
<1>2. 1 \in Nuls(q)
  BY <1>1 DEF Nuls
<1>3. ASSUME NEW i \in Nuls(Tail(q))
      PROVE  FALSE
  <2>1. i \in DOMAIN Tail(q) /\ Tail(q)[i].text = Nul
    BY DEF Nuls
  <2>2. i \in Nat /\ i >= 1
    BY <1>1, <2>1
  <2>3. i + 1 \in Nuls(q)
    BY <1>1, <2>1 DEF Nuls
  <2>4. i + 1 = 1
    BY <1>2, <2>3 DEF AtMostOne
  <2> QED  BY <2>2, <2>4
<1> QED  BY <1>3

LEMMA RequestAdded ==
  ASSUME NEW q \in Seq(Datagrams), NEW d \in Datagrams, d.text = Nul
  PROVE  /\ Data(Append(q, d)) = Data(q)
         /\ DataOf(Append(q, d), q)
         /\ \A e : Ordered(q, e) => Ordered(Append(q, d), e)
         /\ Nuls(q) = {} => /\ AtMostOne(Nuls(Append(q, d)))
                            /\ \A i \in Nuls(Append(q, d)) : Append(q, d)[i] = d
<1> DEFINE p == Append(q, d)
<1>1. /\ \A i \in DOMAIN q : i \in DOMAIN p /\ p[i] = q[i]
      /\ \A i \in DOMAIN p : i \in DOMAIN q \/ i = Len(q) + 1
      /\ p[Len(q) + 1] = d
  BY AppendIs
<1> HIDE DEF p
<1>2. Data(p) = Data(q) /\ \A i \in Data(p) : p[i] = q[i]
  BY <1>1 DEF Data
<1>3. DataOf(p, q)
  BY <1>2 DEF DataOf
<1>4. \A e : Ordered(q, e) => Ordered(p, e)
  BY <1>2 DEF Ordered
<1>5. Nuls(q) = {} => \A i \in Nuls(p) : i = Len(q) + 1
  BY <1>1 DEF Nuls
<1> QED  BY <1>1, <1>2, <1>3, <1>4, <1>5 DEF p, AtMostOne

LEMMA PacketAdded ==
  ASSUME NEW q \in Seq(Datagrams), NEW d \in Datagrams, d.text # Nul
  PROVE  /\ Nuls(Append(q, d)) = Nuls(q)
         /\ \A i \in Data(Append(q, d)) :
              \/ Append(q, d)[i] = d
              \/ i \in Data(q) /\ Append(q, d)[i] = q[i]
         /\ \A e : /\ Ordered(q, e) /\ d.index >= e
                   /\ \A i \in Data(q) : q[i].index # d.index
                   => Ordered(Append(q, d), e)
<1> DEFINE p == Append(q, d)
<1>1. /\ \A i \in DOMAIN q : i \in DOMAIN p /\ p[i] = q[i]
      /\ \A i \in DOMAIN p : i \in DOMAIN q \/ i = Len(q) + 1
      /\ p[Len(q) + 1] = d
  BY AppendIs
<1> HIDE DEF p
<1>2. Nuls(p) = Nuls(q)
  BY <1>1 DEF Nuls
<1>3. \A i \in Data(p) : (i = Len(q) + 1 /\ p[i] = d) \/ (i \in Data(q) /\ p[i] = q[i])
  BY <1>1 DEF Data
<1>4. ASSUME NEW e, Ordered(q, e), d.index >= e, \A i \in Data(q) : q[i].index # d.index
      PROVE  Ordered(p, e)
  BY <1>3, <1>4 DEF Ordered
<1> QED  BY <1>2, <1>3, <1>4 DEF p

-----------------------------------------------------------------------------
(* From one program to the other *)

LEMMA StuckAt ==
  ASSUME NEW s \in Side, NEW h \in 0..MaxPacket, text' = text,
         Clean(net[Other(s)], h, Len(text)), expected'[Other(s)] <= h,
         h < count'[s] \/ ~MaySend(s)',
         DataOf(net'[Other(s)], net[Other(s)]),
         \A i \in Data(net'[Other(s)]) : net'[Other(s)][i].index # h
  PROVE  Stuck(s)'
<1>1. Clean(net'[Other(s)], h, Len(text'))
  BY CleanData
<1> QED  BY <1>1 DEF Stuck

\* A missing packet stays missing: what is sent from now on has higher
\* numbers, and the receiver goes on only with packets it still gets.
LEMMA StuckStays ==
  ASSUME NEW s \in Side, Typed, Typed', Stuck(s), text' = text,
         \A i \in Data(net'[Other(s)]) :
           \/ \E j \in Data(net[Other(s)]) : net'[Other(s)][i] = net[Other(s)][j]
           \/ net'[Other(s)][i].index = count[s] /\ MaySend(s),
         \/ expected'[Other(s)] <= expected[Other(s)]
         \/ /\ expected'[Other(s)] = expected[Other(s)] + 1
            /\ \E j \in Data(net[Other(s)]) : net[Other(s)][j].index = expected[Other(s)],
         ~MaySend(s)' \/ (MaySend(s) /\ count[s] <= count'[s])
  PROVE  Stuck(s)'
<1> DEFINE r == Other(s)
<1>1. r \in Side
  BY Sides
<1>2. /\ expected[r] \in Nat /\ expected'[r] \in Nat
      /\ count[s] \in Nat /\ count'[s] \in Nat
  BY <1>1, Consts DEF Typed, ReceiverOK, SenderOK
<1>3. PICK h \in 0..MaxPacket :
        /\ expected[r] <= h
        /\ h < count[s] \/ ~MaySend(s)
        /\ \A i \in Data(net[r]) : net[r][i].index # h
        /\ Clean(net[r], h, Len(text))
  BY DEF Stuck
<1>4. h \in Nat
  BY <1>3, Consts
<1>5. expected'[r] <= h
  <2>1. CASE expected'[r] <= expected[r]
    BY <1>2, <1>3, <1>4, <2>1
  <2>2. CASE /\ expected'[r] = expected[r] + 1
             /\ \E j \in Data(net[r]) : net[r][j].index = expected[r]
    <3>1. expected[r] # h
      BY <1>3, <2>2
    <3> QED  BY <1>2, <1>3, <1>4, <2>2, <3>1
  <2> QED  BY <2>1, <2>2
<1>6. h < count'[s] \/ ~MaySend(s)'
  BY <1>2, <1>3, <1>4
<1>7. ASSUME NEW i \in Data(net'[r])
      PROVE  /\ net'[r][i].index # h
             /\ net'[r][i].index < h =>
                  net'[r][i].text = net'[r][i].index + 1 /\ net'[r][i].text <= Len(text)
  <2>1. CASE \E j \in Data(net[r]) : net'[r][i] = net[r][j]
    BY <1>3, <2>1 DEF Clean
  <2>2. CASE net'[r][i].index = count[s] /\ MaySend(s)
    BY <1>2, <1>3, <1>4, <2>2
  <2> QED  BY <1>7, <2>1, <2>2
<1>8. Clean(net'[r], h, Len(text'))
  BY <1>7 DEF Clean
<1> HIDE DEF r
<1>9. \E x \in 0..MaxPacket :
        /\ expected'[r] <= x
        /\ x < count'[s] \/ ~MaySend(s)'
        /\ \A i \in Data(net'[r]) : net'[r][i].index # x
        /\ Clean(net'[r], x, Len(text'))
  BY <1>3, <1>5, <1>6, <1>7, <1>8
<1> QED  BY <1>9 DEF Stuck, r

\* When a program receives, its sender is closed.
LEMMA StuckClosed ==
  ASSUME NEW s \in Side, Typed, Typed', Stuck(s), text' = text, ~MaySend(s)',
         DataOf(net'[Other(s)], net[Other(s)]), expected'[Other(s)] <= expected[Other(s)]
  PROVE  Stuck(s)'
BY StuckStays DEF DataOf

LEMMA SideTypes ==
  ASSUME Typed, NEW s \in Side
  PROVE  /\ count[s] \in 0..MaxPacket /\ startWindow[s] \in 0..MaxPacket
         /\ endWindow[s] \in 0..(MaxPacket + Window - 1)
         /\ startWindow[s] <= endWindow[s] + 1
         /\ expected[s] \in 0..MaxPacket /\ lastWanted[s] \in 0..(MaxPacket + Window - 1)
         /\ at[s].piece \in 1..(MaxPacket + 1)
         /\ net[s] \in Seq(Datagrams) /\ Len(Source(s)) \in Nat
         /\ Len(text) \in Nat /\ Len(written) \in Nat /\ Len(printed) \in Nat
<1>1. /\ net[s] \in Seq(Datagrams) /\ expected[s] \in 0..MaxPacket
      /\ lastWanted[s] \in 0..(MaxPacket + Window - 1)
  BY DEF Typed, ReceiverOK, NetOK
<1>2. Len(Source(s)) \in Nat
  BY SourceType DEF Typed
<1>3. Len(text) \in Nat /\ Len(written) \in Nat /\ Len(printed) \in Nat
  BY DEF Typed, FilesOK
<1> QED  BY <1>1, <1>2, <1>3, PlaceType DEF Typed

LEMMA SideNats ==
  ASSUME Typed, NEW s \in Side
  PROVE  /\ count[s] \in Nat /\ startWindow[s] \in Nat /\ endWindow[s] \in Nat
         /\ startWindow[s] <= endWindow[s] + 1
         /\ expected[s] \in Nat /\ lastWanted[s] \in Nat /\ at[s].piece \in Nat
         /\ net[s] \in Seq(Datagrams) /\ Len(net[s]) \in Nat /\ Len(Source(s)) \in Nat
         /\ Len(text) \in Nat
<1>1. /\ 0..MaxPacket \subseteq Nat /\ 0..(MaxPacket + Window - 1) \subseteq Nat
      /\ 1..(MaxPacket + 1) \subseteq Nat
  BY Consts
<1>2. \A q \in Seq(Datagrams) : Len(q) \in Nat
  OBVIOUS
<1> QED  BY <1>1, <1>2, SideTypes

LEMMA DataType ==
  ASSUME Typed, NEW s \in Side, NEW i \in Data(net[s])
  PROVE  net[s][i].index \in Nat /\ net[s][i].text \in Int
<1>1. net[s] \in Seq(Datagrams) /\ i \in DOMAIN net[s]
  BY SideTypes DEF Data
<1>2. net[s][i] \in Datagrams
  BY <1>1
<1> QED  BY <1>2, Consts DEF Datagrams, Index, Piece, Nul, Torn

\* What a program sends are the first pieces of the text, each the piece of
\* its place.
Numbered == Counted /\ Begins(written, Len(text))

LEMMA SourceBegins ==
  ASSUME Typed, Numbered, NEW s \in Side, NEW i \in 1..Len(Source(s))
  PROVE  Source(s)[i] = i /\ Len(Source(s)) <= Len(text)
<1>1. Len(text) \in Nat
  BY SideTypes
<1> QED  BY <1>1 DEF Source, Numbered, Counted, Begins

\* A packet is sent with the number nobody has used.
LEMMA FlowSendPacket ==
  ASSUME Typed, Typed', NEW s \in Side, SendPacket(s), Flow(s), Behind(s),
         Ordered(net[Other(s)], expected[Other(s)]), Numbered
  PROVE  /\ Flow(s)' /\ Behind(s)'
         /\ Ordered(net'[Other(s)], expected'[Other(s)])
         /\ Nuls(net'[Other(s)]) = Nuls(net[Other(s)])
         /\ net'[s] = net[s]
<1> USE Consts
<1> DEFINE r == Other(s)
           t == IF at[s].inside THEN Torn ELSE Source(s)[at[s].piece]
           d == Datagram(t, count[s])
<1>1. r \in Side /\ r # s
  BY Sides
<1>2. /\ pc[s] = "send" /\ startWindow[s] # endWindow[s] + 1 /\ at[s].piece <= Len(Source(s))
      /\ count[s] < MaxPacket /\ Room(r) /\ Sends(s, d)
      /\ count' = [count EXCEPT ![s] = count[s] + 1]
      /\ startWindow' = [startWindow EXCEPT ![s] = startWindow[s] + 1]
      /\ at' = [at EXCEPT ![s] = [piece |-> at[s].piece + 1, inside |-> FALSE]]
      /\ endWindow' = endWindow /\ expected' = expected /\ lastWanted' = lastWanted
      /\ text' = text /\ written' = written /\ pc' = pc
    BY SideTypes DEF SendPacket, files, receiver, AtEnd
<1>3. /\ count[s] \in 0..MaxPacket /\ startWindow[s] \in 0..MaxPacket
      /\ endWindow[s] \in 0..(MaxPacket + Window - 1)
      /\ startWindow[s] <= endWindow[s] + 1
      /\ at[s].piece \in 1..(MaxPacket + 1)
      /\ net[r] \in Seq(Datagrams) /\ expected[r] \in 0..MaxPacket
      /\ Len(Source(s)) \in Nat /\ Len(text) \in Nat
  BY <1>1, SideTypes
<1>4. t \in Piece /\ t # Nul
  <2>1. Source(s) \in Seq(Piece)
    BY SourceType DEF Typed
  <2>2. at[s].piece \in 1..Len(Source(s))
    BY <1>2, <1>3
  <2> QED  BY <2>1, <2>2 DEF Piece, Nul, Torn
<1>5. d \in Datagrams /\ Small(d) /\ d.text # Nul /\ d.index = count[s] /\ d.text = t
  <2>1. count[s] \in Nat /\ count[s] < MaxPacket
    BY <1>2, SideNats
  <2> HIDE DEF t
  <2> QED  BY <1>4, <2>1, DatagramOK
<1> HIDE DEF d
<1>6. net'[s] = net[s] /\ net'[r] = Append(net[r], d)
  BY <1>2, <1>5, SendsNet DEF Typed
<1>7. \A i \in Data(net[r]) : net[r][i].index < count[s] /\ net[r][i].index \in Nat
  BY <1>1, DataType DEF Behind
<1>8. \A i \in Data(net'[r]) : net'[r][i] = d \/ (i \in Data(net[r]) /\ net'[r][i] = net[r][i])
  <2>1. \A i \in Data(Append(net[r], d)) :
          \/ Append(net[r], d)[i] = d
          \/ i \in Data(net[r]) /\ Append(net[r], d)[i] = net[r][i]
    BY <1>3, <1>5, PacketAdded
  <2> QED  BY <1>6, <2>1
<1>9. Nuls(net'[r]) = Nuls(net[r])
  BY <1>3, <1>5, <1>6, PacketAdded
<1>10. Ordered(net'[r], expected'[r])
  <2>1. d.index >= expected[r] /\ \A i \in Data(net[r]) : net[r][i].index # d.index
    <3>1. \A i \in Nat : i < count[s] => i # count[s]
      BY SideNats
    <3>2. expected[r] <= count[s] /\ count[s] \in Nat /\ expected[r] \in Nat
      BY <1>1, SideNats DEF Behind
    <3> QED  BY <1>5, <1>7, <3>1, <3>2
  <2> QED  BY <1>2, <1>3, <1>5, <1>6, <2>1, PacketAdded
<1>11. count'[s] = count[s] + 1 /\ startWindow'[s] = startWindow[s] + 1
  BY <1>2 DEF Typed, SenderOK
<1>12. Behind(s)'
  <2>1. \A i \in Data(net'[r]) : net'[r][i].index < count'[s]
    <3> SUFFICES ASSUME NEW i \in Data(net'[r]) PROVE net'[r][i].index < count'[s]
      OBVIOUS
    <3>1. CASE net'[r][i] = d
      BY <1>3, <1>5, <1>11, <3>1
    <3>2. CASE i \in Data(net[r]) /\ net'[r][i] = net[r][i]
      <4>1. net'[r][i].index = net[r][i].index /\ net[r][i].index < count[s] /\ net[r][i].index \in Nat
        BY <1>7, <3>2
      <4> HIDE DEF r
      <4> QED  BY <1>3, <1>11, <4>1
    <3> QED  BY <1>8, <3>1, <3>2
  <2>2. expected'[r] <= count'[s]
    <3>1. expected[r] <= count[s] /\ count[s] \in Nat /\ expected[r] \in Nat
      BY <1>1, SideNats DEF Behind
    <3>2. expected[r] <= count[s] + 1
      BY ONLY <3>1
    <3> QED  BY <1>2, <1>11, <3>2
  <2> QED  BY <2>1, <2>2 DEF Behind
<1>13. ASSUME InStep(s)
       PROVE  Flow(s)'
  <2>1. /\ startWindow[s] = count[s] /\ count[s] <= Len(Source(s))
        /\ at[s] = [piece |-> count[s] + 1, inside |-> FALSE]
        /\ Clean(net[r], count[s], Len(text))
        /\ \/ endWindow[s] = lastWanted[r] /\ Nuls(net[s]) = {}
           \/ count[s] = endWindow[s] + 1
    BY <1>13 DEF InStep
  <2>2. endWindow[s] = lastWanted[r] /\ Nuls(net[s]) = {}
    BY <1>2, <2>1
  <2>3. count[s] + 1 <= Len(Source(s))
    BY <1>2, <2>1
  <2>4. t = count[s] + 1 /\ t <= Len(text)
    <3>1. t = Source(s)[count[s] + 1]
      BY <2>1
    <3>2. Source(s)[count[s] + 1] = count[s] + 1 /\ Len(Source(s)) <= Len(text)
      BY <1>3, <2>3, SourceBegins
    <3> QED  BY <1>3, <2>3, <3>1, <3>2
  <2>5. Clean(net'[r], count'[s], Len(text'))
    <3> SUFFICES ASSUME NEW i \in Data(net'[r])
                 PROVE  net'[r][i].text = net'[r][i].index + 1 /\ net'[r][i].text <= Len(text)
      BY <1>2 DEF Clean
    <3>1. CASE net'[r][i] = d
      BY <1>5, <2>4, <3>1
    <3>2. CASE i \in Data(net[r]) /\ net'[r][i] = net[r][i]
      BY <1>7, <2>1, <3>2 DEF Clean
    <3> QED  BY <1>8, <3>1, <3>2
  <2>6. at'[s] = [piece |-> count'[s] + 1, inside |-> FALSE]
    BY <1>2, <1>11, <2>1 DEF Typed, SenderOK
  <2>7. Source(s)' = Source(s)
    BY <1>2 DEF Source
  <2>8. /\ startWindow'[s] = count'[s] /\ count'[s] <= Len(Source(s)')
        /\ endWindow'[s] = lastWanted'[r] /\ Nuls(net'[s]) = {}
    BY <1>2, <1>6, <1>11, <2>1, <2>2, <2>3, <2>7
  <2> QED  BY ONLY <2>5, <2>6, <2>8 DEF InStep, Flow, r
<1>14. ASSUME Stuck(s)
       PROVE  Flow(s)'
  <2>1. MaySend(s) /\ count[s] <= count'[s]
    <3>1. count[s] \in Nat /\ at[s].piece \in Nat /\ Len(Source(s)) \in Nat
      BY SideNats
    <3>2. ~AtEnd(s)
      BY <1>2, <3>1 DEF AtEnd
    <3>3. count[s] <= count[s] + 1
      BY ONLY <3>1
    <3> QED  BY <1>2, <1>11, <3>2, <3>3 DEF MaySend
  <2>2. \A i \in Data(net'[r]) :
          \/ \E j \in Data(net[r]) : net'[r][i] = net[r][j]
          \/ net'[r][i].index = count[s] /\ MaySend(s)
    BY <1>5, <1>8, <2>1
  <2>3. expected'[r] <= expected[r]
    BY <1>2, <1>3
  <2>4. text' = text
    BY <1>2
  <2> HIDE DEF r
  <2> QED  BY <1>14, <2>1, <2>2, <2>3, <2>4, StuckStays DEF Flow, r
<1> QED  BY <1>6, <1>9, <1>10, <1>12, <1>13, <1>14 DEF Flow

\* The end of the source closes the sender: what has not arrived and is not
\* under way never comes.
LEMMA FlowSendEnd ==
  ASSUME Typed, Typed', NEW s \in Side, SendEnd(s), Flow(s), Behind(s) \/ Stuck(s)
  PROVE  Stuck(s)'
<1> USE Consts
<1> DEFINE r == Other(s)
           d == Datagram(Nul, left[s])
<1>1. r \in Side /\ r # s
  BY Sides
<1>2. /\ pc' = [pc EXCEPT ![s] = "receive"] /\ text' = text
      /\ expected' = [expected EXCEPT ![s] = 0]
      /\ Room(r) /\ Sends(s, d)
  BY DEF SendEnd, Goto
<1>3. d \in Datagrams /\ Small(d) /\ d.text = Nul
  BY PlaceType DEF Typed, Datagram, Datagrams, Index, Small
<1> HIDE DEF d
<1>4. net'[r] = Append(net[r], d) /\ net[r] \in Seq(Datagrams)
  BY <1>1, <1>2, <1>3, SendsNet, SideTypes DEF Typed
<1>5. DataOf(net'[r], net[r])
  BY <1>3, <1>4, RequestAdded
<1>6. ~MaySend(s)' /\ expected'[r] = expected[r]
  BY <1>1, <1>2 DEF MaySend, Typed, FilesOK, ReceiverOK
<1>7. expected[r] \in 0..MaxPacket /\ count[s] \in 0..MaxPacket
  BY <1>1, SideTypes
<1>8. ASSUME InStep(s), Behind(s)
      PROVE  Stuck(s)'
  <2>1. Clean(net[r], count[s], Len(text)) /\ expected'[r] <= count[s]
    BY <1>6, <1>8 DEF InStep, Behind
  <2>2. ASSUME NEW i \in Data(net'[r]) PROVE net'[r][i].index # count[s]
    <3>1. PICK j \in Data(net[r]) : net'[r][i] = net[r][j]
      BY <1>5 DEF DataOf
    <3>2. net[r][j].index < count[s] /\ net[r][j].index \in Nat
      BY <1>1, <1>8, DataType DEF Behind
    <3> QED  BY <1>7, <3>1, <3>2
  <2> QED  BY <1>2, <1>5, <1>6, <1>7, <2>1, <2>2, StuckAt
<1>9. ASSUME Stuck(s)
      PROVE  Stuck(s)'
  <2>1. expected'[r] <= expected[r]
    BY <1>6, <1>7
  <2> QED  BY <1>2, <1>5, <1>6, <1>9, <2>1, StuckClosed
<1> QED  BY <1>8, <1>9 DEF Flow

\* A request, while what is under way to the sender beside requests has
\* numbers beyond its source.
LEMMA FlowTakeRequest ==
  ASSUME Typed, Typed', NEW s \in Side, TakeRequest(s), Flow(s), Behind(s),
         \A i \in Data(net[s]) : net[s][i].index >= Len(Source(s))
  PROVE  Flow(s)' /\ Behind(s)'
<1> USE Consts
<1> DEFINE r == Other(s)
           d == Head(net[s])
           i == d.index
<1>1. r \in Side /\ r # s
  BY Sides
<1>2. /\ pc[s] = "send" /\ startWindow[s] = endWindow[s] + 1 /\ net[s] # <<>> /\ Takes(s)
      /\ text' = text /\ written' = written /\ pc' = pc /\ count' = count
      /\ expected' = expected /\ lastWanted' = lastWanted
  BY DEF TakeRequest, files, receiver
<1>3. /\ count[s] \in 0..MaxPacket /\ startWindow[s] \in 0..MaxPacket
      /\ endWindow[s] \in 0..(MaxPacket + Window - 1)
      /\ expected[r] \in 0..MaxPacket /\ lastWanted[r] \in 0..(MaxPacket + Window - 1)
      /\ net[r] \in Seq(Datagrams) /\ net[s] \in Seq(Datagrams) /\ Len(Source(s)) \in Nat
  BY <1>1, SideTypes
<1>4. net'[s] = Tail(net[s]) /\ net'[r] = net[r] /\ i \in Nat
  BY <1>2, TakesNet DEF Typed, Datagrams, Index
<1>5. Source(s)' = Source(s) /\ AtEnd(s) = (at[s].piece > Len(Source(s)))
  BY <1>2 DEF Source, AtEnd
<1>6. Behind(s)'
  BY <1>2, <1>4 DEF Behind
<1>7. DataOf(net'[r], net[r])
  BY <1>4 DEF DataOf
<1>8. ASSUME Stuck(s) PROVE Stuck(s)'
  <2>1. MaySend(s) /\ count[s] <= count'[s] /\ expected'[r] <= expected[r]
    BY <1>2, <1>3 DEF MaySend
  <2>2. \A x \in Data(net'[r]) :
          \/ \E j \in Data(net[r]) : net'[r][x] = net[r][j]
          \/ net'[r][x].index = count[s] /\ MaySend(s)
    BY <1>7 DEF DataOf
  <2> HIDE DEF r
  <2> QED  BY <1>2, <1>8, <2>1, <2>2, StuckStays DEF r
<1>9. ASSUME InStep(s) PROVE Flow(s)'
  <2>1. /\ startWindow[s] = count[s] /\ count[s] <= Len(Source(s))
        /\ at[s] = [piece |-> count[s] + 1, inside |-> FALSE]
        /\ Clean(net[r], count[s], Len(text))
        /\ \/ endWindow[s] = lastWanted[r] /\ Nuls(net[s]) = {}
           \/ /\ endWindow[s] = lastWanted[r] - Window
              /\ count[s] = endWindow[s] + 1 /\ expected[r] = count[s]
              /\ AtMostOne(Nuls(net[s]))
              /\ \A x \in Nuls(net[s]) : net[s][x].index = count[s]
    BY <1>9 DEF InStep
  <2>2. count[s] = endWindow[s] + 1
    BY <1>2, <2>1
  <2>3. Clean(net'[r], count'[s], Len(text'))
    BY <1>2, <1>4, <2>1
  <2>4. d = net[s][1] /\ 1 \in DOMAIN net[s]
    BY <1>2, <1>3, TailIs
  <2>5. /\ Nuls(net[s]) = {} => Nuls(net'[s]) = {}
        /\ AtMostOne(Nuls(net[s])) => AtMostOne(Nuls(net'[s]))
        /\ \A x \in Nuls(net'[s]) : \E j \in Nuls(net[s]) : net'[s][x] = net[s][j]
    <3>1. /\ Nuls(net[s]) = {} => Nuls(Tail(net[s])) = {}
          /\ AtMostOne(Nuls(net[s])) => AtMostOne(Nuls(Tail(net[s])))
          /\ \A x \in Nuls(Tail(net[s])) : \E j \in Nuls(net[s]) : Tail(net[s])[x] = net[s][j]
      BY <1>2, <1>3, TailFacts
    <3> QED  BY <1>4, <3>1
  <2> HIDE DEF i
  <2>6. CASE d.text = Nul
    <3>1. 1 \in Nuls(net[s])
      BY <2>4, <2>6 DEF Nuls
    <3>2. /\ endWindow[s] = lastWanted[r] - Window /\ expected[r] = count[s]
          /\ AtMostOne(Nuls(net[s])) /\ i = count[s]
      BY <2>1, <2>4, <3>1 DEF i
    <3>3. Nuls(net'[s]) = {}
      BY <1>2, <1>3, <1>4, <2>6, <3>2, RequestTaken
    <3>4. /\ startWindow' = [startWindow EXCEPT ![s] = i]
          /\ endWindow' = [endWindow EXCEPT ![s] = i + Window - 1]
          /\ at' = at
      <4>1. ~(i < endWindow[s]) /\ i # endWindow[s] /\ ~(i > endWindow[s] + 1)
        <5>1. endWindow[s] \in Nat
          BY SideNats
        <5>2. i = endWindow[s] + 1
          BY <2>2, <3>2
        <5> QED  BY ONLY <5>1, <5>2
      <4> QED  BY ONLY TakeRequest(s), <4>1 DEF TakeRequest, i
    <3>5. startWindow'[s] = count[s] /\ endWindow'[s] = lastWanted[r]
      <4>1. startWindow'[s] = i /\ endWindow'[s] = i + Window - 1
        BY <3>4 DEF Typed, SenderOK
      <4>2. lastWanted[r] \in Nat /\ endWindow[s] \in Nat /\ Window \in Nat
        BY <1>1, SideNats
      <4>3. i = endWindow[s] + 1 /\ endWindow[s] = lastWanted[r] - Window /\ i = count[s]
        BY <2>2, <3>2
      <4>4. i + Window - 1 = lastWanted[r]
        <5> HIDE DEF r
        <5> QED  BY ONLY <4>2, <4>3
      <4> QED  BY <4>1, <4>3, <4>4
    <3>6. /\ startWindow'[s] = count'[s] /\ count'[s] <= Len(Source(s)')
          /\ at'[s] = [piece |-> count'[s] + 1, inside |-> FALSE]
          /\ endWindow'[s] = lastWanted'[r]
      BY <1>2, <1>5, <2>1, <3>4, <3>5
    <3>7. InStep(s)'
      BY ONLY <2>3, <3>3, <3>6 DEF InStep, r
    <3> QED  BY <3>7 DEF Flow
  <2>7. CASE d.text # Nul
    <3>1. 1 \in Data(net[s])
      BY <2>4, <2>7 DEF Data
    <3>2. i >= Len(Source(s))
      BY <2>4, <3>1 DEF i
    <3>3. i >= endWindow[s] + 1
      <4>1. endWindow[s] + 1 <= Len(Source(s))
        BY <2>1, <2>2
      <4>2. endWindow[s] \in Nat /\ Len(Source(s)) \in Nat /\ i \in Nat
        BY <1>3, <1>4 DEF i
      <4> QED  BY ONLY <3>2, <4>1, <4>2
    <3>4. CASE i = endWindow[s] + 1
      <4>1. /\ startWindow' = [startWindow EXCEPT ![s] = i]
            /\ endWindow' = [endWindow EXCEPT ![s] = i + Window - 1]
            /\ at' = at
        BY <1>3, <3>4 DEF TakeRequest, i
      <4>2. startWindow'[s] = i /\ endWindow'[s] = i + Window - 1
        BY <4>1 DEF Typed, SenderOK
      <4>3. at'[s].piece > Len(Source(s)')
        BY <1>3, <1>5, <2>1, <2>2, <3>2, <3>4, <4>1
      <4>4. startWindow'[s] # endWindow'[s] + 1
        BY <1>3, <3>4, <4>2
      <4>5. ~MaySend(s)'
        BY <4>3, <4>4 DEF MaySend, AtEnd
      <4>6. \A x \in Data(net'[r]) : net'[r][x].index # count[s]
        <5>1. \A x \in Data(net[r]) : net[r][x].index < count[s] /\ net[r][x].index \in Nat
          BY <1>1, DataType DEF Behind
        <5> QED  BY <1>3, <1>4, <5>1
      <4>7. expected'[r] <= count[s]
        BY <1>2 DEF Behind
      <4>8. Stuck(s)'
        BY <1>2, <1>3, <1>7, <2>1, <4>5, <4>6, <4>7, StuckAt
      <4> QED  BY <4>8 DEF Flow
    <3>5. CASE i > endWindow[s] + 1
      <4>1. startWindow' = startWindow /\ endWindow' = endWindow /\ at' = at
        <5>1. i \in Nat /\ endWindow[s] \in Nat
          BY <1>4, SideNats DEF i
        <5>2. ~(i < endWindow[s]) /\ i # endWindow[s] + 1
          BY ONLY <3>5, <5>1
        <5> QED  BY ONLY TakeRequest(s), <5>2 DEF TakeRequest, i
      <4>2. /\ startWindow'[s] = count'[s] /\ count'[s] <= Len(Source(s)')
            /\ at'[s] = [piece |-> count'[s] + 1, inside |-> FALSE]
        BY <1>2, <1>5, <2>1, <4>1
      <4>3. \/ endWindow'[s] = lastWanted'[r] /\ Nuls(net'[s]) = {}
            \/ /\ endWindow'[s] = lastWanted'[r] - Window
               /\ count'[s] = endWindow'[s] + 1 /\ expected'[r] = count'[s]
               /\ AtMostOne(Nuls(net'[s]))
               /\ \A x \in Nuls(net'[s]) : net'[s][x].index = count'[s]
        BY <1>2, <2>1, <2>5, <4>1
      <4>4. InStep(s)'
        BY ONLY <2>3, <4>2, <4>3 DEF InStep, r
      <4> QED  BY <4>4 DEF Flow
    <3>6. i = endWindow[s] + 1 \/ i > endWindow[s] + 1
      <4>1. i \in Nat /\ endWindow[s] \in Nat
        BY <1>4, SideNats DEF i
      <4> QED  BY ONLY <3>3, <4>1
    <3> QED  BY <3>4, <3>5, <3>6
  <2> QED  BY <2>6, <2>7
<1> QED  BY <1>6, <1>8, <1>9 DEF Flow

LEMMA SidesTyped ==
  ASSUME Typed', NEW s \in Side
  PROVE  /\ expected'[s] \in 0..MaxPacket /\ count'[s] \in 0..MaxPacket
         /\ net'[s] \in Seq(Datagrams)
BY DEF Typed, ReceiverOK, SenderOK, NetOK

LEMMA DataTypeNext ==
  ASSUME Typed', NEW s \in Side, NEW i \in Data(net'[s])
  PROVE  net'[s][i].index \in Nat
<1>1. net'[s] \in Seq(Datagrams) /\ i \in DOMAIN net'[s]
  BY SidesTyped DEF Data
<1>2. net'[s][i] \in Datagrams
  BY <1>1
<1> QED  BY <1>2, Consts DEF Datagrams, Index

\* What a receiver accepts is the next piece.
LEMMA AcceptedIsNext ==
  ASSUME Typed, NEW s \in Side, NEW r \in Side, r = Other(s), Accept(r),
         (InStep(s) /\ Behind(s)) \/ Stuck(s), Ordered(net[r], expected[r])
  PROVE  /\ Head(net[r]).text = expected[r] + 1 /\ expected[r] + 1 <= Len(text)
         /\ \E j \in Data(net[r]) : net[r][j].index = expected[r]
<1> USE Consts
<1>1. /\ net[r] \in Seq(Datagrams) /\ net[r] # <<>> /\ Head(net[r]).text # Nul
      /\ Head(net[r]).index = expected[r] /\ expected[r] \in 0..MaxPacket
  BY SideTypes DEF Accept
<1>2. PICK j \in Data(net[r]) : net[r][j] = Head(net[r])
  BY <1>1, PacketTaken
<1>3. net[r][j].index = expected[r]
  BY <1>1, <1>2
<1>4. net[r][j].text = expected[r] + 1 /\ net[r][j].text <= Len(text)
  <2>1. CASE InStep(s) /\ Behind(s)
    BY <1>3, <2>1 DEF InStep, Behind, Clean
  <2>2. CASE Stuck(s)
    <3>1. PICK h \in 0..MaxPacket :
            /\ expected[r] <= h
            /\ \A i \in Data(net[r]) : net[r][i].index # h
            /\ Clean(net[r], h, Len(text))
      BY <2>2 DEF Stuck
    <3>2. expected[r] < h
      BY <1>1, <1>3, <3>1
    <3> QED  BY <1>3, <3>1, <3>2 DEF Clean
  <2> QED  BY <2>1, <2>2
<1> QED  BY <1>2, <1>3, <1>4

LEMMA FlowAccept ==
  ASSUME Typed, Typed', NEW s \in Side, NEW r \in Side, r = Other(s), Accept(r),
         Ordered(net[r], expected[r])
  PROVE  /\ InStep(s) /\ Behind(s) => Flow(s)'
         /\ Stuck(s) => Stuck(s)'
         /\ Behind(s) => Behind(s)'
         /\ Ordered(net'[r], expected'[r])
         /\ Data(net'[s]) = Data(net[s]) /\ \A e : Ordered(net[s], e) => Ordered(net'[s], e)
         /\ DataOf(net'[s], net[s])
<1> USE Consts
<1> DEFINE q == Datagram(Nul, expected[r] + 1)
<1>1. s = Other(r) /\ r # s
  BY Sides
<1>2. /\ net[r] # <<>> /\ Head(net[r]).text # Nul /\ Head(net[r]).index = expected[r]
      /\ expected' = [expected EXCEPT ![r] = expected[r] + 1]
      /\ Keep(r, Head(net[r]).text)
      /\ \/ /\ expected[r] = lastWanted[r] /\ Room(s)
            /\ lastWanted' = [lastWanted EXCEPT ![r] = lastWanted[r] + Window]
            /\ Answers(r, q)
         \/ expected[r] # lastWanted[r] /\ Takes(r) /\ lastWanted' = lastWanted
      /\ text' = text /\ pc' = pc /\ count' = count /\ startWindow' = startWindow
      /\ endWindow' = endWindow /\ at' = at
  BY <1>1 DEF Accept, sender
<1>3. /\ count[s] \in 0..MaxPacket /\ startWindow[s] \in 0..MaxPacket
      /\ endWindow[s] \in 0..(MaxPacket + Window - 1) /\ startWindow[s] <= endWindow[s] + 1
      /\ expected[r] \in 0..MaxPacket /\ lastWanted[r] \in 0..(MaxPacket + Window - 1)
      /\ net[r] \in Seq(Datagrams) /\ net[s] \in Seq(Datagrams) /\ expected[s] \in 0..MaxPacket
      /\ expected'[r] \in 0..MaxPacket
  BY SideTypes, SidesTyped
<1>4. expected'[r] = expected[r] + 1 /\ expected'[s] = expected[s] /\ lastWanted'[s] = lastWanted[s]
  BY <1>1, <1>2 DEF Typed, ReceiverOK
<1>5. q \in Datagrams /\ Small(q) /\ q.text = Nul /\ q.index = expected[r] + 1
  BY <1>3, <1>4, RequestOK DEF Datagram
<1> HIDE DEF q
<1>6. /\ net'[r] = Tail(net[r])
      /\ \/ /\ expected[r] = lastWanted[r] /\ lastWanted'[r] = lastWanted[r] + Window
            /\ net'[s] = Append(net[s], q)
         \/ net'[s] = net[s] /\ lastWanted'[r] = lastWanted[r] /\ expected[r] # lastWanted[r]
  <2>1. CASE /\ expected[r] = lastWanted[r] /\ Room(s)
             /\ lastWanted' = [lastWanted EXCEPT ![r] = lastWanted[r] + Window]
             /\ Answers(r, q)
    <3>1. lastWanted'[r] = lastWanted[r] + Window
      BY <2>1 DEF Typed, ReceiverOK
    <3>2. net'[r] = Tail(net[r]) /\ net'[Other(r)] = Append(net[Other(r)], q)
      BY <1>1, <1>2, <1>5, <2>1, AnswersNet DEF Typed
    <3> QED  BY <1>1, <2>1, <3>1, <3>2
  <2>2. CASE expected[r] # lastWanted[r] /\ Takes(r) /\ lastWanted' = lastWanted
    BY <1>1, <1>2, <2>2, TakesNet DEF Typed
  <2> QED  BY <1>2, <2>1, <2>2
<1>7. DataOf(net'[r], net[r]) /\ Ordered(net'[r], expected[r])
  <2>1. DataOf(Tail(net[r]), net[r]) /\ Ordered(Tail(net[r]), expected[r])
    BY <1>2, <1>3, TailFacts
  <2> QED  BY <1>6, <2>1
<1>8. \A i \in Data(net'[r]) : net'[r][i].index # expected[r]
  <2>1. \A i \in Data(Tail(net[r])) : Tail(net[r])[i].index # Head(net[r]).index
    BY <1>2, <1>3, PacketTaken
  <2> QED  BY <1>2, <1>6, <2>1
<1>9. Ordered(net'[r], expected'[r])
  <2>1. \A i \in Data(net'[r]) : net'[r][i].index \in Nat
    BY DataTypeNext
  <2>2. \A i \in Data(net'[r]) : net'[r][i].index >= expected[r] + 1
    <3> SUFFICES ASSUME NEW i \in Data(net'[r]) PROVE net'[r][i].index >= expected[r] + 1
      OBVIOUS
    <3>1. net'[r][i].index \in Nat /\ net'[r][i].index # expected[r]
      BY <1>8, <2>1
    <3>2. net'[r][i].index >= expected[r]
      BY <1>7 DEF Ordered
    <3>3. expected[r] \in Nat
      BY <1>3
    <3> QED  BY ONLY <3>1, <3>2, <3>3
  <2> QED  BY <1>4, <1>7, <2>2 DEF Ordered
<1>10. /\ Data(net'[s]) = Data(net[s]) /\ \A e : Ordered(net[s], e) => Ordered(net'[s], e)
       /\ DataOf(net'[s], net[s])
  <2>1. CASE net'[s] = net[s]
    BY <2>1 DEF DataOf
  <2>2. CASE net'[s] = Append(net[s], q)
    <3>1. /\ Data(Append(net[s], q)) = Data(net[s]) /\ DataOf(Append(net[s], q), net[s])
          /\ \A e : Ordered(net[s], e) => Ordered(Append(net[s], q), e)
      BY <1>3, <1>5, RequestAdded
    <3> QED  BY <2>2, <3>1
  <2> QED  BY <1>6, <2>1, <2>2
<1>11. \E j \in Data(net[r]) : net[r][j].index = expected[r]
  <2>1. \E j \in Data(net[r]) : net[r][j] = Head(net[r])
    BY <1>2, <1>3, PacketTaken
  <2> QED  BY <1>2, <2>1
<1>12. ASSUME Behind(s) PROVE Behind(s)' /\ expected[r] < count[s]
  <2>1. expected[r] < count[s]
    BY <1>11, <1>12 DEF Behind
  <2>2. expected'[r] <= count'[s]
    BY <1>2, <1>3, <1>4, <2>1
  <2>3. \A i \in Data(net'[r]) : net'[r][i].index < count'[s]
    BY <1>2, <1>7, <1>12 DEF Behind, DataOf
  <2> QED  BY <2>1, <2>2, <2>3 DEF Behind
<1>13. Source(s)' = Source(s)
  BY <1>1, <1>2, Sides DEF Source, Keep, Side
<1>14. ASSUME Stuck(s) PROVE Stuck(s)'
  <2>2. ~MaySend(s)' \/ (MaySend(s) /\ count[s] <= count'[s])
    <3>1. count'[s] = count[s]
      BY <1>2
    <3>2. count[s] <= count'[s]
      BY <1>3, <3>1
    <3>3. CASE MaySend(s)
      BY <3>2, <3>3
    <3>4. CASE ~MaySend(s)
      BY <1>2, <1>13, <3>4 DEF MaySend, AtEnd
    <3> QED  BY <3>3, <3>4
  <2>3. \A x \in Data(net'[r]) :
          \/ \E j \in Data(net[r]) : net'[r][x] = net[r][j]
          \/ net'[r][x].index = count[s] /\ MaySend(s)
    BY <1>7 DEF DataOf
  <2> QED  BY <1>2, <1>4, <1>11, <1>14, <2>2, <2>3, StuckStays
<1>15. ASSUME InStep(s), Behind(s) PROVE Flow(s)'
  <2>1. /\ startWindow[s] = count[s] /\ count[s] <= Len(Source(s))
        /\ at[s] = [piece |-> count[s] + 1, inside |-> FALSE]
        /\ Clean(net[r], count[s], Len(text))
        /\ \/ endWindow[s] = lastWanted[r] /\ Nuls(net[s]) = {}
           \/ expected[r] = count[s]
    BY <1>15 DEF InStep
  <2>2. expected[r] < count[s]
    BY <1>12, <1>15
  <2>3. endWindow[s] = lastWanted[r] /\ Nuls(net[s]) = {}
    BY <1>3, <2>1, <2>2
  <2>4. Clean(net'[r], count'[s], Len(text'))
    BY <1>2, <1>7, <2>1, CleanData
  <2>5. /\ startWindow'[s] = count'[s] /\ count'[s] <= Len(Source(s)')
        /\ at'[s] = [piece |-> count'[s] + 1, inside |-> FALSE]
    BY <1>2, <1>13, <2>1
  <2>6. \/ endWindow'[s] = lastWanted'[r] /\ Nuls(net'[s]) = {}
        \/ /\ endWindow'[s] = lastWanted'[r] - Window
           /\ count'[s] = endWindow'[s] + 1 /\ expected'[r] = count'[s]
           /\ AtMostOne(Nuls(net'[s]))
           /\ \A x \in Nuls(net'[s]) : net'[s][x].index = count'[s]
    <3>1. CASE net'[s] = net[s] /\ lastWanted'[r] = lastWanted[r]
      BY <1>2, <2>3, <3>1
    <3>2. CASE /\ expected[r] = lastWanted[r] /\ lastWanted'[r] = lastWanted[r] + Window
               /\ net'[s] = Append(net[s], q)
      <4>1. count[s] = endWindow[s] + 1 /\ expected[r] + 1 = count[s]
        <5>1. /\ count[s] = startWindow[s] /\ expected[r] < count[s]
              /\ expected[r] = endWindow[s]
          BY <2>1, <2>2, <2>3, <3>2
        <5> QED  BY <1>3, <5>1
      <4>2. endWindow'[s] = lastWanted'[r] - Window
        BY <1>2, <1>3, <2>3, <3>2
      <4>3. AtMostOne(Nuls(net'[s])) /\ \A x \in Nuls(net'[s]) : net'[s][x] = q
        <5>1. /\ AtMostOne(Nuls(Append(net[s], q)))
              /\ \A x \in Nuls(Append(net[s], q)) : Append(net[s], q)[x] = q
          BY <1>3, <1>5, <2>3, RequestAdded
        <5> QED  BY <3>2, <5>1
      <4> QED  BY <1>2, <1>4, <1>5, <4>1, <4>2, <4>3
    <3> QED  BY <1>6, <3>1, <3>2
  <2>7. InStep(s)'
    BY ONLY <2>4, <2>5, <2>6, r = Other(s) DEF InStep
  <2> QED  BY <2>7 DEF Flow
<1> QED  BY <1>9, <1>10, <1>12, <1>14, <1>15

\* A packet that is not the one expected is a later one: what was expected
\* is asked for, and the packet that was passed over is missing.
LEMMA FlowReject ==
  ASSUME Typed, Typed', NEW s \in Side, NEW r \in Side, r = Other(s), Reject(r),
         Ordered(net[r], expected[r])
  PROVE  /\ InStep(s) /\ Behind(s) => Stuck(s)'
         /\ Stuck(s) => Stuck(s)'
         /\ Behind(s) => Behind(s)'
         /\ Ordered(net'[r], expected'[r])
         /\ Data(net'[s]) = Data(net[s]) /\ \A e : Ordered(net[s], e) => Ordered(net'[s], e)
         /\ DataOf(net'[s], net[s]) /\ DataOf(net'[r], net[r])
<1> USE Consts
<1> DEFINE q == Datagram(Nul, expected[r])
<1>1. s = Other(r) /\ r # s
  BY Sides
<1>2. /\ net[r] # <<>> /\ Head(net[r]).text # Nul /\ Head(net[r]).index # expected[r]
      /\ Room(s) /\ Answers(r, q)
      /\ text' = text /\ written' = written /\ pc' = pc /\ count' = count
      /\ startWindow' = startWindow /\ endWindow' = endWindow /\ at' = at /\ expected' = expected
  BY <1>1 DEF Reject, files, sender, receiver
<1>3. /\ count[s] \in 0..MaxPacket /\ expected[r] \in 0..MaxPacket
      /\ net[r] \in Seq(Datagrams) /\ net[s] \in Seq(Datagrams)
  BY SideTypes
<1>4. q \in Datagrams /\ Small(q) /\ q.text = Nul
  BY <1>3, RequestOK DEF Datagram
<1> HIDE DEF q
<1>5. net'[r] = Tail(net[r]) /\ net'[s] = Append(net[s], q)
  BY <1>1, <1>2, <1>4, AnswersNet DEF Typed
<1>6. DataOf(net'[r], net[r]) /\ Ordered(net'[r], expected'[r])
  <2>1. DataOf(Tail(net[r]), net[r]) /\ Ordered(Tail(net[r]), expected[r])
    BY <1>2, <1>3, TailFacts
  <2> QED  BY <1>2, <1>5, <2>1
<1>7. /\ Data(net'[s]) = Data(net[s]) /\ \A e : Ordered(net[s], e) => Ordered(net'[s], e)
      /\ DataOf(net'[s], net[s])
  BY <1>3, <1>4, <1>5, RequestAdded
<1>8. ASSUME Behind(s) PROVE Behind(s)'
  BY <1>2, <1>6, <1>8 DEF Behind, DataOf
<1>10. ASSUME Stuck(s) PROVE Stuck(s)'
  <2>1. PICK h \in 0..MaxPacket :
          /\ expected[r] <= h
          /\ h < count[s] \/ ~MaySend(s)
          /\ \A i \in Data(net[r]) : net[r][i].index # h
          /\ Clean(net[r], h, Len(text))
    BY <1>10 DEF Stuck
  <2>2. \A i \in Data(net'[r]) : net'[r][i].index # h
    BY <1>6, <2>1 DEF DataOf
  <2>3. h < count'[s] \/ ~MaySend(s)'
    BY <1>2, <2>1 DEF MaySend, AtEnd, Source
  <2>4. expected'[r] <= h
    BY <1>2, <2>1
  <2> QED  BY <1>2, <1>6, <2>1, <2>2, <2>3, <2>4, StuckAt
<1>11. ASSUME InStep(s), Behind(s) PROVE Stuck(s)'
  <2> DEFINE h == Head(net[r]).index
  <2>1. PICK j \in Data(net[r]) : net[r][j] = Head(net[r])
    BY <1>2, <1>3, PacketTaken
  <2>2. h \in Nat /\ h < count[s]
    BY <1>11, <2>1, DataType DEF Behind
  <2>3. h >= expected[r]
    BY <1>2, <1>3, PacketTaken
  <2>4. \A i \in Data(net'[r]) : net'[r][i].index # h
    <3>1. \A i \in Data(Tail(net[r])) : Tail(net[r])[i].index # Head(net[r]).index
      BY <1>2, <1>3, PacketTaken
    <3> QED  BY <1>5, <3>1
  <2> HIDE DEF h
  <2>5. Clean(net[r], h, Len(text))
    <3>1. Clean(net[r], count[s], Len(text))
      BY <1>11 DEF InStep
    <3>2. \A i \in Data(net[r]) : net[r][i].index < count[s]
      BY <1>11 DEF Behind
    <3> QED  BY <3>1, <3>2 DEF Clean
  <2>6. h \in 0..MaxPacket /\ expected'[r] <= h /\ h < count'[s]
    BY <1>2, <1>3, <2>2, <2>3
  <2> QED  BY <1>2, <1>6, <2>4, <2>5, <2>6, StuckAt
<1> QED  BY <1>6, <1>7, <1>8, <1>10, <1>11

\* Datagrams that are lost or overtaken.
Passes(s) ==
  /\ Selects(net'[s], net[s]) /\ net'[Other(s)] = net[Other(s)]
  /\ UNCHANGED <<files, pc, sender, receiver>>

LEMMA NetworkPasses ==
  ASSUME Typed, NEW s \in Side, Lose(s) \/ Overtake(s)
  PROVE  Passes(s) /\ \E k \in {"lose", "overtake"} : Happens(k)
<1>1. net[s] \in Seq(Datagrams) /\ Other(s) # s /\ Other(s) \in Side
  BY Sides, SideTypes
<1>2. CASE Lose(s)
  <2>1. net[s] # <<>> /\ Takes(s) /\ Happens("lose")
    BY <1>2 DEF Lose
  <2>2. net'[s] = Tail(net[s]) /\ net'[Other(s)] = net[Other(s)]
    BY <2>1, TakesNet DEF Typed
  <2>3. Selects(Tail(net[s]), net[s])
    BY <1>1, <2>1, TailSelects
  <2> QED  BY <2>1, <2>2, <2>3 DEF Passes, Happens
<1>3. CASE Overtake(s)
  <2>1. Len(net[s]) > 1 /\ net' = [net EXCEPT ![s] = Swap(net[s])] /\ Happens("overtake")
    BY <1>3 DEF Overtake, Swap
  <2>2. net'[s] = Swap(net[s]) /\ net'[Other(s)] = net[Other(s)]
    BY <1>1, <2>1 DEF Typed, NetOK
  <2>3. Selects(Swap(net[s]), net[s])
    BY <1>1, <2>1, SwapSelects
  <2> QED  BY <2>1, <2>2, <2>3 DEF Passes, Happens
<1> QED  BY <1>2, <1>3

LEMMA PassesAll ==
  ASSUME Typed, NEW s \in Side, Passes(s), NEW x \in Side
  PROVE  /\ Nuls(net[x]) = {} => Nuls(net'[x]) = {}
         /\ Data(net[x]) = {} => Data(net'[x]) = {}
         /\ AtMostOne(Nuls(net[x])) => AtMostOne(Nuls(net'[x]))
         /\ \A i \in Nuls(net'[x]) : \E j \in Nuls(net[x]) : net'[x][i] = net[x][j]
         /\ DataOf(net'[x], net[x])
         /\ \A e : Ordered(net[x], e) => Ordered(net'[x], e)
<1>1. CASE x = s
  BY <1>1, SelectedFacts DEF Passes
<1>2. CASE x # s
  <2>1. net'[x] = net[x]
    BY <1>2, Sides DEF Passes
  <2> QED  BY <2>1 DEF DataOf
<1> QED  BY <1>1, <1>2

LEMMA FlowPasses ==
  ASSUME Typed, Typed', NEW s \in Side, NEW x \in Side, Passes(x)
  PROVE  /\ InStep(s) => InStep(s)'
         /\ Stuck(s) => Stuck(s)'
         /\ Behind(s) => Behind(s)'
<1> DEFINE r == Other(s)
<1>1. r \in Side
  BY Sides
<1>2. /\ text' = text /\ written' = written /\ pc' = pc /\ count' = count
      /\ startWindow' = startWindow /\ endWindow' = endWindow /\ at' = at
      /\ expected' = expected /\ lastWanted' = lastWanted
  BY DEF Passes, files, sender, receiver
<1>3. DataOf(net'[r], net[r])
  BY <1>1, PassesAll
<1>4. /\ Nuls(net[s]) = {} => Nuls(net'[s]) = {}
      /\ AtMostOne(Nuls(net[s])) => AtMostOne(Nuls(net'[s]))
      /\ \A i \in Nuls(net'[s]) : \E j \in Nuls(net[s]) : net'[s][i] = net[s][j]
  BY PassesAll
<1>5. ASSUME Behind(s) PROVE Behind(s)'
  BY <1>2, <1>3, <1>5 DEF Behind, DataOf
<1>6. ASSUME Stuck(s) PROVE Stuck(s)'
  <2>1. PICK h \in 0..MaxPacket :
          /\ expected[r] <= h
          /\ h < count[s] \/ ~MaySend(s)
          /\ \A i \in Data(net[r]) : net[r][i].index # h
          /\ Clean(net[r], h, Len(text))
    BY <1>6 DEF Stuck
  <2>2. \A i \in Data(net'[r]) : net'[r][i].index # h
    BY <1>3, <2>1 DEF DataOf
  <2>3. h < count'[s] \/ ~MaySend(s)'
    BY <1>2, <2>1 DEF MaySend, AtEnd, Source
  <2>4. expected'[r] <= h
    BY <1>2, <2>1
  <2> QED  BY <1>2, <1>3, <2>1, <2>2, <2>3, <2>4, StuckAt
<1>7. ASSUME InStep(s) PROVE InStep(s)'
  <2>1. Clean(net'[r], count'[s], Len(text'))
    BY <1>2, <1>3, <1>7, CleanData DEF InStep
  <2>2. /\ startWindow'[s] = count'[s] /\ count'[s] <= Len(Source(s)')
        /\ at'[s] = [piece |-> count'[s] + 1, inside |-> FALSE]
    BY <1>2, <1>7 DEF InStep, Source
  <2>3. \/ endWindow'[s] = lastWanted'[r] /\ Nuls(net'[s]) = {}
        \/ /\ endWindow'[s] = lastWanted'[r] - Window
           /\ count'[s] = endWindow'[s] + 1 /\ expected'[r] = count'[s]
           /\ AtMostOne(Nuls(net'[s]))
           /\ \A i \in Nuls(net'[s]) : net'[s][i].index = count'[s]
    BY <1>2, <1>4, <1>7 DEF InStep
  <2> QED  BY ONLY <2>1, <2>2, <2>3 DEF InStep, r
<1> QED  BY <1>5, <1>6, <1>7

-----------------------------------------------------------------------------
(* Steps of the first message *)

LEMMA FirstSendPacket ==
  ASSUME Typed, Typed', Counted, FirstMessage, NEW s \in Side, SendPacket(s)
  PROVE  FirstMessage'
<1> USE Consts, Sides, SideAssumption
<1> DEFINE r == Other(s)
<1>1. r \in Side /\ r # s /\ Requester \in Side /\ Responder \in Side
  BY DEF Side
<1>2. /\ pc[s] = "send" /\ ~AtEnd(s) /\ startWindow[s] # endWindow[s] + 1
      /\ count' = [count EXCEPT ![s] = count[s] + 1]
      /\ startWindow' = [startWindow EXCEPT ![s] = startWindow[s] + 1]
      /\ at' = [at EXCEPT ![s] = [piece |-> at[s].piece + 1, inside |-> FALSE]]
      /\ endWindow' = endWindow /\ expected' = expected /\ lastWanted' = lastWanted
      /\ text' = text /\ written' = written /\ printed' = printed /\ pc' = pc
  BY DEF SendPacket, files, receiver
<1>3. Arrived /\ Numbered
  BY DEF FirstMessage, Arrived, Numbered
<1>4. Ordered(net[r], expected[r])
  BY <1>1, <1>3 DEF Arrived
<1>5. Fresh(r)' = Fresh(r)
  BY <1>1, <1>2 DEF Fresh, Typed, SenderOK
<1>6. ASSUME Flow(s), Behind(s)
      PROVE  /\ Flow(s)' /\ Behind(s)' /\ Arrived'
             /\ Nuls(net'[r]) = Nuls(net[r]) /\ net'[s] = net[s]
  <2>1. /\ Flow(s)' /\ Behind(s)' /\ Ordered(net'[r], expected'[r])
        /\ Nuls(net'[r]) = Nuls(net[r]) /\ net'[s] = net[s]
    BY <1>3, <1>4, <1>6, FlowSendPacket
  <2>2. \A x \in Side : Ordered(net'[x], expected'[x])
    <3> SUFFICES ASSUME NEW x \in Side PROVE Ordered(net'[x], expected'[x])
      OBVIOUS
    <3>1. CASE x = s
      BY <1>2, <1>3, <2>1, <3>1 DEF Arrived
    <3>2. CASE x # s
      BY <2>1, <3>2
    <3> QED  BY <3>1, <3>2
  <2>3. Arrived'
    BY <1>2, <1>3, <2>2 DEF Arrived
  <2> QED  BY <2>1, <2>3
<1>7. CASE s = Requester
  <2>1. RequesterSends
    BY <1>2, <1>7 DEF FirstMessage, Phase, NobodySends, ResponderSends, ResponderSent
  <2>2. Flow(s) /\ Behind(s)
    BY <1>7, <2>1 DEF RequesterSends
  <2>3. Fresh(Responder)' /\ Flow(Requester)' /\ Behind(Requester)' /\ Arrived'
    BY <1>5, <1>6, <1>7, <2>1, <2>2 DEF RequesterSends
  <2>4. /\ Nuls(net'[Responder]) = {} /\ Data(net'[Requester]) = {}
        /\ pc'[Requester] = "send" /\ pc'[Responder] = "receive" /\ expected'[Requester] = 0
    BY <1>2, <1>6, <1>7, <2>1, <2>2 DEF RequesterSends
  <2>5. RequesterSends'
    BY ONLY <2>3, <2>4 DEF RequesterSends
  <2> QED  BY <2>3, <2>5 DEF FirstMessage, Phase
<1>8. CASE s = Responder
  <2>1. written # <<>>
    <3>1. CASE ResponderSends
      BY <1>2, <1>8, <3>1 DEF ResponderSends, Fresh, AtEnd, Source
    <3>2. CASE ResponderSent
      BY <1>2, <1>8, <3>2 DEF ResponderSent, Fresh, AtEnd, Source
    <3> QED  BY <1>2, <1>8, <3>1, <3>2 DEF FirstMessage, Phase, RequesterSends, NobodySends
  <2>2. ResponderSends
    BY <1>2, <1>8, <2>1 DEF FirstMessage, Phase, RequesterSends, NobodySends, ResponderSent
  <2>3. Flow(s) /\ Behind(s) /\ Stuck(Requester)
    BY <1>8, <2>2 DEF ResponderSends
  <2>4. Flow(Responder)' /\ Behind(Responder)' /\ Arrived' /\ net'[Responder] = net[Responder]
    BY <1>6, <1>8, <2>3
  <2>5. /\ pc'[Requester] = "receive" /\ pc'[Responder] = "send" /\ written' # <<>>
    BY <1>2, <2>1, <2>2 DEF ResponderSends
  <2>6. Stuck(Requester)'
    <3>1. ~MaySend(Requester)'
      BY <2>5 DEF MaySend
    <3>2. DataOf(net'[Other(Requester)], net[Other(Requester)])
      BY <2>4 DEF DataOf
    <3>3. expected'[Other(Requester)] <= expected[Other(Requester)] /\ text' = text
      BY <1>1, <1>2, SideTypes
    <3> QED  BY <1>1, <2>3, <3>1, <3>2, <3>3, StuckClosed
  <2>7. ResponderSends'
    BY ONLY <2>4, <2>5, <2>6 DEF ResponderSends
  <2> QED  BY <2>4, <2>7 DEF FirstMessage, Phase
<1> QED  BY <1>7, <1>8 DEF Side

LEMMA EmptyWritten == Typed /\ written # <<>> => Len(written) >= 1
BY DEF Typed, FilesOK

LEMMA OrderedFromZero ==
  ASSUME Typed, NEW s \in Side, NEW e, Ordered(net[s], e)
  PROVE  Ordered(net[s], 0)
<1>1. \A i \in Data(net[s]) : net[s][i].index >= 0
  BY DataType
<1> QED  BY <1>1 DEF Ordered

\* What SendEnd does to the state of both programs.
LEMMA SendEndEffect ==
  ASSUME Typed, NEW s \in Side, SendEnd(s)
  PROVE  /\ pc[s] = "send" /\ startWindow[s] # endWindow[s] + 1 /\ AtEnd(s)
         /\ pc'[s] = "receive" /\ pc'[Other(s)] = pc[Other(s)]
         /\ expected'[s] = 0 /\ expected'[Other(s)] = expected[Other(s)]
         /\ lastWanted'[s] = Window - 1 /\ lastWanted'[Other(s)] = lastWanted[Other(s)]
         /\ text' = text /\ message' = message /\ faults' = faults
         /\ written' = IF s = Responder THEN <<>> ELSE written
         /\ printed' = IF s = Requester THEN <<>> ELSE printed
         /\ Fresh(s)' /\ Fresh(Other(s))' = Fresh(Other(s))
         /\ net'[s] = net[s] /\ net'[Other(s)] = Append(net[Other(s)], Datagram(Nul, left[s]))
         /\ Datagram(Nul, left[s]) \in Datagrams /\ Datagram(Nul, left[s]).text = Nul
<1> USE Consts
<1> DEFINE r == Other(s)
<1>1. r \in Side /\ r # s
  BY Sides
<1>2. Datagram(Nul, left[s]) \in Datagrams /\ Small(Datagram(Nul, left[s]))
      /\ Datagram(Nul, left[s]).text = Nul
  BY PlaceType DEF Typed, Datagram, Datagrams, Index, Small
<1>3. Room(r) /\ Sends(s, Datagram(Nul, left[s]))
  BY DEF SendEnd
<1>4. net'[s] = net[s] /\ net'[r] = Append(net[r], Datagram(Nul, left[s]))
  BY <1>2, <1>3, SendsNet DEF Typed
<1>5. Fresh(s)' /\ Fresh(r)' = Fresh(r)
  BY <1>1 DEF SendEnd, FromStart, Fresh, Typed, SenderOK
<1>6. /\ pc'[s] = "receive" /\ pc'[r] = pc[r]
      /\ expected'[s] = 0 /\ expected'[r] = expected[r]
      /\ lastWanted'[s] = Window - 1 /\ lastWanted'[r] = lastWanted[r]
  BY <1>1 DEF SendEnd, Goto, Typed, FilesOK, ReceiverOK
<1> QED  BY <1>2, <1>4, <1>5, <1>6 DEF SendEnd

LEMMA FirstSendEnd ==
  ASSUME Typed, Typed', FirstMessage, NEW s \in Side, SendEnd(s)
  PROVE  FirstMessage'
<1> USE Consts, Sides, SideAssumption
<1> DEFINE r == Other(s)
           d == Datagram(Nul, left[s])
<1>1. r \in Side /\ r # s /\ Requester \in Side /\ Responder \in Side
  BY DEF Side
<1>2. /\ pc[s] = "send" /\ pc'[s] = "receive" /\ pc'[r] = pc[r]
      /\ expected'[s] = 0 /\ expected'[r] = expected[r]
      /\ lastWanted'[s] = Window - 1 /\ lastWanted'[r] = lastWanted[r]
      /\ text' = text
      /\ written' = (IF s = Responder THEN <<>> ELSE written)
      /\ printed' = (IF s = Requester THEN <<>> ELSE printed)
      /\ Fresh(s)' /\ Fresh(r)' = Fresh(r)
      /\ net'[s] = net[s] /\ net'[r] = Append(net[r], d)
      /\ d \in Datagrams /\ d.text = Nul
  BY SendEndEffect
<1> HIDE DEF d
<1>3. net[r] \in Seq(Datagrams) /\ Len(written) \in Nat /\ Len(text) \in Nat
  BY <1>1, SideTypes
<1>4. Arrived
  BY DEF FirstMessage
<1>5. /\ Data(net'[r]) = Data(net[r])
      /\ \A e : Ordered(net[r], e) => Ordered(net'[r], e)
      /\ Nuls(net[r]) = {} => AtMostOne(Nuls(net'[r]))
  <2>1. /\ Data(Append(net[r], d)) = Data(net[r])
        /\ \A e : Ordered(net[r], e) => Ordered(Append(net[r], d), e)
        /\ Nuls(net[r]) = {} => AtMostOne(Nuls(Append(net[r], d)))
    BY <1>2, <1>3, RequestAdded
  <2> QED  BY <1>2, <2>1
<1>6. Arrived'
  <2>1. ASSUME NEW x \in Side PROVE Ordered(net'[x], expected'[x])
    <3>1. CASE x = s
      BY <1>2, <1>4, <3>1, OrderedFromZero DEF Arrived
    <3>2. CASE x # s
      BY <1>1, <1>2, <1>4, <1>5, <3>2 DEF Arrived
    <3> QED  BY <3>1, <3>2
  <2>2. Len(<<>>) = 0 /\ Begins(<<>>, Len(text))
    BY <1>3 DEF Begins
  <2>3. CASE s = Requester
    BY <1>2, <1>4, <2>1, <2>2, <2>3 DEF Arrived
  <2>4. CASE s = Responder
    BY <1>2, <1>4, <2>1, <2>2, <2>4 DEF Arrived
  <2> QED  BY <2>3, <2>4 DEF Side
<1>7. CASE s = Requester
  <2>1. RequesterSends
    BY <1>2, <1>7 DEF FirstMessage, Phase, NobodySends, ResponderSends, ResponderSent
  <2>2. Stuck(Requester)'
    BY <1>7, <2>1, FlowSendEnd DEF RequesterSends
  <2>3. /\ pc'[Requester] = "receive" /\ pc'[Responder] = "receive"
        /\ Fresh(Responder)' /\ expected'[Requester] = 0 /\ lastWanted'[Requester] = Window - 1
        /\ AtMostOne(Nuls(net'[Responder])) /\ Data(net'[Requester]) = {}
    BY <1>2, <1>5, <1>7, <2>1 DEF RequesterSends
  <2>4. NobodySends'
    BY ONLY <2>2, <2>3 DEF NobodySends
  <2> QED  BY <1>6, <2>4 DEF FirstMessage, Phase
<1>8. CASE s = Responder
  <2>1. ResponderSends \/ ResponderSent
    BY <1>2, <1>8 DEF FirstMessage, Phase, RequesterSends, NobodySends
  <2>2. /\ pc'[Requester] = "receive" /\ pc'[Responder] = "receive"
        /\ Fresh(Responder)' /\ written' = <<>>
    BY <1>2, <1>8, <2>1 DEF ResponderSends, ResponderSent
  <2>3. Stuck(Responder)'
    BY <1>8, <2>1, FlowSendEnd DEF ResponderSends, ResponderSent, Flow
  <2>4. CASE ResponderSends /\ written = <<>>
    <3>1. /\ expected'[Requester] = 0 /\ lastWanted'[Requester] = Window - 1
          /\ AtMostOne(Nuls(net'[Responder])) /\ Data(net'[Requester]) = {}
      <4>1. /\ expected[Requester] = 0 /\ lastWanted[Requester] = Window - 1
            /\ Nuls(net[Responder]) = {} /\ Data(net[Requester]) = {}
        BY <2>4 DEF ResponderSends
      <4>2. expected'[Requester] = 0 /\ lastWanted'[Requester] = Window - 1
        BY <1>2, <1>8, <4>1
      <4>3. AtMostOne(Nuls(net'[Responder]))
        BY <1>2, <1>8, <4>1 DEF AtMostOne
      <4>4. Data(net'[Requester]) = {}
        BY <1>5, <1>8, <4>1
      <4> QED  BY <4>2, <4>3, <4>4
    <3>2. Stuck(Requester)'
      <4>1. ~MaySend(Requester)'
        BY <2>2 DEF MaySend
      <4>2. DataOf(net'[Other(Requester)], net[Other(Requester)])
        BY <1>2, <1>8 DEF DataOf
      <4>3. expected'[Other(Requester)] <= expected[Other(Requester)]
        BY <1>1, <1>2, <1>8, SideTypes
      <4>4. Stuck(Requester) /\ text' = text
        BY <1>2, <2>4 DEF ResponderSends
      <4> QED  BY <1>1, <4>1, <4>2, <4>3, <4>4, StuckClosed
    <3>3. NobodySends'
      BY ONLY <2>2, <3>1, <3>2 DEF NobodySends
    <3> QED  BY <1>6, <3>3 DEF FirstMessage, Phase
  <2>5. CASE ~(ResponderSends /\ written = <<>>)
    <3>1. \A i \in Data(net[Responder]) : net[Responder][i].index # 0
      <4>1. CASE ResponderSends
        <5>1. written # <<>> /\ Len(written) = expected[Responder]
              /\ Ordered(net[Responder], expected[Responder])
          BY <1>1, <1>4, <2>5, <4>1 DEF Arrived
        <5>2. expected[Responder] >= 1
          BY <1>3, <5>1, EmptyWritten
        <5>3. \A i \in Data(net[Responder]) : net[Responder][i].index >= expected[Responder]
                                              /\ net[Responder][i].index \in Nat
          BY <1>1, <5>1, DataType DEF Ordered
        <5>4. expected[Responder] \in Nat
          BY <1>3, <5>1
        <5> QED  BY <5>2, <5>3, <5>4
      <4>2. CASE ResponderSent
        BY <4>2 DEF ResponderSent
      <4> QED  BY <2>1, <4>1, <4>2
    <3>2. \A i \in Data(net'[Responder]) : net'[Responder][i].index # 0
      BY <1>2, <1>8, <3>1
    <3>3. ResponderSent'
      BY ONLY <2>2, <2>3, <3>2 DEF ResponderSent
    <3> QED  BY <1>6, <3>3 DEF FirstMessage, Phase
  <2> QED  BY <2>4, <2>5
<1> QED  BY <1>7, <1>8 DEF Side

LEMMA FirstTakeRequest ==
  ASSUME Typed, Typed', FirstMessage, NEW s \in Side, TakeRequest(s)
  PROVE  FirstMessage'
<1> USE Consts, Sides, SideAssumption
<1> DEFINE r == Other(s)
<1>1. r \in Side /\ r # s /\ Requester \in Side /\ Responder \in Side
  BY DEF Side
<1>2. /\ pc[s] = "send" /\ startWindow[s] = endWindow[s] + 1 /\ net[s] # <<>> /\ Takes(s)
      /\ text' = text /\ written' = written /\ printed' = printed /\ pc' = pc /\ count' = count
      /\ expected' = expected /\ lastWanted' = lastWanted
  BY DEF TakeRequest, files, receiver
<1>3. net'[s] = Tail(net[s]) /\ net'[r] = net[r]
  BY <1>2, TakesNet DEF Typed
<1>4. Arrived
  BY DEF FirstMessage
<1>5. /\ \A e : Ordered(net[s], e) => Ordered(net'[s], e)
      /\ Data(net[s]) = {} => Data(net'[s]) = {}
  <2>1. net[s] \in Seq(Datagrams)
    BY SideTypes
  <2>2. /\ \A e : Ordered(net[s], e) => Ordered(Tail(net[s]), e)
        /\ Data(net[s]) = {} => Data(Tail(net[s])) = {}
    BY <1>2, <2>1, TailFacts
  <2> QED  BY <1>3, <2>2
<1>6. Arrived'
  <2>1. ASSUME NEW x \in Side PROVE Ordered(net'[x], expected'[x])
    <3>1. CASE x = s
      BY <1>2, <1>4, <1>5, <3>1 DEF Arrived
    <3>2. CASE x # s
      BY <1>2, <1>3, <1>4, <3>2 DEF Arrived
    <3> QED  BY <3>1, <3>2
  <2> QED  BY <1>2, <1>4, <2>1 DEF Arrived
<1>7. ~Fresh(s)
  <2>1. Window \in Int /\ 0 # Window - 1 + 1
    OBVIOUS
  <2> QED  BY <1>2, <2>1 DEF Fresh
<1>8. Fresh(r)' = Fresh(r)
  <2>1. startWindow' = startWindow \/ \E i : startWindow' = [startWindow EXCEPT ![s] = i]
    BY DEF TakeRequest
  <2>2. endWindow' = endWindow \/ \E i : endWindow' = [endWindow EXCEPT ![s] = i]
    BY DEF TakeRequest
  <2>3. at' = at \/ \E a : at' = [at EXCEPT ![s] = a]
    BY DEF TakeRequest
  <2>4. startWindow'[r] = startWindow[r] /\ endWindow'[r] = endWindow[r] /\ at'[r] = at[r]
    BY <1>1, <2>1, <2>2, <2>3 DEF Typed, SenderOK
  <2> QED  BY <1>2, <2>4 DEF Fresh
<1>9. CASE s = Requester
  <2>1. RequesterSends
    BY <1>2, <1>9 DEF FirstMessage, Phase, NobodySends, ResponderSends, ResponderSent
  <2>2. Flow(Requester)' /\ Behind(Requester)'
    <3>1. \A i \in Data(net[s]) : net[s][i].index >= Len(Source(s))
      BY <1>9, <2>1 DEF RequesterSends
    <3> QED  BY <1>9, <2>1, <3>1, FlowTakeRequest DEF RequesterSends
  <2>3. /\ pc'[Requester] = "send" /\ pc'[Responder] = "receive"
        /\ Fresh(Responder)' /\ expected'[Requester] = 0
        /\ Nuls(net'[Responder]) = {} /\ Data(net'[Requester]) = {}
    BY <1>2, <1>3, <1>5, <1>8, <1>9, <2>1 DEF RequesterSends
  <2>4. RequesterSends'
    BY ONLY <2>2, <2>3 DEF RequesterSends
  <2> QED  BY <1>6, <2>4 DEF FirstMessage, Phase
<1>10. CASE s = Responder
  <2>1. ResponderSends /\ written # <<>>
    BY <1>2, <1>7, <1>10 DEF FirstMessage, Phase, RequesterSends, NobodySends, ResponderSends, ResponderSent
  <2>2. Flow(Responder)' /\ Behind(Responder)'
    <3>1. Len(Source(s)) = expected[s]
      BY <1>1, <1>4, <1>10 DEF Arrived, Source
    <3>2. \A i \in Data(net[s]) : net[s][i].index >= Len(Source(s))
      BY <1>4, <3>1 DEF Arrived, Ordered
    <3> QED  BY <1>10, <2>1, <3>2, FlowTakeRequest DEF ResponderSends
  <2>3. pc'[Requester] = "receive" /\ pc'[Responder] = "send" /\ written' # <<>>
    BY <1>2, <2>1 DEF ResponderSends
  <2>4. Stuck(Requester)'
    <3>1. ~MaySend(Requester)'
      BY <2>3 DEF MaySend
    <3>2. DataOf(net'[Other(Requester)], net[Other(Requester)])
      <4>1. DataOf(Tail(net[s]), net[s])
        BY <1>2, SideTypes, TailFacts
      <4> QED  BY <1>3, <1>10, <4>1
    <3>3. expected'[Other(Requester)] <= expected[Other(Requester)]
      BY <1>1, <1>2, SideTypes
    <3>4. Stuck(Requester) /\ text' = text
      BY <1>2, <2>1 DEF ResponderSends
    <3> QED  BY <1>1, <3>1, <3>2, <3>3, <3>4, StuckClosed
  <2>5. ResponderSends'
    BY ONLY <2>2, <2>3, <2>4 DEF ResponderSends
  <2> QED  BY <1>6, <2>5 DEF FirstMessage, Phase
<1> QED  BY <1>9, <1>10 DEF Side

\* A program that receives neither moves its sender's place nor the other's.
LEMMA ReceiveEffect ==
  ASSUME Typed, NEW r \in Side, Accept(r) \/ Reject(r)
  PROVE  /\ pc[r] = "receive" /\ text' = text /\ pc' = pc /\ message' = message /\ faults' = faults
         /\ UNCHANGED sender
         /\ \A s \in Side : Fresh(s)' = Fresh(s)
         /\ expected'[Other(r)] = expected[Other(r)] /\ lastWanted'[Other(r)] = lastWanted[Other(r)]
         /\ net[r] \in Seq(Datagrams) /\ net[r] # <<>> /\ 1 \in Data(net[r])
         /\ net'[r] = Tail(net[r])
<1> USE Consts, Sides
<1>1. /\ pc[r] = "receive" /\ text' = text /\ pc' = pc /\ message' = message /\ faults' = faults
      /\ UNCHANGED sender /\ net[r] # <<>> /\ Head(net[r]).text # Nul
  BY DEF Accept, Reject, files
<1>2. \A s \in Side : Fresh(s)' = Fresh(s)
  BY <1>1 DEF sender, Fresh
<1>3. expected'[Other(r)] = expected[Other(r)] /\ lastWanted'[Other(r)] = lastWanted[Other(r)]
  BY DEF Accept, Reject, receiver, Typed, ReceiverOK
<1>4. net[r] \in Seq(Datagrams)
  BY SideTypes
<1>5. 1 \in Data(net[r])
  BY <1>1, <1>4, TailIs DEF Data
<1>6. net'[r] = Tail(net[r])
  BY DEF Accept, Reject, Answers, Takes, Typed, NetOK
<1> QED  BY <1>1, <1>2, <1>3, <1>4, <1>5, <1>6

\* A packet that is taken leaves the flow to its receiver as it should be.
LEMMA Received ==
  ASSUME Typed, Typed', NEW s \in Side, NEW r \in Side, r = Other(s), Accept(r) \/ Reject(r),
         Arrived
  PROVE  /\ Flow(s) /\ Behind(s) => Flow(s)' /\ Behind(s)'
         /\ Stuck(s) => Stuck(s)'
         /\ \A x \in Side : Ordered(net'[x], expected'[x])
         /\ Data(net'[s]) = Data(net[s]) /\ DataOf(net'[s], net[s]) /\ DataOf(net'[r], net[r])
         /\ Nuls(net[r]) = {} => Nuls(net'[r]) = {}
         /\ AtMostOne(Nuls(net[r])) => AtMostOne(Nuls(net'[r]))
<1> USE Consts, Sides
<1>1. s = Other(r) /\ r # s /\ \A x \in Side : Ordered(net[x], expected[x])
  BY DEF Arrived
<1>2. /\ InStep(s) /\ Behind(s) => Flow(s)'
      /\ Stuck(s) => Stuck(s)'
      /\ Behind(s) => Behind(s)'
      /\ Ordered(net'[r], expected'[r])
      /\ Data(net'[s]) = Data(net[s]) /\ \A e : Ordered(net[s], e) => Ordered(net'[s], e)
      /\ DataOf(net'[s], net[s])
  <2>1. CASE Accept(r)
    BY <1>1, <2>1, FlowAccept
  <2>2. CASE Reject(r)
    BY <1>1, <2>2, FlowReject DEF Flow
  <2> QED  BY <2>1, <2>2
<1>3. expected'[s] = expected[s] /\ net'[r] = Tail(net[r]) /\ net[r] \in Seq(Datagrams) /\ net[r] # <<>>
  BY <1>1, ReceiveEffect
<1>4. \A x \in Side : Ordered(net'[x], expected'[x])
  BY <1>1, <1>2, <1>3
<1>5. /\ DataOf(net'[r], net[r])
      /\ Nuls(net[r]) = {} => Nuls(net'[r]) = {}
      /\ AtMostOne(Nuls(net[r])) => AtMostOne(Nuls(net'[r]))
  <2>1. /\ DataOf(Tail(net[r]), net[r])
        /\ Nuls(net[r]) = {} => Nuls(Tail(net[r])) = {}
        /\ AtMostOne(Nuls(net[r])) => AtMostOne(Nuls(Tail(net[r])))
    BY <1>3, TailFacts
  <2> QED  BY <1>3, <2>1
<1> QED  BY <1>2, <1>4, <1>5 DEF Flow

LEMMA OnePieceMore ==
  ASSUME NEW n \in Nat, NEW p \in Seq(Piece), NEW t, Begins(p, n), t = Len(p) + 1, t <= n, t \in Piece
  PROVE  /\ Begins(Append(p, t), n) /\ Len(Append(p, t)) = Len(p) + 1 /\ Append(p, t) # <<>>
<1>1. /\ Len(Append(p, t)) = Len(p) + 1 /\ Append(p, t) # <<>>
      /\ \A i \in 1..Len(p) : Append(p, t)[i] = p[i]
      /\ Append(p, t)[Len(p) + 1] = t
  BY AppendProperties
<1>2. Len(p) \in Nat
  OBVIOUS
<1> QED  BY <1>1, <1>2 DEF Begins

LEMMA ArrivedReceives ==
  ASSUME Typed, Typed', NEW s \in Side, NEW r \in Side, r = Other(s), Accept(r) \/ Reject(r),
         Arrived, Accept(r) => (InStep(s) /\ Behind(s)) \/ Stuck(s)
  PROVE  /\ Arrived'
         /\ r = Requester => written' = written
         /\ Reject(r) => written' = written
<1> USE Consts, Sides, SideAssumption
<1>1. /\ Len(written) = expected[Responder] /\ Begins(written, Len(text))
      /\ Len(printed) = expected[Requester] /\ Begins(printed, Len(text))
      /\ Ordered(net[r], expected[r])
  BY DEF Arrived
<1>2. text' = text /\ \A x \in Side : Ordered(net'[x], expected'[x])
  BY Received, ReceiveEffect
<1>3. CASE Reject(r)
  <2>1. written' = written /\ printed' = printed /\ expected' = expected
    BY <1>3 DEF Reject, files, receiver
  <2> QED  BY <1>1, <1>2, <2>1 DEF Arrived
<1>4. CASE Accept(r)
  <2> DEFINE t == Head(net[r]).text
  <2>1. t = expected[r] + 1 /\ expected[r] + 1 <= Len(text)
    BY <1>1, <1>4, AcceptedIsNext
  <2>2. t \in Piece
    BY <1>4, PacketType DEF Accept, Typed
  <2>3. Keep(r, t) /\ expected' = [expected EXCEPT ![r] = expected[r] + 1]
    BY <1>4 DEF Accept
  <2> HIDE DEF t
  <2>4. /\ written \in Seq(Piece) /\ printed \in Seq(Piece) /\ Len(text) \in Nat
        /\ Requester \in Side /\ Responder \in Side
        /\ expected \in [Side -> 0..MaxPacket]
    BY SideTypes DEF Typed, FilesOK, ReceiverOK, Side
  <2>5. CASE r = Responder
    <3>1. /\ written' = Append(written, t) /\ printed' = printed
          /\ expected'[Responder] = expected[Responder] + 1
          /\ expected'[Requester] = expected[Requester]
      BY <2>3, <2>4, <2>5 DEF Keep
    <3>2. Len(written') = Len(written) + 1 /\ Begins(written', Len(text))
      <4>1. t = Len(written) + 1 /\ t <= Len(text)
        BY <1>1, <2>1, <2>5
      <4>2. /\ Len(Append(written, t)) = Len(written) + 1
            /\ Begins(Append(written, t), Len(text))
        BY <1>1, <2>2, <2>4, <4>1, OnePieceMore
      <4> QED  BY <3>1, <4>2
    <3>3. ~Reject(r)
      BY <1>4 DEF Accept, Reject
    <3> QED  BY <1>1, <1>2, <2>5, <3>1, <3>2, <3>3 DEF Arrived
  <2>6. CASE r = Requester
    <3>1. /\ printed' = Append(printed, t) /\ written' = written
          /\ expected'[Requester] = expected[Requester] + 1
          /\ expected'[Responder] = expected[Responder]
      BY <2>3, <2>4, <2>6 DEF Keep
    <3>2. Len(printed') = Len(printed) + 1 /\ Begins(printed', Len(text))
      <4>1. t = Len(printed) + 1 /\ t <= Len(text)
        BY <1>1, <2>1, <2>6
      <4>2. /\ Len(Append(printed, t)) = Len(printed) + 1
            /\ Begins(Append(printed, t), Len(text))
        BY <1>1, <2>2, <2>4, <4>1, OnePieceMore
      <4> QED  BY <3>1, <4>2
    <3> QED  BY <1>1, <1>2, <3>1, <3>2 DEF Arrived
  <2> QED  BY <2>5, <2>6 DEF Side
<1> QED  BY <1>3, <1>4

LEMMA FirstReceive ==
  ASSUME Typed, Typed', FirstMessage, NEW r \in Side, Accept(r) \/ Reject(r)
  PROVE  FirstMessage'
<1> USE Consts, Sides, SideAssumption
<1> DEFINE s == Other(r)
<1>1. s \in Side /\ r # s /\ r = Other(s) /\ Requester \in Side /\ Responder \in Side
  BY DEF Side
<1>2. /\ pc[r] = "receive" /\ text' = text /\ pc' = pc
      /\ \A x \in Side : Fresh(x)' = Fresh(x)
      /\ expected'[s] = expected[s] /\ lastWanted'[s] = lastWanted[s]
      /\ 1 \in Data(net[r]) /\ net'[r] = Tail(net[r])
  BY ReceiveEffect
<1>3. Arrived
  BY DEF FirstMessage
<1>4. /\ Flow(s) /\ Behind(s) => Flow(s)' /\ Behind(s)'
      /\ Stuck(s) => Stuck(s)'
      /\ Data(net'[s]) = Data(net[s]) /\ DataOf(net'[s], net[s]) /\ DataOf(net'[r], net[r])
      /\ Nuls(net[r]) = {} => Nuls(net'[r]) = {}
      /\ AtMostOne(Nuls(net[r])) => AtMostOne(Nuls(net'[r]))
  BY <1>1, <1>3, Received
<1>5. (Accept(r) => (InStep(s) /\ Behind(s)) \/ Stuck(s)) =>
        /\ Arrived'
        /\ r = Requester => written' = written
        /\ Reject(r) => written' = written
  BY <1>1, <1>3, ArrivedReceives
<1>6. Stuck(r) /\ pc[r] = "receive" => Stuck(r)'
  <2> SUFFICES ASSUME Stuck(r) PROVE Stuck(r)'
    OBVIOUS
  <2>1. ~MaySend(r)' /\ text' = text
    BY <1>2 DEF MaySend
  <2>2. expected'[s] <= expected[s]
    BY <1>1, <1>2, SideTypes
  <2> QED  BY <1>4, <2>1, <2>2, StuckClosed
<1> HIDE DEF s
<1>7. CASE r = Responder
  <2>1. s = Requester
    BY <1>7 DEF s
  <2>2. CASE RequesterSends
    <3>1. Flow(Requester) /\ Behind(Requester)
      BY <2>2 DEF RequesterSends
    <3>2. Arrived'
      BY <1>5, <2>1, <3>1 DEF Flow
    <3>3. Flow(Requester)' /\ Behind(Requester)'
      BY <1>4, <2>1, <3>1
    <3>4. /\ pc'[Requester] = "send" /\ pc'[Responder] = "receive"
          /\ Fresh(Responder)' /\ expected'[Requester] = 0
          /\ Nuls(net'[Responder]) = {} /\ Data(net'[Requester]) = {}
      BY <1>1, <1>2, <1>4, <1>7, <2>1, <2>2 DEF RequesterSends
    <3>5. RequesterSends'
      BY ONLY <3>3, <3>4 DEF RequesterSends
    <3> QED  BY <3>2, <3>5 DEF FirstMessage, Phase
  <2>3. CASE NobodySends
    <3>1. Stuck(Requester)
      BY <2>3 DEF NobodySends
    <3>2. Arrived' /\ Stuck(Requester)'
      BY <1>4, <1>5, <2>1, <3>1
    <3>3. /\ pc'[Requester] = "receive" /\ pc'[Responder] = "receive"
          /\ Fresh(Responder)' /\ expected'[Requester] = 0 /\ lastWanted'[Requester] = Window - 1
          /\ AtMostOne(Nuls(net'[Responder])) /\ Data(net'[Requester]) = {}
      BY <1>1, <1>2, <1>4, <1>7, <2>1, <2>3 DEF NobodySends
    <3>4. NobodySends'
      BY ONLY <3>2, <3>3 DEF NobodySends
    <3> QED  BY <3>2, <3>4 DEF FirstMessage, Phase
  <2>4. CASE ResponderSent
    <3>1. written = <<>> /\ \A i \in Data(net[Responder]) : net[Responder][i].index # 0
      BY <2>4 DEF ResponderSent
    <3>2. ~Accept(r)
      <4>1. expected[Responder] = 0
        BY <1>3, <3>1 DEF Arrived
      <4>2. net[r] \in Seq(Datagrams) /\ net[r] # <<>>
        BY ReceiveEffect
      <4>3. Head(net[r]) = net[r][1] /\ 1 \in Data(net[r])
        BY <1>2, <4>2, TailIs
      <4> QED  BY <1>7, <3>1, <4>1, <4>3 DEF Accept
    <3>3. Arrived' /\ written' = <<>>
      BY <1>5, <3>1, <3>2
    <3>4. \A i \in Data(net'[Responder]) : net'[Responder][i].index # 0
      BY <1>4, <1>7, <3>1 DEF DataOf
    <3>5. Stuck(Responder)'
      BY <1>2, <1>6, <1>7, <2>4 DEF ResponderSent
    <3>6. /\ pc'[Requester] = "receive" /\ pc'[Responder] \in {"receive", "send"}
          /\ Fresh(Responder)'
      BY <1>1, <1>2, <2>4 DEF ResponderSent
    <3>7. ResponderSent'
      BY ONLY <3>3, <3>4, <3>5, <3>6 DEF ResponderSent
    <3> QED  BY <3>3, <3>7 DEF FirstMessage, Phase
  <2> QED  BY <1>2, <1>7, <2>2, <2>3, <2>4 DEF FirstMessage, Phase, ResponderSends
<1>8. CASE r = Requester
  <2>1. s = Responder
    BY <1>8 DEF s
  <2>2. CASE ResponderSends
    <3>1. Flow(Responder) /\ Behind(Responder) /\ Stuck(Requester) /\ written # <<>>
      BY <1>2, <1>8, <2>2 DEF ResponderSends
    <3>2. Arrived' /\ written' = written
      BY <1>5, <1>8, <2>1, <3>1 DEF Flow
    <3>3. Flow(Responder)' /\ Behind(Responder)'
      BY <1>4, <2>1, <3>1
    <3>4. Stuck(Requester)'
      BY <1>2, <1>6, <1>8, <3>1
    <3>5. pc'[Requester] = "receive" /\ pc'[Responder] = "send" /\ written' # <<>>
      BY <1>2, <2>2, <3>1, <3>2 DEF ResponderSends
    <3>6. ResponderSends'
      BY ONLY <3>3, <3>4, <3>5 DEF ResponderSends
    <3> QED  BY <3>2, <3>6 DEF FirstMessage, Phase
  <2>3. CASE ResponderSent
    <3>1. /\ written = <<>> /\ \A i \in Data(net[Responder]) : net[Responder][i].index # 0
          /\ Stuck(Responder)
      BY <2>3 DEF ResponderSent
    <3>2. Arrived' /\ written' = <<>>
      BY <1>5, <1>8, <2>1, <3>1
    <3>3. \A i \in Data(net'[Responder]) : net'[Responder][i].index # 0
      BY <1>4, <2>1, <3>1 DEF DataOf
    <3>4. Stuck(Responder)'
      BY <1>4, <2>1, <3>1
    <3>5. /\ pc'[Requester] = "receive" /\ pc'[Responder] \in {"receive", "send"}
          /\ Fresh(Responder)'
      BY <1>1, <1>2, <2>3 DEF ResponderSent
    <3>6. ResponderSent'
      BY ONLY <3>2, <3>3, <3>4, <3>5 DEF ResponderSent
    <3> QED  BY <3>2, <3>6 DEF FirstMessage, Phase
  <2> QED  BY <1>2, <1>8, <2>2, <2>3 DEF FirstMessage, Phase, RequesterSends, NobodySends
<1> QED  BY <1>7, <1>8 DEF Side

LEMMA FirstTakeEnd ==
  ASSUME Typed, Typed', FirstMessage, message = 0, message' = 0, NEW s \in Side, TakeEnd(s)
  PROVE  FirstMessage'
<1> USE Consts, Sides, SideAssumption
<1>1. Requester \in Side /\ Responder \in Side
  BY DEF Side
<1>2. /\ pc[s] = "receive" /\ net[s] # <<>> /\ Head(net[s]).text = Nul /\ Takes(s)
      /\ message' = (IF s = Requester THEN message + 1 ELSE message)
      /\ text' = text /\ written' = written /\ printed' = printed
      /\ UNCHANGED sender /\ expected' = expected /\ lastWanted' = lastWanted
  BY DEF TakeEnd, receiver
<1>3. s = Responder
  BY <1>2 DEF Side
<1>4. pc'[Responder] = "send" /\ pc'[Requester] = pc[Requester]
  BY <1>3 DEF TakeEnd, Goto, Typed, FilesOK, Side
<1>5. net'[Responder] = Tail(net[Responder]) /\ net'[Requester] = net[Requester]
  BY <1>2, <1>3, TakesNet DEF Typed
<1>6. /\ net[Responder] \in Seq(Datagrams) /\ Len(written) \in Nat
      /\ lastWanted[Requester] \in Nat
  BY <1>1, SideTypes
<1>7. /\ DataOf(net'[Responder], net[Responder])
      /\ \A e : Ordered(net[Responder], e) => Ordered(net'[Responder], e)
  <2>1. /\ DataOf(Tail(net[Responder]), net[Responder])
        /\ \A e : Ordered(net[Responder], e) => Ordered(Tail(net[Responder]), e)
    BY <1>2, <1>3, <1>6, TailFacts
  <2> QED  BY <1>5, <2>1
<1>8. Fresh(Responder) => Fresh(Responder)'
  BY <1>2 DEF Fresh, sender
<1>9. Arrived'
  <2>1. Arrived
    BY DEF FirstMessage
  <2>2. ASSUME NEW x \in Side PROVE Ordered(net'[x], expected'[x])
    BY <1>2, <1>5, <1>7, <2>1 DEF Arrived, Side
  <2> QED  BY <1>2, <2>1, <2>2 DEF Arrived
<1>10. Nuls(net[Responder]) # {}
  <2>1. 1 \in Nuls(net[Responder])
    BY <1>2, <1>3, <1>6, TailIs DEF Nuls
  <2> QED  BY <2>1
<1>11. CASE NobodySends
  <2>1. Nuls(net'[Responder]) = {} /\ Data(net'[Requester]) = {}
    BY <1>2, <1>3, <1>5, <1>6, <1>11, RequestTaken DEF NobodySends
  <2>2. /\ Fresh(Responder)' /\ expected'[Requester] = 0 /\ lastWanted'[Requester] = Window - 1
        /\ pc'[Requester] = "receive"
    BY <1>2, <1>4, <1>8, <1>11 DEF NobodySends
  <2>3. Stuck(Requester)'
    <3>1. ~MaySend(Requester)'
      BY <2>2 DEF MaySend
    <3>2. expected'[Other(Requester)] <= expected[Other(Requester)]
      BY <1>1, <1>2, SideTypes
    <3> QED  BY <1>1, <1>2, <1>7, <1>11, <3>1, <3>2, StuckClosed DEF NobodySends
  <2>4. Behind(Responder)'
    BY <1>1, <2>1, <2>2 DEF Behind, Fresh
  <2>5. InStep(Responder)'
    <3>1. /\ startWindow'[Responder] = count'[Responder]
          /\ count'[Responder] <= Len(Source(Responder)')
      BY <1>2, <1>6, <2>2 DEF Fresh, Source
    <3>2. at'[Responder] = [piece |-> count'[Responder] + 1, inside |-> FALSE]
      BY <2>2 DEF Fresh
    <3>3. Clean(net'[Requester], count'[Responder], Len(text'))
      BY <2>1 DEF Clean
    <3>4. endWindow'[Responder] = lastWanted'[Requester]
      BY <2>2 DEF Fresh
    <3>5. Other(Responder) = Requester
      OBVIOUS
    <3> QED  BY ONLY <2>1, <3>1, <3>2, <3>3, <3>4, <3>5 DEF InStep
  <2>6. ResponderSends'
    BY ONLY <1>4, <2>1, <2>2, <2>3, <2>4, <2>5 DEF ResponderSends, Flow
  <2> QED  BY <1>9, <2>6 DEF FirstMessage, Phase
<1>12. CASE ResponderSent
  <2>1. Fresh(Responder)' /\ written' = <<>> /\ pc'[Requester] = "receive"
    BY <1>2, <1>4, <1>8, <1>12 DEF ResponderSent
  <2>2. \A i \in Data(net'[Responder]) : net'[Responder][i].index # 0
    BY <1>7, <1>12 DEF ResponderSent, DataOf
  <2>3. Stuck(Responder)'
    <3>1. ~MaySend(Responder)'
      BY <2>1 DEF MaySend, Fresh, AtEnd, Source
    <3>2. DataOf(net'[Other(Responder)], net[Other(Responder)])
      BY <1>5 DEF DataOf
    <3>3. expected'[Other(Responder)] <= expected[Other(Responder)]
      BY <1>1, <1>2, SideTypes
    <3> QED  BY <1>1, <1>2, <1>12, <3>1, <3>2, <3>3, StuckClosed DEF ResponderSent
  <2>4. ResponderSent'
    BY ONLY <1>4, <2>1, <2>2, <2>3 DEF ResponderSent
  <2> QED  BY <1>9, <2>4 DEF FirstMessage, Phase
<1> QED  BY <1>2, <1>3, <1>10, <1>11, <1>12 DEF FirstMessage, Phase, RequesterSends, ResponderSends

LEMMA FirstPasses ==
  ASSUME Typed, Typed', FirstMessage, NEW s \in Side, Passes(s)
  PROVE  FirstMessage'
<1> USE Sides
<1>1. Requester \in Side /\ Responder \in Side
  BY DEF Side
<1>2. /\ UNCHANGED <<files, pc, sender, receiver>>
      /\ expected' = expected /\ lastWanted' = lastWanted /\ pc' = pc /\ written' = written
      /\ text' = text /\ printed' = printed
  BY DEF Passes, files, receiver
<1>3. \A x \in Side :
        /\ Nuls(net[x]) = {} => Nuls(net'[x]) = {}
        /\ Data(net[x]) = {} => Data(net'[x]) = {}
        /\ AtMostOne(Nuls(net[x])) => AtMostOne(Nuls(net'[x]))
        /\ DataOf(net'[x], net[x])
        /\ \A e : Ordered(net[x], e) => Ordered(net'[x], e)
  BY PassesAll
<1>4. \A x \in Side : /\ Flow(x) => Flow(x)'
                      /\ Stuck(x) => Stuck(x)'
                      /\ Behind(x) => Behind(x)'
  BY FlowPasses DEF Flow
<1>5. Fresh(Responder)' = Fresh(Responder)
  BY <1>2 DEF Fresh, sender
<1>6. Arrived'
  <2>1. Arrived
    BY DEF FirstMessage
  <2> QED  BY <1>2, <1>3, <2>1 DEF Arrived
<1>7. CASE RequesterSends
  <2>1. RequesterSends'
    BY <1>1, <1>2, <1>3, <1>4, <1>5, <1>7 DEF RequesterSends
  <2> QED  BY <1>6, <2>1 DEF FirstMessage, Phase
<1>8. CASE NobodySends
  <2>1. NobodySends'
    BY <1>1, <1>2, <1>3, <1>4, <1>5, <1>8 DEF NobodySends
  <2> QED  BY <1>6, <2>1 DEF FirstMessage, Phase
<1>9. CASE ResponderSends
  <2>1. ResponderSends'
    BY <1>1, <1>2, <1>3, <1>4, <1>5, <1>9 DEF ResponderSends
  <2> QED  BY <1>6, <2>1 DEF FirstMessage, Phase
<1>10. CASE ResponderSent
  <2>1. \A i \in Data(net'[Responder]) : net'[Responder][i].index # 0
    BY <1>1, <1>3, <1>10 DEF ResponderSent, DataOf
  <2>2. ResponderSent'
    BY <1>1, <1>2, <1>4, <1>5, <1>10, <2>1 DEF ResponderSent
  <2> QED  BY <1>6, <2>2 DEF FirstMessage, Phase
<1> QED  BY <1>7, <1>8, <1>9, <1>10 DEF FirstMessage, Phase

LEMMA FirstInit == Init => Counted /\ FirstMessage
<1> SUFFICES ASSUME Init PROVE Counted /\ FirstMessage
  OBVIOUS
<1> USE Consts, Sides, SideAssumption
<1>1. PICK n \in 0..MaxLength : text = [i \in 1..n |-> i]
  BY DEF Init
<1>2. n \in Nat /\ Len(text) = n /\ Counted
  <2>1. n \in Nat /\ DOMAIN text = 1..n
    BY <1>1
  <2>2. Len(text) = n
    <3>1. text \in Seq(1..n)
      BY <1>1, <2>1, IsASeq
    <3> QED  BY <2>1, <3>1
  <2> QED  BY <1>1, <2>1, <2>2 DEF Counted
<1>3. Requester \in Side /\ Responder \in Side
  BY DEF Side
<1>4. \A x \in Side : net[x] = <<>> /\ expected[x] = 0 /\ Data(net[x]) = {} /\ Nuls(net[x]) = {}
  BY DEF Init, Data, Nuls
<1>5. Arrived
  <2>1. Len(<<>>) = 0 /\ Begins(<<>>, Len(text))
    BY <1>2 DEF Begins
  <2> QED  BY <1>3, <1>4, <2>1 DEF Init, Arrived, Ordered
<1>6. Fresh(Requester) /\ Fresh(Responder)
  BY <1>3 DEF Init, Fresh
<1>7. InStep(Requester)
  BY <1>2, <1>3, <1>4, <1>6 DEF Init, InStep, Clean, Source, Fresh
<1>8. RequesterSends
  BY <1>3, <1>4, <1>6, <1>7 DEF Init, RequesterSends, Flow, Behind, Fresh
<1> QED  BY <1>2, <1>5, <1>8 DEF FirstMessage, Phase

-----------------------------------------------------------------------------
(* Steps without faults *)

LEMMA PacketsAppend ==
  ASSUME NEW q \in Seq(Datagrams), NEW e \in Nat, NEW k \in Nat, Packets(q, e, k),
         Len(q) = k - e, Datagram(k + 1, k) \in Datagrams
  PROVE  /\ Packets(Append(q, Datagram(k + 1, k)), e, k + 1)
         /\ Len(Append(q, Datagram(k + 1, k))) = k + 1 - e
<1> DEFINE d == Datagram(k + 1, k)
           p == Append(q, d)
<1>1. /\ Len(p) = Len(q) + 1 /\ \A i \in 1..Len(q) : p[i] = q[i]
      /\ p[Len(q) + 1] = d
  BY AppendProperties
<1> HIDE DEF p
<1>2. e <= k /\ \A i \in 1..(k - e) : q[i] = Datagram(e + i, e + i - 1)
  BY DEF Packets
<1>3. ASSUME NEW i \in 1..(k + 1 - e) PROVE p[i] = Datagram(e + i, e + i - 1)
  <2>1. CASE i \in 1..(k - e)
    BY <1>1, <1>2, <2>1
  <2>2. CASE i = k + 1 - e
    <3>1. e + i = k + 1 /\ e + i - 1 = k /\ i = Len(q) + 1
      BY <2>2
    <3> QED  BY <1>1, <3>1
  <2> QED  BY <1>2, <2>1, <2>2
<1> QED  BY <1>1, <1>2, <1>3 DEF Packets, p

LEMMA PacketsMore ==
  ASSUME NEW q \in Seq(Datagrams), NEW e \in Nat, NEW k \in Nat, Packets(q, e, k),
         NEW d \in Datagrams
  PROVE  /\ Packets(Append(q, d), e, k) /\ Len(Append(q, d)) = Len(q) + 1
         /\ Append(q, d)[Len(q) + 1] = d
<1>1. /\ Len(Append(q, d)) = Len(q) + 1 /\ \A i \in 1..Len(q) : Append(q, d)[i] = q[i]
      /\ Append(q, d)[Len(q) + 1] = d
  BY AppendProperties
<1>2. Len(q) \in Nat /\ Len(q) >= k - e
  BY DEF Packets
<1>3. \A i \in 1..(k - e) : i \in 1..Len(q)
  BY <1>2
<1> QED  BY <1>1, <1>2, <1>3 DEF Packets

LEMMA PacketsTail ==
  ASSUME NEW q \in Seq(Datagrams), NEW e \in Nat, NEW k \in Nat, Packets(q, e, k), e < k
  PROVE  /\ q # <<>> /\ Head(q) = Datagram(e + 1, e)
         /\ Packets(Tail(q), e + 1, k) /\ Len(Tail(q)) = Len(q) - 1
         /\ Len(q) >= 2 => Tail(q)[Len(Tail(q))] = q[Len(q)]
<1>1. Len(q) \in Nat /\ Len(q) >= 1 /\ q # <<>>
  BY DEF Packets
<1>2. /\ Head(q) = q[1] /\ Len(Tail(q)) = Len(q) - 1 /\ DOMAIN Tail(q) = 1..(Len(q) - 1)
      /\ \A i \in DOMAIN Tail(q) : Tail(q)[i] = q[i + 1]
  BY <1>1, TailIs
<1>3. Head(q) = Datagram(e + 1, e)
  <2>1. q[1] = Datagram(e + 1, e + 1 - 1) /\ e + 1 - 1 = e
    BY DEF Packets
  <2> QED  BY <1>2, <2>1
<1>4. ASSUME NEW i \in 1..(k - (e + 1)) PROVE Tail(q)[i] = Datagram(e + 1 + i, e + 1 + i - 1)
  <2>1. i \in DOMAIN Tail(q) /\ i + 1 \in 1..(k - e)
    BY <1>1, <1>2 DEF Packets
  <2>2. q[i + 1] = Datagram(e + (i + 1), e + (i + 1) - 1)
    BY <2>1 DEF Packets
  <2>3. e + (i + 1) = e + 1 + i /\ e + (i + 1) - 1 = e + 1 + i - 1
    OBVIOUS
  <2> QED  BY <1>2, <2>1, <2>2, <2>3
<1>5. Len(q) >= 2 => Tail(q)[Len(Tail(q))] = q[Len(q)]
  BY <1>1, <1>2
<1>6. e + 1 <= k /\ Len(Tail(q)) >= k - (e + 1)
  BY <1>1, <1>2 DEF Packets
<1> QED  BY <1>1, <1>2, <1>3, <1>4, <1>5, <1>6 DEF Packets

\* All pieces in their places make the text.
LEMMA WholeText ==
  ASSUME Typed, Counted, NEW p \in Seq(Piece), Begins(p, Len(text)), Len(p) = Len(text)
  PROVE  p = text
<1>1. text \in Seq(Piece)
  BY DEF Typed, FilesOK
<1>2. \A i \in 1..Len(p) : p[i] = text[i]
  BY DEF Begins, Counted
<1> QED  BY <1>1, <1>2, SeqEqual

LEMMA KeptType ==
  ASSUME Typed, NEW s \in Side
  PROVE  Kept(s) \in Seq(Piece) /\ Len(Kept(s)) \in Nat
BY DEF Typed, FilesOK, Kept

LEMMA NumberOK ==
  ASSUME NEW k \in Nat, k < MaxPacket, k + 1 \in Piece
  PROVE  Datagram(k + 1, k) \in Datagrams /\ Small(Datagram(k + 1, k))
BY Consts DEF Datagram, Datagrams, Index, Small

LEMMA WholeSendPacket ==
  ASSUME Typed, Typed', Counted, Collected, NEW s \in Side, SendPacket(s),
         NEW x \in Side, Sending(x) \/ Ended(x)
  PROVE  Collected' /\ Sending(s)'
<1> USE Consts, Sides
<1> DEFINE r == Other(s)
           t == IF at[s].inside THEN Torn ELSE Source(s)[at[s].piece]
           k == count[s]
<1>1. r \in Side /\ r # s
  OBVIOUS
<1>2. /\ pc[s] = "send" /\ startWindow[s] # endWindow[s] + 1 /\ at[s].piece <= Len(Source(s))
      /\ count[s] < MaxPacket /\ Room(r) /\ Sends(s, Datagram(t, k))
      /\ count' = [count EXCEPT ![s] = count[s] + 1]
      /\ startWindow' = [startWindow EXCEPT ![s] = startWindow[s] + 1]
      /\ at' = [at EXCEPT ![s] = [piece |-> at[s].piece + 1, inside |-> FALSE]]
      /\ endWindow' = endWindow /\ expected' = expected /\ lastWanted' = lastWanted
      /\ text' = text /\ written' = written /\ printed' = printed /\ message' = message /\ pc' = pc
    BY SideTypes DEF SendPacket, files, receiver, AtEnd
<1>3. Sending(s)
  BY <1>1, <1>2 DEF Sending, Ended
<1>4. /\ count[s] \in 0..MaxPacket /\ expected[r] \in 0..MaxPacket
      /\ net[r] \in Seq(Datagrams) /\ Len(text) \in Nat /\ endWindow[s] \in Nat
  BY <1>1, SideTypes
<1>5. /\ pc[r] = "receive" /\ startWindow[s] = k
      /\ at[s] = [piece |-> k + 1, inside |-> FALSE]
      /\ Packets(net[r], expected[r], k) /\ Len(net[r]) = k - expected[r]
      /\ endWindow[s] = lastWanted[r] /\ net[s] = <<>>
      /\ Source(s) = text /\ Fresh(r) /\ (s = Requester /\ message > 0 => printed = text)
  BY <1>2, <1>3 DEF Sending
<1>6. t = k + 1 /\ k + 1 <= Len(text) /\ t \in Piece
  <2>1. k + 1 \in 1..Len(text) /\ t = text[k + 1]
    BY <1>2, <1>4, <1>5
  <2> QED  BY <2>1 DEF Counted, Typed, FilesOK
<1>7. net'[s] = net[s] /\ net'[r] = Append(net[r], Datagram(k + 1, k))
  <2>1. Datagram(k + 1, k) \in Datagrams /\ Small(Datagram(k + 1, k))
    BY <1>2, <1>4, <1>6, NumberOK
  <2> QED  BY <1>2, <1>6, <2>1, SendsNet DEF Typed
<1>8. Packets(net'[r], expected'[r], k + 1) /\ Len(net'[r]) = k + 1 - expected'[r]
  <2>1. Datagram(k + 1, k) \in Datagrams
    BY <1>2, <1>4, <1>6, NumberOK
  <2>2. k \in Nat /\ expected[r] \in Nat
    BY <1>4
  <2>3. /\ Packets(Append(net[r], Datagram(k + 1, k)), expected[r], k + 1)
        /\ Len(Append(net[r], Datagram(k + 1, k))) = k + 1 - expected[r]
    <3>1. /\ net[r] \in Seq(Datagrams) /\ Packets(net[r], expected[r], k)
          /\ Len(net[r]) = k - expected[r]
      BY <1>4, <1>5
    <3> HIDE DEF k, r
    <3> QED  BY ONLY <2>1, <2>2, <3>1, PacketsAppend, Zenon
  <2> QED  BY <1>2, <1>7, <2>3
<1>9. /\ count'[s] = k + 1 /\ startWindow'[s] = k + 1
      /\ at'[s] = [piece |-> k + 1 + 1, inside |-> FALSE]
  BY <1>2, <1>5 DEF Typed, SenderOK
<1>10. Fresh(r)' /\ Source(s)' = text'
  BY <1>1, <1>2, <1>5 DEF Fresh, Source, Typed, SenderOK
<1>11. Sending(s)'
  <2>1. /\ pc'[s] = "send" /\ pc'[r] = "receive"
        /\ startWindow'[s] = count'[s] /\ count'[s] <= Len(text')
        /\ at'[s] = [piece |-> count'[s] + 1, inside |-> FALSE]
        /\ Packets(net'[r], expected'[r], count'[s]) /\ Len(net'[r]) = count'[s] - expected'[r]
        /\ endWindow'[s] = lastWanted'[r] /\ net'[s] = <<>>
        /\ (s = Requester /\ message' > 0 => printed' = text')
    <3>1. /\ pc'[s] = "send" /\ pc'[r] = "receive" /\ endWindow'[s] = lastWanted'[r]
          /\ net'[s] = <<>> /\ (s = Requester /\ message' > 0 => printed' = text')
      BY <1>2, <1>5, <1>7
    <3>2. /\ startWindow'[s] = count'[s] /\ count'[s] <= Len(text')
          /\ at'[s] = [piece |-> count'[s] + 1, inside |-> FALSE]
      BY <1>2, <1>6, <1>9
    <3>3. /\ Packets(net'[r], expected'[r], count'[s])
          /\ Len(net'[r]) = count'[s] - expected'[r]
      <4>1. PICK c : c = count'[s]
        OBVIOUS
      <4>2. c = k + 1
        BY <1>9, <4>1
      <4>3. Packets(net'[r], expected'[r], c)
        BY ONLY <1>8, <4>2
      <4>4. Len(net'[r]) = c - expected'[r]
        <5>1. Len(net'[r]) = k + 1 - expected'[r]
          BY <1>8
        <5>2. k \in Int /\ expected'[r] \in Int
          BY <1>2, <1>4
        <5> HIDE DEF k
        <5> QED  BY ONLY <4>2, <5>1, <5>2
      <4> QED  BY ONLY <4>1, <4>3, <4>4
    <3> QED  BY <3>1, <3>2, <3>3
  <2> QED  BY ONLY <1>10, <2>1 DEF Sending, r
<1>12. Collected'
  BY <1>2 DEF Collected, Kept
<1> QED  BY <1>11, <1>12

LEMMA WholeSendEnd ==
  ASSUME Typed, Typed', Counted, Collected, NEW s \in Side, SendEnd(s),
         NEW x \in Side, Sending(x) \/ Ended(x)
  PROVE  Collected' /\ Ended(s)'
<1> USE Consts, Sides, SideAssumption
<1> DEFINE r == Other(s)
           d == Datagram(Nul, left[s])
<1>1. r \in Side /\ r # s
  OBVIOUS
<1>2. /\ pc[s] = "send" /\ startWindow[s] # endWindow[s] + 1 /\ AtEnd(s)
      /\ pc'[s] = "receive" /\ pc'[r] = pc[r]
      /\ expected'[s] = 0 /\ expected'[r] = expected[r]
      /\ lastWanted'[s] = Window - 1 /\ lastWanted'[r] = lastWanted[r]
      /\ text' = text
      /\ written' = (IF s = Responder THEN <<>> ELSE written)
      /\ printed' = (IF s = Requester THEN <<>> ELSE printed)
      /\ Fresh(s)' /\ Fresh(r)' = Fresh(r)
      /\ net'[s] = net[s] /\ net'[r] = Append(net[r], d)
      /\ d \in Datagrams /\ d.text = Nul
  BY SendEndEffect
<1> HIDE DEF d
<1>3. Sending(s)
  BY <1>1, <1>2 DEF Sending, Ended
<1>4. /\ count[s] \in Nat /\ expected[r] \in Nat /\ startWindow[s] \in Nat
      /\ startWindow[s] <= endWindow[s] + 1
      /\ net[r] \in Seq(Datagrams) /\ Len(text) \in Nat /\ endWindow[s] \in Nat /\ lastWanted[r] \in Nat
  BY <1>1, SideNats
<1>5. /\ pc[r] = "receive" /\ startWindow[s] = count[s] /\ count[s] <= Len(text)
      /\ at[s].piece = count[s] + 1
      /\ Packets(net[r], expected[r], count[s]) /\ Len(net[r]) = count[s] - expected[r]
      /\ endWindow[s] = lastWanted[r] /\ net[s] = <<>>
      /\ Source(s) = text /\ Fresh(r)
  BY <1>2, <1>3 DEF Sending
<1>6. count[s] = Len(text) /\ Len(text) <= lastWanted[r]
  <2>1. at[s].piece > Len(text)
    BY <1>2, <1>5 DEF AtEnd
  <2>2. count[s] = Len(text)
    BY ONLY <1>4, <1>5, <2>1
  <2>3. count[s] # endWindow[s] + 1 /\ count[s] <= endWindow[s] + 1 /\ endWindow[s] = lastWanted[r]
    BY <1>2, <1>4, <1>5
  <2>4. count[s] <= endWindow[s]
    BY ONLY <1>4, <2>3
  <2> QED  BY <2>2, <2>3, <2>4
<1>7. /\ Packets(net'[r], expected'[r], Len(text'))
      /\ Len(net'[r]) = Len(text') - expected'[r] + 1 /\ net'[r][Len(net'[r])].text = Nul
  <2>1. /\ Packets(Append(net[r], d), expected[r], count[s])
        /\ Len(Append(net[r], d)) = Len(net[r]) + 1
        /\ Append(net[r], d)[Len(net[r]) + 1] = d
    <3>1. /\ net[r] \in Seq(Datagrams) /\ expected[r] \in Nat /\ count[s] \in Nat
          /\ Packets(net[r], expected[r], count[s]) /\ d \in Datagrams
      BY <1>2, <1>4, <1>5
    <3> HIDE DEF r
    <3> QED  BY ONLY <3>1, PacketsMore
  <2> QED  BY <1>2, <1>5, <1>6, <2>1
<1>8. Ended(s)'
  <2>1. /\ pc'[s] = "receive" /\ pc'[r] = "receive" /\ Fresh(s)' /\ Fresh(r)'
        /\ expected'[s] = 0 /\ lastWanted'[s] = Window - 1 /\ net'[s] = <<>>
        /\ Len(text') <= lastWanted'[r]
    BY <1>2, <1>5, <1>6
  <2> QED  BY ONLY <1>7, <2>1 DEF Ended, r
<1>9. Collected'
  <2>1. Kept(s)' = <<>> /\ Kept(r)' = Kept(r)
    BY <1>1, <1>2 DEF Kept, Side
  <2>2. Len(<<>>) = 0 /\ Begins(<<>>, Len(text'))
    BY <1>2, <1>4 DEF Begins
  <2>3. Len(Kept(r)) = expected[r] /\ Begins(Kept(r), Len(text))
    BY <1>1, <1>5 DEF Collected
  <2>4. ASSUME NEW y \in Side
        PROVE  Len(Kept(y)') = expected'[y] /\ Begins(Kept(y)', Len(text'))
    <3>1. CASE y = s
      BY <1>2, <2>1, <2>2, <3>1
    <3>2. CASE y = r
      BY <1>2, <2>1, <2>3, <3>2
    <3> QED  BY <3>1, <3>2
  <2> QED  BY <2>4 DEF Collected
<1> QED  BY <1>8, <1>9

LEMMA WholeTakeRequest ==
  ASSUME Typed, Typed', Collected, NEW s \in Side, TakeRequest(s),
         NEW x \in Side, Sending(x) \/ Ended(x)
  PROVE  Collected' /\ Sending(s)'
<1> USE Consts, Sides
<1> DEFINE r == Other(s)
           i == Head(net[s]).index
<1>1. r \in Side /\ r # s
  OBVIOUS
<1>2. /\ pc[s] = "send" /\ startWindow[s] = endWindow[s] + 1 /\ net[s] # <<>> /\ Takes(s)
      /\ text' = text /\ written' = written /\ printed' = printed /\ message' = message
      /\ pc' = pc /\ count' = count /\ expected' = expected /\ lastWanted' = lastWanted
      /\ UNCHANGED files
  BY DEF TakeRequest, files, receiver
<1>3. Sending(s)
  BY <1>1, <1>2 DEF Sending, Ended
<1>4. /\ pc[r] = "receive" /\ startWindow[s] = count[s] /\ count[s] <= Len(text)
      /\ at[s] = [piece |-> count[s] + 1, inside |-> FALSE]
      /\ Packets(net[r], expected[r], count[s]) /\ Len(net[r]) = count[s] - expected[r]
      /\ Source(s) = text /\ Fresh(r) /\ (s = Requester /\ message > 0 => printed = text)
      /\ endWindow[s] = lastWanted[r] - Window
      /\ count[s] = endWindow[s] + 1 /\ expected[r] = count[s]
      /\ net[s] = <<Datagram(Nul, count[s])>>
  BY <1>2, <1>3 DEF Sending
<1>5. /\ count[s] \in Nat /\ endWindow[s] \in Nat /\ lastWanted[r] \in Nat /\ Window \in Nat
  BY <1>1, SideNats
<1>6. i = count[s]
  BY <1>4 DEF Datagram
<1>7. net'[r] = net[r] /\ net'[s] = <<>>
  <2>1. net'[s] = Tail(net[s]) /\ net'[r] = net[r]
    BY <1>2, TakesNet DEF Typed
  <2>2. Tail(<<Datagram(Nul, count[s])>>) = <<>>
    OBVIOUS
  <2> QED  BY <1>4, <2>1, <2>2
<1>8. /\ startWindow' = [startWindow EXCEPT ![s] = i]
      /\ endWindow' = [endWindow EXCEPT ![s] = i + Window - 1]
      /\ at' = at
  <2>1. ~(i < endWindow[s]) /\ i # endWindow[s] /\ ~(i > endWindow[s] + 1)
    <3>1. i = endWindow[s] + 1
      BY <1>4, <1>6
    <3> QED  BY ONLY <1>5, <3>1
  <2> QED  BY ONLY TakeRequest(s), <2>1 DEF TakeRequest, i
<1>9. startWindow'[s] = count[s] /\ endWindow'[s] = lastWanted[r] /\ at'[s] = at[s]
  <2>1. startWindow'[s] = i /\ endWindow'[s] = i + Window - 1
    BY <1>8 DEF Typed, SenderOK
  <2>2. count[s] + Window - 1 = lastWanted[r]
    <3>1. endWindow[s] = lastWanted[r] - Window /\ count[s] = endWindow[s] + 1
      BY <1>4
    <3> HIDE DEF r
    <3> QED  BY ONLY <1>5, <3>1
  <2> QED  BY <1>6, <1>8, <2>1, <2>2
<1>10. Fresh(r)' /\ Source(s)' = text'
  <2>1. Fresh(r)'
    BY <1>1, <1>2, <1>4, <1>8 DEF Fresh, Typed, SenderOK
  <2> QED  BY <1>2, <1>4, <2>1 DEF Source
<1>11. Sending(s)'
  <2>1. /\ pc'[s] = "send" /\ pc'[r] = "receive"
        /\ startWindow'[s] = count'[s] /\ count'[s] <= Len(text')
        /\ at'[s] = [piece |-> count'[s] + 1, inside |-> FALSE]
        /\ endWindow'[s] = lastWanted'[r] /\ net'[s] = <<>>
        /\ (s = Requester /\ message' > 0 => printed' = text')
    BY <1>2, <1>4, <1>7, <1>9
  <2>2. Packets(net'[r], expected'[r], count'[s]) /\ Len(net'[r]) = count'[s] - expected'[r]
    BY <1>2, <1>4, <1>7
  <2> QED  BY ONLY <1>10, <2>1, <2>2 DEF Sending, r
<1>12. Collected'
  BY <1>2 DEF Collected, Kept
<1> QED  BY <1>11, <1>12

\* What lies before a receiver is the packet it expects.
LEMMA WholeHead ==
  ASSUME Typed, Collected, NEW r \in Side, Accept(r) \/ Reject(r),
         NEW x \in Side, Sending(x) \/ Ended(x)
  PROVE  /\ Accept(r) /\ Head(net[r]).text = expected[r] + 1 /\ expected[r] < Len(text)
         /\ Sending(Other(r)) => expected[r] < count[Other(r)]
         /\ Sending(Other(r)) \/ Ended(Other(r))
<1> USE Consts, Sides
<1> DEFINE s == Other(r)
           e == expected[r]
           q == net[r]
           d == Head(q)
<1>1. s \in Side /\ r # s /\ r = Other(s)
  OBVIOUS
<1>2. /\ pc[r] = "receive" /\ q # <<>> /\ d.text # Nul /\ (Reject(r) => d.index # e)
  BY DEF Accept, Reject
<1>3. /\ count[s] \in Nat /\ e \in Nat /\ q \in Seq(Datagrams) /\ Len(text) \in Nat
  BY <1>1, SideTypes
<1>4. Len(q) \in Nat /\ Len(q) >= 1 /\ d = q[1]
  BY <1>2, <1>3
<1>5. \A k \in Nat : Packets(q, e, k) /\ e < k => d = Datagram(e + 1, e)
  <2> HIDE DEF q, e
  <2> QED  BY <1>3, PacketsTail DEF d
<1>6. \A k \in Nat : Packets(q, e, k) /\ e < k => Accept(r) /\ d.text = e + 1
  BY <1>2, <1>5 DEF Datagram
<1>7. CASE Sending(s)
  <2>1. Packets(q, e, count[s]) /\ Len(q) = count[s] - e /\ count[s] <= Len(text)
    BY <1>1, <1>7 DEF Sending
  <2>2. e < count[s] /\ e < Len(text)
    BY <1>3, <1>4, <2>1
  <2> QED  BY <1>3, <1>6, <1>7, <2>1, <2>2
<1>8. CASE Ended(s)
  <2>1. /\ Packets(q, e, Len(text)) /\ Len(q) = Len(text) - e + 1 /\ q[Len(q)].text = Nul
        /\ pc[s] = "receive"
    BY <1>1, <1>8 DEF Ended
  <2>2. Len(q) # 1
    BY <1>2, <1>4, <2>1
  <2>3. e < Len(text)
    BY <1>3, <1>4, <2>1, <2>2
  <2>4. ~Sending(s)
    BY <2>1 DEF Sending
  <2> QED  BY <1>3, <1>6, <1>8, <2>1, <2>3, <2>4
<1>9. CASE Sending(r)
  BY <1>2, <1>9 DEF Sending
<1>10. CASE Ended(r)
  BY <1>2, <1>10 DEF Ended
<1> QED  BY <1>1, <1>7, <1>8, <1>9, <1>10

\* A packet accepted: the receiver keeps one piece more, and after the last
\* one of a window it asks for the next window.
LEMMA AcceptEffect ==
  ASSUME Typed, NEW r \in Side, Accept(r), Head(net[r]).text = expected[r] + 1
  PROVE  /\ expected'[r] = expected[r] + 1
         /\ Kept(r)' = Append(Kept(r), expected[r] + 1) /\ Kept(Other(r))' = Kept(Other(r))
         /\ Source(Other(r))' = Source(Other(r))
         /\ (Other(r) = Requester => printed' = printed)
         /\ expected[r] + 1 \in Piece
         /\ IF expected[r] = lastWanted[r]
              THEN /\ net'[Other(r)] = Append(net[Other(r)], Datagram(Nul, expected[r] + 1))
                   /\ lastWanted'[r] = lastWanted[r] + Window
              ELSE net'[Other(r)] = net[Other(r)] /\ lastWanted'[r] = lastWanted[r]
<1> USE Consts, Sides, SideAssumption
<1> DEFINE s == Other(r)
           e == expected[r]
           d == Datagram(Nul, e + 1)
<1>1. s \in Side /\ r # s /\ (r = Requester \/ r = Responder)
  BY DEF Side
<1>2. /\ net[r] # <<>> /\ Head(net[r]).text # Nul /\ Head(net[r]).index = e /\ text' = text
      /\ expected' = [expected EXCEPT ![r] = e + 1] /\ Keep(r, e + 1)
  BY DEF Accept
<1>3. expected'[r] = e + 1
  BY <1>2 DEF Typed, ReceiverOK
<1>4. /\ Kept(r)' = Append(Kept(r), e + 1) /\ Kept(s)' = Kept(s)
      /\ Source(s)' = Source(s) /\ (s = Requester => printed' = printed)
  BY <1>1, <1>2 DEF Keep, Kept, Source
<1>5. e + 1 \in Piece
  BY <1>2, PacketType DEF Typed
<1>6. CASE e = lastWanted[r]
  <2>1. d \in Datagrams /\ Small(d)
    BY <1>2, PacketType, RequestOK DEF Typed
  <2>2. /\ Room(s) /\ lastWanted' = [lastWanted EXCEPT ![r] = lastWanted[r] + Window]
        /\ Answers(r, d)
    BY <1>6 DEF Accept
  <2>3. net'[s] = Append(net[s], d)
    BY <1>2, <2>1, <2>2, AnswersNet DEF Typed
  <2>4. lastWanted'[r] = lastWanted[r] + Window
    BY <2>2 DEF Typed, ReceiverOK
  <2> QED  BY <1>3, <1>4, <1>5, <1>6, <2>3, <2>4
<1>7. CASE e # lastWanted[r]
  <2>1. Takes(r) /\ lastWanted' = lastWanted
    BY <1>7 DEF Accept
  <2>2. net'[s] = net[s]
    BY <1>2, <2>1, TakesNet DEF Typed
  <2> QED  BY <1>3, <1>4, <1>5, <1>7, <2>1, <2>2
<1> QED  BY <1>6, <1>7

LEMMA WholeAccept ==
  ASSUME Typed, Typed', Collected, NEW r \in Side, Accept(r),
         NEW x \in Side, Sending(x) \/ Ended(x)
  PROVE  Collected' /\ (Sending(Other(r))' \/ Ended(Other(r))')
<1> USE Consts, Sides
<1> DEFINE s == Other(r)
           e == expected[r]
           q == net[r]
           d == Datagram(Nul, e + 1)
<1>1. s \in Side /\ r # s /\ r = Other(s)
  OBVIOUS
<1>2. /\ pc[r] = "receive" /\ text' = text /\ pc' = pc /\ message' = message
      /\ UNCHANGED sender
      /\ Fresh(r)' = Fresh(r) /\ Fresh(s)' = Fresh(s)
      /\ expected'[s] = expected[s] /\ lastWanted'[s] = lastWanted[s]
      /\ net'[r] = Tail(q) /\ q \in Seq(Datagrams)
  BY <1>1, ReceiveEffect
<1>3. /\ Head(q).text = e + 1 /\ e < Len(text)
      /\ (Sending(s) => e < count[s]) /\ (Sending(s) \/ Ended(s))
  BY WholeHead
<1>4. /\ expected'[r] = e + 1
      /\ Kept(r)' = Append(Kept(r), e + 1) /\ Kept(s)' = Kept(s)
      /\ Source(s)' = Source(s) /\ (s = Requester => printed' = printed)
      /\ e + 1 \in Piece
      /\ (e = lastWanted[r] => net'[s] = Append(net[s], d) /\ lastWanted'[r] = lastWanted[r] + Window)
      /\ (e # lastWanted[r] => net'[s] = net[s] /\ lastWanted'[r] = lastWanted[r])
  BY <1>3, AcceptEffect
<1>5. /\ count[s] \in Nat /\ endWindow[s] \in Nat /\ startWindow[s] \in Nat
      /\ startWindow[s] <= endWindow[s] + 1
      /\ e \in Nat /\ lastWanted[r] \in Nat /\ Len(text) \in Nat /\ Window \in Nat
      /\ net[s] \in Seq(Datagrams)
  BY <1>1, SideNats
<1>6. ASSUME NEW k \in Nat, Packets(q, e, k), e < k
      PROVE  /\ Packets(net'[r], expected'[r], k) /\ Len(net'[r]) = Len(q) - 1
             /\ Len(q) >= 2 => net'[r][Len(net'[r])] = q[Len(q)]
  <2>1. /\ Packets(Tail(q), e + 1, k) /\ Len(Tail(q)) = Len(q) - 1
        /\ Len(q) >= 2 => Tail(q)[Len(Tail(q))] = q[Len(q)]
    <3> HIDE DEF q, e
    <3> QED  BY <1>2, <1>5, <1>6, PacketsTail
  <2> QED  BY <1>2, <1>4, <2>1
<1>7. Collected'
  <2>1. Len(Kept(r)) = e /\ Begins(Kept(r), Len(text))
    BY <1>2 DEF Collected
  <2>2. Len(Kept(r)') = expected'[r] /\ Begins(Kept(r)', Len(text'))
    <3>1. /\ Begins(Append(Kept(r), e + 1), Len(text))
          /\ Len(Append(Kept(r), e + 1)) = Len(Kept(r)) + 1
      <4>1. e + 1 = Len(Kept(r)) + 1 /\ e + 1 <= Len(text) /\ Kept(r) \in Seq(Piece)
        BY <1>3, <1>5, <2>1, KeptType
      <4> HIDE DEF e
      <4> QED  BY <1>4, <1>5, <2>1, <4>1, OnePieceMore
    <3> QED  BY <1>2, <1>4, <2>1, <3>1
  <2>3. pc'[s] = "receive" => Len(Kept(s)') = expected'[s] /\ Begins(Kept(s)', Len(text'))
    BY <1>1, <1>2, <1>4 DEF Collected
  <2> QED  BY <1>1, <2>2, <2>3 DEF Collected
<1>8. CASE Sending(s)
  <2>1. /\ pc[s] = "send" /\ startWindow[s] = count[s] /\ count[s] <= Len(text)
        /\ at[s] = [piece |-> count[s] + 1, inside |-> FALSE]
        /\ Packets(q, e, count[s]) /\ Len(q) = count[s] - e
        /\ Source(s) = text /\ Fresh(r) /\ (s = Requester /\ message > 0 => printed = text)
        /\ \/ endWindow[s] = lastWanted[r] /\ net[s] = <<>>
           \/ e = count[s]
    BY <1>1, <1>8 DEF Sending
  <2>2. endWindow[s] = lastWanted[r] /\ net[s] = <<>> /\ e < count[s]
    BY <1>3, <1>5, <1>8, <2>1
  <2>3. Packets(net'[r], expected'[r], count[s]) /\ Len(net'[r]) = count[s] - expected'[r]
    <3>1. Packets(net'[r], expected'[r], count[s]) /\ Len(net'[r]) = Len(q) - 1
      BY <1>5, <1>6, <2>1, <2>2
    <3>2. Len(net'[r]) = count[s] - (e + 1)
      BY <1>5, <2>1, <3>1
    <3> QED  BY <1>4, <3>1, <3>2
  <2>4. \/ endWindow[s] = lastWanted'[r] /\ net'[s] = <<>>
        \/ /\ endWindow[s] = lastWanted'[r] - Window
           /\ count[s] = endWindow[s] + 1 /\ expected'[r] = count[s]
           /\ net'[s] = <<Datagram(Nul, count[s])>>
    <3>1. CASE e = lastWanted[r]
      <4>1. count[s] = e + 1
        BY <1>5, <2>1, <2>2, <3>1
      <4>2. net'[s] = <<d>>
        <5>1. Append(<<>>, d) = <<d>>
          OBVIOUS
        <5> QED  BY <1>4, <2>2, <3>1, <5>1
      <4>3. endWindow[s] = lastWanted'[r] - Window
        BY <1>4, <1>5, <2>2, <3>1
      <4>4. count[s] = endWindow[s] + 1 /\ expected'[r] = count[s]
        BY <1>4, <2>2, <3>1, <4>1
      <4> QED  BY <4>1, <4>2, <4>3, <4>4
    <3>2. CASE e # lastWanted[r]
      BY <1>4, <2>2, <3>2
    <3> QED  BY <3>1, <3>2
  <2>5. /\ count' = count /\ startWindow' = startWindow /\ endWindow' = endWindow /\ at' = at
    BY <1>2 DEF sender
  <2>6. Sending(s)'
    <3>1. /\ pc'[s] = "send" /\ pc'[r] = "receive" /\ Fresh(r)' /\ Source(s)' = text'
          /\ startWindow'[s] = count'[s] /\ count'[s] <= Len(text')
          /\ at'[s] = [piece |-> count'[s] + 1, inside |-> FALSE]
          /\ (s = Requester /\ message' > 0 => printed' = text')
      BY <1>2, <1>4, <2>1, <2>5
    <3>2. Packets(net'[r], expected'[r], count'[s]) /\ Len(net'[r]) = count'[s] - expected'[r]
      BY <2>3, <2>5
    <3>3. \/ endWindow'[s] = lastWanted'[r] /\ net'[s] = <<>>
          \/ /\ endWindow'[s] = lastWanted'[r] - Window
             /\ count'[s] = endWindow'[s] + 1 /\ expected'[r] = count'[s]
             /\ net'[s] = <<Datagram(Nul, count'[s])>>
      BY <2>4, <2>5
    <3> QED  BY ONLY <1>1, <3>1, <3>2, <3>3 DEF Sending
  <2> QED  BY <1>7, <2>6
<1>9. CASE Ended(s)
  <2>1. /\ pc[s] = "receive" /\ Fresh(s) /\ Fresh(r)
        /\ expected[s] = 0 /\ lastWanted[s] = Window - 1 /\ net[s] = <<>>
        /\ Packets(q, e, Len(text)) /\ Len(q) = Len(text) - e + 1 /\ q[Len(q)].text = Nul
        /\ Len(text) <= lastWanted[r]
    BY <1>1, <1>9 DEF Ended
  <2>2. net'[s] = <<>> /\ lastWanted'[r] = lastWanted[r]
    <3>1. e # lastWanted[r]
      BY <1>3, <1>5, <2>1
    <3> QED  BY <1>4, <2>1, <3>1
  <2>3. /\ Packets(net'[r], expected'[r], Len(text))
        /\ Len(net'[r]) = Len(text) - expected'[r] + 1 /\ net'[r][Len(net'[r])].text = Nul
    <3>1. Len(q) >= 2
      BY <1>3, <1>5, <2>1
    <3>2. /\ Packets(net'[r], expected'[r], Len(text)) /\ Len(net'[r]) = Len(q) - 1
          /\ net'[r][Len(net'[r])] = q[Len(q)]
      BY <1>3, <1>5, <1>6, <2>1, <3>1
    <3>3. Len(net'[r]) = Len(text) - (e + 1) + 1
      BY <1>5, <2>1, <3>2
    <3> QED  BY <1>4, <2>1, <3>2, <3>3
  <2>4. Ended(s)'
    <3>1. /\ pc'[s] = "receive" /\ pc'[r] = "receive" /\ Fresh(s)' /\ Fresh(r)'
          /\ expected'[s] = 0 /\ lastWanted'[s] = Window - 1 /\ net'[s] = <<>>
          /\ Len(text') <= lastWanted'[r]
      BY <1>2, <2>1, <2>2
    <3>2. /\ Packets(net'[r], expected'[r], Len(text'))
          /\ Len(net'[r]) = Len(text') - expected'[r] + 1 /\ net'[r][Len(net'[r])].text = Nul
      BY <1>2, <2>3
    <3> QED  BY ONLY <1>1, <3>1, <3>2 DEF Ended
  <2> QED  BY <1>7, <2>4
<1> QED  BY <1>3, <1>8, <1>9

\* Where a program starts to send, and the other one to receive.
Start(s) ==
  LET r == Other(s) IN
  /\ pc[s] = "send" /\ pc[r] = "receive"
  /\ Fresh(s) /\ Fresh(r)
  /\ expected[r] = 0 /\ lastWanted[r] = Window - 1
  /\ net[s] = <<>> /\ net[r] = <<>>
  /\ Source(s) = text
  /\ s = Requester /\ message > 0 => printed = text

LEMMA StartSends ==
  ASSUME Len(text) \in Nat, NEW s \in Side, Start(s)
  PROVE  Sending(s)
<1>1. /\ count[s] = 0 /\ startWindow[s] = 0 /\ endWindow[s] = Window - 1
      /\ at[s] = [piece |-> 0 + 1, inside |-> FALSE]
  BY DEF Start, Fresh
<1>2. Packets(<<>>, 0, 0) /\ Len(<<>>) = 0 - 0
  BY DEF Packets
<1> QED  BY <1>1, <1>2 DEF Start, Sending

LEMMA WholeTakeEnd ==
  ASSUME Typed, Typed', Counted, Collected, NEW r \in Side, TakeEnd(r),
         NEW x \in Side, Sending(x) \/ Ended(x)
  PROVE  Over' \/ (Collected' /\ Sending(r)')
<1> USE Consts, Sides, SideAssumption
<1> DEFINE s == Other(r)
           e == expected[r]
           q == net[r]
<1>1. s \in Side /\ r # s /\ r = Other(s) /\ Requester \in Side /\ Responder \in Side
  BY DEF Side
<1>2. /\ pc[r] = "receive" /\ q # <<>> /\ Head(q).text = Nul /\ Takes(r)
      /\ message' = (IF r = Requester THEN message + 1 ELSE message)
      /\ text' = text /\ written' = written /\ printed' = printed
      /\ UNCHANGED sender /\ expected' = expected /\ lastWanted' = lastWanted
  BY DEF TakeEnd, receiver
<1>3. /\ e \in Nat /\ q \in Seq(Datagrams) /\ Len(text) \in Nat /\ count[s] \in Nat
      /\ Len(q) \in Nat /\ Len(q) >= 1
  <2>1. e \in Nat /\ q \in Seq(Datagrams) /\ Len(text) \in Nat /\ count[s] \in Nat
    BY <1>1, SideTypes
  <2> QED  BY <1>2, <2>1
<1>4. \A k \in Nat : Packets(q, e, k) => ~(e < k)
  <2>1. ASSUME NEW k \in Nat, Packets(q, e, k), e < k PROVE FALSE
    <3>1. Head(q) = Datagram(e + 1, e)
      <4> HIDE DEF q, e
      <4> QED  BY <1>3, <2>1, PacketsTail
    <3>2. e + 1 = Nul
      BY <1>2, <3>1 DEF Datagram
    <3> QED  BY <1>3, <3>2 DEF Nul
  <2> QED  BY <2>1
<1>5. Ended(s)
  <2>1. ~Sending(r) /\ ~Ended(r)
    BY <1>2 DEF Sending, Ended
  <2>2. ~Sending(s)
    <3>1. ASSUME Sending(s) PROVE FALSE
      <4>1. Packets(q, e, count[s]) /\ Len(q) = count[s] - e
        BY <1>1, <3>1 DEF Sending
      <4> QED  BY <1>3, <1>4, <4>1
    <3> QED  BY <3>1
  <2> QED  BY <1>1, <2>1, <2>2
<1>6. /\ pc[s] = "receive" /\ Fresh(s) /\ Fresh(r)
      /\ expected[s] = 0 /\ lastWanted[s] = Window - 1 /\ net[s] = <<>>
      /\ Packets(q, e, Len(text)) /\ Len(q) = Len(text) - e + 1
  BY <1>1, <1>5 DEF Ended
<1>7. e = Len(text) /\ Len(q) = 1
  <2>1. e <= Len(text) /\ ~(e < Len(text))
    BY <1>3, <1>4, <1>6 DEF Packets
  <2> QED  BY <1>3, <1>6, <2>1
<1>8. Kept(r) = text
  <2>1. Len(Kept(r)) = Len(text) /\ Begins(Kept(r), Len(text))
    BY <1>2, <1>7 DEF Collected
  <2> QED  BY <2>1, KeptType, WholeText
<1>9. net'[r] = <<>> /\ net'[s] = <<>>
  <2>1. net'[r] = Tail(q) /\ net'[s] = net[s]
    BY <1>2, TakesNet DEF Typed
  <2>2. Tail(q) = <<>>
    <3>1. Tail(q) \in Seq(Datagrams) /\ Len(Tail(q)) = 0
      BY <1>2, <1>3, <1>7, HeadTailProperties
    <3> QED  BY <3>1, EmptySeq
  <2> QED  BY <1>6, <2>1, <2>2
<1>10. Fresh(r)' /\ Fresh(s)'
  BY <1>2, <1>6 DEF Fresh, sender
<1>11. pc'[s] = "receive" /\ pc'[r] \in {"send", "done"}
  BY <1>1, <1>6 DEF TakeEnd, Goto, Typed, FilesOK
<1>12. CASE pc'[r] = "send"
  <2>1. Source(r)' = text' /\ (r = Requester /\ message' > 0 => printed' = text')
    BY <1>1, <1>2, <1>8 DEF Source, Kept, Side
  <2>2. expected'[s] = 0 /\ lastWanted'[s] = Window - 1
    BY <1>2, <1>6
  <2>3. Start(r)'
    BY ONLY <1>9, <1>10, <1>11, <1>12, <2>1, <2>2 DEF Start, s
  <2>4. Len(text') \in Nat
    BY <1>2, <1>3
  <2>5. Sending(r)'
    <3>1. /\ count'[r] = 0 /\ startWindow'[r] = 0 /\ endWindow'[r] = Window - 1
          /\ at'[r] = [piece |-> 0 + 1, inside |-> FALSE]
      BY <2>3 DEF Start, Fresh
    <3>2. Packets(<<>>, 0, 0) /\ Len(<<>>) = 0 - 0
      BY DEF Packets
    <3> QED  BY ONLY <2>3, <2>4, <3>1, <3>2 DEF Start, Sending
  <2>6. Collected'
    <3>1. Kept(s)' = Kept(s) /\ expected'[s] = expected[s]
      BY <1>2 DEF Kept
    <3>2. Len(Kept(s)') = expected'[s] /\ Begins(Kept(s)', Len(text'))
      BY <1>1, <1>2, <1>6, <3>1 DEF Collected
    <3>3. pc'[r] # "receive" /\ \A y \in Side : y # r => y = s
      BY <1>12
    <3> QED  BY <3>2, <3>3 DEF Collected
  <2> QED  BY <2>5, <2>6
<1>13. CASE pc'[r] = "done"
  <2>1. r = Requester
    BY <1>13 DEF TakeEnd, Goto, Typed, FilesOK
  <2>2. printed' = text' /\ s = Responder
    BY <1>2, <1>8, <2>1 DEF Kept
  <2>3. \A y \in Side : net'[y] = <<>>
    BY <1>9
  <2> QED  BY ONLY <1>11, <1>13, <2>1, <2>2, <2>3 DEF Over
<1> QED  BY <1>11, <1>12, <1>13

\* After the last message nothing is under way and nobody sends.
LEMMA OverStops ==
  ASSUME Typed, Over, NEW s \in Side
  PROVE  ~Step(s)
<1>1. net[s] = <<>> /\ pc[s] # "send"
  BY DEF Over, Side
<1> QED  BY <1>1 DEF Step, SendPacket, SendEnd, TakeRequest, Accept, Reject, TakeEnd

LEMMA WholeStep ==
  ASSUME Typed, Typed', Counted, EveryMessage, NEW s \in Side, Step(s)
  PROVE  EveryMessage'
<1>1. Collected /\ \E x \in Side : Sending(x) \/ Ended(x)
  BY OverStops DEF EveryMessage
<1>2. PICK x \in Side : Sending(x) \/ Ended(x)
  BY <1>1
<1>3. CASE SendPacket(s)
  BY <1>1, <1>2, <1>3, WholeSendPacket DEF EveryMessage
<1>4. CASE SendEnd(s)
  BY <1>1, <1>2, <1>4, WholeSendEnd DEF EveryMessage
<1>5. CASE TakeRequest(s)
  BY <1>1, <1>2, <1>5, WholeTakeRequest DEF EveryMessage
<1>6. CASE Accept(s) \/ Reject(s)
  <2>1. Accept(s)
    BY <1>1, <1>2, <1>6, WholeHead
  <2>2. Other(s) \in Side
    BY Sides
  <2> QED  BY <1>1, <1>2, <2>1, <2>2, WholeAccept DEF EveryMessage
<1>7. CASE TakeEnd(s)
  BY <1>1, <1>2, <1>7, WholeTakeEnd DEF EveryMessage
<1> QED  BY <1>3, <1>4, <1>5, <1>6, <1>7 DEF Step

LEMMA WholeInit == Init /\ Typed => EveryMessage
<1> SUFFICES ASSUME Init, Typed PROVE EveryMessage
  OBVIOUS
<1> USE Consts, Sides, SideAssumption
<1>1. Requester \in Side /\ Responder \in Side /\ Len(text) \in Nat
  BY SideTypes DEF Side
<1>2. Start(Requester)
  BY <1>1 DEF Init, Start, Fresh, Source
<1>3. Collected
  <2>1. Len(<<>>) = 0 /\ Begins(<<>>, Len(text))
    BY <1>1 DEF Begins
  <2> QED  BY <2>1 DEF Init, Collected, Kept
<1> QED  BY <1>1, <1>2, <1>3, StartSends DEF EveryMessage

-----------------------------------------------------------------------------
(* Every step *)

LEMMA StepKeeps ==
  ASSUME Typed, NEW s \in Side, Step(s)
  PROVE  text' = text /\ faults' = faults /\ message \in Nat /\ message' >= message
<1>1. message \in Nat
  BY Consts DEF Typed, FilesOK
<1>2. CASE TakeEnd(s)
  <2>1. text' = text /\ faults' = faults /\ (message' = message \/ message' = message + 1)
    BY <1>2 DEF TakeEnd
  <2> QED  BY <1>1, <2>1
<1>3. CASE Accept(s) \/ Reject(s)
  BY <1>1, <1>3, ReceiveEffect
<1>4. CASE SendPacket(s) \/ SendEnd(s) \/ TakeRequest(s)
  <2>1. text' = text /\ faults' = faults /\ message' = message
    BY <1>4 DEF SendPacket, SendEnd, TakeRequest, files
  <2> QED  BY <1>1, <2>1
<1> QED  BY <1>2, <1>3, <1>4 DEF Step

\* What happened to a datagram is not forgotten.
LEMMA HappensKept ==
  ASSUME Typed, NEW k \in {"lose", "overtake", "repeat"}, Happens(k)
  PROVE  /\ ~Faultless' /\ (Repeated => Repeated') /\ (k = "repeat" => Repeated')
         /\ text' = text /\ message' = message
<1>1. faults \in Seq({"lose", "overtake", "repeat"}) /\ faults' = Append(faults, k)
  BY DEF Typed, FaultsOK, Happens
<1>2. /\ Len(faults') = Len(faults) + 1 /\ \A i \in 1..Len(faults) : faults'[i] = faults[i]
      /\ faults'[Len(faults) + 1] = k
      /\ Len(faults) \in Nat /\ DOMAIN faults = 1..Len(faults) /\ DOMAIN faults' = 1..(Len(faults) + 1)
  BY <1>1, AppendProperties
<1>3. ~Faultless'
  BY <1>2 DEF Faultless
<1>4. \A i \in DOMAIN faults : i \in DOMAIN faults' /\ faults'[i] = faults[i]
  BY <1>2
<1>5. Len(faults) + 1 \in DOMAIN faults'
  BY <1>2
<1>6. (Repeated => Repeated') /\ (k = "repeat" => Repeated')
  BY <1>2, <1>4, <1>5 DEF Repeated, ToSet
<1> QED  BY <1>3, <1>6 DEF Happens, files

LEMMA TransferInit == Init /\ Typed => Transfer
BY FirstInit, WholeInit DEF Transfer

LEMMA TransferStep == Typed /\ Typed' /\ Transfer /\ [Next]_vars => Transfer'
<1> SUFFICES ASSUME Typed, Typed', Transfer, [Next]_vars
             PROVE  Transfer'
  OBVIOUS
<1>1. Counted
  BY DEF Transfer
<1>2. ASSUME NEW s \in Side, Step(s)
      PROVE  Transfer'
  <2>1. text' = text /\ faults' = faults /\ message \in Nat /\ message' >= message
    BY <1>2, StepKeeps
  <2>2. Counted'
    BY <1>1, <2>1 DEF Counted
  <2>3. ASSUME ~Repeated', message' = 0 PROVE FirstMessage'
    <3>1. FirstMessage /\ message = 0
      BY <2>1, <2>3 DEF Transfer, Repeated
    <3> QED
      BY <1>1, <1>2, <2>3, <3>1, FirstSendPacket, FirstSendEnd, FirstTakeRequest, FirstReceive,
         FirstTakeEnd DEF Step
  <2>4. ASSUME Faultless' PROVE EveryMessage'
    <3>1. EveryMessage
      BY <2>1, <2>4 DEF Transfer, Faultless
    <3> QED  BY <1>1, <1>2, <3>1, WholeStep
  <2> QED  BY <2>2, <2>3, <2>4 DEF Transfer
<1>3. ASSUME NEW s \in Side, Lose(s) \/ Overtake(s)
      PROVE  Transfer'
  <2>1. Passes(s) /\ \E k \in {"lose", "overtake"} : Happens(k)
    BY <1>3, NetworkPasses
  <2>2. ~Faultless' /\ (Repeated => Repeated') /\ text' = text /\ message' = message
    BY <2>1, HappensKept
  <2>3. Counted'
    BY <1>1, <2>2 DEF Counted
  <2>4. ASSUME ~Repeated', message' = 0 PROVE FirstMessage'
    BY <2>1, <2>2, <2>4, FirstPasses DEF Transfer
  <2> QED  BY <2>2, <2>3, <2>4 DEF Transfer
<1>4. ASSUME NEW s \in Side, Repeat(s)
      PROVE  Transfer'
  <2>1. Happens("repeat")
    BY <1>4 DEF Repeat
  <2>2. ~Faultless' /\ Repeated' /\ text' = text
    BY <2>1, HappensKept
  <2>3. Counted'
    BY <1>1, <2>2 DEF Counted
  <2> QED  BY <2>2, <2>3 DEF Transfer
<1>5. CASE UNCHANGED vars
  <2>1. /\ Counted' = Counted /\ Repeated' = Repeated /\ Faultless' = Faultless /\ message' = message
    BY <1>5 DEF vars, files, Counted, Repeated, Faultless
  <2>2. FirstMessage' = FirstMessage
    BY <1>5 DEF vars, files, sender, receiver, FirstMessage, Arrived, Phase, RequesterSends,
                NobodySends, ResponderSends, ResponderSent, Fresh, Behind, Flow, InStep, Stuck,
                MaySend, AtEnd, Source
  <2>3. EveryMessage' = EveryMessage
    BY <1>5 DEF vars, files, sender, receiver, EveryMessage, Over, Collected, Kept, Sending, Ended,
                Fresh, Source
  <2> QED  BY <2>1, <2>2, <2>3 DEF Transfer
<1> QED  BY <1>2, <1>3, <1>4, <1>5 DEF Next

LEMMA BeginsIsPrefix ==
  ASSUME Typed, Counted, NEW p \in Seq(Piece), Begins(p, Len(text))
  PROVE  IsPrefix(p, text)
<1>1. text \in Seq(Piece) /\ Len(p) \in Nat /\ Len(text) \in Nat /\ Len(p) <= Len(text)
  BY DEF Typed, FilesOK, Begins
<1>2. SubSeq(p, 1, Len(p)) = SubSeq(text, 1, Len(p))
  <2>1. \A i \in 1..Len(p) : p[i] = text[i]
    BY <1>1 DEF Begins, Counted
  <2> QED  BY <1>1, <2>1
<1> QED  BY <1>1, <1>2 DEF IsPrefix

LEMMA TransferDelivers == Typed /\ Transfer => Delivered
<1> SUFFICES ASSUME Typed, Transfer PROVE Delivered
  OBVIOUS
<1>1. ASSUME ~Repeated, message = 0 PROVE IsPrefix(written, text) /\ IsPrefix(printed, text)
  <2>1. Begins(written, Len(text)) /\ Begins(printed, Len(text))
    BY <1>1 DEF Transfer, FirstMessage, Arrived
  <2>2. Counted /\ written \in Seq(Piece) /\ printed \in Seq(Piece)
    BY DEF Transfer, Typed, FilesOK
  <2> QED  BY <2>1, <2>2, BeginsIsPrefix
<1>2. ASSUME Faultless, message > 0, pc[Requester] # "receive" PROVE printed = text
  <2>1. EveryMessage
    BY <1>2 DEF Transfer
  <2>2. CASE Over
    BY <2>2 DEF Over
  <2>3. ASSUME NEW s \in Side, Sending(s) \/ Ended(s)
        PROVE  printed = text
    <3>1. s = Requester \/ (s = Responder /\ Other(s) = Requester)
      BY Sides DEF Side
    <3> QED  BY <1>2, <2>3, <3>1 DEF Sending, Ended
  <2> QED  BY <2>1, <2>2, <2>3 DEF EveryMessage
<1> QED  BY <1>1, <1>2 DEF Delivered

\* As long as no datagram comes twice, the file of the responder and what the
\* requester printed of the first message are its first pieces, in order,
\* whatever is lost or overtaken and however often a window is sent again; and
\* when nothing happened to any datagram, every message that is over was
\* printed as a whole, whatever the window and the length of the text.
THEOREM DeliveredCorrect == Spec => []Delivered
<1>1. Init => Typed /\ Transfer
  BY TypedInit, TransferInit
<1>2. Typed /\ Transfer /\ [Next]_vars => (Typed /\ Transfer)'
  BY TypedStep, TransferStep
<1>3. Typed /\ Transfer => Delivered
  BY TransferDelivers
<1> QED  BY <1>1, <1>2, <1>3, PTL DEF Spec
=============================================================================
