--------------------------- MODULE WindowTransfer ---------------------------
(***************************************************************************)
(* The windowed transfer of cs356/proj1 over UDP.  requester.c sends a     *)
(* text, window by window, and prints what comes back; responder.c appends *)
(* what it receives to a file, and at the end of the text sends the file   *)
(* back in the same way and removes it.  Sending and receiving are written *)
(* twice in the code, once in each program, and once here.                 *)
(*                                                                         *)
(* A text is a sequence of pieces, what one call of fgets reads: a line or *)
(* the next 299 characters.  No program waits with a timeout: what the     *)
(* network loses stays lost.                                               *)
(***************************************************************************)
EXTENDS Integers, Sequences, SequencesExt, FiniteSets

CONSTANTS
  Requester, Responder,
  Window,       \* packets in a window: 5
  MaxLength,    \* bound on the pieces of the text
  Messages,     \* messageCount
  MaxFaults,    \* bound on what the network does to datagrams
  MaxPacket,    \* bound on packetCount
  MaxQueue      \* bound on the datagrams under way to one program

ASSUME SideAssumption == Requester # Responder
ASSUME SizeAssumption ==
  /\ Window \in Nat \ {0} /\ Messages \in Nat \ {0}
  /\ {MaxLength, MaxFaults, MaxPacket, MaxQueue} \subseteq Nat

VARIABLES
  text,         \* the pieces of txtfile
  written,      \* the pieces of servtext
  printed,      \* what the requester printed of the present message
  message,      \* messages that are over
  pc,           \* where each program is
  count,        \* packetCount
  startWindow, endWindow,       \* of the sender
  at,           \* the position in the file sent: a piece, and whether inside it
  left,         \* the index left in the buffer
  expected,     \* expectedPacket
  lastWanted,   \* endWindow of the receiver
  net,          \* the datagrams under way to each program, in order
  faults        \* what the network did

files == <<text, written, printed, message>>
sender == <<count, startWindow, endWindow, at, left>>
receiver == <<expected, lastWanted>>
vars == <<files, pc, sender, receiver, net, faults>>

Side == {Requester, Responder}
Other(s) == CHOOSE o \in Side : o # s
Nul == 0                        \* the empty text of a datagram
Torn == -1                      \* the end of a piece
Source(s) == IF s = Requester THEN text ELSE written

Init ==
  /\ \E n \in 0..MaxLength : text = [i \in 1..n |-> i]
  /\ written = <<>> /\ printed = <<>> /\ message = 0
  /\ pc = [s \in Side |-> IF s = Requester THEN "send" ELSE "receive"]
  /\ count = [s \in Side |-> 0]
  /\ startWindow = [s \in Side |-> 0]
  /\ endWindow = [s \in Side |-> Window - 1]
  /\ at = [s \in Side |-> [piece |-> 1, inside |-> FALSE]]
  /\ left = [s \in Side |-> 0]
  /\ expected = [s \in Side |-> 0]
  /\ lastWanted = [s \in Side |-> Window - 1]
  /\ net = [s \in Side |-> <<>>]
  /\ faults = <<>>

Goto(s, l) == pc' = [pc EXCEPT ![s] = l]
Room(s) == Len(net[s]) < MaxQueue
Datagram(t, i) == [text |-> t, index |-> i]
\* Program s takes its next datagram, and sends d to the other one.
Sends(s, d) == net' = [net EXCEPT ![Other(s)] = Append(@, d)]
Takes(s) == net' = [net EXCEPT ![s] = Tail(@)]
Answers(s, d) == net' = [net EXCEPT ![s] = Tail(@), ![Other(s)] = Append(@, d)]

-----------------------------------------------------------------------------
(* The sender *)

AtEnd(s) == at[s].piece > Len(Source(s))

SendPacket(s) ==
  LET t == IF at[s].inside THEN Torn ELSE Source(s)[at[s].piece] IN
  /\ pc[s] = "send"
  /\ startWindow[s] # endWindow[s] + 1
  /\ ~AtEnd(s)
  /\ count[s] < MaxPacket /\ Room(Other(s))
  /\ Sends(s, Datagram(t, count[s]))
  /\ count' = [count EXCEPT ![s] = @ + 1]
  /\ startWindow' = [startWindow EXCEPT ![s] = @ + 1]
  /\ at' = [at EXCEPT ![s] = [piece |-> @.piece + 1, inside |-> FALSE]]
  /\ left' = [left EXCEPT ![s] = 0]
  /\ UNCHANGED <<files, pc, endWindow, receiver, faults>>

\* Where a sender starts.
FromStart(s) ==
  /\ count' = [count EXCEPT ![s] = 0]
  /\ startWindow' = [startWindow EXCEPT ![s] = 0]
  /\ endWindow' = [endWindow EXCEPT ![s] = Window - 1]
  /\ at' = [at EXCEPT ![s] = [piece |-> 1, inside |-> FALSE]]
  /\ left' = [left EXCEPT ![s] = 0]

\* The file is read: the empty text follows, with the index that is in the
\* buffer, and the program receives from packet 0 on.
SendEnd(s) ==
  /\ pc[s] = "send"
  /\ startWindow[s] # endWindow[s] + 1
  /\ AtEnd(s)
  /\ Room(Other(s))
  /\ Sends(s, Datagram(Nul, left[s]))
  /\ expected' = [expected EXCEPT ![s] = 0]
  /\ lastWanted' = [lastWanted EXCEPT ![s] = Window - 1]
  /\ written' = IF s = Responder THEN <<>> ELSE written
  /\ printed' = IF s = Requester THEN <<>> ELSE printed
  /\ Goto(s, "receive")
  /\ FromStart(s)
  /\ UNCHANGED <<text, message, faults>>

\* fseek by 300 for each packet to send again.  A piece is shorter than that:
\* it comes to a place before the piece of that packet, or, before the start
\* of the file, fails and the position stays.
Rewound(s, packets) ==
  {at[s]} \cup {[piece |-> n, inside |-> i] :
                  n \in 1..(at[s].piece - packets - 1), i \in BOOLEAN}

\* Broken: the next window starts at a request for the last packet of this one.
TakeRequestForLast(s) ==
  LET i == Head(net[s]).index IN
  /\ pc[s] = "send"
  /\ startWindow[s] = endWindow[s] + 1
  /\ net[s] # <<>>
  /\ Takes(s)
  /\ left' = [left EXCEPT ![s] = i]
  /\ startWindow' = [startWindow EXCEPT ![s] = IF i = endWindow[s] THEN i ELSE @]
  /\ endWindow' = [endWindow EXCEPT ![s] = IF i = @ THEN i + Window - 1 ELSE @]
  /\ UNCHANGED <<files, pc, count, at, receiver, faults>>

\* A request while the window is sent: for a packet of it, for the next
\* window, or for anything else, which is passed over.  packetCount goes on.
TakeRequest(s) ==
  LET i == Head(net[s]).index IN
  /\ pc[s] = "send"
  /\ startWindow[s] = endWindow[s] + 1
  /\ net[s] # <<>>
  /\ Takes(s)
  /\ left' = [left EXCEPT ![s] = i]
  /\ \/ /\ i < endWindow[s]
        /\ startWindow' = [startWindow EXCEPT ![s] = i]
        /\ \E a \in Rewound(s, endWindow[s] + 1 - i) : at' = [at EXCEPT ![s] = a]
        /\ UNCHANGED endWindow
     \/ /\ i = endWindow[s] + 1
        /\ startWindow' = [startWindow EXCEPT ![s] = i]
        /\ endWindow' = [endWindow EXCEPT ![s] = i + Window - 1]
        /\ UNCHANGED at
     \/ /\ i = endWindow[s] \/ i > endWindow[s] + 1
        /\ UNCHANGED <<startWindow, endWindow, at>>
  /\ UNCHANGED <<files, pc, count, receiver, faults>>

-----------------------------------------------------------------------------
(* The receiver *)

\* The responder writes, the requester prints.
Keep(s, t) ==
  /\ written' = IF s = Responder THEN Append(written, t) ELSE written
  /\ printed' = IF s = Requester THEN Append(printed, t) ELSE printed

\* Broken: a later packet is taken for the one expected.
AcceptLater(s) ==
  LET d == Head(net[s]) IN
  /\ pc[s] = "receive" /\ net[s] # <<>>
  /\ d.text # Nul
  /\ d.index >= expected[s]
  /\ Keep(s, d.text)
  /\ expected' = [expected EXCEPT ![s] = d.index + 1]
  /\ Takes(s)
  /\ UNCHANGED <<text, message, pc, sender, lastWanted, faults>>

\* The packet expected; the last one of a window asks for the next window.
Accept(s) ==
  LET d == Head(net[s]) IN
  /\ pc[s] = "receive" /\ net[s] # <<>>
  /\ d.text # Nul
  /\ d.index = expected[s]
  /\ Keep(s, d.text)
  /\ expected' = [expected EXCEPT ![s] = @ + 1]
  /\ IF expected[s] = lastWanted[s]
       THEN /\ Room(Other(s))
            /\ lastWanted' = [lastWanted EXCEPT ![s] = @ + Window]
            /\ Answers(s, Datagram(Nul, expected[s] + 1))
       ELSE Takes(s) /\ UNCHANGED lastWanted
  /\ UNCHANGED <<text, message, pc, sender, faults>>

\* Another packet: the one expected is asked for.
Reject(s) ==
  LET d == Head(net[s]) IN
  /\ pc[s] = "receive" /\ net[s] # <<>>
  /\ d.text # Nul
  /\ d.index # expected[s]
  /\ Room(Other(s))
  /\ Answers(s, Datagram(Nul, expected[s]))
  /\ UNCHANGED <<files, pc, sender, receiver, faults>>

\* Broken: one message more is sent.
TakeEndOnce(s) ==
  /\ pc[s] = "receive" /\ net[s] # <<>>
  /\ Head(net[s]).text = Nul
  /\ Takes(s)
  /\ message' = IF s = Requester THEN message + 1 ELSE message
  /\ Goto(s, IF message' > Messages THEN "done" ELSE "send")
  /\ UNCHANGED <<text, written, printed, sender, receiver, faults>>

\* An empty text ends the message, also when it is a request: the responder
\* sends the file back, and the requester goes on to the next message.
TakeEnd(s) ==
  /\ pc[s] = "receive" /\ net[s] # <<>>
  /\ Head(net[s]).text = Nul
  /\ Takes(s)
  /\ message' = IF s = Requester THEN message + 1 ELSE message
  /\ Goto(s, IF message' = Messages /\ s = Requester THEN "done" ELSE "send")
  /\ UNCHANGED <<text, written, printed, sender, receiver, faults>>

-----------------------------------------------------------------------------
(* The network *)

Happens(kind) ==
  /\ Len(faults) < MaxFaults
  /\ faults' = Append(faults, kind)
  /\ UNCHANGED <<files, pc, sender, receiver>>

Lose(s) ==
  /\ net[s] # <<>>
  /\ Takes(s)
  /\ Happens("lose")

\* The datagram behind the next one comes first.
Overtake(s) ==
  /\ Len(net[s]) > 1
  /\ net' = [net EXCEPT ![s] = <<@[2], @[1]>> \o SubSeq(@, 3, Len(@))]
  /\ Happens("overtake")

Repeat(s) ==
  /\ net[s] # <<>> /\ Room(s)
  /\ net' = [net EXCEPT ![s] = <<Head(@)>> \o @]
  /\ Happens("repeat")

-----------------------------------------------------------------------------

Step(s) ==
  \/ SendPacket(s) \/ SendEnd(s) \/ TakeRequest(s)
  \/ Accept(s) \/ Reject(s) \/ TakeEnd(s)

Next == \E s \in Side : Step(s) \/ Lose(s) \/ Overtake(s) \/ Repeat(s)

Spec == Init /\ [][Next]_vars

\* Both programs run; the network need not do anything to a datagram.
FairSpec == Spec /\ \A s \in Side : WF_vars(Step(s))

-----------------------------------------------------------------------------
(* Properties *)

Index == 0..(MaxPacket + Window)
Piece == {Torn} \cup 1..MaxLength
Place == [piece : 1..(MaxPacket + 1), inside : BOOLEAN]

\* Every variable keeps its type.
TypeOK ==
  /\ {text, written, printed} \subseteq Seq(Piece)
  /\ message \in 0..Messages
  /\ pc \in [Side -> {"send", "receive", "done"}]
  /\ {count, left, expected} \subseteq [Side -> Index]
  /\ {startWindow, endWindow, lastWanted} \subseteq [Side -> Index]
  /\ at \in [Side -> Place]
  /\ \A s \in Side : Len(net[s]) <= MaxQueue /\ net[s] \in Seq([text : Piece \cup {Nul}, index : Index])
  /\ Len(faults) <= MaxFaults

Faultless == faults = <<>>
Repeated == "repeat" \in ToSet(faults)

\* As long as no datagram comes twice, what the responder has written and the
\* requester printed of the first message are its first pieces, in order,
\* whatever is lost or overtaken: packets that are sent again carry numbers
\* nobody expects.  When nothing happened to any datagram, every message that
\* is over was printed as a whole, whatever the length of the text.
Delivered ==
  /\ ~Repeated /\ message = 0 => IsPrefix(written, text) /\ IsPrefix(printed, text)
  /\ Faultless /\ message > 0 /\ pc[Requester] # "receive" => printed = text

\* On a network that delivers, all messages end: at a full window each
\* program asks for the next one, also when the text ends with it.
TransferEnds == []Faultless => <>(message = Messages)
=============================================================================
