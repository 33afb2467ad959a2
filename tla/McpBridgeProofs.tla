--------------------------- MODULE McpBridgeProofs ---------------------------
(***************************************************************************)
(* The MCP bridge answers nobody with another's result and counts its        *)
(* commands right, for any set of requests, any limit and any number of       *)
(* restarts: proofs of the safety properties of McpBridge and of its          *)
(* refinement of RequestReply.                                              *)
(*                                                                         *)
(* A token is what ties a result to its connection.  The inductive invariant  *)
(* says so of every message under way, wherever it is: in a queue, in the      *)
(* tool that is running, or in the hands of the reader or the writer.        *)
(***************************************************************************)
EXTENDS McpBridge, SequenceTheorems, FiniteSetTheorems, TLAPS

-----------------------------------------------------------------------------
(* The inductive invariant.                                                  *)

NetType ==
  [kind : {"none", "http", "stdio"}, closed : BOOLEAN, bound : BOOLEAN,
   client : HttpRequests \cup {None}, token : Nat, next : Nat]
ReaderType ==
  [pc : {"off", "top", "recv", "accept", "read", "handle", "handled", "failed"},
   request : OptionalRequest, token : Nat]
WriterType ==
  [pc : {"off", "top", "wait", "send", "complete"}, request : OptionalRequest, token : Nat]
MainType ==
  [pc : {"idle", "run", "pump", "close", "drop", "quiet", "join", "start"},
   cmd : OptionalRequest, token : Nat, again : {"none", "http", "stdio"}]

\* A token the transport x has given out, and to r if it is the one it now holds.
Fits(x, r, t) == t \in 1..x.next /\ (t = x.token => r = x.client)
AllFit(x, q) == \A i \in 1..Len(q) : Fits(x, q[i].request, q[i].token)

\* The transport holds a connection and a token together, over HTTP only.
Held(x) ==
  /\ x.client = None <=> x.token = NoToken
  /\ x.token <= x.next
  /\ x.client # None => x.kind = "http"

\* While the reader reads or handles a request nobody else's connection is held.
ReaderFits ==
  /\ reader.pc \in {"read", "handle"} =>
       /\ reader.request \in Requests /\ Fits(net, reader.request, reader.token)
       /\ net.client \in {None, reader.request}
  /\ reader.pc = "handle" => readerToken = reader.token
  /\ reader.pc = "accept" => net.kind = "http"

WriterFits == writer.pc = "send" => writer.request \in Requests /\ Fits(net, writer.request, writer.token)
MainFits == main.pc = "run" => main.cmd \in Requests /\ Fits(net, main.cmd, main.token)
QueuesFit == AllFit(net, commands) /\ AllFit(net, responses)

\* Once Stop has emptied the response queue nothing comes into it; a Start that
\* stops first was let in by the bound.
Stopping ==
  /\ main.pc = "join" => responses = << >>
  /\ main.pc = "start" => main.again # "none"
  /\ main.again # "none" => starts < MaxStarts

Tags == ReaderFits /\ WriterFits /\ MainFits /\ QueuesFit

Inv == TypeOK /\ Held(net) /\ Tags /\ Stopping /\ AnswersOwnRequest /\ PendingAccounted

-----------------------------------------------------------------------------
(* The queues.                                                               *)

LEMMA QueueLength ==
  ASSUME NEW q \in Seq(Message)
  PROVE  /\ Len(q) \in Nat /\ (Len(q) = 0 <=> q = << >>)
         /\ \A i \in 1..Len(q) : q[i] \in Message
  OBVIOUS

LEMMA Appended ==
  ASSUME NEW q \in Seq(Message), NEW c \in Message, NEW x,
         AllFit(x, q), Fits(x, c.request, c.token)
  PROVE  /\ Append(q, c) \in Seq(Message) /\ Len(Append(q, c)) = Len(q) + 1
         /\ AllFit(x, Append(q, c))
<1>1. /\ Append(q, c) \in Seq(Message) /\ Len(Append(q, c)) = Len(q) + 1
      /\ Append(q, c)[Len(q) + 1] = c
      /\ \A i \in 1..Len(q) : Append(q, c)[i] = q[i]
  BY AppendProperties
<1>2. ASSUME NEW i \in 1..(Len(q) + 1)
      PROVE  Fits(x, Append(q, c)[i].request, Append(q, c)[i].token)
  <2>1. CASE i = Len(q) + 1
    BY <1>1, <2>1
  <2>2. CASE i # Len(q) + 1
    <3>1. i \in 1..Len(q)
      BY <2>2, QueueLength
    <3> QED
      BY <1>1, <3>1 DEF AllFit
  <2> QED
    BY <2>1, <2>2
<1> QED
  BY <1>1, <1>2 DEF AllFit

LEMMA Taken ==
  ASSUME NEW q \in Seq(Message), q # << >>, NEW x, AllFit(x, q)
  PROVE  /\ Head(q) \in Message /\ Tail(q) \in Seq(Message)
         /\ Len(q) \in Nat \ {0} /\ Len(Tail(q)) = Len(q) - 1
         /\ Fits(x, Head(q).request, Head(q).token) /\ AllFit(x, Tail(q))
<1>1. Len(q) \in Nat \ {0}
  BY QueueLength
<1>2. /\ Head(q) = q[1] /\ Tail(q) \in Seq(Message) /\ Len(Tail(q)) = Len(q) - 1
      /\ \A i \in 1..Len(Tail(q)) : Tail(q)[i] = q[i + 1]
  BY HeadTailProperties
<1>3. 1 \in 1..Len(q) /\ \A i \in 1..(Len(q) - 1) : i + 1 \in 1..Len(q)
  BY <1>1
<1>4. Head(q) \in Message
  BY <1>2, <1>3, QueueLength
<1>5. Fits(x, Head(q).request, Head(q).token)
  BY <1>2, <1>3 DEF AllFit
<1>6. ASSUME NEW i \in 1..Len(Tail(q))
      PROVE  Fits(x, Tail(q)[i].request, Tail(q)[i].token)
  <2>1. i + 1 \in 1..Len(q) /\ Tail(q)[i] = q[i + 1]
    BY <1>2, <1>3
  <2> QED
    BY <2>1 DEF AllFit
<1> QED
  BY <1>1, <1>2, <1>4, <1>5, <1>6 DEF AllFit

LEMMA NothingToFit == ASSUME NEW x PROVE AllFit(x, << >>)
  BY DEF AllFit

-----------------------------------------------------------------------------
(* The transport.                                                            *)

\* From x to y: the same connection is held, or none, or a newer one.
Ages(x, y) ==
  /\ x.next <= y.next
  /\ \/ y.token = x.token /\ y.client = x.client
     \/ y.token = NoToken
     \/ x.next < y.token

LEMMA Unaged == ASSUME NEW x \in NetType PROVE Ages(x, x)
<1>1. x.next \in Nat
  BY DEF NetType
<1> QED
  BY <1>1 DEF Ages

LEMMA StillFits ==
  ASSUME NEW x \in NetType, NEW y \in NetType, Ages(x, y), NEW r, NEW t, Fits(x, r, t)
  PROVE  Fits(y, r, t)
<1>1. x.next \in Nat /\ y.next \in Nat /\ y.token \in Nat
  BY DEF NetType
<1> QED
  BY <1>1 DEF Ages, Fits, NoToken

LEMMA AllStillFit ==
  ASSUME NEW x \in NetType, NEW y \in NetType, Ages(x, y), NEW q, AllFit(x, q)
  PROVE  AllFit(y, q)
  BY StillFits DEF AllFit

LEMMA NetInvariant == TypeOK => net \in NetType
  BY DEF TypeOK, NetType

LEMMA Released ==
  ASSUME NEW x \in NetType, Held(x)
  PROVE  /\ Release(x) \in NetType /\ Held(Release(x)) /\ Ages(x, Release(x))
         /\ Release(x).client = None /\ Release(x).kind = x.kind
<1>1. /\ Release(x).client = None /\ Release(x).token = NoToken /\ Release(x).next = x.next
      /\ Release(x).kind = x.kind /\ x.next \in Nat
  BY DEF NetType, Release
<1>2. Release(x) \in NetType
  BY DEF NetType, Release, NoToken
<1> QED
  BY <1>1, <1>2 DEF Held, Ages, NoToken

StageType == [Requests -> {"idle", "waiting", "open", "answered", "dropped"}]
GotType == [Requests -> OptionalRequest]
WorkType == [Requests -> {"none", "accepted", "done", "lost"}]

LEMMA ClientEnded ==
  ASSUME Inv, NEW outcome \in {"answered", "dropped"}
  PROVE  EndClient(outcome) \in StageType
<1>1. /\ stage \in StageType
      /\ net.client \in Requests \cup {None}
  BY DEF Inv, TypeOK, StageType, Requests
<1>2. CASE net.client = None
  BY <1>1, <1>2 DEF EndClient
<1>3. CASE net.client # None
  <2>1. net.client \in Requests /\ EndClient(outcome) = [stage EXCEPT ![net.client] = outcome]
    BY <1>1, <1>3 DEF EndClient
  <2> QED
    BY <1>1, <2>1 DEF StageType
<1> QED
  BY <1>2, <1>3

\* A response to r, if the connection whose token is t is r's own, changes
\* nothing but r's outcome and the connection held.
LEMMA SendEffect ==
  ASSUME Inv, NEW r \in Requests, NEW t \in Nat, Send(r, t) \/ Lose(t),
         net.kind = "http" /\ Matches(t) => r = net.client
  PROVE  /\ net' \in NetType /\ Held(net') /\ Ages(net, net')
         /\ net'.client \in {None, net.client}
         /\ stage' \in StageType /\ got' \in GotType /\ AnswersOwnRequest'
<1>1. /\ net \in NetType /\ Held(net) /\ stage \in StageType /\ got \in GotType
      /\ AnswersOwnRequest
  BY DEF Inv, TypeOK, NetType, StageType, GotType
<1>2. CASE UNCHANGED <<net, stage, got>>
  BY <1>1, <1>2, Unaged DEF AnswersOwnRequest
<1>3. CASE UNCHANGED got /\ net' = Release(net) /\ stage' = EndClient("dropped")
  BY <1>1, <1>3, Released, ClientEnded DEF AnswersOwnRequest
<1>4. CASE Deliver(r, t)
  <2>1. CASE net.kind = "http"
    <3>1. /\ net' = Release(net) /\ stage' = EndClient("answered")
          /\ got' = [got EXCEPT ![net.client] = r] /\ r = net.client
      BY <1>4, <2>1 DEF Deliver
    <3>2. got' \in GotType /\ AnswersOwnRequest'
      BY <1>1, <3>1 DEF GotType, AnswersOwnRequest, OptionalRequest
    <3> QED
      BY <1>1, <3>1, <3>2, Released, ClientEnded
  <2>2. CASE net.kind # "http"
    <3>1. /\ UNCHANGED net /\ stage' = [stage EXCEPT ![r] = "answered"]
          /\ got' = [got EXCEPT ![r] = r]
      BY <1>4, <2>2 DEF Deliver
    <3>2. stage' \in StageType /\ got' \in GotType /\ AnswersOwnRequest'
      BY <1>1, <3>1 DEF StageType, GotType, AnswersOwnRequest, OptionalRequest
    <3> QED
      BY <1>1, <3>1, <3>2, Unaged
  <2> QED
    BY <2>1, <2>2
<1> QED
  BY <1>2, <1>3, <1>4 DEF Send, Lose, Discard, clients

\* The tags of what is under way survive any change of the transport.
LEMMA TagsMove ==
  ASSUME Inv, net' \in NetType, Ages(net, net')
  PROVE  /\ AllFit(net', commands) /\ AllFit(net', responses)
         /\ writer.pc = "send" => Fits(net', writer.request, writer.token)
         /\ main.pc = "run" => Fits(net', main.cmd, main.token)
         /\ reader.pc \in {"read", "handle"} => Fits(net', reader.request, reader.token)
<1>1. net \in NetType
  BY NetInvariant DEF Inv
<1> QED
  BY <1>1, StillFits, AllStillFit DEF Inv, Tags, QueuesFit, WriterFits, MainFits, ReaderFits

-----------------------------------------------------------------------------
(* Each step preserves it: the clients and the reader.                       *)

LEMMA AskStep ==
  ASSUME Inv, NEW r \in Requests, Ask(r)
  PROVE  Inv'
<1>1. /\ stage' \in StageType
      /\ UNCHANGED <<commands, pending, responses, serving, running, net, reader, writer, main,
                     readerToken, got, work, starts>>
  BY DEF Ask, queues, Inv, TypeOK, StageType
<1> QED
  BY <1>1 DEF Inv, TypeOK, StageType, Tags, ReaderFits, WriterFits, MainFits, QueuesFit,
              Stopping, AnswersOwnRequest, PendingAccounted, Inside

\* What the reader does to itself, the transport and a client.
LEMMA ReaderActs ==
  ASSUME Inv, reader' \in ReaderType, readerToken' \in Nat, running' \in BOOLEAN,
         net' \in NetType, Held(net'), Ages(net, net'),
         stage' \in StageType, got' \in GotType, AnswersOwnRequest', ReaderFits',
         UNCHANGED <<queues, writer, main, work, starts>>
  PROVE  Inv'
<1>1. UNCHANGED <<commands, pending, responses, serving, writer, main, work, starts>>
  BY DEF queues
<1>2. TypeOK'
  BY <1>1 DEF Inv, TypeOK, NetType, ReaderType, StageType, GotType
<1>3. WriterFits' /\ MainFits' /\ QueuesFit'
  BY <1>1, TagsMove DEF Inv, Tags, WriterFits, MainFits, QueuesFit
<1>4. Stopping' /\ PendingAccounted'
  BY <1>1 DEF Inv, Stopping, PendingAccounted, Inside
<1> QED
  BY <1>2, <1>3, <1>4 DEF Inv, Tags

LEMMA ReaderElsewhere ==
  ASSUME Inv, NEW p \in {"off", "top", "recv", "failed"}
  PROVE  /\ [ThreadOff EXCEPT !.pc = p] \in ReaderType
         /\ [ThreadOff EXCEPT !.pc = p].pc = p
  BY DEF ThreadOff, ReaderType, OptionalRequest, NoToken

LEMMA ReaderPlain ==
  ASSUME Inv, reader' \in ReaderType, readerToken' \in Nat, running' \in BOOLEAN, ReaderFits',
         UNCHANGED <<queues, net, writer, main, clients, work, starts>>
  PROVE  Inv'
<1>1. /\ net' \in NetType /\ Held(net') /\ Ages(net, net')
      /\ stage' \in StageType /\ got' \in GotType /\ AnswersOwnRequest'
  BY NetInvariant, Unaged DEF Inv, TypeOK, StageType, GotType, AnswersOwnRequest, clients
<1> QED
  BY <1>1, ReaderActs

\* What the tests of m_running and of the transport lead to.
LEMMA ReaderGoesRound ==
  ASSUME Inv, ReaderTop \/ ReaderFree \/ ReaderHandled \/ ReaderFails
  PROVE  Inv'
<1>1. /\ reader \in ReaderType /\ readerToken \in Nat /\ running \in BOOLEAN
      /\ UNCHANGED <<queues, net, writer, main, clients, work, starts>>
  BY DEF Inv, TypeOK, ReaderType, ReaderTop, ReaderFree, ReaderHandled, ReaderFails, OthersOfReader
<1>2. /\ reader' \in ReaderType /\ reader'.pc \in {"recv", "off", "accept", "top", "failed"}
      /\ readerToken' \in Nat /\ running' \in BOOLEAN
      /\ reader'.pc = "accept" => net.kind = "http"
  <2>1. reader \in ReaderType
    BY <1>1
  <2>2. CASE ReaderTop
    BY <1>1, <2>1, <2>2 DEF ReaderTop, ReaderType
  <2>3. CASE ReaderFree
    BY <1>1, <2>1, <2>3 DEF ReaderFree, ReaderType
  <2>4. CASE ReaderHandled
    BY <1>1, <2>4, ReaderElsewhere DEF ReaderHandled, NoToken
  <2>5. CASE ReaderFails
    BY <1>1, <2>5, ReaderElsewhere DEF ReaderFails
  <2> QED
    BY <2>2, <2>3, <2>4, <2>5
<1>3. ReaderFits'
  BY <1>1, <1>2 DEF ReaderFits
<1> QED
  BY <1>1, <1>2, <1>3, ReaderPlain

LEMMA ReaderStallStep ==
  ASSUME Inv, ReaderStall
  PROVE  Inv'
<1>1. /\ reader \in ReaderType /\ readerToken \in Nat /\ running \in BOOLEAN
      /\ got \in GotType /\ AnswersOwnRequest /\ net \in NetType /\ Held(net)
  BY DEF Inv, TypeOK, ReaderType, GotType, NetType
<1>2. /\ reader.pc = "recv" /\ net' = Release(net) /\ stage' = EndClient("dropped")
      /\ UNCHANGED <<queues, running, reader, readerToken, got, work, writer, main, starts>>
  BY DEF ReaderStall, OthersOfReader
<1>3. /\ net' \in NetType /\ Held(net') /\ Ages(net, net') /\ stage' \in StageType
  BY <1>1, <1>2, Released, ClientEnded
<1>4. ReaderFits' /\ AnswersOwnRequest'
  BY <1>1, <1>2 DEF ReaderFits, AnswersOwnRequest
<1> QED
  BY <1>1, <1>2, <1>3, <1>4, ReaderActs

LEMMA ReaderAcceptStep ==
  ASSUME Inv, ReaderAccept
  PROVE  Inv'
<1>1. /\ net \in NetType /\ Held(net) /\ net.next \in Nat
      /\ readerToken \in Nat /\ running \in BOOLEAN /\ stage \in StageType
      /\ got \in GotType /\ AnswersOwnRequest
      /\ UNCHANGED <<queues, running, readerToken, got, work, writer, main, starts>>
  BY DEF Inv, TypeOK, NetType, StageType, GotType, ReaderAccept, OthersOfReader
<1>2. PICK r \in HttpRequests :
             /\ stage' = [stage EXCEPT ![r] = "open"]
             /\ net' = [net EXCEPT !.client = r, !.token = net.next + 1, !.next = @ + 1]
             /\ reader' = [pc |-> "read", request |-> r, token |-> net.next + 1]
  BY DEF ReaderAccept
<1>3. /\ net'.client = r /\ net'.token = net.next + 1 /\ net'.next = net.next + 1
      /\ net'.kind = net.kind /\ net' \in NetType
  <2>1. net \in NetType /\ net.next \in Nat
    BY <1>1
  <2>2. net' = [kind |-> net.kind, closed |-> net.closed, bound |-> net.bound, client |-> r,
                token |-> net.next + 1, next |-> net.next + 1]
    BY <1>2, <2>1 DEF NetType
  <2>3. net.closed \in BOOLEAN /\ net.bound \in BOOLEAN /\ net.kind \in {"none", "http", "stdio"}
    BY <2>1 DEF NetType
  <2>4. net' \in NetType
    BY <2>1, <2>2, <2>3 DEF NetType
  <2> QED
    BY <2>2, <2>4
<1>4. r # None /\ r \in Requests /\ stage' \in StageType
  BY <1>1, <1>2, BridgeAssumption DEF Requests, StageType
<1>5. Held(net') /\ Ages(net, net')
  <2>1. net.kind = "http"
    BY DEF ReaderAccept, Inv, Tags, ReaderFits
  <2>2. net.next \in Nat
    BY <1>1
  <2>3. Held(net')
    BY <1>3, <1>4, <2>1, <2>2 DEF Held, NoToken
  <2>4. Ages(net, net')
    BY <1>3, <2>2 DEF Ages
  <2> QED
    BY <2>3, <2>4
<1>6. reader' \in ReaderType
  BY <1>1, <1>2, <1>4 DEF ReaderType, OptionalRequest
<1>7. ReaderFits' /\ AnswersOwnRequest'
  BY <1>1, <1>2, <1>3, <1>4 DEF ReaderFits, Fits, AnswersOwnRequest
<1> QED
  BY <1>1, <1>3, <1>4, <1>5, <1>6, <1>7, ReaderActs

LEMMA ReaderLineStep ==
  ASSUME Inv, ReaderLine
  PROVE  Inv'
<1>1. /\ net \in NetType /\ Held(net) /\ net.next \in Nat /\ net.kind = "stdio"
      /\ running \in BOOLEAN /\ stage \in StageType
      /\ got \in GotType /\ AnswersOwnRequest
      /\ UNCHANGED <<queues, running, got, work, writer, main, starts>>
  BY DEF Inv, TypeOK, NetType, StageType, GotType, ReaderLine, OthersOfReader
<1>2. PICK r \in StdioRequests :
             /\ stage' = [stage EXCEPT ![r] = "open"]
             /\ net' = [net EXCEPT !.next = @ + 1]
             /\ reader' = [pc |-> "handle", request |-> r, token |-> net.next + 1]
             /\ readerToken' = net.next + 1
  BY DEF ReaderLine
<1>3. /\ net'.client = None /\ net'.token = NoToken /\ net'.next = net.next + 1
      /\ net'.kind = net.kind /\ net' \in NetType
  <2>1. net \in NetType /\ net.next \in Nat
    BY <1>1
  <2>2. net.client = None /\ net.token = NoToken
    BY <1>1 DEF Held
  <2> QED
    BY <1>2, <2>1, <2>2 DEF NetType
<1>4. r \in Requests /\ stage' \in StageType
  BY <1>1, <1>2 DEF Requests, StageType
<1>5. Held(net') /\ Ages(net, net')
  BY <1>1, <1>3 DEF Held, Ages, NoToken
<1>6. reader' \in ReaderType /\ readerToken' \in Nat
  BY <1>1, <1>2, <1>4 DEF ReaderType, OptionalRequest
<1>7. ReaderFits' /\ AnswersOwnRequest'
  BY <1>1, <1>2, <1>3, <1>4 DEF ReaderFits, Fits, AnswersOwnRequest, NoToken
<1> QED
  BY <1>1, <1>3, <1>4, <1>5, <1>6, <1>7, ReaderActs

\* A response from the reader goes to whoever is still connected: nobody else is.
LEMMA ReaderSends ==
  ASSUME Inv, reader.pc \in {"read", "handle"}, NEW t \in Nat, Send(reader.request, t),
         reader' \in ReaderType, reader'.pc \notin {"accept", "read", "handle"},
         UNCHANGED <<queues, running, readerToken, work, writer, main, starts>>
  PROVE  Inv'
<1>1. /\ reader.request \in Requests /\ net.client \in {None, reader.request}
      /\ readerToken \in Nat /\ running \in BOOLEAN
  BY DEF Inv, Tags, ReaderFits, TypeOK
<1>2. /\ net' \in NetType /\ Held(net') /\ Ages(net, net')
      /\ stage' \in StageType /\ got' \in GotType /\ AnswersOwnRequest'
  BY <1>1, SendEffect DEF Matches
<1>3. ReaderFits'
  BY DEF ReaderFits
<1> QED
  BY <1>1, <1>2, <1>3, ReaderActs

LEMMA ReaderRejectStep ==
  ASSUME Inv, ReaderReject
  PROVE  Inv'
<1>1. PICK p \in {"recv", "top"} : reader' = [ThreadOff EXCEPT !.pc = p]
  BY DEF ReaderReject
<1>2. reader' \in ReaderType /\ reader'.pc \notin {"accept", "read", "handle"}
  BY <1>1, ReaderElsewhere
<1> QED
  BY <1>2, ReaderSends DEF ReaderReject, OthersOfReader, NoToken

LEMMA ReaderPostStep ==
  ASSUME Inv, ReaderPost
  PROVE  Inv'
<1>1. /\ reader.pc = "read" /\ reader \in ReaderType /\ readerToken \in Nat
      /\ running \in BOOLEAN
      /\ UNCHANGED <<queues, running, net, clients, work, writer, main, starts>>
  BY DEF ReaderPost, OthersOfReader, Inv, TypeOK, ReaderType
<1>2. CASE reader' = [reader EXCEPT !.pc = "handle"] /\ readerToken' = reader.token
  <2>1. /\ reader' \in ReaderType /\ reader'.pc = "handle" /\ readerToken' \in Nat
        /\ reader'.request = reader.request /\ reader'.token = reader.token
    <3>1. reader \in ReaderType
      BY <1>1
    <3> QED
      BY <1>2, <3>1 DEF ReaderType
  <2>2. ReaderFits'
    BY <1>1, <1>2, <2>1 DEF Inv, Tags, ReaderFits
  <2> QED
    BY <1>1, <2>1, <2>2, ReaderPlain
<1>3. CASE reader' = [ThreadOff EXCEPT !.pc = "recv"] /\ UNCHANGED readerToken
  <2>1. reader' \in ReaderType /\ ReaderFits'
    BY <1>3, ReaderElsewhere DEF ReaderFits
  <2> QED
    BY <1>1, <1>3, <2>1, ReaderPlain
<1> QED
  BY <1>2, <1>3 DEF ReaderPost

LEMMA Handled ==
  ASSUME Inv, reader' = [reader EXCEPT !.pc = "handled"]
  PROVE  reader' \in ReaderType /\ reader'.pc = "handled"
<1>1. reader \in ReaderType
  BY DEF Inv, TypeOK, ReaderType
<1> QED
  BY <1>1 DEF ReaderType

LEMMA ReaderReplyStep ==
  ASSUME Inv, ReaderReply
  PROVE  Inv'
<1>1. readerToken \in Nat /\ reader.pc = "handle"
  BY DEF Inv, TypeOK, ReaderReply
<1>2. Send(reader.request, readerToken)
  BY DEF ReaderReply, SendResponse
<1>3. UNCHANGED <<queues, running, readerToken, work, writer, main, starts>>
  BY DEF ReaderReply, OthersOfReader
<1> QED
  BY <1>1, <1>2, <1>3, Handled, ReaderSends DEF ReaderReply

\* A tool is queued with the tag of its request, and counted.
LEMMA PushStep ==
  ASSUME Inv, ReaderCall, pending < Limit
  PROVE  Inv'
<1> DEFINE c == [request |-> reader.request, token |-> readerToken]
<1>1. /\ reader.pc = "handle" /\ commands' = Append(commands, c) /\ pending' = pending + 1
      /\ work' = [work EXCEPT ![reader.request] = "accepted"]
      /\ UNCHANGED <<responses, serving, running, net, readerToken, stage, got, writer, main, starts>>
  <2>1. pending \in Nat /\ Limit \in Nat
    BY BridgeAssumption DEF Inv, TypeOK
  <2> QED
    BY <2>1 DEF ReaderCall, Push, OthersOfReader, clients
<1>2. reader' \in ReaderType /\ reader'.pc = "handled"
  BY Handled DEF ReaderCall
<1>3. /\ commands \in Seq(Message) /\ pending \in 0..Limit /\ Limit \in Nat
      /\ reader.request \in Requests /\ Fits(net, reader.request, readerToken)
      /\ AllFit(net, commands) /\ net \in NetType
  BY <1>1, BridgeAssumption DEF Inv, TypeOK, Tags, ReaderFits, QueuesFit, NetType
<1>4. c \in Message /\ Fits(net, c.request, c.token)
  <2>1. readerToken \in Nat \ {NoToken}
    <3>1. net.next \in Nat
      BY <1>3 DEF NetType
    <3> QED
      BY <1>3, <3>1 DEF Fits, NoToken
  <2> QED
    BY <1>3, <2>1 DEF Message
<1> HIDE DEF c
<1>5. /\ commands' \in Seq(Message) /\ Len(commands') = Len(commands) + 1
      /\ AllFit(net, commands')
  BY <1>1, <1>3, <1>4, Appended
<1>6. TypeOK'
  <2>1. work' \in WorkType
    BY <1>1, <1>3 DEF Inv, TypeOK, WorkType
  <2>2. pending' \in 0..Limit
    BY <1>1, <1>3 DEF ReaderCall
  <2> QED
    BY <1>1, <1>2, <1>5, <2>1, <2>2 DEF Inv, TypeOK, ReaderType, WorkType
<1>7. Tags'
  BY <1>1, <1>2, <1>5 DEF Inv, Tags, ReaderFits, WriterFits, MainFits, QueuesFit
<1>8. PendingAccounted'
  <2>1. Len(commands) \in Nat /\ Len(responses) \in Nat /\ pending \in Nat
    BY <1>3, QueueLength DEF Inv, TypeOK
  <2>2. Inside' = Inside + 1 /\ Inside \in Nat
    BY <1>1, <1>5, <2>1 DEF Inside
  <2> QED
    BY <1>1, <2>1, <2>2 DEF Inv, PendingAccounted
<1> QED
  BY <1>1, <1>6, <1>7, <1>8 DEF Inv, Stopping, AnswersOwnRequest

LEMMA ReaderCallStep ==
  ASSUME Inv, ReaderCall
  PROVE  Inv'
<1>1. CASE pending < Limit
  BY <1>1, PushStep
<1>2. CASE ~(pending < Limit)
  <2>1. /\ reader.pc = "handle" /\ readerToken \in Nat
        /\ Send(reader.request, readerToken)
        /\ UNCHANGED <<queues, running, readerToken, work, writer, main, starts>>
    <3>1. pending >= Limit
      BY <1>2, BridgeAssumption DEF Inv, TypeOK
    <3> QED
      BY <3>1 DEF ReaderCall, SendResponse, OthersOfReader, Inv, TypeOK, queues
  <2> QED
    BY <2>1, Handled, ReaderSends DEF ReaderCall
<1> QED
  BY <1>1, <1>2

\* Emptying the response queue loses count of it, on the safe side.
LEMMA ResponsesStopped ==
  ASSUME Inv, StopResponses, UNCHANGED <<commands, pending, writer>>,
         main'.pc = "run" => main.pc = "run"
  PROVE  PendingAccounted' /\ responses' \in Seq(Message) /\ AllFit(net, responses')
<1>1. responses' = << >> /\ ~serving' /\ Len(responses') = 0
  BY DEF StopResponses
<1>2. Len(commands) \in Nat /\ Len(responses) \in Nat /\ pending \in Nat
  BY QueueLength DEF Inv, TypeOK
<1>3. Inside' <= Inside /\ Inside \in Nat /\ Inside' \in Nat
  <2>1. CASE main'.pc = "run"
    BY <1>1, <1>2, <2>1 DEF Inside
  <2>2. CASE main'.pc # "run"
    BY <1>1, <1>2, <2>2 DEF Inside
  <2> QED
    BY <2>1, <2>2
<1>4. PendingAccounted'
  BY <1>1, <1>2, <1>3 DEF Inv, PendingAccounted
<1>5. << >> \in Seq(Message)
  OBVIOUS
<1> QED
  BY <1>1, <1>4, <1>5, NothingToFit

LEMMA ReaderQuitsStep ==
  ASSUME Inv, ReaderQuits
  PROVE  Inv'
<1>1. /\ StopResponses /\ reader' = ThreadOff
      /\ UNCHANGED <<commands, pending, running, net, readerToken, stage, got, work,
                     writer, main, starts>>
  BY DEF ReaderQuits, clients, OthersOfReader
<1>2. PendingAccounted' /\ responses' \in Seq(Message) /\ AllFit(net, responses')
  BY <1>1, ResponsesStopped
<1>3. reader' \in ReaderType /\ reader'.pc = "off"
  BY <1>1 DEF ThreadOff, ReaderType, OptionalRequest, NoToken
<1>4. responses' = << >> /\ serving' \in BOOLEAN
  BY <1>1 DEF StopResponses
<1>5. TypeOK'
  BY <1>1, <1>2, <1>3, <1>4 DEF Inv, TypeOK, ReaderType
<1>6. Tags'
  BY <1>1, <1>2, <1>3 DEF Inv, Tags, ReaderFits, WriterFits, MainFits, QueuesFit
<1> QED
  BY <1>1, <1>2, <1>4, <1>5, <1>6 DEF Inv, Stopping, AnswersOwnRequest

LEMMA ReaderStep ==
  ASSUME Inv, Reader
  PROVE  Inv'
<1>1. CASE ReaderTop \/ ReaderFree \/ ReaderHandled \/ ReaderFails
  BY <1>1, ReaderGoesRound
<1>2. CASE ReaderStall \/ ReaderAccept \/ ReaderLine
  BY <1>2, ReaderStallStep, ReaderAcceptStep, ReaderLineStep
<1>3. CASE ReaderReject \/ ReaderPost
  BY <1>3, ReaderRejectStep, ReaderPostStep
<1>4. CASE ReaderReply \/ ReaderCall \/ ReaderQuits
  BY <1>4, ReaderReplyStep, ReaderCallStep, ReaderQuitsStep
<1> QED
  BY <1>1, <1>2, <1>3, <1>4 DEF Reader

-----------------------------------------------------------------------------
(* The writer.                                                               *)

LEMMA WriterTopStep ==
  ASSUME Inv, WriterTop
  PROVE  Inv'
<1>1. /\ writer \in WriterType /\ writer.pc = "top"
      /\ writer' = [writer EXCEPT !.pc = IF running THEN "wait" ELSE "off"]
      /\ UNCHANGED <<commands, pending, responses, serving, running, net, stage, got, reader,
                     main, readerToken, work, starts>>
  BY DEF WriterTop, OthersOfWriter, clients, Inv, TypeOK, WriterType
<1>2. writer' \in WriterType /\ writer'.pc \in {"wait", "off"}
  <2>1. writer \in WriterType
    BY <1>1
  <2> QED
    BY <1>1, <2>1 DEF WriterType
<1>3. TypeOK'
  BY <1>1, <1>2 DEF Inv, TypeOK, WriterType
<1>4. Tags' /\ Stopping' /\ AnswersOwnRequest'
  BY <1>1, <1>2 DEF Inv, Tags, ReaderFits, WriterFits, MainFits, QueuesFit, Stopping,
                    AnswersOwnRequest
<1>5. PendingAccounted'
  BY <1>1, <1>2 DEF Inv, PendingAccounted, Inside
<1> QED
  BY <1>1, <1>3, <1>4, <1>5 DEF Inv

LEMMA WriterPopStep ==
  ASSUME Inv, WriterPop
  PROVE  Inv'
<1>1. /\ writer.pc = "wait" /\ responses \in Seq(Message) /\ AllFit(net, responses)
      /\ Len(commands) \in Nat /\ Len(responses) \in Nat /\ pending \in Nat
      /\ UNCHANGED <<commands, pending, serving, running, net, stage, got, reader,
                     main, readerToken, work, starts>>
  BY QueueLength DEF WriterPop, OthersOfWriter, clients, Inv, TypeOK, Tags, QueuesFit
<1>2. CASE /\ responses # << >> /\ responses' = Tail(responses)
           /\ writer' = [pc |-> "send", request |-> Head(responses).request,
                         token |-> Head(responses).token]
  <2>1. /\ Head(responses) \in Message /\ responses' \in Seq(Message)
        /\ Len(responses') = Len(responses) - 1
        /\ Fits(net, Head(responses).request, Head(responses).token)
        /\ AllFit(net, responses')
    BY <1>1, <1>2, Taken
  <2>2. /\ writer'.pc = "send" /\ writer'.request \in Requests
        /\ Fits(net, writer'.request, writer'.token) /\ writer' \in WriterType
    BY <1>2, <2>1 DEF Message, WriterType, OptionalRequest
  <2>3. TypeOK'
    BY <1>1, <2>1, <2>2 DEF Inv, TypeOK, WriterType
  <2>4. Tags' /\ AnswersOwnRequest'
    BY <1>1, <2>1, <2>2 DEF Inv, Tags, ReaderFits, WriterFits, MainFits, QueuesFit,
                            AnswersOwnRequest
  <2>5. Stopping'
    BY <1>1, <1>2 DEF Inv, Stopping
  <2>6. PendingAccounted'
    BY <1>1, <2>1, <2>2 DEF Inv, PendingAccounted, Inside
  <2> QED
    BY <1>1, <2>3, <2>4, <2>5, <2>6 DEF Inv
<1>3. CASE writer' = ThreadOff /\ UNCHANGED responses
  <2>1. writer' \in WriterType /\ writer'.pc = "off"
    BY <1>3 DEF ThreadOff, WriterType, OptionalRequest, NoToken
  <2>2. TypeOK'
    BY <1>1, <1>3, <2>1 DEF Inv, TypeOK, WriterType
  <2>3. Tags' /\ AnswersOwnRequest' /\ Stopping'
    BY <1>1, <1>3, <2>1 DEF Inv, Tags, ReaderFits, WriterFits, MainFits, QueuesFit,
                            AnswersOwnRequest, Stopping
  <2>4. PendingAccounted'
    BY <1>1, <1>3, <2>1 DEF Inv, PendingAccounted, Inside
  <2> QED
    BY <1>1, <2>2, <2>3, <2>4 DEF Inv
<1> QED
  BY <1>2, <1>3 DEF WriterPop

LEMMA WriterSendStep ==
  ASSUME Inv, WriterSend
  PROVE  Inv'
<1>1. /\ writer \in WriterType /\ writer.pc = "send" /\ writer.request \in Requests
      /\ Fits(net, writer.request, writer.token) /\ net \in NetType
      /\ writer' = [writer EXCEPT !.pc = "complete"]
      /\ UNCHANGED <<commands, pending, responses, serving, running, reader, main,
                     readerToken, work, starts>>
  BY DEF WriterSend, OthersOfWriter, queues, Inv, TypeOK, WriterType, NetType, Tags, WriterFits
<1>2. writer.token \in Nat /\ writer.token # NoToken
  <2>1. net.next \in Nat
    BY <1>1 DEF NetType
  <2> QED
    BY <1>1, <2>1 DEF Fits, NoToken
<1>3. /\ net' \in NetType /\ Held(net') /\ Ages(net, net')
      /\ net'.client \in {None, net.client}
      /\ stage' \in StageType /\ got' \in GotType /\ AnswersOwnRequest'
  <2>1. Send(writer.request, writer.token) \/ Lose(writer.token)
    BY <1>2 DEF WriterSend, SendResponse
  <2>2. net.kind = "http" /\ Matches(writer.token) => writer.request = net.client
    BY <1>1, <1>2 DEF Matches, Fits
  <2> QED
    BY <1>1, <1>2, <2>1, <2>2, SendEffect
<1>4. writer' \in WriterType /\ writer'.pc = "complete"
  <2>1. writer \in WriterType
    BY <1>1
  <2> QED
    BY <1>1, <2>1 DEF WriterType
<1>5. TypeOK'
  BY <1>1, <1>3, <1>4 DEF Inv, TypeOK, WriterType, NetType, StageType, GotType
<1>6. ReaderFits'
  <2>1. net'.kind = net.kind
    BY <1>1 DEF WriterSend, SendResponse, Send, Deliver, Lose, Discard, Release, NetType
  <2> QED
    BY <1>1, <1>3, <2>1, TagsMove DEF Inv, Tags, ReaderFits
<1>7. WriterFits' /\ MainFits' /\ QueuesFit'
  BY <1>1, <1>3, <1>4, TagsMove DEF Inv, Tags, WriterFits, MainFits, QueuesFit
<1>8. Stopping' /\ PendingAccounted'
  BY <1>1, <1>4 DEF Inv, Stopping, PendingAccounted, Inside
<1> QED
  BY <1>3, <1>5, <1>6, <1>7, <1>8 DEF Inv, Tags

LEMMA WriterCompleteStep ==
  ASSUME Inv, WriterComplete
  PROVE  Inv'
<1>1. /\ writer.pc = "complete" /\ writer' = [ThreadOff EXCEPT !.pc = "top"]
      /\ pending' = IF pending > 0 THEN pending - 1 ELSE 0
      /\ UNCHANGED <<commands, responses, serving, running, net, stage, got, reader,
                     main, readerToken, work, starts>>
  BY DEF WriterComplete, OthersOfWriter, clients
<1>2. writer' \in WriterType /\ writer'.pc = "top"
  BY <1>1 DEF ThreadOff, WriterType, OptionalRequest, NoToken
<1>3. /\ Len(commands) \in Nat /\ Len(responses) \in Nat /\ pending \in 0..Limit
      /\ Limit \in Nat
  BY QueueLength, BridgeAssumption DEF Inv, TypeOK
<1>4. TypeOK'
  <2>1. pending' \in 0..Limit
    BY <1>1, <1>3
  <2> QED
    BY <1>1, <1>2, <2>1 DEF Inv, TypeOK, WriterType
<1>5. Tags' /\ Stopping' /\ AnswersOwnRequest'
  BY <1>1, <1>2 DEF Inv, Tags, ReaderFits, WriterFits, MainFits, QueuesFit, Stopping,
                    AnswersOwnRequest
<1>6. PendingAccounted'
  <2>1. Inside \in Nat /\ Inside >= 1 /\ Inside' = Inside - 1
    BY <1>1, <1>2, <1>3 DEF Inside
  <2> QED
    BY <1>1, <1>3, <2>1 DEF Inv, PendingAccounted
<1> QED
  BY <1>1, <1>4, <1>5, <1>6 DEF Inv

LEMMA WriterStep ==
  ASSUME Inv, Writer
  PROVE  Inv'
  BY WriterTopStep, WriterPopStep, WriterSendStep, WriterCompleteStep DEF Writer

-----------------------------------------------------------------------------
(* The emulation thread.                                                     *)

LEMMA IdleMain ==
  /\ Idle \in MainType /\ Idle.pc = "idle" /\ Idle.again = "none"
  /\ [Idle EXCEPT !.pc = "pump"].again = "none"
  BY DEF Idle, MainType, OptionalRequest, NoToken

LEMMA MainAt ==
  ASSUME Inv, NEW p \in {"pump", "close", "start", "drop", "quiet", "join"},
         NEW k \in {"none", "http", "stdio"}
  PROVE  /\ [Idle EXCEPT !.pc = p] \in MainType /\ [Idle EXCEPT !.pc = p].pc = p
         /\ [Idle EXCEPT !.pc = p, !.again = k] \in MainType
         /\ [Idle EXCEPT !.pc = p, !.again = k].pc = p
         /\ [Idle EXCEPT !.pc = p, !.again = k].again = k
         /\ [main EXCEPT !.pc = p] \in MainType /\ [main EXCEPT !.pc = p].pc = p
         /\ [main EXCEPT !.pc = p].again = main.again
<1>1. Idle \in MainType /\ main \in MainType
  BY IdleMain DEF Inv, TypeOK, MainType
<1> QED
  BY <1>1 DEF MainType

\* The emulation thread goes on to something other than a tool.
LEMMA MainMoves ==
  ASSUME Inv, main' \in MainType, main'.pc \notin {"run", "join"}, main.pc # "run",
         running' \in BOOLEAN, starts' \in 0..MaxStarts, Stopping',
         UNCHANGED <<queues, net, clients, work, reader, writer, readerToken>>
  PROVE  Inv'
<1>1. UNCHANGED <<commands, pending, responses, serving, net, stage, got, work,
                 reader, writer, readerToken>>
  BY DEF queues, clients
<1>2. TypeOK'
  BY <1>1 DEF Inv, TypeOK, MainType
<1>3. Tags' /\ AnswersOwnRequest'
  BY <1>1 DEF Inv, Tags, ReaderFits, WriterFits, MainFits, QueuesFit, AnswersOwnRequest
<1>4. PendingAccounted'
  BY <1>1 DEF Inv, PendingAccounted, Inside
<1> QED
  BY <1>1, <1>2, <1>3, <1>4 DEF Inv

LEMMA MainPopStep ==
  ASSUME Inv, MainPop
  PROVE  Inv'
<1>1. /\ main.pc \in {"idle", "pump"} /\ commands # << >> /\ commands' = Tail(commands)
      /\ main' = [Idle EXCEPT !.pc = "run", !.cmd = Head(commands).request,
                              !.token = Head(commands).token]
      /\ UNCHANGED <<pending, responses, serving, running, net, stage, got, work, starts,
                     reader, writer, readerToken>>
  BY DEF MainPop, clients, OthersOfMain
<1>2. /\ commands \in Seq(Message) /\ AllFit(net, commands)
      /\ Len(responses) \in Nat /\ pending \in Nat
  BY QueueLength DEF Inv, TypeOK, Tags, QueuesFit
<1>3. /\ Head(commands) \in Message /\ commands' \in Seq(Message)
      /\ Len(commands) \in Nat \ {0} /\ Len(commands') = Len(commands) - 1
      /\ Fits(net, Head(commands).request, Head(commands).token)
      /\ AllFit(net, commands')
  BY <1>1, <1>2, Taken
<1>4. /\ main'.pc = "run" /\ main'.cmd \in Requests /\ Fits(net, main'.cmd, main'.token)
      /\ main' \in MainType /\ main'.again = "none"
  <2>1. main' = [pc |-> "run", cmd |-> Head(commands).request, token |-> Head(commands).token,
                 again |-> "none"]
    BY <1>1 DEF Idle
  <2>2. Head(commands).request \in Requests /\ Head(commands).token \in Nat
    BY <1>3 DEF Message
  <2> QED
    BY <1>3, <2>1, <2>2 DEF MainType, OptionalRequest
<1>5. TypeOK'
  BY <1>1, <1>3, <1>4 DEF Inv, TypeOK, MainType
<1>6. Tags' /\ Stopping' /\ AnswersOwnRequest'
  BY <1>1, <1>3, <1>4 DEF Inv, Tags, ReaderFits, WriterFits, MainFits, QueuesFit, Stopping,
                          AnswersOwnRequest
<1>7. PendingAccounted'
  BY <1>1, <1>2, <1>3, <1>4 DEF Inv, PendingAccounted, Inside
<1> QED
  BY <1>1, <1>5, <1>6, <1>7 DEF Inv

LEMMA MainRunStep ==
  ASSUME Inv, MainRun
  PROVE  Inv'
<1> DEFINE c == [request |-> main.cmd, token |-> main.token]
<1>1. /\ main.pc = "run" /\ responses' = Append(responses, c)
      /\ work' = [work EXCEPT ![main.cmd] = "done"]
      /\ main' = [Idle EXCEPT !.pc = "pump"]
      /\ UNCHANGED <<commands, pending, serving, running, net, stage, got, starts,
                     reader, writer, readerToken>>
  BY DEF MainRun, ResponseOf, clients, OthersOfMain
<1>2. /\ responses \in Seq(Message) /\ AllFit(net, responses) /\ net \in NetType
      /\ main.cmd \in Requests /\ Fits(net, main.cmd, main.token)
      /\ Len(commands) \in Nat /\ Len(responses) \in Nat /\ pending \in Nat
  BY <1>1, QueueLength DEF Inv, TypeOK, Tags, QueuesFit, MainFits, NetType
<1>3. c \in Message /\ Fits(net, c.request, c.token)
  <2>1. main.token \in Nat \ {NoToken}
    <3>1. net.next \in Nat
      BY <1>2 DEF NetType
    <3> QED
      BY <1>2, <3>1 DEF Fits, NoToken
  <2> QED
    BY <1>2, <2>1 DEF Message
<1> HIDE DEF c
<1>4. /\ responses' \in Seq(Message) /\ Len(responses') = Len(responses) + 1
      /\ AllFit(net, responses')
  BY <1>1, <1>2, <1>3, Appended
<1>5. main' \in MainType /\ main'.pc = "pump" /\ main'.again = "none"
  BY <1>1, MainAt, IdleMain
<1>6. TypeOK'
  <2>1. work' \in WorkType
    BY <1>1, <1>2 DEF Inv, TypeOK, WorkType
  <2> QED
    BY <1>1, <1>4, <1>5, <2>1 DEF Inv, TypeOK, MainType, WorkType
<1>7. Tags' /\ Stopping' /\ AnswersOwnRequest'
  BY <1>1, <1>4, <1>5 DEF Inv, Tags, ReaderFits, WriterFits, MainFits, QueuesFit, Stopping,
                          AnswersOwnRequest
<1>8. PendingAccounted'
  BY <1>1, <1>2, <1>4, <1>5 DEF Inv, PendingAccounted, Inside
<1> QED
  BY <1>1, <1>6, <1>7, <1>8 DEF Inv

LEMMA MainCallStep ==
  ASSUME Inv, NEW k \in {"none", "http", "stdio"},
         MainPumped \/ MainStop(k) \/ (k # "none" /\ MainStart(k))
  PROVE  Inv'
<1>1. /\ running \in BOOLEAN /\ starts \in 0..MaxStarts
      /\ UNCHANGED <<queues, net, clients, work, reader, writer, readerToken>>
      /\ main.pc # "run" /\ starts' = starts /\ running' \in BOOLEAN
  BY DEF Inv, TypeOK, MainPumped, MainStop, MainStart, OthersOfMain
<1>2. \/ main' = Idle
      \/ main' = [Idle EXCEPT !.pc = "close", !.again = k]
      \/ main' = [Idle EXCEPT !.pc = "start", !.again = k]
  BY DEF MainPumped, MainStop, MainStart
<1>3. /\ main' \in MainType /\ main'.pc \notin {"run", "join"} /\ Stopping'
  <2>1. CASE main' = Idle
    BY <2>1, IdleMain DEF Stopping
  <2>2. CASE main' = [Idle EXCEPT !.pc = "close", !.again = k]
    <3>1. main' \in MainType /\ main'.pc = "close" /\ main'.again = k
      BY <2>2, MainAt
    <3>2. k # "none" => starts < MaxStarts
      <4>1. ~MainPumped
        BY <3>1, IdleMain DEF MainPumped
      <4> QED
        BY <4>1 DEF MainStop, MainStart
    <3> QED
      BY <1>1, <3>1, <3>2 DEF Stopping
  <2>3. CASE main' = [Idle EXCEPT !.pc = "start", !.again = k]
    <3>1. main' \in MainType /\ main'.pc = "start" /\ main'.again = k
      BY <2>3, MainAt
    <3>2. k # "none" /\ starts < MaxStarts
      <4>1. ~MainPumped
        BY <3>1, IdleMain DEF MainPumped
      <4>2. ~MainStop(k)
        <5>1. MainStop(k) => main'.pc = "close"
          BY MainAt DEF MainStop
        <5> QED
          BY <3>1, <5>1
      <4> QED
        BY <4>1, <4>2 DEF MainStart
    <3> QED
      BY <1>1, <3>1, <3>2 DEF Stopping
  <2> QED
    BY <1>2, <2>1, <2>2, <2>3
<1> QED
  BY <1>1, <1>3, MainMoves

\* Closing, and then dropping whoever is connected or waiting to be.
LEMMA MainCloseStep ==
  ASSUME Inv, MainClose \/ MainDrop
  PROVE  Inv'
<1>1. /\ main.pc \in {"close", "drop"} /\ net \in NetType /\ Held(net)
      /\ stage \in StageType
      /\ UNCHANGED <<commands, pending, responses, serving, running, got, work, starts,
                     reader, writer, readerToken>>
  <2>1. net \in NetType /\ Held(net) /\ stage \in StageType
    BY DEF Inv, TypeOK, NetType, StageType
  <2>2. CASE MainClose
    BY <2>1, <2>2 DEF MainClose, queues, OthersOfMain, clients
  <2>3. CASE MainDrop
    BY <2>1, <2>3 DEF MainDrop, queues, OthersOfMain
  <2> QED
    BY <2>2, <2>3
<1>2. main' \in MainType /\ main'.pc \in {"drop", "quiet"} /\ main'.again = main.again
  <2>1. PICK p \in {"drop", "quiet"} : main' = [main EXCEPT !.pc = p]
    BY DEF MainClose, MainDrop
  <2>2. main \in MainType
    BY DEF Inv, TypeOK, MainType
  <2> QED
    BY <2>1, <2>2 DEF MainType
<1>3. /\ net' \in NetType /\ Held(net') /\ Ages(net, net') /\ net'.kind = net.kind
      /\ net'.client \in {None, net.client}
  <2>1. CASE MainClose
    <3>1. net \in NetType /\ net' = [net EXCEPT !.closed = TRUE]
      BY <1>1, <2>1 DEF MainClose
    <3>2. /\ net' \in NetType /\ net'.client = net.client /\ net'.token = net.token
          /\ net'.next = net.next /\ net'.kind = net.kind
      BY <3>1 DEF NetType
    <3>3. net.next \in Nat
      BY <3>1 DEF NetType
    <3> QED
      BY <1>1, <3>2, <3>3 DEF Held, Ages
  <2>2. CASE MainDrop
    <3>1. /\ Release(net) \in NetType /\ Held(Release(net)) /\ Ages(net, Release(net))
          /\ Release(net).client = None /\ Release(net).kind = net.kind
      BY <1>1, Released
    <3>2. net' = [Release(net) EXCEPT !.bound = FALSE]
      BY <2>2 DEF MainDrop
    <3>3. /\ net' \in NetType /\ net'.client = Release(net).client
          /\ net'.token = Release(net).token /\ net'.next = Release(net).next
          /\ net'.kind = Release(net).kind
      BY <3>1, <3>2 DEF NetType
    <3> QED
      BY <3>1, <3>3 DEF Held, Ages
  <2> QED
    BY <2>1, <2>2
<1>4. stage' \in StageType
  <2>1. CASE MainClose
    BY <1>1, <2>1 DEF MainClose, clients
  <2>2. CASE MainDrop
    <3>1. stage' = [r \in Requests |->
                      IF r = net.client \/ (r \in HttpRequests /\ stage[r] = "waiting")
                        THEN "dropped" ELSE stage[r]]
      BY <2>2 DEF MainDrop
    <3>2. stage \in StageType
      BY <1>1
    <3> QED
      BY <3>1, <3>2 DEF StageType
  <2> QED
    BY <2>1, <2>2
<1>5. TypeOK'
  BY <1>1, <1>2, <1>3, <1>4 DEF Inv, TypeOK, MainType, NetType, StageType
<1>6. ReaderFits'
  BY <1>1, <1>3, TagsMove DEF Inv, Tags, ReaderFits
<1>7. WriterFits' /\ MainFits' /\ QueuesFit'
  BY <1>1, <1>2, <1>3, TagsMove DEF Inv, Tags, WriterFits, MainFits, QueuesFit
<1>8. Stopping' /\ AnswersOwnRequest' /\ PendingAccounted'
  BY <1>1, <1>2 DEF Inv, Stopping, AnswersOwnRequest, PendingAccounted, Inside
<1> QED
  BY <1>3, <1>5, <1>6, <1>7, <1>8 DEF Inv, Tags

LEMMA MainQuietStep ==
  ASSUME Inv, MainQuiet
  PROVE  Inv'
<1>1. /\ main.pc = "quiet" /\ StopResponses /\ main' = [main EXCEPT !.pc = "join"]
      /\ UNCHANGED <<commands, pending, running, net, stage, got, work, starts,
                     reader, writer, readerToken>>
  BY DEF MainQuiet, clients, OthersOfMain
<1>2. main' \in MainType /\ main'.pc = "join" /\ main'.again = main.again
  BY <1>1, MainAt
<1>3. PendingAccounted' /\ responses' \in Seq(Message) /\ AllFit(net, responses')
  BY <1>1, <1>2, ResponsesStopped
<1>4. responses' = << >> /\ serving' \in BOOLEAN
  BY <1>1 DEF StopResponses
<1>5. TypeOK'
  BY <1>1, <1>2, <1>3, <1>4 DEF Inv, TypeOK, MainType
<1>6. Tags' /\ AnswersOwnRequest'
  BY <1>1, <1>2, <1>3 DEF Inv, Tags, ReaderFits, WriterFits, MainFits, QueuesFit,
                          AnswersOwnRequest
<1> QED
  BY <1>1, <1>3, <1>4, <1>5, <1>6 DEF Inv, Stopping

LEMMA Cleared ==
  ASSUME Inv, Clear
  PROVE  /\ commands' = << >> /\ commands' \in Seq(Message) /\ pending' = 0
         /\ pending' \in 0..Limit /\ work' \in WorkType
<1>1. << >> \in Seq(Message)
  OBVIOUS
<1>2. work' \in WorkType
  <2>1. work' = [r \in Requests |-> IF work[r] = "accepted" THEN "lost" ELSE work[r]]
    BY DEF Clear
  <2>2. work \in WorkType
    BY DEF Inv, TypeOK, WorkType
  <2> QED
    BY <2>1, <2>2 DEF WorkType
<1> QED
  BY <1>1, <1>2, BridgeAssumption DEF Clear

LEMMA FreshTransport ==
  /\ NoTransport \in NetType /\ Held(NoTransport) /\ NoTransport.client = None
  /\ \A k \in {"http", "stdio", "none"}, b \in BOOLEAN :
       LET x == [NoTransport EXCEPT !.kind = k, !.closed = FALSE, !.bound = b]
       IN x \in NetType /\ Held(x)
<1>1. NoTransport \in NetType
  BY DEF NoTransport, NetType, NoToken
<1>2. Held(NoTransport) /\ NoTransport.client = None
  BY DEF NoTransport, Held, NoToken
<1>3. ASSUME NEW k \in {"http", "stdio", "none"}, NEW b \in BOOLEAN, NEW x,
             x = [NoTransport EXCEPT !.kind = k, !.closed = FALSE, !.bound = b]
      PROVE  x \in NetType /\ Held(x)
  <2>1. x \in NetType
    BY <1>1, <1>3 DEF NetType
  <2>2. x.client = None /\ x.token = NoToken /\ x.next = NoToken
    BY <1>3 DEF NoTransport
  <2> QED
    BY <2>1, <2>2 DEF Held, NoToken
<1> QED
  BY <1>1, <1>2, <1>3

\* At the join and at the start nothing is under way any more.
LEMMA NothingUnderWay ==
  ASSUME commands' = << >>, responses' = << >>, pending' = 0,
         main'.pc \notin {"run", "join", "start"}, main'.again = "none",
         writer'.pc \notin {"send", "complete"},
         reader'.pc \notin {"accept", "read", "handle"}
  PROVE  Tags' /\ Stopping' /\ PendingAccounted'
<1>1. AllFit(net', commands') /\ AllFit(net', responses')
  BY NothingToFit
<1>2. Tags'
  BY <1>1 DEF Tags, ReaderFits, WriterFits, MainFits, QueuesFit
<1>3. Len(commands') = 0 /\ Len(responses') = 0
  OBVIOUS
<1>4. Inside' = 0
  BY <1>3 DEF Inside
<1> QED
  BY <1>2, <1>4 DEF Stopping, PendingAccounted

LEMMA MainJoinStep ==
  ASSUME Inv, MainJoin
  PROVE  Inv'
<1>1. /\ main.pc = "join" /\ reader.pc = "off" /\ writer.pc = "off" /\ responses = << >>
      /\ UNCHANGED <<responses, serving, running, stage, got, starts, reader, writer, readerToken>>
  BY DEF MainJoin, clients, OthersOfMain, Inv, Stopping
<1>2. CASE Clear /\ main' = Idle /\ net' = NoTransport
  <2>1. /\ main' \in MainType /\ main'.pc = "idle" /\ main'.again = "none"
        /\ net' \in NetType /\ Held(net')
    BY <1>2, IdleMain, FreshTransport
  <2>2. /\ commands' = << >> /\ commands' \in Seq(Message) /\ pending' = 0
        /\ pending' \in 0..Limit /\ work' \in WorkType
    BY <1>2, Cleared
  <2>3. TypeOK'
    BY <1>1, <2>1, <2>2 DEF Inv, TypeOK, MainType, NetType, WorkType
  <2>4. Tags' /\ Stopping' /\ PendingAccounted'
    BY <1>1, <2>1, <2>2, NothingUnderWay
  <2> QED
    BY <1>1, <2>1, <2>3, <2>4 DEF Inv, AnswersOwnRequest
<1>3. CASE /\ main.again # "none" /\ main' = [main EXCEPT !.pc = "start"]
           /\ UNCHANGED <<commands, pending, net, work>>
  <2>1. main' \in MainType /\ main'.pc = "start" /\ main'.again = main.again
    BY <1>3, MainAt
  <2>2. UNCHANGED <<queues, net, clients, work, reader, writer, readerToken>>
    BY <1>1, <1>3 DEF queues, clients
  <2>3. running' \in BOOLEAN /\ starts' \in 0..MaxStarts
    BY <1>1 DEF Inv, TypeOK
  <2>4. Stopping'
    BY <1>1, <1>3, <2>1 DEF Inv, Stopping
  <2> QED
    BY <1>1, <2>1, <2>2, <2>3, <2>4, MainMoves
<1> QED
  BY <1>2, <1>3 DEF MainJoin

LEMMA MainBeginStep ==
  ASSUME Inv, MainBegin
  PROVE  Inv'
<1>1. /\ Clear /\ responses' = << >> /\ serving' = TRUE /\ running' = TRUE
      /\ reader' = [ThreadOff EXCEPT !.pc = "top"] /\ writer' = [ThreadOff EXCEPT !.pc = "top"]
      /\ starts' = starts + 1 /\ main' = Idle
      /\ UNCHANGED <<readerToken, stage, got>>
  BY DEF MainBegin, clients
<1>2. PICK b \in BOOLEAN :
             net' = [NoTransport EXCEPT !.kind = main.again, !.closed = FALSE, !.bound = b]
  BY DEF MainBegin
<1>3. main.again \in {"none", "http", "stdio"} /\ starts < MaxStarts /\ starts \in 0..MaxStarts
  BY DEF MainBegin, Inv, Stopping, TypeOK
<1>4. net' \in NetType /\ Held(net')
  BY <1>2, <1>3, FreshTransport
<1>5. /\ reader' \in ReaderType /\ reader'.pc = "top"
      /\ writer' \in WriterType /\ writer'.pc = "top"
      /\ main' \in MainType /\ main'.pc = "idle" /\ main'.again = "none"
  BY <1>1, IdleMain DEF ThreadOff, ReaderType, WriterType, OptionalRequest, NoToken
<1>6. /\ commands' = << >> /\ commands' \in Seq(Message) /\ pending' = 0
      /\ pending' \in 0..Limit /\ work' \in WorkType
  BY <1>1, Cleared
<1>7. starts' \in 0..MaxStarts /\ responses' \in Seq(Message)
  <2>1. << >> \in Seq(Message)
    OBVIOUS
  <2> QED
    BY <1>1, <1>3, <2>1, BridgeAssumption
<1>8. TypeOK'
  BY <1>1, <1>4, <1>5, <1>6, <1>7
     DEF Inv, TypeOK, NetType, ReaderType, WriterType, MainType, WorkType
<1>9. Tags' /\ Stopping' /\ PendingAccounted'
  BY <1>1, <1>5, <1>6, NothingUnderWay
<1> QED
  BY <1>1, <1>4, <1>8, <1>9 DEF Inv, AnswersOwnRequest

LEMMA MainStep ==
  ASSUME Inv, Main
  PROVE  Inv'
<1>1. CASE MainPop \/ MainRun
  BY <1>1, MainPopStep, MainRunStep
<1>2. CASE \/ MainPumped \/ MainStop("none")
           \/ \E kind \in {"http", "stdio"} : MainStop(kind) \/ MainStart(kind)
  BY <1>2, MainCallStep
<1>3. CASE MainClose \/ MainDrop
  BY <1>3, MainCloseStep
<1>4. CASE MainQuiet \/ MainJoin \/ MainBegin
  BY <1>4, MainQuietStep, MainJoinStep, MainBeginStep
<1> QED
  BY <1>1, <1>2, <1>3, <1>4 DEF Main, MainInCall

-----------------------------------------------------------------------------
(* The theorems.                                                             *)

LEMMA Initially == Init => Inv
<1> SUFFICES ASSUME Init PROVE Inv
  OBVIOUS
<1>1. << >> \in Seq(Message)
  OBVIOUS
<1>2. /\ Idle \in MainType /\ Idle.pc = "idle" /\ Idle.again = "none"
      /\ NoTransport \in NetType /\ Held(NoTransport)
  BY IdleMain, FreshTransport
<1>3. ThreadOff \in ReaderType /\ ThreadOff \in WriterType /\ ThreadOff.pc = "off"
  BY DEF ThreadOff, ReaderType, WriterType, OptionalRequest, NoToken
<1>4. TypeOK
  <2>1. commands \in Seq(Message) /\ responses \in Seq(Message) /\ serving \in BOOLEAN
        /\ running \in BOOLEAN
    BY <1>1 DEF Init
  <2>2. pending \in 0..Limit /\ readerToken \in Nat /\ starts \in 0..MaxStarts
    BY BridgeAssumption DEF Init, NoToken
  <2>3. net \in NetType /\ main \in MainType /\ reader \in ReaderType /\ writer \in WriterType
    BY <1>2, <1>3 DEF Init
  <2>4. stage \in StageType /\ got \in GotType /\ work \in WorkType
    BY DEF Init, StageType, GotType, WorkType, OptionalRequest
  <2> QED
    BY <2>1, <2>2, <2>3, <2>4
       DEF TypeOK, MainType, NetType, ReaderType, WriterType, StageType, GotType, WorkType
<1>5. Tags
  <2>1. AllFit(net, << >>)
    BY NothingToFit
  <2> QED
    BY <1>2, <1>3, <2>1 DEF Init, Tags, ReaderFits, WriterFits, MainFits, QueuesFit
<1>6. Stopping /\ AnswersOwnRequest
  BY <1>2 DEF Init, Stopping, AnswersOwnRequest
<1>7. PendingAccounted
  <2>1. Len(commands) = 0 /\ Len(responses) = 0
    BY DEF Init
  <2> QED
    BY <1>2, <1>3, <2>1 DEF Init, PendingAccounted, Inside
<1> QED
  BY <1>2, <1>4, <1>5, <1>6, <1>7 DEF Init, Inv

LEMMA InvHolds == Spec => []Inv
<1>1. Inv /\ [Next]_vars => Inv'
  <2> SUFFICES ASSUME Inv, [Next]_vars
               PROVE  Inv'
    OBVIOUS
  <2>1. CASE \E r \in Requests : Ask(r)
    BY <2>1, AskStep
  <2>2. CASE Reader
    BY <2>2, ReaderStep
  <2>3. CASE Writer
    BY <2>3, WriterStep
  <2>4. CASE Main
    BY <2>4, MainStep
  <2>5. CASE UNCHANGED vars
    BY <2>5 DEF Inv, TypeOK, Tags, ReaderFits, WriterFits, MainFits, QueuesFit, Stopping,
                AnswersOwnRequest, PendingAccounted, Inside, vars, queues, clients
  <2> QED
    BY <2>1, <2>2, <2>3, <2>4, <2>5 DEF Next
<1> QED
  BY <1>1, Initially, PTL DEF Spec

\* The state has its type: a message never travels without a token, and m_pending
\* never goes above the limit.
THEOREM TypeCorrect == Spec => []TypeOK
<1>1. Inv => TypeOK
  BY DEF Inv
<1> QED
  BY <1>1, InvHolds, PTL

\* No client receives the answer to another one's request, across stalls, late
\* answers, reused connections and restarts of the server.
THEOREM EveryoneGetsTheirOwn == Spec => []AnswersOwnRequest
<1>1. Inv => AnswersOwnRequest
  BY DEF Inv
<1> QED
  BY <1>1, InvHolds, PTL

\* m_pending counts what is in the two queues and between them.
THEOREM PendingIsAccounted == Spec => []PendingAccounted
<1>1. Inv => PendingAccounted
  BY DEF Inv
<1> QED
  BY <1>1, InvHolds, PTL

-----------------------------------------------------------------------------
(* The promise of RequestReply.  Each request is in one place only, and what  *)
(* became of its tool says in which.                                         *)

Queued(q) == {q[i].request : i \in 1..Len(q)}
Distinct(q) == \A i, j \in 1..Len(q) : q[i].request = q[j].request => i = j
Reading == IF reader.pc \in {"read", "handle"} THEN {reader.request} ELSE {}
Executing == IF main.pc = "run" THEN {main.cmd} ELSE {}
Sending == IF writer.pc = "send" THEN {writer.request} ELSE {}

\* The tools accepted are those queued and the one that runs, each there once; a
\* result is of a tool that has run, and the reader's request has had none.
Books ==
  /\ Distinct(commands) /\ Queued(commands) \cap Executing = {}
  /\ Distinct(responses) /\ Queued(responses) \cap Sending = {}
  /\ Promise!Due = Queued(commands) \cup Executing
  /\ \A r \in Queued(responses) \cup Sending : work[r] = "done"
  /\ \A r \in Reading : work[r] = "none"

\* What the clients see meanwhile: whoever is connected still waits, and over
\* stdio so does everyone whose request is under way.
Views ==
  /\ \A r \in Reading : stage[r] \in {"open", "dropped"}
  /\ \A r \in Requests : stage[r] \in {"idle", "waiting"} => work[r] = "none"
  /\ net.client # None => stage[net.client] = "open"
  /\ net.kind # "http" =>
       \A r \in Reading \cup Promise!Due \cup Queued(responses) \cup Sending : stage[r] = "open"

Kept == Inv /\ Books /\ Views

View == [r \in Requests |-> Seen(r)]
Step == [Promise!Next]_<<View, work>>

LEMMA QueuedAppend ==
  ASSUME NEW q \in Seq(Message), NEW c \in Message
  PROVE  /\ Queued(Append(q, c)) = Queued(q) \cup {c.request}
         /\ Distinct(q) /\ c.request \notin Queued(q) => Distinct(Append(q, c))
<1> DEFINE a == Append(q, c)
<1>1. /\ Len(a) = Len(q) + 1 /\ a[Len(q) + 1] = c /\ Len(q) \in Nat
      /\ \A i \in 1..Len(q) : a[i] = q[i]
  BY AppendProperties, QueueLength
<1> HIDE DEF a
<1>2. 1..Len(a) = 1..Len(q) \cup {Len(q) + 1} /\ Len(q) + 1 \notin 1..Len(q)
  BY <1>1
<1>3. Queued(a) = Queued(q) \cup {c.request}
  BY <1>1, <1>2 DEF Queued
<1>4. ASSUME Distinct(q), c.request \notin Queued(q)
      PROVE  Distinct(a)
  <2> SUFFICES ASSUME NEW i \in 1..Len(a), NEW j \in 1..Len(a), a[i].request = a[j].request
               PROVE  i = j
    BY DEF Distinct
  <2>1. CASE i \in 1..Len(q) /\ j \in 1..Len(q)
    BY <1>1, <1>4, <2>1 DEF Distinct
  <2>2. CASE i = Len(q) + 1 /\ j \in 1..Len(q)
    BY <1>1, <1>4, <2>2 DEF Queued
  <2>3. CASE j = Len(q) + 1 /\ i \in 1..Len(q)
    BY <1>1, <1>4, <2>3 DEF Queued
  <2> QED
    BY <1>2, <2>1, <2>2, <2>3
<1> QED
  BY <1>3, <1>4 DEF a

LEMMA QueuedTaken ==
  ASSUME NEW q \in Seq(Message), q # << >>
  PROVE  /\ Queued(q) = {Head(q).request} \cup Queued(Tail(q))
         /\ Distinct(q) => Distinct(Tail(q)) /\ Head(q).request \notin Queued(Tail(q))
<1> DEFINE t == Tail(q)
<1>1. /\ Len(q) \in Nat \ {0} /\ Len(t) = Len(q) - 1 /\ Head(q) = q[1]
      /\ \A i \in 1..Len(t) : t[i] = q[i + 1]
  BY HeadTailProperties, QueueLength
<1> HIDE DEF t
<1>2. /\ 1 \in 1..Len(q)
      /\ \A i \in 1..Len(t) : i + 1 \in 1..Len(q) /\ i + 1 # 1
      /\ \A i \in 1..Len(q) : i # 1 => i - 1 \in 1..Len(t) /\ (i - 1) + 1 = i
  BY <1>1
<1>3. Queued(q) \subseteq {Head(q).request} \cup Queued(t)
  <2> SUFFICES ASSUME NEW i \in 1..Len(q), i # 1
               PROVE  q[i].request \in Queued(t)
    BY <1>1 DEF Queued
  <2>1. i - 1 \in 1..Len(t) /\ t[i - 1] = q[i]
    BY <1>1, <1>2
  <2> QED
    BY <2>1 DEF Queued
<1>4. {Head(q).request} \cup Queued(t) \subseteq Queued(q)
  BY <1>1, <1>2 DEF Queued
<1>5. ASSUME Distinct(q)
      PROVE  Distinct(t) /\ Head(q).request \notin Queued(t)
  <2>1. ASSUME NEW i \in 1..Len(t), NEW j \in 1..Len(t), t[i].request = t[j].request
        PROVE  i = j
    <3>1. i + 1 \in 1..Len(q) /\ j + 1 \in 1..Len(q) /\ q[i + 1].request = q[j + 1].request
      BY <1>1, <1>2, <2>1
    <3>2. i + 1 = j + 1
      BY <1>5, <3>1 DEF Distinct
    <3> QED
      BY <3>2
  <2>2. ASSUME NEW i \in 1..Len(t), t[i].request = Head(q).request
        PROVE  FALSE
    <3>1. i + 1 \in 1..Len(q) /\ q[i + 1].request = q[1].request
      BY <1>1, <1>2, <2>2
    <3>2. i + 1 = 1
      BY <1>2, <1>5, <3>1 DEF Distinct
    <3> QED
      BY <1>2, <3>2
  <2> QED
    BY <2>1, <2>2 DEF Distinct, Queued
<1> QED
  BY <1>3, <1>4, <1>5 DEF t

LEMMA QueuedNothing == Queued(<< >>) = {} /\ Distinct(<< >>)
  BY DEF Queued, Distinct

\* No more requests are queued than the queue is long.
LEMMA QueuedBound ==
  ASSUME NEW q \in Seq(Message)
  PROVE  /\ IsFiniteSet(Queued(q)) /\ Cardinality(Queued(q)) \in Nat
         /\ Cardinality(Queued(q)) <= Len(q)
<1> DEFINE f == [i \in 1..Len(q) |-> q[i].request]
<1>1. Len(q) \in Nat
  BY QueueLength
<1>2. f \in Surjection(1..Len(q), Queued(q))
  BY DEF Surjection, Queued
<1>3. IsFiniteSet(1..Len(q)) /\ Cardinality(1..Len(q)) = Len(q)
  BY <1>1, FS_Interval
<1>4. IsFiniteSet(Queued(q)) /\ Cardinality(Queued(q)) <= Cardinality(1..Len(q))
  BY <1>2, <1>3, FS_Surjection
<1> QED
  BY <1>3, <1>4, FS_CardinalityType

-----------------------------------------------------------------------------
(* What its clients and tools may do, as the promise sees it.                *)

LEMMA SameView ==
  ASSUME UNCHANGED <<clients, work>>
  PROVE  UNCHANGED <<View, work>> /\ Promise!Due' = Promise!Due
  BY DEF View, Seen, clients, Promise!Due

LEMMA AnswerSeen ==
  ASSUME Inv, NEW r \in Requests, stage[r] = "open", work[r] # "accepted",
         stage' = [stage EXCEPT ![r] = "answered"], got' = [got EXCEPT ![r] = r],
         UNCHANGED work
  PROVE  Step
<1>1. stage \in StageType /\ got \in GotType
  BY DEF Inv, TypeOK, StageType, GotType
<1>2. /\ stage'[r] = "answered" /\ got'[r] = r
      /\ \A q \in Requests \ {r} : stage'[q] = stage[q] /\ got'[q] = got[q]
  BY <1>1 DEF StageType, GotType
<1>3. View[r] = "asked" /\ View'[r] = "answered"
  BY <1>2 DEF View, Seen
<1>4. \A q \in Requests \ {r} : View'[q] = View[q]
  BY <1>2 DEF View, Seen
<1>5. View' = [View EXCEPT ![r] = "answered"]
  BY <1>3, <1>4 DEF View
<1>6. Promise!Answer(r)
  BY <1>3, <1>5 DEF Promise!Answer, View
<1> QED
  BY <1>6 DEF Step, Promise!Next

LEMMA DropSeen ==
  ASSUME Inv, NEW S \in SUBSET Requests, \A r \in S : stage[r] \in {"waiting", "open"},
         stage' = [r \in Requests |-> IF r \in S THEN "dropped" ELSE stage[r]],
         UNCHANGED <<got, work>>
  PROVE  Step
<1>1. \A r \in S : View[r] = "asked" /\ View'[r] = "dropped"
  BY DEF View, Seen
<1>2. \A r \in Requests \ S : View'[r] = View[r]
  BY DEF View, Seen
<1>3. View' = [r \in Requests |-> IF r \in S THEN "dropped" ELSE View[r]]
  BY <1>1, <1>2 DEF View
<1>4. Promise!GiveUp(S)
  BY <1>1, <1>3 DEF Promise!GiveUp, View
<1> QED
  BY <1>4 DEF Step, Promise!Next

\* Being accepted makes no difference to a client that waits.
LEMMA OpenSeen ==
  ASSUME Inv, NEW r \in Requests, stage[r] = "waiting", stage' = [stage EXCEPT ![r] = "open"],
         UNCHANGED <<got, work>>
  PROVE  Step
<1>1. stage \in StageType
  BY DEF Inv, TypeOK, StageType
<1>2. stage'[r] = "open" /\ \A q \in Requests \ {r} : stage'[q] = stage[q]
  BY <1>1 DEF StageType
<1>3. \A q \in Requests : View'[q] = View[q]
  BY <1>2 DEF View, Seen
<1>4. View' = View
  BY <1>3 DEF View
<1> QED
  BY <1>4 DEF Step

LEMMA SameCount == ASSUME NEW S PROVE Promise!Cardinality(S) = Cardinality(S)
  BY DEF Promise!Cardinality, Cardinality

\* A tool is accepted while fewer are due than the limit: m_pending counts more.
LEMMA AcceptSeen ==
  ASSUME Kept, NEW r \in Reading, pending < Limit,
         work' = [work EXCEPT ![r] = "accepted"], UNCHANGED clients
  PROVE  Step
<1>1. commands \in Seq(Message) /\ responses \in Seq(Message) /\ pending \in Nat /\ Limit \in Nat
  BY BridgeAssumption DEF Kept, Inv, TypeOK
<1>2. PICK n \in Nat : n = Cardinality(Queued(commands)) /\ n <= Len(commands)
  BY <1>1, QueuedBound
<1>3. IsFiniteSet(Queued(commands)) /\ Len(commands) \in Nat /\ Len(responses) \in Nat
  BY <1>1, QueuedBound, QueueLength
<1>4. Cardinality(Promise!Due) < Limit
  <2>1. Inside < Limit
    BY <1>1, <1>3 DEF Kept, Inv, PendingAccounted, Inside
  <2>2. CASE main.pc = "run"
    <3>1. Promise!Due = Queued(commands) \cup {main.cmd}
      BY <2>2 DEF Kept, Books, Executing
    <3>2. Cardinality(Promise!Due) \in Nat /\ Cardinality(Promise!Due) <= n + 1
      <4>1. \/ Cardinality(Promise!Due) = n
            \/ Cardinality(Promise!Due) = n + 1
        BY <1>2, <1>3, <3>1, FS_AddElement, Zenon
      <4> QED
        BY <1>2, <4>1
    <3>3. n + 1 <= Inside
      BY <1>2, <1>3, <2>2 DEF Inside
    <3> QED
      BY <1>1, <1>2, <2>1, <3>2, <3>3, <1>3 DEF Inside
  <2>3. CASE main.pc # "run"
    <3>1. Promise!Due = Queued(commands)
      BY <2>3 DEF Kept, Books, Executing
    <3>2. n <= Inside
      BY <1>2, <1>3, <2>3 DEF Inside
    <3> QED
      BY <1>1, <1>2, <1>3, <2>1, <3>1, <3>2 DEF Inside
  <2> QED
    BY <2>2, <2>3
<1>5. r \in Requests /\ work[r] = "none" /\ stage[r] \in {"open", "dropped"}
  BY DEF Kept, Inv, Tags, ReaderFits, Books, Views, Reading
<1>6. View[r] \in {"asked", "dropped"} /\ View' = View
  BY <1>5, SameView DEF View, Seen, clients
<1>7. Promise!Accept(r)
  <2>1. Seen(r) \in {"asked", "dropped"}
    BY <1>5, <1>6 DEF View
  <2> QED
    BY <1>4, <1>5, <1>6, <2>1, SameCount DEF Promise!Accept, View
<1> QED
  BY <1>5, <1>7 DEF Step, Promise!Next

LEMMA PerformSeen ==
  ASSUME Kept, NEW r \in Executing, work' = [work EXCEPT ![r] = "done"], UNCHANGED clients
  PROVE  Step
<1>1. r \in Requests /\ work[r] = "accepted"
  BY DEF Kept, Books, Promise!Due
<1>2. View' = View
  BY DEF View, Seen, clients
<1>3. Promise!Perform(r)
  BY <1>1, <1>2 DEF Promise!Perform, View
<1> QED
  BY <1>1, <1>3 DEF Step, Promise!Next

LEMMA ClearSeen ==
  ASSUME Clear, UNCHANGED clients
  PROVE  Step
<1>1. View' = View
  BY DEF View, Seen, clients
<1>2. Promise!Forget
  BY <1>1 DEF Clear, Promise!Forget, View
<1> QED
  BY <1>2 DEF Step, Promise!Next

-----------------------------------------------------------------------------
(* Each step keeps the books and the promise.                                *)

LEMMA UnderWay ==
  ASSUME Inv
  PROVE  /\ Reading \subseteq Requests
         /\ Reading \cup Promise!Due \cup Queued(responses) \cup Sending \subseteq Requests
<1>1. responses \in Seq(Message)
  BY DEF Inv, TypeOK
<1>2. Queued(responses) \subseteq Requests
  BY <1>1, QueueLength DEF Queued, Message
<1> QED
  BY <1>2 DEF Inv, Tags, ReaderFits, WriterFits, Reading, Sending, Promise!Due

\* Steps that leave the clients and the tools alone and put nothing anywhere new.
LEMMA NothingNew ==
  ASSUME Kept, UNCHANGED <<commands, clients, work>>, responses' \in {responses, << >>},
         Executing' = Executing, Reading' \subseteq Reading, Sending' \subseteq Sending,
         net'.kind = net.kind, net'.client = net.client
  PROVE  Books' /\ Views' /\ Step
<1>1. UNCHANGED <<View, work>> /\ Promise!Due' = Promise!Due /\ UNCHANGED stage
  BY SameView DEF clients
<1>2. Distinct(responses') /\ Queued(responses') \subseteq Queued(responses)
  BY QueuedNothing DEF Kept, Books
<1>3. Books'
  BY <1>1, <1>2 DEF Kept, Books
<1>4. Views'
  BY <1>1, <1>2 DEF Kept, Views
<1> QED
  BY <1>1, <1>3, <1>4 DEF Step

LEMMA ReaderRests ==
  ASSUME Kept,
         ReaderTop \/ ReaderFree \/ ReaderPost \/ ReaderHandled \/ ReaderFails \/ ReaderQuits
  PROVE  Books' /\ Views' /\ Step
<1>1. /\ UNCHANGED <<commands, clients, work, net, writer, main>>
      /\ responses' \in {responses, << >>}
  BY DEF ReaderTop, ReaderFree, ReaderPost, ReaderHandled, ReaderFails, ReaderQuits,
         OthersOfReader, queues, StopResponses
<1>2. Executing' = Executing /\ Sending' = Sending
  BY <1>1 DEF Executing, Sending
<1>3. Reading' \subseteq Reading
  <2>1. reader \in ReaderType
    BY DEF Kept, Inv, TypeOK, ReaderType
  <2>2. CASE ReaderPost
    <3>1. /\ reader.pc = "read"
          /\ reader'.request = reader.request \/ reader'.pc = "recv"
      BY <2>1, <2>2, ReaderElsewhere DEF ReaderPost, ReaderType, Kept
    <3> QED
      BY <3>1 DEF Reading
  <2>3. CASE ReaderTop \/ ReaderFree \/ ReaderHandled \/ ReaderFails \/ ReaderQuits
    <3>1. reader'.pc \in {"recv", "off", "accept", "top", "failed"}
      <4>1. CASE ReaderTop
        BY <2>1, <4>1 DEF ReaderTop, ReaderType
      <4>2. CASE ReaderFree
        BY <2>1, <4>2 DEF ReaderFree, ReaderType
      <4>3. CASE ReaderHandled \/ ReaderFails \/ ReaderQuits
        BY <4>3 DEF ReaderHandled, ReaderFails, ReaderQuits, ThreadOff
      <4> QED
        BY <2>3, <4>1, <4>2, <4>3
    <3> QED
      BY <3>1 DEF Reading
  <2> QED
    BY <2>2, <2>3
<1> QED
  BY <1>1, <1>2, <1>3, NothingNew

LEMMA WriterRests ==
  ASSUME Kept, WriterTop \/ WriterComplete
  PROVE  Books' /\ Views' /\ Step
<1>1. UNCHANGED <<commands, responses, clients, work, net, reader, main>>
  BY DEF WriterTop, WriterComplete, OthersOfWriter
<1>2. Executing' = Executing /\ Reading' = Reading
  BY <1>1 DEF Executing, Reading
<1>3. Sending' = {}
  <2>1. writer \in WriterType
    BY DEF Kept, Inv, TypeOK, WriterType
  <2>2. writer'.pc \in {"top", "wait", "off"}
    BY <2>1 DEF WriterTop, WriterComplete, ThreadOff, WriterType
  <2> QED
    BY <2>2 DEF Sending
<1> QED
  BY <1>1, <1>2, <1>3, NothingNew

LEMMA MainRests ==
  ASSUME Kept, NEW k \in {"none", "http", "stdio"},
         \/ MainPumped \/ MainStop(k) \/ MainStart(k) \/ MainClose \/ MainQuiet
         \/ MainJoin /\ main.again # "none"
  PROVE  Books' /\ Views' /\ Step
<1>1. /\ UNCHANGED <<commands, clients, work, reader, writer>>
      /\ responses' \in {responses, << >>} /\ main.pc # "run"
  BY DEF MainPumped, MainStop, MainStart, MainClose, MainQuiet, MainJoin, OthersOfMain,
         queues, StopResponses
<1>2. net'.kind = net.kind /\ net'.client = net.client
  <2>1. net \in NetType
    BY NetInvariant DEF Kept, Inv
  <2>2. net' = net \/ net' = [net EXCEPT !.closed = TRUE]
    BY DEF MainPumped, MainStop, MainStart, MainClose, MainQuiet, MainJoin
  <2> QED
    BY <2>1, <2>2 DEF NetType
<1>3. main'.pc # "run"
  <2>1. main \in MainType
    BY DEF Kept, Inv, TypeOK, MainType
  <2>2. \/ main' = Idle
        \/ \E p \in {"close", "start"} : main' = [Idle EXCEPT !.pc = p, !.again = k]
        \/ \E p \in {"drop", "quiet", "join", "start"} : main' = [main EXCEPT !.pc = p]
    BY DEF MainPumped, MainStop, MainStart, MainClose, MainQuiet, MainJoin
  <2>3. CASE main' = Idle
    BY <2>3, IdleMain
  <2>4. ASSUME NEW p \in {"close", "start"}, main' = [Idle EXCEPT !.pc = p, !.again = k]
        PROVE  main'.pc # "run"
    BY <2>4, MainAt DEF Kept
  <2>5. ASSUME NEW p \in {"drop", "quiet", "join", "start"}, main' = [main EXCEPT !.pc = p]
        PROVE  main'.pc # "run"
    BY <2>1, <2>5 DEF MainType
  <2> QED
    BY <2>2, <2>3, <2>4, <2>5
<1>4. Executing' = Executing /\ Reading' = Reading /\ Sending' = Sending
  BY <1>1, <1>3 DEF Executing, Reading, Sending
<1> QED
  BY <1>1, <1>2, <1>4, NothingNew

LEMMA AskKept ==
  ASSUME Kept, NEW r \in Requests, Ask(r)
  PROVE  Books' /\ Views' /\ Step
<1>1. /\ stage[r] = "idle" /\ stage' = [stage EXCEPT ![r] = "waiting"] /\ stage \in StageType
      /\ UNCHANGED <<commands, responses, net, reader, writer, main, got, work>>
  BY DEF Ask, queues, Kept, Inv, TypeOK, StageType
<1>2. stage'[r] = "waiting" /\ \A q \in Requests \ {r} : stage'[q] = stage[q]
  BY <1>1 DEF StageType
<1>3. /\ Reading' = Reading /\ Executing' = Executing /\ Sending' = Sending
      /\ Promise!Due' = Promise!Due
  BY <1>1 DEF Reading, Executing, Sending, Promise!Due
<1>4. Books'
  BY <1>1, <1>3 DEF Kept, Books
<1>5. Views'
  <2>1. /\ r \notin Reading /\ r # net.client
        /\ net.kind # "http" =>
             r \notin Reading \cup Promise!Due \cup Queued(responses) \cup Sending
    <3>1. stage[r] = "idle"
      BY <1>1
    <3> QED
      BY <3>1, BridgeAssumption DEF Kept, Views
  <2>2. /\ net.client \in Requests \cup {None} /\ Reading \subseteq Requests
        /\ Reading \cup Promise!Due \cup Queued(responses) \cup Sending \subseteq Requests
    BY UnderWay DEF Kept, Inv, TypeOK, Requests
  <2> QED
    BY <1>1, <1>2, <1>3, <2>1, <2>2 DEF Kept, Views
<1>6. View[r] = "idle" /\ View' = [View EXCEPT ![r] = "asked"]
  <2>1. View[r] = "idle" /\ View'[r] = "asked"
    BY <1>1, <1>2 DEF View, Seen
  <2>2. \A q \in Requests \ {r} : View'[q] = View[q]
    BY <1>1, <1>2 DEF View, Seen
  <2> QED
    BY <2>1, <2>2 DEF View
<1>7. Promise!Ask(r)
  BY <1>1, <1>6 DEF Promise!Ask, View
<1> QED
  BY <1>4, <1>5, <1>7 DEF Step, Promise!Next

\* The connection held goes, if there is one.
LEMMA DropKept ==
  ASSUME Kept, net.kind = "http", net' = Release(net), stage' = EndClient("dropped"),
         UNCHANGED <<commands, responses, work, got>>, Executing' = Executing,
         Reading' \subseteq Reading, Sending' \subseteq Sending
  PROVE  Books' /\ Views' /\ Step
<1>1. net \in NetType /\ Held(net) /\ stage \in StageType /\ net.client \in Requests \cup {None}
  BY NetInvariant DEF Kept, Inv, TypeOK, StageType, Requests
<1>2. net'.client = None /\ net'.kind = "http" /\ Promise!Due' = Promise!Due
  BY <1>1, Released DEF Promise!Due
<1>3. Books'
  BY <1>2 DEF Kept, Books
<1>4. CASE net.client = None
  <2>1. UNCHANGED <<stage, got, work>>
    BY <1>4 DEF EndClient
  <2>2. Views'
    BY <1>2, <2>1 DEF Kept, Views
  <2> QED
    BY <1>3, <2>1, <2>2, SameView DEF Step, clients
<1>5. CASE net.client # None
  <2>1. PICK c \in Requests : c = net.client
    BY <1>1, <1>5
  <2>2. stage[c] = "open" /\ stage' = [stage EXCEPT ![c] = "dropped"]
    BY <1>5, <2>1 DEF Kept, Views, EndClient
  <2>3. stage'[c] = "dropped" /\ \A q \in Requests \ {c} : stage'[q] = stage[q]
    BY <1>1, <2>2 DEF StageType
  <2>4. stage' = [q \in Requests |-> IF q \in {c} THEN "dropped" ELSE stage[q]]
    BY <1>1, <2>2 DEF StageType
  <2>5. Reading \subseteq Requests
    BY DEF Kept, Inv, Tags, ReaderFits, Reading
  <2>6. Views'
    BY <1>2, <2>3, <2>5 DEF Kept, Views
  <2>7. Step
    BY <2>2, <2>4, DropSeen DEF Kept
  <2> QED
    BY <1>3, <2>6, <2>7
<1> QED
  BY <1>4, <1>5

\* A response leaves the hands of the reader or the writer.
LEMMA SendKept ==
  ASSUME Kept, NEW r \in Reading \cup Sending, NEW t, Send(r, t) \/ Lose(t),
         net.kind = "http" /\ Matches(t) => r = net.client,
         UNCHANGED <<commands, responses, work>>, Executing' = Executing,
         Reading' \subseteq Reading \ {r}, Sending' \subseteq Sending \ {r}
  PROVE  Books' /\ Views' /\ Step
<1>1. net \in NetType /\ Held(net) /\ stage \in StageType /\ got \in GotType
  BY NetInvariant DEF Kept, Inv, TypeOK, StageType, GotType
<1>2. CASE UNCHANGED <<net, stage, got>>
  BY <1>2, NothingNew DEF clients
<1>3. CASE net.kind = "http" /\ net' = Release(net) /\ stage' = EndClient("dropped") /\ UNCHANGED got
  BY <1>3, DropKept
<1>4. CASE Deliver(r, t)
  <2>1. /\ r \in Requests /\ work[r] \in {"none", "done"} /\ r \notin Queued(responses)
        /\ Reading \subseteq Requests /\ Promise!Due' = Promise!Due
    <3>1. r \in Requests /\ Reading \subseteq Requests
      BY UnderWay DEF Kept
    <3>2. CASE r \in Reading
      BY <3>1, <3>2 DEF Kept, Books, Promise!Due
    <3>3. CASE r \in Sending
      BY <3>1, <3>3 DEF Kept, Books, Promise!Due
    <3> QED
      BY <3>2, <3>3
  <2>2. /\ stage[r] = "open" /\ net'.client = None /\ net'.kind = net.kind
        /\ stage' = [stage EXCEPT ![r] = "answered"] /\ got' = [got EXCEPT ![r] = r]
    <3>1. CASE net.kind = "http"
      <4>1. Matches(t) /\ net' = Release(net) /\ r = net.client
        BY <1>4, <3>1 DEF Deliver
      <4>2. net.client # None
        BY <4>1 DEF Matches
      <4>3. /\ stage' = [stage EXCEPT ![r] = "answered"] /\ got' = [got EXCEPT ![r] = r]
        BY <1>4, <3>1, <4>1, <4>2 DEF Deliver, EndClient
      <4>4. stage[r] = "open"
        BY <4>1, <4>2 DEF Kept, Views
      <4> QED
        BY <1>1, <4>1, <4>3, <4>4, Released
    <3>2. CASE net.kind # "http"
      <4>1. /\ UNCHANGED net /\ stage' = [stage EXCEPT ![r] = "answered"]
            /\ got' = [got EXCEPT ![r] = r]
        BY <1>4, <3>2 DEF Deliver
      <4>2. stage[r] = "open"
        BY <3>2 DEF Kept, Views
      <4> QED
        BY <1>1, <3>2, <4>1, <4>2 DEF Held
    <3> QED
      BY <3>1, <3>2
  <2>3. stage'[r] = "answered" /\ \A q \in Requests \ {r} : stage'[q] = stage[q]
    BY <1>1, <2>1, <2>2 DEF StageType
  <2>4. Books'
    BY <2>1 DEF Kept, Books
  <2>5. r \notin Promise!Due /\ r \notin Reading' /\ r \notin Sending'
    BY <2>1 DEF Promise!Due
  <2>6. Reading \cup Promise!Due \cup Queued(responses) \cup Sending \subseteq Requests
    BY UnderWay DEF Kept
  <2>7. Views'
    BY <2>1, <2>2, <2>3, <2>5, <2>6 DEF Kept, Views
  <2>8. Step
    BY <2>1, <2>2, AnswerSeen DEF Kept
  <2> QED
    BY <2>4, <2>7, <2>8
<1> QED
  BY <1>2, <1>3, <1>4 DEF Send, Lose, Discard, clients

LEMMA ReaderStallKept ==
  ASSUME Kept, ReaderStall
  PROVE  Books' /\ Views' /\ Step
<1>1. /\ net.kind = "http" /\ net' = Release(net) /\ stage' = EndClient("dropped")
      /\ UNCHANGED <<commands, responses, work, got, reader, writer, main>>
  BY DEF ReaderStall, OthersOfReader, queues
<1>2. Executing' = Executing /\ Reading' = Reading /\ Sending' = Sending
  BY <1>1 DEF Executing, Reading, Sending
<1> QED
  BY <1>1, <1>2, DropKept

\* A client is let in, or a line is read: the reader has it and nothing else does.
LEMMA ReaderTakes ==
  ASSUME Kept, NEW r \in Requests, stage[r] = "waiting", stage' = [stage EXCEPT ![r] = "open"],
         Reading' = {r}, net'.client \in {net.client, r}, net'.kind = net.kind,
         UNCHANGED <<commands, responses, work, got, writer, main>>
  PROVE  Books' /\ Views' /\ Step
<1>1. /\ Executing' = Executing /\ Sending' = Sending /\ Promise!Due' = Promise!Due
      /\ work[r] = "none"
  BY DEF Executing, Sending, Promise!Due, Kept, Views
<1>2. stage'[r] = "open" /\ \A q \in Requests \ {r} : stage'[q] = stage[q]
  <2>1. stage \in StageType
    BY DEF Kept, Inv, TypeOK, StageType
  <2> QED
    BY <2>1 DEF StageType
<1>3. Books'
  BY <1>1 DEF Kept, Books
<1>4. Views'
  <2>1. net.client \in Requests \cup {None}
    BY DEF Kept, Inv, TypeOK, Requests
  <2>2. \A q \in Requests : stage[q] = "open" => stage'[q] = "open"
    BY <1>2
  <2>3. \A q \in Requests : stage'[q] \in {"idle", "waiting"} => stage[q] \in {"idle", "waiting"}
    BY <1>2
  <2> QED
    BY <1>1, <1>2, <2>1, <2>2, <2>3, UnderWay DEF Kept, Views
<1> QED
  BY <1>3, <1>4, OpenSeen DEF Kept

LEMMA ReaderTakesKept ==
  ASSUME Kept, ReaderAccept \/ ReaderLine
  PROVE  Books' /\ Views' /\ Step
<1>1. /\ UNCHANGED <<commands, responses, work, got, writer, main>>
      /\ net \in NetType
  BY NetInvariant DEF ReaderAccept, ReaderLine, OthersOfReader, queues, Kept, Inv
<1>2. CASE ReaderAccept
  <2>1. PICK r \in HttpRequests :
               /\ stage[r] = "waiting" /\ stage' = [stage EXCEPT ![r] = "open"]
               /\ net' = [net EXCEPT !.client = r, !.token = net.next + 1, !.next = @ + 1]
               /\ reader' = [pc |-> "read", request |-> r, token |-> net.next + 1]
    BY <1>2 DEF ReaderAccept
  <2>2. net'.client = r /\ net'.kind = net.kind
    BY <1>1, <2>1 DEF NetType
  <2>3. Reading' = {r} /\ r \in Requests
    BY <2>1 DEF Reading, Requests
  <2> QED
    BY <1>1, <2>1, <2>2, <2>3, ReaderTakes
<1>3. CASE ReaderLine
  <2>1. PICK r \in StdioRequests :
               /\ stage[r] = "waiting" /\ stage' = [stage EXCEPT ![r] = "open"]
               /\ net' = [net EXCEPT !.next = @ + 1]
               /\ reader' = [pc |-> "handle", request |-> r, token |-> net.next + 1]
    BY <1>3 DEF ReaderLine
  <2>2. net'.client = net.client /\ net'.kind = net.kind
    BY <1>1, <2>1 DEF NetType
  <2>3. Reading' = {r} /\ r \in Requests
    BY <2>1 DEF Reading, Requests
  <2> QED
    BY <1>1, <2>1, <2>2, <2>3, ReaderTakes
<1> QED
  BY <1>2, <1>3

LEMMA ReaderSendsKept ==
  ASSUME Kept, \/ ReaderReject \/ ReaderReply
               \/ ReaderCall /\ pending >= Limit
  PROVE  Books' /\ Views' /\ Step
<1>1. /\ reader.pc \in {"read", "handle"}
      /\ UNCHANGED <<commands, responses, work, writer, main>>
  BY DEF ReaderReject, ReaderReply, ReaderCall, OthersOfReader, queues
<1>2. PICK t \in Nat : Send(reader.request, t)
  <2>1. readerToken \in Nat /\ NoToken \in Nat
    BY DEF Kept, Inv, TypeOK, NoToken
  <2> QED
    BY <2>1 DEF ReaderReject, ReaderReply, ReaderCall, SendResponse
<1>3. reader'.pc \in {"recv", "top", "handled"}
  BY Handled, ReaderElsewhere DEF ReaderReject, ReaderReply, ReaderCall, Kept
<1>4. /\ Reading = {reader.request} /\ Reading' = {} /\ Executing' = Executing
      /\ Sending' = Sending /\ reader.request \notin Sending
  <2>1. Reading = {reader.request} /\ Reading' = {} /\ Executing' = Executing /\ Sending' = Sending
    BY <1>1, <1>3 DEF Reading, Executing, Sending
  <2> QED
    BY <2>1 DEF Kept, Books
<1>5. Matches(t) => reader.request = net.client
  BY <1>1 DEF Matches, Kept, Inv, Tags, ReaderFits
<1> QED
  BY <1>1, <1>2, <1>4, <1>5, SendKept

LEMMA PushKept ==
  ASSUME Kept, ReaderCall, pending < Limit
  PROVE  Books' /\ Views' /\ Step
<1> DEFINE r == reader.request
<1> DEFINE c == [request |-> r, token |-> readerToken]
<1>1. /\ reader.pc = "handle" /\ commands' = Append(commands, c)
      /\ work' = [work EXCEPT ![r] = "accepted"]
      /\ reader' = [reader EXCEPT !.pc = "handled"]
      /\ UNCHANGED <<responses, net, stage, got, writer, main>>
  <2>1. pending \in Nat /\ Limit \in Nat
    BY BridgeAssumption DEF Kept, Inv, TypeOK
  <2> QED
    BY <2>1 DEF ReaderCall, Push, OthersOfReader, clients
<1>2. /\ commands \in Seq(Message) /\ net \in NetType /\ work \in WorkType
      /\ r \in Requests /\ Fits(net, r, readerToken)
  BY <1>1 DEF Kept, Inv, TypeOK, Tags, ReaderFits, NetType, WorkType
<1>3. c \in Message
  <2>1. readerToken \in Nat \ {NoToken}
    <3>1. net.next \in Nat
      BY <1>2 DEF NetType
    <3> QED
      BY <1>2, <3>1 DEF Fits, NoToken
  <2> QED
    BY <1>2, <2>1 DEF Message
<1>4. /\ Reading = {r} /\ Reading' = {} /\ Executing' = Executing /\ Sending' = Sending
      /\ work[r] = "none" /\ r \notin Promise!Due
  <2>1. reader'.pc = "handled"
    BY <1>1, Handled DEF Kept
  <2>2. Reading = {r} /\ Reading' = {} /\ Executing' = Executing /\ Sending' = Sending
    BY <1>1, <2>1 DEF Reading, Executing, Sending
  <2> QED
    BY <2>2 DEF Kept, Books, Promise!Due
<1>5. /\ c.request = r
      /\ Queued(commands') = Queued(commands) \cup {r} /\ Distinct(commands')
  <2>1. c.request = r /\ r \notin Queued(commands) /\ Distinct(commands)
    BY <1>4 DEF Kept, Books
  <2> QED
    BY <1>1, <1>2, <1>3, <2>1, QueuedAppend
<1>6. /\ work'[r] = "accepted" /\ \A q \in Requests \ {r} : work'[q] = work[q]
  BY <1>1, <1>2 DEF WorkType
<1>7. Promise!Due' = Promise!Due \cup {r}
  BY <1>2, <1>6 DEF Promise!Due
<1> HIDE DEF c
<1>8. Books'
  <2>1. r \notin Executing /\ r \notin Queued(responses) \cup Sending
    BY <1>4 DEF Kept, Books
  <2> QED
    BY <1>1, <1>4, <1>5, <1>6, <1>7, <2>1, UnderWay DEF Kept, Books
<1>9. Views'
  <2>1. stage[r] \in {"open", "dropped"} /\ (net.kind # "http" => stage[r] = "open")
    BY <1>4 DEF Kept, Views
  <2> QED
    BY <1>1, <1>4, <1>6, <1>7, <2>1 DEF Kept, Views
<1>10. Step
  BY <1>1, <1>4, AcceptSeen DEF clients
<1> QED
  BY <1>8, <1>9, <1>10

LEMMA WriterPopKept ==
  ASSUME Kept, WriterPop
  PROVE  Books' /\ Views' /\ Step
<1>1. /\ writer.pc = "wait" /\ responses \in Seq(Message) /\ Sending = {}
      /\ UNCHANGED <<commands, clients, work, net, reader, main>>
  BY DEF WriterPop, OthersOfWriter, Kept, Inv, TypeOK, Sending
<1>2. Executing' = Executing /\ Reading' = Reading
  BY <1>1 DEF Executing, Reading
<1>3. CASE /\ responses # << >> /\ responses' = Tail(responses)
           /\ writer' = [pc |-> "send", request |-> Head(responses).request,
                         token |-> Head(responses).token]
  <2>1. Sending' = {Head(responses).request}
    BY <1>3 DEF Sending
  <2>2. /\ Queued(responses) = Sending' \cup Queued(responses')
        /\ Distinct(responses') /\ Queued(responses') \cap Sending' = {}
    BY <1>1, <1>3, <2>1, QueuedTaken DEF Kept, Books
  <2>3. UNCHANGED <<View, work, stage>> /\ Promise!Due' = Promise!Due
    BY <1>1, SameView DEF clients
  <2>4. Books'
    BY <1>1, <1>2, <2>2, <2>3 DEF Kept, Books
  <2>5. Views'
    BY <1>1, <1>2, <2>2, <2>3 DEF Kept, Views
  <2> QED
    BY <2>3, <2>4, <2>5 DEF Step
<1>4. CASE writer' = ThreadOff /\ UNCHANGED responses
  <2>1. Sending' = {}
    BY <1>4 DEF Sending, ThreadOff
  <2> QED
    BY <1>1, <1>2, <1>4, <2>1, NothingNew
<1> QED
  BY <1>3, <1>4 DEF WriterPop

LEMMA WriterSendKept ==
  ASSUME Kept, WriterSend
  PROVE  Books' /\ Views' /\ Step
<1>1. /\ writer.pc = "send" /\ net \in NetType
      /\ Fits(net, writer.request, writer.token)
      /\ UNCHANGED <<commands, responses, work, reader, main>>
  BY NetInvariant DEF WriterSend, OthersOfWriter, queues, Kept, Inv, Tags, WriterFits
<1>2. writer.token # NoToken /\ net.next \in Nat
  BY <1>1 DEF Fits, NoToken, NetType
<1>3. Send(writer.request, writer.token) \/ Lose(writer.token)
  BY <1>2 DEF WriterSend, SendResponse
<1>4. Matches(writer.token) => writer.request = net.client
  BY <1>1, <1>2 DEF Matches, Fits
<1>5. writer'.pc = "complete"
  <2>1. writer \in WriterType
    BY DEF Kept, Inv, TypeOK, WriterType
  <2> QED
    BY <2>1 DEF WriterSend, WriterType
<1>6. /\ Sending = {writer.request} /\ Sending' = {} /\ Executing' = Executing
      /\ Reading' = Reading
  BY <1>1, <1>5 DEF Sending, Executing, Reading
<1>7. writer.request \notin Reading
  BY <1>6 DEF Kept, Books
<1> QED
  BY <1>1, <1>3, <1>4, <1>6, <1>7, SendKept

LEMMA MainPopKept ==
  ASSUME Kept, MainPop
  PROVE  Books' /\ Views' /\ Step
<1>1. /\ main.pc # "run" /\ commands # << >> /\ commands' = Tail(commands)
      /\ main' = [Idle EXCEPT !.pc = "run", !.cmd = Head(commands).request,
                              !.token = Head(commands).token]
      /\ UNCHANGED <<responses, clients, work, net, reader, writer>>
      /\ commands \in Seq(Message)
  BY DEF MainPop, OthersOfMain, Kept, Inv, TypeOK
<1>2. Executing = {} /\ Executing' = {Head(commands).request}
  <2>1. main'.pc = "run" /\ main'.cmd = Head(commands).request
    BY <1>1 DEF Idle
  <2> QED
    BY <1>1, <2>1 DEF Executing
<1>3. /\ Queued(commands) = Executing' \cup Queued(commands')
      /\ Distinct(commands') /\ Queued(commands') \cap Executing' = {}
  BY <1>1, <1>2, QueuedTaken DEF Kept, Books
<1>4. /\ UNCHANGED <<View, work, stage>> /\ Promise!Due' = Promise!Due
      /\ Sending' = Sending /\ Reading' = Reading
  BY <1>1, SameView DEF clients, Sending, Reading
<1>5. Books'
  BY <1>1, <1>2, <1>3, <1>4 DEF Kept, Books
<1>6. Views'
  BY <1>1, <1>4 DEF Kept, Views
<1> QED
  BY <1>4, <1>5, <1>6 DEF Step

LEMMA MainRunKept ==
  ASSUME Kept, MainRun
  PROVE  Books' /\ Views' /\ Step
<1> DEFINE r == main.cmd
<1> DEFINE c == [request |-> r, token |-> main.token]
<1>1. /\ main.pc = "run" /\ responses' = Append(responses, c)
      /\ work' = [work EXCEPT ![r] = "done"] /\ main' = [Idle EXCEPT !.pc = "pump"]
      /\ UNCHANGED <<commands, net, stage, got, reader, writer>>
  BY DEF MainRun, ResponseOf, clients, OthersOfMain
<1>2. /\ responses \in Seq(Message) /\ net \in NetType /\ work \in WorkType
      /\ r \in Requests /\ Fits(net, r, main.token)
  BY <1>1 DEF Kept, Inv, TypeOK, Tags, MainFits, NetType, WorkType
<1>3. c \in Message
  <2>1. main.token \in Nat \ {NoToken}
    <3>1. net.next \in Nat
      BY <1>2 DEF NetType
    <3> QED
      BY <1>2, <3>1 DEF Fits, NoToken
  <2> QED
    BY <1>2, <2>1 DEF Message
<1>4. /\ Executing = {r} /\ Executing' = {} /\ Reading' = Reading /\ Sending' = Sending
      /\ work[r] = "accepted"
  <2>1. main'.pc = "pump"
    BY <1>1, MainAt DEF Kept
  <2>2. Executing = {r} /\ Executing' = {} /\ Reading' = Reading /\ Sending' = Sending
    BY <1>1, <2>1 DEF Executing, Reading, Sending
  <2> QED
    BY <2>2 DEF Kept, Books, Promise!Due
<1>5. /\ Queued(responses') = Queued(responses) \cup {r} /\ Distinct(responses')
      /\ r \notin Sending /\ r \notin Reading
  <2>1. /\ c.request = r /\ r \notin Queued(responses) /\ Distinct(responses)
        /\ r \notin Sending /\ r \notin Reading
    BY <1>4 DEF Kept, Books
  <2> QED
    BY <1>1, <1>2, <1>3, <2>1, QueuedAppend
<1>6. /\ work'[r] = "done" /\ \A q \in Requests \ {r} : work'[q] = work[q]
  BY <1>1, <1>2 DEF WorkType
<1>7. Promise!Due = Promise!Due' \cup {r} /\ r \notin Promise!Due'
  BY <1>2, <1>4, <1>6 DEF Promise!Due
<1> HIDE DEF c
<1>8. Books'
  <2>1. Queued(commands) = Promise!Due' /\ Distinct(commands)
    BY <1>4, <1>7 DEF Kept, Books
  <2> QED
    BY <1>1, <1>4, <1>5, <1>6, <2>1, UnderWay DEF Kept, Books
<1>9. Views'
  <2>1. stage[r] \notin {"idle", "waiting"} /\ (net.kind # "http" => stage[r] = "open")
    BY <1>2, <1>4, <1>7 DEF Kept, Views
  <2> QED
    BY <1>1, <1>4, <1>5, <1>6, <1>7, <2>1 DEF Kept, Views
<1>10. Step
  BY <1>1, <1>4, PerformSeen DEF clients
<1> QED
  BY <1>8, <1>9, <1>10

\* The connection held is dropped, and with it the backlog of the socket.
LEMMA MainDropKept ==
  ASSUME Kept, MainDrop
  PROVE  Books' /\ Views' /\ Step
<1> DEFINE S == {r \in Requests : r = net.client \/ (r \in HttpRequests /\ stage[r] = "waiting")}
<1>1. /\ main.pc = "drop" /\ net' = [Release(net) EXCEPT !.bound = FALSE]
      /\ stage' = [r \in Requests |-> IF r \in S THEN "dropped" ELSE stage[r]]
      /\ main' = [main EXCEPT !.pc = "quiet"]
      /\ UNCHANGED <<commands, responses, got, work, reader, writer>>
  BY DEF MainDrop, queues, OthersOfMain
<1>2. net \in NetType /\ Held(net) /\ main \in MainType
  BY NetInvariant DEF Kept, Inv, TypeOK, MainType
<1>3. net'.client = None /\ net'.kind = net.kind
  BY <1>1, <1>2, Released DEF NetType
<1>4. /\ Reading' = Reading /\ Executing' = Executing /\ Sending' = Sending
      /\ Promise!Due' = Promise!Due
  <2>1. main'.pc = "quiet"
    BY <1>1, <1>2 DEF MainType
  <2> QED
    BY <1>1, <2>1 DEF Reading, Executing, Sending, Promise!Due
<1>5. \A r \in S : r \in Requests /\ stage[r] \in {"waiting", "open"}
  BY BridgeAssumption DEF Kept, Views
<1>6. /\ \A r \in Requests : stage'[r] # stage[r] => stage'[r] = "dropped"
      /\ net.kind # "http" => \A r \in Requests : stage[r] = "open" => stage'[r] = "open"
  <2>1. \A r \in Requests : stage'[r] = IF r \in S THEN "dropped" ELSE stage[r]
    BY <1>1
  <2>2. net.kind # "http" => \A r \in S : stage[r] = "waiting"
    BY <1>2, BridgeAssumption DEF Held
  <2> QED
    BY <2>1, <2>2
<1> HIDE DEF S
<1>7. Books'
  BY <1>1, <1>4 DEF Kept, Books
<1>8. Views'
  BY <1>1, <1>3, <1>4, <1>6, UnderWay DEF Kept, Views
<1>9. Step
  <2>1. S \in SUBSET Requests /\ \A r \in S : stage[r] \in {"waiting", "open"}
    BY <1>5
  <2> QED
    BY <1>1, <2>1, DropSeen DEF Kept
<1> QED
  BY <1>7, <1>8, <1>9

\* The server has stopped or begins again: nothing is under way.
LEMMA MainClearKept ==
  ASSUME Kept, MainBegin \/ (MainJoin /\ main.again = "none")
  PROVE  Books' /\ Views' /\ Step
<1>1. /\ Clear /\ commands' = << >> /\ responses' = << >> /\ main' = Idle
      /\ UNCHANGED <<stage, got>> /\ net'.client = None
  <2>1. CASE MainBegin
    BY <2>1 DEF MainBegin, Clear, clients, NoTransport
  <2>2. CASE MainJoin /\ main.again = "none"
    BY <2>2, FreshTransport DEF MainJoin, Clear, clients, Kept, Inv, Stopping
  <2> QED
    BY <2>1, <2>2
<1>2. Reading' = {} /\ Sending' = {} /\ Executing' = {}
  <2>1. reader'.pc \in {"off", "top"} /\ writer'.pc \in {"off", "top"}
    BY DEF MainBegin, MainJoin, ThreadOff, OthersOfMain
  <2>2. main'.pc = "idle"
    BY <1>1, IdleMain
  <2> QED
    BY <2>1, <2>2 DEF Reading, Sending, Executing
<1>3. Promise!Due' = {} /\ \A r \in Requests : work[r] = "none" => work'[r] = "none"
  BY <1>1 DEF Clear, Promise!Due
<1>4. Books'
  BY <1>1, <1>2, <1>3, QueuedNothing DEF Books
<1>5. Views'
  BY <1>1, <1>2, <1>3, QueuedNothing DEF Kept, Views
<1> QED
  BY <1>1, <1>4, <1>5, ClearSeen DEF clients

LEMMA KeptStep ==
  ASSUME Kept, [Next]_vars
  PROVE  Books' /\ Views' /\ Step
<1>1. CASE \E r \in Requests : Ask(r)
  BY <1>1, AskKept
<1>2. CASE Reader
  <2>1. CASE ReaderTop \/ ReaderFree \/ ReaderPost \/ ReaderHandled \/ ReaderFails \/ ReaderQuits
    BY <2>1, ReaderRests
  <2>2. CASE ReaderStall \/ ReaderAccept \/ ReaderLine
    BY <2>2, ReaderStallKept, ReaderTakesKept
  <2>3. CASE ReaderReject \/ ReaderReply
    BY <2>3, ReaderSendsKept
  <2>4. CASE ReaderCall
    <3>1. pending < Limit \/ pending >= Limit
      BY BridgeAssumption DEF Kept, Inv, TypeOK
    <3> QED
      BY <2>4, <3>1, PushKept, ReaderSendsKept
  <2> QED
    BY <1>2, <2>1, <2>2, <2>3, <2>4 DEF Reader
<1>3. CASE Writer
  BY <1>3, WriterRests, WriterPopKept, WriterSendKept DEF Writer
<1>4. CASE Main
  <2>1. CASE MainPop \/ MainRun \/ MainDrop
    BY <2>1, MainPopKept, MainRunKept, MainDropKept
  <2>2. CASE \/ MainPumped \/ MainStop("none")
             \/ \E kind \in {"http", "stdio"} : MainStop(kind) \/ MainStart(kind)
    BY <2>2, MainRests
  <2>3. CASE MainClose \/ MainQuiet
    BY <2>3, MainRests
  <2>4. CASE MainJoin \/ MainBegin
    BY <2>4, MainRests, MainClearKept
  <2> QED
    BY <1>4, <2>1, <2>2, <2>3, <2>4 DEF Main, MainInCall
<1>5. CASE UNCHANGED vars
  <2>1. /\ UNCHANGED <<commands, responses, clients, work, net, reader, writer, main>>
    BY <1>5 DEF vars, queues
  <2>2. Executing' = Executing /\ Reading' = Reading /\ Sending' = Sending
    BY <2>1 DEF Executing, Reading, Sending
  <2> QED
    BY <2>1, <2>2, NothingNew
<1> QED
  BY <1>1, <1>2, <1>3, <1>4, <1>5 DEF Next

LEMMA KeptInit == Init => Books /\ Views /\ Promise!Init
<1> SUFFICES ASSUME Init PROVE Books /\ Views /\ Promise!Init
  OBVIOUS
<1>1. Reading = {} /\ Executing = {} /\ Sending = {} /\ Promise!Due = {} /\ net.client = None
  BY IdleMain, FreshTransport DEF Init, Reading, Executing, Sending, Promise!Due, ThreadOff
<1>2. Books
  BY <1>1, QueuedNothing DEF Init, Books
<1>3. Views
  BY <1>1, QueuedNothing DEF Init, Views
<1>4. Promise!Init
  BY DEF Init, Promise!Init, Seen
<1> QED
  BY <1>2, <1>3, <1>4

\* The bridge implements RequestReply: whatever its threads do, a client is answered
\* at most once and with its own answer, never while its tool is still due, a tool
\* accepted runs at most once, and never more than the limit are due.
THEOREM BridgeKeepsPromise == Spec => KeepsPromise
<1>1. Init => Books /\ Views /\ Promise!Init
  BY KeptInit
<1>2. Inv /\ Books /\ Views /\ [Next]_vars
        => Books' /\ Views' /\ [Promise!Next]_<<[r \in Requests |-> Seen(r)], work>>
  BY KeptStep DEF Kept, Step, View
<1> QED
  BY <1>1, <1>2, InvHolds, PTL DEF Spec, KeepsPromise, Promise!Spec

=============================================================================
