------------------------------ MODULE McpBridge ------------------------------
(***************************************************************************)
(* The MCP server of the desktop emulator (platforms/desktop-shared/mcp):    *)
(* a reader thread that takes requests from the transport, a writer thread    *)
(* that sends the tools' results, and the emulation thread, which runs the    *)
(* tools and also starts and stops the server.  They meet in two locked       *)
(* queues and in the transport.                                             *)
(*                                                                         *)
(* Over HTTP the transport serves one connection at a time and gives each a   *)
(* token; over stdio every line is a request and nothing is held open.  What  *)
(* a request asks for is abstracted to whether the server answers it itself   *)
(* or queues a tool.                                                        *)
(***************************************************************************)
EXTENDS Naturals, Sequences, FiniteSets

CONSTANTS
  HttpRequests,   \* requests that arrive on HTTP connections, one on each
  StdioRequests,  \* requests that arrive as lines on stdin
  Limit,          \* MCP_MAX_PENDING_COMMANDS
  MaxStarts,      \* bound on the number of times the server is started
  None            \* no request

Requests == HttpRequests \cup StdioRequests

ASSUME BridgeAssumption ==
  /\ HttpRequests \cap StdioRequests = {} /\ None \notin Requests
  /\ Limit \in Nat \ {0} /\ MaxStarts \in Nat

VARIABLES
  commands, pending,    \* CommandQueue: m_queue, m_pending
  responses, serving,   \* ResponseQueue: m_queue, m_running
  running,              \* McpServer::m_running
  net,                  \* the transport
  reader, writer, main, \* the three threads
  readerToken,          \* m_readerRequestToken
  stage, got,           \* of each request: its client's view (not in the code)
  work,                 \* and what became of its tool (not in the code)
  starts                \* (not in the code)

queues == <<commands, pending, responses, serving>>
clients == <<stage, got>>
vars == <<queues, running, net, reader, writer, main, readerToken, clients, work, starts>>

NoToken == 0
NoTransport ==
  [kind |-> "none", closed |-> TRUE, bound |-> FALSE,
   client |-> None, token |-> NoToken, next |-> NoToken]
Idle == [pc |-> "idle", cmd |-> None, token |-> NoToken, again |-> "none"]
ThreadOff == [pc |-> "off", request |-> None, token |-> NoToken]

-----------------------------------------------------------------------------
(* The transport.                                                            *)

\* close_current_client_locked: the connection goes, with this outcome.
Release(n) == [n EXCEPT !.client = None, !.token = NoToken]
EndClient(outcome) ==
  IF net.client = None THEN stage ELSE [stage EXCEPT ![net.client] = outcome]

\* Mutant of Matches: the token is not compared.
MatchesAny(token) == net.client # None
Matches(token) == net.client # None /\ token \in {NoToken, net.token}

\* The connection held receives the answer to r; over stdio there is only one
\* stream, and the answer names its request.
Deliver(r, token) ==
  /\ ~net.closed
  /\ CASE net.kind = "http" ->
            /\ Matches(token)
            /\ net' = Release(net)
            /\ stage' = EndClient("answered")
            /\ got' = [got EXCEPT ![net.client] = r]
       [] OTHER ->
            /\ stage' = [stage EXCEPT ![r] = "answered"]
            /\ got' = [got EXCEPT ![r] = r]
            /\ UNCHANGED net

\* The send fails, or building the response does (abort_request).
Lose(token) ==
  /\ IF net.kind = "http"
       THEN Matches(token) /\ net' = Release(net) /\ stage' = EndClient("dropped")
       ELSE UNCHANGED <<net, stage>>
  /\ UNCHANGED got

\* The connection has gone, or the transport is closed.
Discard(token) ==
  /\ net.closed \/ ~Matches(token)
  /\ UNCHANGED <<net, clients>>

Send(r, token) == Deliver(r, token) \/ Lose(token) \/ Discard(token)

\* SendResponse: a response without a token goes to the request being read.
SendResponse(r, token) == Send(r, IF token = NoToken THEN readerToken ELSE token)

-----------------------------------------------------------------------------
(* The clients.                                                              *)

Ask(r) ==
  /\ stage[r] = "idle"
  /\ r \in HttpRequests => net.kind = "http" /\ net.bound /\ ~net.closed
  /\ stage' = [stage EXCEPT ![r] = "waiting"]
  /\ UNCHANGED <<queues, running, net, reader, writer, main, readerToken, got, work, starts>>

-----------------------------------------------------------------------------
(* The reader thread: ReaderLoop, recv, HandleLine.                          *)

OthersOfReader == <<writer, main, starts>>

ReaderTop ==
  /\ reader.pc = "top"
  /\ reader' = [reader EXCEPT !.pc = IF running THEN "recv" ELSE "off"]
  /\ UNCHANGED <<queues, running, net, readerToken, clients, work, OthersOfReader>>

\* Over HTTP the reader waits until no connection is held, then for the next.
ReaderFree ==
  /\ reader.pc = "recv" /\ net.kind = "http" /\ net.bound /\ ~net.closed
  /\ net.client = None
  /\ reader' = [reader EXCEPT !.pc = "accept"]
  /\ UNCHANGED <<queues, running, net, readerToken, clients, work, OthersOfReader>>

\* Mutant of ReaderStall: a connection is waited for as long as it takes.
ReaderPatient == FALSE /\ UNCHANGED vars

\* MCP_HTTP_CLIENT_STALL_TIMEOUT_MS: a connection held too long is dropped.
ReaderStall ==
  /\ reader.pc = "recv" /\ net.kind = "http" /\ net.client # None /\ ~net.closed
  /\ net' = Release(net) /\ stage' = EndClient("dropped")
  /\ UNCHANGED <<queues, running, reader, readerToken, got, work, OthersOfReader>>

ReaderAccept ==
  /\ reader.pc = "accept" /\ ~net.closed
  /\ \E r \in HttpRequests :
       /\ stage[r] = "waiting"
       /\ stage' = [stage EXCEPT ![r] = "open"]
       /\ net' = [net EXCEPT !.client = r, !.token = net.next + 1, !.next = @ + 1]
       /\ reader' = [pc |-> "read", request |-> r, token |-> net.next + 1]
  /\ UNCHANGED <<queues, running, readerToken, got, work, OthersOfReader>>

\* The client went, timed out, or sent more or less than a request: closed
\* unanswered, or answered by the transport whoever is connected now.  (After an
\* exception the reader goes round by the test of m_running.)
ReaderReject ==
  /\ reader.pc = "read"
  /\ Send(reader.request, NoToken)
  /\ \E pc \in {"recv", "top"} : reader' = [ThreadOff EXCEPT !.pc = pc]
  /\ UNCHANGED <<queues, running, readerToken, work, OthersOfReader>>

\* A request arrived; its connection must still be the one accepted.
ReaderPost ==
  /\ reader.pc = "read"
  /\ IF net.client = reader.request /\ net.token = reader.token
       THEN reader' = [reader EXCEPT !.pc = "handle"] /\ readerToken' = reader.token
       ELSE reader' = [ThreadOff EXCEPT !.pc = "recv"] /\ UNCHANGED readerToken
  /\ UNCHANGED <<queues, running, net, clients, work, OthersOfReader>>

ReaderLine ==
  /\ reader.pc = "recv" /\ net.kind = "stdio" /\ ~net.closed
  /\ \E r \in StdioRequests :
       /\ stage[r] = "waiting"
       /\ stage' = [stage EXCEPT ![r] = "open"]
       /\ net' = [net EXCEPT !.next = @ + 1]
       /\ reader' = [pc |-> "handle", request |-> r, token |-> net.next + 1]
       /\ readerToken' = net.next + 1
  /\ UNCHANGED <<queues, running, got, work, OthersOfReader>>

\* Initialisation, ping, lists, notifications and every refused request.
ReaderReply ==
  /\ reader.pc = "handle"
  /\ SendResponse(reader.request, NoToken)
  /\ reader' = [reader EXCEPT !.pc = "handled"]
  /\ UNCHANGED <<queues, running, readerToken, work, OthersOfReader>>

\* Mutant of Push: the limit is not counted.
PushUncounted(cmd) == commands' = Append(commands, cmd) /\ UNCHANGED pending
Push(cmd) == commands' = Append(commands, cmd) /\ pending' = pending + 1

\* HandleToolsCall: the tool is queued unless the server is busy.
ReaderCall ==
  /\ reader.pc = "handle"
  /\ IF pending >= Limit
       THEN SendResponse(reader.request, NoToken) /\ UNCHANGED <<commands, pending, work>>
       ELSE /\ Push([request |-> reader.request, token |-> readerToken])
            /\ work' = [work EXCEPT ![reader.request] = "accepted"]
            /\ UNCHANGED <<net, clients>>
  /\ reader' = [reader EXCEPT !.pc = "handled"]
  /\ UNCHANGED <<responses, serving, running, readerToken, OthersOfReader>>

ReaderHandled ==
  /\ reader.pc = "handled"
  /\ reader' = [ThreadOff EXCEPT !.pc = "top"] /\ readerToken' = NoToken
  /\ UNCHANGED <<queues, running, net, clients, work, OthersOfReader>>

\* recv gives up: the transport is closed or was never bound, stdin has ended.
ReaderFails ==
  /\ \/ reader.pc \in {"recv", "accept"} /\ (net.closed \/ (net.kind = "http" /\ ~net.bound))
     \/ reader.pc = "recv" /\ net.kind = "stdio"
  /\ running' = FALSE
  /\ reader' = [ThreadOff EXCEPT !.pc = "failed"]
  /\ UNCHANGED <<queues, net, readerToken, clients, work, OthersOfReader>>

StopResponses == responses' = << >> /\ serving' = FALSE

ReaderQuits ==
  /\ reader.pc = "failed"
  /\ StopResponses
  /\ reader' = ThreadOff
  /\ UNCHANGED <<commands, pending, running, net, readerToken, clients, work, OthersOfReader>>

-----------------------------------------------------------------------------
(* The writer thread: Run.                                                   *)

OthersOfWriter == <<commands, reader, main, readerToken, work, starts>>

WriterTop ==
  /\ writer.pc = "top"
  /\ writer' = [writer EXCEPT !.pc = IF running THEN "wait" ELSE "off"]
  /\ UNCHANGED <<pending, responses, serving, running, net, clients, OthersOfWriter>>

\* WaitAndPop: an empty queue ends the thread once the queue is stopped.
WriterPop ==
  /\ writer.pc = "wait"
  /\ IF responses # << >>
       THEN /\ writer' = [pc |-> "send", request |-> Head(responses).request,
                          token |-> Head(responses).token]
            /\ responses' = Tail(responses)
       ELSE ~serving /\ writer' = ThreadOff /\ UNCHANGED responses
  /\ UNCHANGED <<pending, serving, running, net, clients, OthersOfWriter>>

WriterSend ==
  /\ writer.pc = "send"
  /\ SendResponse(writer.request, writer.token) \/ Lose(writer.token)
  /\ writer' = [writer EXCEPT !.pc = "complete"]
  /\ UNCHANGED <<queues, running, OthersOfWriter>>

WriterComplete ==
  /\ writer.pc = "complete"
  /\ pending' = IF pending > 0 THEN pending - 1 ELSE 0
  /\ writer' = [ThreadOff EXCEPT !.pc = "top"]
  /\ UNCHANGED <<responses, serving, running, net, clients, OthersOfWriter>>

-----------------------------------------------------------------------------
(* The emulation thread: PumpCommands, Start, Stop.                          *)

OthersOfMain == <<reader, writer, readerToken>>

MainPop ==
  /\ main.pc \in {"idle", "pump"} /\ net.kind # "none" /\ commands # << >>
  /\ main' = [Idle EXCEPT !.pc = "run", !.cmd = Head(commands).request,
                          !.token = Head(commands).token]
  /\ commands' = Tail(commands)
  /\ UNCHANGED <<pending, responses, serving, running, net, clients, work, starts, OthersOfMain>>

ResponseOf(c) == [request |-> c.cmd, token |-> c.token]

MainRun ==
  /\ main.pc = "run"
  /\ work' = [work EXCEPT ![main.cmd] = "done"]
  /\ responses' = Append(responses, ResponseOf(main))
  /\ main' = [Idle EXCEPT !.pc = "pump"]
  /\ UNCHANGED <<commands, pending, serving, running, net, clients, starts, OthersOfMain>>

MainPumped ==
  /\ main.pc = "pump" /\ commands = << >>
  /\ main' = Idle
  /\ UNCHANGED <<queues, running, net, clients, work, starts, OthersOfMain>>

\* Stop, and the Stop inside a Start that finds a server whose reader has quit.
MainStop(again) ==
  /\ main.pc = "idle" /\ net.kind # "none"
  /\ again # "none" => ~running /\ starts < MaxStarts
  /\ running' = FALSE
  /\ main' = [Idle EXCEPT !.pc = "close", !.again = again]
  /\ UNCHANGED <<queues, net, clients, work, starts, OthersOfMain>>

MainClose ==
  /\ main.pc = "close"
  /\ net' = [net EXCEPT !.closed = TRUE]
  /\ main' = [main EXCEPT !.pc = IF net.kind = "http" THEN "drop" ELSE "quiet"]
  /\ UNCHANGED <<queues, running, clients, work, starts, OthersOfMain>>

\* The rest of close, under the lock: the listening socket goes with its backlog.
MainDrop ==
  /\ main.pc = "drop"
  /\ net' = [Release(net) EXCEPT !.bound = FALSE]
  /\ stage' = [r \in Requests |->
                 IF r = net.client \/ (r \in HttpRequests /\ stage[r] = "waiting")
                   THEN "dropped" ELSE stage[r]]
  /\ main' = [main EXCEPT !.pc = "quiet"]
  /\ UNCHANGED <<queues, running, got, work, starts, OthersOfMain>>

\* Mutant of MainQuiet: the response queue is left to the reader.
MainQuietSkipped ==
  /\ main.pc = "quiet"
  /\ main' = [main EXCEPT !.pc = "join"]
  /\ UNCHANGED <<queues, running, net, clients, work, starts, OthersOfMain>>

MainQuiet ==
  /\ main.pc = "quiet"
  /\ StopResponses
  /\ main' = [main EXCEPT !.pc = "join"]
  /\ UNCHANGED <<commands, pending, running, net, clients, work, starts, OthersOfMain>>

\* Mutant of Clear: the counter is cleared and the queue is not.
ClearCount == pending' = 0 /\ UNCHANGED <<commands, work>>
Clear ==
  /\ commands' = << >> /\ pending' = 0
  /\ work' = [r \in Requests |-> IF work[r] = "accepted" THEN "lost" ELSE work[r]]

MainJoin ==
  /\ main.pc = "join" /\ reader.pc = "off" /\ writer.pc = "off"
  /\ IF main.again = "none"
       THEN Clear /\ main' = Idle /\ net' = NoTransport
       ELSE main' = [main EXCEPT !.pc = "start"] /\ UNCHANGED <<commands, pending, net, work>>
  /\ UNCHANGED <<responses, serving, running, clients, starts, OthersOfMain>>

MainStart(kind) ==
  /\ main.pc = "idle" /\ net.kind = "none" /\ starts < MaxStarts
  /\ main' = [Idle EXCEPT !.pc = "start", !.again = kind]
  /\ UNCHANGED <<queues, running, net, clients, work, starts, OthersOfMain>>

\* Clear, Reset, a new transport, which may fail to bind, and both threads.
MainBegin ==
  /\ main.pc = "start"
  /\ Clear
  /\ responses' = << >> /\ serving' = TRUE
  /\ running' = TRUE
  /\ \E bound \in (IF main.again = "http" THEN BOOLEAN ELSE {TRUE}) :
       net' = [NoTransport EXCEPT !.kind = main.again, !.closed = FALSE, !.bound = bound]
  /\ reader' = [ThreadOff EXCEPT !.pc = "top"]
  /\ writer' = [ThreadOff EXCEPT !.pc = "top"]
  /\ starts' = starts + 1
  /\ main' = Idle
  /\ UNCHANGED <<readerToken, clients>>

-----------------------------------------------------------------------------

Init ==
  /\ commands = << >> /\ pending = 0 /\ responses = << >> /\ serving = TRUE
  /\ running = FALSE /\ net = NoTransport
  /\ reader = ThreadOff /\ writer = ThreadOff /\ main = Idle /\ readerToken = NoToken
  /\ stage = [r \in Requests |-> "idle"] /\ got = [r \in Requests |-> None]
  /\ work = [r \in Requests |-> "none"] /\ starts = 0

Reader ==
  \/ ReaderTop \/ ReaderFree \/ ReaderStall \/ ReaderAccept
  \/ ReaderReject \/ ReaderPost \/ ReaderLine
  \/ ReaderReply \/ ReaderCall \/ ReaderHandled
  \/ ReaderFails \/ ReaderQuits

Writer == WriterTop \/ WriterPop \/ WriterSend \/ WriterComplete

\* What the emulation thread does of itself once it is inside Start or Stop.
MainInCall == MainClose \/ MainDrop \/ MainQuiet \/ MainJoin \/ MainBegin

Main ==
  \/ MainPop \/ MainRun \/ MainPumped
  \/ MainStop("none")
  \/ \E kind \in {"http", "stdio"} : MainStop(kind) \/ MainStart(kind)
  \/ MainInCall

Next == (\E r \in Requests : Ask(r)) \/ Reader \/ Writer \/ Main

\* The two threads and a call once begun go on; the emulation thread need never
\* pump, which is what a modal dialogue or a stopped machine comes to.
Fairness == WF_vars(Reader) /\ WF_vars(Writer) /\ WF_vars(MainInCall)
Spec == Init /\ [][Next]_vars /\ Fairness

-----------------------------------------------------------------------------

Message == [request : Requests, token : Nat \ {NoToken}]
OptionalRequest == Requests \cup {None}

\* Type invariant; a token only ever travels with its request.
TypeOK ==
  /\ commands \in Seq(Message) /\ responses \in Seq(Message)
  /\ pending \in 0..Limit /\ serving \in BOOLEAN /\ running \in BOOLEAN
  /\ net \in [kind : {"none", "http", "stdio"}, closed : BOOLEAN, bound : BOOLEAN,
              client : HttpRequests \cup {None}, token : Nat, next : Nat]
  /\ reader \in [pc : {"off", "top", "recv", "accept", "read", "handle", "handled", "failed"},
                 request : OptionalRequest, token : Nat]
  /\ writer \in [pc : {"off", "top", "wait", "send", "complete"},
                 request : OptionalRequest, token : Nat]
  /\ main \in [pc : {"idle", "run", "pump", "close", "drop", "quiet", "join", "start"},
               cmd : OptionalRequest, token : Nat, again : {"none", "http", "stdio"}]
  /\ readerToken \in Nat /\ starts \in 0..MaxStarts
  /\ stage \in [Requests -> {"idle", "waiting", "open", "answered", "dropped"}]
  /\ got \in [Requests -> OptionalRequest]
  /\ work \in [Requests -> {"none", "accepted", "done", "lost"}]

\* No client ever receives the answer to another one's request, however late the
\* answer and however often connections, tokens and servers have changed since.
AnswersOwnRequest == \A r \in Requests : got[r] \in {None, r}

\* m_pending spans two queues and three threads: while responses are being served
\* it is exactly the requests inside, so the limit never refuses an idle server
\* nor admits more than it says; after that it only errs on the safe side.
Inside ==
  Len(commands) + Len(responses) + (IF main.pc = "run" THEN 1 ELSE 0)
    + (IF writer.pc \in {"send", "complete"} THEN 1 ELSE 0)
PendingAccounted == Inside <= pending /\ (serving => Inside = pending)

\* The bridge keeps the promise of RequestReply.
Seen(r) ==
  CASE stage[r] \in {"waiting", "open"} -> "asked"
    [] stage[r] = "answered" /\ got[r] # r -> "misanswered"
    [] OTHER -> stage[r]
Promise == INSTANCE RequestReply WITH stage <- [r \in Requests |-> Seen(r)]
KeepsPromise == Promise!Spec

\* "Nothing may hold a client longer than this" (mcp_transport.h): a connection is
\* released in the end, even if the emulation thread never runs a tool.
PortStaysAlive == \A r \in HttpRequests : stage[r] = "open" ~> stage[r] # "open"

\* Start and Stop return: neither thread they join is left waiting.
StopReturns == main.pc = "close" ~> main.pc = "idle"

=============================================================================
