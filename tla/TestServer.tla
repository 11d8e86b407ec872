----------------------------- MODULE TestServer -----------------------------
(***************************************************************************)
(* suns_app_test_server(): the Modbus slave that serves the data blocks of *)
(* the model files, with the part of suns_init_modbus() and of main() it   *)
(* depends on.  Its clients are connections that come, ask, and go at any  *)
(* moment; over a serial line there is one, and it is always there.        *)
(*                                                                         *)
(* The process copies the blocks to the register map, listens, and then    *)
(* serves one connection after the other.  One action is one libmodbus     *)
(* call with the code that runs up to the next.                            *)
(***************************************************************************)
EXTENDS DataBlocks, SunspecDevice

CONSTANTS
    DataBlockLists,  \* what the model files may hold (data_block_list)
    MapSize,         \* registers of the mapping; 4096 in the source
    Connections,     \* clients' ends of connections; reused when done
    Requests,        \* [addr, n]: modbus_read_registers() calls of clients
    Backlog,         \* connections the kernel keeps waiting (listen(.., 1))
    MaxSockets,      \* descriptors the process may have open for sockets
    None             \* no connection, no request, no answer

ASSUME ServerAssumption ==
    /\ MapSize \in Nat /\ MapSize >= 4
    /\ Backlog \in Nat \ {0}
    /\ MaxSockets \in Nat \ {0}
    /\ \A r \in Requests : r.addr \in Nat /\ r.n \in Nat \ {0}
    /\ None \notin Connections

ASSUME BlocksAssumption == DataBlockLists \subseteq Seq(Seq(Literals))

VARIABLES
    transport,  \* app->transport: "TCP" or "RTU"
    blocks,     \* the data blocks, in the order of the files
    pc,         \* "init", "setup", "listen", "accept", "receive", "reply", "returned"
    tab,        \* mapping->tab_registers, and tab_input_registers alike
    conn,       \* per connection: "away", "open", "closed" (by the client)
    backlog,    \* connections not accepted yet
    serving,    \* the connection of mb_ctx, or None
    sockets,    \* descriptors open: the listening one and the accepted ones
    asked,      \* the request a client waits on, or None
    sent,       \* that request while it is on its way, or None
    q,          \* the request modbus_receive() put in the buffer
    answer,     \* the answer to asked, or None
    status      \* "running", main()'s exit "success" or "failure", "crashed"

setupVars  == <<transport, blocks>>
clientVars == <<conn, backlog, asked, sent, answer>>
vars == <<setupVars, pc, tab, clientVars, serving, sockets, q, status>>

-----------------------------------------------------------------------------
\* Filling the register map

Register(high, low) == high * 256 + low

\* The registers of a block's bytes.  The loop takes them in pairs, so the
\* last of an odd number is paired with whatever lies behind it.
RegistersOf(bytes, stale) ==
    [k \in 1 .. (Len(bytes) + 1) \div 2 |->
        Register(bytes[2 * k - 1],
                 IF 2 * k <= Len(bytes) THEN bytes[2 * k] ELSE stale)]

Copied(bs, stale) ==
    FlattenSeq([k \in 1 .. Len(bs) |-> RegistersOf(BlockBytes(bs[k]), stale)])

\* Slip: no end marker.
ImageOf_Open(bs, stale) == Signature \o Copied(bs, stale)

\* What is written to the map, from register 0 on.
ImageOf(bs, stale) == Signature \o Copied(bs, stale) \o <<MaxWord, 0>>

\* A new mapping is zeroed; register a is tab[a + 1].
Zeros == [a \in 1 .. MapSize |-> 0]
Map(image) == SubSeq(image \o Zeros, 1, MapSize)

Init ==
    /\ transport \in {"TCP", "RTU"}
    /\ blocks \in DataBlockLists
    /\ pc = "init"
    /\ tab = Zeros
    /\ conn = [c \in Connections |-> "away"]
    /\ backlog = <<>>
    /\ serving = None
    /\ sockets = 0
    /\ asked = [c \in Connections |-> None]
    /\ sent = [c \in Connections |-> None]
    /\ q = None
    /\ answer = [c \in Connections |-> None]
    /\ status = "running"

\* main() exits with failure if the return code is below 0.
Return(rc) ==
    /\ pc' = "returned"
    /\ status' = IF rc < 0 THEN "failure" ELSE "success"

-----------------------------------------------------------------------------
\* suns_init_modbus(): a context, and over RTU the open serial port

InitModbus ==
    /\ pc = "init"
    /\ pc' = "setup"
    /\ UNCHANGED <<setupVars, tab, clientVars, serving, sockets, q, status>>

\* Only over RTU does the server connect; TCP may lack the context.
InitModbusFails ==
    /\ pc = "init"
    /\ Return(-1)
    /\ UNCHANGED <<setupVars, tab, clientVars, serving, sockets, q>>

\* Values a byte outside the data may have.
StaleByte == {0, 255}

\* Nothing keeps the copy within the map: what runs over it overwrites the
\* memory behind it, which ends the process or goes unnoticed.
FillMap ==
    /\ pc = "setup"
    /\ \E image \in {ImageOf(blocks, stale) : stale \in StaleByte} :
          /\ tab' = Map(image)
          /\ \/ /\ Len(image) > MapSize
                /\ status' = "crashed" /\ pc' = "returned"
             \/ /\ UNCHANGED status
                /\ pc' = IF transport = "TCP" THEN "listen" ELSE "receive"
    /\ IF transport = "RTU" /\ pc' = "receive"
       THEN \E c \in Connections :
               serving' = c /\ conn' = [conn EXCEPT ![c] = "open"]
       ELSE UNCHANGED <<serving, conn>>
    /\ UNCHANGED <<setupVars, backlog, asked, sent, answer, sockets, q>>

-----------------------------------------------------------------------------
\* Listening and accepting

Listen ==
    /\ pc = "listen"
    /\ pc' = "accept"
    /\ sockets' = 1
    /\ UNCHANGED <<setupVars, tab, clientVars, serving, q, status>>

\* The failure is in the variable socket, but rc is returned, still 0.
ListenFails ==
    /\ pc = "listen"
    /\ Return(0)
    /\ UNCHANGED <<setupVars, tab, clientVars, serving, sockets, q>>

\* Nothing closes the socket of the connection served before.
Accept ==
    /\ pc = "accept"
    /\ backlog # <<>>
    /\ sockets < MaxSockets
    /\ serving' = Head(backlog)
    /\ backlog' = Tail(backlog)
    /\ sockets' = sockets + 1
    /\ pc' = "receive"
    /\ UNCHANGED <<setupVars, tab, conn, asked, sent, answer, q, status>>

\* modbus_tcp_accept() may return an error for any reason and at any time,
\* and does when the process has no descriptor left for another socket.
AcceptFails ==
    /\ pc = "accept"
    /\ Return(-1)
    /\ UNCHANGED <<setupVars, tab, clientVars, serving, sockets, q>>

-----------------------------------------------------------------------------
\* Serving a connection

Receive ==
    /\ pc = "receive"
    /\ sent[serving] # None
    /\ q' = sent[serving]
    /\ sent' = [sent EXCEPT ![serving] = None]
    /\ pc' = "reply"
    /\ UNCHANGED <<setupVars, tab, conn, backlog, asked, answer, serving,
                   sockets, status>>

\* Slip: the connection stays the one that is served.
NextConnection_Same == pc' = "receive" /\ UNCHANGED serving

\* Slip: the connection that was left still counts as served.
NextConnection_Kept ==
    /\ pc' = IF transport = "TCP" THEN "accept" ELSE "receive"
    /\ UNCHANGED serving

\* The inner loop is left: the next connection, or the same serial line.
NextConnection ==
    IF transport = "TCP" THEN pc' = "accept" /\ serving' = None
    ELSE pc' = "receive" /\ UNCHANGED serving

\* A closed connection the server leaves is gone.
Leave == conn' = IF conn[serving] = "closed"
                 THEN [conn EXCEPT ![serving] = "away"] ELSE conn

\* The client has closed the connection and all it sent was received.
ConnectionClosed ==
    /\ pc = "receive"
    /\ conn[serving] = "closed"
    /\ sent[serving] = None
    /\ NextConnection
    /\ Leave
    /\ UNCHANGED <<setupVars, tab, backlog, asked, sent, answer, sockets, q,
                   status>>

\* Slip: the next request is waited for on the same connection.
ReceiveFails_Again ==
    /\ pc = "receive"
    /\ sent' = [sent EXCEPT ![serving] = None]
    /\ UNCHANGED <<setupVars, pc, tab, conn, backlog, asked, answer, serving,
                   sockets, q, status>>

\* A broken request or connection, or noise on the line; what was on its way
\* is lost, and a client whose end is still open is not listened to.
ReceiveFails ==
    /\ pc = "receive"
    /\ sent' = [sent EXCEPT ![serving] = None]
    /\ NextConnection
    /\ Leave
    /\ UNCHANGED <<setupVars, tab, backlog, asked, answer, sockets, q, status>>

\* modbus_reply(): the registers, or an exception (<<>>) for illegal addresses.
Answer(r) ==
    IF r.addr + r.n > MapSize THEN <<>>
    ELSE SubSeq(tab, r.addr + 1, r.addr + r.n)

Reply ==
    /\ pc = "reply"
    /\ pc' = "receive"
    /\ q' = None
    /\ answer' = IF conn[serving] = "open"
                 THEN [answer EXCEPT ![serving] = Answer(q)]
                 ELSE answer
    /\ UNCHANGED <<setupVars, tab, conn, backlog, asked, sent, serving,
                   sockets, status>>

\* The reply cannot be sent: a closed connection, or a fault of the line.
ReplyFails ==
    /\ pc = "reply"
    /\ q' = None
    /\ NextConnection
    /\ Leave
    /\ UNCHANGED <<setupVars, tab, backlog, asked, sent, answer, sockets,
                   status>>

-----------------------------------------------------------------------------
\* The clients

Connect(c) ==
    /\ transport = "TCP"
    /\ pc \in {"accept", "receive", "reply"}
    /\ conn[c] = "away"
    /\ Len(backlog) < Backlog
    /\ conn' = [conn EXCEPT ![c] = "open"]
    /\ backlog' = Append(backlog, c)
    /\ UNCHANGED <<setupVars, pc, tab, asked, sent, answer, serving, sockets,
                   q, status>>

\* One request at a time; it may be sent before the server accepts.
Ask(c) ==
    /\ conn[c] = "open"
    /\ asked[c] = None
    /\ status = "running"
    /\ \E r \in Requests :
          asked' = [asked EXCEPT ![c] = r] /\ sent' = [sent EXCEPT ![c] = r]
    /\ UNCHANGED <<setupVars, pc, tab, conn, backlog, answer, serving, sockets,
                   q, status>>

\* modbus_read_registers() returns to the client.
Take(c) ==
    /\ answer[c] # None
    /\ asked' = [asked EXCEPT ![c] = None]
    /\ answer' = [answer EXCEPT ![c] = None]
    /\ UNCHANGED <<setupVars, pc, tab, conn, backlog, sent, serving, sockets,
                   q, status>>

\* The response timeout of the serial client, whose request was dropped.
TimesOut(c) ==
    /\ transport = "RTU"
    /\ asked[c] # None
    /\ sent[c] = None /\ q = None /\ answer[c] = None
    /\ asked' = [asked EXCEPT ![c] = None]
    /\ UNCHANGED <<setupVars, pc, tab, conn, backlog, sent, answer, serving,
                   sockets, q, status>>

\* The server does not know the connection (any more).
Forgotten(c) == serving # c /\ ~Contains(backlog, c)

\* The client is done, or has run out of retries.  What it sent is still
\* received, and answered to nobody, unless its connection is gone.
Disconnect(c) ==
    /\ transport = "TCP"
    /\ conn[c] = "open"
    /\ conn' = [conn EXCEPT ![c] = IF Forgotten(c) THEN "away" ELSE "closed"]
    /\ asked' = [asked EXCEPT ![c] = None]
    /\ answer' = [answer EXCEPT ![c] = None]
    /\ sent' = IF Forgotten(c) THEN [sent EXCEPT ![c] = None] ELSE sent
    /\ UNCHANGED <<setupVars, pc, tab, backlog, serving, sockets, q,
                   status>>

Server ==
    \/ Listen \/ ListenFails \/ Accept \/ AcceptFails
    \/ Receive \/ ConnectionClosed \/ ReceiveFails \/ Reply \/ ReplyFails

\* The server has ended or waits, and no client has anything to do.
Quiet == pc = "returned" /\ UNCHANGED vars

Next ==
    \/ InitModbus \/ InitModbusFails \/ FillMap
    \/ Server
    \/ \E c \in Connections : 
          Connect(c) \/ Ask(c) \/ Take(c) \/ TimesOut(c) \/ Disconnect(c)
    \/ Quiet

Spec == Init /\ [][Next]_vars

\* A client with nothing to ask goes.
Done(c) == asked[c] = None /\ Disconnect(c)

\* What the server must do.  A call that waits returns when a connection or a
\* request is there to be had, and need not fail before.
Due ==
    \/ Listen \/ ListenFails \/ Accept
    \/ AcceptFails /\ backlog # <<>>
    \/ Receive \/ ConnectionClosed
    \/ ReceiveFails /\ sent[serving] # None
    \/ Reply \/ ReplyFails

\* The server takes every step that is due.  A client takes its answers, gives up
\* a serial request that was dropped, and asks a finite number of times (the
\* suns client reads one device and exits); how long it waits for an answer
\* over TCP is its own affair.
FairSpec ==
    /\ Spec
    /\ WF_vars(Due)
    /\ \A c \in Connections :
          WF_vars(Take(c)) /\ WF_vars(TimesOut(c)) /\ SF_vars(Done(c))
-----------------------------------------------------------------------------
\* What is checked

TypeOK ==
    /\ transport \in {"TCP", "RTU"}
    /\ pc \in {"init", "setup", "listen", "accept", "receive", "reply",
               "returned"}
    /\ tab \in [1 .. MapSize -> Word]
    /\ conn \in [Connections -> {"away", "open", "closed"}]
    /\ \A i \in 1 .. Len(backlog) : backlog[i] \in Connections
    /\ Len(backlog) <= Backlog
    /\ serving \in Connections \union {None}
    /\ (serving = None) = (pc \in {"init", "setup", "listen", "accept", "returned"})
    /\ sockets \in 0 .. MaxSockets
    /\ asked \in [Connections -> Requests \union {None}]
    /\ sent \in [Connections -> Requests \union {None}]
    /\ q \in Requests \union {None} /\ (q # None) = (pc = "reply")
    /\ DOMAIN answer = Connections
    /\ \A c \in Connections : answer[c] = None \/ answer[c] \in Seq(Word)
    /\ status \in {"running", "success", "failure", "crashed"}

\* A literal the grammar supports and the buffer can take, in whole registers.
Supported(l) ==
    CASE l.form = "STRING" ->
            l.type = "string" /\ l.len % 2 = 0 /\ l.len <= BufferSize
      [] l.form = "FLOAT"  -> l.type \in {"bare", "float32"}
      [] OTHER -> l.type \in {"bare", "int16", "uint16", "int32", "uint32", "int64",
                              "uint64", "float32", "float64", "enum16",
                              "bitfield16", "bitfield32", "sunssf"}

\* The registers of n pairs of bytes, zeros where there are no bytes.
Paired(s, n) ==
    LET At(k) == IF k <= Len(s) THEN s[k] ELSE 0
    IN  [k \in 1 .. n |-> Register(At(2 * k - 1), At(2 * k))]

\* Word p of a number, as ByteOf, and its n lowest words in the order sent.
WordOf(v, p) ==
    IF p > 1 THEN IF v < 0 THEN MaxWord ELSE 0
    ELSE (v \div 65536 ^ p) % 65536
Number(v, n) == [k \in 1 .. n |-> WordOf(v, n - k)]

\* The registers a supported literal stands for.
Registers(l) ==
    CASE l.form = "STRING" -> Paired(l.s, l.len \div 2)
      [] l.form = "FLOAT" \/ (IsInteger(l) /\ l.type = "float32") ->
            Paired(FloatBytes(l.v, 4), 2)
      [] IsInteger(l) /\ l.type = "float64" -> Paired(FloatBytes(l.v, 8), 4)
      [] IsInteger(l) /\ l.type \in {"int32", "uint32", "bitfield32"} ->
            Number(l.v, 2)
      [] IsInteger(l) /\ l.type \in {"int64", "uint64"} -> Number(l.v, 4)
      [] OTHER -> Number(l.v, 1)

WrittenBlock(b) == FlattenSeq([j \in 1 .. Len(b) |-> Registers(b[j])])
Written(bs)     == FlattenSeq([k \in 1 .. Len(bs) |-> WrittenBlock(bs[k])])

WellWritten(bs) ==
    /\ \A k \in 1 .. Len(bs) : \A j \in 1 .. Len(bs[k]) : Supported(bs[k][j])
    /\ Len(Written(bs)) + 4 <= MapSize

\* Supported data that fits the map is served as it is written: an answer is
\* to the client's own question and holds, register for register, the
\* signature, the literals in the order of the files and the end marker; only
\* a read beyond the map is refused (suns_lang.y:337-575, suns_app.c:354-396).
ServedAsWritten ==
    \A c \in Connections : (answer[c] # None /\ WellWritten(blocks)) =>
       /\ asked[c] # None
       /\ (answer[c] = <<>>) = (asked[c].addr + asked[c].n > MapSize)
       /\ \A image \in {Signature \o Written(blocks) \o <<MaxWord, 0>>} :
             \A k \in 1 .. Len(answer[c]) :
                LET a == asked[c].addr + k
                IN  answer[c][k] = IF a <= Len(image) THEN image[a] ELSE 0

\* The offsets of the blocks, and of the end marker.
Starts(bs) ==
    LET at[k \in 1 .. Len(bs) + 1] ==
            IF k = 1 THEN 2 ELSE at[k - 1] + Len(WrittenBlock(bs[k - 1]))
    IN  at

\* The served map as the client sees it: the signature is behind register 1.
Served ==
    [window |-> << <<>>, Signature, <<>>, <<>> >>,
     mem    |-> [a \in 0 .. MapSize - 1 |-> tab[a + 1]],
     start  |-> Starts(blocks)]

\* Every block announces the registers that follow its header, and is not the
\* end marker itself.
Announced(bs) ==
    \A k \in 1 .. Len(bs) :
       LET w == WrittenBlock(bs[k])
       IN  Len(w) >= 2 /\ w[1] # 0 /\ w[2] = Len(w) - 2
           /\ ~(w[1] = MaxWord /\ w[2] = 0)

\* Blocks with a right header make a device the client reads to its end: one
\* model per block, then the end marker (suns_app.c:354-396 against 614-757).
IsReadableDevice ==
    (pc \in {"listen", "accept", "receive", "reply"}
       /\ WellWritten(blocks) /\ Announced(blocks)) =>
       \A d \in {Served} : /\ IsDevice(d, MapSize)
                           /\ IsEndMarker(Header(d, Last(d.start)))

\* A connection ends in the hands of the server: one that waits is accepted
\* or given up by its client, unless the server ends (suns_app.c:408-440).
Accepted ==
    \A c \in Connections :
       Contains(backlog, c) ~> (~Contains(backlog, c) \/ status # "running")

\* A request on the served connection is answered, dropped together with the
\* connection, or taken back by the client (suns_app.c:420-440).
Answered ==
    \A c \in Connections :
       (serving = c /\ asked[c] # None)
          ~> (answer[c] # None \/ asked[c] = None \/ serving # c)
=============================================================================
