---------------------------- MODULE ModbusServer ----------------------------
(***************************************************************************)
(* The Modbus server (internal/mbserver) with the handlers the simulator   *)
(* registers: one goroutine per connection reads frames and offers them on *)
(* an unbuffered channel, one goroutine answers all of them in turn, and   *)
(* the tick takes the same Simulator.mu as the writing handlers.  The      *)
(* XN3477 endpoints are further instances of the same server.              *)
(*                                                                         *)
(* A connection speaks MBAP or RTU over TCP.  A frame is one of:           *)
(*   "read"     answered without changing a holding register: FC3, FC4, a  *)
(*              coil function of the default handlers, or anything for a   *)
(*              slave that is not configured                               *)
(*   "write"    FC16 of both settings, "stop" FC6 of one of them           *)
(*   "odd"      an unknown function, or a byte count that contradicts the  *)
(*              register count                                             *)
(*   "garbled"  a length above the maximum, or a wrong checksum            *)
(*   "empty"    MBAP only: a length of 0 in the header                     *)
(*   "short"    MBAP only: FC15 or FC16 that ends before its byte count    *)
(* A frame of the last two kinds panics in the goroutine of its connection *)
(* and, as nothing recovers, ends the process.  Addresses are inside the   *)
(* register space.  Close is left out: the process ends with it.           *)
(***************************************************************************)
EXTENDS Integers, Sequences

CONSTANTS
    Conns,        \* the connections
    Transport,    \* "tcp" or "rtu", for each connection
    MaxFrames,    \* bound: how many frames the client of each one sends
    Sends,        \* bound: the kinds of frame it sends
    Window        \* bound: how many answers a socket buffers unread

MBAPOnly == {"empty", "short"}
Kinds    == {"read", "write", "stop", "odd", "garbled"} \cup MBAPOnly
Settings == {"active", "reactive"}     \* two registers one frame may write

ASSUME ServerAssumption ==
    /\ Transport \in [Conns -> {"tcp", "rtu"}]
    /\ MaxFrames \in [Conns -> Nat]
    /\ Sends \in [Conns -> SUBSET Kinds]
    /\ \A c \in Conns : Transport[c] = "rtu" => Sends[c] \cap MBAPOnly = {}
    /\ Window \in Nat \ {0}

VARIABLES
    up,          \* the process runs; once it has ended, the rest stays as it was
    conn,        \* "open", "gone" (the client hung up), "shut" (by the server)
    sent,        \* how many frames each client has sent
    inbox,       \* frames in the socket, unread
    offered,     \* frames a connection's goroutine offers on requestChan
    outbox,      \* numbers of answers in the socket, unread
    answered,    \* number of the last answer each client has read
    stage,       \* of the handler goroutine: "idle", "run" or "reply"
    request,     \* <<connection, frame>> it handles
    setting,     \* the bank
    mu,          \* Simulator.mu: "free" or "tick"
    seen         \* the settings the running tick has read so far

netVars == <<conn, sent, inbox, outbox, answered>>
simVars == <<setting, mu, seen>>
vars    == <<up, netVars, offered, stage, request, simVars>>

Frame == [n : Nat, kind : Kinds]

\* What a write frame stores.
Content(kind) ==
    IF kind = "write" THEN [r \in Settings |-> 1] ELSE [r \in {"active"} |-> 0]

\* The length in an MBAP header: of what follows it, the unit id included.
MBAPLength ==
    [read |-> 6, stop |-> 6, write |-> 11, odd |-> 6, garbled |-> 300,
     empty |-> 0, short |-> 6]

\* What accept computes from it, in 16 bits: how much is still to be read after
\* the seven bytes of the header, and where in the packet that ends.
U16(n)          == n % 65536
BytesNeeded(kind) == U16(MBAPLength[kind] - 1)
PacketEnd(kind) == U16(BytesNeeded(kind) + 7)

LengthAccepted(kind) == PacketEnd(kind) <= 260 /\ BytesNeeded(kind) > 0

\* A length of 0 wraps twice (so do 65530 and more), and the slice of the packet
\* would end before it begins; a short frame has no byte count to look at.
Panics(t, kind) ==
    t = "tcp" /\ LengthAccepted(kind) /\ (PacketEnd(kind) < 7 \/ kind = "short")

\* NewTCPFrame and checkDataLength check function, lengths and counts.
ParsesTCP(kind) == LengthAccepted(kind) /\ ~Panics("tcp", kind) /\ kind # "odd"

\* NewRTUFrame checks the checksum only: the handlers refuse the rest.
ParsesRTU(kind) == kind # "garbled"

Parses(t, kind) == IF t = "tcp" THEN ParsesTCP(kind) ELSE ParsesRTU(kind)

\* The frames whose handler takes Simulator.mu and stores something.
Stores(kind) == kind \in {"write", "stop"}

Init ==
    /\ up = TRUE
    /\ conn = [c \in Conns |-> "open"]
    /\ sent = [c \in Conns |-> 0]
    /\ inbox = [c \in Conns |-> <<>>]
    /\ offered = [c \in Conns |-> {}]
    /\ outbox = [c \in Conns |-> <<>>]
    /\ answered = [c \in Conns |-> 0]
    /\ stage = "idle" /\ request = <<>>
    /\ setting = [r \in Settings |-> 0]
    /\ mu = "free" /\ seen = <<>>

-----------------------------------------------------------------------------
(***************************************************************************)
(* The clients.  They may send without waiting for answers, stop reading,  *)
(* and hang up at any moment.                                              *)
(***************************************************************************)
Send(c, kind) ==
    /\ up /\ conn[c] = "open" /\ sent[c] < MaxFrames[c]
    /\ sent' = [sent EXCEPT ![c] = @ + 1]
    /\ inbox' = [inbox EXCEPT ![c] = Append(@, [n |-> sent[c] + 1, kind |-> kind])]
    /\ UNCHANGED <<up, conn, outbox, answered, offered, stage, request, simVars>>

Receive(c) ==
    /\ conn[c] # "gone" /\ outbox[c] # <<>>
    /\ answered' = [answered EXCEPT ![c] = Head(outbox[c])]
    /\ outbox' = [outbox EXCEPT ![c] = Tail(@)]
    /\ UNCHANGED <<up, conn, sent, inbox, offered, stage, request, simVars>>

HangUp(c) ==
    /\ conn[c] = "open"
    /\ conn' = [conn EXCEPT ![c] = "gone"]
    /\ outbox' = [outbox EXCEPT ![c] = <<>>]
    /\ UNCHANGED <<up, sent, inbox, answered, offered, stage, request, simVars>>

-----------------------------------------------------------------------------
(***************************************************************************)
(* The goroutine of a connection.  It reads the next frame only after the  *)
(* handler has taken the last one.  At the first frame that does not parse *)
(* it closes the connection, or panics and takes the process with it.      *)
(***************************************************************************)
Shut(c) ==
    /\ conn' = [conn EXCEPT ![c] = "shut"]
    /\ inbox' = [inbox EXCEPT ![c] = <<>>]
    /\ UNCHANGED <<up, sent, outbox, answered, offered, stage, request, simVars>>

Offer(c) ==
    /\ inbox' = [inbox EXCEPT ![c] = Tail(@)]
    /\ offered' = [offered EXCEPT ![c] = @ \cup {Head(inbox[c])}]
    /\ UNCHANGED <<up, conn, sent, outbox, answered, stage, request, simVars>>

Die == up' = FALSE /\ UNCHANGED <<netVars, offered, stage, request, simVars>>

Treat(c, kind) ==
    \/ Parses(Transport[c], kind) /\ Offer(c)
    \/ Panics(Transport[c], kind) /\ Die
    \/ ~Parses(Transport[c], kind) /\ ~Panics(Transport[c], kind) /\ Shut(c)

\* Bug: every frame is offered by a goroutine of its own.
ReadAhead(c) ==
    /\ up /\ conn[c] # "shut" /\ inbox[c] # <<>>
    /\ Treat(c, Head(inbox[c]).kind)

ReadFrame(c) ==
    /\ up /\ conn[c] # "shut" /\ inbox[c] # <<>> /\ offered[c] = {}
    /\ Treat(c, Head(inbox[c]).kind)

\* The read fails: at the end of the stream, or early after a reset.
ReadEnd(c) ==
    /\ up /\ conn[c] = "gone" /\ offered[c] = {}
    /\ Shut(c)

-----------------------------------------------------------------------------
(***************************************************************************)
(* The handler goroutine.                                                  *)
(***************************************************************************)
Take(c) ==
    /\ up /\ stage = "idle"
    /\ \E f \in offered[c] :
          /\ request' = <<c, f>>
          /\ offered' = [offered EXCEPT ![c] = @ \ {f}]
    /\ stage' = "run"
    /\ UNCHANGED <<up, netVars, simVars>>

Stored(kind) ==
    [r \in Settings |-> IF r \in DOMAIN Content(kind) THEN Content(kind)[r]
                        ELSE setting[r]]

\* Bug: the writing handlers do not take Simulator.mu.
HandleUnlocked ==
    /\ up /\ stage = "run"
    /\ setting' = IF Stores(request[2].kind)
                  THEN Stored(request[2].kind) ELSE setting
    /\ stage' = "reply"
    /\ UNCHANGED <<up, netVars, offered, request, mu, seen>>

\* handle: a write waits for Simulator.mu and stores all of its registers
\* before the lock is free again.  Anything else changes no setting; a refused
\* frame gets an exception as its answer.
Handle ==
    /\ up /\ stage = "run"
    /\ IF Stores(request[2].kind)
       THEN mu = "free" /\ setting' = Stored(request[2].kind)
       ELSE UNCHANGED setting
    /\ stage' = "reply"
    /\ UNCHANGED <<up, netVars, offered, request, mu, seen>>

Answer(c, n) ==
    /\ stage' = "idle" /\ request' = <<>>
    /\ outbox' = [outbox EXCEPT ![c] = n]
    /\ UNCHANGED <<up, conn, sent, inbox, answered, offered, simVars>>

\* Bug: a write to a connection that is gone never returns.
ReplyToOpenOnly(c) ==
    /\ up /\ stage = "reply" /\ c = request[1]
    /\ conn[c] = "open" /\ Len(outbox[c]) < Window
    /\ Answer(c, Append(outbox[c], request[2].n))

\* conn.Write blocks while the socket is full and fails, without effect,
\* once the connection is down.
Reply(c) ==
    /\ up /\ stage = "reply" /\ c = request[1]
    /\ \/ /\ conn[c] = "open" /\ Len(outbox[c]) < Window
          /\ Answer(c, Append(outbox[c], request[2].n))
       \/ /\ conn[c] # "open"
          /\ Answer(c, outbox[c])

-----------------------------------------------------------------------------
(***************************************************************************)
(* The tick reads one register after the other, each under the lock of the *)
(* bank only, and holds Simulator.mu over all of them.                     *)
(***************************************************************************)
TickStart ==
    /\ up /\ mu = "free"
    /\ mu' = "tick" /\ seen' = <<>>
    /\ UNCHANGED <<up, netVars, offered, stage, request, setting>>

TickRead ==
    /\ up /\ mu = "tick" /\ Len(seen) < 2
    /\ seen' = Append(seen, setting[<<"active", "reactive">>[Len(seen) + 1]])
    /\ UNCHANGED <<up, netVars, offered, stage, request, setting, mu>>

TickEnd ==
    /\ up /\ mu = "tick" /\ Len(seen) = 2
    /\ mu' = "free" /\ seen' = <<>>
    /\ UNCHANGED <<up, netVars, offered, stage, request, setting>>

\* Nothing but the clients goes on after the end of the process.
Ended == ~up /\ UNCHANGED vars

Next ==
    \/ \E c \in Conns :
          \/ \E kind \in Sends[c] : Send(c, kind)
          \/ Receive(c) \/ HangUp(c)
          \/ ReadFrame(c) \/ ReadEnd(c)
          \/ Take(c) \/ Reply(c)
    \/ Handle
    \/ TickStart \/ TickRead \/ TickEnd
    \/ Ended

Spec == Init /\ [][Next]_vars

\* Every goroutine runs.  Blocked senders of a channel wait in a queue, and a
\* sync.Mutex hands itself over to a goroutine that has starved: both are
\* strongly fair.  Nothing is assumed of the clients.
FairSpec ==
    /\ Spec
    /\ \A c \in Conns : WF_vars(ReadFrame(c)) /\ WF_vars(ReadEnd(c))
    /\ \A c \in Conns : SF_vars(Take(c)) /\ WF_vars(Reply(c))
    /\ SF_vars(Handle)
    /\ WF_vars(TickRead) /\ WF_vars(TickEnd)

-----------------------------------------------------------------------------
(***************************************************************************)
(* Properties.                                                             *)
(***************************************************************************)

\* Every variable has its type.
TypeOK ==
    /\ up \in BOOLEAN /\ conn \in [Conns -> {"open", "gone", "shut"}]
    /\ sent \in [Conns -> Nat] /\ answered \in [Conns -> Nat]
    /\ inbox \in [Conns -> Seq(Frame)] /\ outbox \in [Conns -> Seq(Nat)]
    /\ offered \in [Conns -> SUBSET Frame]
    /\ stage \in {"idle", "run", "reply"}
    /\ stage # "idle" => request \in Conns \X Frame
    /\ setting \in [Settings -> {0, 1}]
    /\ mu \in {"free", "tick"} /\ seen \in Seq({0, 1}) /\ Len(seen) <= 2

\* A client that pipelines frames gets the answers in the order of the
\* frames, none missing and none twice, although the connections share one
\* handler and a frame may be refused.
AnswersInOrder ==
    [][\A c \in Conns : answered'[c] \in {answered[c], answered[c] + 1}]_vars

\* No client write lands between two register reads of a tick: what the tick
\* has read so far is what the bank holds.
TickSeesOneBank ==
    \A i \in 1..Len(seen) : seen[i] = setting[<<"active", "reactive">>[i]]

\* Every client reads its answers sooner or later.  One that does not keeps
\* the only handler, and so every other client, waiting.
ClientsRead == \A c \in Conns : []<>(outbox[c] = <<>>)

\* If the clients read, every frame is answered, whatever the other clients send
\* and whenever they hang up, unless its own connection ends first - its client
\* hangs up, or the server closes it at a frame of that client which it refuses -
\* or a frame of any client at which the server panics ends the process.
EveryRequestAnswered ==
    ClientsRead =>
        \A c \in Conns : \A n \in 1..MaxFrames[c] :
            sent[c] >= n ~> answered[c] >= n \/ conn[c] # "open" \/ ~up
=============================================================================
