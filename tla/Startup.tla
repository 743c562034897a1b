------------------------------ MODULE Startup ------------------------------
(***************************************************************************)
(* The process as a whole (cmd/virtual_bess/run.go): it loads a            *)
(* configuration, starts its services one by one, restores the state,      *)
(* serves, and closes everything again, after a signal or after a service  *)
(* that did not start.  StateStore is the part of it that counts and       *)
(* saves; every step here is one of its steps or leaves it alone.          *)
(*                                                                         *)
(* The energy counted is that of one unit, which every configuration has.  *)
(* It is what the registers show after each tick, and what the XN3477 and  *)
(* IEC 61850 servers show after they have copied the registers.            *)
(***************************************************************************)
EXTENDS StateStore, Config

CONSTANT Configs     \* the configurations the program is started with

ASSUME ConfigsAssumption ==
    \A c \in Configs : /\ IsSequence(c.bats) /\ IsSequence(c.others)
                       /\ IsSequence(c.xn) /\ IsSequence(c.iec) /\ IsSequence(c.can)

VARIABLES
    cfg,       \* the configuration of this process
    phase,     \* "off", "starting", "up", "closing"
    todo,      \* the services still to start
    open,      \* the services that run, from "closing" on in closing order
    why,       \* why the last start ended: "none", "refused", "unknown",
               \* "clash", "environment"
    reg, copy, \* the energy the banks show, and the protocol servers' copies
    ticked,    \* the loop has ticked since the start
    synced,    \* the copies were made after the last tick
    talking    \* frames arrive at the CAN interfaces

shown == <<reg, copy, ticked, synced>>
services == <<cfg, phase, todo, open, why>>
startVars == <<vars, services, shown, talking>>

StartupInit ==
    /\ Init
    /\ cfg \in Configs
    /\ phase = "off" /\ todo = <<>> /\ open = <<>> /\ why = "none"
    /\ reg = 0 /\ copy = 0 /\ ticked = FALSE /\ synced = TRUE
    /\ talking \in BOOLEAN

-----------------------------------------------------------------------------
\* LoadConfig refuses what validate does not accept, and run returns.
Refuse(c) ==
    /\ phase = "off" /\ ~Accepted(c)
    /\ cfg' = c /\ why' = "refused"
    /\ UNCHANGED <<vars, phase, todo, open, shown, talking>>

Launch(c) ==
    /\ phase = "off" /\ Accepted(c)
    /\ cfg' = c /\ why' = "none"
    /\ phase' = "starting" /\ todo' = Plan(c)
    /\ UNCHANGED <<vars, open, shown, talking>>

Clashes(s) == \E i \in DOMAIN open : Clash(open[i], s)

\* ListenTCP, ListenRTUOverTCP, one endpoint of XN3477 or IEC 61850, or one CAN
\* publisher.
StartOne ==
    /\ phase = "starting" /\ todo # <<>> /\ Head(todo).kind # "sim"
    /\ Resolves(cfg, Head(todo)) /\ ~Clashes(Head(todo))
    /\ open' = Append(open, Head(todo)) /\ todo' = Tail(todo)
    /\ UNCHANGED <<vars, cfg, phase, why, shown, talking>>

\* NewSimulator, which ends with a sync of every bank.
Build ==
    /\ phase = "starting" /\ todo # <<>> /\ Head(todo).kind = "sim"
    /\ Start
    /\ todo' = Tail(todo)
    /\ reg' = 0 /\ copy' = 0 /\ ticked' = FALSE /\ synced' = TRUE
    /\ UNCHANGED <<cfg, phase, open, why, talking>>

\* CAN first, then IEC 61850, XN3477, and the Modbus listeners.
OfKind(s, kind) == SelectSeq(s, LAMBDA e : e.kind = kind)
ClosingOrder(s) ==
    OfKind(s, "can") \o OfKind(s, "iec") \o OfKind(s, "xn")
        \o OfKind(s, "modbus") \o OfKind(s, "rtu")

\* A service does not start: what it refers to is unknown, its address is taken
\* by a listener of this process, or the environment refuses.  The services of
\* its kind that have started are closed first, by StartServer or
\* StartPublishers, and then the others by services.Close.
StartFails ==
    /\ phase = "starting" /\ todo # <<>> /\ Head(todo).kind # "sim"
    /\ why' = IF ~Resolves(cfg, Head(todo)) THEN "unknown"
              ELSE IF Clashes(Head(todo)) THEN "clash"
              ELSE "environment"
    /\ phase' = "closing" /\ todo' = <<>> /\ open' = ClosingOrder(open)
    /\ UNCHANGED <<vars, cfg, shown, talking>>

\* restoreState does not touch the registers.
Restore ==
    /\ phase = "starting" /\ todo = <<>>
    /\ RestoreState
    /\ phase' = "up"
    /\ UNCHANGED <<cfg, todo, open, why, shown, talking>>

-----------------------------------------------------------------------------
\* Bug: the loop ticks on while the services are being closed.
TickAtAnyTime ==
    /\ phase \in {"up", "closing"} /\ synced /\ counted < MaxEnergy
    /\ counted' \in {counted, counted + 1}
    /\ reg' = counted' /\ ticked' = TRUE /\ synced' = FALSE
    /\ UNCHANGED <<pc, snap, file, tmp, loaded, signalled, crashes, copy, services,
                   talking>>

\* Bug: the registers are synced before the units are updated.
TickSyncedFirst ==
    /\ phase = "up" /\ synced
    /\ Tick
    /\ reg' = counted /\ ticked' = TRUE /\ synced' = FALSE
    /\ UNCHANGED <<copy, services, talking>>

\* The loop: Tick ends with syncAll, and syncProtocols follows before anything
\* else is received.
LoopTick ==
    /\ phase = "up" /\ synced
    /\ Tick
    /\ reg' = counted' /\ ticked' = TRUE /\ synced' = FALSE
    /\ UNCHANGED <<copy, services, talking>>

SyncProtocols ==
    /\ phase = "up" /\ ~synced
    /\ copy' = reg /\ synced' = TRUE
    /\ UNCHANGED <<vars, services, reg, ticked, talking>>

LoopSave ==
    /\ phase = "up" /\ synced
    /\ Save
    /\ UNCHANGED <<services, shown, talking>>

LoopSignal ==
    /\ phase = "up" /\ synced
    /\ Signal
    /\ UNCHANGED <<services, shown, talking>>

\* serveLoop has returned, and the deferred services.Close runs.
BeginClose ==
    /\ phase = "up" /\ pc = "stopped"
    /\ phase' = "closing" /\ open' = ClosingOrder(open)
    /\ UNCHANGED <<vars, cfg, todo, why, shown, talking>>

\* A CAN publisher is closed when its recvLoop has returned from Recv, and that
\* takes a frame.  Listeners close at once.
CloseOne ==
    /\ phase = "closing" /\ open # <<>>
    /\ Head(open).kind = "can" => talking
    /\ open' = Tail(open)
    /\ UNCHANGED <<vars, cfg, phase, todo, why, shown, talking>>

\* run returns.
Exit ==
    /\ phase = "closing" /\ open = <<>>
    /\ Rerun \/ FailStart \/ (pc = "down" /\ UNCHANGED vars)
    /\ phase' = "off"
    /\ UNCHANGED <<cfg, todo, open, why, shown, talking>>

\* The process is killed, by SIGKILL, by a signal before serveLoop has called
\* signal.Notify, or by the Go runtime when NewSimulator registers handlers that
\* a request is just reading.
Kill ==
    /\ phase # "off"
    /\ Crash \/ Rerun \/ (pc = "down" /\ UNCHANGED vars)
    /\ phase' = "off" /\ todo' = <<>> /\ open' = <<>>
    /\ UNCHANGED <<cfg, why, shown, talking>>

BusChanges == talking' = ~talking /\ UNCHANGED <<vars, services, shown>>

Loop == LoopTick \/ SyncProtocols \/ LoopSave \/ LoopSignal \/ BeginClose

StartupNext ==
    \/ \E c \in Configs : Refuse(c) \/ Launch(c)
    \/ StartOne \/ Build \/ StartFails \/ Restore
    \/ Loop
    \/ CloseOne \/ Exit
    \/ Kill \/ BusChanges

StartupSpec == StartupInit /\ [][StartupNext]_startVars

\* The main goroutine goes on.  A publisher that waits for a frame is let go when
\* frames keep coming.
FairStartup ==
    /\ StartupSpec
    /\ WF_startVars(SyncProtocols \/ LoopSave \/ BeginClose \/ Exit)
    /\ SF_startVars(CloseOne)

-----------------------------------------------------------------------------
\* Starting, closing and the protocol servers never disturb the life of the
\* process around its state file.
StoreLife == Spec

Addressed(c) == <<c.modbus>> \o Field(c.xn, "at")
HostsAgree(c) ==
    \A i, j \in DOMAIN Addressed(c) :
        Addressed(c)[i].port = Addressed(c)[j].port => Addressed(c)[i] = Addressed(c)[j]

\* No service of an accepted configuration is for a battery that does not exist.
UnitsAreKnown == why # "unknown"

\* What validate accepts starts: every service finds its battery, and no two
\* compete for an address, except for the addresses that it does not compare:
\* RTU-over-TCP and IEC 61850 with the others, the -port flag, and one port
\* written with different hosts.
AcceptedStarts ==
    /\ UnitsAreKnown
    /\ why = "clash" => \/ cfg.rtu # NoAddress \/ cfg.port # NoAddress
                        \/ IecDevices(cfg) # <<>>
                        \/ ~HostsAgree(cfg)

\* From the first tick on every protocol shows what has been counted, restored
\* energy included: the banks at once, the copies when syncProtocols has run.
\* Until that tick the servers answer with the energy of a new process.
ShownIsCounted ==
    phase = "up" => /\ ticked => reg = counted
                    /\ ticked /\ synced => copy = counted
                    /\ ~ticked => reg = 0 /\ copy = 0

\* Once told to end, by a signal or by a service that does not start, the
\* process ends, if frames keep coming on the CAN bus: even when the save fails
\* and wherever the start has got to.
ProcessEnds ==
    []<>talking =>
        ((phase = "closing" \/ (phase = "up" /\ signalled)) ~> phase = "off")
=============================================================================
