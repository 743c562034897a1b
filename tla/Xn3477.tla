------------------------------- MODULE Xn3477 -------------------------------
(***************************************************************************)
(* An XN3477 endpoint (internal/protocol/xn3477): a Modbus server of its   *)
(* own that shows one battery as a stack (BAU) and its clusters (BCU), and *)
(* forwards control writes to the BMS slave.                               *)
(*                                                                         *)
(* After each tick the main goroutine copies registers to the endpoint, one *)
(* slave after the other and without Simulator.mu.  The endpoint's handler *)
(* writes the registers of a request one by one, and takes the mutex only  *)
(* to forward.  Other clients write to the battery between all of that.    *)
(***************************************************************************)
EXTENDS BatteryUnit, Sequences

CONSTANTS
    Clusters,      \* number of clusters
    XnRequests     \* requests of XN3477 clients: sequences of register writes

BAU    == 0               \* the stack's slave, as opposed to a cluster's
Slaves == 0..Clusters

\* The registers the endpoint shows the battery's state in: 0x1031 and 0x1032
\* of the BAU, 0x0019 and 0x001D of a BCU.
Shown == {"main", "work"}

ASSUME XnAssumption ==
    /\ Clusters \in Nat
    /\ \A r \in {"bmsReset", "closeHV", "openHV"} : [x \in {r} |-> 1] \in Requests
    /\ \A s \in XnRequests : s \in Seq([slave : Nat, reg : STRING, value : Int])

VARIABLES
    bau, bcu,    \* the main and work status of the stack and of each cluster
    at,          \* the slave to copy next: 0 the stack, then the clusters
    job,         \* what the handler has still to write of its request
    spoiled,     \* a client overwrote a status since the last tick
    openDue      \* an open command was forwarded since the last tick

endpoint == <<bau, bcu, at, job, spoiled, openDue>>
xnVars == <<vars, endpoint>>

-----------------------------------------------------------------------------
\* xnOnlineMain: 0 normal, 1 charge forbidden, 2 discharge forbidden.
OnlineMain(chargeForbidden, dischargeForbidden) ==
    IF chargeForbidden = 1 THEN 1 ELSE IF dischargeForbidden = 1 THEN 2 ELSE 0

\* Bug: a battery at rest is reported as standby, as other protocols name it.
RestIsStandby(status, cf, df) ==
    [main |-> IF status \in {3, 4} THEN OnlineMain(cf, df) ELSE 3,
     work |-> IF status = 3 THEN 2 ELSE IF status = 4 THEN 1 ELSE 0]

\* xnStatus: 40102 to run status and flow; 3 stands for an open contactor.
XnStatus(status, cf, df) ==
    [main |-> IF status \in {1, 3, 4} THEN OnlineMain(cf, df) ELSE 3,
     work |-> IF status = 3 THEN 2 ELSE IF status = 4 THEN 1 ELSE 0]

\* syncClusterRegisters: the status register of every cluster, which is an input
\* register and follows from the state the last tick left.
ClusterStatus ==
    IF ~hv THEN 2
    ELSE IF p # 0 THEN (IF p < 0 THEN 3 ELSE 4)
    ELSE IF running THEN 5 ELSE 1

\* xnClusterStatus; offline and faulted clusters are reported as stopped.
XnClusterStatus(status, cf, df) ==
    [main |-> IF status \in {1, 3, 4, 5} THEN OnlineMain(cf, df)
              ELSE IF status = 2 THEN 3 ELSE 4,
     work |-> IF status = 3 THEN 2 ELSE IF status = 4 THEN 1 ELSE 0]

StackNow == XnStatus(tel["bmsStatus"], tel["chargeForbid"], tel["dischargeForbid"])
ClusterNow ==
    XnClusterStatus(ClusterStatus, tel["chargeForbid"], tel["dischargeForbid"])

XnInit ==
    /\ Init
    /\ bau = StackNow
    /\ bcu = [i \in 1..Clusters |-> ClusterNow]
    /\ at = Clusters + 1 /\ job = <<>>
    /\ spoiled = FALSE /\ openDue = FALSE

-----------------------------------------------------------------------------
(***************************************************************************)
(* The main goroutine.                                                     *)
(***************************************************************************)
XnTick ==
    /\ at = Clusters + 1
    /\ Tick
    /\ at' = 0 /\ spoiled' = FALSE /\ openDue' = FALSE
    /\ UNCHANGED <<bau, bcu, job>>

SyncBAU ==
    /\ at = 0
    /\ bau' = StackNow
    /\ at' = 1
    /\ UNCHANGED <<vars, bcu, job, spoiled, openDue>>

SyncBCU ==
    /\ at \in 1..Clusters
    /\ bcu' = [bcu EXCEPT ![at] = ClusterNow]
    /\ at' = at + 1
    /\ UNCHANGED <<vars, bau, job, spoiled, openDue>>

-----------------------------------------------------------------------------
(***************************************************************************)
(* Clients of the other protocols, and the endpoint's handler.             *)
(***************************************************************************)
Source == {"bmsStatus", "chargeForbid", "dischargeForbid"}

Client(w) ==
    /\ Write(w)
    /\ spoiled' = (spoiled \/ Source \cap DOMAIN w # {})
    /\ openDue' = (openDue /\ ("openHV" \in DOMAIN w => w["openHV"] = 1))
    /\ UNCHANGED <<bau, bcu, at, job>>

\* A server handles one request at a time.
Receive(s) ==
    /\ job = <<>>
    /\ job' = s
    /\ UNCHANGED <<vars, bau, bcu, at, spoiled, openDue>>

\* Bug: both values of the high-voltage register close the contactor.
AlwaysCloses(w) ==
    CASE w.slave = BAU /\ w.reg = "faultReset" /\ w.value = 1 -> {"bmsReset"}
      [] w.slave = BAU /\ w.reg = "hvControl" /\ w.value \in {1, 2} -> {"closeHV"}
      [] w.slave # BAU /\ w.reg = "faultReset" /\ w.value = 1 -> {"bmsReset"}
      [] OTHER -> {}

\* forwardBAUControl, and the reset of a BCU: the BMS register to set to 1.
Forwarded(w) ==
    CASE w.slave = BAU /\ w.reg = "faultReset" /\ w.value = 1 -> {"bmsReset"}
      [] w.slave = BAU /\ w.reg = "hvControl" /\ w.value = 1 -> {"closeHV"}
      [] w.slave = BAU /\ w.reg = "hvControl" /\ w.value = 2 -> {"openHV"}
      [] w.slave # BAU /\ w.reg = "faultReset" /\ w.value = 1 -> {"bmsReset"}
      [] OTHER -> {}

\* Bug: a forwarded command acts at once instead of at the next tick.
ActAtOnce(r) ==
    /\ hv' = (r = "closeHV" \/ (hv /\ r # "openHV"))
    /\ UNCHANGED <<ctl, tel, running, remote, gridTied, fault, p, q, volt,
                   energy, charged, discharged, lastCmd, lastAlias>>

\* Simulator.WriteHolding sets the register, and the tick takes the pulse.
Forward(r) == Write([x \in {r} |-> 1])

\* The bank takes the value before anything else; a status it overwrites stays
\* until the next copy.
Stored(w) ==
    IF w.reg \notin Shown THEN UNCHANGED <<bau, bcu, spoiled>>
    ELSE /\ spoiled' = TRUE
         /\ IF w.slave = BAU
            THEN bau' = [bau EXCEPT ![w.reg] = w.value] /\ UNCHANGED bcu
            ELSE bcu' = [bcu EXCEPT ![w.slave][w.reg] = w.value] /\ UNCHANGED bau

\* One register of the request, in handleWriteSingle or handleWriteMultiple.
HandleOne ==
    /\ job # <<>> /\ Head(job).slave \in Slaves
    /\ Stored(Head(job))
    /\ \/ /\ Forwarded(Head(job)) = {}
          /\ UNCHANGED <<vars, openDue>>
       \/ \E r \in Forwarded(Head(job)) :
             /\ Forward(r)
             /\ openDue' = (openDue \/ (Head(job).reg = "hvControl" /\ Head(job).value = 2))
    /\ job' = Tail(job)
    /\ UNCHANGED at

\* An exception: the rest of the request is dropped.
Reject ==
    /\ job # <<>> /\ Head(job).slave \notin Slaves
    /\ job' = <<>>
    /\ UNCHANGED <<vars, bau, bcu, at, spoiled, openDue>>

XnNext ==
    \/ XnTick \/ SyncBAU \/ SyncBCU
    \/ \E w \in Requests : Client(w)
    \/ \E s \in XnRequests : Receive(s)
    \/ HandleOne \/ Reject

XnSpec == XnInit /\ [][XnNext]_xnVars

-----------------------------------------------------------------------------
\* Whatever an endpoint does, the battery behind it behaves as one that clients
\* write to directly.
BehavesAsUnit == Spec

\* Once the copies of a tick are made, stack and clusters report the same, unless
\* a client has overwritten a status since (registers.go:267): open contactors and
\* only those as standby, and the flow the way it goes, although the stack's
\* status comes from one register and the clusters' from another with other values.
StackAndClustersAgree ==
    at = Clusters + 1 /\ ~spoiled =>
        /\ \A i \in 1..Clusters : bcu[i] = bau
        /\ (bau.main = 3) <=> ~hv
        /\ bau.work = IF p < 0 THEN 2 ELSE IF p > 0 THEN 1 ELSE 0

\* An open command that has been forwarded opens the contactor at the next tick
\* and stops the power, even if a close command of the same or of another client
\* comes after it.
ForwardedOpenOpens == [][XnTick /\ openDue => ~hv' /\ p' = 0 /\ q' = 0]_xnVars
=============================================================================
