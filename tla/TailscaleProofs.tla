-------------------------- MODULE TailscaleProofs --------------------------
(***************************************************************************)
(* Proofs about Tailscale, for any set of requests.                        *)
(*                                                                         *)
(* That no tsnet server escapes the manager rests on three facts about the *)
(* lock.  Whoever runs a command of Connect holds it alone (LockInv), so   *)
(* the server that Connect found missing is still missing when Up returns  *)
(* (UpInv); and only a mode request changes the mode (ModeInv).            *)
(***************************************************************************)
EXTENDS Tailscale, TLAPS

LockInv ==
    /\ \A p \in Requests : p \in holder <=> pc[p] \in {"up", "ip"}
    /\ \A p, q \in holder : p = q

UpInv == \A p \in Requests : pc[p] = "up" => tm.mode = "cli" \/ ~tm.tsnetServer

ModeInv == \A p \in Requests : pc[p] = "mode" => then[p] = "saveMode"

IInv == TypeOK /\ LockInv /\ UpInv /\ ModeInv /\ ServerIsManaged

-----------------------------------------------------------------------------
\* What a mode request asks for is a mode once auto is resolved (DetectMode, SetMode).
LEMMA ResolveType == ASSUME NEW m \in ModeNames PROVE Resolve(m) \in Modes
BY DEF Resolve, ModeNames, Modes

\* The updates of the manager that leave its mode and its server keep its type.
LEMMA ManagerKept ==
    ASSUME NEW old \in Manager, NEW new,
           \/ new = old
           \/ new = [old EXCEPT !.authKey = TRUE]
           \/ new = [old EXCEPT !.connected = FALSE, !.localIP = ""]
           \/ new = [old EXCEPT !.connected = TRUE, !.localIP = "cli"]
    PROVE  new \in Manager /\ new.mode = old.mode /\ new.tsnetServer = old.tsnetServer
<1>1. CASE new = old
  BY <1>1
<1>2. CASE new = [old EXCEPT !.authKey = TRUE]
  BY <1>2 DEF Manager
<1>3. CASE new = [old EXCEPT !.connected = FALSE, !.localIP = ""]
  BY <1>3 DEF Manager
<1>4. CASE new = [old EXCEPT !.connected = TRUE, !.localIP = "cli"]
  BY <1>4 DEF Manager
<1> QED
  BY <1>1, <1>2, <1>3, <1>4

\* Going on moves one request and leaves the others where they are.
LEMMA GotoType ==
    ASSUME TypeOK, NEW p \in Requests, NEW stage \in Stages, Goto(p, stage)
    PROVE  /\ pc' \in [Requests -> Stages]
           /\ pc'[p] = stage
           /\ \A q \in Requests \ {p} : pc'[q] = pc[q]
BY DEF TypeOK, Goto

\* A request without the lock that goes where no lock is needed leaves the lock alone.
LEMMA LockKept ==
    ASSUME TypeOK, LockInv, NEW p \in Requests, NEW stage \in Stages \ {"up", "ip"},
           Goto(p, stage), pc[p] \notin {"up", "ip"}, UNCHANGED holder
    PROVE  LockInv'
<1>1. \A q \in Requests : q \in holder' <=> pc'[q] \in {"up", "ip"}
  BY GotoType DEF LockInv
<1> QED
  BY <1>1 DEF LockInv

\* The request that holds the lock gives it back.
LEMMA LockGiven ==
    ASSUME TypeOK, LockInv, NEW p \in Requests, NEW stage \in Stages \ {"up", "ip"},
           Goto(p, stage), pc[p] \in {"up", "ip"}, holder' = {}
    PROVE  LockInv'
<1>1. \A q \in Requests \ {p} : q \notin holder
  BY DEF LockInv
<1>2. \A q \in Requests : pc'[q] \notin {"up", "ip"}
  BY <1>1, GotoType DEF LockInv
<1> QED
  BY <1>2 DEF LockInv

\* The manager that main prepares is of its type, and counts its server.
LEMMA BootedType ==
    ASSUME saved \in [mode : ModeNames, key : BOOLEAN], NEW up \in BOOLEAN
    PROVE  /\ Booted(saved, up) \in Manager
           /\ Booted(saved, up).tsnetServer => Booted(saved, up).mode = "tsnet"
<1>1. saved.mode \in ModeNames /\ saved.key \in BOOLEAN
  OBVIOUS
<1>2. Resolve(saved.mode) \in Modes
  BY <1>1, ResolveType
<1> QED
  BY <1>1, <1>2 DEF Booted, Manager

\* The invariant holds when the program starts.
LEMMA InitInv == Init => IInv
<1> SUFFICES ASSUME Init PROVE IInv
  OBVIOUS
<1>1. TypeOK
  BY BootedType DEF Init, TypeOK, Stages, Servers, ModeNames
<1>2. LockInv /\ UpInv /\ ModeInv
  BY DEF Init, LockInv, UpInv, ModeInv
<1>3. ServerIsManaged
  BY BootedType DEF Init, ServerIsManaged
<1> QED
  BY <1>1, <1>2, <1>3 DEF IInv

\* A restart prepares the manager anew, and nothing else runs yet.
LEMMA RestartInv == IInv /\ Restart => IInv'
<1> SUFFICES ASSUME IInv, Restart PROVE IInv'
  OBVIOUS
<1>1. TypeOK'
  BY BootedType DEF IInv, Restart, TypeOK, Stages, Servers, ModeNames
<1>2. LockInv' /\ UpInv' /\ ModeInv'
  BY DEF Restart, LockInv, UpInv, ModeInv
<1>3. ServerIsManaged'
  BY BootedType DEF IInv, TypeOK, Restart, ServerIsManaged, Servers
<1> QED
  BY <1>1, <1>2, <1>3 DEF IInv

\* A new request holds nothing and has closed nothing.
LEMMA AskInv == ASSUME NEW p \in Requests PROVE IInv /\ Ask(p) => IInv'
<1> SUFFICES ASSUME IInv, NEW stage \in {"key", "connect", "status", "disconnect", "mode"},
                    NEW next \in {"idle", "connect", "saveMode"}, NEW m \in ModeNames,
                    Begin(p, stage, next, m), stage = "mode" => next = "saveMode"
             PROVE  IInv'
  BY DEF Ask, BeginConnect, BeginSettings, BeginStatus, BeginDisconnect, BeginMode, ModeNames, Modes
<1>1. TypeOK'
  BY DEF IInv, Begin, Goto, TypeOK, Stages
<1>2. LockInv'
  BY DEF IInv, Begin, Goto, TypeOK, LockInv
<1>3. UpInv' /\ ModeInv'
  BY DEF IInv, Begin, Goto, TypeOK, UpInv, ModeInv
<1>4. ServerIsManaged'
  BY DEF IInv, Begin, Goto, TypeOK, ServerIsManaged, Servers
<1> QED
  BY <1>1, <1>2, <1>3, <1>4 DEF IInv

\* The steps that write neither the mode nor the server and take no lock: a request
\* that is not about to close the server goes where no lock and no mode change are.
LEMMA QuietInv ==
    ASSUME IInv, NEW p \in Requests, NEW stage \in Stages \ {"up", "ip", "mode"}, Goto(p, stage),
           pc[p] \notin {"up", "ip", "close"},
           UNCHANGED <<holder, installed, running, then, want>>,
           tm' \in Manager,
           tm'.mode = tm.mode, tm'.tsnetServer = tm.tsnetServer,
           daemon' \in BOOLEAN, alone' \in SUBSET Requests, calm' \in BOOLEAN, kept' \in BOOLEAN, saved' \in [mode : ModeNames, key : BOOLEAN]
    PROVE  IInv'
<1>1. TypeOK'
  BY DEF IInv, Goto, TypeOK
<1>2. LockInv'
  BY LockKept DEF IInv
<1>3. UpInv' /\ ModeInv'
  BY DEF IInv, Goto, TypeOK, UpInv, ModeInv
<1>4. ServerIsManaged'
  BY DEF IInv, Goto, TypeOK, ServerIsManaged, Servers
<1> QED
  BY <1>1, <1>2, <1>3, <1>4 DEF IInv

\* Connect takes the lock when it runs a command, and then no server exists.
LEMMA ConnectInv == ASSUME NEW p \in Requests PROVE IInv /\ Connect(p) => IInv'
<1> SUFFICES ASSUME IInv, Connect(p) PROVE IInv'
  OBVIOUS
<1>1. TypeOK'
  BY DEF IInv, Connect, Goto, TypeOK, Stages
<1>2. LockInv'
  <2>1. CASE Goto(p, "up") /\ holder' = {p}
    <3>1. \A q \in Requests : pc[q] \notin {"up", "ip"}
      BY DEF IInv, LockInv, Connect, Free
    <3>2. \A q \in Requests : q \in holder' <=> pc'[q] \in {"up", "ip"}
      BY <2>1, <3>1, GotoType DEF IInv, Stages
    <3> QED
      BY <2>1, <3>2 DEF LockInv
  <2>2. CASE (Goto(p, "status") \/ Goto(p, "idle")) /\ UNCHANGED holder
    BY <2>2, LockKept DEF IInv, Connect, Stages
  <2> QED
    BY <2>1, <2>2 DEF Connect
<1>3. UpInv' /\ ModeInv'
  <2>1. UpInv'
    <3>1. pc'[p] = "up" => tm.mode = "cli" \/ ~tm.tsnetServer
      BY DEF IInv, TypeOK, Connect, NeedsUp, Goto
    <3>2. \A q \in Requests \ {p} : pc'[q] = pc[q]
      BY DEF IInv, TypeOK, Connect, Goto
    <3> QED
      BY <3>1, <3>2 DEF IInv, Connect, UpInv
  <2>2. ModeInv'
    BY DEF IInv, Connect, Goto, TypeOK, ModeInv
  <2> QED
    BY <2>1, <2>2
<1>4. ServerIsManaged'
  BY DEF IInv, Connect, Goto, TypeOK, ServerIsManaged, Servers
<1> QED
  BY <1>1, <1>2, <1>3, <1>4 DEF IInv

\* "tailscale up" runs under the lock and touches no server.
LEMMA UpCLIInv == ASSUME NEW p \in Requests PROVE IInv /\ ConnectCLI(p) => IInv'
<1> SUFFICES ASSUME IInv, ConnectCLI(p) PROVE IInv'
  OBVIOUS
<1>1. TypeOK'
  BY DEF IInv, ConnectCLI, Goto, TypeOK, Stages
<1>2. LockInv'
  <2>1. CASE Goto(p, "ip") /\ UNCHANGED holder
    <3>1. \A q \in Requests : q \in holder' <=> pc'[q] \in {"up", "ip"}
      BY <2>1, GotoType DEF IInv, ConnectCLI, LockInv, Stages
    <3> QED
      BY <2>1, <3>1 DEF IInv, LockInv
  <2>2. CASE Goto(p, "idle") /\ holder' = {}
    BY <2>2, LockGiven DEF IInv, ConnectCLI, Stages
  <2> QED
    BY <2>1, <2>2 DEF ConnectCLI
<1>3. UpInv' /\ ModeInv'
  BY DEF IInv, ConnectCLI, Goto, TypeOK, UpInv, ModeInv
<1>4. ServerIsManaged'
  BY DEF IInv, ConnectCLI, Goto, TypeOK, ServerIsManaged, Servers
<1> QED
  BY <1>1, <1>2, <1>3, <1>4 DEF IInv

\* So does "tailscale ip".
LEMMA IpCLIInv == ASSUME NEW p \in Requests PROVE IInv /\ ConnectedCLI(p) => IInv'
<1> SUFFICES ASSUME IInv, ConnectedCLI(p) PROVE IInv'
  OBVIOUS
<1>0. PICK ip \in {"cli", tm.localIP} : tm' = [tm EXCEPT !.localIP = ip, !.connected = TRUE]
  BY DEF ConnectedCLI
<1>a. tm'.mode = tm.mode /\ tm'.tsnetServer = tm.tsnetServer /\ tm' \in Manager
  BY <1>0 DEF IInv, TypeOK, Manager
<1>1. TypeOK'
  BY <1>a DEF IInv, ConnectedCLI, Goto, TypeOK, Stages
<1>2. LockInv'
  BY LockGiven DEF IInv, ConnectedCLI, Stages
<1>3. UpInv' /\ ModeInv'
  BY <1>a DEF IInv, ConnectedCLI, Goto, TypeOK, UpInv, ModeInv
<1>4. ServerIsManaged'
  BY <1>a DEF IInv, ConnectedCLI, Goto, TypeOK, ServerIsManaged, Servers
<1> QED
  BY <1>1, <1>2, <1>3, <1>4 DEF IInv

\* A tsnet server comes up, or not: if so it is the only one, and the mode is tsnet.
LEMMA TsnetInv == ASSUME NEW p \in Requests PROVE IInv /\ ConnectTsnet(p) => IInv'
<1> SUFFICES ASSUME IInv, ConnectTsnet(p) PROVE IInv'
  OBVIOUS
<1>a. PICK stage \in {"status", "idle"} : Goto(p, stage)
  BY DEF ConnectTsnet
<1>b. /\ pc' \in [Requests -> Stages] /\ pc'[p] = stage
      /\ \A q \in Requests \ {p} : pc'[q] = pc[q]
  BY <1>a, GotoType DEF IInv, Stages
<1>c. \A q \in Requests : pc'[q] # "up"
  BY <1>b DEF IInv, ConnectTsnet, LockInv
<1>d. \/ /\ tm' = [tm EXCEPT !.tsnetServer = TRUE, !.localIP = "tsnet", !.connected = TRUE]
         /\ running' = running + 1
      \/ UNCHANGED <<tm, running>>
  BY DEF ConnectTsnet
<1>1. TypeOK'
  <2>1. tm' \in Manager /\ running' \in Nat
    <3>1. tm \in Manager /\ running \in Nat
      BY DEF IInv, TypeOK
    <3>2. CASE UNCHANGED <<tm, running>>
      BY <3>1, <3>2
    <3>3. CASE /\ tm' = [tm EXCEPT !.tsnetServer = TRUE, !.localIP = "tsnet", !.connected = TRUE]
               /\ running' = running + 1
      <4>1. tm' \in Manager
        BY <3>1, <3>3 DEF Manager
      <4>2. running' \in Nat
        BY <3>1, <3>3
      <4> QED
        BY <4>1, <4>2
    <3> QED
      BY <1>d, <3>2, <3>3
  <2> QED
    BY <1>b, <2>1 DEF IInv, ConnectTsnet, TypeOK
<1>2. LockInv'
  BY <1>a, LockGiven DEF IInv, ConnectTsnet, Stages
<1>3. UpInv' /\ ModeInv'
  <2>1. UpInv'
    BY <1>c DEF UpInv
  <2>2. ModeInv'
    BY <1>b DEF IInv, ConnectTsnet, ModeInv
  <2> QED
    BY <2>1, <2>2
<1>4. ServerIsManaged'
  <2>1. ~tm.tsnetServer /\ running = 0
    BY DEF IInv, ConnectTsnet, UpInv, ServerIsManaged, Servers
  <2>2. CASE UNCHANGED <<tm, running>>
    BY <2>1, <2>2 DEF ServerIsManaged, Servers
  <2>3. CASE tm' = [tm EXCEPT !.tsnetServer = TRUE, !.localIP = "tsnet", !.connected = TRUE]
    <3>1. tm'.tsnetServer /\ tm'.mode = "tsnet"
      BY <2>3 DEF IInv, TypeOK, Manager, ConnectTsnet
    <3>2. running' = 1
      BY <1>d, <2>1, <3>1
    <3> QED
      BY <3>1, <3>2 DEF ServerIsManaged, Servers
  <2> QED
    BY <1>d, <2>2, <2>3
<1> QED
  BY <1>1, <1>2, <1>3, <1>4 DEF IInv

\* The server is closed: none is left.
LEMMA CloseInv == ASSUME NEW p \in Requests PROVE IInv /\ DisconnectTsnet(p) => IInv'
<1> SUFFICES ASSUME IInv, DisconnectTsnet(p) PROVE IInv'
  OBVIOUS
<1>a. then[p] \in Stages \ {"up", "ip", "close", "mode"}
  BY DEF IInv, TypeOK, Stages
<1>b. tm' \in Manager /\ tm'.mode = tm.mode /\ tm'.tsnetServer = FALSE
  <2>1. tm \in Manager
    BY DEF IInv, TypeOK
  <2>2. tm' = [tm EXCEPT !.connected = FALSE, !.localIP = "", !.tsnetServer = FALSE]
    BY DEF DisconnectTsnet
  <2> QED
    BY <2>1, <2>2 DEF Manager
<1>e. running' = 0
  BY DEF IInv, DisconnectTsnet, ServerIsManaged, Servers
<1>c. /\ pc' \in [Requests -> Stages] /\ pc'[p] = then[p]
      /\ \A q \in Requests \ {p} : pc'[q] = pc[q]
  BY <1>a, GotoType DEF IInv, DisconnectTsnet
<1>1. TypeOK'
  BY <1>b, <1>c, <1>e DEF IInv, DisconnectTsnet, TypeOK
<1>2. LockInv'
  BY <1>a, LockKept DEF IInv, DisconnectTsnet
<1>3. UpInv' /\ ModeInv'
  BY <1>a, <1>b, <1>c DEF IInv, DisconnectTsnet, UpInv, ModeInv
<1>4. ServerIsManaged'
  BY <1>b, <1>e DEF ServerIsManaged, Servers
<1> QED
  BY <1>1, <1>2, <1>3, <1>4 DEF IInv

\* The mode changes while nobody holds the lock; the request that leaves tsnet is the
\* one that will close the server.
LEMMA SetModeInv == ASSUME NEW p \in Requests PROVE IInv /\ SetMode(p) => IInv'
<1> SUFFICES ASSUME IInv, SetMode(p) PROVE IInv'
  OBVIOUS
<1>0. Resolve(want[p]) \in Modes
  BY ResolveType DEF IInv, TypeOK
<1>1. TypeOK'
  BY <1>0 DEF IInv, SetMode, Leaves, Goto, TypeOK, Stages, Manager
<1>2. LockInv'
  BY DEF IInv, SetMode, Leaves, Goto, TypeOK, LockInv
<1>3. UpInv' /\ ModeInv'
  BY DEF IInv, SetMode, Leaves, Goto, TypeOK, LockInv, UpInv, ModeInv, Free
<1>4. ServerIsManaged'
  BY <1>0 DEF IInv, SetMode, Leaves, Goto, TypeOK, ModeInv, ServerIsManaged, Servers, Modes
<1> QED
  BY <1>1, <1>2, <1>3, <1>4 DEF IInv

-----------------------------------------------------------------------------
\* Every step of a request keeps the invariant.
LEMMA StepInv == ASSUME NEW p \in Requests PROVE IInv /\ Step(p) => IInv'
<1> SUFFICES ASSUME IInv, Step(p) PROVE IInv'
  OBVIOUS
<1>0. TypeOK
  BY DEF IInv
<1>1. CASE Connect(p)
  BY <1>1, ConnectInv
<1>2. CASE ConnectCLI(p)
  BY <1>2, UpCLIInv
<1>3. CASE ConnectedCLI(p)
  BY <1>3, IpCLIInv
<1>4. CASE ConnectTsnet(p)
  BY <1>4, TsnetInv
<1>5. CASE DisconnectTsnet(p)
  BY <1>5, CloseInv
<1>6. CASE SetMode(p)
  BY <1>6, SetModeInv
<1>7. then[p] \in Stages \ {"up", "ip", "mode"}
  BY <1>0 DEF TypeOK, Stages
<1>8. ASSUME NEW stage \in Stages \ {"up", "ip", "mode"}, Goto(p, stage),
             pc[p] \notin {"up", "ip", "close"},
             UNCHANGED <<holder, installed, running, then, want>>,
             \/ UNCHANGED tm
             \/ tm' = [tm EXCEPT !.authKey = TRUE]
             \/ tm' = [tm EXCEPT !.connected = FALSE, !.localIP = ""]
             \/ tm' = [tm EXCEPT !.connected = TRUE, !.localIP = "cli"],
             daemon' \in BOOLEAN, alone' \in SUBSET Requests, calm' \in BOOLEAN, kept' \in BOOLEAN,
             \/ UNCHANGED saved
             \/ saved' = [saved EXCEPT !.key = TRUE]
             \/ saved' = [saved EXCEPT !.mode = want[p]]
      PROVE  IInv'
  <2>1. /\ tm' \in Manager
        /\ tm'.mode = tm.mode /\ tm'.tsnetServer = tm.tsnetServer
    BY <1>0, <1>8, ManagerKept DEF TypeOK
  <2>2. saved' \in [mode : ModeNames, key : BOOLEAN]
    BY <1>0, <1>8 DEF TypeOK
  <2> QED
    BY <1>8, <2>1, <2>2, QuietInv
<1>9. CASE SetAuthKey(p) \/ DisconnectedCLI(p) \/ StatusAnswered(p)
  BY <1>0, <1>7, <1>8, <1>9 DEF SetAuthKey, DisconnectedCLI, StatusAnswered, TypeOK, Stages
<1>10. CASE SaveKey(p) \/ SaveMode(p)
  BY <1>0, <1>7, <1>8, <1>10 DEF SaveKey, SaveMode, TypeOK, Stages
<1>11. CASE Disconnect(p)
  BY <1>0, <1>8, <1>11 DEF Disconnect, TypeOK, Stages
<1>12. CASE RunDown(p)
  BY <1>0, <1>7, <1>8, <1>12 DEF RunDown, TypeOK, Stages
<1>13. CASE GetStatus(p) \/ AskIP(p)
  BY <1>0, <1>8, <1>13 DEF GetStatus, AskIP, TypeOK, Stages
<1> QED
  BY <1>1, <1>2, <1>3, <1>4, <1>5, <1>6, <1>9, <1>10, <1>11, <1>12, <1>13 DEF Step

\* Nor does any other step disturb it.
LEMMA NextInv == IInv /\ [Next]_vars => IInv'
<1> SUFFICES ASSUME IInv, [Next]_vars PROVE IInv'
  OBVIOUS
<1>1. CASE \E p \in Requests : Ask(p) \/ Step(p)
  BY <1>1, AskInv, StepInv
<1>2. CASE Outside
  <2>1. TypeOK'
    BY <1>2 DEF IInv, Outside, TypeOK
  <2>2. LockInv' /\ UpInv' /\ ModeInv' /\ ServerIsManaged'
    BY <1>2 DEF IInv, Outside, LockInv, UpInv, ModeInv, ServerIsManaged, Servers
  <2> QED
    BY <2>1, <2>2 DEF IInv
<1>3. CASE Restart
  BY <1>3, RestartInv
<1>4. CASE UNCHANGED vars
  BY <1>4 DEF vars, IInv, TypeOK, LockInv, UpInv, ModeInv, ServerIsManaged, Servers
<1> QED
  BY <1>1, <1>2, <1>3, <1>4 DEF Next

\* The invariant is one of the specification.
LEMMA InvHolds == Spec => []IInv
BY InitInv, NextInv, PTL DEF Spec

\* Every variable keeps its type, whatever requests, restarts and the tool do.
THEOREM TypeCorrect == Spec => []TypeOK
<1>1. IInv => TypeOK
  BY DEF IInv
<1> QED
  BY <1>1, InvHolds, PTL

\* However many requests meet, the only tsnet server that runs is the manager's, and
\* one that runs in another mode is about to be closed by the request that left tsnet.
THEOREM ServersAreManaged == Spec => []ServerIsManaged
<1>1. IInv => ServerIsManaged
  BY DEF IInv
<1> QED
  BY <1>1, InvHolds, PTL

-----------------------------------------------------------------------------
(* The status and the mode.                                                *)

\* What StatusAgrees says of the manager.
Agrees ==
    /\ tm.connected => Linked
    /\ tm.mode = "tsnet" => (tm.connected <=> tm.tsnetServer)
    /\ tm.localIP \in {"", tm.mode}
    /\ ~tm.connected => tm.localIP = ""

\* The request is going to clear the connection, or to end the calm.
Leaving(p) ==
    \/ pc[p] \in {"downed", "close"}
    \/ pc[p] = "down" /\ then[p] # "idle" /\ installed

\* The request has set the mode and not saved it yet.
Changing(p) ==
    \/ pc[p] = "saveMode"
    \/ pc[p] \in {"down", "downed", "close"} /\ then[p] = "saveMode"

Active(p) == pc[p] # "idle"

\* In a calm, and beside a request that no other one has overlapped, all others wait.
SoleInv ==
    \A p, q \in Requests : Active(q) /\ (p \in alone \/ ((calm \/ kept) /\ Active(p))) => q = p

ThenInv ==
    \A p \in Requests : then[p] = "saveMode" =>
        pc[p] \in {"idle", "mode", "down", "downed", "close", "saveMode"}

ToolInv ==
    /\ ~installed => ~daemon
    /\ \A p \in Requests : pc[p] = "up" /\ tm.mode = "cli" => installed

\* In a calm the manager agrees with the networks but while a connection is cleared,
\* and what a request waits for is still so when it writes.
CalmInv ==
    /\ calm /\ (\A p \in Requests : ~Leaving(p)) => Agrees
    /\ \A p \in Requests :
           /\ calm /\ pc[p] \in {"ip", "ask", "answered"} => tm.mode = "cli"
           /\ calm /\ pc[p] \in {"ip", "answered"} => daemon
           /\ (calm \/ p \in alone) /\ pc[p] \in {"down", "downed"} => ~tm.tsnetServer

KeptInv ==
    /\ kept /\ (\A p \in Requests : ~Changing(p)) => Resolve(saved.mode) = tm.mode
    /\ \A p \in Requests :
           (kept \/ p \in alone) /\ Changing(p) => tm.mode = Resolve(want[p])

TurnInv == SoleInv /\ ThenInv /\ ToolInv /\ CalmInv /\ KeptInv

\* What CalmInv and KeptInv say of the one request that is active.
CalmAt(p) ==
    /\ calm /\ ~Leaving(p) => Agrees
    /\ calm /\ pc[p] \in {"ip", "ask", "answered"} => tm.mode = "cli"
    /\ calm /\ pc[p] \in {"ip", "answered"} => daemon
    /\ (calm \/ p \in alone) /\ pc[p] \in {"down", "downed"} => ~tm.tsnetServer

KeptAt(p) ==
    /\ kept /\ ~Changing(p) => Resolve(saved.mode) = tm.mode
    /\ (kept \/ p \in alone) /\ Changing(p) => tm.mode = Resolve(want[p])

LEMMA TurnAt ==
    ASSUME IInv, TurnInv, NEW p \in Requests, Active(p)
    PROVE  CalmAt(p) /\ KeptAt(p)
<1>1. calm \/ kept => \A q \in Requests \ {p} : pc[q] = "idle"
  BY DEF TurnInv, SoleInv, Active
<1>2. calm \/ kept => \A q \in Requests : Leaving(q) \/ Changing(q) => q = p
  BY <1>1 DEF Leaving, Changing
<1>3. CalmAt(p)
  BY <1>2 DEF TurnInv, CalmInv, CalmAt
<1>4. KeptAt(p)
  BY <1>2 DEF TurnInv, KeptInv, KeptAt
<1> QED
  BY <1>3, <1>4

\* Beside a request that others do not overlap there is a server only in its mode.
LEMMA OwnServer ==
    ASSUME IInv, TurnInv, NEW p \in Requests, Active(p), pc[p] # "close",
           calm \/ p \in alone
    PROVE  tm.tsnetServer => tm.mode = "tsnet"
BY DEF IInv, TurnInv, ServerIsManaged, SoleInv, Active

\* A step of a request keeps the invariant if it keeps it for that request.
LEMMA TurnStep ==
    ASSUME TypeOK, TurnInv, NEW p \in Requests, NEW stage, Goto(p, stage), Active(p),
           UNCHANGED <<alone, then>>,
           calm' => calm \/ p \in alone, kept' => kept \/ p \in alone,
           then[p] = "saveMode" =>
               stage \in {"idle", "mode", "down", "downed", "close", "saveMode"},
           ToolInv', CalmAt(p)', KeptAt(p)'
    PROVE  TurnInv'
<1>1. /\ pc'[p] = stage /\ (\A q \in Requests \ {p} : pc'[q] = pc[q])
      /\ \A q \in alone : q = p
      /\ p \in alone \/ calm \/ kept \/ calm' \/ kept' =>
             \A q \in Requests \ {p} : pc[q] = "idle" /\ pc'[q] = "idle"
  <2>1. pc'[p] = stage /\ \A q \in Requests \ {p} : pc'[q] = pc[q]
    BY DEF Goto, TypeOK
  <2>2. \A q \in alone : q = p
    BY DEF TurnInv, SoleInv, TypeOK
  <2> QED
    BY <2>1, <2>2 DEF TurnInv, SoleInv, Active
<1>2. SoleInv'
  BY <1>1 DEF SoleInv, Active, TypeOK
<1>3. ThenInv'
  BY <1>1 DEF TurnInv, ThenInv
<1>4. calm' \/ kept' => \A q \in Requests : Leaving(q)' \/ Changing(q)' => q = p
  BY <1>1 DEF Leaving, Changing
<1>5. CalmInv'
  <2>1. calm' /\ (\A q \in Requests : ~Leaving(q)') => Agrees'
    BY DEF CalmAt
  <2>2. ASSUME NEW q \in Requests
        PROVE  /\ calm' /\ pc'[q] \in {"ip", "ask", "answered"} => tm'.mode = "cli"
               /\ calm' /\ pc'[q] \in {"ip", "answered"} => daemon'
               /\ (calm' \/ q \in alone') /\ pc'[q] \in {"down", "downed"} =>
                      ~tm'.tsnetServer
    BY <1>1 DEF CalmAt
  <2> QED
    BY <2>1, <2>2 DEF CalmInv
<1>6. KeptInv'
  <2>1. kept' /\ (\A q \in Requests : ~Changing(q)') => Resolve(saved.mode)' = tm'.mode
    BY DEF KeptAt
  <2>2. ASSUME NEW q \in Requests, kept' \/ q \in alone', Changing(q)'
        PROVE  tm'.mode = Resolve(want[q])'
    <3>1. q = p
      BY <1>1, <1>4, <2>2
    <3> QED
      BY <2>2, <3>1 DEF KeptAt
  <2> QED
    BY <2>1, <2>2 DEF KeptInv
<1> QED
  BY <1>2, <1>3, <1>5, <1>6 DEF TurnInv

\* Most steps cannot disturb what is said of the tool.
LEMMA ToolKept ==
    ASSUME TypeOK, ToolInv, NEW p \in Requests, NEW stage, Goto(p, stage), stage # "up",
           tm'.mode = tm.mode, UNCHANGED installed, daemon' => daemon \/ installed
    PROVE  ToolInv'
<1>1. \A q \in Requests : pc'[q] = "up" => pc[q] = "up"
  BY DEF Goto, TypeOK
<1> QED
  BY <1>1 DEF ToolInv

LEMMA SetAuthKeyTurn ==
    ASSUME IInv, TurnInv, NEW p \in Requests, SetAuthKey(p)
    PROVE  TurnInv'
<1> USE DEF SetAuthKey
<1>0. TypeOK /\ ThenInv /\ ToolInv /\ Active(p) /\ CalmAt(p) /\ KeptAt(p)
  BY TurnAt DEF IInv, TurnInv, Active
<1>1. PICK stage : Goto(p, stage) /\ pc'[p] = stage
  BY <1>0 DEF Goto, TypeOK
<1>2. then[p] = "saveMode" => stage \in {"idle", "mode", "down", "downed", "close", "saveMode"}
  BY <1>0, <1>1 DEF ThenInv, Goto, TypeOK
<1>3. ToolInv'
  BY <1>0, <1>1, ToolKept DEF TypeOK, Manager
<1>4. CalmAt(p)'
  BY <1>0, <1>1 DEF CalmAt, TypeOK, Manager, Goto, Leaving, Agrees, Linked
<1>5. KeptAt(p)'
  BY <1>0, <1>1 DEF KeptAt, TypeOK, Manager, Goto, Changing, Resolve
<1> QED
  BY <1>0, <1>1, <1>2, <1>3, <1>4, <1>5, TurnStep

LEMMA SaveKeyTurn ==
    ASSUME IInv, TurnInv, NEW p \in Requests, SaveKey(p)
    PROVE  TurnInv'
<1> USE DEF SaveKey
<1>0. TypeOK /\ ThenInv /\ ToolInv /\ Active(p) /\ CalmAt(p) /\ KeptAt(p)
  BY TurnAt DEF IInv, TurnInv, Active
<1>1. PICK stage : Goto(p, stage) /\ pc'[p] = stage
  BY <1>0 DEF Goto, TypeOK
<1>2. then[p] = "saveMode" => stage \in {"idle", "mode", "down", "downed", "close", "saveMode"}
  BY <1>0, <1>1 DEF ThenInv, Goto, TypeOK
<1>3. ToolInv'
  BY <1>0, <1>1, ToolKept DEF TypeOK, Manager
<1>4. CalmAt(p)'
  BY <1>0, <1>1 DEF CalmAt, TypeOK, Manager, Goto, Leaving, Agrees, Linked
<1>5. KeptAt(p)'
  <2>1. then[p] # "saveMode" /\ UNCHANGED <<tm, installed, then, kept>>
    BY <1>0 DEF ThenInv
  <2>2. saved'.mode = saved.mode /\ ~Changing(p) /\ ~Changing(p)'
    BY <1>0, <1>1, <2>1 DEF TypeOK, Goto, Changing
  <2> QED
    BY <1>0, <2>1, <2>2 DEF KeptAt, Resolve
<1> QED
  BY <1>0, <1>1, <1>2, <1>3, <1>4, <1>5, TurnStep

LEMMA ConnectTurn ==
    ASSUME IInv, TurnInv, NEW p \in Requests, Connect(p)
    PROVE  TurnInv'
<1> USE DEF Connect
<1>0. TypeOK /\ ThenInv /\ ToolInv /\ Active(p) /\ CalmAt(p) /\ KeptAt(p)
  BY TurnAt DEF IInv, TurnInv, Active
<1>1. PICK stage : Goto(p, stage) /\ pc'[p] = stage
  BY <1>0 DEF Goto, TypeOK
<1>2. then[p] = "saveMode" => stage \in {"idle", "mode", "down", "downed", "close", "saveMode"}
  BY <1>0, <1>1 DEF ThenInv, Goto, TypeOK
<1>3. ToolInv'
  <2>1. stage = "up" /\ tm.mode = "cli" => installed
    BY <1>0, <1>1 DEF NeedsUp, Goto, TypeOK
  <2>2. \A q \in Requests \ {p} : pc'[q] = pc[q]
    BY <1>0, <1>1 DEF Goto, TypeOK
  <2> QED
    BY <1>0, <1>1, <2>1, <2>2 DEF ToolInv
<1>4. CalmAt(p)'
  BY <1>0, <1>1 DEF CalmAt, TypeOK, Manager, Goto, Leaving, Agrees, Linked
<1>5. KeptAt(p)'
  BY <1>0, <1>1 DEF KeptAt, TypeOK, Manager, Goto, Changing, Resolve
<1> QED
  BY <1>0, <1>1, <1>2, <1>3, <1>4, <1>5, TurnStep

LEMMA ConnectCLITurn ==
    ASSUME IInv, TurnInv, NEW p \in Requests, ConnectCLI(p)
    PROVE  TurnInv'
<1> USE DEF ConnectCLI
<1>0. TypeOK /\ ThenInv /\ ToolInv /\ Active(p) /\ CalmAt(p) /\ KeptAt(p)
  BY TurnAt DEF IInv, TurnInv, Active
<1>1. PICK stage : Goto(p, stage) /\ pc'[p] = stage
  BY <1>0 DEF Goto, TypeOK
<1>2. then[p] = "saveMode" => stage \in {"idle", "mode", "down", "downed", "close", "saveMode"}
  BY <1>0, <1>1 DEF ThenInv, Goto, TypeOK
<1>3. ToolInv'
  <2>1. installed /\ stage # "up" /\ UNCHANGED <<tm, installed>>
    BY <1>0, <1>1 DEF ToolInv, Goto, TypeOK
  <2> QED
    BY <1>0, <1>1, <2>1, ToolKept
<1>4. CalmAt(p)'
  BY <1>0, <1>1 DEF CalmAt, TypeOK, Manager, Goto, Leaving, Agrees, Linked
<1>5. KeptAt(p)'
  BY <1>0, <1>1 DEF KeptAt, TypeOK, Manager, Goto, Changing, Resolve
<1> QED
  BY <1>0, <1>1, <1>2, <1>3, <1>4, <1>5, TurnStep

LEMMA ConnectedCLITurn ==
    ASSUME IInv, TurnInv, NEW p \in Requests, ConnectedCLI(p)
    PROVE  TurnInv'
<1> USE DEF ConnectedCLI
<1>0. TypeOK /\ ThenInv /\ ToolInv /\ Active(p) /\ CalmAt(p) /\ KeptAt(p)
  BY TurnAt DEF IInv, TurnInv, Active
<1>1. PICK stage : Goto(p, stage) /\ pc'[p] = stage
  BY <1>0 DEF Goto, TypeOK
<1>2. then[p] = "saveMode" => stage \in {"idle", "mode", "down", "downed", "close", "saveMode"}
  BY <1>0, <1>1 DEF ThenInv, Goto, TypeOK
<1>3. ToolInv'
  BY <1>0, <1>1, ToolKept DEF TypeOK, Manager
<1>4. CalmAt(p)'
  BY <1>0, <1>1 DEF CalmAt, TypeOK, Manager, Goto, Leaving, Agrees, Linked
<1>5. KeptAt(p)'
  BY <1>0, <1>1 DEF KeptAt, TypeOK, Manager, Goto, Changing, Resolve
<1> QED
  BY <1>0, <1>1, <1>2, <1>3, <1>4, <1>5, TurnStep

LEMMA ConnectTsnetTurn ==
    ASSUME IInv, TurnInv, NEW p \in Requests, ConnectTsnet(p)
    PROVE  TurnInv'
<1> USE DEF ConnectTsnet
<1>0. TypeOK /\ ThenInv /\ ToolInv /\ Active(p) /\ CalmAt(p) /\ KeptAt(p)
  BY TurnAt DEF IInv, TurnInv, Active
<1>1. PICK stage : Goto(p, stage) /\ pc'[p] = stage
  BY <1>0 DEF Goto, TypeOK
<1>2. then[p] = "saveMode" => stage \in {"idle", "mode", "down", "downed", "close", "saveMode"}
  BY <1>0, <1>1 DEF ThenInv, Goto, TypeOK
<1>3. ToolInv'
  BY <1>0, <1>1, ToolKept DEF TypeOK, Manager
<1>4. CalmAt(p)'
  BY <1>0, <1>1 DEF CalmAt, TypeOK, Manager, Goto, Leaving, Agrees, Linked
<1>5. KeptAt(p)'
  BY <1>0, <1>1 DEF KeptAt, TypeOK, Manager, Goto, Changing, Resolve
<1> QED
  BY <1>0, <1>1, <1>2, <1>3, <1>4, <1>5, TurnStep

LEMMA DisconnectTurn ==
    ASSUME IInv, TurnInv, NEW p \in Requests, Disconnect(p)
    PROVE  TurnInv'
<1> USE DEF Disconnect
<1>0. TypeOK /\ ThenInv /\ ToolInv /\ Active(p) /\ CalmAt(p) /\ KeptAt(p)
  BY TurnAt DEF IInv, TurnInv, Active
<1>1. PICK stage : Goto(p, stage) /\ pc'[p] = stage
  BY <1>0 DEF Goto, TypeOK
<1>2. then[p] = "saveMode" => stage \in {"idle", "mode", "down", "downed", "close", "saveMode"}
  BY <1>0, <1>1 DEF ThenInv, Goto, TypeOK
<1>3. ToolInv'
  BY <1>0, <1>1, ToolKept DEF TypeOK, Manager
<1>4. CalmAt(p)'
  <2>1. calm \/ p \in alone => (tm.tsnetServer => tm.mode = "tsnet")
    BY <1>0, OwnServer
  <2>2. stage = IF tm.mode = "cli" THEN "down" ELSE "close"
    BY <1>0, <1>1 DEF Goto, TypeOK
  <2>3. ~Leaving(p) /\ UNCHANGED <<tm, daemon, installed, then, calm, alone>>
    BY DEF Leaving
  <2>4. CASE tm.mode = "cli"
    <3>0. calm => Agrees
      BY <1>0, <2>3 DEF CalmAt
    <3>1. Agrees => Agrees'
      <4>1. tm' = tm /\ daemon' = daemon
        BY <2>3
      <4> HIDE DEF Disconnect
      <4> QED
        BY <4>1 DEF Agrees, Linked
    <3>2. calm \/ p \in alone => ~tm.tsnetServer
      BY <2>1, <2>4
    <3> QED
      BY <1>1, <2>2, <2>3, <2>4, <3>0, <3>1, <3>2 DEF CalmAt
  <2>5. CASE tm.mode # "cli"
    BY <1>1, <2>2, <2>5 DEF CalmAt, Leaving
  <2> QED
    BY <2>4, <2>5
<1>5. KeptAt(p)'
  <2>1. then[p] # "saveMode" /\ UNCHANGED <<tm, saved, installed, then, want, kept>>
    BY <1>0 DEF ThenInv
  <2>2. ~Changing(p) /\ ~Changing(p)'
    BY <1>0, <1>1, <2>1 DEF TypeOK, Goto, Changing
  <2> QED
    BY <1>0, <2>1, <2>2 DEF KeptAt, Resolve
<1> QED
  BY <1>0, <1>1, <1>2, <1>3, <1>4, <1>5, TurnStep

LEMMA RunDownTurn ==
    ASSUME IInv, TurnInv, NEW p \in Requests, RunDown(p)
    PROVE  TurnInv'
<1> USE DEF RunDown
<1>0. TypeOK /\ ThenInv /\ ToolInv /\ Active(p) /\ CalmAt(p) /\ KeptAt(p)
  BY TurnAt DEF IInv, TurnInv, Active
<1>1. PICK stage : Goto(p, stage) /\ pc'[p] = stage
  BY <1>0 DEF Goto, TypeOK
<1>2. then[p] = "saveMode" => stage \in {"idle", "mode", "down", "downed", "close", "saveMode"}
  BY <1>0, <1>1 DEF ThenInv, Goto, TypeOK
<1>3. ToolInv'
  <2>1. stage # "up" /\ UNCHANGED <<tm, installed>> /\ (daemon' => daemon)
    BY <1>0, <1>1 DEF Goto, TypeOK
  <2> QED
    BY <1>0, <1>1, <2>1, ToolKept
<1>4. CalmAt(p)'
  <2>0. UNCHANGED <<tm, installed, then, alone>> /\ stage \notin {"down", "ip", "ask", "answered", "close"}
    BY <1>0, <1>1 DEF Goto, TypeOK
  <2>1. CASE stage = "downed"
    BY <1>0, <1>1, <2>0, <2>1 DEF CalmAt, Leaving, Goto, TypeOK
  <2>2. CASE stage # "downed"
    <3>1. calm' => calm /\ ~Leaving(p) /\ UNCHANGED daemon
      BY <1>0, <1>1, <2>2 DEF Leaving, Goto, TypeOK
    <3>2. calm' => Agrees'
      BY <1>0, <2>0, <3>1 DEF CalmAt, Agrees, Linked
    <3> QED
      BY <1>1, <2>0, <2>2, <3>2 DEF CalmAt
  <2> QED
    BY <2>1, <2>2
<1>5. KeptAt(p)'
  BY <1>0, <1>1 DEF KeptAt, TypeOK, Manager, Goto, Changing, Resolve
<1> QED
  <2>1. UNCHANGED <<alone, then, kept>>
    OBVIOUS
  <2>2. calm' => calm
    BY <1>0 DEF TypeOK
  <2> QED
    BY <1>0, <1>1, <1>2, <1>3, <1>4, <1>5, <2>1, <2>2, TurnStep

LEMMA DisconnectedCLITurn ==
    ASSUME IInv, TurnInv, NEW p \in Requests, DisconnectedCLI(p)
    PROVE  TurnInv'
<1> USE DEF DisconnectedCLI
<1>0. TypeOK /\ ThenInv /\ ToolInv /\ Active(p) /\ CalmAt(p) /\ KeptAt(p)
  BY TurnAt DEF IInv, TurnInv, Active
<1>1. PICK stage : Goto(p, stage) /\ pc'[p] = stage
  BY <1>0 DEF Goto, TypeOK
<1>2. then[p] = "saveMode" => stage \in {"idle", "mode", "down", "downed", "close", "saveMode"}
  BY <1>0, <1>1 DEF ThenInv, Goto, TypeOK
<1>3. ToolInv'
  BY <1>0, <1>1, ToolKept DEF TypeOK, Manager
<1>4. CalmAt(p)'
  BY <1>0, <1>1 DEF CalmAt, TypeOK, Manager, Goto, Leaving, Agrees, Linked
<1>5. KeptAt(p)'
  BY <1>0, <1>1 DEF KeptAt, TypeOK, Manager, Goto, Changing, Resolve
<1> QED
  BY <1>0, <1>1, <1>2, <1>3, <1>4, <1>5, TurnStep

LEMMA DisconnectTsnetTurn ==
    ASSUME IInv, TurnInv, NEW p \in Requests, DisconnectTsnet(p)
    PROVE  TurnInv'
<1> USE DEF DisconnectTsnet
<1>0. TypeOK /\ ThenInv /\ ToolInv /\ Active(p) /\ CalmAt(p) /\ KeptAt(p)
  BY TurnAt DEF IInv, TurnInv, Active
<1>1. PICK stage : Goto(p, stage) /\ pc'[p] = stage
  BY <1>0 DEF Goto, TypeOK
<1>2. then[p] = "saveMode" => stage \in {"idle", "mode", "down", "downed", "close", "saveMode"}
  BY <1>0, <1>1 DEF ThenInv, Goto, TypeOK
<1>3. ToolInv'
  BY <1>0, <1>1, ToolKept DEF TypeOK, Manager
<1>4. CalmAt(p)'
  BY <1>0, <1>1 DEF CalmAt, TypeOK, Manager, Goto, Leaving, Agrees, Linked
<1>5. KeptAt(p)'
  BY <1>0, <1>1 DEF KeptAt, TypeOK, Manager, Goto, Changing, Resolve
<1> QED
  BY <1>0, <1>1, <1>2, <1>3, <1>4, <1>5, TurnStep

LEMMA GetStatusTurn ==
    ASSUME IInv, TurnInv, NEW p \in Requests, GetStatus(p)
    PROVE  TurnInv'
<1> USE DEF GetStatus
<1>0. TypeOK /\ ThenInv /\ ToolInv /\ Active(p) /\ CalmAt(p) /\ KeptAt(p)
  BY TurnAt DEF IInv, TurnInv, Active
<1>1. PICK stage : Goto(p, stage) /\ pc'[p] = stage
  BY <1>0 DEF Goto, TypeOK
<1>2. then[p] = "saveMode" => stage \in {"idle", "mode", "down", "downed", "close", "saveMode"}
  BY <1>0, <1>1 DEF ThenInv, Goto, TypeOK
<1>3. ToolInv'
  BY <1>0, <1>1, ToolKept DEF TypeOK, Manager
<1>4. CalmAt(p)'
  BY <1>0, <1>1 DEF CalmAt, TypeOK, Manager, Goto, Leaving, Agrees, Linked
<1>5. KeptAt(p)'
  BY <1>0, <1>1 DEF KeptAt, TypeOK, Manager, Goto, Changing, Resolve
<1> QED
  BY <1>0, <1>1, <1>2, <1>3, <1>4, <1>5, TurnStep

LEMMA AskIPTurn ==
    ASSUME IInv, TurnInv, NEW p \in Requests, AskIP(p)
    PROVE  TurnInv'
<1> USE DEF AskIP
<1>0. TypeOK /\ ThenInv /\ ToolInv /\ Active(p) /\ CalmAt(p) /\ KeptAt(p)
  BY TurnAt DEF IInv, TurnInv, Active
<1>1. PICK stage : Goto(p, stage) /\ pc'[p] = stage
  BY <1>0 DEF Goto, TypeOK
<1>2. then[p] = "saveMode" => stage \in {"idle", "mode", "down", "downed", "close", "saveMode"}
  BY <1>0, <1>1 DEF ThenInv, Goto, TypeOK
<1>3. ToolInv'
  BY <1>0, <1>1, ToolKept DEF TypeOK, Manager
<1>4. CalmAt(p)'
  BY <1>0, <1>1 DEF CalmAt, TypeOK, Manager, Goto, Leaving, Agrees, Linked
<1>5. KeptAt(p)'
  BY <1>0, <1>1 DEF KeptAt, TypeOK, Manager, Goto, Changing, Resolve
<1> QED
  BY <1>0, <1>1, <1>2, <1>3, <1>4, <1>5, TurnStep

LEMMA StatusAnsweredTurn ==
    ASSUME IInv, TurnInv, NEW p \in Requests, StatusAnswered(p)
    PROVE  TurnInv'
<1> USE DEF StatusAnswered
<1>0. TypeOK /\ ThenInv /\ ToolInv /\ Active(p) /\ CalmAt(p) /\ KeptAt(p)
  BY TurnAt DEF IInv, TurnInv, Active
<1>1. PICK stage : Goto(p, stage) /\ pc'[p] = stage
  BY <1>0 DEF Goto, TypeOK
<1>2. then[p] = "saveMode" => stage \in {"idle", "mode", "down", "downed", "close", "saveMode"}
  BY <1>0, <1>1 DEF ThenInv, Goto, TypeOK
<1>3. ToolInv'
  BY <1>0, <1>1, ToolKept DEF TypeOK, Manager
<1>4. CalmAt(p)'
  BY <1>0, <1>1 DEF CalmAt, TypeOK, Manager, Goto, Leaving, Agrees, Linked
<1>5. KeptAt(p)'
  BY <1>0, <1>1 DEF KeptAt, TypeOK, Manager, Goto, Changing, Resolve
<1> QED
  BY <1>0, <1>1, <1>2, <1>3, <1>4, <1>5, TurnStep

LEMMA SetModeTurn ==
    ASSUME IInv, TurnInv, NEW p \in Requests, SetMode(p)
    PROVE  TurnInv'
<1> DEFINE m == Resolve(want[p])
<1>0. TypeOK /\ ThenInv /\ ToolInv /\ Active(p) /\ CalmAt(p) /\ KeptAt(p)
  BY TurnAt DEF IInv, TurnInv, Active, SetMode
<1>1. Goto(p, Leaves(m)) /\ pc'[p] = Leaves(m) /\ pc[p] = "mode" /\ then[p] = "saveMode"
  BY <1>0 DEF SetMode, Goto, TypeOK, IInv, ModeInv
<1>2. /\ tm.mode \in Modes /\ m \in Modes /\ tm'.mode = m
      /\ UNCHANGED <<tm.connected, tm.localIP, tm.tsnetServer>>
  BY <1>0, ResolveType DEF SetMode, TypeOK, Manager
<1>3. UNCHANGED <<daemon, installed, saved, then, want, alone, calm, kept>>
  BY DEF SetMode
<1>4. \/ Leaves(m) = "saveMode" /\ m = tm.mode
      \/ Leaves(m) = "down" /\ tm.mode = "cli" /\ m = "tsnet"
      \/ Leaves(m) = "close" /\ tm.mode = "tsnet" /\ m = "cli"
  <2> HIDE DEF m
  <2>1. CASE m = tm.mode
    BY <2>1 DEF Leaves
  <2>2. CASE m # tm.mode /\ tm.mode = "cli"
    BY <1>2, <2>2 DEF Leaves, Modes
  <2>3. CASE m # tm.mode /\ tm.mode = "tsnet"
    BY <1>2, <2>3 DEF Leaves, Modes
  <2> QED
    BY <1>2, <2>1, <2>2, <2>3 DEF Modes
<1> HIDE DEF m
<1>5. ToolInv'
  <2>1. \A q \in Requests : pc'[q] # "up"
    <3>1. \A q \in Requests : pc[q] # "up"
      BY DEF SetMode, Free, IInv, LockInv
    <3> QED
      BY <1>0, <1>1, <1>4, <3>1 DEF Goto, TypeOK
  <2> QED
    BY <1>0, <1>3, <2>1 DEF ToolInv
<1>6. CalmAt(p)'
  <2>1. calm \/ p \in alone => (tm.tsnetServer => tm.mode = "tsnet")
    BY <1>0, <1>1, OwnServer
  <2>2. calm => Agrees
    BY <1>0, <1>1 DEF CalmAt, Leaving
  <2>3. CASE Leaves(m) = "saveMode" /\ m = tm.mode
    BY <1>1, <1>2, <1>3, <2>2, <2>3 DEF CalmAt, Agrees, Linked
  <2>4. CASE Leaves(m) = "down" /\ tm.mode = "cli" /\ m = "tsnet"
    <3>1. calm \/ p \in alone => ~tm'.tsnetServer
      BY <1>2, <2>1, <2>4
    <3>2. calm /\ ~installed => Agrees'
      <4>1. calm /\ ~installed => ~tm.connected /\ tm.localIP = ""
        BY <1>0, <2>2, <2>4 DEF ToolInv, Agrees, Linked
      <4> QED
        BY <1>2, <2>4, <3>1, <4>1 DEF Agrees
    <3>3. Leaving(p)' <=> installed
      BY <1>1, <1>3, <2>4 DEF Leaving
    <3> QED
      BY <1>1, <1>3, <2>4, <3>1, <3>2, <3>3 DEF CalmAt
  <2>5. CASE Leaves(m) = "close"
    BY <1>1, <2>5 DEF CalmAt, Leaving
  <2> QED
    BY <1>4, <2>3, <2>4, <2>5
<1>7. KeptAt(p)'
  <2>1. Changing(p)'
    BY <1>1, <1>3, <1>4 DEF Changing
  <2>2. Resolve(want[p])' = m
    BY <1>3 DEF Resolve, m
  <2> QED
    BY <1>2, <2>1, <2>2 DEF KeptAt
<1> QED
  BY <1>0, <1>1, <1>3, <1>4, <1>5, <1>6, <1>7, TurnStep

LEMMA SaveModeTurn ==
    ASSUME IInv, TurnInv, NEW p \in Requests, SaveMode(p)
    PROVE  TurnInv'
<1> USE DEF SaveMode
<1>0. TypeOK /\ ThenInv /\ ToolInv /\ Active(p) /\ CalmAt(p) /\ KeptAt(p)
  BY TurnAt DEF IInv, TurnInv, Active
<1>1. PICK stage : Goto(p, stage) /\ pc'[p] = stage
  BY <1>0 DEF Goto, TypeOK
<1>2. then[p] = "saveMode" => stage \in {"idle", "mode", "down", "downed", "close", "saveMode"}
  BY <1>0, <1>1 DEF ThenInv, Goto, TypeOK
<1>3. ToolInv'
  BY <1>0, <1>1, ToolKept DEF TypeOK, Manager
<1>4. CalmAt(p)'
  BY <1>0, <1>1 DEF CalmAt, TypeOK, Manager, Goto, Leaving, Agrees, Linked
<1>5. KeptAt(p)'
  BY <1>0, <1>1 DEF KeptAt, TypeOK, Manager, Goto, Changing, Resolve
<1> QED
  BY <1>0, <1>1, <1>2, <1>3, <1>4, <1>5, TurnStep

LEMMA StepTurn == ASSUME IInv, TurnInv, NEW p \in Requests, Step(p) PROVE TurnInv'
BY SetAuthKeyTurn, SaveKeyTurn, ConnectTurn, ConnectCLITurn, ConnectedCLITurn,
   ConnectTsnetTurn, DisconnectTurn, RunDownTurn, DisconnectedCLITurn,
   DisconnectTsnetTurn, GetStatusTurn, AskIPTurn, StatusAnsweredTurn, SetModeTurn,
   SaveModeTurn DEF Step

\* A new request ends the calm, unless nothing else was under way.
LEMMA AskTurn == ASSUME IInv, TurnInv, NEW p \in Requests, Ask(p) PROVE TurnInv'
<1> SUFFICES ASSUME NEW stage \in {"key", "connect", "status", "disconnect", "mode"},
                    NEW next \in {"idle", "connect", "saveMode"}, NEW m \in ModeNames,
                    Begin(p, stage, next, m), next = "saveMode" => stage = "mode"
             PROVE  TurnInv'
  BY DEF Ask, BeginConnect, BeginSettings, BeginStatus, BeginDisconnect, BeginMode, ModeNames, Modes
<1>0. TypeOK /\ SoleInv /\ ThenInv /\ ToolInv /\ CalmInv /\ KeptInv
  BY DEF IInv, TurnInv
<1>1. /\ pc'[p] = stage /\ then'[p] = next
      /\ \A q \in Requests \ {p} : /\ pc'[q] = pc[q] /\ then'[q] = then[q]
                                 /\ want'[q] = want[q]
      /\ UNCHANGED <<tm, daemon, installed, saved>>
  BY <1>0 DEF Begin, Goto, TypeOK
<1>2. calm' \/ kept' \/ alone' # {} => Idle
  BY <1>0 DEF Begin, TypeOK
<1>3. (calm' => calm) /\ (kept' => kept) /\ alone' \subseteq {p}
  BY <1>0 DEF Begin, TypeOK
<1>4. calm' \/ kept' \/ alone' # {} =>
          \A q \in Requests : (Leaving(q) \/ Changing(q) \/ Leaving(q)' \/ Changing(q)') => FALSE
  BY <1>1, <1>2 DEF Idle, Leaving, Changing
<1>5. SoleInv'
  BY <1>1, <1>2, <1>3 DEF SoleInv, Active, Idle
<1>6. ThenInv'
  BY <1>0, <1>1 DEF ThenInv
<1>7. ToolInv'
  BY <1>0, <1>1 DEF ToolInv
<1>8. CalmInv'
  <2>1. calm' => Agrees'
    <3>1. calm' => Agrees
      BY <1>0, <1>3, <1>4 DEF CalmInv
    <3> QED
      BY <1>0, <1>1, <3>1 DEF Agrees, Linked, TypeOK, Manager
  <2>2. \A q \in Requests : calm' \/ q \in alone' =>
            pc'[q] \notin {"ip", "ask", "answered", "down", "downed"}
    BY <1>1, <1>2 DEF Idle
  <2> QED
    BY <2>1, <2>2 DEF CalmInv
<1>9. KeptInv'
  <2>1. kept' => Resolve(saved.mode)' = tm'.mode
    BY <1>0, <1>1, <1>3, <1>4 DEF KeptInv, Resolve
  <2>2. \A q \in Requests : kept' \/ q \in alone' => ~Changing(q)'
    BY <1>4
  <2> QED
    BY <2>1, <2>2 DEF KeptInv
<1> QED
  BY <1>5, <1>6, <1>7, <1>8, <1>9 DEF TurnInv

\* The manager that main prepares agrees with tsnet, and is in the mode that was saved.
LEMMA BootedAgrees ==
    ASSUME saved \in [mode : ModeNames, key : BOOLEAN], NEW up \in BOOLEAN,
           tm = Booted(saved, up)
    PROVE  Agrees /\ tm.mode = Resolve(saved.mode)
<1>1. Resolve(saved.mode) \in Modes
  BY ResolveType
<1> QED
  BY <1>1 DEF Booted, Agrees, Linked, Modes

LEMMA InitTurn == Init => TurnInv
<1> SUFFICES ASSUME Init PROVE TurnInv
  OBVIOUS
<1>1. Agrees /\ tm.mode = Resolve(saved.mode)
  BY BootedAgrees DEF Init
<1>2. \A p \in Requests : pc[p] = "idle"
  BY DEF Init
<1>3. SoleInv /\ ThenInv
  BY <1>2 DEF SoleInv, ThenInv, Active
<1>4. ToolInv
  BY <1>2 DEF Init, ToolInv
<1>5. CalmInv /\ KeptInv
  BY <1>1, <1>2 DEF CalmInv, KeptInv, Changing
<1> QED
  BY <1>3, <1>4, <1>5 DEF TurnInv

LEMMA NextTurn == IInv /\ TurnInv /\ [Next]_vars => TurnInv'
<1> SUFFICES ASSUME IInv, TurnInv, [Next]_vars PROVE TurnInv'
  OBVIOUS
<1>0. TypeOK /\ SoleInv /\ ThenInv /\ ToolInv /\ CalmInv /\ KeptInv
  BY DEF IInv, TurnInv
<1>1. CASE \E p \in Requests : Ask(p) \/ Step(p)
  BY <1>1, AskTurn, StepTurn
<1>2. CASE Outside
  <2>1. /\ UNCHANGED <<tm, installed, saved, pc, then, want, alone, kept>>
        /\ installed /\ (calm' => calm /\ ~daemon /\ daemon')
    BY <1>0, <1>2 DEF Outside, TypeOK
  <2>2. SoleInv'
    BY <1>0, <2>1 DEF SoleInv, Active
  <2>3. ThenInv' /\ ToolInv'
    BY <1>0, <2>1 DEF ThenInv, ToolInv
  <2>4. CalmInv'
    <3>1. calm' /\ (\A p \in Requests : ~Leaving(p)') => Agrees'
      <4>1. \A p \in Requests : Leaving(p)' <=> Leaving(p)
        BY <2>1 DEF Leaving
      <4>2. calm' /\ (\A p \in Requests : ~Leaving(p)') => Agrees
        BY <1>0, <2>1, <4>1 DEF CalmInv
      <4> QED
        BY <1>0, <2>1, <4>2 DEF Agrees, Linked, TypeOK, Manager
    <3> QED
      BY <1>0, <2>1, <3>1 DEF CalmInv
  <2>5. KeptInv'
    BY <1>0, <2>1 DEF KeptInv, Changing, Resolve
  <2> QED
    BY <2>2, <2>3, <2>4, <2>5 DEF TurnInv
<1>3. CASE Restart
  <2>1. PICK up \in BOOLEAN : tm' = Booted(saved, up)
    BY <1>3 DEF Restart
  <2>2. UNCHANGED <<installed, daemon, saved>> /\ \A p \in Requests : pc'[p] = "idle"
    BY <1>3 DEF Restart
  <2>3. /\ saved.mode \in ModeNames
        /\ tm'.mode = Resolve(saved.mode) /\ Resolve(saved.mode) \in Modes
        /\ Resolve(saved.mode)' = Resolve(saved.mode)
    BY <1>0, <2>1, <2>2, ResolveType DEF Booted, TypeOK, Resolve
  <2>4. Agrees'
    <3> DEFINE joins == Resolve(saved.mode) = "tsnet" /\ saved.key /\ up
    <3>1. /\ tm'.connected = joins /\ tm'.tsnetServer = joins
          /\ tm'.localIP = IF joins THEN "tsnet" ELSE ""
          /\ joins => tm'.mode = "tsnet"
      BY <2>1, <2>3 DEF Booted
    <3>2. joins \in BOOLEAN
      OBVIOUS
    <3> HIDE DEF joins
    <3> QED
      BY <3>1, <3>2 DEF Agrees, Linked
  <2>5. SoleInv' /\ ThenInv' /\ ToolInv'
    BY <1>0, <2>2 DEF SoleInv, ThenInv, ToolInv, Active
  <2>6. CalmInv'
    BY <2>2, <2>4 DEF CalmInv
  <2>7. KeptInv'
    BY <2>2, <2>3 DEF KeptInv, Changing
  <2> QED
    BY <2>5, <2>6, <2>7 DEF TurnInv
<1>4. CASE UNCHANGED vars
  <2>1. UNCHANGED <<tm, installed, saved, pc, then, want, alone, kept, calm, daemon>>
    BY <1>4 DEF vars
  <2>2. SoleInv' /\ ThenInv' /\ ToolInv'
    BY <1>0, <2>1 DEF SoleInv, ThenInv, ToolInv, Active
  <2>3. CalmInv' /\ KeptInv'
    BY <1>0, <2>1 DEF CalmInv, KeptInv, Changing, Resolve, Leaving, Agrees, Linked
  <2> QED
    BY <2>2, <2>3 DEF TurnInv
<1> QED
  BY <1>1, <1>2, <1>3, <1>4 DEF Next

LEMMA TurnHolds == Spec => [](IInv /\ TurnInv)
<1>1. IInv /\ TurnInv /\ [Next]_vars => IInv' /\ TurnInv'
  BY NextInv, NextTurn
<1> QED
  BY <1>1, InitInv, InitTurn, PTL DEF Spec

\* As long as requests take turns, and again after a disconnect or a change of mode
\* that runs alone and succeeds, the status is true of the networks, whatever happened
\* before (tailscale.go GetStatus, Disconnect, SetMode).
THEOREM StatusIsTrue == Spec => []StatusAgrees
<1>1. CalmInv => StatusAgrees
  BY DEF CalmInv, Leaving, Idle, Agrees, StatusAgrees
<1>2. IInv /\ TurnInv => StatusAgrees
  BY <1>1 DEF TurnInv
<1> QED
  BY <1>2, TurnHolds, PTL

\* As long as requests take turns, and again once a mode has been set alone, a restart
\* comes up in the mode in use (handlers_tailscale.go handleTailscaleMode).
THEOREM SavedModeIsUsed == Spec => []ModeIsRemembered
<1>1. KeptInv => ModeIsRemembered
  BY DEF KeptInv, Changing, Idle, ModeIsRemembered
<1>2. IInv /\ TurnInv => ModeIsRemembered
  BY <1>1 DEF TurnInv
<1> QED
  BY <1>2, TurnHolds, PTL
=============================================================================
