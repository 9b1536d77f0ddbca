----------------------------- MODULE Tailscale -----------------------------
(***************************************************************************)
(* The Tailscale manager (network/tailscale.go): the mode in which the     *)
(* device joins the tailnet, through the installed command line tool or    *)
(* through an embedded tsnet server, and the requests of the web interface *)
(* (gui/handlers_tailscale.go) that change it.                             *)
(*                                                                         *)
(* Each HTTP request runs in a goroutine of its own.  tm.mu protects the   *)
(* manager's fields, but most operations release it while they wait for    *)
(* the tool, and Connect keeps it while it waits.  What one critical       *)
(* section does is one action here, and so is each command given to the    *)
(* tool or to tsnet.                                                       *)
(*                                                                         *)
(* Addresses are reduced to the network that assigned them.  The warning   *)
(* text is left out: every write of mode recomputes it from mode.          *)
(***************************************************************************)
EXTENDS Naturals

CONSTANT Requests               \* the goroutines that serve HTTP requests

VARIABLES
    tm,             \* TailscaleManager: mode, authKey (is one set),
                    \* connected, localIP, tsnetServer (is it non-nil)
    holder,         \* the requests that hold tm.mu while they wait: one, or none
    installed,      \* is the tailscale tool on this machine (tm.cliAvailable)
    daemon,         \* is the tool's daemon logged in and up
    running,        \* how many tsnet servers this process has running
    saved,          \* config.json: TailscaleMode and TailscaleAuthKey
    pc,             \* where each request stands
    then,           \* where it goes when its disconnect, or its saved key, is done
    want,           \* the mode a mode request asks for
    alone,          \* the requests that no other one has overlapped so far
    calm,           \* the status can be relied on: since the program started, or
                    \* since a request disconnected alone, no requests have
                    \* overlapped, no command of a mode change has failed and
                    \* nobody has stopped the daemon from outside
    kept            \* so can the saved mode: since the program started, or since a
                    \* mode was set alone, no requests have overlapped

vars == <<tm, holder, installed, daemon, running, saved, pc, then, want, alone, calm, kept>>

Modes == {"cli", "tsnet"}                     \* what tm.mode can be once detected
ModeNames == Modes \cup {"auto"}              \* what a user can ask for
Stages == {"idle", "key", "saveKey", "connect", "up", "ip", "status", "ask", "answered",
           "disconnect", "down", "downed", "close", "mode", "saveMode"}

Manager == [mode : Modes, authKey : BOOLEAN, connected : BOOLEAN,
            localIP : {"", "cli", "tsnet"}, tsnetServer : BOOLEAN]

TypeOK ==
    /\ tm \in Manager
    /\ holder \in SUBSET Requests
    /\ installed \in BOOLEAN
    /\ daemon \in BOOLEAN
    /\ running \in Nat
    /\ saved \in [mode : ModeNames, key : BOOLEAN]
    /\ pc \in [Requests -> Stages]
    /\ then \in [Requests -> {"idle", "connect", "saveMode"}]
    /\ want \in [Requests -> ModeNames]
    /\ alone \in SUBSET Requests
    /\ calm \in BOOLEAN
    /\ kept \in BOOLEAN

-----------------------------------------------------------------------------
(* Start of the program: SetMode with the saved mode unless it is auto,    *)
(* DetectMode, and Connect when that gives tsnet and a key is saved.       *)

\* Mutant of Resolve: auto is kept as it is.
ResolveLater(m) == m

Resolve(m) == IF m # "auto" THEN m ELSE IF installed THEN "cli" ELSE "tsnet"

\* Mutant of Booted: the mode is detected whatever is saved.
BootedDetected(conf, up) ==
    LET joins == Resolve("auto") = "tsnet" /\ conf.key /\ up
    IN  [mode        |-> Resolve("auto"),
         authKey     |-> conf.key,
         connected   |-> joins,
         localIP     |-> IF joins THEN "tsnet" ELSE "",
         tsnetServer |-> joins]

\* The manager when main has prepared it; up says whether tsnet came up.
Booted(conf, up) ==
    LET joins == Resolve(conf.mode) = "tsnet" /\ conf.key /\ up
    IN  [mode        |-> Resolve(conf.mode),
         authKey     |-> conf.key,
         connected   |-> joins,
         localIP     |-> IF joins THEN "tsnet" ELSE "",
         tsnetServer |-> joins]

Servers(manager) == IF manager.tsnetServer THEN 1 ELSE 0

Init ==
    /\ installed \in BOOLEAN
    /\ daemon \in IF installed THEN BOOLEAN ELSE {FALSE}
    /\ saved \in [mode : ModeNames, key : BOOLEAN]
    /\ \E up \in BOOLEAN : tm = Booted(saved, up)
    /\ running = Servers(tm)
    /\ holder = {}
    /\ pc = [p \in Requests |-> "idle"]
    /\ then = [p \in Requests |-> "idle"]
    /\ want = [p \in Requests |-> "auto"]
    /\ alone = {}
    /\ calm = TRUE
    /\ kept = TRUE

\* The program stops at any point and is started again: its goroutines and
\* its tsnet servers end with it, the tool's daemon goes on.
Restart ==
    /\ \E up \in BOOLEAN : tm' = Booted(saved, up)
    /\ running' = Servers(tm')
    /\ holder' = {}
    /\ pc' = [p \in Requests |-> "idle"]
    /\ then' = [p \in Requests |-> "idle"]
    /\ want' = [p \in Requests |-> "auto"]
    /\ alone' = {}
    /\ calm' = TRUE
    /\ kept' = TRUE
    /\ UNCHANGED <<installed, daemon, saved>>

\* A user runs "tailscale up" or "tailscale down" in a terminal.
Outside ==
    /\ installed
    /\ daemon' = ~daemon
    /\ calm' = (calm /\ ~daemon)
    /\ UNCHANGED <<tm, holder, installed, running, saved, pc, then, want, alone, kept>>

-----------------------------------------------------------------------------
(* Requests.                                                               *)

Goto(p, stage) == pc' = [pc EXCEPT ![p] = stage]

\* tm.mu can be taken.
Free == holder = {}

Idle == \A p \in Requests : pc[p] = "idle"

Begin(p, stage, next, m) ==
    /\ pc[p] = "idle"
    /\ Goto(p, stage)
    /\ then' = [then EXCEPT ![p] = next]
    /\ want' = [want EXCEPT ![p] = m]
    /\ alone' = IF Idle THEN {p} ELSE {}
    /\ calm' = (calm /\ Idle)
    /\ kept' = (kept /\ Idle)
    /\ UNCHANGED <<tm, holder, installed, daemon, running, saved>>

\* /api/tailscale/connect with a key and without one, /api/settings with a key,
\* /api/tailscale/status, /disconnect and /mode.
BeginConnect(p)    == \/ Begin(p, "key", "connect", "auto")
                      \/ Begin(p, "connect", "idle", "auto")
BeginSettings(p)   == Begin(p, "key", "idle", "auto")
BeginStatus(p)     == Begin(p, "status", "idle", "auto")
BeginDisconnect(p) == Begin(p, "disconnect", "idle", "auto")
BeginMode(p)       == \E m \in ModeNames : Begin(p, "mode", "saveMode", m)

-----------------------------------------------------------------------------
(* Connecting.                                                             *)

SetAuthKey(p) ==
    /\ pc[p] = "key"
    /\ Free
    /\ tm' = [tm EXCEPT !.authKey = TRUE]
    /\ Goto(p, "saveKey")
    /\ UNCHANGED <<holder, installed, daemon, running, saved, then, want, alone, calm, kept>>

SaveKey(p) ==
    /\ pc[p] = "saveKey"
    /\ saved' = [saved EXCEPT !.key = TRUE]
    /\ Goto(p, then[p])
    /\ UNCHANGED <<tm, holder, installed, daemon, running, then, want, alone, calm, kept>>

\* Mutant of NeedsUp: a tsnet server that exists is not looked for.
NeedsUpAlways == tm.mode = "tsnet" \/ installed

\* Connect takes tm.mu and keeps it.  It gives up without a key, and in mode
\* CLI without the tool; a tsnet server that exists is left as it is.
NeedsUp == IF tm.mode = "cli" THEN installed ELSE ~tm.tsnetServer

Connect(p) ==
    /\ pc[p] = "connect"
    /\ Free
    /\ \/ /\ tm.authKey /\ NeedsUp
          /\ holder' = {p}
          /\ Goto(p, "up")
       \/ /\ tm.authKey /\ ~NeedsUp
          /\ Goto(p, IF tm.mode = "tsnet" THEN "status" ELSE "idle")
          /\ UNCHANGED holder
       \/ /\ ~tm.authKey
          /\ Goto(p, "idle")
          /\ UNCHANGED holder
    /\ UNCHANGED <<tm, installed, daemon, running, saved, then, want, alone, calm, kept>>

\* Mutant of ConnectCLI: a failed command returns with the lock.
ConnectCLIHolding(p) ==
    /\ pc[p] = "up"
    /\ tm.mode = "cli"
    /\ \/ daemon' = TRUE /\ Goto(p, "ip") /\ UNCHANGED holder
       \/ Goto(p, "idle") /\ UNCHANGED <<holder, daemon>>
    /\ UNCHANGED <<tm, installed, running, saved, then, want, alone, calm, kept>>

\* "tailscale up" of connectCLI returns.
ConnectCLI(p) ==
    /\ pc[p] = "up"
    /\ tm.mode = "cli"
    /\ \/ daemon' = TRUE /\ Goto(p, "ip") /\ UNCHANGED holder
       \/ Goto(p, "idle") /\ holder' = {} /\ UNCHANGED daemon
    /\ UNCHANGED <<tm, installed, running, saved, then, want, alone, calm, kept>>

\* "tailscale ip" returns; when it fails localIP stays what it was.
ConnectedCLI(p) ==
    /\ pc[p] = "ip"
    /\ \E ip \in {"cli", tm.localIP} : tm' = [tm EXCEPT !.localIP = ip, !.connected = TRUE]
    /\ holder' = {}
    /\ Goto(p, "status")
    /\ UNCHANGED <<installed, daemon, running, saved, then, want, alone, calm, kept>>

\* Up of a new tsnet server returns; a server that did not come up is closed.
ConnectTsnet(p) ==
    /\ pc[p] = "up"
    /\ tm.mode = "tsnet"
    /\ \/ /\ tm' = [tm EXCEPT !.tsnetServer = TRUE, !.localIP = "tsnet", !.connected = TRUE]
          /\ running' = running + 1
          /\ Goto(p, "status")
       \/ /\ Goto(p, "idle")
          /\ UNCHANGED <<tm, running>>
    /\ holder' = {}
    /\ UNCHANGED <<installed, daemon, saved, then, want, alone, calm, kept>>

-----------------------------------------------------------------------------
(* Disconnecting.  Disconnect reads the mode, releases the lock and then    *)
(* disconnects what it has read.                                           *)

Disconnect(p) ==
    /\ pc[p] = "disconnect"
    /\ Free
    /\ Goto(p, IF tm.mode = "cli" THEN "down" ELSE "close")
    /\ UNCHANGED <<tm, holder, installed, daemon, running, saved, then, want, alone, calm, kept>>

\* "tailscale down" of disconnectCLI, without the lock.  When it fails, or
\* without the tool, the manager is left as it is; SetMode ignores the error.
RunDown(p) ==
    /\ pc[p] = "down"
    /\ \/ installed /\ daemon' = FALSE /\ Goto(p, "downed") /\ UNCHANGED calm
       \/ /\ installed
          /\ calm' = (calm /\ then[p] = "idle")
          /\ Goto(p, then[p])
          /\ UNCHANGED daemon
       \/ ~installed /\ Goto(p, then[p]) /\ UNCHANGED <<daemon, calm>>
    /\ UNCHANGED <<tm, holder, installed, running, saved, then, want, alone, kept>>

DisconnectedCLI(p) ==
    /\ pc[p] = "downed"
    /\ Free
    /\ tm' = [tm EXCEPT !.connected = FALSE, !.localIP = ""]
    /\ Goto(p, then[p])
    /\ calm' = (calm \/ p \in alone)
    /\ UNCHANGED <<holder, installed, daemon, running, saved, then, want, alone, kept>>

\* Mutant of DisconnectTsnet: connected is left as it is.
DisconnectTsnetSilent(p) ==
    /\ pc[p] = "close"
    /\ Free
    /\ tm' = [tm EXCEPT !.tsnetServer = FALSE]
    /\ running' = running - Servers(tm)
    /\ Goto(p, then[p])
    /\ calm' = (calm \/ p \in alone)
    /\ UNCHANGED <<holder, installed, daemon, saved, then, want, alone, kept>>

DisconnectTsnet(p) ==
    /\ pc[p] = "close"
    /\ Free
    /\ tm' = [tm EXCEPT !.connected = FALSE, !.localIP = "", !.tsnetServer = FALSE]
    /\ running' = running - Servers(tm)
    /\ Goto(p, then[p])
    /\ calm' = (calm \/ p \in alone)
    /\ UNCHANGED <<holder, installed, daemon, saved, then, want, alone, kept>>

-----------------------------------------------------------------------------
(* Status and mode.                                                        *)

\* GetStatus answers from the manager when it says connected; otherwise, in
\* mode CLI, it asks the tool without the lock and writes what it learns.
GetStatus(p) ==
    /\ pc[p] = "status"
    /\ Free
    /\ Goto(p, IF ~tm.connected /\ tm.mode = "cli" THEN "ask" ELSE "idle")
    /\ UNCHANGED <<tm, holder, installed, daemon, running, saved, then, want, alone, calm, kept>>

AskIP(p) ==
    /\ pc[p] = "ask"
    /\ Goto(p, IF daemon THEN "answered" ELSE "idle")
    /\ UNCHANGED <<tm, holder, installed, daemon, running, saved, then, want, alone, calm, kept>>

StatusAnswered(p) ==
    /\ pc[p] = "answered"
    /\ Free
    /\ tm' = [tm EXCEPT !.connected = TRUE, !.localIP = "cli"]
    /\ Goto(p, "idle")
    /\ UNCHANGED <<holder, installed, daemon, running, saved, then, want, alone, calm, kept>>

\* Mutant of Leaves: the connection of the old mode stays.
LeavesNothing(m) == "saveMode"

\* How SetMode leaves the mode it finds.
Leaves(m) ==
    IF m = tm.mode THEN "saveMode" ELSE IF tm.mode = "cli" THEN "down" ELSE "close"

\* SetMode sets the mode under the lock, releases it and then disconnects
\* the mode it has left.
SetMode(p) ==
    /\ pc[p] = "mode"
    /\ Free
    /\ tm' = [tm EXCEPT !.mode = Resolve(want[p])]
    /\ Goto(p, Leaves(Resolve(want[p])))
    /\ UNCHANGED <<holder, installed, daemon, running, saved, then, want, alone, calm, kept>>

SaveMode(p) ==
    /\ pc[p] = "saveMode"
    /\ saved' = [saved EXCEPT !.mode = want[p]]
    /\ Goto(p, "idle")
    /\ kept' = (kept \/ p \in alone)
    /\ UNCHANGED <<tm, holder, installed, daemon, running, then, want, alone, calm>>

-----------------------------------------------------------------------------
Step(p) ==
    \/ SetAuthKey(p) \/ SaveKey(p)
    \/ Connect(p) \/ ConnectCLI(p) \/ ConnectedCLI(p) \/ ConnectTsnet(p)
    \/ Disconnect(p) \/ RunDown(p) \/ DisconnectedCLI(p) \/ DisconnectTsnet(p)
    \/ GetStatus(p) \/ AskIP(p) \/ StatusAnswered(p)
    \/ SetMode(p) \/ SaveMode(p)

Ask(p) ==
    BeginConnect(p) \/ BeginSettings(p) \/ BeginStatus(p) \/ BeginDisconnect(p) \/ BeginMode(p)

Next ==
    \/ \E p \in Requests : Ask(p) \/ Step(p)
    \/ Outside
    \/ Restart

\* The tool and tsnet are assumed to return (the code sets no time-out), and a
\* goroutine that waits for tm.mu gets it: Go's mutexes hand the lock to the one
\* that has waited longest.  No one has to make a request.
Spec == Init /\ [][Next]_vars /\ \A p \in Requests : SF_vars(Step(p))

-----------------------------------------------------------------------------
(* Properties.                                                             *)

\* The network of the manager's mode is up.
Linked == IF tm.mode = "cli" THEN daemon ELSE tm.tsnetServer

\* The only tsnet server that runs is the one the manager knows, and once the
\* mode is no longer tsnet a mode change is about to close it: whatever requests
\* meet, no server stays on the tailnet that the interface can no longer close
\* (Connect under the lock, SetMode before its disconnect).
ServerIsManaged ==
    /\ running = Servers(tm)
    /\ tm.tsnetServer /\ tm.mode # "tsnet" =>
           \E p \in Requests : pc[p] = "close" /\ then[p] = "saveMode"

\* As long as requests take turns, any sequence of them (keys, failed connects,
\* mode changes, restarts) leaves a status that is true: connected only when the
\* network of the current mode is up, a tsnet server that is up is shown, and the
\* address is one of that network.  And whatever overlapping requests have left
\* behind, such as the late answer that GetStatus writes, one disconnect or mode
\* change that runs alone and succeeds puts it right (tailscale.go:118-146, 291-377).
StatusAgrees ==
    calm /\ Idle =>
        /\ tm.connected => Linked
        /\ tm.mode = "tsnet" => (tm.connected <=> tm.tsnetServer)
        /\ tm.localIP \in {"", tm.mode}
        /\ ~tm.connected => tm.localIP = ""

\* As long as requests take turns, and again once a mode has been set alone,
\* config.json names the mode in use: a restart comes up in the mode the user sees,
\* and one between SetMode and Save comes up in the mode that was saved
\* (handlers_tailscale.go:82-85, main.go:32-37).
ModeIsRemembered == kept /\ Idle => Resolve(saved.mode) = tm.mode

\* Every request ends: the lock that Connect keeps while it waits is given back
\* on every path, and no operation waits for it while it holds it.
RequestsEnd == \A p \in Requests : pc[p] # "idle" ~> pc[p] = "idle"
=============================================================================
