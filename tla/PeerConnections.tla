--------------------------- MODULE PeerConnections ---------------------------
(***************************************************************************)
(* How Stashbird devices find and keep a yamux session with each other     *)
(* (network/connection.go).  Every device dials every other one for ever   *)
(* (connectToPeer) and serves those who dial it (handleConnection), so two *)
(* devices may set up two sessions at once; the Hello exchange, the look-  *)
(* up of an earlier connection and the registration in ss.peers take       *)
(* separate steps.                                                         *)
(*                                                                         *)
(* A session has two ends.  An end that closes it knows at once, the other *)
(* one when it notices.  Both ends greet the other with their full index   *)
(* before they accept the other's streams.  A stream carries 256 KiB       *)
(* before the other end accepts it: a larger index waits for that, with    *)
(* the read lock of ss.mu held.                                            *)
(***************************************************************************)
EXTENDS Naturals, FiniteSets

CONSTANTS
  Device,
  Rank,         \* the order of the DeviceIDs
  Large,        \* devices whose full index may be larger than 256 KiB
  Session,      \* sessions; one is used again when both ends have left it
  ends,         \* the dialler and the acceptor of a session
  None,         \* no entry in ss.peers
  Dead,         \* an entry whose connection is no longer alive
  MaxBreaks,    \* bound: losses of the network between two devices
  MaxRemovals   \* bound: calls of DisconnectPeer

ASSUME DeviceAssumption ==
  /\ IsFiniteSet(Device) /\ Large \subseteq Device
  /\ Rank \in [Device -> Nat]
  /\ \A d, e \in Device : Rank[d] = Rank[e] => d = e
Pair == {p \in Device \X Device : p[1] # p[2]}

ASSUME SessionAssumption ==
  /\ IsFiniteSet(Session) /\ Session \subseteq Nat
  /\ ends \in [Session -> Pair]
  /\ None \notin Session /\ Dead \notin Session
ASSUME BoundAssumption == MaxBreaks \in Nat /\ MaxRemovals \in Nat

VARIABLES
  peers,      \* ss.peers of each device: session, Dead or None
  open,       \* the ends at which the session is not closed
  stage,      \* how far the goroutine of each end is
  loop,       \* what each connectToPeer is at: a session or a delay
  large,      \* the devices whose index is larger than 256 KiB, for good
  unread,     \* ends whose full index waits in the session
  delivered,  \* <<d, e>>: d's full index reached e
  breaks, removals

sessionVars == <<open, stage, unread>>
countVars == <<breaks, removals>>
vars == <<peers, sessionVars, loop, large, delivered, countVars>>

-----------------------------------------------------------------------------
Other(s, x) == IF x = ends[s][1] THEN ends[s][2] ELSE ends[s][1]

Free(s) == \A x \in Device : stage[s][x] = "none"

\* sendFullIndex of some connection of d holds ss.mu for reading.
Held(d) == \E s \in Session : stage[s][d] = "sending"

Alive(d, e) == peers[d][e] \in Session

To(s, x, where) ==
  /\ stage' = [stage EXCEPT ![s][x] = where]
  /\ UNCHANGED unread

\* The end is done with the session: what it has not read is lost.
Quit(s, x) ==
  /\ stage' = [stage EXCEPT ![s][x] = "none"]
  /\ unread' = [unread EXCEPT ![s] = @ \ {Other(s, x)}]

\* sendFullIndex is over, and the index is in the session if both ends are.
Sent(s, x) ==
  /\ stage' = [stage EXCEPT ![s][x] = "accepting"]
  /\ unread' = IF open[s] = {x, Other(s, x)}
                 THEN [unread EXCEPT ![s] = @ \cup {x}] ELSE unread

\* alive = false, for the connection of session s only.
Unregistered(s, x) ==
  IF peers[x][Other(s, x)] = s
    THEN [peers EXCEPT ![x][Other(s, x)] = Dead] ELSE peers

Init ==
  /\ peers = [d \in Device |-> [e \in Device |-> None]]
  /\ open = [s \in Session |-> {}]
  /\ stage = [s \in Session |-> [x \in Device |-> "none"]]
  /\ loop = [p \in Pair |-> "dialing"]
  /\ large \in SUBSET Large
  /\ unread = [s \in Session |-> {}]
  /\ delivered = {}
  /\ breaks = 0 /\ removals = 0

-----------------------------------------------------------------------------
(* connectToPeer. *)

\* Dial, open the session and send Hello; the acceptor's handler starts.
Dial(p) ==
  /\ loop[p] = "dialing"
  /\ \E s \in Session :
       /\ ends[s] = p /\ Free(s)
       /\ \A r \in Session : ends[r] = p /\ Free(r) => s <= r
       /\ loop' = [loop EXCEPT ![p] = "session"]
       /\ open' = [open EXCEPT ![s] = {p[1], p[2]}]
       /\ stage' = [stage EXCEPT ![s] =
            [x \in Device |-> IF x \in {p[1], p[2]} THEN "hello" ELSE "none"]]
  /\ UNCHANGED <<peers, unread, delivered, large, countVars>>

\* The Hello of the acceptor arrives; but it turned the connection down, or the
\* network was lost, if by now the session is closed here.
ReadReply(p, s) ==
  /\ ends[s] = p /\ stage[s][p[1]] = "hello"
  /\ \/ /\ p[1] \in open[s] /\ stage[s][p[2]] # "hello"
        /\ To(s, p[1], "register")
        /\ UNCHANGED loop
     \/ /\ p[1] \notin open[s]
        /\ Quit(s, p[1])
        /\ loop' = [loop EXCEPT ![p] = "dialing"]
  /\ UNCHANGED <<peers, open, delivered, large, countVars>>

\* After the delay: dial again, unless the map has a live connection.
Wake(p) ==
  /\ loop[p] = "sleeping"
  /\ loop' = [loop EXCEPT ![p] = IF Alive(p[1], p[2]) THEN "waiting"
                                                      ELSE "dialing"]
  /\ UNCHANGED <<peers, sessionVars, delivered, large, countVars>>

\* The inbound connection has gone.
StopWaiting(p) ==
  /\ loop[p] = "waiting" /\ ~Alive(p[1], p[2])
  /\ loop' = [loop EXCEPT ![p] = "dialing"]
  /\ UNCHANGED <<peers, sessionVars, delivered, large, countVars>>

-----------------------------------------------------------------------------
(* handleConnection. *)

\* Hello is read and answered.
ReadHello(s, x) ==
  /\ stage[s][x] = "hello" /\ x = ends[s][2]
  /\ IF x \in open[s] THEN To(s, x, "check") ELSE Quit(s, x)
  /\ UNCHANGED <<peers, open, loop, delivered, large, countVars>>

\* Mutant of CheckDuplicate: both devices turn the later connection down.
CheckDuplicateUnranked(s, x) ==
  /\ stage[s][x] = "check"
  /\ IF Alive(x, Other(s, x))
       THEN /\ open' = [open EXCEPT ![s] = @ \ {x}]
            /\ Quit(s, x)
       ELSE To(s, x, "register") /\ UNCHANGED open
  /\ UNCHANGED <<peers, loop, delivered, large, countVars>>

\* Is there a live connection to the dialler already?  The device with the
\* greater ID turns the new one down; the other one closes the earlier one.
CheckDuplicate(s, x) ==
  /\ stage[s][x] = "check"
  /\ LET y == Other(s, x) IN
       \/ /\ Alive(x, y) /\ Rank[x] > Rank[y]
          /\ open' = [open EXCEPT ![s] = @ \ {x}]
          /\ Quit(s, x)
          /\ UNCHANGED peers
       \/ /\ Alive(x, y) /\ Rank[x] < Rank[y]
          /\ open' = [open EXCEPT ![peers[x][y]] = @ \ {x}]
          /\ peers' = [peers EXCEPT ![x][y] = Dead]
          /\ To(s, x, "register")
       \/ /\ ~Alive(x, y)
          /\ To(s, x, "register")
          /\ UNCHANGED <<open, peers>>
  /\ UNCHANGED <<loop, delivered, large, countVars>>

-----------------------------------------------------------------------------
(* Either end of a session. *)

\* ss.peers[id] = pc, under the write lock; then the full index goes out.  A
\* small one fits into the stream, a large one takes time.
Register(s, x) ==
  /\ stage[s][x] = "register" /\ ~Held(x)
  /\ peers' = [peers EXCEPT ![x][Other(s, x)] = s]
  /\ IF x \in open[s] /\ x \in large
       THEN To(s, x, "sending")
       ELSE Sent(s, x)
  /\ UNCHANGED <<open, loop, delivered, large, countVars>>

\* The rest of a large index follows when the other end accepts the stream;
\* when the session is closed, writing fails.
FinishIndex(s, x) ==
  /\ stage[s][x] = "sending"
  /\ x \in open[s] => stage[s][Other(s, x)] = "accepting"
  /\ Sent(s, x)
  /\ UNCHANGED <<peers, open, loop, delivered, large, countVars>>

\* Mutant of Deliver: the index is filed under the device that receives it.
DeliverOwn(s, x) ==
  /\ stage[s][x] = "accepting" /\ x \in open[s] /\ Other(s, x) \in unread[s]
  /\ unread' = [unread EXCEPT ![s] = @ \ {Other(s, x)}]
  /\ delivered' = delivered \cup {<<x, x>>}
  /\ UNCHANGED <<peers, open, stage, loop, large, countVars>>

\* The accept loop hands the other end's index to a goroutine.
Deliver(s, x) ==
  /\ stage[s][x] = "accepting" /\ x \in open[s] /\ Other(s, x) \in unread[s]
  /\ unread' = [unread EXCEPT ![s] = @ \ {Other(s, x)}]
  /\ delivered' = delivered \cup {<<Other(s, x), x>>}
  /\ UNCHANGED <<peers, open, stage, loop, large, countVars>>

\* Mutant of Leave: the map keeps a connection that is shown alive.
LeaveRegistered(s, x) ==
  /\ stage[s][x] = "accepting" /\ x \notin open[s]
  /\ Quit(s, x)
  /\ loop' = IF x = ends[s][1] THEN [loop EXCEPT ![ends[s]] = "sleeping"]
                               ELSE loop
  /\ UNCHANGED <<peers, open, delivered, large, countVars>>

\* Accept fails on a closed session: alive = false, and the dialler sleeps.
Leave(s, x) ==
  /\ stage[s][x] = "accepting" /\ x \notin open[s]
  /\ peers' = Unregistered(s, x)
  /\ Quit(s, x)
  /\ loop' = IF x = ends[s][1] THEN [loop EXCEPT ![ends[s]] = "sleeping"]
                               ELSE loop
  /\ UNCHANGED <<open, delivered, large, countVars>>

\* An end learns that the other one has closed the session.
Notice(s, x) ==
  /\ x \in open[s] /\ Other(s, x) \notin open[s]
  /\ open' = [open EXCEPT ![s] = @ \ {x}]
  /\ UNCHANGED <<peers, stage, loop, unread, delivered, large, countVars>>

\* StreamOpenTimeout: nobody accepted a stream of x for sixty seconds, which
\* passes only if the other end waits for the like.
OpenTimeout(s, x) ==
  /\ stage[s][x] = "sending" /\ x \in open[s]
  /\ stage[s][Other(s, x)] \in {"register", "sending"} /\ Held(Other(s, x))
  /\ open' = [open EXCEPT ![s] = @ \ {x}]
  /\ UNCHANGED <<peers, stage, loop, unread, delivered, large, countVars>>

-----------------------------------------------------------------------------
(* The network and the users. *)

\* The network between two devices is lost and comes back; what the sessions
\* carried is lost.
Break(p) ==
  /\ breaks < MaxBreaks
  /\ breaks' = breaks + 1
  /\ LET lost == {s \in Session : ends[s] \in {p, <<p[2], p[1]>>}} IN
       /\ open' = [s \in Session |-> IF s \in lost THEN {} ELSE open[s]]
       /\ unread' = [s \in Session |-> IF s \in lost THEN {} ELSE unread[s]]
  /\ delivered' = delivered \ {p, <<p[2], p[1]>>}
  /\ UNCHANGED <<peers, stage, loop, large, removals>>

\* DisconnectPeer: the entry goes and its session is closed.  The loop that
\* dials the peer goes on.
DisconnectPeer(p) ==
  /\ removals < MaxRemovals /\ peers[p[1]][p[2]] # None /\ ~Held(p[1])
  /\ removals' = removals + 1
  /\ peers' = [peers EXCEPT ![p[1]][p[2]] = None]
  /\ open' = IF Alive(p[1], p[2])
               THEN [open EXCEPT ![peers[p[1]][p[2]]] = @ \ {p[1]}] ELSE open
  /\ UNCHANGED <<stage, loop, unread, delivered, large, breaks>>

-----------------------------------------------------------------------------
LoopStep(p) ==
  \/ Dial(p) \/ Wake(p) \/ StopWaiting(p)
  \/ \E s \in Session : ReadReply(p, s)

EndStep(s, x) ==
  \/ ReadHello(s, x) \/ CheckDuplicate(s, x) \/ Register(s, x)
  \/ FinishIndex(s, x) \/ Deliver(s, x) \/ Leave(s, x)

Lose(s, x) == Notice(s, x) \/ OpenTimeout(s, x)

Next ==
  \/ \E p \in Pair : LoopStep(p)
  \/ \E s \in Session, x \in Device :
       EndStep(s, x) \/ Lose(s, x)
  \/ \E p \in Pair : Break(p) \/ DisconnectPeer(p)

Spec == Init /\ [][Next]_vars

\* Loops and handlers are goroutines that keep being scheduled, a lost session
\* is noticed by the keep-alive, timers run out.  A writer that waits for
\* the RWMutex gets it after the readers that hold it, however many follow.
Fairness ==
  /\ \A p \in Pair : WF_vars(LoopStep(p))
  /\ \A s \in Session, x \in Device :
       WF_vars(EndStep(s, x)) /\ WF_vars(Lose(s, x)) /\ SF_vars(Register(s, x))

FairSpec == Spec /\ Fairness

-----------------------------------------------------------------------------
(* Properties. *)

TypeOK ==
  /\ peers \in [Device -> [Device -> Session \cup {None, Dead}]]
  /\ open \in [Session -> SUBSET Device]
  /\ stage \in [Session -> [Device -> {"none", "hello", "check",
                   "register", "sending", "accepting"}]]
  /\ loop \in [Pair -> {"dialing", "session", "sleeping", "waiting"}]
  /\ large \subseteq Large
  /\ unread \in [Session -> SUBSET Device]
  /\ delivered \subseteq Pair
  /\ breaks \in Nat /\ removals \in Nat

\* A connection that ss.peers shows as alive belongs to the peer it is listed
\* under, and a goroutine of this device still serves it: it will mark it dead
\* when the session closes.
EntryIsServed ==
  \A p \in Pair : Alive(p[1], p[2]) =>
    LET s == peers[p[1]][p[2]] IN
      /\ {p[1], p[2]} = {ends[s][1], ends[s][2]}
      /\ stage[s][p[1]] \in {"sending", "accepting"}

\* Two devices with large indexes wait for each other; a device alone does not.
Compatible(p) == ~({p[1], p[2]} \subseteq large)

\* Both ends of a session of the pair are open and accept streams.
Connected(p) ==
  \E s \in Session :
    /\ open[s] = {p[1], p[2]}
    /\ \A x \in open[s] : stage[s][x] = "accepting"

\* Whatever dials, replacements, removals and network losses coincide, in the
\* end two devices keep a session that both of them serve, and each has got the
\* full index of the other, unless both indexes are large.
IndexesArrive ==
  <>[](\A p \in Pair : Compatible(p) => Connected(p) /\ p \in delivered)
=============================================================================
