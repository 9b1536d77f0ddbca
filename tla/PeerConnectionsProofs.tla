----------------------- MODULE PeerConnectionsProofs -----------------------
(* Proofs about PeerConnections: a connection that ss.peers shows as alive *)
(* is served, for any number of devices and sessions.                      *)
EXTENDS PeerConnections, TLAPS

\* Only the dialler and the acceptor of a session have a goroutine for it.
StageOfEnds ==
  \A s \in Session, x \in Device :
    stage[s][x] # "none" => x \in {ends[s][1], ends[s][2]}

-----------------------------------------------------------------------------
(* The operators. *)

LEMMA EndsAreDevices ==
  ASSUME NEW s \in Session
  PROVE  /\ ends[s][1] \in Device /\ ends[s][2] \in Device
         /\ ends[s][1] # ends[s][2]
         /\ ends[s] = <<ends[s][1], ends[s][2]>>
<1>1. ends[s] \in Pair
  BY SessionAssumption
<1> QED BY <1>1 DEF Pair

LEMMA OtherIsDevice ==
  ASSUME NEW s \in Session, NEW x \in Device
  PROVE  Other(s, x) \in Device
BY EndsAreDevices DEF Other

LEMMA OtherEnd ==
  ASSUME NEW s \in Session, NEW x \in {ends[s][1], ends[s][2]}
  PROVE  /\ <<x, Other(s, x)>> \in Pair
         /\ {x, Other(s, x)} = {ends[s][1], ends[s][2]}
BY EndsAreDevices DEF Other, Pair

\* The three ways in which an end moves on keep the types.
LEMMA ToType ==
  ASSUME TypeOK, NEW s \in Session, NEW x \in Device,
         NEW where \in {"none", "hello", "check", "register", "sending",
                        "accepting"},
         To(s, x, where)
  PROVE  (/\ stage \in [Session -> [Device -> {"none", "hello", "check",
                          "register", "sending", "accepting"}]]
          /\ unread \in [Session -> SUBSET Device])'
BY DEF TypeOK, To

LEMMA QuitType ==
  ASSUME TypeOK, NEW s \in Session, NEW x \in Device, Quit(s, x)
  PROVE  (/\ stage \in [Session -> [Device -> {"none", "hello", "check",
                          "register", "sending", "accepting"}]]
          /\ unread \in [Session -> SUBSET Device])'
BY DEF TypeOK, Quit

LEMMA SentType ==
  ASSUME TypeOK, NEW s \in Session, NEW x \in Device, Sent(s, x)
  PROVE  (/\ stage \in [Session -> [Device -> {"none", "hello", "check",
                          "register", "sending", "accepting"}]]
          /\ unread \in [Session -> SUBSET Device])'
BY DEF TypeOK, Sent

-----------------------------------------------------------------------------
(* Types. *)

LEMMA InitType == Init => TypeOK
BY BoundAssumption DEF Init, TypeOK

LEMMA TypeStep == TypeOK /\ StageOfEnds /\ [Next]_vars => TypeOK'
<1> SUFFICES ASSUME TypeOK, StageOfEnds, [Next]_vars PROVE TypeOK'
  OBVIOUS
<1> USE DEF Pair
<1>1. ASSUME NEW p \in Pair, Dial(p) PROVE TypeOK'
  BY <1>1 DEF TypeOK, Dial, countVars
<1>2. ASSUME NEW p \in Pair, NEW s \in Session, ReadReply(p, s) PROVE TypeOK'
  <2>1. p[1] \in Device
    OBVIOUS
  <2>2. CASE To(s, p[1], "register") /\ UNCHANGED loop
    BY <1>2, <2>1, <2>2, ToType DEF TypeOK, ReadReply, countVars
  <2>3. CASE Quit(s, p[1]) /\ loop' = [loop EXCEPT ![p] = "dialing"]
    BY <1>2, <2>1, <2>3, QuitType DEF TypeOK, ReadReply, countVars
  <2> QED BY <1>2, <2>2, <2>3 DEF ReadReply
<1>3. ASSUME NEW p \in Pair, Wake(p) PROVE TypeOK'
  BY <1>3 DEF TypeOK, Wake, sessionVars, countVars
<1>4. ASSUME NEW p \in Pair, StopWaiting(p) PROVE TypeOK'
  BY <1>4 DEF TypeOK, StopWaiting, sessionVars, countVars
<1>5. ASSUME NEW s \in Session, NEW x \in Device, ReadHello(s, x)
      PROVE TypeOK'
  BY <1>5, ToType, QuitType DEF TypeOK, ReadHello, countVars
<1>6. ASSUME NEW s \in Session, NEW x \in Device, CheckDuplicate(s, x)
      PROVE TypeOK'
  <2> DEFINE y == Other(s, x)
  <2>1. y \in Device
    BY OtherIsDevice
  <2>2. CASE /\ open' = [open EXCEPT ![s] = @ \ {x}]
             /\ Quit(s, x) /\ UNCHANGED peers
    BY <1>6, <2>2, QuitType DEF TypeOK, CheckDuplicate, countVars
  <2>3. CASE /\ Alive(x, y) /\ open' = [open EXCEPT ![peers[x][y]] = @ \ {x}]
             /\ peers' = [peers EXCEPT ![x][y] = Dead]
             /\ To(s, x, "register")
    BY <1>6, <2>1, <2>3, ToType DEF TypeOK, CheckDuplicate, Alive, countVars
  <2>4. CASE To(s, x, "register") /\ UNCHANGED <<open, peers>>
    BY <1>6, <2>4, ToType DEF TypeOK, CheckDuplicate, countVars
  <2> QED BY <1>6, <2>2, <2>3, <2>4 DEF CheckDuplicate
<1>7. ASSUME NEW s \in Session, NEW x \in Device, Register(s, x)
      PROVE TypeOK'
  <2>1. Other(s, x) \in Device
    BY OtherIsDevice
  <2>2. peers' \in [Device -> [Device -> Session \cup {None, Dead}]]
    BY <1>7, <2>1 DEF TypeOK, Register
  <2>3. (/\ stage \in [Session -> [Device -> {"none", "hello", "check",
                           "register", "sending", "accepting"}]]
         /\ unread \in [Session -> SUBSET Device])'
    BY <1>7, ToType, SentType DEF Register
  <2> QED BY <1>7, <2>2, <2>3 DEF TypeOK, Register, countVars
<1>8. ASSUME NEW s \in Session, NEW x \in Device, FinishIndex(s, x)
      PROVE TypeOK'
  BY <1>8, SentType DEF TypeOK, FinishIndex, countVars
<1>9. ASSUME NEW s \in Session, NEW x \in Device, Deliver(s, x) PROVE TypeOK'
  <2>1. x \in {ends[s][1], ends[s][2]}
    BY <1>9 DEF StageOfEnds, Deliver
  <2>2. <<Other(s, x), x>> \in Pair
    BY <2>1, OtherEnd
  <2> QED BY <1>9, <2>2 DEF TypeOK, Deliver, countVars
<1>10. ASSUME NEW s \in Session, NEW x \in Device, Leave(s, x) PROVE TypeOK'
  <2>1. Other(s, x) \in Device /\ ends[s] \in Pair
    BY OtherIsDevice, SessionAssumption
  <2>2. peers' \in [Device -> [Device -> Session \cup {None, Dead}]]
    BY <1>10, <2>1 DEF TypeOK, Leave, Unregistered
  <2> QED BY <1>10, <2>1, <2>2, QuitType DEF TypeOK, Leave, countVars
<1>11. ASSUME NEW s \in Session, NEW x \in Device, Lose(s, x) PROVE TypeOK'
  BY <1>11 DEF TypeOK, Lose, Notice, OpenTimeout, countVars
<1>12. ASSUME NEW p \in Pair, Break(p) PROVE TypeOK'
  BY <1>12 DEF TypeOK, Break
<1>13. ASSUME NEW p \in Pair, DisconnectPeer(p) PROVE TypeOK'
  BY <1>13 DEF TypeOK, DisconnectPeer, Alive
<1>14. CASE UNCHANGED vars
  BY <1>14 DEF TypeOK, vars, sessionVars, countVars
<1> QED
  BY <1>1, <1>2, <1>3, <1>4, <1>5, <1>6, <1>7, <1>8, <1>9, <1>10, <1>11,
     <1>12, <1>13, <1>14
  DEF Next, LoopStep, EndStep

-----------------------------------------------------------------------------
(* Which ends have a goroutine. *)

\* A step that changes the stage of one end of a session only, and of an end
\* that had a stage already, keeps StageOfEnds.
LEMMA MovedStage ==
  ASSUME TypeOK, StageOfEnds, NEW s \in Session, NEW x \in Device, NEW where,
         stage[s][x] # "none", stage' = [stage EXCEPT ![s][x] = where]
  PROVE  StageOfEnds'
BY DEF TypeOK, StageOfEnds

LEMMA StageStep == TypeOK /\ StageOfEnds /\ [Next]_vars => StageOfEnds'
<1> SUFFICES ASSUME TypeOK, StageOfEnds, [Next]_vars PROVE StageOfEnds'
  OBVIOUS
<1>1. ASSUME NEW p \in Pair, Dial(p) PROVE StageOfEnds'
  BY <1>1 DEF TypeOK, StageOfEnds, Dial
<1>2. ASSUME NEW p \in Pair, NEW s \in Session, ReadReply(p, s)
      PROVE StageOfEnds'
  <2>1. p[1] \in Device
    BY DEF Pair
  <2> QED BY <1>2, <2>1, MovedStage DEF ReadReply, To, Quit
<1>3. ASSUME NEW s \in Session, NEW x \in Device, EndStep(s, x)
      PROVE StageOfEnds'
  <2>1. CASE UNCHANGED stage
    BY <2>1 DEF StageOfEnds
  <2>2. stage[s][x] # "none"
    BY <1>3 DEF EndStep, ReadHello, CheckDuplicate, Register, FinishIndex,
                Deliver, Leave
  <2>3. CASE \E where : stage' = [stage EXCEPT ![s][x] = where]
    BY <2>2, <2>3, MovedStage
  <2> QED
    BY <1>3, <2>1, <2>3
    DEF EndStep, ReadHello, CheckDuplicate, Register, FinishIndex, Deliver,
        Leave, To, Quit, Sent
<1>4. CASE UNCHANGED stage
  BY <1>4 DEF StageOfEnds
<1> QED
  BY <1>1, <1>2, <1>3, <1>4
  DEF Next, LoopStep, Wake, StopWaiting, Lose, Notice, OpenTimeout, Break,
      DisconnectPeer, vars, sessionVars

-----------------------------------------------------------------------------
(* Which entries are served. *)

\* The goroutine at x serves session s.
Serves(s, x) == stage[s][x] \in {"sending", "accepting"}

\* EntryIsServed, for one entry.
Served(p) ==
  peers[p[1]][p[2]] \in Session =>
    /\ {p[1], p[2]} = {ends[peers[p[1]][p[2]]][1], ends[peers[p[1]][p[2]]][2]}
    /\ Serves(peers[p[1]][p[2]], p[1])

LEMMA ServedEntries == EntryIsServed <=> \A p \in Pair : Served(p)
BY DEF EntryIsServed, Served, Serves, Alive

LEMMA ServedEntriesNext == EntryIsServed' <=> \A p \in Pair : Served(p)'
BY DEF EntryIsServed, Served, Serves, Alive

\* An entry that a step leaves alone stays served, if the step stops no
\* goroutine that serves a session there.
LEMMA KeptEntry ==
  ASSUME NEW p \in Pair, Served(p),
         \/ peers'[p[1]][p[2]] \notin Session
         \/ /\ peers'[p[1]][p[2]] = peers[p[1]][p[2]]
            /\ \A s \in Session : Serves(s, p[1]) => Serves(s, p[1])'
  PROVE  Served(p)'
BY DEF Served

\* A goroutine at another stage than the serving ones may move on freely.
LEMMA MovedServes ==
  ASSUME TypeOK, NEW s \in Session, NEW x \in Device, NEW where,
         ~Serves(s, x), stage' = [stage EXCEPT ![s][x] = where],
         NEW r \in Session, NEW z \in Device, Serves(r, z)
  PROVE  Serves(r, z)'
BY DEF TypeOK, Serves

LEMMA ServedStep ==
  TypeOK /\ StageOfEnds /\ EntryIsServed /\ [Next]_vars => EntryIsServed'
<1> SUFFICES ASSUME TypeOK, StageOfEnds, [Next]_vars,
                    \A q \in Pair : Served(q),
                    NEW p \in Pair
             PROVE  Served(p)'
  BY ServedEntries, ServedEntriesNext
<1>0. p[1] \in Device /\ p[2] \in Device /\ Served(p)
  BY DEF Pair
<1>1. ASSUME NEW q \in Pair, Dial(q) PROVE Served(p)'
  <2>1. \A s \in Session : Serves(s, p[1]) => Serves(s, p[1])'
    BY <1>0, <1>1 DEF TypeOK, Dial, Serves, Free
  <2> QED BY <1>0, <1>1, <2>1, KeptEntry DEF Dial
<1>2. ASSUME NEW q \in Pair, NEW s \in Session, ReadReply(q, s)
      PROVE Served(p)'
  <2>1. q[1] \in Device /\ ~Serves(s, q[1])
    BY <1>2 DEF Pair, ReadReply, Serves
  <2>2. \A r \in Session : Serves(r, p[1]) => Serves(r, p[1])'
    BY <1>0, <1>2, <2>1, MovedServes DEF ReadReply, To, Quit
  <2> QED BY <1>0, <1>2, <2>2, KeptEntry DEF ReadReply
<1>3. ASSUME NEW s \in Session, NEW x \in Device, ReadHello(s, x)
      PROVE Served(p)'
  <2>1. ~Serves(s, x)
    BY <1>3 DEF ReadHello, Serves
  <2>2. \A r \in Session : Serves(r, p[1]) => Serves(r, p[1])'
    BY <1>0, <1>3, <2>1, MovedServes DEF ReadHello, To, Quit
  <2> QED BY <1>0, <1>3, <2>2, KeptEntry DEF ReadHello
<1>4. ASSUME NEW s \in Session, NEW x \in Device, CheckDuplicate(s, x)
      PROVE Served(p)'
  <2>1. ~Serves(s, x)
    BY <1>4 DEF CheckDuplicate, Serves
  <2>2. \A r \in Session : Serves(r, p[1]) => Serves(r, p[1])'
    BY <1>0, <1>4, <2>1, MovedServes DEF CheckDuplicate, To, Quit
  <2>3. \/ peers'[p[1]][p[2]] \notin Session
        \/ peers'[p[1]][p[2]] = peers[p[1]][p[2]]
    BY <1>0, <1>4, OtherIsDevice, SessionAssumption DEF CheckDuplicate, TypeOK
  <2> QED BY <1>0, <2>2, <2>3, KeptEntry
<1>5. ASSUME NEW s \in Session, NEW x \in Device, Register(s, x)
      PROVE Served(p)'
  <2>1. ~Serves(s, x) /\ stage[s][x] # "none"
    BY <1>5 DEF Register, Serves
  <2>2. \A r \in Session : Serves(r, p[1]) => Serves(r, p[1])'
    BY <1>0, <1>5, <2>1, MovedServes DEF Register, To, Sent
  <2>3. x \in {ends[s][1], ends[s][2]} /\ Other(s, x) \in Device
    BY <2>1, OtherIsDevice DEF StageOfEnds
  <2>4. CASE p[1] = x /\ p[2] = Other(s, x)
    <3>1. peers'[p[1]][p[2]] = s
      BY <1>5, <2>3, <2>4 DEF Register, TypeOK
    <3>2. Serves(s, x)'
      BY <1>5 DEF Register, To, Sent, Serves, TypeOK
    <3>3. {p[1], p[2]} = {ends[s][1], ends[s][2]}
      BY <2>3, <2>4, OtherEnd
    <3> QED BY <2>4, <3>1, <3>2, <3>3 DEF Served, Serves
  <2>5. CASE ~(p[1] = x /\ p[2] = Other(s, x))
    <3>1. peers'[p[1]][p[2]] = peers[p[1]][p[2]]
      BY <1>0, <1>5, <2>3, <2>5 DEF Register, TypeOK
    <3> QED BY <1>0, <2>2, <3>1, KeptEntry
  <2> QED BY <2>4, <2>5
<1>6. ASSUME NEW s \in Session, NEW x \in Device, FinishIndex(s, x)
      PROVE Served(p)'
  <2>1. \A r \in Session : Serves(r, p[1]) => Serves(r, p[1])'
    BY <1>0, <1>6 DEF FinishIndex, Sent, Serves, TypeOK
  <2> QED BY <1>0, <1>6, <2>1, KeptEntry DEF FinishIndex
<1>7. ASSUME NEW s \in Session, NEW x \in Device, Leave(s, x)
      PROVE Served(p)'
  <2>1. x \in {ends[s][1], ends[s][2]} /\ Other(s, x) \in Device
    BY <1>7, OtherIsDevice DEF Leave, StageOfEnds
  <2>2. CASE p[1] = x /\ peers[p[1]][p[2]] = s
    <3>1. p[2] = Other(s, x)
      <4>1. {x, p[2]} = {ends[s][1], ends[s][2]} /\ x # p[2]
        BY <2>2, <1>0 DEF Served, Pair
      <4>2. {x, Other(s, x)} = {ends[s][1], ends[s][2]} /\ x # Other(s, x)
        BY <2>1, OtherEnd DEF Pair
      <4> QED BY <4>1, <4>2
    <3>2. peers'[p[1]][p[2]] = Dead
      BY <1>0, <1>7, <2>2, <3>1 DEF Leave, Unregistered, TypeOK
    <3> QED BY <1>0, <3>2, KeptEntry, SessionAssumption
  <2>3. CASE ~(p[1] = x /\ peers[p[1]][p[2]] = s)
    <3>1. \/ peers'[p[1]][p[2]] \notin Session
          \/ peers'[p[1]][p[2]] = peers[p[1]][p[2]]
      BY <1>0, <1>7, <2>1, SessionAssumption DEF Leave, Unregistered, TypeOK
    <3>2. \A r \in Session :
            r = peers[p[1]][p[2]] /\ Serves(r, p[1]) => Serves(r, p[1])'
      <4> SUFFICES ASSUME NEW r \in Session, r = peers[p[1]][p[2]],
                          Serves(r, p[1])
                   PROVE  Serves(r, p[1])'
        OBVIOUS
      <4>1. stage'[r][p[1]] = stage[r][p[1]]
        BY <1>0, <1>7, <2>3 DEF Leave, Quit, TypeOK
      <4> QED BY <4>1 DEF Serves
    <3> QED BY <1>0, <3>1, <3>2 DEF Served, Serves
  <2> QED BY <2>2, <2>3
<1>8. ASSUME NEW q \in Pair, DisconnectPeer(q) PROVE Served(p)'
  <2>1. \/ peers'[p[1]][p[2]] \notin Session
        \/ peers'[p[1]][p[2]] = peers[p[1]][p[2]]
    BY <1>0, <1>8, SessionAssumption DEF DisconnectPeer, TypeOK, Pair
  <2> QED BY <1>0, <1>8, <2>1, KeptEntry DEF DisconnectPeer, Serves
<1>9. CASE UNCHANGED <<peers, stage>>
  BY <1>0, <1>9, KeptEntry DEF Serves
<1> QED
  BY <1>1, <1>2, <1>3, <1>4, <1>5, <1>6, <1>7, <1>8, <1>9
  DEF Next, LoopStep, EndStep, Wake, StopWaiting, Deliver, Lose, Notice,
      OpenTimeout, Break, vars, sessionVars

-----------------------------------------------------------------------------
(* The theorems. *)

\* Whatever sessions are set up at once, replaced, removed and lost, an entry
\* of ss.peers that is alive belongs to a session with that peer, and the
\* goroutine that will mark it dead is at work: for any number of devices,
\* sessions, removals and losses.
THEOREM LiveEntriesAreServed == Spec => [](TypeOK /\ EntryIsServed)
<1>1. Init => TypeOK /\ StageOfEnds /\ EntryIsServed
  <2>1. Init => StageOfEnds /\ \A p \in Pair : Served(p)
    BY SessionAssumption DEF Init, StageOfEnds, Served, Pair
  <2> QED BY <2>1, InitType, ServedEntries
<1>2. TypeOK /\ StageOfEnds /\ EntryIsServed /\ [Next]_vars
      => (TypeOK /\ StageOfEnds /\ EntryIsServed)'
  BY TypeStep, StageStep, ServedStep
<1> QED BY <1>1, <1>2, PTL DEF Spec

\* No message, timeout or removal leaves a session, a loop or an entry in a
\* state the code does not know (connectToPeer, handleConnection, acceptLoop).
THEOREM TypeCorrect == Spec => []TypeOK
<1> QED BY LiveEntriesAreServed, PTL
=============================================================================
