---------------------------- MODULE WsPortalProofs ----------------------------
(***************************************************************************)
(* Proofs about the web portal: who gets the broadcasts, and in which      *)
(* order, for any number of browsers and descriptors.                      *)
(***************************************************************************)
EXTENDS WsPortal, TLAPS

\* A sequence that is not empty has a head and a tail.
LEMMA HeadTail ==
    ASSUME NEW S, NEW s \in Seq(S), s # <<>>
    PROVE  /\ Head(s) \in S /\ Tail(s) \in Seq(S)
           /\ Len(s) \in Nat \ {0} /\ Head(s) = s[1] /\ Len(Tail(s)) = Len(s) - 1
           /\ \A i \in 1..Len(s) - 1 : Tail(s)[i] = s[i + 1]
OBVIOUS

\* The elements of a sequence are where its type says.
LEMMA ElementType ==
    ASSUME NEW S, NEW s \in Seq(S), NEW i \in 1..Len(s)
    PROVE  s[i] \in S
OBVIOUS

-----------------------------------------------------------------------------
(* Who gets the broadcasts *)

\* A page has a connection only while it is open, and one at most.
Connections ==
    \A fd \in Fds : sess[fd] \in Pages =>
      /\ page[sess[fd]] \in {"ask", "open"}
      /\ \A other \in Fds : sess[other] = sess[fd] => other = fd

SpeakerInv == TypeOK /\ Connections /\ SpeakerServed

\* SpeakerInv holds at the start.
LEMMA SpeakerInit == Init => SpeakerInv
<1> SUFFICES ASSUME Init PROVE SpeakerInv
  OBVIOUS
<1>1. 0 \in States /\ 1 \in States \ {0}
  BY PortalAssumption DEF States
<1>2. TypeOK
  BY <1>1 DEF Init, TypeOK
<1>3. \A fd \in Fds : sess[fd] = "free" /\ last = Nobody
  BY DEF Init
<1>4. Nobody # "free" /\ "free" \notin Pages
  BY PortalAssumption
<1> QED BY <1>2, <1>3, <1>4 DEF SpeakerInv, Connections, SpeakerServed

\* The pages' operations keep every type.
LEMMA BrowserType ==
    ASSUME TypeOK, NEW p \in Pages, Browser(p) PROVE TypeOK'
<1> USE DEF TypeOK, Retrying, Spoke, Close, States
<1>1. CASE LoadPage(p)
  BY <1>1 DEF LoadPage, ticks
<1>2. CASE Connect(p)
  BY <1>2 DEF Connect, ticks
<1>3. CASE GetState(p)
  BY <1>3 DEF GetState, ticks
<1>4. CASE Command(p)
  BY <1>4, PortalAssumption DEF Command, ticks
<1>5. CASE Refresh(p)
  BY <1>5 DEF Refresh, ticks
<1>6. CASE FrameFails(p)
  <2>1. now' \in States \ {0}
    BY <1>6, PortalAssumption DEF FrameFails
  <2>2. /\ sess' \in [Fds -> Pages \cup {"free", "http", "dead"}]
        /\ page' \in [Pages -> {"away", "connect", "ask", "open"}]
        /\ s_ws_fd' \in Fds \cup {NoFd} /\ last' \in Pages \cup {Nobody}
    BY <1>6 DEF FrameFails
  <2>3. UNCHANGED <<screen, snap, work, heard>>
    BY <1>6 DEF FrameFails, ticks
  <2> QED BY <2>1, <2>2, <2>3
<1>7. CASE Leave(p)
  BY <1>7 DEF Leave, ticks
<1> QED BY <1>1, <1>2, <1>3, <1>4, <1>5, <1>6, <1>7 DEF Browser

\* The two tasks of the board, and time, keep every type.
LEMMA BoardType ==
    ASSUME TypeOK,
           \/ \E fd \in Fds : Expires(fd)
           \/ DeviceChanges \/ SnapshotNow \/ SnapshotBusy \/ QueueWork
           \/ WorkLost \/ RunWork
    PROVE  TypeOK'
<1> USE DEF TypeOK, States
<1>1. CASE \E fd \in Fds : Expires(fd)
  BY <1>1 DEF Expires, Close, ticks
<1>2. CASE DeviceChanges
  BY <1>2, PortalAssumption DEF DeviceChanges, ticks
<1>3. CASE SnapshotNow \/ SnapshotBusy
  <2>1. 0 \in States /\ now \in States
    BY PortalAssumption
  <2>2. PICK state \in States : Snapshot(state)
    BY <1>3, <2>1 DEF SnapshotNow, SnapshotBusy
  <2> QED BY <2>2 DEF Snapshot
<1>4. CASE QueueWork
  <2>1. Head(snap) \in States
    BY <1>4, HeadTail DEF QueueWork
  <2>2. [fd |-> s_ws_fd, state |-> Head(snap)] \in [fd : Fds \cup {NoFd}, state : States]
    BY <2>1
  <2>3. snap' \in Seq(States) /\ work' \in Seq([fd : Fds \cup {NoFd}, state : States])
    BY <1>4, <2>2 DEF QueueWork
  <2> QED BY <1>4, <2>3 DEF QueueWork
<1>5. CASE WorkLost
  BY <1>5 DEF WorkLost
<1>6. CASE RunWork
  <2>1. /\ Head(work) \in [fd : Fds \cup {NoFd}, state : States]
        /\ Tail(work) \in Seq([fd : Fds \cup {NoFd}, state : States])
    BY <1>6, HeadTail DEF RunWork
  <2> QED BY <1>6, <2>1 DEF RunWork, Shown
<1> QED BY <1>1, <1>2, <1>3, <1>4, <1>5, <1>6

LEMMA TypeStep == TypeOK /\ [Next]_vars => TypeOK'
<1>1. TypeOK /\ UNCHANGED vars => TypeOK'
  BY DEF TypeOK, vars, ticks
<1> QED BY <1>1, BrowserType, BoardType DEF Next

\* What a page does leaves every page at most one connection, and the page that
\* spoke last the descriptor.
LEMMA BrowserSpeaker ==
    ASSUME SpeakerInv, NEW p \in Pages, Browser(p)
    PROVE  Connections' /\ SpeakerServed'
<1> USE PortalAssumption
        DEF SpeakerInv, TypeOK, Connections, SpeakerServed, Retrying, Spoke, Close
<1>1. CASE LoadPage(p)
  <2>1. PICK fd \in Fds : /\ sess' = [sess EXCEPT ![fd] = "http"]
                          /\ page' = [Retrying(fd) EXCEPT ![p] = "connect"]
    BY <1>1 DEF LoadPage
  <2>2. \A f \in Fds : sess[f] # p
    BY <1>1 DEF LoadPage
  <2>3. s_ws_fd' = s_ws_fd /\ last' = last
    BY <1>1 DEF LoadPage
  <2> QED BY <2>1, <2>2, <2>3
<1>2. CASE Connect(p)
  <2>1. PICK fd \in Fds : /\ sess' = [sess EXCEPT ![fd] = p]
                          /\ page' = [Retrying(fd) EXCEPT ![p] = "ask"]
                          /\ s_ws_fd' = fd /\ last' = p
    BY <1>2 DEF Connect
  <2>2. \A f \in Fds : sess[f] # p
    BY <1>2 DEF Connect
  <2> QED BY <2>1, <2>2
<1>3. CASE GetState(p) \/ Command(p)
  <2>1. PICK fd \in Fds : sess[fd] = p /\ s_ws_fd' = fd /\ last' = p
    BY <1>3 DEF GetState, Command
  <2>2. sess' = sess
    BY <1>3 DEF GetState, Command
  <2>3. page' = [page EXCEPT ![p] = "open"] \/ page' = [page EXCEPT ![p] = "ask"]
    BY <1>3 DEF GetState, Command
  <2> QED BY <2>1, <2>2, <2>3
<1>4. CASE Refresh(p)
  BY <1>4 DEF Refresh
<1>5. CASE FrameFails(p)
  <2>1. PICK fd \in Fds : /\ sess[fd] = p /\ last' = p
                          /\ sess' = [sess EXCEPT ![fd] = "free"]
                          /\ page' = Retrying(fd)
    BY <1>5 DEF FrameFails
  <2>2. \A f \in Fds : sess'[f] # p
    BY <2>1
  <2> QED BY <2>1, <2>2
<1>6. CASE Leave(p)
  <2>1. page' = [page EXCEPT ![p] = "away"] /\ s_ws_fd' = s_ws_fd /\ last' = last
    BY <1>6 DEF Leave
  <2>2. CASE page[p] = "connect" /\ sess' = sess
    BY <2>1, <2>2
  <2>3. CASE \E fd \in Fds : sess[fd] = p
                /\ (sess' = [sess EXCEPT ![fd] = "free"]
                    \/ sess' = [sess EXCEPT ![fd] = "dead"])
    BY <2>1, <2>3
  <2> QED BY <1>6, <2>2, <2>3 DEF Leave
<1> QED BY <1>1, <1>2, <1>3, <1>4, <1>5, <1>6 DEF Browser

\* SpeakerInv is inductive.
LEMMA SpeakerStep == SpeakerInv /\ [Next]_vars => SpeakerInv'
<1> SUFFICES ASSUME SpeakerInv, [Next]_vars PROVE Connections' /\ SpeakerServed'
  BY TypeStep DEF SpeakerInv
<1>1. CASE \E p \in Pages : Browser(p)
  BY <1>1, BrowserSpeaker
<1>2. CASE \E fd \in Fds : Expires(fd)
  BY <1>2, PortalAssumption
     DEF SpeakerInv, TypeOK, Connections, SpeakerServed, Expires, Close
<1>3. CASE \/ DeviceChanges \/ SnapshotNow \/ SnapshotBusy \/ QueueWork
           \/ WorkLost \/ RunWork \/ UNCHANGED vars
  <2>1. UNCHANGED <<sess, page, s_ws_fd, last>>
    BY <1>3 DEF DeviceChanges, SnapshotNow, SnapshotBusy, Snapshot, QueueWork,
                WorkLost, RunWork, vars
  <2> QED BY <2>1 DEF SpeakerInv, Connections, SpeakerServed
<1> QED BY <1>1, <1>2, <1>3 DEF Next

\* The portal's variables keep their types.
THEOREM PortalType == Spec => []TypeOK
<1>1. SpeakerInv => TypeOK
  BY DEF SpeakerInv
<1> QED BY <1>1, SpeakerInit, SpeakerStep, PTL DEF Spec

\* The page that spoke last has the broadcasts for as long as it has its
\* connection: ws_handler remembers the descriptor of every frame, so that one
\* that is closed or used again is never that of a page that spoke since.
THEOREM SpeakerIsServed == Spec => []SpeakerServed
<1>1. SpeakerInv => SpeakerServed
  BY DEF SpeakerInv
<1> QED BY <1>1, SpeakerInit, SpeakerStep, PTL DEF Spec

-----------------------------------------------------------------------------
(* In which order *)

\* What is told, queued, taken and true follows in this order.
Before(s, t) == t # 0 => s <= t

OrderInv ==
    /\ TypeOK
    /\ heard <= now
    /\ \A i \in 1..Len(work) : work[i].state <= now /\ Before(heard, work[i].state)
    /\ \A i, j \in 1..Len(work) : i < j => Before(work[i].state, work[j].state)
    /\ snap # <<>> =>
         /\ Head(snap) <= now /\ Before(heard, Head(snap))
         /\ \A i \in 1..Len(work) : Before(work[i].state, Head(snap))

\* OrderInv holds at the start.
LEMMA OrderInit == Init => OrderInv
<1> SUFFICES ASSUME Init PROVE OrderInv
  OBVIOUS
<1>1. TypeOK
  BY SpeakerInit DEF SpeakerInv
<1>2. heard <= now /\ Len(work) = 0 /\ snap = <<>>
  BY DEF Init
<1> QED BY <1>1, <1>2 DEF OrderInv

\* Work that is run is the oldest there is, and no page has heard newer.
LEMMA RunInOrder == OrderInv /\ RunWork => OrderInv' /\ heard' >= heard
<1> SUFFICES ASSUME OrderInv, RunWork PROVE OrderInv' /\ heard' >= heard
  OBVIOUS
<1>1. TypeOK /\ TypeOK'
  BY BoardType DEF OrderInv
<1> DEFINE Work == [fd : Fds \cup {NoFd}, state : States]
<1>2. work \in Seq(Work) /\ heard \in Nat /\ now \in Nat
  BY <1>1, PortalAssumption DEF TypeOK, States
<1>3. /\ Head(work) = work[1] /\ Len(work) \in Nat \ {0} /\ 1 \in 1..Len(work)
      /\ work' = Tail(work) /\ Len(work') = Len(work) - 1
      /\ \A i \in 1..Len(work') : work'[i] = work[i + 1] /\ i + 1 \in 1..Len(work)
  BY <1>2, HeadTail DEF RunWork
<1>4. \A i \in 1..Len(work) : work[i].state \in Nat
  <2> TAKE i \in 1..Len(work)
  <2>1. work[i] \in Work
    BY <1>2, ElementType
  <2> QED BY <2>1, PortalAssumption DEF States
<1>5. heard' = heard \/ (heard' = work[1].state /\ work[1].state # 0)
  BY <1>3 DEF RunWork, Shown
<1>6. now' = now /\ snap' = snap
  BY DEF RunWork
<1>7. heard' >= heard /\ heard' <= now
  BY <1>2, <1>3, <1>4, <1>5 DEF OrderInv, Before
<1>8. \A i \in 1..Len(work') :
        work'[i].state <= now /\ Before(heard', work'[i].state)
  <2> TAKE i \in 1..Len(work')
  <2>1. work'[i] = work[i + 1] /\ i + 1 \in 1..Len(work) /\ 1 < i + 1
    BY <1>3
  <2>2. work[i + 1].state <= now /\ Before(heard, work[i + 1].state)
    BY <2>1 DEF OrderInv
  <2>3. Before(work[1].state, work[i + 1].state)
    BY <1>3, <2>1 DEF OrderInv
  <2> QED BY <1>5, <2>1, <2>2, <2>3
<1>9. \A i, j \in 1..Len(work') : i < j => Before(work'[i].state, work'[j].state)
  <2> SUFFICES ASSUME NEW i \in 1..Len(work'), NEW j \in 1..Len(work'), i < j
               PROVE  Before(work'[i].state, work'[j].state)
    OBVIOUS
  <2>1. /\ work'[i] = work[i + 1] /\ work'[j] = work[j + 1]
        /\ i + 1 \in 1..Len(work) /\ j + 1 \in 1..Len(work) /\ i + 1 < j + 1
    BY <1>3
  <2> QED BY <2>1 DEF OrderInv
<1>10. snap' # <<>> =>
         /\ Head(snap') <= now /\ Before(heard', Head(snap'))
         /\ \A i \in 1..Len(work') : Before(work'[i].state, Head(snap'))
  BY <1>3, <1>5, <1>6 DEF OrderInv
<1> QED BY <1>1, <1>6, <1>7, <1>8, <1>9, <1>10 DEF OrderInv

\* OrderInv is inductive, and what a page has heard never gets older.
LEMMA OrderStep == OrderInv /\ [Next]_vars => OrderInv' /\ heard' >= heard
<1> SUFFICES ASSUME OrderInv, [Next]_vars PROVE OrderInv' /\ heard' >= heard
  OBVIOUS
<1>1. TypeOK /\ TypeOK'
  BY TypeStep DEF OrderInv
<1> DEFINE Work == [fd : Fds \cup {NoFd}, state : States]
<1>2. /\ work \in Seq(Work) /\ heard \in Nat /\ now \in Nat
      /\ \A i \in 1..Len(work) : work[i].state \in Nat
      /\ snap # <<>> => Head(snap) \in Nat
  <2>1. work \in Seq(Work) /\ heard \in Nat /\ now \in Nat /\ snap \in Seq(Nat)
    BY <1>1, PortalAssumption DEF TypeOK, States
  <2>2. \A i \in 1..Len(work) : work[i] \in Work
    BY <2>1, ElementType
  <2>3. \A w \in Work : w.state \in Nat
    BY PortalAssumption DEF States
  <2> QED BY <2>1, <2>2, <2>3, HeadTail
<1>3. CASE UNCHANGED <<heard, work, snap>> /\ now' \in {now, now + 1}
  <2>1. now <= now' /\ \A n \in Nat : n <= now => n <= now'
    BY <1>2, <1>3
  <2> QED BY <1>1, <1>2, <1>3, <2>1 DEF OrderInv, Before
<1>4. CASE SnapshotNow \/ SnapshotBusy
  <2>1. /\ snap' \in {<<now>>, <<0>>}
        /\ UNCHANGED <<heard, work, now>>
    BY <1>4 DEF SnapshotNow, SnapshotBusy, Snapshot
  <2>2. Head(snap') \in {now, 0}
    BY <2>1
  <2> QED BY <1>1, <1>2, <2>1, <2>2 DEF OrderInv, Before
<1>5. CASE QueueWork
  <2> DEFINE new == [fd |-> s_ws_fd, state |-> Head(snap)]
  <2>1. Head(snap) \in Nat /\ new \in Work /\ snap' = <<>>
    BY <1>1, <1>5, HeadTail DEF QueueWork, TypeOK, States
  <2>2. /\ Len(work') = Len(work) + 1 /\ Len(work) \in Nat
        /\ \A i \in 1..Len(work') :
             work'[i] = IF i = Len(work) + 1 THEN new ELSE work[i]
    BY <1>2, <1>5, <2>1 DEF QueueWork
  <2>3. UNCHANGED <<heard, now>>
    BY <1>5 DEF QueueWork
  <2>4. /\ new.state <= now /\ Before(heard, new.state)
        /\ \A i \in 1..Len(work) : Before(work[i].state, new.state)
    BY <1>5 DEF OrderInv, QueueWork
  <2>5. \A i \in 1..Len(work') :
          work'[i].state <= now /\ Before(heard, work'[i].state)
    BY <2>2, <2>4 DEF OrderInv
  <2>6. \A i, j \in 1..Len(work') : i < j => Before(work'[i].state, work'[j].state)
    BY <2>2, <2>4 DEF OrderInv
  <2> QED BY <1>1, <1>2, <2>1, <2>3, <2>5, <2>6 DEF OrderInv
<1>6. CASE WorkLost
  BY <1>1, <1>2, <1>6 DEF OrderInv, WorkLost
<1>7. CASE RunWork
  BY <1>7, RunInOrder
<1>8. CASE UNCHANGED vars
  BY <1>3, <1>8 DEF vars, ticks
<1>9. CASE (\E p \in Pages : Browser(p)) \/ (\E fd \in Fds : Expires(fd)) \/ DeviceChanges
  BY <1>3, <1>9 DEF Browser, LoadPage, Connect, GetState, Command, Refresh,
                    FrameFails, Leave, Expires, DeviceChanges, ticks
<1> QED BY <1>4, <1>5, <1>6, <1>7, <1>8, <1>9 DEF Next

\* Broadcasts do not overtake one another: one task takes the snapshots and
\* queues them, one task sends them, oldest first, and a lost one is just lost.
THEOREM BroadcastsStayInOrder == Spec => BroadcastsInOrder
<1>1. OrderInv /\ [Next]_vars => [heard' >= heard]_vars
  BY OrderStep
<1> QED BY <1>1, OrderInit, OrderStep, PTL DEF Spec, BroadcastsInOrder
=============================================================================
