------------------------------- MODULE WsPortal -------------------------------
(***************************************************************************)
(* The web portal (http_ws_portal.cpp) and its pages (web/index.html).     *)
(*                                                                         *)
(* httpd has one task: it accepts connections, closes one when all are     *)
(* taken, answers frames and runs the work that is queued.  Once a second, *)
(* aq_tick takes a snapshot, then reads the one descriptor that is         *)
(* remembered and queues the frame as work.  Nobody clears the descriptor  *)
(* when its connection closes, and descriptors are used again.             *)
(*                                                                         *)
(* The state of the device is a number that grows with each change; 0 is   *)
(* the default state that stands for a snapshot when the mutex was busy.   *)
(* httpd, the sockets and the browsers are external.                       *)
(***************************************************************************)
EXTENDS Naturals, Sequences

CONSTANTS
    Pages,          \* browsers with the panel open, or closed
    Viewer,         \* the one whose screen is followed; any will do
    Fds,            \* descriptors for connections (max_open_sockets)
    NoFd, Nobody,
    MaxWork,        \* messages the control socket of httpd holds
    MaxState        \* bound: changes of the device

ASSUME PortalAssumption ==
    /\ Viewer \in Pages /\ NoFd \notin Fds /\ Nobody \notin Pages
    /\ (Pages \cup {Nobody}) \cap {"free", "http", "dead"} = {}
    /\ MaxWork \in Nat \ {0} /\ MaxState \in Nat \ {0}

States == 0..MaxState

VARIABLES
    sess,           \* fd -> "free", "http", the page whose WebSocket it is, or
                    \* "dead": of a page that vanished without a word
    page,           \* "away", "connect", "ask" (it is about to send get_state)
                    \* or "open"
    screen,         \* the state that the viewer's page shows
    now,            \* the state of the device
    s_ws_fd,
    snap,           \* aq_tick: the snapshot it is about to send, if any
    work,           \* what is queued for httpd, oldest first
    heard,          \* history: the last broadcast of a real state to the viewer
    last            \* history: the page that spoke last

ticks == <<snap, work>>
vars  == <<sess, page, screen, now, s_ws_fd, ticks, heard, last>>

-----------------------------------------------------------------------------
(* Connections *)

Free == {fd \in Fds : sess[fd] = "free"}

\* The page whose connection httpd closes tries again 2.5 s later.
Retrying(fd) == [p \in Pages |-> IF sess[fd] = p THEN "connect" ELSE page[p]]

\* A connection is accepted on a free descriptor.  When there is none, that of
\* the least recently used connection is freed first; here, of any.
Accepts(fd) == Free # {} => fd \in Free

Close(fd) == sess' = [sess EXCEPT ![fd] = "free"]

\* Mutant: only the handshake remembers the descriptor.
Spoke_HandshakeOnly(p, fd) ==
    /\ s_ws_fd' = IF page[p] = "connect" THEN fd ELSE s_ws_fd
    /\ last' = p

\* set_ws_client_fd: at the handshake and at every frame.
Spoke(p, fd) == s_ws_fd' = fd /\ last' = p

-----------------------------------------------------------------------------
(* Pages *)

\* GET /: the page comes over a connection of its own.
LoadPage(p) ==
    /\ page[p] = "away"
    /\ \E fd \in Fds :
         /\ Accepts(fd)
         /\ sess' = [sess EXCEPT ![fd] = "http"]
         /\ page' = [Retrying(fd) EXCEPT ![p] = "connect"]
    /\ UNCHANGED <<screen, now, s_ws_fd, ticks, heard, last>>

\* connect(): the handshake of GET /ws, then onopen.
Connect(p) ==
    /\ page[p] = "connect"
    /\ \E fd \in Fds :
         /\ Accepts(fd)
         /\ sess' = [sess EXCEPT ![fd] = p]
         /\ page' = [Retrying(fd) EXCEPT ![p] = "ask"]
         /\ Spoke(p, fd)
    /\ UNCHANGED <<screen, now, ticks, heard>>

\* get_state: the reply is the state, or "busy", which the page only logs.
GetState(p) ==
    /\ page[p] = "ask"
    /\ \E fd \in Fds : sess[fd] = p /\ Spoke(p, fd)
    /\ screen' \in IF p = Viewer THEN {now, screen} ELSE {screen}
    /\ page' = [page EXCEPT ![p] = "open"]
    /\ UNCHANGED <<sess, now, ticks, heard>>

\* A command that changes the device; its ack makes the page ask.
Command(p) ==
    /\ page[p] \in {"ask", "open"} /\ now < MaxState
    /\ \E fd \in Fds : sess[fd] = p /\ Spoke(p, fd)
    /\ now' = now + 1
    /\ page' = [page EXCEPT ![p] = "ask"]
    /\ UNCHANGED <<sess, screen, ticks, heard>>

\* The button, or a change of the tab.
Refresh(p) ==
    /\ page[p] = "open"
    /\ page' = [page EXCEPT ![p] = "ask"]
    /\ UNCHANGED <<sess, screen, now, s_ws_fd, ticks, heard, last>>

\* A frame that cannot be received, is longer than 4096 bytes or has no memory,
\* or a reply that cannot be sent, after the command was done, makes ws_handler
\* fail; httpd closes the connection.
FrameFails(p) ==
    /\ page[p] \in {"ask", "open"}
    /\ \E fd \in Fds :
         /\ sess[fd] = p /\ Spoke(p, fd) /\ Close(fd)
         /\ page' = Retrying(fd)
    /\ now' \in {now, IF now < MaxState THEN now + 1 ELSE now}
    /\ UNCHANGED <<screen, ticks, heard>>

\* The page is closed, or is gone without a word.
Leave(p) ==
    /\ page[p] # "away"
    /\ page' = [page EXCEPT ![p] = "away"]
    /\ \/ page[p] = "connect" /\ UNCHANGED sess
       \/ \E fd \in Fds :
            /\ sess[fd] = p
            /\ \/ Close(fd)
               \/ sess' = [sess EXCEPT ![fd] = "dead"]
    /\ UNCHANGED <<screen, now, s_ws_fd, ticks, heard, last>>

\* An idle HTTP connection, or one whose peer is gone, is closed at last.
Expires(fd) ==
    /\ sess[fd] \in {"http", "dead"} /\ Close(fd)
    /\ UNCHANGED <<page, screen, now, s_ws_fd, ticks, heard, last>>

\* The device changes by itself, or for others.
DeviceChanges ==
    /\ now < MaxState /\ now' = now + 1
    /\ UNCHANGED <<sess, page, screen, s_ws_fd, ticks, heard, last>>

-----------------------------------------------------------------------------
(* aq_tick: queue_state_broadcast *)

Snapshot(state) ==
    /\ s_ws_fd # NoFd /\ snap = <<>>
    /\ snap' = <<state>>
    /\ UNCHANGED <<sess, page, screen, now, s_ws_fd, work, heard, last>>

SnapshotBusy == Snapshot(0)
SnapshotNow  == Snapshot(now)

\* Mutant: the newest work goes first.
QueueWork_Newest ==
    /\ snap # <<>> /\ snap' = <<>>
    /\ Len(work) < MaxWork
    /\ work' = <<[fd |-> s_ws_fd, state |-> Head(snap)]>> \o work
    /\ UNCHANGED <<sess, page, screen, now, s_ws_fd, heard, last>>

\* The descriptor is read after the snapshot was taken.
QueueWork ==
    /\ snap # <<>> /\ snap' = <<>>
    /\ Len(work) < MaxWork
    /\ work' = Append(work, [fd |-> s_ws_fd, state |-> Head(snap)])
    /\ UNCHANGED <<sess, page, screen, now, s_ws_fd, heard, last>>

\* No memory, httpd_queue_work fails, or its message does not fit the socket.
WorkLost ==
    /\ snap # <<>> /\ snap' = <<>>
    /\ UNCHANGED <<sess, page, screen, now, s_ws_fd, work, heard, last>>

-----------------------------------------------------------------------------
(* httpd: ws_send_text_work *)

\* The frame goes to whatever has the descriptor now: a page shows it, what is
\* dead swallows it, an HTTP connection gets bytes it did not ask for.
Shown(w) ==
    IF w.fd # NoFd /\ sess[w.fd] = Viewer
    THEN screen' = w.state /\ heard' = IF w.state # 0 THEN w.state ELSE heard
    ELSE UNCHANGED <<screen, heard>>

\* Mutant: when the send fails, the descriptor is forgotten, whichever it is.
RunWork_Forgets ==
    /\ work # <<>> /\ work' = Tail(work)
    /\ Shown(Head(work))
    /\ s_ws_fd' = IF Head(work).fd \in Free THEN NoFd ELSE s_ws_fd
    /\ UNCHANGED <<sess, page, now, snap, last>>

RunWork ==
    /\ work # <<>> /\ work' = Tail(work)
    /\ Shown(Head(work))
    /\ UNCHANGED <<sess, page, now, s_ws_fd, snap, last>>

-----------------------------------------------------------------------------
Init ==
    /\ sess = [fd \in Fds |-> "free"]
    /\ page = [p \in Pages |-> "away"] /\ screen = 0
    /\ now = 1
    /\ s_ws_fd = NoFd /\ snap = <<>> /\ work = <<>>
    /\ heard = 0 /\ last = Nobody

Browser(p) == \/ LoadPage(p) \/ Connect(p) \/ GetState(p) \/ Command(p)
              \/ Refresh(p) \/ FrameFails(p) \/ Leave(p)

Next == \/ \E p \in Pages : Browser(p)
        \/ \E fd \in Fds : Expires(fd)
        \/ DeviceChanges
        \/ SnapshotNow \/ SnapshotBusy \/ QueueWork \/ WorkLost
        \/ RunWork

Spec == Init /\ [][Next]_vars

(* Fairness: as long as there is a descriptor aq_tick ticks on, and now and  *)
(* then its snapshot finds the mutex free and httpd has room for it; httpd   *)
(* comes round to the work.                                                  *)
Fairness ==
    /\ []<>(s_ws_fd # NoFd) => []<><<QueueWork /\ snap # <<0>>>>_vars
    /\ WF_vars(RunWork)

FairSpec == Spec /\ Fairness

-----------------------------------------------------------------------------
\* Every variable keeps its type, and work is bounded.
TypeOK ==
    /\ sess \in [Fds -> Pages \cup {"free", "http", "dead"}]
    /\ page \in [Pages -> {"away", "connect", "ask", "open"}]
    /\ screen \in States /\ heard \in States
    /\ now \in States \ {0}
    /\ s_ws_fd \in Fds \cup {NoFd}
    /\ snap \in Seq(States)
    /\ work \in Seq([fd : Fds \cup {NoFd}, state : States])
    /\ last \in Pages \cup {Nobody}

\* The page that spoke last is the one that gets the broadcasts, through closed,
\* purged and reused descriptors, for as long as it has its connection.
SpeakerServed == \A fd \in Fds : sess[fd] = last => s_ws_fd = fd

\* Broadcasts do not overtake one another: no page is told an older state than
\* it was told before, the default state apart, on whatever connections.
\* (Replies to get_state do overtake broadcasts.)
BroadcastsInOrder == [][heard' >= heard]_vars

\* The page that spoke last and stays shows a state that rests, again and
\* again, although frames are lost, default states come between, other pages
\* come and go, and work from before the page's connection may still arrive.
SpeakerLearns ==
    \A s \in States :
      <>[](last = Viewer /\ page[Viewer] \in {"ask", "open"} /\ now = s)
        => []<>(screen = s)
=============================================================================
