--------------------------------- MODULE Xdmcp ---------------------------------
(***************************************************************************)
(* XDMCP: one X server started with -query or -broadcast (os/xdmcp.c and   *)
(* the connections of os/connection.c), and the display managers it may    *)
(* find (programs/xdm: xdmcp.c, protodpy.c, dm.c).  Datagrams are          *)
(* reordered, duplicated and lost; the session a manager starts connects   *)
(* to the server over a stream of its own, and any other client may do so  *)
(* at the same time.                                                       *)
(*                                                                         *)
(* XdmcpWakeupHandler never reaches timeout() nor the keepalive: both      *)
(* tests are "if (0)".  The states that only they lead to are not here.    *)
(***************************************************************************)
EXTENDS Naturals

CONSTANTS
    Manager,        \* hosts that run xdm
    Local,          \* clients of the server that no manager started
    NULL,
    MaxSession,     \* bound: session ids of one manager
    MaxKey,         \* bound: authorizations made for one session
    MaxTrouble,     \* bound: faults, duplicates and connections of Local clients
    MaxLogout       \* bound: sessions that the user ends

Session == Manager \X (1 .. MaxSession)
Key     == 1 .. MaxKey
Client  == Session \cup Local

ASSUME NullAssumption   == NULL \notin Manager \cup Client /\ NULL \notin {"RESET", "TERMINATE"}
ASSUME LocalAssumption  == Local \cap Session = {}
ASSUME BoundAssumption  == {MaxSession, MaxKey, MaxTrouble, MaxLogout} \subseteq Nat

VARIABLES
    \* the server
    options,        \* -query or -broadcast, -once
    state,          \* xdmcp.c: state ("INIT": XDM_INIT_STATE, "COLLECT": XDM_COLLECT_*)
    manager,        \* req_sockaddr
    SessionID,
    sessionSocket,
    auth,           \* authorizations the server knows
    conns,          \* clients whose connection the server holds
    exception,      \* dispatchException
    \* the managers
    stage,          \* of a session id: struct protoDisplay, struct display, gone
    key,            \* fileAuthorization, numbered: it is made anew for each REQUEST
    child,          \* the process of the session
    health,         \* "damaged": a freed display is left in the manager's list
    \* the network
    net,            \* datagrams that can still arrive
    faults,         \* datagrams lost, calls and timers that failed
    dups,           \* datagrams delivered twice
    locals,         \* connections that Local clients made
    logouts         \* sessions that the user ended

server  == <<state, manager, SessionID, sessionSocket, auth, conns, exception>>
xdm     == <<stage, key, child, health>>
bounds  == <<faults, dups, logouts, locals>>
vars    == <<options, server, xdm, net, bounds>>

State == {"INIT", "COLLECT", "START_CONNECTION", "AWAIT_REQUEST_RESPONSE",
          "AWAIT_MANAGE_RESPONSE", "RUN_SESSION", "OFF"}

Process == {"none", "opening", "ghost", "open", "stopped", "failed", "exited"}

Message ==
    [type : {"QUERY", "REQUEST", "WILLING", "UNWILLING", "DECLINE"}, mgr : Manager]
    \cup [type : {"MANAGE", "REFUSE", "FAILED"}, mgr : Manager, id : Session]
    \cup [type : {"ACCEPT"}, mgr : Manager, id : Session, key : Key]

TypeOK ==
    /\ options \in [query : {"QUERY", "BROADCAST"}, once : BOOLEAN, mgr : Manager]
    /\ state \in State
    /\ manager \in Manager \cup {NULL}
    /\ SessionID \in Session \cup {NULL}
    /\ sessionSocket \in Client \cup {NULL}
    /\ auth \in SUBSET (Session \X Key)
    /\ conns \in SUBSET Client
    /\ exception \in {NULL, "RESET", "TERMINATE"}
    /\ stage \in [Session -> {"none", "proto", "display", "gone"}]
    /\ key \in [Session -> 0 .. MaxKey]
    /\ child \in [Session -> Process]
    /\ health \in [Manager -> {"sound", "damaged", "dead"}]
    /\ net \in SUBSET Message
    /\ <<faults, dups, logouts, locals>> \in Nat \X Nat \X Nat \X Nat

Datagram(type, m)       == [type |-> type, mgr |-> m]
About(type, m, s)       == [type |-> type, mgr |-> m, id |-> s]
Accept(m, s, k)         == [type |-> "ACCEPT", mgr |-> m, id |-> s, key |-> k]

\* send_query_msg: to ManagerAddress, or to the broadcast addresses
Queries == {Datagram("QUERY", m) :
                m \in IF options.query = "QUERY" THEN {options.mgr} ELSE Manager}

\* CreateWellKnownSockets, XdmcpInit
Init ==
    /\ options \in [query : {"QUERY", "BROADCAST"}, once : BOOLEAN, mgr : Manager]
    /\ state = "COLLECT"
    /\ manager = NULL
    /\ SessionID = NULL
    /\ sessionSocket = NULL
    /\ auth = {}
    /\ conns = {}
    /\ exception = NULL
    /\ stage = [s \in Session |-> "none"]
    /\ key = [s \in Session |-> 0]
    /\ child = [s \in Session |-> "none"]
    /\ health = [m \in Manager |-> "sound"]
    /\ net = Queries
    /\ faults = 0 /\ dups = 0 /\ logouts = 0 /\ locals = 0

Calm == faults + dups + locals < MaxTrouble

\* A datagram is lost, a call fails, a timer ends too early.
Fault == Calm /\ faults' = faults + 1

\* The datagram d is read, and out is sent: the network may keep a copy of d.
Consume(d, out) ==
    /\ d \in net
    /\ \/ net' = (net \ {d}) \cup out /\ UNCHANGED dups
       \/ /\ Calm
          /\ dups' = dups + 1
          /\ net' = net \cup out

Lose == \E d \in net : /\ Fault
                       /\ net' = net \ {d}
                       /\ UNCHANGED <<options, server, xdm, dups, logouts, locals>>

(***************************************************************************)
(* The server's datagrams: receive_packet, one per wakeup                  *)
(***************************************************************************)
Up == state # "OFF" /\ exception = NULL

\* Mutant: req_sockaddr is not stored.
SendRequestUnstored(d, m) ==
    /\ state' = "AWAIT_REQUEST_RESPONSE"
    /\ Consume(d, {Datagram("REQUEST", m)})
    /\ UNCHANGED <<manager, SessionID, sessionSocket, auth, conns, exception, faults>>

\* send_request_msg: the state moves on only if the datagram was sent
SendRequest(d, m) ==
    /\ manager' = m
    /\ \/ /\ state' = "AWAIT_REQUEST_RESPONSE"
          /\ Consume(d, {Datagram("REQUEST", m)})
          /\ UNCHANGED faults
       \/ /\ Fault
          /\ state' = "START_CONNECTION"
          /\ Consume(d, {})
    /\ UNCHANGED <<SessionID, sessionSocket, auth, conns, exception>>

\* The handler's first tests fail.
Ignore(d) == Consume(d, {}) /\ UNCHANGED <<server, faults>>

\* XdmcpFatal: FatalError ends the process
Fatal(d) ==
    /\ state' = "OFF"
    /\ conns' = {}
    /\ Consume(d, {})
    /\ UNCHANGED <<manager, SessionID, sessionSocket, auth, exception, faults>>

\* recv_willing_msg, XdmcpAddHost, XdmcpSelectHost
RecvWilling(d) ==
    /\ d.type = "WILLING"
    /\ \/ state = "COLLECT" /\ SendRequest(d, d.mgr)
       \/ state # "COLLECT" /\ Ignore(d)

\* recv_accept_msg, send_manage_msg: whoever sent it, MANAGE goes to req_sockaddr
RecvAccept(d) ==
    /\ d.type = "ACCEPT"
    /\ \/ /\ state = "AWAIT_REQUEST_RESPONSE"
          /\ auth' = auth \cup {<<d.id, d.key>>}
          /\ SessionID' = d.id
          /\ state' = "AWAIT_MANAGE_RESPONSE"
          /\ Consume(d, {About("MANAGE", manager, d.id)})
          /\ UNCHANGED <<manager, sessionSocket, conns, exception, faults>>
       \/ state # "AWAIT_REQUEST_RESPONSE" /\ Ignore(d)

\* Mutant: the state is not tested.
MatchesAnytime(d) == d.id = SessionID

\* recv_refuse_msg, recv_failed_msg
Matches(d) == state = "AWAIT_MANAGE_RESPONSE" /\ d.id = SessionID

RecvRefuse(d) ==
    /\ d.type = "REFUSE"
    /\ \/ Matches(d) /\ SendRequest(d, manager)
       \/ ~ Matches(d) /\ Ignore(d)

RecvFailed(d) ==
    /\ d.type = "FAILED"
    /\ \/ Matches(d) /\ Fatal(d)
       \/ ~ Matches(d) /\ Ignore(d)

\* UNWILLING, and recv_decline_msg: in every state
RecvRejection(d) == d.type \in {"UNWILLING", "DECLINE"} /\ Fatal(d)

ReceivePacket ==
    /\ Up
    /\ \E d \in net : \/ RecvWilling(d)
                      \/ RecvAccept(d)
                      \/ RecvRefuse(d)
                      \/ RecvFailed(d)
                      \/ RecvRejection(d)
    /\ UNCHANGED <<options, xdm, logouts, locals>>

(***************************************************************************)
(* The server's connections                                                *)
(***************************************************************************)
\* ClientAuthorized ends with XdmcpOpenDisplay, for any client
OpenDisplay(c) ==
    /\ Up
    /\ conns' = conns \cup {c}
    /\ IF state = "AWAIT_MANAGE_RESPONSE"
       THEN state' = "RUN_SESSION" /\ sessionSocket' = c
       ELSE UNCHANGED <<state, sessionSocket>>
    /\ UNCHANGED <<manager, SessionID, auth, exception>>

\* CloseDownClient: CloseDownConnection calls XdmcpCloseDisplay, and the last
\* client's end resets the server
CloseDown(c) ==
    LET session == state = "RUN_SESSION" /\ sessionSocket = c IN
    /\ Up
    /\ c \in conns
    /\ conns' = conns \ {c}
    /\ state' = IF session THEN "INIT" ELSE state
    /\ exception' = IF session /\ options.once THEN "TERMINATE"
                    ELSE IF session \/ conns = {c} THEN "RESET" ELSE exception
    /\ UNCHANGED <<manager, SessionID, sessionSocket, auth>>

LocalOpens ==
    /\ Calm
    /\ locals' = locals + 1
    /\ \E c \in Local \ conns : OpenDisplay(c)
    /\ UNCHANGED <<options, xdm, net, faults, dups, logouts>>

LocalCloses ==
    /\ \E c \in Local : CloseDown(c)
    /\ UNCHANGED <<options, xdm, net, bounds>>

NoticeClose ==
    /\ \E s \in Session : child[s] \notin {"open", "stopped"} /\ CloseDown(s)
    /\ UNCHANGED <<options, xdm, net, bounds>>

\* Mutant: XdmcpReset sends no query.
ResetSilently ==
    /\ state # "OFF"
    /\ exception = "RESET"
    /\ exception' = NULL
    /\ conns' = {}
    /\ auth' = {}
    /\ state' = "COLLECT"
    /\ UNCHANGED <<options, manager, SessionID, sessionSocket, xdm, net, bounds>>

\* Mutant: KillAllClients is not called.
ResetLeavingClients ==
    /\ state # "OFF"
    /\ exception = "RESET"
    /\ exception' = NULL
    /\ auth' = {}
    /\ state' = "COLLECT"
    /\ net' = net \cup Queries
    /\ UNCHANGED <<options, manager, SessionID, sessionSocket, conns, xdm, bounds>>

\* KillAllClients, then ResetWellKnownSockets: ResetAuthorization, XdmcpReset
Reset ==
    /\ state # "OFF"
    /\ exception = "RESET"
    /\ exception' = NULL
    /\ conns' = {}
    /\ auth' = {}
    /\ state' = "COLLECT"
    /\ net' = net \cup Queries
    /\ UNCHANGED <<options, manager, SessionID, sessionSocket, xdm, bounds>>

Terminate ==
    /\ state # "OFF"
    /\ exception = "TERMINATE"
    /\ conns' = {}
    /\ state' = "OFF"
    /\ UNCHANGED <<options, manager, SessionID, sessionSocket, auth, exception,
                   xdm, net, bounds>>

(***************************************************************************)
(* A manager's datagrams                                                   *)
(***************************************************************************)
Of(m)      == {s \in Session : s[1] = m}
Protos(m)  == {s \in Of(m) : stage[s] = "proto"}

Displays(m) == {s \in Of(m) : stage[s] = "display"}

\* all_query_respond: a manager whose access file excludes the display says
\* so to a QUERY only
QueryRespond(d, m) ==
    /\ d = Datagram("QUERY", m)
    /\ \/ Consume(d, {Datagram("WILLING", m)}) /\ UNCHANGED faults
       \/ /\ Fault
          /\ Consume(d, IF options.query = "QUERY"
                        THEN {Datagram("UNWILLING", m)} ELSE {})
    /\ UNCHANGED xdm

\* Mutant: the authorization is made once more after the reply.
SendAcceptStale(d, m, s) ==
    /\ key[s] + 1 < MaxKey
    /\ key' = [key EXCEPT ![s] = @ + 2]
    /\ Consume(d, {Accept(m, s, key[s] + 1)})

\* SetProtoDisplayAuthorization, send_accept
SendAccept(d, m, s) ==
    /\ key[s] < MaxKey
    /\ key' = [key EXCEPT ![s] = @ + 1]
    /\ Consume(d, {Accept(m, s, key'[s])})

\* NextSessionID: ids are given out in order
Fresh(m, s) ==
    /\ s \in Of(m)
    /\ stage[s] = "none"
    /\ \A t \in Of(m) : stage[t] = "none" => s[2] <= t[2]

\* request_respond
RequestRespond(d, m) ==
    /\ d = Datagram("REQUEST", m)
    /\ \/ /\ \E s \in Protos(m) : SendAccept(d, m, s)
          /\ UNCHANGED <<stage, faults>>
       \/ /\ Protos(m) = {}
          /\ \E s \in Session : /\ Fresh(m, s)
                                /\ stage' = [stage EXCEPT ![s] = "proto"]
                                /\ SendAccept(d, m, s)
          /\ UNCHANGED faults
       \/ /\ Protos(m) = {}           \* malloc fails in NewProtoDisplay
          /\ Fault
          /\ Consume(d, {Datagram("DECLINE", m)})
          /\ UNCHANGED <<stage, key>>
    /\ UNCHANGED <<child, health>>

\* Mutant: no process is told to stop.
StopNothing(S, starting) ==
    child' = [s \in Session |-> IF s \in starting THEN "opening" ELSE child[s]]

\* StopDisplay, for every session of S: its process gets SIGTERM, is not waited for,
\* and lives on for a while, connected ("stopped") or not yet ("ghost")
StopDisplays(S, starting) ==
    child' = [s \in Session |->
                 IF s \in starting THEN "opening"
                 ELSE IF s \notin S THEN child[s]
                 ELSE IF child[s] \in {"opening", "ghost"} THEN "ghost"
                 ELSE IF child[s] \in {"open", "stopped"} THEN "stopped"
                 ELSE "none"]

\* manage(): the session on offer starts, and the display that is there is stopped
StartSession(d, m) ==
    /\ \/ StopDisplays(Displays(m), {d.id}) /\ UNCHANGED faults
       \/ StopDisplays(Displays(m), {}) /\ Fault               \* fork fails
    /\ stage' = [s \in Session |-> IF s = d.id THEN "display"
                                   ELSE IF s \in Displays(m) THEN "gone"
                                   ELSE stage[s]]
    /\ Consume(d, {})
    /\ UNCHANGED health

\* ... or a malloc fails: for the name before anything is stopped, later on with the
\* display stopped; the last one frees a display that NewDisplay has linked
FailSession(d, m) ==
    /\ Fault
    /\ Consume(d, {About("FAILED", m, d.id)})
    /\ \/ UNCHANGED <<stage, child, health>>
       \/ /\ StopDisplays(Displays(m), {})
          /\ stage' = [s \in Session |-> IF s \in Displays(m) THEN "gone" ELSE stage[s]]
          /\ health' \in {health, [health EXCEPT ![m] = "damaged"]}

\* The session is not on offer: a repeated MANAGE is ignored (the freed display may
\* match as well), any other refused
TurnDown(d, m) ==
    /\ \/ /\ Protos(m) = {}
          /\ d.id \in Displays(m) \/ health[m] = "damaged"
          /\ Consume(d, {})
       \/ /\ ~ (Protos(m) = {} /\ d.id \in Displays(m))
          /\ Consume(d, {About("REFUSE", m, d.id)})
    /\ UNCHANGED <<stage, child, health, faults>>

Manage(d, m) ==
    /\ d \in {About("MANAGE", m, s) : s \in Session}
    /\ \/ d.id \in Protos(m) /\ StartSession(d, m)
       \/ d.id \in Protos(m) /\ FailSession(d, m)
       \/ d.id \notin Protos(m) /\ TurnDown(d, m)
    /\ UNCHANGED key

Alive(m) == health[m] # "dead"

ProcessRequestSocket ==
    /\ \E m \in Manager, d \in net : /\ Alive(m)
                                     /\ \/ QueryRespond(d, m)
                                        \/ RequestRespond(d, m)
                                        \/ Manage(d, m)
    /\ UNCHANGED <<options, server, logouts, locals>>

\* Undefined behaviour: a walk through a list with a freed display may crash the
\* manager, or never end
Crash(m) ==
    /\ health[m] = "damaged"
    /\ health' = [health EXCEPT ![m] = "dead"]
    /\ UNCHANGED <<options, server, stage, key, child, net, bounds>>

\* TimeoutProtoDisplays, when the manager makes one for another display
ExpireProto ==
    /\ Fault
    /\ \E s \in Session : /\ stage[s] = "proto" /\ Alive(s[1])
                          /\ stage' = [stage EXCEPT ![s] = "gone"]
    /\ UNCHANGED <<options, server, key, child, health, net, dups, logouts, locals>>

(***************************************************************************)
(* A session's process, and the manager that waits for it                  *)
(***************************************************************************)
\* Mutant: the authorization is not checked.
AdmittedAlways(s) == TRUE

Admitted(s) == <<s, key[s]>> \in auth

\* WaitForServer: XOpenDisplay succeeds
ChildOpens(s) ==
    /\ Admitted(s)
    /\ OpenDisplay(s)
    /\ \/ child[s] = "opening" /\ child' = [child EXCEPT ![s] = "open"]
       \/ child[s] = "ghost" /\ child' = [child EXCEPT ![s] = "stopped"]
    /\ UNCHANGED <<options, stage, key, health, net, bounds>>

\* WaitForServer gives up: the server is gone, refuses the key, or never answers
ChildFails(s) ==
    /\ child[s] = "opening"
    /\ \/ (state = "OFF" \/ (Up /\ ~ Admitted(s))) /\ UNCHANGED faults
       \/ Fault
    /\ child' = [child EXCEPT ![s] = "failed"]
    /\ UNCHANGED <<options, server, stage, key, health, net, dups, logouts, locals>>

\* A process that was told to stop does: a log in screen at once, a session after it
\* has ended its client and run the reset program (catchTerm, ManageSession)
StoppedEnds(s) ==
    /\ child[s] \in {"ghost", "stopped"}
    /\ child' = [child EXCEPT ![s] = "none"]
    /\ UNCHANGED <<options, server, stage, key, health, net, bounds>>

\* ManageSession ends: the server closed the connection, or the user logs out
ChildExits(s) ==
    /\ child[s] = "open"
    /\ \/ s \notin conns /\ UNCHANGED logouts
       \/ /\ s \in conns
          /\ logouts < MaxLogout
          /\ logouts' = logouts + 1
    /\ child' = [child EXCEPT ![s] = "exited"]
    /\ UNCHANGED <<options, server, stage, key, health, net, faults, dups, locals>>

\* WaitForChild: OPENFAILED_DISPLAY, REMANAGE_DISPLAY
WaitForChild(s) ==
    /\ child[s] \in {"failed", "exited"} /\ Alive(s[1])
    /\ child' = [child EXCEPT ![s] = "none"]
    /\ stage' = [stage EXCEPT ![s] = "gone"]
    /\ net' = net \cup (IF child[s] = "failed"
                        THEN {About("FAILED", s[1], s)} ELSE {})
    /\ UNCHANGED <<options, server, key, health, bounds>>

ServerStep  == ReceivePacket \/ NoticeClose \/ Reset \/ Terminate
SessionStep == \E s \in Session : \/ ChildOpens(s)
                                  \/ ChildFails(s)
                                  \/ StoppedEnds(s)
                                  \/ ChildExits(s)
ManagerStep == ProcessRequestSocket \/ \E s \in Session : WaitForChild(s)

Next ==
    \/ ServerStep
    \/ ManagerStep
    \/ SessionStep
    \/ LocalOpens
    \/ LocalCloses
    \/ ExpireProto
    \/ \E m \in Manager : Crash(m)
    \/ Lose

Spec == Init /\ [][Next]_vars

\* The server and xdm block in select until there is something to do; a process
\* of a session runs on.
FairSpec ==
    /\ Spec
    /\ WF_vars(ServerStep)
    /\ WF_vars(ManagerStep)
    /\ \A s \in Session : WF_vars(ChildOpens(s) \/ ChildFails(s) \/ StoppedEnds(s))
    /\ \A s \in Session : WF_vars(s \notin conns /\ ChildExits(s))

------------------------------------------------------------------------------
(***************************************************************************)
(* Properties                                                              *)
(***************************************************************************)
\* A manager has one session being negotiated and one running for a display,
\* whatever arrives twice or late: request_respond reuses the session offered
\* before, manage() stops the one that ran.
OneSessionPerDisplay ==
    \A m \in Manager : \A s, t \in Of(m) :
        stage[s] = stage[t] /\ stage[s] \in {"proto", "display"} => s = t

\* Working: sessions with a process that nobody told to stop.  One that was told to
\* lives on for a while, and no list of the manager names it.
Ended(m)   == {s \in Of(m) : stage[s] = "gone"}
Working(m) == {s \in Of(m) : child[s] \in {"opening", "open", "failed", "exited"}}

offeredBar == [m \in Manager |-> Protos(m)]
managedBar == [m \in Manager |-> Displays(m)]
endedBar   == [m \in Manager |-> Ended(m)]
workingBar == [m \in Manager |-> Working(m)]

Table == INSTANCE DisplaySessions WITH
             Id <- Session, offered <- offeredBar, managed <- managedBar,
             ended <- endedBar, working <- workingBar

\* The lists of protoDisplays and displays of a manager, and the processes it has not
\* told to stop, are what DisplaySessions promises, whatever arrives twice, late or
\* not at all and whichever call fails on the way: the offer that is reused or kept
\* after a failure, the session that is stopped for the next, and the child that is
\* waited for late.  (The display freed in a list is not counted: what a walk that
\* meets it does is Crash, or as if it were not there.)
ManagerPromise == Table!Spec

\* A manager told every process that it has no display for to stop: what it forgets
\* (dpylist.c) it has signalled, or waited for.  Proved; the runs check what follows.
NoStrayProcess ==
    \A s \in Session :
        child[s] \in {"opening", "open", "failed", "exited"} => stage[s] = "display"

\* The server never has two sessions connected, although StopDisplay does not wait for
\* the process it signals: the one that is told to stop may still connect late, or
\* stay connected while its reset program runs, but another is admitted only after
\* the reset that closes its connection and forgets its authorization.  As long as
\* at most one datagram comes twice or one other client connects.
OneSessionConnected ==
    dups + locals <= 1 => \A s, t \in Session \cap conns : s = t

\* A running session outlives every late or repeated datagram except UNWILLING
\* and DECLINE, which receive_packet takes in any state; otherwise only the end
\* of its own connection ends it.
SessionEndsByItself ==
    [][state = "RUN_SESSION" /\ state' # "RUN_SESSION" =>
         \/ sessionSocket \notin conns'
         \/ \E d \in net : d.type \in {"UNWILLING", "DECLINE"} /\ state' = "OFF"]_vars

\* The connection the server takes for its session is that of the session id it
\* was given, whatever is lost or fails and as long as at most one datagram comes
\* twice or one other client connects: a process that an older offer started finds
\* its authorization gone (ResetAuthorization) or is stopped.
RunsTheGrantedSession ==
    dups + locals <= 1 /\ state = "RUN_SESSION" /\ sessionSocket \in Session =>
        sessionSocket = SessionID

\* When nothing goes wrong no race between a log out, the manager's wait for its
\* child and the next log in makes a manager decline or fail a session: the
\* server ends only with -once.
Undisturbed == faults + dups + locals = 0

LoginNeverFails == Undisturbed /\ state = "OFF" => options.once

\* ... and a log in screen comes, each time.
SessionComes ==
    Undisturbed /\ state \notin {"RUN_SESSION", "OFF"} ~>
        ~ Undisturbed \/ state \in {"RUN_SESSION", "OFF"}

\* doc/specs/XDMCP/xdmcp.ms:751: a REQUEST that arrives again before the session
\* started gets the same session id and does no harm.
RepeatedRequestIsHarmless ==
    faults + locals = 0 /\ state = "OFF" => options.once
==============================================================================
