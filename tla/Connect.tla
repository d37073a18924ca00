------------------------------ MODULE Connect ------------------------------
(***************************************************************************)
(* Connecting: connect_lua, select_lua (sendable, recvable), error_lua,    *)
(* listen_lua, acceptfd_lua and accept_lua of socket.c, between client     *)
(* scripts and server scripts that share a listening socket.               *)
(*                                                                         *)
(* A client does what doc/socket.md says: it repeats connect while         *)
(* `again'; after EINPROGRESS or EALREADY it waits with sendable() and     *)
(* asks error(), or calls connect once more.  A server waits with          *)
(* recvable() and calls accept() or acceptfd().                            *)
(*                                                                         *)
(* `phase', `link', `soerr', `backlog' and `listening' are the kernel's,   *)
(* for TCP and for Unix domain sockets as Linux has them; other systems    *)
(* also take an aborted connection off the backlog (ECONNABORTED).         *)
(***************************************************************************)
EXTENDS Naturals, Sequences

CONSTANTS
    Client, Server, \* the scripts
    Setups,         \* the sockets to look at
    Backlog,        \* argument of listen()
    MaxFaults       \* bound: interrupts, lost and broken connections

IsSetup(su) ==
    /\ su.net \in {"tcp", "unix"}
    /\ su.client \in {"nonblock", "blocking", "sndtimeo"}
    /\ su.listener \in {"nonblock", "blocking"}

ASSUME ConnectAssumption ==
    /\ \A su \in Setups : IsSetup(su)
    /\ Backlog \in Nat \ {0} /\ MaxFaults \in Nat

VARIABLES
    setup,          \* the setup of this run
    phase,          \* a client's struct socket: what its connect calls did
    link,           \* its transport
    soerr,          \* its pending SO_ERROR
    cause,          \* history: what ended its last attempt
    client,         \* what the client script does next
    why,            \* and why it gave up
    listening, backlog,
    server,         \* what the server script does next
    faults          \* interrupts and failures so far

kernel == <<phase, link, soerr, cause>>
script == <<client, why>>
service == <<listening, backlog, server>>
vars == <<setup, kernel, script, service, faults>>

Init ==
    /\ setup \in Setups
    /\ phase = [c \in Client |-> "unconnected"]
    /\ link = [c \in Client |-> "closed"]
    /\ soerr = [c \in Client |-> "none"]
    /\ cause = [c \in Client |-> "none"]
    /\ client = [c \in Client |-> "connect"]
    /\ why = [c \in Client |-> "none"]
    /\ listening = FALSE /\ backlog = <<>>
    /\ server = [v \in Server |-> "select"]
    /\ faults = 0

Fault == faults < MaxFaults /\ faults' = faults + 1
Full == Len(backlog) >= Backlog
Decided(c) == client[c] \in {"up", "down"}

-----------------------------------------------------------------------------
(* What the methods return for what the system call did: errno, or "none". *)

\* Mutants of ConnectResult: EALREADY is an error; only ETIMEDOUT is again.
ConnectResult_once(e) ==
    [ok |-> e \in {"none", "EINPROGRESS"}, err |-> e,
     again |-> e \in {"EAGAIN", "ETIMEDOUT"}]
ConnectResult_timedOut(e) ==
    [ok |-> e \in {"none", "EINPROGRESS", "EALREADY"}, err |-> e,
     again |-> e = "ETIMEDOUT"]

\* (ok, err, again) of connect_lua.
ConnectResult(e) ==
    [ok |-> e \in {"none", "EINPROGRESS", "EALREADY"}, err |-> e,
     again |-> e \in {"EAGAIN", "ETIMEDOUT"}]

\* Mutant of SelectResult: the timeout is not told from readiness.
SelectResult_anyIsReady(n) ==
    [ok |-> n # "EINTR", err |-> IF n = "EINTR" THEN n ELSE "none", timeout |-> FALSE]

\* (ok, err, timeout) of select_lua, for 0, 1, or -1 and EINTR.
SelectResult(n) ==
    [ok |-> n = "ready", err |-> IF n = "EINTR" THEN n ELSE "none",
     timeout |-> n = "timeout"]

\* Mutant of AcceptResult: an interrupted accept is an error.
AcceptResult_interrupted(e) ==
    [err |-> e \in {"EINTR"}, again |-> e \in {"EAGAIN", "ECONNABORTED"}]

\* acceptfd_lua and accept_lua: a descriptor, an error, or again.
AcceptResult(e) ==
    [err |-> e \notin {"none", "EAGAIN", "EINTR", "ECONNABORTED"},
     again |-> e \in {"EAGAIN", "EINTR", "ECONNABORTED"}]

-----------------------------------------------------------------------------
(* The client script. *)

Goto(c, p) == client' = [client EXCEPT ![c] = p]
GiveUp(c, e) == Goto(c, "down") /\ why' = [why EXCEPT ![c] = e]

\* What the script does with the result of connect().  After an interrupt it
\* may try again.
React(c, res) ==
    \/ res.ok /\ res.err = "none" /\ Goto(c, "up") /\ UNCHANGED why
    \/ /\ res.ok /\ res.err # "none"
       /\ \E p \in {"wait", "connect"} : Goto(c, p)
       /\ UNCHANGED why
    \/ res.again /\ Goto(c, "connect") /\ UNCHANGED why
    \/ ~res.ok /\ ~res.again /\ GiveUp(c, res.err)
    \/ ~res.ok /\ res.err = "EINTR" /\ Goto(c, "connect") /\ UNCHANGED why

\* connect(2) returns errno e at once or after blocking.
Returns(c, e) == React(c, ConnectResult(e)) /\ UNCHANGED <<setup, service>>
Stays == UNCHANGED kernel

May(c, mode) == client[c] \in {"connect", "blocked"} /\ setup.client \in mode

\* The first connect(2) of an attempt over TCP sends the SYN; a blocking call
\* goes on to wait.
ConnectTcp(c) ==
    /\ client[c] = "connect" /\ setup.net = "tcp" /\ phase[c] = "unconnected"
    /\ phase' = [phase EXCEPT ![c] = "connecting"]
    /\ link' = [link EXCEPT ![c] = "syn"]
    /\ soerr' = [soerr EXCEPT ![c] = "none"]
    /\ cause' = [cause EXCEPT ![c] = "none"]
    /\ IF setup.client = "nonblock"
       THEN Returns(c, "EINPROGRESS")
       ELSE Goto(c, "blocked") /\ UNCHANGED <<setup, why, service>>
    /\ UNCHANGED faults

\* connect(2) while the handshake is under way.
ConnectPending(c) ==
    /\ phase[c] = "connecting" /\ link[c] = "syn" /\ Stays
    /\ \/ May(c, {"nonblock"}) /\ Returns(c, "EALREADY") /\ UNCHANGED faults
       \/ /\ May(c, {"blocking", "sndtimeo"}) /\ client[c] = "connect"
          /\ Goto(c, "blocked") /\ UNCHANGED <<setup, why, service, faults>>
       \/ /\ May(c, {"sndtimeo"}) /\ client[c] = "blocked"
          /\ \E e \in {"EINPROGRESS", "EALREADY"} : Returns(c, e)
          /\ UNCHANGED faults
       \/ client[c] = "blocked" /\ Fault /\ Returns(c, "EINTR")

\* connect(2) after the handshake: success, once.
ConnectDone(c) ==
    /\ May(c, {"nonblock", "blocking", "sndtimeo"})
    /\ phase[c] = "connecting" /\ link[c] = "open"
    /\ phase' = [phase EXCEPT ![c] = "connected"]
    /\ Returns(c, "none")
    /\ UNCHANGED <<link, soerr, cause, faults>>

\* connect(2) after the attempt has failed: the pending error, or, if somebody
\* has fetched it already, ECONNABORTED.  The socket can be used again.
ConnectFailed(c) ==
    /\ May(c, {"nonblock", "blocking", "sndtimeo"})
    /\ phase[c] = "connecting" /\ link[c] = "closed"
    /\ phase' = [phase EXCEPT ![c] = "unconnected"]
    /\ soerr' = [soerr EXCEPT ![c] = "none"]
    /\ Returns(c, IF soerr[c] = "none" THEN "ECONNABORTED" ELSE soerr[c])
    /\ UNCHANGED <<link, cause, faults>>

\* A Unix domain socket is connected, refused, or finds the backlog full.
ConnectUnix(c) ==
    /\ May(c, {"nonblock", "blocking", "sndtimeo"})
    /\ setup.net = "unix" /\ phase[c] = "unconnected"
    /\ \/ /\ listening /\ ~Full
          /\ phase' = [phase EXCEPT ![c] = "connected"]
          /\ link' = [link EXCEPT ![c] = "open"]
          /\ backlog' = Append(backlog, c)
          /\ React(c, ConnectResult("none"))
          /\ UNCHANGED <<setup, soerr, cause, listening, server, faults>>
       \/ /\ ~listening
          /\ cause' = [cause EXCEPT ![c] = "ECONNREFUSED"]
          /\ Returns(c, "ECONNREFUSED")
          /\ UNCHANGED <<phase, link, soerr, faults>>
       \/ /\ Full /\ setup.client # "blocking" /\ Stays
          /\ Returns(c, "EAGAIN")
          /\ UNCHANGED faults
       \/ Full /\ setup.client # "nonblock" /\ Stays /\ Fault /\ Returns(c, "EINTR")

\* c:sendable(): writable is what is connected or has failed.
Sendable(c) ==
    /\ client[c] = "wait"
    /\ \E n \in {"ready", "timeout", "EINTR"} :
          /\ n = "ready" <=> n # "EINTR" /\ link[c] # "syn"
          /\ n = "EINTR" => faults < MaxFaults
          /\ faults' = IF n = "EINTR" THEN faults + 1 ELSE faults
          /\ LET res == SelectResult(n) IN
             \/ res.ok /\ Goto(c, "check") /\ UNCHANGED why
             \/ res.timeout /\ (\E p \in {"wait", "connect"} : Goto(c, p)) /\ UNCHANGED why
             \/ res.err # "none" /\ GiveUp(c, res.err)
    /\ UNCHANGED <<setup, kernel, service>>

\* c:error(): SO_ERROR is read, and cleared by it; nil when there is none.
Error(c) ==
    /\ client[c] = "check"
    /\ soerr' = [soerr EXCEPT ![c] = "none"]
    /\ IF soerr[c] = "none" THEN Goto(c, "up") /\ UNCHANGED why
                            ELSE GiveUp(c, soerr[c])
    /\ UNCHANGED <<setup, phase, link, cause, service, faults>>

-----------------------------------------------------------------------------
(* The kernel. *)

Fails(c, e) ==
    /\ link' = [link EXCEPT ![c] = "closed"]
    /\ soerr' = [soerr EXCEPT ![c] = e]
    /\ cause' = [cause EXCEPT ![c] = e]
    /\ UNCHANGED <<setup, phase, script, service>>

\* The listener answers the SYN: it queues the connection, or refuses it.
Answer(c) ==
    /\ link[c] = "syn"
    /\ \/ /\ listening /\ ~Full
          /\ link' = [link EXCEPT ![c] = "open"]
          /\ backlog' = Append(backlog, c)
          /\ UNCHANGED <<setup, phase, soerr, cause, script, listening, server>>
       \/ ~listening /\ Fails(c, "ECONNREFUSED")
    /\ UNCHANGED faults

\* No answer comes; an established connection is reset by the peer's host.
TimesOut(c) == link[c] = "syn" /\ Fault /\ Fails(c, "ETIMEDOUT")
Reset(c) == link[c] = "open" /\ setup.net = "tcp" /\ Fault /\ Fails(c, "ECONNRESET")

-----------------------------------------------------------------------------
(* The server scripts. *)

Serve(v, p) == server' = [server EXCEPT ![v] = p]

\* s:listen(), after s:bind().
Listen ==
    /\ ~listening
    /\ listening' = TRUE
    /\ UNCHANGED <<setup, kernel, script, backlog, server, faults>>

\* s:recvable() of the listener: a timeout or an interrupt changes nothing.
Recvable(v) ==
    /\ server[v] = "select" /\ backlog # <<>>
    /\ SelectResult("ready").ok
    /\ Serve(v, "accept")
    /\ UNCHANGED <<setup, kernel, script, listening, backlog, faults>>

\* s:accept() or s:acceptfd(): the other server may have been faster.  On a
\* blocking listener the call then waits.
Accept(v) ==
    /\ server[v] = "accept"
    /\ \E e \in {"none", "ECONNABORTED", "EAGAIN", "EINTR"} :
          /\ e \in {"none", "ECONNABORTED"} => backlog # <<>>
          /\ e = "ECONNABORTED" => link[Head(backlog)] = "closed"
          /\ e = "EAGAIN" => backlog = <<>> /\ setup.listener = "nonblock"
          /\ IF e = "EINTR" THEN Fault ELSE UNCHANGED faults
          /\ backlog' = IF e \in {"none", "ECONNABORTED"} THEN Tail(backlog) ELSE backlog
          /\ Serve(v, IF AcceptResult(e).err THEN "stopped" ELSE "select")
    /\ UNCHANGED <<setup, kernel, script, listening>>

ConnectStep(c) ==
    ConnectTcp(c) \/ ConnectPending(c) \/ ConnectDone(c) \/ ConnectFailed(c) \/ ConnectUnix(c)
ClientStep(c) == ConnectStep(c) \/ Sendable(c) \/ Error(c)
ServerStep(v) == Recvable(v) \/ Accept(v)

Next ==
    \/ \E c \in Client : ClientStep(c) \/ Answer(c) \/ TimesOut(c) \/ Reset(c)
    \/ \E v \in Server : ServerStep(v)
    \/ Listen

Spec == Init /\ [][Next]_vars

\* Scripts go on, the servers listen some day, and a host answers a SYN.
FairSpec ==
    /\ Spec
    /\ \A c \in Client : WF_vars(ClientStep(c)) /\ WF_vars(Answer(c))
    /\ \A v \in Server : WF_vars(ServerStep(v))
    /\ WF_vars(Listen)

-----------------------------------------------------------------------------
Errno == {"ECONNREFUSED", "ECONNRESET", "ETIMEDOUT"}

\* Every variable keeps its type; no script gives up because of EINPROGRESS,
\* EALREADY, EAGAIN, EISCONN or ECONNABORTED, which say nothing of the outcome.
TypeOK ==
    /\ setup \in Setups
    /\ phase \in [Client -> {"unconnected", "connecting", "connected"}]
    /\ link \in [Client -> {"closed", "syn", "open"}]
    /\ soerr \in [Client -> {"none"} \cup Errno]
    /\ cause \in [Client -> {"none"} \cup Errno]
    /\ client \in [Client -> {"connect", "blocked", "wait", "check", "up", "down"}]
    /\ why \in [Client -> {"none", "EINTR"} \cup Errno]
    /\ listening \in BOOLEAN
    /\ backlog \in Seq(Client) /\ Len(backlog) =< Backlog
    /\ server \in [Server -> {"select", "accept", "stopped"}]
    /\ faults \in 0..MaxFaults

\* A script that has followed the results of connect, sendable and error takes
\* the socket for connected only when it is: a failure that came between two of
\* its calls is not missed, and no handshake under way taken for done.
UpIsConnected ==
    [][\A c \in Client : client[c] # "up" /\ client'[c] = "up" => link'[c] = "open"]_vars

\* It gives up only when the attempt has failed (or a call was interrupted), and
\* for the reason for which it failed: the one error that the kernel reports once
\* reaches the script by connect or by error, and by no other name.
DownIsFailed ==
    \A c \in Client : client[c] = "down" /\ why[c] # "EINTR" => why[c] = cause[c]

\* Every client comes to know the outcome, and every connection is taken off the
\* backlog, also when two servers wake up for one connection.
Settles == <>[]((\A c \in Client : Decided(c)) /\ backlog = <<>>)
-----------------------------------------------------------------------------
\* The inductive invariant: a pending error is that of an attempt which is over; as
\* long as the script asks, an attempt that has failed has its error pending; a script
\* waits for an attempt only, and asks for its error when the handshake is over.
Outcome(c) ==
    /\ phase[c] = "unconnected" => link[c] = "closed" /\ soerr[c] = "none"
    /\ soerr[c] # "none" => soerr[c] = cause[c] /\ link[c] = "closed"
    /\ phase[c] = "connecting" /\ link[c] = "closed" /\ ~Decided(c) => soerr[c] # "none"
    /\ client[c] \in {"wait", "check"} => phase[c] = "connecting"
    /\ client[c] = "check" => link[c] # "syn"
    /\ client[c] = "down" /\ why[c] # "EINTR" => why[c] = cause[c] /\ link[c] = "closed"

IInv == TypeOK /\ \A c \in Client : Outcome(c)
=============================================================================
