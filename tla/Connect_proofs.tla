--------------------------- MODULE Connect_proofs ---------------------------
(***************************************************************************)
(* Proofs about Connect, for any numbers of clients and servers, any       *)
(* backlog and any number of faults: a script that follows the results of  *)
(* connect, sendable and error learns the true outcome.                    *)
(***************************************************************************)
EXTENDS Connect, SequenceTheorems, TLAPS

-----------------------------------------------------------------------------
(* The script.                                                             *)

\* The errno values for which connect returns to the script.
Returned == {"none", "EINPROGRESS", "EALREADY", "EAGAIN", "EINTR"} \cup Errno

\* Of the scripts only c's goes on.
Moves(c) ==
    /\ client' \in [Client -> {"connect", "blocked", "wait", "check", "up", "down"}]
    /\ why' \in [Client -> {"none", "EINTR"} \cup Errno]
    /\ \A d \in Client \ {c} : client'[d] = client[d] /\ why'[d] = why[d]

\* What the script does with each of them.
LEMMA ReactFacts ==
    ASSUME TypeOK, NEW c \in Client, NEW e \in Returned, React(c, ConnectResult(e))
    PROVE  /\ Moves(c)
           /\ e = "none" => client'[c] = "up"
           /\ e \in {"EINPROGRESS", "EALREADY"} => client'[c] \in {"wait", "connect"}
           /\ e \in {"EAGAIN", "ETIMEDOUT"} => client'[c] = "connect"
           /\ e \in {"EINTR", "ECONNREFUSED", "ECONNRESET"} =>
                 \/ client'[c] = "down" /\ why'[c] = e
                 \/ client'[c] = "connect" /\ e = "EINTR"
<1> DEFINE res == ConnectResult(e)
<1>1. /\ res.ok <=> e \in {"none", "EINPROGRESS", "EALREADY"}
      /\ res.again <=> e \in {"EAGAIN", "ETIMEDOUT"}
      /\ res.err = e
  BY DEF ConnectResult
<1>2. /\ client \in [Client -> {"connect", "blocked", "wait", "check", "up", "down"}]
      /\ why \in [Client -> {"none", "EINTR"} \cup Errno]
  BY DEF TypeOK
<1> HIDE DEF res
<1>3. CASE e = "none"
  <2>1. Goto(c, "up") /\ UNCHANGED why
    BY <1>1, <1>3 DEF React, res
  <2>2. QED
    BY <1>2, <1>3, <2>1 DEF Goto, Moves
<1>4. CASE e \in {"EINPROGRESS", "EALREADY"}
  <2>1. UNCHANGED why /\ \E p \in {"wait", "connect"} : Goto(c, p)
    BY <1>1, <1>4 DEF React, res
  <2>2. QED
    BY <1>2, <1>4, <2>1 DEF Goto, Moves
<1>5. CASE e \in {"EAGAIN", "ETIMEDOUT"}
  <2>1. Goto(c, "connect") /\ UNCHANGED why
    BY <1>1, <1>5 DEF React, res
  <2>2. QED
    BY <1>2, <1>5, <2>1 DEF Goto, Moves
<1>6. CASE e \in {"EINTR", "ECONNREFUSED", "ECONNRESET"}
  <2>1. GiveUp(c, e) \/ (e = "EINTR" /\ Goto(c, "connect") /\ UNCHANGED why)
    BY <1>1, <1>6 DEF React, res
  <2>2. e \in {"none", "EINTR"} \cup Errno
    BY <1>6 DEF Errno
  <2>3. QED
    BY <1>2, <1>6, <2>1, <2>2 DEF GiveUp, Goto, Moves
<1>7. QED
  BY <1>3, <1>4, <1>5, <1>6 DEF Returned, Errno

\* What a step of client c, or of its connection, leaves of the others.
OthersKeep(c) ==
    \A d \in Client \ {c} :
       /\ phase'[d] = phase[d] /\ link'[d] = link[d] /\ soerr'[d] = soerr[d]
       /\ cause'[d] = cause[d] /\ client'[d] = client[d] /\ why'[d] = why[d]

LEMMA OthersOutcome ==
    ASSUME IInv, NEW c \in Client, OthersKeep(c), TypeOK', Outcome(c)'
    PROVE  IInv'
<1>1. \A d \in Client \ {c} : Outcome(d)'
  BY DEF IInv, OthersKeep, Outcome, Decided
<1>2. QED
  BY <1>1 DEF IInv
-----------------------------------------------------------------------------
(* The invariant: one lemma per action of the client and of the kernel.    *)

LEMMA InitIInv == Init => IInv
<1> SUFFICES ASSUME Init PROVE IInv
  OBVIOUS
<1>1. backlog = <<>> /\ Len(backlog) = 0 /\ backlog \in Seq(Client)
  BY EmptySeq DEF Init
<1>2. TypeOK
  <2>1. 0 \in 0..MaxFaults /\ 0 =< Backlog
    BY ConnectAssumption
  <2>2. QED
    BY <1>1, <2>1 DEF Init, TypeOK
<1>3. QED
  BY <1>2 DEF Init, IInv, Outcome

\* Types that a step of one client changes.
LEMMA FaultType ==
    ASSUME TypeOK, UNCHANGED faults \/ Fault
    PROVE  faults' \in 0..MaxFaults
BY ConnectAssumption DEF TypeOK, Fault

LEMMA ConnectTcpIInv ==
    ASSUME IInv, NEW c \in Client, ConnectTcp(c)
    PROVE  IInv' /\ OthersKeep(c) /\ client'[c] # "up"
<1>1. /\ client[c] = "connect" /\ phase[c] = "unconnected" /\ TypeOK
      /\ phase' = [phase EXCEPT ![c] = "connecting"] /\ link' = [link EXCEPT ![c] = "syn"]
      /\ soerr' = [soerr EXCEPT ![c] = "none"] /\ cause' = [cause EXCEPT ![c] = "none"]
      /\ UNCHANGED <<setup, service, faults>>
  BY DEF ConnectTcp, Returns, IInv
<1>2. /\ Moves(c)
      /\ client'[c] \in {"connect", "blocked", "wait"}
  <2>1. CASE setup.client = "nonblock"
    BY <1>1, <2>1, ReactFacts DEF ConnectTcp, Returns, Returned
  <2>2. CASE setup.client # "nonblock"
    BY <1>1, <2>2 DEF ConnectTcp, Goto, TypeOK, Moves
  <2>3. QED
    BY <2>1, <2>2
<1>3. TypeOK'
  BY <1>1, <1>2 DEF TypeOK, Moves, service
<1>4. OthersKeep(c)
  BY <1>1, <1>2 DEF OthersKeep, Moves, TypeOK
<1>5. Outcome(c)'
  BY <1>1, <1>2 DEF Outcome, TypeOK
<1>6. QED
  BY <1>2, <1>3, <1>4, <1>5, OthersOutcome

LEMMA ConnectPendingIInv ==
    ASSUME IInv, NEW c \in Client, ConnectPending(c)
    PROVE  IInv' /\ OthersKeep(c) /\ client'[c] # "up"
<1>1. /\ phase[c] = "connecting" /\ link[c] = "syn" /\ TypeOK /\ Outcome(c)
      /\ UNCHANGED <<setup, kernel, service>>
  BY DEF ConnectPending, Returns, Stays, IInv
<1>2. /\ Moves(c)
      /\ client'[c] \in {"connect", "blocked", "wait", "down"}
      /\ client'[c] = "down" => why'[c] = "EINTR"
  <2>1. ASSUME NEW e \in {"EINPROGRESS", "EALREADY", "EINTR"}, Returns(c, e)
        PROVE  /\ Moves(c) /\ client'[c] \in {"connect", "blocked", "wait", "down"}
               /\ client'[c] = "down" => why'[c] = "EINTR"
    BY <1>1, <2>1, ReactFacts DEF Returns, Returned
  <2>2. CASE Goto(c, "blocked") /\ UNCHANGED why
    BY <1>1, <2>2 DEF Goto, TypeOK, Moves
  <2>3. QED
    BY <2>1, <2>2 DEF ConnectPending
<1>3. faults' \in 0..MaxFaults
  BY <1>1, FaultType DEF ConnectPending
<1>4. TypeOK'
  BY <1>1, <1>2, <1>3 DEF TypeOK, Moves, service, kernel
<1>5. OthersKeep(c)
  BY <1>1, <1>2 DEF OthersKeep, Moves, kernel
<1>6. Outcome(c)'
  BY <1>1, <1>2 DEF Outcome, kernel
<1>7. QED
  BY <1>2, <1>4, <1>5, <1>6, OthersOutcome

LEMMA ConnectDoneIInv ==
    ASSUME IInv, NEW c \in Client, ConnectDone(c)
    PROVE  IInv' /\ link'[c] = "open" /\ OthersKeep(c)
<1>1. /\ phase[c] = "connecting" /\ link[c] = "open" /\ TypeOK /\ Outcome(c)
      /\ phase' = [phase EXCEPT ![c] = "connected"]
      /\ UNCHANGED <<setup, link, soerr, cause, service, faults>>
  BY DEF ConnectDone, Returns, IInv
<1>2. /\ Moves(c)
      /\ client'[c] = "up"
  BY <1>1, ReactFacts DEF ConnectDone, Returns, Returned
<1>3. TypeOK'
  BY <1>1, <1>2 DEF TypeOK, Moves, service
<1>4. OthersKeep(c)
  BY <1>1, <1>2 DEF OthersKeep, Moves, TypeOK
<1>5. Outcome(c)'
  BY <1>1, <1>2 DEF Outcome, TypeOK
<1>6. QED
  BY <1>1, <1>3, <1>4, <1>5, OthersOutcome

\* Here the error is still pending: nobody has fetched it.
LEMMA ConnectFailedIInv ==
    ASSUME IInv, NEW c \in Client, ConnectFailed(c)
    PROVE  IInv' /\ client'[c] # "up" /\ OthersKeep(c)
<1>1. /\ phase[c] = "connecting" /\ link[c] = "closed" /\ TypeOK /\ Outcome(c)
      /\ client[c] \in {"connect", "blocked"}
      /\ phase' = [phase EXCEPT ![c] = "unconnected"]
      /\ soerr' = [soerr EXCEPT ![c] = "none"]
      /\ UNCHANGED <<setup, link, cause, service, faults>>
  BY DEF ConnectFailed, Returns, IInv, May
<1>2. soerr[c] \in Errno /\ soerr[c] = cause[c]
  BY <1>1 DEF Outcome, Decided, TypeOK
<1>3. soerr[c] # "none" /\ Returns(c, soerr[c])
  BY <1>2 DEF ConnectFailed, Errno
<1>4. /\ Moves(c)
      /\ client'[c] = "connect" \/ (client'[c] = "down" /\ why'[c] = cause[c])
  <2>1. PICK e \in Errno : e = soerr[c] /\ e \in Returned /\ React(c, ConnectResult(e))
    BY <1>2, <1>3 DEF Returns, Returned
  <2>2. e \in {"ECONNREFUSED", "ECONNRESET", "ETIMEDOUT"} /\ e # "EINTR"
    BY DEF Errno
  <2>3. /\ Moves(c)
        /\ e \in {"EAGAIN", "ETIMEDOUT"} => client'[c] = "connect"
        /\ e \in {"EINTR", "ECONNREFUSED", "ECONNRESET"} =>
              (client'[c] = "down" /\ why'[c] = e) \/ (client'[c] = "connect" /\ e = "EINTR")
    BY <1>1, <2>1, ReactFacts
  <2>4. CASE e = "ETIMEDOUT"
    BY <2>3, <2>4
  <2>5. CASE e \in {"ECONNREFUSED", "ECONNRESET"}
    BY <1>2, <2>1, <2>2, <2>3, <2>5
  <2>6. QED
    BY <2>2, <2>4, <2>5
<1>5. TypeOK'
  BY <1>1, <1>4 DEF TypeOK, Moves, service
<1>6. OthersKeep(c)
  BY <1>1, <1>4 DEF OthersKeep, Moves, TypeOK
<1>7. Outcome(c)'
  BY <1>1, <1>4 DEF Outcome, TypeOK
<1>8. QED
  BY <1>4, <1>5, <1>6, <1>7, OthersOutcome

LEMMA ConnectUnixIInv ==
    ASSUME IInv, NEW c \in Client, ConnectUnix(c)
    PROVE  IInv' /\ (client'[c] = "up" => link'[c] = "open") /\ OthersKeep(c)
<1>1. /\ phase[c] = "unconnected" /\ TypeOK /\ Outcome(c)
      /\ client[c] \in {"connect", "blocked"} /\ backlog \in Seq(Client)
      /\ soerr' = soerr /\ setup' = setup
  BY DEF ConnectUnix, Returns, Stays, kernel, IInv, May, TypeOK
<1>2. faults' \in 0..MaxFaults
  BY <1>1, FaultType DEF ConnectUnix
<1>3. link[c] = "closed" /\ soerr[c] = "none"
  BY <1>1 DEF Outcome
<1>4. CASE /\ ~Full
           /\ phase' = [phase EXCEPT ![c] = "connected"]
           /\ link' = [link EXCEPT ![c] = "open"]
           /\ backlog' = Append(backlog, c)
           /\ React(c, ConnectResult("none"))
           /\ UNCHANGED <<setup, soerr, cause, listening, server, faults>>
  <2>1. Moves(c) /\ client'[c] = "up"
    BY <1>1, <1>4, ReactFacts DEF Returned
  <2>2. backlog' \in Seq(Client) /\ Len(backlog') = Len(backlog) + 1 /\ Len(backlog) \in Nat
    BY <1>1, <1>4, AppendProperties, LenProperties
  <2>3. TypeOK'
    <3>1. Backlog \in Nat /\ Len(backlog') =< Backlog
      BY <1>4, <2>2, ConnectAssumption DEF Full
    <3>2. QED
      BY <1>1, <1>2, <1>4, <2>1, <2>2, <3>1 DEF TypeOK, Moves
  <2>4. OthersKeep(c)
    BY <1>1, <1>4, <2>1 DEF OthersKeep, Moves, TypeOK
  <2>5. Outcome(c)' /\ link'[c] = "open"
    BY <1>1, <1>3, <1>4, <2>1 DEF Outcome, TypeOK, Decided
  <2>6. QED
    BY <2>3, <2>4, <2>5, OthersOutcome
<1>5. CASE /\ cause' = [cause EXCEPT ![c] = "ECONNREFUSED"]
           /\ Returns(c, "ECONNREFUSED")
           /\ UNCHANGED <<phase, link, soerr, faults>>
  <2>1. Moves(c) /\ client'[c] = "down" /\ why'[c] = "ECONNREFUSED"
    BY <1>1, <1>5, ReactFacts DEF Returns, Returned, Errno
  <2>2. TypeOK'
    BY <1>1, <1>2, <1>5, <2>1 DEF TypeOK, Moves, Returns, service, Errno
  <2>3. OthersKeep(c)
    BY <1>1, <1>5, <2>1 DEF OthersKeep, Moves, TypeOK
  <2>4. Outcome(c)'
    BY <1>1, <1>3, <1>5, <2>1 DEF Outcome, TypeOK, Decided
  <2>5. QED
    BY <2>1, <2>2, <2>3, <2>4, OthersOutcome
<1>6. ASSUME NEW e \in {"EAGAIN", "EINTR"}, Stays, Returns(c, e)
      PROVE  IInv' /\ (client'[c] = "up" => link'[c] = "open") /\ OthersKeep(c)
  <2>1. /\ Moves(c) /\ client'[c] \in {"connect", "down"}
        /\ client'[c] = "down" => why'[c] = "EINTR"
    BY <1>1, <1>6, ReactFacts DEF Returns, Returned
  <2>2. TypeOK'
    BY <1>1, <1>2, <1>6, <2>1 DEF TypeOK, Moves, Returns, Stays, kernel, service
  <2>3. OthersKeep(c) /\ Outcome(c)'
    BY <1>1, <1>6, <2>1 DEF OthersKeep, Moves, Stays, kernel, Outcome
  <2>4. QED
    BY <2>1, <2>2, <2>3, OthersOutcome
<1>7. QED
  BY <1>4, <1>5, <1>6 DEF ConnectUnix

LEMMA SendableIInv ==
    ASSUME IInv, NEW c \in Client, Sendable(c)
    PROVE  IInv' /\ client'[c] # "up" /\ OthersKeep(c)
<1>1. /\ TypeOK /\ Outcome(c) /\ client[c] = "wait" /\ phase[c] = "connecting"
      /\ UNCHANGED <<setup, kernel, service>>
  BY DEF Sendable, IInv, Outcome
<1>2. PICK n \in {"ready", "timeout", "EINTR"} :
         /\ n = "ready" <=> n # "EINTR" /\ link[c] # "syn"
         /\ n = "EINTR" => faults < MaxFaults
         /\ faults' = IF n = "EINTR" THEN faults + 1 ELSE faults
         /\ \/ n = "ready" /\ Goto(c, "check") /\ UNCHANGED why
            \/ /\ n = "timeout"
               /\ (\E p \in {"wait", "connect"} : Goto(c, p)) /\ UNCHANGED why
            \/ n = "EINTR" /\ GiveUp(c, "EINTR")
  BY DEF Sendable, SelectResult
<1>3. /\ Moves(c) /\ client'[c] \in {"check", "wait", "connect", "down"}
      /\ client'[c] = "check" => link[c] # "syn"
      /\ client'[c] = "down" => why'[c] = "EINTR"
  BY <1>1, <1>2 DEF Moves, Goto, GiveUp, TypeOK
<1>4. faults' \in 0..MaxFaults
  BY <1>1, <1>2, ConnectAssumption DEF TypeOK
<1>5. TypeOK'
  BY <1>1, <1>3, <1>4 DEF TypeOK, Moves, kernel, service
<1>6. OthersKeep(c) /\ Outcome(c)'
  BY <1>1, <1>3 DEF OthersKeep, Moves, kernel, Outcome, Decided
<1>7. QED
  BY <1>3, <1>5, <1>6, OthersOutcome

LEMMA ErrorIInv ==
    ASSUME IInv, NEW c \in Client, Error(c)
    PROVE  IInv' /\ (client'[c] = "up" => link'[c] = "open") /\ OthersKeep(c)
<1>1. /\ TypeOK /\ Outcome(c) /\ client[c] = "check"
      /\ soerr' = [soerr EXCEPT ![c] = "none"]
      /\ UNCHANGED <<setup, phase, link, cause, service, faults>>
  BY DEF Error, IInv
<1>2. /\ Moves(c)
      /\ \/ soerr[c] = "none" /\ client'[c] = "up"
         \/ /\ soerr[c] # "none" /\ client'[c] = "down"
            /\ why'[c] = soerr[c] /\ soerr[c] \in Errno
  BY <1>1 DEF Error, Moves, Goto, GiveUp, TypeOK
<1>3. soerr[c] = "none" => link[c] = "open"
  BY <1>1 DEF Outcome, Decided, TypeOK
<1>4. TypeOK'
  BY <1>1, <1>2 DEF TypeOK, Moves, service
<1>5. OthersKeep(c)
  BY <1>1, <1>2 DEF OthersKeep, Moves, TypeOK
<1>6. Outcome(c)'
  BY <1>1, <1>2 DEF Outcome, TypeOK, Decided
<1>7. QED
  BY <1>1, <1>2, <1>3, <1>4, <1>5, <1>6, OthersOutcome

\* The attempt or the connection of c fails; its script has not given up for good.
LEMMA FailsIInv ==
    ASSUME IInv, NEW c \in Client, NEW e \in Errno, link[c] \in {"syn", "open"},
           Fails(c, e), UNCHANGED faults \/ Fault
    PROVE  IInv'
<1>1. /\ TypeOK /\ Outcome(c) /\ e # "none"
      /\ link' = [link EXCEPT ![c] = "closed"] /\ soerr' = [soerr EXCEPT ![c] = e]
      /\ cause' = [cause EXCEPT ![c] = e]
      /\ UNCHANGED <<setup, phase, script, service>>
  BY DEF Fails, IInv, Errno
<1>2. faults' \in 0..MaxFaults
  BY <1>1, FaultType
<1>3. TypeOK'
  BY <1>1, <1>2 DEF TypeOK, script, service
<1>4. OthersKeep(c)
  BY <1>1 DEF OthersKeep, script, TypeOK
<1>5. Outcome(c)'
  BY <1>1 DEF Outcome, TypeOK, Decided, script
<1>6. QED
  BY <1>3, <1>4, <1>5, OthersOutcome

LEMMA AnswerIInv ==
    ASSUME IInv, NEW c \in Client, Answer(c)
    PROVE  IInv'
<1>1. /\ TypeOK /\ Outcome(c) /\ link[c] = "syn" /\ UNCHANGED faults
      /\ backlog \in Seq(Client)
  BY DEF Answer, IInv, TypeOK
<1>2. CASE ~listening /\ Fails(c, "ECONNREFUSED")
  BY <1>1, <1>2, FailsIInv DEF Errno
<1>3. CASE /\ ~Full
           /\ link' = [link EXCEPT ![c] = "open"]
           /\ backlog' = Append(backlog, c)
           /\ UNCHANGED <<setup, phase, soerr, cause, script, listening, server>>
  <2>1. backlog' \in Seq(Client) /\ Len(backlog') = Len(backlog) + 1 /\ Len(backlog) \in Nat
    BY <1>1, <1>3, AppendProperties, LenProperties
  <2>2. TypeOK'
    BY <1>1, <1>3, <2>1, ConnectAssumption DEF TypeOK, Full, script
  <2>3. OthersKeep(c)
    BY <1>1, <1>3 DEF OthersKeep, script, TypeOK
  <2>4. Outcome(c)'
    BY <1>1, <1>3 DEF Outcome, TypeOK, Decided, script
  <2>5. QED
    BY <2>2, <2>3, <2>4, OthersOutcome
<1>4. QED
  BY <1>2, <1>3 DEF Answer

\* The servers take connections off the backlog, and change nothing else.
LEMMA ServiceIInv ==
    ASSUME IInv, (\E v \in Server : ServerStep(v)) \/ Listen
    PROVE  IInv' /\ UNCHANGED <<kernel, script>>
<1>1. TypeOK /\ backlog \in Seq(Client)
  BY DEF IInv, TypeOK
<1>2. UNCHANGED <<setup, kernel, script>>
  BY DEF ServerStep, Recvable, Accept, Listen
<1>3. CASE Listen
  BY <1>1, <1>2, <1>3 DEF IInv, TypeOK, Outcome, Decided, Listen, kernel, script
<1>4. ASSUME NEW v \in Server, Recvable(v) PROVE IInv'
  BY <1>1, <1>2, <1>4
  DEF IInv, TypeOK, Outcome, Decided, Recvable, Serve, kernel, script
<1>5. ASSUME NEW v \in Server, Accept(v) PROVE IInv'
  <2>1. PICK e \in {"none", "ECONNABORTED", "EAGAIN", "EINTR"} :
           /\ e \in {"none", "ECONNABORTED"} => backlog # <<>>
           /\ IF e = "EINTR" THEN Fault ELSE UNCHANGED faults
           /\ backlog' = IF e \in {"none", "ECONNABORTED"} THEN Tail(backlog) ELSE backlog
           /\ Serve(v, IF AcceptResult(e).err THEN "stopped" ELSE "select")
    BY <1>5 DEF Accept
  <2>2. backlog' \in Seq(Client) /\ Len(backlog') =< Backlog
    <3>1. Len(backlog) =< Backlog /\ Len(backlog) \in Nat /\ Backlog \in Nat
      BY <1>1, LenProperties, ConnectAssumption DEF IInv, TypeOK
    <3>2. CASE backlog' = backlog
      BY <1>1, <3>1, <3>2
    <3>3. CASE backlog # <<>> /\ backlog' = Tail(backlog)
      <4>1. backlog' \in Seq(Client) /\ Len(backlog') = Len(backlog) - 1
        BY <1>1, <3>3, HeadTailProperties
      <4>2. QED
        BY <3>1, <4>1
    <3>4. QED
      BY <2>1, <3>2, <3>3
  <2>3. faults' \in 0..MaxFaults
    BY <1>1, <2>1, FaultType
  <2>4. TypeOK'
    BY <1>1, <1>2, <2>1, <2>2, <2>3, <1>5 DEF TypeOK, kernel, script, Accept, Serve
  <2>5. QED
    BY <1>2, <2>4 DEF IInv, Outcome, Decided, kernel, script
<1>6. QED
  BY <1>2, <1>3, <1>4, <1>5 DEF ServerStep
-----------------------------------------------------------------------------
(* The theorems.                                                           *)

\* Every step keeps the invariant, and a client that takes its socket for connected
\* has a connection.
LEMMA NextIInv ==
    ASSUME IInv, Next
    PROVE  /\ IInv'
           /\ \A c \in Client : client[c] # "up" /\ client'[c] = "up" => link'[c] = "open"
<1>1. ASSUME NEW c \in Client, ConnectTcp(c) \/ ConnectPending(c)
      PROVE  IInv' /\ OthersKeep(c) /\ client'[c] # "up"
  BY <1>1, ConnectTcpIInv, ConnectPendingIInv
<1>2. ASSUME NEW c \in Client, ConnectDone(c) \/ ConnectFailed(c) \/ ConnectUnix(c)
      PROVE  IInv' /\ OthersKeep(c) /\ (client'[c] = "up" => link'[c] = "open")
  BY <1>2, ConnectDoneIInv, ConnectFailedIInv, ConnectUnixIInv
<1>3. ASSUME NEW c \in Client, Sendable(c) \/ Error(c)
      PROVE  IInv' /\ OthersKeep(c) /\ (client'[c] = "up" => link'[c] = "open")
  BY <1>3, SendableIInv, ErrorIInv
<1>4. ASSUME NEW c \in Client, Answer(c) \/ TimesOut(c) \/ Reset(c)
      PROVE  IInv' /\ UNCHANGED client
  <2>1. IInv'
    BY <1>4, AnswerIInv, FailsIInv DEF TimesOut, Reset, Errno
  <2>2. UNCHANGED client
    BY <1>4 DEF Answer, TimesOut, Reset, Fails, script
  <2>3. QED
    BY <2>1, <2>2
<1>5. CASE (\E v \in Server : ServerStep(v)) \/ Listen
  BY <1>5, ServiceIInv DEF script
<1>6. QED
  BY <1>1, <1>2, <1>3, <1>4, <1>5 DEF Next, ClientStep, ConnectStep, OthersKeep

LEMMA StutterIInv == IInv /\ UNCHANGED vars => IInv'
BY DEF IInv, TypeOK, Outcome, Decided, vars, kernel, script, service

\* The inductive invariant holds in every reachable state.
THEOREM Inductive == Spec => []IInv
BY InitIInv, NextIInv, StutterIInv, PTL DEF Spec

\* The types, and with them that no script gives up because of an errno that says
\* nothing of the outcome.
THEOREM TypeCorrect == Spec => []TypeOK
<1>1. IInv => TypeOK
  BY DEF IInv
<1>2. QED
  BY <1>1, Inductive, PTL

\* A script that was not interrupted gives up only for the true reason.
THEOREM TrueReason == Spec => []DownIsFailed
<1>1. IInv => DownIsFailed
  BY DEF IInv, Outcome, DownIsFailed
<1>2. QED
  BY <1>1, Inductive, PTL

\* A script takes its socket for connected only when it is.
THEOREM TrulyConnected == Spec => UpIsConnected
<1>1. IInv /\ [Next]_vars =>
         [\A c \in Client : client[c] # "up" /\ client'[c] = "up" => link'[c] = "open"]_vars
  BY NextIInv
<1>2. QED
  BY <1>1, Inductive, PTL DEF Spec, UpIsConnected
=============================================================================
