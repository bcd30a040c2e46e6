------------------------------ MODULE NcpLink ------------------------------
(***************************************************************************)
(* The serial transport to the Zigbee coprocessor,                         *)
(* internal/ncp/nrf52840.go: goroutines that call request() at the same    *)
(* time, the readLoop goroutine that hands them link-layer ACKs and        *)
(* high-level responses, resetAndReconnect, which replaces the port, the   *)
(* channels and the counters under them, and Close.                        *)
(*                                                                         *)
(* A request is a member of Req and runs once.  The coprocessor is         *)
(* external: it acknowledges the frames it gets and answers them later, in *)
(* any order; frames are lost in both directions.  In a frame, in llAckCh  *)
(* and in a response channel the request stands for its numbers: the frame *)
(* of q carries seq[q] and tsn[q], and the code compares only those.       *)
(*                                                                         *)
(* Payloads, status codes and logging are left out; indications are        *)
(* handled in DeviceManager.                                               *)
(***************************************************************************)
EXTENDS Integers, Sequences, FiniteSets

CONSTANTS
    Req,          \* calls of request()
    TsnMod,       \* TSNs are uint8: 256 in the code
    AckCap,       \* capacity of llAckCh
    LLMaxRetries, \* llMaxRetries
    MaxLives,     \* bound: times the port is opened
    RxCap,        \* bound: frames on their way from the coprocessor
    None

ASSUME ModAssumption ==
    /\ TsnMod \in Nat \ {0} /\ AckCap \in Nat /\ LLMaxRetries \in Nat
    /\ MaxLives \in Nat /\ RxCap \in Nat
ASSUME NoneAssumption == None \notin Req

VARIABLES
    hlTSN, llPktSeq,       \* the counters
    hlPending,             \* TSN -> the request whose channel is registered
    llAckCh,               \* ACKs readLoop passed on, as the requests they acknowledge
    pc, tsn, seq, attempt, \* the goroutines in request()
    resp, closedCh,        \* a request's channel: its buffer, and whether it is closed
    done, portOpen, lives, \* n.done is closed; n.port; how often n.done was made
    rlPc, rlTo, rlResp,    \* readLoop, between looking up a channel and sending
    zPc,                   \* resetAndReconnect
    cPc,                   \* Close; n.closed is cPc # "idle"
    tx, owed, rx,          \* the wire and the coprocessor
    received               \* history: what it has received since the port was opened

reqVars  == <<pc, tsn, seq, attempt>>
chanVars == <<resp, closedCh>>
lifeVars == <<done, portOpen, lives>>
loopVars == <<rlPc, rlTo, rlResp>>
callVars == <<zPc, cPc>>
ncpVars  == <<tx, owed, received>>
vars == <<hlTSN, llPktSeq, hlPending, llAckCh, reqVars, chanVars, lifeVars,
          loopVars, callVars, ncpVars, rx>>

Tsn     == 0 .. TsnMod - 1
PktSeq  == 1 .. 3
Frame   == [kind : {"ack", "resp"}, req : Req]
ReqPc   == {"new", "register", "write", "ack", "resp", "ret", "done"}
ResetPc == {"idle", "drain", "open", "clear", "restart", "probe", "failed"}
ClosePc == {"idle", "drain", "clear", "closed"}

TypeOK ==
    /\ hlTSN \in Nat
    /\ llPktSeq \in 0 .. 3
    /\ hlPending \in [Tsn -> Req \cup {None}]
    /\ llAckCh \in Seq(Req)
    /\ pc \in [Req -> ReqPc]
    /\ tsn \in [Req -> Tsn \cup {-1}]
    /\ seq \in [Req -> 0 .. 3]
    /\ attempt \in [Req -> 0 .. LLMaxRetries]
    /\ resp \in [Req -> Req \cup {None}]
    /\ closedCh \in [Req -> BOOLEAN]
    /\ done \in BOOLEAN /\ portOpen \in BOOLEAN /\ lives \in Nat
    /\ rlPc \in {"read", "send", "off"}
    /\ rlTo \in Req \cup {None} /\ rlResp \in Req \cup {None}
    /\ zPc \in ResetPc /\ cPc \in ClosePc
    /\ tx \subseteq Req /\ owed \subseteq Req /\ received \subseteq Req
    /\ rx \in Seq(Frame)

-----------------------------------------------------------------------------
\* NewNRF52840NCP: the port is open and readLoop runs.
Init ==
    /\ hlTSN = 0 /\ llPktSeq = 0
    /\ hlPending = [t \in Tsn |-> None]
    /\ llAckCh = <<>>
    /\ pc = [r \in Req |-> "new"]
    /\ tsn = [r \in Req |-> -1]
    /\ seq = [r \in Req |-> 0]
    /\ attempt = [r \in Req |-> 0]
    /\ resp = [r \in Req |-> None]
    /\ closedCh = [r \in Req |-> FALSE]
    /\ done = FALSE /\ portOpen = TRUE /\ lives = 1
    /\ rlPc = "read" /\ rlTo = None /\ rlResp = None
    /\ zPc = "idle" /\ cPc = "idle"
    /\ tx = {} /\ owed = {} /\ received = {} /\ rx = <<>>

-----------------------------------------------------------------------------
(* request() and writeWithACK().                                           *)

Goto(r, from, to) == pc[r] = from /\ pc' = [pc EXCEPT ![r] = to]

nextTSN(r) ==
    /\ Goto(r, "new", "register")
    /\ hlTSN' = hlTSN + 1
    /\ tsn' = [tsn EXCEPT ![r] = (hlTSN + 1) % TsnMod]
    /\ UNCHANGED <<llPktSeq, hlPending, llAckCh, seq, attempt, chanVars,
                   lifeVars, loopVars, callVars, ncpVars, rx>>

\* hlPending[tsn] = ch, then nextPktSeq.
Register(r) ==
    /\ Goto(r, "register", "write")
    /\ hlPending' = [hlPending EXCEPT ![tsn[r]] = r]
    /\ llPktSeq' = (llPktSeq % 3) + 1
    /\ seq' = [seq EXCEPT ![r] = (llPktSeq % 3) + 1]
    /\ UNCHANGED <<hlTSN, llAckCh, tsn, attempt, chanVars, lifeVars,
                   loopVars, callVars, ncpVars, rx>>

\* One attempt: the frame gets to the coprocessor or is lost; a write error,
\* always so on a closed port, ends the request.
Write(r) ==
    /\ \/ /\ portOpen
          /\ Goto(r, "write", "ack")
          /\ tx' \in {tx, tx \cup {r}}
       \/ /\ Goto(r, "write", "ret")
          /\ UNCHANGED tx
    /\ UNCHANGED <<hlTSN, llPktSeq, hlPending, llAckCh, tsn, seq, attempt,
                   chanVars, lifeVars, loopVars, callVars, owed, received, rx>>

\* Mutant of TakeAck: any ACK will do.
TakeAnyAck(r) ==
    /\ Goto(r, "ack", "resp")
    /\ llAckCh # <<>>
    /\ llAckCh' = Tail(llAckCh)
    /\ UNCHANGED <<hlTSN, llPktSeq, hlPending, tsn, seq, attempt, chanVars,
                   lifeVars, loopVars, callVars, ncpVars, rx>>

\* The ACK at the head of llAckCh ends the wait if it carries the request's
\* packet number and is drained otherwise.  n.llAckCh is read without
\* lifecycleMu, so a request may take an ACK from the channel a reset has just
\* made; one that still selects on the old channel finds the old done closed.
TakeAck(r) ==
    /\ pc[r] = "ack"
    /\ llAckCh # <<>>
    /\ llAckCh' = Tail(llAckCh)
    /\ IF seq[Head(llAckCh)] = seq[r] THEN Goto(r, "ack", "resp") ELSE UNCHANGED pc
    /\ UNCHANGED <<hlTSN, llPktSeq, hlPending, tsn, seq, attempt, chanVars,
                   lifeVars, loopVars, callVars, ncpVars, rx>>

\* Mutant of AckTimeout: one attempt too many.
OneAttemptTooMany(r) ==
    /\ attempt[r] <= LLMaxRetries
    /\ Goto(r, "ack", "write")
    /\ attempt' = [attempt EXCEPT ![r] = @ + 1]
    /\ UNCHANGED <<hlTSN, llPktSeq, hlPending, llAckCh, tsn, seq, chanVars,
                   lifeVars, loopVars, callVars, ncpVars, rx>>

\* llACKTimeout: write again, or give up after the last attempt.
AckTimeout(r) ==
    /\ \/ /\ attempt[r] < LLMaxRetries
          /\ Goto(r, "ack", "write")
          /\ attempt' = [attempt EXCEPT ![r] = @ + 1]
       \/ /\ attempt[r] = LLMaxRetries
          /\ Goto(r, "ack", "ret")
          /\ UNCHANGED attempt
    /\ UNCHANGED <<hlTSN, llPktSeq, hlPending, llAckCh, tsn, seq, chanVars,
                   lifeVars, loopVars, callVars, ncpVars, rx>>

\* The caller's context ends or the done channel selected on is closed, while
\* waiting for the ACK or for the response.
GiveUp(r) ==
    /\ Goto(r, "ack", "ret") \/ Goto(r, "resp", "ret")
    /\ UNCHANGED <<hlTSN, llPktSeq, hlPending, llAckCh, tsn, seq, attempt,
                   chanVars, lifeVars, loopVars, callVars, ncpVars, rx>>

\* The channel has a response, or is closed: "ncp reset: request cancelled".
Receive(r) ==
    /\ Goto(r, "resp", "ret")
    /\ resp[r] # None \/ closedCh[r]
    /\ UNCHANGED <<hlTSN, llPktSeq, hlPending, llAckCh, tsn, seq, attempt,
                   chanVars, lifeVars, loopVars, callVars, ncpVars, rx>>

\* The deferred delete(n.hlPending, tsn), whoever is registered there.
Return(r) ==
    /\ Goto(r, "ret", "done")
    /\ hlPending' = [hlPending EXCEPT ![tsn[r]] = None]
    /\ attempt' = [attempt EXCEPT ![r] = 0]
    /\ UNCHANGED <<hlTSN, llPktSeq, llAckCh, tsn, seq, chanVars, lifeVars,
                   loopVars, callVars, ncpVars, rx>>

-----------------------------------------------------------------------------
(* readLoop().                                                             *)

loopRest == <<hlTSN, llPktSeq, hlPending, reqVars, closedCh, lifeVars, callVars, ncpVars>>

\* A frame that does not decode is skipped.
ReadGarbled ==
    /\ rlPc = "read"
    /\ rx # <<>>
    /\ rx' = Tail(rx)
    /\ UNCHANGED <<llAckCh, resp, loopVars, loopRest>>

\* A full llAckCh drops the ACK.
ReadAck ==
    /\ rlPc = "read"
    /\ rx # <<>> /\ Head(rx).kind = "ack"
    /\ rx' = Tail(rx)
    /\ llAckCh' = IF Len(llAckCh) < AckCap THEN Append(llAckCh, Head(rx).req) ELSE llAckCh
    /\ UNCHANGED <<resp, loopVars, loopRest>>

\* Mutant of ReadResponse: the response goes to any request that waits.
ReadResponseAnyTsn ==
    /\ rlPc = "read"
    /\ rx # <<>> /\ Head(rx).kind = "resp"
    /\ rx' = Tail(rx)
    /\ \E t \in Tsn : hlPending[t] # None /\ rlTo' = hlPending[t]
    /\ rlPc' = "send" /\ rlResp' = Head(rx).req
    /\ UNCHANGED <<llAckCh, resp, loopRest>>

\* The channel is looked up under hlMu and used after it is released.
ReadResponse ==
    /\ rlPc = "read"
    /\ rx # <<>> /\ Head(rx).kind = "resp"
    /\ hlPending[tsn[Head(rx).req]] # None
    /\ rx' = Tail(rx)
    /\ rlPc' = "send" /\ rlTo' = hlPending[tsn[Head(rx).req]] /\ rlResp' = Head(rx).req
    /\ UNCHANGED <<llAckCh, resp, loopRest>>

\* "zboss orphaned response (too late)"
ReadOrphan ==
    /\ rlPc = "read"
    /\ rx # <<>> /\ Head(rx).kind = "resp"
    /\ hlPending[tsn[Head(rx).req]] = None
    /\ rx' = Tail(rx)
    /\ UNCHANGED <<llAckCh, resp, loopVars, loopRest>>

\* Mutant of SendResponse: no default case, the send blocks on a full channel.
SendResponseBlocks ==
    /\ rlPc = "send" /\ resp[rlTo] = None
    /\ resp' = [resp EXCEPT ![rlTo] = rlResp]
    /\ rlPc' = "read" /\ rlTo' = None /\ rlResp' = None
    /\ UNCHANGED <<llAckCh, rx, loopRest>>

\* A channel that already holds a response keeps it.
SendResponse ==
    /\ rlPc = "send"
    /\ resp' = IF resp[rlTo] = None THEN [resp EXCEPT ![rlTo] = rlResp] ELSE resp
    /\ rlPc' = "read" /\ rlTo' = None /\ rlResp' = None
    /\ UNCHANGED <<llAckCh, rx, loopRest>>

LoopExit ==
    /\ rlPc = "read"
    /\ done
    /\ rlPc' = "off"
    /\ UNCHANGED <<llAckCh, rlTo, rlResp, rx, resp, loopRest>>

-----------------------------------------------------------------------------
(* resetAndReconnect() with resetState(), and Close().                     *)

\* close(done) once, port.Close(); what was on the wire is lost.
ClosePort ==
    /\ done' = TRUE /\ portOpen' = FALSE
    /\ tx' = {} /\ owed' = {} /\ rx' = <<>>

\* Mutant of ClosePending: the map is replaced, its channels stay open.
ForgetPending ==
    /\ hlPending' = [t \in Tsn |-> None]
    /\ UNCHANGED closedCh

\* close(ch) for every registered channel, and empty the map.
ClosePending ==
    /\ closedCh' = [r \in Req |-> closedCh[r] \/ \E t \in Tsn : hlPending[t] = r]
    /\ hlPending' = [t \in Tsn |-> None]

ResetBegin ==
    /\ zPc = "idle" /\ lives < MaxLives
    /\ cPc = "idle"
    /\ zPc' = "drain"
    /\ hlTSN' = hlTSN + 1                  \* the reset frames' TSN
    /\ ClosePort
    /\ UNCHANGED <<llPktSeq, hlPending, llAckCh, reqVars, chanVars, lives, loopVars,
                   cPc, received>>

\* Mutant of ResetDrained: no wg.Wait().
ResetNotDrained ==
    /\ zPc = "drain"
    /\ zPc' = "open"
    /\ UNCHANGED <<hlTSN, llPktSeq, hlPending, llAckCh, reqVars, chanVars, lifeVars,
                   loopVars, cPc, ncpVars, rx>>

\* wg.Wait()
ResetDrained ==
    /\ zPc = "drain" /\ rlPc = "off"
    /\ zPc' = "open"
    /\ UNCHANGED <<hlTSN, llPktSeq, hlPending, llAckCh, reqVars, chanVars, lifeVars,
                   loopVars, cPc, ncpVars, rx>>

\* The port opens; resetState's part under lifecycleMu.
ResetOpen ==
    /\ zPc = "open" /\ lives < MaxLives
    /\ zPc' = "clear"
    /\ done' = FALSE /\ portOpen' = TRUE /\ lives' = lives + 1
    /\ llAckCh' = <<>> /\ received' = {}
    /\ UNCHANGED <<hlTSN, llPktSeq, hlPending, reqVars, chanVars, loopVars, cPc, tx, owed, rx>>

\* The context ends or 30 attempts have failed; Start fails with it.
ResetGivesUp ==
    /\ zPc = "open"
    /\ zPc' = "failed"
    /\ UNCHANGED <<hlTSN, llPktSeq, hlPending, llAckCh, reqVars, chanVars, lifeVars,
                   loopVars, cPc, ncpVars, rx>>

ResetClearPending ==
    /\ zPc = "clear"
    /\ zPc' = "restart"
    /\ ClosePending
    /\ UNCHANGED <<hlTSN, llPktSeq, llAckCh, reqVars, resp, lifeVars, loopVars, cPc, ncpVars, rx>>

ResetRestart ==
    /\ zPc = "restart"
    /\ zPc' = "probe"
    /\ llPktSeq' = 0 /\ hlTSN' = 0
    /\ rlPc' = "read"
    /\ UNCHANGED <<hlPending, llAckCh, reqVars, chanVars, lifeVars, rlTo, rlResp,
                   cPc, ncpVars, rx>>

\* GetModuleVersion, one of the requests, succeeded.
ResetProbed ==
    /\ zPc = "probe"
    /\ zPc' = "idle"
    /\ UNCHANGED <<hlTSN, llPktSeq, hlPending, llAckCh, reqVars, chanVars, lifeVars,
                   loopVars, cPc, ncpVars, rx>>

\* It failed: close the port again and try the next attempt.
ResetProbeFails ==
    /\ zPc = "probe"
    /\ zPc' = "drain"
    /\ ClosePort
    /\ UNCHANGED <<hlTSN, llPktSeq, hlPending, llAckCh, reqVars, chanVars, lives,
                   loopVars, cPc, received>>

\* main calls Reset only from Start and closes the NCP last, after Start has
\* returned; a second Close does nothing.
CloseBegin ==
    /\ cPc = "idle"
    /\ zPc \in {"idle", "failed"}
    /\ cPc' = "drain"
    /\ ClosePort
    /\ UNCHANGED <<hlTSN, llPktSeq, hlPending, llAckCh, reqVars, chanVars, lives,
                   loopVars, zPc, received>>

CloseDrained ==
    /\ cPc = "drain" /\ rlPc = "off"
    /\ cPc' = "clear"
    /\ UNCHANGED <<hlTSN, llPktSeq, hlPending, llAckCh, reqVars, chanVars, lifeVars,
                   loopVars, zPc, ncpVars, rx>>

CloseClearPending ==
    /\ cPc = "clear"
    /\ cPc' = "closed"
    /\ ClosePending
    /\ UNCHANGED <<hlTSN, llPktSeq, llAckCh, reqVars, resp, lifeVars, loopVars, zPc,
                   ncpVars, rx>>

-----------------------------------------------------------------------------
(* The coprocessor.                                                        *)

ncpRest == <<hlTSN, llPktSeq, hlPending, llAckCh, reqVars, chanVars, lifeVars,
             loopVars, callVars>>

\* It acknowledges a frame and will answer the request in it.
NcpReceive(r) ==
    /\ r \in tx /\ Len(rx) < RxCap
    /\ tx' = tx \ {r}
    /\ owed' = owed \cup {r} /\ received' = received \cup {r}
    /\ rx' = Append(rx, [kind |-> "ack", req |-> r])
    /\ UNCHANGED ncpRest

NcpAnswer(r) ==
    /\ r \in owed /\ Len(rx) < RxCap
    /\ owed' = owed \ {r}
    /\ rx' = Append(rx, [kind |-> "resp", req |-> r])
    /\ UNCHANGED <<tx, received, ncpRest>>

-----------------------------------------------------------------------------
RequestStep(r) ==
    \/ nextTSN(r) \/ Register(r) \/ Write(r) \/ TakeAck(r) \/ AckTimeout(r)
    \/ GiveUp(r) \/ Receive(r) \/ Return(r)

LoopStep == ReadGarbled \/ ReadAck \/ ReadResponse \/ ReadOrphan \/ SendResponse \/ LoopExit

ResetStep ==
    \/ ResetBegin \/ ResetDrained \/ ResetOpen \/ ResetGivesUp \/ ResetClearPending
    \/ ResetRestart \/ ResetProbed \/ ResetProbeFails

CloseStep == CloseBegin \/ CloseDrained \/ CloseClearPending

Next ==
    \/ \E r \in Req : RequestStep(r) \/ NcpReceive(r) \/ NcpAnswer(r)
    \/ LoopStep
    \/ ResetStep
    \/ CloseStep

Spec == Init /\ [][Next]_vars

\* readLoop is scheduled and sees that done is closed, and whoever called
\* Reset or Close goes on with it.  Nothing is assumed of the coprocessor.
FairSpec ==
    /\ Spec
    /\ WF_vars(SendResponse) /\ WF_vars(LoopExit)
    /\ WF_vars(ResetDrained \/ ResetOpen \/ ResetGivesUp \/ ResetClearPending
               \/ ResetRestart \/ ResetProbed \/ ResetProbeFails)
    /\ WF_vars(CloseDrained \/ CloseClearPending)

-----------------------------------------------------------------------------
(* Properties.                                                             *)

Waiting == {"write", "ack", "resp"}

\* No other request ever had the TSN of r (fewer than 256 requests since the
\* last reset, and no request from before it).
OnlyWithTsn(r) == \A q \in Req \ {r} : tsn[q] # tsn[r]

\* The Go runtime would panic: readLoop never sends a response on a channel
\* that a reset or Close has closed after the lookup, and neither of them
\* finds a channel in hlPending that is closed already.
NoChannelPanic ==
    /\ rlPc = "send" => ~closedCh[rlTo]
    /\ \A t \in Tsn : hlPending[t] # None => ~closedCh[hlPending[t]]

\* A request that waits with its TSN to itself can be found by readLoop, or
\* has been told: it has its response, or its channel is closed.  Nothing
\* else's return, reset or close takes its entry away silently.
WaiterRegistered ==
    \A r \in Req : pc[r] \in Waiting /\ OnlyWithTsn(r) =>
        hlPending[tsn[r]] = r \/ resp[r] # None \/ closedCh[r]

\* A request with its TSN to itself gets the response to itself, however late
\* or often responses come.
ResponseMatches ==
    \A r \in Req : resp[r] # None /\ OnlyWithTsn(r) => resp[r] = r

\* A request stops retransmitting only when the coprocessor has received, since
\* the port was opened, a frame with its packet number.  That is as much as a
\* 2-bit number can say: it is the request's own frame unless another one has
\* had the number since then; an ACK from before a reset never counts.
AckMeansReceived ==
    [][\A r \in Req : pc[r] # "resp" /\ pc'[r] = "resp" =>
           \E q \in received : seq[q] = seq[r]]_vars

\* Close returns: its wg.Wait is for a readLoop that nothing can block.
CloseReturns == cPc = "drain" ~> cPc = "closed"

\* So does every reset, with or without success.
ResetReturns == zPc = "drain" ~> zPc \in {"idle", "failed"}
=============================================================================
