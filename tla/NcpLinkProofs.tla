--------------------------- MODULE NcpLinkProofs ---------------------------
(***************************************************************************)
(* Proofs about NcpLink for every number of requests, TSNs, retries,       *)
(* resets and every capacity.                                              *)
(***************************************************************************)
EXTENDS NcpLink, TLAPS

-----------------------------------------------------------------------------
(* The inductive invariant.                                                *)

Started == {"new", "register"}   \* program points before the registration

\* A request has its TSN once it is past nextTSN; before it is registered
\* nothing refers to it: no channel of it is closed, no frame of it exists.
Numbered ==
    \A r \in Req :
        /\ tsn[r] = -1 <=> pc[r] = "new"
        /\ pc[r] \in Started => ~closedCh[r] /\ r \notin tx \cup owed \cup received

\* The table holds open channels of requests that have not returned, each
\* under its own TSN.
Registered ==
    \A t \in Tsn : hlPending[t] # None =>
        /\ tsn[hlPending[t]] = t
        /\ pc[hlPending[t]] \in {"write", "ack", "resp", "ret"}
        /\ ~closedCh[hlPending[t]]

\* Everything acknowledged or answered was received since the port was opened.
WireInv ==
    /\ owed \subseteq received
    /\ \A i \in 1 .. Len(rx) : rx[i].req \in received
    /\ \A i \in 1 .. Len(llAckCh) : llAckCh[i] \in received

\* A channel, and readLoop before it sends, hold an answer with the TSN of
\* the request they belong to.
AnswerInv ==
    /\ \A r \in Req : resp[r] # None => tsn[resp[r]] = tsn[r] /\ pc[r] # "new"
    /\ rlPc = "send" => /\ rlTo \in Req /\ rlResp \in Req
                        /\ tsn[rlResp] = tsn[rlTo] /\ pc[rlTo] # "new"

\* Nothing is on the wire while the port is closed, and it is when a reset
\* opens it.
PortInv ==
    /\ zPc \in {"drain", "open"} => ~portOpen
    /\ ~portOpen => tx = {} /\ owed = {} /\ rx = <<>>

\* In main's order of calls, readLoop is off whenever channels are closed.
QuietInv ==
    /\ cPc = "idle" \/ zPc \in {"idle", "failed"}
    /\ zPc \in {"open", "clear", "restart"} => rlPc = "off"
    /\ cPc \in {"clear", "closed"} => rlPc = "off"
    /\ rlPc = "send" => ~closedCh[rlTo]

IInv ==
    /\ TypeOK
    /\ Numbered
    /\ Registered
    /\ WireInv
    /\ AnswerInv
    /\ PortInv
    /\ QuietInv
    /\ WaiterRegistered

-----------------------------------------------------------------------------
(* Queues.                                                                 *)

\* Taking the head of a queue: what is left was in it.
LEMMA TailFacts ==
    ASSUME NEW S, NEW q \in Seq(S), q # <<>>
    PROVE  /\ Head(q) \in S /\ Tail(q) \in Seq(S)
           /\ Head(q) = q[1] /\ 1 \in 1 .. Len(q)
           /\ Len(Tail(q)) = Len(q) - 1
           /\ \A i \in 1 .. Len(Tail(q)) : i + 1 \in 1 .. Len(q) /\ Tail(q)[i] = q[i + 1]
  OBVIOUS

\* The empty queue.
LEMMA EmptyFacts == (\A S : <<>> \in Seq(S)) /\ Len(<<>>) = 0
  OBVIOUS

\* Appending to a queue: what is in it was there or is the new element.
LEMMA AppendFacts ==
    ASSUME NEW S, NEW q \in Seq(S), NEW x \in S
    PROVE  /\ Append(q, x) \in Seq(S)
           /\ \A i \in 1 .. Len(Append(q, x)) :
                 Append(q, x)[i] = x \/ (i \in 1 .. Len(q) /\ Append(q, x)[i] = q[i])
  OBVIOUS

-----------------------------------------------------------------------------
(* request() and writeWithACK().                                           *)

\* A request that only moves on between its registration and its return
\* preserves the invariant.
LEMMA MoveKeeps ==
    ASSUME IInv, NEW r \in Req, NEW from \in Waiting, NEW to \in Waiting \cup {"ret"},
           Goto(r, from, to),
           tx' = tx \/ (portOpen /\ tx' = tx \cup {r}),
           attempt' \in [Req -> 0 .. LLMaxRetries],
           llAckCh' \in Seq(Req),
           \A i \in 1 .. Len(llAckCh') : llAckCh'[i] \in received,
           UNCHANGED <<hlTSN, llPktSeq, hlPending, tsn, seq, chanVars, lifeVars,
                       loopVars, callVars, owed, received, rx>>
    PROVE  IInv'
<1>1. UNCHANGED <<hlTSN, llPktSeq, hlPending, tsn, seq, resp, closedCh, done, portOpen,
                  lives, rlPc, rlTo, rlResp, zPc, cPc, owed, received, rx>>
  BY DEF chanVars, lifeVars, loopVars, callVars
<1>2. pc[r] = from /\ pc' = [pc EXCEPT ![r] = to]
  BY DEF Goto
<1>3. TypeOK'
  BY <1>1, <1>2 DEF IInv, TypeOK, ReqPc, Waiting
<1>4. Numbered'
  BY <1>1, <1>2 DEF IInv, TypeOK, Numbered, Started, Waiting
<1>5. Registered'
  BY <1>1, <1>2 DEF IInv, TypeOK, Registered, Waiting
<1>6. WireInv'
  BY <1>1 DEF IInv, WireInv
<1>7. AnswerInv'
  BY <1>1, <1>2 DEF IInv, TypeOK, AnswerInv, Waiting
<1>8. PortInv'
  BY <1>1 DEF IInv, PortInv
<1>9. QuietInv'
  BY <1>1 DEF IInv, QuietInv
<1>10. WaiterRegistered'
  BY <1>1, <1>2 DEF IInv, TypeOK, WaiterRegistered, OnlyWithTsn, Waiting
<1>. QED
  BY <1>3, <1>4, <1>5, <1>6, <1>7, <1>8, <1>9, <1>10 DEF IInv

\* A step of request() preserves the invariant.
LEMMA RequestKeeps ==
    ASSUME IInv, NEW r \in Req, RequestStep(r)
    PROVE  IInv'
<1>. USE ModAssumption, NoneAssumption
<1>1. CASE nextTSN(r)
  <2>1. UNCHANGED <<llPktSeq, hlPending, llAckCh, seq, attempt, resp, closedCh, done,
                    portOpen, lives, rlPc, rlTo, rlResp, zPc, cPc, tx, owed,
                    received, rx>>
    BY <1>1 DEF nextTSN, chanVars, lifeVars, loopVars, callVars, ncpVars
  <2>2. /\ pc[r] = "new" /\ pc' = [pc EXCEPT ![r] = "register"]
        /\ hlTSN' = hlTSN + 1
        /\ tsn' = [tsn EXCEPT ![r] = (hlTSN + 1) % TsnMod]
    BY <1>1 DEF nextTSN, Goto
  <2>3. (hlTSN + 1) % TsnMod \in Tsn
    BY DEF IInv, TypeOK, Tsn
  <2>4. TypeOK'
    BY <2>1, <2>2, <2>3 DEF IInv, TypeOK, ReqPc
  <2>5. tsn[r] = -1 /\ -1 \notin Tsn /\ tsn'[r] \in Tsn
    BY <2>2, <2>3 DEF IInv, TypeOK, Numbered, Tsn
  <2>6. Numbered'
    BY <2>1, <2>2, <2>5 DEF IInv, TypeOK, Numbered, Started
  <2>7. Registered'
    BY <2>1, <2>2 DEF IInv, TypeOK, Registered
  <2>8. WireInv' /\ QuietInv'
    BY <2>1 DEF IInv, WireInv, QuietInv
  <2>9. AnswerInv'
    BY <2>1, <2>2, <2>5 DEF IInv, TypeOK, Numbered, AnswerInv
  <2>10. PortInv'
    BY <2>1 DEF IInv, PortInv
  <2>11. WaiterRegistered'
    BY <2>1, <2>2, <2>5 DEF IInv, TypeOK, Numbered, WaiterRegistered, OnlyWithTsn, Waiting
  <2>. QED
    BY <2>4, <2>6, <2>7, <2>8, <2>9, <2>10, <2>11 DEF IInv
<1>2. CASE Register(r)
  <2>1. UNCHANGED <<hlTSN, llAckCh, tsn, attempt, resp, closedCh, done, portOpen, lives,
                    rlPc, rlTo, rlResp, zPc, cPc, tx, owed, received, rx>>
    BY <1>2 DEF Register, chanVars, lifeVars, loopVars, callVars, ncpVars
  <2>2. /\ pc[r] = "register" /\ pc' = [pc EXCEPT ![r] = "write"]
        /\ hlPending' = [hlPending EXCEPT ![tsn[r]] = r]
        /\ llPktSeq' = (llPktSeq % 3) + 1
        /\ seq' = [seq EXCEPT ![r] = (llPktSeq % 3) + 1]
    BY <1>2 DEF Register, Goto
  <2>3. (llPktSeq % 3) + 1 \in 0 .. 3
    BY DEF IInv, TypeOK
  <2>4. tsn[r] \in Tsn /\ ~closedCh[r] /\ r \notin received
    BY <2>2 DEF IInv, TypeOK, Numbered, Started
  <2>5. TypeOK'
    BY <2>1, <2>2, <2>3 DEF IInv, TypeOK, ReqPc
  <2>6. Numbered'
    BY <2>1, <2>2 DEF IInv, TypeOK, Numbered, Started
  <2>7. Registered'
    BY <2>1, <2>2, <2>4 DEF IInv, TypeOK, Registered
  <2>8. WireInv' /\ QuietInv'
    BY <2>1 DEF IInv, WireInv, QuietInv
  <2>9. AnswerInv'
    BY <2>1, <2>2 DEF IInv, TypeOK, AnswerInv
  <2>10. PortInv'
    BY <2>1 DEF IInv, PortInv
  <2>11. WaiterRegistered'
    BY <2>1, <2>2, <2>4 DEF IInv, TypeOK, Numbered, WaiterRegistered, OnlyWithTsn, Waiting
  <2>. QED
    BY <2>5, <2>6, <2>7, <2>8, <2>9, <2>10, <2>11 DEF IInv
<1>. DEFINE Quiet == /\ attempt \in [Req -> 0 .. LLMaxRetries]
                     /\ llAckCh \in Seq(Req)
                     /\ \A i \in 1 .. Len(llAckCh) : llAckCh[i] \in received
<1>3. Quiet
  BY DEF IInv, TypeOK, WireInv
<1>4. CASE Write(r)
  <2>1. UNCHANGED <<hlTSN, llPktSeq, hlPending, tsn, seq, chanVars, lifeVars,
                    loopVars, callVars, owed, received, rx>> /\ UNCHANGED <<llAckCh, attempt>>
    BY <1>4 DEF Write
  <2>2. /\ Goto(r, "write", "ack") \/ Goto(r, "write", "ret")
        /\ tx' = tx \/ (portOpen /\ tx' = tx \cup {r})
    BY <1>4 DEF Write
  <2>. QED
    BY <1>3, <2>1, <2>2, MoveKeeps DEF Waiting
<1>5. CASE TakeAck(r)
  <2>1. UNCHANGED <<hlTSN, llPktSeq, hlPending, tsn, seq, chanVars, lifeVars,
                    loopVars, callVars, owed, received, rx>> /\ UNCHANGED <<tx, attempt>>
    BY <1>5 DEF TakeAck, ncpVars
  <2>2. llAckCh' \in Seq(Req) /\ \A i \in 1 .. Len(llAckCh') : llAckCh'[i] \in received
    BY <1>3, <1>5, TailFacts DEF TakeAck
  <2>3. Goto(r, "ack", "resp") \/ Goto(r, "ack", "ack")
    BY <1>5 DEF TakeAck, Goto, IInv, TypeOK
  <2>. QED
    BY <1>3, <2>1, <2>2, <2>3, MoveKeeps DEF Waiting
<1>6. CASE AckTimeout(r)
  <2>1. UNCHANGED <<hlTSN, llPktSeq, hlPending, tsn, seq, chanVars, lifeVars,
                    loopVars, callVars, owed, received, rx>> /\ UNCHANGED <<tx, llAckCh>>
    BY <1>6 DEF AckTimeout, ncpVars
  <2>2. attempt' \in [Req -> 0 .. LLMaxRetries]
    BY <1>3, <1>6 DEF AckTimeout
  <2>3. Goto(r, "ack", "write") \/ Goto(r, "ack", "ret")
    BY <1>6 DEF AckTimeout
  <2>. QED
    BY <1>3, <2>1, <2>2, <2>3, MoveKeeps DEF Waiting
<1>7. CASE GiveUp(r) \/ Receive(r)
  <2>1. UNCHANGED <<hlTSN, llPktSeq, hlPending, tsn, seq, chanVars, lifeVars,
                    loopVars, callVars, owed, received, rx>>
        /\ UNCHANGED <<tx, llAckCh, attempt>>
    BY <1>7 DEF GiveUp, Receive, ncpVars
  <2>2. Goto(r, "ack", "ret") \/ Goto(r, "resp", "ret")
    BY <1>7 DEF GiveUp, Receive
  <2>. QED
    BY <1>3, <2>1, <2>2, MoveKeeps DEF Waiting
<1>8. CASE Return(r)
  <2>1. UNCHANGED <<hlTSN, llPktSeq, llAckCh, tsn, seq, resp, closedCh, done, portOpen,
                    lives, rlPc, rlTo, rlResp, zPc, cPc, tx, owed, received, rx>>
    BY <1>8 DEF Return, chanVars, lifeVars, loopVars, callVars, ncpVars
  <2>2. /\ pc[r] = "ret" /\ pc' = [pc EXCEPT ![r] = "done"]
        /\ hlPending' = [hlPending EXCEPT ![tsn[r]] = None]
        /\ attempt' = [attempt EXCEPT ![r] = 0]
    BY <1>8 DEF Return, Goto
  <2>3. tsn[r] \in Tsn
    BY <2>2 DEF IInv, TypeOK, Numbered
  <2>4. TypeOK'
    <3>1. hlPending' \in [Tsn -> Req \cup {None}]
      BY <2>2 DEF IInv, TypeOK
    <3>2. 0 \in 0 .. LLMaxRetries
      BY ModAssumption
    <3>3. attempt' \in [Req -> 0 .. LLMaxRetries]
      BY <1>3, <2>2, <3>2
    <3>. QED
      BY <2>1, <2>2, <3>1, <3>3 DEF IInv, TypeOK, ReqPc
  <2>5. Numbered'
    BY <2>1, <2>2 DEF IInv, TypeOK, Numbered, Started
  <2>6. Registered'
    BY <2>1, <2>2, <2>3 DEF IInv, TypeOK, Registered
  <2>7. WireInv' /\ QuietInv'
    BY <2>1 DEF IInv, WireInv, QuietInv
  <2>8. AnswerInv' /\ PortInv'
    BY <2>1, <2>2 DEF IInv, TypeOK, AnswerInv, PortInv
  <2>9. WaiterRegistered'
    BY <2>1, <2>2, <2>3 DEF IInv, TypeOK, Numbered, WaiterRegistered, OnlyWithTsn, Waiting
  <2>. QED
    BY <2>4, <2>5, <2>6, <2>7, <2>8, <2>9 DEF IInv
<1>. QED
  BY <1>1, <1>2, <1>4, <1>5, <1>6, <1>7, <1>8 DEF RequestStep

-----------------------------------------------------------------------------
(* readLoop() and the coprocessor.                                         *)

\* A step of readLoop preserves the invariant.
LEMMA LoopKeeps ==
    ASSUME IInv, LoopStep
    PROVE  IInv'
<1>. USE NoneAssumption
<1>1. UNCHANGED <<hlTSN, llPktSeq, hlPending, pc, tsn, seq, attempt, closedCh, done,
                  portOpen, lives, zPc, cPc, tx, owed, received>>
  BY DEF LoopStep, ReadGarbled, ReadAck, ReadResponse, ReadOrphan, SendResponse, LoopExit,
         loopRest, reqVars, lifeVars, callVars, ncpVars
<1>2. Numbered' /\ Registered'
  BY <1>1 DEF IInv, Numbered, Registered
<1>3. rx \in Seq(Frame) /\ \A f \in Frame : f.req \in Req
  BY DEF IInv, TypeOK, Frame
\* The steps that take a frame from the wire.
<1>4. CASE ReadGarbled \/ ReadAck \/ ReadOrphan
  <2>1. UNCHANGED <<resp, rlPc, rlTo, rlResp>> /\ rx # <<>> /\ rx' = Tail(rx)
    BY <1>4 DEF ReadGarbled, ReadAck, ReadOrphan, loopVars
  <2>2. /\ Head(rx) \in Frame /\ Head(rx).req \in received /\ rx' \in Seq(Frame)
        /\ \A i \in 1 .. Len(rx') : rx'[i].req \in received
    BY <1>3, <2>1, TailFacts DEF IInv, WireInv
  <2>3. llAckCh' \in Seq(Req) /\ \A i \in 1 .. Len(llAckCh') : llAckCh'[i] \in received
    <3>1. llAckCh' = llAckCh \/ llAckCh' = Append(llAckCh, Head(rx).req)
      BY <1>4 DEF ReadGarbled, ReadAck, ReadOrphan
    <3>2. CASE llAckCh' = llAckCh
      BY <3>2 DEF IInv, TypeOK, WireInv
    <3>3. CASE llAckCh' = Append(llAckCh, Head(rx).req)
      <4>1. Head(rx).req \in Req /\ llAckCh \in Seq(Req)
        BY <1>3, <2>2 DEF IInv, TypeOK
      <4>. QED
        BY <2>2, <3>3, <4>1, AppendFacts DEF IInv, WireInv
    <3>. QED
      BY <3>1, <3>2, <3>3
  <2>4. TypeOK' /\ WireInv'
    BY <1>1, <2>1, <2>2, <2>3 DEF IInv, TypeOK, WireInv
  <2>5. AnswerInv' /\ QuietInv' /\ PortInv' /\ WaiterRegistered'
    BY <1>1, <2>1 DEF IInv, AnswerInv, QuietInv, PortInv, WaiterRegistered, OnlyWithTsn
  <2>. QED
    BY <1>2, <2>4, <2>5 DEF IInv
<1>5. CASE ReadResponse
  <2>. DEFINE q == Head(rx).req
  <2>1. /\ UNCHANGED <<llAckCh, resp>> /\ rx # <<>> /\ rx' = Tail(rx)
        /\ rlPc = "read" /\ hlPending[tsn[q]] # None
        /\ rlPc' = "send" /\ rlTo' = hlPending[tsn[q]] /\ rlResp' = q
    BY <1>5 DEF ReadResponse
  <2>2. /\ q \in Req /\ q \in received /\ rx' \in Seq(Frame)
        /\ \A i \in 1 .. Len(rx') : rx'[i].req \in received
    BY <1>3, <2>1, TailFacts DEF IInv, WireInv
  <2>3. tsn[q] \in Tsn
    BY <2>2 DEF IInv, TypeOK, Numbered, Started
  <2>4. /\ hlPending[tsn[q]] \in Req /\ tsn[hlPending[tsn[q]]] = tsn[q]
        /\ pc[hlPending[tsn[q]]] # "new" /\ ~closedCh[hlPending[tsn[q]]]
    <3>1. Registered /\ hlPending \in [Tsn -> Req \cup {None}]
      BY DEF IInv, TypeOK
    <3>. HIDE DEF q
    <3>. QED
      BY <2>1, <2>3, <3>1 DEF Registered
  <2>5. TypeOK' /\ WireInv'
    BY <1>1, <2>1, <2>2, <2>4 DEF IInv, TypeOK, WireInv
  <2>6. AnswerInv'
    BY <1>1, <2>1, <2>2, <2>4 DEF IInv, AnswerInv
  \* readLoop was running, so nobody is closing channels.
  <2>7. QuietInv' /\ PortInv'
    BY <1>1, <2>1, <2>4 DEF IInv, QuietInv, PortInv
  <2>8. WaiterRegistered'
    BY <1>1, <2>1 DEF IInv, WaiterRegistered, OnlyWithTsn
  <2>. QED
    BY <1>2, <2>5, <2>6, <2>7, <2>8 DEF IInv
<1>6. CASE SendResponse
  <2>1. /\ UNCHANGED <<llAckCh, rx>>
        /\ rlPc = "send" /\ rlPc' = "read" /\ rlTo' = None /\ rlResp' = None
        /\ resp' = IF resp[rlTo] = None THEN [resp EXCEPT ![rlTo] = rlResp] ELSE resp
    BY <1>6 DEF SendResponse
  <2>2. /\ rlTo \in Req /\ rlResp \in Req
        /\ tsn[rlResp] = tsn[rlTo] /\ pc[rlTo] # "new"
    BY <2>1 DEF IInv, AnswerInv
  <2>3. TypeOK' /\ WireInv'
    BY <1>1, <2>1, <2>2 DEF IInv, TypeOK, WireInv
  <2>4. AnswerInv'
    BY <1>1, <2>1, <2>2 DEF IInv, TypeOK, AnswerInv
  <2>5. QuietInv' /\ PortInv'
    BY <1>1, <2>1 DEF IInv, QuietInv, PortInv
  <2>6. WaiterRegistered'
    BY <1>1, <2>1, <2>2 DEF IInv, TypeOK, WaiterRegistered, OnlyWithTsn
  <2>. QED
    BY <1>2, <2>3, <2>4, <2>5, <2>6 DEF IInv
<1>7. CASE LoopExit
  <2>1. UNCHANGED <<llAckCh, rlTo, rlResp, rx, resp>> /\ rlPc = "read" /\ rlPc' = "off"
    BY <1>7 DEF LoopExit
  <2>. QED
    BY <1>1, <1>2, <2>1 DEF IInv, TypeOK, WireInv, AnswerInv, QuietInv, PortInv,
                            WaiterRegistered, OnlyWithTsn
<1>. QED
  BY <1>4, <1>5, <1>6, <1>7 DEF LoopStep

\* A step of the coprocessor preserves the invariant.
LEMMA NcpKeeps ==
    ASSUME IInv, NEW r \in Req, NcpReceive(r) \/ NcpAnswer(r)
    PROVE  IInv'
<1>1. UNCHANGED <<hlTSN, llPktSeq, hlPending, llAckCh, pc, tsn, seq, attempt, resp,
                  closedCh, done, portOpen, lives, rlPc, rlTo, rlResp, zPc, cPc>>
  BY DEF NcpReceive, NcpAnswer, ncpRest, reqVars, chanVars, lifeVars, loopVars, callVars
<1>2. /\ tx' \subseteq tx /\ received \subseteq received' /\ r \in received'
      /\ owed' \subseteq received' /\ received' \subseteq received \cup tx
  BY DEF NcpReceive, NcpAnswer, IInv, WireInv
<1>3. rx' \in Seq(Frame) /\ \A i \in 1 .. Len(rx') : rx'[i].req \in received'
  <2>1. PICK k \in {"ack", "resp"} : rx' = Append(rx, [kind |-> k, req |-> r])
    BY DEF NcpReceive, NcpAnswer
  <2>2. [kind |-> k, req |-> r] \in Frame /\ [kind |-> k, req |-> r].req = r
    BY DEF Frame
  <2>. QED
    BY <1>2, <2>1, <2>2, AppendFacts DEF IInv, TypeOK, WireInv
<1>4. TypeOK' /\ WireInv'
  BY <1>1, <1>2, <1>3 DEF IInv, TypeOK, WireInv
<1>5. Numbered'
  BY <1>1, <1>2 DEF IInv, Numbered, WireInv
<1>6. Registered' /\ AnswerInv' /\ QuietInv' /\ WaiterRegistered'
  BY <1>1 DEF IInv, Registered, AnswerInv, QuietInv, WaiterRegistered, OnlyWithTsn
\* There is something on the wire, so the port is open.
<1>7. PortInv'
  BY <1>1 DEF IInv, PortInv, NcpReceive, NcpAnswer
<1>. QED
  BY <1>4, <1>5, <1>6, <1>7 DEF IInv

-----------------------------------------------------------------------------
(* resetAndReconnect() and Close().                                        *)

\* A step of a reset or of Close that leaves requests and channels alone
\* preserves the invariant, if readLoop and the wire are as QuietInv and
\* PortInv want them afterwards.
LEMMA CallKeeps ==
    ASSUME IInv, QuietInv', PortInv',
           hlTSN' \in Nat, llPktSeq' \in 0 .. 3, lives' \in Nat,
           done' \in BOOLEAN, portOpen' \in BOOLEAN,
           zPc' \in ResetPc, cPc' \in ClosePc, rlPc' \in {"read", "off", rlPc},
           llAckCh' \in {llAckCh, <<>>}, rx' \in {rx, <<>>},
           tx' \in {tx, {}}, owed' \in {owed, {}},
           \/ received' = received
           \/ received' = {} /\ owed' = {} /\ rx' = <<>> /\ llAckCh' = <<>>,
           UNCHANGED <<hlPending, pc, tsn, seq, attempt, resp, closedCh, rlTo, rlResp>>
    PROVE  IInv'
<1>1. TypeOK'
  <2>0. llAckCh \in Seq(Req) /\ rx \in Seq(Frame)
    BY DEF IInv, TypeOK
  <2>1. llAckCh' \in Seq(Req)
    BY <2>0, EmptyFacts
  <2>2. rx' \in Seq(Frame)
    BY <2>0, EmptyFacts
  <2>3. tx' \subseteq Req /\ owed' \subseteq Req /\ received' \subseteq Req
    BY DEF IInv, TypeOK
  <2>4. rlPc' \in {"read", "send", "off"}
    BY DEF IInv, TypeOK
  <2>. QED
    BY <2>1, <2>2, <2>3, <2>4 DEF IInv, TypeOK
<1>2. WireInv'
  BY EmptyFacts DEF IInv, WireInv
<1>3. Numbered' /\ Registered'
  BY DEF IInv, Numbered, Registered
<1>4. AnswerInv'
  BY DEF IInv, AnswerInv
<1>5. WaiterRegistered'
  BY DEF IInv, WaiterRegistered, OnlyWithTsn
<1>. QED
  BY <1>1, <1>2, <1>3, <1>4, <1>5 DEF IInv

\* Closing every registered channel and emptying the table preserves the
\* invariant when readLoop is not about to send.
LEMMA ClosePendingKeeps ==
    ASSUME IInv, ClosePending, QuietInv', PortInv', zPc' \in ResetPc, cPc' \in ClosePc,
           UNCHANGED <<hlTSN, llPktSeq, llAckCh, pc, tsn, seq, attempt, resp, done, portOpen,
                       lives, rlPc, rlTo, rlResp, tx, owed, received, rx>>
    PROVE  IInv'
<1>1. hlPending' = [t \in Tsn |-> None]
  BY DEF ClosePending
<1>2. closedCh' \in [Req -> BOOLEAN]
  BY DEF ClosePending
<1>3. ASSUME NEW r \in Req
      PROVE  closedCh'[r] <=> closedCh[r] \/ \E t \in Tsn : hlPending[t] = r
  BY Zenon DEF ClosePending
<1>4. TypeOK'
  BY <1>1, <1>2 DEF IInv, TypeOK
<1>5. Numbered'
  <2>. SUFFICES ASSUME NEW r \in Req, pc[r] \in Started
                PROVE  ~closedCh'[r]
    BY DEF IInv, Numbered
  <2>1. ~closedCh[r]
    BY DEF IInv, Numbered
  <2>2. ASSUME NEW t \in Tsn PROVE hlPending[t] # r
    BY NoneAssumption DEF IInv, Registered, Started
  <2>. QED
    BY <1>3, <2>1, <2>2, Zenon
<1>6. Registered' /\ WireInv' /\ AnswerInv'
  BY <1>1 DEF IInv, Registered, WireInv, AnswerInv
<1>7. WaiterRegistered'
  <2>. SUFFICES ASSUME NEW r \in Req, pc[r] \in Waiting, OnlyWithTsn(r)
                PROVE  resp[r] # None \/ closedCh'[r]
    BY DEF WaiterRegistered, OnlyWithTsn
  <2>1. hlPending[tsn[r]] = r \/ resp[r] # None \/ closedCh[r]
    BY DEF IInv, WaiterRegistered
  <2>2. tsn[r] \in Tsn
    BY DEF IInv, TypeOK, Numbered, Waiting
  <2>. QED
    BY <1>3, <2>1, <2>2, Zenon
<1>. QED
  BY <1>4, <1>5, <1>6, <1>7 DEF IInv

\* A step of a reset or of Close preserves the invariant.
LEMMA CallsKeep ==
    ASSUME IInv, ResetStep \/ CloseStep
    PROVE  IInv'
<1>. USE DEF reqVars, chanVars, lifeVars, loopVars, ncpVars, ResetPc, ClosePc
<1>1. TypeOK /\ QuietInv /\ PortInv
  BY DEF IInv
<1>2. CASE ResetBegin
  <2>1. QuietInv' /\ PortInv'
    BY <1>1, <1>2 DEF ResetBegin, ClosePort, QuietInv, PortInv
  <2>2. hlTSN' \in Nat
    BY <1>1, <1>2 DEF ResetBegin, TypeOK
  <2>. QED
    BY <1>1, <1>2, <2>1, <2>2, CallKeeps DEF ResetBegin, ClosePort, TypeOK
<1>3. CASE ResetDrained
  BY <1>1, <1>3, CallKeeps DEF ResetDrained, TypeOK, QuietInv, PortInv
<1>4. CASE ResetOpen
  <2>1. QuietInv' /\ PortInv' /\ owed = {} /\ rx = <<>>
    BY <1>1, <1>4 DEF ResetOpen, QuietInv, PortInv
  <2>2. lives' \in Nat
    BY <1>1, <1>4 DEF ResetOpen, TypeOK
  <2>. QED
    BY <1>1, <1>4, <2>1, <2>2, CallKeeps DEF ResetOpen, TypeOK
<1>5. CASE ResetGivesUp
  BY <1>1, <1>5, CallKeeps DEF ResetGivesUp, TypeOK, QuietInv, PortInv
<1>6. CASE ResetClearPending
  <2>1. QuietInv' /\ PortInv' /\ rlPc # "send" /\ zPc' \in ResetPc
    BY <1>1, <1>6 DEF ResetClearPending, QuietInv, PortInv
  <2>. QED
    BY <1>1, <1>6, <2>1, ClosePendingKeeps DEF ResetClearPending, TypeOK
<1>7. CASE ResetRestart
  BY <1>1, <1>7, CallKeeps DEF ResetRestart, TypeOK, QuietInv, PortInv
<1>8. CASE ResetProbed
  BY <1>1, <1>8, CallKeeps DEF ResetProbed, TypeOK, QuietInv, PortInv
<1>9. CASE ResetProbeFails
  BY <1>1, <1>9, CallKeeps DEF ResetProbeFails, ClosePort, TypeOK, QuietInv, PortInv
<1>10. CASE CloseBegin
  BY <1>1, <1>10, CallKeeps DEF CloseBegin, ClosePort, TypeOK, QuietInv, PortInv
<1>11. CASE CloseDrained
  BY <1>1, <1>11, CallKeeps DEF CloseDrained, TypeOK, QuietInv, PortInv
<1>12. CASE CloseClearPending
  <2>1. QuietInv' /\ PortInv' /\ rlPc # "send" /\ cPc' \in ClosePc
    BY <1>1, <1>12 DEF CloseClearPending, QuietInv, PortInv
  <2>. QED
    BY <1>1, <1>12, <2>1, ClosePendingKeeps DEF CloseClearPending, TypeOK
<1>. QED
  BY <1>2, <1>3, <1>4, <1>5, <1>6, <1>7, <1>8, <1>9, <1>10, <1>11, <1>12
     DEF ResetStep, CloseStep

-----------------------------------------------------------------------------
\* The invariant holds in every reachable state.
THEOREM Invariant == Spec => []IInv
<1>1. Init => IInv
  <2>. SUFFICES ASSUME Init PROVE IInv
    OBVIOUS
  <2>1. TypeOK
    <3>1. llAckCh \in Seq(Req) /\ rx \in Seq(Frame)
      BY EmptyFacts DEF Init
    <3>2. 0 \in 0 .. LLMaxRetries
      BY ModAssumption
    <3>3. attempt \in [Req -> 0 .. LLMaxRetries]
      BY <3>2 DEF Init
    <3>4. tsn \in [Req -> Tsn \cup {-1}] /\ hlPending \in [Tsn -> Req \cup {None}]
      BY DEF Init
    <3>5. pc \in [Req -> ReqPc] /\ seq \in [Req -> 0 .. 3] /\ resp \in [Req -> Req \cup {None}]
      BY DEF Init, ReqPc
    <3>6. /\ closedCh \in [Req -> BOOLEAN]
          /\ done \in BOOLEAN /\ portOpen \in BOOLEAN
      BY DEF Init
    <3>7. /\ hlTSN \in Nat /\ llPktSeq \in 0 .. 3 /\ lives \in Nat
          /\ rlPc \in {"read", "send", "off"} /\ zPc \in ResetPc /\ cPc \in ClosePc
          /\ rlTo \in Req \cup {None} /\ rlResp \in Req \cup {None}
      BY DEF Init, ResetPc, ClosePc
    <3>8. tx \subseteq Req /\ owed \subseteq Req /\ received \subseteq Req
      BY DEF Init
    <3>. QED
      BY <3>1, <3>3, <3>4, <3>5, <3>6, <3>7, <3>8 DEF TypeOK
  <2>2. Numbered /\ Registered /\ WireInv /\ AnswerInv /\ PortInv /\ QuietInv
    BY DEF Init, Numbered, Registered, WireInv, AnswerInv, PortInv, QuietInv, Started
  <2>3. WaiterRegistered
    BY DEF Init, WaiterRegistered, Waiting
  <2>. QED
    BY <2>1, <2>2, <2>3 DEF IInv
<1>2. IInv /\ [Next]_vars => IInv'
  <2>. SUFFICES ASSUME IInv, [Next]_vars PROVE IInv'
    OBVIOUS
  <2>1. CASE UNCHANGED vars
    BY <2>1 DEF vars, reqVars, chanVars, lifeVars, loopVars, callVars, ncpVars, IInv,
                TypeOK, Numbered, Registered, WireInv, AnswerInv, PortInv, QuietInv,
                WaiterRegistered, OnlyWithTsn
  <2>. QED
    BY <2>1, RequestKeeps, LoopKeeps, NcpKeeps, CallsKeep DEF Next
<1>. QED
  BY <1>1, <1>2, PTL DEF Spec

\* Every variable keeps its type.
THEOREM TypeCorrect == Spec => []TypeOK
<1>1. IInv => TypeOK
  BY DEF IInv
<1>. QED
  BY <1>1, Invariant, PTL

\* readLoop never sends on a closed channel and no channel is closed twice:
\* in main's order of calls the wg.Wait of Reset and of Close is enough, whatever requests, ACKs, answers and losses come between.
THEOREM ChannelsSafe == Spec => []NoChannelPanic
<1>1. IInv => NoChannelPanic
  BY DEF IInv, NoChannelPanic, Registered, QuietInv
<1>. QED
  BY <1>1, Invariant, PTL

\* No request that waits alone on its TSN loses its entry silently.
THEOREM WaitersReachable == Spec => []WaiterRegistered
<1>1. IInv => WaiterRegistered
  BY DEF IInv
<1>. QED
  BY <1>1, Invariant, PTL

\* A request alone on its TSN is never given another one's response.
THEOREM ResponsesMatch == Spec => []ResponseMatches
<1>1. IInv => ResponseMatches
  <2>. SUFFICES ASSUME IInv, NEW r \in Req, resp[r] # None, OnlyWithTsn(r)
                PROVE  resp[r] = r
    BY DEF ResponseMatches
  <2>1. resp[r] \in Req /\ tsn[resp[r]] = tsn[r]
    BY DEF IInv, TypeOK, AnswerInv
  <2>. QED
    BY <2>1 DEF OnlyWithTsn
<1>. QED
  BY <1>1, Invariant, PTL

\* However often the packet numbers come round, and whatever ACKs are lost,
\* late or repeated: a request stops retransmitting only in a step that finds a
\* frame with its packet number among those the coprocessor has received since
\* the port was opened.
THEOREM AcksHonest == Spec => AckMeansReceived
<1>. DEFINE Honest == \A r \in Req : pc[r] # "resp" /\ pc'[r] = "resp" =>
                         \E q \in received : seq[q] = seq[r]
\* Only TakeAck makes a request wait for its response.
<1>1. ASSUME Next, NEW r \in Req, pc[r] # "resp", pc'[r] = "resp", TypeOK
      PROVE  TakeAck(r)
  <2>1. ASSUME NEW q \in Req, RequestStep(q) PROVE TakeAck(r)
    <3>1. CASE nextTSN(q)
      BY <1>1, <3>1 DEF nextTSN, Goto, TypeOK
    <3>2. CASE Register(q)
      BY <1>1, <3>2 DEF Register, Goto, TypeOK
    <3>3. CASE Write(q)
      BY <1>1, <3>3 DEF Write, Goto, TypeOK
    <3>4. CASE TakeAck(q)
      <4>1. q = r
        BY <1>1, <3>4 DEF TakeAck, Goto, TypeOK
      <4>. QED
        BY <3>4, <4>1
    <3>5. CASE AckTimeout(q)
      BY <1>1, <3>5 DEF AckTimeout, Goto, TypeOK
    <3>6. CASE GiveUp(q) \/ Receive(q)
      BY <1>1, <3>6 DEF GiveUp, Receive, Goto, TypeOK
    <3>7. CASE Return(q)
      BY <1>1, <3>7 DEF Return, Goto, TypeOK
    <3>. QED
      BY <2>1, <3>1, <3>2, <3>3, <3>4, <3>5, <3>6, <3>7 DEF RequestStep
  <2>2. CASE \E q \in Req : NcpReceive(q) \/ NcpAnswer(q)
    BY <1>1, <2>2 DEF NcpReceive, NcpAnswer, ncpRest, reqVars
  <2>3. CASE LoopStep
    BY <1>1, <2>3 DEF LoopStep, ReadGarbled, ReadAck, ReadResponse, ReadOrphan,
                      SendResponse, LoopExit, loopRest, reqVars
  <2>4. CASE ResetStep
    BY <1>1, <2>4 DEF ResetStep, ResetBegin, ResetDrained, ResetOpen, ResetGivesUp,
                      ResetClearPending, ResetRestart, ResetProbed, ResetProbeFails, reqVars
  <2>5. CASE CloseStep
    BY <1>1, <2>5 DEF CloseStep, CloseBegin, CloseDrained, CloseClearPending, reqVars
  <2>. QED
    BY <1>1, <2>1, <2>2, <2>3, <2>4, <2>5 DEF Next
<1>2. ASSUME IInv, Next PROVE Honest
  <2>. SUFFICES ASSUME NEW r \in Req, pc[r] # "resp", pc'[r] = "resp"
                PROVE  \E q \in received : seq[q] = seq[r]
    OBVIOUS
  <2>1. TakeAck(r) /\ TypeOK /\ WireInv
    BY <1>1, <1>2 DEF IInv
  <2>2. llAckCh # <<>> /\ seq[Head(llAckCh)] = seq[r]
    BY <2>1 DEF TakeAck
  <2>3. Head(llAckCh) \in received
    BY <2>1, <2>2, TailFacts DEF WireInv, TypeOK
  <2>. QED
    BY <2>2, <2>3
<1>3. IInv /\ [Next]_vars => [Honest]_vars
  BY <1>2
<1>4. [][Honest]_vars => AckMeansReceived
  BY PTL DEF AckMeansReceived
<1>. QED
  BY <1>3, <1>4, Invariant, PTL DEF Spec
=============================================================================
