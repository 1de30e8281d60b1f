-------------------------- MODULE BulkTransportProofs --------------------------
(***************************************************************************)
(* Proofs about BulkTransport, for every set of requests and packet sizes  *)
(* and every number of commands and runs.                                  *)
(***************************************************************************)
EXTENDS BulkTransport, TLAPS, SequenceTheorems

-----------------------------------------------------------------------------
(* What reading and writing a pipe does to it.                             *)

(* The pipe after its first message was read.                              *)
LEMMA TailFacts ==
    ASSUME NEW S, NEW s \in Seq(S), s # <<>>
    PROVE  /\ Len(s) \in Nat /\ Len(s) >= 1
           /\ Head(s) = s[1] /\ Head(s) \in S
           /\ Tail(s) \in Seq(S)
           /\ Len(Tail(s)) = Len(s) - 1
           /\ \A i \in 1..Len(Tail(s)) : Tail(s)[i] = s[i+1]
  BY HeadTailProperties, EmptySeq, LenProperties

(* The pipe after a message was written.                                   *)
LEMMA AppendFacts ==
    ASSUME NEW S, NEW s \in Seq(S), NEW e \in S
    PROVE  /\ Len(s) \in Nat
           /\ Append(s, e) \in Seq(S)
           /\ Append(s, e) # <<>>
           /\ Len(Append(s, e)) = Len(s) + 1
           /\ \A i \in 1..Len(s) : Append(s, e)[i] = s[i]
           /\ Append(s, e)[Len(s) + 1] = e
  BY AppendProperties, LenProperties

(* The messages are typed.                                                 *)
LEMMA MessageTypes ==
    /\ NoCommand \in Commands
    /\ NoMessage \in InMessages
    /\ IdleDevice \in [phase : {"idle", "exec", "status"},
                       of : Commands, took : BOOLEAN]
    /\ \A c \in Commands : Cbw(c) \in OutMessages /\ DataOut(c) \in OutMessages
    /\ \A c \in Commands, s \in Nat : DataIn(c, s) \in InMessages
    /\ \A c \in Commands, ok \in BOOLEAN : Csw(c, ok) \in InMessages
  BY DEF NoCommand, Commands, NoMessage, InMessages, IdleDevice, Cbw, DataOut,
         OutMessages, DataIn, Csw, CswSize

-----------------------------------------------------------------------------
(* Type correctness.                                                       *)
LEMMA TypeInit == Init => TypeOK
<1> SUFFICES ASSUME Init PROVE TypeOK
  OBVIOUS
<1>1. <<>> \in Seq(OutMessages) /\ <<>> \in Seq(InMessages)
  BY EmptySeq
<1>2. run \in 1..MaxRun /\ tag \in 0..MaxTag
  BY BoundsAssumption DEF Init
<1>3. cmd \in Commands /\ buf \in InMessages /\ csw \in InMessages
  BY MessageTypes DEF Init
<1>4. dev \in [phase : {"idle", "exec", "status"}, of : Commands, took : BOOLEAN]
  BY MessageTypes DEF Init
<1> QED BY <1>1, <1>2, <1>3, <1>4 DEF Init, TypeOK

LEMMA TypeNext == TypeOK /\ [RerunNext]_vars => TypeOK'
<1> SUFFICES ASSUME TypeOK, [RerunNext]_vars PROVE TypeOK'
  OBVIOUS
<1> USE DEF TypeOK
<1>1. ASSUME NEW r \in Requests, Start(r) PROVE TypeOK'
  <2>1. cmd' \in Commands
    BY <1>1, RequestsAssumption DEF Start, Commands
  <2>2. tag' \in 0..MaxTag
    BY <1>1, BoundsAssumption DEF Start
  <2> QED BY <1>1, <2>1, <2>2, MessageTypes DEF Start
<1>2. CASE SendCbw
  <2>1. devq' \in Seq(OutMessages)
    <3>1. devq' = devq \/ devq' = Append(devq, Cbw(cmd))
      BY <1>2 DEF SendCbw, Transmit
    <3>2. Cbw(cmd) \in OutMessages /\ devq \in Seq(OutMessages)
      BY MessageTypes
    <3>3. Append(devq, Cbw(cmd)) \in Seq(OutMessages)
      BY <3>2, AppendFacts
    <3> QED BY <3>1, <3>2, <3>3
  <2> QED BY <1>2, <2>1 DEF SendCbw, Return, Goto
<1>3. CASE SendData
  <2>1. devq' \in Seq(OutMessages)
    <3>1. devq' = devq \/ devq' = Append(devq, DataOut(cmd))
      BY <1>3 DEF SendData, Transmit
    <3>2. DataOut(cmd) \in OutMessages /\ devq \in Seq(OutMessages)
      BY MessageTypes
    <3>3. Append(devq, DataOut(cmd)) \in Seq(OutMessages)
      BY <3>2, AppendFacts
    <3> QED BY <3>1, <3>2, <3>3
  <2> QED BY <1>3, <2>1 DEF SendData, Return, Goto
<1>4. CASE RecvData
  <2>1. Head(inq) \in InMessages /\ inq' \in Seq(InMessages)
    BY <1>4, TailFacts DEF RecvData, Receive
  <2> QED BY <1>4, <2>1 DEF RecvData, Return, Goto
<1>5. CASE RecvCsw
  <2>1. Head(inq) \in InMessages /\ inq' \in Seq(InMessages)
    BY <1>5, TailFacts DEF RecvCsw, Receive
  <2> QED BY <1>5, <2>1 DEF RecvCsw, Return
<1>6. CASE RecvFails
  <2>2. inq' = inq \/ (inq # <<>> /\ inq' = Tail(inq))
    BY <1>6 DEF RecvFails, ReceiveFails
  <2>3. inq \in Seq(InMessages)
    OBVIOUS
  <2>4. inq # <<>> => Tail(inq) \in Seq(InMessages)
    BY <2>3, TailFacts
  <2>1. inq' \in Seq(InMessages)
    BY <2>2, <2>3, <2>4
  <2> QED BY <1>6, <2>1 DEF RecvFails, Return
<1>7. CASE DevTakeCbw
  <2>1. Head(devq) \in OutMessages /\ devq' \in Seq(OutMessages)
    BY <1>7, TailFacts DEF DevTakeCbw
  <2> QED BY <1>7, <2>1 DEF DevTakeCbw, host, OutMessages
<1>8. CASE DevDropData
  <2>1. devq' \in Seq(OutMessages)
    BY <1>8, TailFacts DEF DevDropData
  <2> QED BY <1>8, <2>1 DEF DevDropData, host
<1>9. ASSUME NEW s \in Sizes, DevSendData(s) PROVE TypeOK'
  <2>1. inq' \in Seq(InMessages)
    BY <1>9, MessageTypes, AppendFacts, SizesAssumption DEF DevSendData
  <2> QED BY <1>9, <2>1 DEF DevSendData, host
<1>10. CASE DevTakeData
  <2>1. devq' \in Seq(OutMessages)
    BY <1>10, TailFacts DEF DevTakeData
  <2> QED BY <1>10, <2>1 DEF DevTakeData, host
<1>11. CASE DevSkipData \/ DevStall
  BY <1>11 DEF DevSkipData, DevStall, host
<1>12. ASSUME NEW ok \in BOOLEAN, DevStatus(ok) PROVE TypeOK'
  <2>1. inq' \in Seq(InMessages)
    BY <1>12, MessageTypes, AppendFacts DEF DevStatus
  <2>2. log' \subseteq [of : Commands, ok : BOOLEAN, took : BOOLEAN]
    BY <1>12 DEF DevStatus
  <2> QED BY <1>12, <2>1, <2>2, MessageTypes DEF DevStatus, host
<1>15. CASE ClearHalt
  BY <1>15 DEF ClearHalt, Return
<1>13. CASE Rerun
  <2>1. run' \in 1..MaxRun /\ tag' \in 0..MaxTag
    BY <1>13, BoundsAssumption DEF Rerun
  <2>2. buf' \in InMessages /\ csw' \in InMessages
    BY <1>13, MessageTypes DEF Rerun
  <2> QED BY <1>13, <2>1, <2>2 DEF Rerun
<1>14. CASE UNCHANGED vars
  BY <1>14 DEF vars
<1> QED
  BY <1>1, <1>2, <1>3, <1>4, <1>5, <1>6, <1>7, <1>8, <1>9, <1>10, <1>11,
     <1>12, <1>13, <1>14, <1>15 DEF RerunNext, Next, Call, HostStep, DeviceStep

(* Every variable of the transport keeps its type over any number of runs  *)
(* of the program.                                                         *)
THEOREM TypeCorrect == RerunSpec => []TypeOK
  BY TypeInit, TypeNext, PTL DEF RerunSpec

-----------------------------------------------------------------------------
(* Data and status travel in pairs.  The device puts the status of a       *)
(* command right behind its data, so after a data phase took the data of   *)
(* some command, the status of that same command is the next message.      *)

(* The device has still to send the status of c, and nothing before it.    *)
Owes(c) == dev.phase = "status" /\ dev.of = c

(* The message behind position i of the IN pipe is the status of c.        *)
StatusBehind(i, c) ==
    IF i < Len(inq) THEN inq[i+1].kind = "csw" /\ inq[i+1].of = c ELSE Owes(c)

PairInv ==
    /\ \A i \in 1..Len(inq) :
           /\ inq[i].kind \in {"data", "csw"}
           /\ inq[i].kind = "csw" => inq[i].size = CswSize
    /\ \A i \in 1..Len(inq) :
           inq[i].kind = "data" => StatusBehind(i, inq[i].of)
    /\ pc = "csw" /\ buf.kind = "data" => StatusBehind(0, buf.of)

(* What a call in progress, and one that has returned, know.               *)
CallInv ==
    /\ pc # "idle" => result = "none"
    /\ pc \in {"cbw", "data"} => buf = NoMessage
    /\ pc = "csw" /\ cmd.dir = "in" /\ cmd.len > 0 => buf.kind # "none"
    /\ pc = "csw" /\ buf.kind = "csw" => cmd.len = CswSize
    /\ result = "ok" => CheckCsw(csw)

LEMMA CallNext == TypeOK /\ PairInv /\ CallInv /\ [RerunNext]_vars => CallInv'
<1> SUFFICES ASSUME TypeOK, PairInv, CallInv, [RerunNext]_vars PROVE CallInv'
  OBVIOUS
<1> USE DEF CallInv
<1>1. ASSUME NEW r \in Requests, Start(r) PROVE CallInv'
  BY <1>1 DEF Start
<1>2. CASE SendCbw
  BY <1>2 DEF SendCbw, Return, Goto, NoMessage, TypeOK, Commands, CheckCsw
<1>3. CASE SendData
  BY <1>3 DEF SendData, Return, Goto, NoMessage, TypeOK, CheckCsw
<1>4. CASE RecvData
  <2>1. /\ inq # <<>> /\ buf' = inq[1] /\ inq[1].kind \in {"data", "csw"}
        /\ inq[1].kind = "csw" => inq[1].size = CswSize
    BY <1>4, TailFacts DEF RecvData, Receive, PairInv, TypeOK
  <2>2. inq[1] \in InMessages /\ inq[1] = Head(inq) /\ Len(inq) >= 1
    BY <2>1, TailFacts DEF TypeOK
  <2>3. CASE UnexpectedCsw(Head(inq))
    BY <1>4, <2>3 DEF RecvData, Return, Goto, CheckCsw
  <2>4. CASE ~UnexpectedCsw(Head(inq)) /\ Goto("csw")
    BY <1>4, <2>1, <2>2, <2>4
       DEF RecvData, Goto, CheckCsw, UnexpectedCsw
  <2> QED BY <1>4, <2>3, <2>4 DEF RecvData
<1>5. CASE RecvCsw
  BY <1>5 DEF RecvCsw, Return, CheckCsw
<1>6. CASE RecvFails
  BY <1>6 DEF RecvFails, Return, CheckCsw
<1>7. CASE DeviceStep
  <2> UNCHANGED host
    BY <1>7 DEF DeviceStep, DevTakeCbw, DevDropData, DevSendData, DevTakeData,
                DevSkipData, DevStall, DevStatus
  <2> QED BY DEF host, CheckCsw
<1>8. CASE Rerun
  BY <1>8 DEF Rerun, NoMessage
<1>9. CASE UNCHANGED vars
  BY <1>9 DEF vars, CheckCsw
<1>10. CASE ClearHalt
  BY <1>10 DEF ClearHalt, Return, CheckCsw
<1> QED BY <1>1, <1>2, <1>3, <1>4, <1>5, <1>6, <1>7, <1>8, <1>9, <1>10
           DEF RerunNext, Next, Call, HostStep

LEMMA PairNext == TypeOK /\ PairInv /\ CallInv /\ [RerunNext]_vars => PairInv'
<1> SUFFICES ASSUME TypeOK, PairInv, CallInv, [RerunNext]_vars PROVE PairInv'
  OBVIOUS
<1> USE DEF PairInv, StatusBehind, Owes
<1>a. /\ Len(inq) \in Nat
      /\ inq # <<>> => Len(inq) >= 1
      /\ inq = <<>> => Len(inq) = 0
  BY LenProperties, TailFacts, EmptySeq DEF TypeOK
<1>1. ASSUME NEW r \in Requests, Start(r) PROVE PairInv'
  BY <1>1 DEF Start
<1>2. CASE SendCbw
  BY <1>2 DEF SendCbw, Return, Goto, CallInv, NoMessage
<1>3. CASE SendData
  BY <1>3 DEF SendData, Return, Goto, CallInv, NoMessage
<1>4. CASE RecvData \/ RecvCsw \/ (RecvFails /\ inq' # inq)
  <2>1. inq # <<>> /\ inq' = Tail(inq) /\ UNCHANGED dev
    BY <1>4 DEF RecvData, RecvCsw, RecvFails, Receive, ReceiveFails
  <2>2. /\ Len(inq') = Len(inq) - 1
        /\ \A i \in 1..Len(inq') : inq'[i] = inq[i+1]
    BY <2>1, TailFacts DEF TypeOK
  <2>3. pc' = "csw" => buf' = inq[1]
    BY <1>4, <2>1, TailFacts
       DEF RecvData, RecvCsw, RecvFails, Return, Goto, TypeOK
  <2>4. \A i \in 1..Len(inq') :
            /\ inq'[i].kind \in {"data", "csw"}
            /\ inq'[i].kind = "csw" => inq'[i].size = CswSize
    BY <1>a, <2>1, <2>2
  <2>5. \A i \in 1..Len(inq') :
            inq'[i].kind = "data" => StatusBehind(i, inq[i].of)'
    <3> SUFFICES ASSUME NEW i \in 1..Len(inq'), inq'[i].kind = "data"
                 PROVE  StatusBehind(i, inq[i].of)'
      OBVIOUS
    <3>1. i + 1 \in 1..Len(inq) /\ inq'[i] = inq[i+1]
      BY <1>a, <2>1, <2>2
    <3>2. StatusBehind(i + 1, inq[i+1].of)
      BY <3>1
    <3>3. i < Len(inq') <=> i + 1 < Len(inq)
      BY <1>a, <2>1, <2>2
    <3>4. i < Len(inq') => inq'[i+1] = inq[i+2]
      BY <1>a, <2>1, <2>2
    <3> QED BY <3>1, <3>2, <3>3, <3>4, <2>1
  <2>6. pc' = "csw" /\ buf'.kind = "data" => StatusBehind(0, buf.of)'
    <3> SUFFICES ASSUME pc' = "csw", buf'.kind = "data"
                 PROVE  StatusBehind(0, buf.of)'
      OBVIOUS
    <3>1. inq[1].kind = "data" /\ buf' = inq[1] /\ 1 \in 1..Len(inq)
      BY <2>3, <1>a, <2>1
    <3>2. StatusBehind(1, inq[1].of)
      BY <3>1
    <3>3. 0 < Len(inq') <=> 1 < Len(inq)
      BY <1>a, <2>1, <2>2
    <3>4. 0 < Len(inq') => inq'[1] = inq[2]
      BY <1>a, <2>1, <2>2
    <3> QED BY <3>1, <3>2, <3>3, <3>4, <2>1
  <2> QED BY <2>1, <2>2, <2>4, <2>5, <2>6
<1>5. CASE RecvFails /\ inq' = inq
  BY <1>5 DEF RecvFails, Return
<1>6. CASE DevTakeCbw \/ DevDropData \/ DevTakeData \/ DevSkipData \/ DevStall
  BY <1>6 DEF DevTakeCbw, DevDropData, DevTakeData, DevSkipData, DevStall, host,
              TypeOK
<1>7. ASSUME NEW m \in InMessages,
             \/ /\ m.kind = "data" /\ dev.phase = "exec"
                /\ dev' = [dev EXCEPT !.phase = "status"] /\ m.of = dev.of
             \/ m.kind = "csw" /\ m.size = CswSize /\ Owes(m.of),
             inq' = Append(inq, m), UNCHANGED host
      PROVE  PairInv'
  <2>1. /\ Len(inq') = Len(inq) + 1
        /\ \A i \in 1..Len(inq) : inq'[i] = inq[i]
        /\ inq'[Len(inq) + 1] = m
    BY <1>7, AppendFacts DEF TypeOK
  <2>2. m.kind = "data" => Owes(m.of)'
    BY <1>7 DEF TypeOK
  <2>3. ASSUME NEW i \in 0..Len(inq), NEW c, StatusBehind(i, c)
        PROVE  StatusBehind(i, c)'
    <3>1. CASE i < Len(inq)
      BY <3>1, <2>3, <2>1, <1>a
    <3>2. CASE i = Len(inq)
      BY <3>2, <2>3, <2>1, <1>a, <1>7
    <3> QED BY <3>1, <3>2, <1>a
  <2>4. \A i \in 1..Len(inq') :
            /\ inq'[i].kind \in {"data", "csw"}
            /\ inq'[i].kind = "csw" => inq'[i].size = CswSize
    BY <2>1, <1>a, <1>7
  <2>5. \A i \in 1..Len(inq') :
            inq'[i].kind = "data" => StatusBehind(i, inq[i].of)'
    <3> SUFFICES ASSUME NEW i \in 1..Len(inq'), inq'[i].kind = "data"
                 PROVE  StatusBehind(i, inq[i].of)'
      OBVIOUS
    <3>1. CASE i \in 1..Len(inq)
      <4>1. StatusBehind(i, inq[i].of)
        BY <3>1, <2>1
      <4> QED BY <3>1, <4>1, <2>3, <2>1, <1>a
    <3>2. CASE i = Len(inq) + 1
      BY <3>2, <2>1, <2>2
    <3> QED BY <3>1, <3>2, <2>1, <1>a
  <2>6. pc' = "csw" /\ buf'.kind = "data" => StatusBehind(0, buf.of)'
    BY <1>7, <2>3, <1>a DEF host
  <2> QED BY <2>4, <2>5, <2>6
<1>8. ASSUME NEW s \in Sizes, DevSendData(s) PROVE PairInv'
  <2> DEFINE m == DataIn(dev.of, s)
  <2>1. m \in InMessages /\ m.kind = "data" /\ m.of = dev.of
    BY MessageTypes, SizesAssumption DEF TypeOK, DataIn
  <2> QED BY <1>7, <1>8, <2>1 DEF DevSendData
<1>9. ASSUME NEW ok \in BOOLEAN, DevStatus(ok) PROVE PairInv'
  <2> DEFINE m == Csw(dev.of, ok)
  <2>1. m \in InMessages /\ m.kind = "csw" /\ m.of = dev.of /\ m.size = CswSize
    BY MessageTypes DEF TypeOK, Csw
  <2> QED BY <1>7, <1>9, <2>1 DEF DevStatus
<1>10. CASE Rerun
  BY <1>10 DEF Rerun
<1>11. CASE UNCHANGED vars
  BY <1>11 DEF vars
<1>12. CASE ClearHalt
  BY <1>12 DEF ClearHalt, Return
<1> QED BY <1>1, <1>2, <1>3, <1>4, <1>5, <1>6, <1>8, <1>9, <1>10, <1>11, <1>12
           DEF RerunNext, Next, Call, HostStep, DeviceStep

LEMMA CoherentNext ==
    TypeOK /\ PairInv /\ CallInv /\ CoherentAnswer /\ [RerunNext]_vars
        => CoherentAnswer'
<1> SUFFICES ASSUME TypeOK, PairInv, CallInv, CoherentAnswer, [RerunNext]_vars
             PROVE  CoherentAnswer'
  OBVIOUS
<1> USE DEF CoherentAnswer, ReadReturnedOk, CswTakenAsData
<1>1. CASE RecvCsw
  <2>1. inq # <<>> /\ csw' = inq[1] /\ Len(inq) \in Nat /\ Len(inq) >= 1
    BY <1>1, TailFacts DEF RecvCsw, Receive, TypeOK
  <2>2. buf.kind = "data" => inq[1].of = buf.of
    BY <1>1, <2>1 DEF PairInv, StatusBehind, RecvCsw
  <2>3. buf.kind \in {"none", "data", "csw"}
    BY DEF TypeOK, InMessages
  <2> QED BY <1>1, <2>1, <2>2, <2>3 DEF RecvCsw, CallInv
<1>2. CASE \/ Call \/ SendCbw \/ SendData \/ RecvData
            \/ ClearHalt \/ RecvFails \/ Rerun
  BY <1>2 DEF Call, Start, SendCbw, SendData, RecvData, ClearHalt, RecvFails,
              Rerun, Return, Goto, CallInv
<1>3. CASE DeviceStep
  <2> UNCHANGED host
    BY <1>3 DEF DeviceStep, DevTakeCbw, DevDropData, DevSendData, DevTakeData,
                DevSkipData, DevStall, DevStatus
  <2> QED BY DEF host
<1>4. CASE UNCHANGED vars
  BY <1>4 DEF vars
<1> QED BY <1>1, <1>2, <1>3, <1>4 DEF RerunNext, Next, HostStep

(* Over any number of runs, a read that returns 0 hands over the data and  *)
(* the status of one and the same command.                                 *)
THEOREM CoherentAnswers == RerunSpec => []CoherentAnswer
<1>1. Init => PairInv /\ CallInv /\ CoherentAnswer
  <2> SUFFICES ASSUME Init PROVE PairInv /\ CallInv /\ CoherentAnswer
    OBVIOUS
  <2>1. Len(inq) = 0 /\ pc = "idle" /\ result = "none"
    BY EmptySeq DEF Init
  <2>2. PairInv
    BY <2>1 DEF PairInv
  <2> QED BY <2>1, <2>2 DEF CallInv, CoherentAnswer, ReadReturnedOk
<1> QED BY <1>1, TypeCorrect, PairNext, CallNext, CoherentNext, PTL DEF RerunSpec

-----------------------------------------------------------------------------
(* A call that starts when the device has caught up sees only its own      *)
(* messages.                                                               *)
OwnInv ==
    pc # "idle" /\ ~behind =>
        /\ \A i \in 1..Len(inq) : inq[i].of = cmd
        /\ dev.phase # "idle" => dev.of = cmd
        /\ \A i \in 1..Len(devq) : devq[i].kind = "cbw" => devq[i].of = cmd
        /\ buf.kind # "none" => buf.of = cmd

LEMMA OwnNext == TypeOK /\ CallInv /\ OwnInv /\ [RerunNext]_vars => OwnInv'
<1> SUFFICES ASSUME TypeOK, CallInv, OwnInv, [RerunNext]_vars PROVE OwnInv'
  OBVIOUS
<1> USE DEF OwnInv
<1>1. ASSUME NEW r \in Requests, Start(r) PROVE OwnInv'
  <2> SUFFICES ASSUME ~behind'
               PROVE  OwnInv'
    OBVIOUS
  <2>1. inq = <<>> /\ Len(inq) = 0
    BY <1>1, EmptySeq DEF Start
  <2> QED BY <1>1, <2>1 DEF Start, NoMessage
<1>2. CASE SendCbw \/ SendData
  <2> SUFFICES ASSUME pc # "idle", ~behind PROVE OwnInv'
    BY <1>2 DEF SendCbw, SendData
  <2>1. PICK m \in OutMessages : Transmit(m) /\ m.of = cmd
    BY <1>2, MessageTypes DEF SendCbw, SendData, Cbw, DataOut, TypeOK
  <2>2. \A i \in 1..Len(devq') : devq'[i].kind = "cbw" => devq'[i].of = cmd
    <3>1. CASE devq' = devq
      BY <3>1
    <3>2. CASE devq' = Append(devq, m)
      <4>1. \A i \in 1..Len(devq') :
                 \/ i \in 1..Len(devq) /\ devq'[i] = devq[i]
                 \/ devq'[i] = m
        BY <3>2, AppendFacts DEF TypeOK
      <4> QED BY <4>1, <2>1
    <3> QED BY <3>1, <3>2, <2>1 DEF Transmit
  <2> QED BY <1>2, <2>2 DEF SendCbw, SendData
<1>3. CASE RecvData
  <2>1. /\ inq # <<>> /\ Head(inq) = inq[1] /\ 1 \in 1..Len(inq)
        /\ \A i \in 1..Len(inq') : inq'[i] = inq[i+1] /\ i + 1 \in 1..Len(inq)
    BY <1>3, TailFacts DEF RecvData, Receive, TypeOK
  <2> QED BY <1>3, <2>1 DEF RecvData
<1>4. CASE RecvCsw \/ ClearHalt \/ RecvFails \/ Rerun
  BY <1>4 DEF RecvCsw, ClearHalt, RecvFails, Rerun, Return
<1>5. CASE DevTakeCbw \/ DevDropData \/ DevTakeData
  <2>1. /\ devq # <<>> /\ Head(devq) = devq[1] /\ 1 \in 1..Len(devq)
        /\ \A i \in 1..Len(devq') :
               devq'[i] = devq[i+1] /\ i + 1 \in 1..Len(devq)
    BY <1>5, TailFacts DEF DevTakeCbw, DevDropData, DevTakeData, TypeOK
  <2>2. UNCHANGED <<host, inq>>
    BY <1>5 DEF DevTakeCbw, DevDropData, DevTakeData
  <2>3. dev'.phase # "idle" =>
            \/ dev.phase # "idle" /\ dev'.of = dev.of
            \/ devq[1].kind = "cbw" /\ dev'.of = devq[1].of
    <3>1. CASE DevTakeCbw
      BY <3>1, <2>1 DEF DevTakeCbw
    <3>2. CASE DevDropData
      BY <3>2 DEF DevDropData
    <3>3. CASE DevTakeData
      BY <3>3 DEF DevTakeData, TypeOK
    <3> QED BY <1>5, <3>1, <3>2, <3>3
  <2> QED BY <2>1, <2>2, <2>3 DEF host
<1>6. CASE DevSkipData \/ DevStall
  BY <1>6 DEF DevSkipData, DevStall, host, TypeOK
<1>7. ASSUME NEW m \in InMessages, dev.phase # "idle", m.of = dev.of,
             inq' = Append(inq, m), UNCHANGED <<host, devq>>,
             dev'.phase # "idle" => dev'.of = dev.of
      PROVE  OwnInv'
  <2>1. \A i \in 1..Len(inq') :
                 \/ i \in 1..Len(inq) /\ inq'[i] = inq[i]
                 \/ inq'[i] = m
    BY <1>7, AppendFacts DEF TypeOK
  <2> QED BY <1>7, <2>1 DEF host
<1>8. ASSUME NEW s \in Sizes, DevSendData(s) PROVE OwnInv'
  <2> DEFINE m == DataIn(dev.of, s)
  <2>1. m \in InMessages /\ m.of = dev.of
    BY MessageTypes, SizesAssumption DEF TypeOK, DataIn
  <2> QED BY <1>7, <1>8, <2>1 DEF DevSendData, TypeOK
<1>9. ASSUME NEW ok \in BOOLEAN, DevStatus(ok) PROVE OwnInv'
  <2> DEFINE m == Csw(dev.of, ok)
  <2>1. m \in InMessages /\ m.of = dev.of
    BY MessageTypes DEF TypeOK, Csw
  <2> QED BY <1>7, <1>9, <2>1 DEF DevStatus, IdleDevice
<1>10. CASE UNCHANGED vars
  BY <1>10 DEF vars
<1> QED BY <1>1, <1>2, <1>3, <1>4, <1>5, <1>6, <1>8, <1>9, <1>10
           DEF RerunNext, Next, Call, HostStep, DeviceStep

LEMMA StaleNext ==
    TypeOK /\ CallInv /\ OwnInv /\ StaleOnlyWhenBehind /\ [RerunNext]_vars
        => StaleOnlyWhenBehind'
<1> SUFFICES ASSUME TypeOK, CallInv, OwnInv, StaleOnlyWhenBehind,
                    [RerunNext]_vars
             PROVE  StaleOnlyWhenBehind'
  OBVIOUS
<1> USE DEF StaleOnlyWhenBehind, ReadReturnedOk, CswTakenAsData
<1>1. CASE RecvCsw
  <2>1. buf.kind \in {"none", "data", "csw"}
    BY DEF TypeOK, InMessages
  <2> QED BY <1>1, <2>1 DEF RecvCsw, CallInv, OwnInv
<1>2. CASE \/ Call \/ SendCbw \/ SendData \/ RecvData
            \/ ClearHalt \/ RecvFails \/ Rerun
  BY <1>2 DEF Call, Start, SendCbw, SendData, RecvData, ClearHalt, RecvFails,
              Rerun, Return, Goto, CallInv
<1>3. CASE DeviceStep
  <2> UNCHANGED host
    BY <1>3 DEF DeviceStep, DevTakeCbw, DevDropData, DevSendData, DevTakeData,
                DevSkipData, DevStall, DevStatus
  <2> QED BY DEF host
<1>4. CASE UNCHANGED vars
  BY <1>4 DEF vars
<1> QED BY <1>1, <1>2, <1>3, <1>4 DEF RerunNext, Next, HostStep

(* Over any number of runs, a foreign answer is only ever accepted by a    *)
(* call that began while the device was behind.                            *)
THEOREM StaleAnswersNeedBacklog == RerunSpec => []StaleOnlyWhenBehind
<1>1. Init => PairInv /\ CallInv /\ OwnInv /\ StaleOnlyWhenBehind
  <2> SUFFICES ASSUME Init
               PROVE  PairInv /\ CallInv /\ OwnInv /\ StaleOnlyWhenBehind
    OBVIOUS
  <2>1. Len(inq) = 0 /\ pc = "idle" /\ result = "none"
    BY EmptySeq DEF Init
  <2>2. PairInv
    BY <2>1 DEF PairInv
  <2> QED BY <2>1, <2>2 DEF CallInv, OwnInv, StaleOnlyWhenBehind, ReadReturnedOk
<1> QED BY <1>1, TypeCorrect, PairNext, CallNext, OwnNext, StaleNext, PTL
        DEF RerunSpec

-----------------------------------------------------------------------------
(* Within one process a tag names one command, so the tag test of          *)
(* check_csw singles out the command in progress; and a status of 0 is     *)
(* only ever sent for a command the device has finished.                   *)

(* c is a command of this process; the current one if it bears its tag.    *)
Known(c) == c.tag <= tag /\ (c.tag = cmd.tag => c = cmd)

(* The device finished c well, a write with its own data.                  *)
Finished(c) ==
    \E e \in log : /\ e.of = c /\ e.ok
                   /\ c.dir = "out" /\ c.len > 0 => e.took

Vouched(m) == m.kind = "csw" /\ m.ok => Finished(m.of)

IdInv ==
    /\ cmd.tag = tag
    /\ tag = 0 => cmd = NoCommand
    /\ \A i \in 1..Len(devq) : Known(devq[i].of)
    /\ Known(dev.of)
    /\ \A i \in 1..Len(inq) : Known(inq[i].of) /\ Vouched(inq[i])
    /\ Known(csw.of) /\ Vouched(csw)

LEMMA IdNext == TypeOK /\ IdInv /\ [Next]_vars => IdInv'
<1> SUFFICES ASSUME TypeOK, IdInv, [Next]_vars PROVE IdInv'
  OBVIOUS
<1> USE DEF IdInv, Known
<1>a. \A m \in InMessages : UNCHANGED log => (Vouched(m) <=> Vouched(m)')
  BY DEF Vouched, Finished
<1>b. \A i \in 1..Len(inq) : inq[i] \in InMessages /\ inq[i].of \in Commands
  <2>1. \A i \in 1..Len(inq) : inq[i] \in InMessages
    BY ElementOfSeq DEF TypeOK
  <2> QED BY <2>1 DEF InMessages
<1>c. \A i \in 1..Len(devq) : devq[i] \in OutMessages /\ devq[i].of \in Commands
  <2>1. \A i \in 1..Len(devq) : devq[i] \in OutMessages
    BY ElementOfSeq DEF TypeOK
  <2> QED BY <2>1 DEF OutMessages
<1>d. \A c \in Commands : c.tag \in Nat
  BY DEF Commands
<1>1. ASSUME NEW r \in Requests, Start(r) PROVE IdInv'
  <2>1. cmd'.tag = tag' /\ tag' = tag + 1 /\ tag \in Nat
    BY <1>1 DEF Start, TypeOK
  <2>2. \A c \in Commands : Known(c) => Known(c)'
    BY <2>1, <1>d
  <2>3. Known(csw.of)'
    BY <1>1, <2>1 DEF Start, NoMessage, NoCommand
  <2>4. Vouched(csw)' /\ \A i \in 1..Len(inq) : Vouched(inq[i])'
    BY <1>1 DEF Start, NoMessage, Vouched, Finished
  <2>5. UNCHANGED <<inq, devq, dev>> /\ dev.of \in Commands
    BY <1>1 DEF Start, TypeOK
  <2> QED BY <2>1, <2>2, <2>3, <2>4, <2>5, <1>b, <1>c
<1>2. CASE SendCbw \/ SendData
  <2>1. PICK m \in OutMessages : Transmit(m) /\ m.of = cmd
    BY <1>2, MessageTypes DEF SendCbw, SendData, Cbw, DataOut, TypeOK
  <2>2. UNCHANGED <<tag, cmd, csw, dev, inq, log>>
    BY <1>2 DEF SendCbw, SendData
  <2>3. \A i \in 1..Len(devq') :
            \/ i \in 1..Len(devq) /\ devq'[i] = devq[i]
            \/ devq'[i] = m
    <3>1. CASE devq' = devq
      BY <3>1
    <3>2. CASE devq' = Append(devq, m)
      BY <3>2, AppendFacts DEF TypeOK
    <3> QED BY <3>1, <3>2, <2>1 DEF Transmit
  <2>4. cmd.tag <= tag
    BY <1>d DEF TypeOK
  <2>5. \A i \in 1..Len(devq') : Known(devq[i].of)'
    BY <2>1, <2>2, <2>3, <2>4
  <2> QED BY <2>2, <2>5 DEF Vouched, Finished
<1>3. CASE RecvData \/ ClearHalt \/ RecvCsw \/ RecvFails
  <2>1. UNCHANGED <<tag, cmd, dev, devq, log>>
    BY <1>3 DEF RecvData, ClearHalt, RecvCsw, RecvFails
  <2>2. inq' = inq \/ (inq # <<>> /\ inq' = Tail(inq))
    BY <1>3 DEF RecvData, ClearHalt, RecvCsw, RecvFails, Receive, ReceiveFails
  <2>3. \A i \in 1..Len(inq') : \E j \in 1..Len(inq) : inq'[i] = inq[j]
    <3>1. CASE inq' = inq
      BY <3>1
    <3>2. CASE inq # <<>> /\ inq' = Tail(inq)
      <4>1. \A i \in 1..Len(inq') :
                i + 1 \in 1..Len(inq) /\ inq'[i] = inq[i+1]
        BY <3>2, TailFacts DEF TypeOK
      <4> QED BY <4>1
    <3> QED BY <2>2, <3>1, <3>2
  <2>4. csw' = csw \/ \E j \in 1..Len(inq) : csw' = inq[j]
    <3>1. CASE RecvCsw
      BY <3>1, TailFacts DEF RecvCsw, Receive, TypeOK
    <3>2. CASE RecvData \/ ClearHalt \/ RecvFails
      BY <3>2 DEF RecvData, ClearHalt, RecvFails
    <3> QED BY <1>3, <3>1, <3>2
  <2>5. Known(csw.of)' /\ Vouched(csw)'
    BY <2>1, <2>4 DEF Vouched, Finished
  <2>6. ASSUME NEW i \in 1..Len(inq')
        PROVE  Known(inq[i].of)' /\ Vouched(inq[i])'
    <3>1. PICK j \in 1..Len(inq) : inq'[i] = inq[j]
      BY <2>3
    <3>2. Known(inq[j].of) /\ Vouched(inq[j])
      OBVIOUS
    <3>3. Vouched(inq[i])'
      BY <2>1, <3>1, <3>2 DEF Vouched, Finished
    <3> QED BY <2>1, <3>1, <3>2, <3>3
  <2> QED BY <2>1, <2>5, <2>6
<1>4. CASE DevTakeCbw \/ DevDropData \/ DevTakeData
  <2>1. /\ devq # <<>> /\ Head(devq) = devq[1] /\ 1 \in 1..Len(devq)
        /\ \A i \in 1..Len(devq') :
               devq'[i] = devq[i+1] /\ i + 1 \in 1..Len(devq)
    BY <1>4, TailFacts DEF DevTakeCbw, DevDropData, DevTakeData, TypeOK
  <2>2. UNCHANGED <<host, inq, log>>
    BY <1>4 DEF DevTakeCbw, DevDropData, DevTakeData
  <2>3. dev'.of = dev.of \/ dev'.of = devq[1].of
    <3>1. CASE DevTakeCbw
      BY <3>1, <2>1 DEF DevTakeCbw
    <3>2. CASE DevDropData
      BY <3>2 DEF DevDropData
    <3>3. CASE DevTakeData
      BY <3>3 DEF DevTakeData, TypeOK
    <3> QED BY <1>4, <3>1, <3>2, <3>3
  <2> QED BY <2>1, <2>2, <2>3 DEF host, Vouched, Finished
<1>5. CASE DevSkipData \/ DevStall
  <2>1. UNCHANGED <<host, devq, inq, log>> /\ dev'.of = dev.of
    BY <1>5 DEF DevSkipData, DevStall, TypeOK
  <2> QED BY <2>1 DEF host, Vouched, Finished
<1>6. ASSUME NEW m \in InMessages, m.of = dev.of, Vouched(m)',
             inq' = Append(inq, m), log \subseteq log',
             UNCHANGED <<host, devq>>, Known(dev.of)'
      PROVE  IdInv'
  <2>1. \A i \in 1..Len(inq') :
                 \/ i \in 1..Len(inq) /\ inq'[i] = inq[i]
                 \/ inq'[i] = m
    BY <1>6, AppendFacts DEF TypeOK
  <2>2. \A n \in InMessages : Vouched(n) => Vouched(n)'
    BY <1>6 DEF Vouched, Finished
  <2>3. \A i \in 1..Len(inq') : Known(inq[i].of)' /\ Vouched(inq[i])'
    BY <2>1, <2>2, <1>6, <1>b DEF host
  <2> QED BY <2>2, <2>3, <1>6 DEF host, TypeOK
<1>7. ASSUME NEW s \in Sizes, DevSendData(s) PROVE IdInv'
  <2> DEFINE m == DataIn(dev.of, s)
  <2>1. m \in InMessages /\ m.of = dev.of /\ m.kind = "data"
    BY MessageTypes, SizesAssumption DEF TypeOK, DataIn
  <2> HIDE DEF m
  <2>2. inq' = Append(inq, m) /\ UNCHANGED <<host, devq, log>> /\ dev'.of = dev.of
    BY <1>7 DEF DevSendData, TypeOK, m
  <2> QED BY <1>6, <2>1, <2>2 DEF host, Vouched
<1>8. ASSUME NEW ok \in BOOLEAN, DevStatus(ok) PROVE IdInv'
  <2>1. PICK m \in InMessages, e \in [of : Commands, ok : BOOLEAN, took : BOOLEAN] :
            /\ m = Csw(dev.of, ok)
            /\ e = [of |-> dev.of, ok |-> ok, took |-> dev.took]
    BY MessageTypes DEF TypeOK
  <2>2. inq' = Append(inq, m) /\ UNCHANGED <<host, devq>> /\ dev' = IdleDevice
    BY <1>8, <2>1 DEF DevStatus
  <2>3. /\ m.of = dev.of /\ m.ok = ok
        /\ log' = log \cup {e} /\ e.of = m.of /\ e.ok = m.ok
        /\ m.ok /\ m.of.dir = "out" /\ m.of.len > 0 => e.took
    BY <1>8, <2>1 DEF DevStatus, Csw
  <2>4. Vouched(m)'
    BY <2>3 DEF Vouched, Finished
  <2>5. Known(dev.of)'
    <3>1. UNCHANGED <<tag, cmd>> /\ dev'.of = NoCommand
      BY <2>2 DEF host, IdleDevice
    <3> QED BY <3>1 DEF TypeOK, NoCommand
  <2> QED BY <1>6, <2>2, <2>3, <2>4, <2>5
<1>9. CASE UNCHANGED vars
  BY <1>9 DEF vars, Vouched, Finished
<1> QED BY <1>1, <1>2, <1>3, <1>4, <1>5, <1>7, <1>8, <1>9
           DEF Next, Call, HostStep, DeviceStep

LEMMA FreshStep ==
    TypeOK /\ CallInv /\ IdInv /\ CoherentAnswer => FreshAnswer /\ WriteIntegrity
<1> SUFFICES ASSUME TypeOK, CallInv, IdInv, CoherentAnswer, result = "ok"
             PROVE  FreshAnswer /\ WriteIntegrity
  BY DEF FreshAnswer, WriteIntegrity, ReadReturnedOk
<1>1. csw.of = cmd /\ csw.ok /\ csw.kind = "csw"
  BY DEF CallInv, IdInv, Known, CheckCsw
<1>2. FreshAnswer
  BY <1>1 DEF FreshAnswer, CoherentAnswer, ReadReturnedOk
<1>3. ASSUME cmd.dir = "out", cmd.len > 0
      PROVE  [of |-> cmd, ok |-> TRUE, took |-> TRUE] \in log
  <2>1. PICK e \in log : e.of = cmd /\ e.ok /\ e.took
    BY <1>1, <1>3 DEF IdInv, Vouched, Finished
  <2>2. e = [of |-> cmd, ok |-> TRUE, took |-> TRUE]
    BY <2>1 DEF TypeOK
  <2> QED BY <2>2
<1> QED BY <1>2, <1>3 DEF WriteIntegrity

-----------------------------------------------------------------------------
(* The order of commands.  What is under way is a line: the statuses in    *)
(* the IN pipe, the command the device serves, the commands in the OUT     *)
(* pipe, in the order of their tags and each of them once.                 *)
TagsOf(s, kind) == {s[j].of.tag : j \in {k \in 1..Len(s) : s[k].kind = kind}}
Rising(s, kind) ==
    \A i, j \in 1..Len(s) :
        i < j /\ s[i].kind = kind /\ s[j].kind = kind => s[i].of.tag < s[j].of.tag

Executed == {e.of.tag : e \in log}
Answered == TagsOf(inq, "csw")
Serving == IF dev.phase = "idle" THEN {} ELSE {dev.of.tag}
Waiting == TagsOf(devq, "cbw")
Numbered == (Executed \cup Serving) \cup Waiting

OrderInv ==
    /\ Answered \subseteq Executed
    /\ Rising(inq, "csw") /\ Rising(devq, "cbw")
    /\ \A u \in Executed : \A t \in Serving \cup Waiting : u < t
    /\ \A u \in Serving : \A t \in Waiting : u < t
    /\ Numbered \subseteq 1..tag
    /\ pc = "cbw" => tag \notin Numbered
    /\ pc # "idle" => tag >= 1

LEMMA TagsOfTail ==
    ASSUME NEW S, NEW s \in Seq(S), s # <<>>, NEW kind, Rising(s, kind)
    PROVE  /\ Rising(Tail(s), kind)
           /\ TagsOf(Tail(s), kind) \subseteq TagsOf(s, kind)
           /\ Head(s).kind # kind => TagsOf(s, kind) \subseteq TagsOf(Tail(s), kind)
           /\ Head(s).kind = kind =>
                 /\ Head(s).of.tag \in TagsOf(s, kind)
                 /\ TagsOf(s, kind)
                       \subseteq TagsOf(Tail(s), kind) \cup {Head(s).of.tag}
                 /\ \A t \in TagsOf(Tail(s), kind) : Head(s).of.tag < t
<1>1. PICK r \in Seq(S) :
        /\ r = Tail(s) /\ Len(s) \in Nat /\ Len(s) >= 1 /\ Head(s) = s[1]
        /\ Len(r) = Len(s) - 1 /\ \A i \in 1..Len(r) : r[i] = s[i+1]
  <2>1. /\ Tail(s) \in Seq(S) /\ Len(s) \in Nat /\ Len(s) >= 1
        /\ Head(s) = s[1] /\ Len(Tail(s)) = Len(s) - 1
        /\ \A i \in 1..Len(Tail(s)) : Tail(s)[i] = s[i+1]
    BY TailFacts
  <2> QED BY <2>1, Zenon
<1>2. \A i \in 1..Len(r) : i + 1 \in 1..Len(s) /\ r[i] = s[i+1] /\ 1 < i + 1
  BY <1>1
<1>3. \A i \in 1..Len(s) : i = 1 \/ (i - 1 \in 1..Len(r) /\ r[i-1] = s[i])
  BY <1>1
<1>4. Rising(r, kind)
  <2> SUFFICES ASSUME NEW i \in 1..Len(r), NEW j \in 1..Len(r), i < j,
                      r[i].kind = kind, r[j].kind = kind
               PROVE  r[i].of.tag < r[j].of.tag
    BY DEF Rising
  <2>1. i + 1 < j + 1
    BY <1>1
  <2> QED BY <1>2, <2>1 DEF Rising
<1>5. TagsOf(r, kind) \subseteq TagsOf(s, kind)
  BY <1>2 DEF TagsOf
<1>6. ASSUME s[1].kind # kind PROVE TagsOf(s, kind) \subseteq TagsOf(r, kind)
  BY <1>3, <1>6 DEF TagsOf
<1>7. ASSUME s[1].kind = kind
      PROVE  /\ s[1].of.tag \in TagsOf(s, kind)
             /\ TagsOf(s, kind) \subseteq TagsOf(r, kind) \cup {s[1].of.tag}
             /\ \A t \in TagsOf(r, kind) : s[1].of.tag < t
  <2>1. 1 \in 1..Len(s)
    BY <1>1
  <2>2. s[1].of.tag \in TagsOf(s, kind)
    BY <1>7, <2>1 DEF TagsOf
  <2>3. TagsOf(s, kind) \subseteq TagsOf(r, kind) \cup {s[1].of.tag}
    BY <1>3 DEF TagsOf
  <2>4. ASSUME NEW j \in 1..Len(r), r[j].kind = kind
        PROVE  s[1].of.tag < r[j].of.tag
    BY <1>2, <1>7, <2>1, <2>4 DEF Rising
  <2> QED BY <2>2, <2>3, <2>4 DEF TagsOf
<1> QED BY <1>1, <1>4, <1>5, <1>6, <1>7

LEMMA TagsOfAppend ==
    ASSUME NEW S, NEW s \in Seq(S), NEW e \in S, NEW kind
    PROVE  /\ e.kind # kind => TagsOf(Append(s, e), kind) = TagsOf(s, kind)
           /\ e.kind = kind => TagsOf(Append(s, e), kind)
                                 = TagsOf(s, kind) \cup {e.of.tag}
           /\ Rising(s, kind)
              /\ (e.kind = kind => \A t \in TagsOf(s, kind) : t < e.of.tag)
                => Rising(Append(s, e), kind)
<1>1. PICK r \in Seq(S) :
        /\ r = Append(s, e) /\ Len(s) \in Nat /\ Len(r) = Len(s) + 1
        /\ \A i \in 1..Len(s) : r[i] = s[i]
        /\ r[Len(s) + 1] = e
  BY AppendFacts
<1>2. /\ \A i \in 1..Len(s) : i \in 1..Len(r) /\ r[i] = s[i]
      /\ \A i \in 1..Len(r) : \/ i \in 1..Len(s) /\ r[i] = s[i]
                              \/ i = Len(s) + 1 /\ r[i] = e
      /\ Len(s) + 1 \in 1..Len(r)
  <2>1. \A i \in 1..Len(s) : i \in 1..Len(r) /\ r[i] = s[i]
    BY <1>1
  <2>2. \A i \in 1..Len(r) : \/ i \in 1..Len(s) /\ r[i] = s[i]
                             \/ i = Len(s) + 1 /\ r[i] = e
    <3> TAKE i \in 1..Len(r)
    <3>1. i \in 1..Len(s) \/ i = Len(s) + 1
      BY <1>1
    <3>2. CASE i \in 1..Len(s)
      BY <2>1, <3>2, Zenon
    <3>3. CASE i = Len(s) + 1
      BY <1>1, <3>3
    <3> QED BY <3>1, <3>2, <3>3
  <2>3. Len(s) + 1 \in 1..Len(r)
    BY <1>1
  <2> QED BY <2>1, <2>2, <2>3
<1>3. e.kind # kind => TagsOf(r, kind) = TagsOf(s, kind)
  BY <1>2 DEF TagsOf
<1>4. ASSUME e.kind = kind PROVE TagsOf(r, kind) = TagsOf(s, kind) \cup {e.of.tag}
  <2>1. TagsOf(r, kind) \subseteq TagsOf(s, kind) \cup {e.of.tag}
    BY <1>2 DEF TagsOf
  <2>2. TagsOf(s, kind) \subseteq TagsOf(r, kind)
    BY <1>2 DEF TagsOf
  <2>3. e.of.tag \in TagsOf(r, kind)
    BY <1>1, <1>2, <1>4 DEF TagsOf
  <2> QED BY <2>1, <2>2, <2>3
<1>5. ASSUME Rising(s, kind), e.kind = kind => \A t \in TagsOf(s, kind) : t < e.of.tag
      PROVE  Rising(r, kind)
  <2> SUFFICES ASSUME NEW i \in 1..Len(r), NEW j \in 1..Len(r), i < j,
                      r[i].kind = kind, r[j].kind = kind
               PROVE  r[i].of.tag < r[j].of.tag
    BY DEF Rising
  <2>1. i \in 1..Len(s) /\ r[i] = s[i]
    BY <1>1, <1>2
  <2>2. CASE j \in 1..Len(s)
    BY <1>1, <1>5, <2>1, <2>2 DEF Rising
  <2>3. CASE j = Len(s) + 1
    <3>1. s[i].of.tag \in TagsOf(s, kind)
      BY <2>1 DEF TagsOf
    <3> QED BY <1>1, <1>5, <2>1, <2>3, <3>1
  <2> QED BY <1>2, <2>2, <2>3
<1> QED BY <1>1, <1>3, <1>4, <1>5

LEMMA TagsOfNext ==
    ASSUME NEW S, NEW s \in Seq(S), NEW e \in S, NEW kind, e.kind = kind,
           Rising(s, kind), \A t \in TagsOf(s, kind) : t < e.of.tag
    PROVE  /\ TagsOf(Append(s, e), kind) = TagsOf(s, kind) \cup {e.of.tag}
           /\ Rising(Append(s, e), kind)
  BY TagsOfAppend

LEMMA OrderNext == TypeOK /\ IdInv /\ OrderInv /\ [Next]_vars => OrderInv'
<1> SUFFICES ASSUME TypeOK, IdInv, OrderInv, [Next]_vars PROVE OrderInv'
  OBVIOUS
<1>a. /\ tag \in Nat /\ cmd.tag = tag /\ cmd \in Commands
      /\ devq \in Seq(OutMessages) /\ inq \in Seq(InMessages)
  BY BoundsAssumption DEF TypeOK, IdInv
<1>b. /\ Answered' = TagsOf(inq', "csw") /\ Waiting' = TagsOf(devq', "cbw")
      /\ Rising(inq, "csw")' = Rising(inq', "csw")
      /\ Rising(devq, "cbw")' = Rising(devq', "cbw")
  BY DEF Answered, Waiting, TagsOf, Rising
<1>c. /\ log' = log => Executed' = Executed
      /\ dev' = dev => Serving' = Serving
      /\ inq' = inq => Answered' = Answered /\ Rising(inq', "csw")
      /\ devq' = devq => Waiting' = Waiting /\ Rising(devq', "cbw")
  BY <1>b DEF Executed, Serving, Answered, Waiting, OrderInv
<1>1. ASSUME NEW r \in Requests, Start(r) PROVE OrderInv'
  <2>1. /\ UNCHANGED <<inq, devq, dev, log>> /\ tag' = tag + 1
    BY <1>1 DEF Start
  <2>2. Numbered' = Numbered
    BY <1>c, <2>1 DEF Numbered
  <2>3. Numbered \subseteq 1..tag' /\ tag' \notin Numbered /\ tag' >= 1
    BY <1>a, <2>1 DEF OrderInv
  <2> QED BY <1>b, <1>c, <2>1, <2>2, <2>3 DEF OrderInv
<1>2. CASE SendCbw
  <2>1. /\ UNCHANGED <<inq, dev, log, tag>> /\ pc = "cbw" /\ pc' # "cbw"
        /\ devq' = devq \/ devq' = Append(devq, Cbw(cmd))
    BY <1>2 DEF SendCbw, Transmit, Return, Goto
  <2>2. tag >= 1 /\ tag \notin Numbered /\ Numbered \subseteq 1..tag
    BY <2>1 DEF OrderInv
  <2>3. \A t \in Numbered : t < tag
    BY <1>a, <2>2
  <2>4. CASE devq' = devq
    BY <1>b, <1>c, <2>1, <2>2, <2>4 DEF OrderInv, Numbered
  <2>5. CASE devq' = Append(devq, Cbw(cmd))
    <3>1. PICK m \in OutMessages : m = Cbw(cmd)
      BY <1>a, MessageTypes
    <3>2. m.kind = "cbw" /\ m.of.tag = tag
      BY <1>a, <3>1 DEF Cbw
    <3>3. Waiting' = Waiting \cup {tag} /\ Rising(devq', "cbw")
      <4>1. /\ TagsOf(Append(devq, m), "cbw") = TagsOf(devq, "cbw") \cup {tag}
            /\ Rising(Append(devq, m), "cbw")
        <5>1. /\ TagsOf(Append(devq, m), "cbw")
                    = TagsOf(devq, "cbw") \cup {m.of.tag}
              /\ Rising(Append(devq, m), "cbw")
          <6>1. \A t \in TagsOf(devq, "cbw") : t < m.of.tag
            BY <2>3, <3>2 DEF Numbered, Waiting
          <6> QED BY <1>a, <3>1, <3>2, <6>1, TagsOfNext DEF OrderInv
        <5> QED BY <3>2, <5>1
      <4>2. \A t \in TagsOf(devq, "cbw") : t < tag
        BY <2>3 DEF Numbered, Waiting
      <4> QED BY <1>b, <2>5, <3>1, <4>1, <4>2 DEF Waiting, OrderInv
    <3>4. Numbered' = Numbered \cup {tag}
      BY <1>c, <2>1, <3>3 DEF Numbered
    <3>5. /\ \A u \in Executed : \A t \in Serving \cup Waiting' : u < t
          /\ \A u \in Serving : \A t \in Waiting' : u < t
      BY <2>3, <3>3 DEF OrderInv, Numbered
    <3>6. Numbered' \subseteq 1..tag
      BY <1>a, <2>2, <3>4
    <3> QED BY <1>b, <1>c, <2>1, <2>2, <3>3, <3>5, <3>6 DEF OrderInv
  <2> QED BY <2>1, <2>4, <2>5
<1>3. CASE SendData
  <2>1. /\ UNCHANGED <<inq, dev, log, tag>> /\ pc # "idle" /\ pc' # "cbw"
        /\ devq' = devq \/ devq' = Append(devq, DataOut(cmd))
    BY <1>3 DEF SendData, Transmit, Return, Goto
  <2>2. PICK m \in OutMessages : m = DataOut(cmd)
    BY <1>a, MessageTypes
  <2>3. m.kind = "data"
    BY <2>2 DEF DataOut
  <2>4. /\ TagsOf(Append(devq, m), "cbw") = TagsOf(devq, "cbw")
        /\ Rising(devq, "cbw") => Rising(Append(devq, m), "cbw")
    BY <1>a, <2>3, TagsOfAppend
  <2>5. Waiting' = Waiting /\ Rising(devq', "cbw")
    BY <1>b, <1>c, <2>1, <2>2, <2>4 DEF Waiting, OrderInv
  <2> QED BY <1>b, <1>c, <2>1, <2>5 DEF OrderInv, Numbered
<1>4. CASE RecvData \/ ClearHalt \/ RecvCsw \/ RecvFails
  <2>1. /\ UNCHANGED <<devq, dev, log, tag>> /\ pc # "idle" /\ pc' # "cbw"
        /\ inq' = inq \/ (inq # <<>> /\ inq' = Tail(inq))
    BY <1>4 DEF RecvData, ClearHalt, RecvCsw, RecvFails, Receive, ReceiveFails,
                Return, Goto
  <2>2. Answered' \subseteq Answered /\ Rising(inq', "csw")
    <3>1. inq # <<>> => /\ TagsOf(Tail(inq), "csw") \subseteq TagsOf(inq, "csw")
                        /\ Rising(Tail(inq), "csw")
      BY <1>a, TagsOfTail DEF OrderInv
    <3> QED BY <1>b, <1>c, <2>1, <3>1 DEF Answered
  <2> QED BY <1>b, <1>c, <2>1, <2>2 DEF OrderInv, Numbered
<1>5. CASE DevTakeCbw
  <2>1. /\ UNCHANGED <<inq, log, tag, pc>> /\ dev.phase = "idle" /\ devq # <<>>
        /\ Head(devq).kind = "cbw" /\ devq' = Tail(devq)
        /\ dev' = [phase |-> "exec", of |-> Head(devq).of, took |-> FALSE]
    BY <1>5 DEF DevTakeCbw, host
  <2>2. /\ Rising(Tail(devq), "cbw")
        /\ TagsOf(Tail(devq), "cbw") \subseteq TagsOf(devq, "cbw")
        /\ Head(devq).of.tag \in TagsOf(devq, "cbw")
        /\ \A t \in TagsOf(Tail(devq), "cbw") : Head(devq).of.tag < t
    BY <1>a, <2>1, TagsOfTail DEF OrderInv
  <2>3. PICK c : c = Head(devq).of.tag
    OBVIOUS
  <2>4. Serving' = {c} /\ Serving = {}
    BY <2>1, <2>3 DEF Serving
  <2>5. /\ Waiting' \subseteq Waiting /\ c \in Waiting
        /\ \A t \in Waiting' : c < t
    BY <1>b, <2>1, <2>2, <2>3 DEF Waiting
  <2>6. Rising(devq', "cbw")
    BY <2>1, <2>2
  <2>7. Executed' = Executed /\ Answered' = Answered /\ Rising(inq', "csw")
    BY <1>c, <2>1
  <2>8. Numbered' \subseteq Numbered
    BY <2>4, <2>5, <2>7 DEF Numbered
  <2> QED BY <1>b, <2>1, <2>4, <2>5, <2>6, <2>7, <2>8 DEF OrderInv
<1>6. CASE DevDropData \/ DevTakeData
  <2>1. /\ UNCHANGED <<inq, log, tag, pc>> /\ devq # <<>> /\ devq' = Tail(devq)
    BY <1>6 DEF DevDropData, DevTakeData, host
  <2>2. Serving' = Serving
    BY <1>6 DEF DevDropData, DevTakeData, Serving, TypeOK
  <2>3. Waiting' \subseteq Waiting /\ Rising(devq', "cbw")
    <3>1. /\ TagsOf(Tail(devq), "cbw") \subseteq TagsOf(devq, "cbw")
          /\ Rising(Tail(devq), "cbw")
      BY <1>a, <2>1, TagsOfTail DEF OrderInv
    <3> QED BY <1>b, <2>1, <3>1 DEF Waiting
  <2> QED BY <1>b, <1>c, <2>1, <2>2, <2>3 DEF OrderInv, Numbered
<1>7. ASSUME NEW s \in Sizes, DevSendData(s) PROVE OrderInv'
  <2>1. PICK m \in InMessages : m = DataIn(dev.of, s)
    BY MessageTypes, SizesAssumption DEF TypeOK
  <2>2. /\ UNCHANGED <<devq, log, tag, pc>> /\ inq' = Append(inq, m)
        /\ Serving' = Serving /\ m.kind = "data"
    BY <1>7, <2>1 DEF DevSendData, host, DataIn, Serving, TypeOK
  <2>3. Answered' = Answered /\ Rising(inq', "csw")
    <3>1. /\ TagsOf(Append(inq, m), "csw") = TagsOf(inq, "csw")
          /\ Rising(inq, "csw") => Rising(Append(inq, m), "csw")
      BY <1>a, <2>2, TagsOfAppend
    <3> QED BY <1>b, <2>2, <3>1 DEF Answered, OrderInv
  <2> QED BY <1>b, <1>c, <2>2, <2>3 DEF OrderInv, Numbered
<1>8. CASE DevSkipData \/ DevStall
  <2>1. UNCHANGED <<inq, devq, log, tag, pc>> /\ Serving' = Serving
    BY <1>8 DEF DevSkipData, DevStall, host, Serving, TypeOK
  <2> QED BY <1>b, <1>c, <2>1 DEF OrderInv, Numbered
<1>9. ASSUME NEW ok \in BOOLEAN, DevStatus(ok) PROVE OrderInv'
  <2>0. PICK e : e = [of |-> dev.of, ok |-> ok, took |-> dev.took]
    OBVIOUS
  <2>1. PICK m \in InMessages : m = Csw(dev.of, ok)
    BY MessageTypes DEF TypeOK
  <2>2. /\ UNCHANGED <<devq, tag, pc>> /\ inq' = Append(inq, m)
        /\ dev.phase = "status" /\ dev' = IdleDevice /\ log' = log \cup {e}
        /\ m.kind = "csw" /\ m.of = dev.of /\ e.of = dev.of
    BY <1>9, <2>0, <2>1 DEF DevStatus, host, Csw
  <2>3. PICK c : c = dev.of.tag
    OBVIOUS
  <2>4. Serving = {c} /\ Serving' = {} /\ Executed' = Executed \cup {c}
    BY <2>2, <2>3 DEF Serving, IdleDevice, Executed
  <2>5. Answered' = Answered \cup {c} /\ Rising(inq', "csw")
    <3>1. \A t \in TagsOf(inq, "csw") : t < c
      BY <2>4 DEF OrderInv, Answered
    <3>2. /\ TagsOf(Append(inq, m), "csw") = TagsOf(inq, "csw") \cup {c}
          /\ Rising(inq, "csw") => Rising(Append(inq, m), "csw")
      BY <1>a, <2>2, <2>3, <3>1, TagsOfAppend
    <3> QED BY <1>b, <2>2, <3>2 DEF Answered, OrderInv
  <2>6. Waiting' = Waiting /\ Rising(devq', "cbw") /\ Numbered' = Numbered
    <3>1. Waiting' = Waiting /\ Rising(devq', "cbw") = Rising(devq, "cbw")
      BY <1>c, <2>2
    <3>2. Numbered' = Numbered
      BY <2>4, <3>1 DEF Numbered
    <3>3. Rising(devq, "cbw")
      BY DEF OrderInv
    <3> QED BY <3>1, <3>2, <3>3
  <2> QED BY <1>b, <2>2, <2>4, <2>5, <2>6 DEF OrderInv
<1>10. CASE UNCHANGED vars
  BY <1>b, <1>c, <1>10 DEF vars, OrderInv, Numbered
<1> QED BY <1>1, <1>2, <1>3, <1>4, <1>5, <1>6, <1>7, <1>8, <1>9, <1>10
           DEF Next, Call, HostStep, DeviceStep

(* A call that began behind has an older answer ahead of its own, until it *)
(* took a status for data or met one there.                                *)
DebtInv ==
    pc \notin {"idle", "clear"} /\ behind /\ ~(pc = "csw" /\ buf.kind = "csw")
        => \E t \in (Answered \cup Serving) \cup Waiting : t < tag

LEMMA DebtNext ==
    TypeOK /\ PairInv /\ IdInv /\ OrderInv /\ DebtInv /\ [Next]_vars => DebtInv'
<1> SUFFICES ASSUME TypeOK, PairInv, IdInv, OrderInv, DebtInv, [Next]_vars,
                    pc' \notin {"idle", "clear"}, behind', ~(pc' = "csw" /\ buf'.kind = "csw")
             PROVE  \E t \in (Answered' \cup Serving') \cup Waiting' : t < tag'
  BY DEF DebtInv
<1>a. /\ tag \in Nat /\ cmd.tag = tag
      /\ devq \in Seq(OutMessages) /\ inq \in Seq(InMessages)
      /\ Rising(inq, "csw") /\ Rising(devq, "cbw")
      /\ Numbered \subseteq 1..tag /\ Answered \subseteq Executed
  BY BoundsAssumption DEF TypeOK, IdInv, OrderInv
<1>b. /\ Answered' = TagsOf(inq', "csw") /\ Waiting' = TagsOf(devq', "cbw")
      /\ dev' = dev => Serving' = Serving
      /\ inq' = inq => Answered' = Answered
      /\ devq' = devq => Waiting' = Waiting
  BY DEF Answered, Waiting, Serving, TagsOf
<1>1. ASSUME NEW r \in Requests, Start(r)
      PROVE  \E t \in (Answered' \cup Serving') \cup Waiting' : t < tag'
  <2>1. /\ tag' = tag + 1 /\ UNCHANGED <<inq, devq, dev>>
        /\ \/ inq # <<>> \/ dev.phase # "idle"
           \/ \E i \in 1..Len(devq) : devq[i].kind = "cbw"
    BY <1>1 DEF Start
  <2>2. \E t : t \in (Answered \cup Serving) \cup Waiting
    <3>1. CASE dev.phase # "idle"
      BY <3>1 DEF Serving
    <3>2. CASE \E i \in 1..Len(devq) : devq[i].kind = "cbw"
      BY <3>2 DEF Waiting, TagsOf
    <3>3. CASE inq # <<>>
      <4>1. /\ Len(inq) \in Nat /\ 1 \in 1..Len(inq)
            /\ 1 < Len(inq) => 2 \in 1..Len(inq)
        <5>1. Len(inq) \in Nat /\ Len(inq) >= 1
          BY <1>a, <3>3, TailFacts
        <5> QED BY <5>1
      <4>2. CASE inq[1].kind = "csw"
        BY <4>1, <4>2 DEF Answered, TagsOf
      <4>3. CASE inq[1].kind = "data"
        <5>1. StatusBehind(1, inq[1].of)
          BY <4>1, <4>3 DEF PairInv
        <5>2. \/ 1 < Len(inq) /\ inq[2].kind = "csw"
              \/ dev.phase = "status"
          BY <5>1 DEF StatusBehind, Owes
        <5>3. CASE dev.phase = "status"
          BY <5>3 DEF Serving
        <5>4. CASE 1 < Len(inq) /\ inq[2].kind = "csw"
          BY <4>1, <5>4 DEF Answered, TagsOf
        <5> QED BY <5>2, <5>3, <5>4
      <4> QED BY <4>1, <4>2, <4>3 DEF PairInv
    <3> QED BY <2>1, <3>1, <3>2, <3>3
  <2>3. \A t \in (Answered \cup Serving) \cup Waiting : t < tag'
    BY <1>a, <2>1 DEF Numbered
  <2> QED BY <1>b, <2>1, <2>2, <2>3
(* A message that is no status leaves the older answer where it was.       *)
<1>2. CASE SendCbw \/ SendData
  <2>1. /\ UNCHANGED <<inq, dev, tag, behind, buf>> /\ pc \in {"cbw", "data"}
        /\ \E m \in OutMessages : devq' = devq \/ devq' = Append(devq, m)
    BY <1>2, MessageTypes DEF SendCbw, SendData, Transmit, TypeOK
  <2>2. ~(pc = "csw")
    BY <1>2 DEF SendCbw, SendData
  <2>3. Waiting \subseteq Waiting'
    <3>1. PICK m \in OutMessages : devq' = devq \/ devq' = Append(devq, m)
      BY <2>1
    <3>2. TagsOf(devq, "cbw") \subseteq TagsOf(Append(devq, m), "cbw")
      BY <1>a, <3>1, TagsOfAppend
    <3> QED BY <1>b, <3>1, <3>2 DEF Waiting
  <2> QED BY <1>b, <2>1, <2>2, <2>3 DEF DebtInv
<1>3. CASE RecvData
  <2>1. /\ UNCHANGED <<dev, devq, tag, behind>> /\ pc = "data" /\ pc' = "csw"
        /\ inq # <<>> /\ inq' = Tail(inq) /\ buf' = Head(inq)
    BY <1>3 DEF RecvData, Receive, Return, Goto
  <2>2. Answered \subseteq Answered'
    <3>1. Head(inq).kind # "csw"
      BY <2>1
    <3>2. TagsOf(inq, "csw") \subseteq TagsOf(Tail(inq), "csw")
      BY <1>a, <2>1, <3>1, TagsOfTail
    <3> QED BY <1>b, <2>1, <3>2 DEF Answered
  <2> QED BY <1>b, <2>1, <2>2 DEF DebtInv
<1>4. CASE ClearHalt \/ RecvCsw \/ RecvFails
  BY <1>4 DEF ClearHalt, RecvCsw, RecvFails, Return
<1>5. CASE DeviceStep
  <2>1. UNCHANGED <<tag, pc, behind, buf>>
    BY <1>5 DEF DeviceStep, DevTakeCbw, DevDropData, DevSendData, DevTakeData,
                DevSkipData, DevStall, DevStatus, host
  <2>2. PICK t \in (Answered \cup Serving) \cup Waiting : t < tag
    BY <2>1 DEF DebtInv
  <2>3. CASE DevTakeCbw
    <3>1. /\ inq' = inq /\ dev.phase = "idle" /\ devq # <<>>
          /\ Head(devq).kind = "cbw" /\ devq' = Tail(devq)
          /\ dev' = [phase |-> "exec", of |-> Head(devq).of, took |-> FALSE]
      BY <2>3 DEF DevTakeCbw
    <3>2. TagsOf(devq, "cbw") \subseteq TagsOf(Tail(devq), "cbw")
                                          \cup {Head(devq).of.tag}
      BY <1>a, <3>1, TagsOfTail
    <3>3. Serving' = {Head(devq).of.tag} /\ Serving = {}
      BY <3>1 DEF Serving
    <3>4. t \in (Answered' \cup Serving') \cup Waiting'
      BY <1>b, <3>1, <3>2, <3>3 DEF Waiting
    <3> QED BY <2>1, <2>2, <3>4
  <2>4. CASE DevDropData
    <3>1. /\ UNCHANGED <<inq, dev>> /\ devq # <<>>
          /\ Head(devq).kind # "cbw" /\ devq' = Tail(devq)
      BY <2>4 DEF DevDropData
    <3>2. TagsOf(devq, "cbw") \subseteq TagsOf(Tail(devq), "cbw")
      BY <1>a, <3>1, TagsOfTail
    <3> QED BY <1>b, <2>1, <2>2, <3>1, <3>2 DEF Waiting
(* A command taken for data: the one it is taken for is older.             *)
  <2>5. CASE DevTakeData
    <3>1. /\ inq' = inq /\ devq # <<>> /\ devq' = Tail(devq)
          /\ Serving' = Serving /\ Serving = {dev.of.tag}
      BY <2>5 DEF DevTakeData, Serving, TypeOK
    <3>2. t \in Waiting => dev.of.tag < t
      BY <3>1 DEF OrderInv
    <3>3. /\ dev.of.tag \in Nat /\ t \in Nat
      <4>1. Answered \cup Serving \cup Waiting \subseteq 1..tag
        BY <1>a DEF Numbered
      <4>2. \A u \in 1..tag : u \in Nat
        BY <1>a
      <4> QED BY <2>2, <3>1, <4>1, <4>2
    <3>4. CASE t \in Waiting
      <4>1. dev.of.tag < tag
        BY <1>a, <2>2, <3>2, <3>3, <3>4
      <4> QED BY <2>1, <3>1, <4>1
    <3>5. CASE t \in Answered \cup Serving
      BY <1>b, <2>1, <2>2, <3>1, <3>5
    <3> QED BY <3>4, <3>5
  <2>6. CASE DevSkipData \/ DevStall
    <3>1. UNCHANGED <<inq, devq>> /\ Serving' = Serving
      BY <2>6 DEF DevSkipData, DevStall, Serving, TypeOK
    <3> QED BY <1>b, <2>1, <2>2, <3>1
  <2>7. ASSUME NEW s \in Sizes, DevSendData(s)
        PROVE  \E u \in (Answered' \cup Serving') \cup Waiting' : u < tag'
    <3>1. PICK m \in InMessages : m = DataIn(dev.of, s)
      BY MessageTypes, SizesAssumption DEF TypeOK
    <3>2. devq' = devq /\ inq' = Append(inq, m) /\ Serving' = Serving
      BY <2>7, <3>1 DEF DevSendData, Serving, TypeOK
    <3>3. TagsOf(inq, "csw") \subseteq TagsOf(Append(inq, m), "csw")
      BY <1>a, <3>1, TagsOfAppend
    <3> QED BY <1>b, <2>1, <2>2, <3>2, <3>3 DEF Answered
  <2>8. ASSUME NEW ok \in BOOLEAN, DevStatus(ok)
        PROVE  \E u \in (Answered' \cup Serving') \cup Waiting' : u < tag'
    <3>1. PICK m \in InMessages : m = Csw(dev.of, ok)
      BY MessageTypes DEF TypeOK
    <3>2. /\ devq' = devq /\ inq' = Append(inq, m)
          /\ m.kind = "csw" /\ m.of = dev.of /\ Serving = {dev.of.tag}
      BY <2>8, <3>1 DEF DevStatus, Serving, Csw
    <3>3. TagsOf(Append(inq, m), "csw") = TagsOf(inq, "csw") \cup {dev.of.tag}
      <4>1. TagsOf(Append(inq, m), "csw") = TagsOf(inq, "csw") \cup {m.of.tag}
        <5>1. \A u \in TagsOf(inq, "csw") : u < m.of.tag
          BY <1>a, <3>2 DEF OrderInv, Answered
        <5>2. /\ inq \in Seq(InMessages) /\ Rising(inq, "csw")
              /\ m \in InMessages /\ m.kind = "csw"
          BY <1>a, <3>1, <3>2
        <5> QED BY <5>1, <5>2, TagsOfNext
      <4> QED BY <3>2, <4>1
    <3> QED BY <1>b, <2>1, <2>2, <3>2, <3>3 DEF Answered
  <2> QED BY <1>5, <2>3, <2>4, <2>5, <2>6, <2>7, <2>8 DEF DeviceStep
<1>6. CASE UNCHANGED vars
  BY <1>b, <1>6 DEF vars, DebtInv
<1> QED BY <1>1, <1>2, <1>3, <1>4, <1>5, <1>6 DEF Next, Call, HostStep

(* A call that began behind meets a status that is not its own.            *)
LEMMA LateNext ==
    TypeOK /\ PairInv /\ CallInv /\ IdInv /\ OrderInv /\ DebtInv
        /\ StaleStartFails /\ [Next]_vars => StaleStartFails'
<1> SUFFICES ASSUME TypeOK, PairInv, CallInv, IdInv, OrderInv, DebtInv,
                    StaleStartFails, [Next]_vars
             PROVE  StaleStartFails'
  OBVIOUS
<1> USE DEF StaleStartFails, CswTakenAsData
<1>1. CASE RecvCsw
  <2> SUFFICES ASSUME result' = "ok", behind'
               PROVE  CswTakenAsData'
    OBVIOUS
  <2>1. /\ pc = "csw" /\ inq # <<>> /\ inq' = Tail(inq) /\ CheckCsw(Head(inq))
        /\ UNCHANGED <<cmd, buf, behind, tag, devq, dev>>
    BY <1>1 DEF RecvCsw, Receive, Return
  <2>2. Head(inq).kind = "csw" /\ Head(inq).of.tag = tag /\ tag \in Nat
    BY <2>1, BoundsAssumption DEF CheckCsw, IdInv, TypeOK
  <2>3. SUFFICES ASSUME ~(buf.kind = "csw") PROVE FALSE
    BY <2>1 DEF CallInv
  <2>4. PICK t \in (Answered \cup Serving) \cup Waiting : t < tag
    BY <2>1, <2>3 DEF DebtInv
  <2>5. /\ tag \in TagsOf(inq, "csw")
        /\ TagsOf(inq, "csw") \subseteq TagsOf(Tail(inq), "csw") \cup {tag}
        /\ \A u \in TagsOf(Tail(inq), "csw") : tag < u
    <3>1. inq \in Seq(InMessages) /\ Rising(inq, "csw")
      BY DEF TypeOK, OrderInv
    <3> QED BY <2>1, <2>2, <3>1, TagsOfTail
  <2>6. /\ tag \in Executed
        /\ t \in Answered => t = tag \/ tag < t
    BY <2>5 DEF OrderInv, Answered
  <2>7. t \in Serving \cup Waiting => tag < t
    BY <2>6 DEF OrderInv
  <2>8. t \in 1..tag
    BY DEF OrderInv, Numbered
  <2> QED BY <2>2, <2>4, <2>6, <2>7, <2>8
<1>2. CASE \/ Call \/ SendCbw \/ SendData \/ RecvData
            \/ ClearHalt \/ RecvFails
  BY <1>2 DEF Call, Start, SendCbw, SendData, RecvData, ClearHalt, RecvFails,
              Return, Goto, CallInv
<1>3. CASE DeviceStep
  <2> UNCHANGED host
    BY <1>3 DEF DeviceStep, DevTakeCbw, DevDropData, DevSendData, DevTakeData,
                DevSkipData, DevStall, DevStatus
  <2> QED BY DEF host
<1>4. CASE UNCHANGED vars
  BY <1>4 DEF vars
<1> QED BY <1>1, <1>2, <1>3, <1>4 DEF Next, HostStep

(* A call that did not begin behind and is about to clear a halt has read  *)
(* its own status: the device is through and cannot have stalled since.    *)
CaughtUp == dev.phase = "idle" /\ Waiting = {} /\ ~halted
ClearInv == pc = "clear" /\ ~behind => CaughtUp

LEMMA ClearNext ==
    TypeOK /\ OwnInv /\ IdInv /\ OrderInv /\ ClearInv /\ [Next]_vars => ClearInv'
<1> SUFFICES ASSUME TypeOK, OwnInv, IdInv, OrderInv, ClearInv, [Next]_vars,
                    pc' = "clear", ~behind'
             PROVE  CaughtUp'
  BY DEF ClearInv
<1>1. CASE RecvData
  <2>1. /\ UNCHANGED <<behind, halted, dev, devq>> /\ ~halted /\ pc # "idle"
        /\ inq # <<>> /\ UnexpectedCsw(Head(inq))
    BY <1>1 DEF RecvData, Receive, Return, Goto
  <2>2. Len(inq) \in Nat /\ Len(inq) >= 1 /\ Head(inq) = inq[1]
    BY <2>1, TailFacts DEF TypeOK
  <2>3. 1 \in 1..Len(inq) /\ inq[1].kind = "csw" /\ inq[1].of.tag = tag
    BY <2>1, <2>2 DEF OwnInv, UnexpectedCsw, IdInv
  <2>4. tag \in Executed
    BY <2>3 DEF Answered, TagsOf, OrderInv
  <2>5. \A t \in Serving \cup Waiting : t \in 1..tag /\ tag < t
    BY <2>4 DEF OrderInv, Numbered
  <2>6. Serving = {} /\ Waiting = {}
    <3>1. tag \in Nat
      BY BoundsAssumption DEF TypeOK
    <3> QED BY <2>5, <3>1
  <2>7. Waiting' = Waiting
    BY <2>1 DEF Waiting, TagsOf
  <2> QED BY <2>1, <2>6, <2>7 DEF CaughtUp, Serving
<1>2. CASE Call \/ SendCbw \/ SendData \/ ClearHalt \/ RecvCsw \/ RecvFails
  BY <1>2 DEF Call, Start, SendCbw, SendData, ClearHalt, RecvCsw, RecvFails,
              Return, Goto
<1>3. CASE DeviceStep
  <2>1. UNCHANGED <<pc, behind>>
    BY <1>3 DEF DeviceStep, DevTakeCbw, DevDropData, DevSendData, DevTakeData,
                DevSkipData, DevStall, DevStatus, host
  <2>2. CaughtUp
    BY <2>1 DEF ClearInv
  <2>3. devq # <<>> => /\ Head(devq).kind = "cbw" => Head(devq).of.tag \in Waiting
                       /\ Head(devq).kind # "cbw" => Tail(devq) \in Seq(OutMessages)
    BY TagsOfTail DEF Waiting, OrderInv, TypeOK
  <2>4. DevDropData
    BY <1>3, <2>2, <2>3
       DEF CaughtUp, DeviceStep, DevTakeCbw, DevSendData, DevTakeData,
           DevSkipData, DevStall, DevStatus
  <2>5. TagsOf(Tail(devq), "cbw") \subseteq TagsOf(devq, "cbw")
    BY <2>4, TagsOfTail DEF DevDropData, OrderInv, TypeOK
  <2>6. Waiting' = {}
    <3>1. Waiting' = TagsOf(devq', "cbw")
      BY DEF Waiting, TagsOf
    <3> QED BY <2>2, <2>4, <2>5, <3>1 DEF CaughtUp, Waiting, DevDropData
  <2> QED BY <2>2, <2>4, <2>6 DEF CaughtUp, DevDropData
<1>4. CASE UNCHANGED vars
  <2>1. Waiting' = Waiting
    BY <1>4 DEF vars, Waiting, TagsOf
  <2> QED BY <1>4, <2>1 DEF vars, CaughtUp, ClearInv
<1> QED BY <1>1, <1>2, <1>3, <1>4 DEF Next, HostStep

(* The invariant of one process that everything else rests on.             *)
TransportInv == /\ TypeOK /\ PairInv /\ CallInv /\ CoherentAnswer /\ OwnInv
                /\ IdInv /\ OrderInv /\ DebtInv /\ ClearInv /\ StaleStartFails

LEMMA TransportInvariant == Spec => []TransportInv
<1>1. Init => TransportInv
  <2> SUFFICES ASSUME Init PROVE TransportInv
    OBVIOUS
  <2>1. Len(inq) = 0 /\ Len(devq) = 0 /\ pc = "idle" /\ result = "none"
    BY EmptySeq DEF Init
  <2>2. PairInv
    BY <2>1 DEF PairInv
  <2>3. IdInv
    BY <2>1 DEF IdInv, Init, Known, Vouched, NoMessage, NoCommand, IdleDevice
  <2>4. OrderInv
    <3>1. Executed = {} /\ Serving = {} /\ Waiting = {} /\ Answered = {}
      BY <2>1 DEF Init, Executed, Serving, IdleDevice, Waiting, Answered, TagsOf
    <3> QED BY <2>1, <3>1 DEF OrderInv, Rising, Numbered
  <2> QED BY <2>1, <2>2, <2>3, <2>4, TypeInit
          DEF TransportInv, CallInv, CoherentAnswer, ReadReturnedOk, OwnInv,
              DebtInv, ClearInv, StaleStartFails
<1>2. TransportInv /\ [Next]_vars => TransportInv'
  BY TypeNext, PairNext, CallNext, CoherentNext, OwnNext, IdNext, OrderNext,
     DebtNext, ClearNext, LateNext DEF TransportInv, RerunNext
<1> QED BY <1>1, <1>2, PTL DEF Spec

(* Whatever earlier calls left in the pipes, a read that returns 0 hands   *)
(* over the answer to its own command.                                     *)
THEOREM FreshAnswers == Spec => []FreshAnswer
<1>1. TransportInv => FreshAnswer
  BY FreshStep DEF TransportInv
<1> QED BY <1>1, TransportInvariant, PTL

(* A write that returns 0 was executed by the device, with its own data.   *)
THEOREM WritesAreExecuted == Spec => []WriteIntegrity
<1>1. TransportInv => WriteIntegrity
  BY FreshStep DEF TransportInv
<1> QED BY <1>1, TransportInvariant, PTL

(* A stall outlasts its call, and no call returns 0 while it lasts; only a *)
(* call that began behind can end it, and that call fails.                 *)
THEOREM StallsOutlastCalls == Spec => StallOutlastsCalls
<1> DEFINE Outlasts == /\ halted' \/ (pc = "clear" /\ behind)
                       /\ result' = "ok" => result = "ok"
<1>1. ASSUME TransportInv, [Next]_vars, halted PROVE Outlasts
  <2>1. CASE ClearHalt
    BY <1>1, <2>1 DEF ClearHalt, Return, TransportInv, ClearInv, CaughtUp
  <2>2. CASE Call \/ (HostStep /\ ~ClearHalt)
    BY <1>1, <2>2
       DEF Call, Start, HostStep, SendCbw, SendData, RecvData, RecvCsw,
           RecvFails, Receive, Return, Goto
  <2>3. CASE DeviceStep
    BY <1>1, <2>3
       DEF DeviceStep, DevTakeCbw, DevDropData, DevSendData, DevTakeData,
           DevSkipData, DevStall, DevStatus, host
  <2>4. CASE UNCHANGED vars
    BY <1>1, <2>4 DEF vars
  <2> QED BY <1>1, <2>1, <2>2, <2>3, <2>4 DEF Next, HostStep
<1>2. TransportInv /\ [Next]_vars => [halted => Outlasts]_vars
  BY <1>1
<1> QED BY <1>2, TransportInvariant, PTL DEF Spec, StallOutlastsCalls

(* A call that begins while the device is behind never returns 0.          *)
THEOREM LateCallsFail == Spec => []StaleStartFails
<1>1. TransportInv => StaleStartFails
  BY DEF TransportInv
<1> QED BY <1>1, TransportInvariant, PTL

-----------------------------------------------------------------------------
(* The transport implements CommandChannel: the device executes commands   *)
(* at most once and in the order of their tags, and a call that returns 0  *)
(* had its command executed well.                                          *)
Good == {e.of.tag : e \in {f \in log : f.ok}}

LEMMA ChannelStep ==
    TransportInv /\ [Next]_vars
        => \/ Channel!Issue \/ Channel!Return
           \/ \E t \in 1..tag : Channel!Execute(t)
           \/ UNCHANGED <<tag, pc # "idle", result, Executed, Good>>
<1> SUFFICES ASSUME TransportInv, [Next]_vars
             PROVE  \/ Channel!Issue \/ Channel!Return
                    \/ \E t \in 1..tag : Channel!Execute(t)
                    \/ UNCHANGED <<tag, pc # "idle", result, Executed, Good>>
  OBVIOUS
<1>a. log' = log => Executed' = Executed /\ Good' = Good
  BY DEF Executed, Good
<1>1. ASSUME NEW r \in Requests, Start(r) PROVE Channel!Issue
  BY <1>1 DEF Start, Channel!Issue
<1>2. CASE SendCbw \/ SendData \/ RecvData \/ ClearHalt \/ RecvFails
  <2>1. UNCHANGED <<tag, log>> /\ pc # "idle"
    BY <1>2 DEF SendCbw, SendData, RecvData, ClearHalt, RecvFails
  <2>2. \/ pc' # "idle" /\ result' = result
        \/ pc' = "idle" /\ result' = "error"
    BY <1>2 DEF SendCbw, SendData, RecvData, ClearHalt, RecvFails, Return, Goto
  <2>3. CASE pc' # "idle" /\ result' = result
    BY <1>a, <2>1, <2>3
  <2>4. CASE pc' = "idle" /\ result' = "error"
    BY <2>1, <2>4 DEF Channel!Return
  <2> QED BY <2>2, <2>3, <2>4
<1>3. CASE RecvCsw
  <2>1. /\ UNCHANGED <<tag, log>> /\ pc = "csw" /\ pc' = "idle"
        /\ inq # <<>> /\ result' \in {"ok", "error"}
        /\ result' = "ok" => CheckCsw(Head(inq))
    BY <1>3 DEF RecvCsw, Receive, Return
  <2>2. CheckCsw(Head(inq)) => tag \in Good
    <3>1. 1 \in 1..Len(inq) /\ Head(inq) = inq[1]
      <4>1. Len(inq) \in Nat /\ Len(inq) >= 1 /\ Head(inq) = inq[1]
        BY <2>1, TailFacts DEF TransportInv, TypeOK
      <4> QED BY <4>1
    <3>2. Vouched(Head(inq)) /\ cmd.tag = tag
      BY <3>1 DEF TransportInv, IdInv
    <3>3. SUFFICES ASSUME CheckCsw(Head(inq)) PROVE tag \in Good
      OBVIOUS
    <3>4. PICK e \in log : e.of = Head(inq).of /\ e.ok
      BY <3>2, <3>3 DEF Vouched, Finished, CheckCsw
    <3>5. e.of.tag = tag
      BY <3>2, <3>3, <3>4 DEF CheckCsw
    <3> QED BY <3>4, <3>5 DEF Good
  <2> QED BY <2>1, <2>2 DEF Channel!Return, Good
<1>4. CASE DeviceStep
  <2>1. UNCHANGED <<tag, pc, result>>
    BY <1>4 DEF DeviceStep, DevTakeCbw, DevDropData, DevSendData, DevTakeData,
                DevSkipData, DevStall, DevStatus, host
  <2>2. ASSUME NEW ok \in BOOLEAN, DevStatus(ok)
        PROVE  \E t \in 1..tag : Channel!Execute(t)
    <3>1. PICK e : e = [of |-> dev.of, ok |-> ok, took |-> dev.took]
      OBVIOUS
    <3>2. /\ dev.phase = "status" /\ log' = log \cup {e}
          /\ e.of = dev.of /\ e.ok = ok
      BY <2>2, <3>1 DEF DevStatus
    <3>3. PICK t : t = dev.of.tag
      OBVIOUS
    <3>4. t \in Serving /\ t \in 1..tag /\ \A u \in Executed : u < t
      BY <3>2, <3>3 DEF TransportInv, OrderInv, Serving, Numbered
    <3>5. Executed' = Executed \cup {t}
      BY <3>2, <3>3 DEF Executed
    <3>6. Good' = IF ok THEN Good \cup {t} ELSE Good
      BY <3>2, <3>3 DEF Good
    <3>7. Channel!Execute(t)
      BY <2>1, <3>4, <3>5, <3>6 DEF Channel!Execute, Executed, Good
    <3> QED BY <3>4, <3>7
  <2>3. CASE ~(\E ok \in BOOLEAN : DevStatus(ok))
    <3>1. log' = log
      BY <1>4, <2>3 DEF DeviceStep, DevTakeCbw, DevDropData, DevSendData,
                        DevTakeData, DevSkipData, DevStall
    <3> QED BY <1>a, <2>1, <3>1
  <2> QED BY <2>2, <2>3
<1>5. CASE UNCHANGED vars
  BY <1>a, <1>5 DEF vars
<1> QED BY <1>1, <1>2, <1>3, <1>4, <1>5 DEF Next, Call, HostStep

(* What commands.c promises to the layers above it.                        *)
THEOREM TransportImplementsChannel == Spec => ImplementsChannel
<1>1. Init => Channel!Init
  <2> SUFFICES ASSUME Init PROVE Channel!Init
    OBVIOUS
  <2>1. Executed = {} /\ Good = {}
    BY DEF Init, Executed, Good
  <2> QED BY <2>1 DEF Init, Channel!Init, Executed, Good
<1>2. TransportInv /\ [Next]_vars => [Channel!Next]_(Channel!vars)
  BY ChannelStep DEF Channel!Next, Channel!vars, Executed, Good
<1> QED BY <1>1, <1>2, TransportInvariant, PTL
        DEF Spec, ImplementsChannel, Channel!Spec
===============================================================================
