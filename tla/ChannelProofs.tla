---------------------------- MODULE ChannelProofs ----------------------------
(***************************************************************************)
(* Theorems about Channel, for any threads, channels, items, SendOps and   *)
(* capacities: its types, that errors about a closed channel are true,     *)
(* what can still be sent after close(), and that no item is lost or       *)
(* delivered twice.                                                        *)
(***************************************************************************)
EXTENDS Channel, FiniteSetTheorems, FunctionTheorems, SequenceTheorems, TLAPS

ClosedReports == {"closed", "closed_and_empty", "stop"}

\* What holds of every call, whoever makes it.
CallOK(k) ==
  /\ k \in Call
  /\ \A o \in k.ops : o.dir = "send" => o.item \in Items
  /\ k.at # "return" => k.res = "none"
  /\ k.at = "idle" => k.ops = {}
  /\ k.at \in {"signal", "drain", "check"} \/ k.res \in ClosedReports
       => k.chan \in Chans /\ ~open[k.chan]

CallsOK == call \in [Threads -> Call] /\ \A t \in Threads : CallOK(call[t])

BuffersOK == buf \in [Chans -> Seq(Items)] /\ \A c \in Chans : Len(buf[c]) <= Capacity[c]

FlagsOK ==
  /\ open \in [Chans -> BOOLEAN]
  /\ closeTx \in [Chans -> BOOLEAN]
  /\ \A c \in Chans : ~closeTx[c] => ~open[c]
  /\ opItem \in [SendOps -> Items \cup {NoItem}]

\* The inductive invariant.
IInv == CallsOK /\ BuffersOK /\ FlagsOK

-----------------------------------------------------------------------------
(* What the helpers preserve. *)

LEMMA IdleOK == CallOK(IdleCall)
BY DEF CallOK, IdleCall, Call, Places, Kinds, Results, ClosedReports

LEMMA CalledOK ==
  ASSUME NEW kind \in Kinds, NEW ops \in SUBSET Operation, NEW timed \in BOOLEAN,
         NEW c \in Chans \cup {NoChan}, NEW at \in {"try", "select", "signal"},
         \A o \in ops : o.dir = "send" => o.item \in Items,
         at = "signal" => c \in Chans /\ ~open[c]
  PROVE  CallOK(Called(kind, ops, timed, c, at))
<1> DEFINE k == Called(kind, ops, timed, c, at)
<1>1. IdleCall \in Call
  BY IdleOK DEF CallOK
<1>2. Closed \subseteq Chans /\ at \in Places
  BY DEF Closed, Places
<1>3. k \in Call
  BY <1>1, <1>2 DEF Called, Call
<1>4. k.at = at /\ k.ops = ops /\ k.chan = c /\ k.res = IdleCall.res
  BY <1>1 DEF Called, Call
<1>6. IdleCall.res = "none"
  BY DEF IdleCall
<1> HIDE DEF k
<1>7. k.at \notin {"return", "idle", "drain", "check"} /\ k.res \notin ClosedReports
  BY <1>4, <1>6 DEF ClosedReports
<1>5. CallOK(k)
  BY <1>3, <1>4, <1>6, <1>7 DEF CallOK
<1> QED BY <1>5 DEF k

LEMMA OutcomeOK ==
  ASSUME NEW k, CallOK(k), NEW r \in Results, NEW c \in Chans \cup {NoChan},
         NEW x \in Items \cup {NoItem},
         r \in ClosedReports => c \in Chans /\ ~open[c]
  PROVE  CallOK(Outcome(k, r, c, x))
<1> DEFINE j == Outcome(k, r, c, x)
<1>1. k \in Call /\ "return" \in Places
  BY DEF CallOK, Places
<1>2. j \in Call
  BY <1>1 DEF Outcome, Call
<1>3. j.at = "return" /\ j.res = r /\ j.chan = c /\ j.ops = k.ops
  BY <1>1 DEF Outcome, Call
<1> HIDE DEF j
<1>4. CallOK(j)
  BY <1>2, <1>3 DEF CallOK
<1> QED BY <1>4 DEF j

LEMMA OperationOK ==
  ASSUME NEW c \in Chans, NEW x \in Items
  PROVE  /\ SendTo(c, x) \in Operation
         /\ SendTo(c, x).dir = "send" /\ SendTo(c, x).item \in Items
         /\ SendTo(c, x).chan = c
         /\ RecvFrom(c) \in Operation /\ RecvFrom(c).dir # "send"
BY DEF SendTo, RecvFrom, Operation

LEMMA SendNowOK ==
  ASSUME CallsOK, BuffersOK, NEW t \in Threads, NEW k, CallOK(k),
         NEW c \in Chans, NEW x \in Items, SendNow(t, k, c, x), open' = open
  PROVE  CallsOK' /\ BuffersOK'
<1>1. CallOK(Outcome(k, "sent", c, x))
  BY OutcomeOK DEF Results, ClosedReports
<1>2. ASSUME NEW u \in Threads PROVE CallOK(Outcome(call[u], "item", c, x))
  BY OutcomeOK DEF Results, ClosedReports, CallsOK
<1>3. ASSUME NEW j, CallOK(j) PROVE CallOK(j)' /\ j \in Call
  BY <1>3 DEF CallOK
<1>4. CASE /\ HasRoom(c)
           /\ buf' = [buf EXCEPT ![c] = Append(@, x)]
           /\ call' = [call EXCEPT ![t] = Outcome(k, "sent", c, x)]
  <2>1. Append(buf[c], x) \in Seq(Items) /\ Len(Append(buf[c], x)) = Len(buf[c]) + 1
    BY DEF BuffersOK
  <2>2. Len(buf[c]) + 1 <= Capacity[c]
    <3>1. Capacity[c] \in Nat
      BY ChannelAssumption
    <3>2. Len(buf[c]) \in Nat
      BY DEF BuffersOK
    <3> QED BY <1>4, <3>1, <3>2 DEF HasRoom
  <2>3. BuffersOK'
    BY <1>4, <2>1, <2>2 DEF BuffersOK
  <2>4. CallsOK'
    BY <1>1, <1>3, <1>4 DEF CallsOK
  <2> QED BY <2>3, <2>4
<1>5. CASE /\ \E u \in Threads \ {t} :
                call' = [call EXCEPT ![t] = Outcome(k, "sent", c, x),
                                     ![u] = Outcome(call[u], "item", c, x)]
           /\ UNCHANGED buf
  <2>1. BuffersOK'
    BY <1>5 DEF BuffersOK
  <2>2. CallsOK'
    BY <1>1, <1>2, <1>3, <1>5 DEF CallsOK
  <2> QED BY <2>1, <2>2
<1> QED BY <1>4, <1>5 DEF SendNow

LEMMA RecvNowOK ==
  ASSUME CallsOK, BuffersOK, NEW t \in Threads, NEW k, CallOK(k),
         NEW c \in Chans, RecvNow(t, k, c), open' = open
  PROVE  CallsOK' /\ BuffersOK'
<1>1. ASSUME NEW x \in Items PROVE CallOK(Outcome(k, "item", c, x))
  BY OutcomeOK DEF Results, ClosedReports
<1>2. ASSUME NEW u \in Threads, NEW x \in Items PROVE CallOK(Outcome(call[u], "sent", c, x))
  BY OutcomeOK DEF Results, ClosedReports, CallsOK
<1>3. ASSUME NEW j, CallOK(j) PROVE CallOK(j)' /\ j \in Call
  BY <1>3 DEF CallOK
<1>4. CASE /\ buf[c] # <<>>
           /\ buf' = [buf EXCEPT ![c] = Tail(@)]
           /\ call' = [call EXCEPT ![t] = Outcome(k, "item", c, Head(buf[c]))]
  <2>1. /\ Tail(buf[c]) \in Seq(Items) /\ Head(buf[c]) \in Items
        /\ Len(Tail(buf[c])) = Len(buf[c]) - 1 /\ Len(buf[c]) \in Nat
    BY <1>4 DEF BuffersOK
  <2>2. BuffersOK'
    <3>1. Len(Tail(buf[c])) <= Capacity[c]
      <4>1. Capacity[c] \in Nat
        BY ChannelAssumption
      <4> QED BY <2>1, <4>1 DEF BuffersOK
    <3> QED BY <1>4, <2>1, <3>1 DEF BuffersOK
  <2>3. CallsOK'
    BY <1>1, <1>3, <1>4, <2>1 DEF CallsOK
  <2> QED BY <2>2, <2>3
<1>5. CASE /\ \E u \in Threads \ {t}, x \in Items :
                call' = [call EXCEPT ![t] = Outcome(k, "item", c, x),
                                     ![u] = Outcome(call[u], "sent", c, x)]
           /\ UNCHANGED buf
  <2>1. BuffersOK'
    BY <1>5 DEF BuffersOK
  <2>2. CallsOK'
    BY <1>1, <1>2, <1>3, <1>5 DEF CallsOK
  <2> QED BY <2>1, <2>2
<1> QED BY <1>4, <1>5 DEF RecvNow

LEMMA EndOfStreamOK ==
  ASSUME CallsOK, BuffersOK, NEW t \in Threads, NEW c \in Chans, ~open[c],
         call[t].res = "none", EndOfStream(t, c), open' = open
  PROVE  CallsOK' /\ BuffersOK'
<1>1. CallOK(Outcome(call[t], "closed_and_empty", c, NoItem))
  BY OutcomeOK DEF Results, CallsOK
<1>2. CallOK([call[t] EXCEPT !.at = "check", !.chan = c])
  BY DEF CallsOK, CallOK, Call, Places, ClosedReports
<1>3. ASSUME NEW j, CallOK(j) PROVE CallOK(j)' /\ j \in Call
  BY <1>3 DEF CallOK
<1>4. CallsOK'
  BY <1>1, <1>2, <1>3 DEF CallsOK, EndOfStream
<1> QED BY <1>4 DEF EndOfStream, BuffersOK

\* Only thread t's call changes, to one that is well formed.
LEMMA OneCallOK ==
  ASSUME CallsOK, NEW t \in Threads, NEW k, CallOK(k), open' = open,
         call' = [call EXCEPT ![t] = k]
  PROVE  CallsOK'
<1>1. ASSUME NEW j, CallOK(j) PROVE CallOK(j)' /\ j \in Call
  BY <1>1 DEF CallOK
<1> QED BY <1>1 DEF CallsOK

-----------------------------------------------------------------------------
(* The inductive invariant. *)

\* The initial states satisfy it.
LEMMA InitInv == Init => IInv
<1> SUFFICES ASSUME Init PROVE IInv
  OBVIOUS
<1>1. CallsOK
  BY IdleOK DEF Init, CallsOK, CallOK
<1>2. BuffersOK
  BY ChannelAssumption DEF Init, BuffersOK
<1>3. FlagsOK
  BY DEF Init, FlagsOK
<1> QED BY <1>1, <1>2, <1>3 DEF IInv

\* A call that starts while the flags stay as they are.
LEMMA BeginInv ==
  ASSUME IInv, NEW t \in Threads, Begin(t)
  PROVE  IInv'
<1> USE DEF IInv
<1>1. ASSUME NEW c \in Chans, NEW x \in Items, NEW timed \in BOOLEAN, Send(t, c, x, timed)
      PROVE  IInv'
  <2>1. CallOK(Called("send", {SendTo(c, x)}, timed, c, IF timed THEN "select" ELSE "try"))
    BY OperationOK, CalledOK DEF Kinds
  <2>2. CallOK(Called("send", {}, timed, c, "try"))
    BY CalledOK DEF Kinds
  <2>3. ~open[c] => CallOK(Outcome(Called("send", {}, timed, c, "try"), "closed", c, NoItem))
    BY <2>2, OutcomeOK DEF Results
  <2>4. CallsOK'
    BY <1>1, <2>1, <2>3, OneCallOK DEF Send
  <2> QED BY <1>1, <2>4 DEF Send, BuffersOK, FlagsOK
<1>2. ASSUME NEW c \in Chans, NEW kind \in {"recv", "next"}, NEW timed \in BOOLEAN,
             Recv(t, c, kind, timed)
      PROVE  IInv'
  <2>1. RecvFrom(c) \in Operation /\ RecvFrom(c).dir # "send"
    BY DEF RecvFrom, Operation
  <2>2. CallOK(Called(kind, {RecvFrom(c)}, timed, c, IF timed THEN "select" ELSE "try"))
    BY <2>1, CalledOK DEF Kinds
  <2>3. CallsOK'
    BY <1>2, <2>2, OneCallOK DEF Recv
  <2> QED BY <1>2, <2>3 DEF Recv, BuffersOK, FlagsOK
<1>3. ASSUME NEW c \in Chans, NEW x \in Items, TrySend(t, c, x)
      PROVE  IInv'
  <2> DEFINE k == Called("try_send", {}, FALSE, c, "try")
  <2>1. CallOK(k)
    BY CalledOK DEF Kinds
  <2>2. open' = open /\ FlagsOK'
    BY <1>3 DEF TrySend, FlagsOK
  <2>3. ASSUME SendNow(t, k, c, x) PROVE IInv'
    BY <2>1, <2>2, <2>3, SendNowOK
  <2>4. CallOK(Outcome(k, IF open[c] THEN "full" ELSE "closed", c, NoItem))
    BY <2>1, OutcomeOK DEF Results, ClosedReports
  <2> HIDE DEF k
  <2>5. ASSUME call' = [call EXCEPT ![t] =
                 Outcome(k, IF open[c] THEN "full" ELSE "closed", c, NoItem)],
               UNCHANGED buf
        PROVE  IInv'
    BY <2>2, <2>4, <2>5, OneCallOK DEF BuffersOK
  <2> QED BY <1>3, <2>3, <2>5 DEF TrySend, k
<1>4. ASSUME NEW c \in Chans, TryRecv(t, c)
      PROVE  IInv'
  <2> DEFINE k == Called("try_recv", {}, FALSE, c, "try")
  <2>1. CallOK(k)
    BY CalledOK DEF Kinds
  <2>2. open' = open /\ FlagsOK'
    BY <1>4 DEF TryRecv, FlagsOK
  <2>3. ASSUME RecvNow(t, k, c) PROVE IInv'
    BY <2>1, <2>2, <2>3, RecvNowOK
  <2>4. CallOK(Outcome(k, IF Disconnected(c) THEN "closed_and_empty" ELSE "empty", c, NoItem))
    BY <2>1, OutcomeOK DEF Results, ClosedReports, Disconnected
  <2> HIDE DEF k
  <2>5. ASSUME call' = [call EXCEPT ![t] = Outcome(k,
                 IF Disconnected(c) THEN "closed_and_empty" ELSE "empty", c, NoItem)],
               UNCHANGED buf
        PROVE  IInv'
    BY <2>2, <2>4, <2>5, OneCallOK DEF BuffersOK
  <2> QED BY <1>4, <2>3, <2>5 DEF TryRecv, k
<1>5. ASSUME NEW c \in Chans, CloseSender(t, c)
      PROVE  IInv'
  <2>1. FlagsOK' /\ BuffersOK' /\ open' \in [Chans -> BOOLEAN] /\ ~open'[c]
        /\ \A d \in Chans : open'[d] => open[d]
    BY <1>5 DEF CloseSender, FlagsOK, BuffersOK
  <2>2. ASSUME NEW j, CallOK(j) PROVE CallOK(j)' /\ j \in Call
    BY <2>1, <2>2 DEF CallOK
  <2>3. ASSUME NEW j, j = Called("close", {}, FALSE, c, "signal")
        PROVE  CallOK(j)' /\ j \in Call
    BY <2>1, <2>3 DEF CallOK, Called, IdleCall, Closed, Call, Places, Kinds, Results, ClosedReports
  <2>4. CallsOK'
    BY <1>5, <2>2, <2>3 DEF CloseSender, CallsOK
  <2> QED BY <2>1, <2>4
<1>6. ASSUME NEW recvs \in SUBSET Chans, NEW sends \in SUBSET SendOps, NEW timed \in BOOLEAN,
             Select(t, recvs, sends, timed)
      PROVE  IInv'
  <2> DEFINE ops == {RecvFrom(c) : c \in recvs} \cup {SendTo(OpChan[o], opItem[o]) : o \in sends}
  <2>1. ASSUME NEW o \in sends PROVE OpChan[o] \in Chans /\ opItem[o] \in Items
    BY <1>6, ChannelAssumption DEF Select, FlagsOK
  <2>2. ops \in SUBSET Operation /\ \A o \in ops : o.dir = "send" => o.item \in Items
    BY <2>1 DEF RecvFrom, SendTo, Operation
  <2> HIDE DEF ops
  <2>3. CallOK(Called("select", ops, timed, NoChan, "select"))
    BY <2>2, CalledOK DEF Kinds
  <2>4. CallsOK'
    BY <1>6, <2>3, OneCallOK DEF Select, ops
  <2> QED BY <1>6, <2>4 DEF Select, BuffersOK, FlagsOK
<1> QED BY <1>1, <1>2, <1>3, <1>4, <1>5, <1>6 DEF Begin

\* A step of a thread inside its call.
LEMMA StepInv ==
  ASSUME IInv, NEW t \in Threads, Step(t)
  PROVE  IInv'
<1> USE DEF IInv
<1> DEFINE k == call[t]
<1>1. CallOK(k) /\ k \in Call
  BY DEF CallsOK, CallOK
<1>2. ASSUME NEW o \in k.ops
      PROVE  /\ o.chan \in Chans /\ o.dir \in {"send", "recv"}
             /\ o.dir = "send" => o.item \in Items
  BY <1>1 DEF CallOK, Call, Operation
<1>3. k.at # "return" => k.res = "none"
  BY <1>1 DEF CallOK
<1>4. k.at \in {"signal", "drain", "check"} => k.chan \in Chans /\ ~open[k.chan]
  BY <1>1 DEF CallOK
<1>5. ASSUME UNCHANGED <<open, closeTx, opItem>>
      PROVE  FlagsOK'
  BY <1>5 DEF FlagsOK
<1> HIDE DEF k
<1>6. CASE FirstAttempt(t)
  <2>1. PICK o \in k.ops :
          \/ o.dir = "send" /\ SendNow(t, k, o.chan, o.item)
          \/ o.dir = "recv" /\ RecvNow(t, k, o.chan)
          \/ call' = [call EXCEPT ![t].at = "select"] /\ UNCHANGED buf
    BY <1>6 DEF FirstAttempt, k
  <2>2. FlagsOK' /\ open' = open
    BY <1>5, <1>6 DEF FirstAttempt
  <2>3. CASE o.dir = "send" /\ SendNow(t, k, o.chan, o.item)
    BY <1>1, <1>2, <2>2, <2>3, SendNowOK
  <2>4. CASE o.dir = "recv" /\ RecvNow(t, k, o.chan)
    BY <1>1, <1>2, <2>2, <2>4, RecvNowOK
  <2>5. CASE call' = [call EXCEPT ![t].at = "select"] /\ UNCHANGED buf
    <3>1. k.at = "try"
      BY <1>6 DEF FirstAttempt, k
    <3>2. CallOK([k EXCEPT !.at = "select"])
      BY <1>1, <1>3, <3>1 DEF CallOK, Call, Places, ClosedReports
    <3>3. call' = [call EXCEPT ![t] = [k EXCEPT !.at = "select"]]
      BY <2>5 DEF k
    <3>4. CallsOK'
      BY <2>2, <3>2, <3>3, OneCallOK
    <3> QED BY <2>2, <2>5, <3>4 DEF BuffersOK
  <2> QED BY <2>1, <2>3, <2>4, <2>5
<1>7. CASE SelectSend(t)
  <2>1. PICK o \in k.ops : o.dir = "send" /\ SendNow(t, k, o.chan, o.item)
    BY <1>7 DEF SelectSend, k
  <2>2. FlagsOK' /\ open' = open
    BY <1>5, <1>7 DEF SelectSend
  <2> QED BY <1>1, <1>2, <2>1, <2>2, SendNowOK
<1>8. CASE SelectRecv(t)
  <2>1. PICK o \in k.ops :
          /\ k.at = "select"
          /\ \/ RecvNow(t, k, o.chan)
             \/ Disconnected(o.chan) /\ EndOfStream(t, o.chan)
    BY <1>8 DEF SelectRecv, Waiting, k
  <2>2. open' = open /\ UNCHANGED <<closeTx, opItem>>
    BY <1>8 DEF SelectRecv
  <2>3. CASE RecvNow(t, k, o.chan)
    <3>1. FlagsOK'
      BY <1>5, <2>2, <2>3
    <3> QED BY <1>1, <1>2, <2>2, <2>3, <3>1, RecvNowOK
  <2>4. CASE Disconnected(o.chan) /\ EndOfStream(t, o.chan)
    <3>1. FlagsOK'
      BY <1>2, <1>5, <2>2, <2>4 DEF EndOfStream
    <3>2. ~open[o.chan] /\ call[t].res = "none"
      BY <1>3, <2>1, <2>4 DEF Disconnected, k
    <3> QED BY <1>2, <2>2, <2>4, <3>1, <3>2, EndOfStreamOK
  <2> QED BY <2>1, <2>3, <2>4
<1>9. CASE SelectClosed(t)
  <2>1. PICK o \in k.ops :
          /\ k.at = "select" /\ ~closeTx[o.chan]
          /\ call' = [call EXCEPT ![t] =
               IF o.dir = "send" THEN Outcome(k, "closed", o.chan, NoItem)
               ELSE [k EXCEPT !.at = "drain", !.chan = o.chan]]
    BY <1>9 DEF SelectClosed, Waiting, k
  <2>2. FlagsOK' /\ BuffersOK' /\ open' = open
    BY <1>5, <1>9 DEF SelectClosed, BuffersOK
  <2>3. o.chan \in Chans /\ ~open[o.chan]
    BY <1>2, <2>1 DEF FlagsOK
  <2>4. CallOK(Outcome(k, "closed", o.chan, NoItem))
    BY <1>1, <2>3, OutcomeOK DEF Results
  <2>5. CallOK([k EXCEPT !.at = "drain", !.chan = o.chan])
    BY <1>1, <1>3, <2>1, <2>3 DEF CallOK, Call, Places, ClosedReports
  <2>6. CallsOK'
    BY <2>1, <2>2, <2>4, <2>5, OneCallOK
  <2> QED BY <2>2, <2>6
<1>10. CASE SelectTimeout(t)
  <2>1. CallOK(Outcome(k, "timeout", NoChan, NoItem))
    BY <1>1, OutcomeOK DEF Results, ClosedReports
  <2>2. CallsOK'
    BY <1>10, <2>1, OneCallOK DEF SelectTimeout, k
  <2> QED BY <1>10, <2>2 DEF SelectTimeout, BuffersOK, FlagsOK
<1>11. CASE Drain(t)
  <2>1. open' = open /\ UNCHANGED <<closeTx, opItem>> /\ k.at = "drain"
    BY <1>11 DEF Drain, k
  <2>2. k.chan \in Chans /\ ~open[k.chan]
    BY <1>4, <2>1
  <2>3. CASE RecvNow(t, k, k.chan)
    <3>1. FlagsOK'
      BY <1>5, <2>1, <2>3
    <3> QED BY <1>1, <2>1, <2>2, <2>3, <3>1, RecvNowOK
  <2>4. CASE EndOfStream(t, k.chan)
    <3>1. FlagsOK'
      BY <1>5, <2>1, <2>2, <2>4 DEF EndOfStream
    <3>2. call[t].res = "none"
      BY <1>3, <2>1 DEF k
    <3> QED BY <2>1, <2>2, <2>4, <3>1, <3>2, EndOfStreamOK
  <2> QED BY <1>11, <2>3, <2>4 DEF Drain, k
<1>12. CASE IterCheck(t)
  <2> DEFINE r == IF ~open[k.chan] /\ NothingThere(k.chan) THEN "stop" ELSE "raised"
  <2>1. k.chan \in Chans /\ ~open[k.chan]
    BY <1>4, <1>12 DEF IterCheck, k
  <2>2. CallOK(Outcome(k, r, k.chan, NoItem))
    BY <1>1, <2>1, OutcomeOK DEF Results
  <2>3. CallsOK'
    BY <1>12, <2>2, OneCallOK DEF IterCheck, k
  <2> QED BY <1>12, <2>3 DEF IterCheck, BuffersOK, FlagsOK
<1>13. CASE CloseSignal(t)
  <2>1. k.chan \in Chans /\ ~open[k.chan]
    BY <1>4, <1>13 DEF CloseSignal, k
  <2>2. CallOK(Outcome(k, "ok", k.chan, NoItem))
    BY <1>1, <2>1, OutcomeOK DEF Results
  <2>3. CallsOK'
    BY <1>13, <2>2, OneCallOK DEF CloseSignal, k
  <2>4. FlagsOK'
    BY <1>13, <2>1 DEF CloseSignal, FlagsOK, k
  <2> QED BY <1>13, <2>3, <2>4 DEF CloseSignal, BuffersOK
<1>14. CASE Return(t)
  <2>1. CallsOK'
    BY <1>14, IdleOK, OneCallOK DEF Return
  <2> QED BY <1>14, <2>1 DEF Return, BuffersOK, FlagsOK
<1> QED BY <1>6, <1>7, <1>8, <1>9, <1>10, <1>11, <1>12, <1>13, <1>14 DEF Step

\* Every step preserves it.
LEMMA NextInv == IInv /\ [Next]_vars => IInv'
<1> SUFFICES ASSUME IInv, [Next]_vars PROVE IInv'
  OBVIOUS
<1>1. CASE \E t \in Threads : Begin(t) \/ Step(t)
  BY <1>1, BeginInv, StepInv
<1>2. CASE \E o \in SendOps : (\E x \in Items : MakeSendOp(o, x)) \/ DropSendOp(o)
  <2>1. FlagsOK' /\ BuffersOK'
    BY <1>2 DEF IInv, FlagsOK, BuffersOK, MakeSendOp, DropSendOp
  <2>2. CallsOK'
    BY <1>2 DEF IInv, CallsOK, CallOK, MakeSendOp, DropSendOp
  <2> QED BY <2>1, <2>2 DEF IInv
<1>3. CASE UNCHANGED vars
  BY <1>3 DEF vars, IInv, FlagsOK, BuffersOK, CallsOK, CallOK
<1> QED BY <1>1, <1>2, <1>3 DEF Next

THEOREM Invariance == Spec => []IInv
BY InitInv, NextInv, PTL DEF Spec

\* TypeOK for every instance: the types, and that no buffer outgrows its
\* capacity (channel.rs:33-36).
THEOREM TypeCorrect == Spec => []TypeOK
<1>1. IInv => TypeOK
  BY DEF IInv, CallsOK, BuffersOK, FlagsOK, TypeOK
<1> QED BY <1>1, Invariance, PTL

\* No call reports a closed or ended channel that is open (channel.rs:200-203).
THEOREM ClosedErrorsTrue == Spec => []ClosedErrorsAreTrue
<1>1. IInv => ClosedErrorsAreTrue
  BY DEF IInv, CallsOK, CallOK, ClosedErrorsAreTrue, ClosedReports
<1> QED BY <1>1, Invariance, PTL

-----------------------------------------------------------------------------
(* close() against later sends: only select() gets past it. *)

\* A call other than select() that began after close() has no operation that
\* sends to the channel.
MaySend(k, c) == c \notin k.late \/ k.kind = "select"

LateOK(k) ==
  /\ \A c \in k.late : c \in Chans /\ ~closeTx[c]
  /\ \A o \in k.ops : o.dir = "send" => MaySend(k, o.chan)
  /\ k.res = "sent" => MaySend(k, k.chan)

LateCallsOK == \A t \in Threads : LateOK(call[t])

LateInv == IInv /\ LateCallsOK

\* The close signals do not come back.
SignalsStay == \A c \in Chans : ~closeTx[c] => ~closeTx'[c]

LEMMA LateStays ==
  ASSUME SignalsStay, NEW k, LateOK(k)
  PROVE  LateOK(k)'
BY DEF SignalsStay, LateOK, MaySend

LEMMA OneLateCall ==
  ASSUME LateInv, SignalsStay, NEW t \in Threads, NEW k, LateOK(k),
         call' = [call EXCEPT ![t] = k]
  PROVE  LateCallsOK'
BY LateStays DEF LateInv, LateCallsOK, IInv, CallsOK

LEMMA OutcomeLate ==
  ASSUME NEW k \in Call, LateOK(k), NEW r, NEW c, NEW x,
         r = "sent" => MaySend(k, c)
  PROVE  LateOK(Outcome(k, r, c, x))
<1> DEFINE j == Outcome(k, r, c, x)
<1>1. j.late = k.late /\ j.ops = k.ops /\ j.res = r /\ j.chan = c /\ j.kind = k.kind
  BY DEF Outcome, Call
<1> HIDE DEF j
<1>2. LateOK(j)
  BY <1>1 DEF LateOK, MaySend
<1> QED BY <1>2 DEF j

LEMMA CalledLate ==
  ASSUME IInv, NEW kind, NEW ops, NEW timed, NEW c, NEW at,
         kind # "select" =>
           \A o \in ops : o.dir = "send" => o.chan \in Chans /\ open[o.chan]
  PROVE  LateOK(Called(kind, ops, timed, c, at))
<1> DEFINE j == Called(kind, ops, timed, c, at)
<1>1. j.late = Closed /\ j.ops = ops /\ j.res = "none" /\ j.kind = kind
  BY DEF Called, IdleCall
<1> HIDE DEF j
<1>2. LateOK(j)
  BY <1>1 DEF LateOK, MaySend, Closed, IInv, FlagsOK
<1> QED BY <1>2 DEF j

LEMMA SendNowLate ==
  ASSUME LateInv, SignalsStay, NEW t \in Threads, NEW k \in Call, LateOK(k),
         NEW c \in Chans, NEW x, SendNow(t, k, c, x), MaySend(k, c)
  PROVE  LateCallsOK'
<1>1. LateOK(Outcome(k, "sent", c, x))
  BY OutcomeLate
<1>2. ASSUME NEW u \in Threads PROVE LateOK(Outcome(call[u], "item", c, x))
  BY OutcomeLate DEF LateInv, LateCallsOK, IInv, CallsOK
<1>3. CASE call' = [call EXCEPT ![t] = Outcome(k, "sent", c, x)]
  BY <1>1, <1>3, OneLateCall
<1>4. CASE \E u \in Threads \ {t} :
             call' = [call EXCEPT ![t] = Outcome(k, "sent", c, x),
                                  ![u] = Outcome(call[u], "item", c, x)]
  BY <1>1, <1>2, <1>4, LateStays DEF LateInv, LateCallsOK, IInv, CallsOK
<1> QED BY <1>3, <1>4 DEF SendNow

LEMMA RecvNowLate ==
  ASSUME LateInv, SignalsStay, NEW t \in Threads, NEW k \in Call, LateOK(k),
         NEW c \in Chans, RecvNow(t, k, c)
  PROVE  LateCallsOK'
<1>1. ASSUME NEW x PROVE LateOK(Outcome(k, "item", c, x))
  BY OutcomeLate
<1>2. ASSUME NEW u \in Threads, NEW x, Waiting(u, SendTo(c, x))
      PROVE  LateOK(Outcome(call[u], "sent", c, x))
  <2>1. MaySend(call[u], c) /\ LateOK(call[u]) /\ call[u] \in Call
    BY <1>2 DEF LateInv, LateCallsOK, LateOK, Waiting, SendTo, IInv, CallsOK
  <2> QED BY <2>1, OutcomeLate
<1>3. CASE call' = [call EXCEPT ![t] = Outcome(k, "item", c, Head(buf[c]))]
  BY <1>1, <1>3, OneLateCall
<1>4. CASE \E u \in Threads \ {t}, x \in Items :
             /\ Waiting(u, SendTo(c, x))
             /\ call' = [call EXCEPT ![t] = Outcome(k, "item", c, x),
                                     ![u] = Outcome(call[u], "sent", c, x)]
  BY <1>1, <1>2, <1>4, LateStays DEF LateInv, LateCallsOK, IInv, CallsOK
<1> QED BY <1>3, <1>4 DEF RecvNow

LEMMA EndOfStreamLate ==
  ASSUME LateInv, SignalsStay, NEW t \in Threads, NEW c, EndOfStream(t, c),
         call[t].res = "none"
  PROVE  LateCallsOK'
<1>1. call[t] \in Call /\ LateOK(call[t])
  BY DEF LateInv, LateCallsOK, IInv, CallsOK
<1>2. LateOK(Outcome(call[t], "closed_and_empty", c, NoItem))
  BY <1>1, OutcomeLate
<1>3. CASE call[t].kind = "next"
  <2> DEFINE j == [call[t] EXCEPT !.at = "check", !.chan = c]
  <2>1. call' = [call EXCEPT ![t] = j]
    BY <1>3 DEF EndOfStream
  <2>2. j.late = call[t].late /\ j.ops = call[t].ops /\ j.res = "none" /\ j.kind = call[t].kind
    BY <1>1 DEF Call
  <2> HIDE DEF j
  <2>3. LateOK(j)
    BY <1>1, <2>2 DEF LateOK, MaySend
  <2> QED BY <2>1, <2>3, OneLateCall
<1>4. CASE call[t].kind # "next"
  BY <1>2, <1>4, OneLateCall DEF EndOfStream
<1> QED BY <1>3, <1>4

-----------------------------------------------------------------------------
LEMMA BeginLate ==
  ASSUME LateInv, SignalsStay, NEW t \in Threads, Begin(t)
  PROVE  LateCallsOK'
<1>1. IInv /\ FlagsOK
  BY DEF LateInv, IInv
<1>2. ASSUME NEW c \in Chans, NEW x \in Items, NEW timed \in BOOLEAN, Send(t, c, x, timed)
      PROVE  LateCallsOK'
  <2>1. SendTo(c, x).chan = c
    BY DEF SendTo
  <2>2. CASE open[c]
    <3>1. LateOK(Called("send", {SendTo(c, x)}, timed, c, IF timed THEN "select" ELSE "try"))
      BY <1>1, <2>1, <2>2, CalledLate
    <3> QED BY <1>2, <2>2, <3>1, OneLateCall DEF Send
  <2>3. CASE ~open[c]
    <3>1. Called("send", {}, timed, c, "try") \in Call
      BY CalledOK DEF CallOK, Kinds
    <3>2. LateOK(Called("send", {}, timed, c, "try"))
      BY <1>1, CalledLate
    <3>3. LateOK(Outcome(Called("send", {}, timed, c, "try"), "closed", c, NoItem))
      BY <3>1, <3>2, OutcomeLate
    <3> QED BY <1>2, <2>3, <3>3, OneLateCall DEF Send
  <2> QED BY <2>2, <2>3
<1>3. ASSUME NEW c \in Chans, NEW kind \in {"recv", "next"}, NEW timed \in BOOLEAN,
             Recv(t, c, kind, timed)
      PROVE  LateCallsOK'
  <2>1. RecvFrom(c).dir # "send"
    BY DEF RecvFrom
  <2>2. LateOK(Called(kind, {RecvFrom(c)}, timed, c, IF timed THEN "select" ELSE "try"))
    BY <1>1, <2>1, CalledLate
  <2> QED BY <1>3, <2>2, OneLateCall DEF Recv
<1>4. ASSUME NEW c \in Chans, NEW x \in Items, TrySend(t, c, x)
      PROVE  LateCallsOK'
  <2> DEFINE k == Called("try_send", {}, FALSE, c, "try")
  <2>1. k \in Call
    BY CalledOK DEF CallOK, Kinds
  <2>2. LateOK(k) /\ k.late = Closed
    BY <1>1, CalledLate DEF Called, IdleCall
  <2> HIDE DEF k
  <2>3. CASE open[c] /\ SendNow(t, k, c, x)
    <3>1. MaySend(k, c)
      BY <1>1, <2>2, <2>3 DEF Closed, FlagsOK, MaySend
    <3> QED BY <2>1, <2>2, <2>3, <3>1, SendNowLate
  <2>4. CASE call' = [call EXCEPT ![t] =
                Outcome(k, IF open[c] THEN "full" ELSE "closed", c, NoItem)]
    <3>1. LateOK(Outcome(k, IF open[c] THEN "full" ELSE "closed", c, NoItem))
      BY <2>1, <2>2, OutcomeLate
    <3> QED BY <2>4, <3>1, OneLateCall
  <2> QED BY <1>4, <2>3, <2>4 DEF TrySend, k
<1>5. ASSUME NEW c \in Chans, TryRecv(t, c)
      PROVE  LateCallsOK'
  <2> DEFINE k == Called("try_recv", {}, FALSE, c, "try")
  <2>1. k \in Call
    BY CalledOK DEF CallOK, Kinds
  <2>2. LateOK(k)
    BY <1>1, CalledLate
  <2> HIDE DEF k
  <2>3. CASE RecvNow(t, k, c)
    BY <2>1, <2>2, <2>3, RecvNowLate
  <2>4. CASE call' = [call EXCEPT ![t] = Outcome(k,
                IF Disconnected(c) THEN "closed_and_empty" ELSE "empty", c, NoItem)]
    <3>1. LateOK(Outcome(k, IF Disconnected(c) THEN "closed_and_empty" ELSE "empty", c, NoItem))
      BY <2>1, <2>2, OutcomeLate
    <3> QED BY <2>4, <3>1, OneLateCall
  <2> QED BY <1>5, <2>3, <2>4 DEF TryRecv, k
<1>6. ASSUME NEW c \in Chans, CloseSender(t, c)
      PROVE  LateCallsOK'
  <2>1. LateOK(Called("close", {}, FALSE, c, "signal"))
    BY <1>1, CalledLate
  <2> QED BY <1>6, <2>1, OneLateCall DEF CloseSender
<1>7. ASSUME NEW recvs \in SUBSET Chans, NEW sends \in SUBSET SendOps, NEW timed \in BOOLEAN,
             Select(t, recvs, sends, timed)
      PROVE  LateCallsOK'
  <2> DEFINE ops == {RecvFrom(c) : c \in recvs} \cup {SendTo(OpChan[o], opItem[o]) : o \in sends}
  <2> HIDE DEF ops
  <2>1. LateOK(Called("select", ops, timed, NoChan, "select"))
    BY <1>1, CalledLate
  <2> QED BY <1>7, <2>1, OneLateCall DEF Select, ops
<1> QED BY <1>2, <1>3, <1>4, <1>5, <1>6, <1>7 DEF Begin

LEMMA StepLate ==
  ASSUME LateInv, SignalsStay, NEW t \in Threads, Step(t)
  PROVE  LateCallsOK'
<1> DEFINE k == call[t]
<1>1. k \in Call /\ LateOK(k)
  BY DEF LateInv, LateCallsOK, IInv, CallsOK
<1>2. ASSUME NEW o \in k.ops
      PROVE  o.chan \in Chans /\ (o.dir = "send" => MaySend(k, o.chan))
  BY <1>1 DEF LateOK, Call, Operation
<1>3. ASSUME NEW j \in {"select", "drain"}, NEW d, k.res = "none"
      PROVE  LateOK([k EXCEPT !.at = j]) /\ LateOK([k EXCEPT !.at = j, !.chan = d])
  BY <1>1, <1>3 DEF LateOK, MaySend, Call
<1>4. k.at # "return" => k.res = "none"
  BY DEF LateInv, IInv, CallsOK, CallOK
<1>5. k.at = "drain" => k.chan \in Chans
  BY DEF LateInv, IInv, CallsOK, CallOK
<1>6. ASSUME NEW r, r # "sent", NEW c, call' = [call EXCEPT ![t] = Outcome(k, r, c, NoItem)]
      PROVE  LateCallsOK'
  <2>1. LateOK(Outcome(k, r, c, NoItem))
    BY <1>1, <1>6, OutcomeLate
  <2> QED BY <1>6, <2>1, OneLateCall
<1> HIDE DEF k
<1>7. CASE FirstAttempt(t)
  <2>1. PICK o \in k.ops :
          \/ o.dir = "send" /\ SendNow(t, k, o.chan, o.item)
          \/ o.dir = "recv" /\ RecvNow(t, k, o.chan)
          \/ call' = [call EXCEPT ![t] = [k EXCEPT !.at = "select"]]
    BY <1>7 DEF FirstAttempt, k
  <2>2. k.res = "none"
    BY <1>4, <1>7 DEF FirstAttempt, k
  <2>3. CASE o.dir = "send" /\ SendNow(t, k, o.chan, o.item)
    BY <1>1, <1>2, <2>3, SendNowLate
  <2>4. CASE o.dir = "recv" /\ RecvNow(t, k, o.chan)
    BY <1>1, <1>2, <2>4, RecvNowLate
  <2>5. CASE call' = [call EXCEPT ![t] = [k EXCEPT !.at = "select"]]
    BY <1>3, <2>2, <2>5, OneLateCall
  <2> QED BY <2>1, <2>3, <2>4, <2>5
<1>8. CASE SelectSend(t)
  <2>1. PICK o \in k.ops : o.dir = "send" /\ SendNow(t, k, o.chan, o.item)
    BY <1>8 DEF SelectSend, k
  <2> QED BY <1>1, <1>2, <2>1, SendNowLate
<1>9. CASE SelectRecv(t)
  <2>1. PICK o \in k.ops : RecvNow(t, k, o.chan) \/ EndOfStream(t, o.chan)
    BY <1>9 DEF SelectRecv, k
  <2>2. call[t].res = "none"
    BY <1>4, <1>9 DEF SelectRecv, Waiting, k
  <2> QED BY <1>1, <1>2, <2>1, <2>2, RecvNowLate, EndOfStreamLate
<1>10. CASE SelectClosed(t)
  <2>1. PICK o \in k.ops :
          call' = [call EXCEPT ![t] =
               IF o.dir = "send" THEN Outcome(k, "closed", o.chan, NoItem)
               ELSE [k EXCEPT !.at = "drain", !.chan = o.chan]]
    BY <1>10 DEF SelectClosed, k
  <2>2. k.res = "none"
    BY <1>4, <1>10 DEF SelectClosed, Waiting, k
  <2>3. LateOK([k EXCEPT !.at = "drain", !.chan = o.chan])
    BY <1>3, <2>2
  <2>4. CASE o.dir = "send"
    BY <1>6, <2>1, <2>4
  <2>5. CASE o.dir # "send"
    BY <2>1, <2>3, <2>5, OneLateCall
  <2> QED BY <2>4, <2>5
<1>11. CASE SelectTimeout(t)
  BY <1>6, <1>11 DEF SelectTimeout, k
<1>12. CASE Drain(t)
  <2>1. RecvNow(t, k, k.chan) \/ EndOfStream(t, k.chan)
    BY <1>12 DEF Drain, k
  <2>2. k.chan \in Chans /\ call[t].res = "none"
    BY <1>4, <1>5, <1>12 DEF Drain, k
  <2> QED BY <1>1, <2>1, <2>2, RecvNowLate, EndOfStreamLate
<1>13. CASE IterCheck(t)
  BY <1>6, <1>13 DEF IterCheck, k
<1>14. CASE CloseSignal(t)
  BY <1>6, <1>14 DEF CloseSignal, k
<1>15. CASE Return(t)
  <2>1. LateOK(IdleCall)
    BY DEF LateOK, IdleCall
  <2> QED BY <1>15, <2>1, OneLateCall DEF Return
<1> QED BY <1>7, <1>8, <1>9, <1>10, <1>11, <1>12, <1>13, <1>14, <1>15 DEF Step

\* send() and try_send() that begin after close() has returned do not send; only
\* a select() with an older SendOp does (channel.rs:52-55, 166-167).
THEOREM CloseStopsSends == Spec => []LateSendsAreSelects
<1>1. Init => LateInv
  BY InitInv DEF Init, LateInv, LateCallsOK, LateOK, IdleCall
<1>2. LateInv /\ [Next]_vars => LateInv'
  <2> SUFFICES ASSUME LateInv, [Next]_vars PROVE LateInv'
    OBVIOUS
  <2>1. IInv'
    BY NextInv DEF LateInv
  <2>2. SignalsStay
    BY DEF Next, Begin, Step, Send, Recv, FirstAttempt, TrySend, TryRecv, CloseSender,
      CloseSignal, MakeSendOp, DropSendOp, Select, SelectSend, SelectRecv, SelectClosed,
      SelectTimeout, Drain, IterCheck, Return, vars, SignalsStay, LateInv, IInv, FlagsOK
  <2>3. CASE \E t \in Threads : Begin(t) \/ Step(t)
    BY <2>1, <2>2, <2>3, BeginLate, StepLate DEF LateInv
  <2>4. CASE call' = call
    BY <2>1, <2>2, <2>4, LateStays DEF LateInv, LateCallsOK
  <2> QED BY <2>3, <2>4 DEF Next, MakeSendOp, DropSendOp, vars
<1>3. LateInv => LateSendsAreSelects
  BY DEF LateInv, LateCallsOK, LateOK, MaySend, LateSendsAreSelects
<1> QED BY <1>1, <1>2, <1>3, PTL DEF Spec
-----------------------------------------------------------------------------
(* Every item is accounted for. *)

\* The positions of x in s, which Count counts.
PositionsOf(s, x) == {i \in DOMAIN s : s[i] = x}

LEMMA PositionsFinite ==
  ASSUME NEW s \in Seq(Items), NEW x
  PROVE  IsFiniteSet(PositionsOf(s, x)) /\ Count(s, x) = Cardinality(PositionsOf(s, x))
         /\ Count(s, x) \in Nat
<1>1. DOMAIN s = 1..Len(s) /\ Len(s) \in Int
  OBVIOUS
<1>2. IsFiniteSet(1..Len(s))
  BY <1>1, FS_Interval
<1>3. PositionsOf(s, x) \in SUBSET (1..Len(s))
  BY <1>1 DEF PositionsOf
<1>4. IsFiniteSet(PositionsOf(s, x))
  BY <1>2, <1>3, FS_Subset
<1>5. Count(s, x) = Cardinality(PositionsOf(s, x))
  BY DEF Count, PositionsOf
<1> QED BY <1>4, <1>5, FS_CardinalityType

\* An item at the end counts for itself.
LEMMA CountAppend ==
  ASSUME NEW s \in Seq(Items), NEW x \in Items, NEW y \in Items
  PROVE  Count(Append(s, x), y) = Count(s, y) + (IF x = y THEN 1 ELSE 0)
<1> DEFINE z == Append(s, x)
           n == Len(s)
           A == PositionsOf(s, y)
           B == PositionsOf(Append(s, x), y)
<1>1. n \in Nat /\ DOMAIN s = 1..n /\ z \in Seq(Items)
  OBVIOUS
<1>2. DOMAIN z = 1..(n + 1) /\ z[n + 1] = x /\ \A i \in 1..n : z[i] = s[i]
  BY AppendProperties
<1>3. Count(z, y) = Cardinality(B) /\ Count(s, y) = Cardinality(A)
      /\ IsFiniteSet(A) /\ Cardinality(A) \in Nat
  BY <1>1, PositionsFinite
<1>4. B = {i \in 1..(n + 1) : z[i] = y} /\ A = {i \in 1..n : s[i] = y}
  BY <1>1, <1>2 DEF PositionsOf
<1> HIDE DEF z, A, B, n
<1>5. CASE x = y
  <2>1. B = A \cup {n + 1} /\ n + 1 \notin A
    BY <1>1, <1>2, <1>4, <1>5
  <2>2. Cardinality(B) = Cardinality(A) + 1
    BY <1>3, <2>1, FS_AddElement
  <2> QED BY <1>3, <1>5, <2>2 DEF z
<1>6. CASE x # y
  <2>1. B = A
    BY <1>1, <1>2, <1>4, <1>6
  <2> QED BY <1>3, <1>6, <2>1 DEF z
<1> QED BY <1>5, <1>6

\* The item at the front counts for itself.
LEMMA CountTail ==
  ASSUME NEW s \in Seq(Items), s # <<>>, NEW y \in Items
  PROVE  Count(s, y) = Count(Tail(s), y) + (IF Head(s) = y THEN 1 ELSE 0)
<1> DEFINE z == Tail(s)
           n == Len(s)
           A == PositionsOf(s, y)
           B == PositionsOf(Tail(s), y)
           D == {i \in 2..Len(s) : s[i] = y}
           f == [i \in B |-> i + 1]
<1>1. n \in Nat /\ n >= 1 /\ DOMAIN s = 1..n /\ z \in Seq(Items) /\ Head(s) = s[1]
  OBVIOUS
<1>2. DOMAIN z = 1..(n - 1) /\ \A i \in 1..(n - 1) : z[i] = s[i + 1]
  BY HeadTailProperties
<1>3. /\ Count(s, y) = Cardinality(A) /\ Count(z, y) = Cardinality(B)
      /\ IsFiniteSet(A) /\ IsFiniteSet(B)
  BY <1>1, PositionsFinite
<1>4. A = {i \in 1..n : s[i] = y} /\ B = {i \in 1..(n - 1) : z[i] = y}
  BY <1>1, <1>2 DEF PositionsOf
<1>5. D = {i \in 2..n : s[i] = y}
  OBVIOUS
<1>h. Count(Tail(s), y) = Count(z, y)
  OBVIOUS
<1> HIDE DEF z, A, B, D, n
<1>6. D \in SUBSET A /\ IsFiniteSet(D)
  <2>1. D \in SUBSET A
    BY <1>1, <1>4, <1>5
  <2> QED BY <1>3, <2>1, FS_Subset
<1>7. f \in Bijection(B, D)
  <2>1. \A i \in B : f[i] \in D
    BY <1>1, <1>2, <1>4, <1>5
  <2>2. f \in [B -> D]
    BY <2>1
  <2>3. \A i, j \in B : f[i] = f[j] => i = j
    BY <1>1, <1>4
  <2>4. \A j \in D : \E i \in B : f[i] = j
    <3> SUFFICES ASSUME NEW j \in D PROVE \E i \in B : f[i] = j
      OBVIOUS
    <3>1. j - 1 \in 1..(n - 1) /\ (j - 1) + 1 = j /\ s[j] = y
      BY <1>1, <1>5
    <3>2. j - 1 \in B
      BY <1>2, <1>4, <3>1
    <3>3. f[j - 1] = j
      BY <3>1, <3>2
    <3> QED BY <3>2, <3>3
  <2> HIDE DEF f
  <2> QED BY <2>2, <2>3, <2>4, Fun_IsBij
<1>8. Cardinality(B) = Cardinality(D)
  <2>1. ExistsBijection(B, D)
    BY <1>7 DEF ExistsBijection
  <2> QED BY <1>3, <2>1, FS_Bijection
<1>9. Cardinality(D) \in Nat
  BY <1>6, FS_CardinalityType
<1>10. CASE s[1] = y
  <2>1. A = D \cup {1} /\ 1 \notin D
    BY <1>1, <1>4, <1>5, <1>10
  <2>2. Cardinality(A) = Cardinality(D) + 1
    BY <1>6, <2>1, FS_AddElement
  <2> QED BY <1>h, <1>1, <1>3, <1>8, <1>10, <2>2
<1>11. CASE s[1] # y
  <2>1. A = D
    BY <1>1, <1>4, <1>5, <1>11
  <2> QED BY <1>h, <1>1, <1>3, <1>8, <1>9, <1>11, <2>1
<1> QED BY <1>10, <1>11

\* Thread t returns with a report in this step.
Reported(t, r, c, x) ==
  /\ call[t].at # "return" /\ call'[t].at = "return"
  /\ call'[t].res = r /\ call'[t].chan = c /\ call'[t].item = x

\* These are all the reports of moved items in this step.
ReportsAre(S) ==
  \A t \in Threads, r \in {"sent", "item"}, c \in Chans, x \in Items :
    Reported(t, r, c, x) <=> <<t, r, c, x>> \in S

LEMMA ReportsCounted ==
  ASSUME NEW S, ReportsAre(S), NEW r \in {"sent", "item"}, NEW c \in Chans, NEW x \in Items
  PROVE  /\ (\A t \in Threads : <<t, r, c, x>> \notin S) => Reports(r, c, x) = 0
         /\ \A u \in Threads : (\A t \in Threads : <<t, r, c, x>> \in S <=> t = u)
                                 => Reports(r, c, x) = 1
<1> DEFINE R == {t \in Threads : <<t, r, c, x>> \in S}
<1>1. {t \in Threads : Reported(t, r, c, x)} = R
  BY DEF ReportsAre
<1>2. Reports(r, c, x) = Cardinality(R)
  BY <1>1 DEF Reports, Reported
<1>3. (\A t \in Threads : <<t, r, c, x>> \notin S) => R = {}
  OBVIOUS
<1>4. \A u \in Threads : (\A t \in Threads : <<t, r, c, x>> \in S <=> t = u) => R = {u}
  OBVIOUS
<1> HIDE DEF R
<1> QED BY <1>2, <1>3, <1>4, FS_EmptySet, FS_Singleton

\* What goes in and out of c is reported.
Balanced(c, x) ==
  Count(buf[c], x) + Reports("sent", c, x) = Count(buf'[c], x) + Reports("item", c, x)

AllBalanced == \A c \in Chans, x \in Items : Balanced(c, x)

\* An item is stored and its sender reports it.
LEMMA StoredBalanced ==
  ASSUME BuffersOK, NEW t \in Threads, NEW c \in Chans, NEW x \in Items,
         buf' = [buf EXCEPT ![c] = Append(@, x)], ReportsAre({<<t, "sent", c, x>>})
  PROVE  AllBalanced
<1> SUFFICES ASSUME NEW d \in Chans, NEW y \in Items PROVE Balanced(d, y)
  BY DEF AllBalanced
<1> DEFINE S == {<<t, "sent", c, x>>}
<1>1. buf[c] \in Seq(Items) /\ buf[d] \in Seq(Items) /\ DOMAIN buf = Chans
  BY DEF BuffersOK
<1>2. Count(buf[c], y) \in Nat /\ Count(buf[d], y) \in Nat
  BY <1>1, PositionsFinite
<1>3. Reports("item", d, y) = 0
  <2>1. \A u \in Threads : <<u, "item", d, y>> \notin S
    OBVIOUS
  <2> QED BY <2>1, ReportsCounted
<1>4. CASE d = c /\ y = x
  <2>1. \A u \in Threads : <<u, "sent", d, y>> \in S <=> u = t
    BY <1>4
  <2>2. Reports("sent", d, y) = 1
    BY <2>1, ReportsCounted
  <2>3. Count(Append(buf[c], x), y) = Count(buf[c], y) + 1
    BY <1>1, <1>4, CountAppend
  <2>4. buf'[d] = Append(buf[c], x) /\ buf[d] = buf[c]
    BY <1>1, <1>4
  <2> QED BY <1>2, <1>3, <2>2, <2>3, <2>4 DEF Balanced
<1>5. CASE ~(d = c /\ y = x)
  <2>1. \A u \in Threads : <<u, "sent", d, y>> \notin S
    BY <1>5
  <2>2. Reports("sent", d, y) = 0
    BY <2>1, ReportsCounted
  <2>3. Count(buf'[d], y) = Count(buf[d], y)
    <3>1. CASE d = c
      <4>1. Count(Append(buf[c], x), y) = Count(buf[c], y) + 0
        BY <1>1, <1>5, <3>1, CountAppend
      <4>2. buf'[d] = Append(buf[c], x) /\ buf[d] = buf[c]
        BY <1>1, <3>1
      <4> QED BY <1>2, <4>1, <4>2
    <3>2. CASE d # c
      BY <1>1, <3>2
    <3> QED BY <3>1, <3>2
  <2> QED BY <1>2, <1>3, <2>2, <2>3 DEF Balanced
<1> QED BY <1>4, <1>5

\* An item is taken and its receiver reports it.
LEMMA TakenBalanced ==
  ASSUME BuffersOK, NEW t \in Threads, NEW c \in Chans, NEW x, buf[c] # <<>>, x = Head(buf[c]),
         buf' = [buf EXCEPT ![c] = Tail(@)], ReportsAre({<<t, "item", c, x>>})
  PROVE  AllBalanced
<1> SUFFICES ASSUME NEW d \in Chans, NEW y \in Items PROVE Balanced(d, y)
  BY DEF AllBalanced
<1> DEFINE S == {<<t, "item", c, x>>}
<1>1. buf[c] \in Seq(Items) /\ buf[d] \in Seq(Items) /\ DOMAIN buf = Chans
      /\ Tail(buf[c]) \in Seq(Items)
  BY DEF BuffersOK
<1>2. Count(Tail(buf[c]), y) \in Nat /\ Count(buf[d], y) \in Nat
  BY <1>1, PositionsFinite
<1>3. Reports("sent", d, y) = 0
  <2>1. \A u \in Threads : <<u, "sent", d, y>> \notin S
    OBVIOUS
  <2> QED BY <2>1, ReportsCounted
<1>4. Count(buf[c], y) = Count(Tail(buf[c]), y) + (IF x = y THEN 1 ELSE 0)
  BY <1>1, CountTail
<1>5. CASE d = c /\ y = x
  <2>1. \A u \in Threads : <<u, "item", d, y>> \in S <=> u = t
    BY <1>5
  <2>2. Reports("item", d, y) = 1
    BY <2>1, ReportsCounted
  <2>3. buf'[d] = Tail(buf[c]) /\ buf[d] = buf[c]
    BY <1>1, <1>5
  <2> QED BY <1>2, <1>3, <1>4, <1>5, <2>2, <2>3 DEF Balanced
<1>6. CASE ~(d = c /\ y = x)
  <2>1. \A u \in Threads : <<u, "item", d, y>> \notin S
    BY <1>6
  <2>2. Reports("item", d, y) = 0
    BY <2>1, ReportsCounted
  <2>3. Count(buf'[d], y) = Count(buf[d], y)
    <3>1. CASE d = c
      <4>1. buf'[d] = Tail(buf[c]) /\ buf[d] = buf[c] /\ x # y
        BY <1>1, <1>6, <3>1
      <4> QED BY <1>2, <1>4, <4>1
    <3>2. CASE d # c
      BY <1>1, <3>2
    <3> QED BY <3>1, <3>2
  <2> QED BY <1>2, <1>3, <2>2, <2>3 DEF Balanced
<1> QED BY <1>5, <1>6

\* An item goes from hand to hand, and both report it.
LEMMA HandedBalanced ==
  ASSUME NEW t \in Threads, NEW u \in Threads, NEW c, NEW x, UNCHANGED buf,
         ReportsAre({<<t, "sent", c, x>>, <<u, "item", c, x>>})
  PROVE  AllBalanced
<1> SUFFICES ASSUME NEW d \in Chans, NEW y \in Items PROVE Balanced(d, y)
  BY DEF AllBalanced
<1> DEFINE S == {<<t, "sent", c, x>>, <<u, "item", c, x>>}
<1>1. CASE d = c /\ y = x
  <2>1. \A w \in Threads : <<w, "sent", d, y>> \in S <=> w = t
    BY <1>1
  <2>2. \A w \in Threads : <<w, "item", d, y>> \in S <=> w = u
    BY <1>1
  <2>3. Reports("sent", d, y) = 1 /\ Reports("item", d, y) = 1
    BY <2>1, <2>2, ReportsCounted
  <2> QED BY <2>3 DEF Balanced
<1>2. CASE ~(d = c /\ y = x)
  <2>1. \A w \in Threads : <<w, "sent", d, y>> \notin S /\ <<w, "item", d, y>> \notin S
    BY <1>2
  <2>2. Reports("sent", d, y) = 0 /\ Reports("item", d, y) = 0
    BY <2>1, ReportsCounted
  <2> QED BY <2>2 DEF Balanced
<1> QED BY <1>1, <1>2

\* Nothing moves and nobody reports.
LEMMA QuietBalanced ==
  ASSUME UNCHANGED buf, ReportsAre({})
  PROVE  AllBalanced
<1> SUFFICES ASSUME NEW d \in Chans, NEW y \in Items PROVE Balanced(d, y)
  BY DEF AllBalanced
<1>1. Reports("sent", d, y) = 0 /\ Reports("item", d, y) = 0
  BY ReportsCounted
<1> QED BY <1>1 DEF Balanced
\* Only one thread goes on, and it does not return with an item moved.
LEMMA OneQuiet ==
  ASSUME CallsOK, NEW t \in Threads, NEW k, call' = [call EXCEPT ![t] = k], UNCHANGED buf,
         call[t].at = "return" \/ k.at # "return" \/ k.res \notin {"sent", "item"}
  PROVE  AllBalanced
<1>1. DOMAIN call = Threads
  BY DEF CallsOK
<1>2. call'[t] = k /\ \A u \in Threads \ {t} : call'[u] = call[u]
  BY <1>1
<1>3. ReportsAre({})
  <2> SUFFICES ASSUME NEW u \in Threads, NEW r \in {"sent", "item"}, NEW c \in Chans, NEW x \in Items,
                      Reported(u, r, c, x)
               PROVE  FALSE
    BY DEF ReportsAre
  <2>1. CASE u = t
    BY <1>2, <2>1 DEF Reported
  <2>2. CASE u # t
    BY <1>2, <2>2 DEF Reported
  <2> QED BY <2>1, <2>2
<1> QED BY <1>3, QuietBalanced

LEMMA OutcomeFields ==
  ASSUME NEW k \in Call, NEW r, NEW c, NEW x
  PROVE  /\ Outcome(k, r, c, x).at = "return" /\ Outcome(k, r, c, x).res = r
         /\ Outcome(k, r, c, x).chan = c /\ Outcome(k, r, c, x).item = x
BY DEF Outcome, Call

LEMMA OneQuietOutcome ==
  ASSUME CallsOK, NEW t \in Threads, NEW k \in Call, NEW r, NEW c, NEW x,
         r \notin {"sent", "item"}, call' = [call EXCEPT ![t] = Outcome(k, r, c, x)], UNCHANGED buf
  PROVE  AllBalanced
<1> DEFINE j == Outcome(k, r, c, x)
<1>1. j.res \notin {"sent", "item"} /\ call' = [call EXCEPT ![t] = j]
  BY OutcomeFields
<1> HIDE DEF j
<1> QED BY <1>1, OneQuiet

\* One thread moves an item and reports it.
LEMMA OneReports ==
  ASSUME CallsOK, NEW t \in Threads, NEW k \in Call, call[t].at # "return",
         NEW r \in {"sent", "item"}, NEW c, NEW x,
         call' = [call EXCEPT ![t] = Outcome(k, r, c, x)]
  PROVE  ReportsAre({<<t, r, c, x>>})
<1>1. DOMAIN call = Threads
  BY DEF CallsOK
<1>2. call'[t] = Outcome(k, r, c, x) /\ \A u \in Threads \ {t} : call'[u] = call[u]
  BY <1>1
<1>3. call'[t].at = "return" /\ call'[t].res = r /\ call'[t].chan = c /\ call'[t].item = x
  BY <1>2, OutcomeFields
<1> SUFFICES ASSUME NEW u \in Threads, NEW s \in {"sent", "item"}, NEW d \in Chans, NEW y \in Items
             PROVE  Reported(u, s, d, y) <=> <<u, s, d, y>> = <<t, r, c, x>>
  BY DEF ReportsAre
<1>4. CASE u = t
  BY <1>3, <1>4 DEF Reported
<1>5. CASE u # t
  BY <1>2, <1>5 DEF Reported
<1> QED BY <1>4, <1>5

\* Two threads hand an item over, and both report it.
LEMMA BothReport ==
  ASSUME CallsOK, NEW t \in Threads, NEW u \in Threads \ {t}, NEW k \in Call,
         call[t].at # "return", call[u].at # "return",
         NEW r \in {"sent", "item"}, NEW s \in {"sent", "item"}, NEW c, NEW x,
         call' = [call EXCEPT ![t] = Outcome(k, r, c, x), ![u] = Outcome(call[u], s, c, x)]
  PROVE  ReportsAre({<<t, r, c, x>>, <<u, s, c, x>>})
<1>1. DOMAIN call = Threads /\ call[u] \in Call
  BY DEF CallsOK
<1>2. /\ call'[t] = Outcome(k, r, c, x) /\ call'[u] = Outcome(call[u], s, c, x)
      /\ \A w \in Threads \ {t, u} : call'[w] = call[w]
  BY <1>1
<1>3. /\ call'[t].at = "return" /\ call'[t].res = r /\ call'[t].chan = c /\ call'[t].item = x
      /\ call'[u].at = "return" /\ call'[u].res = s /\ call'[u].chan = c /\ call'[u].item = x
  BY <1>1, <1>2, OutcomeFields
<1> SUFFICES ASSUME NEW w \in Threads, NEW p \in {"sent", "item"}, NEW d \in Chans, NEW y \in Items
             PROVE  Reported(w, p, d, y) <=>
                      <<w, p, d, y>> = <<t, r, c, x>> \/ <<w, p, d, y>> = <<u, s, c, x>>
  BY DEF ReportsAre
<1>4. CASE w = t
  BY <1>3, <1>4 DEF Reported
<1>5. CASE w = u
  BY <1>3, <1>5 DEF Reported
<1>6. CASE w \notin {t, u}
  BY <1>2, <1>6 DEF Reported
<1> QED BY <1>4, <1>5, <1>6

LEMMA SendNowBalanced ==
  ASSUME CallsOK, BuffersOK, NEW t \in Threads, NEW k \in Call, call[t].at # "return",
         NEW c \in Chans, NEW x \in Items, SendNow(t, k, c, x)
  PROVE  AllBalanced
<1>1. CASE /\ buf' = [buf EXCEPT ![c] = Append(@, x)]
           /\ call' = [call EXCEPT ![t] = Outcome(k, "sent", c, x)]
  <2>1. ReportsAre({<<t, "sent", c, x>>})
    BY <1>1, OneReports
  <2> QED BY <1>1, <2>1, StoredBalanced
<1>2. CASE /\ \E u \in Threads \ {t} :
                /\ Waiting(u, RecvFrom(c))
                /\ call' = [call EXCEPT ![t] = Outcome(k, "sent", c, x),
                                        ![u] = Outcome(call[u], "item", c, x)]
           /\ UNCHANGED buf
  <2>1. PICK u \in Threads \ {t} :
          /\ Waiting(u, RecvFrom(c))
          /\ call' = [call EXCEPT ![t] = Outcome(k, "sent", c, x),
                                  ![u] = Outcome(call[u], "item", c, x)]
    BY <1>2
  <2>2. call[u].at # "return"
    BY <2>1 DEF Waiting
  <2>3. ReportsAre({<<t, "sent", c, x>>, <<u, "item", c, x>>})
    BY <2>1, <2>2, BothReport
  <2> QED BY <1>2, <2>3, HandedBalanced
<1> QED BY <1>1, <1>2 DEF SendNow

LEMMA RecvNowBalanced ==
  ASSUME CallsOK, BuffersOK, NEW t \in Threads, NEW k \in Call, call[t].at # "return",
         NEW c \in Chans, RecvNow(t, k, c)
  PROVE  AllBalanced
<1>1. CASE /\ buf[c] # <<>>
           /\ buf' = [buf EXCEPT ![c] = Tail(@)]
           /\ call' = [call EXCEPT ![t] = Outcome(k, "item", c, Head(buf[c]))]
  <2>1. ReportsAre({<<t, "item", c, Head(buf[c])>>})
    BY <1>1, OneReports
  <2> QED BY <1>1, <2>1, TakenBalanced
<1>2. CASE /\ \E u \in Threads \ {t}, x \in Items :
                /\ Waiting(u, SendTo(c, x))
                /\ call' = [call EXCEPT ![t] = Outcome(k, "item", c, x),
                                        ![u] = Outcome(call[u], "sent", c, x)]
           /\ UNCHANGED buf
  <2>1. PICK u \in Threads \ {t}, x \in Items :
          /\ Waiting(u, SendTo(c, x))
          /\ call' = [call EXCEPT ![t] = Outcome(k, "item", c, x),
                                  ![u] = Outcome(call[u], "sent", c, x)]
    BY <1>2
  <2>2. call[u].at # "return"
    BY <2>1 DEF Waiting
  <2>3. ReportsAre({<<t, "item", c, x>>, <<u, "sent", c, x>>})
    BY <2>1, <2>2, BothReport
  <2>4. {<<t, "item", c, x>>, <<u, "sent", c, x>>} = {<<u, "sent", c, x>>, <<t, "item", c, x>>}
    OBVIOUS
  <2> QED BY <1>2, <2>3, <2>4, HandedBalanced
<1> QED BY <1>1, <1>2 DEF RecvNow

LEMMA EndOfStreamBalanced ==
  ASSUME CallsOK, NEW t \in Threads, NEW c, EndOfStream(t, c)
  PROVE  AllBalanced
<1>1. call[t] \in Call /\ UNCHANGED buf
  BY DEF CallsOK, EndOfStream
<1>2. CASE call[t].kind = "next"
  <2> DEFINE j == [call[t] EXCEPT !.at = "check", !.chan = c]
  <2>1. call' = [call EXCEPT ![t] = j] /\ j.at # "return"
    BY <1>1, <1>2 DEF EndOfStream, Call
  <2> HIDE DEF j
  <2> QED BY <1>1, <2>1, OneQuiet
<1>3. CASE call[t].kind # "next"
  <2> DEFINE r == "closed_and_empty"
             k == call[t]
  <2>1. r \notin {"sent", "item"} /\ k \in Call /\ call' = [call EXCEPT ![t] = Outcome(k, r, c, NoItem)]
    BY <1>1, <1>3 DEF EndOfStream
  <2> HIDE DEF r, k
  <2> QED BY <1>1, <2>1, OneQuietOutcome
<1> QED BY <1>2, <1>3

LEMMA CalledPlace ==
  ASSUME NEW kind, NEW ops, NEW timed, NEW c, NEW at
  PROVE  Called(kind, ops, timed, c, at).at = at
BY DEF Called, IdleCall

LEMMA BeginBalanced ==
  ASSUME IInv, NEW t \in Threads, Begin(t)
  PROVE  AllBalanced
<1> USE DEF IInv
<1>1. ASSUME NEW kind, NEW ops, NEW timed, NEW c, NEW at, at # "return", UNCHANGED buf,
             call' = [call EXCEPT ![t] = Called(kind, ops, timed, c, at)]
      PROVE  AllBalanced
  <2> DEFINE j == Called(kind, ops, timed, c, at)
  <2>1. j.at # "return" /\ call' = [call EXCEPT ![t] = j]
    BY <1>1, CalledPlace
  <2> HIDE DEF j
  <2> QED BY <1>1, <2>1, OneQuiet
<1>2. ASSUME NEW kind \in {"send", "try_send", "try_recv"}, NEW timed \in BOOLEAN, NEW c \in Chans
      PROVE  Called(kind, {}, timed, c, "try") \in Call
  BY <1>2, CalledOK DEF CallOK, Kinds
<1>3. ASSUME NEW c \in Chans, NEW x \in Items, NEW timed \in BOOLEAN, Send(t, c, x, timed)
      PROVE  AllBalanced
  <2>1. CASE open[c]
    BY <1>1, <1>3, <2>1 DEF Send
  <2>2. CASE ~open[c]
    BY <1>2, <1>3, <2>2, OneQuietOutcome DEF Send
  <2> QED BY <2>1, <2>2
<1>4. ASSUME NEW c \in Chans, NEW kind \in {"recv", "next"}, NEW timed \in BOOLEAN,
             Recv(t, c, kind, timed)
      PROVE  AllBalanced
  BY <1>1, <1>4 DEF Recv
<1>5. ASSUME NEW c \in Chans, NEW x \in Items, TrySend(t, c, x)
      PROVE  AllBalanced
  <2> DEFINE k == Called("try_send", {}, FALSE, c, "try")
  <2>1. k \in Call /\ call[t].at # "return"
    BY <1>2, <1>5 DEF TrySend, Idle
  <2> HIDE DEF k
  <2>2. CASE SendNow(t, k, c, x)
    BY <2>1, <2>2, SendNowBalanced
  <2> DEFINE r == IF open[c] THEN "full" ELSE "closed"
  <2>3. r \notin {"sent", "item"}
    OBVIOUS
  <2> HIDE DEF r
  <2>4. CASE call' = [call EXCEPT ![t] = Outcome(k, r, c, NoItem)] /\ UNCHANGED buf
    BY <2>1, <2>3, <2>4, OneQuietOutcome
  <2> QED BY <1>5, <2>2, <2>4 DEF TrySend, k, r
<1>6. ASSUME NEW c \in Chans, TryRecv(t, c)
      PROVE  AllBalanced
  <2> DEFINE k == Called("try_recv", {}, FALSE, c, "try")
  <2>1. k \in Call /\ call[t].at # "return"
    BY <1>2, <1>6 DEF TryRecv, Idle
  <2> HIDE DEF k
  <2>2. CASE RecvNow(t, k, c)
    BY <2>1, <2>2, RecvNowBalanced
  <2> DEFINE r == IF Disconnected(c) THEN "closed_and_empty" ELSE "empty"
  <2>3. r \notin {"sent", "item"}
    OBVIOUS
  <2> HIDE DEF r
  <2>4. CASE call' = [call EXCEPT ![t] = Outcome(k, r, c, NoItem)] /\ UNCHANGED buf
    BY <2>1, <2>3, <2>4, OneQuietOutcome
  <2> QED BY <1>6, <2>2, <2>4 DEF TryRecv, k, r
<1>7. ASSUME NEW c \in Chans, CloseSender(t, c)
      PROVE  AllBalanced
  BY <1>1, <1>7 DEF CloseSender
<1>8. ASSUME NEW recvs \in SUBSET Chans, NEW sends \in SUBSET SendOps, NEW timed \in BOOLEAN,
             Select(t, recvs, sends, timed)
      PROVE  AllBalanced
  BY <1>1, <1>8 DEF Select
<1> QED BY <1>3, <1>4, <1>5, <1>6, <1>7, <1>8 DEF Begin

LEMMA StepBalanced ==
  ASSUME IInv, NEW t \in Threads, Step(t)
  PROVE  AllBalanced
<1> USE DEF IInv
<1> DEFINE k == call[t]
<1>1. k \in Call /\ CallOK(k)
  BY DEF CallsOK
<1>2. ASSUME NEW o \in k.ops
      PROVE  o.chan \in Chans /\ (o.dir = "send" => o.item \in Items)
  BY <1>1 DEF CallOK, Call, Operation
<1>3. k.at = "drain" => k.chan \in Chans
  BY <1>1 DEF CallOK
<1>4. ASSUME NEW r, r \notin {"sent", "item"}, NEW c,
             call' = [call EXCEPT ![t] = Outcome(k, r, c, NoItem)], UNCHANGED buf
      PROVE  AllBalanced
  BY <1>1, <1>4, OneQuietOutcome
<1> HIDE DEF k
<1>5. CASE FirstAttempt(t)
  <2>1. PICK o \in k.ops :
          \/ o.dir = "send" /\ SendNow(t, k, o.chan, o.item)
          \/ o.dir = "recv" /\ RecvNow(t, k, o.chan)
          \/ call' = [call EXCEPT ![t].at = "select"] /\ UNCHANGED buf
    BY <1>5 DEF FirstAttempt, k
  <2>2. call[t].at # "return"
    BY <1>5 DEF FirstAttempt
  <2>3. CASE o.dir = "send" /\ SendNow(t, k, o.chan, o.item)
    BY <1>1, <1>2, <2>2, <2>3, SendNowBalanced
  <2>4. CASE o.dir = "recv" /\ RecvNow(t, k, o.chan)
    BY <1>1, <1>2, <2>2, <2>4, RecvNowBalanced
  <2>5. CASE call' = [call EXCEPT ![t].at = "select"] /\ UNCHANGED buf
    <3> DEFINE j == [k EXCEPT !.at = "select"]
    <3>1. call' = [call EXCEPT ![t] = j] /\ j.at # "return"
      BY <1>1, <2>5 DEF Call, k
    <3> HIDE DEF j
    <3> QED BY <2>5, <3>1, OneQuiet
  <2> QED BY <2>1, <2>3, <2>4, <2>5
<1>6. CASE SelectSend(t)
  <2>1. PICK o \in k.ops :
          k.at = "select" /\ o.dir = "send" /\ SendNow(t, k, o.chan, o.item)
    BY <1>6 DEF SelectSend, Waiting, k
  <2>2. call[t].at # "return"
    BY <2>1 DEF k
  <2> QED BY <1>1, <1>2, <2>1, <2>2, SendNowBalanced
<1>7. CASE SelectRecv(t)
  <2>1. PICK o \in k.ops :
          k.at = "select" /\ (RecvNow(t, k, o.chan) \/ EndOfStream(t, o.chan))
    BY <1>7 DEF SelectRecv, Waiting, k
  <2>2. call[t].at # "return"
    BY <2>1 DEF k
  <2> QED BY <1>1, <1>2, <2>1, <2>2, RecvNowBalanced, EndOfStreamBalanced
<1>8. CASE SelectClosed(t)
  <2>1. PICK o \in k.ops :
          /\ UNCHANGED buf
          /\ call' = [call EXCEPT ![t] =
               IF o.dir = "send" THEN Outcome(k, "closed", o.chan, NoItem)
               ELSE [k EXCEPT !.at = "drain", !.chan = o.chan]]
    BY <1>8 DEF SelectClosed, k
  <2>2. CASE o.dir = "send"
    BY <1>4, <2>1, <2>2
  <2>3. CASE o.dir # "send"
    <3> DEFINE j == [k EXCEPT !.at = "drain", !.chan = o.chan]
    <3>1. call' = [call EXCEPT ![t] = j] /\ j.at # "return"
      BY <1>1, <2>1, <2>3 DEF Call
    <3> HIDE DEF j
    <3> QED BY <2>1, <3>1, OneQuiet
  <2> QED BY <2>2, <2>3
<1>9. CASE SelectTimeout(t)
  BY <1>4, <1>9 DEF SelectTimeout, k
<1>10. CASE Drain(t)
  <2>1. k.at = "drain" /\ (RecvNow(t, k, k.chan) \/ EndOfStream(t, k.chan))
    BY <1>10 DEF Drain, k
  <2>2. call[t].at # "return"
    BY <2>1 DEF k
  <2> QED BY <1>1, <1>3, <2>1, <2>2, RecvNowBalanced, EndOfStreamBalanced
<1>11. CASE IterCheck(t)
  BY <1>4, <1>11 DEF IterCheck, k
<1>12. CASE CloseSignal(t)
  BY <1>4, <1>12 DEF CloseSignal, k
<1>13. CASE Return(t)
  BY <1>13, OneQuiet DEF Return
<1> QED BY <1>5, <1>6, <1>7, <1>8, <1>9, <1>10, <1>11, <1>12, <1>13 DEF Step

\* No item is lost or delivered twice, by close(), timeouts, rendezvous and
\* select() with any number of ready branches included (channel.rs:57-100,
\* 117-161, select.rs:83-138).
THEOREM ItemsAreAccountedFor == Spec => AccountedFor
<1>1. IInv /\ [Next]_vars => [AllBalanced]_vars
  <2> SUFFICES ASSUME IInv, Next PROVE AllBalanced
    OBVIOUS
  <2>1. CASE \E t \in Threads : Begin(t) \/ Step(t)
    BY <2>1, BeginBalanced, StepBalanced
  <2>2. CASE \E o \in SendOps : (\E x \in Items : MakeSendOp(o, x)) \/ DropSendOp(o)
    <3>1. UNCHANGED <<buf, call>>
      BY <2>2 DEF MakeSendOp, DropSendOp
    <3>2. ReportsAre({})
      BY <3>1 DEF ReportsAre, Reported
    <3> QED BY <3>1, <3>2, QuietBalanced
  <2> QED BY <2>1, <2>2 DEF Next
<1>2. AllBalanced <=> \A c \in Chans, x \in Items :
        Count(buf[c], x) + Reports("sent", c, x) = Count(buf'[c], x) + Reports("item", c, x)
  BY DEF AllBalanced, Balanced
<1>3. IInv /\ [Next]_vars =>
        [\A c \in Chans, x \in Items :
           Count(buf[c], x) + Reports("sent", c, x)
             = Count(buf'[c], x) + Reports("item", c, x)]_vars
  BY <1>1, <1>2
<1> QED BY <1>3, Invariance, PTL DEF Spec, AccountedFor
=============================================================================
