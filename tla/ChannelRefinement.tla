-------------------------- MODULE ChannelRefinement --------------------------
(***************************************************************************)
(* Each channel of Channel implements ClosableQueue, and what follows from *)
(* that: a channel without a Sender and without items stays that way.      *)
(***************************************************************************)
EXTENDS ChannelProofs

QStep(c) == [Queue(c)!QNext]_(Queue(c)!qvars)

KeepsHandles == opItem' = opItem /\ \A u \in Threads : call'[u].ops = call[u].ops

LEMMA KeepsHolders ==
  ASSUME KeepsHandles, NEW c \in Chans
  PROVE  Holders(c)' = Holders(c)
BY DEF KeepsHandles, Holders, Holds, OpHolds

LEMMA Stutters ==
  ASSUME KeepsHandles, open' = open, buf' = buf, NEW c \in Chans
  PROVE  QStep(c)
BY KeepsHolders DEF QStep, Queue!qvars

LEMMA OutcomeKeepsOps ==
  ASSUME NEW k \in Call, NEW r, NEW c, NEW x
  PROVE  Outcome(k, r, c, x).ops = k.ops
BY DEF Outcome, Call

\* Putting an item, by a thread that has a handle or while the channel is open.
LEMMA SendNowSim ==
  ASSUME IInv, NEW t \in Threads, NEW k \in Call, k.ops = call[t].ops,
         NEW d \in Chans, NEW x \in Items, SendNow(t, k, d, x),
         t \in Holders(d) \/ open[d],
         open' = open, opItem' = opItem, NEW c \in Chans
  PROVE  QStep(c)
<1>1. \A u \in Threads : call[u] \in Call
  BY DEF IInv, CallsOK
<1>2. KeepsHandles
  BY <1>1, OutcomeKeepsOps DEF SendNow, KeepsHandles, IInv, CallsOK
<1>3. CASE HasRoom(d) /\ buf' = [buf EXCEPT ![d] = Append(@, x)]
  <2>1. Holders(c)' = Holders(c)
    BY <1>2, KeepsHolders
  <2>2. CASE c = d
    <3>1. buf'[c] = Append(buf[c], x) /\ Len(buf[c]) < Capacity[c] /\ open'[c] = open[c]
      BY <1>3, <2>2 DEF HasRoom, IInv, BuffersOK
    <3>2. CASE t \in Holders(d)
      BY <2>1, <2>2, <3>1, <3>2 DEF QStep, Queue!QNext, Queue!Put, Queue!HasRoomFor
    <3>3. CASE open[d]
      BY <2>1, <2>2, <3>1, <3>3 DEF QStep, Queue!QNext, Queue!TryPut, Queue!HasRoomFor
    <3> QED BY <3>2, <3>3
  <2>3. CASE c # d
    BY <1>3, <2>1, <2>3 DEF QStep, Queue!qvars, IInv, BuffersOK
  <2> QED BY <2>2, <2>3
<1>4. CASE UNCHANGED buf
  BY <1>2, <1>4, Stutters
<1> QED BY <1>3, <1>4 DEF SendNow

\* Taking an item.
LEMMA RecvNowSim ==
  ASSUME IInv, NEW t \in Threads, NEW k \in Call, k.ops = call[t].ops,
         NEW d \in Chans, RecvNow(t, k, d),
         open' = open, opItem' = opItem, NEW c \in Chans
  PROVE  QStep(c)
<1>1. \A u \in Threads : call[u] \in Call
  BY DEF IInv, CallsOK
<1>2. KeepsHandles
  BY <1>1, OutcomeKeepsOps DEF RecvNow, KeepsHandles, IInv, CallsOK
<1>3. CASE buf[d] # <<>> /\ buf' = [buf EXCEPT ![d] = Tail(@)]
  <2>1. Holders(c)' = Holders(c)
    BY <1>2, KeepsHolders
  <2>2. CASE c = d
    BY <1>3, <2>1, <2>2 DEF QStep, Queue!QNext, Queue!Take, IInv, BuffersOK
  <2>3. CASE c # d
    BY <1>3, <2>1, <2>3 DEF QStep, Queue!qvars, IInv, BuffersOK
  <2> QED BY <2>2, <2>3
<1>4. CASE UNCHANGED buf
  BY <1>2, <1>4, Stutters
<1> QED BY <1>3, <1>4 DEF RecvNow

LEMMA EndOfStreamSim ==
  ASSUME IInv, NEW t \in Threads, NEW d \in Chans, EndOfStream(t, d),
         open' = open, opItem' = opItem, NEW c \in Chans
  PROVE  QStep(c)
<1>1. \A u \in Threads : call[u] \in Call
  BY DEF IInv, CallsOK
<1>2. /\ [call[t] EXCEPT !.at = "check", !.chan = d].ops = call[t].ops
      /\ Outcome(call[t], "closed_and_empty", d, NoItem).ops = call[t].ops
  <2>1. [call[t] EXCEPT !.at = "check", !.chan = d].ops = call[t].ops
    BY <1>1 DEF Call
  <2>2. Outcome(call[t], "closed_and_empty", d, NoItem).ops = call[t].ops
    <3>1. call[t] \in Call
      BY <1>1
    <3> QED BY <3>1, OutcomeKeepsOps
  <2> QED BY <2>1, <2>2
<1>3. PICK k : k.ops = call[t].ops /\ call' = [call EXCEPT ![t] = k]
  BY <1>2 DEF EndOfStream
<1>4. KeepsHandles
  BY <1>3 DEF KeepsHandles, IInv, CallsOK
<1> QED BY <1>4, Stutters DEF EndOfStream

\* What a thread's handles become when only its call changes.
LEMMA HoldersOf ==
  ASSUME IInv, NEW t \in Threads, NEW k, call' = [call EXCEPT ![t] = k],
         opItem' = opItem, NEW c \in Chans
  PROVE  /\ (\E o \in k.ops : o.dir = "send" /\ o.chan = c)
              => Holders(c)' = Holders(c) \cup {t}
         /\ ~(\E o \in k.ops : o.dir = "send" /\ o.chan = c)
              => Holders(c)' = Holders(c) \ {t}
         /\ t \in Holders(c) <=> Holds(t, c)
<1>1. t \notin SendOps
  BY ChannelAssumption
<1>2. \A u \in Threads : call'[u] = IF u = t THEN k ELSE call[u]
  BY DEF IInv, CallsOK
<1>3. \A u \in Threads :
        Holds(u, c)' <=> \E o \in call'[u].ops : o.dir = "send" /\ o.chan = c
  BY DEF Holds
<1>4. \A o \in SendOps : OpHolds(o, c)' <=> OpHolds(o, c)
  BY DEF OpHolds
<1>5. Holders(c)' = {u \in Threads : Holds(u, c)'} \cup {o \in SendOps : OpHolds(o, c)'}
  BY DEF Holders
<1>6. \A u \in Threads \ {t} : Holds(u, c)' <=> Holds(u, c)
  BY <1>2, <1>3 DEF Holds
<1>7. Holds(t, c)' <=> \E o \in k.ops : o.dir = "send" /\ o.chan = c
  BY <1>2, <1>3
<1> QED BY <1>1, <1>4, <1>5, <1>6, <1>7 DEF Holders

LEMMA HoldersKept ==
  ASSUME IInv, NEW t \in Threads, NEW k, call' = [call EXCEPT ![t] = k],
         opItem' = opItem, NEW c \in Chans, call[t].ops = {},
         ~\E o \in k.ops : o.dir = "send" /\ o.chan = c
  PROVE  Holders(c)' = Holders(c)
<1>1. Holders(c)' = Holders(c) \ {t} /\ (t \in Holders(c) <=> Holds(t, c))
  BY HoldersOf
<1>2. t \notin Holders(c)
  BY <1>1 DEF Holds
<1> QED BY <1>1, <1>2

\* A step that changes one thread's call without touching its operations.
LEMMA OneCallSim ==
  ASSUME IInv, NEW t \in Threads, NEW k, k.ops = call[t].ops,
         call' = [call EXCEPT ![t] = k],
         open' = open, buf' = buf, opItem' = opItem, NEW c \in Chans
  PROVE  QStep(c)
<1>1. KeepsHandles
  BY DEF KeepsHandles, IInv, CallsOK
<1> QED BY <1>1, Stutters

-----------------------------------------------------------------------------
(* The steps of Channel. *)

LEMMA BeginSim ==
  ASSUME IInv, NEW t \in Threads, Begin(t), NEW c \in Chans
  PROVE  QStep(c)
<1>1. call[t] \in Call /\ call[t].ops = {}
  <2>1. Idle(t)
    BY DEF Begin, Send, Recv, TrySend, TryRecv, CloseSender, Select
  <2> QED BY <2>1 DEF IInv, CallsOK, CallOK, Idle
<1>2. ASSUME NEW kind, NEW ops, NEW timed, NEW d, NEW at
      PROVE  Called(kind, ops, timed, d, at).ops = ops
  BY DEF Called, IdleCall
<1>3. ASSUME NEW kind \in Kinds, NEW d \in Chans
      PROVE  Called(kind, {}, FALSE, d, "try") \in Call
  BY CalledOK DEF CallOK
<1>4. ASSUME NEW d \in Chans, NEW x \in Items, NEW timed \in BOOLEAN, Send(t, d, x, timed)
      PROVE  QStep(c)
  <2>1. CASE open[d]
    <3> DEFINE k == Called("send", {SendTo(d, x)}, timed, d, IF timed THEN "select" ELSE "try")
    <3>1. k.ops = {SendTo(d, x)}
      BY <1>2
    <3>2. call' = [call EXCEPT ![t] = k]
      BY <1>4, <2>1 DEF Send
    <3> HIDE DEF k
    <3>3. CASE c = d
      <4>1. \E o \in k.ops : o.dir = "send" /\ o.chan = c
        BY <3>1, <3>3 DEF SendTo
      <4>2. Holders(c)' = Holders(c) \cup {t}
        BY <1>4, <3>2, <4>1, HoldersOf DEF Send
      <4> QED BY <1>4, <2>1, <3>3, <4>2 DEF Send, QStep, Queue!QNext, Queue!Acquire
    <3>4. CASE c # d
      <4>1. ~\E o \in k.ops : o.dir = "send" /\ o.chan = c
        BY <3>1, <3>4 DEF SendTo
      <4>2. Holders(c)' = Holders(c)
        BY <1>1, <1>4, <3>2, <4>1, HoldersKept DEF Send
      <4> QED BY <1>4, <4>2 DEF Send, QStep, Queue!qvars
    <3> QED BY <3>3, <3>4
  <2>2. CASE ~open[d]
    <3> DEFINE k == Outcome(Called("send", {}, timed, d, "try"), "closed", d, NoItem)
    <3>1. Called("send", {}, timed, d, "try") \in Call
      BY CalledOK DEF CallOK, Kinds
    <3>2. k.ops = {}
      BY <1>2, <3>1, OutcomeKeepsOps
    <3>3. call' = [call EXCEPT ![t] = k]
      BY <1>4, <2>2 DEF Send
    <3> HIDE DEF k
    <3> QED BY <1>1, <1>4, <3>2, <3>3, OneCallSim DEF Send
  <2> QED BY <2>1, <2>2
<1>5. ASSUME NEW d \in Chans, NEW kind \in {"recv", "next"}, NEW timed \in BOOLEAN,
             Recv(t, d, kind, timed)
      PROVE  QStep(c)
  <2> DEFINE k == Called(kind, {RecvFrom(d)}, timed, d, IF timed THEN "select" ELSE "try")
  <2>1. k.ops = {RecvFrom(d)}
    BY <1>2
  <2>2. call' = [call EXCEPT ![t] = k]
    BY <1>5 DEF Recv
  <2> HIDE DEF k
  <2>3. ~\E o \in k.ops : o.dir = "send" /\ o.chan = c
    BY <2>1 DEF RecvFrom
  <2>4. Holders(c)' = Holders(c)
    BY <1>1, <1>5, <2>2, <2>3, HoldersKept DEF Recv
  <2> QED BY <1>5, <2>4 DEF Recv, QStep, Queue!qvars
<1>6. ASSUME NEW d \in Chans, NEW x \in Items, TrySend(t, d, x)
      PROVE  QStep(c)
  <2> DEFINE k == Called("try_send", {}, FALSE, d, "try")
  <2>1. k \in Call /\ k.ops = call[t].ops
    BY <1>1, <1>2, <1>3 DEF Kinds
  <2> HIDE DEF k
  <2>2. CASE open[d] /\ SendNow(t, k, d, x)
    BY <1>6, <2>1, <2>2, SendNowSim DEF TrySend
  <2>3. CASE /\ call' = [call EXCEPT ![t] =
                  Outcome(k, IF open[d] THEN "full" ELSE "closed", d, NoItem)]
             /\ UNCHANGED buf
    <3> DEFINE j == Outcome(k, IF open[d] THEN "full" ELSE "closed", d, NoItem)
    <3>1. j.ops = k.ops
      BY <2>1, OutcomeKeepsOps
    <3>2. call' = [call EXCEPT ![t] = j]
      BY <2>3
    <3> HIDE DEF j
    <3>3. open' = open /\ buf' = buf /\ opItem' = opItem
      BY <1>6, <2>3 DEF TrySend
    <3> QED BY <2>1, <3>1, <3>2, <3>3, OneCallSim
  <2> QED BY <1>6, <2>2, <2>3 DEF TrySend, k
<1>7. ASSUME NEW d \in Chans, TryRecv(t, d)
      PROVE  QStep(c)
  <2> DEFINE k == Called("try_recv", {}, FALSE, d, "try")
  <2>1. k \in Call /\ k.ops = call[t].ops
    BY <1>1, <1>2, <1>3 DEF Kinds
  <2> HIDE DEF k
  <2>2. CASE RecvNow(t, k, d)
    BY <1>7, <2>1, <2>2, RecvNowSim DEF TryRecv
  <2>3. CASE /\ call' = [call EXCEPT ![t] = Outcome(k,
                  IF Disconnected(d) THEN "closed_and_empty" ELSE "empty", d, NoItem)]
             /\ UNCHANGED buf
    <3> DEFINE j == Outcome(k, IF Disconnected(d) THEN "closed_and_empty" ELSE "empty", d, NoItem)
    <3>1. j.ops = k.ops
      BY <2>1, OutcomeKeepsOps
    <3>2. call' = [call EXCEPT ![t] = j]
      BY <2>3
    <3> HIDE DEF j
    <3>3. open' = open /\ buf' = buf /\ opItem' = opItem
      BY <1>7, <2>3 DEF TryRecv
    <3> QED BY <2>1, <3>1, <3>2, <3>3, OneCallSim
  <2> QED BY <1>7, <2>2, <2>3 DEF TryRecv, k
<1>8. ASSUME NEW d \in Chans, CloseSender(t, d)
      PROVE  QStep(c)
  <2> DEFINE k == Called("close", {}, FALSE, d, "signal")
  <2>1. k.ops = {}
    BY <1>2
  <2>2. call' = [call EXCEPT ![t] = k] /\ buf' = buf /\ opItem' = opItem
    BY <1>8 DEF CloseSender
  <2> HIDE DEF k
  <2>3. Holders(c)' = Holders(c)
    BY <1>1, <2>1, <2>2, HoldersKept
  <2>4. open'[c] = IF c = d THEN FALSE ELSE open[c]
    BY <1>8 DEF CloseSender, IInv, FlagsOK
  <2>5. CASE c = d
    BY <2>2, <2>3, <2>4, <2>5 DEF QStep, Queue!QNext, Queue!Close
  <2>6. CASE c # d
    BY <2>2, <2>3, <2>4, <2>6 DEF QStep, Queue!qvars
  <2> QED BY <2>5, <2>6
<1>9. ASSUME NEW recvs \in SUBSET Chans, NEW sends \in SUBSET SendOps, NEW timed \in BOOLEAN,
             Select(t, recvs, sends, timed)
      PROVE  QStep(c)
  <2> DEFINE ops == {RecvFrom(d) : d \in recvs} \cup {SendTo(OpChan[o], opItem[o]) : o \in sends}
             k == Called("select", ops, timed, NoChan, "select")
  <2>1. k.ops = ops
    BY <1>2
  <2>2. call' = [call EXCEPT ![t] = k] /\ buf' = buf /\ opItem' = opItem /\ open' = open
    BY <1>9 DEF Select
  <2> HIDE DEF k
  <2>3. CASE \E o \in sends : OpChan[o] = c
    <3>1. PICK o \in sends : OpChan[o] = c /\ opItem[o] # NoItem
      BY <1>9, <2>3 DEF Select
    <3>2. o \in Holders(c)
      BY <3>1 DEF Holders, OpHolds
    <3>3. \E p \in ops : p.dir = "send" /\ p.chan = c
      <4>1. SendTo(OpChan[o], opItem[o]) \in ops
        BY DEF ops
      <4> QED BY <3>1, <4>1 DEF SendTo
    <3>4. Holders(c)' = Holders(c) \cup {t}
      BY <2>1, <2>2, <3>3, HoldersOf
    <3> QED BY <2>2, <3>2, <3>4 DEF QStep, Queue!QNext, Queue!Share
  <2>4. CASE ~\E o \in sends : OpChan[o] = c
    <3>1. ~\E p \in ops : p.dir = "send" /\ p.chan = c
      BY <2>4 DEF SendTo, RecvFrom, ops
    <3>2. Holders(c)' = Holders(c)
      BY <1>1, <2>1, <2>2, <3>1, HoldersKept
    <3> QED BY <2>2, <3>2 DEF QStep, Queue!qvars
  <2> QED BY <2>3, <2>4
<1> QED BY <1>4, <1>5, <1>6, <1>7, <1>8, <1>9 DEF Begin

LEMMA StepSim ==
  ASSUME IInv, NEW t \in Threads, Step(t), NEW c \in Chans
  PROVE  QStep(c)
<1> DEFINE k == call[t]
<1>1. k \in Call
  BY DEF IInv, CallsOK
<1>2. ASSUME NEW o \in k.ops
      PROVE  /\ o.chan \in Chans
             /\ o.dir = "send" => o.item \in Items /\ t \in Holders(o.chan)
  BY <1>1 DEF IInv, CallsOK, CallOK, Call, Operation, Holders, Holds
<1>3. k.at \in {"drain", "check", "signal"} => k.chan \in Chans
  BY DEF IInv, CallsOK, CallOK
<1>4. ASSUME NEW j \in {"try", "select", "drain"}, NEW d
      PROVE  [k EXCEPT !.at = j].ops = k.ops /\ [k EXCEPT !.at = j, !.chan = d].ops = k.ops
  BY <1>1 DEF Call
<1> HIDE DEF k
<1>5. CASE FirstAttempt(t)
  <2>1. PICK o \in k.ops :
          \/ o.dir = "send" /\ SendNow(t, k, o.chan, o.item)
          \/ o.dir = "recv" /\ RecvNow(t, k, o.chan)
          \/ call' = [call EXCEPT ![t].at = "select"] /\ UNCHANGED buf
    BY <1>5 DEF FirstAttempt, k
  <2>2. open' = open /\ opItem' = opItem
    BY <1>5 DEF FirstAttempt
  <2>3. CASE o.dir = "send" /\ SendNow(t, k, o.chan, o.item)
    BY <1>1, <1>2, <2>2, <2>3, SendNowSim DEF k
  <2>4. CASE o.dir = "recv" /\ RecvNow(t, k, o.chan)
    BY <1>1, <1>2, <2>2, <2>4, RecvNowSim DEF k
  <2>5. CASE call' = [call EXCEPT ![t].at = "select"] /\ UNCHANGED buf
    <3>1. call' = [call EXCEPT ![t] = [k EXCEPT !.at = "select"]]
      BY <2>5 DEF k
    <3> QED BY <1>4, <2>2, <2>5, <3>1, OneCallSim DEF k
  <2> QED BY <2>1, <2>3, <2>4, <2>5
<1>6. CASE SelectSend(t)
  <2>1. PICK o \in k.ops : o.dir = "send" /\ SendNow(t, k, o.chan, o.item)
    BY <1>6 DEF SelectSend, k
  <2> QED BY <1>1, <1>2, <1>6, <2>1, SendNowSim DEF SelectSend, k
<1>7. CASE SelectRecv(t)
  <2>1. PICK o \in k.ops : RecvNow(t, k, o.chan) \/ EndOfStream(t, o.chan)
    BY <1>7 DEF SelectRecv, k
  <2>2. open' = open /\ opItem' = opItem
    BY <1>7 DEF SelectRecv
  <2> QED BY <1>1, <1>2, <2>1, <2>2, RecvNowSim, EndOfStreamSim DEF k
<1>8. CASE SelectClosed(t)
  <2>1. PICK o \in k.ops :
          call' = [call EXCEPT ![t] =
               IF o.dir = "send" THEN Outcome(k, "closed", o.chan, NoItem)
               ELSE [k EXCEPT !.at = "drain", !.chan = o.chan]]
    BY <1>8 DEF SelectClosed, k
  <2>2. Outcome(k, "closed", o.chan, NoItem).ops = k.ops
        /\ [k EXCEPT !.at = "drain", !.chan = o.chan].ops = k.ops
    BY <1>1, <1>4, OutcomeKeepsOps
  <2> QED BY <1>8, <2>1, <2>2, OneCallSim DEF SelectClosed, k
<1>9. CASE SelectTimeout(t)
  <2> DEFINE j == Outcome(k, "timeout", NoChan, NoItem)
  <2>1. j.ops = k.ops
    BY <1>1, OutcomeKeepsOps
  <2>2. call' = [call EXCEPT ![t] = j]
    BY <1>9 DEF SelectTimeout, k
  <2> HIDE DEF j
  <2> QED BY <1>9, <2>1, <2>2, OneCallSim DEF SelectTimeout, k
<1>10. CASE Drain(t)
  <2>1. open' = open /\ opItem' = opItem /\ k.at = "drain"
    BY <1>10 DEF Drain, k
  <2>2. RecvNow(t, k, k.chan) \/ EndOfStream(t, k.chan)
    BY <1>10 DEF Drain, k
  <2> QED BY <1>1, <1>3, <2>1, <2>2, RecvNowSim, EndOfStreamSim DEF k
<1>11. CASE IterCheck(t)
  <2> DEFINE r == IF ~open[k.chan] /\ NothingThere(k.chan) THEN "stop" ELSE "raised"
             j == Outcome(k, r, k.chan, NoItem)
  <2>1. j.ops = k.ops
    BY <1>1, OutcomeKeepsOps
  <2>2. call' = [call EXCEPT ![t] = j]
    BY <1>11 DEF IterCheck, k
  <2> HIDE DEF j
  <2> QED BY <1>11, <2>1, <2>2, OneCallSim DEF IterCheck, k
<1>12. CASE CloseSignal(t)
  <2> DEFINE j == Outcome(k, "ok", k.chan, NoItem)
  <2>1. j.ops = k.ops
    BY <1>1, OutcomeKeepsOps
  <2>2. call' = [call EXCEPT ![t] = j]
    BY <1>12 DEF CloseSignal, k
  <2> HIDE DEF j
  <2> QED BY <1>12, <2>1, <2>2, OneCallSim DEF CloseSignal, k
<1>13. CASE Return(t)
  <2>1. IdleCall.ops = {}
    BY DEF IdleCall
  <2>2. Holders(c)' = Holders(c) \ {t}
    BY <1>13, <2>1, HoldersOf DEF Return
  <2>3. CASE t \in Holders(c)
    BY <1>13, <2>2, <2>3 DEF Return, QStep, Queue!QNext, Queue!Release
  <2>4. CASE t \notin Holders(c)
    <3>1. Holders(c)' = Holders(c)
      BY <2>2, <2>4
    <3> QED BY <1>13, <3>1 DEF Return, QStep, Queue!qvars
  <2> QED BY <2>3, <2>4
<1> QED BY <1>5, <1>6, <1>7, <1>8, <1>9, <1>10, <1>11, <1>12, <1>13 DEF Step

LEMMA NextSim ==
  ASSUME IInv, [Next]_vars, NEW c \in Chans
  PROVE  QStep(c)
<1>1. CASE \E t \in Threads : Begin(t) \/ Step(t)
  BY <1>1, BeginSim, StepSim
<1>2. ASSUME NEW o \in SendOps,
             (\E x \in Items : MakeSendOp(o, x)) \/ DropSendOp(o)
      PROVE  QStep(c)
  <2>1. /\ \A u \in Threads : Holds(u, c)' <=> Holds(u, c)
        /\ \A p \in SendOps \ {o} : OpHolds(p, c)' <=> OpHolds(p, c)
        /\ buf' = buf /\ open' = open
    BY <1>2 DEF MakeSendOp, DropSendOp, Holds, OpHolds, IInv, FlagsOK
  <2>2. Holders(c)' = {u \in Threads : Holds(u, c)'} \cup {p \in SendOps : OpHolds(p, c)'}
    BY DEF Holders
  <2>3. o \notin Threads
    BY ChannelAssumption
  <2>4. CASE OpChan[o] # c
    <3>1. Holders(c)' = Holders(c)
      BY <2>1, <2>2, <2>4 DEF Holders, OpHolds
    <3> QED BY <2>1, <3>1 DEF QStep, Queue!qvars
  <2>5. CASE OpChan[o] = c /\ \E x \in Items : MakeSendOp(o, x)
    <3>1. OpHolds(o, c)' /\ open[c]
      BY <2>5, ChannelAssumption DEF MakeSendOp, OpHolds, IInv, FlagsOK
    <3>2. Holders(c)' = Holders(c) \cup {o}
      BY <2>1, <2>2, <3>1 DEF Holders
    <3> QED BY <2>1, <3>1, <3>2 DEF QStep, Queue!QNext, Queue!Acquire
  <2>6. CASE OpChan[o] = c /\ DropSendOp(o)
    <3>1. ~OpHolds(o, c)' /\ OpHolds(o, c)
      BY <2>6 DEF DropSendOp, OpHolds, IInv, FlagsOK
    <3>2. Holders(c)' = Holders(c) \ {o} /\ o \in Holders(c)
      BY <2>1, <2>2, <2>3, <3>1 DEF Holders
    <3> QED BY <2>1, <3>2 DEF QStep, Queue!QNext, Queue!Release
  <2> QED BY <1>2, <2>4, <2>5, <2>6
<1>3. CASE UNCHANGED vars
  BY <1>3, Stutters DEF vars, KeepsHandles
<1> QED BY <1>1, <1>2, <1>3 DEF Next

\* Every channel is a closable queue: FIFO, bounded, filled only by users that
\* hold a handle or while it is open (channel.rs:14-20).
THEOREM Refinement == Spec => ImplementsQueue
<1>1. ASSUME NEW c \in Chans PROVE Init => Queue(c)!QInit
  BY ChannelAssumption DEF Init, Queue!QInit, Holders, Holds, OpHolds, IdleCall
<1>2. ASSUME NEW c \in Chans PROVE IInv /\ [Next]_vars => [Queue(c)!QNext]_(Queue(c)!qvars)
  BY NextSim DEF QStep
<1>3. ASSUME NEW c \in Chans PROVE Spec => Queue(c)!QSpec
  BY <1>1, <1>2, Invariance, PTL DEF Spec, Queue!QSpec
<1> QED BY <1>3 DEF ImplementsQueue

\* Once nobody holds a Sender of a closed, empty channel, nobody ever will and
\* nothing arrives in it (channel.rs:52-55, 217-219).
THEOREM SealedFinal == Spec => SealedIsFinal
<1>1. ASSUME IInv, [Next]_vars, NEW c \in Chans, Disconnected(c), buf[c] = <<>>
      PROVE  Disconnected(c)' /\ buf'[c] = <<>>
  <2>1. QStep(c) /\ Holders(c) = {} /\ ~open[c]
    BY <1>1, NextSim DEF Disconnected
  <2>2. Holders(c)' = {} /\ ~open'[c] /\ buf'[c] = <<>>
    BY <1>1, <2>1 DEF QStep, Queue!QNext, Queue!qvars, Queue!Acquire, Queue!Share,
      Queue!Release, Queue!Put, Queue!TryPut, Queue!Take, Queue!Close
  <2> QED BY <2>2 DEF Disconnected
<1>2. IInv /\ [Next]_vars => [\A c \in Chans :
        Disconnected(c) /\ buf[c] = <<>> => Disconnected(c)' /\ buf'[c] = <<>>]_vars
  BY <1>1
<1> QED BY <1>2, Invariance, PTL DEF Spec, SealedIsFinal
=============================================================================
