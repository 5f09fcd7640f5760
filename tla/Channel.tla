------------------------------ MODULE Channel ------------------------------
(***************************************************************************)
(* The Channel class of src/src/channel.rs and the select() function of    *)
(* src/src/select.rs, as called by a set of Python threads on a build      *)
(* without a GIL.  Every call is a sequence of steps of its thread; the    *)
(* steps of different threads interleave.                                  *)
(*                                                                         *)
(* A channel owns two things that close() drops one after the other: the   *)
(* stored Sender (open[c]) and the sending end of the close-signal channel *)
(* (closeTx[c]).  send() and SendOp clone the stored Sender, so the        *)
(* channel is disconnected only when the stored one and all clones are     *)
(* gone.  The receiver is never dropped.                                   *)
(*                                                                         *)
(* An unbounded channel is one whose capacity is not reached; capacity 0   *)
(* is a rendezvous channel, where an item goes straight from a sender to a *)
(* receiver, one of them waiting in a select.                              *)
(*                                                                         *)
(* An operator whose name ends in _faulty is a variant of the one that     *)
(* follows it with a plausible mistake.  Nothing refers to it: it is put   *)
(* in that operator's place to see that a property notices.                *)
(***************************************************************************)
EXTENDS Naturals, Sequences, FiniteSets

CONSTANTS
  Threads,    \* the Python threads that call the channels
  Chans,      \* the Channel objects
  Items,      \* what is sent
  SendOps,    \* the SendOp objects a program may keep
  OpChan,     \* the channel a SendOp sends to
  Capacity,   \* the capacity of each channel
  NoItem, NoChan

ASSUME ChannelAssumption ==
  /\ Capacity \in [Chans -> Nat]
  /\ OpChan \in [SendOps -> Chans]
  /\ NoItem \notin Items
  /\ NoChan \notin Chans
  /\ Threads \cap SendOps = {}

VARIABLES
  open,      \* open[c]: the channel still stores its Sender
  closeTx,   \* closeTx[c]: the close signal has not been given
  buf,       \* buf[c]: the items stored, oldest first
  opItem,    \* opItem[o]: the item of SendOp o, NoItem if o does not exist
  call       \* call[t]: the call thread t is in

vars == <<open, closeTx, buf, opItem, call>>

-----------------------------------------------------------------------------
(* Calls. *)

Operation == [dir : {"send", "recv"}, chan : Chans, item : Items \cup {NoItem}]
SendTo(c, x) == [dir |-> "send", chan |-> c, item |-> x]
RecvFrom(c) == [dir |-> "recv", chan |-> c, item |-> NoItem]

Places == {"idle", "try", "select", "drain", "check", "signal", "return"}
Kinds == {"none", "send", "recv", "next", "select", "try_send", "try_recv", "close"}
Results == {"none", "ok", "sent", "item", "closed", "closed_and_empty",
            "timeout", "full", "empty", "stop", "raised"}

Call == [at : Places,                  \* the step the call is at
         kind : Kinds,                 \* the method called
         ops : SUBSET Operation,       \* the operations it waits for
         timed : BOOLEAN,              \* it was given a timeout
         late : SUBSET Chans,          \* history: closed before the call began
         chan : Chans \cup {NoChan},   \* the channel its outcome is about
         item : Items \cup {NoItem},   \* the item it moved
         res : Results]                \* its outcome, once at "return"

IdleCall == [at |-> "idle", kind |-> "none", ops |-> {}, timed |-> FALSE,
             late |-> {}, chan |-> NoChan, item |-> NoItem, res |-> "none"]

\* The channels whose close() has finished.
Closed == {c \in Chans : ~closeTx[c]}

Called(kind, ops, timed, c, at) ==
  [IdleCall EXCEPT !.at = at, !.kind = kind, !.ops = ops, !.timed = timed,
                   !.late = Closed, !.chan = c]

\* The call k comes back with outcome r about channel c, having moved x.
\* Its handles are dropped when it returns, one step later.
Outcome(k, r, c, x) ==
  [k EXCEPT !.at = "return", !.res = r, !.chan = c, !.item = x]

Waiting(t, o) == call[t].at = "select" /\ o \in call[t].ops

-----------------------------------------------------------------------------
(* The crossbeam channel. *)

\* A thread holds a clone of the Sender for each of its send operations.
Holds(t, c) == \E o \in call[t].ops : o.dir = "send" /\ o.chan = c

OpHolds(o, c) == opItem[o] # NoItem /\ OpChan[o] = c

\* Everybody with a clone of the Sender of c.
Holders(c) == {t \in Threads : Holds(t, c)} \cup {o \in SendOps : OpHolds(o, c)}

Disconnected(c) == ~open[c] /\ Holders(c) = {}

HasRoom_faulty(c) == Len(buf[c]) <= Capacity[c]

HasRoom(c) == Len(buf[c]) < Capacity[c]

\* The waiting receiver gets the item and is not told.
SendNow_faulty(t, k, c, x) ==
  \/ /\ HasRoom(c)
     /\ buf' = [buf EXCEPT ![c] = Append(@, x)]
     /\ call' = [call EXCEPT ![t] = Outcome(k, "sent", c, x)]
  \/ /\ Capacity[c] = 0
     /\ \E u \in Threads \ {t} : Waiting(u, RecvFrom(c))
     /\ call' = [call EXCEPT ![t] = Outcome(k, "sent", c, x)]
     /\ UNCHANGED buf

\* Thread t, whose call is k, puts x into c.  With capacity 0 the item goes to
\* a thread that waits to receive.
SendNow(t, k, c, x) ==
  \/ /\ HasRoom(c)
     /\ buf' = [buf EXCEPT ![c] = Append(@, x)]
     /\ call' = [call EXCEPT ![t] = Outcome(k, "sent", c, x)]
  \/ /\ Capacity[c] = 0
     /\ \E u \in Threads \ {t} :
          /\ Waiting(u, RecvFrom(c))
          /\ call' = [call EXCEPT ![t] = Outcome(k, "sent", c, x),
                                  ![u] = Outcome(call[u], "item", c, x)]
     /\ UNCHANGED buf

\* The newest item first.
RecvNow_faulty(t, k, c) ==
  /\ buf[c] # <<>>
  /\ buf' = [buf EXCEPT ![c] = SubSeq(@, 1, Len(@) - 1)]
  /\ call' = [call EXCEPT ![t] = Outcome(k, "item", c, buf[c][Len(buf[c])])]

\* Thread t, whose call is k, takes the oldest item of c, or with capacity 0
\* the item of a thread that waits to send.
RecvNow(t, k, c) ==
  \/ /\ buf[c] # <<>>
     /\ buf' = [buf EXCEPT ![c] = Tail(@)]
     /\ call' = [call EXCEPT ![t] = Outcome(k, "item", c, Head(buf[c]))]
  \/ /\ Capacity[c] = 0
     /\ \E u \in Threads \ {t}, x \in Items :
          /\ Waiting(u, SendTo(c, x))
          /\ call' = [call EXCEPT ![t] = Outcome(k, "item", c, x),
                                  ![u] = Outcome(call[u], "sent", c, x)]
     /\ UNCHANGED buf

\* What a non-blocking attempt sees when it cannot go on.  A thread that has
\* reached its select may not be registered as waiting yet, so with capacity 0
\* an attempt can always fail.
NoRoom(c) == ~HasRoom(c)
NothingThere(c) == buf[c] = <<>>

\* recv() on c fails for good: __next__ looks again, the others raise.
EndOfStream(t, c) ==
  /\ call' = [call EXCEPT ![t] =
                IF @.kind = "next"
                THEN [@ EXCEPT !.at = "check", !.chan = c]
                ELSE Outcome(@, "closed_and_empty", c, NoItem)]
  /\ UNCHANGED buf

-----------------------------------------------------------------------------
Init ==
  /\ open = [c \in Chans |-> TRUE]
  /\ closeTx = [c \in Chans |-> TRUE]
  /\ buf = [c \in Chans |-> <<>>]
  /\ opItem = [o \in SendOps |-> NoItem]
  /\ call = [t \in Threads |-> IdleCall]

Idle(t) == call[t].at = "idle"

\* A Sender is there even after close().
Send_faulty(t, c, x, timed) ==
  /\ Idle(t)
  /\ call' = [call EXCEPT ![t] =
       Called("send", {SendTo(c, x)}, timed, c, IF timed THEN "select" ELSE "try")]
  /\ UNCHANGED <<open, closeTx, buf, opItem>>

\* send(): the Sender is cloned under the read lock, or the channel is closed.
Send(t, c, x, timed) ==
  /\ Idle(t)
  /\ IF open[c]
     THEN call' = [call EXCEPT ![t] =
            Called("send", {SendTo(c, x)}, timed, c, IF timed THEN "select" ELSE "try")]
     ELSE call' = [call EXCEPT ![t] =
            Outcome(Called("send", {}, timed, c, "try"), "closed", c, NoItem)]
  /\ UNCHANGED <<open, closeTx, buf, opItem>>

\* recv() and, with kind "next", the recv() inside __next__.
Recv(t, c, kind, timed) ==
  /\ Idle(t)
  /\ kind = "next" => ~timed
  /\ call' = [call EXCEPT ![t] =
       Called(kind, {RecvFrom(c)}, timed, c, IF timed THEN "select" ELSE "try")]
  /\ UNCHANGED <<open, closeTx, buf, opItem>>

\* The first attempt of an untimed send() or recv(), before it blocks.
FirstAttempt(t) ==
  /\ call[t].at = "try"
  /\ \E o \in call[t].ops :
       \/ o.dir = "send" /\ SendNow(t, call[t], o.chan, o.item)
       \/ o.dir = "recv" /\ RecvNow(t, call[t], o.chan)
       \/ /\ IF o.dir = "send" THEN NoRoom(o.chan) ELSE NothingThere(o.chan)
          /\ call' = [call EXCEPT ![t].at = "select"]
          /\ UNCHANGED buf
  /\ UNCHANGED <<open, closeTx, opItem>>

\* try_send() keeps the read lock, so close() cannot come in between.
TrySend(t, c, x) ==
  /\ Idle(t)
  /\ LET k == Called("try_send", {}, FALSE, c, "try") IN
       \/ open[c] /\ SendNow(t, k, c, x)
       \/ /\ open[c] => NoRoom(c)
          /\ call' = [call EXCEPT ![t] =
               Outcome(k, IF open[c] THEN "full" ELSE "closed", c, NoItem)]
          /\ UNCHANGED buf
  /\ UNCHANGED <<open, closeTx, opItem>>

TryRecv(t, c) ==
  /\ Idle(t)
  /\ LET k == Called("try_recv", {}, FALSE, c, "try") IN
       \/ RecvNow(t, k, c)
       \/ /\ NothingThere(c)
          /\ call' = [call EXCEPT ![t] =
               Outcome(k, IF Disconnected(c) THEN "closed_and_empty" ELSE "empty", c, NoItem)]
          /\ UNCHANGED buf
  /\ UNCHANGED <<open, closeTx, opItem>>

\* Only the signal is given, the Sender stays.
CloseSender_faulty(t, c) ==
  /\ Idle(t)
  /\ call' = [call EXCEPT ![t] = Called("close", {}, FALSE, c, "signal")]
  /\ UNCHANGED <<open, closeTx, buf, opItem>>

\* close() drops the stored Sender, then gives the close signal.
CloseSender(t, c) ==
  /\ Idle(t)
  /\ open' = [open EXCEPT ![c] = FALSE]
  /\ call' = [call EXCEPT ![t] = Called("close", {}, FALSE, c, "signal")]
  /\ UNCHANGED <<closeTx, buf, opItem>>

\* Only the Sender is dropped, the signal is not given.
CloseSignal_faulty(t) ==
  /\ call[t].at = "signal"
  /\ call' = [call EXCEPT ![t] = Outcome(@, "ok", @.chan, NoItem)]
  /\ UNCHANGED <<open, closeTx, buf, opItem>>

CloseSignal(t) ==
  /\ call[t].at = "signal"
  /\ closeTx' = [closeTx EXCEPT ![call[t].chan] = FALSE]
  /\ call' = [call EXCEPT ![t] = Outcome(@, "ok", @.chan, NoItem)]
  /\ UNCHANGED <<open, buf, opItem>>

\* A SendOp can be made of a closed channel.
MakeSendOp_faulty(o, x) ==
  /\ opItem[o] = NoItem
  /\ opItem' = [opItem EXCEPT ![o] = x]
  /\ UNCHANGED <<open, closeTx, buf, call>>

\* send_op() clones the Sender into an object the program keeps.
MakeSendOp(o, x) ==
  /\ open[OpChan[o]]
  /\ opItem[o] = NoItem
  /\ opItem' = [opItem EXCEPT ![o] = x]
  /\ UNCHANGED <<open, closeTx, buf, call>>

DropSendOp(o) ==
  /\ opItem[o] # NoItem
  /\ opItem' = [opItem EXCEPT ![o] = NoItem]
  /\ UNCHANGED <<open, closeTx, buf, call>>

\* select() clones every handle it is given and waits for all of them at once.
Select(t, recvs, sends, timed) ==
  /\ Idle(t)
  /\ recvs # {} \/ sends # {}
  /\ \A o \in sends : opItem[o] # NoItem
  /\ call' = [call EXCEPT ![t] =
       Called("select",
              {RecvFrom(c) : c \in recvs} \cup {SendTo(OpChan[o], opItem[o]) : o \in sends},
              timed, NoChan, "select")]
  /\ UNCHANGED <<open, closeTx, buf, opItem>>

-----------------------------------------------------------------------------
(* Waiting in a select: send(), recv() and select() alike.  When several    *)
(* branches are ready crossbeam takes any of them.                          *)

SelectSend(t) ==
  /\ \E o \in call[t].ops :
       Waiting(t, o) /\ o.dir = "send" /\ SendNow(t, call[t], o.chan, o.item)
  /\ UNCHANGED <<open, closeTx, opItem>>

SelectRecv(t) ==
  /\ \E o \in call[t].ops :
       /\ Waiting(t, o) /\ o.dir = "recv"
       /\ \/ RecvNow(t, call[t], o.chan)
          \/ /\ NothingThere(o.chan) /\ Disconnected(o.chan)
             /\ EndOfStream(t, o.chan)
  /\ UNCHANGED <<open, closeTx, opItem>>

\* The close signal: a send gives up, a receive looks once more for an item.
SelectClosed(t) ==
  /\ \E o \in call[t].ops :
       /\ Waiting(t, o) /\ ~closeTx[o.chan]
       /\ call' = [call EXCEPT ![t] =
            IF o.dir = "send" THEN Outcome(@, "closed", o.chan, NoItem)
            ELSE [@ EXCEPT !.at = "drain", !.chan = o.chan]]
  /\ UNCHANGED <<open, closeTx, buf, opItem>>

SelectTimeout(t) ==
  /\ call[t].at = "select" /\ call[t].timed
  /\ call' = [call EXCEPT ![t] = Outcome(@, "timeout", NoChan, NoItem)]
  /\ UNCHANGED <<open, closeTx, buf, opItem>>

\* The item found after the close signal is thrown away.
Drain_faulty(t) ==
  /\ call[t].at = "drain"
  /\ buf' = [buf EXCEPT ![call[t].chan] = <<>>]
  /\ call' = [call EXCEPT ![t] = Outcome(@, "closed_and_empty", @.chan, NoItem)]
  /\ UNCHANGED <<open, closeTx, opItem>>

Drain(t) ==
  /\ call[t].at = "drain"
  /\ \/ RecvNow(t, call[t], call[t].chan)
     \/ NothingThere(call[t].chan) /\ EndOfStream(t, call[t].chan)
  /\ UNCHANGED <<open, closeTx, opItem>>

\* __next__ after a failed recv(): the end of the stream, or an error.
IterCheck(t) ==
  /\ call[t].at = "check"
  /\ call' = [call EXCEPT ![t] =
       Outcome(@, IF ~open[@.chan] /\ NothingThere(@.chan) THEN "stop" ELSE "raised",
               @.chan, NoItem)]
  /\ UNCHANGED <<open, closeTx, buf, opItem>>

Return(t) ==
  /\ call[t].at = "return"
  /\ call' = [call EXCEPT ![t] = IdleCall]
  /\ UNCHANGED <<open, closeTx, buf, opItem>>

-----------------------------------------------------------------------------
\* What a thread does once it is in a call.
Step(t) ==
  \/ FirstAttempt(t) \/ SelectSend(t) \/ SelectRecv(t) \/ SelectClosed(t)
  \/ SelectTimeout(t) \/ Drain(t) \/ IterCheck(t) \/ CloseSignal(t) \/ Return(t)

\* What a thread may call.
Begin(t) ==
  \/ \E c \in Chans, x \in Items, timed \in BOOLEAN : Send(t, c, x, timed)
  \/ \E c \in Chans, kind \in {"recv", "next"}, timed \in BOOLEAN : Recv(t, c, kind, timed)
  \/ \E c \in Chans, x \in Items : TrySend(t, c, x)
  \/ \E c \in Chans : TryRecv(t, c)
  \/ \E c \in Chans : CloseSender(t, c)
  \/ \E recvs \in SUBSET Chans, sends \in SUBSET SendOps, timed \in BOOLEAN :
       Select(t, recvs, sends, timed)

Next ==
  \/ \E t \in Threads : Begin(t) \/ Step(t)
  \/ \E o \in SendOps : (\E x \in Items : MakeSendOp(o, x)) \/ DropSendOp(o)

Spec == Init /\ [][Next]_vars

\* A thread in a call goes on with it: the operating system schedules it and
\* crossbeam wakes a thread one of whose branches is ready.
Fairness == \A t \in Threads : WF_vars(Step(t))

LiveSpec == Spec /\ Fairness

-----------------------------------------------------------------------------
(* Properties. *)

\* The variables have their types and no buffer outgrows its capacity (new(),
\* channel.rs:33-36).
TypeOK ==
  /\ open \in [Chans -> BOOLEAN]
  /\ closeTx \in [Chans -> BOOLEAN]
  /\ buf \in [Chans -> Seq(Items)]
  /\ \A c \in Chans : Len(buf[c]) <= Capacity[c]
  /\ opItem \in [SendOps -> Items \cup {NoItem}]
  /\ call \in [Threads -> Call]

\* No call says that a channel is closed, or at its end, while it is open: the
\* close signal, a disconnected channel and an empty read lock all mean that
\* close() has dropped the Sender, because close() does that first
\* (channel.rs:200-203).
ClosedErrorsAreTrue ==
  \A t \in Threads :
    (call[t].res \in {"closed", "closed_and_empty", "stop"}) => ~open[call[t].chan]

\* A call that begins after close() has returned can still send in one way
\* only: by a select() that was given a SendOp from before (channel.rs:52-55,
\* 166-167, select.rs:46-52).
LateSendsAreSelects ==
  \A t \in Threads :
    call[t].res = "sent" /\ call[t].chan \in call[t].late => call[t].kind = "select"

\* Once the stored Sender and every clone of it are gone and the buffer is
\* empty, the channel stays disconnected and empty: no send(), send_op() or
\* select() brings a handle back (channel.rs:52-55, 217-219, select.rs:48-52).
SealedIsFinal ==
  [][\A c \in Chans :
       Disconnected(c) /\ buf[c] = <<>> => Disconnected(c)' /\ buf'[c] = <<>>]_vars

\* How often x is in s.
Count(s, x) == Cardinality({i \in DOMAIN s : s[i] = x})

\* How many calls return in this step and report r about c and x.
Reports(r, c, x) ==
  Cardinality({t \in Threads : /\ call[t].at # "return" /\ call'[t].at = "return"
                               /\ call'[t].res = r
                               /\ call'[t].chan = c /\ call'[t].item = x})

\* Every step accounts for every item: what enters a buffer, or goes from hand
\* to hand, is reported as sent by exactly one call, and what leaves it is
\* handed to exactly one call; a call that fails has moved nothing
\* (channel.rs:57-100, 117-161, select.rs:83-138).
AccountedFor ==
  [][\A c \in Chans, x \in Items :
       Count(buf[c], x) + Reports("sent", c, x)
         = Count(buf'[c], x) + Reports("item", c, x)]_vars

\* Each channel is a closable queue whose users are the threads and the SendOp
\* objects (channel.rs:14-20).
Queue(c) == INSTANCE ClosableQueue WITH
  Users <- Threads \cup SendOps,
  Bound <- Capacity[c],
  q <- buf[c],
  closed <- ~open[c],
  holders <- Holders(c)

ImplementsQueue == \A c \in Chans : Queue(c)!QSpec

\* A blocked call comes back when it has a timeout or when one of its channels
\* has been closed, whatever the other threads do (channel.rs:80-98, 131-159,
\* 198-203, select.rs:84-113).
BlockedCallsReturn ==
  \A t \in Threads :
    (/\ call[t].at = "select"
     /\ call[t].timed \/ \E o \in call[t].ops : ~open[o.chan])
    ~> call[t].at # "select"

=============================================================================
