----------------------------- MODULE ActorProofs -----------------------------
(***************************************************************************)
(* Theorems about Actor, for any calls, stop()s and mailbox capacity: its  *)
(* types, that there is one worker, that methods run in the order of the   *)
(* mailbox, and what becomes of the calls that the mailbox has accepted    *)
(* when the worker ends and when a stop() returns.                         *)
(***************************************************************************)
EXTENDS Actor, FiniteSetTheorems, FunctionTheorems, SequenceTheorems, TLAPS

-----------------------------------------------------------------------------
(* Types. *)

Messages == Calls \cup {Sentinel}

Boxes == q \in Seq(Messages) /\ Len(q) <= Capacity /\ batch \in Seq(Messages)

\* The variables have their types at the start (actor.py:71-74).
LEMMA InitTyping == Init => TypeOK
<1> SUFFICES ASSUME Init PROVE TypeOK
  OBVIOUS
<1>1. q \in Seq(Messages) /\ batch \in Seq(Messages) /\ Len(q) = 0
      /\ accepted \in Seq(Calls) /\ ran \in Seq(Calls)
  BY DEF Init
<1>2. Len(q) <= Capacity
  BY <1>1, ActorAssumption
<1>3. worker \in WorkerPlaces
  BY DEF Init, WorkerPlaces
<1>4. /\ client \in [Calls -> ClientPlaces]
      /\ future \in [Calls -> FutureStates]
      /\ stopper \in [Stoppers -> StopperPlaces]
  BY DEF Init, ClientPlaces, FutureStates, StopperPlaces
<1> QED
  BY <1>1, <1>2, <1>3, <1>4 DEF Init, TypeOK, Messages

\* No client leaves the types (actor.py:76-90, 107-116, 183-233).
LEMMA ClientTyping ==
  ASSUME TypeOK, NEW m \in Calls, ClientStarts(m) \/ ClientGoesOn(m)
  PROVE  TypeOK'
<1> USE ActorAssumption
    DEF TypeOK, ClientGoes, WorkerPlaces, ClientPlaces, FutureStates,
        Mailbox!Acquire, Mailbox!Release, histories, mailbox
<1>1. CASE Lookup(m)
  <2>1. PICK p \in ClientPlaces : client' = [client EXCEPT ![m] = p]
    BY <1>1 DEF Lookup
  <2>2. client' \in [Calls -> ClientPlaces]
    BY <2>1
  <2> QED BY <1>1, <2>2 DEF Lookup
<1>2. CASE BeginSend(m)
  <2>1. PICK p \in ClientPlaces, f \in FutureStates :
          client' = [client EXCEPT ![m] = p] /\ future' = [future EXCEPT ![m] = f]
    BY <1>2 DEF BeginSend
  <2>2. client' \in [Calls -> ClientPlaces] /\ future' \in [Calls -> FutureStates]
    BY <2>1
  <2>3. q' = q /\ closed' = closed /\ holders' \subseteq Calls \cup Stoppers
    BY <1>2 DEF BeginSend
  <2> QED BY <1>2, <2>2, <2>3 DEF BeginSend
<1>3. CASE Cancel(m)
  BY <1>3 DEF Cancel
<1>4. CASE EnsureThread(m)
  BY <1>4 DEF EnsureThread
<1>5. CASE StartThread(m)
  BY <1>5 DEF StartThread
<1>6. CASE PutCall(m)
  <2>1. /\ q' = Append(q, m) /\ Len(q) < Capacity
        /\ accepted' = Append(accepted, m)
    BY <1>6 DEF PutCall, Mailbox!Put, Mailbox!HasRoomFor
  <2>2. q' \in Seq(Calls \cup {Sentinel}) /\ Len(q') <= Capacity
    BY <2>1
  <2>3. accepted' \in Seq(Calls)
    BY <2>1
  <2> QED BY <1>6, <2>2, <2>3 DEF PutCall, Mailbox!Put
<1>7. CASE GiveUp(m)
  BY <1>7 DEF GiveUp
<1>8. CASE EndSend(m)
  BY <1>8 DEF EndSend
<1> QED
  BY <1>1, <1>2, <1>3, <1>4, <1>5, <1>6, <1>7, <1>8 DEF ClientStarts, ClientGoesOn

\* The worker does not leave the types (actor.py:118-181).
LEMMA WorkerTyping ==
  ASSUME TypeOK, WorkerStep
  PROVE  TypeOK'
<1> USE ActorAssumption
    DEF TypeOK, WorkerGoes, WorkerPlaces, FutureStates, histories, mailbox
<1>1. CASE OnStart \/ OnStop
  BY <1>1 DEF OnStart, OnStop
<1>2. ASSUME q # <<>>
      PROVE  Head(q) \in Calls \cup {Sentinel} /\ Tail(q) \in Seq(Calls \cup {Sentinel})
             /\ Len(Tail(q)) <= Capacity
  BY <1>2
<1>3. CASE Receive
  <2>1. batch' \in Seq(Calls \cup {Sentinel})
    <3>1. ASSUME q # <<>> PROVE <<Head(q)>> \in Seq(Calls \cup {Sentinel})
      BY <1>2, <3>1
    <3> QED BY <1>3, <3>1 DEF Receive, Mailbox!Take
  <2> QED BY <1>2, <1>3, <2>1 DEF Receive, Mailbox!Take
<1>4. CASE DrainOne
  <2>1. batch' \in Seq(Calls \cup {Sentinel})
    BY <1>2, <1>4 DEF DrainOne, Mailbox!Take
  <2> QED BY <1>2, <1>4, <2>1 DEF DrainOne, Mailbox!Take
<1>5. CASE DrainEnd
  BY <1>5 DEF DrainEnd
<1>6. CASE Run
  <2>1. CASE batch = <<>>
    BY <1>6, <2>1 DEF Run
  <2>2. CASE batch # <<>> /\ Head(batch) = Sentinel
    <3>1. batch' = <<>> /\ <<>> \in Seq(Calls \cup {Sentinel})
      BY <1>6, <2>2 DEF Run
    <3> QED BY <1>6, <2>2, <3>1 DEF Run
  <2>3. CASE batch # <<>> /\ Head(batch) # Sentinel
    <3>1. Head(batch) \in Calls /\ ran' = Append(ran, Head(batch))
      BY <1>6, <2>3 DEF Run
    <3>2. ran' \in Seq(Calls)
      BY <3>1
    <3> QED BY <1>6, <2>3, <3>2 DEF Run
  <2> QED BY <2>1, <2>2, <2>3
<1>7. CASE Resolve
  <2>1. batch' = <<>> \/ batch' = Tail(batch)
    BY <1>7 DEF Resolve
  <2>2. batch' \in Seq(Calls \cup {Sentinel})
    <3>1. batch # <<>>
      BY <1>7 DEF Resolve
    <3>2. Tail(batch) \in Seq(Calls \cup {Sentinel})
      BY <3>1
    <3>3. <<>> \in Seq(Calls \cup {Sentinel})
      OBVIOUS
    <3> QED BY <2>1, <3>2, <3>3
  <2>3. future' \in [Calls -> FutureStates] /\ worker' \in {"run", "on_stop"}
    BY <1>7 DEF Resolve
  <2> QED BY <1>7, <2>2, <2>3 DEF Resolve
<1> QED
  BY <1>1, <1>3, <1>4, <1>5, <1>6, <1>7 DEF WorkerStep

\* No stop() leaves the types (actor.py:290-307).
LEMMA StopperTyping ==
  ASSUME TypeOK, NEW s \in Stoppers, StopFlag(s) \/ StopperGoesOn(s)
  PROVE  TypeOK'
<1> USE ActorAssumption
    DEF TypeOK, StopperGoes, StopperPlaces, Mailbox!Acquire, Mailbox!Release, Mailbox!Close,
        histories, mailbox
<1>1. CASE StopFlag(s)
  <2>1. backlog' \subseteq Calls
    BY <1>1 DEF StopFlag, ToSet
  <2> QED BY <1>1, <2>1 DEF StopFlag
<1>2. CASE ReadThread(s)
  BY <1>2 DEF ReadThread
<1>3. CASE BeginSentinel(s)
  BY <1>3 DEF BeginSentinel
<1>4. CASE PutSentinel(s)
  <2>1. q' = Append(q, Sentinel) /\ Len(q) < Capacity
    BY <1>4 DEF PutSentinel, Mailbox!Put, Mailbox!HasRoomFor
  <2>2. q' \in Seq(Calls \cup {Sentinel}) /\ Len(q') <= Capacity
    BY <2>1
  <2> QED BY <1>4, <2>2 DEF PutSentinel, Mailbox!Put
<1>5. CASE EndSentinel(s)
  BY <1>5 DEF EndSentinel
<1>6. CASE SentinelClosed(s)
  BY <1>6 DEF SentinelClosed
<1>7. CASE SentinelTimeout(s)
  BY <1>7 DEF SentinelTimeout
<1>8. CASE Join(s) \/ JoinTimeout(s)
  BY <1>8 DEF Join, JoinTimeout
<1>9. CASE CloseMailbox(s)
  BY <1>9 DEF CloseMailbox
<1> QED
  BY <1>1, <1>2, <1>3, <1>4, <1>5, <1>6, <1>7, <1>8, <1>9 DEF StopperGoesOn

\* No step leaves the types.
LEMMA StepTyping == TypeOK /\ [Next]_vars => TypeOK'
<1> SUFFICES ASSUME TypeOK, [Next]_vars PROVE TypeOK'
  OBVIOUS
<1>1. CASE UNCHANGED vars
  BY <1>1 DEF vars, mailbox, histories, TypeOK
<1> QED BY <1>1, ClientTyping, WorkerTyping, StopperTyping DEF Next

\* The variables of Actor keep their types, and the mailbox its capacity
\* (actor.py:71-74).
THEOREM TypeCorrect == Spec => []TypeOK
BY InitTyping, StepTyping, PTL DEF Spec

-----------------------------------------------------------------------------
(* One worker. *)

\* The lock keeps two clients from making the thread (actor.py:107-116).
LEMMA StepOneWorker == TypeOK /\ OneWorker /\ [Next]_vars => OneWorker'
<1> SUFFICES ASSUME TypeOK, OneWorker, [Next]_vars PROVE OneWorker'
  OBVIOUS
<1>1. client \in [Calls -> ClientPlaces]
  BY DEF TypeOK
<1>2. ASSUME NEW m \in Calls, EnsureThread(m) PROVE OneWorker'
  BY <1>1, <1>2 DEF EnsureThread, ClientGoes, OneWorker
<1>3. ASSUME NEW m \in Calls, StartThread(m) PROVE OneWorker'
  BY <1>1, <1>3 DEF StartThread, ClientGoes, OneWorker
<1>4. ASSUME UNCHANGED worker, \A m \in Calls : client'[m] = "start" => client[m] = "start"
      PROVE  OneWorker'
  BY <1>4 DEF OneWorker
<1>5. ASSUME NEW m \in Calls,
             Lookup(m) \/ BeginSend(m) \/ Cancel(m) \/ PutCall(m) \/ GiveUp(m) \/ EndSend(m)
      PROVE  OneWorker'
  BY <1>1, <1>4, <1>5 DEF Lookup, BeginSend, Cancel, PutCall, GiveUp, EndSend, ClientGoes
<1>6. CASE WorkerStep
  <2>1. worker # "created" /\ client' = client
    BY <1>6 DEF WorkerStep, OnStart, Receive, DrainOne, DrainEnd, Run, Resolve, OnStop, WorkerGoes
  <2> QED BY <2>1 DEF OneWorker
<1>7. ASSUME NEW s \in Stoppers, StopFlag(s) \/ StopperGoesOn(s) PROVE OneWorker'
  BY <1>4, <1>7 DEF StopFlag, StopperGoesOn, ReadThread, BeginSentinel, PutSentinel, EndSentinel,
     SentinelClosed, SentinelTimeout, Join, JoinTimeout, CloseMailbox
<1>8. CASE UNCHANGED vars
  BY <1>4, <1>8 DEF vars
<1> QED
  BY <1>2, <1>3, <1>5, <1>6, <1>7, <1>8 DEF Next, ClientStarts, ClientGoesOn

\* However many clients make the first call at once, one of them is about to
\* start the thread, and only while it is not running (actor.py:107-116).
THEOREM OneWorkerOnly == Spec => []OneWorker
<1>1. Init => OneWorker
  BY DEF Init, OneWorker
<1> QED BY <1>1, InitTyping, StepTyping, StepOneWorker, PTL DEF Spec

-----------------------------------------------------------------------------
(* The invariant. *)

\* What may cost accepted calls their answers (actor.py:140, 168-172, 298-305).
Excuse == gaveUp \/ EndedByCancel

Ended == worker \in {"on_stop", "dead"}

\* The calls that matter: all until somebody calls stop(), then the backlog.
Kept == IF stopped THEN backlog ELSE ToSet(accepted)

Stored == ToSet(q) \cup ToSet(batch)

\* A call is in the mailbox, with the worker or run only after its send()
\* (actor.py:90, 229).
Sent == \A m \in Calls :
  \/ m \in ToSet(accepted) \/ m \in ToSet(ran) \/ m \in Stored \/ future[m] = "cancelled"
  => client[m] = "sent"

\* Before the first stop() there are no sentinels, and the worker does not end
\* (actor.py:294-304).
NotStopped == ~stopped =>
  /\ ~closed /\ Sentinel \notin Stored
  /\ \A s \in Stoppers : stopper[s] = "idle"
  /\ Ended => Excuse

\* What the worker holds at each place (actor.py:131-174).
Places ==
  /\ worker \in {"none", "created", "on_start", "recv"} => batch = <<>>
  /\ worker = "drain" => Sentinel \notin ToSet(batch)
  /\ worker = "resolve" =>
       /\ batch # <<>> /\ Head(batch) \in Calls /\ Head(batch) \in ToSet(ran)
       /\ ran # <<>> /\ Head(batch) = Last(ran)
  /\ worker = "none" => \A m \in Calls : client[m] \in {"idle", "ensure", "refused"}

\* Sentinels come after the calls that matter (actor.py:134-151, 294-298).
SentinelsLast ==
  /\ \A i, j \in DOMAIN q : q[i] = Sentinel /\ q[j] \in Kept => j < i
  /\ \A i, j \in DOMAIN batch : batch[i] = Sentinel /\ batch[j] \in Kept => j < i
  /\ Sentinel \in ToSet(batch) => \A j \in DOMAIN q : q[j] \notin Kept

\* The mailbox is closed behind a sentinel or behind the worker
\* (actor.py:296-305).
SentinelFirst ==
  closed \/ (\E s \in Stoppers : stopper[s] \in {"sent", "join", "close"})
    => gaveUp \/ Ended \/ Sentinel \in Stored

\* A call that matters is answered or on its way (actor.py:131-174).
OnItsWay ==
  Excuse \/ \A m \in Kept : Answered(m) \/ (~Ended /\ m \in Stored)

\* The backlog has been accepted (actor.py:292-294).
BacklogAccepted == backlog \subseteq ToSet(accepted)

\* An untimed stop() from outside has waited for the worker
\* (actor.py:295-296, 301-303).
StopsWait ==
  \A s \in Stoppers \ Timed :
    stopper[s] \in {"close", "returned"} /\ By[s] = Outside
      => worker = "dead" \/ backlog = {}

\* What has run is answered, but for the call whose method is running
\* (actor.py:153-171).
Finished ==
  \A m \in ToSet(ran) : Answered(m) \/ (worker = "resolve" /\ m = Head(batch))

BacklogInv ==
  /\ Sent /\ NotStopped /\ Places /\ SentinelsLast /\ SentinelFirst
  /\ OnItsWay /\ BacklogAccepted /\ StopsWait /\ Finished

-----------------------------------------------------------------------------
(* Sets of messages. *)

\* Appending adds one element.
LEMMA SetOfAppend ==
  ASSUME NEW T, NEW s \in Seq(T), NEW x \in T
  PROVE  ToSet(Append(s, x)) = ToSet(s) \cup {x}
<1>1. /\ DOMAIN Append(s, x) = DOMAIN s \cup {Len(s) + 1}
      /\ Append(s, x)[Len(s) + 1] = x
      /\ \A i \in DOMAIN s : Append(s, x)[i] = s[i]
  OBVIOUS
<1> QED BY <1>1 DEF ToSet

\* A sequence has its head and the elements of its tail.
LEMMA SetOfTail ==
  ASSUME NEW T, NEW s \in Seq(T), s # <<>>
  PROVE  ToSet(s) = {Head(s)} \cup ToSet(Tail(s))
<1>1. /\ 1 \in DOMAIN s /\ Head(s) = s[1]
      /\ \A i \in DOMAIN Tail(s) : i + 1 \in DOMAIN s /\ Tail(s)[i] = s[i + 1]
      /\ \A i \in DOMAIN s : i = 1 \/ (i - 1 \in DOMAIN Tail(s) /\ Tail(s)[i - 1] = s[i])
  OBVIOUS
<1>2. ToSet(s) \subseteq {Head(s)} \cup ToSet(Tail(s))
  BY <1>1 DEF ToSet
<1>3. {Head(s)} \cup ToSet(Tail(s)) \subseteq ToSet(s)
  BY <1>1 DEF ToSet
<1> QED BY <1>2, <1>3

\* Before(s, x, K): in s the elements of K come before every x.
Before(s, x, K) == \A i, j \in DOMAIN s : s[i] = x /\ s[j] \in K => j < i

\* What comes before every x still does so in the tail.
LEMMA TailBefore ==
  ASSUME NEW T, NEW s \in Seq(T), s # <<>>, NEW x, NEW K, Before(s, x, K)
  PROVE  Before(Tail(s), x, K)
<1>1. \A i \in DOMAIN Tail(s) : i + 1 \in DOMAIN s /\ Tail(s)[i] = s[i + 1] /\ i \in Nat
  OBVIOUS
<1> SUFFICES ASSUME NEW i \in DOMAIN Tail(s), NEW j \in DOMAIN Tail(s),
                    Tail(s)[i] = x, Tail(s)[j] \in K
             PROVE  j < i
  BY DEF Before
<1>2. j + 1 < i + 1
  BY <1>1 DEF Before
<1> QED BY <1>1, <1>2

\* With x at the head, no element of K is in the sequence.
LEMMA HeadBefore ==
  ASSUME NEW T, NEW s \in Seq(T), s # <<>>, NEW K, Before(s, Head(s), K)
  PROVE  \A j \in DOMAIN s : s[j] \notin K
<1>1. 1 \in DOMAIN s /\ Head(s) = s[1] /\ \A j \in DOMAIN s : ~(j < 1)
  OBVIOUS
<1> QED BY <1>1 DEF Before

\* The elements of the shortest sequences.
LEMMA SmallSets ==
  ASSUME NEW x
  PROVE  ToSet(<<x>>) = {x} /\ ToSet(<<>>) = {}
BY DEF ToSet

\* The last element is one of the elements.
LEMMA LastIsThere ==
  ASSUME NEW T, NEW s \in Seq(T), s # <<>>
  PROVE  Last(s) \in ToSet(s) /\ Last(s) \in T
<1>1. Len(s) \in DOMAIN s
  OBVIOUS
<1> QED BY <1>1 DEF Last, ToSet

\* The last element is the one that has been appended.
LEMMA LastOfAppend ==
  ASSUME NEW T, NEW s \in Seq(T), NEW x \in T
  PROVE  Append(s, x) # <<>> /\ Last(Append(s, x)) = x
<1>1. Len(Append(s, x)) = Len(s) + 1 /\ Append(s, x)[Len(s) + 1] = x
  OBVIOUS
<1>2. Len(s) \in Nat
  OBVIOUS
<1>3. Append(s, x) # <<>>
  BY <1>1, <1>2, EmptySeq
<1> QED BY <1>1, <1>3 DEF Last

-----------------------------------------------------------------------------
(* The backlog: clients. *)

\* The invariant holds at the start.
LEMMA InitBacklog == Init => BacklogInv
<1> SUFFICES ASSUME Init PROVE BacklogInv
  OBVIOUS
<1>1. ToSet(q) = {} /\ ToSet(batch) = {} /\ ToSet(accepted) = {} /\ ToSet(ran) = {}
  BY SmallSets DEF Init
<1>2. Sent /\ BacklogAccepted /\ Finished /\ StopsWait /\ SentinelFirst
  BY <1>1, ActorAssumption DEF Init, Sent, Stored, BacklogAccepted, Finished, StopsWait, SentinelFirst
<1>3. NotStopped /\ Places /\ OnItsWay
  BY <1>1, ActorAssumption DEF Init, NotStopped, Stored, Ended, Places, OnItsWay, Kept
<1>4. SentinelsLast
  BY <1>1, SmallSets DEF Init, SentinelsLast
<1> QED BY <1>2, <1>3, <1>4 DEF BacklogInv

\* Steps of clients that move no message.
LEMMA QuietClient ==
  ASSUME TypeOK, BacklogInv,
         UNCHANGED <<q, closed, stopped, batch, future, stopper, histories>>,
         worker' = worker \/ (worker \in {"none", "created"} /\ worker' \in {"created", "on_start"}),
         \A n \in Calls : client[n] = "sent" => client'[n] = "sent",
         worker' = "none" => \A n \in Calls : client'[n] \in {"idle", "ensure", "refused"}
  PROVE  BacklogInv'
<1>1. Kept' = Kept /\ Stored' = Stored /\ (Excuse' <=> Excuse) /\ (Ended' <=> Ended)
      /\ \A n \in Calls : Answered(n)' <=> Answered(n)
  BY DEF Kept, Stored, Excuse, EndedByCancel, Ended, Answered, histories
<1>2. Sent' /\ NotStopped' /\ Places'
  BY <1>1 DEF BacklogInv, Sent, NotStopped, Places, histories
<1>3. SentinelsLast' /\ SentinelFirst'
  BY <1>1 DEF BacklogInv, SentinelsLast, SentinelFirst, histories
<1>5. OnItsWay'
  <2>1. Kept \subseteq Calls
    BY DEF Kept, TypeOK, ToSet
  <2> QED BY <1>1, <2>1 DEF BacklogInv, OnItsWay
<1>4. BacklogAccepted' /\ StopsWait'
  BY <1>1 DEF BacklogInv, BacklogAccepted, StopsWait, histories
<1>6. Finished'
  <2>1. ToSet(ran) \subseteq Calls
    BY DEF TypeOK, ToSet
  <2> QED BY <1>1, <2>1 DEF BacklogInv, Finished, histories
<1> QED BY <1>2, <1>3, <1>4, <1>5, <1>6 DEF BacklogInv

\* Steps that change one Future, of a call that is not answered yet.
LEMMA OneFuture ==
  ASSUME TypeOK, BacklogInv, NEW m \in Calls, NEW f \in FutureStates, NEW p \in ClientPlaces,
         client[m] # "sent" \/ p = "sent",
         f = "cancelled" => m \in Cancellable /\ client[m] = "sent",
         client[m] = "sent" => f = "cancelled",
         client[m] \notin {"idle", "ensure", "refused"},
         client' = [client EXCEPT ![m] = p], future' = [future EXCEPT ![m] = f],
         UNCHANGED <<q, closed, stopped, worker, batch, stopper, histories>>
  PROVE  BacklogInv'
<1>1. Kept' = Kept /\ Stored' = Stored /\ (Ended' <=> Ended)
  BY DEF Kept, Stored, Ended, histories
<1>2. \A n \in Calls : /\ future'[n] = IF n = m THEN f ELSE future[n]
                       /\ client'[n] = IF n = m THEN p ELSE client[n]
  BY DEF TypeOK
<1>3. client[m] # "sent" =>
        m \notin ToSet(accepted) /\ m \notin ToSet(ran) /\ m \notin Stored /\ future[m] # "cancelled"
  BY DEF BacklogInv, Sent
<1>4. Excuse => Excuse'
  <2>1. ran # <<>> => Last(ran) \in Calls /\ Last(ran) \in ToSet(ran)
    BY LastIsThere DEF TypeOK
  <2> QED BY <1>2, <1>3, <2>1 DEF Excuse, EndedByCancel, histories
<1>5. \A n \in Calls : Answered(n) => Answered(n)'
  BY <1>2, <1>3 DEF Answered, histories
<1>6. Sent'
  BY <1>1, <1>2, <1>3 DEF BacklogInv, Sent, histories
<1>7. NotStopped' /\ Places'
  BY <1>1, <1>2, <1>4 DEF BacklogInv, NotStopped, Places, Ended, histories
<1>8. SentinelsLast' /\ SentinelFirst'
  BY <1>1 DEF BacklogInv, SentinelsLast, SentinelFirst, histories
<1>9. OnItsWay'
  <2>1. Kept \subseteq Calls
    BY DEF Kept, TypeOK, ToSet
  <2> QED BY <1>1, <1>4, <1>5, <2>1 DEF BacklogInv, OnItsWay
<1>10. BacklogAccepted' /\ StopsWait'
  BY DEF BacklogInv, BacklogAccepted, StopsWait, histories
<1>11. Finished'
  <2>1. ToSet(ran) \subseteq Calls
    BY DEF TypeOK, ToSet
  <2> QED BY <1>5, <2>1 DEF BacklogInv, Finished, histories
<1> QED BY <1>6, <1>7, <1>8, <1>9, <1>10, <1>11 DEF BacklogInv

\* A call goes into the mailbox (actor.py:90, 229).
LEMMA PutBacklog ==
  ASSUME TypeOK, BacklogInv, NEW m \in Calls, PutCall(m)
  PROVE  BacklogInv'
<1>1. /\ client[m] = "sending" /\ client' = [client EXCEPT ![m] = "sent"]
      /\ q' = Append(q, m) /\ accepted' = Append(accepted, m)
      /\ UNCHANGED <<closed, stopped, worker, batch, future, stopper, ran, backlog, gaveUp>>
  BY DEF PutCall, ClientGoes, Mailbox!Put
<1>2. /\ ToSet(q') = ToSet(q) \cup {m} /\ ToSet(accepted') = ToSet(accepted) \cup {m}
      /\ Stored' = Stored \cup {m}
  <2>1. ToSet(q') = ToSet(q) \cup {m}
    <3>1. q \in Seq(Messages) /\ m \in Messages
      BY DEF TypeOK, Messages
    <3> QED BY <1>1, <3>1, SetOfAppend
  <2>2. ToSet(accepted') = ToSet(accepted) \cup {m}
    BY <1>1, SetOfAppend DEF TypeOK
  <2> QED BY <1>1, <2>1, <2>2 DEF Stored
<1>3. \A n \in Calls : client'[n] = IF n = m THEN "sent" ELSE client[n]
  BY <1>1 DEF TypeOK
<1>4. (Excuse' <=> Excuse) /\ (Ended' <=> Ended) /\ \A n \in Calls : Answered(n)' <=> Answered(n)
  BY <1>1 DEF Excuse, EndedByCancel, Ended, Answered
<1>5. /\ stopped => Kept' = Kept /\ m \notin Kept
      /\ ~stopped => Kept' = Kept \cup {m}
  BY <1>1, <1>2 DEF Kept, BacklogInv, BacklogAccepted, Sent
<1>6. /\ DOMAIN q' = DOMAIN q \cup {Len(q) + 1} /\ q'[Len(q) + 1] = m
      /\ \A i \in DOMAIN q : q'[i] = q[i] /\ i \in Nat /\ i < Len(q) + 1
  BY <1>1 DEF TypeOK
<1>7. Sentinel # m
  BY ActorAssumption
<1>8. Sent' /\ NotStopped' /\ Places'
  BY <1>1, <1>2, <1>3, <1>4, <1>7 DEF BacklogInv, Sent, NotStopped, Places
<1>9. SentinelsLast'
  <2>1. CASE stopped
    BY <1>1, <1>5, <1>6, <1>7, <2>1 DEF BacklogInv, SentinelsLast
  <2>2. CASE ~stopped
    <3>1. Sentinel \notin Stored'
      BY <1>2, <1>7, <2>2 DEF BacklogInv, NotStopped
    <3> QED BY <3>1 DEF SentinelsLast, Stored, ToSet
  <2> QED BY <2>1, <2>2
<1>10. SentinelFirst'
  BY <1>1, <1>2, <1>4 DEF BacklogInv, SentinelFirst
<1>12. OnItsWay'
  <2>1. Kept \subseteq Calls
    BY DEF Kept, TypeOK, ToSet
  <2>2. Kept' \subseteq Kept \cup {m} /\ (m \in Kept' => ~stopped)
    BY <1>5
  <2> QED BY <1>1, <1>2, <1>4, <2>1, <2>2 DEF BacklogInv, OnItsWay, NotStopped
<1>11. BacklogAccepted' /\ StopsWait'
  BY <1>1, <1>2 DEF BacklogInv, BacklogAccepted, StopsWait
<1>13. Finished'
  <2>1. ToSet(ran) \subseteq Calls
    BY DEF TypeOK, ToSet
  <2> QED BY <1>1, <1>4, <2>1 DEF BacklogInv, Finished
<1> QED BY <1>8, <1>9, <1>10, <1>11, <1>12, <1>13 DEF BacklogInv

\* No step of a client loses a call that matters (actor.py:76-90, 107-116, 183-233).
LEMMA ClientBacklog ==
  ASSUME TypeOK, OneWorker, BacklogInv, NEW m \in Calls, ClientStarts(m) \/ ClientGoesOn(m)
  PROVE  BacklogInv'
<1> USE ActorAssumption DEF ClientGoes, mailbox, Mailbox!Acquire, Mailbox!Release
<1>0. /\ client \in [Calls -> ClientPlaces]
      /\ worker = "none" => \A n \in Calls : client[n] \in {"idle", "ensure", "refused"}
  BY DEF TypeOK, BacklogInv, Places
<1>1. CASE Lookup(m)
  BY <1>0, <1>1, QuietClient DEF Lookup
<1>2. CASE EnsureThread(m)
  BY <1>0, <1>2, QuietClient DEF EnsureThread
<1>3. CASE StartThread(m)
  BY <1>0, <1>3, QuietClient DEF StartThread, OneWorker
<1>4. CASE EndSend(m)
  BY <1>0, <1>4, QuietClient DEF EndSend
<1>5. CASE BeginSend(m)
  <2>1. PICK f \in {"none", "failed", "pending"}, p \in {"rejected", "sending"} :
          /\ client[m] = "bound" /\ client' = [client EXCEPT ![m] = p]
          /\ future' = [future EXCEPT ![m] = f]
          /\ UNCHANGED <<q, closed, stopped, worker, batch, stopper, histories>>
    BY <1>5 DEF BeginSend
  <2> QED BY <2>1, OneFuture DEF FutureStates, ClientPlaces
<1>6. CASE GiveUp(m)
  <2>1. PICK f \in {"none", "failed"} :
          /\ client[m] = "sending" /\ client' = [client EXCEPT ![m] = "rejected"]
          /\ future' = [future EXCEPT ![m] = f]
          /\ UNCHANGED <<q, closed, stopped, worker, batch, stopper, histories>>
    BY <1>6 DEF GiveUp
  <2> QED BY <2>1, OneFuture DEF FutureStates, ClientPlaces
<1>7. CASE Cancel(m)
  <2>1. client' = [client EXCEPT ![m] = "sent"]
    BY <1>0, <1>7 DEF Cancel
  <2> QED BY <1>7, <2>1, OneFuture DEF Cancel, FutureStates, ClientPlaces
<1>8. CASE PutCall(m)
  BY <1>8, PutBacklog
<1> QED
  BY <1>1, <1>2, <1>3, <1>4, <1>5, <1>6, <1>7, <1>8 DEF ClientStarts, ClientGoesOn

-----------------------------------------------------------------------------
(* The backlog: the worker. *)

\* What a step of the worker leaves alone, and what it may do to the rest: no
\* call that matters is lost while there is no excuse.
LEMMA WorkerFrame ==
  ASSUME TypeOK, BacklogInv,
         UNCHANGED <<closed, stopped, client, stopper, accepted, backlog, gaveUp>>,
         worker \notin {"none", "dead"}, worker' # "none",
         Ended => Ended' /\ UNCHANGED <<future, ran>>,
         \A m \in Calls : future'[m] = "cancelled" => future[m] = "cancelled",
         \A m \in Calls : Answered(m) => Answered(m)',
         Stored' \subseteq Stored,
         ToSet(ran') \subseteq ToSet(ran) \cup Stored,
         \/ Excuse'
         \/ \A m \in Kept \cap Stored : Answered(m)' \/ (~Ended' /\ m \in Stored'),
         Ended' => Excuse' \/ stopped,
         Sentinel \in Stored => gaveUp \/ Ended' \/ Sentinel \in Stored',
         Places', SentinelsLast', Finished'
  PROVE  BacklogInv'
<1>1. Kept' = Kept /\ (Excuse => Excuse')
  BY DEF Kept, Excuse, EndedByCancel, Ended
<1>2. Sent'
  BY DEF BacklogInv, Sent
<1>3. NotStopped'
  BY <1>1 DEF BacklogInv, NotStopped
<1>4. SentinelFirst'
  BY DEF BacklogInv, SentinelFirst
<1>5. OnItsWay'
  <2>1. Kept \subseteq Calls
    BY DEF Kept, TypeOK, ToSet
  <2> QED BY <1>1, <2>1 DEF BacklogInv, OnItsWay
<1>6. BacklogAccepted'
  BY DEF BacklogInv, BacklogAccepted
<1>7. StopsWait'
  <2>1. worker = "dead" => worker' = "dead"
    OBVIOUS
  <2> QED BY <2>1 DEF BacklogInv, StopsWait
<1> QED BY <1>1, <1>2, <1>3, <1>4, <1>5, <1>6, <1>7 DEF BacklogInv

\* No step of the worker loses a call that matters without an excuse
\* (actor.py:118-181).
LEMMA WorkerBacklog ==
  ASSUME TypeOK, BacklogInv, WorkerStep
  PROVE  BacklogInv'
<1> USE ActorAssumption DEF WorkerGoes, mailbox, histories
<1>a. /\ q \in Seq(Messages) /\ batch \in Seq(Messages) /\ ran \in Seq(Calls)
      /\ future \in [Calls -> FutureStates] /\ Kept \subseteq Calls /\ Sentinel \notin Calls
  BY DEF TypeOK, Messages, Kept, ToSet
<1>b. /\ Sent /\ NotStopped /\ Places /\ SentinelsLast /\ SentinelFirst /\ OnItsWay
      /\ Finished /\ ToSet(ran) \subseteq Calls
  BY DEF BacklogInv, TypeOK, ToSet
<1>j. ASSUME UNCHANGED <<future, ran>>, worker # "resolve"
      PROVE  Finished'
  BY <1>b, <1>j DEF Finished, Answered
<1>c. ASSUME UNCHANGED <<closed, stopped, client, stopper, accepted, backlog, gaveUp, q, batch, future, ran>>,
             worker \notin {"none", "dead", "resolve"}, worker' # "none", Ended <=> Ended', Places'
      PROVE  BacklogInv'
  <2>1. Stored' = Stored /\ Kept' = Kept /\ \A m \in Calls : Answered(m)' <=> Answered(m)
    BY <1>c DEF Stored, Kept, Answered
  <2>2. SentinelsLast'
    BY <1>b, <1>c, <2>1 DEF SentinelsLast
  <2>3. Excuse' <=> Excuse
    BY <1>c DEF Excuse, EndedByCancel, Ended
  <2>4. Excuse' \/ \A m \in Kept \cap Stored : Answered(m)' \/ (~Ended' /\ m \in Stored')
    BY <1>a, <1>b, <1>c, <2>1, <2>3 DEF OnItsWay
  <2>5. Ended' => Excuse' \/ stopped
    BY <1>b, <1>c, <2>3 DEF NotStopped
  <2>6. Finished'
    BY <1>c, <1>j
  <2> QED BY <1>c, <2>1, <2>2, <2>4, <2>5, <2>6, WorkerFrame
<1>1. CASE OnStart
  BY <1>1, <1>b, <1>c DEF OnStart, Ended, Places
<1>2. CASE OnStop
  BY <1>2, <1>b, <1>c DEF OnStop, Ended, Places
<1>d. /\ Before(q, Sentinel, Kept) /\ Before(batch, Sentinel, Kept)
      /\ Sentinel \in ToSet(batch) => ToSet(q) \cap Kept = {}
  BY <1>b DEF SentinelsLast, Before, ToSet
<1>e. ASSUME Before(q', Sentinel, Kept), Before(batch', Sentinel, Kept),
             Sentinel \in ToSet(batch') => ToSet(q') \cap Kept = {},
             UNCHANGED <<stopped, accepted, backlog>>
      PROVE  SentinelsLast'
  <2>1. Kept' = Kept
    BY <1>e DEF Kept
  <2> QED BY <1>e, <2>1 DEF SentinelsLast, Before, ToSet
<1>f. Before(<<>>, Sentinel, Kept) /\ ToSet(<<>>) = {}
  <2>1. \A i \in DOMAIN <<>> : FALSE
    OBVIOUS
  <2> QED BY <2>1, SmallSets DEF Before
<1>g. ASSUME q # <<>>
      PROVE  /\ Head(q) \in Messages /\ Tail(q) \in Seq(Messages)
             /\ ToSet(q) = {Head(q)} \cup ToSet(Tail(q))
             /\ Before(Tail(q), Sentinel, Kept)
             /\ Head(q) = Sentinel => ToSet(q) \cap Kept = {}
  <2>1. Head(q) \in Messages /\ Tail(q) \in Seq(Messages)
    BY <1>a, <1>g
  <2>2. ToSet(q) = {Head(q)} \cup ToSet(Tail(q)) /\ Before(Tail(q), Sentinel, Kept)
    BY <1>a, <1>d, <1>g, SetOfTail, TailBefore
  <2>3. Head(q) = Sentinel => ToSet(q) \cap Kept = {}
    BY <1>a, <1>d, <1>g, HeadBefore DEF ToSet
  <2> QED BY <2>1, <2>2, <2>3
<1>h. ASSUME batch # <<>>
      PROVE  /\ Head(batch) \in Messages
             /\ ToSet(batch) = {Head(batch)} \cup ToSet(Tail(batch))
             /\ Before(Tail(batch), Sentinel, Kept)
             /\ Head(batch) = Sentinel => ToSet(batch) \cap Kept = {}
  <2>1. Head(batch) \in Messages
    BY <1>a, <1>h
  <2>2. ToSet(batch) = {Head(batch)} \cup ToSet(Tail(batch)) /\ Before(Tail(batch), Sentinel, Kept)
    BY <1>a, <1>d, <1>h, SetOfTail, TailBefore
  <2>3. Head(batch) = Sentinel => ToSet(batch) \cap Kept = {}
    BY <1>a, <1>d, <1>h, HeadBefore DEF ToSet
  <2> QED BY <2>1, <2>2, <2>3
<1>i. ASSUME UNCHANGED <<future, ran>>
      PROVE  /\ \A m \in Calls : future'[m] = "cancelled" => future[m] = "cancelled"
             /\ \A m \in Calls : Answered(m) => Answered(m)'
             /\ ToSet(ran') \subseteq ToSet(ran) \cup Stored
  BY <1>i DEF Answered
<1>3. CASE Receive
  <2>1. /\ worker = "recv" /\ batch = <<>> /\ Stored = ToSet(q)
        /\ UNCHANGED <<stopped, client, future, stopper, accepted, ran, backlog, gaveUp>>
    BY <1>3, <1>b, <1>f DEF Receive, Places, Stored
  <2>2. CASE q # <<>> /\ q' = Tail(q) /\ closed' = closed /\ Head(q) = Sentinel
             /\ worker' = "on_stop" /\ batch' = batch
    <3>1. Stored' \subseteq Stored /\ Sentinel \in Stored /\ Kept \cap Stored = {}
      BY <1>g, <2>1, <2>2, <1>f DEF Stored
    <3>2. Places' /\ stopped /\ Ended'
      BY <1>b, <2>1, <2>2, <3>1 DEF Places, NotStopped, Ended
    <3>3. SentinelsLast'
      BY <1>d, <1>e, <1>f, <1>g, <2>1, <2>2
    <3> QED BY <1>i, <1>j, <2>1, <2>2, <3>1, <3>2, <3>3, WorkerFrame
  <2>3. CASE q # <<>> /\ q' = Tail(q) /\ closed' = closed /\ Head(q) # Sentinel
             /\ worker' = "drain" /\ batch' = <<Head(q)>>
    <3>1. ToSet(batch') = {Head(q)}
      BY <2>3, SmallSets
    <3>2. Stored' = Stored /\ ~Ended'
      BY <1>g, <2>1, <2>3, <3>1 DEF Stored, Ended
    <3>3. Places'
      BY <2>3, <3>1 DEF Places
    <3>4. Before(batch', Sentinel, Kept)
      BY <2>3, <3>1 DEF Before, ToSet
    <3>5. SentinelsLast'
      BY <1>e, <1>g, <2>1, <2>3, <3>1, <3>4
    <3> QED BY <1>i, <1>j, <2>1, <2>3, <3>2, <3>3, <3>5, WorkerFrame DEF Ended
  <2>4. CASE closed /\ q = <<>> /\ worker' = "on_stop" /\ UNCHANGED <<q, closed, batch>>
    <3>1. Stored = {} /\ Stored' = {}
      BY <1>f, <2>1, <2>4 DEF Stored
    <3>2. Places' /\ stopped /\ Ended'
      BY <1>b, <2>1, <2>4 DEF Places, NotStopped, Ended
    <3>3. SentinelsLast'
      BY <1>d, <1>e, <2>1, <2>4
    <3> QED BY <1>i, <1>j, <2>1, <2>4, <3>1, <3>2, <3>3, WorkerFrame
  <2> QED BY <1>3, <2>2, <2>3, <2>4 DEF Receive, Mailbox!Take
<1>4. CASE DrainOne
  <2>1. /\ worker = "drain" /\ q # <<>> /\ q' = Tail(q) /\ batch' = Append(batch, Head(q))
        /\ worker' = IF Head(q) = Sentinel THEN "run" ELSE "drain"
        /\ UNCHANGED <<closed, stopped, client, future, stopper, accepted, ran, backlog, gaveUp>>
        /\ Sentinel \notin ToSet(batch)
    BY <1>4, <1>b DEF DrainOne, Mailbox!Take, Places
  <2>2. ToSet(batch') = ToSet(batch) \cup {Head(q)}
    BY <1>a, <1>g, <2>1, SetOfAppend
  <2>3. Stored' = Stored /\ ~Ended /\ ~Ended'
    BY <1>g, <2>1, <2>2 DEF Stored, Ended
  <2>4. Places'
    BY <2>1, <2>2 DEF Places
  <2>5. Before(batch', Sentinel, Kept)
    <3>1. /\ DOMAIN batch' = DOMAIN batch \cup {Len(batch) + 1}
          /\ batch'[Len(batch) + 1] = Head(q)
          /\ \A i \in DOMAIN batch : batch'[i] = batch[i] /\ i < Len(batch) + 1
      BY <1>a, <1>g, <2>1
    <3>2. \A i \in DOMAIN batch : batch[i] # Sentinel
      BY <2>1 DEF ToSet
    <3> QED BY <1>a, <3>1, <3>2 DEF Before
  <2>6. SentinelsLast'
    <3>1. Sentinel \in ToSet(batch') => ToSet(q') \cap Kept = {}
      BY <1>g, <2>1, <2>2
    <3> QED BY <1>e, <1>g, <2>1, <2>5, <3>1
  <2> QED BY <1>i, <1>j, <2>1, <2>3, <2>4, <2>6, WorkerFrame
<1>5. CASE DrainEnd
  <2>1. /\ worker = "drain" /\ q = <<>>
        /\ UNCHANGED <<q, closed, stopped, client, future, stopper, accepted, ran, backlog, gaveUp>>
        /\ Sentinel \notin ToSet(batch) /\ ~Ended
    BY <1>5, <1>b DEF DrainEnd, Places, Ended
  <2>2. CASE Mailbox!Sealed
    <3>1. worker' = "on_stop" /\ batch' = <<>>
      BY <1>5, <2>2 DEF DrainEnd
    <3>2. Stored' = {} /\ Sentinel \notin Stored
      BY <1>f, <2>1, <3>1 DEF Stored
    <3>3. Excuse'
      BY <1>b, <2>1, <2>2, <3>2 DEF SentinelFirst, Mailbox!Sealed, Excuse
    <3>4. Places' /\ Ended'
      BY <3>1 DEF Places, Ended
    <3>5. SentinelsLast'
      BY <1>d, <1>e, <1>f, <2>1, <3>1
    <3> QED BY <1>i, <1>j, <2>1, <3>1, <3>2, <3>3, <3>4, <3>5, WorkerFrame
  <2>3. CASE ~Mailbox!Sealed
    <3>1. worker' = "run" /\ batch' = batch
      BY <1>5, <2>3 DEF DrainEnd
    <3>2. Places' /\ ~Ended'
      BY <3>1 DEF Places, Ended
    <3> QED BY <1>c, <2>1, <3>1, <3>2
  <2> QED BY <2>2, <2>3
<1>6. CASE Run
  <2>1. /\ worker = "run" /\ ~Ended
        /\ UNCHANGED <<q, closed, stopped, client, future, stopper, accepted, backlog, gaveUp>>
    BY <1>6 DEF Run, Ended
  <2>2. CASE batch = <<>>
    <3>1. worker' = "recv" /\ UNCHANGED <<batch, ran>>
      BY <1>6, <2>2 DEF Run
    <3>2. Places' /\ ~Ended'
      BY <2>2, <3>1 DEF Places, Ended
    <3> QED BY <1>c, <2>1, <3>1, <3>2
  <2>3. CASE batch # <<>> /\ Head(batch) = Sentinel
    <3>1. worker' = "on_stop" /\ batch' = <<>> /\ ran' = ran
      BY <1>6, <2>3 DEF Run
    <3>2. Stored' \subseteq Stored /\ Kept \cap Stored = {} /\ Sentinel \in Stored
      BY <1>d, <1>f, <1>h, <2>1, <2>3, <3>1 DEF Stored
    <3>3. Places' /\ stopped /\ Ended'
      BY <1>b, <3>1, <3>2 DEF Places, NotStopped, Ended
    <3>4. SentinelsLast'
      BY <1>d, <1>e, <1>f, <2>1, <3>1
    <3> QED BY <1>i, <1>j, <2>1, <3>1, <3>2, <3>3, <3>4, WorkerFrame
  <2>4. CASE batch # <<>> /\ Head(batch) # Sentinel
    <3>1. worker' = "resolve" /\ batch' = batch /\ ran' = Append(ran, Head(batch))
          /\ Head(batch) \in Calls
      BY <1>6, <1>h, <2>4 DEF Run, Messages
    <3>2. ToSet(ran') = ToSet(ran) \cup {Head(batch)} /\ Stored' = Stored /\ Head(batch) \in Stored
      <4>1. ToSet(ran') = ToSet(ran) \cup {Head(batch)}
        BY <1>a, <3>1, SetOfAppend
      <4> QED BY <1>h, <2>1, <2>4, <3>1, <4>1 DEF Stored
    <3>3. Places' /\ ~Ended'
      <4>1. ran' # <<>> /\ Last(ran') = Head(batch)
        BY <1>a, <3>1, LastOfAppend
      <4> QED BY <2>4, <3>1, <3>2, <4>1 DEF Places, Ended
    <3>4. SentinelsLast'
      BY <1>d, <1>e, <2>1, <3>1
    <3>5. \A m \in Calls : Answered(m) => Answered(m)'
      BY <2>1, <3>2 DEF Answered
    <3>6. Finished'
      BY <1>b, <2>1, <3>1, <3>2, <3>5 DEF Finished
    <3> QED BY <2>1, <3>1, <3>2, <3>3, <3>4, <3>5, <3>6, WorkerFrame
  <2> QED BY <2>2, <2>3, <2>4
<1>7. CASE Resolve
  <2>0. PICK m0 \in Calls : m0 = Head(batch)
    BY <1>7, <1>b DEF Resolve, Places
  <2>1. /\ worker = "resolve" /\ ~Ended /\ batch # <<>> /\ m0 \in Calls /\ m0 \in ToSet(ran)
        /\ ran # <<>> /\ m0 = Last(ran)
        /\ UNCHANGED <<q, closed, stopped, client, stopper, accepted, ran, backlog, gaveUp>>
    BY <1>7, <1>b, <2>0 DEF Resolve, Ended, Places
  <2>2. CASE future[m0] = "cancelled"
    <3>1. worker' = "on_stop" /\ batch' = <<>> /\ future' = future
      BY <1>7, <2>0, <2>2 DEF Resolve
    <3>2. Excuse' /\ Places' /\ Ended'
      BY <2>1, <2>2, <3>1 DEF Excuse, EndedByCancel, Places, Ended
    <3>3. Stored' \subseteq Stored
      BY <1>f, <2>1, <3>1 DEF Stored
    <3>4. SentinelsLast'
      BY <1>d, <1>e, <1>f, <2>1, <3>1
    <3>5. Finished'
      BY <1>b, <2>0, <2>1, <2>2, <3>1 DEF Finished, Answered
    <3> QED BY <1>i, <2>1, <3>1, <3>2, <3>3, <3>4, <3>5, WorkerFrame
  <2>3. CASE future[m0] # "cancelled"
    <3>1. /\ worker' = "run" /\ batch' = Tail(batch) /\ ~Ended'
          /\ \A m \in Calls : m # m0 => future'[m] = future[m]
          /\ m0 \notin Tells => future'[m0] \in {"done", "failed"}
          /\ m0 \in Tells => future'[m0] = future[m0]
      BY <1>7, <1>a, <2>0, <2>1, <2>3 DEF Resolve, Ended
    <3>2. Stored = {m0} \cup Stored'
      BY <1>h, <2>0, <2>1, <3>1 DEF Stored
    <3>3. Answered(m0)'
      BY <2>1, <3>1 DEF Answered
    <3>4. \A m \in Calls : Answered(m) => Answered(m)'
      BY <2>1, <3>1 DEF Answered
    <3>5. \A m \in Calls : future'[m] = "cancelled" => future[m] = "cancelled"
      BY <2>3, <3>1
    <3>6. Places'
      BY <3>1 DEF Places
    <3>7. SentinelsLast'
      BY <1>d, <1>e, <1>h, <2>1, <3>1
    <3>8. Sentinel # m0
      BY <1>a, <2>1
    <3>9. Excuse' \/ \A m \in Kept \cap Stored : Answered(m)' \/ (~Ended' /\ m \in Stored')
      BY <3>1, <3>2, <3>3
    <3>10. Stored' \subseteq Stored /\ (Sentinel \in Stored => Sentinel \in Stored')
      BY <3>2, <3>8
    <3>11. Finished'
      BY <1>b, <2>0, <2>1, <3>3, <3>4 DEF Finished
    <3> QED BY <2>1, <3>1, <3>4, <3>5, <3>6, <3>7, <3>9, <3>10, <3>11, WorkerFrame
  <2> QED BY <2>2, <2>3
<1> QED BY <1>1, <1>2, <1>3, <1>4, <1>5, <1>6, <1>7 DEF WorkerStep

-----------------------------------------------------------------------------
(* The backlog: stop(). *)

\* The first stop() fixes the backlog: what was accepted and has not run
\* (actor.py:292-294).
LEMMA FlagBacklog ==
  ASSUME TypeOK, BacklogInv, NEW s \in Stoppers, StopFlag(s)
  PROVE  BacklogInv'
<1>1. /\ stopper[s] = "idle" /\ stopper' = [stopper EXCEPT ![s] = "flagged"] /\ stopped'
      /\ backlog' = IF stopped THEN backlog ELSE ToSet(accepted) \ ToSet(ran)
      /\ UNCHANGED <<q, closed, worker, batch, client, future, accepted, ran, gaveUp>>
      /\ stopper \in [Stoppers -> StopperPlaces] /\ Kept \subseteq Calls
  BY DEF StopFlag, StopperGoes, TypeOK, mailbox, Kept, ToSet
<1>2. /\ Stored' = Stored /\ (Excuse' <=> Excuse) /\ (Ended' <=> Ended) /\ Kept' \subseteq Kept
      /\ \A m \in Calls : Answered(m) => Answered(m)'
  BY <1>1 DEF Stored, Excuse, EndedByCancel, Ended, Kept, Answered
<1>3. Sent' /\ NotStopped' /\ Places'
  BY <1>1, <1>2 DEF BacklogInv, Sent, NotStopped, Places
<1>4. SentinelsLast'
  BY <1>1, <1>2 DEF BacklogInv, SentinelsLast
<1>5. SentinelFirst'
  BY <1>1, <1>2 DEF BacklogInv, SentinelFirst
<1>6. OnItsWay'
  BY <1>1, <1>2 DEF BacklogInv, OnItsWay
<1>7. BacklogAccepted' /\ Finished'
  <2>1. ToSet(ran) \subseteq Calls
    BY DEF TypeOK, ToSet
  <2> QED BY <1>1, <1>2, <2>1 DEF BacklogInv, BacklogAccepted, Finished
<1>8. StopsWait'
  <2>1. CASE stopped
    BY <1>1, <2>1 DEF BacklogInv, StopsWait
  <2>2. CASE ~stopped
    BY <1>1, <2>2 DEF BacklogInv, StopsWait, NotStopped
  <2> QED BY <2>1, <2>2
<1> QED BY <1>3, <1>4, <1>5, <1>6, <1>7, <1>8 DEF BacklogInv

\* The later steps of a stop() that leave the messages alone.
LEMMA StopperFrame ==
  ASSUME TypeOK, BacklogInv, NEW s \in Stoppers, NEW p \in StopperPlaces,
         stopper[s] # "idle", stopper' = [stopper EXCEPT ![s] = p],
         UNCHANGED <<q, stopped, worker, batch, client, future, accepted, ran, backlog>>,
         gaveUp => gaveUp',
         closed' \/ p \in {"sent", "join", "close"} => gaveUp' \/ Ended \/ Sentinel \in Stored,
         p \in {"close", "returned"} /\ s \notin Timed /\ By[s] = Outside
           => worker = "dead" \/ backlog = {}
  PROVE  BacklogInv'
<1>1. stopped /\ stopper \in [Stoppers -> StopperPlaces] /\ Kept \subseteq Calls
      /\ ToSet(ran) \subseteq Calls
  BY DEF BacklogInv, NotStopped, TypeOK, Kept, ToSet
<1>2. /\ Stored' = Stored /\ (Excuse => Excuse') /\ (Ended' <=> Ended) /\ Kept' = Kept
      /\ \A m \in Calls : Answered(m) => Answered(m)'
  BY DEF Stored, Excuse, EndedByCancel, Ended, Kept, Answered
<1>3. Sent' /\ NotStopped' /\ Places'
  BY <1>1, <1>2 DEF BacklogInv, Sent, NotStopped, Places
<1>4. SentinelsLast'
  BY <1>2 DEF BacklogInv, SentinelsLast
<1>5. SentinelFirst'
  <2>1. SUFFICES ASSUME ~gaveUp', ~Ended, Sentinel \notin Stored
                 PROVE  ~closed' /\ \A t \in Stoppers : stopper'[t] \notin {"sent", "join", "close"}
    BY <1>2 DEF SentinelFirst
  <2>2. ~closed' /\ p \notin {"sent", "join", "close"} /\ ~gaveUp
    BY <2>1
  <2>3. \A t \in Stoppers : stopper[t] \notin {"sent", "join", "close"}
    BY <2>1, <2>2 DEF BacklogInv, SentinelFirst
  <2> QED BY <1>1, <2>2, <2>3
<1>6. OnItsWay'
  BY <1>1, <1>2 DEF BacklogInv, OnItsWay
<1>7. BacklogAccepted' /\ Finished'
  BY <1>1, <1>2 DEF BacklogInv, BacklogAccepted, Finished
<1>8. StopsWait'
  BY <1>1 DEF BacklogInv, StopsWait
<1> QED BY <1>3, <1>4, <1>5, <1>6, <1>7, <1>8 DEF BacklogInv

\* The sentinel goes behind the calls that matter (actor.py:298).
LEMMA SentinelBacklog ==
  ASSUME TypeOK, BacklogInv, NEW s \in Stoppers, PutSentinel(s)
  PROVE  BacklogInv'
<1>1. /\ stopper[s] = "sending" /\ stopper' = [stopper EXCEPT ![s] = "sent"]
      /\ q' = Append(q, Sentinel)
      /\ UNCHANGED <<closed, stopped, worker, batch, client, future, accepted, ran, backlog, gaveUp>>
      /\ q \in Seq(Messages) /\ Sentinel \in Messages /\ Sentinel \notin Calls
      /\ stopper \in [Stoppers -> StopperPlaces] /\ Kept \subseteq Calls
  BY ActorAssumption DEF PutSentinel, StopperGoes, Mailbox!Put, TypeOK, histories, Messages, Kept, ToSet
<1>2. stopped
  BY <1>1 DEF BacklogInv, NotStopped
<1>3. ToSet(q') = ToSet(q) \cup {Sentinel}
  BY <1>1, SetOfAppend
<1>4. /\ Stored' = Stored \cup {Sentinel} /\ (Excuse' <=> Excuse) /\ (Ended' <=> Ended)
      /\ Kept' = Kept /\ \A m \in Calls : Answered(m) => Answered(m)'
  BY <1>1, <1>3 DEF Stored, Excuse, EndedByCancel, Ended, Kept, Answered
<1>5. Sent' /\ NotStopped' /\ Places'
  BY <1>1, <1>2, <1>4 DEF BacklogInv, Sent, NotStopped, Places
<1>6. SentinelsLast'
  <2>1. /\ DOMAIN q' = DOMAIN q \cup {Len(q) + 1} /\ q'[Len(q) + 1] = Sentinel
        /\ \A i \in DOMAIN q : q'[i] = q[i] /\ i < Len(q) + 1
    BY <1>1
  <2>2. \A i, j \in DOMAIN q' : q'[i] = Sentinel /\ q'[j] \in Kept => j < i
    BY <1>1, <2>1 DEF BacklogInv, SentinelsLast
  <2>3. \A j \in DOMAIN q' : q'[j] \in Kept => j \in DOMAIN q /\ q[j] \in Kept
    BY <1>1, <2>1
  <2> QED BY <1>1, <1>4, <2>2, <2>3 DEF BacklogInv, SentinelsLast
<1>7. SentinelFirst'
  BY <1>4 DEF SentinelFirst
<1>8. OnItsWay'
  BY <1>1, <1>4 DEF BacklogInv, OnItsWay
<1>9. BacklogAccepted' /\ StopsWait'
  BY <1>1 DEF BacklogInv, BacklogAccepted, StopsWait
<1>10. Finished'
  <2>1. ToSet(ran) \subseteq Calls
    BY DEF TypeOK, ToSet
  <2> QED BY <1>1, <1>4, <2>1 DEF BacklogInv, Finished
<1> QED BY <1>5, <1>6, <1>7, <1>8, <1>9, <1>10 DEF BacklogInv

\* No step of a stop() loses a call that matters without an excuse
\* (actor.py:290-307).
LEMMA StopperBacklog ==
  ASSUME TypeOK, BacklogInv, NEW s \in Stoppers, StopFlag(s) \/ StopperGoesOn(s)
  PROVE  BacklogInv'
<1> USE DEF StopperGoes, mailbox, histories, Mailbox!Acquire, Mailbox!Release, Mailbox!Close
<1>1. stopper \in [Stoppers -> StopperPlaces] /\ SentinelFirst
  BY DEF TypeOK, BacklogInv
<1>2. CASE StopFlag(s)
  BY <1>2, FlagBacklog
<1>3. CASE ReadThread(s)
  <2>1. ASSUME worker = "none" PROVE backlog = {}
    <3>1. \A m \in Calls : client[m] # "sent"
      BY <2>1 DEF BacklogInv, Places
    <3>2. backlog \subseteq Calls /\ backlog \subseteq ToSet(accepted)
      BY DEF TypeOK, BacklogInv, BacklogAccepted
    <3> QED BY <3>1, <3>2 DEF BacklogInv, Sent
  <2> DEFINE p == IF worker = "none" THEN "returned" ELSE "sentinel"
  <2>2. p \in StopperPlaces
    BY DEF StopperPlaces
  <2>3. ASSUME closed PROVE gaveUp \/ Ended \/ Sentinel \in Stored
    BY <1>1, <2>3 DEF SentinelFirst
  <2> QED BY <1>3, <2>1, <2>2, <2>3, StopperFrame DEF ReadThread
<1>4. CASE BeginSentinel(s)
  <2>1. PICK p \in {"join", "sending"} :
          /\ stopper[s] = "sentinel" /\ stopper' = [stopper EXCEPT ![s] = p]
          /\ p = "join" => closed
          /\ UNCHANGED <<q, closed, stopped, worker, batch, client, future, histories>>
    BY <1>4 DEF BeginSentinel
  <2> QED BY <1>1, <2>1, StopperFrame DEF SentinelFirst, StopperPlaces
<1>5. CASE PutSentinel(s)
  BY <1>5, SentinelBacklog
<1>6. CASE EndSentinel(s)
  BY <1>1, <1>6, StopperFrame DEF EndSentinel, SentinelFirst, StopperPlaces
<1>7. CASE SentinelClosed(s)
  BY <1>1, <1>7, StopperFrame DEF SentinelClosed, SentinelFirst, StopperPlaces
<1>8. CASE SentinelTimeout(s)
  BY <1>1, <1>8, StopperFrame DEF SentinelTimeout, SentinelFirst, StopperPlaces
<1>9. CASE Join(s)
  <2>1. PICK p \in {"raised", "close"} :
          /\ stopper[s] = "join" /\ stopper' = [stopper EXCEPT ![s] = p]
          /\ p = "close" /\ By[s] = Outside => worker = "dead"
          /\ UNCHANGED <<q, closed, stopped, worker, batch, client, future, histories>>
    BY <1>9 DEF Join
  <2> QED BY <1>1, <2>1, StopperFrame DEF SentinelFirst, StopperPlaces
<1>10. CASE JoinTimeout(s)
  BY <1>1, <1>10, StopperFrame DEF JoinTimeout, SentinelFirst, StopperPlaces
<1>11. CASE CloseMailbox(s)
  <2>1. s \notin Timed /\ By[s] = Outside => worker = "dead" \/ backlog = {}
    BY <1>11 DEF CloseMailbox, BacklogInv, StopsWait
  <2> QED BY <1>1, <1>11, <2>1, StopperFrame DEF CloseMailbox, SentinelFirst, StopperPlaces
<1> QED
  BY <1>2, <1>3, <1>4, <1>5, <1>6, <1>7, <1>8, <1>9, <1>10, <1>11 DEF StopperGoesOn

\* Every step keeps the invariant.
LEMMA StepBacklog == TypeOK /\ OneWorker /\ BacklogInv /\ [Next]_vars => BacklogInv'
<1> SUFFICES ASSUME TypeOK, OneWorker, BacklogInv, [Next]_vars PROVE BacklogInv'
  OBVIOUS
<1>1. CASE UNCHANGED vars
  BY <1>1, QuietClient DEF vars, mailbox, histories, BacklogInv, Places
<1> QED BY <1>1, ClientBacklog, WorkerBacklog, StopperBacklog DEF Next

\* The invariant holds throughout.
LEMMA BacklogInvariance == Spec => [](TypeOK /\ BacklogInv)
<1>1. Init => OneWorker
  BY DEF Init, OneWorker
<1> QED BY <1>1, InitTyping, StepTyping, StepOneWorker, InitBacklog, StepBacklog, PTL DEF Spec

\* When the worker ends, what it has run is answered, and every call that the
\* mailbox had accepted before the first stop() has been answered, unless a
\* cancelled Future ended the worker or a stop() gave up sending the sentinel
\* (actor.py:131-174, 298-305).
THEOREM BacklogIsAccountedFor == Spec => []BacklogIsLostForAReason
<1>1. TypeOK /\ BacklogInv => BacklogIsLostForAReason
  <2> SUFFICES ASSUME TypeOK, BacklogInv, worker = "dead"
               PROVE  /\ \A m \in backlog \cap ToSet(ran) : Answered(m)
                      /\ (\A m \in backlog : Answered(m)) \/ EndedByCancel \/ gaveUp
    BY DEF BacklogIsLostForAReason
  <2>1. \A m \in ToSet(ran) : Answered(m)
    BY DEF BacklogInv, Finished
  <2>2. CASE Excuse
    BY <2>1, <2>2 DEF Excuse
  <2>3. CASE ~Excuse
    <3>1. stopped
      BY <2>3 DEF BacklogInv, NotStopped, Ended
    <3> QED BY <2>1, <2>3, <3>1 DEF BacklogInv, OnItsWay, Kept, Ended
  <2> QED BY <2>2, <2>3
<1> QED BY <1>1, BacklogInvariance, PTL

\* A stop() without a timeout that returns has let the backlog finish, unless a
\* cancelled Future has ended the worker or another stop() has given up sending
\* the sentinel (actor.py:168-172, 290-305).
THEOREM StopIsGraceful == Spec => []StopFinishesBacklog
<1>1. TypeOK /\ BacklogInv => StopFinishesBacklog
  <2> SUFFICES ASSUME TypeOK, BacklogInv, NEW s \in Stoppers \ Timed,
                      stopper[s] = "returned", By[s] = Outside, ~Excuse, NEW m \in backlog
               PROVE  Answered(m)
    BY DEF StopFinishesBacklog, Excuse
  <2>1. stopped
    BY DEF BacklogInv, NotStopped
  <2>2. worker = "dead"
    BY DEF BacklogInv, StopsWait
  <2> QED BY <2>1, <2>2 DEF BacklogInv, OnItsWay, Kept, Ended
<1> QED BY <1>1, BacklogInvariance, PTL

-----------------------------------------------------------------------------
(* The order of the calls: counting. *)

\* Finitely many of the first n messages are calls.
LEMMA CountTyping ==
  ASSUME NEW s, NEW n \in Nat
  PROVE  IsFiniteSet({i \in 1..n : s[i] # Sentinel}) /\ CallsAmong(s, n) \in Nat
<1>1. IsFiniteSet(1..n)
  BY FS_Interval
<1>2. IsFiniteSet({i \in 1..n : s[i] # Sentinel})
  BY <1>1, FS_Subset
<1> QED BY <1>2, FS_CardinalityType DEF CallsAmong

\* One more message is one more call, or a sentinel.
LEMMA CountNext ==
  ASSUME NEW s, NEW n \in Nat
  PROVE  CallsAmong(s, n + 1) = CallsAmong(s, n) + IF s[n + 1] = Sentinel THEN 0 ELSE 1
<1> DEFINE A == {i \in 1..n : s[i] # Sentinel}
           B == {i \in 1..(n + 1) : s[i] # Sentinel}
<1>1. IsFiniteSet(A) /\ Cardinality(A) \in Nat
  BY CountTyping DEF CallsAmong
<1>2. n + 1 \notin A
  OBVIOUS
<1>3. CASE s[n + 1] = Sentinel
  <2>1. B = A
    BY <1>3
  <2> QED BY <1>1, <1>3, <2>1 DEF CallsAmong
<1>4. CASE s[n + 1] # Sentinel
  <2>1. B = A \cup {n + 1}
    BY <1>4
  <2> HIDE DEF A, B
  <2>2. Cardinality(B) = Cardinality(A) + 1
    BY <1>1, <1>2, <2>1, FS_AddElement
  <2> QED BY <1>4, <2>2 DEF A, B, CallsAmong
<1> QED BY <1>3, <1>4

\* No message is no call, and more messages are no fewer calls.
LEMMA CountGrows ==
  ASSUME NEW s, NEW n \in Nat, NEW m \in 0..n
  PROVE  CallsAmong(s, m) <= CallsAmong(s, n) /\ CallsAmong(s, 0) = 0
<1> DEFINE A == {i \in 1..m : s[i] # Sentinel}
           B == {i \in 1..n : s[i] # Sentinel}
<1>1. IsFiniteSet(B)
  BY CountTyping
<1>2. A \subseteq B
  OBVIOUS
<1>3. Cardinality(A) <= Cardinality(B)
  BY <1>1, <1>2, FS_Subset
<1>4. {i \in 1..0 : s[i] # Sentinel} = {}
  OBVIOUS
<1> QED BY <1>3, <1>4, FS_EmptySet DEF CallsAmong

\* Sequences that begin alike count alike.
LEMMA CountSame ==
  ASSUME NEW s, NEW r, NEW n \in Nat, \A i \in 1..n : s[i] = r[i]
  PROVE  CallsAmong(s, n) = CallsAmong(r, n)
<1>1. {i \in 1..n : s[i] # Sentinel} = {i \in 1..n : r[i] # Sentinel}
  OBVIOUS
<1> QED BY <1>1 DEF CallsAmong

\* Without its first message a sequence counts one call less, or as many.
LEMMA CountTail ==
  ASSUME NEW T, NEW s \in Seq(T), s # <<>>, NEW n \in 0..(Len(s) - 1)
  PROVE  CallsAmong(s, n + 1) = CallsAmong(Tail(s), n) + IF Head(s) = Sentinel THEN 0 ELSE 1
<1> DEFINE A == {i \in 1..n : Tail(s)[i] # Sentinel}
           B == {i \in 2..(n + 1) : s[i] # Sentinel}
           C == {i \in 1..(n + 1) : s[i] # Sentinel}
           f == [i \in A |-> i + 1]
<1>1. Len(s) \in Nat /\ n \in Nat /\ \A i \in 1..n : Tail(s)[i] = s[i + 1]
  <2>1. Len(Tail(s)) = Len(s) - 1 /\ \A i \in 1..Len(Tail(s)) : Tail(s)[i] = s[i + 1]
    BY HeadTailProperties
  <2> QED BY <2>1
<1>2. Head(s) = s[1]
  OBVIOUS
<1>3. IsFiniteSet(A) /\ Cardinality(A) \in Nat
  BY <1>1, CountTyping DEF CallsAmong
<1>4. f \in [A -> B] /\ (\A i, j \in A : f[i] = f[j] => i = j) /\ \A k \in B : \E i \in A : f[i] = k
  <2>1. \A i \in A : i + 1 \in B
    BY <1>1
  <2>2. \A k \in B : k - 1 \in A /\ k - 1 + 1 = k
    BY <1>1
  <2>3. \A i \in A : i \in Nat
    OBVIOUS
  <2>4. f \in [A -> B]
    BY <2>1
  <2>5. \A i, j \in A : f[i] = f[j] => i = j
    BY <2>3
  <2>6. \A k \in B : \E i \in A : f[i] = k
    <3> SUFFICES ASSUME NEW k \in B PROVE \E i \in A : f[i] = k
      OBVIOUS
    <3>1. k - 1 \in A /\ f[k - 1] = k - 1 + 1
      BY <2>2
    <3> QED BY <2>2, <3>1
  <2> QED BY <2>4, <2>5, <2>6
<1>5. 1 \notin B /\ C = B \cup (IF s[1] = Sentinel THEN {} ELSE {1})
  BY <1>1
<1> HIDE DEF A, B, C, f
<1>6. f \in Bijection(A, B)
  BY <1>4, Fun_IsBij
<1>7. IsFiniteSet(B) /\ Cardinality(B) = Cardinality(A)
  BY <1>3, <1>6, FS_Bijection DEF ExistsBijection
<1>8. Cardinality(C) = Cardinality(B) + IF s[1] = Sentinel THEN 0 ELSE 1
  <2>1. CASE s[1] = Sentinel
    BY <1>3, <1>5, <1>7, <2>1
  <2>2. CASE s[1] # Sentinel
    <3>1. C = B \cup {1}
      BY <1>5, <2>2
    <3> QED BY <1>5, <1>7, <2>2, <3>1, FS_AddElement
  <2> QED BY <2>1, <2>2
<1> QED BY <1>2, <1>7, <1>8 DEF A, C, CallsAmong

-----------------------------------------------------------------------------
(* The order of the calls: what the worker has yet to run. *)

\* The calls of s are the accepted ones that follow what has run.
InOrder(s, a, r) ==
  /\ Len(a) = Len(r) + CallsAmong(s, Len(s))
  /\ \A i \in DOMAIN s : s[i] # Sentinel => s[i] = a[Len(r) + CallsAmong(s, i)]

\* They still are when a sentinel comes in (actor.py:298).
LEMMA SentinelInOrder ==
  ASSUME NEW s \in Seq(Messages), NEW a \in Seq(Calls), NEW r \in Seq(Calls), InOrder(s, a, r)
  PROVE  InOrder(Append(s, Sentinel), a, r)
<1> DEFINE z == Append(s, Sentinel)
           n == Len(s)
<1>1. /\ n \in Nat /\ DOMAIN s = 1..n /\ Len(z) = n + 1 /\ DOMAIN z = 1..(n + 1)
      /\ z[n + 1] = Sentinel /\ \A i \in 1..n : z[i] = s[i]
  OBVIOUS
<1> HIDE DEF z, n
<1>2. \A i \in 0..n : CallsAmong(z, i) = CallsAmong(s, i)
  BY <1>1, CountSame
<1>3. CallsAmong(z, n + 1) = CallsAmong(z, n) + 0
  BY <1>1, CountNext
<1>4. CallsAmong(s, n) \in Nat
  BY <1>1, CountTyping
<1>5. Len(a) = Len(r) + CallsAmong(z, Len(z))
  BY <1>1, <1>2, <1>3, <1>4 DEF InOrder, n
<1>6. \A i \in DOMAIN z : z[i] # Sentinel => z[i] = a[Len(r) + CallsAmong(z, i)]
  BY <1>1, <1>2 DEF InOrder
<1> QED BY <1>5, <1>6 DEF InOrder, z

\* They still are when a call is accepted (actor.py:90, 229).
LEMMA CallInOrder ==
  ASSUME NEW s \in Seq(Messages), NEW a \in Seq(Calls), NEW r \in Seq(Calls), InOrder(s, a, r),
         NEW m \in Calls
  PROVE  InOrder(Append(s, m), Append(a, m), r)
<1> DEFINE z == Append(s, m)
           b == Append(a, m)
           n == Len(s)
<1>1. /\ n \in Nat /\ DOMAIN s = 1..n /\ Len(z) = n + 1 /\ DOMAIN z = 1..(n + 1)
      /\ z[n + 1] = m /\ \A i \in 1..n : z[i] = s[i]
  OBVIOUS
<1>2. /\ Len(a) \in Nat /\ Len(r) \in Nat /\ Len(b) = Len(a) + 1
      /\ b[Len(a) + 1] = m /\ \A i \in 1..Len(a) : b[i] = a[i]
  OBVIOUS
<1>3. m # Sentinel
  BY ActorAssumption
<1> HIDE DEF z, n, b
<1>4. \A i \in 0..n : CallsAmong(z, i) = CallsAmong(s, i)
  BY <1>1, CountSame
<1>5. CallsAmong(z, n + 1) = CallsAmong(z, n) + 1
  BY <1>1, <1>3, CountNext
<1>6. CallsAmong(s, n) \in Nat /\ Len(a) = Len(r) + CallsAmong(s, n)
  BY <1>1, CountTyping DEF InOrder, n
<1>7. Len(b) = Len(r) + CallsAmong(z, Len(z))
  BY <1>1, <1>2, <1>4, <1>5, <1>6
<1>8. ASSUME NEW i \in DOMAIN z, z[i] # Sentinel
      PROVE  z[i] = b[Len(r) + CallsAmong(z, i)]
  <2>1. CASE i = n + 1
    BY <1>1, <1>2, <1>4, <1>5, <1>6, <2>1
  <2>2. CASE i # n + 1
    <3>1. i \in 1..n /\ i \in 0..n /\ i \in Nat /\ i - 1 \in Nat /\ i - 1 + 1 = i
      BY <1>1, <2>2
    <3>2. s[i] = a[Len(r) + CallsAmong(s, i)] /\ s[i] # Sentinel
      BY <1>1, <1>8, <3>1 DEF InOrder
    <3>3. CallsAmong(s, i) <= CallsAmong(s, n)
      BY <1>1, <3>1, CountGrows
    <3>4. CallsAmong(s, i) >= 1
      <4>1. CallsAmong(s, i - 1) \in Nat
        BY <3>1, CountTyping
      <4>2. CallsAmong(s, i - 1 + 1) = CallsAmong(s, i - 1) + IF s[i - 1 + 1] = Sentinel THEN 0 ELSE 1
        BY <3>1, CountNext
      <4> QED BY <3>1, <3>2, <4>1, <4>2
    <3>5. CallsAmong(s, i) \in Nat
      BY <3>1, CountTyping
    <3>6. Len(r) + CallsAmong(s, i) \in 1..Len(a)
      BY <1>2, <1>6, <3>3, <3>4, <3>5
    <3> QED BY <1>1, <1>2, <1>4, <3>1, <3>2, <3>6
  <2> QED BY <2>1, <2>2
<1> QED BY <1>7, <1>8 DEF InOrder, z, b

\* They still are when the first one has run (actor.py:148-166).
LEMMA RunInOrder ==
  ASSUME NEW s \in Seq(Messages), NEW a \in Seq(Calls), NEW r \in Seq(Calls), InOrder(s, a, r),
         s # <<>>, Head(s) # Sentinel
  PROVE  /\ InOrder(Tail(s), a, Append(r, Head(s)))
         /\ Head(s) = a[Len(r) + 1] /\ Len(r) + 1 <= Len(a)
<1> DEFINE z == Tail(s)
           x == Append(r, Head(s))
           n == Len(s)
<1>1. /\ n \in Nat /\ n >= 1 /\ DOMAIN s = 1..n /\ Len(z) = n - 1 /\ DOMAIN z = 1..(n - 1)
      /\ Head(s) = s[1] /\ \A i \in 1..(n - 1) : z[i] = s[i + 1]
  OBVIOUS
<1>2. Head(s) \in Calls
  BY <1>1 DEF Messages
<1>3. Len(r) \in Nat /\ Len(a) \in Nat /\ Len(x) = Len(r) + 1
  BY <1>2
<1>4. \A i \in 0..(n - 1) : CallsAmong(s, i + 1) = CallsAmong(z, i) + 1
  BY CountTail
<1> HIDE DEF z, x, n
<1>5. \A i \in 0..(n - 1) : CallsAmong(z, i) \in Nat
  <2>1. \A i \in 0..(n - 1) : i \in Nat
    BY <1>1
  <2> QED BY <2>1, CountTyping
<1>6. n - 1 \in 0..(n - 1) /\ n - 1 + 1 = n
  BY <1>1
<1>7. Len(a) = Len(r) + CallsAmong(s, n)
  BY DEF InOrder, n
<1>8. CallsAmong(s, n) = CallsAmong(z, n - 1) + 1 /\ CallsAmong(z, n - 1) \in Nat
  BY <1>4, <1>5, <1>6
<1>9. Len(a) = Len(x) + CallsAmong(z, Len(z))
  BY <1>1, <1>3, <1>7, <1>8
<1>10. ASSUME NEW i \in DOMAIN z, z[i] # Sentinel
       PROVE  z[i] = a[Len(x) + CallsAmong(z, i)]
  <2>1. i \in 0..(n - 1) /\ i \in 1..(n - 1) /\ i + 1 \in 1..n
    BY <1>1
  <2>2. s[i + 1] # Sentinel /\ s[i + 1] = a[Len(r) + CallsAmong(s, i + 1)]
    BY <1>1, <1>10, <2>1 DEF InOrder
  <2>3. CallsAmong(s, i + 1) = CallsAmong(z, i) + 1 /\ CallsAmong(z, i) \in Nat
    BY <1>4, <1>5, <2>1
  <2>4. Len(r) + CallsAmong(s, i + 1) = Len(x) + CallsAmong(z, i)
    BY <1>3, <2>3
  <2> QED BY <1>1, <2>1, <2>2, <2>4
<1>11. Head(s) = a[Len(r) + 1]
  <2>1. 0 \in 0..(n - 1) /\ 0 + 1 = 1 /\ 1 \in DOMAIN s
    BY <1>1
  <2>2. CallsAmong(s, 1) = CallsAmong(z, 0) + 1
    BY <1>4, <2>1
  <2>3. CallsAmong(z, 0) = 0
    BY CountGrows
  <2>4. s[1] = a[Len(r) + CallsAmong(s, 1)]
    BY <1>1, <2>1 DEF InOrder
  <2> QED BY <1>1, <2>2, <2>3, <2>4
<1>12. Len(r) + 1 <= Len(a)
  BY <1>3, <1>7, <1>8
<1> QED BY <1>9, <1>10, <1>11, <1>12 DEF InOrder, z, x

-----------------------------------------------------------------------------
(* The order of the calls: sequences. *)

\* A prefix agrees at every index.
LEMMA PrefixByIndex ==
  ASSUME NEW T, NEW s \in Seq(T), NEW t \in Seq(T)
  PROVE  IsPrefix(s, t) <=> Len(s) <= Len(t) /\ \A i \in 1..Len(s) : s[i] = t[i]
<1> SUFFICES ASSUME Len(s) <= Len(t)
             PROVE  SubSeq(s, 1, Len(s)) = SubSeq(t, 1, Len(s)) <=> \A i \in 1..Len(s) : s[i] = t[i]
  BY DEF IsPrefix
<1> DEFINE n == Len(s)
           a == SubSeq(s, 1, n)
           b == SubSeq(t, 1, n)
<1>1. n \in Nat /\ (\A i \in 1..n : s[i] \in T) /\ \A i \in 1..n : t[i] \in T
  OBVIOUS
<1>2. /\ a \in Seq(T) /\ Len(a) = (IF 1 <= n THEN n - 1 + 1 ELSE 0)
      /\ \A i \in 1..(n - 1 + 1) : a[i] = s[1 + i - 1]
  BY <1>1, SubSeqProperties
<1>3. /\ b \in Seq(T) /\ Len(b) = (IF 1 <= n THEN n - 1 + 1 ELSE 0)
      /\ \A i \in 1..(n - 1 + 1) : b[i] = t[1 + i - 1]
  BY <1>1, SubSeqProperties
<1> HIDE DEF n, a, b
<1>4. Len(a) = n /\ Len(b) = n /\ \A i \in 1..n : a[i] = s[i] /\ b[i] = t[i]
  BY <1>1, <1>2, <1>3
<1>5. ASSUME \A i \in 1..n : s[i] = t[i] PROVE a = b
  BY <1>2, <1>3, <1>4, <1>5, SeqEqual
<1>6. ASSUME a = b PROVE \A i \in 1..n : s[i] = t[i]
  BY <1>4, <1>6
<1> QED BY <1>5, <1>6 DEF n, a, b

\* Appending at the end of the second one.
LEMMA ConcatAppend ==
  ASSUME NEW T, NEW x \in Seq(T), NEW y \in Seq(T), NEW m \in T
  PROVE  x \o Append(y, m) = Append(x \o y, m)
<1> DEFINE z == Append(y, m)
           u == x \o y
<1>1. z \in Seq(T) /\ Len(z) = Len(y) + 1 /\ z[Len(y) + 1] = m /\ \A i \in 1..Len(y) : z[i] = y[i]
  BY AppendProperties
<1>2. /\ u \in Seq(T) /\ Len(u) = Len(x) + Len(y)
      /\ \A i \in 1..(Len(x) + Len(y)) : u[i] = IF i <= Len(x) THEN x[i] ELSE y[i - Len(x)]
  BY ConcatProperties
<1> HIDE DEF z, u
<1> DEFINE w == x \o z
           v == Append(u, m)
<1>3. /\ w \in Seq(T) /\ Len(w) = Len(x) + Len(z)
      /\ \A i \in 1..(Len(x) + Len(z)) : w[i] = IF i <= Len(x) THEN x[i] ELSE z[i - Len(x)]
  BY <1>1, ConcatProperties
<1>4. /\ v \in Seq(T) /\ Len(v) = Len(u) + 1
      /\ v[Len(u) + 1] = m /\ \A i \in 1..Len(u) : v[i] = u[i]
  BY <1>2, AppendProperties
<1> HIDE DEF w, v
<1>5. Len(x) \in Nat /\ Len(y) \in Nat
  OBVIOUS
<1>6. ASSUME NEW i \in 1..(Len(x) + Len(y) + 1) PROVE w[i] = v[i]
  <2>1. CASE i <= Len(x)
    <3>1. i \in 1..(Len(x) + Len(y)) /\ i \in 1..(Len(x) + Len(z)) /\ i \in 1..Len(u)
      BY <1>1, <1>2, <1>5, <2>1
    <3>2. w[i] = x[i] /\ u[i] = x[i]
      BY <1>2, <1>3, <2>1, <3>1
    <3> QED BY <1>4, <3>1, <3>2
  <2>2. CASE i > Len(x) /\ i <= Len(x) + Len(y)
    <3>1. i \in 1..(Len(x) + Len(y)) /\ i \in 1..(Len(x) + Len(z)) /\ i \in 1..Len(u)
      BY <1>1, <1>2, <1>5, <2>2
    <3>2. i - Len(x) \in 1..Len(y) /\ ~(i <= Len(x))
      BY <1>5, <2>2
    <3>3. w[i] = z[i - Len(x)] /\ u[i] = y[i - Len(x)]
      BY <1>2, <1>3, <3>1, <3>2
    <3> QED BY <1>1, <1>4, <3>1, <3>2, <3>3
  <2>3. CASE i = Len(x) + Len(y) + 1
    <3>1. ~(i <= Len(x)) /\ i - Len(x) = Len(y) + 1 /\ i = Len(u) + 1
      BY <1>2, <1>5, <2>3
    <3>2. i \in 1..(Len(x) + Len(z))
      BY <1>1, <1>5
    <3>3. w[i] = z[i - Len(x)]
      BY <1>3, <3>1, <3>2
    <3>4. v[i] = m
      BY <1>4, <3>1
    <3>5. z[i - Len(x)] = z[Len(y) + 1]
      BY <3>1
    <3> QED BY <1>1, <3>3, <3>4, <3>5
  <2> QED BY <1>5, <2>1, <2>2, <2>3
<1>7. Len(w) = Len(v) /\ Len(w) = Len(x) + Len(y) + 1
  BY <1>1, <1>2, <1>3, <1>4, <1>5
<1>8. w = v
  BY <1>3, <1>4, <1>6, <1>7, SeqEqual
<1> QED BY <1>8 DEF z, u, w, v

\* The head of the second one moves to the end of the first one.
LEMMA ConcatShift ==
  ASSUME NEW T, NEW x \in Seq(T), NEW y \in Seq(T), y # <<>>
  PROVE  Append(x, Head(y)) \o Tail(y) = x \o y
<1> DEFINE z == Append(x, Head(y))
           u == Tail(y)
<1>1. /\ Head(y) \in T /\ Head(y) = y[1] /\ Len(y) >= 1 /\ Len(x) \in Nat /\ Len(y) \in Nat
      /\ u \in Seq(T) /\ Len(u) = Len(y) - 1 /\ \A i \in 1..Len(u) : u[i] = y[i + 1]
  BY HeadTailProperties
<1>2. z \in Seq(T) /\ Len(z) = Len(x) + 1 /\ z[Len(x) + 1] = Head(y) /\ \A i \in 1..Len(x) : z[i] = x[i]
  BY <1>1, AppendProperties
<1> HIDE DEF z, u
<1> DEFINE w == z \o u
           v == x \o y
<1>3. /\ w \in Seq(T) /\ Len(w) = Len(z) + Len(u)
      /\ \A i \in 1..(Len(z) + Len(u)) : w[i] = IF i <= Len(z) THEN z[i] ELSE u[i - Len(z)]
  BY <1>1, <1>2, ConcatProperties
<1>4. /\ v \in Seq(T) /\ Len(v) = Len(x) + Len(y)
      /\ \A i \in 1..(Len(x) + Len(y)) : v[i] = IF i <= Len(x) THEN x[i] ELSE y[i - Len(x)]
  BY ConcatProperties
<1> HIDE DEF w, v
<1>5. Len(z) + Len(u) = Len(x) + Len(y)
  BY <1>1, <1>2
<1>6. ASSUME NEW i \in 1..(Len(x) + Len(y)) PROVE w[i] = v[i]
  <2>1. CASE i <= Len(x)
    <3>1. i \in 1..Len(x) /\ i <= Len(z) /\ i \in 1..(Len(z) + Len(u))
      BY <1>1, <1>2, <1>5, <2>1
    <3>2. w[i] = z[i] /\ v[i] = x[i]
      BY <1>3, <1>4, <2>1, <3>1
    <3> QED BY <1>2, <3>1, <3>2
  <2>2. CASE i = Len(x) + 1
    <3>1. i <= Len(z) /\ ~(i <= Len(x)) /\ i - Len(x) = 1 /\ i \in 1..(Len(z) + Len(u))
      BY <1>1, <1>2, <1>5, <2>2
    <3>2. w[i] = z[i] /\ v[i] = y[1]
      BY <1>3, <1>4, <3>1
    <3> QED BY <1>1, <1>2, <2>2, <3>2
  <2>3. CASE i > Len(x) + 1
    <3>1. /\ ~(i <= Len(z)) /\ ~(i <= Len(x))
          /\ i - Len(z) \in 1..Len(u) /\ i - Len(z) + 1 = i - Len(x)
      BY <1>1, <1>2, <2>3
    <3>2. u[i - Len(z)] = y[i - Len(z) + 1]
      BY <1>1, <3>1
    <3>3. y[i - Len(z) + 1] = y[i - Len(x)]
      BY <3>1
    <3>4. i \in 1..(Len(z) + Len(u))
      BY <1>5
    <3>5. w[i] = u[i - Len(z)]
      BY <1>3, <3>1, <3>4
    <3>6. v[i] = y[i - Len(x)]
      BY <1>4, <3>1
    <3> QED BY <3>2, <3>3, <3>5, <3>6
  <2> QED BY <1>1, <2>1, <2>2, <2>3
<1>7. w = v
  BY <1>3, <1>4, <1>5, <1>6, SeqEqual
<1> QED BY <1>7 DEF z, u, w, v

\* The head of the first one is the head of both.
LEMMA ConcatTail ==
  ASSUME NEW T, NEW x \in Seq(T), NEW y \in Seq(T), x # <<>>
  PROVE  x \o y # <<>> /\ Head(x \o y) = Head(x) /\ Tail(x \o y) = Tail(x) \o y
<1> DEFINE z == Tail(x)
           u == x \o y
<1>1. /\ Head(x) = x[1] /\ Len(x) >= 1 /\ Len(x) \in Nat /\ Len(y) \in Nat
      /\ z \in Seq(T) /\ Len(z) = Len(x) - 1 /\ \A i \in 1..Len(z) : z[i] = x[i + 1]
  BY HeadTailProperties
<1>2. /\ u \in Seq(T) /\ Len(u) = Len(x) + Len(y)
      /\ \A i \in 1..(Len(x) + Len(y)) : u[i] = IF i <= Len(x) THEN x[i] ELSE y[i - Len(x)]
  BY ConcatProperties
<1> HIDE DEF z, u
<1>3. u # <<>> /\ Head(u) = u[1] /\ u[1] = x[1]
  BY <1>1, <1>2
<1>4. Tail(u) \in Seq(T) /\ Len(Tail(u)) = Len(u) - 1 /\ \A i \in 1..Len(Tail(u)) : Tail(u)[i] = u[i + 1]
  BY <1>2, <1>3, HeadTailProperties
<1>5. /\ z \o y \in Seq(T) /\ Len(z \o y) = Len(z) + Len(y)
      /\ \A i \in 1..(Len(z) + Len(y)) : (z \o y)[i] = IF i <= Len(z) THEN z[i] ELSE y[i - Len(z)]
  BY <1>1, ConcatProperties
<1>6. Len(Tail(u)) = Len(z) + Len(y)
  BY <1>1, <1>2, <1>4
<1>7. ASSUME NEW i \in 1..(Len(z) + Len(y)) PROVE Tail(u)[i] = (z \o y)[i]
  <2>1. i + 1 \in 1..(Len(x) + Len(y)) /\ Tail(u)[i] = u[i + 1] /\ i \in Nat
    BY <1>1, <1>4, <1>6
  <2>2. CASE i <= Len(z)
    BY <1>1, <1>2, <1>5, <2>1, <2>2
  <2>3. CASE ~(i <= Len(z))
    <3>1. ~(i + 1 <= Len(x)) /\ i + 1 - Len(x) = i - Len(z)
      BY <1>1, <2>1, <2>3
    <3> QED BY <1>2, <1>5, <2>1, <2>3, <3>1
  <2> QED BY <2>2, <2>3
<1>8. Tail(u) = z \o y
  BY <1>4, <1>5, <1>6, <1>7, SeqEqual
<1> QED BY <1>1, <1>3, <1>8 DEF z, u

\* A prefix of what was accepted is one of what is accepted with one more.
LEMMA PrefixAppend ==
  ASSUME NEW r \in Seq(Calls), NEW a \in Seq(Calls), NEW m \in Calls, IsPrefix(r, a)
  PROVE  IsPrefix(r, Append(a, m))
<1> DEFINE b == Append(a, m)
<1>1. /\ b \in Seq(Calls) /\ Len(b) = Len(a) + 1 /\ \A i \in 1..Len(a) : b[i] = a[i]
      /\ Len(a) \in Nat /\ Len(r) \in Nat
  OBVIOUS
<1> HIDE DEF b
<1>2. Len(r) <= Len(a) /\ \A i \in 1..Len(r) : r[i] = a[i]
  BY PrefixByIndex
<1>3. Len(r) <= Len(b) /\ \A i \in 1..Len(r) : r[i] = b[i]
  BY <1>1, <1>2
<1>4. IsPrefix(r, b)
  BY <1>1, <1>3, PrefixByIndex
<1> QED BY <1>4 DEF b

\* The next one that was accepted makes the prefix longer.
LEMMA PrefixRun ==
  ASSUME NEW r \in Seq(Calls), NEW a \in Seq(Calls), IsPrefix(r, a), Len(r) + 1 <= Len(a),
         NEW x \in Calls, x = a[Len(r) + 1]
  PROVE  IsPrefix(Append(r, x), a)
<1> DEFINE b == Append(r, x)
<1>1. /\ b \in Seq(Calls) /\ Len(b) = Len(r) + 1 /\ \A i \in 1..Len(r) : b[i] = r[i]
      /\ b[Len(r) + 1] = x /\ Len(a) \in Nat /\ Len(r) \in Nat
  OBVIOUS
<1> HIDE DEF b
<1>2. Len(r) <= Len(a) /\ \A i \in 1..Len(r) : r[i] = a[i]
  BY PrefixByIndex
<1>3. Len(b) <= Len(a) /\ \A i \in 1..Len(b) : b[i] = a[i]
  BY <1>1, <1>2
<1>4. IsPrefix(b, a)
  BY <1>1, <1>3, PrefixByIndex
<1> QED BY <1>4 DEF b

-----------------------------------------------------------------------------
(* The order of the calls: the steps. *)

OrderInv == IsPrefix(ran, accepted) /\ (~Ended => InOrder(Held, accepted, ran))

\* What is held are messages.
LEMMA HeldTyping ==
  ASSUME TypeOK
  PROVE  Held \in Seq(Messages) /\ q \in Seq(Messages) /\ batch \in Seq(Messages)
<1>1. q \in Seq(Messages) /\ batch \in Seq(Messages) /\ (worker = "resolve" => batch # <<>>)
  BY DEF TypeOK, Messages
<1>2. worker = "resolve" => Tail(batch) \in Seq(Messages)
  BY <1>1
<1>3. (IF worker = "resolve" THEN Tail(batch) ELSE batch) \in Seq(Messages)
  BY <1>1, <1>2
<1> QED BY <1>1, <1>3, ConcatProperties DEF Held

\* A step that moves no message keeps the order, and so does the end of the
\* worker.
LEMMA SameHeld ==
  ASSUME OrderInv, UNCHANGED <<ran, accepted>>, Ended' \/ (~Ended /\ Held' = Held)
  PROVE  OrderInv'
BY DEF OrderInv

\* What a client's step does to the order: only the send() matters
\* (actor.py:76-90, 107-116, 183-233).
LEMMA ClientOrder ==
  ASSUME TypeOK, OneWorker, OrderInv, NEW m \in Calls, ClientStarts(m) \/ ClientGoesOn(m)
  PROVE  OrderInv'
<1>1. CASE UNCHANGED <<q, batch, ran, accepted, worker>>
  BY <1>1, SameHeld DEF Held, Ended
<1>2. CASE Lookup(m) \/ BeginSend(m) \/ Cancel(m) \/ GiveUp(m) \/ EndSend(m)
  BY <1>1, <1>2 DEF Lookup, BeginSend, Cancel, GiveUp, EndSend, mailbox, histories,
     Mailbox!Acquire, Mailbox!Release
<1>3. CASE EnsureThread(m) \/ StartThread(m)
  <2>1. /\ UNCHANGED <<q, batch, ran, accepted>>
        /\ worker' = worker \/ (worker \in {"none", "created"} /\ worker' \in {"created", "on_start"})
    BY <1>3 DEF EnsureThread, StartThread, ClientGoes, OneWorker, mailbox, histories
  <2> QED BY <1>1, <2>1, SameHeld DEF Held, Ended
<1>4. CASE PutCall(m)
  <2>1. /\ q' = Append(q, m) /\ UNCHANGED <<batch, ran, worker>>
        /\ accepted' = Append(accepted, m)
    BY <1>4 DEF PutCall, Mailbox!Put
  <2> DEFINE x == IF worker = "resolve" THEN Tail(batch) ELSE batch
  <2>2. m \in Messages /\ x \in Seq(Messages) /\ q \in Seq(Messages)
    <3>1. worker = "resolve" => batch # <<>>
      BY DEF TypeOK
    <3>2. worker = "resolve" => Tail(batch) \in Seq(Messages)
      BY <3>1, HeldTyping
    <3> QED BY <3>2, HeldTyping DEF Messages
  <2>3. Held = x \o q /\ Held' = x \o Append(q, m)
    BY <2>1 DEF Held
  <2> HIDE DEF x
  <2>4. Held' = Append(Held, m)
    BY <2>2, <2>3, ConcatAppend
  <2>5. accepted \in Seq(Calls) /\ ran \in Seq(Calls)
    BY DEF TypeOK
  <2>6. IsPrefix(ran, Append(accepted, m))
    BY <2>5, PrefixAppend DEF OrderInv
  <2>7. ~Ended => InOrder(Append(Held, m), Append(accepted, m), ran)
    BY <2>5, HeldTyping, CallInOrder DEF OrderInv
  <2> QED BY <2>1, <2>4, <2>6, <2>7 DEF OrderInv, Ended
<1> QED BY <1>2, <1>3, <1>4 DEF ClientStarts, ClientGoesOn

\* The worker moves messages from the mailbox to the batch and runs the first
\* one (actor.py:131-174).
LEMMA WorkerOrder ==
  ASSUME TypeOK, BacklogInv, OrderInv, WorkerStep
  PROVE  OrderInv'
<1>1. accepted \in Seq(Calls) /\ ran \in Seq(Calls) /\ q \in Seq(Messages) /\ batch \in Seq(Messages)
  BY HeldTyping DEF TypeOK
<1>2. CASE OnStart
  BY <1>2, SameHeld DEF OnStart, WorkerGoes, Held, Ended, mailbox, histories
<1>3. CASE Receive
  <2>1. UNCHANGED <<ran, accepted>> /\ worker = "recv"
    BY <1>3 DEF Receive, histories
  <2>2. CASE worker' = "on_stop"
    BY <2>1, <2>2, SameHeld DEF Ended
  <2>3. CASE worker' # "on_stop"
    <3>1. worker' = "drain" /\ q # <<>> /\ q' = Tail(q) /\ batch' = <<Head(q)>>
      BY <1>3, <2>3 DEF Receive, WorkerGoes, Mailbox!Take
    <3>2. batch = <<>> /\ batch' = Append(<<>>, Head(q)) /\ <<>> \in Seq(Messages)
      BY <2>1, <3>1 DEF BacklogInv, Places
    <3>3. Append(<<>>, Head(q)) \o Tail(q) = <<>> \o q
      BY <1>1, <3>1, <3>2, ConcatShift
    <3>4. Held = <<>> \o q /\ Held' = Append(<<>>, Head(q)) \o Tail(q)
      BY <2>1, <3>1, <3>2 DEF Held
    <3> QED BY <2>1, <3>3, <3>4, SameHeld DEF Ended
  <2> QED BY <2>2, <2>3
<1>4. CASE DrainOne
  <2>1. /\ UNCHANGED <<ran, accepted>> /\ worker = "drain" /\ worker' \in {"run", "drain"}
        /\ q # <<>> /\ q' = Tail(q) /\ batch' = Append(batch, Head(q))
    BY <1>4 DEF DrainOne, WorkerGoes, Mailbox!Take, histories
  <2>2. Append(batch, Head(q)) \o Tail(q) = batch \o q
    BY <1>1, <2>1, ConcatShift
  <2>3. Held = batch \o q /\ Held' = Append(batch, Head(q)) \o Tail(q)
    BY <2>1 DEF Held
  <2> QED BY <2>1, <2>2, <2>3, SameHeld DEF Ended
<1>5. CASE DrainEnd
  <2>1. UNCHANGED <<ran, accepted, q>> /\ worker = "drain"
    BY <1>5 DEF DrainEnd, mailbox, histories
  <2>2. worker' = "on_stop" \/ (worker' = "run" /\ batch' = batch)
    BY <1>5 DEF DrainEnd, WorkerGoes
  <2> QED BY <2>1, <2>2, SameHeld DEF Held, Ended
<1>6. CASE Run
  <2>1. UNCHANGED <<accepted, q>> /\ worker = "run"
    BY <1>6 DEF Run, mailbox
  <2>2. CASE batch = <<>> \/ Head(batch) = Sentinel
    <3>1. UNCHANGED ran /\ (worker' = "on_stop" \/ (worker' = "recv" /\ batch' = batch))
      BY <1>6, <2>2 DEF Run, WorkerGoes
    <3> QED BY <2>1, <3>1, SameHeld DEF Held, Ended
  <2>3. CASE batch # <<>> /\ Head(batch) # Sentinel
    <3>1. worker' = "resolve" /\ batch' = batch /\ ran' = Append(ran, Head(batch))
      BY <1>6, <2>3 DEF Run, WorkerGoes
    <3>2. Held = batch \o q /\ Held' = Tail(batch) \o q
      BY <2>1, <3>1 DEF Held
    <3>3. Held # <<>> /\ Head(Held) = Head(batch) /\ Tail(Held) = Held'
      BY <1>1, <2>3, <3>2, ConcatTail
    <3>4. InOrder(Held, accepted, ran)
      BY <2>1 DEF OrderInv, Ended
    <3>5. /\ InOrder(Tail(Held), accepted, Append(ran, Head(Held)))
          /\ Head(Held) = accepted[Len(ran) + 1] /\ Len(ran) + 1 <= Len(accepted)
      BY <1>1, <2>3, <3>3, <3>4, HeldTyping, RunInOrder
    <3>6. Head(Held) \in Calls
      BY <1>1, <2>3, <3>3 DEF Messages
    <3>7. IsPrefix(Append(ran, Head(Held)), accepted)
      BY <1>1, <3>5, <3>6, PrefixRun DEF OrderInv
    <3> QED BY <2>1, <3>1, <3>3, <3>5, <3>7 DEF OrderInv
  <2> QED BY <2>2, <2>3
<1>7. CASE Resolve
  <2>1. UNCHANGED <<ran, accepted, q>> /\ worker = "resolve"
    BY <1>7 DEF Resolve, mailbox, histories
  <2>2. worker' = "on_stop" \/ (worker' = "run" /\ batch' = Tail(batch))
    BY <1>7 DEF Resolve, WorkerGoes
  <2> QED BY <2>1, <2>2, SameHeld DEF Held, Ended
<1>8. CASE OnStop
  BY <1>8, SameHeld DEF OnStop, WorkerGoes, Ended, histories
<1> QED BY <1>2, <1>3, <1>4, <1>5, <1>6, <1>7, <1>8 DEF WorkerStep

\* A stop() adds at most its sentinel (actor.py:290-307).
LEMMA StopperOrder ==
  ASSUME TypeOK, OrderInv, NEW s \in Stoppers, StopFlag(s) \/ StopperGoesOn(s)
  PROVE  OrderInv'
<1>1. CASE UNCHANGED <<q, batch, ran, accepted, worker>>
  BY <1>1, SameHeld DEF Held, Ended
<1>2. CASE \/ StopFlag(s) \/ ReadThread(s) \/ BeginSentinel(s) \/ EndSentinel(s) \/ SentinelClosed(s)
           \/ SentinelTimeout(s) \/ Join(s) \/ JoinTimeout(s) \/ CloseMailbox(s)
  BY <1>1, <1>2 DEF StopFlag, ReadThread, BeginSentinel, EndSentinel, SentinelClosed, SentinelTimeout,
     Join, JoinTimeout, CloseMailbox, mailbox, histories,
     Mailbox!Acquire, Mailbox!Release, Mailbox!Close
<1>3. CASE PutSentinel(s)
  <2>1. q' = Append(q, Sentinel) /\ UNCHANGED <<batch, ran, accepted, worker>>
    BY <1>3 DEF PutSentinel, Mailbox!Put, histories
  <2> DEFINE x == IF worker = "resolve" THEN Tail(batch) ELSE batch
  <2>2. Sentinel \in Messages /\ x \in Seq(Messages) /\ q \in Seq(Messages)
    <3>1. worker = "resolve" => batch # <<>>
      BY DEF TypeOK
    <3>2. worker = "resolve" => Tail(batch) \in Seq(Messages)
      BY <3>1, HeldTyping
    <3> QED BY <3>2, HeldTyping DEF Messages
  <2>3. Held = x \o q /\ Held' = x \o Append(q, Sentinel)
    BY <2>1 DEF Held
  <2> HIDE DEF x
  <2>4. Held' = Append(Held, Sentinel)
    BY <2>2, <2>3, ConcatAppend
  <2>5. accepted \in Seq(Calls) /\ ran \in Seq(Calls)
    BY DEF TypeOK
  <2>6. ~Ended => InOrder(Append(Held, Sentinel), accepted, ran)
    BY <2>5, HeldTyping, SentinelInOrder DEF OrderInv
  <2> QED BY <2>1, <2>4, <2>6 DEF OrderInv, Ended
<1> QED BY <1>2, <1>3 DEF StopperGoesOn

\* Nothing has been accepted at the start (actor.py:71-74).
LEMMA InitOrder == Init => OrderInv
<1> SUFFICES ASSUME Init PROVE OrderInv
  OBVIOUS
<1>1. q = <<>> /\ batch = <<>> /\ accepted = <<>> /\ ran = <<>> /\ worker # "resolve"
  BY DEF Init
<1>2. Held = <<>> \o <<>> /\ <<>> \in Seq(Messages) /\ <<>> \in Seq(Calls)
  BY <1>1 DEF Held
<1>3. Len(Held) = 0 /\ Held \in Seq(Messages)
  BY <1>2, ConcatProperties
<1>4. CallsAmong(Held, 0) = 0
  BY CountGrows
<1>5. IsPrefix(ran, accepted)
  <2>1. ran \in Seq(Calls) /\ accepted \in Seq(Calls) /\ Len(ran) = 0 /\ Len(accepted) = 0
    BY <1>1
  <2>2. Len(ran) <= Len(accepted) /\ \A i \in 1..Len(ran) : ran[i] = accepted[i]
    BY <2>1
  <2> QED BY <2>1, <2>2, PrefixByIndex
<1>6. InOrder(Held, accepted, ran)
  BY <1>1, <1>3, <1>4 DEF InOrder
<1> QED BY <1>5, <1>6 DEF OrderInv

\* The worker runs the calls one after the other in the order in which the
\* mailbox accepted them, none twice and none skipped, whatever the clients and
\* the stop()s do (actor.py:90, 131-174, 298).
THEOREM MailboxIsFifo == Spec => []MailboxOrder
<1>1. TypeOK /\ OneWorker /\ BacklogInv /\ OrderInv /\ [Next]_vars => OrderInv'
  <2> SUFFICES ASSUME TypeOK, OneWorker, BacklogInv, OrderInv, [Next]_vars PROVE OrderInv'
    OBVIOUS
  <2>1. CASE UNCHANGED vars
    BY <2>1, SameHeld DEF vars, mailbox, histories, Held, Ended, OrderInv
  <2> QED BY <2>1, ClientOrder, WorkerOrder, StopperOrder DEF Next
<1>2. OrderInv => MailboxOrder
  BY DEF OrderInv, MailboxOrder, InOrder, Ended
<1> QED BY <1>1, <1>2, InitOrder, BacklogInvariance, OneWorkerOnly, PTL DEF Spec

==============================================================================
