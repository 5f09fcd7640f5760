------------------------- MODULE ConcurrentMapProofs -------------------------
(***************************************************************************)
(* Theorems about ConcurrentMap, for any threads, key objects and values:  *)
(* its types, that a key has one entry, that every removed entry is        *)
(* reported by the call that removed it, and that what a call returns was  *)
(* so while it ran.                                                        *)
(***************************************************************************)
EXTENDS ConcurrentMap, FiniteSetTheorems, FunctionTheorems,
        SequenceTheorems, WellFoundedInduction, TLAPS

-----------------------------------------------------------------------------
(* The invariant. *)

Fields == {"op", "key", "val", "pc", "todo", "checked", "result"}

\* What a call that runs is about (map.rs:99-424).
CallOK(c) ==
  /\ DOMAIN c = Fields
  /\ c.pc # "idle" => c.key \in Objects
  /\ c.pc # "idle" /\ c.op \in Inserters => c.val \in Values
  /\ c.pc = "fast" => c.checked = {}
  /\ c.pc = "match" => c.op \in Writers /\ KeyOf[First(c.todo).key] = KeyOf[c.key]

CallsOK == DOMAIN call = Threads /\ \A t \in Threads : CallOK(call[t])

\* No key object is in the list twice (map.rs:146-149, 235-238).
EachObjectOnce(list) ==
  \A i, j \in DOMAIN list : list[i].key = list[j].key => i = j

EachKeyOnce(list) ==
  \A i, j \in DOMAIN list : KeyOf[list[i].key] = KeyOf[list[j].key] => i = j

\* A candidate that was compared and is equal to the key of the call has left
\* the list, or is the match that the call is about to deal with
\* (map.rs:128-141, 205-232, 296-324).
Gone(c, list) ==
  \A o \in c.checked :
    KeyOf[o] = KeyOf[c.key] /\ o \in KeysOf(list) => c.pc = "match" /\ First(c.todo).key = o

MapInv ==
  /\ CallsOK
  /\ bucket \in Seq(Entry)
  /\ EachObjectOnce(bucket)
  /\ ~aba => EachKeyOnce(bucket) /\ \A t \in Threads : call[t].pc # "idle" => Gone(call[t], bucket)

-----------------------------------------------------------------------------
(* Lists. *)

\* An object that has an entry has a position.
LEMMA PositionOf ==
  ASSUME NEW o \in KeysOf(bucket)
  PROVE  Position(bucket, o) \in DOMAIN bucket /\ bucket[Position(bucket, o)].key = o
<1>1. \E i \in DOMAIN bucket : bucket[i].key = o
  BY DEF KeysOf, ToSet
<1> QED BY <1>1 DEF Position

\* A new value for an entry leaves the keys alone.
LEMMA PutOld ==
  ASSUME bucket \in Seq(Entry), NEW o \in KeysOf(bucket), NEW v \in Values, Put(o, v)
  PROVE  /\ bucket' \in Seq(Entry) /\ Len(bucket') = Len(bucket)
         /\ DOMAIN bucket' = DOMAIN bucket
         /\ \A i \in DOMAIN bucket : bucket'[i].key = bucket[i].key
         /\ KeysOf(bucket') = KeysOf(bucket)
<1> DEFINE p == Position(bucket, o)
<1>1. p \in DOMAIN bucket
  BY PositionOf
<1>2. bucket' = [bucket EXCEPT ![p].val = v]
  BY DEF Put
<1> HIDE DEF p
<1>3. bucket' \in Seq(Entry) /\ Len(bucket') = Len(bucket) /\ DOMAIN bucket' = DOMAIN bucket
  <2> DEFINE e == [bucket[p] EXCEPT !.val = v]
  <2>1. bucket[p] \in Entry
    BY <1>1
  <2>2. e \in Entry
    BY <2>1 DEF Entry
  <2>3. bucket' = [bucket EXCEPT ![p] = e]
    BY <1>1, <1>2
  <2> HIDE DEF e
  <2> QED BY <1>1, <2>2, <2>3
<1>4. \A i \in DOMAIN bucket : bucket'[i].key = bucket[i].key
  BY <1>1, <1>2 DEF Entry
<1>5. KeysOf(bucket') = KeysOf(bucket)
  BY <1>3, <1>4 DEF KeysOf, ToSet
<1> QED BY <1>3, <1>4, <1>5

\* A new entry comes last.
LEMMA PutNew ==
  ASSUME bucket \in Seq(Entry), NEW o \in Objects, o \notin KeysOf(bucket), NEW v \in Values,
         Put(o, v)
  PROVE  /\ bucket' \in Seq(Entry) /\ Len(bucket') = Len(bucket) + 1
         /\ DOMAIN bucket' = DOMAIN bucket \cup {Len(bucket) + 1}
         /\ \A i \in DOMAIN bucket : bucket'[i] = bucket[i]
         /\ bucket'[Len(bucket) + 1].key = o
         /\ KeysOf(bucket') = KeysOf(bucket) \cup {o}
<1>1. bucket' = Append(bucket, [key |-> o, val |-> v])
  BY DEF Put
<1>2. [key |-> o, val |-> v] \in Entry
  BY DEF Entry
<1>3. /\ bucket' \in Seq(Entry) /\ Len(bucket') = Len(bucket) + 1
      /\ DOMAIN bucket' = DOMAIN bucket \cup {Len(bucket) + 1}
      /\ \A i \in DOMAIN bucket : bucket'[i] = bucket[i]
      /\ bucket'[Len(bucket) + 1] = [key |-> o, val |-> v]
  BY <1>1, <1>2
<1>4. KeysOf(bucket') = KeysOf(bucket) \cup {o}
  BY <1>3 DEF KeysOf, ToSet
<1> QED BY <1>3, <1>4

\* The only candidate is the next one.
LEMMA FirstOfOne ==
  ASSUME NEW e
  PROVE  First(<<e>>) = e /\ DOMAIN <<e>> = {1} /\ <<e>>[1] = e
<1>1. Min({1}) = 1
  BY DEF Min
<1>2. DOMAIN <<e>> = {1} /\ <<e>>[1] = e
  OBVIOUS
<1> QED BY <1>1, <1>2 DEF First

\* Without one entry the others are as they were.
LEMMA TakeOld ==
  ASSUME bucket \in Seq(Entry), NEW o \in KeysOf(bucket), Take(o)
  PROVE  /\ bucket' \in Seq(Entry) /\ Len(bucket') = Len(bucket) - 1
         /\ \A i \in DOMAIN bucket' :
              LET j == IF i < Position(bucket, o) THEN i ELSE i + 1
              IN j \in DOMAIN bucket /\ bucket'[i] = bucket[j]
         /\ KeysOf(bucket') \subseteq KeysOf(bucket)
<1> DEFINE p == Position(bucket, o)
<1>1. p \in DOMAIN bucket
  BY PositionOf
<1>2. bucket' = SubSeq(bucket, 1, p - 1) \o SubSeq(bucket, p + 1, Len(bucket))
  BY DEF Take, RemoveAt
<1> HIDE DEF p
<1>7. p \in Nat /\ p >= 1 /\ p <= Len(bucket) /\ Len(bucket) \in Nat
  BY <1>1
<1> DEFINE a == SubSeq(bucket, 1, p - 1)
           b == SubSeq(bucket, p + 1, Len(bucket))
<1>3. /\ a \in Seq(Entry) /\ Len(a) = p - 1
      /\ b \in Seq(Entry) /\ Len(b) = Len(bucket) - p
      /\ \A i \in 1..(p - 1) : a[i] = bucket[i]
      /\ \A i \in 1..(Len(bucket) - p) : b[i] = bucket[i + p]
  <2>1. \A i \in 1..Len(bucket) : bucket[i] \in Entry
    OBVIOUS
  <2>2. /\ a \in Seq(Entry) /\ Len(a) = p - 1
        /\ \A i \in 1..(p - 1) : a[i] = bucket[i]
    <3>1. 1 \in Int /\ p - 1 \in Int /\ \A i \in 1..(p - 1) : bucket[i] \in Entry
      BY <1>7, <2>1
    <3>2. /\ a \in Seq(Entry)
          /\ Len(a) = IF 1 <= p - 1 THEN (p - 1) - 1 + 1 ELSE 0
          /\ \A i \in 1..((p - 1) - 1 + 1) : a[i] = bucket[1 + i - 1]
      BY <3>1, SubSeqProperties
    <3> HIDE DEF a
    <3> QED BY <1>7, <3>2
  <2>3. /\ b \in Seq(Entry) /\ Len(b) = Len(bucket) - p
        /\ \A i \in 1..(Len(bucket) - p) : b[i] = bucket[i + p]
    <3>1. p + 1 \in Int /\ Len(bucket) \in Int /\ \A i \in (p + 1)..Len(bucket) : bucket[i] \in Entry
      BY <1>7, <2>1
    <3>2. /\ b \in Seq(Entry)
          /\ Len(b) = IF p + 1 <= Len(bucket) THEN Len(bucket) - (p + 1) + 1 ELSE 0
          /\ \A i \in 1..(Len(bucket) - (p + 1) + 1) : b[i] = bucket[p + 1 + i - 1]
      BY <3>1, SubSeqProperties
    <3> HIDE DEF b
    <3>3. \A i \in 1..(Len(bucket) - p) : p + 1 + i - 1 = i + p
      BY <1>7
    <3> QED BY <1>7, <3>2, <3>3
  <2> QED BY <2>2, <2>3
<1> HIDE DEF a, b
<1>8. /\ bucket' \in Seq(Entry) /\ Len(bucket') = Len(a) + Len(b)
      /\ \A i \in 1..(Len(a) + Len(b)) : bucket'[i] = IF i <= Len(a) THEN a[i] ELSE b[i - Len(a)]
  <2>1. bucket' = a \o b
    BY <1>2 DEF a, b
  <2> QED BY <1>3, <2>1, ConcatProperties
<1>4. bucket' \in Seq(Entry) /\ Len(bucket') = Len(bucket) - 1
  BY <1>3, <1>7, <1>8
<1>5. \A i \in DOMAIN bucket' :
        LET j == IF i < p THEN i ELSE i + 1 IN j \in DOMAIN bucket /\ bucket'[i] = bucket[j]
  <2> SUFFICES ASSUME NEW i \in 1..(Len(bucket) - 1)
               PROVE  LET j == IF i < p THEN i ELSE i + 1
                      IN j \in DOMAIN bucket /\ bucket'[i] = bucket[j]
    BY <1>4
  <2>1. i \in Nat /\ DOMAIN bucket = 1..Len(bucket)
    OBVIOUS
  <2>2. CASE i < p
    <3>1. i \in 1..(p - 1) /\ i \in DOMAIN bucket
      BY <1>7, <2>1, <2>2
    <3>2. bucket'[i] = a[i]
      <4>1. i \in 1..(Len(a) + Len(b)) /\ i <= Len(a)
        BY <1>3, <1>7, <2>2
      <4> QED BY <1>8, <4>1
    <3> QED BY <1>3, <2>2, <3>1, <3>2
  <2>3. CASE ~(i < p)
    <3>1. i - (p - 1) \in 1..(Len(bucket) - p) /\ i - (p - 1) + p = i + 1
      BY <1>7, <2>3
    <3>2. bucket'[i] = b[i - (p - 1)]
      BY <1>3, <1>7, <1>8, <2>3
    <3> QED BY <1>3, <1>7, <2>3, <3>1, <3>2
  <2> QED BY <2>2, <2>3
<1>6. KeysOf(bucket') \subseteq KeysOf(bucket)
  BY <1>5 DEF KeysOf, ToSet
<1> QED BY <1>3, <1>4, <1>5, <1>6, <1>7 DEF p

-----------------------------------------------------------------------------
(* The invariant holds. *)

\* It holds of the empty map.
LEMMA InitMap == Init => MapInv
<1> SUFFICES ASSUME Init PROVE MapInv
  OBVIOUS
<1>1. \A t \in Threads : call[t] = Ready
  BY DEF Init
<1>2. CallsOK
  BY <1>1 DEF Init, CallsOK, CallOK, Ready, Fields
<1>3. \A i \in DOMAIN bucket : FALSE
  BY DEF Init
<1>4. \A t \in Threads : call[t].pc = "idle"
  BY <1>1 DEF Ready
<1> QED BY <1>2, <1>3, <1>4 DEF Init, MapInv, EachObjectOnce, EachKeyOnce

\* A step of one thread keeps the invariant if what the thread does is sound:
\* an object that enters the list either was not compared by a running call, or
\* the history says so.
LEMMA OneThread ==
  ASSUME MapInv, Observe, NEW t \in Threads,
         DOMAIN call' = Threads, \A u \in Threads : u # t => call'[u] = call[u],
         CallOK(call'[t]),
         bucket' \in Seq(Entry), EachObjectOnce(bucket'),
         ~aba => EachKeyOnce(bucket'),
         ~aba /\ call'[t].pc # "idle" => Gone(call'[t], bucket)
  PROVE  MapInv'
<1>1. CallsOK'
  BY DEF MapInv, CallsOK
<1>2. ASSUME ~aba'
      PROVE  /\ ~aba
             /\ \A u \in Threads : (KeysOf(bucket') \ KeysOf(bucket)) \cap call'[u].checked = {}
  BY <1>2 DEF Observe
<1>3. ASSUME ~aba', NEW u \in Threads, call'[u].pc # "idle" PROVE Gone(call'[u], bucket')
  <2>1. Gone(call'[u], bucket)
    BY <1>2, <1>3 DEF MapInv
  <2> QED BY <1>2, <1>3, <2>1 DEF Gone
<1> QED BY <1>1, <1>2, <1>3 DEF MapInv

\* The list stays as it is.
LEMMA SameList ==
  ASSUME MapInv, bucket' = bucket
  PROVE  bucket' \in Seq(Entry) /\ EachObjectOnce(bucket') /\ (~aba => EachKeyOnce(bucket'))
BY DEF MapInv

\* An entry gets a new value.
LEMMA ListAfterPutOld ==
  ASSUME MapInv, NEW o \in KeysOf(bucket), NEW v \in Values, Put(o, v)
  PROVE  bucket' \in Seq(Entry) /\ EachObjectOnce(bucket') /\ (~aba => EachKeyOnce(bucket'))
<1>1. /\ bucket' \in Seq(Entry) /\ DOMAIN bucket' = DOMAIN bucket
      /\ \A i \in DOMAIN bucket : bucket'[i].key = bucket[i].key
  BY PutOld DEF MapInv
<1> QED BY <1>1 DEF MapInv, EachObjectOnce, EachKeyOnce

\* An entry is added whose key is equal to no other one.
LEMMA ListAfterPutNew ==
  ASSUME MapInv, NEW o \in Objects, o \notin KeysOf(bucket), NEW v \in Values, Put(o, v),
         ~aba => \A k \in KeysOf(bucket) : KeyOf[k] # KeyOf[o]
  PROVE  bucket' \in Seq(Entry) /\ EachObjectOnce(bucket') /\ (~aba => EachKeyOnce(bucket'))
<1>1. /\ bucket' \in Seq(Entry)
      /\ DOMAIN bucket' = DOMAIN bucket \cup {Len(bucket) + 1}
      /\ \A i \in DOMAIN bucket : bucket'[i] = bucket[i]
      /\ bucket'[Len(bucket) + 1].key = o
  BY PutNew DEF MapInv
<1>2. \A i \in DOMAIN bucket : bucket[i].key \in KeysOf(bucket)
  BY DEF KeysOf, ToSet
<1>3. EachObjectOnce(bucket')
  BY <1>1, <1>2 DEF MapInv, EachObjectOnce
<1>4. ASSUME ~aba PROVE EachKeyOnce(bucket')
  BY <1>1, <1>2, <1>4 DEF MapInv, EachKeyOnce
<1> QED BY <1>1, <1>3, <1>4

\* An entry is removed.
LEMMA ListAfterTake ==
  ASSUME MapInv, NEW o \in KeysOf(bucket), Take(o)
  PROVE  bucket' \in Seq(Entry) /\ EachObjectOnce(bucket') /\ (~aba => EachKeyOnce(bucket'))
<1> DEFINE at(i) == IF i < Position(bucket, o) THEN i ELSE i + 1
<1>1. /\ bucket' \in Seq(Entry)
      /\ \A i \in DOMAIN bucket' : at(i) \in DOMAIN bucket /\ bucket'[i] = bucket[at(i)]
  BY TakeOld DEF MapInv
<1>2. Position(bucket, o) \in Nat
  BY PositionOf DEF MapInv
<1>3. \A i, j \in DOMAIN bucket' : at(i) = at(j) => i = j
  <2>1. DOMAIN bucket' \subseteq Nat
    BY <1>1
  <2> QED BY <1>2, <2>1
<1> HIDE DEF at
<1> QED BY <1>1, <1>3 DEF MapInv, EachObjectOnce, EachKeyOnce

\* The last locked step inserts only when no key of the list is equal
\* (map.rs:128-141, 226-240).
LEMMA NothingEqual ==
  ASSUME MapInv, NEW t \in Threads, At(t, "commit"), ~Retry(t), ~aba
  PROVE  \A k \in KeysOf(bucket) : KeyOf[k] # KeyOf[call[t].key]
BY DEF MapInv, Gone, At, Retry

\* No step of a thread makes a second entry for a key.
LEMMA StepMap ==
  ASSUME MapInv, Observe, NEW t \in Threads, Step(t)
  PROVE  MapInv'
<1> USE MapAssumption DEF At, Done, GoTo
<1>1. /\ DOMAIN call = Threads /\ CallOK(call[t]) /\ DOMAIN call[t] = Fields
      /\ ~aba /\ call[t].pc # "idle" => Gone(call[t], bucket)
  BY DEF MapInv, CallsOK, CallOK
<1>2. DOMAIN Ready = Fields /\ Ready.pc = "idle"
  BY DEF Ready, Fields
<1>3. ASSUME NEW r, Done(t, r), bucket' \in Seq(Entry), EachObjectOnce(bucket'),
             ~aba => EachKeyOnce(bucket')
      PROVE  MapInv'
  <2>1. /\ DOMAIN call' = Threads /\ \A u \in Threads : u # t => call'[u] = call[u]
        /\ DOMAIN call'[t] = Fields /\ call'[t].pc = "idle"
    BY <1>1, <1>2, <1>3 DEF Fields
  <2>2. CallOK(call'[t])
    BY <2>1 DEF CallOK
  <2> QED BY <1>3, <2>1, <2>2, OneThread
<1>4. ASSUME NEW p \in {"collect", "compare", "commit"}, NEW d, bucket' = bucket,
             call[t].pc # "idle",
             call' = [call EXCEPT ![t].pc = p, ![t].todo = d] \/ GoTo(t, p),
             ~aba => \A o \in call[t].checked : KeyOf[o] = KeyOf[call[t].key] => o \notin KeysOf(bucket)
      PROVE  MapInv'
  <2>1. /\ DOMAIN call' = Threads /\ \A u \in Threads : u # t => call'[u] = call[u]
        /\ DOMAIN call'[t] = Fields /\ call'[t].pc = p
        /\ call'[t].checked = call[t].checked /\ call'[t].key = call[t].key
        /\ call'[t].op = call[t].op /\ call'[t].val = call[t].val
    BY <1>1, <1>4 DEF Fields
  <2>2. CallOK(call'[t])
    BY <1>1, <1>4, <2>1 DEF CallOK
  <2>3. ~aba => Gone(call'[t], bucket)
    BY <1>4, <2>1 DEF Gone
  <2> QED BY <1>4, <2>1, <2>2, <2>3, OneThread, SameList
<1>5. ASSUME ~aba, call[t].pc \notin {"idle", "match"}
      PROVE  \A o \in call[t].checked : KeyOf[o] = KeyOf[call[t].key] => o \notin KeysOf(bucket)
  BY <1>1, <1>5 DEF Gone
<1>6. CASE Begin(t)
  <2>1. PICK op \in {"get"} \cup Writers \cup Inserters, o \in Objects :
          \E v \in IF op \in Inserters THEN Values ELSE {Absent} :
            call' = [call EXCEPT ![t] = [Ready EXCEPT !.op = op, !.key = o, !.val = v,
                       !.pc = IF op \in Writers THEN "fast" ELSE "collect"]]
    BY <1>6 DEF Begin
  <2>2. PICK v \in IF op \in Inserters THEN Values ELSE {Absent} :
          call' = [call EXCEPT ![t] = [Ready EXCEPT !.op = op, !.key = o, !.val = v,
                     !.pc = IF op \in Writers THEN "fast" ELSE "collect"]]
    BY <2>1
  <2>3. Ready.checked = {}
    BY DEF Ready
  <2>4. /\ DOMAIN call' = Threads /\ \A u \in Threads : u # t => call'[u] = call[u]
        /\ DOMAIN call'[t] = Fields /\ call'[t].op = op /\ call'[t].key = o /\ call'[t].val = v
        /\ call'[t].pc = IF op \in Writers THEN "fast" ELSE "collect"
        /\ call'[t].checked = {}
    BY <1>1, <1>2, <2>2, <2>3 DEF Fields
  <2>5. CallOK(call'[t]) /\ Gone(call'[t], bucket)
    BY <2>2, <2>4 DEF CallOK, Gone
  <2> QED BY <1>6, <2>4, <2>5, OneThread, SameList DEF Begin
<1> DEFINE o == call[t].key
<1>7. CASE SetFast(t)
  <2>1. o \in Objects /\ call[t].val \in Values
    BY <1>1, <1>7 DEF SetFast, CallOK, Inserters
  <2>2. CASE o \in KeysOf(bucket)
    BY <1>3, <1>7, <2>1, <2>2, ListAfterPutOld DEF SetFast
  <2>3. CASE bucket = <<>> /\ o \notin KeysOf(bucket)
    <3>1. KeysOf(bucket) = {}
      BY <2>3 DEF KeysOf, ToSet
    <3> QED BY <1>3, <1>7, <2>1, <2>3, <3>1, ListAfterPutNew DEF SetFast
  <2>4. CASE ~(bucket = <<>> \/ o \in KeysOf(bucket))
    BY <1>4, <1>5, <1>7, <2>4 DEF SetFast
  <2> QED BY <2>2, <2>3, <2>4
<1>8. CASE RemoveFast(t)
  <2>1. CASE o \in KeysOf(bucket) /\ Take(o)
    BY <1>3, <1>8, <2>1, ListAfterTake DEF RemoveFast
  <2>2. CASE bucket' = bucket
    BY <1>3, <1>4, <1>5, <1>8, <2>2, SameList DEF RemoveFast
  <2> QED BY <1>8, <2>1, <2>2 DEF RemoveFast
<1>9. CASE Collect(t)
  BY <1>4, <1>5, <1>9 DEF Collect
<1>10. CASE CompareNext(t)
  <2> DEFINE e == First(call[t].todo)
             equal == KeyOf[e.key] = KeyOf[call[t].key]
  <2>1. At(t, "compare") /\ bucket' = bucket
    BY <1>10 DEF CompareNext
  <2>2. CASE \E r : Done(t, r)
    BY <1>3, <2>1, <2>2, SameList
  <2>3. CASE /\ equal => call[t].op \in Writers
             /\ call' = [call EXCEPT
                  ![t].checked = @ \cup {e.key},
                  ![t].pc = IF equal THEN "match" ELSE "compare",
                  ![t].todo = IF equal THEN <<e>> ELSE Others(@)]
    <3>7. KeyOf[e.key] = KeyOf[call[t].key] <=> equal
      OBVIOUS
    <3> HIDE DEF e, equal
    <3>1. /\ DOMAIN call' = Threads /\ \A u \in Threads : u # t => call'[u] = call[u]
          /\ DOMAIN call'[t] = Fields /\ call'[t].op = call[t].op /\ call'[t].key = call[t].key
          /\ call'[t].val = call[t].val /\ call'[t].checked = call[t].checked \cup {e.key}
          /\ call'[t].pc = IF equal THEN "match" ELSE "compare"
          /\ call'[t].todo = IF equal THEN <<e>> ELSE Others(call[t].todo)
      BY <1>1, <2>3 DEF Fields
    <3>2. equal => First(call'[t].todo) = e
      BY <3>1, FirstOfOne
    <3>5. call'[t].pc = "match" <=> equal
      BY <3>1
    <3>6. equal => call[t].op \in Writers
      BY <2>3
    <3>3. CallOK(call'[t])
      <4>1. call'[t].pc = "match"
              => call'[t].op \in Writers /\ KeyOf[First(call'[t].todo).key] = KeyOf[call'[t].key]
        BY <3>1, <3>2, <3>5, <3>6, <3>7
      <4>2. call[t].pc # "idle" /\ call'[t].pc # "fast"
        BY <2>1, <3>1
      <4>3. /\ call'[t].pc # "idle" => call'[t].key \in Objects
            /\ call'[t].pc # "idle" /\ call'[t].op \in Inserters => call'[t].val \in Values
        BY <1>1, <3>1, <4>2 DEF CallOK
      <4> QED BY <3>1, <4>1, <4>2, <4>3 DEF CallOK
    <3>4. ~aba => Gone(call'[t], bucket)
      <4> SUFFICES ASSUME ~aba, NEW x \in call[t].checked \cup {e.key},
                          KeyOf[x] = KeyOf[call[t].key], x \in KeysOf(bucket)
                   PROVE  call'[t].pc = "match" /\ First(call'[t].todo).key = x
        BY <3>1 DEF Gone
      <4>1. x \notin call[t].checked
        BY <1>5, <2>1
      <4>2. x = e.key /\ equal
        BY <3>7, <4>1
      <4> QED BY <3>2, <3>5, <4>2
    <3> QED BY <2>1, <3>1, <3>3, <3>4, OneThread, SameList
  <2> QED BY <1>10, <2>2, <2>3 DEF CompareNext
<1>11. CASE CompareEnd(t)
  BY <1>3, <1>4, <1>5, <1>11, SameList DEF CompareEnd
<1>12. CASE Match(t)
  <2> DEFINE k == First(call[t].todo).key
  <2>1. call[t].op = "set" => call[t].val \in Values
    BY <1>1, <1>12 DEF Match, CallOK, Inserters
  <2>2. CASE k \in KeysOf(bucket) /\ call[t].op = "set"
    BY <1>3, <1>12, <2>1, <2>2, ListAfterPutOld DEF Match
  <2>3. CASE k \in KeysOf(bucket) /\ call[t].op # "set"
    BY <1>3, <1>12, <2>3, ListAfterTake DEF Match
  <2>4. CASE k \notin KeysOf(bucket)
    <3>1. ASSUME ~aba
          PROVE  \A x \in call[t].checked : KeyOf[x] = KeyOf[call[t].key] => x \notin KeysOf(bucket)
      BY <1>1, <1>12, <2>4, <3>1 DEF Match, Gone
    <3> QED BY <1>4, <1>12, <2>4, <3>1 DEF Match
  <2> QED BY <2>2, <2>3, <2>4
<1>13. CASE InsertCommit(t)
  <2>1. o \in Objects /\ call[t].val \in Values /\ At(t, "commit")
    BY <1>1, <1>13 DEF InsertCommit, CallOK, Inserters
  <2>2. CASE Retry(t)
    BY <1>4, <1>5, <1>13, <2>2 DEF InsertCommit
  <2>3. CASE ~Retry(t) /\ o \in KeysOf(bucket)
    BY <1>3, <1>13, <2>3, SameList DEF InsertCommit
  <2>4. CASE ~Retry(t) /\ o \notin KeysOf(bucket)
    BY <1>3, <1>13, <2>1, <2>4, NothingEqual, ListAfterPutNew DEF InsertCommit
  <2> QED BY <2>2, <2>3, <2>4
<1>14. CASE SetCommit(t)
  <2>1. o \in Objects /\ call[t].val \in Values /\ At(t, "commit")
    BY <1>1, <1>14 DEF SetCommit, CallOK, Inserters
  <2>2. CASE Retry(t)
    BY <1>4, <1>5, <1>14, <2>2 DEF SetCommit
  <2>3. CASE ~Retry(t) /\ o \in KeysOf(bucket)
    BY <1>3, <1>14, <2>1, <2>3, ListAfterPutOld DEF SetCommit
  <2>4. CASE ~Retry(t) /\ o \notin KeysOf(bucket)
    BY <1>3, <1>14, <2>1, <2>4, NothingEqual, ListAfterPutNew DEF SetCommit
  <2> QED BY <2>2, <2>3, <2>4
<1>15. CASE RemoveCommit(t)
  <2>1. CASE Retry(t)
    BY <1>4, <1>5, <1>15, <2>1 DEF RemoveCommit
  <2>2. CASE ~Retry(t) /\ o \in KeysOf(bucket)
    BY <1>3, <1>15, <2>2, ListAfterTake DEF RemoveCommit
  <2>3. CASE ~Retry(t) /\ o \notin KeysOf(bucket)
    BY <1>3, <1>15, <2>3, SameList DEF RemoveCommit
  <2> QED BY <2>1, <2>2, <2>3
<1> QED
  BY <1>6, <1>7, <1>8, <1>9, <1>10, <1>11, <1>12, <1>13, <1>14, <1>15 DEF Step

\* No step makes a second entry for a key.
LEMMA NextMap == MapInv /\ [Next]_vars => MapInv'
<1> SUFFICES ASSUME MapInv, [Next]_vars PROVE MapInv'
  OBVIOUS
<1>1. CASE UNCHANGED vars
  BY <1>1 DEF vars, MapInv, CallsOK
<1>2. CASE Clear /\ Observe
  <2>1. bucket' = <<>> /\ call' = call /\ (~aba' => ~aba)
    BY <1>2 DEF Clear, Observe
  <2>2. bucket' \in Seq(Entry) /\ KeysOf(bucket') = {} /\ \A i \in DOMAIN bucket' : FALSE
    BY <2>1 DEF KeysOf, ToSet
  <2> QED BY <2>1, <2>2 DEF MapInv, CallsOK, EachObjectOnce, EachKeyOnce, Gone
<1> QED BY <1>1, <1>2, StepMap DEF Next

\* The invariant holds throughout.
LEMMA MapInvariance == Spec => []MapInv
BY InitMap, NextMap, PTL DEF Spec

\* A list in which each key is once has as many keys as entries.
LEMMA CountKeys ==
  ASSUME bucket \in Seq(Entry), EachKeyOnce(bucket)
  PROVE  Unique
<1> DEFINE K == {KeyOf[o] : o \in KeysOf(bucket)}
           n == Len(bucket)
           f == [i \in 1..n |-> KeyOf[bucket[i].key]]
<1>1. n \in Nat /\ DOMAIN bucket = 1..n
  OBVIOUS
<1>2. f \in [1..n -> K] /\ \A k \in K : \E i \in 1..n : f[i] = k
  BY <1>1 DEF KeysOf, ToSet
<1>3. \A i, j \in 1..n : f[i] = f[j] => i = j
  BY <1>1 DEF EachKeyOnce
<1> HIDE DEF f, K, n
<1>4. f \in Bijection(1..n, K)
  BY <1>2, <1>3, Fun_IsBij
<1>5. IsFiniteSet(1..n) /\ Cardinality(1..n) = n
  BY <1>1, FS_Interval
<1>6. Cardinality(K) = n
  BY <1>4, <1>5, FS_Bijection DEF ExistsBijection
<1> QED BY <1>6 DEF K, n, Unique

\* However many threads and key objects there are, and whichever way their
\* comparisons and updates interleave, a key has one entry, as long as no key
\* object comes back that a running call has compared (map.rs:99-424).
THEOREM OneEntry == Spec => []OneEntryPerKey
<1>1. MapInv => OneEntryPerKey
  BY CountKeys DEF MapInv, OneEntryPerKey
<1> QED BY <1>1, MapInvariance, PTL

-----------------------------------------------------------------------------
(* Removals. *)

Reported ==
  /\ \A t \in Threads : Found(t) =>
       \E i \in DOMAIN bucket :
         /\ KeyOf[bucket[i].key] = KeyOf[call[t].key]
         /\ bucket[i].val = call'[t].result
         /\ bucket' = RemoveAt(bucket, i)
  /\ Len(bucket') < Len(bucket) => bucket' = <<>> \/ \E t \in Threads : Found(t)

\* A step that removes nothing and reports no removal.
LEMMA NothingRemoved ==
  ASSUME NEW t \in Threads, \A u \in Threads : u # t => call'[u] = call[u],
         ~Found(t), ~(Len(bucket') < Len(bucket))
  PROVE  Reported
BY DEF Reported, Found

\* A step that removes an entry of the key of its call and reports its value.
LEMMA OneRemoved ==
  ASSUME MapInv, NEW t \in Threads, NEW o \in KeysOf(bucket),
         KeyOf[o] = KeyOf[call[t].key], call[t].op = "remove", call[t].pc # "idle",
         Take(o), Done(t, ValueAt(o))
  PROVE  Reported
<1> DEFINE p == Position(bucket, o)
<1>1. p \in DOMAIN bucket /\ bucket[p].key = o
  BY PositionOf
<1>2. bucket[p].val \in Values
  <2>1. bucket[p] \in Entry
    BY <1>1 DEF MapInv
  <2> QED BY <2>1 DEF Entry
<1>3. /\ \A u \in Threads : u # t => call'[u] = call[u]
      /\ call'[t].pc = "idle" /\ call'[t].result = bucket[p].val
  BY DEF MapInv, CallsOK, Done, Ready, ValueAt
<1>4. bucket' = RemoveAt(bucket, p)
  BY DEF Take
<1> HIDE DEF p
<1>5. Found(t) /\ \A u \in Threads : Found(u) => u = t
  BY <1>2, <1>3 DEF Found
<1> QED BY <1>1, <1>3, <1>4, <1>5 DEF Reported

\* No step of a thread removes an entry unreported or reports one it has not
\* removed.
LEMMA StepReported ==
  ASSUME MapInv, NEW t \in Threads, Step(t)
  PROVE  Reported
<1> USE MapAssumption DEF At, Done, GoTo
<1>1. DOMAIN call = Threads /\ CallOK(call[t]) /\ DOMAIN call[t] = Fields
      /\ bucket \in Seq(Entry) /\ Len(bucket) \in Nat
  BY DEF MapInv, CallsOK, CallOK
<1>2. DOMAIN Ready = Fields /\ Ready.pc = "idle"
  BY DEF Ready, Fields
<1>3. ASSUME NEW r, Done(t, r), r \notin Values \/ call[t].op # "remove",
             ~(Len(bucket') < Len(bucket))
      PROVE  Reported
  <2>1. \A u \in Threads : u # t => call'[u] = call[u]
    BY <1>1, <1>3
  <2>2. call'[t].result = r
    BY <1>1, <1>2, <1>3 DEF Fields
  <2> QED BY <1>3, <2>1, <2>2, NothingRemoved DEF Found
<1>4. ASSUME \A u \in Threads : u # t => call'[u] = call[u],
             call'[t].pc # "idle" \/ call[t].pc = "idle", bucket' = bucket
      PROVE  Reported
  BY <1>1, <1>4, NothingRemoved DEF Found
<1>5. ASSUME NEW p, p # "idle", GoTo(t, p), bucket' = bucket
      PROVE  Reported
  BY <1>1, <1>4, <1>5 DEF Fields
<1>6. ASSUME NEW o \in Objects, NEW v \in Values, Put(o, v)
      PROVE  ~(Len(bucket') < Len(bucket))
  <2>1. CASE o \in KeysOf(bucket)
    BY <1>1, <1>6, <2>1, PutOld
  <2>2. CASE o \notin KeysOf(bucket)
    BY <1>1, <1>6, <2>2, PutNew
  <2> QED BY <2>1, <2>2
<1>7. call[t].pc # "idle" => call[t].key \in Objects /\ (call[t].op \in Inserters => call[t].val \in Values)
  BY <1>1 DEF CallOK
<1>8. CASE Begin(t)
  BY <1>1, <1>4, <1>8 DEF Begin
<1>9. CASE SetFast(t)
  BY <1>3, <1>5, <1>6, <1>7, <1>9 DEF SetFast, Inserters
<1>10. CASE RemoveFast(t)
  <2>1. CASE bucket = <<>>
    <3>1. call[t].key \notin KeysOf(bucket)
      BY <2>1 DEF KeysOf, ToSet
    <3>2. Done(t, Absent) /\ bucket' = bucket
      BY <1>10, <2>1, <3>1 DEF RemoveFast
    <3>3. ~(Len(bucket') < Len(bucket))
      BY <1>1, <3>2
    <3> QED BY <1>3, <3>2, <3>3
  <2>2. CASE bucket # <<>> /\ call[t].key \in KeysOf(bucket)
    BY <1>10, <2>2, OneRemoved DEF RemoveFast
  <2>3. CASE bucket # <<>> /\ call[t].key \notin KeysOf(bucket)
    BY <1>5, <1>10, <2>3 DEF RemoveFast
  <2> QED BY <2>1, <2>2, <2>3
<1>11. CASE Collect(t)
  BY <1>1, <1>4, <1>11 DEF Collect, Fields
<1>12. CASE CompareNext(t)
  <2>1. call[t].pc = "compare" /\ bucket' = bucket /\ ~(Len(bucket') < Len(bucket))
    BY <1>1, <1>12 DEF CompareNext
  <2>2. CASE Done(t, Raised)
    BY <1>3, <2>1, <2>2
  <2>3. CASE call[t].op \notin Writers /\ Done(t, First(call[t].todo).val)
    BY <1>3, <2>1, <2>3 DEF Writers
  <2>4. CASE ~(Done(t, Raised) \/ (call[t].op \notin Writers /\ Done(t, First(call[t].todo).val)))
    <3> DEFINE e == First(call[t].todo)
               equal == KeyOf[e.key] = KeyOf[call[t].key]
    <3>1. call' = [call EXCEPT
                    ![t].checked = @ \cup {e.key},
                    ![t].pc = IF equal THEN "match" ELSE "compare",
                    ![t].todo = IF equal THEN <<e>> ELSE Others(@)]
      BY <1>12, <2>4 DEF CompareNext
    <3> HIDE DEF e, equal
    <3>2. (\A u \in Threads : u # t => call'[u] = call[u]) /\ call'[t].pc # "idle"
      BY <1>1, <3>1 DEF Fields
    <3> QED BY <1>4, <2>1, <3>2
  <2> QED BY <2>2, <2>3, <2>4
<1>13. CASE CompareEnd(t)
  <2>1. bucket' = bucket /\ ~(Len(bucket') < Len(bucket)) /\ (Done(t, Absent) \/ GoTo(t, "commit"))
    BY <1>1, <1>13 DEF CompareEnd
  <2>2. CASE Done(t, Absent)
    BY <1>3, <2>1, <2>2
  <2>3. CASE GoTo(t, "commit")
    BY <1>5, <2>1, <2>3
  <2> QED BY <2>1, <2>2, <2>3
<1>14. CASE Match(t)
  <2> DEFINE k == First(call[t].todo).key
  <2>1. call[t].op \in Writers /\ KeyOf[k] = KeyOf[call[t].key] /\ call[t].pc = "match"
    BY <1>1, <1>14 DEF Match, CallOK
  <2>2. CASE k \in KeysOf(bucket) /\ call[t].op = "set"
    <3>1. ~(Len(bucket') < Len(bucket))
      BY <1>1, <1>7, <1>14, <2>1, <2>2, PutOld DEF Match, Inserters
    <3> QED BY <1>3, <1>14, <2>2, <3>1 DEF Match
  <2>3. CASE k \in KeysOf(bucket) /\ call[t].op = "remove"
    BY <1>14, <2>1, <2>3, OneRemoved DEF Match
  <2>4. CASE k \notin KeysOf(bucket)
    <3>1. call' = [call EXCEPT ![t].pc = "commit", ![t].todo = <<>>] /\ bucket' = bucket
      BY <1>14, <2>4 DEF Match
    <3>2. (\A u \in Threads : u # t => call'[u] = call[u]) /\ call'[t].pc = "commit"
      BY <1>1, <3>1 DEF Fields
    <3> QED BY <1>4, <3>1, <3>2
  <2> QED BY <2>1, <2>2, <2>3, <2>4 DEF Writers
<1>15. CASE InsertCommit(t) \/ SetCommit(t)
  <2>1. call[t].op # "remove" /\ call[t].key \in Objects /\ call[t].val \in Values
    BY <1>7, <1>15 DEF InsertCommit, SetCommit, Inserters
  <2>2. CASE bucket' = bucket /\ GoTo(t, "collect")
    BY <1>5, <2>2
  <2>3. CASE (bucket' = bucket \/ Put(call[t].key, call[t].val)) /\ \E r : Done(t, r)
    <3>1. ~(Len(bucket') < Len(bucket))
      BY <1>1, <1>6, <2>1, <2>3
    <3> QED BY <1>3, <2>1, <2>3, <3>1
  <2>4. CASE InsertCommit(t)
    BY <2>2, <2>3, <2>4 DEF InsertCommit
  <2>5. CASE SetCommit(t)
    BY <2>2, <2>3, <2>5 DEF SetCommit
  <2> QED BY <1>15, <2>4, <2>5
<1>16. CASE RemoveCommit(t)
  <2>1. CASE Retry(t)
    BY <1>5, <1>16, <2>1 DEF RemoveCommit
  <2>2. CASE ~Retry(t) /\ call[t].key \in KeysOf(bucket)
    BY <1>16, <2>2, OneRemoved DEF RemoveCommit
  <2>3. CASE ~Retry(t) /\ call[t].key \notin KeysOf(bucket)
    <3>1. Done(t, Absent) /\ bucket' = bucket
      BY <1>16, <2>3 DEF RemoveCommit
    <3>2. ~(Len(bucket') < Len(bucket))
      BY <1>1, <3>1
    <3> QED BY <1>3, <3>1, <3>2
  <2> QED BY <2>1, <2>2, <2>3
<1> QED
  BY <1>8, <1>9, <1>10, <1>11, <1>12, <1>13, <1>14, <1>15, <1>16 DEF Step

\* A removal that reports a value has taken that entry, and no entry goes
\* unreported except by clear(): no two calls report one entry
\* (map.rs:246-424).
THEOREM Removals == Spec => RemovalsAreReported
<1>1. MapInv /\ [Next]_vars => [Reported]_vars
  <2> SUFFICES ASSUME MapInv, Next PROVE Reported
    OBVIOUS
  <2>1. CASE Clear
    BY <2>1 DEF Clear, Reported, Found
  <2> QED BY <2>1, StepReported DEF Next
<1> QED BY <1>1, MapInvariance, PTL DEF Spec, RemovalsAreReported, Reported

-----------------------------------------------------------------------------
(* Types and answers: the invariant. *)

Candidate == [key : Objects, val : Values \cup {Absent}]

CallTypes(c) ==
  /\ c.op \in {"none", "get"} \cup Writers \cup Inserters
  /\ c.pc \in {"idle", "fast", "collect", "compare", "match", "commit"}
  /\ c.checked \subseteq Objects
  /\ c.result \in Values \cup {Absent, Raised}
  /\ DOMAIN c.todo \subseteq Nat /\ c.todo \in [DOMAIN c.todo -> Candidate]

Equal(o, c) == KeyOf[o] = KeyOf[c.key]

\* A running call knows only of values that its key was mapped to, and a get()
\* that has collected no equal candidate has found the key absent
\* (map.rs:49-72, 99-135).
Knows(c, s) ==
  /\ c.op \notin Writers => \A i \in DOMAIN c.todo : Equal(c.todo[i].key, c) => c.todo[i].val \in s
  /\ c.op = "get" /\ c.pc = "collect" => c.checked = {}
  /\ c.op = "get" /\ c.pc = "compare" =>
       Absent \in s \/ \E i \in DOMAIN c.todo : Equal(c.todo[i].key, c)

\* What a call has seen while it runs, and what it has returned.
AnswerOK(c, list, s, excuse) ==
  /\ c.pc # "idle" => Mapped(list, c.key) \subseteq s /\ Knows(c, s)
  /\ c.pc = "idle" => c.result \in s \cup {Raised} \/ (excuse /\ c.result = Absent)

AnswerInv ==
  /\ \A t \in Threads : CallTypes(call[t])
  /\ seen \in [Threads -> SUBSET (Values \cup {Absent})]
  /\ aba \in BOOLEAN
  /\ \A t \in Threads : AnswerOK(call[t], bucket, seen[t], aba)

-----------------------------------------------------------------------------
(* What a key is mapped to. *)

\* A key is mapped to values, or is absent.
LEMMA MappedTyping ==
  ASSUME NEW list \in Seq(Entry), NEW o
  PROVE  Mapped(list, o) \subseteq Values \cup {Absent}
<1>1. \A i \in DOMAIN list : list[i] \in Entry
  OBVIOUS
<1>2. \A e \in Entry : e.val \in Values
  BY DEF Entry
<1> QED BY <1>1, <1>2 DEF Mapped, ToSet

\* It is mapped to the value of every entry of an equal object.
LEMMA MappedValue ==
  ASSUME NEW list, NEW i \in DOMAIN list, NEW o, KeyOf[list[i].key] = KeyOf[o]
  PROVE  list[i].val \in Mapped(list, o)
<1>1. list[i] \in {f \in ToSet(list) : KeyOf[f.key] = KeyOf[o]}
  BY DEF ToSet
<1> QED BY <1>1 DEF Mapped

\* It is absent if no object of the list is equal.
LEMMA MappedAbsent ==
  ASSUME NEW list, NEW o, \A i \in DOMAIN list : KeyOf[list[i].key] # KeyOf[o]
  PROVE  Mapped(list, o) = {Absent}
<1>1. {f \in ToSet(list) : KeyOf[f.key] = KeyOf[o]} = {}
  BY DEF ToSet
<1> QED BY <1>1 DEF Mapped

\* Putting a value under an equal object maps the key to it.
LEMMA MappedPut ==
  ASSUME bucket \in Seq(Entry), NEW k \in Objects, NEW v \in Values, Put(k, v),
         NEW o, KeyOf[k] = KeyOf[o]
  PROVE  v \in Mapped(bucket', o)
<1>1. CASE k \in KeysOf(bucket)
  <2> DEFINE p == Position(bucket, k)
  <2>1. p \in DOMAIN bucket /\ bucket[p].key = k
    BY <1>1, PositionOf
  <2>2. bucket' = [bucket EXCEPT ![p].val = v]
    BY <1>1 DEF Put
  <2>3. DOMAIN bucket' = DOMAIN bucket /\ bucket'[p].key = k
    BY <1>1, <2>1, PutOld
  <2> HIDE DEF p
  <2>4. bucket'[p].val = v
    <3>1. bucket[p] \in Entry
      BY <2>1
    <3>2. bucket'[p] = [bucket[p] EXCEPT !.val = v]
      BY <2>1, <2>2
    <3> QED BY <3>1, <3>2 DEF Entry
  <2> QED BY <2>1, <2>3, <2>4, MappedValue
<1>2. CASE k \notin KeysOf(bucket)
  <2> DEFINE n == Len(bucket) + 1
  <2>1. bucket' = Append(bucket, [key |-> k, val |-> v])
    BY <1>2 DEF Put
  <2>2. n \in DOMAIN bucket' /\ bucket'[n] = [key |-> k, val |-> v]
    BY <2>1
  <2>3. bucket'[n].key = k /\ bucket'[n].val = v
    BY <2>2
  <2> HIDE DEF n
  <2> QED BY <2>2, <2>3, MappedValue
<1> QED BY <1>1, <1>2

\* What a call sees in a step (the history).
LEMMA SeenAfter ==
  ASSUME Observe, NEW t \in Threads
  PROVE  /\ call[t].pc # "idle" => seen'[t] = seen[t] \cup Mapped(bucket', call[t].key)
         /\ call[t].pc = "idle" /\ call'[t].pc # "idle" => seen'[t] = Mapped(bucket', call'[t].key)
         /\ call[t].pc = "idle" /\ call'[t].pc = "idle" => seen'[t] = seen[t]
BY DEF Observe

\* The value of an entry of an equal object.
LEMMA MappedOld ==
  ASSUME bucket \in Seq(Entry), NEW k \in KeysOf(bucket), NEW o, KeyOf[k] = KeyOf[o]
  PROVE  k \in Objects /\ ValueAt(k) \in Values /\ ValueAt(k) \in Mapped(bucket, o)
<1> DEFINE p == Position(bucket, k)
<1>1. p \in DOMAIN bucket /\ bucket[p].key = k
  BY PositionOf
<1>2. ValueAt(k) = bucket[p].val
  BY DEF ValueAt
<1> HIDE DEF p
<1>3. bucket[p] \in Entry
  BY <1>1
<1>4. bucket[p].key \in Objects /\ bucket[p].val \in Values
  BY <1>3 DEF Entry
<1> QED BY <1>1, <1>2, <1>4, MappedValue

-----------------------------------------------------------------------------
(* Candidates. *)

\* There is a next candidate when there are any.
LEMMA FirstIsThere ==
  ASSUME NEW todo, DOMAIN todo \subseteq Nat, DOMAIN todo # {}
  PROVE  /\ Min(DOMAIN todo) \in DOMAIN todo
         /\ First(todo) = todo[Min(DOMAIN todo)]
         /\ DOMAIN Others(todo) = DOMAIN todo \ {Min(DOMAIN todo)}
         /\ \A i \in DOMAIN Others(todo) : Others(todo)[i] = todo[i]
<1>1. PICK i \in DOMAIN todo : \A j \in DOMAIN todo : ~(<<j, i>> \in OpToRel(<, Nat))
  BY WFMin, NatLessThanWellFounded, Zenon
<1>2. i \in Nat /\ \A j \in DOMAIN todo : j \in Nat
  BY <1>1
<1>3. \A j \in DOMAIN todo : i <= j
  <2> SUFFICES ASSUME NEW j \in DOMAIN todo, j < i PROVE FALSE
    BY <1>2
  <2>1. <<j, i>> \in OpToRel(<, Nat)
    BY <1>2 DEF OpToRel
  <2> QED BY <1>1, <2>1
<1>4. Min(DOMAIN todo) \in DOMAIN todo
  BY <1>1, <1>3 DEF Min
<1> QED BY <1>4 DEF First, Others, Restrict

\* A list of no candidates is the empty sequence.
LEMMA NoCandidates ==
  ASSUME NEW todo, todo \in [DOMAIN todo -> Candidate]
  PROVE  todo = <<>> <=> DOMAIN todo = {}
<1>1. DOMAIN <<>> = {} /\ <<>> = [i \in {} |-> i]
  OBVIOUS
<1>2. todo = [i \in DOMAIN todo |-> todo[i]]
  OBVIOUS
<1>3. ASSUME DOMAIN todo = {} PROVE todo = <<>>
  BY <1>1, <1>2, <1>3
<1> QED BY <1>1, <1>3

-----------------------------------------------------------------------------
(* Types and answers: the invariant holds. *)

\* It holds of the empty map.
LEMMA InitAnswers == Init => AnswerInv
<1> SUFFICES ASSUME Init PROVE AnswerInv
  OBVIOUS
<1>1. \A t \in Threads : call[t] = Ready /\ seen[t] = {Absent}
  BY DEF Init
<1>2. /\ Ready.op = "none" /\ Ready.pc = "idle" /\ Ready.checked = {}
      /\ Ready.result = Absent /\ Ready.todo = <<>>
  BY DEF Ready
<1>3. DOMAIN <<>> = {} /\ <<>> \in [{} -> Candidate]
  OBVIOUS
<1>4. CallTypes(Ready)
  BY <1>2, <1>3 DEF CallTypes
<1>5. seen \in [Threads -> SUBSET (Values \cup {Absent})] /\ aba \in BOOLEAN
  BY DEF Init
<1>6. \A t \in Threads : AnswerOK(call[t], bucket, seen[t], aba)
  BY <1>1, <1>2 DEF AnswerOK
<1> QED BY <1>1, <1>4, <1>5, <1>6 DEF AnswerInv

\* The histories keep their types and forget nothing.
LEMMA HistoryTyping ==
  ASSUME AnswerInv, Observe, bucket' \in Seq(Entry)
  PROVE  /\ seen' \in [Threads -> SUBSET (Values \cup {Absent})]
         /\ aba' \in BOOLEAN /\ (aba => aba')
<1>1. \A t \in Threads : seen'[t] \subseteq Values \cup {Absent}
  <2> SUFFICES ASSUME NEW t \in Threads PROVE seen'[t] \subseteq Values \cup {Absent}
    OBVIOUS
  <2>1. seen[t] \subseteq Values \cup {Absent}
    BY DEF AnswerInv
  <2>2. /\ Mapped(bucket', call[t].key) \subseteq Values \cup {Absent}
        /\ Mapped(bucket', call'[t].key) \subseteq Values \cup {Absent}
    BY MappedTyping
  <2> QED BY <2>1, <2>2, SeenAfter
<1>2. seen' = [t \in Threads |-> seen'[t]]
  BY DEF Observe
<1>3. aba' \in BOOLEAN /\ (aba => aba')
  BY DEF Observe
<1> QED BY <1>1, <1>2, <1>3

\* A thread that does nothing keeps what holds of its call.
LEMMA Bystander ==
  ASSUME AnswerInv, Observe, bucket' \in Seq(Entry), NEW u \in Threads, call'[u] = call[u]
  PROVE  CallTypes(call'[u]) /\ AnswerOK(call'[u], bucket', seen'[u], aba')
<1>1. CallTypes(call[u]) /\ AnswerOK(call[u], bucket, seen[u], aba)
  BY DEF AnswerInv
<1>2. CASE call[u].pc = "idle"
  BY <1>1, <1>2, SeenAfter, HistoryTyping DEF AnswerOK
<1>3. CASE call[u].pc # "idle"
  <2>1. seen'[u] = seen[u] \cup Mapped(bucket', call[u].key)
    BY <1>3, SeenAfter
  <2>2. Knows(call[u], seen'[u])
    BY <1>1, <1>3, <2>1 DEF AnswerOK, Knows
  <2> QED BY <1>1, <1>3, <2>1, <2>2 DEF AnswerOK
<1> QED BY <1>2, <1>3

\* A step of one thread keeps the invariant if what holds of calls holds of its own.
LEMMA OneAnswer ==
  ASSUME AnswerInv, Observe, bucket' \in Seq(Entry), NEW t \in Threads,
         \A u \in Threads : u # t => call'[u] = call[u],
         CallTypes(call'[t]), AnswerOK(call'[t], bucket', seen'[t], aba')
  PROVE  AnswerInv'
<1>1. \A u \in Threads : CallTypes(call'[u]) /\ AnswerOK(call'[u], bucket', seen'[u], aba')
  <2> SUFFICES ASSUME NEW u \in Threads
               PROVE  CallTypes(call'[u]) /\ AnswerOK(call'[u], bucket', seen'[u], aba')
    OBVIOUS
  <2> QED BY Bystander
<1>2. seen' \in [Threads -> SUBSET (Values \cup {Absent})] /\ aba' \in BOOLEAN
  BY HistoryTyping
<1> QED BY <1>1, <1>2 DEF AnswerInv

\* A call returns what it has seen.
LEMMA ReturnAnswer ==
  ASSUME MapInv, AnswerInv, Observe, bucket' \in Seq(Entry),
         NEW t \in Threads, call[t].pc # "idle",
         NEW r \in Values \cup {Absent, Raised}, Done(t, r),
         \/ r \in seen[t] \/ r \in Mapped(bucket', call[t].key) \/ r = Raised
         \/ aba /\ r = Absent
  PROVE  AnswerInv'
<1>1. /\ \A u \in Threads : u # t => call'[u] = call[u]
      /\ call'[t] = [Ready EXCEPT !.result = r]
  BY DEF MapInv, CallsOK, Done
<1>2. /\ call'[t].op = "none" /\ call'[t].pc = "idle" /\ call'[t].checked = {}
      /\ call'[t].result = r /\ call'[t].todo = <<>>
  BY <1>1 DEF Ready
<1>3. DOMAIN <<>> = {} /\ <<>> \in [{} -> Candidate]
  OBVIOUS
<1>4. CallTypes(call'[t])
  BY <1>2, <1>3 DEF CallTypes
<1>5. seen'[t] = seen[t] \cup Mapped(bucket', call[t].key)
  BY SeenAfter
<1>6. AnswerOK(call'[t], bucket', seen'[t], aba')
  BY <1>2, <1>5, HistoryTyping DEF AnswerOK
<1> QED BY <1>1, <1>4, <1>6, OneAnswer

\* A call that is no get() goes on.
LEMMA GoOnAnswer ==
  ASSUME MapInv, AnswerInv, Observe, bucket' = bucket,
         NEW t \in Threads, call[t].pc # "idle", call[t].op # "get",
         NEW p \in {"collect", "commit"}, NEW d, d = call[t].todo \/ d = <<>>,
         DOMAIN call'[t] = Fields, \A u \in Threads : u # t => call'[u] = call[u],
         call'[t].pc = p, call'[t].todo = d,
         \A f \in Fields \ {"pc", "todo"} : call'[t][f] = call[t][f]
  PROVE  AnswerInv'
<1>1. CallTypes(call[t]) /\ AnswerOK(call[t], bucket, seen[t], aba)
  BY DEF AnswerInv
<1>2. /\ call'[t].op = call[t].op /\ call'[t].key = call[t].key
      /\ call'[t].checked = call[t].checked /\ call'[t].result = call[t].result
  BY DEF Fields
<1>3. DOMAIN <<>> = {} /\ <<>> \in [{} -> Candidate]
  OBVIOUS
<1>4. CallTypes(call'[t])
  BY <1>1, <1>2, <1>3 DEF CallTypes
<1>5. seen'[t] = seen[t] \cup Mapped(bucket', call[t].key)
  BY SeenAfter
<1>6. Knows(call'[t], seen'[t])
  BY <1>1, <1>2, <1>3, <1>5 DEF AnswerOK, Knows, Equal
<1>7. AnswerOK(call'[t], bucket', seen'[t], aba')
  BY <1>2, <1>5, <1>6 DEF AnswerOK
<1> QED BY <1>4, <1>7, OneAnswer DEF MapInv

\* A call that goes to the list again, or to its last step.
LEMMA GoToAnswer ==
  ASSUME MapInv, AnswerInv, Observe, bucket' = bucket,
         NEW t \in Threads, call[t].pc # "idle", call[t].op # "get",
         NEW p \in {"collect", "commit"}, GoTo(t, p)
  PROVE  AnswerInv'
<1>1. DOMAIN call = Threads /\ DOMAIN call[t] = Fields
  BY DEF MapInv, CallsOK, CallOK
<1>2. /\ DOMAIN call'[t] = Fields /\ \A u \in Threads : u # t => call'[u] = call[u]
      /\ call'[t].pc = p /\ call'[t].todo = call[t].todo
      /\ \A f \in Fields \ {"pc", "todo"} : call'[t][f] = call[t][f]
  BY <1>1 DEF GoTo, Fields
<1> QED BY <1>2, GoOnAnswer

\* A call that puts its value under an equal object and returns it.
LEMMA PutAnswer ==
  ASSUME MapInv, AnswerInv, Observe, bucket' \in Seq(Entry),
         NEW t \in Threads, call[t].pc # "idle", call[t].val \in Values,
         NEW k \in Objects, KeyOf[k] = KeyOf[call[t].key],
         Put(k, call[t].val), Done(t, call[t].val)
  PROVE  AnswerInv'
<1>1. call[t].val \in Mapped(bucket', call[t].key)
  BY MappedPut DEF MapInv
<1> QED BY <1>1, ReturnAnswer

\* A call that returns the value of an equal object.
LEMMA ValueAnswer ==
  ASSUME MapInv, AnswerInv, Observe, bucket' \in Seq(Entry),
         NEW t \in Threads, call[t].pc # "idle",
         NEW k \in KeysOf(bucket), KeyOf[k] = KeyOf[call[t].key], Done(t, ValueAt(k))
  PROVE  AnswerInv'
<1>1. ValueAt(k) \in Values /\ ValueAt(k) \in Mapped(bucket, call[t].key)
  BY MappedOld DEF MapInv
<1>2. ValueAt(k) \in seen[t]
  BY <1>1 DEF AnswerInv, AnswerOK
<1> QED BY <1>1, <1>2, ReturnAnswer

\* A call that begins knows nothing yet (map.rs:49-52, 99-104, 158-161, 246-249).
LEMMA BeginAnswer ==
  ASSUME MapInv, AnswerInv, Observe, bucket' \in Seq(Entry), NEW t \in Threads, Begin(t)
  PROVE  AnswerInv'
<1>1. DOMAIN call = Threads
  BY DEF MapInv, CallsOK
<1>2. PICK op \in {"get"} \cup Writers \cup Inserters, o \in Objects :
        \E v \in IF op \in Inserters THEN Values ELSE {Absent} :
          call' = [call EXCEPT ![t] = [Ready EXCEPT !.op = op, !.key = o, !.val = v,
                     !.pc = IF op \in Writers THEN "fast" ELSE "collect"]]
  BY DEF Begin
<1>3. PICK v : call' = [call EXCEPT ![t] = [Ready EXCEPT !.op = op, !.key = o, !.val = v,
                 !.pc = IF op \in Writers THEN "fast" ELSE "collect"]]
  BY <1>2
<1>4. /\ \A u \in Threads : u # t => call'[u] = call[u]
      /\ call'[t].op = op /\ call'[t].key = o
      /\ call'[t].pc = IF op \in Writers THEN "fast" ELSE "collect"
      /\ call'[t].checked = {} /\ call'[t].result = Absent /\ call'[t].todo = <<>>
  BY <1>1, <1>3 DEF Ready
<1>5. DOMAIN <<>> = {} /\ <<>> \in [{} -> Candidate]
  OBVIOUS
<1>6. CallTypes(call'[t])
  BY <1>4, <1>5 DEF CallTypes
<1>7. seen'[t] = Mapped(bucket', call'[t].key)
  BY <1>4, SeenAfter DEF Begin, At
<1>8. Knows(call'[t], seen'[t])
  BY <1>4, <1>5 DEF Knows
<1>9. AnswerOK(call'[t], bucket', seen'[t], aba')
  BY <1>4, <1>7, <1>8 DEF AnswerOK
<1> QED BY <1>4, <1>6, <1>9, OneAnswer

\* What a call clones under the lock is what the list holds; a get() that finds
\* no equal candidate finds the key absent (map.rs:53-61, 107-123).
LEMMA CollectAnswer ==
  ASSUME MapInv, AnswerInv, Observe, NEW t \in Threads, Collect(t)
  PROVE  AnswerInv'
<1> DEFINE new == {i \in DOMAIN bucket : bucket[i].key \notin call[t].checked}
           cloned(e) == IF call[t].op \in Writers THEN [e EXCEPT !.val = Absent] ELSE e
           todo == [i \in new |-> cloned(bucket[i])]
<1>1. /\ DOMAIN call = Threads /\ DOMAIN call[t] = Fields
      /\ bucket \in Seq(Entry) /\ bucket' = bucket
  BY DEF MapInv, CallsOK, CallOK, Collect
<1>2. CallTypes(call[t]) /\ AnswerOK(call[t], bucket, seen[t], aba)
  BY DEF AnswerInv
<1>3. call[t].pc = "collect" /\ call' = [call EXCEPT ![t].pc = "compare", ![t].todo = todo]
  BY DEF Collect, At
<1>4. new \subseteq Nat /\ DOMAIN todo = new /\ \A i \in new : bucket[i] \in Entry /\ i \in DOMAIN bucket
  BY <1>1
<1>5. \A i \in new : todo[i] \in Candidate /\ todo[i].key = bucket[i].key
                     /\ (call[t].op \notin Writers => todo[i].val = bucket[i].val)
  BY <1>4 DEF Candidate, Entry
<1>6. todo \in [DOMAIN todo -> Candidate]
  BY <1>4, <1>5
<1>7. \A i \in DOMAIN bucket : call[t].checked = {} => i \in new
  OBVIOUS
<1> HIDE DEF todo, new
<1>8. /\ \A u \in Threads : u # t => call'[u] = call[u]
      /\ call'[t].op = call[t].op /\ call'[t].key = call[t].key
      /\ call'[t].checked = call[t].checked /\ call'[t].result = call[t].result
      /\ call'[t].pc = "compare" /\ call'[t].todo = todo
  BY <1>1, <1>3 DEF Fields
<1>9. CallTypes(call'[t])
  BY <1>2, <1>4, <1>6, <1>8 DEF CallTypes
<1>10. seen'[t] = seen[t] \cup Mapped(bucket', call[t].key) /\ Mapped(bucket, call[t].key) \subseteq seen[t]
  BY <1>2, <1>3, SeenAfter DEF AnswerOK
<1>11. Knows(call'[t], seen'[t])
  <2>1. ASSUME call[t].op \notin Writers, NEW i \in new, KeyOf[bucket[i].key] = KeyOf[call[t].key]
        PROVE  bucket[i].val \in seen[t]
    BY <1>4, <1>10, <2>1, MappedValue
  <2>2. ASSUME call[t].op = "get"
        PROVE  Absent \in seen[t] \/ \E i \in new : KeyOf[bucket[i].key] = KeyOf[call[t].key]
    <3>1. call[t].checked = {}
      BY <1>2, <1>3, <2>2 DEF AnswerOK, Knows
    <3>2. CASE \E i \in DOMAIN bucket : KeyOf[bucket[i].key] = KeyOf[call[t].key]
      BY <1>7, <3>1, <3>2
    <3>3. CASE \A i \in DOMAIN bucket : KeyOf[bucket[i].key] # KeyOf[call[t].key]
      BY <1>10, <3>3, MappedAbsent
    <3> QED BY <3>2, <3>3
  <2> QED BY <1>4, <1>5, <1>8, <1>10, <2>1, <2>2 DEF Knows, Equal
<1>12. AnswerOK(call'[t], bucket', seen'[t], aba')
  BY <1>1, <1>8, <1>10, <1>11 DEF AnswerOK
<1> QED BY <1>1, <1>8, <1>9, <1>12, OneAnswer

\* A comparison answers with what was cloned, or tells that one candidate less
\* can be equal (map.rs:63-72, 125-131, 207-224).
LEMMA CompareAnswer ==
  ASSUME MapInv, AnswerInv, Observe, NEW t \in Threads, CompareNext(t)
  PROVE  AnswerInv'
<1> DEFINE e == First(call[t].todo)
           m == Min(DOMAIN call[t].todo)
<1>1. /\ DOMAIN call = Threads /\ DOMAIN call[t] = Fields
      /\ bucket' \in Seq(Entry) /\ bucket' = bucket
  BY DEF MapInv, CallsOK, CallOK, CompareNext
<1>2. CallTypes(call[t]) /\ AnswerOK(call[t], bucket, seen[t], aba)
  BY DEF AnswerInv
<1>3. call[t].pc = "compare" /\ call[t].todo # <<>>
  BY DEF CompareNext, At
<1>4. Mapped(bucket, call[t].key) \subseteq seen[t] /\ Knows(call[t], seen[t])
  BY <1>2, <1>3 DEF AnswerOK
<1>5. /\ DOMAIN call[t].todo \subseteq Nat /\ call[t].todo \in [DOMAIN call[t].todo -> Candidate]
      /\ DOMAIN call[t].todo # {}
  BY <1>2, <1>3, NoCandidates DEF CallTypes
<1>6. /\ m \in DOMAIN call[t].todo /\ e = call[t].todo[m]
      /\ DOMAIN Others(call[t].todo) = DOMAIN call[t].todo \ {m}
      /\ \A i \in DOMAIN Others(call[t].todo) : Others(call[t].todo)[i] = call[t].todo[i]
  BY <1>5, FirstIsThere
<1>7. e \in Candidate /\ e.key \in Objects /\ e.val \in Values \cup {Absent}
  BY <1>5, <1>6 DEF Candidate
<1>8. CASE Done(t, Raised)
  BY <1>1, <1>3, <1>8, ReturnAnswer
<1>9. CASE KeyOf[e.key] = KeyOf[call[t].key] /\ call[t].op \notin Writers /\ Done(t, e.val)
  <2>1. e.val \in seen[t]
    BY <1>4, <1>6, <1>9 DEF Knows, Equal
  <2> QED BY <1>1, <1>3, <1>7, <1>9, <2>1, ReturnAnswer
<1> DEFINE equal == KeyOf[e.key] = KeyOf[call[t].key]
<1>10. CASE /\ equal => call[t].op \in Writers
            /\ call' = [call EXCEPT
                 ![t].checked = @ \cup {e.key},
                 ![t].pc = IF equal THEN "match" ELSE "compare",
                 ![t].todo = IF equal THEN <<e>> ELSE Others(@)]
  <2>1. ~equal => Others(call[t].todo) \in [DOMAIN Others(call[t].todo) -> Candidate]
    <3>1. Others(call[t].todo) = [i \in DOMAIN Others(call[t].todo) |-> Others(call[t].todo)[i]]
      BY DEF Others, Restrict
    <3> QED BY <1>5, <1>6, <3>1
  <2>2. <<e>> \in [DOMAIN <<e>> -> Candidate] /\ DOMAIN <<e>> \subseteq Nat
    BY <1>7, FirstOfOne
  <2>3. equal <=> KeyOf[e.key] = KeyOf[call[t].key]
    OBVIOUS
  <2> HIDE DEF e, equal, m
  <2>4. /\ \A u \in Threads : u # t => call'[u] = call[u]
        /\ call'[t].op = call[t].op /\ call'[t].key = call[t].key
        /\ call'[t].checked = call[t].checked \cup {e.key} /\ call'[t].result = call[t].result
        /\ call'[t].pc = IF equal THEN "match" ELSE "compare"
        /\ call'[t].todo = IF equal THEN <<e>> ELSE Others(call[t].todo)
    BY <1>1, <1>10 DEF Fields
  <2>5. CallTypes(call'[t])
    <3>1. call'[t].checked \subseteq Objects
      BY <1>2, <1>7, <2>4 DEF CallTypes
    <3>2. DOMAIN call'[t].todo \subseteq Nat /\ call'[t].todo \in [DOMAIN call'[t].todo -> Candidate]
      BY <1>5, <1>6, <2>1, <2>2, <2>4
    <3> QED BY <1>2, <2>4, <3>1, <3>2 DEF CallTypes
  <2>6. seen'[t] = seen[t] \cup Mapped(bucket', call[t].key)
    BY <1>3, SeenAfter
  <2>7. Knows(call'[t], seen'[t])
    <3>1. CASE equal
      <4>1. call'[t].op \in Writers /\ call'[t].pc = "match"
        BY <1>10, <2>4, <3>1
      <4> QED BY <4>1 DEF Knows
    <3>2. CASE ~equal
      <4>1. call'[t].pc = "compare" /\ call'[t].todo = Others(call[t].todo)
        BY <2>4, <3>2
      <4>2. \A i \in DOMAIN call[t].todo : Equal(call[t].todo[i].key, call[t]) => i # m
        BY <1>6, <2>3, <3>2 DEF Equal
      <4>3. ASSUME call[t].op \notin Writers, NEW i \in DOMAIN call'[t].todo,
                   Equal(call'[t].todo[i].key, call'[t])
            PROVE  call'[t].todo[i].val \in seen[t]
        BY <1>4, <1>6, <2>4, <4>1, <4>3 DEF Knows, Equal
      <4>4. ASSUME call[t].op = "get"
            PROVE  Absent \in seen[t]
                   \/ \E i \in DOMAIN call'[t].todo : Equal(call'[t].todo[i].key, call'[t])
        <5>1. CASE Absent \in seen[t]
          BY <5>1
        <5>2. CASE Absent \notin seen[t]
          <6>1. PICK i \in DOMAIN call[t].todo : Equal(call[t].todo[i].key, call[t])
            BY <1>3, <1>4, <4>4, <5>2 DEF Knows
          <6>2. i \in DOMAIN call'[t].todo /\ call'[t].todo[i] = call[t].todo[i]
            BY <1>6, <4>1, <4>2, <6>1
          <6>3. Equal(call'[t].todo[i].key, call'[t])
            BY <2>4, <6>1, <6>2 DEF Equal
          <6> QED BY <6>2, <6>3
        <5> QED BY <5>1, <5>2
      <4> QED BY <2>4, <2>6, <4>1, <4>3, <4>4 DEF Knows
    <3> QED BY <3>1, <3>2
  <2>8. AnswerOK(call'[t], bucket', seen'[t], aba')
    BY <2>4, <2>6, <2>7 DEF AnswerOK
  <2> QED BY <1>1, <2>4, <2>5, <2>8, OneAnswer
<1> QED BY <1>8, <1>9, <1>10 DEF CompareNext

\* The end of the comparisons: get() has found nothing and its key was absent.
LEMMA CompareEndAnswer ==
  ASSUME MapInv, AnswerInv, Observe, NEW t \in Threads, CompareEnd(t)
  PROVE  AnswerInv'
<1>1. /\ bucket' \in Seq(Entry) /\ bucket' = bucket /\ call[t].pc = "compare" /\ call[t].todo = <<>>
      /\ IF call[t].op = "get" THEN Done(t, Absent) ELSE GoTo(t, "commit")
  BY DEF MapInv, CompareEnd, At
<1>2. CASE call[t].op = "get"
  <2>1. Knows(call[t], seen[t])
    BY <1>1 DEF AnswerInv, AnswerOK
  <2>2. DOMAIN <<>> = {}
    OBVIOUS
  <2>3. Absent \in seen[t]
    BY <1>1, <1>2, <2>1, <2>2 DEF Knows
  <2> QED BY <1>1, <1>2, <2>3, ReturnAnswer
<1>3. CASE call[t].op # "get"
  BY <1>1, <1>3, GoToAnswer
<1> QED BY <1>2, <1>3

\* The fast paths answer from the list under the lock (map.rs:163-183, 251-268).
LEMMA FastAnswer ==
  ASSUME MapInv, AnswerInv, Observe, bucket' \in Seq(Entry), NEW t \in Threads,
         SetFast(t) \/ RemoveFast(t)
  PROVE  AnswerInv'
<1> DEFINE o == call[t].key
<1>1. call[t].pc = "fast" /\ CallOK(call[t]) /\ o \in Objects
  BY DEF MapInv, CallsOK, CallOK, SetFast, RemoveFast, At
<1>2. CASE SetFast(t)
  <2>1. call[t].op = "set" /\ call[t].val \in Values
    BY <1>1, <1>2 DEF SetFast, CallOK, Inserters
  <2>2. CASE bucket = <<>> \/ o \in KeysOf(bucket)
    BY <1>1, <1>2, <2>1, <2>2, PutAnswer DEF SetFast
  <2>3. CASE ~(bucket = <<>> \/ o \in KeysOf(bucket))
    BY <1>1, <1>2, <2>1, <2>3, GoToAnswer DEF SetFast
  <2> QED BY <2>2, <2>3
<1>3. CASE RemoveFast(t)
  <2>1. CASE bucket = <<>>
    <3>1. o \notin KeysOf(bucket) /\ DOMAIN bucket = {}
      BY <2>1 DEF KeysOf, ToSet
    <3>2. Done(t, Absent) /\ bucket' = bucket
      BY <1>3, <2>1, <3>1 DEF RemoveFast
    <3>3. Absent \in Mapped(bucket', o)
      BY <3>1, <3>2, MappedAbsent
    <3> QED BY <1>1, <3>2, <3>3, ReturnAnswer
  <2>2. CASE bucket # <<>> /\ o \in KeysOf(bucket)
    BY <1>1, <1>3, <2>2, ValueAnswer DEF RemoveFast
  <2>3. CASE bucket # <<>> /\ o \notin KeysOf(bucket)
    BY <1>1, <1>3, <2>3, GoToAnswer DEF RemoveFast
  <2> QED BY <2>1, <2>2, <2>3
<1> QED BY <1>2, <1>3

\* So does the step that finds the equal object still there
\* (map.rs:211-218, 296-306).
LEMMA MatchAnswer ==
  ASSUME MapInv, AnswerInv, Observe, bucket' \in Seq(Entry), NEW t \in Threads, Match(t)
  PROVE  AnswerInv'
<1> DEFINE k == First(call[t].todo).key
<1>1. /\ DOMAIN call = Threads /\ DOMAIN call[t] = Fields /\ CallOK(call[t]) /\ call[t].pc = "match"
      /\ call[t].op \in Writers /\ KeyOf[k] = KeyOf[call[t].key]
  BY DEF MapInv, CallsOK, CallOK, Match, At
<1>2. CASE k \in KeysOf(bucket) /\ call[t].op = "set"
  <2>1. k \in Objects
    BY <1>2, MappedOld DEF MapInv
  <2>2. call[t].val \in Values
    BY <1>1, <1>2 DEF CallOK, Inserters
  <2> QED BY <1>1, <1>2, <2>1, <2>2, PutAnswer DEF Match
<1>3. CASE k \in KeysOf(bucket) /\ call[t].op # "set"
  BY <1>1, <1>3, ValueAnswer DEF Match
<1>4. CASE k \notin KeysOf(bucket)
  <2>1. call' = [call EXCEPT ![t].pc = "commit", ![t].todo = <<>>] /\ bucket' = bucket
    BY <1>4 DEF Match
  <2>2. /\ DOMAIN call'[t] = Fields /\ \A u \in Threads : u # t => call'[u] = call[u]
        /\ call'[t].pc = "commit" /\ call'[t].todo = <<>>
        /\ \A f \in Fields \ {"pc", "todo"} : call'[t][f] = call[t][f]
    BY <1>1, <2>1 DEF Fields
  <2>3. call[t].op # "get"
    BY <1>1 DEF Writers
  <2> QED BY <1>1, <2>1, <2>2, <2>3, GoOnAnswer
<1> QED BY <1>2, <1>3, <1>4

\* So does the last locked step; remove() finds no key of the list equal, unless
\* one has come back (map.rs:133-155, 226-243, 314-333).
LEMMA CommitAnswer ==
  ASSUME MapInv, AnswerInv, Observe, bucket' \in Seq(Entry), NEW t \in Threads,
         InsertCommit(t) \/ SetCommit(t) \/ RemoveCommit(t)
  PROVE  AnswerInv'
<1> DEFINE o == call[t].key
<1>1. call[t].pc = "commit" /\ CallOK(call[t]) /\ o \in Objects /\ call[t].op # "get"
  BY DEF MapInv, CallsOK, CallOK, InsertCommit, SetCommit, RemoveCommit, At
<1>2. CASE Retry(t)
  <2>1. GoTo(t, "collect") /\ bucket' = bucket
    BY <1>2 DEF InsertCommit, SetCommit, RemoveCommit
  <2> QED BY <1>1, <2>1, GoToAnswer
<1>3. CASE ~Retry(t) /\ (InsertCommit(t) \/ SetCommit(t))
  <2>1. call[t].val \in Values
    BY <1>1, <1>3 DEF CallOK, InsertCommit, SetCommit, Inserters
  <2>2. CASE o \in KeysOf(bucket) /\ Done(t, ValueAt(o))
    BY <1>1, <2>2, ValueAnswer
  <2>3. CASE Put(o, call[t].val) /\ Done(t, call[t].val)
    BY <1>1, <2>1, <2>3, PutAnswer
  <2> QED BY <1>3, <2>2, <2>3 DEF InsertCommit, SetCommit
<1>4. CASE ~Retry(t) /\ RemoveCommit(t) /\ o \in KeysOf(bucket)
  BY <1>1, <1>4, ValueAnswer DEF RemoveCommit
<1>5. CASE ~Retry(t) /\ RemoveCommit(t) /\ o \notin KeysOf(bucket)
  <2>1. Done(t, Absent) /\ bucket' = bucket
    BY <1>5 DEF RemoveCommit
  <2>2. ASSUME ~aba PROVE Absent \in Mapped(bucket', o)
    <3>1. \A i \in DOMAIN bucket : KeyOf[bucket[i].key] # KeyOf[o]
      BY <1>1, <1>5, <2>2, NothingEqual DEF At, KeysOf, ToSet
    <3> QED BY <2>1, <3>1, MappedAbsent
  <2> QED BY <1>1, <2>1, <2>2, ReturnAnswer
<1> QED BY <1>2, <1>3, <1>4, <1>5

\* Every step keeps both invariants.
LEMMA NextAnswers == MapInv /\ AnswerInv /\ [Next]_vars => AnswerInv'
<1> SUFFICES ASSUME MapInv, AnswerInv, [Next]_vars PROVE AnswerInv'
  OBVIOUS
<1>1. bucket' \in Seq(Entry)
  BY NextMap DEF MapInv
<1>2. CASE UNCHANGED vars
  BY <1>2 DEF vars, AnswerInv
<1>3. CASE Clear /\ Observe
  <2>1. \A u \in Threads : call'[u] = call[u]
    BY <1>3 DEF Clear
  <2>2. \A u \in Threads : CallTypes(call'[u]) /\ AnswerOK(call'[u], bucket', seen'[u], aba')
    BY <1>1, <1>3, <2>1, Bystander
  <2>3. seen' \in [Threads -> SUBSET (Values \cup {Absent})] /\ aba' \in BOOLEAN
    BY <1>1, <1>3, HistoryTyping
  <2> QED BY <2>2, <2>3 DEF AnswerInv
<1>4. ASSUME NEW t \in Threads, Step(t), Observe PROVE AnswerInv'
  <2>1. CASE Begin(t)
    BY <1>1, <1>4, <2>1, BeginAnswer
  <2>2. CASE SetFast(t) \/ RemoveFast(t)
    BY <1>1, <1>4, <2>2, FastAnswer
  <2>3. CASE Collect(t)
    BY <1>4, <2>3, CollectAnswer
  <2>4. CASE CompareNext(t)
    BY <1>4, <2>4, CompareAnswer
  <2>5. CASE CompareEnd(t)
    BY <1>4, <2>5, CompareEndAnswer
  <2>6. CASE Match(t)
    BY <1>1, <1>4, <2>6, MatchAnswer
  <2>7. CASE InsertCommit(t) \/ SetCommit(t) \/ RemoveCommit(t)
    BY <1>1, <1>4, <2>7, CommitAnswer
  <2> QED BY <1>4, <2>1, <2>2, <2>3, <2>4, <2>5, <2>6, <2>7 DEF Step
<1> QED BY <1>2, <1>3, <1>4 DEF Next

\* The invariants hold throughout.
LEMMA AnswerInvariance == Spec => [](MapInv /\ AnswerInv)
BY InitMap, NextMap, InitAnswers, NextAnswers, PTL DEF Spec

\* A list in which each object is once has as many objects as entries.
LEMMA CountObjects ==
  ASSUME bucket \in Seq(Entry), EachObjectOnce(bucket)
  PROVE  Cardinality(KeysOf(bucket)) = Len(bucket)
<1> DEFINE K == KeysOf(bucket)
           n == Len(bucket)
           f == [i \in 1..n |-> bucket[i].key]
<1>1. n \in Nat /\ DOMAIN bucket = 1..n
  OBVIOUS
<1>2. f \in [1..n -> K] /\ \A k \in K : \E i \in 1..n : f[i] = k
  BY <1>1 DEF KeysOf, ToSet
<1>3. \A i, j \in 1..n : f[i] = f[j] => i = j
  BY <1>1 DEF EachObjectOnce
<1> HIDE DEF f, K, n
<1>4. f \in Bijection(1..n, K)
  BY <1>2, <1>3, Fun_IsBij
<1>5. IsFiniteSet(1..n) /\ Cardinality(1..n) = n
  BY <1>1, FS_Interval
<1>6. Cardinality(K) = n
  BY <1>4, <1>5, FS_Bijection DEF ExistsBijection
<1> QED BY <1>6 DEF K, n

\* The variables of ConcurrentMap keep their types, and no key object is in the
\* list twice (map.rs:99-424).
THEOREM TypeCorrect == Spec => []TypeOK
<1>1. MapInv /\ AnswerInv => TypeOK
  BY CountObjects DEF MapInv, AnswerInv, CallTypes, TypeOK
<1> QED BY <1>1, AnswerInvariance, PTL

\* Whatever the other threads do between the locked steps of a call, what it
\* returns was true at some moment of it; only a remove() may miss a key, and
\* only once a key object has come back (map.rs:49-424).
THEOREM AnswersWereTrue == Spec => []ResultsWereTrue
<1>1. AnswerInv => ResultsWereTrue
  BY DEF AnswerInv, AnswerOK, ResultsWereTrue
<1> QED BY <1>1, AnswerInvariance, PTL

=============================================================================
