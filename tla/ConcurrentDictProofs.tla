------------------------- MODULE ConcurrentDictProofs -------------------------
(***************************************************************************)
(* Theorems about ConcurrentDict, for any threads, dictionaries, keys and  *)
(* shards and any number of changes by other threads: its types, what a    *)
(* snapshot has, what popitem() takes, and that what the composed calls    *)
(* answer was so.                                                          *)
(*                                                                         *)
(* While a call runs, seen has every value its dictionaries have had.      *)
(* Each key is accounted for from shard to shard and from item to item: it *)
(* is still to come, it is listed in the snapshot, or what the call says   *)
(* about it is settled by what has been seen.                              *)
(***************************************************************************)
EXTENDS ConcurrentDict, FiniteSetTheorems, FunctionTheorems, SequenceTheorems, TLAPS

-----------------------------------------------------------------------------
(* The invariant. *)

Entry == [key : Keys, val : Values]

Places == {"idle", "wipe", "lenSelf", "lenOther", "compare", "snapshot", "each",
           "store", "getitem"}
Results == {"none", "cleared", "KeyError", "items", "updated", "True", "False", "pair"}

Call == [op : Calls \cup {"none"}, self : Dicts \cup {Absent}, other : Dicts \cup {Absent},
         pc : Places, shard : 1..NShards, items : Seq(Entry), count : [1..2 -> Nat],
         result : Results]

\* The places at which a call has the items of a snapshot.
Listing == {"snapshot", "each", "store", "getitem"}

\* What each place says about the call (dict.py:51-59, 107-151).
PlaceOK(c) ==
  /\ c.pc = "idle" <=> c.op = "none"
  /\ c.pc = "wipe" => c.op = "clear"
  /\ c.pc \in {"lenSelf", "lenOther", "compare", "getitem"} => c.op = "eq"
  /\ c.pc = "store" => c.op = "update"
  /\ c.pc \in {"snapshot", "each"} => c.op \in {"popitem", "copy", "update", "eq"}
  /\ c.pc # "idle" => c.self \in Dicts /\ (c.op \in {"update", "eq"} => c.other \in Dicts)
  /\ c.pc \in {"store", "getitem"} => c.items # <<>>
  /\ c.pc \in {"lenSelf", "lenOther", "compare"} => c.items = <<>>
  /\ c.pc \in {"compare", "each", "store", "getitem"} => c.shard = 1

\* A snapshot has a key once, in a map in which it has one entry (map.rs:507-520).
Distinct(items) == \A i, j \in DOMAIN items : items[i].key = items[j].key => i = j

CallOK(c) == c \in Call /\ PlaceOK(c) /\ Distinct(c.items)

\* The dictionary whose items are looked at: update() reads the other one.
Src(c) == IF c.op = "update" THEN 2 ELSE 1

\* The dictionaries of the call as they are now.
Now(t, i) == map[DictsOf(call[t])[i]]

\* What there is now has been seen.
SeesNow(t) ==
  \A i \in 1..2, k \in Keys : Now(t, i)[k] \in seen[t][i][k] /\ IsFiniteSet(seen[t][i][k])

Listed(items, k) == \E i \in DOMAIN items : items[i].key = k

\* What has been seen of the key is enough for the answer of the call.
Settled(c, s, k) ==
  \/ Absent \in s[Src(c)][k]
  \/ c.op \in {"update", "eq"} /\ s[1][k] \cap s[2][k] # {}

\* What the items and the keys that are not among them have to do with what has
\* been seen (dict.py:51-59, 107-151, map.rs:470-474, 507-520).
TrackedBy(c, s) ==
  /\ c.pc = "wipe" => \A k \in Keys : ShardOf[k] < c.shard => Absent \in s[1][k]
  /\ c.pc \in Listing =>
       /\ \A i \in DOMAIN c.items : c.items[i].val \in s[Src(c)][c.items[i].key]
       /\ \A k \in Keys :
            \/ c.pc = "snapshot" /\ ShardOf[k] >= c.shard
            \/ Listed(c.items, k)
            \/ Settled(c, s, k)
  /\ c.pc = "snapshot" => \A i \in DOMAIN c.items : ShardOf[c.items[i].key] < c.shard
  /\ c.pc = "getitem" => \E v \in s[2][Head(c.items).key] : v # Absent

Tracked(t) == TrackedBy(call[t], seen[t])

\* The dictionary has been the same since the call began.
Steady(t, i) == \A k \in Keys : seen[t][i][k] = {Now(t, i)[k]}

\* The entries in the shards before s.
Before(m, s) == {k \in Keys : ShardOf[k] < s /\ m[k] # Absent}

\* The shards that len() has been through, of each dictionary of a ==.
Passed(c) ==
  <<IF c.pc = "lenSelf" THEN c.shard ELSE NShards + 1,
    IF c.pc = "lenSelf" THEN 1 ELSE IF c.pc = "lenOther" THEN c.shard ELSE NShards + 1>>

\* The lengths of dictionaries that did not change are right, and the items are
\* looked at only if they are equal (dict.py:53-54).
Lengths(t) ==
  call[t].op = "eq" =>
    /\ \A i \in 1..2 : Steady(t, i) =>
         call[t].count[i] = Cardinality(Before(Now(t, i), Passed(call[t])[i]))
    /\ call[t].pc \in Listing => call[t].count[1] = call[t].count[2]

ThreadInv(t) ==
  /\ CallOK(call[t])
  /\ ~At(t, "idle") => SeesNow(t) /\ Tracked(t) /\ Lengths(t)

DictInv ==
  /\ map \in [Dicts -> [Keys -> Values \cup {Absent}]]
  /\ DOMAIN call = Threads
  /\ seen \in [Threads -> [1..2 -> [Keys -> SUBSET (Values \cup {Absent})]]]
  /\ \A t \in Threads : ThreadInv(t)

-----------------------------------------------------------------------------
(* What is seen. *)

\* A call that goes on sees what there is after the step (Watch).
Grown(t) ==
  ~At(t, "idle") /\ ~At(t, "idle")' =>
    \A i \in 1..2, k \in Keys :
      seen'[t][i][k] = seen[t][i][k] \cup {map'[DictsOf(call[t])[i]][k]}

\* The dictionaries of a call that runs are dictionaries.
LEMMA NowTyping ==
  ASSUME DictInv, NEW t \in Threads, ~At(t, "idle"), NEW i \in 1..2
  PROVE  /\ DictsOf(call[t])[i] \in Dicts
         /\ Now(t, i) \in [Keys -> Values \cup {Absent}]
         /\ SeesNow(t) /\ Tracked(t) /\ Lengths(t)
         /\ call[t] \in Call /\ PlaceOK(call[t]) /\ Distinct(call[t].items)
<1>1. CallOK(call[t]) /\ SeesNow(t) /\ Tracked(t) /\ Lengths(t)
  BY DEF DictInv, ThreadInv
<1>2. call[t].self \in Dicts /\ (call[t].op \in {"update", "eq"} => call[t].other \in Dicts)
  BY <1>1 DEF CallOK, PlaceOK, At
<1>3. DictsOf(call[t])[i] \in Dicts
  BY <1>2 DEF DictsOf
<1>4. Now(t, i) \in [Keys -> Values \cup {Absent}]
  BY <1>3 DEF Now, DictInv
<1> QED BY <1>1, <1>3, <1>4 DEF CallOK

\* What has been seen of a dictionary is a value for each of two dictionaries.
LEMMA SeenTyping ==
  ASSUME DictInv, NEW t \in Threads
  PROVE  seen[t] \in [1..2 -> [Keys -> SUBSET (Values \cup {Absent})]]
BY DEF DictInv

\* A step at which a call sees what there is afterwards keeps SeesNow.
LEMMA GrownSees ==
  ASSUME DictInv, NEW t \in Threads, Grown(t), ~At(t, "idle"), ~At(t, "idle")',
         DictsOf(call'[t]) = DictsOf(call[t])
  PROVE  SeesNow(t)'
<1> SUFFICES ASSUME NEW i \in 1..2, NEW k \in Keys
             PROVE  Now(t, i)'[k] \in seen'[t][i][k] /\ IsFiniteSet(seen'[t][i][k])
  BY DEF SeesNow
<1>1. seen'[t][i][k] = seen[t][i][k] \cup {Now(t, i)'[k]}
  BY DEF Grown, Now
<1>2. IsFiniteSet(seen[t][i][k])
  BY NowTyping DEF SeesNow
<1> DEFINE S == seen[t][i][k]
           v == Now(t, i)'[k]
           z == seen'[t][i][k]
<1>3. z = S \cup {v} /\ IsFiniteSet(S)
  BY <1>1, <1>2
<1> HIDE DEF S, v, z
<1>4. IsFiniteSet(z) /\ v \in z
  BY <1>3, FS_AddElement
<1> QED BY <1>4 DEF v, z

\* A dictionary that has been the same was the same before the step.
LEMMA SteadyBefore ==
  ASSUME DictInv, map' \in [Dicts -> [Keys -> Values \cup {Absent}]],
         NEW t \in Threads, Grown(t), ~At(t, "idle"), ~At(t, "idle")',
         DictsOf(call'[t]) = DictsOf(call[t]), NEW i \in 1..2, Steady(t, i)'
  PROVE  Steady(t, i) /\ Now(t, i)' = Now(t, i)
<1>1. ASSUME NEW k \in Keys
      PROVE  Now(t, i)'[k] = Now(t, i)[k] /\ seen[t][i][k] = {Now(t, i)[k]}
  <2>1. seen'[t][i][k] = seen[t][i][k] \cup {Now(t, i)'[k]}
    BY DEF Grown, Now
  <2>2. Now(t, i)[k] \in seen[t][i][k]
    BY NowTyping DEF SeesNow
  <2>3. seen'[t][i][k] = {Now(t, i)'[k]}
    BY DEF Steady
  <2> QED BY <2>1, <2>2, <2>3
<1>2. Now(t, i) \in [Keys -> Values \cup {Absent}]
  BY NowTyping
<1>3. Now(t, i)' \in [Keys -> Values \cup {Absent}]
  <2>1. DictsOf(call[t])[i] \in Dicts
    BY NowTyping
  <2> QED BY <2>1 DEF Now
<1> QED BY <1>1, <1>2, <1>3 DEF Steady

\* Items have a key and a value, and the first one is at position 1.
LEMMA ItemTyping ==
  ASSUME NEW s \in Seq(Entry)
  PROVE  /\ Len(s) \in Nat /\ DOMAIN s = 1..Len(s)
         /\ \A i \in DOMAIN s : s[i] \in Entry /\ s[i].key \in Keys /\ s[i].val \in Values
         /\ s # <<>> => /\ 1 \in DOMAIN s /\ Head(s) = s[1]
                        /\ Head(s) \in Entry /\ Head(s).key \in Keys /\ Head(s).val \in Values
<1>1. Len(s) \in Nat /\ DOMAIN s = 1..Len(s) /\ \A i \in DOMAIN s : s[i] \in Entry
  OBVIOUS
<1>2. s # <<>> => 1 \in DOMAIN s /\ Head(s) = s[1]
  OBVIOUS
<1> QED BY <1>1, <1>2 DEF Entry

\* Who has seen more has settled no less.
LEMMA TrackedGrows ==
  ASSUME NEW c \in Call, Distinct(c.items), NEW s, NEW z,
         \A i \in 1..2, k \in Keys : s[i][k] \subseteq z[i][k],
         TrackedBy(c, s), c.pc = "getitem" => c.items # <<>>
  PROVE  TrackedBy(c, z)
<1>1. Src(c) \in 1..2
  BY DEF Src
<1> DEFINE items == c.items
<1>5. items \in Seq(Entry)
  BY DEF Call
<1> HIDE DEF items
<1>6. /\ \A i \in DOMAIN items : items[i].key \in Keys
      /\ items # <<>> => Head(items).key \in Keys
  BY <1>5, ItemTyping
<1>2. \A i \in DOMAIN c.items : c.items[i].key \in Keys
  BY <1>6 DEF items
<1>3. c.pc = "getitem" => Head(c.items).key \in Keys
  BY <1>6 DEF items
<1>4. \A k \in Keys : Settled(c, s, k) => Settled(c, z, k)
  BY <1>1 DEF Settled
<1> QED BY <1>1, <1>2, <1>3, <1>4 DEF TrackedBy

\* A call that has seen a step and does not change keeps its invariant.
LEMMA OtherCall ==
  ASSUME DictInv, map' \in [Dicts -> [Keys -> Values \cup {Absent}]],
         NEW t \in Threads, call'[t] = call[t], Grown(t)
  PROVE  ThreadInv(t)'
<1>1. CallOK(call'[t])
  BY DEF DictInv, ThreadInv
<1> SUFFICES ASSUME ~At(t, "idle") PROVE (SeesNow(t) /\ Tracked(t) /\ Lengths(t))'
  BY <1>1 DEF ThreadInv, At
<1>2. ~At(t, "idle")' /\ DictsOf(call'[t]) = DictsOf(call[t])
  BY DEF At
<1>3. SeesNow(t)'
  BY <1>2, GrownSees
<1>4. Tracked(t)'
  <2>1. \A i \in 1..2, k \in Keys : seen[t][i][k] \subseteq seen'[t][i][k]
    BY <1>2 DEF Grown
  <2>2. TrackedBy(call[t], seen[t])
    BY NowTyping DEF Tracked
  <2>3. call[t] \in Call /\ Distinct(call[t].items) /\ (call[t].pc = "getitem" => call[t].items # <<>>)
    BY NowTyping DEF PlaceOK
  <2>4. TrackedBy(call[t], seen'[t])
    BY <2>1, <2>2, <2>3, TrackedGrows
  <2> QED BY <2>4 DEF Tracked
<1>5. Lengths(t)'
  <2>1. \A i \in 1..2 : Steady(t, i)' => Steady(t, i) /\ Now(t, i)' = Now(t, i)
    BY <1>2, SteadyBefore
  <2>2. Lengths(t)
    BY NowTyping
  <2> QED BY <2>1, <2>2 DEF Lengths
<1> QED BY <1>3, <1>4, <1>5

-----------------------------------------------------------------------------
(* What the helpers do to what is seen. *)

Seen == [1..2 -> [Keys -> SUBSET (Values \cup {Absent})]]
Maps == [Dicts -> [Keys -> Values \cup {Absent}]]

LEMMA UnwatchedTyping == Unwatched \in Seen
BY DEF Unwatched, Seen

\* A change is seen by every call that runs.
LEMMA Watched ==
  ASSUME DictInv, Watch, map' \in Maps, \A t \in Threads : At(t, "idle") => At(t, "idle")'
  PROVE  seen' \in [Threads -> Seen] /\ \A t \in Threads : Grown(t)
<1>1. ASSUME NEW t \in Threads PROVE seen'[t] \in Seen
  <2>1. CASE At(t, "idle")'
    BY <2>1, UnwatchedTyping DEF Watch
  <2>2. CASE ~At(t, "idle")'
    <3>1. \A i \in 1..2 : DictsOf(call[t])[i] \in Dicts
      BY <2>2, NowTyping
    <3>2. \A i \in 1..2, k \in Keys : map'[DictsOf(call[t])[i]][k] \in Values \cup {Absent}
      BY <3>1 DEF Maps
    <3>3. \A i \in 1..2, k \in Keys : seen[t][i][k] \subseteq Values \cup {Absent}
      BY SeenTyping
    <3>4. seen'[t] = [i \in 1..2 |-> [k \in Keys |->
                        seen[t][i][k] \cup {map'[DictsOf(call[t])[i]][k]}]]
      BY <2>2 DEF Watch
    <3>5. \A i \in 1..2, k \in Keys :
            seen[t][i][k] \cup {map'[DictsOf(call[t])[i]][k]} \in SUBSET (Values \cup {Absent})
      BY <3>2, <3>3
    <3> QED BY <3>4, <3>5 DEF Seen
  <2> QED BY <2>1, <2>2
<1>2. seen' \in [Threads -> Seen]
  BY <1>1 DEF Watch
<1>3. \A t \in Threads : Grown(t)
  BY DEF Watch, Grown
<1> QED BY <1>2, <1>3

\* A call that sees the same as before, while the dictionaries stay as they are,
\* sees what there is.
LEMMA SameSeen ==
  ASSUME DictInv, map' = map, NEW t \in Threads, seen'[t] = seen[t]
  PROVE  Grown(t)
<1> SUFFICES ASSUME ~At(t, "idle"), NEW i \in 1..2, NEW k \in Keys
             PROVE  seen[t][i][k] = seen[t][i][k] \cup {map[DictsOf(call[t])[i]][k]}
  BY DEF Grown
<1>1. Now(t, i)[k] \in seen[t][i][k]
  BY NowTyping DEF SeesNow
<1> QED BY <1>1 DEF Now

\* A step that changes no dictionary.
LEMMA Forgotten ==
  ASSUME DictInv, NEW u \in Threads, Forget(u), map' = map
  PROVE  seen' \in [Threads -> Seen] /\ \A t \in Threads : Grown(t)
<1>1. seen \in [Threads -> Seen]
  BY DEF DictInv, Seen
<1>2. seen' \in [Threads -> Seen]
  BY <1>1, UnwatchedTyping DEF Forget
<1>3. \A t \in Threads : ~At(t, "idle")' => seen'[t] = seen[t]
  BY <1>1 DEF Forget
<1>4. \A t \in Threads : Grown(t)
  BY <1>3, SameSeen DEF Grown
<1> QED BY <1>2, <1>4

\* A call that looks sees what there is now, and the others see no less.
LEMMA Looked ==
  ASSUME DictInv, NEW u \in Threads, Look(u), map' = map,
         \A i \in 1..2 : DictsOf(call'[u])[i] \in Dicts
  PROVE  /\ seen' \in [Threads -> Seen]
         /\ \A t \in Threads \ {u} : Grown(t)
         /\ SeesNow(u)'
<1>1. seen \in [Threads -> Seen]
  BY DEF DictInv, Seen
<1>2. \A i \in 1..2, k \in Keys : map[DictsOf(call'[u])[i]][k] \in Values \cup {Absent}
  BY DEF DictInv
<1>3. seen'[u] = [i \in 1..2 |-> [k \in Keys |-> {map[DictsOf(call'[u])[i]][k]}]]
      /\ \A t \in Threads \ {u} : seen'[t] = seen[t]
  BY <1>1 DEF Look
<1>4. seen'[u] \in Seen
  BY <1>2, <1>3 DEF Seen
<1>5. seen' \in [Threads -> Seen]
  BY <1>1, <1>4 DEF Look
<1>6. \A t \in Threads \ {u} : Grown(t)
  BY <1>3, SameSeen
<1>7. \A i \in 1..2, k \in Keys : seen'[u][i][k] = {Now(u, i)'[k]}
  BY <1>3 DEF Now
<1>8. \A i \in 1..2, k \in Keys :
        Now(u, i)'[k] \in seen'[u][i][k] /\ IsFiniteSet(seen'[u][i][k])
  <2> SUFFICES ASSUME NEW i \in 1..2, NEW k \in Keys
               PROVE  Now(u, i)'[k] \in seen'[u][i][k] /\ IsFiniteSet(seen'[u][i][k])
    OBVIOUS
  <2> DEFINE v == Now(u, i)'[k]
  <2>1. seen'[u][i][k] = {v}
    BY <1>7
  <2> HIDE DEF v
  <2>2. IsFiniteSet({v})
    BY FS_Singleton
  <2> QED BY <2>1, <2>2 DEF v
<1> QED BY <1>5, <1>6, <1>8 DEF SeesNow

\* Setting or removing an entry.
LEMMA Assigned ==
  ASSUME DictInv, NEW d \in Dicts, NEW k \in Keys, NEW v \in Values \cup {Absent}, Assign(d, k, v)
  PROVE  map' \in Maps
<1>1. map \in Maps
  BY DEF DictInv, Maps
<1> QED BY <1>1 DEF Assign, Maps

-----------------------------------------------------------------------------
(* How a call goes on. *)

\* The step of one thread keeps the types and what every call knows.
Kept(u) ==
  /\ map' \in Maps
  /\ seen' \in [Threads -> Seen]
  /\ DOMAIN call' = Threads
  /\ ThreadInv(u)'
  /\ \A t \in Threads \ {u} : call'[t] = call[t] /\ Grown(t)

LEMMA KeptInv ==
  ASSUME DictInv, NEW u \in Threads, Kept(u)
  PROVE  DictInv'
<1>1. \A t \in Threads \ {u} : ThreadInv(t)'
  BY OtherCall DEF Kept, Maps
<1> QED BY <1>1 DEF Kept, DictInv, Maps, Seen

\* A call of the same two dictionaries that has counted as much as before.
LEMMA GoesOn ==
  ASSUME DictInv, map' \in Maps, NEW t \in Threads, Grown(t), ~At(t, "idle"), ~At(t, "idle")',
         CallOK(call'[t]), TrackedBy(call'[t], seen'[t]),
         call'[t].op = call[t].op, call'[t].self = call[t].self, call'[t].other = call[t].other,
         call[t].op = "eq" =>
           /\ call'[t].count = call[t].count /\ Passed(call'[t]) = Passed(call[t])
           /\ call'[t].pc \in Listing => call[t].count[1] = call[t].count[2]
  PROVE  ThreadInv(t)'
<1>1. DictsOf(call'[t]) = DictsOf(call[t])
  BY DEF DictsOf
<1>2. SeesNow(t)'
  BY <1>1, GrownSees
<1>3. \A i \in 1..2 : Steady(t, i)' => Steady(t, i) /\ Now(t, i)' = Now(t, i)
  BY <1>1, SteadyBefore DEF Maps
<1>4. Lengths(t)
  BY NowTyping
<1>5. Lengths(t)'
  BY <1>3, <1>4 DEF Lengths
<1> QED BY <1>2, <1>5 DEF ThreadInv, Tracked

\* The end of a call.
LEMMA Returned ==
  ASSUME DictInv, NEW t \in Threads, NEW r \in Results, NEW items \in Seq(Entry),
         Distinct(items), Return(t, r, items)
  PROVE  /\ ThreadInv(t)' /\ At(t, "idle")' /\ DOMAIN call' = Threads
         /\ call'[t].result = r /\ call'[t].items = items
         /\ \A u \in Threads \ {t} : call'[u] = call[u]
<1> DEFINE c == [Ready EXCEPT !.result = r, !.items = items]
<1>1. call'[t] = c /\ DOMAIN call' = Threads /\ \A u \in Threads \ {t} : call'[u] = call[u]
  BY DEF Return, DictInv
<1>2. 1 \in 1..NShards /\ <<0, 0>> \in [1..2 -> Nat] /\ "idle" \in Places /\ "none" \in Results
  BY DictAssumption DEF Places, Results
<1>3. Ready \in Call /\ Ready.pc = "idle" /\ Ready.op = "none"
  <2>1. <<>> \in Seq(Entry)
    OBVIOUS
  <2> QED BY <1>2, <2>1 DEF Ready, Call
<1>4. /\ c \in Call /\ c.pc = "idle" /\ c.op = "none" /\ c.items = items /\ c.result = r
  BY <1>3 DEF Call
<1> HIDE DEF c
<1>5. CallOK(c)
  BY <1>4 DEF CallOK, PlaceOK
<1> QED BY <1>1, <1>4, <1>5 DEF ThreadInv, At

LEMMA DoneReturned ==
  ASSUME DictInv, NEW t \in Threads, NEW r \in Results, Done(t, r)
  PROVE  /\ ThreadInv(t)' /\ At(t, "idle")' /\ DOMAIN call' = Threads
         /\ call'[t].result = r /\ call'[t].items = <<>>
         /\ \A u \in Threads \ {t} : call'[u] = call[u]
<1>1. Return(t, r, <<>>) /\ <<>> \in Seq(Entry) /\ Distinct(<<>>)
  BY DEF Done, Distinct
<1> QED BY <1>1, Returned

\* What is left of the items after the first one.
LEMMA RestOfItems ==
  ASSUME NEW s \in Seq(Entry), s # <<>>, Distinct(s)
  PROVE  /\ Tail(s) \in Seq(Entry) /\ Distinct(Tail(s))
         /\ \A i \in DOMAIN Tail(s) : \E j \in DOMAIN s : Tail(s)[i] = s[j]
         /\ \A k : Listed(s, k) => Head(s).key = k \/ Listed(Tail(s), k)
<1> DEFINE z == Tail(s)
           n == Len(s)
<1>1. /\ n \in Nat /\ DOMAIN s = 1..n /\ n >= 1 /\ Head(s) = s[1]
      /\ z \in Seq(Entry) /\ Len(z) = n - 1 /\ DOMAIN z = 1..(n - 1)
      /\ \A i \in 1..(n - 1) : z[i] = s[i + 1]
  OBVIOUS
<1> HIDE DEF z, n
<1>2. \A i \in DOMAIN z : i + 1 \in DOMAIN s /\ z[i] = s[i + 1]
  BY <1>1
<1>3. Distinct(z)
  <2> SUFFICES ASSUME NEW i \in DOMAIN z, NEW j \in DOMAIN z, z[i].key = z[j].key PROVE i = j
    BY DEF Distinct
  <2>1. i + 1 = j + 1
    BY <1>2 DEF Distinct
  <2> QED BY <1>1, <2>1
<1>4. ASSUME NEW k, Listed(s, k), Head(s).key # k PROVE Listed(z, k)
  <2>1. PICK j \in DOMAIN s : s[j].key = k
    BY <1>4 DEF Listed
  <2>2. j # 1
    BY <1>1, <1>4, <2>1
  <2>3. j - 1 \in DOMAIN z /\ z[j - 1] = s[j]
    BY <1>1, <2>2
  <2> QED BY <2>1, <2>3 DEF Listed
<1> QED BY <1>1, <1>2, <1>3, <1>4 DEF z

-----------------------------------------------------------------------------
(* The steps. *)

\* The call of a thread that runs is a record whose fields can be replaced.
LEMMA Changed ==
  ASSUME DictInv, NEW u \in Threads, NEW c, call' = [call EXCEPT ![u] = c]
  PROVE  DOMAIN call' = Threads /\ call'[u] = c /\ \A t \in Threads \ {u} : call'[t] = call[t]
BY DEF DictInv

LEMMA StaysIdle ==
  ASSUME NEW u \in Threads, ~At(u, "idle"), \A t \in Threads \ {u} : call'[t] = call[t]
  PROVE  \A t \in Threads : At(t, "idle") => At(t, "idle")'
BY DEF At

LEMMA MapTyping ==
  ASSUME DictInv
  PROVE  map \in Maps /\ seen \in [Threads -> Seen]
BY DEF DictInv, Maps, Seen

\* clear() empties one shard (map.rs:470-474).
LEMMA WipeKept ==
  ASSUME DictInv, NEW u \in Threads, Wipe(u)
  PROVE  Kept(u)
<1> DEFINE c == call[u]
           d == [c EXCEPT !.shard = @ + 1]
           s == call[u].shard
<1>1. ~At(u, "idle") /\ c.pc = "wipe"
  BY DEF Wipe, At
<1>2. c \in Call /\ PlaceOK(c) /\ Distinct(c.items) /\ TrackedBy(c, seen[u]) /\ c.self \in Dicts
  BY <1>1, NowTyping DEF Tracked, PlaceOK
<1>3. map' \in Maps
  BY <1>2, MapTyping DEF Wipe, Maps
<1>4. CASE s < NShards
  <2>1. call' = [call EXCEPT ![u] = d]
    BY <1>4 DEF Wipe
  <2>2. DOMAIN call' = Threads /\ call'[u] = d /\ \A t \in Threads \ {u} : call'[t] = call[t]
    BY <2>1, Changed
  <2>3. s \in 1..NShards /\ NShards \in Nat
    BY <1>2, DictAssumption DEF Call
  <2>4. /\ d \in Call /\ d.pc = "wipe" /\ d.op = c.op /\ d.self = c.self /\ d.other = c.other
        /\ d.items = c.items /\ d.shard = s + 1
    BY <1>1, <1>2, <1>4, <2>3 DEF Call
  <2>5. seen' \in [Threads -> Seen] /\ \A t \in Threads : Grown(t)
    <3>1. Watch
      BY DEF Wipe
    <3> QED BY <1>1, <1>3, <2>2, <3>1, StaysIdle, Watched
  <2>6. ~At(u, "idle")'
    BY <2>2, <2>4 DEF At
  <2>7. ASSUME NEW k \in Keys, ShardOf[k] < s + 1 PROVE Absent \in seen'[u][1][k]
    <3>1. seen'[u][1][k] = seen[u][1][k] \cup {map'[DictsOf(c)[1]][k]}
      BY <1>1, <2>5, <2>6 DEF Grown
    <3>2. DictsOf(c)[1] = c.self
      BY DEF DictsOf
    <3>3. ShardOf[k] \in 1..NShards
      BY DictAssumption
    <3>4. CASE ShardOf[k] < s
      BY <1>1, <1>2, <3>1, <3>4 DEF TrackedBy
    <3>5. CASE ShardOf[k] = s
      <4>1. map'[c.self][k] = Absent
        BY <1>2, <3>5, MapTyping DEF Wipe, Maps
      <4> QED BY <3>1, <3>2, <4>1
    <3> QED BY <2>3, <2>7, <3>3, <3>4, <3>5
  <2> HIDE DEF d
  <2>8. TrackedBy(d, seen'[u])
    BY <2>4, <2>7 DEF TrackedBy, Listing
  <2>9. CallOK(d) /\ c.op # "eq"
    BY <1>1, <1>2, <2>4 DEF CallOK, PlaceOK
  <2>10. ThreadInv(u)'
    BY <1>1, <1>3, <2>2, <2>4, <2>5, <2>6, <2>8, <2>9, GoesOn
  <2> QED BY <1>3, <2>2, <2>5, <2>10 DEF Kept
<1>5. CASE ~(s < NShards)
  <2>1. Done(u, "cleared") /\ Watch
    BY <1>5 DEF Wipe
  <2>2. ThreadInv(u)' /\ DOMAIN call' = Threads /\ \A t \in Threads \ {u} : call'[t] = call[t]
    BY <2>1, DoneReturned DEF Results
  <2>3. seen' \in [Threads -> Seen] /\ \A t \in Threads : Grown(t)
    BY <1>1, <1>3, <2>1, <2>2, StaysIdle, Watched
  <2> QED BY <1>3, <2>2, <2>3 DEF Kept
<1> QED BY <1>4, <1>5

\* A call that ends and changes nothing.
LEMMA DoneKept ==
  ASSUME DictInv, NEW u \in Threads, NEW r \in Results, Done(u, r), Forget(u), UNCHANGED map
  PROVE  Kept(u)
<1>1. ThreadInv(u)' /\ DOMAIN call' = Threads /\ \A t \in Threads \ {u} : call'[t] = call[t]
  BY DoneReturned
<1>2. seen' \in [Threads -> Seen] /\ \A t \in Threads : Grown(t)
  BY Forgotten
<1> QED BY <1>1, <1>2, MapTyping DEF Kept

\* The end of the items (dict.py:51-59, 116-151).
LEMMA EachEndKept ==
  ASSUME DictInv, NEW u \in Threads, EachEnd(u)
  PROVE  Kept(u)
<1>1. ~At(u, "idle") /\ call[u].pc = "each" /\ Forget(u) /\ UNCHANGED map
  BY DEF EachEnd, At
<1>2. call[u] \in Call /\ call[u].op \in {"popitem", "copy", "update", "eq"} /\ Distinct(call[u].items)
  BY <1>1, NowTyping DEF PlaceOK
<1>3. CASE call[u].op = "copy"
  <2>1. Return(u, "items", call[u].items) /\ call[u].items \in Seq(Entry) /\ "items" \in Results
    BY <1>2, <1>3 DEF EachEnd, Call, Results
  <2>2. ThreadInv(u)' /\ DOMAIN call' = Threads /\ \A t \in Threads \ {u} : call'[t] = call[t]
    BY <1>2, <2>1, Returned
  <2>3. seen' \in [Threads -> Seen] /\ \A t \in Threads : Grown(t)
    BY <1>1, Forgotten
  <2> QED BY <1>1, <2>2, <2>3, MapTyping DEF Kept
<1>4. CASE call[u].op # "copy"
  <2>1. \E r \in {"KeyError", "updated", "True"} : Done(u, r)
    BY <1>2, <1>4 DEF EachEnd
  <2>2. \A r \in {"KeyError", "updated", "True"} : r \in Results
    BY DEF Results
  <2> QED BY <1>1, <2>1, <2>2, DoneKept
<1> QED BY <1>3, <1>4

\* Going to the next item.
LEMMA NextItemCall ==
  ASSUME DictInv, NEW u \in Threads, ~At(u, "idle"), call[u].items # <<>>,
         NEW pc \in {"each", "snapshot"}, NextItem(u, pc)
  PROVE  /\ call'[u] \in Call /\ call'[u].pc = pc /\ call'[u].items = Tail(call[u].items)
         /\ call'[u].op = call[u].op /\ call'[u].self = call[u].self
         /\ call'[u].other = call[u].other /\ call'[u].count = call[u].count
         /\ call'[u].shard = call[u].shard
         /\ Distinct(call'[u].items)
         /\ DOMAIN call' = Threads /\ \A t \in Threads \ {u} : call'[t] = call[t]
<1> DEFINE c == call[u]
           rest == Tail(c.items)
           d == [c EXCEPT !.items = rest, !.pc = pc]
<1>1. c \in Call /\ Distinct(c.items) /\ c.items \in Seq(Entry)
  BY NowTyping DEF Call
<1>2. rest \in Seq(Entry) /\ Distinct(rest)
  BY <1>1, RestOfItems
<1>3. call' = [call EXCEPT ![u] = d]
  BY <1>1 DEF NextItem, DictInv, Call
<1>4. call'[u] = d /\ DOMAIN call' = Threads /\ \A t \in Threads \ {u} : call'[t] = call[t]
  BY <1>3, Changed
<1> HIDE DEF rest
<1>5. /\ d \in Call /\ d.pc = pc /\ d.items = rest /\ d.op = c.op /\ d.self = c.self
      /\ d.other = c.other /\ d.count = c.count /\ d.shard = c.shard
  BY <1>1, <1>2 DEF Call, Places
<1> QED BY <1>2, <1>4, <1>5 DEF rest

\* The first item is done with: what has been seen settles its key.
LEMMA NextTracked ==
  ASSUME DictInv, NEW u \in Threads, ~At(u, "idle"), call[u].items # <<>>,
         call[u].pc \in {"each", "store", "getitem"}, NextItem(u, "each"),
         map' \in Maps, Grown(u), Settled(call'[u], seen'[u], Head(call[u].items).key)
  PROVE  ThreadInv(u)'
<1> DEFINE c == call[u]
           d == call'[u]
           k0 == Head(c.items).key
<1>1. /\ d \in Call /\ d.pc = "each" /\ d.items = Tail(c.items) /\ d.op = c.op /\ d.self = c.self
      /\ d.other = c.other /\ d.count = c.count /\ d.shard = c.shard /\ Distinct(d.items)
  BY NextItemCall
<1>2. /\ c \in Call /\ PlaceOK(c) /\ TrackedBy(c, seen[u]) /\ c.items \in Seq(Entry)
      /\ Distinct(c.items) /\ Lengths(u)
  BY NowTyping DEF Tracked, Call
<1>3. ~At(u, "idle")'
  BY <1>1 DEF At
<1>4. CallOK(d)
  BY <1>1, <1>2 DEF CallOK, PlaceOK
<1>5. \A i \in 1..2, k \in Keys : seen[u][i][k] \subseteq seen'[u][i][k]
  BY <1>3 DEF Grown
<1>6. Src(d) = Src(c) /\ Src(d) \in 1..2
  BY <1>1 DEF Src
<1>7. /\ \A i \in DOMAIN d.items : \E j \in DOMAIN c.items : d.items[i] = c.items[j]
      /\ \A k : Listed(c.items, k) => k0 = k \/ Listed(d.items, k)
  BY <1>1, <1>2, RestOfItems
<1>8. \A j \in DOMAIN c.items : c.items[j].key \in Keys
  BY <1>2, ItemTyping
<1>9. \A j \in DOMAIN c.items : c.items[j].val \in seen'[u][Src(d)][c.items[j].key]
  BY <1>2, <1>5, <1>6, <1>8 DEF TrackedBy, Listing
<1>10. \A i \in DOMAIN d.items : d.items[i].val \in seen'[u][Src(d)][d.items[i].key]
  BY <1>7, <1>9
<1>11. ASSUME NEW k \in Keys PROVE Listed(d.items, k) \/ Settled(d, seen'[u], k)
  <2>1. Listed(c.items, k) \/ Settled(c, seen[u], k)
    <3>1. c.pc \in Listing /\ c.pc # "snapshot" /\ TrackedBy(c, seen[u])
      BY <1>2 DEF Listing
    <3> HIDE DEF c
    <3> QED BY <3>1 DEF TrackedBy
  <2>2. CASE Listed(c.items, k)
    <3>1. k0 = k \/ Listed(d.items, k)
      BY <1>7, <2>2
    <3> QED BY <3>1
  <2>3. CASE Settled(c, seen[u], k)
    <3>1. seen[u][1][k] \subseteq seen'[u][1][k] /\ seen[u][2][k] \subseteq seen'[u][2][k]
      BY <1>5
    <3>2. Settled(d, seen'[u], k)
      <4>1. d.op = c.op /\ (Src(d) = 1 \/ Src(d) = 2) /\ Src(d) = Src(c)
        BY <1>1, <1>6
      <4> HIDE DEF c, d
      <4>2. CASE Absent \in seen[u][Src(c)][k]
        <5>1. Absent \in seen'[u][Src(d)][k]
          BY <3>1, <4>1, <4>2
        <5> QED BY <5>1 DEF Settled
      <4>3. CASE c.op \in {"update", "eq"} /\ seen[u][1][k] \cap seen[u][2][k] # {}
        <5>1. seen'[u][1][k] \cap seen'[u][2][k] # {}
          BY <3>1, <4>3
        <5> QED BY <4>1, <4>3, <5>1 DEF Settled
      <4> QED BY <2>3, <4>2, <4>3 DEF Settled
    <3> QED BY <3>2
  <2> QED BY <2>1, <2>2, <2>3
<1>12. TrackedBy(d, seen'[u])
  BY <1>1, <1>10, <1>11 DEF TrackedBy
<1>13. d.op = "eq" => Passed(d) = Passed(c) /\ c.count[1] = c.count[2]
  BY <1>1, <1>2 DEF Passed, Lengths, Listing
<1> QED BY <1>1, <1>3, <1>4, <1>12, <1>13, GoesOn

\* What an item of the snapshot says.
LEMMA ItemFacts ==
  ASSUME DictInv, NEW u \in Threads, call[u].pc \in {"each", "store", "getitem"},
         call[u].items # <<>>
  PROVE  /\ Item(u) = Head(call[u].items) /\ Item(u).key \in Keys /\ Item(u).val \in Values
         /\ Item(u).val \in seen[u][Src(call[u])][Item(u).key]
         /\ ~At(u, "idle") /\ call[u].self \in Dicts
         /\ (call[u].op \in {"update", "eq"} => call[u].other \in Dicts)
<1>1. ~At(u, "idle")
  BY DEF At
<1>2. call[u] \in Call /\ PlaceOK(call[u]) /\ TrackedBy(call[u], seen[u])
  BY <1>1, NowTyping DEF Tracked
<1> DEFINE items == call[u].items
<1>3. items \in Seq(Entry)
  BY <1>2 DEF Call
<1>4. \A i \in DOMAIN items : items[i].val \in seen[u][Src(call[u])][items[i].key]
  BY <1>2 DEF TrackedBy, Listing
<1>5. call[u].self \in Dicts /\ (call[u].op \in {"update", "eq"} => call[u].other \in Dicts)
  BY <1>2 DEF PlaceOK
<1>6. Item(u) = Head(items) /\ items # <<>>
  BY DEF Item
<1> HIDE DEF items
<1>7. /\ 1 \in DOMAIN items /\ Head(items) = items[1]
      /\ Head(items).key \in Keys /\ Head(items).val \in Values
  BY <1>3, <1>6, ItemTyping
<1>8. items[1].val \in seen[u][Src(call[u])][items[1].key]
  BY <1>4, <1>7
<1>9. /\ Item(u) = Head(items) /\ Item(u).key \in Keys /\ Item(u).val \in Values
      /\ Item(u).val \in seen[u][Src(call[u])][Item(u).key]
  BY <1>6, <1>7, <1>8
<1> QED BY <1>1, <1>5, <1>9 DEF items

\* popitem() takes a candidate that is still there (dict.py:137-141).
LEMMA PopTakeKept ==
  ASSUME DictInv, NEW u \in Threads, PopTake(u)
  PROVE  Kept(u)
<1> DEFINE k == Item(u).key
           v == Self(u)[k]
           e == [key |-> k, val |-> v]
<1>1. /\ call[u].pc = "each" /\ call[u].items # <<>> /\ v # Absent
      /\ Assign(call[u].self, k, Absent) /\ Return(u, "pair", <<e>>) /\ Watch
  BY DEF PopTake, Each, At, Self
<1>2. k \in Keys /\ call[u].self \in Dicts /\ ~At(u, "idle")
  BY <1>1, ItemFacts
<1>3. map' \in Maps
  BY <1>1, <1>2, Assigned
<1>4. v \in Values
  BY <1>1, <1>2, MapTyping DEF Self, Maps
<1> HIDE DEF k, v
<1>5. e \in Entry
  BY <1>2, <1>4 DEF Entry
<1> HIDE DEF e
<1>6. <<e>> \in Seq(Entry) /\ Distinct(<<e>>)
  BY <1>5 DEF Distinct
<1>7. ThreadInv(u)' /\ DOMAIN call' = Threads /\ \A t \in Threads \ {u} : call'[t] = call[t]
  BY <1>1, <1>6, Returned DEF Results
<1>8. seen' \in [Threads -> Seen] /\ \A t \in Threads : Grown(t)
  BY <1>1, <1>2, <1>3, <1>7, StaysIdle, Watched
<1> QED BY <1>3, <1>7, <1>8 DEF Kept

\* A candidate that is gone is skipped, and after the last one there is a new
\* snapshot (dict.py:135-144).
LEMMA PopSkipKept ==
  ASSUME DictInv, NEW u \in Threads, PopSkip(u)
  PROVE  Kept(u)
<1> DEFINE c == call[u]
           d == call'[u]
           k0 == Item(u).key
<1>1. /\ c.pc = "each" /\ c.items # <<>> /\ c.op = "popitem" /\ Self(u)[k0] = Absent
      /\ UNCHANGED map
  BY DEF PopSkip, Each, At
<1>2. k0 = Head(c.items).key /\ k0 \in Keys /\ c.self \in Dicts /\ ~At(u, "idle")
  BY <1>1, ItemFacts
<1>3. CASE Len(c.items) > 1
  <2>1. NextItem(u, "each") /\ UNCHANGED seen
    BY <1>3 DEF PopSkip
  <2>2. \A t \in Threads : Grown(t)
    BY <1>1, <2>1, SameSeen
  <2>3. /\ d.op = c.op /\ DOMAIN call' = Threads
        /\ \A t \in Threads \ {u} : call'[t] = call[t]
    BY <1>1, <1>2, <2>1, NextItemCall
  <2>4. Absent \in seen[u][1][k0]
    <3>1. Now(u, 1)[k0] \in seen[u][1][k0]
      BY <1>2, NowTyping DEF SeesNow
    <3> QED BY <1>1, <3>1 DEF Now, DictsOf, Self
  <2>5. Settled(d, seen'[u], k0)
    BY <1>1, <2>1, <2>3, <2>4 DEF Settled, Src
  <2>6. ThreadInv(u)'
    BY <1>1, <1>2, <2>1, <2>2, <2>5, MapTyping, NextTracked
  <2> QED BY <1>1, <2>1, <2>2, <2>3, <2>6, MapTyping DEF Kept
<1>4. CASE ~(Len(c.items) > 1)
  <2>1. NextItem(u, "snapshot") /\ Look(u)
    BY <1>4 DEF PopSkip
  <2>2. /\ d \in Call /\ d.pc = "snapshot" /\ d.op = "popitem" /\ d.self = c.self /\ d.shard = c.shard
        /\ d.items = Tail(c.items) /\ Distinct(d.items)
        /\ DOMAIN call' = Threads /\ \A t \in Threads \ {u} : call'[t] = call[t]
    BY <1>1, <1>2, <2>1, NextItemCall
  <2>3. c \in Call /\ c.shard = 1
    BY <1>1, <1>2, NowTyping DEF PlaceOK
  <2>4. d.items = <<>>
    <3> DEFINE s == c.items
    <3>1. s \in Seq(Entry) /\ s # <<>> /\ ~(Len(s) > 1)
      BY <1>1, <1>4, <2>3 DEF Call
    <3> HIDE DEF s
    <3>2. Tail(s) = <<>>
      BY <3>1
    <3> QED BY <2>2, <3>2 DEF s
  <2>5. \A i \in 1..2 : DictsOf(d)[i] \in Dicts
    BY <1>2, <2>2 DEF DictsOf
  <2>6. seen' \in [Threads -> Seen] /\ (\A t \in Threads \ {u} : Grown(t)) /\ SeesNow(u)'
    BY <1>1, <2>1, <2>5, Looked
  <2>7. CallOK(d)
    BY <1>2, <2>2, <2>3 DEF CallOK, PlaceOK
  <2>8. TrackedBy(d, seen'[u])
    <3>1. \A k \in Keys : ShardOf[k] >= 1
      BY DictAssumption
    <3>2. DOMAIN d.items = {}
      BY <2>4
    <3> QED BY <2>2, <2>3, <3>1, <3>2 DEF TrackedBy
  <2>9. ThreadInv(u)'
    BY <2>2, <2>6, <2>7, <2>8 DEF ThreadInv, Tracked, Lengths
  <2> QED BY <1>1, <2>2, <2>6, <2>9, MapTyping DEF Kept
<1> QED BY <1>3, <1>4

\* update() gets the value that the other dictionary has by now (dict.py:111-113).
LEMMA FetchKept ==
  ASSUME DictInv, NEW u \in Threads, Fetch(u)
  PROVE  Kept(u)
<1> DEFINE c == call[u]
           k0 == Item(u).key
           v == Other(u)[k0]
           items == [c.items EXCEPT ![1].val = v]
           d == [c EXCEPT !.items = items, !.pc = "store"]
<1>1. c.pc = "each" /\ c.items # <<>> /\ c.op = "update" /\ Forget(u) /\ UNCHANGED map
  BY DEF Fetch, Each, At
<1>2. CASE v = Absent
  <2>1. Done(u, "KeyError") /\ "KeyError" \in Results
    BY <1>2 DEF Fetch, Results
  <2> QED BY <1>1, <2>1, DoneKept
<1>3. CASE v # Absent
  <2>1. call' = [call EXCEPT ![u] = d]
    <3>1. call' = [call EXCEPT ![u].items[1].val = v, ![u].pc = "store"]
      BY <1>3 DEF Fetch
    <3>2. DOMAIN call = Threads /\ c \in Call
      BY <1>1, ItemFacts, NowTyping DEF DictInv
    <3> QED BY <3>1, <3>2 DEF Call
  <2>2. call'[u] = d /\ DOMAIN call' = Threads /\ \A t \in Threads \ {u} : call'[t] = call[t]
    BY <2>1, Changed
  <2>3. k0 = Head(c.items).key /\ k0 \in Keys /\ c.other \in Dicts /\ ~At(u, "idle")
    BY <1>1, ItemFacts
  <2>4. /\ c \in Call /\ PlaceOK(c) /\ Distinct(c.items) /\ TrackedBy(c, seen[u])
        /\ c.items \in Seq(Entry)
    BY <2>3, NowTyping DEF Tracked, Call
  <2>5. v \in Values /\ v \in seen[u][2][k0]
    <3>1. Now(u, 2)[k0] \in seen[u][2][k0] /\ Now(u, 2) \in [Keys -> Values \cup {Absent}]
      BY <2>3, NowTyping DEF SeesNow
    <3>2. Now(u, 2) = Other(u)
      BY <1>1 DEF Now, DictsOf, Other
    <3> QED BY <1>3, <2>3, <3>1, <3>2
  <2>6. /\ DOMAIN c.items = 1..Len(c.items) /\ 1 \in DOMAIN c.items /\ Len(c.items) \in Nat
        /\ c.items[1].key = k0
        /\ \A i \in DOMAIN c.items : c.items[i] \in Entry /\ c.items[i].key \in Keys
    BY <1>1, <2>3, <2>4, ItemTyping
  <2> DEFINE s == c.items
  <2> HIDE DEF v, k0
  <2>7. /\ items \in Seq(Entry) /\ DOMAIN items = DOMAIN s
        /\ items[1].val = v /\ items # <<>>
        /\ \A i \in DOMAIN s : items[i].key = s[i].key
        /\ \A i \in DOMAIN s \ {1} : items[i] = s[i]
    <3> HIDE DEF s
    <3>1. s \in Seq(Entry) /\ 1 \in DOMAIN s
      BY <2>4, <2>6 DEF s
    <3>2. items = [s EXCEPT ![1] = [s[1] EXCEPT !.val = v]]
      BY DEF s
    <3>3. s[1] \in Entry /\ [s[1] EXCEPT !.val = v] \in Entry
          /\ [s[1] EXCEPT !.val = v].val = v /\ [s[1] EXCEPT !.val = v].key = s[1].key
      <4> DEFINE y == s[1]
      <4>1. y \in Entry
        BY <3>1
      <4> HIDE DEF y
      <4>2. [y EXCEPT !.val = v] \in Entry /\ [y EXCEPT !.val = v].val = v
            /\ [y EXCEPT !.val = v].key = y.key
        BY <2>5, <4>1 DEF Entry
      <4> QED BY <4>1, <4>2 DEF y
    <3> DEFINE x == [s[1] EXCEPT !.val = v]
    <3> HIDE DEF x, items
    <3>4. items = [s EXCEPT ![1] = x] /\ x \in Entry
      BY <3>2, <3>3 DEF x
    <3>5. items \in Seq(Entry) /\ DOMAIN items = DOMAIN s /\ items[1] = x
          /\ \A i \in DOMAIN s \ {1} : items[i] = s[i]
      BY <3>1, <3>4
    <3>6. items # <<>>
      BY <3>1, <3>5
    <3> QED BY <3>1, <3>3, <3>5, <3>6 DEF x
  <2> HIDE DEF items
  <2>8. /\ d \in Call /\ d.pc = "store" /\ d.items = items /\ d.op = "update" /\ d.self = c.self
        /\ d.other = c.other /\ d.shard = c.shard
    BY <1>1, <2>4, <2>7 DEF Call, Places
  <2> HIDE DEF d
  <2>9. CallOK(d)
    <3>1. Distinct(items)
      BY <2>4, <2>7 DEF Distinct
    <3> QED BY <1>1, <2>4, <2>7, <2>8, <3>1 DEF CallOK, PlaceOK
  <2>10. seen' \in [Threads -> Seen] /\ (\A t \in Threads : Grown(t)) /\ ~At(u, "idle")'
    BY <1>1, <2>2, <2>8, Forgotten DEF At
  <2>11. seen'[u] = seen[u]
    BY <1>1, <2>10, MapTyping DEF Forget
  <2>12. TrackedBy(d, seen'[u])
    <3>1. \A i \in DOMAIN items : items[i].val \in seen[u][2][items[i].key]
      <4>1. \A i \in DOMAIN s : s[i].val \in seen[u][2][s[i].key]
        BY <1>1, <2>4 DEF TrackedBy, Listing, Src
      <4>2. items[1].key = k0
        BY <2>6, <2>7
      <4> QED BY <2>5, <2>7, <4>1, <4>2
    <3>2. \A k \in Keys : Listed(items, k) \/ Settled(d, seen[u], k)
      <4>1. \A k \in Keys : Listed(s, k) \/ Settled(c, seen[u], k)
        BY <1>1, <2>4 DEF TrackedBy, Listing
      <4>2. \A k \in Keys : Listed(s, k) => Listed(items, k)
        BY <2>7 DEF Listed
      <4>3. \A k \in Keys : Settled(c, seen[u], k) => Settled(d, seen[u], k)
        BY <1>1, <2>8 DEF Settled, Src
      <4> QED BY <4>1, <4>2, <4>3
    <3> QED BY <2>8, <2>11, <3>1, <3>2 DEF TrackedBy, Src
  <2>13. ThreadInv(u)'
    BY <1>1, <2>2, <2>3, <2>8, <2>9, <2>10, <2>12, MapTyping, GoesOn
  <2> QED BY <1>1, <2>2, <2>10, <2>13, MapTyping DEF Kept
<1> QED BY <1>2, <1>3

\* update() stores the value (dict.py:113).
LEMMA StoreKept ==
  ASSUME DictInv, NEW u \in Threads, Store(u)
  PROVE  Kept(u)
<1> DEFINE c == call[u]
           k0 == Item(u).key
           v == Item(u).val
<1>1. c.pc = "store" /\ Assign(c.self, k0, v) /\ NextItem(u, "each") /\ Watch
  BY DEF Store, At
<1>2. ~At(u, "idle")
  BY <1>1 DEF At
<1>3. c.op = "update" /\ c.items # <<>> /\ c.self \in Dicts
  BY <1>1, <1>2, NowTyping DEF PlaceOK
<1>4. /\ k0 = Head(c.items).key /\ k0 \in Keys /\ v \in Values
      /\ v \in seen[u][2][k0]
  BY <1>1, <1>3, ItemFacts DEF Src
<1>5. map' \in Maps
  BY <1>1, <1>3, <1>4, Assigned
<1>6. /\ call'[u].op = c.op /\ call'[u].pc = "each" /\ DOMAIN call' = Threads
      /\ \A t \in Threads \ {u} : call'[t] = call[t]
  BY <1>1, <1>2, <1>3, NextItemCall
<1>7. seen' \in [Threads -> Seen] /\ \A t \in Threads : Grown(t)
  BY <1>1, <1>2, <1>5, <1>6, StaysIdle, Watched
<1>8. Settled(call'[u], seen'[u], k0)
  <2>1. ~At(u, "idle")'
    BY <1>6 DEF At
  <2>2. /\ seen'[u][1][k0] = seen[u][1][k0] \cup {map'[DictsOf(c)[1]][k0]}
        /\ seen'[u][2][k0] = seen[u][2][k0] \cup {map'[DictsOf(c)[2]][k0]}
    <3>1. Grown(u) /\ 1 \in 1..2 /\ 2 \in 1..2
      BY <1>7
    <3> HIDE DEF k0
    <3> QED BY <1>2, <1>4, <2>1, <3>1 DEF Grown
  <2>3. DictsOf(c)[1] = c.self
    BY DEF DictsOf
  <2>4. map'[c.self][k0] = v
    BY <1>1, <1>3, <1>4, MapTyping DEF Assign, Maps
  <2>5. v \in seen'[u][1][k0] /\ v \in seen'[u][2][k0]
    BY <1>4, <2>2, <2>3, <2>4
  <2> QED BY <1>3, <1>6, <2>5 DEF Settled
<1>9. ThreadInv(u)'
  BY <1>1, <1>2, <1>3, <1>4, <1>5, <1>7, <1>8, NextTracked
<1> QED BY <1>5, <1>6, <1>7, <1>9 DEF Kept

\* == goes on to the items when the lengths are equal (dict.py:53-55).
LEMMA CompareKept ==
  ASSUME DictInv, NEW u \in Threads, Compare(u)
  PROVE  Kept(u)
<1> DEFINE c == call[u]
           d == [c EXCEPT !.pc = "snapshot"]
<1>1. c.pc = "compare" /\ Forget(u) /\ UNCHANGED map /\ ~At(u, "idle")
  BY DEF Compare, At
<1>2. CASE c.count[1] # c.count[2]
  <2>1. Done(u, "False") /\ "False" \in Results
    BY <1>2 DEF Compare, Results
  <2> QED BY <1>1, <2>1, DoneKept
<1>3. CASE c.count[1] = c.count[2]
  <2>1. call' = [call EXCEPT ![u] = d]
    <3>1. call' = [call EXCEPT ![u].pc = "snapshot"]
      BY <1>3 DEF Compare
    <3> QED BY <3>1 DEF DictInv
  <2>2. call'[u] = d /\ DOMAIN call' = Threads /\ \A t \in Threads \ {u} : call'[t] = call[t]
    BY <2>1, Changed
  <2>3. /\ c \in Call /\ PlaceOK(c) /\ Distinct(c.items) /\ c.items = <<>> /\ c.shard = 1
        /\ c.op = "eq"
    BY <1>1, NowTyping DEF PlaceOK
  <2>4. /\ d \in Call /\ d.pc = "snapshot" /\ d.items = c.items /\ d.op = c.op /\ d.self = c.self
        /\ d.other = c.other /\ d.count = c.count /\ d.shard = c.shard
    BY <2>3 DEF Call, Places
  <2> HIDE DEF d
  <2>5. CallOK(d)
    BY <1>1, <2>3, <2>4 DEF CallOK, PlaceOK
  <2>6. TrackedBy(d, seen'[u])
    <3>1. \A k \in Keys : ShardOf[k] >= 1
      BY DictAssumption
    <3>2. DOMAIN d.items = {}
      BY <2>3, <2>4
    <3> QED BY <2>3, <2>4, <3>1, <3>2 DEF TrackedBy
  <2>7. seen' \in [Threads -> Seen] /\ (\A t \in Threads : Grown(t)) /\ ~At(u, "idle")'
    BY <1>1, <2>2, <2>4, Forgotten DEF At
  <2>8. Passed(d) = Passed(c)
    BY <1>1, <2>4 DEF Passed
  <2>9. ThreadInv(u)'
    BY <1>1, <1>3, <2>2, <2>4, <2>5, <2>6, <2>7, <2>8, MapTyping, GoesOn
  <2> QED BY <1>1, <2>2, <2>7, <2>9, MapTyping DEF Kept
<1> QED BY <1>2, <1>3

\* == finds the key in the other dictionary, or ends (dict.py:56).
LEMMA HasKeyKept ==
  ASSUME DictInv, NEW u \in Threads, HasKey(u)
  PROVE  Kept(u)
<1> DEFINE c == call[u]
           d == [c EXCEPT !.pc = "getitem"]
           k0 == Item(u).key
           v == Other(u)[k0]
<1>1. c.pc = "each" /\ c.op = "eq" /\ c.items # <<>> /\ Forget(u) /\ UNCHANGED map
  BY DEF HasKey, Each, At
<1>2. CASE v = Absent
  <2>1. Done(u, "False") /\ "False" \in Results
    BY <1>2 DEF HasKey, Results
  <2> QED BY <1>1, <2>1, DoneKept
<1>3. CASE v # Absent
  <2>1. call' = [call EXCEPT ![u] = d]
    <3>1. call' = [call EXCEPT ![u].pc = "getitem"]
      BY <1>3 DEF HasKey
    <3> QED BY <3>1 DEF DictInv
  <2>2. call'[u] = d /\ DOMAIN call' = Threads /\ \A t \in Threads \ {u} : call'[t] = call[t]
    BY <2>1, Changed
  <2>3. k0 = Head(c.items).key /\ k0 \in Keys /\ ~At(u, "idle")
    BY <1>1, ItemFacts
  <2>4. /\ c \in Call /\ PlaceOK(c) /\ Distinct(c.items) /\ TrackedBy(c, seen[u]) /\ Lengths(u)
    BY <2>3, NowTyping DEF Tracked
  <2>5. v \in seen[u][2][k0]
    <3>1. Now(u, 2)[k0] \in seen[u][2][k0]
      BY <2>3, NowTyping DEF SeesNow
    <3>2. Now(u, 2) = Other(u)
      BY <1>1 DEF Now, DictsOf, Other
    <3> QED BY <3>1, <3>2
  <2>6. /\ d \in Call /\ d.pc = "getitem" /\ d.items = c.items /\ d.op = c.op /\ d.self = c.self
        /\ d.other = c.other /\ d.count = c.count /\ d.shard = c.shard
    BY <2>4 DEF Call, Places
  <2> HIDE DEF d, v, k0
  <2>7. CallOK(d)
    BY <1>1, <2>4, <2>6 DEF CallOK, PlaceOK
  <2>8. seen' \in [Threads -> Seen] /\ (\A t \in Threads : Grown(t)) /\ ~At(u, "idle")'
    BY <1>1, <2>2, <2>6, Forgotten DEF At
  <2>9. seen'[u] = seen[u]
    BY <1>1, <2>8, MapTyping DEF Forget
  <2>10. TrackedBy(d, seen[u])
    <3>1. Src(d) = Src(c) /\ \A k : Settled(d, seen[u], k) <=> Settled(c, seen[u], k)
      BY <2>6 DEF Src, Settled
    <3>2. \E x \in seen[u][2][Head(d.items).key] : x # Absent
      BY <1>3, <2>3, <2>5, <2>6
    <3> QED BY <1>1, <2>4, <2>6, <3>1, <3>2 DEF TrackedBy, Listing
  <2>11. Passed(d) = Passed(c) /\ c.count[1] = c.count[2]
    BY <1>1, <2>4, <2>6 DEF Passed, Lengths, Listing
  <2>12. ThreadInv(u)'
    BY <1>1, <2>2, <2>3, <2>6, <2>7, <2>8, <2>9, <2>10, <2>11, MapTyping, GoesOn
  <2> QED BY <1>1, <2>2, <2>8, <2>12, MapTyping DEF Kept
<1> QED BY <1>2, <1>3

\* == compares the values (dict.py:57-58).
LEMMA GetItemKept ==
  ASSUME DictInv, NEW u \in Threads, GetItem(u)
  PROVE  Kept(u)
<1> DEFINE c == call[u]
           k0 == Item(u).key
           v == Other(u)[k0]
<1>1. c.pc = "getitem" /\ Forget(u) /\ UNCHANGED map /\ ~At(u, "idle")
  BY DEF GetItem, At
<1>2. c.op = "eq" /\ c.items # <<>>
  BY <1>1, NowTyping DEF PlaceOK
<1>3. CASE v = Absent \/ v # Item(u).val
  <2>1. \E r \in {"KeyError", "False"} : Done(u, r)
    <3>1. CASE v = Absent
      <4>1. v # Item(u).val
        BY <1>1, <1>2, <3>1, ItemFacts, DictAssumption
      <4>2. Done(u, "KeyError")
        BY <3>1, <4>1 DEF GetItem
      <4> QED BY <4>2
    <3>2. CASE v # Absent /\ v # Item(u).val
      <4>1. Done(u, "False")
        BY <3>2 DEF GetItem
      <4> QED BY <4>1
    <3> QED BY <1>3, <3>1, <3>2
  <2>2. {"KeyError", "False"} \subseteq Results
    BY DEF Results
  <2> QED BY <1>1, <2>1, <2>2, DoneKept
<1>4. CASE v # Absent /\ v = Item(u).val
  <2>1. NextItem(u, "each")
    BY <1>4 DEF GetItem
  <2>2. seen' \in [Threads -> Seen] /\ \A t \in Threads : Grown(t)
    BY <1>1, Forgotten
  <2>3. /\ call'[u].op = c.op /\ call'[u].pc = "each" /\ DOMAIN call' = Threads
        /\ \A t \in Threads \ {u} : call'[t] = call[t]
    BY <1>1, <1>2, <2>1, NextItemCall
  <2>4. seen'[u] = seen[u]
    BY <1>1, <2>3, MapTyping DEF Forget, At
  <2>5. k0 = Head(c.items).key /\ k0 \in Keys /\ Item(u).val \in seen[u][1][k0]
    BY <1>1, <1>2, ItemFacts DEF Src
  <2>6. v \in seen[u][2][k0]
    <3>1. Now(u, 2)[k0] \in seen[u][2][k0]
      BY <1>1, <2>5, NowTyping DEF SeesNow
    <3>2. Now(u, 2) = Other(u)
      BY <1>2 DEF Now, DictsOf, Other
    <3> QED BY <3>1, <3>2
  <2>7. Settled(call'[u], seen'[u], k0)
    BY <1>2, <1>4, <2>3, <2>4, <2>5, <2>6 DEF Settled
  <2>8. ThreadInv(u)'
    BY <1>1, <1>2, <2>1, <2>2, <2>5, <2>7, MapTyping, NextTracked
  <2> QED BY <1>1, <2>2, <2>3, <2>8, MapTyping DEF Kept
<1> QED BY <1>3, <1>4

\* A call begins by looking at its dictionaries (dict.py:51, 107, 124, 146,
\* map.rs:470).
LEMMA BeginKept ==
  ASSUME DictInv, NEW u \in Threads, NEW op \in Calls, NEW s \in Dicts, NEW e \in Dicts,
         Begin(u, op, s, e)
  PROVE  Kept(u)
<1> DEFINE d == [Ready EXCEPT !.op = op, !.self = s, !.pc = FirstStep(op),
                              !.other = IF op \in {"update", "eq"} THEN e ELSE @]
<1>1. call' = [call EXCEPT ![u] = d] /\ Look(u) /\ UNCHANGED map
  BY DEF Begin
<1>2. call'[u] = d /\ DOMAIN call' = Threads /\ \A t \in Threads \ {u} : call'[t] = call[t]
  BY <1>1, Changed
<1>3. Ready \in Call /\ Ready.items = <<>> /\ Ready.shard = 1 /\ Ready.count = <<0, 0>>
  <2>1. 1 \in 1..NShards /\ <<0, 0>> \in [1..2 -> Nat] /\ "idle" \in Places /\ "none" \in Results
    BY DictAssumption DEF Places, Results
  <2>2. <<>> \in Seq(Entry)
    OBVIOUS
  <2> QED BY <2>1, <2>2 DEF Ready, Call
<1>4. FirstStep(op) \in {"wipe", "lenSelf", "snapshot"} /\ FirstStep(op) \in Places
      /\ (FirstStep(op) = "wipe" <=> op = "clear") /\ (FirstStep(op) = "lenSelf" <=> op = "eq")
  BY DEF FirstStep, Calls, Places
<1>5. /\ d \in Call /\ d.op = op /\ d.self = s /\ d.pc = FirstStep(op) /\ d.items = <<>>
      /\ d.shard = 1 /\ d.count = <<0, 0>> /\ (op \in {"update", "eq"} => d.other = e)
  BY <1>3, <1>4 DEF Call
<1> HIDE DEF d
<1>6. CallOK(d)
  <2>1. op # "none"
    BY DEF Calls
  <2>2. PlaceOK(d)
    BY <1>4, <1>5, <2>1 DEF PlaceOK, Calls
  <2> QED BY <1>5, <2>2 DEF CallOK, Distinct
<1>7. \A i \in 1..2 : DictsOf(d)[i] \in Dicts
  BY <1>5 DEF DictsOf
<1>8. seen' \in [Threads -> Seen] /\ (\A t \in Threads \ {u} : Grown(t)) /\ SeesNow(u)'
  BY <1>1, <1>2, <1>7, Looked
<1>9. \A k \in Keys : ShardOf[k] \in 1..NShards /\ ShardOf[k] >= 1 /\ ~(ShardOf[k] < 1)
  BY DictAssumption
<1>10. TrackedBy(d, seen'[u])
  <2>1. DOMAIN d.items = {}
    BY <1>5
  <2> QED BY <1>4, <1>5, <1>9, <2>1 DEF TrackedBy, Listing
<1>11. Lengths(u)'
  <2>1. CASE op = "eq"
    <3>1. d.pc = "lenSelf" /\ Passed(d) = <<1, 1>> /\ d.pc \notin Listing
      BY <1>4, <1>5, <2>1 DEF Passed, Listing
    <3>2. \A m : Before(m, 1) = {}
      BY <1>9 DEF Before
    <3>3. \A m : Cardinality(Before(m, 1)) = 0
      BY <3>2, FS_EmptySet
    <3>4. \A i \in 1..2 : d.count[i] = 0 /\ Passed(d)[i] = 1
      BY <1>5, <3>1
    <3> QED BY <1>2, <3>1, <3>3, <3>4 DEF Lengths
  <2>2. CASE op # "eq"
    BY <1>2, <1>5, <2>2 DEF Lengths
  <2> QED BY <2>1, <2>2
<1>12. ThreadInv(u)'
  BY <1>2, <1>6, <1>8, <1>10, <1>11 DEF ThreadInv, Tracked
<1> QED BY <1>1, <1>2, <1>8, <1>12, MapTyping DEF Kept

\* Another thread sets or removes a key.
LEMMA ChangeKept ==
  ASSUME DictInv, NEW d \in Dicts, NEW k \in Keys, NEW v \in Values \cup {Absent}, Change(d, k, v)
  PROVE  DictInv'
<1>1. Assign(d, k, v) /\ UNCHANGED call /\ Watch
  BY DEF Change
<1>2. map' \in Maps
  BY <1>1, Assigned
<1>3. seen' \in [Threads -> Seen] /\ \A t \in Threads : Grown(t)
  BY <1>1, <1>2, Watched DEF At
<1>4. \A t \in Threads : ThreadInv(t)'
  BY <1>1, <1>2, <1>3, OtherCall DEF Maps
<1> QED BY <1>1, <1>2, <1>3, <1>4 DEF DictInv, Maps, Seen

-----------------------------------------------------------------------------
(* The steps from shard to shard. *)

\* One shard more has the entries of that shard more.
LEMMA BeforeNext ==
  ASSUME NEW m, NEW s \in 1..NShards
  PROVE  Cardinality(Before(m, s + 1)) = Cardinality(Before(m, s)) + Cardinality(KeysIn(m, s))
<1> DEFINE A == Before(m, s)
           B == KeysIn(m, s)
<1>1. \A k \in Keys : ShardOf[k] \in 1..NShards
  BY DictAssumption
<1>2. s \in Nat /\ \A k \in Keys : ShardOf[k] < s + 1 <=> ShardOf[k] < s \/ ShardOf[k] = s
  BY <1>1, DictAssumption
<1>3. Before(m, s + 1) = A \cup B
  BY <1>2 DEF Before, KeysIn
<1>4. A \cap B = {}
  BY <1>1, <1>2 DEF Before, KeysIn
<1>5. A \in SUBSET Keys /\ B \in SUBSET Keys
  BY DEF Before, KeysIn
<1>6. IsFiniteSet(A) /\ IsFiniteSet(B)
  BY <1>5, FS_Subset, DictAssumption
<1> HIDE DEF A, B
<1>7. Cardinality(A \cup B) = Cardinality(A) + Cardinality(B) - Cardinality(A \cap B)
  BY <1>6, FS_Union
<1>8. Cardinality(A \cap B) = 0 /\ Cardinality(A) \in Nat /\ Cardinality(B) \in Nat
  BY <1>4, <1>6, FS_EmptySet, FS_CardinalityType
<1>9. Cardinality(A \cup B) = Cardinality(A) + Cardinality(B)
  BY <1>7, <1>8
<1> QED BY <1>3, <1>9 DEF A, B

\* len() counts the entries of one shard (dict.py:53, map.rs:476-479).
LEMMA CountKept ==
  ASSUME DictInv, NEW u \in Threads, NEW i \in 1..2, NEW pc, NEW next,
         \/ i = 1 /\ pc = "lenSelf" /\ next = "lenOther"
         \/ i = 2 /\ pc = "lenOther" /\ next = "compare",
         Count(u, pc, i, Now(u, i), next)
  PROVE  Kept(u)
<1> DEFINE c == call[u]
           s == call[u].shard
           n == Cardinality(KeysIn(Now(u, i), s))
           b == [c EXCEPT !.count[i] = @ + n]
           d == NextShard(u, b, next)
<1>1. /\ c.pc = pc /\ ~At(u, "idle") /\ call' = [call EXCEPT ![u] = d]
      /\ Forget(u) /\ UNCHANGED map
  <2>1. c.pc = pc /\ Forget(u) /\ UNCHANGED map
    BY DEF Count, At
  <2>2. ~At(u, "idle")
    BY <2>1 DEF At
  <2>3. call' = [call EXCEPT ![u] = d]
    BY DEF Count
  <2> QED BY <2>1, <2>2, <2>3
<1>2. call'[u] = d /\ DOMAIN call' = Threads /\ \A t \in Threads \ {u} : call'[t] = call[t]
  BY <1>1, Changed
<1>3. /\ c \in Call /\ PlaceOK(c) /\ Distinct(c.items) /\ Lengths(u)
  BY <1>1, NowTyping
<1>4. n \in Nat
  <2>1. KeysIn(Now(u, i), s) \in SUBSET Keys
    BY DEF KeysIn
  <2> QED BY <2>1, FS_Subset, FS_CardinalityType, DictAssumption
<1>5. s \in 1..NShards /\ NShards \in Nat /\ NShards >= 1
  BY <1>3, DictAssumption DEF Call
<1> HIDE DEF n
<1>6. /\ b \in Call /\ b.pc = c.pc /\ b.op = c.op /\ b.self = c.self /\ b.other = c.other
      /\ b.items = c.items /\ b.shard = s /\ b.count[i] = c.count[i] + n
      /\ \A j \in 1..2 \ {i} : b.count[j] = c.count[j]
  <2>1. c.count \in [1..2 -> Nat]
    BY <1>3 DEF Call
  <2> DEFINE x == [c.count EXCEPT ![i] = @ + n]
  <2>2. x \in [1..2 -> Nat] /\ x[i] = c.count[i] + n /\ \A j \in 1..2 \ {i} : x[j] = c.count[j]
    BY <1>4, <2>1
  <2>3. b = [c EXCEPT !.count = x]
    BY <1>3, <2>1 DEF Call
  <2> HIDE DEF x, b
  <2>4. /\ b \in Call /\ b.pc = c.pc /\ b.op = c.op /\ b.self = c.self /\ b.other = c.other
        /\ b.items = c.items /\ b.shard = s /\ b.count = x
    BY <1>3, <2>2, <2>3 DEF Call
  <2> QED BY <2>2, <2>4
<1> HIDE DEF b
<1>7. /\ d \in Call /\ d.op = c.op /\ d.self = c.self /\ d.other = c.other /\ d.items = c.items
      /\ d.count = b.count
      /\ \/ s < NShards /\ d.shard = s + 1 /\ d.pc = pc
         \/ s = NShards /\ d.shard = 1 /\ d.pc = next
  <2>1. CASE s < NShards
    <3>1. d = [b EXCEPT !.shard = @ + 1] /\ s + 1 \in 1..NShards
      BY <1>5, <2>1 DEF NextShard
    <3> HIDE DEF d
    <3> QED BY <1>1, <1>6, <2>1, <3>1 DEF Call
  <2>2. CASE ~(s < NShards)
    <3>1. d = [b EXCEPT !.shard = 1, !.pc = next] /\ s = NShards /\ 1 \in 1..NShards
      BY <1>5, <2>2 DEF NextShard
    <3>2. next \in Places
      BY DEF Places
    <3> HIDE DEF d
    <3> QED BY <1>6, <3>1, <3>2 DEF Call
  <2> QED BY <2>1, <2>2
<1> HIDE DEF d
<1>8. c.op = "eq" /\ c.items = <<>>
  BY <1>1, <1>3 DEF PlaceOK
<1>9. CallOK(d) /\ d.pc \in {"lenSelf", "lenOther", "compare"}
  BY <1>1, <1>3, <1>7, <1>8 DEF CallOK, PlaceOK
<1>10. seen' \in [Threads -> Seen] /\ (\A t \in Threads : Grown(t)) /\ ~At(u, "idle")'
  BY <1>1, <1>2, <1>9, Forgotten DEF At
<1>11. DictsOf(call'[u]) = DictsOf(call[u])
  BY <1>2, <1>7 DEF DictsOf
<1>12. SeesNow(u)'
  BY <1>1, <1>10, <1>11, GrownSees
<1>13. TrackedBy(d, seen'[u])
  BY <1>9 DEF TrackedBy, Listing
<1>14. /\ Passed(c)[i] = s /\ Passed(d)[i] = s + 1
       /\ \A j \in 1..2 \ {i} : Passed(d)[j] = Passed(c)[j]
  BY <1>1, <1>5, <1>7 DEF Passed
<1>15. ASSUME NEW j \in 1..2, Steady(u, j)'
       PROVE  d.count[j] = Cardinality(Before(Now(u, j)', Passed(d)[j]))
  <2>1. Steady(u, j) /\ Now(u, j)' = Now(u, j)
    BY <1>1, <1>10, <1>11, <1>15, MapTyping, SteadyBefore DEF Maps
  <2>2. c.count[j] = Cardinality(Before(Now(u, j), Passed(c)[j]))
    BY <1>3, <1>8, <2>1 DEF Lengths
  <2>3. CASE j = i
    <3>1. Cardinality(Before(Now(u, i), s + 1)) = Cardinality(Before(Now(u, i), s)) + n
      BY <1>5, BeforeNext DEF n
    <3> QED BY <1>6, <1>7, <1>14, <2>1, <2>2, <2>3, <3>1
  <2>4. CASE j # i
    BY <1>6, <1>7, <1>14, <2>1, <2>2, <2>4
  <2> QED BY <2>3, <2>4
<1>16. Lengths(u)'
  BY <1>2, <1>9, <1>15 DEF Lengths, Listing
<1>17. ThreadInv(u)'
  BY <1>2, <1>9, <1>12, <1>13, <1>16 DEF ThreadInv, Tracked
<1> QED BY <1>1, <1>2, <1>10, <1>17, MapTyping DEF Kept

\* An order of the keys of a shard has each of them once.
LEMMA OrderedKeys ==
  ASSUME NEW S \in SUBSET Keys, NEW ks \in SetToSeqs(S)
  PROVE  /\ ks \in Seq(S) /\ \A i, j \in DOMAIN ks : ks[i] = ks[j] => i = j
         /\ \A k \in S : \E i \in DOMAIN ks : ks[i] = k
<1> DEFINE n == Cardinality(S)
<1>1. IsFiniteSet(S) /\ n \in Nat
  BY FS_Subset, FS_CardinalityType, DictAssumption
<1>2. ks \in [1..n -> S] /\ \A i, j \in 1..n : i # j => ks[i] # ks[j]
  BY DEF SetToSeqs
<1>3. IsFiniteSet(1..n) /\ Cardinality(1..n) = n
  <2>1. Cardinality(1..n) = IF 1 > n THEN 0 ELSE n - 1 + 1
    BY <1>1, FS_Interval
  <2>2. IsFiniteSet(1..n)
    BY <1>1, FS_Interval
  <2> QED BY <1>1, <2>1, <2>2
<1> HIDE DEF n
<1>4. ks \in Injection(1..n, S)
  BY <1>2, Fun_IsInj
<1>5. ks \in Surjection(1..n, S)
  <2>1. Cardinality(1..n) = Cardinality(S)
    BY <1>3 DEF n
  <2> QED BY <1>1, <1>4, <2>1, FS_Injection
<1>6. \A k \in S : \E i \in 1..n : ks[i] = k
  <2> DEFINE D == 1..n
  <2>1. ks \in Surjection(D, S)
    BY <1>5
  <2> HIDE DEF D
  <2>2. \A k \in S : \E i \in D : ks[i] = k
    BY <2>1, Fun_SurjectionProperties
  <2> QED BY <2>2 DEF D
<1>7. ks \in Seq(S)
  BY <1>1, <1>2
<1> QED BY <1>2, <1>6, <1>7

\* The items of a shard are added to the others.
LEMMA MoreItems ==
  ASSUME NEW s \in Seq(Entry), NEW z \in Seq(Entry), Distinct(s), Distinct(z),
         \A i \in DOMAIN s, j \in DOMAIN z : s[i].key # z[j].key
  PROVE  /\ s \o z \in Seq(Entry) /\ Distinct(s \o z)
         /\ \A i \in DOMAIN (s \o z) :
              \/ \E j \in DOMAIN s : (s \o z)[i] = s[j]
              \/ \E j \in DOMAIN z : (s \o z)[i] = z[j]
         /\ \A k : Listed(s, k) \/ Listed(z, k) => Listed(s \o z, k)
<1> DEFINE w == s \o z
<1>1. /\ w \in Seq(Entry) /\ Len(w) = Len(s) + Len(z)
      /\ \A i \in 1..(Len(s) + Len(z)) : w[i] = IF i <= Len(s) THEN s[i] ELSE z[i - Len(s)]
  BY ConcatProperties
<1>2. /\ Len(s) \in Nat /\ Len(z) \in Nat /\ DOMAIN s = 1..Len(s) /\ DOMAIN z = 1..Len(z)
      /\ DOMAIN w = 1..(Len(s) + Len(z))
  BY <1>1
<1> HIDE DEF w
<1>3. \A i \in DOMAIN s : i \in DOMAIN w /\ w[i] = s[i]
  BY <1>1, <1>2
<1>4. \A j \in DOMAIN z : j + Len(s) \in DOMAIN w /\ w[j + Len(s)] = z[j]
  <2> SUFFICES ASSUME NEW j \in DOMAIN z
               PROVE  j + Len(s) \in DOMAIN w /\ w[j + Len(s)] = z[j]
    OBVIOUS
  <2>1. j + Len(s) \in 1..(Len(s) + Len(z)) /\ ~(j + Len(s) <= Len(s)) /\ j + Len(s) - Len(s) = j
    BY <1>2
  <2>2. w[j + Len(s)] = z[j + Len(s) - Len(s)]
    BY <1>1, <2>1
  <2> QED BY <1>2, <2>1, <2>2
<1>5. \A i \in DOMAIN w :
        \/ i \in DOMAIN s /\ w[i] = s[i]
        \/ i - Len(s) \in DOMAIN z /\ w[i] = z[i - Len(s)]
  BY <1>1, <1>2
<1>6. Distinct(w)
  <2> SUFFICES ASSUME NEW i \in DOMAIN w, NEW j \in DOMAIN w, w[i].key = w[j].key PROVE i = j
    BY DEF Distinct
  <2>1. CASE i \in DOMAIN s /\ w[i] = s[i]
    BY <1>5, <2>1 DEF Distinct
  <2>2. CASE i - Len(s) \in DOMAIN z /\ w[i] = z[i - Len(s)]
    <3>1. j - Len(s) \in DOMAIN z /\ w[j] = z[j - Len(s)]
      BY <1>5, <2>2
    <3>2. i - Len(s) = j - Len(s)
      BY <2>2, <3>1 DEF Distinct
    <3> QED BY <1>2, <3>2
  <2> QED BY <1>5, <2>1, <2>2
<1>7. ASSUME NEW k, Listed(s, k) \/ Listed(z, k) PROVE Listed(w, k)
  BY <1>3, <1>4, <1>7 DEF Listed
<1> QED BY <1>1, <1>5, <1>6, <1>7 DEF w

\* A snapshot gets the entries of one shard (map.rs:495-520, dict.py:55,
\* 108-113, 136).
LEMMA SnapshotKept ==
  ASSUME DictInv, NEW u \in Threads, Snapshot(u)
  PROVE  Kept(u)
<1> DEFINE c == call[u]
           s == call[u].shard
           m == IF call[u].op = "update" THEN Other(u) ELSE Self(u)
           S == KeysIn(m, s)
<1>1. c.pc = "snapshot" /\ ~At(u, "idle") /\ Forget(u) /\ UNCHANGED map
  BY DEF Snapshot, At
<1>2. PICK ks \in SetToSeqs(S) :
        LET new == [i \in DOMAIN ks |-> [key |-> ks[i], val |-> m[ks[i]]]] IN
        call' = [call EXCEPT ![u] = NextShard(u, [call[u] EXCEPT !.items = @ \o new], "each")]
  BY DEF Snapshot
<1> DEFINE new == [i \in DOMAIN ks |-> [key |-> ks[i], val |-> m[ks[i]]]]
           all == c.items \o new
           b == [c EXCEPT !.items = all]
           d == NextShard(u, b, "each")
<1>3. call'[u] = d /\ DOMAIN call' = Threads /\ \A t \in Threads \ {u} : call'[t] = call[t]
  <2>1. call' = [call EXCEPT ![u] = d]
    BY <1>2
  <2> QED BY <2>1, Changed
<1>4. /\ c \in Call /\ PlaceOK(c) /\ Distinct(c.items) /\ c.items \in Seq(Entry)
      /\ TrackedBy(c, seen[u]) /\ Lengths(u) /\ SeesNow(u)
      /\ Now(u, Src(c)) \in [Keys -> Values \cup {Absent}] /\ Src(c) \in 1..2
  BY <1>1, NowTyping DEF Tracked, Call, Src
<1>5. s \in 1..NShards /\ NShards \in Nat /\ NShards >= 1
  BY <1>4, DictAssumption DEF Call
<1>6. m = Now(u, Src(c)) /\ m \in [Keys -> Values \cup {Absent}]
      /\ \A k \in Keys : m[k] \in seen[u][Src(c)][k]
  <2>1. c.op \in {"popitem", "copy", "update", "eq"}
    BY <1>1, <1>4 DEF PlaceOK
  <2>2. m = Now(u, Src(c))
    BY <2>1 DEF Now, Src, DictsOf, Self, Other
  <2> QED BY <1>4, <2>2 DEF SeesNow
<1> HIDE DEF m
<1>7. S \in SUBSET Keys /\ \A k \in S : ShardOf[k] = s /\ m[k] \in Values
  BY <1>6 DEF KeysIn
<1>8. \A k \in Keys \ S : ShardOf[k] = s => m[k] = Absent
  BY DEF KeysIn
<1> HIDE DEF S
<1>9. /\ ks \in Seq(S) /\ (\A i, j \in DOMAIN ks : ks[i] = ks[j] => i = j)
      /\ \A k \in S : \E i \in DOMAIN ks : ks[i] = k
  BY <1>2, <1>7, OrderedKeys
<1>10. /\ new \in Seq(Entry) /\ DOMAIN new = DOMAIN ks
       /\ \A i \in DOMAIN new : new[i].key = ks[i] /\ new[i].val = m[ks[i]] /\ ks[i] \in S
  <2>1. Len(ks) \in Nat /\ DOMAIN ks = 1..Len(ks) /\ \A i \in 1..Len(ks) : ks[i] \in S
    BY <1>9
  <2>2. \A i \in 1..Len(ks) : [key |-> ks[i], val |-> m[ks[i]]] \in Entry
    BY <1>7, <2>1 DEF Entry
  <2>3. new \in [1..Len(ks) -> Entry]
    BY <2>1, <2>2
  <2>4. new \in Seq(Entry)
    BY <2>1, <2>3
  <2> QED BY <2>1, <2>4
<1> HIDE DEF new
<1>11. Distinct(new) /\ \A k \in S : Listed(new, k)
  BY <1>9, <1>10 DEF Distinct, Listed
<1>12. \A i \in DOMAIN c.items, j \in DOMAIN new : c.items[i].key # new[j].key
  <2> SUFFICES ASSUME NEW i \in DOMAIN c.items, NEW j \in DOMAIN new
               PROVE  c.items[i].key # new[j].key
    OBVIOUS
  <2>1. ShardOf[c.items[i].key] < s /\ c.items[i].key \in Keys
    BY <1>1, <1>4, ItemTyping DEF TrackedBy
  <2>2. ShardOf[new[j].key] = s
    BY <1>7, <1>10
  <2> QED BY <1>5, <2>1, <2>2
<1>13. /\ all \in Seq(Entry) /\ Distinct(all)
       /\ \A i \in DOMAIN all :
            (\E j \in DOMAIN c.items : all[i] = c.items[j]) \/ (\E j \in DOMAIN new : all[i] = new[j])
       /\ \A k : Listed(c.items, k) \/ Listed(new, k) => Listed(all, k)
  <2> DEFINE x == c.items
  <2>1. x \in Seq(Entry) /\ Distinct(x) /\ \A i \in DOMAIN x, j \in DOMAIN new : x[i].key # new[j].key
    BY <1>4, <1>12
  <2> HIDE DEF x
  <2> DEFINE w == x \o new
  <2>2. /\ w \in Seq(Entry) /\ Distinct(w)
        /\ \A i \in DOMAIN w :
             (\E j \in DOMAIN x : w[i] = x[j]) \/ (\E j \in DOMAIN new : w[i] = new[j])
        /\ \A k : Listed(x, k) \/ Listed(new, k) => Listed(w, k)
    BY <1>10, <1>11, <2>1, MoreItems
  <2>3. w = all
    BY DEF x
  <2> HIDE DEF w, all
  <2> QED BY <2>2, <2>3 DEF x
<1> HIDE DEF all
<1>14. b \in Call /\ b.pc = c.pc /\ b.op = c.op /\ b.self = c.self /\ b.other = c.other
       /\ b.items = all /\ b.shard = s /\ b.count = c.count
  BY <1>4, <1>13 DEF Call
<1> HIDE DEF b
<1>15. /\ d \in Call /\ d.op = c.op /\ d.self = c.self /\ d.other = c.other /\ d.items = all
       /\ d.count = c.count
       /\ \/ s < NShards /\ d.shard = s + 1 /\ d.pc = "snapshot"
          \/ s = NShards /\ d.shard = 1 /\ d.pc = "each"
  <2>1. CASE s < NShards
    <3>1. d = [b EXCEPT !.shard = @ + 1] /\ s + 1 \in 1..NShards
      BY <1>5, <2>1 DEF NextShard
    <3> HIDE DEF d
    <3> QED BY <1>1, <1>14, <2>1, <3>1 DEF Call
  <2>2. CASE ~(s < NShards)
    <3>1. d = [b EXCEPT !.shard = 1, !.pc = "each"] /\ s = NShards /\ 1 \in 1..NShards
      BY <1>5, <2>2 DEF NextShard
    <3>2. "each" \in Places
      BY DEF Places
    <3> HIDE DEF d
    <3> QED BY <1>14, <3>1, <3>2 DEF Call
  <2> QED BY <2>1, <2>2
<1> HIDE DEF d
<1>16. CallOK(d)
  BY <1>1, <1>4, <1>13, <1>15 DEF CallOK, PlaceOK
<1>17. seen' \in [Threads -> Seen] /\ (\A t \in Threads : Grown(t)) /\ ~At(u, "idle")'
  BY <1>1, <1>3, <1>15, Forgotten DEF At
<1>18. seen'[u] = seen[u]
  BY <1>1, <1>17, MapTyping DEF Forget
<1>19. TrackedBy(d, seen[u])
  <2>1. Src(d) = Src(c) /\ \A k : Settled(d, seen[u], k) <=> Settled(c, seen[u], k)
    BY <1>15 DEF Src, Settled
  <2>2. ASSUME NEW i \in DOMAIN all
        PROVE  all[i].val \in seen[u][Src(c)][all[i].key] /\ ShardOf[all[i].key] < s + 1
    <3>1. CASE \E j \in DOMAIN c.items : all[i] = c.items[j]
      <4>1. PICK j \in DOMAIN c.items : all[i] = c.items[j]
        BY <3>1
      <4>2. /\ c.items[j].val \in seen[u][Src(c)][c.items[j].key]
            /\ ShardOf[c.items[j].key] < s /\ c.items[j].key \in Keys
        BY <1>1, <1>4, ItemTyping DEF TrackedBy, Listing
      <4>3. ShardOf[c.items[j].key] \in 1..NShards
        BY <4>2, DictAssumption
      <4> QED BY <1>5, <4>1, <4>2, <4>3
    <3>2. CASE \E j \in DOMAIN new : all[i] = new[j]
      <4>1. PICK j \in DOMAIN new : all[i] = new[j]
        BY <3>2
      <4> QED BY <1>5, <1>6, <1>7, <1>10, <4>1
    <3> QED BY <1>13, <3>1, <3>2
  <2>3. ASSUME NEW k \in Keys
        PROVE  ShardOf[k] >= s + 1 \/ Listed(all, k) \/ Settled(c, seen[u], k)
    <3>1. ShardOf[k] \in 1..NShards
      BY DictAssumption
    <3>2. ShardOf[k] >= s \/ Listed(c.items, k) \/ Settled(c, seen[u], k)
      BY <1>1, <1>4 DEF TrackedBy, Listing
    <3>3. CASE ShardOf[k] = s
      <4>1. CASE k \in S
        BY <1>11, <1>13, <4>1
      <4>2. CASE k \notin S
        BY <1>6, <1>8, <3>3, <4>2 DEF Settled
      <4> QED BY <4>1, <4>2
    <3>4. CASE Listed(c.items, k)
      BY <1>13, <3>4
    <3> QED BY <1>5, <3>1, <3>2, <3>3, <3>4
  <2>4. \A k \in Keys : ShardOf[k] \in 1..NShards /\ ~(ShardOf[k] >= NShards + 1)
    BY <1>5, DictAssumption
  <2>5. d.pc = "snapshot" => \A i \in DOMAIN d.items : ShardOf[d.items[i].key] < d.shard
    BY <1>15, <2>2
  <2>6. \A i \in DOMAIN d.items : d.items[i].val \in seen[u][Src(d)][d.items[i].key]
    BY <1>15, <2>1, <2>2
  <2>7. \A k \in Keys : \/ d.pc = "snapshot" /\ ShardOf[k] >= d.shard
                        \/ Listed(d.items, k) \/ Settled(d, seen[u], k)
    BY <1>15, <2>1, <2>3, <2>4
  <2> QED BY <1>15, <2>5, <2>6, <2>7 DEF TrackedBy
<1>20. c.op = "eq" => Passed(d) = Passed(c) /\ c.count[1] = c.count[2]
  BY <1>1, <1>4, <1>15 DEF Passed, Lengths, Listing
<1>21. ThreadInv(u)'
  BY <1>1, <1>3, <1>15, <1>16, <1>17, <1>18, <1>19, <1>20, MapTyping, GoesOn
<1> QED BY <1>1, <1>3, <1>17, <1>21, MapTyping DEF Kept

-----------------------------------------------------------------------------
(* The invariant holds. *)

LEMMA InitDict == Init => DictInv
<1> SUFFICES ASSUME Init PROVE DictInv
  OBVIOUS
<1>1. Ready \in Call /\ Ready.pc = "idle" /\ Ready.op = "none" /\ Ready.items = <<>>
  <2>1. 1 \in 1..NShards /\ <<0, 0>> \in [1..2 -> Nat] /\ "idle" \in Places /\ "none" \in Results
    BY DictAssumption DEF Places, Results
  <2>2. <<>> \in Seq(Entry)
    OBVIOUS
  <2> QED BY <2>1, <2>2 DEF Ready, Call
<1>2. CallOK(Ready)
  BY <1>1 DEF CallOK, PlaceOK, Distinct
<1>3. \A t \in Threads : ThreadInv(t)
  BY <1>1, <1>2 DEF Init, ThreadInv, At
<1>4. seen \in [Threads -> Seen]
  BY UnwatchedTyping DEF Init
<1> QED BY <1>3, <1>4 DEF Init, DictInv, Seen

LEMMA StepKept ==
  ASSUME DictInv, NEW u \in Threads, Step(u)
  PROVE  Kept(u)
<1>1. ASSUME LenSelf(u) PROVE Kept(u)
  <2>1. Self(u) = Now(u, 1)
    BY DEF Self, Now, DictsOf
  <2>2. Count(u, "lenSelf", 1, Now(u, 1), "lenOther") /\ 1 \in 1..2
    BY <1>1, <2>1 DEF LenSelf
  <2> QED BY <2>2, CountKept
<1>2. ASSUME LenOther(u) PROVE Kept(u)
  <2>1. call[u].pc = "lenOther"
    BY <1>2 DEF LenOther, Count, At
  <2>2. call[u].op = "eq"
    BY <2>1, NowTyping DEF At, PlaceOK
  <2>3. Other(u) = Now(u, 2)
    BY <2>2 DEF Other, Now, DictsOf
  <2>4. Count(u, "lenOther", 2, Now(u, 2), "compare") /\ 2 \in 1..2
    BY <1>2, <2>3 DEF LenOther
  <2> QED BY <2>4, CountKept
<1> QED BY <1>1, <1>2, SnapshotKept, WipeKept, EachEndKept, PopTakeKept, PopSkipKept, FetchKept,
        StoreKept, CompareKept, HasKeyKept, GetItemKept DEF Step

LEMMA NextDict == DictInv /\ [Next]_vars => DictInv'
<1> SUFFICES ASSUME DictInv, [Next]_vars PROVE DictInv'
  OBVIOUS
<1>1. CASE UNCHANGED vars
  BY <1>1 DEF vars, DictInv, ThreadInv, CallOK, SeesNow, Now, Tracked, Lengths, Steady, At
<1>2. ASSUME NEW t \in Threads, NEW op \in Calls, NEW d \in Dicts, NEW e \in Dicts,
             Begin(t, op, d, e)
      PROVE  DictInv'
  BY <1>2, BeginKept, KeptInv
<1>3. ASSUME NEW t \in Threads, Step(t) PROVE DictInv'
  BY <1>3, StepKept, KeptInv
<1> QED BY <1>1, <1>2, <1>3, ChangeKept DEF Next

LEMMA DictInvariance == Spec => []DictInv
BY InitDict, NextDict, PTL DEF Spec

\* The variables keep their types, and a snapshot of a map in which a key has one
\* entry has it once, however many threads set, remove, clear and copy
\* (map.rs:507-520, dict.py:51-151).
THEOREM TypeCorrect == Spec => []TypeOK
<1>1. DictInv => TypeOK
  <2> SUFFICES ASSUME DictInv, NEW t \in Threads
               PROVE  /\ call[t].items \in Seq(Entry) /\ Distinct(call[t].items)
                      /\ call[t].shard \in 1..NShards
    BY DEF TypeOK, DictInv, Distinct, Entry
  <2>1. CallOK(call[t])
    BY DEF DictInv, ThreadInv
  <2> QED BY <2>1 DEF CallOK, Call
<1> QED BY <1>1, DictInvariance, PTL

-----------------------------------------------------------------------------
(* What the calls return. *)

\* Only a step of its own thread changes a call that runs.
LEMMA OwnStep ==
  ASSUME DictInv, [Next]_vars, NEW t \in Threads, ~At(t, "idle"), call'[t] # call[t]
  PROVE  Step(t)
<1>1. CASE UNCHANGED vars
  BY <1>1 DEF vars
<1>2. ASSUME NEW d \in Dicts, NEW k \in Keys, NEW v \in Values \cup {Absent}, Change(d, k, v)
      PROVE  FALSE
  BY <1>2 DEF Change
<1>3. ASSUME NEW u \in Threads, NEW op \in Calls, NEW d \in Dicts, NEW e \in Dicts,
             Begin(u, op, d, e)
      PROVE  FALSE
  <2>1. At(u, "idle") /\ \A w \in Threads \ {u} : call'[w] = call[w]
    BY <1>3, BeginKept DEF Begin, Kept
  <2> QED BY <2>1
<1>4. ASSUME NEW u \in Threads, Step(u) PROVE u = t
  <2>1. \A w \in Threads \ {u} : call'[w] = call[w]
    BY <1>4, StepKept DEF Kept
  <2> QED BY <2>1
<1> QED BY <1>1, <1>2, <1>3, <1>4 DEF Next

\* Going to another shard or item does not return.
LEMMA ShardsGoOn ==
  ASSUME DictInv, NEW t \in Threads,
         Snapshot(t) \/ LenSelf(t) \/ LenOther(t) \/ PopSkip(t) \/ Store(t)
  PROVE  ~At(t, "idle")'
<1>1. ASSUME NEW b, NEW pc \in {"each", "lenOther", "compare"}, b.pc = call[t].pc,
             call[t].pc # "idle", DOMAIN b = DOMAIN Ready,
             call' = [call EXCEPT ![t] = NextShard(t, b, pc)]
      PROVE  ~At(t, "idle")'
  <2>1. call'[t] = NextShard(t, b, pc)
    BY <1>1, Changed
  <2>2. "pc" \in DOMAIN b
    BY <1>1 DEF Ready
  <2>3. CASE call[t].shard < NShards
    <3>1. call'[t] = [b EXCEPT !.shard = @ + 1]
      BY <2>1, <2>3 DEF NextShard
    <3>2. call'[t].pc = b.pc
      BY <3>1, <2>2
    <3> QED BY <1>1, <3>2 DEF At
  <2>4. CASE ~(call[t].shard < NShards)
    <3>1. call'[t] = [b EXCEPT !.shard = 1, !.pc = pc]
      BY <2>1, <2>4 DEF NextShard
    <3>2. call'[t].pc = pc
      BY <3>1, <2>2
    <3>3. pc # "idle"
      BY <1>1
    <3> QED BY <3>2, <3>3 DEF At
  <2> QED BY <2>3, <2>4
<1>2. call[t] \in Call
  BY DEF DictInv, ThreadInv, CallOK
<1>3. ASSUME NEW pc, NEW i, NEW m, NEW next \in {"each", "lenOther", "compare"},
             pc # "idle", Count(t, pc, i, m, next)
      PROVE  ~At(t, "idle")'
  <2> DEFINE b == [call[t] EXCEPT !.count[i] = @ + Cardinality(KeysIn(m, call[t].shard))]
  <2>1. call' = [call EXCEPT ![t] = NextShard(t, b, next)] /\ call[t].pc = pc
    BY <1>3 DEF Count, At
  <2>2. DOMAIN b = DOMAIN Ready /\ b.pc = call[t].pc
    BY <1>2 DEF Call, Ready
  <2> QED BY <1>1, <1>3, <2>1, <2>2
<1>4. CASE Snapshot(t)
  <2>1. PICK z : call' = [call EXCEPT ![t] = NextShard(t, [call[t] EXCEPT !.items = @ \o z], "each")]
    BY <1>4 DEF Snapshot
  <2> DEFINE b == [call[t] EXCEPT !.items = @ \o z]
  <2>2. DOMAIN b = DOMAIN Ready /\ b.pc = call[t].pc
    BY <1>2 DEF Call, Ready
  <2>3. call[t].pc = "snapshot"
    BY <1>4 DEF Snapshot, At
  <2> QED BY <1>1, <2>1, <2>2, <2>3
<1>5. ASSUME NEW pc \in {"each", "snapshot"}, NextItem(t, pc) PROVE ~At(t, "idle")'
  BY <1>2, <1>5 DEF NextItem, At, DictInv, Call
<1>6. CASE PopSkip(t) \/ Store(t)
  BY <1>5, <1>6 DEF PopSkip, Store
<1> QED BY <1>3, <1>4, <1>6 DEF LenSelf, LenOther

\* What each return says about the dictionaries and the call.
LEMMA Returning ==
  ASSUME DictInv, [Next]_vars, NEW t \in Threads, NEW r, Returns(t, r)
  PROVE  \/ r = "cleared" /\ Wipe(t) /\ call[t].shard = NShards
         \/ /\ EachEnd(t)
            /\ \/ call[t].op = "copy" /\ r = "items" /\ call'[t].items = call[t].items
               \/ call[t].op = "popitem" /\ r = "KeyError" /\ call[t].items = <<>>
               \/ call[t].op = "update" /\ r = "updated" /\ call[t].items = <<>>
               \/ call[t].op = "eq" /\ r = "True" /\ call[t].items = <<>>
         \/ r = "pair" /\ PopTake(t)
         \/ r = "KeyError" /\ Fetch(t) /\ Other(t)[Item(t).key] = Absent
         \/ r = "KeyError" /\ GetItem(t) /\ Other(t)[Item(t).key] = Absent
         \/ r = "False" /\ Compare(t) /\ call[t].count[1] # call[t].count[2]
         \/ r = "False" /\ HasKey(t) /\ Other(t)[Item(t).key] = Absent
         \/ r = "False" /\ GetItem(t) /\ Other(t)[Item(t).key] # Item(t).val
<1>1. ~At(t, "idle") /\ At(t, "idle")' /\ call'[t].result = r
  BY DEF Returns
<1>2. Step(t)
  BY <1>1, OwnStep DEF At
<1>3. ~(Snapshot(t) \/ LenSelf(t) \/ LenOther(t) \/ PopSkip(t) \/ Store(t))
  BY <1>1, ShardsGoOn
<1>4. call[t] \in Call /\ PlaceOK(call[t])
  BY <1>1, NowTyping
<1>5. ASSUME NEW p \in Results, Done(t, p) PROVE r = p /\ call'[t].items = <<>>
  BY <1>1, <1>5, DoneReturned
<1>6. ASSUME NEW pc, pc # "idle", call' = [call EXCEPT ![t].pc = pc] PROVE FALSE
  BY <1>1, <1>4, <1>6 DEF At, DictInv, Call
<1> USE DEF Results
<1>7. CASE Wipe(t)
  <2>1. ~(call[t].shard < NShards)
    <3> SUFFICES ASSUME call[t].shard < NShards PROVE FALSE
      OBVIOUS
    <3>1. call' = [call EXCEPT ![t].shard = @ + 1]
      BY <1>7 DEF Wipe
    <3>2. call'[t].pc = call[t].pc
      BY <1>4, <3>1 DEF DictInv, Call
    <3> QED BY <1>1, <3>2 DEF At
  <2>2. Done(t, "cleared")
    BY <1>7, <2>1 DEF Wipe
  <2>3. call[t].shard = NShards
    BY <1>4, <2>1, DictAssumption DEF Call
  <2> QED BY <1>5, <1>7, <2>2, <2>3
<1>8. CASE EachEnd(t)
  <2>1. call[t].pc = "each" /\ call[t].op \in {"popitem", "copy", "update", "eq"}
    BY <1>4, <1>8 DEF EachEnd, At, PlaceOK
  <2>2. CASE call[t].op = "copy"
    <3>1. Return(t, "items", call[t].items) /\ call[t].items \in Seq(Entry) /\ Distinct(call[t].items)
      BY <1>1, <1>4, <1>8, <2>2, NowTyping DEF EachEnd, Call
    <3>2. call'[t].result = "items" /\ call'[t].items = call[t].items
      BY <3>1, Returned
    <3> QED BY <1>1, <1>8, <2>2, <3>2
  <2>3. CASE call[t].op = "popitem"
    <3>1. Done(t, "KeyError") /\ call[t].items = <<>>
      BY <1>8, <2>3 DEF EachEnd
    <3> QED BY <1>5, <1>8, <2>3, <3>1
  <2>4. CASE call[t].op = "update"
    <3>1. Done(t, "updated") /\ call[t].items = <<>>
      BY <1>8, <2>4 DEF EachEnd
    <3> QED BY <1>5, <1>8, <2>4, <3>1
  <2>5. CASE call[t].op = "eq"
    <3>1. Done(t, "True") /\ call[t].items = <<>>
      BY <1>8, <2>5 DEF EachEnd
    <3> QED BY <1>5, <1>8, <2>5, <3>1
  <2> QED BY <2>1, <2>2, <2>3, <2>4, <2>5
<1>9. CASE PopTake(t)
  <2>1. PICK x : Return(t, "pair", x)
    BY <1>9 DEF PopTake
  <2>2. call'[t].result = "pair"
    BY <2>1 DEF Return, DictInv, Ready
  <2> QED BY <1>1, <1>9, <2>2
<1>10. CASE Fetch(t)
  <2>1. CASE Other(t)[Item(t).key] = Absent
    <3>1. Done(t, "KeyError")
      BY <1>10, <2>1 DEF Fetch
    <3> QED BY <1>5, <1>10, <2>1, <3>1
  <2>2. CASE Other(t)[Item(t).key] # Absent
    <3>1. PICK v : call' = [call EXCEPT ![t].items[1].val = v, ![t].pc = "store"]
      BY <1>10, <2>2 DEF Fetch
    <3>2. call'[t].pc = "store"
      BY <1>4, <3>1 DEF DictInv, Call
    <3> QED BY <1>1, <3>2 DEF At
  <2> QED BY <2>1, <2>2
<1>11. CASE Compare(t)
  <2>1. call[t].count[1] # call[t].count[2]
    BY <1>6, <1>11 DEF Compare
  <2>2. Done(t, "False")
    BY <1>11, <2>1 DEF Compare
  <2> QED BY <1>5, <1>11, <2>1, <2>2
<1>12. CASE HasKey(t)
  <2>1. Other(t)[Item(t).key] = Absent
    BY <1>6, <1>12 DEF HasKey
  <2>2. Done(t, "False")
    BY <1>12, <2>1 DEF HasKey
  <2> QED BY <1>5, <1>12, <2>1, <2>2
<1>13. CASE GetItem(t)
  <2>1. call[t].pc = "getitem" /\ call[t].items # <<>>
    BY <1>4, <1>13 DEF GetItem, At, PlaceOK
  <2>2. Item(t).val # Absent
    BY <2>1, ItemFacts, DictAssumption
  <2>3. CASE Other(t)[Item(t).key] = Absent
    <3>1. Done(t, "KeyError")
      BY <1>13, <2>2, <2>3 DEF GetItem
    <3> QED BY <1>5, <1>13, <2>3, <3>1
  <2>4. CASE Other(t)[Item(t).key] # Absent
    <3>1. Other(t)[Item(t).key] # Item(t).val
      <4> SUFFICES ASSUME Other(t)[Item(t).key] = Item(t).val PROVE FALSE
        OBVIOUS
      <4>1. NextItem(t, "each")
        BY <1>13, <2>2 DEF GetItem
      <4>2. call'[t].pc = "each"
        BY <1>1, <2>1, <4>1, NextItemCall
      <4> QED BY <1>1, <4>2 DEF At
    <3>2. Done(t, "False")
      BY <1>13, <2>4, <3>1 DEF GetItem
    <3> QED BY <1>5, <1>13, <3>1, <3>2
  <2> QED BY <2>3, <2>4
<1> QED BY <1>2, <1>3, <1>7, <1>8, <1>9, <1>10, <1>11, <1>12, <1>13 DEF Step

\* What a call has seen is part of what it saw, and what there is at a step that
\* changes nothing is.
LEMMA SawSeen ==
  ASSUME DictInv, NEW t \in Threads, ~At(t, "idle"), NEW i \in 1..2, NEW k \in Keys
  PROVE  /\ seen[t][i][k] \subseteq Saw(t, i, k)
         /\ Now(t, i)[k] \in seen[t][i][k]
         /\ map' = map => Saw(t, i, k) = seen[t][i][k]
         /\ IsFiniteSet(Saw(t, i, k))
<1>1. Now(t, i)[k] \in seen[t][i][k] /\ IsFiniteSet(seen[t][i][k])
  BY NowTyping DEF SeesNow
<1>2. IsFiniteSet(Saw(t, i, k))
  BY <1>1, FS_AddElement DEF Saw
<1> QED BY <1>1, <1>2 DEF Saw, Now

\* Two values of a key that stays the same are the same.
LEMMA OneValue ==
  ASSUME NEW S, IsFiniteSet(S), NEW x \in S, NEW y \in S
  PROVE  /\ Cardinality(S) = 1 => x = y /\ S = {x}
         /\ x # y => Cardinality(S) > 1
<1>1. Cardinality(S) = 1 => \E z : S = {z}
  BY FS_Singleton
<1>2. Cardinality(S) \in Nat /\ Cardinality(S) # 0
  BY FS_CardinalityType, FS_EmptySet
<1> QED BY <1>1, <1>2

\* "Returns a weakly-consistent snapshot collected shard-by-shard" (map.rs:508):
\* what a copy() returns was there, and what it does not return was away at some
\* moment, for any number of shards and changes (dict.py:146-151).
THEOREM SnapshotsWeak == Spec => SnapshotsAreWeak
<1>1. DictInv /\ [Next]_vars => [\A t \in Threads : SnapshotIsWeak(t)]_vars
  <2> SUFFICES ASSUME DictInv, [Next]_vars, NEW t \in Threads, Returns(t, "items"), NEW k \in Keys,
                      NEW values, values = {e.val : e \in {e \in ToSet(call'[t].items) : e.key = k}}
               PROVE  /\ values \subseteq seen[t][1][k]
                      /\ values = {} => Absent \in seen[t][1][k]
    BY DEF SnapshotIsWeak
  <2> DEFINE c == call[t]
             items == call[t].items
  <2>1. EachEnd(t) /\ c.op = "copy" /\ call'[t].items = items
    BY Returning
  <2>2. c.pc = "each" /\ ~At(t, "idle")
    BY <2>1 DEF EachEnd, At
  <2>3. TrackedBy(c, seen[t]) /\ Src(c) = 1
    BY <2>1, <2>2, NowTyping DEF Tracked, Src
  <2>4. ToSet(items) = {items[i] : i \in DOMAIN items}
    BY DEF ToSet
  <2>5. values \subseteq seen[t][1][k]
    BY <2>1, <2>2, <2>3, <2>4 DEF TrackedBy, Listing
  <2>6. ASSUME values = {} PROVE Absent \in seen[t][1][k]
    <3>1. ~Listed(items, k)
      BY <2>1, <2>4, <2>6 DEF Listed
    <3>2. Settled(c, seen[t], k)
      BY <2>2, <2>3, <3>1 DEF TrackedBy, Listing
    <3> QED BY <2>1, <2>3, <3>2 DEF Settled
  <2> QED BY <2>5, <2>6
<1> QED BY <1>1, DictInvariance, PTL DEF Spec, SnapshotsAreWeak

\* "uses atomic pop_val() to avoid TOCTOU races" (dict.py:129-130): popitem()
\* takes what it returns and nothing else, whatever the other threads do.
THEOREM PopitemTakes == Spec => PopitemTakesOne
<1>1. DictInv /\ [Next]_vars => [\A t \in Threads : PopTakesOne(t)]_vars
  <2> SUFFICES ASSUME DictInv, [Next]_vars, NEW t \in Threads,
                      call[t].op = "popitem", call'[t] # call[t]
               PROVE  PopTakesOne(t)
    BY DEF PopTakesOne
  <2>1. CallOK(call[t])
    BY DEF DictInv, ThreadInv
  <2>2. ~At(t, "idle") /\ call[t] \in Call /\ PlaceOK(call[t])
    BY <2>1 DEF CallOK, PlaceOK, At
  <2>3. Step(t)
    BY <2>2, OwnStep
  <2>4. CASE PopTake(t)
    <3> DEFINE d == call[t].self
               k == Item(t).key
               v == map[d][k]
               e == [key |-> k, val |-> v]
    <3>1. /\ call[t].pc = "each" /\ call[t].items # <<>> /\ v # Absent
          /\ Assign(d, k, Absent) /\ Return(t, "pair", <<e>>)
      BY <2>4 DEF PopTake, Each, At
    <3>2. k \in Keys /\ d \in Dicts
      BY <3>1, ItemFacts
    <3>3. v \in Values
      BY <3>1, <3>2, MapTyping DEF Maps
    <3> HIDE DEF v
    <3>4. e \in Entry /\ e.key = k /\ e.val = v
      BY <3>2, <3>3 DEF Entry
    <3> HIDE DEF e
    <3>5. <<e>> \in Seq(Entry) /\ Distinct(<<e>>)
      BY <3>4 DEF Distinct
    <3>6. call'[t].items = <<e>> /\ call'[t].result = "pair" /\ At(t, "idle")'
      BY <3>1, <3>5, Returned DEF Results
    <3>7. Returns(t, "pair") /\ call'[t].items[1] = e
      BY <2>2, <3>6 DEF Returns
    <3>8. map' = [map EXCEPT ![d][k] = Absent] /\ map[d][k] = v
      BY <3>1 DEF Assign, v
    <3> QED BY <3>4, <3>7, <3>8 DEF PopTakesOne
  <2>5. CASE ~PopTake(t)
    <3>1. ~Returns(t, "pair")
      BY <2>5, Returning
    <3>2. UNCHANGED map
      <4>1. ~Wipe(t) /\ ~Store(t)
        BY <2>2 DEF Wipe, Store, At, PlaceOK
      <4> QED BY <2>3, <2>5, <4>1 DEF Step, Snapshot, LenSelf, LenOther, Count, EachEnd, PopSkip,
              Fetch, Compare, HasKey, GetItem
    <3> QED BY <3>1, <3>2 DEF PopTakesOne
  <2> QED BY <2>4, <2>5
<1> QED BY <1>1, DictInvariance, PTL DEF Spec, PopitemTakesOne
\* A key of which nothing is listed any more is settled.
LEMMA AllSettled ==
  ASSUME DictInv, NEW t \in Threads, call[t].pc = "each", call[t].items = <<>>, NEW k \in Keys
  PROVE  Settled(call[t], seen[t], k)
<1>1. TrackedBy(call[t], seen[t])
  BY NowTyping DEF Tracked, At
<1> QED BY <1>1 DEF TrackedBy, Listing, Listed

\* Dictionaries that have stayed as they were have been seen as they are.
LEMMA StillSteady ==
  ASSUME DictInv, NEW t \in Threads, ~At(t, "idle"), map' = map, Still(t)
  PROVE  \A i \in 1..2 : /\ Steady(t, i)
                         /\ \A k \in Keys : /\ seen[t][i][k] = {Now(t, i)[k]}
                                            /\ Saw(t, i, k) = {Now(t, i)[k]}
<1>1. ASSUME NEW i \in 1..2, NEW k \in Keys
      PROVE  seen[t][i][k] = {Now(t, i)[k]} /\ Saw(t, i, k) = {Now(t, i)[k]}
  <2>1. Saw(t, i, k) = seen[t][i][k] /\ Now(t, i)[k] \in seen[t][i][k] /\ IsFiniteSet(Saw(t, i, k))
    BY SawSeen
  <2>2. Cardinality(Saw(t, i, k)) = 1
    BY DEF Still
  <2> DEFINE S == Saw(t, i, k)
             x == Now(t, i)[k]
  <2>3. IsFiniteSet(S) /\ x \in S /\ Cardinality(S) = 1
    BY <2>1, <2>2
  <2> HIDE DEF S, x
  <2>4. S = {x}
    BY <2>3, OneValue
  <2> QED BY <2>1, <2>4 DEF S, x
<1> QED BY <1>1 DEF Steady

\* The entries of all the shards.
LEMMA BeforeAll ==
  ASSUME NEW m
  PROVE  /\ Before(m, NShards + 1) = {k \in Keys : m[k] # Absent}
         /\ IsFiniteSet(Before(m, NShards + 1))
<1>1. \A k \in Keys : ShardOf[k] < NShards + 1
  BY DictAssumption
<1>2. Before(m, NShards + 1) = {k \in Keys : m[k] # Absent}
  BY <1>1 DEF Before
<1>3. Before(m, NShards + 1) \in SUBSET Keys
  BY DEF Before
<1> QED BY <1>2, <1>3, FS_Subset, DictAssumption

\* len() of dictionaries that have stayed as they were is right.
LEMMA LengthsRight ==
  ASSUME DictInv, NEW t \in Threads, call[t].op = "eq",
         call[t].pc \in {"compare", "each", "getitem"}, \A i \in 1..2 : Steady(t, i)
  PROVE  \A i \in 1..2 : call[t].count[i] = Cardinality(Before(Now(t, i), NShards + 1))
<1>1. Lengths(t)
  BY NowTyping DEF At
<1>2. \A i \in 1..2 : Passed(call[t])[i] = NShards + 1
  BY DEF Passed
<1> QED BY <1>1, <1>2 DEF Lengths

\* Dictionaries that stay the same are equal when == says so (dict.py:51-59).
LEMMA TrueIsRight ==
  ASSUME DictInv, NEW t \in Threads, call[t].op = "eq", call[t].pc = "each",
         call[t].items = <<>>, map' = map, Still(t)
  PROVE  Equal(t)
<1> DEFINE m1 == Now(t, 1)
           m2 == Now(t, 2)
           A == Before(m1, NShards + 1)
           B == Before(m2, NShards + 1)
<1>0. ~At(t, "idle") /\ 1 \in 1..2 /\ 2 \in 1..2
  BY DEF At
<1>1. /\ \A i \in 1..2 : Steady(t, i)
      /\ \A k \in Keys : /\ seen[t][1][k] = {m1[k]} /\ seen[t][2][k] = {m2[k]}
                         /\ Saw(t, 1, k) = {m1[k]} /\ Saw(t, 2, k) = {m2[k]}
  BY <1>0, StillSteady
<1>2. ASSUME NEW k \in Keys PROVE m1[k] = Absent \/ m1[k] = m2[k]
  <2>1. Settled(call[t], seen[t], k) /\ Src(call[t]) = 1
    BY AllSettled DEF Src
  <2> QED BY <1>1, <2>1 DEF Settled
<1>3. call[t].count[1] = call[t].count[2]
  <2>1. Lengths(t)
    BY <1>0, NowTyping
  <2> QED BY <2>1 DEF Lengths, Listing
<1>4. Cardinality(A) = Cardinality(B)
  BY <1>0, <1>1, <1>3, LengthsRight
<1>5. A = {k \in Keys : m1[k] # Absent} /\ B = {k \in Keys : m2[k] # Absent} /\ IsFiniteSet(B)
  BY BeforeAll
<1> HIDE DEF m1, m2, A, B
<1>6. A \in SUBSET B
  BY <1>2, <1>5
<1>7. A = B
  BY <1>4, <1>5, <1>6, FS_Subset
<1>8. \A k \in Keys : m1[k] = m2[k]
  BY <1>2, <1>5, <1>7
<1> QED BY <1>1, <1>8 DEF Equal

\* They are not equal when == denies it.
LEMMA FalseIsRight ==
  ASSUME DictInv, NEW t \in Threads, call[t].op = "eq", map' = map, Still(t), Equal(t),
         \/ Compare(t) /\ call[t].count[1] # call[t].count[2]
         \/ HasKey(t) /\ Other(t)[Item(t).key] = Absent
         \/ GetItem(t) /\ Other(t)[Item(t).key] # Item(t).val
  PROVE  FALSE
<1>0. ~At(t, "idle") /\ 1 \in 1..2 /\ 2 \in 1..2
  BY DEF At, Compare, HasKey, GetItem, Each
<1>1. /\ \A i \in 1..2 : Steady(t, i)
      /\ \A k \in Keys : /\ seen[t][1][k] = {Now(t, 1)[k]}
                         /\ Saw(t, 1, k) = {Now(t, 1)[k]} /\ Saw(t, 2, k) = {Now(t, 2)[k]}
  BY <1>0, StillSteady
<1>2. \A k \in Keys : Now(t, 1)[k] = Now(t, 2)[k]
  BY <1>1 DEF Equal
<1>3. CASE Compare(t) /\ call[t].count[1] # call[t].count[2]
  <2>1. call[t].pc = "compare"
    BY <1>3 DEF Compare, At
  <2>2. Before(Now(t, 1), NShards + 1) = Before(Now(t, 2), NShards + 1)
    BY <1>2, BeforeAll
  <2>3. /\ call[t].count[1] = Cardinality(Before(Now(t, 1), NShards + 1))
        /\ call[t].count[2] = Cardinality(Before(Now(t, 2), NShards + 1))
    BY <1>0, <1>1, <2>1, LengthsRight
  <2> QED BY <1>3, <2>2, <2>3
<1>4. CASE \/ HasKey(t) /\ Other(t)[Item(t).key] = Absent
           \/ GetItem(t) /\ Other(t)[Item(t).key] # Item(t).val
  <2>1. call[t].pc \in {"each", "getitem"} /\ call[t].items # <<>>
    <3>1. CASE HasKey(t)
      BY <3>1 DEF HasKey, Each, At
    <3>2. CASE GetItem(t)
      <4>1. call[t].pc = "getitem" /\ PlaceOK(call[t])
        BY <1>0, <3>2, NowTyping DEF GetItem, At
      <4> QED BY <4>1 DEF PlaceOK
    <3> QED BY <1>4, <3>1, <3>2
  <2>2. Item(t).key \in Keys /\ Item(t).val \in Values /\ Item(t).val \in seen[t][1][Item(t).key]
    BY <2>1, ItemFacts DEF Src
  <2>3. Now(t, 1)[Item(t).key] = Item(t).val
    BY <1>1, <2>2
  <2>4. Other(t) = Now(t, 2)
    BY DEF Other, Now, DictsOf
  <2>5. Other(t)[Item(t).key] = Item(t).val
    BY <1>2, <2>2, <2>3, <2>4
  <2> QED BY <1>4, <2>2, <2>5, DictAssumption
<1> QED BY <1>3, <1>4

\* A KeyError of update() or == is about an entry that went away
\* (dict.py:57, 118).
LEMMA WentAway ==
  ASSUME DictInv, NEW t \in Threads, call[t].op \in {"update", "eq"}, map' = map,
         Fetch(t) \/ GetItem(t), Other(t)[Item(t).key] = Absent
  PROVE  \E k \in Keys : Absent \in Saw(t, 2, k) /\ Cardinality(Saw(t, 2, k)) > 1
<1>0. ~At(t, "idle") /\ 2 \in 1..2
  BY DEF Fetch, GetItem, Each, At
<1> DEFINE k0 == Item(t).key
<1>1. call[t].pc \in {"each", "getitem"} /\ call[t].items # <<>>
  <2>1. CASE Fetch(t)
    BY <2>1 DEF Fetch, Each, At
  <2>2. CASE GetItem(t)
    <3>1. call[t].pc = "getitem" /\ PlaceOK(call[t])
      BY <1>0, <2>2, NowTyping DEF GetItem, At
    <3> QED BY <3>1 DEF PlaceOK
  <2> QED BY <2>1, <2>2
<1>2. k0 \in Keys /\ Item(t).val \in Values /\ Item(t).val \in seen[t][Src(call[t])][k0]
      /\ k0 = Head(call[t].items).key
  BY <1>1, ItemFacts
<1>3. \E v \in seen[t][2][k0] : v # Absent
  <2>1. CASE Fetch(t)
    <3>1. Src(call[t]) = 2
      BY <2>1 DEF Fetch, Each, Src
    <3> QED BY <1>2, <3>1, DictAssumption
  <2>2. CASE GetItem(t)
    <3>1. TrackedBy(call[t], seen[t]) /\ call[t].pc = "getitem"
      BY <1>0, <2>2, NowTyping DEF GetItem, At, Tracked
    <3> QED BY <1>2, <3>1 DEF TrackedBy
  <2> QED BY <2>1, <2>2
<1>4. Now(t, 2)[k0] = Absent
  BY DEF Other, Now, DictsOf
<1>5. /\ Saw(t, 2, k0) = seen[t][2][k0] /\ Absent \in Saw(t, 2, k0)
      /\ IsFiniteSet(Saw(t, 2, k0))
  BY <1>0, <1>2, <1>4, SawSeen
<1> DEFINE S == Saw(t, 2, k0)
<1>6. PICK v \in S : v # Absent
  BY <1>3, <1>5
<1>7. IsFiniteSet(S) /\ Absent \in S
  BY <1>5
<1> HIDE DEF S
<1>8. Cardinality(S) > 1
  BY <1>6, <1>7, OneValue
<1> QED BY <1>2, <1>5, <1>8 DEF S

\* clear() has seen every key away when it is through with the last shard
\* (map.rs:470-474).
LEMMA ClearedAll ==
  ASSUME DictInv, NEW t \in Threads, Wipe(t), call[t].shard = NShards, NEW k \in Keys
  PROVE  Absent \in Saw(t, 1, k)
<1>0. call[t].pc = "wipe" /\ ~At(t, "idle") /\ 1 \in 1..2
  BY DEF Wipe, At
<1>1. TrackedBy(call[t], seen[t]) /\ call[t].self \in Dicts
  <2>1. Tracked(t) /\ PlaceOK(call[t])
    BY <1>0, NowTyping
  <2> QED BY <1>0, <2>1 DEF Tracked, PlaceOK
<1>2. ShardOf[k] \in 1..NShards
  BY DictAssumption
<1>3. CASE ShardOf[k] < NShards
  <2>1. Absent \in seen[t][1][k]
    BY <1>0, <1>1, <1>3 DEF TrackedBy
  <2> QED BY <2>1 DEF Saw
<1>4. CASE ShardOf[k] = NShards
  <2>1. map'[call[t].self] =
          [j \in Keys |-> IF ShardOf[j] = call[t].shard THEN Absent ELSE map[call[t].self][j]]
    BY <1>1 DEF Wipe, DictInv
  <2>2. map'[call[t].self][k] = Absent
    BY <1>4, <2>1
  <2>3. DictsOf(call[t])[1] = call[t].self
    BY DEF DictsOf
  <2> QED BY <2>2, <2>3 DEF Saw
<1> QED BY <1>2, <1>3, <1>4, DictAssumption

\* "Raises KeyError if the dictionary is empty" (dict.py:127), "Clear all
\* elements" (map.rs:470), update() and == (dict.py:51-59, 107-122): what a call
\* answers was so, for any threads, shards and changes.
THEOREM AnswersTrue == Spec => AnswersWereTrue
<1>1. ASSUME DictInv, [Next]_vars, NEW t \in Threads PROVE AnswerWasTrue(t)
  <2> DEFINE op == call[t].op
  <2>1. ASSUME NEW r, Returns(t, r)
        PROVE  ~At(t, "idle") /\ (EachEnd(t) => call[t].pc = "each" /\ map' = map)
               /\ call'[t].result = r
    BY <2>1 DEF Returns, EachEnd, At
  <2>2. ASSUME Returns(t, "cleared") \/ (op = "popitem" /\ Returns(t, "KeyError")), NEW k \in Keys
        PROVE  Absent \in Saw(t, 1, k)
    <3>1. CASE Returns(t, "cleared")
      <4>1. Wipe(t) /\ call[t].shard = NShards
        BY <1>1, <3>1, Returning
      <4> QED BY <1>1, <4>1, ClearedAll
    <3>2. CASE op = "popitem" /\ Returns(t, "KeyError")
      <4>1. ~Fetch(t) /\ ~GetItem(t)
        <5>1. PlaceOK(call[t])
          BY <1>1, <2>1, <3>2, NowTyping
        <5> QED BY <3>2, <5>1 DEF Fetch, Each, GetItem, At, PlaceOK
      <4>2. EachEnd(t) /\ call[t].items = <<>>
        BY <1>1, <3>2, <4>1, Returning
      <4>3. call[t].pc = "each"
        BY <4>2, <3>2, <2>1
      <4>4. Settled(call[t], seen[t], k)
        BY <1>1, <4>2, <4>3, AllSettled
      <4>5. Absent \in seen[t][1][k]
        BY <3>2, <4>4 DEF Settled, Src
      <4> QED BY <4>5 DEF Saw
    <3> QED BY <2>2, <3>1, <3>2
  <2>3. ASSUME Returns(t, "updated"), NEW k \in Keys
        PROVE  Absent \in Saw(t, 2, k) \/ Saw(t, 1, k) \cap Saw(t, 2, k) # {}
    <3>1. EachEnd(t) /\ op = "update" /\ call[t].items = <<>>
      BY <1>1, <2>3, Returning
    <3>2. Settled(call[t], seen[t], k)
      BY <1>1, <2>1, <2>3, <3>1, AllSettled
    <3> QED BY <3>1, <3>2 DEF Settled, Src, Saw
  <2>4. ASSUME op \in {"update", "eq"}, Returns(t, "KeyError")
        PROVE  \E k \in Keys : Absent \in Saw(t, 2, k) /\ Cardinality(Saw(t, 2, k)) > 1
    <3>1. (Fetch(t) \/ GetItem(t)) /\ Other(t)[Item(t).key] = Absent
      BY <1>1, <2>4, Returning
    <3>2. map' = map
      BY <3>1 DEF Fetch, GetItem
    <3> QED BY <1>1, <2>4, <3>1, <3>2, WentAway
  <2>5. ASSUME Returns(t, "True")
        PROVE  /\ \A k \in Keys : Absent \in Saw(t, 1, k) \/ Saw(t, 1, k) \cap Saw(t, 2, k) # {}
               /\ Still(t) => Equal(t)
    <3>1. EachEnd(t) /\ op = "eq" /\ call[t].items = <<>>
      BY <1>1, <2>5, Returning
    <3>2. call[t].pc = "each" /\ map' = map
      BY <2>1, <2>5, <3>1
    <3>3. \A k \in Keys : Settled(call[t], seen[t], k)
      BY <1>1, <3>1, <3>2, AllSettled
    <3>4. Still(t) => Equal(t)
      BY <1>1, <3>1, <3>2, TrueIsRight
    <3>5. \A k \in Keys : Absent \in Saw(t, 1, k) \/ Saw(t, 1, k) \cap Saw(t, 2, k) # {}
      BY <3>1, <3>3 DEF Settled, Src, Saw
    <3> QED BY <3>4, <3>5
  <2>6. ASSUME Returns(t, "False"), Still(t), Equal(t) PROVE FALSE
    <3>1. \/ Compare(t) /\ call[t].count[1] # call[t].count[2]
          \/ HasKey(t) /\ Other(t)[Item(t).key] = Absent
          \/ GetItem(t) /\ Other(t)[Item(t).key] # Item(t).val
      BY <1>1, <2>6, Returning
    <3>2. map' = map
      BY <3>1 DEF Compare, HasKey, GetItem
    <3>3. op = "eq"
      <4>1. PlaceOK(call[t])
        BY <1>1, <2>1, <2>6, NowTyping
      <4> QED BY <3>1, <4>1 DEF Compare, HasKey, Each, GetItem, At, PlaceOK
    <3> QED BY <1>1, <2>6, <3>1, <3>2, <3>3, FalseIsRight
  <2> QED BY <2>2, <2>3, <2>4, <2>5, <2>6 DEF AnswerWasTrue
<1>2. DictInv /\ [Next]_vars => [\A t \in Threads : AnswerWasTrue(t)]_vars
  BY <1>1
<1> QED BY <1>2, DictInvariance, PTL DEF Spec, AnswersWereTrue

==============================================================================
