--------------------------- MODULE ConcurrentDict ---------------------------
(***************************************************************************)
(* The ConcurrentDict class of src/python/pysync/dict.py: threads that run *)
(* the calls made of several calls of the ConcurrentMap, namely popitem(), *)
(* clear(), copy(), update() and ==, while other threads set and remove.   *)
(*                                                                         *)
(* Setting, looking up and removing one key are single steps here:         *)
(* ConcurrentMap is about what is inside of them.  A map locks one shard   *)
(* after the other in items(), keys(), len() and clear(), and each shard   *)
(* is a step.                                                              *)
(*                                                                         *)
(* A key has one entry here at most, which is OneEntryPerKey of            *)
(* ConcurrentMap and has its exception: what the calls do on a map that    *)
(* has got a second entry for a key (run map_duplicate) is left out.       *)
(*                                                                         *)
(* An operator whose name ends in _faulty is a variant of the one that     *)
(* follows it with a plausible mistake; nothing refers to it.              *)
(***************************************************************************)
EXTENDS Naturals, Sequences, FiniteSets, SequencesExt

CONSTANTS
  Threads,
  Dicts,
  Keys,
  NShards,
  ShardOf,    \* the shard of each key
  Values,
  Absent,     \* no entry, or no dictionary
  MaxChanges  \* bound: how often threads set or remove keys by single calls

ASSUME DictAssumption ==
  /\ IsFiniteSet(Keys)
  /\ NShards \in Nat \ {0}
  /\ ShardOf \in [Keys -> 1..NShards]
  /\ Absent \notin Values
  /\ Absent \notin Dicts

VARIABLES
  map,    \* what each dictionary maps each key to
  call,   \* the call of each thread
  changes,  \* the number of single calls that have changed an entry
  seen    \* history: what the keys were mapped to while the call has been running,
          \* in its own dictionary (1) and in the other one (2)

vars == <<map, call, changes, seen>>

Calls == {"popitem", "clear", "copy", "update", "eq"}

\* Between two calls.  items is what the snapshot has so far, or what is left of
\* it, and count what len() has so far.
Ready == [op |-> "none", self |-> Absent, other |-> Absent, pc |-> "idle", shard |-> 1,
          items |-> <<>>, count |-> <<0, 0>>, result |-> "none"]

Unwatched == [i \in 1..2 |-> [k \in Keys |-> {}]]

Init ==
  /\ map \in [Dicts -> [Keys -> Values \cup {Absent}]]
  /\ call = [t \in Threads |-> Ready]
  /\ changes = 0
  /\ seen = [t \in Threads |-> Unwatched]

-----------------------------------------------------------------------------
At(t, pc) == call[t].pc = pc

Self(t) == map[call[t].self]
Other(t) == map[call[t].other]

\* The dictionaries of a call: its own one, and for some calls another one.
DictsOf(c) == IF c.op \in {"update", "eq"} THEN <<c.self, c.other>> ELSE <<c.self, c.self>>

\* Calls that run see every change.
Watch ==
  seen' = [t \in Threads |->
    IF At(t, "idle")' THEN Unwatched
    ELSE [i \in 1..2 |-> [k \in Keys |-> seen[t][i][k] \cup {map'[DictsOf(call[t])[i]][k]}]]]

Assign(d, k, v) == map' = [map EXCEPT ![d][k] = v]

\* Another thread sets or removes a key.
Change(d, k, v) ==
  /\ map[d][k] # v
  /\ changes < MaxChanges /\ changes' = changes + 1
  /\ Assign(d, k, v)
  /\ UNCHANGED call
  /\ Watch

\* The return of a call, with what it returns.
Return(t, r, items) ==
  call' = [call EXCEPT ![t] = [Ready EXCEPT !.result = r, !.items = items]]

Done(t, r) == Return(t, r, <<>>)

\* The call sees what there is from here on.
Look(t) ==
  seen' = [seen EXCEPT ![t] =
    [i \in 1..2 |-> [k \in Keys |-> {map[DictsOf(call'[t])[i]][k]}]]]

Forget(t) == seen' = [seen EXCEPT ![t] = IF At(t, "idle")' THEN Unwatched ELSE @]

FirstStep(op) ==
  CASE op = "clear" -> "wipe"
    [] op = "eq" -> "lenSelf"
    [] OTHER -> "snapshot"

Begin(t, op, d, e) ==
  /\ At(t, "idle")
  /\ call' = [call EXCEPT ![t] =
       [Ready EXCEPT !.op = op, !.self = d, !.pc = FirstStep(op),
                     !.other = IF op \in {"update", "eq"} THEN e ELSE @]]
  /\ Look(t)
  /\ UNCHANGED <<map, changes>>

-----------------------------------------------------------------------------
(* One shard after the other. *)

KeysIn(m, s) == {k \in Keys : ShardOf[k] = s /\ m[k] # Absent}

\* The last shard is left out.
NextShard_faulty(t, c, pc) ==
  IF call[t].shard + 1 < NShards
  THEN [c EXCEPT !.shard = @ + 1]
  ELSE [c EXCEPT !.shard = 1, !.pc = pc]

\* The next shard, or after the last one the first shard of what follows.
NextShard(t, c, pc) ==
  IF call[t].shard < NShards
  THEN [c EXCEPT !.shard = @ + 1]
  ELSE [c EXCEPT !.shard = 1, !.pc = pc]

\* items(), or keys() of the other dictionary in update().  Within a shard the
\* order is that of a hash table.
Snapshot(t) ==
  LET m == IF call[t].op = "update" THEN Other(t) ELSE Self(t) IN
  /\ At(t, "snapshot")
  /\ \E ks \in SetToSeqs(KeysIn(m, call[t].shard)) :
       LET new == [i \in DOMAIN ks |-> [key |-> ks[i], val |-> m[ks[i]]]] IN
       call' = [call EXCEPT ![t] = NextShard(t, [call[t] EXCEPT !.items = @ \o new], "each")]
  /\ Forget(t) /\ UNCHANGED map

\* len() of one of the two dictionaries of a ==.
Count(t, pc, i, m, next) ==
  /\ At(t, pc)
  /\ call' = [call EXCEPT ![t] = NextShard(t,
       [call[t] EXCEPT !.count[i] = @ + Cardinality(KeysIn(m, call[t].shard))], next)]
  /\ Forget(t) /\ UNCHANGED map

LenSelf(t) == Count(t, "lenSelf", 1, Self(t), "lenOther")
LenOther(t) == Count(t, "lenOther", 2, Other(t), "compare")

Wipe(t) ==
  /\ At(t, "wipe")
  /\ map' = [map EXCEPT ![call[t].self] =
       [k \in Keys |-> IF ShardOf[k] = call[t].shard THEN Absent ELSE @[k]]]
  /\ IF call[t].shard < NShards
     THEN call' = [call EXCEPT ![t].shard = @ + 1]
     ELSE Done(t, "cleared")
  /\ Watch

-----------------------------------------------------------------------------
(* One item after the other. *)

Each(t, op) == At(t, "each") /\ call[t].op = op /\ call[t].items # <<>>

Item(t) == Head(call[t].items)

NextItem(t, pc) ==
  call' = [call EXCEPT ![t].items = Tail(@), ![t].pc = pc]

\* After the last item, or when there was none.
EachEnd(t) ==
  /\ At(t, "each") /\ (call[t].items = <<>> \/ call[t].op = "copy")
  /\ CASE call[t].op = "popitem" -> Done(t, "KeyError")
       [] call[t].op = "copy" -> Return(t, "items", call[t].items)
       [] call[t].op = "update" -> Done(t, "updated")
       [] call[t].op = "eq" -> Done(t, "True")
  /\ Forget(t) /\ UNCHANGED map

\* The value comes from the snapshot.
PopTake_faulty(t) ==
  LET d == call[t].self
      k == Item(t).key
  IN /\ Each(t, "popitem") /\ map[d][k] # Absent
     /\ Assign(d, k, Absent)
     /\ Return(t, "pair", <<Item(t)>>)
     /\ Watch

\* pop_val() finds the candidate, with the value it has now.
PopTake(t) ==
  LET d == call[t].self
      k == Item(t).key
  IN /\ Each(t, "popitem") /\ map[d][k] # Absent
     /\ Assign(d, k, Absent)
     /\ Return(t, "pair", <<[key |-> k, val |-> map[d][k]]>>)
     /\ Watch

\* The candidates are tried again and again.
PopSkip_retry_faulty(t) ==
  /\ Each(t, "popitem") /\ Self(t)[Item(t).key] = Absent
  /\ IF Len(call[t].items) > 1
     THEN NextItem(t, "each")
     ELSE UNCHANGED call
  /\ Forget(t) /\ UNCHANGED map

\* The new snapshot is added to the old one.
PopSkip_append_faulty(t) ==
  /\ Each(t, "popitem") /\ Self(t)[Item(t).key] = Absent
  /\ call' = [call EXCEPT ![t].pc = "snapshot"]
  /\ Look(t)
  /\ UNCHANGED map

\* The first candidate that is gone counts as an empty dictionary.
PopSkip_faulty(t) ==
  /\ Each(t, "popitem") /\ Self(t)[Item(t).key] = Absent
  /\ Done(t, "KeyError")
  /\ Forget(t) /\ UNCHANGED map

\* The candidate is gone: the next one, or after the last one a new snapshot.
PopSkip(t) ==
  /\ Each(t, "popitem") /\ Self(t)[Item(t).key] = Absent
  /\ IF Len(call[t].items) > 1
     THEN NextItem(t, "each") /\ UNCHANGED seen
     ELSE NextItem(t, "snapshot") /\ Look(t)
  /\ UNCHANGED map

\* other[k] in update().
Fetch(t) ==
  LET v == Other(t)[Item(t).key] IN
  /\ Each(t, "update")
  /\ IF v = Absent THEN Done(t, "KeyError")
     ELSE call' = [call EXCEPT ![t].items[1].val = v, ![t].pc = "store"]
  /\ Forget(t) /\ UNCHANGED map

\* set(k, v) in update().
Store(t) ==
  /\ At(t, "store")
  /\ Assign(call[t].self, Item(t).key, Item(t).val)
  /\ NextItem(t, "each")
  /\ Watch

\* The lengths differ, or the items are looked at.
Compare(t) ==
  /\ At(t, "compare")
  /\ IF call[t].count[1] # call[t].count[2] THEN Done(t, "False")
     ELSE call' = [call EXCEPT ![t].pc = "snapshot"]
  /\ Forget(t) /\ UNCHANGED map

\* k not in other.
HasKey(t) ==
  /\ Each(t, "eq")
  /\ IF Other(t)[Item(t).key] = Absent THEN Done(t, "False")
     ELSE call' = [call EXCEPT ![t].pc = "getitem"]
  /\ Forget(t) /\ UNCHANGED map

\* other[k] != v.
GetItem(t) ==
  LET v == Other(t)[Item(t).key] IN
  /\ At(t, "getitem")
  /\ CASE v = Absent -> Done(t, "KeyError")
       [] v = Item(t).val -> NextItem(t, "each")
       [] OTHER -> Done(t, "False")
  /\ Forget(t) /\ UNCHANGED map

-----------------------------------------------------------------------------
Step(t) ==
  \/ Snapshot(t) \/ LenSelf(t) \/ LenOther(t) \/ Wipe(t)
  \/ EachEnd(t) \/ PopTake(t) \/ PopSkip(t)
  \/ Fetch(t) \/ Store(t)
  \/ Compare(t) \/ HasKey(t) \/ GetItem(t)

Next ==
  \/ \E d \in Dicts, k \in Keys, v \in Values \cup {Absent} : Change(d, k, v)
  \/ \E t \in Threads, op \in Calls, d, e \in Dicts : Begin(t, op, d, e)
  \/ \E t \in Threads : Step(t) /\ UNCHANGED changes

Spec == Init /\ [][Next]_vars

\* A thread goes on with its call.
LiveSpec == Spec /\ \A t \in Threads : WF_vars(Step(t) /\ UNCHANGED changes)

-----------------------------------------------------------------------------
(* Properties. *)

\* The variables have their types, and a snapshot of a map in which a key has one
\* entry has it once (map.rs:507-520, dict.py:124-144).
TypeOK ==
  /\ map \in [Dicts -> [Keys -> Values \cup {Absent}]]
  /\ \A t \in Threads :
       LET items == call[t].items IN
       /\ items \in Seq([key : Keys, val : Values])
       /\ \A i, j \in DOMAIN items : items[i].key = items[j].key => i = j
       /\ call[t].shard \in 1..NShards
  /\ seen \in [Threads -> [1..2 -> [Keys -> SUBSET (Values \cup {Absent})]]]

\* The call of the thread returns r in this step.
Returns(t, r) == ~At(t, "idle") /\ At(t, "idle")' /\ call'[t].result = r

\* What the key was mapped to during a call that returns in this step.
Saw(t, i, k) == seen[t][i][k] \cup {map'[DictsOf(call[t])[i]][k]}

\* "Returns a weakly-consistent snapshot collected shard-by-shard"
\* (map.rs:508): an entry that stays is in it, a key that stays away is not, and
\* every value was there (also for copy(), dict.py:146-151).
SnapshotIsWeak(t) ==
  Returns(t, "items") =>
    \A k \in Keys :
      LET values == {e.val : e \in {e \in ToSet(call'[t].items) : e.key = k}}
          was == seen[t][1][k]
      IN /\ values \subseteq was
         /\ values = {} => Absent \in was

SnapshotsAreWeak == [][\A t \in Threads : SnapshotIsWeak(t)]_vars

\* Each key of both dictionaries has been mapped to one value all the time, and
\* to the same one in both.
Still(t) == \A k \in Keys : \A i \in 1..2 : Cardinality(Saw(t, i, k)) = 1
Equal(t) == \A k \in Keys : Saw(t, 1, k) = Saw(t, 2, k)

\* What a call answers was so: popitem() raises KeyError and clear() returns
\* only if each key was absent at some moment, which need not be the same one
\* ("Raises KeyError if the dictionary is empty", dict.py:127; "Clear all
\* elements", map.rs:470); update() has copied every key that stayed in the
\* other dictionary, and raises KeyError only when an entry of it went away
\* (dict.py:107-122); and == is right unless one of the dictionaries changed
\* meanwhile (dict.py:51-59).
AnswerWasTrue(t) ==
  LET op == call[t].op
      self(k) == Saw(t, 1, k)
      other(k) == Saw(t, 2, k)
  IN /\ Returns(t, "cleared") \/ (op = "popitem" /\ Returns(t, "KeyError"))
          => \A k \in Keys : Absent \in self(k)
     /\ Returns(t, "updated")
          => \A k \in Keys : Absent \in other(k) \/ self(k) \cap other(k) # {}
     /\ op \in {"update", "eq"} /\ Returns(t, "KeyError")
          => \E k \in Keys : Absent \in other(k) /\ Cardinality(other(k)) > 1
     /\ Returns(t, "True")
          => /\ \A k \in Keys : Absent \in self(k) \/ self(k) \cap other(k) # {}
             /\ Still(t) => Equal(t)
     /\ Returns(t, "False") => ~(Still(t) /\ Equal(t))

AnswersWereTrue == [][\A t \in Threads : AnswerWasTrue(t)]_vars

\* popitem() takes the entry that it returns, with the value it has at that
\* moment, and takes nothing else ("uses atomic pop_val() to avoid TOCTOU races",
\* dict.py:129-130).
PopTakesOne(t) ==
  call[t].op = "popitem" /\ call'[t] # call[t] =>
    LET d == call[t].self
        pair == call'[t].items[1]
    IN IF Returns(t, "pair")
       THEN /\ map[d][pair.key] = pair.val
            /\ map' = [map EXCEPT ![d][pair.key] = Absent]
       ELSE UNCHANGED map

PopitemTakesOne == [][\A t \in Threads : PopTakesOne(t)]_vars

\* Every call returns; popitem() may take a new snapshot again and again, but
\* only as long as entries appear (dict.py:135-144).
CallsReturn ==
  <>[][\A d \in Dicts, k \in Keys : map[d][k] = Absent => map'[d][k] = Absent]_vars
    => \A t \in Threads : ~At(t, "idle") ~> At(t, "idle")
=============================================================================
