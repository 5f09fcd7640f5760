---------------------------- MODULE ConcurrentMap ----------------------------
(***************************************************************************)
(* The ConcurrentMap class of src/src/map.rs: threads that look up, insert,*)
(* set and remove keys of one hash value, and clear the map.               *)
(*                                                                         *)
(* The entries of one hash value live in one list of one shard, and what   *)
(* happens under the shard's lock is one step.  Keys are compared between  *)
(* these steps, with the lock released: __eq__ is Python code.  Two hash   *)
(* values share nothing but a lock, so one list is the whole story of its  *)
(* keys; an empty list and no list are the same to every operation.        *)
(*                                                                         *)
(* __eq__ is taken to be an equivalence relation.  An operator whose name  *)
(* ends in _faulty is a variant of the one that follows it with a plausible*)
(* mistake; nothing refers to it.                                          *)
(***************************************************************************)
EXTENDS Naturals, Sequences, FiniteSets, SequencesExt

CONSTANTS
  Threads,
  Objects,    \* key objects of one hash value
  KeyOf,      \* what a key object is equal to: __eq__ compares this
  Values,
  Absent,     \* no entry
  Raised      \* __eq__ has raised an exception

ASSUME MapAssumption ==
  /\ DOMAIN KeyOf = Objects
  /\ Absent # Raised
  /\ {Absent, Raised} \cap Values = {}

VARIABLES
  bucket,   \* the list of entries [key |-> an object, val |-> a value]
  call,     \* the call of each thread
  seen,     \* history: what the key of the call was mapped to during the call
  aba       \* history: an object came back that a running call had compared

vars == <<bucket, call, seen, aba>>

Entry == [key : Objects, val : Values]

\* Operations that change entries in a fast path, by pointer identity.
Writers == {"set", "remove"}
Inserters == {"set", "get_or_insert"}

\* Between two calls; result is what the last one has returned.
Ready == [op |-> "none", key |-> Absent, val |-> Absent, pc |-> "idle",
          todo |-> <<>>, checked |-> {}, result |-> Absent]

Init ==
  /\ bucket = <<>>
  /\ call = [t \in Threads |-> Ready]
  /\ seen = [t \in Threads |-> {Absent}]
  /\ aba = FALSE

-----------------------------------------------------------------------------
(* The list. *)

KeysOf(list) == {e.key : e \in ToSet(list)}

Position(list, o) == CHOOSE i \in DOMAIN list : list[i].key = o

\* An entry keeps its key object when it is given another value.
Put(o, v) ==
  bucket' = IF o \in KeysOf(bucket)
            THEN [bucket EXCEPT ![Position(bucket, o)].val = v]
            ELSE Append(bucket, [key |-> o, val |-> v])

Take(o) ==
  bucket' = RemoveAt(bucket, Position(bucket, o))

ValueAt(o) == bucket[Position(bucket, o)].val

-----------------------------------------------------------------------------
(* Calls. *)

At(t, pc) == call[t].pc = pc

GoTo(t, pc) == call' = [call EXCEPT ![t].pc = pc]

Done(t, r) == call' = [call EXCEPT ![t] = [Ready EXCEPT !.result = r]]

\* get() stands for get_val() and contains_key() too, remove() for delete()
\* and pop_val(): they differ in what they return.
Begin(t) ==
  /\ At(t, "idle")
  /\ \E op \in {"get"} \cup Writers \cup Inserters, o \in Objects :
       \E v \in IF op \in Inserters THEN Values ELSE {Absent} :
         call' = [call EXCEPT ![t] = [Ready EXCEPT !.op = op, !.key = o, !.val = v,
                    !.pc = IF op \in Writers THEN "fast" ELSE "collect"]]
  /\ UNCHANGED bucket

\* The fast path of set(): an empty list, or the key object itself is there.
SetFast(t) ==
  LET o == call[t].key IN
  /\ At(t, "fast") /\ call[t].op = "set"
  /\ IF bucket = <<>> \/ o \in KeysOf(bucket)
     THEN Put(o, call[t].val) /\ Done(t, call[t].val)
     ELSE GoTo(t, "collect") /\ UNCHANGED bucket

\* The fast path answers for keys it has not compared.
RemoveFast_faulty(t) ==
  LET o == call[t].key IN
  /\ At(t, "fast") /\ call[t].op = "remove"
  /\ IF o \in KeysOf(bucket)
     THEN Take(o) /\ Done(t, ValueAt(o))
     ELSE Done(t, Absent) /\ UNCHANGED bucket

RemoveFast(t) ==
  LET o == call[t].key IN
  /\ At(t, "fast") /\ call[t].op = "remove"
  /\ CASE bucket = <<>> -> Done(t, Absent) /\ UNCHANGED bucket
       [] o \in KeysOf(bucket) -> Take(o) /\ Done(t, ValueAt(o))
       [] OTHER -> GoTo(t, "collect") /\ UNCHANGED bucket

\* The candidates that have not been compared yet are cloned under the lock,
\* each at the position it has in the list; set() and remove() clone the keys
\* only.
Collect(t) ==
  LET new == {i \in DOMAIN bucket : bucket[i].key \notin call[t].checked}
      cloned(e) == IF call[t].op \in Writers THEN [e EXCEPT !.val = Absent] ELSE e
  IN /\ At(t, "collect")
     /\ call' = [call EXCEPT ![t].pc = "compare",
                             ![t].todo = [i \in new |-> cloned(bucket[i])]]
     /\ UNCHANGED bucket

\* Candidates are compared in the order of the list.
First(todo) == todo[Min(DOMAIN todo)]

Others(todo) == Restrict(todo, DOMAIN todo \ {Min(DOMAIN todo)})

\* __eq__ of the next candidate, outside the lock.
CompareNext(t) ==
  LET e == First(call[t].todo)
      equal == KeyOf[e.key] = KeyOf[call[t].key]
  IN /\ At(t, "compare") /\ call[t].todo # <<>>
     /\ \/ Done(t, Raised)
        \/ equal /\ call[t].op \notin Writers /\ Done(t, e.val)
        \/ /\ equal => call[t].op \in Writers
           /\ call' = [call EXCEPT
                ![t].checked = @ \cup {e.key},
                ![t].pc = IF equal THEN "match" ELSE "compare",
                ![t].todo = IF equal THEN <<e>> ELSE Others(@)]
     /\ UNCHANGED bucket

\* No candidate was equal: get() looks no further.
CompareEnd(t) ==
  /\ At(t, "compare") /\ call[t].todo = <<>>
  /\ IF call[t].op = "get" THEN Done(t, Absent) ELSE GoTo(t, "commit")
  /\ UNCHANGED bucket

\* The equal key is dealt with as if it were still there.
Match_faulty(t) ==
  LET k == First(call[t].todo).key IN
  /\ At(t, "match")
  /\ IF call[t].op = "set"
     THEN Put(k, call[t].val) /\ Done(t, call[t].val)
     ELSE IF k \in KeysOf(bucket)
          THEN Take(k) /\ Done(t, ValueAt(k))
          ELSE (\E v \in Values : Done(t, v)) /\ UNCHANGED bucket

\* The lock is taken again: the object found equal may have gone.
Match(t) ==
  LET k == First(call[t].todo).key IN
  /\ At(t, "match")
  /\ IF k \in KeysOf(bucket)
     THEN IF call[t].op = "set"
          THEN Put(k, call[t].val) /\ Done(t, call[t].val)
          ELSE Take(k) /\ Done(t, ValueAt(k))
     ELSE /\ call' = [call EXCEPT ![t].pc = "commit", ![t].todo = <<>>]
          /\ UNCHANGED bucket

-----------------------------------------------------------------------------
(* The last locked step: only if every key in the list has been compared. *)

Retry(t) == ~(KeysOf(bucket) \subseteq call[t].checked)

\* get_or_insert() inserts without looking at the list again.
InsertCommit_faulty(t) ==
  /\ At(t, "commit") /\ call[t].op = "get_or_insert"
  /\ IF call[t].key \in KeysOf(bucket)
     THEN Done(t, ValueAt(call[t].key)) /\ UNCHANGED bucket
     ELSE Put(call[t].key, call[t].val) /\ Done(t, call[t].val)

InsertCommit(t) ==
  /\ At(t, "commit") /\ call[t].op = "get_or_insert"
  /\ CASE Retry(t) -> GoTo(t, "collect") /\ UNCHANGED bucket
       [] ~Retry(t) /\ call[t].key \in KeysOf(bucket) ->
            Done(t, ValueAt(call[t].key)) /\ UNCHANGED bucket
       [] OTHER -> Put(call[t].key, call[t].val) /\ Done(t, call[t].val)

\* The key object itself is not looked for.
SetCommit_faulty(t) ==
  /\ At(t, "commit") /\ call[t].op = "set"
  /\ IF Retry(t)
     THEN GoTo(t, "collect") /\ UNCHANGED bucket
     ELSE /\ bucket' = Append(bucket, [key |-> call[t].key, val |-> call[t].val])
          /\ Done(t, call[t].val)

SetCommit(t) ==
  /\ At(t, "commit") /\ call[t].op = "set"
  /\ IF Retry(t)
     THEN GoTo(t, "collect") /\ UNCHANGED bucket
     ELSE Put(call[t].key, call[t].val) /\ Done(t, call[t].val)

RemoveCommit(t) ==
  LET o == call[t].key IN
  /\ At(t, "commit") /\ call[t].op = "remove"
  /\ CASE Retry(t) -> GoTo(t, "collect") /\ UNCHANGED bucket
       [] ~Retry(t) /\ o \in KeysOf(bucket) -> Take(o) /\ Done(t, ValueAt(o))
       [] OTHER -> Done(t, Absent) /\ UNCHANGED bucket

\* clear() by anybody.
Clear ==
  /\ bucket # <<>>
  /\ bucket' = <<>>
  /\ UNCHANGED call

-----------------------------------------------------------------------------
(* Histories. *)

\* What the list maps the key of object o to.
Mapped(list, o) ==
  LET vals == {e.val : e \in {f \in ToSet(list) : KeyOf[f.key] = KeyOf[o]}}
  IN IF vals = {} THEN {Absent} ELSE vals

Observe ==
  /\ seen' = [t \in Threads |->
       CASE call[t].pc # "idle" -> seen[t] \cup Mapped(bucket', call[t].key)
         [] call[t].pc = "idle" /\ call'[t].pc # "idle" -> Mapped(bucket', call'[t].key)
         [] OTHER -> seen[t]]
  /\ aba' = \/ aba
            \/ \E t \in Threads :
                 (KeysOf(bucket') \ KeysOf(bucket)) \cap call'[t].checked # {}

Step(t) ==
  \/ Begin(t)
  \/ SetFast(t) \/ RemoveFast(t)
  \/ Collect(t) \/ CompareNext(t) \/ CompareEnd(t)
  \/ Match(t)
  \/ InsertCommit(t) \/ SetCommit(t) \/ RemoveCommit(t)

Next == (Clear \/ \E t \in Threads : Step(t)) /\ Observe

Spec == Init /\ [][Next]_vars

-----------------------------------------------------------------------------
(* Properties. *)

\* The variables have their types, and no key object is in the list twice
\* (the pointer identity checks of map.rs:146-149, 235-238).
TypeOK ==
  /\ bucket \in Seq(Entry)
  /\ Cardinality(KeysOf(bucket)) = Len(bucket)
  /\ \A t \in Threads :
       /\ call[t].op \in {"none", "get"} \cup Writers \cup Inserters
       /\ call[t].pc \in {"idle", "fast", "collect", "compare", "match", "commit"}
       /\ call[t].checked \subseteq Objects
       /\ call[t].result \in Values \cup {Absent, Raised}
  /\ seen \in [Threads -> SUBSET (Values \cup {Absent})]
  /\ aba \in BOOLEAN

Unique == Cardinality({KeyOf[o] : o \in KeysOf(bucket)}) = Len(bucket)

\* A key has at most one entry (test_integration.py:665-668), unless a key
\* object was removed and the same object put back while a call was running
\* that had compared it and counts it as evaluated (map.rs:209-232).
OneEntryPerKey == ~aba => Unique

\* The same without the exception: "map 中不应产生重复 entry（len 应为 1）",
\* the map shall not have duplicate entries (test_integration.py:668).
NoDuplicateEntries == Unique

\* What a call returns was true at some moment of the call: get() and remove()
\* return a value the key was mapped to, or that it was absent; get_or_insert()
\* and set() leave the key mapped to what they return (map.rs:49-72, 99-155,
\* 158-243, 246-424).  Comparing outside the lock makes no answer stale, except
\* that a remove() may miss a key that is there once a key object has come back
\* (three threads can bring that about).
ResultsWereTrue ==
  \A t \in Threads :
    call[t].pc = "idle" => \/ call[t].result \in seen[t] \cup {Raised}
                           \/ aba /\ call[t].result = Absent

Found(t) ==
  /\ call[t].op = "remove" /\ call[t].pc # "idle"
  /\ call'[t].pc = "idle" /\ call'[t].result \in Values

\* "Atomically remove and return the key's value" (map.rs:335): the remove()
\* that reports a value takes one entry of its key with that value, and no
\* entry goes unreported except by clear().  No two calls report one entry.
RemovalsAreReported ==
  [][/\ \A t \in Threads : Found(t) =>
          \E i \in DOMAIN bucket :
            /\ KeyOf[bucket[i].key] = KeyOf[call[t].key]
            /\ bucket[i].val = call'[t].result
            /\ bucket' = RemoveAt(bucket, i)
     /\ Len(bucket') < Len(bucket) => bucket' = <<>> \/ \E t \in Threads : Found(t)]_vars
=============================================================================
