---------------------------- MODULE CacheContract ----------------------------
(***************************************************************************)
(* What a cache on disk promises the code that uses it.  It may forget an   *)
(* entry at any time.  An entry that was put since the program started, and *)
(* with no disk error since, is the last one put or is gone; any other one  *)
(* is at least something that was put under that key.                       *)
(***************************************************************************)
CONSTANTS
    Keys, Values,
    None        \* no value

VARIABLES
    store,   \* what a lookup yields: a value, or None for a miss
    latest,  \* the last value put, None when the promise is void
    past     \* what was ever put

vars == <<store, latest, past>>

Init ==
    /\ store = [k \in Keys |-> None] /\ latest = [k \in Keys |-> None]
    /\ past = [k \in Keys |-> {}]

\* v is put under k.
Put(k, v) ==
    /\ store' = [store EXCEPT ![k] = v]
    /\ latest' = [latest EXCEPT ![k] = v]
    /\ past' = [past EXCEPT ![k] = @ \cup {v}]

\* v is put under k and is taken to be there already.  Nothing is known of what
\* is there if nothing was known before.
PutAgain(k, v) ==
    /\ latest[k] \in {v, None}
    /\ past' = [past EXCEPT ![k] = @ \cup {v}]
    /\ UNCHANGED <<store, latest>>

\* What an entry may turn into by itself: it is dropped or, where nothing is promised
\* of it, it is replaced by another that was put under its key.
MayBecome(k) == {store[k], None} \cup IF latest[k] = None THEN past[k] ELSE {}

\* Time goes by.
Drift ==
    /\ \A k \in Keys : store'[k] \in MayBecome(k)
    /\ store' = [k \in Keys |-> store'[k]]
    /\ UNCHANGED <<latest, past>>

\* The disk fails under the entry k.
Fail(k) ==
    /\ latest' = [latest EXCEPT ![k] = None]
    /\ UNCHANGED <<store, past>>

\* The program ends, with or without a crash, and is started again.
Restart ==
    /\ latest' = [k \in Keys |-> None]
    /\ \A k \in Keys : store'[k] \in past[k] \cup {None}
    /\ store' = [k \in Keys |-> store'[k]]
    /\ UNCHANGED past

Next ==
    \/ \E k \in Keys, v \in Values : Put(k, v) \/ PutAgain(k, v)
    \/ Drift
    \/ \E k \in Keys : Fail(k)
    \/ Restart

Spec == Init /\ [][Next]_vars
=============================================================================
