---------------------------- MODULE ConfigStore ----------------------------
(***************************************************************************)
(* What the agent promises of the configuration it serves, without the     *)
(* goroutines, the batches and the metadata: a store of APISIX objects     *)
(* with a revision that counts the events applied to it.  An object is     *)
(* named by the revision at which it was written.  A read returns what one *)
(* state of the store holds for the keys it asks for.                      *)
(***************************************************************************)
EXTENDS Integers

CONSTANTS
    Key,        \* the keys of the store
    Readers,    \* the clients that read it
    Targets,    \* the sets of keys a read may ask for
    Absent      \* no object

VARIABLES
    store,      \* the object stored under each key, or Absent
    rev,        \* how many events were applied
    read        \* what each client read last

storeVars == <<store, rev, read>>

Init ==
    /\ store = [k \in Key |-> Absent]
    /\ rev = 0
    /\ read = [r \in Readers |-> [k \in Key |-> Absent]]

\* An add or update of k: the object is written at the current revision.
Put(k) ==
    /\ store' = [store EXCEPT ![k] = rev]
    /\ rev' = rev + 1
    /\ UNCHANGED read

\* A delete of k counts as an event even when k is absent.
Remove(k) ==
    /\ store' = [store EXCEPT ![k] = Absent]
    /\ rev' = rev + 1
    /\ UNCHANGED read

\* Client r reads the keys of target at once.
Read(r, target) ==
    /\ read' = [read EXCEPT ![r] =
                  [k \in Key |-> IF k \in target THEN store[k] ELSE Absent]]
    /\ UNCHANGED <<store, rev>>

Next ==
    \/ \E k \in Key : Put(k) \/ Remove(k)
    \/ \E r \in Readers, target \in Targets : Read(r, target)

Spec == Init /\ [][Next]_storeVars
=============================================================================
