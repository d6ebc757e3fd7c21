------------------------------ MODULE OrderIds ------------------------------
(***************************************************************************)
(* OrderIdFactory (src/hermes/execution/order_id.py) over a shared         *)
(* FileStore (src/hermes/execution/seen_store.py): several processes issue *)
(* client order ids, remember the ids they have seen, and append each one  *)
(* to one file under an advisory lock.                                     *)
(*                                                                         *)
(* add() is four effects that other processes and a crash can fall         *)
(* between: the lock is taken, the line goes to the buffer of the file     *)
(* object, the lock is released, and closing the file writes the buffer    *)
(* out.  An id counts as handed out when generate() has returned it.       *)
(***************************************************************************)
EXTENDS Integers

CONSTANTS
    Procs,          \* processes that share the file
    Ids,            \* client order ids
    None,           \* no process holds the lock; no id is being added
    HaveFlock,      \* fcntl is there (_HAVE_FCNTL); otherwise no lock at all
    NonceCollides,  \* generate() may draw an id that was drawn before
    WriteMayFail    \* the file system may refuse the line

ASSUME OrderIdsAssumption ==
    /\ None \notin Procs \cup Ids
    /\ {HaveFlock, NonceCollides, WriteMayFail} \subseteq BOOLEAN

VARIABLES
    pc,         \* pc[p]: where process p is; "down" when it does not run
    seen,       \* seen[p]: _seen of the factory of p
    adding,     \* adding[p]: the id of the running add, or None
    returns,    \* returns[p]: the running add belongs to generate()
    buffered,   \* buffered[p]: the line is in the file object's buffer
    lock,       \* holder of the flock, or None
    file,       \* ids on the lines of the file
    \* History, read by no action of the program except to draw fresh ids.
    drawn,      \* ids generate() ever drew
    issued,     \* ids generate() handed out
    recorded,   \* ids whose add() returned normally
    owed        \* owed[p]: ids recorded when p read the file

local   == <<pc, seen, adding, returns, buffered>>
history == <<drawn, issued, recorded, owed>>
vars    == <<local, lock, file, history>>

Init ==
    /\ pc = [p \in Procs |-> "down"]
    /\ seen = [p \in Procs |-> {}]
    /\ adding = [p \in Procs |-> None]
    /\ returns = [p \in Procs |-> FALSE]
    /\ buffered = [p \in Procs |-> FALSE]
    /\ lock = None
    /\ file = {}
    /\ drawn = {} /\ issued = {} /\ recorded = {}
    /\ owed = [p \in Procs |-> {}]

\* _lock_ex and _unlock; without fcntl both do nothing.
Locks(p)   == IF HaveFlock THEN lock = None /\ lock' = p ELSE UNCHANGED lock
Unlocks(p) == IF HaveFlock THEN lock' = None ELSE UNCHANGED lock
Goes(p, from, to) == pc[p] = from /\ pc' = [pc EXCEPT ![p] = to]

-----------------------------------------------------------------------------
\* __init__ with a store: load() opens the file and waits for the lock.
Start(p) ==
    /\ Goes(p, "down", "load")
    /\ UNCHANGED <<seen, adding, returns, buffered, lock, file, history>>

LoadLocks(p) ==
    /\ Goes(p, "load", "read")
    /\ Locks(p)
    /\ UNCHANGED <<seen, adding, returns, buffered, file, history>>

\* Mutant of Lines: the lines are lost.
LinesIgnored == {}

\* What load() returns; a missing file is an empty one.
Lines == file

\* The lines are read under the lock.
LoadReads(p) ==
    /\ Goes(p, "read", "idle")
    /\ seen' = [seen EXCEPT ![p] = Lines]
    /\ owed' = [owed EXCEPT ![p] = recorded]
    /\ Unlocks(p)
    /\ UNCHANGED <<adding, returns, buffered, file, drawn, issued, recorded>>

\* add() opens the file for appending.
Adds(p, id) ==
    /\ Goes(p, "idle", "open")
    /\ seen' = [seen EXCEPT ![p] = @ \cup {id}]
    /\ adding' = [adding EXCEPT ![p] = id]

\* generate(): prefix, clock and nonce make the id; it is not compared with
\* the ids already seen.
Generate(p, id) ==
    /\ NonceCollides \/ id \notin drawn
    /\ Adds(p, id)
    /\ returns' = [returns EXCEPT ![p] = TRUE]
    /\ drawn' = drawn \cup {id}
    /\ UNCHANGED <<buffered, lock, file, issued, recorded, owed>>

\* register(): an id that came from elsewhere.
Register(p, id) ==
    /\ Adds(p, id)
    /\ UNCHANGED <<returns, buffered, lock, file, history>>

AddLocks(p) ==
    /\ Goes(p, "open", "locked")
    /\ Locks(p)
    /\ UNCHANGED <<seen, adding, returns, buffered, file, history>>

\* fh.write: a line is far shorter than the buffer, so nothing leaves it yet.
AddWrites(p) ==
    /\ Goes(p, "locked", "written")
    /\ buffered' = [buffered EXCEPT ![p] = TRUE]
    /\ UNCHANGED <<seen, adding, returns, lock, file, history>>

\* The finally clause of add() releases the lock.
AddUnlocks(p) ==
    /\ Goes(p, "written", "close")
    /\ Unlocks(p)
    /\ UNCHANGED <<seen, adding, returns, buffered, file, history>>

CallEnds(p) ==
    /\ Goes(p, "close", "idle")
    /\ buffered' = [buffered EXCEPT ![p] = FALSE]
    /\ adding' = [adding EXCEPT ![p] = None]
    /\ returns' = [returns EXCEPT ![p] = FALSE]

\* Leaving the `with` closes the file, which writes the buffer out, and the
\* call returns.
AddCloses(p) ==
    /\ CallEnds(p)
    /\ file' = IF buffered[p] THEN file \cup {adding[p]} ELSE file
    /\ recorded' = recorded \cup {adding[p]}
    /\ issued' = IF returns[p] THEN issued \cup {adding[p]} ELSE issued
    /\ UNCHANGED <<seen, lock, drawn, owed>>

\* Mutant of AddFails: the error is swallowed.
AddFailsSilently(p) ==
    /\ WriteMayFail
    /\ CallEnds(p)
    /\ recorded' = recorded \cup {adding[p]}
    /\ UNCHANGED <<seen, lock, file, drawn, issued, owed>>

\* The write is refused on close; the exception leaves generate().
AddFails(p) ==
    /\ WriteMayFail
    /\ CallEnds(p)
    /\ UNCHANGED <<seen, lock, file, history>>

\* Mutant of LockAfterCrash: a lock file, which nobody removes.
LockSurvives(p) == lock

\* The kernel drops the lock of a process that dies.
LockAfterCrash(p) == IF lock = p THEN None ELSE lock

\* The process is killed: its buffer is lost.
Crash(p) ==
    /\ pc[p] # "down"
    /\ pc' = [pc EXCEPT ![p] = "down"]
    /\ seen' = [seen EXCEPT ![p] = {}]
    /\ adding' = [adding EXCEPT ![p] = None]
    /\ returns' = [returns EXCEPT ![p] = FALSE]
    /\ buffered' = [buffered EXCEPT ![p] = FALSE]
    /\ lock' = LockAfterCrash(p)
    /\ owed' = [owed EXCEPT ![p] = {}]
    /\ UNCHANGED <<file, drawn, issued, recorded>>

AddStep(p) ==
    AddLocks(p) \/ AddWrites(p) \/ AddUnlocks(p) \/ AddCloses(p) \/ AddFails(p)

LoadStep(p) == LoadLocks(p) \/ LoadReads(p)

Next ==
    \E p \in Procs :
        \/ Start(p)
        \/ LoadStep(p)
        \/ \E id \in Ids : Generate(p, id) \/ Register(p, id)
        \/ AddStep(p)
        \/ Crash(p)

Spec == Init /\ [][Next]_vars

\* A process inside add() or load() keeps running, and one that waits for
\* the lock gets it if it is free again and again (flock queues waiters).
Fairness ==
    \A p \in Procs :
        /\ WF_vars(AddWrites(p) \/ AddUnlocks(p) \/ AddCloses(p) \/ LoadReads(p))
        /\ SF_vars(AddLocks(p) \/ LoadLocks(p))

FairSpec == Spec /\ Fairness

-----------------------------------------------------------------------------
(* Types.                                                                  *)
TypeOK ==
    /\ pc \in [Procs -> {"down", "load", "read", "idle",
                         "open", "locked", "written", "close"}]
    /\ seen \in [Procs -> SUBSET Ids]
    /\ adding \in [Procs -> Ids \cup {None}]
    /\ returns \in [Procs -> BOOLEAN]
    /\ buffered \in [Procs -> BOOLEAN]
    /\ lock \in Procs \cup {None}
    /\ file \subseteq Ids
    /\ drawn \subseteq Ids /\ issued \subseteq Ids
    /\ recorded \subseteq Ids
    /\ owed \in [Procs -> SUBSET Ids]

(* SeenStore, seen_store.py:58: add() "durably record[s] one ID".  An id   *)
(* that was handed out or registered is in the file, whichever process     *)
(* recorded it and whichever has been killed since.                        *)
RecordedIsStored == issued \subseteq recorded /\ recorded \subseteq file

(* order_id.py:20-22, "cross-restart persistence": a process recognises    *)
(* every id that any process had recorded before this one loaded the file. *)
RestartRecognisesIds ==
    \A p \in Procs : owed[p] \subseteq seen[p]

(* A process that waits for the file gets its turn unless it is killed     *)
(* first: no crash inside a critical section leaves the lock taken.        *)
AddReturns ==
    \A p \in Procs :
        pc[p] \in {"open", "load"} ~> pc[p] \in {"idle", "down"}

=============================================================================
