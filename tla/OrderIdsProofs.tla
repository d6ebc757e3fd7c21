--------------------------- MODULE OrderIdsProofs ---------------------------
(***************************************************************************)
(* Proofs about OrderIds, for any processes and ids, with or without       *)
(* flock, colliding nonces and refused writes.                             *)
(***************************************************************************)
EXTENDS OrderIds, TLAPS

\* Between write and close the line is in the buffer, and there is a line:
\* this is what makes closing the file enough.
AddInv ==
    \A p \in Procs :
        /\ pc[p] \in {"open", "locked", "written", "close"} => adding[p] \in Ids
        /\ pc[p] \in {"written", "close"} => buffered[p]

IdsInv == TypeOK /\ AddInv /\ RecordedIsStored /\ RestartRecognisesIds

LEMMA IdsInvInit == Init => IdsInv
<1> SUFFICES ASSUME Init PROVE IdsInv
    OBVIOUS
<1>1. TypeOK
    BY DEF Init, TypeOK
<1>2. AddInv
    BY DEF Init, AddInv
<1>3. RecordedIsStored /\ RestartRecognisesIds
    BY DEF Init, RecordedIsStored, RestartRecognisesIds
<1>4. QED
    BY <1>1, <1>2, <1>3 DEF IdsInv

\* Steps of the lock and of load() and add() up to the close.
LEMMA IdsFrame ==
    ASSUME IdsInv, TypeOK', AddInv',
           UNCHANGED <<seen, file, issued, recorded, owed>>
    PROVE  IdsInv'
BY DEF IdsInv, RecordedIsStored, RestartRecognisesIds

LEMMA LocksType ==
    ASSUME TypeOK, NEW p \in Procs, Locks(p) \/ Unlocks(p)
    PROVE  lock' \in Procs \cup {None}
BY DEF TypeOK, Locks, Unlocks

LEMMA IdsInvStep == IdsInv /\ [Next]_vars => IdsInv'
<1> SUFFICES ASSUME IdsInv, [Next]_vars PROVE IdsInv'
    OBVIOUS
<1> USE DEF history, local
<1>0. TypeOK /\ AddInv /\ RecordedIsStored /\ RestartRecognisesIds
    BY DEF IdsInv
<1>1. ASSUME NEW p \in Procs, Start(p) PROVE IdsInv'
  <2>1. TypeOK'
    BY <1>0, <1>1 DEF Start, Goes, TypeOK
  <2>2. AddInv'
    BY <1>0, <1>1 DEF Start, Goes, TypeOK, AddInv
  <2>3. QED
    BY <1>1, <2>1, <2>2, IdsFrame DEF Start
<1>2. ASSUME NEW p \in Procs, LoadLocks(p) PROVE IdsInv'
  <2>1. TypeOK'
    BY <1>0, <1>2, LocksType DEF LoadLocks, Goes, TypeOK
  <2>2. AddInv'
    BY <1>0, <1>2 DEF LoadLocks, Goes, TypeOK, AddInv
  <2>3. QED
    BY <1>2, <2>1, <2>2, IdsFrame DEF LoadLocks
<1>3. ASSUME NEW p \in Procs, LoadReads(p) PROVE IdsInv'
  <2>1. TypeOK'
    BY <1>0, <1>3, LocksType DEF LoadReads, Goes, Lines, TypeOK
  <2>2. AddInv'
    BY <1>0, <1>3 DEF LoadReads, Goes, TypeOK, AddInv
  <2>3. RecordedIsStored'
    BY <1>0, <1>3 DEF LoadReads, RecordedIsStored
  <2>4. RestartRecognisesIds'
    BY <1>0, <1>3 DEF LoadReads, Lines, TypeOK, RecordedIsStored,
                      RestartRecognisesIds
  <2>5. QED
    BY <2>1, <2>2, <2>3, <2>4 DEF IdsInv
<1>4. ASSUME NEW p \in Procs, NEW id \in Ids, Generate(p, id) \/ Register(p, id)
      PROVE  IdsInv'
  <2>1. /\ Adds(p, id)
        /\ returns' \in [Procs -> BOOLEAN] /\ drawn' \subseteq Ids
        /\ UNCHANGED <<buffered, lock, file, issued, recorded, owed>>
    BY <1>0, <1>4 DEF Generate, Register, TypeOK
  <2>2. TypeOK'
    BY <1>0, <2>1 DEF Adds, Goes, TypeOK
  <2>3. AddInv'
    BY <1>0, <2>1 DEF Adds, Goes, TypeOK, AddInv
  <2>4. RecordedIsStored' /\ RestartRecognisesIds'
    BY <1>0, <2>1 DEF Adds, TypeOK, RecordedIsStored, RestartRecognisesIds
  <2>5. QED
    BY <2>2, <2>3, <2>4 DEF IdsInv
<1>5. ASSUME NEW p \in Procs, AddLocks(p) PROVE IdsInv'
  <2>1. TypeOK'
    BY <1>0, <1>5, LocksType DEF AddLocks, Goes, TypeOK
  <2>2. AddInv'
    BY <1>0, <1>5 DEF AddLocks, Goes, TypeOK, AddInv
  <2>3. QED
    BY <1>5, <2>1, <2>2, IdsFrame DEF AddLocks
<1>6. ASSUME NEW p \in Procs, AddWrites(p) PROVE IdsInv'
  <2>1. TypeOK'
    BY <1>0, <1>6 DEF AddWrites, Goes, TypeOK
  <2>2. AddInv'
    BY <1>0, <1>6 DEF AddWrites, Goes, TypeOK, AddInv
  <2>3. QED
    BY <1>6, <2>1, <2>2, IdsFrame DEF AddWrites
<1>7. ASSUME NEW p \in Procs, AddUnlocks(p) PROVE IdsInv'
  <2>1. TypeOK'
    BY <1>0, <1>7, LocksType DEF AddUnlocks, Goes, TypeOK
  <2>2. AddInv'
    BY <1>0, <1>7 DEF AddUnlocks, Goes, TypeOK, AddInv
  <2>3. QED
    BY <1>7, <2>1, <2>2, IdsFrame DEF AddUnlocks
<1>8. ASSUME NEW p \in Procs, CallEnds(p), UNCHANGED <<seen, lock, drawn, owed>>,
             file' \subseteq Ids, issued' \subseteq Ids, recorded' \subseteq Ids
      PROVE  TypeOK' /\ AddInv' /\ RestartRecognisesIds'
  <2>1. TypeOK'
    BY <1>0, <1>8 DEF CallEnds, Goes, TypeOK
  <2>2. AddInv'
    BY <1>0, <1>8 DEF CallEnds, Goes, TypeOK, AddInv
  <2>3. QED
    BY <1>0, <1>8, <2>1, <2>2 DEF RestartRecognisesIds
<1>9. ASSUME NEW p \in Procs, AddCloses(p) PROVE IdsInv'
  <2>1. buffered[p] /\ adding[p] \in Ids
    BY <1>0, <1>9 DEF AddCloses, CallEnds, Goes, AddInv
  <2>2. /\ CallEnds(p) /\ UNCHANGED <<seen, lock, drawn, owed>>
        /\ file' = file \cup {adding[p]}
        /\ recorded' = recorded \cup {adding[p]}
        /\ issued' \in {issued, issued \cup {adding[p]}}
    BY <1>9, <2>1 DEF AddCloses
  <2>3. TypeOK' /\ AddInv' /\ RestartRecognisesIds'
    BY <1>0, <1>8, <2>1, <2>2 DEF TypeOK
  <2>4. RecordedIsStored'
    BY <1>0, <2>2 DEF RecordedIsStored
  <2>5. QED
    BY <2>3, <2>4 DEF IdsInv
<1>10. ASSUME NEW p \in Procs, AddFails(p) PROVE IdsInv'
  <2>1. CallEnds(p) /\ UNCHANGED <<seen, lock, file, drawn, issued, recorded, owed>>
    BY <1>10 DEF AddFails
  <2>2. TypeOK' /\ AddInv' /\ RestartRecognisesIds'
    BY <1>0, <1>8, <2>1 DEF TypeOK
  <2>3. RecordedIsStored'
    BY <1>0, <2>1 DEF RecordedIsStored
  <2>4. QED
    BY <2>2, <2>3 DEF IdsInv
<1>11. ASSUME NEW p \in Procs, Crash(p) PROVE IdsInv'
  <2>1. TypeOK'
    BY <1>0, <1>11 DEF Crash, LockAfterCrash, TypeOK
  <2>2. AddInv'
    BY <1>0, <1>11 DEF Crash, TypeOK, AddInv
  <2>3. RecordedIsStored' /\ RestartRecognisesIds'
    BY <1>0, <1>11 DEF Crash, TypeOK, RecordedIsStored, RestartRecognisesIds
  <2>4. QED
    BY <2>1, <2>2, <2>3 DEF IdsInv
<1>12. CASE UNCHANGED vars
    BY <1>0, <1>12 DEF vars, IdsInv, TypeOK, AddInv, RecordedIsStored,
                       RestartRecognisesIds
<1>13. QED
    BY <1>1, <1>2, <1>3, <1>4, <1>5, <1>6, <1>7, <1>9, <1>10, <1>11, <1>12
       DEF Next, LoadStep, AddStep

LEMMA IdsInvAlways == Spec => []IdsInv
BY IdsInvInit, IdsInvStep, PTL DEF Spec

(* Every process, the lock and the file are well typed.                    *)
THEOREM IdsTypeCorrect == Spec => []TypeOK
<1>1. IdsInv => TypeOK
    BY DEF IdsInv
<1>2. QED
    BY <1>1, IdsInvAlways, PTL

(* An id that generate() handed out or register() took is in the file,     *)
(* whichever processes write at once and whichever are killed (a line is   *)
(* one write; the lock plays no part in it).                               *)
THEOREM IdsAreDurable == Spec => []RecordedIsStored
<1>1. IdsInv => RecordedIsStored
    BY DEF IdsInv
<1>2. QED
    BY <1>1, IdsInvAlways, PTL

(* A process recognises every id recorded before it loaded the file.       *)
THEOREM RestartsRecogniseIds == Spec => []RestartRecognisesIds
<1>1. IdsInv => RestartRecognisesIds
    BY DEF IdsInv
<1>2. QED
    BY <1>1, IdsInvAlways, PTL

=============================================================================
