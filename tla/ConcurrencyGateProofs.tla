----------------------- MODULE ConcurrencyGateProofs -----------------------
(***************************************************************************)
(* Proofs about ConcurrencyGate for every set of processes, every choice   *)
(* of lock names (shared or not) and every limit.                          *)
(***************************************************************************)
EXTENDS ConcurrencyGate, FiniteSetTheorems, TLAPS

LockFile == [owner : Procs \cup {None}, pid : Procs \cup {None}]

(* A file that was never there, was created, or has its pid, is a lock file. *)
LEMMA LockFileType ==
    /\ NoFile \in LockFile /\ NoFile.owner = None
    /\ \A p \in Procs : /\ [owner |-> p, pid |-> None] \in LockFile
                        /\ [owner |-> p, pid |-> p] \in LockFile
  BY DEF NoFile, LockFile

(* The directory and the state of every process are well typed, and a lock *)
(* is being unlinked exactly in the reaping step of the scan.              *)
THEOREM GateTypeCorrect == Spec => []TypeOK
<1>1. Init => TypeOK
  <2> SUFFICES ASSUME Init PROVE TypeOK
    OBVIOUS
  <2>1. locks \in [Names -> LockFile]
    BY LockFileType DEF Init
  <2>2. QED
    BY <2>1, GateAssumption DEF Init, TypeOK, Entry, LockFile
<1>2. TypeOK /\ [Next]_vars => TypeOK'
  <2> SUFFICES ASSUME TypeOK, [Next]_vars PROVE TypeOK'
    OBVIOUS
  <2> USE GateAssumption
  <2>1. ASSUME NEW p \in Procs, Start(p)
        PROVE  TypeOK'
    BY <2>1 DEF Start, TypeOK, Entry
  <2>2. ASSUME NEW p \in Procs, NEW n \in Names, ReadLock(p, n)
        PROVE  TypeOK'
    <3>1. CASE ReadsAlive(n)
      BY <2>2, <3>1 DEF ReadLock, TypeOK, Entry
    <3>2. CASE ~ReadsAlive(n)
      <4>1. /\ pc' = [pc EXCEPT ![p] = "reap"] /\ reaping' = [reaping EXCEPT ![p] = n]
            /\ unread' = [unread EXCEPT ![p] = unread[p] \ {n}]
            /\ UNCHANGED <<locks, live, overlapped>>
        BY <2>2, <3>2 DEF ReadLock
      <4>2. n # None
        OBVIOUS
      <4>3. \A q \in Procs : pc'[q] = "reap" <=> reaping'[q] # None
        BY <4>1, <4>2 DEF TypeOK
      <4>4. /\ pc' \in [Procs -> Entry \cup {"idle", "held", "dead"}]
            /\ unread' \in [Procs -> SUBSET Names]
            /\ reaping' \in [Procs -> Names \cup {None}]
        BY <4>1 DEF TypeOK, Entry
      <4>5. QED
        BY <4>1, <4>3, <4>4 DEF TypeOK
    <3>3. QED
      BY <3>1, <3>2
  <2>3. ASSUME NEW p \in Procs, UnlinkDead(p)
        PROVE  TypeOK'
    BY <2>3 DEF UnlinkDead, TypeOK, Entry, NoFile
  <2>4. ASSUME NEW p \in Procs, Count(p)
        PROVE  TypeOK'
    BY <2>4 DEF Count, TypeOK, Entry
  <2>5. ASSUME NEW p \in Procs, Create(p)
        PROVE  TypeOK'
    <3>1. locks' \in [Names -> LockFile]
      BY <2>5, LockFileType DEF Create, TypeOK, LockFile
    <3>2. QED
      BY <2>5, <3>1 DEF Create, TypeOK, Entry, LockFile
  <2>6. ASSUME NEW p \in Procs, WritePid(p)
        PROVE  TypeOK'
    <3>1. locks' \in [Names -> LockFile]
      BY <2>6, LockFileType DEF WritePid, TypeOK, LockFile
    <3>2. QED
      BY <2>6, <3>1 DEF WritePid, TypeOK, Entry, LockFile
  <2>7. ASSUME NEW p \in Procs, Release(p)
        PROVE  TypeOK'
    BY <2>7 DEF Release, TypeOK, Entry, NoFile
  <2>8. ASSUME NEW p \in Procs, Crash(p)
        PROVE  TypeOK'
    BY <2>8 DEF Crash, TypeOK, Entry
  <2>9. CASE UNCHANGED vars
    BY <2>9 DEF vars, TypeOK
  <2>10. QED
    BY <2>1, <2>2, <2>3, <2>4, <2>5, <2>6, <2>7, <2>8, <2>9 DEF Next, Step
<1>3. QED
  BY <1>1, <1>2, PTL DEF Spec

(* The strengthening NoLeakedLock needs: a file has an owner, and lies     *)
(* under the name its owner uses, so that a release that goes by name      *)
(* removes whatever its process may have left.                             *)
Owned ==
    \A n \in Names : Present(n) =>
        /\ locks[n].owner \in Procs
        /\ LockOf[locks[n].owner] = n
        /\ pc[locks[n].owner] \in {"opened", "held", "dead"}

(* Every step keeps the strengthened invariant.                            *)
LEMMA OwnedStep ==
    ASSUME TypeOK, Owned, [Next]_vars
    PROVE  Owned'
<1> SUFFICES ASSUME NEW n \in Names, Present(n)'
             PROVE  /\ locks'[n].owner \in Procs
                    /\ LockOf[locks'[n].owner] = n
                    /\ pc'[locks'[n].owner] \in {"opened", "held", "dead"}
  BY DEF Owned
<1>a. Present(n) => /\ locks[n].owner \in Procs /\ LockOf[locks[n].owner] = n
                    /\ pc[locks[n].owner] \in {"opened", "held", "dead"}
  BY DEF Owned
<1>1. ASSUME NEW p \in Procs, Start(p) \/ Count(p) \/ (\E m \in Names : ReadLock(p, m))
      PROVE  /\ locks' = locks
             /\ \A q \in Procs : pc[q] \in {"opened", "held", "dead"} => pc'[q] = pc[q]
  BY <1>1 DEF Start, Count, ReadLock, TypeOK
<1>2. ASSUME NEW p \in Procs, UnlinkDead(p)
      PROVE  /\ locks'[n] = locks[n]
             /\ \A q \in Procs : pc[q] \in {"opened", "held", "dead"} => pc'[q] = pc[q]
  <2>1. \A q \in Procs : pc[q] \in {"opened", "held", "dead"} => pc'[q] = pc[q]
    BY <1>2 DEF UnlinkDead, TypeOK
  <2>2. locks' = [locks EXCEPT ![reaping[p]] = NoFile] /\ locks'[n] # NoFile
    BY <1>2 DEF UnlinkDead, Present
  <2>3. locks'[n] = locks[n]
    BY <2>2 DEF TypeOK
  <2>4. QED
    BY <2>1, <2>3
<1>3. ASSUME NEW p \in Procs, Create(p)
      PROVE  /\ locks'[n].owner \in Procs /\ LockOf[locks'[n].owner] = n
             /\ pc'[locks'[n].owner] \in {"opened", "held", "dead"}
  <2>1. \A q \in Procs : pc[q] \in {"opened", "held", "dead"} => pc'[q] = pc[q]
    BY <1>3 DEF Create, TypeOK
  <2>2. CASE locks'[n] = locks[n]
    BY <1>a, <2>1, <2>2 DEF Present
  <2>3. CASE locks'[n] # locks[n]
    <3>1. /\ n = LockOf[p] /\ pc' = [pc EXCEPT ![p] = "opened"]
          /\ locks' = [locks EXCEPT ![LockOf[p]] = [owner |-> p, pid |-> None]]
      BY <1>3, <2>3 DEF Create, TypeOK
    <3>2. locks'[n] = [owner |-> p, pid |-> None]
      BY <3>1 DEF TypeOK
    <3>3. pc'[p] = "opened"
      BY <3>1 DEF TypeOK
    <3>4. locks'[n].owner = p
      BY <3>2
    <3>5. QED
      BY <3>1, <3>3, <3>4
  <2>4. QED
    BY <2>2, <2>3
<1>4. ASSUME NEW p \in Procs, WritePid(p)
      PROVE  /\ locks'[n].owner \in Procs /\ LockOf[locks'[n].owner] = n
             /\ pc'[locks'[n].owner] \in {"opened", "held", "dead"}
  <2>1. \A q \in Procs : pc[q] \in {"opened", "held", "dead"} => pc'[q] \in {"opened", "held", "dead"}
    BY <1>4 DEF WritePid, TypeOK
  <2>2. CASE locks'[n] = locks[n]
    BY <1>a, <2>1, <2>2 DEF Present
  <2>3. CASE locks'[n] # locks[n]
    <3>1. /\ n = LockOf[p] /\ pc' = [pc EXCEPT ![p] = "held"]
          /\ locks' = [locks EXCEPT ![LockOf[p]] = [owner |-> p, pid |-> p]]
      BY <1>4, <2>3 DEF WritePid, TypeOK
    <3>2. locks'[n] = [owner |-> p, pid |-> p]
      BY <3>1 DEF TypeOK
    <3>3. pc'[p] = "held"
      BY <3>1 DEF TypeOK
    <3>4. locks'[n].owner = p
      BY <3>2
    <3>5. QED
      BY <3>1, <3>3, <3>4
  <2>4. QED
    BY <2>2, <2>3
<1>5. ASSUME NEW p \in Procs, Release(p)
      PROVE  /\ locks'[n].owner \in Procs /\ LockOf[locks'[n].owner] = n
             /\ pc'[locks'[n].owner] \in {"opened", "held", "dead"}
  <2>1. locks' = [locks EXCEPT ![LockOf[p]] = NoFile] /\ locks'[n] # NoFile
    BY <1>5 DEF Release, Present
  <2>2. n # LockOf[p] /\ locks'[n] = locks[n]
    BY <2>1 DEF TypeOK
  <2>3. \A q \in Procs : q # p => pc'[q] = pc[q]
    BY <1>5 DEF Release, TypeOK
  <2>4. Present(n)
    BY <2>1, <2>2 DEF Present
  <2>5. locks[n].owner # p
    BY <1>a, <2>2, <2>4
  <2>6. QED
    BY <1>a, <2>2, <2>3, <2>4, <2>5
<1>6. ASSUME NEW p \in Procs, Crash(p)
      PROVE  /\ locks' = locks
             /\ \A q \in Procs : pc[q] \in {"opened", "held", "dead"} => pc'[q] \in {"opened", "held", "dead"}
  BY <1>6 DEF Crash, TypeOK
<1>7. CASE UNCHANGED vars
  BY <1>7, <1>a DEF vars, Present
<1>8. QED
  BY <1>a, <1>1, <1>2, <1>3, <1>4, <1>5, <1>6, <1>7 DEF Next, Step, Present

(* A slot is never lost: whatever processes unlink each other's locks and   *)
(* die where they may, a lock file in the directory belongs to a process    *)
(* that is inside `hold` or dead.                                          *)
THEOREM NoSlotIsLost == Spec => []NoLeakedLock
<1>1. Init => Owned
  BY DEF Init, Owned, Present
<1>2. TypeOK /\ Owned /\ [Next]_vars => Owned'
  BY OwnedStep
<1>3. Owned => NoLeakedLock
  BY DEF Owned, NoLeakedLock
<1>4. QED
  BY <1>1, <1>2, <1>3, GateTypeCorrect, PTL DEF Spec

-----------------------------------------------------------------------------
(* The limit, while no two processes are in the entry at once *)

(* What the one process in the entry may rely on: everyone who holds a     *)
(* slot has its pid in its own lock file, and the scan has that file still *)
(* to read or has counted it.                                              *)
Orderly ==
    /\ \A p, q \in Procs : pc[p] \in Entry /\ pc[q] \in Entry => p = q
    /\ \A h \in Procs : pc[h] = "held" => locks[LockOf[h]] = [owner |-> h, pid |-> h]
    /\ \A p, h \in Procs :
          pc[p] \in {"scan", "reap"} /\ pc[h] = "held" => LockOf[h] \in unread[p] \cup live[p]
    /\ \A p, h \in Procs : pc[p] = "reap" /\ pc[h] = "held" => LockOf[h] # reaping[p]
    /\ \A p \in Procs : pc[p] \in {"create", "opened"} => Cardinality(Holding) < Limit
    /\ \A p \in Procs : pc[p] = "opened" => locks[LockOf[p]].owner = p
    /\ Cardinality(Holding) <= Limit

GateInv == overlapped \/ Orderly

(* Every process has a slot or not: there are finitely many.               *)
LEMMA HoldingFinite ==
    ASSUME NEW S \in SUBSET Procs
    PROVE  IsFiniteSet(S) /\ Cardinality(S) \in Nat
  BY FS_Subset, FS_CardinalityType, GateAssumption

LEMMA NamesFinite == IsFiniteSet(Names)
  <1>1. LockOf \in Surjection(Procs, Names)
    BY GateAssumption DEF Surjection, Names
  <1> QED
    BY <1>1, FS_Surjection, GateAssumption

LEMMA HolderLock ==
    ASSUME Orderly, NEW h \in Procs, pc[h] = "held"
    PROVE  /\ locks[LockOf[h]].owner = h /\ locks[LockOf[h]].pid = h
           /\ Present(LockOf[h]) /\ LockOf[h] \in Names
  <1> DEFINE lock == [owner |-> h, pid |-> h]
  <1>1. lock.owner = h /\ lock.pid = h /\ NoFile.owner = None /\ h # None
    BY GateAssumption DEF NoFile
  <1>2. locks[LockOf[h]] = lock /\ LockOf[h] \in Names
    BY GateAssumption DEF Orderly
  <1> HIDE DEF lock
  <1> QED
    BY <1>1, <1>2 DEF Present

(* Holders have locks of their own, so a count of the locks counts them.   *)
LEMMA CountsHolders ==
    ASSUME TypeOK, Orderly, NEW p \in Procs, pc[p] = "scan", unread[p] = {}
    PROVE  Cardinality(Holding) <= Cardinality(live[p])
  <1> DEFINE f == [h \in Holding |-> LockOf[h]]
  <1>1. live[p] \in SUBSET Names /\ Holding \in SUBSET Procs
    BY DEF TypeOK, Holding
  <1>2. /\ IsFiniteSet(live[p]) /\ IsFiniteSet(Holding)
        /\ Cardinality(live[p]) \in Nat /\ Cardinality(Holding) \in Nat
    BY <1>1, NamesFinite, HoldingFinite, FS_Subset, FS_CardinalityType
  <1>3. \A h \in Holding : h \in Procs /\ pc[h] = "held" /\ LockOf[h] \in live[p]
    BY DEF Orderly, Holding
  <1>4. f \in [Holding -> live[p]]
    BY <1>3
  <1>5. \A x, y \in Holding : LockOf[x] = LockOf[y] => x = y
    <2> SUFFICES ASSUME NEW x \in Holding, NEW y \in Holding, LockOf[x] = LockOf[y] PROVE x = y
      OBVIOUS
    <2>1. [owner |-> x, pid |-> x] = [owner |-> y, pid |-> y]
      BY <1>3 DEF Orderly
    <2> QED
      BY <2>1
  <1>6. ASSUME Cardinality(live[p]) < Cardinality(Holding) PROVE FALSE
    <2>1. \A x, y \in Holding : f[x] = f[y] => x = y
      BY <1>5
    <2> HIDE DEF f
    <2>2. \E x, y \in Holding : x # y /\ f[x] = f[y]
      BY <1>2, <1>4, <1>6, FS_PigeonHole
    <2> QED
      BY <2>1, <2>2
  <1> QED
    BY <1>2, <1>6

(* A step after which the same processes hold, or fewer.                   *)
LEMMA FewerHolders ==
    ASSUME TypeOK, Holding' \subseteq Holding
    PROVE  /\ Cardinality(Holding') <= Cardinality(Holding)
           /\ Cardinality(Holding) \in Nat /\ Cardinality(Holding') \in Nat
  <1>1. Holding \in SUBSET Procs /\ Holding' \in SUBSET Holding /\ Holding' \in SUBSET Procs
    BY DEF Holding
  <1> QED
    BY <1>1, HoldingFinite, FS_Subset

LEMMA LimitNat == Limit \in Nat
  BY GateAssumption

LEMMA StartOrderly ==
    ASSUME TypeOK, Orderly, NEW p \in Procs, Start(p), ~overlapped'
    PROVE  Orderly'
  <1>1. /\ pc' = [pc EXCEPT ![p] = "scan"] /\ pc[p] = "idle" /\ locks' = locks
        /\ unread' = [unread EXCEPT ![p] = {n \in Names : Present(n)}]
        /\ live' = [live EXCEPT ![p] = {}] /\ reaping' = reaping
    BY DEF Start
  <1>2. \A q \in Procs : pc[q] \notin Entry
    BY DEF Start, Entering
  <1>3. pc'[p] = "scan" /\ \A q \in Procs : q # p => pc'[q] = pc[q]
    BY <1>1 DEF TypeOK
  <1>4. Holding' = Holding
    BY <1>1, <1>3 DEF Holding
  <1>5. \A h \in Procs : pc[h] = "held" => Present(LockOf[h]) /\ LockOf[h] \in Names
    BY HolderLock
  <1>6. \A h \in Procs : pc'[h] = "held" => LockOf[h] \in unread'[p]
    BY <1>1, <1>3, <1>5 DEF TypeOK
  <1>7. \A q \in Procs : q # p => pc'[q] \notin Entry
    BY <1>2, <1>3
  <1> QED
    BY <1>1, <1>3, <1>4, <1>6, <1>7 DEF Orderly, Entry

LEMMA ReadOrderly ==
    ASSUME TypeOK, Orderly, NEW p \in Procs, NEW n \in Names, ReadLock(p, n)
    PROVE  Orderly'
  <1>1. /\ pc[p] = "scan" /\ locks' = locks /\ unread' = [unread EXCEPT ![p] = unread[p] \ {n}]
    BY DEF ReadLock
  <1>2. \A q \in Procs : q # p => pc[q] \notin Entry
    BY <1>1 DEF Orderly, Entry
  <1>3. CASE ReadsAlive(n)
    <2>1. live' = [live EXCEPT ![p] = live[p] \cup {n}] /\ UNCHANGED <<pc, reaping>>
      BY <1>3 DEF ReadLock
    <2>2. Holding' = Holding
      BY <2>1 DEF Holding
    <2>3. unread'[p] \cup live'[p] = unread[p] \cup live[p] \cup {n}
      BY <1>1, <2>1 DEF TypeOK
    <2> QED
      BY <1>1, <1>2, <2>1, <2>2, <2>3 DEF Orderly, Entry
  <1>4. CASE ~ReadsAlive(n)
    <2>1. pc' = [pc EXCEPT ![p] = "reap"] /\ reaping' = [reaping EXCEPT ![p] = n] /\ live' = live
      BY <1>4 DEF ReadLock
    <2>2. pc'[p] = "reap" /\ reaping'[p] = n /\ \A q \in Procs : q # p => pc'[q] = pc[q]
      BY <2>1 DEF TypeOK
    <2>3. Holding' = Holding
      BY <1>1, <2>2 DEF Holding
    <2>4. \A h \in Procs : pc[h] = "held" => LockOf[h] # n
      <3> SUFFICES ASSUME NEW h \in Procs, pc[h] = "held", LockOf[h] = n PROVE FALSE
        OBVIOUS
      <3>1. locks[n].pid = h /\ Present(n) /\ h # None
        BY HolderLock, GateAssumption
      <3> QED
        BY <1>4, <3>1 DEF ReadsAlive, Alive
    <2>5. unread'[p] = unread[p] \ {n}
      BY <1>1 DEF TypeOK
    <2>6. \A h \in Procs : pc'[h] = "held" => LockOf[h] \in unread'[p] \cup live'[p]
      BY <1>1, <2>1, <2>2, <2>4, <2>5 DEF Orderly
    <2>7. \A q \in Procs : q # p => pc'[q] \notin Entry
      BY <1>2, <2>2
    <2>8. \A h \in Procs : pc'[h] = "held" => pc[h] = "held"
      BY <2>2
    <2> QED
      BY <1>1, <2>2, <2>3, <2>4, <2>6, <2>7, <2>8 DEF Orderly, Entry
  <1> QED
    BY <1>3, <1>4

(* The lock that is unlinked is nobody's.                                  *)
LEMMA UnlinkOrderly ==
    ASSUME TypeOK, Orderly, NEW p \in Procs, UnlinkDead(p)
    PROVE  Orderly'
  <1>1. /\ pc[p] = "reap" /\ pc' = [pc EXCEPT ![p] = "scan"]
        /\ locks' = [locks EXCEPT ![reaping[p]] = NoFile]
        /\ reaping' = [reaping EXCEPT ![p] = None] /\ UNCHANGED <<unread, live>>
    BY DEF UnlinkDead
  <1>2. pc'[p] = "scan" /\ \A q \in Procs : q # p => pc'[q] = pc[q] /\ pc'[q] \notin Entry
    BY <1>1 DEF TypeOK, Orderly, Entry
  <1>3. Holding' = Holding
    BY <1>1, <1>2 DEF Holding
  <1>4. \A h \in Procs : pc'[h] = "held" => pc[h] = "held" /\ locks'[LockOf[h]] = locks[LockOf[h]]
    BY <1>1, <1>2, GateAssumption DEF Orderly, TypeOK
  <1> QED
    BY <1>1, <1>2, <1>3, <1>4 DEF Orderly, Entry

LEMMA CountOrderly ==
    ASSUME TypeOK, Orderly, NEW p \in Procs, Count(p)
    PROVE  Orderly'
  <1>1. /\ pc[p] = "scan" /\ unread[p] = {} /\ UNCHANGED <<locks, unread, live, reaping>>
        /\ pc' = [pc EXCEPT ![p] = IF Full(p) THEN "idle" ELSE "create"]
    BY DEF Count
  <1>2. /\ pc'[p] = IF Full(p) THEN "idle" ELSE "create"
        /\ \A q \in Procs : q # p => pc'[q] = pc[q] /\ pc'[q] \notin Entry
    BY <1>1 DEF TypeOK, Orderly, Entry
  <1>3. Holding' = Holding
    BY <1>1, <1>2 DEF Holding
  <1>4. ASSUME ~Full(p) PROVE Cardinality(Holding) < Limit
    <2>1. Cardinality(Holding) <= Cardinality(live[p])
      BY <1>1, CountsHolders
    <2>2. Cardinality(Holding) \in Nat /\ Cardinality(live[p]) \in Nat
      <3>1. live[p] \in SUBSET Names /\ Holding \in SUBSET Procs
        BY DEF TypeOK, Holding
      <3> QED
        BY <3>1, HoldingFinite, NamesFinite, FS_Subset, FS_CardinalityType
    <2> QED
      BY <1>4, <2>1, <2>2, LimitNat DEF Full
  <1>5. \A h \in Procs : pc'[h] = "held" => pc[h] = "held"
    BY <1>2
  <1> QED
    BY <1>1, <1>2, <1>3, <1>4, <1>5 DEF Orderly, Entry

LEMMA CreateOrderly ==
    ASSUME TypeOK, Orderly, NEW p \in Procs, Create(p)
    PROVE  Orderly'
  <1>1. pc[p] = "create" /\ UNCHANGED <<unread, live, reaping>>
    BY DEF Create
  <1>2. \A q \in Procs : q # p => pc'[q] = pc[q] /\ pc'[q] \notin Entry
    BY <1>1 DEF Create, TypeOK, Orderly, Entry
  <1>3. pc'[p] \in {"idle", "opened"}
    BY DEF Create, TypeOK
  <1>4. Holding' = Holding
    BY <1>1, <1>2, <1>3 DEF Holding
  <1>5. \A h \in Procs : pc'[h] = "held" => pc[h] = "held" /\ locks'[LockOf[h]] = locks[LockOf[h]]
    <2> SUFFICES ASSUME NEW h \in Procs, pc'[h] = "held"
                 PROVE  pc[h] = "held" /\ locks'[LockOf[h]] = locks[LockOf[h]]
      OBVIOUS
    <2>1. pc[h] = "held"
      BY <1>2, <1>3
    <2>2. Present(LockOf[h])
      BY <2>1, HolderLock
    <2> QED
      BY <2>1, <2>2, GateAssumption DEF Create, TypeOK
  <1>6. pc'[p] = "opened" => locks'[LockOf[p]].owner = p
    <2> SUFFICES ASSUME pc'[p] = "opened" PROVE locks'[LockOf[p]].owner = p
      OBVIOUS
    <2>1. locks' = [locks EXCEPT ![LockOf[p]] = [owner |-> p, pid |-> None]]
      BY DEF Create, TypeOK
    <2>2. locks'[LockOf[p]] = [owner |-> p, pid |-> None]
      BY <2>1, GateAssumption DEF TypeOK
    <2> QED
      BY <2>2
  <1>7. Cardinality(Holding) < Limit
    BY <1>1 DEF Orderly
  <1> QED
    BY <1>1, <1>2, <1>3, <1>4, <1>5, <1>6, <1>7 DEF Orderly, Entry

(* The one process more is one that counted fewer than the limit.          *)
LEMMA WriteOrderly ==
    ASSUME TypeOK, Orderly, NEW p \in Procs, WritePid(p)
    PROVE  Orderly'
  <1>1. /\ pc[p] = "opened" /\ pc' = [pc EXCEPT ![p] = "held"] /\ UNCHANGED <<unread, live, reaping>>
        /\ locks[LockOf[p]].owner = p
        /\ locks' = [locks EXCEPT ![LockOf[p]] = [owner |-> p, pid |-> p]]
    BY DEF WritePid, Orderly
  <1>2. pc'[p] = "held" /\ \A q \in Procs : q # p => pc'[q] = pc[q] /\ pc'[q] \notin Entry
    BY <1>1 DEF TypeOK, Orderly, Entry
  <1>3. Holding' = Holding \cup {p} /\ p \notin Holding
    BY <1>1, <1>2 DEF Holding
  <1>4. Cardinality(Holding') <= Limit
    <2>1. IsFiniteSet(Holding) /\ Cardinality(Holding) \in Nat
      <3>1. Holding \in SUBSET Procs
        BY DEF Holding
      <3> QED
        BY <3>1, HoldingFinite
    <2>2. Cardinality(Holding \cup {p}) = Cardinality(Holding) + 1
      BY <1>3, <2>1, FS_AddElement
    <2>3. Cardinality(Holding) < Limit
      BY <1>1 DEF Orderly
    <2> QED
      BY <1>3, <2>1, <2>2, <2>3, LimitNat
  <1>5. \A h \in Procs : pc'[h] = "held" => locks'[LockOf[h]] = [owner |-> h, pid |-> h]
    <2> SUFFICES ASSUME NEW h \in Procs, h # p, pc[h] = "held"
                 PROVE  locks'[LockOf[h]] = [owner |-> h, pid |-> h]
      BY <1>1, <1>2, GateAssumption DEF TypeOK
    <2>1. locks[LockOf[h]] = [owner |-> h, pid |-> h]
      BY DEF Orderly
    <2>2. LockOf[h] # LockOf[p]
      BY <1>1, <2>1
    <2> QED
      BY <1>1, <2>1, <2>2, GateAssumption DEF TypeOK
  <1>6. \A q \in Procs : pc'[q] \notin Entry
    BY <1>2 DEF Entry
  <1> QED
    BY <1>2, <1>4, <1>5, <1>6 DEF Orderly, Entry

(* A release unlinks the releasing process's own lock.                     *)
LEMMA LeaveOrderly ==
    ASSUME TypeOK, Orderly, NEW p \in Procs, Release(p) \/ Crash(p)
    PROVE  Orderly'
  <1>1. \A q \in Procs : q # p => pc'[q] = pc[q]
    BY DEF Release, Crash, TypeOK
  <1>2. pc'[p] \in {"idle", "dead"} /\ UNCHANGED <<unread, live>>
    BY DEF Release, Crash, TypeOK
  <1>3. \A q \in Procs : q # p => reaping'[q] = reaping[q]
    BY DEF Release, Crash, TypeOK
  <1>4. Holding' \subseteq Holding
    BY <1>1, <1>2 DEF Holding
  <1>5. /\ Cardinality(Holding') <= Cardinality(Holding)
        /\ Cardinality(Holding) \in Nat /\ Cardinality(Holding') \in Nat
    BY <1>4, FewerHolders
  <1>6. \A h \in Procs : h # p /\ pc[h] \in {"held", "opened"} =>
           locks'[LockOf[h]] = locks[LockOf[h]]
    <2> SUFFICES ASSUME NEW h \in Procs, h # p, pc[h] \in {"held", "opened"}, Release(p)
                 PROVE  locks'[LockOf[h]] = locks[LockOf[h]]
      BY DEF Crash
    <2>1. locks[LockOf[h]].owner = h
      BY HolderLock DEF Orderly
    <2>2. locks[LockOf[p]].owner = p
      BY HolderLock DEF Release
    <2>3. LockOf[h] # LockOf[p]
      BY <2>1, <2>2
    <2> QED
      BY <2>3, GateAssumption DEF Release, TypeOK
  <1>7. \A q \in Procs : pc'[q] \notin {"idle", "dead"} => q # p
    BY <1>2
  <1> QED
    BY <1>1, <1>2, <1>3, <1>5, <1>6, <1>7, LimitNat DEF Orderly, Entry

LEMMA OverlapRemembered == ASSUME [Next]_vars, overlapped PROVE overlapped'
  BY DEF Next, Step, vars, Start, ReadLock, UnlinkDead, Count, Create, WritePid, Release, Crash

LEMMA GateStep == TypeOK /\ GateInv /\ [Next]_vars => GateInv'
  <1> SUFFICES ASSUME TypeOK, GateInv, [Next]_vars, ~overlapped' PROVE Orderly'
    BY DEF GateInv
  <1>1. Orderly
    BY OverlapRemembered DEF GateInv
  <1>2. CASE UNCHANGED vars
    BY <1>1, <1>2 DEF vars, Orderly, Holding
  <1> QED
    BY <1>1, <1>2, StartOrderly, ReadOrderly, UnlinkOrderly, CountOrderly, CreateOrderly,
       WriteOrderly, LeaveOrderly DEF Next, Step

(* "At most `limit` tasks at once under one workspace base, across         *)
(* processes" (taskflow.py:134), for every limit and any number of         *)
(* processes that share lock names or not and die where they may, as long  *)
(* as no two of them have been between the listing and the pid at once.    *)
THEOREM LimitHolds == Spec => []LimitUnlessOverlap
  <1>1. Init => GateInv
    <2> SUFFICES ASSUME Init PROVE Orderly
      BY DEF GateInv
    <2>1. \A p \in Procs : pc[p] = "idle"
      BY DEF Init
    <2>2. Holding = {}
      BY <2>1 DEF Holding
    <2>3. Cardinality(Holding) <= Limit
      BY <2>2, FS_EmptySet, LimitNat
    <2> QED
      BY <2>1, <2>3 DEF Orderly, Entry
  <1>2. GateInv => LimitUnlessOverlap
    BY DEF GateInv, Orderly, LimitUnlessOverlap, AtMostLimit
  <1> QED
    BY <1>1, <1>2, GateStep, GateTypeCorrect, PTL DEF Spec
=============================================================================
