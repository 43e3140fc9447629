-------------------------- MODULE ApiServerProofs --------------------------
(***************************************************************************)
(* The plugin host behind the API, for any number of request threads, any  *)
(* plugin files and any limits.                                            *)
(*                                                                         *)
(* Whatever a request thread does is summed up in Moves: it changes its    *)
(* own program counter and no other, and what it takes from a semaphore or *)
(* adds to the overruns is made up for by where it stands.  The counting   *)
(* arguments use Moves and never look at an action.                        *)
(***************************************************************************)
EXTENDS ApiServer, FiniteSetTheorems, TLAPS

-----------------------------------------------------------------------------
(* Counting *)

One(b) == IF b THEN 1 ELSE 0

(* Two sets that differ in one element at most have sizes that differ by   *)
(* whether it is in the one and in the other.                              *)
LEMMA CountChange ==
    ASSUME NEW S, NEW T, NEW x, IsFiniteSet(S), \A y : y # x => (y \in S <=> y \in T)
    PROVE  /\ IsFiniteSet(T)
           /\ Cardinality(S) \in Nat /\ Cardinality(T) \in Nat
           /\ Cardinality(T) + One(x \in S) = Cardinality(S) + One(x \in T)
  <1> DEFINE R == S \ {x}
  <1>1. IsFiniteSet(R) /\ Cardinality(S) \in Nat /\ Cardinality(R) \in Nat
    BY FS_RemoveElement, FS_CardinalityType
  <1>2. x \notin R /\ (x \in S => S = R \cup {x}) /\ (x \notin S => S = R)
    OBVIOUS
  <1>3. (x \in T => T = R \cup {x}) /\ (x \notin T => T = R)
    OBVIOUS
  <1>4. IsFiniteSet(R \cup {x}) /\ Cardinality(R \cup {x}) = Cardinality(R) + 1
    <2> HIDE DEF R
    <2> QED
      BY <1>1, <1>2, FS_AddElement
  <1> HIDE DEF R
  <1>5. Cardinality(S) = Cardinality(R) + One(x \in S)
    BY <1>1, <1>2, <1>4 DEF One
  <1>6. IsFiniteSet(T) /\ Cardinality(T) = Cardinality(R) + One(x \in T)
    <2>1. CASE x \in T
      <3>1. T = R \cup {x}
        BY <2>1, <1>3
      <3> QED
        BY <2>1, <3>1, <1>4 DEF One
    <2>2. CASE x \notin T
      <3>1. T = R
        BY <2>2, <1>3
      <3> QED
        BY <2>2, <3>1, <1>1 DEF One
    <2> QED
      BY <2>1, <2>2
  <1> QED
    BY <1>1, <1>5, <1>6 DEF One

(* Some request threads are finitely many, and no more than all of them.   *)
LEMMA ThreadsFinite ==
    ASSUME NEW S \in SUBSET Threads
    PROVE  /\ IsFiniteSet(S) /\ Cardinality(S) \in Nat /\ Cardinality(Threads) \in Nat
           /\ Cardinality(S) <= Cardinality(Threads)
  BY FS_Subset, FS_CardinalityType, HostAssumption

(* The first directory that holds the plugin is a directory.               *)
LEMMA FirstFound ==
    ASSUME NEW S \in SUBSET Dirs, S # {}
    PROVE  Min(S) \in S
  <1>1. S \subseteq Nat
    BY HostAssumption
  <1> DEFINE Less == {ss \in Nat \X Nat : ss[1] < ss[2]}
  <1>2. OpToRel(<, Nat) = Less
    BY Zenon DEF OpToRel
  <1>3. IsWellFoundedOn(Less, Nat)
    BY <1>2, NatLessThanWellFounded, Zenon
  <1>4. \E x \in S : \A y \in S : ~ (<<y, x>> \in Less)
    <2> HIDE DEF Less
    <2> QED
      BY <1>1, <1>3, WFMin, Zenon
  <1>5. \E x \in S : \A y \in S : x =< y
    <2>1. PICK x \in S : \A y \in S : ~ (<<y, x>> \in Less)
      BY <1>4
    <2>2. ASSUME NEW y \in S PROVE x =< y
      <3>1. ~ (<<y, x>> \in Less) /\ x \in Nat /\ y \in Nat
        BY <1>1, <2>1
      <3> QED
        BY <3>1
    <2> QED
      BY <2>2
  <1> QED
    BY <1>5 DEF Min

-----------------------------------------------------------------------------
(* The invariant *)

PCs == {"idle", "accepted", "reading", "admitted", "registering", "found", "slotted",
        "running", "hanging", "counted", "overrun"}

(* Bytes that may run: somebody gave their digest to enable. *)
Allowed == approved \cup {None}

Calls == [pc : PCs, code : Allowed, orphan : BOOLEAN, kept : Allowed]

Records ==
    [state : {"none", "discovered", "enabled", "disabled", "failed"}, dir : Dirs \cup {0},
     provides : SUBSET Kinds, digest : Versions \cup {None}, items : SUBSET Kinds,
     source : Allowed]

(* Types; in particular every place that holds bytes holds approved ones. *)
HostTypeOK ==
    /\ isolation \in {"process", "thread"}
    /\ disk \in [Dirs -> Versions]
    /\ record \in Records
    /\ record.state # "none" => record.dir \in Dirs
    /\ call \in [Threads -> Calls]
    /\ approved \subseteq Codes
    /\ \A t \in Threads : call[t].pc = "registering" => call[t].code # None
    /\ slots \in Nat /\ stuck \in Nat

(* Slots are taken in process isolation, overruns counted in threads. *)
ModesApart ==
    \A t \in Threads :
        /\ call[t].pc = "slotted" => isolation = "process"
        /\ call[t].pc \in {"counted", "overrun"} => isolation = "thread"

HostInv == HostTypeOK /\ ModesApart

(* _enable keeps the lock while the plugin's register runs, and the record *)
(* it is about.                                                            *)
UnderLock ==
    \A t \in Threads : call[t].pc = "registering" => lock = t /\ record.state # "none"

Writer(t) == caller[t] = "token" \/ (identityOn /\ caller[t] = "operator")

(* A request that is about to change a plugin came from a writer. *)
WritersAdmitted ==
    /\ caller \in [Threads -> Callers \cup {None}]
    /\ \A t \in Threads : call[t].pc \in {"admitted", "registering"} => Writer(t)

SlotAt(t) == isolation = "process" /\ call[t].pc \in {"slotted", "running", "hanging"}
StartedAt(t) == isolation = "thread" /\ call[t].pc \in {"counted", "running", "overrun"}

(* The lock is left alone, or was free, or is given back. *)
KeepsLock(t) ==
    \/ UNCHANGED <<lock, record>> /\ (call'[t].pc = "registering" => call[t].pc = "registering")
    \/ lock = None /\ (call'[t].pc = "registering" => lock' = t /\ record'.state # "none")
    \/ call[t].pc = "registering" /\ call'[t].pc = "idle"

Moves(t) ==
    /\ isolation' = isolation
    /\ KeepsLock(t)
    /\ call'[t].pc = "admitted" => call[t].pc = "accepted"
    /\ call'[t].pc = "registering" => call[t].pc \in {"admitted", "registering"}
    /\ call[t].pc # "idle"
    /\ \A u \in Threads \ {t} : call'[u].pc = call[u].pc
    /\ slots' + One(SlotAt(t)') = slots + One(SlotAt(t))
    /\ \/ stuck' + One(StartedAt(t)') <= stuck + One(StartedAt(t))
       \/ stuck' = stuck /\ stuck < MaxStuck

-----------------------------------------------------------------------------
(* HostInv is inductive *)

LEMMA HostInitially == Init => HostInv
  <1> SUFFICES ASSUME Init PROVE HostInv
    OBVIOUS
  <1>1. Idle \in Calls /\ Idle.pc = "idle"
    BY DEF Idle, Calls, PCs, Allowed
  <1>2. NoRecord \in Records /\ NoRecord.state = "none"
    BY DEF NoRecord, Records, Allowed
  <1>3. call \in [Threads -> Calls] /\ \A t \in Threads : call[t].pc = "idle"
    BY <1>1 DEF Init, HostInit
  <1>4. record \in Records /\ record.state = "none"
    BY <1>2 DEF Init, HostInit
  <1>5. isolation \in {"process", "thread"} /\ disk \in [Dirs -> Versions]
    BY HostAssumption DEF Init, HostInit
  <1>6. approved = {} /\ slots \in Nat /\ stuck \in Nat
    BY HostAssumption DEF Init, HostInit
  <1> QED
    BY <1>3, <1>4, <1>5, <1>6 DEF HostInv, HostTypeOK, ModesApart

(* A thread that goes on, or answers, is still a thread in a known place.  *)
LEMMA CallsStay ==
    ASSUME NEW t \in Threads, NEW pc \in PCs, HostInv, UNCHANGED <<approved, isolation>>,
           Answer(t) \/ Goto(t, pc), pc # "registering",
           pc = "slotted" => isolation = "process",
           pc \in {"counted", "overrun"} => isolation = "thread"
    PROVE  /\ call' \in [Threads -> Calls'] /\ ModesApart'
           /\ \A u \in Threads : call'[u].pc = "registering" => call'[u].code # None
           /\ \A u \in Threads \ {t} : call'[u] = call[u]
           /\ call'[t].pc \in {"idle", pc}
  <1>1. Calls' = Calls /\ Idle \in Calls /\ Idle.pc = "idle"
    BY DEF Calls, Allowed, Idle, PCs
  <1>2. call \in [Threads -> Calls]
    BY DEF HostInv, HostTypeOK
  <1>3. CASE Answer(t)
    <2>1. call' \in [Threads -> Calls] /\ call'[t] = Idle
          /\ \A u \in Threads \ {t} : call'[u] = call[u]
      BY <1>1, <1>2, <1>3 DEF Answer
    <2> QED
      BY <1>1, <2>1 DEF HostInv, HostTypeOK, ModesApart
  <1>4. CASE Goto(t, pc)
    <2>1. [call[t] EXCEPT !.pc = pc] \in Calls /\ [call[t] EXCEPT !.pc = pc].pc = pc
      BY <1>2 DEF Calls
    <2>2. call' \in [Threads -> Calls] /\ call'[t].pc = pc
          /\ \A u \in Threads \ {t} : call'[u] = call[u]
      BY <1>2, <1>4, <2>1 DEF Goto
    <2> QED
      BY <1>1, <2>2 DEF HostInv, HostTypeOK, ModesApart
  <1> QED
    BY <1>3, <1>4

(* What is left to show of an action that leaves the record alone.         *)
LEMMA RecordStays ==
    ASSUME HostInv, UNCHANGED <<isolation, disk, record, approved>>,
           call' \in [Threads -> Calls'], ModesApart',
           \A u \in Threads : call'[u].pc = "registering" => call'[u].code # None,
           slots' \in Nat, stuck' \in Nat
    PROVE  HostInv'
  <1>1. Records' = Records
    BY DEF Records, Allowed
  <1> QED
    BY <1>1 DEF HostInv, HostTypeOK

(* The steps of a call that leave the registry's record alone.             *)
LEMMA PlainSteps ==
    ASSUME NEW t \in Threads, HostInv,
           \/ list(t) \/ Acquire(t) \/ ChildEnds(t) \/ ChildHangs(t) \/ CountStuck(t)
           \/ StartThread(t) \/ Joined(t) \/ _remember_stuck(t)
    PROVE  HostInv' /\ Moves(t)
  <1>0. /\ slots \in Nat /\ stuck \in Nat /\ call \in [Threads -> Calls]
        /\ MaxStuck \in Nat /\ isolation \in {"process", "thread"}
    BY HostAssumption DEF HostInv, HostTypeOK
  <1>1. CASE list(t)
    <2>1. /\ UNCHANGED <<isolation, disk, record, lock, approved>>
          /\ slots' = slots /\ stuck' = stuck
          /\ call[t].pc = "reading"
          /\ Answer(t)
      BY <1>1 DEF list
    <2>2. /\ call' \in [Threads -> Calls'] /\ ModesApart'
          /\ \A u \in Threads : call'[u].pc = "registering" => call'[u].code # None
          /\ \A u \in Threads \ {t} : call'[u] = call[u]
          /\ call'[t].pc = "idle"
      BY <2>1, CallsStay, "idle" \in PCs DEF PCs
    <2>3. HostInv'
      BY <1>0, <2>1, <2>2, RecordStays
    <2> QED
      BY <1>0, <2>1, <2>2, <2>3 DEF Moves, KeepsLock, One, SlotAt, StartedAt
  <1>2. CASE Acquire(t)
    <2>1. /\ UNCHANGED <<isolation, disk, record, lock, approved>> /\ stuck' = stuck
          /\ call[t].pc = "found" /\ isolation = "process"
          /\ \/ slots > 0 /\ slots' = slots - 1 /\ Goto(t, "slotted")
             \/ slots' = slots /\ Answer(t)
      BY <1>2 DEF Acquire
    <2>2. CASE Goto(t, "slotted") /\ slots > 0 /\ slots' = slots - 1
      <3>1. /\ call' \in [Threads -> Calls'] /\ ModesApart'
            /\ \A u \in Threads : call'[u].pc = "registering" => call'[u].code # None
            /\ \A u \in Threads \ {t} : call'[u] = call[u]
        BY <2>1, <2>2, CallsStay, "slotted" \in PCs DEF PCs
      <3>2. call'[t].pc = "slotted"
        BY <1>0, <2>2 DEF Goto, Calls
      <3>3. HostInv'
        BY <1>0, <2>1, <2>2, <3>1, RecordStays
      <3> QED
        BY <1>0, <2>1, <2>2, <3>1, <3>2, <3>3 DEF Moves, KeepsLock, One, SlotAt, StartedAt
    <2>3. CASE Answer(t) /\ slots' = slots
      <3>1. /\ call' \in [Threads -> Calls'] /\ ModesApart'
            /\ \A u \in Threads : call'[u].pc = "registering" => call'[u].code # None
            /\ \A u \in Threads \ {t} : call'[u] = call[u]
            /\ call'[t].pc = "idle"
        BY <2>1, <2>3, CallsStay, "idle" \in PCs DEF PCs
      <3>2. HostInv'
        BY <1>0, <2>1, <2>3, <3>1, RecordStays
      <3> QED
        BY <1>0, <2>1, <2>3, <3>1, <3>2 DEF Moves, KeepsLock, One, SlotAt, StartedAt
    <2> QED
      BY <2>1, <2>2, <2>3
  <1>3. CASE ChildEnds(t)
    <2>1. /\ UNCHANGED <<isolation, disk, record, lock, approved>>
          /\ slots' = slots + 1 /\ stuck' = stuck
          /\ call[t].pc = "running" /\ isolation = "process"
          /\ Answer(t)
      BY <1>3 DEF ChildEnds
    <2>2. /\ call' \in [Threads -> Calls'] /\ ModesApart'
          /\ \A u \in Threads : call'[u].pc = "registering" => call'[u].code # None
          /\ \A u \in Threads \ {t} : call'[u] = call[u]
          /\ call'[t].pc = "idle"
      BY <2>1, CallsStay, "idle" \in PCs DEF PCs
    <2>3. HostInv'
      BY <1>0, <2>1, <2>2, RecordStays
    <2> QED
      BY <1>0, <2>1, <2>2, <2>3 DEF Moves, KeepsLock, One, SlotAt, StartedAt
  <1>4. CASE CountStuck(t)
    <2>1. /\ UNCHANGED <<isolation, disk, record, lock, approved>>
          /\ slots' = slots /\ stuck' = stuck
          /\ call[t].pc = "found" /\ isolation = "thread"
          /\ Answer(t) \/ (Goto(t, "counted") /\ stuck < MaxStuck)
      BY <1>4 DEF CountStuck, Room
    <2>2. /\ call' \in [Threads -> Calls'] /\ ModesApart'
          /\ \A u \in Threads : call'[u].pc = "registering" => call'[u].code # None
          /\ \A u \in Threads \ {t} : call'[u] = call[u]
          /\ call'[t].pc \in {"idle", "counted"}
      BY <2>1, CallsStay, "counted" \in PCs DEF PCs
    <2>3. HostInv'
      BY <1>0, <2>1, <2>2, RecordStays
    <2>4. call'[t].pc = "idle" \/ stuck < MaxStuck
      BY <1>0, <2>1 DEF Answer, Idle
    <2> QED
      BY <1>0, <2>1, <2>2, <2>3, <2>4 DEF Moves, KeepsLock, One, SlotAt, StartedAt
  <1>5. CASE StartThread(t)
    <2>1. /\ UNCHANGED <<isolation, disk, record, lock, approved>>
          /\ slots' = slots /\ stuck' = stuck
          /\ call[t].pc = "counted"
          /\ Goto(t, "running")
      BY <1>5 DEF StartThread
    <2>2. /\ call' \in [Threads -> Calls'] /\ ModesApart'
          /\ \A u \in Threads : call'[u].pc = "registering" => call'[u].code # None
          /\ \A u \in Threads \ {t} : call'[u] = call[u]
          /\ call'[t].pc \in {"idle", "running"}
      BY <2>1, CallsStay, "running" \in PCs DEF PCs
    <2>3. HostInv'
      BY <1>0, <2>1, <2>2, RecordStays
    <2>4. call'[t].pc = "running"
      BY <1>0, <2>1 DEF Goto, Calls
    <2> QED
      BY <1>0, <2>1, <2>2, <2>3, <2>4 DEF Moves, KeepsLock, One, SlotAt, StartedAt, HostInv, ModesApart
  <1>6. CASE Joined(t)
    <2>1. /\ UNCHANGED <<isolation, disk, record, lock, approved>>
          /\ slots' = slots /\ stuck' = stuck
          /\ call[t].pc = "running" /\ isolation = "thread"
          /\ Answer(t) \/ Goto(t, "overrun")
      BY <1>6 DEF Joined
    <2>2. /\ call' \in [Threads -> Calls'] /\ ModesApart'
          /\ \A u \in Threads : call'[u].pc = "registering" => call'[u].code # None
          /\ \A u \in Threads \ {t} : call'[u] = call[u]
          /\ call'[t].pc \in {"idle", "overrun"}
      BY <2>1, CallsStay, "overrun" \in PCs DEF PCs
    <2>3. HostInv'
      BY <1>0, <2>1, <2>2, RecordStays
    <2> QED
      BY <1>0, <2>1, <2>2, <2>3 DEF Moves, KeepsLock, One, SlotAt, StartedAt
  <1>7. CASE _remember_stuck(t)
    <2>1. /\ UNCHANGED <<isolation, disk, record, lock, approved>>
          /\ slots' = slots /\ stuck' = stuck + 1
          /\ call[t].pc = "overrun"
          /\ Answer(t)
      BY <1>7 DEF _remember_stuck
    <2>2. /\ call' \in [Threads -> Calls'] /\ ModesApart'
          /\ \A u \in Threads : call'[u].pc = "registering" => call'[u].code # None
          /\ \A u \in Threads \ {t} : call'[u] = call[u]
          /\ call'[t].pc = "idle"
      BY <2>1, CallsStay, "idle" \in PCs DEF PCs
    <2>3. HostInv'
      BY <1>0, <2>1, <2>2, RecordStays
    <2> QED
      BY <1>0, <2>1, <2>2, <2>3 DEF Moves, KeepsLock, One, SlotAt, StartedAt, HostInv, ModesApart
  <1>8. CASE ChildHangs(t)
    <2>1. /\ UNCHANGED <<isolation, disk, record, lock, approved>>
          /\ slots' = slots /\ stuck' = stuck
          /\ call[t].pc = "running" /\ isolation = "process"
          /\ Goto(t, "hanging")
      BY <1>8 DEF ChildHangs
    <2>2. /\ call' \in [Threads -> Calls'] /\ ModesApart'
          /\ \A u \in Threads : call'[u].pc = "registering" => call'[u].code # None
          /\ \A u \in Threads \ {t} : call'[u] = call[u]
      BY <2>1, CallsStay, "hanging" \in PCs DEF PCs
    <2>3. call'[t].pc = "hanging"
      BY <1>0, <2>1 DEF Goto, Calls
    <2>4. HostInv'
      BY <1>0, <2>1, <2>2, RecordStays
    <2> QED
      BY <1>0, <2>1, <2>2, <2>3, <2>4 DEF Moves, KeepsLock, One, SlotAt, StartedAt
  <1> QED
    BY <1>1, <1>2, <1>3, <1>4, <1>5, <1>6, <1>7, <1>8

(* Spawn hands the child the bytes its record object holds: approved ones, *)
(* of the record as it is now or of the object a rescan dropped.           *)
LEMMA SpawnStep ==
    ASSUME NEW t \in Threads, HostInv, Spawn(t)
    PROVE  HostInv' /\ Moves(t)
  <1>0. /\ call \in [Threads -> Calls] /\ record \in Records /\ slots \in Nat /\ stuck \in Nat
        /\ Calls' = Calls
    BY DEF HostInv, HostTypeOK, Calls, Allowed, Spawn
  <1>1. SourceOf(t) \in Allowed
    BY <1>0 DEF SourceOf, Calls, Records
  <1> DEFINE new == [call[t] EXCEPT !.pc = "running", !.code = SourceOf(t),
                                    !.orphan = FALSE, !.kept = None]
  <1>2. new \in Calls /\ new.pc = "running"
    BY <1>0, <1>1 DEF Calls, PCs, Allowed
  <1>3. call' = [call EXCEPT ![t] = new]
    BY <1>0 DEF Spawn
  <1> HIDE DEF new
  <1>4. /\ call' \in [Threads -> Calls'] /\ call'[t].pc = "running"
        /\ \A u \in Threads \ {t} : call'[u] = call[u]
    BY <1>0, <1>2, <1>3
  <1>5. /\ UNCHANGED <<isolation, disk, record, lock, approved>> /\ slots' = slots /\ stuck' = stuck
        /\ call[t].pc = "slotted" /\ isolation = "process"
    BY DEF Spawn, HostInv, ModesApart
  <1>6. /\ ModesApart'
        /\ \A u \in Threads : call'[u].pc = "registering" => call'[u].code # None
    BY <1>4, <1>5 DEF HostInv, HostTypeOK, ModesApart
  <1>7. HostInv'
    BY <1>0, <1>4, <1>5, <1>6, RecordStays
  <1> QED
    BY <1>0, <1>4, <1>5, <1>7 DEF Moves, KeepsLock, One, SlotAt, StartedAt

(* A lookup in thread mode takes the function of the approved bytes.       *)
LEMMA LookupStep ==
    ASSUME NEW t \in Threads, NEW k \in Kinds, HostInv, Lookup(t, k)
    PROVE  HostInv' /\ Moves(t)
  <1>0. /\ call \in [Threads -> Calls] /\ record \in Records /\ slots \in Nat /\ stuck \in Nat
        /\ Calls' = Calls
    BY DEF HostInv, HostTypeOK, Calls, Allowed, Lookup
  <1>1. /\ UNCHANGED <<isolation, disk, record, lock, approved>> /\ slots' = slots /\ stuck' = stuck
        /\ call[t].pc = "admitted"
    BY DEF Lookup
  <1> DEFINE new == [call[t] EXCEPT !.pc = "found",
                        !.code = IF isolation = "thread" THEN record.source ELSE None]
  <1>2. new \in Calls /\ new.pc = "found" /\ Idle \in Calls /\ Idle.pc = "idle"
    BY <1>0 DEF Calls, PCs, Allowed, Records, Idle
  <1>3. call' = [call EXCEPT ![t] = new] \/ call' = [call EXCEPT ![t] = Idle]
    BY <1>0 DEF Lookup, Answer
  <1> HIDE DEF new
  <1>4. /\ call' \in [Threads -> Calls'] /\ call'[t].pc \in {"idle", "found"}
        /\ \A u \in Threads \ {t} : call'[u] = call[u]
    BY <1>0, <1>2, <1>3
  <1>6. /\ ModesApart'
        /\ \A u \in Threads : call'[u].pc = "registering" => call'[u].code # None
    BY <1>1, <1>4 DEF HostInv, HostTypeOK, ModesApart
  <1>7. HostInv'
    BY <1>0, <1>1, <1>4, <1>6, RecordStays
  <1> QED
    BY <1>0, <1>1, <1>4, <1>7 DEF Moves, KeepsLock, One, SlotAt, StartedAt

(* What an action has to show that changes the record and answers or goes  *)
(* on to register.                                                         *)
LEMMA RecordMoves ==
    ASSUME NEW t \in Threads, NEW c \in Calls', HostInv,
           isolation' = isolation, disk' = disk, slots' = slots, stuck' = stuck,
           approved \subseteq approved', approved' \subseteq Codes,
           call' = [call EXCEPT ![t] = c],
           call[t].pc \in {"admitted", "registering"},
           \/ c.pc = "idle" /\ (lock = None \/ call[t].pc = "registering")
           \/ c.pc = "registering" /\ c.code # None /\ lock = None /\ lock' = t
              /\ record'.state # "none",
           record' \in Records', record'.state # "none" => record'.dir \in Dirs
    PROVE  HostInv' /\ Moves(t)
  <1>0. call \in [Threads -> Calls] /\ slots \in Nat /\ stuck \in Nat
    BY DEF HostInv, HostTypeOK
  <1>1. Calls \subseteq Calls'
    BY DEF Calls, Allowed
  <1>2. /\ call' \in [Threads -> Calls'] /\ call'[t] = c
        /\ \A u \in Threads \ {t} : call'[u] = call[u]
    BY <1>0, <1>1
  <1>3. ModesApart'
    BY <1>2 DEF HostInv, ModesApart
  <1>4. HostInv'
    BY <1>2, <1>3 DEF HostInv, HostTypeOK
  <1> QED
    BY <1>0, <1>2, <1>4 DEF Moves, KeepsLock, One, SlotAt, StartedAt

(* A record that is emptied, or kept, is a record still.                   *)
LEMMA ClearedRecord ==
    ASSUME HostInv, approved \subseteq approved',
           NEW s \in {"discovered", "enabled", "disabled", "failed"}, record.state # "none"
    PROVE  /\ Cleared(record, s) \in Records' /\ Cleared(record, s).dir \in Dirs
           /\ record \in Records'
  <1>1. record \in Records /\ record.dir \in Dirs
    BY DEF HostInv, HostTypeOK
  <1> QED
    BY <1>1 DEF Cleared, Records, Allowed

LEMMA RegistryStep ==
    ASSUME NEW t \in Threads, HostInv, UnderLock, disable(t) \/ Registered(t)
    PROVE  HostInv' /\ Moves(t)
  <1>0. Idle \in Calls' /\ Idle.pc = "idle" /\ record \in Records
    BY DEF Idle, Calls, PCs, Allowed, HostInv, HostTypeOK
  <1>1. CASE disable(t)
    <2>1. /\ isolation' = isolation /\ disk' = disk /\ slots' = slots /\ stuck' = stuck
          /\ approved' = approved /\ call' = [call EXCEPT ![t] = Idle]
          /\ call[t].pc = "admitted" /\ approved \subseteq Codes /\ lock = None
      BY <1>1 DEF disable, Answer, HostInv, HostTypeOK
    <2>2. record' \in Records' /\ (record'.state # "none" => record'.dir \in Dirs)
      <3>1. CASE record.state = "none"
        BY <1>0, <1>1, <2>1, <3>1 DEF disable, Records, Allowed
      <3>2. CASE record.state # "none"
        BY <1>1, <2>1, <3>2, ClearedRecord DEF disable
      <3> QED
        BY <3>1, <3>2
    <2> QED
      BY <1>0, <2>1, <2>2, RecordMoves
  <1>2. CASE Registered(t)
    <2>1. /\ isolation' = isolation /\ disk' = disk /\ slots' = slots /\ stuck' = stuck
          /\ approved' = approved /\ call' = [call EXCEPT ![t] = Idle]
          /\ call[t].pc = "registering" /\ approved \subseteq Codes
      BY <1>2 DEF Registered, Answer, HostInv, HostTypeOK
    <2>2. record' \in Records' /\ (record'.state # "none" => record'.dir \in Dirs)
      <3>1. record.state # "none" /\ record.dir \in Dirs
        BY <2>1 DEF UnderLock, HostInv, HostTypeOK
      <3>2. CASE record' = Cleared(record, "failed")
        BY <2>1, <3>1, <3>2, ClearedRecord
      <3>3. CASE record' = [record EXCEPT !.state = "enabled", !.source = BytesKept(t),
                                          !.items = Offers[call[t].code]]
        <4>1. call[t].code \in Codes /\ call[t].code \in Allowed
          BY <2>1 DEF HostInv, HostTypeOK, Calls, Allowed
        <4>2. Offers[call[t].code] \in SUBSET Kinds
          BY <4>1, HostAssumption
        <4> QED
          BY <1>0, <2>1, <3>1, <3>3, <4>1, <4>2 DEF Records, Allowed, BytesKept
      <3>4. CASE record' = record
        BY <1>0, <2>1, <3>1, <3>4 DEF Records, Allowed
      <3> QED
        BY <1>2, <3>2, <3>3, <3>4 DEF Registered
    <2> QED
      BY <1>0, <2>1, <2>2, RecordMoves
  <1> QED
    BY <1>1, <1>2

(* The digest given to enable is the one over the files on disk, or the    *)
(* bytes are not taken: what is kept for register has been approved.       *)
LEMMA EnableStep ==
    ASSUME NEW t \in Threads, NEW sha \in Versions, HostInv, enable(t, sha)
    PROVE  HostInv' /\ Moves(t)
  <1>0. /\ Idle \in Calls' /\ Idle.pc = "idle" /\ record \in Records /\ approved \subseteq Codes
        /\ call \in [Threads -> Calls] /\ disk \in [Dirs -> Versions]
        /\ (record.state # "none" => record.dir \in Dirs)
    BY DEF Idle, Calls, PCs, Allowed, HostInv, HostTypeOK
  <1>1. /\ isolation' = isolation /\ disk' = disk /\ slots' = slots /\ stuck' = stuck
        /\ call[t].pc = "admitted" /\ lock = None
    BY DEF enable
  <1>2. CASE Answer(t) /\ UNCHANGED <<record, lock, approved>>
    <2>1. record' \in Records' /\ (record'.state # "none" => record'.dir \in Dirs)
      BY <1>0, <1>2 DEF Records, Allowed
    <2> QED
      BY <1>0, <1>1, <1>2, <2>1, RecordMoves DEF Answer
  <1>3. CASE /\ Answer(t) /\ approved' = approved /\ record.state # "none"
             /\ record' = Cleared(record, "failed")
    <2>1. record' \in Records' /\ record'.dir \in Dirs
      BY <1>3, ClearedRecord
    <2> QED
      BY <1>0, <1>1, <1>3, <2>1, RecordMoves DEF Answer
  <1> DEFINE onDisk == disk[record.dir]
             new == [call[t] EXCEPT !.pc = "registering", !.code = onDisk.code]
  <1>4. CASE /\ record.state # "none" /\ onDisk.code # None /\ sha = onDisk
             /\ record' = [record EXCEPT !.digest = onDisk]
             /\ approved' = approved \cup {onDisk.code}
             /\ lock' = t /\ call' = [call EXCEPT ![t] = new]
    <2>1. onDisk \in Versions /\ onDisk.code \in Codes
      BY <1>0, <1>4, HostAssumption
    <2> HIDE DEF onDisk
    <2>2. new \in Calls' /\ new.pc = "registering" /\ new.code # None
      BY <1>0, <1>4, <2>1 DEF Calls, Allowed, PCs
    <2>3. record' \in Records' /\ record'.state # "none" /\ record'.dir \in Dirs
      BY <1>0, <1>4, <2>1 DEF Records, Allowed
    <2>4. approved \subseteq approved' /\ approved' \subseteq Codes
      BY <1>0, <1>4, <2>1
    <2> HIDE DEF new
    <2> QED
      BY <1>1, <1>4, <2>2, <2>3, <2>4, RecordMoves
  <1>5. (call' = [call EXCEPT ![t].pc = "registering", ![t].code = onDisk.code])
          => call' = [call EXCEPT ![t] = new]
    BY <1>0
  <1> QED
    BY <1>2, <1>3, <1>4, <1>5 DEF enable, Matches

(* A rescan keeps the record or makes a new one without bytes; a call that *)
(* holds the old object keeps the bytes it had.                            *)
LEMMA RescanStep ==
    ASSUME NEW t \in Threads, HostInv, discover(t)
    PROVE  HostInv' /\ Moves(t)
  <1>0. /\ Idle \in Calls /\ Idle.pc = "idle" /\ record \in Records
        /\ call \in [Threads -> Calls] /\ disk \in [Dirs -> Versions]
        /\ (record.state # "none" => record.dir \in Dirs) /\ slots \in Nat /\ stuck \in Nat
    BY DEF Idle, Calls, PCs, Allowed, HostInv, HostTypeOK
  <1>1. /\ isolation' = isolation /\ disk' = disk /\ slots' = slots /\ stuck' = stuck
        /\ call[t].pc = "admitted" /\ lock = None /\ approved' = approved
        /\ Calls' = Calls /\ Records' = Records
    BY DEF discover, Calls, Records, Allowed
  <1>2. Rescanned \in Records /\ (Rescanned.state # "none" => Rescanned.dir \in Dirs)
    <2>1. CASE Found = {}
      BY <2>1 DEF Rescanned, NoRecord, Records, Allowed
    <2>2. CASE Found # {}
      <3>1. PICK d \in Dirs : d = Min(Found)
        BY <2>2, FirstFound DEF Found
      <3>2. disk[d] \in Versions
        BY <1>0
      <3>3. disk[d].provides \in SUBSET Kinds
        BY <3>2, HostAssumption
      <3>4. Discovered(d) \in Records /\ Discovered(d).dir \in Dirs
        BY <3>2, <3>3 DEF Discovered, Records, Allowed
      <3>5. Rescanned \in {record, Discovered(d)} /\ (Rescanned = record => record.state # "none" \/ record = Discovered(d))
        BY <2>2, <3>1 DEF Rescanned
      <3> QED
        BY <1>0, <3>4, <3>5
    <2> QED
      BY <2>1, <2>2
  <1>3. ASSUME NEW u \in Threads
        PROVE  /\ call'[u] \in Calls
               /\ u = t => call'[u] = Idle
               /\ u # t => call'[u].pc = call[u].pc /\ call'[u].code = call[u].code
    <2> DEFINE kept == [call[u] EXCEPT !.orphan = TRUE, !.kept = record.source]
    <2>1. kept \in Calls /\ kept.pc = call[u].pc /\ kept.code = call[u].code
      BY <1>0 DEF Calls, Records
    <2>2. call'[u] = IF u = t THEN Idle
                     ELSE IF InCall(u) /\ ~call[u].orphan /\ record' # record
                          THEN kept ELSE call[u]
      BY DEF discover
    <2> HIDE DEF kept
    <2> QED
      BY <1>0, <2>1, <2>2
  <1>4. call' \in [Threads -> Calls']
    <2>1. call' = [u \in Threads |-> call'[u]]
      BY Zenon DEF discover
    <2> QED
      BY <1>1, <1>3, <2>1
  <1>5. ModesApart' /\ \A u \in Threads : call'[u].pc = "registering" => call'[u].code # None
    BY <1>0, <1>1, <1>3 DEF HostInv, HostTypeOK, ModesApart
  <1>6. HostInv'
    BY <1>1, <1>2, <1>4, <1>5 DEF HostInv, HostTypeOK, discover
  <1> QED
    BY <1>0, <1>1, <1>3, <1>6 DEF Moves, KeepsLock, One, SlotAt, StartedAt

(* Every step of a request keeps the invariant and moves one thread.       *)
LEMMA HandleStep ==
    ASSUME NEW t \in Threads, HostInv, UnderLock, Handle(t)
    PROVE  HostInv' /\ Moves(t)
  <1>0. /\ call \in [Threads -> Calls] /\ slots \in Nat /\ stuck \in Nat
    BY DEF HostInv, HostTypeOK
  <1>1. CASE AnswerAtOnce(t)
    <2>1. /\ UNCHANGED <<isolation, disk, record, lock, approved>>
          /\ slots' = slots /\ stuck' = stuck
          /\ call[t].pc = "accepted" /\ Answer(t)
      BY <1>1 DEF AnswerAtOnce
    <2>2. /\ call' \in [Threads -> Calls'] /\ ModesApart'
          /\ \A u \in Threads : call'[u].pc = "registering" => call'[u].code # None
          /\ \A u \in Threads \ {t} : call'[u] = call[u]
          /\ call'[t].pc = "idle"
      BY <2>1, CallsStay, "idle" \in PCs DEF PCs
    <2>3. HostInv'
      BY <1>0, <2>1, <2>2, RecordStays
    <2> QED
      BY <1>0, <2>1, <2>2, <2>3 DEF Moves, KeepsLock, One, SlotAt, StartedAt
  <1>2. CASE \E c \in Callers, m \in {"GET", "POST"} : Admit(t, c, m)
    <2>0. PICK pc \in {"reading", "admitted"} : Goto(t, pc)
      BY <1>2 DEF Admit
    <2>1. /\ UNCHANGED <<isolation, disk, record, lock, approved>>
          /\ slots' = slots /\ stuck' = stuck
          /\ call[t].pc = "accepted" /\ pc \in PCs
      BY <1>2 DEF Admit, PCs
    <2>2. /\ call' \in [Threads -> Calls'] /\ ModesApart'
          /\ \A u \in Threads : call'[u].pc = "registering" => call'[u].code # None
          /\ \A u \in Threads \ {t} : call'[u] = call[u]
          /\ call'[t].pc \in {"idle", pc}
      BY <2>0, <2>1, CallsStay
    <2>3. HostInv'
      BY <1>0, <2>1, <2>2, RecordStays
    <2> QED
      BY <1>0, <2>1, <2>2, <2>3 DEF Moves, KeepsLock, One, SlotAt, StartedAt
  <1>3. CASE do_GET(t)
    BY <1>3, PlainSteps DEF do_GET
  <1>4. CASE do_POST(t)
    <2>1. CASE Changes(t)
      BY <2>1, RescanStep, RegistryStep, EnableStep DEF Changes
    <2>2. CASE \E k \in Kinds : Lookup(t, k)
      BY <2>2, LookupStep
    <2>3. CASE RegisterHangs(t)
      <3>1. HostInv'
        BY <2>3 DEF RegisterHangs, HostInv, HostTypeOK, ModesApart, Calls, Records, Allowed
      <3> QED
        BY <1>0, <2>3, <3>1 DEF RegisterHangs, Moves, KeepsLock, One, SlotAt, StartedAt
    <2>4. CASE Runs(t) /\ ~RegisterHangs(t)
      BY <2>4, PlainSteps, SpawnStep, RegistryStep DEF Runs
    <2> QED
      BY <1>4, <2>1, <2>2, <2>3, <2>4 DEF do_POST
  <1> QED
    BY <1>1, <1>2, <1>3, <1>4 DEF Handle

(* process_request and what happens outside the requests.                  *)
LEMMA OtherSteps ==
    ASSUME HostInv, UnderLock, (\E t \in Threads : process_request(t)) \/ Elsewhere
    PROVE  HostInv' /\ UnderLock'
  <1>0. /\ call \in [Threads -> Calls] /\ slots \in Nat /\ stuck \in Nat
    BY DEF HostInv, HostTypeOK
  <1>1. ASSUME NEW t \in Threads, process_request(t) PROVE HostInv' /\ UnderLock'
    <2>1. /\ UNCHANGED <<isolation, disk, record, lock, approved>>
          /\ slots' = slots /\ stuck' = stuck
          /\ UNCHANGED call \/ Goto(t, "accepted")
      BY <1>1 DEF process_request
    <2>2. CASE UNCHANGED call
      BY <2>1, <2>2 DEF HostInv, HostTypeOK, ModesApart, UnderLock, Calls, Records, Allowed
    <2>3. CASE Goto(t, "accepted")
      <3>1. /\ call' \in [Threads -> Calls'] /\ ModesApart'
            /\ \A u \in Threads : call'[u].pc = "registering" => call'[u].code # None
            /\ \A u \in Threads \ {t} : call'[u] = call[u]
            /\ call'[t].pc \in {"idle", "accepted"}
        BY <2>1, <2>3, CallsStay, "accepted" \in PCs DEF PCs
      <3>2. HostInv'
        BY <1>0, <2>1, <3>1, RecordStays
      <3> QED
        BY <2>1, <3>1, <3>2 DEF UnderLock
    <2> QED
      BY <2>1, <2>2, <2>3
  <1>2. CASE StuckEnds
    BY <1>0, <1>2 DEF StuckEnds, HostInv, HostTypeOK, ModesApart, UnderLock, Calls, Records, Allowed
  <1>3. ASSUME NEW d \in Dirs, NEW v \in Versions, Edit(d, v) PROVE HostInv' /\ UnderLock'
    <2>1. disk' \in [Dirs -> Versions]
      BY <1>3 DEF Edit, HostInv, HostTypeOK
    <2> QED
      BY <1>3, <2>1 DEF Edit, HostInv, HostTypeOK, ModesApart, UnderLock, Calls, Records, Allowed
  <1> QED
    BY <1>1, <1>2, <1>3 DEF Elsewhere

(* Two enables never register at once, and no rescan drops the record      *)
(* while one does.                                                         *)
LEMMA LockStep ==
    ASSUME NEW t \in Threads, UnderLock, Moves(t)
    PROVE  UnderLock'
  <1>1. None \notin Threads
    BY HostAssumption
  <1> QED
    BY <1>1 DEF UnderLock, Moves, KeepsLock

HostSafe == HostInv /\ UnderLock

LEMMA HostSafeInvariant == Spec => []HostSafe
  <1>1. Init => HostSafe
    BY HostInitially DEF HostSafe, UnderLock, Init, HostInit, Idle
  <1>2. HostSafe /\ [Next]_vars => HostSafe'
    <2> SUFFICES ASSUME HostSafe, [Next]_vars PROVE HostSafe'
      OBVIOUS
    <2>1. CASE \E t \in Threads : Handle(t)
      BY <2>1, HandleStep, LockStep DEF HostSafe
    <2>2. CASE (\E t \in Threads : process_request(t)) \/ Elsewhere
      BY <2>2, OtherSteps DEF HostSafe
    <2>3. CASE UNCHANGED vars
      BY <2>3 DEF vars, hostVars, HostSafe, HostInv, HostTypeOK, ModesApart, UnderLock, Calls,
                  Records, Allowed
    <2> QED
      BY <2>1, <2>2, <2>3 DEF Next
  <1> QED
    BY <1>1, <1>2, PTL DEF Spec

(* plugins.py:158: whatever is edited, rescanned, disabled or enabled      *)
(* again while calls are under way, only bytes somebody approved by their  *)
(* digest run, for any number of requests and plugin files.                *)
THEOREM OnlyApprovedRuns == Spec => []RunsApproved
  <1>1. HostSafe => RunsApproved
    <2> SUFFICES ASSUME HostSafe, NEW t \in Threads
                 PROVE  call[t].code \in Allowed /\ SourceOf(t) \in Allowed
      BY DEF RunsApproved, Allowed
    <2>1. call[t] \in Calls /\ record \in Records
      BY DEF HostSafe, HostInv, HostTypeOK
    <2> QED
      BY <2>1 DEF Calls, Records, SourceOf
  <1> QED
    BY <1>1, HostSafeInvariant, PTL

-----------------------------------------------------------------------------
(* The two semaphores and the overruns *)

SlotsKept == NoSlotLost /\ free \in Nat /\ faults \in Nat

(* The connection's slot is given back with the answer and not before.     *)
LEMMA AnswerReleases ==
    ASSUME NEW t \in Threads, HostInv, free \in Nat, Handle(t)
    PROVE  faults' = faults /\ free' = free + One(call'[t].pc = "idle")
  <1>1. CASE \E c \in Callers, m \in {"GET", "POST"} : Admit(t, c, m)
    <2>1. PICK pc \in {"reading", "admitted"} : Goto(t, pc)
      BY <1>1 DEF Admit
    <2>2. free' = free /\ faults' = faults
      BY <1>1 DEF Admit
    <2>3. call'[t].pc # "idle"
      BY <2>1 DEF Goto, HostInv, HostTypeOK, Calls
    <2> QED
      BY <2>2, <2>3 DEF One
  <1>2. CASE AnswerAtOnce(t) \/ do_GET(t) \/ do_POST(t)
    <2>1. Release(t) /\ faults' = faults
      BY <1>2 DEF AnswerAtOnce, do_GET, do_POST
    <2> QED
      BY <2>1 DEF Release, One
  <1> QED
    BY <1>1, <1>2 DEF Handle

LEMMA SlotsInductive ==
    ASSUME HostSafe, SlotsKept, [Next]_vars
    PROVE  SlotsKept'
  <1>0. /\ slots \in Nat /\ stuck \in Nat /\ call \in [Threads -> Calls]
        /\ free \in Nat /\ faults \in Nat /\ MaxParallel \in Nat /\ MaxConnections \in Nat
        /\ IsFiniteSet(InSlot) /\ Cardinality(InSlot) \in Nat
        /\ IsFiniteSet(Busy) /\ Cardinality(Busy) \in Nat
        /\ slots + Cardinality(InSlot) = MaxParallel
        /\ free + Cardinality(Busy) + faults = MaxConnections
    <2>1. InSlot \in SUBSET Threads /\ Busy \in SUBSET Threads
      BY DEF InSlot, Busy
    <2> QED
      BY <2>1, ThreadsFinite, HostAssumption, ApiAssumption
      DEF HostSafe, HostInv, HostTypeOK, SlotsKept, NoSlotLost
  <1>1. ASSUME NEW t \in Threads, Handle(t) PROVE SlotsKept'
    <2>1. HostInv' /\ Moves(t)
      BY <1>1, HandleStep DEF HostSafe
    <2>2. \A y : y # t => (y \in InSlot <=> y \in InSlot')
      BY <2>1 DEF Moves, InSlot
    <2>3. \A y : y # t => (y \in Busy <=> y \in Busy')
      BY <2>1 DEF Moves, Busy
    <2>4. Cardinality(InSlot') \in Nat
          /\ Cardinality(InSlot') + One(t \in InSlot) = Cardinality(InSlot) + One(t \in InSlot')
      BY <1>0, <2>2, CountChange
    <2>5. Cardinality(Busy') \in Nat
          /\ Cardinality(Busy') + One(t \in Busy) = Cardinality(Busy) + One(t \in Busy')
      BY <1>0, <2>3, CountChange
    <2>6. slots' + One(t \in InSlot') = slots + One(t \in InSlot) /\ slots' \in Nat
      BY <2>1 DEF Moves, InSlot, SlotAt, One, HostInv, HostTypeOK
    <2>7. slots' + Cardinality(InSlot') = MaxParallel
      <3>1. One(t \in InSlot) \in Nat /\ One(t \in InSlot') \in Nat
        BY DEF One
      <3> QED
        BY <1>0, <2>4, <2>6, <3>1
    <2>8. t \in Busy /\ faults' = faults
          /\ free' = free + One(call'[t].pc = "idle")
          /\ (t \in Busy' <=> call'[t].pc # "idle")
      BY <1>0, <1>1, <2>1, AnswerReleases DEF Busy, Moves, HostSafe
    <2>9. free' + Cardinality(Busy') + faults' = MaxConnections /\ free' \in Nat
      BY <1>0, <2>5, <2>8 DEF One
    <2> QED
      BY <1>0, <2>7, <2>8, <2>9 DEF SlotsKept, NoSlotLost
  <1>2. ASSUME NEW t \in Threads, process_request(t) PROVE SlotsKept'
    <2>1. /\ free' = free - 1 /\ free > 0 /\ call[t].pc = "idle" /\ slots' = slots
          /\ isolation' = isolation
      BY <1>2 DEF process_request
    <2>2. CASE Goto(t, "accepted") /\ UNCHANGED faults
      <3>1. /\ call'[t].pc = "accepted"
            /\ \A u \in Threads \ {t} : call'[u].pc = call[u].pc
        BY <1>0, <2>2 DEF Goto, Calls
      <3>2. InSlot' = InSlot
        BY <2>1, <3>1 DEF InSlot
      <3>3. t \notin Busy /\ t \in Busy' /\ \A y : y # t => (y \in Busy <=> y \in Busy')
        BY <2>1, <3>1 DEF Busy
      <3>4. Cardinality(Busy') \in Nat
            /\ Cardinality(Busy') + One(t \in Busy) = Cardinality(Busy) + One(t \in Busy')
        BY <1>0, <3>3, CountChange
      <3>5. Cardinality(Busy') = Cardinality(Busy) + 1
        BY <1>0, <3>3, <3>4 DEF One
      <3> QED
        BY <1>0, <2>1, <2>2, <3>2, <3>4, <3>5 DEF SlotsKept, NoSlotLost
    <2>3. CASE faults' = faults + 1 /\ UNCHANGED call
      <3>1. InSlot' = InSlot /\ Busy' = Busy
        BY <2>1, <2>3 DEF InSlot, Busy
      <3> QED
        BY <1>0, <2>1, <2>3, <3>1 DEF SlotsKept, NoSlotLost
    <2> QED
      BY <1>2, <2>2, <2>3 DEF process_request
  <1>3. CASE Elsewhere \/ UNCHANGED vars
    <2>1. /\ slots' = slots /\ call' = call /\ isolation' = isolation
          /\ free' = free /\ faults' = faults
      BY <1>3 DEF Elsewhere, StuckEnds, Edit, vars, hostVars
    <2>2. InSlot' = InSlot /\ Busy' = Busy
      BY <2>1 DEF InSlot, Busy
    <2> QED
      BY <1>0, <2>1, <2>2 DEF SlotsKept, NoSlotLost
  <1> QED
    BY <1>1, <1>2, <1>3 DEF Next

(* plugins.py:343-348, api.py:133-146: however calls overlap and whichever *)
(* way each ends, what is missing from a semaphore is in use, or was taken *)
(* along by a thread that could not be started.                            *)
THEOREM SlotsAccountedFor == Spec => []NoSlotLost
  <1>1. Init => SlotsKept
    <2> SUFFICES ASSUME Init PROVE SlotsKept
      OBVIOUS
    <2>1. \A t \in Threads : call[t].pc = "idle"
      BY DEF Init, HostInit, Idle
    <2>2. InSlot = {} /\ Busy = {}
      BY <2>1 DEF InSlot, Busy
    <2>3. Cardinality(InSlot) = 0 /\ Cardinality(Busy) = 0
      BY <2>2, FS_EmptySet
    <2> QED
      BY <2>3, HostAssumption, ApiAssumption DEF Init, HostInit, SlotsKept, NoSlotLost
  <1>2. SlotsKept => NoSlotLost
    BY DEF SlotsKept
  <1> QED
    BY <1>1, <1>2, SlotsInductive, HostSafeInvariant, PTL DEF Spec

(* The overruns, and the calls that may become one. *)
StuckKept == stuck + Cardinality(Started) < MaxStuck + Cardinality(Threads)

LEMMA StuckInductive ==
    ASSUME HostSafe, StuckKept, [Next]_vars
    PROVE  StuckKept'
  <1>0. /\ stuck \in Nat /\ MaxStuck \in Nat /\ Cardinality(Threads) \in Nat
        /\ IsFiniteSet(Started) /\ Cardinality(Started) \in Nat
        /\ Cardinality(Started') \in Nat /\ Cardinality(Started') <= Cardinality(Threads)
    <2>1. Started \in SUBSET Threads /\ Started' \in SUBSET Threads
      BY DEF Started
    <2> QED
      BY <2>1, ThreadsFinite, HostAssumption DEF HostSafe, HostInv, HostTypeOK
  <1>1. ASSUME NEW t \in Threads, Handle(t) PROVE StuckKept'
    <2>1. HostInv' /\ Moves(t)
      BY <1>1, HandleStep DEF HostSafe
    <2>2. stuck' \in Nat
      BY <2>1 DEF HostInv, HostTypeOK
    <2>3. CASE stuck' = stuck /\ stuck < MaxStuck
      BY <1>0, <2>3 DEF StuckKept
    <2>4. CASE stuck' + One(StartedAt(t)') <= stuck + One(StartedAt(t))
      <3>1. \A y : y # t => (y \in Started <=> y \in Started')
        BY <2>1 DEF Moves, Started
      <3>2. Cardinality(Started') + One(t \in Started)
              = Cardinality(Started) + One(t \in Started')
        BY <1>0, <3>1, CountChange
      <3>3. stuck' + One(t \in Started') <= stuck + One(t \in Started)
        BY <2>4 DEF Started, StartedAt, One
      <3>4. One(t \in Started) \in Nat /\ One(t \in Started') \in Nat
        BY DEF One
      <3>5. stuck + Cardinality(Started) < MaxStuck + Cardinality(Threads)
        BY DEF StuckKept
      <3>6. stuck' + Cardinality(Started') < MaxStuck + Cardinality(Threads)
        BY <1>0, <2>2, <3>2, <3>3, <3>4, <3>5
      <3> QED
        BY <3>6 DEF StuckKept
    <2> QED
      BY <2>1, <2>3, <2>4 DEF Moves
  <1>2. CASE (\E t \in Threads : process_request(t)) \/ Elsewhere \/ UNCHANGED vars
    <2>1. stuck' \in Nat /\ stuck' <= stuck
      BY <1>0, <1>2 DEF process_request, Elsewhere, StuckEnds, Edit, vars, hostVars
    <2>2. Started' = Started
      <3>1. isolation' = isolation
        BY <1>2 DEF process_request, Elsewhere, StuckEnds, Edit, vars, hostVars
      <3>2. \A u \in Threads : call'[u].pc = call[u].pc \/ (call[u].pc = "idle" /\ call'[u].pc = "accepted")
        BY <1>2 DEF process_request, Elsewhere, StuckEnds, Edit, vars, hostVars, Goto,
                    HostSafe, HostInv, HostTypeOK, Calls
      <3> QED
        BY <3>1, <3>2 DEF Started
    <2> QED
      BY <1>0, <2>1, <2>2 DEF StuckKept
  <1> QED
    BY <1>1, <1>2 DEF Next

(* plugins.py:349-354: for any number of requests the threads that overran *)
(* stay below MAX_STUCK_THREADS and the calls that can be let in together. *)
THEOREM OverrunsBounded == Spec => []StuckBounded
  <1>1. Init /\ HostSafe => StuckKept
    <2> SUFFICES ASSUME Init PROVE StuckKept
      OBVIOUS
    <2>1. Started = {}
      BY DEF Init, HostInit, Idle, Started
    <2>2. Cardinality(Started) = 0
      BY <2>1, FS_EmptySet
    <2>3. Cardinality(Threads) \in Nat
      BY FS_CardinalityType, HostAssumption
    <2> QED
      BY <2>2, <2>3, HostAssumption DEF Init, HostInit, StuckKept
  <1>2. StuckKept /\ HostSafe => StuckBounded
    <2> SUFFICES ASSUME StuckKept, HostSafe PROVE StuckBounded
      OBVIOUS
    <2> DEFINE over == {t \in Threads : call[t].pc = "overrun"}
               rest == {t \in Started : call[t].pc # "overrun"}
    <2>1. over \cup rest = Started /\ over \cap rest = {}
      BY DEF Started, HostSafe, HostInv, ModesApart
    <2>2. /\ IsFiniteSet(over) /\ IsFiniteSet(rest) /\ Cardinality(over) \in Nat
          /\ Cardinality(rest) \in Nat
      <3>1. over \in SUBSET Threads /\ rest \in SUBSET Threads
        BY DEF Started
      <3> HIDE DEF over, rest
      <3> QED
        BY <3>1, ThreadsFinite
    <2>3. Overrunning = stuck + Cardinality(over)
      BY DEF Overrunning
    <2>4. StuckBounded <=> Overrunning + Cardinality(rest) < MaxStuck + Cardinality(Threads)
      BY DEF StuckBounded
    <2> HIDE DEF over, rest
    <2>5. Cardinality(Started) = Cardinality(over) + Cardinality(rest)
      <3>1. Cardinality(over \cup rest)
              = Cardinality(over) + Cardinality(rest) - Cardinality(over \cap rest)
        BY <2>2, FS_Union
      <3>2. Cardinality(over \cap rest) = 0
        BY <2>1, FS_EmptySet
      <3>3. Cardinality(Started)
              = Cardinality(over) + Cardinality(rest) - Cardinality(over \cap rest)
        BY <2>1, <3>1, Zenon
      <3> QED
        BY <2>2, <3>2, <3>3
    <2>6. stuck \in Nat /\ Cardinality(Threads) \in Nat /\ MaxStuck \in Nat
      BY FS_CardinalityType, HostAssumption DEF HostSafe, HostInv, HostTypeOK
    <2> QED
      BY <2>2, <2>3, <2>4, <2>5, <2>6 DEF StuckKept
  <1> QED
    BY <1>1, <1>2, StuckInductive, HostSafeInvariant, PTL DEF Spec

-----------------------------------------------------------------------------
(* Who changes a plugin *)

(* A POST got past _authorized as a writer's.                              *)
LEMMA AdmittedWriters ==
    ASSUME HostSafe, WritersAdmitted, [Next]_vars
    PROVE  WritersAdmitted'
  <1>0. caller \in [Threads -> Callers \cup {None}] /\ call \in [Threads -> Calls]
    BY DEF HostSafe, HostInv, HostTypeOK, WritersAdmitted
  <1>1. ASSUME NEW t \in Threads, Handle(t) PROVE WritersAdmitted'
    <2>0. Moves(t) /\ identityOn' = identityOn
      BY <1>1, HandleStep DEF HostSafe, Handle, AnswerAtOnce, Admit, do_GET, do_POST
    <2>1. ASSUME NEW c \in Callers, NEW m \in {"GET", "POST"}, Admit(t, c, m)
          PROVE  WritersAdmitted'
      <3>1. /\ caller' \in [Threads -> Callers \cup {None}] /\ caller'[t] = c
            /\ \A u \in Threads \ {t} : caller'[u] = caller[u]
        BY <1>0, <2>1 DEF Admit
      <3>2. call'[t].pc = IF m = "GET" THEN "reading" ELSE "admitted"
        BY <1>0, <2>1 DEF Admit, Goto, Calls
      <3>3. m = "POST" => c = "token" \/ (identityOn /\ c = "operator")
        BY <2>1 DEF Admit, _authorized, accepts
      <3> QED
        BY <2>0, <3>1, <3>2, <3>3 DEF WritersAdmitted, Writer, Moves
    <2>2. CASE AnswerAtOnce(t) \/ do_GET(t) \/ do_POST(t)
      <3>1. Release(t)
        BY <2>2 DEF AnswerAtOnce, do_GET, do_POST
      <3>2. /\ caller' \in [Threads -> Callers \cup {None}]
            /\ \A u \in Threads \ {t} : caller'[u] = caller[u]
            /\ call'[t].pc = "idle" \/ caller'[t] = caller[t]
        BY <1>0, <3>1 DEF Release
      <3>3. call[t].pc = "accepted" => call'[t].pc = "idle"
        <4>1. CASE AnswerAtOnce(t)
          BY <1>0, <4>1 DEF AnswerAtOnce, Answer, Idle
        <4>2. CASE do_GET(t) \/ do_POST(t)
          BY <4>2 DEF do_GET, list, do_POST, Changes, Runs, Lookup, discover, disable, enable,
                      Registered, RegisterHangs, Acquire, Spawn, ChildEnds, ChildHangs, CountStuck,
                      StartThread, Joined, _remember_stuck
        <4> QED
          BY <2>2, <4>1, <4>2
      <3> QED
        BY <2>0, <3>2, <3>3 DEF WritersAdmitted, Writer, Moves
    <2> QED
      BY <1>1, <2>1, <2>2 DEF Handle
  <1>2. CASE (\E t \in Threads : process_request(t)) \/ Elsewhere \/ UNCHANGED vars
    <2>1. caller' = caller /\ identityOn' = identityOn
      BY <1>2 DEF process_request, Elsewhere, vars, hostVars
    <2>2. \A u \in Threads : call'[u].pc = call[u].pc \/ call'[u].pc = "accepted"
      BY <1>0, <1>2 DEF process_request, Elsewhere, StuckEnds, Edit, vars, hostVars, Goto, Calls
    <2> QED
      BY <2>1, <2>2 DEF WritersAdmitted, Writer
  <1> QED
    BY <1>1, <1>2 DEF Next

(* Who changes the record holds it from the admission on.                  *)
LEMMA ChangersAdmitted ==
    ASSUME HostSafe, [Next]_vars, record' # record
    PROVE  \E t \in Threads : call[t].pc \in {"admitted", "registering"} /\ call'[t] # call[t]
  <1>0. call \in [Threads -> Calls]
    BY DEF HostSafe, HostInv, HostTypeOK
  <1>1. PICK t \in Threads : Handle(t)
    BY DEF Next, process_request, Elsewhere, StuckEnds, Edit, vars, hostVars
  <1>2. Changes(t) \/ Registered(t)
    BY <1>1 DEF Handle, AnswerAtOnce, Admit, do_GET, list, do_POST, Runs, Lookup, RegisterHangs,
                Acquire, Spawn, ChildEnds, ChildHangs, CountStuck, StartThread, Joined, _remember_stuck
  <1>3. call[t].pc \in {"admitted", "registering"}
    BY <1>2 DEF Changes, discover, disable, enable, Registered
  <1>4. call'[t].pc # call[t].pc
    <2>1. CASE discover(t)
      BY <2>1, <1>0, <1>3 DEF discover, Idle
    <2>2. CASE disable(t) \/ Registered(t)
      BY <2>2, <1>0, <1>3 DEF disable, Registered, Answer, Idle
    <2>3. ASSUME NEW v \in Versions, enable(t, v) PROVE call'[t].pc # call[t].pc
      <3>1. call[t].pc = "admitted"
        BY <2>3 DEF enable
      <3>2. call'[t].pc \in {"idle", "registering"}
        BY <1>0, <2>3 DEF enable, Answer, Idle, Calls
      <3> QED
        BY <3>1, <3>2
    <2> QED
      BY <1>2, <2>1, <2>2, <2>3 DEF Changes
  <1> QED
    BY <1>3, <1>4

(* server_identity.py:147-170: a viewer, or a caller without a valid       *)
(* token, never changes the state of a plugin, whatever the requests that  *)
(* are under way beside it.                                                *)
THEOREM WritersChange == Spec => OnlyWritersChange
  <1>1. Init => WritersAdmitted
    BY DEF Init, HostInit, Idle, WritersAdmitted
  <1>2. HostSafe /\ WritersAdmitted /\ [Next]_vars =>
          [record'.state # record.state =>
             \E t \in Threads :
                /\ caller[t] = "token" \/ (identityOn /\ caller[t] = "operator")
                /\ call'[t] # call[t]]_vars
    <2> SUFFICES ASSUME HostSafe, WritersAdmitted, [Next]_vars, record'.state # record.state
                 PROVE  \E t \in Threads :
                           /\ caller[t] = "token" \/ (identityOn /\ caller[t] = "operator")
                           /\ call'[t] # call[t]
      OBVIOUS
    <2>1. PICK t \in Threads :
            call[t].pc \in {"admitted", "registering"} /\ call'[t] # call[t]
      BY ChangersAdmitted
    <2> QED
      BY <2>1 DEF WritersAdmitted, Writer
  <1> QED
    BY <1>1, <1>2, AdmittedWriters, HostSafeInvariant, PTL DEF Spec, OnlyWritersChange

=============================================================================
