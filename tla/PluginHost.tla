----------------------------- MODULE PluginHost -----------------------------
(***************************************************************************)
(* PluginRegistry of plugins.py: discovery, approval by digest, and the    *)
(* calls of an enabled plugin, in a process of their own or in a thread.   *)
(* The HTTP threads of api.py share one registry.  What happens under the  *)
(* registry's lock is one step, but for _enable, which runs the plugin's   *)
(* register while it holds the lock; between the steps of a call the lock  *)
(* is free.                                                                *)
(*                                                                         *)
(* One plugin name is modelled, and every directory that holds a plugin    *)
(* holds one of that name.  The SHA-256 over manifest and entry is the     *)
(* pair itself.  A rescan drops the record object it replaces; calls that  *)
(* hold the old object keep it, and nobody can change it any more.         *)
(***************************************************************************)
EXTENDS Integers, FiniteSets, FiniteSetsExt

CONSTANTS
    Threads,     \* request threads of the API
    Dirs,        \* directories under the plugins root, as numbers in sorted order
    Codes,       \* what the bytes of an entry module can be
    Kinds,       \* KINDS: checks, reports, generators
    Offers,      \* Offers[c]: the kinds of which c registers an item
    Versions,    \* [provides, code] pairs a directory can hold: provides is {} for
                 \* a manifest that from_dict refuses, code None for a missing file
    Isolations,  \* ISOLATIONS under which the server is started
    MaxParallel, \* MAX_PARALLEL_RUNS
    MaxStuck,    \* MAX_STUCK_THREADS
    None

ASSUME HostAssumption ==
    /\ Dirs \subseteq Nat /\ Dirs # {} /\ IsFiniteSet(Threads)
    /\ None \notin Codes /\ None \notin Threads
    /\ Offers \in [Codes -> SUBSET Kinds]
    /\ Versions \subseteq [provides : SUBSET Kinds, code : Codes \cup {None}]
    /\ Isolations \subseteq {"process", "thread"} /\ Isolations # {}
    /\ MaxParallel \in Nat \ {0} /\ MaxStuck \in Nat \ {0}

VARIABLES
    isolation, \* self.isolation
    disk,      \* the plugins root
    record,    \* self._records[name], or NoRecord
    lock,      \* self._lock: the thread that registers a plugin under it, or None
    slots,     \* self._slots: free places for isolated calls
    stuck,     \* self._stuck: threads that overran and are still alive
    call,      \* call[t]: what request thread t is doing
    approved,  \* observer: the entry bytes some enable approved by digest
    hung       \* observer: register never returns under the lock

hostVars == <<isolation, disk, record, lock, slots, stuck, call, approved, hung>>

NoRecord == [state |-> "none", dir |-> 0, provides |-> {}, digest |-> None,
             items |-> {}, source |-> None]

Idle == [pc |-> "idle", code |-> None, orphan |-> FALSE, kept |-> None]

(* An enable that fails or a disable empties the record. *)
Cleared(r, s) == [r EXCEPT !.state = s, !.items = {}, !.source = None]

(* plugin.json is there, from_dict takes it and the entry module is a file. *)
WellFormed(v) == v.provides # {} /\ v.code # None

Discovered(d) == [state |-> "discovered", dir |-> d, provides |-> disk[d].provides,
                  digest |-> disk[d], items |-> {}, source |-> None]

(* Two directories with one name: the first in sorted order, the other is a problem. *)
Found == {d \in Dirs : WellFormed(disk[d])}

(* A digest that did not change keeps the record, its directory included. *)
Rescanned ==
    IF Found = {} THEN NoRecord
    ELSE LET fresh == Discovered(Min(Found))
         IN IF record.state # "none" /\ record.digest = fresh.digest THEN record ELSE fresh

(* The bytes the call's record object holds now. *)
SourceOf(t) == IF call[t].orphan THEN call[t].kept ELSE record.source

(* An isolated call that has yet to read the bytes of its record. *)
InCall(t) == isolation = "process" /\ call[t].pc \in {"found", "slotted"}

HostInit ==
    /\ isolation \in Isolations
    /\ disk \in [Dirs -> Versions]
    /\ record = NoRecord
    /\ lock = None
    /\ slots = MaxParallel
    /\ stuck = 0
    /\ call = [t \in Threads |-> Idle]
    /\ approved = {}
    /\ hung = FALSE

Goto(t, pc) == call' = [call EXCEPT ![t].pc = pc]

(* The request ends: 200, 404, 409, 500, 502 or 504, or the connection is *)
(* dropped; the thread is done.                                           *)
Answer(t) == call' = [call EXCEPT ![t] = Idle]

(* Someone changes the files of a plugin. *)
Edit(d, v) ==
    /\ disk[d] # v
    /\ disk' = [disk EXCEPT ![d] = v]
    /\ UNCHANGED <<isolation, record, lock, slots, stuck, call, approved, hung>>

-----------------------------------------------------------------------------
(* Registry operations; each needs the lock. *)

list(t) ==
    /\ call[t].pc = "reading" /\ lock = None
    /\ Answer(t)
    /\ UNCHANGED <<isolation, disk, record, lock, slots, stuck, approved, hung>>

discover(t) ==
    /\ call[t].pc = "admitted" /\ lock = None
    /\ record' = Rescanned
    /\ call' = [u \in Threads |->
                  IF u = t THEN Idle
                  ELSE IF InCall(u) /\ ~call[u].orphan /\ record' # record
                       THEN [call[u] EXCEPT !.orphan = TRUE, !.kept = record.source]
                       ELSE call[u]]
    /\ UNCHANGED <<isolation, disk, lock, slots, stuck, approved, hung>>

disable(t) ==
    /\ call[t].pc = "admitted" /\ lock = None
    /\ record' = IF record.state = "none" THEN record ELSE Cleared(record, "disabled")
    /\ Answer(t)
    /\ UNCHANGED <<isolation, disk, lock, slots, stuck, approved, hung>>

(* Mutant: whatever digest was given, the files on disk are taken. *)
MatchesAnything(sha, onDisk) == TRUE

Matches(sha, onDisk) == sha = onDisk

(* _enable up to the register: no such plugin (404), enabled already, the  *)
(* files gone or not the approved ones (failed), or register begins with   *)
(* the lock held.  The digest is over the manifest on disk; the manifest   *)
(* of the record stays the one of the discovery.                           *)
enable(t, sha) ==
    /\ call[t].pc = "admitted" /\ lock = None
    /\ \/ /\ record.state \in {"none", "enabled"}
          /\ Answer(t)
          /\ UNCHANGED <<record, lock, approved>>
       \/ /\ record.state \notin {"none", "enabled"}
          /\ LET onDisk == disk[record.dir]
                 read == onDisk.code # None
             IN \/ /\ ~read \/ ~Matches(sha, onDisk)
                   /\ record' = Cleared(record, "failed")
                   /\ Answer(t)
                   /\ UNCHANGED <<lock, approved>>
                \/ /\ read /\ Matches(sha, onDisk)
                   /\ record' = [record EXCEPT !.digest = onDisk]
                   /\ approved' = approved \cup (IF sha = onDisk THEN {onDisk.code} ELSE {})
                   /\ lock' = t
                   /\ call' = [call EXCEPT ![t].pc = "registering", ![t].code = onDisk.code]
    /\ UNCHANGED <<isolation, disk, slots, stuck, hung>>

(* "from here on only the bytes that were just approved are used" *)
BytesKept(t) == call[t].code

(* register adds its items, raises, adds a kind the record's manifest does *)
(* not declare, or runs out of time in its child: enabled or failed.  In   *)
(* the request's own thread SystemExit and the like get past `except       *)
(* Exception`: the thread ends, and the record stays as it was.            *)
Registered(t) ==
    /\ call[t].pc = "registering" /\ ~hung
    /\ \/ /\ Offers[call[t].code] \subseteq record.provides
          /\ record' = [record EXCEPT !.state = "enabled", !.source = BytesKept(t),
                                      !.items = Offers[call[t].code]]
       \/ record' = Cleared(record, "failed")
       \/ isolation = "thread" /\ record' = record
    /\ lock' = None
    /\ Answer(t)
    /\ UNCHANGED <<isolation, disk, slots, stuck, approved, hung>>

(* In thread mode register runs in the request's own thread, under the     *)
(* lock and without a timeout; in a child it has one, but after the kill   *)
(* _call_child reads the child's output to its end, without a timeout, and *)
(* a process that left the child's group may keep it open.                 *)
RegisterHangs(t) ==
    /\ call[t].pc = "registering" /\ ~hung
    /\ hung' = TRUE
    /\ UNCHANGED <<isolation, disk, record, lock, slots, stuck, call, approved>>

-----------------------------------------------------------------------------
(* run_check, run_report, run_generator *)

HasItem(k) == record.state = "enabled" /\ k \in record.items

(* _enabled under the lock, then the item and the generator's parameters.  *)
(* In thread mode the function found here is the one that runs.            *)
Lookup(t, k) ==
    /\ call[t].pc = "admitted" /\ lock = None
    /\ \/ /\ HasItem(k)
          /\ call' = [call EXCEPT ![t].pc = "found",
                        ![t].code = IF isolation = "thread" THEN record.source ELSE None]
       \/ Answer(t)
    /\ UNCHANGED <<isolation, disk, record, lock, slots, stuck, approved, hung>>

(* Process mode: a slot, or an error at once. *)
Acquire(t) ==
    /\ call[t].pc = "found" /\ isolation = "process"
    /\ \/ slots > 0 /\ slots' = slots - 1 /\ Goto(t, "slotted")
       \/ slots = 0 /\ slots' = slots /\ Answer(t)
    /\ UNCHANGED <<isolation, disk, record, lock, stuck, approved, hung>>

(* record.source is read here, without the lock, and handed to the child. *)
Spawn(t) ==
    /\ call[t].pc = "slotted"
    /\ call' = [call EXCEPT ![t].pc = "running", ![t].code = SourceOf(t),
                            ![t].orphan = FALSE, ![t].kept = None]
    /\ UNCHANGED <<isolation, disk, record, lock, slots, stuck, approved, hung>>

(* Mutant: the slot is given back only after an answer that is not an error. *)
ChildEndsHoldingSlot(t) ==
    /\ call[t].pc = "running" /\ isolation = "process"
    /\ slots' \in {slots, slots + 1}
    /\ Answer(t)
    /\ UNCHANGED <<isolation, disk, record, lock, stuck, approved, hung>>

(* The child answers, breaks, or is killed at the timeout with its group,  *)
(* and nobody holds its output open any more.                              *)
ChildEnds(t) ==
    /\ call[t].pc = "running" /\ isolation = "process"
    /\ slots' = slots + 1
    /\ Answer(t)
    /\ UNCHANGED <<isolation, disk, record, lock, stuck, approved, hung>>

(* The child is killed at the timeout, but a process it started has left   *)
(* its group and keeps its output open: the read after the kill, which has *)
(* no timeout, never ends.                                                 *)
ChildHangs(t) ==
    /\ call[t].pc = "running" /\ isolation = "process"
    /\ Goto(t, "hanging")
    /\ UNCHANGED <<isolation, disk, record, lock, slots, stuck, approved, hung>>

(* Mutant: earlier overruns are not looked at. *)
RoomNotAsked == TRUE

Room == stuck < MaxStuck

(* Thread mode: the overruns still alive are counted under the lock. *)
CountStuck(t) ==
    /\ call[t].pc = "found" /\ isolation = "thread" /\ lock = None
    /\ IF Room THEN Goto(t, "counted") ELSE Answer(t)
    /\ UNCHANGED <<isolation, disk, record, lock, slots, stuck, approved, hung>>

StartThread(t) ==
    /\ call[t].pc = "counted"
    /\ Goto(t, "running")
    /\ UNCHANGED <<isolation, disk, record, lock, slots, stuck, approved, hung>>

(* Mutant: join has no timeout, and the function never returns. *)
JoinedForEver(t) ==
    /\ call[t].pc = "running" /\ isolation = "thread"
    /\ UNCHANGED hostVars

(* join returns: the function is done, or still alive at the timeout. *)
Joined(t) ==
    /\ call[t].pc = "running" /\ isolation = "thread"
    /\ Answer(t) \/ Goto(t, "overrun")
    /\ UNCHANGED <<isolation, disk, record, lock, slots, stuck, approved, hung>>

_remember_stuck(t) ==
    /\ call[t].pc = "overrun" /\ lock = None
    /\ stuck' = stuck + 1
    /\ Answer(t)
    /\ UNCHANGED <<isolation, disk, record, lock, slots, approved, hung>>

(* A function that overran returns after all. *)
StuckEnds ==
    /\ stuck > 0
    /\ stuck' = stuck - 1
    /\ UNCHANGED <<isolation, disk, record, lock, slots, call, approved, hung>>

Changes(t) == discover(t) \/ disable(t) \/ \E v \in Versions : enable(t, v)

Runs(t) ==
    \/ Registered(t) \/ RegisterHangs(t)
    \/ Acquire(t) \/ Spawn(t) \/ ChildEnds(t) \/ ChildHangs(t)
    \/ CountStuck(t) \/ StartThread(t) \/ Joined(t) \/ _remember_stuck(t)
=============================================================================
