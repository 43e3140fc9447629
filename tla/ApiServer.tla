------------------------------ MODULE ApiServer ------------------------------
(***************************************************************************)
(* DevServer and _Handler of api.py over the plugin registry: a bounded    *)
(* number of request threads, who may do what, and the routes.  The rule   *)
(* for a caller is _authorized, with `accepts` of server_identity.py when  *)
(* the identity of HYDRA-UMC-SERVER is on.                                 *)
(***************************************************************************)
EXTENDS PluginHost

CONSTANTS
    MaxConnections, \* max_connections
    Callers,        \* what a request may come with; "nobody" has no token, or one that is not valid now
    MaxFaults       \* bound: threads the system refuses to start

ASSUME ApiAssumption ==
    /\ MaxConnections \in Nat \ {0} /\ MaxFaults \in Nat
    /\ Callers \subseteq {"nobody", "token", "operator", "viewer"}

VARIABLES
    identityOn, \* identity_key is not None
    free,       \* DevServer._slots
    caller,     \* caller[t]: who sent the request t was let in with, or None
    faults      \* observer: threads that could not be started

vars == <<hostVars, identityOn, free, caller, faults>>

(* Mutant: a role that may read may also change. *)
AcceptsAnyRole(c, method) == c \in {"token", "operator", "viewer"}

(* accepts with a key: the service's own token, or a signed token that is  *)
(* valid now, whose role may use the method.                               *)
accepts(c, method) ==
    \/ c = "token"
    \/ c = "operator"
    \/ c = "viewer" /\ method = "GET"

_authorized(c, method) == IF identityOn THEN accepts(c, method) ELSE c = "token"

Init ==
    /\ HostInit
    /\ identityOn \in BOOLEAN
    /\ free = MaxConnections
    /\ caller = [t \in Threads |-> None]
    /\ faults = 0

(* process_request: a slot is taken, then the thread is started.  A thread *)
(* that cannot be started takes the slot with it.  Without a free slot the *)
(* request is answered 503 and nothing changes.                            *)
process_request(t) ==
    /\ call[t].pc = "idle" /\ free > 0
    /\ free' = free - 1
    /\ \/ Goto(t, "accepted") /\ UNCHANGED faults
       \/ faults < MaxFaults /\ faults' = faults + 1 /\ UNCHANGED call
    /\ UNCHANGED <<isolation, disk, record, lock, slots, stuck, approved, hung,
                   identityOn, caller>>

(* process_request_thread: the finally gives the slot back when the        *)
(* request is answered.                                                    *)
Release(t) ==
    /\ free' = IF call'[t].pc = "idle" THEN free + 1 ELSE free
    /\ caller' = IF call'[t].pc = "idle" THEN [caller EXCEPT ![t] = None] ELSE caller

(* GET /health and /v1/health without detail, and every refusal: 400, 401, *)
(* 404, 405, 413; the registry is not asked.                               *)
AnswerAtOnce(t) ==
    /\ call[t].pc = "accepted"
    /\ Answer(t) /\ Release(t)
    /\ UNCHANGED <<isolation, disk, record, lock, slots, stuck, approved, hung,
                   identityOn, faults>>

(* An authorized request gets past _authorized: a GET goes on to list the  *)
(* plugins (GET /v1/plugins, or the detail of /v1/health), a POST to its   *)
(* route.                                                                  *)
Admit(t, c, method) ==
    /\ call[t].pc = "accepted"
    /\ _authorized(c, method)
    /\ Goto(t, IF method = "GET" THEN "reading" ELSE "admitted")
    /\ caller' = [caller EXCEPT ![t] = c]
    /\ UNCHANGED <<isolation, disk, record, lock, slots, stuck, approved, hung,
                   identityOn, free, faults>>

do_GET(t) == list(t) /\ Release(t) /\ UNCHANGED <<identityOn, faults>>

(* A POST route, and every later step of the call it starts. *)
do_POST(t) ==
    /\ Changes(t) \/ (\E k \in Kinds : Lookup(t, k)) \/ Runs(t)
    /\ Release(t)
    /\ UNCHANGED <<identityOn, faults>>

Handle(t) ==
    \/ AnswerAtOnce(t) \/ (\E c \in Callers, m \in {"GET", "POST"} : Admit(t, c, m))
    \/ do_GET(t) \/ do_POST(t)

Elsewhere ==
    /\ StuckEnds \/ (\E d \in Dirs, v \in Versions : Edit(d, v))
    /\ UNCHANGED <<identityOn, free, caller, faults>>

Next ==
    \/ \E t \in Threads : process_request(t) \/ Handle(t)
    \/ Elsewhere

Spec == Init /\ [][Next]_vars

(* A request thread keeps running, and it is not passed over for ever by   *)
(* others that take the registry's lock in turn: hence strong fairness.    *)
FairSpec == Spec /\ \A t \in Threads : SF_vars(Handle(t))

-----------------------------------------------------------------------------
(* Properties *)

(* "the module that runs is the one that was approved" (plugins.py:158):   *)
(* code runs, or waits to run in a thread, only if somebody gave its       *)
(* digest to enable, whatever was edited, rescanned, disabled or enabled   *)
(* again between the lookup and the start of the call.                     *)
RunsApproved ==
    \A t \in Threads :
        /\ call[t].code \in approved \cup {None}
        /\ InCall(t) => SourceOf(t) \in approved \cup {None}

Busy == {t \in Threads : call[t].pc # "idle"}
InSlot == {t \in Threads : isolation = "process" /\ call[t].pc \in {"slotted", "running", "hanging"}}

(* No slot of either semaphore is lost or given back twice, whichever way  *)
(* a call ends (plugins.py:343-348, api.py:133-146): what is not free is   *)
(* in use, but for a request whose thread could not be started.            *)
NoSlotLost ==
    /\ slots + Cardinality(InSlot) = MaxParallel
    /\ free + Cardinality(Busy) + faults = MaxConnections

Overrunning == stuck + Cardinality({t \in Threads : call[t].pc = "overrun"})
Started == {t \in Threads : isolation = "thread" /\ call[t].pc \in {"counted", "running", "overrun"}}

(* Count and start are two steps (plugins.py:349-354): the overruns may    *)
(* pass MAX_STUCK_THREADS, by no more than the calls that were let in      *)
(* together.  docs/PLUGINS.md:133-134 words a stricter limit ("no new call *)
(* starts once eight are still running"), which holds of the calls that    *)
(* are counted after the eighth is.                                        *)
StuckBounded ==
    Overrunning + Cardinality({t \in Started : call[t].pc # "overrun"})
        < MaxStuck + Cardinality(Threads)

(* Only the API token, or with the identity on a role that may write,      *)
(* changes the state of a plugin (server_identity.py:147-170): a viewer, a *)
(* caller without a token or with one that ran out never does.             *)
OnlyWritersChange ==
    [][record'.state # record.state =>
         \E t \in Threads :
            /\ caller[t] = "token" \/ (identityOn /\ caller[t] = "operator")
            /\ call'[t] # call[t]]_vars

(* "kinds its manifest declares; calling another one fails the whole       *)
(* plugin" (docs/PLUGINS.md:31): what an enabled plugin offers is declared *)
(* in the manifest whose digest was approved.                              *)
OffersDeclared ==
    record.state = "enabled" => record.items \subseteq record.digest.provides

(* Every request ends and its thread comes free, for plugins that never    *)
(* return, raise what they like and are edited, disabled or rescanned      *)
(* meanwhile: a call is left behind or killed at its timeout               *)
(* (plugins.py:424, 546).  Two things of a plugin can prevent it: a        *)
(* process that left the group of a killed child keeps the call that       *)
(* started it (plugins.py:550), and a register that never returns keeps    *)
(* the lock and with it every request that needs it (plugins.py:308).  No  *)
(* request is kept by another one's call.                                  *)
Answered ==
    \A t \in Threads :
        (call[t].pc # "idle") ~> (call[t].pc \in {"idle", "hanging"} \/ hung)
=============================================================================
