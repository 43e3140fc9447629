---------------------------- MODULE NodeChannel ----------------------------
(***************************************************************************)
(* The channel of the nodes: NodeChannel.handle of node_channel.py with    *)
(* the verifier of incident_transport.py behind it.  A node posts an       *)
(* escalation; a request thread of the server authenticates it, verifies   *)
(* the message in one transaction of the state file, and creates and       *)
(* writes the file of the message in the inbox.  Threads interleave        *)
(* between these steps and the server may be killed between them.          *)
(*                                                                         *)
(* The network delivers a post any number of times, late, in any order or  *)
(* never, and may lose the answer; a node that has no answer posts again   *)
(* with the same message id and a fresh nonce.  Clocks of nodes are up to  *)
(* Skew away.  Answers that change nothing (400, 401, 403, 413, 503) end   *)
(* the request and leave the node as it was; a post with a token that is   *)
(* not live is one that is never taken up here (OperatorStores.tla).       *)
(***************************************************************************)
EXTENDS MessageVerifier

CONSTANTS
    Nodes,        \* nodes of the registry
    Escalations,
    NodeOf,       \* NodeOf[e]: the node that escalates e
    FileOf,       \* FileOf[e]: its message_id, as a file name
    Threads,      \* request threads of the server
    None,
    Skew,         \* how far the clock of a node is off
    Lag,          \* how far `at` lies behind the clock when the state file is locked
    MaxTries,     \* bound: MaxTries[e] posts of the escalation e
    MaxCrashes,   \* bound: kills of the server
    MaxTime       \* bound: the clock

Files == {FileOf[e] : e \in Escalations}

ASSUME ChannelAssumption ==
    /\ NodeOf \in [Escalations -> Nodes]
    /\ FileOf \in [Escalations -> Files]
    /\ None \notin Nodes \cup Escalations
    /\ Skew \in Nat /\ Lag \in Nat /\ MaxTries \in [Escalations -> Nat]
    /\ MaxCrashes \in Nat /\ MaxTime \in Nat

VARIABLES
    posted,      \* posts that are on the network
    thread,      \* what each request thread is doing
    store,       \* the state file of the verifier
    inbox,       \* the inbox directory: inbox[f] is the file f, or NoFile
    acked,       \* escalations whose node got a 200
    now,         \* the clock of the server
    crashes,     \* kills of the server so far
    accepted,    \* observer: every acceptance of a message, with its time
    torn         \* observer: files whose writing was cut short

vars == <<posted, thread, store, inbox, acked, now, crashes, accepted, torn>>

-----------------------------------------------------------------------------
(* Records *)

Idle == [pc |-> "idle", node |-> None, message |-> None]
NoFile == [state |-> "absent", node |-> None, message |-> None]
EmptyFile == [state |-> "empty", node |-> None, message |-> None]
Whole(node, m) == [state |-> "whole", node |-> node, message |-> m]

(* The k-th post of e. *)
Message(e, k, at) ==
    [esc |-> e, nonce |-> <<e, k>>, from |-> NodeOf[e], to |-> "dev-server",
     signer |-> NodeOf[e], compatible |-> TRUE, sent_at |-> at]

(* What may arrive of a message: itself, or one that is not in order. *)
Variants(m) ==
    {m, [m EXCEPT !.to = None], [m EXCEPT !.signer = None], [m EXCEPT !.compatible = FALSE]}
        \cup {[m EXCEPT !.from = n] : n \in Nodes}

Tries(e) == Cardinality({m \in posted : m.esc = e})

Init ==
    /\ posted = {}
    /\ thread = [h \in Threads |-> Idle]
    /\ store = EmptyStore
    /\ inbox = [f \in Files |-> NoFile]
    /\ acked = {}
    /\ now = 0
    /\ crashes = 0
    /\ accepted = {}
    /\ torn = {}

-----------------------------------------------------------------------------
(* The node (external) *)

SentAt == {t \in 0..(MaxTime + Skew) : t <= now + Skew /\ now <= t + Skew}

Post(e) ==
    /\ e \notin acked
    /\ Tries(e) < MaxTries[e]
    /\ \E at \in SentAt :
          posted' = posted \cup {Message(e, Tries(e) + 1, at)}
    /\ UNCHANGED <<thread, store, inbox, acked, now, crashes, accepted, torn>>

-----------------------------------------------------------------------------
(* NodeChannel.handle *)

(* authenticate has found the node of the token; the body is a message. *)
Receive(h) ==
    /\ thread[h] = Idle
    /\ \E m \in posted :
          thread' = [thread EXCEPT ![h] = [pc |-> "verify", node |-> NodeOf[m.esc], message |-> m]]
    /\ UNCHANGED <<store, inbox, accepted, torn, crashes, posted, acked, now>>

(* verify_message of what has arrived of the post: `at` is read before the *)
(* transaction waits for the lock.                                         *)
At == {t \in 0..MaxTime : t <= now /\ now <= t + Lag}

Verify(h) ==
    LET node == thread[h].node
    IN  /\ thread[h].pc = "verify"
        /\ \E m \in Variants(thread[h].message), at \in At :
              /\ Acceptable(m, node, "dev-server", store, at)
              /\ store' = Accept(store, node, m.nonce, at)
              /\ accepted' = accepted \cup {[node |-> node, nonce |-> m.nonce, sent_at |-> m.sent_at, at |-> at]}
              /\ thread' = [thread EXCEPT ![h] = [pc |-> "store", node |-> node, message |-> m]]
        /\ UNCHANGED <<inbox, torn, crashes, posted, acked, now>>

(* The answer 200 reaches the node, or is lost. *)
Answer(e) == acked' = acked \/ acked' = acked \cup {e}

(* Mutant: every OSError of os.open is taken for FileExistsError. *)
CreateAnyError(h) ==
    /\ thread[h].pc = "store"
    /\ thread' = [thread EXCEPT ![h] = Idle]
    /\ Answer(thread[h].message.esc)
    /\ UNCHANGED <<inbox, store, accepted, torn, crashes, posted, now>>

(* Mutant: the file is opened without O_EXCL. *)
CreateOver(h) ==
    LET m == thread[h].message
        f == FileOf[m.esc]
    IN  /\ thread[h].pc = "store"
        /\ inbox' = [inbox EXCEPT ![f] = EmptyFile]
        /\ thread' = [thread EXCEPT ![h].pc = "write"]
        /\ UNCHANGED <<store, accepted, torn, crashes, posted, acked, now>>

(* os.open with O_EXCL: FileExistsError is answered as a duplicate. *)
Create(h) ==
    LET m == thread[h].message
        f == FileOf[m.esc]
    IN  /\ thread[h].pc = "store"
        /\ \/ /\ inbox[f] = NoFile
              /\ inbox' = [inbox EXCEPT ![f] = EmptyFile]
              /\ thread' = [thread EXCEPT ![h].pc = "write"]
              /\ UNCHANGED acked
           \/ /\ inbox[f] # NoFile
              /\ thread' = [thread EXCEPT ![h] = Idle]
              /\ Answer(m.esc)
              /\ UNCHANGED inbox
        /\ UNCHANGED <<store, accepted, torn, crashes, posted, now>>

(* json.dump into the new file, then the answer. *)
Write(h) ==
    LET m == thread[h].message
    IN  /\ thread[h].pc = "write"
        /\ inbox' = [inbox EXCEPT ![FileOf[m.esc]] = Whole(thread[h].node, m)]
        /\ thread' = [thread EXCEPT ![h] = Idle]
        /\ Answer(m.esc)
        /\ UNCHANGED <<store, accepted, torn, crashes, posted, now>>

WritingFiles(hs) == {FileOf[thread[h].message.esc] : h \in {g \in hs : thread[g].pc = "write"}}

(* The message is refused, or a file cannot be read or written: 403 or 503 *)
(* or no answer.  What was done before stays done.                         *)
Refuse(h) ==
    /\ thread[h] # Idle
    /\ thread' = [thread EXCEPT ![h] = Idle]
    /\ torn' = torn \cup WritingFiles({h})
    /\ UNCHANGED <<store, inbox, accepted, crashes, posted, acked, now>>

(* The server is killed and started again; it keeps nothing in memory. *)
Crash ==
    /\ crashes < MaxCrashes
    /\ \E h \in Threads : thread[h] # Idle
    /\ crashes' = crashes + 1
    /\ thread' = [h \in Threads |-> Idle]
    /\ torn' = torn \cup WritingFiles(Threads)
    /\ UNCHANGED <<store, inbox, accepted, posted, acked, now>>

Tick ==
    /\ now < MaxTime
    /\ now' = now + 1
    /\ UNCHANGED <<posted, thread, store, inbox, acked, crashes, accepted, torn>>

Next ==
    \/ \E e \in Escalations : Post(e)
    \/ \E h \in Threads : Receive(h) \/ Verify(h) \/ Create(h) \/ Write(h) \/ Refuse(h)
    \/ Crash
    \/ Tick

Spec == Init /\ [][Next]_vars

-----------------------------------------------------------------------------
Messages ==
    [esc : Escalations, nonce : Escalations \X (Nat \ {0}), from : Nodes, to : {"dev-server", None},
     signer : Nodes \cup {None}, compatible : BOOLEAN, sent_at : 0..(MaxTime + Skew)]

(* The files and threads of the channel are well typed; a thread that has  *)
(* passed verify_message works on a message that is in order and was       *)
(* accepted under its own node.                                            *)
TypeOK ==
    /\ posted \subseteq Messages
    /\ thread \in [Threads -> {Idle} \cup [pc : {"verify", "store", "write"}, node : Nodes, message : Messages]]
    /\ \A h \in Threads : thread[h].pc \in {"store", "write"} =>
          thread[h].message.from = thread[h].node /\ thread[h].message.signer = thread[h].node
    /\ \A row \in store.nonces : row.at <= now
    /\ \A row \in store.messages : row.node \in Nodes /\ row.at <= now
    /\ \A f \in Files : inbox[f] \in {NoFile, EmptyFile} \/ inbox[f].message \in Messages
    /\ acked \subseteq Escalations
    /\ now \in 0..MaxTime
    /\ torn \subseteq Files

(* A thread comes to the transaction with the time `at` that it read       *)
(* before, and judges by it whether its message is fresh.  A message that  *)
(* was accepted, and not dated ahead then, is still remembered for every   *)
(* such thread that finds it fresh, whatever other messages purged         *)
(* meanwhile, unless a message was accepted with a later reading: a second *)
(* acceptance needs a thread that was overtaken between its reading of the *)
(* clock and its transaction.                                              *)
NonceKept ==
    \A a \in accepted, at \in At :
        (/\ a.sent_at <= a.at
         /\ at <= a.sent_at + Window
         /\ \A b \in accepted : b.at <= at) => NonceSeen(store, a.nonce)

(* "Two processes verifying the same message cannot both accept it": no    *)
(* message is accepted at two times, not counting one that was dated ahead *)
(* when it was accepted first.                                             *)
AcceptedOnce ==
    \A a, b \in accepted : (a.nonce = b.nonce /\ a.sent_at <= a.at) => a.at = b.at

(* max_messages_per_minute: of no node were more than RateLimit messages   *)
(* accepted in the last minute, whatever rows an accept has purged.  The   *)
(* minute is that of the times the threads came with, which are those in   *)
(* the table: the moment of the transaction may be up to Lag later.        *)
RateHonoured ==
    \A n \in Nodes : Cardinality({a \in accepted : a.node = n /\ now < a.at + RateWindow}) <= RateLimit

(* Message ids that differ are different files. *)
DistinctFiles == \A d, e \in Escalations : FileOf[d] = FileOf[e] => d = e

BeingWritten(f) == \E h \in Threads : thread[h].pc = "write" /\ FileOf[thread[h].message.esc] = f

(* An escalation answered with 200 (new or duplicate) is in the inbox      *)
(* under its file name: whole and as that node sent it, or being written   *)
(* by a thread, or cut short by a failure or a kill in the middle of the   *)
(* write.  It needs message ids that are different files.                  *)
AckedIsOnFile ==
    \A e \in acked : LET file == inbox[FileOf[e]] IN
        \/ file.state = "whole" /\ file.node = NodeOf[e] /\ file.message.esc = e
        \/ file.state = "empty" /\ (BeingWritten(FileOf[e]) \/ FileOf[e] \in torn)

(* A file of the inbox is written once: no later post of the same id, no   *)
(* second thread and no restart changes or removes a stored message.       *)
StoredOnce ==
    [][\A f \in Files : inbox[f].state = "whole" => inbox'[f] = inbox[f]]_vars

=============================================================================
