------------------------- MODULE NodeChannelProofs -------------------------
(***************************************************************************)
(* The verifier of the node channel remembers what would still pass as     *)
(* fresh: proofs about NodeChannel for any nodes, escalations, threads,    *)
(* windows and skew.                                                       *)
(***************************************************************************)
EXTENDS NodeChannel, FiniteSetTheorems, TLAPS

-----------------------------------------------------------------------------
(* Types *)

FileRecord ==
    [state : {"absent", "empty", "whole"}, node : Nodes \cup {None}, message : Messages \cup {None}]

(* TypeOK says of times that they are not ahead of the clock; steps need   *)
(* that they are numbers, that the inbox is a directory of these files,    *)
(* and that only finitely many posts were made.                            *)
ChannelType ==
    /\ TypeOK
    /\ IsFiniteSet(posted)
    /\ inbox \in [Files -> FileRecord]
    /\ \A row \in store.nonces \cup store.messages : row.at \in Nat
    /\ \A a \in accepted : a.sent_at \in Nat /\ a.at \in Nat

(* A thread that is past Receive has a node and a message.                 *)
LEMMA BusyThread ==
    ASSUME ChannelType, NEW h \in Threads, thread[h].pc \in {"verify", "store", "write"}
    PROVE  /\ thread[h] \in [pc : {"verify", "store", "write"}, node : Nodes, message : Messages]
           /\ thread[h].node \in Nodes /\ thread[h].message \in Messages
           /\ thread[h].message.esc \in Escalations
           /\ FileOf[thread[h].message.esc] \in Files
  <1>1. thread[h] # Idle
    BY DEF Idle
  <1>2. thread[h] \in [pc : {"verify", "store", "write"}, node : Nodes, message : Messages]
    BY <1>1 DEF ChannelType, TypeOK
  <1>3. thread[h].message.esc \in Escalations
    BY <1>2 DEF Messages
  <1>4. QED
    BY <1>2, <1>3, ChannelAssumption DEF Files

(* What arrives of a message is a message, with the date it was sent at.   *)
LEMMA VariantType ==
    ASSUME NEW m \in Messages, NEW v \in Variants(m)
    PROVE  v \in Messages /\ v.sent_at = m.sent_at /\ v.sent_at \in Nat
  <1>1. v.sent_at = m.sent_at /\ v \in Messages
    BY DEF Variants, Messages
  <1>2. MaxTime + Skew \in Nat
    BY ChannelAssumption
  <1>3. QED
    BY <1>1, <1>2 DEF Messages

(* A thread that goes on keeps its node.                                   *)
LEMMA ThreadMoves ==
    ASSUME ChannelType, NEW h \in Threads, thread[h].pc \in {"verify", "store", "write"},
           NEW p \in {"store", "write"}, NEW m \in Messages,
           m.from = thread[h].node, m.signer = thread[h].node,
           thread' = [thread EXCEPT ![h] = [pc |-> p, node |-> thread[h].node, message |-> m]]
    PROVE  /\ thread' \in [Threads -> {Idle} \cup [pc : {"verify", "store", "write"}, node : Nodes, message : Messages]]
           /\ \A g \in Threads : thread'[g].pc \in {"store", "write"} =>
                thread'[g].message.from = thread'[g].node /\ thread'[g].message.signer = thread'[g].node
  BY BusyThread DEF ChannelType, TypeOK

(* Ending the work of a thread.                                            *)
LEMMA ThreadEnds ==
    ASSUME ChannelType, NEW h \in Threads, thread' = [thread EXCEPT ![h] = Idle]
    PROVE  /\ thread' \in [Threads -> {Idle} \cup [pc : {"verify", "store", "write"}, node : Nodes, message : Messages]]
           /\ \A g \in Threads : thread'[g].pc \in {"store", "write"} =>
                thread'[g].message.from = thread'[g].node /\ thread'[g].message.signer = thread'[g].node
  BY DEF ChannelType, TypeOK, Idle

(* A post is a message, and there are finitely many.                       *)
LEMMA PostStep ==
    ASSUME ChannelType, NEW e \in Escalations, Post(e)
    PROVE  ChannelType'
  <1>1. PICK at \in SentAt : posted' = posted \cup {Message(e, Tries(e) + 1, at)}
    BY DEF Post
  <1>2. Tries(e) \in Nat
    <2>1. IsFiniteSet({m \in posted : m.esc = e})
      BY FS_Subset DEF ChannelType
    <2>2. QED
      BY <2>1, FS_CardinalityType DEF Tries
  <1>3. Message(e, Tries(e) + 1, at) \in Messages
    BY <1>2, ChannelAssumption DEF Message, Messages, SentAt
  <1>4. IsFiniteSet(posted')
    BY <1>1, FS_AddElement DEF ChannelType
  <1>5. QED
    BY <1>1, <1>3, <1>4 DEF Post, ChannelType, TypeOK

(* A thread takes up a post.                                               *)
LEMMA ReceiveStep ==
    ASSUME ChannelType, NEW h \in Threads, Receive(h)
    PROVE  ChannelType'
  <1>1. PICK m \in posted :
          thread' = [thread EXCEPT ![h] = [pc |-> "verify", node |-> NodeOf[m.esc], message |-> m]]
    BY DEF Receive
  <1>2. m \in Messages /\ NodeOf[m.esc] \in Nodes
    BY ChannelAssumption DEF ChannelType, TypeOK, Messages
  <1>3. QED
    BY <1>1, <1>2 DEF Receive, ChannelType, TypeOK

(* A message is accepted under the node of the thread, at a time that is   *)
(* not ahead of the clock.                                                 *)
LEMMA VerifyStep ==
    ASSUME ChannelType, NEW h \in Threads, Verify(h)
    PROVE  ChannelType'
  <1> DEFINE node == thread[h].node
  <1>1. thread[h].pc = "verify"
    BY DEF Verify
  <1>2. node \in Nodes /\ thread[h].message \in Messages
    BY <1>1, BusyThread
  <1>3. PICK m \in Variants(thread[h].message), at \in At :
          /\ Acceptable(m, node, "dev-server", store, at)
          /\ store' = Accept(store, node, m.nonce, at)
          /\ accepted' = accepted \cup {[node |-> node, nonce |-> m.nonce, sent_at |-> m.sent_at, at |-> at]}
          /\ thread' = [thread EXCEPT ![h] = [pc |-> "store", node |-> node, message |-> m]]
    BY DEF Verify
  <1>4. at \in Nat /\ at <= now /\ now \in Nat
    BY ChannelAssumption DEF At, ChannelType, TypeOK
  <1>5. m \in Messages /\ m.sent_at \in Nat
    BY <1>2, VariantType
  <1>6. m.from = node /\ m.signer = node
    BY <1>3 DEF Acceptable, Genuine
  <1>7. /\ store'.nonces \subseteq store.nonces \cup {[nonce |-> m.nonce, at |-> at]}
        /\ store'.messages \subseteq store.messages \cup {[node |-> node, nonce |-> m.nonce, at |-> at]}
    BY <1>3 DEF Accept, Remembered
  <1>8. UNCHANGED <<inbox, torn, crashes, posted, acked, now>>
    BY DEF Verify
  <1>9. TypeOK'
    BY <1>1, <1>2, <1>3, <1>4, <1>5, <1>6, <1>7, <1>8, ThreadMoves DEF ChannelType, TypeOK
  <1>10. QED
    BY <1>3, <1>4, <1>5, <1>7, <1>8, <1>9 DEF ChannelType

(* The file is created, or is there.                                       *)
LEMMA CreateStep ==
    ASSUME ChannelType, NEW h \in Threads, Create(h)
    PROVE  ChannelType'
  <1> DEFINE m == thread[h].message
             f == FileOf[m.esc]
  <1>1. thread[h].pc = "store" /\ UNCHANGED <<store, accepted, torn, crashes, posted, now>>
    BY DEF Create
  <1>2. /\ thread[h].node \in Nodes /\ m \in Messages /\ m.esc \in Escalations /\ f \in Files
        /\ m.from = thread[h].node /\ m.signer = thread[h].node
    BY <1>1, BusyThread DEF ChannelType, TypeOK
  <1>3. CASE /\ inbox' = [inbox EXCEPT ![f] = EmptyFile]
             /\ thread' = [thread EXCEPT ![h].pc = "write"]
             /\ UNCHANGED acked
    <2>1. thread' = [thread EXCEPT ![h] = [pc |-> "write", node |-> thread[h].node, message |-> m]]
      <3>1. thread[h] \in [pc : {"verify", "store", "write"}, node : Nodes, message : Messages]
        BY <1>1, BusyThread
      <3>2. [thread[h] EXCEPT !.pc = "write"] = [pc |-> "write", node |-> thread[h].node, message |-> m]
        BY <3>1
      <3>3. QED
        BY <1>3, <3>2
    <2>2. inbox' \in [Files -> FileRecord]
      BY <1>3 DEF ChannelType, EmptyFile, FileRecord
    <2>3. \A g \in Files : inbox'[g] \in {NoFile, EmptyFile} \/ inbox'[g].message \in Messages
      BY <1>3 DEF ChannelType, TypeOK
    <2>4. QED
      BY <1>1, <1>2, <1>3, <2>1, <2>2, <2>3, ThreadMoves DEF ChannelType, TypeOK
  <1>4. CASE thread' = [thread EXCEPT ![h] = Idle] /\ Answer(m.esc) /\ UNCHANGED inbox
    BY <1>1, <1>2, <1>4, ThreadEnds DEF ChannelType, TypeOK, Answer
  <1>5. QED
    BY <1>3, <1>4 DEF Create

(* The message is written to its file.                                     *)
LEMMA WriteStep ==
    ASSUME ChannelType, NEW h \in Threads, Write(h)
    PROVE  ChannelType'
  <1> DEFINE m == thread[h].message
  <1>1. /\ thread[h].pc = "write" /\ UNCHANGED <<store, accepted, torn, crashes, posted, now>>
        /\ inbox' = [inbox EXCEPT ![FileOf[m.esc]] = Whole(thread[h].node, m)]
        /\ thread' = [thread EXCEPT ![h] = Idle]
        /\ Answer(m.esc)
    BY DEF Write
  <1>2. /\ thread[h].node \in Nodes /\ m \in Messages /\ m.esc \in Escalations
        /\ FileOf[m.esc] \in Files
    BY <1>1, BusyThread
  <1>3. inbox' \in [Files -> FileRecord]
    BY <1>1, <1>2 DEF ChannelType, Whole, FileRecord
  <1>4. \A f \in Files : inbox'[f] \in {NoFile, EmptyFile} \/ inbox'[f].message \in Messages
    BY <1>1, <1>2 DEF ChannelType, TypeOK, Whole
  <1>5. QED
    BY <1>1, <1>2, <1>3, <1>4, ThreadEnds DEF ChannelType, TypeOK, Answer

(* The files that threads were writing are files.                          *)
LEMMA WritingType ==
    ASSUME ChannelType, NEW hs \in SUBSET Threads
    PROVE  WritingFiles(hs) \subseteq Files
  BY BusyThread DEF WritingFiles

(* A thread gives up.                                                      *)
LEMMA RefuseStep ==
    ASSUME ChannelType, NEW h \in Threads, Refuse(h)
    PROVE  ChannelType'
  <1>1. torn' \subseteq Files
    BY WritingType DEF Refuse, ChannelType, TypeOK
  <1>2. QED
    BY <1>1, ThreadEnds DEF Refuse, ChannelType, TypeOK

(* The server is killed.                                                   *)
LEMMA CrashStep ==
    ASSUME ChannelType, Crash
    PROVE  ChannelType'
  <1>1. torn' \subseteq Files
    BY WritingType DEF Crash, ChannelType, TypeOK
  <1>2. QED
    BY <1>1 DEF Crash, ChannelType, TypeOK, Idle

(* The clock goes on.                                                      *)
LEMMA TickStep ==
    ASSUME ChannelType, Tick
    PROVE  ChannelType'
  <1>1. now' = now + 1 /\ now' \in 0..MaxTime /\ now \in Nat
    BY ChannelAssumption DEF Tick, ChannelType, TypeOK
  <1>2. QED
    BY <1>1 DEF Tick, ChannelType, TypeOK

(* Every step keeps the types. *)
LEMMA ChannelTypeStep ==
    ASSUME ChannelType, [Next]_vars
    PROVE  ChannelType'
  <1>1. ASSUME NEW e \in Escalations, Post(e) PROVE ChannelType'
    BY <1>1, PostStep
  <1>2. ASSUME NEW h \in Threads, Receive(h) \/ Verify(h) \/ Create(h) \/ Write(h) \/ Refuse(h)
        PROVE  ChannelType'
    BY <1>2, ReceiveStep, VerifyStep, CreateStep, WriteStep, RefuseStep
  <1>3. CASE Crash
    BY <1>3, CrashStep
  <1>4. CASE Tick
    BY <1>4, TickStep
  <1>5. CASE UNCHANGED vars
    BY <1>5 DEF vars, ChannelType, TypeOK
  <1>6. QED
    BY <1>1, <1>2, <1>3, <1>4, <1>5 DEF Next

(* The types hold in every state. *)
LEMMA ChannelTyped == Spec => []ChannelType
<1>1. Init => ChannelType
  BY ChannelAssumption, FS_EmptySet
     DEF Init, ChannelType, TypeOK, EmptyStore, Idle, NoFile, FileRecord
<1>2. ChannelType /\ [Next]_vars => ChannelType'
  BY ChannelTypeStep
<1>3. QED
  BY <1>1, <1>2, PTL DEF Spec

(* The channel is well typed, and a thread past verify_message works on a  *)
(* message of its own node (node_channel.py:191-209).                      *)
THEOREM ChannelTypeCorrect == Spec => []TypeOK
<1>1. ChannelType => TypeOK
  BY DEF ChannelType
<1>2. QED
  BY <1>1, ChannelTyped, PTL

-----------------------------------------------------------------------------
(* Replays *)

(* The inductive invariant: the row of an acceptance is on file, with its  *)
(* time, until a message is accepted more than a window later, by the      *)
(* times the threads came with.  NonceKept alone says nothing of the time  *)
(* in the row, which is what a purge compares.                             *)
RowKept ==
    \A a \in accepted : (\A b \in accepted : b.at <= a.at + Window) =>
        \E row \in store.nonces : row.nonce = a.nonce /\ row.at = a.at

(* The purge of an accept at `at` keeps every row that is at most a window *)
(* older than `at`; no other step touches the rows.                        *)
LEMMA RowKeptStep ==
    ASSUME ChannelType, RowKept, [Next]_vars
    PROVE  RowKept'
  <1>1. ASSUME NEW h \in Threads, Verify(h) PROVE RowKept'
    <2>1. PICK m \in Variants(thread[h].message), at \in At :
            /\ store' = Accept(store, thread[h].node, m.nonce, at)
            /\ accepted' = accepted \cup {[node |-> thread[h].node, nonce |-> m.nonce,
                                           sent_at |-> m.sent_at, at |-> at]}
      BY <1>1 DEF Verify
    <2>2. store'.nonces = Remembered(store, at) \cup {[nonce |-> m.nonce, at |-> at]}
      BY <2>1 DEF Accept
    <2>3. ASSUME NEW a \in accepted, \A b \in accepted' : b.at <= a.at + Window
          PROVE  \E row \in store'.nonces : row.nonce = a.nonce /\ row.at = a.at
      <3>1. \A b \in accepted : b.at <= a.at + Window
        BY <2>1, <2>3
      <3>2. PICK row \in store.nonces : row.nonce = a.nonce /\ row.at = a.at
        BY <3>1 DEF RowKept
      <3>3. at <= a.at + Window
        <4> DEFINE b == [node |-> thread[h].node, nonce |-> m.nonce, sent_at |-> m.sent_at, at |-> at]
        <4>1. b \in accepted' /\ b.at = at
          BY <2>1
        <4>2. QED
          BY <2>3, <4>1
      <3>4. row \in Remembered(store, at)
        BY <3>2, <3>3 DEF Remembered
      <3>5. QED
        BY <2>2, <3>2, <3>4
    <2>4. ASSUME NEW a \in accepted', a \notin accepted
          PROVE  \E row \in store'.nonces : row.nonce = a.nonce /\ row.at = a.at
      <3>1. a.nonce = m.nonce /\ a.at = at
        BY <2>1, <2>4
      <3>2. [nonce |-> m.nonce, at |-> at] \in store'.nonces
        BY <2>2
      <3>3. QED
        BY <3>1, <3>2
    <2>5. QED
      BY <2>3, <2>4 DEF RowKept
  <1>2. ASSUME UNCHANGED <<store, accepted>> PROVE RowKept'
    BY <1>2 DEF RowKept
  <1>3. QED
    BY <1>1, <1>2
       DEF Next, Post, Receive, Create, Write, Refuse, Crash, Tick, vars

(* A second delivery of a message that was not dated ahead is refused as a *)
(* replay by every thread that does not refuse it as stale and was not     *)
(* overtaken by an accept with a later reading of the clock                *)
(* (incident_transport.py:269-273, 289, 312-330), for any window, skew,    *)
(* lag and number of threads.                                              *)
THEOREM NoReplay == Spec => []NonceKept
<1>1. Init => RowKept
  BY DEF Init, RowKept
<1>2. ChannelType /\ RowKept /\ [Next]_vars => RowKept'
  BY RowKeptStep
<1>3. ChannelType /\ RowKept => NonceKept
  <2> SUFFICES ASSUME ChannelType, RowKept, NEW a \in accepted, NEW at \in At,
                      a.sent_at <= a.at, at <= a.sent_at + Window,
                      \A b \in accepted : b.at <= at
               PROVE  NonceSeen(store, a.nonce)
    BY DEF NonceKept
  <2>1. a.sent_at \in Nat /\ a.at \in Nat /\ at \in Nat /\ Window \in Nat
    BY VerifierAssumption, ChannelAssumption DEF ChannelType, TypeOK, At
  <2>2. \A b \in accepted : b.at \in Nat /\ b.at <= a.at + Window
    BY <2>1 DEF ChannelType
  <2>3. QED
    BY <2>2 DEF RowKept, NonceSeen
<1>4. QED
  BY <1>1, <1>2, <1>3, ChannelTyped, PTL DEF Spec

-----------------------------------------------------------------------------
(* The inbox *)

FileOfThread(h) == FileOf[thread[h].message.esc]

(* O_EXCL: the file a thread writes is empty, and no other thread writes it. *)
OneWriter ==
    \A h \in Threads : thread[h].pc = "write" =>
        /\ inbox[FileOfThread(h)] = EmptyFile
        /\ \A g \in Threads :
              (thread[g].pc = "write" /\ FileOfThread(g) = FileOfThread(h)) => g = h

(* A step that does not touch the inbox and starts no writer.              *)
LEMMA OneWriterKept ==
    ASSUME OneWriter, UNCHANGED inbox,
           \A h \in Threads : thread'[h].pc = "write" => thread'[h] = thread[h]
    PROVE  OneWriter'
  BY DEF OneWriter, FileOfThread

(* Every step keeps one writer per file, and leaves whole files alone.     *)
LEMMA InboxStep ==
    ASSUME ChannelType, OneWriter, [Next]_vars
    PROVE  /\ OneWriter'
           /\ \A f \in Files : inbox[f].state = "whole" => inbox'[f] = inbox[f]
  <1> DEFINE Goal == /\ OneWriter'
                     /\ \A f \in Files : inbox[f].state = "whole" => inbox'[f] = inbox[f]
  <1>1. ASSUME NEW h \in Threads, UNCHANGED inbox, thread' = [thread EXCEPT ![h] = Idle]
        PROVE  Goal
    <2>1. \A g \in Threads : thread'[g].pc = "write" => thread'[g] = thread[g]
      BY <1>1 DEF ChannelType, TypeOK, Idle
    <2>2. QED
      BY <1>1, <2>1, OneWriterKept
  <1>2. ASSUME NEW h \in Threads, Create(h) PROVE Goal
    <2> DEFINE f == FileOfThread(h)
    <2>1. thread[h].pc = "store" /\ f \in Files
      BY <1>2, BusyThread DEF Create, FileOfThread
    <2>2. CASE inbox[f] = NoFile
      <3>1. /\ inbox' = [inbox EXCEPT ![f] = EmptyFile]
            /\ thread' = [thread EXCEPT ![h].pc = "write"]
        BY <1>2, <2>2 DEF Create, FileOfThread
      <3>2. \A g \in Threads : g # h => thread'[g] = thread[g]
        BY <3>1 DEF ChannelType, TypeOK
      <3>3. thread'[h].message = thread[h].message /\ FileOfThread(h)' = f
        <4>1. thread[h] \in [pc : {"verify", "store", "write"}, node : Nodes, message : Messages]
          BY <2>1, BusyThread
        <4>2. thread'[h] = [thread[h] EXCEPT !.pc = "write"]
          BY <3>1 DEF ChannelType, TypeOK
        <4>3. thread'[h].message = thread[h].message
          BY <4>1, <4>2
        <4>4. QED
          BY <4>3 DEF FileOfThread
      <3>4. \A g \in Threads : thread[g].pc = "write" => FileOfThread(g) # f
        BY <2>2 DEF OneWriter, NoFile, EmptyFile
      <3>5. \A g \in Threads : (g # h /\ thread'[g].pc = "write") =>
              FileOfThread(g)' = FileOfThread(g) /\ FileOfThread(g) # f /\ thread[g].pc = "write"
        BY <3>2, <3>4 DEF FileOfThread
      <3>6. inbox'[f] = EmptyFile /\ \A n \in Files : n # f => inbox'[n] = inbox[n]
        BY <2>1, <3>1 DEF ChannelType
      <3>7. \A g \in Threads : thread[g].pc = "write" => FileOfThread(g) \in Files
        BY BusyThread DEF FileOfThread
      <3>8. OneWriter'
        BY <3>3, <3>5, <3>6, <3>7 DEF OneWriter
      <3>9. QED
        BY <2>2, <3>6, <3>8 DEF NoFile
    <2>3. CASE inbox[f] # NoFile
      BY <1>1, <1>2, <2>3 DEF Create, FileOfThread
    <2>4. QED
      BY <2>2, <2>3
  <1>3. ASSUME NEW h \in Threads, Write(h) PROVE Goal
    <2> DEFINE f == FileOfThread(h)
    <2>1. /\ thread[h].pc = "write" /\ f \in Files /\ inbox[f] = EmptyFile
          /\ thread' = [thread EXCEPT ![h] = Idle]
          /\ inbox' = [inbox EXCEPT ![f] = Whole(thread[h].node, thread[h].message)]
      BY <1>3, BusyThread DEF Write, FileOfThread, OneWriter
    <2>2. \A g \in Threads : thread'[g].pc = "write" => g # h /\ thread'[g] = thread[g]
      BY <2>1 DEF ChannelType, TypeOK, Idle
    <2>3. \A g \in Threads : thread'[g].pc = "write" =>
            thread[g].pc = "write" /\ FileOfThread(g)' = FileOfThread(g) /\ FileOfThread(g) # f
      BY <2>1, <2>2 DEF OneWriter, FileOfThread
    <2>4. \A n \in Files : n # f => inbox'[n] = inbox[n]
      BY <2>1 DEF ChannelType
    <2>5. \A g \in Threads : thread[g].pc = "write" => FileOfThread(g) \in Files
      BY BusyThread DEF FileOfThread
    <2>6. OneWriter'
      BY <2>3, <2>4, <2>5 DEF OneWriter
    <2>7. QED
      BY <2>1, <2>4, <2>6 DEF EmptyFile
  <1>4. ASSUME NEW h \in Threads, Receive(h) \/ Verify(h) PROVE Goal
    <2>1. UNCHANGED inbox
      BY <1>4 DEF Receive, Verify
    <2>2. \A g \in Threads : thread'[g].pc = "write" => thread'[g] = thread[g]
      BY <1>4 DEF Receive, Verify, ChannelType, TypeOK
    <2>3. QED
      BY <2>1, <2>2, OneWriterKept
  <1>5. ASSUME NEW h \in Threads, Refuse(h) PROVE Goal
    BY <1>1, <1>5 DEF Refuse
  <1>6. CASE Crash
    BY <1>6, OneWriterKept DEF Crash, Idle
  <1>7. ASSUME UNCHANGED <<inbox, thread>> PROVE Goal
    BY <1>7, OneWriterKept
  <1>8. QED
    BY <1>2, <1>3, <1>4, <1>5, <1>6, <1>7 DEF Next, Post, Tick, vars

(* No post, thread or restart changes a message that is stored             *)
(* (node_channel.py:198-209).                                              *)
THEOREM StoredForGood == Spec => StoredOnce
<1>1. Init => OneWriter
  BY DEF Init, OneWriter, Idle
<1>2. ChannelType /\ OneWriter /\ [Next]_vars => OneWriter'
  BY InboxStep
<1>3. ChannelType /\ OneWriter /\ [Next]_vars =>
        [\A f \in Files : inbox[f].state = "whole" => inbox'[f] = inbox[f]]_vars
  BY InboxStep
<1>4. QED
  BY <1>1, <1>2, <1>3, ChannelTyped, PTL DEF Spec, StoredOnce

-----------------------------------------------------------------------------
(* What was acknowledged *)

(* What a file of the inbox may be: not there, empty because a thread is   *)
(* at work on it or was stopped at it, or a message of this file name from *)
(* the node it belongs to.                                                 *)
FileRight(f) ==
    \/ inbox[f] = NoFile
    \/ inbox[f] = EmptyFile /\ (BeingWritten(f) \/ f \in torn)
    \/ \E e \in Escalations :
          /\ inbox[f].state = "whole" /\ FileOf[e] = f
          /\ inbox[f].node = NodeOf[e] /\ inbox[f].message.esc = e

OwnNode(h) == thread[h].pc # "idle" => thread[h].node = NodeOf[thread[h].message.esc]

AckInv ==
    /\ \A f \in Files : FileRight(f)
    /\ \A h \in Threads : OwnNode(h)
    /\ \A e \in acked : inbox[FileOf[e]] # NoFile

(* A file that a step leaves alone stays right if its writer goes on, or   *)
(* is remembered as torn.                                                  *)
LEMMA FileKept ==
    ASSUME NEW f \in Files, FileRight(f), inbox'[f] = inbox[f], torn \subseteq torn',
           BeingWritten(f) => BeingWritten(f)' \/ f \in torn'
    PROVE  FileRight(f)'
  BY DEF FileRight

(* A thread that keeps writing keeps its file being written.               *)
LEMMA WriterGoesOn ==
    ASSUME NEW f \in Files, NEW h \in Threads, thread[h].pc # "write",
           \A g \in Threads : g # h => thread'[g] = thread[g], BeingWritten(f)
    PROVE  BeingWritten(f)'
  <1>1. PICK g \in Threads : thread[g].pc = "write" /\ FileOf[thread[g].message.esc] = f
    BY DEF BeingWritten
  <1>2. thread'[g] = thread[g]
    BY <1>1
  <1>3. QED
    BY <1>1, <1>2 DEF BeingWritten

(* Every step keeps the files right and the acknowledged ones there.       *)
LEMMA AckInvStep ==
    ASSUME ChannelType, OneWriter, AckInv, [Next]_vars
    PROVE  AckInv'
  <1>1. ASSUME NEW h \in Threads, Create(h) PROVE AckInv'
    <2> DEFINE m == thread[h].message
    <2>0. PICK f \in Files : f = FileOf[m.esc]
      BY <1>1, BusyThread DEF Create
    <2>1. /\ thread[h].pc = "store" /\ torn' = torn /\ m.esc \in Escalations
          /\ thread[h] \in [pc : {"verify", "store", "write"}, node : Nodes, message : Messages]
      BY <1>1, BusyThread DEF Create
    <2>2. \A g \in Threads : g # h => thread'[g] = thread[g]
      BY <1>1 DEF Create, ChannelType, TypeOK
    <2>3. \A n \in Files : BeingWritten(n) => BeingWritten(n)'
      BY <2>1, <2>2, WriterGoesOn
    <2>4. CASE inbox[f] = NoFile
      <3>1. /\ inbox' = [inbox EXCEPT ![f] = EmptyFile] /\ acked' = acked
            /\ thread' = [thread EXCEPT ![h].pc = "write"]
        BY <1>1, <2>0, <2>4 DEF Create
      <3>2. inbox'[f] = EmptyFile /\ \A n \in Files : n # f => inbox'[n] = inbox[n]
        BY <2>1, <3>1 DEF ChannelType
      <3>3. thread'[h].pc = "write" /\ thread'[h].message = m /\ thread'[h].node = thread[h].node
        <4>1. thread'[h] = [thread[h] EXCEPT !.pc = "write"]
          BY <3>1 DEF ChannelType, TypeOK
        <4>2. QED
          BY <2>1, <4>1
      <3>4. BeingWritten(f)'
        BY <2>0, <3>3 DEF BeingWritten
      <3>5. \A n \in Files : FileRight(n)'
        <4>1. FileRight(f)'
          BY <3>2, <3>4 DEF FileRight
        <4>2. ASSUME NEW n \in Files, n # f PROVE FileRight(n)'
          BY <2>1, <2>3, <3>2, <4>2, FileKept DEF AckInv
        <4>3. QED
          BY <4>1, <4>2
      <3>6. \A g \in Threads : OwnNode(g)'
        BY <2>1, <2>2, <3>3 DEF AckInv, OwnNode
      <3>7. \A e \in acked : inbox'[FileOf[e]] # NoFile
        <4>1. \A e \in acked : FileOf[e] \in Files /\ inbox[FileOf[e]] # NoFile
          BY ChannelAssumption DEF AckInv, ChannelType, TypeOK
        <4>2. QED
          BY <3>2, <4>1 DEF NoFile, EmptyFile
      <3>8. QED
        BY <3>1, <3>5, <3>6, <3>7 DEF AckInv
    <2>5. CASE inbox[f] # NoFile
      <3>1. inbox' = inbox /\ thread' = [thread EXCEPT ![h] = Idle] /\ Answer(m.esc)
        BY <1>1, <2>0, <2>5 DEF Create
      <3>2. \A n \in Files : FileRight(n)'
        BY <2>1, <2>3, <3>1, FileKept DEF AckInv
      <3>3. \A g \in Threads : OwnNode(g)'
        BY <3>1 DEF AckInv, OwnNode, ChannelType, TypeOK, Idle
      <3>4. \A e \in acked' : inbox'[FileOf[e]] # NoFile
        BY <2>0, <2>5, <3>1 DEF AckInv, Answer
      <3>5. QED
        BY <3>2, <3>3, <3>4 DEF AckInv
    <2>6. QED
      BY <2>4, <2>5
  <1>2. ASSUME NEW h \in Threads, Write(h) PROVE AckInv'
    <2> DEFINE m == thread[h].message
    <2>0. PICK f \in Files : f = FileOf[m.esc]
      BY <1>2, BusyThread DEF Write
    <2>1. /\ thread[h].pc = "write" /\ torn' = torn /\ m.esc \in Escalations
          /\ thread' = [thread EXCEPT ![h] = Idle] /\ Answer(m.esc)
          /\ inbox' = [inbox EXCEPT ![f] = Whole(thread[h].node, m)]
      BY <1>2, <2>0, BusyThread DEF Write
    <2>2. /\ inbox'[f] = Whole(thread[h].node, m) /\ thread[h].node = NodeOf[m.esc]
          /\ \A n \in Files : n # f => inbox'[n] = inbox[n]
      BY <2>1 DEF ChannelType, AckInv, OwnNode
    <2>3. ASSUME NEW n \in Files, n # f, BeingWritten(n) PROVE BeingWritten(n)'
      <3>1. PICK g \in Threads : thread[g].pc = "write" /\ FileOf[thread[g].message.esc] = n
        BY <2>3 DEF BeingWritten
      <3>2. thread'[g] = thread[g]
        BY <2>0, <2>1, <2>3, <3>1 DEF ChannelType, TypeOK
      <3>3. QED
        BY <3>1, <3>2 DEF BeingWritten
    <2>4. \A n \in Files : FileRight(n)'
      <3>1. FileRight(f)'
        <4>1. /\ inbox'[f].state = "whole" /\ inbox'[f].node = NodeOf[m.esc]
              /\ inbox'[f].message = m
          BY <2>2 DEF Whole
        <4> HIDE DEF m
        <4> QED
          BY <2>0, <2>1, <4>1 DEF FileRight
      <3>2. ASSUME NEW n \in Files, n # f PROVE FileRight(n)'
        <4>1. FileRight(n) /\ inbox'[n] = inbox[n] /\ torn \subseteq torn'
          BY <2>1, <2>2, <3>2 DEF AckInv
        <4> QED
          BY <2>3, <3>2, <4>1, FileKept
      <3>3. QED
        BY <3>1, <3>2
    <2>5. \A g \in Threads : OwnNode(g)'
      BY <2>1 DEF AckInv, OwnNode, ChannelType, TypeOK, Idle
    <2>6. \A e \in acked' : inbox'[FileOf[e]] # NoFile
      <3>1. \A e \in acked : FileOf[e] \in Files /\ inbox[FileOf[e]] # NoFile
        BY ChannelAssumption DEF AckInv, ChannelType, TypeOK
      <3>2. inbox'[f] # NoFile
        BY <2>2 DEF Whole, NoFile
      <3>3. QED
        BY <2>0, <2>1, <2>2, <3>1, <3>2 DEF Answer
    <2>7. QED
      BY <2>4, <2>5, <2>6 DEF AckInv
  <1>3. ASSUME NEW h \in Threads, Receive(h) \/ Verify(h) PROVE AckInv'
    <2>1. UNCHANGED <<inbox, torn, acked>> /\ thread[h].pc # "write"
      BY <1>3 DEF Receive, Verify, Idle
    <2>2. \A g \in Threads : g # h => thread'[g] = thread[g]
      BY <1>3 DEF Receive, Verify, ChannelType, TypeOK
    <2>3. OwnNode(h)'
      <3>1. CASE Receive(h)
        BY <3>1 DEF Receive, OwnNode, ChannelType, TypeOK
      <3>2. CASE Verify(h)
        <4>1. PICK m \in Variants(thread[h].message) :
                thread' = [thread EXCEPT ![h] = [pc |-> "store", node |-> thread[h].node, message |-> m]]
          BY <3>2 DEF Verify
        <4>2. thread[h].pc = "verify" /\ thread[h].message \in Messages
          BY <3>2, BusyThread DEF Verify
        <4>3. m.esc = thread[h].message.esc
          BY <4>2 DEF Variants, Messages
        <4>4. thread[h].node = NodeOf[thread[h].message.esc]
          BY <4>2 DEF AckInv, OwnNode
        <4>5. QED
          BY <4>1, <4>3, <4>4 DEF OwnNode, ChannelType, TypeOK
      <3>3. QED
        BY <1>3, <3>1, <3>2
    <2>4. \A g \in Threads : OwnNode(g)'
      BY <2>2, <2>3 DEF AckInv, OwnNode
    <2>5. \A n \in Files : FileRight(n)'
      BY <2>1, <2>2, WriterGoesOn, FileKept DEF AckInv
    <2>6. QED
      BY <2>1, <2>4, <2>5 DEF AckInv
  <1>4. ASSUME NEW hs \in SUBSET Threads, UNCHANGED <<inbox, acked>>,
               torn' = torn \cup WritingFiles(hs),
               \A g \in Threads : thread'[g] = IF g \in hs THEN Idle ELSE thread[g]
        PROVE  AckInv'
    <2>1. ASSUME NEW f \in Files, BeingWritten(f) PROVE BeingWritten(f)' \/ f \in torn'
      <3>1. PICK g \in Threads : thread[g].pc = "write" /\ FileOf[thread[g].message.esc] = f
        BY <2>1 DEF BeingWritten
      <3>2. CASE g \in hs
        BY <1>4, <3>1, <3>2 DEF WritingFiles
      <3>3. CASE g \notin hs
        BY <1>4, <3>1, <3>3 DEF BeingWritten
      <3>4. QED
        BY <3>2, <3>3
    <2>2. \A f \in Files : FileRight(f)'
      BY <1>4, <2>1, FileKept DEF AckInv
    <2>3. \A g \in Threads : OwnNode(g)'
      BY <1>4 DEF AckInv, OwnNode, Idle
    <2>4. QED
      BY <1>4, <2>2, <2>3 DEF AckInv
  <1>5. ASSUME NEW h \in Threads, Refuse(h) PROVE AckInv'
    <2>1. \A g \in Threads : thread'[g] = IF g \in {h} THEN Idle ELSE thread[g]
      BY <1>5 DEF Refuse, ChannelType, TypeOK
    <2>2. QED
      BY <1>4, <1>5, <2>1 DEF Refuse
  <1>6. CASE Crash
    BY <1>4, <1>6 DEF Crash
  <1>7. ASSUME UNCHANGED <<inbox, thread, torn, acked>> PROVE AckInv'
    BY <1>7 DEF AckInv, FileRight, OwnNode, BeingWritten
  <1>8. QED
    BY <1>1, <1>2, <1>3, <1>5, <1>6, <1>7 DEF Next, Post, Tick, vars

(* An escalation that was answered with 200 is on file, or its writing was *)
(* cut short (node_channel.py:198-209), when no two message ids share a    *)
(* file.                                                                   *)
THEOREM AcknowledgedOnFile ==
    ASSUME DistinctFiles
    PROVE  Spec => []AckedIsOnFile
<1>1. Init => OneWriter /\ AckInv
  BY DEF Init, OneWriter, AckInv, FileRight, OwnNode, Idle
<1>2. ChannelType /\ OneWriter /\ AckInv /\ [Next]_vars => OneWriter' /\ AckInv'
  BY InboxStep, AckInvStep
<1>3. ChannelType /\ AckInv => AckedIsOnFile
  <2> SUFFICES ASSUME ChannelType, AckInv, NEW e \in acked
               PROVE  LET file == inbox[FileOf[e]] IN
                        \/ file.state = "whole" /\ file.node = NodeOf[e] /\ file.message.esc = e
                        \/ file.state = "empty" /\ (BeingWritten(FileOf[e]) \/ FileOf[e] \in torn)
    BY DEF AckedIsOnFile
  <2>1. e \in Escalations /\ FileOf[e] \in Files
    BY ChannelAssumption DEF ChannelType, TypeOK
  <2>2. inbox[FileOf[e]] # NoFile /\ FileRight(FileOf[e])
    BY <2>1 DEF AckInv
  <2>3. QED
    BY <2>1, <2>2 DEF FileRight, EmptyFile, DistinctFiles
<1>4. QED
  BY <1>1, <1>2, <1>3, ChannelTyped, PTL DEF Spec

-----------------------------------------------------------------------------
(* The rate *)

Acceptances == [node : Nodes, nonce : Escalations \X (Nat \ {0}), sent_at : Nat, at : Nat]

(* A nonce names one post: the k-th of an escalation. *)
NoncesDiffer ==
    /\ \A m \in posted : m.nonce[1] = m.esc /\ m.nonce[2] <= Tries(m.esc)
    /\ \A m, w \in posted : m.nonce = w.nonce => m = w

(* What was accepted was posted, so that the row of the state file, which  *)
(* has no sent_at, tells one acceptance from another.                      *)
AcceptedPosted ==
    /\ \A h \in Threads : thread[h].pc = "verify" => thread[h].message \in posted
    /\ accepted \subseteq Acceptances
    /\ \A a \in accepted : \E m \in posted : m.nonce = a.nonce /\ m.sent_at = a.sent_at

Recent(n) == {a \in accepted : a.node = n /\ now < a.at + RateWindow}

RowOf(a) == [node |-> a.node, nonce |-> a.nonce, at |-> a.at]

(* Until a minute has passed on the clock the row of an acceptance is on   *)
(* file: a purge at a time that lags keeps more, never less.               *)
RateInv ==
    /\ IsFiniteSet(accepted) /\ IsFiniteSet(store.messages)
    /\ \A a \in accepted : now < a.at + RateWindow => RowOf(a) \in store.messages
    /\ RateHonoured

LEMMA TriesNat ==
    ASSUME ChannelType, NEW e
    PROVE  IsFiniteSet({m \in posted : m.esc = e}) /\ Tries(e) \in Nat
  <1>1. IsFiniteSet({m \in posted : m.esc = e})
    BY FS_Subset DEF ChannelType
  <1> QED
    BY <1>1, FS_CardinalityType DEF Tries

(* A post has a nonce that no post had. *)
LEMMA PostNonces ==
    ASSUME ChannelType, NoncesDiffer, NEW e \in Escalations, Post(e)
    PROVE  NoncesDiffer' /\ posted \subseteq posted'
  <1>1. PICK at \in SentAt : posted' = posted \cup {Message(e, Tries(e) + 1, at)}
    BY DEF Post
  <1> DEFINE new == Message(e, Tries(e) + 1, at)
  <1>2. new.esc = e /\ new.nonce = <<e, Tries(e) + 1>>
    BY DEF Message
  <1> HIDE DEF new
  <1>3. Tries(e) \in Nat
    BY TriesNat
  <1>4. \A m \in posted : m.nonce # new.nonce
    <2> SUFFICES ASSUME NEW m \in posted, m.nonce = new.nonce PROVE FALSE
      OBVIOUS
    <2>1. m.nonce[1] = e /\ m.nonce[2] = Tries(e) + 1
      BY <1>2
    <2>2. m.esc = e /\ m.nonce[2] <= Tries(e)
      BY <2>1 DEF NoncesDiffer
    <2> QED
      BY <1>3, <2>1, <2>2
  <1>5. \A d : d # e => Tries(d)' = Tries(d)
    <2> SUFFICES ASSUME NEW d, d # e PROVE Tries(d)' = Tries(d)
      OBVIOUS
    <2>1. {m \in posted' : m.esc = d} = {m \in posted : m.esc = d}
      BY <1>1, <1>2 DEF new
    <2> QED
      BY <2>1 DEF Tries
  <1>6. Tries(e)' = Tries(e) + 1
    <2>1. /\ {m \in posted' : m.esc = e} = {m \in posted : m.esc = e} \cup {new}
          /\ new \notin {m \in posted : m.esc = e}
      BY <1>1, <1>2, <1>4 DEF new
    <2> DEFINE S == {m \in posted : m.esc = e}
    <2>2. IsFiniteSet(S) /\ new \notin S
      BY <2>1, TriesNat
    <2>3. Tries(e) = Cardinality(S) /\ Tries(e)' = Cardinality(S \cup {new})
      BY <2>1 DEF Tries
    <2> HIDE DEF S
    <2>4. Cardinality(S \cup {new}) = Cardinality(S) + 1
      BY <2>2, FS_AddElement
    <2> QED
      BY <2>3, <2>4
  <1>7. \A m \in posted' : m.nonce[1] = m.esc /\ m.nonce[2] <= Tries(m.esc)'
    <2>1. ASSUME NEW m \in posted PROVE m.nonce[1] = m.esc /\ m.nonce[2] <= Tries(m.esc)'
      <3>1. m.nonce[1] = m.esc /\ m.nonce[2] <= Tries(m.esc)
        BY DEF NoncesDiffer
      <3>2. m.nonce[2] \in Nat
        BY DEF ChannelType, TypeOK, Messages
      <3> QED
        BY <1>3, <1>5, <1>6, <3>1, <3>2
    <2>2. new.nonce[1] = e /\ new.nonce[2] = Tries(e) + 1
      BY <1>2
    <2> QED
      BY <1>1, <1>2, <1>3, <1>6, <2>1, <2>2 DEF new
  <1> QED
    BY <1>1, <1>4, <1>7 DEF NoncesDiffer, new

LEMMA VariantNonce ==
    ASSUME NEW m \in Messages, NEW v \in Variants(m) PROVE v.nonce = m.nonce
  BY DEF Variants, Messages

(* What a Verify accepts is the post the thread has received. *)
LEMMA VerifyAccepts ==
    ASSUME ChannelType, AcceptedPosted, NEW h \in Threads, Verify(h)
    PROVE  \E n \in Nodes, nonce \in Escalations \X (Nat \ {0}), sent_at \in Nat, at \in Nat :
             /\ ~Overloaded(store, n, at) /\ at <= now
             /\ store' = Accept(store, n, nonce, at)
             /\ accepted' = accepted \cup {[node |-> n, nonce |-> nonce, sent_at |-> sent_at, at |-> at]}
             /\ \E m \in posted : m.nonce = nonce /\ m.sent_at = sent_at
  <1> DEFINE node == thread[h].node
             post == thread[h].message
  <1>1. node \in Nodes /\ post \in Messages /\ post \in posted
    BY BusyThread DEF Verify, AcceptedPosted
  <1>2. PICK m \in Variants(post), at \in At :
          /\ Acceptable(m, node, "dev-server", store, at)
          /\ store' = Accept(store, node, m.nonce, at)
          /\ accepted' = accepted \cup {[node |-> node, nonce |-> m.nonce, sent_at |-> m.sent_at, at |-> at]}
    BY DEF Verify
  <1>3. m \in Messages /\ m.nonce = post.nonce /\ m.sent_at = post.sent_at /\ m.sent_at \in Nat
    BY <1>1, VariantType, VariantNonce
  <1>4. m.nonce \in Escalations \X (Nat \ {0})
    BY <1>3 DEF Messages
  <1>5. at \in Nat /\ at <= now
    BY ChannelAssumption DEF At
  <1>6. ~Overloaded(store, node, at)
    BY <1>2 DEF Acceptable
  <1> HIDE DEF node, post
  <1> QED
    BY <1>1, <1>2, <1>3, <1>4, <1>5, <1>6

LEMMA PostedStep ==
    ASSUME ChannelType, NoncesDiffer, AcceptedPosted, [Next]_vars
    PROVE  NoncesDiffer' /\ AcceptedPosted'
  <1>1. ASSUME NEW e \in Escalations, Post(e) PROVE NoncesDiffer' /\ AcceptedPosted'
    BY <1>1, PostNonces DEF Post, AcceptedPosted
  <1>2. ASSUME NEW h \in Threads, Verify(h) PROVE NoncesDiffer' /\ AcceptedPosted'
    <2>1. PICK n \in Nodes, nonce \in Escalations \X (Nat \ {0}), sent_at \in Nat, at \in Nat :
            /\ accepted' = accepted \cup {[node |-> n, nonce |-> nonce, sent_at |-> sent_at, at |-> at]}
            /\ \E m \in posted : m.nonce = nonce /\ m.sent_at = sent_at
      BY <1>2, VerifyAccepts
    <2>2. posted' = posted
      BY <1>2 DEF Verify
    <2>3. \A g \in Threads : thread'[g].pc = "verify" => thread'[g] = thread[g]
      BY <1>2 DEF Verify, ChannelType, TypeOK
    <2>4. accepted' \subseteq Acceptances
      BY <2>1 DEF AcceptedPosted, Acceptances
    <2>5. \A a \in accepted' : \E m \in posted : m.nonce = a.nonce /\ m.sent_at = a.sent_at
      BY <2>1 DEF AcceptedPosted
    <2> QED
      BY <2>2, <2>3, <2>4, <2>5 DEF AcceptedPosted, NoncesDiffer, Tries
  <1>3. ASSUME NEW h \in Threads, Receive(h) PROVE NoncesDiffer' /\ AcceptedPosted'
    <2>1. UNCHANGED <<posted, accepted>>
      BY <1>3 DEF Receive
    <2>2. \A g \in Threads : thread'[g] = thread[g] \/ thread'[g].message \in posted
      BY <1>3 DEF Receive, ChannelType, TypeOK
    <2> QED
      BY <2>1, <2>2 DEF AcceptedPosted, NoncesDiffer, Tries
  <1>4. ASSUME UNCHANGED <<posted, accepted>>,
               \A g \in Threads : thread'[g].pc = "verify" => thread'[g] = thread[g]
        PROVE  NoncesDiffer' /\ AcceptedPosted'
    BY <1>4 DEF AcceptedPosted, NoncesDiffer, Tries
  <1>5. ASSUME NEW h \in Threads, Create(h) \/ Write(h) \/ Refuse(h)
        PROVE  /\ UNCHANGED <<posted, accepted>>
               /\ \A g \in Threads : thread'[g].pc = "verify" => thread'[g] = thread[g]
    BY <1>5 DEF Create, Write, Refuse, Idle, ChannelType, TypeOK
  <1>6. ASSUME Crash \/ Tick \/ UNCHANGED vars
        PROVE  /\ UNCHANGED <<posted, accepted>>
               /\ \A g \in Threads : thread'[g].pc = "verify" => thread'[g] = thread[g]
    BY <1>6 DEF Crash, Tick, vars, Idle
  <1> QED
    BY <1>1, <1>2, <1>3, <1>4, <1>5, <1>6 DEF Next

(* The recent acceptances of a node are no more than the rows that the     *)
(* verifier counts at any time that is not ahead of the clock.             *)
LEMMA RecentCounted ==
    ASSUME ChannelType, NoncesDiffer, AcceptedPosted, RateInv, NEW n, NEW at \in Nat, at <= now
    PROVE  /\ IsFiniteSet(Recent(n)) /\ Cardinality(Recent(n)) \in Nat
           /\ ~Overloaded(store, n, at) => Cardinality(Recent(n)) < RateLimit
  <1> DEFINE R == Recent(n)
             T == {row \in store.messages : row.node = n /\ at < row.at + RateWindow}
             f == [a \in R |-> RowOf(a)]
  <1>1. R \in SUBSET accepted /\ T \in SUBSET store.messages
    BY DEF Recent
  <1>2. /\ IsFiniteSet(R) /\ Cardinality(R) \in Nat /\ IsFiniteSet(T) /\ Cardinality(T) \in Nat
    BY <1>1, FS_Subset, FS_CardinalityType DEF RateInv
  <1>3. \A a \in R : RowOf(a) \in T
    <2> SUFFICES ASSUME NEW a \in R PROVE RowOf(a) \in T
      OBVIOUS
    <2>1. a \in accepted /\ a.node = n /\ now < a.at + RateWindow
      BY DEF Recent
    <2>2. a.at \in Nat /\ now \in Nat /\ RateWindow \in Nat
      BY <2>1, VerifierAssumption DEF ChannelType, TypeOK
    <2>3. RowOf(a) \in store.messages
      BY <2>1 DEF RateInv
    <2>4. RowOf(a).node = n /\ RowOf(a).at = a.at
      BY <2>1 DEF RowOf
    <2> QED
      BY <2>1, <2>2, <2>3, <2>4
  <1>4. \A a, b \in R : RowOf(a) = RowOf(b) => a = b
    <2> SUFFICES ASSUME NEW a \in R, NEW b \in R, RowOf(a) = RowOf(b) PROVE a = b
      OBVIOUS
    <2>1. a \in accepted /\ b \in accepted /\ a \in Acceptances /\ b \in Acceptances
      BY DEF Recent, AcceptedPosted
    <2>2. a.node = b.node /\ a.nonce = b.nonce /\ a.at = b.at
      BY DEF RowOf
    <2>3. a.sent_at = b.sent_at
      BY <2>1, <2>2 DEF AcceptedPosted, NoncesDiffer
    <2> QED
      BY <2>1, <2>2, <2>3 DEF Acceptances
  <1>5. f \in [R -> T]
    BY <1>3
  <1>6. \A a, b \in R : f[a] = f[b] => a = b
    BY <1>4
  <1> HIDE DEF R, T, f
  <1>7. ~(Cardinality(T) < Cardinality(R))
    <2> SUFFICES ASSUME Cardinality(T) < Cardinality(R) PROVE FALSE
      OBVIOUS
    <2>1. \E x, y \in R : x # y /\ f[x] = f[y]
      BY <1>2, <1>5, FS_PigeonHole
    <2> QED
      BY <1>6, <2>1
  <1>8. ~Overloaded(store, n, at) => ~(Cardinality(T) >= RateLimit)
    BY DEF Overloaded, T
  <1> QED
    BY <1>2, <1>7, <1>8, VerifierAssumption DEF R

LEMMA RateStep ==
    ASSUME ChannelType, NoncesDiffer, AcceptedPosted, RateInv, [Next]_vars
    PROVE  RateInv'
  <1>0. now \in Nat /\ RateWindow \in Nat /\ RateLimit \in Nat /\ \A a \in accepted : a.at \in Nat
    BY VerifierAssumption DEF ChannelType, TypeOK
  <1>1. ASSUME NEW h \in Threads, Verify(h) PROVE RateInv'
    <2>1. PICK n \in Nodes, nonce \in Escalations \X (Nat \ {0}), sent_at \in Nat, at \in Nat :
            /\ ~Overloaded(store, n, at) /\ at <= now
            /\ store' = Accept(store, n, nonce, at)
            /\ accepted' = accepted \cup {[node |-> n, nonce |-> nonce, sent_at |-> sent_at, at |-> at]}
      BY <1>1, VerifyAccepts
    <2> DEFINE new == [node |-> n, nonce |-> nonce, sent_at |-> sent_at, at |-> at]
    <2>2. new.node = n /\ new.at = at /\ RowOf(new) = [node |-> n, nonce |-> nonce, at |-> at]
      BY DEF RowOf
    <2>3. store'.messages = {row \in store.messages : at < row.at + RateWindow} \cup {RowOf(new)}
      BY <2>1, <2>2 DEF Accept
    <2>4. accepted' = accepted \cup {new} /\ now' = now
      BY <1>1, <2>1 DEF Verify
    <2> HIDE DEF new
    <2>5. IsFiniteSet(accepted')
      BY <2>4, FS_AddElement DEF RateInv
    <2>6. IsFiniteSet(store'.messages)
      <3>1. IsFiniteSet({row \in store.messages : at < row.at + RateWindow})
        BY FS_Subset DEF RateInv
      <3> QED
        BY <2>3, <3>1, FS_AddElement
    <2>7. \A a \in accepted' : now' < a.at + RateWindow => RowOf(a) \in store'.messages
      <3> SUFFICES ASSUME NEW a \in accepted, now < a.at + RateWindow PROVE RowOf(a) \in store'.messages
        BY <2>3, <2>4
      <3>1. RowOf(a) \in store.messages /\ RowOf(a).at = a.at /\ a.at \in Nat
        BY <1>0 DEF RateInv, RowOf
      <3> QED
        BY <1>0, <2>1, <2>3, <3>1
    <2>8. ASSUME NEW k \in Nodes PROVE Cardinality(Recent(k)') <= RateLimit
      <3>1. /\ IsFiniteSet(Recent(k)) /\ Cardinality(Recent(k)) \in Nat
            /\ ~Overloaded(store, k, at) => Cardinality(Recent(k)) < RateLimit
        BY <2>1, RecentCounted
      <3>2. CASE k # n
        <4>1. Recent(k)' = Recent(k)
          BY <2>2, <2>4, <3>2 DEF Recent
        <4> QED
          BY <4>1 DEF RateInv, RateHonoured, Recent
      <3>3. CASE k = n
        <4>1. Recent(k)' \in SUBSET (Recent(k) \cup {new})
          BY <2>4 DEF Recent
        <4>2. /\ IsFiniteSet(Recent(k) \cup {new})
              /\ Cardinality(Recent(k) \cup {new}) <= Cardinality(Recent(k)) + 1
              /\ Cardinality(Recent(k) \cup {new}) \in Nat
          <5> DEFINE R == Recent(k)
          <5>1. IsFiniteSet(R) /\ Cardinality(R) \in Nat
            BY <3>1
          <5> HIDE DEF R
          <5>2. /\ IsFiniteSet(R \cup {new})
                /\ Cardinality(R \cup {new}) = IF new \in R THEN Cardinality(R) ELSE Cardinality(R) + 1
            BY <5>1, FS_AddElement
          <5> QED
            BY <5>1, <5>2 DEF R
        <4>3. Cardinality(Recent(k)') <= Cardinality(Recent(k) \cup {new}) /\ IsFiniteSet(Recent(k)')
          BY <4>1, <4>2, FS_Subset
        <4>4. Cardinality(Recent(k)') \in Nat
          BY <4>3, FS_CardinalityType
        <4>5. Cardinality(Recent(k)) < RateLimit
          BY <2>1, <3>1, <3>3
        <4> QED
          BY <1>0, <3>1, <4>2, <4>3, <4>4, <4>5
      <3> QED
        BY <3>2, <3>3
    <2>9. RateHonoured'
      BY <2>8 DEF RateHonoured, Recent
    <2> QED
      BY <2>5, <2>6, <2>7, <2>9 DEF RateInv
  <1>2. CASE Tick
    <2>1. now' = now + 1 /\ UNCHANGED <<store, accepted>>
      BY <1>2 DEF Tick
    <2>2. \A a \in accepted : now' < a.at + RateWindow => now < a.at + RateWindow
      BY <1>0, <2>1
    <2>3. ASSUME NEW k \in Nodes PROVE Cardinality(Recent(k)') <= RateLimit
      <3>1. Recent(k)' \in SUBSET Recent(k)
        BY <2>1, <2>2 DEF Recent
      <3>2. IsFiniteSet(Recent(k)) /\ Cardinality(Recent(k)) \in Nat
        BY <1>0, RecentCounted
      <3>3. /\ Cardinality(Recent(k)') <= Cardinality(Recent(k)) /\ IsFiniteSet(Recent(k)')
        BY <3>1, <3>2, FS_Subset
      <3>4. Cardinality(Recent(k)') \in Nat
        BY <3>3, FS_CardinalityType
      <3>5. Cardinality(Recent(k)) <= RateLimit
        BY DEF RateInv, RateHonoured, Recent
      <3> QED
        BY <1>0, <3>2, <3>3, <3>4, <3>5
    <2>4. RateHonoured'
      BY <2>3 DEF RateHonoured, Recent
    <2> QED
      BY <2>1, <2>2, <2>4 DEF RateInv
  <1>3. ASSUME UNCHANGED <<store, accepted, now>> PROVE RateInv'
    BY <1>3 DEF RateInv, RateHonoured
  <1> QED
    BY <1>1, <1>2, <1>3 DEF Next, Post, Receive, Create, Write, Refuse, Crash, vars

(* max_messages_per_minute (incident_transport.py:323-329): of no node     *)
(* more than the limit is accepted within a minute of the clock, for any   *)
(* limit, lag of `at`, and number of threads and kills.                    *)
THEOREM RateIsHonoured == Spec => []RateHonoured
  <1>1. Init => NoncesDiffer /\ AcceptedPosted /\ RateInv
    <2> SUFFICES ASSUME Init PROVE NoncesDiffer /\ AcceptedPosted /\ RateInv
      OBVIOUS
    <2>1. posted = {} /\ accepted = {} /\ store.messages = {} /\ \A h \in Threads : thread[h].pc = "idle"
      BY DEF Init, EmptyStore, Idle
    <2>2. \A n : {a \in accepted : a.node = n /\ now < a.at + RateWindow} = {}
      BY <2>1
    <2>3. RateHonoured
      BY <2>2, FS_EmptySet, VerifierAssumption DEF RateHonoured
    <2> QED
      BY <2>1, <2>3, FS_EmptySet DEF NoncesDiffer, AcceptedPosted, RateInv
  <1>2. ChannelType /\ NoncesDiffer /\ AcceptedPosted /\ RateInv /\ [Next]_vars =>
          NoncesDiffer' /\ AcceptedPosted' /\ RateInv'
    BY PostedStep, RateStep
  <1>3. RateInv => RateHonoured
    BY DEF RateInv
  <1> QED
    BY <1>1, <1>2, <1>3, ChannelTyped, PTL DEF Spec

=============================================================================
