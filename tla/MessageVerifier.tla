-------------------------- MODULE MessageVerifier --------------------------
(***************************************************************************)
(* verify_message of incident_transport.py and the state it keeps: the     *)
(* nonces it has accepted and, per node, when.  Both are forgotten by the  *)
(* clock: nonces after the replay window, the times of messages after a    *)
(* minute.  The store is a value here, so that the two verifiers of the    *)
(* program (the SQLite file of the node channel, the memory of a session)  *)
(* share these operators.                                                  *)
(*                                                                         *)
(* A message is a record with at least the fields from, to, signer,        *)
(* compatible, nonce and sent_at.  `signer` is the node whose secret made  *)
(* the mac; `compatible` says whether its contract version is.  The code   *)
(* names a reason for each refusal; which one is not kept apart.           *)
(***************************************************************************)
EXTENDS Naturals, FiniteSets

CONSTANTS
    Window,      \* replay_window_seconds
    RateWindow,  \* the minute of max_messages_per_minute
    RateLimit    \* max_messages_per_minute

ASSUME VerifierAssumption ==
    /\ Window \in Nat \ {0}
    /\ RateWindow \in Nat \ {0}
    /\ RateLimit \in Nat \ {0}

EmptyStore == [nonces |-> {}, messages |-> {}]

(* The message comes from `node`, is for `to` and is not altered. *)
Genuine(m, node, to) ==
    /\ m.from = node
    /\ m.to = to
    /\ m.compatible
    /\ m.signer = node

(* sent_at lies at most a window away from `at`, on either side. *)
Fresh(m, at) == at <= m.sent_at + Window /\ m.sent_at <= at + Window

NonceSeen(store, nonce) == \E row \in store.nonces : row.nonce = nonce

(* Mutant: the limit is compared with one message too few. *)
OverloadedOffByOne(store, node, at) ==
    Cardinality({row \in store.messages : row.node = node /\ at < row.at + RateWindow}) > RateLimit

Overloaded(store, node, at) ==
    Cardinality({row \in store.messages : row.node = node /\ at < row.at + RateWindow}) >= RateLimit

Acceptable(m, node, to, store, at) ==
    /\ Genuine(m, node, to)
    /\ Fresh(m, at)
    /\ ~NonceSeen(store, m.nonce)
    /\ ~Overloaded(store, node, at)

(* Mutant: a nonce is forgotten as soon as the window is full. *)
RememberedTooShort(store, at) == {row \in store.nonces : at < row.at + Window}

Remembered(store, at) == {row \in store.nonces : at <= row.at + Window}

Accept(store, node, nonce, at) ==
    [nonces   |-> Remembered(store, at) \cup {[nonce |-> nonce, at |-> at]},
     messages |-> {row \in store.messages : at < row.at + RateWindow}
                     \cup {[node |-> node, nonce |-> nonce, at |-> at]}]

=============================================================================
