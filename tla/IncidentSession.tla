-------------------------- MODULE IncidentSession --------------------------
(***************************************************************************)
(* IncidentSession of incident_transport.py: submit, pump and reconcile of *)
(* one incident against a peer, over a channel that loses, duplicates,     *)
(* delays and reorders messages and carries messages of strangers.         *)
(*                                                                         *)
(* Time is not kept: a message may be refused at any moment (stale, or the *)
(* rate is reached), and the verifier may forget a nonce once no copy of   *)
(* its message is on the channel.  That this is what forgetting by the     *)
(* clock comes to is NonceKept of NodeChannel: pump judges one message     *)
(* after the other, so no reading of the clock is overtaken by another.  A *)
(* nonce is fresh when no message and no verifier has it.  Every           *)
(* submit_incident of the session is for the same incident.                *)
(*                                                                         *)
(* The peer is another service.  It is what reconcile expects of it: it    *)
(* keeps an incident once, by incident_id, and acknowledges every copy.    *)
(***************************************************************************)
EXTENDS Naturals, FiniteSets

CONSTANTS
    Incidents,   \* incidents the two sides talk about
    Mine,        \* incident_id of this session
    Nonces,
    MaxRestarts, \* bound: restarts of the process that holds the session
    MaxExtra,    \* bound: submits that raise, or that repeat one that did not
    MaxOthers    \* bound: messages of the peer about other incidents

ASSUME SessionAssumption ==
    Mine \in Incidents /\ MaxRestarts \in Nat /\ MaxExtra \in Nat /\ MaxOthers \in Nat

VARIABLES
    state,     \* self.state
    named,     \* self.incident_id is set
    sent,      \* self.last_sent is set
    diagnosis, \* self.diagnosis is set
    seen,      \* self._verifier: nonces accepted by pump
    out,       \* nonces of the incident messages on their way to the peer
    in,        \* messages on their way to the session
    held,      \* peer: it has the incident
    heard,     \* peer: nonces it accepted
    results,   \* peer: the deploy verifications of this incident it has sent
    restarts,
    extra,     \* submits that raised or were repeated
    others     \* messages of the peer about other incidents

session == <<state, named, sent, diagnosis, seen>>
channel == <<out, in>>
peer == <<held, heard, results, others>>
vars == <<session, channel, peer, restarts, extra>>

Closed == {"deploy-verified", "failed"}

(* payload.get("verified") is True, or anything else. *)
Verdicts == {"true", "other"}

Answers == [kind : {"ack", "diagnosis", "deploy-verification"}, incident : Incidents,
            verified : Verdicts, nonce : Nonces, signer : {"peer", "stranger"}]

Answer(kind, i, verified, n) ==
    [kind |-> kind, incident |-> i, verified |-> verified, nonce |-> n, signer |-> "peer"]

Fresh(n) == n \notin seen \cup heard \cup out \cup {m.nonce : m \in in}

Init ==
    /\ state = "submitted" /\ named = FALSE /\ sent = FALSE
    /\ diagnosis = FALSE /\ seen = {}
    /\ out = {} /\ in = {}
    /\ held = FALSE /\ heard = {} /\ results = {}
    /\ restarts = 0 /\ extra = 0 /\ others = 0

(* channel.send returns, or it raises, with the message on its way or not: *)
(* then neither last_sent nor the state is set.  Nothing asks in which     *)
(* state the session is: a second call opens it again.                     *)
submit_incident(n) ==
    /\ Fresh(n)
    /\ named' = TRUE
    /\ \/ /\ sent' = TRUE /\ state' = "pending-ack" /\ out' = out \cup {n}
          /\ extra' = IF sent THEN extra + 1 ELSE extra
       \/ /\ out' \in {out, out \cup {n}} /\ extra' = extra + 1
          /\ UNCHANGED <<sent, state>>
    /\ extra' <= MaxExtra
    /\ UNCHANGED <<diagnosis, seen, in, peer, restarts>>

(* Mutant: a session is sent again only once it was acknowledged. *)
ResendsAcknowledged == state = "submitted" /\ sent

Resends == state = "pending-ack" /\ sent

(* A send that raises here leaves the session as it was. *)
reconcile(n) ==
    /\ Resends /\ Fresh(n)
    /\ out' = out \cup {n}
    /\ UNCHANGED <<session, in, peer, restarts, extra>>

(* Mutant: the signature of an inbound message is not checked. *)
VerifiedUnsigned(m) == m.nonce \notin seen

(* verify_message as the peer; stale and overloaded are a Loss. *)
Verified(m) == m.signer = "peer" /\ m.nonce \notin seen

(* Before the first submit incident_id is empty and no message has it. *)
Concerns(m) == named /\ m.incident = Mine

(* Mutant: an acknowledgement always means submitted. *)
AdvancedBack(m) ==
    CASE m.kind = "ack" -> "submitted"
      [] m.kind = "diagnosis" -> "diagnosed"
      [] m.kind = "deploy-verification" -> IF m.verified = "true" THEN "deploy-verified" ELSE "failed"

Advanced(m) ==
    CASE m.kind = "ack" -> IF state = "pending-ack" THEN "submitted" ELSE state
      [] m.kind = "diagnosis" -> "diagnosed"
      [] m.kind = "deploy-verification" -> IF m.verified = "true" THEN "deploy-verified" ELSE "failed"

(* One message of pump: refused, or its nonce is spent, and if it is about *)
(* this incident and the session is open it moves the state.               *)
pump(m) ==
    /\ Verified(m)
    /\ seen' = seen \cup {m.nonce}
    /\ LET moves == Concerns(m) /\ state \notin Closed
       IN /\ state' = IF moves THEN Advanced(m) ELSE state
          /\ diagnosis' = (diagnosis \/ (moves /\ m.kind = "diagnosis"))
    /\ in' \in {in, in \ {m}}   \* the channel may still have a copy
    /\ UNCHANGED <<named, sent, out, peer, restarts, extra>>

(* A message that does not come from the peer is polled. *)
Strangers == {m \in Answers : m.signer = "stranger"}

(* The process that holds the session ends, and its successor starts the   *)
(* session of the incident again: no file keeps it.                        *)
Restart ==
    /\ restarts < MaxRestarts
    /\ named
    /\ restarts' = restarts + 1
    /\ state' = "submitted" /\ named' = FALSE /\ sent' = FALSE
    /\ diagnosis' = FALSE /\ seen' = {}
    /\ UNCHANGED <<channel, peer, extra>>

-----------------------------------------------------------------------------
(* The peer and the channel *)

PeerReceives(n, a) ==
    /\ n \in out \ heard /\ Fresh(a)
    /\ heard' = heard \cup {n}
    /\ held' = TRUE
    /\ out' \in {out, out \ {n}}
    /\ in' = in \cup {Answer("ack", Mine, "other", a)}
    /\ UNCHANGED <<session, results, others, restarts, extra>>

PeerDiagnoses(a) ==
    /\ held /\ Fresh(a)
    /\ in' = in \cup {Answer("diagnosis", Mine, "other", a)}
    /\ UNCHANGED <<session, out, peer, restarts, extra>>

PeerVerifies(ok, a) ==
    /\ held /\ results \subseteq {ok} /\ Fresh(a)
    /\ results' = {ok}
    /\ in' = in \cup {Answer("deploy-verification", Mine, ok, a)}
    /\ UNCHANGED <<session, out, held, heard, others, restarts, extra>>

(* What the peer says about another incident. *)
PeerElsewhere(i, kind, a) ==
    /\ i # Mine /\ others < MaxOthers /\ Fresh(a)
    /\ others' = others + 1
    /\ in' = in \cup {Answer(kind, i, "true", a)}
    /\ UNCHANGED <<session, out, held, heard, results, restarts, extra>>

(* A copy is lost, or has grown stale. *)
Loss(n) ==
    /\ n \in out \cup {m.nonce : m \in in}
    /\ out' = out \ {n}
    /\ in' = {m \in in : m.nonce # n}
    /\ UNCHANGED <<session, peer, restarts, extra>>

(* A verifier forgets a nonce of which no copy can pass as fresh any more. *)
Forget(n) ==
    /\ n \in seen \cup heard
    /\ n \notin out \cup {m.nonce : m \in in}
    /\ seen' = seen \ {n} /\ heard' = heard \ {n}
    /\ UNCHANGED <<state, named, sent, diagnosis, channel, held, results, others,
                   restarts, extra>>

Peer ==
    \E a \in Nonces :
        \/ \E n \in Nonces : PeerReceives(n, a)
        \/ PeerDiagnoses(a)
        \/ \E ok \in Verdicts : PeerVerifies(ok, a)
        \/ \E i \in Incidents, kind \in {"ack", "deploy-verification"} : PeerElsewhere(i, kind, a)

Pump == \E m \in in \cup Strangers : pump(m)

Next ==
    \/ \E n \in Nonces : submit_incident(n) \/ reconcile(n) \/ Loss(n) \/ Forget(n)
    \/ Pump \/ Peer \/ Restart

Spec == Init /\ [][Next]_vars

Ours == {m \in in : m.incident = Mine}

(* A caller whose submit raised, or who was restarted, submits again until *)
(* a call returns, and keeps calling reconcile and pump; the channel does  *)
(* not lose every message of this incident for ever; no copy stays fresh   *)
(* and no nonce is remembered for ever.                                    *)
FairSpec ==
    /\ Spec
    /\ SF_vars(\E n \in Nonces : ~sent /\ submit_incident(n) /\ sent')
    /\ SF_vars(\E n \in Nonces : reconcile(n))
    /\ SF_vars(\E n, a \in Nonces : PeerReceives(n, a))
    /\ SF_vars(\E m \in Ours : pump(m))
    /\ \A n \in Nonces : WF_vars(Loss(n)) /\ WF_vars(Forget(n))

-----------------------------------------------------------------------------
(* Properties *)

States == {"pending-ack", "submitted", "diagnosed"} \cup Closed

SessionTypeOK ==
    /\ state \in States
    /\ named \in BOOLEAN /\ sent \in BOOLEAN
    /\ diagnosis \in BOOLEAN /\ held \in BOOLEAN
    /\ seen \subseteq Nonces /\ out \subseteq Nonces /\ heard \subseteq Nonces
    /\ in \subseteq Answers
    /\ results \subseteq Verdicts
    /\ restarts \in 0 .. MaxRestarts /\ extra \in 0 .. MaxExtra /\ others \in 0 .. MaxOthers

(* "a late or forged message can neither confirm a deployment nor undo a   *)
(* verified one" (incident_transport.py:398), and a session that has sent  *)
(* and stopped resending has its incident at the peer: whatever was lost,  *)
(* repeated, forged or said about another incident, before or after a      *)
(* restart, a send that raised or a second submit.  Without the last_sent  *)
(* of a send that returned, "submitted" says nothing: it is where a        *)
(* session begins (incident_transport.py:363).                             *)
StateIsEarned ==
    /\ state # "pending-ack" /\ (sent \/ state # "submitted") => held
    /\ state = "deploy-verified" => "true" \in results
    /\ state = "failed" => "other" \in results

(* How far a session has come. *)
Rank == [s \in States |->
           CASE s = "pending-ack" -> 1 [] s = "submitted" -> 2 [] s = "diagnosed" -> 3
             [] OTHER -> 4]

(* "the state only moves forward" (incident_transport.py:397): an answer   *)
(* that arrives late, after a later one, never takes the session back, and *)
(* a session that has ended stays as it ended.  It is said of messages,    *)
(* and of them it is true, the answers to a send that raised included; a   *)
(* submit_incident, which no state refuses, opens the session again.       *)
OnlyForward ==
    [][UNCHANGED <<restarts, extra, sent>> =>
         /\ Rank[state'] >= Rank[state]
         /\ state \in Closed => state' = state]_vars

(* "a network blip never loses ... an incident" (incident_transport.py:25) *)
(* nor leaves the session waiting: an incident whose submit returned is    *)
(* acknowledged in the end.  One whose send raised is not "left in         *)
(* pending-ack" (:23-24), and reconcile does not send it again.            *)
EventuallyAcknowledged == (state = "pending-ack") ~> (held /\ sent /\ state # "pending-ack")
=============================================================================
