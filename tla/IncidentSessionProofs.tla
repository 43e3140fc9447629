----------------------- MODULE IncidentSessionProofs -----------------------
(* What a session may conclude from the messages it is given, for any      *)
(* number of incidents, nonces and restarts.                               *)
EXTENDS IncidentSession, TLAPS

(* What is on the channel is of the peer, and is true of the peer: it      *)
(* answers about this incident only when it holds it, and a verification   *)
(* says what the peer found.                                               *)
ChannelHonest ==
    \A m \in in :
        /\ m.signer = "peer"
        /\ m.incident = Mine => held
        /\ m.incident = Mine /\ m.kind = "deploy-verification" => m.verified \in results

IInv == SessionTypeOK /\ ChannelHonest /\ StateIsEarned

LEMMA InitIInv == Init => IInv
  <1> SUFFICES ASSUME Init PROVE IInv
    OBVIOUS
  <1>1. diagnosis \in BOOLEAN /\ held \in BOOLEAN /\ named \in BOOLEAN /\ sent \in BOOLEAN
    BY Zenon DEF Init
  <1>2. SessionTypeOK
    BY <1>1, SessionAssumption DEF Init, SessionTypeOK, States
  <1>3. ChannelHonest /\ StateIsEarned
    BY DEF Init, ChannelHonest, StateIsEarned
  <1> QED
    BY <1>2, <1>3 DEF IInv

(* The message pump takes up is one of the channel: a stranger's does not verify. *)
LEMMA PumpFromChannel ==
    ASSUME NEW m \in in \cup Strangers, pump(m)
    PROVE  m \in in /\ m.nonce \notin seen
  BY DEF pump, Verified, Strangers

LEMMA PumpType ==
    ASSUME IInv, NEW m \in in, pump(m)
    PROVE  SessionTypeOK'
  <1>1. m \in Answers
    BY DEF IInv, SessionTypeOK
  <1>2. state' \in States
    <2>1. Advanced(m) \in States
      BY <1>1 DEF IInv, SessionTypeOK, Advanced, Answers, States, Closed
    <2> QED
      BY <2>1 DEF pump, IInv, SessionTypeOK
  <1>3. diagnosis' \in BOOLEAN
    BY DEF pump
  <1>4. seen' \subseteq Nonces
    BY <1>1 DEF pump, IInv, SessionTypeOK, Answers
  <1>5. in' \subseteq Answers
    BY DEF pump, IInv, SessionTypeOK
  <1> QED
    BY <1>2, <1>3, <1>4, <1>5 DEF pump, peer, IInv, SessionTypeOK

LEMMA PumpEarned ==
    ASSUME IInv, NEW m \in in, pump(m)
    PROVE  ChannelHonest' /\ StateIsEarned'
  <1>1. in' \subseteq in /\ held' = held /\ results' = results /\ sent' = sent
    BY DEF pump, peer
  <1>2. ChannelHonest'
    BY <1>1 DEF IInv, ChannelHonest
  <1>3. CASE ~(Concerns(m) /\ state \notin Closed)
    <2>1. state' = state
      BY <1>3 DEF pump
    <2> QED
      BY <1>1, <1>2, <2>1 DEF IInv, StateIsEarned
  <1>4. CASE Concerns(m) /\ state \notin Closed
    <2>1. state' = Advanced(m) /\ held
      BY <1>4 DEF pump, Concerns, IInv, ChannelHonest
    <2>2. m.kind \in {"ack", "diagnosis", "deploy-verification"} /\ m.verified \in Verdicts
      BY DEF IInv, SessionTypeOK, Answers, Verdicts
    <2>3. CASE m.kind = "deploy-verification"
      <3>1. m.verified \in results
        BY <1>4, <2>3 DEF Concerns, IInv, ChannelHonest
      <3>2. state' = IF m.verified = "true" THEN "deploy-verified" ELSE "failed"
        BY <2>1, <2>3 DEF Advanced
      <3>3. CASE m.verified = "true"
        BY <1>1, <1>2, <2>1, <3>1, <3>2, <3>3 DEF StateIsEarned
      <3>4. CASE m.verified = "other"
        BY <1>1, <1>2, <2>1, <3>1, <3>2, <3>4 DEF StateIsEarned
      <3> QED
        BY <2>2, <3>3, <3>4 DEF Verdicts
    <2>4. CASE m.kind # "deploy-verification"
      <3>1. state' \notin Closed
        BY <1>4, <2>1, <2>2, <2>4 DEF Advanced, Closed
      <3> QED
        BY <1>1, <1>2, <2>1, <3>1 DEF StateIsEarned, Closed
    <2> QED
      BY <2>3, <2>4
  <1> QED
    BY <1>3, <1>4

LEMMA NextIInv == IInv /\ [Next]_vars => IInv'
  <1> SUFFICES ASSUME IInv, [Next]_vars PROVE IInv'
    OBVIOUS
  <1> USE DEF IInv
  <1> USE DEF session, channel, peer
  <1>0. ASSUME NEW n \in Nonces, submit_incident(n) PROVE IInv'
    <2>1. named' \in BOOLEAN /\ sent' \in BOOLEAN
      BY <1>0, Zenon DEF submit_incident, SessionTypeOK
    <2>2. extra' \in 0 .. MaxExtra
      BY <1>0, SessionAssumption DEF submit_incident, SessionTypeOK
    <2>3. state' \in States /\ out' \subseteq Nonces
      BY <1>0 DEF submit_incident, SessionTypeOK, States
    <2>4. SessionTypeOK'
      BY <1>0, <2>1, <2>2, <2>3 DEF submit_incident, SessionTypeOK
    <2>5. StateIsEarned'
      <3>1. held' = held /\ results' = results
        BY <1>0 DEF submit_incident
      <3>2. CASE state' = "pending-ack"
        BY <3>2 DEF StateIsEarned
      <3>3. CASE UNCHANGED <<sent, state>>
        BY <3>1, <3>3 DEF StateIsEarned
      <3> QED
        BY <1>0, <3>2, <3>3 DEF submit_incident
    <2>6. ChannelHonest'
      BY <1>0 DEF submit_incident, ChannelHonest
    <2> QED
      BY <2>4, <2>5, <2>6
  <1>1. ASSUME NEW n \in Nonces, reconcile(n) PROVE IInv'
    BY <1>1 DEF reconcile, SessionTypeOK, ChannelHonest, StateIsEarned
  <1>2. ASSUME NEW n \in Nonces, Loss(n) \/ Forget(n) PROVE IInv'
    BY <1>2 DEF Loss, Forget, SessionTypeOK, ChannelHonest, StateIsEarned, Closed
  <1>3. CASE Pump
    <2>1. PICK m \in in \cup Strangers : pump(m)
      BY <1>3 DEF Pump
    <2> QED
      BY <2>1, PumpFromChannel, PumpType, PumpEarned
  <1>4. CASE Peer
    <2>1. PICK a \in Nonces :
            \/ \E n \in Nonces : PeerReceives(n, a)
            \/ PeerDiagnoses(a)
            \/ \E ok \in Verdicts : PeerVerifies(ok, a)
            \/ \E i \in Incidents, kind \in {"ack", "deploy-verification"} : PeerElsewhere(i, kind, a)
      BY <1>4 DEF Peer
    <2>2. ASSUME NEW n \in Nonces, PeerReceives(n, a) PROVE IInv'
      BY <2>2, SessionAssumption
         DEF PeerReceives, Answer, Answers, Verdicts, SessionTypeOK, ChannelHonest, StateIsEarned, Closed
    <2>3. CASE PeerDiagnoses(a)
      BY <2>3, SessionAssumption
         DEF PeerDiagnoses, Answer, Answers, Verdicts, SessionTypeOK, ChannelHonest, StateIsEarned, Closed
    <2>4. ASSUME NEW ok \in Verdicts, PeerVerifies(ok, a) PROVE IInv'
      <3>1. results \subseteq results' /\ ok \in results' /\ held
        BY <2>4 DEF PeerVerifies
      <3>2. Answer("deploy-verification", Mine, ok, a) \in Answers
        BY SessionAssumption DEF Answer, Answers, Verdicts
      <3>3. SessionTypeOK'
        BY <2>4, <3>2 DEF PeerVerifies, SessionTypeOK
      <3>4. ChannelHonest'
        BY <2>4, <3>1 DEF PeerVerifies, Answer, ChannelHonest
      <3>5. StateIsEarned'
        BY <2>4, <3>1 DEF PeerVerifies, StateIsEarned
      <3> QED
        BY <3>3, <3>4, <3>5
    <2>5. ASSUME NEW i \in Incidents, NEW kind \in {"ack", "deploy-verification"},
                 PeerElsewhere(i, kind, a)
          PROVE  IInv'
      <3>1. Answer(kind, i, "true", a) \in Answers
        BY DEF Answer, Answers, Verdicts
      <3>2. SessionTypeOK'
        BY <2>5, <3>1, SessionAssumption DEF PeerElsewhere, SessionTypeOK
      <3>3. ChannelHonest'
        BY <2>5 DEF PeerElsewhere, Answer, ChannelHonest
      <3>4. StateIsEarned'
        BY <2>5 DEF PeerElsewhere, StateIsEarned
      <3> QED
        BY <3>2, <3>3, <3>4
    <2> QED
      BY <2>1, <2>2, <2>3, <2>4, <2>5
  <1>5. CASE Restart
    <2>1. diagnosis' \in BOOLEAN /\ named' \in BOOLEAN /\ sent' \in BOOLEAN
      BY <1>5, Zenon DEF Restart
    <2>2. SessionTypeOK'
      BY <1>5, <2>1, SessionAssumption DEF Restart, SessionTypeOK, States
    <2>3. ChannelHonest' /\ StateIsEarned'
      BY <1>5 DEF Restart, ChannelHonest, StateIsEarned
    <2> QED
      BY <2>2, <2>3
  <1>6. CASE UNCHANGED vars
    BY <1>6 DEF vars, SessionTypeOK, ChannelHonest, StateIsEarned
  <1> QED
    BY <1>0, <1>1, <1>2, <1>3, <1>4, <1>5, <1>6 DEF Next

(* The inductive invariant of the session (incident_transport.py:352-445). *)
THEOREM SessionInvariant == Spec => []IInv
  BY InitIInv, NextIInv, PTL DEF Spec

(* A session that has sent and stopped resending has its incident at the  *)
(* peer, and one that ended as verified or failed was told so by the peer  *)
(* (pump, incident_transport.py:394-427).                                  *)
THEOREM StateEarned == Spec => []StateIsEarned
  <1>1. IInv => StateIsEarned
    BY DEF IInv
  <1> QED
    BY <1>1, SessionInvariant, PTL

(* No message takes the state of a running session back (pump, reconcile,  *)
(* incident_transport.py:394-445).                                         *)
THEOREM MovesForward == Spec => OnlyForward
  <1> DEFINE A == UNCHANGED <<restarts, extra, sent>> =>
                    /\ Rank[state'] >= Rank[state]
                    /\ state \in Closed => state' = state
  <1>1. IInv /\ IInv' /\ [Next]_vars => [A]_vars
    <2> SUFFICES ASSUME IInv, IInv', Next, UNCHANGED <<restarts, extra, sent>>
                 PROVE  Rank[state'] >= Rank[state] /\ (state \in Closed => state' = state)
      OBVIOUS
    <2>1. state \in States /\ restarts \in Nat /\ extra \in Nat
      BY SessionAssumption DEF IInv, SessionTypeOK
    <2>2. \A s \in States : Rank[s] \in Nat
      BY DEF Rank
    <2>3. CASE state' = state
      BY <2>1, <2>2, <2>3
    <2>4. \A n \in Nonces : ~ (submit_incident(n) /\ state' # state)
      BY <2>1 DEF submit_incident
    <2>5. CASE Pump
      <3>1. PICK m \in in : pump(m)
        BY <2>5, PumpFromChannel DEF Pump
      <3>2. m \in Answers
        BY DEF IInv, SessionTypeOK
      <3>3. CASE ~(Concerns(m) /\ state \notin Closed)
        BY <2>3, <3>1, <3>3 DEF pump
      <3>4. CASE Concerns(m) /\ state \notin Closed
        <4>1. state' = Advanced(m)
          BY <3>1, <3>4 DEF pump
        <4> QED
          BY <2>1, <3>2, <3>4, <4>1 DEF Advanced, Answers, Rank, States, Closed
      <3> QED
        BY <3>3, <3>4
    <2>6. ~ Restart
      BY <2>1 DEF Restart
    <2>7. Next => (state' = state \/ Pump \/ Restart \/ \E n \in Nonces : submit_incident(n))
      BY DEF Next, session, reconcile, Loss, Forget, Peer, PeerReceives, PeerDiagnoses,
             PeerVerifies, PeerElsewhere
    <2> QED
      BY <2>3, <2>4, <2>5, <2>6, <2>7
  <1> QED
    BY <1>1, SessionInvariant, PTL DEF Spec, OnlyForward
=============================================================================
