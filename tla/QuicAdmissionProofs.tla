------------------------- MODULE QuicAdmissionProofs ------------------------
(***************************************************************************)
(* Proofs about QuicAdmission for any number of connections, sources,      *)
(* listeners and any limits.  The argument: every step either leaves the   *)
(* sets of ticketed connections alone, or adds or removes one connection   *)
(* of one listener together with one unit of that listener's counters.     *)
(***************************************************************************)
EXTENDS QuicAdmission, FiniteSetTheorems, TLAPS

\* The inductive invariant.
IInv == TypeOK /\ Counted /\ SpoofingBounded

\* What a step of connection c may do to the sets that the properties count.
SameTickets ==
    /\ UNCHANGED <<total, per_source>>
    /\ \A l \in 1..LISTENERS :
        /\ Ticketed(l)' = Ticketed(l)
        /\ Unproven(l)' = Unproven(l)
        /\ \A s \in Sources : TicketedFrom(l, s)' = TicketedFrom(l, s)
    /\ \A c \in DOMAIN conn \cap DOMAIN conn' : conn'[c].source = conn[c].source

\* The sets of tickets are finite, because the connections are.
LEMMA Finite ==
    ASSUME TypeOK, NEW l \in 1..LISTENERS
    PROVE  /\ IsFiniteSet(Ticketed(l)) /\ Cardinality(Ticketed(l)) \in Nat
           /\ IsFiniteSet(Unproven(l)) /\ Cardinality(Unproven(l)) \in Nat
           /\ Cardinality(Unproven(l)) <= Cardinality(Ticketed(l))
           /\ \A s \in Sources : /\ IsFiniteSet(TicketedFrom(l, s))
                                 /\ Cardinality(TicketedFrom(l, s)) \in Nat
<1>1. /\ Ticketed(l) \subseteq Connections
      /\ Unproven(l) \subseteq Ticketed(l)
      /\ \A s \in Sources : TicketedFrom(l, s) \subseteq Ticketed(l)
  BY DEF TypeOK, Ticketed, Unproven, TicketedFrom
<1>2. IsFiniteSet(Connections)
  BY AdmissionConstants
<1>3. IsFiniteSet(Ticketed(l))
  BY <1>1, <1>2, FS_Subset
<1>4. IsFiniteSet(Unproven(l)) /\ Cardinality(Unproven(l)) <= Cardinality(Ticketed(l))
  BY <1>1, <1>3, FS_Subset
<1>5. \A s \in Sources : IsFiniteSet(TicketedFrom(l, s))
  BY <1>1, <1>3, FS_Subset
<1> QED
  BY <1>3, <1>4, <1>5, FS_CardinalityType

\* The type invariant is kept by every step.
LEMMA TypeStep ==
    ASSUME TypeOK, [Next]_vars
    PROVE  TypeOK'
<1> USE AdmissionConstants
<1>1. CASE Restart
  BY <1>1 DEF Restart, TypeOK
<1>2. ASSUME NEW c \in Connections, NEW s \in Sources, NEW v \in BOOLEAN, NEW r \in BOOLEAN,
             Admit(c, s, v, r)
      PROVE  TypeOK'
  <2>1. listener \in 1..LISTENERS /\ FromSource(listener, s) \in Nat
    BY DEF TypeOK, FromSource
  <2>2. total' \in [1..LISTENERS -> Nat]
    BY <1>2, <2>1 DEF Admit, TypeOK
  <2>3. /\ DOMAIN per_source' = 1..LISTENERS
        /\ \A l \in 1..LISTENERS :
            /\ DOMAIN per_source'[l] \subseteq Sources
            /\ \A t \in DOMAIN per_source'[l] : per_source'[l][t] \in Nat \ {0}
    BY <1>2, <2>1 DEF Admit, TypeOK
  <2>4. DOMAIN conn' \subseteq Connections /\ \A d \in DOMAIN conn' : conn'[d] \in Conn
    BY <1>2, <2>1 DEF Admit, TypeOK, Conn, Pools
  <2> QED
    BY <1>2, <2>1, <2>2, <2>3, <2>4 DEF TypeOK, Admit
<1>3. ASSUME NEW c \in Connections, NEW pool \in Pools, TryAcquire(c, pool)
      PROVE  TypeOK'
  <2>1. \A d \in DOMAIN conn' : conn'[d] \in Conn
    <3> SUFFICES ASSUME NEW d \in DOMAIN conn'
                 PROVE  conn'[d] \in Conn
      OBVIOUS
    <3>1. d \in DOMAIN conn /\ conn[d] \in Conn
      BY <1>3 DEF TryAcquire, TypeOK
    <3>2. conn'[d] = IF d = c THEN [conn[d] EXCEPT !.stage = "authenticating", !.pool = pool]
                     ELSE conn[d]
      BY <1>3, <3>1 DEF TryAcquire
    <3> QED
      BY <1>3, <3>1, <3>2 DEF Conn
  <2> QED
    BY <1>3, <2>1 DEF TryAcquire, TypeOK
<1>4. ASSUME NEW c \in Connections, Established(c) \/ Failed(c)
      PROVE  TypeOK'
  <2>1. PICK ok \in BOOLEAN : c \in DOMAIN conn /\ Leave(c, ok)
    BY <1>4 DEF Established, Failed
  <2>2. \A d \in DOMAIN conn' : conn'[d] \in Conn
    <3> SUFFICES ASSUME NEW d \in DOMAIN conn'
                 PROVE  conn'[d] \in Conn
      OBVIOUS
    <3>1. d \in DOMAIN conn /\ conn[d] \in Conn
      BY <2>1 DEF Leave, TypeOK
    <3>2. conn'[d] = IF d = c THEN [conn[d] EXCEPT !.stage = "dropping", !.ok = ok, !.pool = "none"]
                     ELSE conn[d]
      BY <2>1, <3>1 DEF Leave
    <3> QED
      BY <3>1, <3>2 DEF Conn
  <2> QED
    BY <2>1, <2>2 DEF Leave, TypeOK
<1>5. ASSUME NEW c \in Connections, Drop(c)
      PROVE  TypeOK'
  <2> DEFINE m == conn[c].listener
             s == conn[c].source
  <2>1. c \in DOMAIN conn /\ conn[c] \in Conn /\ m \in 1..LISTENERS /\ s \in Sources
    BY <1>5 DEF Drop, TypeOK, Conn
  <2>2. DropTicket(m, s)
    BY <1>5 DEF Drop
  <2> HIDE DEF m, s
  <2>3. total' \in [1..LISTENERS -> Nat]
    BY <2>1, <2>2 DEF DropTicket, TypeOK
  <2>4. /\ DOMAIN per_source' = 1..LISTENERS
        /\ \A l \in 1..LISTENERS :
            /\ DOMAIN per_source'[l] \subseteq Sources
            /\ \A t \in DOMAIN per_source'[l] : per_source'[l][t] \in Nat \ {0}
    <3> SUFFICES ASSUME NEW l \in 1..LISTENERS
                 PROVE  /\ DOMAIN per_source' = 1..LISTENERS
                        /\ DOMAIN per_source'[l] \subseteq Sources
                        /\ \A t \in DOMAIN per_source'[l] : per_source'[l][t] \in Nat \ {0}
      BY <2>1, <2>2 DEF DropTicket, TypeOK
    <3> DEFINE p == per_source[m]
               q == Decrement(p, s)
    <3>1. DOMAIN p \subseteq Sources /\ \A t \in DOMAIN p : p[t] \in Nat \ {0}
      BY <2>1 DEF TypeOK
    <3>2. DOMAIN q \subseteq Sources /\ \A t \in DOMAIN q : q[t] \in Nat \ {0}
      <4> HIDE DEF p
      <4> QED
        BY <3>1 DEF Decrement
    <3>3. per_source' = [per_source EXCEPT ![m] = q]
      BY <2>2 DEF DropTicket
    <3> HIDE DEF q
    <3> QED
      BY <2>1, <3>2, <3>3 DEF TypeOK
  <2>5. DOMAIN conn' \subseteq Connections /\ \A d \in DOMAIN conn' : conn'[d] \in Conn
    BY <1>5, <2>1 DEF Drop, TypeOK, Conn
  <2> QED
    BY <1>5, <2>3, <2>4, <2>5 DEF TypeOK, Drop
<1>6. ASSUME NEW c \in Connections, EndSession(c)
      PROVE  TypeOK'
  BY <1>6 DEF EndSession, TypeOK
<1>7. CASE UNCHANGED vars
  BY <1>7 DEF vars, TypeOK
<1> QED
  BY <1>1, <1>2, <1>3, <1>4, <1>5, <1>6, <1>7 DEF Next, Step

\* A step that leaves the sets of tickets alone keeps the properties.
LEMMA SameStep ==
    ASSUME IInv, TypeOK', SameTickets
    PROVE  Counted' /\ SpoofingBounded'
<1>1. Counted'
  BY DEF IInv, Counted, SameTickets, FromSource
<1>2. ASSUME NEW l \in 1..LISTENERS
      PROVE  /\ \A c, d \in Unproven(l)' : conn'[c].source = conn'[d].source => c = d
             /\ Cardinality(Unproven(l)') <= QUIC_RETRY_THRESHOLD
  <2>1. Unproven(l)' = Unproven(l)
    BY DEF SameTickets
  <2>2. Unproven(l) \subseteq DOMAIN conn /\ Unproven(l)' \subseteq DOMAIN conn'
    BY DEF Unproven, Ticketed
  <2> QED
    BY <2>1, <2>2 DEF IInv, SpoofingBounded, SameTickets
<1> QED
  BY <1>1, <1>2 DEF SpoofingBounded

\* The counters move with the sets of tickets: one step up.
LEMMA AdmitStep ==
    ASSUME IInv, TypeOK', NEW c \in Connections, NEW s \in Sources, NEW v \in BOOLEAN,
           NEW r \in BOOLEAN, Admit(c, s, v, r)
    PROVE  Counted' /\ SpoofingBounded'
<1> USE AdmissionConstants
<1> DEFINE m == listener
<1>1. m \in 1..LISTENERS /\ TypeOK /\ Counted /\ SpoofingBounded
  BY DEF IInv, TypeOK
<1>2. ASSUME NEW l \in 1..LISTENERS
      PROVE  /\ Ticketed(l)' = IF l = m THEN Ticketed(l) \cup {c} ELSE Ticketed(l)
             /\ c \notin Ticketed(l)
             /\ \A t \in Sources :
                 TicketedFrom(l, t)' = IF l = m /\ t = s THEN TicketedFrom(l, t) \cup {c}
                                       ELSE TicketedFrom(l, t)
             /\ Unproven(l)' = IF l = m /\ ~v THEN Unproven(l) \cup {c} ELSE Unproven(l)
             /\ \A d \in Unproven(l) : conn'[d] = conn[d] /\ d \in DOMAIN conn
  <2>1. DOMAIN conn' = DOMAIN conn \cup {c} /\ c \notin DOMAIN conn
    BY DEF Admit
  <2>2. \A d \in DOMAIN conn : conn'[d] = conn[d]
    BY <2>1 DEF Admit
  <2>3. /\ conn'[c].stage = "handshake" /\ conn'[c].listener = m
        /\ conn'[c].source = s /\ conn'[c].validated = v
    BY DEF Admit
  <2> HIDE DEF m
  <2> QED
    BY <2>1, <2>2, <2>3 DEF Ticketed, TicketedFrom, Unproven
<1>3. \A l \in 1..LISTENERS :
          /\ total'[l] = IF l = m THEN total[l] + 1 ELSE total[l]
          /\ \A t \in Sources : FromSource(l, t)' =
                 IF l = m /\ t = s THEN FromSource(l, t) + 1 ELSE FromSource(l, t)
  BY <1>1 DEF Admit, FromSource, TypeOK
<1>4. /\ total[m] < MAX_QUIC_PENDING /\ FromSource(m, s) < MAX_QUIC_PENDING_PER_SOURCE
      /\ ~v => total[m] < QUIC_RETRY_THRESHOLD /\ FromSource(m, s) = 0
  <2>1. total[m] \in Nat /\ FromSource(m, s) \in Nat
    BY <1>1 DEF TypeOK, FromSource
  <2>2. Decision(total[m], FromSource(m, s), v, r) = "Admit"
    BY DEF Admit
  <2> HIDE DEF m
  <2> QED
    BY <2>1, <2>2 DEF Decision
<1> HIDE DEF m
<1>5. ASSUME NEW l \in 1..LISTENERS
      PROVE  /\ total'[l] = Cardinality(Ticketed(l)') /\ total'[l] <= MAX_QUIC_PENDING
             /\ \A t \in Sources :
                 /\ FromSource(l, t)' = Cardinality(TicketedFrom(l, t)')
                 /\ FromSource(l, t)' <= MAX_QUIC_PENDING_PER_SOURCE
  <2>1. /\ IsFiniteSet(Ticketed(l)) /\ \A t \in Sources : IsFiniteSet(TicketedFrom(l, t))
    BY <1>1, Finite
  <2>2. \A t \in Sources : c \notin TicketedFrom(l, t)
    BY <1>2 DEF TicketedFrom
  <2>3. Cardinality(Ticketed(l) \cup {c}) = Cardinality(Ticketed(l)) + 1
    BY <1>2, <2>1, FS_AddElement
  <2>4. \A t \in Sources : Cardinality(TicketedFrom(l, t) \cup {c}) = Cardinality(TicketedFrom(l, t)) + 1
    BY <2>1, <2>2, FS_AddElement
  <2>5. /\ total[l] = Cardinality(Ticketed(l)) /\ total[l] <= MAX_QUIC_PENDING /\ total[l] \in Nat
        /\ \A t \in Sources : /\ FromSource(l, t) = Cardinality(TicketedFrom(l, t))
                              /\ FromSource(l, t) <= MAX_QUIC_PENDING_PER_SOURCE
                              /\ FromSource(l, t) \in Nat
    BY <1>1 DEF Counted, TypeOK, FromSource
  <2>6. total'[l] = Cardinality(Ticketed(l)') /\ total'[l] <= MAX_QUIC_PENDING
    BY <1>2, <1>3, <1>4, <2>3, <2>5
  <2>7. ASSUME NEW t \in Sources
        PROVE  /\ FromSource(l, t)' = Cardinality(TicketedFrom(l, t)')
               /\ FromSource(l, t)' <= MAX_QUIC_PENDING_PER_SOURCE
    BY <1>2, <1>3, <1>4, <2>4, <2>5
  <2> QED
    BY <2>6, <2>7
<1>6. ASSUME NEW l \in 1..LISTENERS
      PROVE  /\ \A d, e \in Unproven(l)' : conn'[d].source = conn'[e].source => d = e
             /\ Cardinality(Unproven(l)') <= QUIC_RETRY_THRESHOLD
  <2>1. CASE l = m /\ ~v
    <3>1. Cardinality(TicketedFrom(l, s)) = 0 /\ Cardinality(Ticketed(l)) < QUIC_RETRY_THRESHOLD
      BY <1>1, <1>4, <2>1 DEF Counted
    <3>2. TicketedFrom(l, s) = {}
      BY <1>1, <3>1, Finite, FS_EmptySet
    <3>3. \A d \in Unproven(l) : conn[d].source # s
      BY <3>2 DEF TicketedFrom, Unproven
    <3>4. conn'[c].source = s
      BY DEF Admit
    <3>5. c \notin Unproven(l)
      BY <1>2 DEF Unproven
    <3>6. /\ Cardinality(Unproven(l) \cup {c}) = Cardinality(Unproven(l)) + 1
          /\ Cardinality(Unproven(l)) <= Cardinality(Ticketed(l))
          /\ Cardinality(Unproven(l)) \in Nat /\ Cardinality(Ticketed(l)) \in Nat
      BY <1>1, <3>5, Finite, FS_AddElement
    <3>7. Cardinality(Unproven(l)') <= QUIC_RETRY_THRESHOLD
      BY <1>2, <2>1, <3>1, <3>6
    <3> QED
      BY <1>1, <1>2, <2>1, <3>3, <3>4, <3>7 DEF SpoofingBounded
  <2>2. CASE ~(l = m /\ ~v)
    BY <1>1, <1>2, <2>2 DEF SpoofingBounded
  <2> QED
    BY <2>1, <2>2
<1> QED
  BY <1>5, <1>6 DEF Counted, SpoofingBounded

\* ... and one step down.
LEMMA DropStep ==
    ASSUME IInv, TypeOK', NEW c \in Connections, Drop(c)
    PROVE  Counted' /\ SpoofingBounded'
<1> USE AdmissionConstants
<1> DEFINE m == conn[c].listener
           s == conn[c].source
<1>1. /\ m \in 1..LISTENERS /\ s \in Sources /\ c \in DOMAIN conn
      /\ TypeOK /\ Counted /\ SpoofingBounded
  BY DEF IInv, TypeOK, Drop, Conn
<1>2. c \in Ticketed(m) /\ c \in TicketedFrom(m, s)
  BY DEF Drop, Ticketed, TicketedFrom
<1>3. ASSUME NEW l \in 1..LISTENERS
      PROVE  /\ Ticketed(l)' = IF l = m THEN Ticketed(l) \ {c} ELSE Ticketed(l)
             /\ \A t \in Sources :
                 TicketedFrom(l, t)' = IF l = m /\ t = s THEN TicketedFrom(l, t) \ {c}
                                       ELSE TicketedFrom(l, t)
             /\ Unproven(l)' \subseteq Unproven(l)
             /\ \A d \in Unproven(l)' : conn'[d] = conn[d]
  <2>1. /\ \A d \in DOMAIN conn \ {c} : d \in DOMAIN conn' /\ conn'[d] = conn[d]
        /\ DOMAIN conn' \subseteq DOMAIN conn
        /\ c \in DOMAIN conn' => conn'[c].stage = "session"
    BY DEF Drop
  <2>2. Ticketed(l)' = Ticketed(l) \ {c}
    BY <2>1 DEF Ticketed
  <2>3. \A t \in Sources : TicketedFrom(l, t)' = TicketedFrom(l, t) \ {c}
    BY <2>1, <2>2 DEF TicketedFrom, Ticketed
  <2>4. l # m => c \notin Ticketed(l)
    BY DEF Ticketed
  <2>5. \A t \in Sources : l # m \/ t # s => c \notin TicketedFrom(l, t)
    BY DEF Ticketed, TicketedFrom
  <2>6. /\ Unproven(l)' \subseteq Unproven(l)
        /\ \A d \in Unproven(l)' : conn'[d] = conn[d]
    BY <2>1, <2>2 DEF Unproven, Ticketed
  <2> QED
    BY <2>2, <2>3, <2>4, <2>5, <2>6
<1>4. DropTicket(m, s)
  BY DEF Drop
<1> HIDE DEF m, s
<1>5. ASSUME NEW l \in 1..LISTENERS
      PROVE  /\ total[l] = Cardinality(Ticketed(l)) /\ total[l] <= MAX_QUIC_PENDING /\ total[l] \in Nat
             /\ \A t \in Sources : /\ FromSource(l, t) = Cardinality(TicketedFrom(l, t))
                                   /\ FromSource(l, t) <= MAX_QUIC_PENDING_PER_SOURCE
                                   /\ FromSource(l, t) \in Nat
  BY <1>1 DEF Counted, TypeOK, FromSource
<1>6. /\ Cardinality(Ticketed(m) \ {c}) = Cardinality(Ticketed(m)) - 1
      /\ Cardinality(TicketedFrom(m, s) \ {c}) = Cardinality(TicketedFrom(m, s)) - 1
  BY <1>1, <1>2, Finite, FS_RemoveElement
<1>7. /\ total[m] > 0 /\ FromSource(m, s) > 0
  <2>1. Ticketed(m) # {} /\ TicketedFrom(m, s) # {}
    BY <1>2
  <2>2. Cardinality(Ticketed(m)) # 0 /\ Cardinality(TicketedFrom(m, s)) # 0
    BY <1>1, <2>1, Finite, FS_EmptySet
  <2> QED
    BY <1>1, <1>5, <2>2
<1>8. \A l \in 1..LISTENERS : total'[l] = IF l = m THEN total[l] - 1 ELSE total[l]
  BY <1>1, <1>4, <1>7 DEF DropTicket, TypeOK
<1>9. ASSUME NEW l \in 1..LISTENERS, NEW t \in Sources
      PROVE  FromSource(l, t)' = IF l = m /\ t = s THEN FromSource(l, t) - 1 ELSE FromSource(l, t)
  <2> DEFINE p == per_source[m]
             q == Decrement(p, s)
  <2>1. per_source' = [per_source EXCEPT ![m] = q]
    BY <1>4 DEF DropTicket
  <2>2. s \in DOMAIN p /\ p[s] \in Nat
    BY <1>1, <1>7 DEF FromSource, TypeOK
  <2>3. /\ s \in DOMAIN q => q[s] = p[s] - 1
        /\ s \notin DOMAIN q => p[s] = 1
        /\ DOMAIN q \subseteq DOMAIN p
        /\ \A u \in DOMAIN p \ {s} : u \in DOMAIN q /\ q[u] = p[u]
    <3> HIDE DEF p
    <3> QED
      BY <2>2 DEF Decrement
  <2>4. per_source'[l] = IF l = m THEN q ELSE per_source[l]
    BY <1>1, <2>1 DEF TypeOK
  <2>5. CASE l = m
    <3>1. per_source[l] = p /\ per_source'[l] = q
      BY <2>4, <2>5
    <3> HIDE DEF p, q
    <3> QED
      BY <2>2, <2>3, <2>5, <3>1 DEF FromSource
  <2>6. CASE l # m
    BY <2>4, <2>6 DEF FromSource
  <2> QED
    BY <2>5, <2>6
<1>10. Counted'
  <2>1. ASSUME NEW l \in 1..LISTENERS
        PROVE  total'[l] = Cardinality(Ticketed(l)') /\ total'[l] <= MAX_QUIC_PENDING
    <3>1. CASE l = m
      <4>1. Ticketed(l)' = Ticketed(m) \ {c} /\ total'[l] = total[m] - 1
        BY <1>3, <1>8, <3>1
      <4>2. total[m] = Cardinality(Ticketed(m)) /\ total[m] <= MAX_QUIC_PENDING /\ total[m] \in Nat
        BY <1>1, <1>5
      <4> QED
        BY <1>6, <4>1, <4>2
    <3>2. CASE l # m
      BY <1>3, <1>5, <1>8, <3>2
    <3> QED
      BY <3>1, <3>2
  <2>2. ASSUME NEW l \in 1..LISTENERS, NEW t \in Sources
        PROVE  /\ FromSource(l, t)' = Cardinality(TicketedFrom(l, t)')
               /\ FromSource(l, t)' <= MAX_QUIC_PENDING_PER_SOURCE
    <3>1. CASE l = m /\ t = s
      <4>1. TicketedFrom(l, t)' = TicketedFrom(m, s) \ {c} /\ FromSource(l, t)' = FromSource(m, s) - 1
        BY <1>3, <1>9, <3>1
      <4>2. /\ FromSource(m, s) = Cardinality(TicketedFrom(m, s)) /\ FromSource(m, s) \in Nat
            /\ FromSource(m, s) <= MAX_QUIC_PENDING_PER_SOURCE
        BY <1>1, <1>5
      <4> QED
        BY <1>6, <4>1, <4>2
    <3>2. CASE ~(l = m /\ t = s)
      BY <1>3, <1>5, <1>9, <3>2
    <3> QED
      BY <3>1, <3>2
  <2> QED
    BY <2>1, <2>2 DEF Counted
<1>11. ASSUME NEW l \in 1..LISTENERS
       PROVE  /\ \A d, e \in Unproven(l)' : conn'[d].source = conn'[e].source => d = e
              /\ Cardinality(Unproven(l)') <= QUIC_RETRY_THRESHOLD
  <2>1. IsFiniteSet(Unproven(l)) /\ Cardinality(Unproven(l)) <= QUIC_RETRY_THRESHOLD
        /\ Cardinality(Unproven(l)) \in Nat
    BY <1>1, Finite DEF SpoofingBounded
  <2>2. Cardinality(Unproven(l)') <= Cardinality(Unproven(l)) /\ IsFiniteSet(Unproven(l)')
    BY <1>3, <2>1, FS_Subset
  <2>3. Cardinality(Unproven(l)') \in Nat
    BY <2>2, FS_CardinalityType
  <2> QED
    BY <1>1, <1>3, <2>1, <2>2, <2>3 DEF SpoofingBounded
<1> QED
  BY <1>10, <1>11 DEF SpoofingBounded

\* The steps that move no ticket.
LEMMA OtherSteps ==
    ASSUME TypeOK, NEW c \in Connections,
           \/ \E pool \in Pools : TryAcquire(c, pool)
           \/ Established(c) \/ Failed(c) \/ EndSession(c)
    PROVE  SameTickets
<1>1. UNCHANGED <<total, per_source>> /\ c \in DOMAIN conn
  BY DEF TryAcquire, Established, Failed, Leave, EndSession
<1>2. \A d \in DOMAIN conn \ {c} : d \in DOMAIN conn' /\ conn'[d] = conn[d]
  BY DEF TryAcquire, Established, Failed, Leave, EndSession
<1>3. DOMAIN conn' \subseteq DOMAIN conn
  BY DEF TryAcquire, Established, Failed, Leave, EndSession
<1>4. CASE EndSession(c)
  <2>1. c \notin DOMAIN conn' /\ conn[c].stage = "session"
    BY <1>4 DEF EndSession
  <2>2. \A l \in 1..LISTENERS : Ticketed(l)' = Ticketed(l)
    BY <1>2, <1>3, <2>1 DEF Ticketed
  <2> QED
    BY <1>1, <1>2, <1>3, <2>1, <2>2 DEF SameTickets, Ticketed, Unproven, TicketedFrom
<1>5. CASE ~EndSession(c)
  <2>1. conn[c].stage # "session" /\ conn[c] \in Conn
    BY <1>1, <1>5 DEF TryAcquire, Established, Failed, TypeOK
  <2>2. /\ c \in DOMAIN conn' /\ conn'[c].stage # "session"
        /\ conn'[c].source = conn[c].source /\ conn'[c].listener = conn[c].listener
        /\ conn'[c].validated = conn[c].validated
    <3>1. \/ \E pool \in Pools :
               conn' = [conn EXCEPT ![c].stage = "authenticating", ![c].pool = pool]
          \/ \E ok \in BOOLEAN :
               conn' = [conn EXCEPT ![c].stage = "dropping", ![c].ok = ok, ![c].pool = "none"]
      BY <1>5 DEF TryAcquire, Established, Failed, Leave
    <3>2. \/ \E pool \in Pools :
               conn'[c] = [conn[c] EXCEPT !.stage = "authenticating", !.pool = pool]
          \/ \E ok \in BOOLEAN :
               conn'[c] = [conn[c] EXCEPT !.stage = "dropping", !.ok = ok, !.pool = "none"]
      BY <1>1, <3>1
    <3>3. c \in DOMAIN conn'
      BY <1>1, <3>1
    <3> QED
      BY <2>1, <3>2, <3>3 DEF Conn
  <2>3. \A l \in 1..LISTENERS : Ticketed(l)' = Ticketed(l)
    BY <1>2, <1>3, <2>1, <2>2 DEF Ticketed
  <2> QED
    BY <1>1, <1>2, <1>3, <2>2, <2>3 DEF SameTickets, Ticketed, Unproven, TicketedFrom
<1> QED
  BY <1>4, <1>5

\* In every reachable state the counters of each listener equal its live tickets
\* and keep the limits, and connections with an unproven source stay bounded: on
\* every path of establish_incoming, across restarts of the listener.
THEOREM Invariance == Spec => []IInv
<1> USE AdmissionConstants
<1>1. Init => IInv
  <2> SUFFICES ASSUME Init PROVE IInv
    OBVIOUS
  <2>1. DOMAIN conn = {} /\ \A l \in 1..LISTENERS : DOMAIN per_source[l] = {}
    BY DEF Init
  <2>2. TypeOK
    BY <2>1 DEF Init, TypeOK
  <2>3. \A l \in 1..LISTENERS : /\ Ticketed(l) = {} /\ Unproven(l) = {}
                                /\ \A s \in Sources : TicketedFrom(l, s) = {} /\ FromSource(l, s) = 0
    BY <2>1 DEF Ticketed, Unproven, TicketedFrom, FromSource
  <2>4. Cardinality({}) = 0
    BY FS_EmptySet
  <2>5. \A l \in 1..LISTENERS : total[l] = 0
    BY DEF Init
  <2>6. Counted
    BY <2>3, <2>4, <2>5 DEF Counted
  <2>7. SpoofingBounded
    BY <2>3, <2>4 DEF SpoofingBounded
  <2> QED
    BY <2>2, <2>6, <2>7 DEF IInv
<1>2. IInv /\ [Next]_vars => IInv'
  <2> SUFFICES ASSUME IInv, [Next]_vars PROVE IInv'
    OBVIOUS
  <2>1. TypeOK'
    BY TypeStep DEF IInv
  <2>2. ASSUME NEW c \in Connections, NEW s \in Sources, NEW v \in BOOLEAN, NEW r \in BOOLEAN,
               Admit(c, s, v, r)
        PROVE  Counted' /\ SpoofingBounded'
    BY <2>1, <2>2, AdmitStep
  <2>3. ASSUME NEW c \in Connections, Drop(c)
        PROVE  Counted' /\ SpoofingBounded'
    BY <2>1, <2>3, DropStep
  <2>4. ASSUME NEW c \in Connections,
               \/ \E pool \in Pools : TryAcquire(c, pool)
               \/ Established(c) \/ Failed(c) \/ EndSession(c)
        PROVE  Counted' /\ SpoofingBounded'
    BY <2>1, <2>4, OtherSteps, SameStep DEF IInv
  <2>5. CASE Restart \/ UNCHANGED vars
    <3>1. UNCHANGED <<total, per_source, conn>>
      BY <2>5 DEF Restart, vars
    <3>2. SameTickets
      BY <3>1 DEF SameTickets, Ticketed, Unproven, TicketedFrom
    <3> QED
      BY <2>1, <3>2, SameStep DEF IInv
  <2> QED
    BY <2>1, <2>2, <2>3, <2>4, <2>5 DEF IInv, Next, Step
<1> QED
  BY <1>1, <1>2, PTL DEF Spec

\* The counters are exact and within their limits (HandshakeAdmission, PendingTicket).
THEOREM CountedHolds == Spec => []Counted
BY Invariance, PTL DEF IInv

\* Unproven sources cannot fill the slots or a quota (incoming_decision).
THEOREM SpoofingBoundedHolds == Spec => []SpoofingBounded
BY Invariance, PTL DEF IInv
=============================================================================
