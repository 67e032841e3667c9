---------------------------- MODULE SendListProofs ----------------------------
(***************************************************************************)
(* The lists of blocked senders implement queues, for any finite set of    *)
(* processes.  The queue of a process is what a walk over its list visits; *)
(* Chains says which lists hold the queues Q.  The walk is a recursive     *)
(* function: WalkFollows shows what it does by looking at the first place  *)
(* where it would leave the queue.                                         *)
(***************************************************************************)
EXTENDS SendList, FiniteSetTheorems, SequenceTheorems, WellFoundedInduction, TLAPS

Places == 1..(Cardinality(Procs) + 1)

\* The senders a walk visits, for each process: the mapping of SQ.
Queue == [d \in Procs |-> [i \in 1..WalkLength(d) |-> Walk(d)[i]]]

Types ==
    /\ q_sending \in [Procs -> Procs \cup {NULL}]
    /\ next_sending \in [Procs -> Procs \cup {NULL}]
    /\ p_sendto \in [Procs -> Procs \cup {NULL}]

\* The lists hold the queues Q: every sender points at the one behind it ...
Linked(Q) ==
    \A d \in Procs :
        /\ q_sending[d] = IF Q[d] = << >> THEN NULL ELSE Q[d][1]
        /\ \A i \in 1..Len(Q[d]) :
              next_sending[Q[d][i]] = IF i = Len(Q[d]) THEN NULL ELSE Q[d][i + 1]

\* ... is in one place only ...
Distinct(Q) == \A d \in Procs : \A i, j \in 1..Len(Q[d]) : Q[d][i] = Q[d][j] => i = j

\* ... and is blocked sending to the process in whose queue it is.
Sending(Q) ==
    /\ \A d \in Procs : \A i \in 1..Len(Q[d]) : p_sendto[Q[d][i]] = d
    /\ \A p \in Procs : Blocked(p) => \E i \in 1..Len(Q[p_sendto[p]]) : Q[p_sendto[p]][i] = p

Chains(Q) == Q \in [Procs -> Seq(Procs)] /\ Linked(Q) /\ Distinct(Q) /\ Sending(Q)

\* The inductive invariant.
IInv == Types /\ Chains(Queue) /\ NoStaleLinks

\* A set of natural numbers that is not empty has a least one.
LEMMA Least ==
    ASSUME NEW S \in SUBSET Nat, S # {}
    PROVE  \E m \in S : \A k \in S : m <= k
<1> DEFINE Below(n) == 0..n
           T == {Below(n) : n \in S}
           Smaller == StrictSubsetOrdering(Nat)
<1>1. T \subseteq FiniteSubsetsOf(Nat)
  <2>1. \A n \in Nat : IsFiniteSet(0..n)
    BY FS_Interval
  <2>2. QED
    BY <2>1 DEF FiniteSubsetsOf
<1>2. PICK x \in T : \A y \in T : <<y, x>> \notin Smaller
  <2>1. IsWellFoundedOn(Smaller, FiniteSubsetsOf(Nat))
    BY FS_StrictSubsetOrderingWellFounded
  <2>2. T # {}
    OBVIOUS
  <2> HIDE DEF T, Smaller
  <2>3. QED
    BY <1>1, <2>1, <2>2, WFMin
<1>3. PICK m \in S : x = Below(m)
  OBVIOUS
<1>4. ASSUME NEW k \in S, k < m
      PROVE  FALSE
  <2>1. Below(k) \subseteq Below(m) /\ Below(k) # Below(m)
    <3>1. m \in Below(m) /\ m \notin Below(k)
      BY <1>4
    <3>2. QED
      BY <1>4, <3>1
  <2>2. <<Below(k), x>> \in Smaller
    BY <1>3, <2>1 DEF StrictSubsetOrdering
  <2>3. QED
    BY <1>2, <2>2
<1>5. QED
  BY <1>4

\* The processes are finitely many.
LEMMA Finite == Cardinality(Procs) \in Nat
  BY NullAssumption, FS_CardinalityType

\* A sequence of different processes is no longer than there are processes.
LEMMA Fits ==
    ASSUME NEW s \in Seq(Procs), \A i, j \in 1..Len(s) : s[i] = s[j] => i = j
    PROVE  Len(s) <= Cardinality(Procs)
<1>1. s \in Injection(1..Len(s), Procs)
  BY DEF Injection, IsInjective
<1>2. Cardinality(1..Len(s)) <= Cardinality(Procs)
  BY <1>1, FS_Injection, NullAssumption
<1>3. Cardinality(1..Len(s)) = Len(s)
  BY FS_Interval
<1>4. QED
  BY <1>2, <1>3

\* The walk of msg_send and msg_receive over a list that holds the queue s
\* visits the elements of s and then is at NULL.
LEMMA WalkFollows ==
    ASSUME NEW d \in Procs, NEW s \in Seq(Procs),
           q_sending[d] = IF s = << >> THEN NULL ELSE s[1],
           \A i \in 1..Len(s) : next_sending[s[i]] = IF i = Len(s) THEN NULL ELSE s[i + 1]
    PROVE  Walk(d) = [i \in Places |-> IF i <= Len(s) THEN s[i] ELSE NULL]
<1> DEFINE f == [i \in Places |-> IF i <= Len(s) THEN s[i] ELSE NULL]
           Step(g) == [i \in Places |-> IF i = 1 THEN q_sending[d]
                                        ELSE IF g[i - 1] = NULL THEN NULL
                                             ELSE next_sending[g[i - 1]]]
<1>1. Places \subseteq Nat \ {0} /\ \A i \in Places : i # 1 => i - 1 \in Places
  BY Finite DEF Places
<1>2. \A i \in 1..Len(s) : s[i] # NULL
  BY NullAssumption
<1>3. f = Step(f)
  <2> SUFFICES ASSUME NEW i \in Places
               PROVE  f[i] = Step(f)[i]
    OBVIOUS
  <2>1. CASE i = 1
    BY <2>1, <1>1
  <2>2. CASE i # 1 /\ i - 1 <= Len(s)
    BY <2>2, <1>1, <1>2
  <2>3. CASE i # 1 /\ i - 1 > Len(s)
    BY <2>3, <1>1
  <2>4. QED
    BY <2>1, <2>2, <2>3, <1>1
<1>4. Walk(d) = Step(Walk(d))
  <2> HIDE DEF f
  <2>1. QED
    BY <1>3, Zenon DEF Walk, Places
<1>5. \A i \in Places : Walk(d)[i] = f[i]
  <2> DEFINE Bad == {i \in Places : Walk(d)[i] # f[i]}
  <2>1. SUFFICES ASSUME Bad # {}
                 PROVE  FALSE
    OBVIOUS
  <2>2. Bad \in SUBSET Nat
    BY <1>1
  <2> HIDE DEF f, Step
  <2>3. PICK m \in Bad : \A k \in Bad : m <= k
    <3> HIDE DEF Bad
    <3>1. QED
      BY <2>1, <2>2, Least
  <2>4. m \in Places /\ m \in Nat
    BY <1>1
  <2>5. Walk(d)[m] = Step(Walk(d))[m] /\ f[m] = Step(f)[m]
    BY <1>3, <1>4
  <2>6. CASE m = 1
    <3>1. Step(Walk(d))[m] = q_sending[d] /\ Step(f)[m] = q_sending[d]
      BY <2>4, <2>6 DEF Step
    <3>2. QED
      BY <2>5, <3>1
  <2>7. CASE m # 1
    <3>1. m - 1 \in Places /\ m - 1 \notin Bad
      BY <1>1, <2>3, <2>4, <2>7
    <3>2. Walk(d)[m - 1] = f[m - 1]
      BY <3>1
    <3>3. Step(Walk(d))[m] = Step(f)[m]
      BY <2>4, <2>7, <3>2 DEF Step
    <3>4. QED
      BY <2>5, <3>3
  <2>8. QED
    BY <2>6, <2>7
<1>6. Walk(d) = [i \in Places |-> Walk(d)[i]]
  <2> HIDE DEF f
  <2> DEFINE body(i) == IF i = 1 THEN q_sending[d]
                        ELSE IF Walk(d)[i - 1] = NULL THEN NULL ELSE next_sending[Walk(d)[i - 1]]
  <2>1. Walk(d) = [i \in Places |-> body(i)]
    BY <1>4
  <2> HIDE DEF body
  <2>2. QED
    BY <2>1
<1>7. QED
  BY <1>5, <1>6

\* What a list that holds s looks like to msg_send and msg_receive: the walk
\* takes as many steps as s has elements.
LEMMA WalkOver ==
    ASSUME NEW Q, Chains(Q), NEW d \in Procs
    PROVE  /\ WalkLength(d) = Len(Q[d])
           /\ \A i \in 1..Len(Q[d]) : Walk(d)[i] = Q[d][i]
<1>1. Q[d] \in Seq(Procs) /\ Len(Q[d]) <= Cardinality(Procs)
  BY Fits DEF Chains, Distinct
<1>2. Walk(d) = [i \in Places |-> IF i <= Len(Q[d]) THEN Q[d][i] ELSE NULL]
  BY <1>1, WalkFollows DEF Chains, Linked
<1>3. \A i \in 1..Len(Q[d]) : i \in Places /\ Q[d][i] # NULL
  BY <1>1, Finite, NullAssumption DEF Places
<1>4. {i \in 1..(Cardinality(Procs) + 1) : Walk(d)[i] # NULL} = 1..Len(Q[d])
  <2>1. \A i \in Places : Walk(d)[i] # NULL <=> i <= Len(Q[d])
    BY <1>2, <1>3, Finite DEF Places
  <2>2. QED
    BY <1>1, <1>3, <2>1, Finite DEF Places
<1>5. WalkLength(d) = Len(Q[d])
  <2>1. Cardinality(1..Len(Q[d])) = Len(Q[d])
    BY <1>1, FS_Interval
  <2>2. WalkLength(d) = Cardinality({i \in 1..(Cardinality(Procs) + 1) : Walk(d)[i] # NULL})
    BY Zenon DEF WalkLength
  <2>3. QED
    BY <1>4, <2>1, <2>2
<1>6. QED
  BY <1>2, <1>3, <1>5

\* A list holds one queue only: what the walk visits.
LEMMA QueueIs == \A Q : Chains(Q) => Queue = Q
<1> SUFFICES ASSUME NEW Q, Chains(Q)
             PROVE  Queue = Q
  OBVIOUS
<1>1. ASSUME NEW d \in Procs
      PROVE  Queue[d] = Q[d]
  <2>1. Q[d] \in Seq(Procs)
    BY DEF Chains
  <2>2. Queue[d] = [i \in 1..Len(Q[d]) |-> Q[d][i]]
    BY WalkOver DEF Queue
  <2>3. QED
    BY <2>1, <2>2
<1>2. QED
  BY <1>1 DEF Queue, Chains

\* The same after a step.
LEMMA QueueIsNext == \A Q : Chains(Q)' => Queue' = Q
<1>1. (\A Q : Chains(Q) => Queue = Q)'
  BY QueueIs, PTL
<1>2. QED
  BY <1>1

\* Who is queued, in terms of Queue.
LEMMA Queued ==
    \A p : SQ!Queued(p) <=> \E d \in Procs : \E i \in 1..Len(Queue[d]) : Queue[d][i] = p
  BY Zenon DEF SQ!Queued, Queue

\* Init: empty lists hold empty queues.
LEMMA InitInv == Init => IInv /\ SQ!Init
<1> SUFFICES ASSUME Init
             PROVE  IInv /\ SQ!Init
  OBVIOUS
<1> DEFINE Q == [d \in Procs |-> << >>]
<1>1. Types /\ NoStaleLinks
  BY DEF Init, Types, NoStaleLinks
<1>2. Chains(Q)
  BY DEF Init, Chains, Linked, Distinct, Sending, Blocked
<1>3. Queue = Q
  BY <1>2, QueueIs
<1>4. QED
  BY <1>1, <1>2, <1>3 DEF IInv, SQ!Init, Queue

\* Whoever is queued is blocked, and whoever is blocked is queued: the kernel's
\* p_flags and the lists agree.
LEMMA QueuedIsBlocked ==
    ASSUME IInv, NEW p \in Procs
    PROVE  SQ!Queued(p) <=> Blocked(p)
<1>1. SQ!Queued(p) <=> \E d \in Procs : \E i \in 1..Len(Queue[d]) : Queue[d][i] = p
  BY Queued
<1>2. Blocked(p) => p_sendto[p] \in Procs
  BY DEF IInv, Types, Blocked
<1>3. ASSUME NEW d \in Procs, NEW i \in 1..Len(Queue[d]), Queue[d][i] = p
      PROVE  Blocked(p)
  BY <1>3, NullAssumption DEF IInv, Chains, Sending, Blocked
<1>4. Blocked(p) => \E i \in 1..Len(Queue[p_sendto[p]]) : Queue[p_sendto[p]][i] = p
  BY DEF IInv, Chains, Sending
<1>5. QED
  BY <1>1, <1>2, <1>3, <1>4

\* msg_send puts the sender behind the last one of the queue.
LEMMA AppendStep ==
    ASSUME IInv, NEW sender \in Procs, NEW dest \in Procs, append(sender, dest)
    PROVE  IInv' /\ SQ!Enqueue(sender, dest)
<1>0. PICK s, Q : s = Queue[dest] /\ Q = [Queue EXCEPT ![dest] = Append(@, sender)]
  OBVIOUS
<1>1. /\ Chains(Queue) /\ Types /\ NoStaleLinks
      /\ Queue \in [Procs -> Seq(Procs)] /\ s \in Seq(Procs)
  BY <1>0 DEF IInv, Chains
<1>2. /\ ~Blocked(sender) /\ sender # dest
      /\ p_sendto' = [p_sendto EXCEPT ![sender] = dest]
  BY DEF append
<1>3. \A d \in Procs : \A i \in 1..Len(Queue[d]) : Queue[d][i] # sender /\ Queue[d][i] \in Procs
  BY <1>1, <1>2, QueuedIsBlocked, Queued
<1>4. /\ s = << >> => /\ q_sending' = [q_sending EXCEPT ![dest] = sender]
                      /\ next_sending' = [next_sending EXCEPT ![sender] = NULL]
      /\ s # << >> => /\ q_sending' = q_sending
                      /\ next_sending' = [next_sending EXCEPT ![s[Len(s)]] = sender,
                                                              ![sender] = NULL]
  <2>1. q_sending[dest] = IF s = << >> THEN NULL ELSE s[1]
    BY <1>0, <1>1 DEF Chains, Linked
  <2>2. s # << >> => s[1] # NULL /\ Walk(dest)[WalkLength(dest)] = s[Len(s)]
    <3>1. s # << >> => Len(s) \in 1..Len(s) /\ 1 \in 1..Len(s)
      BY <1>1
    <3>2. WalkLength(dest) = Len(s) /\ \A i \in 1..Len(s) : Walk(dest)[i] = s[i]
      BY <1>0, <1>1, WalkOver
    <3>3. QED
      BY <1>0, <1>1, <1>3, <3>1, <3>2, NullAssumption
  <2>3. QED
    BY <2>1, <2>2 DEF append
<1>5. /\ Q \in [Procs -> Seq(Procs)]
      /\ \A d \in Procs \ {dest} : Q[d] = Queue[d]
      /\ Len(Q[dest]) = Len(s) + 1 /\ Q[dest][Len(s) + 1] = sender
      /\ \A i \in 1..Len(s) : Q[dest][i] = s[i]
  BY <1>0, <1>1
<1>6. Types'
  BY <1>0, <1>1, <1>2, <1>4, NullAssumption, ZenonT(40) DEF Types
<1>7. NoStaleLinks'
  <2> SUFFICES ASSUME NEW p \in Procs, ~Blocked(p)'
               PROVE  next_sending'[p] = NULL
    BY DEF NoStaleLinks
  <2>1. p # sender /\ ~Blocked(p)
    BY <1>1, <1>2, NullAssumption DEF Blocked, Types
  <2>2. s # << >> => p # s[Len(s)]
    <3>1. s # << >> => Len(s) \in 1..Len(s)
      BY <1>1
    <3>2. s # << >> => SQ!Queued(s[Len(s)])
      BY <1>0, <3>1, Queued
    <3>3. s # << >> => s[Len(s)] \in Procs
      BY <1>1, <3>1
    <3>4. QED
      BY <2>1, <3>2, <3>3, QueuedIsBlocked
  <2>3. QED
    BY <1>1, <1>4, <2>1, <2>2 DEF NoStaleLinks, Types
<1>8. Chains(Q)'
  <2>1. Distinct(Q)
    <3> SUFFICES ASSUME NEW d \in Procs, NEW i \in 1..Len(Q[d]), NEW j \in 1..Len(Q[d]),
                        Q[d][i] = Q[d][j]
                 PROVE  i = j
      BY DEF Distinct
    <3>1. CASE d # dest
      BY <1>1, <1>5, <3>1 DEF Chains, Distinct
    <3>2. CASE d = dest
      <4>1. Len(s) \in Nat /\ Len(Q[d]) = Len(s) + 1
        BY <1>1, <1>5, <3>2
      <4>2. \A k \in 1..Len(Q[d]) : k \in 1..Len(s) \/ k = Len(s) + 1
        BY <4>1
      <4>3. \A k \in 1..Len(s) : Q[d][k] # sender
        BY <1>0, <1>3, <1>5, <3>2
      <4>4. CASE i \in 1..Len(s) /\ j \in 1..Len(s)
        BY <1>0, <1>1, <1>5, <3>2, <4>4 DEF Chains, Distinct
      <4>5. QED
        BY <1>5, <3>2, <4>2, <4>3, <4>4
    <3>3. QED
      BY <3>1, <3>2
  <2>2. Sending(Q)'
    <3>1. ASSUME NEW d \in Procs, NEW i \in 1..Len(Q[d])
          PROVE  p_sendto'[Q[d][i]] = d
      <4>1. CASE d # dest \/ i \in 1..Len(s)
        <5>1. i \in 1..Len(Queue[d]) /\ Q[d][i] = Queue[d][i]
          BY <1>0, <1>5, <4>1
        <5>2. QED
          BY <1>1, <1>2, <1>3, <5>1 DEF Chains, Sending, Types
      <4>2. CASE d = dest /\ i = Len(s) + 1
        BY <1>1, <1>2, <1>5, <4>2 DEF Types
      <4>3. QED
        BY <1>1, <1>5, <4>1, <4>2, SMTT(40)
    <3>2. ASSUME NEW p \in Procs, Blocked(p)'
          PROVE  \E i \in 1..Len(Q[p_sendto'[p]]) : Q[p_sendto'[p]][i] = p
      <4>1. CASE p = sender
        <5>1. p_sendto'[p] = dest /\ Len(s) + 1 \in 1..Len(Q[dest])
          BY <1>1, <1>2, <1>5, <4>1 DEF Types
        <5>2. QED
          BY <1>5, <4>1, <5>1
      <4>2. CASE p # sender
        <5>1. p_sendto'[p] = p_sendto[p] /\ Blocked(p)
          BY <1>1, <1>2, <3>2, <4>2 DEF Types, Blocked
        <5>2. PICK i \in 1..Len(Queue[p_sendto[p]]) : Queue[p_sendto[p]][i] = p
          BY <1>1, <5>1 DEF Chains, Sending
        <5>3. p_sendto[p] \in Procs
          BY <1>1, <5>1 DEF Types, Blocked
        <5>4. i \in 1..Len(Q[p_sendto[p]]) /\ Q[p_sendto[p]][i] = p
          BY <1>0, <1>1, <1>5, <5>2, <5>3
        <5>5. QED
          BY <5>1, <5>4
      <4>3. QED
        BY <4>1, <4>2
    <3>3. QED
      BY <3>1, <3>2 DEF Sending, Blocked
  <2>3. Linked(Q)'
    <3>1. ASSUME NEW d \in Procs \ {dest}
          PROVE  /\ q_sending'[d] = IF Q[d] = << >> THEN NULL ELSE Q[d][1]
                 /\ \A i \in 1..Len(Q[d]) :
                      next_sending'[Q[d][i]] = IF i = Len(Q[d]) THEN NULL ELSE Q[d][i + 1]
      <4>1. q_sending'[d] = q_sending[d]
        BY <1>1, <1>4 DEF Types
      <4>2. ASSUME NEW i \in 1..Len(Queue[d])
            PROVE  next_sending'[Queue[d][i]] = next_sending[Queue[d][i]]
        <5>1. s # << >> => s[Len(s)] # Queue[d][i]
          <6>1. s # << >> => p_sendto[s[Len(s)]] = dest
            <7>1. s # << >> => Len(s) \in 1..Len(s)
              BY <1>1
            <7>2. QED
              BY <1>0, <1>1, <7>1 DEF Chains, Sending
          <6>2. p_sendto[Queue[d][i]] = d
            BY <1>1 DEF Chains, Sending
          <6>3. QED
            BY <6>1, <6>2
        <5>2. QED
          BY <1>1, <1>3, <1>4, <5>1 DEF Types
      <4>3. /\ q_sending[d] = IF Queue[d] = << >> THEN NULL ELSE Queue[d][1]
            /\ \A i \in 1..Len(Queue[d]) :
                  next_sending[Queue[d][i]] = IF i = Len(Queue[d]) THEN NULL ELSE Queue[d][i + 1]
        BY <1>1 DEF Chains, Linked
      <4>4. Q[d] = Queue[d]
        BY <1>5
      <4>5. QED
        BY <4>1, <4>2, <4>3, <4>4
    <3>2. q_sending'[dest] = Q[dest][1] /\ Q[dest] # << >>
      <4>1. CASE s = << >>
        BY <1>1, <1>4, <1>5, <4>1 DEF Types
      <4>2. CASE s # << >>
        <5>1. 1 \in 1..Len(s) /\ q_sending[dest] = s[1]
          BY <1>0, <1>1, <4>2 DEF Chains, Linked
        <5>2. QED
          BY <1>4, <1>5, <4>2, <5>1
      <4>3. QED
        BY <4>1, <4>2
    <3>3. ASSUME NEW i \in 1..Len(Q[dest])
          PROVE  next_sending'[Q[dest][i]] = IF i = Len(Q[dest]) THEN NULL ELSE Q[dest][i + 1]
      <4>1. next_sending'[sender] = NULL
        BY <1>1, <1>4 DEF Types
      <4>2. CASE i = Len(s) + 1
        BY <1>5, <4>1, <4>2
      <4>3. CASE i = Len(s) /\ i # 0
        <5>1. s # << >> /\ s[Len(s)] \in Procs /\ s[Len(s)] # sender
          BY <1>0, <1>1, <1>3, <4>3
        <5>2. next_sending'[s[Len(s)]] = sender
          BY <1>1, <1>4, <5>1 DEF Types
        <5>3. QED
          BY <1>1, <1>5, <4>3, <5>2
      <4>4. CASE i < Len(s)
        <5>1. /\ i \in 1..Len(s) /\ Len(s) \in 1..Len(s) /\ i + 1 \in 1..Len(s)
              /\ s # << >> /\ s[i] # s[Len(s)] /\ s[i] # sender /\ s[i] \in Procs
          <6>1. Len(s) \in Nat /\ i \in Nat \ {0}
            BY <1>1, <1>5
          <6>2. i \in 1..Len(s) /\ Len(s) \in 1..Len(s) /\ i + 1 \in 1..Len(s) /\ i # Len(s)
            BY <4>4, <6>1
          <6>3. QED
            BY <1>0, <1>1, <1>3, <6>2 DEF Chains, Distinct
        <5>2. next_sending'[s[i]] = next_sending[s[i]]
          BY <1>1, <1>4, <5>1 DEF Types
        <5>3. next_sending[s[i]] = s[i + 1]
          BY <1>0, <1>1, <4>4, <5>1 DEF Chains, Linked
        <5>4. QED
          BY <1>1, <1>5, <4>4, <5>1, <5>2, <5>3
      <4>5. QED
        BY <1>1, <1>5, <4>2, <4>3, <4>4
    <3>4. QED
      BY <3>1, <3>2, <3>3 DEF Linked
  <2>4. QED
    BY <1>5, <2>1, <2>2, <2>3 DEF Chains, Distinct
<1>9. Queue' = Q
  BY <1>8, QueueIsNext
<1>10. ~SQ!Queued(sender)
  BY <1>2, QueuedIsBlocked
<1>11. QED
  BY <1>0, <1>2, <1>6, <1>7, <1>8, <1>9, <1>10 DEF IInv, SQ!Enqueue, Queue

\* msg_receive takes the sender in place n out of the queue of p; prev is the
\* one in front of it.
LEMMA UnlinkStep ==
    ASSUME IInv, NEW p \in Procs, NEW n \in 1..Len(Queue[p]), NEW src \in Procs, NEW prev,
           src = Queue[p][n],
           n # 1 => prev = Queue[p][n - 1],
           ~Blocked(p), Unlink(p, src, prev)
    PROVE  IInv' /\ SQ!Dequeue(p, src)
<1>0. PICK s, L, Q :
          /\ s = Queue[p] /\ L = Len(s) /\ src = s[n]
          /\ Q = [Queue EXCEPT ![p] =
                    [j \in 1..(Len(@) - 1) |-> IF j < n THEN @[j] ELSE @[j + 1]]]
  OBVIOUS
<1>1. /\ Chains(Queue) /\ Types /\ NoStaleLinks
      /\ Queue \in [Procs -> Seq(Procs)] /\ s \in Seq(Procs)
      /\ n \in Nat \ {0} /\ L \in Nat /\ n <= L /\ src \in Procs
  BY <1>0 DEF IInv, Chains
<1>1a. n \in Nat \ {0} /\ n \in Int /\ L \in Int /\ L \in Nat /\ n <= L
  BY <1>1
<1>2. /\ Q \in [Procs -> Seq(Procs)]
      /\ \A d \in Procs \ {p} : Q[d] = Queue[d]
      /\ Len(Q[p]) = L - 1
      /\ \A i \in Int : 1 <= i /\ i <= L - 1 => Q[p][i] = IF i < n THEN s[i] ELSE s[i + 1]
  <2> DEFINE q == [j \in 1..(L - 1) |-> IF j < n THEN s[j] ELSE s[j + 1]]
  <2>1. \A j \in 1..(L - 1) : (IF j < n THEN s[j] ELSE s[j + 1]) \in Procs
    BY <1>0, <1>1, SMTT(40)
  <2>2. q \in Seq(Procs) /\ Len(q) = L - 1
    BY <1>1a, <2>1
  <2>3. Q = [Queue EXCEPT ![p] = q]
    BY <1>0
  <2> HIDE DEF q
  <2>4. Q \in [Procs -> Seq(Procs)] /\ Q[p] = q /\ \A d \in Procs \ {p} : Q[d] = Queue[d]
    BY <1>1, <2>2, <2>3
  <2>5. QED
    BY <1>1, <2>2, <2>4 DEF q
<1>3. /\ \A i, j \in 1..L : s[i] = s[j] => i = j
      /\ \A i \in 1..L :
            /\ p_sendto[s[i]] = p /\ s[i] \in Procs
            /\ next_sending[s[i]] = IF i = L THEN NULL ELSE s[i + 1]
      /\ q_sending[p] = s[1] /\ n \in 1..L /\ 1 \in 1..L
  <2>1. n \in 1..L /\ 1 \in 1..L /\ s # << >>
    BY <1>0, <1>1
  <2>2. \A i \in 1..L : s[i] \in Procs
    BY <1>0, <1>1
  <2>3. \A i, j \in 1..L : s[i] = s[j] => i = j
    BY <1>0, <1>1 DEF Chains, Distinct
  <2>4. \A i \in 1..L : p_sendto[s[i]] = p
    BY <1>0, <1>1 DEF Chains, Sending
  <2>5. /\ q_sending[p] = s[1]
        /\ \A i \in 1..L : next_sending[s[i]] = IF i = L THEN NULL ELSE s[i + 1]
    BY <1>0, <1>1, <2>1 DEF Chains, Linked
  <2>6. QED
    BY <2>1, <2>2, <2>3, <2>4, <2>5
<1>4. /\ p_sendto' = [p_sendto EXCEPT ![src] = NULL]
      /\ n = 1 => /\ q_sending' = [q_sending EXCEPT ![p] = next_sending[src]]
                  /\ next_sending' = [next_sending EXCEPT ![src] = NULL]
      /\ n # 1 => /\ q_sending' = q_sending
                  /\ next_sending' = [next_sending EXCEPT ![s[n - 1]] = next_sending[src],
                                                          ![src] = NULL]
  <2>1. src = q_sending[p] <=> n = 1
    BY <1>0, <1>3
  <2>2. Unlink(p, src, prev)
    BY <1>0
  <2>3. n # 1 => prev = s[n - 1]
    BY <1>0
  <2>4. QED
    BY <2>1, <2>2, <2>3 DEF Unlink
<1>5. Types'
  <2>1. q_sending' \in [Procs -> Procs \cup {NULL}]
    BY <1>1, <1>4 DEF Types
  <2>2. next_sending' \in [Procs -> Procs \cup {NULL}]
    BY <1>1, <1>4 DEF Types
  <2>3. p_sendto' \in [Procs -> Procs \cup {NULL}]
    BY <1>1, <1>4 DEF Types
  <2>4. QED
    BY <2>1, <2>2, <2>3 DEF Types
\* Where the elements of the shorter queue were in s.
<1> DEFINE Was(i) == IF i < n THEN i ELSE i + 1
<1>6. \A i \in 1..(L - 1) : Was(i) \in 1..L /\ Was(i) # n /\ Q[p][i] = s[Was(i)]
  <2> SUFFICES ASSUME NEW i \in 1..(L - 1)
               PROVE  Was(i) \in 1..L /\ Was(i) # n /\ Q[p][i] = s[Was(i)]
    OBVIOUS
  <2>1. Q[p][i] = IF i < n THEN s[i] ELSE s[i + 1]
    BY <1>1, <1>2
  <2>2. QED
    BY <1>1, <2>1
<1>7. \A d \in Procs : \A i \in 1..Len(Q[d]) : Q[d][i] # src /\ Q[d][i] \in Procs /\ p_sendto[Q[d][i]] = d
  <2> SUFFICES ASSUME NEW d \in Procs, NEW i \in 1..Len(Q[d])
               PROVE  Q[d][i] # src /\ Q[d][i] \in Procs /\ p_sendto[Q[d][i]] = d
    OBVIOUS
  <2>1. CASE d = p
    <3>1. i \in 1..(L - 1)
      BY <1>2, <2>1
    <3>2. Was(i) \in 1..L /\ Was(i) # n /\ Q[p][i] = s[Was(i)]
      BY <1>6, <3>1
    <3> HIDE DEF Was
    <3>3. QED
      BY <1>0, <1>3, <2>1, <3>2
  <2>2. CASE d # p
    BY <1>0, <1>1, <1>2, <1>3, <2>2 DEF Chains, Sending
  <2>3. QED
    BY <2>1, <2>2
<1>8. NoStaleLinks'
  <2> SUFFICES ASSUME NEW q \in Procs, ~Blocked(q)'
               PROVE  next_sending'[q] = NULL
    BY DEF NoStaleLinks
  <2>1. CASE q = src
    BY <1>1, <1>4, <2>1 DEF Types
  <2>2. CASE q # src
    <3>1. ~Blocked(q) /\ next_sending[q] = NULL
      BY <1>1, <1>4, <2>2 DEF Types, Blocked, NoStaleLinks
    <3>2. n # 1 => q # s[n - 1]
      <4>1. n # 1 => n - 1 \in 1..L
        BY <1>1
      <4>2. n # 1 => p_sendto[s[n - 1]] # NULL
        BY <1>3, <4>1, NullAssumption
      <4>3. QED
        BY <3>1, <4>2 DEF Blocked
    <3>3. QED
      BY <1>1, <1>4, <2>2, <3>1, <3>2 DEF Types
  <2>3. QED
    BY <2>1, <2>2
<1>9. Distinct(Q)
  <2> SUFFICES ASSUME NEW d \in Procs, NEW i \in 1..Len(Q[d]), NEW j \in 1..Len(Q[d]),
                      Q[d][i] = Q[d][j]
               PROVE  i = j
    BY DEF Distinct
  <2>1. CASE d = p
    <3>1. i \in 1..(L - 1) /\ j \in 1..(L - 1)
      BY <1>2, <2>1
    <3>2. Was(i) = Was(j)
      <4> HIDE DEF Was
      <4>1. QED
        BY <1>3, <1>6, <2>1, <3>1
    <3>3. i \in Int /\ j \in Int /\ n \in Int
      BY <1>1, <3>1
    <3>4. \A a, b \in Int : Was(a) = Was(b) => a = b
      BY <3>3
    <3>5. QED
      <4> HIDE DEF Was
      <4>1. QED
        BY <3>2, <3>3, <3>4
  <2>2. CASE d # p
    BY <1>1, <1>2, <2>2 DEF Chains, Distinct
  <2>3. QED
    BY <2>1, <2>2
<1>10. Sending(Q)'
  <2>1. ASSUME NEW d \in Procs, NEW i \in 1..Len(Q[d])
        PROVE  p_sendto'[Q[d][i]] = d
    BY <1>1, <1>4, <1>7 DEF Types
  <2>2. ASSUME NEW q \in Procs, Blocked(q)'
        PROVE  \E i \in 1..Len(Q[p_sendto'[q]]) : Q[p_sendto'[q]][i] = q
    <3>1. q # src /\ p_sendto'[q] = p_sendto[q] /\ Blocked(q) /\ p_sendto[q] \in Procs
      BY <1>1, <1>4, <2>2 DEF Types, Blocked
    <3>2. PICK i \in 1..Len(Queue[p_sendto[q]]) : Queue[p_sendto[q]][i] = q
      BY <1>1, <3>1 DEF Chains, Sending
    <3>3. CASE p_sendto[q] # p
      BY <1>2, <3>1, <3>2, <3>3
    <3>4. CASE p_sendto[q] = p
      <4>1. i \in 1..L /\ s[i] = q /\ i # n
        BY <1>0, <3>1, <3>2, <3>4
      <4>2. CASE i < n
        <5>1. i \in 1..(L - 1)
          BY <1>1, <4>1, <4>2
        <5>2. Q[p][i] = q
          BY <1>2, <4>1, <4>2, <5>1
        <5>3. QED
          BY <1>2, <3>1, <3>4, <5>1, <5>2
      <4>3. CASE i > n
        <5>1. i - 1 \in 1..(L - 1) /\ ~(i - 1 < n) /\ (i - 1) + 1 = i
          BY <1>1a, <4>1, <4>3
        <5>2. Q[p][i - 1] = q
          BY <1>2, <4>1, <5>1
        <5>3. QED
          BY <1>2, <3>1, <3>4, <5>1, <5>2
      <4>4. QED
        BY <1>1, <4>1, <4>2, <4>3
    <3>5. QED
      BY <3>3, <3>4
  <2>3. QED
    BY <2>1, <2>2 DEF Sending, Blocked
<1>11. Linked(Q)'
  <2>1. ASSUME NEW d \in Procs \ {p}
        PROVE  /\ q_sending'[d] = IF Q[d] = << >> THEN NULL ELSE Q[d][1]
               /\ \A i \in 1..Len(Q[d]) :
                    next_sending'[Q[d][i]] = IF i = Len(Q[d]) THEN NULL ELSE Q[d][i + 1]
    <3>1. q_sending'[d] = q_sending[d]
      BY <1>1, <1>4 DEF Types
    <3>2. ASSUME NEW i \in 1..Len(Queue[d])
          PROVE  next_sending'[Queue[d][i]] = next_sending[Queue[d][i]]
      <4>1. p_sendto[Queue[d][i]] = d /\ Queue[d][i] \in Procs /\ Queue[d][i] # src
        <5>1. Q[d] = Queue[d]
          BY <1>2
        <5>2. QED
          BY <1>7, <5>1
      <4>2. n # 1 => n - 1 \in 1..L
        BY <1>1
      <4>3. n # 1 => s[n - 1] # Queue[d][i]
        BY <1>3, <4>1, <4>2
      <4>4. QED
        BY <1>1, <1>4, <4>1, <4>3 DEF Types
    <3>3. /\ q_sending[d] = IF Queue[d] = << >> THEN NULL ELSE Queue[d][1]
          /\ \A i \in 1..Len(Queue[d]) :
                next_sending[Queue[d][i]] = IF i = Len(Queue[d]) THEN NULL ELSE Queue[d][i + 1]
      BY <1>1 DEF Chains, Linked
    <3>4. Q[d] = Queue[d]
      BY <1>2
    <3>5. QED
      BY <3>1, <3>2, <3>3, <3>4
  <2>2. q_sending'[p] = IF Q[p] = << >> THEN NULL ELSE Q[p][1]
    <3>1. Q[p] = << >> <=> L = 1
      BY <1>1, <1>2
    <3>2. CASE n = 1
      <4>1. q_sending'[p] = IF 1 = L THEN NULL ELSE s[2]
        <5>1. next_sending[s[1]] = IF 1 = L THEN NULL ELSE s[1 + 1]
          BY <1>3
        <5>2. q_sending'[p] = next_sending[s[1]]
          BY <1>0, <1>1, <1>4, <3>2 DEF Types
        <5>3. QED
          BY <5>1, <5>2
      <4>2. L # 1 => Q[p][1] = s[2]
        <5>1. L # 1 => 1 <= L - 1
          BY <1>1
        <5>2. L # 1 => Q[p][1] = s[1 + 1]
          BY <1>2, <3>2, <5>1
        <5>3. QED
          BY <5>2
      <4>3. QED
        BY <3>1, <4>1, <4>2
    <3>3. CASE n # 1
      <4>1. q_sending'[p] = s[1] /\ L # 1
        BY <1>1, <1>3, <1>4, <3>3
      <4>2. Q[p][1] = s[1]
        <5>1. 1 <= L - 1 /\ 1 < n
          BY <1>1, <3>3, <4>1
        <5>2. QED
          BY <1>2, <5>1
      <4>3. QED
        BY <3>1, <4>1, <4>2
    <3>4. QED
      BY <3>2, <3>3
  <2>3. ASSUME NEW i \in 1..Len(Q[p])
        PROVE  next_sending'[Q[p][i]] = IF i = Len(Q[p]) THEN NULL ELSE Q[p][i + 1]
    <3>0. i \in 1..(L - 1)
      BY <1>2
    <3>1. \A k \in 1..L : k # n /\ k # n - 1 => next_sending'[s[k]] = next_sending[s[k]]
      <4> SUFFICES ASSUME NEW k \in 1..L, k # n, k # n - 1
                   PROVE  next_sending'[s[k]] = next_sending[s[k]]
        OBVIOUS
      <4>1. n # 1 => n - 1 \in 1..L
        BY <1>1
      <4>2. s[k] # src /\ (n # 1 => s[k] # s[n - 1])
        BY <1>0, <1>3, <4>1
      <4>3. QED
        BY <1>1, <1>3, <1>4, <4>2 DEF Types
    <3>2. n # 1 => next_sending'[s[n - 1]] = next_sending[src]
      <4>1. n # 1 => n - 1 \in 1..L /\ n - 1 # n
        BY <1>1
      <4>2. n # 1 => s[n - 1] # src /\ s[n - 1] \in Procs
        BY <1>0, <1>3, <4>1
      <4>3. QED
        BY <1>1, <1>4, <4>2 DEF Types
    <3>3. CASE i + 1 < n
      <4>1. i \in 1..L /\ i # n /\ i # n - 1 /\ i # L - 1 /\ i # L /\ i + 1 \in 1..(L - 1)
        BY <1>1a, <3>0, <3>3
      <4>2. Q[p][i] = s[i] /\ Q[p][i + 1] = s[i + 1]
        <5>1. i \in Int /\ 1 <= i /\ i <= L - 1 /\ i < n /\ i + 1 < n
          BY <3>0, <3>3, <1>1a
        <5>2. i + 1 \in Int /\ 1 <= i + 1 /\ i + 1 <= L - 1
          BY <1>1a, <5>1
        <5>3. QED
          BY <1>2, <5>1, <5>2
      <4>3. QED
        BY <1>2, <1>3, <3>1, <4>1, <4>2
    <3>4. CASE i + 1 = n
      <4>1. n # 1 /\ i = n - 1 /\ i < n
        BY <1>1, <3>0, <3>4
      <4>2. Q[p][i] = s[n - 1]
        BY <1>2, <3>0, <4>1
      <4>3. next_sending'[Q[p][i]] = IF n = L THEN NULL ELSE s[n + 1]
        BY <1>0, <1>3, <3>2, <4>1, <4>2
      <4>4. n # L => n \in 1..(L - 1) /\ Q[p][n] = s[n + 1]
        <5>1. n # L => n \in Int /\ 1 <= n /\ n <= L - 1 /\ ~(n < n)
          BY <1>1
        <5>2. QED
          BY <1>2, <5>1
      <4>5. i = Len(Q[p]) <=> n = L
        <5>1. Len(Q[p]) = L - 1 /\ i \in Int
          BY <1>2, <3>0
        <5>2. QED
          BY <1>1, <3>4, <5>1
      <4>6. QED
        BY <3>4, <4>3, <4>4, <4>5
    <3>5. CASE i >= n
      <4>1. i + 1 \in 1..L /\ i + 1 # n /\ i + 1 # n - 1 /\ ~(i < n)
        BY <1>1, <3>0, <3>5
      <4>2. Q[p][i] = s[i + 1]
        BY <1>2, <3>0, <4>1
      <4>3. next_sending'[Q[p][i]] = IF i + 1 = L THEN NULL ELSE s[(i + 1) + 1]
        BY <1>3, <3>1, <4>1, <4>2
      <4>4. i + 1 # L => i + 1 \in 1..(L - 1) /\ ~(i + 1 < n)
        BY <1>1, <3>0, <3>5
      <4>5. i + 1 # L => Q[p][i + 1] = s[(i + 1) + 1]
        BY <1>2, <4>4
      <4>6. i = Len(Q[p]) <=> i + 1 = L
        <5>1. Len(Q[p]) = L - 1 /\ i \in Int
          BY <1>2, <3>0
        <5>2. QED
          BY <1>1a, <5>1
      <4>7. QED
        BY <4>3, <4>5, <4>6
    <3>6. QED
      BY <1>1, <3>0, <3>3, <3>4, <3>5
  <2>4. QED
    BY <2>1, <2>2, <2>3 DEF Linked
<1>12. Queue' = Q
  <2>1. Chains(Q)'
    BY <1>2, <1>9, <1>10, <1>11 DEF Chains, Distinct
  <2>2. QED
    BY <2>1, QueueIsNext
<1>13. IInv'
  BY <1>2, <1>5, <1>8, <1>9, <1>10, <1>11, <1>12 DEF IInv, Chains, Distinct
<1>14. SQ!Dequeue(p, src)
  <2>1. ~SQ!Queued(p)
    BY QueuedIsBlocked
  <2>2. Queue' = [Queue EXCEPT ![p] =
                    [j \in 1..(Len(@) - 1) |-> IF j < n THEN @[j] ELSE @[j + 1]]]
    BY <1>0, <1>12
  <2>3. QED
    BY <2>1, <2>2 DEF SQ!Dequeue, SQ!Without, Queue
<1>15. QED
  BY <1>13, <1>14

\* RECEIVE from ANY takes the first sender.
LEMMA ReceiveAnyStep ==
    ASSUME IInv, NEW p \in Procs, ReceiveAny(p)
    PROVE  IInv' /\ \E q \in Procs : SQ!Dequeue(p, q)
<1>1. /\ Queue[p] # << >> /\ q_sending[p] = Queue[p][1]
      /\ Queue[p] \in Seq(Procs)
  BY DEF IInv, Chains, Linked, ReceiveAny
<1>2. 1 \in 1..Len(Queue[p]) /\ Queue[p][1] \in Procs
  BY <1>1
<1>3. PICK src \in Procs : src = Queue[p][1]
  BY <1>2
<1>4. Unlink(p, src, NULL) /\ ~Blocked(p)
  BY <1>1, <1>3 DEF ReceiveAny
<1>5. IInv' /\ SQ!Dequeue(p, src)
  BY <1>2, <1>3, <1>4, UnlinkStep
<1>6. QED
  BY <1>5

\* RECEIVE from src finds it wherever it is: it cannot walk past the end.
LEMMA ReceiveFromStep ==
    ASSUME IInv, NEW p \in Procs, NEW src \in Procs, ReceiveFrom(p, src)
    PROVE  IInv' /\ SQ!Dequeue(p, src)
<1>1. Queue[p] \in Seq(Procs) /\ Chains(Queue)
  BY DEF IInv, Chains
<1>2. PICK n \in 1..Len(Queue[p]) : Queue[p][n] = src
  <2>1. Blocked(src) /\ p_sendto[src] = p
    BY NullAssumption DEF ReceiveFrom, Blocked
  <2>2. QED
    BY <2>1 DEF IInv, Chains, Sending
<1>3. WalkLength(p) = Len(Queue[p]) /\ \A i \in 1..Len(Queue[p]) : Walk(p)[i] = Queue[p][i]
  BY <1>1, WalkOver
<1>4. PICK stop \in 1..(WalkLength(p) + 1) :
          /\ \A i \in 1..(stop - 1) : Walk(p)[i] # src
          /\ stop = WalkLength(p) + 1 \/ Walk(p)[stop] = src
          /\ Unlink(p, src, IF stop = 1 THEN NULL ELSE Walk(p)[stop - 1])
  BY Zenon DEF ReceiveFrom
<1>5. stop \in 1..Len(Queue[p]) /\ Queue[p][stop] = src
  <2>1. ~(n \in 1..(stop - 1))
    BY <1>2, <1>3, <1>4
  <2>2. stop <= n
    BY <1>1, <1>3, <2>1
  <2>3. QED
    BY <1>1, <1>3, <1>4, <2>2
<1>6. stop # 1 => Walk(p)[stop - 1] = Queue[p][stop - 1]
  BY <1>1, <1>3, <1>5
<1>7. ~Blocked(p)
  BY DEF ReceiveFrom
<1>8. PICK prev : prev = IF stop = 1 THEN NULL ELSE Walk(p)[stop - 1]
  OBVIOUS
<1>9. Unlink(p, src, prev)
  BY <1>4, <1>8
<1>10. QED
  BY <1>5, <1>6, <1>7, <1>8, <1>9, UnlinkStep

\* Every step of the lists is a step of the queues.
LEMMA NextInv ==
    ASSUME IInv, [Next]_vars
    PROVE  IInv' /\ [SQ!Next]_Queue
<1>1. CASE Next
  <2>1. PICK p \in Procs :
            \/ ReceiveAny(p)
            \/ \E other \in Procs : append(p, other) \/ ReceiveFrom(p, other)
    BY <1>1 DEF Next
  <2>2. CASE ReceiveAny(p)
    BY <2>2, ReceiveAnyStep DEF SQ!Next
  <2>3. ASSUME NEW other \in Procs, append(p, other)
        PROVE  IInv' /\ [SQ!Next]_Queue
    BY <2>3, AppendStep DEF SQ!Next
  <2>4. ASSUME NEW other \in Procs, ReceiveFrom(p, other)
        PROVE  IInv' /\ [SQ!Next]_Queue
    BY <2>4, ReceiveFromStep DEF SQ!Next
  <2>5. QED
    BY <2>1, <2>2, <2>3, <2>4
<1>2. CASE UNCHANGED vars
  <2>1. Queue' = Queue
    BY <1>2 DEF vars, Queue, WalkLength, Walk
  <2>2. QED
    BY <1>2, <2>1 DEF vars, IInv, Types, Chains, Linked, Distinct, Sending, NoStaleLinks, Blocked
<1>3. QED
  BY <1>1, <1>2

\* In every state the pointers hold queues of different processes, each of which
\* is blocked sending to the one it is queued at, and nothing else is linked.
THEOREM ListsHoldQueues == Spec => []IInv
<1>1. Init => IInv
  BY InitInv
<1>2. IInv /\ [Next]_vars => IInv'
  BY NextInv
<1>3. QED
  BY <1>1, <1>2, PTL DEF Spec

\* A process that waits for nobody has no successor, for any number of processes:
\* msg_receive clears every link of the process it takes out.
THEOREM LinksCleared == Spec => []NoStaleLinks
<1>1. IInv => NoStaleLinks
  BY DEF IInv
<1>2. QED
  BY <1>1, ListsHoldQueues, PTL

\* The linked lists of proc.c implement the queues that module Ipc works with,
\* for any number of processes: msg_send appends at the end, msg_receive takes
\* out the first sender or the one it names and keeps the others in order.
THEOREM ListsAreQueues == Spec => ImplementsQueue
<1>1. Init => SQ!Init
  BY InitInv
<1>2. IInv /\ [Next]_vars => [SQ!Next]_Queue
  BY NextInv
<1>3. IInv /\ [Next]_vars =>
          [SQ!Next]_([d \in Procs |-> [i \in 1..WalkLength(d) |-> Walk(d)[i]]])
  BY <1>2 DEF Queue
<1>4. QED
  BY <1>1, <1>3, ListsHoldQueues, PTL DEF Spec, ImplementsQueue, SQ!Spec
================================================================================
