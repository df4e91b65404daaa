------------------------- MODULE QueuedUsersProofs -------------------------
(***************************************************************************)
(* The sending side of the queues for any clients, lengths and rates: the  *)
(* linked list is the line of WaiterQueue, so what is proved of that line  *)
(* holds of the list, and the fifo is never filled past its free space.    *)
(***************************************************************************)
EXTENDS QueuedUsers, SequenceTheorems, SequenceLemmas

-----------------------------------------------------------------------------
(* The list *)

\* The links lead from head through the clients of q, each once, to tail.
Linked(q, head, tail, links) ==
  /\ \A i, j \in 1..Len(q) : q[i] = q[j] => i = j
  /\ head = IF q = <<>> THEN NoClient ELSE q[1]
  /\ tail = IF q = <<>> THEN NoClient ELSE q[Len(q)]
  /\ \A i \in 1..Len(q) : links[q[i]] = IF i = Len(q) THEN NoClient ELSE q[i + 1]

Members(q) == { q[i] : i \in 1..Len(q) }

ListIInv ==
  /\ line \in Seq(Clients)
  /\ Linked(line, waitingClientsHead, waitingClientsTail, next_)
  /\ next_ \in [Clients -> Clients \cup {NoClient}]
  /\ inQue = Members(line)
  /\ servicedCount \in 0..Len(line)
  /\ currentClient # NoClient =>
       servicedCount < Len(line) /\ currentClient = line[servicedCount + 1]
  /\ dirty \subseteq Clients
  /\ payload \in [Clients -> Payloads]

-----------------------------------------------------------------------------
(* The line of a list *)

\* line, of any head and links.
LineFrom(head, links) ==
  LET follow[k \in 0 .. Cardinality(Clients)] ==
        IF k = 0 THEN head
        ELSE IF follow[k - 1] = NoClient THEN NoClient ELSE links[follow[k - 1]]
      length == Cardinality({ k \in DOMAIN follow : follow[k] # NoClient })
  IN  [k \in 1..length |-> follow[k - 1]]

\* No more different clients than there are.
LEMMA NoMoreThanAll ==
  ASSUME NEW q \in Seq(Clients), \A i, j \in 1..Len(q) : q[i] = q[j] => i = j
  PROVE  Cardinality(Clients) \in Nat /\ Len(q) \in Nat /\ Len(q) <= Cardinality(Clients)
<1>1. IsFiniteSet(Clients) /\ Cardinality(Clients) \in Nat /\ Len(q) \in Nat
  BY ConstantsAssumption, FS_CardinalityType DEF ConstantsAssumption
<1>2. q \in Injection(1..Len(q), Clients)
  BY DEF Injection, IsInjective
<1>3. Cardinality(1..Len(q)) <= Cardinality(Clients)
  BY <1>1, <1>2, FS_Injection
<1>4. Cardinality(1..Len(q)) = Len(q)
  <2>1. 1 \in Int /\ Len(q) \in Int
    BY <1>1
  <2>2. Cardinality(1..Len(q)) = IF 1 > Len(q) THEN 0 ELSE Len(q) - 1 + 1
    BY <2>1, FS_Interval
  <2>3. QED
    BY <1>1, <2>2
<1>5. QED
  BY <1>1, <1>3, <1>4

\* A list that is linked has the line that it links.
LEMMA LinkedIsLine ==
  ASSUME NEW q \in Seq(Clients), NEW head, NEW tail, NEW links, Linked(q, head, tail, links)
  PROVE  LineFrom(head, links) = q
<1> DEFINE N == Cardinality(Clients)
           D == 0..N
           value(f, k) == IF k = 0 THEN head
                          ELSE IF f[k - 1] = NoClient THEN NoClient ELSE links[f[k - 1]]
           follow == CHOOSE f : f = [k \in D |-> value(f, k)]
           g == [k \in D |-> IF k < Len(q) THEN q[k + 1] ELSE NoClient]
           length == Cardinality({ k \in DOMAIN follow : follow[k] # NoClient })
<1>1. N \in Nat /\ Len(q) \in Nat /\ Len(q) <= N /\ NoClient \notin Clients
  BY NoMoreThanAll, ConstantsAssumption DEF Linked, ConstantsAssumption
<1>2. LineFrom(head, links) = [k \in 1..length |-> follow[k - 1]]
  BY DEF LineFrom
<1>3. \A i \in 1..Len(q) : q[i] \in Clients /\ q[i] # NoClient
  BY <1>1
<1>4. ASSUME NEW k \in D PROVE g[k] = value(g, k)
  <2>1. g[k] = IF k < Len(q) THEN q[k + 1] ELSE NoClient
    OBVIOUS
  <2>2. CASE k = 0
    <3>1. head = IF Len(q) = 0 THEN NoClient ELSE q[1]
      BY DEF Linked
    <3>2. QED
      BY <1>1, <2>1, <2>2, <3>1
  <2>3. CASE k # 0
    <3>1. k - 1 \in D /\ k \in Nat /\ k - 1 + 1 = k
      BY <1>1, <2>3
    <3>2. g[k - 1] = IF k - 1 < Len(q) THEN q[k] ELSE NoClient
      <4>1. g[k - 1] = IF k - 1 < Len(q) THEN q[k - 1 + 1] ELSE NoClient
        BY <3>1
      <4>2. QED
        BY <3>1, <4>1
    <3>3. CASE k - 1 < Len(q)
      <4>1. k \in 1..Len(q)
        BY <1>1, <2>3, <3>1, <3>3
      <4>2. g[k - 1] = q[k] /\ q[k] # NoClient
        BY <1>3, <3>2, <3>3, <4>1
      <4>3. links[q[k]] = IF k = Len(q) THEN NoClient ELSE q[k + 1]
        BY <4>1 DEF Linked
      <4>4. k = Len(q) <=> ~(k < Len(q))
        BY <1>1, <4>1
      <4> HIDE DEF g
      <4>5. QED
        BY <2>1, <2>3, <4>2, <4>3, <4>4
    <3>4. CASE ~(k - 1 < Len(q))
      <4>1. ~(k < Len(q))
        BY <1>1, <3>1, <3>4
      <4> HIDE DEF g
      <4>2. QED
        BY <2>1, <2>3, <3>2, <3>4, <4>1
    <3>5. QED
      BY <3>3, <3>4
  <2>4. QED
    BY <2>2, <2>3
<1>5. follow = [k \in D |-> value(follow, k)]
  <2> HIDE DEF value
  <2>1. g = [k \in D |-> value(g, k)]
    BY <1>4
  <2>2. \E f : f = [k \in D |-> value(f, k)]
    BY <2>1
  <2>3. QED
    BY <2>2
<1> HIDE DEF follow, D
<1>6. \A k \in D : follow[k] = value(follow, k)
  <2> HIDE DEF value
  <2> QED
    BY <1>5
<1> DEFINE same == { n \in Nat : n \in D => follow[n] = g[n] }
<1>7. same = Nat
  <2>1. 0 \in same
    <3>1. 0 \in D => follow[0] = head /\ g[0] = head
      <4> HIDE DEF g
      <4> QED
        BY <1>4, <1>6
    <3> HIDE DEF g
    <3>2. QED
      BY <3>1
  <2>2. ASSUME NEW n \in same PROVE n + 1 \in same
    <3>1. n + 1 \in D => n \in D /\ n + 1 # 0 /\ n + 1 - 1 = n
      BY <1>1 DEF D
    <3>2. n + 1 \in D => follow[n + 1] = IF follow[n] = NoClient THEN NoClient ELSE links[follow[n]]
      BY <1>6, <3>1
    <3> HIDE DEF g
    <3>3. n + 1 \in D => g[n + 1] = IF g[n] = NoClient THEN NoClient ELSE links[g[n]]
      BY <1>4, <3>1
    <3>4. n \in Nat /\ n + 1 \in Nat /\ (n \in D => follow[n] = g[n])
      BY <2>2
    <3>5. n + 1 \in D => follow[n + 1] = g[n + 1]
      BY <3>1, <3>2, <3>3, <3>4
    <3>6. QED
      BY <3>4, <3>5
  <2> HIDE DEF same
  <2>3. same \in SUBSET Nat
    BY DEF same
  <2>4. QED
    BY <2>1, <2>2, <2>3, EveryNumber
<1>8. ASSUME NEW k \in D
      PROVE  follow[k] = IF k < Len(q) THEN q[k + 1] ELSE NoClient
  <2>1. g[k] = IF k < Len(q) THEN q[k + 1] ELSE NoClient
    OBVIOUS
  <2>2. k \in Nat
    BY DEF D
  <2> HIDE DEF g
  <2>3. follow[k] = g[k]
    BY <1>7, <2>2
  <2>4. QED
    BY <2>1, <2>3
<1>9. length = Len(q)
  <2>1. DOMAIN follow = D
    <3> HIDE DEF value
    <3> QED
      BY <1>5
  <2>2. ASSUME NEW k \in D PROVE follow[k] # NoClient <=> k \in 0..(Len(q) - 1)
    <3>1. k \in Nat
      BY DEF D
    <3>2. CASE k < Len(q)
      <4>1. k + 1 \in 1..Len(q) /\ k \in 0..(Len(q) - 1)
        BY <1>1, <3>1, <3>2
      <4>2. QED
        BY <1>3, <1>8, <3>2, <4>1
    <3>3. CASE ~(k < Len(q))
      <4>1. k \notin 0..(Len(q) - 1)
        BY <1>1, <3>1, <3>3
      <4>2. QED
        BY <1>8, <3>3, <4>1
    <3>4. QED
      BY <3>2, <3>3
  <2>3. 0..(Len(q) - 1) \subseteq D
    BY <1>1 DEF D
  <2>4. { k \in DOMAIN follow : follow[k] # NoClient } = 0..(Len(q) - 1)
    BY <2>1, <2>2, <2>3
  <2>5. Cardinality(0..(Len(q) - 1)) = Len(q)
    <3>1. 0 \in Int /\ Len(q) - 1 \in Int
      BY <1>1
    <3>2. Cardinality(0..(Len(q) - 1)) = IF 0 > Len(q) - 1 THEN 0 ELSE Len(q) - 1 - 0 + 1
      BY <3>1, FS_Interval
    <3>3. QED
      BY <1>1, <3>2
  <2>6. QED
    BY <2>4, <2>5
<1> HIDE DEF length
<1>10. ASSUME NEW i \in 1..Len(q) PROVE follow[i - 1] = q[i]
  <2>1. i - 1 \in D /\ i - 1 < Len(q) /\ i - 1 + 1 = i
    BY <1>1 DEF D
  <2>2. QED
    BY <1>8, <2>1
<1>11. [k \in 1..Len(q) |-> follow[k - 1]] = q
  BY <1>10
<1>12. QED
  BY <1>2, <1>9, <1>11

-----------------------------------------------------------------------------
(* The fifo *)

\* The values of the other variables.
NumbersIInv ==
  /\ pc \in {"idle", "service", "remove"} /\ sentData \in BOOLEAN
  /\ cumulativesampleFrames \in Nat /\ sfAccumulator \in Nat /\ sampleFramesPerClient \in Nat \ {0}
  /\ oversize \in Nat /\ multipartChunkIndex \in Nat /\ multipartReadIndex \in Nat
  /\ count \in Nat /\ size \in Nat /\ unsent \in Nat /\ ready \in Nat
  /\ freeSpace \in Int

\* While clients are serviced the call knows of no more room than there is, or
\* of too little to send anything; the latter once a message goes in chunks.
RoomIInv ==
  /\ unsent + ready <= TotalSpace
  /\ pc = "service" => /\ freeSpace <= TotalSpace
                       /\ freeSpace <= QueFreeSpace \/ freeSpace < SafetyZone
                       /\ multiPartMode => freeSpace < SafetyZone
  /\ pc # "idle" /\ ~multiPartMode /\ sentData => unsent + ready + SafetyZone <= TotalSpace
  /\ multiPartMode => multipartReadIndex < oversize
  /\ ~multiPartMode => multipartReadIndex = 0

IInv == ListIInv /\ NumbersIInv /\ RoomIInv

-----------------------------------------------------------------------------
(* The list's operations *)

\* The links after c was put behind tail.
Relinked(links, c, tail, links2) ==
  links2 = [d \in Clients |-> IF d = c THEN NoClient ELSE IF d = tail THEN c ELSE links[d]]

\* The line q after c joined: it is the last of it.
Joined(q, head, tail, c, links2) ==
  /\ tail = NoClient <=> q = <<>>
  /\ links2 \in [Clients -> Clients \cup {NoClient}]
  /\ \E q2 \in Seq(Clients) :
       /\ q2 = Append(q, c)
       /\ Len(q2) = Len(q) + 1 /\ q2[Len(q) + 1] = c /\ \A i \in 1..Len(q) : q2[i] = q[i]
       /\ Members(q2) = Members(q) \cup {c}
       /\ Linked(q2, IF tail = NoClient THEN c ELSE head, c, links2)

\* A client that joins is the last of the line.
LEMMA JoinsAtTheEnd ==
  ASSUME NEW q \in Seq(Clients), NEW head, NEW tail, NEW links \in [Clients -> Clients \cup {NoClient}],
         Linked(q, head, tail, links), NEW c \in Clients, c \notin Members(q),
         NEW links2, Relinked(links, c, tail, links2)
  PROVE  Joined(q, head, tail, c, links2)
<1>1. NoClient \notin Clients
  BY ConstantsAssumption DEF ConstantsAssumption
<1>2. Len(q) \in Nat /\ (q = <<>> <=> Len(q) = 0) /\ \A i \in 1..Len(q) : q[i] \in Clients
  OBVIOUS
<1>3. tail = NoClient <=> q = <<>>
  BY <1>1, <1>2 DEF Linked
<1>4. links2 \in [Clients -> Clients \cup {NoClient}]
  BY DEF Relinked
<1>5. PICK q2 : q2 = Append(q, c)
  OBVIOUS
<1>6. /\ q2 \in Seq(Clients) /\ Len(q2) = Len(q) + 1 /\ q2[Len(q) + 1] = c
      /\ \A i \in 1..Len(q) : q2[i] = q[i]
  BY <1>2, <1>5
<1>7. \A i \in 1..Len(q2) : i \in 1..Len(q) \/ i = Len(q) + 1
  BY <1>2, <1>6
<1>8. \A i \in 1..Len(q) : i \in 1..Len(q2) /\ q[i] # c
  BY <1>2, <1>6 DEF Members
<1>9. Members(q2) = Members(q) \cup {c}
  <2>1. Len(q) + 1 \in 1..Len(q2)
    BY <1>2, <1>6
  <2>2. \A d \in Members(q2) : d \in Members(q) \cup {c}
    BY <1>6, <1>7 DEF Members
  <2>3. \A d \in Members(q) : d \in Members(q2)
    BY <1>6, <1>8 DEF Members
  <2>4. c \in Members(q2)
    BY <1>6, <2>1 DEF Members
  <2>5. QED
    BY <2>2, <2>3, <2>4
<1>10. ASSUME NEW i \in 1..Len(q2), NEW j \in 1..Len(q2), q2[i] = q2[j] PROVE i = j
  BY <1>6, <1>7, <1>8, <1>10 DEF Linked
<1>11. ASSUME NEW i \in 1..Len(q2)
       PROVE  links2[q2[i]] = IF i = Len(q2) THEN NoClient ELSE q2[i + 1]
  <2>1. CASE i = Len(q) + 1
    BY <1>6, <2>1 DEF Relinked
  <2>2. CASE i \in 1..Len(q)
    <3>1. q2[i] = q[i] /\ q[i] \in Clients /\ q[i] # c /\ i # Len(q2)
      BY <1>2, <1>6, <1>8, <2>2
    <3>2. links2[q[i]] = IF q[i] = tail THEN c ELSE links[q[i]]
      BY <3>1 DEF Relinked
    <3>3. CASE i = Len(q)
      <4>1. tail = q[i]
        BY <1>2, <2>2, <3>3 DEF Linked
      <4>2. QED
        BY <1>6, <3>1, <3>2, <3>3, <4>1
    <3>4. CASE i # Len(q)
      <4>1. i + 1 \in 1..Len(q) /\ Len(q) \in 1..Len(q)
        BY <1>2, <2>2, <3>4
      <4>2. tail = q[Len(q)] /\ q[Len(q)] # q[i]
        BY <1>2, <2>2, <3>4, <4>1 DEF Linked
      <4>3. links[q[i]] = q[i + 1]
        BY <2>2, <3>4 DEF Linked
      <4>4. QED
        BY <1>6, <3>1, <3>2, <4>1, <4>2, <4>3
    <3>5. QED
      BY <3>3, <3>4
  <2>3. QED
    BY <1>7, <2>1, <2>2
<1>12. q2 # <<>> /\ q2[Len(q2)] = c
  BY <1>2, <1>6
<1>13. q2[1] = IF tail = NoClient THEN c ELSE head
  <2>1. CASE q = <<>>
    BY <1>2, <1>3, <1>6, <2>1
  <2>2. CASE q # <<>>
    <3>1. 1 \in 1..Len(q)
      BY <1>2, <2>2
    <3>2. QED
      BY <1>3, <1>6, <2>2, <3>1 DEF Linked
  <2>3. QED
    BY <2>1, <2>2
<1>14. Linked(q2, IF tail = NoClient THEN c ELSE head, c, links2)
  BY <1>10, <1>11, <1>12, <1>13 DEF Linked
<1>15. QED
  BY <1>3, <1>4, <1>5, <1>6, <1>9, <1>14 DEF Joined

\* The first client leaves the line to those behind it.
LEMMA LeavesTheFront ==
  ASSUME NEW q \in Seq(Clients), q # <<>>, NEW head, NEW tail, NEW links, Linked(q, head, tail, links)
  PROVE  /\ head = q[1] /\ head = Head(q) /\ head \in Clients
         /\ \E rest \in Seq(Clients) :
              /\ rest = Tail(q)
              /\ Len(rest) = Len(q) - 1 /\ \A i \in 1..Len(rest) : rest[i] = q[i + 1]
              /\ head \notin Members(rest) /\ Members(rest) = Members(q) \ {head}
              /\ Linked(rest, links[head], IF links[head] = NoClient THEN NoClient ELSE tail, links)
<1>1. NoClient \notin Clients
  BY ConstantsAssumption DEF ConstantsAssumption
<1>2. /\ Len(q) \in Nat \ {0} /\ (\A i \in 1..Len(q) : q[i] \in Clients)
      /\ 1 \in 1..Len(q) /\ Len(q) \in 1..Len(q)
  OBVIOUS
<1>3. head = q[1] /\ head = Head(q) /\ head \in Clients /\ tail = q[Len(q)]
  BY <1>2 DEF Linked
<1>4. PICK rest : rest = Tail(q)
  OBVIOUS
<1>5. /\ rest \in Seq(Clients) /\ Len(rest) = Len(q) - 1
      /\ \A i \in 1..Len(rest) : rest[i] = q[i + 1]
  BY <1>2, <1>4
<1>6. \A i \in 1..Len(rest) : i + 1 \in 1..Len(q) /\ i + 1 # 1 /\ rest[i] = q[i + 1]
  BY <1>2, <1>5
<1>7. \A i \in 1..Len(q) : i # 1 => i - 1 \in 1..Len(rest) /\ i - 1 + 1 = i
  BY <1>2, <1>5
<1>8. \A i \in 1..Len(rest) : rest[i] # head
  BY <1>2, <1>3, <1>6 DEF Linked
<1>9. Members(rest) = Members(q) \ {head}
  <2>1. \A d \in Members(rest) : d \in Members(q) /\ d # head
    BY <1>6, <1>8 DEF Members
  <2>2. ASSUME NEW d \in Members(q), d # head PROVE d \in Members(rest)
    <3>1. PICK i \in 1..Len(q) : d = q[i]
      BY DEF Members
    <3>2. i # 1
      BY <1>3, <2>2, <3>1
    <3>3. i - 1 \in 1..Len(rest) /\ rest[i - 1] = d
      BY <1>6, <1>7, <3>1, <3>2
    <3>4. QED
      BY <3>3 DEF Members
  <2>3. QED
    BY <2>1, <2>2
<1>10. ASSUME NEW i \in 1..Len(rest), NEW j \in 1..Len(rest), rest[i] = rest[j] PROVE i = j
  <2>1. i + 1 = j + 1
    BY <1>6, <1>10 DEF Linked
  <2>2. QED
    BY <2>1
<1>11. ASSUME NEW i \in 1..Len(rest)
       PROVE  links[rest[i]] = IF i = Len(rest) THEN NoClient ELSE rest[i + 1]
  <2>1. links[q[i + 1]] = IF i + 1 = Len(q) THEN NoClient ELSE q[i + 1 + 1]
    BY <1>6 DEF Linked
  <2>2. i + 1 = Len(q) <=> i = Len(rest)
    BY <1>2, <1>5
  <2>3. i # Len(rest) => rest[i + 1] = q[i + 1 + 1]
    BY <1>2, <1>5
  <2>4. QED
    BY <1>6, <2>1, <2>2, <2>3
<1>12. links[head] = IF Len(q) = 1 THEN NoClient ELSE q[2]
  <2>1. links[q[1]] = IF 1 = Len(q) THEN NoClient ELSE q[1 + 1]
    BY <1>2 DEF Linked
  <2>2. QED
    BY <1>3, <2>1
<1>13. CASE Len(q) = 1
  <2>1. rest = <<>> /\ links[head] = NoClient
    BY <1>5, <1>12, <1>13
  <2>2. QED
    BY <1>3, <1>4, <1>5, <1>8, <1>9, <1>10, <1>11, <2>1 DEF Linked, Members
<1>14. CASE Len(q) # 1
  <2>1. 1 \in 1..Len(rest) /\ Len(rest) \in 1..Len(rest) /\ 2 \in 1..Len(q) /\ Len(rest) + 1 = Len(q)
    BY <1>2, <1>5, <1>14
  <2>2. rest # <<>> /\ rest[1] = q[2] /\ rest[Len(rest)] = tail
    BY <1>3, <1>5, <2>1
  <2>3. links[head] = rest[1] /\ links[head] # NoClient
    BY <1>1, <1>2, <1>12, <1>14, <2>1, <2>2
  <2>4. Linked(rest, links[head], IF links[head] = NoClient THEN NoClient ELSE tail, links)
    BY <1>10, <1>11, <2>2, <2>3 DEF Linked
  <2>5. QED
    BY <1>3, <1>4, <1>5, <1>8, <1>9, <2>4 DEF Members
<1>15. QED
  BY <1>13, <1>14

-----------------------------------------------------------------------------
(* The steps on the list *)

\* What line is after a step, if that list is linked.
LEMMA LineAfter ==
  ASSUME NEW q \in Seq(Clients), NEW head, NEW tail, NEW links, Linked(q, head, tail, links),
         waitingClientsHead' = head, waitingClientsTail' = tail, next_' = links
  PROVE  /\ line' = q
         /\ Linked(line, waitingClientsHead, waitingClientsTail, next_)'
<1>1. LineFrom(head, links) = q
  BY LinkedIsLine
<1>2. line' = LineFrom(waitingClientsHead', next_')
  BY DEF line, LineFrom
<1>3. line' = q
  BY <1>1, <1>2
<1>4. QED
  BY <1>3 DEF Linked

\* The list at a step that does not touch it.
LEMMA ListStays ==
  ASSUME ListIInv, UNCHANGED listVars, payload' \in [Clients -> Payloads]
  PROVE  ListIInv' /\ line' = line
<1>1. UNCHANGED <<waitingClientsHead, waitingClientsTail, currentClient, next_, inQue, dirty, servicedCount>>
  BY DEF listVars
<1>2. line' = line
  BY <1>1 DEF line
<1>3. QED
  BY <1>1, <1>2 DEF ListIInv, Linked, Members

\* A client asks to be serviced: it joins at the end, if it is not in line.
LEMMA AddWaiterKeepsList ==
  ASSUME ListIInv, NEW c \in Clients, NEW n \in Payloads, AddWaiter(c, n)
  PROVE  /\ ListIInv'
         /\ line' = IF c \in Members(line) THEN line ELSE Append(line, c)
<1>1. /\ dirty' = dirty \cup {c} /\ servicedCount' = servicedCount
      /\ payload' \in [Clients -> Payloads] /\ dirty' \subseteq Clients
  BY DEF AddWaiter, ListIInv
<1>2. CASE c \in inQue
  <2>1. /\ waitingClientsHead' = waitingClientsHead /\ waitingClientsTail' = waitingClientsTail
        /\ inQue' = inQue /\ currentClient' = currentClient /\ next_' = next_
    BY <1>2 DEF AddWaiter, Enqueue
  <2>2. line' = line
    BY <2>1 DEF line
  <2>3. c \in Members(line)
    BY <1>2 DEF ListIInv
  <2>4. QED
    BY <1>1, <2>1, <2>2, <2>3 DEF ListIInv, Linked, Members
<1>3. CASE c \notin inQue
  <2>1. PICK q, head, tail, links, links2 :
          /\ q = line /\ head = waitingClientsHead /\ tail = waitingClientsTail /\ links = next_
          /\ Relinked(links, c, tail, links2)
    BY DEF Relinked
  <2>2. /\ q \in Seq(Clients) /\ links \in [Clients -> Clients \cup {NoClient}]
        /\ Linked(q, head, tail, links) /\ c \notin Members(q) /\ inQue = Members(q)
    BY <1>3, <2>1 DEF ListIInv
  <2>3. /\ waitingClientsHead' = IF tail = NoClient THEN c ELSE head
        /\ currentClient' = IF tail = NoClient THEN c ELSE currentClient
        /\ next_' = links2 /\ waitingClientsTail' = c /\ inQue' = inQue \cup {c}
    BY <1>3, <2>1 DEF AddWaiter, Enqueue, Relinked
  <2>4. Joined(q, head, tail, c, links2)
    BY <2>1, <2>2, JoinsAtTheEnd
  <2>5. PICK q2 \in Seq(Clients) :
             /\ q2 = Append(q, c)
             /\ Len(q2) = Len(q) + 1 /\ q2[Len(q) + 1] = c /\ \A i \in 1..Len(q) : q2[i] = q[i]
             /\ Members(q2) = Members(q) \cup {c}
             /\ Linked(q2, IF tail = NoClient THEN c ELSE head, c, links2)
    BY <2>4 DEF Joined
  <2>6. line' = q2 /\ Linked(line, waitingClientsHead, waitingClientsTail, next_)'
    BY <2>3, <2>5, LineAfter
  <2>7. servicedCount \in 0..Len(q) /\ Len(q) \in Nat
    BY <2>1, <2>2 DEF ListIInv
  <2>8. servicedCount \in 0..Len(q2)
    BY <2>5, <2>7
  <2>9. ASSUME currentClient' # NoClient
        PROVE  servicedCount < Len(q2) /\ currentClient' = q2[servicedCount + 1]
    <3>1. CASE tail = NoClient
      <4>1. Len(q) = 0 /\ servicedCount = 0
        BY <2>4, <2>7, <3>1 DEF Joined
      <4>2. QED
        BY <2>3, <2>5, <3>1, <4>1
    <3>2. CASE tail # NoClient
      <4>1. servicedCount < Len(q) /\ currentClient' = q[servicedCount + 1]
        BY <2>1, <2>3, <2>9, <3>2 DEF ListIInv
      <4>2. servicedCount + 1 \in 1..Len(q) /\ servicedCount < Len(q2)
        BY <2>5, <2>7, <4>1
      <4>3. QED
        BY <2>5, <4>1, <4>2
    <3>3. QED
      BY <3>1, <3>2
  <2>10. inQue' = Members(line)'
    BY <2>2, <2>3, <2>5, <2>6 DEF Members
  <2>11. ListIInv'
    BY <1>1, <2>3, <2>4, <2>5, <2>6, <2>8, <2>9, <2>10 DEF ListIInv, Joined
  <2>12. QED
    BY <2>1, <2>2, <2>5, <2>6, <2>11
<1>4. QED
  BY <1>2, <1>3

\* A serviced client leaves, or joins again at the end if it changed.
LEMMA RemoveServicedKeepsList ==
  ASSUME ListIInv, RemoveServiced
  PROVE  /\ ListIInv'
         /\ line # <<>>
         /\ line' = IF Head(line) \in dirty THEN Append(Tail(line), Head(line)) ELSE Tail(line)
<1>1. PICK q, head, tail, links, w :
        /\ q = line /\ head = waitingClientsHead /\ tail = waitingClientsTail /\ links = next_
        /\ w = currentClient
  OBVIOUS
<1>2. PICK s : s = servicedCount
  OBVIOUS
<1>3. /\ q \in Seq(Clients) /\ links \in [Clients -> Clients \cup {NoClient}]
      /\ Linked(q, head, tail, links) /\ inQue = Members(q) /\ Len(q) \in Nat
      /\ s \in 1..Len(q) /\ s \in Nat /\ q # <<>> /\ servicedCount' = s - 1
  BY <1>1, <1>2 DEF ListIInv, RemoveServiced
<1>4. /\ head = q[1] /\ head = Head(q) /\ head \in Clients
      /\ \E rest \in Seq(Clients) :
           /\ rest = Tail(q)
           /\ Len(rest) = Len(q) - 1 /\ \A i \in 1..Len(rest) : rest[i] = q[i + 1]
           /\ head \notin Members(rest) /\ Members(rest) = Members(q) \ {head}
           /\ Linked(rest, links[head], IF links[head] = NoClient THEN NoClient ELSE tail, links)
  BY <1>3, LeavesTheFront
<1>5. PICK rest \in Seq(Clients) :
           /\ rest = Tail(q)
           /\ Len(rest) = Len(q) - 1 /\ \A i \in 1..Len(rest) : rest[i] = q[i + 1]
           /\ head \notin Members(rest) /\ Members(rest) = Members(q) \ {head}
           /\ Linked(rest, links[head], IF links[head] = NoClient THEN NoClient ELSE tail, links)
  BY <1>4
<1>6. PICK head2, tail2 : head2 = links[head] /\ tail2 = IF head2 = NoClient THEN NoClient ELSE tail
  OBVIOUS
<1>7. Linked(rest, head2, tail2, links) /\ Len(rest) \in Nat
  BY <1>5, <1>6
<1>8. w # NoClient => s \in 1..Len(rest) /\ w = rest[s]
  <2>1. w # NoClient => s < Len(q) /\ w = q[s + 1]
    BY <1>1, <1>2 DEF ListIInv
  <2>2. QED
    BY <1>3, <1>5, <2>1
<1>9. s - 1 \in 0..Len(rest) /\ s - 1 + 1 = s
  BY <1>3, <1>5
<1>10. dirty' \subseteq Clients /\ payload' \in [Clients -> Payloads]
  BY DEF ListIInv, RemoveServiced
<1>11. CASE head \in dirty
  <2>1. Enqueue(head, head2, tail2, inQue \ {head})
    BY <1>1, <1>6, <1>11 DEF RemoveServiced, tailAfter
  <2>2. PICK links2 : Relinked(links, head, tail2, links2)
    BY DEF Relinked
  <2>3. /\ waitingClientsHead' = IF tail2 = NoClient THEN head ELSE head2
        /\ currentClient' = IF tail2 = NoClient THEN head ELSE w
        /\ next_' = links2 /\ waitingClientsTail' = head /\ inQue' = inQue
    <3>1. head \in inQue
      BY <1>3, <1>4 DEF Members
    <3>2. QED
      BY <1>1, <2>1, <2>2, <3>1 DEF Enqueue, Relinked
  <2>4. Joined(rest, head2, tail2, head, links2)
    BY <1>3, <1>4, <1>5, <1>7, <2>2, JoinsAtTheEnd
  <2>5. PICK q2 \in Seq(Clients) :
             /\ q2 = Append(rest, head)
             /\ Len(q2) = Len(rest) + 1 /\ q2[Len(rest) + 1] = head
             /\ \A i \in 1..Len(rest) : q2[i] = rest[i]
             /\ Members(q2) = Members(rest) \cup {head}
             /\ Linked(q2, IF tail2 = NoClient THEN head ELSE head2, head, links2)
    BY <2>4 DEF Joined
  <2>6. line' = q2 /\ Linked(line, waitingClientsHead, waitingClientsTail, next_)'
    BY <2>3, <2>5, LineAfter
  <2>7. s - 1 \in 0..Len(q2)
    BY <1>7, <1>9, <2>5
  <2>8. ASSUME currentClient' # NoClient
        PROVE  s - 1 < Len(q2) /\ currentClient' = q2[s - 1 + 1]
    <3>1. CASE tail2 = NoClient
      <4>1. Len(rest) = 0
        BY <2>4, <3>1 DEF Joined
      <4>2. s = 1
        BY <1>3, <1>5, <4>1
      <4>3. QED
        BY <2>3, <2>5, <3>1, <4>1, <4>2
    <3>2. CASE tail2 # NoClient
      <4>1. s \in 1..Len(rest) /\ currentClient' = rest[s]
        BY <1>8, <2>3, <2>8, <3>2
      <4>2. s - 1 < Len(q2)
        BY <1>7, <2>5, <4>1
      <4>3. QED
        BY <1>9, <2>5, <4>1, <4>2
    <3>3. QED
      BY <3>1, <3>2
  <2>9. inQue' = Members(line)'
    <3>1. head \in Members(q)
      BY <1>3, <1>4 DEF Members
    <3>2. Members(q2) = Members(q)
      BY <1>5, <2>5, <3>1
    <3>3. QED
      BY <1>3, <2>3, <2>6, <3>2 DEF Members
  <2>10. ListIInv'
    BY <1>3, <1>10, <2>3, <2>4, <2>5, <2>6, <2>7, <2>8, <2>9 DEF ListIInv, Joined
  <2>11. QED
    BY <1>1, <1>3, <1>4, <1>5, <1>11, <2>5, <2>6, <2>10
<1>12. CASE head \notin dirty
  <2>1. /\ waitingClientsHead' = head2 /\ waitingClientsTail' = tail2
        /\ inQue' = inQue \ {head} /\ currentClient' = w /\ next_' = links
    BY <1>1, <1>6, <1>12 DEF RemoveServiced, tailAfter
  <2>2. line' = rest /\ Linked(line, waitingClientsHead, waitingClientsTail, next_)'
    BY <1>7, <2>1, LineAfter
  <2>3. currentClient' # NoClient => s - 1 < Len(rest) /\ currentClient' = rest[s - 1 + 1]
    BY <1>7, <1>8, <1>9, <2>1
  <2>4. inQue' = Members(line)'
    BY <1>3, <1>5, <2>1, <2>2 DEF Members
  <2>5. ListIInv'
    BY <1>3, <1>9, <1>10, <2>1, <2>2, <2>3, <2>4 DEF ListIInv
  <2>6. QED
    BY <1>1, <1>3, <1>4, <1>5, <1>12, <2>2, <2>5
<1>13. QED
  BY <1>11, <1>12

\* The current client is serviced, whichever way its message goes.
LEMMA AdvanceKeepsList ==
  ASSUME ListIInv, mayService, Advance
  PROVE  /\ ListIInv' /\ line' = line
         /\ servicedCount < Len(line) /\ servicedCount' = servicedCount + 1
         /\ dirty' = dirty \ {line[servicedCount + 1]}
<1>1. /\ waitingClientsHead' = waitingClientsHead /\ waitingClientsTail' = waitingClientsTail
      /\ next_' = next_ /\ inQue' = inQue /\ payload' = payload
      /\ servicedCount' = servicedCount + 1
      /\ dirty' = dirty \ {currentClient} /\ currentClient' = next_[currentClient]
      /\ currentClient # NoClient
  BY DEF mayService, Advance
<1>2. line' = line
  BY <1>1 DEF line
<1>3. PICK q, s : q = line /\ s = servicedCount
  OBVIOUS
<1>4. q \in Seq(Clients) /\ Len(q) \in Nat /\ s \in 0..Len(q) /\ s < Len(q) /\ currentClient = q[s + 1]
  BY <1>1, <1>3 DEF ListIInv
<1>5. s + 1 \in 0..Len(q) /\ s + 1 \in 1..Len(q)
  BY <1>4
<1>6. next_[q[s + 1]] = IF s + 1 = Len(q) THEN NoClient ELSE q[s + 1 + 1]
  BY <1>3, <1>5 DEF ListIInv, Linked
<1>7. currentClient' # NoClient => s + 1 < Len(q) /\ currentClient' = q[s + 1 + 1]
  BY <1>1, <1>4, <1>5, <1>6
<1>8. ListIInv'
  BY <1>1, <1>2, <1>3, <1>5, <1>7 DEF ListIInv, Linked, Members
<1>9. QED
  BY <1>1, <1>2, <1>3, <1>4, <1>8

\* The GUI frame ends, and the next one starts with the first of the line, or
\* goes on with the first that was not serviced.
LEMMA EndCycleKeepsList ==
  ASSUME ListIInv, EndCycle
  PROVE  ListIInv' /\ line' = line
<1>1. /\ waitingClientsHead' = waitingClientsHead /\ waitingClientsTail' = waitingClientsTail
      /\ next_' = next_ /\ inQue' = inQue /\ payload' = payload /\ dirty' = dirty
      /\ servicedCount' = servicedCount /\ servicedCount = 0
      /\ currentClient' = IF currentClient = NoClient THEN waitingClientsHead ELSE currentClient
  BY DEF EndCycle, resumeAt
<1>2. line' = line
  BY <1>1 DEF line
<1>3. PICK q : q = line
  OBVIOUS
<1>4. q \in Seq(Clients) /\ Len(q) \in Nat
  BY <1>3 DEF ListIInv
<1>5. waitingClientsHead # NoClient => 0 < Len(q) /\ waitingClientsHead = q[0 + 1]
  BY <1>3, <1>4 DEF ListIInv, Linked
<1>6. currentClient # NoClient => 0 < Len(q) /\ currentClient = q[0 + 1]
  BY <1>1, <1>3 DEF ListIInv
<1>7. ListIInv'
  BY <1>1, <1>2, <1>3, <1>5, <1>6 DEF ListIInv, Linked, Members
<1>8. QED
  BY <1>2, <1>7

\* The clients are deleted.
LEMMA ResetKeepsList ==
  ASSUME ListIInv, Reset
  PROVE  ListIInv' /\ line' = <<>>
<1>1. PICK q, links : q = <<>> /\ links = [c \in Clients |-> NoClient]
  OBVIOUS
<1>2. q \in Seq(Clients) /\ Len(q) = 0 /\ Linked(q, NoClient, NoClient, links)
  BY <1>1 DEF Linked
<1>3. line' = q /\ Linked(line, waitingClientsHead, waitingClientsTail, next_)'
  BY <1>1, <1>2, LineAfter DEF Reset
<1>4. next_' \in [Clients -> Clients \cup {NoClient}] /\ inQue' = {} /\ servicedCount' = 0
      /\ currentClient' = NoClient /\ dirty' = {} /\ payload' \in [Clients -> Payloads]
  BY DEF Reset, ListIInv
<1>5. inQue' = Members(line)'
  BY <1>2, <1>3, <1>4 DEF Members
<1>6. servicedCount' \in 0..Len(q)
  BY <1>2, <1>4
<1>7. QED
  BY <1>1, <1>2, <1>3, <1>4, <1>5, <1>6 DEF ListIInv

-----------------------------------------------------------------------------
(* The steps on the fifo *)

\* What the assumption says of the lengths.
LEMMA LengthsAre ==
  /\ TotalSpace \in Nat \ {0} /\ HeaderLength \in Nat \ {0} /\ MultipartPayload \in Nat \ {0}
  /\ SafetyZone \in Nat \ {0} /\ MultipartSafetyZone \in Nat \ {0}
  /\ SampleFramesPerCycle \in Nat \ {0} /\ FirstFramesPerClient \in Nat \ {0}
  /\ FewestClients \in Nat \ {0}
  /\ Payloads \subseteq Nat /\ SampleFrames \subseteq Nat \ {0}
  /\ HeaderLength + MultipartPayload <= SafetyZone /\ HeaderLength <= MultipartSafetyZone
BY ConstantsAssumption DEF ConstantsAssumption

\* Quotients and remainders of natural numbers are such.
LEMMA Divided ==
  ASSUME NEW a \in Nat, NEW d \in Nat \ {0}
  PROVE  a \div d \in Nat /\ a % d \in Nat
OBVIOUS

\* The length of the current client's message.
LEMMA MessageLength ==
  ASSUME ListIInv, currentClient # NoClient
  PROVE  totalMessageLength \in Nat /\ totalMessageLength >= HeaderLength
<1>1. currentClient \in Clients
  <2>1. servicedCount + 1 \in 1..Len(line) /\ line \in Seq(Clients) /\ currentClient = line[servicedCount + 1]
    BY DEF ListIInv
  <2>2. QED
    BY <2>1
<1>2. payload[currentClient] \in Nat
  BY <1>1, LengthsAre DEF ListIInv
<1>3. QED
  BY <1>2, LengthsAre DEF totalMessageLength

\* A call begins: what it knows of the room is right.
LEMMA BeginKeepsRoom ==
  ASSUME NumbersIInv, RoomIInv, NEW f \in SampleFrames, Begin(f)
  PROVE  NumbersIInv' /\ RoomIInv'
<1>1. f \in Nat /\ sfAccumulator + f \in Nat /\ cumulativesampleFrames + f \in Nat
  BY LengthsAre DEF NumbersIInv
<1>2. (sfAccumulator + f) \div sampleFramesPerClient \in Nat
      /\ (sfAccumulator + f) % sampleFramesPerClient \in Nat
  BY <1>1, Divided DEF NumbersIInv
<1>3. freeSpace' = TotalSpace - (unsent + ready) /\ freeSpace' \in Int /\ freeSpace' <= TotalSpace
  BY LengthsAre DEF Begin, QueFreeSpace, NumbersIInv
<1>4. NumbersIInv'
  BY <1>1, <1>2, <1>3 DEF Begin, multipartVars, queVars, NumbersIInv
<1>5. RoomIInv'
  BY <1>3 DEF Begin, multipartVars, queVars, multiPartMode, QueFreeSpace, RoomIInv
<1>6. QED
  BY <1>4, <1>5

\* A chunk of a big message fits, with its header.
LEMMA MultiPart_sendKeepsRoom ==
  ASSUME NumbersIInv, RoomIInv, MultiPart_send
  PROVE  NumbersIInv' /\ RoomIInv'
<1>1. PICK free, over, read, n : /\ free = QueFreeSpace /\ over = oversize /\ read = multipartReadIndex
                                 /\ n = chunkSize
  OBVIOUS
<1>2. /\ free \in Int /\ over \in Nat /\ read \in Nat /\ read < over
      /\ free = TotalSpace - (unsent + ready) /\ free > 2 * MultipartSafetyZone
      /\ unsent \in Nat /\ ready \in Nat
  BY <1>1, LengthsAre DEF MultiPart_send, QueFreeSpace, NumbersIInv, RoomIInv
<1>3. n \in Nat /\ n > 0 /\ n <= free - MultipartSafetyZone
  BY <1>1, <1>2, LengthsAre DEF chunkSize, MinOf
<1>4. unsent' = unsent + (HeaderLength + n) /\ ready' = ready
  BY <1>1 DEF MultiPart_send, Push
<1>5. unsent' \in Nat /\ ready' \in Nat /\ unsent' + ready' <= TotalSpace
  BY <1>2, <1>3, <1>4, LengthsAre
<1>6. CASE read + n >= over
  <2>1. multipartReadIndex' = 0 /\ multipartChunkIndex' = 0 /\ oversize' = 0
    BY <1>1, <1>6 DEF MultiPart_send
  <2>2. ~multiPartMode'
    BY <2>1 DEF multiPartMode
  <2>3. QED
    BY <1>5, <2>1, <2>2
       DEF MultiPart_send, loadVars, localVars, NumbersIInv, RoomIInv
<1>7. CASE ~(read + n >= over)
  <2>1. multipartReadIndex' = read + n /\ multipartChunkIndex' = multipartChunkIndex + 1
        /\ oversize' = over
    BY <1>1, <1>7 DEF MultiPart_send
  <2>2. read + n \in Nat /\ read + n < over /\ multipartChunkIndex + 1 \in Nat
        /\ multipartChunkIndex + 1 > 0
    BY <1>2, <1>3, <1>7 DEF NumbersIInv
  <2>3. multiPartMode'
    BY <2>1, <2>2 DEF multiPartMode
  <2>4. QED
    BY <1>2, <1>5, <2>1, <2>2, <2>3
       DEF MultiPart_send, loadVars, localVars, NumbersIInv, RoomIInv
<1>8. QED
  BY <1>6, <1>7

\* A big message is started: there is room for its start, and no client is
\* serviced after it.
LEMMA StartKeepsRoom ==
  ASSUME ListIInv, NumbersIInv, RoomIInv, startMultiPartSend
  PROVE  NumbersIInv' /\ RoomIInv' /\ ~multiPartMode
<1>1. PICK n, free : n = totalMessageLength /\ free = freeSpace
  OBVIOUS
<1>2. /\ n \in Nat /\ n >= HeaderLength /\ n + SafetyZone > TotalSpace
      /\ free \in Int /\ SafetyZone < free /\ count \in Nat /\ count > 0
  BY <1>1, MessageLength DEF startMultiPartSend, roomForStart, mayService, isOversize, NumbersIInv
<1>3. free <= TotalSpace /\ free <= QueFreeSpace /\ ~multiPartMode
  <2>1. ~(free < SafetyZone)
    BY <1>2, LengthsAre
  <2>2. QED
    BY <1>1, <2>1 DEF startMultiPartSend, RoomIInv
<1>4. QueFreeSpace = TotalSpace - (unsent + ready) /\ unsent \in Nat /\ ready \in Nat
  BY DEF QueFreeSpace, NumbersIInv
<1>5. /\ unsent' = unsent + (HeaderLength + MultipartPayload) /\ ready' = ready
      /\ multipartChunkIndex' = 1 /\ multipartReadIndex' = multipartReadIndex /\ oversize' = n
      /\ freeSpace' = free - n /\ sentData' = TRUE /\ count' = count - 1
  BY <1>1 DEF startMultiPartSend, Push, Advance, charge
<1>6. unsent' \in Nat /\ unsent' + ready' <= TotalSpace
  BY <1>2, <1>3, <1>4, <1>5, LengthsAre
<1>7. freeSpace' \in Int /\ freeSpace' < SafetyZone /\ freeSpace' <= TotalSpace /\ count' \in Nat
  BY <1>2, <1>3, <1>5, LengthsAre
<1>8. multiPartMode'
  BY <1>5 DEF multiPartMode
<1>9. multipartReadIndex = 0 /\ 0 < n
  BY <1>2, <1>3, LengthsAre DEF RoomIInv
<1>10. NumbersIInv'
  BY <1>2, <1>4, <1>5, <1>6, <1>7 DEF startMultiPartSend, Advance, loadVars, NumbersIInv
<1>11. RoomIInv'
  BY <1>5, <1>6, <1>7, <1>8, <1>9 DEF RoomIInv
<1>12. QED
  BY <1>3, <1>10, <1>11

\* A message that fits is written whole, and the safety zone stays free.
LEMMA ServiceClientKeepsRoom ==
  ASSUME ListIInv, NumbersIInv, RoomIInv, ServiceClient
  PROVE  NumbersIInv' /\ RoomIInv'
<1>1. PICK n, free : n = totalMessageLength /\ free = freeSpace
  OBVIOUS
<1>2. /\ n \in Nat /\ free \in Int /\ n + SafetyZone <= free /\ count \in Nat /\ count > 0
  BY <1>1, MessageLength DEF ServiceClient, roomForMessage, mayService, NumbersIInv
<1>3. free <= TotalSpace /\ free <= QueFreeSpace /\ ~multiPartMode
  <2>1. ~(free < SafetyZone)
    BY <1>2, LengthsAre
  <2>2. QED
    BY <1>1, <2>1 DEF ServiceClient, RoomIInv
<1>4. QueFreeSpace = TotalSpace - (unsent + ready) /\ unsent \in Nat /\ ready \in Nat
  BY DEF QueFreeSpace, NumbersIInv
<1>5. /\ unsent' = unsent + n /\ ready' = ready /\ UNCHANGED multipartVars
      /\ freeSpace' = free - n /\ sentData' = TRUE /\ count' = count - 1
  BY <1>1 DEF ServiceClient, Push, Advance, charge
<1>6. /\ unsent' \in Nat /\ ready' \in Nat /\ unsent' + ready' + SafetyZone <= TotalSpace
      /\ unsent' + ready' <= TotalSpace /\ freeSpace' <= TotalSpace - (unsent' + ready')
  BY <1>2, <1>3, <1>4, <1>5, LengthsAre
<1>7. freeSpace' \in Int /\ freeSpace' <= TotalSpace /\ count' \in Nat
  BY <1>2, <1>3, <1>5, LengthsAre
<1>8. QueFreeSpace' = TotalSpace - (unsent' + ready') /\ ~multiPartMode'
  BY <1>3, <1>5 DEF QueFreeSpace, multiPartMode, multipartVars
<1>9. NumbersIInv'
  BY <1>5, <1>6, <1>7 DEF ServiceClient, Advance, loadVars, multipartVars, NumbersIInv
<1>10. multipartReadIndex' = 0
  BY <1>3, <1>5 DEF RoomIInv, multipartVars
<1>11. RoomIInv'
  BY <1>6, <1>7, <1>8, <1>10 DEF RoomIInv
<1>12. QED
  BY <1>9, <1>11

\* What was pushed is sent, or nothing is.
LEMMA SendIfKeepsRoom ==
  ASSUME NumbersIInv, NEW condition \in BOOLEAN, SendIf(condition)
  PROVE  unsent' \in Nat /\ ready' \in Nat /\ unsent' + ready' = unsent + ready
BY DEF SendIf, queVars, NumbersIInv

\* The service loop ends.
LEMMA EndServiceKeepsRoom ==
  ASSUME NumbersIInv, RoomIInv, EndService
  PROVE  NumbersIInv' /\ RoomIInv'
<1>1. /\ UNCHANGED <<sampleFramesPerClient, sfAccumulator, freeSpace, count, sentData, size>>
      /\ oversize' = oversize /\ multipartChunkIndex' = multipartChunkIndex
      /\ multipartReadIndex' = multipartReadIndex
  BY DEF EndService, multipartVars
<1>2. CASE cumulativesampleFrames > SampleFramesPerCycle
  <2>1. cumulativesampleFrames % SampleFramesPerCycle \in Nat
    BY Divided, LengthsAre DEF NumbersIInv
  <2>2. /\ cumulativesampleFrames' = cumulativesampleFrames % SampleFramesPerCycle
        /\ pc' = "remove" /\ pc = "service" /\ unsent' = unsent /\ ready' = ready
    BY <1>2 DEF EndService, queVars
  <2>3. NumbersIInv'
    BY <1>1, <2>1, <2>2 DEF NumbersIInv
  <2>4. QED
    BY <1>1, <2>2, <2>3 DEF RoomIInv, multiPartMode
<1>3. CASE ~(cumulativesampleFrames > SampleFramesPerCycle)
  <2>1. pc' = "idle" /\ SendIf(sentData) /\ cumulativesampleFrames' = cumulativesampleFrames
    BY <1>3 DEF EndService
  <2>2. unsent' \in Nat /\ ready' \in Nat /\ unsent' + ready' = unsent + ready
    BY <2>1, SendIfKeepsRoom DEF NumbersIInv
  <2>3. NumbersIInv'
    BY <1>1, <2>1, <2>2 DEF NumbersIInv
  <2>4. QED
    BY <1>1, <2>1, <2>2, <2>3 DEF RoomIInv, multiPartMode
<1>4. QED
  BY <1>2, <1>3

\* A serviced client leaves.
LEMMA RemoveServicedKeepsRoom ==
  ASSUME NumbersIInv, RoomIInv, RemoveServiced
  PROVE  NumbersIInv' /\ RoomIInv'
<1>1. NumbersIInv'
  BY DEF RemoveServiced, loadVars, multipartVars, queVars, NumbersIInv
<1>2. RoomIInv'
  BY DEF RemoveServiced, multipartVars, queVars, multiPartMode, QueFreeSpace, RoomIInv
<1>3. QED
  BY <1>1, <1>2

\* The GUI frame ends.
LEMMA EndCycleKeepsRoom ==
  ASSUME ListIInv, NumbersIInv, RoomIInv, EndCycle
  PROVE  NumbersIInv' /\ RoomIInv'
<1>1. /\ UNCHANGED <<cumulativesampleFrames, sfAccumulator, freeSpace, count, sentData, size>>
      /\ oversize' = oversize /\ multipartChunkIndex' = multipartChunkIndex
      /\ multipartReadIndex' = multipartReadIndex /\ pc' = "idle" /\ SendIf(sentData)
  BY DEF EndCycle, multipartVars
<1>2. unsent' \in Nat /\ ready' \in Nat /\ unsent' + ready' = unsent + ready
  BY <1>1, SendIfKeepsRoom DEF NumbersIInv
<1>3. sampleFramesPerClient' \in Nat \ {0}
  <2>1. Cardinality(DOMAIN line) \in Nat
    <3>1. PICK q : q = line
      OBVIOUS
    <3>2. q \in Seq(Clients) /\ Len(q) \in Nat /\ DOMAIN q = 1..Len(q)
      BY <3>1 DEF ListIInv
    <3>3. IsFiniteSet(1..Len(q))
      BY <3>2, FS_Interval
    <3>4. QED
      BY <3>1, <3>2, <3>3, FS_CardinalityType
  <2>2. PICK k : k = size + Cardinality(DOMAIN line)
    OBVIOUS
  <2>3. k \in Nat
    BY <2>1, <2>2 DEF NumbersIInv
  <2>4. MaxOf(FewestClients, k) \in Nat \ {0}
    BY <2>3, LengthsAre DEF MaxOf
  <2>5. SampleFramesPerCycle \div MaxOf(FewestClients, k) \in Nat
    BY <2>4, Divided, LengthsAre
  <2>6. framesPerClient(k) \in Nat /\ framesPerClient(k) >= 1
    BY <2>5 DEF framesPerClient, MaxOf
  <2>7. PICK e \in Nat : e = framesPerClient(k) /\ e >= 1
    BY <2>6
  <2>8. sampleFramesPerClient' = (sampleFramesPerClient + e) \div 2
    BY <2>2, <2>7 DEF EndCycle
  <2>9. QED
    BY <2>7, <2>8 DEF NumbersIInv
<1>4. NumbersIInv'
  BY <1>1, <1>2, <1>3 DEF NumbersIInv
<1>5. RoomIInv'
  BY <1>1, <1>2 DEF RoomIInv, multiPartMode
<1>6. QED
  BY <1>4, <1>5

\* The other thread makes room.
LEMMA ConsumeKeepsRoom ==
  ASSUME NumbersIInv, RoomIInv, NEW n \in 1..TotalSpace, Consume(n)
  PROVE  NumbersIInv' /\ RoomIInv'
<1>1. /\ n \in Nat /\ unsent' = unsent /\ ready' = ready - n /\ ready' \in Nat
      /\ unsent \in Nat /\ ready \in Nat /\ TotalSpace \in Nat
  BY LengthsAre DEF Consume, NumbersIInv
<1>2. unsent' + ready' <= unsent + ready /\ TotalSpace - (unsent' + ready') >= TotalSpace - (unsent + ready)
  BY <1>1
<1>3. NumbersIInv'
  BY <1>1 DEF Consume, loadVars, multipartVars, localVars, NumbersIInv
<1>4. unsent' + ready' <= TotalSpace
  BY <1>1, <1>2 DEF RoomIInv
<1>5. freeSpace <= QueFreeSpace => freeSpace <= QueFreeSpace'
  BY <1>1, <1>2 DEF QueFreeSpace, NumbersIInv
<1>6. unsent + ready + SafetyZone <= TotalSpace => unsent' + ready' + SafetyZone <= TotalSpace
  BY <1>1, <1>2, LengthsAre
<1>7. multiPartMode' <=> multiPartMode
  BY DEF Consume, multipartVars, multiPartMode
<1>8. RoomIInv'
  BY <1>4, <1>5, <1>6, <1>7 DEF Consume, multipartVars, localVars, RoomIInv
<1>9. QED
  BY <1>3, <1>8

-----------------------------------------------------------------------------
(* The invariant *)

\* The start of a run: nobody waits.
LEMMA InitIsGood == Init => IInv /\ line = <<>>
<1> SUFFICES ASSUME Init PROVE IInv /\ line = <<>>
  OBVIOUS
<1>1. PICK q, links : q = <<>> /\ links = [c \in Clients |-> NoClient]
  OBVIOUS
<1>2. q \in Seq(Clients) /\ Len(q) = 0 /\ Linked(q, NoClient, NoClient, links)
  BY <1>1 DEF Linked
<1>3. LineFrom(NoClient, links) = q
  BY <1>2, LinkedIsLine
<1>4. line = LineFrom(waitingClientsHead, next_)
  BY DEF line, LineFrom
<1>5. line = q
  BY <1>1, <1>3, <1>4 DEF Init
<1>6. inQue = Members(line)
  BY <1>2, <1>5 DEF Init, Members
<1>7. servicedCount \in 0..Len(q) /\ next_ \in [Clients -> Clients \cup {NoClient}]
  BY <1>2 DEF Init
<1>8. ListIInv
  BY <1>1, <1>2, <1>5, <1>6, <1>7 DEF Init, ListIInv
<1>9. NumbersIInv
  <2>1. 0 \in Nat /\ 0 \in Int /\ FirstFramesPerClient \in Nat \ {0}
    BY LengthsAre
  <2>2. QED
    BY <2>1 DEF Init, NumbersIInv
<1>10. RoomIInv
  BY LengthsAre DEF Init, RoomIInv, multiPartMode
<1>11. QED
  BY <1>1, <1>5, <1>8, <1>9, <1>10 DEF IInv

\* What a step does to the line, or that it does nothing to it.
LineStep ==
  \/ \E c \in Clients : Line!Add(c)
  \/ Line!Service
  \/ Line!Remove
  \/ Line!Reset
  \/ UNCHANGED <<line, servicedCount, dirty>>

\* The line's own definition of who is in it.
LEMMA InLineIs == Line!InLine = Members(line)
BY DEF Line!InLine, Members

\* A client asks to be serviced.
LEMMA AddWaiterSteps ==
  ASSUME IInv, NEW c \in Clients, NEW n \in Payloads, AddWaiter(c, n)
  PROVE  IInv' /\ Line!Add(c)
<1>1. ListIInv' /\ line' = IF c \in Members(line) THEN line ELSE Append(line, c)
  BY AddWaiterKeepsList DEF IInv
<1>2. NumbersIInv' /\ RoomIInv'
  BY DEF AddWaiter, loadVars, multipartVars, localVars, queVars, IInv, NumbersIInv, RoomIInv,
         multiPartMode, QueFreeSpace
<1>3. Line!Add(c)
  BY <1>1, InLineIs DEF Line!Add, AddWaiter
<1>4. QED
  BY <1>1, <1>2, <1>3 DEF IInv

\* A client is serviced, with a big message or a small one.
LEMMA ServiceSteps ==
  ASSUME IInv, startMultiPartSend \/ ServiceClient
  PROVE  IInv' /\ Line!Service
<1>1. mayService /\ Advance
  BY DEF startMultiPartSend, ServiceClient, roomForStart, roomForMessage
<1>2. /\ ListIInv' /\ line' = line
      /\ servicedCount < Len(line) /\ servicedCount' = servicedCount + 1
      /\ dirty' = dirty \ {line[servicedCount + 1]}
  BY <1>1, AdvanceKeepsList DEF IInv
<1>3. NumbersIInv' /\ RoomIInv'
  BY StartKeepsRoom, ServiceClientKeepsRoom DEF IInv
<1>4. Line!Service
  BY <1>2 DEF Line!Service
<1>5. QED
  BY <1>2, <1>3, <1>4 DEF IInv

\* A serviced client leaves, or goes to the end.
LEMMA RemoveServicedSteps ==
  ASSUME IInv, RemoveServiced
  PROVE  IInv' /\ Line!Remove
<1>1. ListIInv' /\ line' = IF Head(line) \in dirty THEN Append(Tail(line), Head(line)) ELSE Tail(line)
  BY RemoveServicedKeepsList DEF IInv
<1>2. NumbersIInv' /\ RoomIInv'
  BY RemoveServicedKeepsRoom DEF IInv
<1>3. Line!Remove
  BY <1>1 DEF Line!Remove, RemoveServiced
<1>4. QED
  BY <1>1, <1>2, <1>3 DEF IInv

\* The clients are deleted.
LEMMA ResetSteps ==
  ASSUME IInv, Reset
  PROVE  IInv' /\ Line!Reset
<1>1. ListIInv' /\ line' = <<>>
  BY ResetKeepsList DEF IInv
<1>2. NumbersIInv' /\ RoomIInv'
  BY DEF Reset, multipartVars, localVars, queVars, IInv, NumbersIInv, RoomIInv,
         multiPartMode, QueFreeSpace
<1>3. Line!Reset
  BY <1>1 DEF Line!Reset, Reset
<1>4. QED
  BY <1>1, <1>2, <1>3 DEF IInv

\* The other steps leave the line as it is.
LEMMA OtherSteps ==
  ASSUME IInv,
         \/ \E f \in SampleFrames : Begin(f)
         \/ MultiPart_send
         \/ EndService
         \/ EndCycle
         \/ \E n \in 1..TotalSpace : Consume(n)
         \/ UNCHANGED vars
  PROVE  IInv' /\ UNCHANGED <<line, servicedCount, dirty>>
<1>1. ASSUME NEW f \in SampleFrames, Begin(f) PROVE IInv' /\ UNCHANGED <<line, servicedCount, dirty>>
  <2>1. UNCHANGED listVars /\ payload' \in [Clients -> Payloads]
    BY <1>1 DEF Begin, IInv, ListIInv
  <2>2. QED
    BY <1>1, <2>1, ListStays, BeginKeepsRoom DEF IInv, listVars
<1>2. CASE MultiPart_send
  <2>1. UNCHANGED listVars /\ payload' \in [Clients -> Payloads]
    BY <1>2 DEF MultiPart_send, IInv, ListIInv
  <2>2. QED
    BY <1>2, <2>1, ListStays, MultiPart_sendKeepsRoom DEF IInv, listVars
<1>3. CASE EndService
  <2>1. UNCHANGED listVars /\ payload' \in [Clients -> Payloads]
    BY <1>3 DEF EndService, IInv, ListIInv
  <2>2. QED
    BY <1>3, <2>1, ListStays, EndServiceKeepsRoom DEF IInv, listVars
<1>4. CASE EndCycle
  BY <1>4, EndCycleKeepsList, EndCycleKeepsRoom DEF IInv, EndCycle
<1>5. ASSUME NEW n \in 1..TotalSpace, Consume(n) PROVE IInv' /\ UNCHANGED <<line, servicedCount, dirty>>
  <2>1. UNCHANGED listVars /\ payload' \in [Clients -> Payloads]
    BY <1>5 DEF Consume, IInv, ListIInv
  <2>2. QED
    BY <1>5, <2>1, ListStays, ConsumeKeepsRoom DEF IInv, listVars
<1>6. CASE UNCHANGED vars
  <2>1. UNCHANGED listVars /\ payload' \in [Clients -> Payloads]
    BY <1>6 DEF vars, IInv, ListIInv
  <2>2. NumbersIInv' /\ RoomIInv'
    BY <1>6 DEF vars, loadVars, multipartVars, localVars, queVars, IInv, NumbersIInv, RoomIInv,
                multiPartMode, QueFreeSpace
  <2>3. QED
    BY <2>1, <2>2, ListStays DEF IInv, listVars
<1>7. QED
  BY <1>1, <1>2, <1>3, <1>4, <1>5, <1>6

\* Every step keeps the invariant and is a step of the line, or none.
LEMMA StepKeeps == IInv /\ [Next]_vars => IInv' /\ LineStep
<1> SUFFICES ASSUME IInv, [Next]_vars PROVE IInv' /\ LineStep
  OBVIOUS
<1>1. ASSUME NEW c \in Clients, NEW n \in Payloads, AddWaiter(c, n) PROVE IInv' /\ LineStep
  BY <1>1, AddWaiterSteps DEF LineStep
<1>2. CASE startMultiPartSend \/ ServiceClient
  BY <1>2, ServiceSteps DEF LineStep
<1>3. CASE RemoveServiced
  BY <1>3, RemoveServicedSteps DEF LineStep
<1>4. CASE Reset
  BY <1>4, ResetSteps DEF LineStep
<1>5. CASE \/ \E f \in SampleFrames : Begin(f)
           \/ MultiPart_send
           \/ EndService
           \/ EndCycle
           \/ \E n \in 1..TotalSpace : Consume(n)
           \/ UNCHANGED vars
  BY <1>5, OtherSteps DEF LineStep
<1>6. QED
  BY <1>1, <1>2, <1>3, <1>4, <1>5 DEF Next, Service

\* Every behaviour of the call, the clients and the other thread.
LEMMA InvariantHolds == Spec => []IInv
<1>1. Init => IInv
  BY InitIsGood
<1>2. IInv /\ [Next]_vars => IInv'
  BY StepKeeps
<1>3. QED
  BY <1>1, <1>2, PTL DEF Spec

-----------------------------------------------------------------------------
(* What follows from it *)

\* The line has as many places as there are flagged clients.
LEMMA CountsPlaces ==
  ASSUME ListIInv
  PROVE  Cardinality(DOMAIN line) = Len(line) /\ Cardinality(inQue) = Len(line)
<1>1. PICK q : q = line
  OBVIOUS
<1>2. /\ q \in Seq(Clients) /\ Len(q) \in Nat /\ DOMAIN q = 1..Len(q)
      /\ inQue = Members(q) /\ \A i, j \in 1..Len(q) : q[i] = q[j] => i = j
  BY <1>1 DEF ListIInv, Linked
<1>3. IsFiniteSet(1..Len(q)) /\ Cardinality(1..Len(q)) = Len(q)
  <2>1. 1 \in Int /\ Len(q) \in Int
    BY <1>2
  <2>2. IsFiniteSet(1..Len(q)) /\ Cardinality(1..Len(q)) = IF 1 > Len(q) THEN 0 ELSE Len(q) - 1 + 1
    BY <2>1, FS_Interval
  <2>3. QED
    BY <1>2, <2>2
<1>4. q \in [1..Len(q) -> Members(q)] /\ \A d \in Members(q) : \E i \in 1..Len(q) : q[i] = d
  BY <1>2 DEF Members
<1>5. q \in Bijection(1..Len(q), Members(q))
  BY <1>2, <1>4 DEF Bijection, Injection, Surjection, IsInjective
<1>6. Cardinality(Members(q)) = Cardinality(1..Len(q))
  BY <1>3, <1>5, FS_Bijection DEF ExistsBijection
<1>7. QED
  BY <1>1, <1>2, <1>3, <1>6

\* ListIsSound: the linked list of AddWaiter and ServiceWaitersIncremental is
\* well formed, its flags, tail and current pointer included.
THEOREM ListAlwaysSound == Spec => []ListIsSound
<1>1. IInv => ListIsSound
  <2> SUFFICES ASSUME IInv PROVE ListIsSound
    OBVIOUS
  <2>1. PICK q, s : q = line /\ s = servicedCount
    OBVIOUS
  <2>2. /\ q \in Seq(Clients) /\ Len(q) \in Nat /\ DOMAIN q = 1..Len(q) /\ s \in 0..Len(q)
        /\ Cardinality(DOMAIN q) = Len(q) /\ Cardinality(inQue) = Len(q)
        /\ Linked(q, waitingClientsHead, waitingClientsTail, next_)
    BY <2>1, CountsPlaces DEF IInv, ListIInv
  <2>3. q # <<>> => 1 \in 1..Len(q) /\ Len(q) \in 1..Len(q)
    BY <2>2
  <2>4. currentClient # NoClient => s < Len(q) /\ currentClient = q[s + 1]
    BY <2>1 DEF IInv, ListIInv
  <2>5. {waitingClientsHead, waitingClientsTail, currentClient} \subseteq Clients \cup {NoClient}
    <3>1. waitingClientsHead \in Clients \cup {NoClient} /\ waitingClientsTail \in Clients \cup {NoClient}
      <4>1. q # <<>> => q[1] \in Clients /\ q[Len(q)] \in Clients
        BY <2>2, <2>3
      <4>2. /\ waitingClientsHead = IF q = <<>> THEN NoClient ELSE q[1]
            /\ waitingClientsTail = IF q = <<>> THEN NoClient ELSE q[Len(q)]
        BY <2>2 DEF Linked
      <4>3. QED
        BY <4>1, <4>2
    <3>2. currentClient # NoClient => s + 1 \in 1..Len(q)
      BY <2>2, <2>4
    <3>3. currentClient \in Clients \cup {NoClient}
      BY <2>2, <2>4, <3>2
    <3>4. QED
      BY <3>1, <3>3
  <2>6. inQue = { line[i] : i \in DOMAIN line } /\ inQue \subseteq Clients
    BY <2>1, <2>2 DEF IInv, ListIInv, Members
  <2>7. TypeOK
    <3>1. servicedCount \in Nat
      BY <2>1, <2>2
    <3>2. QED
      BY <2>5, <2>6, <3>1 DEF IInv, ListIInv, NumbersIInv, TypeOK
  <2>8. CurrentIsFirstUnserviced
    BY <2>1, <2>2, <2>4 DEF CurrentIsFirstUnserviced
  <2>9. waitingClientsTail = IF line = <<>> THEN NoClient ELSE line[Cardinality(DOMAIN line)]
    BY <2>1, <2>2 DEF Linked
  <2>10. waitingClientsTail # NoClient => next_[waitingClientsTail] = NoClient
    BY <2>2, <2>3 DEF Linked
  <2>11. QED
    BY <2>1, <2>2, <2>6, <2>7, <2>8, <2>9, <2>10 DEF ListIsSound
<1>2. QED
  BY <1>1, InvariantHolds, PTL

\* NeverOverfills: whatever is serviced and taken, ServiceWaitersIncremental
\* fills the fifo no further than its room and its safety zone allow.
THEOREM AlwaysFits == Spec => []NeverOverfills
<1>1. IInv => NeverOverfills
  BY DEF IInv, RoomIInv, NeverOverfills
<1>2. QED
  BY <1>1, InvariantHolds, PTL

\* OversizeNotOverwritten: startMultiPartSend is not reached while another
\* message is being sent in chunks, though the loop does not look at that.
THEOREM AlwaysOneMultipart == Spec => OversizeNotOverwritten
<1>1. IInv /\ [Next]_vars => [startMultiPartSend => ~multiPartMode]_vars
  BY StartKeepsRoom DEF IInv
<1>2. QED
  BY <1>1, InvariantHolds, PTL DEF Spec, OversizeNotOverwritten

\* ImplementsWaiterQueue: the linked list is a first-come first-served line.
THEOREM RefinesWaiterQueue == Spec => ImplementsWaiterQueue
<1>1. Init => Line!Init
  BY InitIsGood DEF Init, Line!Init
<1>2. IInv /\ [Next]_vars => [Line!Next]_(Line!vars)
  BY StepKeeps DEF LineStep, Line!Next, Line!vars
<1>3. QED
  BY <1>1, <1>2, InvariantHolds, PTL DEF Spec, ImplementsWaiterQueue, Line!Spec

-----------------------------------------------------------------------------
(* What the line promises *)

LineIInv ==
  /\ Line!TypeOK
  /\ Line!NoDuplicates
  /\ Line!DirtyIsInLine
  /\ Line!UnservicedIsDirty

-----------------------------------------------------------------------------
\* Joining the line keeps the invariant.
LEMMA AddKeepsLine ==
  ASSUME LineIInv, NEW c \in Clients, Line!Add(c)
  PROVE  LineIInv'
<1> USE DEF LineIInv
<1>1. line \in Seq(Clients) /\ Len(line) \in Nat /\ servicedCount \in 0..Len(line)
  BY DEF Line!TypeOK
<1>2. CASE c \in Line!InLine
  <2>1. line' = line /\ dirty' = dirty \cup {c} /\ servicedCount' = servicedCount
    BY <1>2 DEF Line!Add
  <2>2. QED
    BY <1>2, <2>1 DEF Line!TypeOK, Line!NoDuplicates, Line!DirtyIsInLine, Line!UnservicedIsDirty, Line!InLine
<1>3. CASE c \notin Line!InLine
  <2>1. /\ line' \in Seq(Clients)
        /\ Len(line') = Len(line) + 1
        /\ \A i \in 1..Len(line) : line'[i] = line[i]
        /\ line'[Len(line) + 1] = c
        /\ dirty' = dirty \cup {c}
        /\ servicedCount' = servicedCount
    BY <1>1, <1>3, AppendProperties DEF Line!Add
  <2>2. \A i \in 1..Len(line) : line[i] # c
    BY <1>3 DEF Line!InLine
  <2>3. Line!TypeOK'
    BY <1>1, <2>1 DEF Line!TypeOK
  <2>4. Line!NoDuplicates'
    BY <1>1, <2>1, <2>2 DEF Line!NoDuplicates
  <2>5. Line!DirtyIsInLine'
    <3> SUFFICES ASSUME NEW d \in dirty' PROVE d \in Line!InLine'
      BY DEF Line!DirtyIsInLine
    <3>1. CASE d = c
      BY <1>1, <2>1, <3>1 DEF Line!InLine
    <3>2. CASE d \in dirty
      <4>1. PICK i \in 1..Len(line) : d = line[i]
        BY <3>2 DEF Line!DirtyIsInLine, Line!InLine
      <4>2. i \in 1..Len(line') /\ line'[i] = d
        BY <1>1, <2>1, <4>1
      <4>3. QED
        BY <4>2 DEF Line!InLine
    <3>3. QED
      BY <2>1, <3>1, <3>2
  <2>6. Line!UnservicedIsDirty'
    BY <1>1, <2>1 DEF Line!UnservicedIsDirty
  <2>7. QED
    BY <2>3, <2>4, <2>5, <2>6
<1>4. QED
  BY <1>2, <1>3

\* Being serviced keeps the invariant.
LEMMA ServiceKeepsLine == LineIInv /\ Line!Service => LineIInv'
<1> SUFFICES ASSUME LineIInv, Line!Service PROVE LineIInv'
  OBVIOUS
<1> USE DEF LineIInv
<1>1. /\ line \in Seq(Clients)
      /\ Len(line) \in Nat
      /\ servicedCount \in 0..Len(line)
      /\ servicedCount < Len(line)
      /\ line' = line
      /\ servicedCount' = servicedCount + 1
      /\ dirty' = dirty \ {line[servicedCount + 1]}
  BY DEF Line!Service, Line!TypeOK
<1>2. Line!TypeOK'
  BY <1>1 DEF Line!TypeOK
<1>3. Line!NoDuplicates'
  BY <1>1 DEF Line!NoDuplicates
<1>4. Line!DirtyIsInLine'
  BY <1>1 DEF Line!DirtyIsInLine, Line!InLine
<1>5. Line!UnservicedIsDirty'
  BY <1>1 DEF Line!UnservicedIsDirty, Line!NoDuplicates
<1>6. QED
  BY <1>2, <1>3, <1>4, <1>5

\* Leaving the front of the line keeps the invariant.
LEMMA RemoveKeepsLine == LineIInv /\ Line!Remove => LineIInv'
<1> SUFFICES ASSUME LineIInv, Line!Remove PROVE LineIInv'
  OBVIOUS
<1> USE DEF LineIInv
<1> DEFINE c == Head(line)
           rest == Tail(line)
<1>1. /\ line \in Seq(Clients)
      /\ Len(line) \in Nat \ {0}
      /\ servicedCount \in 1..Len(line)
      /\ servicedCount' = servicedCount - 1
      /\ dirty' = dirty
  BY DEF Line!Remove, Line!TypeOK
<1>2. /\ c \in Clients
      /\ c = line[1]
      /\ rest \in Seq(Clients)
      /\ Len(rest) = Len(line) - 1
      /\ \A i \in 1..Len(rest) : rest[i] = line[i + 1]
  BY <1>1, HeadTailProperties
<1> HIDE DEF c, rest
<1>3. ASSUME NEW i \in 1..Len(rest) PROVE rest[i] # c
  <2>1. i + 1 \in 1..Len(line) /\ i + 1 # 1 /\ 1 \in 1..Len(line)
    BY <1>1, <1>2
  <2>2. QED
    BY <1>2, <2>1 DEF Line!NoDuplicates
<1>4. ASSUME NEW i \in 1..Len(rest), NEW j \in 1..Len(rest), rest[i] = rest[j] PROVE i = j
  <2>1. i + 1 \in 1..Len(line) /\ j + 1 \in 1..Len(line)
    BY <1>1, <1>2
  <2>2. i + 1 = j + 1
    BY <1>2, <1>4, <2>1 DEF Line!NoDuplicates
  <2>3. QED
    BY <2>2
<1>5. \A d \in dirty : d = c \/ \E i \in 1..Len(rest) : rest[i] = d
  <2> SUFFICES ASSUME NEW d \in dirty, d # c PROVE \E i \in 1..Len(rest) : rest[i] = d
    OBVIOUS
  <2>1. PICK i \in 1..Len(line) : d = line[i]
    BY DEF Line!DirtyIsInLine, Line!InLine
  <2>2. i # 1
    BY <1>2, <2>1
  <2>3. i - 1 \in 1..Len(rest) /\ rest[i - 1] = line[(i - 1) + 1] /\ (i - 1) + 1 = i
    BY <1>1, <1>2, <2>1, <2>2
  <2>4. QED
    BY <2>1, <2>3
<1>6. \A i \in 1..Len(rest) : i > servicedCount - 1 => rest[i] \in dirty
  BY <1>1, <1>2 DEF Line!UnservicedIsDirty
<1>7. CASE c \in dirty
  <2>1. line' = Append(rest, c)
    BY <1>7 DEF Line!Remove, c, rest
  <2>2. /\ line' \in Seq(Clients)
        /\ Len(line') = Len(rest) + 1
        /\ \A i \in 1..Len(rest) : line'[i] = rest[i]
        /\ line'[Len(rest) + 1] = c
    BY <1>2, <2>1, AppendProperties
  <2>3. \A i \in 1..Len(line') : i \in 1..Len(rest) \/ i = Len(rest) + 1
    BY <1>1, <1>2, <2>2
  <2>4. Line!TypeOK'
    BY <1>1, <1>2, <2>2 DEF Line!TypeOK
  <2>5. Line!NoDuplicates'
    <3> SUFFICES ASSUME NEW i \in 1..Len(line'), NEW j \in 1..Len(line'),
                        line'[i] = line'[j]
                 PROVE  i = j
      BY DEF Line!NoDuplicates
    <3>1. CASE i \in 1..Len(rest) /\ j \in 1..Len(rest)
      BY <1>4, <2>2, <3>1
    <3>2. CASE i = Len(rest) + 1 /\ j \in 1..Len(rest)
      BY <1>3, <2>2, <3>2
    <3>3. CASE i \in 1..Len(rest) /\ j = Len(rest) + 1
      BY <1>3, <2>2, <3>3
    <3>4. QED
      BY <2>3, <3>1, <3>2, <3>3
  <2>6. Line!DirtyIsInLine'
    <3> SUFFICES ASSUME NEW d \in dirty PROVE \E i \in 1..Len(line') : line'[i] = d
      BY <1>1 DEF Line!DirtyIsInLine, Line!InLine
    <3>1. CASE d = c
      BY <1>1, <1>2, <2>2, <3>1
    <3>2. CASE d # c
      <4>1. PICK i \in 1..Len(rest) : rest[i] = d
        BY <1>5, <3>2
      <4>2. i \in 1..Len(line') /\ line'[i] = d
        BY <1>1, <1>2, <2>2, <4>1
      <4>3. QED
        BY <4>2
    <3>3. QED
      BY <3>1, <3>2
  <2>7. Line!UnservicedIsDirty'
    <3> SUFFICES ASSUME NEW i \in 1..Len(line'), i > servicedCount'
                 PROVE  line'[i] \in dirty'
      BY DEF Line!UnservicedIsDirty
    <3>1. CASE i \in 1..Len(rest)
      BY <1>1, <1>6, <2>2, <3>1
    <3>2. CASE i = Len(rest) + 1
      BY <1>1, <1>7, <2>2, <3>2
    <3>3. QED
      BY <2>3, <3>1, <3>2
  <2>8. QED
    BY <2>4, <2>5, <2>6, <2>7
<1>8. CASE c \notin dirty
  <2>1. line' = rest
    BY <1>8 DEF Line!Remove, c, rest
  <2>2. Line!TypeOK'
    BY <1>1, <1>2, <2>1 DEF Line!TypeOK
  <2>3. Line!NoDuplicates'
    BY <1>4, <2>1 DEF Line!NoDuplicates
  <2>4. Line!DirtyIsInLine'
    BY <1>1, <1>5, <1>8, <2>1 DEF Line!DirtyIsInLine, Line!InLine
  <2>5. Line!UnservicedIsDirty'
    BY <1>1, <1>6, <2>1 DEF Line!UnservicedIsDirty
  <2>6. QED
    BY <2>2, <2>3, <2>4, <2>5
<1>9. QED
  BY <1>7, <1>8

\* Every step keeps the invariant.
LEMMA StepKeepsLine == LineIInv /\ [Line!Next]_(Line!vars) => LineIInv'
<1> SUFFICES ASSUME LineIInv, [Line!Next]_(Line!vars) PROVE LineIInv'
  OBVIOUS
<1>1. CASE \E c \in Clients : Line!Add(c)
  BY <1>1, AddKeepsLine
<1>2. CASE Line!Service
  BY <1>2, ServiceKeepsLine
<1>3. CASE Line!Remove
  BY <1>3, RemoveKeepsLine
<1>4. CASE Line!Reset
  BY <1>4 DEF Line!Reset, LineIInv, Line!TypeOK, Line!NoDuplicates, Line!DirtyIsInLine, Line!UnservicedIsDirty, Line!InLine
<1>5. CASE UNCHANGED Line!vars
  BY <1>5 DEF Line!vars, LineIInv, Line!TypeOK, Line!NoDuplicates, Line!DirtyIsInLine, Line!UnservicedIsDirty, Line!InLine
<1>6. QED
  BY <1>1, <1>2, <1>3, <1>4, <1>5 DEF Line!Next

-----------------------------------------------------------------------------
\* However updates, services and frame ends follow one another, nobody is in
\* line twice, everybody with an unsent value is in line, and everybody who
\* still waits for a turn has an unsent value.
LEMMA LineAlwaysHolds == Spec => []LineIInv
<1>1. Line!Init => LineIInv
  BY DEF Line!Init, LineIInv, Line!TypeOK, Line!NoDuplicates, Line!DirtyIsInLine,
         Line!UnservicedIsDirty, Line!InLine
<1>2. LineIInv /\ [Line!Next]_(Line!vars) => LineIInv'
  BY StepKeepsLine
<1>3. Line!Spec => []LineIInv
  BY <1>1, <1>2, PTL DEF Line!Spec
<1>4. QED
  BY <1>3, RefinesWaiterQueue, PTL DEF ImplementsWaiterQueue

\* No client is ever in the linked list twice, so none is serviced twice for
\* one value.
THEOREM NobodyIsInLineTwice == Spec => []Line!NoDuplicates
<1>1. LineIInv => Line!NoDuplicates
  BY DEF LineIInv
<1>2. QED
  BY <1>1, LineAlwaysHolds, PTL

\* No update is lost: a client whose dirty_ is set is in the linked list,
\* even if it changed while it was being serviced or removed.
THEOREM NoUpdateIsLost == Spec => []Line!DirtyIsInLine
<1>1. LineIInv => Line!DirtyIsInLine
  BY DEF LineIInv
<1>2. QED
  BY <1>1, LineAlwaysHolds, PTL

\* No turn is wasted: a client that has yet to be serviced has its dirty_ set.
THEOREM NoTurnIsWasted == Spec => []Line!UnservicedIsDirty
<1>1. LineIInv => Line!UnservicedIsDirty
  BY DEF LineIInv
<1>2. QED
  BY <1>1, LineAlwaysHolds, PTL

\* Joining the line disturbs nobody's place.
LEMMA AddKeepsPlaces ==
  ASSUME LineIInv, NEW c \in Clients, Line!Add(c), NEW i \in 1..Len(line)
  PROVE  i \in 1..Len(line') /\ line'[i] = line[i]
<1>1. line \in Seq(Clients) /\ Len(line) \in Nat
  BY DEF LineIInv, Line!TypeOK
<1>2. CASE c \in Line!InLine
  BY <1>2 DEF Line!Add
<1>3. CASE c \notin Line!InLine
  BY <1>1, <1>3, AppendProperties DEF Line!Add
<1>4. QED
  BY <1>2, <1>3

\* When the first in line leaves or goes to the end, the others move up by one.
LEMMA RemoveMovesUp ==
  ASSUME LineIInv, Line!Remove, NEW i \in 1..Len(line), servicedCount < i
  PROVE  i - 1 \in 1..Len(line') /\ line'[i - 1] = line[i]
<1> DEFINE rest == Tail(line)
<1>1. /\ line \in Seq(Clients)
      /\ Len(line) \in Nat \ {0}
      /\ servicedCount \in 1..Len(line)
  BY DEF Line!Remove, LineIInv, Line!TypeOK
<1>2. /\ Head(line) \in Clients
      /\ rest \in Seq(Clients)
      /\ Len(rest) = Len(line) - 1
      /\ \A k \in 1..Len(rest) : rest[k] = line[k + 1]
  BY <1>1, HeadTailProperties
<1>3. /\ i - 1 \in 1..Len(rest)
      /\ rest[i - 1] = line[(i - 1) + 1]
      /\ (i - 1) + 1 = i
  BY <1>1, <1>2
<1>4. CASE line' = rest
  BY <1>3, <1>4
<1>5. CASE line' = Append(rest, Head(line))
  <2> HIDE DEF rest
  <2>1. /\ Len(line') = Len(rest) + 1
        /\ \A k \in 1..Len(rest) : line'[k] = rest[k]
    BY <1>2, <1>5, AppendProperties
  <2>2. QED
    BY <1>2, <1>3, <2>1
<1>6. QED
  BY <1>4, <1>5 DEF Line!Remove

\* First come, first served: no update, service or frame end lets a waiting
\* client overtake another one.
THEOREM NobodyOvertakes == Spec => Line!KeepsItsPlace
<1> DEFINE InPlace(i, j) ==
             \/ Line!Reset
             \/ \E k, m \in 1..Len(line') :
                  k < m /\ line'[k] = line[i] /\ line'[m] = line[j]
<1>1. ASSUME LineIInv, [Line!Next]_(Line!vars)
      PROVE  [\A i, j \in 1..Len(line) : servicedCount < i /\ i < j => InPlace(i, j)]_(Line!vars)
  <2> SUFFICES ASSUME NEW i \in 1..Len(line), NEW j \in 1..Len(line),
                      servicedCount < i, i < j, Line!Next, ~Line!Reset
               PROVE  InPlace(i, j)
    BY <1>1
  <2>1. servicedCount \in Nat /\ servicedCount < j
    BY <1>1 DEF LineIInv, Line!TypeOK
  <2>2. CASE \E c \in Clients : Line!Add(c)
    BY <1>1, <2>2, AddKeepsPlaces
  <2>3. CASE Line!Service
    BY <2>3 DEF Line!Service
  <2>4. CASE Line!Remove
    <3>1. /\ i - 1 \in 1..Len(line') /\ line'[i - 1] = line[i]
          /\ j - 1 \in 1..Len(line') /\ line'[j - 1] = line[j]
      BY <1>1, <2>1, <2>4, RemoveMovesUp
    <3>2. i - 1 < j - 1
      OBVIOUS
    <3>3. QED
      BY <3>1, <3>2
  <2>5. QED
    BY <2>2, <2>3, <2>4 DEF Line!Next
<1>2. QED
  BY <1>1, LineAlwaysHolds, RefinesWaiterQueue, PTL
     DEF ImplementsWaiterQueue, Line!Spec, Line!KeepsItsPlace

=============================================================================
