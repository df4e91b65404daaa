---------------------------- MODULE QueuedUsers ----------------------------
(***************************************************************************)
(* QueuedUsers of Hosting/message_queues: the sending side of the          *)
(* processor-to-editor and editor-to-processor queues.  Clients (the       *)
(* parameters) ask for room with AddWaiter; ServiceWaitersIncremental,     *)
(* called once per process block or timer tick, writes the messages of     *)
(* some of them into the fifo, spreading them over a GUI frame, and sends. *)
(* A message too big for the fifo is copied aside and sent in chunks.      *)
(*                                                                         *)
(* The waiting list is the code's linked list.  The loops of one call are  *)
(* one step per turn (pc says which loop), so that the thread at the other *)
(* end of the fifo can take bytes between any two of them.  Of the fifo    *)
(* only the numbers of bytes in it matter here; LockFreeFifo has the rest. *)
(***************************************************************************)
EXTENDS Integers, FiniteSets

CONSTANTS
  Clients,
  NoClient,               \* nullptr
  Payloads,               \* lengths a client's message may have
  SampleFrames,           \* block lengths the call is given
  TotalSpace,             \* que->totalSpace()
  HeaderLength,           \* handle, id and length: 12 bytes
  MultipartPayload,       \* the length an MPAR message carries: 4 bytes
  SafetyZone,             \* ServiceWaitersIncremental's own: 8 headers
  MultipartSafetyZone,    \* the class's: 50 headers
  SampleFramesPerCycle,   \* frames of a GUI frame: 500, or sample rate / 60
  FirstFramesPerClient,   \* 100
  FewestClients           \* 10, the least the estimate divides by

ASSUME ConstantsAssumption ==
  /\ IsFiniteSet(Clients) /\ NoClient \notin Clients
  /\ Payloads \subseteq Nat /\ SampleFrames \subseteq Nat \ {0}
  /\ {TotalSpace, HeaderLength, MultipartPayload, SafetyZone, MultipartSafetyZone} \subseteq Nat \ {0}
  /\ {SampleFramesPerCycle, FirstFramesPerClient, FewestClients} \subseteq Nat \ {0}
  \* "check there is a little room for the MPAR header"
  /\ HeaderLength + MultipartPayload <= SafetyZone
  /\ HeaderLength <= MultipartSafetyZone

VARIABLES
  waitingClientsHead, waitingClientsTail, currentClient,
  next_,                  \* each client's link
  inQue, dirty,           \* the clients whose inQue_, dirty_ is set
  servicedCount,
  cumulativesampleFrames, sampleFramesPerClient, sfAccumulator,
  oversize,               \* oversize_data.size()
  multipartChunkIndex, multipartReadIndex,
  payload,                \* what queryQueMessageLength() would answer
  pc,                     \* where in ServiceWaitersIncremental the thread is
  freeSpace, count, sentData, size,  \* its local variables
  unsent, ready           \* bytes in the fifo: pushed, and sent

listVars == <<waitingClientsHead, waitingClientsTail, currentClient, next_, inQue, dirty, servicedCount>>
loadVars == <<cumulativesampleFrames, sampleFramesPerClient, sfAccumulator>>
multipartVars == <<oversize, multipartChunkIndex, multipartReadIndex>>
localVars == <<pc, freeSpace, count, sentData, size>>
queVars == <<unsent, ready>>
vars == <<listVars, loadVars, multipartVars, payload, localVars, queVars>>

MaxOf(a, b) == IF a >= b THEN a ELSE b
MinOf(a, b) == IF a <= b THEN a ELSE b

QueFreeSpace == TotalSpace - (unsent + ready)

Push(n) == unsent' = unsent + n /\ UNCHANGED ready

\* que->Send() if anything was written.
SendIf(condition) ==
  IF condition
    THEN ready' = ready + unsent /\ unsent' = 0
    ELSE UNCHANGED queVars

\* The clients met following the links from the head, in order.
line ==
  LET follow[k \in 0 .. Cardinality(Clients)] ==
        IF k = 0 THEN waitingClientsHead
        ELSE IF follow[k - 1] = NoClient THEN NoClient ELSE next_[follow[k - 1]]
      length == Cardinality({ k \in DOMAIN follow : follow[k] # NoClient })
  IN  [k \in 1..length |-> follow[k - 1]]

multiPartMode == multipartChunkIndex > 0

-----------------------------------------------------------------------------
Init ==
  /\ waitingClientsHead = NoClient
  /\ waitingClientsTail = NoClient
  /\ currentClient = NoClient
  /\ next_ = [c \in Clients |-> NoClient]
  /\ inQue = {}
  /\ dirty = {}
  /\ servicedCount = 0
  /\ cumulativesampleFrames = 0
  /\ sampleFramesPerClient = FirstFramesPerClient
  /\ sfAccumulator = 0
  /\ oversize = 0
  /\ multipartChunkIndex = 0
  /\ multipartReadIndex = 0
  /\ payload \in [Clients -> Payloads]
  /\ pc = "idle"
  /\ freeSpace = 0
  /\ count = 0
  /\ sentData = FALSE
  /\ size = 0
  /\ unsent = 0
  /\ ready = 0

\* Mutant of Enqueue: the client's inQue_ is not looked at.
EnqueueUnchecked(c, head, tail, queued) ==
  /\ waitingClientsHead' = IF tail = NoClient THEN c ELSE head
  /\ currentClient' = IF tail = NoClient THEN c ELSE currentClient
  /\ next_' = [d \in Clients |-> IF d = c THEN NoClient ELSE IF d = tail THEN c ELSE next_[d]]
  /\ waitingClientsTail' = c
  /\ inQue' = queued \cup {c}

\* AddWaiter's effect on the list, from the head, tail and flags it finds.
Enqueue(c, head, tail, queued) ==
  IF c \in queued
    THEN /\ waitingClientsHead' = head
         /\ waitingClientsTail' = tail
         /\ inQue' = queued
         /\ UNCHANGED <<currentClient, next_>>
    ELSE /\ waitingClientsHead' = IF tail = NoClient THEN c ELSE head
         /\ currentClient' = IF tail = NoClient THEN c ELSE currentClient
         /\ next_' = [d \in Clients |-> IF d = c THEN NoClient ELSE IF d = tail THEN c ELSE next_[d]]
         /\ waitingClientsTail' = c
         /\ inQue' = queued \cup {c}

\* A client's value changes, to one whose message has n bytes, and it asks
\* to be serviced.
AddWaiter(c, n) ==
  /\ pc = "idle"
  /\ payload' = [payload EXCEPT ![c] = n]
  /\ dirty' = dirty \cup {c}
  /\ Enqueue(c, waitingClientsHead, waitingClientsTail, inQue)
  /\ UNCHANGED <<servicedCount, loadVars, multipartVars, localVars, queVars>>

-----------------------------------------------------------------------------
(* ServiceWaitersIncremental *)

\* Mutant of chunkSize: no room is left for the chunk's header.
chunkSizeToTheLastByte == MinOf(oversize - multipartReadIndex, QueFreeSpace)

chunkSize == MinOf(oversize - multipartReadIndex, QueFreeSpace - MultipartSafetyZone)

\* In multipart mode the call sends a chunk if there is room, and no more:
\* it returns before the line that calls Send().
MultiPart_send ==
  /\ pc = "idle"
  /\ multiPartMode
  /\ QueFreeSpace > 2 * MultipartSafetyZone
  /\ LET done == multipartReadIndex + chunkSize >= oversize
     IN  /\ Push(HeaderLength + chunkSize)
         /\ multipartReadIndex' = IF done THEN 0 ELSE multipartReadIndex + chunkSize
         /\ multipartChunkIndex' = IF done THEN 0 ELSE multipartChunkIndex + 1
         /\ oversize' = IF done THEN 0 ELSE oversize
  /\ UNCHANGED <<listVars, loadVars, payload, localVars>>

Begin(sampleFrames) ==
  /\ pc = "idle"
  /\ ~multiPartMode
  /\ freeSpace' = QueFreeSpace
  /\ sentData' = FALSE
  /\ size' = 0
  /\ cumulativesampleFrames' = cumulativesampleFrames + sampleFrames
  /\ count' = (sfAccumulator + sampleFrames) \div sampleFramesPerClient
  /\ sfAccumulator' = (sfAccumulator + sampleFrames) % sampleFramesPerClient
  /\ pc' = "service"
  /\ UNCHANGED <<listVars, sampleFramesPerClient, multipartVars, payload, queVars>>

totalMessageLength == payload[currentClient] + HeaderLength

isOversize == totalMessageLength + SafetyZone > TotalSpace

\* Mutant of charge: an oversize message is charged what it has written.
chargeWritten == IF isOversize THEN HeaderLength + MultipartPayload ELSE totalMessageLength

\* What a serviced client takes off the free space of the call: an oversize
\* message its whole length, though only its start was written.
charge == totalMessageLength

mayService == currentClient # NoClient /\ count > 0

\* What the loop does with the current client, however it was sent.
Advance ==
  /\ dirty' = dirty \ {currentClient}
  /\ sentData' = TRUE
  /\ freeSpace' = freeSpace - charge
  /\ currentClient' = next_[currentClient]
  /\ count' = count - 1
  /\ servicedCount' = servicedCount + 1
  /\ UNCHANGED <<waitingClientsHead, waitingClientsTail, next_, inQue, loadVars, payload, pc, size>>

roomForStart == mayService /\ isOversize /\ SafetyZone < freeSpace
roomForMessage == mayService /\ ~isOversize /\ totalMessageLength + SafetyZone <= freeSpace

startMultiPartSend ==
  /\ pc = "service"
  /\ roomForStart
  /\ oversize' = totalMessageLength
  /\ Push(HeaderLength + MultipartPayload)
  /\ multipartChunkIndex' = 1
  /\ UNCHANGED multipartReadIndex
  /\ Advance

ServiceClient ==
  /\ pc = "service"
  /\ roomForMessage
  /\ Push(totalMessageLength)
  /\ UNCHANGED multipartVars
  /\ Advance

\* The service loop ends; a call that does not end the GUI frame returns.
EndService ==
  /\ pc = "service"
  /\ ~roomForStart
  /\ ~roomForMessage
  /\ IF cumulativesampleFrames > SampleFramesPerCycle
       THEN /\ cumulativesampleFrames' = cumulativesampleFrames % SampleFramesPerCycle
            /\ pc' = "remove"
            /\ UNCHANGED queVars
       ELSE /\ pc' = "idle"
            /\ SendIf(sentData)
            /\ UNCHANGED cumulativesampleFrames
  /\ UNCHANGED <<listVars, sampleFramesPerClient, sfAccumulator, multipartVars, payload,
                 freeSpace, count, sentData, size>>

\* Mutant of tailAfter: the tail is left on a client that is gone.
tailKept(head) == waitingClientsTail

\* "if we processed them all, null the tail"
tailAfter(head) == IF head = NoClient THEN NoClient ELSE waitingClientsTail

\* The GUI frame ends: serviced clients leave, or queue again if they changed.
RemoveServiced ==
  /\ pc = "remove"
  /\ servicedCount > 0
  /\ LET waiter == waitingClientsHead
         head == next_[waiter]
         tail == tailAfter(head)
     IN  IF waiter \in dirty
           THEN Enqueue(waiter, head, tail, inQue \ {waiter})
           ELSE /\ waitingClientsHead' = head
                /\ waitingClientsTail' = tail
                /\ inQue' = inQue \ {waiter}
                /\ UNCHANGED <<currentClient, next_>>
  /\ size' = size + 1
  /\ servicedCount' = servicedCount - 1
  /\ UNCHANGED <<dirty, loadVars, multipartVars, payload, pc, freeSpace, count, sentData, queVars>>

\* Mutant of resumeAt: clients that joined after the last turn are not found.
resumeNowhere == currentClient

\* Where the next GUI frame starts.
resumeAt == IF currentClient = NoClient THEN waitingClientsHead ELSE currentClient

\* The estimate of how long to wait between clients.
framesPerClient(clients) == MaxOf(1, SampleFramesPerCycle \div MaxOf(FewestClients, clients))

EndCycle ==
  /\ pc = "remove"
  /\ servicedCount = 0
  /\ currentClient' = resumeAt
  /\ sampleFramesPerClient' =
       (sampleFramesPerClient + framesPerClient(size + Cardinality(DOMAIN line))) \div 2
  /\ SendIf(sentData)
  /\ pc' = "idle"
  /\ UNCHANGED <<waitingClientsHead, waitingClientsTail, next_, inQue, dirty, servicedCount,
                 cumulativesampleFrames, sfAccumulator, multipartVars, payload,
                 freeSpace, count, sentData, size>>

-----------------------------------------------------------------------------
\* The owner deletes the clients and calls Reset(); clients made later start
\* afresh.  What Reset() leaves alone stays.
Reset ==
  /\ pc = "idle"
  /\ waitingClientsHead' = NoClient
  /\ waitingClientsTail' = NoClient
  /\ currentClient' = NoClient
  /\ servicedCount' = 0
  /\ cumulativesampleFrames' = 0
  /\ next_' = [c \in Clients |-> NoClient]
  /\ inQue' = {}
  /\ dirty' = {}
  /\ UNCHANGED <<sampleFramesPerClient, sfAccumulator, multipartVars, payload, localVars, queVars>>

\* The other thread takes n of the bytes that were sent.
Consume(n) ==
  /\ n <= ready
  /\ ready' = ready - n
  /\ UNCHANGED <<listVars, loadVars, multipartVars, payload, localVars, unsent>>

Service ==
  \/ \E f \in SampleFrames : Begin(f)
  \/ MultiPart_send
  \/ startMultiPartSend
  \/ ServiceClient
  \/ EndService
  \/ RemoveServiced
  \/ EndCycle

Next ==
  \/ \E c \in Clients, n \in Payloads : AddWaiter(c, n)
  \/ Service
  \/ Reset
  \/ \E n \in 1..TotalSpace : Consume(n)

Spec == Init /\ [][Next]_vars

\* The host calls the service routine again and again and the other thread
\* keeps emptying the fifo.
FairSpec ==
  /\ Spec
  /\ WF_vars(Service)
  /\ WF_vars(\E n \in 1..TotalSpace : n = ready /\ Consume(n))

-----------------------------------------------------------------------------
(* Properties *)

\* Every variable has its type.
TypeOK ==
  /\ {waitingClientsHead, waitingClientsTail, currentClient} \subseteq Clients \cup {NoClient}
  /\ next_ \in [Clients -> Clients \cup {NoClient}]
  /\ inQue \subseteq Clients
  /\ dirty \subseteq Clients
  /\ payload \in [Clients -> Payloads]
  /\ pc \in {"idle", "service", "remove"}
  /\ sentData \in BOOLEAN
  /\ {servicedCount, cumulativesampleFrames, sfAccumulator, oversize, multipartChunkIndex,
      multipartReadIndex, count, size, unsent, ready} \subseteq Nat
  /\ sampleFramesPerClient \in Nat \ {0}
  /\ freeSpace \in Int

\* The pointer into the list and the count of serviced clients agree: the
\* current client is the first not serviced, or none when the frame's work was
\* done before it joined.
CurrentIsFirstUnserviced ==
  currentClient # NoClient =>
    /\ servicedCount < Cardinality(DOMAIN line)
    /\ currentClient = line[servicedCount + 1]

\* The list is well formed: from the head the links lead through exactly the
\* clients flagged inQue_, each once, to the tail, and the pointer into it is
\* where the count says.
ListIsSound ==
  /\ TypeOK
  /\ CurrentIsFirstUnserviced
  /\ inQue = { line[i] : i \in DOMAIN line }
  /\ Cardinality(inQue) = Cardinality(DOMAIN line)
  /\ waitingClientsTail = IF line = <<>> THEN NoClient ELSE line[Cardinality(DOMAIN line)]
  /\ waitingClientsTail # NoClient => next_[waitingClientsTail] = NoClient

\* "not all que users check size first": a call never fills the fifo past the
\* free space it saw, and leaves the safety zone when it sends no big message.
NeverOverfills ==
  /\ unsent + ready <= TotalSpace
  /\ pc # "idle" /\ ~multiPartMode /\ sentData => unsent + ready + SafetyZone <= TotalSpace

\* A message that is being sent in chunks is never overwritten by the next one.
OversizeNotOverwritten == [][startMultiPartSend => ~multiPartMode]_vars

\* The line is the first-come first-served line of WaiterQueue.
Line == INSTANCE WaiterQueue WITH waiting <- line, serviced <- servicedCount

\* The linked list, the current pointer and the counters implement that line:
\* no update is lost or sent twice.
ImplementsWaiterQueue == Line!Spec

\* A client that changed is serviced in the end, if every message fits the fifo.
EveryUpdateIsServiced == \A c \in Clients : c \in dirty ~> c \notin dirty

\* "if queue is full or nearly, just rety later": a message sent in chunks is
\* sent completely in the end.
MultipartFinishes == multiPartMode ~> ~multiPartMode

=============================================================================
