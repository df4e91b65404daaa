----------------------------- MODULE PartsProofs -----------------------------
(***************************************************************************)
(* The parts that MCParts explores on small instances, for any number of   *)
(* editors, parameters, objects, pins, views and XMLs: the host's gestures *)
(* balance, presets give back what was saved, an object lives exactly as   *)
(* long as a pointer holds it, and what a plugin's XML asks for is found.  *)
(***************************************************************************)
EXTENDS IndependentParts, SequenceLemmas

-----------------------------------------------------------------------------
(* Grabs *)

GestureOf(p) == IF p \in isGrabbed \cap DawParameters THEN 1 ELSE 0

\* GesturesBalance together with what the flags range over is inductive: the
\* last editor ends the gesture of every grabbed parameter, so none may be
\* grabbed that is not one of Parameters.
GrabsIInv == isGrabbed \subseteq Parameters /\ GesturesBalance

\* The account is in balance after setGrab if it was before, whoever calls it.
LEMMA GrabsBalance ==
  ASSUME NEW ps \in SUBSET Parameters, NEW grabbed \in BOOLEAN,
         isGrabbed \subseteq Parameters,
         gestures = [p \in Parameters |-> GestureOf(p)],
         Grabs!setGrab(ps, grabbed)
  PROVE  /\ isGrabbed' \subseteq Parameters
         /\ isGrabbed' = IF grabbed THEN isGrabbed \cup ps ELSE isGrabbed \ ps
         /\ gestures' = [p \in Parameters |-> GestureOf(p)']
<1>1. isGrabbed' = IF grabbed THEN isGrabbed \cup ps ELSE isGrabbed \ ps
  BY DEF Grabs!setGrab
<1>2. isGrabbed' \subseteq Parameters
  BY <1>1
<1> DEFINE changed == IF grabbed THEN ps \ isGrabbed ELSE ps \cap isGrabbed
           after(p) == IF p \in changed \cap DawParameters
                         THEN gestures[p] + (IF grabbed THEN 1 ELSE -1)
                         ELSE gestures[p]
<1>3. gestures' = [p \in Parameters |-> after(p)]
  BY DEF Grabs!setGrab
<1>4. ASSUME NEW p \in Parameters PROVE after(p) = GestureOf(p)'
  <2>1. gestures[p] = GestureOf(p)
    OBVIOUS
  <2>2. CASE grabbed
    BY <1>1, <2>1, <2>2 DEF GestureOf
  <2>3. CASE ~grabbed
    BY <1>1, <2>1, <2>3 DEF GestureOf
  <2>4. QED
    BY <2>2, <2>3
<1>5. gestures' = [p \in Parameters |-> GestureOf(p)']
  BY <1>3, <1>4
<1>6. QED
  BY <1>1, <1>2, <1>5

\* At any time, for any number of editors, the host has one gesture open for
\* each of its parameters that is grabbed, and none without an editor.
THEOREM GesturesAlwaysBalance == Grabs!Spec => []GesturesBalance
<1>1. Grabs!Init => GrabsIInv
  BY DEF Grabs!Init, GrabsIInv, GesturesBalance, Grabs!GesturesBalance
<1>2. GrabsIInv /\ [Grabs!Next]_Grabs!vars => GrabsIInv'
  <2> SUFFICES ASSUME GrabsIInv, [Grabs!Next]_Grabs!vars
               PROVE  GrabsIInv'
    OBVIOUS
  <2>1. /\ isGrabbed \subseteq Parameters
        /\ gestures = [p \in Parameters |-> GestureOf(p)]
        /\ m_editors = {} => isGrabbed = {}
    BY DEF GrabsIInv, GesturesBalance, Grabs!GesturesBalance, GestureOf
  <2>2. ASSUME isGrabbed' \subseteq Parameters,
               gestures' = [p \in Parameters |-> GestureOf(p)'],
               m_editors' = {} => isGrabbed' = {}
        PROVE  GrabsIInv'
    BY <2>2 DEF GrabsIInv, GesturesBalance, Grabs!GesturesBalance, GestureOf
  <2>3. ASSUME UNCHANGED <<isGrabbed, gestures>>
        PROVE  isGrabbed' \subseteq Parameters /\ gestures' = [p \in Parameters |-> GestureOf(p)']
    BY <2>1, <2>3 DEF GestureOf
  <2>4. ASSUME NEW e \in Editors, Grabs!initUi(e)
        PROVE  GrabsIInv'
    BY <2>1, <2>2, <2>3, <2>4 DEF Grabs!initUi
  <2>5. ASSUME NEW e \in Editors, NEW p \in Parameters, Grabs!Press(e, p)
        PROVE  GrabsIInv'
    BY <2>1, <2>2, <2>5, GrabsBalance DEF Grabs!Press
  <2>6. ASSUME NEW e \in Editors, NEW p \in Parameters, Grabs!Release(e, p)
        PROVE  GrabsIInv'
    <3>1. Grabs!setGrab({p}, FALSE) /\ m_editors' = m_editors
      BY <2>6 DEF Grabs!Release
    <3>2. /\ isGrabbed' \subseteq Parameters
          /\ isGrabbed' = isGrabbed \ {p}
          /\ gestures' = [q \in Parameters |-> GestureOf(q)']
      BY <2>1, <3>1, GrabsBalance
    <3>3. QED
      BY <2>1, <2>2, <3>1, <3>2
  <2>7. ASSUME NEW e \in Editors, Grabs!unRegisterGui(e)
        PROVE  GrabsIInv'
    <3>1. CASE m_editors = {e}
      <4>1. Grabs!setGrab(Parameters, FALSE)
        BY <2>7, <3>1 DEF Grabs!unRegisterGui
      <4>2. /\ isGrabbed' = isGrabbed \ Parameters
            /\ gestures' = [p \in Parameters |-> GestureOf(p)']
        BY <2>1, <4>1, GrabsBalance
      <4>3. isGrabbed' = {}
        BY <2>1, <4>2
      <4>4. QED
        BY <2>2, <4>2, <4>3
    <3>2. CASE m_editors # {e}
      <4>1. UNCHANGED <<isGrabbed, gestures>> /\ m_editors' # {}
        BY <2>7, <3>2 DEF Grabs!unRegisterGui
      <4>2. QED
        BY <2>2, <2>3, <4>1
    <3>3. QED
      BY <3>1, <3>2
  <2>8. CASE UNCHANGED Grabs!vars
    BY <2>1, <2>2, <2>3, <2>8 DEF Grabs!vars
  <2>9. QED
    BY <2>4, <2>5, <2>6, <2>7, <2>8 DEF Grabs!Next
<1>3. GrabsIInv => GesturesBalance
  BY DEF GrabsIInv
<1>4. QED
  BY <1>1, <1>2, <1>3, PTL DEF Grabs!Spec

-----------------------------------------------------------------------------
(* Presets *)

\* A document that nobody has edited is the one its store was written to.
DocumentIsSaved ==
  saved # Missing =>
    document = [p \in StoreParameters |->
                  IF p \in NonStateful THEN Missing ELSE Store!toXml(p, saved[p])]

StoreIInv == Store!InstanceFollowsStore /\ DocumentIsSaved

\* A document is read to values.
LEMMA ReadsValues ==
  ASSUME Store!PresetsAssumption, Store!TypeOK
  PROVE  Store!readPresetXml(document) \in [StoreParameters -> Values]
<1>1. CASE document = Store!NotAPreset
  BY <1>1 DEF Store!TypeOK, Store!readPresetXml
<1>2. CASE document # Store!NotAPreset
  <2>1. document \in [StoreParameters -> [base64 : BOOLEAN, of : Values] \cup {Missing, NoText}]
    BY <1>2 DEF Store!TypeOK
  <2> DEFINE of(p) ==
        IF p \in NonStateful THEN parameters[p]
        ELSE IF document[p] = Missing THEN (IF Store!mayReset(p) THEN Default ELSE parameters[p])
        ELSE IF document[p] = NoText THEN parameters[p]
        ELSE Store!setFromXml(p, document[p])
  <2>2. ASSUME NEW p \in StoreParameters PROVE of(p) \in Values
    BY <2>1 DEF Store!TypeOK, Store!PresetsAssumption, Store!setFromXml
  <2>3. Store!readPresetXml(document) = [p \in StoreParameters |-> of(p)]
    BY <1>2 DEF Store!readPresetXml
  <2>4. QED
    BY <2>2, <2>3
<1>3. QED
  BY <1>1, <1>2

\* The presets' invariant.
LEMMA StoreInvariance ==
  ASSUME Store!PresetsAssumption
  PROVE  Store!Spec => []StoreIInv
<1> USE DEF Store!PresetsAssumption
<1>1. Store!Init => StoreIInv
  <2> SUFFICES ASSUME Store!Init PROVE StoreIInv
    OBVIOUS
  <2>1. /\ parameters \in [StoreParameters -> Values] /\ document = Store!NotAPreset
        /\ saved = Missing /\ running = FALSE
    BY DEF Store!Init
  <2>2. {events, pins} \subseteq [Inputs -> Values \cup {NoValue}]
    BY DEF Store!Init
  <2>3. Store!InstanceFollowsStore
    BY <2>1, <2>2 DEF Store!InstanceFollowsStore, Store!TypeOK
  <2>4. QED
    BY <2>1, <2>3 DEF StoreIInv, DocumentIsSaved
<1>2. StoreIInv /\ [Store!Next]_Store!vars => StoreIInv'
  <2> SUFFICES ASSUME StoreIInv, [Store!Next]_Store!vars PROVE StoreIInv'
    OBVIOUS
  <2> USE DEF StoreIInv, Store!InstanceFollowsStore, Store!TypeOK, DocumentIsSaved
  <2>1. ASSUME NEW p \in StoreParameters, NEW value \in Values, Store!SetParameter(p, value)
        PROVE  StoreIInv'
    BY <2>1 DEF Store!SetParameter
  <2>2. CASE Store!Stop
    BY <2>2 DEF Store!Stop
  <2>3. CASE Store!getPresetUnsafe
    BY <2>3 DEF Store!getPresetUnsafe, Store!writePresetXml, Store!toXml
  <2>4. CASE Store!EditDocument
    <3>1. \A p \in StoreParameters, v \in Values : Store!toXml(p, v) \in [base64 : BOOLEAN, of : Values]
      BY DEF Store!toXml
    <3>2. document \in [StoreParameters -> [base64 : BOOLEAN, of : Values] \cup {Missing, NoText}]
      BY <2>4, <3>1 DEF Store!EditDocument
    <3>3. ASSUME NEW p \in StoreParameters,
                 NEW text \in {Missing, NoText} \cup { Store!toXml(q, v) : q \in StoreParameters, v \in Values },
                 document' = [document EXCEPT ![p] = text]
          PROVE  document' \in [StoreParameters -> [base64 : BOOLEAN, of : Values] \cup {Missing, NoText}]
      <4>1. text \in [base64 : BOOLEAN, of : Values] \cup {Missing, NoText}
        BY <3>1
      <4>2. QED
        BY <3>2, <3>3, <4>1
    <3>4. \/ document' \in [StoreParameters -> [base64 : BOOLEAN, of : Values] \cup {Missing, NoText}]
          \/ document' = Store!NotAPreset
      <4>1. document' = [p \in StoreParameters |-> Missing] =>
              document' \in [StoreParameters -> [base64 : BOOLEAN, of : Values] \cup {Missing, NoText}]
        OBVIOUS
      <4>2. QED
        BY <2>4, <3>3, <4>1 DEF Store!EditDocument
    <3>5. saved' = Missing /\ UNCHANGED <<parameters, running, events, pins>>
      BY <2>4 DEF Store!EditDocument
    <3>6. QED
      BY <3>4, <3>5 DEF Store!NotAPreset
  <2>5. CASE Store!setPresetUnsafe
    BY <2>5, ReadsValues DEF Store!setPresetUnsafe
  <2>6. CASE Store!start_processor
    BY <2>6 DEF Store!start_processor
  <2>7. CASE Store!process
    BY <2>7 DEF Store!process
  <2>8. CASE UNCHANGED Store!vars
    BY <2>8 DEF Store!vars
  <2>9. QED
    BY <2>1, <2>2, <2>3, <2>4, <2>5, <2>6, <2>7, <2>8 DEF Store!Next
<1>3. QED
  BY <1>1, <1>2, PTL DEF Store!Spec

\* An instance of the processor has the store's values on its pins.
THEOREM InstanceAlwaysFollows == Store!Spec => []InstanceFollowsStore
<1>0. Store!PresetsAssumption
  BY PartsAssumption
<1> USE <1>0
<1>1. StoreIInv => InstanceFollowsStore
  BY DEF StoreIInv, InstanceFollowsStore
<1>2. QED
  BY <1>1, StoreInvariance, PTL

\* Reading a preset brings back what was written; a text that is no preset
\* changes nothing and an empty one resets what the plugin saves.
THEOREM RestoresAreFaithful == Store!Spec => RestoreGivesWhatWasSaved
<1>0. Store!PresetsAssumption
  BY PartsAssumption
<1> USE <1>0
<1> DEFINE Own == StoreParameters \ (NonStateful \cup HostParameters)
<1>1. ASSUME StoreIInv, Store!setPresetUnsafe
      PROVE  /\ saved # Missing => \A p \in Own : parameters'[p] = saved[p]
             /\ document = Store!NotAPreset => parameters' = parameters
             /\ document = [p \in StoreParameters |-> Missing] => \A p \in Own : parameters'[p] = Default
  <2>1. parameters' = Store!readPresetXml(document)
    BY <1>1 DEF Store!setPresetUnsafe
  <2>2. ASSUME saved # Missing, NEW p \in Own PROVE parameters'[p] = saved[p]
    <3>1. document = [q \in StoreParameters |-> IF q \in NonStateful THEN Missing ELSE Store!toXml(q, saved[q])]
      BY <1>1, <2>2 DEF StoreIInv, DocumentIsSaved
    <3>2. saved \in [StoreParameters -> Values]
      BY <1>1, <2>2 DEF StoreIInv, Store!InstanceFollowsStore, Store!TypeOK
    <3>3. document[p] = Store!toXml(p, saved[p]) /\ Store!toXml(p, saved[p]) \in [base64 : BOOLEAN, of : Values]
      BY <3>1, <3>2 DEF Store!toXml
    <3>4. document # Store!NotAPreset
      BY <3>1 DEF Store!NotAPreset
    <3>5. Store!readPresetXml(document)[p] = Store!setFromXml(p, document[p])
      BY <3>3, <3>4 DEF Store!readPresetXml, Store!PresetsAssumption
    <3>6. Store!setFromXml(p, Store!toXml(p, saved[p])) = saved[p]
      BY DEF Store!setFromXml, Store!toXml
    <3>7. QED
      BY <2>1, <3>3, <3>5, <3>6
  <2>3. ASSUME document = [q \in StoreParameters |-> Missing], NEW p \in Own
        PROVE  parameters'[p] = Default
    <3>1. document # Store!NotAPreset /\ document[p] = Missing
      BY <2>3 DEF Store!NotAPreset
    <3>2. QED
      BY <2>1, <3>1 DEF Store!readPresetXml, Store!mayReset
  <2>4. document = Store!NotAPreset => parameters' = parameters
    BY <2>1 DEF Store!readPresetXml
  <2>5. QED
    BY <2>2, <2>3, <2>4
<1>2. StoreIInv /\ [Store!Next]_Store!vars
        => [Store!setPresetUnsafe =>
              /\ saved # Missing => \A p \in Own : parameters'[p] = saved[p]
              /\ document = Store!NotAPreset => parameters' = parameters
              /\ document = [p \in StoreParameters |-> Missing]
                   => \A p \in Own : parameters'[p] = Default]_Store!vars
  BY <1>1
<1>3. QED
  BY <1>2, StoreInvariance, PTL
     DEF Store!Spec, RestoreGivesWhatWasSaved, Store!RestoreGivesWhatWasSaved

\* No preset changes a non-stateful value, whatever it says, and a host control
\* takes from a preset only the value that the preset names for it: nothing that
\* belongs to the session is reset, and nothing else gets into it.
THEOREM PresetsNeverTouchTheSession == Store!Spec => PresetsLeaveSessionValuesAlone
<1>0. Store!PresetsAssumption
  BY PartsAssumption
<1> USE <1>0
<1> DEFINE Kept(p) == parameters'[p] = parameters[p]
           Named(p) == /\ document # Store!NotAPreset /\ document[p] \notin {Missing, NoText}
                       /\ parameters'[p] = Store!setFromXml(p, document[p])
<1>1. ASSUME Store!setPresetUnsafe, NEW p \in NonStateful
      PROVE  Kept(p)
  BY <1>1 DEF Store!setPresetUnsafe, Store!readPresetXml, Store!PresetsAssumption
<1>2. ASSUME Store!setPresetUnsafe, NEW p \in HostParameters
      PROVE  Kept(p) \/ Named(p)
  <2>1. parameters' = Store!readPresetXml(document) /\ p \in StoreParameters \ NonStateful
    BY <1>2 DEF Store!setPresetUnsafe, Store!PresetsAssumption
  <2>2. CASE document = Store!NotAPreset
    BY <2>1, <2>2 DEF Store!readPresetXml
  <2>3. CASE document # Store!NotAPreset /\ document[p] \in {Missing, NoText}
    BY <1>2, <2>1, <2>3 DEF Store!readPresetXml, Store!mayReset
  <2>4. CASE document # Store!NotAPreset /\ document[p] \notin {Missing, NoText}
    BY <2>1, <2>4 DEF Store!readPresetXml
  <2>5. QED
    BY <2>2, <2>3, <2>4
<1>3. [Store!Next]_Store!vars
        => [Store!setPresetUnsafe =>
              /\ \A p \in NonStateful : parameters'[p] = parameters[p]
              /\ \A p \in HostParameters :
                   \/ parameters'[p] = parameters[p]
                   \/ /\ document # Store!NotAPreset /\ document[p] \notin {Missing, NoText}
                      /\ parameters'[p] = Store!setFromXml(p, document[p])]_Store!vars
  BY <1>1, <1>2
<1>4. QED
  BY <1>3, PTL
     DEF Store!Spec, PresetsLeaveSessionValuesAlone, Store!PresetsLeaveSessionValuesAlone

-----------------------------------------------------------------------------
(* Counted references *)

One(condition) == IF condition THEN 1 ELSE 0

\* The operators of FiniteSets are the same in every module.
LEMMA SameFiniteSets ==
  \A S : (Counts!IsFiniteSet(S) <=> IsFiniteSet(S)) /\ Counts!Cardinality(S) = Cardinality(S)
BY DEF Counts!IsFiniteSet, IsFiniteSet, Counts!Cardinality, Cardinality

OwnersIn(holds, o) == { p \in Counts!Pointers : holds[p] = o }

Given(holds, p, new, later) == later = [holds EXCEPT ![p] = new]

\* A pointer that is given something else leaves the owners of what it held
\* and joins those of what it gets.
LEMMA OwnersChange ==
  ASSUME Counts!ReferencesAssumption,
         NEW holds \in [Counts!Pointers -> Objects \cup {nullptr}],
         NEW p \in Counts!Pointers, NEW new, NEW o,
         NEW later, Given(holds, p, new, later)
  PROVE  /\ Cardinality(OwnersIn(holds, o)) \in Nat /\ Cardinality(OwnersIn(later, o)) \in Nat
         /\ Cardinality(OwnersIn(later, o)) + One(holds[p] = o)
              = Cardinality(OwnersIn(holds, o)) + One(new = o)
<1> DEFINE before == OwnersIn(holds, o)
           after == OwnersIn(later, o)
<1>1. IsFiniteSet(before)
  BY FS_Subset, SameFiniteSets DEF Counts!ReferencesAssumption, OwnersIn, Counts!Pointers
<1>2. Cardinality(before) \in Nat
  BY <1>1, FS_CardinalityType
<1>3. p \in before <=> holds[p] = o
  BY DEF OwnersIn
<1>4. CASE new = o
  <2>1. after = before \cup {p}
    BY <1>4 DEF OwnersIn, Given
  <2>2. Cardinality(after) = IF p \in before THEN Cardinality(before) ELSE Cardinality(before) + 1
    BY <1>1, <2>1, FS_AddElement
  <2> HIDE DEF before, after
  <2>3. QED
    BY <1>2, <1>3, <1>4, <2>2 DEF One, before, after
<1>5. CASE new # o
  <2>1. after = before \ {p}
    BY <1>5 DEF OwnersIn, Given
  <2>2. Cardinality(after) = IF p \in before THEN Cardinality(before) - 1 ELSE Cardinality(before)
    BY <1>1, <2>1, FS_RemoveElement
  <2>3. Cardinality(after) \in Nat
    BY <1>1, <2>1, FS_RemoveElement, FS_CardinalityType
  <2> HIDE DEF before, after
  <2>4. QED
    BY <1>2, <1>3, <1>5, <2>2, <2>3 DEF One, before, after
<1>6. QED
  BY <1>4, <1>5

\* An object with a pointer to it has an owner, with two pointers two.
LEMMA SomeOwner ==
  ASSUME Counts!ReferencesAssumption, NEW o
  PROVE  /\ Cardinality(Counts!Owners(o)) \in Nat
         /\ \A p \in Counts!Owners(o) : Cardinality(Counts!Owners(o)) >= 1
         /\ \A p, q \in Counts!Owners(o) : p # q => Cardinality(Counts!Owners(o)) >= 2
         /\ Cardinality(Counts!Owners(o)) = 0 => Counts!Owners(o) = {}
<1> DEFINE owners == Counts!Owners(o)
<1>1. IsFiniteSet(owners)
  BY FS_Subset, SameFiniteSets DEF Counts!ReferencesAssumption, Counts!Owners, Counts!Pointers
<1> HIDE DEF owners
<1>2. Cardinality(owners) \in Nat /\ (Cardinality(owners) = 0 <=> owners = {})
  BY <1>1, FS_CardinalityType, FS_EmptySet
<1>3. ASSUME NEW p \in owners, NEW q \in owners, p # q PROVE Cardinality(owners) >= 2
  <2>1. Cardinality(owners) # 1
    BY <1>1, <1>3, FS_Singleton
  <2>2. QED
    BY <1>2, <1>3, <2>1
<1>4. QED
  BY <1>2, <1>3 DEF owners

Object == Objects \cup {nullptr}

Call == {"release", "addRef"} \X Objects

\* What is under way: the release of x, of what a pointer held before, and the
\* addRef of n, of what it holds now; nullptr for none.
Balance(x, n) ==
  \A o \in Objects :
    refCount2_[o] + One(n = o) = Cardinality(Counts!Owners(o)) + One(x = o)

\* n outlives the release of x and what follows from it: two pointers that
\* no release touches hold it; or x is not deleted; or x holds n, and what x
\* had is not the last reference.
Kept(x, n) ==
  \/ \E p, q \in Counts!Owners(n) : p # q /\ Counts!InScope(p) /\ Counts!InScope(q)
  \/ x # n /\ x # nullptr /\ refCount2_[x] >= 2 /\ refCount2_[n] >= 1
  \/ x # n /\ x # nullptr /\ obj[x] = n /\ refCount2_[n] >= 2
  \/ x = n /\ refCount2_[n] >= 2
  \/ x = nullptr /\ refCount2_[n] >= 1

ReleaseFirst(x, n) ==
  /\ todo = Counts!released(x) \o Counts!added(n)
  /\ n # nullptr => Kept(x, n)

AddFirst(x, n) ==
  /\ todo = Counts!added(n) \o Counts!released(x)
  /\ n # nullptr => refCount2_[n] >= 1

CountsIInv ==
  /\ refCount2_ \in [Objects -> Nat]
  /\ obj \in [Counts!Pointers -> Object]
  /\ usedDeleted = FALSE
  /\ \E x, n \in Object : Balance(x, n) /\ (ReleaseFirst(x, n) \/ AddFirst(x, n))

\* The calls that assign and queryInterface make, in their order.
LEMMA CallsInOrder ==
  ASSUME NEW x \in Object, NEW calls \in Seq(Call)
  PROVE  /\ Counts!released(x) \in Seq(Call) /\ Counts!added(x) \in Seq(Call)
         /\ Counts!released(x) \o calls \in Seq(Call) /\ Counts!added(x) \o calls \in Seq(Call)
         /\ Counts!released(nullptr) \o calls = calls /\ Counts!added(nullptr) \o calls = calls
         /\ calls \o Counts!released(nullptr) = calls /\ calls \o Counts!added(nullptr) = calls
         /\ x # nullptr =>
              /\ Counts!released(x) \o calls # <<>>
              /\ Head(Counts!released(x) \o calls) = <<"release", x>>
              /\ Tail(Counts!released(x) \o calls) = calls
              /\ Counts!added(x) \o calls # <<>>
              /\ Head(Counts!added(x) \o calls) = <<"addRef", x>>
              /\ Tail(Counts!added(x) \o calls) = calls
<1>1. ASSUME NEW call \in Call
      PROVE  /\ <<call>> \in Seq(Call)
             /\ <<call>> \o calls \in Seq(Call)
             /\ <<call>> \o calls # <<>>
             /\ Head(<<call>> \o calls) = call
             /\ Tail(<<call>> \o calls) = calls
  OBVIOUS
<1>2. <<>> \in Seq(Call) /\ <<>> \o calls = calls /\ calls \o <<>> = calls
  OBVIOUS
<1>3. x # nullptr => <<"release", x>> \in Call /\ <<"addRef", x>> \in Call
  BY DEF Object, Call
<1>4. QED
  BY <1>1, <1>2, <1>3 DEF Counts!released, Counts!added

\* At first nothing is allocated and nothing is to be called.
LEMMA InitCounts ==
  ASSUME Counts!ReferencesAssumption, Counts!Init
  PROVE  CountsIInv
<1>1. refCount2_ \in [Objects -> Nat] /\ obj \in [Counts!Pointers -> Object] /\ usedDeleted = FALSE
  BY DEF Counts!Init, Object
<1>2. \A o \in Objects : Counts!Owners(o) = {}
  BY DEF Counts!Init, Counts!Owners, Counts!ReferencesAssumption
<1>3. Balance(nullptr, nullptr)
  BY <1>2, FS_EmptySet DEF Counts!Init, Balance, One
<1>4. AddFirst(nullptr, nullptr)
  BY DEF Counts!Init, AddFirst, Counts!added, Counts!released
<1>5. QED
  BY <1>1, <1>3, <1>4 DEF CountsIInv, Object

\* With nothing to do every object has as many references as owners.
LEMMA Rest ==
  ASSUME Counts!ReferencesAssumption, CountsIInv, todo = <<>>
  PROVE  \A o \in Objects : refCount2_[o] = Cardinality(Counts!Owners(o))
<1>1. PICK x \in Object, n \in Object : Balance(x, n) /\ (ReleaseFirst(x, n) \/ AddFirst(x, n))
  BY DEF CountsIInv
<1>2. x = nullptr /\ n = nullptr
  <2>1. <<>> \in Seq(Call)
    OBVIOUS
  <2>2. Counts!released(x) \in Seq(Call) /\ Counts!added(n) \in Seq(Call)
    BY <2>1, CallsInOrder
  <2>3. (x # nullptr => Counts!released(x) \o Counts!added(n) # <<>>)
          /\ (n # nullptr => Counts!added(n) \o Counts!released(x) # <<>>)
    BY <2>2, CallsInOrder
  <2>4. CASE x # nullptr
    <3>1. CASE n = nullptr
      <4>1. Counts!added(n) \o Counts!released(x) = Counts!released(x) \o Counts!added(n)
        BY <2>2, <3>1, CallsInOrder
      <4>2. QED
        BY <1>1, <2>3, <2>4, <4>1 DEF ReleaseFirst, AddFirst
    <3>2. QED
      BY <1>1, <2>3, <2>4, <3>1 DEF ReleaseFirst, AddFirst
  <2>5. CASE x = nullptr /\ n # nullptr
    <3>1. Counts!added(n) \o Counts!released(x) = Counts!released(x) \o Counts!added(n)
      BY <2>2, <2>5, CallsInOrder
    <3>2. QED
      BY <1>1, <2>3, <2>5, <3>1 DEF ReleaseFirst, AddFirst
  <2>6. QED
    BY <2>4, <2>5
<1>3. QED
  BY <1>1, <1>2, SomeOwner DEF Balance, One, CountsIInv, Counts!ReferencesAssumption

\* A pointer in scope is held through every release: no local variable goes,
\* and what a local variable holds has an owner.
LEMMA ScopeStays ==
  ASSUME Counts!ReferencesAssumption, CountsIInv, NEW o \in Objects,
         obj' = [obj EXCEPT ![o] = nullptr], NEW p \in Counts!Pointers, Counts!InScope(p)
  PROVE  Counts!InScope(p)'
BY DEF Counts!ReferencesAssumption, CountsIInv, Counts!InScope, Counts!Owners, Counts!Pointers

\* The releases come one after the other.
LEMMA StepRelease ==
  ASSUME Counts!ReferencesAssumption, CountsIInv, NEW o \in Objects, Counts!release(o)
  PROVE  CountsIInv'
<1>1. refCount2_ \in [Objects -> Nat] /\ obj \in [Counts!Pointers -> Object] /\ usedDeleted = FALSE
  BY DEF CountsIInv
<1>2. PICK x \in Object, n \in Object : Balance(x, n) /\ (ReleaseFirst(x, n) \/ AddFirst(x, n))
  BY DEF CountsIInv
<1>3. nullptr \notin Objects /\ nullptr \in Object /\ Objects \subseteq Counts!Pointers
  BY DEF Counts!ReferencesAssumption, Object, Counts!Pointers
<1> DEFINE adds == Counts!added(n)
<1>4. /\ adds \in Seq(Call) /\ Counts!released(x) \in Seq(Call)
      /\ x # nullptr => /\ Head(Counts!released(x) \o adds) = <<"release", x>>
                        /\ Tail(Counts!released(x) \o adds) = adds
  <2>1. <<>> \in Seq(Call)
    OBVIOUS
  <2>2. adds \in Seq(Call) /\ Counts!released(x) \in Seq(Call)
    BY <2>1, CallsInOrder
  <2>3. QED
    BY <2>2, CallsInOrder
<1>5. x = o /\ ReleaseFirst(x, n) /\ Tail(todo) = adds
  <2>1. todo # <<>> /\ Head(todo) = <<"release", o>>
    BY DEF Counts!release
  <2>2. <<"release", o>> # <<"addRef", n>>
    OBVIOUS
  <2>3. CASE AddFirst(x, n)
    <3>1. n = nullptr
      BY <1>4, <2>1, <2>2, <2>3, CallsInOrder DEF AddFirst
    <3>2. ReleaseFirst(x, n)
      BY <1>4, <2>3, <3>1, CallsInOrder DEF AddFirst, ReleaseFirst
    <3>3. x # nullptr
      BY <1>4, <2>1, <2>3, <3>1, CallsInOrder DEF AddFirst, Counts!released
    <3>4. QED
      BY <1>4, <2>1, <3>2, <3>3 DEF ReleaseFirst
  <2>4. CASE ReleaseFirst(x, n)
    <3>1. x # nullptr
      <4>1. CASE x = nullptr
        <5>1. todo = adds
          BY <1>4, <2>4, <4>1, CallsInOrder DEF ReleaseFirst
        <5>2. QED
          BY <2>1, <2>2, <5>1 DEF Counts!added
      <4>2. QED
        BY <4>1
    <3>2. QED
      BY <1>4, <2>1, <2>4, <3>1 DEF ReleaseFirst
  <2>5. QED
    BY <1>2, <2>3, <2>4
<1>6. \A q \in Objects : refCount2_[q] + One(n = q) = Cardinality(Counts!Owners(q)) + One(o = q)
  BY <1>2, <1>5 DEF Balance
<1>7. \A q : Cardinality(Counts!Owners(q)) \in Nat
  BY SomeOwner
<1>8. n # nullptr => Kept(o, n)
  BY <1>5 DEF ReleaseFirst
<1>9. refCount2_[o] # 0 /\ (n = o => refCount2_[o] >= 2)
  <2>1. CASE n # o
    BY <1>1, <1>6, <1>7, <2>1 DEF One
  <2>2. CASE n = o
    <3>1. CASE \E p, q \in Counts!Owners(n) : p # q
      BY <1>1, <1>6, <1>7, <2>2, <3>1, SomeOwner DEF One
    <3>2. QED
      BY <1>3, <1>8, <2>2, <3>1 DEF Kept
  <2>3. QED
    BY <2>1, <2>2
<1>10. refCount2_' = [refCount2_ EXCEPT ![o] = @ - 1] /\ usedDeleted' = FALSE
  BY <1>1, <1>9 DEF Counts!release
<1>11. refCount2_' \in [Objects -> Nat] /\ \A q \in Objects : refCount2_'[q] = refCount2_[q] - One(o = q)
  BY <1>1, <1>9, <1>10 DEF One
<1>12. CASE refCount2_[o] = 1
  <2>1. obj' = [obj EXCEPT ![o] = nullptr] /\ todo' = Counts!released(obj[o]) \o Tail(todo)
    BY <1>12 DEF Counts!release
  <2>2. obj' \in [Counts!Pointers -> Object]
    BY <1>1, <1>3, <2>1
  <2>3. PICK y \in Object : y = obj[o]
    BY <1>1, <1>3
  <2>4. n # o /\ Counts!Owners(o) = {}
    BY <1>6, <1>7, <1>9, <1>12, SomeOwner DEF One
  <2>5. Balance(y, n)'
    <3> SUFFICES ASSUME NEW q \in Objects
                 PROVE  refCount2_'[q] + One(n = q) = Cardinality(Counts!Owners(q)') + One(y = q)
      BY DEF Balance
    <3>1. Counts!Owners(q) = OwnersIn(obj, q) /\ Counts!Owners(q)' = OwnersIn(obj', q)
      BY DEF Counts!Owners, OwnersIn
    <3>2. obj \in [Counts!Pointers -> Objects \cup {nullptr}] /\ o \in Counts!Pointers
      BY <1>1, <1>3 DEF Object
    <3>3. /\ Cardinality(Counts!Owners(q)') + One(obj[o] = q) = Cardinality(Counts!Owners(q)) + One(nullptr = q)
          /\ Cardinality(Counts!Owners(q)') \in Nat
      <4>1. /\ Cardinality(OwnersIn(obj', q)) + One(obj[o] = q)
                 = Cardinality(OwnersIn(obj, q)) + One(nullptr = q)
            /\ Cardinality(OwnersIn(obj', q)) \in Nat
        <5>1. Given(obj, o, nullptr, obj')
          BY <2>1 DEF Given
        <5>2. QED
          BY <3>2, <5>1, OwnersChange
      <4>2. QED
        BY <3>1, <4>1
    <3>4. QED
      BY <1>1, <1>3, <1>6, <1>7, <1>11, <2>3, <3>3 DEF One
  <2>6. ASSUME n # nullptr PROVE Kept(y, n)'
    <3>1. CASE \E p, q \in Counts!Owners(n) : p # q /\ Counts!InScope(p) /\ Counts!InScope(q)
      <4>1. PICK p \in Counts!Owners(n), q \in Counts!Owners(n) :
              p # q /\ Counts!InScope(p) /\ Counts!InScope(q)
        BY <3>1
      <4>2. ~Counts!InScope(o)
        BY <2>4 DEF Counts!InScope, Counts!ReferencesAssumption
      <4>3. p \in Counts!Owners(n)' /\ q \in Counts!Owners(n)'
        BY <1>1, <2>1, <4>1, <4>2 DEF Counts!Owners
      <4>4. Counts!InScope(p)' /\ Counts!InScope(q)'
        BY <2>1, <4>1, ScopeStays DEF Counts!Owners
      <4>5. QED
        BY <4>1, <4>3, <4>4 DEF Kept
    <3>2. CASE obj[o] = n /\ refCount2_[n] >= 2
      <4>1. n \in Objects /\ y = n
        BY <2>3, <2>6, <3>2 DEF Object
      <4>2. refCount2_'[n] = refCount2_[n]
        BY <1>1, <1>11, <2>4, <4>1 DEF One
      <4>3. QED
        BY <3>2, <4>1, <4>2 DEF Kept
    <3>3. QED
      BY <1>3, <1>8, <1>12, <2>4, <2>6, <3>1, <3>2 DEF Kept
  <2>7. ReleaseFirst(y, n)'
    BY <1>5, <2>1, <2>3, <2>6 DEF ReleaseFirst
  <2>8. QED
    BY <1>10, <1>11, <2>2, <2>5, <2>7 DEF CountsIInv
<1>13. CASE refCount2_[o] # 1
  <2>1. obj' = obj /\ todo' = Tail(todo)
    BY <1>9, <1>13 DEF Counts!release
  <2>2. Balance(nullptr, n)'
    <3> SUFFICES ASSUME NEW q \in Objects
                 PROVE  refCount2_'[q] + One(n = q) = Cardinality(Counts!Owners(q)') + One(nullptr = q)
      BY DEF Balance
    <3>1. Counts!Owners(q)' = Counts!Owners(q)
      BY <2>1 DEF Counts!Owners
    <3>2. QED
      BY <1>1, <1>3, <1>6, <1>7, <1>11, <3>1 DEF One
  <2>3. ASSUME n # nullptr PROVE refCount2_'[n] >= 1
    <3>1. n \in Objects
      BY <2>3 DEF Object
    <3>2. CASE n = o
      BY <1>1, <1>9, <1>11, <3>1, <3>2 DEF One
    <3>3. CASE n # o
      <4>1. refCount2_[n] >= 1
        <5>1. CASE \E p, q \in Counts!Owners(n) : p # q
          BY <1>1, <1>6, <1>7, <3>1, <3>3, <5>1, SomeOwner DEF One
        <5>2. QED
          BY <1>1, <1>3, <1>8, <2>3, <3>1, <3>3, <5>1 DEF Kept
      <4>2. QED
        BY <1>1, <1>11, <3>1, <3>3, <4>1 DEF One
    <3>4. QED
      BY <3>2, <3>3
  <2>4. AddFirst(nullptr, n)'
    <3>1. todo' = adds \o Counts!released(nullptr)
      BY <1>4, <1>5, <2>1, CallsInOrder
    <3>2. QED
      BY <2>3, <3>1 DEF AddFirst
  <2>5. QED
    BY <1>1, <1>3, <1>10, <1>11, <2>1, <2>2, <2>4 DEF CountsIInv
<1>14. QED
  BY <1>12, <1>13

\* A reference is added to an object that is still there.
LEMMA StepAddRef ==
  ASSUME Counts!ReferencesAssumption, CountsIInv, NEW o \in Objects, Counts!addRef(o)
  PROVE  CountsIInv'
<1>1. refCount2_ \in [Objects -> Nat] /\ obj \in [Counts!Pointers -> Object] /\ usedDeleted = FALSE
  BY DEF CountsIInv
<1>2. PICK x \in Object, n \in Object : Balance(x, n) /\ (ReleaseFirst(x, n) \/ AddFirst(x, n))
  BY DEF CountsIInv
<1>3. nullptr \notin Objects /\ nullptr \in Object
  BY DEF Counts!ReferencesAssumption, Object
<1>4. <<>> \in Seq(Call) /\ Counts!added(n) \in Seq(Call) /\ Counts!released(x) \in Seq(Call)
  <2>1. <<>> \in Seq(Call)
    OBVIOUS
  <2>2. QED
    BY <2>1, CallsInOrder
<1>5. todo # <<>> /\ Head(todo) = <<"addRef", o>>
  BY DEF Counts!addRef
<1>6. <<"addRef", o>> # <<"release", x>>
  OBVIOUS
<1>7. AddFirst(x, n)
  <2>1. CASE ReleaseFirst(x, n)
    <3>1. x = nullptr
      BY <1>4, <1>5, <1>6, <2>1, CallsInOrder DEF ReleaseFirst
    <3>2. todo = Counts!added(n) \o Counts!released(x)
      BY <1>4, <2>1, <3>1, CallsInOrder DEF ReleaseFirst
    <3>3. n # nullptr => refCount2_[n] >= 1
      <4>1. ASSUME n # nullptr PROVE refCount2_[n] >= 1
        <5>1. n \in Objects
          BY <4>1 DEF Object
        <5>2. CASE \E p, q \in Counts!Owners(n) : p # q
          <6>1. Cardinality(Counts!Owners(n)) \in Nat /\ Cardinality(Counts!Owners(n)) >= 2
            BY <5>2, SomeOwner
          <6>2. refCount2_[n] + 1 = Cardinality(Counts!Owners(n))
            BY <1>1, <1>2, <1>3, <3>1, <5>1, <6>1 DEF Balance, One
          <6>3. QED
            BY <1>1, <5>1, <6>1, <6>2
        <5>3. QED
          BY <1>1, <2>1, <3>1, <4>1, <5>1, <5>2 DEF ReleaseFirst, Kept
      <4>2. QED
        BY <4>1
    <3>4. QED
      BY <3>2, <3>3 DEF AddFirst
  <2>2. QED
    BY <1>2, <2>1
<1>8. n = o /\ Tail(todo) = Counts!released(x) /\ refCount2_[o] >= 1
  <2>1. CASE n = nullptr
    <3>1. todo = Counts!released(x)
      BY <1>4, <1>7, <2>1, CallsInOrder DEF AddFirst
    <3>2. QED
      BY <1>5, <1>6, <3>1 DEF Counts!released
  <2>2. CASE n # nullptr
    <3>1. /\ Head(Counts!added(n) \o Counts!released(x)) = <<"addRef", n>>
          /\ Tail(Counts!added(n) \o Counts!released(x)) = Counts!released(x)
      BY <1>4, <2>2, CallsInOrder
    <3>2. QED
      BY <1>5, <1>7, <2>2, <3>1 DEF AddFirst
  <2>3. QED
    BY <2>1, <2>2
<1>9. /\ refCount2_' = [refCount2_ EXCEPT ![o] = @ + 1] /\ UNCHANGED <<obj, usedDeleted>>
      /\ todo' = Counts!released(x)
  BY <1>1, <1>8 DEF Counts!addRef
<1>10. refCount2_' \in [Objects -> Nat] /\ \A q \in Objects : refCount2_'[q] = refCount2_[q] + One(o = q)
  BY <1>1, <1>9 DEF One
<1>11. Balance(x, nullptr)'
  <2> SUFFICES ASSUME NEW q \in Objects
               PROVE  refCount2_'[q] + One(nullptr = q) = Cardinality(Counts!Owners(q)') + One(x = q)
    BY DEF Balance
  <2>1. Counts!Owners(q)' = Counts!Owners(q)
    BY <1>9 DEF Counts!Owners
  <2>2. refCount2_[q] + One(o = q) = Cardinality(Counts!Owners(q)) + One(x = q)
    BY <1>2, <1>8 DEF Balance
  <2>3. QED
    BY <1>1, <1>3, <1>10, <2>1, <2>2 DEF One
<1>12. ReleaseFirst(x, nullptr)'
  BY <1>4, <1>9, CallsInOrder DEF ReleaseFirst
<1>13. QED
  BY <1>1, <1>3, <1>9, <1>10, <1>11, <1>12 DEF CountsIInv

\* With nothing to do, a pointer that is given something else owes a release of
\* what it held and an addRef of what it gets.
LEMMA Owed ==
  ASSUME Counts!ReferencesAssumption, CountsIInv, todo = <<>>,
         NEW p \in Counts!Pointers, NEW new \in Object, NEW old \in Object, old = obj[p],
         Given(obj, p, new, obj')
  PROVE  /\ obj' \in [Counts!Pointers -> Object]
         /\ \A o \in Objects : /\ Cardinality(Counts!Owners(o)') \in Nat
                             /\ refCount2_[o] + One(new = o) = Cardinality(Counts!Owners(o)') + One(old = o)
<1>1. obj \in [Counts!Pointers -> Object] /\ obj' \in [Counts!Pointers -> Object]
  BY DEF CountsIInv, Given
<1>2. ASSUME NEW o \in Objects
      PROVE  /\ Cardinality(Counts!Owners(o)') \in Nat
             /\ refCount2_[o] + One(new = o) = Cardinality(Counts!Owners(o)') + One(old = o)
  <2>1. Counts!Owners(o) = OwnersIn(obj, o) /\ Counts!Owners(o)' = OwnersIn(obj', o)
    BY DEF Counts!Owners, OwnersIn
  <2>3. obj \in [Counts!Pointers -> Objects \cup {nullptr}]
    BY <1>1 DEF Object
  <2>4. /\ Cardinality(OwnersIn(obj', o)) \in Nat
        /\ Cardinality(OwnersIn(obj', o)) + One(obj[p] = o) = Cardinality(OwnersIn(obj, o)) + One(new = o)
    BY <2>3, OwnersChange
  <2>5. refCount2_[o] = Cardinality(Counts!Owners(o))
    BY Rest
  <2>6. QED
    BY <2>1, <2>4, <2>5
<1>3. QED
  BY <1>1, <1>2

\* What a pointer in scope holds when nothing is left to do is there.
LEMMA Held ==
  ASSUME Counts!ReferencesAssumption, CountsIInv, todo = <<>>, NEW q \in Counts!Pointers
  PROVE  /\ obj[q] \in Object
         /\ obj[q] # nullptr => obj[q] \in Objects /\ refCount2_[obj[q]] >= 1
<1>1. obj[q] \in Object
  BY DEF CountsIInv
<1>2. ASSUME obj[q] # nullptr PROVE obj[q] \in Objects /\ refCount2_[obj[q]] >= 1
  <2>1. obj[q] \in Objects /\ q \in Counts!Owners(obj[q])
    BY <1>1, <1>2 DEF Object, Counts!Owners
  <2>2. Cardinality(Counts!Owners(obj[q])) >= 1
    BY <2>1, SomeOwner
  <2>3. QED
    BY <2>1, <2>2, Rest
<1>3. QED
  BY <1>1, <1>2

\* A step that changes nothing keeps the invariant.
LEMMA CountsStutter ==
  ASSUME CountsIInv, UNCHANGED <<refCount2_, obj, todo, usedDeleted>>
  PROVE  CountsIInv'
<1>1. UNCHANGED <<refCount2_, obj, todo, usedDeleted>>
  OBVIOUS
<1>2. \A o : Counts!Owners(o)' = Counts!Owners(o)
  BY <1>1 DEF Counts!Owners
<1>3. \A p : Counts!InScope(p)' <=> Counts!InScope(p)
  BY <1>2 DEF Counts!InScope
<1>4. \A x, n : Balance(x, n)' <=> Balance(x, n)
  BY <1>1, <1>2 DEF Balance
<1>5. \A x, n : Kept(x, n)' <=> Kept(x, n)
  BY <1>1, <1>2, <1>3 DEF Kept
<1>6. \A x, n : (ReleaseFirst(x, n)' <=> ReleaseFirst(x, n)) /\ (AddFirst(x, n)' <=> AddFirst(x, n))
  BY <1>1, <1>5 DEF ReleaseFirst, AddFirst
<1>7. QED
  BY <1>1, <1>4, <1>6 DEF CountsIInv

\* An assignment: what is assigned outlives what the assignment releases, if
\* another pointer keeps it.
LEMMA StepCopy ==
  ASSUME Counts!ReferencesAssumption, CountsIInv,
         NEW p \in Counts!Pointers, NEW q \in Counts!Pointers, Counts!copy(p, q),
         Counts!KeptOtherwise(p, q)
  PROVE  CountsIInv'
<1>1. /\ refCount2_ \in [Objects -> Nat] /\ obj \in [Counts!Pointers -> Object] /\ usedDeleted = FALSE
      /\ todo = <<>> /\ Counts!InScope(p) /\ Counts!InScope(q) /\ Counts!KeptOtherwise(p, q)
      /\ refCount2_' = refCount2_ /\ usedDeleted' = FALSE
  BY DEF CountsIInv, Counts!copy
<1>2. CASE obj[q] = obj[p]
  <2>1. UNCHANGED <<obj, todo>>
    BY <1>2 DEF Counts!copy, Counts!assign
  <2>2. QED
    BY <1>1, <2>1, CountsStutter DEF CountsIInv
<1>3. CASE obj[q] # obj[p]
  <2>1. PICK old \in Object, new \in Object : old = obj[p] /\ new = obj[q]
    BY <1>1
  <2>2. obj' = [obj EXCEPT ![p] = new] /\ todo' = Counts!released(old) \o Counts!added(new)
    BY <1>3, <2>1 DEF Counts!copy, Counts!assign
  <2>3. obj' \in [Counts!Pointers -> Object] /\ Balance(old, new)'
    <3>1. Given(obj, p, new, obj')
      BY <2>2 DEF Given
    <3>2. QED
      BY <1>1, <2>1, <3>1, Owed DEF Balance
  <2>4. ASSUME new # nullptr PROVE Kept(old, new)'
    <3>1. new \in Objects /\ refCount2_[new] >= 1
      BY <1>1, <2>1, <2>4, Held
    <3>2. p # q /\ p \in Counts!Owners(new)' /\ q \in Counts!Owners(new)'
      BY <1>1, <1>3, <2>1, <2>2 DEF Counts!Owners
    <3>3. Counts!InScope(p)'
      BY <1>1, <2>2 DEF Counts!InScope, Counts!Owners, Counts!Pointers, Counts!ReferencesAssumption
    <3>4. CASE Counts!InScope(q)'
      BY <3>2, <3>3, <3>4 DEF Kept
    <3>5. CASE ~Counts!InScope(q)'
      <4>1. q = old
        BY <1>1, <2>1, <2>2, <3>5 DEF Counts!InScope, Counts!Owners
      <4>2. old # new /\ old # nullptr /\ obj[old] = new /\ obj'[old] = new /\ refCount2_[old] >= 1
        <5>1. old # nullptr
          BY <1>1, <2>1, <3>5, <4>1 DEF Counts!InScope, Counts!Owners, Counts!Pointers, Counts!ReferencesAssumption
        <5>2. QED
          BY <1>1, <1>3, <2>1, <2>2, <3>2, <4>1, <5>1, Held
      <4>3. refCount2_[old] >= 2 \/ refCount2_[new] >= 2
        <5>1. old \in Objects /\ refCount2_[old] \in Nat /\ refCount2_[new] \in Nat
          BY <1>1, <3>1, <4>2 DEF Object
        <5>2. ~(refCount2_[old] = 1 /\ refCount2_[new] = 1)
          BY <1>1, <2>1, <2>4, <4>1 DEF Counts!KeptOtherwise
        <5>3. QED
          BY <3>1, <4>2, <5>1, <5>2
      <4>4. QED
        BY <1>1, <3>1, <4>2, <4>3 DEF Kept
    <3>6. QED
      BY <3>4, <3>5
  <2>5. QED
    BY <1>1, <2>2, <2>3, <2>4 DEF CountsIInv, ReleaseFirst
<1>4. QED
  BY <1>2, <1>3

\* queryInterface, put and a new object.
LEMMA StepAs ==
  ASSUME Counts!ReferencesAssumption, CountsIInv,
         NEW p \in Counts!Pointers, NEW q \in Counts!Pointers, Counts!as(p, q)
  PROVE  CountsIInv'
<1>1. /\ refCount2_ \in [Objects -> Nat] /\ obj \in [Counts!Pointers -> Object] /\ usedDeleted = FALSE
      /\ todo = <<>> /\ refCount2_' = refCount2_ /\ usedDeleted' = FALSE
  BY DEF CountsIInv, Counts!as
<1>2. PICK old \in Object, new \in Object : old = obj[p] /\ new = obj[q]
  BY <1>1
<1>3. obj' = [obj EXCEPT ![p] = new] /\ todo' = Counts!added(new) \o Counts!released(old)
  BY <1>2 DEF Counts!as
<1>4. obj' \in [Counts!Pointers -> Object] /\ Balance(old, new)'
  <2>1. Given(obj, p, new, obj')
    BY <1>3 DEF Given
  <2>2. QED
    BY <1>1, <1>2, <2>1, Owed DEF Balance
<1>5. new # nullptr => refCount2_'[new] >= 1
  BY <1>1, <1>2, Held
<1>6. QED
  BY <1>1, <1>3, <1>4, <1>5 DEF CountsIInv, AddFirst

\* A pointer that is emptied leaves one release to make.
LEMMA StepPut ==
  ASSUME Counts!ReferencesAssumption, CountsIInv, NEW p \in Counts!Pointers, Counts!put(p)
  PROVE  CountsIInv'
<1>1. /\ refCount2_ \in [Objects -> Nat] /\ obj \in [Counts!Pointers -> Object] /\ usedDeleted = FALSE
      /\ todo = <<>> /\ refCount2_' = refCount2_ /\ usedDeleted' = FALSE /\ nullptr \in Object
  BY DEF CountsIInv, Counts!put, Object
<1>2. PICK old \in Object : old = obj[p]
  BY <1>1
<1>3. obj' = [obj EXCEPT ![p] = nullptr] /\ todo' = Counts!released(old)
  BY <1>2 DEF Counts!put
<1>4. obj' \in [Counts!Pointers -> Object] /\ Balance(old, nullptr)'
  <2>1. Given(obj, p, nullptr, obj')
    BY <1>3 DEF Given
  <2>2. QED
    BY <1>1, <1>2, <2>1, Owed DEF Balance
<1>5. ReleaseFirst(old, nullptr)'
  <2>1. <<>> \in Seq(Call)
    OBVIOUS
  <2>2. Counts!released(old) \in Seq(Call)
    BY <2>1, CallsInOrder
  <2>3. Counts!released(old) \o Counts!added(nullptr) = Counts!released(old)
    BY <2>2, CallsInOrder
  <2>4. QED
    BY <1>3, <2>3 DEF ReleaseFirst
<1>6. QED
  BY <1>1, <1>4, <1>5 DEF CountsIInv

\* A new object's one reference is the pointer that it is attached to.
LEMMA StepAttach ==
  ASSUME Counts!ReferencesAssumption, CountsIInv,
         NEW p \in Counts!Pointers, NEW o \in Objects, Counts!attach(p, o)
  PROVE  CountsIInv'
<1>1. /\ refCount2_ \in [Objects -> Nat] /\ obj \in [Counts!Pointers -> Object] /\ usedDeleted = FALSE
      /\ todo = <<>> /\ usedDeleted' = FALSE /\ nullptr \in Object /\ nullptr \notin Objects
      /\ refCount2_[o] = 0 /\ refCount2_' = [refCount2_ EXCEPT ![o] = 1]
  BY DEF CountsIInv, Counts!attach, Object, Counts!ReferencesAssumption
<1>2. PICK old \in Object : old = obj[p]
  BY <1>1
<1>3. obj' = [obj EXCEPT ![p] = o] /\ todo' = Counts!released(old) /\ o \in Object
  BY <1>2 DEF Counts!attach, Object
<1>4. PICK new \in Object : new = o
  BY <1>3
<1>5. Balance(old, nullptr)' /\ obj' \in [Counts!Pointers -> Object]
  <2>1. Given(obj, p, new, obj')
    BY <1>3, <1>4 DEF Given
  <2>2. /\ obj' \in [Counts!Pointers -> Object]
        /\ \A q \in Objects : /\ Cardinality(Counts!Owners(q)') \in Nat
                             /\ refCount2_[q] + One(new = q) = Cardinality(Counts!Owners(q)') + One(old = q)
    BY <1>1, <1>2, <2>1, Owed
  <2> SUFFICES ASSUME NEW q \in Objects
               PROVE  refCount2_'[q] + One(nullptr = q) = Cardinality(Counts!Owners(q)') + One(old = q)
    BY <2>2 DEF Balance
  <2>3. refCount2_'[q] = refCount2_[q] + One(new = q)
    BY <1>1, <1>4 DEF One
  <2>4. One(nullptr = q) = 0 /\ refCount2_'[q] \in Nat
    BY <1>1 DEF One
  <2>5. QED
    BY <2>2, <2>3, <2>4
<1>6. ReleaseFirst(old, nullptr)'
  <2>1. <<>> \in Seq(Call)
    OBVIOUS
  <2>2. Counts!released(old) \in Seq(Call)
    BY <2>1, CallsInOrder
  <2>3. Counts!released(old) \o Counts!added(nullptr) = Counts!released(old)
    BY <2>2, CallsInOrder
  <2>4. QED
    BY <1>3, <2>3 DEF ReleaseFirst
<1>7. QED
  BY <1>1, <1>5, <1>6 DEF CountsIInv

\* Moving swaps two owners and calls nobody.
LEMMA StepMove ==
  ASSUME Counts!ReferencesAssumption, CountsIInv,
         NEW p \in Counts!Pointers, NEW q \in Counts!Pointers, Counts!move(p, q)
  PROVE  CountsIInv'
<1>1. /\ refCount2_ \in [Objects -> Nat] /\ obj \in [Counts!Pointers -> Object] /\ usedDeleted = FALSE
      /\ todo = <<>> /\ p # q /\ UNCHANGED <<refCount2_, todo, usedDeleted>> /\ nullptr \in Object
  BY DEF CountsIInv, Counts!move, Object
<1>2. PICK mine \in Object, yours \in Object : mine = obj[p] /\ yours = obj[q]
  BY <1>1
<1>3. PICK both : both = [obj EXCEPT ![p] = yours]
  OBVIOUS
<1>4. both \in [Counts!Pointers -> Objects \cup {nullptr}] /\ both[q] = yours
        /\ obj \in [Counts!Pointers -> Objects \cup {nullptr}]
  BY <1>1, <1>2, <1>3 DEF Object
<1>5. Given(obj, p, yours, both)
  BY <1>3 DEF Given
<1>6. obj' = [both EXCEPT ![q] = mine]
  BY <1>1, <1>2, <1>3 DEF Counts!move
<1>7. Given(both, q, mine, obj') /\ obj' \in [Counts!Pointers -> Object]
  BY <1>2, <1>4, <1>6 DEF Given, Object
<1>8. ASSUME NEW o \in Objects PROVE Cardinality(OwnersIn(obj', o)) = Cardinality(OwnersIn(obj, o))
  <2>1. Cardinality(OwnersIn(both, o)) + One(obj[p] = o) = Cardinality(OwnersIn(obj, o)) + One(yours = o)
    BY <1>4, <1>5, OwnersChange
  <2>2. /\ Cardinality(OwnersIn(obj', o)) + One(both[q] = o) = Cardinality(OwnersIn(both, o)) + One(mine = o)
        /\ Cardinality(OwnersIn(obj', o)) \in Nat /\ Cardinality(OwnersIn(both, o)) \in Nat
    BY <1>4, <1>7, OwnersChange
  <2>3. Cardinality(OwnersIn(obj, o)) \in Nat
    BY <1>4, <1>5, OwnersChange
  <2>4. QED
    BY <1>2, <1>4, <2>1, <2>2, <2>3 DEF One
<1>9. Balance(nullptr, nullptr)'
  BY <1>1, <1>8, Rest DEF Balance, Counts!Owners, OwnersIn
<1>10. AddFirst(nullptr, nullptr)'
  BY <1>1 DEF AddFirst, Counts!added, Counts!released
<1>11. QED
  BY <1>1, <1>7, <1>9, <1>10 DEF CountsIInv

\* The variables keep their types, also after an assignment that the counts do
\* not survive.
LEMMA CountsTyped ==
  ASSUME Counts!ReferencesAssumption, Counts!TypeOK, [Counts!Next]_Counts!vars
  PROVE  Counts!TypeOK'
<1> USE DEF Counts!TypeOK
<1>1. /\ refCount2_ \in [Objects -> Nat] /\ obj \in [Counts!Pointers -> Object]
      /\ todo \in Seq(Call) /\ usedDeleted \in BOOLEAN /\ orphaned \in BOOLEAN
  BY DEF Object, Call
<1>2. ASSUME refCount2_' \in [Objects -> Nat], obj' \in [Counts!Pointers -> Object],
             todo' \in Seq(Call), usedDeleted' \in BOOLEAN, orphaned' \in BOOLEAN
      PROVE  Counts!TypeOK'
  BY <1>2 DEF Object, Call
<1>3. Objects \subseteq Counts!Pointers /\ nullptr \in Object /\ Objects \subseteq Object
  BY DEF Counts!Pointers, Object
<1>4. ASSUME NEW x \in Object, NEW y \in Object
      PROVE  /\ Counts!released(x) \in Seq(Call)
             /\ Counts!released(x) \o Counts!added(y) \in Seq(Call)
             /\ Counts!added(y) \o Counts!released(x) \in Seq(Call)
  <2>1. <<>> \in Seq(Call)
    OBVIOUS
  <2>2. Counts!released(x) \in Seq(Call) /\ Counts!added(y) \in Seq(Call)
    BY <2>1, CallsInOrder
  <2>3. QED
    BY <2>2, CallsInOrder
<1>5. todo # <<>> => Tail(todo) \in Seq(Call)
  BY <1>1
<1>6. ASSUME NEW o \in Objects, Counts!addRef(o) PROVE Counts!TypeOK'
  <2>1. todo' \in Seq(Call) /\ obj' = obj /\ orphaned' = orphaned
    BY <1>5, <1>6 DEF Counts!addRef
  <2>2. refCount2_' \in [Objects -> Nat] /\ usedDeleted' \in BOOLEAN
    <3>1. CASE refCount2_[o] = 0
      BY <1>1, <1>6, <3>1 DEF Counts!addRef
    <3>2. CASE refCount2_[o] # 0
      <4>1. refCount2_' = [refCount2_ EXCEPT ![o] = @ + 1] /\ usedDeleted' = usedDeleted
        BY <1>6, <3>2 DEF Counts!addRef
      <4>2. refCount2_[o] + 1 \in Nat
        BY <1>1
      <4>3. refCount2_' \in [Objects -> Nat]
        BY <1>1, <4>1, <4>2
      <4>4. QED
        BY <1>1, <4>1, <4>3
    <3>3. QED
      BY <3>1, <3>2
  <2>3. QED
    BY <1>1, <1>2, <2>1, <2>2
<1>7. ASSUME NEW o \in Objects, Counts!release(o) PROVE Counts!TypeOK'
  <2>1. CASE refCount2_[o] = 0
    BY <1>1, <1>2, <1>5, <1>7, <2>1 DEF Counts!release
  <2>2. CASE refCount2_[o] # 0
    <3>1. /\ refCount2_' = [refCount2_ EXCEPT ![o] = @ - 1]
          /\ usedDeleted' = usedDeleted /\ orphaned' = orphaned /\ todo # <<>>
      BY <1>7, <2>2 DEF Counts!release
    <3>2. refCount2_' \in [Objects -> Nat]
      BY <1>1, <2>2, <3>1
    <3>3. CASE refCount2_[o] = 1
      <4>1. obj' = [obj EXCEPT ![o] = nullptr] /\ todo' = Counts!released(obj[o]) \o Tail(todo)
        BY <1>7, <3>3 DEF Counts!release
      <4>2. obj[o] \in Object
        BY <1>1, <1>3
      <4>3. todo' \in Seq(Call)
        BY <1>5, <3>1, <4>1, <4>2, CallsInOrder
      <4>4. obj' \in [Counts!Pointers -> Object]
        BY <1>1, <1>3, <4>1
      <4>5. QED
        BY <1>1, <1>2, <3>1, <3>2, <4>3, <4>4
    <3>4. CASE refCount2_[o] # 1
      <4>1. todo' = Tail(todo) /\ obj' = obj
        BY <1>7, <2>2, <3>4 DEF Counts!release
      <4>2. QED
        BY <1>1, <1>2, <1>5, <3>1, <3>2, <4>1
    <3>5. QED
      BY <3>3, <3>4
  <2>3. QED
    BY <2>1, <2>2
<1>8. ASSUME NEW p \in Counts!Pointers, NEW o \in Objects, Counts!attach(p, o) PROVE Counts!TypeOK'
  <2>1. obj[p] \in Object
    BY <1>1
  <2>2. todo' \in Seq(Call)
    BY <1>4, <1>8, <2>1 DEF Counts!attach
  <2>3. QED
    BY <1>1, <1>2, <1>3, <1>8, <2>2 DEF Counts!attach
<1>9. ASSUME NEW p \in Counts!Pointers, NEW q \in Counts!Pointers, Counts!copy(p, q) PROVE Counts!TypeOK'
  <2>1. obj[p] \in Object /\ obj[q] \in Object
    BY <1>1
  <2>2. refCount2_' = refCount2_ /\ usedDeleted' = usedDeleted /\ orphaned' \in BOOLEAN
    BY <1>9 DEF Counts!copy
  <2>3. CASE obj[q] = obj[p]
    BY <1>1, <1>2, <1>9, <2>2, <2>3 DEF Counts!copy, Counts!assign
  <2>4. CASE obj[q] # obj[p]
    <3>1. obj' = [obj EXCEPT ![p] = obj[q]] /\ todo' = Counts!released(obj[p]) \o Counts!added(obj[q])
      BY <1>9, <2>4 DEF Counts!copy, Counts!assign
    <3>2. todo' \in Seq(Call)
      BY <1>4, <2>1, <3>1
    <3>3. obj' \in [Counts!Pointers -> Object]
      BY <1>1, <2>1, <3>1
    <3>4. QED
      BY <1>1, <1>2, <2>2, <3>2, <3>3
  <2>5. QED
    BY <2>3, <2>4
<1>10. ASSUME NEW p \in Counts!Pointers, NEW q \in Counts!Pointers, Counts!move(p, q) PROVE Counts!TypeOK'
  BY <1>1, <1>2, <1>10 DEF Counts!move
<1>11. ASSUME NEW p \in Counts!Pointers, NEW q \in Counts!Pointers, Counts!as(p, q) PROVE Counts!TypeOK'
  <2>1. obj[p] \in Object /\ obj[q] \in Object
    BY <1>1
  <2>2. todo' \in Seq(Call)
    BY <1>4, <1>11, <2>1 DEF Counts!as
  <2>3. QED
    BY <1>1, <1>2, <1>11, <2>1, <2>2 DEF Counts!as
<1>12. ASSUME NEW p \in Counts!Pointers, Counts!put(p) PROVE Counts!TypeOK'
  <2>1. obj[p] \in Object
    BY <1>1
  <2>2. todo' \in Seq(Call)
    BY <1>4, <1>12, <2>1 DEF Counts!put
  <2>3. QED
    BY <1>1, <1>2, <1>3, <1>12, <2>2 DEF Counts!put
<1>13. CASE UNCHANGED Counts!vars
  BY <1>1, <1>2, <1>13 DEF Counts!vars
<1>14. QED
  BY <1>6, <1>7, <1>8, <1>9, <1>10, <1>11, <1>12, <1>13 DEF Counts!Next

\* The counts are kept until a pointer is assigned what its own old object alone
\* kept; nothing makes up for that later.
CountsAreKept == Counts!TypeOK /\ (~orphaned => CountsIInv)

LEMMA CountsInvariance ==
  ASSUME Counts!ReferencesAssumption
  PROVE  Counts!Spec => []CountsAreKept
<1>1. Counts!Init => CountsAreKept
  <2> SUFFICES ASSUME Counts!Init PROVE CountsAreKept
    OBVIOUS
  <2>1. CountsIInv
    BY InitCounts
  <2>2. todo = <<>> /\ usedDeleted = FALSE /\ orphaned = FALSE
    BY DEF Counts!Init
  <2>3. refCount2_ \in [Objects -> Nat] /\ obj \in [Counts!Pointers -> Objects \cup {nullptr}]
    BY DEF Counts!Init
  <2>4. Counts!TypeOK
    <3>1. todo \in Seq({"release", "addRef"} \X Objects)
      BY <2>2
    <3>2. usedDeleted \in BOOLEAN /\ orphaned \in BOOLEAN
      BY <2>2
    <3>3. QED
      BY <2>3, <3>1, <3>2 DEF Counts!TypeOK
  <2>5. QED
    BY <2>1, <2>4 DEF CountsAreKept
<1>2. CountsAreKept /\ [Counts!Next]_Counts!vars => CountsAreKept'
  <2> SUFFICES ASSUME CountsAreKept, [Counts!Next]_Counts!vars PROVE CountsAreKept'
    OBVIOUS
  <2>1. Counts!TypeOK'
    BY CountsTyped DEF CountsAreKept
  <2> SUFFICES ASSUME ~orphaned' PROVE CountsIInv'
    BY <2>1 DEF CountsAreKept
  <2>2. ASSUME ~orphaned PROVE CountsIInv
    BY <2>2 DEF CountsAreKept
  <2>3. ASSUME NEW o \in Objects, Counts!addRef(o) PROVE CountsIInv'
    <3>1. ~orphaned
      BY <2>3 DEF Counts!addRef
    <3>2. QED
      BY <2>2, <2>3, <3>1, StepAddRef
  <2>4. ASSUME NEW o \in Objects, Counts!release(o) PROVE CountsIInv'
    <3>1. ~orphaned
      BY <2>4 DEF Counts!release
    <3>2. QED
      BY <2>2, <2>4, <3>1, StepRelease
  <2>5. ASSUME NEW p \in Counts!Pointers, NEW o \in Objects, Counts!attach(p, o) PROVE CountsIInv'
    <3>1. ~orphaned
      BY <2>5 DEF Counts!attach
    <3>2. QED
      BY <2>2, <2>5, <3>1, StepAttach
  <2>6. ASSUME NEW p \in Counts!Pointers, NEW q \in Counts!Pointers, Counts!copy(p, q) PROVE CountsIInv'
    <3>1. ~orphaned /\ Counts!KeptOtherwise(p, q)
      BY <2>6 DEF Counts!copy
    <3>2. QED
      BY <2>2, <2>6, <3>1, StepCopy
  <2>7. ASSUME NEW p \in Counts!Pointers, NEW q \in Counts!Pointers, Counts!move(p, q) PROVE CountsIInv'
    <3>1. ~orphaned
      BY <2>7 DEF Counts!move
    <3>2. QED
      BY <2>2, <2>7, <3>1, StepMove
  <2>8. ASSUME NEW p \in Counts!Pointers, NEW q \in Counts!Pointers, Counts!as(p, q) PROVE CountsIInv'
    <3>1. ~orphaned
      BY <2>8 DEF Counts!as
    <3>2. QED
      BY <2>2, <2>8, <3>1, StepAs
  <2>9. ASSUME NEW p \in Counts!Pointers, Counts!put(p) PROVE CountsIInv'
    <3>1. ~orphaned
      BY <2>9 DEF Counts!put
    <3>2. QED
      BY <2>2, <2>9, <3>1, StepPut
  <2>10. CASE UNCHANGED Counts!vars
    <3>1. ~orphaned /\ UNCHANGED <<refCount2_, obj, todo, usedDeleted>>
      BY <2>10 DEF Counts!vars
    <3>2. QED
      BY <2>2, <3>1, CountsStutter
  <2>11. QED
    BY <2>3, <2>4, <2>5, <2>6, <2>7, <2>8, <2>9, <2>10 DEF Counts!Next
<1>3. QED
  BY <1>1, <1>2, PTL DEF Counts!Spec

\* Through copies, moves, queries and deletions that set off others, no deleted
\* object is called, and an object is there exactly as long as a pointer holds
\* it: until p = p->next, where p's object alone kept the next.
THEOREM CountsAlwaysMatch == Counts!Spec => []CountsMatchOwners
<1>0. Counts!ReferencesAssumption
  BY PartsAssumption
<1> USE <1>0
<1>1. CountsAreKept => CountsMatchOwners
  <2> SUFFICES ASSUME CountsAreKept PROVE Counts!CountsMatchOwners
    BY DEF CountsMatchOwners
  <2>1. Counts!TypeOK
    BY DEF CountsAreKept
  <2>2. ASSUME ~orphaned
        PROVE  /\ ~usedDeleted
               /\ todo = <<>> => \A o \in Objects : refCount2_[o] = Counts!Cardinality(Counts!Owners(o))
    <3>1. CountsIInv
      BY <2>2 DEF CountsAreKept
    <3>2. QED
      BY <3>1, Rest, SameFiniteSets DEF CountsIInv
  <2>3. QED
    BY <2>1, <2>2 DEF Counts!CountsMatchOwners
<1>2. QED
  BY <1>1, CountsInvariance, PTL

-----------------------------------------------------------------------------
(* Shared blobs *)

\* What a pin has and is about to get, in the order in which it gets it.
Lines == [p \in Pins |-> <<value_[p]>> \o wire[p]]

\* Where the lines have a pointer to v.
Places(line, v) ==
  { at \in Pins \X (1..QueueBound + 1) : at[2] <= Len(line[at[1]]) /\ line[at[1]][at[2]].view = v }

IsLines(line) ==
  /\ line \in [Pins -> Seq(Pool!PointerType)]
  /\ \A p \in Pins : Len(line[p]) <= QueueBound + 1

Joins(line, p, pointer, later) == later = [line EXCEPT ![p] = Append(@, pointer)]

Serves(line, p, later) == later = [line EXCEPT ![p] = Tail(@)]

\* The places are finitely many.
LEMMA PlacesAreFinite ==
  ASSUME Pool!SharedBlobsAssumption, NEW line, NEW v
  PROVE  IsFiniteSet(Places(line, v)) /\ Cardinality(Places(line, v)) \in Nat
<1>1. IsFiniteSet(Pins) /\ QueueBound + 1 \in Int
  BY DEF Pool!SharedBlobsAssumption, Pool!IsFiniteSet, IsFiniteSet
<1>2. IsFiniteSet(Pins \X (1..QueueBound + 1))
  <2>1. IsFiniteSet(1..QueueBound + 1)
    BY <1>1, FS_Interval
  <2>2. QED
    BY <1>1, <2>1, FS_Product
<1>3. IsFiniteSet(Places(line, v))
  BY <1>2, FS_Subset DEF Places
<1>4. QED
  BY <1>3, FS_CardinalityType

\* A pointer at the end of a line is one place more for its view.
LEMMA PlacesWhenJoined ==
  ASSUME Pool!SharedBlobsAssumption, NEW line, IsLines(line), NEW p \in Pins, NEW pointer, NEW v,
         Len(line[p]) <= QueueBound, NEW later, Joins(line, p, pointer, later)
  PROVE  Cardinality(Places(later, v)) = Cardinality(Places(line, v)) + One(pointer.view = v)
<1> DEFINE last == <<p, Len(line[p]) + 1>>
<1>1. /\ last \in Pins \X (1..QueueBound + 1)
      /\ last \notin Places(line, v)
  BY DEF IsLines, Pool!SharedBlobsAssumption, Places
<1>2. /\ line[p] \in Seq(Pool!PointerType) /\ Len(line[p]) \in Nat
      /\ later[p] = Append(line[p], pointer)
      /\ \A q \in Pins \ {p} : later[q] = line[q]
  BY DEF IsLines, Joins
<1>3. Places(later, v) = IF pointer.view = v THEN Places(line, v) \cup {last} ELSE Places(line, v)
  <2>1. ASSUME NEW at \in Pins \X (1..QueueBound + 1), at[1] # p
        PROVE  at # last /\ (at \in Places(later, v) <=> at \in Places(line, v))
    BY <1>2, <2>1 DEF Places
  <2>2. ASSUME NEW at \in Pins \X (1..QueueBound + 1), at[1] = p
        PROVE  at \in Places(later, v) <=> at \in Places(line, v) \/ (at = last /\ pointer.view = v)
    <3>1. PICK i \in 1..QueueBound + 1 : i = at[2]
      OBVIOUS
    <3>2. /\ at \in Places(later, v) <=> i <= Len(later[p]) /\ later[p][i].view = v
          /\ at \in Places(line, v) <=> i <= Len(line[p]) /\ line[p][i].view = v
          /\ at = last <=> i = Len(line[p]) + 1
      BY <2>2, <3>1 DEF Places
    <3>3. i \in Nat \ {0} /\ Len(later[p]) = Len(line[p]) + 1
      BY <1>2, <3>1
    <3>4. CASE i <= Len(line[p])
      <4>1. later[p][i] = line[p][i]
        BY <1>2, <3>3, <3>4
      <4>2. i <= Len(later[p]) /\ i # Len(line[p]) + 1
        BY <1>2, <3>3, <3>4
      <4>3. QED
        BY <3>2, <3>4, <4>1, <4>2, Zenon
    <3>5. CASE i = Len(line[p]) + 1
      <4>1. later[p][i] = pointer
        BY <1>2, <3>5
      <4>2. QED
        BY <1>2, <3>2, <3>3, <3>5, <4>1
    <3>6. CASE i > Len(line[p]) + 1
      BY <1>2, <3>2, <3>3, <3>6
    <3>7. QED
      BY <1>2, <3>3, <3>4, <3>5, <3>6
  <2>3. /\ Places(later, v) \subseteq Pins \X (1..QueueBound + 1)
        /\ Places(line, v) \subseteq Pins \X (1..QueueBound + 1)
    BY DEF Places
  <2> HIDE DEF last
  <2>4. CASE pointer.view = v
    BY <1>1, <2>1, <2>2, <2>3, <2>4
  <2>5. CASE pointer.view # v
    <3>1. \A at \in Pins \X (1..QueueBound + 1) : at \in Places(later, v) <=> at \in Places(line, v)
      BY <2>1, <2>2, <2>5, Zenon
    <3>2. QED
      BY <2>3, <2>5, <3>1
  <2>6. QED
    BY <2>4, <2>5
<1>4. IsFiniteSet(Places(line, v)) /\ Cardinality(Places(line, v)) \in Nat
  BY PlacesAreFinite
<1>5. Cardinality(Places(line, v) \cup {last}) = Cardinality(Places(line, v)) + 1
  BY <1>1, <1>4, FS_AddElement
<1>6. QED
  BY <1>3, <1>4, <1>5 DEF One

\* When the first of a line goes, one place of its view goes, and the others
\* move up by one.
LEMMA PlacesWhenServed ==
  ASSUME Pool!SharedBlobsAssumption, NEW line, IsLines(line), NEW p \in Pins, NEW v,
         line[p] # <<>>, NEW later, Serves(line, p, later)
  PROVE  Cardinality(Places(later, v)) + One(Head(line[p]).view = v) = Cardinality(Places(line, v))
<1> DEFINE first == <<p, 1>>
           rest == Places(line, v) \ {first}
           up == [at \in rest |-> IF at[1] = p THEN <<p, at[2] - 1>> ELSE at]
<1>1. /\ line[p] \in Seq(Pool!PointerType) /\ later[p] = Tail(line[p]) /\ Len(line[p]) \in Nat \ {0}
      /\ Len(line[p]) <= QueueBound + 1 /\ QueueBound \in Nat
      /\ \A q \in Pins \ {p} : later[q] = line[q]
  BY DEF IsLines, Serves, Pool!SharedBlobsAssumption
<1>2. /\ Len(later[p]) = Len(line[p]) - 1
      /\ \A i \in 1..Len(line[p]) - 1 : later[p][i] = line[p][i + 1]
      /\ Head(line[p]) = line[p][1]
  BY <1>1
<1>3. first \in Places(line, v) <=> Head(line[p]).view = v
  BY <1>1, <1>2 DEF Places
<1>4. up \in Bijection(rest, Places(later, v))
  <2>1. ASSUME NEW at \in rest PROVE up[at] \in Places(later, v)
    <3>1. CASE at[1] = p
      <4>1. at[2] \in 1..QueueBound + 1 /\ at[2] # 1 /\ at[2] <= Len(line[p]) /\ line[p][at[2]].view = v
        BY <3>1 DEF Places
      <4>2. PICK i \in Nat : i = at[2] - 1 /\ i \in 1..Len(line[p]) - 1 /\ i \in 1..QueueBound + 1
        BY <1>1, <4>1
      <4>3. later[p][i].view = v /\ i <= Len(later[p])
        BY <1>2, <4>1, <4>2
      <4>4. <<p, i>> \in Places(later, v)
        BY <4>2, <4>3 DEF Places
      <4>5. QED
        BY <3>1, <4>2, <4>4
    <3>2. CASE at[1] # p
      BY <1>1, <3>2 DEF Places
    <3>3. QED
      BY <3>1, <3>2
  <2>2. ASSUME NEW at \in rest, NEW other \in rest, up[at] = up[other] PROVE at = other
    <3>1. /\ at = <<at[1], at[2]>> /\ other = <<other[1], other[2]>>
          /\ at[2] \in Nat /\ other[2] \in Nat
      BY DEF Places
    <3>2. CASE at[1] = p /\ other[1] = p
      <4>1. <<p, at[2] - 1>> = <<p, other[2] - 1>>
        BY <2>2, <3>2
      <4>2. at[2] = other[2]
        BY <3>1, <4>1
      <4>3. QED
        BY <3>1, <3>2, <4>2
    <3>3. CASE at[1] = p /\ other[1] # p
      <4>1. <<p, at[2] - 1>> = other
        BY <2>2, <3>3
      <4>2. QED
        BY <3>3, <4>1
    <3>4. CASE at[1] # p /\ other[1] = p
      <4>1. at = <<p, other[2] - 1>>
        BY <2>2, <3>4
      <4>2. QED
        BY <3>4, <4>1
    <3>5. CASE at[1] # p /\ other[1] # p
      BY <2>2, <3>5
    <3>6. QED
      BY <3>2, <3>3, <3>4, <3>5
  <2>3. ASSUME NEW to \in Places(later, v) PROVE \E at \in rest : up[at] = to
    <3>1. CASE to[1] = p
      <4>1. to[2] \in 1..QueueBound + 1 /\ to[2] <= Len(line[p]) - 1 /\ later[p][to[2]].view = v
        BY <1>2, <3>1 DEF Places
      <4>2. PICK i \in 1..Len(line[p]) - 1 : i = to[2]
        BY <1>1, <4>1
      <4>3. line[p][i + 1].view = v /\ i + 1 \in 1..QueueBound + 1 /\ i + 1 <= Len(line[p]) /\ i + 1 # 1
        BY <1>1, <1>2, <4>1, <4>2
      <4>4. <<p, i + 1>> \in rest
        BY <4>3 DEF Places
      <4>5. up[<<p, i + 1>>] = <<p, i>>
        BY <4>2, <4>4
      <4>6. to = <<p, i>>
        BY <3>1, <4>2 DEF Places
      <4>7. QED
        BY <4>4, <4>5, <4>6
    <3>2. CASE to[1] # p
      <4>1. to \in rest
        BY <1>1, <3>2 DEF Places
      <4>2. QED
        BY <3>2, <4>1
    <3>3. QED
      BY <3>1, <3>2
  <2> HIDE DEF rest, up
  <2>4. up \in [rest -> Places(later, v)]
    BY <2>1 DEF up
  <2>5. QED
    BY <2>2, <2>3, <2>4 DEF Bijection, Injection, Surjection, IsInjective
<1>5. IsFiniteSet(Places(line, v)) /\ Cardinality(Places(line, v)) \in Nat
  BY PlacesAreFinite
<1>6. /\ IsFiniteSet(rest)
      /\ Cardinality(rest) = Cardinality(Places(line, v)) - One(first \in Places(line, v))
  <2>1. /\ IsFiniteSet(rest)
        /\ Cardinality(rest) = IF first \in Places(line, v) THEN Cardinality(Places(line, v)) - 1
                               ELSE Cardinality(Places(line, v))
    BY <1>5, FS_RemoveElement
  <2> HIDE DEF rest
  <2>2. QED
    BY <1>5, <2>1 DEF One
<1>7. Cardinality(rest) = Cardinality(Places(later, v))
  <2> HIDE DEF rest, up
  <2> QED
    BY <1>4, <1>6, FS_Bijection DEF ExistsBijection
<1>8. QED
  BY <1>3, <1>5, <1>6, <1>7 DEF One

\* What is read through a pointer is what was sent.
Faithful(pointer) == pointer.view # Nothing => data_[pointer.view] = pointer.content

PoolIInv ==
  /\ Pool!TypeOK
  /\ IsLines(Lines)
  /\ \A p \in Pins : \A i \in 1..Len(Lines[p]) : Faithful(Lines[p][i])
  /\ \A v \in Views : viewCounts[v] = 1 + Cardinality(Places(Lines, v))

\* Lines stay lines.
LEMMA LinesStay ==
  ASSUME Pool!SharedBlobsAssumption, NEW line, IsLines(line), NEW p \in Pins, NEW later
  PROVE  /\ \A pointer \in Pool!PointerType :
              Len(line[p]) <= QueueBound /\ Joins(line, p, pointer, later) => IsLines(later)
         /\ line[p] # <<>> /\ Serves(line, p, later) => IsLines(later)
<1>1. /\ line \in [Pins -> Seq(Pool!PointerType)] /\ Len(line[p]) <= QueueBound + 1
      /\ \A q \in Pins : Len(line[q]) <= QueueBound + 1 /\ QueueBound \in Nat
  BY DEF IsLines, Pool!SharedBlobsAssumption
<1>2. ASSUME NEW pointer \in Pool!PointerType, Len(line[p]) <= QueueBound, Joins(line, p, pointer, later)
      PROVE  IsLines(later)
  <2>1. Append(line[p], pointer) \in Seq(Pool!PointerType) /\ Len(Append(line[p], pointer)) <= QueueBound + 1
    BY <1>1, <1>2
  <2>2. QED
    BY <1>1, <1>2, <2>1 DEF IsLines, Joins
<1>3. ASSUME line[p] # <<>>, Serves(line, p, later)
      PROVE  IsLines(later)
  <2>1. Tail(line[p]) \in Seq(Pool!PointerType) /\ Len(Tail(line[p])) <= QueueBound + 1
    BY <1>1, <1>3
  <2>2. QED
    BY <1>1, <1>3, <2>1 DEF IsLines, Serves
<1>4. QED
  BY <1>2, <1>3

\* A pointer on its way is a reference more.
LEMMA StepSend ==
  ASSUME Pool!SharedBlobsAssumption, PoolIInv,
         NEW p \in Pins, NEW pointer \in Pool!PointerType, Faithful(pointer), Pool!Send(p, pointer)
  PROVE  PoolIInv'
<1>1. /\ data_' = data_ /\ value_' = value_ /\ wire' = [wire EXCEPT ![p] = Append(wire[p], pointer)]
      /\ Len(wire[p]) < QueueBound /\ wire[p] \in Seq(Pool!PointerType) /\ Pool!TypeOK
      /\ value_[p] \in Pool!PointerType /\ QueueBound \in Nat
      /\ viewCounts' = Pool!counted(viewCounts, pointer.view, 1)
  BY DEF Pool!Send, PoolIInv, Pool!TypeOK, Pool!SharedBlobsAssumption
<1>2. Joins(Lines, p, pointer, Lines') /\ Len(Lines[p]) <= QueueBound
  <2>1. /\ <<value_[p]>> \o Append(wire[p], pointer) = Append(<<value_[p]>> \o wire[p], pointer)
        /\ Len(<<value_[p]>> \o wire[p]) <= QueueBound
    BY <1>1
  <2>2. Lines' = [q \in Pins |-> IF q = p THEN Append(<<value_[p]>> \o wire[p], pointer) ELSE Lines[q]]
    BY <1>1, <2>1 DEF Lines, Pool!TypeOK
  <2>3. QED
    BY <2>1, <2>2 DEF Joins, Lines
<1>3. IsLines(Lines) /\ IsLines(Lines')
  BY <1>2, LinesStay DEF PoolIInv
<1>4. \A v \in Views : viewCounts'[v] = viewCounts[v] + One(pointer.view = v)
  BY <1>1 DEF Pool!counted, Pool!TypeOK, One, Pool!PointerType, Pool!SharedBlobsAssumption
<1>5. \A v \in Views : viewCounts'[v] = 1 + Cardinality(Places(Lines', v))
  <2> SUFFICES ASSUME NEW v \in Views
               PROVE  viewCounts'[v] = 1 + Cardinality(Places(Lines', v))
    OBVIOUS
  <2>1. Cardinality(Places(Lines', v)) = Cardinality(Places(Lines, v)) + One(pointer.view = v)
    BY <1>2, <1>3, PlacesWhenJoined
  <2>2. Cardinality(Places(Lines, v)) \in Nat /\ viewCounts[v] = 1 + Cardinality(Places(Lines, v))
    BY PlacesAreFinite DEF PoolIInv
  <2>3. One(pointer.view = v) \in Nat
    BY DEF One
  <2>4. QED
    BY <1>4, <2>1, <2>2, <2>3
<1>6. Pool!TypeOK'
  <2>1. viewCounts' \in [Views -> Nat \ {0}]
    BY <1>1 DEF Pool!counted, Pool!TypeOK, Pool!PointerType, Pool!SharedBlobsAssumption
  <2>2. Append(wire[p], pointer) \in Seq(Pool!PointerType)
    BY <1>1
  <2>3. QED
    BY <1>1, <2>1, <2>2 DEF Pool!TypeOK, Pool!PointerType
<1>7. ASSUME NEW q \in Pins, NEW i \in 1..Len(Lines'[q])
      PROVE  Faithful(Lines'[q][i])
  <2>1. CASE q # p
    <3>1. Lines'[q] = Lines[q]
      BY <1>2, <2>1 DEF Joins, Lines
    <3>2. QED
      BY <3>1 DEF PoolIInv
  <2>2. CASE q = p
    <3>1. Lines'[p] = Append(Lines[p], pointer) /\ Lines[p] \in Seq(Pool!PointerType)
      BY <1>2, <1>3 DEF Joins, IsLines
    <3>2. (i \in 1..Len(Lines[p]) /\ Lines'[p][i] = Lines[p][i]) \/ Lines'[p][i] = pointer
      BY <2>2, <3>1
    <3>3. QED
      BY <2>2, <3>2 DEF PoolIInv
  <2>3. QED
    BY <2>1, <2>2
<1>8. (\A q \in Pins : \A i \in 1..Len(Lines[q]) : Faithful(Lines[q][i]))'
  BY <1>1, <1>7 DEF Faithful
<1>9. QED
  BY <1>3, <1>5, <1>6, <1>8 DEF PoolIInv

\* The pin that gets the next pointer releases the one that it had.
LEMMA StepPreProcessEvent ==
  ASSUME Pool!SharedBlobsAssumption, PoolIInv, NEW p \in Pins, Pool!preProcessEvent(p)
  PROVE  PoolIInv'
<1>1. /\ data_' = data_ /\ wire[p] # <<>>
      /\ wire' = [wire EXCEPT ![p] = Tail(wire[p])]
      /\ value_' = [value_ EXCEPT ![p] = Head(wire[p])]
      /\ wire[p] \in Seq(Pool!PointerType) /\ Pool!TypeOK /\ value_[p] \in Pool!PointerType
      /\ viewCounts' = Pool!counted(viewCounts, value_[p].view, -1)
  BY DEF Pool!preProcessEvent, PoolIInv, Pool!TypeOK
<1>2. /\ Serves(Lines, p, Lines') /\ Lines[p] # <<>> /\ Head(Lines[p]) = value_[p]
      /\ value_' \in [Pins -> Pool!PointerType] /\ wire' \in [Pins -> Seq(Pool!PointerType)]
  <2>1. /\ <<Head(wire[p])>> \o Tail(wire[p]) = Tail(<<value_[p]>> \o wire[p])
        /\ <<value_[p]>> \o wire[p] # <<>> /\ Head(<<value_[p]>> \o wire[p]) = value_[p]
        /\ Head(wire[p]) \in Pool!PointerType /\ Tail(wire[p]) \in Seq(Pool!PointerType)
    <3>1. PICK line \in Seq(Pool!PointerType), pointer \in Pool!PointerType :
            line = wire[p] /\ line # <<>> /\ pointer = value_[p]
      BY <1>1
    <3>2. Head(line) \in Pool!PointerType /\ Tail(line) \in Seq(Pool!PointerType)
      BY <3>1
    <3>3. <<Head(line)>> \o Tail(line) = line
      BY <3>1
    <3>4. /\ <<pointer>> \o line # <<>>
          /\ Head(<<pointer>> \o line) = pointer
      BY <3>1
    <3>5. Tail(<<pointer>> \o line) = line
      BY <3>1
    <3>6. QED
      BY <3>1, <3>2, <3>3, <3>4, <3>5
  <2>2. Lines' = [q \in Pins |-> IF q = p THEN Tail(<<value_[p]>> \o wire[p]) ELSE Lines[q]]
    BY <1>1, <2>1 DEF Lines, Pool!TypeOK
  <2>3. QED
    BY <1>1, <2>1, <2>2 DEF Serves, Lines, Pool!TypeOK
<1>3. IsLines(Lines) /\ IsLines(Lines')
  BY <1>2, LinesStay DEF PoolIInv
<1>4. \A v \in Views : viewCounts'[v] = viewCounts[v] - One(value_[p].view = v)
  BY <1>1 DEF Pool!counted, Pool!TypeOK, One, Pool!PointerType, Pool!SharedBlobsAssumption
<1>5. \A v \in Views : viewCounts'[v] = 1 + Cardinality(Places(Lines', v)) /\ viewCounts'[v] \in Nat \ {0}
  <2> SUFFICES ASSUME NEW v \in Views
               PROVE  viewCounts'[v] = 1 + Cardinality(Places(Lines', v)) /\ viewCounts'[v] \in Nat \ {0}
    OBVIOUS
  <2>1. Cardinality(Places(Lines', v)) + One(value_[p].view = v) = Cardinality(Places(Lines, v))
    BY <1>2, <1>3, PlacesWhenServed
  <2>2. /\ Cardinality(Places(Lines, v)) \in Nat /\ Cardinality(Places(Lines', v)) \in Nat
        /\ viewCounts[v] = 1 + Cardinality(Places(Lines, v))
    BY PlacesAreFinite DEF PoolIInv
  <2>3. One(value_[p].view = v) \in Nat
    BY DEF One
  <2>4. QED
    BY <1>4, <2>1, <2>2, <2>3
<1>6. Pool!TypeOK'
  <2>1. viewCounts' \in [Views -> Nat \ {0}]
    <3>1. DOMAIN viewCounts' = Views /\ viewCounts' = [v \in Views |-> viewCounts'[v]]
      BY <1>1 DEF Pool!counted, Pool!TypeOK
    <3>2. QED
      BY <1>5, <3>1
  <2>2. QED
    BY <1>1, <1>2, <2>1 DEF Pool!TypeOK, Pool!PointerType
<1>7. ASSUME NEW q \in Pins, NEW i \in 1..Len(Lines'[q])
      PROVE  Faithful(Lines'[q][i])
  <2>1. CASE q # p
    <3>1. Lines'[q] = Lines[q]
      BY <1>2, <2>1 DEF Serves, Lines
    <3>2. QED
      BY <3>1 DEF PoolIInv
  <2>2. CASE q = p
    <3>1. Lines'[p] = Tail(Lines[p]) /\ Lines[p] \in Seq(Pool!PointerType)
      BY <1>2, <1>3 DEF Serves, IsLines
    <3>2. i + 1 \in 1..Len(Lines[p]) /\ Lines'[p][i] = Lines[p][i + 1]
      BY <1>2, <2>2, <3>1
    <3>3. QED
      BY <2>2, <3>2 DEF PoolIInv
  <2>3. QED
    BY <2>1, <2>2
<1>8. (\A q \in Pins : \A i \in 1..Len(Lines[q]) : Faithful(Lines[q][i]))'
  BY <1>1, <1>7 DEF Faithful
<1>9. QED
  BY <1>3, <1>5, <1>6, <1>8 DEF PoolIInv

\* Whoever has a place in a line is counted.
LEMMA HolderIsCounted ==
  ASSUME Pool!SharedBlobsAssumption, PoolIInv, NEW v \in Views
  PROVE  /\ ~Pool!inUse(v) <=> Places(Lines, v) = {}
         /\ \A p \in Pins : \A i \in 1..Len(Lines[p]) : Lines[p][i].view = v => Pool!inUse(v)
<1>1. /\ viewCounts[v] = 1 + Cardinality(Places(Lines, v))
      /\ IsFiniteSet(Places(Lines, v)) /\ Cardinality(Places(Lines, v)) \in Nat
  BY PlacesAreFinite DEF PoolIInv
<1>2. Cardinality(Places(Lines, v)) = 0 <=> Places(Lines, v) = {}
  BY <1>1, FS_EmptySet
<1>3. ~Pool!inUse(v) <=> Places(Lines, v) = {}
  BY <1>1, <1>2 DEF Pool!inUse
<1>4. ASSUME NEW p \in Pins, NEW i \in 1..Len(Lines[p]), Lines[p][i].view = v
      PROVE  <<p, i>> \in Places(Lines, v)
  <2>1. Len(Lines[p]) \in Nat /\ Len(Lines[p]) <= QueueBound + 1 /\ QueueBound \in Nat
    BY DEF PoolIInv, IsLines, Pool!SharedBlobsAssumption
  <2>2. i \in 1..QueueBound + 1 /\ i <= Len(Lines[p])
    BY <2>1
  <2>3. QED
    BY <1>4, <2>2 DEF Places
<1>5. QED
  BY <1>3, <1>4

\* The pool's owner overwrites what nobody has a pointer to.
LEMMA StepSet ==
  ASSUME Pool!SharedBlobsAssumption, PoolIInv,
         NEW v \in Views, NEW content \in Contents, Pool!set(v, content)
  PROVE  PoolIInv'
<1>1. /\ ~Pool!inUse(v) /\ data_' = [data_ EXCEPT ![v] = content]
      /\ viewCounts' = viewCounts /\ wire' = wire /\ value_' = value_
  BY DEF Pool!set
<1>2. Lines' = Lines /\ IsLines(Lines')
  BY <1>1 DEF Lines, PoolIInv
<1>3. Pool!TypeOK'
  BY <1>1 DEF PoolIInv, Pool!TypeOK, Pool!PointerType
<1>4. \A u \in Views : viewCounts'[u] = 1 + Cardinality(Places(Lines', u))
  BY <1>1, <1>2 DEF PoolIInv
<1>5. (\A p \in Pins : \A i \in 1..Len(Lines[p]) : Faithful(Lines[p][i]))'
  <2>1. ASSUME NEW p \in Pins, NEW i \in 1..Len(Lines[p]), Lines[p][i].view # Nothing
        PROVE  data_'[Lines[p][i].view] = Lines[p][i].content
    <3>1. Lines[p][i].view # v
      BY <1>1, HolderIsCounted
    <3>2. Faithful(Lines[p][i])
      BY DEF PoolIInv
    <3>3. QED
      BY <1>1, <2>1, <3>1, <3>2 DEF Faithful, PoolIInv, Pool!TypeOK
  <2>2. QED
    BY <1>2, <2>1 DEF Faithful
<1>6. QED
  BY <1>2, <1>3, <1>4, <1>5 DEF PoolIInv

\* However many pins a view is forwarded to, and in whatever order the pins
\* get to it: the storage under a view is what was sent for as long as a
\* pointer to it is on its way or on a pin, and free again after that.
THEOREM BlobsAlwaysStay == Pool!Spec => []BlobsStayWhileReferenced
<1>0. Pool!SharedBlobsAssumption
  BY PartsAssumption
<1> USE <1>0
<1>1. Pool!Init => PoolIInv
  <2> SUFFICES ASSUME Pool!Init PROVE PoolIInv
    OBVIOUS
  <2>1. Pool!TypeOK
    BY DEF Pool!Init, Pool!TypeOK, Pool!Null, Pool!PointerType
  <2>2. Lines = [p \in Pins |-> <<Pool!Null>>]
    BY DEF Pool!Init, Lines
  <2>3. IsLines(Lines)
    BY <2>2 DEF IsLines, Pool!Null, Pool!PointerType, Pool!SharedBlobsAssumption
  <2>4. \A p \in Pins : \A i \in 1..Len(Lines[p]) : Faithful(Lines[p][i])
    BY <2>2 DEF Faithful, Pool!Null
  <2>5. ASSUME NEW v \in Views PROVE viewCounts[v] = 1 + Cardinality(Places(Lines, v))
    <3>1. Places(Lines, v) = {}
      BY <2>2 DEF Places, Pool!Null, Pool!SharedBlobsAssumption
    <3>2. QED
      BY <3>1, FS_EmptySet DEF Pool!Init
  <2>6. QED
    BY <2>1, <2>3, <2>4, <2>5 DEF PoolIInv
<1>2. PoolIInv /\ [Pool!Next]_Pool!vars => PoolIInv'
  <2> SUFFICES ASSUME PoolIInv, [Pool!Next]_Pool!vars PROVE PoolIInv'
    OBVIOUS
  <2>1. ASSUME NEW v \in Views, Pool!send(v) PROVE PoolIInv'
    <3>1. Pool!Pointer(v) \in Pool!PointerType /\ Faithful(Pool!Pointer(v))
      BY DEF Pool!Pointer, Pool!PointerType, Faithful, PoolIInv, Pool!TypeOK
    <3>2. QED
      BY <2>1, <3>1, StepSend DEF Pool!send, Pool!SharedBlobsAssumption
  <2>2. ASSUME Pool!sendNull PROVE PoolIInv'
    <3>1. Pool!Null \in Pool!PointerType /\ Faithful(Pool!Null)
      BY DEF Pool!Null, Pool!PointerType, Faithful
    <3>2. QED
      BY <2>2, <3>1, StepSend DEF Pool!sendNull, Pool!SharedBlobsAssumption
  <2>3. ASSUME NEW p \in Pins, Pool!forward(p) PROVE PoolIInv'
    <3>1. PICK pointer : /\ Pool!Send(p, pointer)
                         /\ pointer = [value_[First] EXCEPT !.content =
                                         IF value_[First].view = Nothing THEN Nothing
                                         ELSE data_[value_[First].view]]
      BY <2>3 DEF Pool!forward
    <3>2. First \in Pins /\ value_[First] \in Pool!PointerType /\ Pool!TypeOK
      BY DEF PoolIInv, Pool!TypeOK, Pool!SharedBlobsAssumption
    <3>3. pointer \in Pool!PointerType /\ Faithful(pointer)
      BY <3>1, <3>2 DEF Faithful, Pool!PointerType, Pool!TypeOK
    <3>4. QED
      BY <3>1, <3>3, StepSend
  <2>4. CASE UNCHANGED Pool!vars
    <3>1. data_' = data_ /\ viewCounts' = viewCounts /\ wire' = wire /\ value_' = value_
      BY <2>4 DEF Pool!vars
    <3>2. Lines' = Lines
      BY <3>1 DEF Lines
    <3>3. QED
      BY <3>1, <3>2 DEF PoolIInv, Pool!TypeOK, Pool!PointerType, Faithful
  <2>5. QED
    BY <2>1, <2>2, <2>3, <2>4, StepSet, StepPreProcessEvent DEF Pool!Next
<1>3. PoolIInv => BlobsStayWhileReferenced
  <2> SUFFICES ASSUME PoolIInv PROVE Pool!BlobsStayWhileReferenced
    BY DEF BlobsStayWhileReferenced
  <2>1. ASSUME NEW p \in Pins
        PROVE  /\ Len(Lines[p]) = Len(wire[p]) + 1 /\ Len(wire[p]) \in Nat
               /\ Lines[p][1] = value_[p]
               /\ \A i \in DOMAIN wire[p] : Lines[p][i + 1] = wire[p][i] /\ i + 1 \in 1..Len(Lines[p])
    <3>1. wire[p] \in Seq(Pool!PointerType) /\ Lines[p] = <<value_[p]>> \o wire[p]
      BY DEF PoolIInv, Pool!TypeOK, Lines
    <3>2. QED
      BY <3>1
  <2>2. ASSUME NEW p \in Pins
        PROVE  Faithful(value_[p]) /\ \A i \in DOMAIN wire[p] : Faithful(wire[p][i])
    <3>1. 1 \in 1..Len(Lines[p])
      BY <2>1
    <3>2. QED
      BY <2>1, <3>1 DEF PoolIInv
  <2>3. ASSUME NEW v \in Views,
               \A p \in Pins : value_[p].view # v /\ \A i \in DOMAIN wire[p] : wire[p][i].view # v
        PROVE  ~Pool!inUse(v)
    <3>1. ASSUME NEW p \in Pins, NEW j \in 1..Len(Lines[p]) PROVE Lines[p][j].view # v
      <4>1. CASE j = 1
        BY <2>1, <2>3, <4>1
      <4>2. CASE j # 1
        <5>1. wire[p] \in Seq(Pool!PointerType)
          BY DEF PoolIInv, Pool!TypeOK
        <5>2. j - 1 \in DOMAIN wire[p] /\ (j - 1) + 1 = j
          BY <2>1, <4>2, <5>1
        <5>3. Lines[p][j] = wire[p][j - 1]
          BY <2>1, <5>2
        <5>4. QED
          BY <2>3, <5>2, <5>3
      <4>3. QED
        BY <4>1, <4>2
    <3>2. Places(Lines, v) = {}
      BY <3>1 DEF Places
    <3>3. QED
      BY <3>2, HolderIsCounted
  <2>4. QED
    BY <2>2, <2>3 DEF Pool!BlobsStayWhileReferenced, Faithful, PoolIInv
<1>4. QED
  BY <1>1, <1>2, <1>3, PTL DEF Pool!Spec

-----------------------------------------------------------------------------
(* Settling filters *)

\* Once a sample has been put out by the settling sub-process, the constant to
\* be put out is the last sample that was heard.
SettlingIInv ==
  /\ streaming \in BOOLEAN
  /\ ~streaming => subProcess = "static"
  /\ subProcess # "filter" => ~inputStreams
  /\ subProcess = "static" \/ (subProcess = "settling" /\ historyIdx <= 0) => heard = staticOutputs

\* However often the input comes and goes, and whatever the filter puts out: an
\* output that is said not to stream does not move.
THEOREM SettledAlwaysStandStill == Settling!Spec => SettledOutputsStandStill
<1>0. Settling!FilterSettlingAssumption
  BY PartsAssumption
<1> USE <1>0
<1>1. Settling!Init => SettlingIInv
  BY DEF Settling!Init, SettlingIInv
<1>2. ASSUME NEW n \in SliceLengths
      PROVE  Settling!Constant(n)[n] = staticOutputs
  BY DEF Settling!Constant, Settling!FilterSettlingAssumption
<1>3. ASSUME SettlingIInv, [Settling!Next]_Settling!vars
      PROVE  SettlingIInv' /\ (~streaming' => heard' = heard /\ ~inputStreams' /\ subProcess' # "filter")
  <2> USE <1>3 DEF SettlingIInv
  <2> DEFINE StandsStill ==
        SettlingIInv' /\ (~streaming' => heard' = heard /\ ~inputStreams' /\ subProcess' # "filter")
  <2>1. CASE Settling!onSetPins
    <3>1. streaming' = TRUE /\ inputStreams' \in BOOLEAN /\ historyCount \in Nat \ {0}
      BY <2>1 DEF Settling!onSetPins, Settling!FilterSettlingAssumption
    <3>2. CASE inputStreams'
      <4>1. subProcess' = "filter"
        BY <2>1, <3>2 DEF Settling!onSetPins, Settling!initSettling
      <4>2. QED
        BY <3>1, <4>1
    <3>3. CASE ~inputStreams'
      <4>1. subProcess' = "settling" /\ historyIdx' = historyCount
        BY <2>1, <3>3 DEF Settling!onSetPins, Settling!initSettling
      <4>2. ~(historyCount <= 0)
        BY <3>1
      <4>3. QED
        BY <3>1, <3>3, <4>1, <4>2
    <3>4. QED
      BY <3>2, <3>3
  <2>2. ASSUME NEW n \in SliceLengths, Settling!subProcessFilter(n)
        PROVE  StandsStill
    BY <2>2 DEF Settling!subProcessFilter, Settling!Hear
  <2>3. ASSUME NEW n \in SliceLengths, Settling!subProcessSettling(n)
        PROVE  StandsStill
    BY <2>3 DEF Settling!subProcessSettling, Settling!Hear
  <2>4. ASSUME NEW n \in SliceLengths, Settling!OnFilterSettled(n)
        PROVE  StandsStill
    BY <1>2, <2>4 DEF Settling!OnFilterSettled, Settling!Hear
  <2>5. ASSUME NEW n \in SliceLengths, Settling!subProcessStatic(n)
        PROVE  StandsStill
    BY <1>2, <2>5 DEF Settling!subProcessStatic, Settling!Hear
  <2>6. CASE UNCHANGED Settling!vars
    BY <2>6 DEF Settling!vars
  <2>7. QED
    BY <2>1, <2>2, <2>3, <2>4, <2>5, <2>6 DEF Settling!Next
<1>4. SettlingIInv /\ [Settling!Next]_Settling!vars
        => SettlingIInv' /\ [~streaming' => heard' = heard /\ ~inputStreams' /\ subProcess' # "filter"]_Settling!vars
  BY <1>3
<1>5. QED
  BY <1>1, <1>4, PTL
     DEF Settling!Spec, SettledOutputsStandStill, Settling!SettledOutputsStandStill

-----------------------------------------------------------------------------
(* The discovery of plugins *)

LEMMA SameCardinality == \A S : Discovery!Cardinality(S) = Cardinality(S)
BY DEF Discovery!Cardinality, Cardinality

Among(I, n) == I \subseteq 1..n

\* ElementsAt lists the elements at the given positions, the k-th of them the one
\* that k - 1 others come before.
LEMMA ElementsInOrder ==
  ASSUME NEW n \in Nat, NEW I, Among(I, n), NEW s
  PROVE  /\ Cardinality(I) \in Nat
         /\ Lists(Discovery!ElementsAt(s, I), Cardinality(I))
         /\ \A k \in 1..Cardinality(I) :
              \E i \in I : Cardinality(Before(I, i)) = k - 1 /\ Discovery!ElementsAt(s, I)[k] = s[i]
         /\ \A i \in I :
              /\ Cardinality(Before(I, i)) + 1 \in 1..Cardinality(I)
              /\ Discovery!ElementsAt(s, I)[Cardinality(Before(I, i)) + 1] = s[i]
<1> DEFINE at(k) == CHOOSE i \in I : Discovery!Cardinality({ j \in I : j < i }) = k - 1
           e == Discovery!ElementsAt(s, I)
<1>1. /\ Cardinality(I) \in Nat
      /\ \A i \in I : Cardinality(Before(I, i)) \in 0..Cardinality(I) - 1
      /\ \A i, j \in I : i < j => Cardinality(Before(I, i)) < Cardinality(Before(I, j))
      /\ \A k \in 0..Cardinality(I) - 1 : \E i \in I : Cardinality(Before(I, i)) = k
  BY OrderedPositions DEF Among
<1>2. e = [k \in 1..Cardinality(I) |-> s[at(k)]]
  <2>1. e = [k \in 1..Discovery!Cardinality(I) |-> s[at(k)]]
    BY Zenon DEF Discovery!ElementsAt
  <2> HIDE DEF at, e
  <2>2. QED
    BY <2>1, SameCardinality
<1>3. ASSUME NEW k \in 1..Cardinality(I)
      PROVE  at(k) \in I /\ Cardinality(Before(I, at(k))) = k - 1 /\ e[k] = s[at(k)]
  <2>1. k - 1 \in 0..Cardinality(I) - 1
    BY <1>1
  <2>2. \E i \in I : Discovery!Cardinality({ j \in I : j < i }) = k - 1
    BY <1>1, <2>1, SameCardinality DEF Before
  <2>3. at(k) \in I /\ Cardinality(Before(I, at(k))) = k - 1
    <3>1. at(k) \in I /\ Discovery!Cardinality({ j \in I : j < at(k) }) = k - 1
      BY <2>2, Zenon
    <3> HIDE DEF at
    <3>2. QED
      BY <3>1, SameCardinality DEF Before
  <2>4. e[k] = s[at(k)]
    BY <1>2, Zenon
  <2>5. QED
    BY <2>3, <2>4, Zenon
<1> HIDE DEF at, e
<1>4. ASSUME NEW i \in I, NEW k, k = Cardinality(Before(I, i)) + 1
      PROVE  k \in 1..Cardinality(I) /\ e[k] = s[i]
  <2>1. Cardinality(Before(I, i)) \in 0..Cardinality(I) - 1
    BY <1>1
  <2>2. k \in 1..Cardinality(I) /\ k - 1 = Cardinality(Before(I, i))
    BY <1>1, <1>4, <2>1
  <2>3. at(k) \in I /\ Cardinality(Before(I, at(k))) = Cardinality(Before(I, i)) /\ e[k] = s[at(k)]
    BY <1>3, <2>2
  <2>4. at(k) \in 1..n /\ i \in 1..n
    BY <2>3 DEF Among
  <2>5. at(k) = i
    BY <1>1, <2>1, <2>3, <2>4
  <2>6. QED
    BY <2>2, <2>3, <2>5
<1>5. Lists(e, Cardinality(I))
  BY <1>2, <1>3 DEF Lists
<1>6. QED
  BY <1>1, <1>3, <1>4, <1>5 DEF e

\* The enumeration of host controls: each of them once, bypass as the last.
LEMMA HostControlsAreListed ==
  /\ DOMAIN Discovery!HostControls = 1..8
  /\ \A i \in 1..8 :
       /\ Discovery!HostControls[i] # "None"
       /\ Discovery!HostControls[i] = "ProcessBypass" <=> i = 8
       /\ Discovery!indexOf(Discovery!HostControls[i]) = i
       /\ Discovery!hostControlDatatypes[i] \in {"Float32", "Int32", "Bool"}
  /\ Discovery!hostControlDatatypes[8] = "Bool"
<1> DEFINE hcs == Discovery!HostControls
<1>1. /\ DOMAIN hcs = 1..8
      /\ hcs[1] = "TimeBpm" /\ hcs[2] = "TimeQuarterNotePosition" /\ hcs[3] = "TimeTransportPlaying"
      /\ hcs[4] = "TimeBarStart" /\ hcs[5] = "TimeNumerator" /\ hcs[6] = "TimeDenominator"
      /\ hcs[7] = "ProcessRendermode" /\ hcs[8] = "ProcessBypass"
  BY DEF Discovery!HostControls
<1>2. \A i \in 1..8 : Discovery!hostControlDatatypes[i] \in {"Float32", "Int32", "Bool"}
  BY DEF Discovery!hostControlDatatypes
<1>3. Discovery!hostControlDatatypes[8] = "Bool"
  BY DEF Discovery!hostControlDatatypes
<1> HIDE DEF hcs
<1>4. ASSUME NEW i \in 1..8, NEW j \in 1..8, hcs[i] = hcs[j] PROVE i = j
  BY <1>1, <1>4
<1>5. ASSUME NEW i \in 1..8 PROVE Discovery!indexOf(hcs[i]) = i
  <2> DEFINE k == Discovery!indexOf(hcs[i])
  <2>1. k = CHOOSE j \in DOMAIN hcs : hcs[j] = hcs[i]
    BY Zenon DEF Discovery!indexOf, hcs
  <2>2. k \in DOMAIN hcs /\ hcs[k] = hcs[i]
    <3> HIDE DEF k
    <3>1. \E j \in DOMAIN hcs : hcs[j] = hcs[i]
      BY <1>1
    <3>2. QED
      BY <2>1, <3>1, Zenon
  <2> HIDE DEF k
  <2>3. k = i
    BY <1>1, <1>4, <2>2
  <2>4. QED
    BY <2>3 DEF k
<1>6. \A i \in 1..8 : hcs[i] # "None" /\ (hcs[i] = "ProcessBypass" <=> i = 8)
  BY <1>1
<1>7. QED
  BY <1>1, <1>2, <1>3, <1>5, <1>6 DEF hcs

-----------------------------------------------------------------------------
(* A sound element is read *)

Read(e) == [i \in DOMAIN e.parameters |-> Discovery!readParameter(e.parameters[i])]

BareInfo(e) ==
  [id |-> e.id,
   parameters |-> Read(e),
   dspPins |-> Discovery!readPins(Read(e), e.audioPins, "Audio"),
   guiPins |-> Discovery!readPins(Read(e), e.guiPins, "Editor")]

Used(e) == Discovery!usedHostControls(BareInfo(e))

\* A host control that a pin of the processor or the editor asks for.
IsAskedFor(e, hc) ==
  \/ \E k \in DOMAIN e.audioPins : e.audioPins[k].hostConnect = hc
  \/ \E k \in DOMAIN e.guiPins : e.guiPins[k].hostConnect = hc

\* What is read of the <Parameter> elements.
LEMMA ParametersAreRead ==
  ASSUME NEW e, Discovery!IsSound(e)
  PROVE  /\ Len(e.parameters) \in Nat
         /\ Lists(Read(e), Len(e.parameters))
         /\ \A i \in 1..Len(e.parameters) :
              /\ Read(e)[i].id \in Int /\ Read(e)[i].id >= -1
              /\ Read(e)[i].id = Discovery!given(e.parameters[i].id, -1)
              /\ Read(e)[i].dawTag = -1 /\ Read(e)[i].hostConnect = "None"
         /\ \A i, j \in 1..Len(e.parameters) : Read(e)[i].id = Read(e)[j].id => i = j
<1> DEFINE ids == [i \in DOMAIN e.parameters |-> Discovery!given(e.parameters[i].id, -1)]
<1>1. /\ Len(e.parameters) \in Nat /\ DOMAIN e.parameters = 1..Len(e.parameters)
      /\ \A i \in DOMAIN ids : ids[i] \in Int /\ ids[i] >= -1
      /\ \A i, j \in DOMAIN ids : ids[i] = ids[j] => i = j
  BY Zenon DEF Discovery!IsSound, Discovery!IsSequence
<1>2. Lists(Read(e), Len(e.parameters))
  BY <1>1 DEF Lists, Read
<1>3. ASSUME NEW i \in 1..Len(e.parameters)
      PROVE  /\ Read(e)[i].id = ids[i]
             /\ Read(e)[i].dawTag = -1 /\ Read(e)[i].hostConnect = "None"
  BY <1>1 DEF Read, Discovery!readParameter
<1>4. \A i \in 1..Len(e.parameters) : ids[i] = Discovery!given(e.parameters[i].id, -1)
  BY <1>1
<1>5. DOMAIN ids = 1..Len(e.parameters)
  BY <1>1
<1> HIDE DEF ids
<1>6. \A i \in 1..Len(e.parameters) :
        /\ Read(e)[i].id \in Int /\ Read(e)[i].id >= -1
        /\ Read(e)[i].id = Discovery!given(e.parameters[i].id, -1)
        /\ Read(e)[i].dawTag = -1 /\ Read(e)[i].hostConnect = "None"
  BY <1>1, <1>3, <1>4, <1>5
<1>7. \A i, j \in 1..Len(e.parameters) : Read(e)[i].id = Read(e)[j].id => i = j
  BY <1>1, <1>3, <1>5
<1>8. QED
  BY <1>1, <1>2, <1>6, <1>7, Zenon

\* The id of bypass is above that of every parameter read.
LEMMA BypassIsFresh ==
  ASSUME NEW e, Discovery!IsSound(e)
  PROVE  /\ Discovery!bypassParamId(Read(e)) \in Nat
         /\ \A i \in 1..Len(e.parameters) : Read(e)[i].id < Discovery!bypassParamId(Read(e))
<1> DEFINE n == Len(e.parameters)
           at(i) == Read(e)[i].id
           idsTo(k) == { at(i) : i \in 1..k } \cup {-1}
           bounded == { k \in 0..n : \E m \in idsTo(k) : m \in Int /\ \A id \in idsTo(k) : id <= m }
<1>1. n \in Nat /\ DOMAIN Read(e) = 1..n /\ \A i \in 1..n : at(i) \in Int /\ at(i) >= -1
  <2>1. Lists(Read(e), n) /\ n \in Nat
    BY ParametersAreRead
  <2>2. DOMAIN Read(e) = 1..n
    BY <2>1, ListsAreSequences
  <2>3. QED
    BY <2>1, <2>2, ParametersAreRead
<1> HIDE DEF n, at
<1>2. 0 \in bounded
  <2>1. idsTo(0) = {-1} /\ 0 \in 0..n
    BY <1>1
  <2> HIDE DEF idsTo
  <2>2. QED
    BY <2>1
<1>3. ASSUME NEW k \in 1..n, k - 1 \in bounded PROVE k \in bounded
  <2>1. PICK m \in idsTo(k - 1) : m \in Int /\ \A id \in idsTo(k - 1) : id <= m
    BY <1>3
  <2>2. idsTo(k) = idsTo(k - 1) \cup {at(k)} /\ at(k) \in Int
    <3>1. 1..k = (1..k - 1) \cup {k}
      OBVIOUS
    <3>2. QED
      BY <1>1, <3>1
  <2>3. \E top \in idsTo(k) : top \in Int /\ \A id \in idsTo(k) : id <= top
    <3> HIDE DEF idsTo
    <3>1. CASE at(k) <= m
      BY <2>1, <2>2, <3>1
    <3>2. CASE ~(at(k) <= m)
      <4>1. \A id \in idsTo(k - 1) : id \in Int
        BY <1>1 DEF idsTo
      <4>2. \A id \in idsTo(k) : id <= at(k)
        BY <2>1, <2>2, <3>2, <4>1
      <4>3. QED
        BY <2>2, <4>2
    <3>3. QED
      BY <3>1, <3>2
  <2>4. QED
    BY <2>3
<1>4. n \in bounded
  <2>1. n \in 0..n
    BY <1>1
  <2> HIDE DEF bounded
  <2>2. 0..n \subseteq bounded
    BY <1>1, <1>2, <1>3, UpTo, Zenon
  <2>3. QED
    BY <2>1, <2>2, Zenon
<1> DEFINE ids == { Read(e)[i].id : i \in DOMAIN Read(e) } \cup {-1}
           top == CHOOSE m \in ids : \A id \in ids : id <= m
<1>5. ids = idsTo(n)
  BY <1>1 DEF at
<1>6. top \in ids /\ \A id \in ids : id <= top
  <2>1. \E m \in ids : \A id \in ids : id <= m
    BY <1>4, <1>5
  <2> HIDE DEF ids
  <2>2. QED
    BY <2>1, Zenon
<1>7. Discovery!bypassParamId(Read(e)) = 1 + top
  BY DEF Discovery!bypassParamId
<1>8. ids \subseteq Int /\ -1 \in ids /\ \A i \in 1..n : Read(e)[i].id \in ids
  BY <1>1, <1>5 DEF at
<1> HIDE DEF top, ids
<1>9. top \in Int /\ -1 <= top /\ \A i \in 1..n : Read(e)[i].id \in Int /\ Read(e)[i].id <= top
  BY <1>6, <1>8
<1>10. QED
  BY <1>7, <1>9 DEF n

\* The host controls that are made parameters: those asked for, each once, in
\* the order of the enumeration.
LEMMA HostControlsAreUsed ==
  ASSUME NEW e, Discovery!IsSound(e)
  PROVE  /\ Len(Used(e)) \in Nat
         /\ Lists(Used(e), Len(Used(e)))
         /\ \A k \in 1..Len(Used(e)) :
              /\ \E i \in 1..8 : Used(e)[k] = Discovery!HostControls[i]
              /\ Used(e)[k] = "ProcessBypass" => k = Len(Used(e))
         /\ \A j, k \in 1..Len(Used(e)) : Used(e)[j] = Used(e)[k] => j = k
         /\ \A i \in 1..8 : IsAskedFor(e, Discovery!HostControls[i]) =>
              \E k \in 1..Len(Used(e)) : Used(e)[k] = Discovery!HostControls[i]
<1> DEFINE hcs == Discovery!HostControls
           I == { i \in 1..8 : IsAskedFor(e, hcs[i]) }
           c == Cardinality(I)
           u == Used(e)
<1>1. u = Discovery!ElementsAt(hcs, I)
  <2> DEFINE asked(list, hc) == \E k \in DOMAIN list : list[k].hostConnect = hc
             info == BareInfo(e)
             J == { i \in DOMAIN hcs : asked(info.dspPins, hcs[i]) \/ asked(info.guiPins, hcs[i]) }
  <2>1. u = Discovery!ElementsAt(hcs, J)
    BY Zenon DEF Used, Discovery!usedHostControls
  <2>2. /\ info.dspPins = Discovery!readPins(Read(e), e.audioPins, "Audio")
        /\ info.guiPins = Discovery!readPins(Read(e), e.guiPins, "Editor")
    BY DEF BareInfo
  <2>3. /\ DOMAIN e.audioPins = 1..Len(e.audioPins)
        /\ DOMAIN e.guiPins = 1..Len(e.guiPins)
    BY Zenon DEF Discovery!IsSound, Discovery!IsSequence
  <2>4. \A hc : asked(info.dspPins, hc) \/ asked(info.guiPins, hc) <=> IsAskedFor(e, hc)
    <3> SUFFICES ASSUME NEW hc
                 PROVE  asked(info.dspPins, hc) \/ asked(info.guiPins, hc) <=> IsAskedFor(e, hc)
      OBVIOUS
    <3>1. asked(info.dspPins, hc) <=> \E k \in DOMAIN e.audioPins : e.audioPins[k].hostConnect = hc
      <4> DEFINE elements == e.audioPins
                 list == info.dspPins
      <4>1. DOMAIN elements = 1..Len(elements) /\ list = Discovery!readPins(Read(e), elements, "Audio")
        BY <2>2, <2>3
      <4> HIDE DEF list
      <4>2. asked(list, hc) <=> \E k \in DOMAIN elements : elements[k].hostConnect = hc
        BY <4>1 DEF Discovery!readPins, Discovery!RegisterPin
      <4>3. QED
        BY <4>2 DEF list
    <3>2. asked(info.guiPins, hc) <=> \E k \in DOMAIN e.guiPins : e.guiPins[k].hostConnect = hc
      <4> DEFINE elements == e.guiPins
                 list == info.guiPins
      <4>1. DOMAIN elements = 1..Len(elements) /\ list = Discovery!readPins(Read(e), elements, "Editor")
        BY <2>2, <2>3
      <4> HIDE DEF list
      <4>2. asked(list, hc) <=> \E k \in DOMAIN elements : elements[k].hostConnect = hc
        BY <4>1 DEF Discovery!readPins, Discovery!RegisterPin
      <4>3. QED
        BY <4>2 DEF list
    <3> HIDE DEF asked
    <3>3. QED
      BY <3>1, <3>2, Zenon DEF IsAskedFor
  <2>5. J = I
    <3> HIDE DEF asked, info, hcs
    <3>1. DOMAIN hcs = 1..8
      BY HostControlsAreListed DEF hcs
    <3>2. QED
      BY <2>4, <3>1
  <2>6. QED
    BY <2>1, <2>5, Zenon
<1>2. /\ c \in Nat
      /\ Lists(u, c)
      /\ \A k \in 1..c : \E i \in I : Cardinality(Before(I, i)) = k - 1 /\ u[k] = hcs[i]
      /\ \A i \in I : Cardinality(Before(I, i)) + 1 \in 1..c /\ u[Cardinality(Before(I, i)) + 1] = hcs[i]
  <2> HIDE DEF u, hcs
  <2>1. Among(I, 8) /\ 8 \in Nat
    BY DEF Among
  <2> HIDE DEF I
  <2>2. QED
    <3> DEFINE l == Discovery!ElementsAt(hcs, I)
    <3>1. /\ Cardinality(I) \in Nat
          /\ Lists(l, Cardinality(I))
          /\ \A k \in 1..Cardinality(I) : \E i \in I : Cardinality(Before(I, i)) = k - 1 /\ l[k] = hcs[i]
          /\ \A i \in I : /\ Cardinality(Before(I, i)) + 1 \in 1..Cardinality(I)
                          /\ l[Cardinality(Before(I, i)) + 1] = hcs[i]
      BY <2>1, ElementsInOrder
    <3> HIDE DEF l
    <3>2. l = u
      BY <1>1 DEF l
    <3>3. QED
      BY <3>1, <3>2, Zenon
<1>3. /\ \A i \in 1..8 : hcs[i] = "ProcessBypass" => i = 8
      /\ \A i, j \in 1..8 : hcs[i] = hcs[j] => i = j
  <2>1. \A i \in 1..8 : Discovery!indexOf(hcs[i]) = i
    BY HostControlsAreListed
  <2>2. QED
    BY <2>1, HostControlsAreListed
<1>4. \A i, j \in I : i < j => Cardinality(Before(I, i)) < Cardinality(Before(I, j))
  <2>1. I \in SUBSET (1..8) /\ 8 \in Nat
    OBVIOUS
  <2> HIDE DEF I
  <2>2. QED
    BY <2>1, OrderedPositions
<1>5. I \subseteq 1..8 /\ \A i \in 1..8 : IsAskedFor(e, hcs[i]) => i \in I
  OBVIOUS
<1> HIDE DEF hcs, I, c, u
<1>6. Len(u) = c
  BY <1>2, ListsAreSequences
<1>7. ASSUME NEW k \in 1..c, u[k] = "ProcessBypass" PROVE k = c
  <2>1. PICK i \in I : Cardinality(Before(I, i)) = k - 1 /\ u[k] = hcs[i]
    BY <1>2
  <2>2. c \in 1..c
    BY <1>2
  <2>3. PICK j \in I : Cardinality(Before(I, j)) = c - 1 /\ u[c] = hcs[j]
    BY <1>2, <2>2
  <2>4. i = 8
    BY <1>3, <1>5, <1>7, <2>1
  <2>5. j \in 1..8
    BY <1>5
  <2>6. CASE j < i
    <3>1. Cardinality(Before(I, j)) < Cardinality(Before(I, i))
      BY <1>4, <2>6
    <3>2. QED
      BY <1>2, <2>1, <2>3, <3>1
  <2>7. CASE j = i
    BY <1>2, <2>1, <2>3, <2>7
  <2>8. QED
    BY <2>4, <2>5, <2>6, <2>7
<1>8. ASSUME NEW j \in 1..c, NEW k \in 1..c, u[j] = u[k] PROVE j = k
  <2>1. PICK a \in I : Cardinality(Before(I, a)) = j - 1 /\ u[j] = hcs[a]
    BY <1>2
  <2>2. PICK b \in I : Cardinality(Before(I, b)) = k - 1 /\ u[k] = hcs[b]
    BY <1>2
  <2>3. a = b
    BY <1>3, <1>5, <1>8, <2>1, <2>2
  <2>4. QED
    BY <2>1, <2>2, <2>3
<1>9. \A k \in 1..c : \E i \in 1..8 : u[k] = hcs[i]
  BY <1>2, <1>5
<1>10. \A i \in 1..8 : IsAskedFor(e, hcs[i]) => \E k \in 1..c : u[k] = hcs[i]
  BY <1>2, <1>5
<1>11. QED
  BY <1>2, <1>6, <1>7, <1>8, <1>9, <1>10 DEF u, hcs

\* Records of a parameter, with the fields of paramInfo.
IsParameter(p) ==
  DOMAIN p = {"id", "dawTag", "hostConnect", "datatype", "is_private", "is_stateful"}

\* The parameters that were read, then those of the host controls.
AllParameters(e) ==
  Read(e) \o [k \in DOMAIN Used(e) |-> Discovery!hostParameter(Used(e)[k], Read(e))]

CountOfAll(e) == Len(e.parameters) + Len(Used(e))

LEMMA AllParametersAre ==
  ASSUME NEW e, Discovery!IsSound(e)
  PROVE  /\ CountOfAll(e) \in Nat
         /\ Lists(AllParameters(e), CountOfAll(e))
         /\ \A i \in 1..CountOfAll(e) : IsParameter(AllParameters(e)[i]) /\ AllParameters(e)[i].dawTag = -1
         /\ \A i \in 1..Len(e.parameters) : AllParameters(e)[i] = Read(e)[i]
         /\ \A k \in 1..Len(Used(e)) :
              /\ Len(e.parameters) + k \in 1..CountOfAll(e)
              /\ AllParameters(e)[Len(e.parameters) + k] = Discovery!hostParameter(Used(e)[k], Read(e))
         /\ \A i \in 1..CountOfAll(e) :
              i \in 1..Len(e.parameters) \/ \E k \in 1..Len(Used(e)) : i = Len(e.parameters) + k
<1> DEFINE n == Len(e.parameters)
           m == Len(Used(e))
           host == [k \in DOMAIN Used(e) |-> Discovery!hostParameter(Used(e)[k], Read(e))]
<1>1. n \in Nat /\ m \in Nat /\ Lists(Read(e), n) /\ Lists(Used(e), m)
  BY ParametersAreRead, HostControlsAreUsed
<1>2. DOMAIN Used(e) = 1..m
  <2> HIDE DEF m
  <2> QED
    BY <1>1, ListsAreSequences
<1>3. Lists(host, m) /\ \A k \in 1..m : host[k] = Discovery!hostParameter(Used(e)[k], Read(e))
  <2> HIDE DEF m
  <2> QED
    BY <1>2 DEF Lists
<1>4. \A i \in 1..n : IsParameter(Read(e)[i]) /\ Read(e)[i].dawTag = -1
  <2>1. DOMAIN e.parameters = 1..n
    BY Zenon DEF Discovery!IsSound, Discovery!IsSequence
  <2>2. QED
    BY <2>1 DEF IsParameter, Read, Discovery!readParameter
<1>5. \A k \in 1..m : IsParameter(host[k]) /\ host[k].dawTag = -1
  <2> HIDE DEF m, host
  <2>1. QED
    <3>1. \A hc, ps : /\ IsParameter(Discovery!hostParameter(hc, ps))
                     /\ Discovery!hostParameter(hc, ps).dawTag = -1
      BY DEF IsParameter, Discovery!hostParameter
    <3>2. QED
      BY <1>3, <3>1
<1> DEFINE all == Read(e) \o host
<1>6. /\ Lists(all, n + m)
      /\ \A i \in 1..n : all[i] = Read(e)[i]
      /\ \A k \in 1..m : all[n + k] = host[k]
  <2> HIDE DEF n, m, host
  <2>1. OneAfterTheOther(Read(e), host, all)
    BY Zenon DEF OneAfterTheOther
  <2> HIDE DEF all
  <2>2. QED
    BY <1>1, <1>3, <2>1, ListsJoined
<1> HIDE DEF n, m, host, all
<1>7. \A i \in 1..n + m : i \in 1..n \/ \E k \in 1..m : i = n + k
  <2>1. ASSUME NEW i \in 1..n + m, i \notin 1..n PROVE \E k \in 1..m : i = n + k
    <3>1. i - n \in 1..m /\ i = n + (i - n)
      BY <1>1, <2>1
    <3>2. QED
      BY <3>1
  <2>2. QED
    BY <2>1
<1>8. \A k \in 1..m : n + k \in 1..n + m
  BY <1>1
<1>9. \A i \in 1..n + m : IsParameter(all[i]) /\ all[i].dawTag = -1
  <2> TAKE i \in 1..n + m
  <2>1. CASE i \in 1..n
    BY <1>4, <1>6, <2>1
  <2>2. CASE \E k \in 1..m : i = n + k
    BY <1>5, <1>6, <2>2
  <2>3. QED
    BY <1>7, <2>1, <2>2
<1>10. n + m \in Nat
  BY <1>1
<1>11. QED
  BY <1>3, <1>6, <1>7, <1>8, <1>9, <1>10, Zenon DEF CountOfAll, AllParameters, n, m, host, all

\* No two of them have the same id.
LEMMA IdsAreDistinct ==
  ASSUME NEW e, Discovery!IsSound(e), NEW i \in 1..CountOfAll(e), NEW j \in 1..CountOfAll(e),
         AllParameters(e)[i].id = AllParameters(e)[j].id
  PROVE  i = j
<1> DEFINE n == Len(e.parameters)
           m == Len(Used(e))
           all == AllParameters(e)
           bypass == Discovery!bypassParamId(Read(e))
<1>1. /\ \A k \in 1..n : all[k] = Read(e)[k]
      /\ \A k \in 1..m : all[n + k].id = Discovery!idOf(Used(e)[k], Read(e))
      /\ \A k \in 1..CountOfAll(e) : k \in 1..n \/ \E h \in 1..m : k = n + h
  <2>1. \A hc, ps : Discovery!hostParameter(hc, ps).id = Discovery!idOf(hc, ps)
    BY DEF Discovery!hostParameter
  <2>2. QED
    BY <2>1, AllParametersAre
<1>2. /\ \A k \in 1..n : Read(e)[k].id \in Int /\ Read(e)[k].id >= -1
      /\ \A k, h \in 1..n : Read(e)[k].id = Read(e)[h].id => k = h
      /\ n \in Nat
  BY ParametersAreRead
<1>3. bypass \in Nat /\ \A k \in 1..n : Read(e)[k].id < bypass
  BY BypassIsFresh
<1>4. /\ m \in Nat
      /\ \A k \in 1..m : \E h \in 1..8 : Used(e)[k] = Discovery!HostControls[h]
      /\ \A k, h \in 1..m : Used(e)[k] = Used(e)[h] => k = h
  BY HostControlsAreUsed
<1>5. \A h \in 1..8 :
        Discovery!idOf(Discovery!HostControls[h], Read(e)) = IF h = 8 THEN bypass ELSE -1 - h
  <2> TAKE h \in 1..8
  <2>1. /\ Discovery!indexOf(Discovery!HostControls[h]) = h
        /\ Discovery!HostControls[h] = "ProcessBypass" <=> h = 8
    BY HostControlsAreListed
  <2>2. Discovery!hostControlId(Discovery!HostControls[h]) = -1 - h
    BY <2>1 DEF Discovery!hostControlId
  <2>3. QED
    BY <2>1, <2>2 DEF Discovery!idOf
<1> HIDE DEF n, m, all, bypass
<1>6. ASSUME NEW k \in 1..n, NEW h \in 1..m PROVE all[k].id # all[n + h].id
  <2>1. PICK c \in 1..8 : Used(e)[h] = Discovery!HostControls[c]
    BY <1>4
  <2>2. all[n + h].id = IF c = 8 THEN bypass ELSE -1 - c
    BY <1>1, <1>5, <2>1
  <2>3. all[k].id \in Int /\ all[k].id >= -1 /\ all[k].id < bypass
    BY <1>1, <1>2, <1>3
  <2>4. QED
    BY <1>3, <2>2, <2>3
<1>7. ASSUME NEW k \in 1..m, NEW h \in 1..m, all[n + k].id = all[n + h].id PROVE k = h
  <2>1. PICK c \in 1..8 : Used(e)[k] = Discovery!HostControls[c]
    BY <1>4
  <2>2. PICK d \in 1..8 : Used(e)[h] = Discovery!HostControls[d]
    BY <1>4
  <2>3. all[n + k].id = (IF c = 8 THEN bypass ELSE -1 - c) /\ all[n + h].id = IF d = 8 THEN bypass ELSE -1 - d
    BY <1>1, <1>5, <2>1, <2>2
  <2>4. c = d
    <3>1. (IF c = 8 THEN bypass ELSE -1 - c) = IF d = 8 THEN bypass ELSE -1 - d
      BY <1>7, <2>3, Zenon
    <3>2. QED
      BY <1>3, <3>1
  <2>5. QED
    BY <1>4, <2>1, <2>2, <2>4
<1>8. all[i].id = all[j].id
  BY DEF all
<1>9. CASE i \in 1..n /\ j \in 1..n
  BY <1>1, <1>2, <1>8, <1>9
<1>10. CASE i \in 1..n /\ \E h \in 1..m : j = n + h
  BY <1>6, <1>8, <1>10
<1>11. CASE j \in 1..n /\ \E h \in 1..m : i = n + h
  BY <1>6, <1>8, <1>11
<1>12. CASE (\E k \in 1..m : i = n + k) /\ (\E h \in 1..m : j = n + h)
  BY <1>7, <1>8, <1>12
<1>13. QED
  BY <1>1, <1>9, <1>10, <1>11, <1>12

\* What readpluginXml makes of one element.
LEMMA PluginIsRead ==
  ASSUME NEW e
  PROVE  /\ Discovery!readPlugin(e).parameters = Discovery!withTags(AllParameters(e))
         /\ Discovery!readPlugin(e).dspPins =
              Discovery!renumbered(Discovery!readPins(Read(e), e.audioPins, "Audio"), Read(e))
         /\ Discovery!readPlugin(e).guiPins =
              Discovery!renumbered(Discovery!readPins(Read(e), e.guiPins, "Editor"), Read(e))
<1> DEFINE info == BareInfo(e)
           full == Discovery!consolidated(info)
<1>1. Discovery!readPlugin(e) = [full EXCEPT !.parameters = Discovery!withTags(@)]
  BY Zenon DEF Discovery!readPlugin, BareInfo, Read
<1>2. /\ DOMAIN info = {"id", "parameters", "dspPins", "guiPins"}
      /\ info.parameters = Read(e)
      /\ info.dspPins = Discovery!readPins(Read(e), e.audioPins, "Audio")
      /\ info.guiPins = Discovery!readPins(Read(e), e.guiPins, "Editor")
  BY DEF BareInfo
<1>3. full = [info EXCEPT
               !.parameters = @ \o [k \in DOMAIN Used(e) |-> Discovery!hostParameter(Used(e)[k], @)],
               !.dspPins = Discovery!renumbered(@, info.parameters),
               !.guiPins = Discovery!renumbered(@, info.parameters)]
  BY Zenon DEF Discovery!consolidated, Used
<1> HIDE DEF info, full
<1>4. /\ DOMAIN full = {"id", "parameters", "dspPins", "guiPins"}
      /\ full.parameters = AllParameters(e)
      /\ full.dspPins = Discovery!renumbered(info.dspPins, info.parameters)
      /\ full.guiPins = Discovery!renumbered(info.guiPins, info.parameters)
  BY <1>2, <1>3 DEF AllParameters
<1>5. QED
  BY <1>1, <1>2, <1>4

\* Where a parameter has a tag, it is the number of those with a tag before it.
LEMMA TagsAreGiven ==
  ASSUME NEW n \in Nat, NEW ps, Lists(ps, n),
         \A i \in 1..n : IsParameter(ps[i]) /\ ps[i].dawTag = -1
  PROVE  /\ Lists(Discovery!withTags(ps), n)
         /\ \A i \in 1..n :
              /\ Discovery!withTags(ps)[i].id = ps[i].id
              /\ Discovery!withTags(ps)[i].hostConnect = ps[i].hostConnect
              /\ Discovery!withTags(ps)[i].datatype = ps[i].datatype
              /\ Discovery!withTags(ps)[i].dawTag =
                   IF Discovery!hasTag(ps[i])
                     THEN Cardinality(Before({ j \in 1..n : Discovery!hasTag(ps[j]) }, i))
                     ELSE -1
<1> DEFINE tagged == Discovery!withTags(ps)
           I == { j \in 1..n : Discovery!hasTag(ps[j]) }
           count(i) == Discovery!Cardinality({ j \in 1..i - 1 : Discovery!hasTag(ps[j]) })
<1>1. DOMAIN ps = 1..n
  BY ListsAreSequences
<1>2. tagged = [i \in 1..n |-> IF Discovery!hasTag(ps[i]) THEN [ps[i] EXCEPT !.dawTag = count(i)]
                                                       ELSE ps[i]]
  BY <1>1, Zenon DEF Discovery!withTags
<1>3. ASSUME NEW i \in 1..n PROVE count(i) = Cardinality(Before(I, i))
  <2>1. { j \in 1..i - 1 : Discovery!hasTag(ps[j]) } = Before(I, i)
    BY DEF Before
  <2>2. QED
    BY <2>1, SameCardinality
<1> HIDE DEF tagged, count, I
<1>4. Lists(tagged, n)
  BY <1>2 DEF Lists
<1>5. ASSUME NEW i \in 1..n, Discovery!hasTag(ps[i])
      PROVE  /\ tagged[i].id = ps[i].id /\ tagged[i].hostConnect = ps[i].hostConnect
             /\ tagged[i].datatype = ps[i].datatype /\ tagged[i].dawTag = count(i)
  <2>1. tagged[i] = [ps[i] EXCEPT !.dawTag = count(i)]
    BY <1>2, <1>5
  <2>2. DOMAIN ps[i] = {"id", "dawTag", "hostConnect", "datatype", "is_private", "is_stateful"}
    BY DEF IsParameter
  <2>3. QED
    BY <2>1, <2>2
<1>6. ASSUME NEW i \in 1..n, ~Discovery!hasTag(ps[i]) PROVE tagged[i] = ps[i]
  BY <1>2, <1>6
<1>7. QED
  BY <1>3, <1>4, <1>5, <1>6 DEF tagged, I

\* The parameters the DAW knows have their index as tag, and bypass is the last.
LEMMA TagsOfPlugin ==
  ASSUME NEW e, Discovery!IsSound(e), NEW native,
         native = Discovery!nativeParams(Discovery!readPlugin(e))
  PROVE  \A t \in DOMAIN native :
           /\ native[t].dawTag = t - 1
           /\ native[t].datatype \notin {"String", "Blob", "Midi"}
           /\ native[t].hostConnect \in {"None", "ProcessBypass"}
           /\ native[t].hostConnect = "ProcessBypass" => t = Len(native)
<1> DEFINE all == AllParameters(e)
           n == CountOfAll(e)
           tagged == Discovery!withTags(all)
           I == { i \in 1..n : Discovery!hasTag(all[i]) }
           rank(i) == Cardinality(Before(I, i))
           c == Cardinality(I)
<1>1. /\ n \in Nat /\ Lists(all, n)
      /\ \A i \in 1..n : IsParameter(all[i]) /\ all[i].dawTag = -1
  BY AllParametersAre
<1>2. /\ Lists(tagged, n)
      /\ \A i \in 1..n :
           /\ tagged[i].id = all[i].id /\ tagged[i].hostConnect = all[i].hostConnect
           /\ tagged[i].datatype = all[i].datatype
           /\ tagged[i].dawTag = IF Discovery!hasTag(all[i]) THEN rank(i) ELSE -1
  <2> HIDE DEF n, all
  <2>1. QED
    BY <1>1, TagsAreGiven
<1>3. /\ c \in Nat
      /\ \A i \in I : rank(i) \in 0..c - 1
      /\ \A i, j \in I : i < j => rank(i) < rank(j)
      /\ \A k \in 0..c - 1 : \E i \in I : rank(i) = k
  <2>1. I \in SUBSET (1..n)
    OBVIOUS
  <2> HIDE DEF I, n
  <2>2. QED
    BY <1>1, <2>1, OrderedPositions
<1>4. I \subseteq 1..n /\ \A i \in 1..n : i \in I <=> Discovery!hasTag(all[i])
  OBVIOUS
<1>5. Discovery!nativeParams(Discovery!readPlugin(e)) =
        Discovery!ElementsAt(tagged, { i \in DOMAIN tagged : tagged[i].dawTag > -1 })
  BY PluginIsRead, Zenon DEF Discovery!nativeParams
<1>6. native = Discovery!ElementsAt(tagged, I)
  <2> HIDE DEF tagged, I, n, all, rank, c
  <2>1. DOMAIN tagged = 1..n
    BY <1>1, <1>2, ListsAreSequences
  <2>2. ASSUME NEW i \in 1..n PROVE tagged[i].dawTag > -1 <=> i \in I
    BY <1>2, <1>3, <1>4
  <2>3. { i \in DOMAIN tagged : tagged[i].dawTag > -1 } = I
    BY <1>4, <2>1, <2>2
  <2>4. QED
    BY <1>5, <2>3
<1>7. /\ Lists(native, c)
      /\ \A k \in 1..c : \E i \in I : rank(i) = k - 1 /\ native[k] = tagged[i]
  <2> DEFINE l == Discovery!ElementsAt(tagged, I)
  <2>1. Among(I, n) /\ n \in Nat
    BY <1>1 DEF Among
  <2> HIDE DEF tagged, I, n, all
  <2>2. /\ Lists(l, Cardinality(I))
        /\ \A k \in 1..Cardinality(I) : \E i \in I : Cardinality(Before(I, i)) = k - 1 /\ l[k] = tagged[i]
    BY <2>1, ElementsInOrder
  <2> HIDE DEF l
  <2>3. l = native
    BY <1>6 DEF l
  <2>4. QED
    BY <2>2, <2>3, Zenon
<1> HIDE DEF tagged, I, n, all, rank, c
<1>8. DOMAIN native = 1..c /\ Len(native) = c
  BY <1>3, <1>7, ListsAreSequences
<1>9. ASSUME NEW i \in I
      PROVE  /\ all[i].datatype \notin {"String", "Blob", "Midi"}
             /\ all[i].hostConnect \in {"None", "ProcessBypass"}
             /\ all[i].hostConnect = "ProcessBypass" => i = n
  <2>1. i \in 1..n /\ Discovery!hasTag(all[i])
    BY <1>4
  <2>2. all[i].datatype \notin {"String", "Blob", "Midi"}
    BY <2>1 DEF Discovery!hasTag
  <2>3. CASE i \in 1..Len(e.parameters)
    <3>1. all[i].hostConnect = "None"
      BY <2>3, AllParametersAre, ParametersAreRead DEF all
    <3>2. QED
      BY <2>2, <3>1
  <2>4. ASSUME NEW k \in 1..Len(Used(e)), i = Len(e.parameters) + k
        PROVE  /\ all[i].hostConnect \in {"None", "ProcessBypass"}
               /\ all[i].hostConnect = "ProcessBypass" => i = n
    <3>1. all[i] = Discovery!hostParameter(Used(e)[k], Read(e))
      BY <2>4, AllParametersAre DEF all
    <3>2. all[i].hostConnect = Used(e)[k] /\ (all[i].is_private <=> Used(e)[k] # "ProcessBypass")
      <4>1. all[i].hostConnect = Used(e)[k]
        BY <3>1 DEF Discovery!hostParameter
      <4>2. all[i].is_private <=> Used(e)[k] # "ProcessBypass"
        <5>1. all[i].is_private = (Used(e)[k] # "ProcessBypass")
          BY <3>1 DEF Discovery!hostParameter
        <5>2. QED
          BY <5>1, Zenon
      <4>3. QED
        BY <4>1, <4>2, Zenon
    <3>3. ~all[i].is_private
      BY <2>1, Zenon DEF Discovery!hasTag
    <3>4. Used(e)[k] = "ProcessBypass"
      BY <3>2, <3>3, Zenon
    <3>5. k = Len(Used(e))
      BY <3>4, HostControlsAreUsed
    <3>6. i = n
      BY <2>4, <3>5 DEF n, CountOfAll
    <3>7. QED
      BY <3>2, <3>4, <3>6, Zenon
  <2>5. QED
    BY <2>1, <2>2, <2>3, <2>4, AllParametersAre DEF n
<1>10. ASSUME NEW t \in 1..c
       PROVE  /\ native[t].dawTag = t - 1
              /\ native[t].datatype \notin {"String", "Blob", "Midi"}
              /\ native[t].hostConnect \in {"None", "ProcessBypass"}
              /\ native[t].hostConnect = "ProcessBypass" => t = c
  <2>1. PICK i \in I : rank(i) = t - 1 /\ native[t] = tagged[i]
    BY <1>7
  <2>2. i \in 1..n /\ Discovery!hasTag(all[i])
    BY <1>4
  <2>3. /\ native[t].dawTag = t - 1
        /\ native[t].datatype = all[i].datatype /\ native[t].hostConnect = all[i].hostConnect
    BY <1>2, <2>1, <2>2
  <2>4. ASSUME i = n PROVE t = c
    <3>1. c - 1 \in 0..c - 1 /\ t \in 1..c
      BY <1>3
    <3>2. PICK j \in I : rank(j) = c - 1
      BY <1>3, <3>1
    <3>3. j \in 1..n /\ (j < i => rank(j) < rank(i)) /\ (j = i \/ j < i)
      <4>1. j \in 1..n /\ i \in 1..n
        BY <1>4
      <4>2. j = i \/ j < i
        BY <1>1, <2>4, <4>1
      <4>3. QED
        BY <1>3, <4>1, <4>2
    <3>4. QED
      BY <1>3, <2>1, <3>1, <3>2, <3>3
  <2>5. QED
    BY <1>9, <2>3, <2>4
<1>11. QED
  BY <1>8, <1>10

\* What IsSound says of an element's pins, with the ids of Read.
SoundPins(e, list) ==
  /\ Len(list) \in Nat /\ DOMAIN list = 1..Len(list)
  /\ \A k \in DOMAIN list :
       /\ list[k].hostConnect = "None" \/ \E i \in 1..8 : list[k].hostConnect = Discovery!HostControls[i]
       /\ list[k].parameterId # Absent =>
            list[k].hostConnect = "None"
            /\ \E i \in 1..Len(e.parameters) : Read(e)[i].id = list[k].parameterId
       /\ (list[k].parameterId # Absent \/ list[k].hostConnect # "None")
            /\ list[k].parameterField = "Value" => list[k].datatype = Absent

LEMMA PinsAreSound ==
  ASSUME NEW e, Discovery!IsSound(e)
  PROVE  SoundPins(e, e.audioPins) /\ SoundPins(e, e.guiPins)
<1> DEFINE ids == [i \in DOMAIN e.parameters |-> Discovery!given(e.parameters[i].id, -1)]
           sound(list) ==
             /\ Discovery!IsSequence(list)
             /\ \A k \in DOMAIN list :
                  /\ \/ list[k].hostConnect = "None"
                     \/ \E i \in DOMAIN Discovery!HostControls : list[k].hostConnect = Discovery!HostControls[i]
                  /\ list[k].parameterId # Absent =>
                       list[k].hostConnect = "None" /\ \E i \in DOMAIN ids : ids[i] = list[k].parameterId
                  /\ (list[k].parameterId # Absent \/ list[k].hostConnect # "None")
                       /\ list[k].parameterField = "Value" => list[k].datatype = Absent
<1>1. sound(e.audioPins) /\ sound(e.guiPins)
  BY Zenon DEF Discovery!IsSound
<1>2. DOMAIN ids = 1..Len(e.parameters) /\ \A i \in 1..Len(e.parameters) : ids[i] = Read(e)[i].id
  <2>1. DOMAIN e.parameters = 1..Len(e.parameters)
    BY Zenon DEF Discovery!IsSound, Discovery!IsSequence
  <2>2. QED
    BY <2>1, ParametersAreRead
<1> HIDE DEF ids
<1>3. ASSUME NEW list, sound(list) PROVE SoundPins(e, list)
  <2>1. Len(list) \in Nat /\ DOMAIN list = 1..Len(list)
    BY <1>3 DEF Discovery!IsSequence
  <2>2. DOMAIN Discovery!HostControls = 1..8
    BY HostControlsAreListed
  <2>3. QED
    <3>1. ASSUME NEW k \in DOMAIN list
          PROVE  /\ \/ list[k].hostConnect = "None"
                    \/ \E i \in 1..8 : list[k].hostConnect = Discovery!HostControls[i]
                 /\ list[k].parameterId # Absent =>
                      list[k].hostConnect = "None"
                      /\ \E i \in 1..Len(e.parameters) : Read(e)[i].id = list[k].parameterId
                 /\ (list[k].parameterId # Absent \/ list[k].hostConnect # "None")
                      /\ list[k].parameterField = "Value" => list[k].datatype = Absent
      <4>1. \/ list[k].hostConnect = "None"
            \/ \E i \in 1..8 : list[k].hostConnect = Discovery!HostControls[i]
        BY <1>3, <2>2
      <4>2. ASSUME list[k].parameterId # Absent
            PROVE  /\ list[k].hostConnect = "None"
                   /\ \E i \in 1..Len(e.parameters) : Read(e)[i].id = list[k].parameterId
        BY <1>2, <1>3, <4>2
      <4>3. QED
        BY <1>3, <4>1, <4>2
    <3>2. QED
      BY <2>1, <3>1, Zenon DEF SoundPins
<1> HIDE DEF sound
<1>4. QED
  BY <1>1, <1>3

\* A pin finds what it shows among the parameters of its plugin.
Finds(e, pin) ==
  pin.parameterId # -1 =>
    \E j \in DOMAIN Discovery!readPlugin(e).parameters :
      /\ Discovery!readPlugin(e).parameters[j].id = pin.parameterId
      /\ Discovery!readPlugin(e).parameters[j].hostConnect = pin.hostConnect
      /\ pin.parameterFieldType = "Value" => pin.datatype = Discovery!readPlugin(e).parameters[j].datatype

\* The parameters of the plugin are those of AllParameters, with tags.
LEMMA ParametersOfPlugin ==
  ASSUME NEW e, Discovery!IsSound(e), NEW params, params = Discovery!readPlugin(e).parameters
  PROVE  /\ Lists(params, CountOfAll(e)) /\ DOMAIN params = 1..CountOfAll(e)
         /\ \A i \in 1..CountOfAll(e) :
              /\ params[i].id = AllParameters(e)[i].id
              /\ params[i].hostConnect = AllParameters(e)[i].hostConnect
              /\ params[i].datatype = AllParameters(e)[i].datatype
<1> DEFINE all == AllParameters(e)
           n == CountOfAll(e)
<1>1. params = Discovery!withTags(all)
  BY PluginIsRead
<1>2. n \in Nat /\ Lists(all, n) /\ \A i \in 1..n : IsParameter(all[i]) /\ all[i].dawTag = -1
  BY AllParametersAre
<1> HIDE DEF all, n
<1>3. /\ Lists(params, n)
      /\ \A i \in 1..n : /\ params[i].id = all[i].id
                         /\ params[i].hostConnect = all[i].hostConnect
                         /\ params[i].datatype = all[i].datatype
  <2> DEFINE tagged == Discovery!withTags(all)
  <2>1. /\ Lists(tagged, n)
        /\ \A i \in 1..n : /\ tagged[i].id = all[i].id
                           /\ tagged[i].hostConnect = all[i].hostConnect
                           /\ tagged[i].datatype = all[i].datatype
    BY <1>2, TagsAreGiven
  <2> HIDE DEF tagged
  <2>2. params = tagged
    BY <1>1 DEF tagged
  <2>3. QED
    BY <2>1, <2>2, Zenon
<1>4. DOMAIN params = 1..n
  BY <1>2, <1>3, ListsAreSequences
<1>5. QED
  BY <1>3, <1>4, Zenon DEF all, n

\* The first parameter with an id is the only one.
LEMMA FieldOfParameter ==
  ASSUME NEW e, Discovery!IsSound(e), NEW i \in 1..Len(e.parameters)
  PROVE  Discovery!fieldDatatype(Read(e), Read(e)[i].id, "Value") = Read(e)[i].datatype
<1> DEFINE id == Read(e)[i].id
           those == { j \in DOMAIN Read(e) : Read(e)[j].id = id }
           first == CHOOSE j \in those : \A k \in those : j <= k
<1>1. those = {i} /\ i \in Nat
  <2>1. Len(e.parameters) \in Nat /\ Lists(Read(e), Len(e.parameters))
    BY ParametersAreRead
  <2>2. DOMAIN Read(e) = 1..Len(e.parameters)
    BY <2>1, ListsAreSequences
  <2>3. \A j \in 1..Len(e.parameters) : Read(e)[j].id = id => j = i
    BY ParametersAreRead
  <2>4. QED
    BY <2>1, <2>2, <2>3
<1>2. first = i
  <2>1. \E j \in those : \A k \in those : j <= k
    BY <1>1
  <2> HIDE DEF those
  <2>2. first \in those
    BY <2>1, Zenon
  <2>3. QED
    BY <1>1, <2>2
<1>3. Discovery!fieldDatatype(Read(e), id, "Value") = IF those = {} THEN Absent ELSE Read(e)[first].datatype
  BY DEF Discovery!fieldDatatype
<1> HIDE DEF those, first
<1>4. QED
  BY <1>1, <1>2, <1>3

\* An attribute that is absent does not give way to another that is absent.
NoDatatypeIsAbsent == Absent \notin {"Enum", "Int32", "Float32", "Bool"}

LEMMA PinsFind ==
  ASSUME NEW e, Discovery!IsSound(e), NoDatatypeIsAbsent, NEW elements, SoundPins(e, elements),
         \A k \in DOMAIN elements : IsAskedFor(e, elements[k].hostConnect),
         NEW subType, NEW list,
         list = Discovery!renumbered(Discovery!readPins(Read(e), elements, subType), Read(e))
  PROVE  Lists(list, Len(elements)) /\ \A k \in 1..Len(elements) : Finds(e, list[k])
<1> DEFINE raw == Discovery!readPins(Read(e), elements, subType)
           params == Discovery!readPlugin(e).parameters
           n == Len(e.parameters)
<1>1. DOMAIN elements = 1..Len(elements) /\ Len(elements) \in Nat
  BY DEF SoundPins
<1>2. /\ DOMAIN raw = 1..Len(elements)
      /\ \A k \in 1..Len(elements) :
           raw[k] = Discovery!RegisterPin(Read(e), elements[k], subType, k - 1)
  BY DEF Discovery!readPins
<1>3. list = [k \in 1..Len(elements) |->
                IF raw[k].hostConnect = "ProcessBypass"
                  THEN [raw[k] EXCEPT !.parameterId = Discovery!bypassParamId(Read(e))]
                  ELSE raw[k]]
  BY <1>2, Zenon DEF Discovery!renumbered
<1>4. Lists(list, Len(elements))
  BY <1>3 DEF Lists
<1>5. /\ DOMAIN params = 1..CountOfAll(e)
      /\ \A i \in 1..CountOfAll(e) :
           /\ params[i].id = AllParameters(e)[i].id
           /\ params[i].hostConnect = AllParameters(e)[i].hostConnect
           /\ params[i].datatype = AllParameters(e)[i].datatype
  BY ParametersOfPlugin
<1> HIDE DEF raw, params
<1>6. ASSUME NEW k \in 1..Len(elements) PROVE Finds(e, list[k])
  <2> DEFINE el == elements[k]
  <2>1. /\ el.hostConnect = "None" \/ \E i \in 1..8 : el.hostConnect = Discovery!HostControls[i]
        /\ el.parameterId # Absent =>
             el.hostConnect = "None" /\ \E i \in 1..n : Read(e)[i].id = el.parameterId
        /\ (el.parameterId # Absent \/ el.hostConnect # "None")
             /\ el.parameterField = "Value" => el.datatype = Absent
    BY <1>1 DEF SoundPins
  <2>2. IsAskedFor(e, el.hostConnect)
    BY <1>1
  <2>3. raw[k] = Discovery!RegisterPin(Read(e), el, subType, k - 1)
    BY <1>2
  <2>4. list[k] = IF raw[k].hostConnect = "ProcessBypass"
                    THEN [raw[k] EXCEPT !.parameterId = Discovery!bypassParamId(Read(e))]
                    ELSE raw[k]
    BY <1>3
  <2> HIDE DEF el, n
  <2>5. /\ DOMAIN raw[k] = {"id", "direction", "hostConnect", "parameterId", "parameterFieldType", "datatype"}
        /\ raw[k].hostConnect = el.hostConnect
    BY <2>3 DEF Discovery!RegisterPin
  <2>6. CASE el.parameterId # Absent
    <3>1. list[k] = raw[k] /\ el.hostConnect = "None"
      BY <2>1, <2>4, <2>5, <2>6
    <3>2. PICK i \in 1..n : Read(e)[i].id = el.parameterId
      BY <2>1, <2>6
    <3>3. raw[k].parameterId = el.parameterId /\ raw[k].parameterFieldType = el.parameterField
      BY <2>3, <2>6 DEF Discovery!RegisterPin
    <3>4. ASSUME el.parameterField = "Value" PROVE raw[k].datatype = Read(e)[i].datatype
      <4>1. el.datatype = Absent
        BY <2>1, <2>6, <3>4
      <4>2. Discovery!fieldDatatype(Read(e), el.parameterId, el.parameterField) = Read(e)[i].datatype
        BY <3>2, <3>4, FieldOfParameter DEF n
      <4>3. raw[k].datatype =
              Discovery!given(el.datatype, Discovery!given(Read(e)[i].datatype, Discovery!subTypeDatatype(subType)))
        BY <2>3, <2>6, <4>2 DEF Discovery!RegisterPin
      <4>4. Read(e)[i].datatype # Absent
        <5>1. i \in DOMAIN e.parameters
          BY Zenon DEF Discovery!IsSound, Discovery!IsSequence, n
        <5>2. QED
          BY <5>1 DEF Read, Discovery!readParameter, Discovery!given, NoDatatypeIsAbsent
      <4>5. QED
        BY <4>1, <4>3, <4>4 DEF Discovery!given
    <3>5. i \in 1..CountOfAll(e) /\ AllParameters(e)[i] = Read(e)[i] /\ Read(e)[i].hostConnect = "None"
      <4>1. n \in Nat /\ Len(Used(e)) \in Nat
        BY ParametersAreRead, HostControlsAreUsed DEF n
      <4>2. i \in 1..CountOfAll(e)
        BY <4>1 DEF CountOfAll, n
      <4>3. QED
        BY <4>2, AllParametersAre, ParametersAreRead DEF n
    <3>6. QED
      BY <1>5, <2>5, <3>1, <3>2, <3>3, <3>4, <3>5 DEF Finds, params
  <2>7. CASE el.parameterId = Absent /\ el.hostConnect = "None"
    <3>1. raw[k].parameterId = -1
      BY <2>3, <2>7 DEF Discovery!RegisterPin
    <3>2. list[k] = raw[k]
      BY <2>4, <2>5, <2>7
    <3>3. QED
      BY <3>1, <3>2 DEF Finds
  <2>8. CASE el.parameterId = Absent /\ el.hostConnect # "None"
    <3>1. PICK h \in 1..8 : el.hostConnect = Discovery!HostControls[h]
      BY <2>1, <2>8
    <3>2. /\ Discovery!indexOf(el.hostConnect) = h
          /\ Discovery!hostControlDatatypes[h] \in {"Float32", "Int32", "Bool"}
      BY <3>1, HostControlsAreListed
    <3>3. PICK u \in 1..Len(Used(e)) : Used(e)[u] = el.hostConnect
      <4>1. IsAskedFor(e, Discovery!HostControls[h])
        BY <2>2, <3>1, Zenon
      <4>2. \E u \in 1..Len(Used(e)) : Used(e)[u] = Discovery!HostControls[h]
        BY <4>1, HostControlsAreUsed
      <4>3. QED
        BY <3>1, <4>2
    <3> DEFINE j == n + u
               hp == Discovery!hostParameter(el.hostConnect, Read(e))
    <3>4. j \in 1..CountOfAll(e) /\ AllParameters(e)[j] = hp
      BY <3>3, AllParametersAre DEF n
    <3>5. /\ hp.id = Discovery!idOf(el.hostConnect, Read(e))
          /\ hp.hostConnect = el.hostConnect
          /\ hp.datatype = Discovery!hostControlDatatypes[h]
      BY <3>2 DEF Discovery!hostParameter
    <3>6. /\ raw[k].parameterId = Discovery!hostControlId(el.hostConnect)
          /\ raw[k].parameterFieldType = el.parameterField
          /\ raw[k].datatype = Discovery!given(el.datatype,
               Discovery!given(Discovery!hostControlDatatypes[h], Discovery!subTypeDatatype(subType)))
      BY <2>3, <2>8, <3>2 DEF Discovery!RegisterPin
    <3>7. ASSUME el.parameterField = "Value" PROVE raw[k].datatype = hp.datatype
      <4>1. el.datatype = Absent
        BY <2>1, <2>8, <3>7
      <4>2. Discovery!hostControlDatatypes[h] # Absent
        BY <3>2 DEF NoDatatypeIsAbsent
      <4>3. QED
        BY <3>5, <3>6, <4>1, <4>2 DEF Discovery!given
    <3>8. /\ list[k].parameterId = Discovery!idOf(el.hostConnect, Read(e))
          /\ list[k].hostConnect = el.hostConnect
          /\ list[k].parameterFieldType = el.parameterField
          /\ list[k].datatype = raw[k].datatype
      <4>1. CASE el.hostConnect = "ProcessBypass"
        <5>1. list[k] = [raw[k] EXCEPT !.parameterId = Discovery!bypassParamId(Read(e))]
          BY <2>4, <2>5, <4>1
        <5>2. QED
          BY <2>5, <3>6, <4>1, <5>1 DEF Discovery!idOf
      <4>2. CASE el.hostConnect # "ProcessBypass"
        BY <2>4, <2>5, <3>6, <4>2 DEF Discovery!idOf
      <4>3. QED
        BY <4>1, <4>2
    <3> HIDE DEF j, hp
    <3>9. QED
      BY <1>5, <3>4, <3>5, <3>7, <3>8 DEF Finds, params
  <2>9. QED
    BY <2>6, <2>7, <2>8
<1>7. QED
  BY <1>4, <1>6

-----------------------------------------------------------------------------
(* What the host can list at any time *)

RegisteredXmls == { r.xml : r \in { q \in UNION Modules : Discovery!withXml(q) } }

IsListed(info) == \E e : Discovery!IsSound(e) /\ info = Discovery!readPlugin(e)

\* The XMLs come from the module that registers itself, whoever is first, and the
\* list is at any time what was made of sound elements.
DiscoveryIInv ==
  /\ registrations \subseteq UNION Modules
  /\ xmls \in Seq(RegisteredXmls)
  /\ index \in Nat
  /\ \A i \in DOMAIN plugins : IsListed(plugins[i])

LEMMA AllAreListed ==
  ASSUME Discovery!PluginFactoryAssumption, NEW xml \in RegisteredXmls,
         NEW i \in DOMAIN Discovery!readpluginXml(xml)
  PROVE  IsListed(Discovery!readpluginXml(xml)[i])
<1> DEFINE positions == { k \in DOMAIN xml : xml[k].id # Absent }
           named == Discovery!ElementsAt(xml, positions)
           n == Len(xml)
<1>1. n \in Nat /\ DOMAIN xml = 1..n /\ \A k \in DOMAIN xml : Discovery!IsSound(xml[k])
  BY DEF RegisteredXmls, Discovery!PluginFactoryAssumption, Discovery!IsSequence
<1>2. Discovery!readpluginXml(xml) = [k \in DOMAIN named |-> Discovery!readPlugin(named[k])]
  BY Zenon DEF Discovery!readpluginXml
<1>3. Among(positions, n)
  BY <1>1 DEF Among
<1>4. positions \subseteq DOMAIN xml
  OBVIOUS
<1> HIDE DEF n, positions
<1>5. /\ Cardinality(positions) \in Nat
      /\ Lists(named, Cardinality(positions))
      /\ \A k \in 1..Cardinality(positions) : \E j \in positions : named[k] = xml[j]
  <2>1. /\ Cardinality(positions) \in Nat
        /\ Lists(Discovery!ElementsAt(xml, positions), Cardinality(positions))
        /\ \A k \in 1..Cardinality(positions) : \E j \in positions :
             /\ Cardinality(Before(positions, j)) = k - 1
             /\ Discovery!ElementsAt(xml, positions)[k] = xml[j]
    BY <1>1, <1>3, ElementsInOrder
  <2>2. QED
    BY <2>1
<1> HIDE DEF named
<1>6. DOMAIN named = 1..Cardinality(positions)
  BY <1>5, ListsAreSequences
<1>7. i \in DOMAIN named /\ Discovery!readpluginXml(xml)[i] = Discovery!readPlugin(named[i])
  BY <1>2
<1>8. PICK j \in positions : named[i] = xml[j]
  BY <1>5, <1>6, <1>7
<1>9. QED
  BY <1>1, <1>4, <1>7, <1>8 DEF IsListed

LEMMA DiscoveryInvariance == Discovery!Spec => []DiscoveryIInv
<1>1. Discovery!Init => DiscoveryIInv
  <2> SUFFICES ASSUME Discovery!Init PROVE DiscoveryIInv
    OBVIOUS
  <2>1. registrations \in Modules /\ xmls = <<>> /\ index = 0 /\ plugins = <<>>
    BY DEF Discovery!Init, Discovery!NothingRead
  <2>2. registrations \subseteq UNION Modules /\ xmls \in Seq(RegisteredXmls) /\ index \in Nat
    BY <2>1
  <2>3. \A i \in DOMAIN plugins : IsListed(plugins[i])
    BY <2>1
  <2>4. QED
    BY <2>2, <2>3 DEF DiscoveryIInv
<1>2. DiscoveryIInv /\ [Discovery!Next]_Discovery!vars => DiscoveryIInv'
  <2> SUFFICES ASSUME DiscoveryIInv, [Discovery!Next]_Discovery!vars
               PROVE  DiscoveryIInv'
    OBVIOUS
  <2>1. /\ registrations \subseteq UNION Modules
        /\ xmls \in Seq(RegisteredXmls) /\ index \in Nat
        /\ \A i \in DOMAIN plugins : IsListed(plugins[i])
    BY DEF DiscoveryIInv
  <2>2. ASSUME NEW r \in registrations, Discovery!RegisterPluginWithXml(r)
        PROVE  DiscoveryIInv'
    <3>1. /\ Discovery!withXml(r) /\ registrations' = registrations \ {r}
          /\ xmls' = Append(xmls, r.xml) /\ index' = index /\ plugins' = plugins
      BY <2>2 DEF Discovery!RegisterPluginWithXml
    <3>2. r.xml \in RegisteredXmls
      BY <2>1, <3>1, Zenon DEF RegisteredXmls
    <3>3. xmls' \in Seq(RegisteredXmls)
      BY <2>1, <3>1, <3>2
    <3>4. registrations' \subseteq UNION Modules
      BY <2>1, <3>1
    <3>5. QED
      BY <2>1, <3>1, <3>3, <3>4 DEF DiscoveryIInv, IsListed
  <2>3. ASSUME NEW r \in registrations, Discovery!RegisterPlugin(r)
        PROVE  DiscoveryIInv'
    BY <2>1, <2>3 DEF Discovery!RegisterPlugin, DiscoveryIInv, IsListed
  <2>4. ASSUME Discovery!ReadNext
        PROVE  DiscoveryIInv'
    <3>1. /\ index < Len(xmls) /\ index' = index + 1
          /\ plugins' = Discovery!readpluginXml(xmls[index + 1])
          /\ registrations' = registrations /\ xmls' = xmls
      BY <2>4 DEF Discovery!ReadNext
    <3>2. xmls[index + 1] \in RegisteredXmls
      BY <2>1, <3>1
    <3>3. Discovery!PluginFactoryAssumption
      BY PartsAssumption
    <3>4. \A i \in DOMAIN plugins' : IsListed(plugins'[i])
      BY <3>1, <3>2, <3>3, AllAreListed
    <3>5. QED
      BY <2>1, <3>1, <3>4 DEF DiscoveryIInv, IsListed
  <2>5. ASSUME Discovery!EndRead
        PROVE  DiscoveryIInv'
    BY <2>1, <2>5 DEF Discovery!EndRead, DiscoveryIInv, IsListed
  <2>6. ASSUME NEW i, Discovery!getPluginInfo(i)
        PROVE  DiscoveryIInv'
    BY <2>1, <2>6 DEF Discovery!getPluginInfo, DiscoveryIInv, IsListed
  <2>7. ASSUME NEW id, NEW subType, Discovery!createInstance(id, subType)
        PROVE  DiscoveryIInv'
    BY <2>1, <2>7 DEF Discovery!createInstance, DiscoveryIInv, IsListed
  <2>8. CASE UNCHANGED Discovery!vars
    BY <2>1, <2>8 DEF Discovery!vars, DiscoveryIInv, IsListed
  <2>9. QED
    BY <2>2, <2>3, <2>4, <2>5, <2>6, <2>7, <2>8 DEF Discovery!Next
<1>3. QED
  BY <1>1, <1>2, PTL DEF Discovery!Spec

\* Of every plugin the host lists, for any sound XML: a DAW tag is an index among
\* the parameters the DAW knows, bypass is the last of them, and no two of all its
\* parameters have the same id.
THEOREM TagsAlwaysAreIndices == Discovery!Spec => []TagsAreIndices
<1>1. DiscoveryIInv => TagsAreIndices
  <2> SUFFICES ASSUME DiscoveryIInv, NEW i \in DOMAIN plugins, NEW native, NEW params,
                      native = Discovery!nativeParams(plugins[i]), params = plugins[i].parameters
               PROVE  /\ \A t \in DOMAIN native :
                           /\ native[t].dawTag = t - 1
                           /\ native[t].datatype \notin {"String", "Blob", "Midi"}
                           /\ native[t].hostConnect \in {"None", "ProcessBypass"}
                           /\ native[t].hostConnect = "ProcessBypass" => t = Len(native)
                      /\ \A j, k \in DOMAIN params : params[j].id = params[k].id => j = k
    BY Zenon DEF TagsAreIndices, Discovery!TagsAreIndices
  <2>1. PICK e : Discovery!IsSound(e) /\ plugins[i] = Discovery!readPlugin(e)
    BY DEF DiscoveryIInv, IsListed
  <2>2. \A t \in DOMAIN native :
          /\ native[t].dawTag = t - 1
          /\ native[t].datatype \notin {"String", "Blob", "Midi"}
          /\ native[t].hostConnect \in {"None", "ProcessBypass"}
          /\ native[t].hostConnect = "ProcessBypass" => t = Len(native)
    BY <2>1, TagsOfPlugin
  <2>3. /\ DOMAIN params = 1..CountOfAll(e)
        /\ \A j \in 1..CountOfAll(e) : params[j].id = AllParameters(e)[j].id
    BY <2>1, ParametersOfPlugin
  <2>4. \A j, k \in DOMAIN params : params[j].id = params[k].id => j = k
    <3>1. ASSUME NEW j \in 1..CountOfAll(e), NEW k \in 1..CountOfAll(e),
                 AllParameters(e)[j].id = AllParameters(e)[k].id
          PROVE  j = k
      BY <2>1, <3>1, IdsAreDistinct, Zenon
    <3>2. QED
      BY <2>3, <3>1
  <2>5. QED
    BY <2>2, <2>4
<1>2. QED
  BY <1>1, DiscoveryInvariance, PTL

\* Of every plugin the host lists, for any sound XML: a pin that shows a parameter
\* or a host control finds it by its parameterId, with the same datatype.
THEOREM PinsAlwaysFindTheirParameter == Discovery!Spec => []PinsFindTheirParameter
<1>1. DiscoveryIInv => PinsFindTheirParameter
  <2> DEFINE list(i) == plugins[i].dspPins \o plugins[i].guiPins
             params(i) == plugins[i].parameters
             finds(i, k) ==
               list(i)[k].parameterId # -1 =>
                 \E j \in DOMAIN params(i) :
                   /\ params(i)[j].id = list(i)[k].parameterId
                   /\ params(i)[j].hostConnect = list(i)[k].hostConnect
                   /\ list(i)[k].parameterFieldType = "Value" => list(i)[k].datatype = params(i)[j].datatype
  <2> SUFFICES ASSUME DiscoveryIInv, NEW i \in DOMAIN plugins, NEW k \in DOMAIN list(i)
               PROVE  finds(i, k)
    BY Zenon DEF PinsFindTheirParameter, Discovery!PinsFindTheirParameter
  <2>1. PICK e : Discovery!IsSound(e) /\ plugins[i] = Discovery!readPlugin(e)
    BY DEF DiscoveryIInv, IsListed
  <2>2. NoDatatypeIsAbsent
    BY PartsAssumption DEF NoDatatypeIsAbsent, Discovery!PluginFactoryAssumption
  <2>3. SoundPins(e, e.audioPins) /\ SoundPins(e, e.guiPins)
    BY <2>1, PinsAreSound
  <2>4. PICK dsp : dsp = plugins[i].dspPins
    BY Zenon
  <2>5. PICK gui : gui = plugins[i].guiPins
    BY Zenon
  <2>6. Lists(dsp, Len(e.audioPins)) /\ \A h \in 1..Len(e.audioPins) : Finds(e, dsp[h])
    <3>1. dsp = Discovery!renumbered(Discovery!readPins(Read(e), e.audioPins, "Audio"), Read(e))
      BY <2>1, <2>4, PluginIsRead
    <3>2. \A h \in DOMAIN e.audioPins : IsAskedFor(e, e.audioPins[h].hostConnect)
      BY DEF IsAskedFor
    <3>3. QED
      BY <2>1, <2>2, <2>3, <3>1, <3>2, PinsFind
  <2>7. Lists(gui, Len(e.guiPins)) /\ \A h \in 1..Len(e.guiPins) : Finds(e, gui[h])
    <3>1. gui = Discovery!renumbered(Discovery!readPins(Read(e), e.guiPins, "Editor"), Read(e))
      BY <2>1, <2>5, PluginIsRead
    <3>2. \A h \in DOMAIN e.guiPins : IsAskedFor(e, e.guiPins[h].hostConnect)
      BY DEF IsAskedFor
    <3>3. QED
      BY <2>1, <2>2, <2>3, <3>1, <3>2, PinsFind
  <2> DEFINE n == Len(e.audioPins)
             m == Len(e.guiPins)
  <2>8. n \in Nat /\ m \in Nat
    BY <2>3 DEF SoundPins
  <2>9. PICK all : all = list(i) /\ OneAfterTheOther(dsp, gui, all)
    BY <2>4, <2>5, Zenon DEF OneAfterTheOther
  <2> HIDE DEF n, m, list
  <2>10. /\ DOMAIN all = 1..n + m
         /\ \A h \in 1..n : all[h] = dsp[h]
         /\ \A h \in 1..m : all[n + h] = gui[h]
    <3>1. Lists(dsp, n) /\ Lists(gui, m)
      BY <2>6, <2>7, Zenon DEF n, m
    <3>2. QED
      BY <2>8, <2>9, <3>1, ListsJoined
  <2>11. k \in 1..n + m /\ Finds(e, all[k])
    <3>1. k \in 1..n + m
      BY <2>9, <2>10
    <3>2. CASE k \in 1..n
      BY <2>6, <2>10, <3>1, <3>2 DEF n
    <3>3. CASE k \notin 1..n
      <4>1. k - n \in 1..m /\ k = n + (k - n)
        BY <2>8, <3>1, <3>3
      <4>2. all[k] = gui[k - n]
        BY <2>10, <4>1
      <4>3. QED
        BY <2>7, <3>1, <4>1, <4>2 DEF m
    <3>4. QED
      BY <3>2, <3>3
  <2>12. QED
    BY <2>1, <2>9, <2>11, Zenon DEF Finds
<1>2. QED
  BY <1>1, DiscoveryInvariance, PTL

=============================================================================
