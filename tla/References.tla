----------------------------- MODULE References -----------------------------
(***************************************************************************)
(* gmpi::shared_ptr (Core/GmpiSdkCommon.h) and the reference counts of     *)
(* GMPI_REFCOUNT (Core/RefCountMacros.h).  Every object may itself hold a  *)
(* pointer, which goes when the object is deleted, so that one release can *)
(* set off others; a call is a list of releases and addRefs that are made  *)
(* one after the other.                                                    *)
(*                                                                         *)
(* The pointers are local variables and the members of objects: the member *)
(* of object o is the pointer named o.                                     *)
(***************************************************************************)
EXTENDS Integers, Sequences, FiniteSets

CONSTANTS
  Objects,
  Locals,
  nullptr

ReferencesAssumption ==
  /\ IsFiniteSet(Locals \cup Objects)
  /\ Locals \cap Objects = {} /\ nullptr \notin Objects

Pointers == Locals \cup Objects

VARIABLES
  refCount2_,  \* 0 for what is not allocated
  obj,         \* what each pointer holds
  todo,        \* the calls still to be made: <<"release" or "addRef", object>>
  usedDeleted, \* whether a deleted object was called
  orphaned     \* whether a pointer was assigned what its own old object alone kept

vars == <<refCount2_, obj, todo, usedDeleted, orphaned>>

Owners(o) == { p \in Pointers : obj[p] = o }

\* A program gets at its local variables and at the members of what they hold.
InScope(p) == p \in Locals \/ Owners(p) \cap Locals # {}

\* What a pointer that is overwritten or destroyed does with what it held.
released(old) == IF old = nullptr THEN <<>> ELSE << <<"release", old>> >>

added(new) == IF new = nullptr THEN <<>> ELSE << <<"addRef", new>> >>

-----------------------------------------------------------------------------
Init ==
  /\ refCount2_ = [o \in Objects |-> 0]
  /\ obj = [p \in Pointers |-> nullptr]
  /\ todo = <<>>
  /\ usedDeleted = FALSE
  /\ orphaned = FALSE

addRef(o) ==
  /\ todo # <<>> /\ Head(todo) = <<"addRef", o>>
  /\ todo' = Tail(todo)
  /\ IF refCount2_[o] = 0
       THEN usedDeleted' = TRUE /\ UNCHANGED <<refCount2_, obj>>
       ELSE refCount2_' = [refCount2_ EXCEPT ![o] = @ + 1] /\ UNCHANGED <<obj, usedDeleted>>
  /\ UNCHANGED orphaned

\* The last release deletes the object, and its member with it.
release(o) ==
  /\ todo # <<>> /\ Head(todo) = <<"release", o>>
  /\ IF refCount2_[o] = 0
       THEN /\ usedDeleted' = TRUE
            /\ todo' = Tail(todo)
            /\ UNCHANGED <<refCount2_, obj>>
       ELSE /\ refCount2_' = [refCount2_ EXCEPT ![o] = @ - 1]
            /\ IF refCount2_[o] = 1
                 THEN /\ obj' = [obj EXCEPT ![o] = nullptr]
                      /\ todo' = released(obj[o]) \o Tail(todo)
                 ELSE /\ todo' = Tail(todo)
                      /\ UNCHANGED obj
            /\ UNCHANGED usedDeleted
  /\ UNCHANGED orphaned

\* attach: "For objects created with new", whose count is 1 already.
attach(p, o) ==
  /\ todo = <<>> /\ InScope(p)
  /\ refCount2_[o] = 0
  /\ refCount2_' = [refCount2_ EXCEPT ![o] = 1]
  /\ obj' = [obj EXCEPT ![p] = o]
  /\ todo' = released(obj[p])
  /\ UNCHANGED <<usedDeleted, orphaned>>

\* Mutant of assign: an assignment to itself is not skipped.
assignAlways(p, new) ==
  /\ obj' = [obj EXCEPT ![p] = new]
  /\ todo' = released(obj[p]) \o added(new)

\* The old object is released before the new one gets its reference.
assign(p, new) ==
  IF new = obj[p]
    THEN UNCHANGED <<obj, todo>>
    ELSE /\ obj' = [obj EXCEPT ![p] = new]
         /\ todo' = released(obj[p]) \o added(new)

\* What p is assigned is not kept alive by p's old object alone, as it is in
\* p = p->next.  The code does not look.
KeptOtherwise(p, q) ==
  ~(q = obj[p] /\ refCount2_[q] = 1 /\ obj[q] # nullptr /\ refCount2_[obj[q]] = 1)

copy(p, q) ==
  /\ todo = <<>> /\ InScope(p) /\ InScope(q)
  /\ assign(p, obj[q])
  /\ orphaned' = (orphaned \/ ~KeptOtherwise(p, q))
  /\ UNCHANGED <<refCount2_, usedDeleted>>

\* Moving swaps the two; construction by move is the case that p holds nothing.
move(p, q) ==
  /\ todo = <<>> /\ InScope(p) /\ InScope(q) /\ p # q
  /\ obj' = [obj EXCEPT ![p] = obj[q], ![q] = obj[p]]
  /\ UNCHANGED <<refCount2_, todo, usedDeleted, orphaned>>

\* p = q.as<I>(): queryInterface puts a reference of its own in a temporary,
\* which is swapped with p and destroyed with what p held.
as(p, q) ==
  /\ todo = <<>> /\ InScope(p) /\ InScope(q)
  /\ obj' = [obj EXCEPT ![p] = obj[q]]
  /\ todo' = added(obj[q]) \o released(obj[p])
  /\ UNCHANGED <<refCount2_, usedDeleted, orphaned>>

\* put(), the destructor.
put(p) ==
  /\ todo = <<>> /\ InScope(p)
  /\ obj[p] # nullptr
  /\ obj' = [obj EXCEPT ![p] = nullptr]
  /\ todo' = released(obj[p])
  /\ UNCHANGED <<refCount2_, usedDeleted, orphaned>>

Next ==
  \/ \E o \in Objects : addRef(o) \/ release(o)
  \/ \E p \in Pointers, o \in Objects : attach(p, o)
  \/ \E p, q \in Pointers : copy(p, q) \/ move(p, q) \/ as(p, q)
  \/ \E p \in Pointers : put(p)

Spec == Init /\ [][Next]_vars

-----------------------------------------------------------------------------
(* Properties *)

\* Every variable has its type.
TypeOK ==
  /\ refCount2_ \in [Objects -> Nat]
  /\ obj \in [Pointers -> Objects \cup {nullptr}]
  /\ todo \in Seq({"release", "addRef"} \X Objects)
  /\ {usedDeleted, orphaned} \subseteq BOOLEAN

\* However pointers are copied, moved, queried and destroyed, and whatever an
\* object takes with it when it goes: no deleted object is called, and between
\* calls an object is there exactly as long as a pointer holds it; until a
\* pointer is assigned what its own old object alone kept.
CountsMatchOwners ==
  /\ TypeOK
  /\ ~orphaned =>
       /\ ~usedDeleted
       /\ todo = <<>> => \A o \in Objects : refCount2_[o] = Cardinality(Owners(o))

\* "Helper for managing lifetime of reference-counted interface pointer": no
\* deleted object is called.  Not so: in p = p->next the old object goes, and its
\* member with it, before the new one gets its reference.
NoDeletedObjectIsUsed == ~usedDeleted

=============================================================================
