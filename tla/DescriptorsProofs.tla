-------------------------- MODULE DescriptorsProofs --------------------------
(***************************************************************************)
(* Proofs about Descriptors for any number of threads, FileDescriptor      *)
(* objects and descriptor numbers.                                         *)
(***************************************************************************)
EXTENDS Descriptors, WellFoundedInduction, TLAPS

TypeOK ==
    /\ open \in SUBSET Fds /\ raw \in SUBSET Fds
    /\ fd_ \in [Objects -> Fds \cup {-1}]
    /\ registered \in [Objects -> BOOLEAN]
    /\ DOMAIN records \subseteq Fds
    /\ records = [f \in DOMAIN records |-> records[f]]
    /\ pc \in [Threads -> {"idle", "mark", "erase", "close", "adopt"}]
    /\ obj \in [Threads -> Objects \cup {None}]
    /\ next \in [Threads -> Fds \cup {-1}]
    /\ source \in [Threads -> Objects \cup {None}]

\* A set of naturals that is not empty has a smallest member, which is the
\* number the kernel hands out.
LEMMA MinInSet == ASSUME NEW S \in SUBSET Nat, S # {} PROVE Min(S) \in S
<1>1. IsWellFoundedOn(OpToRel(<, Nat), Nat)
  BY NatLessThanWellFounded, Zenon
<1>2. PICK x \in S : \A y \in S : ~(<<y, x>> \in OpToRel(<, Nat))
  BY <1>1, WFMin, Zenon
<1>3. ASSUME NEW y \in S PROVE ~(y < x)
  <2>1. <<y, x>> \in Nat \X Nat
    OBVIOUS
  <2>2. <<y, x>>[1] = y /\ <<y, x>>[2] = x
    OBVIOUS
  <2> QED
    BY <1>2, <2>1, <2>2, Zenon DEF OpToRel
<1>4. \A y \in S : x =< y
  BY <1>3
<1> QED
  BY <1>4 DEF Min

\* The kernel hands out a descriptor that is not open.
LEMMA FreshDescriptor ==
    ASSUME NEW t, OpenRaw(t)
    PROVE  \E f \in Fds \ open : open' = open \cup {f} /\ raw' = raw \cup {f}
<1>1. Min(Fds \ open) \in Fds \ open
  BY MinInSet, FdsAssumption DEF OpenRaw
<1> QED
  BY <1>1 DEF OpenRaw

\* No number is -1, the value of fd_ that means none.
LEMMA NoNegative == \A f \in Fds : f # -1
BY FdsAssumption

\* An object that is not in use takes part in no call.
LEMMA NotInUse ==
    ASSUME NEW o, o \notin InUse, NEW t \in Threads
    PROVE  obj[t] # o /\ source[t] # o
BY DEF InUse

-----------------------------------------------------------------------------
(* The parts of the inductive invariant.                                   *)

\* What a call in progress knows of the objects it works on, and that no
\* other call works on them.
CallOK(t) ==
    /\ pc[t] = "idle" => obj[t] = None /\ next[t] = -1 /\ source[t] = None
    /\ pc[t] # "idle" => obj[t] \in Objects
    /\ source[t] # None => source[t] # obj[t] /\ next[t] = -1
    /\ pc[t] \in {"mark", "erase"} => registered[obj[t]]
    /\ pc[t] \in {"mark", "erase", "close"} => fd_[obj[t]] # -1
    /\ pc[t] = "adopt" => fd_[obj[t]] = -1

Separate(t, u) ==
    /\ obj[t] # None => obj[t] # obj[u] /\ obj[t] # source[u]
    /\ source[t] # None => source[t] # source[u]

Calls ==
    /\ \A t \in Threads : CallOK(t)
    /\ \A t, u \in Threads : t # u => Separate(t, u)

\* OneHolder said of single descriptors.
Holders ==
    /\ \A o, p \in Objects : fd_[o] = fd_[p] /\ fd_[o] # -1 => o = p
    /\ \A t, u \in Threads : next[t] = next[u] /\ next[t] # -1 => t = u
    /\ \A o \in Objects : fd_[o] # -1 => fd_[o] \in open \ raw
    /\ \A t \in Threads : next[t] # -1 => next[t] \in open \ raw
    /\ \A o \in Objects, t \in Threads : fd_[o] = next[t] => fd_[o] = -1
    /\ raw \subseteq open
    /\ \A f \in open : \/ f \in raw
                       \/ \E o \in Objects : fd_[o] = f
                       \/ \E t \in Threads : next[t] = f

Active(f) == f \in DOMAIN records /\ records[f] = "Active"

\* A call has marked or erased the record of o's descriptor.
Resetting(o) == \E t \in Threads : obj[t] = o /\ pc[t] \in {"erase", "close"}

\* A registered descriptor is recorded Active until the reset that closes it
\* has marked its record, and from then on it is not.
Recorded ==
    /\ \A o \in Objects :
         registered[o] /\ fd_[o] # -1 /\ ~Resetting(o) => Active(fd_[o])
    /\ \A f \in Fds : Active(f) =>
         \E o \in Objects : fd_[o] = f /\ registered[o] /\ ~Resetting(o)

IInv == TypeOK /\ Calls /\ Holders /\ Recorded

\* Nothing is open, owned or recorded at first.
LEMMA TypeInit == Init => TypeOK
BY DEF Init, TypeOK

\* Every step preserves the types.
LEMMA TypeStep == TypeOK /\ Calls /\ [Next]_vars => TypeOK'
<1> SUFFICES ASSUME TypeOK, Calls, [Next]_vars PROVE TypeOK'
  OBVIOUS
<1> USE DEF vars, kernelVars, ownerVars, callVars, TypeOK
<1>1. ASSUME NEW t \in Threads, OpenRaw(t)
      PROVE  TypeOK'
  BY <1>1, FreshDescriptor DEF OpenRaw
<1>2. ASSUME NEW t \in Threads, NEW f \in Fds, CloseRaw(t, f)
      PROVE  TypeOK'
  BY <1>2 DEF CloseRaw
<1>3. ASSUME NEW t \in Threads, NEW o \in Objects, NEW f \in Fds,
             NEW w \in BOOLEAN, Construct(t, o, f, w)
      PROVE  TypeOK'
  BY <1>3 DEF Construct, registerFd
<1>4. ASSUME NEW t \in Threads, NEW o \in Objects, NEW other \in Objects,
             MoveConstruct(t, o, other)
      PROVE  TypeOK'
  BY <1>4 DEF MoveConstruct
<1>5. ASSUME NEW t \in Threads, NEW o \in Objects, release(t, o)
      PROVE  TypeOK'
  BY <1>5 DEF release, updateState
<1>6. ASSUME NEW t \in Threads, NEW o \in Objects, NEW f \in Fds \cup {-1},
             reset(t, o, f)
      PROVE  TypeOK'
  BY <1>6 DEF reset, Enter
<1>7. ASSUME NEW t \in Threads, NEW o \in Objects, NEW other \in Objects,
             MoveAssign(t, o, other)
      PROVE  TypeOK'
  BY <1>7 DEF MoveAssign, Enter
<1>8. ASSUME NEW t \in Threads, ResetMark(t)
      PROVE  TypeOK'
  BY <1>8 DEF ResetMark, updateState, Goto
<1>9. ASSUME NEW t \in Threads, ResetErase(t)
      PROVE  TypeOK'
  BY <1>9 DEF ResetErase, unregisterFd, Goto
<1>10. ASSUME NEW t \in Threads, ResetClose(t)
      PROVE  TypeOK'
  BY <1>10 DEF ResetClose, Goto
<1>11. ASSUME NEW t \in Threads, ResetAdopt(t)
      PROVE  TypeOK'
  BY <1>11 DEF ResetAdopt, registerFd, Return, Calls, CallOK
<1>12. ASSUME NEW t \in Threads, AssignAdopt(t)
      PROVE  TypeOK'
  BY <1>12 DEF AssignAdopt, Return, Calls, CallOK
<1>13. CASE UNCHANGED vars
  BY <1>13
<1> QED
  BY <1>1, <1>2, <1>3, <1>4, <1>5, <1>6, <1>7, <1>8, <1>9, <1>10, <1>11,
     <1>12, <1>13
  DEF Next

\* Every step preserves what calls know of their objects.
LEMMA CallsStep == TypeOK /\ Calls /\ [Next]_vars => Calls'
<1> SUFFICES ASSUME TypeOK, Calls, [Next]_vars PROVE Calls'
  OBVIOUS
<1> USE DEF vars, kernelVars, ownerVars, callVars, TypeOK, Calls, CallOK,
        Separate
<1>1. ASSUME NEW t \in Threads, OpenRaw(t)
      PROVE  Calls'
  BY <1>1 DEF OpenRaw
<1>2. ASSUME NEW t \in Threads, NEW f \in Fds, CloseRaw(t, f)
      PROVE  Calls'
  BY <1>2 DEF CloseRaw
<1>3. ASSUME NEW t \in Threads, NEW o \in Objects, NEW f \in Fds,
             NEW w \in BOOLEAN, Construct(t, o, f, w)
      PROVE  Calls'
  BY <1>3, NotInUse DEF Construct
<1>4. ASSUME NEW t \in Threads, NEW o \in Objects, NEW other \in Objects,
             MoveConstruct(t, o, other)
      PROVE  Calls'
  BY <1>4, NotInUse DEF MoveConstruct
<1>5. ASSUME NEW t \in Threads, NEW o \in Objects, release(t, o)
      PROVE  Calls'
  BY <1>5, NotInUse DEF release
<1>6. ASSUME NEW t \in Threads, NEW o \in Objects, NEW f \in Fds \cup {-1},
             reset(t, o, f)
      PROVE  Calls'
  BY <1>6, NotInUse, FdsAssumption DEF reset, Enter
<1>7. ASSUME NEW t \in Threads, NEW o \in Objects, NEW other \in Objects,
             MoveAssign(t, o, other)
      PROVE  Calls'
  <2>1. \A u \in Threads : obj[u] \notin {o, other} /\ source[u] \notin {o,
        other}
    BY <1>7, NotInUse DEF MoveAssign
  <2>2. /\ obj' = [obj EXCEPT ![t] = o] /\ source' = [source EXCEPT ![t] = other]
        /\ next' = [next EXCEPT ![t] = -1] /\ o # other
        /\ UNCHANGED <<fd_, registered>>
    BY <1>7 DEF MoveAssign, Enter
  <2>3. \A u \in Threads : u # t => CallOK(u)'
    BY <1>7, <2>2 DEF MoveAssign, Enter
  <2>4. CallOK(t)'
    BY <1>7, <2>2 DEF MoveAssign, Enter
  <2>5. \A v, u \in Threads : v # u => Separate(v, u)'
    BY <2>1, <2>2
  <2> QED
    BY <2>3, <2>4, <2>5
<1>8. ASSUME NEW t \in Threads, ResetMark(t)
      PROVE  Calls'
  BY <1>8 DEF ResetMark, Goto
<1>9. ASSUME NEW t \in Threads, ResetErase(t)
      PROVE  Calls'
  BY <1>9 DEF ResetErase, Goto
<1>10. ASSUME NEW t \in Threads, ResetClose(t)
      PROVE  Calls'
  <2>1. obj[t] \in Objects /\ pc' = [pc EXCEPT ![t] = "adopt"]
        /\ fd_' = [fd_ EXCEPT ![obj[t]] = -1]
        /\ UNCHANGED <<obj, next, source, registered>>
    BY <1>10 DEF ResetClose, Goto
  <2>2. \A u \in Threads : u # t => obj[u] # obj[t]
    BY <2>1, FdsAssumption
  <2>3. \A u \in Threads : u # t => CallOK(u)'
    BY <2>1, <2>2
  <2>4. CallOK(t)'
    BY <1>10, <2>1
  <2>5. \A v, u \in Threads : v # u => Separate(v, u)'
    BY <2>1
  <2> QED
    BY <2>3, <2>4, <2>5
<1>11. ASSUME NEW t \in Threads, ResetAdopt(t)
      PROVE  Calls'
  <2>1. obj[t] \in Objects
    BY <1>11 DEF ResetAdopt
  <2>2. /\ pc' = [pc EXCEPT ![t] = "idle"] /\ obj' = [obj EXCEPT ![t] = None]
        /\ next' = [next EXCEPT ![t] = -1] /\ source' = [source EXCEPT ![t] = None]
        /\ fd_' = [fd_ EXCEPT ![obj[t]] = next[t]] /\ UNCHANGED registered
    BY <1>11 DEF ResetAdopt, Return
  <2>3. \A u \in Threads : u # t => obj[u] # obj[t]
    BY <2>1, FdsAssumption
  <2>4. \A u \in Threads : u # t => CallOK(u)'
    BY <2>2, <2>3
  <2>5. CallOK(t)'
    BY <2>2
  <2>6. \A v, u \in Threads : v # u => Separate(v, u)'
    BY <2>2
  <2> QED
    BY <2>4, <2>5, <2>6
<1>12. ASSUME NEW t \in Threads, AssignAdopt(t)
      PROVE  Calls'
  <2>1. obj[t] \in Objects /\ source[t] \in Objects /\ source[t] # obj[t]
    BY <1>12 DEF AssignAdopt
  <2>2. /\ pc' = [pc EXCEPT ![t] = "idle"] /\ obj' = [obj EXCEPT ![t] = None]
        /\ next' = [next EXCEPT ![t] = -1] /\ source' = [source EXCEPT ![t] = None]
        /\ fd_' = [fd_ EXCEPT ![obj[t]] = fd_[source[t]], ![source[t]] = -1]
        /\ registered' = [registered EXCEPT ![obj[t]] = registered[source[t]],
                                            ![source[t]] = FALSE]
    BY <1>12 DEF AssignAdopt, Return
  <2>3. \A u \in Threads : u # t => obj[u] # obj[t] /\ (obj[u] # source[t])
    BY <2>1, FdsAssumption
  <2>4. \A u \in Threads : u # t => CallOK(u)'
    BY <2>2, <2>3
  <2>5. CallOK(t)'
    BY <2>2
  <2>6. \A v, u \in Threads : v # u => Separate(v, u)'
    BY <2>2
  <2> QED
    BY <2>4, <2>5, <2>6
<1>13. CASE UNCHANGED vars
  BY <1>13
<1> QED
  BY <1>1, <1>2, <1>3, <1>4, <1>5, <1>6, <1>7, <1>8, <1>9, <1>10, <1>11,
     <1>12, <1>13
  DEF Next

\* Every step preserves that a descriptor has one holder.
LEMMA HoldersStep == TypeOK /\ Calls /\ Holders /\ [Next]_vars => Holders'
<1> SUFFICES ASSUME TypeOK, Calls, Holders, [Next]_vars PROVE Holders'
  OBVIOUS
<1> USE NoNegative DEF vars, kernelVars, ownerVars, callVars, TypeOK, Holders
<1>1. ASSUME NEW t \in Threads, OpenRaw(t)
      PROVE  Holders'
  <2>1. PICK f \in Fds \ open : open' = open \cup {f} /\ raw' = raw \cup {f}
    BY <1>1, FreshDescriptor
  <2>2. UNCHANGED <<fd_, next>>
    BY <1>1 DEF OpenRaw
  <2> QED
    BY <2>1, <2>2
<1>2. ASSUME NEW t \in Threads, NEW f \in Fds, CloseRaw(t, f)
      PROVE  Holders'
  BY <1>2 DEF CloseRaw
<1>3. ASSUME NEW t \in Threads, NEW o \in Objects, NEW f \in Fds,
             NEW w \in BOOLEAN, Construct(t, o, f, w)
      PROVE  Holders'
  BY <1>3 DEF Construct
<1>4. ASSUME NEW t \in Threads, NEW o \in Objects, NEW other \in Objects,
             MoveConstruct(t, o, other)
      PROVE  Holders'
  BY <1>4 DEF MoveConstruct
<1>5. ASSUME NEW t \in Threads, NEW o \in Objects, release(t, o)
      PROVE  Holders'
  BY <1>5 DEF release
<1>6. ASSUME NEW t \in Threads, NEW o \in Objects, NEW f \in Fds \cup {-1},
             reset(t, o, f)
      PROVE  Holders'
  BY <1>6 DEF reset, Enter, Calls, CallOK
<1>7. ASSUME NEW t \in Threads, NEW o \in Objects, NEW other \in Objects,
             MoveAssign(t, o, other)
      PROVE  Holders'
  BY <1>7 DEF MoveAssign, Enter, Calls, CallOK
<1>8. ASSUME NEW t \in Threads, ResetMark(t)
      PROVE  Holders'
  BY <1>8 DEF ResetMark
<1>9. ASSUME NEW t \in Threads, ResetErase(t)
      PROVE  Holders'
  BY <1>9 DEF ResetErase
<1>10. ASSUME NEW t \in Threads, ResetClose(t)
      PROVE  Holders'
  BY <1>10 DEF ResetClose, Calls, CallOK
<1>11. ASSUME NEW t \in Threads, ResetAdopt(t)
      PROVE  Holders'
  BY <1>11 DEF ResetAdopt, Return, Calls, CallOK
<1>12. ASSUME NEW t \in Threads, AssignAdopt(t)
      PROVE  Holders'
  BY <1>12 DEF AssignAdopt, Return, Calls, CallOK
<1>13. CASE UNCHANGED vars
  BY <1>13
<1> QED
  BY <1>1, <1>2, <1>3, <1>4, <1>5, <1>6, <1>7, <1>8, <1>9, <1>10, <1>11,
     <1>12, <1>13
  DEF Next

\* A move takes the descriptor and the registry together, so the record of the
\* descriptor stays with its owner.
LEMMA MovedRecord ==
    ASSUME TypeOK, Recorded, NEW o \in Objects, NEW other \in Objects,
           o # other, fd_[o] = -1,
           fd_' = [fd_ EXCEPT ![o] = fd_[other], ![other] = -1],
           registered' = [registered EXCEPT ![o] = registered[other],
                                            ![other] = FALSE],
           UNCHANGED records,
           ~Resetting(other), ~Resetting(o)', ~Resetting(other)',
           \A p \in Objects \ {o, other} : (Resetting(p)' <=> Resetting(p))
    PROVE  Recorded'
<1> USE NoNegative DEF TypeOK, Active
<1>1. ASSUME NEW p \in Objects, registered'[p], fd_'[p] # -1, ~Resetting(p)'
      PROVE  Active(fd_[p])'
  <2>1. CASE p = o
    <3>1. fd_'[p] = fd_[other] /\ fd_[other] # -1
      BY <1>1, <2>1
    <3>2. registered'[p] = registered[other]
      BY <2>1
    <3>3. registered[other]
      BY <1>1, <3>2, Zenon
    <3>4. Active(fd_[other])
      BY <3>1, <3>3 DEF Recorded
    <3> QED
      BY <3>1, <3>4
  <2>2. CASE p = other
    BY <1>1, <2>2
  <2>3. CASE p \notin {o, other}
    <3>1. fd_'[p] = fd_[p] /\ registered'[p] = registered[p]
      BY <2>3
    <3>2. ~Resetting(p)
      BY <1>1, <2>3
    <3>3. registered[p]
      BY <1>1, <3>1, Zenon
    <3>4. Active(fd_[p])
      BY <1>1, <3>1, <3>2, <3>3 DEF Recorded
    <3> QED
      BY <3>1, <3>4
  <2> QED
    BY <2>1, <2>2, <2>3
<1>2. ASSUME NEW f \in Fds, Active(f)'
      PROVE  \E p \in Objects : fd_'[p] = f /\ registered'[p] /\ ~Resetting(p)'
  <2>1. PICK p \in Objects : fd_[p] = f /\ registered[p] /\ ~Resetting(p)
    BY <1>2 DEF Recorded
  <2>2. CASE p = other
    BY <2>1, <2>2
  <2>3. CASE p \notin {o, other}
    BY <2>1, <2>3
  <2> QED
    BY <2>1, <2>2, <2>3
<1> QED
  BY <1>1, <1>2 DEF Recorded

\* Every step preserves that the registry records the owned descriptors.
LEMMA RecordedStep == TypeOK /\ Calls /\ Holders /\ Recorded /\ [Next]_vars => Recorded'
<1> SUFFICES ASSUME TypeOK, Calls, Holders, Recorded, [Next]_vars PROVE Recorded'
  OBVIOUS
<1> USE NoNegative DEF vars, kernelVars, ownerVars, callVars, TypeOK,
    Recorded, Active, Resetting
<1>1. ASSUME NEW t \in Threads, OpenRaw(t)
      PROVE  Recorded'
  BY <1>1 DEF OpenRaw
<1>2. ASSUME NEW t \in Threads, NEW f \in Fds, CloseRaw(t, f)
      PROVE  Recorded'
  BY <1>2 DEF CloseRaw
<1>3. ASSUME NEW t \in Threads, NEW o \in Objects, NEW f \in Fds,
             NEW w \in BOOLEAN, Construct(t, o, f, w)
      PROVE  Recorded'
  BY <1>3, NotInUse DEF Construct, registerFd, Holders
<1>4. ASSUME NEW t \in Threads, NEW o \in Objects, NEW other \in Objects,
             MoveConstruct(t, o, other)
      PROVE  Recorded'
  <2>1. /\ o # other /\ fd_[o] = -1
        /\ fd_' = [fd_ EXCEPT ![o] = fd_[other], ![other] = -1]
        /\ registered' = [registered EXCEPT ![o] = registered[other],
                                            ![other] = FALSE]
        /\ UNCHANGED <<records, pc, obj>>
    BY <1>4 DEF MoveConstruct
  <2>2. \A u \in Threads : obj[u] # o /\ obj[u] # other
    BY <1>4, NotInUse DEF MoveConstruct
  <2> QED
    BY <1>4, <2>1, <2>2, MovedRecord
<1>5. ASSUME NEW t \in Threads, NEW o \in Objects, release(t, o)
      PROVE  Recorded'
  BY <1>5, NotInUse DEF release, updateState, Holders
<1>6. ASSUME NEW t \in Threads, NEW o \in Objects, NEW f \in Fds \cup {-1},
             reset(t, o, f)
      PROVE  Recorded'
  BY <1>6, NotInUse DEF reset, Enter, Calls, CallOK
<1>7. ASSUME NEW t \in Threads, NEW o \in Objects, NEW other \in Objects,
             MoveAssign(t, o, other)
      PROVE  Recorded'
  BY <1>7, NotInUse DEF MoveAssign, Enter, Calls, CallOK
<1>8. ASSUME NEW t \in Threads, ResetMark(t)
      PROVE  Recorded'
  BY <1>8 DEF ResetMark, Goto, updateState, Holders, Calls, CallOK, Separate
<1>9. ASSUME NEW t \in Threads, ResetErase(t)
      PROVE  Recorded'
  BY <1>9 DEF ResetErase, Goto, unregisterFd, Holders, Calls, CallOK, Separate
<1>10. ASSUME NEW t \in Threads, ResetClose(t)
      PROVE  Recorded'
  BY <1>10 DEF ResetClose, Goto, Holders, Calls, CallOK, Separate
<1>11. ASSUME NEW t \in Threads, ResetAdopt(t)
      PROVE  Recorded'
  BY <1>11 DEF ResetAdopt, registerFd, Return, Holders, Calls, CallOK, Separate
<1>12. ASSUME NEW t \in Threads, AssignAdopt(t)
      PROVE  Recorded'
  <2>1. /\ obj[t] \in Objects /\ source[t] \in Objects /\ obj[t] # source[t]
        /\ fd_[obj[t]] = -1
    BY <1>12 DEF AssignAdopt, Calls, CallOK
  <2>2. /\ fd_' = [fd_ EXCEPT ![obj[t]] = fd_[source[t]], ![source[t]] = -1]
        /\ registered' = [registered EXCEPT ![obj[t]] = registered[source[t]],
                                            ![source[t]] = FALSE]
        /\ pc' = [pc EXCEPT ![t] = "idle"] /\ obj' = [obj EXCEPT ![t] = None]
        /\ pc[t] = "adopt" /\ UNCHANGED records
    BY <1>12 DEF AssignAdopt, Return
  <2>3. \A u \in Threads : u # t => obj[u] # obj[t] /\ obj[u] # source[t]
    BY <2>1, FdsAssumption DEF Calls, Separate
  <2>4. \A u \in Threads : /\ obj'[u] # obj[t] /\ obj'[u] # source[t]
                            /\ obj[u] = source[t] => pc[u] \notin {"erase",
                            "close"}
    BY <2>1, <2>2, <2>3, FdsAssumption
  <2> QED
    BY <2>1, <2>2, <2>3, <2>4, MovedRecord
<1>13. CASE UNCHANGED vars
  BY <1>13
<1> QED
  BY <1>1, <1>2, <1>3, <1>4, <1>5, <1>6, <1>7, <1>8, <1>9, <1>10, <1>11,
     <1>12, <1>13
  DEF Next
-----------------------------------------------------------------------------

\* No descriptor is open and no call is in progress at first.
LEMMA IInvInit == Init => IInv
<1> SUFFICES ASSUME Init PROVE IInv
  OBVIOUS
<1>1. Calls
  BY DEF Init, Calls, CallOK, Separate
<1>2. Holders
  BY DEF Init, Holders
<1>3. Recorded
  BY DEF Init, Recorded, Active
<1> QED
  BY <1>1, <1>2, <1>3, TypeInit DEF IInv

\* IInv is inductive.
LEMMA IInvCorrect == Spec => []IInv
<1>1. IInv /\ [Next]_vars => IInv'
  BY TypeStep, CallsStep, HoldersStep, RecordedStep DEF IInv
<1> QED
  BY IInvInit, <1>1, PTL DEF Spec

\* "Multiple objects must not own the same FD": however the threads'
\* constructions, moves, releases and resets interleave, an open descriptor has
\* one holder and no holder keeps a closed one, so nothing is closed twice.
THEOREM OneHolderCorrect == Spec => []OneHolder
<1>1. TypeOK /\ Holders => OneHolder
  <2> SUFFICES ASSUME TypeOK, Holders PROVE OneHolder
    OBVIOUS
  <2> USE NoNegative DEF TypeOK, Holders
  <2>1. Owned \cap raw = {}
    BY DEF Owned
  <2>2. raw \cap Adopting = {}
    BY DEF Adopting
  <2>3. Owned \cap Adopting = {}
    BY DEF Owned, Adopting
  <2>4. open = Owned \cup raw \cup Adopting
    <3>1. open \subseteq Owned \cup raw \cup Adopting
      BY DEF Owned, Adopting
    <3>2. Owned \subseteq open /\ raw \subseteq open /\ Adopting \subseteq open
      BY DEF Owned, Adopting
    <3> QED
      BY <3>1, <3>2
  <2> QED
    BY <2>1, <2>2, <2>3, <2>4 DEF OneHolder
<1> QED
  BY IInvCorrect, <1>1, PTL DEF IInv

\* The registry records Active exactly the descriptors of registered owners,
\* although numbers are reused at once and resets are not atomic.
THEOREM RegistryMatchesOwnersCorrect == Spec => []RegistryMatchesOwners
<1>1. TypeOK /\ Recorded => RegistryMatchesOwners
  <2> SUFFICES ASSUME TypeOK, Recorded PROVE RegistryMatchesOwners
    OBVIOUS
  <2>1. ASSUME NEW o \in Objects \ InUse, registered[o], fd_[o] # -1
        PROVE  Active(fd_[o])
    <3>1. ~Resetting(o)
      BY NotInUse DEF Resetting
    <3> QED
      BY <2>1, <3>1 DEF Recorded
  <2>2. ASSUME NEW f \in DOMAIN records, records[f] = "Active"
        PROVE  \E o \in Objects : fd_[o] = f /\ registered[o]
    BY <2>2 DEF Recorded, Active, TypeOK
  <2> QED
    BY <2>1, <2>2 DEF RegistryMatchesOwners, Active
<1> QED
  BY IInvCorrect, <1>1, PTL DEF IInv
==============================================================================
