----------------------------- MODULE Descriptors -----------------------------
(***************************************************************************)
(* FileDescriptor, the owner of a kernel descriptor, and FdRegistry, the   *)
(* record of descriptors that fd-status prints and that main searches for  *)
(* leaks when the daemon ends.                                             *)
(*                                                                         *)
(* The registry locks its mutex inside each call, so a reset is four       *)
(* steps another thread can fall between: mark the record Closed, erase    *)
(* it, close the descriptor, adopt the replacement.  The kernel hands out  *)
(* the lowest free number, so a closed number comes back at once.          *)
(*                                                                         *)
(* A FileDescriptor is used by one thread at a time and adopts only        *)
(* numbers the program holds as plain ints: fresh from socket(),           *)
(* accept4() and the like, or from release().                              *)
(***************************************************************************)
EXTENDS Integers, FiniteSets, FiniteSetsExt

CONSTANTS
    Threads,
    Objects,    \* FileDescriptor objects
    Fds,        \* descriptor numbers the kernel may hand out
    None        \* no object

ASSUME FdsAssumption == IsFiniteSet(Fds) /\ Fds \subseteq Nat /\ None \notin Objects

VARIABLES
    open,       \* descriptors open in the kernel
    raw,        \* open descriptors the program holds as plain ints
    fd_,        \* fd_[o], -1 when o owns nothing
    registered, \* registered[o]: registry_ is not null
    records,    \* FdRegistry: descriptor -> FdState
    pc,         \* the step of reset each thread is at, "idle" between calls
    obj,        \* the object that is reset
    next,       \* the descriptor it adopts afterwards, -1 for none
    source      \* the object a move assignment takes it from, or None

kernelVars == <<open, raw>>
ownerVars  == <<fd_, registered>>
callVars   == <<pc, obj, next, source>>
vars == <<kernelVars, ownerVars, records, callVars>>

Init ==
    /\ open = {} /\ raw = {}
    /\ fd_ = [o \in Objects |-> -1]
    /\ registered = [o \in Objects |-> FALSE]
    /\ records = [f \in {} |-> "Active"]
    /\ pc = [t \in Threads |-> "idle"]
    /\ obj = [t \in Threads |-> None]
    /\ next = [t \in Threads |-> -1]
    /\ source = [t \in Threads |-> None]

\* Objects a call in progress works on; no other thread may touch them.
InUse == {obj[t] : t \in Threads} \cup {source[t] : t \in Threads}

-----------------------------------------------------------------------------
(* FdRegistry: what each call leaves in records_.                          *)

registerFd(f) ==
    records' = [g \in DOMAIN records \cup {f} |->
                   IF g = f THEN "Active" ELSE records[g]]

updateState(f, state) ==
    records' = [g \in DOMAIN records |->
                   IF g = f THEN state ELSE records[g]]

unregisterFd(f) ==
    records' = [g \in DOMAIN records \ {f} |-> records[g]]

-----------------------------------------------------------------------------
(* The kernel, and descriptors the program handles as plain ints.          *)

OpenRaw(t) ==
    /\ pc[t] = "idle" /\ Fds \ open # {}
    /\ LET f == Min(Fds \ open)
       IN open' = open \cup {f} /\ raw' = raw \cup {f}
    /\ UNCHANGED <<ownerVars, records, callVars>>

\* ::close of an accepted connection or of a released descriptor.
CloseRaw(t, f) ==
    /\ pc[t] = "idle" /\ f \in raw
    /\ open' = open \ {f} /\ raw' = raw \ {f}
    /\ UNCHANGED <<ownerVars, records, callVars>>

-----------------------------------------------------------------------------
(* FileDescriptor.                                                         *)

\* FileDescriptor(fd, registry, type); without a registry, FileDescriptor(fd).
\* An object that owns nothing stands for one that is not constructed yet.
Construct(t, o, f, withRegistry) ==
    /\ pc[t] = "idle" /\ o \notin InUse /\ fd_[o] = -1
    /\ f \in raw /\ raw' = raw \ {f}
    /\ fd_' = [fd_ EXCEPT ![o] = f]
    /\ registered' = [registered EXCEPT ![o] = withRegistry]
    /\ \/ withRegistry /\ registerFd(f)
       \/ ~withRegistry /\ UNCHANGED records
    /\ UNCHANGED <<open, callVars>>

\* Mutant: the moved-from object keeps its descriptor.
MutMoveKeepsSource(t, o, other) ==
    /\ pc[t] = "idle" /\ o # other /\ {o, other} \cap InUse = {}
    /\ fd_[o] = -1
    /\ fd_' = [fd_ EXCEPT ![o] = fd_[other]]
    /\ registered' = [registered EXCEPT ![o] = registered[other],
                                        ![other] = FALSE]
    /\ UNCHANGED <<kernelVars, records, callVars>>

\* FileDescriptor(FileDescriptor &&other)
MoveConstruct(t, o, other) ==
    /\ pc[t] = "idle" /\ o # other /\ {o, other} \cap InUse = {}
    /\ fd_[o] = -1
    /\ fd_' = [fd_ EXCEPT ![o] = fd_[other], ![other] = -1]
    /\ registered' = [registered EXCEPT ![o] = registered[other],
                                        ![other] = FALSE]
    /\ UNCHANGED <<kernelVars, records, callVars>>

release(t, o) ==
    /\ pc[t] = "idle" /\ o \notin InUse /\ fd_[o] # -1
    /\ \/ registered[o] /\ updateState(fd_[o], "Released")
       \/ ~registered[o] /\ UNCHANGED records
    /\ fd_' = [fd_ EXCEPT ![o] = -1]
    /\ raw' = raw \cup {fd_[o]}
    /\ UNCHANGED <<open, registered, callVars>>

\* Enters reset() of o; the branches on fd_ and registry_ are taken here,
\* because no other thread changes them.
Enter(t, o, f, other) ==
    /\ pc' = [pc EXCEPT ![t] = IF fd_[o] = -1 THEN "adopt"
                               ELSE IF registered[o] THEN "mark" ELSE "close"]
    /\ obj' = [obj EXCEPT ![t] = o]
    /\ next' = [next EXCEPT ![t] = f]
    /\ source' = [source EXCEPT ![t] = other]

\* reset(fd), and reset() and the destructor, which adopt nothing.
reset(t, o, f) ==
    /\ pc[t] = "idle" /\ o \notin InUse
    /\ f \in raw \cup {-1} /\ raw' = raw \ {f}
    /\ Enter(t, o, f, None)
    /\ UNCHANGED <<open, ownerVars, records>>

\* operator=(FileDescriptor &&other); assigning an object to itself does
\* nothing.
MoveAssign(t, o, other) ==
    /\ pc[t] = "idle" /\ o # other /\ {o, other} \cap InUse = {}
    /\ Enter(t, o, -1, other)
    /\ UNCHANGED <<kernelVars, ownerVars, records>>

Goto(t, step) == pc' = [pc EXCEPT ![t] = step]

ResetMark(t) ==
    /\ pc[t] = "mark"
    /\ updateState(fd_[obj[t]], "Closed")
    /\ Goto(t, "erase")
    /\ UNCHANGED <<kernelVars, ownerVars, obj, next, source>>

ResetErase(t) ==
    /\ pc[t] = "erase"
    /\ unregisterFd(fd_[obj[t]])
    /\ Goto(t, "close")
    /\ UNCHANGED <<kernelVars, ownerVars, obj, next, source>>

ResetClose(t) ==
    /\ pc[t] = "close"
    /\ open' = open \ {fd_[obj[t]]}
    /\ fd_' = [fd_ EXCEPT ![obj[t]] = -1]
    /\ Goto(t, "adopt")
    /\ UNCHANGED <<raw, registered, records, obj, next, source>>

Return(t) ==
    /\ pc' = [pc EXCEPT ![t] = "idle"]
    /\ obj' = [obj EXCEPT ![t] = None]
    /\ next' = [next EXCEPT ![t] = -1]
    /\ source' = [source EXCEPT ![t] = None]

\* The rest of reset(): fd_ = fd, and its registration.
ResetAdopt(t) ==
    /\ pc[t] = "adopt" /\ source[t] = None
    /\ fd_' = [fd_ EXCEPT ![obj[t]] = next[t]]
    /\ \/ registered[obj[t]] /\ next[t] # -1 /\ registerFd(next[t])
       \/ ~(registered[obj[t]] /\ next[t] # -1) /\ UNCHANGED records
    /\ Return(t)
    /\ UNCHANGED <<kernelVars, registered>>

\* Mutant: the move assignment forgets registry_.
MutAssignForgetsRegistry(t) ==
    /\ pc[t] = "adopt" /\ source[t] # None
    /\ fd_' = [fd_ EXCEPT ![obj[t]] = fd_[source[t]], ![source[t]] = -1]
    /\ Return(t)
    /\ UNCHANGED <<kernelVars, registered, records>>

\* The rest of the move assignment.
AssignAdopt(t) ==
    /\ pc[t] = "adopt" /\ source[t] # None
    /\ fd_' = [fd_ EXCEPT ![obj[t]] = fd_[source[t]], ![source[t]] = -1]
    /\ registered' = [registered EXCEPT ![obj[t]] = registered[source[t]],
                                        ![source[t]] = FALSE]
    /\ Return(t)
    /\ UNCHANGED <<kernelVars, records>>

Next == \E t \in Threads :
    \/ OpenRaw(t)
    \/ \E f \in Fds : CloseRaw(t, f)
    \/ \E o \in Objects :
          \/ \E f \in Fds, withRegistry \in BOOLEAN :
                Construct(t, o, f, withRegistry)
          \/ \E other \in Objects :
                MoveConstruct(t, o, other) \/ MoveAssign(t, o, other)
          \/ release(t, o)
          \/ \E f \in Fds \cup {-1} : reset(t, o, f)
    \/ ResetMark(t) \/ ResetErase(t) \/ ResetClose(t)
    \/ ResetAdopt(t) \/ AssignAdopt(t)

Spec == Init /\ [][Next]_vars

-----------------------------------------------------------------------------
Owned == {fd_[o] : o \in Objects} \ {-1}
Adopting == {next[t] : t \in Threads} \ {-1}

\* The header's promise that "multiple objects must not own the same FD",
\* which is what rules out double closes: through moves, releases and resets
\* of several threads, an open descriptor has exactly one holder (an object,
\* a call about to store it, or the program as a plain int), and no holder
\* keeps a descriptor that is closed.
OneHolder ==
    /\ \A o, p \in Objects : fd_[o] = fd_[p] /\ fd_[o] # -1 => o = p
    /\ \A t, u \in Threads : next[t] = next[u] /\ next[t] # -1 => t = u
    /\ Owned \cap raw = {} /\ Owned \cap Adopting = {} /\ raw \cap Adopting = {}
    /\ open = Owned \cup raw \cup Adopting

\* What fd-status and main's search for leaks rest on.  An object that has a
\* registry and is not being reset has its descriptor recorded as Active,
\* although numbers come back as soon as they are closed and another thread
\* may be anywhere in a reset of its own; and a record that says Active names
\* a descriptor some object with a registry still owns, so that none is left
\* once every object is destroyed.
RegistryMatchesOwners ==
    /\ \A o \in Objects \ InUse :
          registered[o] /\ fd_[o] # -1 =>
              fd_[o] \in DOMAIN records /\ records[fd_[o]] = "Active"
    /\ \A f \in DOMAIN records :
          records[f] = "Active" =>
              \E o \in Objects : fd_[o] = f /\ registered[o]
=============================================================================
