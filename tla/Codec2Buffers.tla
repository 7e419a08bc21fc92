---------------------------- MODULE Codec2Buffers ----------------------------
(***************************************************************************)
(* The Android 14 GraphicBuffer the vendor's codec library is given        *)
(* (compat/codec2-v34): an object in memory the caller provides, which     *)
(* owns an imported clone of a handle or an AHardwareBuffer, the latter    *)
(* kept in a table by the object's address.                                *)
(*                                                                         *)
(* Each object is used by one thread at a time, and its memory is used     *)
(* again once its destructor has returned; the threads of other objects    *)
(* run in between.  gralloc's resources are numbered.                      *)
(***************************************************************************)
EXTENDS Integers, FiniteSets

CONSTANTS C2Objects, C2Resources, kCloneHandle, C2Methods

(* A resource is a pointer, and never null.                                *)
ASSUME C2Assumption == C2Resources \subseteq Nat \ {0}

VARIABLES c2Allowed,          \* surfaceOutputAllowed
          c2Object,           \* address -> the object
          gHardwareBuffers,   \* address -> the AHardwareBuffer, C2None without entry
          c2Live,             \* what gralloc has allocated or imported
          c2Locks             \* AHardwareBuffer -> how often it is locked

c2Vars == <<c2Allowed, c2Object, gHardwareBuffers, c2Live, c2Locks>>

C2None == 0
(* kind: a "slot" is what the constructor without arguments makes.         *)
C2Free == [state |-> "free", owner |-> "data", mapper |-> FALSE, init |-> "NO_INIT",
           kind |-> "buffer", handle |-> C2None, held |-> C2None, locked |-> 0]

(* The constructor all others begin with.                                  *)
GraphicBufferV34(usable, withMapper) ==
  [C2Free EXCEPT !.state = "live", !.mapper = withMapper,
                 !.init = IF usable THEN "NO_ERROR" ELSE "NO_INIT"]

C2Init ==
  /\ c2Allowed \in BOOLEAN
  /\ c2Object = [o \in C2Objects |-> C2Free]
  /\ gHardwareBuffers = [o \in C2Objects |-> C2None]
  /\ c2Live = {}
  /\ c2Locks = [r \in C2Resources |-> 0]

C2Fresh == C2Resources \ c2Live
C2Set(o, object) == c2Object' = [c2Object EXCEPT ![o] = object]

refuse(o) ==
  /\ C2Set(o, GraphicBufferV34(FALSE, TRUE))
  /\ UNCHANGED <<c2Allowed, gHardwareBuffers, c2Live, c2Locks>>

Construct(o) ==
  /\ c2Object[o].state = "free"
  /\ \/ ~c2Allowed /\ refuse(o)
     \/ /\ c2Allowed
        /\ C2Set(o, [GraphicBufferV34(TRUE, TRUE) EXCEPT !.kind = "slot"])
        /\ UNCHANGED <<c2Allowed, gHardwareBuffers, c2Live, c2Locks>>

C2Status == {"NO_ERROR", "error"}

(* What is reported when there is no buffer, whatever gralloc said.        *)
C2Failed(err) == IF err # "NO_ERROR" THEN err ELSE "NO_INIT"

(* The mapper imports a clone, or returns an error or no handle.           *)
importClone(o) ==
  \/ \E h \in C2Fresh :
       /\ c2Live' = c2Live \cup {h}
       /\ C2Set(o, [GraphicBufferV34(TRUE, TRUE) EXCEPT !.owner = "handle", !.handle = h])
  \/ /\ \E err \in C2Status :
          C2Set(o, [GraphicBufferV34(TRUE, TRUE) EXCEPT !.init = C2Failed(err)])
     /\ UNCHANGED c2Live

ConstructWithHandle(o, method, given) ==
  /\ c2Object[o].state = "free"
  /\ \/ ~c2Allowed /\ refuse(o)
     \/ /\ c2Allowed
        /\ \/ method = kCloneHandle /\ given /\ importClone(o)
           \/ /\ ~(method = kCloneHandle /\ given)
              /\ C2Set(o, [GraphicBufferV34(TRUE, TRUE) EXCEPT !.init = "NO_INIT"])
              /\ UNCHANGED c2Live
        /\ UNCHANGED <<c2Allowed, gHardwareBuffers, c2Locks>>

(* The allocation succeeds; or fails, or gives no buffer, or one without a *)
(* handle, which is released again.                                        *)
allocate(o) ==
  \/ \E b \in C2Fresh :
       /\ c2Live' = c2Live \cup {b}
       /\ gHardwareBuffers' = [gHardwareBuffers EXCEPT ![o] = b]
       /\ C2Set(o, [GraphicBufferV34(TRUE, FALSE) EXCEPT !.handle = b])
  \/ /\ \E err \in C2Status :
          C2Set(o, [GraphicBufferV34(TRUE, FALSE) EXCEPT !.init = C2Failed(err)])
     /\ UNCHANGED <<c2Live, gHardwareBuffers>>

ConstructAllocated(o) ==
  /\ c2Object[o].state = "free"
  /\ allocate(o)
  /\ UNCHANGED <<c2Allowed, c2Locks>>

(* The destructor frees the clone it owns and takes its entry out of the   *)
(* table; the AHardwareBuffer is released after the lock is.  The owner    *)
(* has unlocked the buffer.                                                *)
DestroyBegins(o) ==
  LET object == c2Object[o] IN
  /\ object.state = "live" /\ object.locked = 0
  /\ c2Live' = IF object.handle # C2None /\ object.owner = "handle" /\ object.mapper
               THEN c2Live \ {object.handle} ELSE c2Live
  /\ C2Set(o, [object EXCEPT !.state = "dying", !.handle = C2None, !.held = gHardwareBuffers[o]])
  /\ gHardwareBuffers' = [gHardwareBuffers EXCEPT ![o] = C2None]
  /\ UNCHANGED <<c2Allowed, c2Locks>>

DestroyEnds(o) ==
  /\ c2Object[o].state = "dying"
  /\ c2Live' = c2Live \ {c2Object[o].held}
  /\ C2Set(o, C2Free)
  /\ UNCHANGED <<c2Allowed, gHardwareBuffers, c2Locks>>

(* A mutant of lockYCbCr: leaves a buffer without three planes locked.     *)
LockYCbCrKeeps(o) ==
  LET buffer == gHardwareBuffers[o] IN
  /\ c2Object[o].state = "live" /\ buffer # C2None /\ c2Object[o].locked < 2
  /\ \E planes \in {1, 3} :
       /\ c2Locks' = [c2Locks EXCEPT ![buffer] = @ + 1]
       /\ C2Set(o, [c2Object[o] EXCEPT !.locked = @ + (IF planes = 3 THEN 1 ELSE 0)])
  /\ UNCHANGED <<c2Allowed, gHardwareBuffers, c2Live>>

(* The lock holds when it has three planes; otherwise it is given back.    *)
(* locked: what the caller was told.                                       *)
lockYCbCr(o) ==
  LET buffer == gHardwareBuffers[o] IN
  /\ c2Object[o].state = "live" /\ buffer # C2None /\ c2Object[o].locked < 2
  /\ \E planes \in {1, 3} :
       /\ c2Locks' = IF planes = 3 THEN [c2Locks EXCEPT ![buffer] = @ + 1] ELSE c2Locks
       /\ C2Set(o, [c2Object[o] EXCEPT !.locked = @ + (IF planes = 3 THEN 1 ELSE 0)])
  /\ UNCHANGED <<c2Allowed, gHardwareBuffers, c2Live>>

unlock(o) ==
  LET buffer == gHardwareBuffers[o] IN
  /\ c2Object[o].state = "live" /\ c2Object[o].locked > 0 /\ buffer # C2None
  /\ c2Locks' = [c2Locks EXCEPT ![buffer] = @ - 1]
  /\ C2Set(o, [c2Object[o] EXCEPT !.locked = @ - 1])
  /\ UNCHANGED <<c2Allowed, gHardwareBuffers, c2Live>>

C2Next ==
  \E o \in C2Objects :
    \/ Construct(o) \/ ConstructAllocated(o)
    \/ (\E method \in C2Methods, given \in BOOLEAN : ConstructWithHandle(o, method, given))
    \/ DestroyBegins(o) \/ DestroyEnds(o) \/ lockYCbCr(o) \/ unlock(o)

C2Spec == C2Init /\ [][C2Next]_c2Vars

-----------------------------------------------------------------------------
C2Owns(o) == {c2Object[o].handle, gHardwareBuffers[o], c2Object[o].held} \ {C2None}

(* Nothing leaks and nothing is freed twice: what gralloc has out is owned *)
(* by exactly one object, live or being destroyed, through its clone or    *)
(* its entry in gHardwareBuffers; memory without an object owns nothing,   *)
(* and no entry outlives its object to be found by the next one at that    *)
(* address.  A buffer is locked as often as its owner was told so, so one  *)
(* that is released is unlocked.  An object has a buffer exactly if its    *)
(* caller is told it is usable, unless it is the empty slot: an import or  *)
(* an allocation that failed is never reported as NO_ERROR, and nothing is *)
(* kept of it.  No clone is made on a boot without hardware decoders.      *)
HandlesOwned ==
  /\ c2Live = UNION {C2Owns(o) : o \in C2Objects}
  /\ \A o, p \in C2Objects : o # p => C2Owns(o) \cap C2Owns(p) = {}
  /\ \A o \in C2Objects :
       LET object == c2Object[o] IN
       /\ object.state = "free" => C2Owns(o) = {}
       /\ Cardinality(C2Owns(o)) <= 1
       /\ object.init # "NO_ERROR" => C2Owns(o) = {}
       /\ object.state = "live" /\ object.init = "NO_ERROR" /\ object.kind = "buffer" =>
            C2Owns(o) # {}
       /\ object.owner = "handle" => c2Allowed
       /\ gHardwareBuffers[o] # C2None => c2Locks[gHardwareBuffers[o]] = object.locked
  /\ \A r \in C2Resources \ c2Live : c2Locks[r] = 0

=============================================================================
